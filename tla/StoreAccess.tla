---------------------------- MODULE StoreAccess ----------------------------
(***************************************************************************)
(* The two mutexes every task meets: the store's, of tag_runtime.cpp, and  *)
(* the logger's.  One tag of the store, written by the acquisition task    *)
(* field by field and copied by the publisher and the display, while the   *)
(* Modbus worker's handlers deliver answers and the event task deletes and *)
(* creates the tasks of the MQTT connection.  DataPath has the store's     *)
(* section as one step; here it is taken apart.                            *)
(***************************************************************************)
EXTENDS Logger, Naturals, Sequences

CONSTANTS
  Publishers,         \* the publisher tasks (at times two, see Publisher)
  Displays,           \* nextionTask
  Deletable,          \* mqttTask and subscriberTask
  ResponseCapacity,   \* xQueueCreate(30, ...) of acquisition_init
  MaxSamples,         \* bound on the samples of the tag
  MaxDeletions        \* bound on mqtt_stop and subscriber_stop

Reader == Publishers \cup Displays
Fixed == {"acquisition", "worker", "events"}
Task == Fixed \cup Reader \cup Deletable

ASSUME StoreAccessAssumption ==
  /\ Publishers \cap Displays = {}
  /\ Reader \cap (Fixed \cup Deletable) = {}
  /\ Deletable \cap Fixed = {}
  /\ NONE \notin Task /\ DELETED \notin Task
  /\ ResponseCapacity \in Nat \ {0}
  /\ MaxSamples \in Nat /\ MaxDeletions \in Nat

VARIABLES
  pc,           \* where each task is
  storeOwner,   \* the task that holds gRuntimeMutex, or NONE
  store,        \* the tag's entry in gTagRuntime
  samples,      \* how many samples the device has given
  answers,      \* gAcqResponseQueue: samples, and 0 for a failed read
  commHealthy,  \* gModbusCommHealthy
  answer,       \* the answer in the acquisition task's hands, or 0
  copy,         \* localTag of each reader
  shown,        \* what each reader last sent to the broker or the display
  victim,       \* the task the event task's handler is about
  deletions     \* how many stops have begun

workVars == <<samples, answers, commHealthy>>
readVars == <<copy, shown>>
eventVars == <<victim, deletions>>
vars == <<loggerOwner, pc, storeOwner, store, workVars, answer, readVars,
          eventVars>>

Entry == [value : 0 .. MaxSamples, timestamp : 0 .. MaxSamples, valid : BOOLEAN]
Blank == [value |-> 0, timestamp |-> 0, valid |-> FALSE]

\* tag_runtime_init and app_start are done.
Init ==
  /\ LoggerInit
  /\ pc = [task \in Task |->
             CASE task = "acquisition" -> "receive"
               [] task = "worker" -> "transact"
               [] task = "events" -> "handle"
               [] task \in Reader -> "look"
               [] task \in Deletable -> "wait"]
  /\ storeOwner = NONE
  /\ store = Blank
  /\ samples = 0
  /\ answers = <<>>
  /\ commHealthy = TRUE
  /\ answer = 0
  /\ copy = [r \in Reader |-> Blank]
  /\ shown = [r \in Reader |-> Blank]
  /\ victim = NONE
  /\ deletions = 0

Goes(task, from, to) ==
  /\ pc[task] = from
  /\ pc' = [pc EXCEPT ![task] = to]

----------------------------------------------------------------------------
(* Calls every task makes *)

\* The places a task logs from, and where each goes on.
AfterLog ==
  [log_error |-> "judge", log_no_up |-> "post_sample", log_no_down |-> "post",
   log_full |-> "transact", log_invalid |-> "unlock", log_refused |-> "look",
   log_outcome |-> "wait", log_stopping |-> "delete", log_stopped |-> "handle",
   log_starting |-> "create"]

Place ==
  {"transact", "judge", "post", "post_sample", "receive", "want_store", "locked", "valid",
   "timestamp", "copying", "unlock", "look", "show", "wait", "deleted", "handle",
   "delete", "create"} \cup DOMAIN AfterLog

BeginLog(task) ==
  /\ pc[task] \in DOMAIN AfterLog
  /\ TakeLogger(task)
  /\ UNCHANGED <<pc, storeOwner, store, workVars, answer, readVars, eventVars>>

EndLog(task) ==
  /\ pc[task] \in DOMAIN AfterLog
  /\ GiveLogger(task)
  /\ pc' = [pc EXCEPT ![task] = AfterLog[@]]
  /\ UNCHANGED <<storeOwner, store, workVars, answer, readVars, eventVars>>

\* Mutant: the result of xSemaphoreTake is not looked at, and it does not wait.
TakeStoreAnyway(task) ==
  /\ Goes(task, "want_store", "locked")
  /\ storeOwner' = task
  /\ UNCHANGED <<loggerOwner, store, workVars, answer, readVars, eventVars>>

\* tag_runtime_lock waits without limit.
TakeStore(task) ==
  /\ Goes(task, "want_store", "locked")
  /\ storeOwner = NONE
  /\ storeOwner' = task
  /\ UNCHANGED <<loggerOwner, store, workVars, answer, readVars, eventVars>>

\* tag_runtime_unlock.
Unlock(task) ==
  /\ Goes(task, "unlock", IF task = "acquisition" THEN "receive" ELSE "show")
  /\ storeOwner' = NONE
  /\ answer' = IF task = "acquisition" THEN 0 ELSE answer
  /\ UNCHANGED <<loggerOwner, store, workVars, readVars, eventVars>>

----------------------------------------------------------------------------
(* The Modbus worker: on_modbus_data and on_modbus_error *)

\* Mutant: the sample is queued although the queue is full.
PostResponseAlways(from, response) ==
  /\ answers' = Append(answers, response)
  /\ Goes("worker", from, "transact")
  /\ UNCHANGED <<loggerOwner, storeOwner, store, commHealthy, answer, readVars,
                 eventVars>>

\* acquisition_post_response does not wait, but logs that the queue is full.
PostResponse(from, response) ==
  /\ IF Len(answers) < ResponseCapacity
     THEN /\ answers' = Append(answers, response)
          /\ Goes("worker", from, "transact")
     ELSE /\ Goes("worker", from, "log_full")
          /\ UNCHANGED answers
  /\ UNCHANGED <<loggerOwner, storeOwner, store, commHealthy, answer, readVars,
                 eventVars>>

\* event_post waits up to 500 ms for room in the event task's queue: the wait
\* is the step not yet taken.  A failure is logged, and then ignored.
EventPost(from, posted, failed) ==
  /\ Goes("worker", from, posted) \/ Goes("worker", from, failed)
  /\ UNCHANGED <<loggerOwner, storeOwner, store, samples, answers, answer,
                 readVars, eventVars>>

PostSample(from) ==
  /\ samples < MaxSamples
  /\ samples' = samples + 1
  /\ PostResponse(from, samples + 1)

\* on_modbus_data; the first answer after an error is announced before it is
\* posted.
DataHandler ==
  /\ commHealthy
  /\ PostSample("transact")

DataHandlerAnnounces ==
  /\ ~commHealthy
  /\ samples < MaxSamples
  /\ commHealthy' = TRUE
  /\ EventPost("transact", "post_sample", "log_no_up")

DataHandlerPosts == PostSample("post_sample")

\* on_modbus_error logs before it does anything else.
ErrorHandler ==
  /\ Goes("worker", "transact", "log_error")
  /\ UNCHANGED <<loggerOwner, storeOwner, store, workVars, answer, readVars,
                 eventVars>>

\* The first error is announced.
ErrorHandlerAnnounces ==
  /\ commHealthy
  /\ commHealthy' = FALSE
  /\ EventPost("judge", "post", "log_no_down")

ErrorHandlerPosts ==
  /\ \/ PostResponse("post", 0)
     \/ ~commHealthy /\ PostResponse("judge", 0)
  /\ UNCHANGED samples

Worker ==
  \/ DataHandler \/ DataHandlerAnnounces \/ DataHandlerPosts
  \/ ErrorHandler \/ ErrorHandlerAnnounces \/ ErrorHandlerPosts

----------------------------------------------------------------------------
(* acquisition_task *)

ReceiveAnswer ==
  /\ Goes("acquisition", "receive", "want_store")
  /\ answers # <<>>
  /\ answer' = Head(answers)
  /\ answers' = Tail(answers)
  /\ UNCHANGED <<loggerOwner, storeOwner, store, samples, commHealthy, readVars,
                 eventVars>>

WriteStore(entry) ==
  /\ store' = entry
  /\ UNCHANGED <<loggerOwner, storeOwner, workVars, answer, readVars, eventVars>>

WriteValue ==
  /\ Goes("acquisition", "locked", "valid")
  /\ answer > 0
  /\ WriteStore([store EXCEPT !.value = answer])

\* Mutant: the time is forgotten.
WriteValidOnly ==
  /\ Goes("acquisition", "valid", "unlock")
  /\ WriteStore([store EXCEPT !.valid = TRUE])

WriteValid ==
  /\ Goes("acquisition", "valid", "timestamp")
  /\ WriteStore([store EXCEPT !.valid = TRUE])

\* millis(), as the number of the sample it is taken with.  changed, the
\* last field, has no reader.
WriteTimestamp ==
  /\ Goes("acquisition", "timestamp", "unlock")
  /\ WriteStore([store EXCEPT !.timestamp = answer])

\* Mutant: the entry is cleared.
ClearEntry ==
  /\ Goes("acquisition", "locked", "log_invalid")
  /\ answer = 0
  /\ WriteStore(Blank)

\* Mutant: the failed branch goes back to the queue without unlocking.
InvalidateAndLeave ==
  /\ Goes("acquisition", "locked", "receive")
  /\ answer = 0
  /\ WriteStore([store EXCEPT !.valid = FALSE])

\* A failed read.  The error is logged with the store still locked.
Invalidate ==
  /\ Goes("acquisition", "locked", "log_invalid")
  /\ answer = 0
  /\ WriteStore([store EXCEPT !.valid = FALSE])

----------------------------------------------------------------------------
(* publisherTask and nextionTask: one turn of the loop over the tags *)

\* valid is looked at without the lock.
Look(r) ==
  /\ Goes(r, "look", "want_store")
  /\ store.valid
  /\ UNCHANGED <<loggerOwner, storeOwner, store, workVars, answer, readVars,
                 eventVars>>

\* memcpy of the entry, in two parts.
CopyValue(r) ==
  /\ r \in Reader
  /\ Goes(r, "locked", "copying")
  /\ copy' = [copy EXCEPT ![r].value = store.value]
  /\ UNCHANGED <<loggerOwner, storeOwner, store, workVars, answer, shown,
                 eventVars>>

CopyRest(r) ==
  /\ Goes(r, "copying", "unlock")
  /\ copy' = [copy EXCEPT ![r] = [value |-> @.value,
                                  timestamp |-> store.timestamp,
                                  valid |-> store.valid]]
  /\ UNCHANGED <<loggerOwner, storeOwner, store, workVars, answer, shown,
                 eventVars>>

\* The copy is sent as it is, its valid field not looked at again.  What
\* mqtt_publish refuses is logged.  The next turn clears localTag.
Show(r) ==
  /\ \/ Goes(r, "show", "look")
     \/ r \in Publishers /\ Goes(r, "show", "log_refused")
  /\ shown' = [shown EXCEPT ![r] = copy[r]]
  /\ copy' = [copy EXCEPT ![r] = Blank]
  /\ UNCHANGED <<loggerOwner, storeOwner, store, workVars, answer, eventVars>>

----------------------------------------------------------------------------
(* The tasks of the connection, and the event task that ends them *)

\* mqttTask has published a message, subscriberTask handled one.
Handle(task) ==
  /\ Goes(task, "wait", "log_outcome")
  /\ UNCHANGED <<loggerOwner, storeOwner, store, workVars, answer, readVars,
                 eventVars>>

\* mqtt_stop or subscriber_stop is called for a task that exists.
StopTask(task) ==
  /\ Goes("events", "handle", "log_stopping")
  /\ pc[task] # "deleted"
  /\ deletions < MaxDeletions
  /\ victim' = task
  /\ deletions' = deletions + 1
  /\ UNCHANGED <<loggerOwner, storeOwner, store, workVars, answer, readVars>>

\* vTaskDelete, wherever the task is.
DeleteTask ==
  /\ pc["events"] = "delete"
  /\ pc' = [pc EXCEPT ![victim] = "deleted", !["events"] = "log_stopped"]
  /\ LoseHolder(victim)
  /\ victim' = NONE
  /\ UNCHANGED <<storeOwner, store, workVars, answer, readVars, deletions>>

\* mqtt_start or subscriber_start, after a stop.
StartTask(task) ==
  /\ Goes("events", "handle", "log_starting")
  /\ pc[task] = "deleted"
  /\ victim' = task
  /\ UNCHANGED <<loggerOwner, storeOwner, store, workVars, answer, readVars,
                 deletions>>

CreateTask ==
  /\ pc["events"] = "create"
  /\ pc' = [pc EXCEPT ![victim] = "wait", !["events"] = "handle"]
  /\ victim' = NONE
  /\ UNCHANGED <<loggerOwner, storeOwner, store, workVars, answer, readVars,
                 deletions>>

----------------------------------------------------------------------------
Own(task) ==
  \/ task = "worker" /\ Worker
  \/ /\ task = "acquisition"
     /\ \/ ReceiveAnswer \/ WriteValue \/ WriteValid \/ WriteTimestamp
        \/ Invalidate
  \/ task \in Reader /\ (Look(task) \/ CopyValue(task) \/ CopyRest(task) \/ Show(task))
  \/ task \in Deletable /\ Handle(task)
  \/ task = "events" /\ (DeleteTask \/ CreateTask)

\* The network or the broker comes or goes.
Connection ==
  \E task \in Deletable : StopTask(task) \/ StartTask(task)

Next ==
  \/ Connection
  \/ \E task \in Task :
       \/ Own(task) \/ Unlock(task)
       \/ BeginLog(task) \/ EndLog(task)
       \/ TakeStore(task)

SafeSpec == Init /\ [][Next]_vars

\* A task goes on when it can.  One that waits for a mutex gets it in the end
\* if it keeps coming free: FreeRTOS wakes the waiters in turn, and every task
\* that takes one sleeps or waits for a queue again and again.  It is assumed
\* of the two tasks the properties are about only.  Nothing is assumed of the
\* connection.
Fairness ==
  /\ \A task \in Task : WF_vars(Own(task) \/ Unlock(task) \/ EndLog(task))
  /\ \A task \in {"acquisition", "worker"} : SF_vars(BeginLog(task))
  /\ SF_vars(TakeStore("acquisition"))

Spec == SafeSpec /\ Fairness

----------------------------------------------------------------------------
(* Properties *)

\* Every variable has its type, and the response queue its length.
TypeOK ==
  /\ loggerOwner \in Task \cup {NONE, DELETED}
  /\ pc \in [Task -> Place]
  /\ storeOwner \in Task \cup {NONE}
  /\ store \in Entry
  /\ samples \in 0 .. MaxSamples
  /\ answers \in Seq(0 .. MaxSamples) /\ Len(answers) <= ResponseCapacity
  /\ commHealthy \in BOOLEAN
  /\ answer \in 0 .. MaxSamples
  /\ copy \in [Reader -> Entry]
  /\ shown \in [Reader -> Entry]
  /\ victim \in Deletable \cup {NONE}
  /\ deletions \in 0 .. MaxDeletions

\* What goes to the broker or the display is one sample with its own time,
\* although valid was looked at without the lock and the fields are written
\* one by one (publisher.cpp:87-95, nextion_service.cpp:82-92).
CopiesWhole ==
  \A r \in Reader : pc[r] \in {"unlock", "show"} =>
    copy[r].value > 0 /\ copy[r].timestamp = copy[r].value

\* A reader never shows an older sample after a newer one.
ShownForward ==
  [][\A r \in Reader : shown'[r].value >= shown[r].value]_shown

\* The fields, seen as one entry that changes in one step: a sample being
\* written counts from its first field on.
StoredTag ==
  IF pc["acquisition"] \in {"valid", "timestamp"}
  THEN [value |-> answer, timestamp |-> answer, valid |-> TRUE]
  ELSE store

\* A copy, seen as taken in one step, with its first half.
TakenCopies == [r \in Reader |-> IF pc[r] = "copying" THEN store ELSE copy[r]]

Snapshots == INSTANCE SnapshotStore WITH tag <- StoredTag, taken <- TakenCopies

\* Field-wise writes and copies under the mutex implement SnapshotStore.
ImplementsSnapshotStore == Snapshots!Spec

\* The acquisition task always comes back for the next answer, unless the
\* logger is lost: it shares the store with the readers, and waits for the
\* logger with the store in hand (acquisition.cpp:79-93).
AnswersTaken ==
  pc["acquisition"] # "receive" ~> pc["acquisition"] = "receive" \/ LoggerLost

\* The Modbus worker always comes back from its handlers, unless a task was
\* deleted with the logger in hand (logger.cpp:38).
HandlersReturn ==
  pc["worker"] # "transact" ~> pc["worker"] = "transact" \/ LoggerLost

\* acquisition.cpp:22 says of posting a response "so the protocol callback is
\* never blocked": on_modbus_error gets to post it.
CallbackNeverBlocked ==
  pc["worker"] = "log_error" ~> pc["worker"] # "log_error"
=============================================================================
