------------------------- MODULE StoreAccess_proofs -------------------------
(***************************************************************************)
(* Proofs about StoreAccess, for any readers, any tasks of the connection, *)
(* any queue length and any number of samples.                             *)
(***************************************************************************)
EXTENDS StoreAccess, SequenceTheorems, TLAPS

----------------------------------------------------------------------------
(* The inductive invariant *)

Critical ==
  {"locked", "valid", "timestamp", "log_invalid", "copying", "unlock"}

\* Each task is somewhere in its own code.
Program ==
  /\ pc \in [Task -> Place]
  /\ pc["acquisition"] \in {"receive", "want_store", "locked", "valid",
                            "timestamp", "log_invalid", "unlock"}
  /\ pc["worker"] \in {"transact", "log_error", "judge", "post", "post_sample",
                       "log_full", "log_no_up", "log_no_down"}
  /\ pc["events"] \in {"handle", "log_stopping", "delete", "log_stopped",
                       "log_starting", "create"}
  /\ \A r \in Reader : pc[r] \in {"look", "want_store", "locked", "copying",
                                  "unlock", "show", "log_refused"}
  /\ \A task \in Deletable : pc[task] \in {"wait", "log_outcome", "deleted"}
  /\ victim \in Deletable \cup {NONE}

\* Who is in the store's section holds its mutex.
Exclusion ==
  \A task \in Task : pc[task] \in Critical <=> storeOwner = task

\* The entry's fields agree, but for those the acquisition task still has to
\* write.
Written ==
  /\ store \in [value : Nat, timestamp : Nat, valid : BOOLEAN]
  /\ answer \in Nat
  /\ store.valid => store.value > 0
  /\ pc["acquisition"] \in {"valid", "timestamp"} =>
       answer > 0 /\ store.value = answer
  /\ pc["acquisition"] = "timestamp" => store.valid
  /\ pc["acquisition"] \notin {"valid", "timestamp"} =>
       store.timestamp = store.value

\* A reader that goes for the store finds a sample there, and what it has
\* copied is one sample.
Copied ==
  /\ copy \in [Reader -> [value : Nat, timestamp : Nat, valid : BOOLEAN]]
  /\ \A r \in Reader :
       /\ pc[r] \in {"want_store", "locked", "copying"} => store.value > 0
       /\ pc[r] = "copying" => copy[r].value = store.value
       /\ pc[r] \in {"unlock", "show"} =>
            copy[r].value > 0 /\ copy[r].timestamp = copy[r].value

\* Samples are delivered, stored, copied and shown in the order they were taken.
Ordered ==
  /\ samples \in Nat /\ store.value <= samples /\ answer <= samples
  /\ answers \in Seq(Nat)
  /\ \A i \in 1 .. Len(answers) :
       /\ answers[i] <= samples
       /\ answers[i] = 0 \/ (answers[i] > store.value /\ answers[i] > answer)
       /\ \A j \in 1 .. Len(answers) :
            i < j /\ answers[j] # 0 => answers[i] < answers[j]
  /\ pc["acquisition"] \in {"want_store", "locked"} =>
       answer = 0 \/ answer > store.value
  /\ shown \in [Reader -> [value : Nat, timestamp : Nat, valid : BOOLEAN]]
  /\ \A r \in Reader :
       /\ shown[r].value <= store.value
       /\ pc[r] \in {"copying", "unlock", "show"} =>
            shown[r].value <= copy[r].value /\ copy[r].value <= store.value

IInv == Program /\ Exclusion /\ Written /\ Copied /\ Ordered

----------------------------------------------------------------------------
(* The steps *)

LEMMA Names ==
  /\ {"acquisition", "worker", "events"} \subseteq Task
  /\ Reader \subseteq Task /\ Deletable \subseteq Task
  /\ Reader \cap Deletable = {}
  /\ \A r \in Reader : r \notin {"acquisition", "worker", "events"}
  /\ \A task \in Deletable : task \notin {"acquisition", "worker", "events"}
  /\ NONE \notin Task
  /\ Task = {"acquisition", "worker", "events"} \cup Reader \cup Deletable
  BY StoreAccessAssumption DEF Task, Fixed

\* The worker's handlers touch the response queue, the count of samples and
\* the health of the bus, and go on to their next place.
LEMMA WorkerMoves ==
  ASSUME Worker
  PROVE  /\ UNCHANGED <<loggerOwner, storeOwner, store, answer, copy, shown, victim,
                        deletions>>
         /\ pc["worker"] \in {"transact", "judge", "post", "post_sample"}
         /\ \E to \in {"transact", "post", "post_sample", "log_error", "log_full",
                      "log_no_up", "log_no_down"} :
              pc' = [pc EXCEPT !["worker"] = to]
  <1>1. \A from, response :
          PostResponse(from, response) =>
            /\ UNCHANGED <<loggerOwner, storeOwner, store, answer, copy, shown, victim,
                           deletions>>
            /\ pc["worker"] = from
            /\ \E to \in {"transact", "log_full"} : pc' = [pc EXCEPT !["worker"] = to]
    BY DEF PostResponse, Goes, readVars, eventVars
  <1>2. CASE DataHandler \/ DataHandlerPosts \/ ErrorHandlerPosts
    BY <1>1, <1>2 DEF DataHandler, DataHandlerPosts, PostSample, ErrorHandlerPosts
  <1>3. CASE DataHandlerAnnounces
    BY <1>3 DEF DataHandlerAnnounces, EventPost, Goes, readVars, eventVars
  <1>4. CASE ErrorHandler
    BY <1>4 DEF ErrorHandler, Goes, readVars, eventVars
  <1>5. CASE ErrorHandlerAnnounces
    BY <1>5 DEF ErrorHandlerAnnounces, EventPost, Goes, readVars, eventVars
  <1>. QED
    BY <1>2, <1>3, <1>4, <1>5 DEF Worker

LEMMA ProgramStep ==
  ASSUME Program, Next PROVE Program'
  <1>. USE Names DEF Program, Place, AfterLog
  <1>1. CASE Worker
    BY <1>1, WorkerMoves
  <1>2. CASE \/ ReceiveAnswer \/ WriteValue \/ WriteValid \/ WriteTimestamp
             \/ Invalidate
    BY <1>2 DEF ReceiveAnswer, WriteValue, WriteValid, WriteTimestamp,
                Invalidate, WriteStore, Goes, eventVars
  <1>3. ASSUME NEW r \in Reader, Look(r) \/ CopyValue(r) \/ CopyRest(r) \/ Show(r)
        PROVE  Program'
    BY <1>3 DEF Look, CopyValue, CopyRest, Show, Goes, eventVars
  <1>4. ASSUME NEW task \in Deletable,
               Handle(task) \/ StopTask(task) \/ StartTask(task)
        PROVE  Program'
    BY <1>4 DEF Handle, StopTask, StartTask, Goes, eventVars
  <1>5. CASE DeleteTask \/ CreateTask
    BY <1>5 DEF DeleteTask, CreateTask
  <1>6. ASSUME NEW task \in Task, Unlock(task) \/ BeginLog(task) \/ TakeStore(task)
        PROVE  Program'
    BY <1>6 DEF Unlock, BeginLog, TakeStore, Goes, eventVars
  <1>7. ASSUME NEW task \in Task, EndLog(task)
        PROVE  Program'
    BY <1>7 DEF EndLog, eventVars
  <1>. QED
    BY <1>1, <1>2, <1>3, <1>4, <1>5, <1>6, <1>7 DEF Next, Own, Connection

LEMMA ExclusionStep ==
  ASSUME Program, Exclusion, Next PROVE Exclusion'
  <1>. USE Names DEF Program, Place, Exclusion, Critical, AfterLog
  <1>1. CASE Worker
    BY <1>1, WorkerMoves
  <1>2. CASE \/ ReceiveAnswer \/ WriteValue \/ WriteValid \/ WriteTimestamp
             \/ Invalidate
    BY <1>2 DEF ReceiveAnswer, WriteValue, WriteValid, WriteTimestamp,
                Invalidate, WriteStore, Goes
  <1>3. ASSUME NEW r \in Reader, Look(r) \/ CopyValue(r) \/ CopyRest(r) \/ Show(r)
        PROVE  Exclusion'
    BY <1>3 DEF Look, CopyValue, CopyRest, Show, Goes
  <1>4. ASSUME NEW task \in Deletable,
               Handle(task) \/ StopTask(task) \/ StartTask(task)
        PROVE  Exclusion'
    BY <1>4 DEF Handle, StopTask, StartTask, Goes
  <1>5. CASE DeleteTask \/ CreateTask
    BY <1>5 DEF DeleteTask, CreateTask
  <1>6. ASSUME NEW task \in Task, Unlock(task) \/ BeginLog(task) \/ TakeStore(task)
        PROVE  Exclusion'
    BY <1>6 DEF Unlock, BeginLog, TakeStore, Goes
  <1>7. ASSUME NEW task \in Task, EndLog(task)
        PROVE  Exclusion'
    BY <1>7 DEF EndLog
  <1>. QED
    BY <1>1, <1>2, <1>3, <1>4, <1>5, <1>6, <1>7 DEF Next, Own, Connection

LEMMA WrittenStep ==
  ASSUME Program, Exclusion, Written, Ordered, Next PROVE Written'
  <1>. USE Names DEF Program, Place, Written, AfterLog
  <1>1. CASE Worker
    BY <1>1, WorkerMoves
  <1>2. CASE ReceiveAnswer
    <2>1. Head(answers) \in Nat
      BY <1>2 DEF ReceiveAnswer, Ordered
    <2>. QED
      BY <1>2, <2>1 DEF ReceiveAnswer, Goes
  <1>3. CASE WriteValue \/ WriteValid \/ WriteTimestamp \/ Invalidate
    <2>1. CASE WriteValue
      BY <2>1 DEF WriteValue, WriteStore, Goes
    <2>2. CASE WriteValid
      BY <2>2 DEF WriteValid, WriteStore, Goes
    <2>3. CASE WriteTimestamp
      BY <2>3 DEF WriteTimestamp, WriteStore, Goes
    <2>4. CASE Invalidate
      BY <2>4 DEF Invalidate, WriteStore, Goes
    <2>. QED
      BY <1>3, <2>1, <2>2, <2>3, <2>4
  <1>4. ASSUME NEW r \in Reader, Look(r) \/ CopyValue(r) \/ CopyRest(r) \/ Show(r)
        PROVE  Written'
    BY <1>4 DEF Look, CopyValue, CopyRest, Show, Goes
  <1>5. ASSUME NEW task \in Deletable,
               Handle(task) \/ StopTask(task) \/ StartTask(task)
        PROVE  Written'
    BY <1>5 DEF Handle, StopTask, StartTask, Goes
  <1>6. CASE DeleteTask \/ CreateTask
    BY <1>6 DEF DeleteTask, CreateTask
  <1>7. ASSUME NEW task \in Task, Unlock(task) \/ BeginLog(task) \/ TakeStore(task)
        PROVE  Written'
    BY <1>7 DEF Unlock, BeginLog, TakeStore, Goes
  <1>8. ASSUME NEW task \in Task, EndLog(task)
        PROVE  Written'
    BY <1>8 DEF EndLog
  <1>. QED
    BY <1>1, <1>2, <1>3, <1>4, <1>5, <1>6, <1>7, <1>8 DEF Next, Own, Connection

LEMMA CopyMerges ==
  ASSUME Written, Copied, NEW r \in Reader, CopyRest(r)
  PROVE  /\ copy'[r] = [value |-> copy[r].value, timestamp |-> store.timestamp,
                        valid |-> store.valid]
         /\ copy'[r] \in [value : Nat, timestamp : Nat, valid : BOOLEAN]
         /\ copy'[r].value = copy[r].value
         /\ copy'[r].timestamp = store.timestamp
  <1>1. /\ copy[r] \in [value : Nat, timestamp : Nat, valid : BOOLEAN]
        /\ store.timestamp \in Nat /\ store.valid \in BOOLEAN
    BY DEF Copied, Written
  <1>2. copy'[r] = [value |-> copy[r].value, timestamp |-> store.timestamp,
                    valid |-> store.valid]
    BY DEF CopyRest, Copied
  <1>. QED
    BY <1>1, <1>2

LEMMA CopiedStep ==
  ASSUME Program, Exclusion, Written, Copied, Next PROVE Copied'
  <1>. USE Names DEF Program, Place, Copied, AfterLog
  <1>1. CASE Worker
    BY <1>1, WorkerMoves
  <1>2. CASE ReceiveAnswer
    BY <1>2 DEF ReceiveAnswer, Goes, readVars
  <1>3. CASE WriteValue \/ WriteValid \/ WriteTimestamp \/ Invalidate
    <2>1. \A r \in Reader : pc[r] # "copying"
      BY <1>3 DEF WriteValue, WriteValid, WriteTimestamp, Invalidate, Goes,
                  Exclusion, Critical
    <2>2. store'.value > 0 \/ store'.value = store.value
      BY <1>3 DEF WriteValue, WriteValid, WriteTimestamp, Invalidate, WriteStore,
                  Written
    <2>. QED
      BY <1>3, <2>1, <2>2 DEF WriteValue, WriteValid, WriteTimestamp, Invalidate,
                              WriteStore, Goes, readVars
  <1>4. ASSUME NEW r \in Reader, Look(r) \/ Show(r)
        PROVE  Copied'
    <2>1. CASE Look(r)
      BY <2>1 DEF Look, Goes, Written, readVars
    <2>2. CASE Show(r)
      <3>1. Blank \in [value : Nat, timestamp : Nat, valid : BOOLEAN]
        BY DEF Blank
      <3>2. /\ copy' = [copy EXCEPT ![r] = Blank] /\ store' = store
            /\ pc' \in {[pc EXCEPT ![r] = "look"], [pc EXCEPT ![r] = "log_refused"]}
        BY <2>2 DEF Show, Goes
      <3>. QED
        BY <3>1, <3>2
    <2>. QED
      BY <1>4, <2>1, <2>2
  <1>5. ASSUME NEW r \in Reader, CopyValue(r)
        PROVE  Copied'
    BY <1>5 DEF CopyValue, Goes, Written
  <1>6. ASSUME NEW r \in Reader, CopyRest(r)
        PROVE  Copied'
    <2>1. store.timestamp = store.value
      BY <1>6 DEF CopyRest, Goes, Exclusion, Critical, Written
    <2>4. /\ copy'[r] \in [value : Nat, timestamp : Nat, valid : BOOLEAN]
          /\ copy'[r].value = copy[r].value
          /\ copy'[r].timestamp = store.timestamp
      BY <1>6, CopyMerges
    <2>5. /\ \A q \in Reader : q # r => copy'[q] = copy[q] /\ pc'[q] = pc[q]
          /\ copy' \in [Reader -> [value : Nat, timestamp : Nat, valid : BOOLEAN]]
          /\ pc[r] = "copying" /\ pc'[r] = "unlock" /\ store' = store
      BY <1>6, <2>4 DEF CopyRest, Goes
    <2>. QED
      BY <2>1, <2>4, <2>5
  <1>7. ASSUME NEW task \in Deletable,
               Handle(task) \/ StopTask(task) \/ StartTask(task)
        PROVE  Copied'
    BY <1>7 DEF Handle, StopTask, StartTask, Goes, readVars
  <1>8. CASE DeleteTask \/ CreateTask
    BY <1>8 DEF DeleteTask, CreateTask, readVars
  <1>9. ASSUME NEW task \in Task, Unlock(task) \/ BeginLog(task) \/ TakeStore(task)
        PROVE  Copied'
    BY <1>9 DEF Unlock, BeginLog, TakeStore, Goes, readVars
  <1>10. ASSUME NEW task \in Task, EndLog(task)
        PROVE  Copied'
    BY <1>10 DEF EndLog, readVars
  <1>. QED
    BY <1>1, <1>2, <1>3, <1>4, <1>5, <1>6, <1>7, <1>8, <1>9, <1>10
    DEF Next, Own, Connection

\* The order of the answers is kept when a later one is appended, or a failure.
LEMMA AppendOrdered ==
  ASSUME NEW new \in Nat, NEW q \in Seq(Nat),
         \A i, j \in 1 .. Len(q) : i < j /\ q[j] # 0 => q[i] < q[j],
         new = 0 \/ \A i \in 1 .. Len(q) : q[i] < new
  PROVE  /\ Append(q, new) \in Seq(Nat)
         /\ \A i \in 1 .. Len(Append(q, new)) :
              Append(q, new)[i] = new \/ \E k \in 1 .. Len(q) : Append(q, new)[i] = q[k]
         /\ \A i, j \in 1 .. Len(Append(q, new)) :
              i < j /\ Append(q, new)[j] # 0 => Append(q, new)[i] < Append(q, new)[j]
  <1>. DEFINE longer == Append(q, new)
  <1>1. /\ longer \in Seq(Nat) /\ Len(q) \in Nat /\ Len(longer) = Len(q) + 1
        /\ longer[Len(q) + 1] = new
        /\ \A i \in 1 .. Len(q) : longer[i] = q[i] /\ q[i] \in Nat
    BY AppendProperties
  <1>. HIDE DEF longer
  <1>2. ASSUME NEW i \in 1 .. Len(longer), NEW j \in 1 .. Len(longer),
               i < j, longer[j] # 0
        PROVE  longer[i] < longer[j]
    <2>1. i \in 1 .. Len(q) /\ longer[i] = q[i]
      BY <1>1, <1>2
    <2>2. CASE j \in 1 .. Len(q)
      <3>1. longer[j] = q[j] /\ q[j] # 0
        BY <1>1, <1>2, <2>2
      <3>. QED
        BY <1>2, <2>1, <2>2, <3>1
    <2>3. CASE j = Len(q) + 1
      <3>1. longer[j] = new /\ new # 0
        BY <1>1, <1>2, <2>3
      <3>. QED
        BY <2>1, <3>1
    <2>. QED
      BY <1>1, <2>2, <2>3
  <1>3. ASSUME NEW i \in 1 .. Len(longer)
        PROVE  longer[i] = new \/ \E k \in 1 .. Len(q) : longer[i] = q[k]
    <2>1. i \in 1 .. Len(q) \/ i = Len(q) + 1
      BY <1>1
    <2>. QED
      BY <1>1, <2>1
  <1>. QED
    BY <1>1, <1>2, <1>3 DEF longer

\* Ordered, what it says of the response queue apart.
Queued ==
  \A i \in 1 .. Len(answers) :
    /\ answers[i] <= samples
    /\ answers[i] = 0 \/ (answers[i] > store.value /\ answers[i] > answer)
    /\ \A j \in 1 .. Len(answers) :
         i < j /\ answers[j] # 0 => answers[i] < answers[j]

LEMMA PostOrdered ==
  ASSUME Program, Written, Ordered, NEW new \in Nat, NEW place, PostResponse(place, new),
         samples' \in Nat, samples <= samples',
         new = 0 \/ (new > samples /\ new = samples')
  PROVE  Ordered'
  <1>1. /\ answers \in Seq(Nat) /\ samples \in Nat /\ new <= samples'
        /\ store.value \in Nat /\ answer \in Nat
        /\ store.value <= samples /\ answer <= samples
        /\ store' = store /\ answer' = answer
        /\ answers' \in {answers, Append(answers, new)}
        /\ \A i \in 1 .. Len(answers) : answers[i] \in Nat
    BY DEF Ordered, Written, PostResponse
  <1>2. Queued /\ \A i, j \in 1 .. Len(answers) :
                    i < j /\ answers[j] # 0 => answers[i] < answers[j]
    BY DEF Ordered, Queued
  <1>. HIDE DEF Ordered, Written
  <1>3. answers' = answers => Queued'
    <2>. HAVE answers' = answers
    <2>1. /\ samples \in Nat /\ samples' \in Nat /\ samples <= samples'
          /\ store' = store /\ answer' = answer
          /\ \A i \in 1 .. Len(answers) : answers[i] \in Nat
      BY <1>1
    <2>. QED
      BY <1>2, <2>1 DEF Queued
  <1>4. ASSUME answers' = Append(answers, new)
        PROVE  answers' \in Seq(Nat) /\ Queued'
    <2>1. new = 0 \/ \A i \in 1 .. Len(answers) : answers[i] < new
      BY <1>1, <1>2 DEF Queued
    <2>2. /\ answers' \in Seq(Nat)
          /\ \A i \in 1 .. Len(answers') :
               answers'[i] = new \/ \E k \in 1 .. Len(answers) : answers'[i] = answers[k]
          /\ \A i, j \in 1 .. Len(answers') :
               i < j /\ answers'[j] # 0 => answers'[i] < answers'[j]
      BY <1>1, <1>2, <1>4, <2>1, AppendOrdered
    <2>3. ASSUME NEW i \in 1 .. Len(answers')
          PROVE  /\ answers'[i] <= samples'
                 /\ answers'[i] = 0 \/ (answers'[i] > store.value /\ answers'[i] > answer)
      <3>1. CASE answers'[i] = new
        BY <1>1, <3>1
      <3>2. ASSUME NEW k \in 1 .. Len(answers), answers'[i] = answers[k]
            PROVE  /\ answers'[i] <= samples'
                   /\ answers'[i] = 0 \/ (answers'[i] > store.value /\ answers'[i] > answer)
        BY <1>1, <1>2, <3>2 DEF Queued
      <3>. QED
        BY <2>2, <3>1, <3>2
    <2>4. store' = store /\ answer' = answer
      BY <1>1
    <2>. QED
      BY <2>2, <2>3, <2>4 DEF Queued
  <1>5. answers' \in Seq(Nat) /\ Queued'
    BY <1>1, <1>2, <1>3, <1>4
  <1>6. /\ samples <= samples' /\ samples \in Nat /\ samples' \in Nat
        /\ UNCHANGED <<store, answer, readVars>>
        /\ pc'["acquisition"] = pc["acquisition"] /\ \A r \in Reader : pc'[r] = pc[r]
    BY <1>1, Names DEF PostResponse, Goes, Program
  <1>7. /\ samples' \in Nat /\ store'.value <= samples' /\ answer' <= samples'
    BY <1>1, <1>6
  <1>8. /\ pc'["acquisition"] \in {"want_store", "locked"} =>
             answer' = 0 \/ answer' > store'.value
        /\ shown' \in [Reader -> [value : Nat, timestamp : Nat, valid : BOOLEAN]]
        /\ \A r \in Reader :
             /\ shown'[r].value <= store'.value
             /\ pc'[r] \in {"copying", "unlock", "show"} =>
                  shown'[r].value <= copy'[r].value /\ copy'[r].value <= store'.value
    BY <1>6 DEF Ordered, readVars
  <1>. QED
    BY <1>5, <1>7, <1>8, Zenon DEF Ordered, Queued

LEMMA OrderedStep ==
  ASSUME Program, Exclusion, Written, Copied, Ordered, Next PROVE Ordered'
  <1>. USE Names DEF Place, AfterLog
  <1>1. CASE Worker
    <2>1. ASSUME NEW from, PostSample(from) PROVE Ordered'
      <3>1. /\ PostResponse(from, samples + 1)
            /\ samples' = samples + 1 /\ samples \in Nat
        BY <2>1 DEF PostSample, Ordered
      <3>2. samples + 1 \in Nat /\ samples <= samples + 1 /\ samples + 1 > samples
        BY <3>1
      <3>. QED
        BY <3>1, <3>2, PostOrdered
    <2>2. CASE ErrorHandlerPosts
      <3>1. /\ \E from \in {"post", "judge"} : PostResponse(from, 0)
            /\ samples' = samples /\ samples \in Nat
        BY <2>2 DEF ErrorHandlerPosts, Ordered
      <3>. QED
        BY <3>1, PostOrdered
    <2>3. CASE ErrorHandler \/ DataHandlerAnnounces \/ ErrorHandlerAnnounces
      <3>1. UNCHANGED <<samples, answers>>
        BY <2>3 DEF ErrorHandler, DataHandlerAnnounces, ErrorHandlerAnnounces, EventPost,
           workVars
      <3>2. /\ UNCHANGED <<store, answer, copy, shown>>
            /\ pc'["acquisition"] = pc["acquisition"]
            /\ \A r \in Reader : pc'[r] = pc[r]
        BY <1>1, WorkerMoves DEF Program
      <3>. QED
        BY <3>1, <3>2 DEF Ordered
    <2>. QED
      BY <1>1, <2>1, <2>2, <2>3 DEF Worker, DataHandler, DataHandlerPosts
  <1>2. CASE ReceiveAnswer
    <2>1. /\ answers \in Seq(Nat) /\ answers # <<>>
          /\ answer' = Head(answers) /\ answers' = Tail(answers)
          /\ samples' = samples /\ store' = store /\ readVars' = readVars
          /\ pc' = [pc EXCEPT !["acquisition"] = "want_store"]
      BY <1>2 DEF ReceiveAnswer, Goes, Ordered
    <2>2. /\ Len(answers) \in Nat /\ Len(answers) > 0
          /\ answers' \in Seq(Nat) /\ Len(answers') = Len(answers) - 1
          /\ answer' = answers[1] /\ answer' \in Nat
          /\ \A i \in 1 .. Len(answers') : answers'[i] = answers[i + 1]
      BY <2>1, HeadTailProperties
    <2>3. /\ answer' <= samples
          /\ answer' = 0 \/ answer' > store.value
      BY <2>2 DEF Ordered
    <2>4. Queued'
      BY <2>1, <2>2 DEF Ordered, Queued
    <2>. QED
      BY <2>1, <2>2, <2>3, <2>4 DEF Ordered, Queued, Program, readVars
  <1>3. CASE WriteValue
    <2>1. /\ answer > 0 /\ answer > store.value /\ answer \in Nat
          /\ store'.value = answer
          /\ UNCHANGED <<workVars, answer, readVars>>
          /\ pc' = [pc EXCEPT !["acquisition"] = "valid"]
      BY <1>3 DEF WriteValue, WriteStore, Goes, Ordered, Written
    <2>. QED
      BY <2>1 DEF Ordered, Program, Written, Copied, workVars, readVars
  <1>4. CASE WriteValid \/ WriteTimestamp \/ Invalidate
    <2>1. /\ store'.value = store.value
          /\ UNCHANGED <<workVars, answer, readVars>>
          /\ \E place \in {"timestamp", "unlock", "log_invalid"} :
               pc' = [pc EXCEPT !["acquisition"] = place]
      BY <1>4 DEF WriteValid, WriteTimestamp, Invalidate, WriteStore, Goes, Written
    <2>. QED
      BY <2>1 DEF Ordered, Program, workVars, readVars
  <1>5. ASSUME NEW r \in Reader, Look(r)
        PROVE  Ordered'
    BY <1>5 DEF Look, Goes, Ordered, Program, workVars, readVars
  <1>6. ASSUME NEW r \in Reader, CopyValue(r)
        PROVE  Ordered'
    <2>1. /\ copy'[r].value = store.value
          /\ \A q \in Reader : q # r => copy'[q] = copy[q]
          /\ UNCHANGED <<workVars, answer, store, shown>>
          /\ pc' = [pc EXCEPT ![r] = "copying"]
      BY <1>6 DEF CopyValue, Goes, Copied
    <2>2. ASSUME NEW q \in Reader
          PROVE  /\ shown[q].value <= store.value
                 /\ pc'[q] \in {"copying", "unlock", "show"} =>
                      shown[q].value <= copy'[q].value /\ copy'[q].value <= store.value
      <3>1. store.value \in Nat /\ shown[q].value <= store.value
        BY DEF Ordered, Written
      <3>2. CASE q = r
        BY <2>1, <3>1, <3>2
      <3>3. CASE q # r
        BY <2>1, <3>3 DEF Ordered, Program
      <3>. QED
        BY <3>1, <3>2, <3>3
    <2>3. pc'["acquisition"] = pc["acquisition"] /\ UNCHANGED <<samples, answers>>
      BY <2>1 DEF Program, workVars
    <2>. QED
      BY <2>1, <2>2, <2>3 DEF Ordered
  <1>7. ASSUME NEW r \in Reader, CopyRest(r)
        PROVE  Ordered'
    <2>1. /\ copy'[r].value = copy[r].value
          /\ \A q \in Reader : q # r => copy'[q] = copy[q]
          /\ UNCHANGED <<workVars, answer, store, shown>>
          /\ pc[r] = "copying" /\ pc' = [pc EXCEPT ![r] = "unlock"]
      BY <1>7 DEF CopyRest, Goes, Copied
    <2>2. ASSUME NEW q \in Reader
          PROVE  /\ copy'[q].value = copy[q].value
                 /\ pc'[q] \in {"copying", "unlock", "show"}
                      => pc[q] \in {"copying", "unlock", "show"}
      BY <2>1 DEF Program
    <2>3. pc'["acquisition"] = pc["acquisition"] /\ UNCHANGED <<samples, answers>>
      BY <2>1 DEF Program, workVars
    <2>. QED
      BY <2>1, <2>2, <2>3 DEF Ordered
  <1>8. ASSUME NEW r \in Reader, Show(r)
        PROVE  Ordered'
    <2>1. /\ shown' = [shown EXCEPT ![r] = copy[r]]
          /\ \A q \in Reader : q # r => copy'[q] = copy[q]
          /\ UNCHANGED <<workVars, answer, store>>
          /\ pc[r] = "show"
          /\ \E place \in {"look", "log_refused"} : pc' = [pc EXCEPT ![r] = place]
      BY <1>8 DEF Show, Goes, Copied
    <2>2. ASSUME NEW q \in Reader
          PROVE  /\ shown'[q].value <= store.value
                 /\ pc'[q] \in {"copying", "unlock", "show"} =>
                      shown'[q].value <= copy'[q].value /\ copy'[q].value <= store.value
      <3>1. CASE q = r
        BY <2>1, <3>1 DEF Ordered, Program
      <3>2. CASE q # r
        BY <2>1, <3>2 DEF Ordered, Program
      <3>. QED
        BY <3>1, <3>2
    <2>3. shown' \in [Reader -> [value : Nat, timestamp : Nat, valid : BOOLEAN]]
      BY <2>1 DEF Ordered, Copied
    <2>4. pc'["acquisition"] = pc["acquisition"] /\ UNCHANGED <<samples, answers>>
      BY <2>1 DEF Program, workVars
    <2>. QED
      BY <2>1, <2>2, <2>3, <2>4 DEF Ordered
  <1>9. ASSUME NEW task \in Deletable,
               Handle(task) \/ StopTask(task) \/ StartTask(task)
        PROVE  Ordered'
    BY <1>9 DEF Handle, StopTask, StartTask, Goes, Ordered, Program, workVars, readVars
  <1>10. CASE DeleteTask \/ CreateTask
    BY <1>10 DEF DeleteTask, CreateTask, Ordered, Program, workVars, readVars
  <1>11. ASSUME NEW task \in Task, BeginLog(task) \/ TakeStore(task)
         PROVE  Ordered'
    BY <1>11 DEF BeginLog, TakeStore, Goes, Ordered, Program, workVars, readVars
  <1>12. ASSUME NEW task \in Task, Unlock(task)
         PROVE  Ordered'
    <2>1. /\ answer' \in {0, answer}
          /\ UNCHANGED <<workVars, store, readVars>>
          /\ pc[task] = "unlock"
          /\ \E place \in {"receive", "show"} : pc' = [pc EXCEPT ![task] = place]
          /\ task = "acquisition" => pc'["acquisition"] = "receive"
      BY <1>12 DEF Unlock, Goes, Program
    <2>2. samples \in Nat /\ answers \in Seq(Nat) /\ Queued
      BY DEF Ordered, Queued
    <2>3. Queued'
      BY <2>1, <2>2 DEF Queued, workVars
    <2>. QED
      BY <2>1, <2>3 DEF Ordered, Queued, Program, Written, workVars, readVars
  <1>13. ASSUME NEW task \in Task, EndLog(task)
         PROVE  Ordered'
    BY <1>13 DEF EndLog, Ordered, Program, workVars, readVars
  <1>. QED
    BY <1>1, <1>2, <1>3, <1>4, <1>5, <1>6, <1>7, <1>8, <1>9, <1>10, <1>11,
       <1>12, <1>13
    DEF Next, Own, Connection

----------------------------------------------------------------------------
(* The theorems *)

LEMMA InitInvariant == Init => IInv
  <1>. SUFFICES ASSUME Init PROVE IInv
    OBVIOUS
  <1>. USE Names DEF Init, Blank
  <1>1. Program
    BY StoreAccessAssumption DEF Program, Place, AfterLog
  <1>2. Exclusion
    BY StoreAccessAssumption DEF Exclusion, Critical
  <1>3. Written /\ Copied /\ Ordered
    BY DEF Written, Copied, Ordered
  <1>. QED
    BY <1>1, <1>2, <1>3 DEF IInv

LEMMA StepInvariant == IInv /\ [Next]_vars => IInv'
  <1>1. ASSUME IInv, Next PROVE IInv'
    BY <1>1, ProgramStep, ExclusionStep, WrittenStep, CopiedStep, OrderedStep DEF IInv
  <1>2. ASSUME IInv, UNCHANGED vars PROVE IInv'
    BY <1>2 DEF IInv, Program, Exclusion, Written, Copied, Ordered, vars, workVars,
                readVars, eventVars
  <1>. QED
    BY <1>1, <1>2

LEMMA Invariance == SafeSpec => []IInv
  BY InitInvariant, StepInvariant, PTL DEF SafeSpec

\* What a reader sends or shows is one sample with its own time.
THEOREM CopiesWholeHolds == SafeSpec => []CopiesWhole
  <1>1. IInv => CopiesWhole
    BY DEF IInv, Copied, CopiesWhole
  <1>. QED
    BY <1>1, Invariance, PTL

\* No reader shows an older sample after a newer one.
THEOREM ShownForwardHolds == SafeSpec => ShownForward
  <1>1. ASSUME IInv, [Next]_vars
        PROVE  [\A r \in Reader : shown'[r].value >= shown[r].value]_shown
    <2>. SUFFICES ASSUME NEW r \in Reader PROVE shown'[r].value >= shown[r].value \/ shown' = shown
      OBVIOUS
    <2>0. \A q \in Reader : shown[q].value \in Nat
      BY <1>1 DEF IInv, Ordered
    <2>1. ASSUME NEW q \in Reader, Show(q) PROVE shown'[r].value >= shown[r].value
      <3>1. shown' = [shown EXCEPT ![q] = copy[q]] /\ pc[q] = "show"
        BY <2>1 DEF Show, Goes
      <3>2. shown[q].value <= copy[q].value /\ copy[q].value \in Nat
        BY <3>1, <1>1 DEF IInv, Ordered, Copied
      <3>3. shown \in [Reader -> [value : Nat, timestamp : Nat, valid : BOOLEAN]]
        BY <1>1 DEF IInv, Ordered
      <3>. QED
        BY <2>0, <3>1, <3>2, <3>3
    <2>2. CASE shown' = shown
      BY <2>2
    <2>. QED
      BY <1>1, <2>1, <2>2, WorkerMoves
      DEF Next, Own, Connection, vars, workVars, readVars, ReceiveAnswer, WriteValue,
          WriteValid, WriteTimestamp, Invalidate, WriteStore, Look, CopyValue, CopyRest,
          Handle, DeleteTask, CreateTask, StopTask, StartTask, Unlock, BeginLog, EndLog,
          TakeStore
  <1>. QED
    BY <1>1, Invariance, PTL DEF SafeSpec, ShownForward

----------------------------------------------------------------------------
(* The two mutexes together *)

\* Who holds the logger is logging.  The task the event task's handler is
\* about is there to be deleted, or gone and about to be created.
Logging ==
  /\ loggerOwner \in Task \cup {NONE, DELETED}
  /\ loggerOwner \in Task => pc[loggerOwner] \in DOMAIN AfterLog
  /\ pc["events"] \in {"log_starting", "create"} =>
       victim \in Deletable /\ pc[victim] = "deleted"

\* The task that another one waits for: the store is held, or the logger is.
WaitsFor(task) ==
  CASE pc[task] = "want_store" -> storeOwner
    [] pc[task] \in DOMAIN AfterLog /\ loggerOwner # task -> loggerOwner
    [] OTHER -> NONE

\* No three tasks wait in a row, so none waits for itself through others: the
\* store is locked before the logger and never after it (acquisition.cpp:92
\* logs with the store locked, no one locks the store while logging).
NoCircularWait ==
  \A a, b, c \in Task :
    WaitsFor(a) = b /\ WaitsFor(b) = c => WaitsFor(c) \notin Task

LEMMA LoggingStep ==
  ASSUME Program, Logging, Next PROVE Logging'
  <1>. USE Names DEF Program, Place, Logging, AfterLog
  <1>1. CASE Worker
    BY <1>1, WorkerMoves
  <1>2. CASE \/ ReceiveAnswer \/ WriteValue \/ WriteValid \/ WriteTimestamp
             \/ Invalidate
    BY <1>2 DEF ReceiveAnswer, WriteValue, WriteValid, WriteTimestamp,
                Invalidate, WriteStore, Goes, eventVars
  <1>3. ASSUME NEW r \in Reader, Look(r) \/ CopyValue(r) \/ CopyRest(r) \/ Show(r)
        PROVE  Logging'
    BY <1>3 DEF Look, CopyValue, CopyRest, Show, Goes, eventVars
  <1>4. ASSUME NEW task \in Deletable,
               Handle(task) \/ StopTask(task) \/ StartTask(task)
        PROVE  Logging'
    BY <1>4 DEF Handle, StopTask, StartTask, Goes, eventVars
  <1>5. CASE DeleteTask
    <2>1. /\ loggerOwner' = IF loggerOwner = victim THEN DELETED ELSE loggerOwner
          /\ pc' = [pc EXCEPT ![victim] = "deleted", !["events"] = "log_stopped"]
          /\ pc["events"] = "delete"
      BY <1>5 DEF DeleteTask, LoseHolder
    <2>2. DELETED \notin Task
      BY StoreAccessAssumption
    <2>3. \A task \in Task \ {victim, "events"} : pc'[task] = pc[task]
      BY <2>1
    <2>. QED
      BY <2>1, <2>2, <2>3
  <1>6. CASE CreateTask
    BY <1>6 DEF CreateTask
  <1>7. ASSUME NEW task \in Task, Unlock(task) \/ BeginLog(task) \/ TakeStore(task)
        PROVE  Logging'
    BY <1>7 DEF Unlock, BeginLog, TakeLogger, TakeStore, Goes, eventVars
  <1>8. ASSUME NEW task \in Task, EndLog(task)
        PROVE  Logging'
    BY <1>8 DEF EndLog, GiveLogger, eventVars
  <1>. QED
    BY <1>1, <1>2, <1>3, <1>4, <1>5, <1>6, <1>7, <1>8 DEF Next, Own, Connection

\* The tasks never wait for one another in a circle, whatever is deleted.
THEOREM NoCircularWaitHolds == SafeSpec => []NoCircularWait
  <1>1. Init => Logging
    BY Names, StoreAccessAssumption DEF Init, LoggerInit, Logging, AfterLog
  <1>2. IInv /\ Logging /\ [Next]_vars => Logging'
    <2>1. ASSUME Logging, UNCHANGED vars PROVE Logging'
      BY <2>1 DEF Logging, vars, eventVars
    <2>. QED
      BY <2>1, LoggingStep DEF IInv
  <1>3. IInv /\ Logging => NoCircularWait
    <2>. SUFFICES ASSUME IInv, Logging,
                         NEW a \in Task, NEW b \in Task, NEW c \in Task,
                         WaitsFor(a) = b, WaitsFor(b) = c, WaitsFor(c) \in Task
                  PROVE  FALSE
      BY DEF NoCircularWait
    <2>1. ASSUME NEW t \in Task, NEW u \in Task, WaitsFor(t) = u
          PROVE  \/ pc[t] = "want_store" /\ pc[u] \in Critical
                 \/ /\ pc[t] \in DOMAIN AfterLog /\ pc[u] \in DOMAIN AfterLog
                    /\ u = loggerOwner /\ t # u
      BY <2>1, Names DEF WaitsFor, IInv, Exclusion, Logging
    <2>2. pc[b] \in DOMAIN AfterLog /\ b # loggerOwner /\ c = loggerOwner
      <3>1. pc[b] # "want_store"
        BY <2>1 DEF Critical, AfterLog
      <3>. QED
        BY <2>1, <3>1
    <2>3. pc[c] \in DOMAIN AfterLog /\ c # loggerOwner
      <3>1. pc[c] # "want_store"
        BY <2>2, <2>1 DEF AfterLog
      <3>. QED
        BY <2>1, <3>1
    <2>. QED
      BY <2>2, <2>3
  <1>. QED
    BY <1>1, <1>2, <1>3, Invariance, PTL DEF SafeSpec

----------------------------------------------------------------------------
(* The store implements SnapshotStore *)

LEMMA InitRefines == Init => Snapshots!Init
  BY Names DEF Init, Blank, Snapshots!Init, Snapshots!Blank, StoredTag, TakenCopies

LEMMA StepRefines ==
  ASSUME IInv, IInv', Next PROVE [Snapshots!Next]_Snapshots!vars
  <1>. USE Names
  <1>. DEFINE Stutters == /\ UNCHANGED <<store, copy, shown>>
                          /\ pc["acquisition"] \in {"valid", "timestamp"} =>
                               answer' = answer
                          /\ pc["acquisition"] \in {"valid", "timestamp"} <=>
                               pc'["acquisition"] \in {"valid", "timestamp"}
                          /\ \A r \in Reader : pc[r] = "copying" <=> pc'[r] = "copying"
  <1>0. ASSUME Stutters PROVE UNCHANGED Snapshots!vars
    BY <1>0 DEF Snapshots!vars, StoredTag, TakenCopies
  <1>1. CASE Worker \/ ReceiveAnswer
    <2>1. CASE Worker
      <3>1. Stutters
        BY <2>1, WorkerMoves DEF IInv, Program
      <3>. QED
        BY <1>0, <3>1
    <2>2. CASE ReceiveAnswer
      <3>1. Stutters
        BY <2>2 DEF ReceiveAnswer, Goes, IInv, Program, readVars
      <3>. QED
        BY <1>0, <3>1
    <2>. QED
      BY <1>1, <2>1, <2>2
  <1>2. ASSUME NEW r \in Reader, Look(r)
        PROVE  UNCHANGED Snapshots!vars
    <2>1. Stutters
      BY <1>2 DEF Look, Goes, IInv, Program, readVars
    <2>. QED
      BY <1>0, <2>1
  <1>3. ASSUME NEW task \in Deletable,
               Handle(task) \/ StopTask(task) \/ StartTask(task)
        PROVE  UNCHANGED Snapshots!vars
    <2>1. Stutters
      BY <1>3 DEF Handle, StopTask, StartTask, Goes, IInv, Program, readVars
    <2>. QED
      BY <1>0, <2>1
  <1>4. CASE DeleteTask \/ CreateTask
    <2>1. Stutters
      BY <1>4 DEF DeleteTask, CreateTask, IInv, Program, readVars
    <2>. QED
      BY <1>0, <2>1
  <1>5. ASSUME NEW task \in Task,
               Unlock(task) \/ BeginLog(task) \/ EndLog(task) \/ TakeStore(task)
        PROVE  UNCHANGED Snapshots!vars
    <2>1. Stutters
      BY <1>5 DEF Unlock, BeginLog, EndLog, TakeStore, Goes, AfterLog, IInv, Program,
                  readVars
    <2>. QED
      BY <1>0, <2>1
  <1>6. CASE WriteValue
    <2>1. /\ StoredTag = store /\ answer > store.value
          /\ StoredTag' = [value |-> answer, timestamp |-> answer, valid |-> TRUE]
          /\ UNCHANGED <<copy, shown>>
          /\ \A r \in Reader : pc[r] # "copying" /\ pc'[r] = pc[r]
      BY <1>6 DEF WriteValue, WriteStore, Goes, StoredTag, IInv, Program, Exclusion,
                  Critical, Ordered, Written, readVars
    <2>2. TakenCopies' = TakenCopies
      BY <2>1 DEF TakenCopies
    <2>3. Snapshots!Sample
      BY <2>1, <2>2 DEF Snapshots!Sample
    <2>. QED
      BY <2>3 DEF Snapshots!Next
  <1>7. CASE WriteValid \/ WriteTimestamp
    <2>1. /\ StoredTag' = StoredTag
          /\ UNCHANGED <<copy, shown>>
          /\ \A r \in Reader : pc[r] # "copying" /\ pc'[r] = pc[r]
      <3>1. CASE WriteValid
        BY <3>1 DEF WriteValid, WriteStore, Goes, StoredTag, IInv, Program, Exclusion,
                    Critical, Written, readVars
      <3>2. CASE WriteTimestamp
        <4>1. store' = [value |-> answer, timestamp |-> answer, valid |-> TRUE]
          BY <3>2 DEF WriteTimestamp, WriteStore, Goes, IInv, Written
        <4>2. /\ pc["acquisition"] = "timestamp" /\ pc'["acquisition"] = "unlock"
              /\ UNCHANGED <<copy, shown>>
              /\ \A r \in Reader : pc'[r] = pc[r]
          BY <3>2 DEF WriteTimestamp, WriteStore, Goes, IInv, Program, readVars
        <4>3. \A r \in Reader : pc[r] # "copying"
          BY <4>2 DEF IInv, Exclusion, Critical
        <4>4. StoredTag' = StoredTag
          BY <4>1, <4>2 DEF StoredTag
        <4>. QED
          BY <4>2, <4>3, <4>4
      <3>. QED
        BY <1>7, <3>1, <3>2
    <2>2. TakenCopies' = TakenCopies
      BY <2>1 DEF TakenCopies
    <2>. QED
      BY <2>1, <2>2 DEF Snapshots!vars
  <1>8. CASE Invalidate
    <2>1. /\ StoredTag = store /\ StoredTag' = [store EXCEPT !.valid = FALSE]
          /\ UNCHANGED <<copy, shown>>
          /\ \A r \in Reader : pc[r] # "copying" /\ pc'[r] = pc[r]
      BY <1>8 DEF Invalidate, WriteStore, Goes, StoredTag, IInv, Program, Exclusion,
                  Critical, readVars
    <2>2. TakenCopies' = TakenCopies
      BY <2>1 DEF TakenCopies
    <2>3. Snapshots!Invalidate
      BY <2>1, <2>2 DEF Snapshots!Invalidate
    <2>. QED
      BY <2>3 DEF Snapshots!Next
  <1>9. ASSUME NEW r \in Reader, CopyValue(r)
        PROVE  Snapshots!Take(r)
    <2>1. /\ StoredTag = store /\ StoredTag' = store /\ store' = store
          /\ store.value > 0 /\ shown' = shown
          /\ \A q \in Reader : q # r => copy'[q] = copy[q] /\ pc'[q] = pc[q]
          /\ pc'[r] = "copying"
      BY <1>9 DEF CopyValue, Goes, StoredTag, IInv, Program, Exclusion, Critical, Copied
    <2>2. TakenCopies' = [TakenCopies EXCEPT ![r] = StoredTag]
      BY <2>1 DEF TakenCopies
    <2>. QED
      BY <2>1, <2>2 DEF Snapshots!Take
  <1>10. ASSUME NEW r \in Reader, CopyRest(r)
         PROVE  UNCHANGED Snapshots!vars
    <2>1. /\ UNCHANGED <<store, shown, answer>> /\ pc["acquisition"] = pc'["acquisition"]
          /\ \A q \in Reader : q # r => copy'[q] = copy[q] /\ pc'[q] = pc[q]
          /\ pc[r] = "copying" /\ pc'[r] = "unlock"
          /\ copy[r].value = store.value
      BY <1>10 DEF CopyRest, Goes, IInv, Program, Copied
    <2>2. copy'[r] = store
      <3>1. /\ copy[r] \in [value : Nat, timestamp : Nat, valid : BOOLEAN]
            /\ store \in [value : Nat, timestamp : Nat, valid : BOOLEAN]
        BY DEF IInv, Copied, Written
      <3>2. copy'[r] = [value |-> copy[r].value, timestamp |-> store.timestamp,
                        valid |-> store.valid]
        BY <1>10, CopyMerges DEF IInv
      <3>. QED
        BY <2>1, <3>1, <3>2
    <2>3. StoredTag' = StoredTag /\ TakenCopies' = TakenCopies
      BY <2>1, <2>2 DEF StoredTag, TakenCopies
    <2>. QED
      BY <2>1, <2>3 DEF Snapshots!vars
  <1>11. ASSUME NEW r \in Reader, Show(r)
         PROVE  Snapshots!Show(r)
    <2>1. /\ UNCHANGED <<store, answer>> /\ pc["acquisition"] = pc'["acquisition"]
          /\ \A q \in Reader : q # r => pc'[q] = pc[q]
          /\ pc[r] = "show" /\ pc'[r] # "copying" /\ copy[r].value > 0
          /\ shown' = [shown EXCEPT ![r] = copy[r]]
          /\ copy' = [copy EXCEPT ![r] = Blank]
      BY <1>11 DEF Show, Goes, IInv, Program, Copied
    <2>2. /\ StoredTag' = StoredTag
          /\ TakenCopies[r] = copy[r]
      BY <2>1 DEF StoredTag, TakenCopies
    <2>4. /\ copy'[r] = Blank
          /\ \A q \in Reader : q # r => copy'[q] = copy[q]
      BY <2>1 DEF IInv, Copied
    <2>5. TakenCopies' = [TakenCopies EXCEPT ![r] = Blank]
      BY <2>1, <2>4 DEF TakenCopies
    <2>3. copy[r] # Blank
      BY <2>1 DEF Blank
    <2>. QED
      BY <2>1, <2>2, <2>3, <2>5 DEF Snapshots!Show, Snapshots!Blank, Blank
  <1>. QED
    BY <1>1, <1>2, <1>3, <1>4, <1>5, <1>6, <1>7, <1>8, <1>9, <1>10, <1>11
    DEF Next, Own, Connection, Snapshots!Next

\* Field-wise writes and copies under the mutex look like one-step ones.
THEOREM Implementation == SafeSpec => ImplementsSnapshotStore
  <1>1. IInv /\ IInv' /\ [Next]_vars => [Snapshots!Next]_Snapshots!vars
    <2>1. ASSUME IInv, UNCHANGED vars PROVE UNCHANGED Snapshots!vars
      BY <2>1 DEF vars, readVars, Snapshots!vars, StoredTag, TakenCopies
    <2>. QED
      BY <2>1, StepRefines
  <1>. QED
    BY <1>1, InitRefines, Invariance, PTL
    DEF SafeSpec, ImplementsSnapshotStore, Snapshots!Spec

----------------------------------------------------------------------------
(* Types *)

LEMMA PostKeepsLength ==
  ASSUME TypeOK, NEW response \in 0 .. MaxSamples, NEW from,
         PostResponse(from, response)
  PROVE  /\ answers' \in Seq(0 .. MaxSamples)
         /\ Len(answers') <= ResponseCapacity
  <1>1. /\ answers \in Seq(0 .. MaxSamples) /\ Len(answers) <= ResponseCapacity
        /\ ResponseCapacity \in Nat
    BY StoreAccessAssumption DEF TypeOK
  <1>2. CASE Len(answers) < ResponseCapacity
    <2>1. answers' = Append(answers, response)
      BY <1>2 DEF PostResponse
    <2>2. answers' \in Seq(0 .. MaxSamples) /\ Len(answers') = Len(answers) + 1
      BY <1>1, <2>1
    <2>. QED
      BY <1>1, <1>2, <2>2
  <1>3. CASE ~(Len(answers) < ResponseCapacity)
    BY <1>1, <1>3 DEF PostResponse
  <1>. QED
    BY <1>2, <1>3

LEMMA TypeStep ==
  ASSUME TypeOK, Next PROVE TypeOK'
  <1>. USE Names, StoreAccessAssumption
  <1>1. CASE Worker
    <2>1. /\ answers' \in Seq(0 .. MaxSamples) /\ Len(answers') <= ResponseCapacity
          /\ samples' \in 0 .. MaxSamples
      <3>1. ASSUME NEW from, PostSample(from)
            PROVE  /\ answers' \in Seq(0 .. MaxSamples)
                   /\ Len(answers') <= ResponseCapacity
                   /\ samples' \in 0 .. MaxSamples
        <4>1. samples + 1 \in 0 .. MaxSamples
          BY <3>1 DEF PostSample, TypeOK
        <4>. QED
          BY <3>1, <4>1, PostKeepsLength DEF PostSample
      <3>2. CASE ErrorHandler \/ DataHandlerAnnounces \/ ErrorHandlerAnnounces
        BY <3>2 DEF ErrorHandler, DataHandlerAnnounces, ErrorHandlerAnnounces, EventPost,
           workVars, TypeOK
      <3>3. CASE ErrorHandlerPosts
        <4>1. 0 \in 0 .. MaxSamples
          OBVIOUS
        <4>. QED
          BY <3>3, <4>1, PostKeepsLength DEF ErrorHandlerPosts, TypeOK
      <3>. QED
        BY <1>1, <3>1, <3>2, <3>3 DEF Worker, DataHandler, DataHandlerPosts
    <2>2. /\ UNCHANGED <<loggerOwner, storeOwner, store, answer, copy, shown, victim,
                         deletions>>
          /\ pc' \in [Task -> Place]
      BY <1>1, WorkerMoves DEF TypeOK, Place, AfterLog
    <2>3. commHealthy' \in BOOLEAN
      BY <1>1 DEF Worker, DataHandler, DataHandlerPosts, PostSample, PostResponse,
         DataHandlerAnnounces, ErrorHandler, ErrorHandlerAnnounces, ErrorHandlerPosts,
         workVars, TypeOK
    <2>. QED
      BY <2>1, <2>2, <2>3 DEF TypeOK
  <1>2. CASE ReceiveAnswer
    <2>1. /\ answers \in Seq(0 .. MaxSamples) /\ answers # <<>>
          /\ answers' = Tail(answers) /\ answer' = Head(answers)
          /\ Len(answers) <= ResponseCapacity
      BY <1>2 DEF ReceiveAnswer, TypeOK
    <2>2. /\ answers' \in Seq(0 .. MaxSamples) /\ Len(answers') = Len(answers) - 1
          /\ answer' \in 0 .. MaxSamples
      BY <2>1, HeadTailProperties
    <2>3. Len(answers') <= ResponseCapacity
      BY <2>1, <2>2
    <2>4. /\ UNCHANGED <<loggerOwner, storeOwner, store, samples, commHealthy, copy,
                         shown, victim, deletions>>
          /\ pc' \in [Task -> Place]
      BY <1>2 DEF ReceiveAnswer, Goes, readVars, eventVars, TypeOK, Place
    <2>. QED
      BY <2>2, <2>3, <2>4 DEF TypeOK
  <1>3. CASE WriteValue \/ WriteValid \/ WriteTimestamp \/ Invalidate
    <2>1. store' \in Entry
      BY <1>3 DEF WriteValue, WriteValid, WriteTimestamp, Invalidate, WriteStore,
                  Entry, TypeOK
    <2>2. /\ UNCHANGED <<loggerOwner, storeOwner, samples, answers, commHealthy, answer,
                         copy, shown, victim, deletions>>
          /\ pc' \in [Task -> Place]
      BY <1>3 DEF WriteValue, WriteValid, WriteTimestamp, Invalidate, WriteStore, Goes,
                  workVars, readVars, eventVars, TypeOK, Place, AfterLog
    <2>. QED
      BY <2>1, <2>2 DEF TypeOK
  <1>4. ASSUME NEW r \in Reader, Look(r) \/ CopyValue(r) \/ CopyRest(r) \/ Show(r)
        PROVE  TypeOK'
    <2>1. copy' \in [Reader -> Entry] /\ shown' \in [Reader -> Entry]
      <3>0. /\ copy \in [Reader -> Entry] /\ shown \in [Reader -> Entry]
            /\ store \in Entry /\ Blank \in Entry
        BY DEF TypeOK, Blank, Entry
      <3>1. CASE Look(r)
        BY <3>0, <3>1 DEF Look, readVars
      <3>2. CASE CopyValue(r)
        <4>1. [copy[r] EXCEPT !.value = store.value] \in Entry
          BY <3>0 DEF Entry
        <4>. QED
          BY <3>0, <3>2, <4>1 DEF CopyValue
      <3>3. CASE CopyRest(r)
        <4>1. [value |-> copy[r].value, timestamp |-> store.timestamp,
               valid |-> store.valid] \in Entry
          BY <3>0 DEF Entry
        <4>. QED
          BY <3>0, <3>3, <4>1 DEF CopyRest
      <3>4. CASE Show(r)
        BY <3>0, <3>4 DEF Show
      <3>. QED
        BY <1>4, <3>1, <3>2, <3>3, <3>4
    <2>2. /\ UNCHANGED <<loggerOwner, storeOwner, store, samples, answers, commHealthy,
                         answer, victim, deletions>>
          /\ pc' \in [Task -> Place]
      BY <1>4 DEF Look, CopyValue, CopyRest, Show, Goes, workVars, eventVars, TypeOK,
                  Place, AfterLog
    <2>. QED
      BY <2>1, <2>2 DEF TypeOK
  <1>5. ASSUME NEW task \in Deletable,
               Handle(task) \/ StopTask(task) \/ StartTask(task)
        PROVE  TypeOK'
    <2>1. /\ UNCHANGED <<loggerOwner, storeOwner, store, samples, answers, commHealthy,
                         answer, copy, shown>>
          /\ victim' \in Deletable \cup {NONE}
          /\ deletions' \in 0 .. MaxDeletions
          /\ pc' \in [Task -> Place]
      BY <1>5 DEF Handle, StopTask, StartTask, Goes, workVars, readVars, eventVars,
                  TypeOK, Place, AfterLog
    <2>. QED
      BY <2>1 DEF TypeOK
  <1>6. CASE DeleteTask \/ CreateTask
    <2>1. /\ UNCHANGED <<storeOwner, store, samples, answers, commHealthy, answer,
                         copy, shown, deletions>>
          /\ victim' = NONE
          /\ loggerOwner' \in Task \cup {NONE, DELETED}
          /\ pc' \in [Task -> Place]
      BY <1>6 DEF DeleteTask, CreateTask, LoseHolder, workVars, readVars, TypeOK, Place,
                  AfterLog
    <2>. QED
      BY <2>1 DEF TypeOK
  <1>7. ASSUME NEW task \in Task,
               Unlock(task) \/ BeginLog(task) \/ EndLog(task) \/ TakeStore(task)
        PROVE  TypeOK'
    <2>1. /\ UNCHANGED <<store, samples, answers, commHealthy, copy, shown, victim,
                         deletions>>
          /\ answer' \in {0, answer}
          /\ storeOwner' \in Task \cup {NONE}
          /\ loggerOwner' \in Task \cup {NONE, DELETED}
          /\ pc' \in [Task -> Place]
      BY <1>7 DEF Unlock, BeginLog, EndLog, TakeStore, TakeLogger, GiveLogger, Goes,
                  workVars, readVars, eventVars, TypeOK, Place, AfterLog
    <2>. QED
      BY <2>1 DEF TypeOK
  <1>. QED
    BY <1>1, <1>2, <1>3, <1>4, <1>5, <1>6, <1>7 DEF Next, Own, Connection

\* Every variable keeps its type, the response queue its length.
THEOREM TypeCorrect == SafeSpec => []TypeOK
  <1>1. Init => TypeOK
    BY Names, StoreAccessAssumption
    DEF Init, LoggerInit, TypeOK, Entry, Blank, Place, AfterLog
  <1>2. TypeOK /\ [Next]_vars => TypeOK'
    <2>1. ASSUME TypeOK, UNCHANGED vars PROVE TypeOK'
      BY <2>1 DEF TypeOK, vars, workVars, readVars, eventVars
    <2>. QED
      BY <2>1, TypeStep
  <1>. QED
    BY <1>1, <1>2, PTL DEF SafeSpec
=============================================================================
