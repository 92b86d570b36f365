---------------------------- MODULE Acquisition ----------------------------
(***************************************************************************)
(* acquisition.cpp: the task that scans the registry, posting one read per *)
(* tag, and applies the drivers' answers to the store, at most one answer  *)
(* per turn of its loop.  The service is RUNNING: app_start starts it and  *)
(* nothing stops it.                                                       *)
(***************************************************************************)
EXTENDS ProtocolDispatcher, TagRuntime

CONSTANT ResponseCapacity     \* xQueueCreate(30, ...)

\* protocol_response_t: ok is status = SYS_OK; value is 0 when it is not,
\* where the code leaves the field unset and unread.
Response == [tag : TagId, ok : BOOLEAN, value : Nat]

ASSUME AcquisitionAssumption ==
  /\ ResponseCapacity \in Nat \ {0}
  /\ NONE \notin Response

VARIABLES
  acqPc,       \* where acquisition_task is in its loop
  scanIdx,     \* acquisition_scan's loop index, 1 outside a scan
  acqHolding,  \* the response received and not yet applied, or NONE
  respQueue    \* gAcqResponseQueue

acqVars == <<acqPc, scanIdx, acqHolding, respQueue>>

AcquisitionInit ==
  /\ acqPc = "top"
  /\ scanIdx = 1
  /\ acqHolding = NONE
  /\ respQueue = <<>>

\* Mutant: xQueueSendToFront.
acquisition_post_response_front(response) ==
  respQueue' = IF Len(respQueue) < ResponseCapacity
               THEN <<response>> \o respQueue
               ELSE respQueue

\* xQueueSend with no wait: a full queue drops the answer.
acquisition_post_response(response) ==
  respQueue' = IF Len(respQueue) < ResponseCapacity
               THEN Append(respQueue, response)
               ELSE respQueue

\* The top of the loop: the interval since the last scan has passed, or not.
BeginTurn ==
  /\ acqPc = "top"
  /\ acqPc' \in {"scan", "receive"}
  /\ UNCHANGED <<scanIdx, acqHolding, respQueue, dispQueue, store>>

\* Mutant: the index is not reset after the last tag.
ScanTagNoReset ==
  LET t == tag_get_at(scanIdx)
  IN /\ acqPc = "scan"
     /\ IF Access[t] = "WRITE_ONLY"
        THEN UNCHANGED dispQueue
        ELSE protocol_dispatcher_post(ReadRequest(t))
     /\ scanIdx' = scanIdx + 1
     /\ acqPc' = IF scanIdx = tag_count THEN "receive" ELSE "scan"
     /\ UNCHANGED <<acqHolding, respQueue, store>>

\* One turn of acquisition_scan's for loop.
ScanTag ==
  LET t == tag_get_at(scanIdx)
      last == scanIdx = tag_count
  IN /\ acqPc = "scan"
     /\ IF Access[t] = "WRITE_ONLY"
        THEN UNCHANGED dispQueue
        ELSE protocol_dispatcher_post(ReadRequest(t))
     /\ scanIdx' = IF last THEN 1 ELSE scanIdx + 1
     /\ acqPc' = IF last THEN "receive" ELSE "scan"
     /\ UNCHANGED <<acqHolding, respQueue, store>>

\* Mutant: the newest answer first.
ReceiveNewestResponse ==
  /\ acqPc = "receive"
  /\ respQueue # <<>>
  /\ acqHolding' = respQueue[Len(respQueue)]
  /\ respQueue' = SubSeq(respQueue, 1, Len(respQueue) - 1)
  /\ acqPc' = "apply"
  /\ UNCHANGED <<scanIdx, dispQueue, store>>

\* xQueueReceive with an answer within 100 ms.
ReceiveResponse ==
  /\ acqPc = "receive"
  /\ respQueue # <<>>
  /\ acqHolding' = Head(respQueue)
  /\ respQueue' = Tail(respQueue)
  /\ acqPc' = "apply"
  /\ UNCHANGED <<scanIdx, dispQueue, store>>

\* 100 ms without one.
ReceiveTimeout ==
  /\ acqPc = "receive"
  /\ respQueue = <<>>
  /\ acqPc' = "top"
  /\ UNCHANGED <<scanIdx, acqHolding, respQueue, dispQueue, store>>

\* Mutant: the status is not looked at.
ApplyWhateverStatus ==
  /\ acqPc = "apply"
  /\ StoreSample(acqHolding.tag, acqHolding.value)
  /\ acqHolding' = NONE
  /\ acqPc' = "top"
  /\ UNCHANGED <<scanIdx, respQueue, dispQueue>>

\* The locked section that updates the store.
ApplyResponse ==
  /\ acqPc = "apply"
  /\ IF acqHolding.ok
     THEN StoreSample(acqHolding.tag, acqHolding.value)
     ELSE MarkInvalid(acqHolding.tag)
  /\ acqHolding' = NONE
  /\ acqPc' = "top"
  /\ UNCHANGED <<scanIdx, respQueue, dispQueue>>

AcquisitionTask ==
  \/ BeginTurn \/ ScanTag \/ ReceiveResponse \/ ReceiveTimeout \/ ApplyResponse
============================================================================
