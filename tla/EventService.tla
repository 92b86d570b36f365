---------------------------- MODULE EventService ----------------------------
(***************************************************************************)
(* event_service.cpp: posting to the default event loop (external), whose  *)
(* queue is bounded.  The loop's task is app_event_handler's, in           *)
(* Connectivity.                                                           *)
(***************************************************************************)
EXTENDS Naturals, Sequences

CONSTANT LoopCapacity     \* CONFIG_ESP_SYSTEM_EVENT_QUEUE_SIZE

ASSUME LoopAssumption == LoopCapacity \in Nat \ {0}

VARIABLES
  loop,      \* the events posted and not yet handled, oldest first
  refused    \* what a full queue or a missing task has cost so far

AppEvent ==
  {"NETWORK_UP", "NETWORK_DOWN", "MQTT_CONNECTED", "MQTT_DISCONNECTED"}

EventInit ==
  /\ loop = <<>>
  /\ refused = {}

\* Mutant: the queue has no limit.
event_post_unlimited(event) ==
  /\ loop' = Append(loop, event)
  /\ UNCHANGED refused

\* event_post waits 500 ms for room; then the event is lost, and no caller
\* looks at the result.
event_post(event) ==
  IF Len(loop) < LoopCapacity
  THEN /\ loop' = Append(loop, event)
       /\ UNCHANGED refused
  ELSE /\ refused' = refused \cup {"event"}
       /\ UNCHANGED loop
=============================================================================
