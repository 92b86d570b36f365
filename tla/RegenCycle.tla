----------------------------- MODULE RegenCycle -----------------------------
(***************************************************************************)
(* What core.cpp promises those who listen to its events: each cycle       *)
(* begins once and ends once, with the outcome its end deserves, and each  *)
(* fault raises its alarm when it is entered.                              *)
(***************************************************************************)
EXTENDS Sequences

VARIABLES
  state,    \* ws_state_t
  cycles,   \* the cycle events so far
  alarm     \* the fault event posted last, or "NONE"

vars == <<state, cycles, alarm>>

Init ==
  /\ state = "IDLE"
  /\ cycles = <<>>
  /\ alarm = "NONE"

\* The alarm that goes with moving to this state.
Alarm(to) ==
  CASE to = "IDLE" /\ state # "IDLE"   -> {"DATA_LOSS"}
    [] to = "FAULT" /\ state # "FAULT" -> {"LOW_PRESSURE", "LOW_SALT"}
    [] OTHER                           -> {alarm}

MoveTo(to) ==
  /\ state' = to
  /\ alarm' \in Alarm(to)

Begin ==
  /\ state # "REGEN_RUNNING"
  /\ MoveTo("REGEN_RUNNING")
  /\ cycles' = Append(cycles, "STARTED")

Complete ==
  /\ state = "REGEN_RUNNING"
  /\ MoveTo("MONITORING")
  /\ cycles' = Append(cycles, "COMPLETED")

Fail ==
  /\ state = "REGEN_RUNNING"
  /\ \E to \in {"IDLE", "FAULT"} : MoveTo(to)
  /\ cycles' = Append(cycles, "FAILED")

Move ==
  /\ state # "REGEN_RUNNING"
  /\ \E to \in {"IDLE", "MONITORING", "FAULT"} : MoveTo(to)
  /\ UNCHANGED cycles

Spec == Init /\ [][Begin \/ Complete \/ Fail \/ Move]_vars
=============================================================================
