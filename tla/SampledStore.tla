---------------------------- MODULE SampledStore ----------------------------
(***************************************************************************)
(* What the acquisition path promises, without queues, tasks or buses: a   *)
(* tag shows a sample its source really produced, and never goes back to   *)
(* an older one; an unreadable source makes the tag invalid.  How long the *)
(* samples take, and which are lost, is left open.                         *)
(***************************************************************************)
EXTENDS Naturals

CONSTANT Tag

VARIABLES
  current,   \* per tag, the number of its source's latest sample
  shown      \* per tag, the value shown and whether it may be used

vars == <<current, shown>>

Init ==
  /\ current = [t \in Tag |-> 1]
  /\ shown = [t \in Tag |-> [value |-> 0, valid |-> FALSE]]

Produce(t) ==
  /\ current' = [current EXCEPT ![t] = @ + 1]
  /\ UNCHANGED shown

Show(t) ==
  \E v \in 1 .. current[t] :
    /\ v >= shown[t].value
    /\ shown' = [shown EXCEPT ![t] = [value |-> v, valid |-> TRUE]]
    /\ UNCHANGED current

Invalidate(t) ==
  /\ shown' = [shown EXCEPT ![t].valid = FALSE]
  /\ UNCHANGED current

Next == \E t \in Tag : Produce(t) \/ Show(t) \/ Invalidate(t)

Spec == Init /\ [][Next]_vars
=============================================================================
