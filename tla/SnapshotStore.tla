--------------------------- MODULE SnapshotStore ---------------------------
(***************************************************************************)
(* What the store's mutex is for, without a mutex: a tag changes in one    *)
(* step, a reader takes all of it in one step, and shows what it took.     *)
(***************************************************************************)
EXTENDS Naturals

CONSTANT Reader

VARIABLES
  tag,     \* the tag's value, timestamp and valid
  taken,   \* what each reader has taken and not yet shown
  shown    \* what each reader showed last

vars == <<tag, taken, shown>>

Blank == [value |-> 0, timestamp |-> 0, valid |-> FALSE]

Init ==
  /\ tag = Blank
  /\ taken = [r \in Reader |-> Blank]
  /\ shown = [r \in Reader |-> Blank]

\* A newer sample, of which there may have been others since the last one.
Sample ==
  /\ tag'.value > tag.value
  /\ tag' = [value |-> tag'.value, timestamp |-> tag'.value, valid |-> TRUE]
  /\ UNCHANGED <<taken, shown>>

Invalidate ==
  /\ tag' = [tag EXCEPT !.valid = FALSE]
  /\ UNCHANGED <<taken, shown>>

Take(r) ==
  /\ tag.value > 0
  /\ taken' = [taken EXCEPT ![r] = tag]
  /\ UNCHANGED <<tag, shown>>

Show(r) ==
  /\ taken[r] # Blank
  /\ shown' = [shown EXCEPT ![r] = taken[r]]
  /\ taken' = [taken EXCEPT ![r] = Blank]
  /\ UNCHANGED tag

Next == Sample \/ Invalidate \/ \E r \in Reader : Take(r) \/ Show(r)

Spec == Init /\ [][Next]_vars
=============================================================================
