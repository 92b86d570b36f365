----------------------------- MODULE TagRuntime -----------------------------
(***************************************************************************)
(* The store of tag_runtime.cpp: the latest value of each tag and whether  *)
(* it may be used.  Every update here is one tag_runtime_lock ... unlock   *)
(* section.                                                                *)
(***************************************************************************)
EXTENDS TagRegistry

VARIABLE store   \* gTagRuntime: per tag, its value and valid fields

TagRuntimeInit == store = [t \in TagId |-> [value |-> 0, valid |-> FALSE]]

StoreSample(t, v) == store' = [store EXCEPT ![t] = [value |-> v, valid |-> TRUE]]

\* The failed branch leaves the previous value in place.
MarkInvalid(t) == store' = [store EXCEPT ![t].valid = FALSE]
=============================================================================
