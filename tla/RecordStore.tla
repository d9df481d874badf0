---------------------------- MODULE RecordStore ----------------------------
(***************************************************************************)
(* What the worker's record files promise to those who use them: a record   *)
(* has one known value, until a write of another has begun and its outcome  *)
(* is in doubt.  Whoever opens the store next finds out, once and for all.  *)
(***************************************************************************)
CONSTANT Values

VARIABLES value,    \* what every reader has been told, or was acknowledged
          doubt,    \* what a reader may be told next: value, or a write begun
          live      \* whether somebody may use the store

vars == <<value, doubt, live>>

Init == value \in Values /\ doubt = value /\ live = FALSE

Open ==
    /\ ~live /\ live' = TRUE
    /\ value' \in {value, doubt}
    /\ doubt' = value'

Begin ==
    /\ live /\ doubt = value
    /\ doubt' \in Values
    /\ UNCHANGED <<value, live>>

Commit == live /\ value' = doubt /\ UNCHANGED <<doubt, live>>

Fail == live /\ live' = FALSE /\ UNCHANGED <<value, doubt>>

Next == Open \/ Begin \/ Commit \/ Fail

Spec == Init /\ [][Next]_vars
=============================================================================
