--------------------------- MODULE ResultLedger ---------------------------
(***************************************************************************)
(* What a resumable evaluation promises about its results file: a key is   *)
(* graded once, one key at a time, and its grade is never taken back nor   *)
(* replaced, whatever happens to the processes that write the file.        *)
(***************************************************************************)
CONSTANTS Keys, Grades, None

VARIABLE graded     \* by key: its grade, or None

Init == graded = [k \in Keys |-> None]

Grade(k) ==
  /\ graded[k] = None
  /\ graded'[k] \in Grades
  /\ graded' = [graded EXCEPT ![k] = graded'[k]]

Next == \E k \in Keys : Grade(k)

Spec == Init /\ [][Next]_graded
=============================================================================
