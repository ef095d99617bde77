----------------------------- MODULE MCJudgeRun -----------------------------
(* A small instance of JudgeRun: for the selection every run of four items in two tiers,  *)
(* and for the judge three cases of one tier, and two repeats of an item answered alike.  *)
EXTENDS JudgeRun, TLC

MCKeys == (1..4) \X {0, 1}

R(failed, answer) == [tier |-> "T1", judgeable |-> TRUE, failed |-> failed, answer |-> answer]

Three == <<1, 0>> :> R(FALSE, "x") @@ <<2, 0>> :> R(TRUE, "y") @@ <<3, 0>> :> R(TRUE, "z")
Alike == <<1, 0>> :> R(FALSE, "x") @@ <<1, 1>> :> R(FALSE, "x") @@ <<2, 1>> :> R(TRUE, "y")

Results == [tier : {"T1", "T2"}, judgeable : BOOLEAN, failed : BOOLEAN, answer : {"x"}]

MCRuns == {Three, Alike} \cup [(1..4) \X {0} -> Results]
MCJudgedRuns == {Three, Alike}
MCLabels == [id \in 1..4 |-> IF id = 2 THEN 3 ELSE 4]
=============================================================================
