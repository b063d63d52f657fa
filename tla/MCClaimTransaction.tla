------------------------- MODULE MCClaimTransaction -------------------------
(* Instance values for model checking ClaimTransaction. *)
EXTENDS ClaimTransaction, TLC

CONSTANTS t1, t2, t3, c1, c2

ClaimerSymmetry == Permutations(Claimers)

\* Each execution has a thread of its own, or the first two share one.
Apart  == [e \in Executions |-> CASE e = 1 -> t1 [] e = 2 -> t2 [] OTHER -> t3]
Shared == [e \in Executions |-> IF e = 3 THEN t2 ELSE t1]

World(T, F, slow) == [threadOf |-> T, flow |-> F, slow |-> slow]

SafetyWorlds == {World(Apart, Executions, FALSE), World(Shared, {2}, TRUE)}
=============================================================================
