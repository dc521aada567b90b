---------------------------- MODULE MCReleaseGate ----------------------------
(* Instances of ReleaseGate for TLC: two commits that differ in the candidate *)
(* and in the evidence, and both pass.                                        *)
EXTENDS ReleaseGate, TLC

CONSTANTS d1, d2, r1, r2

MCContent == [d \in Digests |->
                 [f \in TreeFiles |-> IF d = d2 /\ f \in {"candidate", "evidence"} THEN 2 ELSE 1]]
MCSymmetry == Permutations(Reports)
MCPassing == {<<1, 1>>, <<1, 2>>}
MCProvenance == {<<1, d1>>, <<2, d2>>}
=============================================================================
