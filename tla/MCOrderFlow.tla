--------------------------- MODULE MCOrderFlow ---------------------------
(* OrderFlow for TLC.  Orders are interchangeable: no definition chooses   *)
(* among them, so exchanging them is a symmetry.                           *)
EXTENDS OrderFlow, TLC

OrderSymmetry == Permutations(Orders)

=============================================================================
