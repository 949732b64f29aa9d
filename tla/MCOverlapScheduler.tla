-------------------------- MODULE MCOverlapScheduler --------------------------
(* Instances of OverlapScheduler for TLC. *)
EXTENDS OverlapScheduler, TLC

CONSTANTS r1, r2, r3, b1, b2, b3, b4, b5, b6

(* r1 has no payload, r2 a small one, r3 one that makes it too large to be  *)
(* read in one piece.                                                       *)
MixedPayloads == [r \in Records |-> CASE r = r1 -> 0 [] r = r2 -> 2 [] OTHER -> 6]
(* The addresses no buffer has at the start are interchangeable. *)
HeapSymmetry == Permutations({b3, b4, b5, b6})
=============================================================================
