------------------------------ MODULE MCPaywall ------------------------------
(* A subscription of each product.                                         *)
EXTENDS Paywall, TLC

CONSTANTS s1, s2

MCProductOf == [s \in Sub |-> IF s = s1 THEN "academy" ELSE "workflow_support"]
MCSymmetry  == Permutations(Handler)
=============================================================================
