----------------------------- MODULE MCSessions -----------------------------
(* Three sessions under a cap of two, two callers' numbers and two         *)
(* conversations.  Sessions, numbers and conversations are interchangeable.*)
EXTENDS Sessions, TLC

CONSTANTS s1, s2, s3, n1, n2, c1, c2

Interchangeable ==
  Permutations({s1, s2, s3}) \cup Permutations({n1, n2}) \cup Permutations({c1, c2})
=============================================================================
