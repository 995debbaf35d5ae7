------------------------------- MODULE MCTSet -------------------------------
(* Two keywords for TLC, with digests whose buckets collide within a row   *)
(* and between the rows.                                                   *)
EXTENDS TSet

CONSTANTS k1, k2, b1, b2

MCBucket == [d \in {k1, k2} \X (0..1) |-> IF d = <<k2, 1>> THEN b2 ELSE b1]

=============================================================================
