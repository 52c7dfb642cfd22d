--------------------------- MODULE MCProjections ---------------------------
(* One or two grants, all on one partition.                                *)
EXTENDS Projections

MCPartitionOf == [k \in Keys |-> "p1"]

(* The grants are alike: of two behaviours that differ in which of them    *)
(* has the first number, one is enough, for liveness too.                  *)
MCFirst == \A e \in outbox : e.seq = 1 => e.key = CHOOSE k \in Keys : TRUE
=============================================================================
