--------------------------- MODULE MCInvalidation ---------------------------
(* Small instances of Invalidation: one question, which one grant to the   *)
(* user or one to a team of theirs allows.                                 *)
EXTENDS Invalidation, TLC

Grant(kind, subject) == [kind |-> kind, subject |-> subject, role |-> "viewer", resource |-> "repo"]

MCUser == {Grant("user", "mallory")}
MCUserAndTeam == MCUser \cup {Grant("team", "core")}

MCPaths == [q \in Queries |-> Keys]

(* A bound on what piles up in the caches: one decision in L1, and one in  *)
(* Redis or on its way there per node.                                     *)
Small ==
  /\ \A n \in Nodes : Cardinality(l1[n]) <= 1
  /\ Cardinality(l2) + Cardinality(l2Writes) <= Cardinality(Nodes)

WriterSymmetry == Permutations(Writers)
NodeSymmetry == Permutations(Nodes) \cup Permutations(Requests)
=============================================================================
