---------------------------- MODULE MCWindowBench ----------------------------
(* Two nodes, and one user who is the only subject of the grant.           *)
EXTENDS WindowBench, TLC

MCTarget == [kind |-> "user", subject |-> "mallory", role |-> "viewer", resource |-> "repo"]

MCKeys == {MCTarget}

MCPaths == [q \in Queries |-> Keys]

(* Bound: one poll under way. *)
OnePoll == \A m, n \in Nodes : m # n => poll[m] = {} \/ poll[n] = {}
=============================================================================
