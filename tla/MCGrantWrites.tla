--------------------------- MODULE MCGrantWrites ---------------------------
(* Small instances of GrantWrites: two connections, two or three grants.   *)
EXTENDS GrantWrites

Grant(kind, subject, role) == [kind |-> kind, subject |-> subject, role |-> role, resource |-> "repo"]

(* No user and team share an id. *)
MCKeys == {Grant("user", "mallory", "viewer"), Grant("team", "core", "viewer")}

(* A user and a team with the same id. *)
MCCollidingKeys == {Grant("user", "core", "viewer"), Grant("team", "core", "viewer")}
=============================================================================
