---------------------------- MODULE GrantLedger ----------------------------
(***************************************************************************)
(* What the write side promises to everything downstream of it: a table of *)
(* grants and a log of numbered events that move together, one step each.  *)
(* No transactions, locks or sequence appear here; GrantWrites implements  *)
(* this module with them.                                                  *)
(***************************************************************************)
EXTENDS Naturals

CONSTANTS
  Keys,  \* identities of grants: (subject kind, subject, role, resource)
  Ids,   \* identifiers a row can be given
  Seqs   \* numbers an event can be given

ASSUME SeqsAssumption == Seqs \subseteq Nat

VARIABLES
  rows,    \* the grants that are held: records [id, key]
  outbox   \* the events published: records [seq, type, key, id]

vars == <<rows, outbox>>

(* s is a number no event has, above every event about the same grant.     *)
(* Numbers of different grants may be taken in any order.                  *)
IsNextFor(k, s) == \A e \in outbox : e.seq # s /\ (e.key = k => e.seq < s)

Event(s, t, r) == [seq |-> s, type |-> t, key |-> r.key, id |-> r.id]

Init == rows = {} /\ outbox = {}

Add(k, i, s) ==
  /\ \A r \in rows : r.key # k /\ r.id # i
  /\ IsNextFor(k, s)
  /\ rows' = rows \cup {[id |-> i, key |-> k]}
  /\ outbox' = outbox \cup {Event(s, "GrantAdded", [id |-> i, key |-> k])}

Remove(r, s) ==
  /\ IsNextFor(r.key, s)
  /\ rows' = rows \ {r}
  /\ outbox' = outbox \cup {Event(s, "GrantRevoked", r)}

Next ==
  \/ \E k \in Keys, i \in Ids, s \in Seqs : Add(k, i, s)
  \/ \E r \in rows, s \in Seqs : Remove(r, s)

Spec == Init /\ [][Next]_vars
=============================================================================
