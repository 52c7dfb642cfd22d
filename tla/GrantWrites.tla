---------------------------- MODULE GrantWrites ----------------------------
(***************************************************************************)
(* The transactional write side: PostgresGrantRepository.grant and         *)
(* .revoke, statement by statement, run by several connections at once     *)
(* (the API nodes' pools), and PgKgProjector.rebuild beside them.          *)
(*                                                                         *)
(* Rows, graph edges and events become visible at COMMIT; the row lock is  *)
(* taken by the first statement; the number of the event comes from a      *)
(* sequence, which is not transactional: it moves when enqueue runs, is    *)
(* visible at once and never goes back.                                    *)
(***************************************************************************)
EXTENDS Naturals

CONSTANTS
  Writers,  \* database connections that write
  Keys,     \* the grants that can be asked for
  MaxId,    \* bound: rows ever inserted, rolled back ones included
  MaxSeq    \* bound: numbers ever drawn from the outbox sequence

ASSUME BoundsAssumption == MaxId \in Nat /\ MaxSeq \in Nat

ASSUME KeysAssumption ==
  /\ Keys # {}
  /\ Keys \subseteq [kind : {"user", "team"}, subject : STRING,
                     role : {"viewer", "editor", "owner"}, resource : STRING]

VARIABLES
  rows,     \* table grants, committed: records [id, key]
  edges,    \* table kg_edges, its GRANTED rows, committed
  outbox,   \* table outbox, committed: records [seq, type, key, id]
  seqLast,  \* pg_sequence_last_value of outbox.id
  nextId,   \* how many row ids have been made (randomUUID: each is new)
  txn       \* what each connection is in the middle of

vars == <<rows, edges, outbox, seqLast, nextId, txn>>

(* kg_edges tells two edges apart by (src, rel, dst, props): the kind of   *)
(* the subject is not part of it.                                          *)
EdgeOf(k) == [src |-> k.subject, role |-> k.role, dst |-> k.resource]

AnyKey == CHOOSE k \in Keys : TRUE

Idle == [stage |-> "idle", op |-> "GrantAdded", id |-> 0, key |-> AnyKey,
         edge |-> FALSE, seq |-> 0]

Begun(op, r, edge) == [stage |-> "written", op |-> op, id |-> r.id, key |-> r.key,
                       edge |-> edge, seq |-> 0]

IsOpen(w) == txn[w].stage \in {"written", "enqueued"}

(* The row, or the slot of the unique index, that an open transaction has  *)
(* changed: another statement that meets it waits for COMMIT or ROLLBACK.  *)
IsLocked(k) == \E w \in Writers : IsOpen(w) /\ txn[w].key = k
IsEdgeLocked(e) == \E w \in Writers : IsOpen(w) /\ txn[w].edge /\ EdgeOf(txn[w].key) = e

Committed == {e.seq : e \in outbox}

(* Numbers drawn by transactions that have not ended yet. *)
InFlight == {txn[w].seq : w \in {v \in Writers : txn[v].stage = "enqueued"}}

-----------------------------------------------------------------------------
Init ==
  /\ rows = {} /\ edges = {} /\ outbox = {}
  /\ seqLast = 0 /\ nextId = 0
  /\ txn = [w \in Writers |-> Idle]

(* Wrong variant: the uniqueness of (subject, role, resource) is looked up *)
(* in the committed rows instead of being left to the unique index.        *)
InsertGrantUnchecked(w, k) ==
  /\ txn[w] = Idle
  /\ \A r \in rows : r.key # k
  /\ nextId < MaxId
  /\ nextId' = nextId + 1
  /\ txn' = [txn EXCEPT ![w] =
       Begun("GrantAdded", [id |-> nextId + 1, key |-> k], EdgeOf(k) \notin edges)]
  /\ UNCHANGED <<rows, edges, outbox, seqLast>>

(* grant: INSERT INTO grants took, and the edge with it. The edge is this  *)
(* transaction's own only if it was not there already.                     *)
InsertGrant(w, k) ==
  /\ txn[w] = Idle
  /\ ~IsLocked(k) /\ ~IsEdgeLocked(EdgeOf(k))
  /\ \A r \in rows : r.key # k
  /\ nextId < MaxId
  /\ nextId' = nextId + 1
  /\ txn' = [txn EXCEPT ![w] =
       Begun("GrantAdded", [id |-> nextId + 1, key |-> k], EdgeOf(k) \notin edges)]
  /\ UNCHANGED <<rows, edges, outbox, seqLast>>

(* Wrong variant: the row of an insert that has not ended is met too. *)
GrantExistsDirty(w, k) ==
  /\ txn[w] = Idle
  /\ \/ \E r \in rows : r.key = k
     \/ \E v \in Writers : IsOpen(v) /\ txn[v].op = "GrantAdded" /\ txn[v].key = k
  /\ txn' = [txn EXCEPT ![w] = [Idle EXCEPT !.stage = "lookup", !.key = k]]
  /\ UNCHANGED <<rows, edges, outbox, seqLast, nextId>>

(* grant: ON CONFLICT DO NOTHING returned no row. The transaction ends and *)
(* the row is then looked up outside it.                                   *)
GrantExists(w, k) ==
  /\ txn[w] = Idle
  /\ ~IsLocked(k)
  /\ \E r \in rows : r.key = k
  /\ txn' = [txn EXCEPT ![w] = [Idle EXCEPT !.stage = "lookup", !.key = k]]
  /\ UNCHANGED <<rows, edges, outbox, seqLast, nextId>>

(* grant: find(input) and currentSeq() for the reply of a no-op. *)
FindExisting(w) ==
  /\ txn[w].stage = "lookup"
  /\ txn' = [txn EXCEPT ![w] = Idle]
  /\ UNCHANGED <<rows, edges, outbox, seqLast, nextId>>

(* Wrong variant: the row is read first and its deletion is not checked.   *)
DeleteGrantUnlocked(w, r) ==
  /\ txn[w] = Idle
  /\ txn' = [txn EXCEPT ![w] = Begun("GrantRevoked", r, EdgeOf(r.key) \in edges)]
  /\ UNCHANGED <<rows, edges, outbox, seqLast, nextId>>

(* revoke: DELETE FROM grants took, and the edge with it. An edge that an  *)
(* open transaction is deleting is waited for; one that an open            *)
(* transaction is inserting is not visible. A revoke of an id that no      *)
(* committed row has changes nothing and is a stuttering step.             *)
DeleteGrant(w, r) ==
  /\ txn[w] = Idle
  /\ ~IsLocked(r.key)
  /\ EdgeOf(r.key) \in edges => ~IsEdgeLocked(EdgeOf(r.key))
  /\ txn' = [txn EXCEPT ![w] = Begun("GrantRevoked", r, EdgeOf(r.key) \in edges)]
  /\ UNCHANGED <<rows, edges, outbox, seqLast, nextId>>

(* Wrong variant: the event is written on a connection of its own. *)
EnqueueOutside(w) ==
  /\ txn[w].stage = "written"
  /\ seqLast < MaxSeq
  /\ seqLast' = seqLast + 1
  /\ txn' = [txn EXCEPT ![w].stage = "enqueued", ![w].seq = seqLast + 1]
  /\ outbox' = outbox \cup {[seq |-> seqLast + 1, type |-> txn[w].op,
                             key |-> txn[w].key, id |-> txn[w].id]}
  /\ UNCHANGED <<rows, edges, nextId>>

(* enqueue: the event's row takes the next number of the sequence. *)
Enqueue(w) ==
  /\ txn[w].stage = "written"
  /\ seqLast < MaxSeq
  /\ seqLast' = seqLast + 1
  /\ txn' = [txn EXCEPT ![w].stage = "enqueued", ![w].seq = seqLast + 1]
  /\ UNCHANGED <<rows, edges, outbox, nextId>>

RowOf(t) == [id |-> t.id, key |-> t.key]
(* Wrong variant: the payload does not name the row. *)
EventWithoutId(t) == [seq |-> t.seq, type |-> t.op, key |-> t.key]

EventOf(t) == [seq |-> t.seq, type |-> t.op, key |-> t.key, id |-> t.id]

(* Wrong variant: revoke leaves the edge. *)
CommitKeepingEdge(w) ==
  LET t == txn[w] IN
  /\ t.stage = "enqueued"
  /\ outbox' = outbox \cup {EventOf(t)}
  /\ \/ /\ t.op = "GrantAdded"
        /\ rows' = rows \cup {RowOf(t)}
        /\ edges' = edges \cup {EdgeOf(t.key)}
     \/ /\ t.op = "GrantRevoked"
        /\ rows' = rows \ {RowOf(t)}
        /\ UNCHANGED edges
  /\ txn' = [txn EXCEPT ![w] = Idle]
  /\ UNCHANGED <<seqLast, nextId>>

Commit(w) ==
  LET t == txn[w]
      own == IF t.edge THEN {EdgeOf(t.key)} ELSE {}
  IN
  /\ t.stage = "enqueued"
  /\ outbox' = outbox \cup {EventOf(t)}
  /\ \/ /\ t.op = "GrantAdded"
        /\ rows' = rows \cup {RowOf(t)}
        /\ edges' = edges \cup own
     \/ /\ t.op = "GrantRevoked"
        /\ rows' = rows \ {RowOf(t)}
        /\ edges' = edges \ own
  /\ txn' = [txn EXCEPT ![w] = Idle]
  /\ UNCHANGED <<seqLast, nextId>>

(* An error, a lost connection or a database that restarts: nothing of the *)
(* transaction remains but the number it drew.                             *)
Rollback(w) ==
  /\ IsOpen(w)
  /\ txn' = [txn EXCEPT ![w] = Idle]
  /\ UNCHANGED <<rows, edges, outbox, seqLast, nextId>>

(* PgKgProjector.rebuild, its GRANTED part: TRUNCATE waits for every       *)
(* transaction that has written to the graph tables and holds off the      *)
(* others, so it is one step.                                              *)
Rebuild ==
  /\ \A w \in Writers : ~IsOpen(w)
  /\ edges' = {EdgeOf(r.key) : r \in rows}
  /\ UNCHANGED <<rows, outbox, seqLast, nextId, txn>>

Next ==
  \/ \E w \in Writers, k \in Keys : InsertGrant(w, k) \/ GrantExists(w, k)
  \/ \E w \in Writers : \E r \in rows : DeleteGrant(w, r)
  \/ \E w \in Writers : FindExisting(w) \/ Enqueue(w) \/ Commit(w) \/ Rollback(w)
  \/ Rebuild

Spec == Init /\ [][Next]_vars

-----------------------------------------------------------------------------
(* Every variable stays in its type; an open transaction knows its row and *)
(* an enqueued one its number.                                             *)
Txn == [stage : {"idle", "lookup", "written", "enqueued"},
        op : {"GrantAdded", "GrantRevoked"}, id : 0..MaxId, key : Keys,
        edge : BOOLEAN, seq : 0..MaxSeq]

Events == [seq : 1..MaxSeq, type : {"GrantAdded", "GrantRevoked"}, key : Keys, id : 1..MaxId]

TypeOK ==
  /\ rows \subseteq [id : 1..MaxId, key : Keys]
  /\ edges \subseteq {EdgeOf(k) : k \in Keys}
  /\ outbox \subseteq Events
  /\ seqLast \in 0..MaxSeq
  /\ nextId \in 0..MaxId
  /\ txn \in [Writers -> Txn]
  /\ \A w \in Writers : /\ IsOpen(w) => txn[w].id >= 1
                        /\ txn[w].stage = "enqueued" => txn[w].seq >= 1

(* Replaying the outbox in the order of its numbers yields the grants      *)
(* table: for every grant, the event with the highest number says whether  *)
(* it is held, whatever transactions overlapped. This is what lets the     *)
(* event stream stand for the table (audit, the Neo4j projection).         *)
LastEvent(k, e) == e.key = k /\ \A f \in outbox : f.key = k => f.seq <= e.seq

ReplayIsTable ==
  \A k \in Keys :
    (\E r \in rows : r.key = k)
      <=> (\E e \in outbox : LastEvent(k, e) /\ e.type = "GrantAdded")

(* A granted row has one life: it is added once and revoked at most once,  *)
(* in that order, also when several connections grant or revoke it at the  *)
(* same time or retry what was already done.                               *)
OneLifePerRow ==
  \A e, f \in outbox : e.id = f.id =>
    /\ e.key = f.key
    /\ e.type = f.type => e = f
    /\ e.type = "GrantAdded" /\ f.type = "GrantRevoked" => e.seq < f.seq

(* "After this, grant writes maintain their own edges inside the same      *)
(* transaction as the grant row, so there is no window in which the graph  *)
(* and the source of truth disagree" (bootstrap.ts).                       *)
GraphIsTable == edges = {EdgeOf(r.key) : r \in rows}

(* The condition under which GraphIsTable holds: no two grants share an    *)
(* edge, that is, no user and team share an id.                            *)
EdgesDistinct == \A k, m \in Keys : EdgeOf(k) = EdgeOf(m) => k = m

(* A no-op grant replies with a row that it looks up after its transaction *)
(* has ended ("existing!"). It finds none only if the grant was revoked    *)
(* meanwhile, which the log then tells: a write that was rolled back never *)
(* turns a grant into a no-op that neither row nor event accounts for.     *)
NoOpIsExplained ==
  \A w \in Writers : txn[w].stage = "lookup" =>
    \/ \E r \in rows : r.key = txn[w].key
    \/ \E e \in outbox : e.key = txn[w].key /\ e.type = "GrantRevoked"

(* The promise of the write side: table and log move together. *)
Ledger == INSTANCE GrantLedger WITH Ids <- 1..MaxId, Seqs <- 1..MaxSeq

ImplementsLedger == Ledger!Spec
=============================================================================
