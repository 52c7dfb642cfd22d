------------------------- MODULE GrantWritesProofs -------------------------
(***************************************************************************)
(* Proofs about GrantWrites, for any number of connections and grants and  *)
(* for any bounds.                                                         *)
(*                                                                         *)
(* The properties are not inductive: that the table is the replay of the   *)
(* outbox also needs that a transaction's number is above every committed  *)
(* number of the same grant (Numbering), which in turn needs that two open *)
(* transactions never concern one grant (Locking), and the life of a row   *)
(* needs to know which ids have been made (Lives).                         *)
(***************************************************************************)
EXTENDS GrantWrites, TLAPS

(* Open transactions exclude each other per grant, and each has seen the   *)
(* committed state of its grant, which nobody else can change meanwhile.   *)
Locking ==
  /\ \A v, w \in Writers : IsOpen(v) /\ IsOpen(w) /\ txn[v].key = txn[w].key => v = w
  /\ \A w \in Writers : IsOpen(w) /\ txn[w].op = "GrantAdded" =>
       \A r \in rows : r.key # txn[w].key
  /\ \A w \in Writers : IsOpen(w) /\ txn[w].op = "GrantRevoked" => RowOf(txn[w]) \in rows

(* Numbers are drawn once, and after the lock on the grant is held. *)
Numbering ==
  /\ \A e \in outbox : e.seq <= seqLast
  /\ \A e, f \in outbox : e.seq = f.seq => e = f
  /\ \A w \in Writers : txn[w].stage = "enqueued" =>
       /\ txn[w].seq \in 1..seqLast
       /\ \A e \in outbox : e.seq # txn[w].seq /\ (e.key = txn[w].key => e.seq < txn[w].seq)
  /\ \A v, w \in Writers :
       txn[v].stage = "enqueued" /\ txn[w].stage = "enqueued" /\ txn[v].seq = txn[w].seq
         => v = w

(* An id is made for one row: events and rows that carry it agree on the   *)
(* grant, and what an open transaction inserts is new to everybody.        *)
Lives ==
  /\ \A r \in rows : r.id <= nextId
  /\ \A e \in outbox : e.id <= nextId
  /\ \A w \in Writers : IsOpen(w) => txn[w].id \in 1..nextId
  /\ \A r \in rows : \A e \in outbox : e.id = r.id => e.key = r.key /\ e.type = "GrantAdded"
  /\ \A r, s \in rows : r.id = s.id \/ r.key = s.key => r = s
  /\ \A w \in Writers : IsOpen(w) /\ txn[w].op = "GrantAdded" =>
       /\ \A r \in rows : r.id # txn[w].id
       /\ \A e \in outbox : e.id # txn[w].id
       /\ \A v \in Writers : IsOpen(v) /\ txn[v].id = txn[w].id => v = w

Inv == TypeOK /\ Locking /\ Numbering /\ Lives /\ ReplayIsTable /\ OneLifePerRow

-----------------------------------------------------------------------------
LEMMA IdleType == Idle \in Txn /\ Idle.stage = "idle" /\ ~(Idle.stage \in {"written", "enqueued"})
<1>1. AnyKey \in Keys
  BY KeysAssumption DEF AnyKey
<1>2. 0 \in 0..MaxId /\ 0 \in 0..MaxSeq
  BY BoundsAssumption
<1> QED
  BY <1>1, <1>2 DEF Idle, Txn

(* What one transaction's record becomes, and that the others keep theirs. *)
LEMMA OthersKeep ==
  ASSUME TypeOK, NEW w \in Writers, NEW t, txn' = [txn EXCEPT ![w] = t]
  PROVE  txn'[w] = t /\ \A v \in Writers : v # w => txn'[v] = txn[v]
BY DEF TypeOK

(* Type correctness of the write side. *)
LEMMA TypeStep == TypeOK /\ [Next]_vars => TypeOK'
<1> SUFFICES ASSUME TypeOK, [Next]_vars PROVE TypeOK'
  OBVIOUS
<1>0. ASSUME NEW w \in Writers, NEW t \in Txn, txn' = [txn EXCEPT ![w] = t],
             t.stage \in {"written", "enqueued"} => t.id >= 1,
             t.stage = "enqueued" => t.seq >= 1
      PROVE  /\ txn' \in [Writers -> Txn]
             /\ \A v \in Writers : /\ IsOpen(v)' => txn'[v].id >= 1
                                   /\ txn'[v].stage = "enqueued" => txn'[v].seq >= 1
  <2>1. txn' \in [Writers -> Txn]
    BY <1>0 DEF TypeOK
  <2> QED
    BY <1>0, <2>1, OthersKeep DEF TypeOK, IsOpen
<1>1. ASSUME NEW w \in Writers, NEW k \in Keys, InsertGrant(w, k) PROVE TypeOK'
  <2> DEFINE t == Begun("GrantAdded", [id |-> nextId + 1, key |-> k], EdgeOf(k) \notin edges)
  <2>1. nextId + 1 \in 0..MaxId /\ nextId + 1 >= 1
    BY <1>1, BoundsAssumption DEF TypeOK, InsertGrant
  <2>2. t \in Txn /\ t.stage = "written" /\ t.id >= 1
    BY <2>1, BoundsAssumption DEF Begun, Txn
  <2>3. txn' = [txn EXCEPT ![w] = t]
    BY <1>1 DEF InsertGrant
  <2> HIDE DEF t
  <2> QED
    BY <1>0, <1>1, <2>1, <2>2, <2>3 DEF TypeOK, InsertGrant
<1>2. ASSUME NEW w \in Writers, NEW k \in Keys, GrantExists(w, k) PROVE TypeOK'
  <2> DEFINE t == [Idle EXCEPT !.stage = "lookup", !.key = k]
  <2>1. t \in Txn /\ t.stage = "lookup"
    BY IdleType DEF Txn
  <2>2. txn' = [txn EXCEPT ![w] = t]
    BY <1>2 DEF GrantExists
  <2> HIDE DEF t
  <2> QED
    BY <1>0, <1>2, <2>1, <2>2 DEF TypeOK, GrantExists
<1>3. ASSUME NEW w \in Writers, NEW r \in rows, DeleteGrant(w, r) PROVE TypeOK'
  <2> DEFINE t == Begun("GrantRevoked", r, EdgeOf(r.key) \in edges)
  <2>1. r \in [id : 1..MaxId, key : Keys]
    BY DEF TypeOK
  <2>2. t \in Txn /\ t.stage = "written" /\ t.id >= 1
    BY <2>1, BoundsAssumption DEF Begun, Txn
  <2>3. txn' = [txn EXCEPT ![w] = t]
    BY <1>3 DEF DeleteGrant
  <2> HIDE DEF t
  <2> QED
    BY <1>0, <1>3, <2>2, <2>3 DEF TypeOK, DeleteGrant
<1>4. ASSUME NEW w \in Writers, FindExisting(w) PROVE TypeOK'
  BY <1>0, <1>4, IdleType DEF TypeOK, FindExisting
<1>5. ASSUME NEW w \in Writers, Enqueue(w) PROVE TypeOK'
  <2> DEFINE t == [txn[w] EXCEPT !.stage = "enqueued", !.seq = seqLast + 1]
  <2>1. seqLast + 1 \in 0..MaxSeq /\ seqLast + 1 >= 1
    BY <1>5, BoundsAssumption DEF TypeOK, Enqueue
  <2>2. t \in Txn /\ t.stage = "enqueued" /\ t.seq >= 1 /\ t.id >= 1
    BY <1>5, <2>1 DEF TypeOK, Txn, Enqueue, IsOpen
  <2>3. txn' = [txn EXCEPT ![w] = t]
    BY <1>5 DEF Enqueue, TypeOK
  <2> HIDE DEF t
  <2> QED
    BY <1>0, <1>5, <2>1, <2>2, <2>3 DEF TypeOK, Enqueue
<1>6. ASSUME NEW w \in Writers, Commit(w) PROVE TypeOK'
  <2>1. EventOf(txn[w]) \in Events /\ RowOf(txn[w]) \in [id : 1..MaxId, key : Keys]
    BY <1>6, BoundsAssumption DEF TypeOK, Commit, EventOf, RowOf, Events, Txn, IsOpen
  <2>2. EdgeOf(txn[w].key) \in {EdgeOf(k) : k \in Keys}
    BY DEF TypeOK, Txn
  <2>3. rows' \subseteq rows \cup {RowOf(txn[w])}
    BY <1>6 DEF Commit
  <2>4. edges' \subseteq edges \cup {EdgeOf(txn[w].key)}
    BY <1>6 DEF Commit
  <2>5. outbox' \subseteq Events
    BY <1>6, <2>1 DEF Commit, TypeOK
  <2>6. /\ txn' \in [Writers -> Txn]
        /\ \A v \in Writers : /\ IsOpen(v)' => txn'[v].id >= 1
                              /\ txn'[v].stage = "enqueued" => txn'[v].seq >= 1
    BY <1>0, <1>6, IdleType DEF Commit
  <2> QED
    BY <1>6, <2>1, <2>2, <2>3, <2>4, <2>5, <2>6 DEF TypeOK, Commit
<1>7. ASSUME NEW w \in Writers, Rollback(w) PROVE TypeOK'
  BY <1>0, <1>7, IdleType DEF TypeOK, Rollback
<1>8. CASE Rebuild
  <2>1. edges' \subseteq {EdgeOf(k) : k \in Keys}
    BY <1>8 DEF Rebuild, TypeOK
  <2> QED
    BY <1>8, <2>1 DEF TypeOK, Rebuild, IsOpen
<1>9. CASE UNCHANGED vars
  BY <1>9 DEF TypeOK, vars, IsOpen
<1>10. QED
  BY <1>1, <1>2, <1>3, <1>4, <1>5, <1>6, <1>7, <1>8, <1>9 DEF Next

-----------------------------------------------------------------------------
(* A step that at most ends or leaves closed one connection's transaction  *)
(* and touches neither the tables nor the counters.                        *)
LEMMA ClosingStep ==
  ASSUME Inv, NEW w \in Writers, NEW t, t.stage \notin {"written", "enqueued"},
         txn' = [txn EXCEPT ![w] = t], UNCHANGED <<rows, outbox, seqLast, nextId>>
  PROVE  Locking' /\ Numbering' /\ Lives' /\ ReplayIsTable' /\ OneLifePerRow'
<1>1. \A v \in Writers : /\ IsOpen(v)' => IsOpen(v) /\ txn'[v] = txn[v]
                         /\ txn'[v].stage = "enqueued" => txn'[v] = txn[v]
  BY OthersKeep DEF Inv, IsOpen
<1>2. Locking'
  BY <1>1 DEF Inv, Locking, RowOf, IsOpen
<1>3. Numbering'
  BY <1>1 DEF Inv, Numbering
<1>4. Lives'
  BY <1>1 DEF Inv, Lives, IsOpen
<1>5. ReplayIsTable' /\ OneLifePerRow'
  BY DEF Inv, ReplayIsTable, OneLifePerRow, LastEvent
<1> QED
  BY <1>2, <1>3, <1>4, <1>5

LEMMA InsertStep ==
  ASSUME Inv, NEW w \in Writers, NEW k \in Keys, InsertGrant(w, k)
  PROVE  Locking' /\ Numbering' /\ Lives' /\ ReplayIsTable' /\ OneLifePerRow'
<1> DEFINE t == Begun("GrantAdded", [id |-> nextId + 1, key |-> k], EdgeOf(k) \notin edges)
<1>1. /\ t.stage = "written" /\ t.op = "GrantAdded"
      /\ t.id = nextId + 1 /\ t.key = k
  BY DEF Begun
<1>2. txn' = [txn EXCEPT ![w] = t] /\ nextId' = nextId + 1 /\ ~IsOpen(w)
  BY IdleType DEF InsertGrant, IsOpen
<1> HIDE DEF t
<1>3. txn'[w] = t /\ \A v \in Writers : v # w => txn'[v] = txn[v]
  BY <1>2, OthersKeep DEF Inv
<1>4. \A v \in Writers : IsOpen(v)' /\ v # w => IsOpen(v) /\ txn'[v] = txn[v]
  BY <1>3 DEF IsOpen
<1>5. UNCHANGED <<rows, outbox, seqLast>>
  BY DEF InsertGrant
<1>6. Locking'
  <2>1. \A v \in Writers : IsOpen(v) => txn[v].key # k
    BY DEF InsertGrant, IsLocked
  <2>2. \A r \in rows : r.key # k
    BY DEF InsertGrant
  <2> QED
    BY <1>1, <1>3, <1>4, <1>5, <2>1, <2>2 DEF Inv, Locking, RowOf
<1>7. Numbering'
  BY <1>1, <1>3, <1>5 DEF Inv, Numbering
<1>8. Lives'
  <2>1. nextId \in Nat /\ nextId' \in Nat
    BY <1>2, BoundsAssumption DEF Inv, TypeOK
  <2>2. /\ \A r \in rows : r.id \in Nat
        /\ \A e \in outbox : e.id \in Nat
    BY DEF Inv, TypeOK, Events
  <2>3. /\ \A r \in rows : r.id # nextId + 1 /\ r.id <= nextId'
        /\ \A e \in outbox : e.id # nextId + 1 /\ e.id <= nextId'
        /\ \A v \in Writers : IsOpen(v) => txn[v].id \in 1..nextId' /\ txn[v].id # nextId + 1
    BY <1>2, <2>1, <2>2 DEF Inv, Lives
  <2>4. \A v \in Writers : IsOpen(v)' => txn'[v].id \in 1..nextId'
    BY <1>1, <1>2, <1>3, <1>4, <2>1, <2>3
  <2>5. \A v \in Writers : IsOpen(v)' /\ txn'[v].op = "GrantAdded" =>
           /\ \A r \in rows : r.id # txn'[v].id
           /\ \A e \in outbox : e.id # txn'[v].id
           /\ \A u \in Writers : IsOpen(u)' /\ txn'[u].id = txn'[v].id => u = v
    BY <1>1, <1>3, <1>4, <2>3 DEF Inv, Lives
  <2> QED
    BY <1>5, <2>3, <2>4, <2>5 DEF Inv, Lives
<1>9. ReplayIsTable' /\ OneLifePerRow'
  BY <1>5 DEF Inv, ReplayIsTable, OneLifePerRow, LastEvent
<1> QED
  BY <1>6, <1>7, <1>8, <1>9

LEMMA DeleteStep ==
  ASSUME Inv, NEW w \in Writers, NEW r \in rows, DeleteGrant(w, r)
  PROVE  Locking' /\ Numbering' /\ Lives' /\ ReplayIsTable' /\ OneLifePerRow'
<1> DEFINE t == Begun("GrantRevoked", r, EdgeOf(r.key) \in edges)
<1>0. r \in [id : 1..MaxId, key : Keys]
  BY DEF Inv, TypeOK
<1>1. /\ t.stage = "written" /\ t.op = "GrantRevoked"
      /\ t.id = r.id /\ t.key = r.key /\ RowOf(t) = r
  BY <1>0 DEF Begun, RowOf
<1>2. txn' = [txn EXCEPT ![w] = t] /\ ~IsOpen(w)
  BY IdleType DEF DeleteGrant, IsOpen
<1> HIDE DEF t
<1>3. txn'[w] = t /\ \A v \in Writers : v # w => txn'[v] = txn[v]
  BY <1>2, OthersKeep DEF Inv
<1>4. \A v \in Writers : IsOpen(v)' /\ v # w => IsOpen(v) /\ txn'[v] = txn[v]
  BY <1>3 DEF IsOpen
<1>5. UNCHANGED <<rows, outbox, seqLast, nextId>>
  BY DEF DeleteGrant
<1>6. Locking'
  <2>1. \A v \in Writers : IsOpen(v) => txn[v].key # r.key
    BY DEF DeleteGrant, IsLocked
  <2> QED
    BY <1>1, <1>3, <1>4, <1>5, <2>1 DEF Inv, Locking, RowOf
<1>7. Numbering'
  BY <1>1, <1>3, <1>5 DEF Inv, Numbering
<1>8. Lives'
  <2>1. r.id \in 1..nextId
    BY <1>0, BoundsAssumption DEF Inv, Lives, TypeOK
  <2>2. \A v \in Writers : IsOpen(v)' => txn'[v].id \in 1..nextId
    BY <1>1, <1>3, <1>4, <2>1 DEF Inv, Lives
  <2>3. \A v \in Writers : IsOpen(v)' /\ txn'[v].op = "GrantAdded" =>
           /\ v # w
           /\ \A s \in rows : s.id # txn'[v].id
           /\ \A e \in outbox : e.id # txn'[v].id
           /\ \A u \in Writers : IsOpen(u)' /\ txn'[u].id = txn'[v].id => u = v
    BY <1>1, <1>3, <1>4 DEF Inv, Lives
  <2> QED
    BY <1>5, <2>2, <2>3 DEF Inv, Lives
<1>9. ReplayIsTable' /\ OneLifePerRow'
  BY <1>5 DEF Inv, ReplayIsTable, OneLifePerRow, LastEvent
<1> QED
  BY <1>6, <1>7, <1>8, <1>9

(* The number is drawn while the lock is held: it is above every number    *)
(* that exists.                                                            *)
LEMMA EnqueueStep ==
  ASSUME Inv, NEW w \in Writers, Enqueue(w)
  PROVE  Locking' /\ Numbering' /\ Lives' /\ ReplayIsTable' /\ OneLifePerRow'
<1> DEFINE t == [txn[w] EXCEPT !.stage = "enqueued", !.seq = seqLast + 1]
<1>1. /\ t.stage = "enqueued" /\ t.seq = seqLast + 1
      /\ t.op = txn[w].op /\ t.id = txn[w].id /\ t.key = txn[w].key
      /\ RowOf(t) = RowOf(txn[w])
  BY DEF Inv, TypeOK, Txn, RowOf
<1>2. txn' = [txn EXCEPT ![w] = t] /\ IsOpen(w) /\ txn[w].stage = "written"
  BY DEF Enqueue, IsOpen, Inv, TypeOK
<1> HIDE DEF t
<1>3. txn'[w] = t /\ \A v \in Writers : v # w => txn'[v] = txn[v]
  BY <1>2, OthersKeep DEF Inv
<1>4. \A v \in Writers : /\ IsOpen(v)' => IsOpen(v)
                          /\ txn'[v].op = txn[v].op /\ txn'[v].id = txn[v].id
                          /\ txn'[v].key = txn[v].key /\ RowOf(txn'[v]) = RowOf(txn[v])
  BY <1>1, <1>2, <1>3 DEF IsOpen
<1>5. UNCHANGED <<rows, outbox, nextId>> /\ seqLast' = seqLast + 1
  BY DEF Enqueue
<1>6. Locking'
  BY <1>4, <1>5, ZenonT(40) DEF Inv, Locking, RowOf
<1>7. Numbering'
  <2>1. seqLast \in Nat /\ \A e \in outbox : e.seq \in Nat
    BY BoundsAssumption DEF Inv, TypeOK, Events
  <2>2. \A e \in outbox : e.seq <= seqLast /\ e.seq < seqLast + 1
    BY <2>1 DEF Inv, Numbering
  <2>3. \A v \in Writers : v # w /\ txn'[v].stage = "enqueued" =>
           /\ txn[v].stage = "enqueued" /\ txn'[v] = txn[v]
           /\ txn[v].seq \in 1..seqLast /\ txn[v].seq # seqLast + 1
           /\ txn[v].seq \in 1..(seqLast + 1)
    BY <1>3, <2>1 DEF Inv, Numbering
  <2>4. \A e \in outbox : e.seq <= seqLast'
    BY <1>5, <2>1, <2>2
  <2>5. \A v \in Writers : txn'[v].stage = "enqueued" =>
          /\ txn'[v].seq \in 1..seqLast'
          /\ \A e \in outbox :
               e.seq # txn'[v].seq /\ (e.key = txn'[v].key => e.seq < txn'[v].seq)
    <3> TAKE v \in Writers
    <3>1. CASE v = w
      BY <1>1, <1>3, <1>5, <2>1, <2>2, <3>1
    <3>2. CASE v # w
      BY <1>5, <2>3, <3>2 DEF Inv, Numbering
    <3> QED
      BY <3>1, <3>2
  <2>6. \A u, v \in Writers :
          txn'[u].stage = "enqueued" /\ txn'[v].stage = "enqueued" /\ txn'[u].seq = txn'[v].seq
            => u = v
    BY <1>1, <1>3, <2>3 DEF Inv, Numbering
  <2> QED
    BY <1>5, <2>4, <2>5, <2>6 DEF Inv, Numbering
<1>8. Lives'
  BY <1>4, <1>5 DEF Inv, Lives
<1>9. ReplayIsTable' /\ OneLifePerRow'
  BY <1>5 DEF Inv, ReplayIsTable, OneLifePerRow, LastEvent
<1> QED
  BY <1>6, <1>7, <1>8, <1>9

(* COMMIT publishes the row and its event together. The event's number is  *)
(* above every committed number of its grant, so it becomes the last event *)
(* of that grant and of no other.                                          *)
LEMMA CommitStep ==
  ASSUME Inv, TypeOK', NEW w \in Writers, Commit(w)
  PROVE  Locking' /\ Numbering' /\ Lives' /\ ReplayIsTable' /\ OneLifePerRow'
<1> DEFINE t == txn[w]
           e0 == EventOf(t)
           r0 == RowOf(t)
<1>1. /\ t \in Txn /\ t.stage = "enqueued" /\ IsOpen(w)
      /\ t.seq \in 1..MaxSeq /\ t.id \in 1..MaxId /\ t.key \in Keys
  BY BoundsAssumption DEF Commit, IsOpen, Inv, TypeOK, Txn
<1>2. /\ e0.seq = t.seq /\ e0.type = t.op /\ e0.key = t.key /\ e0.id = t.id
      /\ r0.id = t.id /\ r0.key = t.key
  BY DEF EventOf, RowOf
<1>3. /\ outbox' = outbox \cup {e0}
      /\ \/ t.op = "GrantAdded" /\ rows' = rows \cup {r0}
         \/ t.op = "GrantRevoked" /\ rows' = rows \ {r0}
      /\ UNCHANGED <<seqLast, nextId>>
  BY DEF Commit
<1>4. /\ ~(txn'[w].stage \in {"written", "enqueued"})
      /\ \A v \in Writers : v # w => txn'[v] = txn[v]
  BY OthersKeep, IdleType DEF Commit, Inv
<1>5. \A v \in Writers : /\ IsOpen(v)' => v # w /\ IsOpen(v) /\ txn'[v] = txn[v]
                         /\ txn'[v].stage = "enqueued" => v # w /\ txn'[v] = txn[v]
  BY <1>4 DEF IsOpen
<1>6. \A v \in Writers : IsOpen(v) /\ v # w => txn[v].key # t.key
  BY <1>1 DEF Inv, Locking
<1>7. /\ \A e \in outbox : e.seq # t.seq /\ (e.key = t.key => e.seq < t.seq)
      /\ t.seq <= seqLast
  BY <1>1, BoundsAssumption DEF Inv, Numbering, TypeOK
<1>t. /\ \A e \in outbox : e \in Events /\ e.seq \in Nat /\ e.key \in Keys
      /\ \A r \in rows : r \in [id : 1..MaxId, key : Keys]
      /\ t.seq \in Nat
  BY <1>1, BoundsAssumption DEF Inv, TypeOK, Events
<1>r. \A r \in rows : r.id = t.id /\ r.key = t.key => r = r0
  BY <1>t DEF RowOf
<1> HIDE DEF t, e0, r0
<1>8. Locking'
  <2>1. \A v \in Writers : IsOpen(v)' => RowOf(txn[v]).key # t.key /\ RowOf(txn[v]) # r0
    BY <1>2, <1>5, <1>6 DEF RowOf, IsOpen
  <2>2. \A r \in rows' : r \in rows \/ r.key = t.key
    BY <1>2, <1>3
  <2>3. \A u, v \in Writers : IsOpen(u)' /\ IsOpen(v)' /\ txn'[u].key = txn'[v].key => u = v
    BY <1>5 DEF Inv, Locking, IsOpen
  <2>4. \A v \in Writers : IsOpen(v)' /\ txn'[v].op = "GrantAdded" =>
          \A r \in rows' : r.key # txn'[v].key
    BY <1>5, <1>6, <2>2 DEF Inv, Locking, IsOpen
  <2>5. \A v \in Writers : IsOpen(v)' /\ txn'[v].op = "GrantRevoked" => RowOf(txn'[v]) \in rows'
    BY <1>3, <1>5, <2>1 DEF Inv, Locking, IsOpen
  <2> QED
    BY <2>3, <2>4, <2>5 DEF Locking, IsOpen, RowOf
<1>9. Numbering'
  <2>1. \A e \in outbox' : e.seq <= seqLast'
    BY <1>2, <1>3, <1>7 DEF Inv, Numbering
  <2>2. \A e, f \in outbox' : e.seq = f.seq => e = f
    BY <1>2, <1>3, <1>7 DEF Inv, Numbering
  <2>3. \A v \in Writers : txn'[v].stage = "enqueued" =>
          IsOpen(v) /\ v # w /\ txn[v].seq # t.seq /\ txn[v].key # t.key
    BY <1>1, <1>5, <1>6 DEF Inv, Numbering, IsOpen, t
  <2> QED
    BY <1>2, <1>3, <1>5, <2>1, <2>2, <2>3 DEF Inv, Numbering
<1>10. Lives'
  <2>0. t.id <= nextId /\ t.id \in 1..nextId
    BY <1>1, BoundsAssumption DEF Inv, Lives, TypeOK, t
  <2>1. \A r \in rows' : r.id <= nextId'
    BY <1>2, <1>3, <2>0 DEF Inv, Lives
  <2>2. \A e \in outbox' : e.id <= nextId'
    BY <1>2, <1>3, <2>0 DEF Inv, Lives
  <2>3. \A v \in Writers : IsOpen(v)' => txn'[v].id \in 1..nextId'
    BY <1>3, <1>5 DEF Inv, Lives, IsOpen
  <2>4. \A r \in rows' : \A e \in outbox' : e.id = r.id => e.key = r.key /\ e.type = "GrantAdded"
    <3>1. CASE t.op = "GrantAdded"
      <4>1. /\ \A r \in rows : r.id # t.id
            /\ \A e \in outbox : e.id # t.id
        BY <1>1, <3>1 DEF Inv, Lives, t
      <4> QED
        BY <1>2, <1>3, <3>1, <4>1 DEF Inv, Lives
    <3>2. CASE t.op = "GrantRevoked"
      <4>1. r0 \in rows
        BY <1>1, <3>2 DEF Inv, Locking, r0, t
      <4>2. \A r \in rows' : r \in rows /\ r.id # t.id
        BY <1>2, <1>3, <3>2, <4>1 DEF Inv, Lives
      <4> QED
        BY <1>2, <1>3, <4>2 DEF Inv, Lives
    <3> QED
      BY <1>3, <3>1, <3>2
  <2>5. \A r, s \in rows' : r.id = s.id \/ r.key = s.key => r = s
    <3>1. CASE t.op = "GrantAdded"
      <4>1. /\ \A r \in rows : r.id # t.id
            /\ \A r \in rows : r.key # t.key
        BY <1>1, <3>1 DEF Inv, Lives, Locking, t
      <4> QED
        BY <1>2, <1>3, <3>1, <4>1 DEF Inv, Lives
    <3>2. CASE t.op = "GrantRevoked"
      BY <1>3, <3>2 DEF Inv, Lives
    <3> QED
      BY <1>3, <3>1, <3>2
  <2>6. \A v \in Writers : IsOpen(v)' /\ txn'[v].op = "GrantAdded" =>
          /\ \A r \in rows' : r.id # txn'[v].id
          /\ \A e \in outbox' : e.id # txn'[v].id
          /\ \A u \in Writers : IsOpen(u)' /\ txn'[u].id = txn'[v].id => u = v
    <3> SUFFICES ASSUME NEW v \in Writers, IsOpen(v)', txn'[v].op = "GrantAdded"
                 PROVE  /\ \A r \in rows' : r.id # txn'[v].id
                        /\ \A e \in outbox' : e.id # txn'[v].id
                        /\ \A u \in Writers : IsOpen(u)' /\ txn'[u].id = txn'[v].id => u = v
      OBVIOUS
    <3>1. v # w /\ IsOpen(v) /\ txn'[v] = txn[v] /\ txn[v].op = "GrantAdded"
      BY <1>5
    <3>2. txn[v].id # t.id
      BY <1>1, <3>1 DEF Inv, Lives, t
    <3> QED
      BY <1>2, <1>3, <1>5, <3>1, <3>2 DEF Inv, Lives, IsOpen
  <2> QED
    BY <2>1, <2>2, <2>3, <2>4, <2>5, <2>6 DEF Lives, IsOpen
<1>11. ReplayIsTable'
  <2> SUFFICES ASSUME NEW k \in Keys
               PROVE  (\E r \in rows' : r.key = k)
                        <=> (\E e \in outbox' : LastEvent(k, e)' /\ e.type = "GrantAdded")
    BY DEF ReplayIsTable
  <2>1. CASE k # t.key
    <3>1. \A e \in outbox' : LastEvent(k, e)' <=> e \in outbox /\ LastEvent(k, e)
      BY <1>2, <1>3, <2>1 DEF LastEvent
    <3>2. (\E r \in rows' : r.key = k) <=> (\E r \in rows : r.key = k)
      BY <1>2, <1>3, <2>1
    <3> QED
      BY <1>3, <3>1, <3>2 DEF Inv, ReplayIsTable
  <2>2. CASE k = t.key
    <3>1. \A e \in outbox' : LastEvent(k, e)' <=> e = e0
      BY <1>2, <1>3, <1>7, <1>t, <2>2 DEF LastEvent
    <3>2. CASE t.op = "GrantAdded"
      BY <1>2, <1>3, <2>2, <3>1, <3>2
    <3>3. CASE t.op = "GrantRevoked"
      <4>1. r0 \in rows
        BY <1>1, <3>3 DEF Inv, Locking, r0, t
      <4>2. \A r \in rows' : r.key # k
        BY <1>2, <1>3, <2>2, <3>3, <4>1 DEF Inv, Lives
      <4> QED
        BY <1>2, <3>1, <3>3, <4>2
    <3> QED
      BY <1>3, <3>2, <3>3
  <2> QED
    BY <2>1, <2>2
<1>12. OneLifePerRow'
  <2>1. CASE t.op = "GrantAdded"
    <3>1. \A e \in outbox : e.id # t.id
      BY <1>1, <2>1 DEF Inv, Lives, t
    <3> QED
      BY <1>2, <1>3, <2>1, <3>1 DEF Inv, OneLifePerRow
  <2>2. CASE t.op = "GrantRevoked"
    <3>1. r0 \in rows
      BY <1>1, <2>2 DEF Inv, Locking, r0, t
    <3>2. \A e \in outbox : e.id = t.id => e.key = t.key /\ e.type = "GrantAdded" /\ e.seq < t.seq
      BY <1>2, <1>7, <3>1 DEF Inv, Lives
    <3> QED
      BY <1>2, <1>3, <2>2, <3>2 DEF Inv, OneLifePerRow
  <2> QED
    BY <1>3, <2>1, <2>2
<1> QED
  BY <1>8, <1>9, <1>10, <1>11, <1>12

-----------------------------------------------------------------------------
LEMMA InitInv == Init => Inv
<1> SUFFICES ASSUME Init PROVE Inv
  OBVIOUS
<1>1. \A w \in Writers : txn[w] = Idle /\ ~IsOpen(w) /\ txn[w].stage # "enqueued"
  BY IdleType DEF Init, IsOpen
<1>2. TypeOK
  BY <1>1, IdleType, BoundsAssumption DEF Init, TypeOK
<1> QED
  BY <1>1, <1>2 DEF Init, Inv, Locking, Numbering, Lives, ReplayIsTable, OneLifePerRow

LEMMA NextInv == Inv /\ [Next]_vars => Inv'
<1> SUFFICES ASSUME Inv, [Next]_vars PROVE Inv'
  OBVIOUS
<1>1. TypeOK'
  BY TypeStep DEF Inv
<1> SUFFICES Locking' /\ Numbering' /\ Lives' /\ ReplayIsTable' /\ OneLifePerRow'
  BY <1>1 DEF Inv
<1> DEFINE Lookup(k) == [Idle EXCEPT !.stage = "lookup", !.key = k]
<1>2. \A k \in Keys : Lookup(k).stage = "lookup"
  BY DEF Idle
<1> HIDE DEF Lookup
<1>3. ASSUME NEW w \in Writers, NEW k \in Keys, GrantExists(w, k)
      PROVE  Locking' /\ Numbering' /\ Lives' /\ ReplayIsTable' /\ OneLifePerRow'
  <2>1. txn' = [txn EXCEPT ![w] = Lookup(k)] /\ UNCHANGED <<rows, outbox, seqLast, nextId>>
    BY <1>3 DEF GrantExists, Lookup
  <2> QED
    BY <1>2, <2>1, ClosingStep
<1>4. ASSUME NEW w \in Writers, FindExisting(w) \/ Rollback(w)
      PROVE  Locking' /\ Numbering' /\ Lives' /\ ReplayIsTable' /\ OneLifePerRow'
  BY <1>4, IdleType, ClosingStep DEF FindExisting, Rollback
<1>5. CASE Rebuild \/ UNCHANGED vars
  <2>1. UNCHANGED <<rows, outbox, seqLast, nextId, txn>>
    BY <1>5 DEF Rebuild, vars
  <2> QED
    BY <2>1 DEF Inv, Locking, Numbering, Lives, ReplayIsTable, OneLifePerRow, LastEvent, IsOpen
<1> QED
  BY <1>1, <1>3, <1>4, <1>5, InsertStep, DeleteStep, EnqueueStep, CommitStep DEF Next

(* The type invariant, and the invariant it takes to prove the others. *)
THEOREM Invariance == Spec => []Inv
BY InitInv, NextInv, PTL DEF Spec

THEOREM TypeCorrectness == Spec => []TypeOK
<1>1. Inv => TypeOK
  BY DEF Inv
<1> QED
  BY <1>1, Invariance, PTL

(* The outbox, replayed by number, is the grants table, for any overlap of *)
(* any number of transactions. It is what entitles a consumer to rebuild   *)
(* the grants from the event stream.                                       *)
THEOREM ReplayTheorem == Spec => []ReplayIsTable
<1>1. Inv => ReplayIsTable
  BY DEF Inv
<1> QED
  BY <1>1, Invariance, PTL

(* Concurrent and retried grants and revokes add and revoke each row once. *)
THEOREM OneLifeTheorem == Spec => []OneLifePerRow
<1>1. Inv => OneLifePerRow
  BY DEF Inv
<1> QED
  BY <1>1, Invariance, PTL

-----------------------------------------------------------------------------
(* The statement-by-statement transactions implement the ledger, in which  *)
(* a grant and its event are one step: COMMIT is that step and every other *)
(* action is a stutter.                                                    *)
LEMMA LedgerStep == Inv /\ Inv' /\ [Next]_vars => [Ledger!Next]_(Ledger!vars)
<1> SUFFICES ASSUME Inv, Inv', [Next]_vars
             PROVE  Ledger!Next \/ UNCHANGED <<rows, outbox>>
  BY DEF Ledger!vars
<1>1. ASSUME NEW w \in Writers, Commit(w) PROVE Ledger!Next
  <2> DEFINE t == txn[w]
  <2>1. /\ t.seq \in 1..MaxSeq /\ t.id \in 1..MaxId /\ t.key \in Keys
        /\ t.stage = "enqueued" /\ IsOpen(w) /\ t.op \in {"GrantAdded", "GrantRevoked"}
    BY <1>1, BoundsAssumption DEF Commit, IsOpen, Inv, TypeOK, Txn
  <2>2. Ledger!IsNextFor(t.key, t.seq)
    BY <2>1 DEF Ledger!IsNextFor, Inv, Numbering
  <2>3. CASE t.op = "GrantAdded"
    <3>1. \A r \in rows : r.key # t.key /\ r.id # t.id
      BY <2>1, <2>3 DEF Inv, Locking, Lives
    <3>2. /\ rows' = rows \cup {[id |-> t.id, key |-> t.key]}
          /\ outbox' = outbox \cup {Ledger!Event(t.seq, "GrantAdded", [id |-> t.id, key |-> t.key])}
      BY <1>1, <2>3 DEF Commit, RowOf, EventOf, Ledger!Event
    <3>3. Ledger!Add(t.key, t.id, t.seq)
      BY <2>2, <3>1, <3>2 DEF Ledger!Add
    <3> QED
      BY <2>1, <3>3 DEF Ledger!Next
  <2>4. CASE t.op = "GrantRevoked"
    <3>1. RowOf(t) \in rows
      BY <2>1, <2>4 DEF Inv, Locking
    <3>2. RowOf(t).key = t.key /\ RowOf(t).id = t.id
      BY DEF RowOf
    <3>3. /\ rows' = rows \ {RowOf(t)}
          /\ outbox' = outbox \cup {Ledger!Event(t.seq, "GrantRevoked", RowOf(t))}
      BY <1>1, <2>4, <3>2 DEF Commit, EventOf, Ledger!Event
    <3>4. Ledger!Remove(RowOf(t), t.seq)
      BY <2>2, <3>2, <3>3 DEF Ledger!Remove
    <3> QED
      BY <2>1, <3>1, <3>4 DEF Ledger!Next
  <2> QED
    BY <2>1, <2>3, <2>4
<1>2. CASE Next /\ ~(\E w \in Writers : Commit(w))
  BY <1>2 DEF Next, InsertGrant, GrantExists, DeleteGrant, FindExisting, Enqueue, Rollback, Rebuild
<1>3. CASE UNCHANGED vars
  BY <1>3 DEF vars
<1> QED
  BY <1>1, <1>2, <1>3

THEOREM Refinement == Spec => ImplementsLedger
<1>1. Init => Ledger!Init
  BY DEF Init, Ledger!Init
<1> QED
  BY <1>1, LedgerStep, Invariance, PTL DEF Spec, ImplementsLedger, Ledger!Spec

-----------------------------------------------------------------------------
(* An open transaction owns the edge of its grant, when nobody shares it.  *)
OwnEdge == GraphIsTable /\ \A w \in Writers : IsOpen(w) => txn[w].edge

LEMMA EdgeOfRow ==
  ASSUME EdgesDistinct, Inv, GraphIsTable, NEW k \in Keys
  PROVE  EdgeOf(k) \in edges <=> \E r \in rows : r.key = k
<1>1. \A r \in rows : r.key \in Keys
  BY DEF Inv, TypeOK
<1> QED
  BY <1>1 DEF EdgesDistinct, GraphIsTable

LEMMA OwnEdgeStep == EdgesDistinct /\ Inv /\ OwnEdge /\ [Next]_vars => OwnEdge'
<1> SUFFICES ASSUME EdgesDistinct, Inv, OwnEdge, [Next]_vars PROVE OwnEdge'
  OBVIOUS
<1>0. GraphIsTable /\ TypeOK
  BY DEF OwnEdge, Inv
<1>1. ASSUME NEW w \in Writers, NEW t, txn' = [txn EXCEPT ![w] = t],
             t.stage \in {"written", "enqueued"} => t.edge, UNCHANGED <<rows, edges>>
      PROVE  OwnEdge'
  BY <1>0, <1>1, OthersKeep DEF OwnEdge, GraphIsTable, IsOpen
<1>2. ASSUME NEW w \in Writers, NEW k \in Keys, InsertGrant(w, k) PROVE OwnEdge'
  <2> DEFINE t == Begun("GrantAdded", [id |-> nextId + 1, key |-> k], EdgeOf(k) \notin edges)
  <2>1. t.edge
    BY <1>0, <1>2, EdgeOfRow DEF InsertGrant, Begun
  <2>2. txn' = [txn EXCEPT ![w] = t] /\ UNCHANGED <<rows, edges>>
    BY <1>2 DEF InsertGrant
  <2> HIDE DEF t
  <2> QED
    BY <1>1, <2>1, <2>2
<1>3. ASSUME NEW w \in Writers, NEW r \in rows, DeleteGrant(w, r) PROVE OwnEdge'
  <2> DEFINE t == Begun("GrantRevoked", r, EdgeOf(r.key) \in edges)
  <2>1. t.edge
    BY <1>0 DEF GraphIsTable, Begun
  <2>2. txn' = [txn EXCEPT ![w] = t] /\ UNCHANGED <<rows, edges>>
    BY <1>3 DEF DeleteGrant
  <2> HIDE DEF t
  <2> QED
    BY <1>1, <2>1, <2>2
<1>4. ASSUME NEW w \in Writers, NEW k \in Keys, GrantExists(w, k) PROVE OwnEdge'
  <2> DEFINE t == [Idle EXCEPT !.stage = "lookup", !.key = k]
  <2>1. t.stage = "lookup"
    BY DEF Idle
  <2>2. txn' = [txn EXCEPT ![w] = t] /\ UNCHANGED <<rows, edges>>
    BY <1>4 DEF GrantExists
  <2> HIDE DEF t
  <2> QED
    BY <1>1, <2>1, <2>2
<1>5. ASSUME NEW w \in Writers, FindExisting(w) \/ Rollback(w) PROVE OwnEdge'
  BY <1>1, <1>5, IdleType DEF FindExisting, Rollback
<1>6. ASSUME NEW w \in Writers, Enqueue(w) PROVE OwnEdge'
  <2> DEFINE t == [txn[w] EXCEPT !.stage = "enqueued", !.seq = seqLast + 1]
  <2>1. t.edge
    BY <1>6 DEF Enqueue, OwnEdge, IsOpen, Inv, TypeOK, Txn
  <2>2. txn' = [txn EXCEPT ![w] = t] /\ UNCHANGED <<rows, edges>>
    BY <1>0, <1>6 DEF Enqueue, TypeOK
  <2> HIDE DEF t
  <2> QED
    BY <1>1, <2>1, <2>2
<1>7. ASSUME NEW w \in Writers, Commit(w) PROVE OwnEdge'
  <2> DEFINE t == txn[w]
  <2>1. t.edge /\ IsOpen(w) /\ t.key \in Keys /\ RowOf(t).key = t.key
    BY <1>0, <1>7 DEF Commit, OwnEdge, IsOpen, TypeOK, Txn, RowOf
  <2>2. \A v \in Writers : IsOpen(v)' => txn'[v].edge
    BY <1>0, <1>7, OthersKeep, IdleType DEF Commit, IsOpen, OwnEdge
  <2>3. \A r \in rows : r.key \in Keys
    BY <1>0 DEF TypeOK
  <2>4. CASE t.op = "GrantAdded"
    <3>1. rows' = rows \cup {RowOf(t)} /\ edges' = edges \cup {EdgeOf(t.key)}
      BY <1>7, <2>1, <2>4 DEF Commit
    <3> QED
      BY <1>0, <2>1, <2>2, <3>1 DEF OwnEdge, GraphIsTable
  <2>5. CASE t.op = "GrantRevoked"
    <3>1. rows' = rows \ {RowOf(t)} /\ edges' = edges \ {EdgeOf(t.key)}
      BY <1>7, <2>1, <2>5 DEF Commit
    <3>2. RowOf(t) \in rows
      BY <2>1, <2>5 DEF Inv, Locking
    <3>3. \A r \in rows' : EdgeOf(r.key) # EdgeOf(t.key)
      BY <2>1, <2>3, <3>1, <3>2 DEF EdgesDistinct, Inv, Lives
    <3>4. GraphIsTable'
      BY <1>0, <2>1, <3>1, <3>2, <3>3 DEF GraphIsTable
    <3> QED
      BY <2>2, <3>4 DEF OwnEdge
  <2> QED
    BY <1>7, <2>4, <2>5 DEF Commit
<1>8. CASE Rebuild \/ UNCHANGED vars
  BY <1>8 DEF Rebuild, vars, OwnEdge, GraphIsTable, IsOpen
<1> QED
  BY <1>2, <1>3, <1>4, <1>5, <1>6, <1>7, <1>8 DEF Next

(* The graph in Postgres is the table, at every commit, provided no user   *)
(* and team (or role and resource) give two grants the same edge.          *)
THEOREM GraphTheorem == EdgesDistinct /\ Spec => []GraphIsTable
<1>1. Init => OwnEdge
  BY IdleType DEF Init, OwnEdge, GraphIsTable, IsOpen
<1>2. OwnEdge => GraphIsTable
  BY DEF OwnEdge
<1> SUFFICES ASSUME EdgesDistinct PROVE Spec => []GraphIsTable
  OBVIOUS
<1>3. Inv /\ OwnEdge /\ [Next]_vars => OwnEdge'
  BY OwnEdgeStep
<1> QED
  BY <1>1, <1>2, <1>3, Invariance, PTL DEF Spec

-----------------------------------------------------------------------------
(* A row goes only by a revoke that commits, which leaves its event. *)
LEMMA NoOpStep ==
  ASSUME TypeOK, NoOpIsExplained, [Next]_vars
  PROVE  NoOpIsExplained'
<1> DEFINE Explained(k) == \/ \E r \in rows : r.key = k
                           \/ \E e \in outbox : e.key = k /\ e.type = "GrantRevoked"
<1>1. ASSUME NEW k, Explained(k) PROVE Explained(k)'
  <2>1. CASE UNCHANGED <<rows, outbox>>
    BY <1>1, <2>1
  <2>2. ASSUME NEW w \in Writers, Commit(w) PROVE Explained(k)'
    <3>1. outbox' = outbox \cup {EventOf(txn[w])}
      BY <2>2 DEF Commit
    <3>2. CASE rows \subseteq rows'
      BY <1>1, <3>1, <3>2
    <3>3. CASE txn[w].op = "GrantRevoked" /\ rows' = rows \ {RowOf(txn[w])}
      <4>1. EventOf(txn[w]).type = "GrantRevoked" /\ EventOf(txn[w]).key = RowOf(txn[w]).key
        BY <3>3 DEF EventOf, RowOf
      <4> HIDE DEF Explained
      <4>2. CASE k = RowOf(txn[w]).key
        BY <3>1, <4>1, <4>2 DEF Explained
      <4>3. CASE k # RowOf(txn[w]).key
        BY <1>1, <3>1, <3>3, <4>3 DEF Explained
      <4> QED
        BY <4>2, <4>3
    <3> QED
      BY <2>2, <3>2, <3>3 DEF Commit
  <2>3. \/ UNCHANGED <<rows, outbox>>
        \/ \E w \in Writers : Commit(w)
    BY DEF Next, vars, InsertGrant, GrantExists, DeleteGrant, FindExisting, Enqueue, Rollback, Rebuild
  <2> QED
    BY <2>1, <2>2, <2>3
<1> HIDE DEF Explained
<1>2. ASSUME NEW w \in Writers, NEW t, txn' = [txn EXCEPT ![w] = t],
             t.stage = "lookup" => Explained(t.key)
      PROVE  NoOpIsExplained'
  <2> SUFFICES ASSUME NEW v \in Writers, NEW k, txn'[v].stage = "lookup", txn'[v].key = k
               PROVE  Explained(k)'
    BY DEF NoOpIsExplained, Explained
  <2>1. CASE v = w
    BY <1>1, <1>2, <2>1, OthersKeep
  <2>2. CASE v # w
    <3>1. txn'[v] = txn[v]
      BY <1>2, <2>2, OthersKeep
    <3>2. Explained(txn[v].key)
      BY <3>1 DEF NoOpIsExplained, Explained
    <3> QED
      BY <1>1, <3>1, <3>2
  <2> QED
    BY <2>1, <2>2
<1>3. ASSUME NEW w \in Writers, NEW k \in Keys, InsertGrant(w, k) \/ GrantExists(w, k)
      PROVE  NoOpIsExplained'
  <2>1. CASE InsertGrant(w, k)
    <3> DEFINE t == Begun("GrantAdded", [id |-> nextId + 1, key |-> k], EdgeOf(k) \notin edges)
    <3>1. txn' = [txn EXCEPT ![w] = t] /\ t.stage # "lookup"
      BY <2>1 DEF InsertGrant, Begun
    <3> HIDE DEF t
    <3> QED
      BY <1>2, <3>1
  <2>2. CASE GrantExists(w, k)
    <3> DEFINE t == [Idle EXCEPT !.stage = "lookup", !.key = k]
    <3>1. txn' = [txn EXCEPT ![w] = t] /\ t.key = k
      BY <2>2 DEF GrantExists, Idle
    <3> HIDE DEF t
    <3>2. Explained(k)
      BY <2>2 DEF GrantExists, Explained
    <3> QED
      BY <1>2, <3>1, <3>2
  <2> QED
    BY <1>3, <2>1, <2>2
<1>4. ASSUME NEW w \in Writers, NEW r \in rows, DeleteGrant(w, r) PROVE NoOpIsExplained'
  <2> DEFINE t == Begun("GrantRevoked", r, EdgeOf(r.key) \in edges)
  <2>1. txn' = [txn EXCEPT ![w] = t] /\ t.stage # "lookup"
    BY <1>4 DEF DeleteGrant, Begun
  <2> HIDE DEF t
  <2> QED
    BY <1>2, <2>1
<1>5. ASSUME NEW w \in Writers, Enqueue(w) PROVE NoOpIsExplained'
  <2> DEFINE t == [txn[w] EXCEPT !.stage = "enqueued", !.seq = seqLast + 1]
  <2>1. txn' = [txn EXCEPT ![w] = t] /\ t.stage # "lookup"
    BY <1>5 DEF Enqueue, TypeOK, Txn
  <2> HIDE DEF t
  <2> QED
    BY <1>2, <2>1
<1>6. ASSUME NEW w \in Writers, FindExisting(w) \/ Commit(w) \/ Rollback(w) PROVE NoOpIsExplained'
  <2>1. txn' = [txn EXCEPT ![w] = Idle] /\ Idle.stage # "lookup"
    BY <1>6 DEF FindExisting, Commit, Rollback, Idle
  <2> QED
    BY <1>2, <2>1
<1>7. CASE Rebuild \/ UNCHANGED vars
  <2>1. UNCHANGED <<rows, outbox, txn>>
    BY <1>7 DEF Rebuild, vars
  <2> QED
    BY <2>1 DEF NoOpIsExplained
<1> QED
  BY <1>3, <1>4, <1>5, <1>6, <1>7 DEF Next

(* A grant that was a no-op finds the row it replies with, or the log says *)
(* that it was revoked meanwhile: ON CONFLICT never yields to a write that *)
(* is rolled back.                                                         *)
THEOREM NoOpTheorem == Spec => []NoOpIsExplained
<1>1. Init => NoOpIsExplained
  BY DEF Init, NoOpIsExplained, Idle
<1> QED
  BY <1>1, NoOpStep, TypeCorrectness, PTL DEF Spec
=============================================================================
