------------------------- MODULE ProjectionsProofs -------------------------
(***************************************************************************)
(* Proofs about Projections, for any number of grants, partitions, events, *)
(* failures and expired marks.                                             *)
(*                                                                         *)
(* That the graph is only behind is not inductive: it has to be known that *)
(* a grant's events first reach the topic in the order of their numbers    *)
(* and that whatever is sent again is followed again by what came after it *)
(* (Order), that what the projector has passed is or was marked (Passed),  *)
(* and that the event in hand is not the only one still to come (Graph).   *)
(* The order needs a relay that has the unsent rows to itself.             *)
(***************************************************************************)
EXTENDS Projections, FiniteSetTheorems, SequenceTheorems, TLAPS

(* One relay, as the worker is deployed (see the run two_relays). *)
OneRelay == \A r, s \in Relays : r = s

Events == [seq : Seqs, type : {"GrantAdded", "GrantRevoked"}, key : Keys, id : Ids]

(* e is an earlier event of the grant that f is about. *)
Before(e, f) == e.key = f.key /\ e.seq < f.seq

(* The table is the replay of the log. *)
Ledger ==
  /\ rows \subseteq [id : Ids, key : Keys]
  /\ outbox \subseteq Events /\ IsFiniteSet(outbox)
  /\ \A e, f \in outbox : e.seq = f.seq => e = f
  /\ \A r, s \in rows : r.key = s.key => r = s
  /\ \A e \in outbox : (\A f \in outbox : ~Before(e, f)) =>
       (e.key \in Table <=> e.type = "GrantAdded")

Types ==
  /\ published \subseteq Numbers /\ expired \subseteq Numbers
  /\ batch \in [Relays -> SUBSET Numbers] /\ sent \in [Relays -> SUBSET Numbers]
  /\ \A r \in Relays : sent[r] \subseteq batch[r]
  /\ topic \in [Partitions -> Seq(Events)]
  /\ \A p \in Partitions : \A i \in 1..Len(topic[p]) :
       topic[p][i] \in outbox /\ PartitionOf[topic[p][i].key] = p
  /\ pos \in [Groups -> [Partitions -> Nat]]
  /\ \A g \in Groups, p \in Partitions : pos[g][p] <= Len(topic[p])
  /\ audit \in Seq(Events) /\ \A i \in 1..Len(audit) : audit[i] \in outbox
  /\ marks \in Seq(Numbers)
  /\ doing = Nothing \/ \E p \in Partitions :
       doing = [partition |-> p, stage |-> "applied"] /\ pos["projector"][p] < Len(topic[p])
  /\ neo \subseteq Keys /\ copy \subseteq Keys /\ lapsed \subseteq Keys
  /\ Running \/ boot \in {"down", "syncing"}

(* What has been sent, marked as sent or not. *)
Out == published \cup UNION {sent[r] : r \in Relays}

OnTopic(e, from, to) ==
  \E i \in from..to : topic[PartitionOf[e.key]][i] = e

(* A batch holds whatever is unsent before any of its rows, and is sent in *)
(* the order of its numbers.                                               *)
Batches ==
  /\ \A r \in Relays : batch[r] \cap published = {}
  /\ \A e, f \in outbox : Before(e, f) /\ f.seq \in published => e.seq \in published
  /\ \A r \in Relays : \A e, f \in outbox :
       Before(e, f) /\ f.seq \in batch[r] => e.seq \in batch[r] \cup published
  /\ \A r \in Relays : \A s \in sent[r], n \in batch[r] \ sent[r] : s <= n

(* Events first reach the topic after the earlier ones of their grant, and *)
(* are followed by the later ones each time they are sent.                 *)
Order ==
  /\ \A e \in outbox : e.seq \in Out => OnTopic(e, 1, Len(topic[PartitionOf[e.key]]))
  /\ \A p \in Partitions : \A j \in 1..Len(topic[p]) : \A e \in outbox :
       Before(e, topic[p][j]) => OnTopic(e, 1, j - 1)
  /\ \A p \in Partitions : \A i \in 1..Len(topic[p]) : \A f \in outbox :
       Before(topic[p][i], f) /\ f.seq \in Out => OnTopic(f, i + 1, Len(topic[p]))

Audited(e, to) == \E j \in 1..to : audit[j] = e

(* What the audit consumer has passed is recorded, after what came before. *)
Recorded ==
  /\ \A p \in Partitions : \A i \in 1..pos["audit"][p] : Audited(topic[p][i], Len(audit))
  /\ \A i, j \in 1..Len(audit) : audit[i].seq = audit[j].seq => i = j
  /\ \A j \in 1..Len(audit) : \A e \in outbox : Before(e, audit[j]) => Audited(e, j - 1)

(* Numbers that are marked or were. *)
Ever == {n \in Numbers : \E i \in 1..Len(marks) : marks[i] = n} \cup expired

(* What the projector has passed is or was marked, and whatever is or was  *)
(* marked, so is what came before it.                                      *)
Passed ==
  /\ \A p \in Partitions : \A i \in 1..pos["projector"][p] : topic[p][i].seq \in Ever
  /\ \A e, f \in outbox : Before(e, f) /\ f.seq \in Ever => e.seq \in Ever

InHand(e) ==
  /\ doing.stage = "applied"
  /\ e = Message("projector", doing.partition)

Waiting(e) == IsPending(e) /\ ~InHand(e)

Ahead(e) ==
  LET p == PartitionOf[e.key]
  IN \E i \in 1..Len(topic[p]) : i > pos["projector"][p] /\ topic[p][i] = e

(* What Neo4j holds or, while a copy of the table is on its way, will.     *)
View == IF boot = "up" THEN neo ELSE copy

Follows(k) == (k \in View <=> k \in Table) \/ \E e \in outbox : e.key = k /\ Waiting(e)

Graph ==
  /\ boot # "down" => \A k \in Keys \ lapsed : Follows(k)
  /\ boot = "syncing" => neo = {}
  /\ boot = "wiped" => neo \subseteq copy \cup lapsed

ProjInv == Ledger /\ Types /\ Batches /\ Order /\ Recorded /\ Passed /\ Graph
-----------------------------------------------------------------------------
(* A write adds one event, above every earlier one of its grant, which     *)
(* says what the table now says of that grant; nothing else changes.       *)
LEMMA WriteEffect ==
  ASSUME Ledger, Write
  PROVE  /\ Ledger'
         /\ UNCHANGED <<relayVars, topic, pos, auditVars, graphVars, bootVars, failures, pastVars>>
         /\ \E e \in Events :
              /\ outbox' = outbox \cup {e} /\ e.seq \notin Numbers
              /\ \A f \in outbox : f.key = e.key => f.seq < e.seq
              /\ \A k \in Keys : k # e.key => (k \in Table' <=> k \in Table)
<1>0. UNCHANGED <<relayVars, topic, pos, auditVars, graphVars, bootVars, failures, pastVars>>
  BY DEF Write
<1>1. ASSUME NEW e \in Events, outbox' = outbox \cup {e}, IsNextFor(e.key, e.seq),
             rows' \subseteq [id : Ids, key : Keys],
             \A r, s \in rows' : r.key = s.key => r = s,
             e.key \in Table' <=> e.type = "GrantAdded",
             \A k \in Keys : k # e.key => (k \in Table' <=> k \in Table)
      PROVE  Ledger' /\ e.seq \notin Numbers /\ \A f \in outbox : f.key = e.key => f.seq < e.seq
  <2>1. e.seq \notin Numbers /\ \A f \in outbox : f.key = e.key => f.seq < e.seq
    BY <1>1 DEF IsNextFor, Numbers
  <2>2. outbox' \subseteq Events /\ IsFiniteSet(outbox')
    BY <1>1, FS_AddElement DEF Ledger
  <2>3. \A f, g \in outbox' : f.seq = g.seq => f = g
    BY <1>1, <2>1 DEF Ledger, Numbers
  <2>4. ASSUME NEW f \in outbox', \A g \in outbox' : ~Before(f, g)
        PROVE  f.key \in Table' <=> f.type = "GrantAdded"
    <3>1. CASE f = e
      BY <1>1, <3>1
    <3>2. CASE f # e
      <4>1. f \in outbox /\ f.key # e.key
        BY <1>1, <2>1, <2>4, <3>2 DEF Before
      <4>2. f.key \in Keys /\ \A g \in outbox : ~Before(f, g)
        BY <1>1, <2>4, <4>1 DEF Ledger, Events
      <4> QED
        BY <1>1, <4>1, <4>2 DEF Ledger
    <3> QED
      BY <3>1, <3>2
  <2> QED
    BY <1>1, <2>1, <2>2, <2>3, <2>4 DEF Ledger, Before
<1>2. ASSUME NEW k \in Keys, NEW s \in Seqs, Add(k, s, s)
      PROVE  Ledger' /\ \E e \in Events :
               /\ outbox' = outbox \cup {e} /\ e.seq \notin Numbers
               /\ \A f \in outbox : f.key = e.key => f.seq < e.seq
               /\ \A m \in Keys : m # e.key => (m \in Table' <=> m \in Table)
  <2> DEFINE r == [id |-> s, key |-> k]
             e == [seq |-> s, type |-> "GrantAdded", key |-> k, id |-> s]
  <2>1. e \in Events /\ r \in [id : Ids, key : Keys]
    BY IdsAssumption DEF Events
  <2>2. outbox' = outbox \cup {e} /\ rows' = rows \cup {r} /\ IsNextFor(k, s)
    BY <1>2 DEF Add, Event
  <2>3. e.key = k /\ e.seq = s /\ e.type = "GrantAdded" /\ r.key = k
    OBVIOUS
  <2>4. \A q \in rows : q.key # k
    BY <1>2 DEF Add
  <2> HIDE DEF r, e
  <2>5. rows' \subseteq [id : Ids, key : Keys] /\ \A q, t \in rows' : q.key = t.key => q = t
    BY <2>1, <2>2, <2>3, <2>4 DEF Ledger
  <2>6. k \in Table' /\ \A m \in Keys : m # k => (m \in Table' <=> m \in Table)
    BY <2>2, <2>3 DEF Table
  <2> QED
    BY <1>1, <2>1, <2>2, <2>3, <2>5, <2>6
<1>3. ASSUME NEW r \in rows, NEW s \in Seqs, Remove(r, s)
      PROVE  Ledger' /\ \E e \in Events :
               /\ outbox' = outbox \cup {e} /\ e.seq \notin Numbers
               /\ \A f \in outbox : f.key = e.key => f.seq < e.seq
               /\ \A m \in Keys : m # e.key => (m \in Table' <=> m \in Table)
  <2> DEFINE e == [seq |-> s, type |-> "GrantRevoked", key |-> r.key, id |-> r.id]
  <2>1. e \in Events
    BY DEF Events, Ledger
  <2>2. outbox' = outbox \cup {e} /\ rows' = rows \ {r} /\ IsNextFor(r.key, s)
    BY <1>3 DEF Remove, Event
  <2>3. e.key = r.key /\ e.seq = s /\ e.type # "GrantAdded"
    OBVIOUS
  <2> HIDE DEF e
  <2>5. rows' \subseteq [id : Ids, key : Keys] /\ \A q, t \in rows' : q.key = t.key => q = t
    BY <2>2 DEF Ledger
  <2>6. r.key \notin Table' /\ \A m \in Keys : m # r.key => (m \in Table' <=> m \in Table)
    BY <2>2 DEF Table, Ledger
  <2> QED
    BY <1>1, <2>1, <2>2, <2>3, <2>5, <2>6
<1> QED
  BY <1>0, <1>2, <1>3 DEF Write

(* What is written last comes before nothing of its grant. *)
LEMMA NothingAfter ==
  ASSUME Ledger, NEW e \in Events, \A f \in outbox : f.key = e.key => f.seq < e.seq
  PROVE  \A f \in outbox : ~Before(e, f)
<1> SUFFICES ASSUME NEW f \in outbox, Before(e, f) PROVE FALSE
  OBVIOUS
<1>1. e.seq \in Nat /\ f.seq \in Nat
  BY SeqsAssumption DEF Ledger, Events
<1>2. e.seq < f.seq /\ f.seq < e.seq
  BY DEF Before
<1> QED
  BY <1>1, <1>2

LEMMA LedgerSame == Ledger /\ UNCHANGED vars => Ledger'
BY DEF Ledger, vars, Table, Before

-----------------------------------------------------------------------------
(* Where a consumer may start again is a position it has been at. *)
LEMMA EarlierType ==
  ASSUME Ledger, NEW g \in Groups, NEW q \in Earlier(g)
  PROVE  q \in [Partitions -> Nat] /\ \A p \in Partitions : q[p] <= pos[g][p]
<1>1. Cardinality(outbox) \in Nat
  BY FS_CardinalityType DEF Ledger
<1> DEFINE n == Cardinality(outbox) * (MaxFailures + 1)
<1>2. n \in Nat
  BY <1>1, FailuresAssumption
<1> HIDE DEF n
<1>3. q \in [Partitions -> 0..n] /\ \A p \in Partitions : q[p] <= pos[g][p]
  BY DEF Earlier, n
<1> QED
  BY <1>2, <1>3

(* The topic gets one event more, at the end of its grant's partition. *)
LEMMA TopicGrows ==
  ASSUME Ledger, Types, NEW e \in outbox,
         topic' = [topic EXCEPT ![PartitionOf[e.key]] = Append(topic[PartitionOf[e.key]], e)]
  PROVE  /\ PartitionOf[e.key] \in Partitions
         /\ topic' \in [Partitions -> Seq(Events)]
         /\ \A p \in Partitions :
              /\ Len(topic[p]) \in Nat /\ Len(topic'[p]) \in Nat
              /\ Len(topic'[p]) = IF p = PartitionOf[e.key] THEN Len(topic[p]) + 1 ELSE Len(topic[p])
              /\ \A i \in 1..Len(topic[p]) : topic'[p][i] = topic[p][i]
         /\ topic'[PartitionOf[e.key]][Len(topic[PartitionOf[e.key]]) + 1] = e
<1> DEFINE q == PartitionOf[e.key]
           t == Append(topic[q], e)
<1>1. e \in Events /\ q \in Partitions
  BY PartitionAssumption DEF Ledger, Events
<1>2. topic \in [Partitions -> Seq(Events)]
  BY DEF Types
<1>3. /\ t \in Seq(Events) /\ Len(t) = Len(topic[q]) + 1
      /\ \A i \in 1..Len(topic[q]) : t[i] = topic[q][i]
      /\ t[Len(topic[q]) + 1] = e
  BY <1>1, <1>2, AppendProperties
<1>4. \A p \in Partitions : Len(topic[p]) \in Nat
  BY <1>2, LenProperties
<1>5. topic' = [topic EXCEPT ![q] = t]
  OBVIOUS
<1> HIDE DEF q, t
<1>6. topic'[q] = t /\ \A p \in Partitions : p # q => topic'[p] = topic[p]
  BY <1>1, <1>2, <1>5
<1>7. topic' \in [Partitions -> Seq(Events)]
  BY <1>1, <1>2, <1>3, <1>5
<1>8. \A p \in Partitions :
              /\ Len(topic[p]) \in Nat /\ Len(topic'[p]) \in Nat
              /\ Len(topic'[p]) = IF p = q THEN Len(topic[p]) + 1 ELSE Len(topic[p])
              /\ \A i \in 1..Len(topic[p]) : topic'[p][i] = topic[p][i]
  BY <1>3, <1>4, <1>6
<1> QED
  BY <1>1, <1>3, <1>6, <1>7, <1>8 DEF q

(* One group goes on by one event in one partition. *)
LEMMA HandledType ==
  ASSUME Types, NEW g \in Groups, NEW p \in Partitions,
         pos[g][p] < Len(topic[p]), Handled(g, p)
  PROVE  /\ pos' \in [Groups -> [Partitions -> Nat]]
         /\ pos'[g][p] = pos[g][p] + 1 /\ pos[g][p] + 1 \in 1..Len(topic[p])
         /\ \A q \in Partitions : q # p => pos'[g][q] = pos[g][q]
         /\ \A h \in Groups : h # g => pos'[h] = pos[h]
         /\ Message(g, p) \in outbox /\ Message(g, p) = topic[p][pos[g][p] + 1]
<1>1. pos \in [Groups -> [Partitions -> Nat]] /\ Len(topic[p]) \in Nat
  BY LenProperties DEF Types
<1>2. pos' = [pos EXCEPT ![g] = [pos[g] EXCEPT ![p] = pos[g][p] + 1]]
  BY <1>1 DEF Handled
<1>3. pos[g] \in [Partitions -> Nat] /\ pos[g][p] \in Nat
  BY <1>1
<1>4. pos[g][p] + 1 \in 1..Len(topic[p])
  BY <1>1, <1>3
<1>5. Message(g, p) \in outbox
  BY <1>4 DEF Types, Message
<1> QED
  BY <1>1, <1>2, <1>3, <1>4, <1>5 DEF Message

(* The types are kept where the log and the topic only grow at their ends. *)
LEMMA TypesGrow ==
  ASSUME Types, outbox \subseteq outbox', topic' \in [Partitions -> Seq(Events)],
         \A p \in Partitions :
           /\ Len(topic'[p]) >= Len(topic[p])
           /\ \A i \in 1..Len(topic'[p]) :
                topic'[p][i] \in outbox' /\ PartitionOf[topic'[p][i].key] = p,
         published' \subseteq Numbers',
         batch' \in [Relays -> SUBSET Numbers'], sent' \in [Relays -> SUBSET Numbers'],
         \A r \in Relays : sent'[r] \subseteq batch'[r],
         UNCHANGED <<pos, auditVars, graphVars, bootVars, pastVars>>
  PROVE  Types'
<1>1. Numbers \subseteq Numbers'
  BY DEF Numbers
<1>2. marks \in Seq(Numbers')
  BY <1>1, SeqMonotonic DEF Types
<1>3. UNCHANGED <<audit, marks, doing, neo, boot, copy, expired, lapsed>>
  BY DEF auditVars, graphVars, bootVars, pastVars
<1>4. \A p \in Partitions : Len(topic[p]) \in Nat /\ Len(topic'[p]) \in Nat
  BY LenProperties DEF Types
<1>5. \A g \in Groups, p \in Partitions : pos[g][p] \in Nat /\ pos[g][p] <= Len(topic'[p])
  BY <1>4 DEF Types
<1>6. doing = Nothing \/ \E p \in Partitions :
       doing = [partition |-> p, stage |-> "applied"] /\ pos["projector"][p] < Len(topic'[p])
  BY <1>4, <1>5 DEF Types, Groups
<1> QED
  BY <1>1, <1>2, <1>3, <1>5, <1>6 DEF Types, Running

LEMMA TypesRelay ==
  ASSUME Ledger, Types, NEW r \in Relays,
         RelayTake(r) \/ RelaySend(r) \/ RelayDone(r) \/ RelayFail(r)
  PROVE  Types'
<1>t. /\ topic \in [Partitions -> Seq(Events)]
      /\ batch \in [Relays -> SUBSET Numbers] /\ sent \in [Relays -> SUBSET Numbers]
      /\ \A s \in Relays : sent[s] \subseteq batch[s]
      /\ published \subseteq Numbers
      /\ \A p \in Partitions : Len(topic[p]) \in Nat /\ \A i \in 1..Len(topic[p]) :
           topic[p][i] \in outbox /\ PartitionOf[topic[p][i].key] = p
  BY LenProperties DEF Types
<1>1. ASSUME RelayTake(r) \/ RelayDone(r) \/ RelayFail(r) PROVE Types'
  <2>1. /\ UNCHANGED <<outbox, topic, pos, auditVars, graphVars, bootVars, pastVars>>
    BY <1>1 DEF RelayTake, RelayDone, RelayFail, vars
  <2>2. Numbers' = Numbers
    BY <2>1 DEF Numbers
  <2>3. /\ published' \subseteq Numbers
        /\ batch' \in [Relays -> SUBSET Numbers] /\ sent' \in [Relays -> SUBSET Numbers]
        /\ \A s \in Relays : sent'[s] \subseteq batch'[s]
    <3>1. CASE RelayTake(r)
      <4>1. /\ batch' = [batch EXCEPT ![r] = Numbers \ (published \cup Locked)]
            /\ batch[r] = {} /\ UNCHANGED <<published, sent>>
        BY <3>1 DEF RelayTake
      <4> QED
        BY <1>t, <4>1
    <3>2. CASE RelayDone(r) \/ RelayFail(r)
      <4>1. /\ batch' = [batch EXCEPT ![r] = {}] /\ sent' = [sent EXCEPT ![r] = {}]
            /\ published' \subseteq published \cup batch[r]
        BY <3>2 DEF RelayDone, RelayFail
      <4> QED
        BY <1>t, <4>1
    <3> QED
      BY <1>1, <3>1, <3>2
  <2> QED
    BY <1>t, <2>1, <2>2, <2>3, TypesGrow
<1>2. ASSUME RelaySend(r) PROVE Types'
  <2>1. PICK e \in outbox :
          /\ e.seq \in batch[r] \ sent[r]
          /\ topic' = [topic EXCEPT ![PartitionOf[e.key]] = Append(topic[PartitionOf[e.key]], e)]
          /\ sent' = [sent EXCEPT ![r] = sent[r] \cup {e.seq}]
          /\ UNCHANGED <<vars, published, batch, pos, auditVars, graphVars, bootVars, failures, pastVars>>
    BY <1>2 DEF RelaySend
  <2>2. UNCHANGED <<outbox, published, batch>> /\ Numbers' = Numbers
    BY <2>1 DEF vars, Numbers
  <2>3. e.seq \in Numbers
    BY DEF Numbers
  <2>4. sent' \in [Relays -> SUBSET Numbers] /\ \A s \in Relays : sent'[s] \subseteq batch[s]
    BY <1>t, <2>1, <2>3
  <2>5. \A p \in Partitions :
           /\ Len(topic'[p]) >= Len(topic[p])
           /\ \A i \in 1..Len(topic'[p]) :
                topic'[p][i] \in outbox /\ PartitionOf[topic'[p][i].key] = p
    <3> SUFFICES ASSUME NEW p \in Partitions
                 PROVE  /\ Len(topic'[p]) >= Len(topic[p])
                        /\ \A i \in 1..Len(topic'[p]) :
                             topic'[p][i] \in outbox /\ PartitionOf[topic'[p][i].key] = p
      OBVIOUS
    <3>1. /\ Len(topic[p]) \in Nat /\ Len(topic'[p]) \in Nat
          /\ Len(topic'[p]) = IF p = PartitionOf[e.key] THEN Len(topic[p]) + 1 ELSE Len(topic[p])
          /\ \A i \in 1..Len(topic[p]) : topic'[p][i] = topic[p][i]
          /\ topic'[PartitionOf[e.key]][Len(topic[PartitionOf[e.key]]) + 1] = e
      BY <2>1, TopicGrows
    <3>2. ASSUME NEW i \in 1..Len(topic'[p])
          PROVE  topic'[p][i] \in outbox /\ PartitionOf[topic'[p][i].key] = p
      <4>1. CASE i \in 1..Len(topic[p])
        BY <1>t, <3>1, <4>1
      <4>2. CASE i \notin 1..Len(topic[p])
        <5>1. p = PartitionOf[e.key] /\ i = Len(topic[p]) + 1
          BY <3>1, <4>2
        <5> QED
          BY <3>1, <5>1
      <4> QED
        BY <4>1, <4>2
    <3> QED
      BY <3>1, <3>2
  <2>6. topic' \in [Partitions -> Seq(Events)]
    BY <2>1, TopicGrows
  <2> QED
    BY <1>t, <2>1, <2>2, <2>4, <2>5, <2>6, TypesGrow, ZenonT(40)
<1> QED
  BY <1>1, <1>2

LEMMA TypesWrite == ASSUME Ledger, Types, Write PROVE Types'
<1>1. PICK e \in Events : outbox' = outbox \cup {e}
  BY WriteEffect
<1>2. UNCHANGED <<relayVars, topic, pos, auditVars, graphVars, bootVars, pastVars>>
  BY WriteEffect
<1>3. outbox \subseteq outbox' /\ Numbers \subseteq Numbers'
  BY <1>1 DEF Numbers
<1>4. UNCHANGED <<published, batch, sent>>
  BY <1>2 DEF relayVars
<1>5. \A p \in Partitions : Len(topic[p]) \in Nat
  BY LenProperties DEF Types
<1>6. topic' = topic /\ topic \in [Partitions -> Seq(Events)]
  BY <1>2 DEF Types
<1>7. \A p \in Partitions :
           /\ Len(topic'[p]) >= Len(topic[p])
           /\ \A i \in 1..Len(topic'[p]) :
                topic'[p][i] \in outbox' /\ PartitionOf[topic'[p][i].key] = p
  BY <1>3, <1>5, <1>6 DEF Types
<1>8. /\ published' \subseteq Numbers'
      /\ batch' \in [Relays -> SUBSET Numbers'] /\ sent' \in [Relays -> SUBSET Numbers']
      /\ \A r \in Relays : sent'[r] \subseteq batch'[r]
  BY <1>3, <1>4 DEF Types
<1> QED
  BY <1>2, <1>3, <1>6, <1>7, <1>8, TypesGrow

(* The types that a consumer, bootstrap or a repair can disturb; the log,  *)
(* the batches and the topic are as they were.                             *)
LEMMA TypesKept ==
  ASSUME Types, UNCHANGED <<outbox, published, topic>>,
         \/ UNCHANGED <<batch, sent>>
         \/ batch' = [r \in Relays |-> {}] /\ sent' = [r \in Relays |-> {}],
         expired' \subseteq Numbers, marks' \in Seq(Numbers),
         pos' \in [Groups -> [Partitions -> Nat]],
         \A g \in Groups, p \in Partitions : pos'[g][p] <= Len(topic[p]),
         audit' \in Seq(Events) /\ \A i \in 1..Len(audit') : audit'[i] \in outbox,
         doing' = Nothing \/ \E p \in Partitions :
           doing' = [partition |-> p, stage |-> "applied"] /\ pos'["projector"][p] < Len(topic[p]),
         neo' \subseteq Keys, copy' \subseteq Keys, lapsed' \subseteq Keys,
         boot' \in {"up", "copied", "wiped", "down", "syncing"}
  PROVE  Types'
<1>1. Numbers' = Numbers
  BY DEF Numbers
<1>2. /\ published' \subseteq Numbers
      /\ batch' \in [Relays -> SUBSET Numbers] /\ sent' \in [Relays -> SUBSET Numbers]
      /\ \A r \in Relays : sent'[r] \subseteq batch'[r]
  BY DEF Types
<1>3. (Running \/ boot \in {"down", "syncing"})'
  BY DEF Running
<1>4. (/\ topic \in [Partitions -> Seq(Events)]
       /\ \A p \in Partitions : \A i \in 1..Len(topic[p]) :
            topic[p][i] \in outbox /\ PartitionOf[topic[p][i].key] = p)'
  BY DEF Types
<1> QED
  BY <1>1, <1>2, <1>3, <1>4 DEF Types

(* An audited event is one of the log's. *)
LEMMA AuditType ==
  ASSUME Ledger, Types, NEW e \in outbox
  PROVE  /\ Append(audit, e) \in Seq(Events)
         /\ Len(audit) \in Nat /\ Len(Append(audit, e)) = Len(audit) + 1
         /\ \A i \in 1..Len(audit) : Append(audit, e)[i] = audit[i]
         /\ Append(audit, e)[Len(audit) + 1] = e
         /\ \A i \in 1..Len(audit) + 1 : Append(audit, e)[i] \in outbox
         /\ IsAudited(e) <=> Audited(e, Len(audit))
<1>1. e \in Events /\ audit \in Seq(Events)
  BY DEF Ledger, Types
<1>2. /\ Append(audit, e) \in Seq(Events)
      /\ Len(audit) \in Nat /\ Len(Append(audit, e)) = Len(audit) + 1
      /\ \A i \in 1..Len(audit) : Append(audit, e)[i] = audit[i]
      /\ Append(audit, e)[Len(audit) + 1] = e
  BY <1>1, AppendProperties, LenProperties
<1>3. \A i \in 1..Len(audit) + 1 : i \in 1..Len(audit) \/ i = Len(audit) + 1
  BY <1>2
<1>4. \A i \in 1..Len(audit) + 1 : Append(audit, e)[i] \in outbox
  BY <1>2, <1>3 DEF Types
<1>5. DOMAIN audit = 1..Len(audit)
  BY <1>1, LenProperties
<1>6. IsAudited(e) <=> Audited(e, Len(audit))
  <2>1. \A i \in 1..Len(audit) : audit[i] \in outbox
    BY DEF Types
  <2>2. \A f \in outbox : f.seq = e.seq <=> f = e
    BY DEF Ledger
  <2>3. \A i \in 1..Len(audit) : audit[i].seq = e.seq <=> audit[i] = e
    BY <2>1, <2>2
  <2> QED
    BY <1>5, <2>3 DEF IsAudited, Audited
<1> QED
  BY <1>2, <1>4, <1>6

LEMMA MarksType ==
  ASSUME Types
  PROVE  /\ Len(marks) \in Nat /\ DOMAIN marks = 1..Len(marks)
         /\ \A n \in Numbers :
              /\ Append(marks, n) \in Seq(Numbers)
              /\ Len(Append(marks, n)) = Len(marks) + 1
              /\ \A i \in 1..Len(marks) : Append(marks, n)[i] = marks[i]
              /\ Append(marks, n)[Len(marks) + 1] = n
         /\ marks # <<>> =>
              /\ Tail(marks) \in Seq(Numbers) /\ Head(marks) \in Numbers
              /\ Len(marks) >= 1 /\ Len(Tail(marks)) = Len(marks) - 1
              /\ Head(marks) = marks[1]
              /\ \A i \in 1..Len(Tail(marks)) : Tail(marks)[i] = marks[i + 1]
<1>1. marks \in Seq(Numbers)
  BY DEF Types
<1>2. ASSUME marks # <<>>
      PROVE  /\ Tail(marks) \in Seq(Numbers) /\ Head(marks) \in Numbers
             /\ Len(marks) >= 1 /\ Len(Tail(marks)) = Len(marks) - 1
             /\ Head(marks) = marks[1]
             /\ \A i \in 1..Len(Tail(marks)) : Tail(marks)[i] = marks[i + 1]
  BY <1>1, <1>2, HeadTailProperties, EmptySeq, LenProperties, ElementOfSeq
<1> QED
  BY <1>1, <1>2, AppendProperties, LenProperties

LEMMA TypesConsumer ==
  ASSUME Ledger, Types, NEW p \in Partitions,
         AuditAppend(p) \/ ProjectorSkip(p) \/ ProjectorApply(p) \/ ProjectorMark(p)
  PROVE  Types'
<1>t. /\ pos \in [Groups -> [Partitions -> Nat]] /\ topic \in [Partitions -> Seq(Events)]
      /\ \A g \in Groups, q \in Partitions : pos[g][q] <= Len(topic[q])
      /\ \A q \in Partitions : Len(topic[q]) \in Nat
      /\ audit \in Seq(Events) /\ \A i \in 1..Len(audit) : audit[i] \in outbox
      /\ marks \in Seq(Numbers) /\ expired \subseteq Numbers
      /\ neo \subseteq Keys /\ copy \subseteq Keys /\ lapsed \subseteq Keys
      /\ boot \in {"up", "copied", "wiped", "down", "syncing"}
      /\ doing = Nothing \/ \E q \in Partitions :
           doing = [partition |-> q, stage |-> "applied"] /\ pos["projector"][q] < Len(topic[q])
  BY LenProperties DEF Types, Running
<1>g. "audit" \in Groups /\ "projector" \in Groups /\ "audit" # "projector"
  BY DEF Groups
<1>1. CASE AuditAppend(p)
  <2>1. /\ HasNext("audit", p) /\ Handled("audit", p)
        /\ audit' = IF IsAudited(Message("audit", p)) THEN audit
                                                      ELSE Append(audit, Message("audit", p))
        /\ UNCHANGED <<outbox, published, topic, batch, sent, expired, marks, doing, neo, copy, lapsed, boot>>
    BY <1>1 DEF AuditAppend, vars, relayVars, graphVars, bootVars, pastVars
  <2>2. pos["audit"][p] < Len(topic[p])
    BY <2>1 DEF HasNext
  <2>3. /\ pos' \in [Groups -> [Partitions -> Nat]]
        /\ pos'["audit"][p] <= Len(topic[p])
        /\ \A q \in Partitions : q # p => pos'["audit"][q] = pos["audit"][q]
        /\ pos'["projector"] = pos["projector"]
        /\ Message("audit", p) \in outbox
    BY <1>g, <1>t, <2>1, <2>2, HandledType
  <2>4. \A g \in Groups, q \in Partitions : pos'[g][q] <= Len(topic[q])
    BY <1>t, <2>3 DEF Groups
  <2>5. audit' \in Seq(Events) /\ \A i \in 1..Len(audit') : audit'[i] \in outbox
    BY <1>t, <2>1, <2>3, AuditType
  <2>6. doing' = Nothing \/ \E q \in Partitions :
          doing' = [partition |-> q, stage |-> "applied"] /\ pos'["projector"][q] < Len(topic[q])
    BY <1>t, <2>1, <2>3
  <2> QED
    BY <1>t, <2>1, <2>3, <2>4, <2>5, <2>6, TypesKept
<1>2. CASE ProjectorSkip(p) \/ ProjectorMark(p)
  <2>1. /\ Handled("projector", p) /\ doing' = Nothing
        /\ UNCHANGED <<outbox, published, topic, batch, sent, expired, audit, neo, copy, lapsed, boot>>
        /\ marks' = marks \/ marks' = Append(marks, Message("projector", p).seq)
    BY <1>2 DEF ProjectorSkip, ProjectorMark, vars, relayVars, auditVars, graphVars, bootVars, pastVars
  <2>2. pos["projector"][p] < Len(topic[p])
    BY <1>2, <1>t DEF ProjectorSkip, ProjectorMark, HasNext, Nothing
  <2>3. /\ pos' \in [Groups -> [Partitions -> Nat]]
        /\ pos'["projector"][p] <= Len(topic[p])
        /\ \A q \in Partitions : q # p => pos'["projector"][q] = pos["projector"][q]
        /\ pos'["audit"] = pos["audit"]
        /\ Message("projector", p) \in outbox
    BY <1>g, <1>t, <2>1, <2>2, HandledType
  <2>4. \A g \in Groups, q \in Partitions : pos'[g][q] <= Len(topic[q])
    BY <1>t, <2>3 DEF Groups
  <2>5. Message("projector", p).seq \in Numbers
    BY <2>3 DEF Numbers
  <2>6. marks' \in Seq(Numbers)
    BY <1>t, <2>1, <2>5, MarksType
  <2> QED
    BY <1>t, <2>1, <2>3, <2>4, <2>6, TypesKept
<1>3. CASE ProjectorApply(p)
  <2>1. /\ HasNext("projector", p) /\ doing' = [partition |-> p, stage |-> "applied"]
        /\ neo' = Applied(neo, Message("projector", p))
        /\ \/ lapsed' = lapsed \cup {Message("projector", p).key}
           \/ lapsed' = lapsed \ {Message("projector", p).key}
        /\ UNCHANGED <<outbox, published, topic, batch, sent, expired, audit, pos, marks, copy, boot>>
    BY <1>3 DEF ProjectorApply, vars, relayVars, auditVars, graphVars, bootVars, pastVars
  <2>2. pos["projector"][p] < Len(topic[p])
    BY <2>1 DEF HasNext
  <2>3. pos["projector"][p] + 1 \in 1..Len(topic[p])
    BY <1>g, <1>t, <2>2
  <2>4. Message("projector", p).key \in Keys
    BY <2>3 DEF Message, Types, Ledger, Events
  <2>5. neo' \subseteq Keys /\ lapsed' \subseteq Keys
    BY <1>t, <2>1, <2>4 DEF Applied
  <2> QED
    BY <1>t, <2>1, <2>2, <2>5, TypesKept
<1> QED
  BY <1>1, <1>2, <1>3

(* A group starts again somewhere it has been, or all of them do. *)
LEMMA Restarts ==
  ASSUME Ledger, Types, (\E g \in Groups : ConsumerFail(g)) \/ Outage
  PROVE  /\ pos' \in [Groups -> [Partitions -> Nat]]
         /\ \A g \in Groups, p \in Partitions : pos'[g][p] <= pos[g][p]
         /\ doing' \in {doing, Nothing}
         /\ pos'["projector"] = pos["projector"] \/ doing' = Nothing
<1>g. Groups = {"audit", "projector"} /\ pos \in [Groups -> [Partitions -> Nat]]
  BY DEF Types, Groups
<1>1. ASSUME NEW g \in Groups, ConsumerFail(g)
      PROVE  /\ pos' \in [Groups -> [Partitions -> Nat]]
             /\ \A h \in Groups, p \in Partitions : pos'[h][p] <= pos[h][p]
             /\ doing' \in {doing, Nothing}
             /\ pos'["projector"] = pos["projector"] \/ doing' = Nothing
  <2>1. PICK q \in Earlier(g) : pos' = [pos EXCEPT ![g] = q]
    BY <1>1 DEF ConsumerFail
  <2>2. q \in [Partitions -> Nat] /\ \A p \in Partitions : q[p] <= pos[g][p]
    BY EarlierType
  <2>3. doing' = IF g = "projector" THEN Nothing ELSE doing
    BY <1>1 DEF ConsumerFail
  <2> QED
    BY <1>g, <2>1, <2>2, <2>3
<1>2. ASSUME Outage
      PROVE  /\ pos' \in [Groups -> [Partitions -> Nat]]
             /\ \A h \in Groups, p \in Partitions : pos'[h][p] <= pos[h][p]
             /\ doing' = Nothing
  <2>1. PICK q \in Earlier("audit"), s \in Earlier("projector") :
          pos' = [pos EXCEPT !["audit"] = q, !["projector"] = s]
    BY <1>2 DEF Outage
  <2>2. /\ q \in [Partitions -> Nat] /\ \A p \in Partitions : q[p] <= pos["audit"][p]
        /\ s \in [Partitions -> Nat] /\ \A p \in Partitions : s[p] <= pos["projector"][p]
    BY <1>g, EarlierType
  <2>3. pos' \in [Groups -> [Partitions -> Nat]] /\ pos'["audit"] = q /\ pos'["projector"] = s
    BY <1>g, <2>1, <2>2
  <2> QED
    BY <1>g, <1>2, <2>2, <2>3 DEF Outage
<1> QED
  BY <1>1, <1>2

LEMMA TypesSystem ==
  ASSUME Ledger, Types,
         \/ MarkExpires \/ (\E g \in Groups : ConsumerFail(g)) \/ Outage
         \/ SyncRead \/ SyncMerge \/ RepairRead \/ RepairDelete \/ RepairFail
  PROVE  Types'
<1>t. /\ pos \in [Groups -> [Partitions -> Nat]]
      /\ \A g \in Groups, q \in Partitions : pos[g][q] <= Len(topic[q])
      /\ \A q \in Partitions : Len(topic[q]) \in Nat
      /\ audit \in Seq(Events) /\ \A i \in 1..Len(audit) : audit[i] \in outbox
      /\ marks \in Seq(Numbers) /\ expired \subseteq Numbers
      /\ neo \subseteq Keys /\ copy \subseteq Keys /\ lapsed \subseteq Keys
      /\ boot \in {"up", "copied", "wiped", "down", "syncing"}
      /\ doing = Nothing \/ \E q \in Partitions :
           doing = [partition |-> q, stage |-> "applied"] /\ pos["projector"][q] < Len(topic[q])
  BY LenProperties DEF Types, Running
<1>k. Table \subseteq Keys
  BY DEF Table, Ledger
<1>f. UNCHANGED <<outbox, published, topic, audit>>
  BY DEF MarkExpires, ConsumerFail, Outage, SyncRead, SyncMerge, RepairRead, RepairDelete,
         RepairFail, vars, relayVars, auditVars
<1>1. CASE MarkExpires
  <2>1. /\ marks # <<>> /\ marks' = Tail(marks) /\ expired' = expired \cup {Head(marks)}
        /\ UNCHANGED <<batch, sent, pos, doing, neo, copy, lapsed, boot>>
    BY <1>1 DEF MarkExpires, relayVars, bootVars
  <2>2. marks' \in Seq(Numbers) /\ expired' \subseteq Numbers
    BY <1>t, <2>1, MarksType
  <2> QED
    BY <1>t, <1>f, <2>1, <2>2, TypesKept
<1>2. CASE (\E g \in Groups : ConsumerFail(g)) \/ Outage
  <2>1. /\ pos' \in [Groups -> [Partitions -> Nat]]
        /\ \A g \in Groups, p \in Partitions : pos'[g][p] <= pos[g][p]
        /\ doing' \in {doing, Nothing}
        /\ pos'["projector"] = pos["projector"] \/ doing' = Nothing
    BY <1>2, Restarts
  <2>2. /\ UNCHANGED <<marks, neo, lapsed, expired>>
        /\ \/ UNCHANGED <<batch, sent>>
           \/ batch' = [r \in Relays |-> {}] /\ sent' = [r \in Relays |-> {}]
        /\ copy' \in {copy, {}} /\ boot' \in {boot, "down"}
    BY <1>2 DEF ConsumerFail, Outage, relayVars, bootVars, pastVars
  <2>3. ASSUME NEW g \in Groups, NEW p \in Partitions PROVE pos'[g][p] <= Len(topic[p])
    <3>1. pos'[g][p] \in Nat /\ pos[g][p] \in Nat /\ Len(topic[p]) \in Nat
      BY <1>t, <2>1
    <3>2. pos'[g][p] <= pos[g][p] /\ pos[g][p] <= Len(topic[p])
      BY <1>t, <2>1
    <3> QED
      BY <3>1, <3>2
  <2>4. doing' = Nothing \/ \E q \in Partitions :
          doing' = [partition |-> q, stage |-> "applied"] /\ pos'["projector"][q] < Len(topic[q])
    BY <1>t, <2>1
  <2> QED
    BY <1>t, <1>f, <2>1, <2>2, <2>3, <2>4, TypesKept
<1>3. CASE SyncRead \/ SyncMerge \/ RepairRead \/ RepairDelete \/ RepairFail
  <2>1. /\ UNCHANGED <<batch, sent, pos, doing, marks, expired>>
        /\ neo' \subseteq Keys /\ copy' \subseteq Keys /\ lapsed' \subseteq Keys
        /\ boot' \in {"up", "copied", "wiped", "down", "syncing"}
    BY <1>t, <1>k, <1>3 DEF SyncRead, SyncMerge, RepairRead, RepairDelete, RepairFail,
         relayVars, graphVars, pastVars
  <2> QED
    BY <1>t, <1>f, <2>1, TypesKept
<1> QED
  BY <1>1, <1>2, <1>3

(* The write side is the ledger's: every other step leaves it alone. *)
LEMMA LedgerStep == ASSUME Ledger, [ProjNext]_allVars PROVE Ledger'
<1>1. CASE Write
  BY <1>1, WriteEffect
<1>2. CASE ~Write
  <2>1. UNCHANGED vars
    BY <1>2 DEF ProjNext, allVars, RelayTake, RelaySend, RelayDone, RelayFail, AuditAppend,
         ProjectorSkip, ProjectorApply, ProjectorMark, MarkExpires, ConsumerFail, Outage,
         SyncRead, SyncMerge, RepairRead, RepairDelete, RepairFail
  <2> QED
    BY <2>1, LedgerSame
<1> QED
  BY <1>1, <1>2

LEMMA TypesStep == ASSUME Ledger, Types, [ProjNext]_allVars PROVE Types'
<1>1. CASE UNCHANGED allVars
  BY <1>1 DEF allVars, vars, relayVars, auditVars, graphVars, bootVars, pastVars, Types, Numbers,
     Running
<1>2. CASE ProjNext
  BY <1>2, TypesWrite, TypesRelay, TypesConsumer, TypesSystem DEF ProjNext
<1> QED
  BY <1>1, <1>2

LEMMA InitOK == ASSUME ProjInit PROVE Ledger /\ Types
<1>1. rows = {} /\ outbox = {} /\ Numbers = {}
  BY DEF ProjInit, Init, Numbers
<1>2. Ledger
  BY <1>1, FS_EmptySet DEF Ledger
<1>3. <<>> \in Seq(Events) /\ <<>> \in Seq(Numbers) /\ Len(<<>>) = 0
  BY EmptySeq
<1>4. /\ published = {} /\ expired = {}
      /\ batch = [r \in Relays |-> {}] /\ sent = [r \in Relays |-> {}]
      /\ topic = [p \in Partitions |-> <<>>]
      /\ pos = [g \in Groups |-> [p \in Partitions |-> 0]]
      /\ audit = <<>> /\ marks = <<>> /\ doing = Nothing
      /\ neo = {} /\ copy = {} /\ lapsed = {} /\ boot = "down"
  BY DEF ProjInit
<1>5. /\ topic \in [Partitions -> Seq(Events)] /\ \A p \in Partitions : topic[p] = <<>>
      /\ pos \in [Groups -> [Partitions -> Nat]]
      /\ \A g \in Groups, p \in Partitions : pos[g][p] = 0
      /\ batch \in [Relays -> SUBSET Numbers] /\ sent \in [Relays -> SUBSET Numbers]
      /\ \A r \in Relays : sent[r] \subseteq batch[r]
  BY <1>3, <1>4
<1>6. Types
  BY <1>3, <1>4, <1>5 DEF Types
<1> QED
  BY <1>2, <1>6

LEMMA TypeOKFollows == ASSUME Ledger, Types PROVE ProjTypeOK
<1>1. \A p \in Partitions : DOMAIN topic[p] = 1..Len(topic[p]) /\ Len(topic[p]) \in Nat
  BY LenProperties DEF Types
<1>2. \A i \in DOMAIN marks : marks[i] \in Numbers
  BY ElementOfSeq, MarksType DEF Types
<1>3. \A g \in Groups, p \in Partitions : pos[g][p] \in 0..Len(topic[p])
  BY <1>1 DEF Types
<1>4. doing.stage \in {"idle", "applied"}
  BY DEF Types, Nothing
<1> QED
  BY <1>1, <1>2, <1>3, <1>4 DEF ProjTypeOK, Ledger, Types, Events

(* Type correctness: what is sent, marked and published is what the write *)
(* side wrote, and no consumer is ahead of its partition.                  *)
THEOREM TypeTheorem == ProjSpec => []ProjTypeOK
<1>1. ProjInit => Ledger /\ Types
  BY InitOK
<1>2. Ledger /\ Types /\ [ProjNext]_allVars => (Ledger /\ Types)'
  BY LedgerStep, TypesStep
<1>3. Ledger /\ Types => ProjTypeOK
  BY TypeOKFollows
<1> QED
  BY <1>1, <1>2, <1>3, PTL DEF ProjSpec

-----------------------------------------------------------------------------
(* With one relay, what is out is what is marked as sent or in its batch. *)
LEMMA OutIs ==
  ASSUME OneRelay, NEW r \in Relays
  PROVE  Out = published \cup sent[r]
BY DEF OneRelay, Out

(* Steps of the relay's neighbours: the rows it has taken stay, or all are *)
(* released by an outage.                                                  *)
LEMMA BatchesKept ==
  ASSUME Batches, UNCHANGED <<outbox, published>>,
         UNCHANGED <<batch, sent>> \/ (batch' = [r \in Relays |-> {}] /\ sent' = [r \in Relays |-> {}])
  PROVE  Batches'
BY DEF Batches, Before

LEMMA BatchesWrite == ASSUME Ledger, Types, Batches, Write PROVE Batches'
<1>1. PICK e \in Events :
        /\ outbox' = outbox \cup {e} /\ e.seq \notin Numbers
        /\ \A f \in outbox : f.key = e.key => f.seq < e.seq
  BY WriteEffect
<1>2. UNCHANGED <<published, batch, sent>>
  BY WriteEffect DEF relayVars
<1>3. e.seq \notin published /\ \A r \in Relays : e.seq \notin batch[r]
  BY <1>1 DEF Types
<1>4. \A f \in outbox : ~Before(e, f)
  BY <1>1, NothingAfter
<1>5. ASSUME NEW f \in outbox', NEW g \in outbox', Before(f, g), g # e
      PROVE  f \in outbox /\ g \in outbox
  BY <1>1, <1>4, <1>5
<1>6. \A f, g \in outbox' : Before(f, g) /\ g.seq \in published => f.seq \in published
  BY <1>3, <1>5 DEF Batches
<1>7. \A r \in Relays : \A f, g \in outbox' :
        Before(f, g) /\ g.seq \in batch[r] => f.seq \in batch[r] \cup published
  BY <1>3, <1>5 DEF Batches
<1> QED
  BY <1>2, <1>6, <1>7 DEF Batches, Before

LEMMA BatchesRelay ==
  ASSUME OneRelay, Ledger, Types, Batches, NEW r \in Relays,
         RelayTake(r) \/ RelaySend(r) \/ RelayDone(r) \/ RelayFail(r)
  PROVE  Batches'
<1>t. /\ batch \in [Relays -> SUBSET Numbers] /\ sent \in [Relays -> SUBSET Numbers]
      /\ sent[r] \subseteq batch[r] /\ Relays = {r}
  BY DEF Types, OneRelay
<1>f. outbox' = outbox
  BY DEF RelayTake, RelaySend, RelayDone, RelayFail, vars
<1>b. /\ batch[r] \cap published = {}
      /\ \A e, f \in outbox : Before(e, f) /\ f.seq \in published => e.seq \in published
      /\ \A e, f \in outbox : Before(e, f) /\ f.seq \in batch[r] => e.seq \in batch[r] \cup published
      /\ \A s \in sent[r], n \in batch[r] \ sent[r] : s <= n
  BY DEF Batches
<1> SUFFICES /\ batch'[r] \cap published' = {}
             /\ \A e, f \in outbox : Before(e, f) /\ f.seq \in published' => e.seq \in published'
             /\ \A e, f \in outbox :
                  Before(e, f) /\ f.seq \in batch'[r] => e.seq \in batch'[r] \cup published'
             /\ \A s \in sent'[r], n \in batch'[r] \ sent'[r] : s <= n
  <2>1. /\ \A s \in Relays : s = r
        /\ \A e, f : Before(e, f)' <=> Before(e, f)
    BY <1>t DEF Before
  <2> QED
    BY <1>f, <2>1 DEF Batches
<1>1. CASE RelayTake(r)
  <2>1. /\ batch[r] = {} /\ UNCHANGED <<published, sent>>
        /\ batch' = [batch EXCEPT ![r] = Numbers \ (published \cup Locked)]
    BY <1>1 DEF RelayTake
  <2>2. Locked = {}
    BY <1>t, <2>1 DEF Locked
  <2>3. batch'[r] = Numbers \ published /\ sent'[r] = {}
    BY <1>t, <2>1, <2>2
  <2>4. \A e \in outbox : e.seq \in Numbers
    BY DEF Numbers
  <2> QED
    BY <1>b, <2>1, <2>3, <2>4
<1>2. CASE RelaySend(r)
  <2>1. PICK e \in outbox :
          /\ \A s \in batch[r] \ sent[r] : e.seq <= s
          /\ sent' = [sent EXCEPT ![r] = sent[r] \cup {e.seq}]
          /\ UNCHANGED <<published, batch>>
    BY <1>2 DEF RelaySend
  <2>2. sent'[r] = sent[r] \cup {e.seq}
    BY <1>t, <2>1
  <2> QED
    BY <1>b, <2>1, <2>2
<1>3. CASE RelayDone(r)
  <2>1. published' = published \cup batch[r] /\ batch'[r] = {} /\ sent'[r] = {}
    BY <1>t, <1>3 DEF RelayDone
  <2> QED
    BY <1>b, <2>1
<1>4. CASE RelayFail(r)
  <2>1. published' = published /\ batch'[r] = {} /\ sent'[r] = {}
    BY <1>t, <1>4 DEF RelayFail
  <2> QED
    BY <1>b, <2>1
<1> QED
  BY <1>1, <1>2, <1>3, <1>4

(* The topic stays and nothing goes out. *)
LEMMA OrderKept ==
  ASSUME Order, UNCHANGED <<outbox, topic>>, Out' \subseteq Out
  PROVE  Order'
<1>1. /\ \A e, from, to : OnTopic(e, from, to)' <=> OnTopic(e, from, to)
      /\ \A e, f : Before(e, f)' <=> Before(e, f)
  BY DEF OnTopic, Before
<1>2. \A e \in outbox : e.seq \in Out' => OnTopic(e, 1, Len(topic[PartitionOf[e.key]]))
  BY DEF Order
<1>3. \A p \in Partitions : \A j \in 1..Len(topic[p]) : \A e \in outbox :
        Before(e, topic[p][j]) => OnTopic(e, 1, j - 1)
  BY DEF Order
<1>4. \A p \in Partitions : \A i \in 1..Len(topic[p]) : \A f \in outbox :
        Before(topic[p][i], f) /\ f.seq \in Out' => OnTopic(f, i + 1, Len(topic[p]))
  BY DEF Order
<1> QED
  BY <1>1, <1>2, <1>3, <1>4 DEF Order

LEMMA OrderWrite == ASSUME Ledger, Types, Order, Write PROVE Order'
<1>1. PICK e \in Events :
        /\ outbox' = outbox \cup {e} /\ e.seq \notin Numbers
        /\ \A f \in outbox : f.key = e.key => f.seq < e.seq
  BY WriteEffect
<1>2. UNCHANGED <<topic, published, batch, sent>> /\ Out' = Out
  BY WriteEffect DEF relayVars, Out
<1>3. Out \subseteq Numbers
  BY DEF Out, Types
<1>4. e.seq \notin Out
  BY <1>1, <1>3
<1>5. \A f \in outbox : ~Before(e, f)
  BY <1>1, NothingAfter
<1>6. \A f \in outbox' : f.seq \in Out => f \in outbox
  BY <1>1, <1>4
<1>7. \A p \in Partitions : \A j \in 1..Len(topic[p]) : topic[p][j] \in outbox
  BY DEF Types
<1>8. \A p \in Partitions : \A j \in 1..Len(topic[p]) : \A f \in outbox' :
        Before(f, topic[p][j]) => f \in outbox
  BY <1>1, <1>5, <1>7
<1> QED
  BY <1>2, <1>6, <1>8 DEF Order, OnTopic, Before

(* The row that is sent is the first of its grant to be out, or follows    *)
(* all that came before it; none of those after it is out.                 *)
LEMMA OrderSend ==
  ASSUME OneRelay, Ledger, Types, Batches, Order, NEW r \in Relays, RelaySend(r)
  PROVE  Order'
<1>1. PICK e \in outbox :
        /\ e.seq \in batch[r] \ sent[r]
        /\ \A s \in batch[r] \ sent[r] : e.seq <= s
        /\ topic' = [topic EXCEPT ![PartitionOf[e.key]] = Append(topic[PartitionOf[e.key]], e)]
        /\ sent' = [sent EXCEPT ![r] = sent[r] \cup {e.seq}]
        /\ UNCHANGED <<vars, published>>
  BY DEF RelaySend
<1> DEFINE q == PartitionOf[e.key]
<1>o. outbox' = outbox /\ UNCHANGED vars
  BY <1>1 DEF vars
<1>2. /\ q \in Partitions
      /\ \A p \in Partitions :
           /\ Len(topic[p]) \in Nat /\ Len(topic'[p]) \in Nat
           /\ Len(topic'[p]) = IF p = q THEN Len(topic[p]) + 1 ELSE Len(topic[p])
           /\ \A i \in 1..Len(topic[p]) : topic'[p][i] = topic[p][i]
      /\ topic'[q][Len(topic[q]) + 1] = e
  BY <1>1, TopicGrows
<1>3. \A p \in Partitions : \A i \in 1..Len(topic[p]) :
        topic[p][i] \in outbox /\ PartitionOf[topic[p][i].key] = p
  BY DEF Types
<1>4. Out = published \cup sent[r] /\ Out' = Out \cup {e.seq}
  <2>1. sent \in [Relays -> SUBSET Numbers]
    BY DEF Types
  <2>2. sent'[r] = sent[r] \cup {e.seq}
    BY <1>1, <2>1
  <2>3. Out' = published' \cup sent'[r] /\ Out = published \cup sent[r]
    BY DEF OneRelay, Out
  <2> QED
    BY <1>1, <2>2, <2>3
<1>n. \A f \in outbox : f.seq \in Nat /\ PartitionOf[f.key] \in Partitions
  BY SeqsAssumption, PartitionAssumption DEF Ledger, Events
(* Earlier events of the grant are out. *)
<1>5. ASSUME NEW f \in outbox, Before(f, e) PROVE f.seq \in Out
  <2>1. f.seq \in batch[r] \cup published
    BY <1>1, <1>5 DEF Batches
  <2>2. ~(e.seq <= f.seq)
    BY <1>n, <1>5 DEF Before
  <2> QED
    BY <1>1, <1>4, <2>1, <2>2
(* Later ones are not. *)
<1>6. ASSUME NEW f \in outbox, Before(e, f) PROVE f.seq \notin Out
  <2>1. ~(f.seq <= e.seq)
    BY <1>n, <1>6 DEF Before
  <2>2. f.seq \notin sent[r]
    BY <1>1, <2>1 DEF Batches
  <2>3. f.seq \notin published
    BY <1>1, <1>6 DEF Batches
  <2> QED
    BY <1>4, <2>2, <2>3
<1>7. ASSUME NEW f \in outbox, NEW from \in Nat, NEW to \in Nat,
             1 <= from, to <= Len(topic[PartitionOf[f.key]]), OnTopic(f, from, to)
      PROVE  OnTopic(f, from, to)' /\ OnTopic(f, from, Len(topic[PartitionOf[f.key]]))'
  <2>1. PICK i \in from..to : topic[PartitionOf[f.key]][i] = f
    BY <1>7 DEF OnTopic
  <2>2. i \in 1..Len(topic[PartitionOf[f.key]])
    BY <1>2, <1>7, <1>n
  <2>3. topic'[PartitionOf[f.key]][i] = f
    BY <1>2, <1>n, <2>1, <2>2
  <2>4. i \in from..Len(topic'[PartitionOf[f.key]])
    BY <1>2, <1>n, <2>2
  <2> QED
    BY <2>1, <2>3, <2>4 DEF OnTopic
<1>8. \A from \in Nat : from <= Len(topic[q]) + 1 => OnTopic(e, from, Len(topic[q]))'
  <2>1. Len(topic'[q]) = Len(topic[q]) + 1 /\ Len(topic[q]) \in Nat
    BY <1>2
  <2> QED
    BY <1>2, <2>1 DEF OnTopic
<1>9. ASSUME NEW f \in outbox, f.seq \in Out'
      PROVE  OnTopic(f, 1, Len(topic[PartitionOf[f.key]]))'
  <2>1. CASE f.seq \in Out
    <3>1. OnTopic(f, 1, Len(topic[PartitionOf[f.key]]))
      BY <2>1 DEF Order
    <3> QED
      BY <1>2, <1>7, <1>n, <3>1
  <2>2. CASE f.seq = e.seq
    <3>1. f = e
      BY <2>2 DEF Ledger
    <3> QED
      BY <1>2, <1>8, <3>1
  <2> QED
    BY <1>4, <1>9, <2>1, <2>2
<1>10. ASSUME NEW p \in Partitions, NEW j \in 1..Len(topic'[p]), NEW f \in outbox,
              Before(f, topic'[p][j])
       PROVE  OnTopic(f, 1, j - 1)'
  <2>1. CASE j \in 1..Len(topic[p])
    <3>1. topic'[p][j] = topic[p][j] /\ PartitionOf[f.key] = p
      BY <1>2, <1>3, <1>10, <2>1 DEF Before
    <3>2. OnTopic(f, 1, j - 1)
      BY <1>10, <2>1, <3>1 DEF Order
    <3>3. j - 1 \in Nat /\ j - 1 <= Len(topic[p])
      BY <1>2, <2>1
    <3> QED
      BY <1>7, <3>1, <3>2, <3>3
  <2>2. CASE j \notin 1..Len(topic[p])
    <3>1. p = q /\ j = Len(topic[q]) + 1
      BY <1>2, <2>2
    <3>2. Before(f, e) /\ PartitionOf[f.key] = q
      BY <1>2, <1>10, <3>1 DEF Before
    <3>3. OnTopic(f, 1, Len(topic[q]))
      BY <1>5, <3>2 DEF Order
    <3>4. j - 1 = Len(topic[q]) /\ Len(topic[q]) \in Nat
      BY <1>2, <3>1
    <3> QED
      BY <1>7, <3>2, <3>3, <3>4
  <2> QED
    BY <2>1, <2>2
<1>11. ASSUME NEW p \in Partitions, NEW i \in 1..Len(topic'[p]), NEW f \in outbox,
              Before(topic'[p][i], f), f.seq \in Out'
       PROVE  OnTopic(f, i + 1, Len(topic[p]))'
  <2>1. CASE i \in 1..Len(topic[p])
    <3>1. topic'[p][i] = topic[p][i] /\ PartitionOf[f.key] = p
      BY <1>2, <1>3, <1>11, <2>1 DEF Before
    <3>2. CASE f.seq \in Out
      <4>1. OnTopic(f, i + 1, Len(topic[p]))
        BY <1>11, <2>1, <3>1, <3>2 DEF Order
      <4> QED
        BY <1>2, <1>7, <3>1, <4>1, SMTT(30)
    <3>3. CASE f.seq = e.seq
      <4>1. f = e
        BY <3>3 DEF Ledger
      <4>2. p = q /\ i + 1 \in Nat /\ i + 1 <= Len(topic[q]) + 1
        BY <1>2, <2>1, <3>1, <4>1
      <4> QED
        BY <1>8, <4>1, <4>2
    <3> QED
      BY <1>4, <1>11, <3>2, <3>3
  <2>2. CASE i \notin 1..Len(topic[p])
    <3>1. p = q /\ i = Len(topic[q]) + 1
      BY <1>2, <2>2
    <3>2. Before(e, f)
      BY <1>2, <1>11, <3>1
    <3>3. f.seq # e.seq /\ f.seq \notin Out
      BY <1>6, <1>n, <3>2 DEF Before
    <3> QED
      BY <1>4, <1>11, <3>3
  <2> QED
    BY <2>1, <2>2
<1>12. \A f, g : Before(f, g)' <=> Before(f, g)
  BY DEF Before
<1> QED
  BY <1>o, <1>9, <1>10, <1>11, <1>12 DEF Order

(* Steps that are neither a write nor the relay's leave the log, the topic *)
(* and the relay alone, but for an outage.                                 *)
LEMMA NotRelay ==
  ASSUME [ProjNext]_allVars, ~Write,
         \A r \in Relays : ~RelayTake(r) /\ ~RelaySend(r) /\ ~RelayDone(r) /\ ~RelayFail(r)
  PROVE  /\ UNCHANGED <<vars, published, topic>>
         /\ UNCHANGED <<batch, sent>> \/ (batch' = [r \in Relays |-> {}] /\ sent' = [r \in Relays |-> {}])
BY DEF ProjNext, allVars, AuditAppend, ProjectorSkip, ProjectorApply, ProjectorMark, MarkExpires,
       ConsumerFail, Outage, SyncRead, SyncMerge, RepairRead, RepairDelete, RepairFail, relayVars

LEMMA OutKept ==
  ASSUME published' = published,
         UNCHANGED <<batch, sent>> \/ (batch' = [r \in Relays |-> {}] /\ sent' = [r \in Relays |-> {}])
  PROVE  Out' \subseteq Out
BY DEF Out

LEMMA OrderStep ==
  ASSUME OneRelay, Ledger, Types, Batches, Order, [ProjNext]_allVars
  PROVE  Batches' /\ Order'
<1>1. CASE Write
  BY <1>1, BatchesWrite, OrderWrite
<1>2. ASSUME NEW r \in Relays, RelayTake(r) \/ RelaySend(r) \/ RelayDone(r) \/ RelayFail(r)
      PROVE  Batches' /\ Order'
  <2>1. Batches'
    BY <1>2, BatchesRelay
  <2>2. CASE RelaySend(r)
    BY <2>1, <2>2, OrderSend
  <2>3. CASE RelayTake(r) \/ RelayDone(r) \/ RelayFail(r)
    <3>1. UNCHANGED <<outbox, topic>>
      BY <2>3 DEF RelayTake, RelayDone, RelayFail, vars
    <3>2. sent \in [Relays -> SUBSET Numbers]
      BY DEF Types
    <3>3. published' \cup sent'[r] \subseteq published \cup sent[r]
      BY <2>3, <3>2 DEF RelayTake, RelayDone, RelayFail
    <3>4. Out' = published' \cup sent'[r] /\ Out = published \cup sent[r]
      BY DEF OneRelay, Out
    <3> QED
      BY <2>1, <3>1, <3>3, <3>4, OrderKept
  <2> QED
    BY <1>2, <2>2, <2>3
<1>3. CASE /\ ~Write
           /\ \A r \in Relays : ~RelayTake(r) /\ ~RelaySend(r) /\ ~RelayDone(r) /\ ~RelayFail(r)
  BY <1>3, NotRelay, OutKept, BatchesKept, OrderKept DEF vars
<1> QED
  BY <1>1, <1>2, <1>3

-----------------------------------------------------------------------------
(* The audit log and what its consumer has passed are as they were; the    *)
(* topic may have got longer.                                              *)
LEMMA RecordedKept ==
  ASSUME Ledger, Types, Recorded, UNCHANGED <<outbox, audit>>,
         pos' \in [Groups -> [Partitions -> Nat]],
         \A p \in Partitions : pos'["audit"][p] <= pos["audit"][p],
         \A p \in Partitions : \A i \in 1..Len(topic[p]) : topic'[p][i] = topic[p][i]
  PROVE  Recorded'
<1>1. ASSUME NEW p \in Partitions, NEW i \in 1..pos'["audit"][p]
      PROVE  Audited(topic'[p][i], Len(audit))
  <2>1. "audit" \in Groups
    BY DEF Groups
  <2>2. /\ pos["audit"][p] \in Nat /\ pos'["audit"][p] \in Nat /\ Len(topic[p]) \in Nat
        /\ pos["audit"][p] <= Len(topic[p])
    BY <2>1, LenProperties DEF Types
  <2>3. i \in 1..pos["audit"][p] /\ i \in 1..Len(topic[p])
    BY <2>2
  <2> QED
    BY <2>3 DEF Recorded
<1> QED
  BY <1>1 DEF Recorded, Audited, Before

LEMMA RecordedWrite == ASSUME Ledger, Types, Recorded, Write PROVE Recorded'
<1>1. PICK e \in Events :
        /\ outbox' = outbox \cup {e}
        /\ \A f \in outbox : f.key = e.key => f.seq < e.seq
  BY WriteEffect
<1>2. UNCHANGED <<topic, pos, audit>>
  BY WriteEffect DEF auditVars
<1>3. \A f \in outbox : ~Before(e, f)
  BY <1>1, NothingAfter
<1>4. \A j \in 1..Len(audit) : audit[j] \in outbox
  BY DEF Types
<1>5. \A j \in 1..Len(audit) : \A f \in outbox' : Before(f, audit[j]) => Audited(f, j - 1)
  BY <1>1, <1>3, <1>4 DEF Recorded
<1> QED
  BY <1>2, <1>5 DEF Recorded, Audited, Before

(* An event that is not recorded yet is recorded after those of its grant  *)
(* that came before it: they are ahead of it in its partition.             *)
LEMMA RecordedAppend ==
  ASSUME Ledger, Types, Order, Recorded, NEW p \in Partitions, AuditAppend(p)
  PROVE  Recorded'
<1>e. PICK e : e = Message("audit", p)
  OBVIOUS
<1>n. PICK n : n = pos["audit"][p]
  OBVIOUS
<1>g. "audit" \in Groups
  BY DEF Groups
<1>1. /\ n < Len(topic[p]) /\ Handled("audit", p)
      /\ audit' = IF IsAudited(e) THEN audit ELSE Append(audit, e)
      /\ UNCHANGED <<outbox, topic>>
  BY <1>e, <1>n DEF AuditAppend, HasNext, vars
<1>2. /\ pos'["audit"][p] = n + 1 /\ n + 1 \in 1..Len(topic[p])
      /\ \A q \in Partitions : q # p => pos'["audit"][q] = pos["audit"][q]
      /\ e \in outbox /\ e = topic[p][n + 1]
  BY <1>e, <1>n, <1>g, <1>1, HandledType
<1>3. n \in Nat /\ \A q \in Partitions : \A i \in 1..pos["audit"][q] : topic[q][i] \in outbox
  <2>1. \A q \in Partitions : /\ pos["audit"][q] \in Nat /\ Len(topic[q]) \in Nat
                              /\ pos["audit"][q] <= Len(topic[q])
    BY <1>g, LenProperties DEF Types
  <2>2. \A q \in Partitions : \A i \in 1..Len(topic[q]) : topic[q][i] \in outbox
    BY DEF Types
  <2>3. ASSUME NEW q \in Partitions, NEW i \in 1..pos["audit"][q] PROVE topic[q][i] \in outbox
    <3>1. i \in 1..Len(topic[q])
      BY <2>1
    <3> QED
      BY <2>2, <3>1
  <2> QED
    BY <1>n, <2>1, <2>3
<1>4. /\ Len(audit) \in Nat /\ Len(Append(audit, e)) = Len(audit) + 1
      /\ \A i \in 1..Len(audit) : Append(audit, e)[i] = audit[i]
      /\ Append(audit, e)[Len(audit) + 1] = e
      /\ IsAudited(e) <=> Audited(e, Len(audit))
  BY <1>2, AuditType
(* Whatever was audited stays so. *)
<1>5. Len(audit') \in Nat /\ Len(audit') >= Len(audit)
  BY <1>1, <1>4
<1>6. \A i \in 1..Len(audit) : audit'[i] = audit[i]
  BY <1>1, <1>4
<1>7. ASSUME NEW f, NEW to \in Nat, to <= Len(audit), Audited(f, to)
      PROVE  Audited(f, to)' /\ Audited(f, Len(audit))'
  <2>1. PICK j \in 1..to : audit[j] = f
    BY <1>7 DEF Audited
  <2>2. j \in 1..Len(audit) /\ j \in 1..Len(audit')
    BY <1>4, <1>5, <1>7
  <2> QED
    BY <1>6, <2>1, <2>2 DEF Audited
<1>8. Audited(e, Len(audit))'
  <2>1. CASE IsAudited(e)
    BY <1>4, <1>7, <2>1
  <2>2. CASE ~IsAudited(e)
    <3>1. audit' = Append(audit, e) /\ Len(audit') = Len(audit) + 1 /\ audit'[Len(audit) + 1] = e
      BY <1>1, <1>4, <2>2
    <3>2. Len(audit) + 1 \in 1..Len(audit')
      BY <1>4, <3>1
    <3> QED
      BY <3>1, <3>2 DEF Audited
  <2> QED
    BY <2>1, <2>2
<1>9. ASSUME NEW q \in Partitions, NEW i \in 1..pos'["audit"][q]
      PROVE  Audited(topic[q][i], Len(audit))'
  <2>1. CASE q = p /\ i = n + 1
    BY <1>1, <1>2, <1>8, <2>1
  <2>2. CASE ~(q = p /\ i = n + 1)
    <3>1. i \in 1..pos["audit"][q]
      BY <1>n, <1>2, <1>3, <2>2
    <3>2. Audited(topic[q][i], Len(audit))
      BY <3>1 DEF Recorded
    <3> QED
      BY <1>1, <1>4, <1>7, <3>2
  <2> QED
    BY <2>1, <2>2
<1>10. \A i, j \in 1..Len(audit') : audit'[i].seq = audit'[j].seq => i = j
  <2>1. CASE IsAudited(e)
    BY <1>1, <2>1 DEF Recorded
  <2>2. CASE ~IsAudited(e)
    <3>1. audit' = Append(audit, e) /\ Len(audit') = Len(audit) + 1 /\ audit'[Len(audit) + 1] = e
      BY <1>1, <1>4, <2>2
    <3>2. \A i \in 1..Len(audit') : i \in 1..Len(audit) \/ i = Len(audit) + 1
      BY <1>4, <3>1
    <3>3. \A i \in 1..Len(audit) : audit[i].seq # e.seq
      <4>1. \A i \in 1..Len(audit) : audit[i] \in outbox /\ audit[i] # e
        BY <1>4, <2>2 DEF Types, Audited
      <4> QED
        BY <1>2, <4>1 DEF Ledger
    <3> QED
      BY <1>6, <3>1, <3>2, <3>3 DEF Recorded
  <2> QED
    BY <2>1, <2>2
<1>11. ASSUME NEW j \in 1..Len(audit'), NEW f \in outbox, Before(f, audit'[j])
       PROVE  Audited(f, j - 1)'
  <2>1. CASE j \in 1..Len(audit)
    <3>1. Audited(f, j - 1)
      BY <1>6, <1>11, <2>1 DEF Recorded
    <3>2. j - 1 \in Nat /\ j - 1 <= Len(audit)
      BY <1>4, <2>1
    <3> QED
      BY <1>7, <3>1, <3>2
  <2>2. CASE j \notin 1..Len(audit)
    <3>1. j = Len(audit) + 1 /\ audit'[j] = e
      BY <1>1, <1>4, <2>2
    <3>2. Before(f, topic[p][n + 1])
      BY <1>2, <1>11, <3>1
    <3>3. OnTopic(f, 1, n)
      <4>1. OnTopic(f, 1, n + 1 - 1)
        BY <1>2, <1>3, <3>2 DEF Order
      <4>2. n + 1 - 1 = n
        BY <1>3
      <4> QED
        BY <4>1, <4>2
    <3>4. PartitionOf[f.key] = p
      BY <1>2, <3>2 DEF Before, Types
    <3>5. PICK i \in 1..n : topic[p][i] = f
      BY <3>3, <3>4 DEF OnTopic
    <3>6. Audited(f, Len(audit))
      BY <1>n, <3>5 DEF Recorded
    <3>7. j - 1 = Len(audit)
      BY <1>4, <3>1
    <3> QED
      BY <1>4, <1>7, <3>6, <3>7
  <2> QED
    BY <2>1, <2>2
<1>12. \A f, g : Before(f, g)' <=> Before(f, g)
  BY DEF Before
<1> QED
  BY <1>1, <1>9, <1>10, <1>11, <1>12 DEF Recorded

(* The audit consumer's place is where it was, unless it records or starts *)
(* again; what is on the topic stays there.                                *)
LEMMA Frame ==
  ASSUME Ledger, Types, [ProjNext]_allVars, ~Write
  PROVE  /\ outbox' = outbox
         /\ \A p \in Partitions : \A i \in 1..Len(topic[p]) : topic'[p][i] = topic[p][i]
         /\ (\A p \in Partitions : ~AuditAppend(p)) =>
              /\ audit' = audit
              /\ \A p \in Partitions : pos'["audit"][p] <= pos["audit"][p]
<1>t. /\ pos \in [Groups -> [Partitions -> Nat]] /\ topic \in [Partitions -> Seq(Events)]
      /\ "audit" \in Groups /\ "projector" \in Groups
  BY DEF Types, Groups
<1>1. ASSUME NEW r \in Relays, RelaySend(r)
      PROVE  /\ outbox' = outbox /\ UNCHANGED <<audit, pos>>
             /\ \A p \in Partitions : \A i \in 1..Len(topic[p]) : topic'[p][i] = topic[p][i]
  <2>1. PICK e \in outbox :
          topic' = [topic EXCEPT ![PartitionOf[e.key]] = Append(topic[PartitionOf[e.key]], e)]
    BY <1>1 DEF RelaySend
  <2>2. outbox' = outbox /\ UNCHANGED <<audit, pos>>
    BY <1>1 DEF RelaySend, vars, auditVars
  <2> QED
    BY <2>1, <2>2, TopicGrows
<1>2. ASSUME NEW p \in Partitions, ProjectorSkip(p) \/ ProjectorMark(p)
      PROVE  pos'["audit"] = pos["audit"] /\ UNCHANGED <<outbox, topic, audit>>
  <2>1. Handled("projector", p)
    BY <1>2 DEF ProjectorSkip, ProjectorMark
  <2>2. pos' = [pos EXCEPT !["projector"] = [pos["projector"] EXCEPT ![p] = pos["projector"][p] + 1]]
    BY <1>t, <2>1 DEF Handled
  <2>3. pos'["audit"] = pos["audit"]
    BY <1>t, <2>2
  <2> QED
    BY <1>2, <2>3 DEF ProjectorSkip, ProjectorMark, vars, auditVars
<1>3. ASSUME (\E g \in Groups : ConsumerFail(g)) \/ Outage
      PROVE  /\ \A p \in Partitions : pos'["audit"][p] <= pos["audit"][p]
             /\ UNCHANGED <<outbox, topic, audit>>
  <2>1. UNCHANGED <<outbox, topic, audit>>
    BY <1>3 DEF ConsumerFail, Outage, vars, auditVars
  <2> QED
    BY <1>t, <1>3, <2>1, Restarts
<1>4. CASE \E r \in Relays : RelaySend(r)
  BY <1>1, <1>4, <1>t
<1>5. CASE \E p \in Partitions : ProjectorSkip(p) \/ ProjectorMark(p)
  BY <1>2, <1>5, <1>t
<1>6. CASE (\E g \in Groups : ConsumerFail(g)) \/ Outage
  BY <1>3, <1>6
<1>7. CASE \E p \in Partitions : AuditAppend(p)
  <2>1. UNCHANGED <<outbox, topic>>
    BY <1>7 DEF AuditAppend, vars
  <2> QED
    BY <1>7, <2>1
<1>8. CASE \/ UNCHANGED allVars
           \/ \E r \in Relays : RelayTake(r) \/ RelayDone(r) \/ RelayFail(r)
           \/ \E p \in Partitions : ProjectorApply(p)
           \/ MarkExpires
           \/ SyncRead \/ SyncMerge \/ RepairRead \/ RepairDelete \/ RepairFail
  <2>1. UNCHANGED <<outbox, topic, audit, pos>>
    BY <1>8 DEF allVars, RelayTake, RelayDone, RelayFail, ProjectorApply, MarkExpires, SyncRead,
       SyncMerge, RepairRead, RepairDelete, RepairFail, vars, auditVars
  <2>2. \A p \in Partitions : pos["audit"][p] <= pos["audit"][p]
    BY <1>t
  <2> QED
    BY <2>1, <2>2
<1> QED
  BY <1>4, <1>5, <1>6, <1>7, <1>8 DEF ProjNext

LEMMA RecordedStep ==
  ASSUME Ledger, Types, Order, Recorded, [ProjNext]_allVars
  PROVE  Recorded'
<1>1. CASE Write
  BY <1>1, RecordedWrite
<1>2. CASE \E p \in Partitions : AuditAppend(p)
  BY <1>2, RecordedAppend
<1>3. CASE ~Write /\ \A p \in Partitions : ~AuditAppend(p)
  <2>1. pos' \in [Groups -> [Partitions -> Nat]]
    BY TypesStep DEF Types
  <2> QED
    BY <1>3, <2>1, Frame, RecordedKept
<1> QED
  BY <1>1, <1>2, <1>3

LEMMA HistoryFollows ==
  ASSUME Ledger, Types, Order, Recorded
  PROVE  AuditIsHistory
<1>1. /\ Len(audit) \in Nat /\ DOMAIN audit = 1..Len(audit)
      /\ \A i \in 1..Len(audit) : audit[i] \in outbox
  BY LenProperties DEF Types
<1>2. \A f \in outbox : f.seq \in Nat /\ PartitionOf[f.key] \in Partitions
  BY SeqsAssumption, PartitionAssumption DEF Ledger, Events
<1>3. ASSUME NEW i \in 1..Len(audit), NEW j \in 1..Len(audit), i < j
      PROVE  /\ audit[i].seq # audit[j].seq
             /\ audit[i].key = audit[j].key => audit[i].seq < audit[j].seq
  <2>1. audit[i].seq # audit[j].seq
    BY <1>1, <1>3 DEF Recorded
  <2>2. ASSUME audit[i].key = audit[j].key, ~(audit[i].seq < audit[j].seq) PROVE FALSE
    <3>1. audit[i].seq \in Nat /\ audit[j].seq \in Nat
      BY <1>1, <1>2
    <3>2. Before(audit[j], audit[i])
      BY <2>1, <2>2, <3>1 DEF Before
    <3>3. Audited(audit[j], i - 1)
      BY <1>1, <3>2 DEF Recorded
    <3>4. PICK k \in 1..i - 1 : audit[k] = audit[j]
      BY <3>3 DEF Audited
    <3>5. k \in 1..Len(audit) /\ k < i
      BY <1>1
    <3>6. k = j
      BY <3>4, <3>5 DEF Recorded
    <3> QED
      BY <1>3, <3>5, <3>6
  <2> QED
    BY <2>1, <2>2
<1>4. ASSUME IsDrained("audit"), NEW e \in outbox PROVE IsAudited(e)
  <2> DEFINE p == PartitionOf[e.key]
  <2>1. published = Numbers /\ \A q \in Partitions : pos["audit"][q] = Len(topic[q])
    BY <1>4 DEF IsDrained
  <2>2. e.seq \in Out
    BY <2>1 DEF Numbers, Out
  <2>3. PICK i \in 1..Len(topic[p]) : topic[p][i] = e
    BY <2>2 DEF Order, OnTopic
  <2>4. i \in 1..pos["audit"][p] /\ p \in Partitions
    BY <1>2, <2>1
  <2>5. Audited(e, Len(audit))
    BY <2>3, <2>4 DEF Recorded
  <2> QED
    BY <1>1, <2>5 DEF IsAudited, Audited
<1> QED
  BY <1>1, <1>3, <1>4 DEF AuditIsHistory

LEMMA InitOrder == ASSUME ProjInit PROVE Batches /\ Order /\ Recorded /\ Passed
<1>1. /\ outbox = {} /\ published = {} /\ expired = {}
      /\ batch = [r \in Relays |-> {}] /\ sent = [r \in Relays |-> {}]
      /\ topic = [p \in Partitions |-> <<>>] /\ audit = <<>> /\ marks = <<>>
      /\ \A g \in Groups, p \in Partitions : pos[g][p] = 0
  BY DEF ProjInit, Init
<1>2. Len(<<>>) = 0 /\ "audit" \in Groups /\ "projector" \in Groups
  BY EmptySeq DEF Groups
<1>3. \A p \in Partitions : 1..Len(topic[p]) = {} /\ 1..pos["audit"][p] = {}
                            /\ 1..pos["projector"][p] = {}
  BY <1>1, <1>2
<1>4. 1..Len(audit) = {}
  BY <1>1, <1>2
<1> QED
  BY <1>1, <1>3, <1>4 DEF Batches, Order, Recorded, Passed

(* With one relay, audit_log holds every event of a grant once, in order,  *)
(* and all of them once its consumer has caught up: ON CONFLICT (outbox_id)*)
(* DO NOTHING undoes what the topic delivers twice, and the relay's order  *)
(* does the rest.                                                          *)
THEOREM HistoryTheorem == OneRelay /\ ProjSpec => []AuditIsHistory
<1> DEFINE Inv == OneRelay /\ Ledger /\ Types /\ Batches /\ Order /\ Recorded
<1>1. OneRelay /\ ProjInit => Inv
  BY InitOK, InitOrder
<1>2. Inv /\ [ProjNext]_allVars => Inv'
  <2>1. OneRelay => OneRelay'
    BY DEF OneRelay
  <2> QED
    BY <2>1, LedgerStep, TypesStep, OrderStep, RecordedStep
<1>3. Inv => AuditIsHistory
  BY HistoryFollows
<1> QED
  BY <1>1, <1>2, <1>3, PTL DEF ProjSpec

-----------------------------------------------------------------------------
LEMMA FrameProjector ==
  ASSUME Ledger, Types, [ProjNext]_allVars, ~Write, ~MarkExpires,
         \A p \in Partitions : ~ProjectorSkip(p) /\ ~ProjectorMark(p)
  PROVE  UNCHANGED <<marks, expired>> /\ \A p \in Partitions : pos'["projector"][p] <= pos["projector"][p]
<1>t. /\ pos \in [Groups -> [Partitions -> Nat]]
      /\ "audit" \in Groups /\ "projector" \in Groups
  BY DEF Types, Groups
<1>0. \A p \in Partitions : pos["projector"][p] <= pos["projector"][p]
  BY <1>t
<1>1. CASE \E p \in Partitions : AuditAppend(p)
  <2>1. PICK p \in Partitions : AuditAppend(p)
    BY <1>1
  <2>2. Handled("audit", p) /\ UNCHANGED <<marks, expired>>
    BY <2>1 DEF AuditAppend, graphVars, pastVars
  <2>3. pos' = [pos EXCEPT !["audit"] = [pos["audit"] EXCEPT ![p] = pos["audit"][p] + 1]]
    BY <1>t, <2>2 DEF Handled
  <2>4. pos'["projector"] = pos["projector"]
    BY <1>t, <2>3
  <2> QED
    BY <1>0, <2>2, <2>4
<1>2. CASE (\E g \in Groups : ConsumerFail(g)) \/ Outage
  <2>1. UNCHANGED <<marks, expired>>
    BY <1>2 DEF ConsumerFail, Outage, pastVars
  <2> QED
    BY <1>t, <1>2, <2>1, Restarts
<1>3. CASE \/ UNCHANGED allVars
           \/ \E r \in Relays : RelayTake(r) \/ RelaySend(r) \/ RelayDone(r) \/ RelayFail(r)
           \/ \E p \in Partitions : ProjectorApply(p)
           \/ SyncRead \/ SyncMerge \/ RepairRead \/ RepairDelete \/ RepairFail
  <2>1. UNCHANGED <<marks, expired, pos>>
    BY <1>3 DEF allVars, RelayTake, RelaySend, RelayDone, RelayFail, ProjectorApply, SyncRead,
       SyncMerge, RepairRead, RepairDelete, RepairFail, graphVars, pastVars
  <2> QED
    BY <1>0, <2>1
<1> QED
  BY <1>1, <1>2, <1>3 DEF ProjNext

(* The projector goes on, if at all, past what is or was marked. *)
LEMMA PassedKept ==
  ASSUME Types, Passed, outbox' = outbox, Ever' = Ever,
         \A p \in Partitions : \A i \in 1..Len(topic[p]) : topic'[p][i] = topic[p][i],
         pos' \in [Groups -> [Partitions -> Nat]],
         \A p \in Partitions :
           \/ pos'["projector"][p] <= pos["projector"][p]
           \/ /\ pos'["projector"][p] = pos["projector"][p] + 1
              /\ pos["projector"][p] < Len(topic[p])
              /\ Message("projector", p).seq \in Ever
  PROVE  Passed'
<1>1. ASSUME NEW p \in Partitions, NEW i \in 1..pos'["projector"][p]
      PROVE  topic'[p][i].seq \in Ever
  <2>1. "projector" \in Groups
    BY DEF Groups
  <2>2. /\ pos["projector"][p] \in Nat /\ pos'["projector"][p] \in Nat /\ Len(topic[p]) \in Nat
        /\ pos["projector"][p] <= Len(topic[p])
    BY <2>1, LenProperties DEF Types
  <2>3. CASE i \in 1..pos["projector"][p]
    <3>1. i \in 1..Len(topic[p])
      BY <2>2, <2>3
    <3> QED
      BY <2>3, <3>1 DEF Passed
  <2>4. CASE i \notin 1..pos["projector"][p]
    <3>1. /\ i = pos["projector"][p] + 1 /\ i \in 1..Len(topic[p])
          /\ Message("projector", p).seq \in Ever
      BY <2>2, <2>4
    <3> QED
      BY <3>1 DEF Message
  <2> QED
    BY <2>3, <2>4
<1> QED
  BY <1>1 DEF Passed, Before

LEMMA PassedWrite == ASSUME Ledger, Types, Passed, Write PROVE Passed'
<1>1. PICK e \in Events :
        /\ outbox' = outbox \cup {e} /\ e.seq \notin Numbers
        /\ \A f \in outbox : f.key = e.key => f.seq < e.seq
  BY WriteEffect
<1>2. UNCHANGED <<topic, pos, marks, expired>>
  BY WriteEffect DEF graphVars, pastVars
<1>3. \A f \in outbox : ~Before(e, f)
  BY <1>1, NothingAfter
<1>4. Numbers \subseteq Numbers'
  BY <1>1 DEF Numbers
<1>5. \A i \in 1..Len(marks) : marks[i] \in Numbers
  BY MarksType, ElementOfSeq DEF Types
<1>6. Ever' = Ever /\ Ever \subseteq Numbers
  BY <1>2, <1>4, <1>5 DEF Ever, Types
<1>7. \A f, g \in outbox' : Before(f, g) /\ g.seq \in Ever => f.seq \in Ever
  <2> SUFFICES ASSUME NEW f \in outbox', NEW g \in outbox', Before(f, g), g.seq \in Ever
               PROVE  f.seq \in Ever
    OBVIOUS
  <2>1. g \in outbox
    BY <1>1, <1>6
  <2>2. f \in outbox
    BY <1>1, <1>3, <2>1
  <2> QED
    BY <2>1, <2>2 DEF Passed
<1>8. \A p \in Partitions : \A i \in 1..pos'["projector"][p] : topic'[p][i].seq \in Ever
  BY <1>2 DEF Passed
<1> QED
  BY <1>6, <1>7, <1>8 DEF Passed, Before

(* The event in hand is marked: those of its grant that came before it are *)
(* ahead of it in its partition, where the projector has been.             *)
LEMMA PassedMark ==
  ASSUME Ledger, Types, Order, Passed, NEW p \in Partitions, ProjectorMark(p)
  PROVE  Passed' /\ \E e \in outbox : e = Message("projector", p) /\ Ever' = Ever \cup {e.seq}
<1>g. "projector" \in Groups
  BY DEF Groups
<1>n. PICK n : n = pos["projector"][p]
  OBVIOUS
<1>e. PICK e : e = Message("projector", p)
  OBVIOUS
<1>1. /\ marks' = Append(marks, e.seq) /\ Handled("projector", p)
      /\ UNCHANGED <<outbox, topic, expired>>
  BY <1>e DEF ProjectorMark, vars, pastVars
<1>2. n < Len(topic[p])
  BY <1>n DEF ProjectorMark, Types, Nothing
<1>3. /\ pos' \in [Groups -> [Partitions -> Nat]]
      /\ pos'["projector"][p] = n + 1 /\ n + 1 \in 1..Len(topic[p])
      /\ \A q \in Partitions : q # p => pos'["projector"][q] = pos["projector"][q]
      /\ e \in outbox /\ e = topic[p][n + 1]
  BY <1>g, <1>e, <1>n, <1>1, <1>2, HandledType
<1>4. n \in Nat /\ \A q \in Partitions : pos["projector"][q] \in Nat
  BY <1>g, <1>n DEF Types
<1>5. Ever' = Ever \cup {e.seq}
  <2>1. e.seq \in Numbers /\ Numbers' = Numbers
    BY <1>1, <1>3 DEF Numbers
  <2>2. /\ Len(marks) \in Nat /\ Len(marks') = Len(marks) + 1 /\ marks'[Len(marks) + 1] = e.seq
        /\ \A i \in 1..Len(marks) : marks'[i] = marks[i]
    BY <1>1, <2>1, MarksType
  <2>3. \A m : (\E i \in 1..Len(marks') : marks'[i] = m)
                 <=> m = e.seq \/ \E i \in 1..Len(marks) : marks[i] = m
    BY <2>2
  <2> QED
    BY <1>1, <2>1, <2>3 DEF Ever
<1>6. ASSUME NEW f \in outbox, Before(f, e) PROVE f.seq \in Ever
  <2>1. OnTopic(f, 1, n + 1 - 1)
    BY <1>3, <1>4, <1>6 DEF Order
  <2>2. n + 1 - 1 = n /\ PartitionOf[f.key] = p
    BY <1>3, <1>4, <1>6 DEF Before, Types
  <2>3. PICK i \in 1..n : topic[p][i] = f
    BY <2>1, <2>2 DEF OnTopic
  <2> QED
    BY <1>n, <2>3 DEF Passed
<1>7. \A f, g \in outbox : Before(f, g) /\ g.seq \in Ever \cup {e.seq} => f.seq \in Ever
  <2> SUFFICES ASSUME NEW f \in outbox, NEW g \in outbox, Before(f, g), g.seq \in Ever \cup {e.seq}
               PROVE  f.seq \in Ever
    OBVIOUS
  <2>1. CASE g.seq = e.seq
    BY <1>3, <1>6, <2>1 DEF Ledger
  <2>2. CASE g.seq \in Ever
    BY <2>2 DEF Passed
  <2> QED
    BY <2>1, <2>2
<1>8. ASSUME NEW q \in Partitions, NEW i \in 1..pos'["projector"][q]
      PROVE  topic[q][i].seq \in Ever \cup {e.seq}
  <2>1. CASE q = p /\ i = n + 1
    BY <1>3, <2>1
  <2>2. CASE ~(q = p /\ i = n + 1)
    <3>1. i \in 1..pos["projector"][q]
      BY <1>n, <1>3, <1>4, <2>2
    <3> QED
      BY <3>1 DEF Passed
  <2> QED
    BY <2>1, <2>2
<1>9. \A f, g : Before(f, g)' <=> Before(f, g)
  BY DEF Before
<1> QED
  BY <1>e, <1>1, <1>3, <1>5, <1>7, <1>8, <1>9 DEF Passed

LEMMA EverExpires == ASSUME Types, MarkExpires PROVE Ever' = Ever
<1>1. /\ marks # <<>> /\ marks' = Tail(marks) /\ expired' = expired \cup {Head(marks)}
      /\ outbox' = outbox
  BY DEF MarkExpires, vars
<1>2. /\ Len(marks) \in Nat /\ Len(marks) >= 1 /\ Len(marks') = Len(marks) - 1
      /\ Head(marks) = marks[1] /\ Head(marks) \in Numbers
      /\ \A i \in 1..Len(marks') : marks'[i] = marks[i + 1]
  BY <1>1, MarksType
<1>3. Numbers' = Numbers
  BY <1>1 DEF Numbers
<1>4. ASSUME NEW m
      PROVE  (\E i \in 1..Len(marks) : marks[i] = m)
               <=> m = Head(marks) \/ \E i \in 1..Len(marks') : marks'[i] = m
  <2>1. ASSUME NEW i \in 1..Len(marks), marks[i] = m, m # Head(marks)
        PROVE  \E j \in 1..Len(marks') : marks'[j] = m
    <3>1. i - 1 \in 1..Len(marks') /\ i - 1 + 1 = i
      BY <1>2, <2>1
    <3>2. marks'[i - 1] = marks[i]
      BY <1>2, <3>1
    <3> QED
      BY <2>1, <3>1, <3>2
  <2>2. ASSUME NEW i \in 1..Len(marks'), marks'[i] = m
        PROVE  \E j \in 1..Len(marks) : marks[j] = m
    <3>1. i + 1 \in 1..Len(marks)
      BY <1>2
    <3> QED
      BY <1>2, <2>2, <3>1
  <2>3. 1 \in 1..Len(marks)
    BY <1>2
  <2> QED
    BY <1>2, <2>1, <2>2, <2>3
<1> QED
  BY <1>1, <1>2, <1>3, <1>4 DEF Ever

LEMMA PassedStep ==
  ASSUME Ledger, Types, Order, Passed, [ProjNext]_allVars
  PROVE  Passed'
<1>t. /\ pos' \in [Groups -> [Partitions -> Nat]] /\ pos \in [Groups -> [Partitions -> Nat]]
      /\ "projector" \in Groups
  BY TypesStep DEF Types, Groups
<1>1. CASE Write
  BY <1>1, PassedWrite
<1>2. CASE \E p \in Partitions : ProjectorMark(p)
  BY <1>2, PassedMark
<1>3. ASSUME NEW p \in Partitions, ProjectorSkip(p) PROVE Passed'
  <2>1. /\ HasNext("projector", p) /\ Handled("projector", p) /\ IsMarked(Message("projector", p))
        /\ UNCHANGED <<outbox, topic, marks, expired>>
    BY <1>3 DEF ProjectorSkip, vars, graphVars, pastVars
  <2>2. pos["projector"][p] < Len(topic[p])
    BY <2>1 DEF HasNext
  <2>3. /\ pos'["projector"][p] = pos["projector"][p] + 1
        /\ \A q \in Partitions : q # p => pos'["projector"][q] = pos["projector"][q]
        /\ Message("projector", p) \in outbox
    BY <1>t, <2>1, <2>2, HandledType
  <2>4. Message("projector", p).seq \in Ever
    BY <2>1, <2>3, MarksType DEF IsMarked, Ever, Numbers
  <2>5. \A q \in Partitions : q # p => pos'["projector"][q] <= pos["projector"][q]
    BY <1>t, <2>3
  <2>6. Ever' = Ever
    BY <2>1 DEF Ever, Numbers
  <2> QED
    BY <1>t, <2>1, <2>2, <2>3, <2>4, <2>5, <2>6, PassedKept
<1>4. CASE MarkExpires
  <2>1. UNCHANGED <<outbox, topic, pos>>
    BY <1>4 DEF MarkExpires, vars
  <2>2. \A p \in Partitions : pos["projector"][p] <= pos["projector"][p]
    BY <1>t
  <2> QED
    BY <1>t, <1>4, <2>1, <2>2, EverExpires, PassedKept
<1>5. CASE ~Write /\ ~MarkExpires /\ \A p \in Partitions : ~ProjectorSkip(p) /\ ~ProjectorMark(p)
  <2>1. Ever' = Ever
    BY <1>5, Frame, FrameProjector DEF Ever, Numbers
  <2> QED
    BY <1>t, <1>5, <2>1, Frame, FrameProjector, PassedKept
<1> QED
  BY <1>1, <1>2, <1>3, <1>4, <1>5

-----------------------------------------------------------------------------
(* An event is waiting when it is still to be sent or ahead on the topic.  *)
WaitingMeans ==
  \A e \in outbox :
    Waiting(e) <=> ~IsMarked(e) /\ ~InHand(e) /\ (e.seq \notin Out \/ Ahead(e))

LEMMA WaitingIs == Ledger /\ Types => WaitingMeans
<1> SUFFICES ASSUME Ledger, Types, NEW e \in outbox
             PROVE  Waiting(e) <=> ~IsMarked(e) /\ ~InHand(e) /\ (e.seq \notin Out \/ Ahead(e))
  BY DEF WaitingMeans
<1> DEFINE p == PartitionOf[e.key]
<1>1. p \in Partitions
  BY PartitionAssumption DEF Ledger, Events
<1>2. DOMAIN topic[p] = 1..Len(topic[p])
  BY <1>1, LenProperties DEF Types
<1>3. \A i \in 1..Len(topic[p]) : topic[p][i].seq = e.seq <=> topic[p][i] = e
  BY <1>1 DEF Types, Ledger
<1>4. (\E i \in DOMAIN topic[p] : i > pos["projector"][p] /\ topic[p][i].seq = e.seq) <=> Ahead(e)
  BY <1>2, <1>3 DEF Ahead
<1> QED
  BY <1>4 DEF Waiting, IsPending, Out

(* An event that was waiting still is, if it is neither marked nor taken   *)
(* in hand, and what was ahead still is.                                   *)
LEMMA WaitingKept ==
  ASSUME Ledger, Types, Ledger', Types', NEW e \in outbox, e \in outbox', Waiting(e),
         ~IsMarked(e)', ~InHand(e)',
         e.seq \notin Out => e.seq \notin Out' \/ Ahead(e)',
         Ahead(e) => Ahead(e)'
  PROVE  Waiting(e)'
<1>1. (Ledger /\ Types => WaitingMeans)'
  BY WaitingIs, PTL
<1>2. e.seq \notin Out \/ Ahead(e)
  BY WaitingIs DEF WaitingMeans
<1>3. e.seq \notin Out' \/ Ahead(e)'
  BY <1>2
<1> QED
  BY <1>1, <1>3 DEF WaitingMeans

(* What is ahead stays ahead while the topic grows and the projector does  *)
(* not go past it.                                                         *)
LEMMA AheadKept ==
  ASSUME Ledger, Types, Types', NEW e \in outbox, Ahead(e),
         \A p \in Partitions :
           /\ Len(topic[p]) <= Len(topic'[p])
           /\ \A i \in 1..Len(topic[p]) : topic'[p][i] = topic[p][i],
         \A p \in Partitions :
           \/ pos'["projector"][p] <= pos["projector"][p]
           \/ /\ pos'["projector"][p] = pos["projector"][p] + 1
              /\ pos["projector"][p] < Len(topic[p])
              /\ Message("projector", p) # e
  PROVE  Ahead(e)'
<1> DEFINE p == PartitionOf[e.key]
<1>1. p \in Partitions
  BY PartitionAssumption DEF Ledger, Events
<1>2. /\ pos["projector"][p] \in Nat /\ pos'["projector"][p] \in Nat
      /\ Len(topic[p]) \in Nat /\ Len(topic'[p]) \in Nat
  BY <1>1, LenProperties DEF Types, Groups
<1>3. PICK i \in 1..Len(topic[p]) : i > pos["projector"][p] /\ topic[p][i] = e
  BY DEF Ahead
<1>4. i \in 1..Len(topic'[p]) /\ topic'[p][i] = e
  BY <1>1, <1>2, <1>3
<1>5. i > pos'["projector"][p]
  <2>1. CASE pos'["projector"][p] <= pos["projector"][p]
    BY <1>2, <1>3, <2>1
  <2>2. CASE /\ pos'["projector"][p] = pos["projector"][p] + 1
             /\ Message("projector", p) # e
    <3>1. i # pos["projector"][p] + 1
      BY <1>3, <2>2 DEF Message
    <3> QED
      BY <1>2, <1>3, <2>2, <3>1
  <2> QED
    BY <1>1, <2>1, <2>2
<1> QED
  BY <1>4, <1>5 DEF Ahead

LEMMA InHandKept ==
  ASSUME Types, NEW e, doing' = doing, pos'["projector"] = pos["projector"],
         \A p \in Partitions : \A i \in 1..Len(topic[p]) : topic'[p][i] = topic[p][i]
  PROVE  InHand(e)' <=> InHand(e)
<1>1. CASE doing = Nothing
  BY <1>1 DEF InHand, Nothing
<1>2. ASSUME NEW p \in Partitions, doing = [partition |-> p, stage |-> "applied"],
             pos["projector"][p] < Len(topic[p])
      PROVE  InHand(e)' <=> InHand(e)
  <2>1. pos["projector"][p] \in Nat /\ Len(topic[p]) \in Nat
    BY LenProperties DEF Types, Groups
  <2>2. pos["projector"][p] + 1 \in 1..Len(topic[p])
    BY <1>2, <2>1
  <2>3. Message("projector", p)' = Message("projector", p)
    BY <2>2 DEF Message
  <2>4. doing.partition = p /\ doing'.partition = p
    BY <1>2
  <2> QED
    BY <1>2, <2>3, <2>4 DEF InHand
<1> QED
  BY <1>1, <1>2 DEF Types

(* The graph is as it was, and what was waiting still is. *)
LEMMA GraphKept ==
  ASSUME Graph, UNCHANGED <<vars, neo, boot, copy, lapsed>>,
         \A e \in outbox : Waiting(e) => Waiting(e)'
  PROVE  Graph'
<1>1. outbox' = outbox /\ Table' = Table /\ View' = View
  BY DEF vars, Table, View
<1>2. \A k : Follows(k) => Follows(k)'
  BY <1>1 DEF Follows
<1> QED
  BY <1>1, <1>2 DEF Graph

(* A write: its event is still to be sent, and it concerns no other grant. *)
LEMMA GraphWrite == ASSUME Ledger, Types, Graph, Write PROVE Graph'
<1>1. PICK e \in Events :
        /\ outbox' = outbox \cup {e} /\ e.seq \notin Numbers
        /\ \A k \in Keys : k # e.key => (k \in Table' <=> k \in Table)
  BY WriteEffect
<1>2. UNCHANGED <<published, batch, sent, topic, pos, marks, doing, neo, boot, copy, expired, lapsed>>
  BY WriteEffect DEF relayVars, graphVars, bootVars, pastVars
<1>3. Ledger' /\ Types'
  BY WriteEffect, TypesWrite
<1>4. View' = View /\ Out' = Out
  BY <1>2 DEF View, Out
<1>5. \A f : (IsMarked(f)' <=> IsMarked(f)) /\ (InHand(f)' <=> InHand(f)) /\ (Ahead(f)' <=> Ahead(f))
  BY <1>2 DEF IsMarked, InHand, Message, Ahead
<1>6. ASSUME NEW f \in outbox, Waiting(f) PROVE Waiting(f)'
  BY <1>1, <1>3, <1>4, <1>5, <1>6, WaitingKept, WaitingIs DEF WaitingMeans
<1>7. Waiting(e)'
  <2>1. ~IsMarked(e)
    BY <1>1, MarksType, ElementOfSeq DEF IsMarked, Types
  <2>2. e.seq \notin Out
    BY <1>1 DEF Out, Types
  <2>3. ~InHand(e)
    <3>1. \A p \in Partitions : pos["projector"][p] < Len(topic[p]) => Message("projector", p) # e
      <4> SUFFICES ASSUME NEW p \in Partitions, pos["projector"][p] < Len(topic[p])
                   PROVE  Message("projector", p) # e
        OBVIOUS
      <4>1. pos["projector"][p] \in Nat /\ Len(topic[p]) \in Nat
        BY LenProperties DEF Types, Groups
      <4>2. pos["projector"][p] + 1 \in 1..Len(topic[p])
        BY <4>1
      <4>3. Message("projector", p) \in outbox
        BY <4>2 DEF Types, Message
      <4> QED
        BY <1>1, <4>3 DEF Numbers
    <3> QED
      BY <3>1 DEF Types, InHand, Nothing
  <2>4. (Ledger /\ Types => WaitingMeans)'
    BY WaitingIs, PTL
  <2> QED
    BY <1>1, <1>3, <1>4, <1>5, <2>1, <2>2, <2>3, <2>4 DEF WaitingMeans
<1>8. ASSUME NEW k \in Keys, Follows(k) PROVE Follows(k)'
  <2>1. CASE k = e.key
    BY <1>1, <1>7, <2>1 DEF Follows
  <2>2. CASE k # e.key
    <3>1. k \in View' <=> k \in View
      BY <1>4
    <3> QED
      BY <1>1, <1>6, <1>8, <2>2, <3>1 DEF Follows
  <2> QED
    BY <2>1, <2>2
<1> QED
  BY <1>2, <1>8 DEF Graph

(* The relay: what goes out is ahead of the projector. *)
LEMMA GraphRelay ==
  ASSUME OneRelay, Ledger, Types, Graph, NEW r \in Relays,
         RelayTake(r) \/ RelaySend(r) \/ RelayDone(r) \/ RelayFail(r)
  PROVE  Graph'
<1>1. UNCHANGED <<vars, pos, marks, doing, neo, boot, copy, lapsed>>
  BY DEF RelayTake, RelaySend, RelayDone, RelayFail, graphVars, bootVars, pastVars
<1>2. Ledger' /\ Types' /\ outbox' = outbox
  BY <1>1, LedgerSame, TypesRelay DEF vars
<1>t. /\ pos \in [Groups -> [Partitions -> Nat]] /\ sent \in [Relays -> SUBSET Numbers]
      /\ \A p \in Partitions : pos["projector"][p] \in Nat /\ pos["projector"][p] <= Len(topic[p])
                               /\ Len(topic[p]) \in Nat
  BY LenProperties DEF Types, Groups
<1>o. Out' = published' \cup sent'[r] /\ Out = published \cup sent[r]
  BY DEF OneRelay, Out
<1>3. /\ \A p \in Partitions :
           /\ Len(topic[p]) <= Len(topic'[p])
           /\ \A i \in 1..Len(topic[p]) : topic'[p][i] = topic[p][i]
      /\ \A e \in outbox : e.seq \notin Out => e.seq \notin Out' \/ Ahead(e)'
  <2>1. CASE RelayTake(r) \/ RelayDone(r) \/ RelayFail(r)
    <3>1. topic' = topic
      BY <2>1 DEF RelayTake, RelayDone, RelayFail
    <3>2. published' \cup sent'[r] \subseteq published \cup sent[r]
      BY <1>t, <2>1 DEF RelayTake, RelayDone, RelayFail
    <3> QED
      BY <1>t, <1>o, <3>1, <3>2
  <2>2. CASE RelaySend(r)
    <3>1. PICK e \in outbox :
            /\ topic' = [topic EXCEPT ![PartitionOf[e.key]] = Append(topic[PartitionOf[e.key]], e)]
            /\ sent' = [sent EXCEPT ![r] = sent[r] \cup {e.seq}]
            /\ UNCHANGED published
      BY <2>2 DEF RelaySend
    <3>2. sent'[r] = sent[r] \cup {e.seq}
      BY <1>t, <3>1
    <3>3. /\ PartitionOf[e.key] \in Partitions
          /\ \A p \in Partitions :
               /\ Len(topic'[p]) = IF p = PartitionOf[e.key] THEN Len(topic[p]) + 1 ELSE Len(topic[p])
               /\ \A i \in 1..Len(topic[p]) : topic'[p][i] = topic[p][i]
          /\ topic'[PartitionOf[e.key]][Len(topic[PartitionOf[e.key]]) + 1] = e
      BY <3>1, TopicGrows
    <3>4. Len(topic[PartitionOf[e.key]]) + 1 \in 1..Len(topic'[PartitionOf[e.key]])
      BY <1>t, <3>3
    <3>5. Len(topic[PartitionOf[e.key]]) + 1 > pos'["projector"][PartitionOf[e.key]]
      BY <1>1, <1>t, <3>3
    <3>6. Ahead(e)'
      BY <3>3, <3>4, <3>5 DEF Ahead
    <3>7. \A f \in outbox : f.seq = e.seq => f = e
      BY DEF Ledger
    <3>8. \A p \in Partitions : Len(topic[p]) <= Len(topic'[p])
      BY <1>t, <3>3
    <3> QED
      BY <1>o, <3>1, <3>2, <3>3, <3>6, <3>7, <3>8
  <2> QED
    BY <2>1, <2>2
<1>4. ASSUME NEW e \in outbox, Waiting(e) PROVE Waiting(e)'
  <2>1. ~IsMarked(e)'
    BY <1>1, <1>4 DEF IsMarked, Waiting, IsPending
  <2>2. ~InHand(e)'
    BY <1>1, <1>3, <1>4, InHandKept DEF Waiting
  <2>3. Ahead(e) => Ahead(e)'
    BY <1>1, <1>2, <1>3, <1>t, AheadKept, SMTT(30)
  <2> QED
    BY <1>2, <1>3, <1>4, <2>1, <2>2, <2>3, WaitingKept
<1> QED
  BY <1>1, <1>4, GraphKept

(* The projector goes past an event only when it is marked, or was in hand *)
(* and is being marked; it may also lose marks, or start again.            *)
LEMMA GraphConsumer ==
  ASSUME Ledger, Types, Graph,
         \/ \E p \in Partitions : AuditAppend(p) \/ ProjectorSkip(p) \/ ProjectorMark(p)
         \/ MarkExpires \/ \E g \in Groups : ConsumerFail(g)
  PROVE  Graph'
<1>1. UNCHANGED <<vars, topic, published, sent, neo, boot, copy, lapsed>>
  BY DEF AuditAppend, ProjectorSkip, ProjectorMark, MarkExpires, ConsumerFail, relayVars, graphVars,
         bootVars, pastVars
<1>2. Ledger' /\ Types' /\ outbox' = outbox /\ Out' = Out
  <2>1. Out' = Out
    BY <1>1 DEF Out
  <2> QED
    BY <1>1, <2>1, LedgerSame, TypesConsumer, TypesSystem DEF vars
<1>t. /\ pos \in [Groups -> [Partitions -> Nat]] /\ "audit" \in Groups /\ "projector" \in Groups
      /\ \A p \in Partitions : Len(topic[p]) \in Nat
      /\ \A p \in Partitions : pos["projector"][p] <= pos["projector"][p]
      /\ \A p \in Partitions : Len(topic[p]) <= Len(topic[p])
  BY LenProperties DEF Types, Groups
<1>3. ASSUME NEW e \in outbox, Waiting(e), ~IsMarked(e)', ~InHand(e)',
             \A p \in Partitions :
               \/ pos'["projector"][p] <= pos["projector"][p]
               \/ /\ pos'["projector"][p] = pos["projector"][p] + 1
                  /\ pos["projector"][p] < Len(topic[p])
                  /\ Message("projector", p) # e
      PROVE  Waiting(e)'
  <2>1. Ahead(e) => Ahead(e)'
    BY <1>1, <1>2, <1>3, <1>t, AheadKept
  <2> QED
    BY <1>2, <1>3, <2>1, WaitingKept
<1>4. \A e \in outbox : Waiting(e) => ~IsMarked(e) /\ ~InHand(e)
  BY DEF Waiting, IsPending
<1>5. ASSUME NEW p \in Partitions, AuditAppend(p), NEW e \in outbox, Waiting(e)
      PROVE  Waiting(e)'
  <2>1. Handled("audit", p) /\ UNCHANGED <<marks, doing>>
    BY <1>5 DEF AuditAppend, graphVars
  <2>2. pos' = [pos EXCEPT !["audit"] = [pos["audit"] EXCEPT ![p] = pos["audit"][p] + 1]]
    BY <1>t, <2>1 DEF Handled
  <2>3. pos'["projector"] = pos["projector"]
    BY <1>t, <2>2
  <2>4. ~IsMarked(e)' /\ ~InHand(e)'
    BY <1>1, <1>4, <1>5, <2>1, <2>3, InHandKept DEF IsMarked
  <2> QED
    BY <1>3, <1>5, <1>t, <2>3, <2>4
<1>6. ASSUME NEW p \in Partitions, ProjectorSkip(p) \/ ProjectorMark(p),
             NEW e \in outbox, Waiting(e)
      PROVE  Waiting(e)'
  <2>1. /\ Handled("projector", p) /\ doing' = Nothing
        /\ \/ IsMarked(Message("projector", p)) /\ marks' = marks
           \/ InHand(Message("projector", p)) /\ marks' = Append(marks, Message("projector", p).seq)
    BY <1>6 DEF ProjectorSkip, ProjectorMark, InHand, graphVars
  <2>2. pos["projector"][p] < Len(topic[p])
    BY <1>6 DEF ProjectorSkip, ProjectorMark, HasNext, Types, Nothing
  <2>3. /\ pos'["projector"][p] = pos["projector"][p] + 1
        /\ \A q \in Partitions : q # p => pos'["projector"][q] = pos["projector"][q]
        /\ Message("projector", p) \in outbox
    BY <1>t, <2>1, <2>2, HandledType
  <2>4. Message("projector", p) # e
    BY <1>4, <1>6, <2>1
  <2>5. Message("projector", p).seq # e.seq
    BY <2>3, <2>4 DEF Ledger
  <2>6. ~IsMarked(e)'
    <3>1. ~IsMarked(e)
      BY <1>4, <1>6
    <3>2. CASE marks' = marks
      BY <3>1, <3>2 DEF IsMarked
    <3>3. CASE marks' = Append(marks, Message("projector", p).seq)
      <4>1. Message("projector", p).seq \in Numbers
        BY <2>3 DEF Numbers
      <4>2. /\ DOMAIN marks = 1..Len(marks) /\ Len(marks) \in Nat
            /\ marks' \in Seq(Numbers) /\ Len(marks') = Len(marks) + 1
            /\ \A i \in 1..Len(marks) : marks'[i] = marks[i]
            /\ marks'[Len(marks) + 1] = Message("projector", p).seq
        BY <3>3, <4>1, MarksType
      <4>3. DOMAIN marks' = 1..Len(marks')
        BY <4>2, LenProperties
      <4>4. \A i \in 1..Len(marks') : i \in 1..Len(marks) \/ i = Len(marks) + 1
        BY <4>2
      <4> QED
        BY <2>5, <3>1, <4>2, <4>3, <4>4 DEF IsMarked
    <3> QED
      BY <2>1, <3>2, <3>3
  <2>7. ~InHand(e)'
    BY <2>1 DEF InHand, Nothing
  <2>8. \A q \in Partitions : q # p => pos'["projector"][q] <= pos["projector"][q]
    BY <1>t, <2>3
  <2> QED
    BY <1>3, <1>6, <2>2, <2>3, <2>4, <2>6, <2>7, <2>8
<1>7. ASSUME MarkExpires, NEW e \in outbox, Waiting(e)
      PROVE  Waiting(e)'
  <2>1. marks # <<>> /\ marks' = Tail(marks) /\ UNCHANGED <<pos, doing>>
    BY <1>7 DEF MarkExpires
  <2>2. /\ DOMAIN marks = 1..Len(marks) /\ Len(marks) \in Nat /\ Len(marks) >= 1
        /\ marks' \in Seq(Numbers) /\ Len(marks') = Len(marks) - 1
        /\ \A i \in 1..Len(marks') : marks'[i] = marks[i + 1]
    BY <2>1, MarksType
  <2>3. DOMAIN marks' = 1..Len(marks')
    BY <2>2, LenProperties
  <2>4. ~IsMarked(e)'
    <3>1. \A i \in 1..Len(marks') : i + 1 \in 1..Len(marks)
      BY <2>2
    <3> QED
      BY <1>4, <1>7, <2>2, <2>3, <3>1 DEF IsMarked
  <2>5. ~InHand(e)'
    BY <1>1, <1>4, <1>7, <2>1, InHandKept
  <2> QED
    BY <1>3, <1>7, <1>t, <2>1, <2>4, <2>5
<1>8. ASSUME NEW g \in Groups, ConsumerFail(g), NEW e \in outbox, Waiting(e)
      PROVE  Waiting(e)'
  <2>1. /\ \A p \in Partitions : pos'["projector"][p] <= pos["projector"][p]
        /\ doing' \in {doing, Nothing}
        /\ pos'["projector"] = pos["projector"] \/ doing' = Nothing
    BY <1>8, <1>t, Restarts
  <2>2. ~IsMarked(e)'
    BY <1>4, <1>8 DEF ConsumerFail, IsMarked
  <2>3. ~InHand(e)'
    <3>1. CASE doing' = Nothing
      BY <3>1 DEF InHand, Nothing
    <3>2. CASE doing' = doing /\ pos'["projector"] = pos["projector"]
      BY <1>1, <1>4, <1>8, <3>2, InHandKept
    <3> QED
      BY <2>1, <3>1, <3>2
  <2> QED
    BY <1>3, <1>8, <2>1, <2>2, <2>3
<1> QED
  BY <1>1, <1>5, <1>6, <1>7, <1>8, GraphKept

(* An event that is applied in its turn either is its grant's last word,   *)
(* or is followed by one that is still waiting: had the later one been     *)
(* marked, the mark of this one, which is older, would have expired first. *)
LEMMA GraphApply ==
  ASSUME Ledger, Types, Order, Passed, Graph, NEW p \in Partitions, ProjectorApply(p)
  PROVE  Graph'
<1>g. "projector" \in Groups
  BY DEF Groups
<1>n. PICK n : n = pos["projector"][p]
  OBVIOUS
<1>m. PICK m : m = Message("projector", p)
  OBVIOUS
<1>1. /\ n < Len(topic[p]) /\ Running /\ doing = Nothing /\ ~IsMarked(m)
      /\ neo' = Applied(neo, m) /\ doing' = [partition |-> p, stage |-> "applied"]
      /\ lapsed' = IF ComesLate(m) THEN lapsed \cup {m.key} ELSE lapsed \ {m.key}
      /\ UNCHANGED <<vars, published, sent, topic, pos, marks, boot, copy>>
  BY <1>n, <1>m DEF ProjectorApply, HasNext, relayVars, bootVars
<1>2. /\ n \in Nat /\ Len(topic[p]) \in Nat /\ n + 1 \in 1..Len(topic[p])
      /\ m = topic[p][n + 1] /\ m \in outbox /\ PartitionOf[m.key] = p
      /\ m.key \in Keys /\ m.type \in {"GrantAdded", "GrantRevoked"}
  <2>1. n \in Nat /\ Len(topic[p]) \in Nat
    BY <1>g, <1>n, LenProperties DEF Types
  <2>2. n + 1 \in 1..Len(topic[p]) /\ m = topic[p][n + 1]
    BY <1>1, <1>n, <1>m, <2>1 DEF Message
  <2>3. m \in outbox /\ PartitionOf[m.key] = p
    BY <2>2 DEF Types
  <2> QED
    BY <2>1, <2>2, <2>3 DEF Ledger, Events
<1>3. Ledger' /\ Types' /\ outbox' = outbox /\ Table' = Table /\ Out' = Out
  BY <1>1, LedgerSame, TypesConsumer DEF vars, Table, Out
<1>4. \A e : InHand(e)' <=> e = m
  BY <1>1, <1>m DEF InHand, Message
<1>5. \A e : (IsMarked(e)' <=> IsMarked(e)) /\ (Ahead(e)' <=> Ahead(e))
  BY <1>1 DEF IsMarked, Ahead
<1>w. (Ledger /\ Types => WaitingMeans)'
  BY WaitingIs, PTL
(* Other grants are as they were. *)
<1>6. ASSUME NEW k \in Keys, k # m.key
      PROVE  /\ k \in neo' <=> k \in neo
             /\ k \in View' <=> k \in View
             /\ k \in lapsed' <=> k \in lapsed
             /\ Follows(k) => Follows(k)'
  <2>1. (k \in neo' <=> k \in neo) /\ (k \in View' <=> k \in View) /\ (k \in lapsed' <=> k \in lapsed)
    BY <1>1, <1>6 DEF Applied, View
  <2>2. \A e \in outbox : e.key = k /\ Waiting(e) => Waiting(e)'
    BY <1>3, <1>4, <1>5, <1>6, <1>w, WaitingIs DEF WaitingMeans
  <2> QED
    BY <1>3, <2>1, <2>2 DEF Follows
(* The grant of the event. *)
<1>7. ASSUME ~ComesLate(m) PROVE Follows(m.key)'
  <2>1. boot = "up" /\ boot' = "up"
    BY <1>1, <1>7 DEF ComesLate
  <2>2. m.key \in View' <=> m.type = "GrantAdded"
    BY <1>1, <1>2, <2>1 DEF Applied, View
  <2>3. CASE \A f \in outbox : ~Before(m, f)
    BY <1>2, <1>3, <2>2, <2>3 DEF Ledger, Follows
  <2>4. ASSUME NEW f \in outbox, Before(m, f)
        PROVE  Follows(m.key)'
    <3>1. ~IsMarked(f)
      <4> SUFFICES ASSUME IsMarked(f) PROVE FALSE
        OBVIOUS
      <4>1. f.seq \in Ever
        BY MarksType DEF IsMarked, Ever, Numbers
      <4>2. m.seq \in Ever
        BY <1>2, <2>4, <4>1 DEF Passed
      <4>3. m.seq \in expired
        BY <1>1, <4>2, MarksType DEF IsMarked, Ever
      <4>4. f.key = m.key /\ f.seq > m.seq
        <5>1. f.seq \in Nat /\ m.seq \in Nat
          BY <1>2, SeqsAssumption DEF Ledger, Events
        <5> QED
          BY <2>4, <5>1 DEF Before
      <4> QED
        BY <1>7, <4>3, <4>4 DEF ComesLate
    <3>2. f.seq \notin Out \/ Ahead(f)
      <4> SUFFICES ASSUME f.seq \in Out PROVE Ahead(f)
        OBVIOUS
      <4>1. OnTopic(f, n + 1 + 1, Len(topic[p]))
        BY <1>2, <2>4 DEF Order
      <4>2. PartitionOf[f.key] = p
        BY <1>2, <2>4 DEF Before
      <4>3. PICK i \in n + 1 + 1..Len(topic[p]) : topic[p][i] = f
        BY <4>1, <4>2 DEF OnTopic
      <4>4. i \in 1..Len(topic[p]) /\ i > pos["projector"][p]
        BY <1>2, <1>n
      <4> QED
        BY <4>2, <4>3, <4>4 DEF Ahead
    <3>3. f # m
      <4>1. f.seq \in Nat
        BY SeqsAssumption DEF Ledger, Events
      <4> QED
        BY <2>4, <4>1 DEF Before
    <3>4. Waiting(f)'
      BY <1>3, <1>4, <1>5, <1>w, <3>1, <3>2, <3>3 DEF WaitingMeans
    <3> QED
      BY <1>3, <2>4, <3>4 DEF Before, Follows
  <2> QED
    BY <2>3, <2>4
<1>8. boot' # "down" => \A k \in Keys \ lapsed' : Follows(k)'
  <2> SUFFICES ASSUME NEW k \in Keys \ lapsed' PROVE Follows(k)'
    OBVIOUS
  <2>1. CASE k = m.key
    BY <1>1, <1>7, <2>1
  <2>2. CASE k # m.key
    BY <1>1, <1>6, <2>2 DEF Graph, Running
  <2> QED
    BY <2>1, <2>2
<1>9. boot' = "wiped" => neo' \subseteq copy' \cup lapsed'
  <2> SUFFICES ASSUME boot = "wiped" PROVE neo' \subseteq copy \cup lapsed'
    BY <1>1
  <2>1. lapsed' = lapsed \cup {m.key} /\ neo \subseteq copy \cup lapsed
    BY <1>1 DEF ComesLate, Graph
  <2>2. neo' \subseteq neo \cup {m.key}
    BY <1>1 DEF Applied
  <2> QED
    BY <2>1, <2>2
<1>10. boot' # "syncing"
  BY <1>1 DEF Running
<1> QED
  BY <1>8, <1>9, <1>10 DEF Graph

(* Bootstrap and repair bring the table into the graph, or say that they   *)
(* have lost it.                                                           *)
LEMMA GraphBoot ==
  ASSUME Ledger, Types, Graph,
         SyncRead \/ SyncMerge \/ RepairRead \/ RepairDelete \/ RepairFail \/ Outage
  PROVE  Graph'
<1>1. outbox' = outbox /\ Table' = Table
  BY DEF SyncRead, SyncMerge, RepairRead, RepairDelete, RepairFail, Outage, vars, Table
<1>2. ASSUME UNCHANGED <<relayVars, topic, pos, marks, doing>>, NEW k, Follows(k),
             k \in View' <=> k \in View
      PROVE  Follows(k)'
  <2>1. \A e \in outbox : Waiting(e)' <=> Waiting(e)
    BY <1>2 DEF Waiting, IsPending, IsMarked, InHand, Message, relayVars
  <2> QED
    BY <1>1, <1>2, <2>1 DEF Follows
<1>3. CASE SyncRead
  <2>1. boot' = "syncing" /\ copy' = Table /\ neo' = {}
    BY <1>3 DEF SyncRead
  <2>2. View' = Table'
    BY <1>1, <2>1 DEF View
  <2> QED
    BY <2>1, <2>2 DEF Graph, Follows
<1>4. CASE RepairRead
  <2>1. boot' = "copied" /\ copy' = Table
    BY <1>4 DEF RepairRead
  <2>2. View' = Table'
    BY <1>1, <2>1 DEF View
  <2> QED
    BY <2>1, <2>2 DEF Graph, Follows
<1>5. CASE SyncMerge
  <2>1. /\ boot \in {"syncing", "wiped"} /\ boot' = "up" /\ neo' = neo \cup copy
        /\ UNCHANGED <<relayVars, topic, pos, marks, doing, lapsed>>
    BY <1>5 DEF SyncMerge, pastVars
  <2>2. neo \subseteq copy \cup lapsed
    BY <2>1 DEF Graph
  <2>3. \A k \in Keys \ lapsed : k \in View' <=> k \in View
    BY <2>1, <2>2 DEF View
  <2>4. \A k \in Keys \ lapsed : Follows(k)'
    BY <1>2, <2>1, <2>3 DEF Graph
  <2> QED
    BY <2>1, <2>4 DEF Graph
<1>6. CASE RepairDelete
  <2>1. /\ boot = "copied" /\ boot' = "wiped" /\ neo' = {} /\ copy' = copy
        /\ UNCHANGED <<relayVars, topic, pos, marks, doing, lapsed>>
    BY <1>6 DEF RepairDelete, pastVars
  <2>2. \A k \in Keys \ lapsed : Follows(k)'
    BY <1>2, <2>1 DEF Graph, View
  <2> QED
    BY <2>1, <2>2 DEF Graph
<1>7. CASE RepairFail
  BY <1>7 DEF RepairFail, Graph
<1>8. CASE Outage
  BY <1>8 DEF Outage, Graph
<1> QED
  BY <1>3, <1>4, <1>5, <1>6, <1>7, <1>8

LEMMA GraphStep ==
  ASSUME OneRelay, Ledger, Types, Order, Passed, Graph, [ProjNext]_allVars
  PROVE  Graph'
<1>1. CASE UNCHANGED allVars
  <2>1. UNCHANGED <<vars, neo, boot, copy, lapsed, relayVars, topic, pos, marks, doing>>
    BY <1>1 DEF allVars, graphVars, bootVars, pastVars
  <2>2. \A e \in outbox : Waiting(e)' <=> Waiting(e)
    BY <2>1 DEF Waiting, IsPending, IsMarked, InHand, Message, relayVars
  <2> QED
    BY <2>1, <2>2, GraphKept
<1>2. CASE ProjNext
  BY <1>2, GraphWrite, GraphRelay, GraphConsumer, GraphApply, GraphBoot DEF ProjNext
<1> QED
  BY <1>1, <1>2

(* The inductive invariant of everything downstream of the ledger. *)
THEOREM ProjInvariance == OneRelay /\ ProjSpec => [](OneRelay /\ ProjInv)
<1>1. OneRelay /\ ProjInit => OneRelay /\ ProjInv
  <2>1. ProjInit => Graph
    BY DEF ProjInit, Graph
  <2> QED
    BY <2>1, InitOK, InitOrder DEF ProjInv
<1>2. OneRelay /\ ProjInv /\ [ProjNext]_allVars => (OneRelay /\ ProjInv)'
  <2>1. OneRelay => OneRelay'
    BY DEF OneRelay
  <2> QED
    BY <2>1, LedgerStep, TypesStep, OrderStep, RecordedStep, PassedStep, GraphStep DEF ProjInv
<1> QED
  BY <1>1, <1>2, PTL DEF ProjSpec

(* GraphService is behind, never simply wrong: whatever the relay, the     *)
(* topic, the guard's expiring marks, crashes, bootstrap and repairs do, a *)
(* grant that Neo4j has too many or lacks has an event still to come, or   *)
(* has lapsed; and only Postgres calls itself authoritative.               *)
THEOREM BehindTheorem == OneRelay /\ ProjSpec => []BehindOnlyByPending
<1>1. ProjInv => BehindOnlyByPending
  <2> SUFFICES ASSUME ProjInv, boot = "up", NEW k \in Keys \ lapsed
               PROVE  \/ k \in neo <=> k \in Table
                      \/ \E e \in outbox : e.key = k /\ IsPending(e)
    <3>1. \A a \in {Traversal(TRUE), Traversal(FALSE), Impact} :
            a.held = Table \/ (a.held = neo /\ ~a.authoritative)
      BY DEF Traversal, Impact
    <3> QED
      BY <3>1 DEF BehindOnlyByPending
  <2>1. Follows(k) /\ View = neo
    BY DEF ProjInv, Graph, View
  <2> QED
    BY <2>1 DEF Follows, Waiting
<1> QED
  BY <1>1, ProjInvariance, PTL

(* Once the projector has caught up the graph is the table: no order of    *)
(* deliveries, restarts and repairs leaves a revoked grant in Neo4j for    *)
(* good, but for the grants that have lapsed.                              *)
THEOREM DrainedTheorem == OneRelay /\ ProjSpec => []DrainedIsTable
<1>1. ProjInv => DrainedIsTable
  <2> SUFFICES ASSUME ProjInv, IsDrained("projector"), NEW k \in Keys \ lapsed
               PROVE  k \in neo <=> k \in Table
    BY DEF DrainedIsTable
  <2>1. /\ boot = "up" /\ published = Numbers
        /\ \A p \in Partitions : pos["projector"][p] = Len(topic[p])
    BY DEF IsDrained
  <2>2. Follows(k) /\ View = neo
    BY <2>1 DEF ProjInv, Graph, View
  <2>3. ASSUME NEW e \in outbox, Waiting(e) PROVE FALSE
    <3>1. e.seq \in Out
      BY <2>1 DEF Numbers, Out
    <3>2. Ahead(e)
      BY <2>3, <3>1, WaitingIs DEF ProjInv, WaitingMeans
    <3>3. PartitionOf[e.key] \in Partitions
      BY PartitionAssumption DEF ProjInv, Ledger, Events
    <3>4. Len(topic[PartitionOf[e.key]]) \in Nat
      BY <3>3, LenProperties DEF ProjInv, Types
    <3> QED
      BY <2>1, <3>2, <3>3, <3>4 DEF Ahead
  <2> QED
    BY <2>2, <2>3 DEF Follows
<1> QED
  BY <1>1, ProjInvariance, PTL
=============================================================================
