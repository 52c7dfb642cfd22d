---------------------------- MODULE Projections ----------------------------
(***************************************************************************)
(* Downstream of the ledger: the worker (outbox relay, audit consumer,     *)
(* graph projector), the topic between them, bootstrap and repair, which   *)
(* rebuild the Neo4j graph from the table, and GraphService, which answers *)
(* from that graph or from Postgres. The write side is the abstract        *)
(* ledger, which GrantWrites implements.                                   *)
(*                                                                         *)
(* The topic delivers at least once and in order within a partition; the   *)
(* partition is chosen by the resource. A consumer that restarts may start *)
(* at any event it has handled. The relay, the guard and the broker are    *)
(* outside the repository. Meta.seq (setAppliedSeq) is left out: nothing   *)
(* that is served reads it.                                                *)
(***************************************************************************)
EXTENDS GrantLedger, Sequences, FiniteSets

CONSTANTS
  Relays,       \* relay processes
  Partitions,   \* partitions of the topic
  PartitionOf,  \* the partition of a grant's resource
  MaxFailures,  \* bound: failures of a relay, a consumer, a repair or the
                \* whole system, and repairs of the graph
  MaxExpiries   \* bound: marks that expire

ASSUME PartitionAssumption == PartitionOf \in [Keys -> Partitions]
ASSUME IdsAssumption == Seqs \subseteq Ids  \* see Write
ASSUME FailuresAssumption == MaxFailures \in Nat /\ MaxExpiries \in Nat

Groups == {"audit", "projector"}

VARIABLES
  published,  \* numbers the relay has marked as sent
  batch,      \* per relay: numbers of the rows it has locked
  sent,       \* per relay: those of the batch it has sent
  topic,      \* per partition: the events, in order
  pos,        \* per group and partition: how many events are handled
  audit,      \* audit_log, in the order of its ids
  marks,      \* IdempotencyGuard: numbers of processed events, oldest first
  doing,      \* the projector: partition and stage of the event in hand
  neo,        \* the GRANTED relationships of Neo4j
  boot,       \* the system: down, bootstrap copying the table, up, or up
              \* with a repair that has read the table or wiped the graph
  copy,       \* what syncGrants has read and not written yet
  failures,
  expired,    \* history: numbers whose mark has expired
  lapsed      \* history: grants whose order of events the graph has lost

relayVars == <<published, batch, sent>>
auditVars == <<audit>>
graphVars == <<marks, doing, neo>>
bootVars == <<boot, copy>>
pastVars == <<expired, lapsed>>
allVars == <<vars, relayVars, topic, pos, auditVars, graphVars, bootVars, failures, pastVars>>

Nothing == [partition |-> "none", stage |-> "idle"]

ProjInit ==
  /\ Init
  /\ published = {}
  /\ batch = [r \in Relays |-> {}] /\ sent = [r \in Relays |-> {}]
  /\ topic = [p \in Partitions |-> <<>>]
  /\ pos = [g \in Groups |-> [p \in Partitions |-> 0]]
  /\ audit = <<>>
  /\ marks = <<>> /\ doing = Nothing /\ neo = {}
  /\ boot = "down" /\ copy = {}
  /\ failures = 0 /\ expired = {} /\ lapsed = {}

-----------------------------------------------------------------------------
(* The worker runs; the graph may be under repair. *)
Running == boot \in {"up", "copied", "wiped"}

(* OutboxRelay. *)
Numbers == {e.seq : e \in outbox}
Locked == UNION {batch[r] : r \in Relays}

(* SELECT ... FOR UPDATE SKIP LOCKED: every row that is not sent and that  *)
(* no other relay holds.                                                   *)
RelayTake(r) ==
  /\ Running /\ batch[r] = {}
  /\ batch' = [batch EXCEPT ![r] = Numbers \ (published \cup Locked)]
  /\ UNCHANGED <<vars, published, sent, topic, pos, auditVars, graphVars, bootVars, failures, pastVars>>

(* Wrong variant: the rows of a batch are sent as they come. *)
RelaySendAnyOrder(r) ==
  \E e \in outbox :
    /\ e.seq \in batch[r] \ sent[r]
    /\ topic' = [topic EXCEPT ![PartitionOf[e.key]] = Append(@, e)]
    /\ sent' = [sent EXCEPT ![r] = @ \cup {e.seq}]
    /\ UNCHANGED <<vars, published, batch, pos, auditVars, graphVars, bootVars, failures, pastVars>>

(* The next row of the batch, by number, is on the topic. *)
RelaySend(r) ==
  \E e \in outbox :
    /\ e.seq \in batch[r] \ sent[r]
    /\ \A s \in batch[r] \ sent[r] : e.seq <= s
    /\ topic' = [topic EXCEPT ![PartitionOf[e.key]] = Append(@, e)]
    /\ sent' = [sent EXCEPT ![r] = @ \cup {e.seq}]
    /\ UNCHANGED <<vars, published, batch, pos, auditVars, graphVars, bootVars, failures, pastVars>>

(* The batch is marked as sent and the rows are released. *)
RelayDone(r) ==
  /\ batch[r] # {} /\ sent[r] = batch[r]
  /\ published' = published \cup batch[r]
  /\ batch' = [batch EXCEPT ![r] = {}] /\ sent' = [sent EXCEPT ![r] = {}]
  /\ UNCHANGED <<vars, topic, pos, auditVars, graphVars, bootVars, failures, pastVars>>

Fail == failures < MaxFailures /\ failures' = failures + 1

(* The relay, its database or the broker fails: the rows are released and  *)
(* none is marked, what has been sent included.                            *)
RelayFail(r) ==
  /\ Fail
  /\ batch[r] # {}
  /\ batch' = [batch EXCEPT ![r] = {}] /\ sent' = [sent EXCEPT ![r] = {}]
  /\ UNCHANGED <<vars, published, topic, pos, auditVars, graphVars, bootVars, pastVars>>

-----------------------------------------------------------------------------
(* The two consumers. *)
HasNext(g, p) == Running /\ pos[g][p] < Len(topic[p])
Message(g, p) == topic[p][pos[g][p] + 1]
(* Wrong variant: the next offset is counted from the next message. *)
HandledTwice(g, p) == pos' = [pos EXCEPT ![g][p] = @ + 2]

Handled(g, p) == pos' = [pos EXCEPT ![g][p] = @ + 1]

IsAudited(e) == \E i \in DOMAIN audit : audit[i].seq = e.seq

(* Wrong variant: every delivery is recorded. *)
AuditAppendAlways(p) ==
  /\ HasNext("audit", p)
  /\ audit' = Append(audit, Message("audit", p))
  /\ Handled("audit", p)
  /\ UNCHANGED <<vars, relayVars, topic, graphVars, bootVars, failures, pastVars>>

(* INSERT INTO audit_log ... ON CONFLICT (outbox_id) DO NOTHING. *)
AuditAppend(p) ==
  /\ HasNext("audit", p)
  /\ LET e == Message("audit", p)
     IN audit' = IF IsAudited(e) THEN audit ELSE Append(audit, e)
  /\ Handled("audit", p)
  /\ UNCHANGED <<vars, relayVars, topic, graphVars, bootVars, failures, pastVars>>

IsMarked(e) == \E i \in DOMAIN marks : marks[i] = e.seq

(* Wrong variant: an event that is not processed is not acknowledged. *)
ProjectorSkipInPlace(p) ==
  /\ HasNext("projector", p) /\ doing = Nothing
  /\ IsMarked(Message("projector", p))
  /\ UNCHANGED <<vars, relayVars, topic, pos, auditVars, graphVars, bootVars, failures, pastVars>>

(* guard.run: the event has been processed before. *)
ProjectorSkip(p) ==
  /\ HasNext("projector", p) /\ doing = Nothing
  /\ IsMarked(Message("projector", p))
  /\ Handled("projector", p)
  /\ UNCHANGED <<vars, relayVars, topic, auditVars, graphVars, bootVars, failures, pastVars>>

Applied(graph, e) == IF e.type = "GrantAdded" THEN graph \cup {e.key} ELSE graph \ {e.key}

(* e comes after its turn: its mark has expired while a later event of the *)
(* grant, which will be skipped, is still marked; or it is applied beside  *)
(* a repair that has read the table and not written it yet.                *)
ComesLate(e) ==
  \/ e.seq \in expired /\ \E f \in outbox : f.key = e.key /\ f.seq > e.seq /\ IsMarked(f)
  \/ boot # "up"

(* applyGrantAdded or applyGrantRevoked. *)
ProjectorApply(p) ==
  /\ HasNext("projector", p) /\ doing = Nothing
  /\ ~IsMarked(Message("projector", p))
  /\ neo' = Applied(neo, Message("projector", p))
  /\ doing' = [partition |-> p, stage |-> "applied"]
  /\ LET e == Message("projector", p)
     IN lapsed' = IF ComesLate(e) THEN lapsed \cup {e.key} ELSE lapsed \ {e.key}
  /\ UNCHANGED <<vars, relayVars, topic, pos, auditVars, marks, bootVars, failures, expired>>

(* guard.run remembers the event once its handler has ended. *)
ProjectorMark(p) ==
  /\ doing = [partition |-> p, stage |-> "applied"]
  /\ marks' = Append(marks, Message("projector", p).seq)
  /\ doing' = Nothing
  /\ Handled("projector", p)
  /\ UNCHANGED <<vars, relayVars, topic, auditVars, neo, bootVars, failures, pastVars>>

(* A mark lives for an hour (EX 3600); the oldest ends first. *)
MarkExpires ==
  /\ Cardinality(expired) < MaxExpiries
  /\ marks # <<>>
  /\ marks' = Tail(marks)
  /\ expired' = expired \cup {Head(marks)}
  /\ UNCHANGED <<vars, relayVars, topic, pos, auditVars, doing, neo, bootVars, failures, lapsed>>

(* Where a group may start again: offsets are committed now and then, so   *)
(* from any event that it has handled.                                     *)
Earlier(g) == {q \in [Partitions -> 0..Cardinality(outbox) * (MaxFailures + 1)] :
                 \A p \in Partitions : q[p] <= pos[g][p]}

(* A handler throws, or the group is rebalanced. *)
ConsumerFail(g) ==
  /\ Fail
  /\ Running
  /\ \E q \in Earlier(g) : pos' = [pos EXCEPT ![g] = q]
  /\ doing' = IF g = "projector" THEN Nothing ELSE doing
  /\ UNCHANGED <<vars, relayVars, topic, auditVars, marks, neo, bootVars, pastVars>>

-----------------------------------------------------------------------------
Table == {r.key : r \in rows}

(* bootstrap: syncTopology wipes the graph and syncGrants reads the table; *)
(* the worker waits for it to end.                                         *)
SyncRead ==
  /\ boot = "down"
  /\ boot' = "syncing"
  /\ copy' = Table
  /\ neo' = {}
  /\ lapsed' = {}
  /\ UNCHANGED <<vars, relayVars, topic, pos, auditVars, marks, doing, failures, expired>>

(* "Bootstrap and repair only": syncGrants beside a worker that goes on.   *)
(* It reads the table and deletes every relationship ...                   *)
RepairRead ==
  /\ Fail
  /\ boot = "up"
  /\ boot' = "copied" /\ copy' = Table
  /\ lapsed' = {}
  /\ UNCHANGED <<vars, relayVars, topic, pos, auditVars, graphVars, expired>>

RepairDelete ==
  /\ boot = "copied"
  /\ boot' = "wiped" /\ neo' = {}
  /\ UNCHANGED <<vars, relayVars, topic, pos, auditVars, marks, doing, copy, failures, pastVars>>

(* Neo4j fails between the two: nothing writes again what was deleted.     *)
(* (The repair itself is what counts within MaxFailures.)                  *)
RepairFail ==
  /\ boot = "wiped"
  /\ boot' = "up" /\ copy' = {} /\ lapsed' = Keys
  /\ UNCHANGED <<vars, relayVars, topic, pos, auditVars, graphVars, failures, expired>>

(* ... and writes what was read, whatever has been committed or applied    *)
(* since.                                                                  *)
SyncMerge ==
  /\ boot \in {"syncing", "wiped"}
  /\ boot' = "up"
  /\ neo' = neo \cup copy
  /\ copy' = {}
  /\ UNCHANGED <<vars, relayVars, topic, pos, auditVars, marks, doing, failures, pastVars>>

(* Everything goes down, bootstrap included, and is brought up again. *)
Outage ==
  /\ Fail
  /\ boot # "down"
  /\ boot' = "down" /\ copy' = {}
  /\ batch' = [r \in Relays |-> {}] /\ sent' = [r \in Relays |-> {}]
  /\ \E q \in Earlier("audit"), s \in Earlier("projector") :
       pos' = [pos EXCEPT !["audit"] = q, !["projector"] = s]
  /\ doing' = Nothing
  /\ UNCHANGED <<vars, published, topic, auditVars, marks, neo, pastVars>>

(* A write; the number of its first event serves as a row's id: ids are    *)
(* never used twice.                                                       *)
Write ==
  /\ \/ \E k \in Keys, s \in Seqs : Add(k, s, s)
     \/ \E r \in rows, s \in Seqs : Remove(r, s)
  /\ UNCHANGED <<relayVars, topic, pos, auditVars, graphVars, bootVars, failures, pastVars>>

ProjNext ==
  \/ Write
  \/ \E r \in Relays : RelayTake(r) \/ RelaySend(r) \/ RelayDone(r) \/ RelayFail(r)
  \/ \E p \in Partitions : \/ AuditAppend(p) \/ ProjectorSkip(p) \/ ProjectorApply(p)
                           \/ ProjectorMark(p)
  \/ \E g \in Groups : ConsumerFail(g)
  \/ MarkExpires
  \/ SyncRead \/ SyncMerge \/ Outage
  \/ RepairRead \/ RepairDelete \/ RepairFail

(* The worker and bootstrap are restarted until they run, the relay polls, *)
(* the consumers fetch.                                                     *)
ProjFairness ==
  /\ WF_allVars(SyncRead) /\ WF_allVars(SyncMerge) /\ WF_allVars(RepairDelete)
  /\ \A r \in Relays : /\ WF_allVars(RelayTake(r)) /\ WF_allVars(RelaySend(r))
                       /\ WF_allVars(RelayDone(r))
  /\ \A p \in Partitions : /\ WF_allVars(AuditAppend(p))
                           /\ WF_allVars(ProjectorMark(p))
                           /\ SF_allVars(ProjectorSkip(p)) /\ SF_allVars(ProjectorApply(p))

ProjSpec == ProjInit /\ [][ProjNext]_allVars
FairProjSpec == ProjSpec /\ ProjFairness

-----------------------------------------------------------------------------
ProjTypeOK ==
  /\ outbox \subseteq [seq : Seqs, type : {"GrantAdded", "GrantRevoked"}, key : Keys, id : Ids]
  /\ published \subseteq Numbers /\ expired \subseteq Numbers
  /\ \A i \in DOMAIN marks : marks[i] \in Numbers
  /\ \A r \in Relays : sent[r] \subseteq batch[r] /\ batch[r] \subseteq Numbers
  /\ \A p \in Partitions : \A i \in DOMAIN topic[p] :
       topic[p][i] \in outbox /\ PartitionOf[topic[p][i].key] = p
  /\ \A g \in Groups, p \in Partitions : pos[g][p] \in 0..Len(topic[p])
  /\ doing.stage \in {"idle", "applied"}
  /\ neo \subseteq Keys /\ copy \subseteq Keys /\ lapsed \subseteq Keys
  /\ Running \/ boot \in {"down", "syncing"}

(* Nothing is left to do for the group g. *)
IsDrained(g) ==
  /\ boot = "up" /\ published = Numbers
  /\ \A p \in Partitions : pos[g][p] = Len(topic[p])

(* A graph that has caught up holds the grants of the table, whatever was  *)
(* delivered twice, copied by bootstrap while grants were written, or      *)
(* interrupted between Neo4j and the mark, but for the grants that have    *)
(* lapsed. Two writes of one grant that change places leave a revoked      *)
(* grant in the graph for good.                                            *)
DrainedIsTable ==
  IsDrained("projector") => \A k \in Keys \ lapsed : k \in neo <=> k \in Table

-----------------------------------------------------------------------------
(* GraphService.run: Neo4j answers; if it throws, the Postgres graph does. *)
(* Wrong variant: every answer claims to come from the source of truth. *)
TraversalProud(available) ==
  IF available THEN [engine |-> "neo4j", authoritative |-> TRUE, held |-> neo]
               ELSE [engine |-> "pg-kg", authoritative |-> TRUE, held |-> Table]

Traversal(available) ==
  IF available THEN [engine |-> "neo4j", authoritative |-> FALSE, held |-> neo]
               ELSE [engine |-> "pg-kg", authoritative |-> TRUE, held |-> Table]

(* blastRadius: "always uses the authoritative store". *)
Impact == [engine |-> "pg-kg", authoritative |-> TRUE, held |-> Table]

(* The projector will apply e: the event is still to be sent, or is on the *)
(* topic ahead of it, perhaps once more, and is not marked.                *)
IsPending(e) ==
  /\ ~IsMarked(e)
  /\ LET p == PartitionOf[e.key]
     IN \/ e.seq \notin published \cup UNION {sent[r] : r \in Relays}
        \/ \E i \in DOMAIN topic[p] : i > pos["projector"][p] /\ topic[p][i].seq = e.seq

(* /explain, /reachable and /impact: an answer that is not the table's is  *)
(* not called authoritative, and it "can be behind", never simply wrong:   *)
(* each grant it has too many or lacks has an event that is still to come. *)
(* Lapsed grants and a graph under repair are exempt.                      *)
BehindOnlyByPending ==
  boot = "up" => \A a \in {Traversal(TRUE), Traversal(FALSE), Impact} :
    \A k \in Keys \ lapsed : (k \in a.held <=> k \in Table) \/
       /\ ~a.authoritative
       /\ \E e \in outbox : e.key = k /\ IsPending(e)

(* audit_log is what happened: no event twice, the events of a grant in    *)
(* their order, and none missing once the consumer has caught up.          *)
AuditIsHistory ==
  /\ \A i, j \in DOMAIN audit : i < j =>
       /\ audit[i].seq # audit[j].seq
       /\ audit[i].key = audit[j].key => audit[i].seq < audit[j].seq
  /\ \A i \in DOMAIN audit : audit[i] \in outbox
  /\ IsDrained("audit") => \A e \in outbox : IsAudited(e)

(* Once writes and failures end, both consumers catch up for good.         *)
CatchesUp == <>[](IsDrained("projector") /\ IsDrained("audit"))
=============================================================================
