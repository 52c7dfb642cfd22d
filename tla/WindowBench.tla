----------------------------- MODULE WindowBench -----------------------------
(***************************************************************************)
(* The benchmark of the invalidation window and the harness that starts    *)
(* the nodes: round after round it grants, lets the nodes settle, warms    *)
(* their caches, polls every node, revokes, and reports when the last node *)
(* has denied. It is the only client of the system that Invalidation       *)
(* models, so every write and every check here is one of the benchmark's.  *)
(*                                                                         *)
(* Taken as given: the nodes stay up, and no entry expires in a round. A   *)
(* request that fails ends the benchmark, which is a run that stops.       *)
(***************************************************************************)
EXTENDS Invalidation

CONSTANT Target  \* the grant that is revoked and put back

(* All nodes are asked one question, each by one request at a time; the    *)
(* user of the question is the subject of the grant.                       *)
ASSUME BenchAssumption ==
  /\ Requests = Nodes /\ Target \in Keys /\ MaxSeq >= 2 /\ MaxId >= 1
  /\ \E q \in Queries : Queries = {q} /\ Target \in Paths[q]

VARIABLES
  stage,     \* of the round
  told,      \* settle: the generation each node has reported, 0 for none
  answers,   \* warm: the answers of this pass
  target,    \* measureOnce: the id of the grant to revoke
  firstDeny  \* measureOnce: per node its first deny, if any

benchVars == <<stage, told, answers, target, firstDeny>>
allVars == <<sysVars, benchVars>>

NoneTold == [n \in Nodes |-> 0]
NoAnswers == [n \in Nodes |-> "none"]
NoDenies == [n \in Nodes |-> {}]

Deny(q) == [Blank(q, 2) EXCEPT !.asOf = {1, 2}]

(* The grant has been revoked: by the round before, at the end of which    *)
(* every node has denied, or at the end of an earlier benchmark, and these *)
(* nodes have just started.                                                *)
GrantMissing ==
  /\ outbox = {[seq |-> 1, type |-> "GrantAdded", key |-> Target, id |-> 1],
               [seq |-> 2, type |-> "GrantRevoked", key |-> Target, id |-> 1]}
  /\ rows = {} /\ edges = {}
  /\ seqLast = 2 /\ nextId = 1
  /\ gen = [n \in Nodes |-> 2]
  /\ \E denies \in {{}, {Deny(q) : q \in Queries}} :
       l1 = [n \in Nodes |-> denies] /\ l2 = denies

(* The seed has granted, and these nodes have just started.                *)
GrantThere ==
  /\ outbox = {[seq |-> 1, type |-> "GrantAdded", key |-> Target, id |-> 1]}
  /\ rows = {[id |-> 1, key |-> Target]} /\ edges = {EdgeOf(Target)}
  /\ seqLast = 1 /\ nextId = 1
  /\ gen = [n \in Nodes |-> 1]
  /\ l1 = [n \in Nodes |-> {}] /\ l2 = {}

(* startApiNodes has waited for its nodes to settle.                       *)
WindowInit ==
  /\ GrantMissing \/ GrantThere
  /\ txn = [w \in Writers |-> Idle]
  /\ phase = [n \in Nodes |-> "up"]
  /\ poll = [n \in Nodes |-> {}]
  /\ l2Writes = {} /\ req = [c \in Requests |-> Free]
  /\ raced = {}
  /\ stage = "granting"
  /\ told = NoneTold /\ answers = NoAnswers /\ target = 0 /\ firstDeny = NoDenies

-----------------------------------------------------------------------------
(* ensureGranted. *)
PostRuns(w) ==
  /\ stage = "granting"
  /\ InsertGrant(w, Target) \/ GrantExists(w, Target)
  /\ stage' = "posting"
  /\ UNCHANGED <<generationVars, decisionVars, raced, told, answers, target, firstDeny>>

(* An error is a reply too: nobody looks at the status. *)
PostReplied ==
  /\ stage = "posting"
  /\ \A w \in Writers : txn[w] = Idle
  /\ stage' = "settling"
  /\ UNCHANGED <<sysVars, told, answers, target, firstDeny>>

(* What the API nodes do about a POST or a DELETE. *)
WriteRuns(w) ==
  /\ FindExisting(w) \/ Enqueue(w) \/ Commit(w) \/ Rollback(w)
  /\ UNCHANGED <<generationVars, decisionVars, raced, benchVars>>

-----------------------------------------------------------------------------
(* settle: the nodes are asked at the same time and answer one by one. *)
Report(n) ==
  /\ stage = "settling"
  /\ told[n] = 0
  /\ told' = [told EXCEPT ![n] = gen[n]]
  /\ UNCHANGED <<sysVars, stage, answers, target, firstDeny>>

Settled == told # NoneTold /\ \A m, n \in Nodes : told[m] = told[n]

(* They agree, or they are asked again. (After 30 s it throws.) *)
SettleEnds ==
  /\ stage = "settling"
  /\ \A n \in Nodes : told[n] # 0
  /\ told' = NoneTold
  /\ stage' = IF Settled THEN "warming" ELSE stage
  /\ UNCHANGED <<sysVars, answers, target, firstDeny>>

-----------------------------------------------------------------------------
(* check: whom the benchmark asks when. In warm the nodes of a pass, then  *)
(* one node after the other; in measureOnce each until it denies.          *)
Asks(n) ==
  \/ stage \in {"warming", "rechecking"} /\ answers[n] = "none"
  \/ /\ stage = "confirming" /\ answers[n] # "cached"
     /\ \A m \in Nodes : req[m] = Free
  \/ stage \in {"polling", "dispatched", "deleting", "watching"} /\ firstDeny[n] = {}

(* The answer d, from a cache or from the store, is back. *)
Hears(n, d, isCached) ==
  /\ \/ /\ stage \in {"warming", "rechecking"}
        /\ answers' = [answers EXCEPT ![n] = IF d.allowed THEN "allow" ELSE "deny"]
        /\ UNCHANGED firstDeny
     \/ /\ stage = "confirming"
        /\ answers' = [answers EXCEPT ![n] = IF isCached THEN "cached" ELSE @]
        /\ UNCHANGED firstDeny
     \/ /\ stage \in {"polling", "dispatched", "deleting", "watching"}
        /\ firstDeny' = [firstDeny EXCEPT ![n] =
             IF ~d.allowed /\ stage # "polling" THEN {d} ELSE @]
        /\ UNCHANGED answers
  /\ UNCHANGED <<stage, told, target>>

(* The node answers from L1 at once. *)
AnsweredByL1(n, d) ==
  /\ Asks(n) /\ req[n] = Free
  /\ d \in l1[n] /\ d.gen = gen[n]
  /\ Hears(n, d, TRUE)
  /\ UNCHANGED sysVars

(* It has no entry there ... *)
Asked(n, q) ==
  /\ Asks(n)
  /\ StartCheck(n, n, q)
  /\ CheckRest /\ UNCHANGED benchVars

CheckRuns(n) ==
  /\ L2Hit(n) \/ L2Miss(n) \/ StoreRead(n) \/ StoreFail(n)
  /\ CheckRest /\ UNCHANGED benchVars

(* ... and answers later. *)
Answered(n) ==
  /\ ReplyHit(n) \/ ReplyComputed(n) \/ ReplyUnavailable(n)
  /\ Hears(n, req[n].entry, req[n].stage = "hit")
  /\ CheckRest

-----------------------------------------------------------------------------
(* warm: the passes go on until all nodes allow, or for 30 s. *)
WarmPassEnds ==
  /\ stage = "warming"
  /\ \A n \in Nodes : answers[n] # "none"
  /\ stage' \in IF \A n \in Nodes : answers[n] = "allow"
                THEN {"rechecking"} ELSE {"warming", "rechecking"}
  /\ answers' = NoAnswers
  /\ UNCHANGED <<sysVars, told, target, firstDeny>>

(* Wrong variant: gives up quietly. *)
RecheckEndsQuietly ==
  /\ stage = "rechecking"
  /\ \A n \in Nodes : answers[n] # "none"
  /\ stage' = "confirming"
  /\ answers' = NoAnswers
  /\ UNCHANGED <<sysVars, told, target, firstDeny>>

(* One more pass: a node that still denies ends the benchmark. *)
RecheckEnds ==
  /\ stage = "rechecking"
  /\ \A n \in Nodes : answers[n] # "none"
  /\ stage' = IF \A n \in Nodes : answers[n] = "allow" THEN "confirming" ELSE "failed"
  /\ answers' = NoAnswers
  /\ UNCHANGED <<sysVars, told, target, firstDeny>>

(* Wrong variant: the grant's id is kept from an earlier round. *)
WarmEndsKeepingId ==
  /\ stage = "confirming"
  /\ \A n \in Nodes : answers[n] = "cached"
  /\ \E e \in outbox : e.key = Target /\ target' = e.id
  /\ stage' = "polling"
  /\ answers' = NoAnswers
  /\ firstDeny' = NoDenies
  /\ UNCHANGED <<sysVars, told>>

(* Every node has served from a cache (it throws at ten that did not). The *)
(* grant is looked up, and the pollers start.                              *)
WarmEnds ==
  /\ stage = "confirming"
  /\ \A n \in Nodes : answers[n] = "cached"
  /\ \E r \in rows : r.key = Target /\ target' = r.id
  /\ stage' = "polling"
  /\ answers' = NoAnswers
  /\ firstDeny' = NoDenies
  /\ UNCHANGED <<sysVars, told>>

-----------------------------------------------------------------------------
(* measureOnce. *)
Dispatch ==
  /\ stage = "polling"
  /\ stage' = "dispatched"
  /\ UNCHANGED <<sysVars, told, answers, target, firstDeny>>

DeleteRuns(w) ==
  /\ stage = "dispatched"
  /\ \E r \in rows : r.id = target /\ DeleteGrant(w, r)
  /\ stage' = "deleting"
  /\ UNCHANGED <<generationVars, decisionVars, raced, told, answers, target, firstDeny>>

DeleteReplied ==
  /\ stage = "deleting"
  /\ \A w \in Writers : txn[w] = Idle
  /\ stage' = "watching"
  /\ UNCHANGED <<sysVars, told, answers, target, firstDeny>>

(* Wrong variant: the first node that denies ends the window. *)
MeasuredFirst ==
  /\ stage = "watching"
  /\ \E n \in Nodes : firstDeny[n] # {}
  /\ stage' = "reported"
  /\ UNCHANGED <<sysVars, told, answers, target, firstDeny>>

(* Every node has denied: the window is reported. (After 30 s it throws.)  *)
Measured ==
  /\ stage = "watching"
  /\ \A n \in Nodes : firstDeny[n] # {}
  /\ stage' = "reported"
  /\ UNCHANGED <<sysVars, told, answers, target, firstDeny>>

-----------------------------------------------------------------------------
(* Meanwhile the nodes learn of generations and Redis of decisions. *)
Background ==
  /\ \/ AdoptStep
     \/ \E n \in Nodes : PollRead(n) /\ NodeRest
     \/ \E n \in Nodes : \E v \in poll[n] : PollFail(n, v) /\ NodeRest
     \/ \E e \in l2Writes : (WriteLands(e) \/ WriteLost(e)) /\ CheckRest
  /\ UNCHANGED benchVars

WindowNext ==
  \/ \E w \in Writers : PostRuns(w) \/ WriteRuns(w) \/ DeleteRuns(w)
  \/ PostReplied \/ SettleEnds \/ WarmPassEnds \/ RecheckEnds \/ WarmEnds
  \/ \E n \in Nodes : Report(n) \/ CheckRuns(n) \/ Answered(n)
  \/ \E n \in Nodes, q \in Queries : Asked(n, q)
  \/ \E n \in Nodes : \E d \in l1[n] : AnsweredByL1(n, d)
  \/ Dispatch \/ DeleteReplied \/ Measured
  \/ Background

WindowSpec == WindowInit /\ [][WindowNext]_allVars

-----------------------------------------------------------------------------
(* Every variable stays in its type; the grant that the DELETE names is    *)
(* there until it runs.                                                    *)
Stages == {"granting", "posting", "settling", "warming", "rechecking", "confirming",
           "polling", "dispatched", "deleting", "watching", "reported", "failed"}

WindowTypeOK ==
  /\ stage \in Stages
  /\ told \in [Nodes -> 0..MaxSeq]
  /\ answers \in [Nodes -> {"none", "allow", "deny", "cached"}]
  /\ target \in 0..MaxId
  /\ firstDeny \in [Nodes -> SUBSET {d \in Entry : ~d.allowed}]
  /\ stage \in {"polling", "dispatched"} => [id |-> target, key |-> Target] \in rows

(* The numbers of this round's revoke: one, once it is committed. *)
Revoked == {e.seq : e \in {f \in outbox : f.type = "GrantRevoked" /\ f.id = target}}

(* The deny of a node that could not reach its store: it counts as one.    *)
IsOutage(d) == d.asOf = {}

(* The numbers of the grant that it revokes. *)
Regranted == {e.seq : e \in {f \in outbox : f.type = "GrantAdded" /\ f.id = target}}

(* What a check of the node is answered from, without the store.           *)
Serves(n) ==
  LET current(cache) == {d \in cache : d.gen = gen[n]}
  IN IF current(l1[n]) # {} THEN current(l1[n]) ELSE current(l2)

(* "Every node must hold a cached allow before the revoke, or there is     *)
(* nothing stale to race": each holds the allow of this round's grant. It  *)
(* is under the generation that the node is at, except where settle agreed *)
(* on a number from before the grant and the node has learned of the grant *)
(* since: such a node may meet the revoke with nothing in its cache.       *)
WarmIsWarm ==
  stage \in {"polling", "dispatched"} =>
    \A n \in Nodes : \E d \in l1[n] : \E s \in Regranted :
      d.allowed /\ s \in d.asOf /\ (d.gen = gen[n] \/ d.gen < s)

(* "A deny observed before this cannot have been caused by the revoke, and *)
(* counting one would produce a window that precedes its own cause": what  *)
(* ends a node's window is an answer that has seen the revoke, never an    *)
(* earlier round's deny out of a cache, unless the store was unreachable.  *)
DenyIsCaused ==
  \A n \in Nodes : \A d \in firstDeny[n] :
    IsOutage(d) \/ \E s \in Revoked : s \in d.asOf

(* "The distance from the revoke committing to the last node returning a   *)
(* deny": once the window is reported no node can serve an allow. It takes *)
(* nodes that did not count an outage, and a revoke whose number no node   *)
(* adopted before it was committed.                                        *)
WindowIsLast ==
  stage = "reported" /\ Revoked \cap raced = {}
      /\ (\A n \in Nodes : \A d \in firstDeny[n] : ~IsOutage(d)) =>
    \A n \in Nodes : \A d \in Serves(n) : ~d.allowed
=============================================================================
