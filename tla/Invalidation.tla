---------------------------- MODULE Invalidation ----------------------------
(***************************************************************************)
(* The whole path from a write to the answer of a check: transactions      *)
(* (GrantWrites), the generation of each node (OutboxGeneration) and the   *)
(* checks and caches (DecisionService), interleaved.                       *)
(*                                                                         *)
(* raced is a history variable, not code: the numbers that were drawn but  *)
(* not committed when some node adopted a generation at or above them.     *)
(***************************************************************************)
EXTENDS DecisionService

VARIABLE raced

sysVars == <<vars, generationVars, decisionVars, raced>>

SysInit == Init /\ GenerationInit /\ DecisionInit /\ raced = {}

(* What a layer's step leaves alone in the others. *)
WriteRest == UNCHANGED <<generationVars, decisionVars, raced>>
NodeRest == UNCHANGED <<vars, decisionVars, raced>>
CheckRest == UNCHANGED <<vars, generationVars, raced>>

(* A node takes on a generation: the numbers in flight below it race. *)
Adopted(n) ==
  /\ raced' = raced \cup {s \in InFlight : s <= gen'[n]}
  /\ UNCHANGED <<vars, decisionVars>>

(* Only the writes that change something: a no-op grant and a rebuild of   *)
(* the graph touch nothing that a check reads.                             *)
WriteStep ==
  \/ \E w \in Writers, k \in Keys : InsertGrant(w, k) /\ WriteRest
  \/ \E w \in Writers : \E r \in rows : DeleteGrant(w, r) /\ WriteRest
  \/ \E w \in Writers : Enqueue(w) /\ WriteRest
  \/ \E w \in Writers : Commit(w) /\ WriteRest
  \/ \E w \in Writers : Rollback(w) /\ WriteRest

AdoptStep ==
  \/ \E n \in Nodes : BootAdopt(n) /\ Adopted(n)
  \/ \E n \in Nodes : \E v \in poll[n] : PollAdopt(n, v) /\ Adopted(n)
  \/ \E n \in Nodes : \E s \in Committed : Observe(n, s) /\ Adopted(n)

NodeStep ==
  \/ \E n \in Nodes : BootRead(n) /\ NodeRest
  \/ \E n \in Nodes : PollRead(n) /\ NodeRest
  \/ \E n \in Nodes : \E v \in poll[n] : PollFail(n, v) /\ NodeRest
  \/ \E n \in Nodes : Stop(n) /\ ForgetNode(n) /\ UNCHANGED <<vars, raced>>

CheckStep ==
  \/ \E c \in Requests, n \in Nodes, q \in Queries : StartCheck(c, n, q) /\ CheckRest
  \/ \E c \in Requests : L2Hit(c) /\ CheckRest
  \/ \E c \in Requests : L2Miss(c) /\ CheckRest
  \/ \E c \in Requests : StoreRead(c) /\ CheckRest
  \/ \E c \in Requests : StoreFail(c) /\ CheckRest
  \/ \E c \in Requests : ReplyHit(c) /\ CheckRest
  \/ \E c \in Requests : ReplyComputed(c) /\ CheckRest
  \/ \E c \in Requests : ReplyUnavailable(c) /\ CheckRest

CacheStep ==
  \/ \E e \in l2Writes : WriteLands(e) /\ CheckRest
  \/ \E e \in l2Writes : WriteLost(e) /\ CheckRest
  \/ \E n \in Nodes : \E e \in l1[n] : ExpireL1(n, e) /\ CheckRest
  \/ \E e \in l2 : ExpireL2(e) /\ CheckRest

SysNext == WriteStep \/ AdoptStep \/ NodeStep \/ CheckStep \/ CacheStep

SysSpec == SysInit /\ [][SysNext]_sysVars

-----------------------------------------------------------------------------
(* Every decision that a check may still be answered with. *)
Remembered ==
  (UNION {l1[n] : n \in Nodes}) \cup l2 \cup l2Writes
    \cup {req[c].entry : c \in {b \in Requests : req[b].stage \in {"hit", "computed"}}}

(* What a node answers a new check from, for every question. *)
Servable(n) == {d \in l1[n] \cup l2 : d.gen = gen[n]}

(* The grants table after the events numbered in asOf, and no others. *)
HeldAfter(asOf) ==
  {k \in Keys : \E e \in outbox :
     /\ e.seq \in asOf /\ e.key = k /\ e.type = "GrantAdded"
     /\ \A f \in outbox : f.seq \in asOf /\ f.key = k => f.seq <= e.seq}

(* Has the node learned of every write there is? *)
Informed(n) == phase[n] = "up" /\ \A s \in Committed : s <= gen[n]

(* Every variable stays in its type. *)
SysTypeOK == TypeOK /\ GenerationTypeOK /\ DecisionTypeOK /\ raced \subseteq 1..MaxSeq

(* A cached decision is never a guess: it is the answer the table gave at  *)
(* the moment the store was read, whatever was lost, late or unavailable.  *)
(* In particular an "unavailable" deny never gets into a cache.            *)
AnswersWereTrue ==
  \A d \in Remembered : d.allowed <=> Paths[d.query] \cap HeldAfter(d.asOf) # {}

(* A decision cached under generation g reflects every committed write     *)
(* numbered up to g (ADR-0001, ADR-0003), except the writes that were in   *)
(* flight when a node adopted a generation at or above their number.       *)
FreshUnlessRaced ==
  \A d \in Remembered : \A s \in Committed : s <= d.gen /\ s \notin raced => s \in d.asOf

(* What a client sees of it: while nothing has raced, a node that has      *)
(* learned of every write answers from its caches what Postgres answers.   *)
CurrentUnlessRaced ==
  raced = {} =>
    \A n \in Nodes : Informed(n) =>
      \A d \in Servable(n) : d.allowed <=> Allowed(d.query)

(* The same without the exception: "no node is still serving an allow from *)
(* cache afterwards" (invalidation.integration.test.ts), "nothing can be   *)
(* re-cached from a stale one" (ADR-0003).                                 *)
NoStaleAllow ==
  \A n \in Nodes : Informed(n) =>
    \A d \in Servable(n) : d.allowed => Allowed(d.query)

(* "A message arriving out of order cannot rewind a node": the generation  *)
(* of a process only grows, by whichever path the number arrives.          *)
NeverRewinds ==
  [][\A n \in Nodes : phase[n] = "up" /\ phase'[n] = "up" => gen'[n] >= gen[n]]_sysVars

(* A node never believes in a number that the sequence has not reached: if *)
(* it did, the writes that get those numbers later would not invalidate.   *)
NeverAhead ==
  \A n \in Nodes : gen[n] <= seqLast /\ \A v \in poll[n] : v <= seqLast

-----------------------------------------------------------------------------
(* Fairness. A node that is down is restarted by its supervisor; the timer *)
(* keeps firing while the node is up, and Postgres answers again and again *)
(* (strong: single polls may fail). Every await of a check ends. TTLs run  *)
(* out. Nothing is assumed of the relay, the broker, the writers or Stop.  *)
Under(cache, q, g) == {e \in cache : e.query = q /\ e.gen = g}

CheckProgress(c) ==
  L2Hit(c) \/ L2Miss(c) \/ StoreRead(c) \/ StoreFail(c)
    \/ ReplyHit(c) \/ ReplyComputed(c) \/ ReplyUnavailable(c)

SysFairness ==
  /\ \A n \in Nodes :
       /\ WF_sysVars(BootRead(n) /\ NodeRest)
       /\ WF_sysVars(BootAdopt(n) /\ Adopted(n))
       /\ WF_sysVars(PollRead(n) /\ NodeRest)
       /\ \A v \in 0..MaxSeq : SF_sysVars(PollAdopt(n, v) /\ Adopted(n))
       /\ \A q \in Queries, g \in 0..MaxSeq :
            WF_sysVars(\E e \in Under(l1[n], q, g) : ExpireL1(n, e) /\ CheckRest)
  /\ \A c \in Requests : WF_sysVars(CheckProgress(c) /\ CheckRest)
  /\ \A q \in Queries, g \in 0..MaxSeq :
       /\ WF_sysVars(\E e \in Under(l2, q, g) : ExpireL2(e) /\ CheckRest)
       /\ \A s \in SUBSET (1..MaxSeq) :
            WF_sysVars(\E e \in {x \in Under(l2Writes, q, g) : x.asOf = s} :
                         (WriteLands(e) \/ WriteLost(e)) /\ CheckRest)

SysFairSpec == SysSpec /\ SysFairness

(* "Nothing about correctness depends on the broker" (ADR-0001): once      *)
(* writes stop, every node that stays up gets to the last generation, also *)
(* if every message is lost.                                               *)
NodesConverge == <>[](\A n \in Nodes : phase[n] = "up" => gen[n] = seqLast)

(* A raced decision does not last: in the end every decision in a cache    *)
(* reflects every write its generation names.                              *)
StalenessEnds ==
  <>[](\A d \in Remembered : \A s \in Committed : s <= d.gen => s \in d.asOf)
=============================================================================
