--------------------------- MODULE DecisionService ---------------------------
(***************************************************************************)
(* DecisionService.check and compute, await by await, with the two caches  *)
(* they go through: MemoryDecisionCache in each node (L1) and              *)
(* RedisDecisionCache shared by all (L2). A layer over OutboxGeneration,   *)
(* whose current() it reads, and over the grants table, which is what      *)
(* PostgresReachability reads.                                             *)
(*                                                                         *)
(* The topology (teams, memberships, resources) is fixed once the system   *)
(* is seeded, so a question is abstracted to the set of grants of which    *)
(* any one allows it.                                                      *)
(***************************************************************************)
EXTENDS OutboxGeneration

CONSTANTS
  Queries,   \* questions (user, permission, resource)
  Paths,     \* Paths[q]: the grants that lie on a path from the user to the resource
  Requests,  \* bound: slots for checks that are under way
  MaxSets    \* bound: SETs to Redis under way at a time

ASSUME PathsAssumption == Paths \in [Queries -> SUBSET Keys]
ASSUME NonEmptyAssumption == Nodes # {} /\ Queries # {}

VARIABLES
  l1,        \* per node: its entries
  l2,        \* the entries in Redis
  l2Writes,  \* SETs that were sent to Redis and have not been executed
  req        \* the checks under way

decisionVars == <<l1, l2, l2Writes, req>>

(* A cached decision under decisionKey(query, gen). asOf is not in the     *)
(* code: it records which writes the store had committed when it was read. *)
Entry == [query : Queries, gen : 0..MaxSeq, allowed : BOOLEAN, asOf : SUBSET (1..MaxSeq)]

(* Wrong variant: only a user who holds every path is allowed. *)
AllowedByAll(q) == \A k \in Paths[q] : \E r \in rows : r.key = k

(* The answer of the store: PostgresReachability over the committed rows.  *)
Allowed(q) == \E r \in rows : r.key \in Paths[q]

Blank(q, g) == [query |-> q, gen |-> g, allowed |-> FALSE, asOf |-> {}]

Free == [stage |-> "free", node |-> CHOOSE n \in Nodes : TRUE,
         entry |-> Blank(CHOOSE q \in Queries : TRUE, 0)]

SameKey(x, e) == x.query = e.query /\ x.gen = e.gen

(* set(): replaces what was under the key. *)
Put(cache, e) == {x \in cache : ~SameKey(x, e)} \cup {e}

DecisionInit ==
  /\ l1 = [n \in Nodes |-> {}]
  /\ l2 = {} /\ l2Writes = {}
  /\ req = [c \in Requests |-> Free]

(* check: the generation is read once, and L1 has no entry under it. (An   *)
(* L1 hit is returned as it is and changes nothing: a stuttering step.)    *)
StartCheck(c, n, q) ==
  LET e == Blank(q, gen[n]) IN
  /\ req[c] = Free
  /\ phase[n] = "up"
  /\ \A x \in l1[n] : ~SameKey(x, e)
  /\ req' = [req EXCEPT ![c] = [stage |-> "l2", node |-> n, entry |-> e]]
  /\ UNCHANGED <<l1, l2, l2Writes>>

(* Wrong variant: the key in Redis does not carry the generation. *)
L2HitAnyGeneration(c) ==
  /\ req[c].stage = "l2"
  /\ \E e \in l2 :
       /\ e.query = req[c].entry.query
       /\ req' = [req EXCEPT ![c].stage = "hit",
                             ![c].entry = [e EXCEPT !.gen = req[c].entry.gen]]
  /\ UNCHANGED <<l1, l2, l2Writes>>

(* Redis has the entry. *)
L2Hit(c) ==
  /\ req[c].stage = "l2"
  /\ \E e \in l2 : /\ SameKey(e, req[c].entry)
                   /\ req' = [req EXCEPT ![c] = [@ EXCEPT !.stage = "hit", !.entry = e]]
  /\ UNCHANGED <<l1, l2, l2Writes>>

(* Redis has no entry, has one that does not parse, or cannot be reached.  *)
L2Miss(c) ==
  /\ req[c].stage = "l2"
  /\ req' = [req EXCEPT ![c] = [@ EXCEPT !.stage = "store"]]
  /\ UNCHANGED <<l1, l2, l2Writes>>

(* The snapshot of the query in Postgres. *)
StoreRead(c) ==
  LET e == [req[c].entry EXCEPT !.allowed = Allowed(req[c].entry.query),
                                !.asOf = Committed] IN
  /\ req[c].stage = "store"
  /\ req' = [req EXCEPT ![c] = [@ EXCEPT !.stage = "computed", !.entry = e]]
  /\ UNCHANGED <<l1, l2, l2Writes>>

(* The store cannot be reached: a deny, "unavailable", that stands for no  *)
(* state of the table.                                                     *)
StoreFail(c) ==
  /\ req[c].stage = "store"
  /\ req' = [req EXCEPT ![c] = [@ EXCEPT !.stage = "unavailable"]]
  /\ UNCHANGED <<l1, l2, l2Writes>>

Remember(n, e) == l1' = [l1 EXCEPT ![n] = Put(@, e)]

(* A SET is sent. One beyond the bound counts as lost at once. *)
Send(e) == l2Writes' = l2Writes \cup (IF Cardinality(l2Writes) < MaxSets THEN {e} ELSE {})

(* Wrong variant: an L2 hit is written back, which renews its TTL. *)
ReplyHitRenewing(c) ==
  /\ req[c].stage = "hit"
  /\ Remember(req[c].node, req[c].entry)
  /\ Send(req[c].entry)
  /\ req' = [req EXCEPT ![c] = Free]
  /\ UNCHANGED l2

(* An L2 hit is promoted into L1 and returned. *)
ReplyHit(c) ==
  /\ req[c].stage = "hit"
  /\ Remember(req[c].node, req[c].entry)
  /\ req' = [req EXCEPT ![c] = Free]
  /\ UNCHANGED <<l2, l2Writes>>

(* Wrong variant: the generation is read again for the set. *)
ReplyComputedRekeyed(c) ==
  LET e == [req[c].entry EXCEPT !.gen = gen[req[c].node]] IN
  /\ req[c].stage = "computed"
  /\ Remember(req[c].node, e)
  /\ Send(e)
  /\ req' = [req EXCEPT ![c] = Free]
  /\ UNCHANGED l2

(* A computed decision is sent to L2, which nobody waits for, put into L1, *)
(* and returned.                                                           *)
ReplyComputed(c) ==
  /\ req[c].stage = "computed"
  /\ Remember(req[c].node, req[c].entry)
  /\ Send(req[c].entry)
  /\ req' = [req EXCEPT ![c] = Free]
  /\ UNCHANGED l2

(* Wrong variant: the deny of an unreachable store is cached. *)
ReplyUnavailableCached(c) ==
  /\ req[c].stage = "unavailable"
  /\ Remember(req[c].node, req[c].entry)
  /\ req' = [req EXCEPT ![c] = Free]
  /\ UNCHANGED <<l2, l2Writes>>

(* A decision that could not be computed is returned and never cached. *)
ReplyUnavailable(c) ==
  /\ req[c].stage = "unavailable"
  /\ req' = [req EXCEPT ![c] = Free]
  /\ UNCHANGED <<l1, l2, l2Writes>>

(* A SET reaches Redis, however late; or it does not. *)
WriteLands(e) ==
  /\ e \in l2Writes
  /\ l2' = Put(l2, e)
  /\ l2Writes' = l2Writes \ {e}
  /\ UNCHANGED <<l1, req>>

WriteLost(e) ==
  /\ e \in l2Writes
  /\ l2Writes' = l2Writes \ {e}
  /\ UNCHANGED <<l1, l2, req>>

(* TTL (60 s in L1, 300 s in L2), eviction from a full L1, a corrupt entry *)
(* deleted by the get that found it, a Redis that lost its memory.         *)
ExpireL1(n, e) ==
  /\ e \in l1[n]
  /\ l1' = [l1 EXCEPT ![n] = @ \ {e}]
  /\ UNCHANGED <<l2, l2Writes, req>>

ExpireL2(e) ==
  /\ e \in l2
  /\ l2' = l2 \ {e}
  /\ UNCHANGED <<l1, l2Writes, req>>

(* What dies with a node's process. The SETs it sent do not. *)
ForgetNode(n) ==
  /\ l1' = [l1 EXCEPT ![n] = {}]
  /\ req' = [c \in Requests |-> IF req[c].node = n THEN Free ELSE req[c]]
  /\ UNCHANGED <<l2, l2Writes>>

DecisionTypeOK ==
  /\ l1 \in [Nodes -> SUBSET Entry]
  /\ l2 \subseteq Entry
  /\ l2Writes \subseteq Entry
  /\ req \in [Requests -> [stage : {"free", "l2", "hit", "store", "computed", "unavailable"},
                           node : Nodes, entry : Entry]]
=============================================================================
