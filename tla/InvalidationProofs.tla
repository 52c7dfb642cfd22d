------------------------- MODULE InvalidationProofs -------------------------
(***************************************************************************)
(* Proofs about Invalidation, for any number of nodes, checks, questions,  *)
(* connections and grants and for any bounds.                              *)
(*                                                                         *)
(* FreshUnlessRaced alone is not inductive: a write may commit after the   *)
(* decision was cached. What saves it is that a number still in flight is  *)
(* above every generation in use, or has raced (Closed), and that no       *)
(* generation in use is ahead of the sequence, so that the numbers drawn   *)
(* later are above it too.                                                 *)
(***************************************************************************)
EXTENDS Invalidation, GrantWritesProofs

(* No write that g names can still commit, but those that have raced. *)
Closed(g) == g <= seqLast /\ \A s \in InFlight : s <= g => s \in raced

Fresh(d) == \A s \in Committed : s <= d.gen /\ s \notin raced => s \in d.asOf

WasTrue(d) ==
  /\ d.asOf \subseteq Committed
  /\ d.allowed <=> Paths[d.query] \cap HeldAfter(d.asOf) # {}

Good(d) == Closed(d.gen) /\ Fresh(d) /\ WasTrue(d)

HasAnswer(c) == req[c].stage \in {"hit", "computed"}

NodesInv ==
  \A n \in Nodes : Closed(gen[n]) /\ \A v \in poll[n] : v <= seqLast

CachesInv ==
  /\ \A n \in Nodes : \A d \in l1[n] : Good(d)
  /\ \A d \in l2 : Good(d)
  /\ \A d \in l2Writes : Good(d)
  /\ \A c \in Requests : /\ Closed(req[c].entry.gen)
                         /\ HasAnswer(c) => Good(req[c].entry)

SysInv == Inv /\ SysTypeOK /\ NodesInv /\ CachesInv

-----------------------------------------------------------------------------
LEMMA FreeType ==
  /\ Free \in [stage : {"free", "l2", "hit", "store", "computed", "unavailable"},
               node : Nodes, entry : Entry]
  /\ Free.stage = "free" /\ Free.entry.gen = 0
<1>1. (CHOOSE n \in Nodes : TRUE) \in Nodes /\ (CHOOSE q \in Queries : TRUE) \in Queries
  BY NonEmptyAssumption
<1>2. 0 \in 0..MaxSeq
  BY BoundsAssumption
<1>3. Blank(CHOOSE q \in Queries : TRUE, 0) \in Entry
  BY <1>1, <1>2 DEF Blank, Entry
<1> QED
  BY <1>1, <1>3 DEF Free, Blank

LEMMA PutType ==
  ASSUME NEW cache, cache \subseteq Entry, NEW e \in Entry
  PROVE  Put(cache, e) \subseteq Entry /\ \A x \in Put(cache, e) : x \in cache \/ x = e
BY DEF Put

LEMMA SysInitInv == SysInit => SysInv
<1> SUFFICES ASSUME SysInit PROVE SysInv
  OBVIOUS
<1>1. Inv /\ TypeOK
  BY InitInv DEF SysInit, Inv
<1>2. InFlight = {} /\ seqLast = 0
  BY IdleType DEF SysInit, Init, InFlight
<1>3. \A c \in Requests : req[c] = Free
  BY DEF SysInit, DecisionInit
<1>4. SysTypeOK
  BY <1>1, <1>3, FreeType, BoundsAssumption
  DEF SysInit, SysTypeOK, GenerationInit, GenerationTypeOK, DecisionInit, DecisionTypeOK
<1>5. Closed(0)
  BY <1>2 DEF Closed
<1>6. NodesInv
  BY <1>5 DEF SysInit, GenerationInit, NodesInv
<1>7. CachesInv
  BY <1>3, <1>5, FreeType DEF SysInit, DecisionInit, CachesInv, HasAnswer
<1> QED
  BY <1>1, <1>4, <1>6, <1>7 DEF SysInv

-----------------------------------------------------------------------------
(* What a step of the write side can do to what the layers above rely on:  *)
(* the sequence grows, a new number in flight is above what the sequence   *)
(* had reached, and at most one event appears, whose number was in flight. *)
LEMMA WriteEffect ==
  ASSUME Inv, WriteStep
  PROVE  /\ [Next]_vars
         /\ seqLast' >= seqLast
         /\ \A s \in InFlight' : s \in InFlight \/ s > seqLast
         /\ \/ UNCHANGED outbox
            \/ \E e : /\ outbox' = outbox \cup {e}
                      /\ e.seq \in InFlight /\ e.seq \notin Committed
<1>0. seqLast \in Nat /\ TypeOK
  BY BoundsAssumption DEF Inv, TypeOK
<1>n. [Next]_vars
  BY DEF WriteStep, Next
<1>1. ASSUME NEW w \in Writers, NEW t, txn' = [txn EXCEPT ![w] = t], t.stage # "enqueued"
      PROVE  InFlight' \subseteq InFlight
  <2>1. \A v \in Writers : txn'[v].stage = "enqueued" => txn'[v] = txn[v]
    BY <1>0, <1>1, OthersKeep
  <2> QED
    BY <2>1 DEF InFlight
<1>2. ASSUME NEW w \in Writers, NEW k \in Keys, InsertGrant(w, k)
      PROVE  InFlight' \subseteq InFlight /\ UNCHANGED <<seqLast, outbox>>
  <2> DEFINE t == Begun("GrantAdded", [id |-> nextId + 1, key |-> k], EdgeOf(k) \notin edges)
  <2>1. t.stage # "enqueued" /\ txn' = [txn EXCEPT ![w] = t]
    BY <1>2 DEF InsertGrant, Begun
  <2> HIDE DEF t
  <2> QED
    BY <1>1, <1>2, <2>1 DEF InsertGrant
<1>3. ASSUME NEW w \in Writers, NEW r \in rows, DeleteGrant(w, r)
      PROVE  InFlight' \subseteq InFlight /\ UNCHANGED <<seqLast, outbox>>
  <2> DEFINE t == Begun("GrantRevoked", r, EdgeOf(r.key) \in edges)
  <2>1. t.stage # "enqueued" /\ txn' = [txn EXCEPT ![w] = t]
    BY <1>3 DEF DeleteGrant, Begun
  <2> HIDE DEF t
  <2> QED
    BY <1>1, <1>3, <2>1 DEF DeleteGrant
<1>4. ASSUME NEW w \in Writers, Rollback(w)
      PROVE  InFlight' \subseteq InFlight /\ UNCHANGED <<seqLast, outbox>>
  BY <1>1, <1>4, IdleType DEF Rollback
<1>5. ASSUME NEW w \in Writers, Enqueue(w)
      PROVE  /\ UNCHANGED outbox /\ seqLast' = seqLast + 1
             /\ InFlight' \subseteq InFlight \cup {seqLast + 1}
  <2>1. txn' = [txn EXCEPT ![w] = [txn[w] EXCEPT !.stage = "enqueued", !.seq = seqLast + 1]]
    BY <1>0, <1>5 DEF Enqueue, TypeOK
  <2>2. \A v \in Writers : v # w => txn'[v] = txn[v]
    BY <1>0, <2>1, OthersKeep
  <2>3. txn'[w].seq = seqLast + 1
    BY <1>0, <2>1 DEF TypeOK, Txn
  <2> QED
    BY <1>5, <2>2, <2>3, ZenonT(40) DEF Enqueue, InFlight
<1>6. ASSUME NEW w \in Writers, Commit(w)
      PROVE  /\ UNCHANGED seqLast /\ InFlight' \subseteq InFlight
             /\ outbox' = outbox \cup {EventOf(txn[w])}
             /\ EventOf(txn[w]).seq \in InFlight /\ EventOf(txn[w]).seq \notin Committed
  <2>1. InFlight' \subseteq InFlight
    BY <1>1, <1>6, IdleType DEF Commit
  <2>2. EventOf(txn[w]).seq = txn[w].seq /\ txn[w].stage = "enqueued"
    BY <1>6 DEF Commit, EventOf
  <2> QED
    BY <1>6, <2>1, <2>2 DEF Commit, InFlight, Committed, Inv, Numbering
<1> QED
  BY <1>0, <1>n, <1>2, <1>3, <1>4, <1>5, <1>6 DEF WriteStep

LEMMA ClosedKept ==
  ASSUME SysInv, WriteStep, raced' = raced, NEW g \in 0..MaxSeq, Closed(g)
  PROVE  Closed(g)'
<1>1. seqLast \in Nat /\ seqLast' \in Nat /\ g \in Nat
  BY TypeStep, WriteEffect, BoundsAssumption DEF SysInv, Inv, TypeOK
<1>2. \A s \in InFlight : s \in Nat
  BY BoundsAssumption DEF InFlight, SysInv, Inv, TypeOK, Txn
<1>3. \A s \in InFlight' : s \in InFlight \/ s > seqLast
  BY WriteEffect DEF SysInv
<1>4. \A s \in InFlight' : s \in Nat
  BY TypeStep, WriteEffect, BoundsAssumption DEF InFlight, SysInv, Inv, TypeOK, Txn
<1> QED
  BY <1>1, <1>2, <1>3, <1>4, WriteEffect DEF Closed, SysInv

(* A write that commits late was in flight under every generation in use:  *)
(* the decisions that miss it are excused, and their answer stands.        *)
LEMMA GoodKept ==
  ASSUME SysInv, WriteStep, raced' = raced, NEW d \in Entry, Good(d)
  PROVE  Good(d)'
<1>1. Closed(d.gen)'
  BY ClosedKept DEF Good, Entry
<1>2. CASE UNCHANGED outbox
  BY <1>1, <1>2 DEF Good, Fresh, WasTrue, Committed, HeldAfter
<1>3. ASSUME NEW e, outbox' = outbox \cup {e}, e.seq \in InFlight, e.seq \notin Committed
      PROVE  Good(d)'
  <2>1. Committed' = Committed \cup {e.seq}
    BY <1>3 DEF Committed
  <2>2. Fresh(d)'
    BY <1>3, <2>1 DEF Good, Fresh, Closed
  <2>3. e.seq \notin d.asOf
    BY <1>3 DEF Good, WasTrue
  <2>4. HeldAfter(d.asOf)' = HeldAfter(d.asOf)
    BY <1>3, <2>3 DEF HeldAfter
  <2>5. WasTrue(d)'
    BY <2>1, <2>4 DEF Good, WasTrue
  <2> QED
    BY <1>1, <2>2, <2>5 DEF Good
<1> QED
  BY <1>2, <1>3, WriteEffect DEF SysInv

LEMMA WriteStepInv == SysInv /\ WriteStep => SysInv'
<1> SUFFICES ASSUME SysInv, WriteStep PROVE SysInv'
  OBVIOUS
<1>1. UNCHANGED <<phase, gen, poll, l1, l2, l2Writes, req, raced>>
  BY DEF WriteStep, WriteRest, generationVars, decisionVars
<1>2. Inv'
  BY WriteEffect, NextInv DEF SysInv
<1>3. SysTypeOK'
  BY <1>1, <1>2 DEF SysInv, SysTypeOK, Inv, GenerationTypeOK, DecisionTypeOK
<1>4. NodesInv'
  <2>1. \A n \in Nodes : gen[n] \in 0..MaxSeq /\ \A v \in poll[n] : v \in Nat
    BY BoundsAssumption DEF SysInv, SysTypeOK, GenerationTypeOK
  <2>2. \A n \in Nodes : Closed(gen[n])'
    BY <1>1, <2>1, ClosedKept DEF SysInv, NodesInv
  <2>3. seqLast \in Nat /\ seqLast' \in Nat /\ seqLast' >= seqLast
    BY <1>2, WriteEffect, BoundsAssumption DEF SysInv, Inv, TypeOK
  <2>4. \A n \in Nodes : \A v \in poll[n] : v <= seqLast'
    BY <2>1, <2>3 DEF SysInv, NodesInv
  <2> QED
    BY <1>1, <2>2, <2>4 DEF NodesInv
<1>5. CachesInv'
  <2>1. \A n \in Nodes : \A d \in l1[n] : d \in Entry
    BY DEF SysInv, SysTypeOK, DecisionTypeOK
  <2>2. l2 \subseteq Entry /\ l2Writes \subseteq Entry
    BY DEF SysInv, SysTypeOK, DecisionTypeOK
  <2>3. \A c \in Requests : req[c].entry \in Entry /\ req[c].entry.gen \in 0..MaxSeq
    BY DEF SysInv, SysTypeOK, DecisionTypeOK, Entry
  <2>4. \A n \in Nodes : \A d \in l1[n] : Good(d)'
    BY <1>1, <2>1, GoodKept DEF SysInv, CachesInv
  <2>5. \A d \in l2 \cup l2Writes : Good(d)'
    BY <1>1, <2>2, GoodKept DEF SysInv, CachesInv
  <2>6. \A c \in Requests : Closed(req[c].entry.gen)' /\ (HasAnswer(c) => Good(req[c].entry)')
    BY <1>1, <2>3, ClosedKept, GoodKept DEF SysInv, CachesInv
  <2> QED
    BY <1>1, <2>4, <2>5, <2>6 DEF CachesInv, HasAnswer
<1> QED
  BY <1>2, <1>3, <1>4, <1>5 DEF SysInv

-----------------------------------------------------------------------------
(* Adopting a generation makes the numbers in flight below it race, so     *)
(* what is closed and fresh stays so, and the new generation is closed.    *)
LEMMA AdoptStepInv == SysInv /\ AdoptStep => SysInv'
<1> SUFFICES ASSUME SysInv, AdoptStep PROVE SysInv'
  OBVIOUS
<1>1. PICK n \in Nodes, v \in 0..MaxSeq :
        /\ v <= seqLast /\ Adopted(n)
        /\ gen' = [gen EXCEPT ![n] = Advance(gen[n], v)]
        /\ phase' = [phase EXCEPT ![n] = "up"]
        /\ \A m \in Nodes : poll'[m] \subseteq poll[m]
        /\ poll' \in [Nodes -> SUBSET (0..MaxSeq)]
  <2>t. /\ poll \in [Nodes -> SUBSET (0..MaxSeq)] /\ phase \in [Nodes -> {"down", "starting", "up"}]
        /\ \A m \in Nodes : \A v \in poll[m] : v <= seqLast
    BY DEF SysInv, SysTypeOK, GenerationTypeOK, NodesInv
  <2>1. ASSUME NEW n \in Nodes, BootAdopt(n), Adopted(n)
        PROVE  \E v \in 0..MaxSeq :
                 /\ v <= seqLast
                 /\ gen' = [gen EXCEPT ![n] = Advance(gen[n], v)]
                 /\ phase' = [phase EXCEPT ![n] = "up"]
                 /\ \A m \in Nodes : poll'[m] \subseteq poll[m]
                 /\ poll' \in [Nodes -> SUBSET (0..MaxSeq)]
    BY <2>t, <2>1 DEF BootAdopt
  <2>2. ASSUME NEW n \in Nodes, NEW v \in poll[n], PollAdopt(n, v), Adopted(n)
        PROVE  /\ v \in 0..MaxSeq /\ v <= seqLast
               /\ gen' = [gen EXCEPT ![n] = Advance(gen[n], v)]
               /\ phase' = [phase EXCEPT ![n] = "up"]
               /\ \A m \in Nodes : poll'[m] \subseteq poll[m]
               /\ poll' \in [Nodes -> SUBSET (0..MaxSeq)]
    BY <2>t, <2>2 DEF PollAdopt
  <2>3. ASSUME NEW n \in Nodes, NEW s \in Committed, Observe(n, s), Adopted(n)
        PROVE  /\ s \in 0..MaxSeq /\ s <= seqLast
               /\ gen' = [gen EXCEPT ![n] = Advance(gen[n], s)]
               /\ phase' = [phase EXCEPT ![n] = "up"]
               /\ \A m \in Nodes : poll'[m] \subseteq poll[m]
               /\ poll' \in [Nodes -> SUBSET (0..MaxSeq)]
    <3>1. s \in 1..MaxSeq /\ s <= seqLast
      BY DEF Committed, SysInv, Inv, TypeOK, Events, Numbering
    <3> QED
      BY <2>t, <2>3, <3>1, BoundsAssumption DEF Observe
  <2> QED
    BY <2>1, <2>2, <2>3, <2>t DEF AdoptStep
<1>2. /\ UNCHANGED vars /\ UNCHANGED <<l1, l2, l2Writes, req>>
      /\ raced' = raced \cup {s \in InFlight : s <= gen'[n]}
  BY <1>1 DEF Adopted, decisionVars
<1>3. UNCHANGED <<rows, edges, outbox, seqLast, nextId, txn>>
  BY <1>2 DEF vars
<1>4. Inv'
  BY <1>2, NextInv DEF SysInv
<1>5. InFlight' = InFlight /\ Committed' = Committed
  BY <1>3 DEF InFlight, Committed
<1>6. \A g \in 0..MaxSeq : Closed(g) => Closed(g)'
  BY <1>2, <1>3, <1>5 DEF Closed
<1>7. gen \in [Nodes -> 0..MaxSeq] /\ gen'[n] \in 0..MaxSeq /\ gen'[n] <= seqLast
  BY <1>1, BoundsAssumption DEF Advance, SysInv, SysTypeOK, GenerationTypeOK, NodesInv, Closed
<1>8. gen' \in [Nodes -> 0..MaxSeq] /\ \A m \in Nodes : m # n => gen'[m] = gen[m]
  BY <1>1, <1>7
<1>9. SysTypeOK'
  <2>1. InFlight \subseteq 1..MaxSeq
    BY DEF InFlight, SysInv, Inv, TypeOK, Txn, IsOpen
  <2>2. raced' \subseteq 1..MaxSeq
    BY <1>2, <2>1 DEF SysInv, SysTypeOK
  <2>3. phase' \in [Nodes -> {"down", "starting", "up"}]
    BY <1>1 DEF SysInv, SysTypeOK, GenerationTypeOK
  <2> QED
    BY <1>1, <1>2, <1>4, <1>8, <2>2, <2>3
    DEF SysInv, SysTypeOK, Inv, GenerationTypeOK, DecisionTypeOK
<1>10. NodesInv'
  <2>1. Closed(gen[n])'
    BY <1>2, <1>3, <1>5, <1>7 DEF Closed
  <2>2. \A m \in Nodes : m # n => Closed(gen[m])'
    BY <1>6, <1>7, <1>8 DEF SysInv, NodesInv
  <2> QED
    BY <1>1, <1>3, <2>1, <2>2 DEF SysInv, NodesInv
<1>11. \A d \in Entry : Good(d) => Good(d)'
  <2> SUFFICES ASSUME NEW d \in Entry, Good(d) PROVE Good(d)'
    OBVIOUS
  <2>1. Closed(d.gen)'
    BY <1>6 DEF Good, Entry
  <2>2. Fresh(d)'
    BY <1>2, <1>5 DEF Good, Fresh
  <2>3. WasTrue(d)'
    BY <1>3, <1>5 DEF Good, WasTrue, HeldAfter
  <2> QED
    BY <2>1, <2>2, <2>3 DEF Good
<1>12. CachesInv'
  <2>1. /\ \A m \in Nodes : l1[m] \subseteq Entry
        /\ l2 \subseteq Entry /\ l2Writes \subseteq Entry
        /\ \A c \in Requests : req[c].entry \in Entry /\ req[c].entry.gen \in 0..MaxSeq
    BY DEF SysInv, SysTypeOK, DecisionTypeOK, Entry
  <2> QED
    BY <1>2, <1>6, <1>11, <2>1 DEF SysInv, CachesInv, HasAnswer
<1> QED
  BY <1>4, <1>9, <1>10, <1>12 DEF SysInv

-----------------------------------------------------------------------------
(* The steps below leave the write side and raced alone. *)
LEMMA UnderSame ==
  ASSUME UNCHANGED vars, UNCHANGED raced
  PROVE  /\ UNCHANGED <<rows, edges, outbox, seqLast, nextId, txn>>
         /\ \A g : Closed(g)' <=> Closed(g)
         /\ \A d : Good(d)' <=> Good(d)
<1>1. UNCHANGED <<rows, edges, outbox, seqLast, nextId, txn>>
  BY DEF vars
<1>2. InFlight' = InFlight /\ Committed' = Committed
  BY <1>1 DEF InFlight, Committed
<1>3. \A g : Closed(g)' <=> Closed(g)
  BY <1>1, <1>2 DEF Closed
<1>4. \A d : Good(d)' <=> Good(d)
  <2> TAKE d
  <2>1. Closed(d.gen)' <=> Closed(d.gen)
    BY <1>1, <1>2 DEF Closed
  <2>2. Fresh(d)' <=> Fresh(d)
    BY <1>2 DEF Fresh
  <2>3. WasTrue(d)' <=> WasTrue(d)
    BY <1>1, <1>2 DEF WasTrue, HeldAfter
  <2> QED
    BY <2>1, <2>2, <2>3 DEF Good
<1> QED
  BY <1>1, <1>3, <1>4

LEMMA ClosedZero == SysInv => Closed(0)
BY BoundsAssumption DEF Closed, InFlight, SysInv, SysTypeOK, TypeOK, Txn, IsOpen

LEMMA NodeStepInv == SysInv /\ NodeStep => SysInv'
<1> SUFFICES ASSUME SysInv, NodeStep PROVE SysInv'
  OBVIOUS
<1>t. /\ phase \in [Nodes -> {"down", "starting", "up"}]
      /\ gen \in [Nodes -> 0..MaxSeq] /\ poll \in [Nodes -> SUBSET (0..MaxSeq)]
      /\ l1 \in [Nodes -> SUBSET Entry] /\ l2 \subseteq Entry /\ l2Writes \subseteq Entry
      /\ req \in [Requests -> [stage : {"free", "l2", "hit", "store", "computed", "unavailable"},
                               node : Nodes, entry : Entry]]
      /\ raced \subseteq 1..MaxSeq /\ seqLast \in 0..MaxSeq
  BY DEF SysInv, SysTypeOK, TypeOK, GenerationTypeOK, DecisionTypeOK
<1>0. UNCHANGED vars /\ UNCHANGED raced
  BY DEF NodeStep, NodeRest
<1>1. /\ UNCHANGED <<rows, edges, outbox, seqLast, nextId, txn>>
      /\ \A g : Closed(g)' <=> Closed(g)
      /\ \A d : Good(d)' <=> Good(d)
  BY <1>0, UnderSame
<1>2. Inv'
  BY <1>0, NextInv DEF SysInv
<1>3. ASSUME NEW n \in Nodes, NodeRest, UNCHANGED gen,
             phase' \in [Nodes -> {"down", "starting", "up"}],
             NEW p \in SUBSET (0..MaxSeq), poll' = [poll EXCEPT ![n] = p],
             \A v \in p : v <= seqLast
      PROVE  SysInv'
  <2>1. UNCHANGED <<l1, l2, l2Writes, req>>
    BY <1>3 DEF NodeRest, decisionVars
  <2>2. SysTypeOK'
    BY <1>t, <1>0, <1>2, <1>3, <2>1 DEF SysTypeOK, Inv, GenerationTypeOK, DecisionTypeOK
  <2>3. \A m \in Nodes : \A v \in poll'[m] : v <= seqLast
    BY <1>t, <1>3 DEF SysInv, NodesInv
  <2>4. NodesInv'
    BY <1>1, <1>3, <2>3 DEF SysInv, NodesInv
  <2>5. CachesInv'
    BY <1>1, <2>1 DEF SysInv, CachesInv, HasAnswer
  <2> QED
    BY <1>2, <2>2, <2>4, <2>5 DEF SysInv
<1>4. ASSUME NEW n \in Nodes, BootRead(n), NodeRest PROVE SysInv'
  <2>1. {seqLast} \in SUBSET (0..MaxSeq) /\ \A u \in {seqLast} : u <= seqLast
    BY <1>t
  <2>2. phase' \in [Nodes -> {"down", "starting", "up"}]
        /\ poll' = [poll EXCEPT ![n] = {seqLast}] /\ UNCHANGED gen
    BY <1>t, <1>4 DEF BootRead
  <2> QED
    BY <1>3, <1>4, <2>1, <2>2
<1>5. ASSUME NEW n \in Nodes, PollRead(n), NodeRest PROVE SysInv'
  <2>1. poll[n] \cup {seqLast} \in SUBSET (0..MaxSeq)
    BY <1>t
  <2>2. \A v \in poll[n] \cup {seqLast} : v <= seqLast
    BY <1>t DEF SysInv, NodesInv
  <2>3. phase' \in [Nodes -> {"down", "starting", "up"}]
        /\ poll' = [poll EXCEPT ![n] = poll[n] \cup {seqLast}]
    BY <1>t, <1>5 DEF PollRead
  <2> QED
    BY <1>3, <1>5, <2>1, <2>2, <2>3 DEF PollRead
<1>6. ASSUME NEW n \in Nodes, NEW v \in poll[n], PollFail(n, v), NodeRest PROVE SysInv'
  <2>1. poll[n] \ {v} \in SUBSET (0..MaxSeq)
    BY <1>t
  <2>2. \A u \in poll[n] \ {v} : u <= seqLast
    BY DEF SysInv, NodesInv
  <2>3. phase' \in [Nodes -> {"down", "starting", "up"}]
        /\ poll' = [poll EXCEPT ![n] = poll[n] \ {v}]
    BY <1>t, <1>6 DEF PollFail
  <2> QED
    BY <1>3, <1>6, <2>1, <2>2, <2>3 DEF PollFail
<1>7. ASSUME NEW n \in Nodes, Stop(n), ForgetNode(n) PROVE SysInv'
  <2>1. /\ phase' \in [Nodes -> {"down", "starting", "up"}]
        /\ gen' \in [Nodes -> 0..MaxSeq] /\ poll' \in [Nodes -> SUBSET (0..MaxSeq)]
        /\ \A m \in Nodes : gen'[m] = gen[m] \/ gen'[m] = 0
        /\ \A m \in Nodes : poll'[m] \subseteq poll[m]
        /\ \A m \in Nodes : l1'[m] \subseteq l1[m]
        /\ l1' \in [Nodes -> SUBSET Entry]
        /\ UNCHANGED <<l2, l2Writes>>
    BY <1>t, <1>7, BoundsAssumption DEF Stop, ForgetNode
  <2>2. \A c \in Requests : req'[c] = req[c] \/ req'[c] = Free
    BY <1>7 DEF ForgetNode
  <2>3. DecisionTypeOK'
    BY <1>t, <1>7, <2>1, FreeType DEF ForgetNode, DecisionTypeOK
  <2>4. SysTypeOK'
    BY <1>t, <1>0, <1>2, <2>1, <2>3 DEF SysTypeOK, Inv, GenerationTypeOK
  <2>5. Closed(0)
    BY ClosedZero
  <2>6. NodesInv'
    BY <1>1, <2>1, <2>5 DEF SysInv, NodesInv
  <2>7. \A c \in Requests : Closed(req'[c].entry.gen) /\ (req'[c].stage \in {"hit", "computed"} => Good(req'[c].entry))
    BY <2>2, <2>5, FreeType DEF SysInv, CachesInv, HasAnswer
  <2>8. CachesInv'
    BY <1>1, <2>1, <2>7 DEF SysInv, CachesInv, HasAnswer
  <2> QED
    BY <1>2, <2>4, <2>6, <2>8 DEF SysInv
<1> QED
  BY <1>4, <1>5, <1>6, <1>7 DEF NodeStep

(* Replaying all there is yields the table. *)
LEMMA HeldIsTable ==
  ASSUME SysInv, NEW k \in Keys
  PROVE  k \in HeldAfter(Committed) <=> \E r \in rows : r.key = k
<1>1. \A f \in outbox : f.seq \in Committed
  BY DEF Committed
<1>2. k \in HeldAfter(Committed) <=> \E f \in outbox : LastEvent(k, f) /\ f.type = "GrantAdded"
  BY <1>1 DEF HeldAfter, LastEvent
<1>3. (\E r \in rows : r.key = k) <=> \E f \in outbox : LastEvent(k, f) /\ f.type = "GrantAdded"
  BY DEF SysInv, Inv, ReplayIsTable
<1> QED
  BY <1>2, <1>3

(* A decision read from the store is good: what it reflects is all there   *)
(* is, and replaying all there is yields the table (ReplayIsTable).        *)
LEMMA StoreReadGood ==
  ASSUME SysInv, NEW d \in Entry, Closed(d.gen)
  PROVE  LET e == [d EXCEPT !.allowed = Allowed(d.query), !.asOf = Committed]
         IN  e \in Entry /\ Good(e)
<1> DEFINE a == Allowed(d.query)
           e == [d EXCEPT !.allowed = a, !.asOf = Committed]
<1>1. Committed \in SUBSET (1..MaxSeq)
  BY DEF SysInv, Inv, TypeOK, Events, Committed
<1>2. a \in BOOLEAN /\ (a <=> Allowed(d.query))
  BY DEF Allowed
<1> HIDE DEF a
<1>3. /\ e \in Entry /\ e.query = d.query /\ e.gen = d.gen
      /\ e.allowed = a /\ e.asOf = Committed
  BY <1>1, <1>2 DEF Entry
<1> HIDE DEF e
<1>4. \A k \in Keys : k \in HeldAfter(Committed) <=> \E r \in rows : r.key = k
  BY HeldIsTable
<1>5. Allowed(d.query) <=> Paths[d.query] \cap HeldAfter(Committed) # {}
  <2>1. Paths[d.query] \subseteq Keys
    BY PathsAssumption DEF Entry
  <2> QED
    BY <1>4, <2>1 DEF Allowed
<1>6. WasTrue(e)
  BY <1>2, <1>3, <1>5 DEF WasTrue
<1>7. Fresh(e)
  BY <1>3 DEF Fresh
<1>8. e \in Entry /\ Good(e)
  BY <1>3, <1>6, <1>7 DEF Good
<1> QED
  BY <1>8 DEF a, e

(* One check changes at a time; L1 and the SETs under way may gain what    *)
(* the check has been answered with.                                       *)
LEMMA CheckKeeps ==
  ASSUME SysInv, CheckRest,
         NEW c \in Requests, NEW t, req' = [req EXCEPT ![c] = t],
         t \in [stage : {"free", "l2", "hit", "store", "computed", "unavailable"},
                node : Nodes, entry : Entry],
         Closed(t.entry.gen),
         t.stage \in {"hit", "computed"} => Good(t.entry),
         l1' \in [Nodes -> SUBSET Entry],
         \A n \in Nodes : \A d \in l1'[n] : Good(d),
         UNCHANGED l2,
         l2Writes' \subseteq Entry, \A d \in l2Writes' : Good(d)
  PROVE  SysInv'
<1>1. UNCHANGED vars /\ UNCHANGED raced /\ UNCHANGED <<phase, gen, poll>>
  BY DEF CheckRest, generationVars
<1>2. /\ UNCHANGED <<rows, edges, outbox, seqLast, nextId, txn>>
      /\ \A g : Closed(g)' <=> Closed(g)
      /\ \A d : Good(d)' <=> Good(d)
  BY <1>1, UnderSame
<1>3. Inv'
  BY <1>1, NextInv DEF SysInv
<1>4. /\ req \in [Requests -> [stage : {"free", "l2", "hit", "store", "computed", "unavailable"},
                               node : Nodes, entry : Entry]]
      /\ l2 \subseteq Entry
  BY DEF SysInv, SysTypeOK, DecisionTypeOK
<1>5. DecisionTypeOK'
  BY <1>4 DEF DecisionTypeOK
<1>6. SysTypeOK'
  BY <1>1, <1>3, <1>5 DEF SysInv, SysTypeOK, Inv, GenerationTypeOK
<1>7. NodesInv'
  BY <1>1, <1>2 DEF SysInv, NodesInv
<1>8. \A b \in Requests : req'[b] = t \/ req'[b] = req[b]
  BY <1>4
<1>9. \A b \in Requests : /\ Closed(req'[b].entry.gen)
                          /\ req'[b].stage \in {"hit", "computed"} => Good(req'[b].entry)
  BY <1>8 DEF SysInv, CachesInv, HasAnswer
<1>10. CachesInv'
  BY <1>2, <1>9 DEF SysInv, CachesInv, HasAnswer
<1> QED
  BY <1>3, <1>6, <1>7, <1>10 DEF SysInv

LEMMA CheckStepInv == SysInv /\ CheckStep => SysInv'
<1> SUFFICES ASSUME SysInv, CheckStep PROVE SysInv'
  OBVIOUS
<1> DEFINE ReqType == [stage : {"free", "l2", "hit", "store", "computed", "unavailable"},
                       node : Nodes, entry : Entry]
<1>t. /\ gen \in [Nodes -> 0..MaxSeq]
      /\ l1 \in [Nodes -> SUBSET Entry] /\ l2 \subseteq Entry /\ l2Writes \subseteq Entry
      /\ req \in [Requests -> ReqType]
  BY DEF SysInv, SysTypeOK, GenerationTypeOK, DecisionTypeOK
<1>g. /\ \A n \in Nodes : \A d \in l1[n] : Good(d)
      /\ \A d \in l2 : Good(d)
      /\ \A d \in l2Writes : Good(d)
      /\ \A c \in Requests : /\ Closed(req[c].entry.gen)
                             /\ req[c].stage \in {"hit", "computed"} => Good(req[c].entry)
      /\ \A n \in Nodes : Closed(gen[n])
  BY DEF SysInv, CachesInv, NodesInv, HasAnswer
<1>r. Free \in ReqType /\ Closed(Free.entry.gen) /\ Free.stage = "free"
  BY ClosedZero, FreeType
<1>1. ASSUME NEW c \in Requests, NEW n \in Nodes, NEW q \in Queries,
             StartCheck(c, n, q), CheckRest
      PROVE  SysInv'
  <2> DEFINE e == Blank(q, gen[n])
             t == [stage |-> "l2", node |-> n, entry |-> e]
  <2>1. e \in Entry /\ e.gen = gen[n]
    BY <1>t DEF Blank, Entry
  <2>2. t \in ReqType /\ t.entry = e /\ t.stage = "l2"
    BY <2>1
  <2>3. req' = [req EXCEPT ![c] = t] /\ UNCHANGED <<l1, l2, l2Writes>>
    BY <1>1 DEF StartCheck
  <2>4. Closed(t.entry.gen)
    BY <1>g, <2>1, <2>2
  <2> HIDE DEF t, e
  <2> QED
    BY <1>1, <1>t, <1>g, <2>2, <2>3, <2>4, CheckKeeps
<1>2. ASSUME NEW c \in Requests, L2Hit(c), CheckRest
      PROVE  SysInv'
  <2>1. PICK e \in l2 : req' = [req EXCEPT ![c] = [req[c] EXCEPT !.stage = "hit", !.entry = e]]
    BY <1>2 DEF L2Hit
  <2> DEFINE t == [req[c] EXCEPT !.stage = "hit", !.entry = e]
  <2>2. e \in Entry /\ Good(e)
    BY <1>t, <1>g
  <2>3. t \in ReqType /\ t.entry = e
    BY <1>t, <2>2
  <2>4. req' = [req EXCEPT ![c] = t] /\ UNCHANGED <<l1, l2, l2Writes>>
    BY <1>2, <2>1 DEF L2Hit
  <2> HIDE DEF t
  <2> QED
    BY <1>2, <1>t, <1>g, <2>2, <2>3, <2>4, CheckKeeps DEF Good
<1>3. ASSUME NEW c \in Requests, L2Miss(c) \/ StoreFail(c), CheckRest
      PROVE  SysInv'
  <2>1. PICK s \in {"store", "unavailable"} : req' = [req EXCEPT ![c] = [req[c] EXCEPT !.stage = s]]
    BY <1>3 DEF L2Miss, StoreFail
  <2> DEFINE t == [req[c] EXCEPT !.stage = s]
  <2>2. t \in ReqType /\ t.entry = req[c].entry /\ t.stage = s
    BY <1>t
  <2>3. req' = [req EXCEPT ![c] = t] /\ UNCHANGED <<l1, l2, l2Writes>>
    BY <1>3, <2>1 DEF L2Miss, StoreFail
  <2> HIDE DEF t
  <2> QED
    BY <1>3, <1>t, <1>g, <2>2, <2>3, CheckKeeps
<1>4. ASSUME NEW c \in Requests, StoreRead(c), CheckRest
      PROVE  SysInv'
  <2> DEFINE e == [req[c].entry EXCEPT !.allowed = Allowed(req[c].entry.query), !.asOf = Committed]
             t == [req[c] EXCEPT !.stage = "computed", !.entry = e]
  <2>1. req[c].entry \in Entry /\ Closed(req[c].entry.gen)
    BY <1>t, <1>g
  <2>3. req' = [req EXCEPT ![c] = t] /\ UNCHANGED <<l1, l2, l2Writes>>
    BY <1>4 DEF StoreRead
  <2>4. e \in Entry /\ Good(e)
    BY <2>1, StoreReadGood
  <2> HIDE DEF e
  <2>5. t \in ReqType /\ t.entry = e
    BY <1>t, <2>4
  <2> HIDE DEF t
  <2> QED
    BY <1>4, <1>t, <1>g, <2>3, <2>4, <2>5, CheckKeeps DEF Good
<1>5. ASSUME NEW c \in Requests, ReplyHit(c) \/ ReplyComputed(c), CheckRest
      PROVE  SysInv'
  <2>1. /\ req' = [req EXCEPT ![c] = Free]
        /\ Remember(req[c].node, req[c].entry)
        /\ UNCHANGED l2
        /\ l2Writes' \subseteq l2Writes \cup {req[c].entry}
        /\ req[c].stage \in {"hit", "computed"}
    BY <1>5 DEF ReplyHit, ReplyComputed, Send
  <2>2. req[c].entry \in Entry /\ Good(req[c].entry) /\ req[c].node \in Nodes
    BY <1>t, <1>g, <2>1
  <2>3. /\ Put(l1[req[c].node], req[c].entry) \subseteq Entry
        /\ \A x \in Put(l1[req[c].node], req[c].entry) : Good(x)
    BY <1>t, <1>g, <2>2, PutType
  <2>4. /\ l1' \in [Nodes -> SUBSET Entry]
        /\ \A n \in Nodes : \A d \in l1'[n] : Good(d)
    BY <1>t, <1>g, <2>1, <2>2, <2>3 DEF Remember
  <2>5. l2Writes' \subseteq Entry /\ \A d \in l2Writes' : Good(d)
    BY <1>t, <1>g, <2>1, <2>2
  <2> QED
    BY <1>5, <1>r, <2>1, <2>4, <2>5, CheckKeeps
<1>6. ASSUME NEW c \in Requests, ReplyUnavailable(c), CheckRest
      PROVE  SysInv'
  <2>1. req' = [req EXCEPT ![c] = Free] /\ UNCHANGED <<l1, l2, l2Writes>>
    BY <1>6 DEF ReplyUnavailable
  <2> QED
    BY <1>6, <1>t, <1>g, <1>r, <2>1, CheckKeeps
<1> QED
  BY <1>1, <1>2, <1>3, <1>4, <1>5, <1>6 DEF CheckStep

LEMMA CacheStepInv == SysInv /\ CacheStep => SysInv'
<1> SUFFICES ASSUME SysInv, CacheStep PROVE SysInv'
  OBVIOUS
<1>t. l1 \in [Nodes -> SUBSET Entry] /\ l2 \subseteq Entry /\ l2Writes \subseteq Entry
  BY DEF SysInv, SysTypeOK, DecisionTypeOK
<1>1. /\ UNCHANGED <<vars, raced, phase, gen, poll, req>>
      /\ l1' \in [Nodes -> SUBSET Entry]
      /\ \A n \in Nodes : l1'[n] \subseteq l1[n]
      /\ l2' \subseteq l2 \cup l2Writes
      /\ l2Writes' \subseteq l2Writes
  BY <1>t, PutType DEF CacheStep, CheckRest, generationVars, WriteLands, WriteLost, ExpireL1, ExpireL2
<1>2. /\ UNCHANGED <<rows, edges, outbox, seqLast, nextId, txn>>
      /\ \A g : Closed(g)' <=> Closed(g)
      /\ \A d : Good(d)' <=> Good(d)
  BY <1>1, UnderSame
<1>3. Inv'
  BY <1>1, NextInv DEF SysInv
<1>4. SysTypeOK'
  BY <1>1, <1>t, <1>3 DEF SysInv, SysTypeOK, Inv, GenerationTypeOK, DecisionTypeOK
<1>5. NodesInv'
  BY <1>1, <1>2 DEF SysInv, NodesInv
<1>6. CachesInv'
  BY <1>1, <1>2 DEF SysInv, CachesInv, HasAnswer
<1> QED
  BY <1>3, <1>4, <1>5, <1>6 DEF SysInv

LEMMA SysNextInv == SysInv /\ [SysNext]_sysVars => SysInv'
<1> SUFFICES ASSUME SysInv, [SysNext]_sysVars PROVE SysInv'
  OBVIOUS
<1>1. CASE SysNext
  BY <1>1, WriteStepInv, AdoptStepInv, NodeStepInv, CheckStepInv, CacheStepInv DEF SysNext
<1>2. CASE UNCHANGED sysVars
  <2>1. UNCHANGED <<vars, raced, phase, gen, poll, l1, l2, l2Writes, req>>
    BY <1>2 DEF sysVars, generationVars, decisionVars
  <2>2. /\ UNCHANGED <<rows, edges, outbox, seqLast, nextId, txn>>
        /\ \A g : Closed(g)' <=> Closed(g)
        /\ \A d : Good(d)' <=> Good(d)
    BY <2>1, UnderSame
  <2>3. Inv'
    BY <2>1, NextInv DEF SysInv
  <2>4. SysTypeOK'
    BY <2>1, <2>3 DEF SysInv, SysTypeOK, Inv, GenerationTypeOK, DecisionTypeOK
  <2>5. NodesInv'
    BY <2>1, <2>2 DEF SysInv, NodesInv
  <2>6. CachesInv'
    BY <2>1, <2>2 DEF SysInv, CachesInv, HasAnswer
  <2> QED
    BY <2>3, <2>4, <2>5, <2>6 DEF SysInv
<1> QED
  BY <1>1, <1>2

-----------------------------------------------------------------------------
(* The inductive invariant of the whole path from a write to an answer. *)
THEOREM SysInvariance == SysSpec => []SysInv
BY SysInitInv, SysNextInv, PTL DEF SysSpec

(* The variables of the write side, the nodes, the checks and the caches   *)
(* keep their types.                                                       *)
THEOREM SysTypeCorrectness == SysSpec => []SysTypeOK
BY SysInvariance, PTL DEF SysInv

LEMMA RememberedGood == SysInv => \A d \in Remembered : Good(d)
<1> SUFFICES ASSUME SysInv, NEW d \in Remembered PROVE Good(d)
  OBVIOUS
<1>1. \/ \E n \in Nodes : d \in l1[n]
      \/ d \in l2 \/ d \in l2Writes
      \/ \E c \in Requests : HasAnswer(c) /\ d = req[c].entry
  BY DEF Remembered, HasAnswer
<1> QED
  BY <1>1 DEF SysInv, CachesInv

(* DecisionService never caches a guess: every decision in L1, in L2, on   *)
(* its way to Redis or to a client is what the table said when it was read.*)
THEOREM AnswersTheorem == SysSpec => []AnswersWereTrue
<1>1. SysInv => AnswersWereTrue
  BY RememberedGood DEF AnswersWereTrue, Good, WasTrue
<1> QED
  BY <1>1, SysInvariance, PTL

(* The versioned keys do what ADR-0001 asks of them, for every order in    *)
(* which transactions commit, events and polls arrive and SETs land: a     *)
(* decision cached under g reflects every committed write numbered up to   *)
(* g, but for the writes in flight when their number was adopted.          *)
THEOREM FreshTheorem == SysSpec => []FreshUnlessRaced
<1>1. SysInv => FreshUnlessRaced
  BY RememberedGood DEF FreshUnlessRaced, Good, Fresh
<1> QED
  BY <1>1, SysInvariance, PTL

(* What a client sees: a node that knows of every write answers from its   *)
(* caches what Postgres would answer, as long as nothing has raced.        *)
THEOREM CurrentTheorem == SysSpec => []CurrentUnlessRaced
<1>1. SysInv => CurrentUnlessRaced
  <2> SUFFICES ASSUME SysInv, raced = {}, NEW n \in Nodes, Informed(n), NEW d \in Servable(n)
               PROVE  d.allowed <=> Allowed(d.query)
    BY DEF CurrentUnlessRaced
  <2>1. d \in Entry /\ Good(d) /\ d.gen = gen[n]
    BY DEF Servable, SysInv, CachesInv, SysTypeOK, DecisionTypeOK
  <2>2. Committed \subseteq d.asOf
    BY <2>1 DEF Informed, Good, Fresh
  <2>3. d.asOf = Committed
    BY <2>1, <2>2 DEF Good, WasTrue
  <2>4. \A k \in Keys : k \in HeldAfter(Committed) <=> \E r \in rows : r.key = k
    BY HeldIsTable
  <2>5. Paths[d.query] \subseteq Keys
    BY <2>1, PathsAssumption DEF Entry
  <2> QED
    BY <2>1, <2>3, <2>4, <2>5 DEF Good, WasTrue, Allowed
<1> QED
  BY <1>1, SysInvariance, PTL

(* No node adopts a number that has not been drawn: every later write gets *)
(* a number that invalidates.                                              *)
THEOREM AheadTheorem == SysSpec => []NeverAhead
<1>1. SysInv => NeverAhead
  BY DEF SysInv, NodesInv, Closed, NeverAhead
<1> QED
  BY <1>1, SysInvariance, PTL

(* A process's generation never goes back, in whatever order messages and  *)
(* polls arrive.                                                           *)
THEOREM RewindTheorem == SysSpec => NeverRewinds
<1> DEFINE Kept == \A n \in Nodes : phase[n] = "up" /\ phase'[n] = "up" => gen'[n] >= gen[n]
<1>1. SysInv /\ SysNext => Kept
  <2> SUFFICES ASSUME SysInv, SysNext, NEW n \in Nodes, phase[n] = "up", phase'[n] = "up"
               PROVE  gen'[n] >= gen[n]
    OBVIOUS
  <2>t. /\ gen \in [Nodes -> 0..MaxSeq] /\ phase \in [Nodes -> {"down", "starting", "up"}]
        /\ poll \in [Nodes -> SUBSET (0..MaxSeq)] /\ Committed \subseteq 1..MaxSeq
        /\ \A m \in Nodes : gen[m] \in Nat
    BY BoundsAssumption DEF SysInv, SysTypeOK, GenerationTypeOK, TypeOK, Events, Committed
  <2>1. CASE WriteStep \/ CheckStep \/ CacheStep
    BY <2>1, <2>t DEF WriteStep, WriteRest, CheckStep, CacheStep, CheckRest, generationVars
  <2>2. CASE AdoptStep
    <3>1. PICK m \in Nodes, v \in 0..MaxSeq : gen' = [gen EXCEPT ![m] = Advance(gen[m], v)]
      BY <2>2, <2>t DEF AdoptStep, BootAdopt, PollAdopt, Observe
    <3> QED
      BY <2>t, <3>1, BoundsAssumption DEF Advance
  <2>3. CASE NodeStep
    <3>1. UNCHANGED gen \/ \E m \in Nodes : Stop(m)
      BY <2>3 DEF NodeStep, BootRead, PollRead, PollFail
    <3>2. ASSUME NEW m \in Nodes, Stop(m) PROVE gen'[n] = gen[n]
      BY <2>t, <3>2 DEF Stop
    <3> QED
      BY <2>t, <3>1, <3>2
  <2> QED
    BY <2>1, <2>2, <2>3 DEF SysNext
<1>2. SysInv /\ [SysNext]_sysVars => [Kept]_sysVars
  BY <1>1
<1> QED
  BY <1>2, SysInvariance, PTL DEF SysSpec, NeverRewinds
=============================================================================
