-------------------------- MODULE WindowBenchProofs --------------------------
(***************************************************************************)
(* Proofs about WindowBench, for any number of nodes and connections and   *)
(* for any bounds. What Invalidation guarantees of every client (SysInv)   *)
(* is not enough: the properties rest on the order in which this client    *)
(* does things. BenchInv says what its steps have established so far: that *)
(* it is the only writer (OneWrite), what the log says of the grant it is  *)
(* about to revoke (Log, TargetInv), what every decision that is still     *)
(* around has seen (Knows), how far behind a node can be (Served, Quiet),  *)
(* and what the nodes have answered (Allows, Denies).                      *)
(***************************************************************************)
EXTENDS WindowBench, InvalidationProofs

(* The target is not known yet; every node has held an allow; it is known. *)
Early == {"granting", "posting", "settling", "warming", "rechecking", "confirming"}
Measuring == {"polling", "dispatched", "deleting", "watching", "reported"}
Warmed == Measuring \cup {"confirming"}

Added(e) == e \in outbox /\ e.type = "GrantAdded"
Gone(e) == e \in outbox /\ e.type = "GrantRevoked"

BenchTypes ==
  /\ stage \in Stages
  /\ told \in [Nodes -> 0..MaxSeq]
  /\ answers \in [Nodes -> {"none", "allow", "deny", "cached"}]
  /\ firstDeny \in [Nodes -> SUBSET {d \in Entry : ~d.allowed}]
  /\ target \in 0..MaxId
  /\ stage \in Early => target = 0 /\ firstDeny = NoDenies

(* The benchmark is the only writer: one transaction at a time, about the  *)
(* target.                                                                 *)
OneWrite ==
  /\ \A r \in rows : r.key = Target
  /\ \A e \in outbox : e.key = Target
  /\ \A w \in Writers : IsOpen(w) =>
       /\ txn[w].key = Target
       /\ \/ stage = "posting" /\ txn[w].op = "GrantAdded"
          \/ stage = "deleting" /\ txn[w].op = "GrantRevoked" /\ txn[w].id = target
       /\ txn[w].stage = "enqueued" => txn[w].seq = seqLast

(* What is held was the last to be written, until the DELETE; what is not  *)
(* held any more has been revoked.                                         *)
Log ==
  /\ stage \in Early \cup {"polling", "dispatched"} =>
       \A r \in rows : \E e \in outbox : Added(e) /\ e.id = r.id /\ e.seq = seqLast
  /\ \A e \in outbox : Added(e) =>
       (\E r \in rows : r.id = e.id) \/ \E g \in outbox : Gone(g) /\ g.id = e.id

(* f put the target there: no grant is later, and but for the revoke that  *)
(* is measured, with the next number, nothing is.                          *)
IsRegrant(f) ==
  /\ Added(f) /\ f.id = target
  /\ \A e \in outbox : Added(e) => e.seq <= f.seq
  /\ \A e \in outbox : Gone(e) => IF e.id = target THEN e.seq = f.seq + 1 ELSE e.seq < f.seq
  /\ stage \in {"polling", "dispatched"} => seqLast = f.seq
  /\ \A w \in Writers : IsOpen(w) =>
       seqLast = IF txn[w].stage = "written" THEN f.seq ELSE f.seq + 1

TargetInv ==
  stage \in Measuring =>
    /\ \E f \in outbox : IsRegrant(f)
    /\ stage \in {"polling", "dispatched"} => [id |-> target, key |-> Target] \in rows

(* Every decision knows of the revokes of earlier rounds, and one that     *)
(* does not know of a grant has a generation below the grant's number.     *)
Knows(d) ==
  /\ \A e \in outbox : Added(e) => e.seq \in d.asOf \/ d.gen < e.seq
  /\ \A e \in outbox : Gone(e) /\ e.id # target => e.seq \in d.asOf

(* The generation g is at most one number behind every grant.              *)
Near(g) == \A e \in outbox : Added(e) => e.seq <= g + 1

(* A node has one decision per generation, and a check under way is under  *)
(* a generation that it has none for.                                      *)
Served(n) ==
  /\ Near(gen[n])
  /\ \A d \in l1[n] : Near(d.gen) /\ d.gen <= gen[n]
  /\ \A d, x \in l1[n] : d.gen = x.gen => d = x
  /\ req[n].stage # "free" =>
       /\ req[n].node = n
       /\ Near(req[n].entry.gen) /\ req[n].entry.gen <= gen[n]
       /\ \A d \in l1[n] : d.gen < req[n].entry.gen
  /\ req[n].stage \in {"l2", "store", "unavailable"} =>
       ~req[n].entry.allowed /\ req[n].entry.asOf = {}

(* No generation and no decision of a node is more than k behind the       *)
(* sequence.                                                               *)
Within(k) == \A n \in Nodes : seqLast <= gen[n] + k /\ \A d \in l1[n] : seqLast <= d.gen + k

AllKnow == \A d \in Remembered : Knows(d)
AllServed == \A n \in Nodes : Served(n)

(* Nothing is asked while the grant is put back.                           *)
Quiet ==
  /\ stage \in {"granting", "posting"} => l2Writes = {} /\ \A n \in Nodes : req[n] = Free
  /\ stage = "granting" => Within(0)
  /\ \A w \in Writers : IsOpen(w) /\ txn[w].op = "GrantAdded" =>
       IF txn[w].stage = "written" THEN Within(0)
       ELSE Within(1) /\ \A d \in Remembered : d.gen < seqLast

HasAllow(n) == \E d \in l1[n] : d.allowed

Allows ==
  /\ stage \in Warmed => \A n \in Nodes : HasAllow(n)
  /\ stage = "rechecking" => \A n \in Nodes : answers[n] = "allow" => HasAllow(n)

(* The deny that ended a window is in L1, not below the grant's number,    *)
(* and has seen the revoke.                                                *)
Caused(d) == \E s \in Revoked : s \in d.asOf

Denies ==
  /\ \A n \in Nodes : \A d \in firstDeny[n] :
       IsOutage(d) \/ (d \in l1[n] /\ Caused(d) /\ \A e \in outbox : Added(e) => e.seq <= d.gen)
  /\ stage = "reported" => \A n \in Nodes : firstDeny[n] # {}

BenchInv ==
  /\ BenchTypes /\ OneWrite /\ Log /\ TargetInv
  /\ AllKnow /\ AllServed /\ Quiet /\ Allows /\ Denies

Everything == SysInv /\ BenchInv
-----------------------------------------------------------------------------
(* The types that the proofs below use. *)
LEMMA BenchFacts ==
  ASSUME Everything
  PROVE  /\ seqLast \in Nat /\ target \in Nat
         /\ gen \in [Nodes -> 0..MaxSeq] /\ \A n \in Nodes : gen[n] \in Nat
         /\ \A e \in outbox : /\ e \in Events /\ e.seq \in Nat /\ e.id \in Nat /\ e.id # 0
                              /\ e.seq <= seqLast
         /\ \A n \in Nodes : l1[n] \subseteq Entry
         /\ l1 \in [Nodes -> SUBSET Entry]
         /\ l2 \subseteq Entry /\ l2Writes \subseteq Entry
         /\ \A d \in Entry : d.gen \in Nat
         /\ req \in [Nodes -> [stage : {"free", "l2", "hit", "store", "computed", "unavailable"},
                               node : Nodes, entry : Entry]]
         /\ \A n \in Nodes : req[n].entry \in Entry /\ req[n].entry.gen \in Nat
<1>t. /\ SysTypeOK /\ Numbering /\ BenchAssumption /\ BoundsAssumption
  BY BenchAssumption, BoundsAssumption DEF Everything, SysInv, Inv
<1>1. /\ gen \in [Nodes -> 0..MaxSeq] /\ l1 \in [Nodes -> SUBSET Entry]
      /\ l2 \subseteq Entry /\ l2Writes \subseteq Entry
      /\ req \in [Nodes -> [stage : {"free", "l2", "hit", "store", "computed", "unavailable"},
                            node : Nodes, entry : Entry]]
  BY <1>t, BenchAssumption DEF SysTypeOK, GenerationTypeOK, DecisionTypeOK
<1>2. \A d \in Entry : d.gen \in Nat
  BY BoundsAssumption DEF Entry
<1>3. \A e \in outbox : e \in Events
  BY <1>t DEF SysTypeOK, TypeOK
<1>4. seqLast \in Nat
  BY <1>t, BoundsAssumption DEF SysTypeOK, TypeOK
<1>5. target \in Nat
  BY BoundsAssumption DEF Everything, BenchInv, BenchTypes
<1> QED
  BY <1>t, <1>1, <1>2, <1>3, <1>4, <1>5, BoundsAssumption DEF Numbering, Events

LEMMA OneQuestion == \A d, x \in Entry : d.query = x.query
BY BenchAssumption DEF Entry

LEMMA RememberedParts ==
  \A d : d \in Remembered <=>
    \/ \E n \in Nodes : d \in l1[n]
    \/ d \in l2 \/ d \in l2Writes
    \/ \E n \in Nodes : HasAnswer(n) /\ d = req[n].entry
BY BenchAssumption DEF Remembered, HasAnswer

LEMMA RememberedEntry == Everything => \A d \in Remembered : d \in Entry /\ d.gen \in Nat /\ Good(d)
BY BenchFacts, RememberedParts, RememberedGood DEF Everything

(* The two statements of a no-op grant touch nothing that is relied on. *)
LEMMA LookupStepInv ==
  ASSUME SysInv, NEW w \in Writers, WriteRest,
         FindExisting(w) \/ \E k \in Keys : GrantExists(w, k)
  PROVE  SysInv'
<1>1. [Next]_vars
  BY DEF Next
<1>2. UNCHANGED <<rows, edges, outbox, seqLast, nextId, raced, phase, gen, poll, l1, l2, l2Writes, req>>
  BY DEF WriteRest, generationVars, decisionVars, FindExisting, GrantExists
<1>3. Inv'
  BY <1>1, NextInv DEF SysInv
<1>4. InFlight' = InFlight /\ Committed' = Committed
  <2>1. PICK t : /\ txn' = [txn EXCEPT ![w] = t] /\ t.stage # "enqueued"
                 /\ txn[w].stage # "enqueued"
    <3>1. CASE FindExisting(w)
      BY <3>1, IdleType DEF FindExisting
    <3>2. ASSUME NEW k \in Keys, GrantExists(w, k)
          PROVE  \E t : /\ txn' = [txn EXCEPT ![w] = t] /\ t.stage # "enqueued"
                        /\ txn[w].stage # "enqueued"
      <4> DEFINE u == [Idle EXCEPT !.stage = "lookup", !.key = k]
      <4>1. u.stage = "lookup" /\ txn' = [txn EXCEPT ![w] = u] /\ txn[w].stage # "enqueued"
        BY <3>2, IdleType DEF GrantExists, Txn
      <4> HIDE DEF u
      <4> QED
        BY <4>1
    <3> QED
      BY <3>1, <3>2
  <2>2. txn'[w] = t /\ \A v \in Writers : v # w => txn'[v] = txn[v]
    BY <2>1, OthersKeep DEF SysInv, Inv
  <2> QED
    BY <1>2, <2>1, <2>2 DEF InFlight, Committed
<1>5. \A g : Closed(g)' <=> Closed(g)
  BY <1>2, <1>4 DEF Closed
<1>6. \A d : Good(d)' <=> Good(d)
  <2> TAKE d
  <2>1. Closed(d.gen)' <=> Closed(d.gen)
    BY <1>2, <1>4 DEF Closed
  <2>2. Fresh(d)' <=> Fresh(d)
    BY <1>2, <1>4 DEF Fresh
  <2>3. WasTrue(d)' <=> WasTrue(d)
    BY <1>2, <1>4 DEF WasTrue, HeldAfter
  <2> QED
    BY <2>1, <2>2, <2>3 DEF Good
<1>7. SysTypeOK'
  BY <1>2, <1>3 DEF SysInv, SysTypeOK, Inv, GenerationTypeOK, DecisionTypeOK
<1>8. NodesInv'
  BY <1>2, <1>5 DEF SysInv, NodesInv
<1>9. CachesInv'
  BY <1>2, <1>5, <1>6 DEF SysInv, CachesInv, HasAnswer
<1> QED
  BY <1>3, <1>7, <1>8, <1>9 DEF SysInv

-----------------------------------------------------------------------------
(* The state that the benchmark starts from is one that the system can be  *)
(* in: it satisfies the invariant of the system.                           *)
LEMMA StartsClean ==
  ASSUME WindowInit
  PROVE  /\ InFlight = {} /\ \A w \in Writers : ~IsOpen(w)
         /\ \A c \in Requests : req[c] = Free
         /\ l2Writes = {} /\ raced = {}
         /\ \A n \in Nodes : poll[n] = {}
BY IdleType DEF WindowInit, InFlight, IsOpen

LEMMA DenyType ==
  ASSUME NEW q \in Queries
  PROVE  /\ Deny(q) \in Entry /\ Deny(q).gen = 2 /\ Deny(q).query = q
         /\ Deny(q).allowed = FALSE /\ Deny(q).asOf = {1, 2}
<1>1. 2 \in 0..MaxSeq /\ {1, 2} \in SUBSET (1..MaxSeq)
  BY BenchAssumption, BoundsAssumption
<1> QED
  BY <1>1 DEF Deny, Blank, Entry

LEMMA StartsWithInv == WindowInit => Inv
<1> SUFFICES ASSUME WindowInit PROVE Inv
  OBVIOUS
<1>0. /\ 1 \in 1..MaxSeq /\ 2 \in 1..MaxSeq /\ 1 \in 1..MaxId /\ Target \in Keys
      /\ \A w \in Writers : txn[w].stage = "idle" /\ ~IsOpen(w)
  BY BenchAssumption, BoundsAssumption, IdleType DEF WindowInit, IsOpen
<1>t. txn \in [Writers -> Txn]
  BY IdleType DEF WindowInit
<1>1. CASE GrantMissing
  <2>1. TypeOK
    BY <1>0, <1>t, <1>1, BoundsAssumption DEF GrantMissing, TypeOK, Events
  <2>2. Locking
    BY <1>0, <1>1 DEF GrantMissing, Locking
  <2>3. Numbering
    BY <1>0, <1>1 DEF GrantMissing, Numbering
  <2>4. Lives
    BY <1>0, <1>1 DEF GrantMissing, Lives
  <2>5. ReplayIsTable
    BY <1>1 DEF GrantMissing, ReplayIsTable, LastEvent
  <2>6. OneLifePerRow
    BY <1>1 DEF GrantMissing, OneLifePerRow
  <2> QED
    BY <2>1, <2>2, <2>3, <2>4, <2>5, <2>6 DEF Inv
<1>2. CASE GrantThere
  <2>1. TypeOK
    BY <1>0, <1>t, <1>2, BoundsAssumption DEF GrantThere, TypeOK, Events
  <2>2. Locking
    BY <1>0, <1>2 DEF GrantThere, Locking
  <2>3. Numbering
    BY <1>0, <1>2 DEF GrantThere, Numbering
  <2>4. Lives
    BY <1>0, <1>2 DEF GrantThere, Lives
  <2>5. ReplayIsTable
    BY <1>2 DEF GrantThere, ReplayIsTable, LastEvent
  <2>6. OneLifePerRow
    BY <1>2 DEF GrantThere, OneLifePerRow
  <2> QED
    BY <2>1, <2>2, <2>3, <2>4, <2>5, <2>6 DEF Inv
<1> QED
  BY <1>1, <1>2 DEF WindowInit

(* The denies left by an earlier round are true and fresh. *)
LEMMA DenyIsGood ==
  ASSUME WindowInit, GrantMissing, NEW q \in Queries
  PROVE  Good(Deny(q))
<1>0. InFlight = {}
  BY StartsClean
<1>1. Closed(Deny(q).gen)
  <2>1. Deny(q).gen = 2 /\ seqLast = 2
    BY DenyType DEF GrantMissing
  <2> QED
    BY <1>0, <2>1 DEF Closed
<1>2. Committed = {1, 2}
  BY DEF GrantMissing, Committed
<1>3. Fresh(Deny(q))
  BY <1>2, DenyType DEF Fresh
<1>4. HeldAfter({1, 2}) = {}
  BY DEF GrantMissing, HeldAfter
<1>5. WasTrue(Deny(q))
  BY <1>2, <1>4, DenyType DEF WasTrue
<1> QED
  BY <1>1, <1>3, <1>5 DEF Good

LEMMA StartsWithSysInv == WindowInit => SysInv
<1> SUFFICES ASSUME WindowInit PROVE SysInv
  OBVIOUS
<1>0. /\ InFlight = {} /\ \A c \in Requests : req[c] = Free
      /\ l2Writes = {} /\ raced = {} /\ \A n \in Nodes : poll[n] = {}
  BY StartsClean
<1>1. Inv
  BY StartsWithInv
<1>2. /\ gen \in [Nodes -> 0..MaxSeq] /\ \A n \in Nodes : gen[n] = seqLast
      /\ seqLast \in Nat
  BY BenchAssumption, BoundsAssumption DEF WindowInit, GrantMissing, GrantThere
<1>3. /\ l1 \in [Nodes -> SUBSET Entry] /\ l2 \subseteq Entry
      /\ \A d \in l2 : Good(d)
      /\ \A n \in Nodes : \A d \in l1[n] : Good(d)
  <2>1. CASE GrantMissing
    <3>1. {Deny(q) : q \in Queries} \subseteq Entry /\ \A d \in {Deny(q) : q \in Queries} : Good(d)
      BY <2>1, DenyType, DenyIsGood
    <3>2. PICK denies \in {{}, {Deny(q) : q \in Queries}} :
            l1 = [n \in Nodes |-> denies] /\ l2 = denies
      BY <2>1 DEF GrantMissing
    <3> QED
      BY <3>1, <3>2
  <2>2. CASE GrantThere
    BY <2>2 DEF GrantThere
  <2> QED
    BY <2>1, <2>2 DEF WindowInit
<1>4. SysTypeOK
  <2>1. phase \in [Nodes -> {"down", "starting", "up"}] /\ poll \in [Nodes -> SUBSET (0..MaxSeq)]
    BY DEF WindowInit
  <2>2. req \in [Requests -> [stage : {"free", "l2", "hit", "store", "computed", "unavailable"},
                              node : Nodes, entry : Entry]]
    BY FreeType DEF WindowInit
  <2> QED
    BY <1>0, <1>1, <1>2, <1>3, <2>1, <2>2
    DEF Inv, SysTypeOK, GenerationTypeOK, DecisionTypeOK
<1>5. \A g \in Nat : g <= seqLast => Closed(g)
  BY <1>0 DEF Closed
<1>6. NodesInv
  BY <1>0, <1>2, <1>5 DEF NodesInv
<1>7. CachesInv
  <2>1. Closed(0)
    BY <1>2, <1>5
  <2>2. \A c \in Requests : Closed(req[c].entry.gen) /\ ~HasAnswer(c)
    BY <1>0, <2>1, FreeType DEF HasAnswer
  <2> QED
    BY <1>0, <1>3, <2>2 DEF CachesInv
<1> QED
  BY <1>1, <1>4, <1>6, <1>7 DEF SysInv

(* Each step of the benchmark is a step of the system, one of the two      *)
(* statements of a no-op grant, or leaves the system alone.                *)
LEMMA SystemStep == Everything /\ [WindowNext]_allVars => SysInv'
<1> SUFFICES ASSUME SysInv, [WindowNext]_allVars PROVE SysInv'
  BY DEF Everything
<1>1. ASSUME WriteStep \/ AdoptStep \/ NodeStep \/ CheckStep \/ CacheStep PROVE SysInv'
  BY <1>1, SysNextInv DEF SysNext
<1>2. ASSUME UNCHANGED sysVars PROVE SysInv'
  BY <1>2, SysNextInv
<1>3. ASSUME NEW w \in Writers, PostRuns(w) PROVE SysInv'
  <2>1. Target \in Keys /\ WriteRest
    BY <1>3, BenchAssumption DEF PostRuns, WriteRest
  <2>2. CASE InsertGrant(w, Target)
    BY <1>1, <2>1, <2>2 DEF WriteStep
  <2>3. CASE GrantExists(w, Target)
    BY <2>1, <2>3, LookupStepInv
  <2> QED
    BY <1>3, <2>2, <2>3 DEF PostRuns
<1>4. ASSUME NEW w \in Writers, WriteRuns(w) PROVE SysInv'
  <2>1. WriteRest
    BY <1>4 DEF WriteRuns, WriteRest
  <2>2. CASE FindExisting(w)
    BY <2>1, <2>2, LookupStepInv
  <2>3. CASE Enqueue(w) \/ Commit(w) \/ Rollback(w)
    BY <1>1, <2>1, <2>3 DEF WriteStep
  <2> QED
    BY <1>4, <2>2, <2>3 DEF WriteRuns
<1>5. ASSUME NEW w \in Writers, DeleteRuns(w) PROVE SysInv'
  <2>1. PICK r \in rows : DeleteGrant(w, r) /\ WriteRest
    BY <1>5 DEF DeleteRuns, WriteRest
  <2> QED
    BY <1>1, <2>1 DEF WriteStep
<1>6. ASSUME PostReplied \/ SettleEnds \/ WarmPassEnds \/ RecheckEnds \/ WarmEnds
               \/ Dispatch \/ DeleteReplied \/ Measured \/ \E n \in Nodes : Report(n)
      PROVE  SysInv'
  BY <1>2, <1>6 DEF PostReplied, SettleEnds, WarmPassEnds, RecheckEnds, WarmEnds,
                    Dispatch, DeleteReplied, Measured, Report
<1>7. ASSUME NEW n \in Nodes, CheckRuns(n) \/ Answered(n) \/ \E q \in Queries : Asked(n, q)
      PROVE  SysInv'
  <2>1. n \in Requests
    BY BenchAssumption
  <2>2. CheckStep
    BY <1>7, <2>1 DEF CheckRuns, Answered, Asked, CheckStep
  <2> QED
    BY <1>1, <2>2
<1>8. ASSUME NEW n \in Nodes, NEW d \in l1[n], AnsweredByL1(n, d) PROVE SysInv'
  BY <1>2, <1>8 DEF AnsweredByL1
<1>9. ASSUME Background PROVE SysInv'
  <2>1. AdoptStep \/ NodeStep \/ CacheStep
    BY <1>9 DEF Background, NodeStep, CacheStep
  <2> QED
    BY <1>1, <2>1
<1>10. CASE UNCHANGED allVars
  BY <1>2, <1>10 DEF allVars
<1> QED
  BY <1>3, <1>4, <1>5, <1>6, <1>7, <1>8, <1>9, <1>10 DEF WindowNext

LEMMA StartsWithBenchInv == WindowInit => BenchInv
<1> SUFFICES ASSUME WindowInit PROVE BenchInv
  OBVIOUS
<1>0. /\ \A w \in Writers : ~IsOpen(w)
      /\ \A n \in Nodes : req[n] = Free /\ req[n].stage = "free" /\ ~HasAnswer(n)
      /\ l2Writes = {} /\ stage = "granting" /\ firstDeny = NoDenies /\ target = 0
  BY StartsClean, FreeType, BenchAssumption DEF WindowInit, HasAnswer
<1>1. BenchTypes
  BY BoundsAssumption DEF WindowInit, BenchTypes, Stages, NoneTold, NoAnswers, NoDenies
<1>2. \A n \in Nodes : gen[n] = seqLast
  BY DEF WindowInit, GrantMissing, GrantThere
<1>3. /\ seqLast \in Nat
      /\ \A e \in outbox : e.seq \in Nat /\ e.seq <= seqLast
      /\ \A n \in Nodes : \A d \in l1[n] : d.gen = seqLast /\ Committed \subseteq d.asOf
      /\ \A d \in l2 : d.gen = seqLast /\ Committed \subseteq d.asOf
      /\ \A n \in Nodes : \A d, x \in l1[n] : d = x
  <2>1. CASE GrantMissing
    <3>1. PICK denies \in {{}, {Deny(q) : q \in Queries}} :
            l1 = [n \in Nodes |-> denies] /\ l2 = denies
      BY <2>1 DEF GrantMissing
    <3>2. Committed = {1, 2} /\ seqLast = 2 /\ \A e \in outbox : e.seq = 1 \/ e.seq = 2
      BY <2>1 DEF GrantMissing, Committed
    <3>3. \A d \in denies : \E q \in Queries : d = Deny(q)
      BY <3>1
    <3>4. \A d \in denies : d.gen = 2 /\ d.asOf = {1, 2}
      <4> SUFFICES ASSUME NEW d \in denies PROVE d.gen = 2 /\ d.asOf = {1, 2}
        OBVIOUS
      <4>1. PICK q \in Queries : d = Deny(q)
        BY <3>3
      <4>2. Deny(q).gen = 2 /\ Deny(q).asOf = {1, 2}
        BY DenyType
      <4> QED
        BY <4>1, <4>2
    <3>5. \A d, x \in denies : d = x
      BY <3>3, BenchAssumption
    <3> QED
      BY <3>1, <3>2, <3>4, <3>5
  <2>2. CASE GrantThere
    BY <2>2 DEF GrantThere
  <2> QED
    BY <2>1, <2>2 DEF WindowInit
<1>4. OneWrite
  BY <1>0 DEF WindowInit, GrantMissing, GrantThere, OneWrite
<1>5. Log
  <2>1. CASE GrantMissing
    <3>1. PICK g \in outbox : Gone(g) /\ g.id = 1
      BY <2>1 DEF GrantMissing, Gone
    <3>2. rows = {} /\ \A e \in outbox : e.id = 1
      BY <2>1 DEF GrantMissing
    <3> QED
      BY <3>1, <3>2 DEF Log
  <2>2. CASE GrantThere
    BY <2>2 DEF GrantThere, Log, Added
  <2> QED
    BY <2>1, <2>2 DEF WindowInit
<1>6. TargetInv
  BY <1>0 DEF TargetInv, Measuring
<1>7. AllKnow
  <2>1. \A e \in outbox : e.seq \in Committed
    BY DEF Committed
  <2>2. \A d \in Remembered : Committed \subseteq d.asOf
    BY <1>0, <1>3, RememberedParts
  <2> QED
    BY <2>1, <2>2 DEF AllKnow, Knows
<1>8. AllServed
  <2>1. \A g : g = seqLast => Near(g)
    BY <1>3 DEF Near
  <2> QED
    BY <1>0, <1>2, <1>3, <2>1 DEF AllServed, Served
<1>9. Quiet
  BY <1>0, <1>2, <1>3 DEF Quiet, Within
<1>10. Allows
  BY <1>0 DEF Allows, Warmed, Measuring
<1>11. Denies
  BY <1>0 DEF Denies, NoDenies
<1> QED
  BY <1>1, <1>4, <1>5, <1>6, <1>7, <1>8, <1>9, <1>10, <1>11 DEF BenchInv

-----------------------------------------------------------------------------
(* The benchmark moves on without a step of the system. *)
LEMMA StageStep ==
  ASSUME Everything,
         \/ PostReplied \/ SettleEnds \/ WarmPassEnds \/ RecheckEnds
         \/ Dispatch \/ DeleteReplied \/ Measured \/ \E n \in Nodes : Report(n)
  PROVE  BenchInv'
<1>1. UNCHANGED <<sysVars, target, firstDeny>>
  BY DEF PostReplied, SettleEnds, WarmPassEnds, RecheckEnds, Dispatch, DeleteReplied,
         Measured, Report
<1>2. UNCHANGED <<rows, outbox, seqLast, txn, gen, l1, l2, l2Writes, req>>
  BY <1>1 DEF sysVars, vars, generationVars, decisionVars
<1>3. \/ stage = "posting" /\ stage' = "settling" /\ \A w \in Writers : ~IsOpen(w)
      \/ stage = "settling" /\ stage' \in {"settling", "warming"}
      \/ stage = "warming" /\ stage' \in {"warming", "rechecking"} /\ answers' = NoAnswers
      \/ stage = "rechecking" /\ stage' = "failed"
      \/ /\ stage = "rechecking" /\ stage' = "confirming"
         /\ \A n \in Nodes : answers[n] = "allow"
      \/ stage = "polling" /\ stage' = "dispatched"
      \/ stage = "deleting" /\ stage' = "watching" /\ \A w \in Writers : ~IsOpen(w)
      \/ stage = "watching" /\ stage' = "reported" /\ \A n \in Nodes : firstDeny[n] # {}
  BY IdleType DEF PostReplied, SettleEnds, WarmPassEnds, RecheckEnds, Dispatch, DeleteReplied,
                  Measured, Report, IsOpen
<1>b. /\ BenchTypes /\ OneWrite /\ Log /\ TargetInv
      /\ AllKnow /\ AllServed /\ Quiet /\ Allows /\ Denies
  BY DEF Everything, BenchInv
<1>4. BenchTypes'
  <2>1. told' \in [Nodes -> 0..MaxSeq]
    <3>1. told' = told \/ told' = NoneTold \/ \E n \in Nodes : told' = [told EXCEPT ![n] = gen[n]]
      BY DEF PostReplied, SettleEnds, WarmPassEnds, RecheckEnds, Dispatch, DeleteReplied,
             Measured, Report
    <3>2. NoneTold \in [Nodes -> 0..MaxSeq]
      BY BoundsAssumption DEF NoneTold
    <3>3. \A n \in Nodes : gen[n] \in 0..MaxSeq
      BY BenchFacts
    <3> QED
      BY <1>b, <3>1, <3>2, <3>3 DEF BenchTypes
  <2>2. answers' \in [Nodes -> {"none", "allow", "deny", "cached"}]
    BY <1>b
    DEF PostReplied, SettleEnds, WarmPassEnds, RecheckEnds, Dispatch, DeleteReplied,
        Measured, Report, BenchTypes, NoAnswers
  <2>3. NoDenies' = NoDenies
    BY DEF NoDenies
  <2> QED
    BY <1>1, <1>3, <1>b, <2>1, <2>2, <2>3 DEF BenchTypes, Stages, Early
<1>5. OneWrite'
  BY <1>1, <1>2, <1>3, <1>b DEF OneWrite, IsOpen
<1>6. Log'
  BY <1>2, <1>3, <1>b DEF Log, Added, Gone, Early
<1>7. TargetInv'
  BY <1>1, <1>2, <1>3, <1>b DEF TargetInv, IsRegrant, Added, Gone, Measuring, IsOpen
<1>8. AllKnow'
  BY <1>1, <1>2, <1>b DEF AllKnow, Remembered, Knows, Added, Gone
<1>9. AllServed'
  BY <1>2, <1>b DEF AllServed, Served, Near, Added
<1>10. Quiet'
  BY <1>2, <1>3, <1>b DEF Quiet, OneWrite, Within, IsOpen, Remembered
<1>11. Allows'
  BY <1>2, <1>3, <1>b DEF Allows, Warmed, Measuring, HasAllow, NoAnswers
<1>12. Denies'
  BY <1>1, <1>2, <1>3, <1>b DEF Denies, Caused, Revoked, Added
<1> QED
  BY <1>4, <1>5, <1>6, <1>7, <1>8, <1>9, <1>10, <1>11, <1>12 DEF BenchInv

(* WarmEnds looks up what the log says last: the row with the last number. *)
LEMMA WarmEndsStep == Everything /\ WarmEnds => BenchInv'
<1> SUFFICES ASSUME Everything, WarmEnds PROVE BenchInv'
  OBVIOUS
<1>1. UNCHANGED <<rows, outbox, seqLast, txn, gen, l1, l2, l2Writes, req, told>>
  BY DEF WarmEnds, sysVars, vars, generationVars, decisionVars
<1>2. /\ stage = "confirming" /\ stage' = "polling"
      /\ answers' = NoAnswers /\ firstDeny' = NoDenies
  BY DEF WarmEnds
<1>3. PICK r \in rows : r.key = Target /\ target' = r.id
  BY DEF WarmEnds
<1>b. /\ BenchTypes /\ OneWrite /\ Log
      /\ AllKnow /\ AllServed /\ Quiet /\ Allows
      /\ TypeOK /\ Numbering /\ Lives
  BY DEF Everything, BenchInv, SysInv, Inv
<1>n. \A e \in outbox : e.seq \in Nat /\ e.id # 0
  BY BenchFacts
<1>4. r \in [id : 1..MaxId, key : Keys]
  BY <1>b DEF TypeOK
<1>5. \A w \in Writers : ~IsOpen(w)
  BY <1>2, <1>b DEF OneWrite
<1>6. target = 0
  BY <1>2, <1>b DEF BenchTypes, Early
<1>7. PICK f \in outbox : Added(f) /\ f.id = r.id /\ f.seq = seqLast
  BY <1>2, <1>b DEF Log, Early
<1>8. BenchTypes'
  BY <1>1, <1>2, <1>3, <1>4, <1>b, BoundsAssumption
  DEF BenchTypes, Stages, NoAnswers, NoDenies, Early
<1>9. OneWrite' /\ Quiet' /\ Allows'
  BY <1>1, <1>2, <1>5, <1>b DEF OneWrite, Quiet, Within, IsOpen, Allows, Warmed, Measuring, HasAllow
<1>10. Log'
  BY <1>1, <1>2, <1>b DEF Log, Added, Gone, Early
<1>11. TargetInv'
  <2>1. \A e \in outbox : Added(e) => e.seq <= f.seq
    BY <1>7, <1>b DEF Numbering
  <2>2. \A e \in outbox : Gone(e) => e.id # r.id
    BY <1>b DEF Lives, Gone
  <2>3. \A e \in outbox : Gone(e) => e.seq <= f.seq /\ e.seq # f.seq
    BY <1>7, <1>b DEF Numbering, Added, Gone
  <2>4. \A e \in outbox : Gone(e) => e.seq < f.seq
    BY <1>n, <2>3
  <2>5. IsRegrant(f)'
    BY <1>1, <1>2, <1>3, <1>5, <1>7, <2>1, <2>2, <2>4 DEF IsRegrant, Added, Gone, IsOpen
  <2>6. [id |-> target', key |-> Target] = r
    BY <1>3, <1>4
  <2> QED
    BY <1>1, <1>7, <2>5, <2>6 DEF TargetInv
<1>12. AllKnow'
  <2>1. \A d \in Remembered : \A e \in outbox : Gone(e) => e.seq \in d.asOf
    BY <1>6, <1>n, <1>b DEF AllKnow, Knows
  <2>2. Remembered' = Remembered
    BY <1>1 DEF Remembered
  <2> QED
    BY <1>1, <1>b, <2>1, <2>2 DEF AllKnow, Knows, Added, Gone
<1>13. AllServed'
  BY <1>1, <1>b DEF AllServed, Served, Near, Added
<1>14. Denies'
  BY <1>2 DEF Denies, NoDenies
<1> QED
  BY <1>8, <1>9, <1>10, <1>11, <1>12, <1>13, <1>14 DEF BenchInv

-----------------------------------------------------------------------------
(* The POST reaches a node: nothing has been asked since the last round    *)
(* ended, and every node is at the number of its revoke.                   *)
LEMMA PostStep ==
  ASSUME Everything, NEW w \in Writers, PostRuns(w)
  PROVE  BenchInv'
<1>1. UNCHANGED <<rows, outbox, seqLast, gen, l1, l2, l2Writes, req,
                  told, answers, target, firstDeny>>
  BY DEF PostRuns, InsertGrant, GrantExists, generationVars, decisionVars
<1>2. stage = "granting" /\ stage' = "posting"
  BY DEF PostRuns
<1>b. /\ BenchTypes /\ OneWrite /\ Log /\ TypeOK
      /\ AllKnow /\ AllServed /\ Quiet /\ Denies
  BY DEF Everything, BenchInv, SysInv, Inv
<1>3. \A v \in Writers : ~IsOpen(v)
  BY <1>2, <1>b DEF OneWrite
<1>4. \A v \in Writers : IsOpen(v)' =>
        /\ txn'[v].stage = "written" /\ txn'[v].op = "GrantAdded" /\ txn'[v].key = Target
  <2>1. CASE InsertGrant(w, Target)
    <3> DEFINE t == Begun("GrantAdded", [id |-> nextId + 1, key |-> Target], EdgeOf(Target) \notin edges)
    <3>1. /\ t.stage = "written" /\ t.op = "GrantAdded" /\ t.key = Target
          /\ txn' = [txn EXCEPT ![w] = t]
      BY <2>1 DEF InsertGrant, Begun
    <3> HIDE DEF t
    <3> QED
      BY <1>3, <1>b, <3>1, OthersKeep DEF IsOpen
  <2>2. CASE GrantExists(w, Target)
    <3> DEFINE t == [Idle EXCEPT !.stage = "lookup", !.key = Target]
    <3>1. t.stage = "lookup" /\ txn' = [txn EXCEPT ![w] = t]
      BY <2>2, IdleType DEF GrantExists, Txn
    <3> HIDE DEF t
    <3> QED
      BY <1>3, <1>b, <3>1, OthersKeep DEF IsOpen
  <2> QED
    BY <2>1, <2>2 DEF PostRuns
<1>5. BenchTypes'
  BY <1>1, <1>2, <1>b DEF BenchTypes, Stages, Early, NoDenies
<1>6. OneWrite'
  BY <1>1, <1>2, <1>4, <1>b DEF OneWrite
<1>7. Log'
  BY <1>1, <1>2, <1>b DEF Log, Added, Gone, Early
<1>8. TargetInv' /\ Allows'
  BY <1>2 DEF TargetInv, Allows, Warmed, Measuring
<1>9. AllKnow'
  BY <1>1, <1>b DEF AllKnow, Remembered, Knows, Added, Gone
<1>10. AllServed'
  BY <1>1, <1>b DEF AllServed, Served, Near, Added
<1>11. Quiet'
  BY <1>1, <1>2, <1>4, <1>b DEF Quiet, Within
<1>12. Denies'
  BY <1>1, <1>2, <1>b DEF Denies, Caused, Revoked, Added
<1> QED
  BY <1>5, <1>6, <1>7, <1>8, <1>9, <1>10, <1>11, <1>12 DEF BenchInv

(* The DELETE reaches a node: the row is the one that was looked up. *)
LEMMA DeleteRunsStep ==
  ASSUME Everything, NEW w \in Writers, DeleteRuns(w)
  PROVE  BenchInv'
<1>1. UNCHANGED <<rows, outbox, seqLast, gen, l1, l2, l2Writes, req,
                  told, answers, target, firstDeny>>
  BY DEF DeleteRuns, DeleteGrant, generationVars, decisionVars
<1>2. stage = "dispatched" /\ stage' = "deleting"
  BY DEF DeleteRuns
<1>b. /\ BenchTypes /\ OneWrite /\ Log /\ TypeOK /\ TargetInv
      /\ AllKnow /\ AllServed /\ Quiet /\ Denies /\ Allows
  BY DEF Everything, BenchInv, SysInv, Inv
<1>3. \A v \in Writers : ~IsOpen(v)
  BY <1>2, <1>b DEF OneWrite
<1>4. \A v \in Writers : IsOpen(v)' =>
        /\ txn'[v].stage = "written" /\ txn'[v].op = "GrantRevoked"
        /\ txn'[v].key = Target /\ txn'[v].id = target
  <2>1. PICK r \in rows : r.id = target /\ DeleteGrant(w, r)
    BY DEF DeleteRuns
  <2>2. r.key = Target
    BY <1>b DEF OneWrite
  <2> DEFINE t == Begun("GrantRevoked", r, EdgeOf(r.key) \in edges)
  <2>3. /\ t.stage = "written" /\ t.op = "GrantRevoked" /\ t.key = Target /\ t.id = target
        /\ txn' = [txn EXCEPT ![w] = t]
    BY <2>1, <2>2 DEF DeleteGrant, Begun
  <2> HIDE DEF t
  <2> QED
    BY <1>3, <1>b, <2>3, OthersKeep DEF IsOpen
<1>5. BenchTypes'
  BY <1>1, <1>2, <1>b DEF BenchTypes, Stages, Early
<1>6. OneWrite'
  BY <1>1, <1>2, <1>4, <1>b DEF OneWrite
<1>7. Log'
  BY <1>1, <1>2, <1>b DEF Log, Added, Gone, Early
<1>8. TargetInv'
  <2>1. PICK f \in outbox : IsRegrant(f)
    BY <1>2, <1>b DEF TargetInv, Measuring
  <2>2. IsRegrant(f)'
    BY <1>1, <1>2, <1>4, <2>1 DEF IsRegrant, Added, Gone
  <2> QED
    BY <1>1, <1>2, <2>2 DEF TargetInv
<1>9. AllKnow'
  BY <1>1, <1>b DEF AllKnow, Remembered, Knows, Added, Gone
<1>10. AllServed'
  BY <1>1, <1>b DEF AllServed, Served, Near, Added
<1>11. Quiet' /\ Allows'
  BY <1>1, <1>2, <1>4, <1>b DEF Quiet, Allows, Warmed, Measuring, HasAllow
<1>12. Denies'
  BY <1>1, <1>2, <1>b DEF Denies, Caused, Revoked, Added
<1> QED
  BY <1>5, <1>6, <1>7, <1>8, <1>9, <1>10, <1>11, <1>12 DEF BenchInv

(* What an API node does about the request: of all writes only this one is *)
(* open, and nothing but the tables, the log and the sequence changes.     *)
LEMMA WriteRunsFrame ==
  ASSUME Everything, NEW w \in Writers, WriteRuns(w)
  PROVE  /\ UNCHANGED <<gen, l1, l2, l2Writes, req, stage, told, answers, target, firstDeny>>
         /\ BenchTypes' /\ Allows'
         /\ Remembered' = Remembered
<1>1. UNCHANGED <<gen, l1, l2, l2Writes, req, stage, told, answers, target, firstDeny>>
  BY DEF WriteRuns, generationVars, decisionVars, benchVars
<1>b. BenchTypes /\ Allows
  BY DEF Everything, BenchInv
<1>2. BenchTypes' /\ Allows'
  BY <1>1, <1>b DEF BenchTypes, NoDenies, Allows, HasAllow
<1>3. Remembered' = Remembered
  BY <1>1 DEF Remembered
<1> QED
  BY <1>1, <1>2, <1>3

LEMMA OnlyOpen ==
  ASSUME Everything, NEW w \in Writers, IsOpen(w)
  PROVE  \A v \in Writers : IsOpen(v) => v = w
BY DEF Everything, BenchInv, OneWrite, SysInv, Inv, Locking

LEMMA WriteEndsStep ==
  ASSUME Everything, NEW w \in Writers, WriteRuns(w), FindExisting(w) \/ Rollback(w)
  PROVE  BenchInv'
<1>1. UNCHANGED <<rows, outbox, seqLast>>
  BY DEF FindExisting, Rollback
<1>2. /\ UNCHANGED <<gen, l1, l2, l2Writes, req, stage, target, firstDeny>>
      /\ BenchTypes' /\ Allows' /\ Remembered' = Remembered
  BY WriteRunsFrame
<1>b. /\ OneWrite /\ Log /\ TypeOK /\ TargetInv
      /\ AllKnow /\ AllServed /\ Quiet /\ Denies
  BY DEF Everything, BenchInv, SysInv, Inv
<1>3. \A v \in Writers : IsOpen(v)' => IsOpen(v) /\ txn'[v] = txn[v]
  BY <1>b, OthersKeep, IdleType DEF FindExisting, Rollback, IsOpen
<1>4. OneWrite'
  BY <1>1, <1>2, <1>3, <1>b DEF OneWrite
<1>5. Log'
  BY <1>1, <1>2, <1>b DEF Log, Added, Gone
<1>6. TargetInv'
  BY <1>1, <1>2, <1>3, <1>b DEF TargetInv, IsRegrant, Added, Gone
<1>7. AllKnow' /\ AllServed'
  BY <1>1, <1>2, <1>b DEF AllKnow, Knows, AllServed, Served, Near, Added, Gone
<1>8. Quiet'
  BY <1>1, <1>2, <1>3, <1>b DEF Quiet, Within
<1>9. Denies'
  BY <1>1, <1>2, <1>b DEF Denies, Caused, Revoked, Added
<1> QED
  BY <1>2, <1>4, <1>5, <1>6, <1>7, <1>8, <1>9 DEF BenchInv

LEMMA EnqueueBench ==
  ASSUME Everything, NEW w \in Writers, WriteRuns(w), Enqueue(w)
  PROVE  BenchInv'
<1>1. UNCHANGED <<rows, outbox>> /\ seqLast' = seqLast + 1 /\ seqLast \in Nat
  BY BenchFacts DEF Enqueue
<1>2. /\ UNCHANGED <<gen, l1, l2, l2Writes, req, stage, target, firstDeny>>
      /\ BenchTypes' /\ Allows' /\ Remembered' = Remembered
  BY WriteRunsFrame
<1>b. /\ OneWrite /\ Log /\ TypeOK /\ TargetInv /\ Locking
      /\ AllKnow /\ AllServed /\ Quiet /\ Denies
  BY DEF Everything, BenchInv, SysInv, Inv
<1>3. IsOpen(w) /\ txn[w].stage = "written"
  BY DEF Enqueue, IsOpen
<1>4. /\ \A v \in Writers : IsOpen(v)' => v = w
      /\ txn'[w].stage = "enqueued" /\ txn'[w].seq = seqLast + 1
      /\ txn'[w].op = txn[w].op /\ txn'[w].key = txn[w].key /\ txn'[w].id = txn[w].id
  <2> DEFINE t == [txn[w] EXCEPT !.stage = "enqueued", !.seq = seqLast + 1]
  <2>1. txn' = [txn EXCEPT ![w] = t]
    BY <1>b DEF Enqueue, TypeOK
  <2>2. /\ t.stage = "enqueued" /\ t.seq = seqLast + 1
        /\ t.op = txn[w].op /\ t.key = txn[w].key /\ t.id = txn[w].id
    BY <1>b DEF TypeOK, Txn
  <2> HIDE DEF t
  <2>3. txn'[w] = t /\ \A v \in Writers : v # w => txn'[v] = txn[v]
    BY <1>b, <2>1, OthersKeep
  <2> QED
    BY <1>3, <2>2, <2>3, OnlyOpen DEF IsOpen
<1>5. OneWrite'
  BY <1>1, <1>2, <1>3, <1>4, <1>b DEF OneWrite
<1>6. Log'
  <2>1. rows = {} \/ stage = "deleting"
    BY <1>3, <1>b DEF OneWrite, Locking
  <2>2. stage \in Early \cup {"polling", "dispatched"} => rows = {}
    BY <2>1 DEF Early
  <2> QED
    BY <1>1, <1>2, <1>b, <2>2 DEF Log, Added, Gone
<1>7. TargetInv'
  <2> SUFFICES ASSUME stage \in Measuring PROVE TargetInv'
    BY <1>2 DEF TargetInv
  <2>1. PICK f \in outbox : IsRegrant(f)
    BY <1>b DEF TargetInv
  <2>2. seqLast = f.seq /\ stage = "deleting"
    BY <1>3, <1>b, <2>1 DEF IsRegrant, OneWrite, Measuring
  <2>3. IsRegrant(f)'
    BY <1>1, <1>2, <1>4, <2>1, <2>2 DEF IsRegrant, Added, Gone
  <2> QED
    BY <1>1, <1>2, <2>2, <2>3 DEF TargetInv
<1>8. AllKnow' /\ AllServed'
  BY <1>1, <1>2, <1>b DEF AllKnow, Knows, AllServed, Served, Near, Added, Gone
<1>9. Quiet'
  <2>1. stage \in {"posting", "deleting"}
    BY <1>3, <1>b DEF OneWrite
  <2>2. ASSUME txn[w].op = "GrantAdded" PROVE Within(1)' /\ \A d \in Remembered : d.gen < seqLast'
    <3>1. Within(0)
      BY <1>3, <1>b, <2>2 DEF Quiet
    <3>2. \A n \in Nodes : gen[n] \in Nat /\ \A d \in l1[n] : d.gen \in Nat
      BY BenchFacts
    <3>3. Within(1)'
      BY <1>1, <1>2, <3>1, <3>2 DEF Within
    <3>4. \A d \in Remembered : d.gen \in Nat /\ d.gen <= seqLast
      BY RememberedEntry DEF Good, Closed
    <3> QED
      BY <1>1, <3>3, <3>4
  <2> QED
    BY <1>2, <1>4, <1>b, <2>1, <2>2 DEF Quiet
<1>10. Denies'
  BY <1>1, <1>2, <1>b DEF Denies, Caused, Revoked, Added
<1> QED
  BY <1>2, <1>5, <1>6, <1>7, <1>8, <1>9, <1>10 DEF BenchInv

(* The POST commits: the new event is the last, and no node and no         *)
(* decision is more than its number behind.                                *)
LEMMA CommitAdded ==
  ASSUME Everything, NEW w \in Writers, WriteRuns(w), Commit(w), txn[w].op = "GrantAdded"
  PROVE  BenchInv'
<1>e. PICK e, r : e = EventOf(txn[w]) /\ r = RowOf(txn[w])
  OBVIOUS
<1>b. /\ OneWrite /\ Log /\ TypeOK /\ Locking /\ BenchTypes
      /\ AllKnow /\ AllServed /\ Quiet /\ Denies
  BY DEF Everything, BenchInv, SysInv, Inv
<1>1. /\ outbox' = outbox \cup {e} /\ rows' = rows \cup {r}
      /\ UNCHANGED seqLast /\ txn' = [txn EXCEPT ![w] = Idle]
      /\ txn[w].stage = "enqueued" /\ IsOpen(w)
  BY <1>e DEF Commit, IsOpen
<1>2. /\ UNCHANGED <<gen, l1, l2, l2Writes, req, stage, target, firstDeny>>
      /\ BenchTypes' /\ Allows' /\ Remembered' = Remembered
  BY WriteRunsFrame
<1>3. \A v \in Writers : ~IsOpen(v)'
  BY <1>b, <1>1, OthersKeep, OnlyOpen, IdleType DEF IsOpen
<1>4. stage = "posting" /\ txn[w].key = Target /\ txn[w].seq = seqLast
  BY <1>b, <1>1 DEF OneWrite
<1>5. /\ e.type = "GrantAdded" /\ e.seq = seqLast /\ e.key = Target
      /\ r.id = e.id /\ r.key = Target
  BY <1>e, <1>4 DEF EventOf, RowOf
<1>6. rows = {}
  BY <1>b, <1>1, <1>4 DEF OneWrite, Locking
<1>7. Within(1) /\ \A d \in Remembered : d.gen < seqLast
  BY <1>b, <1>1 DEF Quiet
<1>8. \A g \in outbox' : Gone(g)' => Gone(g)
  BY <1>1, <1>5 DEF Gone
<1>9. \A x : Added(x)' => Added(x) \/ x = e
  BY <1>1 DEF Added
<1>10. OneWrite'
  BY <1>1, <1>3, <1>5, <1>b DEF OneWrite
<1>11. Log'
  <2>1. \A x \in rows' : x = r
    BY <1>1, <1>6
  <2>2. Added(e)' /\ r \in rows' /\ e \in outbox'
    BY <1>1, <1>5 DEF Added
  <2>3. \A x \in outbox : Added(x) => \E g \in outbox' : Gone(g)' /\ g.id = x.id
    BY <1>1, <1>6, <1>b DEF Log, Gone
  <2>4. \A x \in rows' : \E y \in outbox' : Added(y)' /\ y.id = x.id /\ y.seq = seqLast'
    BY <1>1, <1>5, <2>1, <2>2
  <2>5. \A x \in outbox' : Added(x)' =>
          (\E y \in rows' : y.id = x.id) \/ \E g \in outbox' : Gone(g)' /\ g.id = x.id
    BY <1>5, <1>9, <2>2, <2>3 DEF Added
  <2> QED
    BY <2>4, <2>5 DEF Log
<1>12. TargetInv'
  BY <1>2, <1>4 DEF TargetInv, Measuring
<1>13. AllKnow'
  <2> SUFFICES ASSUME NEW d \in Remembered PROVE Knows(d)'
    BY <1>2 DEF AllKnow
  <2>1. Knows(d) /\ d.gen < seqLast
    BY <1>7, <1>b DEF AllKnow
  <2>2. \A x \in outbox' : Added(x)' => x.seq \in d.asOf \/ d.gen < x.seq
    BY <1>5, <1>9, <2>1 DEF Knows, Added
  <2>3. \A x \in outbox' : Gone(x)' /\ x.id # target' => x.seq \in d.asOf
    BY <1>2, <1>8, <2>1 DEF Knows, Gone
  <2> QED
    BY <2>2, <2>3 DEF Knows
<1>14. AllServed'
  <2> SUFFICES ASSUME NEW n \in Nodes PROVE Served(n)'
    BY DEF AllServed
  <2>1. Served(n) /\ req[n] = Free
    BY <1>4, <1>b DEF AllServed, Quiet
  <2>2. seqLast <= gen[n] + 1 /\ \A d \in l1[n] : seqLast <= d.gen + 1
    BY <1>7 DEF Within
  <2>3. Near(gen[n])'
    BY <1>2, <1>5, <1>9, <2>1, <2>2 DEF Served, Near, Added
  <2>4. \A d \in l1[n] : Near(d.gen)'
    <3> SUFFICES ASSUME NEW d \in l1[n] PROVE Near(d.gen)'
      OBVIOUS
    <3>1. Near(d.gen) /\ seqLast <= d.gen + 1
      BY <2>1, <2>2 DEF Served
    <3> QED
      BY <1>5, <1>9, <3>1 DEF Near, Added
  <2> QED
    BY <1>2, <2>1, <2>3, <2>4, FreeType DEF Served
<1>15. Quiet'
  BY <1>2, <1>3, <1>4, <1>b DEF Quiet
<1>16. Denies'
  BY <1>2, <1>4, <1>b DEF Denies, BenchTypes, Early, NoDenies
<1> QED
  BY <1>2, <1>10, <1>11, <1>12, <1>13, <1>14, <1>15, <1>16 DEF BenchInv

(* The DELETE commits: its number follows that of the grant. *)
LEMMA CommitRevoked ==
  ASSUME Everything, NEW w \in Writers, WriteRuns(w), Commit(w), txn[w].op = "GrantRevoked"
  PROVE  BenchInv'
<1>e. PICK e, r : e = EventOf(txn[w]) /\ r = RowOf(txn[w])
  OBVIOUS
<1>b. /\ OneWrite /\ Log /\ TypeOK /\ BenchTypes /\ TargetInv
      /\ AllKnow /\ AllServed /\ Quiet /\ Denies
  BY DEF Everything, BenchInv, SysInv, Inv
<1>1. /\ outbox' = outbox \cup {e} /\ rows' = rows \ {r}
      /\ UNCHANGED seqLast /\ txn' = [txn EXCEPT ![w] = Idle]
      /\ txn[w].stage = "enqueued" /\ IsOpen(w)
  BY <1>e DEF Commit, IsOpen
<1>2. /\ UNCHANGED <<gen, l1, l2, l2Writes, req, stage, target, firstDeny>>
      /\ BenchTypes' /\ Allows' /\ Remembered' = Remembered
  BY WriteRunsFrame
<1>3. \A v \in Writers : ~IsOpen(v)'
  BY <1>b, <1>1, OthersKeep, OnlyOpen, IdleType DEF IsOpen
<1>4. /\ stage = "deleting" /\ txn[w].key = Target
      /\ txn[w].seq = seqLast /\ txn[w].id = target
  BY <1>b, <1>1 DEF OneWrite
<1>5. /\ e.type = "GrantRevoked" /\ e.seq = seqLast /\ e.key = Target /\ e.id = target
      /\ r.id = target
  BY <1>e, <1>4 DEF EventOf, RowOf
<1>6. /\ \A g : Gone(g)' => Gone(g) \/ g = e
      /\ \A g : Gone(g) => Gone(g)'
      /\ Gone(e)' /\ e \in outbox'
  BY <1>1, <1>5 DEF Gone
<1>7. \A x : Added(x)' <=> Added(x)
  BY <1>1, <1>5 DEF Added
<1>10. OneWrite'
  BY <1>1, <1>3, <1>5, <1>b DEF OneWrite
<1>11. Log'
  <2>1. \A x \in outbox' : Added(x)' =>
          (\E y \in rows' : y.id = x.id) \/ \E g \in outbox' : Gone(g)' /\ g.id = x.id
    <3> SUFFICES ASSUME NEW x \in outbox, Added(x)
                 PROVE  (\E y \in rows' : y.id = x.id) \/ \E g \in outbox' : Gone(g)' /\ g.id = x.id
      BY <1>7 DEF Added
    <3>1. CASE \E g \in outbox : Gone(g) /\ g.id = x.id
      BY <1>1, <1>6, <3>1
    <3>2. ASSUME NEW y \in rows, y.id = x.id
          PROVE  (\E z \in rows' : z.id = x.id) \/ \E g \in outbox' : Gone(g)' /\ g.id = x.id
      BY <1>1, <1>5, <1>6, <3>2
    <3> QED
      BY <1>b, <3>1, <3>2 DEF Log
  <2> QED
    BY <1>2, <1>4, <2>1 DEF Log, Early
<1>12. TargetInv'
  <2>1. PICK f \in outbox : IsRegrant(f)
    BY <1>4, <1>b DEF TargetInv, Measuring
  <2>2. seqLast = f.seq + 1
    BY <1>1, <2>1 DEF IsRegrant
  <2>3. IsRegrant(f)'
    BY <1>2, <1>3, <1>4, <1>5, <1>6, <1>7, <1>1, <2>1, <2>2 DEF IsRegrant, Added, Gone
  <2> QED
    BY <1>1, <1>2, <1>4, <2>3 DEF TargetInv
<1>13. AllKnow'
  <2> SUFFICES ASSUME NEW d \in Remembered PROVE Knows(d)'
    BY <1>2 DEF AllKnow
  <2>1. Knows(d)
    BY <1>b DEF AllKnow
  <2> QED
    BY <1>2, <1>5, <1>6, <1>7, <2>1 DEF Knows, Added, Gone
<1>14. AllServed'
  <2>1. \A g : Near(g) => Near(g)'
    BY <1>7 DEF Near, Added
  <2> QED
    BY <1>2, <1>b, <2>1 DEF AllServed, Served
<1>15. Quiet'
  BY <1>2, <1>3, <1>4, <1>b DEF Quiet
<1>16. Denies'
  <2>1. \A d : Caused(d) => Caused(d)'
    BY <1>1, <1>2 DEF Caused, Revoked
  <2> QED
    BY <1>2, <1>7, <1>b, <2>1 DEF Denies, Added
<1> QED
  BY <1>2, <1>10, <1>11, <1>12, <1>13, <1>14, <1>15, <1>16 DEF BenchInv

LEMMA WriteRunsStep ==
  ASSUME Everything, NEW w \in Writers, WriteRuns(w)
  PROVE  BenchInv'
<1>1. CASE Commit(w)
  <2>1. txn[w].op \in {"GrantAdded", "GrantRevoked"}
    BY <1>1 DEF Commit
  <2> QED
    BY <1>1, <2>1, CommitAdded, CommitRevoked
<1> QED
  BY <1>1, WriteEndsStep, EnqueueBench DEF WriteRuns

-----------------------------------------------------------------------------
(* A deny whose generation is above that of another decision of the node   *)
(* has seen the grant, as every decision that is near it has; so what it   *)
(* has also seen is the revoke.                                            *)
LEMMA DenyHasCause ==
  ASSUME Everything, stage \in Measuring, NEW n \in Nodes,
         NEW d \in Remembered, ~d.allowed, NEW x \in l1[n], x.gen < d.gen
  PROVE  Caused(d) /\ \A e \in outbox : Added(e) => e.seq <= d.gen
<1>b. AllKnow /\ AllServed /\ TargetInv /\ OneWrite
  BY DEF Everything, BenchInv
<1>n. \A e \in outbox : e.seq \in Nat /\ e \in Events
  BY BenchFacts
<1>1. d \in Entry /\ d.gen \in Nat /\ Good(d) /\ Knows(d)
  BY <1>b, RememberedEntry DEF AllKnow
<1>2. x.gen \in Nat /\ Near(x.gen)
  BY <1>b, BenchFacts DEF AllServed, Served
<1>3. \A e \in outbox : Added(e) => e.seq <= d.gen
  BY <1>n, <1>1, <1>2 DEF Near
<1>4. PICK f \in outbox : IsRegrant(f)
  BY <1>b DEF TargetInv
<1>5. f.seq \in d.asOf
  <2>1. Added(f) /\ f.seq <= d.gen
    BY <1>3, <1>4 DEF IsRegrant
  <2>2. f.seq \in d.asOf \/ d.gen < f.seq
    BY <1>1, <2>1 DEF Knows
  <2> QED
    BY <1>n, <1>1, <2>1, <2>2
<1>6. ASSUME ~Caused(d) PROVE FALSE
  <2>1. \A g \in outbox : g.seq \in d.asOf => g.seq <= f.seq
    <3> SUFFICES ASSUME NEW g \in outbox, g.seq \in d.asOf PROVE g.seq <= f.seq
      OBVIOUS
    <3>1. CASE Added(g)
      BY <1>4, <3>1 DEF IsRegrant
    <3>2. CASE Gone(g)
      <4>1. g.id # target
        BY <1>6, <3>2 DEF Caused, Revoked, Gone
      <4>2. g.seq < f.seq
        BY <1>4, <3>2, <4>1 DEF IsRegrant
      <4> QED
        BY <1>n, <4>2
    <3> QED
      BY <1>n, <3>1, <3>2 DEF Added, Gone, Events
  <2>2. Target \in HeldAfter(d.asOf)
    BY <1>4, <1>5, <1>b, <2>1, BenchAssumption DEF HeldAfter, IsRegrant, Added, OneWrite
  <2>3. Target \in Paths[d.query]
    BY <1>1, BenchAssumption DEF Entry
  <2> QED
    BY <1>1, <2>2, <2>3 DEF Good, WasTrue
<1> QED
  BY <1>3, <1>6

(* A step of a check that ends nothing. *)
LEMMA CheckMoves ==
  ASSUME Everything, CheckRest, UNCHANGED <<l1, l2, l2Writes, benchVars>>,
         stage \notin {"granting", "posting"},
         NEW n \in Nodes, NEW t, req' = [req EXCEPT ![n] = t],
         t.stage \in {"hit", "computed"} => Knows(t.entry),
         /\ t.node = n
         /\ Near(t.entry.gen) /\ t.entry.gen <= gen[n]
         /\ \A d \in l1[n] : d.gen < t.entry.gen,
         t.stage \in {"l2", "store", "unavailable"} => ~t.entry.allowed /\ t.entry.asOf = {}
  PROVE  BenchInv'
<1>1. UNCHANGED <<rows, outbox, seqLast, txn, gen, stage, told, answers, target, firstDeny>>
  BY DEF CheckRest, vars, generationVars, benchVars
<1>b. /\ BenchTypes /\ OneWrite /\ Log /\ TargetInv
      /\ AllKnow /\ AllServed /\ Quiet /\ Allows /\ Denies
  BY DEF Everything, BenchInv
<1>2. req'[n] = t /\ \A m \in Nodes : m # n => req'[m] = req[m]
  BY BenchFacts
<1>3. BenchTypes' /\ OneWrite' /\ Log'
  BY <1>1, <1>b DEF BenchTypes, NoDenies, OneWrite, IsOpen, Log, Added, Gone
<1>4. TargetInv'
  BY <1>1, <1>b DEF TargetInv, IsRegrant, Added, Gone, IsOpen
<1>5. AllKnow'
  <2> SUFFICES ASSUME NEW d \in Remembered' PROVE Knows(d)'
    BY DEF AllKnow
  <2>1. d \in Remembered \/ (t.stage \in {"hit", "computed"} /\ d = t.entry)
    <3>1. \/ \E m \in Nodes : d \in l1[m]
          \/ d \in l2 \/ d \in l2Writes
          \/ \E m \in Nodes : req'[m].stage \in {"hit", "computed"} /\ d = req'[m].entry
      BY BenchAssumption DEF Remembered
    <3>2. ASSUME NEW m \in Nodes, req'[m].stage \in {"hit", "computed"}, d = req'[m].entry
          PROVE  d \in Remembered \/ (t.stage \in {"hit", "computed"} /\ d = t.entry)
      BY <1>2, <3>2, RememberedParts DEF HasAnswer
    <3> QED
      BY <3>1, <3>2, RememberedParts
  <2>2. Knows(d)
    BY <1>b, <2>1 DEF AllKnow
  <2> QED
    BY <1>1, <2>2 DEF Knows, Added, Gone
<1>6. AllServed'
  <2> SUFFICES ASSUME NEW m \in Nodes PROVE Served(m)'
    BY DEF AllServed
  <2>1. Served(m)
    BY <1>b DEF AllServed
  <2>2. \A g : Near(g)' <=> Near(g)
    BY <1>1 DEF Near, Added
  <2> QED
    BY <1>1, <1>2, <2>1, <2>2 DEF Served
<1>7. Quiet'
  BY <1>1, <1>b DEF Quiet, OneWrite, IsOpen
<1>8. Allows' /\ Denies'
  BY <1>1, <1>b DEF Allows, HasAllow, Denies, Caused, Revoked, Added
<1> QED
  BY <1>3, <1>4, <1>5, <1>6, <1>7, <1>8 DEF BenchInv

LEMMA AskedStep ==
  ASSUME Everything, NEW n \in Nodes, NEW q \in Queries, Asked(n, q)
  PROVE  BenchInv'
<1> DEFINE e == Blank(q, gen[n])
           t == [stage |-> "l2", node |-> n, entry |-> e]
<1>b. AllServed
  BY DEF Everything, BenchInv
<1>n. gen[n] \in Nat /\ gen[n] \in 0..MaxSeq /\ \A d \in l1[n] : d.gen \in Nat /\ d \in Entry
  BY BenchFacts
<1>1. /\ CheckRest /\ UNCHANGED <<l1, l2, l2Writes, benchVars>>
      /\ req' = [req EXCEPT ![n] = t]
      /\ stage \notin {"granting", "posting"}
      /\ \A x \in l1[n] : ~SameKey(x, e)
  BY DEF Asked, Asks, StartCheck
<1>2. /\ t.stage = "l2" /\ t.node = n /\ t.entry.gen = gen[n] /\ t.entry.query = q
      /\ ~t.entry.allowed /\ t.entry.asOf = {}
  BY DEF Blank
<1>3. \A d \in l1[n] : d.gen < gen[n]
  <2>1. \A d \in l1[n] : d.query = q
    BY <1>n, BenchAssumption DEF Entry
  <2>2. \A d \in l1[n] : d.gen # gen[n] /\ d.gen <= gen[n]
    BY <1>1, <1>2, <1>b, <2>1 DEF SameKey, AllServed, Served
  <2> QED
    BY <1>n, <2>2
<1>4. Near(gen[n]) /\ gen[n] <= gen[n]
  BY <1>n, <1>b DEF AllServed, Served
<1> HIDE DEF t, e
<1> QED
  BY <1>1, <1>2, <1>3, <1>4, CheckMoves

(* While a check is under way the benchmark has got beyond the POST. *)
LEMMA UnderWay ==
  ASSUME Everything, NEW n \in Nodes, req[n].stage # "free"
  PROVE  stage \notin {"granting", "posting"}
BY FreeType DEF Everything, BenchInv, Quiet

LEMMA CheckRunsStep ==
  ASSUME Everything, NEW n \in Nodes, CheckRuns(n)
  PROVE  BenchInv'
<1>b. AllServed /\ AllKnow
  BY DEF Everything, BenchInv
<1>t. req[n] \in [stage : {"free", "l2", "hit", "store", "computed", "unavailable"},
                  node : Nodes, entry : Entry]
  BY BenchFacts
<1>1. /\ CheckRest /\ UNCHANGED <<l1, l2, l2Writes, benchVars>>
      /\ req[n].stage \in {"l2", "store"}
  BY DEF CheckRuns, L2Hit, L2Miss, StoreRead, StoreFail
<1>2. /\ stage \notin {"granting", "posting"}
      /\ req[n].node = n
      /\ Near(req[n].entry.gen) /\ req[n].entry.gen <= gen[n]
      /\ \A d \in l1[n] : d.gen < req[n].entry.gen
      /\ ~req[n].entry.allowed /\ req[n].entry.asOf = {}
  BY <1>1, <1>b, UnderWay DEF AllServed, Served
<1>3. CASE L2Hit(n)
  <2>1. PICK e \in l2 : /\ SameKey(e, req[n].entry)
                        /\ req' = [req EXCEPT ![n] = [req[n] EXCEPT !.stage = "hit", !.entry = e]]
    BY <1>3 DEF L2Hit
  <2> DEFINE t == [req[n] EXCEPT !.stage = "hit", !.entry = e]
  <2>2. t.stage = "hit" /\ t.node = n /\ t.entry = e /\ t.entry.gen = req[n].entry.gen
    BY <1>t, <1>2, <2>1 DEF SameKey
  <2>3. Knows(e)
    BY <1>b, RememberedParts DEF AllKnow
  <2>4. req' = [req EXCEPT ![n] = t]
    BY <2>1
  <2> HIDE DEF t
  <2> QED
    BY <1>1, <1>2, <2>2, <2>3, <2>4, CheckMoves
<1>4. CASE L2Miss(n) \/ StoreFail(n)
  <2>1. PICK s \in {"store", "unavailable"} : req' = [req EXCEPT ![n] = [req[n] EXCEPT !.stage = s]]
    BY <1>4 DEF L2Miss, StoreFail
  <2> DEFINE t == [req[n] EXCEPT !.stage = s]
  <2>2. t.stage = s /\ t.node = n /\ t.entry = req[n].entry
    BY <1>t, <1>2
  <2>3. req' = [req EXCEPT ![n] = t]
    BY <2>1
  <2> HIDE DEF t
  <2> QED
    BY <1>1, <1>2, <2>2, <2>3, CheckMoves
<1>5. CASE StoreRead(n)
  <2> DEFINE e == [req[n].entry EXCEPT !.allowed = Allowed(req[n].entry.query), !.asOf = Committed]
             t == [req[n] EXCEPT !.stage = "computed", !.entry = e]
  <2>1. req' = [req EXCEPT ![n] = t]
    BY <1>5 DEF StoreRead
  <2>2. t.stage = "computed" /\ t.node = n /\ t.entry = e
    BY <1>t, <1>2
  <2>3. e.gen = req[n].entry.gen /\ e.asOf = Committed
    BY <1>t DEF Entry
  <2> HIDE DEF e
  <2> HIDE DEF t
  <2>4. Knows(e)
    BY <2>3 DEF Knows, Committed
  <2> QED
    BY <1>1, <1>2, <2>1, <2>2, <2>3, <2>4, CheckMoves
<1> QED
  BY <1>3, <1>4, <1>5 DEF CheckRuns

(* What the node gives as its answer is what the benchmark hears. *)
LEMMA HearsKeeps ==
  ASSUME Everything, NEW n \in Nodes, NEW d \in Entry, NEW isCached \in BOOLEAN,
         Hears(n, d, isCached),
         UNCHANGED <<outbox>>,
         \A m \in Nodes : l1[m] \subseteq l1'[m],
         d.allowed => d \in l1'[n],
         stage \in Measuring /\ ~d.allowed =>
           IsOutage(d) \/ (d \in l1'[n] /\ Caused(d) /\ \A e \in outbox : Added(e) => e.seq <= d.gen)
  PROVE  BenchTypes' /\ Allows' /\ Denies' /\ UNCHANGED <<stage, told, target>>
<1>b. BenchTypes /\ Allows /\ Denies
  BY DEF Everything, BenchInv
<1>1. UNCHANGED <<stage, told, target>>
  BY DEF Hears
<1>2. answers' \in [Nodes -> {"none", "allow", "deny", "cached"}]
  BY <1>b DEF Hears, BenchTypes
<1>3. firstDeny' \in [Nodes -> SUBSET {x \in Entry : ~x.allowed}]
  BY <1>b DEF Hears, BenchTypes
<1>4. stage \in Early => UNCHANGED firstDeny
  BY DEF Hears, Early
<1>5. BenchTypes'
  BY <1>1, <1>2, <1>3, <1>4, <1>b DEF BenchTypes, NoDenies
<1>6. Allows'
  <2>1. stage = "rechecking" =>
          \A m \in Nodes : answers'[m] = "allow" => answers[m] = "allow" \/ (m = n /\ d.allowed)
    BY <1>b DEF Hears, BenchTypes
  <2> QED
    BY <1>1, <1>b, <2>1 DEF Allows, HasAllow
<1>7. Denies'
  <2>1. \A m \in Nodes : \A x \in firstDeny'[m] :
          x \in firstDeny[m] \/ (m = n /\ x = d /\ ~d.allowed /\ stage \in Measuring)
    BY <1>b DEF Hears, BenchTypes, Measuring
  <2>2. stage # "reported"
    BY DEF Hears
  <2>3. \A x : Caused(x)' <=> Caused(x)
    BY <1>1 DEF Caused, Revoked
  <2>4. \A m \in Nodes : \A x \in firstDeny'[m] :
          IsOutage(x) \/ (x \in l1'[m] /\ Caused(x)' /\ \A e \in outbox : Added(e) => e.seq <= x.gen)
    BY <1>b, <2>1, <2>3 DEF Denies
  <2> QED
    BY <1>1, <2>2, <2>4 DEF Denies, Added
<1> QED
  BY <1>1, <1>5, <1>6, <1>7

LEMMA AnsweredByL1Step ==
  ASSUME Everything, NEW n \in Nodes, NEW d \in l1[n], AnsweredByL1(n, d)
  PROVE  BenchInv'
<1>b. /\ OneWrite /\ Log /\ TargetInv
      /\ AllKnow /\ AllServed /\ Quiet /\ Allows
  BY DEF Everything, BenchInv
<1>1. UNCHANGED <<rows, outbox, seqLast, txn, gen, l1, l2, l2Writes, req>>
  BY DEF AnsweredByL1, sysVars, vars, generationVars, decisionVars
<1>2. Asks(n) /\ d.gen = gen[n] /\ Hears(n, d, TRUE)
  BY DEF AnsweredByL1
<1>4. d \in Entry /\ d \in Remembered
  BY BenchFacts, RememberedParts
<1>5. ASSUME stage \in Measuring, ~d.allowed
      PROVE  Caused(d) /\ \A e \in outbox : Added(e) => e.seq <= d.gen
  <2>1. PICK x \in l1[n] : x.allowed
    BY <1>5, <1>b DEF Allows, Warmed, HasAllow
  <2>2. x.gen <= gen[n] /\ x.gen # d.gen
    BY <1>5, <1>b, <2>1 DEF AllServed, Served
  <2>3. x.gen \in Nat /\ d.gen \in Nat
    BY BenchFacts
  <2>4. x.gen < d.gen
    BY <1>2, <2>2, <2>3
  <2> QED
    BY <1>4, <1>5, <2>4, DenyHasCause
<1>6. BenchTypes' /\ Allows' /\ Denies' /\ UNCHANGED <<stage, told, target>>
  BY <1>1, <1>2, <1>4, <1>5, HearsKeeps
<1>7. OneWrite' /\ Log'
  BY <1>1, <1>6, <1>b DEF OneWrite, IsOpen, Log, Added, Gone
<1>8. TargetInv'
  BY <1>1, <1>6, <1>b DEF TargetInv, IsRegrant, Added, Gone, IsOpen
<1>9. AllKnow' /\ AllServed'
  BY <1>1, <1>6, <1>b DEF AllKnow, Remembered, Knows, AllServed, Served, Near, Added, Gone
<1>10. Quiet'
  BY <1>1, <1>6, <1>b DEF Quiet, Within, IsOpen, Remembered
<1> QED
  BY <1>6, <1>7, <1>8, <1>9, <1>10 DEF BenchInv

LEMMA AnsweredStep ==
  ASSUME Everything, NEW n \in Nodes, Answered(n)
  PROVE  BenchInv'
<1>e. PICK d : d = req[n].entry
  OBVIOUS
<1>b. /\ OneWrite /\ Log /\ TargetInv
      /\ AllKnow /\ AllServed /\ Quiet /\ Allows
  BY DEF Everything, BenchInv
<1>t. /\ l1 \in [Nodes -> SUBSET Entry] /\ d \in Entry
      /\ \A x \in l1[n] : x \in Entry
  BY <1>e, BenchFacts
<1>n. d.gen \in Nat /\ gen[n] \in Nat /\ \A x \in l1[n] : x.gen \in Nat
  BY <1>t, BenchFacts
<1>1. UNCHANGED <<rows, outbox, seqLast, txn, gen>>
  BY DEF Answered, CheckRest, vars, generationVars
<1>2. /\ req[n].stage \in {"hit", "computed", "unavailable"}
      /\ req' = [req EXCEPT ![n] = Free] /\ UNCHANGED l2
      /\ l2Writes' \subseteq l2Writes \cup {d}
      /\ req[n].stage = "unavailable" => UNCHANGED <<l1, l2Writes>>
      /\ req[n].stage # "unavailable" => Remember(req[n].node, d)
  BY <1>e DEF Answered, ReplyHit, ReplyComputed, ReplyUnavailable, Send
<1>3. /\ stage \notin {"granting", "posting"}
      /\ req[n].node = n
      /\ Near(d.gen) /\ d.gen <= gen[n]
      /\ \A x \in l1[n] : x.gen < d.gen
      /\ req[n].stage = "unavailable" => ~d.allowed /\ d.asOf = {}
  BY <1>2, <1>b, <1>e, UnderWay DEF AllServed, Served
<1>4. Put(l1[n], d) = l1[n] \cup {d}
  BY <1>3, <1>n DEF Put, SameKey
<1>5. /\ \A m \in Nodes : m # n => l1'[m] = l1[m] /\ req'[m] = req[m]
      /\ req'[n] = Free /\ req'[n].stage = "free"
      /\ l1'[n] = IF req[n].stage = "unavailable" THEN l1[n] ELSE l1[n] \cup {d}
  <2>1. /\ \A m \in Nodes : m # n => req'[m] = req[m]
        /\ req'[n] = Free /\ req'[n].stage = "free"
    BY <1>2, BenchFacts, FreeType
  <2>2. CASE req[n].stage = "unavailable"
    BY <1>2, <2>1, <2>2
  <2>3. CASE req[n].stage # "unavailable"
    <3>1. l1' = [l1 EXCEPT ![n] = Put(l1[n], d)]
      BY <1>2, <1>3, <2>3 DEF Remember
    <3>2. l1'[n] = l1[n] \cup {d} /\ \A m \in Nodes : m # n => l1'[m] = l1[m]
      BY <1>4, <1>t, <3>1
    <3> QED
      BY <2>1, <2>3, <3>2
  <2> QED
    BY <2>2, <2>3
<1>6. req[n].stage # "unavailable" => d \in Remembered
  BY <1>2, <1>e, RememberedParts DEF HasAnswer
<1>7. ASSUME stage \in Measuring, ~d.allowed
      PROVE  \/ IsOutage(d)
             \/ d \in l1'[n] /\ Caused(d) /\ \A e \in outbox : Added(e) => e.seq <= d.gen
  <2>1. CASE req[n].stage = "unavailable"
    BY <1>3, <2>1 DEF IsOutage
  <2>2. CASE req[n].stage # "unavailable"
    <3>1. PICK x \in l1[n] : x.allowed
      BY <1>7, <1>b DEF Allows, Warmed, HasAllow
    <3> QED
      BY <1>3, <1>5, <1>6, <1>7, <2>2, <3>1, DenyHasCause
  <2> QED
    BY <2>1, <2>2
<1>8. BenchTypes' /\ Allows' /\ Denies' /\ UNCHANGED <<stage, told, target>>
  <2>1. PICK isCached \in BOOLEAN : Hears(n, d, isCached)
    <3>1. (req[n].stage = "hit") \in BOOLEAN
      OBVIOUS
    <3> QED
      BY <1>e, <3>1 DEF Answered
  <2> QED
    BY <1>1, <1>3, <1>5, <1>7, <1>t, <2>1, HearsKeeps
<1>9. OneWrite' /\ Log'
  BY <1>1, <1>8, <1>b DEF OneWrite, IsOpen, Log, Added, Gone
<1>10. TargetInv'
  BY <1>1, <1>8, <1>b DEF TargetInv, IsRegrant, Added, Gone, IsOpen
<1>11. AllKnow'
  <2> SUFFICES ASSUME NEW x \in Remembered' PROVE Knows(x)'
    BY DEF AllKnow
  <2>1. \/ \E m \in Nodes : x \in l1'[m]
        \/ x \in l2 \/ x \in l2Writes'
        \/ \E m \in Nodes : req'[m].stage \in {"hit", "computed"} /\ x = req'[m].entry
    BY <1>2, BenchAssumption DEF Remembered
  <2>2. ASSUME NEW m \in Nodes, x \in l1'[m] PROVE x \in Remembered
    BY <1>5, <1>6, <2>2, RememberedParts
  <2>3. ASSUME x \in l2Writes' PROVE x \in Remembered
    BY <1>2, <1>6, <2>3, RememberedParts
  <2>4. ASSUME NEW m \in Nodes, req'[m].stage \in {"hit", "computed"}, x = req'[m].entry
        PROVE  x \in Remembered
    BY <1>5, <2>4, RememberedParts DEF HasAnswer
  <2>5. x \in Remembered
    BY <2>1, <2>2, <2>3, <2>4, RememberedParts
  <2> QED
    BY <1>1, <1>8, <1>b, <2>5 DEF AllKnow, Knows, Added, Gone
<1>12. AllServed'
  <2> SUFFICES ASSUME NEW m \in Nodes PROVE Served(m)'
    BY DEF AllServed
  <2>1. Served(m)
    BY <1>b DEF AllServed
  <2>2. \A g : Near(g)' <=> Near(g)
    BY <1>1 DEF Near, Added
  <2>3. CASE m # n
    BY <1>1, <1>5, <2>1, <2>2, <2>3 DEF Served
  <2>4. CASE m = n
    <3>1. \A x \in l1'[n] : x \in l1[n] \/ x = d
      BY <1>5
    <3>2. \A x \in l1'[n] : Near(x.gen)' /\ x.gen <= gen[n]
      BY <1>3, <2>1, <2>2, <2>4, <3>1 DEF Served
    <3>3. \A x, y \in l1'[n] : x.gen = y.gen => x = y
      BY <1>3, <1>n, <2>1, <2>4, <3>1 DEF Served
    <3> QED
      BY <1>1, <1>5, <2>1, <2>2, <2>4, <3>2, <3>3 DEF Served
  <2> QED
    BY <2>3, <2>4
<1>13. Quiet'
  BY <1>1, <1>3, <1>8, <1>b DEF Quiet, OneWrite, IsOpen
<1> QED
  BY <1>8, <1>9, <1>10, <1>11, <1>12, <1>13 DEF BenchInv

-----------------------------------------------------------------------------
(* Beside the benchmark generations only grow and decisions only go away. *)
LEMMA BackgroundStep ==
  ASSUME Everything, Background
  PROVE  BenchInv'
<1>b. /\ BenchTypes /\ OneWrite /\ Log /\ TargetInv
      /\ AllKnow /\ AllServed /\ Quiet /\ Allows /\ Denies
  BY DEF Everything, BenchInv
<1>n. /\ gen \in [Nodes -> 0..MaxSeq] /\ \A n \in Nodes : gen[n] \in Nat
      /\ seqLast \in Nat /\ \A e \in outbox : e.seq \in Nat
      /\ \A n \in Nodes : \A d \in l1[n] : d.gen \in Nat
      /\ \A n \in Nodes : req[n].entry.gen \in Nat
  BY BenchFacts
<1>1. UNCHANGED <<rows, outbox, seqLast, txn, l1, req, stage, told, answers, target, firstDeny>>
  BY DEF Background, benchVars, AdoptStep, Adopted, NodeRest, CheckRest, vars, decisionVars,
         WriteLands, WriteLost
<1>2. \A n \in Nodes : gen'[n] \in Nat /\ gen'[n] >= gen[n]
  <2>1. CASE AdoptStep
    <3>1. PICK n \in Nodes, v \in 0..MaxSeq : gen' = [gen EXCEPT ![n] = Advance(gen[n], v)]
      <4>1. /\ poll \in [Nodes -> SUBSET (0..MaxSeq)] /\ Committed \subseteq 0..MaxSeq
        BY BoundsAssumption DEF Everything, SysInv, SysTypeOK, GenerationTypeOK, TypeOK,
                                Events, Committed
      <4> QED
        BY <2>1, <4>1 DEF AdoptStep, BootAdopt, PollAdopt, Observe
    <3> QED
      BY <1>n, <3>1, BoundsAssumption DEF Advance
  <2>2. CASE UNCHANGED gen
    BY <1>n, <2>2
  <2> QED
    BY <2>1, <2>2 DEF Background, PollRead, PollFail, CheckRest, generationVars
<1>3. l2Writes' \subseteq l2Writes /\ l2' \subseteq l2 \cup l2Writes
  BY PutType, BenchFacts DEF Background, AdoptStep, Adopted, NodeRest, decisionVars,
                             WriteLands, WriteLost
<1>4. Remembered' \subseteq Remembered
  <2> SUFFICES ASSUME NEW x \in Remembered' PROVE x \in Remembered
    OBVIOUS
  <2>1. \/ \E m \in Nodes : x \in l1[m]
        \/ x \in l2 \/ x \in l2Writes
        \/ \E m \in Nodes : HasAnswer(m) /\ x = req[m].entry
    BY <1>1, <1>3, BenchAssumption DEF Remembered, HasAnswer
  <2> QED
    BY <2>1, RememberedParts
<1>5. BenchTypes' /\ OneWrite' /\ Log' /\ Allows' /\ Denies'
  BY <1>1, <1>b DEF BenchTypes, NoDenies, OneWrite, IsOpen, Log, Added, Gone,
                    Allows, HasAllow, Denies, Caused, Revoked
<1>6. TargetInv'
  BY <1>1, <1>b DEF TargetInv, IsRegrant, Added, Gone, IsOpen
<1>7. AllKnow'
  BY <1>1, <1>4, <1>b DEF AllKnow, Knows, Added, Gone
<1>8. AllServed'
  <2> SUFFICES ASSUME NEW n \in Nodes PROVE Served(n)'
    BY DEF AllServed
  <2>1. Served(n)
    BY <1>b DEF AllServed
  <2>2. \A g : Near(g)' <=> Near(g)
    BY <1>1 DEF Near, Added
  <2>3. Near(gen[n])'
    BY <1>1, <1>2, <1>n, <2>1 DEF Served, Near, Added
  <2>4. /\ \A d \in l1[n] : d.gen <= gen'[n]
        /\ req[n].stage # "free" => req[n].entry.gen <= gen'[n]
    BY <1>2, <1>n, <2>1 DEF Served
  <2> QED
    BY <1>1, <2>1, <2>2, <2>3, <2>4 DEF Served
<1>9. Quiet'
  <2>1. \A k \in {0, 1} : Within(k) => Within(k)'
    BY <1>1, <1>2, <1>n DEF Within
  <2>2. Within(0) => Within(0)'
    BY <2>1
  <2>3. Within(1) => Within(1)'
    BY <2>1
  <2> QED
    BY <1>1, <1>3, <1>4, <1>b, <2>2, <2>3 DEF Quiet, IsOpen
<1> QED
  BY <1>5, <1>6, <1>7, <1>8, <1>9 DEF BenchInv

LEMMA BenchStep == Everything /\ [WindowNext]_allVars => BenchInv'
<1> SUFFICES ASSUME Everything, [WindowNext]_allVars PROVE BenchInv'
  OBVIOUS
<1>1. CASE UNCHANGED allVars
  <2>b. /\ BenchTypes /\ OneWrite /\ Log /\ TargetInv
        /\ AllKnow /\ AllServed /\ Quiet /\ Allows /\ Denies
    BY DEF Everything, BenchInv
  <2>1. UNCHANGED <<rows, outbox, seqLast, txn, gen, l1, l2, l2Writes, req,
                    stage, told, answers, target, firstDeny>>
    BY <1>1 DEF allVars, benchVars, sysVars, vars, generationVars, decisionVars
  <2>2. BenchTypes' /\ OneWrite' /\ Log' /\ Allows' /\ Denies'
    BY <2>1, <2>b DEF BenchTypes, NoDenies, OneWrite, IsOpen, Log, Added, Gone,
                      Allows, HasAllow, Denies, Caused, Revoked
  <2>3. TargetInv'
    BY <2>1, <2>b DEF TargetInv, IsRegrant, Added, Gone, IsOpen
  <2>4. AllKnow' /\ AllServed'
    BY <2>1, <2>b DEF AllKnow, Remembered, Knows, AllServed, Served, Near, Added, Gone
  <2>5. Quiet'
    BY <2>1, <2>b DEF Quiet, Within, IsOpen, Remembered
  <2> QED
    BY <2>2, <2>3, <2>4, <2>5 DEF BenchInv
<1> QED
  BY <1>1, StageStep, WarmEndsStep, PostStep, DeleteRunsStep, WriteRunsStep, AskedStep,
     CheckRunsStep, AnsweredByL1Step, AnsweredStep, BackgroundStep DEF WindowNext

(* The inductive invariant of the benchmark and the system under it. *)
THEOREM BenchInvariance == WindowSpec => []Everything
<1>1. WindowInit => Everything
  BY StartsWithSysInv, StartsWithBenchInv DEF Everything
<1>2. Everything /\ [WindowNext]_allVars => Everything'
  BY SystemStep, BenchStep DEF Everything
<1> QED
  BY <1>1, <1>2, PTL DEF WindowSpec

(* The benchmark's variables keep their types, and the grant that the      *)
(* DELETE of measureOnce names is there until the DELETE runs.             *)
THEOREM WindowTypeTheorem == WindowSpec => []WindowTypeOK
<1>1. Everything => WindowTypeOK
  BY DEF Everything, BenchInv, BenchTypes, TargetInv, Measuring, WindowTypeOK
<1> QED
  BY <1>1, BenchInvariance, PTL

(* warm does what it is for: when measureOnce starts, every node holds an  *)
(* allow of this round's grant, whatever earlier rounds left in Redis, and *)
(* the node serves it unless it has learned of the grant only since.       *)
THEOREM WarmTheorem == WindowSpec => []WarmIsWarm
<1>1. Everything => WarmIsWarm
  <2> SUFFICES ASSUME Everything, stage \in {"polling", "dispatched"}, NEW n \in Nodes
               PROVE  \E d \in l1[n] : \E s \in Regranted :
                        d.allowed /\ s \in d.asOf /\ (d.gen = gen[n] \/ d.gen < s)
    BY DEF WarmIsWarm
  <2>b. /\ OneWrite /\ Log /\ TargetInv /\ AllKnow /\ AllServed /\ Allows
        /\ Lives /\ OneLifePerRow /\ NodesInv
    BY DEF Everything, BenchInv, SysInv, Inv
  <2>n. /\ \A e \in outbox : e.seq \in Nat
        /\ gen[n] \in Nat /\ seqLast \in Nat /\ \A d \in l1[n] : d.gen \in Nat
    BY BenchFacts
  <2>1. PICK d \in l1[n] : d.allowed
    BY <2>b DEF Allows, Warmed, Measuring, HasAllow
  <2>2. d \in Entry /\ Good(d) /\ Knows(d)
    BY <2>b, RememberedParts, RememberedEntry DEF AllKnow
  <2>3. PICK f \in outbox : IsRegrant(f)
    BY <2>b DEF TargetInv, Measuring
  <2>4. PICK e \in outbox : /\ e.seq \in d.asOf /\ Added(e)
                            /\ \A g \in outbox : g.seq \in d.asOf => g.seq <= e.seq
    <3>1. PICK k \in Keys : k \in HeldAfter(d.asOf)
      BY <2>1, <2>2 DEF Good, WasTrue, HeldAfter
    <3> QED
      BY <2>b, <3>1 DEF HeldAfter, Added, OneWrite
  <2>5. e.id = target
    <3> SUFFICES ASSUME e.id # target PROVE FALSE
      OBVIOUS
    <3>1. [id |-> target, key |-> Target] \in rows
      BY <2>b DEF TargetInv, Measuring
    <3>2. \A r \in rows : r.id = target
      BY <2>b, <3>1 DEF OneWrite, Lives
    <3>3. PICK g \in outbox : Gone(g) /\ g.id = e.id
      BY <2>b, <2>4, <3>2 DEF Log
    <3>4. g.seq \in d.asOf
      BY <2>2, <3>3 DEF Knows
    <3>5. e.seq < g.seq
      BY <2>4, <2>b, <3>3 DEF OneLifePerRow, Added, Gone
    <3> QED
      BY <2>4, <2>n, <3>4, <3>5
  <2>6. e = f /\ f.seq \in Regranted
    BY <2>3, <2>4, <2>5, <2>b DEF OneLifePerRow, Added, IsRegrant, Regranted
  <2>7. d.gen <= gen[n] /\ gen[n] <= f.seq
    BY <2>3, <2>b DEF AllServed, Served, NodesInv, Closed, IsRegrant
  <2> QED
    BY <2>1, <2>4, <2>6, <2>7, <2>n
<1> QED
  BY <1>1, BenchInvariance, PTL

(* measureOnce counts no deny but one that the revoke caused, or an        *)
(* outage: not the deny of an earlier round out of a cache.                *)
THEOREM DenyTheorem == WindowSpec => []DenyIsCaused
<1>1. Everything => DenyIsCaused
  BY DEF Everything, BenchInv, Denies, Caused, DenyIsCaused
<1> QED
  BY <1>1, BenchInvariance, PTL

(* The reported window does not end too early: afterwards no node serves   *)
(* an allow from a cache, its own or the shared one.                       *)
THEOREM WindowLastTheorem == WindowSpec => []WindowIsLast
<1>1. Everything => WindowIsLast
  <2> SUFFICES ASSUME Everything, stage = "reported", Revoked \cap raced = {},
                      \A m \in Nodes : \A x \in firstDeny[m] : ~IsOutage(x),
                      NEW n \in Nodes, NEW d \in Serves(n), d.allowed
               PROVE  FALSE
    BY DEF WindowIsLast
  <2> DEFINE current(cache) == {x \in cache : x.gen = gen[n]}
  <2>b. /\ OneWrite /\ TargetInv /\ AllServed /\ Denies /\ BenchTypes
    BY DEF Everything, BenchInv
  <2>n. /\ \A e \in outbox : e.seq \in Nat /\ e \in Events
        /\ gen[n] \in Nat /\ seqLast \in Nat
        /\ l1[n] \subseteq Entry /\ l2 \subseteq Entry /\ \A x \in Entry : x.gen \in Nat
    BY BenchFacts
  <2>1. /\ d.gen = gen[n] /\ d \in l1[n] \cup l2
        /\ d \in l1[n] \/ current(l1[n]) = {}
    BY DEF Serves
  <2>2. d \in Entry /\ Good(d)
    BY <2>1, <2>n, RememberedParts, RememberedEntry
  <2>3. PICK f \in outbox : IsRegrant(f)
    BY <2>b DEF TargetInv, Measuring
  <2>4. PICK x \in l1[n] : ~x.allowed /\ Caused(x) /\ f.seq <= x.gen
    <3>1. PICK x \in firstDeny[n] : ~x.allowed
      BY <2>b DEF Denies, BenchTypes
    <3> QED
      BY <2>3, <2>b, <3>1 DEF Denies, IsRegrant
  <2>5. PICK g \in outbox : Gone(g) /\ g.id = target /\ g.seq = f.seq + 1
    BY <2>3, <2>4 DEF Caused, Revoked, Gone, IsRegrant
  <2>6. g.seq \notin d.asOf
    <3>1. PICK k \in Keys : k \in HeldAfter(d.asOf)
      BY <2>2 DEF Good, WasTrue, HeldAfter
    <3>2. PICK e \in outbox : Added(e) /\ \A h \in outbox : h.seq \in d.asOf => h.seq <= e.seq
      BY <2>b, <3>1 DEF HeldAfter, Added, OneWrite
    <3>3. e.seq <= f.seq
      BY <2>3, <3>2 DEF IsRegrant
    <3> QED
      BY <2>5, <2>n, <3>2, <3>3
  <2>7. ~(g.seq <= d.gen)
    <3>1. g.seq \in Committed /\ g.seq \in Revoked
      BY <2>5 DEF Committed, Revoked, Gone
    <3> QED
      BY <2>2, <2>6, <3>1 DEF Good, Fresh
  <2>8. x.gen <= gen[n]
    BY <2>4, <2>b DEF AllServed, Served
  <2>9. x.gen = gen[n]
    BY <2>1, <2>4, <2>5, <2>7, <2>8, <2>n
  <2>10. x = d
    BY <2>1, <2>4, <2>9, <2>b DEF AllServed, Served
  <2> QED
    BY <2>4, <2>10
<1> QED
  BY <1>1, BenchInvariance, PTL
=============================================================================
