---------------------------- MODULE ConsoleProofs ----------------------------
(***************************************************************************)
(* Proofs about Console, for any number of nodes, selections and grants,   *)
(* and for any number of loads, clicks and changes of the selection.       *)
(***************************************************************************)
EXTENDS Console, FiniteSetTheorems, SequenceTheorems, WellFoundedInduction, TLAPS

-----------------------------------------------------------------------------
(* Lists. *)

(* A set of numbers has a least one. *)
LEMMA Least ==
  ASSUME NEW I \in SUBSET Nat, I # {}
  PROVE  \E m \in I : \A k \in I : m <= k
<1> DEFINE T == {0..k : k \in I}
<1>1. T \subseteq FiniteSubsetsOf(Nat) /\ T # {}
  <2>1. \A k \in Nat : 0..k \subseteq Nat /\ IsFiniteSet(0..k)
    BY FS_Interval
  <2> QED BY <2>1 DEF FiniteSubsetsOf
<1>2. IsWellFoundedOn(StrictSubsetOrdering(Nat), FiniteSubsetsOf(Nat))
  BY FS_StrictSubsetOrderingWellFounded
<1> HIDE DEF T
<1>3. PICK x \in T : \A y \in T : <<y, x>> \notin StrictSubsetOrdering(Nat)
  BY <1>1, <1>2, WFMin
<1>4. PICK m \in I : x = 0..m
  BY DEF T
<1>5. ASSUME NEW k \in I PROVE m <= k
  <2>1. SUFFICES ASSUME k < m PROVE FALSE
    OBVIOUS
  <2>2. 0..k \in T /\ 0..k \subseteq x /\ 0..k # x /\ x \subseteq Nat
    BY <1>4, <2>1 DEF T
  <2> QED BY <1>3, <2>2 DEF StrictSubsetOrdering
<1> QED BY <1>5

(* What a search in a list that has something to find returns. *)
LEMMA FirstOf == ASSUME NEW I \in SUBSET Nat, I # {} PROVE S!Min(I) \in I
<1>1. PICK m \in I : \A k \in I : m <= k
  BY Least
<1> QED BY <1>1 DEF S!Min

(* A list without its i-th element. *)
LEMMA Without ==
  ASSUME NEW X, NEW s \in Seq(X), NEW i \in 1..Len(s),
         NEW r, r = S!RemoveAt(s, i)
  PROVE  /\ r \in Seq(X) /\ Len(r) = Len(s) - 1
         /\ \A j \in 1..Len(r) : r[j] = IF j < i THEN s[j] ELSE s[j + 1]
<1> DEFINE a == SubSeq(s, 1, i - 1)
           b == SubSeq(s, i + 1, Len(s))
<1>1. a \in Seq(X) /\ Len(a) = i - 1 /\ \A j \in 1..(i - 1) : a[j] = s[j]
  BY SubSeqProperties
<1>2. b \in Seq(X) /\ Len(b) = Len(s) - i /\ \A j \in 1..(Len(s) - i) : b[j] = s[i + j]
  BY SubSeqProperties
<1>3. r = a \o b
  BY DEF S!RemoveAt
<1> HIDE DEF a, b
<1>5. a \in Seq(X) /\ b \in Seq(X)
  BY <1>1, <1>2
<1>6. /\ r \in Seq(X) /\ Len(r) = Len(a) + Len(b)
      /\ \A j \in 1..Len(a) + Len(b) : r[j] = IF j <= Len(a) THEN a[j] ELSE b[j - Len(a)]
  BY ONLY <1>3, <1>5, ConcatProperties
<1>4. r \in Seq(X) /\ Len(r) = Len(s) - 1
  BY <1>1, <1>2, <1>6
<1>7. ASSUME NEW j \in 1..Len(r) PROVE r[j] = IF j < i THEN s[j] ELSE s[j + 1]
  <2>1. CASE j < i
    BY <1>1, <1>4, <1>6, <2>1
  <2>2. CASE ~(j < i)
    <3>1. r[j] = b[j - Len(a)]
      BY <1>1, <1>4, <1>6, <2>2
    <3>2. j - Len(a) \in 1..(Len(s) - i) /\ i + (j - Len(a)) = j + 1
      BY <1>1, <1>4, <2>2
    <3> QED BY <1>2, <2>2, <3>1, <3>2
  <2> QED BY <2>1, <2>2
<1> QED BY <1>4, <1>7

(* A list without an element: nothing is added and nothing repeated. *)
LEMMA WithoutGrant ==
  ASSUME NEW X, NEW s \in Seq(X), S!IsInjective(s), NEW e,
         NEW r, r = S!RemoveFirst(s, e)
  PROVE  r \in Seq(X) /\ S!IsInjective(r) /\ S!ToSet(r) \subseteq S!ToSet(s)
<1>1. CASE \E i \in 1..Len(s) : s[i] = e
  <2> DEFINE I == {j \in 1..Len(s) : s[j] = e}
             k == S!Min(I)
  <2>1. r = S!RemoveAt(s, k)
    BY <1>1 DEF S!RemoveFirst, S!SelectInSeq
  <2>2. I \in SUBSET Nat /\ I # {}
    BY <1>1
  <2>3. k \in I
    <3> HIDE DEF I
    <3> QED BY <2>2, FirstOf
  <2>4. k \in 1..Len(s)
    BY <2>3
  <2> HIDE DEF k
  <2>5. /\ r \in Seq(X) /\ Len(r) = Len(s) - 1
        /\ \A j \in 1..Len(r) : r[j] = IF j < k THEN s[j] ELSE s[j + 1]
    BY <2>1, <2>4, Without
  <2>6. DOMAIN r = 1..Len(r) /\ DOMAIN s = 1..Len(s) /\ Len(s) \in Nat /\ k \in Nat
    BY <2>4, <2>5
  <2> DEFINE From(j) == IF j < k THEN j ELSE j + 1
  <2>9. /\ \A j \in DOMAIN r : From(j) \in DOMAIN s /\ r[j] = s[From(j)]
        /\ \A j, l \in DOMAIN r : From(j) = From(l) => j = l
    BY <2>4, <2>5, <2>6
  <2> HIDE DEF From
  <2>7. S!IsInjective(r)
    BY <2>9 DEF S!IsInjective
  <2>8. S!ToSet(r) \subseteq S!ToSet(s)
    BY <2>9 DEF S!ToSet
  <2> QED BY <2>5, <2>7, <2>8
<1>2. CASE ~\E i \in 1..Len(s) : s[i] = e
  BY <1>2 DEF S!RemoveFirst
<1> QED BY <1>1, <1>2

-----------------------------------------------------------------------------
(* Types. *)

Load == [isRead : BOOLEAN, grants : Seq(Grants), late : BOOLEAN]
Revoking == {"deleting", "committed", "watching", "stuck"}

Types ==
  /\ held \in Seq(Grants) /\ S!IsInjective(held) /\ graph \in Seq(Grants)
  /\ seen \in [Nodes -> SUBSET Grants]
  /\ sel \in Selections /\ live \in Selections \cup {"none"}
  /\ overtaken \subseteq Selections \ {sel}
  /\ round \in [Nodes -> {"waiting", "allow", "deny", "error", "null"}]
  /\ handler \in [stage : Stages, grant : Grants \cup {"none"}, next : Nat \ {0}]
  /\ busy \in BOOLEAN /\ (busy <=> handler.stage # "idle")
  /\ polling => handler.stage \in Revoking
  /\ loads \in Seq(Load) /\ Len(loads) <= MaxLoads
  /\ handler.stage # "idle" => Len(loads) < MaxLoads
  /\ asked \in Questions /\ shown \in Questions
  /\ flips \in [Nodes -> {"none", "deny", "error"}] /\ caughtUp \subseteq Nodes

(* The grant that the page offers is one of the graph, or there is none.   *)
LEMMA ActiveType ==
  ASSUME NEW g \in Seq(Grants), NEW s
  PROVE  Active(g, s) \in Grants \cup {"none"}
<1> DEFINE I == {j \in 1..Len(g) : g[j] \in Revocable[s]}
<1>1. Active(g, s) = IF (IF I # {} THEN S!Min(I) ELSE 0) = 0 THEN "none"
                     ELSE g[IF I # {} THEN S!Min(I) ELSE 0]
  BY DEF Active, S!SelectInSeq
<1>2. I \in SUBSET Nat /\ \A j \in I : j # 0 /\ g[j] \in Grants
  OBVIOUS
<1> HIDE DEF I
<1>3. CASE I # {}
  <2>1. S!Min(I) \in I
    BY <1>2, <1>3, FirstOf
  <2> QED BY <1>1, <1>2, <1>3, <2>1
<1>4. CASE I = {}
  BY <1>1, <1>4
<1> QED BY <1>3, <1>4

LEMMA QuestionType ==
  ASSUME NEW g \in Seq(Grants), NEW s \in Selections
  PROVE  Question(g, s) \in Questions
BY ActiveType DEF Question, Questions

(* A render leaves the panel asking for what the page is about. *)
LEMMA Rendered ==
  ASSUME NEW g, NEW s, Renders(g, s)
  PROVE  asked' = Question(g, s) /\ shown' = shown
BY DEF Renders, panelVars

LEMMA TypesNodes ==
  ASSUME Types, \E n \in Nodes : NodeLearns(n) \/ NodeAnswers(n)
  PROVE  Types'
<1>1. PICK n \in Nodes : NodeLearns(n) \/ NodeAnswers(n)
  OBVIOUS
<1>2. CASE NodeLearns(n)
  <2>1. S!ToSet(held) \in SUBSET Grants
    BY DEF Types, S!ToSet
  <2> QED BY <1>2, <2>1 DEF Types, NodeLearns, loopVars, clickVars, sampleVars, loadVars, panelVars
<1>3. CASE NodeAnswers(n)
  <2>1. Answer(n) \in {"allow", "deny"}
    BY DEF Answer
  <2> QED BY <1>3, <2>1 DEF Types, NodeAnswers, serverVars, clickVars, sampleVars, loadVars, panelVars
<1> QED BY <1>1, <1>2, <1>3

LEMMA TypesLoop ==
  ASSUME Types, RoundEnds \/ \E s \in Selections : Select(s) \/ OvertakenReturns(s)
  PROVE  Types'
<1>1. CASE RoundEnds
  <2>1. asked' = Question(graph, sel) /\ shown' = shown /\ asked' \in Questions
    BY <1>1, Rendered, QuestionType DEF RoundEnds, Types
  <2>2. flips' \in [Nodes -> {"none", "deny", "error"}]
    BY <1>1 DEF RoundEnds, Record, Types
  <2> QED
    BY <1>1, <2>1, <2>2 DEF Types, RoundEnds, Unasked, serverVars, clickVars, loadVars
<1>2. ASSUME NEW s \in Selections, Select(s) PROVE Types'
  <2>1. asked' = Question(graph, s) /\ shown' = shown /\ asked' \in Questions
    BY <1>2, Rendered, QuestionType DEF Select, Types
  <2> QED BY <1>2, <2>1 DEF Types, Select, Unasked, serverVars, clickVars, loadVars
<1>3. ASSUME NEW s \in Selections, OvertakenReturns(s) PROVE Types'
  BY <1>3 DEF Types, OvertakenReturns, serverVars, clickVars, sampleVars, loadVars, panelVars
<1> QED BY <1>1, <1>2, <1>3

(* The load that a click ends with has a place among those in flight.      *)
LEMMA LoadAdded ==
  ASSUME Types, handler.stage # "idle"
  PROVE  /\ Append(loads, Unread) \in Seq(Load) /\ Len(Append(loads, Unread)) = Len(loads) + 1
         /\ Len(loads) + 1 <= MaxLoads
         /\ Append(loads, Unread)[Len(loads) + 1] = Unread
<1>1. Unread \in Load
  BY DEF Unread, Load
<1>2. loads \in Seq(Load) /\ Len(loads) \in Nat /\ Len(loads) < MaxLoads /\ MaxLoads \in Nat
  BY BoundsAssumption DEF Types
<1>3. Len(loads) + 1 <= MaxLoads
  BY <1>2
<1> QED BY <1>1, <1>2, <1>3, AppendProperties

LEMMA TypesRevoke ==
  ASSUME Types,
         RevokeClick \/ DeleteCommits \/ DeleteReplied \/ DeleteLost \/ RevokeEnds
  PROVE  Types'
<1>1. CASE RevokeClick
  <2>1. asked' = Question(graph, sel) /\ shown' = shown /\ asked' \in Questions
    BY <1>1, Rendered, QuestionType DEF RevokeClick, Types
  <2>2. handler' = [stage |-> "deleting", grant |-> Active(graph, sel), next |-> 1]
    BY <1>1 DEF RevokeClick, NoClick
  <2>3. Active(graph, sel) \in Grants \cup {"none"}
    BY ActiveType DEF Types
  <2>4. flips' \in [Nodes -> {"none", "deny", "error"}] /\ caughtUp' \subseteq Nodes
    BY <1>1 DEF RevokeClick, NoFlips
  <2>5. handler' \in [stage : Stages, grant : Grants \cup {"none"}, next : Nat \ {0}]
    BY <2>2, <2>3 DEF Stages
  <2> QED
    BY <1>1, <2>1, <2>2, <2>4, <2>5
       DEF Types, RevokeClick, CanClick, Revoking, serverVars, loopVars, loadVars
<1>2. CASE DeleteCommits
  <2>1. held' \in Seq(Grants) /\ S!IsInjective(held')
    BY <1>2, WithoutGrant DEF DeleteCommits, Types
  <2>2. /\ handler' = [stage |-> "committed", grant |-> handler.grant, next |-> handler.next]
        /\ handler.stage = "deleting"
    BY <1>2 DEF DeleteCommits, Types
  <2>3. S!IsInjective(held)'
    BY <2>1 DEF S!IsInjective
  <2> QED
    BY <1>2, <2>1, <2>2, <2>3
       DEF Types, DeleteCommits, Stages, Revoking, loopVars, sampleVars, loadVars, panelVars
<1>3. CASE DeleteReplied
  <2>1. asked' = Question(graph, sel) /\ shown' = shown /\ asked' \in Questions
    BY <1>3, Rendered, QuestionType DEF DeleteReplied, Types
  <2>2. /\ handler' = [stage |-> "watching", grant |-> handler.grant, next |-> handler.next]
        /\ handler.stage \in {"deleting", "committed"}
    BY <1>3 DEF DeleteReplied, Types
  <2> QED
    BY <1>3, <2>1, <2>2
       DEF Types, DeleteReplied, Stages, Revoking, serverVars, loopVars, sampleVars, loadVars
<1>4. CASE DeleteLost
  <2>1. /\ handler' = [stage |-> "stuck", grant |-> handler.grant, next |-> handler.next]
        /\ handler.stage \in {"deleting", "committed"}
    BY <1>4 DEF DeleteLost, Types
  <2> QED
    BY <1>4, <2>1
       DEF Types, DeleteLost, Stages, Revoking, serverVars, loopVars, sampleVars, loadVars, panelVars
<1>5. CASE RevokeEnds
  <2>1. asked' = Question(graph, sel) /\ shown' = shown /\ asked' \in Questions
    BY <1>5, Rendered, QuestionType DEF RevokeEnds, Types
  <2>2. loads' \in Seq(Load) /\ Len(loads') <= MaxLoads
    BY <1>5, LoadAdded DEF RevokeEnds
  <2>3. handler' = [stage |-> "idle", grant |-> "none", next |-> 1]
    BY <1>5 DEF RevokeEnds, NoClick
  <2>4. handler' \in [stage : Stages, grant : Grants \cup {"none"}, next : Nat \ {0}]
    BY <2>3 DEF Stages
  <2>5. busy' = FALSE /\ polling' = FALSE /\ handler'.stage = "idle"
    BY <1>5, <2>3 DEF RevokeEnds
  <2>6. UNCHANGED <<held, seen, sel, live, overtaken, round, flips, graph>> /\ caughtUp' = {}
    BY <1>5 DEF RevokeEnds, serverVars, loopVars
  <2> QED BY <2>1, <2>2, <2>4, <2>5, <2>6 DEF Types
<1> QED BY <1>1, <1>2, <1>3, <1>4, <1>5

LEMMA GrantedType ==
  ASSUME Types, NEW g \in Grants
  PROVE  /\ Granted(g) \in Seq(Grants) /\ S!IsInjective(Granted(g))
         /\ S!ToSet(Granted(g)) = S!ToSet(held) \cup {g}
<1>1. CASE \E i \in 1..Len(held) : held[i] = g
  BY <1>1 DEF Granted, S!Contains, S!ToSet, Types
<1>2. CASE ~\E i \in 1..Len(held) : held[i] = g
  <2>1. Granted(g) = Append(held, g)
    BY <1>2 DEF Granted, S!Contains
  <2>2. /\ DOMAIN held = 1..Len(held) /\ Len(held) \in Nat
        /\ Append(held, g) \in Seq(Grants) /\ DOMAIN Append(held, g) = 1..Len(held) + 1
        /\ \A i \in 1..Len(held) : Append(held, g)[i] = held[i]
        /\ Append(held, g)[Len(held) + 1] = g
    BY DEF Types
  <2>3. S!IsInjective(Append(held, g))
    <3> DEFINE a == Append(held, g)
    <3> HIDE DEF a
    <3>1. /\ DOMAIN a = 1..Len(held) + 1 /\ a[Len(held) + 1] = g
          /\ \A i \in 1..Len(held) : a[i] = held[i] /\ a[i] # g
      BY <1>2, <2>2 DEF a
    <3>2. \A i, j \in 1..Len(held) : held[i] = held[j] => i = j
      BY <2>2 DEF S!IsInjective, Types
    <3>3. \A i \in DOMAIN a : i \in 1..Len(held) \/ i = Len(held) + 1
      BY <2>2, <3>1
    <3>4. \A i, j \in DOMAIN a : a[i] = a[j] => i = j
      BY <3>1, <3>2, <3>3
    <3> QED BY <3>4 DEF a, S!IsInjective
  <2>4. S!ToSet(Append(held, g)) = S!ToSet(held) \cup {g}
    BY <2>2 DEF S!ToSet
  <2> QED BY <2>1, <2>2, <2>3, <2>4
<1> QED BY <1>1, <1>2

LEMMA NextSeed ==
  ASSUME Types, handler.next <= Len(Seeds)
  PROVE  Seeds[handler.next] \in Grants
BY SeedsAssumption DEF Types, Grants, S!ToSet

LEMMA TypesRestore ==
  ASSUME Types, RestoreClick \/ Post \/ PostLost \/ RestoreEnds
  PROVE  Types'
<1>1. CASE RestoreClick
  <2>1. asked' = Question(graph, sel) /\ shown' = shown /\ asked' \in Questions
    BY <1>1, Rendered, QuestionType DEF RestoreClick, Types
  <2>2. handler' = [stage |-> "posting", grant |-> "none", next |-> 1]
    BY <1>1 DEF RestoreClick, NoClick
  <2>3. handler' \in [stage : Stages, grant : Grants \cup {"none"}, next : Nat \ {0}]
    BY <2>2 DEF Stages
  <2>4. busy' = TRUE /\ ~polling' /\ handler'.stage = "posting" /\ Len(loads) < MaxLoads
    BY <1>1, <2>2 DEF RestoreClick, CanClick, Types, Revoking
  <2>5. UNCHANGED <<held, seen, sel, live, overtaken, round, flips, caughtUp, graph, loads>>
    BY <1>1 DEF RestoreClick, serverVars, loopVars, sampleVars, loadVars
  <2> QED BY <2>1, <2>3, <2>4, <2>5 DEF Types
<1> DEFINE g == Seeds[handler.next]
<1>2. ASSUME held' \in {held, Granted(g)}, g \in Grants
      PROVE  held' \in Seq(Grants) /\ S!IsInjective(held)'
  <2>1. held' \in Seq(Grants) /\ S!IsInjective(held')
    BY <1>2, GrantedType DEF Types
  <2> QED BY <2>1 DEF S!IsInjective
<1>3. CASE Post
  <2>1. held' \in Seq(Grants) /\ S!IsInjective(held)'
    BY <1>2, <1>3, NextSeed DEF Post
  <2>2. /\ handler' = [stage |-> "posting", grant |-> handler.grant, next |-> handler.next + 1]
        /\ handler.stage = "posting"
    BY <1>3 DEF Post, Types
  <2>3. handler' \in [stage : Stages, grant : Grants \cup {"none"}, next : Nat \ {0}]
    BY <2>2 DEF Types, Stages
  <2>4. UNCHANGED <<seen, sel, live, overtaken, round, busy, polling, flips, caughtUp, graph, loads, asked, shown>>
    BY <1>3 DEF Post, loopVars, sampleVars, loadVars, panelVars
  <2>5. busy /\ ~polling /\ handler'.stage = "posting"
    BY <2>2 DEF Types, Revoking
  <2> QED BY <2>1, <2>2, <2>3, <2>4, <2>5 DEF Types
<1>4. CASE PostLost
  <2>1. held' \in Seq(Grants) /\ S!IsInjective(held)'
    BY <1>2, <1>4, NextSeed DEF PostLost
  <2>2. /\ handler' = [stage |-> "stuck", grant |-> handler.grant, next |-> handler.next]
        /\ handler.stage = "posting"
    BY <1>4 DEF PostLost, Types
  <2> QED
    BY <1>4, <2>1, <2>2
       DEF Types, PostLost, Stages, Revoking, loopVars, sampleVars, loadVars, panelVars
<1>5. CASE RestoreEnds
  <2>1. asked' = Question(graph, sel) /\ shown' = shown /\ asked' \in Questions
    BY <1>5, Rendered, QuestionType DEF RestoreEnds, Types
  <2>2. loads' \in Seq(Load) /\ Len(loads') <= MaxLoads
    BY <1>5, LoadAdded DEF RestoreEnds, Posted
  <2>3. handler' = [stage |-> "idle", grant |-> "none", next |-> 1]
    BY <1>5 DEF RestoreEnds, NoClick
  <2>4. flips' \in [Nodes -> {"none", "deny", "error"}] /\ caughtUp' = {}
    BY <1>5 DEF RestoreEnds, NoFlips
  <2>5. handler' \in [stage : Stages, grant : Grants \cup {"none"}, next : Nat \ {0}]
    BY <2>3 DEF Stages
  <2>6. busy' = FALSE /\ ~polling' /\ handler'.stage = "idle"
    BY <1>5, <2>3 DEF RestoreEnds, Posted, Types, Revoking
  <2>7. UNCHANGED <<held, seen, sel, live, overtaken, round, graph>>
    BY <1>5 DEF RestoreEnds, serverVars, loopVars
  <2> QED BY <2>1, <2>2, <2>4, <2>5, <2>6, <2>7 DEF Types
<1> QED BY <1>1, <1>3, <1>4, <1>5

(* The loads in flight once the i-th has arrived or failed. *)
LEMMA LoadGone ==
  ASSUME Types, NEW i \in DOMAIN loads, NEW r, r = S!RemoveAt(Behind(i), i)
  PROVE  /\ i \in 1..Len(loads) /\ Len(loads) \in Nat /\ loads[i] \in Load
         /\ r \in Seq(Load) /\ Len(r) = Len(loads) - 1
         /\ \A j \in 1..Len(r) :
              r[j] = IF j < i THEN [loads[j] EXCEPT !.late = TRUE] ELSE loads[j + 1]
<1>1. loads \in Seq(Load) /\ Len(loads) \in Nat /\ DOMAIN loads = 1..Len(loads)
  BY DEF Types
<1> DEFINE b == Behind(i)
<1>2. ASSUME NEW j \in 1..Len(loads)
      PROVE  b[j] = IF j < i THEN [loads[j] EXCEPT !.late = TRUE] ELSE loads[j]
  <2>1. b[j] = [loads[j] EXCEPT !.late = loads[j].late \/ j < i]
    BY <1>1 DEF Behind
  <2>2. loads[j] \in Load /\ loads[j].late \in BOOLEAN
    <3>1. loads[j] \in Load
      BY <1>1
    <3> QED BY <3>1 DEF Load
  <2>3. (loads[j].late \/ j < i) = IF j < i THEN TRUE ELSE loads[j].late
    BY <2>2
  <2>4. [loads[j] EXCEPT !.late = loads[j].late] = loads[j]
    BY <2>2 DEF Load
  <2> QED BY <2>1, <2>3, <2>4
<1>3. ASSUME NEW j \in 1..Len(loads) PROVE b[j] \in Load
  <2>1. loads[j] \in Load
    BY <1>1
  <2>2. [loads[j] EXCEPT !.late = TRUE] \in Load
    BY <2>1 DEF Load
  <2> QED BY <1>2, <2>1, <2>2
<1>4. b = [j \in 1..Len(loads) |-> b[j]]
  BY <1>1 DEF Behind
<1> HIDE DEF b
<1>5. b \in Seq(Load) /\ Len(b) = Len(loads)
  BY <1>1, <1>3, <1>4
<1>6. /\ r \in Seq(Load) /\ Len(r) = Len(b) - 1
      /\ \A j \in 1..Len(r) : r[j] = IF j < i THEN b[j] ELSE b[j + 1]
  <2>1. r = S!RemoveAt(b, i) /\ i \in 1..Len(b)
    BY <1>1, <1>5 DEF b
  <2> QED BY ONLY <1>5, <2>1, Without
<1>7. ASSUME NEW j \in 1..Len(r)
      PROVE  r[j] = IF j < i THEN [loads[j] EXCEPT !.late = TRUE] ELSE loads[j + 1]
  <2>1. j \in 1..Len(loads) /\ j + 1 \in 1..Len(loads) /\ i \in 1..Len(loads)
    BY <1>1, <1>5, <1>6
  <2>2. CASE j < i
    BY <1>2, <1>6, <2>1, <2>2
  <2>3. CASE ~(j < i)
    <3>1. ~(j + 1 < i) /\ r[j] = b[j + 1]
      BY <1>6, <2>1, <2>3
    <3> QED BY <1>2, <2>1, <2>3, <3>1
  <2> QED BY <2>2, <2>3
<1> QED BY <1>1, <1>5, <1>6, <1>7

LEMMA TypesLoads ==
  ASSUME Types, \E i \in DOMAIN loads : LoadRead(i) \/ LoadArrives(i) \/ LoadFails(i)
  PROVE  Types'
<1>1. PICK i \in DOMAIN loads : LoadRead(i) \/ LoadArrives(i) \/ LoadFails(i)
  OBVIOUS
<1>2. CASE LoadRead(i)
  <2>1. loads \in Seq(Load) /\ i \in 1..Len(loads) /\ loads[i] \in Load /\ held \in Seq(Grants)
    BY DEF Types
  <2> DEFINE l == [loads[i] EXCEPT !.isRead = TRUE, !.grants = held]
  <2>2. l \in Load
    BY <2>1 DEF Load
  <2>3. loads' = [loads EXCEPT ![i] = l]
    BY <1>2 DEF LoadRead
  <2> HIDE DEF l
  <2>4. loads' \in Seq(Load) /\ Len(loads') = Len(loads)
    BY <2>1, <2>2, <2>3, ExceptSeq
  <2> QED
    BY <1>2, <2>4 DEF Types, LoadRead, serverVars, loopVars, clickVars, sampleVars, panelVars
<1>3. CASE LoadArrives(i)
  <2>1. loads' \in Seq(Load) /\ Len(loads') = Len(loads) - 1 /\ Len(loads) \in Nat
    BY <1>3, LoadGone DEF LoadArrives
  <2>2. graph' \in Seq(Grants)
    BY <1>3, LoadGone DEF LoadArrives, Load
  <2>3. asked' = Question(loads[i].grants, sel) /\ shown' = shown /\ asked' \in Questions
    BY <1>3, <2>2, Rendered, QuestionType DEF LoadArrives, Types
  <2> QED
    BY <1>3, <2>1, <2>2, <2>3, BoundsAssumption
       DEF Types, LoadArrives, serverVars, loopVars, clickVars, sampleVars
<1>4. CASE LoadFails(i)
  <2>1. loads' \in Seq(Load) /\ Len(loads') = Len(loads) - 1 /\ Len(loads) \in Nat
    BY <1>4, LoadGone DEF LoadFails
  <2> QED
    BY <1>4, <2>1, BoundsAssumption
       DEF Types, LoadFails, serverVars, loopVars, clickVars, sampleVars, panelVars
<1> QED BY <1>1, <1>2, <1>3, <1>4

LEMMA TypesStep == ASSUME Types, [Next]_vars PROVE Types'
<1>1. CASE PanelArrives
  BY <1>1 DEF Types, PanelArrives, serverVars, loopVars, clickVars, sampleVars, loadVars
<1>2. CASE UNCHANGED vars
  BY <1>2 DEF Types, vars, serverVars, loopVars, clickVars, sampleVars, loadVars, panelVars
<1> QED
  BY <1>1, <1>2, TypesNodes, TypesLoop, TypesRevoke, TypesRestore, TypesLoads DEF Next

LEMMA InitTypes == ASSUME Init PROVE Types
<1>1. Unread \in Load
  BY DEF Unread, Load
<1>2. loads \in Seq(Load) /\ Len(loads) = 1 /\ 1 <= MaxLoads
  BY <1>1, BoundsAssumption DEF Init
<1>3. held \in Seq(Grants) /\ S!IsInjective(held) /\ graph \in Seq(Grants)
  BY SeedsAssumption DEF Init
<1>4. handler \in [stage : Stages, grant : Grants \cup {"none"}, next : Nat \ {0}]
      /\ handler.stage = "idle"
  BY DEF Init, NoClick, Stages
<1>5. asked \in Questions /\ shown \in Questions
  BY DEF Init, Questions
<1> QED
  BY <1>2, <1>3, <1>4, <1>5 DEF Init, Types, Unasked, NoFlips

LEMMA TypeOKFollows == ASSUME Types PROVE ConsoleTypeOK
<1>1. S!ToSet(held \o graph) \subseteq Grants
  <2>1. held \o graph \in Seq(Grants)
    BY DEF Types
  <2> QED BY <2>1 DEF S!ToSet
<1>2. busy = (handler.stage # "idle")
  BY DEF Types
<1>3. handler.stage \in Stages /\ (polling => busy)
  BY DEF Types, Revoking
<1> QED BY <1>1, <1>2, <1>3 DEF Types, ConsoleTypeOK

(* The page's variables keep their types; samples are recorded, and the    *)
(* buttons of page.tsx disabled, exactly while a click is handled; and the *)
(* loads in flight stay within the bound because a click keeps a place for *)
(* the one it ends with.                                                   *)
THEOREM ConsoleTypeTheorem == Spec => []ConsoleTypeOK
<1>1. Init => Types
  BY InitTypes
<1>2. Types /\ [Next]_vars => Types'
  BY TypesStep
<1>3. Types => ConsoleTypeOK
  BY TypeOKFollows
<1> QED BY <1>1, <1>2, <1>3, PTL DEF Spec

-----------------------------------------------------------------------------
(* What the panel has asked for is what the page is about. *)

Followed == asked = Question(graph, sel)

LEMMA FollowedStep == ASSUME Followed, [Next]_vars PROVE Followed'
<1>1. ASSUME UNCHANGED <<graph, sel, asked>> PROVE Followed'
  BY <1>1 DEF Followed, Question, Active, S!SelectInSeq
<1>2. ASSUME NEW g, NEW s, Renders(g, s), graph' = g, sel' = s PROVE Followed'
  <2>1. asked' = Question(g, s)
    BY <1>2, Rendered
  <2> QED BY <1>2, <2>1 DEF Followed, Question, Active, S!SelectInSeq
<1>3. ASSUME NEW n \in Nodes, NodeLearns(n) \/ NodeAnswers(n) PROVE Followed'
  BY <1>1, <1>3 DEF NodeLearns, NodeAnswers, loadVars, panelVars
<1>4. CASE RoundEnds
  BY <1>2, <1>4 DEF RoundEnds, loadVars
<1>5. ASSUME NEW s \in Selections, Select(s) PROVE Followed'
  BY <1>2, <1>5 DEF Select, loadVars
<1>6. ASSUME NEW s \in Selections, OvertakenReturns(s) PROVE Followed'
  BY <1>1, <1>6 DEF OvertakenReturns, loadVars, panelVars
<1>7. CASE RevokeClick \/ DeleteReplied \/ RevokeEnds \/ RestoreClick \/ RestoreEnds
  BY <1>2, <1>7 DEF RevokeClick, DeleteReplied, RevokeEnds, RestoreClick, RestoreEnds, loadVars
<1>8. CASE DeleteCommits \/ DeleteLost \/ Post \/ PostLost
  BY <1>1, <1>8 DEF DeleteCommits, DeleteLost, Post, PostLost, loadVars, panelVars
<1>9. ASSUME NEW i \in DOMAIN loads, LoadRead(i) \/ LoadFails(i) PROVE Followed'
  BY <1>1, <1>9 DEF LoadRead, LoadFails, panelVars
<1>10. ASSUME NEW i \in DOMAIN loads, LoadArrives(i) PROVE Followed'
  BY <1>2, <1>10 DEF LoadArrives
<1>11. CASE PanelArrives
  BY <1>1, <1>11 DEF PanelArrives, loadVars
<1>12. CASE UNCHANGED vars
  BY <1>1, <1>12 DEF vars, loadVars, panelVars
<1> QED
  BY <1>3, <1>4, <1>5, <1>6, <1>7, <1>8, <1>9, <1>10, <1>11, <1>12 DEF Next

LEMMA InitFollowed == ASSUME Init PROVE Followed
<1>1. Active(<<>>, sel) = "none"
  BY DEF Active, S!SelectInSeq
<1> QED BY <1>1 DEF Init, Followed, Question

Dropped ==
  /\ live' # live => live' = sel'
  /\ shown' # shown => shown' = Question(graph', sel')

LEMMA DroppedStep == ASSUME Followed, [Next]_vars PROVE [Dropped]_vars
<1>1. CASE RoundEnds
  <2>1. live' = sel /\ sel' = sel /\ shown' = shown
    BY <1>1, Rendered DEF RoundEnds
  <2> QED BY <2>1 DEF Dropped
<1>2. CASE PanelArrives
  <2>1. shown' = asked /\ UNCHANGED <<live, graph, sel>>
    BY <1>2 DEF PanelArrives, loopVars, loadVars
  <2> QED BY <2>1 DEF Dropped, Followed, Question, Active
<1>3. ASSUME UNCHANGED <<live, shown>> PROVE Dropped
  BY <1>3 DEF Dropped
<1>4. ASSUME NEW n \in Nodes, NodeLearns(n) \/ NodeAnswers(n) PROVE Dropped
  BY <1>3, <1>4 DEF NodeLearns, NodeAnswers, loopVars, panelVars
<1>5. ASSUME NEW s \in Selections, Select(s) \/ OvertakenReturns(s) PROVE Dropped
  BY <1>3, <1>5, Rendered DEF Select, OvertakenReturns, panelVars
<1>6. CASE RevokeClick \/ DeleteReplied \/ RevokeEnds \/ RestoreClick \/ RestoreEnds
  BY <1>3, <1>6, Rendered
     DEF RevokeClick, DeleteReplied, RevokeEnds, RestoreClick, RestoreEnds, loopVars
<1>7. CASE DeleteCommits \/ DeleteLost \/ Post \/ PostLost
  BY <1>3, <1>7 DEF DeleteCommits, DeleteLost, Post, PostLost, loopVars, panelVars
<1>8. ASSUME NEW i \in DOMAIN loads, LoadRead(i) \/ LoadArrives(i) \/ LoadFails(i) PROVE Dropped
  BY <1>3, <1>8, Rendered DEF LoadRead, LoadArrives, LoadFails, loopVars, panelVars
<1>9. CASE UNCHANGED vars
  BY <1>3, <1>9 DEF vars, loopVars, panelVars
<1> QED BY <1>1, <1>2, <1>4, <1>5, <1>6, <1>7, <1>8, <1>9 DEF Next

(* Whatever comes back late, the table of answers only turns to the        *)
(* question that is selected ("if (stopped) return" in page.tsx), and the  *)
(* panel only to the grant and the question the page is about ("if (stale) *)
(* return" in explain-panel.tsx).                                          *)
THEOREM DroppedTheorem == Spec => OvertakenIsDropped
<1>1. Init => Followed
  BY InitFollowed
<1>2. Followed /\ [Next]_vars => Followed'
  BY FollowedStep
<1>3. Followed /\ [Next]_vars => [Dropped]_vars
  BY DroppedStep
<1>4. Spec => [][Dropped]_vars
  BY <1>1, <1>2, <1>3, PTL DEF Spec
<1> QED BY <1>4 DEF OvertakenIsDropped, Dropped

-----------------------------------------------------------------------------
(* The graph. While no click is handled the table stands still, and the    *)
(* load requested last was requested after the click that changed it.      *)

Loaded ==
  ~busy =>
    /\ loads # <<>> =>
         LET l == loads[Len(loads)] IN l.isRead /\ ~l.late => l.grants = held
    /\ GraphIsCurrent

LEMMA LoadedKept ==
  ASSUME Loaded, UNCHANGED <<held, busy, graph, loads, astray>>
  PROVE  Loaded'
BY DEF Loaded, GraphIsCurrent

LEMMA LoadedLoads ==
  ASSUME Types, Loaded, NEW i \in DOMAIN loads, LoadRead(i) \/ LoadArrives(i) \/ LoadFails(i)
  PROVE  Loaded'
<1>1. loads \in Seq(Load) /\ i \in 1..Len(loads) /\ Len(loads) \in Nat /\ loads # <<>>
  BY DEF Types
<1>2. CASE LoadRead(i)
  <2> DEFINE l == [loads[i] EXCEPT !.isRead = TRUE, !.grants = held]
  <2>1. loads' = [loads EXCEPT ![i] = l]
    BY <1>2 DEF LoadRead
  <2>2. l.grants = held
    <3>1. loads[i] \in Load
      BY <1>1
    <3> QED BY <3>1 DEF Load
  <2> HIDE DEF l
  <2>3. /\ Len(loads') = Len(loads) /\ loads' # <<>>
        /\ \A j \in 1..Len(loads) : loads'[j] = IF j = i THEN l ELSE loads[j]
    BY <1>1, <2>1
  <2>4. UNCHANGED <<held, busy, graph, astray>>
    BY <1>2 DEF LoadRead, serverVars, clickVars
  <2> QED BY <1>1, <2>2, <2>3, <2>4 DEF Loaded, GraphIsCurrent
<1>3. CASE LoadArrives(i) \/ LoadFails(i)
  <2>1. loads' = S!RemoveAt(Behind(i), i) /\ UNCHANGED <<held, busy>>
    BY <1>3 DEF LoadArrives, LoadFails, serverVars, clickVars
  <2>2. /\ loads' \in Seq(Load) /\ Len(loads') = Len(loads) - 1
        /\ \A j \in 1..Len(loads') :
             loads'[j] = IF j < i THEN [loads[j] EXCEPT !.late = TRUE] ELSE loads[j + 1]
    BY <2>1, LoadGone
  <2>3. ASSUME ~busy, loads' # <<>>, loads'[Len(loads')].isRead, ~loads'[Len(loads')].late
        PROVE  loads'[Len(loads')].grants = held
    <3>1. Len(loads') \in 1..Len(loads')
      BY <2>2, <2>3
    <3>2. CASE i = Len(loads)
      <4>1. loads'[Len(loads')] = [loads[Len(loads')] EXCEPT !.late = TRUE]
        BY <1>1, <2>2, <3>1, <3>2
      <4>2. loads[Len(loads')] \in Load
        BY <1>1, <2>2, <3>1
      <4> QED BY <2>3, <4>1, <4>2 DEF Load
    <3>3. CASE i # Len(loads)
      <4> DEFINE k == Len(loads')
      <4>2. k \in 1..k /\ ~(k < i) /\ k + 1 = Len(loads)
        BY <1>1, <2>2, <3>1, <3>3
      <4>1. loads'[k] = loads[Len(loads)]
        <5> HIDE DEF k
        <5>1. \A j \in 1..k :
                loads'[j] = IF j < i THEN [loads[j] EXCEPT !.late = TRUE] ELSE loads[j + 1]
          BY <2>2 DEF k
        <5> QED BY <4>2, <5>1
      <4> QED BY <1>1, <2>3, <4>1 DEF Loaded
    <3> QED BY <3>2, <3>3
  <2>4. ASSUME ~busy, loads' = <<>>, ~astray' PROVE graph' = held
    <3>1. i = Len(loads)
      BY <1>1, <2>2, <2>4
    <3>2. LoadArrives(i) /\ loads[i].isRead /\ ~loads[i].late /\ graph' = loads[i].grants
      BY <1>3, <2>4 DEF LoadArrives, LoadFails
    <3> QED BY <1>1, <2>4, <3>1, <3>2 DEF Loaded
  <2> QED BY <2>1, <2>3, <2>4 DEF Loaded, GraphIsCurrent
<1> QED BY <1>2, <1>3

LEMMA LoadedStep == ASSUME Types, Loaded, [Next]_vars PROVE Loaded'
<1>1. CASE RevokeClick \/ RestoreClick
  BY <1>1 DEF RevokeClick, RestoreClick, Loaded
<1>2. CASE RevokeEnds \/ RestoreEnds
  <2>1. loads' = Append(loads, Unread) /\ handler.stage # "idle"
    BY <1>2 DEF RevokeEnds, RestoreEnds, Posted
  <2>2. Len(loads') = Len(loads) + 1 /\ loads'[Len(loads) + 1] = Unread /\ loads' # <<>>
    BY <2>1, LoadAdded, AppendProperties DEF Types
  <2>3. ~loads'[Len(loads')].isRead
    BY <2>2 DEF Unread
  <2> QED BY <2>2, <2>3 DEF Loaded, GraphIsCurrent
<1>3. CASE DeleteCommits \/ Post \/ PostLost
  BY <1>3 DEF DeleteCommits, Post, PostLost, Types, Loaded
<1>4. CASE DeleteReplied \/ DeleteLost \/ RoundEnds \/ PanelArrives \/ UNCHANGED vars
  BY <1>4, LoadedKept
     DEF DeleteReplied, DeleteLost, RoundEnds, PanelArrives, vars, serverVars, clickVars, loadVars
<1>5. ASSUME NEW n \in Nodes, NodeLearns(n) \/ NodeAnswers(n) PROVE Loaded'
  BY <1>5, LoadedKept DEF NodeLearns, NodeAnswers, serverVars, clickVars, loadVars
<1>6. ASSUME NEW s \in Selections, Select(s) \/ OvertakenReturns(s) PROVE Loaded'
  BY <1>6, LoadedKept DEF Select, OvertakenReturns, serverVars, clickVars, loadVars
<1> QED BY <1>1, <1>2, <1>3, <1>4, <1>5, <1>6, LoadedLoads DEF Next

LEMMA InitLoaded == ASSUME Init PROVE Loaded
BY DEF Init, Loaded, GraphIsCurrent, Unread

(* With nothing in flight, the graph that the buttons and the panel of     *)
(* page.tsx work on is the table, unless its last load failed or came out  *)
(* of order: each handler loads it after its writes, in whatever order the *)
(* loads arrive.                                                           *)
THEOREM GraphCurrentTheorem == Spec => []GraphIsCurrent
<1>1. Init => Types /\ Loaded
  BY InitTypes, InitLoaded
<1>2. Types /\ Loaded /\ [Next]_vars => Types' /\ Loaded'
  BY TypesStep, LoadedStep
<1>3. Loaded => GraphIsCurrent
  BY DEF Loaded, GraphIsCurrent
<1> QED BY <1>1, <1>2, <1>3, PTL DEF Spec

-----------------------------------------------------------------------------
(* restore. The grants posted so far are held: nothing else removes one,   *)
(* since there is one click at a time.                                     *)

Reposted ==
  /\ skipped => handler.stage \in {"posting", "stuck"}
  /\ handler.stage = "posting" /\ ~skipped =>
       \A k \in 1..Len(Seeds) : k < handler.next => Seeds[k] \in S!ToSet(held)

LEMMA RepostedKept ==
  ASSUME Reposted, UNCHANGED <<held, handler, skipped>>
  PROVE  Reposted'
BY DEF Reposted, S!ToSet

LEMMA RepostedStep == ASSUME Types, Reposted, [Next]_vars PROVE Reposted'
<1>1. CASE Post
  <2>1. handler.stage = "posting" /\ handler.next <= Len(Seeds) /\ handler.next \in Nat \ {0}
    BY <1>1 DEF Post, Types
  <2>2. handler' = [stage |-> "posting", grant |-> handler.grant, next |-> handler.next + 1]
    BY <1>1 DEF Post, Types
  <2>3. CASE skipped'
    BY <2>2, <2>3 DEF Reposted
  <2>4. CASE ~skipped'
    <3>1. held' = Granted(Seeds[handler.next]) /\ ~skipped
      BY <1>1, <2>4 DEF Post
    <3>2. S!ToSet(held)' = S!ToSet(held) \cup {Seeds[handler.next]}
      <4>1. S!ToSet(held') = S!ToSet(held) \cup {Seeds[handler.next]}
        BY <2>1, <3>1, GrantedType, NextSeed
      <4> QED BY <4>1 DEF S!ToSet
    <3>3. ASSUME NEW k \in 1..Len(Seeds), k < handler.next + 1 PROVE Seeds[k] \in S!ToSet(held)'
      <4>1. k < handler.next \/ k = handler.next
        BY <2>1, <3>3
      <4> QED BY <2>1, <3>1, <3>2, <4>1 DEF Reposted
    <3> QED BY <2>2, <2>4, <3>3 DEF Reposted
  <2> QED BY <2>3, <2>4
<1>2. CASE PostLost
  <2>1. handler'.stage = "stuck" /\ skipped' = skipped
    BY <1>2 DEF PostLost, Types
  <2> QED BY <2>1 DEF Reposted
<1>3. CASE RestoreClick
  <2>1. handler' = [stage |-> "posting", grant |-> "none", next |-> 1] /\ skipped' = skipped
    BY <1>3 DEF RestoreClick, NoClick
  <2> QED BY <2>1 DEF Reposted
<1>4. CASE RestoreEnds
  BY <1>4 DEF RestoreEnds, NoClick, Reposted
<1>5. CASE RevokeClick \/ DeleteCommits \/ DeleteReplied \/ DeleteLost \/ RevokeEnds
  <2>1. handler.stage \in {"idle", "deleting", "committed", "watching"}
    BY <1>5 DEF RevokeClick, DeleteCommits, DeleteReplied, DeleteLost, RevokeEnds, Types
  <2>2. handler'.stage # "posting" /\ skipped' = skipped
    <3>1. skipped' = skipped
      BY <1>5 DEF RevokeClick, DeleteCommits, DeleteReplied, DeleteLost, RevokeEnds
    <3>2. CASE RevokeClick
      BY <1>5, <3>1, <3>2 DEF RevokeClick, NoClick
    <3>3. CASE DeleteCommits \/ DeleteReplied \/ DeleteLost
      BY <3>1, <3>3 DEF DeleteCommits, DeleteReplied, DeleteLost, Types
    <3>4. CASE RevokeEnds
      BY <3>1, <3>4 DEF RevokeEnds, NoClick
    <3> QED BY <1>5, <3>2, <3>3, <3>4
  <2> QED BY <2>1, <2>2 DEF Reposted
<1>6. CASE RoundEnds \/ PanelArrives \/ UNCHANGED vars
  BY <1>6, RepostedKept DEF RoundEnds, PanelArrives, vars, serverVars, clickVars
<1>7. ASSUME NEW n \in Nodes, NodeLearns(n) \/ NodeAnswers(n) PROVE Reposted'
  BY <1>7, RepostedKept DEF NodeLearns, NodeAnswers, serverVars, clickVars
<1>8. ASSUME NEW s \in Selections, Select(s) \/ OvertakenReturns(s) PROVE Reposted'
  BY <1>8, RepostedKept DEF Select, OvertakenReturns, serverVars, clickVars
<1>9. ASSUME NEW i \in DOMAIN loads, LoadRead(i) \/ LoadArrives(i) \/ LoadFails(i) PROVE Reposted'
  BY <1>9, RepostedKept DEF LoadRead, LoadArrives, LoadFails, serverVars, clickVars
<1> QED BY <1>1, <1>2, <1>3, <1>4, <1>5, <1>6, <1>7, <1>8, <1>9 DEF Next

Restores == RestoreEnds /\ ~skipped => S!ToSet(held)' = Grants

LEMMA RestoresStep == ASSUME Types, Reposted PROVE Restores
<1> SUFFICES ASSUME RestoreEnds, ~skipped PROVE S!ToSet(held)' = Grants
  BY DEF Restores
<1>1. handler.stage = "posting" /\ handler.next > Len(Seeds) /\ held' = held
  BY DEF RestoreEnds, Posted, serverVars
<1>2. Seeds \in Seq(Grants) /\ handler.next \in Nat
  BY SeedsAssumption DEF Types
<1>3. \A k \in 1..Len(Seeds) : Seeds[k] \in S!ToSet(held)
  BY <1>1, <1>2 DEF Reposted
<1>4. Grants \subseteq S!ToSet(held)
  BY <1>2, <1>3 DEF Grants, S!ToSet
<1>5. S!ToSet(held) \subseteq Grants
  BY DEF Types, S!ToSet
<1>6. S!ToSet(held)' = S!ToSet(held)
  BY <1>1 DEF S!ToSet
<1> QED BY <1>4, <1>5, <1>6

(* "Restores every seeded grant, not just the one the demo revokes by      *)
(* default": when restore of page.tsx ends and no request of it was        *)
(* refused, the table holds all of them.                                   *)
THEOREM RestoreTheorem == Spec => RestoreRestores
<1>1. Init => Types /\ Reposted
  <2>1. Init => handler.stage = "idle" /\ ~skipped
    BY DEF Init, NoClick
  <2> QED BY <2>1, InitTypes DEF Reposted
<1>2. Types /\ Reposted /\ [Next]_vars => Types' /\ Reposted'
  BY TypesStep, RepostedStep
<1>3. Types /\ Reposted /\ [Next]_vars => [Restores]_vars
  BY RestoresStep
<1>4. Spec => [][Restores]_vars
  BY <1>1, <1>2, <1>3, PTL DEF Spec
<1> QED BY <1>4 DEF RestoreRestores, Restores

-----------------------------------------------------------------------------
(* The window. While a revoke is watched, a node that knew of every write  *)
(* when it was pressed can only learn of that revoke.                      *)

Watched ==
  polling /\ ~mixed => \A n \in caughtUp :
    /\ S!ToSet(held) \subseteq seen[n]
    /\ round[n] = "deny" \/ flips[n] = "deny" => seen[n] \cap Deciding[sel] = {}
    /\ flips[n] = "deny" => round[n] # "allow"

LEMMA WatchedKept ==
  ASSUME Watched,
         UNCHANGED <<held, seen, sel, round, polling, flips, mixed, caughtUp>>
  PROVE  Watched'
BY DEF Watched, S!ToSet

LEMMA WatchedStep == ASSUME Types, Watched, [Next]_vars PROVE Watched'
<1>1. ASSUME NEW n \in Nodes, NodeLearns(n) PROVE Watched'
  <2>1. /\ UNCHANGED <<held, sel, round, polling, flips, mixed, caughtUp>>
        /\ \A m \in Nodes : seen'[m] = IF m = n THEN S!ToSet(held) ELSE seen[m]
    BY <1>1 DEF NodeLearns, loopVars, clickVars, sampleVars, Types
  <2>2. S!ToSet(held)' = S!ToSet(held)
    BY <2>1 DEF S!ToSet
  <2> QED BY <2>1, <2>2 DEF Watched, Types
<1>2. ASSUME NEW n \in Nodes, NodeAnswers(n) PROVE Watched'
  <2>1. UNCHANGED <<held, seen, sel, polling, flips, mixed, caughtUp>>
    BY <1>2 DEF NodeAnswers, serverVars, clickVars, sampleVars
  <2>2. PICK a \in {Answer(n), "error", "null"} : round' = [round EXCEPT ![n] = a]
    BY <1>2 DEF NodeAnswers
  <2>3. /\ a = "deny" => seen[n] \cap Deciding[sel] = {}
        /\ a = "allow" => seen[n] \cap Deciding[sel] # {}
    BY <2>2 DEF Answer
  <2>4. \A m \in Nodes : round'[m] = IF m = n THEN a ELSE round[m]
    BY <2>2 DEF Types
  <2>5. S!ToSet(held)' = S!ToSet(held)
    BY <2>1 DEF S!ToSet
  <2> QED BY <2>1, <2>3, <2>4, <2>5 DEF Watched, Types
<1>3. CASE RoundEnds
  <2>1. UNCHANGED <<held, seen, sel, polling, mixed, caughtUp>>
    BY <1>3 DEF RoundEnds, serverVars, clickVars
  <2>2. \A n \in Nodes : /\ round'[n] = "waiting"
                         /\ flips'[n] = "deny" => flips[n] = "deny" \/ round[n] = "deny"
    BY <1>3 DEF RoundEnds, Record, Unasked
  <2>3. S!ToSet(held)' = S!ToSet(held)
    BY <2>1 DEF S!ToSet
  <2> QED BY <2>1, <2>2, <2>3 DEF Watched, Types
<1>4. ASSUME NEW s \in Selections, Select(s) PROVE Watched'
  BY <1>4 DEF Select, clickVars, Watched
<1>5. CASE RevokeClick
  <2>1. /\ UNCHANGED <<held, seen, sel, round>>
        /\ caughtUp' = {n \in Nodes : seen[n] = S!ToSet(held) /\ round[n] = "waiting"}
        /\ flips' = [n \in Nodes |-> "none"]
    BY <1>5 DEF RevokeClick, NoFlips, serverVars, loopVars
  <2>2. S!ToSet(held)' = S!ToSet(held)
    BY <2>1 DEF S!ToSet
  <2> QED BY <2>1, <2>2 DEF Watched
<1>6. CASE DeleteCommits
  <2>1. UNCHANGED <<seen, sel, round, polling, flips, mixed, caughtUp>>
    BY <1>6 DEF DeleteCommits, loopVars, sampleVars
  <2>2. S!ToSet(held)' \subseteq S!ToSet(held)
    <3>1. S!ToSet(held') \subseteq S!ToSet(held)
      BY <1>6, WithoutGrant DEF DeleteCommits, Types
    <3> QED BY <3>1 DEF S!ToSet
  <2> QED BY <2>1, <2>2 DEF Watched
<1>7. CASE RevokeEnds
  BY <1>7 DEF RevokeEnds, Watched
<1>8. CASE Post \/ PostLost \/ RestoreEnds
  <2>1. ~polling /\ polling' = polling
    BY <1>8 DEF Post, PostLost, RestoreEnds, Posted, Types, Revoking
  <2> QED BY <2>1 DEF Watched
<1>9. CASE DeleteReplied \/ DeleteLost \/ RestoreClick \/ PanelArrives \/ UNCHANGED vars
  BY <1>9, WatchedKept
     DEF DeleteReplied, DeleteLost, RestoreClick, PanelArrives, vars, serverVars, loopVars, clickVars, sampleVars
<1>10. ASSUME NEW s \in Selections, OvertakenReturns(s) PROVE Watched'
  BY <1>10, WatchedKept DEF OvertakenReturns, serverVars, clickVars, sampleVars
<1>11. ASSUME NEW i \in DOMAIN loads, LoadRead(i) \/ LoadArrives(i) \/ LoadFails(i) PROVE Watched'
  BY <1>11, WatchedKept
     DEF LoadRead, LoadArrives, LoadFails, serverVars, loopVars, clickVars, sampleVars
<1> QED
  BY <1>1, <1>2, <1>3, <1>4, <1>5, <1>6, <1>7, <1>8, <1>9, <1>10, <1>11 DEF Next

Final ==
  RoundEnds /\ IsLate /\ ~mixed =>
    \A n \in caughtUp : flips[n] = "deny" => round[n] # "allow"

(* "a revoked user only needs one node that still says yes": the deny that *)
(* Timeline takes for the end of a node's window is its last word, for one *)
(* question, from a node that knew of every write before the revoke.       *)
THEOREM FlipTheorem == Spec => FlipIsFinal
<1>1. Init => Types /\ Watched
  BY InitTypes DEF Init, Watched
<1>2. Types /\ Watched /\ [Next]_vars => Types' /\ Watched'
  BY TypesStep, WatchedStep
<1>3. Watched => Final
  BY DEF Watched, Final, IsLate
<1>4. Types /\ Watched /\ [Next]_vars => [Final]_vars
  BY <1>3
<1>5. Spec => [][Final]_vars
  BY <1>1, <1>2, <1>4, PTL DEF Spec
<1> QED BY <1>5 DEF FlipIsFinal, Final
=============================================================================
