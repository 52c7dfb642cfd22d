------------------------ MODULE PermissionGraphProofs ------------------------
(***************************************************************************)
(* Why every store answers alike, from any tables the system can have: the *)
(* seed leaves a forest (parents come before children, one at most), the   *)
(* graph is a copy of the tables while the API serves, and a recursive     *)
(* query over either reaches the least closed set. The rest is arithmetic  *)
(* on sets of walks.                                                       *)
(***************************************************************************)
EXTENDS WalkProofs, SequenceTheorems

(* Foreign keys: what a row names is a row. *)
Rows ==
  /\ members \subseteq [src : Users \cap nodes, dst : Teams \cap nodes]
  /\ parents \subseteq [src : Teams \cap nodes, dst : Teams \cap nodes]
                         \cup [src : Resources \cap nodes, dst : Resources \cap nodes]
  /\ \A g \in grants : g.resource \in nodes

(* The tables grow one row at a time. *)
Finite == IsFiniteSet(members) /\ IsFiniteSet(parents) /\ IsFiniteSet(grants)

(* Parents come before children, and there is at most one of them. *)
Forest ==
  /\ \A s, t \in parents : s.src = t.src => s = t
  /\ \E rank \in [nodes -> Nat] : \A s \in parents : rank[s.dst] < rank[s.src]

(* rebuild copies the tables, a grant and a revoke change both. *)
Copied == Served => graph = GraphOf(members, parents, grants)

(* What holds in every state: the invariant all the theorems below rest    *)
(* on.                                                                     *)
GraphInv == GraphTypeOK /\ Rows /\ Finite /\ Forest /\ Copied

(* Empty tables. *)
LEMMA InitInv == Init => GraphInv
<1> SUFFICES ASSUME Init PROVE GraphInv
  OBVIOUS
<1>1. IsFiniteSet({})
  BY FS_EmptySet
<1>2. Forest
  <2>1. [n \in nodes |-> 0] \in [nodes -> Nat]
    OBVIOUS
  <2> QED BY <2>1 DEF Init, Forest
<1> QED BY <1>1, <1>2 DEF Init, GraphInv, GraphTypeOK, Rows, Finite, Copied, Served

(* A node and, for all but users, the parent it may have. *)
LEMMA NodeStep ==
  ASSUME GraphInv, NEW x \in Users \cup Teams \cup Resources, NEW above,
         AddNode(x, above),
         \/ above = {}
         \/ \E y \in nodes : above = {y} /\ (x \in Teams => y \in Teams) /\ (x \in Resources => y \in Resources) /\ x \notin Users
  PROVE  GraphInv'
<1> USE DEF GraphInv
<1>1. /\ phase = "boot" /\ x \notin nodes /\ nodes' = nodes \cup {x}
      /\ parents' = parents \cup {[src |-> x, dst |-> y] : y \in above}
      /\ UNCHANGED <<phase, members, grants, graph>>
  BY DEF AddNode
<1>2. Rows'
  <2>1. CASE above = {}
    BY <1>1, <2>1 DEF Rows
  <2>2. ASSUME NEW y \in nodes, above = {y}, x \in Teams => y \in Teams,
              x \in Resources => y \in Resources, x \notin Users
        PROVE  Rows'
    <3>1. parents' = parents \cup {[src |-> x, dst |-> y]}
      BY <1>1, <2>2
    <3> QED BY <1>1, <2>2, <3>1 DEF Rows
  <2> QED BY <2>1, <2>2
<1>3. GraphTypeOK'
  <2>1. nodes \subseteq nodes'
    BY <1>1
  <2>2. /\ phase' \in {"boot", "serving", "failed"}
        /\ nodes' \subseteq Users \cup Teams \cup Resources
        /\ members' \subseteq [src : Users, dst : Teams]
        /\ grants' \subseteq Grants
    BY <1>1 DEF GraphTypeOK
  <2>3. parents' \subseteq [src : Teams, dst : Teams] \cup [src : Resources, dst : Resources]
    BY <1>2 DEF Rows
  <2>4. graph' \subseteq [src : nodes' \cup Users \cup Teams, rel : {"MEMBER_OF", "CHILD_OF", "GRANTED"},
                          dst : nodes', role : Roles \cup {"none"}]
    BY <1>1, <2>1 DEF GraphTypeOK
  <2> QED BY <2>2, <2>3, <2>4 DEF GraphTypeOK, Grants, Roles
<1>4. Finite'
  <2>1. CASE above = {}
    <3>1. parents' = parents
      BY <1>1, <2>1
    <3> QED BY <1>1, <3>1 DEF Finite
  <2>2. ASSUME NEW y, above = {y} PROVE Finite'
    <3>1. parents' = parents \cup {[src |-> x, dst |-> y]}
      BY <1>1, <2>2
    <3>2. IsFiniteSet(parents')
      BY <3>1, FS_AddElement DEF Finite
    <3> QED BY <1>1, <3>2 DEF Finite
  <2> QED BY <2>1, <2>2
<1>5. Forest'
  <2>1. PICK rank \in [nodes -> Nat] : \A s \in parents : rank[s.dst] < rank[s.src]
    BY DEF Forest
  <2>2. \A s \in parents : s.src \in nodes /\ s.dst \in nodes
    BY DEF Rows
  <2>3. CASE above = {}
    <3> DEFINE more == [n \in nodes' |-> IF n = x THEN 0 ELSE rank[n]]
    <3>1. parents' = parents
      BY <1>1, <2>3
    <3>2. more \in [nodes' -> Nat]
      BY <1>1
    <3>3. \A s \in parents' : more[s.dst] < more[s.src]
      BY <1>1, <2>1, <2>2, <3>1
    <3> HIDE DEF more
    <3> QED BY <3>1, <3>2, <3>3 DEF Forest
  <2>4. ASSUME NEW y \in nodes, above = {y} PROVE Forest'
    <3> DEFINE more == [n \in nodes' |-> IF n = x THEN rank[y] + 1 ELSE rank[n]]
               e == [src |-> x, dst |-> y]
    <3>1. parents' = parents \cup {e}
      BY <1>1, <2>4
    <3>2. more \in [nodes' -> Nat]
      BY <1>1
    <3>3. \A s \in parents : more[s.dst] < more[s.src]
      BY <1>1, <2>1, <2>2
    <3>4. more[e.dst] < more[e.src]
      BY <1>1, <2>4
    <3>5. \A s, t \in parents' : s.src = t.src => s = t
      <4>1. e.src = x
        OBVIOUS
      <4> HIDE DEF e
      <4> QED BY <1>1, <2>2, <3>1, <4>1 DEF Forest
    <3> HIDE DEF more, e
    <3>6. \A s \in parents' : more[s.dst] < more[s.src]
      BY <3>1, <3>3, <3>4
    <3> QED BY <3>2, <3>5, <3>6 DEF Forest
  <2> QED BY <2>3, <2>4
<1>6. Copied'
  BY <1>1 DEF Copied, Served
<1> QED BY <1>2, <1>3, <1>4, <1>5, <1>6

(* The edge of a grant is no other grant's, and no edge of the topology. *)
LEMMA GrantEdges ==
  /\ \A g, h \in Grants : GrantEdge(g) = GrantEdge(h) => g = h
  /\ \A g \in Grants : \A s : Edge("MEMBER_OF", s) # GrantEdge(g) /\ Edge("CHILD_OF", s) # GrantEdge(g)
BY DEF Grants, GrantEdge, Edge

(* Every action keeps the invariant. *)
LEMMA NextInv == GraphInv /\ [Next]_vars => GraphInv'
<1> USE DEF GraphInv
<1> SUFFICES ASSUME GraphInv, [Next]_vars PROVE GraphInv'
  OBVIOUS
<1>1. ASSUME NEW u \in Users, AddUser(u) PROVE GraphInv'
  BY <1>1, NodeStep DEF AddUser
<1>2. ASSUME NEW t \in Teams, AddTeam(t) PROVE GraphInv'
  <2>1. PICK above \in {{}} \cup {{y} : y \in nodes \cap Teams} : AddNode(t, above)
    BY <1>2 DEF AddTeam
  <2>3. t \in Users \cup Teams \cup Resources
    OBVIOUS
  <2>2. \/ above = {}
        \/ \E y \in nodes : above = {y} /\ (t \in Teams => y \in Teams) /\ (t \in Resources => y \in Resources) /\ t \notin Users
    <3>1. CASE above = {}
      BY <3>1
    <3>2. CASE above # {}
      <4>1. PICK y \in nodes \cap Teams : above = {y}
        BY <2>1, <3>2
      <4> QED BY <4>1, IdsAssumption
    <3> QED BY <3>1, <3>2
  <2> QED BY <2>1, <2>2, <2>3, NodeStep, Zenon
<1>3. ASSUME NEW r \in Resources, AddResource(r) PROVE GraphInv'
  <2>1. PICK above \in {{}} \cup {{y} : y \in nodes \cap Resources} : AddNode(r, above)
    BY <1>3 DEF AddResource
  <2>2. \/ above = {}
        \/ \E y \in nodes : above = {y} /\ (r \in Teams => y \in Teams) /\ (r \in Resources => y \in Resources) /\ r \notin Users
    <3>1. CASE above = {}
      BY <3>1
    <3>2. CASE above # {}
      <4>1. PICK y \in nodes \cap Resources : above = {y}
        BY <2>1, <3>2
      <4> QED BY <4>1, IdsAssumption
    <3> QED BY <3>1, <3>2
  <2>3. r \in Users \cup Teams \cup Resources
    OBVIOUS
  <2> QED BY <2>1, <2>2, <2>3, NodeStep, Zenon
<1>4. ASSUME NEW u \in Users, NEW t \in Teams, AddMembership(u, t) PROVE GraphInv'
  <2>1. /\ phase = "boot" /\ u \in nodes /\ t \in nodes
        /\ members' = members \cup {[src |-> u, dst |-> t]}
        /\ UNCHANGED <<phase, nodes, parents, grants, graph>>
    BY <1>4 DEF AddMembership
  <2>2. IsFiniteSet(members')
    BY <2>1, FS_AddElement DEF Finite
  <2>3. Rows'
    BY <2>1 DEF Rows
  <2>4. GraphTypeOK'
    BY <2>1 DEF GraphTypeOK, Grants, Roles
  <2>5. Forest'
    BY <2>1 DEF Forest
  <2> QED BY <2>1, <2>2, <2>3, <2>4, <2>5 DEF Finite, Copied, Served
<1>5. ASSUME NEW g \in Grants, Grant(g) PROVE GraphInv'
  <2>1. /\ g.resource \in nodes /\ grants' = grants \cup {g}
        /\ graph' = graph \cup {GrantEdge(g)}
        /\ UNCHANGED <<phase, nodes, members, parents>>
    BY <1>5 DEF Grant
  <2>2. IsFiniteSet(grants')
    BY <2>1, FS_AddElement DEF Finite
  <2>3. GrantEdge(g) \in [src : nodes \cup Users \cup Teams, rel : {"MEMBER_OF", "CHILD_OF", "GRANTED"},
                          dst : nodes, role : Roles \cup {"none"}]
    BY <2>1 DEF GrantEdge, Grants
  <2>4. GraphTypeOK'
    BY <2>1, <2>3 DEF GraphTypeOK
  <2>5. Rows'
    BY <2>1 DEF Rows
  <2>6. Forest'
    BY <2>1 DEF Forest
  <2>7. Copied'
    <3>1. GraphOf(members, parents, grants \cup {g}) = GraphOf(members, parents, grants) \cup {GrantEdge(g)}
      BY GrantEdges DEF GraphOf, GraphTypeOK
    <3> QED BY <2>1, <3>1 DEF Copied, Served
  <2> QED BY <2>1, <2>2, <2>4, <2>5, <2>6, <2>7 DEF Finite
<1>6. ASSUME NEW g \in Grants, Revoke(g) PROVE GraphInv'
  <2>1. /\ grants' = grants \ {g}
        /\ graph' = graph \ {GrantEdge(g)}
        /\ UNCHANGED <<phase, nodes, members, parents>>
    BY <1>6 DEF Revoke
  <2>2. IsFiniteSet(grants')
    BY <2>1, FS_RemoveElement DEF Finite
  <2>4. GraphTypeOK'
    BY <2>1 DEF GraphTypeOK
  <2>5. Rows'
    BY <2>1 DEF Rows
  <2>6. Forest'
    BY <2>1 DEF Forest
  <2>7. Copied'
    <3>1. GraphOf(members, parents, grants \ {g}) = GraphOf(members, parents, grants) \ {GrantEdge(g)}
      BY GrantEdges DEF GraphOf, GraphTypeOK
    <3> QED BY <2>1, <3>1 DEF Copied, Served
  <2> QED BY <2>1, <2>2, <2>4, <2>5, <2>6, <2>7 DEF Finite
<1>7. CASE Rebuild
  <2>1. /\ phase' = "serving" /\ graph' = GraphOf(members, parents, grants)
        /\ UNCHANGED <<nodes, members, parents, grants>>
    BY <1>7 DEF Rebuild
  <2>2. graph' \subseteq [src : nodes \cup Users \cup Teams, rel : {"MEMBER_OF", "CHILD_OF", "GRANTED"},
                          dst : nodes, role : Roles \cup {"none"}]
    <3>1. \A s \in members : Edge("MEMBER_OF", s) \in [src : nodes \cup Users \cup Teams,
            rel : {"MEMBER_OF", "CHILD_OF", "GRANTED"}, dst : nodes, role : Roles \cup {"none"}]
      BY DEF Edge, Rows
    <3>2. \A s \in parents : Edge("CHILD_OF", s) \in [src : nodes \cup Users \cup Teams,
            rel : {"MEMBER_OF", "CHILD_OF", "GRANTED"}, dst : nodes, role : Roles \cup {"none"}]
      BY DEF Edge, Rows
    <3>3. \A g \in grants : GrantEdge(g) \in [src : nodes \cup Users \cup Teams,
            rel : {"MEMBER_OF", "CHILD_OF", "GRANTED"}, dst : nodes, role : Roles \cup {"none"}]
      BY DEF GrantEdge, Rows, GraphTypeOK, Grants
    <3> QED BY <2>1, <3>1, <3>2, <3>3 DEF GraphOf
  <2>3. GraphTypeOK'
    BY <2>1, <2>2 DEF GraphTypeOK
  <2>4. Rows' /\ Forest' /\ Finite'
    BY <2>1 DEF Rows, Forest, Finite
  <2>5. Copied'
    BY <2>1 DEF Copied
  <2> QED BY <2>3, <2>4, <2>5
<1>8. ASSUME phase' # "serving", phase' \in {"boot", "failed"},
             UNCHANGED <<nodes, members, parents, grants, graph>>
      PROVE  GraphInv'
  BY <1>8 DEF GraphTypeOK, Rows, Forest, Finite, Copied, Served
<1>9. CASE RebuildFails \/ Restart
  BY <1>8, <1>9 DEF RebuildFails, Restart
<1>10. CASE UNCHANGED vars
  BY <1>10 DEF vars, GraphTypeOK, Rows, Forest, Finite, Copied, Served
<1> QED BY <1>1, <1>2, <1>3, <1>4, <1>5, <1>6, <1>7, <1>9, <1>10 DEF Next

(* After any boots, seeds, grants and revokes the tables are a forest with  *)
(* its foreign keys, and while the API serves the graph is their copy.      *)
THEOREM GraphInvariance == Spec => []GraphInv
BY InitInv, NextInv, PTL DEF Spec

(* Rows and edges are of the kinds the schema allows, and every edge leads *)
(* to a row.                                                               *)
THEOREM GraphTypeTheorem == Spec => []GraphTypeOK
<1>1. GraphInv => GraphTypeOK
  BY DEF GraphInv
<1> QED BY <1>1, GraphInvariance, PTL

-----------------------------------------------------------------------------
(* The part of the graph that grants and revokes leave alone.              *)
Up == {Edge("MEMBER_OF", s) : s \in members} \cup
      {Edge("CHILD_OF", s) : s \in {t \in parents : t.dst \in Teams}}
Above == {Edge("CHILD_OF", s) : s \in {t \in parents : t.dst \in Resources}}

(* What x is inside, as Entitled says it. *)
Inside(x, y) ==
  \A Z \in SUBSET (Users \cup Teams \cup Resources) :
    (\A s \in members \cup parents : s.src \in Z => s.dst \in Z) => (x \in Z => y \in Z)

(* Entitled with its parts named. *)
LEMMA EntitledIs ==
  ASSUME NEW u, NEW p, NEW r
  PROVE  Entitled(u, p, r) <=>
           \E g \in grants : Rank[g.role] >= Needs[p] /\ Inside(u, g.subject) /\ Inside(r, g.resource)
BY DEF Entitled, Inside

(* What the two parts are made of. *)
LEMMA Topology ==
  ASSUME GraphInv
  PROVE  /\ \A gs \in SUBSET Grants :
              /\ SubjectSteps(GraphOf(members, parents, gs)) = Up
              /\ ResourceSteps(GraphOf(members, parents, gs)) = Above
              /\ \A e : e \in Up <=>
                   e \in GraphOf(members, parents, gs) /\ (e.rel = "MEMBER_OF" \/ (e.rel = "CHILD_OF" /\ e.dst \in Teams))
         /\ Up \subseteq [src : Users \cup Teams, rel : {"MEMBER_OF", "CHILD_OF"},
                          dst : Teams, role : {"none"}]
         /\ Above \subseteq [src : Resources, rel : {"CHILD_OF"}, dst : Resources, role : {"none"}]
         /\ \A e \in Up : e.rel = "MEMBER_OF" <=> e.src \in Users
         /\ \A e \in Up : \E s \in members \cup parents : e.src = s.src /\ e.dst = s.dst
         /\ \A e \in Above : \E s \in members \cup parents : e.src = s.src /\ e.dst = s.dst
         /\ \A s \in members \cup parents :
              s.src \in Users \cup Teams => \E e \in Up : e.src = s.src /\ e.dst = s.dst
         /\ \A s \in members \cup parents :
              s.src \in Resources => \E e \in Above : e.src = s.src /\ e.dst = s.dst
<1>1. /\ \A s \in members : s \in [src : Users, dst : Teams]
      /\ \A s \in parents : s \in [src : Teams, dst : Teams] \cup [src : Resources, dst : Resources]
  BY DEF GraphInv, GraphTypeOK
<1>2. \A rel, s : /\ Edge(rel, s).src = s.src /\ Edge(rel, s).dst = s.dst
                  /\ Edge(rel, s).rel = rel /\ Edge(rel, s).role = "none"
                  /\ Edge(rel, s) = [src |-> s.src, rel |-> rel, dst |-> s.dst, role |-> "none"]
  BY DEF Edge
<1>3. Up \subseteq [src : Users \cup Teams, rel : {"MEMBER_OF", "CHILD_OF"}, dst : Teams, role : {"none"}]
  BY <1>1, IdsAssumption DEF Up, Edge
<1>4. Above \subseteq [src : Resources, rel : {"CHILD_OF"}, dst : Resources, role : {"none"}]
  BY <1>1, IdsAssumption DEF Above, Edge
<1>5. \A e \in Up : e.rel = "MEMBER_OF" <=> e.src \in Users
  BY <1>1, <1>2, IdsAssumption DEF Up
<1>6. /\ \A e \in Up : \E s \in members \cup parents : e.src = s.src /\ e.dst = s.dst
      /\ \A e \in Above : \E s \in members \cup parents : e.src = s.src /\ e.dst = s.dst
  BY <1>2 DEF Up, Above
<1>7. ASSUME NEW s \in members \cup parents, s.src \in Users \cup Teams
      PROVE  \E e \in Up : e.src = s.src /\ e.dst = s.dst
  <2>1. CASE s \in members
    <3>1. Edge("MEMBER_OF", s) \in Up
      BY <2>1 DEF Up
    <3> QED BY <1>2, <3>1
  <2>2. CASE s \in parents
    <3>1. Edge("CHILD_OF", s) \in Up
      BY <1>1, <1>7, <2>2, IdsAssumption DEF Up
    <3> QED BY <1>2, <3>1
  <2> QED BY <2>1, <2>2
<1>8. ASSUME NEW s \in members \cup parents, s.src \in Resources
      PROVE  \E e \in Above : e.src = s.src /\ e.dst = s.dst
  <2>1. Edge("CHILD_OF", s) \in Above
    BY <1>1, <1>8, IdsAssumption DEF Above
  <2> QED BY <1>2, <2>1
<1>9. ASSUME NEW gs \in SUBSET Grants
      PROVE  /\ SubjectSteps(GraphOf(members, parents, gs)) = Up
             /\ ResourceSteps(GraphOf(members, parents, gs)) = Above
             /\ \A e : e \in Up <=>
                   e \in GraphOf(members, parents, gs) /\ (e.rel = "MEMBER_OF" \/ (e.rel = "CHILD_OF" /\ e.dst \in Teams))
  <2>1. \A g \in gs : GrantEdge(g).rel = "GRANTED"
    BY DEF GrantEdge
  <2>2. \A e : e \in GraphOf(members, parents, gs) <=>
          \/ \E s \in members : e = Edge("MEMBER_OF", s)
          \/ \E s \in parents : e = Edge("CHILD_OF", s)
          \/ \E g \in gs : e = GrantEdge(g)
    BY DEF GraphOf
  <2>3. SubjectSteps(GraphOf(members, parents, gs)) = Up
    BY <1>1, <1>2, <2>1, <2>2 DEF SubjectSteps, Up
  <2>4. ResourceSteps(GraphOf(members, parents, gs)) = Above
    BY <1>1, <1>2, <2>1, <2>2, IdsAssumption DEF ResourceSteps, Above
  <2>5. \A e : e \in Up <=>
                   e \in GraphOf(members, parents, gs) /\ (e.rel = "MEMBER_OF" \/ (e.rel = "CHILD_OF" /\ e.dst \in Teams))
    BY <1>1, <1>2, <2>1, <2>2 DEF Up
  <2> QED BY <2>3, <2>4, <2>5
<1> QED BY <1>3, <1>4, <1>5, <1>6, <1>7, <1>8, <1>9

(* The topology is finite. *)
LEMMA TopologyFinite ==
  ASSUME GraphInv
  PROVE  IsFiniteSet(Up) /\ IsFiniteSet(Above)
<1> DEFINE f(rel, W) == [s \in W |-> Edge(rel, s)]
           image(rel, W) == {Edge(rel, s) : s \in W}
<1>1. ASSUME NEW rel, NEW W, IsFiniteSet(W) PROVE IsFiniteSet(image(rel, W))
  <2>1. f(rel, W) \in Surjection(W, image(rel, W))
    BY DEF Surjection
  <2> HIDE DEF f, image
  <2> QED BY <1>1, <2>1, FS_Surjection
<1>2. \A T : IsFiniteSet({t \in parents : t.dst \in T})
  BY FS_Subset DEF GraphInv, Finite
<1>3. /\ IsFiniteSet(image("MEMBER_OF", members))
      /\ IsFiniteSet(image("CHILD_OF", {t \in parents : t.dst \in Teams}))
      /\ IsFiniteSet(image("CHILD_OF", {t \in parents : t.dst \in Resources}))
  <2> HIDE DEF image
  <2> QED BY <1>1, <1>2 DEF GraphInv, Finite
<1> QED BY <1>3, FS_Union DEF Up, Above

(* What a graph query reaches upwards from a user. *)
LEMMA SubjectReach ==
  ASSUME GraphInv, NEW u \in Users
  PROVE  /\ Reached(Up, {u}) \subseteq {u} \cup Teams
         /\ \A y : y \in Reached(Up, {u}) <=> Inside(u, y)
<1>1. IsFiniteSet(Up)
  BY TopologyFinite
<1>2. Reached(Up, {u}) \subseteq {u} \cup Teams
  <2> DEFINE Z == {u} \cup Teams
  <2>1. {u} \subseteq Z /\ \A s \in Up : s.src \in Z => s.dst \in Z
    BY Topology
  <2> HIDE DEF Z
  <2>2. Reached(Up, {u}) \subseteq Z
    BY <1>1, <2>1, ReachedIsLeast
  <2> QED BY <2>2 DEF Z
<1>3. ASSUME NEW y \in Reached(Up, {u}) PROVE Inside(u, y)
  <2> SUFFICES ASSUME NEW Z, \A s \in members \cup parents : s.src \in Z => s.dst \in Z, u \in Z
               PROVE  y \in Z
    BY DEF Inside
  <2>1. \A e \in Up : e.src \in Z => e.dst \in Z
    BY Topology
  <2> QED BY <1>1, <2>1, ReachedIsLeast
<1>4. ASSUME NEW y, Inside(u, y) PROVE y \in Reached(Up, {u})
  <2> DEFINE Z == Reached(Up, {u})
  <2>1. Z \in SUBSET (Users \cup Teams \cup Resources) /\ u \in Z
    BY <1>1, <1>2, ReachedIsLeast
  <2>2. ASSUME NEW s \in members \cup parents, s.src \in Z PROVE s.dst \in Z
    <3>1. PICK e \in Up : e.src = s.src /\ e.dst = s.dst
      BY <1>2, <2>2, Topology
    <3> QED BY <1>1, <2>2, <3>1, ReachedIsLeast
  <2> HIDE DEF Z
  <2>3. y \in Z
    BY <1>4, <2>1, <2>2 DEF Inside
  <2> QED BY <2>3 DEF Z
<1> QED BY <1>2, <1>3, <1>4

(* What a graph query reaches upwards from a resource. *)
LEMMA ResourceReach ==
  ASSUME GraphInv, NEW r \in Resources
  PROVE  /\ Reached(Above, {r}) \subseteq Resources
         /\ \A y : y \in Reached(Above, {r}) <=> Inside(r, y)
<1>1. IsFiniteSet(Above)
  BY TopologyFinite
<1>2. Reached(Above, {r}) \subseteq Resources
  <2>1. \A s \in Above : s.dst \in Resources
    BY Topology
  <2> QED BY <1>1, <2>1, ReachedIsLeast
<1>3. ASSUME NEW y \in Reached(Above, {r}) PROVE Inside(r, y)
  <2> SUFFICES ASSUME NEW Z, \A s \in members \cup parents : s.src \in Z => s.dst \in Z, r \in Z
               PROVE  y \in Z
    BY DEF Inside
  <2>1. \A e \in Above : e.src \in Z => e.dst \in Z
    BY Topology
  <2> QED BY <1>1, <2>1, ReachedIsLeast
<1>4. ASSUME NEW y, Inside(r, y) PROVE y \in Reached(Above, {r})
  <2> DEFINE Z == Reached(Above, {r})
  <2>1. Z \in SUBSET (Users \cup Teams \cup Resources) /\ r \in Z
    BY <1>1, <1>2, ReachedIsLeast
  <2>2. ASSUME NEW s \in members \cup parents, s.src \in Z PROVE s.dst \in Z
    <3>1. PICK e \in Above : e.src = s.src /\ e.dst = s.dst
      BY <1>2, <2>2, Topology
    <3> QED BY <1>1, <2>2, <3>1, ReachedIsLeast
  <2> HIDE DEF Z
  <2>3. y \in Z
    BY <1>4, <2>1, <2>2 DEF Inside
  <2> QED BY <2>3 DEF Z
<1> QED BY <1>2, <1>3, <1>4

(* What the queries over the tables reach. *)
LEMMA TableReach ==
  ASSUME GraphInv
  PROVE  /\ \A u \in Users : \A y : y = u \/ y \in UserTeams(u) <=> Inside(u, y)
         /\ \A r \in Resources : \A y : y \in ResourceChain(r) <=> Inside(r, y)
<1> DEFINE ts == {s \in parents : s.dst \in Teams}
           rs == {s \in parents : s.dst \in Resources}
<1>1. IsFiniteSet(ts) /\ IsFiniteSet(rs)
  BY FS_Subset DEF GraphInv, Finite
<1>2. /\ \A s \in members : s \in [src : Users, dst : Teams]
      /\ \A s \in parents : s \in [src : Teams, dst : Teams] \cup [src : Resources, dst : Resources]
  BY DEF GraphInv, GraphTypeOK
<1>3. ASSUME NEW u \in Users, NEW y PROVE y = u \/ y \in UserTeams(u) <=> Inside(u, y)
  <2> DEFINE own == {m.dst : m \in {x \in members : x.src = u}}
             T == Reached(ts, own)
  <2>1. UserTeams(u) = T
    BY DEF UserTeams
  <2>2. T \subseteq Teams
    <3>1. own \subseteq Teams /\ \A s \in ts : s.dst \in Teams
      BY <1>2
    <3> HIDE DEF own, ts
    <3> QED BY <1>1, <3>1, ReachedIsLeast
  <2>3. ASSUME NEW Z, \A s \in members \cup parents : s.src \in Z => s.dst \in Z, u \in Z
        PROVE  T \subseteq Z
    <3>1. own \subseteq Z /\ \A s \in ts : s.src \in Z => s.dst \in Z
      BY <2>3
    <3> HIDE DEF own, ts
    <3> QED BY <1>1, <3>1, ReachedIsLeast
  <2>4. ASSUME NEW s \in members \cup parents, s.src \in {u} \cup T PROVE s.dst \in T
    <3>1. own \subseteq T /\ \A t \in ts : t.src \in T => t.dst \in T
      <4> HIDE DEF own, ts
      <4> QED BY <1>1, ReachedIsLeast
    <3> HIDE DEF T
    <3>2. CASE s \in members
      <4>1. s.src = u
        BY <1>2, <2>2, <2>4, <3>2, IdsAssumption
      <4> QED BY <3>1, <3>2, <4>1
    <3>3. CASE s \in parents
      <4>1. s.src \in T /\ s \in ts
        BY <1>2, <2>2, <2>4, <3>3, IdsAssumption
      <4> QED BY <3>1, <4>1
    <3> QED BY <3>2, <3>3
  <2> HIDE DEF T
  <2>5. {u} \cup T \in SUBSET (Users \cup Teams \cup Resources)
    BY <2>2
  <2>6. Inside(u, y) => y \in {u} \cup T
    BY <2>4, <2>5 DEF Inside
  <2>7. y \in {u} \cup T => Inside(u, y)
    BY <2>3 DEF Inside
  <2> QED BY <2>1, <2>6, <2>7
<1>4. ASSUME NEW r \in Resources, NEW y PROVE y \in ResourceChain(r) <=> Inside(r, y)
  <2> DEFINE C == Reached(rs, {r})
  <2>1. ResourceChain(r) = C
    BY DEF ResourceChain
  <2>2. C \subseteq Resources
    <3>1. \A s \in rs : s.dst \in Resources
      OBVIOUS
    <3> HIDE DEF rs
    <3> QED BY <1>1, <3>1, ReachedIsLeast
  <2>3. ASSUME NEW Z, \A s \in members \cup parents : s.src \in Z => s.dst \in Z, r \in Z
        PROVE  C \subseteq Z
    <3>1. \A s \in rs : s.src \in Z => s.dst \in Z
      BY <2>3
    <3> HIDE DEF rs
    <3> QED BY <1>1, <2>3, <3>1, ReachedIsLeast
  <2>4. ASSUME NEW s \in members \cup parents, s.src \in C PROVE s.dst \in C
    <3>1. s \in rs
      BY <1>2, <2>2, <2>4, IdsAssumption
    <3> HIDE DEF rs
    <3> QED BY <1>1, <2>4, <3>1, ReachedIsLeast
  <2>5. r \in C
    <3> HIDE DEF rs
    <3> QED BY <1>1, ReachedIsLeast
  <2> HIDE DEF C
  <2>6. C \in SUBSET (Users \cup Teams \cup Resources)
    BY <2>2
  <2>7. Inside(r, y) => y \in C
    BY <2>4, <2>5, <2>6 DEF Inside
  <2>8. y \in C => Inside(r, y)
    BY <2>3 DEF Inside
  <2> QED BY <2>1, <2>7, <2>8
<1> QED BY <1>3, <1>4

(* roles.ts: each role confers what it adds and what the one below confers. *)
LEMMA Ranks ==
  ASSUME NEW role \in Roles, NEW p \in Permissions
  PROVE  role \in RolesGranting(p) <=> Rank[role] >= Needs[p]
<1> DEFINE P(of) == of = [r \in Roles |-> RoleAdds[r] \cup (IF r = "viewer" THEN {} ELSE of[RoleParent[r]])]
           f == [r \in Roles |-> IF r = "viewer" THEN {"read"}
                                 ELSE IF r = "editor" THEN {"read", "write"} ELSE Permissions]
<1>1. P(f)
  BY DEF Roles, RoleAdds, RoleParent, Permissions
<1> HIDE DEF f
<1>2. PermissionsOf = CHOOSE of : P(of)
  BY DEF PermissionsOf
<1>3. P(PermissionsOf)
  <2> HIDE DEF P
  <2> QED BY <1>1, <1>2
<1>4. /\ PermissionsOf["viewer"] = {"read"}
      /\ PermissionsOf["editor"] = {"read", "write"}
      /\ PermissionsOf["owner"] = {"read", "write", "delete", "grant"}
  BY <1>3 DEF Roles, RoleAdds, RoleParent
<1> QED BY <1>4 DEF RolesGranting, Roles, Permissions, Rank, Needs

(* The edges that confer a permission are those of the grants that do. *)
LEMMA Granted ==
  ASSUME NEW ms, NEW ps, NEW gs \in SUBSET Grants, NEW p
  PROVE  Granting(GraphOf(ms, ps, gs), p) = {GrantEdge(g) : g \in {h \in gs : h.role \in RolesGranting(p)}}
<1>1. \A s : Edge("MEMBER_OF", s).rel # "GRANTED" /\ Edge("CHILD_OF", s).rel # "GRANTED"
  BY DEF Edge
<1>2. \A g : GrantEdge(g).rel = "GRANTED" /\ GrantEdge(g).role = g.role
  BY DEF GrantEdge
<1> QED BY <1>1, <1>2 DEF Granting, GraphOf

(* The tables and the graph in Postgres answer as the rules say. *)
LEMMA StoresAgree ==
  ASSUME GraphInv, NEW gs \in SUBSET Grants, NEW u \in Users, NEW p \in Permissions, NEW r \in Resources
  PROVE  /\ CheckRelational(u, p, r) <=> Entitled(u, p, r)
         /\ CheckSql(GraphOf(members, parents, gs), u, p, r) <=>
              \E g \in gs : /\ Rank[g.role] >= Needs[p]
                            /\ Inside(u, g.subject) /\ Inside(r, g.resource)
<1>1. \A g \in Grants : g.role \in Roles
  BY DEF Grants
<1>2. grants \subseteq Grants
  BY DEF GraphInv, GraphTypeOK
<1>3. CheckRelational(u, p, r) <=> Entitled(u, p, r)
  <2>1. \A g \in grants : /\ g.role \in RolesGranting(p) <=> Rank[g.role] >= Needs[p]
                          /\ g.resource \in ResourceChain(r) <=> Inside(r, g.resource)
                          /\ g.subject = u \/ g.subject \in UserTeams(u) <=> Inside(u, g.subject)
    BY <1>1, <1>2, Ranks, TableReach
  <2> QED BY <2>1, EntitledIs DEF CheckRelational
<1>4. \A g \in gs : /\ g.role \in RolesGranting(p) <=> Rank[g.role] >= Needs[p]
                    /\ g.resource \in Reached(Above, {r}) <=> Inside(r, g.resource)
                    /\ g.subject \in Reached(Up, {u}) <=> Inside(u, g.subject)
  BY <1>1, Ranks, SubjectReach, ResourceReach
<1>5. \A g : GrantEdge(g).src = g.subject /\ GrantEdge(g).dst = g.resource
  BY DEF GrantEdge
<1>6. CheckSql(GraphOf(members, parents, gs), u, p, r) <=>
        \E e \in {GrantEdge(g) : g \in {h \in gs : h.role \in RolesGranting(p)}} :
          e.dst \in Reached(Above, {r}) /\ e.src \in Reached(Up, {u})
  <2> DEFINE E == GraphOf(members, parents, gs)
  <2>1. /\ SubjectSteps(E) = Up /\ ResourceSteps(E) = Above
        /\ Granting(E, p) = {GrantEdge(g) : g \in {h \in gs : h.role \in RolesGranting(p)}}
    BY Topology, Granted
  <2> HIDE DEF E
  <2>2. CheckSql(E, u, p, r) <=> \E g \in Granting(E, p) : g.dst \in Reached(Above, {r}) /\ g.src \in Reached(Up, {u})
    BY <2>1 DEF CheckSql
  <2> QED BY <2>1, <2>2 DEF E
<1> QED BY <1>3, <1>4, <1>5, <1>6

-----------------------------------------------------------------------------
(* The readers of Neo4j.                                                   *)

(* One MEMBER_OF and up to d CHILD_OF are the walks of one step more.       *)
LEMMA SubjectWalksAre ==
  ASSUME GraphInv, NEW gs \in SUBSET Grants, NEW u \in Users, NEW d \in Nat
  PROVE  SubjectWalks(GraphOf(members, parents, gs), u, d) = Walks(Up, u, d + 1)
<1> DEFINE E == GraphOf(members, parents, gs)
           inner == {e \in Up : e.rel = "CHILD_OF"}
           first == {e \in E : e.rel = "MEMBER_OF" /\ e.src = u}
<1>1. /\ SubjectSteps(E) = Up
      /\ \A e \in first : e \in Up
      /\ \A e \in Up : e \in E
      /\ \A e \in Up : e.src \in Users => e.rel = "MEMBER_OF"
      /\ \A e \in Up : e.src \notin Users => e.rel = "CHILD_OF"
      /\ \A e \in Up : e.dst \notin Users
  BY Topology, IdsAssumption
<1> HIDE DEF E
<1>2. \A w : w \in SubjectWalks(E, u, d) <=>
        \/ w = <<>>
        \/ \E m \in first : \E v \in Walks(inner, m.dst, d) : w = <<m>> \o v
  <2> DEFINE cat(m, v) == <<m>> \o v
             ways(m) == {cat(m, v) : v \in Walks(inner, m.dst, d)}
             all == UNION {ways(m) : m \in first}
  <2>1. SubjectWalks(E, u, d) = {<<>>} \cup all
    BY <1>1 DEF SubjectWalks
  <2>2. \A w : w \in SubjectWalks(E, u, d) <=> w = <<>> \/ w \in all
    <3> HIDE DEF all
    <3> QED BY <2>1
  <2> HIDE DEF cat, inner, first
  <2>3. \A w : w \in all <=> \E m \in first : w \in ways(m)
    OBVIOUS
  <2>4. \A w : w \in all <=> \E m \in first : \E v \in Walks(inner, m.dst, d) : w = cat(m, v)
    BY <2>3
  <2> HIDE DEF all, ways
  <2>5. \A w : w \in SubjectWalks(E, u, d) <=>
          \/ w = <<>>
          \/ \E m \in first : \E v \in Walks(inner, m.dst, d) : w = cat(m, v)
    BY <2>2, <2>4, Zenon
  <2> QED BY <2>5 DEF cat
<1>3. ASSUME NEW m \in first, NEW v \in Walks(inner, m.dst, d), NEW w, w = <<m>> \o v
      PROVE  w \in Walks(Up, u, d + 1)
  <2>1. /\ v \in Seq(inner) /\ Len(v) <= d
        /\ \A i \in 1..Len(v) : v[i].src = IF i = 1 THEN m.dst ELSE v[i - 1].dst
    <3> HIDE DEF inner
    <3> QED BY WalksAre
  <2>2. m \in Up /\ m.src = u /\ v \in Seq(Up)
    BY <1>1, <2>1
  <2> HIDE DEF first, inner
  <2>3. /\ w \in Seq(Up) /\ Len(w) = Len(v) + 1 /\ w[1] = m
        /\ \A i \in 1..Len(v) : w[i + 1] = v[i]
    BY <1>3, <2>2
  <2>4. ASSUME NEW i \in 1..Len(w) PROVE w[i].src = IF i = 1 THEN u ELSE w[i - 1].dst
    <3>1. CASE i = 1
      BY <2>2, <2>3, <3>1
    <3>2. CASE i = 2
      <4>1. 1 \in 1..Len(v)
        BY <2>2, <2>3, <3>2
      <4>2. w[2] = v[1] /\ v[1].src = m.dst
        BY <2>1, <2>3, <4>1
      <4> QED BY <2>3, <3>2, <4>2
    <3>3. CASE i > 2
      <4>1. i - 1 \in 1..Len(v) /\ i - 2 \in 1..Len(v) /\ (i - 1) + 1 = i /\ (i - 2) + 1 = i - 1 /\ (i - 1) - 1 = i - 2
        BY <2>2, <2>3, <3>3
      <4>2. w[i] = v[i - 1] /\ w[i - 1] = v[i - 2] /\ v[i - 1].src = v[i - 2].dst
        BY <2>1, <2>3, <3>3, <4>1, SMTT(30)
      <4> QED BY <3>3, <4>2
    <3> QED BY <3>1, <3>2, <3>3
  <2>5. Len(w) <= d + 1
    BY <2>1, <2>2, <2>3
  <2>6. w \in Walks(Up, u, d + 1) <=>
          /\ w \in Seq(Up) /\ Len(w) <= d + 1
          /\ \A i \in 1..Len(w) : w[i].src = IF i = 1 THEN u ELSE w[i - 1].dst
    <3>1. d + 1 \in Nat
      OBVIOUS
    <3> QED BY <3>1, WalksAre, SMTT(30)
  <2> QED BY <2>3, <2>4, <2>5, <2>6
<1>4. ASSUME NEW w \in Walks(Up, u, d + 1), w # <<>>
      PROVE  \E m \in first : \E v \in Walks(inner, m.dst, d) : w = <<m>> \o v
  <2>1. /\ w \in Seq(Up) /\ Len(w) <= d + 1
        /\ \A i \in 1..Len(w) : w[i].src = IF i = 1 THEN u ELSE w[i - 1].dst
    BY WalksAre
  <2> DEFINE m == w[1]
             v == Tail(w)
  <2>2. m \in first
    BY <1>1, <1>4, <2>1
  <2>3. v \in Seq(Up) /\ Len(v) = Len(w) - 1 /\ \A i \in 1..Len(v) : v[i] = w[i + 1]
    BY <1>4, <2>1
  <2>4. w = <<m>> \o v
    BY <1>4, <2>1
  <2> HIDE DEF v
  <2>5. \A i \in 1..Len(v) : v[i].src = w[i].dst /\ v[i].src = IF i = 1 THEN m.dst ELSE v[i - 1].dst
    <3> SUFFICES ASSUME NEW i \in 1..Len(v)
                 PROVE  v[i].src = w[i].dst /\ v[i].src = IF i = 1 THEN m.dst ELSE v[i - 1].dst
      OBVIOUS
    <3>1. i + 1 \in 1..Len(w) /\ i + 1 # 1 /\ (i + 1) - 1 = i
      BY <2>1, <2>3
    <3>2. v[i].src = w[i].dst
      BY <2>1, <2>3, <3>1
    <3>3. i # 1 => i - 1 \in 1..Len(v) /\ (i - 1) + 1 = i
      BY <2>3
    <3>4. i # 1 => v[i - 1] = w[i]
      BY <2>3, <3>3
    <3> QED BY <3>2, <3>4
  <2>6. \A i \in 1..Len(v) : v[i] \in inner
    <3> SUFFICES ASSUME NEW i \in 1..Len(v) PROVE v[i] \in inner
      OBVIOUS
    <3>1. w[i] \in Up /\ v[i] \in Up
      BY <2>1, <2>3
    <3> QED BY <1>1, <2>5, <3>1
  <2>7. v \in Seq(inner) /\ Len(v) <= d
    BY <2>1, <2>3, <2>6
  <2> HIDE DEF m, inner, first
  <2>8. v \in Walks(inner, m.dst, d)
    BY <2>5, <2>7, WalksAre
  <2> QED BY <2>2, <2>4, <2>8
<1>5. \A w : w = <<>> => w \in Walks(Up, u, d + 1)
  BY NoSteps
<1> QED BY <1>2, <1>3, <1>4, <1>5 DEF E

(* Fits in terms of the two parts of the topology. *)
LEMMA FitsIs ==
  ASSUME GraphInv, Served, NEW u, NEW r, NEW d
  PROVE  Fits(u, r, d) <=> Short(Up, u, d) /\ Short(Above, r, d)
<1>1. SubjectSteps(graph) = Up /\ ResourceSteps(graph) = Above
  BY Topology DEF GraphInv, GraphTypeOK, Copied
<1> QED BY <1>1 DEF Fits, Short

(* Some grant of gs lets u do p on r. *)
Held(gs, u, p, r) ==
  \E g \in gs : /\ Rank[g.role] >= Needs[p]
                /\ g.subject \in Reached(Up, {u}) /\ g.resource \in Reached(Above, {r})

(* The edges that confer p, by the grants they stand for. *)
LEMMA GrantedBy ==
  ASSUME NEW ms, NEW ps, NEW gs \in SUBSET Grants, NEW p \in Permissions
  PROVE  /\ \A e \in Granting(GraphOf(ms, ps, gs), p) :
              \E g \in gs : e = GrantEdge(g) /\ Rank[g.role] >= Needs[p] /\ e.src = g.subject /\ e.dst = g.resource
         /\ \A g \in gs : Rank[g.role] >= Needs[p] =>
              \E e \in Granting(GraphOf(ms, ps, gs), p) : e = GrantEdge(g) /\ e.src = g.subject /\ e.dst = g.resource
<1>1. \A g \in gs : g.role \in RolesGranting(p) <=> Rank[g.role] >= Needs[p]
  BY Ranks DEF Grants
<1>2. \A g : GrantEdge(g).src = g.subject /\ GrantEdge(g).dst = g.resource
  BY DEF GrantEdge
<1>3. Granting(GraphOf(ms, ps, gs), p) = {GrantEdge(g) : g \in {h \in gs : h.role \in RolesGranting(p)}}
  BY Granted
<1> QED BY <1>1, <1>2, <1>3

(* Neo4j allows only what is held, and all of it within its depth. *)
LEMMA CypherAgrees ==
  ASSUME GraphInv, NEW gs \in SUBSET Grants,
         NEW u \in Users, NEW p \in Permissions, NEW r \in Resources, NEW d \in Nat,
         NEW E, E = GraphOf(members, parents, gs)
  PROVE  /\ CheckCypher(E, u, p, r, d) => Held(gs, u, p, r)
         /\ CheckPattern(E, u, p, r, d) => Held(gs, u, p, r)
         /\ Short(Up, u, d) /\ Short(Above, r, d) /\ Held(gs, u, p, r) =>
              CheckCypher(E, u, p, r, d) /\ CheckPattern(E, u, p, r, d)
<1> DEFINE A == Walks(Up, u, d + 1)
           B == Walks(Above, r, d)
<1>1. SubjectWalks(E, u, d) = A /\ ResourceSteps(E) = Above
  BY SubjectWalksAre, Topology
<1>2. IsFiniteSet(Up) /\ IsFiniteSet(Above)
  BY TopologyFinite
<1>3. /\ \A w \in A : End(u, w) \in Reached(Up, {u})
      /\ \A w \in B : End(r, w) \in Reached(Above, {r})
  BY <1>2, WalksReach
<1>4. Short(Up, u, d) => \A y \in Reached(Up, {u}) : \E w \in A : y = End(u, w)
  <2> SUFFICES ASSUME Short(Up, u, d), NEW y \in Reached(Up, {u}) PROVE \E w \in A : y = End(u, w)
    OBVIOUS
  <2>2. A = Walks(Up, u, d) /\ \E w \in Walks(Up, u, d) : y = End(u, w)
    BY <1>2, ShortWalks
  <2> QED BY <2>2
<1>5. Short(Above, r, d) => \A y \in Reached(Above, {r}) : \E w \in B : y = End(r, w)
  <2> SUFFICES ASSUME Short(Above, r, d), NEW y \in Reached(Above, {r}) PROVE \E w \in B : y = End(r, w)
    OBVIOUS
  <2>2. \E w \in B : y = End(r, w)
    BY <1>2, ShortWalks
  <2> QED BY <2>2
<1> HIDE DEF A, B
<1>6. CheckCypher(E, u, p, r, d) <=>
        \E e \in Granting(E, p) : (\E w \in A : e.src = End(u, w)) /\ (\E w \in B : e.dst = End(r, w))
  <2>1. Matches(E, u, p, r, d) = {w \in A \X Granting(E, p) \X B : w[2].src = End(u, w[1]) /\ w[2].dst = End(r, w[3])}
    BY <1>1 DEF Matches, B
  <2>2. ASSUME NEW e \in Granting(E, p), NEW v \in A, NEW w \in B, e.src = End(u, v), e.dst = End(r, w)
        PROVE  Matches(E, u, p, r, d) # {}
    <3>1. <<v, e, w>> \in Matches(E, u, p, r, d)
      BY <2>1, <2>2
    <3> QED BY <3>1
  <2>3. ASSUME NEW w \in Matches(E, u, p, r, d)
        PROVE  w[1] \in A /\ w[2] \in Granting(E, p) /\ w[3] \in B
               /\ w[2].src = End(u, w[1]) /\ w[2].dst = End(r, w[3])
    BY <2>1
  <2> QED BY <2>2, <2>3 DEF CheckCypher
<1>7. CheckPattern(E, u, p, r, d) <=>
        \E e \in Granting(E, p) : /\ e.src = u \/ (e.src \in Teams /\ \E w \in A : e.src = End(u, w))
                                  /\ \E w \in B : e.dst = End(r, w)
  BY <1>1 DEF CheckPattern, B
<1>8. /\ \A e \in Granting(E, p) : \E g \in gs : Rank[g.role] >= Needs[p] /\ e.src = g.subject /\ e.dst = g.resource
      /\ \A g \in gs : Rank[g.role] >= Needs[p] =>
           \E e \in Granting(E, p) : e.src = g.subject /\ e.dst = g.resource
  BY GrantedBy
<1>9. Reached(Up, {u}) \subseteq {u} \cup Teams /\ u \in Reached(Up, {u})
  BY <1>2, SubjectReach, ReachedIsLeast
<1>10. CheckCypher(E, u, p, r, d) => Held(gs, u, p, r)
  BY <1>3, <1>6, <1>8, ZenonT(40) DEF Held
<1>11. CheckPattern(E, u, p, r, d) => Held(gs, u, p, r)
  <2> SUFFICES ASSUME CheckPattern(E, u, p, r, d) PROVE Held(gs, u, p, r)
    OBVIOUS
  <2>1. PICK e \in Granting(E, p) : /\ e.src = u \/ (e.src \in Teams /\ \E w \in A : e.src = End(u, w))
                                    /\ \E w \in B : e.dst = End(r, w)
    BY <1>7
  <2>2. e.src \in Reached(Up, {u}) /\ e.dst \in Reached(Above, {r})
    BY <1>3, <1>9, <2>1
  <2> QED BY <1>8, <2>2 DEF Held
<1>12. ASSUME Short(Up, u, d), Short(Above, r, d), Held(gs, u, p, r)
       PROVE  CheckCypher(E, u, p, r, d) /\ CheckPattern(E, u, p, r, d)
  <2>1. PICK g \in gs : Rank[g.role] >= Needs[p] /\ g.subject \in Reached(Up, {u}) /\ g.resource \in Reached(Above, {r})
    BY <1>12 DEF Held
  <2>2. PICK e \in Granting(E, p) : e.src = g.subject /\ e.dst = g.resource
    BY <1>8, <2>1
  <2>3. (\E w \in A : e.src = End(u, w)) /\ (\E w \in B : e.dst = End(r, w))
    BY <1>4, <1>5, <1>12, <2>1, <2>2
  <2>4. e.src = u \/ e.src \in Teams
    BY <1>9, <2>1, <2>2
  <2> QED BY <1>6, <1>7, <2>3, <2>4
<1> QED BY <1>10, <1>11, <1>12

(* What the tables answer when their grants are gs. *)
LEMMA RelationalIs ==
  ASSUME GraphInv, NEW gs \in SUBSET Grants, NEW u \in Users, NEW p \in Permissions, NEW r \in Resources
  PROVE  Held(gs, u, p, r) <=>
           \E g \in gs : /\ g.role \in RolesGranting(p)
                         /\ g.resource \in ResourceChain(r)
                         /\ g.subject = u \/ g.subject \in UserTeams(u)
<1>1. \A g \in gs : /\ g.role \in RolesGranting(p) <=> Rank[g.role] >= Needs[p]
                    /\ g.resource \in ResourceChain(r) <=> g.resource \in Reached(Above, {r})
                    /\ g.subject = u \/ g.subject \in UserTeams(u) <=> g.subject \in Reached(Up, {u})
  BY Ranks, TableReach, SubjectReach, ResourceReach DEF Grants
<1> QED BY <1>1 DEF Held

(* The tables and the rules, both in terms of Held. *)
LEMMA HeldIs ==
  ASSUME GraphInv, NEW u \in Users, NEW p \in Permissions, NEW r \in Resources
  PROVE  /\ CheckRelational(u, p, r) <=> Held(grants, u, p, r)
         /\ Entitled(u, p, r) <=> Held(grants, u, p, r)
<1>1. grants \in SUBSET Grants
  BY DEF GraphInv, GraphTypeOK
<1>2. Entitled(u, p, r) <=> Held(grants, u, p, r)
  BY EntitledIs, SubjectReach, ResourceReach DEF Held
<1> QED BY <1>1, <1>2, StoresAgree

(* The tables, the graph in Postgres and both readers of Neo4j answer check *)
(* as the rules say; the readers of Neo4j may deny what is beyond their     *)
(* depth, and allow nothing that the rules deny.                           *)
THEOREM ChecksAgreeTheorem == Spec => []ChecksAgree
<1>1. GraphInv => ChecksAgree
  <2> SUFFICES ASSUME GraphInv, Served, NEW u \in Users, NEW p \in Permissions, NEW r \in Resources
               PROVE  LET yes == Entitled(u, p, r)
                      IN /\ CheckRelational(u, p, r) = yes
                         /\ CheckSql(graph, u, p, r) = yes
                         /\ \A d \in Depths :
                              LET neo4j == {CheckCypher(graph, u, p, r, d), CheckPattern(graph, u, p, r, d)}
                              IN /\ TRUE \in neo4j => yes
                                 /\ Fits(u, r, d) => neo4j = {yes}
    BY DEF ChecksAgree
  <2>1. grants \in SUBSET Grants /\ graph = GraphOf(members, parents, grants)
    BY DEF GraphInv, GraphTypeOK, Copied
  <2>2. CheckRelational(u, p, r) = Entitled(u, p, r)
    BY HeldIs DEF CheckRelational, Entitled
  <2>3. CheckSql(graph, u, p, r) = Entitled(u, p, r)
    <3>1. CheckSql(graph, u, p, r) <=> Entitled(u, p, r)
      BY <2>1, StoresAgree, EntitledIs
    <3> QED BY <3>1 DEF CheckSql, Entitled
  <2>4. ASSUME NEW d \in Depths
        PROVE  /\ CheckCypher(graph, u, p, r, d) \in BOOLEAN /\ CheckPattern(graph, u, p, r, d) \in BOOLEAN
               /\ CheckCypher(graph, u, p, r, d) => Entitled(u, p, r)
               /\ CheckPattern(graph, u, p, r, d) => Entitled(u, p, r)
               /\ Fits(u, r, d) /\ Entitled(u, p, r) =>
                    CheckCypher(graph, u, p, r, d) /\ CheckPattern(graph, u, p, r, d)
    <3>1. d \in Nat
      BY DepthAssumption
    <3>2. /\ CheckCypher(graph, u, p, r, d) => Held(grants, u, p, r)
          /\ CheckPattern(graph, u, p, r, d) => Held(grants, u, p, r)
          /\ Short(Up, u, d) /\ Short(Above, r, d) /\ Held(grants, u, p, r) =>
              CheckCypher(graph, u, p, r, d) /\ CheckPattern(graph, u, p, r, d)
      BY <2>1, <3>1, CypherAgrees
    <3>3. CheckCypher(graph, u, p, r, d) \in BOOLEAN /\ CheckPattern(graph, u, p, r, d) \in BOOLEAN
      BY DEF CheckCypher, CheckPattern
    <3> QED BY <3>2, <3>3, HeldIs, FitsIs
  <2>5. Entitled(u, p, r) \in BOOLEAN
    BY DEF Entitled
  <2> QED BY <2>2, <2>3, <2>4, <2>5
<1> QED BY <1>1, GraphInvariance, PTL

-----------------------------------------------------------------------------
(* Impact: everyone under the grant and everything under it, but for whom  *)
(* and what another grant covers.                                          *)
Impact(g, p) ==
  {ur \in Users \X Resources : /\ g.subject \in Reached(Up, {ur[1]})
                               /\ g.resource \in Reached(Above, {ur[2]})
                               /\ ~Held(grants \ {g}, ur[1], p, ur[2])}

(* Memberships and parents, without the grants. *)
LEMMA Hierarchy ==
  ASSUME GraphInv, NEW gs \in SUBSET Grants,
         NEW E, E = GraphOf(members, parents, gs)
  PROVE  {e \in E : e.rel \in {"MEMBER_OF", "CHILD_OF"}} = Up \cup Above
<1> DEFINE all == {e \in E : e.rel \in {"MEMBER_OF", "CHILD_OF"}}
<1>1. \A e \in E :
        \/ \E s \in members : e = Edge("MEMBER_OF", s)
        \/ \E s \in parents : e = Edge("CHILD_OF", s)
        \/ \E h \in gs : e = GrantEdge(h)
  BY DEF GraphOf
<1>2. \A h \in gs : GrantEdge(h).rel = "GRANTED"
  BY DEF GrantEdge
<1>3. \A s \in parents : s.dst \in Teams \/ s.dst \in Resources
  BY DEF GraphInv, GraphTypeOK
<1>4. all \subseteq Up \cup Above
  BY <1>1, <1>2, <1>3 DEF Up, Above
<1>5. Up \cup Above \subseteq all
  <2>1. \A rel, s : Edge(rel, s).rel = rel
    BY DEF Edge
  <2> QED BY <2>1 DEF Up, Above, GraphOf
<1> QED BY <1>4, <1>5

(* Walking down from the subject and the resource of a grant. *)
LEMMA Downwards ==
  ASSUME GraphInv, NEW gs \in SUBSET Grants, NEW g \in Grants,
         NEW E, E = GraphOf(members, parents, gs)
  PROVE  /\ Holders(E, g) = {u \in Users : g.subject \in Reached(Up, {u})}
         /\ Descendants(E, g) = {r \in Resources : g.resource \in Reached(Above, {r})}
<1> DEFINE All == {e \in E : e.rel \in {"MEMBER_OF", "CHILD_OF"}}
           Ids == Users \cup Teams \cup Resources
<1>1. All = Up \cup Above
  BY Hierarchy
<1>2. /\ Up \in SUBSET [src : Ids, rel : {"MEMBER_OF", "CHILD_OF"}, dst : Ids, role : {"none"}]
      /\ Above \in SUBSET [src : Ids, rel : {"MEMBER_OF", "CHILD_OF"}, dst : Ids, role : {"none"}]
  BY Topology
<1>3. IsFiniteSet(Up) /\ IsFiniteSet(Above) /\ IsFiniteSet(Up \cup Above)
  BY TopologyFinite, FS_Union
<1>4. ASSUME NEW u \in Users, NEW y PROVE y \in Reached(Up \cup Above, {u}) <=> y \in Reached(Up, {u})
  <2> DEFINE Z == Reached(Up, {u})
             Y == Reached(Up \cup Above, {u})
  <2>1. Z \subseteq {u} \cup Teams /\ {u} \subseteq Z /\ \A e \in Up : e.src \in Z => e.dst \in Z
    BY <1>3, SubjectReach, ReachedIsLeast
  <2>2. \A e \in Above : e.src \in Resources
    BY Topology
  <2> HIDE DEF Z
  <2>3. \A e \in Up \cup Above : e.src \in Z => e.dst \in Z
    BY <2>1, <2>2, IdsAssumption
  <2>4. Y \subseteq Z
    BY <1>3, <2>1, <2>3, ReachedIsLeast
  <2>5. {u} \subseteq Y /\ \A e \in Up \cup Above : e.src \in Y => e.dst \in Y
    BY <1>3, ReachedIsLeast
  <2> HIDE DEF Y
  <2>6. \A e \in Up : e.src \in Y => e.dst \in Y
    BY <2>5
  <2>7. Z \subseteq Y
    BY <1>3, <2>5, <2>6, ReachedIsLeast DEF Z
  <2> QED BY <2>4, <2>7 DEF Y, Z
<1>5. Holders(E, g) = Users \cap Reached(Reversed(Up \cup Above), {g.subject})
  BY <1>1 DEF Holders
<1>6. Descendants(E, g) = Reached(Reversed(Above), {g.resource})
  BY Topology DEF Descendants
<1> HIDE DEF All, Ids
<1>7. Up \cup Above \in SUBSET [src : Ids, rel : {"MEMBER_OF", "CHILD_OF"}, dst : Ids, role : {"none"}]
  BY <1>2
<1>8. \A u \in Users : u \in Reached(Reversed(Up \cup Above), {g.subject}) <=> g.subject \in Reached(Up, {u})
  <2> DEFINE T == Up \cup Above
  <2> HIDE DEF T
  <2>1. \A x, y : y \in Reached(T, {x}) <=> x \in Reached(Reversed(T), {y})
    BY <1>3, <1>7, ReachedBackwards DEF T
  <2> QED BY <1>4, <2>1 DEF T
<1>9. \A r : r \in Reached(Reversed(Above), {g.resource}) <=> g.resource \in Reached(Above, {r})
  BY <1>2, <1>3, ReachedBackwards
<1>10. Reached(Reversed(Above), {g.resource}) \subseteq Resources
  <2>1. Above \in SUBSET [src : Resources, rel : {"CHILD_OF"}, dst : Resources, role : {"none"}]
    BY Topology
  <2>2. Reversed(Above) \in SUBSET [src : Resources, rel : {"CHILD_OF"}, dst : Resources, role : {"none"}]
        /\ IsFiniteSet(Reversed(Above))
    BY <1>3, <2>1, ReversedTwice
  <2>3. {g.resource} \subseteq Resources /\ \A e \in Reversed(Above) : e.dst \in Resources
    BY <2>2 DEF Grants
  <2> QED BY <2>2, <2>3, ReachedIsLeast
<1> QED BY <1>5, <1>6, <1>8, <1>9, <1>10

(* Both engines compute impact so. *)
LEMMA ImpactIs ==
  ASSUME GraphInv, Served, NEW g \in grants, NEW p \in Permissions
  PROVE  /\ BlastSql(graph, g, p) = Impact(g, p)
         /\ \A d \in Depths : (\A u \in Users, r \in Resources : Fits(u, r, d)) =>
              BlastCypher(graph, g, p, d) = Impact(g, p)
<1> DEFINE less == grants \ {g}
<1>1. grants \in SUBSET Grants /\ less \in SUBSET Grants /\ g \in Grants
  BY DEF GraphInv, GraphTypeOK
<1>2. graph = GraphOf(members, parents, grants)
  BY DEF GraphInv, Copied
<1>3. graph \ {GrantEdge(g)} = GraphOf(members, parents, less)
  BY <1>1, <1>2, GrantEdges DEF GraphOf
<1>4. GrantEdge(g) \in graph
  BY <1>2 DEF GraphOf
<1>5. Granting(graph, p) \ {GrantEdge(g)} = Granting(graph \ {GrantEdge(g)}, p)
  BY DEF Granting
<1>6. /\ SubjectSteps(graph) = Up /\ ResourceSteps(graph) = Above
      /\ Holders(graph, g) = {u \in Users : g.subject \in Reached(Up, {u})}
      /\ Descendants(graph, g) = {r \in Resources : g.resource \in Reached(Above, {r})}
  BY <1>1, <1>2, Topology, Downwards
<1>7. \A u, r : Held(less, u, p, r) <=>
        \E o \in Granting(graph, p) \ {GrantEdge(g)} : o.src \in Reached(Up, {u}) /\ o.dst \in Reached(Above, {r})
  <2> DEFINE G == GraphOf(members, parents, less)
  <2>1. /\ \A e \in Granting(G, p) : \E h \in less : Rank[h.role] >= Needs[p] /\ e.src = h.subject /\ e.dst = h.resource
        /\ \A h \in less : Rank[h.role] >= Needs[p] =>
             \E e \in Granting(G, p) : e.src = h.subject /\ e.dst = h.resource
    <3> HIDE DEF less
    <3> QED BY <1>1, GrantedBy
  <2>2. Granting(G, p) = Granting(graph, p) \ {GrantEdge(g)}
    BY <1>3, <1>5
  <2> HIDE DEF G, less
  <2> QED BY <2>1, <2>2 DEF Held
<1>8. BlastSql(graph, g, p) = Impact(g, p)
  <2>1. BlastSql(graph, g, p) =
          {ur \in Holders(graph, g) \X Descendants(graph, g) :
             ~\E o \in Granting(graph, p) \ {GrantEdge(g)} :
                 o.src \in Reached(Up, {ur[1]}) /\ o.dst \in Reached(Above, {ur[2]})}
    BY <1>4, <1>6 DEF BlastSql
  <2>2. BlastSql(graph, g, p) = {ur \in Holders(graph, g) \X Descendants(graph, g) : ~Held(less, ur[1], p, ur[2])}
    BY <1>7, <2>1
  <2> QED BY <1>6, <2>2 DEF Impact
<1>9. ASSUME NEW d \in Depths, \A u \in Users, r \in Resources : Fits(u, r, d)
      PROVE  BlastCypher(graph, g, p, d) = Impact(g, p)
  <2>1. d \in Nat
    BY DepthAssumption
  <2>2. \A u \in Users, r \in Resources : Short(Up, u, d) /\ Short(Above, r, d)
    BY <1>9, FitsIs
  <2>3. ASSUME NEW u \in Users, NEW r \in Resources
        PROVE  /\ (\E w \in SubjectWalks(graph, u, d) : End(u, w) = g.subject) <=> g.subject \in Reached(Up, {u})
               /\ (\E w \in Walks(Above, r, d) : End(r, w) = g.resource) <=> g.resource \in Reached(Above, {r})
               /\ CheckCypher(graph \ {GrantEdge(g)}, u, p, r, d) <=> Held(less, u, p, r)
    <3>1. SubjectWalks(graph, u, d) = Walks(Up, u, d + 1)
      BY <1>1, <1>2, <2>1, SubjectWalksAre
    <3>2. /\ \A w \in Walks(Up, u, d) : End(u, w) \in Reached(Up, {u})
          /\ \A w \in Walks(Above, r, d) : End(r, w) \in Reached(Above, {r})
      BY <2>1, TopologyFinite, WalksReach
    <3>3. /\ Walks(Up, u, d + 1) = Walks(Up, u, d)
          /\ \A y \in Reached(Up, {u}) : \E w \in Walks(Up, u, d) : y = End(u, w)
      BY <2>1, <2>2, TopologyFinite, ShortWalks
    <3>4. \A y \in Reached(Above, {r}) : \E w \in Walks(Above, r, d) : y = End(r, w)
      BY <2>1, <2>2, TopologyFinite, ShortWalks
    <3>5. CheckCypher(graph \ {GrantEdge(g)}, u, p, r, d) <=> Held(less, u, p, r)
      <4> HIDE DEF less
      <4> QED BY <1>1, <1>3, <2>1, <2>2, CypherAgrees, SMTT(30)
    <3> QED BY <3>1, <3>2, <3>3, <3>4, <3>5, ZenonT(40)
  <2>4. BlastCypher(graph, g, p, d) =
          {ur \in {u \in Users : g.subject \in Reached(Up, {u})} \X {r \in Resources : g.resource \in Reached(Above, {r})} :
             ~Held(less, ur[1], p, ur[2])}
    <3> DEFINE users == {u \in Users : \E w \in SubjectWalks(graph, u, d) : End(u, w) = g.subject}
               under == {r \in Resources : \E w \in Walks(Above, r, d) : End(r, w) = g.resource}
    <3>1. BlastCypher(graph, g, p, d) = {ur \in users \X under : ~CheckCypher(graph \ {GrantEdge(g)}, ur[1], p, ur[2], d)}
      BY <1>4, <1>6 DEF BlastCypher
    <3>2. CASE Users = {} \/ Resources = {}
      BY <3>1, <3>2
    <3>3. CASE Users # {} /\ Resources # {}
      <4>1. users = {u \in Users : g.subject \in Reached(Up, {u})}
        BY <2>3, <3>3
      <4>2. under = {r \in Resources : g.resource \in Reached(Above, {r})}
        BY <2>3, <3>3
      <4> HIDE DEF less
      <4> QED BY <2>3, <3>1, <4>1, <4>2
    <3> QED BY <3>2, <3>3
  <2> QED BY <2>4 DEF Impact
<1> QED BY <1>8, <1>9

(* Of those who have a permission before a revoke, impact lists exactly    *)
(* those whom the revoke takes it from, and nobody else if the role of the *)
(* grant confers it, in both engines within the depth of Neo4j.            *)
THEOREM ImpactTheorem == Spec => ImpactIsLoss
<1> DEFINE Step == \A g \in grants : Revoke(g) => \A p \in Permissions :
             LET impact == BlastSql(graph, g, p)
             IN /\ {ur \in impact : CheckRelational(ur[1], p, ur[2])} = Lost(p)
                /\ p \in PermissionsOf[g.role] => impact = Lost(p)
                /\ \A d \in Depths : (\A u \in Users, r \in Resources : Fits(u, r, d)) =>
                     BlastCypher(graph, g, p, d) = impact
<1>1. GraphInv /\ [Next]_vars => [Step]_vars
  <2> SUFFICES ASSUME GraphInv, NEW g \in grants, Revoke(g), NEW p \in Permissions
               PROVE  /\ {ur \in Impact(g, p) : CheckRelational(ur[1], p, ur[2])} = Lost(p)
                      /\ p \in PermissionsOf[g.role] => Impact(g, p) = Lost(p)
    BY ImpactIs DEF Revoke, Served
  <2>1. grants' = grants \ {g} /\ UNCHANGED <<nodes, members, parents>>
    BY DEF Revoke
  <2>2. grants \in SUBSET Grants /\ grants \ {g} \in SUBSET Grants /\ g.role \in Roles
    BY DEF GraphInv, GraphTypeOK, Grants
  <2>3. ASSUME NEW u \in Users, NEW r \in Resources
        PROVE  CheckRelational(u, p, r)' <=> Held(grants \ {g}, u, p, r)
    <3>1. UserTeams(u)' = UserTeams(u) /\ ResourceChain(r)' = ResourceChain(r)
      BY <2>1 DEF UserTeams, ResourceChain
    <3>2. CheckRelational(u, p, r)' <=>
            \E h \in grants' :
              /\ h.role \in RolesGranting(p)
              /\ h.resource \in ResourceChain(r)'
              /\ h.subject = u \/ h.subject \in UserTeams(u)'
      BY DEF CheckRelational
    <3> QED BY <2>1, <2>2, <3>1, <3>2, RelationalIs
  <2>4. \A u \in Users, r \in Resources : CheckRelational(u, p, r) <=> Held(grants, u, p, r)
    BY HeldIs
  <2>5. \A u, r : Held(grants, u, p, r) /\ ~Held(grants \ {g}, u, p, r) <=>
          /\ Rank[g.role] >= Needs[p] /\ ~Held(grants \ {g}, u, p, r)
          /\ g.subject \in Reached(Up, {u}) /\ g.resource \in Reached(Above, {r})
    BY DEF Held
  <2>6. Lost(p) = {ur \in Users \X Resources : Held(grants, ur[1], p, ur[2]) /\ ~Held(grants \ {g}, ur[1], p, ur[2])}
    BY <2>3, <2>4 DEF Lost
  <2>7. p \in PermissionsOf[g.role] => Rank[g.role] >= Needs[p]
    BY <2>2, Ranks DEF RolesGranting
  <2> QED BY <2>4, <2>5, <2>6, <2>7 DEF Impact
<1>2. ImpactIsLoss <=> [][Step]_vars
  BY DEF ImpactIsLoss
<1> QED BY <1>1, <1>2, GraphInvariance, PTL DEF Spec

-----------------------------------------------------------------------------
(* Explanations.                                                           *)

(* What is where in one. *)
LEMMA ExplanationAt ==
  ASSUME NEW X, NEW a \in Seq(X), NEW e \in X, NEW b \in Seq(X), NEW x, x = Explanation(<<a, e, b>>)
  PROVE  /\ x \in Seq(X) /\ Len(x) = Len(a) + 1 + Len(b)
         /\ \A i \in 1..Len(a) : x[i] = a[i]
         /\ x[Len(a) + 1] = e
         /\ \A j \in 1..Len(b) : x[Len(a) + 1 + j] = b[Len(b) - j + 1]
<1> DEFINE c == S!Reverse(b)
           f == a \o <<e>>
<1>1. c \in Seq(X) /\ Len(c) = Len(b) /\ \A j \in 1..Len(b) : c[j] = b[Len(b) - j + 1]
  <2>1. c = [j \in 1..Len(b) |-> b[(Len(b) - j) + 1]]
    BY DEF S!Reverse
  <2> HIDE DEF c
  <2>2. \A j \in 1..Len(b) : (Len(b) - j) + 1 \in 1..Len(b)
    OBVIOUS
  <2>3. Len(b) \in Nat /\ \A j \in 1..Len(b) : b[(Len(b) - j) + 1] \in X
    BY <2>2
  <2> QED BY <2>1, <2>3
<1>2. f \in Seq(X) /\ Len(f) = Len(a) + 1 /\ f[Len(a) + 1] = e /\ \A i \in 1..Len(a) : f[i] = a[i]
  OBVIOUS
<1>3. x = f \o c
  BY DEF Explanation
<1> HIDE DEF c, f
<1>4. /\ x \in Seq(X) /\ Len(x) = Len(f) + Len(c)
      /\ \A i \in 1..(Len(f) + Len(c)) : x[i] = IF i <= Len(f) THEN f[i] ELSE c[i - Len(f)]
  <2>1. f \in Seq(X) /\ c \in Seq(X)
    BY <1>1, <1>2
  <2> QED BY ONLY <1>3, <2>1, ConcatProperties
<1>5. Len(a) \in Nat /\ Len(b) \in Nat
  OBVIOUS
<1>6. Len(x) = Len(a) + 1 + Len(b)
  BY <1>1, <1>2, <1>4, <1>5
<1>7. \A i \in 1..Len(a) : x[i] = a[i]
  <2>1. \A i \in 1..Len(a) : i \in 1..(Len(f) + Len(c)) /\ i <= Len(f)
    BY <1>1, <1>2, <1>5
  <2> QED BY <1>2, <1>4, <2>1
<1>8. x[Len(a) + 1] = e
  <2>1. Len(a) + 1 \in 1..(Len(f) + Len(c)) /\ Len(a) + 1 <= Len(f)
    BY <1>1, <1>2, <1>5
  <2> QED BY <1>2, <1>4, <2>1
<1>9. ASSUME NEW j \in 1..Len(b) PROVE x[Len(a) + 1 + j] = b[Len(b) - j + 1]
  <2> DEFINE i == Len(a) + 1 + j
  <2>1. i \in 1..(Len(f) + Len(c)) /\ ~(i <= Len(f)) /\ i - Len(f) = j
    BY <1>1, <1>2, <1>5
  <2> HIDE DEF i
  <2>2. x[i] = c[j]
    BY <1>4, <2>1
  <2> QED BY <1>1, <2>2 DEF i
<1> QED BY <1>4, <1>6, <1>7, <1>8, <1>9

(* Up the teams, across a grant, down the resources. *)
LEMMA Readable ==
  ASSUME GraphInv, NEW u \in Users, NEW p \in Permissions, NEW r \in Resources, NEW d \in Nat,
         NEW a \in Walks(Up, u, d), NEW b \in Walks(Above, r, d),
         NEW g \in Grants, g.role \in RolesGranting(p), g.subject = End(u, a), g.resource = End(r, b),
         NEW x, x = Explanation(<<a, GrantEdge(g), b>>)
  PROVE  IsReadable(x, u, p, r)
<1> DEFINE X == Up \cup Above \cup {GrantEdge(g)}
           n == Len(a)
           m == Len(b)
<1>1. /\ a \in Seq(Up) /\ n \in Nat /\ \A i \in 1..n : a[i].src = IF i = 1 THEN u ELSE a[i - 1].dst
      /\ b \in Seq(Above) /\ m \in Nat /\ \A i \in 1..m : b[i].src = IF i = 1 THEN r ELSE b[i - 1].dst
  BY WalksAre
<1>n. n \in Nat /\ m \in Nat
  BY <1>1
<1>2. GrantEdge(g) \in X /\ a \in Seq(X) /\ b \in Seq(X)
  BY <1>1
<1>3. /\ x \in Seq(X) /\ Len(x) = n + 1 + m
      /\ \A i \in 1..n : x[i] = a[i]
      /\ x[n + 1] = GrantEdge(g)
      /\ \A j \in 1..m : x[n + 1 + j] = b[m - j + 1]
  <2> HIDE DEF X
  <2> QED BY <1>2, ExplanationAt, SMTT(30)
<1>4. /\ \A i \in 1..n : a[i].rel # "GRANTED"
      /\ \A i \in 1..m : b[i].rel # "GRANTED"
  <2>1. (\A e \in Up : e.rel # "GRANTED") /\ (\A e \in Above : e.rel # "GRANTED")
    BY Topology
  <2>2. (\A i \in 1..n : a[i] \in Up) /\ (\A i \in 1..m : b[i] \in Above)
    BY <1>1
  <2> QED BY <2>1, <2>2
<1>5. /\ GrantEdge(g).src = End(u, a) /\ GrantEdge(g).dst = End(r, b)
      /\ GrantEdge(g).rel = "GRANTED" /\ GrantEdge(g).role \in RolesGranting(p)
  BY DEF GrantEdge
<1>6. (n = 0 => End(u, a) = u) /\ (n # 0 => End(u, a) = a[n].dst)
  BY <1>1 DEF End
<1>7. (m = 0 => End(r, b) = r) /\ (m # 0 => End(r, b) = b[m].dst)
  BY <1>1 DEF End
<1> DEFINE e == GrantEdge(g)
<1> HIDE DEF X, n, m, e
<1>8. DOMAIN x = 1..(n + 1 + m)
  BY <1>3
(* Which of a, e and b a place of x is in. *)
<1>9. \A i \in 1..(n + 1 + m) :
        \/ i \in 1..n
        \/ i = n + 1
        \/ i > n + 1 /\ i - n - 1 \in 1..m /\ n + 1 + (i - n - 1) = i /\ m - (i - n - 1) + 1 \in 1..m
  BY <1>n
<1>10. \A i \in 1..(n + 1 + m) : i > n + 1 => x[i] = b[m - (i - n - 1) + 1]
  <2> SUFFICES ASSUME NEW i \in 1..(n + 1 + m), i > n + 1 PROVE x[i] = b[m - (i - n - 1) + 1]
    OBVIOUS
  <2>1. i - n - 1 \in 1..m /\ n + 1 + (i - n - 1) = i
    BY <1>n
  <2>2. x[n + 1 + (i - n - 1)] = b[m - (i - n - 1) + 1]
    BY <1>3, <2>1
  <2> QED BY <2>1, <2>2
<1>11. \A i \in 1..(n + 1 + m) : x[i].rel = "GRANTED" <=> i = n + 1
  <2> SUFFICES ASSUME NEW i \in 1..(n + 1 + m) PROVE x[i].rel = "GRANTED" <=> i = n + 1
    OBVIOUS
  <2>1. CASE i \in 1..n
    <3>1. x[i].rel # "GRANTED"
      BY <1>3, <1>4, <2>1
    <3> QED BY <1>n, <2>1, <3>1
  <2>2. CASE i = n + 1
    BY <1>3, <1>5, <2>2
  <2>3. CASE i > n + 1 /\ m - (i - n - 1) + 1 \in 1..m
    <3>1. x[i] = b[m - (i - n - 1) + 1]
      BY <1>10, <2>3
    <3>2. x[i].rel # "GRANTED"
      BY <1>4, <2>3, <3>1
    <3> QED BY <1>n, <2>3, <3>2
  <2> QED BY <1>9, <2>1, <2>2, <2>3
<1> DEFINE at == CHOOSE i \in DOMAIN x : x[i].rel = "GRANTED"
           from(i) == IF i > at THEN x[i].dst ELSE x[i].src
           to(i) == IF i > at THEN x[i].src ELSE x[i].dst
<1>12. at = n + 1
  <2>1. n + 1 \in 1..(n + 1 + m)
    BY <1>1
  <2> QED BY <1>8, <1>11, <2>1
<1> HIDE DEF at
<1>13. x[at].role \in RolesGranting(p)
  BY <1>3, <1>5, <1>12
<1>14. from(1) = u
  <2>1. CASE n = 0
    BY <1>3, <1>5, <1>6, <1>12, <2>1
  <2>2. CASE n # 0
    <3>1. 1 \in 1..n /\ ~(1 > n + 1)
      BY <1>n, <2>2
    <3>2. x[1] = a[1] /\ a[1].src = u
      BY <1>1, <1>3, <3>1
    <3> QED BY <1>12, <3>1, <3>2
  <2> QED BY <2>1, <2>2
<1>15. to(Len(x)) = r
  <2>1. CASE m = 0
    BY <1>1, <1>3, <1>5, <1>7, <1>12, <2>1
  <2>2. CASE m # 0
    <3>1. Len(x) \in 1..(n + 1 + m) /\ Len(x) > n + 1 /\ m - (Len(x) - n - 1) + 1 = 1
      <4>1. Len(x) = n + 1 + m
        BY <1>3
      <4> QED BY <1>n, <2>2, <4>1
    <3>2. x[Len(x)] = b[1]
      BY <1>10, <3>1
    <3>3. b[1].src = r
      BY <1>1, <2>2
    <3> QED BY <1>n, <1>12, <3>1, <3>2, <3>3
  <2> QED BY <2>1, <2>2
<1>16. ASSUME NEW i \in 1..(Len(x) - 1) PROVE to(i) = from(i + 1)
  <2>1. i \in 1..(n + m)
    BY <1>1, <1>3
  <2>2. CASE i < n
    <3>1. i \in 1..n /\ i + 1 \in 1..n /\ i + 1 # 1 /\ (i + 1) - 1 = i
      BY <1>1, <2>1, <2>2
    <3>2. x[i] = a[i] /\ x[i + 1] = a[i + 1] /\ a[i + 1].src = a[i].dst
      BY <1>1, <1>3, <3>1
    <3> QED BY <1>n, <1>12, <2>2, <3>1, <3>2
  <2>3. CASE i = n
    <3>1. n # 0 /\ i \in 1..n
      BY <1>n, <2>1, <2>3
    <3>2. x[i] = a[n] /\ x[i + 1] = GrantEdge(g)
      BY <1>3, <2>3, <3>1
    <3> QED BY <1>n, <1>5, <1>6, <1>12, <2>3, <3>1, <3>2
  <2>4. CASE i = n + 1
    <3>1. i + 1 \in 1..(n + 1 + m) /\ i + 1 > n + 1 /\ m - ((i + 1) - n - 1) + 1 = m /\ m # 0
      BY <1>n, <2>1, <2>4
    <3>2. x[i] = GrantEdge(g) /\ x[i + 1] = b[m]
      BY <1>3, <1>10, <2>4, <3>1
    <3> QED BY <1>n, <1>5, <1>7, <1>12, <2>4, <3>1, <3>2
  <2>5. CASE i > n + 1
    <3> DEFINE k == m - (i - n - 1) + 1
    <3>1. /\ i \in 1..(n + 1 + m) /\ i + 1 \in 1..(n + 1 + m) /\ i + 1 > n + 1
          /\ k \in 1..m /\ k # 1 /\ m - ((i + 1) - n - 1) + 1 = k - 1
      BY <1>n, <2>1, <2>5
    <3>2. x[i] = b[k] /\ x[i + 1] = b[k - 1]
      BY <1>10, <2>5, <3>1
    <3> HIDE DEF k
    <3>3. b[k].src = b[k - 1].dst
      BY <1>1, <3>1
    <3> QED BY <1>n, <1>12, <2>5, <3>1, <3>2, <3>3
  <2> QED BY <1>n, <2>1, <2>2, <2>3, <2>4, <2>5
<1>17. \A i \in DOMAIN x \ {at} : x[i].rel # "GRANTED"
  BY <1>8, <1>11, <1>12
<1> QED BY <1>13, <1>14, <1>15, <1>16, <1>17 DEF IsReadable, at

(* Both engines give the same explanations within the depth, there is one  *)
(* exactly when the check allows, and each reads from the user to the      *)
(* resource; beyond the depth they explain less, Postgres before Neo4j.    *)
THEOREM ExplanationsAgreeTheorem == Spec => []ExplanationsAgree
<1>1. GraphInv => ExplanationsAgree
  <2> SUFFICES ASSUME GraphInv, Served, NEW d \in Depths,
                      NEW u \in Users, NEW p \in Permissions, NEW r \in Resources
               PROVE  LET sql == WhySql(graph, u, p, r, d)
                          cypher == WhyCypher(graph, u, p, r, d)
                          allowed == CheckRelational(u, p, r)
                      IN /\ sql \subseteq cypher
                         /\ cypher # {} => allowed
                         /\ Fits(u, r, d) => sql = cypher /\ (allowed => sql # {})
                         /\ \A x \in cypher : IsReadable(x, u, p, r)
    BY DEF ExplanationsAgree
  <2> DEFINE A(k) == Walks(Up, u, k)
             B == Walks(Above, r, d)
             rows(k) == {w \in A(k) \X Granting(graph, p) \X B : w[2].src = End(u, w[1]) /\ w[2].dst = End(r, w[3])}
  <2>1. /\ d \in Nat /\ d + 1 \in Nat
        /\ grants \in SUBSET Grants /\ graph = GraphOf(members, parents, grants)
    BY DepthAssumption DEF GraphInv, GraphTypeOK, Copied
  <2>2. /\ SubjectSteps(graph) = Up /\ ResourceSteps(graph) = Above
        /\ SubjectWalks(graph, u, d) = A(d + 1)
    BY <2>1, Topology, SubjectWalksAre
  <2>3. WhySql(graph, u, p, r, d) = {Explanation(w) : w \in rows(d)}
    BY <2>2 DEF WhySql
  <2>4. /\ Matches(graph, u, p, r, d) = rows(d + 1)
        /\ WhyCypher(graph, u, p, r, d) = {Explanation(w) : w \in rows(d + 1)}
    BY <2>2 DEF WhyCypher, Matches
  <2>5. rows(d) \subseteq rows(d + 1)
    <3>1. A(d) \subseteq A(d + 1)
      BY <2>1, OneStepMore
    <3> QED BY <3>1
  <2>6. Fits(u, r, d) => A(d + 1) = A(d)
    BY <2>1, FitsIs, TopologyFinite, ShortWalks
  <2>7. CheckCypher(graph, u, p, r, d) <=> rows(d + 1) # {}
    BY <2>4 DEF CheckCypher
  <2>8. rows(d + 1) # {} => CheckRelational(u, p, r)
    BY <2>1, <2>7, CypherAgrees, HeldIs
  <2>9. Fits(u, r, d) /\ CheckRelational(u, p, r) => rows(d + 1) # {}
    BY <2>1, <2>7, CypherAgrees, HeldIs, FitsIs
  <2>10. ASSUME NEW w \in rows(d + 1) PROVE IsReadable(Explanation(w), u, p, r)
    <3>1. /\ w = <<w[1], w[2], w[3]>> /\ w[1] \in A(d + 1) /\ w[3] \in B
          /\ w[2] \in Granting(graph, p) /\ w[2].src = End(u, w[1]) /\ w[2].dst = End(r, w[3])
      BY <2>10
    <3>2. PICK g \in grants : /\ w[2] = GrantEdge(g) /\ g.role \in RolesGranting(p)
                             /\ w[2].src = g.subject /\ w[2].dst = g.resource
      <4>1. PICK g \in grants : /\ w[2] = GrantEdge(g) /\ Rank[g.role] >= Needs[p]
                               /\ w[2].src = g.subject /\ w[2].dst = g.resource
        BY <2>1, <3>1, GrantedBy
      <4> QED BY <2>1, <4>1, Ranks DEF Grants
    <3> DEFINE a == w[1]
               b == w[3]
               x == Explanation(<<a, GrantEdge(g), b>>)
    <3>3. x = Explanation(w)
      BY <3>1, <3>2
    <3>4. b \in Walks(Above, r, d + 1)
      BY <2>1, <3>1, OneStepMore
    <3>5. a \in Walks(Up, u, d + 1) /\ g \in Grants /\ g.subject = End(u, a) /\ g.resource = End(r, b)
      BY <2>1, <3>1, <3>2
    <3> HIDE DEF a, b
    <3>6. IsReadable(x, u, p, r)
      BY <2>1, <3>2, <3>4, <3>5, Readable
    <3> QED BY <3>3, <3>6
  <2> HIDE DEF rows
  <2>11. Fits(u, r, d) => rows(d) = rows(d + 1)
    BY <2>6 DEF rows
  <2> QED BY <2>3, <2>4, <2>5, <2>8, <2>9, <2>10, <2>11
<1> QED BY <1>1, GraphInvariance, PTL

-----------------------------------------------------------------------------
(* Who.                                                                    *)

(* A bijection by its two halves. *)
LEMMA SameSize ==
  ASSUME NEW W, NEW T, IsFiniteSet(W), NEW f \in [W -> T],
         \A v, w \in W : f[v] = f[w] => v = w,
         \A t \in T : \E v \in W : f[v] = t
  PROVE  IsFiniteSet(T) /\ Cardinality(T) = Cardinality(W)
<1>1. f \in Bijection(W, T)
  BY DEF Bijection, Injection, Surjection, IsInjective
<1> QED BY <1>1, FS_Bijection DEF ExistsBijection

(* The rows of why: up to k steps from the user, d from the resource. *)
WhyRows(u, p, r, k, d) ==
  {w \in Walks(Up, u, k) \X Granting(graph, p) \X Walks(Above, r, d) :
     w[2].src = End(u, w[1]) /\ w[2].dst = End(r, w[3])}

(* The ways down from the subjects of the edges in granted that end at u. *)
WaysDown(down, granted, u, d) ==
  {x \in UNION {{<<g, w>> : w \in Walks(down, g.src, d)} : g \in granted} :
     End(x[1].src, x[2]) = u}

(* A row of who: the edge followed and the walk down from its subject. *)
IsWayDown(x, down, granted, u, d) ==
  \E e \in granted : \E v \in Walks(down, e.src, d) : x = <<e, v>> /\ End(e.src, v) = u

(* WaysDown, one row at a time. *)
LEMMA WaysDownAre ==
  ASSUME NEW down, NEW granted, NEW u, NEW d, NEW x
  PROVE  x \in WaysDown(down, granted, u, d) <=> IsWayDown(x, down, granted, u, d)
<1> DEFINE ways(e) == Walks(down, e.src, d)
           pairs(e) == {<<e, v>> : v \in ways(e)}
           T == WaysDown(down, granted, u, d)
<1>1. T = {z \in UNION {pairs(e) : e \in granted} : End(z[1].src, z[2]) = u}
  BY DEF WaysDown
<1> HIDE DEF ways, T
<1>2. x \in T <=> \E e \in granted : x \in pairs(e) /\ End(x[1].src, x[2]) = u
  <2> HIDE DEF pairs
  <2> QED BY <1>1
<1>3. x \in T <=> \E e \in granted : \E v \in ways(e) : x = <<e, v>> /\ End(e.src, v) = u
  BY <1>2
<1> QED BY <1>3 DEF ways, T, IsWayDown

(* The edges that confer p on something that holds r, and the rows of who  *)
(* for one user.                                                           *)
Covering(p, r) == {e \in Granting(graph, p) : e.dst \in Reached(Above, {r})}
WhoRows(u, p, r, d) == WaysDown(Reversed(Up \cup Above), Covering(p, r), u, d)

(* why has finitely many rows. *)
LEMMA RowsFinite ==
  ASSUME GraphInv, Served, NEW u, NEW p, NEW r, NEW k \in Nat, NEW d \in Nat
  PROVE  IsFiniteSet(WhyRows(u, p, r, k, d))
<1> DEFINE A == Walks(Up, u, k)
           B == Walks(Above, r, d)
           G == Granting(graph, p)
<1>1. IsFiniteSet(A) /\ IsFiniteSet(B)
  BY TopologyFinite, WalksFinite
<1>2. IsFiniteSet(G)
  <2> DEFINE gs == {h \in grants : h.role \in RolesGranting(p)}
             f == [g \in gs |-> GrantEdge(g)]
             image == {GrantEdge(g) : g \in gs}
  <2>1. IsFiniteSet(gs)
    BY FS_Subset DEF GraphInv, Finite
  <2>2. f \in Surjection(gs, image)
    BY DEF Surjection
  <2>3. G = image
    BY Granted DEF GraphInv, GraphTypeOK, Copied
  <2> HIDE DEF gs, f, image, G
  <2> QED BY <2>1, <2>2, <2>3, FS_Surjection
<1> DEFINE pair == [w \in WhyRows(u, p, r, k, d) |-> <<<<w[1], w[2]>>, w[3]>>]
<1>3. IsFiniteSet((A \X G) \X B)
  <2> HIDE DEF A, B, G
  <2>1. IsFiniteSet(A \X G)
    BY <1>1, <1>2, FS_Product
  <2> QED BY <1>1, <2>1, FS_Product
<1>4. pair \in Injection(WhyRows(u, p, r, k, d), (A \X G) \X B)
  <2>1. \A w \in WhyRows(u, p, r, k, d) : w = <<w[1], w[2], w[3]>> /\ w[1] \in A /\ w[2] \in G /\ w[3] \in B
    BY DEF WhyRows
  <2> HIDE DEF A, B, G
  <2>2. pair \in [WhyRows(u, p, r, k, d) -> (A \X G) \X B]
    BY <2>1
  <2>3. ASSUME NEW v \in WhyRows(u, p, r, k, d), NEW w \in WhyRows(u, p, r, k, d), pair[v] = pair[w]
        PROVE  v = w
    <3>1. v[1] = w[1] /\ v[2] = w[2] /\ v[3] = w[3]
      BY <2>3
    <3> QED BY <2>1, <3>1, Zenon
  <2> QED BY <2>2, <2>3 DEF Injection, IsInjective
<1> HIDE DEF pair, A, B, G
<1> QED BY <1>3, <1>4, FS_Injection

(* No two rows make the same explanation: the grant is the one step of that *)
(* kind, so it shows where each row has its parts.                          *)
LEMMA ExplainedOnce ==
  ASSUME GraphInv, Served, NEW u, NEW p, NEW r, NEW k \in Nat, NEW d \in Nat
  PROVE  Cardinality({Explanation(w) : w \in WhyRows(u, p, r, k, d)}) = Cardinality(WhyRows(u, p, r, k, d))
<1> DEFINE R == WhyRows(u, p, r, k, d)
           T == {Explanation(w) : w \in R}
           X == Up \cup Above \cup Granting(graph, p)
           f == [w \in R |-> Explanation(w)]
<1>1. ASSUME NEW w \in R
      PROVE  /\ w = <<w[1], w[2], w[3]>>
             /\ w[1] \in Seq(X) /\ w[2] \in X /\ w[3] \in Seq(X)
             /\ w[2].rel = "GRANTED"
             /\ \A i \in 1..Len(w[1]) : w[1][i].rel # "GRANTED"
  <2>1. w = <<w[1], w[2], w[3]>> /\ w[1] \in Walks(Up, u, k) /\ w[2] \in Granting(graph, p) /\ w[3] \in Walks(Above, r, d)
    BY <1>1 DEF WhyRows
  <2>2. w[1] \in Seq(Up) /\ w[3] \in Seq(Above)
    BY <2>1, WalksByRound
  <2>3. \A e \in Up : e.rel # "GRANTED"
    BY Topology
  <2>4. \A i \in 1..Len(w[1]) : w[1][i].rel # "GRANTED"
    <3> DEFINE a == w[1]
    <3> HIDE DEF a
    <3>1. a \in Seq(Up)
      BY <2>2 DEF a
    <3>2. \A i \in 1..Len(a) : a[i].rel # "GRANTED"
      BY <2>3, <3>1
    <3> QED BY <3>2 DEF a
  <2>5. w[2].rel = "GRANTED"
    BY <2>1 DEF Granting
  <2>6. w[1] \in Seq(X) /\ w[2] \in X /\ w[3] \in Seq(X)
    BY <2>1, <2>2
  <2> QED BY <2>1, <2>4, <2>5, <2>6
<1> HIDE DEF R, X
<1>2. ASSUME NEW v \in R, NEW w \in R, NEW x, x = Explanation(v), x = Explanation(w) PROVE v = w
  <2> DEFINE a == v[1]
             e == v[2]
             b == v[3]
             aa == w[1]
             ee == w[2]
             bb == w[3]
  <2>1. /\ a \in Seq(X) /\ e \in X /\ b \in Seq(X) /\ x = Explanation(<<a, e, b>>)
        /\ e.rel = "GRANTED" /\ \A i \in 1..Len(a) : a[i].rel # "GRANTED"
    BY <1>1, <1>2
  <2>2. /\ aa \in Seq(X) /\ ee \in X /\ bb \in Seq(X) /\ x = Explanation(<<aa, ee, bb>>)
        /\ ee.rel = "GRANTED" /\ \A i \in 1..Len(aa) : aa[i].rel # "GRANTED"
    BY <1>1, <1>2
  <2>3. SUFFICES a = aa /\ e = ee /\ b = bb
    BY <1>1, Zenon
  <2> HIDE DEF a, e, b, aa, ee, bb
  <2>4. /\ Len(x) = Len(a) + 1 + Len(b)
        /\ \A i \in 1..Len(a) : x[i] = a[i]
        /\ x[Len(a) + 1] = e
        /\ \A j \in 1..Len(b) : x[Len(a) + 1 + j] = b[Len(b) - j + 1]
    BY <2>1, ExplanationAt, SMTT(30)
  <2>5. /\ Len(x) = Len(aa) + 1 + Len(bb)
        /\ \A i \in 1..Len(aa) : x[i] = aa[i]
        /\ x[Len(aa) + 1] = ee
        /\ \A j \in 1..Len(bb) : x[Len(aa) + 1 + j] = bb[Len(bb) - j + 1]
    BY <2>2, ExplanationAt, SMTT(30)
  <2> DEFINE n == Len(a)
             nn == Len(aa)
             m == Len(b)
             mm == Len(bb)
  <2>6. n \in Nat /\ nn \in Nat /\ m \in Nat /\ mm \in Nat
    BY <2>1, <2>2
  <2>7. ~(n < nn)
    <3> SUFFICES ASSUME n < nn PROVE FALSE
      OBVIOUS
    <3>1. n + 1 \in 1..nn
      BY <2>6
    <3> QED BY <2>1, <2>2, <2>4, <2>5, <3>1
  <2>8. ~(nn < n)
    <3> SUFFICES ASSUME nn < n PROVE FALSE
      OBVIOUS
    <3>1. nn + 1 \in 1..n
      BY <2>6
    <3> QED BY <2>1, <2>2, <2>4, <2>5, <3>1
  <2>9. n = nn /\ m = mm
    BY <2>4, <2>5, <2>6, <2>7, <2>8
  <2>10. \A j \in 1..m : b[j] = bb[j]
    <3> SUFFICES ASSUME NEW j \in 1..m PROVE b[j] = bb[j]
      OBVIOUS
    <3> DEFINE i == m - j + 1
    <3>1. i \in 1..m /\ m - i + 1 = j
      BY <2>6
    <3> HIDE DEF i
    <3>2. x[n + 1 + i] = b[m - i + 1] /\ x[n + 1 + i] = bb[m - i + 1]
      BY <2>4, <2>5, <2>9, <3>1
    <3> QED BY <3>1, <3>2
  <2>11. a = aa
    <3>1. \A i \in 1..Len(a) : a[i] = aa[i]
      BY <2>4, <2>5, <2>9
    <3> QED BY <2>1, <2>2, <2>9, <3>1, SeqEqual
  <2>12. b = bb
    BY <2>1, <2>2, <2>9, <2>10, SeqEqual
  <2> QED BY <2>4, <2>5, <2>9, <2>11, <2>12
<1>3. f \in [R -> T] /\ (\A v, w \in R : f[v] = f[w] => v = w) /\ \A t \in T : \E v \in R : f[v] = t
  BY <1>2
<1>4. IsFiniteSet(R)
  BY RowsFinite DEF R
<1> HIDE DEF f, T
<1>5. Cardinality(T) = Cardinality(R)
  BY <1>3, <1>4, SameSize
<1> QED BY <1>5 DEF T, R

(* From a user nothing but memberships and teams is walked. *)
LEMMA StaysBelow ==
  ASSUME GraphInv, NEW u \in Users, NEW d \in Nat, NEW w \in Walks(Up \cup Above, u, d)
  PROVE  w \in Walks(Up, u, d)
<1> DEFINE n == Len(w)
           I == {i \in Nat : i \in 1..n => w[i] \in Up}
<1>1. /\ w \in Seq(Up \cup Above) /\ n <= d
      /\ \A i \in 1..n : w[i].src = IF i = 1 THEN u ELSE w[i - 1].dst
  BY WalksAre
<1>n. n \in Nat
  BY <1>1
<1>2. \A i \in 1..n : w[i] \in Up \/ w[i] \in Above
  BY <1>1
<1>3. /\ \A e \in Above : e.src \in Resources
      /\ \A e \in Up : e.dst \in Teams
  BY Topology
<1> HIDE DEF n
<1>4. 0 \in I
  OBVIOUS
<1>5. ASSUME NEW i \in Nat, i \in I PROVE i + 1 \in I
  <2> SUFFICES ASSUME i + 1 \in 1..n PROVE w[i + 1] \in Up
    OBVIOUS
  <2>1. w[i + 1].src \notin Resources
    <3>1. CASE i = 0
      BY <1>1, <3>1, IdsAssumption
    <3>2. CASE i # 0
      <4>1. i \in 1..n /\ (i + 1) - 1 = i /\ i + 1 # 1
        BY <1>n, <3>2
      <4> QED BY <1>1, <1>3, <1>5, <4>1, IdsAssumption
    <3> QED BY <3>1, <3>2
  <2> QED BY <1>2, <1>3, <2>1
<1> HIDE DEF I
<1>6. \A i \in Nat : i \in I
  BY <1>4, <1>5, Induction
<1>7. \A i \in 1..n : w[i] \in Up
  BY <1>6 DEF I
<1>8. w \in Seq(Up)
  <2>1. w \in [1..n -> Up]
    BY <1>1, <1>7 DEF n
  <2> QED BY <1>n, <2>1
<1> QED BY <1>1, <1>8, WalksAre DEF n

(* There is one way at most from a resource to what it is inside. *)
LEMMA OneWayUp ==
  ASSUME GraphInv, NEW r, NEW d \in Nat,
         NEW a \in Walks(Above, r, d), NEW b \in Walks(Above, r, d), End(r, a) = End(r, b)
  PROVE  a = b
<1>1. PICK rank \in [nodes -> Nat] : \A s \in parents : rank[s.dst] < rank[s.src]
  BY DEF GraphInv, Forest
<1>2. \A e \in Above : \E s \in parents : e = Edge("CHILD_OF", s) /\ e.src = s.src /\ e.dst = s.dst
  BY DEF Above, Edge
<1>3. \A e \in Above : e.src \in nodes /\ e.dst \in nodes /\ rank[e.dst] < rank[e.src]
  BY <1>1, <1>2 DEF GraphInv, Rows
<1>4. \A e, f \in Above : e.src = f.src => e = f
  BY <1>2 DEF GraphInv, Forest
<1>5. Len(a) \in Nat /\ Len(b) \in Nat
  <2>1. a \in Seq(Above) /\ b \in Seq(Above)
    BY WalksByRound
  <2> QED BY <2>1
<1>6. CASE Len(a) <= Len(b)
  BY <1>3, <1>4, <1>6, OneWay
<1>7. CASE Len(b) <= Len(a)
  <2>1. End(r, b) = End(r, a)
    OBVIOUS
  <2>2. b = a
    BY <1>3, <1>4, <1>7, <2>1, OneWay
  <2> QED BY <2>2
<1> QED BY <1>5, <1>6, <1>7

(* A way down to a user is a way up from the user, walked backwards. *)
LEMMA UpAndDown ==
  ASSUME GraphInv, NEW u \in Users, NEW d \in Nat, NEW y
  PROVE  /\ \A a \in Walks(Up, u, d) : y = End(u, a) =>
              /\ Back(a) \in Walks(Reversed(Up \cup Above), y, d)
              /\ End(y, Back(a)) = u /\ Back(Back(a)) = a
         /\ \A v \in Walks(Reversed(Up \cup Above), y, d) : u = End(y, v) =>
              /\ Back(v) \in Walks(Up, u, d)
              /\ End(u, Back(v)) = y /\ Back(Back(v)) = v
<1> DEFINE T == Up \cup Above
<1>1. Turnable(T) /\ Turnable(Reversed(T)) /\ Reversed(Reversed(T)) = T
  <2> DEFINE Ids == Users \cup Teams \cup Resources
             kinds == {"MEMBER_OF", "CHILD_OF"}
             none == {"none"}
  <2>1. /\ Up \in SUBSET [src : Ids, rel : kinds, dst : Ids, role : none]
        /\ Above \in SUBSET [src : Ids, rel : kinds, dst : Ids, role : none]
    BY Topology
  <2> HIDE DEF Ids, kinds, none
  <2>2. T \in SUBSET [src : Ids, rel : kinds, dst : Ids, role : none]
    BY <2>1
  <2> HIDE DEF T
  <2> QED BY <2>2, StepsTurn, ReversedTwice
<1>2. Walks(Up, u, d) \subseteq Walks(T, u, d)
  BY WalksGrow
<1>3. \A w \in Walks(T, u, d) : w \in Walks(Up, u, d)
  BY StaysBelow
<1> HIDE DEF T
<1>5. ASSUME NEW a \in Walks(Up, u, d), y = End(u, a)
      PROVE  Back(a) \in Walks(Reversed(T), y, d) /\ End(y, Back(a)) = u /\ Back(Back(a)) = a
  <2>1. a \in Walks(T, u, d)
    BY <1>2
  <2> QED BY <1>1, <1>5, <2>1, WalkBack
<1>6. ASSUME NEW v \in Walks(Reversed(T), y, d), u = End(y, v)
      PROVE  Back(v) \in Walks(Up, u, d) /\ End(u, Back(v)) = y /\ Back(Back(v)) = v
  <2>1. Back(v) \in Walks(Reversed(Reversed(T)), u, d) /\ End(u, Back(v)) = y /\ Back(Back(v)) = v
    BY <1>1, <1>6, WalkBack
  <2> QED BY <1>1, <1>3, <2>1
<1> QED BY <1>5, <1>6 DEF T

(* A row of why and the row of who for its grant and its way up: within the *)
(* depth there are as many of the ones as of the others.                    *)
LEMMA AsManyWays ==
  ASSUME GraphInv, Served, NEW u \in Users, NEW p, NEW r, NEW d \in Nat, Short(Above, r, d)
  PROVE  Cardinality(WhoRows(u, p, r, d)) = Cardinality(WhyRows(u, p, r, d, d))
         /\ (WhoRows(u, p, r, d) = {} <=> WhyRows(u, p, r, d, d) = {})
<1> DEFINE R == WhyRows(u, p, r, d, d)
           T == WhoRows(u, p, r, d)
           f == [w \in R |-> <<w[2], Back(w[1])>>]
<1>1. ASSUME NEW w \in R
      PROVE  /\ w = <<w[1], w[2], w[3]>>
             /\ w[1] \in Walks(Up, u, d) /\ w[2] \in Granting(graph, p) /\ w[3] \in Walks(Above, r, d)
             /\ w[2].src = End(u, w[1]) /\ w[2].dst = End(r, w[3])
  BY <1>1 DEF WhyRows
<1>2. \A x : x \in T <=> IsWayDown(x, Reversed(Up \cup Above), Covering(p, r), u, d)
  BY WaysDownAre DEF WhoRows
<1> HIDE DEF R, T
<1>3. IsFiniteSet(Above)
  BY TopologyFinite
<1>w. /\ \A y : \A a \in Walks(Up, u, d) : y = End(u, a) =>
            /\ Back(a) \in Walks(Reversed(Up \cup Above), y, d)
            /\ End(y, Back(a)) = u /\ Back(Back(a)) = a
      /\ \A y : \A v \in Walks(Reversed(Up \cup Above), y, d) : u = End(y, v) =>
            /\ Back(v) \in Walks(Up, u, d)
            /\ End(u, Back(v)) = y /\ Back(Back(v)) = v
  <2>1. ASSUME NEW y
        PROVE  /\ \A a \in Walks(Up, u, d) : y = End(u, a) =>
                    /\ Back(a) \in Walks(Reversed(Up \cup Above), y, d)
                    /\ End(y, Back(a)) = u /\ Back(Back(a)) = a
               /\ \A v \in Walks(Reversed(Up \cup Above), y, d) : u = End(y, v) =>
                    /\ Back(v) \in Walks(Up, u, d)
                    /\ End(u, Back(v)) = y /\ Back(Back(v)) = v
    BY UpAndDown
  <2> QED BY <2>1
<1>4. ASSUME NEW w \in R PROVE f[w] \in T
  <2>1. w[2].dst \in Reached(Above, {r})
    BY <1>1, <1>3, WalksReach
  <2>2. Back(w[1]) \in Walks(Reversed(Up \cup Above), w[2].src, d) /\ End(w[2].src, Back(w[1])) = u
    BY <1>1, <1>w
  <2> QED BY <1>1, <1>2, <2>1, <2>2 DEF IsWayDown, Covering
<1>5. ASSUME NEW v \in R, NEW w \in R, f[v] = f[w] PROVE v = w
  <2>1. v[2] = w[2] /\ Back(v[1]) = Back(w[1])
    BY <1>5
  <2>2. Back(Back(v[1])) = v[1] /\ Back(Back(w[1])) = w[1]
    BY <1>1, <1>w
  <2>3. v[1] = w[1]
    BY <2>1, <2>2
  <2>4. v[3] = w[3]
    BY <1>1, <2>1, OneWayUp
  <2> QED BY <1>1, <2>1, <2>3, <2>4, Zenon
<1>6. ASSUME NEW t \in T PROVE \E w \in R : f[w] = t
  <2>1. PICK e \in Covering(p, r) : \E v \in Walks(Reversed(Up \cup Above), e.src, d) :
                                      t = <<e, v>> /\ End(e.src, v) = u
    BY <1>2 DEF IsWayDown
  <2>2. PICK v \in Walks(Reversed(Up \cup Above), e.src, d) : t = <<e, v>> /\ End(e.src, v) = u
    BY <2>1
  <2>3. Back(v) \in Walks(Up, u, d) /\ End(u, Back(v)) = e.src /\ Back(Back(v)) = v
    BY <2>2, <1>w
  <2>4. PICK b \in Walks(Above, r, d) : e.dst = End(r, b)
    BY <1>3, <2>1, ShortWalks DEF Covering
  <2> DEFINE w == <<Back(v), e, b>>
  <2>5. w \in R
    BY <2>3, <2>4 DEF R, WhyRows, Covering
  <2>6. f[w] = t
    BY <2>2, <2>3, <2>5
  <2> HIDE DEF w, f
  <2> QED BY <2>5, <2>6
<1>7. f \in [R -> T]
  BY <1>4
<1>8. IsFiniteSet(R)
  BY RowsFinite DEF R
<1> HIDE DEF f
<1>9. Cardinality(T) = Cardinality(R)
  BY <1>5, <1>6, <1>7, <1>8, SameSize
<1>10. T = {} <=> R = {}
  BY <1>6, <1>7
<1> QED BY <1>9, <1>10 DEF R, T

(* What the engines answer, in rows. *)
AnswersInRows(p, r, d) ==
  /\ \A u : WhySql(graph, u, p, r, d) = {Explanation(w) : w \in WhyRows(u, p, r, d, d)}
  /\ \A u \in Users : Matches(graph, u, p, r, d) = WhyRows(u, p, r, d + 1, d)
  /\ WhoSql(graph, p, r, d) =
       {[user |-> u, paths |-> Cardinality(WhoRows(u, p, r, d))] : u \in {v \in Users : WhoRows(v, p, r, d) # {}}}

(* They do. *)
LEMMA AnswersAre ==
  ASSUME GraphInv, Served, NEW p, NEW r, NEW d \in Nat
  PROVE  AnswersInRows(p, r, d)
<1>1. grants \in SUBSET Grants /\ graph = GraphOf(members, parents, grants)
  BY DEF GraphInv, GraphTypeOK, Copied
<1>2. SubjectSteps(graph) = Up /\ ResourceSteps(graph) = Above
  BY <1>1, Topology
<1>3. \A u \in Users : SubjectWalks(graph, u, d) = Walks(Up, u, d + 1)
  BY <1>1, SubjectWalksAre
<1>4. {e \in graph : e.rel \in {"MEMBER_OF", "CHILD_OF"}} = Up \cup Above
  BY <1>1, Hierarchy
<1>5. \A u : WhySql(graph, u, p, r, d) = {Explanation(w) : w \in WhyRows(u, p, r, d, d)}
  BY <1>2 DEF WhySql, WhyRows
<1>6. \A u \in Users : Matches(graph, u, p, r, d) = WhyRows(u, p, r, d + 1, d)
  BY <1>2, <1>3 DEF Matches, WhyRows
<1>7. WhoSql(graph, p, r, d) =
        {[user |-> u, paths |-> Cardinality(WhoRows(u, p, r, d))] : u \in {v \in Users : WhoRows(v, p, r, d) # {}}}
  <2> DEFINE down == Reversed({e \in graph : e.rel \in {"MEMBER_OF", "CHILD_OF"}})
             granted == {e \in Granting(graph, p) : e.dst \in Reached(ResourceSteps(graph), {r})}
  <2>1. WhoSql(graph, p, r, d) =
          {[user |-> u, paths |-> Cardinality(WaysDown(down, granted, u, d))] :
             u \in {v \in Users : WaysDown(down, granted, v, d) # {}}}
    BY DEF WhoSql, WaysDown
  <2>2. down = Reversed(Up \cup Above) /\ granted = Covering(p, r)
    BY <1>2, <1>4 DEF Covering
  <2> HIDE DEF down, granted
  <2> QED BY <2>1, <2>2 DEF WhoRows
<1> QED BY <1>5, <1>6, <1>7 DEF AnswersInRows

(* The traversal that runs backwards finds whom the forward one finds, and *)
(* counts as many paths as there are explanations, in both engines; beyond *)
(* their depth neither names a user whom the check denies.                 *)
THEOREM WhoTheorem == Spec => []WhoMatchesWhy
<1>1. GraphInv => WhoMatchesWhy
  <2> SUFFICES ASSUME GraphInv, Served, NEW d \in Depths, NEW p \in Permissions, NEW r \in Resources
               PROVE  LET near == {u \in Users : Fits(u, r, d)}
                          may == {u \in Users : CheckRelational(u, p, r)}
                          who == {[user |-> u, paths |-> Cardinality(WhySql(graph, u, p, r, d))] : u \in near \cap may}
                      IN \A answer \in {WhoSql(graph, p, r, d), WhoCypher(graph, p, r, d)} :
                           /\ {x \in answer : x.user \in near} = who
                           /\ {x.user : x \in answer} \subseteq may
    BY DEF WhoMatchesWhy
  <2> DEFINE near == {u \in Users : Fits(u, r, d)}
             may == {u \in Users : CheckRelational(u, p, r)}
             why(u) == Cardinality(WhySql(graph, u, p, r, d))
             who == {[user |-> u, paths |-> why(u)] : u \in near \cap may}
  <2>1. d \in Nat /\ d + 1 \in Nat /\ grants \in SUBSET Grants /\ graph = GraphOf(members, parents, grants)
    BY DepthAssumption DEF GraphInv, GraphTypeOK, Copied
  <2>b. AnswersInRows(p, r, d)
    BY <2>1, AnswersAre
  <2>a. /\ \A u : WhySql(graph, u, p, r, d) = {Explanation(w) : w \in WhyRows(u, p, r, d, d)}
        /\ \A u \in Users : Matches(graph, u, p, r, d) = WhyRows(u, p, r, d + 1, d)
        /\ WhoSql(graph, p, r, d) =
             {[user |-> u, paths |-> Cardinality(WhoRows(u, p, r, d))] : u \in {v \in Users : WhoRows(v, p, r, d) # {}}}
    BY <2>b DEF AnswersInRows
  <2>3. ASSUME NEW u \in Users
        PROVE  /\ WhoRows(u, p, r, d) # {} => u \in may
               /\ CheckCypher(graph, u, p, r, d) => u \in may
    <3>1. CheckCypher(graph, u, p, r, d) => u \in may
      BY <2>1, CypherAgrees, HeldIs
    <3>2. ASSUME NEW x \in WhoRows(u, p, r, d) PROVE u \in may
      <4>1. IsWayDown(x, Reversed(Up \cup Above), Covering(p, r), u, d)
        BY <3>2, WaysDownAre DEF WhoRows
      <4>2. PICK e \in Covering(p, r) : \E v \in Walks(Reversed(Up \cup Above), e.src, d) : u = End(e.src, v)
        BY <4>1 DEF IsWayDown
      <4>2a. PICK a \in Walks(Up, u, d) : End(u, a) = e.src
        <5> DEFINE y == e.src
        <5> HIDE DEF y
        <5>1. PICK v \in Walks(Reversed(Up \cup Above), y, d) : u = End(y, v)
          BY <4>2 DEF y
        <5>2. \A w \in Walks(Reversed(Up \cup Above), y, d) : u = End(y, w) =>
                /\ Back(w) \in Walks(Up, u, d)
                /\ End(u, Back(w)) = y /\ Back(Back(w)) = w
          BY <2>1, UpAndDown
        <5> QED BY <5>1, <5>2 DEF y
      <4>3. e.src \in Reached(Up, {u})
        BY <2>1, <4>2a, TopologyFinite, WalksReach
      <4>4. PICK g \in grants : Rank[g.role] >= Needs[p] /\ e.src = g.subject /\ e.dst = g.resource
        BY <2>1, <4>2, GrantedBy DEF Covering
      <4> QED BY <4>2, <4>3, <4>4, HeldIs DEF Held, Covering
    <3> QED BY <3>1, <3>2
  <2>4. ASSUME NEW u \in near
        PROVE  /\ WhyRows(u, p, r, d + 1, d) = WhyRows(u, p, r, d, d)
               /\ why(u) = Cardinality(WhyRows(u, p, r, d, d))
               /\ Cardinality(WhoRows(u, p, r, d)) = why(u)
               /\ WhoRows(u, p, r, d) # {} <=> CheckCypher(graph, u, p, r, d)
               /\ u \in may <=> CheckCypher(graph, u, p, r, d)
    <3>1. u \in Users /\ Short(Up, u, d) /\ Short(Above, r, d)
      BY FitsIs
    <3>2. WhyRows(u, p, r, d + 1, d) = WhyRows(u, p, r, d, d)
      <4>1. Walks(Up, u, d + 1) = Walks(Up, u, d)
        BY <2>1, <3>1, TopologyFinite, ShortWalks
      <4> QED BY <4>1 DEF WhyRows
    <3>3. why(u) = Cardinality(WhyRows(u, p, r, d, d))
      BY <2>1, <2>a, ExplainedOnce
    <3>4. /\ Cardinality(WhoRows(u, p, r, d)) = Cardinality(WhyRows(u, p, r, d, d))
          /\ WhoRows(u, p, r, d) = {} <=> WhyRows(u, p, r, d, d) = {}
      BY <2>1, <3>1, AsManyWays
    <3>5. CheckCypher(graph, u, p, r, d) <=> WhyRows(u, p, r, d, d) # {}
      BY <2>a, <3>1, <3>2 DEF CheckCypher
    <3>6. u \in may <=> CheckCypher(graph, u, p, r, d)
      BY <2>1, <3>1, CypherAgrees, HeldIs
    <3> QED BY <3>2, <3>3, <3>4, <3>5, <3>6
  <2> HIDE DEF near, may, why
  (* An answer is right if it has a row for those and only those, with that count. *)
  <2>2. \A named, count, answer :
          /\ named \subseteq may
          /\ \A u \in near : u \in named <=> u \in may
          /\ \A u \in near : u \in may => count[u] = why(u)
          /\ answer = {[user |-> u, paths |-> count[u]] : u \in named}
          => {x \in answer : x.user \in near} = who /\ {x.user : x \in answer} \subseteq may
    <3> SUFFICES ASSUME NEW named, NEW count, NEW answer,
                        named \subseteq may,
                        \A u \in near : u \in named <=> u \in may,
                        \A u \in near : u \in may => count[u] = why(u),
                        answer = {[user |-> u, paths |-> count[u]] : u \in named}
                 PROVE  {x \in answer : x.user \in near} = who /\ {x.user : x \in answer} \subseteq may
      OBVIOUS
    <3>1. \A u : [user |-> u, paths |-> count[u]].user = u
      OBVIOUS
    <3>2. {x \in answer : x.user \in near} \subseteq who
      <4> SUFFICES ASSUME NEW u \in named, u \in near PROVE [user |-> u, paths |-> count[u]] \in who
        OBVIOUS
      <4> QED OBVIOUS
    <3>3. who \subseteq {x \in answer : x.user \in near}
      <4> SUFFICES ASSUME NEW u \in near \cap may
                   PROVE  [user |-> u, paths |-> why(u)] \in answer
        OBVIOUS
      <4> QED OBVIOUS
    <3>4. {x.user : x \in answer} \subseteq may
      OBVIOUS
    <3> QED BY <3>2, <3>3, <3>4
  <2>5. /\ {x \in WhoSql(graph, p, r, d) : x.user \in near} = who
        /\ {x.user : x \in WhoSql(graph, p, r, d)} \subseteq may
    <3> DEFINE named == {u \in Users : WhoRows(u, p, r, d) # {}}
               count == [u \in Users |-> Cardinality(WhoRows(u, p, r, d))]
    <3>1. /\ named \subseteq may
          /\ \A u \in near : u \in named <=> u \in may
          /\ \A u \in near : u \in may => count[u] = why(u)
      BY <2>3, <2>4 DEF near
    <3>2. WhoSql(graph, p, r, d) = {[user |-> u, paths |-> count[u]] : u \in named}
      BY <2>a
    <3> HIDE DEF named, count, who
    <3> QED BY <2>2, <3>1, <3>2, ZenonT(30)
  <2>6. /\ {x \in WhoCypher(graph, p, r, d) : x.user \in near} = who
        /\ {x.user : x \in WhoCypher(graph, p, r, d)} \subseteq may
    <3> DEFINE named == {u \in Users : CheckCypher(graph, u, p, r, d)}
               count == [u \in Users |-> Cardinality(Matches(graph, u, p, r, d))]
    <3>1. \A u \in near : count[u] = Cardinality(WhyRows(u, p, r, d, d))
      BY <2>a, <2>4 DEF near
    <3>2. /\ named \subseteq may
          /\ \A u \in near : u \in named <=> u \in may
          /\ \A u \in near : u \in may => count[u] = why(u)
      BY <2>3, <2>4, <3>1 DEF near
    <3>3. WhoCypher(graph, p, r, d) = {[user |-> u, paths |-> count[u]] : u \in named}
      BY DEF WhoCypher
    <3> HIDE DEF named, count, who
    <3> QED BY <2>2, <3>2, <3>3, ZenonT(30)
  <2> QED BY <2>5, <2>6 DEF near, may, why
<1> QED BY <1>1, GraphInvariance, PTL
=============================================================================
