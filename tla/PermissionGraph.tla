--------------------------- MODULE PermissionGraph ---------------------------
(***************************************************************************)
(* The questions about reachability, and what answers them: the normalized *)
(* tables (PostgresReachability), the property graph in Postgres           *)
(* (PgKgQueries) and Neo4j (Neo4jQueries, and Neo4jReachability for check  *)
(* alone). Both graphs hold the same edges, as the benchmark makes them,   *)
(* so one variable stands for the two; how far Neo4j lags is the matter of *)
(* Projections.                                                            *)
(*                                                                         *)
(* The tables are filled by the seed, the graph is rebuilt from them once  *)
(* per boot, and after that only grants and revokes change both. A write   *)
(* is one step: that its statements are atomic is GrantWrites' theorem.    *)
(***************************************************************************)
EXTENDS Naturals, Sequences, FiniteSets

CONSTANTS
  Users, Teams, Resources,  \* identifiers, the subjects and resources there can be
  Depths,                   \* values of maxDepth to build the engines with
  MaxGrants                 \* bound: grants held at the same time

ASSUME IdsAssumption ==
  /\ Users \cap Teams = {} /\ Users \cap Resources = {} /\ Teams \cap Resources = {}

ASSUME DepthAssumption == Depths \subseteq Nat /\ MaxGrants \in Nat

VARIABLES
  phase,    \* bootstrap running, the API serving, or bootstrap ended with an error
  nodes,    \* rows of users, teams and resources
  members,  \* rows of memberships: [src, dst], a user and a team
  parents,  \* parent_id of teams and resources: [src, dst]
  grants,   \* rows of grants: [subject, role, resource]
  graph     \* kg_edges: [src, rel, dst, role]

vars == <<phase, nodes, members, parents, grants, graph>>

S == INSTANCE SequencesExt

-----------------------------------------------------------------------------
(* roles.ts *)
Permissions == {"read", "write", "delete", "grant"}
Roles == {"viewer", "editor", "owner"}

RoleParent == [editor |-> "viewer", owner |-> "editor"]
RoleAdds == [viewer |-> {"read"}, editor |-> {"write"}, owner |-> {"delete", "grant"}]

(* Wrong variant: a role is only what it adds. *)
PermissionsOfAlone == RoleAdds

PermissionsOf == LET of[r \in Roles] ==
                       RoleAdds[r] \cup (IF r = "viewer" THEN {} ELSE of[RoleParent[r]])
                 IN of

RolesGranting(p) == {r \in Roles : p \in PermissionsOf[r]}

-----------------------------------------------------------------------------
(* Walking. A step is a record with src and dst. *)

(* WITH RECURSIVE ... UNION: everything reached from the set from. *)
Reached(steps, from) ==
  LET reached[n \in Nat] ==
        IF n = 0 THEN from
        ELSE LET before == reached[n - 1]
             IN before \cup {e.dst : e \in {s \in steps : s.src \in before}}
  IN reached[Cardinality(steps)]

Reversed(steps) == {[e EXCEPT !.src = e.dst, !.dst = e.src] : e \in steps}

End(x, walk) == IF walk = <<>> THEN x ELSE walk[Len(walk)].dst

(* WITH RECURSIVE ... UNION ALL with a depth, and Cypher's *0..d: every    *)
(* walk of at most d steps from x.                                         *)
Walks(steps, x, d) ==
  LET walks[n \in Nat] ==
        IF n = 0 THEN {<<>>}
        ELSE LET before == walks[n - 1]
             IN before \cup {Append(we[1], we[2]) :
                  we \in {p \in before \X steps : p[2].src = End(x, p[1])}}
  IN walks[d]

SubjectSteps(E) == {e \in E : e.rel \in {"MEMBER_OF", "CHILD_OF"} /\ e.dst \in Teams}
ResourceSteps(E) == {e \in E : e.rel = "CHILD_OF" /\ e.dst \in Resources}
Granting(E, p) == {e \in E : e.rel = "GRANTED" /\ e.role \in RolesGranting(p)}

-----------------------------------------------------------------------------
(* PostgresReachability: over the tables. *)
UserTeams(u) ==
  Reached({s \in parents : s.dst \in Teams}, {m.dst : m \in {x \in members : x.src = u}})

ResourceChain(r) == Reached({s \in parents : s.dst \in Resources}, {r})

CheckRelational(u, p, r) ==
  \E g \in grants : /\ g.role \in RolesGranting(p)
                    /\ g.resource \in ResourceChain(r)
                    /\ g.subject = u \/ g.subject \in UserTeams(u)

-----------------------------------------------------------------------------
(* PgKgQueries, over the edges E; d is maxDepth. Only why and, downwards,  *)
(* who have it: there the membership is one of the d steps.                *)
CheckSql(E, u, p, r) ==
  \E g \in Granting(E, p) : /\ g.dst \in Reached(ResourceSteps(E), {r})
                            /\ g.src \in Reached(SubjectSteps(E), {u})

(* Wrong variant: the resource's side is not turned around. *)
ExplanationUnreversed(w) == w[1] \o <<w[2]>> \o w[3]

(* One row of WHY_SQL (subject path, grant, resource path) as an           *)
(* Explanation: user, team, grant, resource.                               *)
Explanation(w) == w[1] \o <<w[2]>> \o S!Reverse(w[3])

WhySql(E, u, p, r, d) ==
  LET rows == {w \in Walks(SubjectSteps(E), u, d) \X Granting(E, p)
                       \X Walks(ResourceSteps(E), r, d) :
                 w[2].src = End(u, w[1]) /\ w[2].dst = End(r, w[3])}
  IN {Explanation(w) : w \in rows}

(* Wrong variant: a grant is followed once for each subject, as UNION would. *)
WhoSqlDistinct(E, p, r, d) ==
  LET ancestors == Reached(ResourceSteps(E), {r})
      granted == {g.src : g \in {e \in Granting(E, p) : e.dst \in ancestors}}
      down == Reversed({e \in E : e.rel \in {"MEMBER_OF", "CHILD_OF"}})
      paths(u) == {x \in UNION {{<<s, w>> : w \in Walks(down, s, d)} : s \in granted} :
                     End(x[1], x[2]) = u}
  IN {[user |-> u, paths |-> Cardinality(paths(u))] : u \in {v \in Users : paths(v) # {}}}

(* Down from the subject of every grant on an ancestor, one row for each   *)
(* grant and way, counted by user.                                         *)
WhoSql(E, p, r, d) ==
  LET ancestors == Reached(ResourceSteps(E), {r})
      granted == {e \in Granting(E, p) : e.dst \in ancestors}
      down == Reversed({e \in E : e.rel \in {"MEMBER_OF", "CHILD_OF"}})
      paths(u) == {x \in UNION {{<<g, w>> : w \in Walks(down, g.src, d)} : g \in granted} :
                     End(x[1].src, x[2]) = u}
  IN {[user |-> u, paths |-> Cardinality(paths(u))] : u \in {v \in Users : paths(v) # {}}}

GrantEdge(g) == [src |-> g.subject, rel |-> "GRANTED", dst |-> g.resource, role |-> g.role]

(* Everyone under the grant's subject and everything under its resource. *)
Holders(E, g) ==
  Users \cap Reached(Reversed({e \in E : e.rel \in {"MEMBER_OF", "CHILD_OF"}}), {g.subject})
Descendants(E, g) == Reached(Reversed(ResourceSteps(E)), {g.resource})

(* Wrong variant: any other grant of that role or above it counts, whether *)
(* or not it covers this resource.                                         *)
BlastSqlAnywhere(E, g, p) ==
  LET others == Granting(E, p) \ {GrantEdge(g)}
      still(u) == \E o \in others : o.src \in Reached(SubjectSteps(E), {u})
  IN IF GrantEdge(g) \notin E THEN {}
     ELSE {ur \in Holders(E, g) \X Descendants(E, g) : ~still(ur[1])}

(* Everything under the grant, minus everything another grant covers. *)
BlastSql(E, g, p) ==
  LET others == Granting(E, p) \ {GrantEdge(g)}
      still(u, r) == \E o \in others : /\ o.src \in Reached(SubjectSteps(E), {u})
                                       /\ o.dst \in Reached(ResourceSteps(E), {r})
  IN IF GrantEdge(g) \notin E THEN {}
     ELSE {ur \in Holders(E, g) \X Descendants(E, g) : ~still(ur[1], ur[2])}

-----------------------------------------------------------------------------
(* Neo4jQueries, over the edges E. A user's subjects are the user and what *)
(* one MEMBER_OF and up to d CHILD_OF lead to.                             *)
SubjectWalks(E, u, d) ==
  LET inner == {e \in SubjectSteps(E) : e.rel = "CHILD_OF"}
      first == {e \in E : e.rel = "MEMBER_OF" /\ e.src = u}
  IN {<<>>} \cup (UNION {{<<m>> \o w : w \in Walks(inner, m.dst, d)} : m \in first})

(* The matches of the pattern that CHECK, WHY and WHO share. *)
Matches(E, u, p, r, d) ==
  {w \in SubjectWalks(E, u, d) \X Granting(E, p) \X Walks(ResourceSteps(E), r, d) :
     w[2].src = End(u, w[1]) /\ w[2].dst = End(r, w[3])}

CheckCypher(E, u, p, r, d) == Matches(E, u, p, r, d) # {}
WhyCypher(E, u, p, r, d) == {Explanation(w) : w \in Matches(E, u, p, r, d)}
WhoCypher(E, p, r, d) ==
  {[user |-> u, paths |-> Cardinality(Matches(E, u, p, r, d))] :
     u \in {v \in Users : CheckCypher(E, v, p, r, d)}}

BlastCypher(E, g, p, d) ==
  LET users == {u \in Users : \E w \in SubjectWalks(E, u, d) : End(u, w) = g.subject}
      under == {r \in Resources :
                  \E w \in Walks(ResourceSteps(E), r, d) : End(r, w) = g.resource}
  IN IF GrantEdge(g) \notin E THEN {}
     ELSE {ur \in users \X under : ~CheckCypher(E \ {GrantEdge(g)}, ur[1], p, ur[2], d)}

(* Neo4jReachability: from the resource up, out along the grants, and for  *)
(* each subject a test whether it is the user or holds the user.           *)
CheckPattern(E, u, p, r, d) ==
  LET chain == {End(r, w) : w \in Walks(ResourceSteps(E), r, d)}
      teams == {End(u, w) : w \in SubjectWalks(E, u, d)} \cap Teams
  IN \E g \in Granting(E, p) : g.dst \in chain /\ (g.src = u \/ g.src \in teams)

-----------------------------------------------------------------------------
(* PgKgProjector.rebuild, and Neo4jProjector.syncTopology with syncGrants. *)
Edge(rel, s) == [src |-> s.src, rel |-> rel, dst |-> s.dst, role |-> "none"]

GraphOf(ms, ps, gs) ==
  {Edge("MEMBER_OF", s) : s \in ms} \cup {Edge("CHILD_OF", s) : s \in ps}
    \cup {GrantEdge(g) : g \in gs}

Init ==
  /\ phase = "boot"
  /\ nodes = {} /\ members = {} /\ parents = {} /\ grants = {} /\ graph = {}

(* addUser, addTeam, the INSERT INTO resources of the seed, addMembership: *)
(* what is there already is left as it is. Parents come before children.   *)
AddNode(x, above) ==
  /\ phase = "boot"
  /\ x \notin nodes
  /\ nodes' = nodes \cup {x}
  /\ parents' = parents \cup {[src |-> x, dst |-> y] : y \in above}
  /\ UNCHANGED <<phase, members, grants, graph>>

AddUser(u) == AddNode(u, {})
AddTeam(t) == \E above \in {{}} \cup {{y} : y \in nodes \cap Teams} : AddNode(t, above)
AddResource(r) == \E above \in {{}} \cup {{y} : y \in nodes \cap Resources} : AddNode(r, above)

(* Wrong variant: the two columns are swapped. *)
AddMembershipSwapped(u, t) ==
  /\ phase = "boot"
  /\ u \in nodes /\ t \in nodes
  /\ members' = members \cup {[src |-> t, dst |-> u]}
  /\ UNCHANGED <<phase, nodes, parents, grants, graph>>

AddMembership(u, t) ==
  /\ phase = "boot"
  /\ u \in nodes /\ t \in nodes
  /\ members' = members \cup {[src |-> u, dst |-> t]}
  /\ UNCHANGED <<phase, nodes, parents, grants, graph>>

(* grant, by the seed to a subject it has added or by the API. The         *)
(* resource must be a row (a foreign key); the API takes any subject: its  *)
(* graph node is made on the way.                                          *)
Grant(g) ==
  /\ phase \in {"boot", "serving"}
  /\ phase = "boot" => g.subject \in nodes
  /\ g.resource \in nodes
  /\ g \notin grants
  /\ Cardinality(grants) < MaxGrants
  /\ grants' = grants \cup {g}
  /\ graph' = graph \cup {GrantEdge(g)}
  /\ UNCHANGED <<phase, nodes, members, parents>>

Revoke(g) ==
  /\ phase = "serving"
  /\ g \in grants
  /\ grants' = grants \ {g}
  /\ graph' = graph \ {GrantEdge(g)}
  /\ UNCHANGED <<phase, nodes, members, parents>>

(* bootstrap, after the seed. The nodes of the graph come from users, teams *)
(* and resources alone, and every edge needs its two nodes: a grant whose   *)
(* subject has no row rolls the rebuild back and ends bootstrap.            *)
Rebuild ==
  /\ phase = "boot"
  /\ \A g \in grants : g.subject \in nodes
  /\ phase' = "serving"
  /\ graph' = GraphOf(members, parents, grants)
  /\ UNCHANGED <<nodes, members, parents, grants>>

RebuildFails ==
  /\ phase = "boot"
  /\ \E g \in grants : g.subject \notin nodes
  /\ phase' = "failed"
  /\ UNCHANGED <<nodes, members, parents, grants, graph>>

(* The system is brought up again: bootstrap runs before anything else. *)
Restart ==
  /\ phase # "boot"
  /\ phase' = "boot"
  /\ UNCHANGED <<nodes, members, parents, grants, graph>>

Grants == [subject : Users \cup Teams, role : Roles, resource : Resources]

Next ==
  \/ \E u \in Users : AddUser(u) \/ \E t \in Teams : AddMembership(u, t)
  \/ \E t \in Teams : AddTeam(t)
  \/ \E r \in Resources : AddResource(r)
  \/ \E g \in Grants : Grant(g) \/ Revoke(g)
  \/ Rebuild \/ RebuildFails \/ Restart

Spec == Init /\ [][Next]_vars

-----------------------------------------------------------------------------
GraphTypeOK ==
  /\ phase \in {"boot", "serving", "failed"}
  /\ nodes \subseteq Users \cup Teams \cup Resources
  /\ members \subseteq [src : Users, dst : Teams]
  /\ parents \subseteq [src : Teams, dst : Teams] \cup [src : Resources, dst : Resources]
  /\ grants \subseteq Grants
  /\ graph \subseteq [src : nodes \cup Users \cup Teams, rel : {"MEMBER_OF", "CHILD_OF", "GRANTED"},
                      dst : nodes, role : Roles \cup {"none"}]

(* What the stores should answer, said without any of their queries: u may *)
(* do p on r if a role that confers p is held by u or a team u is inside,  *)
(* however deep, on r or something r is inside. Each role absorbs the one  *)
(* below it: owner, editor, viewer. What x is inside is in every set that  *)
(* holds x and, with anything it holds, what that is a row below.          *)
Rank == [viewer |-> 1, editor |-> 2, owner |-> 3]
Needs == [read |-> 1, write |-> 2, delete |-> 3, grant |-> 3]

Entitled(u, p, r) ==
  LET closed == {Z \in SUBSET (Users \cup Teams \cup Resources) :
                   \A s \in members \cup parents : s.src \in Z => s.dst \in Z}
      isIn(x, y) == \A Z \in closed : x \in Z => y \in Z
  IN \E g \in grants : /\ Rank[g.role] >= Needs[p]
                       /\ isIn(u, g.subject) /\ isIn(r, g.resource)

Served == phase = "serving"

(* Nothing that u is in, and nothing that r is in, is out of reach at      *)
(* depth d: no walk of d + 1 steps.                                        *)
Fits(u, r, d) ==
  \A walks \in {Walks(SubjectSteps(graph), u, d + 1), Walks(ResourceSteps(graph), r, d + 1)} :
    \A w \in walks : Len(w) <= d

(* "a rule that holds in only one of them is a bug in whichever is wrong"  *)
(* (reachability.integration.test.ts): the tables, the graph in Postgres   *)
(* and both readers of Neo4j answer check as the rules say, after any      *)
(* boots, grants and revokes. Beyond their depth the readers of Neo4j may  *)
(* deny, never allow: "exceeding it fails closed" (neo4j-reachability.ts). *)
ChecksAgree ==
  Served => \A u \in Users, p \in Permissions, r \in Resources :
    LET yes == Entitled(u, p, r)
    IN /\ CheckRelational(u, p, r) = yes
       /\ CheckSql(graph, u, p, r) = yes
       /\ \A d \in Depths :
            LET neo4j == {CheckCypher(graph, u, p, r, d), CheckPattern(graph, u, p, r, d)}
            IN /\ TRUE \in neo4j => yes
               /\ Fits(u, r, d) => neo4j = {yes}

(* Both engines give the same explanations (GraphService may answer from   *)
(* either), there is one exactly when the check allows (explain.controller *)
(* derives "allowed" from it), and each reads from the user to the         *)
(* resource without a gap, with one grant that confers the permission.     *)
(* Beyond their depth they explain less, Postgres before Neo4j, which does *)
(* not count the membership; neither explains what the check denies.       *)
IsReadable(x, u, p, r) ==
  LET at == CHOOSE i \in DOMAIN x : x[i].rel = "GRANTED"
      from(i) == IF i > at THEN x[i].dst ELSE x[i].src
      to(i) == IF i > at THEN x[i].src ELSE x[i].dst
  IN /\ x[at].role \in RolesGranting(p)
     /\ from(1) = u /\ to(Len(x)) = r
     /\ \A i \in 1..Len(x) - 1 : to(i) = from(i + 1)
     /\ \A i \in DOMAIN x \ {at} : x[i].rel # "GRANTED"

ExplanationsAgree ==
  Served => \A d \in Depths, u \in Users, p \in Permissions, r \in Resources :
    LET sql == WhySql(graph, u, p, r, d)
        cypher == WhyCypher(graph, u, p, r, d)
        allowed == CheckRelational(u, p, r)
    IN /\ sql \subseteq cypher
       /\ cypher # {} => allowed
       /\ Fits(u, r, d) => sql = cypher /\ (allowed => sql # {})
       /\ \A x \in cypher : IsReadable(x, u, p, r)

(* The traversal that runs backwards finds whom the forward one finds, and *)
(* counts as many paths as there are explanations, in both engines; beyond *)
(* their depth neither names a user whom the check denies.                 *)
WhoMatchesWhy ==
  Served => \A d \in Depths, p \in Permissions, r \in Resources :
    LET near == {u \in Users : Fits(u, r, d)}
        may == {u \in Users : CheckRelational(u, p, r)}
        who == {[user |-> u, paths |-> Cardinality(WhySql(graph, u, p, r, d))] :
                  u \in near \cap may}
    IN \A answer \in {WhoSql(graph, p, r, d), WhoCypher(graph, p, r, d)} :
         /\ {x \in answer : x.user \in near} = who
         /\ {x.user : x \in answer} \subseteq may

(* "What breaks if this grant is revoked": of those who have a permission  *)
(* before a revoke, impact lists exactly those whom the revoke takes it    *)
(* from, whichever permission is asked about; and it lists nobody else     *)
(* when the role confers the permission. (For another permission it also   *)
(* lists everyone under the grant who never had it.)                       *)
Lost(p) == {ur \in Users \X Resources : CheckRelational(ur[1], p, ur[2])
                                         /\ ~CheckRelational(ur[1], p, ur[2])'}

ImpactIsLoss ==
  [][\A g \in grants : Revoke(g) => \A p \in Permissions :
       LET impact == BlastSql(graph, g, p)
       IN /\ {ur \in impact : CheckRelational(ur[1], p, ur[2])} = Lost(p)
          /\ p \in PermissionsOf[g.role] => impact = Lost(p)
          /\ \A d \in Depths : (\A u \in Users, r \in Resources : Fits(u, r, d)) =>
               BlastCypher(graph, g, p, d) = impact]_vars

(* "a grant naming an entity created since the last rebuild writes an edge *)
(* instead of failing a foreign key, which is the difference between a     *)
(* self-healing projection and one that needs a restart"                   *)
(* (postgres-grant-repository.ts): a restart does not fail on that grant.  *)
BootstrapSucceeds == phase # "failed"
=============================================================================
