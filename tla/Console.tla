------------------------------- MODULE Console -------------------------------
(***************************************************************************)
(* The web page: the loop that asks every node the selected question, the  *)
(* revoke button with the window it records, the restore button, the loads *)
(* of the graph, and the panel that explains. One browser and no other     *)
(* client; a node's view of the grants lags behind the table and never     *)
(* goes back to an older one, which is what Invalidation is about.         *)
(*                                                                         *)
(* Several things are under way at once: the round of the current loop and *)
(* those of loops that a new selection has stopped, one click's handler,   *)
(* loads, and the panel's requests. Their answers come in any order.       *)
(* Every setState renders the page.                                        *)
(***************************************************************************)
EXTENDS Naturals, Sequences

CONSTANTS
  Nodes,
  Selections,  \* what can be asked: a user, a permission and a resource
  Seeds,       \* the demo's grants, in the order that restore posts them
  Revocable,   \* per selection: the grants on its resource that the page offers
  Deciding,    \* per selection: the grants that allow it
  MaxLoads,    \* bound: loads of the graph in flight
  MaxClicks,   \* bound: clicks on revoke and restore
  MaxSelects   \* bound: changes of the selection

S == INSTANCE SequencesExt

Grants == S!ToSet(Seeds)

ASSUME SeedsAssumption ==
  Seeds \in Seq(Grants) /\ S!IsInjective(Seeds) /\ "none" \notin Grants
ASSUME RevocableAssumption ==
  Revocable \in [Selections -> SUBSET Grants] /\ Deciding \in [Selections -> SUBSET Grants]
ASSUME BoundsAssumption ==
  MaxLoads \in Nat \ {0} /\ MaxClicks \in Nat /\ MaxSelects \in Nat

VARIABLES
  held,       \* the grants of the table, by created_at
  seen,       \* per node: the grants it answers from
  sel,        \* the selected question
  round,      \* the current loop: the answers of this round so far
  overtaken,  \* questions of stopped loops whose round has not returned
  live,       \* the question that the table of answers belongs to
  handler,    \* the click being handled: stage, grant, next seed
  busy, polling, t0,
  flips,      \* of the samples, per node: the first after the commit that is not an allow
  graph,      \* the grants of the loaded graph, in the same order
  loads,      \* loads in flight, in the order of their requests
  asked,      \* the panel: the question of its last effect
  waiting,    \* the panel: that effect has no answers yet
  shown,      \* the panel: the question that its answers belong to
  mixed,      \* history: the selection has changed while samples were recorded
  caughtUp,   \* history: nodes that knew of every write when revoke was pressed
  clicks, selects,
  skipped,    \* history: a grant of this restore was refused
  astray      \* history: the last load failed or was older than the one before

serverVars == <<held, seen>>
loopVars == <<selects, round, overtaken, live>>
clickVars == <<clicks, handler, busy, polling, t0>>
sampleVars == <<flips, mixed, caughtUp>>
loadVars == <<graph, loads, astray>>
panelVars == <<asked, waiting, shown>>
vars == <<serverVars, sel, loopVars, clickVars, sampleVars, loadVars, panelVars, skipped>>

-----------------------------------------------------------------------------
(* activeGrant: the first grant of the graph that matches the selection.   *)
Active(g, s) ==
  LET i == S!SelectInSeq(g, LAMBDA x : x \in Revocable[s])
  IN IF i = 0 THEN "none" ELSE g[i]

(* What the panel's effect depends on. *)
Question(g, s) == [sel |-> s, grant |-> Active(g, s)]

(* Wrong variant: the effect depends on the grant alone. *)
RendersForGrant(g, s) ==
  LET q == Question(g, s) IN
  IF q.grant = "none"
  THEN UNCHANGED panelVars
  ELSE /\ asked' = q /\ waiting' = TRUE
       /\ UNCHANGED shown

(* A render of the page. The grant it hands to the panel is a new object   *)
(* each time, so while there is one the effect runs again: its request is  *)
(* dropped and made anew.                                                  *)
Renders(g, s) ==
  LET q == Question(g, s) IN
  IF q = asked /\ q.grant = "none"
  THEN UNCHANGED panelVars
  ELSE /\ asked' = q /\ waiting' = TRUE
       /\ UNCHANGED shown

Unasked == [n \in Nodes |-> "waiting"]
NoFlips == [n \in Nodes |-> "none"]
NoClick == [stage |-> "idle", grant |-> "none", next |-> 1]
Unread == [isRead |-> FALSE, grants |-> <<>>, late |-> FALSE]

Init ==
  /\ held = Seeds /\ seen = [n \in Nodes |-> Grants]
  /\ sel \in Selections
  /\ round = Unasked /\ overtaken = {} /\ live = "none"
  /\ handler = NoClick /\ busy = FALSE /\ polling = FALSE /\ t0 = "none"
  /\ flips = NoFlips /\ mixed = FALSE /\ caughtUp = {}
  /\ graph = <<>> /\ loads = <<Unread>> /\ astray = TRUE
  /\ asked = [sel |-> sel, grant |-> "none"] /\ waiting = TRUE
  /\ shown = [sel |-> "none", grant |-> "none"]
  /\ skipped = FALSE /\ clicks = 0 /\ selects = 0

-----------------------------------------------------------------------------
(* The nodes. *)
NodeLearns(n) ==
  /\ seen[n] # S!ToSet(held)
  /\ seen' = [seen EXCEPT ![n] = S!ToSet(held)]
  /\ UNCHANGED <<held, sel, loopVars, clickVars, sampleVars, loadVars, panelVars, skipped>>

Answer(n) == IF seen[n] \cap Deciding[sel] # {} THEN "allow" ELSE "deny"

(* An error is a reply too: its body has no "allowed", and a node that     *)
(* cannot reach its store says deny. A request that fails gives null.      *)
NodeAnswers(n) ==
  /\ round[n] = "waiting"
  /\ \E a \in {Answer(n), "error", "null"} : round' = [round EXCEPT ![n] = a]
  /\ UNCHANGED <<serverVars, sel, selects, overtaken, live, clickVars, sampleVars, loadVars, panelVars, skipped>>

-----------------------------------------------------------------------------
(* The loop. *)

(* The samples of this round will be found to come after the commit. *)
IsLate ==
  /\ polling
  /\ \/ handler.stage = "committed"
     \/ handler.stage = "watching" /\ t0 # "undefined"

(* Wrong variant: a request that failed is recorded as a deny. *)
RecordAll ==
  flips' = [n \in Nodes |->
    IF IsLate /\ flips[n] = "none" /\ round[n] # "allow" THEN "deny" ELSE flips[n]]

(* setSamples, as far as Timeline reads it: the first reply of a node      *)
(* after the commit that is not an allow is the end of its window.         *)
Record ==
  flips' = [n \in Nodes |->
    IF IsLate /\ flips[n] = "none" /\ round[n] \in {"deny", "error"} THEN round[n] ELSE flips[n]]

(* All nodes have answered: setLive, and the next round after 40 ms. *)
RoundEnds ==
  /\ \A n \in Nodes : round[n] # "waiting"
  /\ live' = sel
  /\ round' = Unasked
  /\ Record
  /\ Renders(graph, sel)
  /\ UNCHANGED <<serverVars, sel, selects, overtaken, clickVars, mixed, caughtUp, loadVars, skipped>>

(* Another question is selected: the loop is stopped, a new one begins.    *)
(* The controls are not disabled while a window is recorded.               *)
Select(s) ==
  /\ s # sel
  /\ selects < MaxSelects /\ selects' = selects + 1
  /\ sel' = s
  /\ overtaken' = (overtaken \cup {sel}) \ {s}
  /\ round' = Unasked
  /\ mixed' = (mixed \/ polling)
  /\ Renders(graph, s)
  /\ UNCHANGED <<serverVars, live, clickVars, flips, caughtUp, loadVars, skipped>>

(* Wrong variant: a stopped loop looks at the flag only before it asks. *)
OvertakenShows(s) ==
  /\ s \in overtaken
  /\ overtaken' = overtaken \ {s}
  /\ live' = s
  /\ UNCHANGED <<serverVars, sel, selects, round, clickVars, sampleVars, loadVars, panelVars, skipped>>

(* A stopped loop's round returns: "if (stopped) return". *)
OvertakenReturns(s) ==
  /\ s \in overtaken
  /\ overtaken' = overtaken \ {s}
  /\ UNCHANGED <<serverVars, sel, selects, round, live, clickVars, sampleVars, loadVars, panelVars, skipped>>

-----------------------------------------------------------------------------
(* The clicks, within the bounds. *)
CanClick ==
  /\ Len(loads) < MaxLoads
  /\ clicks < MaxClicks /\ clicks' = clicks + 1

(* runRevoke, until the DELETE leaves 250 ms after the click. *)
RevokeClick ==
  /\ ~busy /\ CanClick
  /\ Active(graph, sel) # "none"
  /\ busy' = TRUE /\ polling' = TRUE
  /\ flips' = NoFlips /\ mixed' = FALSE
  /\ caughtUp' = {n \in Nodes : seen[n] = S!ToSet(held) /\ round[n] = "waiting"}
  /\ handler' = [NoClick EXCEPT !.stage = "deleting", !.grant = Active(graph, sel)]
  /\ Renders(graph, sel)
  /\ UNCHANGED <<serverVars, sel, loopVars, t0, loadVars, skipped>>

(* The API node has run revoke. A grant that is gone already is no error,  *)
(* and its reply has a committedAt like any other.                         *)
DeleteCommits ==
  /\ handler.stage = "deleting"
  /\ held' = S!RemoveFirst(held, handler.grant)
  /\ handler' = [handler EXCEPT !.stage = "committed"]
  /\ UNCHANGED <<seen, sel, loopVars, clicks, busy, polling, t0, sampleVars, loadVars, panelVars, skipped>>

(* An error is a reply without committedAt. *)
DeleteReplied ==
  /\ \/ handler.stage = "committed" /\ t0' = "commit"
     \/ handler.stage = "deleting" /\ t0' = "undefined"
  /\ handler' = [handler EXCEPT !.stage = "watching"]
  /\ Renders(graph, sel)
  /\ UNCHANGED <<serverVars, sel, loopVars, clicks, busy, polling, sampleVars, loadVars, skipped>>

(* The request fails, and nothing catches it. *)
DeleteLost ==
  /\ handler.stage \in {"deleting", "committed"}
  /\ handler' = [handler EXCEPT !.stage = "stuck"]
  /\ UNCHANGED <<serverVars, sel, loopVars, clicks, busy, polling, t0, sampleVars, loadVars, panelVars, skipped>>

(* Wrong variant: the polling is left on. *)
RevokeEndsPolling ==
  /\ handler.stage = "watching"
  /\ busy' = FALSE /\ UNCHANGED polling
  /\ handler' = NoClick /\ mixed' = FALSE /\ caughtUp' = {}
  /\ loads' = Append(loads, Unread)
  /\ Renders(graph, sel)
  /\ UNCHANGED <<serverVars, sel, loopVars, clicks, t0, flips, graph, astray, skipped>>

(* After 1500 ms. *)
RevokeEnds ==
  /\ handler.stage = "watching"
  /\ busy' = FALSE /\ polling' = FALSE
  /\ handler' = NoClick /\ mixed' = FALSE /\ caughtUp' = {}
  /\ loads' = Append(loads, Unread)
  /\ Renders(graph, sel)
  /\ UNCHANGED <<serverVars, sel, loopVars, clicks, t0, flips, graph, astray, skipped>>

-----------------------------------------------------------------------------
(* restore. *)
RestoreClick ==
  /\ ~busy /\ CanClick
  /\ busy' = TRUE
  /\ handler' = [NoClick EXCEPT !.stage = "posting"]
  /\ Renders(graph, sel)
  /\ UNCHANGED <<serverVars, sel, loopVars, polling, t0, sampleVars, loadVars, skipped>>

Granted(g) == IF S!Contains(held, g) THEN held ELSE Append(held, g)

(* Wrong variant: only what the loaded graph lacks is posted. *)
PostMissing ==
  /\ handler.stage = "posting" /\ handler.next <= Len(Seeds)
  /\ \/ S!Contains(graph, Seeds[handler.next]) /\ UNCHANGED <<held, skipped>>
     \/ held' = Granted(Seeds[handler.next]) /\ UNCHANGED skipped
     \/ UNCHANGED held /\ skipped' = TRUE
  /\ handler' = [handler EXCEPT !.next = @ + 1]
  /\ UNCHANGED <<seen, sel, loopVars, clicks, busy, polling, t0, sampleVars, loadVars, panelVars>>

(* The next seed is posted and answered; grant is idempotent, and an error *)
(* is a reply like any other.                                              *)
Post ==
  /\ handler.stage = "posting" /\ handler.next <= Len(Seeds)
  /\ \/ held' = Granted(Seeds[handler.next]) /\ UNCHANGED skipped
     \/ UNCHANGED held /\ skipped' = TRUE
  /\ handler' = [handler EXCEPT !.next = @ + 1]
  /\ UNCHANGED <<seen, sel, loopVars, clicks, busy, polling, t0, sampleVars, loadVars, panelVars>>

PostLost ==
  /\ handler.stage = "posting" /\ handler.next <= Len(Seeds)
  /\ held' \in {held, Granted(Seeds[handler.next])}
  /\ handler' = [handler EXCEPT !.stage = "stuck"]
  /\ UNCHANGED <<seen, sel, loopVars, clicks, busy, polling, t0, sampleVars, loadVars, panelVars, skipped>>

Posted == handler.stage = "posting" /\ handler.next > Len(Seeds)

(* Wrong variant: the graph is not loaded again. *)
RestoreEndsUnloaded ==
  /\ Posted
  /\ flips' = NoFlips /\ mixed' = FALSE /\ caughtUp' = {} /\ t0' = "none" /\ skipped' = FALSE
  /\ busy' = FALSE /\ handler' = NoClick
  /\ Renders(graph, sel)
  /\ UNCHANGED <<serverVars, sel, loopVars, clicks, polling, loadVars>>

(* Wrong variant: the buttons are left disabled. *)
RestoreEndsBusy ==
  /\ Posted
  /\ loads' = Append(loads, Unread)
  /\ flips' = NoFlips /\ mixed' = FALSE /\ caughtUp' = {} /\ t0' = "none" /\ skipped' = FALSE
  /\ handler' = NoClick
  /\ Renders(graph, sel)
  /\ UNCHANGED <<serverVars, sel, loopVars, clicks, busy, polling, graph, astray>>

(* 800 ms after the last reply. *)
RestoreEnds ==
  /\ Posted
  /\ loads' = Append(loads, Unread)
  /\ flips' = NoFlips /\ mixed' = FALSE /\ caughtUp' = {} /\ t0' = "none" /\ skipped' = FALSE
  /\ busy' = FALSE /\ handler' = NoClick
  /\ Renders(graph, sel)
  /\ UNCHANGED <<serverVars, sel, loopVars, clicks, polling, graph, astray>>

-----------------------------------------------------------------------------
(* loadGraph. *)
LoadRead(i) ==
  /\ ~loads[i].isRead
  /\ loads' = [loads EXCEPT ![i].isRead = TRUE, ![i].grants = held]
  /\ UNCHANGED <<serverVars, sel, loopVars, clickVars, sampleVars, graph, astray, panelVars, skipped>>

(* A load that was requested before this one is from now on late. *)
Behind(i) == [j \in DOMAIN loads |-> [loads[j] EXCEPT !.late = @ \/ j < i]]

LoadArrives(i) ==
  /\ loads[i].isRead
  /\ graph' = loads[i].grants
  /\ astray' = loads[i].late
  /\ loads' = S!RemoveAt(Behind(i), i)
  /\ Renders(loads[i].grants, sel)
  /\ UNCHANGED <<serverVars, sel, loopVars, clickVars, sampleVars, skipped>>

LoadFails(i) ==
  /\ astray' = TRUE
  /\ loads' = S!RemoveAt(Behind(i), i)
  /\ UNCHANGED <<serverVars, sel, loopVars, clickVars, sampleVars, graph, panelVars, skipped>>

-----------------------------------------------------------------------------
(* ExplainPanel: the three answers, null for a request that failed. Those   *)
(* of an effect that has been cleaned up leave no trace ("if (stale)").    *)
PanelArrives ==
  /\ waiting
  /\ waiting' = FALSE /\ shown' = asked
  /\ UNCHANGED <<serverVars, sel, loopVars, clickVars, sampleVars, loadVars, asked, skipped>>

-----------------------------------------------------------------------------
Next ==
  \/ \E n \in Nodes : NodeLearns(n) \/ NodeAnswers(n)
  \/ RoundEnds
  \/ \E s \in Selections : Select(s) \/ OvertakenReturns(s)
  \/ RevokeClick \/ DeleteCommits \/ DeleteReplied \/ DeleteLost \/ RevokeEnds
  \/ RestoreClick \/ Post \/ PostLost \/ RestoreEnds
  \/ \E i \in DOMAIN loads : LoadRead(i) \/ LoadArrives(i) \/ LoadFails(i)
  \/ PanelArrives

Spec == Init /\ [][Next]_vars

(* Requests end and timers fire. The panel's answers are only sure to come *)
(* in time when no render drops them: there is no grant to hand over.      *)
Fairness ==
  /\ \A n \in Nodes : WF_vars(NodeAnswers(n))
  /\ WF_vars(RoundEnds)
  /\ WF_vars(DeleteCommits \/ DeleteReplied \/ DeleteLost)
  /\ WF_vars(RevokeEnds)
  /\ WF_vars(Post \/ PostLost) /\ WF_vars(RestoreEnds)
  /\ WF_vars(PanelArrives /\ asked.grant = "none")

FairSpec == Spec /\ Fairness

-----------------------------------------------------------------------------
(* Every variable stays in its type; samples are recorded, and the buttons *)
(* are disabled, exactly while a click is handled.                         *)
Stages == {"idle", "deleting", "committed", "watching", "posting", "stuck"}
Questions == [sel : Selections \cup {"none"}, grant : Grants \cup {"none"}]

ConsoleTypeOK ==
  /\ S!IsInjective(held) /\ S!ToSet(held \o graph) \subseteq Grants /\ seen \in [Nodes -> SUBSET Grants]
  /\ sel \in Selections /\ live \in Selections \cup {"none"}
  /\ round \in [Nodes -> {"waiting", "allow", "deny", "error", "null"}]
  /\ overtaken \subseteq Selections \ {sel}
  /\ handler.stage \in Stages /\ busy = (handler.stage # "idle")
  /\ polling => busy
  /\ Len(loads) <= MaxLoads
  /\ {asked, shown} \subseteq Questions
  /\ flips \in [Nodes -> {"none", "deny", "error"}] /\ caughtUp \subseteq Nodes

(* An answer is shown for what is selected when it is shown, in the table  *)
(* and in the panel, whatever came back late.                              *)
OvertakenIsDropped ==
  [][/\ live' # live => live' = sel'
     /\ shown' # shown => shown' = Question(graph', sel')]_vars

(* "not the first, because a revoked user only needs one node that still   *)
(* says yes": after the deny that ends a node's window, that node does not *)
(* allow again. This takes one question all along, a node that knew of     *)
(* every write when revoke was pressed (else the deny may be an earlier    *)
(* revoke's), and a deny that was one: an error ends a window too.         *)
FlipIsFinal ==
  [][RoundEnds /\ IsLate /\ ~mixed =>
       \A n \in caughtUp : flips[n] = "deny" => round[n] # "allow"]_vars

(* With nothing in flight, the graph that the buttons and the panel work   *)
(* on is the table, unless its last load failed or came out of order.      *)
GraphIsCurrent == ~busy /\ loads = <<>> /\ ~astray => graph = held

(* "Restores every seeded grant, not just the one the demo revokes": when  *)
(* it ends and no request was refused, all of them are held.               *)
RestoreRestores == [][RestoreEnds /\ ~skipped => S!ToSet(held)' = Grants]_vars

(* The buttons come back, unless a request of the handler has failed.      *)
BusyEnds == []<>(~busy \/ handler.stage = "stuck")

(* Once the selection is left alone, it is answered in the table; and in   *)
(* the panel too, when there is no grant to revoke.                        *)
QuestionsAreShown ==
  []<>(live = sel /\ (Active(graph, sel) = "none" => shown = Question(graph, sel)))
=============================================================================
