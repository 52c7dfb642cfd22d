-------------------------- MODULE OutboxGeneration --------------------------
(***************************************************************************)
(* A node's belief about the current generation: OutboxGeneration, and     *)
(* CacheInvalidator, which feeds it. A layer over GrantWrites, whose       *)
(* sequence it reads. The relay and the broker (they are outside the       *)
(* repository) are kept to what a node can rely on: only committed events  *)
(* are published, and an event may reach a node at any later time, in any  *)
(* order, more than once, or never.                                        *)
(***************************************************************************)
EXTENDS GrantWrites, FiniteSets

CONSTANTS
  Nodes,    \* API nodes
  MaxPolls  \* bound: refreshes of one node under way at a time

VARIABLES
  phase,  \* per node: process down, in onModuleInit, or serving
  gen,    \* per node: OutboxGeneration.value
  poll    \* per node: sequence values read by refresh() and not yet applied

generationVars == <<phase, gen, poll>>

GenerationInit ==
  /\ phase = [n \in Nodes |-> "down"]
  /\ gen = [n \in Nodes |-> 0]
  /\ poll = [n \in Nodes |-> {}]

(* Wrong variant: the value that arrived last wins. *)
JumpTo(value, to) == to

(* advance(): a value that is not ahead changes nothing. *)
Advance(value, to) == IF to <= value THEN value ELSE to

(* Wrong variant: last_value of a sequence that was never used is 1. *)
BootReadFresh(n) ==
  /\ phase[n] = "down"
  /\ phase' = [phase EXCEPT ![n] = "starting"]
  /\ poll' = [poll EXCEPT ![n] = {IF seqLast = 0 THEN 1 ELSE seqLast}]
  /\ UNCHANGED gen

(* onModuleInit: the query of the first refresh() is answered. *)
BootRead(n) ==
  /\ phase[n] = "down"
  /\ phase' = [phase EXCEPT ![n] = "starting"]
  /\ poll' = [poll EXCEPT ![n] = {seqLast}]
  /\ UNCHANGED gen

(* ... and applied; the timer starts, the consumer joins its group, and    *)
(* Nest begins to serve. The group may begin at the end of the topic       *)
(* (fromBeginning: false), which is a loss of what came before.            *)
BootAdopt(n) ==
  /\ phase[n] = "starting"
  /\ \E v \in poll[n] : gen' = [gen EXCEPT ![n] = Advance(gen[n], v)]
  /\ phase' = [phase EXCEPT ![n] = "up"]
  /\ poll' = [poll EXCEPT ![n] = {}]

(* Wrong variant: the poll is only a fallback until the first number. *)
PollReadUntilFirst(n) ==
  /\ phase[n] = "up"
  /\ gen[n] = 0
  /\ Cardinality(poll[n]) < MaxPolls
  /\ poll' = [poll EXCEPT ![n] = @ \cup {seqLast}]
  /\ UNCHANGED <<phase, gen>>

(* The backstop: the timer fires and Postgres answers. The timer does not  *)
(* wait for the previous answer, so several may be under way.              *)
PollRead(n) ==
  /\ phase[n] = "up"
  /\ Cardinality(poll[n]) < MaxPolls
  /\ poll' = [poll EXCEPT ![n] = @ \cup {seqLast}]
  /\ UNCHANGED <<phase, gen>>

(* Wrong variant: adopts the number that the next write will get. *)
PollAdoptNext(n, v) ==
  /\ phase[n] = "up"
  /\ v \in poll[n]
  /\ gen' = [gen EXCEPT ![n] = Advance(gen[n], v + 1)]
  /\ poll' = [poll EXCEPT ![n] = @ \ {v}]
  /\ UNCHANGED phase

PollAdopt(n, v) ==
  /\ phase[n] = "up"
  /\ v \in poll[n]
  /\ gen' = [gen EXCEPT ![n] = Advance(gen[n], v)]
  /\ poll' = [poll EXCEPT ![n] = @ \ {v}]
  /\ UNCHANGED phase

(* A refresh that fails is swallowed: .catch(() => undefined). *)
PollFail(n, v) ==
  /\ phase[n] = "up"
  /\ v \in poll[n]
  /\ poll' = [poll EXCEPT ![n] = @ \ {v}]
  /\ UNCHANGED <<phase, gen>>

(* eachMessage: the outbox-id header is observed. The relay publishes an   *)
(* event after its commit and the broker delivers it whenever it does, so  *)
(* it is any number committed so far.                                      *)
Observe(n, s) ==
  /\ phase[n] = "up"
  /\ s \in Committed
  /\ gen' = [gen EXCEPT ![n] = Advance(gen[n], s)]
  /\ UNCHANGED <<phase, poll>>

(* The process ends: killed, or onModuleInit failed and main() exits. *)
Stop(n) ==
  /\ phase[n] # "down"
  /\ phase' = [phase EXCEPT ![n] = "down"]
  /\ gen' = [gen EXCEPT ![n] = 0]
  /\ poll' = [poll EXCEPT ![n] = {}]

GenerationTypeOK ==
  /\ phase \in [Nodes -> {"down", "starting", "up"}]
  /\ gen \in [Nodes -> 0..MaxSeq]
  /\ poll \in [Nodes -> SUBSET (0..MaxSeq)]
=============================================================================
