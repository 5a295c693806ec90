------------------------------ MODULE AgentTick ------------------------------
(***************************************************************************)
(* The order in which an agent makes its reactors go through a tick.  A    *)
(* depth-first search over the transaction graph calls newTick() on every  *)
(* reactor and sorts them, servers before clients; cleanup() removes those *)
(* that failed; then each one, in that order, collects the observations of *)
(* its Externals dated of this tick, synchronizes, and publishes its own.  *)
(* The operations on the graph are those of TimelineGraph.                 *)
(*                                                                         *)
(* Reactors change their declarations during deliberation here.  The code  *)
(* lets them do it in handleTickStart, in synchronize and in the handlers  *)
(* that workRatio calls between two synchronizations as well: this is left *)
(* out, and so are reactors added while the agent runs.                    *)
(***************************************************************************)
EXTENDS TimelineGraph, Sequences

(* Somebody may provide a timeline before the first tick.                  *)
ASSUME AgentTickAssumption == OwnerFlags # {}

VARIABLES
  phase,       \* where the agent is in the tick
  stack,       \* reactors the search is exploring, the last one on top
  discovered,  \* reactors the search has met
  queue,       \* the order of synchronization
  unseen,      \* <<r, t>>: r has not collected what t shows (history)
  cause        \* how that came to be shown (history)

search == <<stack, discovered>>
histories == <<unseen, cause>>
tickVars == <<phase, search, queue, histories>>
vars == <<graphVars, tickVars>>

(* "aborted": CycleDetected has left doNext.                               *)
Phases == {"start", "search", "synchronize", "deliberate", "aborted"}

(* "given up": by unprovide during deliberation; "foreign": published by a *)
(* reactor that is not the owner; "regular": anything else.                *)
Causes == {"regular", "given up", "foreign"}

TickTypeOK ==
  /\ TypeOK
  /\ phase \in Phases
  /\ stack \in Seq(Reactors)
  /\ discovered \subseteq Reactors
  /\ queue \in Seq(Reactors)
  /\ unseen \subseteq Reactors \X Timelines
  /\ cause \in [Timelines -> Causes]

(* Any graph the constructors may have declared before the first tick.     *)
TickInit ==
  /\ known = Timelines
  /\ owner \in [Timelines -> Reactors \cup {NoReactor}]
  /\ rights = [t \in Timelines |-> IF owner[t] = NoReactor THEN NoFlags ELSE CHOOSE f \in OwnerFlags : TRUE]
  /\ clients \in [Timelines -> SUBSET Reactors]
  /\ \A t \in Timelines : owner[t] \notin clients[t]
  /\ posters = clients
  /\ listeners = [t \in Timelines |-> {}]
  /\ planListeners = [t \in Timelines |-> 0]
  /\ nextObs = [t \in Timelines |-> NoObs]
  /\ lastObs = [t \in Timelines |-> Failed]
  /\ obsDate = [t \in Timelines |-> 0]
  /\ life = [r \in Reactors |-> "member"]
  /\ internals = [r \in Reactors |-> {t \in Timelines : owner[t] = r}]
  /\ externals = [r \in Reactors |-> {t \in Timelines : r \in clients[t]}]
  /\ updates = [r \in Reactors |-> {}]
  /\ now = 1
  /\ phase = "start"
  /\ stack = <<>>
  /\ discovered = {}
  /\ queue = <<>>
  /\ unseen = {}
  /\ cause = [t \in Timelines |-> "regular"]

Members == {r \in Reactors : life[r] = "member"}
Elements(s) == {s[i] : i \in DOMAIN s}

-----------------------------------------------------------------------------
(* The timelines of S show something new, which their clients have yet to  *)
(* see, for the causes of why; the relations of C have been collected.     *)
Published(S, C, why) ==
  /\ unseen' = {p \in (unseen \ C) \cup (Reactors \X S) : p[1] \in clients'[p[2]]}
  /\ cause' = [t \in Timelines |-> IF t \in S THEN why[t] ELSE cause[t]]

Regular == [t \in Timelines |-> "regular"]
Withdrawn == [t \in Timelines |-> "given up"]

(* Mutant: what is dated of the current tick waits for the next one.       *)
CollectedLate(r) == {<<r, t>> : t \in {u \in externals[r] : obsDate[u] < now}}

(* collect_obs_sync: only what is dated of the current tick.               *)
Collected(r) == {<<r, t>> : t \in {u \in externals[r] : obsDate[u] = now}}

-----------------------------------------------------------------------------
(* sort_reactors_sync: boost::depth_first_search with a sync_scheduller    *)

StartSearch ==
  /\ phase = "start"
  /\ phase' = "search"
  /\ stack' = <<>>
  /\ discovered' = {}
  /\ queue' = <<>>
  /\ UNCHANGED <<graphVars, histories>>

(* The reactors the one on top of the stack depends on.                    *)
Targets == {owner[t] : t \in externals[stack[Len(stack)]]} \ {NoReactor}

(* The search comes to r, as a new root or along a relation.               *)
Reach(r) ==
  /\ phase = "search"
  /\ r \in Members \ discovered
  /\ stack # <<>> => r \in Targets
  /\ discovered' = discovered \cup {r}
  /\ stack' = Append(stack, r)

(* discover_vertex: newTick() succeeds ...                                 *)
StartReactor(r) ==
  /\ Reach(r)
  /\ UNCHANGED <<graphVars, phase, queue, histories>>

(* ... or fails, and r loses its relations at once.                        *)
RejectReactor(r) ==
  /\ Reach(r)
  /\ Isolate(r)
  /\ Published(internals[r], {}, Regular)
  /\ UNCHANGED <<phase, queue>>

(* Mutant: push_front, the scheduling list is reversed.                    *)
FinishReactorFirst ==
  /\ phase = "search"
  /\ stack # <<>>
  /\ Targets \subseteq discovered \ Elements(stack)
  /\ LET r == stack[Len(stack)] IN
       queue' = IF life[r] = "member" THEN <<r>> \o queue ELSE queue
  /\ stack' = SubSeq(stack, 1, Len(stack) - 1)
  /\ UNCHANGED <<graphVars, phase, discovered, histories>>

(* Mutant: a reactor is scheduled without a look at is_valid.              *)
FinishIsolated ==
  /\ phase = "search"
  /\ stack # <<>>
  /\ Targets \subseteq discovered \ Elements(stack)
  /\ queue' = Append(queue, stack[Len(stack)])
  /\ stack' = SubSeq(stack, 1, Len(stack) - 1)
  /\ UNCHANGED <<graphVars, phase, discovered, histories>>

(* finish_vertex: everything r depends on has been explored.               *)
FinishReactor ==
  /\ phase = "search"
  /\ stack # <<>>
  /\ Targets \subseteq discovered \ Elements(stack)
  /\ LET r == stack[Len(stack)] IN
       queue' = IF life[r] = "member" THEN Append(queue, r) ELSE queue
  /\ stack' = SubSeq(stack, 1, Len(stack) - 1)
  /\ UNCHANGED <<graphVars, phase, discovered, histories>>

(* Mutant: any edge to a reactor already met counts as a back edge.        *)
DetectAnyEdge ==
  /\ phase = "search"
  /\ stack # <<>>
  /\ Targets \cap discovered # {}
  /\ phase' = "aborted"
  /\ UNCHANGED <<graphVars, search, queue, histories>>

(* back_edge: the search meets a reactor it is still exploring.            *)
DetectCycle ==
  /\ phase = "search"
  /\ stack # <<>>
  /\ Targets \cap Elements(stack) # {}
  /\ phase' = "aborted"
  /\ UNCHANGED <<graphVars, search, queue, histories>>

(* The search is over and cleanup() destroys the isolated reactors.        *)
Cleanup ==
  /\ phase = "search"
  /\ stack = <<>>
  /\ Members \subseteq discovered
  /\ phase' = "synchronize"
  /\ life' = [r \in Reactors |-> IF life[r] = "quarantined" THEN "none" ELSE life[r]]
  /\ updates' = [r \in Reactors |-> IF life[r] = "quarantined" THEN {} ELSE updates[r]]
  /\ UNCHANGED <<known, ownership, subscriptions, observations, now,
                 search, queue, histories>>

-----------------------------------------------------------------------------
(* doSynchronize, in the order of the queue                                *)

Dequeue(r) ==
  /\ phase = "synchronize"
  /\ queue # <<>>
  /\ r = Head(queue)
  /\ queue' = Tail(queue)

(* m_updates may hold a timeline r has given up since it posted there: if  *)
(* a new owner has posted on it, r publishes that.                         *)
Flushed(r) == {t \in updates[r] : nextObs[t] # NoObs}

SynchronizeReactor(r) ==
  LET why == [t \in Timelines |-> IF owner[t] = r THEN "regular" ELSE "foreign"] IN
  /\ Dequeue(r)
  /\ Synchronize(r)
  /\ Published(Flushed(r), Collected(r), why)
  /\ UNCHANGED <<phase, search>>

(* synchronize() fails: the agent kills r.                                 *)
FailReactor(r) ==
  /\ Dequeue(r)
  /\ KillReactor(r)
  /\ Published(internals[r], Collected(r), Regular)
  /\ UNCHANGED <<phase, search>>

StartDeliberation ==
  /\ phase = "synchronize"
  /\ queue = <<>>
  /\ phase' = "deliberate"
  /\ UNCHANGED <<graphVars, search, queue, histories>>

-----------------------------------------------------------------------------
(* What reactors, and the user, do                                         *)

(* Posting takes effect at the next synchronization of r only.             *)
Observe(r, t, v) ==
  /\ phase # "aborted"
  /\ r \in Members
  /\ PostObservation(r, t, v)
  /\ UNCHANGED tickVars

Declare(r, t) ==
  /\ phase = "deliberate"
  /\ r \in Members
  /\ \/ \E f \in OwnerFlags : Provide(r, t, f)
     \/ \E f \in ClientFlags : t \notin externals[r] /\ Use(r, t, f)
     \/ Unuse(r, t)
  /\ Published({}, {}, Regular)
  /\ UNCHANGED <<phase, search, queue>>

GiveUp(r, t) ==
  /\ phase = "deliberate"
  /\ Unprovide(r, t)
  /\ Published({t}, {}, Withdrawn)
  /\ UNCHANGED <<phase, search, queue>>

(* Mutant: the command is taken during deliberation as well.               *)
KillAnyTime(r) ==
  /\ phase \in {"start", "deliberate"}
  /\ KillReactor(r)
  /\ Published(internals[r], {}, Regular)
  /\ UNCHANGED <<phase, search, queue>>

(* The command K of the simulator.                                         *)
KillBetweenTicks(r) ==
  /\ phase = "start"
  /\ KillReactor(r)
  /\ Published(internals[r], {}, Regular)
  /\ UNCHANGED <<phase, search, queue>>

NextTick ==
  /\ phase = "deliberate"
  /\ UpdateTick
  /\ phase' = "start"
  /\ UNCHANGED <<search, queue, histories>>

-----------------------------------------------------------------------------
SearchStep ==
  \/ StartSearch
  \/ \E r \in Reactors : StartReactor(r) \/ RejectReactor(r)
  \/ FinishReactor
  \/ DetectCycle
  \/ Cleanup

SynchronizeStep ==
  \/ \E r \in Reactors : SynchronizeReactor(r) \/ FailReactor(r)
  \/ StartDeliberation

TickNext ==
  \/ SearchStep
  \/ SynchronizeStep
  \/ \E r \in Reactors, t \in Timelines, v \in Values : Observe(r, t, v)
  \/ \E r \in Reactors, t \in Timelines : Declare(r, t) \/ GiveUp(r, t)
  \/ \E r \in Reactors : KillBetweenTicks(r)
  \/ NextTick

TickSpec == TickInit /\ [][TickNext]_vars

-----------------------------------------------------------------------------
(* Properties                                                              *)

(* A reactor is never synchronized before one it depends on: what its      *)
(* servers publish in this tick is there when it collects, whatever        *)
(* failed on the way (finish_vertex of sync_scheduller).                   *)
ServersFirst ==
  phase \in {"search", "synchronize"} =>
    \A i, j \in DOMAIN queue : i < j =>
      \A t \in externals[queue[i]] : owner[t] # queue[j]

(* Once the search is over, every reactor left in the graph is             *)
(* synchronized, and none twice.                                           *)
EveryoneScheduled ==
  /\ \A i, j \in DOMAIN queue : queue[i] = queue[j] => i = j
  /\ Elements(queue) \subseteq Members
  /\ phase = "search" => \A r \in discovered \ Elements(stack) : 
                            r \in Members => r \in Elements(queue)

(* The agent gives up only on a true cycle: some reactors, all still in    *)
(* the graph, each depend on another of them.                              *)
AbortMeansCycle ==
  phase = "aborted" =>
    \E C \in (SUBSET Members) \ {{}} :
      \A r \in C : \E t \in externals[r] : owner[t] \in C

(* Collecting looks at the date of the current tick only, so a change that *)
(* a client has not seen in its tick is lost for this client.  After the   *)
(* synchronizations of a tick every change of it has been seen, failures   *)
(* included, unless the timeline was given up after that or published by a *)
(* former owner.                                                           *)
InTime(p) == phase # "deliberate" /\ obsDate[p[2]] = now

NothingUnseen == \A p \in unseen : cause[p[2]] = "regular" => InTime(p)

(* A timeline that showed something new in this tick does not change again *)
(* before the next, with the same exceptions: "There can be only one       *)
(* Observation per timeline" and tick.                                     *)
OneObservationPerTick ==
  [][\A t \in Timelines :
       lastObs'[t] # lastObs[t] /\ cause[t] = "regular" /\ cause'[t] = "regular"
         => obsDate[t] < now]_vars
=============================================================================
