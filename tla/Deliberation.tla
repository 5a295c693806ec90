---------------------------- MODULE Deliberation ----------------------------
(***************************************************************************)
(* How an agent shares a tick between its reactors.  Agent::doNext         *)
(* synchronizes every reactor once, asks each how urgent its deliberation  *)
(* is (TeleoReactor::workRatio), and then lets the most urgent one do one  *)
(* step at a time until nobody has work, the tick is over, or the clock    *)
(* asks it to stop; it then sleeps until the next tick.                    *)
(*                                                                         *)
(* A work ratio is 1.0/den.  The model keeps den, an integer: the multimap *)
(* m_edf orders 1.0/den from the largest to the smallest, which for den    *)
(* means 0 (infinity), then the positive ones upwards, then the negative   *)
(* ones upwards.  Equal ratios are served in an arbitrary order here.      *)
(* The AgentProxy, which never has work, is left out.                      *)
(***************************************************************************)
EXTENDS Integers

CONSTANTS
  Reactors,   \* the reactors an agent may have
  Latency,    \* getLatency(), a function of the reactor
  FinalTick,  \* m_finalTick of the agent
  MaxClock,   \* bound on the ticks the clock shows
  MaxSteps    \* bound on the deliberation steps of a reactor since its reset

ASSUME DeliberationAssumption ==
  /\ Latency \in [Reactors -> Nat]
  /\ FinalTick \in Nat
  /\ MaxClock \in Nat
  /\ FinalTick < MaxClock
  /\ MaxSteps \in Nat

VARIABLES
  mode,      \* where doNext is
  clock,     \* m_clock->tick()
  now,       \* the current tick of the agent
  alive,     \* the reactors of the graph
  fresh,     \* those whose m_firstTick is still set
  pending,   \* those of the synchronization queue
  queued,    \* the reactors of m_edf
  den,       \* the denominator of the ratio each was queued with
  idle,      \* m_idle
  deadline,  \* m_deadline
  steps,     \* m_nSteps
  busy,      \* those whose hasWork() last answered true
  thrown     \* an exception has cut a rescan short in this tick (history)

members == <<alive, fresh>>
schedule == <<queued, den, idle, deadline, steps, busy>>
vars == <<mode, clock, now, members, pending, schedule, thrown>>

(* "start": doNext is about to be called; "stopped": it returned false.    *)
Modes == {"start", "sync", "deliberate", "sleep", "stopped"}

TypeOK ==
  /\ mode \in Modes
  /\ clock \in Nat
  /\ now \in Nat
  /\ alive \subseteq Reactors
  /\ fresh \subseteq Reactors
  /\ pending \subseteq Reactors
  /\ queued \subseteq Reactors
  /\ den \in [Reactors -> Int]
  /\ idle \subseteq Reactors
  /\ deadline \in [Reactors -> Nat]
  /\ steps \in [Reactors -> Nat]
  /\ busy \subseteq Reactors
  /\ thrown \in BOOLEAN

Init ==
  /\ mode = "start"
  /\ clock = 0
  /\ now = 0
  /\ alive \in SUBSET Reactors
  /\ fresh = Reactors
  /\ pending = {}
  /\ queued = {}
  /\ den = [r \in Reactors |-> 0]
  /\ idle = {}
  /\ deadline = [r \in Reactors |-> 0]
  /\ steps = [r \in Reactors |-> 0]
  /\ busy = {}
  /\ thrown = FALSE

-----------------------------------------------------------------------------
(* Urgency                                                                 *)

(* Mutant: the latency is taken off.                                       *)
NewDeadlineTooEarly(r) == now - Latency[r]

(* reset_deadline                                                          *)
NewDeadline(r) == now + 1 + Latency[r]

(* Mutant: the last tick before the deadline is not counted.               *)
DenominatorWithoutLastTick(d, n) ==
  IF d < now /\ n > 0 THEN n + 1 ELSE (d - now) * (n + 1)

(* The denominator of workRatio when the reactor has work and has done n   *)
(* steps towards the deadline d.                                           *)
Denominator(d, n) ==
  IF d < now /\ n > 0 THEN n + 1 ELSE (d - now + 1) * (n + 1)

(* 1.0/a > 1.0/b, with 1.0/0.0 infinite: the order of m_edf.               *)
Precedes(a, b) ==
  \/ a = 0 /\ b # 0
  \/ a > 0 /\ b > a
  \/ a > 0 /\ b < 0
  \/ a < 0 /\ b < 0 /\ a < b

MostUrgent == {r \in queued : \A s \in queued : ~Precedes(den[s], den[r])}

(* Mutant: the deadline is not reset.                                      *)
RescanWithoutReset(Q, S, W, n) ==
  /\ busy' = (busy \ S) \cup W
  /\ queued' = Q \cup W
  /\ den' = [r \in Reactors |-> IF r \in W THEN Denominator(deadline[r], n[r]) ELSE den[r]]
  /\ UNCHANGED deadline
  /\ steps' = [r \in Reactors |-> IF r \in S \ W THEN 0 ELSE n[r]]

(* workRatio of every reactor of S, when those of W answer that they have  *)
(* work.  Those join the reactors of Q in m_edf, each by its ratio; the    *)
(* others get a new deadline.  n is the number of steps of each so far.    *)
Rescan(Q, S, W, n) ==
  /\ busy' = (busy \ S) \cup W
  /\ queued' = Q \cup W
  /\ den' = [r \in Reactors |-> IF r \in W THEN Denominator(deadline[r], n[r]) ELSE den[r]]
  /\ deadline' = [r \in Reactors |-> IF r \in S \ W THEN NewDeadline(r) ELSE deadline[r]]
  /\ steps' = [r \in Reactors |-> IF r \in S \ W THEN 0 ELSE n[r]]

-----------------------------------------------------------------------------
(* The graph and the clock                                                 *)

(* The tick of the clock moves on, whatever the agent is doing.            *)
ClockTick ==
  /\ clock < MaxClock
  /\ clock' = clock + 1
  /\ UNCHANGED <<mode, now, members, pending, schedule, thrown>>

(* A callback of a running reactor adds another one to the graph.          *)
Join(r) ==
  /\ mode \in {"sync", "deliberate"}
  /\ r \in fresh \ alive
  /\ alive' = alive \cup {r}
  /\ UNCHANGED <<mode, clock, now, fresh, pending, schedule, thrown>>

(* The command K of the simulator, between two calls of doNext.            *)
Kill(r) ==
  /\ mode = "start"
  /\ r \in alive
  /\ alive' = alive \ {r}
  /\ UNCHANGED <<mode, clock, now, fresh, pending, schedule, thrown>>

-----------------------------------------------------------------------------
(* Agent::doNext                                                           *)

MissionCompleted == alive = {} \/ now > FinalTick

EndMission ==
  /\ mode = "start"
  /\ MissionCompleted
  /\ mode' = "stopped"
  /\ UNCHANGED <<clock, now, members, pending, schedule, thrown>>

(* Mutant: m_edf is not emptied.                                           *)
StartTickKeepingQueue(F) ==
  /\ mode = "start"
  /\ ~MissionCompleted
  /\ F \subseteq alive
  /\ mode' = "sync"
  /\ alive' = alive \ F
  /\ fresh' = fresh \ alive
  /\ pending' = alive \ F
  /\ idle' = {}
  /\ deadline' = [r \in Reactors |->
       IF r \in alive \cap fresh THEN NewDeadline(r) ELSE deadline[r]]
  /\ steps' = [r \in Reactors |-> IF r \in alive \cap fresh THEN 0 ELSE steps[r]]
  /\ thrown' = FALSE
  /\ UNCHANGED <<clock, now, queued, den, busy>>

(* The first half of synchronize: both queues are emptied and newTick() is *)
(* called on every reactor; those of F fail and cleanup() kills them.  A   *)
(* reactor in its first tick gets a deadline, even if it fails then.       *)
StartTick(F) ==
  /\ mode = "start"
  /\ ~MissionCompleted
  /\ F \subseteq alive
  /\ mode' = "sync"
  /\ alive' = alive \ F
  /\ fresh' = fresh \ alive
  /\ pending' = alive \ F
  /\ queued' = {}
  /\ idle' = {}
  /\ deadline' = [r \in Reactors |->
       IF r \in alive \cap fresh THEN NewDeadline(r) ELSE deadline[r]]
  /\ steps' = [r \in Reactors |-> IF r \in alive \cap fresh THEN 0 ELSE steps[r]]
  /\ thrown' = FALSE
  /\ UNCHANGED <<clock, now, den, busy>>

(* doSynchronize of r succeeds and its work ratio is computed.             *)
SynchronizeReactor(r, W) ==
  /\ mode = "sync"
  /\ r \in pending
  /\ W \subseteq {r}
  /\ pending' = pending \ {r}
  /\ Rescan(queued, {r}, W, steps)
  /\ idle' = idle \cup ({r} \ W)
  /\ UNCHANGED <<mode, clock, now, members, thrown>>

(* doSynchronize of r fails: r is killed.                                  *)
FailSynchronization(r) ==
  /\ mode = "sync"
  /\ r \in pending
  /\ pending' = pending \ {r}
  /\ alive' = alive \ {r}
  /\ UNCHANGED <<mode, clock, now, fresh, schedule, thrown>>

(* A handler that workRatio calls for a goal, a recall or a plan token     *)
(* throws: nothing catches it in synchronize or doNext, which is left.     *)
HandlerThrows(r) ==
  /\ mode = "sync"
  /\ r \in pending
  /\ mode' = "stopped"
  /\ UNCHANGED <<clock, now, members, pending, schedule, thrown>>

StartDeliberation ==
  /\ mode = "sync"
  /\ pending = {}
  /\ mode' = "deliberate"
  /\ UNCHANGED <<clock, now, members, pending, schedule, thrown>>

(* Mutant: a reactor put back in m_edf is not taken off m_idle.            *)
ExecuteKeepingIdle(r, S, W, n) ==
  /\ mode = "deliberate"
  /\ clock = now
  /\ r \in MostUrgent
  /\ S \subseteq idle \cup {r}
  /\ W \subseteq S
  /\ idle' = idle \cup {r}
  /\ Rescan(queued \ {r}, S, W, n)
  /\ UNCHANGED <<mode, clock, now, members, pending>>

(* executeReactor: the most urgent reactor r leaves m_edf for m_idle and   *)
(* does a step; then those of S, among the idle ones, are asked again.     *)
Execute(r, S, W, n) ==
  /\ mode = "deliberate"
  /\ clock = now
  /\ r \in MostUrgent
  /\ S \subseteq idle \cup {r}
  /\ W \subseteq S
  /\ idle' = (idle \cup {r}) \ W
  /\ Rescan(queued \ {r}, S, W, n)
  /\ UNCHANGED <<mode, clock, now, members, pending>>

OneMoreStep(r) == [steps EXCEPT ![r] = @ + 1]

(* Mutant: nobody is asked after a step.                                   *)
ExecuteWithoutRescan(r, W) ==
  /\ steps[r] < MaxSteps
  /\ Execute(r, {}, {}, OneMoreStep(r))
  /\ UNCHANGED thrown

(* The step succeeds and every idle reactor, r included, is asked again.   *)
ExecuteReactor(r, W) ==
  /\ steps[r] < MaxSteps
  /\ Execute(r, idle \cup {r}, W, OneMoreStep(r))
  /\ UNCHANGED thrown

(* resume() throws: the step is not counted and nobody is asked.           *)
StepThrows(r) ==
  /\ Execute(r, {}, {}, steps)
  /\ thrown' = TRUE

(* A handler called by the work ratio of one idle reactor throws: those    *)
(* that come after it in m_idle are not asked.                             *)
RescanThrows(r, S, W) ==
  /\ steps[r] < MaxSteps
  /\ S # idle \cup {r}
  /\ Execute(r, S, W, OneMoreStep(r))
  /\ thrown' = TRUE

(* The loop ends: m_edf is empty, the tick is over, or the clock says that *)
(* it is not free any more.                                                *)
Exhausted ==
  /\ mode = "deliberate"
  /\ queued = {}
  /\ mode' = "sleep"
  /\ UNCHANGED <<clock, now, members, pending, schedule, thrown>>

OutOfTime ==
  /\ mode = "deliberate"
  /\ clock # now
  /\ mode' = "sleep"
  /\ UNCHANGED <<clock, now, members, pending, schedule, thrown>>

NotFree ==
  /\ mode = "deliberate"
  /\ queued # {}
  /\ clock = now
  /\ mode' = "sleep"
  /\ UNCHANGED <<clock, now, members, pending, schedule, thrown>>

(* Mutant: updateTick is forgotten.                                        *)
WakeInSameTick ==
  /\ mode = "sleep"
  /\ clock # now
  /\ mode' = "start"
  /\ UNCHANGED <<clock, now, members, pending, schedule, thrown>>

(* The sleep loop ends with the tick, and updateTick follows the clock,    *)
(* over several ticks if need be.                                          *)
Wake ==
  /\ mode = "sleep"
  /\ clock # now
  /\ now' = clock
  /\ mode' = "start"
  /\ UNCHANGED <<clock, members, pending, schedule, thrown>>

(* Clock::Error, or the agent is destroyed: m_valid becomes false.         *)
Invalidate ==
  /\ mode \in {"deliberate", "sleep"}
  /\ mode' = "stopped"
  /\ UNCHANGED <<clock, now, members, pending, schedule, thrown>>

-----------------------------------------------------------------------------
Deliberate(r) ==
  \/ \E W \in SUBSET (idle \cup {r}) : ExecuteReactor(r, W)
  \/ StepThrows(r)
  \/ \E S \in SUBSET (idle \cup {r}) : \E W \in SUBSET S : RescanThrows(r, S, W)

AgentStep ==
  \/ EndMission
  \/ \E F \in SUBSET alive : StartTick(F)
  \/ \E r \in Reactors : \E W \in SUBSET {r} : SynchronizeReactor(r, W)
  \/ \E r \in Reactors : FailSynchronization(r)
  \/ \E r \in Reactors : HandlerThrows(r)
  \/ StartDeliberation
  \/ \E r \in Reactors : Deliberate(r)
  \/ Exhausted
  \/ OutOfTime
  \/ NotFree
  \/ Wake

Next ==
  \/ ClockTick
  \/ \E r \in Reactors : Join(r)
  \/ \E r \in Reactors : Kill(r)
  \/ AgentStep
  \/ Invalidate

Spec == Init /\ [][Next]_vars

(* The thread that runs the agent and the clock both make progress.        *)
FairSpec == Spec /\ WF_vars(ClockTick) /\ WF_vars(AgentStep)

-----------------------------------------------------------------------------
(* Properties                                                              *)

Scheduling == mode \in {"sync", "deliberate"}

(* While a tick is processed, every reactor that started it is in exactly  *)
(* one place: to be synchronized, in m_edf, or in m_idle.  None is lost by *)
(* an exception or a failure, none is there twice, none has been killed;   *)
(* only a newcomer waits outside for its first tick.                       *)
EachReactorOnce ==
  Scheduling =>
    /\ queued \cap idle = {}
    /\ pending \cap (queued \cup idle) = {}
    /\ alive \ fresh = pending \cup queued \cup idle

(* A ratio in m_edf is never stale: it is what workRatio would return now  *)
(* if it were called again (executeReactor only asks the idle reactors).   *)
RatiosAreCurrent ==
  Scheduling =>
    \A r \in queued : r \in busy /\ den[r] = Denominator(deadline[r], steps[r])

(* A scheduled reactor whose deadline is not ahead has answered that it    *)
(* has work: the answer that it has none always moves the deadline ahead,  *)
(* in every path of workRatio, whatever tick it is asked in.               *)
LateMeansBusy ==
  Scheduling => \A r \in queued \cup idle : deadline[r] <= now => r \in busy

(* Of two reactors with as many steps done, the one with the closer        *)
(* deadline is served first, as long as it is not late, or late by one     *)
(* tick without any step done.                                             *)
CloserDeadlineFirst ==
  Scheduling =>
    \A r, s \in queued :
      /\ steps[r] = steps[s]
      /\ deadline[r] < deadline[s]
      /\ now <= deadline[r] \/ (steps[r] = 0 /\ now <= deadline[r] + 1)
      => Precedes(den[r], den[s])

(* Deliberation never ends for lack of work while the last answer of some  *)
(* scheduled reactor was that it has some, unless an exception cut a       *)
(* rescan short in this tick.                                              *)
NoWorkForgotten ==
  [][Exhausted /\ ~thrown => busy \cap idle = {}]_vars

(* An agent with a final tick stops: no tick goes on for ever, whatever    *)
(* the reactors answer and throw.                                          *)
MissionEnds == <>(mode = "stopped")
=============================================================================
