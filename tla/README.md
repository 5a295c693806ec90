# TLA+ models of T-REX for the Wave Glider

The repository holds T-REX 0.5.1, a framework for controlling robots by a set
of cooperating planners, and a small program that talks to the command and
control computer of a Wave Glider.  This directory holds TLA+ modules for the
part of T-REX in which its own logic lies (`src/trex-0.5.1/trex`, and the
planner reactor in `extra/europa`), the TLC configurations that check them, and
theorems checked by TLAPS.

## The system

An **agent** runs a set of **reactors**.  A reactor owns some **timelines**
(its Internals) and subscribes to others (its Externals).  The owner of a
timeline posts **observations** on it, one per tick, which go to all clients;
clients post **goals**, which go to the owner; the owner may publish the
**tokens** of its plan.  Time advances in **ticks**, given by a clock.

| Component | State | Operations |
|---|---|---|
| Timeline and Relation (`Relation.cc`, `bits/timeline.hh`) | `m_owner`, `m_transactions`, `m_clients`, `m_plan_listeners`, `m_last_obs`, `m_next_obs`, `m_obs_date` | assign, unassign, subscribe, unsubscribe, postObservation, synchronize, request, recall, notifyPlan, cancelPlan, latency_update |
| Transaction graph (`reactor_graph.cc`) | `m_reactors`, `m_quarantined`, `m_timelines`, the current tick and its cache | add_reactor(s), kill_reactor, isolate, cleanup, clear, assign, subscribe, updateTick |
| Reactor base class (`TeleoReactor.cc`) | `m_internals`, `m_externals` with their pending goals, `m_updates`, four queues of goals and their counter, deadline, steps, `m_maxDelay` | use, provide, unuse, unprovide, postObservation, postGoal, postRecall, postPlanToken, cancelPlanToken, newTick, doNotify, doSynchronize, workRatio, step, isolate |
| Agent (`Agent.cc`) | `m_edf`, `m_idle`, `m_finalTick`, `m_valid` | initComplete, doNext (synchronize, executeReactor, sleep), missionCompleted |
| Clocks (`Clock.cc`, `RealTimeClock.hh`, `StepClock.cc`, `LogClock.cc`) | tick, free, count | tick, is_free, sleep |
| Domains, goals, observations (`domain/`, `Goal.cc`, `Predicate.cc`) | intervals and enumerations | restrict, intersect, merge |
| EUROPA planner (`extra/europa/EuropaReactor.cc`, `core/Assembly.cc`, `core/CurrentState.cc`, `core/SynchronizationManager.cc`) | a plan of tokens (in the EUROPA library), per timeline the last observation, the one before and their frontiers; the tables `m_active_requests`, `m_dispatched`, `m_plan_tokens`; two solvers with their decisions; completed and committed tokens | handleTickStart, notify, synchronize (commit, search, relax), hasWork, resume, handleRequest, handleRecall, dispatch, plan_dispatch, archive |
| Log player (`LogPlayer.cc`) | recorded phases and events | replay of a tick |
| Utilities (`utils/`) | strands, shared variables, log files, singletons, symbols, plug-ins | strand_run, syslog, ... |
| Other plug-ins (`extra/`: REST, examples, lsts, mbari, ros) | their own | reactors written on the base class |
| Command controller (`src/CommandController`) | number of queued commands, a serial port with leftovers of earlier reads | polling loop, packets, reads with timeout |

How they interact.  A reactor never calls another one.  It calls its own base
class, which hands a task to the **strand** of the graph (a boost::asio strand
run by a pool of threads); the task changes timelines and calls back both
reactors of a relation.  `strand_run` waits for its task, `dispatch` does not.
The agent calls the reactors from its own thread: in a tick, newTick on all of
them from a depth-first search that also sorts them, then doSynchronize and
workRatio on each in that order, then step on the most urgent one as long as
the tick lasts.  A plug-in may have threads of its own (the HTTP service of the
REST plug-in), which post and recall goals at any time.

What is hard.  Relations are recorded twice and kept equal by callbacks;
reactors fail, throw, or are killed between any two steps of a tick; owners
change while observations and goals are under way; observations are recognized
by their date alone; the order of synchronization is computed by a search
during which the graph changes; a tick may be missed altogether; goals cross
from thread to thread through four queues and one counter.  In the planner, a
search settles the state of all its timelines at every tick and is undone, cut
or tried again after parts of the plan were thrown away; three tables must
follow tokens that a library creates, cancels and deletes.  `PROJECT.json`
lists each hazard at its line with the properties that look at it.

What makes each component correct:

* graph: both records of every relation agree, nothing refers to a destroyed
  reactor, a timeline without owner shows Failed, what is posted gets published;
* tick: servers before clients, everyone once, nothing of a tick unseen;
* deliberation: every reactor in one list, ratios up to date, no reactor with
  work forgotten, the end of the mission reached;
* goals: each in one place, in the order of the queue, requests and recalls
  reaching the owner in the order in which they were made;
* plan tokens: each listener told once of a token and of its cancellation;
* planner, synchronization: one state per tick, no gap and no overlap in the
  history of a timeline, failed searches leave nothing behind, an end in time;
* planner, deliberation: every command asked for once while it is needed and
  recalled when it is not, what is announced is planned;
* dates of goals: exactly the schedules that were asked for;
* latencies: `m_maxDelay` equal to the largest latency depended on;
* domains: the operations equal to those on sets.

## Modules

| Module | Models | Checked by |
|---|---|---|
| `TimelineBoard` | what the graph promises: owners and the values they show (abstract) | through `TimelineGraph` |
| `TimelineGraph` | timelines, relations, declarations, observations, the life of reactors | `MCTimelineGraph`, `TimelineGraph_proofs` |
| `AgentTick` | extends `TimelineGraph` with the order of calls in a tick | `MCAgentTick`, `AgentTick_proofs` |
| `Deliberation` | doNext, the two scheduling lists, deadlines and ratios | `MCDeliberation`, `Deliberation_proofs` |
| `GoalFlow` | the way of a goal from client to owner, over the strand | `MCGoalFlow`, `GoalFlow_proofs` |
| `StateHistory` | what a planner promises of its timelines (abstract) | through `StateVariables` |
| `StateVariables` | how the planner settles the state of its timelines at a tick | `MCStateVariables`, `StateVariables_proofs` |
| `PlanTokens` | announced tokens and their cancellation, from owner to listener | through `Planner` |
| `Planner` | requests, decisions, commands and announced tokens of the planner, archive and relaxation | `MCPlanner`, `Planner_proofs` |
| `GoalTimes` | interval domains and the restriction of the dates of a goal | `MCGoalTimes`, `GoalTimes_proofs` |

`AgentTick` composes the graph with the agent, `Planner` the planner with a
listener of its plan (`PlanTokens`).  `TimelineGraph` implements `TimelineBoard`
and `StateVariables` implements `StateHistory`, each by an `INSTANCE ... WITH`
that gives the abstract variables in terms of the detailed ones.  `Deliberation` and `GoalFlow`
each look at one aspect of the same code and share no state with the others:
`workRatio` appears in `Deliberation` as an answer and in `GoalFlow` as the
place where goals are flushed.

Operators with a comment "Mutant: ..." are versions of the definition after
them with a plausible bug; no specification uses them.  They show that a
property depends on the code: put in the place of the definition, they break it.

### TimelineGraph

The variables are the fields of `details::timeline` (`owner`, `rights`,
`clients` with their two flags as the sets `posters` and `listeners`,
`planListeners`, `nextObs`, `lastObs`, `obsDate`) and of `TeleoReactor`
(`internals`, `externals`, `updates`), the life of each reactor, and the tick.
An action is a whole call, with the callbacks it makes: for instance `Provide`
is graph::assign, get_timeline, timeline::assign, the unsubscription when the
reactor was a client, and TeleoReactor::assigned.  All of them run on the
strand, so a call is one step.  `TimelineGraph` allows every order of them.

`RefuseNamesake` and `RefuseNamesakeClient` are what remains of a second
reactor of a name that is taken: built, refused and destroyed within one call
of `add_reactor`.  `AbortedLoad`, in a specification of its own, is the
constructor that throws half way.

Names are identities here, values are members of a small set; the text of the
logs, the listeners of the graph and the latencies are left out.

### AgentTick

The depth-first search is a stack of reactors being explored and a set of those
discovered, each edge followed in any order.  `RejectReactor` is a newTick that
fails inside the search, `FailReactor` a synchronize that fails, and
`KillBetweenTicks` the command K of the simulator.  The pair `unseen`, `cause`
is history: which client has not collected which change, and how this change
came about.

Declarations are changed during deliberation only.  In the code handleTickStart,
synchronize, and the handlers called by workRatio may change them too, in the
middle of the search or of the synchronizations; the properties of the order
are about the graph the search has seen, and do not hold for an edge added
after it.  Reactors added while the agent runs are left out here (they are in
`TimelineGraph` and `Deliberation`).

### Deliberation

`mode` is the place in doNext.  `m_edf` is the set `queued` with the
denominator each ratio was computed from: doubles 1/den are compared by
`Precedes`, which is the order of 1.0/den with 1.0/0 infinite.  Every answer of
hasWork, every exception from resume and from the handlers, newcomers, failures
of newTick and of synchronize, kills between ticks, a clock that runs on at any
moment, `is_free` and the error of a clock are choices.  The proxy reactor of
the agent, which is never scheduled, is left out.

### GoalFlow

One client, one timeline, servers that may own it in turn.  `pending` is the
queue of `details::external`; `strand` the tasks handed over and not run;
`requests`, `recalls`, `have` are `m_sync_goals`, `m_sync_recalls` and
`m_have_goals`.  `Dispatch` is the whole loop of external::dispatch, including
the restriction of the start of the goals it visits.  On the strand (`NewTick`)
a goal is queued at once, off it (`DispatchAhead`) by a task.  With
`OtherThread`, `CallPostGoal` and `CallPostRecall` come at any moment between
the steps of the agent.  A goal is posted once.  A start without bounds, the
default of the code, is `[MinusInf, PlusInf]`: integers that no date of a
dispatch reaches, so that all comparisons come out as with infinite bounds.
`DispatchAhead`, which dispatches for the next tick, stops one tick before the
clock does.  The dispatch at the end of
workRatio walks the queue without the strand: here it is one step, so its data
race with a post from another thread is out of the model.

### StateVariables

One tick of the planner: `TickStart`, `Observe` (the notifications of External
timelines), `CommitExternals`, the search of the synchronizer over the Internal
ones (`Decide`, `Inconsistent`, `Undo`, `Retry`, until `Solve`, `Exhaust` or
`Cut`), up to three attempts with a relaxation in between, and `Publish`.
`last`, `prev`, `front`, `prevFront` are `m_last_obs`, `m_prev_obs`,
`m_frontier`, `m_prev_frontier`; a frontier has the date of its base domain and
that of its derived domain.  `todo` is the stack of decision points, each with
the choices it has left; since the timelines are decided in the order of their
keys the stack is a function from timelines.  `finished` is history: where the
observation before the last one was terminated.

The EUROPA library is not in the repository.  What the plan says of a timeline
is `bound` (the last observation must go on, must end, may do both) and `next`
(tokens that may start now), chosen at the start of the tick and again after a
relaxation; the propagation may find an inconsistency after any choice.  The
limits `m_synchSteps` and `m_synchDepth` cut the search at any point.  Flaws of
other kinds that the synchronizer resolves are part of "inconsistent or not".
The merge of an observation with a planned token, and the reference counts, are
left out.

### Planner and PlanTokens

`state` is that of the tokens in the plan.  Goals are requests of other
reactors on Internal timelines; commands are tokens on External timelines,
slaves of a goal or of an observation (`Fact`).  `requests`, `dispatched`,
`planned` are the three tables; `decided` the decisions on the stack of the
planner, `stepped` and `completed` its progress.  `out` counts the goals posted
for a command which nobody recalled and which are not over; `over` the plan
tokens that are over.  Both are history.  `Remove` is what the callbacks of the
plan data base do when tokens are cancelled and deleted: EuropaReactor::cancel,
then discard.  Every relaxation, recall and backtrack goes through it; `Archive`
goes through discard only.  `pc` follows synchronize, hasWork and resume through
their early returns.

`Archive` deletes a master when its slaves are over.  The code also deletes one
whose slave has started without being over, on an External timeline without
look-ahead (`Assembly.cc:909`).  A command in `m_dispatched` was sent to a
timeline with look-ahead, so it is in that case only if the timeline lost its
owner or its rights since; owners and rights of timelines do not change here
(they do in `TimelineGraph`), and a recall would find no owner to go to.

`PlanTokens` is the other end: the queue of a listener, the cancels queued, and
what workRatio makes of them.  It listens with the rights it has all along; how
rights are gained and lost is in `TimelineGraph`.

A goal that is rejected (`StepReject`) or unknown leaves no trace but its
state.  Actions, conditions and effects (`do_dispatch` chooses a goal behind an
action) are choices: any active command may fall in the window.

### GoalTimes

A bound is a pair of sign of infinity and value, as in `IntervalDomain::bound`;
`Lt`, `MinB`, `MaxB`, `Plus`, `Minus` are its operators, `Plus` and `Minus`
with the argument `onInf` they return when an operand is infinite.  `Restrict`
is restrictTime with everything it tests and the three assignments at its end,
`StartsAfter` the call made by the dispatch.  `wanted` is the abstract value: a
set of schedules.  Numbers are unbounded: ticks stay far from the limits of
`long long`.

## Runs

| Run | Bounds | Shows |
|---|---|---|
| `timeline_graph` | 2 reactors, 2 timelines, 1 value, 2 ticks (0 and 1) | all invariants of the graph, dated changes, and that it implements `TimelineBoard` |
| `aborted_load` | the same, one tick | violation of `OwnerExists`: an owner that does not exist |
| `agent_tick` | 3 reactors, 2 timelines, 2 ticks | order, completeness and single publication of a tick, with failures anywhere |
| `deliberation` | 2 reactors of latencies 0 and 1, final tick 3, clock to 4, 2 steps | scheduling invariants, no forgotten work, the end of the mission |
| `goal_flow` | 2 goals (one with the default start), 1 server, another thread, 4 ticks | requests are handled, pending goals leave the queue or are refused again and again |
| `goal_owners` | 2 goals with one upper bound, 2 servers, agent thread only, 3 ticks | sorted queue, goals in one place, last word of the client holds |
| `goal_race` | as `goal_flow` | violation of `LastWordHolds`: a recall overtakes its request |
| `state_variables` | Internal timelines 1 and 3, External timeline 2, 2 predicates, 2 ticks | history without gaps, undone searches, the refinement of `StateHistory`, the end of synchronization |
| `planner` | 2 goals, a command of one of them, a command of an observation, 2 ticks, 2 plan tokens, 2 goals out per command | commands and announcements follow the plan |
| `forgotten_past` | the same | violation of `PastKept`: two relaxations where one was meant |
| `cancelled_plan` | the same | violation of `CancelsHeard`: a cancel that no listener hears |
| `goal_times` | bounds 0 to 2 and infinite, dispatch at 0, 1 and 3, delays 0 and 1 | exact propagation, no exception where none is caught |

Why these bounds.  Two reactors are the owner and a client, and also two
candidates for one name; the second timeline makes them depend on each other
and isolates one relation from the other's changes; the theorems lift the
bound.  The order of a tick needs three reactors: a server, a client, and one
that fails or stands between them, and it closes within a tick, so two ticks
are enough for what is carried over.  Deliberation needs two reactors to
have an order at all and different latencies for their deadlines to cross; the
clock may pass the final tick.  In `goal_flow` one goal has the
default start `[-inf,+inf]` and the other `[2,2]`: the second stands first in the
queue although the first may start earlier, one outlives every window, the other
is in the past before the clock stops.  In `goal_owners` both must start by 2 and
only the lower bounds, `-inf` and 2, order them: the dispatches raise the first
to 1 and 2 while the second is beyond the window, so that the two become equal,
and the search passes over the one to find the other.  Both end in the past at
the last tick.  A tick of `StateVariables` has everything in it; a second tick
shows what the first leaves behind.  Two Internal timelines are needed for a
stack of decisions, and an External one with a key between theirs for commits
around them; each choice of `DecisionPoint` occurs, and two planned tokens may
compete for the first observation.  In `Planner` one goal has a slave and one
has none, a command is posted twice at most unless it is an error, and the two
plan tokens allow an announcement, its cancel and a second one; the tick between
them is where the past begins.  `GoalTimes` closes after a few calls: each
domain can only shrink.

Deadlock is not checked where the system stops on purpose: an aborted search,
an agent whose mission is over, a clock at its bound.

### Fairness

`MissionEnds` assumes that the clock and the thread of the agent make progress:
`doNext` is a loop that never blocks except in the sleep of the clock, which
ends with the tick.  Nothing is assumed of reactors and of errors of the clock.
`RequestsReachHandler` and `PendingGoalsLeave` assume that the pool of threads
runs the tasks of the strand, that the agent goes on, and that a tick comes
again and again (strong fairness, because the agent may ask for work ratios any
number of times in a tick, but `doNext` leaves its loop when the clock has
ticked).  At `MaxTick` the clock of `GoalFlow` stands still while ticks of the
agent go on, which only makes goals wait longer; `BoundedGoalsLeave` is about
goals whose time is over by then (`Bounded`).  `OpenGoalsLeave`, the other half
of `PendingGoalsLeave`, has its condition
in the property, not in the specification: nothing obliges a timeline to be
provided, to take goals, or a sending not to throw.

`SynchronizationEnds` assumes weak fairness of the steps of synchronize(), a
single call on the thread of the agent.  It needs nothing of the EUROPA library
but that its propagation returns: every step uses up a choice, an attempt or
the stack.

### What the violations mean

The four runs marked as violations record bugs of the code; `PROJECT.json`
quotes what each contradicts.  The passing properties next to them state what
does hold: `NoDanglingReference` without aborted constructors, `goal_owners`
without the other thread, `AnnouncedIsPlanned` on the side of the owner.  With
the other thread a server may keep a goal that was recalled, but it never misses
one that is wanted (`NoRequestLost`, a theorem).

### Known limits of the code

Met while modelling, without a run of their own:

* workRatio treats lateness apart only when some step was done
  (`TeleoReactor.cc:561`): a reactor two ticks late without a step gets a
  negative ratio and is served last.  `CloserDeadlineFirst` excludes the case.
* collect_obs_sync takes observations of the current tick only
  (`TeleoReactor.cc:840`): a timeline given up during deliberation shows Failed
  under a date that no client collects.  `m_updates` keeps the timelines a
  reactor gave up (`TeleoReactor.cc:887`): it may publish the observation of the
  next owner after a client collected.  `NothingUnseen` excludes both causes.
* dispatch stops at the first goal whose start has its lower bound beyond the
  window, in a queue sorted by upper bound (`TeleoReactor.cc:222`): a goal that
  could be sent may stand behind it.
* A goal with the default start is never in the past, since startsAfter always
  holds for it (`TeleoReactor.cc:223`): pending on a timeline that has no owner,
  no right for goals or no look-ahead, or marked non-postable until the next
  assign (`:246`), it stays in the queue until it is recalled.  A timeline that
  refuses for ever keeps all such goals.  The first half of
  `PendingGoalsLeave` is about goals that must start by some date, the second
  says that refusal is the only cause.
* An exception of a goal handler loses the goals flushed with the one it
  handled (`TeleoReactor.cc:510`), and during synchronization nothing catches it:
  doNext is left (`Agent.cc:857`).  `RequestsReachHandler` and `LastWordHolds`
  except these goals; `RequestsReachHandler` excepts an agent that has stopped.
* do_relax clears `m_dispatched` (`EuropaReactor.cc:439`) although a relaxation
  keeps the slaves of observations that are still true: a command of theirs is
  posted a second time and the first goal never recalled.  `CommandsAccounted`
  is about the commands of goals.
* The loop of synchronize that should drop completed commands from
  `m_dispatched` (`EuropaReactor.cc:497`) looks at the previous observations,
  which commit has just reset: it does nothing.
* The command controller takes the size of a packet minus 12 without a test
  (`payloadpacket.cpp:58`), drops a header it does not recognize whole (`:24`),
  and never tests the checksum (`:73`); `TimeoutSerial::read` calls `run_one`
  again without `reset` (`TimeoutSerial.cpp:99`).

## Theorems

For every number of reactors, timelines, values and ticks:

* `TimelineGraph_proofs`: the invariants of `timeline_graph`, `ChangesAreDated`
  and the refinement of `TimelineBoard`.  The inductive invariant `GraphInv`
  joins the types with the mirrored records (timeline to reactor and back), the
  rule that a reactor which is gone has no relation at all, the count of
  listeners, and the contents of timelines (an orphan shows Failed; what is
  posted is in the updates of the owner).  The mirror is what makes the rest
  inductive: unassign trusts `internals` to be exactly the timelines owned,
  otherwise the isolation of a reactor would leave some behind.  The count
  needs finite sets of reactors, an assumption of the module, and is carried by
  the theorems on cardinality of adding and removing one element.  Each action
  is first reduced to the few shapes of change it can make (a release of
  timelines, a subscription, the end of subscriptions), each shape is a lemma.
* `AgentTick_proofs`: the invariants of `agent_tick` and its action property,
  from `GraphInv` (every action of the agent is one of the graph, but `Cleanup`)
  and the rule that only members have relations.  `SearchInv` is the usual
  invariant of a depth-first search: the list holds exactly the members that
  are explored, what these depend on is explored too, and the stack is a path
  of relations.  The twist is that `newTick` may fail on the way: the reactor
  that is isolated then is on top of the stack, without relations, so it is the
  next to leave it, and no back edge can start from it.  Hence a back edge closes
  a true cycle (`AbortMeansCycle`), and a finished reactor has all its servers
  in the list before it (`ServersFirst`).  `Processed` says that what left the
  list depends on nothing that is in it; from there, the clients of a reactor
  about to publish are all behind it in the list, which gives `SeenInv` and so
  `NothingUnseen`.  `OnceInv` says that a timeline with a value of this tick has
  an owner that left the list, or none: `OneObservationPerTick` follows.
  The composition is a theorem too: every step of a tick changes the graph by
  one operation of `TimelineGraph` or by the cleaning up of isolated reactors
  (`AgentOnlyUsesGraph`), hence the invariants of the graph, dated changes and
  the steps of `TimelineBoard` hold in every tick (`GraphHoldsInTicks`,
  `ChangesDatedInTicks`, `AgentKeepsBoard`).
* `Deliberation_proofs`: the invariants of `deliberation`.  `EachReactorOnce`,
  `RatiosAreCurrent` and `LateMeansBusy` are inductive together: they say
  something of a tick under way only, and `StartTick`, which empties the lists,
  establishes them from nothing.  A step of the most urgent reactor keeps the
  ratios of the others current because these did not step, and the others are
  not asked because they are not idle: this is where `EachReactorOnce` is
  needed.  `CloserDeadlineFirst` follows from current ratios by arithmetic.
  `NoWorkForgotten` follows from an invariant of the whole deliberation: an idle
  reactor answered last that it has no work, unless something threw in this tick
  (`IdleHaveNoWork`), because only the answer of a reactor moves it to `idle`.
* `GoalFlow_proofs`: the invariants of the three runs of `GoalFlow`, for any
  goals, servers, dates and latencies, by four invariants, the last three of
  which rest on the first.  `FlowInv` holds whatever the threads do: the queue is sorted, a
  goal is in one place, the counter of a server is the length of its two lists,
  a goal not posted yet is nowhere.  Order and place need each other: the
  search that stops early misses nothing in a sorted queue only
  (`SearchMissesNone`), and because it misses nothing a goal is not inserted
  twice.  The order survives the raising of lower bounds because dispatch
  visits a prefix of the queue and raises it to the current tick at most, while
  a goal of the same upper bound that it does not visit starts later anyway.
  `WordInv` follows a request and its recall to the owner, and needs that no
  other thread posts or recalls: then a recall finds the strand empty, so it is
  behind its request (`LastWordKept`; otherwise `goal_race` shows what happens).
  `RequestInv` is what remains true with another thread: a request is never
  lost (`RequestNeverLost`).  `CopyInv` adds that a goal is not twice on its
  way to one server, hence handled once at most (`HandledAtMostOnce`).  The
  lists of dispatch and recall are walks that erase entries (`Keep`); what a
  walk leaves is shown from the least step at which it would be wrong, since
  induction itself takes an operator as parameter.
* `StateVariables_proofs`: the invariants of `state_variables` and the refinement
  of `StateHistory`.  The search is what makes an invariant hard to find: a
  timeline changes under it, and is put back.  `StateInv` says of each Internal
  timeline that it is either *kept* (its observation is older than the tick and
  its frontier at most now or just extended) or *replaced* (a new observation
  starts now, and the one before is in `prev` with a frontier that is free to
  end now), that decision points are open exactly for the timelines already
  decided, and that External timelines are committed first.  Both forms are
  what `TakeBack` needs to restore a kept timeline from its `prev`.
  `ObservationsTile` then follows when the commit closes a tick.  `SearchInv`
  adds what the search may leave behind at its first attempt, for
  `ExhaustedSearchRestores`.  The refinement follows from `StateInv`: `Publish` maps to the abstract step, a kill to the end of
  the history, everything else to a stutter.  Of `SynchronizationEnds` the
  safety half is proved: `StandInv` says which timelines are still flaws, and
  every step of synchronize uses up an attempt, a stage, or something of the
  stack of decisions, compared from its bottom (`SynchronizeMakesProgress`).
* `Planner_proofs`: the invariants of `planner`.  `PlannerInv` adds to them that
  the slaves of a goal are in the plan only while the goal is active, that every
  command in `m_dispatched` has a goal posted, that decisions concern tokens of
  the plan, and that no two goals are announced under one goal_id (a cancel
  would hit both).  All that takes tokens out of the plan goes through `Remove`,
  so recalls, backtracks and the four relaxations share one lemma; it has the
  two cases of `m_dispatched` being updated token by token or cleared, and the
  second is sound only because a relaxation cancels every active goal.
  `NeverWithdrawnSilently` is the action property behind `AnnouncedIsPlanned`:
  what leaves the plan is over or cancelled with its listeners, whichever way it
  left, so that the run `cancelled_plan` convicts the listening side alone.
* `GoalTimes_proofs`: the invariants of `goal_times`, for any bounds.  The
  invariant is `Propagated` (one round of propagation changes nothing more),
  the equality of the domains with the set of schedules asked for, and a
  duration of at least 1.  Its core is arithmetic on intervals with infinite
  bounds: the round of restrictTime, in the order of the code, reaches a
  fixpoint, and loses no schedule.

The proofs use the assumptions on constants that the modules name
(`GraphAssumption`, `AgentTickAssumption`, `DeliberationAssumption`,
`GoalFlowAssumption`, `StateAssumption`, `PlannerAssumption`,
`PlanTokensAssumption`, `GoalTimesAssumption`), which TLC
evaluates in every run of these modules.  The only theorem with a hypothesis of
its own is `LastWordKept`, about a client without another thread.

Only model-checked: the liveness properties (`MissionEnds`,
`RequestsReachHandler`, `PendingGoalsLeave`, `SynchronizationEnds`).  They rest
on fairness, and the prover cannot reason about ENABLED.  What is proved next
to them says why they hold: a synchronization descends at every step, no
request is lost, the counter that makes a work ratio look at the lists is exact.

## Not modelled

* Execution latencies (`latency_updated`): only the look-ahead of goals depends
  on them.
* The tick cache of the graph, listeners of the graph, the initialization of
  reactors, AgentProxy.
* Of the EUROPA plug-in: the schema, constraints, filters, the search for a
  goal behind an action, plan logs; and the library itself.
* Domains other than intervals of integers; object variables of goals.
* The log player, which does not run in a mission; text logs, XML, plug-in
  loading, symbols, Python bindings: input, output and infrastructure.
* The command controller and its serial port: a program apart, of one thread,
  whose behaviour is that of its port.
* The REST plug-in, examples, retired servers and vendor integrations.

## Plan

Next, in this order: `ExecLatency`, the fixpoint latency_updated should reach;
`TickCache`; re-posting of goals in `GoalFlow`.
