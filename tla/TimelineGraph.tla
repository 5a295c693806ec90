--------------------------- MODULE TimelineGraph ---------------------------
(***************************************************************************)
(* The transaction graph of a T-REX agent: reactors, the timelines they    *)
(* own (Internal) or subscribe to (External), and the observation each     *)
(* timeline shows.  A relation is recorded twice in the code: by the       *)
(* timeline (m_owner, m_clients, m_plan_listeners) and by the reactor      *)
(* (m_internals, m_externals, m_updates), and both copies are kept in step *)
(* by calls that go back and forth between the two classes.                *)
(*                                                                         *)
(* Every operation runs on the strand of the graph, so each is one step.   *)
(* The order in which an agent calls them is the subject of AgentTick:     *)
(* here every order a program could produce is allowed.                    *)
(***************************************************************************)
EXTENDS Integers, FiniteSets

CONSTANTS
  Reactors,     \* identities a reactor object can have
  Timelines,    \* timeline names
  Values,       \* observations a reactor can produce, Failed apart
  Failed,       \* Predicate::failed_pred()
  NoObs,        \* an empty m_next_obs
  NoReactor,    \* the NULL owner
  OwnerFlags,   \* transaction_flags given to provide()
  ClientFlags,  \* transaction_flags given to use()
  MaxTick       \* bound on the ticks of a behaviour

(* transaction_flags is a bitset<2>: bit 0 is about goals, bit 1 about the *)
(* publication of plans.                                                   *)
Flags == [goals : BOOLEAN, plan : BOOLEAN]
NoFlags == [goals |-> FALSE, plan |-> FALSE]

ASSUME GraphAssumption ==
  /\ IsFiniteSet(Reactors)
  /\ NoReactor \notin Reactors
  /\ NoObs \notin Values \cup {Failed}
  /\ Failed \notin Values
  /\ OwnerFlags \subseteq Flags
  /\ ClientFlags \subseteq Flags
  /\ MaxTick \in Nat

VARIABLES
  \* details::timeline
  known,          \* timelines created so far (graph::m_timelines)
  owner,          \* m_owner
  rights,         \* m_transactions, the rights the owner gives
  clients,        \* the reactors of m_clients
  posters,        \* those of them whose bit 0 is set
  listeners,      \* those of them whose bit 1 is set
  planListeners,  \* m_plan_listeners
  nextObs,        \* m_next_obs
  lastObs,        \* m_last_obs
  obsDate,        \* m_obs_date
  \* TeleoReactor and graph
  life,           \* how far the reactor is in its life
  internals,      \* m_internals
  externals,      \* m_externals
  updates,        \* m_updates
  now             \* the current tick

ownership == <<owner, rights, internals>>
subscriptions == <<clients, posters, listeners, planListeners, externals>>
observations == <<nextObs, lastObs, obsDate>>
graphVars == <<known, ownership, subscriptions, observations, life, updates, now>>

Obs == Values \cup {Failed}

(* "built": its constructor is done or under way and it is not in the      *)
(* graph yet; "quarantined": isolated, waiting for cleanup.                *)
Life == {"none", "built", "member", "quarantined"}

TypeOK ==
  /\ known \subseteq Timelines
  /\ owner \in [Timelines -> Reactors \cup {NoReactor}]
  /\ rights \in [Timelines -> Flags]
  /\ clients \in [Timelines -> SUBSET Reactors]
  /\ posters \in [Timelines -> SUBSET Reactors]
  /\ listeners \in [Timelines -> SUBSET Reactors]
  /\ planListeners \in [Timelines -> Int]
  /\ nextObs \in [Timelines -> Values \cup {NoObs}]
  /\ lastObs \in [Timelines -> Obs]
  /\ obsDate \in [Timelines -> Nat]
  /\ life \in [Reactors -> Life]
  /\ internals \in [Reactors -> SUBSET Timelines]
  /\ externals \in [Reactors -> SUBSET Timelines]
  /\ updates \in [Reactors -> SUBSET Timelines]
  /\ now \in Nat

Init ==
  /\ known = {}
  /\ owner = [t \in Timelines |-> NoReactor]
  /\ rights = [t \in Timelines |-> NoFlags]
  /\ clients = [t \in Timelines |-> {}]
  /\ posters = [t \in Timelines |-> {}]
  /\ listeners = [t \in Timelines |-> {}]
  /\ planListeners = [t \in Timelines |-> 0]
  /\ nextObs = [t \in Timelines |-> NoObs]
  /\ lastObs = [t \in Timelines |-> Failed]
  /\ obsDate = [t \in Timelines |-> 0]
  /\ life = [r \in Reactors |-> "none"]
  /\ internals = [r \in Reactors |-> {}]
  /\ externals = [r \in Reactors |-> {}]
  /\ updates = [r \in Reactors |-> {}]
  /\ now = 0

-----------------------------------------------------------------------------
(* Pieces of the operations                                                *)

(* graph::get_timeline: the first mention of a name creates the timeline,  *)
(* showing Failed from the current tick.                                   *)
Mention(t) ==
  /\ known' = known \cup {t}
  /\ obsDate' = IF t \in known THEN obsDate ELSE [obsDate EXCEPT ![t] = now]
  /\ UNCHANGED <<nextObs, lastObs>>

(* Mutant: the last value of the lost owner stays.                         *)
UnassignWithoutFailed(r, S) ==
  /\ internals' = [internals EXCEPT ![r] = @ \ S]
  /\ owner' = [t \in Timelines |-> IF t \in S THEN NoReactor ELSE owner[t]]
  /\ rights' = [t \in Timelines |-> IF t \in S THEN NoFlags ELSE rights[t]]
  /\ nextObs' = [t \in Timelines |-> IF t \in S THEN NoObs ELSE nextObs[t]]
  /\ UNCHANGED <<lastObs, obsDate>>

(* Mutant: Failed is shown under the date of the value it replaces.        *)
UnassignUndated(r, S) ==
  /\ internals' = [internals EXCEPT ![r] = @ \ S]
  /\ owner' = [t \in Timelines |-> IF t \in S THEN NoReactor ELSE owner[t]]
  /\ rights' = [t \in Timelines |-> IF t \in S THEN NoFlags ELSE rights[t]]
  /\ nextObs' = [t \in Timelines |-> IF t \in S THEN NoObs ELSE nextObs[t]]
  /\ lastObs' = [t \in Timelines |-> IF t \in S THEN Failed ELSE lastObs[t]]
  /\ UNCHANGED obsDate

(* timeline::unassign for every timeline of S, all owned by r: the owner   *)
(* forgets it, the rights are reset and Failed replaces whatever was       *)
(* posted, published at once with the current date.                        *)
Unassign(r, S) ==
  /\ internals' = [internals EXCEPT ![r] = @ \ S]
  /\ owner' = [t \in Timelines |-> IF t \in S THEN NoReactor ELSE owner[t]]
  /\ rights' = [t \in Timelines |-> IF t \in S THEN NoFlags ELSE rights[t]]
  /\ nextObs' = [t \in Timelines |-> IF t \in S THEN NoObs ELSE nextObs[t]]
  /\ lastObs' = [t \in Timelines |-> IF t \in S THEN Failed ELSE lastObs[t]]
  /\ obsDate' = [t \in Timelines |-> IF t \in S THEN now ELSE obsDate[t]]

(* Mutant: a listener is counted at each call.                             *)
SubscribeCountingTwice(r, t, f) ==
  /\ clients' = [clients EXCEPT ![t] = @ \cup {r}]
  /\ externals' = [externals EXCEPT ![r] = @ \cup {t}]
  /\ posters' = [posters EXCEPT ![t] = IF f.goals THEN @ \cup {r} ELSE @ \ {r}]
  /\ listeners' = [listeners EXCEPT ![t] = IF f.plan THEN @ \cup {r} ELSE @ \ {r}]
  /\ planListeners' = [planListeners EXCEPT ![t] =
       IF f.plan THEN @ + 1 ELSE IF r \in listeners[t] THEN @ - 1 ELSE @]

(* timeline::subscribe of r, which does not own t.  A first call inserts   *)
(* r, a later one replaces its flags; the count of plan listeners follows  *)
(* bit 1 in both cases.                                                    *)
Subscribe(r, t, f) ==
  /\ clients' = [clients EXCEPT ![t] = @ \cup {r}]
  /\ externals' = [externals EXCEPT ![r] = @ \cup {t}]
  /\ posters' = [posters EXCEPT ![t] = IF f.goals THEN @ \cup {r} ELSE @ \ {r}]
  /\ listeners' = [listeners EXCEPT ![t] = IF f.plan THEN @ \cup {r} ELSE @ \ {r}]
  /\ planListeners' = [planListeners EXCEPT ![t] =
       IF f.plan /\ r \notin listeners[t] THEN @ + 1
       ELSE IF ~f.plan /\ r \in listeners[t] THEN @ - 1
       ELSE @]

(* timeline::unsubscribe of r on every timeline of S.  A client that       *)
(* listens to the plan is first taken off the count.                       *)
Unsubscribe(r, S) ==
  /\ planListeners' = [t \in Timelines |->
       IF t \in S /\ r \in listeners[t] THEN planListeners[t] - 1
                                        ELSE planListeners[t]]
  /\ externals' = [externals EXCEPT ![r] = @ \ S]
  /\ clients' = [t \in Timelines |-> IF t \in S THEN clients[t] \ {r} ELSE clients[t]]
  /\ posters' = [t \in Timelines |-> IF t \in S THEN posters[t] \ {r} ELSE posters[t]]
  /\ listeners' = [t \in Timelines |-> IF t \in S THEN listeners[t] \ {r} ELSE listeners[t]]

(* Mutant: the Externals are kept.                                         *)
DisconnectInternalsOnly(r) ==
  /\ Unassign(r, internals[r])
  /\ UNCHANGED subscriptions

(* TeleoReactor::isolate: give up every Internal, then every External.     *)
Disconnect(r) ==
  /\ Unassign(r, internals[r])
  /\ Unsubscribe(r, externals[r])

-----------------------------------------------------------------------------
(* The life of a reactor                                                   *)

(* A reactor object is created: add_reactor(s) builds it before it puts it *)
(* in the graph.                                                           *)
Construct(r) ==
  /\ life[r] = "none"
  /\ life' = [life EXCEPT ![r] = "built"]
  /\ UNCHANGED <<known, ownership, subscriptions, observations, updates, now>>

(* m_reactors.insert, once the constructor has returned.                   *)
AddReactor(r) ==
  /\ life[r] = "built"
  /\ life' = [life EXCEPT ![r] = "member"]
  /\ UNCHANGED <<known, ownership, subscriptions, observations, updates, now>>

(* The constructor of a derived class throws, or the graph refuses the     *)
(* object: ~TeleoReactor runs isolate(false) before the object is gone.    *)
Discard(r) ==
  /\ life[r] = "built"
  /\ life' = [life EXCEPT ![r] = "none"]
  /\ Disconnect(r)
  /\ updates' = [updates EXCEPT ![r] = {}]
  /\ UNCHANGED <<known, now>>

(* A second reactor of the same name is built, provides the free timeline  *)
(* t from its constructor, and is refused with MultipleReactors.  Clients  *)
(* are looked up by name, so the promotion unsubscribes the reactor that   *)
(* is already there; the destructor of the second one then frees t again.  *)
RefuseNamesake(r, t) ==
  /\ life[r] = "member"
  /\ owner[t] = NoReactor
  /\ known' = known \cup {t}
  /\ lastObs' = [lastObs EXCEPT ![t] = Failed]
  /\ obsDate' = [obsDate EXCEPT ![t] = now]
  /\ nextObs' = [nextObs EXCEPT ![t] = NoObs]
  /\ Unsubscribe(r, {t} \cap externals[r])
  /\ UNCHANGED <<ownership, life, updates, now>>

(* The same refusal when the second reactor subscribed to t.  If the first *)
(* one was a client of t, subscribe() found the entry under that name and  *)
(* replaced its flags, which the destructor of the second does not undo.   *)
RefuseNamesakeClient(r, t, f) ==
  /\ life[r] = "member"
  /\ t \in externals[r]
  /\ Subscribe(r, t, f)
  /\ UNCHANGED <<known, ownership, observations, life, updates, now>>

(* graph::isolate, when newTick() of r fails.                              *)
Isolate(r) ==
  /\ life[r] = "member"
  /\ life' = [life EXCEPT ![r] = "quarantined"]
  /\ Disconnect(r)
  /\ UNCHANGED <<known, updates, now>>

(* graph::kill_reactor, also through cleanup() and clear().  A reactor in  *)
(* quarantine is not isolated a second time, but dropping the last         *)
(* reference runs the destructor, which does it.                           *)
KillReactor(r) ==
  /\ life[r] \in {"member", "quarantined"}
  /\ life' = [life EXCEPT ![r] = "none"]
  /\ Disconnect(r)
  /\ updates' = [updates EXCEPT ![r] = {}]
  /\ UNCHANGED <<known, now>>

-----------------------------------------------------------------------------
(* Declarations, from the constructor on and as long as the object exists  *)

(* Mutant: the present owner is not looked at.                             *)
ProvideTakeover(r, t, f) ==
  /\ life[r] # "none"
  /\ owner' = [owner EXCEPT ![t] = r]
  /\ rights' = [rights EXCEPT ![t] = f]
  /\ internals' = [internals EXCEPT ![r] = @ \cup {t}]
  /\ Unsubscribe(r, {t} \cap externals[r])
  /\ Mention(t)
  /\ UNCHANGED <<life, updates, now>>

(* Mutant: the promotion from External to Internal is forgotten.           *)
ProvideKeepingClient(r, t, f) ==
  /\ life[r] # "none"
  /\ owner[t] = NoReactor
  /\ owner' = [owner EXCEPT ![t] = r]
  /\ rights' = [rights EXCEPT ![t] = f]
  /\ internals' = [internals EXCEPT ![r] = @ \cup {t}]
  /\ Mention(t)
  /\ UNCHANGED <<subscriptions, life, updates, now>>

(* TeleoReactor::provide on a free timeline.  If r was a client of t, the  *)
(* subscription is removed: t is promoted from External to Internal.       *)
Provide(r, t, f) ==
  /\ life[r] # "none"
  /\ owner[t] = NoReactor
  /\ owner' = [owner EXCEPT ![t] = r]
  /\ rights' = [rights EXCEPT ![t] = f]
  /\ internals' = [internals EXCEPT ![r] = @ \cup {t}]
  /\ Unsubscribe(r, {t} \cap externals[r])
  /\ Mention(t)
  /\ UNCHANGED <<life, updates, now>>

(* TeleoReactor::provide on a timeline r already owns: only the rights     *)
(* change.  (If another reactor owns t, MultipleInternals is thrown before *)
(* anything changes.)                                                      *)
ProvideAgain(r, t, f) ==
  /\ life[r] # "none"
  /\ owner[t] = r
  /\ rights' = [rights EXCEPT ![t] = f]
  /\ UNCHANGED <<known, owner, internals, subscriptions, observations, life, updates, now>>

(* TeleoReactor::use.  On a timeline r owns the call changes nothing.      *)
Use(r, t, f) ==
  /\ life[r] # "none"
  /\ owner[t] # r
  /\ Subscribe(r, t, f)
  /\ Mention(t)
  /\ UNCHANGED <<ownership, life, updates, now>>

(* TeleoReactor::unuse                                                     *)
Unuse(r, t) ==
  /\ t \in externals[r]
  /\ Unsubscribe(r, {t})
  /\ UNCHANGED <<known, ownership, observations, life, updates, now>>

(* TeleoReactor::unprovide.  m_updates keeps t if r had posted on it.      *)
Unprovide(r, t) ==
  /\ t \in internals[r]
  /\ Unassign(r, {t})
  /\ UNCHANGED <<known, subscriptions, life, updates, now>>

-----------------------------------------------------------------------------
(* Observations                                                            *)

(* Mutant: the timeline is not added to m_updates.                         *)
PostObservationUnscheduled(r, t, v) ==
  /\ t \in internals[r]
  /\ nextObs' = [nextObs EXCEPT ![t] = v]
  /\ UNCHANGED <<known, ownership, subscriptions, lastObs, obsDate, life, updates, now>>

(* Mutant: a reactor may post on any timeline it knows.                    *)
PostObservationAnywhere(r, t, v) ==
  /\ t \in internals[r] \cup externals[r]
  /\ nextObs' = [nextObs EXCEPT ![t] = v]
  /\ updates' = [updates EXCEPT ![r] = @ \cup {t}]
  /\ UNCHANGED <<known, ownership, subscriptions, lastObs, obsDate, life, now>>

(* TeleoReactor::postObservation: refused on a timeline that is not        *)
(* Internal; otherwise it replaces what was posted and not published yet.  *)
PostObservation(r, t, v) ==
  /\ t \in internals[r]
  /\ nextObs' = [nextObs EXCEPT ![t] = v]
  /\ updates' = [updates EXCEPT ![r] = @ \cup {t}]
  /\ UNCHANGED <<known, ownership, subscriptions, lastObs, obsDate, life, now>>

(* Mutant: timeline::synchronize does not look whether something is posted.*)
SynchronizeUnconditional(r) ==
  LET flushed == updates[r] IN
  /\ life[r] = "member"
  /\ lastObs' = [t \in Timelines |-> IF t \in flushed THEN nextObs[t] ELSE lastObs[t]]
  /\ obsDate' = [t \in Timelines |-> IF t \in flushed THEN now ELSE obsDate[t]]
  /\ nextObs' = [t \in Timelines |-> IF t \in flushed THEN NoObs ELSE nextObs[t]]
  /\ updates' = [updates EXCEPT ![r] = {}]
  /\ UNCHANGED <<known, ownership, subscriptions, life, now>>

(* The successful end of TeleoReactor::doSynchronize: every timeline of    *)
(* m_updates with something posted shows it from the current tick on.      *)
Synchronize(r) ==
  LET flushed == {t \in updates[r] : nextObs[t] # NoObs} IN
  /\ life[r] = "member"
  /\ lastObs' = [t \in Timelines |-> IF t \in flushed THEN nextObs[t] ELSE lastObs[t]]
  /\ obsDate' = [t \in Timelines |-> IF t \in flushed THEN now ELSE obsDate[t]]
  /\ nextObs' = [t \in Timelines |-> IF t \in flushed THEN NoObs ELSE nextObs[t]]
  /\ updates' = [updates EXCEPT ![r] = {}]
  /\ UNCHANGED <<known, ownership, subscriptions, life, now>>

(* graph::updateTick                                                       *)
UpdateTick ==
  /\ now < MaxTick
  /\ now' = now + 1
  /\ UNCHANGED <<known, ownership, subscriptions, observations, life, updates>>

-----------------------------------------------------------------------------
Lifecycle(r) ==
  \/ Construct(r)
  \/ AddReactor(r)
  \/ Discard(r)
  \/ \E t \in Timelines : RefuseNamesake(r, t)
  \/ \E t \in Timelines, f \in ClientFlags : RefuseNamesakeClient(r, t, f)
  \/ Isolate(r)
  \/ KillReactor(r)

Declaration(r, t) ==
  \/ \E f \in OwnerFlags : Provide(r, t, f) \/ ProvideAgain(r, t, f)
  \/ \E f \in ClientFlags : Use(r, t, f)
  \/ Unuse(r, t)
  \/ Unprovide(r, t)

Next ==
  \/ \E r \in Reactors : Lifecycle(r)
  \/ \E r \in Reactors, t \in Timelines : Declaration(r, t)
  \/ \E r \in Reactors, t \in Timelines, v \in Values : PostObservation(r, t, v)
  \/ \E r \in Reactors : Synchronize(r)
  \/ UpdateTick

Spec == Init /\ [][Next]_graphVars

(* The timelines of an XML configuration are declared by the constructor   *)
(* of the base class.  When one of them has another owner already, the     *)
(* exception leaves that constructor: the destructor never runs, so what   *)
(* the reactor declared before stays recorded in the timelines while the   *)
(* object, its own sets included, is gone.                                 *)
AbortedLoad(r) ==
  /\ life[r] = "built"
  /\ \E t \in Timelines : owner[t] \notin {NoReactor, r}
  /\ life' = [life EXCEPT ![r] = "none"]
  /\ internals' = [internals EXCEPT ![r] = {}]
  /\ externals' = [externals EXCEPT ![r] = {}]
  /\ updates' = [updates EXCEPT ![r] = {}]
  /\ UNCHANGED <<known, owner, rights, clients, posters, listeners, planListeners,
                 observations, now>>

SpecWithAbortedLoads == Init /\ [][Next \/ \E r \in Reactors : AbortedLoad(r)]_graphVars

-----------------------------------------------------------------------------
(* Properties                                                              *)

(* Both records of a relation agree: a timeline names an owner or a client *)
(* exactly when that reactor has it among its Internals or Externals       *)
(* (timeline::assign/unassign/subscribe/unsubscribe and the callbacks of   *)
(* TeleoReactor they make).                                                *)
RelationsMirrored ==
  \A r \in Reactors, t \in Timelines :
    /\ owner[t] = r <=> t \in internals[r]
    /\ r \in clients[t] <=> t \in externals[r]

(* m_plan_listeners, which decides whether a plan is broadcast at all, is  *)
(* the number of clients that asked to listen, after any sequence of use,  *)
(* re-use with other flags, unuse, promotion and isolation.                *)
PlanListenersExact ==
  \A t \in Timelines :
    /\ listeners[t] \subseteq clients[t]
    /\ planListeners[t] = Cardinality(listeners[t])

(* A reactor never subscribes to a timeline it owns, whichever of provide  *)
(* and use came first: it would depend on itself.                          *)
OwnerIsNotClient == \A t \in Timelines : owner[t] \notin clients[t]

(* No timeline refers to a reactor object that has been destroyed: m_owner *)
(* and m_clients hold plain pointers.                                      *)
NoDanglingReference ==
  \A r \in Reactors : life[r] = "none" =>
    \A t \in Timelines : owner[t] # r /\ r \notin clients[t]

(* A timeline nobody owns shows Failed, offers no right and has nothing    *)
(* posted: no client can act on a value whose producer is gone.            *)
OrphanIsFailed ==
  \A t \in Timelines : owner[t] = NoReactor =>
    lastObs[t] = Failed /\ nextObs[t] = NoObs /\ rights[t] = NoFlags

(* What was posted and not published is waiting in the m_updates of the    *)
(* reactor that owns the timeline now, so its next successful              *)
(* synchronization publishes it, whatever changes of owner came before     *)
(* (the postcondition of TeleoReactor::postObservation).                   *)
PostedIsScheduled ==
  \A t \in Timelines : nextObs[t] # NoObs =>
    \E r \in Reactors : owner[t] = r /\ t \in updates[r]

(* A change of the value a timeline shows carries the date of the step.    *)
(* Clients collect a value only when its date is the current tick, so a    *)
(* change under an old date would never reach them.                        *)
ChangesAreDated ==
  [][\A t \in Timelines : lastObs'[t] # lastObs[t] => obsDate'[t] = now]_graphVars

(* The graph implements the abstract board of timelines: the mapping keeps *)
(* the two variables a client can tell apart and hides all the bookkeeping. *)
Board == INSTANCE TimelineBoard WITH owner <- owner, lastObs <- lastObs
ImplementsBoard == Board!Spec

(* The same as NoDanglingReference for the owner alone: "A pointer to the  *)
(* reactor currently decalring this timeline as Internal or NULL".         *)
OwnerExists ==
  \A t \in Timelines : owner[t] # NoReactor => life[owner[t]] # "none"
=============================================================================
