--------------------------- MODULE StateVariables ---------------------------
(***************************************************************************)
(* How the EUROPA planner decides, at each tick, the state of its          *)
(* timelines.  One CurrentState per timeline keeps the last observation,   *)
(* the one before as long as its end is not committed, and for each a      *)
(* frontier: a time point that forces the observation to last at least up  *)
(* to a date.  The state of an Internal timeline is a flaw the             *)
(* synchronizer resolves: extend what is there, start what the plan has    *)
(* next, or create an observation.  Its choices are undone when the        *)
(* search backtracks, and are NOT when it is cut by its limits.            *)
(*                                                                         *)
(* The plan and its constraints belong to the EUROPA library.  All this    *)
(* module says of them is what plan records, and that after any choice,    *)
(* and in the end, they may turn out to be inconsistent.                   *)
(***************************************************************************)
EXTENDS Integers, Sequences

CONSTANTS
  LastTimeline,  \* timelines are numbered in the order of their EUROPA keys
  Internals,     \* those the reactor owns, the others are observed
  Preds,         \* predicates an observation can have
  NoPred,        \* none
  Default,       \* m_pred_default
  Others,        \* m_pred_names in its order, Default removed
  MaxTick        \* bound on the ticks of a behaviour

Timelines == 1 .. LastTimeline
Externals == Timelines \ Internals

ASSUME StateAssumption ==
  /\ LastTimeline \in Nat
  /\ Internals \subseteq Timelines
  /\ Default \in Preds
  /\ NoPred \notin Preds
  /\ Others \in Seq(Preds)
  /\ MaxTick \in Nat

VARIABLES
  now,        \* the current tick
  mode,       \* where synchronize() is
  attempt,    \* 1, then 2 after relax(false), then 3 after relax(true)
  bound,      \* what the plan says of the end of the last observation
  next,       \* the planned tokens that may start now
  last,       \* m_last_obs
  prev,       \* m_prev_obs
  front,      \* m_frontier
  prevFront,  \* m_prev_frontier
  todo,       \* choices left to the DecisionPoint on the stack, current first
  finished,   \* end date of the last observation that was terminated
  posted,     \* observation given to postObservation and not published yet
  shown       \* observation published

plan == <<bound, next>>
committedState == <<finished, posted>>
stateVars == <<now, mode, attempt, plan, last, prev, front, prevFront, todo,
               finished, posted, shown>>

(* An observation token: its start is fixed when it is created.            *)
Token == [pred : Preds, start : Nat]
NoToken == [pred |-> NoPred, start |-> 0]

(* A TimePoint: the observation lasts until base even when everything is   *)
(* relaxed, and until date as long as the choice that says so stands.      *)
TimePoint == [base : Nat, date : Nat]
NoPoint == [base |-> 0, date |-> 0]

(* What the plan says of the last observation: it holds on it after now,   *)
(* it ends it by now, or it leaves both open.                              *)
Bounds == {"free", "holds", "ends"}

(* The planned tokens that may start now, in their order.                  *)
PlannedNext == {<< >>} \cup {<<p>> : p \in Preds}
               \cup {s \in Preds \X Preds : s[1] # s[2]}

(* A choice of a DecisionPoint (enum Choice): CREATE_DEFAULT and           *)
(* CREATE_OTHER differ by the predicate only.                              *)
Choice == [kind : {"extend", "next", "create"}, pred : Preds]

TypeOK ==
  /\ now \in Nat
  /\ mode \in {"idle", "observe", "commit", "search", "undo", "retry", "solved",
               "exhausted", "cut", "failed", "killed"}
  /\ attempt \in 1 .. 3
  /\ bound \in [Timelines -> Bounds]
  /\ next \in [Internals -> Seq(Preds)]
  /\ last \in [Timelines -> Token \cup {NoToken}]
  /\ prev \in [Timelines -> Token \cup {NoToken}]
  /\ front \in [Timelines -> TimePoint]
  /\ prevFront \in [Timelines -> TimePoint]
  /\ todo \in [Timelines -> Seq(Choice)]
  /\ finished \in [Timelines -> Nat]
  /\ posted \in [Internals -> Token \cup {NoToken}]
  /\ shown \in [Internals -> Token \cup {NoToken}]

Init ==
  /\ now = 0
  /\ mode = "idle"
  /\ attempt = 1
  /\ bound = [t \in Timelines |-> "free"]
  /\ next = [t \in Internals |-> << >>]
  /\ last = [t \in Timelines |-> NoToken]
  /\ prev = [t \in Timelines |-> NoToken]
  /\ front = [t \in Timelines |-> NoPoint]
  /\ prevFront = [t \in Timelines |-> NoPoint]
  /\ todo = [t \in Timelines |-> << >>]
  /\ finished = [t \in Timelines |-> 0]
  /\ posted = [t \in Internals |-> NoToken]
  /\ shown = [t \in Internals |-> NoToken]

-----------------------------------------------------------------------------
(* What is known of a timeline                                             *)

(* CurrentState::identified: some observation necessarily covers now.      *)
Identified(t) == last[t] # NoToken /\ (front[t].date > now \/ bound[t] = "holds")

(* The timelines with a DecisionPoint on the stack of the synchronizer.    *)
(* UpdateFlawIterator and betterThan give them in the order of the keys.   *)
Decided == {t \in Internals : todo[t] # << >>}
IsTop(t) == t \in Decided /\ \A u \in Decided : u <= t
Flaws == {t \in Internals : ~Identified(t)}
IsNextFlaw(t) == t \in Flaws /\ \A u \in Flaws : t <= u

(* What the plan may say of the timelines, tokens to start being planned   *)
(* or not.  With no observation yet there is nothing to bound and several  *)
(* tokens may be the first; after one, only its successor counts.          *)
NewPlan(planned) ==
  /\ bound' \in {b \in [Timelines -> Bounds] :
                 \A t \in Timelines : last[t] = NoToken => b[t] = "free"}
  /\ next' \in IF planned
       THEN {n \in [Internals -> PlannedNext] :
               \A t \in Internals : last[t] # NoToken => Len(n[t]) <= 1}
       ELSE {[t \in Internals |-> << >>]}

-----------------------------------------------------------------------------
(* Pieces of the decisions                                                 *)

(* DecisionPoint::handleInitialize: the choices in the order they will be  *)
(* tried.  (Its branch for an observation that must last after now is not  *)
(* reached: such a timeline is identified, hence no flaw.)                 *)
Choices(t) ==
  (IF last[t] # NoToken /\ bound[t] # "ends"
     THEN << [kind |-> "extend", pred |-> Default] >> ELSE << >>)
  \o [i \in 1 .. Len(next[t]) |-> [kind |-> "next", pred |-> next[t][i]]]
  \o << [kind |-> "create", pred |-> Default] >>
  \o [i \in 1 .. Len(Others) |-> [kind |-> "create", pred |-> Others[i]]]

(* CurrentState::new_obs and new_token: a new fact that starts now becomes *)
(* the last observation, with a frontier of its own.                       *)
NewToken(t, p) ==
  /\ prev' = [prev EXCEPT ![t] = last[t]]
  /\ prevFront' = [prevFront EXCEPT ![t] = front[t]]
  /\ last' = [last EXCEPT ![t] = [pred |-> p, start |-> now]]
  /\ front' = [front EXCEPT ![t] = [base |-> now + 1, date |-> now + 1]]

(* DecisionPoint::handleExecute                                            *)
Execute(t, c) ==
  IF c.kind = "extend"
    THEN /\ front' = [front EXCEPT ![t].date = IF @ > now THEN @ ELSE now + 1]
         /\ UNCHANGED <<last, prev, prevFront>>
    ELSE NewToken(t, c.pred)

(* Mutant: the frontier of the destroyed token is kept.                    *)
TakeBackKeepingFrontier(t, c) ==
  IF c.kind = "extend"
    THEN /\ front' = [front EXCEPT ![t].date = front[t].base]
         /\ UNCHANGED <<last, prev, prevFront>>
    ELSE /\ last' = [last EXCEPT ![t] = prev[t]]
         /\ prev' = [prev EXCEPT ![t] = NoToken]
         /\ prevFront' = [prevFront EXCEPT ![t] = NoPoint]
         /\ UNCHANGED front

(* Mutant: the end pushed by EXTEND_CURRENT is not relaxed.                *)
TakeBackToken(t, c) ==
  IF c.kind = "extend"
    THEN UNCHANGED <<last, prev, front, prevFront>>
    ELSE /\ last' = [last EXCEPT ![t] = prev[t]]
         /\ front' = [front EXCEPT ![t] = prevFront[t]]
         /\ prev' = [prev EXCEPT ![t] = NoToken]
         /\ prevFront' = [prevFront EXCEPT ![t] = NoPoint]

(* DecisionPoint::handleUndo: relax_end or relax_token.                    *)
TakeBack(t, c) ==
  IF c.kind = "extend"
    THEN /\ front' = [front EXCEPT ![t].date = front[t].base]
         /\ UNCHANGED <<last, prev, prevFront>>
    ELSE /\ last' = [last EXCEPT ![t] = prev[t]]
         /\ front' = [front EXCEPT ![t] = prevFront[t]]
         /\ prev' = [prev EXCEPT ![t] = NoToken]
         /\ prevFront' = [prevFront EXCEPT ![t] = NoPoint]

(* CurrentState::commit has nothing to do for an observation that was      *)
(* extended already.                                                       *)
CheckCommitted(t) ==
  /\ last[t] # NoToken
  /\ prev[t] = NoToken
  /\ front[t].base > now
  /\ last[t].start # now

(* Mutant: the end of the previous observation is never committed when the *)
(* new one is observed.                                                    *)
CommitInternalEnds(S) ==
  LET todoS == {t \in S : ~CheckCommitted(t)}
      ended == {t \in todoS \cap Internals : prev[t] # NoToken} IN
  /\ finished' = [t \in Timelines |-> IF t \in ended THEN now ELSE finished[t]]
  /\ prev' = [t \in Timelines |-> IF t \in todoS THEN NoToken ELSE prev[t]]
  /\ prevFront' = [t \in Timelines |-> IF t \in todoS THEN NoPoint ELSE prevFront[t]]
  /\ front' = [t \in Timelines |-> IF t \in todoS
                 THEN [base |-> now + 1, date |-> now + 1] ELSE front[t]]
  /\ posted' = [t \in Internals |-> IF t \in todoS /\ last[t].start = now
                                      THEN last[t] ELSE posted[t]]
  /\ UNCHANGED last

(* The effect of CurrentState::commit on the timelines of S: what came     *)
(* before ends now, what is there lasts after now.                         *)
Commit(S) ==
  LET todoS == {t \in S : ~CheckCommitted(t)}
      ended == {t \in todoS : prev[t] # NoToken} IN
  /\ finished' = [t \in Timelines |-> IF t \in ended THEN now ELSE finished[t]]
  /\ prev' = [t \in Timelines |-> IF t \in ended THEN NoToken ELSE prev[t]]
  /\ prevFront' = [t \in Timelines |-> IF t \in ended THEN NoPoint ELSE prevFront[t]]
  /\ front' = [t \in Timelines |-> IF t \in todoS
                 THEN [base |-> now + 1,
                       date |-> IF front[t].date > now THEN front[t].date ELSE now + 1]
                 ELSE front[t]]
  /\ posted' = [t \in Internals |-> IF t \in todoS /\ last[t].start = now
                                      THEN last[t] ELSE posted[t]]
  /\ UNCHANGED last

-----------------------------------------------------------------------------
(* The steps of a tick                                                     *)

(* handleTickStart: the clock moves on, the plan is what deliberation left.*)
TickStart ==
  /\ mode = "idle"
  /\ now < MaxTick
  /\ now' = now + 1
  /\ mode' = "observe"
  /\ attempt' = 1
  /\ NewPlan(TRUE)
  /\ UNCHANGED <<last, prev, front, prevFront, todo, committedState, shown>>

(* EuropaReactor::notify(Observation) for the External timelines of S that *)
(* changed at this tick.  At the first tick each has something to show.    *)
Observe(S, val) ==
  /\ mode = "observe"
  /\ {t \in Externals : last[t] = NoToken} \subseteq S
  /\ last' = [t \in Timelines |-> IF t \in S THEN [pred |-> val[t], start |-> now]
                                             ELSE last[t]]
  /\ prev' = [t \in Timelines |-> IF t \in S THEN last[t] ELSE prev[t]]
  /\ front' = [t \in Timelines |-> IF t \in S THEN [base |-> now + 1, date |-> now + 1]
                                              ELSE front[t]]
  /\ prevFront' = [t \in Timelines |-> IF t \in S THEN front[t] ELSE prevFront[t]]
  /\ mode' = "commit"
  /\ UNCHANGED <<now, attempt, plan, todo, committedState, shown>>

(* The end of prev can be committed to now, or last can last after now.    *)
CanCommit(t) ==
  IF prev[t] # NoToken THEN prevFront[t].date <= now /\ bound[t] # "holds"
                       ELSE bound[t] # "ends" \/ front[t].date > now

(* Assembly::commit_externals                                              *)
CommitExternals ==
  /\ mode = "commit"
  /\ \A t \in Externals : CanCommit(t)
  /\ Commit(Externals)
  /\ mode' = "search"
  /\ UNCHANGED <<now, attempt, plan, todo, shown>>

(* It fails at timeline t: those before t are committed, and t itself is   *)
(* too when only the propagation found the inconsistency.                  *)
CommitExternalsFails(t) ==
  /\ mode = "commit"
  /\ \A u \in Externals : u < t => CanCommit(u)
  /\ Commit({u \in Externals : u < t \/ (u = t /\ CanCommit(t))})
  /\ mode' = "failed"
  /\ UNCHANGED <<now, attempt, plan, todo, shown>>

(* The synchronizer takes the next undetermined timeline and makes its     *)
(* first choice.                                                           *)
Decide(t) ==
  /\ mode = "search"
  /\ IsNextFlaw(t)
  /\ todo' = [todo EXCEPT ![t] = Choices(t)]
  /\ Execute(t, Head(Choices(t)))
  /\ UNCHANGED <<now, mode, attempt, plan, committedState, shown>>

(* The constraint engine, or a flaw of another kind without solution,      *)
(* makes the search backtrack.                                             *)
Inconsistent ==
  /\ mode = "search"
  /\ mode' = "undo"
  /\ UNCHANGED <<now, attempt, plan, last, prev, front, prevFront, todo,
                 committedState, shown>>

(* Mutant: the undone choice stays the next one.                           *)
UndoWithoutAdvance(t) ==
  /\ mode = "undo"
  /\ IsTop(t)
  /\ TakeBack(t, Head(todo[t]))
  /\ mode' = "retry"
  /\ UNCHANGED <<now, attempt, plan, todo, committedState, shown>>

(* The last decision is undone; if it has no other choice it leaves the    *)
(* stack and the search backtracks further.                                *)
Undo(t) ==
  /\ mode = "undo"
  /\ IsTop(t)
  /\ TakeBack(t, Head(todo[t]))
  /\ todo' = [todo EXCEPT ![t] = Tail(@)]
  /\ mode' = IF Len(todo[t]) = 1 THEN "undo" ELSE "retry"
  /\ UNCHANGED <<now, attempt, plan, committedState, shown>>

(* The next choice of the decision on top of the stack.                    *)
Retry(t) ==
  /\ mode = "retry"
  /\ IsTop(t)
  /\ Execute(t, Head(todo[t]))
  /\ mode' = "search"
  /\ UNCHANGED <<now, attempt, plan, todo, committedState, shown>>

(* Solver::solve returns false: no choice is left...                       *)
Exhaust ==
  /\ mode = "undo"
  /\ Decided = {}
  /\ mode' = "exhausted"
  /\ UNCHANGED <<now, attempt, plan, last, prev, front, prevFront, todo,
                 committedState, shown>>

(* ... or m_synchSteps or m_synchDepth is reached, with the decisions in   *)
(* place.                                                                  *)
Cut ==
  /\ mode \in {"search", "retry", "undo"}
  /\ mode' = "cut"
  /\ UNCHANGED <<now, attempt, plan, last, prev, front, prevFront, todo,
                 committedState, shown>>

(* The stack is forgotten, not undone, when solve has failed (the first    *)
(* thing Assembly::relax does).                                            *)
Forget ==
  /\ mode \in {"exhausted", "cut"}
  /\ todo' = [t \in Timelines |-> << >>]
  /\ mode' = "failed"
  /\ UNCHANGED <<now, attempt, plan, last, prev, front, prevFront,
                 committedState, shown>>

(* Mutant: relax(true) is tried as long as it takes.                       *)
RelaxAgain ==
  /\ mode = "failed"
  /\ attempt' = attempt + 1
  /\ mode' = "commit"
  /\ NewPlan(FALSE)
  /\ UNCHANGED <<now, last, prev, front, prevFront, todo, committedState, shown>>

(* do_relax, then synch() again.  The plan is taken back, so that nothing  *)
(* is planned next and only the rules of the model may still bound what is *)
(* there.  An end that was pushed and not undone may or may not survive    *)
(* the propagation.                                                        *)
Relax ==
  /\ mode = "failed"
  /\ attempt < 3
  /\ attempt' = attempt + 1
  /\ mode' = "commit"
  /\ NewPlan(FALSE)
  /\ \E R \in SUBSET {t \in Internals : front[t].date > front[t].base} :
       front' = [t \in Timelines |-> IF t \in R THEN [front[t] EXCEPT !.date = front[t].base]
                                               ELSE front[t]]
  /\ UNCHANGED <<now, last, prev, prevFront, todo, committedState, shown>>

(* do_relax itself fails, and the next, stronger one is tried.             *)
RelaxFails ==
  /\ mode = "failed"
  /\ attempt < 3
  /\ attempt' = attempt + 1
  /\ UNCHANGED <<now, mode, plan, last, prev, front, prevFront, todo,
                 committedState, shown>>

(* Nothing is left to forget: synchronize() returns false and the agent    *)
(* kills the reactor.                                                      *)
GiveUp ==
  /\ mode = "failed"
  /\ attempt = 3
  /\ mode' = "killed"
  /\ UNCHANGED <<now, attempt, plan, last, prev, front, prevFront, todo,
                 committedState, shown>>

(* Mutant: the Internals are committed before the search is over.          *)
SolveEarly ==
  /\ mode = "search"
  /\ Commit({t \in Internals : Identified(t)})
  /\ todo' = [t \in Timelines |-> << >>]
  /\ mode' = "solved"
  /\ UNCHANGED <<now, attempt, plan, shown>>

(* The end of Assembly::do_synchronize: no flaw is left, every Internal    *)
(* timeline is committed and its new observations are posted.              *)
Solve ==
  /\ mode = "search"
  /\ Flaws = {}
  /\ Commit(Internals)
  /\ todo' = [t \in Timelines |-> << >>]
  /\ mode' = "solved"
  /\ UNCHANGED <<now, attempt, plan, shown>>

(* The last propagation of synchronize() succeeds and doSynchronize        *)
(* publishes what was posted.                                              *)
Publish ==
  /\ mode = "solved"
  /\ shown' = posted
  /\ mode' = "idle"
  /\ UNCHANGED <<now, attempt, plan, last, prev, front, prevFront, todo, committedState>>

(* It fails ("should not fail"): what was posted is never published.       *)
LastPropagationFails ==
  /\ mode = "solved"
  /\ mode' = "killed"
  /\ UNCHANGED <<now, attempt, plan, last, prev, front, prevFront, todo,
                 committedState, shown>>

(* What synchronize() does once it has been called.                        *)
Synchronize ==
  \/ \E S \in SUBSET Externals, val \in [Externals -> Preds] : Observe(S, val)
  \/ CommitExternals
  \/ \E t \in Externals : CommitExternalsFails(t)
  \/ \E t \in Internals : Decide(t) \/ Undo(t) \/ Retry(t)
  \/ Inconsistent \/ Exhaust \/ Cut \/ Forget
  \/ Relax \/ RelaxFails \/ GiveUp
  \/ Solve \/ Publish \/ LastPropagationFails

Next == TickStart \/ Synchronize

Spec == Init /\ [][Next]_stateVars

(* The agent waits for synchronize(), which runs on its thread.            *)
FairSpec == Spec /\ WF_stateVars(Synchronize)

-----------------------------------------------------------------------------
(* Properties                                                              *)

(* When nothing is left to decide, every Internal timeline has an          *)
(* observation, and one that replaces another at this tick finds the end   *)
(* of the other free to be now: "It was consistent from synchronizer =>    *)
(* never fail", says do_synchronize of its calls to commit.                *)
CommitNeverFails ==
  mode = "search" /\ Flaws = {} =>
    \A t \in Internals :
      /\ last[t] # NoToken
      /\ prev[t] # NoToken => prevFront[t].date <= now

(* Between two ticks the observations of a timeline leave no gap and do    *)
(* not overlap: the first starts at the first tick, the last one where the *)
(* one before was terminated, and it is committed up to the next tick,     *)
(* whatever failed and was tried again in between.  What the agent shows   *)
(* of an Internal timeline is this last observation.                       *)
ObservationsTile ==
  mode = "idle" /\ now > 0 => \A t \in Timelines :
    /\ last[t] # NoToken /\ prev[t] = NoToken
    /\ last[t].start = IF finished[t] > 0 THEN finished[t] ELSE 1
    /\ front[t].base = now + 1
    /\ t \in Internals => shown[t] = last[t]

(* A search that has tried everything leaves nothing behind: no timeline   *)
(* has an observation of this tick or an end pushed beyond it, so relax    *)
(* and the next attempt start from the state before the search.            *)
ExhaustedSearchRestores ==
  mode = "exhausted" /\ attempt = 1 => \A t \in Internals :
    /\ prev[t] = NoToken
    /\ last[t] # NoToken => last[t].start < now
    /\ front[t].date <= now

(* What the planner publishes is what StateHistory promises: one state for *)
(* all its timelines at once, at each tick it survives.                    *)
History == INSTANCE StateHistory WITH
  Owned <- Internals,
  clock <- now,
  settled <- mode = "idle",
  alive <- mode # "killed",
  value <- [t \in Internals |-> shown[t].pred],
  since <- [t \in Internals |-> shown[t].start]
ImplementsHistory == History!Spec

(* Synchronization ends, with a state or with the reactor: the search has  *)
(* finitely many choices and is tried three times.                         *)
SynchronizationEnds == mode # "idle" ~> mode \in {"idle", "killed"}
=============================================================================
