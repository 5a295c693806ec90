------------------------------ MODULE Planner ------------------------------
(***************************************************************************)
(* The EUROPA planner between two synchronizations: the goals requested    *)
(* from it become tokens of the plan, the commands these tokens need are   *)
(* posted as goals to the owners of other timelines, and what is planned   *)
(* on its own timelines is announced to the listeners (PlanTokens).  Each  *)
(* of these links is a table between keys of tokens and goals, that must   *)
(* follow the tokens as the planner decides, backtracks, is recalled a     *)
(* goal, archives the past and relaxes the plan.                           *)
(*                                                                         *)
(* Which token is a flaw, which decision is consistent and what a          *)
(* propagation answers belong to the EUROPA library: any of the outcomes   *)
(* it may have.  How the states of the timelines are decided is the        *)
(* subject of StateVariables; here it succeeds or fails.                   *)
(***************************************************************************)
EXTENDS PlanTokens

CONSTANTS
  Goals,        \* requests of other reactors, on Internal timelines
  Commands,     \* tokens on External timelines, slaves of another token
  Fact,         \* an observation, as the master of some of these
  Master,       \* the goal, or Fact, a command is a slave of
  MaxTick,      \* bound on the ticks of a behaviour
  MaxOut        \* bound on the goals posted for one command

Tokens == Goals \cup Commands
FactCommands == {c \in Commands : Master[c] = Fact}

ASSUME PlannerAssumption ==
  /\ Goals \cap Commands = {}
  /\ Fact \notin Goals
  /\ Master \in [Commands -> Goals \cup {Fact}]
  /\ MaxTick \in Nat /\ MaxOut \in Nat

VARIABLES
  tick,         \* the current tick
  pc,           \* where the reactor is in the tick
  state,        \* of each token
  past,         \* tokens whose end is bounded by the current tick
  facts,        \* past observations that the plan still holds, by end
  requests,     \* m_active_requests
  dispatched,   \* m_dispatched
  planned,      \* m_plan_tokens: the goal_id a token was posted under, or 0
  decided,      \* tokens with a decision on the stack of the planner
  stepped,      \* planner()->getStepCount() > 0
  completed,    \* m_completed_this_tick
  out,          \* goals posted for a command, not recalled and not over
  over          \* plan tokens that are over

tables == <<requests, dispatched, planned>>
solver == <<decided, stepped, completed>>
plannerVars == <<tick, pc, state, past, facts, tables, solver, out, over,
                 planTokenVars>>

TypeOK ==
  /\ PlanTokensTypeOK
  /\ tick \in Nat
  /\ pc \in {"synch", "relax", "synch2", "forget", "synch3", "work", "publish",
             "archive", "dispatch", "recover", "recovered", "unrecovered", "dead"}
  /\ state \in [Tokens -> {"none", "inactive", "active", "rejected"}]
  /\ past \subseteq Tokens
  /\ facts \subseteq Nat
  /\ requests \subseteq Goals
  /\ dispatched \subseteq Commands
  /\ planned \in [Goals -> 0 .. lastId]
  /\ decided \subseteq Tokens
  /\ stepped \in BOOLEAN
  /\ completed \in BOOLEAN
  /\ out \in [Commands -> Nat]
  /\ over \subseteq 1 .. lastId

Init ==
  /\ PlanTokensInit
  /\ tick = 0
  /\ pc = "work"
  /\ state = [t \in Tokens |-> "none"]
  /\ past = {}
  /\ facts = {}
  /\ requests = {}
  /\ dispatched = {}
  /\ planned = [g \in Goals |-> 0]
  /\ decided = {}
  /\ stepped = FALSE
  /\ completed = FALSE
  /\ out = [c \in Commands |-> 0]
  /\ over = {}

-----------------------------------------------------------------------------
(* Tokens that leave the plan                                              *)

Slaves(S) == {c \in Commands : Master[c] \in S}
Active(S) == {t \in S : state[t] = "active"}
PlanIds(S) == {planned[g] : g \in {h \in S \cap Goals : planned[h] # 0}}

(* What is left of the plan when the tokens of D become inactive and those *)
(* of X are deleted: the slaves of either are destroyed (EUROPA).          *)
Gone(D, X) == X \cup Slaves(D \cup X)
Withdrawn(D, X) == Active(D \cup Gone(D, X))

(* Mutant: a goal is recalled whether or not it was ever posted.           *)
RemoveUnposted(D, X) ==
  LET gone == Gone(D, X)
      left == Withdrawn(D, X) IN
  /\ state' = [t \in Tokens |-> IF t \in gone THEN "none"
                                ELSE IF t \in D THEN "inactive" ELSE state[t]]
  /\ past' = past \ gone
  /\ requests' = requests \ gone
  /\ decided' = decided \ (D \cup gone)
  /\ out' = [c \in Commands |-> IF c \in left THEN out[c] - 1 ELSE out[c]]
  /\ planned' = [g \in Goals |-> IF g \in left \cup gone THEN 0 ELSE planned[g]]
  /\ CancelPlanTokens(PlanIds(left))

(* Mutant: the plan tokens are forgotten and their listeners not told, and *)
(* those that are only made inactive stay in the table.                    *)
RemoveSilently(D, X) ==
  LET gone == Gone(D, X)
      left == Withdrawn(D, X) IN
  /\ state' = [t \in Tokens |-> IF t \in gone THEN "none"
                                ELSE IF t \in D THEN "inactive" ELSE state[t]]
  /\ past' = past \ gone
  /\ requests' = requests \ gone
  /\ decided' = decided \ (D \cup gone)
  /\ out' = [c \in Commands |-> IF c \in (left \cap dispatched) \ past
                                  THEN out[c] - 1 ELSE out[c]]
  /\ planned' = [g \in Goals |-> IF g \in gone THEN 0 ELSE planned[g]]
  /\ UNCHANGED planTokenVars

(* EuropaReactor::cancel for every active token (notifyDeactivated), then  *)
(* EuropaReactor::discard for those deleted (notifyRemoved); of the tables *)
(* dispatched is left to the caller.                                       *)
Remove(D, X) ==
  LET gone == Gone(D, X)
      left == Withdrawn(D, X) IN
  /\ state' = [t \in Tokens |-> IF t \in gone THEN "none"
                                ELSE IF t \in D THEN "inactive" ELSE state[t]]
  /\ past' = past \ gone
  /\ requests' = requests \ gone
  /\ decided' = decided \ (D \cup gone)
  /\ out' = [c \in Commands |-> IF c \in (left \cap dispatched) \ past
                                  THEN out[c] - 1 ELSE out[c]]
  /\ planned' = [g \in Goals |-> IF g \in left \cup gone THEN 0 ELSE planned[g]]
  /\ CancelPlanTokens(PlanIds(left))

DispatchedAfter(D, X) == dispatched \ (Withdrawn(D, X) \cup Gone(D, X))

-----------------------------------------------------------------------------
(* Requests, handled by workRatio                                          *)

(* handleRequest.  (A request with an unknown predicate, or that cannot be *)
(* restricted, leaves no trace.)                                           *)
HandleRequest(g) ==
  /\ pc = "work"
  /\ state[g] = "none"
  /\ state' = [state EXCEPT ![g] = "inactive"]
  /\ requests' = requests \cup {g}
  /\ completed' = FALSE
  /\ UNCHANGED <<tick, pc, past, facts, dispatched, planned, decided, stepped,
                 out, over, planTokenVars>>

(* handleRecall: the planner is reset when it was at work, and the token   *)
(* is cancelled and deleted (Assembly::recalled).                          *)
HandleRecall(g) ==
  /\ pc = "work"
  /\ g \in requests
  /\ LET undone == IF ~completed /\ stepped THEN decided ELSE {} IN
     /\ Remove(undone, {g})
     /\ dispatched' = DispatchedAfter(undone, {g})
     /\ stepped' = (stepped /\ completed)
  /\ completed' = FALSE
  /\ UNCHANGED <<tick, pc, facts, over>>

-----------------------------------------------------------------------------
(* Deliberation: hasWork and resume                                        *)

(* A step of the planner activates a goal in its horizon or a slave ...    *)
StepActivate(t) ==
  /\ pc = "work" /\ ~completed
  /\ state[t] = "inactive" /\ t \notin past
  /\ state' = [u \in Tokens |-> IF u = t THEN "active"
                                ELSE IF u \in Slaves({t}) THEN "inactive" ELSE state[u]]
  /\ decided' = decided \cup {t}
  /\ stepped' = TRUE
  /\ UNCHANGED <<tick, pc, past, facts, tables, completed, out, over, planTokenVars>>

(* ... or rejects a goal ...                                               *)
StepReject(g) ==
  /\ pc = "work" /\ ~completed
  /\ state[g] = "inactive"
  /\ state' = [state EXCEPT ![g] = "rejected"]
  /\ decided' = decided \cup {g}
  /\ stepped' = TRUE
  /\ UNCHANGED <<tick, pc, past, facts, tables, completed, out, over, planTokenVars>>

(* ... or takes back a decision.  (The slaves of a token are decided after *)
(* it and undone before; any other order will do here.)                    *)
StepBacktrack(t) ==
  /\ pc = "work" /\ ~completed
  /\ t \in decided
  /\ Slaves({t}) \cap decided = {}
  /\ Remove({t}, {})
  /\ dispatched' = DispatchedAfter({t}, {})
  /\ stepped' = TRUE
  /\ UNCHANGED <<tick, pc, facts, completed, over>>

(* Or the plan is found inconsistent, or the planner exhausted.            *)
StepFails ==
  /\ pc = "work" /\ ~completed
  /\ pc' = "recover"
  /\ UNCHANGED <<tick, state, past, facts, tables, solver, out, over, planTokenVars>>

(* hasWork when the planner has no more flaws.                             *)
Complete ==
  /\ pc = "work" /\ ~completed
  /\ completed' = TRUE
  /\ pc' = IF stepped THEN "publish" ELSE "archive"
  /\ UNCHANGED <<tick, state, past, facts, tables, decided, stepped, out, over,
                 planTokenVars>>

(* getFuturePlan, plan_dispatch: a goal that ends after the next tick is   *)
(* announced; one that was announced before is only restricted further.    *)
Announce(g) ==
  /\ pc = "publish"
  /\ g \in Active(Goals) \ past
  /\ planned[g] = 0
  /\ PostPlanToken
  /\ planned' = [planned EXCEPT ![g] = lastId + 1]
  /\ UNCHANGED <<tick, pc, state, past, facts, requests, dispatched, solver, out, over>>

EndOfPlan ==
  /\ pc = "publish"
  /\ pc' = "archive"
  /\ UNCHANGED <<tick, state, past, facts, tables, solver, out, over, planTokenVars>>

(* hasWork, then: the commands of S fall in the dispatch window of their   *)
(* timeline, and those not dispatched yet are posted (do_dispatch,         *)
(* EuropaReactor::dispatch).                                               *)
Dispatch(S) ==
  /\ pc = "dispatch"
  /\ S \subseteq {c \in Active(Commands) \ past : out[c] < MaxOut}
  /\ dispatched' = dispatched \cup S
  /\ out' = [c \in Commands |-> IF c \in S \ dispatched THEN out[c] + 1 ELSE out[c]]
  /\ pc' = "work"
  /\ UNCHANGED <<tick, state, past, facts, requests, planned, solver, over,
                 planTokenVars>>

(* Mutant: a token is archived as soon as its master is over.              *)
ArchiveEarly(T, X, K) ==
  /\ pc = "archive"
  /\ T \subseteq past /\ X \subseteq T
  /\ K \subseteq facts
  /\ LET gone == X \cup Slaves(X)
         done == T \cup gone IN
     /\ state' = [t \in Tokens |-> IF t \in gone THEN "none" ELSE state[t]]
     /\ past' = past \ gone
     /\ requests' = requests \ done
     /\ dispatched' = dispatched \ done
     /\ planned' = [g \in Goals |-> IF g \in done THEN 0 ELSE planned[g]]
     /\ decided' = decided \ gone
  /\ facts' = K
  /\ pc' = IF completed THEN "dispatch" ELSE "work"
  /\ UNCHANGED <<tick, stepped, completed, out, over, planTokenVars>>

(* Assembly::archive: the tokens of T, over, are terminated and those of X *)
(* deleted with their slaves, over too.  All are discarded from the tables *)
(* and none is recalled.  It may keep any of the past, all of it when      *)
(* nothing has changed (should_archive).                                   *)
Archive(T, X, K) ==
  /\ pc = "archive"
  /\ T \subseteq past /\ X \subseteq T /\ Slaves(X) \subseteq past
  /\ K \subseteq facts
  /\ LET gone == X \cup Slaves(X)
         done == T \cup gone IN
     /\ state' = [t \in Tokens |-> IF t \in gone THEN "none" ELSE state[t]]
     /\ past' = past \ gone
     /\ requests' = requests \ done
     /\ dispatched' = dispatched \ done
     /\ planned' = [g \in Goals |-> IF g \in done THEN 0 ELSE planned[g]]
     /\ decided' = decided \ gone
  /\ facts' = K
  /\ pc' = IF completed THEN "dispatch" ELSE "work"
  /\ UNCHANGED <<tick, stepped, completed, out, over, planTokenVars>>

-----------------------------------------------------------------------------
(* Relaxing the plan: do_relax and Assembly::relax                         *)

(* The planner is reset; the goals of L, over, are deleted and every other *)
(* one is cancelled.  Of the past observations K is kept, and the slaves F *)
(* of the others are destroyed; what depends on a present observation      *)
(* stays.  Then m_dispatched is cleared: "need this in case we have the    *)
(* same token coming back".                                                *)
RelaxPlan(L, K, F) ==
  LET undone == decided \cup {g \in Goals \ L : state[g] \in {"active", "rejected"}}
      deleted == L \cup F IN
  /\ Remove(undone, deleted)
  /\ dispatched' = {}
  /\ facts' = K
  /\ stepped' = FALSE

(* relax(false)                                                            *)
MildRelax == \E L \in SUBSET (past \cap Goals) : RelaxPlan(L, facts, {})

(* relax(true): every observation that is over is deleted.                 *)
FullRelax ==
  \E L \in SUBSET (past \cap Goals), F \in SUBSET FactCommands : RelaxPlan(L, {}, F)

(* resume, once its step has failed.  The braces after its first test are  *)
(* missing: the second relax is done whatever the first one returned.      *)
Recover(ok) ==
  /\ pc = "recover"
  /\ MildRelax
  /\ pc' = IF ok THEN "recovered" ELSE "unrecovered"
  /\ UNCHANGED <<tick, completed, over>>

(* When the second fails too a ReactorException leaves resume, and the     *)
(* agent kills the reactor.                                                *)
ForgetPast(ok) ==
  /\ pc \in {"recovered", "unrecovered"}
  /\ FullRelax
  /\ pc' = IF ok THEN "work" ELSE "dead"
  /\ UNCHANGED <<tick, completed, over>>

-----------------------------------------------------------------------------
(* The tick: handleTickStart and synchronize                               *)

(* The clock moves on; the tokens of P are over from now on.               *)
TickStart(P) ==
  /\ pc = "work"
  /\ tick < MaxTick
  /\ tick' = tick + 1
  /\ past' = past \cup P
  /\ over' = over \cup PlanIds(P)
  /\ out' = [c \in Commands |-> IF c \in P THEN 0 ELSE out[c]]
  /\ pc' = "synch"
  /\ UNCHANGED <<state, facts, tables, solver, planTokenVars>>

(* A state is found for the timelines.  An observation may end and the     *)
(* ones that start may have slaves, those of N.                            *)
NewState(N) ==
  /\ state' = [t \in Tokens |-> IF t \in N THEN "inactive" ELSE state[t]]
  /\ facts' \in {facts, facts \cup {tick}}

(* At the first try: when deliberation was over its decisions become part  *)
(* of the plan (planner()->clear()), and when the planner is not at work   *)
(* the past is archived.  (The loop that should remove the completed       *)
(* commands from m_dispatched looks at the previous observations, that     *)
(* commit has just reset: it does nothing.)                                *)
SynchOk(N) ==
  /\ pc = "synch"
  /\ NewState(N)
  /\ decided' = IF completed THEN {} ELSE decided
  /\ stepped' = (stepped /\ ~completed)
  /\ completed' = FALSE
  /\ pc' = IF stepped' THEN "work" ELSE "archive"
  /\ UNCHANGED <<tick, past, tables, out, over, planTokenVars>>

SynchFails ==
  /\ pc = "synch"
  /\ completed' = FALSE
  /\ pc' = "relax"
  /\ UNCHANGED <<tick, state, past, facts, tables, decided, stepped, out, over,
                 planTokenVars>>

(* do_relax(false), then do_relax(true), each followed by synch().         *)
SynchRelax(ok) ==
  /\ pc = "relax"
  /\ MildRelax
  /\ pc' = IF ok THEN "synch2" ELSE "forget"
  /\ UNCHANGED <<tick, completed, over>>

SynchForget(ok) ==
  /\ pc = "forget"
  /\ FullRelax
  /\ pc' = IF ok THEN "synch3" ELSE "dead"
  /\ UNCHANGED <<tick, completed, over>>

SynchAgain(N) ==
  /\ pc \in {"synch2", "synch3"}
  /\ NewState(N)
  /\ pc' = "work"
  /\ UNCHANGED <<tick, past, tables, solver, out, over, planTokenVars>>

(* It fails again, or the last propagation of synchronize() does.          *)
SynchAgainFails ==
  /\ pc \in {"synch2", "synch3"}
  /\ pc' \in {IF pc = "synch2" THEN "forget" ELSE "dead", "dead"}
  /\ UNCHANGED <<tick, state, past, facts, tables, solver, out, over, planTokenVars>>

ListenerWorks ==
  /\ pc = "work"
  /\ Listen
  /\ UNCHANGED <<tick, pc, state, past, facts, tables, solver, out, over>>

Next ==
  \/ \E g \in Goals : \/ HandleRequest(g) \/ HandleRecall(g)
                      \/ StepReject(g) \/ Announce(g)
  \/ \E t \in Tokens : StepActivate(t) \/ StepBacktrack(t)
  \/ StepFails \/ Complete \/ EndOfPlan
  \/ \E T \in SUBSET past, X \in SUBSET past, K \in SUBSET facts : Archive(T, X, K)
  \/ \E S \in SUBSET Commands : Dispatch(S)
  \/ \E ok \in BOOLEAN : \/ Recover(ok) \/ ForgetPast(ok)
                        \/ SynchRelax(ok) \/ SynchForget(ok)
  \/ \E P \in SUBSET {t \in Tokens : state[t] # "none"} : TickStart(P)
  \/ \E N \in SUBSET {c \in FactCommands : state[c] = "none"} : SynchOk(N) \/ SynchAgain(N)
  \/ SynchFails \/ SynchAgainFails
  \/ ListenerWorks

Spec == Init /\ [][Next]_plannerVars

-----------------------------------------------------------------------------
(* Properties                                                              *)

(* A command that a goal needs is asked for exactly once as long as it is  *)
(* in the plan, and not any more when it left it: however goals are        *)
(* recalled, decisions undone, the plan relaxed and made again, the        *)
(* owner of the timeline has at most one goal, that the table still names  *)
(* and an active token stands for.  (For the slaves of an observation that *)
(* is still true m_dispatched is cleared too early: see README.)           *)
CommandsAccounted ==
  \A c \in Commands \ FactCommands :
    /\ out[c] = IF c \in dispatched \ past THEN 1 ELSE 0
    /\ c \in dispatched => state[c] = "active" /\ state[Master[c]] = "active"

(* A token in the table of announced tokens is active in the plan, and the *)
(* listener has been told of it, under this goal_id, and of no cancel.     *)
AnnouncedIsPlanned ==
  \A g \in Goals : planned[g] # 0 =>
    /\ state[g] = "active"
    /\ planned[g] \in (toks \cup known) \ cancels

(* "Failed to relax => forgetting past": a reactor whose plan could be     *)
(* relaxed keeps its past.                                                 *)
PastKept == [][pc = "recovered" => facts \subseteq facts']_plannerVars

(* A cancelled plan token is treated "as a recall": when the listener has  *)
(* handled all it was sent, what it knows is still planned or is over.     *)
CancelsHeard ==
  pc = "work" /\ toks = {} /\ cancels = {} =>
    known \subseteq over \cup {planned[g] : g \in Goals}
=============================================================================
