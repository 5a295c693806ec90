----------------------------- MODULE PlanTokens -----------------------------
(***************************************************************************)
(* How the owner of a timeline tells the reactors that listen to its plan  *)
(* which tokens are part of it (postPlanToken, cancelPlanToken), and how   *)
(* one such listener takes them in.  The calls are queued with the         *)
(* listener and handled when the agent asks for its work ratio, on the     *)
(* thread the owner runs on as well.  Planner composes this module with    *)
(* an owner.                                                               *)
(***************************************************************************)
EXTENDS Integers

CONSTANT MaxId   \* bound on the plan tokens posted in a behaviour

ASSUME PlanTokensAssumption == MaxId \in Nat

VARIABLES
  lastId,   \* goal_ids created so far: each token posted is a new Goal
  toks,     \* m_sync_toks of the listener
  cancels,  \* m_sync_cancels of the listener
  known     \* tokens given to newPlanToken, not to cancelledPlanToken

planTokenVars == <<lastId, toks, cancels, known>>

Ids == 1 .. MaxId

PlanTokensTypeOK ==
  /\ lastId \in 0 .. MaxId
  /\ toks \subseteq 1 .. lastId
  /\ cancels \subseteq 1 .. lastId
  /\ known \subseteq 1 .. lastId

PlanTokensInit ==
  /\ lastId = 0
  /\ toks = {}
  /\ cancels = {}
  /\ known = {}

(* postPlanToken of a new goal, its end being in the future: plan_sync,    *)
(* timeline::notifyPlan, queue_token.                                      *)
PostPlanToken ==
  /\ lastId < MaxId
  /\ lastId' = lastId + 1
  /\ toks' = toks \cup {lastId + 1}
  /\ UNCHANGED <<cancels, known>>

(* cancelPlanToken of the tokens of S: cancel_sync, timeline::cancelPlan,  *)
(* queue_cancel.                                                           *)
CancelPlanTokens(S) ==
  /\ cancels' = cancels \cup S
  /\ UNCHANGED <<lastId, toks, known>>

(* workRatio of the listener: newPlanToken for each token queued, then,    *)
(* for each cancel, cancelPlanToken.  That is the call of an owner, and    *)
(* does nothing on a timeline which is not Internal: cancelledPlanToken    *)
(* is not called.                                                          *)
Listen ==
  /\ toks # {} \/ cancels # {}
  /\ known' = known \cup toks
  /\ toks' = {}
  /\ cancels' = {}
  /\ UNCHANGED lastId
=============================================================================
