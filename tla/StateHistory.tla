---------------------------- MODULE StateHistory ----------------------------
(***************************************************************************)
(* What a planner promises the rest of the agent about the timelines it    *)
(* owns, whatever search it does to keep the promise: at every tick either *)
(* one state is settled for all of them in a single step, each value being *)
(* the one before or a new one that starts at this very tick, or the       *)
(* planner is gone and shows nothing new any more.                         *)
(* StateVariables is shown to implement this specification.                *)
(***************************************************************************)
EXTENDS Naturals

CONSTANTS
  Owned,       \* the timelines of the planner
  Preds,       \* predicates their observations can have
  NoPred       \* nothing shown yet

VARIABLES
  clock,       \* the current tick
  settled,     \* the state of this tick is known
  alive,
  value,       \* predicate of the observation a timeline shows
  since        \* tick this observation started at

historyVars == <<clock, settled, alive, value, since>>

Init ==
  /\ clock = 0
  /\ settled = TRUE
  /\ alive = TRUE
  /\ value = [t \in Owned |-> NoPred]
  /\ since = [t \in Owned |-> 0]

Tick ==
  /\ alive /\ settled
  /\ clock' = clock + 1
  /\ settled' = FALSE
  /\ UNCHANGED <<alive, value, since>>

(* All the timelines at once; those that show nothing yet have to start.   *)
Settle ==
  /\ alive /\ ~settled
  /\ settled' = TRUE
  /\ \E S \in SUBSET Owned, v \in [Owned -> Preds] :
       /\ {t \in Owned : value[t] = NoPred} \subseteq S
       /\ value' = [t \in Owned |-> IF t \in S THEN v[t] ELSE value[t]]
       /\ since' = [t \in Owned |-> IF t \in S THEN clock ELSE since[t]]
  /\ UNCHANGED <<clock, alive>>

Die ==
  /\ alive /\ ~settled
  /\ alive' = FALSE
  /\ UNCHANGED <<clock, settled, value, since>>

Next == Tick \/ Settle \/ Die

Spec == Init /\ [][Next]_historyVars
=============================================================================
