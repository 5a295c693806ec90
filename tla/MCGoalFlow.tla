----------------------------- MODULE MCGoalFlow -----------------------------
(* Instances of GoalFlow small enough for TLC.                             *)
EXTENDS GoalFlow, TLC

CONSTANTS g1, g2, s1, s2

(* A goal with the default start, and one that stands before it although   *)
(* it cannot start as early.                                               *)
MCStartLb == g1 :> MinusInf @@ g2 :> 2
MCStartUb == g1 :> PlusInf @@ g2 :> 2
MCMinDuration == g1 :> 1 @@ g2 :> 2
(* Two goals that must start by the same date: only the lower bounds,      *)
(* which dispatch raises, order them.                                      *)
MCTiedLb == g1 :> MinusInf @@ g2 :> 2
MCTiedUb == g1 :> 2 @@ g2 :> 2
(* Servers that look one tick ahead; s2 needs a tick to start.             *)
MCLookAhead == [s \in Servers |-> 1]
MCExecLatency == [s \in Servers |-> IF s = s2 THEN 1 ELSE 0]
=============================================================================
