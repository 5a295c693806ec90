---------------------------- MODULE MCGoalTimes ----------------------------
(* An instance of GoalTimes small enough for TLC.                          *)
EXTENDS GoalTimes

CONSTANT MaxDate

MCTimes == -3 * MaxDate .. 4 * MaxDate
(* Bounded on one side or on none: calls intersect to the others.          *)
MCIntervals(low) ==
  {[lo |-> At(n), hi |-> PlusInf] : n \in low .. MaxDate}
  \cup {[lo |-> MinusInf, hi |-> At(n)] : n \in low .. MaxDate}
  \cup {dateDomain}
MCDateArgs == MCIntervals(0)
MCLengthArgs == MCIntervals(1)
=============================================================================
