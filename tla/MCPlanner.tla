----------------------------- MODULE MCPlanner -----------------------------
(* An instance of Planner small enough for TLC: a goal that needs a        *)
(* command, another one, and a command an observation needs.               *)
EXTENDS Planner, TLC

CONSTANTS g1, g2, c1, c2

MCMaster == (c1 :> g1) @@ (c2 :> Fact)
=============================================================================
