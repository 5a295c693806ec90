----------------------------- MODULE MCAgentTick -----------------------------
(* Instances of AgentTick small enough for TLC.                            *)
EXTENDS AgentTick, TLC

Symmetry == Permutations(Reactors) \cup Permutations(Timelines)

MCFlags == {[goals |-> TRUE, plan |-> FALSE]}
=============================================================================
