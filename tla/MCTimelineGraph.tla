-------------------------- MODULE MCTimelineGraph --------------------------
(* Instances of TimelineGraph small enough for TLC.                        *)
EXTENDS TimelineGraph, TLC

(* Reactors and timelines are only compared for equality.                  *)
Symmetry == Permutations(Reactors) \cup Permutations(Timelines)

(* provide("t"), and provide("t", true, true)                              *)
MCOwnerFlags == {[goals |-> TRUE, plan |-> TRUE]}
(* use("t"), use("t", true, true)                                          *)
MCClientFlags == {[goals |-> TRUE, plan |-> FALSE], [goals |-> TRUE, plan |-> TRUE]}
=============================================================================
