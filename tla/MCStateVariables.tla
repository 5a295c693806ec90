-------------------------- MODULE MCStateVariables --------------------------
(* An instance of StateVariables small enough for TLC.                     *)
EXTENDS StateVariables, TLC

CONSTANTS p1, p2

(* One predicate to create besides the default.                            *)
MCOthers == <<p2>>
=============================================================================
