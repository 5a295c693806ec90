--------------------------- MODULE MCDeliberation ---------------------------
(* Instances of Deliberation small enough for TLC.                         *)
EXTENDS Deliberation, TLC

CONSTANTS r1, r2

(* One reactor that answers at once and one that takes a tick more.        *)
MCLatency == r1 :> 0 @@ r2 :> 1
=============================================================================
