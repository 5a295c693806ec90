--------------------------- MODULE TimelineBoard ---------------------------
(***************************************************************************)
(* What the transaction graph promises about its timelines, with none of   *)
(* its bookkeeping: a timeline has at most one owner, the value its        *)
(* clients read changes only while it is owned, and losing the owner makes *)
(* that value the Failed observation in the same step.  TimelineGraph is   *)
(* shown to implement this specification.                                  *)
(***************************************************************************)
CONSTANTS
  Reactors,    \* identities a reactor object can have
  Timelines,   \* timeline names
  Values,      \* observations a reactor can produce, Failed apart
  Failed,      \* Predicate::failed_pred()
  NoReactor    \* the NULL owner

VARIABLES
  owner,       \* timeline::m_owner
  lastObs      \* timeline::m_last_obs

boardVars == <<owner, lastObs>>

Init ==
  /\ owner = [t \in Timelines |-> NoReactor]
  /\ lastObs = [t \in Timelines |-> Failed]

(* A free timeline gets an owner; what its clients read is not touched.    *)
Acquire(r, t) ==
  /\ owner[t] = NoReactor
  /\ owner' = [owner EXCEPT ![t] = r]
  /\ UNCHANGED lastObs

(* An owner gives up, or loses, some of its timelines: all of them read    *)
(* Failed in the very step that leaves them free.                          *)
Release(r, S) ==
  /\ \A t \in S : owner[t] = r
  /\ owner' = [t \in Timelines |-> IF t \in S THEN NoReactor ELSE owner[t]]
  /\ lastObs' = [t \in Timelines |-> IF t \in S THEN Failed ELSE lastObs[t]]

(* A synchronization publishes new values on owned timelines only.         *)
Publish(S) ==
  /\ \A t \in S : owner[t] # NoReactor
  /\ \E val \in [S -> Values] :
       lastObs' = [t \in Timelines |-> IF t \in S THEN val[t] ELSE lastObs[t]]
  /\ UNCHANGED owner

Next ==
  \/ \E r \in Reactors, t \in Timelines : Acquire(r, t)
  \/ \E r \in Reactors, S \in SUBSET Timelines : Release(r, S)
  \/ \E S \in SUBSET Timelines : Publish(S)

Spec == Init /\ [][Next]_boardVars
=============================================================================
