--------------------------- MODULE Planner_proofs ---------------------------
(***************************************************************************)
(* Proofs about Planner, for any goals, commands, masters and bounds: the  *)
(* tables between the plan, the commands that were posted and the tokens   *)
(* that were announced never disagree.                                     *)
(*                                                                         *)
(* PlannerInv is inductive.  To the properties it adds that the slaves of  *)
(* a goal are only in the plan when the goal is active, that a command in  *)
(* m_dispatched was posted, that the decisions concern tokens of the plan, *)
(* and that no two goals are announced under the same goal_id: a cancel    *)
(* would then hit both.  PastIsOver, next to it, is what makes a token     *)
(* that is archived one its listeners do not wait for.                     *)
(***************************************************************************)
EXTENDS Planner, TLAPS

OwnCommands == Commands \ FactCommands

(* A command of a goal is in the plan only when its master is active.      *)
SlavesFollow == \A c \in OwnCommands : state[c] # "none" => state[Master[c]] = "active"

Posted == \A c \in dispatched \ past : out[c] >= 1

DecidedInPlan == \A t \in decided : state[t] # "none"

Unique == \A g, h \in Goals : planned[g] # 0 /\ planned[g] = planned[h] => g = h

PlannerInv ==
  /\ TypeOK
  /\ SlavesFollow
  /\ Posted
  /\ DecidedInPlan
  /\ Unique
  /\ CommandsAccounted
  /\ AnnouncedIsPlanned

(* One step of CommandsAccounted for one command.                          *)
AccountedAt(c) ==
  /\ out[c] = IF c \in dispatched \ past THEN 1 ELSE 0
  /\ c \in dispatched => state[c] = "active" /\ state[Master[c]] = "active"

AnnouncedAt(g) ==
  planned[g] # 0 => state[g] = "active" /\ planned[g] \in (toks \cup known) \ cancels

LEMMA Tables ==
  /\ CommandsAccounted <=> \A c \in OwnCommands : AccountedAt(c)
  /\ AnnouncedIsPlanned <=> \A g \in Goals : AnnouncedAt(g)
  BY DEF CommandsAccounted, AnnouncedIsPlanned, AccountedAt, AnnouncedAt, OwnCommands

LEMMA TokenSets ==
  /\ \A g \in Goals : g \in Tokens /\ g \notin Commands
  /\ \A c \in Commands : c \in Tokens /\ c \notin Goals
  /\ \A c \in OwnCommands : c \in Commands /\ Master[c] \in Goals
  /\ FactCommands \subseteq Commands
  BY PlannerAssumption DEF Tokens, OwnCommands, FactCommands

-----------------------------------------------------------------------------
(* Tokens that leave the plan                                              *)

LEMMA RemoveStates ==
  ASSUME TypeOK, NEW D \in SUBSET Tokens, NEW X \in SUBSET Tokens, Remove(D, X),
         \A t \in D : state[t] # "none"
  PROVE  /\ state' \in [Tokens -> {"none", "inactive", "active", "rejected"}]
         /\ past' \subseteq Tokens /\ requests' \subseteq Goals /\ decided' \subseteq Tokens
         /\ Gone(D, X) \subseteq Tokens /\ Withdrawn(D, X) \subseteq D \cup Gone(D, X)
         /\ \A t \in Tokens : /\ t \in Gone(D, X) => state'[t] = "none"
                              /\ t \in D \ Gone(D, X) => state'[t] = "inactive"
                              /\ t \notin D \cup Gone(D, X) => state'[t] = state[t]
         /\ \A g \in Goals : g \in Gone(D, X) => g \in X
  BY TokenSets DEF Remove, TypeOK, Gone, Slaves, Withdrawn, Active

LEMMA RemoveFollows ==
  ASSUME TypeOK, SlavesFollow, DecidedInPlan,
         NEW D \in SUBSET Tokens, NEW X \in SUBSET Tokens, Remove(D, X),
         \A t \in D : state[t] # "none"
  PROVE  /\ SlavesFollow' /\ DecidedInPlan'
         /\ \A c \in OwnCommands :
              Master[c] \in D \cup X => c \in Gone(D, X)
<1>0. /\ \A t \in Tokens : /\ t \in Gone(D, X) => state'[t] = "none"
                           /\ t \in D \ Gone(D, X) => state'[t] = "inactive"
                           /\ t \notin D \cup Gone(D, X) => state'[t] = state[t]
      /\ \A g \in Goals : g \in Gone(D, X) => g \in X
  BY RemoveStates DEF PlannerInv
<1>1. \A c \in Commands : Master[c] \in D \cup X => c \in Gone(D, X)
  BY DEF Gone, Slaves
<1>2. ASSUME NEW c \in OwnCommands, state'[c] # "none" PROVE state'[Master[c]] = "active"
  <2>1. c \in Tokens /\ c \in Commands /\ Master[c] \in Tokens /\ Master[c] \in Goals
    BY TokenSets
  <2>2. c \notin Gone(D, X) /\ state[c] # "none"
    BY <1>2, <2>1, <1>0
  <2>3. state[Master[c]] = "active" /\ Master[c] \notin D \cup X
    BY <1>1, <2>1, <2>2 DEF SlavesFollow
  <2>4. Master[c] \notin Gone(D, X)
    BY <2>1, <2>3, <1>0
  <2> QED
    BY <2>1, <2>3, <2>4, <1>0
<1>3. SlavesFollow'
  BY <1>2 DEF SlavesFollow
<1>4. ASSUME NEW t \in decided' PROVE state'[t] # "none"
  <2>1. t \in decided /\ t \notin D \cup Gone(D, X) /\ t \in Tokens
    BY DEF Remove, TypeOK
  <2> QED
    BY <2>1, <1>0 DEF DecidedInPlan
<1>5. DecidedInPlan'
  BY <1>4 DEF DecidedInPlan
<1> QED
  BY <1>1, <1>3, <1>5, TokenSets

LEMMA RemoveAnnounced ==
  ASSUME TypeOK, Unique, AnnouncedIsPlanned,
         NEW D \in SUBSET Tokens, NEW X \in SUBSET Tokens, Remove(D, X),
         \A t \in D : state[t] # "none"
  PROVE  /\ Unique' /\ AnnouncedIsPlanned' /\ PlanTokensTypeOK'
         /\ planned' \in [Goals -> 0 .. lastId'] /\ lastId' = lastId
<1>0. /\ \A t \in Tokens : /\ t \in Gone(D, X) => state'[t] = "none"
                           /\ t \in D \ Gone(D, X) => state'[t] = "inactive"
                           /\ t \notin D \cup Gone(D, X) => state'[t] = state[t]
      /\ \A g \in Goals : g \in Gone(D, X) => g \in X
  BY RemoveStates DEF PlannerInv
<1>1. /\ planned \in [Goals -> 0 .. lastId] /\ lastId \in Nat
      /\ lastId' = lastId /\ toks' = toks /\ known' = known
      /\ cancels' = cancels \cup PlanIds(Withdrawn(D, X))
  BY PlanTokensAssumption DEF TypeOK, PlanTokensTypeOK, Remove, CancelPlanTokens
<1>2. planned' = [g \in Goals |-> IF g \in Withdrawn(D, X) \cup Gone(D, X) THEN 0 ELSE planned[g]]
  BY DEF Remove
<1>3. Unique' /\ planned' \in [Goals -> 0 .. lastId']
  BY <1>1, <1>2 DEF Unique
<1>4. PlanIds(Withdrawn(D, X)) \subseteq 1 .. lastId
  BY <1>1 DEF PlanIds
<1>5. PlanTokensTypeOK'
  BY <1>1, <1>4 DEF TypeOK, PlanTokensTypeOK
<1>6. ASSUME NEW g \in Goals PROVE AnnouncedAt(g)'
  <2> SUFFICES ASSUME planned'[g] # 0
               PROVE  state'[g] = "active" /\ planned'[g] \in (toks' \cup known') \ cancels'
    BY DEF AnnouncedAt
  <2>1. g \notin Withdrawn(D, X) \cup Gone(D, X) /\ planned'[g] = planned[g]
    BY <1>2
  <2>2. state[g] = "active" /\ planned[g] \in (toks \cup known) \ cancels
    BY <2>1, Tables DEF AnnouncedAt
  <2>3. g \notin D
    BY <2>1, <2>2 DEF Withdrawn, Active
  <2>4. planned[g] \notin PlanIds(Withdrawn(D, X))
    BY <2>1 DEF PlanIds, Unique
  <2> QED
    BY <1>1, <2>1, <2>2, <2>3, <2>4, TokenSets, <1>0
<1>7. AnnouncedIsPlanned'
  BY <1>6 DEF AnnouncedIsPlanned, AnnouncedAt
<1> QED
  BY <1>1, <1>3, <1>5, <1>7

(* The goals posted for commands, when nothing or everything else of       *)
(* m_dispatched is forgotten.                                              *)
LEMMA RemoveAccounts ==
  ASSUME PlannerInv, NEW D \in SUBSET Tokens, NEW X \in SUBSET Tokens, Remove(D, X),
         \A t \in D : state[t] # "none",
         \/ dispatched' = DispatchedAfter(D, X)
         \/ dispatched' = {} /\ \A g \in Goals : state[g] = "active" => g \in D \cup X
  PROVE  /\ dispatched' \subseteq Commands /\ out' \in [Commands -> Nat]
         /\ Posted' /\ CommandsAccounted'
<1>0. /\ \A t \in Tokens : /\ t \in Gone(D, X) => state'[t] = "none"
                           /\ t \in D \ Gone(D, X) => state'[t] = "inactive"
                           /\ t \notin D \cup Gone(D, X) => state'[t] = state[t]
      /\ \A g \in Goals : g \in Gone(D, X) => g \in X
  BY RemoveStates DEF PlannerInv
<1>1. /\ TypeOK /\ dispatched \subseteq Commands /\ out \in [Commands -> Nat]
      /\ past' = past \ Gone(D, X)
      /\ out' = [c \in Commands |-> IF c \in (Withdrawn(D, X) \cap dispatched) \ past
                                       THEN out[c] - 1 ELSE out[c]]
  BY DEF PlannerInv, TypeOK, Remove
<1>2. /\ dispatched' \subseteq dispatched
      /\ \A c \in dispatched' : c \notin Withdrawn(D, X) \cup Gone(D, X)
  BY DEF DispatchedAfter
<1>3. out' \in [Commands -> Nat]
  BY <1>1 DEF PlannerInv, Posted
<1>4. Posted'
  BY <1>1, <1>2 DEF PlannerInv, Posted
<1>5. ASSUME NEW c \in OwnCommands PROVE AccountedAt(c)'
  <2>1. /\ c \in Commands /\ c \in Tokens /\ Master[c] \in Goals /\ Master[c] \in Tokens
        /\ AccountedAt(c)
    BY TokenSets, Tables DEF PlannerInv
  <2>2. CASE c \in dispatched'
    <3>1. /\ c \in dispatched /\ c \notin Withdrawn(D, X) /\ c \notin Gone(D, X)
          /\ state[c] = "active" /\ state[Master[c]] = "active"
      BY <1>2, <2>1, <2>2 DEF AccountedAt
    <3>2. c \notin D
      BY <3>1 DEF Withdrawn, Active
    <3>3. Master[c] \notin D \cup X
      BY <3>1, RemoveFollows DEF PlannerInv
    <3>4. state'[c] = "active" /\ state'[Master[c]] = "active"
      BY <1>1, <2>1, <3>1, <3>2, <3>3, <1>0
    <3>5. out'[c] = out[c] /\ (c \in past' <=> c \in past)
      BY <1>1, <2>1, <3>1
    <3> QED
      BY <2>1, <2>2, <3>1, <3>4, <3>5 DEF AccountedAt
  <2>3. CASE c \notin dispatched'
    <3>1. CASE c \notin dispatched \ past
      BY <1>1, <2>1, <2>3, <3>1 DEF AccountedAt
    <3>2. CASE c \in dispatched \ past
      <4>1. state[c] = "active" /\ state[Master[c]] = "active" /\ out[c] = 1
        BY <2>1, <3>2 DEF AccountedAt
      <4>2. c \in Withdrawn(D, X) \cup Gone(D, X)
        <5>1. CASE dispatched' = DispatchedAfter(D, X)
          BY <2>3, <3>2, <5>1 DEF DispatchedAfter
        <5>2. CASE dispatched' # DispatchedAfter(D, X)
          <6>1. Master[c] \in D \cup X
            BY <2>1, <4>1, <5>2
          <6> QED
            BY <6>1, RemoveFollows DEF PlannerInv
        <5> QED
          BY <5>1, <5>2
      <4>3. c \in Withdrawn(D, X)
        BY <4>1, <4>2 DEF Withdrawn, Active
      <4> QED
        BY <1>1, <2>1, <2>3, <3>2, <4>1, <4>3 DEF AccountedAt
    <3> QED
      BY <3>1, <3>2
  <2> QED
    BY <2>2, <2>3
<1>6. CommandsAccounted'
  BY <1>5 DEF CommandsAccounted, AccountedAt, OwnCommands
<1> QED
  BY <1>1, <1>2, <1>3, <1>4, <1>6

LEMMA RemoveKeeps ==
  ASSUME PlannerInv, NEW D \in SUBSET Tokens, NEW X \in SUBSET Tokens, Remove(D, X),
         \A t \in D : state[t] # "none",
         \/ dispatched' = DispatchedAfter(D, X)
         \/ dispatched' = {} /\ \A g \in Goals : state[g] = "active" => g \in D \cup X,
         tick' = tick, over' = over, facts' \subseteq Nat, stepped' \in BOOLEAN, completed' \in BOOLEAN,
         pc' \in {"synch2", "forget", "synch3", "work", "recovered", "unrecovered", "dead"}
  PROVE  PlannerInv'
<1>1. TypeOK /\ SlavesFollow /\ DecidedInPlan /\ Unique /\ AnnouncedIsPlanned
  BY DEF PlannerInv
<1>2. /\ SlavesFollow' /\ DecidedInPlan' /\ Unique' /\ AnnouncedIsPlanned'
      /\ Posted' /\ CommandsAccounted'
  BY <1>1, RemoveFollows, RemoveAnnounced, RemoveAccounts
<1>3. /\ state' \in [Tokens -> {"none", "inactive", "active", "rejected"}]
      /\ past' \subseteq Tokens /\ requests' \subseteq Goals /\ decided' \subseteq Tokens
  BY <1>1, RemoveStates
<1>4. /\ PlanTokensTypeOK' /\ planned' \in [Goals -> 0 .. lastId'] /\ lastId' = lastId
  BY <1>1, RemoveAnnounced
<1>5. dispatched' \subseteq Commands /\ out' \in [Commands -> Nat]
  BY RemoveAccounts
<1>6. TypeOK'
  BY <1>1, <1>3, <1>4, <1>5 DEF TypeOK
<1> QED
  BY <1>2, <1>6 DEF PlannerInv

LEMMA RelaxKeeps ==
  ASSUME PlannerInv, MildRelax \/ FullRelax, tick' = tick, over' = over, completed' = completed,
         pc' \in {"synch2", "forget", "synch3", "work", "recovered", "unrecovered", "dead"}
  PROVE  PlannerInv'
<1>1. \E L \in SUBSET (past \cap Goals), K \in {facts, {}}, F \in SUBSET FactCommands :
         RelaxPlan(L, K, F)
  BY DEF MildRelax, FullRelax
<1>2. PICK L \in SUBSET (past \cap Goals), K \in {facts, {}}, F \in SUBSET FactCommands :
         RelaxPlan(L, K, F)
  BY <1>1
<1> DEFINE undone == decided \cup {g \in Goals \ L : state[g] \in {"active", "rejected"}}
           deleted == L \cup F
<1>3. /\ Remove(undone, deleted) /\ dispatched' = {} /\ facts' = K /\ stepped' = FALSE
  BY <1>2 DEF RelaxPlan
<1>4. TypeOK /\ DecidedInPlan
  BY DEF PlannerInv
<1>5. undone \in SUBSET Tokens /\ deleted \in SUBSET Tokens
  BY <1>4, TokenSets DEF TypeOK
<1>6. \A t \in undone : state[t] # "none"
  BY <1>4 DEF DecidedInPlan
<1>7. \A g \in Goals : state[g] = "active" => g \in undone \cup deleted
  OBVIOUS
<1>8. facts' \subseteq Nat /\ stepped' \in BOOLEAN /\ completed' \in BOOLEAN
  BY <1>3, <1>4 DEF TypeOK
<1> HIDE DEF undone, deleted
<1> QED
  BY <1>3, <1>5, <1>6, <1>7, <1>8, RemoveKeeps

-----------------------------------------------------------------------------
(* What the other actions change                                           *)

(* Only the progress of the reactor in the tick.                           *)
LEMMA ProgressKeeps ==
  ASSUME PlannerInv, UNCHANGED <<tick, state, past, facts, tables, decided, out, over, planTokenVars>>,
         stepped' \in BOOLEAN, completed' \in BOOLEAN,
         pc' \in {"synch", "relax", "synch2", "forget", "synch3", "work", "publish",
                  "archive", "dispatch", "recover", "recovered", "unrecovered", "dead"}
  PROVE  PlannerInv'
<1>1. TypeOK'
  BY DEF PlannerInv, TypeOK, PlanTokensTypeOK, tables, planTokenVars
<1>2. SlavesFollow' /\ Posted' /\ DecidedInPlan' /\ Unique' /\ CommandsAccounted' /\ AnnouncedIsPlanned'
  BY DEF PlannerInv, SlavesFollow, Posted, DecidedInPlan, Unique, CommandsAccounted,
         AnnouncedIsPlanned, tables, planTokenVars
<1> QED
  BY <1>1, <1>2 DEF PlannerInv

(* Only the states of tokens: those of the plan stay in it, those active   *)
(* stay so, and a slave comes only with its master.                        *)
LEMMA StatesKeep ==
  ASSUME PlannerInv,
         UNCHANGED <<tick, past, dispatched, planned, out, over, planTokenVars>>,
         state' \in [Tokens -> {"none", "inactive", "active", "rejected"}],
         facts' \subseteq Nat, requests' \subseteq Goals, decided' \subseteq Tokens,
         stepped' \in BOOLEAN, completed' \in BOOLEAN,
         pc' \in {"work", "archive"},
         \A t \in Tokens : state[t] # "none" => state'[t] # "none",
         \A t \in Tokens : state[t] = "active" => state'[t] = "active",
         \A c \in OwnCommands :
           state'[c] # "none" /\ state[c] = "none" => state'[Master[c]] = "active",
         \A t \in decided' : t \in decided \/ state'[t] # "none"
  PROVE  PlannerInv'
<1>1. TypeOK'
  BY DEF PlannerInv, TypeOK, PlanTokensTypeOK, planTokenVars
<1>2. TypeOK /\ \A c \in OwnCommands : c \in Tokens /\ Master[c] \in Tokens /\ c \in Commands
  BY TokenSets DEF PlannerInv
<1>3. SlavesFollow'
  <2> SUFFICES ASSUME NEW c \in OwnCommands, state'[c] # "none" PROVE state'[Master[c]] = "active"
    BY DEF SlavesFollow
  <2> QED
    BY <1>2 DEF PlannerInv, SlavesFollow
<1>4. Posted' /\ Unique'
  BY DEF PlannerInv, Posted, Unique
<1>5. DecidedInPlan'
  BY <1>2 DEF PlannerInv, DecidedInPlan, TypeOK
<1>6. CommandsAccounted'
  <2> SUFFICES ASSUME NEW c \in OwnCommands PROVE AccountedAt(c)'
    BY DEF CommandsAccounted, AccountedAt, OwnCommands
  <2>1. AccountedAt(c)
    BY Tables DEF PlannerInv
  <2> QED
    BY <1>2, <2>1 DEF AccountedAt
<1>7. AnnouncedIsPlanned'
  BY TokenSets DEF PlannerInv, AnnouncedIsPlanned, planTokenVars
<1> QED
  BY <1>1, <1>3, <1>4, <1>5, <1>6, <1>7 DEF PlannerInv

LEMMA NewStateKeeps ==
  ASSUME PlannerInv, NEW N \in SUBSET {c \in FactCommands : state[c] = "none"}, NewState(N),
         UNCHANGED <<tick, past, tables, out, over, planTokenVars>>,
         decided' \subseteq decided, stepped' \in BOOLEAN, completed' \in BOOLEAN,
         pc' \in {"work", "archive"}
  PROVE  PlannerInv'
<1>1. TypeOK
  BY DEF PlannerInv
<1>2. /\ state' = [t \in Tokens |-> IF t \in N THEN "inactive" ELSE state[t]]
      /\ facts' \subseteq Nat
  BY <1>1 DEF NewState, TypeOK
<1>3. state' \in [Tokens -> {"none", "inactive", "active", "rejected"}]
  BY <1>1, <1>2 DEF TypeOK
<1>4. \A t \in Tokens : t \in N => state[t] = "none"
  OBVIOUS
<1>5. \A t \in Tokens : /\ state[t] # "none" => state'[t] # "none"
                        /\ state[t] = "active" => state'[t] = "active"
  BY <1>2, <1>4
<1>6. ASSUME NEW c \in OwnCommands PROVE c \notin N /\ c \in Tokens
  BY TokenSets DEF OwnCommands
<1>7. \A c \in OwnCommands : state'[c] # "none" /\ state[c] = "none" => state'[Master[c]] = "active"
  BY <1>2, <1>6
<1>8. requests' \subseteq Goals /\ decided' \subseteq Tokens
  BY <1>1 DEF TypeOK, tables
<1> QED
  BY <1>2, <1>3, <1>5, <1>7, <1>8, StatesKeep DEF tables

-----------------------------------------------------------------------------
(* The invariant                                                           *)

LEMMA InitInv == Init => PlannerInv
<1> SUFFICES ASSUME Init PROVE PlannerInv
  OBVIOUS
<1>1. TypeOK
  <2>1. PlanTokensTypeOK /\ planned \in [Goals -> 0 .. lastId] /\ out \in [Commands -> Nat]
    BY PlanTokensAssumption DEF Init, PlanTokensInit, PlanTokensTypeOK
  <2>2. state \in [Tokens -> {"none", "inactive", "active", "rejected"}]
    BY DEF Init
  <2>3. stepped \in BOOLEAN /\ completed \in BOOLEAN
    BY DEF Init
  <2> QED
    BY <2>1, <2>2, <2>3 DEF Init, TypeOK
<1>2. SlavesFollow /\ CommandsAccounted
  BY TokenSets DEF Init, SlavesFollow, CommandsAccounted, OwnCommands
<1>3. Posted /\ DecidedInPlan /\ Unique /\ AnnouncedIsPlanned
  BY DEF Init, Posted, DecidedInPlan, Unique, AnnouncedIsPlanned
<1> QED
  BY <1>1, <1>2, <1>3 DEF PlannerInv

LEMMA RequestKeeps ==
  ASSUME PlannerInv, NEW g \in Goals, HandleRequest(g) \/ StepReject(g)
  PROVE  PlannerInv'
<1>1. TypeOK /\ g \in Tokens /\ \A c \in OwnCommands : c # g
  BY TokenSets DEF PlannerInv
<1>2. PICK s \in {"inactive", "rejected"} : state' = [state EXCEPT ![g] = s]
  BY DEF HandleRequest, StepReject
<1>3. state[g] # "active" /\ \A t \in Tokens : state'[t] = IF t = g THEN s ELSE state[t]
  BY <1>1, <1>2 DEF HandleRequest, StepReject, TypeOK
<1>4. /\ state' \in [Tokens -> {"none", "inactive", "active", "rejected"}]
      /\ requests' \subseteq Goals /\ decided' \subseteq Tokens /\ facts' \subseteq Nat
      /\ \A t \in decided' : t \in decided \/ state'[t] # "none"
      /\ pc' \in {"work", "archive"}
  BY <1>1, <1>2, <1>3 DEF HandleRequest, StepReject, TypeOK, tables
<1>5. stepped' \in BOOLEAN /\ completed' \in BOOLEAN
  BY <1>1 DEF HandleRequest, StepReject, TypeOK
<1>6. \A t \in Tokens : /\ state[t] # "none" => state'[t] # "none"
                        /\ state[t] = "active" => state'[t] = "active"
  BY <1>3
<1>7. \A c \in OwnCommands : state'[c] # "none" /\ state[c] = "none" => state'[Master[c]] = "active"
  BY <1>1, <1>3, TokenSets
<1>8. UNCHANGED <<tick, past, dispatched, planned, out, over, planTokenVars>>
  BY DEF HandleRequest, StepReject, tables
<1> QED
  BY <1>4, <1>5, <1>6, <1>7, <1>8, StatesKeep

LEMMA RecallKeeps ==
  ASSUME PlannerInv, NEW g \in Goals, HandleRecall(g)
  PROVE  PlannerInv'
<1> DEFINE undone == IF ~completed /\ stepped THEN decided ELSE {}
<1>1. TypeOK /\ DecidedInPlan
  BY DEF PlannerInv
<1>2. /\ Remove(undone, {g}) /\ dispatched' = DispatchedAfter(undone, {g})
      /\ tick' = tick /\ over' = over /\ facts' = facts /\ pc' = "work"
  BY DEF HandleRecall
<1>3. stepped' \in BOOLEAN /\ completed' \in BOOLEAN
  BY DEF HandleRecall
<1>4. facts' \subseteq Nat
  BY <1>1, <1>2 DEF TypeOK
<1>5. undone \in SUBSET Tokens /\ {g} \in SUBSET Tokens
  BY <1>1, TokenSets DEF TypeOK
<1>6. \A t \in undone : state[t] # "none"
  BY <1>1 DEF DecidedInPlan
<1> HIDE DEF undone
<1> QED
  BY <1>2, <1>3, <1>4, <1>5, <1>6, RemoveKeeps

(* The slaves of the token come with it, and were not dispatched before.   *)
LEMMA ActivateKeeps ==
  ASSUME PlannerInv, NEW t \in Tokens, StepActivate(t)
  PROVE  PlannerInv'
<1>1. /\ TypeOK /\ state[t] = "inactive" /\ pc' = "work"
      /\ UNCHANGED <<tick, past, facts, tables, completed, out, over, planTokenVars>>
      /\ decided' = decided \cup {t} /\ stepped' = TRUE
  BY DEF PlannerInv, StepActivate
<1>2. \A u \in Tokens : state'[u] = IF u = t THEN "active"
                                    ELSE IF u \in Slaves({t}) THEN "inactive" ELSE state[u]
  BY DEF StepActivate
<1>3. state' \in [Tokens -> {"none", "inactive", "active", "rejected"}]
  BY <1>1 DEF StepActivate, TypeOK
<1>4. \A c \in OwnCommands : /\ c \in Tokens /\ c \in Commands /\ Master[c] \in Goals
                             /\ Master[c] \in Tokens
                             /\ Master[c] \notin Slaves({t}) /\ (c \in Slaves({t}) <=> Master[c] = t)
  BY TokenSets DEF Slaves
<1>5. TypeOK'
  BY <1>1, <1>3 DEF TypeOK, PlanTokensTypeOK, tables, planTokenVars
<1>6. SlavesFollow'
  <2> SUFFICES ASSUME NEW c \in OwnCommands, state'[c] # "none" PROVE state'[Master[c]] = "active"
    BY DEF SlavesFollow
  <2>1. CASE Master[c] = t
    BY <1>2, <1>4, <2>1
  <2>2. CASE Master[c] # t
    <3>1. state[c] # "none"
      BY <1>1, <1>2, <1>4, <2>2
    <3> QED
      BY <1>2, <1>4, <2>2, <3>1 DEF PlannerInv, SlavesFollow
  <2> QED
    BY <2>1, <2>2
<1>7. Posted' /\ Unique'
  BY <1>1 DEF PlannerInv, Posted, Unique, tables
<1>8. DecidedInPlan'
  <2> SUFFICES ASSUME NEW u \in decided' PROVE state'[u] # "none"
    BY DEF DecidedInPlan
  <2>1. u \in Tokens /\ (u = t \/ state[u] # "none")
    BY <1>1 DEF PlannerInv, DecidedInPlan, TypeOK
  <2> QED
    BY <1>2, <2>1
<1>9. CommandsAccounted'
  <2> SUFFICES ASSUME NEW c \in OwnCommands PROVE AccountedAt(c)'
    BY DEF CommandsAccounted, AccountedAt, OwnCommands
  <2>1. AccountedAt(c)
    BY Tables DEF PlannerInv
  <2>2. dispatched' = dispatched /\ past' = past /\ out' = out
    BY <1>1 DEF tables
  <2>3. c \in dispatched => state'[c] = "active" /\ state'[Master[c]] = "active"
    BY <1>1, <1>2, <1>4, <2>1 DEF AccountedAt
  <2> QED
    BY <2>1, <2>2, <2>3 DEF AccountedAt
<1>10. AnnouncedIsPlanned'
  <2> SUFFICES ASSUME NEW h \in Goals PROVE AnnouncedAt(h)'
    BY DEF AnnouncedIsPlanned, AnnouncedAt
  <2>1. AnnouncedAt(h) /\ h \in Tokens /\ h \notin Slaves({t})
    BY Tables, TokenSets DEF PlannerInv, Slaves
  <2> QED
    BY <1>1, <1>2, <2>1 DEF AnnouncedAt, tables, planTokenVars
<1> QED
  BY <1>5, <1>6, <1>7, <1>8, <1>9, <1>10 DEF PlannerInv

LEMMA BacktrackKeeps ==
  ASSUME PlannerInv, NEW t \in Tokens, StepBacktrack(t)
  PROVE  PlannerInv'
<1>1. TypeOK /\ DecidedInPlan
  BY DEF PlannerInv
<1>2. /\ Remove({t}, {}) /\ dispatched' = DispatchedAfter({t}, {})
      /\ tick' = tick /\ over' = over /\ facts' = facts /\ pc' = "work"
      /\ stepped' = TRUE /\ completed' = completed
  BY DEF StepBacktrack
<1>3. facts' \subseteq Nat /\ stepped' \in BOOLEAN /\ completed' \in BOOLEAN
  BY <1>1, <1>2 DEF TypeOK
<1>4. {t} \in SUBSET Tokens /\ {} \in SUBSET Tokens /\ \A u \in {t} : state[u] # "none"
  BY <1>1 DEF StepBacktrack, DecidedInPlan
<1> QED
  BY <1>2, <1>3, <1>4, RemoveKeeps

(* A new goal_id is in no table and in no cancel.                          *)
LEMMA AnnounceKeeps ==
  ASSUME PlannerInv, NEW g \in Goals, Announce(g)
  PROVE  PlannerInv'
<1>1. /\ TypeOK /\ pc' = pc /\ state[g] = "active"
      /\ UNCHANGED <<tick, state, past, facts, requests, dispatched, solver, out, over>>
      /\ planned' = [planned EXCEPT ![g] = lastId + 1]
      /\ lastId < MaxId /\ lastId' = lastId + 1 /\ toks' = toks \cup {lastId + 1}
      /\ cancels' = cancels /\ known' = known
  BY DEF PlannerInv, Announce, PostPlanToken, Active
<1>2. /\ planned \in [Goals -> 0 .. lastId] /\ lastId \in Nat /\ lastId \in 0 .. MaxId /\ MaxId \in Nat
      /\ toks \subseteq 1 .. lastId /\ cancels \subseteq 1 .. lastId /\ known \subseteq 1 .. lastId
      /\ over \subseteq 1 .. lastId
  BY <1>1, PlanTokensAssumption DEF TypeOK, PlanTokensTypeOK
<1>3. PlanTokensTypeOK' /\ planned' \in [Goals -> 0 .. lastId'] /\ over' \subseteq 1 .. lastId'
  BY <1>1, <1>2 DEF PlanTokensTypeOK
<1>4. TypeOK'
  BY <1>1, <1>3 DEF TypeOK, solver
<1>5. SlavesFollow' /\ Posted' /\ DecidedInPlan' /\ CommandsAccounted'
  BY <1>1 DEF PlannerInv, SlavesFollow, Posted, DecidedInPlan, CommandsAccounted, solver
<1>6. Unique'
  BY <1>1, <1>2 DEF PlannerInv, Unique
<1>7. AnnouncedIsPlanned'
  <2> SUFFICES ASSUME NEW h \in Goals PROVE AnnouncedAt(h)'
    BY DEF AnnouncedIsPlanned, AnnouncedAt
  <2>1. AnnouncedAt(h)
    BY Tables DEF PlannerInv
  <2> QED
    BY <1>1, <1>2, <2>1 DEF AnnouncedAt
<1> QED
  BY <1>4, <1>5, <1>6, <1>7 DEF PlannerInv

LEMMA DispatchKeeps ==
  ASSUME PlannerInv, NEW S \in SUBSET Commands, Dispatch(S)
  PROVE  PlannerInv'
<1>1. /\ TypeOK /\ pc' = "work"
      /\ UNCHANGED <<tick, state, past, facts, requests, planned, solver, over, planTokenVars>>
      /\ dispatched' = dispatched \cup S
      /\ out' = [c \in Commands |-> IF c \in S \ dispatched THEN out[c] + 1 ELSE out[c]]
      /\ \A c \in S : state[c] = "active" /\ c \notin past
  BY DEF PlannerInv, Dispatch, Active
<1>2. out \in [Commands -> Nat] /\ dispatched \subseteq Commands
  BY <1>1 DEF TypeOK
<1>3. out' \in [Commands -> Nat] /\ dispatched' \subseteq Commands
  BY <1>1, <1>2
<1>4. TypeOK'
  BY <1>1, <1>3 DEF TypeOK, PlanTokensTypeOK, solver, planTokenVars
<1>5. SlavesFollow' /\ DecidedInPlan' /\ Unique' /\ AnnouncedIsPlanned'
  BY <1>1 DEF PlannerInv, SlavesFollow, DecidedInPlan, Unique, AnnouncedIsPlanned, solver, planTokenVars
<1>6. Posted'
  BY <1>1, <1>2 DEF PlannerInv, Posted
<1>7. CommandsAccounted'
  <2> SUFFICES ASSUME NEW c \in OwnCommands PROVE AccountedAt(c)'
    BY DEF CommandsAccounted, AccountedAt, OwnCommands
  <2>1. AccountedAt(c) /\ c \in Commands
    BY Tables, TokenSets DEF PlannerInv
  <2>2. CASE c \in S \ dispatched
    <3>1. state[Master[c]] = "active"
      BY <1>1, <2>2 DEF PlannerInv, SlavesFollow
    <3> QED
      BY <1>1, <2>1, <2>2, <3>1 DEF AccountedAt
  <2>3. CASE c \notin S \ dispatched
    BY <1>1, <2>1, <2>3 DEF AccountedAt
  <2> QED
    BY <2>2, <2>3
<1> QED
  BY <1>4, <1>5, <1>6, <1>7 DEF PlannerInv

(* Only tokens that are over are discarded, so no goal that is still       *)
(* pending is forgotten.                                                   *)
LEMMA ArchiveKeeps ==
  ASSUME PlannerInv, NEW T \in SUBSET past, NEW X \in SUBSET past, NEW K \in SUBSET facts,
         Archive(T, X, K)
  PROVE  PlannerInv'
<1> DEFINE gone == X \cup Slaves(X)
           done == T \cup gone
<1>1. /\ TypeOK /\ X \subseteq T /\ Slaves(X) \subseteq past /\ pc' \in {"dispatch", "work"}
      /\ UNCHANGED <<tick, stepped, completed, out, over, planTokenVars>>
      /\ state' = [t \in Tokens |-> IF t \in gone THEN "none" ELSE state[t]]
      /\ past' = past \ gone /\ requests' = requests \ done
      /\ dispatched' = dispatched \ done /\ decided' = decided \ gone
      /\ planned' = [g \in Goals |-> IF g \in done THEN 0 ELSE planned[g]]
      /\ facts' = K
  BY DEF PlannerInv, Archive
<1>2. gone \subseteq done /\ done \subseteq past
  BY <1>1
<1>3. /\ \A c \in Commands : Master[c] \in X => c \in gone
      /\ \A g \in Goals : g \in gone => g \in X
  BY TokenSets DEF Slaves
<1> HIDE DEF gone, done
<1>4. planned' \in [Goals -> 0 .. lastId'] /\ lastId' = lastId
  BY <1>1 DEF TypeOK, PlanTokensTypeOK, planTokenVars
<1>5. state' \in [Tokens -> {"none", "inactive", "active", "rejected"}]
  BY <1>1 DEF TypeOK
<1>6. TypeOK'
  BY <1>1, <1>4, <1>5 DEF TypeOK, PlanTokensTypeOK, planTokenVars
<1>7. ASSUME NEW c \in OwnCommands, c \notin gone, state[Master[c]] = "active"
      PROVE  state'[Master[c]] = "active"
  BY <1>1, <1>3, <1>7, TokenSets
<1>8. SlavesFollow'
  <2> SUFFICES ASSUME NEW c \in OwnCommands, state'[c] # "none" PROVE state'[Master[c]] = "active"
    BY DEF SlavesFollow
  <2>1. c \notin gone /\ state[c] # "none"
    BY <1>1, TokenSets
  <2> QED
    BY <1>7, <2>1 DEF PlannerInv, SlavesFollow
<1>9. Posted' /\ Unique'
  BY <1>1, <1>2 DEF PlannerInv, Posted, Unique
<1>10. DecidedInPlan'
  BY <1>1 DEF PlannerInv, DecidedInPlan, TypeOK
<1>11. CommandsAccounted'
  <2> SUFFICES ASSUME NEW c \in OwnCommands PROVE AccountedAt(c)'
    BY DEF CommandsAccounted, AccountedAt, OwnCommands
  <2>1. AccountedAt(c) /\ c \in Tokens
    BY Tables, TokenSets DEF PlannerInv
  <2>2. c \in dispatched' \ past' <=> c \in dispatched \ past
    BY <1>1, <1>2
  <2>3. c \in dispatched' => state'[c] = "active" /\ state'[Master[c]] = "active"
    BY <1>1, <1>2, <1>7, <2>1 DEF AccountedAt
  <2> QED
    BY <1>1, <2>1, <2>2, <2>3 DEF AccountedAt
<1>12. AnnouncedIsPlanned'
  <2> SUFFICES ASSUME NEW h \in Goals PROVE AnnouncedAt(h)'
    BY DEF AnnouncedIsPlanned, AnnouncedAt
  <2>1. AnnouncedAt(h) /\ h \in Tokens
    BY Tables, TokenSets DEF PlannerInv
  <2> QED
    BY <1>1, <1>2, <2>1 DEF AnnouncedAt, planTokenVars
<1> QED
  BY <1>6, <1>8, <1>9, <1>10, <1>11, <1>12 DEF PlannerInv

(* A command that is over needs no goal any more.                          *)
LEMMA TickKeeps ==
  ASSUME PlannerInv, NEW P \in SUBSET {t \in Tokens : state[t] # "none"}, TickStart(P)
  PROVE  PlannerInv'
<1>1. /\ TypeOK /\ tick' = tick + 1 /\ past' = past \cup P /\ over' = over \cup PlanIds(P)
      /\ out' = [c \in Commands |-> IF c \in P THEN 0 ELSE out[c]] /\ pc' = "synch"
      /\ UNCHANGED <<state, facts, tables, solver, planTokenVars>>
  BY DEF PlannerInv, TickStart
<1>2. PlanIds(P) \subseteq 1 .. lastId
  <2>1. planned \in [Goals -> 0 .. lastId] /\ lastId \in Nat
    BY <1>1, PlanTokensAssumption DEF TypeOK, PlanTokensTypeOK
  <2> QED
    BY <2>1 DEF PlanIds
<1>3. tick' \in Nat /\ past' \subseteq Tokens /\ out' \in [Commands -> Nat] /\ over' \subseteq 1 .. lastId
  <2>1. tick \in Nat /\ past \subseteq Tokens /\ over \subseteq 1 .. lastId
    BY <1>1 DEF TypeOK
  <2>2. out \in [Commands -> Nat]
    BY <1>1 DEF TypeOK
  <2>3. out' \in [Commands -> Nat]
    BY <1>1, <2>2
  <2>4. tick' \in Nat
    BY <1>1, <2>1
  <2>5. past' \subseteq Tokens
    BY <1>1, <2>1
  <2>6. over' \subseteq 1 .. lastId
    BY <1>1, <1>2, <2>1
  <2> QED
    BY <2>3, <2>4, <2>5, <2>6
<1>4. TypeOK'
  BY <1>1, <1>3 DEF TypeOK, PlanTokensTypeOK, tables, solver, planTokenVars
<1>5. SlavesFollow' /\ DecidedInPlan' /\ Unique' /\ AnnouncedIsPlanned'
  BY <1>1 DEF PlannerInv, SlavesFollow, DecidedInPlan, Unique, AnnouncedIsPlanned, tables, solver, planTokenVars
<1>6. Posted'
  BY <1>1 DEF PlannerInv, TypeOK, Posted, tables
<1>7. CommandsAccounted'
  <2> SUFFICES ASSUME NEW c \in OwnCommands PROVE AccountedAt(c)'
    BY DEF CommandsAccounted, AccountedAt, OwnCommands
  <2>1. AccountedAt(c) /\ c \in Commands
    BY Tables, TokenSets DEF PlannerInv
  <2> QED
    BY <1>1, <2>1 DEF AccountedAt, tables
<1> QED
  BY <1>4, <1>5, <1>6, <1>7 DEF PlannerInv

LEMMA ListenerKeeps ==
  ASSUME PlannerInv, ListenerWorks
  PROVE  PlannerInv'
<1>1. /\ TypeOK /\ UNCHANGED <<tick, pc, state, past, facts, tables, solver, out, over>>
      /\ known' = known \cup toks /\ toks' = {} /\ cancels' = {} /\ lastId' = lastId
  BY DEF PlannerInv, ListenerWorks, Listen
<1>2. TypeOK'
  BY <1>1 DEF TypeOK, PlanTokensTypeOK, tables, solver
<1>3. SlavesFollow' /\ Posted' /\ DecidedInPlan' /\ Unique' /\ CommandsAccounted'
  BY <1>1 DEF PlannerInv, SlavesFollow, Posted, DecidedInPlan, Unique, CommandsAccounted, tables, solver
<1>4. AnnouncedIsPlanned'
  BY <1>1 DEF PlannerInv, AnnouncedIsPlanned, tables
<1> QED
  BY <1>2, <1>3, <1>4 DEF PlannerInv

LEMMA NextInv == PlannerInv /\ [Next]_plannerVars => PlannerInv'
<1> SUFFICES ASSUME PlannerInv, [Next]_plannerVars PROVE PlannerInv'
  OBVIOUS
<1> USE DEF PlannerInv
<1>1. ASSUME NEW g \in Goals, HandleRequest(g) \/ StepReject(g) PROVE PlannerInv'
  BY <1>1, RequestKeeps
<1>2. ASSUME NEW g \in Goals, HandleRecall(g) PROVE PlannerInv'
  BY <1>2, RecallKeeps
<1>3. ASSUME NEW g \in Goals, Announce(g) PROVE PlannerInv'
  BY <1>3, AnnounceKeeps
<1>4. ASSUME NEW t \in Tokens, StepActivate(t) PROVE PlannerInv'
  BY <1>4, ActivateKeeps
<1>5. ASSUME NEW t \in Tokens, StepBacktrack(t) PROVE PlannerInv'
  BY <1>5, BacktrackKeeps
<1>6. CASE StepFails \/ EndOfPlan \/ SynchAgainFails
  <2>1. stepped' \in BOOLEAN /\ completed' \in BOOLEAN
    BY <1>6 DEF TypeOK, StepFails, EndOfPlan, SynchAgainFails, solver
  <2> QED
    BY <1>6, <2>1, ProgressKeeps DEF StepFails, EndOfPlan, SynchAgainFails, solver
<1>7. CASE Complete \/ SynchFails
  <2>1. stepped' \in BOOLEAN /\ completed' \in BOOLEAN
    BY <1>7 DEF TypeOK, Complete, SynchFails
  <2> QED
    BY <1>7, <2>1, ProgressKeeps DEF Complete, SynchFails
<1>8. ASSUME NEW T \in SUBSET past, NEW X \in SUBSET past, NEW K \in SUBSET facts, Archive(T, X, K)
      PROVE  PlannerInv'
  BY <1>8, ArchiveKeeps
<1>9. ASSUME NEW S \in SUBSET Commands, Dispatch(S) PROVE PlannerInv'
  BY <1>9, DispatchKeeps
<1>10. ASSUME NEW ok \in BOOLEAN, Recover(ok) \/ ForgetPast(ok) \/ SynchRelax(ok) \/ SynchForget(ok)
       PROVE  PlannerInv'
  BY <1>10, RelaxKeeps DEF Recover, ForgetPast, SynchRelax, SynchForget
<1>11. ASSUME NEW P \in SUBSET {t \in Tokens : state[t] # "none"}, TickStart(P) PROVE PlannerInv'
  BY <1>11, TickKeeps
<1>12. ASSUME NEW N \in SUBSET {c \in FactCommands : state[c] = "none"}, SynchOk(N)
       PROVE  PlannerInv'
  <2>1. /\ NewState(N) /\ UNCHANGED <<tick, past, tables, out, over, planTokenVars>>
        /\ decided' \subseteq decided /\ pc' \in {"work", "archive"}
    BY <1>12 DEF SynchOk
  <2>2. stepped' \in BOOLEAN /\ completed' \in BOOLEAN
    BY <1>12 DEF SynchOk
  <2> QED
    BY <2>1, <2>2, NewStateKeeps
<1>13. ASSUME NEW N \in SUBSET {c \in FactCommands : state[c] = "none"}, SynchAgain(N)
       PROVE  PlannerInv'
  <2>1. /\ NewState(N) /\ UNCHANGED <<tick, past, tables, out, over, planTokenVars>>
        /\ decided' \subseteq decided /\ pc' \in {"work", "archive"}
    BY <1>13 DEF SynchAgain, solver
  <2>2. stepped' \in BOOLEAN /\ completed' \in BOOLEAN
    BY <1>13 DEF SynchAgain, solver, TypeOK
  <2> QED
    BY <2>1, <2>2, NewStateKeeps
<1>14. CASE ListenerWorks
  BY <1>14, ListenerKeeps
<1>15. CASE UNCHANGED plannerVars
  <2>1. stepped' \in BOOLEAN /\ completed' \in BOOLEAN
    BY <1>15 DEF TypeOK, plannerVars, solver
  <2>2. /\ UNCHANGED <<tick, state, past, facts, tables, decided, out, over, planTokenVars>>
        /\ pc' = pc
    BY <1>15 DEF plannerVars, solver
  <2> QED
    BY <2>1, <2>2, ProgressKeeps DEF TypeOK
<1> QED
  BY <1>1, <1>2, <1>3, <1>4, <1>5, <1>6, <1>7, <1>8, <1>9, <1>10, <1>11, <1>12, <1>13, <1>14, <1>15
     DEF Next

LEMMA AlwaysInv == Spec => []PlannerInv
  BY InitInv, NextInv, PTL DEF Spec

(* The tables of the reactor hold the keys of tokens and goals of their    *)
(* kind, and a goal_id that was created.                                   *)
THEOREM TypeCorrect == Spec => []TypeOK
<1>1. PlannerInv => TypeOK
  BY DEF PlannerInv
<1> QED
  BY <1>1, AlwaysInv, PTL

(* Whatever is recalled, undone, archived, relaxed and planned again, the  *)
(* owner of a timeline has exactly one goal for a command that is in the   *)
(* plan, dispatched and not over, and none for any other (notifyActivated, *)
(* cancel, discard and the clearing of m_dispatched in do_relax).          *)
THEOREM CommandsStayAccounted == Spec => []CommandsAccounted
<1>1. PlannerInv => CommandsAccounted
  BY DEF PlannerInv
<1> QED
  BY <1>1, AlwaysInv, PTL

(* A token that the table of announced tokens names is active in the plan, *)
(* and its listener was told of it and of no cancel (plan_dispatch,        *)
(* EuropaReactor::cancel).                                                 *)
THEOREM AnnouncedStaysPlanned == Spec => []AnnouncedIsPlanned
<1>1. PlannerInv => AnnouncedIsPlanned
  BY DEF PlannerInv
<1> QED
  BY <1>1, AlwaysInv, PTL

-----------------------------------------------------------------------------
(* Tokens that leave the plan, seen by their listeners                     *)

(* An announced token whose end is past is over, for its listeners too.    *)
PastIsOver == \A g \in Goals \cap past : planned[g] # 0 => planned[g] \in over

(* What a step may make of the goal_id g is announced under: keep it,      *)
(* withdraw one that is over or cancelled, or take a new one.              *)
FollowedAt(g) ==
  \/ planned'[g] = planned[g]
  \/ planned'[g] = 0 /\ planned[g] \in cancels' \cup over'
  \/ planned[g] = 0 /\ planned'[g] = lastId + 1 /\ planned'[g] \in toks'

Followed == \A g \in Goals : FollowedAt(g)

(* Whatever is removed from the plan, the active tokens are cancelled, and *)
(* what is announced is active.                                            *)
LEMMA RemoveFollowed ==
  ASSUME PlannerInv, PastIsOver, NEW D, NEW X, Remove(D, X), over' = over
  PROVE  PastIsOver' /\ Followed
<1>1. /\ past' \subseteq past
      /\ planned' = [g \in Goals |-> IF g \in Withdrawn(D, X) \cup Gone(D, X) THEN 0 ELSE planned[g]]
      /\ cancels' = cancels \cup PlanIds(Withdrawn(D, X))
  BY DEF Remove, CancelPlanTokens
<1>2. ASSUME NEW g \in Goals PROVE FollowedAt(g)
  <2>1. CASE g \notin Withdrawn(D, X) \cup Gone(D, X) \/ planned[g] = 0
    BY <1>1, <2>1 DEF FollowedAt
  <2>2. CASE g \in Withdrawn(D, X) \cup Gone(D, X) /\ planned[g] # 0
    <3>1. state[g] = "active"
      BY <2>2 DEF PlannerInv, AnnouncedIsPlanned
    <3>2. g \in Withdrawn(D, X)
      BY <2>2, <3>1 DEF Withdrawn, Active
    <3>3. planned[g] \in PlanIds(Withdrawn(D, X))
      BY <2>2, <3>2 DEF PlanIds
    <3> QED
      BY <1>1, <2>2, <3>3 DEF FollowedAt
  <2> QED
    BY <2>1, <2>2
<1>3. PastIsOver'
  BY <1>1 DEF PastIsOver
<1> QED
  BY <1>2, <1>3 DEF Followed

LEMMA ArchiveFollowed ==
  ASSUME PlannerInv, PastIsOver, NEW T \in SUBSET past, NEW X \in SUBSET past,
         NEW K \in SUBSET facts, Archive(T, X, K)
  PROVE  PastIsOver' /\ Followed
<1> DEFINE done == T \cup X \cup Slaves(X)
<1>1. /\ done \subseteq past /\ past' \subseteq past /\ over' = over
      /\ planned' = [g \in Goals |-> IF g \in done THEN 0 ELSE planned[g]]
  BY DEF Archive
<1> HIDE DEF done
<1>2. ASSUME NEW g \in Goals PROVE FollowedAt(g)
  BY <1>1 DEF FollowedAt, PastIsOver
<1>3. PastIsOver'
  BY <1>1 DEF PastIsOver
<1> QED
  BY <1>2, <1>3 DEF Followed

LEMMA AnnounceFollowed ==
  ASSUME PlannerInv, PastIsOver, NEW g \in Goals, Announce(g)
  PROVE  PastIsOver' /\ Followed
<1>1. /\ planned \in [Goals -> 0 .. lastId] /\ planned[g] = 0 /\ g \notin past
      /\ planned' = [planned EXCEPT ![g] = lastId + 1] /\ past' = past /\ over' = over
      /\ lastId + 1 \in toks'
  BY DEF PlannerInv, TypeOK, Announce, PostPlanToken
<1>2. ASSUME NEW h \in Goals PROVE FollowedAt(h)
  BY <1>1 DEF FollowedAt
<1>3. PastIsOver'
  BY <1>1 DEF PastIsOver
<1> QED
  BY <1>2, <1>3 DEF Followed

LEMMA TickFollowed ==
  ASSUME PlannerInv, PastIsOver, NEW P \in SUBSET {t \in Tokens : state[t] # "none"}, TickStart(P)
  PROVE  PastIsOver' /\ Followed
<1>1. planned' = planned /\ past' = past \cup P /\ over' = over \cup PlanIds(P)
  BY DEF TickStart, tables
<1>2. PastIsOver'
  BY <1>1 DEF PastIsOver, PlanIds
<1> QED
  BY <1>1, <1>2 DEF Followed, FollowedAt

LEMMA RelaxFollowed ==
  ASSUME PlannerInv, PastIsOver, MildRelax \/ FullRelax, over' = over
  PROVE  PastIsOver' /\ Followed
<1>1. \E L \in SUBSET (past \cap Goals), K \in {facts, {}}, F \in SUBSET FactCommands :
         RelaxPlan(L, K, F)
  BY DEF MildRelax, FullRelax
<1>2. PICK D, X : Remove(D, X)
  BY <1>1 DEF RelaxPlan
<1> QED
  BY <1>2, RemoveFollowed

LEMMA FollowedStep ==
  ASSUME PlannerInv, PastIsOver, [Next]_plannerVars
  PROVE  PastIsOver' /\ Followed
<1>0. ASSUME UNCHANGED <<past, planned, over>> PROVE PastIsOver' /\ Followed
  BY <1>0 DEF PastIsOver, Followed, FollowedAt
<1>1. ASSUME NEW g \in Goals, HandleRequest(g) \/ StepReject(g) PROVE PastIsOver' /\ Followed
  BY <1>0, <1>1 DEF HandleRequest, StepReject, tables
<1>2. ASSUME NEW g \in Goals, HandleRecall(g) PROVE PastIsOver' /\ Followed
  <2>1. PICK D, X : Remove(D, X) /\ over' = over
    BY <1>2 DEF HandleRecall
  <2> QED
    BY <2>1, RemoveFollowed
<1>3. ASSUME NEW g \in Goals, Announce(g) PROVE PastIsOver' /\ Followed
  BY <1>3, AnnounceFollowed
<1>4. ASSUME NEW t \in Tokens, StepActivate(t) PROVE PastIsOver' /\ Followed
  BY <1>0, <1>4 DEF StepActivate, tables
<1>5. ASSUME NEW t \in Tokens, StepBacktrack(t) PROVE PastIsOver' /\ Followed
  <2>1. PICK D, X : Remove(D, X) /\ over' = over
    BY <1>5 DEF StepBacktrack
  <2> QED
    BY <2>1, RemoveFollowed
<1>6. CASE StepFails \/ EndOfPlan \/ SynchAgainFails \/ Complete \/ SynchFails \/ ListenerWorks
           \/ UNCHANGED plannerVars
  BY <1>0, <1>6 DEF StepFails, EndOfPlan, SynchAgainFails, Complete, SynchFails, ListenerWorks,
                    plannerVars, tables
<1>7. ASSUME NEW T \in SUBSET past, NEW X \in SUBSET past, NEW K \in SUBSET facts, Archive(T, X, K)
      PROVE  PastIsOver' /\ Followed
  BY <1>7, ArchiveFollowed
<1>8. ASSUME NEW S \in SUBSET Commands, Dispatch(S) PROVE PastIsOver' /\ Followed
  BY <1>0, <1>8 DEF Dispatch
<1>9. ASSUME NEW ok \in BOOLEAN, Recover(ok) \/ ForgetPast(ok) \/ SynchRelax(ok) \/ SynchForget(ok)
      PROVE  PastIsOver' /\ Followed
  BY <1>9, RelaxFollowed DEF Recover, ForgetPast, SynchRelax, SynchForget
<1>10. ASSUME NEW P \in SUBSET {t \in Tokens : state[t] # "none"}, TickStart(P)
       PROVE  PastIsOver' /\ Followed
  BY <1>10, TickFollowed
<1>11. ASSUME NEW N \in SUBSET {c \in FactCommands : state[c] = "none"}, SynchOk(N) \/ SynchAgain(N)
       PROVE  PastIsOver' /\ Followed
  BY <1>0, <1>11 DEF SynchOk, SynchAgain, tables
<1> QED
  BY <1>1, <1>2, <1>3, <1>4, <1>5, <1>6, <1>7, <1>8, <1>9, <1>10, <1>11 DEF Next

(* A token never leaves the plan silently, and never comes back: what is   *)
(* withdrawn, by a backtrack, a recall, the archive or a relaxation, is    *)
(* over or cancelled with the listeners, and what is announced is sent     *)
(* them under a goal_id never used before (EuropaReactor::cancel, discard, *)
(* plan_dispatch).  So what the run cancelled_plan finds is a fault of the *)
(* listening side alone.                                                   *)
WithdrawnAloud ==
  [][/\ \A i \in PlanIds(Goals) : i \in PlanIds(Goals)' \cup cancels' \cup over'
     /\ \A i \in PlanIds(Goals)' \ PlanIds(Goals) : i > lastId /\ i \in toks']_plannerVars

THEOREM NeverWithdrawnSilently == Spec => WithdrawnAloud
<1>1. Init => PastIsOver
  BY DEF Init, PastIsOver
<1>2. PlannerInv /\ PastIsOver /\ [Next]_plannerVars => PastIsOver'
  BY FollowedStep
<1>3. PlannerInv /\ Followed =>
        /\ \A i \in PlanIds(Goals) : i \in PlanIds(Goals)' \cup cancels' \cup over'
        /\ \A i \in PlanIds(Goals)' \ PlanIds(Goals) : i > lastId /\ i \in toks'
  <2> SUFFICES ASSUME PlannerInv, Followed
               PROVE  /\ \A i \in PlanIds(Goals) : i \in PlanIds(Goals)' \cup cancels' \cup over'
                      /\ \A i \in PlanIds(Goals)' \ PlanIds(Goals) : i > lastId /\ i \in toks'
    OBVIOUS
  <2>1. /\ PlanIds(Goals) = {planned[g] : g \in {h \in Goals : planned[h] # 0}}
        /\ PlanIds(Goals)' = {planned'[g] : g \in {h \in Goals : planned'[h] # 0}}
    BY DEF PlanIds
  <2>2. lastId \in Nat /\ \A g \in Goals : FollowedAt(g)
    BY PlanTokensAssumption DEF PlannerInv, TypeOK, PlanTokensTypeOK, Followed
  <2>3. ASSUME NEW i \in PlanIds(Goals) PROVE i \in PlanIds(Goals)' \cup cancels' \cup over'
    <3>1. PICK g \in Goals : planned[g] # 0 /\ i = planned[g]
      BY <2>1
    <3> QED
      BY <2>1, <2>2, <3>1 DEF FollowedAt
  <2>4. ASSUME NEW i \in PlanIds(Goals)' \ PlanIds(Goals) PROVE i > lastId /\ i \in toks'
    <3>1. PICK g \in Goals : planned'[g] # 0 /\ i = planned'[g]
      BY <2>1
    <3>2. planned'[g] # planned[g]
      BY <2>1, <3>1
    <3> QED
      BY <2>2, <3>1, <3>2 DEF FollowedAt
  <2> QED
    BY <2>3, <2>4
<1>4. PlannerInv /\ PastIsOver /\ [Next]_plannerVars =>
        [/\ \A i \in PlanIds(Goals) : i \in PlanIds(Goals)' \cup cancels' \cup over'
         /\ \A i \in PlanIds(Goals)' \ PlanIds(Goals) : i > lastId /\ i \in toks']_plannerVars
  BY <1>3, FollowedStep
<1> QED
  BY <1>1, <1>2, <1>4, AlwaysInv, PTL DEF Spec, WithdrawnAloud
=============================================================================
