------------------------ MODULE TimelineGraph_proofs ------------------------
(***************************************************************************)
(* Proofs about TimelineGraph, for any finite set of reactors and any sets *)
(* of timelines, values and flags.                                         *)
(*                                                                         *)
(* The inductive invariant GraphInv is the conjunction of the invariants   *)
(* the runs check and of BareWhenGone, which says that a reactor object    *)
(* that does not exist has no relation on its own side.  Each conjunct has *)
(* a lemma that shows it preserved; the lemmas about Unassign, Subscribe   *)
(* and Unsubscribe carry the work, since the actions are made of them.     *)
(***************************************************************************)
EXTENDS TimelineGraph, FiniteSetTheorems, TLAPS

(* A reactor object that is not there has neither Internals nor Externals. *)
BareWhenGone ==
  \A r \in Reactors : life[r] = "none" => internals[r] = {} /\ externals[r] = {}

-----------------------------------------------------------------------------
(* Type correctness                                                        *)

LEMMA UnassignType ==
  ASSUME TypeOK, NEW r \in Reactors, NEW S \in SUBSET Timelines, Unassign(r, S)
  PROVE  /\ owner' \in [Timelines -> Reactors \cup {NoReactor}]
         /\ rights' \in [Timelines -> Flags]
         /\ internals' \in [Reactors -> SUBSET Timelines]
         /\ nextObs' \in [Timelines -> Values \cup {NoObs}]
         /\ lastObs' \in [Timelines -> Obs]
         /\ obsDate' \in [Timelines -> Nat]
<1>1. NoFlags \in Flags
  BY DEF NoFlags, Flags
<1> QED
  BY <1>1 DEF TypeOK, Unassign, Obs

LEMMA SubscribeType ==
  ASSUME TypeOK, NEW r \in Reactors, NEW t \in Timelines, NEW f \in Flags,
         Subscribe(r, t, f)
  PROVE  /\ clients' \in [Timelines -> SUBSET Reactors]
         /\ posters' \in [Timelines -> SUBSET Reactors]
         /\ listeners' \in [Timelines -> SUBSET Reactors]
         /\ planListeners' \in [Timelines -> Int]
         /\ externals' \in [Reactors -> SUBSET Timelines]
  BY DEF TypeOK, Subscribe

LEMMA UnsubscribeType ==
  ASSUME TypeOK, NEW r \in Reactors, NEW S \in SUBSET Timelines, Unsubscribe(r, S)
  PROVE  /\ clients' \in [Timelines -> SUBSET Reactors]
         /\ posters' \in [Timelines -> SUBSET Reactors]
         /\ listeners' \in [Timelines -> SUBSET Reactors]
         /\ planListeners' \in [Timelines -> Int]
         /\ externals' \in [Reactors -> SUBSET Timelines]
  BY DEF TypeOK, Unsubscribe

LEMMA MentionType ==
  ASSUME TypeOK, NEW t \in Timelines, Mention(t)
  PROVE  /\ known' \subseteq Timelines
         /\ nextObs' \in [Timelines -> Values \cup {NoObs}]
         /\ lastObs' \in [Timelines -> Obs]
         /\ obsDate' \in [Timelines -> Nat]
  BY DEF TypeOK, Mention

LEMMA DisconnectType ==
  ASSUME TypeOK, NEW r \in Reactors, Disconnect(r),
         life' \in [Reactors -> Life], updates' \in [Reactors -> SUBSET Timelines],
         UNCHANGED <<known, now>>
  PROVE  TypeOK'
<1>1. internals[r] \in SUBSET Timelines /\ externals[r] \in SUBSET Timelines
  BY DEF TypeOK
<1>2. Unassign(r, internals[r]) /\ Unsubscribe(r, externals[r])
  BY DEF Disconnect
<1> HIDE DEF Unassign, Unsubscribe
<1> QED
  BY <1>1, <1>2, UnassignType, UnsubscribeType DEF TypeOK

(* A case of the next-state relation for each action, for every lemma      *)
(* below: the bounded quantifiers of Next are resolved once, here.         *)
LEMMA NextCases ==
  ASSUME Next,
         NEW ACTION P,
         \A r \in Reactors : Construct(r) => P,
         \A r \in Reactors : AddReactor(r) => P,
         \A r \in Reactors : Discard(r) => P,
         \A r \in Reactors, t \in Timelines : RefuseNamesake(r, t) => P,
         \A r \in Reactors, t \in Timelines, f \in Flags :
           RefuseNamesakeClient(r, t, f) => P,
         \A r \in Reactors : Isolate(r) => P,
         \A r \in Reactors : KillReactor(r) => P,
         \A r \in Reactors, t \in Timelines, f \in Flags : Provide(r, t, f) => P,
         \A r \in Reactors, t \in Timelines, f \in Flags : ProvideAgain(r, t, f) => P,
         \A r \in Reactors, t \in Timelines, f \in Flags : Use(r, t, f) => P,
         \A r \in Reactors, t \in Timelines : Unuse(r, t) => P,
         \A r \in Reactors, t \in Timelines : Unprovide(r, t) => P,
         \A r \in Reactors, t \in Timelines, v \in Values : PostObservation(r, t, v) => P,
         \A r \in Reactors : Synchronize(r) => P,
         UpdateTick => P
  PROVE  P
<1>1. OwnerFlags \subseteq Flags /\ ClientFlags \subseteq Flags
  BY GraphAssumption
<1> QED
  BY <1>1 DEF Next, Lifecycle, Declaration

LEMMA TypeStep == TypeOK /\ [Next]_graphVars => TypeOK'
<1> SUFFICES ASSUME TypeOK, [Next]_graphVars PROVE TypeOK'
  OBVIOUS
<1>1. CASE Next
  <2> DEFINE P == TypeOK'
  <2>1. \A r \in Reactors : Construct(r) => P
    BY DEF TypeOK, Construct, ownership, subscriptions, observations, Life
  <2>2. \A r \in Reactors : AddReactor(r) => P
    BY DEF TypeOK, AddReactor, ownership, subscriptions, observations, Life
  <2>3. \A r \in Reactors : Discard(r) => P
    BY DisconnectType DEF TypeOK, Discard, Life
  <2>4. \A r \in Reactors, t \in Timelines : RefuseNamesake(r, t) => P
    <3> SUFFICES ASSUME NEW r \in Reactors, NEW t \in Timelines, RefuseNamesake(r, t)
                 PROVE  TypeOK'
      OBVIOUS
    <3>1. {t} \cap externals[r] \in SUBSET Timelines
      OBVIOUS
    <3> QED
      BY <3>1, UnsubscribeType DEF TypeOK, RefuseNamesake, ownership, Obs
  <2>5. \A r \in Reactors, t \in Timelines, f \in Flags : RefuseNamesakeClient(r, t, f) => P
    BY SubscribeType DEF TypeOK, RefuseNamesakeClient, ownership, observations
  <2>6. \A r \in Reactors : Isolate(r) => P
    BY DisconnectType DEF TypeOK, Isolate, Life
  <2>7. \A r \in Reactors : KillReactor(r) => P
    BY DisconnectType DEF TypeOK, KillReactor, Life
  <2>8. \A r \in Reactors, t \in Timelines, f \in Flags : Provide(r, t, f) => P
    <3> SUFFICES ASSUME NEW r \in Reactors, NEW t \in Timelines, NEW f \in Flags,
                        Provide(r, t, f)
                 PROVE  TypeOK'
      OBVIOUS
    <3>1. {t} \cap externals[r] \in SUBSET Timelines
      OBVIOUS
    <3> QED
      BY <3>1, UnsubscribeType, MentionType DEF TypeOK, Provide
  <2>9. \A r \in Reactors, t \in Timelines, f \in Flags : ProvideAgain(r, t, f) => P
    BY DEF TypeOK, ProvideAgain, subscriptions, observations
  <2>10. \A r \in Reactors, t \in Timelines, f \in Flags : Use(r, t, f) => P
    BY SubscribeType, MentionType DEF TypeOK, Use, ownership
  <2>11. \A r \in Reactors, t \in Timelines : Unuse(r, t) => P
    BY UnsubscribeType DEF TypeOK, Unuse, ownership, observations
  <2>12. \A r \in Reactors, t \in Timelines : Unprovide(r, t) => P
    BY UnassignType DEF TypeOK, Unprovide, subscriptions
  <2>13. \A r \in Reactors, t \in Timelines, v \in Values : PostObservation(r, t, v) => P
    BY DEF TypeOK, PostObservation, ownership, subscriptions, Obs
  <2>14. \A r \in Reactors : Synchronize(r) => P
    BY DEF TypeOK, Synchronize, ownership, subscriptions, Obs
  <2>15. UpdateTick => P
    BY DEF TypeOK, UpdateTick, ownership, subscriptions, observations
  <2> HIDE DEF P
  <2>16. P
    BY <1>1, <2>1, <2>2, <2>3, <2>4, <2>5, <2>6, <2>7, <2>8, <2>9, <2>10, <2>11, <2>12,
       <2>13, <2>14, <2>15, NextCases
  <2> QED
    BY <2>16 DEF P
<1>2. CASE UNCHANGED graphVars
  BY <1>2 DEF TypeOK, graphVars, ownership, subscriptions, observations
<1> QED
  BY <1>1, <1>2

-----------------------------------------------------------------------------
(* The two records of a relation                                           *)

(* The two halves of RelationsMirrored, and of BareWhenGone: ownership is  *)
(* changed by Unassign and Provide, subscription by the other operators.   *)
OwnersMirrored == \A r \in Reactors, t \in Timelines : owner[t] = r <=> t \in internals[r]
ClientsMirrored == \A r \in Reactors, t \in Timelines : r \in clients[t] <=> t \in externals[r]
OwnsNothing(r) == internals[r] = {}
UsesNothing(r) == externals[r] = {}

LEMMA UnassignMirrors ==
  ASSUME TypeOK, OwnersMirrored, NEW r \in Reactors, NEW S \in SUBSET internals[r],
         Unassign(r, S)
  PROVE  /\ OwnersMirrored'
         /\ \A q \in Reactors : q # r => internals'[q] = internals[q]
         /\ internals'[r] = internals[r] \ S
  BY GraphAssumption DEF TypeOK, OwnersMirrored, Unassign

LEMMA SubscribeMirrors ==
  ASSUME TypeOK, ClientsMirrored, NEW r \in Reactors, NEW t \in Timelines,
         NEW f \in Flags, Subscribe(r, t, f)
  PROVE  /\ ClientsMirrored'
         /\ \A q \in Reactors : q # r => externals'[q] = externals[q]
         /\ \A u \in Timelines : clients'[u] \subseteq clients[u] \cup {r}
         /\ \A u \in Timelines : u # t => clients'[u] = clients[u]
  BY DEF TypeOK, ClientsMirrored, Subscribe

LEMMA UnsubscribeMirrors ==
  ASSUME TypeOK, ClientsMirrored, NEW r \in Reactors, NEW S \in SUBSET Timelines,
         Unsubscribe(r, S)
  PROVE  /\ ClientsMirrored'
         /\ \A q \in Reactors : q # r => externals'[q] = externals[q]
         /\ externals'[r] = externals[r] \ S
         /\ \A t \in Timelines : clients'[t] \subseteq clients[t]
         /\ \A t \in S : r \notin clients'[t]
  BY DEF TypeOK, ClientsMirrored, Unsubscribe

(* RelationsMirrored, OwnerIsNotClient and BareWhenGone together: the      *)
(* relations of the graph, without the flags and the observations.         *)
Relations == OwnersMirrored /\ ClientsMirrored /\ OwnerIsNotClient /\ BareWhenGone

LEMMA DisconnectMirrors ==
  ASSUME TypeOK, Relations, NEW r \in Reactors, Disconnect(r),
         \A q \in Reactors : q # r => life'[q] = life[q]
  PROVE  Relations'
<1>1. internals[r] \in SUBSET internals[r] /\ externals[r] \in SUBSET Timelines
  BY DEF TypeOK
<1>2. Unassign(r, internals[r]) /\ Unsubscribe(r, externals[r])
  BY DEF Disconnect
<1>3. OwnersMirrored' /\ ClientsMirrored'
  BY <1>1, <1>2, UnassignMirrors, UnsubscribeMirrors DEF Relations
<1>4. internals'[r] = {} /\ externals'[r] = {}
  BY <1>1, <1>2, UnassignMirrors, UnsubscribeMirrors DEF Relations
<1>5. \A q \in Reactors : q # r => internals'[q] = internals[q] /\ externals'[q] = externals[q]
  BY <1>1, <1>2, UnassignMirrors, UnsubscribeMirrors DEF Relations
<1>6. BareWhenGone'
  BY <1>4, <1>5 DEF Relations, BareWhenGone
<1>7. \A t \in Timelines : owner'[t] \in {owner[t], NoReactor}
  BY <1>2 DEF Unassign
<1>8. \A t \in Timelines : clients'[t] \subseteq clients[t]
  BY <1>1, <1>2, UnsubscribeMirrors DEF Relations
<1>9. OwnerIsNotClient'
  BY <1>7, <1>8, GraphAssumption DEF Relations, OwnerIsNotClient, TypeOK
<1> QED
  BY <1>3, <1>6, <1>9 DEF Relations

LEMMA RelationsStep == TypeOK /\ Relations /\ [Next]_graphVars => Relations'
<1> SUFFICES ASSUME TypeOK, Relations, [Next]_graphVars PROVE Relations'
  OBVIOUS
<1> DEFINE P == Relations'
<1> USE DEF Relations
<1>1. CASE Next
  <2>1. \A r \in Reactors : Construct(r) => P
    BY DEF TypeOK, Construct, ownership, subscriptions, OwnersMirrored, ClientsMirrored,
           OwnerIsNotClient, BareWhenGone
  <2>2. \A r \in Reactors : AddReactor(r) => P
    BY DEF TypeOK, AddReactor, ownership, subscriptions, OwnersMirrored, ClientsMirrored,
           OwnerIsNotClient, BareWhenGone
  <2>3. \A r \in Reactors : Discard(r) => P
    BY DisconnectMirrors DEF TypeOK, Discard
  <2>4. \A r \in Reactors, t \in Timelines : RefuseNamesake(r, t) => P
    <3> SUFFICES ASSUME NEW r \in Reactors, NEW t \in Timelines, RefuseNamesake(r, t)
                 PROVE  Relations'
      OBVIOUS
    <3>1. {t} \cap externals[r] \in SUBSET Timelines
      OBVIOUS
    <3>2. Unsubscribe(r, {t} \cap externals[r]) /\ UNCHANGED <<owner, internals, life>>
      BY DEF RefuseNamesake, ownership
    <3> QED
      BY <3>1, <3>2, UnsubscribeMirrors
         DEF OwnersMirrored, OwnerIsNotClient, BareWhenGone
  <2>5. \A r \in Reactors, t \in Timelines, f \in Flags : RefuseNamesakeClient(r, t, f) => P
    <3> SUFFICES ASSUME NEW r \in Reactors, NEW t \in Timelines, NEW f \in Flags,
                        RefuseNamesakeClient(r, t, f)
                 PROVE  Relations'
      OBVIOUS
    <3>1. Subscribe(r, t, f) /\ UNCHANGED <<owner, internals, life>> /\ r \in clients[t]
      BY DEF RefuseNamesakeClient, ownership, ClientsMirrored
    <3>2. OwnersMirrored' /\ ClientsMirrored' /\ BareWhenGone'
      BY <3>1, SubscribeMirrors DEF RefuseNamesakeClient, OwnersMirrored, BareWhenGone
    <3>3. owner[t] # r
      BY <3>1 DEF OwnerIsNotClient
    <3>4. OwnerIsNotClient'
      BY <3>1, <3>3, SubscribeMirrors DEF OwnerIsNotClient
    <3> QED
      BY <3>2, <3>4
  <2>6. \A r \in Reactors : Isolate(r) => P
    BY DisconnectMirrors DEF TypeOK, Isolate
  <2>7. \A r \in Reactors : KillReactor(r) => P
    BY DisconnectMirrors DEF TypeOK, KillReactor
  <2>8. \A r \in Reactors, t \in Timelines, f \in Flags : Provide(r, t, f) => P
    <3> SUFFICES ASSUME NEW r \in Reactors, NEW t \in Timelines, NEW f \in Flags,
                        Provide(r, t, f)
                 PROVE  Relations'
      OBVIOUS
    <3>1. {t} \cap externals[r] \in SUBSET Timelines
      OBVIOUS
    <3>2. Unsubscribe(r, {t} \cap externals[r])
      BY DEF Provide
    <3>3. OwnersMirrored'
      BY GraphAssumption DEF Provide, OwnersMirrored, TypeOK
    <3>4. ClientsMirrored' /\ r \notin clients'[t]
      BY <3>1, <3>2, UnsubscribeMirrors DEF ClientsMirrored
    <3>5. OwnerIsNotClient'
      BY <3>1, <3>2, <3>4, UnsubscribeMirrors DEF Provide, OwnerIsNotClient, TypeOK
    <3>6. BareWhenGone'
      BY <3>1, <3>2, UnsubscribeMirrors DEF Provide, BareWhenGone, TypeOK
    <3> QED
      BY <3>3, <3>4, <3>5, <3>6
  <2>9. \A r \in Reactors, t \in Timelines, f \in Flags : ProvideAgain(r, t, f) => P
    BY DEF ProvideAgain, subscriptions, OwnersMirrored, ClientsMirrored,
           OwnerIsNotClient, BareWhenGone
  <2>10. \A r \in Reactors, t \in Timelines, f \in Flags : Use(r, t, f) => P
    <3> SUFFICES ASSUME NEW r \in Reactors, NEW t \in Timelines, NEW f \in Flags, Use(r, t, f)
                 PROVE  Relations'
      OBVIOUS
    <3>1. Subscribe(r, t, f) /\ UNCHANGED <<owner, internals, life>>
      BY DEF Use, ownership
    <3>2. OwnersMirrored' /\ ClientsMirrored' /\ BareWhenGone'
      BY <3>1, SubscribeMirrors DEF Use, OwnersMirrored, BareWhenGone
    <3>3. OwnerIsNotClient'
      BY <3>1, SubscribeMirrors DEF Use, OwnerIsNotClient
    <3> QED
      BY <3>2, <3>3
  <2>11. \A r \in Reactors, t \in Timelines : Unuse(r, t) => P
    BY UnsubscribeMirrors DEF Unuse, ownership, OwnersMirrored, OwnerIsNotClient, BareWhenGone
  <2>12. \A r \in Reactors, t \in Timelines : Unprovide(r, t) => P
    <3> SUFFICES ASSUME NEW r \in Reactors, NEW t \in Timelines, Unprovide(r, t)
                 PROVE  Relations'
      OBVIOUS
    <3>1. Unassign(r, {t}) /\ {t} \in SUBSET internals[r]
      BY DEF Unprovide
    <3>2. OwnersMirrored' /\ BareWhenGone'
      BY <3>1, UnassignMirrors DEF Unprovide, BareWhenGone, subscriptions
    <3>3. \A u \in Timelines : owner'[u] \in {owner[u], NoReactor}
      BY <3>1 DEF Unassign
    <3> QED
      BY <3>2, <3>3, GraphAssumption
         DEF Unprovide, subscriptions, ClientsMirrored, OwnerIsNotClient, TypeOK
  <2>13. \A r \in Reactors, t \in Timelines, v \in Values : PostObservation(r, t, v) => P
    BY DEF PostObservation, ownership, subscriptions, OwnersMirrored, ClientsMirrored,
           OwnerIsNotClient, BareWhenGone
  <2>14. \A r \in Reactors : Synchronize(r) => P
    BY DEF Synchronize, ownership, subscriptions, OwnersMirrored, ClientsMirrored,
           OwnerIsNotClient, BareWhenGone
  <2>15. UpdateTick => P
    BY DEF UpdateTick, ownership, subscriptions, OwnersMirrored, ClientsMirrored,
           OwnerIsNotClient, BareWhenGone
  <2> HIDE DEF P
  <2>16. P
    BY <1>1, <2>1, <2>2, <2>3, <2>4, <2>5, <2>6, <2>7, <2>8, <2>9, <2>10, <2>11, <2>12,
       <2>13, <2>14, <2>15, NextCases
  <2> QED
    BY <2>16 DEF P
<1>2. CASE UNCHANGED graphVars
  BY <1>2 DEF graphVars, ownership, subscriptions, OwnersMirrored, ClientsMirrored,
              OwnerIsNotClient, BareWhenGone
<1> QED
  BY <1>1, <1>2

-----------------------------------------------------------------------------
(* The count of plan listeners                                             *)

LEMMA ListenersFinite ==
  ASSUME TypeOK, NEW t \in Timelines
  PROVE  IsFiniteSet(listeners[t]) /\ Cardinality(listeners[t]) \in Nat
<1>1. listeners[t] \in SUBSET Reactors
  BY DEF TypeOK
<1>2. IsFiniteSet(listeners[t])
  BY <1>1, GraphAssumption, FS_Subset
<1> QED
  BY <1>2, FS_CardinalityType

LEMMA SubscribeCounts ==
  ASSUME TypeOK, PlanListenersExact, NEW r \in Reactors, NEW t \in Timelines,
         NEW f \in Flags, Subscribe(r, t, f)
  PROVE  PlanListenersExact'
<1> SUFFICES ASSUME NEW u \in Timelines
             PROVE  /\ listeners'[u] \subseteq clients'[u]
                    /\ planListeners'[u] = Cardinality(listeners'[u])
  BY DEF PlanListenersExact
<1>1. listeners[u] \subseteq clients[u] /\ planListeners[u] = Cardinality(listeners[u])
  BY DEF PlanListenersExact
<1>2. listeners'[u] \subseteq clients'[u]
  BY <1>1 DEF Subscribe, TypeOK
<1>3. CASE u # t
  BY <1>1, <1>2, <1>3 DEF Subscribe, TypeOK
<1>4. CASE u = t /\ f.plan
  <2>1. listeners'[u] = listeners[u] \cup {r}
    BY <1>4 DEF Subscribe, TypeOK
  <2>2. planListeners'[u] = IF r \in listeners[u] THEN planListeners[u]
                                                  ELSE planListeners[u] + 1
    BY <1>4 DEF Subscribe, TypeOK
  <2>3. Cardinality(listeners[u] \cup {r}) =
          IF r \in listeners[u] THEN Cardinality(listeners[u])
                                ELSE Cardinality(listeners[u]) + 1
    BY ListenersFinite, FS_AddElement
  <2> QED
    BY <1>1, <1>2, <2>1, <2>2, <2>3
<1>5. CASE u = t /\ ~f.plan
  <2>1. listeners'[u] = listeners[u] \ {r}
    BY <1>5 DEF Subscribe, TypeOK
  <2>2. planListeners'[u] = IF r \in listeners[u] THEN planListeners[u] - 1
                                                  ELSE planListeners[u]
    BY <1>5 DEF Subscribe, TypeOK
  <2>3. Cardinality(listeners[u] \ {r}) =
          IF r \in listeners[u] THEN Cardinality(listeners[u]) - 1
                                ELSE Cardinality(listeners[u])
    BY ListenersFinite, FS_RemoveElement
  <2> QED
    BY <1>1, <1>2, <2>1, <2>2, <2>3
<1> QED
  BY <1>3, <1>4, <1>5

LEMMA UnsubscribeCounts ==
  ASSUME TypeOK, PlanListenersExact, NEW r \in Reactors, NEW S \in SUBSET Timelines,
         Unsubscribe(r, S)
  PROVE  PlanListenersExact'
<1> SUFFICES ASSUME NEW u \in Timelines
             PROVE  /\ listeners'[u] \subseteq clients'[u]
                    /\ planListeners'[u] = Cardinality(listeners'[u])
  BY DEF PlanListenersExact
<1>1. listeners[u] \subseteq clients[u] /\ planListeners[u] = Cardinality(listeners[u])
  BY DEF PlanListenersExact
<1>2. listeners'[u] \subseteq clients'[u]
  BY <1>1 DEF Unsubscribe
<1>3. CASE u \notin S
  BY <1>1, <1>2, <1>3 DEF Unsubscribe
<1>4. CASE u \in S
  <2>1. listeners'[u] = listeners[u] \ {r}
    BY <1>4 DEF Unsubscribe
  <2>2. planListeners'[u] = IF r \in listeners[u] THEN planListeners[u] - 1
                                                  ELSE planListeners[u]
    BY <1>4 DEF Unsubscribe
  <2>3. Cardinality(listeners[u] \ {r}) =
          IF r \in listeners[u] THEN Cardinality(listeners[u]) - 1
                                ELSE Cardinality(listeners[u])
    BY ListenersFinite, FS_RemoveElement
  <2> QED
    BY <1>1, <1>2, <2>1, <2>2, <2>3
<1> QED
  BY <1>3, <1>4

(* Every other step leaves the subscriptions alone.                        *)
LEMMA ListenersStep ==
  TypeOK /\ PlanListenersExact /\ [Next]_graphVars => PlanListenersExact'
<1> SUFFICES ASSUME TypeOK, PlanListenersExact, [Next]_graphVars
             PROVE  PlanListenersExact'
  OBVIOUS
<1>1. ASSUME UNCHANGED <<clients, listeners, planListeners>> PROVE PlanListenersExact'
  BY <1>1 DEF PlanListenersExact
<1>2. \A r \in Reactors : externals[r] \in SUBSET Timelines
  BY DEF TypeOK
<1>3. \A r \in Reactors, t \in Timelines : {t} \cap externals[r] \in SUBSET Timelines
  OBVIOUS
<1> DEFINE P == PlanListenersExact'
<1>4. CASE Next
  <2>1. \A r \in Reactors : Construct(r) => P
    BY <1>1 DEF Construct, subscriptions
  <2>2. \A r \in Reactors : AddReactor(r) => P
    BY <1>1 DEF AddReactor, subscriptions
  <2>3. \A r \in Reactors : Discard(r) => P
    BY <1>2, UnsubscribeCounts DEF Discard, Disconnect
  <2>4. \A r \in Reactors, t \in Timelines : RefuseNamesake(r, t) => P
    BY <1>3, UnsubscribeCounts DEF RefuseNamesake
  <2>5. \A r \in Reactors, t \in Timelines, f \in Flags : RefuseNamesakeClient(r, t, f) => P
    BY SubscribeCounts DEF RefuseNamesakeClient
  <2>6. \A r \in Reactors : Isolate(r) => P
    BY <1>2, UnsubscribeCounts DEF Isolate, Disconnect
  <2>7. \A r \in Reactors : KillReactor(r) => P
    BY <1>2, UnsubscribeCounts DEF KillReactor, Disconnect
  <2>8. \A r \in Reactors, t \in Timelines, f \in Flags : Provide(r, t, f) => P
    BY <1>3, UnsubscribeCounts DEF Provide
  <2>9. \A r \in Reactors, t \in Timelines, f \in Flags : ProvideAgain(r, t, f) => P
    BY <1>1 DEF ProvideAgain, subscriptions
  <2>10. \A r \in Reactors, t \in Timelines, f \in Flags : Use(r, t, f) => P
    BY SubscribeCounts DEF Use
  <2>11. \A r \in Reactors, t \in Timelines : Unuse(r, t) => P
    BY UnsubscribeCounts DEF Unuse
  <2>12. \A r \in Reactors, t \in Timelines : Unprovide(r, t) => P
    BY <1>1 DEF Unprovide, subscriptions
  <2>13. \A r \in Reactors, t \in Timelines, v \in Values : PostObservation(r, t, v) => P
    BY <1>1 DEF PostObservation, subscriptions
  <2>14. \A r \in Reactors : Synchronize(r) => P
    BY <1>1 DEF Synchronize, subscriptions
  <2>15. UpdateTick => P
    BY <1>1 DEF UpdateTick, subscriptions
  <2> HIDE DEF P
  <2>16. P
    BY <1>4, <2>1, <2>2, <2>3, <2>4, <2>5, <2>6, <2>7, <2>8, <2>9, <2>10, <2>11, <2>12,
       <2>13, <2>14, <2>15, NextCases
  <2> QED
    BY <2>16 DEF P
<1>5. CASE UNCHANGED graphVars
  BY <1>1, <1>5 DEF graphVars, subscriptions
<1> QED
  BY <1>4, <1>5

-----------------------------------------------------------------------------
(* What the timelines show                                                 *)

Contents == OrphanIsFailed /\ PostedIsScheduled

LEMMA DisconnectContents ==
  ASSUME TypeOK, Relations, Contents, NEW r \in Reactors, Disconnect(r),
         \A q \in Reactors : q # r => updates'[q] = updates[q]
  PROVE  Contents'
<1>1. Unassign(r, internals[r])
  BY DEF Disconnect
<1>2. OrphanIsFailed'
  BY <1>1, GraphAssumption DEF Unassign, Contents, OrphanIsFailed, TypeOK
<1>3. \A t \in Timelines : t \notin internals[r] =>
        owner[t] # r /\ owner'[t] = owner[t] /\ nextObs'[t] = nextObs[t]
  BY <1>1 DEF Unassign, Relations, OwnersMirrored
<1>4. \A t \in internals[r] : t \in Timelines => nextObs'[t] = NoObs
  BY <1>1 DEF Unassign
<1>5. PostedIsScheduled'
  BY <1>3, <1>4 DEF Contents, PostedIsScheduled
<1> QED
  BY <1>2, <1>5 DEF Contents

LEMMA ContentsStep == TypeOK /\ Relations /\ Contents /\ [Next]_graphVars => Contents'
<1> SUFFICES ASSUME TypeOK, Relations, Contents, [Next]_graphVars PROVE Contents'
  OBVIOUS
<1>1. ASSUME UNCHANGED <<owner, rights, lastObs, nextObs, updates>> PROVE Contents'
  BY <1>1 DEF Contents, OrphanIsFailed, PostedIsScheduled
<1> DEFINE P == Contents'
<1>2. CASE Next
  <2>1. \A r \in Reactors : Construct(r) => P
    BY <1>1 DEF Construct, ownership, observations
  <2>2. \A r \in Reactors : AddReactor(r) => P
    BY <1>1 DEF AddReactor, ownership, observations
  <2>3. \A r \in Reactors : Discard(r) => P
    BY DisconnectContents DEF Discard, TypeOK
  <2>4. \A r \in Reactors, t \in Timelines : RefuseNamesake(r, t) => P
    BY GraphAssumption
       DEF RefuseNamesake, ownership, Contents, OrphanIsFailed, PostedIsScheduled, TypeOK
  <2>5. \A r \in Reactors, t \in Timelines, f \in Flags : RefuseNamesakeClient(r, t, f) => P
    BY <1>1 DEF RefuseNamesakeClient, ownership, observations
  <2>6. \A r \in Reactors : Isolate(r) => P
    BY DisconnectContents DEF Isolate
  <2>7. \A r \in Reactors : KillReactor(r) => P
    BY DisconnectContents DEF KillReactor, TypeOK
  <2>8. \A r \in Reactors, t \in Timelines, f \in Flags : Provide(r, t, f) => P
    BY GraphAssumption
       DEF Provide, Mention, Contents, OrphanIsFailed, PostedIsScheduled, TypeOK
  <2>9. \A r \in Reactors, t \in Timelines, f \in Flags : ProvideAgain(r, t, f) => P
    BY GraphAssumption
       DEF ProvideAgain, observations, Contents, OrphanIsFailed, PostedIsScheduled, TypeOK
  <2>10. \A r \in Reactors, t \in Timelines, f \in Flags : Use(r, t, f) => P
    BY <1>1 DEF Use, Mention, ownership
  <2>11. \A r \in Reactors, t \in Timelines : Unuse(r, t) => P
    BY <1>1 DEF Unuse, ownership, observations
  <2>12. \A r \in Reactors, t \in Timelines : Unprovide(r, t) => P
    <3> SUFFICES ASSUME NEW r \in Reactors, NEW t \in Timelines, Unprovide(r, t)
                 PROVE  Contents'
      OBVIOUS
    <3>1. Unassign(r, {t}) /\ updates' = updates
      BY DEF Unprovide
    <3>2. OrphanIsFailed'
      BY <3>1, GraphAssumption DEF Unassign, Contents, OrphanIsFailed
    <3>3. PostedIsScheduled'
      BY <3>1 DEF Unassign, Contents, PostedIsScheduled
    <3> QED
      BY <3>2, <3>3 DEF Contents
  <2>13. \A r \in Reactors, t \in Timelines, v \in Values : PostObservation(r, t, v) => P
    <3> SUFFICES ASSUME NEW r \in Reactors, NEW t \in Timelines, NEW v \in Values,
                        PostObservation(r, t, v)
                 PROVE  Contents'
      OBVIOUS
    <3>1. owner[t] = r
      BY DEF PostObservation, Relations, OwnersMirrored
    <3>2. OrphanIsFailed'
      BY <3>1, GraphAssumption
         DEF PostObservation, ownership, Contents, OrphanIsFailed, TypeOK
    <3>3. PostedIsScheduled'
      BY <3>1 DEF PostObservation, ownership, Contents, PostedIsScheduled, TypeOK
    <3> QED
      BY <3>2, <3>3 DEF Contents
  <2>14. \A r \in Reactors : Synchronize(r) => P
    <3> SUFFICES ASSUME NEW r \in Reactors, Synchronize(r)
                 PROVE  Contents'
      OBVIOUS
    <3>1. OrphanIsFailed'
      BY DEF Synchronize, ownership, Contents, OrphanIsFailed, TypeOK
    <3>2. ASSUME NEW t \in Timelines, nextObs'[t] # NoObs
          PROVE  \E q \in Reactors : owner'[t] = q /\ t \in updates'[q]
      <4>1. nextObs[t] # NoObs /\ t \notin updates[r] /\ owner'[t] = owner[t]
        BY <3>2 DEF Synchronize, ownership
      <4>2. PICK q \in Reactors : owner[t] = q /\ t \in updates[q]
        BY <4>1 DEF Contents, PostedIsScheduled
      <4>3. updates'[q] = updates[q]
        BY <4>1, <4>2 DEF Synchronize, TypeOK
      <4> QED
        BY <4>1, <4>2, <4>3
    <3> QED
      BY <3>1, <3>2 DEF Contents, PostedIsScheduled
  <2>15. UpdateTick => P
    BY <1>1 DEF UpdateTick, ownership, observations
  <2> HIDE DEF P
  <2>16. P
    BY <1>2, <2>1, <2>2, <2>3, <2>4, <2>5, <2>6, <2>7, <2>8, <2>9, <2>10, <2>11, <2>12,
       <2>13, <2>14, <2>15, NextCases
  <2> QED
    BY <2>16 DEF P
<1>3. CASE UNCHANGED graphVars
  BY <1>1, <1>3 DEF graphVars, ownership, observations
<1> QED
  BY <1>2, <1>3

-----------------------------------------------------------------------------
(* Invariance                                                              *)

(* The inductive invariant: Relations holds RelationsMirrored in halves,   *)
(* OwnerIsNotClient and BareWhenGone; Contents the rest.                   *)
GraphInv == TypeOK /\ Relations /\ PlanListenersExact /\ Contents

LEMMA GraphInvInit == Init => GraphInv
<1> SUFFICES ASSUME Init PROVE GraphInv
  OBVIOUS
<1>1. TypeOK
  BY DEF Init, TypeOK, NoFlags, Flags, Life, Obs
<1>2. Relations
  BY GraphAssumption
     DEF Init, Relations, OwnersMirrored, ClientsMirrored, OwnerIsNotClient, BareWhenGone
<1>3. PlanListenersExact
  BY FS_EmptySet DEF Init, PlanListenersExact
<1>4. Contents
  BY DEF Init, Contents, OrphanIsFailed, PostedIsScheduled
<1> QED
  BY <1>1, <1>2, <1>3, <1>4 DEF GraphInv

LEMMA GraphInvStep == GraphInv /\ [Next]_graphVars => GraphInv'
  BY TypeStep, RelationsStep, ListenersStep, ContentsStep DEF GraphInv

LEMMA GraphInvariant == Spec => []GraphInv
<1> USE GraphInvInit, GraphInvStep
<1> QED
  BY PTL DEF Spec

(* Every reachable state is well typed, for every value of the constants.  *)
THEOREM TypeCorrect == Spec => []TypeOK
<1>1. GraphInv => TypeOK
  BY DEF GraphInv
<1> QED
  BY <1>1, GraphInvariant, PTL

(* The records kept by the timelines and by the reactors never disagree.   *)
THEOREM RelationsAlwaysMirrored == Spec => []RelationsMirrored
<1>1. GraphInv => RelationsMirrored
  BY DEF GraphInv, Relations, OwnersMirrored, ClientsMirrored, RelationsMirrored
<1> QED
  BY <1>1, GraphInvariant, PTL

(* m_plan_listeners is always the number of clients that listen.           *)
THEOREM PlanListenersAlwaysExact == Spec => []PlanListenersExact
<1>1. GraphInv => PlanListenersExact
  BY DEF GraphInv
<1> QED
  BY <1>1, GraphInvariant, PTL

(* No reactor is ever a client of a timeline it owns.                      *)
THEOREM OwnerNeverClient == Spec => []OwnerIsNotClient
<1>1. GraphInv => OwnerIsNotClient
  BY DEF GraphInv, Relations
<1> QED
  BY <1>1, GraphInvariant, PTL

(* No timeline ever refers to a reactor object that has been destroyed, as *)
(* long as no constructor of the base class is left by an exception.       *)
THEOREM NeverDangling == Spec => []NoDanglingReference
<1>1. GraphInv => NoDanglingReference
  BY DEF GraphInv, Relations, OwnersMirrored, ClientsMirrored, BareWhenGone,
         NoDanglingReference
<1> QED
  BY <1>1, GraphInvariant, PTL

(* A timeline without an owner always shows Failed and has nothing posted. *)
THEOREM OrphanAlwaysFailed == Spec => []OrphanIsFailed
<1>1. GraphInv => OrphanIsFailed
  BY DEF GraphInv, Contents
<1> QED
  BY <1>1, GraphInvariant, PTL

(* Whatever is posted stays scheduled for publication by the current owner.*)
THEOREM PostedAlwaysScheduled == Spec => []PostedIsScheduled
<1>1. GraphInv => PostedIsScheduled
  BY DEF GraphInv, Contents
<1> QED
  BY <1>1, GraphInvariant, PTL

-----------------------------------------------------------------------------
(* Steps                                                                   *)

(* A change of value carries the date of its step.                         *)
LEMMA DatedStep ==
  ASSUME GraphInv, [Next]_graphVars
  PROVE  \A t \in Timelines : lastObs'[t] # lastObs[t] => obsDate'[t] = now
<1> DEFINE P == \A t \in Timelines : lastObs'[t] # lastObs[t] => obsDate'[t] = now
<1>1. CASE UNCHANGED graphVars
  BY <1>1 DEF graphVars, observations
<1>2. CASE Next
  <2>0. TypeOK
    BY DEF GraphInv
  <2>1. \A r \in Reactors : Construct(r) => P
    BY DEF Construct, observations
  <2>2. \A r \in Reactors : AddReactor(r) => P
    BY DEF AddReactor, observations
  <2>3. \A r \in Reactors : Discard(r) => P
    BY <2>0 DEF Discard, Disconnect, Unassign
  <2>4. \A r \in Reactors, t \in Timelines : RefuseNamesake(r, t) => P
    BY <2>0 DEF RefuseNamesake, TypeOK
  <2>5. \A r \in Reactors, t \in Timelines, f \in Flags : RefuseNamesakeClient(r, t, f) => P
    BY DEF RefuseNamesakeClient, observations
  <2>6. \A r \in Reactors : Isolate(r) => P
    BY <2>0 DEF Isolate, Disconnect, Unassign
  <2>7. \A r \in Reactors : KillReactor(r) => P
    BY <2>0 DEF KillReactor, Disconnect, Unassign
  <2>8. \A r \in Reactors, t \in Timelines, f \in Flags : Provide(r, t, f) => P
    BY DEF Provide, Mention
  <2>9. \A r \in Reactors, t \in Timelines, f \in Flags : ProvideAgain(r, t, f) => P
    BY DEF ProvideAgain, observations
  <2>10. \A r \in Reactors, t \in Timelines, f \in Flags : Use(r, t, f) => P
    BY DEF Use, Mention
  <2>11. \A r \in Reactors, t \in Timelines : Unuse(r, t) => P
    BY DEF Unuse, observations
  <2>12. \A r \in Reactors, t \in Timelines : Unprovide(r, t) => P
    BY DEF Unprovide, Unassign
  <2>13. \A r \in Reactors, t \in Timelines, v \in Values : PostObservation(r, t, v) => P
    BY DEF PostObservation
  <2>14. \A r \in Reactors : Synchronize(r) => P
    BY DEF Synchronize
  <2>15. UpdateTick => P
    BY DEF UpdateTick, observations
  <2> HIDE DEF P
  <2>16. P
    BY <1>2, <2>1, <2>2, <2>3, <2>4, <2>5, <2>6, <2>7, <2>8, <2>9, <2>10, <2>11, <2>12,
       <2>13, <2>14, <2>15, NextCases
  <2> QED
    BY <2>16 DEF P
<1> QED
  BY <1>1, <1>2

(* Whatever changes the value of a timeline dates it of the current tick   *)
(* in the same step (timeline::synchronize, assign and unassign): clients  *)
(* that look for the date of the tick miss no change.                      *)
THEOREM ChangesAlwaysDated == Spec => ChangesAreDated
<1>1. GraphInv /\ [Next]_graphVars =>
        [\A t \in Timelines : lastObs'[t] # lastObs[t] => obsDate'[t] = now]_graphVars
  BY DatedStep
<1> QED
  BY <1>1, GraphInvariant, PTL DEF Spec, ChangesAreDated

-----------------------------------------------------------------------------
(* Refinement                                                              *)

(* Giving up timelines, all of them owned by r, is a Release of the board. *)
LEMMA UnassignReleases ==
  ASSUME NEW r \in Reactors, NEW S \in SUBSET Timelines,
         \A t \in S : owner[t] = r, Unassign(r, S)
  PROVE  Board!Next
<1>1. Board!Release(r, S)
  BY DEF Unassign, Board!Release
<1> QED
  BY <1>1 DEF Board!Next

LEMMA DisconnectReleases ==
  ASSUME GraphInv, NEW r \in Reactors, Disconnect(r)
  PROVE  Board!Next
<1>1. internals[r] \in SUBSET Timelines /\ \A t \in internals[r] : owner[t] = r
  BY DEF GraphInv, TypeOK, Relations, OwnersMirrored
<1> QED
  BY <1>1, UnassignReleases DEF Disconnect

(* A step of the graph is a step of the board or leaves it alone.          *)
LEMMA BoardStep ==
  ASSUME GraphInv, [Next]_graphVars
  PROVE  [Board!Next]_Board!boardVars
<1> SUFFICES Board!Next \/ UNCHANGED <<owner, lastObs>>
  BY DEF Board!boardVars
<1> DEFINE P == Board!Next \/ UNCHANGED <<owner, lastObs>>
<1>1. CASE UNCHANGED graphVars
  BY <1>1 DEF graphVars, ownership, observations
<1>2. CASE Next
  <2>1. \A r \in Reactors : Construct(r) => P
    BY DEF Construct, ownership, observations
  <2>2. \A r \in Reactors : AddReactor(r) => P
    BY DEF AddReactor, ownership, observations
  <2>3. \A r \in Reactors : Discard(r) => P
    BY DisconnectReleases DEF Discard
  <2>4. \A r \in Reactors, t \in Timelines : RefuseNamesake(r, t) => P
    BY DEF RefuseNamesake, ownership, GraphInv, Contents, OrphanIsFailed, TypeOK
  <2>5. \A r \in Reactors, t \in Timelines, f \in Flags : RefuseNamesakeClient(r, t, f) => P
    BY DEF RefuseNamesakeClient, ownership, observations
  <2>6. \A r \in Reactors : Isolate(r) => P
    BY DisconnectReleases DEF Isolate
  <2>7. \A r \in Reactors : KillReactor(r) => P
    BY DisconnectReleases DEF KillReactor
  <2>8. \A r \in Reactors, t \in Timelines, f \in Flags : Provide(r, t, f) => P
    BY DEF Provide, Mention, Board!Next, Board!Acquire
  <2>9. \A r \in Reactors, t \in Timelines, f \in Flags : ProvideAgain(r, t, f) => P
    BY DEF ProvideAgain, observations
  <2>10. \A r \in Reactors, t \in Timelines, f \in Flags : Use(r, t, f) => P
    BY DEF Use, Mention, ownership
  <2>11. \A r \in Reactors, t \in Timelines : Unuse(r, t) => P
    BY DEF Unuse, ownership, observations
  <2>12. \A r \in Reactors, t \in Timelines : Unprovide(r, t) => P
    BY UnassignReleases DEF Unprovide, GraphInv, Relations, OwnersMirrored
  <2>13. \A r \in Reactors, t \in Timelines, v \in Values : PostObservation(r, t, v) => P
    BY DEF PostObservation, ownership
  <2>14. \A r \in Reactors : Synchronize(r) => P
    <3> SUFFICES ASSUME NEW r \in Reactors, Synchronize(r) PROVE Board!Next
      OBVIOUS
    <3> DEFINE S == {t \in updates[r] : nextObs[t] # NoObs}
               val == [t \in S |-> nextObs[t]]
    <3>1. S \in SUBSET Timelines
      BY DEF GraphInv, TypeOK
    <3>2. \A t \in S : owner[t] # NoReactor
      BY <3>1 DEF GraphInv, Contents, OrphanIsFailed
    <3>3. val \in [S -> Values]
      BY <3>1 DEF GraphInv, TypeOK
    <3>4. lastObs' = [t \in Timelines |-> IF t \in S THEN val[t] ELSE lastObs[t]]
      BY DEF Synchronize
    <3>5. UNCHANGED owner
      BY DEF Synchronize, ownership
    <3>6. Board!Publish(S)
      BY <3>2, <3>3, <3>4, <3>5 DEF Board!Publish
    <3> QED
      BY <3>1, <3>6 DEF Board!Next
  <2>15. UpdateTick => P
    BY DEF UpdateTick, ownership, observations
  <2> HIDE DEF P
  <2>16. P
    BY <1>2, <2>1, <2>2, <2>3, <2>4, <2>5, <2>6, <2>7, <2>8, <2>9, <2>10, <2>11, <2>12,
       <2>13, <2>14, <2>15, NextCases
  <2> QED
    BY <2>16 DEF P
<1> QED
  BY <1>1, <1>2

(* Every step of the graph is a step of the abstract board or leaves it    *)
(* alone: provide acquires, unprovide, isolation and destruction release,  *)
(* and a synchronization publishes on timelines that have an owner.        *)
THEOREM GraphImplementsBoard == Spec => ImplementsBoard
<1>1. Init => Board!Init
  BY DEF Init, Board!Init
<1>2. GraphInv /\ [Next]_graphVars => [Board!Next]_Board!boardVars
  BY BoardStep
<1> QED
  BY <1>1, <1>2, GraphInvariant, PTL DEF Spec, ImplementsBoard, Board!Spec
=============================================================================
