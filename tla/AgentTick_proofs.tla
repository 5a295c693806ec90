-------------------------- MODULE AgentTick_proofs --------------------------
(***************************************************************************)
(* Proofs about AgentTick, for any finite set of reactors and any sets of  *)
(* timelines and values: the search sorts servers before clients whatever  *)
(* fails while it runs, stops on true cycles only, and no change of a tick *)
(* is lost for a client.                                                   *)
(*                                                                         *)
(* GraphInv, of TimelineGraph_proofs, holds here too: every action of the  *)
(* agent is one of the graph or leaves it alone, but Cleanup.  To it       *)
(* TickInv adds what the search knows (SearchInv), what holds of the       *)
(* scheduling list (QueueInv, Processed) and what each client has yet to   *)
(* collect (SeenInv, OnceInv).                                             *)
(***************************************************************************)
EXTENDS AgentTick, TimelineGraph_proofs, SequenceTheorems

Distinct(s) == \A i, j \in DOMAIN s : s[i] = s[j] => i = j

(* A reactor that is not in the graph, whether isolated or gone, has no    *)
(* relation.                                                               *)
BareUnlessMember ==
  \A r \in Reactors : life[r] # "member" => internals[r] = {} /\ externals[r] = {}

Dated == \A t \in Timelines : obsDate[t] <= now

QueueInv ==
  /\ Distinct(queue)
  /\ Elements(queue) \subseteq Members
  /\ phase \in {"start", "deliberate"} => queue = <<>>

(* What has been synchronized already depends on nothing that has not.     *)
Processed == phase = "synchronize" =>
  \A r \in Members \ Elements(queue) : \A t \in externals[r] : owner[t] \notin Elements(queue)

Explored == discovered \ Elements(stack)

(* The search came from p to q along a relation; it may be gone because q  *)
(* was isolated.                                                           *)
Link(p, q) ==
  /\ life[p] = "member"
  /\ life[q] = "member" => \E t \in externals[p] : owner[t] = q

SearchInv == phase = "search" =>
  /\ Distinct(stack) /\ Elements(stack) \subseteq discovered
  /\ Elements(queue) \subseteq Explored
  /\ Explored \cap Members \subseteq Elements(queue)
  /\ \A q \in Elements(queue) : \A t \in externals[q] : owner[t] \in Explored \cup {NoReactor}
  /\ \A i \in 1 .. Len(stack) - 1 : Link(stack[i], stack[i + 1])

(* A client that has not seen a regular change still will: the change is   *)
(* of this tick and the client waits in the scheduling list.               *)
SeenAt(r, t) == <<r, t>> \in unseen =>
  /\ r \in clients[t]
  /\ cause[t] = "regular" =>
       /\ obsDate[t] = now /\ phase # "deliberate"
       /\ phase = "synchronize" => r \in Elements(queue)

SeenInv == \A r \in Reactors, t \in Timelines : SeenAt(r, t)

(* A timeline that shows something of this tick has been through the       *)
(* synchronization of its owner.                                           *)
OnceAt(t) == cause[t] = "regular" /\ obsDate[t] = now /\ owner[t] # NoReactor =>
  \/ phase = "deliberate"
  \/ phase = "synchronize" /\ owner[t] \notin Elements(queue)

OnceInv == \A t \in Timelines : OnceAt(t)

(* What the graph provides.                                                *)
BoardInv == GraphInv /\ BareUnlessMember /\ Dated

TickInv ==
  /\ TickTypeOK
  /\ BoardInv
  /\ QueueInv /\ ServersFirst /\ Processed
  /\ SearchInv /\ AbortMeansCycle
  /\ SeenInv /\ OnceInv

-----------------------------------------------------------------------------
(* Sequences                                                               *)

LEMMA ElementsOf ==
  ASSUME NEW s \in Seq(Reactors)
  PROVE  /\ DOMAIN s = 1 .. Len(s) /\ Len(s) \in Nat
         /\ Elements(s) = {s[i] : i \in 1 .. Len(s)} /\ Elements(s) \subseteq Reactors
         /\ s = <<>> <=> Len(s) = 0
         /\ s = <<>> => Elements(s) = {}
  BY LenProperties, EmptySeq DEF Elements

LEMMA AppendElements ==
  ASSUME NEW s \in Seq(Reactors), NEW r \in Reactors
  PROVE  /\ Append(s, r) \in Seq(Reactors) /\ Len(Append(s, r)) = Len(s) + 1
         /\ \A i \in 1 .. Len(s) : Append(s, r)[i] = s[i]
         /\ Append(s, r)[Len(s) + 1] = r
         /\ Elements(Append(s, r)) = Elements(s) \cup {r}
         /\ Distinct(s) /\ r \notin Elements(s) => Distinct(Append(s, r))
<1>1. /\ Append(s, r) \in Seq(Reactors) /\ Len(Append(s, r)) = Len(s) + 1 /\ Len(s) \in Nat
      /\ \A i \in 1 .. Len(s) : Append(s, r)[i] = s[i]
      /\ Append(s, r)[Len(s) + 1] = r
  BY LenProperties
<1>2. Elements(Append(s, r)) = Elements(s) \cup {r}
  BY <1>1, LenProperties DEF Elements
<1>3. ASSUME Distinct(s), r \notin Elements(s) PROVE Distinct(Append(s, r))
  BY <1>1, <1>3, LenProperties DEF Distinct, Elements
<1> QED
  BY <1>1, <1>2, <1>3

LEMMA TailElements ==
  ASSUME NEW s \in Seq(Reactors), s # <<>>
  PROVE  /\ Tail(s) \in Seq(Reactors) /\ Len(Tail(s)) = Len(s) - 1 /\ Len(s) > 0
         /\ \A i \in 1 .. Len(s) - 1 : Tail(s)[i] = s[i + 1]
         /\ Head(s) = s[1] /\ Head(s) \in Reactors
         /\ Elements(s) = Elements(Tail(s)) \cup {Head(s)}
         /\ Distinct(s) => Distinct(Tail(s)) /\ Head(s) \notin Elements(Tail(s))
<1>1. /\ Tail(s) \in Seq(Reactors) /\ Len(Tail(s)) = Len(s) - 1 /\ Len(s) > 0 /\ Len(s) \in Nat
      /\ \A i \in 1 .. Len(s) - 1 : Tail(s)[i] = s[i + 1]
      /\ Head(s) = s[1] /\ Head(s) \in Reactors
  BY HeadTailProperties, LenProperties, EmptySeq
<1>2. DOMAIN s = 1 .. Len(s) /\ DOMAIN Tail(s) = 1 .. Len(s) - 1
  BY <1>1, LenProperties
<1>3. Elements(s) = Elements(Tail(s)) \cup {Head(s)}
  <2>1. ASSUME NEW i \in 1 .. Len(s) PROVE s[i] \in Elements(Tail(s)) \cup {Head(s)}
    <3>1. CASE i = 1
      BY <1>1, <3>1
    <3>2. CASE i # 1
      <4>1. i - 1 \in 1 .. Len(s) - 1 /\ Tail(s)[i - 1] = s[i]
        BY <1>1, <3>2
      <4> QED
        BY <1>2, <4>1 DEF Elements
    <3> QED
      BY <3>1, <3>2
  <2>2. ASSUME NEW i \in 1 .. Len(s) - 1 PROVE Tail(s)[i] \in Elements(s)
    BY <1>1, <1>2 DEF Elements
  <2>3. Head(s) \in Elements(s)
    BY <1>1, <1>2 DEF Elements
  <2> QED
    BY <1>2, <2>1, <2>2, <2>3 DEF Elements
<1>4. ASSUME Distinct(s) PROVE Distinct(Tail(s)) /\ Head(s) \notin Elements(Tail(s))
  <2>1. ASSUME NEW i \in 1 .. Len(s) - 1, NEW j \in 1 .. Len(s) - 1, Tail(s)[i] = Tail(s)[j]
        PROVE  i = j
    BY <1>1, <1>2, <1>4, <2>1 DEF Distinct
  <2>2. ASSUME NEW i \in 1 .. Len(s) - 1 PROVE Tail(s)[i] # Head(s)
    BY <1>1, <1>2, <1>4 DEF Distinct
  <2> QED
    BY <1>2, <2>1, <2>2 DEF Distinct, Elements
<1> QED
  BY <1>1, <1>3, <1>4

LEMMA FrontElements ==
  ASSUME NEW s \in Seq(Reactors), s # <<>>,
         NEW f, f = SubSeq(s, 1, Len(s) - 1)
  PROVE  /\ f \in Seq(Reactors) /\ Len(f) = Len(s) - 1 /\ Len(s) > 0
         /\ \A i \in 1 .. Len(s) - 1 : f[i] = s[i]
         /\ s[Len(s)] \in Reactors
         /\ Elements(s) = Elements(f) \cup {s[Len(s)]}
         /\ Distinct(s) => Distinct(f) /\ s[Len(s)] \notin Elements(f)
<1>1. Len(s) \in Nat /\ Len(s) > 0 /\ DOMAIN s = 1 .. Len(s) /\ \A i \in 1 .. Len(s) : s[i] \in Reactors
  BY LenProperties, EmptySeq
<1>2. /\ f \in Seq(Reactors) /\ Len(f) = Len(s) - 1
      /\ \A i \in 1 .. Len(s) - 1 : f[i] = s[i]
  BY <1>1, SubSeqProperties
<1>3. DOMAIN f = 1 .. Len(s) - 1
  BY <1>2, LenProperties
<1>4. Elements(s) = Elements(f) \cup {s[Len(s)]}
  <2>1. Elements(s) = {s[i] : i \in 1 .. Len(s)} /\ Elements(f) = {f[i] : i \in 1 .. Len(s) - 1}
    BY <1>1, <1>3 DEF Elements
  <2>2. ASSUME NEW i \in 1 .. Len(s) PROVE s[i] \in Elements(f) \cup {s[Len(s)]}
    <3>1. CASE i = Len(s)
      BY <3>1
    <3>2. CASE i # Len(s)
      <4>1. i \in 1 .. Len(s) - 1
        <5>1. Len(s) \in Nat
          BY LenProperties
        <5> QED
          BY ONLY <5>1, <3>2, i \in 1 .. Len(s)
      <4>2. f[i] = s[i]
        BY <1>2, <4>1
      <4> QED
        BY <1>3, <4>1, <4>2 DEF Elements
    <3> QED
      BY <3>1, <3>2
  <2>3. ASSUME NEW i \in 1 .. Len(s) - 1 PROVE f[i] \in Elements(s)
    BY <1>1, <1>2, <2>1
  <2>4. s[Len(s)] \in Elements(s)
    BY <1>1, <2>1
  <2> QED
    BY <2>1, <2>2, <2>3, <2>4
<1>5. ASSUME Distinct(s) PROVE Distinct(f) /\ s[Len(s)] \notin Elements(f)
  BY <1>1, <1>2, <1>3, <1>5 DEF Distinct, Elements
<1> QED
  BY <1>1, <1>2, <1>4, <1>5

-----------------------------------------------------------------------------
(* What the actions do to the graph                                        *)

LEMMA GraphFacts ==
  ASSUME BoardInv
  PROVE  /\ \A r \in Reactors, t \in Timelines :
              /\ owner[t] = r <=> t \in internals[r]
              /\ r \in clients[t] <=> t \in externals[r]
              /\ t \in externals[r] => owner[t] # r /\ r \in Members
              /\ t \in internals[r] => r \in Members
         /\ \A r \in Reactors : externals[r] \subseteq Timelines /\ internals[r] \subseteq Timelines
         /\ \A t \in Timelines : /\ owner[t] \in Reactors \cup {NoReactor}
                                 /\ clients[t] \subseteq Reactors
                                 /\ obsDate[t] \in Nat /\ obsDate[t] <= now
         /\ now \in Nat
<1>1. \A r \in Reactors, t \in Timelines :
              /\ owner[t] = r <=> t \in internals[r]
              /\ r \in clients[t] <=> t \in externals[r]
              /\ owner[t] = r => t \notin externals[r]
  BY DEF BoardInv, GraphInv, Relations, OwnersMirrored, ClientsMirrored, OwnerIsNotClient
<1>2. \A r \in Reactors : internals[r] # {} \/ externals[r] # {} => r \in Members
  BY DEF BoardInv, BareUnlessMember, Members
<1>3. /\ \A r \in Reactors : externals[r] \subseteq Timelines /\ internals[r] \subseteq Timelines
      /\ \A t \in Timelines : /\ owner[t] \in Reactors \cup {NoReactor}
                              /\ clients[t] \subseteq Reactors
                              /\ obsDate[t] \in Nat /\ obsDate[t] <= now
      /\ now \in Nat
  BY DEF BoardInv, GraphInv, TypeOK, Dated
<1> QED
  BY <1>1, <1>2, <1>3

LEMMA GraphStays ==
  ASSUME BoardInv, UNCHANGED graphVars
  PROVE  BoardInv'
<1>1. GraphInv'
  BY GraphInvStep DEF BoardInv
<1>2. BareUnlessMember' /\ Dated'
  BY DEF BoardInv, BareUnlessMember, Dated, graphVars, ownership, subscriptions, observations
<1> QED
  BY <1>1, <1>2 DEF BoardInv

(* Isolation and destruction of r.                                         *)
Detached(r) ==
  /\ life'[r] # "member" /\ \A q \in Reactors : q # r => life'[q] = life[q]
  /\ \A t \in Timelines :
       /\ owner'[t] = IF t \in internals[r] THEN NoReactor ELSE owner[t]
       /\ obsDate'[t] = IF t \in internals[r] THEN now ELSE obsDate[t]
       /\ t \notin internals[r] => lastObs'[t] = lastObs[t]
       /\ clients'[t] = clients[t] \ {r}
  /\ \A q \in Reactors : externals'[q] = IF q = r THEN {} ELSE externals[q]
  /\ now' = now

LEMMA Detaching ==
  ASSUME BoardInv, NEW r \in Reactors, Isolate(r) \/ KillReactor(r)
  PROVE  BoardInv' /\ Detached(r)
<1>1. Next
  BY DEF Next, Lifecycle
<1>2. GraphInv'
  BY <1>1, GraphInvStep DEF BoardInv
<1>3. /\ life \in [Reactors -> Life] /\ internals \in [Reactors -> SUBSET Timelines]
      /\ externals \in [Reactors -> SUBSET Timelines] /\ now \in Nat
  BY DEF BoardInv, GraphInv, TypeOK
<1>4. Unassign(r, internals[r]) /\ Unsubscribe(r, externals[r]) /\ now' = now
  BY DEF Isolate, KillReactor, Disconnect
<1>5. PICK l \in {"quarantined", "none"} : life' = [life EXCEPT ![r] = l]
  BY DEF Isolate, KillReactor
<1>6. life'[r] # "member" /\ \A q \in Reactors : q # r => life'[q] = life[q]
  BY <1>3, <1>5
<1>7. /\ \A q \in Reactors : externals'[q] = IF q = r THEN {} ELSE externals[q]
      /\ \A q \in Reactors : internals'[q] = IF q = r THEN {} ELSE internals[q]
  BY <1>3, <1>4 DEF Unassign, Unsubscribe
<1>8. ASSUME NEW t \in Timelines
      PROVE  /\ owner'[t] = IF t \in internals[r] THEN NoReactor ELSE owner[t]
             /\ obsDate'[t] = IF t \in internals[r] THEN now ELSE obsDate[t]
             /\ t \notin internals[r] => lastObs'[t] = lastObs[t]
             /\ clients'[t] = clients[t] \ {r}
  BY <1>4, GraphFacts DEF Unassign, Unsubscribe
<1>9. BareUnlessMember'
  BY <1>6, <1>7 DEF BoardInv, BareUnlessMember
<1>10. Dated'
  BY <1>3, <1>4, <1>8 DEF BoardInv, Dated
<1> QED
  BY <1>2, <1>4, <1>6, <1>7, <1>8, <1>9, <1>10 DEF BoardInv, Detached

LEMMA Publishing ==
  ASSUME TickTypeOK, NEW S \in SUBSET Timelines, NEW C,
         unseen' = {p \in (unseen \ C) \cup (Reactors \X S) : p[1] \in clients'[p[2]]}
  PROVE  /\ unseen' \subseteq Reactors \X Timelines
         /\ \A r \in Reactors, t \in Timelines : <<r, t>> \in unseen' =>
              /\ r \in clients'[t]
              /\ t \in S \/ (<<r, t>> \in unseen /\ <<r, t>> \notin C)
<1>1. unseen \subseteq Reactors \X Timelines
  BY DEF TickTypeOK
<1>2. unseen' \subseteq Reactors \X Timelines
  BY <1>1
<1>3. ASSUME NEW r \in Reactors, NEW t \in Timelines, <<r, t>> \in unseen'
      PROVE  r \in clients'[t] /\ (t \in S \/ (<<r, t>> \in unseen /\ <<r, t>> \notin C))
  BY <1>1, <1>3
<1> QED
  BY <1>2, <1>3

(* The names of phases and causes the definitions use.                     *)
OwnTypes ==
  /\ phase \in Phases
  /\ stack \in Seq(Reactors)
  /\ discovered \subseteq Reactors
  /\ queue \in Seq(Reactors)
  /\ unseen \subseteq Reactors \X Timelines
  /\ cause \in [Timelines -> Causes]

LEMMA Types == TickTypeOK <=> TypeOK /\ OwnTypes
  BY DEF TickTypeOK, OwnTypes

LEMMA Together ==
  ASSUME BoardInv', OwnTypes', QueueInv', ServersFirst', Processed', SearchInv',
         AbortMeansCycle', SeenInv', OnceInv'
  PROVE  TickInv'
  BY DEF TickInv, TickTypeOK, OwnTypes, BoardInv, GraphInv

LEMMA BoardTypes == BoardInv => TypeOK
  BY DEF BoardInv, GraphInv

LEMMA EmptyQueue ==
  /\ <<>> \in Seq(Reactors) /\ Elements(<<>>) = {} /\ Distinct(<<>>) /\ DOMAIN <<>> = {}
  /\ Len(<<>>) = 0
  BY EmptySeq DEF Elements, Distinct

-----------------------------------------------------------------------------
(* Initially                                                               *)

LEMMA InitInv == TickInit => TickInv
<1> SUFFICES ASSUME TickInit PROVE TickInv
  OBVIOUS
<1>1. TypeOK
  <2>1. (CHOOSE f \in OwnerFlags : TRUE) \in Flags /\ NoFlags \in Flags
    BY GraphAssumption, AgentTickAssumption DEF NoFlags, Flags
  <2>2. rights \in [Timelines -> Flags]
    BY <2>1 DEF TickInit
  <2>3. /\ nextObs \in [Timelines -> Values \cup {NoObs}]
        /\ lastObs \in [Timelines -> Obs]
        /\ obsDate \in [Timelines -> Nat]
        /\ planListeners \in [Timelines -> Int]
        /\ now \in Nat
    BY DEF TickInit, Obs
  <2>4. life \in [Reactors -> Life]
    BY DEF TickInit, Life
  <2>5. /\ internals \in [Reactors -> SUBSET Timelines]
        /\ externals \in [Reactors -> SUBSET Timelines]
        /\ updates \in [Reactors -> SUBSET Timelines]
        /\ posters \in [Timelines -> SUBSET Reactors]
        /\ listeners \in [Timelines -> SUBSET Reactors]
    BY DEF TickInit
  <2> QED
    BY <2>2, <2>3, <2>4, <2>5 DEF TypeOK, TickInit
<1>2. OwnTypes
  BY EmptyQueue DEF TickInit, OwnTypes, Phases, Causes
<1>3. Relations
  BY GraphAssumption
     DEF TickInit, Relations, OwnersMirrored, ClientsMirrored, OwnerIsNotClient, BareWhenGone
<1>4. PlanListenersExact
  BY FS_EmptySet DEF TickInit, PlanListenersExact
<1>5. Contents
  BY DEF TickInit, Contents, OrphanIsFailed, PostedIsScheduled
<1>6. BareUnlessMember /\ Dated
  BY DEF TickInit, BareUnlessMember, Dated
<1>7. /\ phase = "start" /\ queue = <<>> /\ unseen = {} /\ \A t \in Timelines : obsDate[t] # now
  BY DEF TickInit
<1>8. QueueInv /\ ServersFirst /\ Processed /\ SearchInv /\ AbortMeansCycle
  BY <1>7, EmptyQueue DEF QueueInv, ServersFirst, Processed, SearchInv, AbortMeansCycle
<1>9. SeenInv /\ OnceInv
  BY <1>7 DEF SeenInv, SeenAt, OnceInv, OnceAt
<1> QED
  BY <1>1, <1>2, <1>3, <1>4, <1>5, <1>6, <1>8, <1>9, Types DEF TickInv, BoardInv, GraphInv

-----------------------------------------------------------------------------
(* The search                                                              *)

LEMMA StartSearchKeeps ==
  ASSUME TickInv, StartSearch
  PROVE  TickInv'
<1>1. /\ phase = "start" /\ phase' = "search" /\ stack' = <<>> /\ discovered' = {} /\ queue' = <<>>
      /\ UNCHANGED graphVars /\ unseen' = unseen /\ cause' = cause
      /\ TickTypeOK /\ BoardInv /\ SeenInv /\ OnceInv
  BY DEF StartSearch, histories, TickInv
<1>2. BoardInv' /\ clients' = clients /\ obsDate' = obsDate /\ now' = now /\ owner' = owner
  BY <1>1, GraphStays DEF graphVars, ownership, subscriptions, observations
<1>3. OwnTypes'
  BY <1>1, EmptyQueue, Types DEF OwnTypes, Phases
<1>4. QueueInv' /\ ServersFirst' /\ Processed' /\ AbortMeansCycle'
  BY <1>1, EmptyQueue DEF QueueInv, ServersFirst, Processed, AbortMeansCycle
<1>5. SearchInv'
  <2>1. Elements(stack') = {} /\ Elements(queue') = {} /\ Len(stack') = 0 /\ Distinct(stack')
    BY <1>1, EmptyQueue
  <2> QED
    BY <1>1, <2>1 DEF SearchInv, Explored
<1>6. SeenInv'
  BY <1>1, <1>2 DEF SeenInv, SeenAt
<1>7. OnceInv'
  BY <1>1, <1>2 DEF OnceInv, OnceAt
<1> QED
  BY <1>2, <1>3, <1>4, <1>5, <1>6, <1>7, Together

(* Facts of the search common to the next lemmas.                          *)
LEMMA InSearch ==
  ASSUME TickInv, phase = "search"
  PROVE  /\ stack \in Seq(Reactors) /\ queue \in Seq(Reactors) /\ discovered \subseteq Reactors
         /\ Distinct(stack) /\ Elements(stack) \subseteq discovered
         /\ Distinct(queue) /\ Elements(queue) \subseteq Explored \cap Members
         /\ Explored \cap Members \subseteq Elements(queue)
         /\ \A q \in Elements(queue) : \A t \in externals[q] : owner[t] \in Explored \cup {NoReactor}
         /\ \A i \in 1 .. Len(stack) - 1 : Link(stack[i], stack[i + 1])
         /\ \A t \in Timelines : cause[t] = "regular" /\ obsDate[t] = now => owner[t] = NoReactor
         /\ \A r \in Reactors, t \in Timelines : <<r, t>> \in unseen =>
              r \in clients[t] /\ (cause[t] = "regular" => obsDate[t] = now)
         /\ \A i, j \in DOMAIN queue : i < j =>
              \A t \in externals[queue[i]] : owner[t] # queue[j]
  BY DEF TickInv, SearchInv, QueueInv, TickTypeOK, OnceInv, OnceAt, SeenInv, SeenAt, ServersFirst

(* The reactor on top of the stack, when it depends on something.          *)
LEMMA TopOfStack ==
  ASSUME TickInv, phase = "search", stack # <<>>, NEW r \in Targets
  PROVE  /\ stack[Len(stack)] \in Members
         /\ \E t \in externals[stack[Len(stack)]] : owner[t] = r
<1>1. stack[Len(stack)] \in Reactors /\ BoardInv
  BY InSearch, FrontElements DEF TickInv
<1>2. \E t \in externals[stack[Len(stack)]] : owner[t] = r
  BY DEF Targets
<1> QED
  BY <1>1, <1>2, GraphFacts

LEMMA StartReactorKeeps ==
  ASSUME TickInv, NEW r \in Reactors, StartReactor(r)
  PROVE  TickInv'
<1>1. /\ phase = "search" /\ r \in Members \ discovered /\ (stack # <<>> => r \in Targets)
      /\ discovered' = discovered \cup {r} /\ stack' = Append(stack, r)
      /\ UNCHANGED graphVars /\ phase' = phase /\ queue' = queue
      /\ unseen' = unseen /\ cause' = cause
      /\ TickTypeOK /\ BoardInv /\ SeenInv /\ OnceInv /\ QueueInv /\ ServersFirst
  BY DEF StartReactor, Reach, histories, TickInv
<1>2. /\ BoardInv' /\ clients' = clients /\ obsDate' = obsDate /\ now' = now /\ owner' = owner
      /\ externals' = externals /\ life' = life /\ Members' = Members
  BY <1>1, GraphStays DEF graphVars, ownership, subscriptions, observations, Members
<1>3. /\ stack' \in Seq(Reactors) /\ Len(stack') = Len(stack) + 1 /\ Len(stack) \in Nat
      /\ \A i \in 1 .. Len(stack) : stack'[i] = stack[i]
      /\ stack'[Len(stack) + 1] = r
      /\ Elements(stack') = Elements(stack) \cup {r}
      /\ r \notin Elements(stack) /\ Distinct(stack')
  BY <1>1, InSearch, AppendElements, ElementsOf
<1>4. OwnTypes'
  BY <1>1, <1>3, Types DEF OwnTypes
<1>5. QueueInv' /\ ServersFirst' /\ Processed' /\ AbortMeansCycle'
  BY <1>1, <1>2 DEF QueueInv, ServersFirst, Processed, AbortMeansCycle
<1>6. Explored' = Explored
  BY <1>1, <1>3 DEF Explored
<1>7. ASSUME NEW i \in 1 .. Len(stack') - 1
      PROVE  /\ life[stack'[i]] = "member"
             /\ life[stack'[i + 1]] = "member" => \E t \in externals[stack'[i]] : owner[t] = stack'[i + 1]
  <2>1. CASE i < Len(stack)
    <3>1. i \in 1 .. Len(stack) - 1 /\ i + 1 \in 1 .. Len(stack)
      BY <1>3, <2>1
    <3> QED
      BY <1>1, <1>3, <3>1, InSearch DEF Link
  <2>2. CASE i = Len(stack)
    <3>1. stack # <<>> /\ stack'[i + 1] = r
      BY <1>1, <1>3, <2>2, InSearch, ElementsOf
    <3>2. stack[i] \in Members /\ \E t \in externals[stack[i]] : owner[t] = r
      BY <1>1, <2>2, <3>1, TopOfStack
    <3> QED
      BY <1>3, <2>2, <3>1, <3>2 DEF Members
  <2> QED
    BY <1>3, <2>1, <2>2
<1>8. \A i \in 1 .. Len(stack') - 1 : Link(stack[i], stack[i + 1])'
  BY <1>2, <1>7 DEF Link
<1>9. SearchInv'
  <2>1. Elements(stack') \subseteq discovered'
    BY <1>1, <1>3, InSearch
  <2> QED
    BY <1>1, <1>2, <1>3, <1>6, <1>8, <2>1, InSearch DEF SearchInv
<1>10. SeenInv' /\ OnceInv'
  BY <1>1, <1>2 DEF SeenInv, SeenAt, OnceInv, OnceAt
<1> QED
  BY <1>2, <1>4, <1>5, <1>9, <1>10, Together

(* A reactor that fails newTick is on top of the stack without relations:  *)
(* the search finishes it next, and it is not scheduled.                   *)
LEMMA RejectReactorKeeps ==
  ASSUME TickInv, NEW r \in Reactors, RejectReactor(r)
  PROVE  TickInv'
<1>1. /\ phase = "search" /\ r \in Members \ discovered /\ (stack # <<>> => r \in Targets)
      /\ discovered' = discovered \cup {r} /\ stack' = Append(stack, r)
      /\ phase' = phase /\ queue' = queue
      /\ TickTypeOK /\ BoardInv
  BY DEF RejectReactor, Reach, TickInv
<1>2. /\ BoardInv' /\ Detached(r)
  BY <1>1, Detaching DEF RejectReactor
<1>3. /\ stack' \in Seq(Reactors) /\ Len(stack') = Len(stack) + 1 /\ Len(stack) \in Nat
      /\ \A i \in 1 .. Len(stack) : stack'[i] = stack[i]
      /\ stack'[Len(stack) + 1] = r
      /\ Elements(stack') = Elements(stack) \cup {r}
      /\ r \notin Elements(stack) /\ Distinct(stack')
  BY <1>1, InSearch, AppendElements, ElementsOf
<1>4. r \notin Elements(queue) /\ Elements(queue) \subseteq Reactors /\ Members' = Members \ {r}
  BY <1>1, <1>2, InSearch DEF Explored, Members, Detached
<1>5. internals[r] \in SUBSET Timelines /\ Regular \in [Timelines -> Causes]
  BY <1>1, GraphFacts DEF Regular, Causes
<1>6. Published(internals[r], {}, Regular)
  BY DEF RejectReactor
<1>7. /\ unseen' \subseteq Reactors \X Timelines /\ cause' \in [Timelines -> Causes]
      /\ \A q \in Reactors, t \in Timelines : <<q, t>> \in unseen' =>
           q \in clients'[t] /\ (t \in internals[r] \/ <<q, t>> \in unseen)
      /\ \A t \in Timelines : cause'[t] = IF t \in internals[r] THEN "regular" ELSE cause[t]
  <2>1. /\ unseen' = {p \in (unseen \ {}) \cup (Reactors \X internals[r]) : p[1] \in clients'[p[2]]}
        /\ cause' = [t \in Timelines |-> IF t \in internals[r] THEN "regular" ELSE cause[t]]
    BY <1>6 DEF Published, Regular
  <2>2. cause \in [Timelines -> Causes] /\ "regular" \in Causes
    BY <1>1 DEF TickTypeOK, Causes
  <2>3. /\ unseen' \subseteq Reactors \X Timelines
        /\ \A q \in Reactors, t \in Timelines : <<q, t>> \in unseen' =>
             q \in clients'[t] /\ (t \in internals[r] \/ <<q, t>> \in unseen)
    BY <1>1, <1>5, <2>1, Publishing
  <2> QED
    BY <2>1, <2>2, <2>3
<1>8. OwnTypes'
  BY <1>1, <1>3, <1>7, Types DEF OwnTypes
<1>9. QueueInv' /\ Processed' /\ AbortMeansCycle'
  BY <1>1, <1>4, InSearch DEF QueueInv, Processed, AbortMeansCycle
<1>10. ServersFirst'
  <2> SUFFICES ASSUME NEW i \in DOMAIN queue, NEW j \in DOMAIN queue, i < j,
                      NEW t \in externals'[queue[i]], owner'[t] = queue[j]
               PROVE  FALSE
    BY <1>1 DEF ServersFirst
  <2>1. queue[i] \in Elements(queue) /\ queue[j] \in Elements(queue)
    BY DEF Elements
  <2>2. t \in externals[queue[i]] /\ t \in Timelines
    BY <1>1, <1>2, <1>4, <2>1, GraphFacts DEF Detached
  <2>3. owner[t] = queue[j]
    BY <1>2, <1>4, <2>1, <2>2, GraphAssumption DEF Detached
  <2> QED
    BY <1>1, <2>2, <2>3, InSearch
<1>11. Explored' = Explored
  BY <1>1, <1>3 DEF Explored
<1>12. \A i \in 1 .. Len(stack') - 1 : Link(stack[i], stack[i + 1])'
  <2> SUFFICES ASSUME NEW i \in 1 .. Len(stack') - 1
               PROVE  /\ life'[stack'[i]] = "member"
                      /\ life'[stack'[i + 1]] = "member" =>
                           \E t \in externals'[stack'[i]] : owner'[t] = stack'[i + 1]
    BY DEF Link
  <2>1. i \in 1 .. Len(stack) /\ stack'[i] = stack[i] /\ stack[i] \in Elements(stack)
    BY <1>1, <1>3, InSearch, ElementsOf
  <2>2. stack[i] \in Reactors /\ stack[i] # r
    BY <1>1, <1>3, <2>1, InSearch
  <2>3. CASE i < Len(stack)
    <3>1. i \in 1 .. Len(stack) - 1 /\ i + 1 \in 1 .. Len(stack) /\ stack'[i + 1] = stack[i + 1]
      BY <1>3, <2>3
    <3>2. stack[i + 1] \in Elements(stack)
      BY <1>1, <3>1, InSearch, ElementsOf
    <3>3. stack[i + 1] \in Reactors /\ stack[i + 1] # r
      BY <1>1, <1>3, <3>2, InSearch
    <3>4. Link(stack[i], stack[i + 1])
      BY <1>1, <3>1, InSearch
    <3>5. life'[stack[i]] = life[stack[i]] /\ life'[stack[i + 1]] = life[stack[i + 1]]
      BY <1>2, <2>2, <3>3 DEF Detached
    <3>6. ASSUME NEW t \in externals[stack[i]], owner[t] = stack[i + 1]
          PROVE  t \in externals'[stack[i]] /\ owner'[t] = stack[i + 1]
      <4>1. t \in Timelines /\ t \notin internals[r]
        BY <1>1, <2>2, <3>3, <3>6, GraphFacts
      <4> QED
        BY <1>2, <2>2, <3>6, <4>1 DEF Detached
    <3> QED
      BY <2>1, <3>1, <3>4, <3>5, <3>6 DEF Link
  <2>4. CASE i = Len(stack)
    <3>1. stack # <<>> /\ stack'[i + 1] = r /\ r \in Targets
      BY <1>1, <1>3, <2>1, <2>4, InSearch, ElementsOf
    <3>2. stack[i] \in Members
      BY <1>1, <2>4, <3>1, TopOfStack
    <3> QED
      BY <1>2, <2>1, <2>2, <3>1, <3>2 DEF Detached, Members
  <2> QED
    BY <1>3, <2>1, <2>3, <2>4
<1>13. ASSUME NEW q \in Elements(queue), NEW t \in externals'[q]
       PROVE  owner'[t] \in Explored \cup {NoReactor}
  <2>1. q # r /\ q \in Reactors
    BY <1>4
  <2>2. t \in externals[q] /\ t \in Timelines
    BY <1>1, <1>2, <2>1, GraphFacts DEF Detached
  <2> QED
    BY <1>1, <1>2, <2>2, InSearch DEF Detached
<1>14. SearchInv'
  <2>1. Elements(stack') \subseteq discovered'
    BY <1>1, <1>3, InSearch
  <2>2. Explored \cap Members' \subseteq Elements(queue) /\ Elements(queue) \subseteq Explored
    BY <1>1, <1>4, InSearch
  <2> QED
    BY <1>1, <1>3, <1>11, <1>12, <1>13, <2>1, <2>2 DEF SearchInv
<1>15. SeenInv'
  <2> SUFFICES ASSUME NEW q \in Reactors, NEW t \in Timelines, <<q, t>> \in unseen'
               PROVE  q \in clients'[t] /\ (cause'[t] = "regular" => obsDate'[t] = now')
    BY <1>1 DEF SeenInv, SeenAt
  <2> QED
    BY <1>1, <1>2, <1>7, InSearch DEF Detached
<1>16. OnceInv'
  <2> SUFFICES ASSUME NEW t \in Timelines, cause'[t] = "regular", obsDate'[t] = now'
               PROVE  owner'[t] = NoReactor
    BY DEF OnceInv, OnceAt
  <2> QED
    BY <1>1, <1>2, <1>7, InSearch DEF Detached
<1> QED
  BY <1>2, <1>8, <1>9, <1>10, <1>14, <1>15, <1>16, Together

(* What a reactor depends on is behind it in the search when it is         *)
(* finished, and nothing finished before depends on it.                    *)
LEMMA FinishReactorKeeps ==
  ASSUME TickInv, FinishReactor
  PROVE  TickInv'
<1> DEFINE r == stack[Len(stack)]
<1>1. /\ phase = "search" /\ stack # <<>> /\ Targets \subseteq Explored
      /\ queue' = IF life[r] = "member" THEN Append(queue, r) ELSE queue
      /\ stack' = SubSeq(stack, 1, Len(stack) - 1)
      /\ UNCHANGED graphVars /\ phase' = phase /\ discovered' = discovered
      /\ unseen' = unseen /\ cause' = cause
      /\ TickTypeOK /\ BoardInv /\ SeenInv /\ OnceInv
  BY DEF FinishReactor, histories, TickInv, Explored
<1>2. /\ BoardInv' /\ clients' = clients /\ obsDate' = obsDate /\ now' = now /\ owner' = owner
      /\ externals' = externals /\ life' = life /\ Members' = Members
  BY <1>1, GraphStays DEF graphVars, ownership, subscriptions, observations, Members
<1>3. /\ stack' \in Seq(Reactors) /\ Len(stack') = Len(stack) - 1 /\ Len(stack) \in Nat
      /\ \A i \in 1 .. Len(stack) - 1 : stack'[i] = stack[i]
      /\ Elements(stack) = Elements(stack') \cup {r}
      /\ r \notin Elements(stack') /\ Distinct(stack') /\ r \in Reactors
  <2>1. stack \in Seq(Reactors) /\ Distinct(stack) /\ Len(stack) \in Nat
    BY <1>1, InSearch, ElementsOf
  <2>2. stack # <<>> /\ stack' = SubSeq(stack, 1, Len(stack) - 1)
    BY <1>1
  <2>3. /\ stack' \in Seq(Reactors) /\ Len(stack') = Len(stack) - 1
        /\ \A i \in 1 .. Len(stack) - 1 : stack'[i] = stack[i]
        /\ r \in Reactors
        /\ Elements(stack) = Elements(stack') \cup {r}
        /\ Distinct(stack) => Distinct(stack') /\ r \notin Elements(stack')
    <3>1. \A s \in Seq(Reactors) : s # <<>> =>
            \A f : f = SubSeq(s, 1, Len(s) - 1) =>
              /\ f \in Seq(Reactors) /\ Len(f) = Len(s) - 1
              /\ \A i \in 1 .. Len(s) - 1 : f[i] = s[i]
              /\ s[Len(s)] \in Reactors
              /\ Elements(s) = Elements(f) \cup {s[Len(s)]}
              /\ Distinct(s) => Distinct(f) /\ s[Len(s)] \notin Elements(f)
      BY FrontElements
    <3>2. \A f : f = SubSeq(stack, 1, Len(stack) - 1) =>
              /\ f \in Seq(Reactors) /\ Len(f) = Len(stack) - 1
              /\ \A i \in 1 .. Len(stack) - 1 : f[i] = stack[i]
              /\ stack[Len(stack)] \in Reactors
              /\ Elements(stack) = Elements(f) \cup {stack[Len(stack)]}
              /\ Distinct(stack) => Distinct(f) /\ stack[Len(stack)] \notin Elements(f)
      BY <2>1, <2>2, <3>1, Zenon
    <3> QED
      BY <2>2, <3>2, Zenon
  <2> QED
    BY <2>1, <2>3
<1>4. Explored' = Explored \cup {r} /\ r \notin Explored
  BY <1>1, <1>3, InSearch DEF Explored
<1>5. /\ queue' \in Seq(Reactors) /\ Distinct(queue')
      /\ Elements(queue') = Elements(queue) \cup ({r} \cap Members)
  <2>1. r \notin Elements(queue)
    BY <1>1, <1>4, InSearch
  <2>2. CASE life[r] = "member"
    BY <1>1, <1>3, <2>1, <2>2, InSearch, AppendElements DEF Members
  <2>3. CASE life[r] # "member"
    BY <1>1, <2>3, InSearch DEF Members
  <2> QED
    BY <2>2, <2>3
<1>6. OwnTypes'
  BY <1>1, <1>3, <1>5, Types DEF OwnTypes
<1>7. QueueInv' /\ Processed' /\ AbortMeansCycle'
  BY <1>1, <1>2, <1>5, InSearch DEF QueueInv, Processed, AbortMeansCycle
<1>8. \A t \in externals[r] : owner[t] \in Explored \cup {NoReactor}
  BY <1>1 DEF Targets
<1>9. ServersFirst'
  <2>1. CASE life[r] # "member"
    BY <1>1, <1>2, <2>1, InSearch DEF ServersFirst
  <2>2. CASE life[r] = "member"
    <3>1. /\ DOMAIN queue' = 1 .. Len(queue) + 1 /\ DOMAIN queue = 1 .. Len(queue)
          /\ Len(queue) \in Nat
          /\ \A i \in 1 .. Len(queue) : queue'[i] = queue[i]
          /\ queue'[Len(queue) + 1] = r
      BY <1>1, <1>3, <1>5, <2>2, InSearch, AppendElements, ElementsOf
    <3> SUFFICES ASSUME NEW i \in DOMAIN queue', NEW j \in DOMAIN queue', i < j,
                        NEW t \in externals[queue'[i]]
                 PROVE  owner[t] # queue'[j]
      BY <1>1, <1>2 DEF ServersFirst
    <3>2. i \in DOMAIN queue /\ queue'[i] = queue[i] /\ queue[i] \in Elements(queue)
      BY <3>1 DEF Elements
    <3>3. CASE j <= Len(queue)
      <4>1. j \in DOMAIN queue /\ queue'[j] = queue[j]
        BY <3>1, <3>3
      <4> QED
        BY <1>1, <3>2, <4>1, InSearch
    <3>4. CASE j > Len(queue)
      <4>1. queue'[j] = r
        BY <3>1, <3>4
      <4>2. owner[t] \in Explored \cup {NoReactor}
        BY <1>1, <3>2, InSearch
      <4> QED
        BY <1>3, <1>4, <4>1, <4>2, GraphAssumption
    <3> QED
      BY <3>1, <3>3, <3>4
  <2> QED
    BY <2>1, <2>2
<1>10. \A i \in 1 .. Len(stack') - 1 : Link(stack[i], stack[i + 1])'
  <2> SUFFICES ASSUME NEW i \in 1 .. Len(stack') - 1
               PROVE  /\ life'[stack'[i]] = "member"
                      /\ life'[stack'[i + 1]] = "member" =>
                           \E t \in externals'[stack'[i]] : owner'[t] = stack'[i + 1]
    BY DEF Link
  <2>1. i \in 1 .. Len(stack) - 1 /\ stack'[i] = stack[i] /\ stack'[i + 1] = stack[i + 1]
    BY <1>3
  <2>2. Link(stack[i], stack[i + 1])
    BY <1>1, <2>1, InSearch
  <2> QED
    BY <1>2, <2>1, <2>2 DEF Link
<1>11. SearchInv'
  <2>1. Elements(stack') \subseteq discovered'
    BY <1>1, <1>3, InSearch
  <2>2. Elements(queue') \subseteq Explored' /\ Explored' \cap Members' \subseteq Elements(queue')
    BY <1>1, <1>2, <1>4, <1>5, InSearch
  <2>3. \A q \in Elements(queue') : \A t \in externals'[q] : owner'[t] \in Explored' \cup {NoReactor}
    BY <1>1, <1>2, <1>4, <1>5, <1>8, InSearch
  <2> QED
    BY <1>3, <1>10, <2>1, <2>2, <2>3 DEF SearchInv
<1>12. SeenInv' /\ OnceInv'
  BY <1>1, <1>2 DEF SeenInv, SeenAt, OnceInv, OnceAt
<1> QED
  BY <1>2, <1>6, <1>7, <1>9, <1>11, <1>12, Together

(* The part of the stack from the reactor met again to the top is a cycle, *)
(* and none of it was isolated: only the top could be, and it would have   *)
(* no relation to follow.                                                  *)
LEMMA DetectCycleKeeps ==
  ASSUME TickInv, DetectCycle
  PROVE  TickInv'
<1>1. /\ phase = "search" /\ stack # <<>> /\ phase' = "aborted"
      /\ UNCHANGED graphVars /\ stack' = stack /\ discovered' = discovered /\ queue' = queue
      /\ unseen' = unseen /\ cause' = cause
      /\ TickTypeOK /\ BoardInv /\ SeenInv /\ OnceInv /\ QueueInv
  BY DEF DetectCycle, histories, search, TickInv
<1>2. /\ BoardInv' /\ clients' = clients /\ obsDate' = obsDate /\ now' = now /\ owner' = owner
      /\ externals' = externals /\ life' = life /\ Members' = Members
  BY <1>1, GraphStays DEF graphVars, ownership, subscriptions, observations, Members
<1>3. /\ Len(stack) \in Nat /\ Len(stack) > 0
      /\ Elements(stack) = {stack[i] : i \in 1 .. Len(stack)} /\ Elements(stack) \subseteq Reactors
  BY <1>1, InSearch, ElementsOf
<1>4. PICK k \in 1 .. Len(stack) : stack[k] \in Targets
  BY <1>1, <1>3 DEF DetectCycle
<1>5. /\ stack[Len(stack)] \in Members
      /\ \E t \in externals[stack[Len(stack)]] : owner[t] = stack[k]
  BY <1>1, <1>4, TopOfStack
<1> DEFINE C == {stack[i] : i \in k .. Len(stack)}
<1>6. ASSUME NEW i \in k .. Len(stack)
      PROVE  stack[i] \in Members
  <2>1. CASE i = Len(stack)
    BY <1>5, <2>1
  <2>2. CASE i # Len(stack)
    <3>1. i \in 1 .. Len(stack) - 1 /\ i \in 1 .. Len(stack)
      BY <1>3, <2>2
    <3> QED
      BY <1>1, <1>3, <3>1, InSearch DEF Link, Members
  <2> QED
    BY <2>1, <2>2
<1>7. ASSUME NEW i \in k .. Len(stack)
      PROVE  \E t \in externals[stack[i]] : owner[t] \in C
  <2>1. CASE i = Len(stack)
    <3>1. stack[k] \in C
      BY <1>3
    <3> QED
      BY <1>5, <2>1, <3>1
  <2>2. CASE i # Len(stack)
    <3>1. i \in 1 .. Len(stack) - 1 /\ i + 1 \in k .. Len(stack)
      BY <1>3, <2>2
    <3>2. life[stack[i + 1]] = "member" /\ stack[i + 1] \in C
      BY <1>6, <3>1 DEF Members
    <3>3. PICK t \in externals[stack[i]] : owner[t] = stack[i + 1]
      BY <1>1, <3>1, <3>2, InSearch DEF Link
    <3> QED
      BY <3>2, <3>3
  <2> QED
    BY <2>1, <2>2
<1>8. C \in (SUBSET Members) \ {{}}
  <2>1. stack[k] \in C
    BY <1>3
  <2> QED
    BY <1>6, <2>1
<1>9. \A q \in C : \E t \in externals[q] : owner[t] \in C
  BY <1>7
<1>10. AbortMeansCycle'
  <2> HIDE DEF C
  <2> QED
    BY <1>2, <1>8, <1>9 DEF AbortMeansCycle
<1>11. OwnTypes'
  BY <1>1, Types DEF OwnTypes, Phases
<1>12. QueueInv' /\ ServersFirst' /\ Processed' /\ SearchInv'
  BY <1>1, <1>2 DEF QueueInv, ServersFirst, Processed, SearchInv
<1>13. SeenInv' /\ OnceInv'
  BY <1>1, <1>2 DEF SeenInv, SeenAt, OnceInv, OnceAt
<1> QED
  BY <1>2, <1>10, <1>11, <1>12, <1>13, Together

(* Every member has been explored, so every client that has something to   *)
(* collect is in the scheduling list.                                      *)
LEMMA CleanupKeeps ==
  ASSUME TickInv, Cleanup
  PROVE  TickInv'
<1>1. /\ phase = "search" /\ stack = <<>> /\ Members \subseteq discovered /\ phase' = "synchronize"
      /\ life' = [r \in Reactors |-> IF life[r] = "quarantined" THEN "none" ELSE life[r]]
      /\ updates' = [r \in Reactors |-> IF life[r] = "quarantined" THEN {} ELSE updates[r]]
      /\ UNCHANGED <<known, ownership, subscriptions, observations, now>>
      /\ stack' = stack /\ discovered' = discovered /\ queue' = queue
      /\ unseen' = unseen /\ cause' = cause
      /\ TickTypeOK /\ BoardInv /\ SeenInv /\ OnceInv /\ QueueInv /\ ServersFirst
  BY DEF Cleanup, histories, search, TickInv
<1>2. /\ clients' = clients /\ obsDate' = obsDate /\ now' = now /\ owner' = owner
      /\ externals' = externals /\ internals' = internals
      /\ \A r \in Reactors : life'[r] = "member" <=> life[r] = "member"
  BY <1>1 DEF ownership, subscriptions, observations
<1>3. TypeOK /\ Relations /\ PlanListenersExact /\ Contents /\ BareUnlessMember /\ Dated
  BY <1>1 DEF BoardInv, GraphInv
<1>4. TypeOK'
  <2>1. life' \in [Reactors -> Life]
    BY <1>1, <1>3 DEF TypeOK, Life
  <2>2. updates' \in [Reactors -> SUBSET Timelines]
    BY <1>1, <1>3 DEF TypeOK
  <2> QED
    BY <1>1, <1>3, <2>1, <2>2 DEF TypeOK, ownership, subscriptions, observations
<1>5. BareUnlessMember' /\ Dated'
  BY <1>2, <1>3 DEF BareUnlessMember, Dated
<1>6. Relations'
  BY <1>2, <1>3, <1>5
     DEF Relations, OwnersMirrored, ClientsMirrored, OwnerIsNotClient, BareWhenGone, BareUnlessMember
<1>7. PlanListenersExact'
  BY <1>1, <1>3 DEF PlanListenersExact, subscriptions
<1>8. Contents'
  <2>1. OrphanIsFailed'
    BY <1>1, <1>3 DEF Contents, OrphanIsFailed, ownership, observations
  <2>2. ASSUME NEW t \in Timelines, nextObs'[t] # NoObs
        PROVE  \E r \in Reactors : owner'[t] = r /\ t \in updates'[r]
    <3>1. nextObs[t] # NoObs
      BY <1>1, <2>2 DEF observations
    <3>2. PICK r \in Reactors : owner[t] = r /\ t \in updates[r]
      BY <1>3, <3>1 DEF Contents, PostedIsScheduled
    <3>3. life[r] = "member"
      BY <1>1, <3>2, GraphFacts DEF Members
    <3> QED
      BY <1>1, <1>2, <3>2, <3>3
  <2> QED
    BY <2>1, <2>2 DEF Contents, PostedIsScheduled
<1>9. BoardInv'
  BY <1>4, <1>5, <1>6, <1>7, <1>8 DEF BoardInv, GraphInv
<1>10. Members' = Members /\ Members \subseteq Elements(queue)
  <2>1. Elements(stack) = {} /\ Members' = Members
    BY <1>1, <1>2, EmptyQueue DEF Members
  <2> QED
    BY <1>1, <2>1, InSearch DEF Explored
<1>11. OwnTypes'
  BY <1>1, Types DEF OwnTypes, Phases
<1>12. QueueInv' /\ ServersFirst' /\ SearchInv' /\ AbortMeansCycle'
  BY <1>1, <1>2, <1>10 DEF QueueInv, ServersFirst, SearchInv, AbortMeansCycle
<1>13. Processed'
  BY <1>1, <1>10 DEF Processed
<1>14. SeenInv'
  <2> SUFFICES ASSUME NEW r \in Reactors, NEW t \in Timelines, <<r, t>> \in unseen
               PROVE  r \in clients[t] /\ r \in Elements(queue) /\ (cause[t] = "regular" => obsDate[t] = now)
    BY <1>1, <1>2 DEF SeenInv, SeenAt
  <2> QED
    BY <1>1, <1>10, InSearch, GraphFacts
<1>15. OnceInv'
  BY <1>1, <1>2, InSearch DEF OnceInv, OnceAt
<1> QED
  BY <1>9, <1>11, <1>12, <1>13, <1>14, <1>15, Together

-----------------------------------------------------------------------------
(* The synchronizations                                                    *)

(* The head of the list depends on nothing that is behind it.              *)
LEMMA Dequeuing ==
  ASSUME TickInv, NEW r, Dequeue(r)
  PROVE  /\ phase = "synchronize" /\ r \in Members
         /\ queue' \in Seq(Reactors) /\ Distinct(queue') /\ r \notin Elements(queue')
         /\ Elements(queue) = Elements(queue') \cup {r} /\ Elements(queue) \subseteq Members
         /\ \A q \in Members \ Elements(queue) : \A t \in externals[q] : owner[t] \notin Elements(queue)
         /\ \A q \in Members \ Elements(queue') : \A t \in externals[q] : owner[t] \notin Elements(queue')
         /\ \A i, j \in DOMAIN queue' : i < j =>
              \A t \in externals[queue'[i]] : owner[t] # queue'[j]
<1>1. /\ phase = "synchronize" /\ queue # <<>> /\ r = Head(queue) /\ queue' = Tail(queue)
      /\ queue \in Seq(Reactors) /\ Distinct(queue) /\ Elements(queue) \subseteq Members
      /\ \A i, j \in DOMAIN queue : i < j => \A t \in externals[queue[i]] : owner[t] # queue[j]
      /\ \A q \in Members \ Elements(queue) : \A t \in externals[q] : owner[t] \notin Elements(queue)
  BY DEF Dequeue, TickInv, TickTypeOK, QueueInv, ServersFirst, Processed
<1>2. /\ queue' \in Seq(Reactors) /\ Len(queue') = Len(queue) - 1 /\ Len(queue) > 0
      /\ \A i \in 1 .. Len(queue) - 1 : queue'[i] = queue[i + 1]
      /\ r = queue[1]
      /\ Elements(queue) = Elements(queue') \cup {r}
      /\ Distinct(queue') /\ r \notin Elements(queue')
  BY <1>1, TailElements
<1>3. DOMAIN queue = 1 .. Len(queue) /\ DOMAIN queue' = 1 .. Len(queue) - 1 /\ Len(queue) \in Nat
  BY <1>1, <1>2, LenProperties
<1>4. ASSUME NEW i \in DOMAIN queue', NEW j \in DOMAIN queue', i < j, NEW t \in externals[queue'[i]]
      PROVE  owner[t] # queue'[j]
  <2>1. i + 1 \in DOMAIN queue /\ j + 1 \in DOMAIN queue /\ i + 1 < j + 1
    BY <1>3, <1>4
  <2>2. queue'[i] = queue[i + 1] /\ queue'[j] = queue[j + 1]
    BY <1>2, <1>3
  <2> QED
    BY <1>1, <1>4, <2>1, <2>2
<1>5. ASSUME NEW t \in externals[r], owner[t] \in Elements(queue')
      PROVE  FALSE
  <2>1. PICK j \in DOMAIN queue' : owner[t] = queue'[j]
    BY <1>5 DEF Elements
  <2>2. 1 \in DOMAIN queue /\ j + 1 \in DOMAIN queue /\ 1 < j + 1 /\ queue'[j] = queue[j + 1]
    BY <1>2, <1>3
  <2> QED
    BY <1>1, <1>2, <1>5, <2>1, <2>2
<1>6. ASSUME NEW q \in Members \ Elements(queue'), NEW t \in externals[q]
      PROVE  owner[t] \notin Elements(queue')
  <2>1. CASE q = r
    BY <1>5, <2>1
  <2>2. CASE q # r
    BY <1>1, <1>2, <2>2
  <2> QED
    BY <2>1, <2>2
<1>7. r \in Members
  BY <1>1, <1>2
<1> QED
  BY <1>1, <1>2, <1>4, <1>6, <1>7

(* The clients of what r publishes wait behind r: those that do not have   *)
(* already been synchronized depend on nothing in the list.                *)
LEMMA ClientsWait ==
  ASSUME TickInv, NEW r, Dequeue(r),
         NEW t \in Timelines, owner[t] = r, NEW q \in Reactors, q \in clients[t]
  PROVE  q # r /\ q \in Elements(queue')
<1>1. BoardInv /\ r \in Members /\ r \in Elements(queue)
  BY Dequeuing DEF TickInv
<1>2. t \in externals[q] /\ q # r /\ q \in Members
  BY <1>1, GraphFacts
<1>3. q \in Elements(queue)
  BY <1>1, <1>2, Dequeuing
<1> QED
  BY <1>2, <1>3, Dequeuing

LEMMA SynchronizeReactorKeeps ==
  ASSUME TickInv, NEW r \in Reactors, SynchronizeReactor(r)
  PROVE  TickInv'
<1>1. /\ Dequeue(r) /\ Synchronize(r) /\ phase' = phase /\ stack' = stack /\ discovered' = discovered
      /\ unseen' = {p \in (unseen \ Collected(r)) \cup (Reactors \X Flushed(r)) : p[1] \in clients'[p[2]]}
      /\ cause' = [t \in Timelines |->
           IF t \in Flushed(r) THEN IF owner[t] = r THEN "regular" ELSE "foreign" ELSE cause[t]]
      /\ TickTypeOK /\ BoardInv /\ SeenInv /\ OnceInv
  <2>1. \A t \in Timelines : [u \in Timelines |-> IF owner[u] = r THEN "regular" ELSE "foreign"][t]
                             = IF owner[t] = r THEN "regular" ELSE "foreign"
    OBVIOUS
  <2> QED
    BY <2>1 DEF SynchronizeReactor, Published, search, TickInv
<1>2. /\ life' = life /\ internals' = internals /\ externals' = externals /\ owner' = owner
      /\ clients' = clients /\ now' = now /\ Members' = Members
      /\ obsDate' = [t \in Timelines |-> IF t \in Flushed(r) THEN now ELSE obsDate[t]]
  BY <1>1 DEF Synchronize, Flushed, ownership, subscriptions, Members
<1>3. BoardInv'
  <2>1. GraphInv'
    BY <1>1, GraphInvStep DEF BoardInv, Next
  <2>2. BareUnlessMember'
    BY <1>1, <1>2 DEF BoardInv, BareUnlessMember
  <2>3. Dated'
    BY <1>1, <1>2, GraphFacts DEF Dated
  <2> QED
    BY <2>1, <2>2, <2>3 DEF BoardInv
<1>4. Flushed(r) \in SUBSET Timelines
  <2>1. updates \in [Reactors -> SUBSET Timelines]
    BY <1>1, BoardTypes DEF TypeOK
  <2> QED
    BY <2>1 DEF Flushed
<1>5. /\ unseen' \subseteq Reactors \X Timelines
      /\ \A q \in Reactors, t \in Timelines : <<q, t>> \in unseen' =>
           /\ q \in clients[t]
           /\ t \in Flushed(r) \/ (<<q, t>> \in unseen /\ <<q, t>> \notin Collected(r))
  BY <1>1, <1>2, <1>4, Publishing
<1>6. /\ phase = "synchronize" /\ r \in Members /\ r \in Elements(queue)
      /\ queue' \in Seq(Reactors) /\ Distinct(queue') /\ r \notin Elements(queue')
      /\ Elements(queue) = Elements(queue') \cup {r} /\ Elements(queue) \subseteq Members
  BY <1>1, Dequeuing
<1>7. OwnTypes'
  <2>1. cause \in [Timelines -> Causes]
    BY <1>1 DEF TickTypeOK
  <2>2. cause' \in [Timelines -> Causes]
    BY <1>1, <2>1 DEF Causes
  <2> QED
    BY <1>1, <1>5, <1>6, <2>2, Types DEF OwnTypes
<1>8. QueueInv' /\ SearchInv' /\ AbortMeansCycle'
  BY <1>1, <1>2, <1>6 DEF QueueInv, SearchInv, AbortMeansCycle
<1>9. ServersFirst'
  BY <1>1, <1>2, Dequeuing DEF ServersFirst
<1>10. Processed'
  BY <1>1, <1>2, Dequeuing DEF Processed
<1>11. SeenInv'
  <2> SUFFICES ASSUME NEW q \in Reactors, NEW t \in Timelines, <<q, t>> \in unseen'
               PROVE  /\ q \in clients[t]
                      /\ cause'[t] = "regular" => obsDate'[t] = now /\ q \in Elements(queue')
    BY <1>1, <1>2, <1>6 DEF SeenInv, SeenAt
  <2>1. q \in clients[t]
    BY <1>5
  <2>2. CASE t \in Flushed(r)
    <3>1. cause'[t] = "regular" => owner[t] = r
      BY <1>1, <2>2
    <3>2. obsDate'[t] = now
      BY <1>2, <2>2
    <3> QED
      BY <1>1, <2>1, <3>1, <3>2, ClientsWait
  <2>3. CASE t \notin Flushed(r)
    <3>1. /\ <<q, t>> \in unseen /\ <<q, t>> \notin Collected(r)
          /\ cause'[t] = cause[t] /\ obsDate'[t] = obsDate[t]
      BY <1>1, <1>2, <1>5, <2>3
    <3>2. cause[t] = "regular" => obsDate[t] = now /\ q \in Elements(queue)
      BY <1>1, <1>6, <3>1 DEF SeenInv, SeenAt
    <3>3. q = r => obsDate[t] # now
      <4>1. t \in externals[q]
        BY <1>1, <2>1, GraphFacts
      <4> QED
        BY <3>1, <4>1 DEF Collected
    <3> QED
      BY <1>6, <2>1, <3>1, <3>2, <3>3
  <2> QED
    BY <2>2, <2>3
<1>12. OnceInv'
  <2> SUFFICES ASSUME NEW t \in Timelines, cause'[t] = "regular", obsDate'[t] = now, owner[t] # NoReactor
               PROVE  owner[t] \notin Elements(queue')
    BY <1>1, <1>2, <1>6 DEF OnceInv, OnceAt
  <2>1. CASE t \in Flushed(r)
    BY <1>1, <1>6, <2>1
  <2>2. CASE t \notin Flushed(r)
    <3>1. cause[t] = "regular" /\ obsDate[t] = now
      BY <1>1, <1>2, <2>2
    <3> QED
      BY <1>1, <1>6, <3>1 DEF OnceInv, OnceAt
  <2> QED
    BY <2>1, <2>2
<1> QED
  BY <1>3, <1>7, <1>8, <1>9, <1>10, <1>11, <1>12, Together

(* A failure publishes Failed on the Internals of r, for clients that are  *)
(* still to come.                                                          *)
LEMMA FailReactorKeeps ==
  ASSUME TickInv, NEW r \in Reactors, FailReactor(r)
  PROVE  TickInv'
<1>1. /\ Dequeue(r) /\ KillReactor(r) /\ phase' = phase /\ stack' = stack /\ discovered' = discovered
      /\ unseen' = {p \in (unseen \ Collected(r)) \cup (Reactors \X internals[r]) : p[1] \in clients'[p[2]]}
      /\ cause' = [t \in Timelines |-> IF t \in internals[r] THEN "regular" ELSE cause[t]]
      /\ TickTypeOK /\ BoardInv /\ SeenInv /\ OnceInv
  BY DEF FailReactor, Published, Regular, search, TickInv
<1>2. BoardInv' /\ Detached(r)
  BY <1>1, Detaching
<1>3. Members' = Members \ {r}
  BY <1>2 DEF Detached, Members
<1>4. internals[r] \in SUBSET Timelines
  BY <1>1, GraphFacts
<1>5. /\ unseen' \subseteq Reactors \X Timelines
      /\ \A q \in Reactors, t \in Timelines : <<q, t>> \in unseen' =>
           /\ q \in clients'[t]
           /\ t \in internals[r] \/ (<<q, t>> \in unseen /\ <<q, t>> \notin Collected(r))
  BY <1>1, <1>4, Publishing
<1>6. /\ phase = "synchronize" /\ r \in Members /\ r \in Elements(queue)
      /\ queue' \in Seq(Reactors) /\ Distinct(queue') /\ r \notin Elements(queue')
      /\ Elements(queue) = Elements(queue') \cup {r} /\ Elements(queue) \subseteq Members
      /\ NoReactor \notin Elements(queue')
  BY <1>1, Dequeuing, GraphAssumption DEF Members
<1>7. OwnTypes'
  <2>1. cause \in [Timelines -> Causes]
    BY <1>1 DEF TickTypeOK
  <2>2. cause' \in [Timelines -> Causes]
    BY <1>1, <2>1 DEF Causes
  <2> QED
    BY <1>1, <1>5, <1>6, <2>2, Types DEF OwnTypes
<1>8. QueueInv' /\ SearchInv' /\ AbortMeansCycle'
  BY <1>1, <1>3, <1>6 DEF QueueInv, SearchInv, AbortMeansCycle
<1>9. ASSUME NEW q \in Members \ {r}, NEW t \in externals'[q]
      PROVE  t \in externals[q] /\ owner'[t] \in {owner[t], NoReactor}
  <2>1. q \in Reactors /\ q # r
    BY DEF Members
  <2>2. t \in externals[q] /\ t \in Timelines
    BY <1>1, <1>2, <2>1, GraphFacts DEF Detached
  <2> QED
    BY <1>2, <2>2 DEF Detached
<1>10. ServersFirst'
  <2> SUFFICES ASSUME NEW i \in DOMAIN queue', NEW j \in DOMAIN queue', i < j,
                      NEW t \in externals'[queue'[i]]
               PROVE  owner'[t] # queue'[j]
    BY DEF ServersFirst
  <2>1. queue'[i] \in Elements(queue') /\ queue'[j] \in Elements(queue')
    BY DEF Elements
  <2>2. t \in externals[queue'[i]] /\ owner'[t] \in {owner[t], NoReactor}
    BY <1>6, <1>9, <2>1
  <2> QED
    BY <1>1, <1>6, <2>1, <2>2, Dequeuing
<1>11. Processed'
  <2> SUFFICES ASSUME NEW q \in Members' \ Elements(queue'), NEW t \in externals'[q]
               PROVE  owner'[t] \notin Elements(queue')
    BY DEF Processed
  <2>1. q \in Members \ {r} /\ q \in Members \ Elements(queue')
    BY <1>3
  <2>2. t \in externals[q] /\ owner'[t] \in {owner[t], NoReactor}
    BY <1>9, <2>1
  <2> QED
    BY <1>1, <1>6, <2>1, <2>2, Dequeuing
<1>12. SeenInv'
  <2> SUFFICES ASSUME NEW q \in Reactors, NEW t \in Timelines, <<q, t>> \in unseen'
               PROVE  /\ q \in clients'[t]
                      /\ cause'[t] = "regular" => obsDate'[t] = now' /\ q \in Elements(queue')
    BY <1>1, <1>6 DEF SeenInv, SeenAt
  <2>1. q \in clients'[t] /\ q \in clients[t] /\ q # r
    BY <1>2, <1>5 DEF Detached
  <2>2. CASE t \in internals[r]
    <3>1. owner[t] = r /\ obsDate'[t] = now'
      BY <1>1, <1>2, <2>2, GraphFacts DEF Detached
    <3> QED
      BY <1>1, <2>1, <3>1, ClientsWait
  <2>3. CASE t \notin internals[r]
    <3>1. <<q, t>> \in unseen /\ cause'[t] = cause[t] /\ obsDate'[t] = obsDate[t] /\ now' = now
      BY <1>1, <1>2, <1>5, <2>3 DEF Detached
    <3>2. cause[t] = "regular" => obsDate[t] = now /\ q \in Elements(queue)
      BY <1>1, <1>6, <3>1 DEF SeenInv, SeenAt
    <3> QED
      BY <1>6, <2>1, <3>1, <3>2
  <2> QED
    BY <2>2, <2>3
<1>13. OnceInv'
  <2> SUFFICES ASSUME NEW t \in Timelines, cause'[t] = "regular", obsDate'[t] = now', owner'[t] # NoReactor
               PROVE  owner'[t] \notin Elements(queue')
    BY <1>1, <1>6 DEF OnceInv, OnceAt
  <2>1. t \notin internals[r] /\ owner'[t] = owner[t] /\ obsDate[t] = now
    BY <1>2 DEF Detached
  <2>2. cause[t] = "regular"
    BY <1>1, <2>1
  <2> QED
    BY <1>1, <1>6, <2>1, <2>2 DEF OnceInv, OnceAt
<1> QED
  BY <1>2, <1>7, <1>8, <1>10, <1>11, <1>12, <1>13, Together

LEMMA StartDeliberationKeeps ==
  ASSUME TickInv, StartDeliberation
  PROVE  TickInv'
<1>1. /\ phase = "synchronize" /\ queue = <<>> /\ phase' = "deliberate" /\ UNCHANGED graphVars
      /\ stack' = stack /\ discovered' = discovered /\ queue' = queue
      /\ unseen' = unseen /\ cause' = cause
      /\ TickTypeOK /\ BoardInv /\ SeenInv
  BY DEF StartDeliberation, histories, search, TickInv
<1>2. BoardInv' /\ clients' = clients
  BY <1>1, GraphStays DEF graphVars, subscriptions
<1>3. OwnTypes'
  BY <1>1, Types DEF OwnTypes, Phases
<1>4. QueueInv' /\ ServersFirst' /\ Processed' /\ SearchInv' /\ AbortMeansCycle' /\ OnceInv'
  BY <1>1, EmptyQueue DEF QueueInv, ServersFirst, Processed, SearchInv, AbortMeansCycle, OnceInv, OnceAt
<1>5. SeenInv'
  <2>1. Elements(queue) = {}
    BY <1>1, EmptyQueue
  <2> QED
    BY <1>1, <1>2, <2>1 DEF SeenInv, SeenAt
<1> QED
  BY <1>2, <1>3, <1>4, <1>5, Together

-----------------------------------------------------------------------------
(* What reactors, and the user, do                                         *)

(* A step that leaves relations and dates alone.                           *)
LEMMA RelationsStay ==
  ASSUME TickInv, BoardInv', UNCHANGED tickVars,
         UNCHANGED <<owner, clients, externals, obsDate, now, life>>
  PROVE  TickInv'
<1>1. /\ phase' = phase /\ stack' = stack /\ discovered' = discovered /\ queue' = queue
      /\ unseen' = unseen /\ cause' = cause /\ Members' = Members
      /\ TickTypeOK /\ QueueInv /\ ServersFirst /\ Processed /\ SearchInv /\ AbortMeansCycle
      /\ SeenInv /\ OnceInv
  BY DEF tickVars, search, histories, Members, TickInv
<1>2. OwnTypes'
  BY <1>1, Types DEF OwnTypes
<1>3. QueueInv' /\ ServersFirst' /\ Processed' /\ AbortMeansCycle'
  BY <1>1 DEF QueueInv, ServersFirst, Processed, AbortMeansCycle
<1>4. SearchInv'
  <2>1. \A i \in 1 .. Len(stack) - 1 : Link(stack[i], stack[i + 1]) => Link(stack[i], stack[i + 1])'
    BY <1>1 DEF Link
  <2>2. Explored' = Explored
    BY <1>1 DEF Explored
  <2> QED
    BY <1>1, <2>1, <2>2 DEF SearchInv
<1>5. SeenInv' /\ OnceInv'
  BY <1>1 DEF SeenInv, SeenAt, OnceInv, OnceAt
<1> QED
  BY <1>2, <1>3, <1>4, <1>5, Together

LEMMA ObserveKeeps ==
  ASSUME TickInv, NEW r \in Reactors, NEW t \in Timelines, NEW v \in Values, Observe(r, t, v)
  PROVE  TickInv'
<1>1. PostObservation(r, t, v) /\ UNCHANGED tickVars /\ BoardInv
  BY DEF Observe, TickInv
<1>2. /\ UNCHANGED <<owner, clients, externals, obsDate, now, life>> /\ internals' = internals
  BY <1>1 DEF PostObservation, ownership, subscriptions
<1>3. GraphInv'
  BY <1>1, GraphInvStep DEF BoardInv, Next
<1>4. BareUnlessMember' /\ Dated'
  BY <1>1, <1>2 DEF BoardInv, BareUnlessMember, Dated
<1> QED
  BY <1>1, <1>2, <1>3, <1>4, RelationsStay DEF BoardInv

(* Everything has been collected when deliberation starts; what happens    *)
(* then is not regular.                                                    *)
LEMMA Deliberating ==
  ASSUME TickInv, phase = "deliberate", BoardInv', NEW S \in SUBSET Timelines,
         unseen' = {p \in (unseen \ {}) \cup (Reactors \X S) : p[1] \in clients'[p[2]]},
         cause' = [t \in Timelines |-> IF t \in S THEN "given up" ELSE cause[t]],
         UNCHANGED <<phase, search, queue>>
  PROVE  TickInv'
<1>1. /\ phase' = "deliberate" /\ stack' = stack /\ discovered' = discovered /\ queue' = queue
      /\ queue = <<>> /\ TickTypeOK /\ SeenInv /\ QueueInv
  BY DEF search, TickInv, QueueInv
<1>2. /\ unseen' \subseteq Reactors \X Timelines
      /\ \A q \in Reactors, t \in Timelines : <<q, t>> \in unseen' =>
           q \in clients'[t] /\ (t \in S \/ <<q, t>> \in unseen)
  BY <1>1, Publishing
<1>3. OwnTypes'
  <2>1. cause \in [Timelines -> Causes]
    BY <1>1 DEF TickTypeOK
  <2>2. cause' \in [Timelines -> Causes]
    BY <2>1 DEF Causes
  <2> QED
    BY <1>1, <1>2, <2>2, Types DEF OwnTypes
<1>4. QueueInv' /\ ServersFirst' /\ Processed' /\ SearchInv' /\ AbortMeansCycle' /\ OnceInv'
  BY <1>1, EmptyQueue DEF QueueInv, ServersFirst, Processed, SearchInv, AbortMeansCycle, OnceInv, OnceAt
<1>5. SeenInv'
  <2> SUFFICES ASSUME NEW q \in Reactors, NEW t \in Timelines, <<q, t>> \in unseen'
               PROVE  q \in clients'[t] /\ cause'[t] # "regular"
    BY DEF SeenInv, SeenAt
  <2>1. CASE t \in S
    BY <1>2, <2>1
  <2>2. CASE t \notin S
    <3>1. <<q, t>> \in unseen /\ cause'[t] = cause[t]
      BY <1>2, <2>2
    <3> QED
      BY <1>1, <1>2, <3>1 DEF SeenInv, SeenAt
  <2> QED
    BY <2>1, <2>2
<1> QED
  BY <1>3, <1>4, <1>5, Together

LEMMA DeclareKeeps ==
  ASSUME TickInv, NEW r \in Reactors, NEW t \in Timelines, Declare(r, t)
  PROVE  TickInv'
<1>1. /\ phase = "deliberate" /\ r \in Members /\ UNCHANGED <<phase, search, queue>>
      /\ unseen' = {p \in (unseen \ {}) \cup (Reactors \X {}) : p[1] \in clients'[p[2]]}
      /\ cause' = [u \in Timelines |-> IF u \in {} THEN "given up" ELSE cause[u]]
      /\ BoardInv
  BY DEF Declare, Published, TickInv
<1>2. Declaration(r, t)
  BY DEF Declare, Declaration
<1>3. GraphInv'
  BY <1>1, <1>2, GraphInvStep DEF BoardInv, Next
<1>4. /\ life' = life /\ now' = now /\ now \in Nat
      /\ \A q \in Reactors : q # r => internals'[q] = internals[q] /\ externals'[q] = externals[q]
      /\ \A u \in Timelines : obsDate'[u] \in {obsDate[u], now}
  <2>1. /\ internals \in [Reactors -> SUBSET Timelines] /\ externals \in [Reactors -> SUBSET Timelines]
        /\ obsDate \in [Timelines -> Nat] /\ now \in Nat
    BY <1>1, BoardTypes DEF TypeOK
  <2>2. CASE \E f \in OwnerFlags : Provide(r, t, f)
    BY <2>1, <2>2 DEF Provide, Unsubscribe, Mention
  <2>3. CASE \E f \in ClientFlags : Use(r, t, f)
    BY <2>1, <2>3 DEF Use, Subscribe, Mention, ownership
  <2>4. CASE Unuse(r, t)
    BY <2>1, <2>4 DEF Unuse, Unsubscribe, ownership, observations
  <2> QED
    BY <2>2, <2>3, <2>4 DEF Declare
<1>5. BareUnlessMember'
  BY <1>1, <1>4 DEF BoardInv, BareUnlessMember, Members
<1>6. Dated'
  BY <1>1, <1>4 DEF BoardInv, Dated
<1>7. BoardInv'
  BY <1>3, <1>5, <1>6 DEF BoardInv
<1>8. PICK S \in SUBSET Timelines : S = {}
  OBVIOUS
<1>9. /\ unseen' = {p \in (unseen \ {}) \cup (Reactors \X S) : p[1] \in clients'[p[2]]}
      /\ cause' = [u \in Timelines |-> IF u \in S THEN "given up" ELSE cause[u]]
  BY <1>1, <1>8
<1> QED
  BY <1>1, <1>7, <1>9, Deliberating

LEMMA GiveUpKeeps ==
  ASSUME TickInv, NEW r \in Reactors, NEW t \in Timelines, GiveUp(r, t)
  PROVE  TickInv'
<1>1. /\ phase = "deliberate" /\ Unprovide(r, t) /\ UNCHANGED <<phase, search, queue>>
      /\ unseen' = {p \in (unseen \ {}) \cup (Reactors \X {t}) : p[1] \in clients'[p[2]]}
      /\ cause' = [u \in Timelines |-> IF u \in {t} THEN "given up" ELSE cause[u]]
      /\ BoardInv
  BY DEF GiveUp, Published, Withdrawn, TickInv
<1>2. GraphInv'
  BY <1>1, GraphInvStep DEF BoardInv, Next, Declaration
<1>3. /\ life' = life /\ now' = now /\ now \in Nat /\ externals' = externals
      /\ \A q \in Reactors : internals'[q] \subseteq internals[q]
      /\ \A u \in Timelines : obsDate'[u] \in {obsDate[u], now}
  <2>1. internals \in [Reactors -> SUBSET Timelines] /\ now \in Nat
    BY <1>1, BoardTypes DEF TypeOK
  <2> QED
    BY <1>1, <2>1 DEF Unprovide, Unassign, subscriptions
<1>4. BareUnlessMember'
  BY <1>1, <1>3 DEF BoardInv, BareUnlessMember
<1>5. Dated'
  <2> SUFFICES ASSUME NEW u \in Timelines PROVE obsDate'[u] <= now'
    BY DEF Dated
  <2>1. BoardInv
    BY <1>1
  <2>2. obsDate[u] <= now /\ now <= now
    BY <2>1, <1>3, GraphFacts
  <2> QED
    BY <1>3, <2>2
<1> QED
  BY <1>1, <1>2, <1>4, <1>5, Deliberating DEF BoardInv

LEMMA KillBetweenTicksKeeps ==
  ASSUME TickInv, NEW r \in Reactors, KillBetweenTicks(r)
  PROVE  TickInv'
<1>1. /\ phase = "start" /\ phase' = phase /\ queue' = queue /\ queue = <<>>
      /\ KillReactor(r) /\ stack' = stack /\ discovered' = discovered
      /\ unseen' = {p \in (unseen \ {}) \cup (Reactors \X internals[r]) : p[1] \in clients'[p[2]]}
      /\ cause' = [t \in Timelines |-> IF t \in internals[r] THEN "regular" ELSE cause[t]]
      /\ TickTypeOK /\ BoardInv /\ SeenInv /\ OnceInv
  BY DEF KillBetweenTicks, Published, Regular, search, TickInv, QueueInv
<1>2. BoardInv' /\ Detached(r)
  BY <1>1, Detaching
<1>3. internals[r] \in SUBSET Timelines
  BY <1>1, GraphFacts
<1>4. /\ unseen' \subseteq Reactors \X Timelines
      /\ \A q \in Reactors, t \in Timelines : <<q, t>> \in unseen' =>
           q \in clients'[t] /\ (t \in internals[r] \/ <<q, t>> \in unseen)
  BY <1>1, <1>3, Publishing
<1>5. OwnTypes'
  <2>1. cause \in [Timelines -> Causes]
    BY <1>1 DEF TickTypeOK
  <2>2. cause' \in [Timelines -> Causes]
    BY <1>1, <2>1 DEF Causes
  <2> QED
    BY <1>1, <1>4, <2>2, Types DEF OwnTypes
<1>6. QueueInv' /\ ServersFirst' /\ Processed' /\ SearchInv' /\ AbortMeansCycle'
  BY <1>1, EmptyQueue DEF QueueInv, ServersFirst, Processed, SearchInv, AbortMeansCycle
<1>7. SeenInv'
  <2> SUFFICES ASSUME NEW q \in Reactors, NEW t \in Timelines, <<q, t>> \in unseen'
               PROVE  q \in clients'[t] /\ (cause'[t] = "regular" => obsDate'[t] = now')
    BY <1>1 DEF SeenInv, SeenAt
  <2>1. q \in clients'[t]
    BY <1>4
  <2>2. CASE t \in internals[r]
    BY <1>2, <2>1, <2>2 DEF Detached
  <2>3. CASE t \notin internals[r]
    <3>1. <<q, t>> \in unseen /\ cause'[t] = cause[t] /\ obsDate'[t] = obsDate[t] /\ now' = now
      BY <1>1, <1>2, <1>4, <2>3 DEF Detached
    <3> QED
      BY <1>1, <2>1, <3>1 DEF SeenInv, SeenAt
  <2> QED
    BY <2>2, <2>3
<1>8. OnceInv'
  <2> SUFFICES ASSUME NEW t \in Timelines, cause'[t] = "regular", obsDate'[t] = now', owner'[t] # NoReactor
               PROVE  FALSE
    BY DEF OnceInv, OnceAt
  <2>1. t \notin internals[r] /\ owner'[t] = owner[t] /\ obsDate[t] = now
    BY <1>2 DEF Detached
  <2>2. cause[t] = "regular"
    BY <1>1, <2>1
  <2> QED
    BY <1>1, <2>1, <2>2 DEF OnceInv, OnceAt
<1> QED
  BY <1>2, <1>5, <1>6, <1>7, <1>8, Together

(* Nothing shows the date of a tick before that tick.                      *)
LEMMA NextTickKeeps ==
  ASSUME TickInv, NextTick
  PROVE  TickInv'
<1>1. /\ phase = "deliberate" /\ phase' = "start" /\ UpdateTick /\ queue = <<>>
      /\ stack' = stack /\ discovered' = discovered /\ queue' = queue
      /\ unseen' = unseen /\ cause' = cause
      /\ TickTypeOK /\ BoardInv /\ SeenInv
  BY DEF NextTick, histories, search, TickInv, QueueInv
<1>2. /\ now' = now + 1 /\ life' = life /\ internals' = internals /\ externals' = externals
      /\ clients' = clients /\ obsDate' = obsDate
  BY <1>1 DEF UpdateTick, ownership, subscriptions, observations
<1>3. \A t \in Timelines : obsDate'[t] \in Nat /\ obsDate'[t] < now'
  BY <1>1, <1>2, GraphFacts
<1>4. BoardInv'
  <2>1. GraphInv'
    BY <1>1, GraphInvStep DEF BoardInv, Next
  <2>2. BareUnlessMember'
    BY <1>1, <1>2 DEF BoardInv, BareUnlessMember
  <2>3. now' \in Nat
    BY <1>1, <1>2, GraphFacts
  <2>4. Dated'
    BY <1>3, <2>3 DEF Dated
  <2> QED
    BY <2>1, <2>2, <2>4 DEF BoardInv
<1>5. OwnTypes'
  BY <1>1, Types DEF OwnTypes, Phases
<1>6. QueueInv' /\ ServersFirst' /\ Processed' /\ SearchInv' /\ AbortMeansCycle'
  BY <1>1, EmptyQueue DEF QueueInv, ServersFirst, Processed, SearchInv, AbortMeansCycle
<1>7. SeenInv'
  BY <1>1, <1>2 DEF SeenInv, SeenAt
<1>8. OnceInv'
  <2>1. \A t \in Timelines : obsDate'[t] # now'
    BY <1>1, <1>2, GraphFacts
  <2> QED
    BY <2>1 DEF OnceInv, OnceAt
<1> QED
  BY <1>4, <1>5, <1>6, <1>7, <1>8, Together

LEMMA NextInv == TickInv /\ [TickNext]_vars => TickInv'
<1> SUFFICES ASSUME TickInv, [TickNext]_vars PROVE TickInv'
  OBVIOUS
<1>1. CASE UNCHANGED vars
  <2>1. UNCHANGED graphVars /\ UNCHANGED tickVars
    BY <1>1 DEF vars
  <2>2. UNCHANGED <<owner, clients, externals, obsDate, now, life>>
    BY <2>1 DEF graphVars, ownership, subscriptions, observations
  <2>3. BoardInv'
    BY <2>1, GraphStays DEF TickInv
  <2> QED
    BY <2>1, <2>2, <2>3, RelationsStay
<1>2. CASE SearchStep
  BY <1>2, StartSearchKeeps, StartReactorKeeps, RejectReactorKeeps, FinishReactorKeeps,
     DetectCycleKeeps, CleanupKeeps DEF SearchStep
<1>3. CASE SynchronizeStep
  BY <1>3, SynchronizeReactorKeeps, FailReactorKeeps, StartDeliberationKeeps DEF SynchronizeStep
<1>4. CASE \E r \in Reactors, t \in Timelines, v \in Values : Observe(r, t, v)
  BY <1>4, ObserveKeeps
<1>5. CASE \E r \in Reactors, t \in Timelines : Declare(r, t) \/ GiveUp(r, t)
  BY <1>5, DeclareKeeps, GiveUpKeeps
<1>6. CASE \E r \in Reactors : KillBetweenTicks(r)
  BY <1>6, KillBetweenTicksKeeps
<1>7. CASE NextTick
  BY <1>7, NextTickKeeps
<1> QED
  BY <1>1, <1>2, <1>3, <1>4, <1>5, <1>6, <1>7 DEF TickNext

(* Once in a tick: what shows something of this tick already has been      *)
(* through its owner, or has lost it.                                      *)
LEMMA Once ==
  ASSUME TickInv, [TickNext]_vars, NEW t \in Timelines,
         lastObs'[t] # lastObs[t], cause[t] = "regular", cause'[t] = "regular"
  PROVE  obsDate[t] < now
<1> SUFFICES ASSUME obsDate[t] = now PROVE FALSE
  BY GraphFacts DEF TickInv
<1>1. BoardInv /\ OnceInv
  BY DEF TickInv
<1>2. \A r \in Reactors : t \in internals[r] => owner[t] = r /\ owner[t] # NoReactor
  BY <1>1, GraphFacts, GraphAssumption
<1>3. owner[t] # NoReactor =>
        phase = "deliberate" \/ (phase = "synchronize" /\ owner[t] \notin Elements(queue))
  BY <1>1 DEF OnceInv, OnceAt
<1>4. ~UNCHANGED lastObs
  OBVIOUS
<1>5. ASSUME NEW r \in Reactors, RejectReactor(r) PROVE FALSE
  <2>1. phase = "search" /\ Isolate(r)
    BY <1>5 DEF RejectReactor, Reach
  <2>2. Detached(r)
    BY <1>1, <2>1, Detaching
  <2> QED
    BY <1>2, <1>3, <2>1, <2>2 DEF Detached
<1>6. ASSUME NEW r \in Reactors, SynchronizeReactor(r) PROVE FALSE
  <2>1. /\ Dequeue(r) /\ Synchronize(r)
        /\ \A u \in Flushed(r) \cap Timelines :
             cause'[u] = [w \in Timelines |-> IF owner[w] = r THEN "regular" ELSE "foreign"][u]
    BY <1>6 DEF SynchronizeReactor, Published
  <2>2. t \in Flushed(r)
    BY <2>1 DEF Synchronize, Flushed
  <2>3. owner[t] = r
    BY <2>1, <2>2
  <2>4. phase = "synchronize" /\ r \in Elements(queue)
    BY <2>1, Dequeuing
  <2> QED
    BY <1>3, <2>3, <2>4, GraphAssumption
<1>7. ASSUME NEW r \in Reactors, FailReactor(r) PROVE FALSE
  <2>1. Dequeue(r) /\ KillReactor(r)
    BY <1>7 DEF FailReactor
  <2>2. Detached(r)
    BY <1>1, <2>1, Detaching
  <2>3. phase = "synchronize" /\ r \in Elements(queue)
    BY <2>1, Dequeuing
  <2> QED
    BY <1>2, <1>3, <2>2, <2>3 DEF Detached
<1>8. ASSUME NEW r \in Reactors, NEW u \in Timelines, Declare(r, u) PROVE FALSE
  BY <1>4, <1>8 DEF Declare, Provide, Use, Unuse, Mention, observations
<1>9. ASSUME NEW r \in Reactors, NEW u \in Timelines, GiveUp(r, u) PROVE FALSE
  <2>1. t = u
    BY <1>9 DEF GiveUp, Unprovide, Unassign
  <2>2. cause'[u] = "given up"
    BY <1>9 DEF GiveUp, Published, Withdrawn
  <2> QED
    BY <2>1, <2>2
<1>10. ASSUME NEW r \in Reactors, KillBetweenTicks(r) PROVE FALSE
  <2>1. phase = "start" /\ KillReactor(r)
    BY <1>10 DEF KillBetweenTicks
  <2>2. Detached(r)
    BY <1>1, <2>1, Detaching
  <2> QED
    BY <1>2, <1>3, <2>1, <2>2 DEF Detached
<1>11. ASSUME NEW r \in Reactors, NEW u \in Timelines, NEW v \in Values, Observe(r, u, v) PROVE FALSE
  BY <1>4, <1>11 DEF Observe, PostObservation
<1>12. ~SearchStep
  BY <1>4, <1>5
     DEF SearchStep, StartSearch, StartReactor, FinishReactor, DetectCycle, Cleanup, graphVars, observations
<1>13. ~SynchronizeStep /\ ~NextTick /\ ~UNCHANGED vars
  BY <1>4, <1>6, <1>7
     DEF SynchronizeStep, StartDeliberation, NextTick, UpdateTick, vars, graphVars, observations
<1> QED
  BY <1>8, <1>9, <1>10, <1>11, <1>12, <1>13 DEF TickNext

-----------------------------------------------------------------------------
(* The theorems                                                            *)

LEMMA TickInvariance == TickSpec => []TickInv
  BY InitInv, NextInv, PTL DEF TickSpec

(* The agent and the graph keep the types TickTypeOK gives them (the       *)
(* structures of doNext and sync_scheduller).                              *)
THEOREM TickTypeCorrect == TickSpec => []TickTypeOK
<1>1. TickInv => TickTypeOK
  BY DEF TickInv
<1> QED
  BY <1>1, TickInvariance, PTL

(* The scheduling list puts servers before clients, whatever is isolated   *)
(* or killed while it is built and consumed (finish_vertex).               *)
THEOREM ServersAlwaysFirst == TickSpec => []ServersFirst
<1>1. TickInv => ServersFirst
  BY DEF TickInv
<1> QED
  BY <1>1, TickInvariance, PTL

(* No reactor of the graph is skipped by the synchronizations, or gets two *)
(* of them (sort_reactors_sync, is_valid).                                 *)
THEOREM EveryoneAlwaysScheduled == TickSpec => []EveryoneScheduled
<1>1. TickInv => EveryoneScheduled
  BY DEF TickInv, QueueInv, SearchInv, Explored, Distinct, EveryoneScheduled, Members
<1> QED
  BY <1>1, TickInvariance, PTL

(* CycleDetected is only thrown when some reactors really depend on each   *)
(* other (back_edge).                                                      *)
THEOREM AbortsOnCyclesOnly == TickSpec => []AbortMeansCycle
<1>1. TickInv => AbortMeansCycle
  BY DEF TickInv
<1> QED
  BY <1>1, TickInvariance, PTL

(* Each client collects every regular change in the tick it is dated of:   *)
(* collect_obs_sync never comes too early (doSynchronize).                 *)
THEOREM NothingLost == TickSpec => []NothingUnseen
<1>1. TickInv => NothingUnseen
  <2> SUFFICES ASSUME TickInv, NEW p \in unseen, cause[p[2]] = "regular" PROVE InTime(p)
    BY DEF NothingUnseen
  <2>1. PICK r \in Reactors, t \in Timelines : p = <<r, t>>
    BY DEF TickInv, TickTypeOK
  <2>2. SeenAt(r, t)
    BY DEF TickInv, SeenInv
  <2> QED
    BY <2>1, <2>2 DEF SeenAt, InTime
<1> QED
  BY <1>1, TickInvariance, PTL

(* A timeline publishes once in a tick (timeline::synchronize, unassign),  *)
(* but for the exceptions OneObservationPerTick names.                     *)
THEOREM OncePerTick == TickSpec => OneObservationPerTick
<1>1. TickInv /\ [TickNext]_vars =>
        [\A t \in Timelines :
           lastObs'[t] # lastObs[t] /\ cause[t] = "regular" /\ cause'[t] = "regular"
             => obsDate[t] < now]_vars
  BY Once
<1> QED
  BY <1>1, TickInvariance, PTL DEF TickSpec, OneObservationPerTick

-----------------------------------------------------------------------------
(* What the graph promises, kept by the agent                              *)

(* graph::cleanup destroys the isolated reactors, all at once; they have   *)
(* no relation left.                                                       *)
CleansUp ==
  /\ life' = [r \in Reactors |-> IF life[r] = "quarantined" THEN "none" ELSE life[r]]
  /\ updates' = [r \in Reactors |-> IF life[r] = "quarantined" THEN {} ELSE updates[r]]
  /\ UNCHANGED <<known, ownership, subscriptions, observations, now>>

LEMMA GraphStep ==
  ASSUME [TickNext]_vars
  PROVE  [Next \/ CleansUp]_graphVars
<1> SUFFICES ASSUME ~UNCHANGED graphVars PROVE Next \/ CleansUp
  OBVIOUS
<1>1. CASE UNCHANGED vars
  BY <1>1 DEF vars
<1>2. CASE SearchStep
  <2>1. ASSUME NEW r \in Reactors, RejectReactor(r) PROVE Next
    BY <2>1 DEF RejectReactor, Next, Lifecycle
  <2> QED
    BY <1>2, <2>1
       DEF SearchStep, StartSearch, StartReactor, FinishReactor, DetectCycle, Cleanup, CleansUp
<1>3. CASE SynchronizeStep
  <2>1. ASSUME NEW r \in Reactors, SynchronizeReactor(r) PROVE Next
    BY <2>1 DEF SynchronizeReactor, Next
  <2>2. ASSUME NEW r \in Reactors, FailReactor(r) PROVE Next
    BY <2>2 DEF FailReactor, Next, Lifecycle
  <2> QED
    BY <1>3, <2>1, <2>2 DEF SynchronizeStep, StartDeliberation
<1>4. ASSUME NEW r \in Reactors, NEW t \in Timelines, NEW v \in Values, Observe(r, t, v)
      PROVE  Next
  BY <1>4 DEF Observe, Next
<1>5. ASSUME NEW r \in Reactors, NEW t \in Timelines, Declare(r, t) \/ GiveUp(r, t)
      PROVE  Next
  BY <1>5 DEF Declare, GiveUp, Next, Declaration
<1>6. ASSUME NEW r \in Reactors, KillBetweenTicks(r) PROVE Next
  BY <1>6 DEF KillBetweenTicks, Next, Lifecycle
<1>7. CASE NextTick
  BY <1>7 DEF NextTick, Next
<1> QED
  BY <1>1, <1>2, <1>3, <1>4, <1>5, <1>6, <1>7 DEF TickNext

(* The agent adds an order to the operations of the graph and nothing      *)
(* else: whatever it does in a tick is an operation of TimelineGraph, or   *)
(* the destruction of the isolated reactors by cleanup.                    *)
AgentUsesGraph == [][Next \/ CleansUp]_graphVars

THEOREM AgentOnlyUsesGraph == TickSpec => AgentUsesGraph
<1>1. [TickNext]_vars => [Next \/ CleansUp]_graphVars
  BY GraphStep
<1> QED
  BY <1>1, PTL DEF TickSpec, AgentUsesGraph

(* So all that was proved of the graph holds while agents run, starting    *)
(* with timelines that already have owners and clients.                    *)
GraphPromises ==
  /\ RelationsMirrored
  /\ PlanListenersExact
  /\ OwnerIsNotClient
  /\ NoDanglingReference
  /\ OrphanIsFailed
  /\ PostedIsScheduled

THEOREM GraphHoldsInTicks == TickSpec => []GraphPromises
<1>1. TickInv => GraphPromises
  <2> SUFFICES ASSUME GraphInv PROVE GraphPromises
    BY DEF TickInv, BoardInv
  <2>1. RelationsMirrored
    BY DEF GraphInv, Relations, OwnersMirrored, ClientsMirrored, RelationsMirrored
  <2>2. NoDanglingReference
    BY DEF GraphInv, Relations, OwnersMirrored, ClientsMirrored, BareWhenGone,
           NoDanglingReference
  <2>3. PlanListenersExact /\ OwnerIsNotClient /\ OrphanIsFailed /\ PostedIsScheduled
    BY DEF GraphInv, Relations, Contents
  <2> QED
    BY <2>1, <2>2, <2>3 DEF GraphPromises
<1> QED
  BY <1>1, TickInvariance, PTL

(* A change of value is dated of the current tick while agents run.        *)
THEOREM ChangesDatedInTicks == TickSpec => ChangesAreDated
<1>1. TickInv /\ [TickNext]_vars =>
        [\A t \in Timelines : lastObs'[t] # lastObs[t] => obsDate'[t] = now]_graphVars
  <2> SUFFICES ASSUME TickInv, [TickNext]_vars
               PROVE  \A t \in Timelines : lastObs'[t] # lastObs[t] => obsDate'[t] = now
    OBVIOUS
  <2>1. GraphInv
    BY DEF TickInv, BoardInv
  <2>2. [Next \/ CleansUp]_graphVars
    BY GraphStep
  <2>3. CASE CleansUp
    BY <2>3 DEF CleansUp, observations
  <2>4. CASE [Next]_graphVars
    BY <2>1, <2>4, DatedStep
  <2> QED
    BY <2>2, <2>3, <2>4
<1> QED
  BY <1>1, TickInvariance, PTL DEF TickSpec, ChangesAreDated

(* The steps of an agent are steps of the abstract board too: a client     *)
(* sees a value change only while its timeline is owned, and Failed as     *)
(* soon as it is not.                                                      *)
AgentStaysOnBoard == [][Board!Next]_Board!boardVars

THEOREM AgentKeepsBoard == TickSpec => AgentStaysOnBoard
<1>1. TickInv /\ [TickNext]_vars => [Board!Next]_Board!boardVars
  <2> SUFFICES ASSUME TickInv, [TickNext]_vars PROVE [Board!Next]_Board!boardVars
    OBVIOUS
  <2>1. GraphInv
    BY DEF TickInv, BoardInv
  <2>2. [Next \/ CleansUp]_graphVars
    BY GraphStep
  <2>3. CASE CleansUp
    BY <2>3 DEF CleansUp, ownership, observations, Board!boardVars
  <2>4. CASE [Next]_graphVars
    BY <2>1, <2>4, BoardStep
  <2> QED
    BY <2>2, <2>3, <2>4
<1> QED
  BY <1>1, TickInvariance, PTL DEF TickSpec, AgentStaysOnBoard
=============================================================================
