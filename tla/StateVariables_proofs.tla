------------------------ MODULE StateVariables_proofs ------------------------
(***************************************************************************)
(* Proofs about StateVariables, for any timelines, predicates and number   *)
(* of ticks: what the planner publishes is what StateHistory promises, the *)
(* observations of a timeline tile its past, and the commit that ends a    *)
(* search never fails.                                                     *)
(*                                                                         *)
(* StateInv is inductive.  During a tick an Internal timeline is in one of *)
(* two situations, whatever the search did, undid or left behind: Kept,    *)
(* its last observation is the one shown, or Replaced, a new observation   *)
(* that starts now hides exactly that one.  DecidedInv ties them to the    *)
(* choices on the stack, so that undoing a choice leads back to Kept.      *)
(* SearchInv adds what an exhausted search needs to have restored all.     *)
(* StandInv says which timelines are still flaws, so that every step of    *)
(* synchronize() can be seen to use something up (Descends).               *)
(***************************************************************************)
EXTENDS StateVariables, SequenceTheorems, WellFoundedInduction, TLAPS

-----------------------------------------------------------------------------
(* Types                                                                   *)

LEMMA NoTokenIsNone == NoToken \notin Token
  BY StateAssumption DEF NoToken, Token

LEMMA PointTypes == NoPoint \in TimePoint /\ (now \in Nat => [base |-> now + 1, date |-> now + 1] \in TimePoint)
  BY DEF NoPoint, TimePoint

(* Every choice but to extend the last observation.                        *)
Fresh == {c \in Choice : c.kind # "extend"}

(* The choices of a decision: there is always one, and only an observation *)
(* that exists can be extended.                                            *)
LEMMA ChoicesType ==
  ASSUME TypeOK, NEW t \in Internals
  PROVE  /\ Choices(t) \in Seq(Choice) /\ Choices(t) # << >>
         /\ last[t] = NoToken => Choices(t) \in Seq(Fresh)
<1> DEFINE a == IF last[t] # NoToken /\ bound[t] # "ends"
                  THEN << [kind |-> "extend", pred |-> Default] >> ELSE << >>
           b == [i \in 1 .. Len(next[t]) |-> [kind |-> "next", pred |-> next[t][i]]]
           c == << [kind |-> "create", pred |-> Default] >>
           o == [i \in 1 .. Len(Others) |-> [kind |-> "create", pred |-> Others[i]]]
<1>1. a \in Seq(Choice)
  <2>1. [kind |-> "extend", pred |-> Default] \in Choice
    BY StateAssumption DEF Choice
  <2>2. << [kind |-> "extend", pred |-> Default] >> \in Seq(Choice)
    BY <2>1
  <2> QED
    BY <2>2, EmptySeq
<1>2. b \in Seq(Choice) /\ b \in Seq(Fresh)
  <2> DEFINE n == next[t]
  <2>1. n \in Seq(Preds)
    BY DEF TypeOK
  <2> HIDE DEF n
  <2>2. Len(n) \in Nat /\ \A i \in 1 .. Len(n) : n[i] \in Preds
    BY <2>1
  <2>3. \A i \in 1 .. Len(n) :
          [kind |-> "next", pred |-> n[i]] \in Choice /\ [kind |-> "next", pred |-> n[i]] \in Fresh
    BY <2>2 DEF Choice, Fresh
  <2>4. b = [i \in 1 .. Len(n) |-> [kind |-> "next", pred |-> n[i]]]
    BY DEF n
  <2> HIDE DEF b
  <2> QED
    BY <2>2, <2>3, <2>4
<1>3. c \in Seq(Choice) /\ c \in Seq(Fresh) /\ Len(c) = 1
  <2>1. [kind |-> "create", pred |-> Default] \in Choice
        /\ [kind |-> "create", pred |-> Default] \in Fresh
    BY StateAssumption DEF Choice, Fresh
  <2> QED
    BY <2>1
<1>4. o \in Seq(Choice) /\ o \in Seq(Fresh)
  <2>1. Len(Others) \in Nat /\ \A i \in 1 .. Len(Others) : Others[i] \in Preds
    BY StateAssumption
  <2>2. \A i \in 1 .. Len(Others) : o[i] \in Choice /\ o[i] \in Fresh
    BY <2>1 DEF Choice, Fresh
  <2> QED
    BY <2>1, <2>2
<1>5. Choices(t) = a \o b \o c \o o /\ (last[t] = NoToken => a = << >>)
  BY DEF Choices
<1> HIDE DEF a, b, c, o
<1>6. a \o b \in Seq(Choice) /\ (a \o b) \o c \in Seq(Choice)
  BY <1>1, <1>2, <1>3
<1>7. (a \o b) \o c \o o \in Seq(Choice) /\ Len(a \o b \o c \o o) >= 1
  BY <1>1, <1>2, <1>3, <1>4, <1>6
<1>8. last[t] = NoToken => a \o b \o c \o o \in Seq(Fresh)
  BY <1>2, <1>3, <1>4, <1>5, EmptySeq
<1> QED
  BY <1>5, <1>7, <1>8

(* The four variables a choice or a commit writes.                         *)
TokensOK ==
  /\ last \in [Timelines -> Token \cup {NoToken}]
  /\ prev \in [Timelines -> Token \cup {NoToken}]
  /\ front \in [Timelines -> TimePoint]
  /\ prevFront \in [Timelines -> TimePoint]

(* A write to the date of a frontier.                                      *)
LEMMA DateWritten ==
  ASSUME TypeOK, NEW t \in Timelines, NEW n \in Nat, front' = [front EXCEPT ![t].date = n]
  PROVE  /\ front' \in [Timelines -> TimePoint]
         /\ front'[t].base = front[t].base /\ front'[t].date = n
         /\ \A u \in Timelines \ {t} : front'[u] = front[u]
<1>1. front \in [Timelines -> TimePoint]
  BY DEF TypeOK
<1>2. front' = [front EXCEPT ![t] = [front[t] EXCEPT !.date = n]]
  OBVIOUS
<1>3. front[t] \in TimePoint
  BY <1>1
<1>4. [front[t] EXCEPT !.date = n] = [base |-> front[t].base, date |-> n]
  BY <1>3 DEF TimePoint
<1>5. [base |-> front[t].base, date |-> n] \in TimePoint
  BY <1>3 DEF TimePoint
<1> QED
  BY <1>1, <1>2, <1>4, <1>5

LEMMA ExecuteType ==
  ASSUME TypeOK, NEW t \in Internals, NEW c \in Choice, Execute(t, c)
  PROVE  TokensOK'
<1>1. t \in Timelines /\ now \in Nat
  BY StateAssumption DEF TypeOK
<1>2. CASE c.kind = "extend"
  <2> DEFINE n == IF front[t].date > now THEN front[t].date ELSE now + 1
  <2>1. n \in Nat
    BY <1>1 DEF TypeOK, TimePoint
  <2>2. front' = [front EXCEPT ![t].date = n]
    BY <1>2 DEF Execute
  <2> HIDE DEF n
  <2>3. front' \in [Timelines -> TimePoint]
    BY <1>1, <2>1, <2>2, DateWritten
  <2> QED
    BY <1>2, <2>3 DEF Execute, TypeOK, TokensOK
<1>3. CASE c.kind # "extend"
  <2>1. [pred |-> c.pred, start |-> now] \in Token
    BY <1>1 DEF Choice, Token
  <2> QED
    BY <1>1, <1>3, <2>1, PointTypes DEF Execute, NewToken, TypeOK, TokensOK
<1> QED
  BY <1>2, <1>3

LEMMA TakeBackType ==
  ASSUME TypeOK, NEW t \in Internals, NEW c \in Choice, TakeBack(t, c)
  PROVE  TokensOK'
<1>1. t \in Timelines
  BY StateAssumption
<1>2. CASE c.kind = "extend"
  <2>1. front[t].base \in Nat /\ front' = [front EXCEPT ![t].date = front[t].base]
    BY <1>1, <1>2 DEF TakeBack, TypeOK, TimePoint
  <2>2. front' \in [Timelines -> TimePoint]
    BY <1>1, <2>1, DateWritten
  <2> QED
    BY <1>2, <2>2 DEF TakeBack, TypeOK, TokensOK
<1>3. CASE c.kind # "extend"
  BY <1>1, <1>3, PointTypes DEF TakeBack, TypeOK, TokensOK
<1> QED
  BY <1>2, <1>3

LEMMA CommitType ==
  ASSUME TypeOK, NEW S \in SUBSET Timelines, Commit(S)
  PROVE  /\ TokensOK'
         /\ finished' \in [Timelines -> Nat]
         /\ posted' \in [Internals -> Token \cup {NoToken}]
<1>1. now \in Nat /\ NoPoint \in TimePoint
  BY PointTypes DEF TypeOK
<1>2. \A t \in Timelines :
        [base |-> now + 1, date |-> IF front[t].date > now THEN front[t].date ELSE now + 1]
          \in TimePoint
  BY <1>1 DEF TypeOK, TimePoint
<1>3. \A t \in Internals : t \in Timelines
  BY StateAssumption
<1> QED
  BY <1>1, <1>2, <1>3 DEF Commit, TypeOK, TokensOK

LEMMA NewPlanType ==
  ASSUME TypeOK, NEW planned \in BOOLEAN, NewPlan(planned)
  PROVE  bound' \in [Timelines -> Bounds] /\ next' \in [Internals -> Seq(Preds)]
<1>1. PlannedNext \subseteq Seq(Preds)
  <2>1. \A s \in Preds \X Preds : s \in Seq(Preds)
    <3> TAKE s \in Preds \X Preds
    <3>1. s = << s[1], s[2] >> /\ s[1] \in Preds /\ s[2] \in Preds
      OBVIOUS
    <3>2. << s[1], s[2] >> \in Seq(Preds)
      BY <3>1
    <3> QED
      BY <3>1, <3>2
  <2>2. \A p \in Preds : << p >> \in Seq(Preds)
    OBVIOUS
  <2> QED
    BY <2>1, <2>2, EmptySeq DEF PlannedNext
<1>2. bound' \in [Timelines -> Bounds]
  BY DEF NewPlan
<1>3. CASE planned
  <2>1. next' \in [Internals -> PlannedNext]
    BY <1>3 DEF NewPlan
  <2> QED
    BY <1>1, <1>2, <2>1
<1>4. CASE ~planned
  <2>1. next' = [t \in Internals |-> << >>]
    BY <1>4 DEF NewPlan
  <2> QED
    BY <1>2, <2>1, EmptySeq
<1> QED
  BY <1>3, <1>4

(* Conditions on the stack of decisions.                                   *)
LEMMA DecidedTodo ==
  ASSUME TypeOK, NEW t \in Internals, todo[t] # << >>
  PROVE  /\ Head(todo[t]) \in Choice
         /\ Tail(todo[t]) \in Seq(Choice)
         /\ Len(todo[t]) \in Nat \ {0}
         /\ Len(todo[t]) = 1 <=> Tail(todo[t]) = << >>
<1>1. todo[t] \in Seq(Choice)
  BY StateAssumption DEF TypeOK
<1>2. /\ Head(todo[t]) \in Choice /\ Tail(todo[t]) \in Seq(Choice)
      /\ Len(Tail(todo[t])) = Len(todo[t]) - 1
  BY <1>1, HeadTailProperties
<1>3. Len(todo[t]) \in Nat \ {0}
  BY <1>1, EmptySeq
<1>4. Tail(todo[t]) = << >> <=> Len(Tail(todo[t])) = 0
  BY <1>2, EmptySeq
<1> QED
  BY <1>2, <1>3, <1>4

LEMMA TypeInit == Init => TypeOK
<1> SUFFICES ASSUME Init PROVE TypeOK
  OBVIOUS
<1>1. NoPoint \in TimePoint
  BY PointTypes
<1>2. << >> \in Seq(Choice) /\ << >> \in Seq(Preds)
  BY EmptySeq
<1>3. "free" \in Bounds
  BY DEF Bounds
<1> QED
  BY <1>1, <1>2, <1>3 DEF Init, TypeOK

LEMMA TypeNext == TypeOK /\ [Next]_stateVars => TypeOK'
<1> SUFFICES ASSUME TypeOK, [Next]_stateVars PROVE TypeOK'
  OBVIOUS
<1> USE DEF plan, committedState
<1>0. /\ \A t \in Internals : t \in Timelines
      /\ \A t \in Externals : t \in Timelines
      /\ now \in Nat
  BY StateAssumption DEF Externals, TypeOK
<1>1. CASE TickStart
  <2>1. bound' \in [Timelines -> Bounds] /\ next' \in [Internals -> Seq(Preds)]
    BY <1>1, NewPlanType DEF TickStart
  <2> QED
    BY <1>1, <2>1 DEF TickStart, TypeOK
<1>2. ASSUME NEW S \in SUBSET Externals, NEW val \in [Externals -> Preds], Observe(S, val)
      PROVE  TypeOK'
  <2>1. \A t \in S : [pred |-> val[t], start |-> now] \in Token
    BY <1>0 DEF Token
  <2>2. last' \in [Timelines -> Token \cup {NoToken}]
    BY <1>2, <2>1 DEF Observe, TypeOK
  <2>3. front' \in [Timelines -> TimePoint]
    BY <1>0, <1>2, PointTypes DEF Observe, TypeOK
  <2>4. /\ prev' \in [Timelines -> Token \cup {NoToken}]
        /\ prevFront' \in [Timelines -> TimePoint]
    BY <1>2 DEF Observe, TypeOK
  <2> QED
    BY <1>2, <2>2, <2>3, <2>4 DEF Observe, TypeOK
<1>3. CASE CommitExternals
  <2>1. Externals \in SUBSET Timelines
    BY <1>0
  <2> QED
    BY <1>3, <2>1, CommitType DEF CommitExternals, TokensOK, TypeOK
<1>4. ASSUME NEW t \in Externals, CommitExternalsFails(t) PROVE TypeOK'
  <2>1. {u \in Externals : u < t \/ (u = t /\ CanCommit(t))} \in SUBSET Timelines
    BY <1>0
  <2> QED
    BY <1>4, <2>1, CommitType DEF CommitExternalsFails, TokensOK, TypeOK
<1>5. ASSUME NEW t \in Internals, Decide(t) PROVE TypeOK'
  <2>1. Choices(t) \in Seq(Choice) /\ Head(Choices(t)) \in Choice
    BY ChoicesType, HeadTailProperties
  <2>2. TokensOK'
    BY <1>5, <2>1, ExecuteType DEF Decide
  <2> QED
    BY <1>5, <2>1, <2>2 DEF Decide, TokensOK, TypeOK
<1>6. ASSUME NEW t \in Internals, Undo(t) PROVE TypeOK'
  <2>1. Head(todo[t]) \in Choice /\ Tail(todo[t]) \in Seq(Choice)
    BY <1>6, DecidedTodo DEF Undo, IsTop, Decided
  <2>2. TokensOK'
    BY <1>6, <2>1, TakeBackType DEF Undo
  <2> QED
    BY <1>6, <2>1, <2>2 DEF Undo, TokensOK, TypeOK
<1>7. ASSUME NEW t \in Internals, Retry(t) PROVE TypeOK'
  <2>1. Head(todo[t]) \in Choice
    BY <1>7, DecidedTodo DEF Retry, IsTop, Decided
  <2>2. TokensOK'
    BY <1>7, <2>1, ExecuteType DEF Retry
  <2> QED
    BY <1>7, <2>2 DEF Retry, TokensOK, TypeOK
<1>8. CASE Inconsistent \/ Exhaust \/ Cut \/ GiveUp \/ LastPropagationFails
  BY <1>8 DEF Inconsistent, Exhaust, Cut, GiveUp, LastPropagationFails, TypeOK
<1>9. CASE Forget
  <2>1. todo' \in [Timelines -> Seq(Choice)]
    BY <1>9, EmptySeq DEF Forget
  <2> QED
    BY <1>9, <2>1 DEF Forget, TypeOK
<1>10. CASE Relax
  <2>1. bound' \in [Timelines -> Bounds] /\ next' \in [Internals -> Seq(Preds)]
    BY <1>10, NewPlanType DEF Relax
  <2>2. front' \in [Timelines -> TimePoint]
    <3>1. \A t \in Timelines : [front[t] EXCEPT !.date = front[t].base] \in TimePoint
      BY DEF TypeOK, TimePoint
    <3> QED
      BY <1>10, <3>1 DEF Relax, TypeOK
  <2>3. attempt' \in 1 .. 3
    BY <1>10 DEF Relax, TypeOK
  <2> QED
    BY <1>10, <2>1, <2>2, <2>3 DEF Relax, TypeOK
<1>11. CASE RelaxFails
  BY <1>11 DEF RelaxFails, TypeOK
<1>12. CASE Solve
  <2>1. todo' \in [Timelines -> Seq(Choice)]
    BY <1>12, EmptySeq DEF Solve
  <2>2. Internals \in SUBSET Timelines
    BY <1>0
  <2> QED
    BY <1>12, <2>1, <2>2, CommitType DEF Solve, TokensOK, TypeOK
<1>13. CASE Publish
  BY <1>13 DEF Publish, TypeOK
<1>14. CASE UNCHANGED stateVars
  BY <1>14 DEF stateVars, TypeOK
<1> QED
  BY <1>1, <1>2, <1>3, <1>4, <1>5, <1>6, <1>7, <1>8, <1>9, <1>10, <1>11, <1>12, <1>13, <1>14
  DEF Next, Synchronize

-----------------------------------------------------------------------------
(* The inductive invariant                                                 *)

Searching == mode \in {"search", "undo", "retry"}
Running == mode \notin {"idle", "solved", "killed"}

(* The token tok starts where the one before it was terminated.            *)
Seated(t, tok) == tok.start = IF finished[t] > 0 THEN finished[t] ELSE 1

(* The two situations of an Internal timeline during a tick.               *)
Kept(t) ==
  /\ last[t] = shown[t] /\ prev[t] = NoToken
  /\ front[t].base <= now

Replaced(t) ==
  /\ last[t] # NoToken /\ last[t].start = now /\ prev[t] = shown[t]
  /\ front[t].base = now + 1 /\ front[t].date > now
  /\ prevFront[t].base <= now
  /\ prev[t] # NoToken => prevFront[t].date <= now

BaseAt(t) == front[t].base <= now + 1 /\ prevFront[t].base <= now + 1

TileAt(t) ==
  /\ last[t] = NoToken => prev[t] = NoToken /\ finished[t] = 0 /\ now <= 1
  /\ last[t] # NoToken /\ prev[t] = NoToken => Seated(t, last[t])
  /\ prev[t] # NoToken => last[t] # NoToken /\ last[t].start = now /\ Seated(t, prev[t])

ClockInv == mode = "idle" \/ now >= 1

TilesInv == mode # "killed" => \A t \in Timelines : BaseAt(t) /\ TileAt(t)

(* Outside the search.                                                     *)
QuietInv ==
  /\ mode \in {"idle", "observe", "solved"} => \A t \in Timelines : prev[t] = NoToken
  /\ (mode = "idle" /\ now > 0) \/ mode = "solved" =>
       \A t \in Timelines : last[t] # NoToken /\ front[t].base = now + 1
  /\ mode = "idle" => \A t \in Internals : last[t] = shown[t] /\ posted[t] = shown[t]
  /\ mode = "solved" => \A t \in Internals :
       posted[t] = last[t] /\ (last[t] = shown[t] \/ last[t].start = now)

ExternalsInv ==
  /\ Running /\ mode # "observe" => \A t \in Externals : last[t] # NoToken
  /\ mode \in {"search", "undo", "retry", "exhausted", "cut"} =>
       \A t \in Externals : prev[t] = NoToken /\ front[t].base = now + 1

InternalsInv == Running => \A t \in Internals :
  /\ Kept(t) \/ Replaced(t)
  /\ posted[t] = shown[t]
  /\ shown[t] = NoToken => finished[t] = 0 /\ now <= 1

(* The choice on top of the stack is not made yet in mode retry; every     *)
(* other one is.                                                           *)
Pending(t) == mode = "retry" /\ IsTop(t)

DecisionAt(t) ==
  IF Pending(t)
    THEN Kept(t) /\ (last[t] # NoToken => front[t].date <= now)
    ELSE IF Head(todo[t]).kind = "extend" THEN Kept(t) ELSE Replaced(t)

DecidedInv ==
  /\ Searching => \A t \in Decided : DecisionAt(t)
  /\ ~Searching /\ mode # "cut" => Decided = {}

StateInv ==
  /\ TypeOK
  /\ ClockInv
  /\ TilesInv
  /\ QuietInv
  /\ ExternalsInv
  /\ InternalsInv
  /\ DecidedInv

-----------------------------------------------------------------------------
(* What the pieces of a decision do to each timeline                       *)

(* Nothing happens to timeline u.                                          *)
SameAt(u) ==
  /\ last'[u] = last[u] /\ prev'[u] = prev[u]
  /\ front'[u] = front[u] /\ prevFront'[u] = prevFront[u]

(* The numbers of a timeline.                                              *)
LEMMA Numbers ==
  ASSUME TypeOK, NEW t \in Timelines
  PROVE  /\ front[t].base \in Nat /\ front[t].date \in Nat
         /\ prevFront[t].base \in Nat /\ prevFront[t].date \in Nat
         /\ finished[t] \in Nat /\ now \in Nat
         /\ last[t].start \in Nat /\ prev[t].start \in Nat
<1>1. \A tok \in Token \cup {NoToken} : tok.start \in Nat
  BY DEF Token, NoToken
<1>2. last[t] \in Token \cup {NoToken} /\ prev[t] \in Token \cup {NoToken}
  BY DEF TypeOK
<1>3. front[t] \in TimePoint /\ prevFront[t] \in TimePoint /\ finished[t] \in Nat /\ now \in Nat
  BY DEF TypeOK
<1> QED
  BY <1>1, <1>2, <1>3 DEF TimePoint

LEMMA InternalTimelines ==
  /\ \A t \in Internals : t \in Timelines /\ t \notin Externals
  /\ \A t \in Externals : t \in Timelines /\ t \notin Internals
  /\ \A t \in Timelines : t \in Internals \/ t \in Externals
  BY StateAssumption DEF Externals

LEMMA ExecuteEffect ==
  ASSUME TypeOK, NEW t \in Internals, NEW c \in Choice, Execute(t, c)
  PROVE  /\ \A u \in Timelines \ {t} : SameAt(u)
         /\ c.kind = "extend" =>
              /\ last'[t] = last[t] /\ prev'[t] = prev[t] /\ prevFront'[t] = prevFront[t]
              /\ front'[t].base = front[t].base
              /\ front'[t].date = IF front[t].date > now THEN front[t].date ELSE now + 1
         /\ c.kind # "extend" =>
              /\ last'[t] # NoToken /\ last'[t].start = now
              /\ prev'[t] = last[t] /\ prevFront'[t] = front[t]
              /\ front'[t].base = now + 1 /\ front'[t].date = now + 1
<1>1. t \in Timelines /\ now \in Nat
  BY InternalTimelines, Numbers
<1>2. CASE c.kind = "extend"
  <2> DEFINE n == IF front[t].date > now THEN front[t].date ELSE now + 1
  <2>1. n \in Nat /\ front' = [front EXCEPT ![t].date = n]
    BY <1>1, <1>2, Numbers DEF Execute
  <2> HIDE DEF n
  <2>2. /\ front'[t].base = front[t].base /\ front'[t].date = n
        /\ \A u \in Timelines \ {t} : front'[u] = front[u]
    BY <1>1, <2>1, DateWritten
  <2> QED
    BY <1>2, <2>2 DEF Execute, SameAt, n
<1>3. CASE c.kind # "extend"
  <2> DEFINE tok == [pred |-> c.pred, start |-> now]
  <2>1. tok # NoToken /\ tok.start = now
    BY <1>1, StateAssumption DEF Choice, NoToken
  <2>2. /\ last' = [last EXCEPT ![t] = tok]
        /\ prev' = [prev EXCEPT ![t] = last[t]]
        /\ front' = [front EXCEPT ![t] = [base |-> now + 1, date |-> now + 1]]
        /\ prevFront' = [prevFront EXCEPT ![t] = front[t]]
    BY <1>3 DEF Execute, NewToken
  <2> HIDE DEF tok
  <2> QED
    BY <1>1, <1>3, <2>1, <2>2 DEF TypeOK, SameAt
<1> QED
  BY <1>2, <1>3

LEMMA TakeBackEffect ==
  ASSUME TypeOK, NEW t \in Internals, NEW c \in Choice, TakeBack(t, c)
  PROVE  /\ \A u \in Timelines \ {t} : SameAt(u)
         /\ c.kind = "extend" =>
              /\ last'[t] = last[t] /\ prev'[t] = prev[t] /\ prevFront'[t] = prevFront[t]
              /\ front'[t].base = front[t].base /\ front'[t].date = front[t].base
         /\ c.kind # "extend" =>
              /\ last'[t] = prev[t] /\ front'[t] = prevFront[t]
              /\ prev'[t] = NoToken /\ prevFront'[t] = NoPoint
<1>1. t \in Timelines
  BY InternalTimelines
<1>2. CASE c.kind = "extend"
  <2>1. front[t].base \in Nat /\ front' = [front EXCEPT ![t].date = front[t].base]
    BY <1>1, <1>2, Numbers DEF TakeBack
  <2>2. /\ front'[t].base = front[t].base /\ front'[t].date = front[t].base
        /\ \A u \in Timelines \ {t} : front'[u] = front[u]
    BY <1>1, <2>1, DateWritten
  <2> QED
    BY <1>2, <2>2 DEF TakeBack, SameAt
<1>3. CASE c.kind # "extend"
  BY <1>1, <1>3 DEF TakeBack, TypeOK, SameAt
<1> QED
  BY <1>2, <1>3

LEMMA CommitEffect ==
  ASSUME TypeOK, NEW S \in SUBSET Timelines, Commit(S), NEW t \in Timelines
  PROVE  /\ last'[t] = last[t]
         /\ t \notin S \/ CheckCommitted(t) => SameAt(t) /\ finished'[t] = finished[t]
         /\ t \in S /\ ~CheckCommitted(t) =>
              /\ prev'[t] = NoToken
              /\ front'[t].base = now + 1
              /\ front'[t].date = IF front[t].date > now THEN front[t].date ELSE now + 1
              /\ finished'[t] = IF prev[t] # NoToken THEN now ELSE finished[t]
              /\ prevFront'[t] = prevFront[t] \/ prevFront'[t] = NoPoint
         /\ t \in Internals =>
              posted'[t] = IF t \in S /\ ~CheckCommitted(t) /\ last[t].start = now
                             THEN last[t] ELSE posted[t]
<1>1. last' = last
  BY DEF Commit
<1>2. CASE t \notin S \/ CheckCommitted(t)
  BY <1>1, <1>2 DEF Commit, SameAt
<1>3. CASE t \in S /\ ~CheckCommitted(t)
  BY <1>1, <1>3 DEF Commit
<1> QED
  BY <1>2, <1>3

(* Making a choice for a timeline that is Kept and undetermined.           *)
LEMMA ExecuteKeeps ==
  ASSUME TypeOK, ClockInv, mode # "idle", NEW t \in Internals, NEW c \in Choice, Execute(t, c),
         UNCHANGED <<now, finished, shown>>,
         Kept(t), last[t] # NoToken => front[t].date <= now, BaseAt(t), TileAt(t)
  PROVE  /\ IF c.kind = "extend" THEN Kept(t)' ELSE Replaced(t)'
         /\ BaseAt(t)' /\ TileAt(t)'
<1>1. t \in Timelines /\ now >= 1
  BY InternalTimelines DEF ClockInv
<1>2. /\ front[t].base \in Nat /\ front[t].date \in Nat /\ prevFront[t].base \in Nat
      /\ now \in Nat /\ finished[t] \in Nat
  BY <1>1, Numbers
<1>3. CASE c.kind = "extend"
  <2>1. /\ last'[t] = last[t] /\ prev'[t] = prev[t] /\ prevFront'[t] = prevFront[t]
        /\ front'[t].base = front[t].base
    BY <1>3, ExecuteEffect
  <2> QED
    BY <1>3, <2>1 DEF Kept, BaseAt, TileAt, Seated
<1>4. CASE c.kind # "extend"
  <2>1. /\ last'[t] # NoToken /\ last'[t].start = now
        /\ prev'[t] = last[t] /\ prevFront'[t] = front[t]
        /\ front'[t].base = now + 1 /\ front'[t].date = now + 1
    BY <1>4, ExecuteEffect
  <2>2. Replaced(t)'
    BY <1>2, <2>1 DEF Replaced, Kept
  <2>3. BaseAt(t)'
    BY <1>2, <2>1 DEF BaseAt, Kept
  <2>4. TileAt(t)'
    BY <1>1, <1>2, <2>1 DEF TileAt, Seated, Kept
  <2> QED
    BY <1>4, <2>2, <2>3, <2>4
<1> QED
  BY <1>3, <1>4

(* Undoing it.                                                             *)
LEMMA TakeBackKeeps ==
  ASSUME TypeOK, NEW t \in Internals, NEW c \in Choice, TakeBack(t, c),
         UNCHANGED <<now, finished, shown>>,
         IF c.kind = "extend" THEN Kept(t) ELSE Replaced(t),
         shown[t] = NoToken => finished[t] = 0 /\ now <= 1, BaseAt(t), TileAt(t)
  PROVE  /\ Kept(t)' /\ (last'[t] # NoToken => front'[t].date <= now')
         /\ BaseAt(t)' /\ TileAt(t)'
<1>1. t \in Timelines
  BY InternalTimelines
<1>2. /\ front[t].base \in Nat /\ prevFront[t].base \in Nat /\ prevFront[t].date \in Nat
      /\ now \in Nat /\ finished[t] \in Nat
  BY <1>1, Numbers
<1>3. CASE c.kind = "extend"
  <2>1. /\ last'[t] = last[t] /\ prev'[t] = prev[t] /\ prevFront'[t] = prevFront[t]
        /\ front'[t].base = front[t].base /\ front'[t].date = front[t].base
    BY <1>3, TakeBackEffect
  <2> QED
    BY <1>2, <1>3, <2>1 DEF Kept, BaseAt, TileAt, Seated
<1>4. CASE c.kind # "extend"
  <2>1. /\ last'[t] = prev[t] /\ front'[t] = prevFront[t]
        /\ prev'[t] = NoToken /\ prevFront'[t].base = 0
    BY <1>4, TakeBackEffect DEF NoPoint
  <2>2. Kept(t)' /\ (last'[t] # NoToken => front'[t].date <= now')
    BY <1>2, <1>4, <2>1 DEF Replaced, Kept
  <2>3. BaseAt(t)'
    BY <1>2, <1>4, <2>1 DEF BaseAt, Replaced
  <2>4. TileAt(t)'
    BY <1>2, <1>4, <2>1 DEF TileAt, Seated, Replaced
  <2> QED
    BY <2>2, <2>3, <2>4
<1> QED
  BY <1>3, <1>4

LEMMA CommitKeeps ==
  ASSUME TypeOK, ClockInv, mode # "idle", NEW S \in SUBSET Timelines, Commit(S),
         UNCHANGED <<now, shown>>, NEW t \in Timelines, BaseAt(t), TileAt(t)
  PROVE  /\ BaseAt(t)' /\ TileAt(t)'
         /\ t \in S => prev'[t] = NoToken /\ front'[t].base = now + 1
<1>1. /\ front[t].base \in Nat /\ prevFront[t].base \in Nat
      /\ now \in Nat /\ now >= 1 /\ finished[t] \in Nat
  BY Numbers DEF ClockInv
<1>2. CASE t \notin S \/ CheckCommitted(t)
  <2>1. SameAt(t) /\ finished'[t] = finished[t]
    BY <1>2, CommitEffect
  <2>2. BaseAt(t)' /\ TileAt(t)'
    BY <2>1 DEF SameAt, BaseAt, TileAt, Seated
  <2>3. t \in S => prev'[t] = NoToken /\ front'[t].base = now + 1
    BY <1>1, <1>2, <2>1 DEF CheckCommitted, SameAt, BaseAt
  <2> QED
    BY <2>2, <2>3
<1>3. CASE t \in S /\ ~CheckCommitted(t)
  <2>1. /\ last'[t] = last[t] /\ prev'[t] = NoToken /\ front'[t].base = now + 1
        /\ finished'[t] = IF prev[t] # NoToken THEN now ELSE finished[t]
        /\ prevFront'[t] = prevFront[t] \/ prevFront'[t].base = 0
    BY <1>3, CommitEffect DEF NoPoint
  <2>2. BaseAt(t)'
    BY <1>1, <2>1 DEF BaseAt
  <2>3. TileAt(t)'
    BY <1>1, <2>1 DEF TileAt, Seated
  <2> QED
    BY <2>1, <2>2, <2>3
<1> QED
  BY <1>2, <1>3

(* A step that only concerns the Internal timeline t, within the search.   *)
LEMMA SearchStep ==
  ASSUME StateInv, TypeOK', Searching, Searching', NEW t \in Internals,
         UNCHANGED <<now, finished, shown, posted>>,
         \A u \in Timelines \ {t} : SameAt(u),
         Kept(t)' \/ Replaced(t)', BaseAt(t)', TileAt(t)',
         \A u \in Decided' : DecisionAt(u)'
  PROVE  StateInv'
<1> USE DEF Searching
<1>1. ClockInv'
  BY DEF StateInv, ClockInv
<1>2. \A u \in Timelines \ {t} : BaseAt(u)' /\ TileAt(u)'
  BY DEF StateInv, TilesInv, SameAt, BaseAt, TileAt, Seated
<1>3. TilesInv'
  BY <1>2 DEF TilesInv
<1>4. QuietInv'
  BY DEF QuietInv
<1>5. ExternalsInv'
  BY InternalTimelines DEF StateInv, ExternalsInv, Running, SameAt
<1>6. InternalsInv'
  <2>1. \A u \in Internals \ {t} : Kept(u)' \/ Replaced(u)'
    BY InternalTimelines DEF StateInv, InternalsInv, Running, SameAt, Kept, Replaced
  <2> QED
    BY <2>1 DEF StateInv, InternalsInv, Running
<1>7. DecidedInv'
  BY DEF DecidedInv
<1> QED
  BY <1>1, <1>3, <1>4, <1>5, <1>6, <1>7 DEF StateInv

(* The decisions on timelines a step does not touch.                       *)
LEMMA DecisionSame ==
  ASSUME NEW u \in Timelines, SameAt(u), todo'[u] = todo[u], UNCHANGED <<now, shown>>,
         ~Pending(u), ~Pending(u)', DecisionAt(u)
  PROVE  DecisionAt(u)'
  BY DEF SameAt, DecisionAt, Kept, Replaced

-----------------------------------------------------------------------------
(* Each action keeps the invariant                                         *)

(* A timeline the search has to decide has not been replaced.              *)
LEMMA FlawIsKept ==
  ASSUME StateInv, mode = "search", NEW t \in Internals, ~Identified(t)
  PROVE  Kept(t) /\ ~Replaced(t) /\ (last[t] # NoToken => front[t].date <= now)
<1>1. last[t] # NoToken => ~(front[t].date > now)
  BY DEF Identified
<1>2. Kept(t) \/ Replaced(t)
  BY DEF StateInv, InternalsInv, Running
<1>3. front[t].date \in Nat /\ now \in Nat
  BY InternalTimelines, Numbers DEF StateInv
<1> QED
  BY <1>1, <1>2, <1>3 DEF Replaced

LEMMA DecideKeeps ==
  ASSUME StateInv, TypeOK', NEW t \in Internals, Decide(t)
  PROVE  StateInv'
<1> DEFINE c == Head(Choices(t))
<1>1. t \in Timelines /\ TypeOK /\ mode = "search" /\ mode' = "search"
  BY InternalTimelines DEF StateInv, Decide
<1>2. c \in Choice
  BY <1>1, ChoicesType, HeadTailProperties
<1>3. ~Identified(t) /\ Execute(t, c) /\ UNCHANGED <<now, finished, shown, posted>>
      /\ todo' = [todo EXCEPT ![t] = Choices(t)]
  BY DEF Decide, IsNextFlaw, Flaws, committedState
<1> HIDE DEF c
<1>4. Kept(t) /\ (last[t] # NoToken => front[t].date <= now)
  BY <1>1, <1>3, FlawIsKept
<1>5. ClockInv /\ BaseAt(t) /\ TileAt(t)
  BY <1>1 DEF StateInv, TilesInv
<1>6. /\ IF c.kind = "extend" THEN Kept(t)' ELSE Replaced(t)'
      /\ BaseAt(t)' /\ TileAt(t)'
  BY <1>1, <1>2, <1>3, <1>4, <1>5, ExecuteKeeps
<1>7. \A u \in Timelines \ {t} : SameAt(u)
  BY <1>1, <1>2, <1>3, ExecuteEffect
<1>8. ASSUME NEW u \in Decided' PROVE DecisionAt(u)'
  <2>1. ~Pending(u) /\ ~Pending(u)' /\ u \in Internals /\ u \in Timelines
    BY <1>1, InternalTimelines DEF Pending, Decided
  <2>2. CASE u = t
    <3>1. Head(todo'[t]) = c
      BY <1>1, <1>3 DEF TypeOK, c
    <3> QED
      BY <1>6, <2>1, <2>2, <3>1 DEF DecisionAt
  <2>3. CASE u # t
    <3>1. todo'[u] = todo[u] /\ u \in Decided
      BY <1>1, <1>3, <2>1, <2>3 DEF TypeOK, Decided
    <3>2. DecisionAt(u)
      BY <1>1, <3>1 DEF StateInv, DecidedInv, Searching
    <3> QED
      BY <1>3, <1>7, <2>1, <2>3, <3>1, <3>2, DecisionSame
  <2> QED
    BY <2>2, <2>3
<1> QED
  BY <1>1, <1>3, <1>6, <1>7, <1>8, SearchStep DEF Searching

LEMMA RetryKeeps ==
  ASSUME StateInv, TypeOK', NEW t \in Internals, Retry(t)
  PROVE  StateInv'
<1> DEFINE c == Head(todo[t])
<1>1. /\ t \in Timelines /\ TypeOK /\ mode = "retry" /\ mode' = "search" /\ IsTop(t)
      /\ t \in Decided
  BY InternalTimelines DEF StateInv, Retry, IsTop
<1>2. c \in Choice
  BY <1>1, DecidedTodo DEF Decided
<1>3. Execute(t, c) /\ UNCHANGED <<now, finished, shown, posted, todo>>
  BY DEF Retry, committedState
<1> HIDE DEF c
<1>4. Kept(t) /\ (last[t] # NoToken => front[t].date <= now)
  BY <1>1 DEF StateInv, DecidedInv, Searching, DecisionAt, Pending
<1>5. ClockInv /\ BaseAt(t) /\ TileAt(t)
  BY <1>1 DEF StateInv, TilesInv
<1>6. /\ IF c.kind = "extend" THEN Kept(t)' ELSE Replaced(t)'
      /\ BaseAt(t)' /\ TileAt(t)'
  BY <1>1, <1>2, <1>3, <1>4, <1>5, ExecuteKeeps
<1>7. \A u \in Timelines \ {t} : SameAt(u)
  BY <1>1, <1>2, <1>3, ExecuteEffect
<1>8. ASSUME NEW u \in Decided' PROVE DecisionAt(u)'
  <2>1. ~Pending(u)' /\ u \in Decided /\ u \in Timelines
    BY <1>1, <1>3, InternalTimelines DEF Pending, Decided
  <2>2. CASE u = t
    BY <1>3, <1>6, <2>1, <2>2 DEF DecisionAt, c
  <2>3. CASE u # t
    <3>1. ~Pending(u)
      BY <1>1, <2>1, <2>3 DEF Pending, IsTop, Timelines
    <3>2. DecisionAt(u)
      BY <1>1, <2>1 DEF StateInv, DecidedInv, Searching
    <3> QED
      BY <1>3, <1>7, <2>1, <2>3, <3>1, <3>2, DecisionSame
  <2> QED
    BY <2>2, <2>3
<1> QED
  BY <1>1, <1>3, <1>6, <1>7, <1>8, SearchStep DEF Searching

(* What undoing a choice leaves on the stack: the next choice of the same  *)
(* decision, or the decisions before it.                                   *)
LEMMA UndoStack ==
  ASSUME TypeOK, NEW t \in Internals, Undo(t)
  PROVE  /\ t \in Decided' => Pending(t)'
         /\ \A u \in Internals \ {t} :
              /\ todo'[u] = todo[u] /\ (u \in Decided' <=> u \in Decided)
              /\ ~Pending(u) /\ (u \in Decided' => ~Pending(u)')
<1>1. /\ t \in Timelines /\ t \in Decided /\ \A u \in Decided : u <= t
      /\ mode = "undo" /\ mode' = IF Len(todo[t]) = 1 THEN "undo" ELSE "retry"
      /\ \A u \in Internals \ {t} : todo'[u] = todo[u]
      /\ todo'[t] = Tail(todo[t])
  BY InternalTimelines DEF Undo, IsTop, TypeOK
<1>2. \A u \in Internals \ {t} : u \in Decided' <=> u \in Decided
  BY <1>1 DEF Decided
<1>3. t \in Decided' <=> mode' = "retry"
  BY <1>1, DecidedTodo DEF Decided
<1>4. \A u \in Internals : u \in Int
  BY InternalTimelines DEF Timelines
<1>5. \A u \in Decided' : u <= t
  BY <1>1, <1>2, <1>4 DEF Decided
<1>6. t \in Decided' => Pending(t)'
  BY <1>3, <1>5 DEF Pending, IsTop
<1>7. ASSUME NEW u \in Internals \ {t}, u \in Decided' PROVE ~Pending(u)'
  <2>1. u <= t /\ u \in Int /\ t \in Int
    BY <1>4, <1>5, <1>7
  <2> QED
    BY <1>3, <2>1 DEF Pending, IsTop
<1> QED
  BY <1>1, <1>2, <1>6, <1>7 DEF Pending

LEMMA UndoKeeps ==
  ASSUME StateInv, TypeOK', NEW t \in Internals, Undo(t)
  PROVE  StateInv'
<1> DEFINE c == Head(todo[t])
<1>1. /\ t \in Timelines /\ TypeOK /\ mode = "undo" /\ IsTop(t) /\ t \in Decided
      /\ mode' = IF Len(todo[t]) = 1 THEN "undo" ELSE "retry"
  BY InternalTimelines DEF StateInv, Undo, IsTop
<1>2. c \in Choice
  BY <1>1, DecidedTodo DEF Decided
<1>3. /\ TakeBack(t, c) /\ UNCHANGED <<now, finished, shown, posted>>
      /\ todo' = [todo EXCEPT ![t] = Tail(todo[t])]
  BY DEF Undo, committedState
<1>4. IF c.kind = "extend" THEN Kept(t) ELSE Replaced(t)
  <2>1. ~Pending(t)
    BY <1>1 DEF Pending
  <2> QED
    BY <1>1, <2>1 DEF StateInv, DecidedInv, Searching, DecisionAt
<1> HIDE DEF c
<1>5. BaseAt(t) /\ TileAt(t) /\ (shown[t] = NoToken => finished[t] = 0 /\ now <= 1)
  BY <1>1 DEF StateInv, TilesInv, InternalsInv, Running
<1>6. /\ Kept(t)' /\ (last'[t] # NoToken => front'[t].date <= now')
      /\ BaseAt(t)' /\ TileAt(t)'
  BY <1>1, <1>2, <1>3, <1>4, <1>5, TakeBackKeeps
<1>7. \A u \in Timelines \ {t} : SameAt(u)
  BY <1>1, <1>2, <1>3, TakeBackEffect
<1>8. ASSUME NEW u \in Decided' PROVE DecisionAt(u)'
  <2>1. u \in Internals /\ u \in Timelines
    BY InternalTimelines DEF Decided
  <2>2. CASE u = t
    BY <1>6, <2>2, UndoStack DEF StateInv, DecisionAt
  <2>3. CASE u # t
    <3>1. /\ u \in Decided /\ todo'[u] = todo[u]
          /\ ~Pending(u) /\ ~Pending(u)'
      BY <1>1, <2>1, <2>3, UndoStack DEF StateInv
    <3>2. DecisionAt(u)
      BY <1>1, <3>1 DEF StateInv, DecidedInv, Searching
    <3> QED
      BY <1>3, <1>7, <2>1, <2>3, <3>1, <3>2, DecisionSame
  <2> QED
    BY <2>2, <2>3
<1> QED
  BY <1>1, <1>3, <1>6, <1>7, <1>8, SearchStep DEF Searching

LEMMA TickStartKeeps ==
  ASSUME StateInv, TypeOK', TickStart
  PROVE  StateInv'
<1>1. /\ mode = "idle" /\ mode' = "observe" /\ now' = now + 1 /\ now \in Nat
      /\ UNCHANGED <<last, prev, front, prevFront, todo, finished, posted, shown>>
  BY DEF StateInv, TypeOK, TickStart, committedState
<1>2. ASSUME NEW t \in Timelines
      PROVE  /\ BaseAt(t)' /\ TileAt(t)' /\ prev'[t] = NoToken
             /\ front'[t].base <= now' /\ (last[t] = NoToken => finished[t] = 0 /\ now = 0)
  <2>1. /\ front[t].base \in Nat /\ prevFront[t].base \in Nat
        /\ BaseAt(t) /\ TileAt(t) /\ prev[t] = NoToken
        /\ last[t] = NoToken => finished[t] = 0 /\ now = 0
    BY <1>1, Numbers DEF StateInv, TilesInv, QuietInv, TileAt
  <2>2. BaseAt(t)' /\ front'[t].base <= now'
    BY <1>1, <2>1 DEF BaseAt
  <2>3. TileAt(t)'
    BY <1>1, <2>1 DEF TileAt, Seated
  <2> QED
    BY <1>1, <2>1, <2>2, <2>3
<1>3. ClockInv' /\ TilesInv'
  BY <1>1, <1>2 DEF ClockInv, TilesInv
<1>4. QuietInv' /\ ExternalsInv'
  BY <1>1, <1>2 DEF QuietInv, ExternalsInv
<1>5. InternalsInv'
  <2> SUFFICES ASSUME NEW t \in Internals
               PROVE  /\ Kept(t)' /\ posted'[t] = shown'[t]
                      /\ shown'[t] = NoToken => finished'[t] = 0 /\ now' <= 1
    BY DEF InternalsInv
  <2>1. last[t] = shown[t] /\ posted[t] = shown[t]
    BY <1>1 DEF StateInv, QuietInv
  <2> QED
    BY <1>1, <1>2, <2>1, InternalTimelines DEF Kept
<1>6. DecidedInv'
  BY <1>1 DEF StateInv, DecidedInv, Searching, Decided
<1> QED
  BY <1>3, <1>4, <1>5, <1>6 DEF StateInv

(* The Internal timelines while the External ones are observed.            *)
LEMMA InternalsAside ==
  ASSUME StateInv, Running, Running', UNCHANGED <<now, shown>>,
         \A t \in Internals : SameAt(t) /\ finished'[t] = finished[t] /\ posted'[t] = posted[t]
  PROVE  InternalsInv'
  BY DEF StateInv, InternalsInv, SameAt, Kept, Replaced

LEMMA ObserveKeeps ==
  ASSUME StateInv, TypeOK', NEW S \in SUBSET Externals, NEW val \in [Externals -> Preds],
         Observe(S, val)
  PROVE  StateInv'
<1>1. /\ mode = "observe" /\ mode' = "commit" /\ now \in Nat /\ now >= 1 /\ TypeOK
      /\ UNCHANGED <<now, todo, finished, posted, shown>>
      /\ {t \in Externals : last[t] = NoToken} \subseteq S
  BY DEF StateInv, TypeOK, ClockInv, Observe, committedState
<1>2. ASSUME NEW t \in Timelines \ S PROVE SameAt(t)
  BY DEF Observe, SameAt
<1>3. ASSUME NEW t \in S
      PROVE  /\ last'[t] # NoToken /\ last'[t].start = now
             /\ prev'[t] = last[t] /\ prevFront'[t] = front[t]
             /\ front'[t].base = now + 1
  <2>1. [pred |-> val[t], start |-> now] # NoToken
    BY StateAssumption DEF NoToken
  <2> QED
    BY <2>1, InternalTimelines DEF Observe
<1>4. ASSUME NEW t \in Timelines PROVE BaseAt(t)' /\ TileAt(t)'
  <2>1. /\ BaseAt(t) /\ TileAt(t) /\ prev[t] = NoToken
        /\ front[t].base \in Nat /\ finished[t] \in Nat
    BY <1>1, Numbers DEF StateInv, TilesInv, QuietInv
  <2>2. CASE t \in S
    BY <1>1, <1>3, <2>1, <2>2 DEF BaseAt, TileAt, Seated
  <2>3. CASE t \notin S
    BY <1>1, <1>2, <2>1, <2>3 DEF BaseAt, TileAt, Seated, SameAt
  <2> QED
    BY <2>2, <2>3
<1>5. ClockInv' /\ TilesInv' /\ QuietInv'
  BY <1>1, <1>4 DEF ClockInv, TilesInv, QuietInv
<1>6. ExternalsInv'
  BY <1>1, <1>2, <1>3, InternalTimelines DEF ExternalsInv, SameAt
<1>7. InternalsInv'
  BY <1>1, <1>2, InternalTimelines, InternalsAside DEF Running
<1>8. DecidedInv'
  BY <1>1 DEF StateInv, DecidedInv, Searching, Decided
<1> QED
  BY <1>5, <1>6, <1>7, <1>8 DEF StateInv

LEMMA CommitExternalsKeeps ==
  ASSUME StateInv, TypeOK', NEW S \in SUBSET Externals, Commit(S),
         mode = "commit", mode' = "failed" \/ (mode' = "search" /\ S = Externals),
         UNCHANGED <<now, todo, shown>>
  PROVE  StateInv'
<1>1. S \in SUBSET Timelines /\ TypeOK /\ ClockInv
  BY InternalTimelines DEF StateInv
<1>2. ASSUME NEW t \in Timelines
      PROVE  /\ BaseAt(t)' /\ TileAt(t)' /\ last'[t] = last[t]
             /\ t \in S => prev'[t] = NoToken /\ front'[t].base = now + 1
  BY <1>1, CommitKeeps, CommitEffect DEF StateInv, TilesInv
<1>3. ClockInv' /\ TilesInv' /\ QuietInv'
  BY <1>1, <1>2 DEF ClockInv, TilesInv, QuietInv
<1>4. ExternalsInv'
  BY <1>2, InternalTimelines DEF StateInv, ExternalsInv, Running
<1>5. InternalsInv'
  <2>1. ASSUME NEW t \in Internals
        PROVE  SameAt(t) /\ finished'[t] = finished[t] /\ posted'[t] = posted[t]
    BY <1>1, InternalTimelines, CommitEffect
  <2> QED
    BY <2>1, InternalsAside DEF Running
<1>6. DecidedInv'
  <2>1. Decided' = {}
    BY DEF StateInv, DecidedInv, Searching, Decided
  <2> QED
    BY <2>1 DEF DecidedInv
<1> QED
  BY <1>3, <1>4, <1>5, <1>6 DEF StateInv

LEMMA SolveKeeps ==
  ASSUME StateInv, TypeOK', Solve
  PROVE  StateInv'
<1>1. /\ mode = "search" /\ mode' = "solved" /\ Commit(Internals) /\ TypeOK /\ ClockInv
      /\ UNCHANGED <<now, shown>> /\ Internals \in SUBSET Timelines
      /\ todo' = [t \in Timelines |-> << >>]
  BY InternalTimelines DEF Solve, StateInv
<1>2. ASSUME NEW t \in Timelines
      PROVE  /\ BaseAt(t)' /\ TileAt(t)' /\ last'[t] = last[t]
             /\ prev'[t] = NoToken /\ front'[t].base = now + 1
  <2>1. /\ BaseAt(t)' /\ TileAt(t)' /\ last'[t] = last[t]
        /\ t \in Internals => prev'[t] = NoToken /\ front'[t].base = now + 1
    BY <1>1, CommitKeeps, CommitEffect DEF StateInv, TilesInv
  <2>2. t \in Externals => prev'[t] = NoToken /\ front'[t].base = now + 1
    BY <1>1, InternalTimelines, CommitEffect DEF StateInv, ExternalsInv, SameAt
  <2> QED
    BY <2>1, <2>2, InternalTimelines
<1>3. ASSUME NEW t \in Timelines PROVE last[t] # NoToken
  <2>1. CASE t \in Internals
    BY <1>1, <2>1 DEF Solve, Flaws, Identified
  <2>2. CASE t \in Externals
    BY <1>1, <2>2 DEF StateInv, ExternalsInv, Running
  <2> QED
    BY <2>1, <2>2, InternalTimelines
<1>4. ASSUME NEW t \in Internals
      PROVE  posted'[t] = last'[t] /\ (last'[t] = shown'[t] \/ last'[t].start = now')
  <2>1. posted[t] = shown[t] /\ (Kept(t) \/ Replaced(t))
    BY <1>1 DEF StateInv, InternalsInv, Running
  <2>2. /\ last'[t] = last[t]
        /\ posted'[t] = IF ~CheckCommitted(t) /\ last[t].start = now THEN last[t] ELSE posted[t]
    BY <1>1, InternalTimelines, CommitEffect
  <2>3. CASE Kept(t)
    BY <1>1, <2>1, <2>2, <2>3 DEF Kept
  <2>4. CASE Replaced(t)
    BY <1>1, <2>2, <2>4 DEF Replaced, CheckCommitted
  <2> QED
    BY <2>1, <2>3, <2>4
<1>5. ClockInv' /\ TilesInv' /\ QuietInv' /\ ExternalsInv' /\ InternalsInv'
  BY <1>1, <1>2, <1>3, <1>4
  DEF ClockInv, TilesInv, QuietInv, ExternalsInv, InternalsInv, Running
<1>6. DecidedInv'
  BY <1>1, InternalTimelines DEF DecidedInv, Searching, Decided
<1> QED
  BY <1>5, <1>6 DEF StateInv

LEMMA PublishKeeps ==
  ASSUME StateInv, TypeOK', Publish
  PROVE  StateInv'
<1>1. /\ mode = "solved" /\ mode' = "idle" /\ shown' = posted
      /\ UNCHANGED <<now, last, prev, front, prevFront, todo, finished, posted>>
  BY DEF Publish, committedState
<1>2. ClockInv' /\ ExternalsInv' /\ InternalsInv'
  BY <1>1 DEF ClockInv, ExternalsInv, InternalsInv, Running
<1>3. TilesInv' /\ QuietInv'
  BY <1>1 DEF StateInv, TilesInv, QuietInv, BaseAt, TileAt, Seated
<1>4. DecidedInv'
  BY <1>1 DEF StateInv, DecidedInv, Searching, Decided
<1> QED
  BY <1>2, <1>3, <1>4 DEF StateInv

LEMMA RelaxKeeps ==
  ASSUME StateInv, TypeOK', Relax
  PROVE  StateInv'
<1>1. /\ mode = "failed" /\ mode' = "commit" /\ TypeOK
      /\ UNCHANGED <<now, last, prev, prevFront, todo, finished, posted, shown>>
  BY DEF StateInv, Relax, committedState
<1>2. ASSUME NEW t \in Timelines
      PROVE  /\ front'[t].base = front[t].base
             /\ front'[t].date = front[t].date \/ front'[t].date = front[t].base
  <2>1. front[t] \in TimePoint
    BY <1>1 DEF TypeOK
  <2>2. /\ [front[t] EXCEPT !.date = front[t].base].base = front[t].base
        /\ [front[t] EXCEPT !.date = front[t].base].date = front[t].base
    BY <2>1 DEF TimePoint
  <2> QED
    BY <2>2 DEF Relax
<1>3. ClockInv' /\ QuietInv'
  BY <1>1 DEF StateInv, ClockInv, QuietInv
<1>4. TilesInv'
  BY <1>1, <1>2 DEF StateInv, TilesInv, BaseAt, TileAt, Seated
<1>5. ExternalsInv'
  BY <1>1 DEF StateInv, ExternalsInv, Running
<1>6. InternalsInv'
  <2>1. ASSUME NEW t \in Internals PROVE Kept(t)' \/ Replaced(t)'
    <3>1. now \in Nat /\ t \in Timelines /\ front[t].base \in Nat
      BY <1>1, Numbers, InternalTimelines
    <3>2. CASE Kept(t)
      BY <1>1, <1>2, <3>1, <3>2 DEF Kept
    <3>3. CASE Replaced(t)
      BY <1>1, <1>2, <3>1, <3>3 DEF Replaced
    <3> QED
      BY <1>1, <3>2, <3>3 DEF StateInv, InternalsInv, Running
  <2> QED
    BY <1>1, <2>1 DEF StateInv, InternalsInv, Running
<1>7. DecidedInv'
  BY <1>1 DEF StateInv, DecidedInv, Searching, Decided
<1> QED
  BY <1>3, <1>4, <1>5, <1>6, <1>7 DEF StateInv

(* The steps of the search that move nothing but mode, attempt, or forget  *)
(* the decisions.                                                          *)
LEMMA ModeKeeps ==
  ASSUME StateInv, TypeOK',
         \/ Inconsistent \/ Exhaust \/ Cut \/ Forget
         \/ RelaxFails \/ GiveUp \/ LastPropagationFails
  PROVE  StateInv'
<1>1. /\ UNCHANGED <<now, last, prev, front, prevFront, finished, posted, shown>>
      /\ mode # "idle" /\ mode' \notin {"idle", "observe", "solved", "commit"}
      /\ mode' # "killed" => Running /\ mode # "observe"
  BY DEF Inconsistent, Exhaust, Cut, Forget, RelaxFails, GiveUp, LastPropagationFails,
         committedState, Running
<1>2. ClockInv'
  BY <1>1 DEF StateInv, ClockInv
<1>3. TilesInv'
  BY <1>1 DEF StateInv, TilesInv, BaseAt, TileAt, Seated, Running
<1>4. QuietInv'
  BY <1>1 DEF QuietInv
<1>5. ExternalsInv'
  <2>1. mode' \in {"search", "undo", "retry", "exhausted", "cut"} =>
          mode \in {"search", "undo", "retry"}
    BY DEF Inconsistent, Exhaust, Cut, Forget, RelaxFails, GiveUp, LastPropagationFails
  <2> QED
    BY <1>1, <2>1 DEF StateInv, ExternalsInv, Running
<1>6. InternalsInv'
  BY <1>1 DEF StateInv, InternalsInv, Running, Kept, Replaced
<1>7. DecidedInv'
  <2>1. CASE Inconsistent
    <3>1. Decided' = Decided /\ mode = "search" /\ mode' = "undo" /\ todo' = todo
      BY <2>1 DEF Inconsistent, Decided
    <3>2. ASSUME NEW t \in Decided PROVE DecisionAt(t)'
      <4>1. DecisionAt(t) /\ ~Pending(t) /\ ~Pending(t)'
        BY <3>1 DEF StateInv, DecidedInv, Searching, Pending
      <4> QED
        BY <1>1, <3>1, <4>1 DEF DecisionAt, Kept, Replaced
    <3> QED
      BY <3>1, <3>2 DEF DecidedInv, Searching
  <2>2. CASE Exhaust \/ Cut
    BY <2>2 DEF Exhaust, Cut, DecidedInv, Searching, Decided
  <2>3. CASE Forget
    BY <2>3, InternalTimelines DEF Forget, DecidedInv, Searching, Decided
  <2>4. CASE RelaxFails \/ GiveUp \/ LastPropagationFails
    BY <2>4 DEF RelaxFails, GiveUp, LastPropagationFails, StateInv, DecidedInv, Searching, Decided
  <2> QED
    BY <2>1, <2>2, <2>3, <2>4
<1> QED
  BY <1>2, <1>3, <1>4, <1>5, <1>6, <1>7 DEF StateInv

LEMMA InitInv == Init => StateInv
<1> SUFFICES ASSUME Init PROVE StateInv
  OBVIOUS
<1>1. TypeOK
  BY TypeInit
<1>2. ClockInv /\ ExternalsInv /\ InternalsInv
  BY DEF Init, ClockInv, ExternalsInv, InternalsInv, Running
<1>3. TilesInv
  BY DEF Init, TilesInv, BaseAt, TileAt, NoPoint
<1>4. QuietInv
  BY InternalTimelines DEF Init, QuietInv
<1>5. DecidedInv
  BY InternalTimelines DEF Init, DecidedInv, Searching, Decided
<1> QED
  BY <1>1, <1>2, <1>3, <1>4, <1>5 DEF StateInv

LEMMA NextInv == StateInv /\ [Next]_stateVars => StateInv'
<1> SUFFICES ASSUME StateInv, [Next]_stateVars PROVE StateInv'
  OBVIOUS
<1>1. TypeOK'
  BY TypeNext DEF StateInv
<1>2. CASE TickStart
  BY <1>1, <1>2, TickStartKeeps
<1>3. ASSUME NEW S \in SUBSET Externals, NEW val \in [Externals -> Preds], Observe(S, val)
      PROVE  StateInv'
  BY <1>1, <1>3, ObserveKeeps
<1>4. CASE CommitExternals
  BY <1>1, <1>4, CommitExternalsKeeps DEF CommitExternals
<1>5. ASSUME NEW t \in Externals, CommitExternalsFails(t) PROVE StateInv'
  <2> DEFINE S == {u \in Externals : u < t \/ (u = t /\ CanCommit(t))}
  <2>1. Commit(S) /\ S \in SUBSET Externals
    BY <1>5 DEF CommitExternalsFails
  <2> HIDE DEF S
  <2> QED
    BY <1>1, <1>5, <2>1, CommitExternalsKeeps DEF CommitExternalsFails
<1>6. ASSUME NEW t \in Internals, Decide(t) \/ Undo(t) \/ Retry(t) PROVE StateInv'
  BY <1>1, <1>6, DecideKeeps, UndoKeeps, RetryKeeps
<1>7. CASE Inconsistent \/ Exhaust \/ Cut \/ Forget
           \/ RelaxFails \/ GiveUp \/ LastPropagationFails
  BY <1>1, <1>7, ModeKeeps
<1>8. CASE Relax
  BY <1>1, <1>8, RelaxKeeps
<1>9. CASE Solve
  BY <1>1, <1>9, SolveKeeps
<1>10. CASE Publish
  BY <1>1, <1>10, PublishKeeps
<1>11. CASE UNCHANGED stateVars
  <2>1. UNCHANGED <<now, mode, last, prev, front, prevFront, todo, finished, posted, shown>>
    BY <1>11 DEF stateVars
  <2>2. ClockInv' /\ TilesInv' /\ QuietInv' /\ ExternalsInv'
    BY <2>1 DEF StateInv, ClockInv, TilesInv, QuietInv, ExternalsInv, BaseAt, TileAt, Seated, Running
  <2>3. InternalsInv'
    BY <2>1 DEF StateInv, InternalsInv, Kept, Replaced, Running
  <2>4. DecidedInv'
    BY <2>1 DEF StateInv, DecidedInv, DecisionAt, Searching, Decided, Pending, IsTop, Kept, Replaced
  <2> QED
    BY <1>1, <2>2, <2>3, <2>4 DEF StateInv
<1> QED
  BY <1>2, <1>3, <1>4, <1>5, <1>6, <1>7, <1>8, <1>9, <1>10, <1>11 DEF Next, Synchronize

LEMMA InvHolds == Spec => []StateInv
  BY InitInv, NextInv, PTL DEF Spec

-----------------------------------------------------------------------------
(* The first attempt                                                       *)

(* What an exhausted search restores takes more than StateInv: the dates   *)
(* that the choices pushed, and that only an observation can be extended.  *)
FirstTry ==
  attempt = 1 /\ mode \in {"observe", "commit", "search", "undo", "retry", "exhausted"}

ShownInv == mode # "killed" => \A t \in Internals :
  shown[t].start <= now /\ (mode # "idle" => shown[t].start < now)

DateInv == mode # "killed" => \A t \in Timelines :
  front[t].date <= now + 1 /\ prevFront[t].date <= now + 1

TodoInv == Running => \A t \in Internals : shown[t] = NoToken => todo[t] \in Seq(Fresh)

FirstTryAt(t) ==
  IF t \in Decided /\ ~Pending(t)
    THEN Head(todo[t]).kind # "extend" => prevFront[t].date <= now
    ELSE Kept(t) /\ front[t].date <= now

SearchInv ==
  /\ StateInv
  /\ ShownInv
  /\ DateInv
  /\ TodoInv
  /\ FirstTry => \A t \in Internals : FirstTryAt(t)

LEMMA ShownNext ==
  ASSUME StateInv, ShownInv, StateInv', [Next]_stateVars
  PROVE  ShownInv'
<1>0. /\ now \in Nat
      /\ \A t \in Internals : shown[t].start \in Nat /\ last[t].start \in Nat
  <2>1. \A tok \in Token \cup {NoToken} : tok.start \in Nat
    BY DEF Token, NoToken
  <2> QED
    BY <2>1, InternalTimelines DEF StateInv, TypeOK
<1>1. CASE TickStart
  BY <1>0, <1>1 DEF TickStart, ShownInv
<1>2. CASE Publish
  <2>1. \A t \in Internals : posted[t] = last[t] /\ (last[t] = shown[t] \/ last[t].start = now)
    BY <1>2 DEF StateInv, QuietInv, Publish
  <2> QED
    BY <1>0, <1>2, <2>1 DEF ShownInv, Publish
<1>3. CASE UNCHANGED <<now, shown>> /\ (mode' # "killed" => mode # "killed")
           /\ (mode' # "idle" => mode # "idle")
  BY <1>3 DEF ShownInv
<1>4. CASE UNCHANGED stateVars
  BY <1>3, <1>4 DEF stateVars
<1>5. CASE \E S \in SUBSET Externals, val \in [Externals -> Preds] : Observe(S, val)
  BY <1>3, <1>5 DEF Observe
<1>6. CASE \E t \in Externals : CommitExternalsFails(t)
  BY <1>3, <1>6 DEF CommitExternalsFails
<1>7. CASE \E t \in Internals : Decide(t) \/ Undo(t) \/ Retry(t)
  BY <1>3, <1>7 DEF Decide, Undo, Retry
<1>8. CASE CommitExternals \/ Inconsistent \/ Exhaust \/ Cut \/ Forget \/ Relax
           \/ RelaxFails \/ GiveUp \/ Solve \/ LastPropagationFails
  BY <1>3, <1>8 DEF CommitExternals, Inconsistent, Exhaust, Cut, Forget, Relax,
                    RelaxFails, GiveUp, Solve, LastPropagationFails
<1> QED
  BY <1>1, <1>2, <1>4, <1>5, <1>6, <1>7, <1>8 DEF Next, Synchronize

LEMMA DateNext ==
  ASSUME StateInv, DateInv, StateInv', [Next]_stateVars
  PROVE  DateInv'
<1> DEFINE DateAt(t) == front[t].date <= now + 1 /\ prevFront[t].date <= now + 1
<1>0. TypeOK /\ now \in Nat
  BY DEF StateInv, TypeOK
<1>1. CASE TickStart
  <2>1. ASSUME NEW t \in Timelines PROVE DateAt(t)'
    BY <1>0, <1>1, <2>1, Numbers DEF TickStart, DateInv
  <2> QED
    BY <2>1 DEF DateInv
<1>2. CASE UNCHANGED <<now, front, prevFront>> /\ (mode' # "killed" => mode # "killed")
  BY <1>2 DEF DateInv
<1>3. ASSUME NEW S \in SUBSET Externals, NEW val \in [Externals -> Preds], Observe(S, val)
      PROVE  DateInv'
  <2>1. ASSUME NEW t \in Timelines PROVE DateAt(t)'
    BY <1>0, <1>3, <2>1, InternalTimelines, Numbers DEF Observe, DateInv
  <2> QED
    BY <2>1 DEF DateInv
<1>4. ASSUME NEW S \in SUBSET Timelines, Commit(S), now' = now, mode # "killed"
      PROVE  DateInv'
  <2>1. ASSUME NEW t \in Timelines PROVE DateAt(t)'
    <3>1. /\ front[t].date \in Nat /\ prevFront[t].date \in Nat /\ DateAt(t)
          /\ NoPoint.date = 0
      BY <1>0, <1>4, Numbers DEF DateInv, NoPoint
    <3>2. CASE t \notin S \/ CheckCommitted(t)
      BY <1>0, <1>4, <3>1, <3>2, CommitEffect DEF SameAt
    <3>3. CASE t \in S /\ ~CheckCommitted(t)
      <4>1. /\ front'[t].date = IF front[t].date > now THEN front[t].date ELSE now + 1
            /\ prevFront'[t] = prevFront[t] \/ prevFront'[t] = NoPoint
        BY <1>0, <1>4, <3>3, CommitEffect
      <4> QED
        BY <1>0, <1>4, <3>1, <4>1
    <3> QED
      BY <3>2, <3>3
  <2> QED
    BY <2>1 DEF DateInv
<1>5. ASSUME NEW t \in Internals, NEW c \in Choice, Execute(t, c) \/ TakeBack(t, c),
             now' = now, mode # "killed"
      PROVE  DateInv'
  <2>1. ASSUME NEW u \in Timelines \ {t} PROVE DateAt(u)'
    BY <1>0, <1>5, ExecuteEffect, TakeBackEffect DEF SameAt, DateInv
  <2>2. /\ t \in Timelines /\ front[t].date \in Nat /\ front[t].base \in Nat
        /\ prevFront[t].date \in Nat /\ DateAt(t) /\ BaseAt(t)
    BY <1>0, <1>5, InternalTimelines, Numbers DEF DateInv, StateInv, TilesInv
  <2>3. CASE Execute(t, c)
    <3>1. DateAt(t)'
      <4>1. CASE c.kind = "extend"
        BY <1>0, <1>5, <2>2, <2>3, <4>1, ExecuteEffect
      <4>2. CASE c.kind # "extend"
        BY <1>0, <1>5, <2>2, <2>3, <4>2, ExecuteEffect
      <4> QED
        BY <4>1, <4>2
    <3> QED
      BY <2>1, <3>1 DEF DateInv
  <2>4. CASE TakeBack(t, c)
    <3>1. DateAt(t)'
      <4>1. CASE c.kind = "extend"
        BY <1>0, <1>5, <2>2, <2>4, <4>1, TakeBackEffect DEF BaseAt
      <4>2. CASE c.kind # "extend"
        BY <1>0, <1>5, <2>2, <2>4, <4>2, TakeBackEffect DEF NoPoint
      <4> QED
        BY <4>1, <4>2
    <3> QED
      BY <2>1, <3>1 DEF DateInv
  <2> QED
    BY <1>5, <2>3, <2>4
<1>6. CASE Relax
  <2>1. ASSUME NEW t \in Timelines PROVE DateAt(t)'
    <3>1. front[t] \in TimePoint /\ DateAt(t) /\ BaseAt(t)
      BY <1>0, <1>6 DEF TypeOK, DateInv, StateInv, TilesInv, Relax
    <3>2. [front[t] EXCEPT !.date = front[t].base].date = front[t].base
      BY <3>1 DEF TimePoint
    <3> QED
      BY <1>6, <3>1, <3>2 DEF Relax, BaseAt
  <2> QED
    BY <2>1 DEF DateInv
<1>7. CASE UNCHANGED stateVars
  BY <1>2, <1>7 DEF stateVars
<1>8. ASSUME NEW t \in Externals, CommitExternalsFails(t) PROVE DateInv'
  <2> DEFINE S == {u \in Externals : u < t \/ (u = t /\ CanCommit(t))}
  <2>1. Commit(S) /\ S \in SUBSET Timelines
    BY <1>8, InternalTimelines DEF CommitExternalsFails
  <2> HIDE DEF S
  <2> QED
    BY <1>4, <1>8, <2>1 DEF CommitExternalsFails
<1>9. CASE CommitExternals \/ Solve
  BY <1>4, <1>9, InternalTimelines DEF CommitExternals, Solve
<1>10. ASSUME NEW t \in Internals, Decide(t) PROVE DateInv'
  <2>1. Head(Choices(t)) \in Choice
    BY <1>0, ChoicesType, HeadTailProperties
  <2> QED
    BY <1>5, <1>10, <2>1 DEF Decide
<1>11. ASSUME NEW t \in Internals, Undo(t) \/ Retry(t) PROVE DateInv'
  <2>1. Head(todo[t]) \in Choice
    BY <1>0, <1>11, DecidedTodo DEF Undo, Retry, IsTop, Decided
  <2> QED
    BY <1>5, <1>11, <2>1 DEF Undo, Retry
<1>12. CASE Inconsistent \/ Exhaust \/ Cut \/ Forget
            \/ RelaxFails \/ GiveUp \/ Publish \/ LastPropagationFails
  BY <1>2, <1>12 DEF Inconsistent, Exhaust, Cut, Forget, RelaxFails, GiveUp, Publish,
                     LastPropagationFails
<1> QED
  BY <1>1, <1>3, <1>6, <1>7, <1>8, <1>9, <1>10, <1>11, <1>12 DEF Next, Synchronize

LEMMA TodoNext ==
  ASSUME StateInv, TodoInv, StateInv', [Next]_stateVars
  PROVE  TodoInv'
<1>1. CASE TickStart
  <2>1. \A t \in Internals : todo'[t] = << >>
    BY <1>1 DEF StateInv, DecidedInv, Searching, Decided, TickStart
  <2> QED
    BY <2>1, EmptySeq DEF TodoInv
<1>2. CASE UNCHANGED <<shown, todo>> /\ (mode' \notin {"idle", "solved", "killed"} => Running)
  BY <1>2 DEF TodoInv, Running
<1>3. ASSUME NEW t \in Internals, Decide(t) PROVE TodoInv'
  <2>1. ~Identified(t) /\ mode = "search" /\ TypeOK /\ t \in Timelines
    BY <1>3, InternalTimelines DEF Decide, IsNextFlaw, Flaws, StateInv
  <2>2. shown[t] = NoToken => Choices(t) \in Seq(Fresh)
    BY <2>1, FlawIsKept, ChoicesType DEF Kept
  <2>3. \A u \in Internals : todo'[u] = IF u = t THEN Choices(t) ELSE todo[u]
    BY <1>3, <2>1, InternalTimelines DEF Decide, TypeOK
  <2> QED
    BY <1>3, <2>1, <2>2, <2>3 DEF Decide, TodoInv, Running
<1>4. ASSUME NEW t \in Internals, Undo(t) PROVE TodoInv'
  <2>1. mode = "undo" /\ TypeOK /\ t \in Timelines /\ todo[t] # << >>
    BY <1>4, InternalTimelines DEF Undo, IsTop, Decided, StateInv
  <2>2. \A u \in Internals : todo'[u] = IF u = t THEN Tail(todo[t]) ELSE todo[u]
    BY <1>4, <2>1, InternalTimelines DEF Undo, TypeOK
  <2>3. shown[t] = NoToken => Tail(todo[t]) \in Seq(Fresh)
    BY <2>1, HeadTailProperties DEF TodoInv, Running
  <2> QED
    BY <1>4, <2>1, <2>2, <2>3 DEF Undo, TodoInv, Running
<1>5. CASE Forget
  BY <1>5, InternalTimelines, EmptySeq DEF Forget, TodoInv
<1>6. CASE Solve \/ Publish \/ GiveUp \/ LastPropagationFails
  BY <1>6 DEF Solve, Publish, GiveUp, LastPropagationFails, TodoInv, Running
<1>7. CASE \E S \in SUBSET Externals, val \in [Externals -> Preds] : Observe(S, val)
  BY <1>2, <1>7 DEF Observe, Running
<1>8. CASE \E t \in Externals : CommitExternalsFails(t)
  BY <1>2, <1>8 DEF CommitExternalsFails, Running
<1>9. CASE \E t \in Internals : Retry(t)
  BY <1>2, <1>9 DEF Retry, Running
<1>10. CASE CommitExternals \/ Inconsistent \/ Exhaust \/ Cut \/ Relax \/ RelaxFails
  BY <1>2, <1>10 DEF CommitExternals, Inconsistent, Exhaust, Cut, Relax, RelaxFails, Running
<1>11. CASE UNCHANGED stateVars
  BY <1>2, <1>11 DEF stateVars, Running
<1> QED
  BY <1>1, <1>3, <1>4, <1>5, <1>6, <1>7, <1>8, <1>9, <1>10, <1>11 DEF Next, Synchronize

(* The timelines a step does not touch.                                    *)
LEMMA FirstTrySame ==
  ASSUME NEW u \in Timelines, SameAt(u), todo'[u] = todo[u], UNCHANGED <<now, shown>>,
         (u \in Decided' /\ ~Pending(u)') <=> (u \in Decided /\ ~Pending(u)), FirstTryAt(u)
  PROVE  FirstTryAt(u)'
  BY DEF SameAt, FirstTryAt, Kept

LEMMA FirstTryNext ==
  ASSUME SearchInv, StateInv', [Next]_stateVars, FirstTry', NEW u \in Internals
  PROVE  FirstTryAt(u)'
<1>0. /\ StateInv /\ TypeOK /\ now \in Nat /\ u \in Timelines /\ attempt \in 1 .. 3
      /\ FirstTry => \A t \in Internals : FirstTryAt(t)
  BY InternalTimelines DEF SearchInv, StateInv, TypeOK
<1>1. CASE TickStart
  <2>1. u \notin Decided' /\ now' = now + 1 /\ mode' = "observe" /\ mode = "idle" /\ front' = front
    BY <1>0, <1>1 DEF StateInv, DecidedInv, Searching, Decided, TickStart
  <2>2. front[u].base \in Nat /\ BaseAt(u) /\ front[u].date <= now + 1
    BY <1>0, <2>1, Numbers DEF StateInv, TilesInv, SearchInv, DateInv
  <2>3. Kept(u)'
    <3>1. Kept(u)' \/ Replaced(u)'
      BY <2>1 DEF StateInv, InternalsInv, Running
    <3> QED
      BY <1>0, <2>1, <2>2, <3>1 DEF BaseAt, Replaced
  <2> QED
    BY <2>1, <2>2, <2>3 DEF FirstTryAt
<1>2. CASE /\ FirstTry /\ SameAt(u) /\ UNCHANGED <<now, shown, todo>>
           /\ mode # "retry" /\ mode' # "retry"
  BY <1>0, <1>2, FirstTrySame DEF Pending, Decided
<1>3. ASSUME NEW S \in SUBSET Externals, NEW val \in [Externals -> Preds], Observe(S, val)
      PROVE  FirstTryAt(u)'
  <2>1. SameAt(u) /\ FirstTry
    BY <1>0, <1>3, InternalTimelines DEF Observe, SameAt, FirstTry
  <2> QED
    BY <1>2, <1>3, <2>1 DEF Observe
<1>4. CASE CommitExternals
  <2>1. Commit(Externals) /\ Externals \in SUBSET Timelines /\ u \notin Externals
    BY <1>4, InternalTimelines DEF CommitExternals
  <2>2. SameAt(u) /\ FirstTry
    BY <1>0, <1>4, <2>1, CommitEffect DEF CommitExternals, FirstTry
  <2> QED
    BY <1>2, <1>4, <2>2 DEF CommitExternals
<1>5. ASSUME NEW t \in Internals, Decide(t) PROVE FirstTryAt(u)'
  <2> DEFINE c == Head(Choices(t))
  <2>1. /\ ~Identified(t) /\ mode = "search" /\ mode' = "search" /\ t \in Timelines
        /\ Execute(t, c) /\ UNCHANGED <<now, shown>> /\ FirstTry
        /\ todo' = [todo EXCEPT ![t] = Choices(t)]
    BY <1>0, <1>5, InternalTimelines DEF Decide, IsNextFlaw, Flaws, FirstTry, committedState
  <2>2. c \in Choice
    BY <1>0, ChoicesType, HeadTailProperties
  <2> HIDE DEF c
  <2>3. CASE u # t
    <3>1. SameAt(u) /\ todo'[u] = todo[u]
      BY <1>0, <2>1, <2>2, <2>3, ExecuteEffect DEF TypeOK
    <3> QED
      BY <1>0, <2>1, <3>1, FirstTrySame DEF Pending, Decided
  <2>4. CASE u = t
    <3>1. Kept(t) /\ ~Replaced(t) /\ (last[t] # NoToken => front[t].date <= now)
      BY <1>0, <2>1, FlawIsKept
    <3>2. front[t].date <= now
      <4>1. SUFFICES ASSUME last[t] = NoToken PROVE front[t].date <= now
        BY <3>1
      <4>2. t \notin Decided
        <5> SUFFICES ASSUME t \in Decided PROVE FALSE
          OBVIOUS
        <5>1. todo[t] \in Seq(Fresh) /\ todo[t] # << >>
          BY <2>1, <3>1, <4>1 DEF Kept, SearchInv, TodoInv, Running, Decided
        <5>2. Head(todo[t]).kind # "extend"
          BY <5>1, HeadTailProperties DEF Fresh
        <5>3. DecisionAt(t) /\ ~Pending(t)
          BY <1>0, <2>1 DEF StateInv, DecidedInv, Searching, Pending
        <5> QED
          BY <3>1, <5>2, <5>3 DEF DecisionAt
      <4> QED
        BY <1>0, <2>1, <4>2 DEF FirstTryAt
    <3>3. todo'[t] = Choices(t) /\ t \in Decided' /\ ~Pending(t)'
      BY <1>0, <2>1, ChoicesType DEF TypeOK, Decided, Pending
    <3>4. c.kind # "extend" => prevFront'[t] = front[t]
      BY <1>0, <2>1, <2>2, ExecuteEffect
    <3> QED
      BY <2>1, <2>4, <3>2, <3>3, <3>4 DEF FirstTryAt, c
  <2> QED
    BY <2>3, <2>4
<1>6. ASSUME NEW t \in Internals, Undo(t) PROVE FirstTryAt(u)'
  <2> DEFINE c == Head(todo[t])
  <2>1. /\ mode = "undo" /\ t \in Timelines /\ t \in Decided
        /\ TakeBack(t, c) /\ UNCHANGED <<now, shown, finished>> /\ FirstTry
    BY <1>0, <1>6, InternalTimelines DEF Undo, FirstTry, IsTop, committedState
  <2>2. c \in Choice
    BY <1>0, <2>1, DecidedTodo DEF Decided
  <2>3. CASE u # t
    <3>1. SameAt(u)
      BY <1>0, <2>1, <2>2, <2>3, TakeBackEffect
    <3>2. /\ todo'[u] = todo[u] /\ (u \in Decided' <=> u \in Decided)
          /\ ~Pending(u) /\ (u \in Decided' => ~Pending(u)')
      BY <1>0, <1>6, <2>3, UndoStack
    <3> QED
      BY <1>0, <2>1, <3>1, <3>2, FirstTrySame
  <2>4. CASE u = t
    <3>1. ~Pending(t) /\ FirstTryAt(t) /\ DecisionAt(t)
      BY <1>0, <2>1 DEF Pending, StateInv, DecidedInv, Searching
    <3>2. IF c.kind = "extend" THEN Kept(t) ELSE Replaced(t) /\ prevFront[t].date <= now
      BY <2>1, <3>1 DEF DecisionAt, FirstTryAt
    <3> HIDE DEF c
    <3>3. /\ Kept(t)'
          /\ BaseAt(t) /\ TileAt(t) /\ (shown[t] = NoToken => finished[t] = 0 /\ now <= 1)
      <4>1. BaseAt(t) /\ TileAt(t) /\ (shown[t] = NoToken => finished[t] = 0 /\ now <= 1)
        BY <1>0, <2>1 DEF StateInv, TilesInv, InternalsInv, Running
      <4> QED
        BY <1>0, <2>1, <2>2, <3>2, <4>1, TakeBackKeeps
    <3>4. front'[t].date <= now'
      <4>1. CASE c.kind = "extend"
        BY <1>0, <2>1, <2>2, <3>2, <4>1, TakeBackEffect DEF Kept
      <4>2. CASE c.kind # "extend"
        BY <1>0, <2>1, <2>2, <3>2, <4>2, TakeBackEffect
      <4> QED
        BY <4>1, <4>2
    <3>5. t \in Decided' => Pending(t)'
      BY <1>0, <1>6, UndoStack
    <3> QED
      BY <2>4, <3>3, <3>4, <3>5 DEF FirstTryAt
  <2> QED
    BY <2>3, <2>4
<1>7. ASSUME NEW t \in Internals, Retry(t) PROVE FirstTryAt(u)'
  <2> DEFINE c == Head(todo[t])
  <2>1. /\ mode = "retry" /\ mode' = "search" /\ IsTop(t) /\ t \in Timelines /\ t \in Decided
        /\ Execute(t, c) /\ UNCHANGED <<now, shown, todo>> /\ FirstTry
    BY <1>0, <1>7, InternalTimelines DEF Retry, FirstTry, IsTop
  <2>2. c \in Choice
    BY <1>0, <2>1, DecidedTodo DEF Decided
  <2>3. CASE u # t
    <3>1. SameAt(u)
      BY <1>0, <2>1, <2>2, <2>3, ExecuteEffect
    <3>2. (u \in Decided => ~Pending(u)) /\ ~Pending(u)' /\ (u \in Decided' <=> u \in Decided)
      BY <1>0, <2>1, <2>3 DEF Pending, IsTop, Decided, Timelines
    <3> QED
      BY <1>0, <2>1, <3>1, <3>2, FirstTrySame
  <2>4. CASE u = t
    <3>1. Pending(t) /\ front[t].date <= now
      BY <1>0, <2>1 DEF Pending, FirstTryAt
    <3>2. t \in Decided' /\ ~Pending(t)'
      BY <2>1 DEF Decided, Pending
    <3>3. c.kind # "extend" => prevFront'[t] = front[t]
      BY <1>0, <2>1, <2>2, ExecuteEffect
    <3> QED
      BY <2>1, <2>4, <3>1, <3>2, <3>3 DEF FirstTryAt
  <2> QED
    BY <2>3, <2>4
<1>8. CASE Inconsistent \/ Exhaust
  BY <1>2, <1>8 DEF Inconsistent, Exhaust, FirstTry, SameAt, committedState
<1>9. CASE Relax \/ RelaxFails
  <2>1. attempt \in 1 .. 3 /\ attempt' = attempt + 1 /\ attempt' = 1
    BY <1>0, <1>9 DEF Relax, RelaxFails, FirstTry
  <2> QED
    BY <2>1
<1>10. CASE UNCHANGED stateVars
  <2>1. UNCHANGED <<mode, attempt, todo>>
    BY <1>10 DEF stateVars
  <2>2. FirstTry /\ Decided' = Decided
    BY <2>1 DEF FirstTry, Decided
  <2>3. Pending(u)' <=> Pending(u)
    BY <2>1, <2>2 DEF Pending, IsTop
  <2> QED
    BY <1>0, <1>10, <2>1, <2>2, <2>3, FirstTrySame DEF stateVars, SameAt
<1>11. CASE Cut \/ Forget \/ GiveUp \/ Solve \/ Publish \/ LastPropagationFails
  BY <1>11 DEF Cut, Forget, GiveUp, Solve, Publish, LastPropagationFails, FirstTry
<1>12. CASE \E t \in Externals : CommitExternalsFails(t)
  BY <1>12 DEF CommitExternalsFails, FirstTry
<1> QED
  BY <1>1, <1>3, <1>4, <1>5, <1>6, <1>7, <1>8, <1>9, <1>10, <1>11, <1>12 DEF Next, Synchronize

LEMMA SearchInit == Init => SearchInv
<1> SUFFICES ASSUME Init PROVE SearchInv
  OBVIOUS
<1>1. StateInv
  BY InitInv
<1>2. ShownInv /\ DateInv /\ TodoInv
  BY DEF Init, ShownInv, DateInv, TodoInv, Running, NoToken, NoPoint
<1> QED
  BY <1>1, <1>2 DEF Init, SearchInv, FirstTry

LEMMA SearchNext == SearchInv /\ [Next]_stateVars => SearchInv'
  BY NextInv, ShownNext, DateNext, TodoNext, FirstTryNext DEF SearchInv

-----------------------------------------------------------------------------
(* Theorems                                                                *)

(* The tables of the timelines are what CurrentState declares.             *)
THEOREM TypeCorrect == Spec => []TypeOK
<1>1. StateInv => TypeOK
  BY DEF StateInv
<1> QED
  BY <1>1, InvHolds, PTL

(* Once the search is over the commit of do_synchronize, that ignores the  *)
(* possibility, cannot fail: however the choices were made and undone, an  *)
(* observation that is replaced is free to end now.                        *)
THEOREM CommitSafe == Spec => []CommitNeverFails
<1>1. StateInv => CommitNeverFails
  <2> SUFFICES ASSUME StateInv, mode = "search", Flaws = {}, NEW t \in Internals
               PROVE  /\ last[t] # NoToken
                      /\ prev[t] # NoToken => prevFront[t].date <= now
    BY DEF CommitNeverFails
  <2>1. last[t] # NoToken
    BY DEF Flaws, Identified
  <2>2. Kept(t) \/ Replaced(t)
    BY DEF StateInv, InternalsInv, Running
  <2> QED
    BY <2>1, <2>2 DEF Kept, Replaced
<1> QED
  BY <1>1, InvHolds, PTL

(* The observations of every timeline tile its past without gap or overlap *)
(* between two ticks, and the last one is what the agent shows, for any    *)
(* search, limit and number of attempts.                                   *)
THEOREM PastIsTiled == Spec => []ObservationsTile
<1>1. StateInv => ObservationsTile
  <2> SUFFICES ASSUME StateInv, mode = "idle", now > 0, NEW t \in Timelines
               PROVE  /\ last[t] # NoToken /\ prev[t] = NoToken
                      /\ last[t].start = IF finished[t] > 0 THEN finished[t] ELSE 1
                      /\ front[t].base = now + 1
                      /\ t \in Internals => shown[t] = last[t]
    BY DEF ObservationsTile
  <2> QED
    BY DEF StateInv, TilesInv, TileAt, QuietInv, Seated
<1> QED
  BY <1>1, InvHolds, PTL

(* Each step of the planner is a step of StateHistory or changes nothing   *)
(* of what it shows: Publish settles a state for all the timelines.        *)
LEMMA HistoryInit == Init => History!Init
<1> SUFFICES ASSUME Init PROVE History!Init
  OBVIOUS
<1> QED
  BY DEF Init, History!Init, NoToken

LEMMA PublishSettles ==
  ASSUME StateInv, Publish
  PROVE  History!Settle
<1> DEFINE S == {t \in Internals : shown[t] # posted[t]}
           v == [t \in Internals |-> posted[t].pred]
<1>1. ASSUME NEW t \in Internals
      PROVE  /\ posted[t] \in Token
             /\ posted[t] = shown[t] \/ posted[t].start = now
             /\ shown[t].pred = NoPred => shown[t] = NoToken
  <2>1. /\ posted[t] = last[t] /\ (last[t] = shown[t] \/ last[t].start = now)
        /\ last[t] # NoToken
    BY InternalTimelines DEF StateInv, QuietInv, Publish
  <2>2. posted[t] \in Token \cup {NoToken} /\ shown[t] \in Token \cup {NoToken}
    BY DEF StateInv, TypeOK
  <2>3. \A tok \in Token : tok.pred # NoPred
    BY StateAssumption DEF Token
  <2> QED
    BY <2>1, <2>2, <2>3
<1>2. S \in SUBSET Internals
  OBVIOUS
<1>3. v \in [Internals -> Preds]
  BY <1>1 DEF Token
<1>4. {t \in Internals : shown[t].pred = NoPred} \subseteq S
  BY <1>1, NoTokenIsNone
<1>5. \A t \in Internals :
        /\ shown'[t].pred = IF t \in S THEN v[t] ELSE shown[t].pred
        /\ shown'[t].start = IF t \in S THEN now ELSE shown[t].start
  BY <1>1 DEF Publish
<1>6. mode # "killed" /\ ~(mode = "idle") /\ mode' = "idle" /\ mode' # "killed" /\ now' = now
  BY DEF Publish
<1> HIDE DEF S, v
<1>7. \A t \in Internals : [u \in Internals |-> shown[u].pred][t] = shown[t].pred
  OBVIOUS
<1>8. /\ {t \in Internals : [u \in Internals |-> shown[u].pred][t] = NoPred} \subseteq S
      /\ [t \in Internals |-> shown'[t].pred]
           = [t \in Internals |-> IF t \in S THEN v[t] ELSE [u \in Internals |-> shown[u].pred][t]]
      /\ [t \in Internals |-> shown'[t].start]
           = [t \in Internals |-> IF t \in S THEN now ELSE [u \in Internals |-> shown[u].start][t]]
  BY <1>4, <1>5
<1> QED
  BY <1>2, <1>3, <1>6, <1>8 DEF History!Settle

LEMMA HistoryNext == StateInv /\ [Next]_stateVars => [History!Next]_(History!historyVars)
<1> SUFFICES ASSUME StateInv, [Next]_stateVars
             PROVE  [History!Next]_(History!historyVars)
  OBVIOUS
<1>1. CASE TickStart
  BY <1>1 DEF TickStart, History!Next, History!Tick
<1>2. CASE Publish
  BY <1>2, PublishSettles DEF History!Next
<1>3. CASE GiveUp \/ LastPropagationFails
  BY <1>3 DEF GiveUp, LastPropagationFails, History!Next, History!Die
<1>4. CASE UNCHANGED <<now, shown>> /\ mode # "idle" /\ mode' # "idle" /\ mode # "killed" /\ mode' # "killed"
  BY <1>4 DEF History!historyVars
<1>5. CASE UNCHANGED stateVars
  BY <1>5 DEF stateVars, History!historyVars
<1>6. ASSUME NEW S \in SUBSET Externals, NEW val \in [Externals -> Preds], Observe(S, val)
      PROVE  [History!Next]_(History!historyVars)
  BY <1>4, <1>6 DEF Observe
<1>7. ASSUME NEW t \in Externals, CommitExternalsFails(t)
      PROVE  [History!Next]_(History!historyVars)
  BY <1>4, <1>7 DEF CommitExternalsFails
<1>8. ASSUME NEW t \in Internals, Decide(t) \/ Undo(t) \/ Retry(t)
      PROVE  [History!Next]_(History!historyVars)
  BY <1>4, <1>8 DEF Decide, Undo, Retry
<1>9. CASE CommitExternals \/ Inconsistent \/ Exhaust \/ Cut \/ Forget
           \/ Relax \/ RelaxFails \/ Solve
  BY <1>4, <1>9
  DEF CommitExternals, Inconsistent, Exhaust, Cut, Forget, Relax, RelaxFails, Solve
<1> QED
  BY <1>1, <1>2, <1>3, <1>5, <1>6, <1>7, <1>8, <1>9 DEF Next, Synchronize

(* The planner implements StateHistory: what it publishes is one state for *)
(* all its timelines at each tick it survives, each value the one before   *)
(* or one that starts now.                                                 *)
THEOREM HistoryIsImplemented == Spec => ImplementsHistory
  BY HistoryInit, HistoryNext, InvHolds, PTL DEF Spec, ImplementsHistory, History!Spec

(* A search that has tried every choice has restored the state before it:  *)
(* the relaxed attempts start from the observations of the last tick.      *)
THEOREM ExhaustedRestores == Spec => []ExhaustedSearchRestores
<1>1. SearchInv => ExhaustedSearchRestores
  <2> SUFFICES ASSUME SearchInv, mode = "exhausted", attempt = 1, NEW t \in Internals
               PROVE  /\ prev[t] = NoToken
                      /\ last[t] # NoToken => last[t].start < now
                      /\ front[t].date <= now
    BY DEF ExhaustedSearchRestores
  <2>1. t \notin Decided
    BY DEF SearchInv, StateInv, DecidedInv, Searching
  <2>2. FirstTryAt(t)
    BY DEF SearchInv, FirstTry
  <2> QED
    BY <2>1, <2>2 DEF FirstTryAt, Kept, SearchInv, ShownInv
<1>2. Spec => []SearchInv
  BY SearchInit, SearchNext, PTL DEF Spec
<1> QED
  BY <1>1, <1>2, PTL

-----------------------------------------------------------------------------
(* The search ends                                                         *)

(* A choice that was made stands: its timeline is not a flaw any more, so  *)
(* it is not decided a second time while its decision is on the stack.     *)
Standing(t) == last[t] # NoToken /\ front[t].date > now

StandInv == Searching => \A t \in Decided : Pending(t) \/ Standing(t)

LEMMA ExecuteStands ==
  ASSUME TypeOK, NEW t \in Internals, NEW c \in Choice, Execute(t, c), now' = now,
         c.kind = "extend" => last[t] # NoToken
  PROVE  Standing(t)'
<1>1. t \in Timelines /\ front[t].date \in Nat /\ now \in Nat
  BY InternalTimelines, Numbers
<1>2. CASE c.kind = "extend"
  <2>1. last'[t] # NoToken /\ front'[t].date = IF front[t].date > now THEN front[t].date ELSE now + 1
    BY <1>2, ExecuteEffect
  <2> QED
    BY <1>1, <2>1 DEF Standing
<1>3. CASE c.kind # "extend"
  <2>1. last'[t] # NoToken /\ front'[t].date = now + 1
    BY <1>3, ExecuteEffect
  <2> QED
    BY <1>1, <2>1 DEF Standing
<1> QED
  BY <1>2, <1>3

LEMMA StandNext ==
  ASSUME SearchInv, StandInv, [Next]_stateVars
  PROVE  StandInv'
<1>0. StateInv /\ TypeOK /\ TodoInv
  BY DEF SearchInv, StateInv
<1>1. ASSUME NEW t \in Internals, Decide(t) PROVE StandInv'
  <2> DEFINE c == Head(Choices(t))
  <2>1. /\ t \in Timelines /\ mode = "search" /\ mode' = "search" /\ now' = now
        /\ todo' = [todo EXCEPT ![t] = Choices(t)]
        /\ Choices(t) \in Seq(Choice) /\ Choices(t) # << >>
        /\ last[t] = NoToken => Choices(t) \in Seq(Fresh)
    BY <1>0, <1>1, InternalTimelines, ChoicesType DEF Decide
  <2>2. c \in Choice /\ Execute(t, c)
    BY <1>1, <2>1, HeadTailProperties DEF Decide
  <2>3. c.kind = "extend" => last[t] # NoToken
    BY <2>1, HeadTailProperties DEF Fresh
  <2> HIDE DEF c
  <2>4. Standing(t)' /\ \A u \in Timelines \ {t} : SameAt(u)
    BY <1>0, <2>1, <2>2, <2>3, ExecuteStands, ExecuteEffect
  <2>5. ASSUME NEW u \in Decided', u # t PROVE Standing(u)'
    <3>1. u \in Timelines /\ u \in Decided
      BY <1>0, <2>1, <2>5, InternalTimelines DEF Decided, TypeOK
    <3>2. Standing(u)
      BY <2>1, <3>1 DEF StandInv, Searching, Pending
    <3> QED
      BY <2>1, <2>4, <2>5, <3>1, <3>2 DEF Standing, SameAt
  <2> QED
    BY <2>4, <2>5 DEF StandInv
<1>2. ASSUME NEW t \in Internals, Retry(t) PROVE StandInv'
  <2> DEFINE c == Head(todo[t])
  <2>1. /\ t \in Timelines /\ mode = "retry" /\ mode' = "search" /\ now' = now /\ todo' = todo
        /\ IsTop(t) /\ t \in Decided /\ todo[t] # << >>
    BY <1>2, InternalTimelines DEF Retry, IsTop, Decided
  <2>2. c \in Choice /\ Execute(t, c)
    BY <1>0, <1>2, <2>1, DecidedTodo DEF Retry
  <2>3. c.kind = "extend" => last[t] # NoToken
    <3>1. DecisionAt(t) /\ Pending(t)
      BY <1>0, <2>1 DEF StateInv, DecidedInv, Searching, Pending
    <3>2. last[t] = shown[t]
      BY <3>1 DEF DecisionAt, Kept
    <3>3. shown[t] = NoToken => todo[t] \in Seq(Fresh)
      BY <1>0, <2>1 DEF TodoInv, Running
    <3> QED
      BY <2>1, <3>2, <3>3, HeadTailProperties DEF Fresh
  <2> HIDE DEF c
  <2>4. Standing(t)' /\ \A u \in Timelines \ {t} : SameAt(u)
    BY <1>0, <2>1, <2>2, <2>3, ExecuteStands, ExecuteEffect
  <2>5. ASSUME NEW u \in Decided', u # t PROVE Standing(u)'
    <3>0. u \in Decided /\ u \in Internals /\ t \in Internals
      BY <2>1 DEF Decided
    <3>1. u \in Timelines /\ u \in Decided /\ u \in Int /\ t \in Int
      BY <3>0, InternalTimelines DEF Timelines
    <3>2. ~Pending(u)
      BY <2>1, <2>5, <3>1 DEF Pending, IsTop
    <3>3. Standing(u)
      BY <2>1, <3>1, <3>2 DEF StandInv, Searching
    <3> QED
      BY <2>1, <2>4, <2>5, <3>1, <3>3 DEF Standing, SameAt
  <2> QED
    BY <2>4, <2>5 DEF StandInv
<1>3. ASSUME NEW t \in Internals, Undo(t) PROVE StandInv'
  <2> DEFINE c == Head(todo[t])
  <2>1. t \in Timelines /\ mode = "undo" /\ now' = now /\ todo[t] # << >>
    BY <1>3, InternalTimelines DEF Undo, IsTop, Decided
  <2>2. c \in Choice /\ TakeBack(t, c)
    BY <1>0, <1>3, <2>1, DecidedTodo DEF Undo
  <2> HIDE DEF c
  <2>3. \A u \in Timelines \ {t} : SameAt(u)
    BY <1>0, <2>2, TakeBackEffect
  <2>4. ASSUME NEW u \in Decided', u # t PROVE Standing(u)'
    <3>1. u \in Internals /\ u \in Timelines
      BY InternalTimelines DEF Decided
    <3>2. u \in Decided /\ ~Pending(u)
      BY <1>0, <1>3, <2>4, <3>1, UndoStack
    <3>3. Standing(u)
      BY <2>1, <3>2 DEF StandInv, Searching
    <3> QED
      BY <2>1, <2>3, <2>4, <3>1, <3>3 DEF Standing, SameAt
  <2>5. t \in Decided' => Pending(t)'
    BY <1>0, <1>3, UndoStack
  <2> QED
    BY <2>4, <2>5 DEF StandInv
<1>4. CASE CommitExternals
  <2>1. Decided' = {}
    BY <1>0, <1>4 DEF CommitExternals, StateInv, DecidedInv, Searching, Decided
  <2> QED
    BY <2>1 DEF StandInv
<1>5. CASE Inconsistent
  <2>1. /\ mode = "search" /\ mode' = "undo" /\ UNCHANGED <<now, last, front, todo>>
        /\ \A t \in Decided : ~Pending(t)
    BY <1>5 DEF Inconsistent, Pending
  <2>2. Decided' = Decided
    BY <2>1 DEF Decided
  <2> QED
    BY <2>1, <2>2 DEF StandInv, Searching, Standing
<1>6. CASE UNCHANGED stateVars
  <2>1. /\ UNCHANGED <<mode, now, last, front, todo>>
        /\ Decided' = Decided
    BY <1>6 DEF stateVars, Decided
  <2> QED
    BY <2>1 DEF StandInv, Searching, Standing, Pending, IsTop
<1>7. CASE ~Searching'
  BY <1>7 DEF StandInv
<1>8. TickStart \/ Exhaust \/ Cut \/ Forget \/ Relax \/ RelaxFails \/ GiveUp \/ Solve \/ Publish
        \/ LastPropagationFails => ~Searching'
  BY DEF TickStart, Exhaust, Cut, Forget, Relax, RelaxFails, GiveUp, Solve, Publish,
         LastPropagationFails, Searching
<1>9. (\E S \in SUBSET Externals, val \in [Externals -> Preds] : Observe(S, val))
        \/ (\E t \in Externals : CommitExternalsFails(t)) => ~Searching'
  BY DEF Observe, CommitExternalsFails, Searching
<1> QED
  BY <1>1, <1>2, <1>3, <1>4, <1>5, <1>6, <1>7, <1>8, <1>9 DEF Next, Synchronize

LEMMA StandHolds == Spec => [](SearchInv /\ StandInv)
<1>1. Init => SearchInv /\ StandInv
  BY SearchInit DEF Init, StandInv, Searching
<1>2. SearchInv /\ StandInv /\ [Next]_stateVars => (SearchInv /\ StandInv)'
  BY SearchNext, StandNext
<1> QED
  BY <1>1, <1>2, PTL DEF Spec

(* What is left to do in a tick.  First the attempts; in an attempt the    *)
(* stages it goes through; in the search the stack, compared from the      *)
(* first timeline on: a timeline that is not decided yet counts more than  *)
(* any choice, and of a decision the choices left count, and how far the   *)
(* search is with the current one.                                         *)
Stage ==
  IF mode = "observe" THEN 6
  ELSE IF mode = "commit" THEN 5
  ELSE IF Searching /\ ~(mode = "undo" /\ Decided = {}) THEN 4
  ELSE IF Searching THEN 3
  ELSE IF mode \in {"exhausted", "cut", "solved"} THEN 2
  ELSE IF mode = "failed" THEN 1
  ELSE 0

Left(t) ==
  3 * Len(todo[t]) + (IF IsTop(t) /\ mode = "retry" THEN 1
                      ELSE IF IsTop(t) /\ mode = "undo" THEN -1 ELSE 0)

Shrinks(t) == t \in Decided' /\ (t \in Decided => Left(t)' < Left(t))
Stays(t) == (t \in Decided' <=> t \in Decided) /\ (t \in Decided => Left(t)' = Left(t))

StackShrinks == \E t \in Internals : Shrinks(t) /\ \A u \in Internals : u < t => Stays(u)

Descends ==
  \/ attempt' > attempt
  \/ attempt' = attempt /\ Stage' < Stage
  \/ attempt' = attempt /\ Stage = 4 /\ Stage' = 4 /\ StackShrinks

(* A non-empty set of natural numbers has a least element.                 *)
LEMMA LeastOf ==
  ASSUME NEW T \in SUBSET Nat, T # {}
  PROVE  \E m \in T : \A k \in T : m <= k
<1>1. PICK R : R = {ss \in Nat \X Nat : ss[1] < ss[2]} /\ IsWellFoundedOn(R, Nat)
  BY NatLessThanWellFounded DEF OpToRel
<1>2. PICK m \in T : \A k \in T : ~(<<k, m>> \in R)
  BY <1>1, WFMin
<1>3. ASSUME NEW k \in T PROVE m <= k
  <2>1. k \in Nat /\ m \in Nat /\ ~(<<k, m>> \in R)
    BY <1>2
  <2>2. ~(k < m)
    BY <1>1, <2>1
  <2> QED
    BY <2>1, <2>2
<1> QED
  BY <1>3

(* The last of the decisions below the one on top.                         *)
LEMMA TopOf ==
  ASSUME NEW D \in SUBSET Internals, D # {}
  PROVE  \E t \in D : \A u \in D : u <= t
<1> DEFINE T == {n \in Nat : \E t \in D : n = LastTimeline - t}
<1>1. \A t \in D : t \in Int /\ LastTimeline - t \in Nat
  BY StateAssumption DEF Timelines
<1>2. LastTimeline \in Int /\ T \in SUBSET Nat /\ T # {}
  BY <1>1, StateAssumption
<1>3. PICK m \in T : \A k \in T : m <= k
  <2> HIDE DEF T
  <2> QED
    BY <1>2, LeastOf
<1>4. PICK t \in D : m = LastTimeline - t
  OBVIOUS
<1>5. ASSUME NEW u \in D PROVE u <= t
  <2>1. LastTimeline - t <= LastTimeline - u
    BY <1>1, <1>3, <1>4
  <2> QED
    BY <1>1, <1>2, <2>1
<1> QED
  BY <1>5

(* The numbers of a decision.                                              *)
LEMMA LeftOf ==
  ASSUME TypeOK, NEW t \in Internals
  PROVE  /\ t \in Timelines /\ t \in Int /\ Len(todo[t]) \in Nat
         /\ t \in Decided => Len(todo[t]) > 0
         /\ mode = "search" => Left(t) = 3 * Len(todo[t])
         /\ ~IsTop(t) => Left(t) = 3 * Len(todo[t])
         /\ IsTop(t) /\ mode = "retry" => Left(t) = 3 * Len(todo[t]) + 1
         /\ IsTop(t) /\ mode = "undo" => Left(t) = 3 * Len(todo[t]) - 1
<1>1. t \in Timelines /\ t \in Int
  BY InternalTimelines DEF Timelines
<1>2. todo[t] \in Seq(Choice)
  BY <1>1 DEF TypeOK
<1>3. Len(todo[t]) \in Nat /\ (t \in Decided => Len(todo[t]) > 0)
  BY <1>2, EmptySeq DEF Decided
<1> DEFINE n == Len(todo[t])
<1>4. Left(t) = 3 * n + (IF IsTop(t) /\ mode = "retry" THEN 1
                         ELSE IF IsTop(t) /\ mode = "undo" THEN -1 ELSE 0)
  BY DEF Left
<1>5. n \in Nat
  BY <1>3
<1> HIDE DEF n
<1>6. /\ mode = "search" \/ ~IsTop(t) => Left(t) = 3 * n
      /\ IsTop(t) /\ mode = "retry" => Left(t) = 3 * n + 1
  BY <1>4, <1>5
<1>7. IsTop(t) /\ mode = "undo" => Left(t) = 3 * n - 1
  BY <1>4, <1>5
<1> QED
  BY <1>1, <1>3, <1>6, <1>7 DEF n

LEMMA DecideDescends ==
  ASSUME StateInv, TypeOK', StandInv, NEW t \in Internals, Decide(t)
  PROVE  Descends
<1>1. /\ mode = "search" /\ mode' = "search" /\ attempt' = attempt /\ TypeOK /\ t \in Timelines
      /\ ~Identified(t) /\ todo' = [todo EXCEPT ![t] = Choices(t)]
      /\ Choices(t) # << >>
  BY InternalTimelines, ChoicesType DEF StateInv, Decide, IsNextFlaw, Flaws
<1>2. t \notin Decided
  BY <1>1 DEF StandInv, Searching, Pending, Standing, Identified
<1>3. /\ todo'[t] = Choices(t)
      /\ \A u \in Internals : u # t => todo'[u] = todo[u]
  BY <1>1 DEF TypeOK
<1>4. Shrinks(t)
  BY <1>1, <1>2, <1>3 DEF Shrinks, Decided
<1>5. ASSUME NEW u \in Internals, u < t PROVE Stays(u)
  <2>1. u # t
    BY <1>5, LeftOf, <1>1
  <2>2. todo'[u] = todo[u] /\ (u \in Decided' <=> u \in Decided)
    BY <1>3, <2>1 DEF Decided
  <2>3. Left(u) = 3 * Len(todo[u])
    BY <1>1 DEF Left
  <2>4. Left(u)' = 3 * Len(todo'[u])
    BY <1>1 DEF Left
  <2> QED
    BY <2>2, <2>3, <2>4 DEF Stays
<1>6. Stage = 4 /\ Stage' = 4
  BY <1>1 DEF Stage, Searching
<1> QED
  BY <1>1, <1>4, <1>5, <1>6 DEF Descends, StackShrinks

LEMMA RetryDescends ==
  ASSUME StateInv, TypeOK', NEW t \in Internals, Retry(t)
  PROVE  Descends
<1>1. /\ mode = "retry" /\ mode' = "search" /\ attempt' = attempt /\ TypeOK
      /\ todo' = todo /\ IsTop(t)
  BY DEF StateInv, Retry
<1>2. t \in Decided /\ t \in Decided' /\ Decided' = Decided
  BY <1>1 DEF IsTop, Decided
<1>3. \A u \in Internals : Left(u)' = 3 * Len(todo[u])
  BY <1>1 DEF Left
<1>4. Left(t) = 3 * Len(todo[t]) + 1 /\ Len(todo[t]) \in Nat
  BY <1>1, LeftOf
<1>5. Shrinks(t)
  BY <1>2, <1>3, <1>4 DEF Shrinks
<1>6. ASSUME NEW u \in Internals, u < t PROVE Stays(u)
  <2>1. t \in Int /\ u \in Int
    BY <1>1, LeftOf
  <2>2. ~IsTop(u)
    BY <1>2, <1>6, <2>1 DEF IsTop
  <2>3. Left(u) = 3 * Len(todo[u])
    BY <1>1, <2>2, LeftOf
  <2> QED
    BY <1>2, <1>3, <2>3 DEF Stays
<1>7. Stage = 4 /\ Stage' = 4
  BY <1>1 DEF Stage, Searching
<1> QED
  BY <1>1, <1>5, <1>6, <1>7 DEF Descends, StackShrinks

LEMMA InconsistentDescends ==
  ASSUME StateInv, TypeOK', Inconsistent
  PROVE  Descends
<1>1. /\ mode = "search" /\ mode' = "undo" /\ attempt' = attempt /\ TypeOK
      /\ todo' = todo /\ Decided' = Decided
  BY DEF StateInv, Inconsistent, Decided
<1>2. CASE Decided = {}
  <2>1. Stage = 4 /\ Stage' = 3
    BY <1>1, <1>2 DEF Stage, Searching
  <2> QED
    BY <1>1, <2>1 DEF Descends
<1>3. CASE Decided # {}
  <2>1. PICK t \in Decided : \A u \in Decided : u <= t
    BY <1>3, TopOf DEF Decided
  <2>2. t \in Internals /\ IsTop(t)' /\ t \in Decided'
    BY <1>1, <2>1 DEF IsTop, Decided
  <2>3. \A u \in Internals : Left(u) = 3 * Len(todo[u])
    BY <1>1 DEF Left
  <2>4. Len(todo[t]) \in Nat /\ Left(t)' = 3 * Len(todo[t]) - 1
    BY <1>1, <2>2, LeftOf DEF Left
  <2>5. Shrinks(t)
    BY <2>2, <2>3, <2>4 DEF Shrinks
  <2>6. ASSUME NEW u \in Internals, u < t PROVE Stays(u)
    <3>1. t \in Int /\ u \in Int
      BY <1>1, <2>2, LeftOf
    <3>2. ~IsTop(u)'
      BY <2>2, <2>6, <3>1 DEF IsTop
    <3>3. Left(u)' = 3 * Len(todo[u])
      BY <1>1, <3>2 DEF Left
    <3> QED
      BY <1>1, <2>3, <3>3 DEF Stays
  <2>7. Stage = 4 /\ Stage' = 4
    BY <1>1, <1>3 DEF Stage, Searching
  <2> QED
    BY <1>1, <2>2, <2>5, <2>6, <2>7 DEF Descends, StackShrinks
<1> QED
  BY <1>2, <1>3

LEMMA UndoDescends ==
  ASSUME StateInv, TypeOK', NEW t \in Internals, Undo(t)
  PROVE  Descends
<1>1. /\ mode = "undo" /\ mode' = (IF Len(todo[t]) = 1 THEN "undo" ELSE "retry")
      /\ attempt' = attempt /\ TypeOK /\ IsTop(t) /\ t \in Decided /\ t \in Timelines
      /\ todo' = [todo EXCEPT ![t] = Tail(todo[t])]
  BY InternalTimelines DEF StateInv, Undo, IsTop
<1>2. /\ todo'[t] = Tail(todo[t])
      /\ \A u \in Internals : u # t => todo'[u] = todo[u]
  BY <1>1 DEF TypeOK
<1>3. /\ Len(todo[t]) \in Nat \ {0} /\ Len(todo'[t]) = Len(todo[t]) - 1
      /\ Len(todo[t]) = 1 <=> todo'[t] = << >>
  <2>1. todo[t] \in Seq(Choice) /\ todo[t] # << >>
    BY <1>1 DEF TypeOK, Decided
  <2>2. Len(Tail(todo[t])) = Len(todo[t]) - 1
    BY <2>1, HeadTailProperties
  <2> QED
    BY <1>1, <1>2, <2>1, <2>2, DecidedTodo
<1>4. \A u \in Internals : u # t => (u \in Decided' <=> u \in Decided)
  BY <1>2 DEF Decided
<1>5. \A u \in Internals : u \in Int
  BY <1>1, LeftOf
<1>6. \A u \in Decided : u <= t
  BY <1>1 DEF IsTop
<1>7. ASSUME NEW u \in Internals, u # t PROVE Left(u) = 3 * Len(todo[u])
  <2>1. ~IsTop(u)
    BY <1>1, <1>5, <1>6, <1>7 DEF IsTop
  <2> QED
    BY <1>1, <2>1, LeftOf
<1>8. Stage = 4
  BY <1>1 DEF Stage, Searching
<1>9. CASE Len(todo[t]) # 1
  <2>1. /\ mode' = "retry" /\ t \in Decided'
    BY <1>1, <1>3, <1>9 DEF Decided
  <2>2. \A u \in Decided' : u <= t
    BY <1>4, <1>5, <1>6 DEF Decided
  <2>3. IsTop(t)'
    BY <2>1, <2>2 DEF IsTop
  <2>4. Left(t)' = 3 * Len(todo'[t]) + 1
    BY <2>1, <2>3 DEF Left
  <2>5. Left(t) = 3 * Len(todo[t]) - 1
    BY <1>1, LeftOf
  <2>6. Shrinks(t)
    BY <1>3, <2>1, <2>4, <2>5 DEF Shrinks
  <2>7. ASSUME NEW u \in Internals, u < t PROVE Stays(u)
    <3>1. u # t
      BY <1>5, <2>7
    <3>2. ~IsTop(u)'
      BY <1>5, <2>1, <2>7 DEF IsTop
    <3>3. Left(u)' = 3 * Len(todo[u])
      BY <1>2, <3>1, <3>2 DEF Left
    <3> QED
      BY <1>4, <1>7, <3>1, <3>3 DEF Stays
  <2>8. Stage' = 4
    BY <2>1 DEF Stage, Searching
  <2> QED
    BY <1>1, <1>8, <2>6, <2>7, <2>8 DEF Descends, StackShrinks
<1>10. CASE Len(todo[t]) = 1
  <2>1. mode' = "undo" /\ t \notin Decided'
    BY <1>1, <1>3, <1>10 DEF Decided
  <2>2. CASE Decided' = {}
    <3>1. Stage' = 3
      BY <2>1, <2>2 DEF Stage, Searching
    <3> QED
      BY <1>1, <1>8, <3>1 DEF Descends
  <2>3. CASE Decided' # {}
    <3>1. PICK s \in Decided' : \A u \in Decided' : u <= s
      BY <2>3, TopOf DEF Decided
    <3>2. s \in Internals /\ s # t /\ IsTop(s)' /\ s \in Decided
      BY <1>4, <2>1, <3>1 DEF IsTop, Decided
    <3>3. Left(s)' = 3 * Len(todo[s]) - 1
      BY <1>2, <2>1, <3>2 DEF Left
    <3>4. Left(s) = 3 * Len(todo[s]) /\ Len(todo[s]) \in Nat
      BY <1>1, <1>7, <3>2, LeftOf
    <3>5. Shrinks(s)
      BY <3>1, <3>3, <3>4 DEF Shrinks
    <3>6. ASSUME NEW u \in Internals, u < s PROVE Stays(u)
      <4>1. u # t
        BY <1>5, <1>6, <3>2, <3>6
      <4>2. ~IsTop(u)'
        BY <1>5, <3>1, <3>2, <3>6 DEF IsTop
      <4>3. Left(u)' = 3 * Len(todo[u])
        BY <1>2, <4>1, <4>2 DEF Left
      <4> QED
        BY <1>4, <1>7, <4>1, <4>3 DEF Stays
    <3>7. Stage' = 4
      BY <2>1, <2>3 DEF Stage, Searching
    <3> QED
      BY <1>1, <1>8, <3>2, <3>5, <3>6, <3>7 DEF Descends, StackShrinks
  <2> QED
    BY <2>2, <2>3
<1> QED
  BY <1>9, <1>10

LEMMA SynchronizeDescends ==
  ASSUME StateInv, TypeOK', StandInv, Synchronize
  PROVE  Descends
<1>0. attempt \in Nat
  BY DEF StateInv, TypeOK
<1>1. ASSUME NEW t \in Internals, Decide(t) \/ Undo(t) \/ Retry(t) PROVE Descends
  BY <1>1, DecideDescends, UndoDescends, RetryDescends
<1>2. CASE Inconsistent
  BY <1>2, InconsistentDescends
<1>3. CASE \/ \E S \in SUBSET Externals, val \in [Externals -> Preds] : Observe(S, val)
           \/ \E t \in Externals : CommitExternalsFails(t)
  <2>1. attempt' = attempt /\ ((Stage = 6 /\ Stage' = 5) \/ (Stage = 5 /\ Stage' = 1))
    BY <1>3 DEF Observe, CommitExternalsFails, Stage, Searching
  <2> QED
    BY <2>1 DEF Descends
<1>4. CASE CommitExternals
  <2>1. Stage = 5 /\ Stage' = 4 /\ attempt' = attempt
    BY <1>4 DEF CommitExternals, Stage, Searching
  <2> QED
    BY <2>1 DEF Descends
<1>5. CASE Exhaust \/ Cut
  <2>1. Stage \in {3, 4} /\ Stage' = 2 /\ attempt' = attempt
    BY <1>5 DEF Exhaust, Cut, Stage, Searching
  <2> QED
    BY <2>1 DEF Descends
<1>6. CASE Forget \/ GiveUp \/ Publish \/ LastPropagationFails
  BY <1>6 DEF Forget, GiveUp, Publish, LastPropagationFails, Descends, Stage, Searching
<1>7. CASE Solve
  BY <1>7 DEF Solve, Descends, Stage, Searching
<1>8. CASE Relax \/ RelaxFails
  <2>1. attempt' = attempt + 1
    BY <1>8 DEF Relax, RelaxFails
  <2> QED
    BY <1>0, <2>1 DEF Descends
<1> QED
  BY <1>1, <1>2, <1>3, <1>4, <1>5, <1>6, <1>7, <1>8 DEF Synchronize

(* Every step of synchronize() leaves less to do than there was, however   *)
(* the search goes, is cut or starts again: the safety half of             *)
(* SynchronizationEnds, for any number of timelines and choices.  The      *)
(* order is lexicographic on natural numbers, with at most three attempts  *)
(* and finitely many timelines.                                            *)
AlwaysLessToDo == [][Synchronize => Descends]_stateVars

THEOREM SynchronizeMakesProgress == Spec => AlwaysLessToDo
<1>1. SearchInv /\ StandInv /\ [Next]_stateVars => [Synchronize => Descends]_stateVars
  <2> SUFFICES ASSUME SearchInv, StandInv, [Next]_stateVars, Synchronize PROVE Descends
    OBVIOUS
  <2>1. StateInv
    BY DEF SearchInv
  <2>2. TypeOK'
    BY <2>1, TypeNext DEF StateInv
  <2> QED
    BY <2>1, <2>2, SynchronizeDescends
<1> QED
  BY <1>1, StandHolds, PTL DEF Spec, AlwaysLessToDo

(* The search decides each timeline once: while a decision is on the stack *)
(* its timeline is no flaw (handleExecute, UpdateFlawIterator).            *)
DecidedOnce == mode = "search" => Flaws \cap Decided = {}

THEOREM NeverDecidedTwice == Spec => []DecidedOnce
<1>1. SearchInv /\ StandInv => DecidedOnce
  BY DEF StandInv, Searching, Pending, Standing, DecidedOnce, Flaws, Identified
<1> QED
  BY <1>1, StandHolds, PTL
=============================================================================
