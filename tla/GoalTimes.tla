----------------------------- MODULE GoalTimes -----------------------------
(***************************************************************************)
(* The time scope of a goal: the interval domains of its start, duration   *)
(* and end (IntervalDomain, Goal), that each holder of the goal restricts  *)
(* further, with one round of propagation of start + duration = end, and   *)
(* that the dispatch of goals tests and restricts without expecting to     *)
(* fail.                                                                   *)
(*                                                                         *)
(* A schedule is a choice of the three dates.  wanted, which the program   *)
(* does not have, is the set of schedules that every call accepted so far  *)
(* allows.  (Values are far from the limits of a long long.)               *)
(***************************************************************************)
EXTENDS Integers

CONSTANTS
  Times,       \* the dates and durations schedules are made of
  DateArgs,    \* intervals given for a start or an end
  LengthArgs,  \* intervals given for a duration
  Dates,       \* the ticks goals are dispatched at
  Delays       \* delays given to startsAfter

-----------------------------------------------------------------------------
(* Bounds and intervals                                                    *)

(* A bound: infinite (inf is its sign), or finite and equal to val.        *)
Bound == [inf : {-1, 1}, val : {0}] \cup [inf : {0}, val : Int]
MinusInf == [inf |-> -1, val |-> 0]
PlusInf == [inf |-> 1, val |-> 0]
At(n) == [inf |-> 0, val |-> n]

Lt(a, b) == a.inf < b.inf \/ (a.inf = 0 /\ b.inf = 0 /\ a.val < b.val)
MinB(a, b) == IF Lt(a, b) THEN a ELSE b
MaxB(a, b) == IF Lt(a, b) THEN b ELSE a
Plus(a, b, onInf) == IF a.inf # 0 \/ b.inf # 0 THEN onInf ELSE At(a.val + b.val)
Minus(a, b, onInf) == IF a.inf # 0 \/ b.inf # 0 THEN onInf ELSE At(a.val - b.val)

Interval == [lo : Bound, hi : Bound]

(* What the constructor of IntervalDomain accepts.                         *)
IsDomain(i) == ~Lt(i.hi, i.lo) /\ ~(i.lo = i.hi /\ i.lo.inf # 0)

Meets(i, j) == ~Lt(MinB(i.hi, j.hi), MaxB(i.lo, j.lo))
Meet(i, j) == [lo |-> MaxB(i.lo, j.lo), hi |-> MinB(i.hi, j.hi)]
In(n, i) == ~Lt(At(n), i.lo) /\ ~Lt(i.hi, At(n))

dateDomain == [lo |-> MinusInf, hi |-> PlusInf]
durationDomain == [lo |-> At(1), hi |-> PlusInf]

ASSUME GoalTimesAssumption ==
  /\ Times \subseteq Int
  /\ DateArgs \cup LengthArgs \subseteq {i \in Interval : IsDomain(i)}
  /\ Dates \subseteq Int
  /\ Delays \subseteq Nat

-----------------------------------------------------------------------------

VARIABLES start, dur, end, answer, wanted

scope == <<start, dur, end>>
vars == <<start, dur, end, answer, wanted>>

Schedules == {x \in Times \X Times \X Times : x[1] + x[2] = x[3]}
Within(S, s, d, e) == {x \in S : In(x[1], s) /\ In(x[2], d) /\ In(x[3], e)}

TypeOK ==
  /\ start \in Interval /\ dur \in Interval /\ end \in Interval
  /\ IsDomain(start) /\ IsDomain(dur) /\ IsDomain(end)
  /\ answer \in {"new", "restricted", "refused", "late", "impossible", "escaped"}
  /\ wanted \subseteq Schedules

Init ==
  /\ start = dateDomain
  /\ dur = durationDomain
  /\ end = dateDomain
  /\ answer = "new"
  /\ wanted = Within(Schedules, dateDomain, durationDomain, dateDomain)

-----------------------------------------------------------------------------
(* restrictTime                                                            *)

(* Mutant: the end is restricted by start + duration with its bounds       *)
(* swapped.                                                                *)
EndOfSwapped(s, d, e) ==
  [lo |-> MaxB(e.lo, Plus(s.lo, d.hi, e.lo)), hi |-> MinB(e.hi, Plus(s.hi, d.lo, e.hi))]

(* Mutant: the start is not restricted by the end and the duration.        *)
StartOfFree(s, d, e) == s

(* The propagation, with infinite operands restricting nothing: end by     *)
(* start + duration, start by end - duration, duration by end - start.     *)
EndOf(s, d, e) ==
  [lo |-> MaxB(e.lo, Plus(s.lo, d.lo, e.lo)), hi |-> MinB(e.hi, Plus(s.hi, d.hi, e.hi))]
StartOf(s, d, e) ==
  [lo |-> MaxB(s.lo, Minus(e.lo, d.hi, s.lo)), hi |-> MinB(s.hi, Minus(e.hi, d.lo, s.hi))]
LengthOf(s, d, e) ==
  [lo |-> MaxB(d.lo, Minus(e.lo, s.hi, d.lo)), hi |-> MinB(d.hi, Minus(e.hi, s.lo, d.hi))]

NewEnd(s, d, e) == EndOf(Meet(start, s), Meet(dur, d), Meet(end, e))
NewStart(s, d, e) == StartOf(Meet(start, s), Meet(dur, d), NewEnd(s, d, e))
NewLength(s, d, e) == LengthOf(NewStart(s, d, e), Meet(dur, d), NewEnd(s, d, e))

NonEmpty(i) == ~Lt(i.hi, i.lo)

(* What it accepts: nothing is restricted before all is computed.          *)
Consistent(s, d, e) ==
  /\ Meets(start, s) /\ Meets(dur, d) /\ Meets(end, e)
  /\ NonEmpty(NewEnd(s, d, e)) /\ NonEmpty(NewStart(s, d, e)) /\ NonEmpty(NewLength(s, d, e))

(* Then the three variables are restricted, one after the other; an empty  *)
(* domain, that "should not happen", would leave the rest undone.          *)
Assign(s, d, e) ==
  LET okS == IsDomain(NewStart(s, d, e)) /\ Meets(start, NewStart(s, d, e))
      okD == IsDomain(NewLength(s, d, e)) /\ Meets(dur, NewLength(s, d, e))
      okE == IsDomain(NewEnd(s, d, e)) /\ Meets(end, NewEnd(s, d, e)) IN
  /\ start' = IF okS THEN Meet(start, NewStart(s, d, e)) ELSE start
  /\ dur' = IF okS /\ okD THEN Meet(dur, NewLength(s, d, e)) ELSE dur
  /\ end' = IF okS /\ okD /\ okE THEN Meet(end, NewEnd(s, d, e)) ELSE end
  /\ answer' = IF okS /\ okD /\ okE THEN "restricted" ELSE "impossible"
  /\ wanted' = Within(wanted, s, d, e)

(* Mutant: the three variables are restricted without any test.            *)
RestrictUntested(s, d, e) ==
  /\ start' = Meet(start, s)
  /\ dur' = Meet(dur, d)
  /\ end' = Meet(end, e)
  /\ answer' = "restricted"
  /\ wanted' = Within(wanted, s, d, e)

(* restrictTime, restrictStart, restrictDuration, restrictEnd, and the     *)
(* constructor from XML, called with what its caller wants, an exception   *)
(* being expected.                                                         *)
Restrict(s, d, e) ==
  IF Consistent(s, d, e)
  THEN Assign(s, d, e)
  ELSE answer' = "refused" /\ UNCHANGED <<scope, wanted>>

-----------------------------------------------------------------------------
(* Dispatch                                                                *)

From(date) == [lo |-> At(date), hi |-> PlusInf]

(* startsAfter: a goal that can start at date + delay or later must now    *)
(* start at date or later.  external::dispatch and the reactors that own a *)
(* timeline call it with nothing to catch an exception.                    *)
StartsAfter(date, delay) ==
  IF Meets(start, From(date + delay))
  THEN IF Consistent(From(date), durationDomain, dateDomain)
       THEN Assign(From(date), durationDomain, dateDomain)
       ELSE answer' = "escaped" /\ UNCHANGED <<scope, wanted>>
  ELSE answer' = "late" /\ UNCHANGED <<scope, wanted>>

Next ==
  \/ \E s, e \in DateArgs, d \in LengthArgs : Restrict(s, d, e)
  \/ \E date \in Dates, delay \in Delays : StartsAfter(date, delay)

Spec == Init /\ [][Next]_vars

-----------------------------------------------------------------------------
(* Properties                                                              *)

(* One round of propagation, in this order, is enough: another one would   *)
(* change nothing.  The next properties rest on it.                        *)
Propagated ==
  /\ EndOf(start, dur, end) = end
  /\ StartOf(start, dur, end) = start
  /\ LengthOf(start, dur, end) = dur

(* The domains stand for the schedules that all the accepted calls allow,  *)
(* no more and no less, whatever the calls and their order were; and a     *)
(* call is refused only when none of these schedules is what it asks for.  *)
ExactlyWhatIsAsked ==
  /\ Within(Schedules, start, dur, end) = wanted
  /\ \A s, e \in DateArgs, d \in LengthArgs :
       ~Consistent(s, d, e) => Within(wanted, s, d, e) = {}

(* The two exceptions nobody handles: the empty domain which "should not   *)
(* happen" after the tests of restrictTime, which would leave the goal     *)
(* half restricted, and a failure of the restriction done by startsAfter   *)
(* once its test succeeded, which would end the dispatch of all goals.     *)
NothingEscapes == answer \notin {"impossible", "escaped"}
=============================================================================
