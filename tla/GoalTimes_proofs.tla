-------------------------- MODULE GoalTimes_proofs --------------------------
(***************************************************************************)
(* Proofs about GoalTimes, for any dates: one round of propagation leaves  *)
(* the three domains consistent, they stand for exactly the schedules that *)
(* were asked for, and no exception leaves startsAfter or the end of       *)
(* restrictTime.                                                           *)
(*                                                                         *)
(* GoalInv is inductive.  It adds to the properties that the domains are   *)
(* propagated, without which startsAfter could throw, and that no duration *)
(* is below 1.                                                             *)
(***************************************************************************)
EXTENDS GoalTimes, TLAPS

Lower == {b \in Bound : b.inf <= 0}
Upper == {b \in Bound : b.inf >= 0}

(* An interval from below to above, empty or not.                          *)
Span == {i \in Interval : i.lo \in Lower /\ i.hi \in Upper}
Domain == {i \in Interval : IsDomain(i)}

(* Bounds are records of two numbers.                                      *)
LEMMA BoundFields ==
  ASSUME NEW b \in Bound
  PROVE  /\ b.inf \in {-1, 0, 1} /\ b.val \in Int
         /\ b.inf # 0 => b.val = 0
         /\ b = [inf |-> b.inf, val |-> b.val]
  BY DEF Bound

LEMMA BoundEqual ==
  ASSUME NEW a \in Bound, NEW b \in Bound, ~Lt(a, b), ~Lt(b, a)
  PROVE  a = b
<1>1. a.inf = b.inf
  BY BoundFields DEF Lt
<1>2. a.val = b.val
  BY <1>1, BoundFields DEF Lt
<1> QED
  BY <1>1, <1>2, BoundFields

LEMMA SpanIsDomain ==
  ASSUME NEW i \in Interval
  PROVE  IsDomain(i) <=> i \in Span /\ ~Lt(i.hi, i.lo)
<1>1. i.lo \in Bound /\ i.hi \in Bound
  BY DEF Interval
<1>2. ASSUME i.lo.inf = 1, ~Lt(i.hi, i.lo) PROVE i.lo = i.hi
  BY <1>1, <1>2, BoundFields DEF Lt
<1>3. ASSUME i.hi.inf = -1, ~Lt(i.hi, i.lo) PROVE i.lo = i.hi
  BY <1>1, <1>3, BoundFields DEF Lt
<1>4. ASSUME IsDomain(i) PROVE i \in Span /\ ~Lt(i.hi, i.lo)
  BY <1>1, <1>2, <1>3, <1>4, BoundFields DEF IsDomain, Span, Lower, Upper
<1>5. ASSUME i \in Span, ~Lt(i.hi, i.lo) PROVE IsDomain(i)
  BY <1>1, <1>5, BoundFields DEF IsDomain, Span, Lower, Upper
<1> QED
  BY <1>4, <1>5

-----------------------------------------------------------------------------
(* Operators on bounds                                                     *)

LEMMA MaxLower ==
  ASSUME NEW a \in Lower, NEW b \in Lower
  PROVE  MaxB(a, b) \in Lower /\ ~Lt(MaxB(a, b), a) /\ ~Lt(MaxB(a, b), b)
  BY BoundFields DEF MaxB, Lt, Lower

LEMMA MinUpper ==
  ASSUME NEW a \in Upper, NEW b \in Upper
  PROVE  MinB(a, b) \in Upper /\ ~Lt(a, MinB(a, b)) /\ ~Lt(b, MinB(a, b))
  BY BoundFields DEF MinB, Lt, Upper

LEMMA MaxKeeps ==
  ASSUME NEW a \in Bound, NEW b \in Bound, ~Lt(a, b)
  PROVE  MaxB(a, b) = a
  BY DEF MaxB

LEMMA MinKeeps ==
  ASSUME NEW a \in Bound, NEW b \in Bound, ~Lt(b, a)
  PROVE  MinB(a, b) = a
  BY BoundEqual DEF MinB

(* The numbers in the larger, or smaller, of two bounds.                   *)
LEMMA MaxFinite ==
  ASSUME NEW a \in Lower, NEW b \in Lower
  PROVE  /\ a.inf = 0 => MaxB(a, b).inf = 0 /\ MaxB(a, b).val >= a.val
         /\ b.inf = 0 => MaxB(a, b).inf = 0 /\ MaxB(a, b).val >= b.val
         /\ MaxB(a, b) = a \/ MaxB(a, b) = b
  BY BoundFields DEF MaxB, Lt, Lower

LEMMA MinFinite ==
  ASSUME NEW a \in Upper, NEW b \in Upper
  PROVE  /\ a.inf = 0 => MinB(a, b).inf = 0 /\ MinB(a, b).val <= a.val
         /\ b.inf = 0 => MinB(a, b).inf = 0 /\ MinB(a, b).val <= b.val
         /\ MinB(a, b) = a \/ MinB(a, b) = b
  BY BoundFields DEF MinB, Lt, Upper

LEMMA PlusFinite ==
  ASSUME NEW a, NEW b, NEW c
  PROVE  /\ a.inf = 0 /\ b.inf = 0 => Plus(a, b, c).inf = 0 /\ Plus(a, b, c).val = a.val + b.val
         /\ ~(a.inf = 0 /\ b.inf = 0) => Plus(a, b, c) = c
  BY DEF Plus, At

LEMMA MinusFinite ==
  ASSUME NEW a, NEW b, NEW c
  PROVE  /\ a.inf = 0 /\ b.inf = 0 => Minus(a, b, c).inf = 0 /\ Minus(a, b, c).val = a.val - b.val
         /\ ~(a.inf = 0 /\ b.inf = 0) => Minus(a, b, c) = c
  BY DEF Minus, At

LEMMA AtBound == ASSUME NEW n \in Int PROVE At(n) \in Lower /\ At(n) \in Upper
  BY DEF At, Bound, Lower, Upper

LEMMA PlusLower ==
  ASSUME NEW a \in Lower, NEW b \in Lower, NEW c \in Lower
  PROVE  Plus(a, b, c) \in Lower
  BY AtBound, BoundFields DEF Plus, Lower

LEMMA PlusUpper ==
  ASSUME NEW a \in Upper, NEW b \in Upper, NEW c \in Upper
  PROVE  Plus(a, b, c) \in Upper
  BY AtBound, BoundFields DEF Plus, Upper

LEMMA MinusLower ==
  ASSUME NEW a \in Lower, NEW b \in Upper, NEW c \in Lower
  PROVE  Minus(a, b, c) \in Lower
  BY AtBound, BoundFields DEF Minus, Lower, Upper

LEMMA MinusUpper ==
  ASSUME NEW a \in Upper, NEW b \in Lower, NEW c \in Upper
  PROVE  Minus(a, b, c) \in Upper
  BY AtBound, BoundFields DEF Minus, Lower, Upper

-----------------------------------------------------------------------------
(* Propagation                                                             *)

LEMMA SpanFields ==
  ASSUME NEW i \in Span
  PROVE  /\ i.lo \in Lower /\ i.hi \in Upper
         /\ i.lo \in Bound /\ i.hi \in Bound
         /\ i = [lo |-> i.lo, hi |-> i.hi]
  BY DEF Span, Interval, Lower, Upper

LEMMA EndOfSpan ==
  ASSUME NEW s \in Span, NEW d \in Span, NEW e \in Span
  PROVE  /\ EndOf(s, d, e) \in Span
         /\ ~Lt(EndOf(s, d, e).lo, e.lo) /\ ~Lt(e.hi, EndOf(s, d, e).hi)
<1>1. Plus(s.lo, d.lo, e.lo) \in Lower /\ Plus(s.hi, d.hi, e.hi) \in Upper
  BY SpanFields, PlusLower, PlusUpper
<1>2. EndOf(s, d, e).lo \in Lower /\ EndOf(s, d, e).hi \in Upper
  BY <1>1, SpanFields, MaxLower, MinUpper DEF EndOf
<1>3. EndOf(s, d, e) \in Interval
  BY <1>2 DEF EndOf, Interval, Lower, Upper
<1> QED
  BY <1>1, <1>2, <1>3, SpanFields, MaxLower, MinUpper DEF EndOf, Span

LEMMA StartOfSpan ==
  ASSUME NEW s \in Span, NEW d \in Span, NEW e \in Span
  PROVE  /\ StartOf(s, d, e) \in Span
         /\ ~Lt(StartOf(s, d, e).lo, s.lo) /\ ~Lt(s.hi, StartOf(s, d, e).hi)
<1>1. Minus(e.lo, d.hi, s.lo) \in Lower /\ Minus(e.hi, d.lo, s.hi) \in Upper
  BY SpanFields, MinusLower, MinusUpper
<1>2. StartOf(s, d, e).lo \in Lower /\ StartOf(s, d, e).hi \in Upper
  BY <1>1, SpanFields, MaxLower, MinUpper DEF StartOf
<1>3. StartOf(s, d, e) \in Interval
  BY <1>2 DEF StartOf, Interval, Lower, Upper
<1> QED
  BY <1>1, <1>2, <1>3, SpanFields, MaxLower, MinUpper DEF StartOf, Span

LEMMA LengthOfSpan ==
  ASSUME NEW s \in Span, NEW d \in Span, NEW e \in Span
  PROVE  /\ LengthOf(s, d, e) \in Span
         /\ ~Lt(LengthOf(s, d, e).lo, d.lo) /\ ~Lt(d.hi, LengthOf(s, d, e).hi)
<1>1. Minus(e.lo, s.hi, d.lo) \in Lower /\ Minus(e.hi, s.lo, d.hi) \in Upper
  BY SpanFields, MinusLower, MinusUpper
<1>2. LengthOf(s, d, e).lo \in Lower /\ LengthOf(s, d, e).hi \in Upper
  BY <1>1, SpanFields, MaxLower, MinUpper DEF LengthOf
<1>3. LengthOf(s, d, e) \in Interval
  BY <1>2 DEF LengthOf, Interval, Lower, Upper
<1> QED
  BY <1>1, <1>2, <1>3, SpanFields, MaxLower, MinUpper DEF LengthOf, Span

(* The numbers in the bounds of a propagated domain.                       *)
EndFacts(s, d, e, r) ==
  /\ e.lo.inf = 0 => r.lo.inf = 0 /\ r.lo.val >= e.lo.val
  /\ s.lo.inf = 0 /\ d.lo.inf = 0 =>
        r.lo.inf = 0 /\ r.lo.val >= s.lo.val + d.lo.val
  /\ r.lo.inf = 0 =>
        \/ e.lo.inf = 0 /\ r.lo.val = e.lo.val
        \/ s.lo.inf = 0 /\ d.lo.inf = 0 /\ r.lo.val = s.lo.val + d.lo.val
  /\ e.hi.inf = 0 => r.hi.inf = 0 /\ r.hi.val <= e.hi.val
  /\ s.hi.inf = 0 /\ d.hi.inf = 0 =>
        r.hi.inf = 0 /\ r.hi.val <= s.hi.val + d.hi.val
  /\ r.hi.inf = 0 =>
        \/ e.hi.inf = 0 /\ r.hi.val = e.hi.val
        \/ s.hi.inf = 0 /\ d.hi.inf = 0 /\ r.hi.val = s.hi.val + d.hi.val

LEMMA EndOfFields ==
  ASSUME NEW s \in Span, NEW d \in Span, NEW e \in Span
  PROVE  EndFacts(s, d, e, EndOf(s, d, e))
<1> DEFINE r == EndOf(s, d, e)
<1>1. /\ r.lo = MaxB(e.lo, Plus(s.lo, d.lo, e.lo))
      /\ r.hi = MinB(e.hi, Plus(s.hi, d.hi, e.hi))
  BY DEF EndOf
<1>2. /\ e.lo \in Lower /\ Plus(s.lo, d.lo, e.lo) \in Lower
      /\ e.hi \in Upper /\ Plus(s.hi, d.hi, e.hi) \in Upper
  BY SpanFields, PlusLower, PlusUpper
<1> QED
  BY <1>1, <1>2, MaxFinite, MinFinite, PlusFinite DEF EndFacts

StartFacts(s, d, e, r) ==
  /\ s.lo.inf = 0 => r.lo.inf = 0 /\ r.lo.val >= s.lo.val
  /\ e.lo.inf = 0 /\ d.hi.inf = 0 =>
        r.lo.inf = 0 /\ r.lo.val >= e.lo.val - d.hi.val
  /\ r.lo.inf = 0 =>
        \/ s.lo.inf = 0 /\ r.lo.val = s.lo.val
        \/ e.lo.inf = 0 /\ d.hi.inf = 0 /\ r.lo.val = e.lo.val - d.hi.val
  /\ s.hi.inf = 0 => r.hi.inf = 0 /\ r.hi.val <= s.hi.val
  /\ e.hi.inf = 0 /\ d.lo.inf = 0 =>
        r.hi.inf = 0 /\ r.hi.val <= e.hi.val - d.lo.val
  /\ r.hi.inf = 0 =>
        \/ s.hi.inf = 0 /\ r.hi.val = s.hi.val
        \/ e.hi.inf = 0 /\ d.lo.inf = 0 /\ r.hi.val = e.hi.val - d.lo.val

LEMMA StartOfFields ==
  ASSUME NEW s \in Span, NEW d \in Span, NEW e \in Span
  PROVE  StartFacts(s, d, e, StartOf(s, d, e))
<1> DEFINE r == StartOf(s, d, e)
<1>1. /\ r.lo = MaxB(s.lo, Minus(e.lo, d.hi, s.lo))
      /\ r.hi = MinB(s.hi, Minus(e.hi, d.lo, s.hi))
  BY DEF StartOf
<1>2. /\ s.lo \in Lower /\ Minus(e.lo, d.hi, s.lo) \in Lower
      /\ s.hi \in Upper /\ Minus(e.hi, d.lo, s.hi) \in Upper
  BY SpanFields, MinusLower, MinusUpper
<1> QED
  BY <1>1, <1>2, MaxFinite, MinFinite, MinusFinite DEF StartFacts

LengthFacts(s, d, e, r) ==
  /\ d.lo.inf = 0 => r.lo.inf = 0 /\ r.lo.val >= d.lo.val
  /\ e.lo.inf = 0 /\ s.hi.inf = 0 =>
        r.lo.inf = 0 /\ r.lo.val >= e.lo.val - s.hi.val
  /\ r.lo.inf = 0 =>
        \/ d.lo.inf = 0 /\ r.lo.val = d.lo.val
        \/ e.lo.inf = 0 /\ s.hi.inf = 0 /\ r.lo.val = e.lo.val - s.hi.val
  /\ d.hi.inf = 0 => r.hi.inf = 0 /\ r.hi.val <= d.hi.val
  /\ e.hi.inf = 0 /\ s.lo.inf = 0 =>
        r.hi.inf = 0 /\ r.hi.val <= e.hi.val - s.lo.val
  /\ r.hi.inf = 0 =>
        \/ d.hi.inf = 0 /\ r.hi.val = d.hi.val
        \/ e.hi.inf = 0 /\ s.lo.inf = 0 /\ r.hi.val = e.hi.val - s.lo.val

LEMMA LengthOfFields ==
  ASSUME NEW s \in Span, NEW d \in Span, NEW e \in Span
  PROVE  LengthFacts(s, d, e, LengthOf(s, d, e))
<1> DEFINE r == LengthOf(s, d, e)
<1>1. /\ r.lo = MaxB(d.lo, Minus(e.lo, s.hi, d.lo))
      /\ r.hi = MinB(d.hi, Minus(e.hi, s.lo, d.hi))
  BY DEF LengthOf
<1>2. /\ d.lo \in Lower /\ Minus(e.lo, s.hi, d.lo) \in Lower
      /\ d.hi \in Upper /\ Minus(e.hi, s.lo, d.hi) \in Upper
  BY SpanFields, MinusLower, MinusUpper
<1> QED
  BY <1>1, <1>2, MaxFinite, MinFinite, MinusFinite DEF LengthFacts

(* One round is enough: when none of the three domains gets empty, another *)
(* round would change none of them.                                        *)
LEMMA OneRound ==
  ASSUME NEW s \in Span, NEW d \in Span, NEW e \in Span,
         NEW e1, e1 = EndOf(s, d, e), NonEmpty(e1),
         NEW s1, s1 = StartOf(s, d, e1), NonEmpty(s1),
         NEW d1, d1 = LengthOf(s1, d, e1), NonEmpty(d1)
  PROVE  EndOf(s1, d1, e1) = e1 /\ StartOf(s1, d1, e1) = s1 /\ LengthOf(s1, d1, e1) = d1
<1>1. e1 \in Span /\ s1 \in Span /\ d1 \in Span
  BY EndOfSpan, StartOfSpan, LengthOfSpan
<1>2. /\ \A b \in {s.lo, d.lo, e.lo, e1.lo, s1.lo, d1.lo} : b.inf \in {-1, 0} /\ b.val \in Int
      /\ \A b \in {s.hi, d.hi, e.hi, e1.hi, s1.hi, d1.hi} : b.inf \in {0, 1} /\ b.val \in Int
  BY <1>1, SpanFields, BoundFields DEF Lower, Upper
<1>3. /\ e1.lo.inf = 0 /\ e1.hi.inf = 0 => e1.lo.val <= e1.hi.val
      /\ s1.lo.inf = 0 /\ s1.hi.inf = 0 => s1.lo.val <= s1.hi.val
      /\ d1.lo.inf = 0 /\ d1.hi.inf = 0 => d1.lo.val <= d1.hi.val
  BY <1>2 DEF Lt, NonEmpty
<1>f. EndFacts(s, d, e, e1) /\ StartFacts(s, d, e1, s1) /\ LengthFacts(s1, d, e1, d1)
  BY <1>1, EndOfFields, StartOfFields, LengthOfFields
<1>4. ~Lt(e1.lo, Plus(s1.lo, d1.lo, e1.lo)) /\ ~Lt(Plus(s1.hi, d1.hi, e1.hi), e1.hi)
  <2>1. s1.lo.inf = 0 /\ d1.lo.inf = 0 => e1.lo.inf = 0 /\ e1.lo.val >= s1.lo.val + d1.lo.val
    BY <1>2, <1>3, <1>f DEF EndFacts, StartFacts, LengthFacts
  <2>2. s1.hi.inf = 0 /\ d1.hi.inf = 0 => e1.hi.inf = 0 /\ e1.hi.val <= s1.hi.val + d1.hi.val
    BY <1>2, <1>3, <1>f DEF EndFacts, StartFacts, LengthFacts
  <2> QED
    BY <2>1, <2>2, <1>2 DEF Lt, Plus, At
<1>5. ~Lt(s1.lo, Minus(e1.lo, d1.hi, s1.lo)) /\ ~Lt(Minus(e1.hi, d1.lo, s1.hi), s1.hi)
  <2>1. e1.lo.inf = 0 /\ d1.hi.inf = 0 => s1.lo.inf = 0 /\ s1.lo.val >= e1.lo.val - d1.hi.val
    BY <1>2, <1>3, <1>f DEF StartFacts, LengthFacts
  <2>2. e1.hi.inf = 0 /\ d1.lo.inf = 0 => s1.hi.inf = 0 /\ s1.hi.val <= e1.hi.val - d1.lo.val
    BY <1>2, <1>3, <1>f DEF StartFacts, LengthFacts
  <2> QED
    BY <2>1, <2>2, <1>2 DEF Lt, Minus, At
<1>6. ~Lt(d1.lo, Minus(e1.lo, s1.hi, d1.lo)) /\ ~Lt(Minus(e1.hi, s1.lo, d1.hi), d1.hi)
  BY <1>2, <1>f DEF LengthFacts, Lt, Minus, At
<1>7. EndOf(s1, d1, e1) = e1
  BY <1>1, <1>4, SpanFields, PlusLower, PlusUpper, MaxKeeps, MinKeeps
  DEF EndOf, Lower, Upper
<1>8. StartOf(s1, d1, e1) = s1
  BY <1>1, <1>5, SpanFields, MinusLower, MinusUpper, MaxKeeps, MinKeeps
  DEF StartOf, Lower, Upper
<1>9. LengthOf(s1, d1, e1) = d1
  BY <1>1, <1>6, SpanFields, MinusLower, MinusUpper, MaxKeeps, MinKeeps
  DEF LengthOf, Lower, Upper
<1> QED
  BY <1>7, <1>8, <1>9

-----------------------------------------------------------------------------
(* What an interval contains                                               *)

LEMMA InSpan ==
  ASSUME NEW i \in Span, NEW n \in Int
  PROVE  In(n, i) <=> /\ i.lo.inf = 0 => i.lo.val <= n
                      /\ i.hi.inf = 0 => n <= i.hi.val
  BY SpanFields, BoundFields DEF In, Lt, At, Lower, Upper

LEMMA InNonEmpty ==
  ASSUME NEW i \in Span, NEW n \in Int, In(n, i)
  PROVE  NonEmpty(i)
  BY SpanFields, BoundFields, InSpan DEF NonEmpty, Lt, Lower, Upper

Narrower(j, i) == ~Lt(j.lo, i.lo) /\ ~Lt(i.hi, j.hi)

LEMMA NarrowerTransitive ==
  ASSUME NEW i \in Span, NEW j \in Span, NEW k \in Span, Narrower(k, j), Narrower(j, i)
  PROVE  Narrower(k, i)
  BY SpanFields, BoundFields DEF Narrower, Lt, Lower, Upper

LEMMA NarrowerIn ==
  ASSUME NEW i \in Span, NEW j \in Span, Narrower(j, i), NEW n \in Int, In(n, j)
  PROVE  In(n, i)
  BY SpanFields, BoundFields, InSpan DEF Narrower, Lt, Lower, Upper

LEMMA MeetNarrower ==
  ASSUME NEW i \in Span, NEW j \in Span, Narrower(j, i)
  PROVE  Meet(i, j) = j
<1>1. MaxB(i.lo, j.lo) = j.lo
  BY SpanFields, BoundEqual DEF MaxB, Narrower
<1>2. MinB(i.hi, j.hi) = j.hi
  BY DEF MinB, Narrower
<1> QED
  BY <1>1, <1>2, SpanFields DEF Meet

LEMMA MeetSpan ==
  ASSUME NEW i \in Span, NEW j \in Span
  PROVE  /\ Meet(i, j) \in Span
         /\ Narrower(Meet(i, j), i)
         /\ Meets(i, j) <=> NonEmpty(Meet(i, j))
         /\ \A n \in Int : In(n, Meet(i, j)) <=> In(n, i) /\ In(n, j)
<1>1. MaxB(i.lo, j.lo) \in Lower /\ MinB(i.hi, j.hi) \in Upper
  BY SpanFields, MaxLower, MinUpper
<1>2. Meet(i, j) \in Span
  BY <1>1 DEF Meet, Span, Interval, Lower, Upper
<1>3. Narrower(Meet(i, j), i)
  BY SpanFields, MaxLower, MinUpper DEF Meet, Narrower
<1>4. Meets(i, j) <=> NonEmpty(Meet(i, j))
  BY DEF Meets, NonEmpty, Meet
<1>5. ASSUME NEW n \in Int PROVE In(n, Meet(i, j)) <=> In(n, i) /\ In(n, j)
  <2>1. \A b \in {i.lo, j.lo, i.hi, j.hi} : b.inf \in Int /\ b.val \in Int
    BY SpanFields, BoundFields
  <2>2. Lt(At(n), MaxB(i.lo, j.lo)) <=> Lt(At(n), i.lo) \/ Lt(At(n), j.lo)
    BY <2>1 DEF MaxB, Lt, At
  <2>3. Lt(MinB(i.hi, j.hi), At(n)) <=> Lt(i.hi, At(n)) \/ Lt(j.hi, At(n))
    BY <2>1 DEF MinB, Lt, At
  <2> QED
    BY <2>2, <2>3 DEF In, Meet
<1> QED
  BY <1>2, <1>3, <1>4, <1>5

(* Propagation loses no schedule.                                          *)
LEMMA PropagationKeeps ==
  ASSUME NEW s \in Span, NEW d \in Span, NEW e \in Span, NEW x \in Int, NEW y \in Int,
         In(x, s), In(y, d), In(x + y, e)
  PROVE  In(x + y, EndOf(s, d, e)) /\ In(x, StartOf(s, d, e)) /\ In(y, LengthOf(s, d, e))
<1>1. \A b \in {s.lo, d.lo, e.lo, s.hi, d.hi, e.hi} : b.inf \in Int /\ b.val \in Int
  BY SpanFields, BoundFields
<1>2. /\ s.lo.inf = 0 => s.lo.val <= x
      /\ s.hi.inf = 0 => x <= s.hi.val
      /\ d.lo.inf = 0 => d.lo.val <= y
      /\ d.hi.inf = 0 => y <= d.hi.val
      /\ e.lo.inf = 0 => e.lo.val <= x + y
      /\ e.hi.inf = 0 => x + y <= e.hi.val
  BY InSpan
<1>3. In(x + y, EndOf(s, d, e))
  <2> DEFINE r == EndOf(s, d, e)
  <2>1. r \in Span /\ EndFacts(s, d, e, r)
    BY EndOfSpan, EndOfFields
  <2> HIDE DEF r
  <2>2. (r.lo.inf = 0 => r.lo.val <= x + y) /\ (r.hi.inf = 0 => x + y <= r.hi.val)
    BY <1>1, <1>2, <2>1 DEF EndFacts
  <2>3. In(x + y, r)
    BY <2>1, <2>2, InSpan
  <2> QED
    BY <2>3 DEF r
<1>4. In(x, StartOf(s, d, e))
  <2> DEFINE r == StartOf(s, d, e)
  <2>1. r \in Span /\ StartFacts(s, d, e, r)
    BY StartOfSpan, StartOfFields
  <2> HIDE DEF r
  <2>2. (r.lo.inf = 0 => r.lo.val <= x) /\ (r.hi.inf = 0 => x <= r.hi.val)
    BY <1>1, <1>2, <2>1 DEF StartFacts
  <2>3. In(x, r)
    BY <2>1, <2>2, InSpan
  <2> QED
    BY <2>3 DEF r
<1>5. In(y, LengthOf(s, d, e))
  <2> DEFINE r == LengthOf(s, d, e)
  <2>1. r \in Span /\ LengthFacts(s, d, e, r)
    BY LengthOfSpan, LengthOfFields
  <2> HIDE DEF r
  <2>2. (r.lo.inf = 0 => r.lo.val <= y) /\ (r.hi.inf = 0 => y <= r.hi.val)
    BY <1>1, <1>2, <2>1 DEF LengthFacts
  <2>3. In(y, r)
    BY <2>1, <2>2, InSpan
  <2> QED
    BY <2>3 DEF r
<1> QED
  BY <1>3, <1>4, <1>5

-----------------------------------------------------------------------------
(* restrictTime                                                            *)

LEMMA DomainSpan ==
  ASSUME NEW i \in Domain
  PROVE  i \in Span /\ NonEmpty(i)
  BY SpanIsDomain DEF Domain, NonEmpty

LEMMA SpanDomain ==
  ASSUME NEW i \in Span, NonEmpty(i)
  PROVE  i \in Domain /\ IsDomain(i)
  BY SpanIsDomain DEF Domain, NonEmpty, Span

LEMMA ScopeSpan ==
  ASSUME TypeOK
  PROVE  /\ start \in Span /\ dur \in Span /\ end \in Span
         /\ NonEmpty(start) /\ NonEmpty(dur) /\ NonEmpty(end)
  BY DomainSpan DEF TypeOK, Domain

(* The domains restrictTime computes are narrower than those of the goal,  *)
(* and contain the same schedules as the ones it was given.                *)
LEMMA NewSpan ==
  ASSUME TypeOK, NEW s \in Span, NEW d \in Span, NEW e \in Span
  PROVE  /\ NewStart(s, d, e) \in Span /\ Narrower(NewStart(s, d, e), Meet(start, s))
         /\ NewLength(s, d, e) \in Span /\ Narrower(NewLength(s, d, e), Meet(dur, d))
         /\ NewEnd(s, d, e) \in Span /\ Narrower(NewEnd(s, d, e), Meet(end, e))
<1>1. Meet(start, s) \in Span /\ Meet(dur, d) \in Span /\ Meet(end, e) \in Span
  BY ScopeSpan, MeetSpan
<1>2. NewEnd(s, d, e) \in Span /\ Narrower(NewEnd(s, d, e), Meet(end, e))
  BY <1>1, EndOfSpan DEF NewEnd, Narrower
<1>3. NewStart(s, d, e) \in Span /\ Narrower(NewStart(s, d, e), Meet(start, s))
  BY <1>1, <1>2, StartOfSpan DEF NewStart, Narrower
<1>4. NewLength(s, d, e) \in Span /\ Narrower(NewLength(s, d, e), Meet(dur, d))
  BY <1>1, <1>2, <1>3, LengthOfSpan DEF NewLength, Narrower
<1> QED
  BY <1>2, <1>3, <1>4

LEMMA NewNarrower ==
  ASSUME TypeOK, NEW s \in Span, NEW d \in Span, NEW e \in Span
  PROVE  /\ Narrower(NewStart(s, d, e), start)
         /\ Narrower(NewLength(s, d, e), dur)
         /\ Narrower(NewEnd(s, d, e), end)
  BY ScopeSpan, MeetSpan, NewSpan, NarrowerTransitive

LEMMA NewWithin ==
  ASSUME TypeOK, NEW s \in Span, NEW d \in Span, NEW e \in Span
  PROVE  Within(Within(Schedules, start, dur, end), s, d, e)
           = Within(Schedules, NewStart(s, d, e), NewLength(s, d, e), NewEnd(s, d, e))
<1> DEFINE s0 == Meet(start, s)
           d0 == Meet(dur, d)
           e0 == Meet(end, e)
           s1 == NewStart(s, d, e)
           d1 == NewLength(s, d, e)
           e1 == NewEnd(s, d, e)
<1>1. s0 \in Span /\ d0 \in Span /\ e0 \in Span
  BY ScopeSpan, MeetSpan
<1>2. /\ s1 \in Span /\ Narrower(s1, s0)
      /\ d1 \in Span /\ Narrower(d1, d0)
      /\ e1 \in Span /\ Narrower(e1, e0)
  BY NewSpan
<1>3. ASSUME NEW x \in Schedules
      PROVE  /\ x[1] \in Int /\ x[2] \in Int /\ x[3] \in Int
             /\ x[1] + x[2] = x[3]
  BY GoalTimesAssumption DEF Schedules
<1>4. ASSUME NEW x \in Schedules
      PROVE  In(x[1], s0) /\ In(x[2], d0) /\ In(x[3], e0)
               <=> In(x[1], s1) /\ In(x[2], d1) /\ In(x[3], e1)
  <2>1. ASSUME In(x[1], s0), In(x[2], d0), In(x[3], e0)
        PROVE  In(x[1], s1) /\ In(x[2], d1) /\ In(x[3], e1)
    <3>1. In(x[3], e1)
      BY <1>1, <1>3, <2>1, PropagationKeeps DEF NewEnd
    <3>2. In(x[1], s1)
      BY <1>1, <1>2, <1>3, <2>1, <3>1, PropagationKeeps DEF NewStart
    <3>3. In(x[2], d1)
      BY <1>1, <1>2, <1>3, <2>1, <3>1, <3>2, PropagationKeeps DEF NewLength
    <3> QED
      BY <3>1, <3>2, <3>3
  <2>2. ASSUME In(x[1], s1), In(x[2], d1), In(x[3], e1)
        PROVE  In(x[1], s0) /\ In(x[2], d0) /\ In(x[3], e0)
    BY <1>1, <1>2, <1>3, <2>2, NarrowerIn
  <2> QED
    BY <2>1, <2>2
<1>5. ASSUME NEW x \in Schedules
      PROVE  /\ In(x[1], s0) <=> In(x[1], start) /\ In(x[1], s)
             /\ In(x[2], d0) <=> In(x[2], dur) /\ In(x[2], d)
             /\ In(x[3], e0) <=> In(x[3], end) /\ In(x[3], e)
  BY <1>3, ScopeSpan, MeetSpan
<1> HIDE DEF s0, d0, e0, s1, d1, e1
<1>6. Within(Within(Schedules, start, dur, end), s, d, e) = Within(Schedules, s1, d1, e1)
  BY <1>4, <1>5 DEF Within
<1> QED
  BY <1>6 DEF s1, d1, e1

(* After its tests restrictTime never meets the empty domain, and leaves   *)
(* the goal propagated.                                                    *)
LEMMA Accepted ==
  ASSUME TypeOK, NEW s \in Span, NEW d \in Span, NEW e \in Span,
         Consistent(s, d, e), Assign(s, d, e)
  PROVE  /\ start' = NewStart(s, d, e) /\ dur' = NewLength(s, d, e) /\ end' = NewEnd(s, d, e)
         /\ start' \in Domain /\ dur' \in Domain /\ end' \in Domain
         /\ Narrower(dur', dur)
         /\ answer' = "restricted"
         /\ Propagated'
<1> DEFINE s1 == NewStart(s, d, e)
           d1 == NewLength(s, d, e)
           e1 == NewEnd(s, d, e)
<1>1. s1 \in Span /\ d1 \in Span /\ e1 \in Span
  BY NewSpan
<1>2. NonEmpty(s1) /\ NonEmpty(d1) /\ NonEmpty(e1)
  BY DEF Consistent
<1>3. IsDomain(s1) /\ IsDomain(d1) /\ IsDomain(e1) /\ s1 \in Domain /\ d1 \in Domain /\ e1 \in Domain
  BY <1>1, <1>2, SpanDomain
<1>4. Meet(start, s1) = s1 /\ Meet(dur, d1) = d1 /\ Meet(end, e1) = e1
  BY <1>1, NewNarrower, ScopeSpan, MeetNarrower
<1>5. Meets(start, s1) /\ Meets(dur, d1) /\ Meets(end, e1)
  BY <1>1, <1>2, <1>4, ScopeSpan, MeetSpan
<1>6. start' = s1 /\ dur' = d1 /\ end' = e1 /\ answer' = "restricted"
  BY <1>3, <1>4, <1>5 DEF Assign
<1>7. EndOf(s1, d1, e1) = e1 /\ StartOf(s1, d1, e1) = s1 /\ LengthOf(s1, d1, e1) = d1
  <2>1. Meet(start, s) \in Span /\ Meet(dur, d) \in Span /\ Meet(end, e) \in Span
    BY ScopeSpan, MeetSpan
  <2>2. /\ e1 = EndOf(Meet(start, s), Meet(dur, d), Meet(end, e))
        /\ s1 = StartOf(Meet(start, s), Meet(dur, d), e1)
        /\ d1 = LengthOf(s1, Meet(dur, d), e1)
    BY DEF NewEnd, NewStart, NewLength
  <2> HIDE DEF s1, d1, e1
  <2> QED
    BY <1>2, <2>1, <2>2, OneRound
<1>8. Propagated'
  BY <1>6, <1>7 DEF Propagated
<1> QED
  BY <1>3, <1>6, <1>8, NewNarrower

(* A call is refused only when no schedule of the goal is what it wants.   *)
LEMMA Refused ==
  ASSUME TypeOK, Within(Schedules, start, dur, end) = wanted,
         NEW s \in Span, NEW d \in Span, NEW e \in Span, ~Consistent(s, d, e)
  PROVE  Within(wanted, s, d, e) = {}
<1> SUFFICES ASSUME NEW x \in Within(wanted, s, d, e) PROVE FALSE
  OBVIOUS
<1>1. x \in Within(Schedules, NewStart(s, d, e), NewLength(s, d, e), NewEnd(s, d, e))
  BY NewWithin
<1>2. x[1] \in Int /\ x[2] \in Int /\ x[3] \in Int
  BY <1>1, GoalTimesAssumption DEF Within, Schedules
<1>3. NonEmpty(NewStart(s, d, e)) /\ NonEmpty(NewLength(s, d, e)) /\ NonEmpty(NewEnd(s, d, e))
  BY <1>1, <1>2, NewSpan, InNonEmpty DEF Within
<1>4. In(x[1], Meet(start, s)) /\ In(x[2], Meet(dur, d)) /\ In(x[3], Meet(end, e))
  BY <1>1, <1>2, NewSpan, ScopeSpan, MeetSpan, NarrowerIn DEF Within
<1>5. Meets(start, s) /\ Meets(dur, d) /\ Meets(end, e)
  BY <1>2, <1>4, ScopeSpan, MeetSpan, InNonEmpty
<1> QED
  BY <1>3, <1>5 DEF Consistent

-----------------------------------------------------------------------------
(* startsAfter                                                             *)

(* No goal has a duration below 1: meeting durationDomain changes nothing. *)
Positive == Narrower(dur, durationDomain)

LEMMA ConstantSpans ==
  /\ dateDomain \in Span /\ durationDomain \in Span
  /\ \A n \in Int : From(n) \in Span
  BY DEF dateDomain, durationDomain, From, MinusInf, PlusInf, At, Span, Interval, Bound, Lower, Upper

(* A goal whose domains are propagated and which can start at date + delay *)
(* can be restricted to start at date or later: no date of its start needs *)
(* an end or a duration that the goal does not have.                       *)
LEMMA StartsAfterConsistent ==
  ASSUME TypeOK, Propagated, Positive, NEW date \in Int, NEW delay \in Nat,
         Meets(start, From(date + delay))
  PROVE  Consistent(From(date), durationDomain, dateDomain)
<1> DEFINE s0 == Meet(start, From(date))
           e1 == NewEnd(From(date), durationDomain, dateDomain)
           s1 == NewStart(From(date), durationDomain, dateDomain)
           d1 == NewLength(From(date), durationDomain, dateDomain)
<1>1. start \in Span /\ dur \in Span /\ end \in Span
  BY ScopeSpan
<1>2. /\ Meet(dur, durationDomain) = dur /\ Meets(dur, durationDomain)
      /\ Meet(end, dateDomain) = end /\ Meets(end, dateDomain)
  <2>1. MaxB(dur.lo, At(1)) = dur.lo /\ MinB(dur.hi, PlusInf) = dur.hi
    BY <1>1, SpanFields, BoundFields DEF Positive, Narrower, durationDomain, MaxB, MinB, Lt, PlusInf, Upper
  <2>2. MaxB(end.lo, MinusInf) = end.lo /\ MinB(end.hi, PlusInf) = end.hi
    BY <1>1, SpanFields, BoundFields, BoundEqual
    DEF MaxB, MinB, Lt, PlusInf, MinusInf, Upper, Lower
  <2>3. Meet(dur, durationDomain) = dur /\ Meet(end, dateDomain) = end
    BY <1>1, <2>1, <2>2, SpanFields DEF Meet, durationDomain, dateDomain
  <2> QED
    BY <1>1, <2>3, ScopeSpan, ConstantSpans, MeetSpan
<1>3. /\ s0 \in Span
      /\ e1 = EndOf(s0, dur, end)
      /\ s1 = StartOf(s0, dur, e1)
      /\ d1 = LengthOf(s1, dur, e1)
  BY <1>1, <1>2, ConstantSpans, MeetSpan DEF NewEnd, NewStart, NewLength
<1>4. /\ s0.hi = start.hi
      /\ s0.lo.inf = 0
      /\ \/ s0.lo.val = date
         \/ s0.lo = start.lo
      /\ start.hi.inf = 0 => date <= start.hi.val
  <2>1. s0.lo = MaxB(start.lo, At(date)) /\ s0.hi = MinB(start.hi, PlusInf)
    BY DEF Meet, From
  <2>2. start.lo.inf \in {-1, 0} /\ start.hi.inf \in {0, 1} /\ start.hi.val \in Int
    BY <1>1, SpanFields, BoundFields DEF Lower, Upper
  <2>3. MinB(start.hi, PlusInf) = start.hi
    BY <1>1, SpanFields, BoundFields DEF MinB, Lt, PlusInf, Upper
  <2>4. start.hi.inf = 0 => date + delay <= start.hi.val
    <3>1. ~Lt(MinB(start.hi, PlusInf), MaxB(start.lo, At(date + delay)))
      BY DEF Meets, From
    <3>2. start.lo.val \in Int
      BY <1>1, SpanFields, BoundFields
    <3> QED
      BY <2>2, <2>3, <3>1, <3>2 DEF MaxB, Lt, At
  <2> QED
    BY <2>1, <2>2, <2>3, <2>4 DEF MaxB, Lt, At
<1>5. e1 \in Span /\ s1 \in Span /\ d1 \in Span
  BY <1>1, <1>3, EndOfSpan, StartOfSpan, LengthOfSpan
<1> HIDE DEF s0, e1, s1, d1
<1>6. /\ EndFacts(start, dur, end, end)
      /\ StartFacts(start, dur, end, start)
      /\ LengthFacts(start, dur, end, dur)
  BY <1>1, EndOfFields, StartOfFields, LengthOfFields DEF Propagated
<1>7. /\ EndFacts(s0, dur, end, e1)
      /\ StartFacts(s0, dur, e1, s1)
      /\ LengthFacts(s1, dur, e1, d1)
  BY <1>1, <1>3, <1>5, EndOfFields, StartOfFields, LengthOfFields
<1>8. /\ \A b \in {start.lo, dur.lo, end.lo, s0.lo, e1.lo, s1.lo, d1.lo} : b.inf \in {-1, 0} /\ b.val \in Int
      /\ \A b \in {start.hi, dur.hi, end.hi, e1.hi, s1.hi, d1.hi} : b.inf \in {0, 1} /\ b.val \in Int
  BY <1>1, <1>3, <1>5, SpanFields, BoundFields DEF Lower, Upper
<1>9. /\ start.lo.inf = 0 /\ start.hi.inf = 0 => start.lo.val <= start.hi.val
      /\ dur.lo.inf = 0 /\ dur.hi.inf = 0 => dur.lo.val <= dur.hi.val
      /\ end.lo.inf = 0 /\ end.hi.inf = 0 => end.lo.val <= end.hi.val
  BY <1>8, ScopeSpan DEF NonEmpty, Lt
(* The new bound of the start leaves room for the end and the duration.    *)
<1>10. start.hi.inf = 0 => s0.lo.val <= start.hi.val
  BY <1>4, <1>8, <1>9
<1>11. dur.lo.inf = 0 /\ end.hi.inf = 0 => s0.lo.val + dur.lo.val <= end.hi.val
  BY <1>6, <1>8, <1>10 DEF StartFacts
<1>12. e1.lo.inf = 0 /\ e1.hi.inf = 0 => e1.lo.val <= e1.hi.val
  BY <1>4, <1>6, <1>7, <1>8, <1>9, <1>10, <1>11 DEF EndFacts
<1>13. s1.lo.inf = 0 /\ s1.hi.inf = 0 => s1.lo.val <= s1.hi.val
  BY <1>4, <1>6, <1>7, <1>8, <1>9, <1>10, <1>11, <1>12 DEF EndFacts, StartFacts
<1>14. d1.lo.inf = 0 /\ d1.hi.inf = 0 => d1.lo.val <= d1.hi.val
  BY <1>4, <1>6, <1>7, <1>8, <1>9, <1>10, <1>11, <1>12, <1>13 DEF EndFacts, StartFacts, LengthFacts
<1>15. NonEmpty(e1) /\ NonEmpty(s1) /\ NonEmpty(d1)
  BY <1>8, <1>12, <1>13, <1>14 DEF NonEmpty, Lt
<1>16. Meets(start, From(date))
  <2>1. NonEmpty(s0)
    BY <1>4, <1>8, <1>10 DEF NonEmpty, Lt
  <2> QED
    BY <1>1, <2>1, ConstantSpans, MeetSpan DEF s0
<1> QED
  BY <1>2, <1>15, <1>16 DEF Consistent, e1, s1, d1

-----------------------------------------------------------------------------
(* The inductive invariant                                                 *)

GoalInv ==
  /\ TypeOK
  /\ Propagated
  /\ Positive
  /\ Within(Schedules, start, dur, end) = wanted
  /\ NothingEscapes

LEMMA AssignKeeps ==
  ASSUME GoalInv, NEW s \in Span, NEW d \in Span, NEW e \in Span,
         Consistent(s, d, e), Assign(s, d, e)
  PROVE  GoalInv'
<1>1. TypeOK
  BY DEF GoalInv
<1>2. /\ start' = NewStart(s, d, e) /\ dur' = NewLength(s, d, e) /\ end' = NewEnd(s, d, e)
      /\ start' \in Domain /\ dur' \in Domain /\ end' \in Domain
      /\ Narrower(dur', dur) /\ answer' = "restricted" /\ Propagated'
  BY <1>1, Accepted
<1>3. wanted' = Within(wanted, s, d, e)
  BY DEF Assign
<1>4. TypeOK'
  BY <1>1, <1>2, <1>3 DEF TypeOK, Domain, Within
<1>5. Positive'
  <2>1. dur' \in Span /\ dur \in Span
    BY <1>1, <1>2, DomainSpan, ScopeSpan
  <2>2. Narrower(dur', durationDomain)
    BY <1>2, <2>1, ConstantSpans, NarrowerTransitive DEF GoalInv, Positive
  <2> QED
    BY <2>2 DEF Positive, durationDomain, At, PlusInf
<1>6. Within(Schedules, start', dur', end') = wanted'
  BY <1>1, <1>2, <1>3, NewWithin DEF GoalInv
<1>7. NothingEscapes'
  BY <1>2 DEF NothingEscapes
<1> QED
  BY <1>2, <1>4, <1>5, <1>6, <1>7 DEF GoalInv, Within, Schedules

LEMMA InitInv == Init => GoalInv
<1> SUFFICES ASSUME Init PROVE GoalInv
  OBVIOUS
<1>1. dateDomain \in Domain /\ durationDomain \in Domain
  BY ConstantSpans, SpanDomain
  DEF NonEmpty, dateDomain, durationDomain, Lt, MinusInf, PlusInf, At
<1>2. TypeOK
  BY <1>1 DEF Init, TypeOK, Domain, Within
<1>3. Propagated
  BY DEF Propagated, Init, EndOf, StartOf, LengthOf, dateDomain, durationDomain,
         MinusInf, PlusInf, At, Plus, Minus, MaxB, MinB, Lt
<1>4. Positive
  BY DEF Positive, Init, Narrower, durationDomain, PlusInf, At, Lt
<1>5. NothingEscapes /\ Within(Schedules, start, dur, end) = wanted
  BY DEF NothingEscapes, Init
<1> QED
  BY <1>2, <1>3, <1>4, <1>5 DEF GoalInv

LEMMA NextInv == GoalInv /\ [Next]_vars => GoalInv'
<1> SUFFICES ASSUME GoalInv, [Next]_vars PROVE GoalInv'
  OBVIOUS
<1>0. TypeOK
  BY DEF GoalInv
<1>1. ASSUME answer' \in {"refused", "late"}, UNCHANGED <<scope, wanted>>
      PROVE  GoalInv'
  BY <1>1 DEF GoalInv, TypeOK, Propagated, Positive, NothingEscapes, scope,
              EndOf, StartOf, LengthOf, Narrower, Within, Schedules
<1>2. ASSUME NEW s \in DateArgs, NEW e \in DateArgs, NEW d \in LengthArgs, Restrict(s, d, e)
      PROVE  GoalInv'
  <2>1. s \in Span /\ d \in Span /\ e \in Span
    BY GoalTimesAssumption, DomainSpan DEF Domain
  <2>2. CASE Consistent(s, d, e)
    BY <1>2, <2>1, <2>2, AssignKeeps DEF Restrict
  <2>3. CASE ~Consistent(s, d, e)
    BY <1>1, <1>2, <2>3 DEF Restrict
  <2> QED
    BY <2>2, <2>3
<1>3. ASSUME NEW date \in Dates, NEW delay \in Delays, StartsAfter(date, delay)
      PROVE  GoalInv'
  <2>1. date \in Int /\ delay \in Nat
    BY GoalTimesAssumption
  <2>2. CASE Meets(start, From(date + delay))
    <3>1. Consistent(From(date), durationDomain, dateDomain)
      BY <2>1, <2>2, StartsAfterConsistent DEF GoalInv
    <3> QED
      BY <1>3, <2>1, <2>2, <3>1, ConstantSpans, AssignKeeps DEF StartsAfter
  <2>3. CASE ~Meets(start, From(date + delay))
    BY <1>1, <1>3, <2>3 DEF StartsAfter
  <2> QED
    BY <2>2, <2>3
<1>4. CASE UNCHANGED vars
  BY <1>4 DEF vars, GoalInv, TypeOK, Propagated, Positive, NothingEscapes,
              EndOf, StartOf, LengthOf, Narrower, Within, Schedules
<1> QED
  BY <1>2, <1>3, <1>4 DEF Next

LEMMA InvHolds == Spec => []GoalInv
  BY InitInv, NextInv, PTL DEF Spec

-----------------------------------------------------------------------------
(* Theorems                                                                *)

(* The three variables of a goal are domains IntervalDomain accepts.       *)
THEOREM TypeCorrect == Spec => []TypeOK
<1>1. GoalInv => TypeOK
  BY DEF GoalInv
<1> QED
  BY <1>1, InvHolds, PTL

(* restrictTime is exact for any dates: a goal stands for the schedules    *)
(* all the accepted calls allow, and a call is refused only when none of   *)
(* them is what it asks for.                                               *)
THEOREM ScheduleExact == Spec => []ExactlyWhatIsAsked
<1>1. GoalInv => ExactlyWhatIsAsked
  <2> SUFFICES ASSUME GoalInv,
                      NEW s \in DateArgs, NEW e \in DateArgs, NEW d \in LengthArgs,
                      ~Consistent(s, d, e)
               PROVE  Within(wanted, s, d, e) = {}
    BY DEF ExactlyWhatIsAsked, GoalInv
  <2>1. s \in Span /\ d \in Span /\ e \in Span
    BY GoalTimesAssumption, DomainSpan DEF Domain
  <2> QED
    BY <2>1, Refused DEF GoalInv
<1> QED
  BY <1>1, InvHolds, PTL

(* The throw that "should not happen" does not, and the startsAfter of a   *)
(* dispatch never throws.                                                  *)
THEOREM NeverEscapes == Spec => []NothingEscapes
<1>1. GoalInv => NothingEscapes
  BY DEF GoalInv
<1> QED
  BY <1>1, InvHolds, PTL
=============================================================================
