---------------------------- MODULE GoalFlow_proofs ----------------------------
(***************************************************************************)
(* Proofs about GoalFlow, for any goals, servers, dates and latencies, and *)
(* in the order of the results:                                            *)
(*                                                                         *)
(* FlowInv is inductive whatever the threads do.  Besides the types, the   *)
(* order of the queue, the one place of a goal and the count of a server's *)
(* goals, it says that something is handled only while a server is asked,  *)
(* that the requests in the strand are for the present owner (it gives the *)
(* timeline up on the strand, after them) and that a goal that is yet to   *)
(* be posted is nowhere.                                                   *)
(*                                                                         *)
(* WordInv follows the last word of the client to the owner, provided that *)
(* no other thread posts or recalls: a recall then finds the strand empty, *)
(* so it comes after the request it recalls.                               *)
(*                                                                         *)
(* RequestInv is what remains of WordInv when another thread does.         *)
(*                                                                         *)
(* CopyInv says that a goal is not twice on its way to one server, which   *)
(* OnePlace leaves open, so that it is handled once.                       *)
(*                                                                         *)
(* Dispatch and recall walk the queue and erase entries (Keep).  What such *)
(* a walk leaves would be shown by induction on its steps; here it is the  *)
(* least step at which it would be wrong that leads to a contradiction     *)
(* (Least).                                                                *)
(***************************************************************************)
EXTENDS GoalFlow, SequenceTheorems, WellFoundedInduction, TLAPS

-----------------------------------------------------------------------------
(* Lists                                                                   *)

(* A non-empty set of natural numbers has a least element: what stands in  *)
(* for induction below.                                                    *)
LEMMA Least ==
  ASSUME NEW T \in SUBSET Nat, T # {}
  PROVE  \E m \in T : \A k \in T : m <= k
<1>1. PICK R : R = {ss \in Nat \X Nat : ss[1] < ss[2]} /\ IsWellFoundedOn(R, Nat)
  BY NatLessThanWellFounded DEF OpToRel
<1>2. PICK m \in T : \A k \in T : ~(<<k, m>> \in R)
  BY <1>1, WFMin
<1>3. ASSUME NEW k \in T PROVE m <= k
  <2>1. k \in Nat /\ m \in Nat /\ ~(<<k, m>> \in R)
    BY <1>2
  <2>2. ~(k < m)
    BY <1>1, <2>1
  <2> QED
    BY <2>1, <2>2
<1> QED
  BY <1>3

(* The steps of the walk that Keep describes, up to the entry n.           *)
Walk(f, s, S, n) ==
  /\ f[0] = <<>>
  /\ \A i \in 1..n : f[i] = IF s[i] \in S THEN Append(f[i - 1], s[i]) ELSE f[i - 1]

LEMMA WalkExists ==
  ASSUME NEW T, NEW s \in Seq(T), NEW S
  PROVE  \E f \in [0..Len(s) -> Seq(T)] : Walk(f, s, S, Len(s))
<1> DEFINE Bad == {n \in Nat : n <= Len(s) /\ ~ \E f \in [0..n -> Seq(T)] : Walk(f, s, S, n)}
<1>0. Len(s) \in Nat /\ \A i \in 1..Len(s) : s[i] \in T
  BY LenProperties
<1>1. SUFFICES Bad = {}
  BY <1>0
<1>2. SUFFICES ASSUME Bad # {} PROVE FALSE
  OBVIOUS
<1>3. PICK m \in Bad : \A k \in Bad : m <= k
  <2>1. Bad \in SUBSET Nat /\ Bad # {}
    BY <1>2
  <2> HIDE DEF Bad
  <2> QED
    BY <2>1, Least
<1>4. CASE m = 0
  <2> DEFINE f == [i \in 0..0 |-> <<>>]
  <2>1. <<>> \in Seq(T)
    BY EmptySeq
  <2>2. f \in [0..0 -> Seq(T)] /\ Walk(f, s, S, 0)
    BY <2>1 DEF Walk
  <2> QED
    BY <1>3, <1>4, <2>2
<1>5. CASE m # 0
  <2>1. m \in Nat /\ m - 1 \in Nat /\ m \in 1..Len(s) /\ m - 1 <= Len(s)
    <3>1. m \in Nat /\ m <= Len(s)
      BY <1>3
    <3> QED
      BY <1>0, <1>5, <3>1
  <2>2. PICK f \in [0..(m - 1) -> Seq(T)] : Walk(f, s, S, m - 1)
    <3>1. m - 1 \notin Bad
      <4> HIDE DEF Bad
      <4> QED
        BY <1>3, <2>1
    <3> QED
      BY <2>1, <3>1
  <2> DEFINE last == IF s[m] \in S THEN Append(f[m - 1], s[m]) ELSE f[m - 1]
             g == [i \in 0..m |-> IF i = m THEN last ELSE f[i]]
  <2>3. last \in Seq(T)
    <3>1. f[m - 1] \in Seq(T) /\ s[m] \in T
      BY <1>0, <2>1, <2>2
    <3>2. Append(f[m - 1], s[m]) \in Seq(T)
      BY <3>1, AppendProperties
    <3> QED
      BY <3>1, <3>2
  <2>4. g \in [0..m -> Seq(T)]
    <3> HIDE DEF last
    <3>1. ASSUME NEW i \in 0..m, i # m PROVE i \in 0..(m - 1)
      BY <2>1, <3>1
    <3> QED
      BY <2>2, <2>3, <3>1
  <2>5. Walk(g, s, S, m)
    <3>1. g[0] = <<>>
      BY <2>1, <2>2, <1>5 DEF Walk
    <3>2. ASSUME NEW i \in 1..m
          PROVE  g[i] = IF s[i] \in S THEN Append(g[i - 1], s[i]) ELSE g[i - 1]
      <4>1. i \in 0..m /\ i - 1 \in 0..m /\ i - 1 # m /\ i - 1 \in 0..(m - 1)
        BY <2>1, <3>2
      <4>2. g[i - 1] = f[i - 1]
        BY <4>1
      <4>3. CASE i = m
        BY <4>1, <4>2, <4>3
      <4>4. CASE i # m
        <5>1. i \in 1..(m - 1)
          BY <2>1, <4>4
        <5>2. g[i] = f[i]
          BY <4>1, <4>4
        <5> QED
          BY <2>2, <4>2, <5>1, <5>2 DEF Walk
      <4> QED
        BY <4>3, <4>4
    <3> QED
      BY <3>1, <3>2 DEF Walk
  <2> QED
    BY <1>3, <2>4, <2>5
<1> QED
  BY <1>4, <1>5

(* Keep returns where the walk ends.                                       *)
LEMMA KeepWalks ==
  ASSUME NEW T, NEW s \in Seq(T), NEW S
  PROVE  \E f \in [0..Len(s) -> Seq(T)] : Walk(f, s, S, Len(s)) /\ Keep(s, S) = f[Len(s)]
<1> DEFINE Unfold(f) == [i \in 0..Len(s) |->
                           IF i = 0 THEN <<>>
                           ELSE IF s[i] \in S THEN Append(f[i - 1], s[i]) ELSE f[i - 1]]
           kept == CHOOSE f : f = Unfold(f)
<1>0. Len(s) \in Nat /\ \A i \in 1..Len(s) : s[i] \in T
  BY LenProperties
<1>1. Keep(s, S) = kept[Len(s)]
  BY DEF Keep
<1>2. PICK f \in [0..Len(s) -> Seq(T)] : Walk(f, s, S, Len(s))
  BY WalkExists
<1>3. f = Unfold(f)
  <2>1. \A i \in 0..Len(s) : i = 0 \/ i \in 1..Len(s)
    BY <1>0
  <2> QED
    BY <1>2, <2>1 DEF Walk
<1>4. kept = Unfold(kept)
  <2> HIDE DEF Unfold
  <2> QED
    BY <1>3
<1> HIDE DEF kept
<1>5. Walk(kept, s, S, Len(s))
  <2>1. kept[0] = <<>>
    BY <1>0, <1>4
  <2>2. ASSUME NEW i \in 1..Len(s)
        PROVE  kept[i] = IF s[i] \in S THEN Append(kept[i - 1], s[i]) ELSE kept[i - 1]
    <3>1. i \in 0..Len(s) /\ i # 0
      BY <1>0
    <3> QED
      BY <1>4, <3>1
  <2> QED
    BY <2>1, <2>2 DEF Walk
<1>6. kept \in [0..Len(s) -> Seq(T)]
  <2> DEFINE Bad == {i \in 0..Len(s) : kept[i] \notin Seq(T)}
  <2>1. SUFFICES ASSUME Bad # {} PROVE FALSE
    BY <1>4
  <2>2. PICK m \in Bad : \A k \in Bad : m <= k
    <3>1. Bad \in SUBSET Nat /\ Bad # {}
      BY <1>0, <2>1
    <3> HIDE DEF Bad
    <3> QED
      BY <3>1, Least
  <2>3. m # 0
    BY <1>5, <2>2, EmptySeq DEF Walk
  <2>4. m \in 1..Len(s) /\ m - 1 \in 0..Len(s) /\ m - 1 \notin Bad
    BY <1>0, <2>2, <2>3
  <2>5. kept[m - 1] \in Seq(T) /\ s[m] \in T
    BY <1>0, <2>4
  <2>6. Append(kept[m - 1], s[m]) \in Seq(T)
    BY <2>5, AppendProperties
  <2> QED
    BY <1>5, <2>2, <2>4, <2>5, <2>6 DEF Walk
<1> QED
  BY <1>1, <1>5, <1>6

(* r takes the entries of s at the places h, which follow each other.      *)
Picks(r, s, h) ==
  /\ \A i \in 1..Len(r) : h[i] \in 1..Len(s) /\ r[i] = s[h[i]]
  /\ \A i, j \in 1..Len(r) : i < j => h[i] < h[j]

(* Keep keeps the entries that are in S, all of them, in their order.      *)
LEMMA Keeping ==
  ASSUME NEW T, NEW s \in Seq(T), NEW S
  PROVE  /\ Keep(s, S) \in Seq(T)
         /\ Elements(Keep(s, S)) = Elements(s) \cap S
         /\ \E h : Picks(Keep(s, S), s, h)
<1>0. Len(s) \in Nat /\ DOMAIN s = 1..Len(s) /\ \A i \in 1..Len(s) : s[i] \in T
  BY LenProperties
<1>1. PICK f \in [0..Len(s) -> Seq(T)] : Walk(f, s, S, Len(s)) /\ Keep(s, S) = f[Len(s)]
  BY KeepWalks
<1>2. \A n \in 0..Len(s) :
        f[n] \in Seq(T) /\ Len(f[n]) \in Nat /\ DOMAIN f[n] = 1..Len(f[n])
  <2> TAKE n \in 0..Len(s)
  <2>1. f[n] \in Seq(T)
    BY <1>1
  <2> QED
    BY <2>1, LenProperties
<1> DEFINE
    By(h, q, n) ==
      /\ \A i \in 1..Len(q) : h[i] \in 1..n /\ q[i] = s[h[i]] /\ s[h[i]] \in S
      /\ \A i, j \in 1..Len(q) : i < j => h[i] < h[j]
      /\ \A k \in 1..n : s[k] \in S => \E i \in 1..Len(q) : h[i] = k
    Right(q, n) == \E h : By(h, q, n)
    Bad == {n \in 0..Len(s) : ~Right(f[n], n)}
<1>3. Right(f[0], 0)
  BY <1>1, EmptySeq DEF Walk
<1>4. ASSUME NEW n \in 1..Len(s), Right(f[n - 1], n - 1) PROVE Right(f[n], n)
  <2>1. n - 1 \in 0..Len(s) /\ n \in 0..Len(s) /\ n \in Nat /\ s[n] \in T
    BY <1>0
  <2>2. f[n] = IF s[n] \in S THEN Append(f[n - 1], s[n]) ELSE f[n - 1]
    BY <1>1 DEF Walk
  <2> DEFINE old == f[n - 1]
             L == Len(old)
  <2>3. PICK h :
          /\ \A i \in 1..L : h[i] \in 1..(n - 1) /\ old[i] = s[h[i]] /\ s[h[i]] \in S
          /\ \A i, j \in 1..L : i < j => h[i] < h[j]
          /\ \A k \in 1..(n - 1) : s[k] \in S => \E i \in 1..L : h[i] = k
    BY <1>4
  <2>4. L \in Nat /\ old \in Seq(T)
    BY <1>2, <2>1
  <2>5. CASE s[n] \notin S
    <3>1. f[n] = old
      BY <2>2, <2>5
    <3>2. \A i \in 1..L : h[i] \in 1..n
      BY <2>1, <2>3
    <3>3. \A k \in 1..n : s[k] \in S => k \in 1..(n - 1)
      BY <2>1, <2>5
    <3> HIDE DEF old, L
    <3>4. \A k \in 1..n : s[k] \in S => \E i \in 1..L : h[i] = k
      BY <2>3, <3>3
    <3> QED
      BY <2>3, <3>1, <3>2, <3>4 DEF L
  <2>6. CASE s[n] \in S
    <3>1. /\ f[n] = Append(old, s[n]) /\ Len(f[n]) = L + 1
          /\ \A i \in 1..L : f[n][i] = old[i]
          /\ f[n][L + 1] = s[n]
      BY <2>1, <2>2, <2>4, <2>6, AppendProperties
    <3> DEFINE e == [i \in 1..(L + 1) |-> IF i = L + 1 THEN n ELSE h[i]]
    <3> HIDE DEF old, L
    <3>2. ASSUME NEW i \in 1..(L + 1), i # L + 1 PROVE i \in 1..L
      BY <2>4, <3>2
    <3>3. \A i \in 1..L : e[i] = h[i] /\ i # L + 1
      BY <2>4
    <3>4. e[L + 1] = n /\ L + 1 \in 1..(L + 1)
      BY <2>4
    <3>5. ASSUME NEW i \in 1..(L + 1)
          PROVE  e[i] \in 1..n /\ f[n][i] = s[e[i]] /\ s[e[i]] \in S
      <4>1. CASE i = L + 1
        BY <2>1, <2>6, <3>1, <3>4, <4>1
      <4>2. CASE i # L + 1
        <5>1. i \in 1..L /\ e[i] = h[i]
          BY <3>2, <3>3, <4>2
        <5>2. h[i] \in 1..(n - 1) /\ old[i] = s[h[i]] /\ s[h[i]] \in S
          BY <2>3, <5>1
        <5> QED
          BY <2>1, <3>1, <5>1, <5>2
      <4> QED
        BY <4>1, <4>2
    <3>6. ASSUME NEW i \in 1..(L + 1), NEW j \in 1..(L + 1), i < j PROVE e[i] < e[j]
      <4>1. i \in 1..L /\ e[i] = h[i] /\ h[i] \in 1..(n - 1)
        <5>1. i \in 1..L
          BY <2>4, <3>6
        <5> QED
          BY <2>3, <3>3, <5>1
      <4>2. CASE j = L + 1
        BY <2>1, <3>4, <4>1, <4>2
      <4>3. CASE j # L + 1
        BY <2>3, <3>2, <3>3, <3>6, <4>1, <4>3
      <4> QED
        BY <4>2, <4>3
    <3>7. ASSUME NEW k \in 1..n, s[k] \in S PROVE \E i \in 1..(L + 1) : e[i] = k
      <4>1. CASE k = n
        BY <3>4, <4>1
      <4>2. CASE k # n
        <5>1. k \in 1..(n - 1)
          BY <2>1, <4>2
        <5>2. PICK i \in 1..L : h[i] = k
          BY <2>3, <3>7, <5>1
        <5>3. i \in 1..(L + 1)
          BY <2>4
        <5> QED
          BY <3>3, <5>2, <5>3
      <4> QED
        BY <4>1, <4>2
    <3> HIDE DEF e
    <3>8. By(e, f[n], n)
      BY <3>1, <3>5, <3>6, <3>7
    <3> QED
      BY <3>8
  <2> QED
    BY <2>5, <2>6
<1> HIDE DEF Right
<1>5. Bad = {}
  <2> SUFFICES ASSUME Bad # {} PROVE FALSE
    OBVIOUS
  <2>1. Bad \in SUBSET Nat
    BY <1>0
  <2>2. PICK m \in Bad : \A k \in Bad : m <= k
    <3> HIDE DEF Bad
    <3> QED
      BY <2>1, Least
  <2>3. m # 0
    BY <1>3, <2>2
  <2>4. m \in 1..Len(s) /\ m - 1 \in 0..Len(s) /\ ~(m <= m - 1)
    BY <1>0, <2>2, <2>3
  <2>5. m - 1 \notin Bad
    BY <2>2, <2>4
  <2> QED
    BY <1>4, <2>2, <2>4, <2>5
<1>6. Len(s) \in 0..Len(s) /\ Right(f[Len(s)], Len(s))
  BY <1>0, <1>5
<1> DEFINE r == Keep(s, S)
<1>7. r \in Seq(T) /\ Len(r) \in Nat /\ DOMAIN r = 1..Len(r)
  BY <1>1, <1>2, <1>6
<1>8. PICK h : By(h, r, Len(s))
  <2>1. Right(r, Len(s))
    BY <1>1, <1>6
  <2> QED
    BY <2>1 DEF Right
<1> HIDE DEF r
<1>9. Elements(r) = Elements(s) \cap S
  <2>1. ASSUME NEW x \in Elements(r) PROVE x \in Elements(s) \cap S
    <3>1. PICK i \in 1..Len(r) : x = r[i]
      BY <1>7, <2>1 DEF Elements
    <3> QED
      BY <1>0, <1>8, <3>1 DEF Elements
  <2>2. ASSUME NEW x \in Elements(s) \cap S PROVE x \in Elements(r)
    <3>1. PICK k \in 1..Len(s) : x = s[k] /\ s[k] \in S
      BY <1>0, <2>2 DEF Elements
    <3>2. PICK i \in 1..Len(r) : h[i] = k
      BY <1>8, <3>1
    <3> QED
      BY <1>7, <1>8, <3>1, <3>2 DEF Elements
  <2> QED
    BY <2>1, <2>2
<1>10. Picks(r, s, h)
  BY <1>8 DEF Picks
<1> QED
  BY <1>7, <1>9, <1>10 DEF r

(* No goal is twice in the list s.                                         *)
Distinct(s) == \A i, j \in DOMAIN s : s[i] = s[j] => i = j

LEMMA DistinctKept ==
  ASSUME NEW T, NEW s \in Seq(T), NEW S, Distinct(s)
  PROVE  Distinct(Keep(s, S))
<1> DEFINE r == Keep(s, S)
<1>1. PICK h : r \in Seq(T) /\ Picks(r, s, h)
  BY Keeping
<1> HIDE DEF r
<1>2. DOMAIN r = 1..Len(r) /\ Len(r) \in Nat /\ DOMAIN s = 1..Len(s) /\ Len(s) \in Nat
  BY <1>1, LenProperties
<1>3. ASSUME NEW i \in 1..Len(r), NEW j \in 1..Len(r), r[i] = r[j] PROVE i = j
  <2>1. h[i] = h[j] /\ h[i] \in 1..Len(s)
    BY <1>1, <1>2, <1>3 DEF Picks, Distinct
  <2>2. ~(i < j) /\ ~(j < i)
    BY <1>1, <1>2, <2>1 DEF Picks
  <2> QED
    BY <1>2, <2>2
<1> QED
  BY <1>2, <1>3 DEF Distinct, r

LEMMA ElementsOf ==
  ASSUME NEW T, NEW s \in Seq(T)
  PROVE  /\ DOMAIN s = 1..Len(s) /\ Len(s) \in Nat
         /\ Elements(s) = {s[i] : i \in 1..Len(s)} /\ Elements(s) \subseteq T
         /\ s = <<>> <=> Len(s) = 0
         /\ s = <<>> <=> Elements(s) = {}
<1>1. DOMAIN s = 1..Len(s) /\ Len(s) \in Nat /\ \A i \in 1..Len(s) : s[i] \in T
  BY LenProperties
<1>2. s = <<>> <=> Len(s) = 0
  BY EmptySeq
<1>3. Elements(s) = {s[i] : i \in 1..Len(s)}
  BY <1>1 DEF Elements
<1>4. Len(s) # 0 => 1 \in 1..Len(s)
  BY <1>1
<1>5. Len(s) = 0 => 1..Len(s) = {}
  OBVIOUS
<1> QED
  BY <1>1, <1>2, <1>3, <1>4, <1>5

LEMMA AppendElements ==
  ASSUME NEW T, NEW s \in Seq(T), NEW x \in T
  PROVE  /\ Append(s, x) \in Seq(T) /\ Len(Append(s, x)) = Len(s) + 1
         /\ \A i \in 1..Len(s) : Append(s, x)[i] = s[i]
         /\ Append(s, x)[Len(s) + 1] = x
         /\ Elements(Append(s, x)) = Elements(s) \cup {x}
<1>1. /\ Append(s, x) \in Seq(T) /\ Len(Append(s, x)) = Len(s) + 1 /\ Len(s) \in Nat
      /\ \A i \in 1..Len(s) : Append(s, x)[i] = s[i]
      /\ Append(s, x)[Len(s) + 1] = x
  BY AppendProperties, LenProperties
<1>2. /\ Elements(Append(s, x)) = {Append(s, x)[i] : i \in 1..(Len(s) + 1)}
      /\ Elements(s) = {s[i] : i \in 1..Len(s)}
  <2>1. Elements(Append(s, x)) = {Append(s, x)[i] : i \in 1..Len(Append(s, x))}
    BY ONLY <1>1, ElementsOf
  <2> QED
    BY <1>1, <2>1, ElementsOf
<1>3. 1..(Len(s) + 1) = (1..Len(s)) \cup {Len(s) + 1}
  BY <1>1
<1> QED
  BY <1>1, <1>2, <1>3

LEMMA TailElements ==
  ASSUME NEW T, NEW s \in Seq(T), s # <<>>
  PROVE  /\ Tail(s) \in Seq(T) /\ Len(Tail(s)) = Len(s) - 1 /\ Len(s) > 0
         /\ \A i \in 1..(Len(s) - 1) : Tail(s)[i] = s[i + 1]
         /\ Head(s) = s[1] /\ Head(s) \in T
         /\ Elements(s) = Elements(Tail(s)) \cup {Head(s)}
<1>1. /\ Tail(s) \in Seq(T) /\ Len(Tail(s)) = Len(s) - 1 /\ Len(s) > 0 /\ Len(s) \in Nat
      /\ \A i \in 1..(Len(s) - 1) : Tail(s)[i] = s[i + 1]
      /\ Head(s) = s[1] /\ Head(s) \in T
  BY HeadTailProperties, LenProperties, EmptySeq
<1>2. /\ Elements(Tail(s)) = {Tail(s)[i] : i \in 1..(Len(s) - 1)}
      /\ Elements(s) = {s[i] : i \in 1..Len(s)}
  <2>1. Elements(Tail(s)) = {Tail(s)[i] : i \in 1..Len(Tail(s))}
    BY ONLY <1>1, ElementsOf
  <2> QED
    BY <1>1, <2>1, ElementsOf
<1>3. \A i \in 1..Len(s) : i = 1 \/ (i - 1 \in 1..(Len(s) - 1) /\ (i - 1) + 1 = i)
  BY <1>1
<1>4. \A i \in 1..(Len(s) - 1) : i + 1 \in 1..Len(s)
  BY <1>1
<1>5. 1 \in 1..Len(s)
  BY <1>1
<1>6. Elements(s) \subseteq Elements(Tail(s)) \cup {Head(s)}
  <2> SUFFICES ASSUME NEW i \in 1..Len(s) PROVE s[i] \in Elements(Tail(s)) \cup {Head(s)}
    BY <1>2
  <2>1. CASE i = 1
    BY <1>1, <2>1
  <2>2. CASE i # 1
    <3>1. i - 1 \in 1..(Len(s) - 1) /\ Tail(s)[i - 1] = s[i]
      BY <1>1, <1>3, <2>2
    <3> QED
      BY <1>2, <3>1
  <2> QED
    BY <2>1, <2>2
<1>7. Elements(Tail(s)) \subseteq Elements(s) /\ Head(s) \in Elements(s)
  BY <1>1, <1>2, <1>4, <1>5
<1> QED
  BY <1>1, <1>6, <1>7

LEMMA ConcatElements ==
  ASSUME NEW T, NEW s \in Seq(T), NEW t \in Seq(T)
  PROVE  /\ s \o t \in Seq(T) /\ Len(s \o t) = Len(s) + Len(t)
         /\ Elements(s \o t) = Elements(s) \cup Elements(t)
<1>1. /\ s \o t \in Seq(T) /\ Len(s \o t) = Len(s) + Len(t)
      /\ Len(s) \in Nat /\ Len(t) \in Nat
      /\ \A i \in 1..(Len(s) + Len(t)) :
           (s \o t)[i] = IF i <= Len(s) THEN s[i] ELSE t[i - Len(s)]
  BY ConcatProperties, LenProperties
<1> DEFINE r == s \o t
           L == Len(s)
           M == Len(t)
<1> HIDE DEF r, L, M
<1>2. /\ Elements(r) = {r[i] : i \in 1..(L + M)}
      /\ Elements(s) = {s[i] : i \in 1..L}
      /\ Elements(t) = {t[i] : i \in 1..M}
  <2>1. Elements(r) = {r[i] : i \in 1..Len(r)} /\ Len(r) = L + M
    <3>1. r \in Seq(T) /\ Len(r) = L + M
      BY <1>1 DEF r, L, M
    <3> QED
      BY ONLY <3>1, ElementsOf
  <2>2. Elements(s) = {s[i] : i \in 1..L} /\ Elements(t) = {t[i] : i \in 1..M}
    BY ElementsOf DEF L, M
  <2> QED
    BY <2>1, <2>2
<1>3. L \in Nat /\ M \in Nat
      /\ \A i \in 1..(L + M) : r[i] = IF i <= L THEN s[i] ELSE t[i - L]
  BY <1>1 DEF r, L, M
<1>4. ASSUME NEW i \in 1..(L + M) PROVE r[i] \in Elements(s) \cup Elements(t)
  <2>1. i <= L => i \in 1..L
    BY <1>3
  <2>2. ~(i <= L) => i - L \in 1..M
    BY <1>3
  <2> QED
    BY <1>2, <1>3, <2>1, <2>2
<1>5. ASSUME NEW i \in 1..L PROVE s[i] \in Elements(r)
  <2>1. i \in 1..(L + M) /\ i <= L
    BY <1>3
  <2> QED
    BY <1>2, <1>3, <2>1
<1>6. ASSUME NEW i \in 1..M PROVE t[i] \in Elements(r)
  <2>1. L + i \in 1..(L + M) /\ ~(L + i <= L) /\ (L + i) - L = i
    BY <1>3
  <2>2. r[L + i] = t[i]
    BY <1>3, <2>1
  <2> QED
    BY <1>2, <2>1, <2>2
<1>7. Elements(r) = Elements(s) \cup Elements(t)
  BY <1>2, <1>4, <1>5, <1>6
<1> QED
  BY <1>1, <1>7 DEF r

(* A list with x inserted after its first p entries.                       *)
Insertion(s, x, p) == SubSeq(s, 1, p) \o <<x>> \o SubSeq(s, p + 1, Len(s))

LEMMA Inserting ==
  ASSUME NEW T, NEW s \in Seq(T), NEW x \in T, NEW p \in 0..Len(s)
  PROVE  /\ Insertion(s, x, p) \in Seq(T) /\ Len(Insertion(s, x, p)) = Len(s) + 1
         /\ \A i \in 1..p : Insertion(s, x, p)[i] = s[i]
         /\ Insertion(s, x, p)[p + 1] = x
         /\ \A i \in (p + 2)..(Len(s) + 1) : Insertion(s, x, p)[i] = s[i - 1]
         /\ Elements(Insertion(s, x, p)) = Elements(s) \cup {x}
         /\ Distinct(s) /\ x \notin Elements(s) => Distinct(Insertion(s, x, p))
<1> DEFINE r == Insertion(s, x, p)
           a == SubSeq(s, 1, p)
           b == SubSeq(s, p + 1, Len(s))
           L == Len(s)
<1>0. L \in Nat /\ p \in Nat /\ p <= L /\ \A i \in 1..L : s[i] \in T
  BY LenProperties
<1>1. a \in Seq(T) /\ Len(a) = p /\ \A i \in 1..p : a[i] = s[i]
  <2>1. \A i \in 1..p : s[i] \in T /\ 1 + i - 1 = i
    BY <1>0
  <2>2. p - 1 + 1 = p /\ (IF 1 <= p THEN p - 1 + 1 ELSE 0) = p
    BY <1>0
  <2>3. /\ a \in Seq(T) /\ Len(a) = IF 1 <= p THEN p - 1 + 1 ELSE 0
        /\ \A i \in 1..(p - 1 + 1) : a[i] = s[1 + i - 1]
    BY <1>0, <2>1, SubSeqProperties
  <2> HIDE DEF a
  <2> QED
    BY <2>1, <2>2, <2>3
<1>2. b \in Seq(T) /\ Len(b) = L - p /\ \A i \in 1..(L - p) : b[i] = s[p + i]
  <2>1. /\ \A i \in (p + 1)..L : s[i] \in T
        /\ \A i \in 1..(L - p) : p + 1 + i - 1 = p + i
    BY <1>0
  <2>2. L - (p + 1) + 1 = L - p /\ (IF p + 1 <= L THEN L - (p + 1) + 1 ELSE 0) = L - p
    BY <1>0
  <2>3. p + 1 \in Int /\ L \in Int
    BY <1>0
  <2>4. /\ b \in Seq(T) /\ Len(b) = IF p + 1 <= L THEN L - (p + 1) + 1 ELSE 0
        /\ \A i \in 1..(L - (p + 1) + 1) : b[i] = s[p + 1 + i - 1]
    BY <2>1, <2>3, SubSeqProperties
  <2> HIDE DEF a, b, L
  <2> QED
    BY <2>1, <2>2, <2>4
<1>3. <<x>> \in Seq(T) /\ Len(<<x>>) = 1 /\ <<x>>[1] = x
  OBVIOUS
<1> HIDE DEF a, b
<1> DEFINE c == a \o <<x>>
<1>4. /\ c \in Seq(T) /\ Len(c) = p + 1
      /\ \A i \in 1..(p + 1) : c[i] = IF i <= p THEN a[i] ELSE <<x>>[i - p]
  BY <1>1, <1>3, ConcatProperties
<1>5. (\A i \in 1..p : c[i] = s[i]) /\ c[p + 1] = x
  <2>1. p + 1 \in 1..(p + 1) /\ ~(p + 1 <= p) /\ (p + 1) - p = 1
    BY <1>0
  <2>2. \A i \in 1..p : i \in 1..(p + 1) /\ i <= p
    BY <1>0
  <2> HIDE DEF c
  <2> QED
    BY <1>1, <1>3, <1>4, <2>1, <2>2
<1>6. r = c \o b
  BY DEF a, b, Insertion
<1> HIDE DEF c, L, r
<1>7. /\ r \in Seq(T) /\ Len(r) = (p + 1) + (L - p)
      /\ \A i \in 1..((p + 1) + (L - p)) : r[i] = IF i <= p + 1 THEN c[i] ELSE b[i - (p + 1)]
  <2>1. /\ r \in Seq(T) /\ Len(r) = Len(c) + Len(b)
        /\ \A i \in 1..(Len(c) + Len(b)) : r[i] = IF i <= Len(c) THEN c[i] ELSE b[i - Len(c)]
    BY ONLY <1>2, <1>4, <1>6, ConcatProperties
  <2> QED
    BY <1>2, <1>4, <2>1
<1>8. (p + 1) + (L - p) = L + 1
  BY <1>0
<1>9. Len(r) = L + 1 /\ \A i \in 1..(L + 1) : r[i] = IF i <= p + 1 THEN c[i] ELSE b[i - (p + 1)]
  BY <1>7, <1>8
<1>10. /\ \A i \in 1..p : r[i] = s[i]
       /\ r[p + 1] = x
  <2>1. \A i \in 1..p : i \in 1..(L + 1) /\ i <= p + 1
    BY <1>0
  <2>2. p + 1 \in 1..(L + 1) /\ p + 1 <= p + 1
    BY <1>0
  <2> QED
    BY <1>5, <1>9, <2>1, <2>2
<1>11. ASSUME NEW i \in (p + 2)..(L + 1) PROVE r[i] = s[i - 1]
  <2>1. i \in 1..(L + 1) /\ ~(i <= p + 1) /\ i - (p + 1) \in 1..(L - p) /\ p + (i - (p + 1)) = i - 1
    BY <1>0
  <2>2. r[i] = b[i - (p + 1)] /\ b[i - (p + 1)] = s[p + (i - (p + 1))]
    BY <1>2, <1>9, <2>1
  <2> QED
    BY <2>1, <2>2
<1>12. \A i \in 1..(L + 1) : i \in 1..p \/ i = p + 1 \/ (i \in (p + 2)..(L + 1) /\ i - 1 \in 1..L)
  BY <1>0
<1>13. Elements(r) = {r[i] : i \in 1..(L + 1)} /\ Elements(s) = {s[i] : i \in 1..L}
       /\ DOMAIN r = 1..(L + 1) /\ DOMAIN s = 1..L
  <2>1. /\ Elements(r) = {r[i] : i \in 1..Len(r)} /\ DOMAIN r = 1..Len(r)
    BY ONLY <1>7, ElementsOf
  <2>2. Elements(s) = {s[i] : i \in 1..L} /\ DOMAIN s = 1..L
    BY ElementsOf DEF L
  <2> QED
    BY <1>9, <2>1, <2>2
<1>14. Elements(r) \subseteq Elements(s) \cup {x}
  <2> SUFFICES ASSUME NEW i \in 1..(L + 1) PROVE r[i] \in Elements(s) \cup {x}
    BY <1>13
  <2>1. \A k \in 1..p : k \in 1..L
    BY <1>0
  <2> QED
    BY <1>10, <1>11, <1>12, <1>13, <2>1
<1>15. Elements(s) \cup {x} \subseteq Elements(r)
  <2>1. p + 1 \in 1..(L + 1)
    BY <1>0
  <2>2. ASSUME NEW i \in 1..L PROVE s[i] \in Elements(r)
    <3>1. CASE i <= p
      <4>1. i \in 1..p /\ i \in 1..(L + 1)
        BY <1>0, <3>1
      <4> QED
        BY <1>10, <1>13, <4>1
    <3>2. CASE ~(i <= p)
      <4>1. i + 1 \in (p + 2)..(L + 1) /\ i + 1 \in 1..(L + 1) /\ (i + 1) - 1 = i
        BY <1>0, <3>2
      <4>2. r[i + 1] = s[i]
        BY <1>11, <4>1
      <4> QED
        BY <1>13, <4>1, <4>2
    <3> QED
      BY <3>1, <3>2
  <2> QED
    BY <1>10, <1>13, <2>1, <2>2
<1>16. ASSUME Distinct(s), x \notin Elements(s) PROVE Distinct(r)
  <2> DEFINE at(i) == IF i <= p THEN i ELSE i - 1
  <2>1. ASSUME NEW i \in 1..(L + 1), i # p + 1
        PROVE  at(i) \in 1..L /\ r[i] = s[at(i)] /\ r[i] # x
    <3>1. CASE i <= p
      <4>1. i \in 1..p /\ i \in 1..L
        BY <1>0, <3>1
      <4> QED
        BY <1>10, <1>13, <1>16, <3>1, <4>1
    <3>2. CASE ~(i <= p)
      <4>1. i \in (p + 2)..(L + 1) /\ i - 1 \in 1..L
        BY <1>0, <2>1, <3>2
      <4> QED
        BY <1>11, <1>13, <1>16, <3>2, <4>1
    <3> QED
      BY <3>1, <3>2
  <2>2. ASSUME NEW i \in 1..(L + 1), NEW j \in 1..(L + 1), r[i] = r[j] PROVE i = j
    <3>1. CASE i = p + 1 \/ j = p + 1
      BY <1>10, <2>1, <2>2, <3>1
    <3>2. CASE i # p + 1 /\ j # p + 1
      <4>1. at(i) \in 1..L /\ at(j) \in 1..L /\ s[at(i)] = s[at(j)]
        BY <2>1, <2>2, <3>2
      <4>2. at(i) = at(j)
        BY <1>13, <1>16, <4>1 DEF Distinct
      <4> QED
        BY <1>0, <3>2, <4>2
    <3> QED
      BY <3>1, <3>2
  <2> QED
    BY <1>13, <2>2 DEF Distinct
<1> QED
  BY <1>7, <1>9, <1>10, <1>11, <1>14, <1>15, <1>16 DEF L, r

-----------------------------------------------------------------------------
(* The invariant of the flow                                               *)

(* have_goals counts both lists exactly.                                   *)
CountExact == \A s \in Servers : have[s] = Len(requests[s]) + Len(recalls[s])

(* tmp holds something only between a flush and the end of its handlers.   *)
HandlingOnlyWhenAsked == asked = Nobody \/ phase = "requests" => tmp = <<>>

(* A request is handed to the strand for a server; a task of the client    *)
(* tells what the client said last of its goal, and is alone.              *)
TaskIsCurrent(t) ==
  /\ t.op = "request" => t.to \in Servers
  /\ t.op = "post" => said[t.goal] = "posted"
  /\ t.op = "recall" => said[t.goal] = "recalled"

Alone(tasks) ==
  \A i, j \in DOMAIN tasks : tasks[i].op # "request" /\ tasks[j].op # "request" => i = j

TasksAreCurrent == Alone(strand) /\ \A t \in Elements(strand) : TaskIsCurrent(t)

(* A goal that has not been posted yet, or whose post has not run yet, is  *)
(* nowhere.                                                                *)
Fresh(g) == said[g] = "nothing" \/ \E t \in Elements(strand) : t.op = "post" /\ t.goal = g

(* g has left the queue and its handler has not been called.               *)
Busy(g) == g \in BeingHandled \/ \E s \in Servers : g \in Requested(s)

FreshNowhere == \A g \in Goals : Fresh(g) => g \notin Elements(pending) /\ ~Busy(g)

FlowInv ==
  /\ TypeOK
  /\ PendingSorted
  /\ OnePlace
  /\ CountExact
  /\ HandlingOnlyWhenAsked
  /\ TasksAreCurrent
  /\ FreshNowhere

-----------------------------------------------------------------------------
(* The pending queue                                                       *)

LEMMA PendingList ==
  ASSUME TypeOK
  PROVE  /\ DOMAIN pending = 1..Len(pending) /\ Len(pending) \in Nat
         /\ \A i \in 1..Len(pending) : pending[i] \in Goals
         /\ Elements(pending) = {pending[i] : i \in 1..Len(pending)}
         /\ Elements(pending) \subseteq Goals
<1>1. pending \in Seq(Goals)
  BY DEF TypeOK
<1> QED
  BY <1>1, LenProperties, ElementsOf

(* cmp_goals is a strict weak order.                                       *)
LEMMA BeforeOrder ==
  ASSUME TypeOK, NEW a \in Goals, NEW b \in Goals, NEW c \in Goals
  PROVE  /\ ~Before(a, a)
         /\ Before(a, b) => ~Before(b, a)
         /\ Before(a, b) /\ ~Before(c, b) => ~Before(c, a)
<1>1. \A g \in Goals : StartUb[g] \in Nat /\ lb[g] \in Int
  BY GoalFlowAssumption DEF TypeOK
<1> QED
  BY <1>1 DEF Before

LEMMA PositionOf ==
  ASSUME TypeOK, NEW g \in Goals
  PROVE  /\ Position(g) \in 0..Len(pending)
         /\ \A j \in 1..Position(g) : ~Before(g, pending[j])
         /\ Position(g) < Len(pending) => Before(g, pending[Position(g) + 1])
<1> DEFINE Fits(p) == /\ \A j \in 1..p : ~Before(g, pending[j])
                      /\ p < Len(pending) => Before(g, pending[p + 1])
           After == {j \in 1..Len(pending) : Before(g, pending[j])}
<1>0. Len(pending) \in Nat
  BY PendingList
<1>1. \E p \in 0..Len(pending) : Fits(p)
  <2>1. CASE After = {}
    <3>1. Fits(Len(pending)) /\ Len(pending) \in 0..Len(pending)
      BY <1>0, <2>1
    <3> QED
      BY <3>1
  <2>2. CASE After # {}
    <3>1. PICK m \in After : \A k \in After : m <= k
      <4>1. After \in SUBSET Nat
        BY <1>0
      <4> HIDE DEF After
      <4> QED
        BY <2>2, <4>1, Least
    <3>2. m \in 1..Len(pending) /\ Before(g, pending[m])
      BY <3>1
    <3>3. m - 1 \in 0..Len(pending) /\ (m - 1) + 1 = m
      BY <1>0, <3>2
    <3>4. ASSUME NEW j \in 1..(m - 1) PROVE ~Before(g, pending[j])
      <4>1. j \in 1..Len(pending) /\ ~(m <= j)
        BY <1>0, <3>2
      <4> QED
        BY <3>1, <4>1
    <3>5. Fits(m - 1)
      BY <3>2, <3>3, <3>4
    <3> QED
      BY <3>3, <3>5
  <2> QED
    BY <2>1, <2>2
<1>2. Position(g) = CHOOSE p \in 0..Len(pending) : Fits(p)
  BY DEF Position
<1> HIDE DEF Fits
<1>3. Position(g) \in 0..Len(pending) /\ Fits(Position(g))
  BY <1>1, <1>2
<1> QED
  BY <1>3 DEF Fits

(* In a sorted queue, what comes after the position of g is after g.       *)
LEMMA AfterPosition ==
  ASSUME TypeOK, PendingSorted, NEW g \in Goals,
         NEW j \in 1..Len(pending), Position(g) < j
  PROVE  ~Before(pending[j], g) /\ pending[j] # g
<1> DEFINE p == Position(g)
<1>1. p \in Nat /\ p < Len(pending) /\ Before(g, pending[p + 1])
  BY PositionOf, PendingList
<1> HIDE DEF p
<1>2. p + 1 \in 1..Len(pending) /\ (j = p + 1 \/ p + 1 < j)
  BY <1>1, PendingList DEF p
<1>3. pending[p + 1] \in Goals /\ pending[j] \in Goals
  BY <1>2, PendingList
<1>4. ~Before(pending[j], pending[p + 1])
  <2>1. CASE j = p + 1
    BY <1>3, <2>1, BeforeOrder
  <2>2. CASE p + 1 < j
    BY <1>2, <2>2, PendingList DEF PendingSorted
  <2> QED
    BY <1>2, <2>1, <2>2
<1>5. ~Before(pending[j], g)
  BY <1>1, <1>3, <1>4, BeforeOrder
<1> QED
  BY <1>1, <1>4, <1>5

(* A search that stops at the position of g misses no pending goal.        *)
LEMMA FoundWhenPending ==
  ASSUME TypeOK, PendingSorted, NEW g \in Goals
  PROVE  Found(g) <=> g \in Elements(pending)
<1>1. Position(g) \in 0..Len(pending) /\ Len(pending) \in Nat
  BY PositionOf, PendingList
<1>2. ASSUME Found(g) PROVE g \in Elements(pending)
  <2>1. PICK i \in 1..Position(g) : pending[i] = g
    BY <1>2 DEF Found
  <2>2. i \in 1..Len(pending)
    BY <1>1
  <2> QED
    BY <2>1, <2>2, PendingList
<1>3. ASSUME g \in Elements(pending) PROVE Found(g)
  <2>1. PICK j \in 1..Len(pending) : pending[j] = g
    BY <1>3, PendingList
  <2>2. ~(Position(g) < j)
    BY <2>1, AfterPosition
  <2>3. j \in 1..Position(g)
    BY <1>1, <2>2
  <2> QED
    BY <2>1, <2>3 DEF Found
<1> QED
  BY <1>2, <1>3

LEMMA PostQueue ==
  ASSUME TypeOK, PendingSorted, Distinct(pending), NEW g \in Goals,
         g \notin Elements(pending), Post(g), lb' = lb
  PROVE  /\ pending' \in Seq(Goals) /\ PendingSorted' /\ Distinct(pending')
         /\ Elements(pending') = Elements(pending) \cup {g}
         /\ UNCHANGED <<blocked, requests, recalls, have>>
<1> DEFINE p == Position(g)
           L == Len(pending)
<1>1. /\ p \in 0..L /\ L \in Nat /\ p \in Nat
      /\ pending \in Seq(Goals)
  BY PositionOf, PendingList DEF TypeOK
<1>2. pending' = Insertion(pending, g, p)
  BY FoundWhenPending DEF Post, Insertion
<1>3. /\ pending' \in Seq(Goals) /\ Len(pending') = L + 1
      /\ \A i \in 1..p : pending'[i] = pending[i]
      /\ pending'[p + 1] = g
      /\ \A i \in (p + 2)..(L + 1) : pending'[i] = pending[i - 1]
      /\ Elements(pending') = Elements(pending) \cup {g}
      /\ Distinct(pending')
  <2> DEFINE r == Insertion(pending, g, p)
  <2>1. p \in 0..Len(pending)
    BY <1>1
  <2> HIDE DEF p
  <2>2. /\ r \in Seq(Goals) /\ Len(r) = Len(pending) + 1
        /\ \A i \in 1..p : r[i] = pending[i]
        /\ r[p + 1] = g
        /\ \A i \in (p + 2)..(Len(pending) + 1) : r[i] = pending[i - 1]
        /\ Elements(r) = Elements(pending) \cup {g}
        /\ Distinct(pending) /\ g \notin Elements(pending) => Distinct(r)
    BY <1>1, <2>1, Inserting, Zenon
  <2> HIDE DEF r
  <2>3. pending' = r
    BY <1>2 DEF r
  <2> QED
    BY <2>2, <2>3
<1>4. DOMAIN pending' = 1..(L + 1)
  BY <1>3, LenProperties
<1>5. \A j \in 1..p : ~Before(g, pending[j])
  BY PositionOf
<1>6. \A j \in 1..L : p < j => ~Before(pending[j], g)
  BY AfterPosition
<1>7. \A i, j \in 1..L : i < j => ~Before(pending[j], pending[i])
  BY PendingList DEF PendingSorted
<1> HIDE DEF p, L
<1>8. ASSUME NEW i \in 1..(L + 1), NEW j \in 1..(L + 1), i < j
      PROVE  ~Before(pending'[j], pending'[i])
  <2>1. CASE i = p + 1
    <3>1. j \in (p + 2)..(L + 1) /\ j - 1 \in 1..L /\ p < j - 1
      BY <1>1, <1>8, <2>1
    <3> QED
      BY <1>3, <1>6, <2>1, <3>1
  <2>2. CASE j = p + 1
    <3>1. i \in 1..p
      BY <1>1, <1>8, <2>2
    <3> QED
      BY <1>3, <1>5, <2>2, <3>1
  <2>3. CASE i # p + 1 /\ j # p + 1
    <3>1. CASE j < p + 1
      <4>1. i \in 1..p /\ j \in 1..p /\ i \in 1..L /\ j \in 1..L
        BY <1>1, <1>8, <3>1
      <4> QED
        BY <1>3, <1>7, <1>8, <4>1
    <3>2. CASE p + 1 < i
      <4>1. i \in (p + 2)..(L + 1) /\ j \in (p + 2)..(L + 1)
            /\ i - 1 \in 1..L /\ j - 1 \in 1..L /\ i - 1 < j - 1
        BY <1>1, <1>8, <3>2
      <4> QED
        BY <1>3, <1>7, <4>1
    <3>3. CASE i < p + 1 /\ p + 1 < j
      <4>1. i \in 1..p /\ j \in (p + 2)..(L + 1) /\ i \in 1..L /\ j - 1 \in 1..L /\ i < j - 1
        BY <1>1, <1>8, <3>3
      <4> QED
        BY <1>3, <1>7, <4>1
    <3> QED
      BY <1>1, <1>8, <2>3, <3>1, <3>2, <3>3
  <2> QED
    BY <2>1, <2>2, <2>3
<1>9. PendingSorted'
  BY <1>4, <1>8 DEF PendingSorted, Before
<1> QED
  BY <1>3, <1>9 DEF Post, boxes

(* What is left of the queue by a walk is sorted if what was there is      *)
(* sorted, with the lower bounds it has after the walk.                    *)
LEMMA KeptSorted ==
  ASSUME TypeOK, NEW STATE S, pending' = Keep(pending, S),
         \A i, j \in 1..Len(pending) :
           i < j => /\ ~(StartUb[pending[j]] < StartUb[pending[i]])
                    /\ StartUb[pending[j]] = StartUb[pending[i]] =>
                         ~(lb'[pending[j]] < lb'[pending[i]])
  PROVE  PendingSorted'
<1>1. PICK h : pending' \in Seq(Goals) /\ Picks(pending', pending, h)
  BY Keeping DEF TypeOK
<1>2. DOMAIN pending' = 1..Len(pending')
  BY <1>1, LenProperties
<1>3. ASSUME NEW i \in 1..Len(pending'), NEW j \in 1..Len(pending'), i < j
      PROVE  /\ ~(StartUb[pending'[j]] < StartUb[pending'[i]])
             /\ StartUb[pending'[j]] = StartUb[pending'[i]] =>
                  ~(lb'[pending'[j]] < lb'[pending'[i]])
  <2>1. /\ h[i] \in 1..Len(pending) /\ pending'[i] = pending[h[i]]
        /\ h[j] \in 1..Len(pending) /\ pending'[j] = pending[h[j]]
        /\ h[i] < h[j]
    BY <1>1, <1>3 DEF Picks
  <2> QED
    BY <2>1
<1> QED
  BY <1>2, <1>3 DEF PendingSorted, Before

LEMMA RecallQueue ==
  ASSUME TypeOK, PendingSorted, Distinct(pending), NEW g \in Goals, Recall(g), lb' = lb
  PROVE  /\ pending' \in Seq(Goals) /\ PendingSorted' /\ Distinct(pending')
         /\ Elements(pending') = Elements(pending) \ {g}
         /\ blocked' \subseteq Goals
         /\ g \notin Elements(pending) /\ owner # Nobody => QueueRecall(g)
         /\ g \in Elements(pending) \/ owner = Nobody => UNCHANGED <<requests, recalls, have>>
<1>1. /\ Found(g) <=> g \in Elements(pending)
      /\ pending \in Seq(Goals) /\ blocked \subseteq Goals
  BY FoundWhenPending DEF TypeOK
<1>2. CASE Found(g)
  <2> DEFINE S == Goals \ {g}
  <2>1. pending' = Keep(pending, S) /\ blocked' = blocked \ {g} /\ UNCHANGED boxes
    BY <1>2 DEF Recall
  <2> HIDE DEF S
  <2>2. pending' \in Seq(Goals) /\ Elements(pending') = Elements(pending) \cap S
    BY <1>1, <2>1, Keeping
  <2>3. Distinct(pending')
    BY <1>1, <2>1, DistinctKept
  <2>4. \A i, j \in 1..Len(pending) :
          i < j => /\ ~(StartUb[pending[j]] < StartUb[pending[i]])
                   /\ StartUb[pending[j]] = StartUb[pending[i]] =>
                        ~(lb'[pending[j]] < lb'[pending[i]])
    BY PendingList DEF PendingSorted, Before
  <2>5. PendingSorted'
    BY <2>1, <2>4, KeptSorted
  <2>6. Elements(pending') = Elements(pending) \ {g}
    BY <2>2, PendingList DEF S
  <2> QED
    BY <1>1, <1>2, <2>1, <2>2, <2>3, <2>5, <2>6 DEF boxes
<1>3. CASE ~Found(g)
  <2>1. /\ UNCHANGED <<pending, blocked>>
        /\ IF owner # Nobody THEN QueueRecall(g) ELSE UNCHANGED boxes
    BY <1>3 DEF Recall
  <2>2. PendingSorted'
    BY <2>1 DEF PendingSorted, Before
  <2> QED
    BY <1>1, <1>3, <2>1, <2>2 DEF boxes
<1> QED
  BY <1>2, <1>3

LEMMA WindowAhead ==
  ASSUME TypeOK, NEW n \in Nat
  PROVE  WindowEnd(n) \in Nat /\ n <= WindowEnd(n) /\ (Accepts => owner \in Servers)
<1>1. Accepts => owner \in Servers
  BY DEF TypeOK, Accepts
<1>2. \A s \in Servers : ExecLatency[s] \in Nat /\ LookAhead[s] \in Nat
  BY GoalFlowAssumption
<1> QED
  BY <1>1, <1>2 DEF WindowEnd

(* The walk is a prefix of the queue: a goal it does not visit either      *)
(* comes before every visited one, or is not the last one it could have    *)
(* visited, because an earlier one starts too late.                        *)
LEMMA VisitedPrefix ==
  ASSUME TypeOK, PendingSorted, Distinct(pending), NEW n \in Nat,
         NEW i \in 1..Len(pending), NEW j \in 1..Len(pending), i < j,
         pending[i] \in Visited(n), pending[j] \notin Visited(n)
  PROVE  StartUb[pending[j]] = StartUb[pending[i]] => n <= lb[pending[j]]
<1>1. /\ DOMAIN pending = 1..Len(pending) /\ Len(pending) \in Nat
      /\ \A k \in 1..Len(pending) : pending[k] \in Goals
  BY PendingList
<1>2. PICK k \in 1..Len(pending) :
        pending[k] = pending[i] /\ \A l \in 1..k : lb[pending[l]] < WindowEnd(n)
  BY <1>1 DEF Visited
<1>3. k = i
  BY <1>1, <1>2 DEF Distinct
<1>4. PICK l \in 1..j : ~(lb[pending[l]] < WindowEnd(n))
  BY <1>1 DEF Visited
<1>5. l \in 1..Len(pending) /\ i < l /\ l <= j
  BY <1>1, <1>2, <1>3, <1>4
<1>6. \A g \in Goals : StartUb[g] \in Nat /\ lb[g] \in Int
  BY GoalFlowAssumption DEF TypeOK
<1>7. ~Before(pending[l], pending[i]) /\ (l = j \/ ~Before(pending[j], pending[l]))
  BY <1>1, <1>5 DEF PendingSorted
<1>8. n <= lb[pending[l]]
  <2>1. n <= WindowEnd(n) /\ WindowEnd(n) \in Nat
    BY WindowAhead
  <2>2. lb[pending[l]] \in Int
    BY <1>1, <1>5, <1>6
  <2> QED
    BY <1>4, <2>1, <2>2
<1> QED
  BY <1>1, <1>5, <1>6, <1>7, <1>8 DEF Before

LEMMA DispatchQueue ==
  ASSUME TypeOK, PendingSorted, Distinct(pending), NEW n \in Nat, NEW R, Dispatch(n, R)
  PROVE  /\ pending' \in Seq(Goals) /\ PendingSorted' /\ Distinct(pending')
         /\ Elements(pending') \subseteq Elements(pending) \ (Due(n) \ R)
         /\ blocked' \subseteq Goals
         /\ lb' \in [Goals -> Int]
         /\ sentTo' \in [Goals -> Servers \cup {Nobody}]
         /\ Sent(n, R) \in Seq(Goals)
         /\ Elements(Sent(n, R)) = Due(n) \ R
         /\ Due(n) \subseteq Elements(pending)
         /\ Due(n) # {} => owner \in Servers
<1> DEFINE seen == Visited(n)
           sent == Due(n) \ R
           gone == Gone(seen, sent, n)
           left == Goals \ gone
<1>1. /\ DOMAIN pending = 1..Len(pending) /\ Len(pending) \in Nat
      /\ \A k \in 1..Len(pending) : pending[k] \in Goals
      /\ Elements(pending) = {pending[i] : i \in 1..Len(pending)}
      /\ Elements(pending) \subseteq Goals
      /\ pending \in Seq(Goals)
  BY PendingList DEF TypeOK
<1>2. seen \subseteq Elements(pending) /\ Due(n) \subseteq seen
  BY <1>1 DEF Visited, Due
<1>3. Due(n) # {} => owner \in Servers
  BY WindowAhead DEF Due
<1>4. /\ R \subseteq Due(n)
      /\ pending' = Keep(pending, left)
      /\ blocked' = (blocked \cup R) \ gone
      /\ lb' = [g \in Goals |-> IF g \in seen /\ Future(g, n) /\ lb[g] < n THEN n ELSE lb[g]]
      /\ sentTo' = [g \in Goals |-> IF g \in sent THEN owner ELSE sentTo[g]]
  BY DEF Dispatch
<1>5. sent \subseteq gone
  BY DEF Gone
<1>6. Sent(n, R) = Keep(pending, sent)
  BY DEF Sent
<1> HIDE DEF seen, sent, gone, left
<1>7. /\ pending' \in Seq(Goals) /\ Elements(pending') = Elements(pending) \cap left
      /\ Distinct(pending')
  BY <1>1, <1>4, Keeping, DistinctKept
<1>8. Sent(n, R) \in Seq(Goals) /\ Elements(Sent(n, R)) = Elements(pending) \cap sent
  BY <1>1, <1>6, Keeping
<1>9. Elements(Sent(n, R)) = Due(n) \ R
  BY <1>2, <1>8 DEF sent
<1>10. Elements(pending') \subseteq Elements(pending) \ (Due(n) \ R)
  BY <1>5, <1>7 DEF left, sent
<1>11. blocked' \subseteq Goals
  BY <1>1, <1>2, <1>4 DEF TypeOK
<1>12. lb' \in [Goals -> Int]
  BY <1>4 DEF TypeOK
<1>13. sentTo' \in [Goals -> Servers \cup {Nobody}]
  BY <1>3, <1>4 DEF TypeOK, sent
<1>14. PendingSorted'
  <2>1. ASSUME NEW i \in 1..Len(pending), NEW j \in 1..Len(pending), i < j
        PROVE  /\ ~(StartUb[pending[j]] < StartUb[pending[i]])
               /\ StartUb[pending[j]] = StartUb[pending[i]] =>
                    ~(lb'[pending[j]] < lb'[pending[i]])
    <3> DEFINE a == pending[i]
               b == pending[j]
    <3>1. /\ a \in Goals /\ b \in Goals
          /\ \A g \in Goals : StartUb[g] \in Nat /\ lb[g] \in Int
      BY <1>1, GoalFlowAssumption DEF TypeOK
    <3>2. ~Before(b, a)
      BY <1>1, <2>1 DEF PendingSorted
    <3>3. a \in seen /\ b \notin seen /\ StartUb[b] = StartUb[a] => n <= lb[b]
      BY <2>1, VisitedPrefix DEF seen
    <3> HIDE DEF a, b
    <3>4. /\ lb'[a] = IF a \in seen /\ Future(a, n) /\ lb[a] < n THEN n ELSE lb[a]
          /\ lb'[b] = IF b \in seen /\ Future(b, n) /\ lb[b] < n THEN n ELSE lb[b]
      BY <1>4, <3>1
    <3>5. ~(StartUb[b] < StartUb[a])
          /\ (StartUb[b] = StartUb[a] => ~(lb'[b] < lb'[a]))
      BY <3>1, <3>2, <3>3, <3>4 DEF Before, Future
    <3> QED
      BY <3>5 DEF a, b
  <2> QED
    BY <1>4, <2>1, KeptSorted
<1> QED
  BY <1>2, <1>3, <1>7, <1>8, <1>9, <1>10, <1>11, <1>12, <1>13, <1>14

-----------------------------------------------------------------------------
(* The tasks of the strand                                                 *)

TaskSet == [op : Operations, goal : Goals, to : Servers \cup {Nobody}]

(* Goals of the requests for s among the tasks of T.                       *)
Carried(T, s) == {t.goal : t \in {u \in T : u.op = "request" /\ u.to = s}}

LEMMA RequestedSet ==
  ASSUME NEW s \in Servers
  PROVE  /\ Requested(s) = Carried(Elements(strand), s) \cup Elements(requests[s])
         /\ Requested(s)' = Carried(Elements(strand'), s) \cup Elements(requests'[s])
<1>1. Requested(s) = Carried(Elements(strand), s) \cup Elements(requests[s])
  BY DEF Requested, Elements, Carried
<1>2. Requested(s)' = Carried(Elements(strand'), s) \cup Elements(requests'[s])
  BY DEF Requested, Elements, Carried
<1> QED
  BY <1>1, <1>2

LEMMA RequestedGoals ==
  ASSUME TypeOK', NEW s \in Servers
  PROVE  (Requested(s) \subseteq Goals)'
<1>1. requests'[s] \in Seq(Goals) /\ strand' \in Seq(TaskSet)
  BY DEF TypeOK, TaskSet
<1>2. Elements(requests'[s]) \subseteq Goals
  BY ONLY <1>1, ElementsOf
<1>3. \A i \in DOMAIN strand' : strand'[i] \in TaskSet
  BY <1>1, LenProperties
<1>4. \A i \in DOMAIN strand' : strand'[i].goal \in Goals
  BY <1>3 DEF TaskSet
<1> QED
  BY <1>2, <1>4 DEF Requested

LEMMA TailAlone ==
  ASSUME NEW T, NEW q \in Seq(T), q # <<>>, Alone(q)
  PROVE  /\ Alone(Tail(q))
         /\ Head(q).op # "request" => \A t \in Elements(Tail(q)) : t.op = "request"
<1>1. /\ DOMAIN q = 1..Len(q) /\ Len(q) \in Nat /\ Len(q) > 0
      /\ DOMAIN Tail(q) = 1..(Len(q) - 1)
      /\ \A i \in 1..(Len(q) - 1) : Tail(q)[i] = q[i + 1]
      /\ Head(q) = q[1]
  <2>1. Tail(q) \in Seq(T) /\ Len(Tail(q)) = Len(q) - 1
    BY TailElements
  <2>2. DOMAIN Tail(q) = 1..Len(Tail(q))
    BY <2>1, LenProperties
  <2> QED
    BY <2>1, <2>2, TailElements, LenProperties
<1>2. \A i \in 1..(Len(q) - 1) : i + 1 \in 1..Len(q) /\ i + 1 # 1
  BY <1>1
<1>3. 1 \in 1..Len(q)
  BY <1>1
<1>4. ASSUME NEW i \in 1..(Len(q) - 1), NEW j \in 1..(Len(q) - 1),
             Tail(q)[i].op # "request", Tail(q)[j].op # "request"
      PROVE  i = j
  <2>1. i + 1 = j + 1
    BY <1>1, <1>2, <1>4 DEF Alone
  <2> QED
    BY <2>1
<1>5. ASSUME Head(q).op # "request", NEW i \in 1..(Len(q) - 1) PROVE Tail(q)[i].op = "request"
  BY <1>1, <1>2, <1>3, <1>5 DEF Alone
<1> QED
  BY <1>1, <1>4, <1>5 DEF Alone, Elements

LEMMA ConcatAlone ==
  ASSUME NEW T, NEW q \in Seq(T), NEW u \in Seq(T),
         Alone(q), \A t \in Elements(u) : t.op = "request"
  PROVE  Alone(q \o u)
<1> DEFINE r == q \o u
           L == Len(q)
           M == Len(u)
<1>1. /\ L \in Nat /\ M \in Nat /\ DOMAIN q = 1..L /\ DOMAIN u = 1..M
      /\ \A i \in 1..(L + M) : r[i] = IF i <= L THEN q[i] ELSE u[i - L]
  BY ConcatProperties, LenProperties
<1>2. DOMAIN r = 1..(L + M)
  <2>1. r \in Seq(T) /\ Len(r) = L + M
    BY ConcatProperties
  <2> HIDE DEF r, L, M
  <2>2. DOMAIN r = 1..Len(r)
    BY ONLY <2>1, LenProperties
  <2> QED
    BY <2>1, <2>2
<1> HIDE DEF r, L, M
<1>3. ASSUME NEW i \in 1..(L + M), r[i].op # "request"
      PROVE  i \in 1..L /\ r[i] = q[i]
  <2>1. CASE i <= L
    BY <1>1, <2>1
  <2>2. CASE ~(i <= L)
    <3>1. i - L \in 1..M /\ r[i] = u[i - L]
      BY <1>1, <2>2
    <3>2. u[i - L] \in Elements(u)
      BY <1>1, <3>1 DEF Elements
    <3> QED
      BY <1>3, <3>1, <3>2
  <2> QED
    BY <2>1, <2>2
<1>4. ASSUME NEW i \in 1..(L + M), NEW j \in 1..(L + M), r[i].op # "request", r[j].op # "request"
      PROVE  i = j
  <2>1. i \in DOMAIN q /\ j \in DOMAIN q /\ q[i].op # "request" /\ q[j].op # "request"
    BY <1>1, <1>3, <1>4
  <2> QED
    BY <2>1 DEF Alone
<1> QED
  BY <1>2, <1>4 DEF Alone, r

LEMMA AppendAlone ==
  ASSUME NEW T, NEW q \in Seq(T), NEW x \in T, \A t \in Elements(q) : t.op = "request"
  PROVE  Alone(Append(q, x))
<1> DEFINE r == Append(q, x)
<1>1. /\ r \in Seq(T) /\ Len(r) = Len(q) + 1
      /\ \A i \in 1..Len(q) : r[i] = q[i]
  BY AppendElements
<1> HIDE DEF r
<1>2. DOMAIN r = 1..(Len(q) + 1) /\ DOMAIN q = 1..Len(q) /\ Len(q) \in Nat
  BY <1>1, LenProperties
<1>3. ASSUME NEW i \in 1..(Len(q) + 1), r[i].op # "request" PROVE i = Len(q) + 1
  <2>1. CASE i \in 1..Len(q)
    BY <1>1, <1>2, <1>3, <2>1 DEF Elements
  <2> QED
    BY <1>2, <2>1
<1> QED
  BY <1>2, <1>3 DEF Alone, r

LEMMA EmptyStrand ==
  ASSUME strand = <<>>
  PROVE  Elements(strand) = {}
  BY DEF Elements

(* The tasks that carry the goals of a dispatch.                           *)
LEMMA RequestTasks ==
  ASSUME TypeOK, NEW sent \in Seq(Goals),
         NEW q, q = [i \in DOMAIN sent |-> Task("request", sent[i], owner)]
  PROVE  /\ q \in Seq(TaskSet)
         /\ \A t \in Elements(q) : t.op = "request" /\ t.to = owner /\ t.goal \in Elements(sent)
         /\ \A g \in Elements(sent) :
              \E t \in Elements(q) : t.op = "request" /\ t.to = owner /\ t.goal = g
<1>1. DOMAIN sent = 1..Len(sent) /\ Len(sent) \in Nat /\ \A i \in 1..Len(sent) : sent[i] \in Goals
  BY LenProperties
<1>2. \A i \in 1..Len(sent) : Task("request", sent[i], owner) \in TaskSet
  BY <1>1 DEF Task, TaskSet, TypeOK, Operations
<1>3. q \in [1..Len(sent) -> TaskSet]
  BY <1>1, <1>2
<1>4. q \in Seq(TaskSet)
  BY <1>1, <1>3
<1>5. DOMAIN q = 1..Len(sent)
  BY <1>3
<1>6. \A i \in 1..Len(sent) : q[i].op = "request" /\ q[i].to = owner /\ q[i].goal = sent[i]
  BY <1>1 DEF Task
<1>7. \A t \in Elements(q) : t.op = "request" /\ t.to = owner /\ t.goal \in Elements(sent)
  BY <1>1, <1>5, <1>6 DEF Elements
<1>8. \A g \in Elements(sent) :
        \E t \in Elements(q) : t.op = "request" /\ t.to = owner /\ t.goal = g
  <2> TAKE g \in Elements(sent)
  <2>1. PICK i \in 1..Len(sent) : sent[i] = g
    BY <1>1 DEF Elements
  <2>2. q[i] \in Elements(q)
    BY <1>5 DEF Elements
  <2> QED
    BY <1>6, <2>1, <2>2
<1> QED
  BY <1>4, <1>7, <1>8

-----------------------------------------------------------------------------
(* Places of the goals                                                     *)

LEMMA OnePlaceBusy ==
  ASSUME TypeOK, OnePlace, NEW g \in Elements(pending)
  PROVE  ~Busy(g)
<1>1. \A s \in Servers : g \notin Requested(s) /\ g \notin BeingHandled
  BY DEF OnePlace
<1>2. g \in BeingHandled => asked \in Servers
  BY DEF BeingHandled, TypeOK
<1> QED
  BY <1>1, <1>2 DEF Busy

(* A step puts only fresh goals, those of A, into the queue, and sends     *)
(* only pending goals, those of D, to the owner.                           *)
Moves(A, D) ==
  /\ Distinct(pending')
  /\ Elements(pending') \subseteq Goals
  /\ Elements(pending') \subseteq (Elements(pending) \cup A) \ D
  /\ D \subseteq Elements(pending)
  /\ \A g \in A : Fresh(g)
  /\ \A g \in Goals : g \in BeingHandled' => Busy(g)
  /\ \A s \in Servers : Requested(s)' \subseteq Requested(s) \cup (IF s = owner THEN D ELSE {})
  /\ \A g \in Goals : Fresh(g)' => Fresh(g) /\ g \notin A

(* Such a step leaves every goal in one place.                             *)
LEMMA OnePlaceKept ==
  ASSUME FlowInv, TypeOK', NEW STATE A, NEW STATE D, Moves(A, D)
  PROVE  OnePlace' /\ FreshNowhere'
<1>0. /\ Distinct(pending')
      /\ Elements(pending') \subseteq Goals
      /\ Elements(pending') \subseteq (Elements(pending) \cup A) \ D
      /\ D \subseteq Elements(pending)
      /\ \A g \in A : Fresh(g)
      /\ \A g \in Goals : g \in BeingHandled' => Busy(g)
      /\ \A s \in Servers :
           Requested(s)' \subseteq Requested(s) \cup (IF s = owner THEN D ELSE {})
      /\ \A g \in Goals : Fresh(g)' => Fresh(g) /\ g \notin A
  BY DEF Moves
<1>1. TypeOK /\ OnePlace /\ FreshNowhere
  BY DEF FlowInv
<1>2. \A g \in Elements(pending) : ~Busy(g) /\ g \in Goals
  BY <1>1, OnePlaceBusy, PendingList
<1>3. \A g \in Goals : Busy(g)' => Busy(g) \/ g \in D
  BY <1>0 DEF Busy
<1>4. \A i, j \in DOMAIN pending' : pending'[i] = pending'[j] => i = j
  BY <1>0 DEF Distinct
<1>5. ASSUME NEW g \in Elements(pending') PROVE ~Busy(g)'
  BY <1>0, <1>1, <1>2, <1>3, <1>5 DEF FreshNowhere
<1>6. \A s \in Servers : ((Requested(s) \cup BeingHandled) \cap Elements(pending) = {})'
  BY <1>5 DEF Busy
<1>7. ASSUME NEW s \in Servers, NEW q \in Servers, s # q
      PROVE  (Requested(s) \cap Requested(q) = {})'
  <2> SUFFICES ASSUME NEW g \in Goals, (g \in Requested(s))', (g \in Requested(q))' PROVE FALSE
    BY RequestedGoals
  <2>1. g \in D => ~(g \in Requested(s)) /\ ~(g \in Requested(q))
    BY <1>0, <1>2 DEF Busy
  <2>2. ~(g \in Requested(s) /\ g \in Requested(q))
    BY <1>1, <1>7 DEF OnePlace
  <2> QED
    BY <1>0, <1>7, <2>1, <2>2
<1>8. OnePlace'
  BY <1>4, <1>6, <1>7 DEF OnePlace
<1>9. FreshNowhere'
  <2> SUFFICES ASSUME NEW g \in Goals, Fresh(g)'
               PROVE  g \notin Elements(pending') /\ ~Busy(g)'
    BY DEF FreshNowhere
  <2>1. Fresh(g) /\ g \notin A /\ g \notin Elements(pending) /\ ~Busy(g)
    BY <1>0, <1>1 DEF FreshNowhere
  <2> QED
    BY <1>0, <1>3, <2>1
<1> QED
  BY <1>8, <1>9

-----------------------------------------------------------------------------
(* Steps of the flow                                                       *)

LEMMA FlowInvInit == Init => FlowInv
<1> SUFFICES ASSUME Init PROVE FlowInv
  OBVIOUS
<1>1. TypeOK
  <2>1. stopped \in BOOLEAN /\ grants \in BOOLEAN
    BY Zenon DEF Init
  <2>2. /\ pending \in Seq(Goals) /\ tmp \in Seq(Goals)
        /\ strand \in Seq([op : Operations, goal : Goals, to : Servers \cup {Nobody}])
        /\ <<>> \in Seq(Goals)
    BY EmptySeq DEF Init
  <2>3. /\ requests \in [Servers -> Seq(Goals)] /\ recalls \in [Servers -> Seq(Goals)]
        /\ have \in [Servers -> Nat] /\ view \in [Servers -> [Goals -> {"nothing", "requested", "recalled"}]]
    BY <2>2 DEF Init
  <2> QED
    BY <2>1, <2>2, <2>3, GoalFlowAssumption DEF Init, TypeOK, Phases
<1>2. /\ Elements(pending) = {} /\ Elements(strand) = {} /\ DOMAIN pending = {} /\ DOMAIN strand = {}
      /\ \A s \in Servers : Elements(requests[s]) = {}
  BY DEF Init, Elements
<1>3. \A s \in Servers : Requested(s) = {}
  BY <1>2 DEF Requested
<1>4. BeingHandled = {}
  BY DEF Init, BeingHandled
<1>5. PendingSorted /\ OnePlace
  BY <1>2, <1>3, <1>4 DEF PendingSorted, OnePlace
<1>6. CountExact
  BY EmptySeq DEF Init, CountExact
<1>7. HandlingOnlyWhenAsked /\ TasksAreCurrent /\ FreshNowhere
  BY <1>2, <1>3, <1>4 DEF Init, HandlingOnlyWhenAsked, TasksAreCurrent, Alone, FreshNowhere, Busy
<1> QED
  BY <1>1, <1>5, <1>6, <1>7 DEF FlowInv

(* A step that touches neither the queue nor the lists nor the strand.     *)
LEMMA FlowFrame ==
  ASSUME FlowInv, TypeOK', UNCHANGED <<pending, lb, strand, boxes, said>>,
         HandlingOnlyWhenAsked', BeingHandled' \subseteq BeingHandled
  PROVE  FlowInv'
<1>1. TypeOK /\ OnePlace
  BY DEF FlowInv
<1>2. PendingSorted' /\ CountExact'
  BY DEF FlowInv, PendingSorted, Before, CountExact, boxes
<1>3. TasksAreCurrent'
  BY DEF FlowInv, TasksAreCurrent, TaskIsCurrent
<1>4. \A s \in Servers : Requested(s)' = Requested(s)
  BY DEF Requested, boxes
<1>5. \A g \in Goals : Fresh(g)' => Fresh(g)
  BY DEF Fresh
<1>7. OnePlace'
  BY <1>1, <1>4 DEF OnePlace
<1>8. FreshNowhere'
  BY <1>4, <1>5 DEF FlowInv, FreshNowhere, Busy
<1> QED
  BY <1>2, <1>3, <1>7, <1>8 DEF FlowInv

LEMMA ProvideKeeps ==
  ASSUME FlowInv, NEW s \in Servers, NEW f \in BOOLEAN, Provide(s, f)
  PROVE  FlowInv'
<1>1. TypeOK
  BY DEF FlowInv
<1>2. /\ owner' = s /\ grants' = f /\ blocked' \subseteq Goals
      /\ UNCHANGED <<now, stopped, pending, lb, strand, boxes, asking, histories>>
  BY <1>1 DEF Provide, TypeOK
<1>3. TypeOK'
  BY <1>1, <1>2 DEF TypeOK, boxes, asking, histories
<1>4. HandlingOnlyWhenAsked' /\ BeingHandled' \subseteq BeingHandled
  BY <1>2 DEF FlowInv, HandlingOnlyWhenAsked, BeingHandled, asking
<1> QED
  BY <1>2, <1>3, <1>4, FlowFrame DEF histories

LEMMA UnprovideKeeps ==
  ASSUME FlowInv, NEW s \in Servers, Unprovide(s)
  PROVE  FlowInv'
<1>1. TypeOK
  BY DEF FlowInv
<1>2. /\ owner' = Nobody /\ grants' = FALSE /\ sentTo' = [g \in Goals |-> Nobody]
      /\ UNCHANGED <<now, stopped, pending, blocked, lb, strand, boxes, asking, said, view, dropped>>
  BY DEF Unprovide, queueVars
<1>3. TypeOK'
  <2>1. grants' \in BOOLEAN
    BY <1>2, Zenon
  <2> QED
    BY <1>1, <1>2, <2>1 DEF TypeOK, boxes, asking
<1>4. HandlingOnlyWhenAsked' /\ BeingHandled' \subseteq BeingHandled
  BY <1>2 DEF FlowInv, HandlingOnlyWhenAsked, BeingHandled, asking
<1> QED
  BY <1>2, <1>3, <1>4, FlowFrame

LEMMA AskKeeps ==
  ASSUME FlowInv, NEW s \in Servers, Ask(s)
  PROVE  FlowInv'
<1>1. TypeOK /\ tmp = <<>>
  BY DEF FlowInv, HandlingOnlyWhenAsked, Ask
<1>2. /\ asked' = s /\ phase' = "requests"
      /\ UNCHANGED <<now, stopped, owner, grants, pending, blocked, lb, strand, boxes, toAsk, tmp, histories>>
  BY DEF Ask, queueVars, timelineVars
<1>3. TypeOK'
  BY <1>1, <1>2 DEF TypeOK, boxes, histories, Phases
<1>4. HandlingOnlyWhenAsked' /\ BeingHandled' \subseteq BeingHandled
  BY <1>1, <1>2 DEF HandlingOnlyWhenAsked, BeingHandled
<1> QED
  BY <1>2, <1>3, <1>4, FlowFrame DEF histories

LEMMA HandleKeeps ==
  ASSUME FlowInv, Handle
  PROVE  FlowInv'
<1>1. TypeOK /\ tmp \in Seq(Goals) /\ tmp # <<>> /\ asked \in Servers /\ phase # "requests"
  BY DEF FlowInv, TypeOK, HandlingOnlyWhenAsked, Handle
<1>2. /\ view' = [view EXCEPT ![asked][Head(tmp)] =
                    IF phase = "recalls" THEN "requested" ELSE "recalled"]
      /\ tmp' = Tail(tmp)
      /\ UNCHANGED <<now, stopped, owner, grants, pending, blocked, lb, strand, boxes, toAsk,
                     asked, phase, said, sentTo, dropped>>
  BY DEF Handle, queueVars, timelineVars
<1>3. /\ Tail(tmp) \in Seq(Goals) /\ Head(tmp) \in Goals
      /\ Elements(Tail(tmp)) \subseteq Elements(tmp)
  BY <1>1, TailElements
<1>4. TypeOK'
  <2>1. view' \in [Servers -> [Goals -> {"nothing", "requested", "recalled"}]]
    BY <1>1, <1>2, <1>3 DEF TypeOK
  <2> QED
    BY <1>1, <1>2, <1>3, <2>1 DEF TypeOK, boxes
<1>5. HandlingOnlyWhenAsked' /\ BeingHandled' \subseteq BeingHandled
  BY <1>1, <1>2, <1>3, GoalFlowAssumption DEF HandlingOnlyWhenAsked, BeingHandled
<1> QED
  BY <1>2, <1>4, <1>5, FlowFrame

LEMMA HandlerThrowsKeeps ==
  ASSUME FlowInv, HandlerThrows
  PROVE  FlowInv'
<1>1. TypeOK /\ tmp \in Seq(Goals)
  BY DEF FlowInv, TypeOK
<1>2. /\ dropped' = dropped \cup Elements(tmp) /\ tmp' = <<>> /\ asked' = Nobody
      /\ stopped' = (asked \in toAsk)
      /\ UNCHANGED <<now, owner, grants, pending, blocked, lb, strand, boxes, toAsk, phase,
                     said, view, sentTo>>
  BY DEF HandlerThrows, queueVars, timelineVars
<1>3. TypeOK'
  <2>1. stopped' \in BOOLEAN
    <3>1. (asked \in toAsk) \in BOOLEAN
      BY SMT
    <3>2. stopped' = (asked \in toAsk)
      BY Zenon DEF HandlerThrows
    <3> QED
      BY ONLY <3>1, <3>2
  <2>2. Elements(tmp) \subseteq Goals /\ <<>> \in Seq(Goals)
    BY <1>1, ElementsOf, EmptySeq
  <2> QED
    BY <1>1, <1>2, <2>1, <2>2 DEF TypeOK, boxes
<1>4. HandlingOnlyWhenAsked' /\ BeingHandled' \subseteq BeingHandled
  BY <1>2 DEF HandlingOnlyWhenAsked, BeingHandled
<1> QED
  BY <1>2, <1>3, <1>4, FlowFrame

LEMMA AnswerKeeps ==
  ASSUME FlowInv, Answer
  PROVE  FlowInv'
<1>1. TypeOK
  BY DEF FlowInv
<1>2. /\ tmp = <<>> /\ asked' = Nobody /\ toAsk' = toAsk \ {asked}
      /\ UNCHANGED <<now, stopped, owner, grants, pending, blocked, lb, strand, boxes, phase, tmp,
                     histories>>
  BY DEF Answer, queueVars, timelineVars
<1>3. TypeOK'
  BY <1>1, <1>2 DEF TypeOK, boxes, histories
<1>4. HandlingOnlyWhenAsked' /\ BeingHandled' \subseteq BeingHandled
  BY <1>2 DEF HandlingOnlyWhenAsked, BeingHandled
<1> QED
  BY <1>2, <1>3, <1>4, FlowFrame DEF histories

LEMMA StutterKeeps ==
  ASSUME FlowInv, UNCHANGED vars
  PROVE  FlowInv'
<1>1. TypeOK
  BY DEF FlowInv
<1>2. TypeOK'
  BY <1>1 DEF vars, timelineVars, queueVars, boxes, asking, histories, TypeOK
<1>3. HandlingOnlyWhenAsked' /\ BeingHandled' \subseteq BeingHandled
  BY DEF FlowInv, HandlingOnlyWhenAsked, BeingHandled, vars, asking
<1> QED
  BY <1>2, <1>3, FlowFrame DEF vars, queueVars, histories

(* A fresh goal enters the queue.                                          *)
LEMMA PostKeeps ==
  ASSUME FlowInv, TypeOK', NEW g \in Goals, Fresh(g), Post(g),
         UNCHANGED <<lb, asked, phase, tmp>>, TasksAreCurrent',
         \A s \in Servers : Requested(s)' \subseteq Requested(s),
         \A h \in Goals : Fresh(h)' => Fresh(h) /\ h # g
  PROVE  FlowInv'
<1>1. /\ TypeOK /\ PendingSorted /\ OnePlace /\ Distinct(pending)
      /\ g \notin Elements(pending)
  BY DEF FlowInv, OnePlace, Distinct, FreshNowhere
<1>2. /\ pending' \in Seq(Goals) /\ PendingSorted' /\ Distinct(pending')
      /\ Elements(pending') = Elements(pending) \cup {g}
      /\ UNCHANGED <<blocked, requests, recalls, have>>
  BY <1>1, PostQueue
<1>3. CountExact' /\ HandlingOnlyWhenAsked'
  BY <1>2 DEF FlowInv, CountExact, HandlingOnlyWhenAsked
<1>4. \A h \in Goals : h \in BeingHandled' => Busy(h)
  BY DEF BeingHandled, Busy
<1>5. OnePlace' /\ FreshNowhere'
  <2>1. Moves({g}, {})
    <3>1. Elements(pending) \subseteq Goals
      BY <1>1, PendingList
    <3>2. Elements(pending') \subseteq Goals
      BY <1>2, <3>1
    <3> QED
      BY <1>2, <1>4, <3>2 DEF Moves
  <2> QED
    BY <2>1, OnePlaceKept
<1> QED
  BY <1>2, <1>3, <1>5 DEF FlowInv

LEMMA PostGoalKeeps ==
  ASSUME FlowInv, NEW g \in Goals, PostGoal(g)
  PROVE  FlowInv'
<1>1. TypeOK /\ PendingSorted /\ Distinct(pending)
  BY DEF FlowInv, OnePlace, Distinct
<1>2. /\ strand = <<>> /\ said[g] = "nothing" /\ Fresh(g)
      /\ said' = [said EXCEPT ![g] = "posted"] /\ Post(g)
      /\ UNCHANGED <<now, stopped, owner, grants, lb, strand, asking, view, sentTo, dropped>>
  BY DEF PostGoal, Fresh, timelineVars
<1>3. g \notin Elements(pending)
  BY <1>2 DEF FlowInv, FreshNowhere
<1>4. pending' \in Seq(Goals) /\ UNCHANGED <<blocked, requests, recalls, have>>
  BY <1>1, <1>2, <1>3, PostQueue
<1>5. TypeOK'
  BY <1>1, <1>2, <1>4 DEF TypeOK, asking
<1>6. Elements(strand) = {} /\ Elements(strand') = {} /\ DOMAIN strand' = {}
  BY <1>2 DEF Elements
<1>7. TasksAreCurrent'
  BY <1>6 DEF TasksAreCurrent, Alone
<1>8. \A s \in Servers : Requested(s)' \subseteq Requested(s)
  BY <1>2, <1>4 DEF Requested
<1>9. \A h \in Goals : Fresh(h)' => Fresh(h) /\ h # g
  BY <1>1, <1>2, <1>6 DEF Fresh, TypeOK
<1> QED
  BY <1>2, <1>5, <1>7, <1>8, <1>9, PostKeeps DEF asking

(* The strand runs its first task.                                         *)
LEMMA FirstTask ==
  ASSUME FlowInv, strand # <<>>, strand' = Tail(strand)
  PROVE  /\ strand \in Seq(TaskSet) /\ Tail(strand) \in Seq(TaskSet)
         /\ Head(strand) \in TaskSet /\ Head(strand) \in Elements(strand)
         /\ Elements(strand') \subseteq Elements(strand)
         /\ Elements(strand) = Elements(strand') \cup {Head(strand)}
         /\ Alone(strand')
         /\ Head(strand).op # "request" => \A t \in Elements(strand') : t.op = "request"
         /\ TaskIsCurrent(Head(strand))
<1>1. strand \in Seq(TaskSet)
  BY DEF FlowInv, TypeOK, TaskSet
<1>2. /\ Tail(strand) \in Seq(TaskSet) /\ Head(strand) \in TaskSet
      /\ Elements(strand) = Elements(Tail(strand)) \cup {Head(strand)}
  BY <1>1, TailElements
<1>3. /\ Alone(Tail(strand))
      /\ Head(strand).op # "request" => \A t \in Elements(Tail(strand)) : t.op = "request"
  BY <1>1, TailAlone DEF FlowInv, TasksAreCurrent
<1>4. Head(strand) \in Elements(strand)
  BY <1>2
<1> QED
  BY <1>1, <1>2, <1>3, <1>4 DEF FlowInv, TasksAreCurrent

LEMMA RunPostKeeps ==
  ASSUME FlowInv, RunPost
  PROVE  FlowInv'
<1> DEFINE g == Head(strand).goal
<1>1. TypeOK /\ PendingSorted /\ Distinct(pending)
  BY DEF FlowInv, OnePlace, Distinct
<1>2. /\ strand # <<>> /\ Head(strand).op = "post" /\ Post(g) /\ strand' = Tail(strand)
      /\ UNCHANGED <<now, stopped, owner, grants, lb, asking, said, view, sentTo, dropped>>
  BY DEF RunPost, timelineVars, histories
<1>3. /\ Head(strand) \in TaskSet /\ Head(strand) \in Elements(strand)
      /\ Tail(strand) \in Seq(TaskSet) /\ Elements(strand') \subseteq Elements(strand)
      /\ Alone(strand') /\ \A t \in Elements(strand') : t.op = "request"
      /\ TaskIsCurrent(Head(strand))
  BY <1>2, FirstTask
<1>4. g \in Goals /\ Fresh(g) /\ said[g] = "posted"
  BY <1>2, <1>3 DEF TaskSet, Fresh, TaskIsCurrent
<1>5. g \notin Elements(pending)
  BY <1>4 DEF FlowInv, FreshNowhere
<1> HIDE DEF g
<1>6. pending' \in Seq(Goals) /\ UNCHANGED <<blocked, requests, recalls, have>>
  BY <1>1, <1>2, <1>4, <1>5, PostQueue
<1>7. TypeOK'
  BY <1>1, <1>2, <1>3, <1>6 DEF TypeOK, asking, TaskSet
<1>8. TasksAreCurrent'
  BY <1>2, <1>3 DEF FlowInv, TasksAreCurrent, TaskIsCurrent
<1>9. \A s \in Servers : Requested(s)' \subseteq Requested(s)
  BY <1>3, <1>6, RequestedSet DEF Carried
<1>10. \A h \in Goals : Fresh(h)' => Fresh(h) /\ h # g
  BY <1>2, <1>3, <1>4 DEF Fresh
<1> QED
  BY <1>2, <1>4, <1>7, <1>8, <1>9, <1>10, PostKeeps DEF asking

(* A goal leaves the queue, or its recall joins those of the owner.        *)
LEMMA RecallKeeps ==
  ASSUME FlowInv, TypeOK', NEW g \in Goals, Recall(g),
         UNCHANGED <<lb, asked, phase, tmp>>, TasksAreCurrent',
         \A s \in Servers : Requested(s)' \subseteq Requested(s),
         \A h \in Goals : Fresh(h)' => Fresh(h)
  PROVE  FlowInv'
<1>1. /\ TypeOK /\ PendingSorted /\ OnePlace /\ Distinct(pending) /\ CountExact
  BY DEF FlowInv, OnePlace, Distinct
<1>2. /\ pending' \in Seq(Goals) /\ PendingSorted' /\ Distinct(pending')
      /\ Elements(pending') = Elements(pending) \ {g}
      /\ g \notin Elements(pending) /\ owner # Nobody => QueueRecall(g)
      /\ g \in Elements(pending) \/ owner = Nobody => UNCHANGED <<requests, recalls, have>>
  BY <1>1, RecallQueue
<1>3. CountExact'
  <2>1. CASE UNCHANGED <<requests, recalls, have>>
    BY <1>1, <2>1 DEF CountExact
  <2>2. CASE QueueRecall(g) /\ owner \in Servers
    <3>1. /\ recalls' = [recalls EXCEPT ![owner] = Append(@, g)]
          /\ have' = [have EXCEPT ![owner] = @ + 1] /\ requests' = requests
      BY <2>2 DEF QueueRecall
    <3>2. /\ recalls \in [Servers -> Seq(Goals)] /\ have \in [Servers -> Nat]
          /\ requests \in [Servers -> Seq(Goals)]
      BY <1>1 DEF TypeOK
    <3>3. \A s \in Servers : Len(recalls[s]) \in Nat /\ Len(requests[s]) \in Nat
      BY <3>2, LenProperties
    <3>4. Len(Append(recalls[owner], g)) = Len(recalls[owner]) + 1
      BY <2>2, <3>2, AppendProperties
    <3>5. ASSUME NEW s \in Servers PROVE have'[s] = Len(requests'[s]) + Len(recalls'[s])
      <4>1. CASE s = owner
        BY <1>1, <3>1, <3>2, <3>3, <3>4, <4>1 DEF CountExact
      <4>2. CASE s # owner
        BY <1>1, <3>1, <3>2, <4>2 DEF CountExact
      <4> QED
        BY <4>1, <4>2
    <3> QED
      BY <3>5 DEF CountExact
  <2> QED
    BY <1>1, <1>2, <2>1, <2>2 DEF TypeOK
<1>4. HandlingOnlyWhenAsked'
  BY DEF FlowInv, HandlingOnlyWhenAsked
<1>5. \A h \in Goals : h \in BeingHandled' => Busy(h)
  BY DEF BeingHandled, Busy
<1>6. OnePlace' /\ FreshNowhere'
  <2>1. Moves({}, {})
    <3>1. Elements(pending) \subseteq Goals
      BY <1>1, PendingList
    <3>2. Elements(pending') \subseteq Goals
      BY <1>2, <3>1
    <3> QED
      BY <1>2, <1>5, <3>2 DEF Moves
  <2> QED
    BY <2>1, OnePlaceKept
<1> QED
  BY <1>2, <1>3, <1>4, <1>6 DEF FlowInv

(* What a recall does to the lists is well typed.                          *)
LEMMA RecallType ==
  ASSUME TypeOK, PendingSorted, Distinct(pending), NEW g \in Goals, Recall(g), lb' = lb
  PROVE  /\ pending' \in Seq(Goals) /\ blocked' \subseteq Goals /\ requests' = requests
         /\ recalls' \in [Servers -> Seq(Goals)] /\ have' \in [Servers -> Nat]
<1>1. /\ pending' \in Seq(Goals) /\ blocked' \subseteq Goals
      /\ (owner \in Servers /\ QueueRecall(g)) \/ UNCHANGED <<requests, recalls, have>>
  <2>1. owner \in Servers \cup {Nobody}
    BY DEF TypeOK
  <2> QED
    BY <2>1, RecallQueue
<1>2. CASE UNCHANGED <<requests, recalls, have>>
  BY <1>1, <1>2 DEF TypeOK
<1>3. CASE owner \in Servers /\ QueueRecall(g)
  <2>1. recalls[owner] \in Seq(Goals) /\ have[owner] \in Nat
    BY <1>3 DEF TypeOK
  <2>2. Append(recalls[owner], g) \in Seq(Goals)
    BY <2>1, AppendProperties
  <2> QED
    BY <1>1, <1>3, <2>1, <2>2 DEF QueueRecall, TypeOK
<1> QED
  BY <1>1, <1>2, <1>3

LEMMA PostRecallKeeps ==
  ASSUME FlowInv, NEW g \in Goals, PostRecall(g)
  PROVE  FlowInv'
<1>1. TypeOK /\ PendingSorted /\ Distinct(pending)
  BY DEF FlowInv, OnePlace, Distinct
<1>2. /\ strand = <<>> /\ said[g] = "posted"
      /\ said' = [said EXCEPT ![g] = "recalled"] /\ Recall(g)
      /\ UNCHANGED <<now, stopped, owner, grants, lb, strand, asking, view, sentTo, dropped>>
  BY DEF PostRecall, timelineVars
<1>3. /\ pending' \in Seq(Goals) /\ blocked' \subseteq Goals /\ requests' = requests
      /\ recalls' \in [Servers -> Seq(Goals)] /\ have' \in [Servers -> Nat]
  BY <1>1, <1>2, RecallType
<1>4. TypeOK'
  BY <1>1, <1>2, <1>3 DEF TypeOK, asking
<1>5. Elements(strand) = {} /\ Elements(strand') = {} /\ DOMAIN strand' = {}
  BY <1>2 DEF Elements
<1>6. TasksAreCurrent'
  BY <1>5 DEF TasksAreCurrent, Alone
<1>7. \A s \in Servers : Requested(s)' \subseteq Requested(s)
  BY <1>2, <1>3 DEF Requested
<1>8. \A h \in Goals : Fresh(h)' => Fresh(h)
  BY <1>1, <1>2, <1>5 DEF Fresh, TypeOK
<1> QED
  BY <1>2, <1>4, <1>6, <1>7, <1>8, RecallKeeps DEF asking

LEMMA RunRecallKeeps ==
  ASSUME FlowInv, RunRecall
  PROVE  FlowInv'
<1> DEFINE g == Head(strand).goal
<1>1. TypeOK /\ PendingSorted /\ Distinct(pending)
  BY DEF FlowInv, OnePlace, Distinct
<1>2. /\ strand # <<>> /\ Head(strand).op = "recall" /\ Recall(g) /\ strand' = Tail(strand)
      /\ UNCHANGED <<now, stopped, owner, grants, lb, asking, said, view, sentTo, dropped>>
  BY DEF RunRecall, timelineVars, histories
<1>3. /\ Head(strand) \in TaskSet
      /\ Tail(strand) \in Seq(TaskSet) /\ Elements(strand') \subseteq Elements(strand)
      /\ Alone(strand') /\ \A t \in Elements(strand') : t.op = "request"
  BY <1>2, FirstTask
<1>4. g \in Goals
  BY <1>3 DEF TaskSet
<1> HIDE DEF g
<1>5. /\ pending' \in Seq(Goals) /\ blocked' \subseteq Goals /\ requests' = requests
      /\ recalls' \in [Servers -> Seq(Goals)] /\ have' \in [Servers -> Nat]
  BY <1>1, <1>2, <1>4, RecallType
<1>6. TypeOK'
  BY <1>1, <1>2, <1>3, <1>5 DEF TypeOK, asking, TaskSet
<1>7. TasksAreCurrent'
  BY <1>2, <1>3 DEF FlowInv, TasksAreCurrent, TaskIsCurrent
<1>8. \A s \in Servers : Requested(s)' \subseteq Requested(s)
  BY <1>3, <1>5, RequestedSet DEF Carried
<1>9. \A h \in Goals : Fresh(h)' => Fresh(h)
  BY <1>2, <1>3 DEF Fresh
<1> QED
  BY <1>2, <1>4, <1>6, <1>7, <1>8, <1>9, RecallKeeps DEF asking

(* The queue is left alone, and no goal goes back.                         *)
LEMMA QueueUntouched ==
  ASSUME FlowInv, TypeOK', UNCHANGED <<pending, lb>>,
         CountExact', HandlingOnlyWhenAsked', TasksAreCurrent',
         \A s \in Servers : Requested(s)' \subseteq Requested(s),
         \A h \in Goals : h \in BeingHandled' => Busy(h),
         \A h \in Goals : Fresh(h)' => Fresh(h)
  PROVE  FlowInv'
<1>1. TypeOK /\ PendingSorted /\ Distinct(pending)
  BY DEF FlowInv, OnePlace, Distinct
<1>2. PendingSorted'
  BY <1>1 DEF PendingSorted, Before
<1>3. Moves({}, {})
  <2>1. Elements(pending') \subseteq Goals /\ pending' = pending
    BY <1>1, PendingList
  <2> QED
    BY <1>1, <2>1 DEF Moves
<1>4. OnePlace' /\ FreshNowhere'
  BY <1>3, OnePlaceKept
<1> QED
  BY <1>2, <1>4 DEF FlowInv

(* The other thread hands the task x about g to the strand, which had none *)
(* of its own.                                                             *)
LEMMA CallKeeps ==
  ASSUME FlowInv, NEW g \in Goals, NEW op \in {"post", "recall"},
         NEW word \in {"posted", "recalled"},
         op = "post" => word = "posted" /\ said[g] = "nothing",
         op = "recall" => word = "recalled",
         ~Calling, said' = [said EXCEPT ![g] = word],
         strand' = Append(strand, Task(op, g, Nobody)),
         UNCHANGED <<now, stopped, timelineVars, queueVars, boxes, asking, view, sentTo, dropped>>
  PROVE  FlowInv'
<1> DEFINE x == Task(op, g, Nobody)
<1>1. TypeOK /\ strand \in Seq(TaskSet)
  BY DEF FlowInv, TypeOK, TaskSet
<1>2. x \in TaskSet /\ x.op = op /\ x.goal = g
  BY DEF Task, TaskSet, Operations
<1>3. \A t \in Elements(strand) : t \in TaskSet /\ t.op = "request" /\ t.to \in Servers
  <2> SUFFICES ASSUME NEW t \in Elements(strand)
               PROVE  t \in TaskSet /\ t.op = "request" /\ t.to \in Servers
    OBVIOUS
  <2>1. t \in TaskSet
    BY <1>1, ElementsOf
  <2>2. t.op = "request"
    BY <2>1 DEF Calling, Elements, TaskSet, Operations
  <2> QED
    BY <2>1, <2>2 DEF FlowInv, TasksAreCurrent, TaskIsCurrent
<1> HIDE DEF x
<1>4. /\ strand' \in Seq(TaskSet) /\ Elements(strand') = Elements(strand) \cup {x}
      /\ Alone(strand')
  BY <1>1, <1>2, <1>3, AppendElements, AppendAlone DEF x
<1>5. TypeOK'
  BY <1>1, <1>4 DEF TypeOK, timelineVars, queueVars, boxes, asking, TaskSet
<1>6. said'[g] = word
  BY <1>1 DEF TypeOK
<1>7. TasksAreCurrent'
  <2>1. ASSUME NEW t \in Elements(strand') PROVE TaskIsCurrent(t)'
    BY <1>2, <1>3, <1>4, <1>6 DEF TaskIsCurrent
  <2> QED
    BY <1>4, <2>1 DEF TasksAreCurrent
<1>8. \A s \in Servers : Requested(s)' \subseteq Requested(s)
  BY <1>2, <1>4, RequestedSet DEF Carried, boxes
<1>9. ASSUME NEW h \in Goals, Fresh(h)' PROVE Fresh(h)
  <2>1. CASE h = g
    BY <1>2, <1>3, <1>4, <1>6, <1>9, <2>1 DEF Fresh
  <2>2. CASE h # g
    BY <1>1, <1>2, <1>4, <1>9, <2>2 DEF Fresh, TypeOK
  <2> QED
    BY <2>1, <2>2
<1>10. CountExact' /\ HandlingOnlyWhenAsked'
  BY DEF FlowInv, CountExact, HandlingOnlyWhenAsked, boxes, asking
<1>11. \A h \in Goals : h \in BeingHandled' => Busy(h)
  BY DEF BeingHandled, Busy, asking
<1> QED
  BY <1>5, <1>7, <1>8, <1>9, <1>10, <1>11, QueueUntouched DEF queueVars

LEMMA RunRequestKeeps ==
  ASSUME FlowInv, RunRequest
  PROVE  FlowInv'
<1> DEFINE t == Head(strand)
           g == t.goal
           q == t.to
<1>1. TypeOK /\ CountExact
  BY DEF FlowInv
<1>2. /\ strand # <<>> /\ t.op = "request" /\ strand' = Tail(strand)
      /\ requests' = [requests EXCEPT ![q] = Append(@, g)]
      /\ have' = [have EXCEPT ![q] = @ + 1]
      /\ UNCHANGED <<now, stopped, timelineVars, queueVars, recalls, asking, histories>>
  BY DEF RunRequest
<1>3. /\ t \in TaskSet /\ t \in Elements(strand)
      /\ Tail(strand) \in Seq(TaskSet)
      /\ Elements(strand) = Elements(strand') \cup {t}
      /\ Alone(strand') /\ TaskIsCurrent(t)
  BY <1>2, FirstTask
<1>4. g \in Goals /\ q \in Servers
  BY <1>2, <1>3 DEF TaskSet, TaskIsCurrent
<1>5. /\ requests \in [Servers -> Seq(Goals)] /\ recalls \in [Servers -> Seq(Goals)]
      /\ have \in [Servers -> Nat] /\ requests[q] \in Seq(Goals)
  BY <1>1, <1>4 DEF TypeOK
<1>6. /\ Append(requests[q], g) \in Seq(Goals)
      /\ Len(Append(requests[q], g)) = Len(requests[q]) + 1
      /\ Elements(Append(requests[q], g)) = Elements(requests[q]) \cup {g}
  BY <1>4, <1>5, AppendElements
<1>7. Carried(Elements(strand), q) = Carried(Elements(strand'), q) \cup {g}
      /\ \A s \in Servers : s # q => Carried(Elements(strand), s) = Carried(Elements(strand'), s)
  BY <1>2, <1>3 DEF Carried
<1> HIDE DEF t, g, q
<1>8. /\ requests' \in [Servers -> Seq(Goals)] /\ have' \in [Servers -> Nat]
      /\ requests'[q] = Append(requests[q], g)
      /\ \A s \in Servers : s # q => requests'[s] = requests[s]
  BY <1>2, <1>4, <1>5, <1>6
<1>9. TypeOK'
  BY <1>1, <1>2, <1>3, <1>8 DEF TypeOK, timelineVars, queueVars, asking, histories, TaskSet
<1>10. CountExact'
  <2> SUFFICES ASSUME NEW s \in Servers PROVE have'[s] = Len(requests'[s]) + Len(recalls'[s])
    BY DEF CountExact
  <2>1. Len(requests[s]) \in Nat /\ Len(recalls[s]) \in Nat
    BY <1>5, LenProperties
  <2>2. CASE s = q
    <3> DEFINE a == Len(requests[q])
               b == Len(recalls[q])
    <3>1. have'[q] = have[q] + 1
      BY <1>2, <1>4, <1>5
    <3>2. have[q] = a + b
      BY <1>1, <1>4 DEF CountExact
    <3>3. Len(requests'[q]) = Len(requests[q]) + 1
      BY <1>6, <1>8
    <3>4. a \in Nat /\ b \in Nat
      BY <2>1, <2>2
    <3> HIDE DEF a, b
    <3>5. have'[q] = (a + 1) + b
      BY <3>1, <3>2, <3>4
    <3> USE DEF a, b
    <3>6. Len(recalls'[q]) = Len(recalls[q])
      BY <1>2
    <3>7. have'[q] = Len(requests'[q]) + Len(recalls'[q])
      BY <3>3, <3>5, <3>6
    <3> QED
      BY <2>2, <3>7
  <2>3. CASE s # q
    BY <1>1, <1>2, <1>5, <1>8, <2>3 DEF CountExact
  <2> QED
    BY <2>2, <2>3
<1>11. HandlingOnlyWhenAsked' /\ \A h \in Goals : h \in BeingHandled' => Busy(h)
  BY <1>2 DEF FlowInv, HandlingOnlyWhenAsked, BeingHandled, Busy, asking
<1>12. TasksAreCurrent'
  BY <1>2, <1>3 DEF FlowInv, TasksAreCurrent, TaskIsCurrent, histories
<1>13. \A s \in Servers : Requested(s)' = Requested(s)
  <2> SUFFICES ASSUME NEW s \in Servers PROVE Requested(s)' = Requested(s)
    OBVIOUS
  <2>1. CASE s = q
    BY <1>6, <1>7, <1>8, <2>1, RequestedSet
  <2>2. CASE s # q
    BY <1>7, <1>8, <2>2, RequestedSet
  <2> QED
    BY <2>1, <2>2
<1>14. \A h \in Goals : Fresh(h)' => Fresh(h)
  BY <1>2, <1>3 DEF Fresh, histories
<1> QED
  BY <1>2, <1>9, <1>10, <1>11, <1>12, <1>13, <1>14, QueueUntouched DEF queueVars

(* The list of s is emptied into tmp and its length taken off have.        *)
LEMMA FlushCounts ==
  ASSUME TypeOK, CountExact, NEW s \in Servers, NEW list \in Seq(Goals), NEW rest \in Seq(Goals),
         Len(list) + Len(rest) = have[s]
  PROVE  /\ [have EXCEPT ![s] = @ - Len(list)] \in [Servers -> Nat]
         /\ [have EXCEPT ![s] = @ - Len(list)][s] = Len(<<>>) + Len(rest)
<1>1. Len(list) \in Nat /\ Len(rest) \in Nat /\ have \in [Servers -> Nat] /\ Len(<<>>) = 0
  BY LenProperties, EmptySeq DEF TypeOK
<1> QED
  BY <1>1

LEMMA FlushRequestsKeeps ==
  ASSUME FlowInv, FlushRequests
  PROVE  FlowInv'
<1>1. /\ TypeOK /\ CountExact /\ asked \in Servers /\ phase = "requests" /\ tmp = <<>>
  BY DEF FlowInv, FlushRequests, TypeOK, HandlingOnlyWhenAsked
<1>2. /\ phase' = "recalls" /\ asked' = asked /\ asked # Nobody
      /\ UNCHANGED <<now, stopped, timelineVars, queueVars, strand, recalls, toAsk, asked, histories>>
  BY DEF FlushRequests
<1>3. /\ requests \in [Servers -> Seq(Goals)] /\ recalls \in [Servers -> Seq(Goals)]
      /\ have \in [Servers -> Nat] /\ <<>> \in Seq(Goals)
      /\ requests[asked] \in Seq(Goals) /\ recalls[asked] \in Seq(Goals)
      /\ have[asked] = Len(requests[asked]) + Len(recalls[asked])
      /\ Elements(<<>>) = {}
  BY <1>1, EmptySeq DEF TypeOK, CountExact, Elements
<1>4. /\ requests' \in [Servers -> Seq(Goals)] /\ have' \in [Servers -> Nat] /\ tmp' \in Seq(Goals)
      /\ \A s \in Servers : Elements(requests'[s]) \subseteq Elements(requests[s])
      /\ Elements(tmp') \subseteq Elements(requests[asked])
      /\ CountExact'
  <2>1. CASE UNCHANGED <<tmp, requests, have>>
    BY <1>1, <1>2, <1>3, <2>1 DEF CountExact, TypeOK
  <2>2. CASE /\ tmp' = requests[asked]
             /\ requests' = [requests EXCEPT ![asked] = <<>>]
             /\ have' = [have EXCEPT ![asked] = @ - Len(requests[asked])]
    <3>1. /\ have' \in [Servers -> Nat]
          /\ have'[asked] = Len(<<>>) + Len(recalls[asked])
      BY <1>1, <1>3, <2>2, FlushCounts
    <3>2. /\ requests' \in [Servers -> Seq(Goals)]
          /\ requests'[asked] = <<>>
          /\ \A s \in Servers : s # asked => requests'[s] = requests[s] /\ have'[s] = have[s]
      BY <1>1, <1>3, <2>2
    <3>3. CountExact'
      BY <1>1, <1>2, <3>1, <3>2 DEF CountExact
    <3> QED
      BY <1>3, <2>2, <3>1, <3>2, <3>3
  <2> QED
    BY <2>1, <2>2 DEF FlushRequests
<1>5. TypeOK'
  BY <1>1, <1>2, <1>4 DEF TypeOK, timelineVars, queueVars, histories, Phases
<1>6. HandlingOnlyWhenAsked'
  BY <1>2 DEF HandlingOnlyWhenAsked
<1>7. TasksAreCurrent'
  BY <1>2 DEF FlowInv, TasksAreCurrent, TaskIsCurrent, histories
<1>8. \A s \in Servers : Requested(s)' \subseteq Requested(s)
  BY <1>2, <1>4, RequestedSet
<1>9. \A h \in Goals : h \in BeingHandled' => Busy(h)
  <2>1. BeingHandled' \subseteq Elements(requests[asked])
    BY <1>2, <1>4 DEF BeingHandled
  <2>2. Elements(requests[asked]) \subseteq Requested(asked)
    BY <1>1, RequestedSet
  <2> QED
    BY <1>1, <2>1, <2>2 DEF Busy
<1>10. \A h \in Goals : Fresh(h)' => Fresh(h)
  BY <1>2 DEF Fresh, histories
<1> QED
  BY <1>2, <1>4, <1>5, <1>6, <1>7, <1>8, <1>9, <1>10, QueueUntouched DEF queueVars

LEMMA FlushRecallsKeeps ==
  ASSUME FlowInv, FlushRecalls
  PROVE  FlowInv'
<1>1. /\ TypeOK /\ CountExact /\ asked \in Servers /\ tmp = <<>>
  BY DEF FlowInv, FlushRecalls, TypeOK
<1>2. /\ phase' = "end" /\ asked' = asked /\ asked # Nobody
      /\ UNCHANGED <<now, stopped, timelineVars, queueVars, strand, requests, toAsk, asked, histories>>
  BY DEF FlushRecalls
<1>3. /\ requests \in [Servers -> Seq(Goals)] /\ recalls \in [Servers -> Seq(Goals)]
      /\ have \in [Servers -> Nat] /\ <<>> \in Seq(Goals)
      /\ requests[asked] \in Seq(Goals) /\ recalls[asked] \in Seq(Goals)
      /\ Len(requests[asked]) \in Nat /\ Len(recalls[asked]) \in Nat
      /\ have[asked] = Len(recalls[asked]) + Len(requests[asked])
  BY <1>1, EmptySeq, LenProperties DEF TypeOK, CountExact
<1>4. /\ recalls' \in [Servers -> Seq(Goals)] /\ have' \in [Servers -> Nat] /\ tmp' \in Seq(Goals)
      /\ CountExact'
  <2>1. CASE UNCHANGED <<tmp, recalls, have>>
    BY <1>1, <1>2, <1>3, <2>1 DEF CountExact, TypeOK
  <2>2. CASE /\ tmp' = recalls[asked]
             /\ recalls' = [recalls EXCEPT ![asked] = <<>>]
             /\ have' = [have EXCEPT ![asked] = @ - Len(recalls[asked])]
    <3>1. /\ have' \in [Servers -> Nat]
          /\ have'[asked] = Len(<<>>) + Len(requests[asked])
      BY <1>1, <1>3, <2>2, FlushCounts
    <3>2. /\ recalls' \in [Servers -> Seq(Goals)]
          /\ recalls'[asked] = <<>> /\ Len(<<>>) = 0
          /\ \A s \in Servers : s # asked => recalls'[s] = recalls[s] /\ have'[s] = have[s]
      BY <1>1, <1>3, <2>2, EmptySeq
    <3>3. CountExact'
      <4>1. have'[asked] = Len(requests'[asked]) + Len(recalls'[asked])
        BY <1>2, <1>3, <3>1, <3>2
      <4>2. \A s \in Servers : s # asked => have'[s] = Len(requests'[s]) + Len(recalls'[s])
        BY <1>1, <1>2, <3>2 DEF CountExact
      <4> QED
        BY <4>1, <4>2 DEF CountExact
    <3> QED
      BY <1>3, <2>2, <3>1, <3>2, <3>3
  <2> QED
    BY <2>1, <2>2 DEF FlushRecalls
<1>5. TypeOK'
  BY <1>1, <1>2, <1>4 DEF TypeOK, timelineVars, queueVars, histories, Phases
<1>6. HandlingOnlyWhenAsked'
  BY <1>2 DEF HandlingOnlyWhenAsked
<1>7. TasksAreCurrent'
  BY <1>2 DEF FlowInv, TasksAreCurrent, TaskIsCurrent, histories
<1>8. \A s \in Servers : Requested(s)' \subseteq Requested(s)
  BY <1>2, RequestedSet
<1>9. \A h \in Goals : h \in BeingHandled' => Busy(h)
  BY <1>2 DEF BeingHandled
<1>10. \A h \in Goals : Fresh(h)' => Fresh(h)
  BY <1>2 DEF Fresh, histories
<1> QED
  BY <1>2, <1>4, <1>5, <1>6, <1>7, <1>8, <1>9, <1>10, QueueUntouched DEF queueVars

(* A dispatch at the tick n, whichever way its goals are sent.             *)
LEMMA DispatchKeeps ==
  ASSUME FlowInv, TypeOK', NEW n \in Nat, NEW R, Dispatch(n, R), asked = Nobody,
         CountExact', TasksAreCurrent',
         \A s \in Servers :
           Requested(s)' \subseteq Requested(s) \cup (IF s = owner THEN Due(n) \ R ELSE {}),
         \A h \in Goals : Fresh(h)' => Fresh(h)
  PROVE  FlowInv'
<1>1. /\ TypeOK /\ PendingSorted /\ Distinct(pending)
  BY DEF FlowInv, OnePlace, Distinct
<1>2. /\ PendingSorted' /\ Distinct(pending')
      /\ Elements(pending') \subseteq Elements(pending) \ (Due(n) \ R)
      /\ Due(n) \subseteq Elements(pending)
  BY <1>1, DispatchQueue
<1>3. UNCHANGED <<asked, phase, tmp>>
  BY DEF Dispatch
<1>4. HandlingOnlyWhenAsked' /\ BeingHandled' = {}
  BY <1>3 DEF FlowInv, HandlingOnlyWhenAsked, BeingHandled
<1> DEFINE D == Due(n) \ R
<1>5. /\ D \subseteq Elements(pending)
      /\ Elements(pending') \subseteq Goals
      /\ Elements(pending') \subseteq (Elements(pending) \cup {}) \ D
      /\ \A s \in Servers : Requested(s)' \subseteq Requested(s) \cup (IF s = owner THEN D ELSE {})
  BY <1>1, <1>2, PendingList
<1> HIDE DEF D
<1>6. Moves({}, D)
  BY <1>2, <1>4, <1>5 DEF Moves
<1>7. OnePlace' /\ FreshNowhere'
  BY <1>6, OnePlaceKept
<1> QED
  BY <1>2, <1>4, <1>7 DEF FlowInv

LEMMA NewTickKeeps ==
  ASSUME FlowInv, NEW R, NewTick(R)
  PROVE  FlowInv'
<1>1. /\ TypeOK /\ PendingSorted /\ Distinct(pending) /\ CountExact
      /\ requests \in [Servers -> Seq(Goals)] /\ recalls \in [Servers -> Seq(Goals)]
      /\ have \in [Servers -> Nat]
  BY DEF FlowInv, OnePlace, Distinct, TypeOK
<1>2. now' \in 0..MaxTick
  BY <1>1, GoalFlowAssumption DEF NewTick, TypeOK
<1>3. PICK n \in Nat : n = now'
  BY <1>2, GoalFlowAssumption
<1> DEFINE sent == Sent(n, R)
<1>4. /\ asked = Nobody /\ strand = <<>>
      /\ Dispatch(n, R) /\ AtOnce(sent) /\ toAsk' = Servers /\ stopped' = stopped
  BY <1>3 DEF NewTick
<1>5. /\ pending' \in Seq(Goals) /\ blocked' \subseteq Goals
      /\ lb' \in [Goals -> Int]
      /\ sentTo' \in [Goals -> Servers \cup {Nobody}]
      /\ sent \in Seq(Goals)
      /\ Elements(sent) = Due(n) \ R
      /\ Due(n) # {} => owner \in Servers
  BY <1>1, <1>4, DispatchQueue
<1> HIDE DEF sent
<1>6. /\ UNCHANGED <<timelineVars, recalls, asked, phase, tmp, said, view, dropped>>
      /\ strand' = strand
  BY <1>4 DEF Dispatch, AtOnce
<1>7. /\ requests' \in [Servers -> Seq(Goals)] /\ have' \in [Servers -> Nat] /\ CountExact'
      /\ \A s \in Servers :
           Elements(requests'[s]) \subseteq
             Elements(requests[s]) \cup (IF s = owner THEN Due(n) \ R ELSE {})
  <2>1. CASE sent = <<>>
    <3>1. UNCHANGED <<requests, have, recalls>>
      BY <1>4, <1>6, <2>1 DEF AtOnce
    <3> QED
      BY <1>1, <3>1 DEF CountExact
  <2>2. CASE sent # <<>>
    <3>1. owner \in Servers
      BY <1>5, <2>2, ElementsOf
    <3>2. /\ requests' = [requests EXCEPT ![owner] = @ \o sent]
          /\ have' = [have EXCEPT ![owner] = @ + Len(sent)]
      BY <1>4, <2>2 DEF AtOnce
    <3>3. requests[owner] \in Seq(Goals)
      BY <1>1, <3>1
    <3>4. /\ requests[owner] \o sent \in Seq(Goals)
          /\ Len(requests[owner] \o sent) = Len(requests[owner]) + Len(sent)
          /\ Elements(requests[owner] \o sent) = Elements(requests[owner]) \cup Elements(sent)
      BY <1>5, <3>3, ConcatElements
    <3>5. /\ Len(sent) \in Nat
          /\ \A s \in Servers : Len(requests[s]) \in Nat /\ Len(recalls[s]) \in Nat
      BY <1>1, <1>5, LenProperties
    <3>6. /\ requests' \in [Servers -> Seq(Goals)] /\ have' \in [Servers -> Nat]
          /\ requests'[owner] = requests[owner] \o sent
          /\ have'[owner] = have[owner] + Len(sent)
          /\ \A s \in Servers : s # owner => requests'[s] = requests[s] /\ have'[s] = have[s]
      BY <1>1, <3>1, <3>2, <3>4, <3>5
    <3>7. CountExact'
      <4>1. have'[owner] = Len(requests'[owner]) + Len(recalls'[owner])
        BY <1>1, <1>6, <3>1, <3>4, <3>5, <3>6 DEF CountExact
      <4>2. \A s \in Servers : s # owner => have'[s] = Len(requests'[s]) + Len(recalls'[s])
        BY <1>1, <1>6, <3>6 DEF CountExact
      <4> QED
        BY <4>1, <4>2 DEF CountExact
    <3>8. \A s \in Servers :
            Elements(requests'[s]) \subseteq
              Elements(requests[s]) \cup (IF s = owner THEN Due(n) \ R ELSE {})
      BY <1>5, <3>4, <3>6
    <3> QED
      BY <3>6, <3>7, <3>8
  <2> QED
    BY <2>1, <2>2
<1>8. TypeOK'
  BY <1>1, <1>2, <1>4, <1>5, <1>6, <1>7 DEF TypeOK, timelineVars
<1>9. TasksAreCurrent'
  BY <1>6 DEF FlowInv, TasksAreCurrent, TaskIsCurrent
<1>10. \A s \in Servers :
         Requested(s)' \subseteq Requested(s) \cup (IF s = owner THEN Due(n) \ R ELSE {})
  BY <1>6, <1>7, RequestedSet
<1>11. \A h \in Goals : Fresh(h)' => Fresh(h)
  BY <1>6 DEF Fresh
<1> QED
  BY <1>4, <1>7, <1>8, <1>9, <1>10, <1>11, DispatchKeeps

LEMMA DispatchAheadKeeps ==
  ASSUME FlowInv, NEW R, DispatchAhead(R)
  PROVE  FlowInv'
<1>1. /\ TypeOK /\ PendingSorted /\ Distinct(pending) /\ CountExact
      /\ strand \in Seq(TaskSet) /\ TasksAreCurrent
  BY DEF FlowInv, OnePlace, Distinct, TypeOK, TaskSet
<1>2. PICK n \in Nat : n = now + 1
  BY <1>1, GoalFlowAssumption DEF TypeOK
<1> DEFINE sent == Sent(n, R)
           tasks == [i \in DOMAIN sent |-> Task("request", sent[i], owner)]
<1>3. /\ asked = Nobody /\ Dispatch(n, R) /\ ByTasks(sent) /\ UNCHANGED <<now, stopped, toAsk>>
  BY <1>2 DEF DispatchAhead
<1>4. /\ pending' \in Seq(Goals) /\ blocked' \subseteq Goals
      /\ lb' \in [Goals -> Int]
      /\ sentTo' \in [Goals -> Servers \cup {Nobody}]
      /\ sent \in Seq(Goals)
      /\ Elements(sent) = Due(n) \ R
      /\ Due(n) # {} => owner \in Servers
  BY <1>1, <1>3, DispatchQueue
<1> HIDE DEF sent
<1>5. /\ UNCHANGED <<timelineVars, recalls, asked, phase, tmp, said, view, dropped, requests, have>>
      /\ strand' = strand \o tasks
  BY <1>3 DEF Dispatch, ByTasks
<1>6. /\ tasks \in Seq(TaskSet)
      /\ \A t \in Elements(tasks) : t.op = "request" /\ t.to = owner /\ t.goal \in Elements(sent)
  BY <1>1, <1>4, RequestTasks
<1> HIDE DEF tasks
<1>7. /\ strand' \in Seq(TaskSet) /\ Elements(strand') = Elements(strand) \cup Elements(tasks)
      /\ Alone(strand')
  BY <1>1, <1>5, <1>6, ConcatElements, ConcatAlone DEF TasksAreCurrent
<1>8. TypeOK'
  BY <1>1, <1>3, <1>4, <1>5, <1>7 DEF TypeOK, timelineVars, TaskSet
<1>9. CountExact'
  BY <1>1, <1>5 DEF CountExact
<1>10. TasksAreCurrent'
  <2>1. ASSUME NEW t \in Elements(strand') PROVE TaskIsCurrent(t)'
    <3>1. CASE t \in Elements(strand)
      BY <1>1, <1>5, <3>1 DEF TasksAreCurrent, TaskIsCurrent
    <3>2. CASE t \in Elements(tasks)
      BY <1>4, <1>6, <3>2 DEF TaskIsCurrent
    <3> QED
      BY <1>7, <3>1, <3>2
  <2> QED
    BY <1>7, <2>1 DEF TasksAreCurrent
<1>11. \A s \in Servers :
         Requested(s)' \subseteq Requested(s) \cup (IF s = owner THEN Due(n) \ R ELSE {})
  <2> TAKE s \in Servers
  <2>1. Carried(Elements(strand'), s) =
          Carried(Elements(strand), s) \cup Carried(Elements(tasks), s)
    BY <1>7 DEF Carried
  <2>2. Carried(Elements(tasks), s) \subseteq (IF s = owner THEN Due(n) \ R ELSE {})
    BY <1>4, <1>6 DEF Carried
  <2>3. requests' = requests
    BY <1>5
  <2> QED
    BY <2>1, <2>2, <2>3, RequestedSet
<1>12. \A h \in Goals : Fresh(h)' => Fresh(h)
  BY <1>5, <1>6, <1>7 DEF Fresh
<1> QED
  BY <1>3, <1>8, <1>9, <1>10, <1>11, <1>12, DispatchKeeps

LEMMA FlowInvStep == FlowInv /\ [Next]_vars => FlowInv'
<1> SUFFICES ASSUME FlowInv, [Next]_vars PROVE FlowInv'
  OBVIOUS
<1>1. ASSUME NEW s \in Servers, NEW f \in BOOLEAN, Provide(s, f) PROVE FlowInv'
  BY <1>1, ProvideKeeps
<1>2. ASSUME NEW s \in Servers, Unprovide(s) PROVE FlowInv'
  BY <1>2, UnprovideKeeps
<1>3. ASSUME NEW g \in Goals, PostGoal(g) PROVE FlowInv'
  BY <1>3, PostGoalKeeps
<1>4. ASSUME NEW g \in Goals, PostRecall(g) PROVE FlowInv'
  BY <1>4, PostRecallKeeps
<1>5. ASSUME NEW g \in Goals, CallPostGoal(g) PROVE FlowInv'
  <2>1. /\ ~Calling /\ said[g] = "nothing" /\ said' = [said EXCEPT ![g] = "posted"]
        /\ strand' = Append(strand, Task("post", g, Nobody))
        /\ UNCHANGED <<now, stopped, timelineVars, queueVars, boxes, asking, view, sentTo, dropped>>
    BY <1>5 DEF CallPostGoal
  <2>2. "post" \in {"post", "recall"} /\ "posted" \in {"posted", "recalled"} /\ "post" # "recall"
    OBVIOUS
  <2> QED
    BY <2>1, <2>2, CallKeeps
<1>6. ASSUME NEW g \in Goals, CallPostRecall(g) PROVE FlowInv'
  <2>1. /\ ~Calling /\ said' = [said EXCEPT ![g] = "recalled"]
        /\ strand' = Append(strand, Task("recall", g, Nobody))
        /\ UNCHANGED <<now, stopped, timelineVars, queueVars, boxes, asking, view, sentTo, dropped>>
    BY <1>6 DEF CallPostRecall
  <2>2. "recall" \in {"post", "recall"} /\ "recalled" \in {"posted", "recalled"} /\ "post" # "recall"
    OBVIOUS
  <2> QED
    BY <2>1, <2>2, CallKeeps
<1>7. ASSUME NEW R \in SUBSET Goals, DispatchAhead(R) PROVE FlowInv'
  BY <1>7, DispatchAheadKeeps
<1>8. ASSUME NEW R \in SUBSET Goals, NewTick(R) PROVE FlowInv'
  BY <1>8, NewTickKeeps
<1>9. CASE StrandStep
  BY <1>9, RunRequestKeeps, RunPostKeeps, RunRecallKeeps DEF StrandStep
<1>10. ASSUME NEW s \in Servers, Ask(s) PROVE FlowInv'
  BY <1>10, AskKeeps
<1>11. CASE WorkRatioStep
  BY <1>11, FlushRequestsKeeps, FlushRecallsKeeps, HandleKeeps, HandlerThrowsKeeps, AnswerKeeps
     DEF WorkRatioStep
<1>12. CASE UNCHANGED vars
  BY <1>12, StutterKeeps
<1> QED
  BY <1>1, <1>2, <1>3, <1>4, <1>5, <1>6, <1>7, <1>8, <1>9, <1>10, <1>11, <1>12
     DEF Next, AgentStep, Tick

LEMMA FlowInvariant == Spec => []FlowInv
<1> USE FlowInvInit, FlowInvStep
<1> QED
  BY PTL DEF Spec

-----------------------------------------------------------------------------
(* The invariant of the last word, when no other thread posts goals        *)

(* The goals of the tasks in the strand, all of them requests then.        *)
OnlyRequests == \A t \in Elements(strand) : t.op = "request"
Travelling == {t.goal : t \in Elements(strand)}

(* g has been sent to s, in a task or already in its list.                 *)
OnItsWay(g, s) == g \in Carried(Elements(strand), s) \/ g \in Elements(requests[s])

(* s is, or is about to be, in the handler of g that phase tells.          *)
Handling(g, s, p) == asked = s /\ phase = p /\ g \in Elements(tmp)

(* A goal that was sent has left the queue, and went to the owner.         *)
SentIsOut(g) ==
  /\ sentTo[g] \in {Nobody, owner}
  /\ sentTo[g] # Nobody => g \notin Elements(pending) /\ said[g] # "nothing"

(* A recalled goal is not pending, and no request of it is behind its      *)
(* recall: neither in the strand nor in the list of the server that        *)
(* handles its recalls or is about to.                                     *)
RecallComesLast(g) ==
  /\ said[g] = "recalled" => g \notin Elements(pending)
  /\ \A s \in Servers : g \in Elements(recalls[s]) =>
       /\ said[g] = "recalled" /\ g \notin Travelling
       /\ asked = s /\ phase = "recalls" => g \notin Elements(requests[s])
  /\ \A s \in Servers : Handling(g, s, "end") =>
       said[g] = "recalled" /\ g \notin Travelling /\ g \notin Elements(requests[s])

(* The last word of the client about a goal that was sent is on its way to *)
(* the server, being handled, or was the last one to reach it.             *)
WordReaches(g) ==
  \A s \in Servers : sentTo[g] = s /\ g \notin dropped =>
    /\ said[g] = "posted" =>
         OnItsWay(g, s) \/ Handling(g, s, "recalls") \/ view[s][g] = "requested"
    /\ said[g] = "recalled" =>
         \/ g \in Elements(recalls[s])
         \/ Handling(g, s, "end")
         \/ view[s][g] = "recalled" /\ ~OnItsWay(g, s) /\ ~Handling(g, s, "recalls")

WordOf(g) == SentIsOut(g) /\ RecallComesLast(g) /\ WordReaches(g)

WordInv == OnlyRequests /\ \A g \in Goals : WordOf(g)

LEMMA WordInvInit == Init => WordInv
<1> SUFFICES ASSUME Init PROVE WordInv
  OBVIOUS
<1>1. Elements(<<>>) = {}
  BY DEF Elements
<1>2. /\ sentTo = [g \in Goals |-> Nobody] /\ said = [g \in Goals |-> "nothing"]
      /\ recalls = [s \in Servers |-> <<>>] /\ tmp = <<>> /\ strand = <<>>
  BY DEF Init
<1>3. ASSUME NEW g \in Goals PROVE SentIsOut(g) /\ RecallComesLast(g) /\ WordReaches(g)
  <2>1. SentIsOut(g)
    BY <1>2 DEF SentIsOut
  <2>2. RecallComesLast(g)
    BY <1>1, <1>2 DEF RecallComesLast, Handling
  <2>3. WordReaches(g)
    BY <1>2, GoalFlowAssumption DEF WordReaches
  <2> QED
    BY <2>1, <2>2, <2>3
<1> QED
  BY <1>1, <1>2, <1>3 DEF WordInv, WordOf, OnlyRequests

LEMMA ProvideKeepsWord ==
  ASSUME WordInv, NEW s \in Servers, NEW f \in BOOLEAN, Provide(s, f)
  PROVE  WordInv'
<1>1. /\ owner \in {Nobody, s} /\ owner' = s
      /\ UNCHANGED <<pending, strand, requests, recalls, asked, phase, tmp, said, view, sentTo, dropped>>
  BY DEF Provide, boxes, asking, histories
<1>2. OnlyRequests'
  BY <1>1 DEF WordInv, OnlyRequests
<1>3. ASSUME NEW g \in Goals PROVE WordOf(g)'
  <2>1. WordOf(g)
    BY DEF WordInv
  <2>2. SentIsOut(g)'
    BY <1>1, <2>1 DEF WordOf, SentIsOut
  <2>3. RecallComesLast(g)'
    BY <1>1, <2>1 DEF WordOf, RecallComesLast, Handling, Travelling
  <2>4. WordReaches(g)'
    BY <1>1, <2>1 DEF WordOf, WordReaches, OnItsWay, Handling
  <2> QED
    BY <2>2, <2>3, <2>4 DEF WordOf
<1> QED
  BY <1>2, <1>3 DEF WordInv

LEMMA UnprovideKeepsWord ==
  ASSUME WordInv, NEW s \in Servers, Unprovide(s)
  PROVE  WordInv'
<1>1. /\ sentTo' = [g \in Goals |-> Nobody]
      /\ UNCHANGED <<pending, strand, requests, recalls, asked, phase, tmp, said, view, dropped>>
  BY DEF Unprovide, queueVars, boxes, asking
<1>2. OnlyRequests'
  BY <1>1 DEF WordInv, OnlyRequests
<1>3. ASSUME NEW g \in Goals PROVE WordOf(g)'
  <2>1. WordOf(g)
    BY DEF WordInv
  <2>2. SentIsOut(g)'
    BY <1>1 DEF SentIsOut
  <2>3. RecallComesLast(g)'
    BY <1>1, <2>1 DEF WordOf, RecallComesLast, Handling, Travelling
  <2>4. WordReaches(g)'
    BY <1>1, GoalFlowAssumption DEF WordReaches
  <2> QED
    BY <2>2, <2>3, <2>4 DEF WordOf
<1> QED
  BY <1>2, <1>3 DEF WordInv

LEMMA PostGoalKeepsWord ==
  ASSUME FlowInv, WordInv, NEW h \in Goals, PostGoal(h)
  PROVE  WordInv'
<1>1. TypeOK /\ PendingSorted /\ Distinct(pending) /\ Nobody \notin Servers
  BY GoalFlowAssumption DEF FlowInv, OnePlace, Distinct
<1>2. /\ strand = <<>> /\ asked = Nobody /\ said[h] = "nothing" /\ Fresh(h)
      /\ said' = [said EXCEPT ![h] = "posted"] /\ Post(h) /\ lb' = lb
      /\ UNCHANGED <<owner, strand, asked, phase, tmp, view, sentTo, dropped>>
  BY DEF PostGoal, Fresh, timelineVars, asking
<1>3. h \notin Elements(pending)
  BY <1>2 DEF FlowInv, FreshNowhere
<1>4. /\ Elements(pending') = Elements(pending) \cup {h}
      /\ UNCHANGED <<requests, recalls>>
  BY <1>1, <1>2, <1>3, PostQueue
<1>5. OnlyRequests'
  BY <1>2 DEF WordInv, OnlyRequests
<1>6. ASSUME NEW g \in Goals PROVE WordOf(g)'
  <2>1. /\ WordOf(g)
        /\ g # h => said'[g] = said[g]
        /\ g = h => said[g] = "nothing" /\ said'[g] = "posted"
    BY <1>1, <1>2 DEF WordInv, TypeOK
  <2>2. SentIsOut(g)'
    BY <1>2, <1>4, <2>1 DEF WordOf, SentIsOut
  <2>3. RecallComesLast(g)'
    BY <1>1, <1>2, <1>4, <2>1 DEF WordOf, RecallComesLast, Handling, Travelling
  <2>4. WordReaches(g)'
    <3>1. CASE g = h
      BY <1>1, <1>2, <2>1, <3>1 DEF WordOf, SentIsOut, WordReaches
    <3>2. CASE g # h
      BY <1>2, <1>4, <2>1, <3>2 DEF WordOf, WordReaches, OnItsWay, Handling
    <3> QED
      BY <3>1, <3>2
  <2> QED
    BY <2>2, <2>3, <2>4 DEF WordOf
<1> QED
  BY <1>5, <1>6 DEF WordInv

LEMMA PostRecallKeepsWord ==
  ASSUME FlowInv, WordInv, NEW h \in Goals, PostRecall(h)
  PROVE  WordInv'
<1>1. /\ TypeOK /\ PendingSorted /\ Distinct(pending) /\ Nobody \notin Servers
      /\ recalls \in [Servers -> Seq(Goals)]
  BY GoalFlowAssumption DEF FlowInv, OnePlace, Distinct, TypeOK
<1>2. /\ strand = <<>> /\ asked = Nobody /\ said[h] = "posted"
      /\ said' = [said EXCEPT ![h] = "recalled"] /\ Recall(h) /\ lb' = lb
      /\ UNCHANGED <<owner, strand, asked, phase, tmp, view, sentTo, dropped>>
  BY DEF PostRecall, timelineVars, asking
<1>3. /\ Elements(pending') = Elements(pending) \ {h}
      /\ h \notin Elements(pending) /\ owner # Nobody => QueueRecall(h)
      /\ h \in Elements(pending) \/ owner = Nobody => UNCHANGED <<requests, recalls, have>>
  BY <1>1, <1>2, RecallQueue
<1>4. /\ requests' = requests
      /\ \A s \in Servers : Elements(recalls'[s]) =
           IF s = owner /\ h \notin Elements(pending)
           THEN Elements(recalls[s]) \cup {h} ELSE Elements(recalls[s])
  <2>1. CASE h \in Elements(pending) \/ owner = Nobody
    BY <1>1, <1>3, <2>1
  <2>2. CASE h \notin Elements(pending) /\ owner # Nobody
    <3>1. recalls' = [recalls EXCEPT ![owner] = Append(@, h)] /\ requests' = requests
      BY <1>3, <2>2 DEF QueueRecall
    <3>2. owner \in Servers /\ recalls[owner] \in Seq(Goals)
      BY <1>1, <2>2 DEF TypeOK
    <3>3. Elements(Append(recalls[owner], h)) = Elements(recalls[owner]) \cup {h}
      BY <3>2, AppendElements
    <3>4. recalls'[owner] = Append(recalls[owner], h)
      BY <1>1, <3>1, <3>2
    <3>5. \A s \in Servers : s # owner => recalls'[s] = recalls[s]
      BY <1>1, <3>1
    <3>6. Elements(recalls'[owner]) = Elements(recalls[owner]) \cup {h}
      BY <3>3, <3>4
    <3>7. ASSUME NEW s \in Servers
          PROVE  Elements(recalls'[s]) =
                   IF s = owner /\ h \notin Elements(pending)
                   THEN Elements(recalls[s]) \cup {h} ELSE Elements(recalls[s])
      <4>1. CASE s = owner
        BY <2>2, <3>6, <4>1
      <4>2. CASE s # owner
        BY <3>5, <4>2
      <4> QED
        BY <4>1, <4>2
    <3> QED
      BY <3>1, <3>7
  <2> QED
    BY <2>1, <2>2
<1>5. OnlyRequests' /\ Travelling' = {} /\ \A s \in Servers : asked' # s
  BY <1>1, <1>2 DEF OnlyRequests, Travelling, Elements
<1>6. ASSUME NEW g \in Goals PROVE WordOf(g)'
  <2>1. /\ WordOf(g)
        /\ g # h => said'[g] = said[g]
        /\ g = h => said[g] = "posted" /\ said'[g] = "recalled"
    BY <1>1, <1>2 DEF WordInv, TypeOK
  <2>2. SentIsOut(g)'
    BY <1>2, <1>3, <2>1 DEF WordOf, SentIsOut
  <2>3. RecallComesLast(g)'
    BY <1>2, <1>3, <1>4, <1>5, <2>1 DEF WordOf, RecallComesLast, Handling
  <2>4. WordReaches(g)'
    <3>1. CASE g = h
      <4>1. ASSUME NEW s \in Servers, sentTo'[g] = s PROVE g \in Elements(recalls'[s])
        BY <1>1, <1>2, <1>4, <2>1, <3>1, <4>1 DEF WordOf, SentIsOut
      <4> QED
        BY <2>1, <3>1, <4>1 DEF WordReaches
    <3>2. CASE g # h
      BY <1>2, <1>4, <2>1, <3>2 DEF WordOf, WordReaches, OnItsWay, Handling
    <3> QED
      BY <3>1, <3>2
  <2> QED
    BY <2>2, <2>3, <2>4 DEF WordOf
<1> QED
  BY <1>5, <1>6 DEF WordInv

LEMMA RunRequestKeepsWord ==
  ASSUME FlowInv, WordInv, RunRequest
  PROVE  WordInv'
<1> DEFINE t == Head(strand)
           h == t.goal
           q == t.to
<1>1. requests \in [Servers -> Seq(Goals)] /\ OnlyRequests
  BY DEF FlowInv, TypeOK, WordInv
<1>2. /\ strand # <<>> /\ t.op = "request" /\ strand' = Tail(strand)
      /\ requests' = [requests EXCEPT ![q] = Append(@, h)]
      /\ UNCHANGED <<owner, pending, recalls, asked, phase, tmp, said, view, sentTo, dropped>>
  BY DEF RunRequest, timelineVars, queueVars, asking, histories
<1>3. /\ t \in TaskSet /\ TaskIsCurrent(t)
      /\ Elements(strand) = Elements(strand') \cup {t}
  BY <1>2, FirstTask
<1>4. h \in Goals /\ q \in Servers
  BY <1>2, <1>3 DEF TaskSet, TaskIsCurrent
<1>5. Elements(Append(requests[q], h)) = Elements(requests[q]) \cup {h}
  BY <1>1, <1>4, AppendElements
<1>6. /\ Carried(Elements(strand), q) = Carried(Elements(strand'), q) \cup {h}
      /\ \A s \in Servers : s # q => Carried(Elements(strand), s) = Carried(Elements(strand'), s)
  BY <1>2, <1>3 DEF Carried
<1>7. Travelling = Travelling' \cup {h}
  BY <1>3 DEF Travelling
<1>8. OnlyRequests'
  BY <1>1, <1>3 DEF OnlyRequests
<1> HIDE DEF t, h, q
<1>9. \A s \in Servers : Elements(requests'[s]) =
        IF s = q THEN Elements(requests[s]) \cup {h} ELSE Elements(requests[s])
  <2> TAKE s \in Servers
  <2>1. CASE s = q
    <3>1. requests'[q] = Append(requests[q], h)
      BY <1>1, <1>2, <1>4
    <3> QED
      BY <1>5, <2>1, <3>1
  <2>2. CASE s # q
    <3>1. requests'[s] = requests[s]
      BY <1>1, <1>2, <2>2
    <3> QED
      BY <2>2, <3>1
  <2> QED
    BY <2>1, <2>2
<1>10. ASSUME NEW g \in Goals PROVE WordOf(g)'
  <2>1. WordOf(g)
    BY DEF WordInv
  <2>2. SentIsOut(g)'
    BY <1>2, <2>1 DEF WordOf, SentIsOut
  <2>3. RecallComesLast(g)'
    <3>1. g \notin Travelling => g # h /\ g \notin Travelling'
      BY <1>7
    <3>2. ASSUME NEW s \in Servers, g \notin Travelling, g \notin Elements(requests[s])
          PROVE  g \notin Elements(requests'[s])
      BY <1>9, <3>1, <3>2
    <3> QED
      BY <1>2, <2>1, <3>1, <3>2 DEF WordOf, RecallComesLast, Handling
  <2>4. \A s \in Servers : OnItsWay(g, s)' <=> OnItsWay(g, s)
    BY <1>6, <1>9 DEF OnItsWay
  <2>5. WordReaches(g)'
    BY <1>2, <2>1, <2>4 DEF WordOf, WordReaches, Handling
  <2> QED
    BY <2>2, <2>3, <2>5 DEF WordOf
<1> QED
  BY <1>8, <1>10 DEF WordInv

LEMMA AskKeepsWord ==
  ASSUME FlowInv, WordInv, NEW s \in Servers, Ask(s)
  PROVE  WordInv'
<1>1. /\ asked = Nobody /\ asked' = s /\ phase' = "requests" /\ Nobody \notin Servers
      /\ UNCHANGED <<owner, pending, strand, requests, recalls, tmp, said, view, sentTo, dropped>>
  BY GoalFlowAssumption DEF Ask, timelineVars, queueVars, boxes, histories
<1>2. OnlyRequests'
  BY <1>1 DEF WordInv, OnlyRequests
<1>3. ASSUME NEW g \in Goals PROVE WordOf(g)'
  <2>1. WordOf(g)
    BY DEF WordInv
  <2>2. SentIsOut(g)'
    BY <1>1, <2>1 DEF WordOf, SentIsOut
  <2>3. RecallComesLast(g)'
    BY <1>1, <2>1 DEF WordOf, RecallComesLast, Handling, Travelling
  <2>4. WordReaches(g)'
    BY <1>1, <2>1 DEF WordOf, WordReaches, OnItsWay, Handling
  <2> QED
    BY <2>2, <2>3, <2>4 DEF WordOf
<1> QED
  BY <1>2, <1>3 DEF WordInv

(* have_goals() tells the truth: no flush leaves a goal in the list.       *)
LEMMA NothingToFlush ==
  ASSUME FlowInv, NEW s \in Servers, have[s] = 0
  PROVE  Elements(requests[s]) = {} /\ Elements(recalls[s]) = {}
<1>1. /\ requests[s] \in Seq(Goals) /\ recalls[s] \in Seq(Goals)
      /\ have[s] = Len(requests[s]) + Len(recalls[s])
  BY DEF FlowInv, TypeOK, CountExact
<1> DEFINE a == Len(requests[s])
           b == Len(recalls[s])
<1>2. a \in Nat /\ b \in Nat /\ a + b = 0
  BY <1>1, LenProperties
<1> HIDE DEF a, b
<1>3. a = 0 /\ b = 0
  BY <1>2
<1> USE DEF a, b
<1> QED
  BY <1>1, <1>3, ElementsOf

LEMMA FlushRequestsKeepsWord ==
  ASSUME FlowInv, WordInv, FlushRequests
  PROVE  WordInv'
<1>1. /\ asked \in Servers /\ phase = "requests" /\ tmp = <<>> /\ Elements(<<>>) = {}
      /\ requests \in [Servers -> Seq(Goals)]
  BY DEF FlowInv, FlushRequests, TypeOK, HandlingOnlyWhenAsked, Elements
<1>2. /\ phase' = "recalls"
      /\ UNCHANGED <<owner, pending, strand, recalls, asked, said, view, sentTo, dropped>>
  BY DEF FlushRequests, timelineVars, queueVars, histories
<1>3. /\ Elements(tmp') = Elements(requests[asked])
      /\ \A s \in Servers :
           Elements(requests'[s]) = IF s = asked THEN {} ELSE Elements(requests[s])
  <2>1. CASE have[asked] = 0 /\ UNCHANGED <<tmp, requests, have>>
    <3>1. Elements(requests[asked]) = {}
      BY <1>1, <2>1, NothingToFlush
    <3> QED
      BY <1>1, <2>1, <3>1
  <2>2. CASE tmp' = requests[asked] /\ requests' = [requests EXCEPT ![asked] = <<>>]
    BY <1>1, <2>2
  <2> QED
    BY <2>1, <2>2 DEF FlushRequests
<1>4. OnlyRequests'
  BY <1>2 DEF WordInv, OnlyRequests
<1>5. ASSUME NEW g \in Goals PROVE WordOf(g)'
  <2>1. WordOf(g) /\ g \notin Elements(tmp)
    BY <1>1 DEF WordInv
  <2>2. SentIsOut(g)'
    BY <1>2, <2>1 DEF WordOf, SentIsOut
  <2>3. RecallComesLast(g)'
    BY <1>2, <1>3, <2>1 DEF WordOf, RecallComesLast, Handling, Travelling
  <2>4. \A s \in Servers : OnItsWay(g, s) <=> OnItsWay(g, s)' \/ Handling(g, s, "recalls")'
    BY <1>2, <1>3 DEF OnItsWay, Handling
  <2>5. WordReaches(g)'
    BY <1>2, <2>1, <2>4 DEF WordOf, WordReaches, Handling
  <2> QED
    BY <2>2, <2>3, <2>5 DEF WordOf
<1> QED
  BY <1>4, <1>5 DEF WordInv

LEMMA FlushRecallsKeepsWord ==
  ASSUME FlowInv, WordInv, FlushRecalls
  PROVE  WordInv'
<1>1. /\ asked \in Servers /\ phase = "recalls" /\ tmp = <<>> /\ Elements(<<>>) = {}
      /\ recalls \in [Servers -> Seq(Goals)]
  BY DEF FlowInv, FlushRecalls, TypeOK, Elements
<1>2. /\ phase' = "end"
      /\ UNCHANGED <<owner, pending, strand, requests, asked, said, view, sentTo, dropped>>
  BY DEF FlushRecalls, timelineVars, queueVars, histories
<1>3. /\ Elements(tmp') = Elements(recalls[asked])
      /\ \A s \in Servers :
           Elements(recalls'[s]) = IF s = asked THEN {} ELSE Elements(recalls[s])
  <2>1. CASE have[asked] = 0 /\ UNCHANGED <<tmp, recalls, have>>
    <3>1. Elements(recalls[asked]) = {}
      BY <1>1, <2>1, NothingToFlush
    <3> QED
      BY <1>1, <2>1, <3>1
  <2>2. CASE tmp' = recalls[asked] /\ recalls' = [recalls EXCEPT ![asked] = <<>>]
    BY <1>1, <2>2
  <2> QED
    BY <2>1, <2>2 DEF FlushRecalls
<1>4. OnlyRequests'
  BY <1>2 DEF WordInv, OnlyRequests
<1>5. ASSUME NEW g \in Goals PROVE WordOf(g)'
  <2>1. WordOf(g) /\ g \notin Elements(tmp)
    BY <1>1 DEF WordInv
  <2>2. SentIsOut(g)'
    BY <1>2, <2>1 DEF WordOf, SentIsOut
  <2>3. RecallComesLast(g)'
    BY <1>1, <1>2, <1>3, <2>1 DEF WordOf, RecallComesLast, Handling, Travelling
  <2>4. \A s \in Servers :
          /\ OnItsWay(g, s)' <=> OnItsWay(g, s)
          /\ g \in Elements(recalls[s]) => g \in Elements(recalls'[s]) \/ Handling(g, s, "end")'
          /\ ~Handling(g, s, "recalls")' /\ ~Handling(g, s, "recalls") /\ ~Handling(g, s, "end")
    BY <1>2, <1>3, <2>1 DEF OnItsWay, Handling
  <2>5. WordReaches(g)'
    BY <1>2, <2>1, <2>4 DEF WordOf, WordReaches
  <2> QED
    BY <2>2, <2>3, <2>5 DEF WordOf
<1> QED
  BY <1>4, <1>5 DEF WordInv

LEMMA HandleKeepsWord ==
  ASSUME FlowInv, WordInv, Handle
  PROVE  WordInv'
<1> DEFINE h == Head(tmp)
<1>1. /\ asked \in Servers /\ asked # Nobody /\ tmp # <<>> /\ tmp \in Seq(Goals)
      /\ phase \in {"recalls", "end"}
      /\ view \in [Servers -> [Goals -> {"nothing", "requested", "recalled"}]]
  BY DEF FlowInv, Handle, TypeOK, HandlingOnlyWhenAsked, Phases
<1>2. /\ view' = [view EXCEPT ![asked][h] = IF phase = "recalls" THEN "requested" ELSE "recalled"]
      /\ tmp' = Tail(tmp)
      /\ UNCHANGED <<owner, pending, strand, requests, recalls, asked, phase, said, sentTo, dropped>>
  BY DEF Handle, timelineVars, queueVars, boxes
<1>3. h \in Goals /\ Elements(tmp) = Elements(tmp') \cup {h}
  BY <1>1, <1>2, TailElements
<1> HIDE DEF h
<1>4. /\ view'[asked][h] = IF phase = "recalls" THEN "requested" ELSE "recalled"
      /\ \A s \in Servers : s # asked => view'[s] = view[s]
      /\ \A g \in Goals : g # h => view'[asked][g] = view[asked][g]
  BY <1>1, <1>2, <1>3
<1>5. OnlyRequests'
  BY <1>2 DEF WordInv, OnlyRequests
<1>6. ASSUME NEW g \in Goals PROVE WordOf(g)'
  <2>1. WordOf(g)
    BY DEF WordInv
  <2>2. SentIsOut(g)'
    BY <1>2, <2>1 DEF WordOf, SentIsOut
  <2>3. RecallComesLast(g)'
    BY <1>2, <1>3, <2>1 DEF WordOf, RecallComesLast, Handling, Travelling
  <2>4. \A s \in Servers : OnItsWay(g, s)' <=> OnItsWay(g, s)
    BY <1>2 DEF OnItsWay
  <2>5. WordReaches(g)'
    <3> SUFFICES ASSUME NEW s \in Servers, sentTo'[g] = s, g \notin dropped'
                 PROVE  /\ said'[g] = "posted" =>
                             \/ OnItsWay(g, s)'
                             \/ Handling(g, s, "recalls")'
                             \/ view'[s][g] = "requested"
                        /\ said'[g] = "recalled" =>
                             \/ g \in Elements(recalls'[s])
                             \/ Handling(g, s, "end")'
                             \/ /\ view'[s][g] = "recalled"
                                /\ ~OnItsWay(g, s)' /\ ~Handling(g, s, "recalls")'
      BY DEF WordReaches
    <3>1. /\ said[g] = "posted" =>
               OnItsWay(g, s) \/ Handling(g, s, "recalls") \/ view[s][g] = "requested"
          /\ said[g] = "recalled" =>
               \/ g \in Elements(recalls[s])
               \/ Handling(g, s, "end")
               \/ view[s][g] = "recalled" /\ ~OnItsWay(g, s) /\ ~Handling(g, s, "recalls")
      BY <1>2, <2>1 DEF WordOf, WordReaches
    <3>2. CASE s = asked /\ g = h /\ phase = "recalls"
      BY <1>2, <1>3, <1>4, <2>4, <3>1, <3>2 DEF Handling
    <3>3. CASE s = asked /\ g = h /\ phase = "end"
      <4>1. Handling(g, s, "end")
        BY <1>3, <3>3 DEF Handling
      <4>2. said[g] = "recalled" /\ g \notin Travelling /\ g \notin Elements(requests[s])
        BY <2>1, <4>1 DEF WordOf, RecallComesLast
      <4>3. ~OnItsWay(g, s)
        BY <4>2 DEF OnItsWay, Carried, Travelling
      <4>4. ~Handling(g, s, "recalls")'
        BY <1>2, <3>3 DEF Handling
      <4>5. view'[s][g] = "recalled"
        BY <1>4, <3>3
      <4> QED
        BY <1>2, <2>4, <4>2, <4>3, <4>4, <4>5
    <3>4. CASE s = asked /\ g # h
      <4>1. view'[s][g] = view[s][g]
        BY <1>4, <3>4
      <4>2. \A p \in {"recalls", "end"} : Handling(g, s, p)' <=> Handling(g, s, p)
        BY <1>2, <1>3, <3>4 DEF Handling
      <4> QED
        BY <1>2, <2>4, <3>1, <4>1, <4>2
    <3>5. CASE s # asked
      <4>1. view'[s][g] = view[s][g]
        BY <1>4, <3>5
      <4>2. \A p \in {"recalls", "end"} : ~Handling(g, s, p)' /\ ~Handling(g, s, p)
        BY <1>2, <3>5 DEF Handling
      <4> QED
        BY <1>2, <2>4, <3>1, <4>1, <4>2
    <3> QED
      BY <1>1, <3>2, <3>3, <3>4, <3>5
  <2> QED
    BY <2>2, <2>3, <2>5 DEF WordOf
<1> QED
  BY <1>5, <1>6 DEF WordInv

LEMMA HandlerThrowsKeepsWord ==
  ASSUME WordInv, HandlerThrows
  PROVE  WordInv'
<1>1. /\ asked # Nobody /\ asked' = Nobody /\ Nobody \notin Servers
      /\ dropped' = dropped \cup Elements(tmp)
      /\ UNCHANGED <<owner, pending, strand, requests, recalls, said, view, sentTo>>
  BY GoalFlowAssumption DEF HandlerThrows, timelineVars, queueVars, boxes
<1>2. OnlyRequests'
  BY <1>1 DEF WordInv, OnlyRequests
<1>3. ASSUME NEW g \in Goals PROVE WordOf(g)'
  <2>1. WordOf(g)
    BY DEF WordInv
  <2>2. SentIsOut(g)'
    BY <1>1, <2>1 DEF WordOf, SentIsOut
  <2>3. RecallComesLast(g)'
    BY <1>1, <2>1 DEF WordOf, RecallComesLast, Handling, Travelling
  <2>4. WordReaches(g)'
    BY <1>1, <2>1 DEF WordOf, WordReaches, OnItsWay, Handling
  <2> QED
    BY <2>2, <2>3, <2>4 DEF WordOf
<1> QED
  BY <1>2, <1>3 DEF WordInv

LEMMA AnswerKeepsWord ==
  ASSUME WordInv, Answer
  PROVE  WordInv'
<1>1. /\ asked # Nobody /\ asked' = Nobody /\ tmp = <<>> /\ Nobody \notin Servers
      /\ Elements(<<>>) = {}
      /\ UNCHANGED <<owner, pending, strand, requests, recalls, phase, tmp, said, view, sentTo, dropped>>
  BY GoalFlowAssumption DEF Answer, timelineVars, queueVars, boxes, histories, Elements
<1>2. OnlyRequests'
  BY <1>1 DEF WordInv, OnlyRequests
<1>3. ASSUME NEW g \in Goals PROVE WordOf(g)'
  <2>1. WordOf(g)
    BY DEF WordInv
  <2>2. SentIsOut(g)'
    BY <1>1, <2>1 DEF WordOf, SentIsOut
  <2>3. RecallComesLast(g)'
    BY <1>1, <2>1 DEF WordOf, RecallComesLast, Handling, Travelling
  <2>4. WordReaches(g)'
    BY <1>1, <2>1 DEF WordOf, WordReaches, OnItsWay, Handling
  <2> QED
    BY <2>2, <2>3, <2>4 DEF WordOf
<1> QED
  BY <1>2, <1>3 DEF WordInv

(* A dispatch at the tick n that hands the goals it sends to the owner, at *)
(* once or in tasks.                                                       *)
LEMMA DispatchKeepsWord ==
  ASSUME FlowInv, WordInv, NEW n \in Nat, NEW R, Dispatch(n, R), asked = Nobody, OnlyRequests',
         Travelling' \subseteq Travelling \cup (Due(n) \ R),
         \A s \in Servers :
           Carried(Elements(strand'), s) \cup Elements(requests'[s]) =
             Carried(Elements(strand), s) \cup Elements(requests[s])
               \cup (IF s = owner THEN Due(n) \ R ELSE {})
  PROVE  WordInv'
<1>1. /\ TypeOK /\ PendingSorted /\ Distinct(pending) /\ Nobody \notin Servers
  BY GoalFlowAssumption DEF FlowInv, OnePlace, Distinct
<1>2. /\ Elements(pending') \subseteq Elements(pending) \ (Due(n) \ R)
      /\ Due(n) \subseteq Elements(pending)
      /\ Due(n) # {} => owner \in Servers
  BY <1>1, DispatchQueue
<1>3. /\ UNCHANGED <<owner, recalls, asked, phase, tmp, said, view, dropped>>
      /\ sentTo' = [g \in Goals |-> IF g \in Due(n) \ R THEN owner ELSE sentTo[g]]
  BY DEF Dispatch, timelineVars
<1> DEFINE D == Due(n) \ R
<1>4. ASSUME NEW g \in Goals PROVE WordOf(g)'
  <2>1. WordOf(g)
    BY DEF WordInv
  <2>2. sentTo'[g] = IF g \in D THEN owner ELSE sentTo[g]
    BY <1>3
  <2>3. \A s \in Servers : OnItsWay(g, s)' <=> OnItsWay(g, s) \/ (s = owner /\ g \in D)
    BY DEF OnItsWay
  <2>4. \A s \in Servers : asked # s /\ asked' # s
    BY <1>1, <1>3
  <2>5. CASE g \in D
    <3>1. g \in Elements(pending) /\ g \notin Elements(pending') /\ owner \in Servers
      BY <1>2, <2>5
    <3>2. said[g] = "posted"
      <4>1. said[g] # "nothing"
        BY <3>1 DEF FlowInv, FreshNowhere, Fresh
      <4>2. said[g] # "recalled"
        BY <2>1, <3>1 DEF WordOf, RecallComesLast
      <4> QED
        BY <1>1, <4>1, <4>2 DEF TypeOK
    <3>3. SentIsOut(g)'
      BY <1>3, <2>2, <2>5, <3>1, <3>2 DEF SentIsOut
    <3>4. RecallComesLast(g)'
      BY <1>3, <2>1, <2>4, <3>1, <3>2 DEF WordOf, RecallComesLast, Handling
    <3>5. WordReaches(g)'
      BY <1>3, <2>2, <2>3, <2>5, <3>2 DEF WordReaches
    <3> QED
      BY <3>3, <3>4, <3>5 DEF WordOf
  <2>6. CASE g \notin D
    <3>1. SentIsOut(g)'
      BY <1>2, <1>3, <2>1, <2>2, <2>6 DEF WordOf, SentIsOut
    <3>2. RecallComesLast(g)'
      BY <1>2, <1>3, <2>1, <2>4, <2>6 DEF WordOf, RecallComesLast, Handling
    <3>3. WordReaches(g)'
      BY <1>3, <2>1, <2>2, <2>3, <2>6 DEF WordOf, WordReaches, Handling
    <3> QED
      BY <3>1, <3>2, <3>3 DEF WordOf
  <2> QED
    BY <2>5, <2>6
<1> QED
  BY <1>4 DEF WordInv

(* newTick dispatches on the strand: what it sends is in the list of the   *)
(* owner at once.                                                          *)
LEMMA TickSends ==
  ASSUME FlowInv, NEW R, NewTick(R)
  PROVE  \E n \in Nat :
           /\ n = now' /\ Dispatch(n, R) /\ asked = Nobody /\ strand' = strand
           /\ \A s \in Servers :
                Carried(Elements(strand'), s) \cup Elements(requests'[s]) =
                  Carried(Elements(strand), s) \cup Elements(requests[s])
                    \cup (IF s = owner THEN Due(n) \ R ELSE {})
<1>1. /\ TypeOK /\ PendingSorted /\ Distinct(pending)
      /\ requests \in [Servers -> Seq(Goals)]
  BY DEF FlowInv, OnePlace, Distinct, TypeOK
<1>2. now' \in 0..MaxTick
  BY <1>1, GoalFlowAssumption DEF NewTick, TypeOK
<1>3. PICK n \in Nat : n = now'
  BY <1>2, GoalFlowAssumption
<1> DEFINE sent == Sent(n, R)
<1>4. /\ asked = Nobody /\ strand' = strand
      /\ Dispatch(n, R) /\ AtOnce(sent)
  BY <1>3 DEF NewTick, AtOnce
<1>5. /\ sent \in Seq(Goals)
      /\ Elements(sent) = Due(n) \ R
      /\ Due(n) # {} => owner \in Servers
  BY <1>1, <1>4, DispatchQueue
<1> HIDE DEF sent
<1>6. \A s \in Servers :
        Elements(requests'[s]) =
          Elements(requests[s]) \cup (IF s = owner THEN Due(n) \ R ELSE {})
  <2>1. CASE sent = <<>>
    <3>1. requests' = requests /\ Due(n) \ R = {}
      BY <1>4, <1>5, <2>1, ElementsOf DEF AtOnce
    <3> QED
      BY <3>1
  <2>2. CASE sent # <<>>
    <3>1. owner \in Servers
      BY <1>5, <2>2, ElementsOf
    <3>2. requests' = [requests EXCEPT ![owner] = @ \o sent]
      BY <1>4, <2>2 DEF AtOnce
    <3>3. requests[owner] \in Seq(Goals)
      BY <1>1, <3>1
    <3>4. Elements(requests[owner] \o sent) = Elements(requests[owner]) \cup Elements(sent)
      BY <1>5, <3>3, ConcatElements
    <3>5. /\ requests'[owner] = requests[owner] \o sent
          /\ \A s \in Servers : s # owner => requests'[s] = requests[s]
      BY <1>1, <3>1, <3>2
    <3> QED
      BY <1>5, <3>4, <3>5
  <2> QED
    BY <2>1, <2>2
<1>7. \A s \in Servers :
        Carried(Elements(strand'), s) \cup Elements(requests'[s]) =
          Carried(Elements(strand), s) \cup Elements(requests[s])
            \cup (IF s = owner THEN Due(n) \ R ELSE {})
  BY <1>4, <1>6
<1> QED
  BY <1>3, <1>4, <1>7

(* The dispatch of a work ratio only hands tasks to the strand, one for    *)
(* each goal it sends.                                                     *)
LEMMA AheadSends ==
  ASSUME FlowInv, NEW R, DispatchAhead(R)
  PROVE  \E n \in Nat :
           /\ n = now + 1 /\ Dispatch(n, R) /\ asked = Nobody
           /\ \A t \in Elements(strand') :
                t \in Elements(strand) \/ (t.op = "request" /\ t.goal \in Due(n) \ R)
           /\ \A s \in Servers :
                Carried(Elements(strand'), s) \cup Elements(requests'[s]) =
                  Carried(Elements(strand), s) \cup Elements(requests[s])
                    \cup (IF s = owner THEN Due(n) \ R ELSE {})
<1>1. /\ TypeOK /\ PendingSorted /\ Distinct(pending)
      /\ strand \in Seq(TaskSet)
  BY DEF FlowInv, OnePlace, Distinct, TypeOK, TaskSet
<1>2. PICK n \in Nat : n = now + 1
  BY <1>1, GoalFlowAssumption DEF TypeOK
<1> DEFINE sent == Sent(n, R)
           tasks == [i \in DOMAIN sent |-> Task("request", sent[i], owner)]
<1>3. /\ asked = Nobody /\ Dispatch(n, R)
      /\ strand' = strand \o tasks /\ requests' = requests
  BY <1>2 DEF DispatchAhead, ByTasks
<1>4. /\ sent \in Seq(Goals)
      /\ Elements(sent) = Due(n) \ R
  BY <1>1, <1>3, DispatchQueue
<1> HIDE DEF sent
<1>5. /\ tasks \in Seq(TaskSet)
      /\ \A t \in Elements(tasks) : t.op = "request" /\ t.to = owner /\ t.goal \in Elements(sent)
      /\ \A g \in Elements(sent) :
           \E t \in Elements(tasks) : t.op = "request" /\ t.to = owner /\ t.goal = g
  BY <1>1, <1>4, RequestTasks
<1> HIDE DEF tasks
<1>6. Elements(strand') = Elements(strand) \cup Elements(tasks)
  BY <1>1, <1>3, <1>5, ConcatElements
<1>7. \A t \in Elements(strand') :
        t \in Elements(strand) \/ (t.op = "request" /\ t.goal \in Due(n) \ R)
  BY <1>4, <1>5, <1>6
<1>8. \A s \in Servers :
        Carried(Elements(strand'), s) \cup Elements(requests'[s]) =
          Carried(Elements(strand), s) \cup Elements(requests[s])
            \cup (IF s = owner THEN Due(n) \ R ELSE {})
  <2> TAKE s \in Servers
  <2>1. Carried(Elements(strand'), s) =
          Carried(Elements(strand), s) \cup Carried(Elements(tasks), s)
    BY <1>6 DEF Carried
  <2>2. Carried(Elements(tasks), s) = (IF s = owner THEN Due(n) \ R ELSE {})
    <3>1. CASE s = owner
      BY <1>4, <1>5, <3>1 DEF Carried
    <3>2. CASE s # owner
      BY <1>5, <3>2 DEF Carried
    <3> QED
      BY <3>1, <3>2
  <2> QED
    BY <1>3, <2>1, <2>2
<1> QED
  BY <1>2, <1>3, <1>7, <1>8

LEMMA NewTickKeepsWord ==
  ASSUME FlowInv, WordInv, NEW R, NewTick(R)
  PROVE  WordInv'
<1>1. PICK n \in Nat :
        /\ Dispatch(n, R) /\ asked = Nobody /\ strand' = strand
        /\ \A s \in Servers :
             Carried(Elements(strand'), s) \cup Elements(requests'[s]) =
               Carried(Elements(strand), s) \cup Elements(requests[s])
                 \cup (IF s = owner THEN Due(n) \ R ELSE {})
  BY TickSends
<1>2. OnlyRequests' /\ Travelling' \subseteq Travelling \cup (Due(n) \ R)
  BY <1>1 DEF WordInv, OnlyRequests, Travelling
<1> QED
  BY <1>1, <1>2, DispatchKeepsWord

LEMMA DispatchAheadKeepsWord ==
  ASSUME FlowInv, WordInv, NEW R, DispatchAhead(R)
  PROVE  WordInv'
<1>1. PICK n \in Nat :
        /\ Dispatch(n, R) /\ asked = Nobody
        /\ \A t \in Elements(strand') :
             t \in Elements(strand) \/ (t.op = "request" /\ t.goal \in Due(n) \ R)
        /\ \A s \in Servers :
             Carried(Elements(strand'), s) \cup Elements(requests'[s]) =
               Carried(Elements(strand), s) \cup Elements(requests[s])
                 \cup (IF s = owner THEN Due(n) \ R ELSE {})
  BY AheadSends
<1>2. OnlyRequests'
  BY <1>1 DEF WordInv, OnlyRequests
<1>3. Travelling' \subseteq Travelling \cup (Due(n) \ R)
  BY <1>1 DEF Travelling
<1> QED
  BY <1>1, <1>2, <1>3, DispatchKeepsWord

LEMMA StutterKeepsWord ==
  ASSUME WordInv, UNCHANGED vars
  PROVE  WordInv'
<1>1. UNCHANGED <<owner, pending, strand, requests, recalls, asked, phase, tmp, said, view,
                  sentTo, dropped>>
  BY DEF vars, timelineVars, queueVars, boxes, asking, histories
<1>2. OnlyRequests'
  BY <1>1 DEF WordInv, OnlyRequests
<1>3. ASSUME NEW g \in Goals PROVE WordOf(g)'
  <2>1. WordOf(g)
    BY DEF WordInv
  <2>2. SentIsOut(g)'
    BY <1>1, <2>1 DEF WordOf, SentIsOut
  <2>3. RecallComesLast(g)'
    BY <1>1, <2>1 DEF WordOf, RecallComesLast, Handling, Travelling
  <2>4. WordReaches(g)'
    BY <1>1, <2>1 DEF WordOf, WordReaches, OnItsWay, Handling
  <2> QED
    BY <2>2, <2>3, <2>4 DEF WordOf
<1> QED
  BY <1>2, <1>3 DEF WordInv

LEMMA WordInvStep ==
  ASSUME ~OtherThread, FlowInv, WordInv, [Next]_vars
  PROVE  WordInv'
<1>1. ASSUME NEW s \in Servers, NEW f \in BOOLEAN, Provide(s, f) PROVE WordInv'
  BY <1>1, ProvideKeepsWord
<1>2. ASSUME NEW s \in Servers, Unprovide(s) PROVE WordInv'
  BY <1>2, UnprovideKeepsWord
<1>3. ASSUME NEW g \in Goals, PostGoal(g) PROVE WordInv'
  BY <1>3, PostGoalKeepsWord
<1>4. ASSUME NEW g \in Goals, PostRecall(g) PROVE WordInv'
  BY <1>4, PostRecallKeepsWord
<1>5. ASSUME NEW g \in Goals, CallPostGoal(g) \/ CallPostRecall(g) PROVE WordInv'
  BY <1>5 DEF CallPostGoal, CallPostRecall
<1>6. ASSUME NEW R \in SUBSET Goals, DispatchAhead(R) PROVE WordInv'
  BY <1>6, DispatchAheadKeepsWord
<1>7. ASSUME NEW R \in SUBSET Goals, NewTick(R) PROVE WordInv'
  BY <1>7, NewTickKeepsWord
<1>8. ASSUME strand # <<>> PROVE Head(strand).op = "request"
  <2>1. strand \in Seq(TaskSet)
    BY DEF FlowInv, TypeOK, TaskSet
  <2>2. Head(strand) \in Elements(strand)
    BY <1>8, <2>1, TailElements
  <2> QED
    BY <2>2 DEF WordInv, OnlyRequests
<1>9. CASE StrandStep
  BY <1>8, <1>9, RunRequestKeepsWord DEF StrandStep, RunPost, RunRecall
<1>10. ASSUME NEW s \in Servers, Ask(s) PROVE WordInv'
  BY <1>10, AskKeepsWord
<1>11. CASE WorkRatioStep
  BY <1>11, FlushRequestsKeepsWord, FlushRecallsKeepsWord, HandleKeepsWord,
     HandlerThrowsKeepsWord, AnswerKeepsWord
     DEF WorkRatioStep
<1>12. CASE UNCHANGED vars
  BY <1>12, StutterKeepsWord
<1> QED
  BY <1>1, <1>2, <1>3, <1>4, <1>5, <1>6, <1>7, <1>9, <1>10, <1>11, <1>12
     DEF Next, AgentStep, Tick

LEMMA WordHeld ==
  ASSUME FlowInv, WordInv
  PROVE  LastWordHolds
<1> SUFFICES ASSUME NEW g \in Goals, sentTo[g] # Nobody, Settled(g), g \notin dropped
             PROVE  view[sentTo[g]][g] = IF said[g] = "recalled" THEN "recalled" ELSE "requested"
  BY DEF LastWordHolds
<1>1. WordOf(g) /\ said[g] \in {"nothing", "posted", "recalled"}
      /\ sentTo[g] \in Servers \cup {Nobody}
  BY DEF WordInv, FlowInv, TypeOK
<1>2. PICK s \in Servers : sentTo[g] = s
  BY <1>1
<1>3. \A t \in Elements(strand) : t.goal # g
  BY DEF Settled, Elements
<1>4. /\ g \notin Elements(recalls[s])
      /\ ~OnItsWay(g, s) /\ ~Handling(g, s, "recalls") /\ ~Handling(g, s, "end")
  BY <1>3 DEF Settled, OnItsWay, Handling, Carried
<1>5. /\ said[g] = "posted" => view[s][g] = "requested"
      /\ said[g] = "recalled" => view[s][g] = "recalled"
  BY <1>1, <1>2, <1>4 DEF WordOf, WordReaches
<1>6. said[g] # "nothing"
  BY <1>1 DEF WordOf, SentIsOut
<1> QED
  BY <1>1, <1>2, <1>5, <1>6

-----------------------------------------------------------------------------
(* What another thread cannot spoil: requests                              *)

(* A goal that was sent to s and is not recalled is on its way to s, being *)
(* handled, or known to s; its recall is nowhere.                          *)
RequestReaches(g) ==
  /\ sentTo[g] \in {Nobody, owner}
  /\ sentTo[g] # Nobody => said[g] # "nothing"
  /\ \A s \in Servers : g \in Elements(recalls[s]) \/ Handling(g, s, "end") => said[g] = "recalled"
  /\ \A s \in Servers : sentTo[g] = s /\ said[g] = "posted" /\ g \notin dropped =>
       OnItsWay(g, s) \/ Handling(g, s, "recalls") \/ view[s][g] = "requested"

RequestInv == \A g \in Goals : RequestReaches(g)

LEMMA RequestInvInit == Init => RequestInv
<1> SUFFICES ASSUME Init, NEW g \in Goals PROVE RequestReaches(g)
  BY DEF RequestInv
<1>1. Elements(<<>>) = {}
  BY DEF Elements
<1>2. /\ sentTo = [h \in Goals |-> Nobody] /\ recalls = [s \in Servers |-> <<>>] /\ tmp = <<>>
      /\ Nobody \notin Servers
  BY GoalFlowAssumption DEF Init
<1> QED
  BY <1>1, <1>2 DEF RequestReaches, Handling

(* A step that takes no request away from its server.                      *)
LEMMA RequestFrame ==
  ASSUME RequestInv, UNCHANGED <<view, dropped>>,
         \A g \in Goals : sentTo'[g] = sentTo[g] \/ sentTo'[g] = Nobody,
         \A g \in Goals : sentTo'[g] \in {Nobody, owner'},
         \A g \in Goals : said'[g] = said[g] \/ said'[g] = "recalled"
                            \/ (said[g] = "nothing" /\ said'[g] = "posted"),
         \A g \in Goals, s \in Servers :
           (g \in Elements(recalls[s]) \/ Handling(g, s, "end") => said'[g] = "recalled") =>
             (g \in Elements(recalls'[s]) \/ Handling(g, s, "end")' => said'[g] = "recalled"),
         \A g \in Goals, s \in Servers :
           OnItsWay(g, s) \/ Handling(g, s, "recalls") =>
             OnItsWay(g, s)' \/ Handling(g, s, "recalls")'
  PROVE  RequestInv'
<1> SUFFICES ASSUME NEW g \in Goals PROVE RequestReaches(g)'
  BY DEF RequestInv
<1>1. RequestReaches(g)
  BY DEF RequestInv
<1>2. sentTo'[g] # Nobody => said'[g] # "nothing"
  BY <1>1 DEF RequestReaches
<1>3. ASSUME NEW s \in Servers, g \in Elements(recalls[s]) \/ Handling(g, s, "end")
      PROVE  said'[g] = "recalled"
  BY <1>1, <1>3 DEF RequestReaches
<1>4. ASSUME NEW s \in Servers, g \in Elements(recalls'[s]) \/ Handling(g, s, "end")'
      PROVE  said'[g] = "recalled"
  BY <1>3, <1>4
<1>5. ASSUME NEW s \in Servers, sentTo'[g] = s, said'[g] = "posted", g \notin dropped'
      PROVE  OnItsWay(g, s)' \/ Handling(g, s, "recalls")' \/ view'[s][g] = "requested"
  <2>1. sentTo[g] = s /\ said[g] = "posted" /\ g \notin dropped
    BY <1>1, <1>5, GoalFlowAssumption DEF RequestReaches
  <2>2. OnItsWay(g, s) \/ Handling(g, s, "recalls") \/ view[s][g] = "requested"
    BY <1>1, <2>1 DEF RequestReaches
  <2> QED
    BY <2>2
<1> QED
  BY <1>2, <1>4, <1>5 DEF RequestReaches

LEMMA RequestsSurviveCalls ==
  ASSUME FlowInv, RequestInv, NEW h \in Goals,
         PostGoal(h) \/ CallPostGoal(h) \/ CallPostRecall(h)
  PROVE  RequestInv'
<1>1. /\ said \in [Goals -> {"nothing", "posted", "recalled"}] /\ strand \in Seq(TaskSet)
      /\ TypeOK /\ PendingSorted /\ Distinct(pending)
  BY DEF FlowInv, TypeOK, TaskSet, OnePlace, Distinct
<1>2. UNCHANGED <<view, dropped, sentTo, owner, asked, phase, tmp>>
  BY DEF PostGoal, CallPostGoal, CallPostRecall, timelineVars, asking
<1>3. UNCHANGED <<requests, recalls>>
  <2>1. CASE PostGoal(h)
    <3>1. h \notin Elements(pending) /\ Post(h) /\ lb' = lb
      BY <2>1 DEF PostGoal, FlowInv, FreshNowhere, Fresh
    <3> QED
      BY <1>1, <3>1, PostQueue
  <2> QED
    BY <2>1 DEF CallPostGoal, CallPostRecall, boxes
<1>4. Elements(strand) \subseteq Elements(strand')
  <2>1. ASSUME NEW x \in TaskSet, strand' = Append(strand, x)
        PROVE  Elements(strand) \subseteq Elements(strand')
    BY <1>1, <2>1, AppendElements
  <2>2. \A op \in Operations : Task(op, h, Nobody) \in TaskSet
    BY DEF Task, TaskSet
  <2> QED
    BY <2>1, <2>2 DEF PostGoal, CallPostGoal, CallPostRecall, Operations
<1>5. \A g \in Goals : said'[g] = said[g] \/ said'[g] = "recalled"
                         \/ (said[g] = "nothing" /\ said'[g] = "posted")
  <2>1. \/ said[h] = "nothing" /\ said' = [said EXCEPT ![h] = "posted"]
        \/ said' = [said EXCEPT ![h] = "recalled"]
    BY DEF PostGoal, CallPostGoal, CallPostRecall
  <2> QED
    BY <1>1, <2>1
<1>6. \A g \in Goals : sentTo'[g] \in {Nobody, owner'}
  BY <1>2 DEF RequestInv, RequestReaches
<1>7. ASSUME NEW g \in Goals, NEW s \in Servers
      PROVE  /\ g \in Elements(recalls'[s]) <=> g \in Elements(recalls[s])
             /\ \A p \in Phases : Handling(g, s, p)' <=> Handling(g, s, p)
             /\ OnItsWay(g, s) => OnItsWay(g, s)'
  BY <1>2, <1>3, <1>4 DEF Handling, OnItsWay, Carried
<1>8. "end" \in Phases /\ "recalls" \in Phases
  BY DEF Phases
<1> QED
  BY <1>2, <1>5, <1>6, <1>7, <1>8, RequestFrame

(* A recall adds to the recalls of the owner only.                         *)
LEMMA RequestsSurviveRecall ==
  ASSUME FlowInv, RequestInv, NEW h \in Goals, Recall(h), lb' = lb, said'[h] = "recalled",
         \A g \in Goals : g # h => said'[g] = said[g],
         UNCHANGED <<view, dropped, sentTo, owner, asked, phase, tmp>>,
         \A s \in Servers : Carried(Elements(strand), s) \subseteq Carried(Elements(strand'), s)
  PROVE  RequestInv'
<1>1. /\ TypeOK /\ PendingSorted /\ Distinct(pending)
      /\ recalls \in [Servers -> Seq(Goals)] /\ owner \in Servers \cup {Nobody}
  BY DEF FlowInv, OnePlace, Distinct, TypeOK
<1>2. \/ UNCHANGED <<requests, recalls>>
      \/ owner \in Servers /\ QueueRecall(h)
  BY <1>1, RecallQueue
<1>3. requests' = requests
  BY <1>2 DEF QueueRecall
<1>4. ASSUME NEW s \in Servers
      PROVE  Elements(recalls'[s]) \subseteq Elements(recalls[s]) \cup {h}
  <2>1. CASE owner \in Servers /\ QueueRecall(h)
    <3>1. recalls' = [recalls EXCEPT ![owner] = Append(@, h)] /\ recalls[owner] \in Seq(Goals)
      BY <1>1, <2>1 DEF QueueRecall
    <3>2. Elements(Append(recalls[owner], h)) = Elements(recalls[owner]) \cup {h}
      BY <3>1, AppendElements
    <3>3. CASE s = owner
      <4>1. recalls'[s] = Append(recalls[owner], h)
        BY <1>1, <3>1, <3>3
      <4> QED
        BY <3>2, <3>3, <4>1
    <3>4. CASE s # owner
      <4>1. recalls'[s] = recalls[s]
        BY <1>1, <3>1, <3>4
      <4> QED
        BY <4>1
    <3> QED
      BY <3>3, <3>4
  <2> QED
    BY <1>2, <2>1
<1>5. \A g \in Goals : said'[g] = said[g] \/ said'[g] = "recalled"
                         \/ (said[g] = "nothing" /\ said'[g] = "posted")
  <2> TAKE g \in Goals
  <2>1. CASE g = h
    BY <2>1
  <2>2. CASE g # h
    BY <2>2
  <2> QED
    BY <2>1, <2>2
<1>6. \A g \in Goals : sentTo'[g] \in {Nobody, owner'}
  BY DEF RequestInv, RequestReaches
<1>7. ASSUME NEW g \in Goals, NEW s \in Servers
      PROVE  /\ g \in Elements(recalls'[s]) => g = h \/ g \in Elements(recalls[s])
             /\ Handling(g, s, "end")' <=> Handling(g, s, "end")
             /\ Handling(g, s, "recalls")' <=> Handling(g, s, "recalls")
             /\ OnItsWay(g, s) => OnItsWay(g, s)'
  BY <1>3, <1>4 DEF Handling, OnItsWay
<1>8. \A g \in Goals, s \in Servers :
           (g \in Elements(recalls[s]) \/ Handling(g, s, "end") => said'[g] = "recalled") =>
             (g \in Elements(recalls'[s]) \/ Handling(g, s, "end")' => said'[g] = "recalled")
  BY <1>7
<1> QED
  BY <1>5, <1>6, <1>7, <1>8, RequestFrame

LEMMA RequestsSurvivePostRecall ==
  ASSUME FlowInv, RequestInv, NEW h \in Goals, PostRecall(h)
  PROVE  RequestInv'
<1>1. /\ said \in [Goals -> {"nothing", "posted", "recalled"}]
  BY DEF FlowInv, TypeOK
<1>2. /\ Recall(h) /\ said' = [said EXCEPT ![h] = "recalled"]
      /\ UNCHANGED <<view, dropped, sentTo, owner, asked, phase, tmp, strand, lb>>
  BY DEF PostRecall, timelineVars, asking
<1>3. said'[h] = "recalled" /\ \A g \in Goals : g # h => said'[g] = said[g]
  BY <1>1, <1>2
<1> QED
  BY <1>2, <1>3, RequestsSurviveRecall

LEMMA RequestsSurviveRunRecall ==
  ASSUME FlowInv, RequestInv, RunRecall
  PROVE  RequestInv'
<1> DEFINE h == Head(strand).goal
<1>1. /\ strand # <<>> /\ Head(strand).op = "recall" /\ Recall(h) /\ strand' = Tail(strand)
      /\ UNCHANGED <<view, dropped, sentTo, owner, asked, phase, tmp, said, lb>>
  BY DEF RunRecall, timelineVars, asking, histories
<1>2. /\ Head(strand) \in TaskSet /\ TaskIsCurrent(Head(strand))
      /\ Elements(strand) = Elements(strand') \cup {Head(strand)}
  BY <1>1, FirstTask
<1>3. h \in Goals /\ said[h] = "recalled"
  BY <1>1, <1>2 DEF TaskSet, TaskIsCurrent
<1>4. \A s \in Servers : Carried(Elements(strand), s) \subseteq Carried(Elements(strand'), s)
  BY <1>1, <1>2 DEF Carried
<1> HIDE DEF h
<1> QED
  BY <1>1, <1>3, <1>4, RequestsSurviveRecall

LEMMA RequestsSurviveRunPost ==
  ASSUME FlowInv, RequestInv, RunPost
  PROVE  RequestInv'
<1> DEFINE h == Head(strand).goal
<1>1. /\ strand # <<>> /\ Head(strand).op = "post" /\ Post(h) /\ strand' = Tail(strand)
      /\ UNCHANGED <<view, dropped, sentTo, owner, asked, phase, tmp, said, lb>>
  BY DEF RunPost, timelineVars, asking, histories
<1>2. /\ Head(strand) \in TaskSet /\ Head(strand) \in Elements(strand)
      /\ Elements(strand) = Elements(strand') \cup {Head(strand)}
  BY <1>1, FirstTask
<1>3. h \in Goals /\ Fresh(h)
  BY <1>1, <1>2 DEF TaskSet, Fresh
<1>4. \A s \in Servers : Carried(Elements(strand), s) \subseteq Carried(Elements(strand'), s)
  BY <1>1, <1>2 DEF Carried
<1> HIDE DEF h
<1>5. UNCHANGED <<requests, recalls>>
  <2>1. TypeOK /\ PendingSorted /\ Distinct(pending) /\ h \notin Elements(pending)
    BY <1>3 DEF FlowInv, OnePlace, Distinct, FreshNowhere
  <2> QED
    BY <1>1, <1>3, <2>1, PostQueue
<1>6. \A g \in Goals : sentTo'[g] \in {Nobody, owner'}
  BY <1>1 DEF RequestInv, RequestReaches
<1>7. ASSUME NEW g \in Goals, NEW s \in Servers
      PROVE  /\ g \in Elements(recalls'[s]) <=> g \in Elements(recalls[s])
             /\ Handling(g, s, "end")' <=> Handling(g, s, "end")
             /\ Handling(g, s, "recalls")' <=> Handling(g, s, "recalls")
             /\ OnItsWay(g, s) => OnItsWay(g, s)'
  BY <1>1, <1>4, <1>5 DEF Handling, OnItsWay
<1>8. /\ \A g \in Goals : sentTo'[g] = sentTo[g] \/ sentTo'[g] = Nobody
      /\ \A g \in Goals : said'[g] = said[g] \/ said'[g] = "recalled"
                            \/ (said[g] = "nothing" /\ said'[g] = "posted")
  BY <1>1
<1>9. \A g \in Goals, s \in Servers :
        (g \in Elements(recalls[s]) \/ Handling(g, s, "end") => said'[g] = "recalled") =>
          (g \in Elements(recalls'[s]) \/ Handling(g, s, "end")' => said'[g] = "recalled")
  BY <1>7
<1> QED
  BY <1>1, <1>6, <1>7, <1>8, <1>9, RequestFrame

LEMMA RequestsSurviveRunRequest ==
  ASSUME FlowInv, RequestInv, RunRequest
  PROVE  RequestInv'
<1> DEFINE t == Head(strand)
           h == t.goal
           q == t.to
<1>1. requests \in [Servers -> Seq(Goals)]
  BY DEF FlowInv, TypeOK
<1>2. /\ strand # <<>> /\ t.op = "request" /\ strand' = Tail(strand)
      /\ requests' = [requests EXCEPT ![q] = Append(@, h)]
      /\ UNCHANGED <<owner, recalls, asked, phase, tmp, said, view, sentTo, dropped>>
  BY DEF RunRequest, timelineVars, asking, histories
<1>3. /\ t \in TaskSet /\ TaskIsCurrent(t)
      /\ Elements(strand) = Elements(strand') \cup {t}
  BY <1>2, FirstTask
<1>4. h \in Goals /\ q \in Servers
  BY <1>2, <1>3 DEF TaskSet, TaskIsCurrent
<1>5. Elements(Append(requests[q], h)) = Elements(requests[q]) \cup {h}
  BY <1>1, <1>4, AppendElements
<1>6. \A s \in Servers :
        Carried(Elements(strand), s) \subseteq
          Carried(Elements(strand'), s) \cup (IF s = q THEN {h} ELSE {})
  BY <1>2, <1>3 DEF Carried
<1> HIDE DEF t, h, q
<1>7. ASSUME NEW s \in Servers
      PROVE  Elements(requests[s]) \cup (IF s = q THEN {h} ELSE {}) \subseteq Elements(requests'[s])
  <2>1. CASE s = q
    <3>1. requests'[q] = Append(requests[q], h)
      BY <1>1, <1>2, <1>4
    <3> QED
      BY <1>5, <2>1, <3>1
  <2>2. CASE s # q
    <3>1. requests'[s] = requests[s]
      BY <1>1, <1>2, <2>2
    <3> QED
      BY <2>2, <3>1
  <2> QED
    BY <2>1, <2>2
<1>8. \A g \in Goals : sentTo'[g] \in {Nobody, owner'}
  BY <1>2 DEF RequestInv, RequestReaches
<1>9. ASSUME NEW g \in Goals, NEW s \in Servers
      PROVE  /\ g \in Elements(recalls'[s]) <=> g \in Elements(recalls[s])
             /\ Handling(g, s, "end")' <=> Handling(g, s, "end")
             /\ Handling(g, s, "recalls")' <=> Handling(g, s, "recalls")
  BY <1>2 DEF Handling
<1>10. ASSUME NEW g \in Goals, NEW s \in Servers
       PROVE  OnItsWay(g, s) => OnItsWay(g, s)'
  BY <1>6, <1>7 DEF OnItsWay
<1>11. /\ \A g \in Goals : sentTo'[g] = sentTo[g] \/ sentTo'[g] = Nobody
       /\ \A g \in Goals : said'[g] = said[g] \/ said'[g] = "recalled"
                             \/ (said[g] = "nothing" /\ said'[g] = "posted")
  BY <1>2
<1>12. \A g \in Goals, s \in Servers :
        (g \in Elements(recalls[s]) \/ Handling(g, s, "end") => said'[g] = "recalled") =>
          (g \in Elements(recalls'[s]) \/ Handling(g, s, "end")' => said'[g] = "recalled")
  BY <1>9
<1> QED
  BY <1>2, <1>8, <1>9, <1>10, <1>11, <1>12, RequestFrame

(* A step that leaves what is in the strand and the lists alone, when      *)
(* nothing is being handled before it or after it.                         *)
LEMMA RequestsAtRest ==
  ASSUME RequestInv, UNCHANGED <<strand, requests, recalls, said, view, dropped>>,
         \A g \in Goals : sentTo'[g] = sentTo[g] \/ sentTo'[g] = Nobody,
         \A g \in Goals : sentTo'[g] \in {Nobody, owner'},
         \A g \in Goals, s \in Servers, p \in {"recalls", "end"} :
           Handling(g, s, p)' <=> Handling(g, s, p)
  PROVE  RequestInv'
<1> SUFFICES ASSUME NEW g \in Goals PROVE RequestReaches(g)'
  BY DEF RequestInv
<1>1. RequestReaches(g)
  BY DEF RequestInv
<1>2. \A s \in Servers : /\ Handling(g, s, "recalls")' <=> Handling(g, s, "recalls")
                         /\ Handling(g, s, "end")' <=> Handling(g, s, "end")
  OBVIOUS
<1>3. \A s \in Servers : OnItsWay(g, s)' <=> OnItsWay(g, s)
  BY DEF OnItsWay
<1>4. \A s \in Servers : sentTo'[g] = s => sentTo[g] = s
  BY GoalFlowAssumption
<1> QED
  BY <1>1, <1>2, <1>3, <1>4 DEF RequestReaches

LEMMA RequestsSurviveOwners ==
  ASSUME RequestInv,
         \/ \E q \in Servers, f \in BOOLEAN : Provide(q, f)
         \/ \E q \in Servers : Unprovide(q)
         \/ UNCHANGED vars
  PROVE  RequestInv'
<1>1. UNCHANGED <<strand, requests, recalls, said, view, dropped, asked, phase, tmp>>
  BY DEF Provide, Unprovide, vars, boxes, asking, histories
<1>2. \A g \in Goals : sentTo[g] \in {Nobody, owner}
  BY DEF RequestInv, RequestReaches
<1>3. \/ sentTo' = sentTo /\ owner' = owner
      \/ sentTo' = sentTo /\ owner = Nobody
      \/ sentTo' = [g \in Goals |-> Nobody]
  BY DEF Provide, Unprovide, vars, timelineVars, histories
<1>4. \A g \in Goals : /\ sentTo'[g] = sentTo[g] \/ sentTo'[g] = Nobody
                       /\ sentTo'[g] \in {Nobody, owner'}
  BY <1>2, <1>3
<1>5. \A g \in Goals, s \in Servers, p \in {"recalls", "end"} :
        Handling(g, s, p)' <=> Handling(g, s, p)
  BY <1>1 DEF Handling
<1> QED
  BY <1>1, <1>4, <1>5, RequestsAtRest

LEMMA RequestsSurviveAskAnswer ==
  ASSUME FlowInv, RequestInv, (\E q \in Servers : Ask(q)) \/ Answer
  PROVE  RequestInv'
<1>1. /\ UNCHANGED <<strand, requests, recalls, said, view, dropped, sentTo, owner, tmp>>
      /\ tmp = <<>> /\ Elements(<<>>) = {}
  BY DEF Ask, Answer, timelineVars, boxes, histories, FlowInv, HandlingOnlyWhenAsked, Elements
<1>2. \A g \in Goals : sentTo'[g] \in {Nobody, owner'}
  BY <1>1 DEF RequestInv, RequestReaches
<1>3. \A g \in Goals, s \in Servers, p \in {"recalls", "end"} :
        Handling(g, s, p)' <=> Handling(g, s, p)
  BY <1>1 DEF Handling
<1> QED
  BY <1>1, <1>2, <1>3, RequestsAtRest

LEMMA RequestsSurviveFlushRequests ==
  ASSUME FlowInv, RequestInv, FlushRequests
  PROVE  RequestInv'
<1>1. /\ asked \in Servers /\ phase = "requests" /\ tmp = <<>> /\ Elements(<<>>) = {}
      /\ requests \in [Servers -> Seq(Goals)]
  BY DEF FlowInv, FlushRequests, TypeOK, HandlingOnlyWhenAsked, Elements
<1>2. /\ phase' = "recalls"
      /\ UNCHANGED <<owner, strand, recalls, asked, said, view, sentTo, dropped>>
  BY DEF FlushRequests, timelineVars, histories
<1>3. \A g \in Goals : sentTo'[g] \in {Nobody, owner'}
  BY <1>2 DEF RequestInv, RequestReaches
<1>4. \A g \in Goals, s \in Servers :
        (g \in Elements(recalls[s]) \/ Handling(g, s, "end") => said'[g] = "recalled") =>
          (g \in Elements(recalls'[s]) \/ Handling(g, s, "end")' => said'[g] = "recalled")
  BY <1>2 DEF Handling
<1>5. \A g \in Goals, s \in Servers : g \in Elements(requests[s]) =>
        g \in Elements(requests'[s]) \/ Handling(g, s, "recalls")'
  <2>1. CASE UNCHANGED requests
    BY <2>1
  <2>2. CASE tmp' = requests[asked] /\ requests' = [requests EXCEPT ![asked] = <<>>]
    <3>1. \A s \in Servers : s # asked => requests'[s] = requests[s]
      BY <1>1, <2>2
    <3> QED
      BY <1>2, <2>2, <3>1 DEF Handling
  <2> QED
    BY <2>1, <2>2 DEF FlushRequests
<1>6. \A g \in Goals, s \in Servers :
        OnItsWay(g, s) \/ Handling(g, s, "recalls") =>
          OnItsWay(g, s)' \/ Handling(g, s, "recalls")'
  BY <1>1, <1>2, <1>5 DEF OnItsWay, Handling
<1> QED
  BY <1>2, <1>3, <1>4, <1>6, RequestFrame

LEMMA RequestsSurviveFlushRecalls ==
  ASSUME FlowInv, RequestInv, FlushRecalls
  PROVE  RequestInv'
<1>1. /\ asked \in Servers /\ phase = "recalls" /\ tmp = <<>> /\ Elements(<<>>) = {}
      /\ recalls \in [Servers -> Seq(Goals)]
  BY DEF FlowInv, FlushRecalls, TypeOK, Elements
<1>2. /\ phase' = "end"
      /\ UNCHANGED <<owner, strand, requests, asked, said, view, sentTo, dropped>>
  BY DEF FlushRecalls, timelineVars, histories
<1>3. \A g \in Goals : sentTo'[g] \in {Nobody, owner'}
  BY <1>2 DEF RequestInv, RequestReaches
<1>4. \A s \in Servers :
        /\ Elements(recalls'[s]) \subseteq Elements(recalls[s])
        /\ s = asked => Elements(tmp') \subseteq Elements(recalls[s])
  <2>1. CASE UNCHANGED <<tmp, recalls>>
    BY <1>1, <2>1
  <2>2. CASE tmp' = recalls[asked] /\ recalls' = [recalls EXCEPT ![asked] = <<>>]
    BY <1>1, <2>2
  <2> QED
    BY <2>1, <2>2 DEF FlushRecalls
<1>5. \A g \in Goals, s \in Servers :
        (g \in Elements(recalls[s]) \/ Handling(g, s, "end") => said'[g] = "recalled") =>
          (g \in Elements(recalls'[s]) \/ Handling(g, s, "end")' => said'[g] = "recalled")
  BY <1>2, <1>4 DEF Handling
<1>6. \A g \in Goals, s \in Servers :
        OnItsWay(g, s) \/ Handling(g, s, "recalls") =>
          OnItsWay(g, s)' \/ Handling(g, s, "recalls")'
  BY <1>1, <1>2 DEF OnItsWay, Handling
<1> QED
  BY <1>2, <1>3, <1>5, <1>6, RequestFrame

LEMMA RequestsSurviveHandle ==
  ASSUME FlowInv, RequestInv, Handle
  PROVE  RequestInv'
<1> DEFINE h == Head(tmp)
<1>1. /\ asked \in Servers /\ asked # Nobody /\ tmp # <<>> /\ tmp \in Seq(Goals)
      /\ phase \in {"recalls", "end"}
      /\ view \in [Servers -> [Goals -> {"nothing", "requested", "recalled"}]]
  BY DEF FlowInv, Handle, TypeOK, HandlingOnlyWhenAsked, Phases
<1>2. /\ view' = [view EXCEPT ![asked][h] = IF phase = "recalls" THEN "requested" ELSE "recalled"]
      /\ tmp' = Tail(tmp)
      /\ UNCHANGED <<owner, strand, requests, recalls, asked, phase, said, sentTo, dropped>>
  BY DEF Handle, timelineVars, boxes
<1>3. h \in Goals /\ Elements(tmp) = Elements(tmp') \cup {h}
  BY <1>1, <1>2, TailElements
<1> HIDE DEF h
<1>4. /\ view'[asked][h] = IF phase = "recalls" THEN "requested" ELSE "recalled"
      /\ \A s \in Servers : s # asked => view'[s] = view[s]
      /\ \A g \in Goals : g # h => view'[asked][g] = view[asked][g]
  BY <1>1, <1>2, <1>3
<1> SUFFICES ASSUME NEW g \in Goals PROVE RequestReaches(g)'
  BY DEF RequestInv
<1>5. RequestReaches(g)
  BY DEF RequestInv
<1>6. ASSUME NEW s \in Servers, g \in Elements(recalls'[s]) \/ Handling(g, s, "end")'
      PROVE  said'[g] = "recalled"
  BY <1>2, <1>3, <1>5, <1>6 DEF RequestReaches, Handling
<1>7. ASSUME NEW s \in Servers, sentTo'[g] = s, said'[g] = "posted", g \notin dropped'
      PROVE  OnItsWay(g, s)' \/ Handling(g, s, "recalls")' \/ view'[s][g] = "requested"
  <2>1. OnItsWay(g, s) \/ Handling(g, s, "recalls") \/ view[s][g] = "requested"
    BY <1>2, <1>5, <1>7 DEF RequestReaches
  <2>2. OnItsWay(g, s)' <=> OnItsWay(g, s)
    BY <1>2 DEF OnItsWay
  <2>3. CASE s = asked /\ g = h
    <3>1. g \in Elements(tmp)
      BY <1>3, <2>3
    <3>2. phase # "end"
      BY <1>2, <1>5, <1>7, <2>3, <3>1 DEF RequestReaches, Handling
    <3> QED
      BY <1>1, <1>4, <2>3, <3>2
  <2>4. CASE s # asked \/ g # h
    <3>1. view'[s][g] = view[s][g]
      BY <1>4, <2>4
    <3>2. Handling(g, s, "recalls")' <=> Handling(g, s, "recalls")
      BY <1>2, <1>3, <2>4 DEF Handling
    <3> QED
      BY <2>1, <2>2, <3>1, <3>2
  <2> QED
    BY <2>3, <2>4
<1> QED
  BY <1>2, <1>5, <1>6, <1>7 DEF RequestReaches

LEMMA RequestsSurviveThrow ==
  ASSUME RequestInv, HandlerThrows
  PROVE  RequestInv'
<1>1. /\ asked' = Nobody /\ Nobody \notin Servers /\ dropped' = dropped \cup Elements(tmp)
      /\ UNCHANGED <<owner, strand, requests, recalls, said, view, sentTo>>
  BY GoalFlowAssumption DEF HandlerThrows, timelineVars, boxes
<1> SUFFICES ASSUME NEW g \in Goals PROVE RequestReaches(g)'
  BY DEF RequestInv
<1>2. RequestReaches(g)
  BY DEF RequestInv
<1> QED
  BY <1>1, <1>2 DEF RequestReaches, OnItsWay, Handling

LEMMA RequestsSurviveDispatch ==
  ASSUME FlowInv, RequestInv, NEW n \in Nat, NEW R, Dispatch(n, R), asked = Nobody,
         \A s \in Servers :
           Carried(Elements(strand'), s) \cup Elements(requests'[s]) =
             Carried(Elements(strand), s) \cup Elements(requests[s])
               \cup (IF s = owner THEN Due(n) \ R ELSE {})
  PROVE  RequestInv'
<1>1. TypeOK /\ PendingSorted /\ Distinct(pending) /\ Nobody \notin Servers
  BY GoalFlowAssumption DEF FlowInv, OnePlace, Distinct
<1>2. Due(n) \subseteq Elements(pending) /\ (Due(n) # {} => owner \in Servers)
  BY <1>1, DispatchQueue
<1>3. /\ UNCHANGED <<owner, recalls, asked, phase, tmp, said, view, dropped>>
      /\ sentTo' = [g \in Goals |-> IF g \in Due(n) \ R THEN owner ELSE sentTo[g]]
  BY DEF Dispatch, timelineVars
<1> SUFFICES ASSUME NEW g \in Goals PROVE RequestReaches(g)'
  BY DEF RequestInv
<1> DEFINE D == Due(n) \ R
<1>4. RequestReaches(g)
  BY DEF RequestInv
<1>5. sentTo'[g] = IF g \in D THEN owner ELSE sentTo[g]
  BY <1>3
<1>6. \A s \in Servers : OnItsWay(g, s)' <=> OnItsWay(g, s) \/ (s = owner /\ g \in D)
  BY DEF OnItsWay
<1>7. \A s \in Servers : asked # s /\ asked' # s
  BY <1>1, <1>3
<1>8. g \in D => said[g] # "nothing"
  BY <1>2 DEF FlowInv, FreshNowhere, Fresh
<1> HIDE DEF D
<1> QED
  BY <1>3, <1>4, <1>5, <1>6, <1>7, <1>8 DEF RequestReaches, Handling

LEMMA RequestsSurviveNewTick ==
  ASSUME FlowInv, RequestInv, NEW R, NewTick(R)
  PROVE  RequestInv'
<1>1. PICK n \in Nat :
        /\ Dispatch(n, R) /\ asked = Nobody /\ strand' = strand
        /\ \A s \in Servers :
             Carried(Elements(strand'), s) \cup Elements(requests'[s]) =
               Carried(Elements(strand), s) \cup Elements(requests[s])
                 \cup (IF s = owner THEN Due(n) \ R ELSE {})
  BY TickSends
<1> QED
  BY <1>1, RequestsSurviveDispatch

LEMMA RequestsSurviveAhead ==
  ASSUME FlowInv, RequestInv, NEW R, DispatchAhead(R)
  PROVE  RequestInv'
<1>1. PICK n \in Nat :
        /\ Dispatch(n, R) /\ asked = Nobody
        /\ \A t \in Elements(strand') :
             t \in Elements(strand) \/ (t.op = "request" /\ t.goal \in Due(n) \ R)
        /\ \A s \in Servers :
             Carried(Elements(strand'), s) \cup Elements(requests'[s]) =
               Carried(Elements(strand), s) \cup Elements(requests[s])
                 \cup (IF s = owner THEN Due(n) \ R ELSE {})
  BY AheadSends
<1> QED
  BY <1>1, RequestsSurviveDispatch

LEMMA RequestInvStep ==
  ASSUME FlowInv, RequestInv, [Next]_vars
  PROVE  RequestInv'
<1>1. ASSUME NEW s \in Servers, (\E f \in BOOLEAN : Provide(s, f)) \/ Unprovide(s)
      PROVE  RequestInv'
  BY <1>1, RequestsSurviveOwners
<1>2. ASSUME NEW g \in Goals, PostGoal(g) \/ CallPostGoal(g) \/ CallPostRecall(g)
      PROVE  RequestInv'
  BY <1>2, RequestsSurviveCalls
<1>3. ASSUME NEW g \in Goals, PostRecall(g) PROVE RequestInv'
  BY <1>3, RequestsSurvivePostRecall
<1>4. ASSUME NEW R \in SUBSET Goals, DispatchAhead(R) PROVE RequestInv'
  BY <1>4, RequestsSurviveAhead
<1>5. ASSUME NEW R \in SUBSET Goals, NewTick(R) PROVE RequestInv'
  BY <1>5, RequestsSurviveNewTick
<1>6. CASE StrandStep
  BY <1>6, RequestsSurviveRunRequest, RequestsSurviveRunPost, RequestsSurviveRunRecall
     DEF StrandStep
<1>7. ASSUME NEW s \in Servers, Ask(s) PROVE RequestInv'
  BY <1>7, RequestsSurviveAskAnswer
<1>8. CASE WorkRatioStep
  BY <1>8, RequestsSurviveFlushRequests, RequestsSurviveFlushRecalls, RequestsSurviveHandle,
     RequestsSurviveThrow, RequestsSurviveAskAnswer
     DEF WorkRatioStep
<1>9. CASE UNCHANGED vars
  BY <1>9, RequestsSurviveOwners
<1> QED
  BY <1>1, <1>2, <1>3, <1>4, <1>5, <1>6, <1>7, <1>8, <1>9 DEF Next, AgentStep, Tick

(* What RequestInv says of a goal about which nothing is under way.        *)
NoRequestLost ==
  \A g \in Goals : sentTo[g] # Nobody /\ said[g] = "posted" /\ Settled(g) /\ g \notin dropped =>
    view[sentTo[g]][g] = "requested"

LEMMA RequestHeld ==
  ASSUME FlowInv, RequestInv
  PROVE  NoRequestLost
<1> SUFFICES ASSUME NEW g \in Goals, sentTo[g] # Nobody, said[g] = "posted", Settled(g),
                    g \notin dropped
             PROVE  view[sentTo[g]][g] = "requested"
  BY DEF NoRequestLost
<1>1. RequestReaches(g) /\ sentTo[g] \in Servers \cup {Nobody}
  BY DEF RequestInv, FlowInv, TypeOK
<1>2. PICK s \in Servers : sentTo[g] = s
  BY <1>1
<1>3. \A t \in Elements(strand) : t.goal # g
  BY DEF Settled, Elements
<1>4. ~OnItsWay(g, s) /\ ~Handling(g, s, "recalls")
  BY <1>3 DEF Settled, OnItsWay, Handling, Carried
<1> QED
  BY <1>1, <1>2, <1>4 DEF RequestReaches

-----------------------------------------------------------------------------
(* A goal is handled once                                                  *)

SingleRequests(q) ==
  \A i, j \in DOMAIN q :
    q[i].op = "request" /\ q[j].op = "request" /\ q[i].goal = q[j].goal => i = j

(* What FlowInv leaves open: that a goal is not twice on its way to one    *)
(* server, in the strand, in its list, or among the goals it handles.      *)
CopyInv ==
  /\ SingleRequests(strand)
  /\ \A s \in Servers : Distinct(requests[s])
  /\ \A s \in Servers : Carried(Elements(strand), s) \cap Elements(requests[s]) = {}
  /\ asked # Nobody /\ phase = "recalls" => Distinct(tmp)
  /\ \A s \in Servers : BeingHandled \cap Requested(s) = {}

(* g is yet to be posted, or yet to be handled.                            *)
Waits(g) == Fresh(g) \/ g \in Elements(pending) \/ Busy(g)

NoneBack == \A g \in Goals : Waits(g)' => Waits(g)

LEMMA DistinctConcat ==
  ASSUME NEW T, NEW s \in Seq(T), NEW t \in Seq(T), Distinct(s), Distinct(t),
         Elements(s) \cap Elements(t) = {}
  PROVE  Distinct(s \o t)
<1> DEFINE r == s \o t
           L == Len(s)
           M == Len(t)
<1>1. /\ L \in Nat /\ M \in Nat /\ DOMAIN s = 1..L /\ DOMAIN t = 1..M
      /\ \A i \in 1..(L + M) : r[i] = IF i <= L THEN s[i] ELSE t[i - L]
  BY ConcatProperties, LenProperties
<1>2. DOMAIN r = 1..(L + M)
  <2>1. r \in Seq(T) /\ Len(r) = L + M
    BY ConcatProperties
  <2> HIDE DEF r, L, M
  <2>2. DOMAIN r = 1..Len(r)
    BY ONLY <2>1, LenProperties
  <2> QED
    BY <2>1, <2>2
<1> HIDE DEF r, L, M
<1>3. ASSUME NEW i \in 1..(L + M)
      PROVE  \/ i \in 1..L /\ r[i] = s[i] /\ r[i] \in Elements(s)
             \/ i - L \in 1..M /\ r[i] = t[i - L] /\ r[i] \in Elements(t)
  <2>1. CASE i <= L
    BY <1>1, <2>1 DEF Elements
  <2>2. CASE ~(i <= L)
    <3>1. i - L \in 1..M /\ r[i] = t[i - L]
      BY <1>1, <2>2
    <3> QED
      BY <1>1, <3>1 DEF Elements
  <2> QED
    BY <2>1, <2>2
<1>4. ASSUME NEW i \in 1..(L + M), NEW j \in 1..(L + M), r[i] = r[j]
      PROVE  i = j
  <2>1. CASE i \in 1..L /\ r[i] = s[i] /\ r[i] \in Elements(s)
    <3>1. j \in 1..L /\ r[j] = s[j]
      BY <1>3, <1>4, <2>1
    <3> QED
      BY <1>1, <1>4, <2>1, <3>1 DEF Distinct
  <2>2. CASE i - L \in 1..M /\ r[i] = t[i - L] /\ r[i] \in Elements(t)
    <3>1. j - L \in 1..M /\ r[j] = t[j - L]
      BY <1>3, <1>4, <2>2
    <3>2. i - L = j - L
      BY <1>1, <1>4, <2>2, <3>1 DEF Distinct
    <3> QED
      BY <1>1, <3>2
  <2> QED
    BY <1>3, <2>1, <2>2
<1> QED
  BY <1>2, <1>4 DEF Distinct, r

LEMMA DistinctAppend ==
  ASSUME NEW T, NEW s \in Seq(T), NEW x \in T, Distinct(s), x \notin Elements(s)
  PROVE  Distinct(Append(s, x))
<1>1. /\ <<x>> \in Seq(T) /\ Elements(<<x>>) = {x} /\ Distinct(<<x>>)
  BY DEF Elements, Distinct
<1>2. Distinct(s \o <<x>>)
  BY <1>1, DistinctConcat
<1>3. Append(s, x) = s \o <<x>>
  BY AppendIsConcat
<1> QED
  BY <1>2, <1>3

LEMMA DistinctTail ==
  ASSUME NEW T, NEW s \in Seq(T), s # <<>>, Distinct(s)
  PROVE  Distinct(Tail(s)) /\ Head(s) \notin Elements(Tail(s))
<1> DEFINE N == Len(s)
<1>1. /\ N \in Nat /\ N > 0 /\ DOMAIN s = 1..N
      /\ \A i \in 1..(N - 1) : Tail(s)[i] = s[i + 1]
      /\ Head(s) = s[1]
  BY TailElements, LenProperties
<1>2. DOMAIN Tail(s) = 1..(N - 1)
  <2>1. Tail(s) \in Seq(T) /\ Len(Tail(s)) = N - 1
    BY TailElements
  <2> QED
    BY <2>1, LenProperties
<1> HIDE DEF N
<1>3. \A i \in 1..(N - 1) : i + 1 \in 1..N /\ i + 1 # 1
  BY <1>1
<1>4. ASSUME NEW i \in 1..(N - 1), NEW j \in 1..(N - 1), Tail(s)[i] = Tail(s)[j] PROVE i = j
  <2>1. i + 1 = j + 1
    BY <1>1, <1>3, <1>4 DEF Distinct
  <2> QED
    BY <2>1
<1>5. ASSUME NEW i \in 1..(N - 1) PROVE Tail(s)[i] # Head(s)
  <2>1. 1 \in 1..N
    BY <1>1
  <2> QED
    BY <1>1, <1>3, <2>1 DEF Distinct
<1> QED
  BY <1>2, <1>4, <1>5 DEF Distinct, Elements

LEMMA SingleTail ==
  ASSUME NEW T, NEW q \in Seq(T), q # <<>>, SingleRequests(q)
  PROVE  /\ SingleRequests(Tail(q))
         /\ Head(q).op = "request" =>
              \A t \in Elements(Tail(q)) : t.op = "request" => t.goal # Head(q).goal
<1> DEFINE N == Len(q)
<1>1. /\ N \in Nat /\ N > 0 /\ DOMAIN q = 1..N
      /\ \A i \in 1..(N - 1) : Tail(q)[i] = q[i + 1]
      /\ Head(q) = q[1]
  BY TailElements, LenProperties
<1>2. DOMAIN Tail(q) = 1..(N - 1)
  <2>1. Tail(q) \in Seq(T) /\ Len(Tail(q)) = N - 1
    BY TailElements
  <2> QED
    BY <2>1, LenProperties
<1> HIDE DEF N
<1>3. \A i \in 1..(N - 1) : i + 1 \in 1..N /\ i + 1 # 1
  BY <1>1
<1>4. ASSUME NEW i \in 1..(N - 1), NEW j \in 1..(N - 1),
             Tail(q)[i].op = "request", Tail(q)[j].op = "request",
             Tail(q)[i].goal = Tail(q)[j].goal
      PROVE  i = j
  <2>1. i + 1 = j + 1
    BY <1>1, <1>3, <1>4 DEF SingleRequests
  <2> QED
    BY <2>1
<1>5. ASSUME Head(q).op = "request", NEW i \in 1..(N - 1), Tail(q)[i].op = "request"
      PROVE  Tail(q)[i].goal # Head(q).goal
  <2>1. 1 \in 1..N
    BY <1>1
  <2> QED
    BY <1>1, <1>3, <1>5, <2>1 DEF SingleRequests
<1> QED
  BY <1>2, <1>4, <1>5 DEF SingleRequests, Elements

LEMMA SingleConcat ==
  ASSUME NEW T, NEW q \in Seq(T), NEW u \in Seq(T), SingleRequests(q), SingleRequests(u),
         \A t \in Elements(q), w \in Elements(u) :
           t.op = "request" /\ w.op = "request" => t.goal # w.goal
  PROVE  SingleRequests(q \o u)
<1> DEFINE r == q \o u
           L == Len(q)
           M == Len(u)
<1>1. /\ L \in Nat /\ M \in Nat /\ DOMAIN q = 1..L /\ DOMAIN u = 1..M
      /\ \A i \in 1..(L + M) : r[i] = IF i <= L THEN q[i] ELSE u[i - L]
  BY ConcatProperties, LenProperties
<1>2. DOMAIN r = 1..(L + M)
  <2>1. r \in Seq(T) /\ Len(r) = L + M
    BY ConcatProperties
  <2> HIDE DEF r, L, M
  <2>2. DOMAIN r = 1..Len(r)
    BY ONLY <2>1, LenProperties
  <2> QED
    BY <2>1, <2>2
<1> HIDE DEF r, L, M
<1>3. ASSUME NEW i \in 1..(L + M)
      PROVE  \/ i \in 1..L /\ r[i] = q[i] /\ r[i] \in Elements(q)
             \/ i - L \in 1..M /\ r[i] = u[i - L] /\ r[i] \in Elements(u)
  <2>1. CASE i <= L
    BY <1>1, <2>1 DEF Elements
  <2>2. CASE ~(i <= L)
    <3>1. i - L \in 1..M /\ r[i] = u[i - L]
      BY <1>1, <2>2
    <3> QED
      BY <1>1, <3>1 DEF Elements
  <2> QED
    BY <2>1, <2>2
<1>4. ASSUME NEW i \in 1..(L + M), NEW j \in 1..(L + M),
             r[i].op = "request", r[j].op = "request", r[i].goal = r[j].goal
      PROVE  i = j
  <2>1. CASE i \in 1..L /\ r[i] = q[i] /\ r[i] \in Elements(q)
    <3>1. j \in 1..L /\ r[j] = q[j]
      BY <1>3, <1>4, <2>1
    <3> QED
      BY <1>1, <1>4, <2>1, <3>1 DEF SingleRequests
  <2>2. CASE i - L \in 1..M /\ r[i] = u[i - L] /\ r[i] \in Elements(u)
    <3>1. j - L \in 1..M /\ r[j] = u[j - L]
      BY <1>3, <1>4, <2>2
    <3>2. i - L = j - L
      BY <1>1, <1>4, <2>2, <3>1 DEF SingleRequests
    <3> QED
      BY <1>1, <3>2
  <2> QED
    BY <1>3, <2>1, <2>2
<1> QED
  BY <1>2, <1>4 DEF SingleRequests, r

(* Tasks for goals that are all different.                                 *)
LEMMA SingleTasks ==
  ASSUME NEW sent \in Seq(Goals), Distinct(sent),
         NEW q, q = [i \in DOMAIN sent |-> Task("request", sent[i], owner)]
  PROVE  SingleRequests(q)
<1>1. DOMAIN q = DOMAIN sent /\ \A i \in DOMAIN sent : q[i].goal = sent[i]
  BY DEF Task
<1> QED
  BY <1>1 DEF SingleRequests, Distinct

(* What is on its way to a server does not change, but for requests that   *)
(* leave, and what is pending or fresh was so before.                      *)
LEMMA NothingSent ==
  ASSUME FlowInv, CopyInv, requests' = requests, SingleRequests(strand'),
         \A s \in Servers : Carried(Elements(strand'), s) \subseteq Carried(Elements(strand), s),
         BeingHandled' \subseteq BeingHandled,
         asked' # Nobody /\ phase' = "recalls" => Distinct(tmp'),
         \A g \in Elements(pending') : Waits(g),
         \A g \in Goals : Fresh(g)' => Fresh(g)
  PROVE  CopyInv' /\ NoneBack
<1>1. \A s \in Servers : Requested(s)' \subseteq Requested(s)
  BY RequestedSet
<1>2. CopyInv'
  BY <1>1 DEF CopyInv
<1>3. ASSUME NEW g \in Goals, Waits(g)' PROVE Waits(g)
  <2>1. CASE Fresh(g)' \/ g \in Elements(pending')
    BY <2>1 DEF Waits
  <2>2. CASE Busy(g)'
    BY <1>1, <2>2 DEF Waits, Busy
  <2> QED
    BY <1>3, <2>1, <2>2 DEF Waits
<1> QED
  BY <1>2, <1>3 DEF NoneBack

LEMMA CopiesAtRest ==
  ASSUME FlowInv, CopyInv, UNCHANGED <<pending, strand, requests, said>>,
         BeingHandled' \subseteq BeingHandled,
         asked' # Nobody /\ phase' = "recalls" => Distinct(tmp')
  PROVE  CopyInv' /\ NoneBack
<1>1. SingleRequests(strand')
  BY DEF CopyInv
<1>2. \A s \in Servers : Carried(Elements(strand'), s) \subseteq Carried(Elements(strand), s)
  OBVIOUS
<1>3. \A g \in Elements(pending') : Waits(g)
  BY DEF Waits
<1>4. \A g \in Goals : Fresh(g)' => Fresh(g)
  BY DEF Fresh
<1> QED
  BY <1>1, <1>2, <1>3, <1>4, NothingSent

LEMMA OwnersKeepCopies ==
  ASSUME FlowInv, CopyInv,
         \/ \E q \in Servers, f \in BOOLEAN : Provide(q, f)
         \/ \E q \in Servers : Unprovide(q)
         \/ UNCHANGED vars
  PROVE  CopyInv' /\ NoneBack
<1>1. UNCHANGED <<pending, strand, requests, said, asked, phase, tmp>>
  BY DEF Provide, Unprovide, vars, queueVars, boxes, asking, histories
<1>2. BeingHandled' \subseteq BeingHandled
  BY <1>1 DEF BeingHandled
<1>3. asked' # Nobody /\ phase' = "recalls" => Distinct(tmp')
  BY <1>1 DEF CopyInv
<1> QED
  BY <1>1, <1>2, <1>3, CopiesAtRest

LEMMA AskingKeepsCopies ==
  ASSUME FlowInv, CopyInv, (\E q \in Servers : Ask(q)) \/ Answer \/ HandlerThrows \/ FlushRecalls
  PROVE  CopyInv' /\ NoneBack
<1>1. UNCHANGED <<pending, strand, requests, said>>
  BY DEF Ask, Answer, HandlerThrows, FlushRecalls, queueVars, boxes, histories
<1>2. asked' = Nobody \/ phase' # "recalls"
  BY DEF Ask, Answer, HandlerThrows, FlushRecalls
<1>3. BeingHandled' \subseteq BeingHandled
  BY <1>2 DEF BeingHandled
<1>4. asked' # Nobody /\ phase' = "recalls" => Distinct(tmp')
  BY <1>2
<1> QED
  BY <1>1, <1>3, <1>4, CopiesAtRest

(* A goal whose handler was called is nowhere any more.                    *)
LEMMA HandledLeaves ==
  ASSUME FlowInv, CopyInv, UNCHANGED <<pending, strand, requests, said>>,
         NEW h \in Goals, h \in BeingHandled, h \notin BeingHandled'
  PROVE  Waits(h) /\ ~Waits(h)'
<1>1. TypeOK /\ OnePlace /\ FreshNowhere
  BY DEF FlowInv
<1>2. Busy(h)
  BY DEF Busy
<1>3. ~Fresh(h) /\ h \notin Elements(pending)
  BY <1>1, <1>2, OnePlaceBusy DEF FreshNowhere
<1>4. \A s \in Servers : h \notin Requested(s)
  BY DEF CopyInv
<1>5. \A s \in Servers : Requested(s)' = Requested(s)
  BY DEF Requested
<1>6. ~Fresh(h)' /\ h \notin Elements(pending')
  BY <1>3 DEF Fresh
<1> QED
  BY <1>2, <1>4, <1>5, <1>6 DEF Waits, Busy

(* The handler of h, a goal that was requested, is called, with success or *)
(* not.                                                                    *)
HandlesRequest(h) == (Handle \/ HandlerThrows) /\ phase = "recalls" /\ h = Head(tmp)

LEMMA HandleIsLast ==
  ASSUME FlowInv, CopyInv, NEW h \in Goals, HandlesRequest(h)
  PROVE  Waits(h) /\ ~Waits(h)'
<1>1. /\ asked # Nobody /\ tmp # <<>> /\ tmp \in Seq(Goals) /\ phase = "recalls" /\ h = Head(tmp)
      /\ UNCHANGED <<pending, strand, requests, said>>
  BY DEF FlowInv, HandlesRequest, Handle, HandlerThrows, queueVars, boxes, TypeOK
<1>2. h \in Elements(tmp) /\ Distinct(tmp)
  BY <1>1, TailElements DEF CopyInv
<1>3. h \notin BeingHandled'
  <2>1. CASE Handle
    <3>1. h \notin Elements(Tail(tmp))
      BY <1>1, <1>2, DistinctTail
    <3> QED
      BY <2>1, <3>1 DEF Handle, BeingHandled
  <2>2. CASE HandlerThrows
    BY <2>2 DEF HandlerThrows, BeingHandled
  <2> QED
    BY <2>1, <2>2 DEF HandlesRequest
<1>4. h \in BeingHandled
  BY <1>1, <1>2 DEF BeingHandled
<1> QED
  BY <1>1, <1>3, <1>4, HandledLeaves

LEMMA HandleKeepsCopies ==
  ASSUME FlowInv, CopyInv, Handle
  PROVE  CopyInv' /\ NoneBack
<1>1. /\ asked # Nobody /\ tmp # <<>> /\ tmp' = Tail(tmp) /\ tmp \in Seq(Goals)
      /\ UNCHANGED <<pending, strand, requests, said, asked, phase>>
  BY DEF FlowInv, Handle, queueVars, boxes, TypeOK
<1>2. /\ Elements(tmp') \subseteq Elements(tmp)
      /\ Distinct(tmp) => Distinct(tmp')
  BY <1>1, TailElements, DistinctTail
<1>3. BeingHandled' \subseteq BeingHandled
  BY <1>1, <1>2 DEF BeingHandled
<1>4. asked' # Nobody /\ phase' = "recalls" => Distinct(tmp')
  BY <1>1, <1>2 DEF CopyInv
<1> QED
  BY <1>1, <1>3, <1>4, CopiesAtRest

(* Posts and recalls, from whichever thread, put nothing in the strand but *)
(* themselves.                                                             *)
LEMMA ClientKeepsCopies ==
  ASSUME FlowInv, CopyInv, UNCHANGED <<requests, asked, phase, tmp>>, SingleRequests(strand'),
         \A s \in Servers : Carried(Elements(strand'), s) \subseteq Carried(Elements(strand), s),
         \A g \in Elements(pending') : Waits(g),
         \A g \in Goals : Fresh(g)' => Fresh(g)
  PROVE  CopyInv' /\ NoneBack
<1>1. BeingHandled' \subseteq BeingHandled
  BY DEF BeingHandled
<1>2. asked' # Nobody /\ phase' = "recalls" => Distinct(tmp')
  BY DEF CopyInv
<1> QED
  BY <1>1, <1>2, NothingSent

LEMMA DirectCallsKeepCopies ==
  ASSUME FlowInv, CopyInv, NEW g \in Goals, PostGoal(g) \/ PostRecall(g)
  PROVE  CopyInv' /\ NoneBack
<1>1. /\ TypeOK /\ PendingSorted /\ Distinct(pending) /\ said \in [Goals -> {"nothing", "posted", "recalled"}]
  BY DEF FlowInv, OnePlace, Distinct, TypeOK
<1>2. /\ strand' = strand /\ strand = <<>> /\ UNCHANGED <<lb, asked, phase, tmp>>
      /\ \A h \in Goals : said'[h] = "nothing" => said[h] = "nothing"
  BY <1>1 DEF PostGoal, PostRecall, asking
<1>3. requests' = requests /\ \A h \in Elements(pending') : Waits(h)
  <2>1. CASE PostGoal(g)
    <3>1. Fresh(g) /\ Post(g)
      BY <2>1 DEF PostGoal, Fresh
    <3>2. g \notin Elements(pending)
      BY <3>1 DEF FlowInv, FreshNowhere
    <3>3. requests' = requests /\ Elements(pending') = Elements(pending) \cup {g}
      BY <1>1, <1>2, <3>1, <3>2, PostQueue
    <3> QED
      BY <3>1, <3>3 DEF Waits
  <2>2. CASE PostRecall(g)
    <3>1. Recall(g)
      BY <2>2 DEF PostRecall
    <3>2. requests' = requests /\ Elements(pending') = Elements(pending) \ {g}
      BY <1>1, <1>2, <3>1, RecallQueue, RecallType
    <3> QED
      BY <3>2 DEF Waits
  <2> QED
    BY <2>1, <2>2
<1>4. \A h \in Goals : Fresh(h)' => Fresh(h)
  BY <1>2 DEF Fresh
<1>5. SingleRequests(strand')
  BY <1>2 DEF CopyInv
<1>6. \A s \in Servers : Carried(Elements(strand'), s) \subseteq Carried(Elements(strand), s)
  BY <1>2
<1> QED
  BY <1>2, <1>3, <1>4, <1>5, <1>6, ClientKeepsCopies

LEMMA OtherCallsKeepCopies ==
  ASSUME FlowInv, CopyInv, NEW g \in Goals, CallPostGoal(g) \/ CallPostRecall(g)
  PROVE  CopyInv' /\ NoneBack
<1>1. /\ strand \in Seq(TaskSet) /\ said \in [Goals -> {"nothing", "posted", "recalled"}]
      /\ \A t \in Elements(strand) : t.op = "post" => said[t.goal] = "posted"
  BY DEF FlowInv, TypeOK, TaskSet, TasksAreCurrent, TaskIsCurrent
<1>2. PICK op \in {"post", "recall"} :
        /\ strand' = Append(strand, Task(op, g, Nobody))
        /\ op = "post" => said[g] = "nothing"
        /\ \A h \in Goals : said'[h] = "nothing" => said[h] = "nothing"
        /\ UNCHANGED <<pending, requests, asked, phase, tmp>>
  <2>1. CASE CallPostGoal(g)
    BY <1>1, <2>1 DEF CallPostGoal, queueVars, boxes, asking
  <2>2. CASE CallPostRecall(g)
    <3>1. /\ strand' = Append(strand, Task("recall", g, Nobody))
          /\ said' = [said EXCEPT ![g] = "recalled"]
          /\ UNCHANGED <<pending, requests, asked, phase, tmp>>
      BY <2>2 DEF CallPostRecall, queueVars, boxes, asking
    <3>2. "recall" \in {"post", "recall"} /\ "recall" # "post"
      OBVIOUS
    <3>3. \A h \in Goals : said'[h] = "nothing" => said[h] = "nothing"
      BY <1>1, <3>1
    <3> QED
      BY <3>1, <3>2, <3>3
  <2> QED
    BY <2>1, <2>2
<1> DEFINE x == Task(op, g, Nobody)
<1>3. x \in TaskSet /\ x.op = op /\ x.goal = g
  BY DEF Task, TaskSet, Operations
<1> HIDE DEF x
<1>4. Elements(strand') = Elements(strand) \cup {x}
  BY <1>1, <1>2, <1>3, AppendElements DEF x
<1>5. SingleRequests(strand')
  <2>1. /\ <<x>> \in Seq(TaskSet) /\ SingleRequests(<<x>>)
        /\ \A t \in Elements(strand), w \in Elements(<<x>>) :
             t.op = "request" /\ w.op = "request" => t.goal # w.goal
    BY <1>3 DEF SingleRequests, Elements
  <2>2. strand' = strand \o <<x>>
    BY <1>1, <1>2, <1>3, AppendIsConcat DEF x
  <2>3. SingleRequests(strand)
    BY DEF CopyInv
  <2> QED
    BY <1>1, <2>1, <2>2, <2>3, SingleConcat
<1>6. \A s \in Servers : Carried(Elements(strand'), s) \subseteq Carried(Elements(strand), s)
  BY <1>3, <1>4 DEF Carried
<1>7. ASSUME NEW h \in Goals, Fresh(h)' PROVE Fresh(h)
  <2>1. CASE said'[h] = "nothing"
    BY <1>2, <2>1 DEF Fresh
  <2>2. CASE said'[h] # "nothing"
    <3>1. PICK t \in Elements(strand) \cup {x} : t.op = "post" /\ t.goal = h
      BY <1>4, <1>7, <2>2 DEF Fresh
    <3>2. CASE t \in Elements(strand)
      BY <3>1, <3>2 DEF Fresh
    <3>3. CASE t = x
      BY <1>2, <1>3, <3>1, <3>3 DEF Fresh
    <3> QED
      BY <3>1, <3>2, <3>3
  <2> QED
    BY <2>1, <2>2
<1>8. \A h \in Elements(pending') : Waits(h)
  BY <1>2 DEF Waits
<1> QED
  BY <1>2, <1>5, <1>6, <1>7, <1>8, ClientKeepsCopies

LEMMA RunTasksKeepCopies ==
  ASSUME FlowInv, CopyInv, RunPost \/ RunRecall
  PROVE  CopyInv' /\ NoneBack
<1> DEFINE g == Head(strand).goal
<1>1. TypeOK /\ PendingSorted /\ Distinct(pending)
  BY DEF FlowInv, OnePlace, Distinct
<1>2. /\ strand # <<>> /\ strand' = Tail(strand)
      /\ UNCHANGED <<lb, asked, phase, tmp, said>>
  BY DEF RunPost, RunRecall, asking, histories
<1>3. /\ strand \in Seq(TaskSet) /\ Head(strand) \in TaskSet /\ Head(strand) \in Elements(strand)
      /\ Elements(strand') \subseteq Elements(strand)
  BY <1>2, FirstTask
<1>4. g \in Goals
  BY <1>3 DEF TaskSet
<1>5. requests' = requests /\ \A h \in Elements(pending') : Waits(h)
  <2>1. CASE RunPost
    <3>1. Fresh(g) /\ Post(g)
      BY <1>3, <2>1 DEF RunPost, Fresh
    <3>2. g \notin Elements(pending)
      BY <1>4, <3>1 DEF FlowInv, FreshNowhere
    <3> HIDE DEF g
    <3>3. requests' = requests /\ Elements(pending') = Elements(pending) \cup {g}
      BY <1>1, <1>2, <1>4, <3>1, <3>2, PostQueue
    <3> QED
      BY <3>1, <3>3 DEF Waits
  <2>2. CASE RunRecall
    <3>1. Recall(g)
      BY <2>2 DEF RunRecall
    <3> HIDE DEF g
    <3>2. requests' = requests /\ Elements(pending') = Elements(pending) \ {g}
      BY <1>1, <1>2, <1>4, <3>1, RecallQueue, RecallType
    <3> QED
      BY <3>2 DEF Waits
  <2> QED
    BY <2>1, <2>2
<1>6. SingleRequests(strand')
  BY <1>2, <1>3, SingleTail DEF CopyInv
<1>7. \A s \in Servers : Carried(Elements(strand'), s) \subseteq Carried(Elements(strand), s)
  BY <1>3 DEF Carried
<1>8. \A h \in Goals : Fresh(h)' => Fresh(h)
  BY <1>2, <1>3 DEF Fresh
<1> QED
  BY <1>2, <1>5, <1>6, <1>7, <1>8, ClientKeepsCopies

(* What a server is to see to did not become more: when the strand and the *)
(* lists change, that is what remains to be shown.                         *)
LEMMA NoneBackFrame ==
  ASSUME \A g \in Elements(pending') : Waits(g),
         \A g \in Goals : Fresh(g)' => Fresh(g),
         \A s \in Servers : \A g \in Requested(s)' : Waits(g),
         \A g \in BeingHandled' : Waits(g)
  PROVE  NoneBack
<1> SUFFICES ASSUME NEW g \in Goals, Waits(g)' PROVE Waits(g)
  BY DEF NoneBack
<1>1. CASE Fresh(g)' \/ g \in Elements(pending')
  BY <1>1 DEF Waits
<1>2. CASE Busy(g)'
  BY <1>2 DEF Busy
<1> QED
  BY <1>1, <1>2 DEF Waits

LEMMA RunRequestKeepsCopies ==
  ASSUME FlowInv, CopyInv, RunRequest
  PROVE  CopyInv' /\ NoneBack
<1> DEFINE t == Head(strand)
           g == t.goal
           q == t.to
<1>1. /\ TypeOK /\ OnePlace
      /\ SingleRequests(strand)
  BY DEF FlowInv, CopyInv
<1>2. /\ strand # <<>> /\ t.op = "request" /\ strand' = Tail(strand)
      /\ requests' = [requests EXCEPT ![q] = Append(@, g)]
      /\ UNCHANGED <<pending, asked, phase, tmp, said>>
  BY DEF RunRequest, queueVars, asking, histories
<1>3. /\ strand \in Seq(TaskSet) /\ t \in TaskSet /\ t \in Elements(strand)
      /\ Elements(strand) = Elements(strand') \cup {t}
      /\ TaskIsCurrent(t)
  BY <1>2, FirstTask
<1>4. g \in Goals /\ q \in Servers
  BY <1>2, <1>3 DEF TaskSet, TaskIsCurrent
<1>5. requests \in [Servers -> Seq(Goals)] /\ requests[q] \in Seq(Goals)
  BY <1>1, <1>4 DEF TypeOK
<1>6. /\ SingleRequests(strand')
      /\ \A u \in Elements(strand') : u.op = "request" => u.goal # g
  BY <1>1, <1>2, <1>3, SingleTail
<1>7. /\ Carried(Elements(strand), q) = Carried(Elements(strand'), q) \cup {g}
      /\ \A s \in Servers : s # q => Carried(Elements(strand), s) = Carried(Elements(strand'), s)
      /\ g \notin Carried(Elements(strand'), q)
  BY <1>2, <1>3, <1>6 DEF Carried
<1>8. \A h \in Goals : Fresh(h)' => Fresh(h)
  BY <1>2, <1>3 DEF Fresh
<1> HIDE DEF t, g, q
<1>9. /\ requests'[q] = Append(requests[q], g)
      /\ \A s \in Servers : s # q => requests'[s] = requests[s]
  BY <1>2, <1>4, <1>5
<1>10. Elements(requests'[q]) = Elements(requests[q]) \cup {g}
  BY <1>4, <1>5, <1>9, AppendElements
<1>11. \A s \in Servers : Requested(s)' = Requested(s)
  <2> TAKE s \in Servers
  <2>1. CASE s = q
    BY <1>7, <1>10, <2>1, RequestedSet
  <2>2. CASE s # q
    BY <1>7, <1>9, <2>2, RequestedSet
  <2> QED
    BY <2>1, <2>2
<1>12. Distinct(requests'[q])
  <2>1. Distinct(requests[q]) /\ g \notin Elements(requests[q])
    BY <1>4, <1>7 DEF CopyInv
  <2> QED
    BY <1>4, <1>5, <1>9, <2>1, DistinctAppend
<1>13. CopyInv'
  <2>1. \A s \in Servers : Distinct(requests'[s])
    BY <1>9, <1>12 DEF CopyInv
  <2>2. ASSUME NEW s \in Servers
        PROVE  Carried(Elements(strand'), s) \cap Elements(requests'[s]) = {}
    <3>1. CASE s = q
      BY <1>4, <1>7, <1>10, <3>1 DEF CopyInv
    <3>2. CASE s # q
      BY <1>7, <1>9, <3>2 DEF CopyInv
    <3> QED
      BY <3>1, <3>2
  <2>3. BeingHandled' = BeingHandled
    BY <1>2 DEF BeingHandled
  <2>4. \A s \in Servers : BeingHandled' \cap Requested(s)' = {}
    BY <1>11, <2>3 DEF CopyInv
  <2>5. asked' # Nobody /\ phase' = "recalls" => Distinct(tmp')
    BY <1>2 DEF CopyInv
  <2> QED
    BY <1>6, <2>1, <2>2, <2>4, <2>5 DEF CopyInv
<1>14. NoneBack
  <2>1. \A h \in Elements(pending') : Waits(h)
    BY <1>2 DEF Waits
  <2>2. \A s \in Servers : \A h \in Requested(s)' : Waits(h)
    BY <1>11 DEF Waits, Busy
  <2>3. \A h \in BeingHandled' : Waits(h)
    BY <1>2 DEF Waits, Busy, BeingHandled
  <2> QED
    BY <1>8, <2>1, <2>2, <2>3, NoneBackFrame
<1> QED
  BY <1>13, <1>14

(* goal_flush on an empty strand: the whole list is to be handled.         *)
LEMMA FlushKeepsCopies ==
  ASSUME FlowInv, CopyInv, FlushRequests
  PROVE  CopyInv' /\ NoneBack
<1>1. /\ TypeOK /\ OnePlace /\ asked \in Servers /\ phase = "requests" /\ tmp = <<>>
  BY DEF FlowInv, FlushRequests, TypeOK, HandlingOnlyWhenAsked
<1>2. /\ phase' = "recalls" /\ asked' = asked
      /\ UNCHANGED <<pending, strand, said>>
  BY DEF FlushRequests, queueVars, histories
<1>3. CASE UNCHANGED <<tmp, requests, have>>
  <2>1. tmp' = <<>>
    BY <1>1, <1>3
  <2>2. BeingHandled' \subseteq BeingHandled
    BY <1>2, <2>1 DEF BeingHandled, Elements
  <2>3. Distinct(tmp')
    BY <2>1 DEF Distinct
  <2> QED
    BY <1>2, <1>3, <2>2, <2>3, CopiesAtRest
<1>4. CASE /\ strand = <<>>
           /\ tmp' = requests[asked]
           /\ requests' = [requests EXCEPT ![asked] = <<>>]
  <2>1. requests \in [Servers -> Seq(Goals)]
    BY <1>1 DEF TypeOK
  <2>2. /\ requests'[asked] = <<>>
        /\ \A s \in Servers : s # asked => requests'[s] = requests[s]
    BY <1>1, <1>4, <2>1
  <2>3. \A s \in Servers : Carried(Elements(strand'), s) = {}
    BY <1>2, <1>4 DEF Carried, Elements
  <2> PICK q \in Servers : q = asked
    BY <1>1
  <2>4. BeingHandled' = Requested(q)
    <3>1. BeingHandled' = Elements(requests[asked])
      BY <1>1, <1>2, <1>4, GoalFlowAssumption DEF BeingHandled
    <3>2. Requested(q) = Elements(requests[asked])
      BY <1>1, <1>2, <2>3, RequestedSet
    <3> QED
      BY <3>1, <3>2
  <2>5. /\ Requested(q)' = {}
        /\ \A s \in Servers : s # q => Requested(s)' = Requested(s)
    <3>1. Elements(<<>>) = {}
      BY DEF Elements
    <3>2. Requested(q)' = {}
      BY <1>2, <1>1, <2>2, <2>3, <3>1, RequestedSet
    <3>3. \A s \in Servers : s # q => Requested(s)' = Requested(s)
      BY <1>2, <2>2, RequestedSet
    <3> QED
      BY <3>2, <3>3
  <2>6. CopyInv'
    <3>1. SingleRequests(strand') /\ Distinct(tmp')
      BY <1>1, <1>2, <1>4 DEF CopyInv
    <3>2. \A s \in Servers : Distinct(requests'[s])
      BY <2>2 DEF CopyInv, Distinct
    <3>3. \A s \in Servers : Carried(Elements(strand'), s) \cap Elements(requests'[s]) = {}
      BY <2>3
    <3>4. \A s \in Servers : BeingHandled' \cap Requested(s)' = {}
      BY <1>1, <2>4, <2>5 DEF OnePlace
    <3> QED
      BY <3>1, <3>2, <3>3, <3>4 DEF CopyInv
  <2>7. NoneBack
    <3>1. \A h \in Elements(pending') : Waits(h)
      BY <1>2 DEF Waits
    <3>2. \A h \in Goals : Fresh(h)' => Fresh(h)
      BY <1>2 DEF Fresh
    <3>3. \A s \in Servers : \A h \in Requested(s)' : Waits(h)
      BY <2>5 DEF Waits, Busy
    <3>4. \A h \in BeingHandled' : Waits(h)
      BY <1>1, <2>4 DEF Waits, Busy
    <3> QED
      BY <3>1, <3>2, <3>3, <3>4, NoneBackFrame
  <2> QED
    BY <2>6, <2>7
<1> QED
  BY <1>3, <1>4 DEF FlushRequests

(* What a dispatch sends was pending, once, hence on its way to nobody.    *)
LEMMA SentOnce ==
  ASSUME FlowInv, NEW n \in Nat, NEW R, Dispatch(n, R)
  PROVE  /\ Sent(n, R) \in Seq(Goals) /\ Distinct(Sent(n, R))
         /\ Elements(Sent(n, R)) = Due(n) \ R
         /\ \A g \in Due(n) \ R : g \in Elements(pending) /\ ~Busy(g)
<1>1. /\ TypeOK /\ PendingSorted /\ OnePlace /\ Distinct(pending) /\ pending \in Seq(Goals)
  BY DEF FlowInv, OnePlace, Distinct, TypeOK
<1>2. /\ Sent(n, R) \in Seq(Goals) /\ Elements(Sent(n, R)) = Due(n) \ R
      /\ Due(n) \subseteq Elements(pending)
  BY <1>1, DispatchQueue
<1>3. Distinct(Sent(n, R))
  BY <1>1, DistinctKept DEF Sent
<1> QED
  BY <1>1, <1>2, <1>3, OnePlaceBusy

(* Nothing is being handled when a dispatch runs, and what comes on its    *)
(* way by it was pending.                                                  *)
LEMMA DispatchKeepsCopies ==
  ASSUME FlowInv, CopyInv, NEW n \in Nat, NEW R, Dispatch(n, R), asked = Nobody,
         SingleRequests(strand'),
         \A s \in Servers : Distinct(requests'[s]),
         \A s \in Servers : Carried(Elements(strand'), s) \cap Elements(requests'[s]) = {},
         \A s \in Servers :
           Carried(Elements(strand'), s) \cup Elements(requests'[s]) =
             Carried(Elements(strand), s) \cup Elements(requests[s])
               \cup (IF s = owner THEN Due(n) \ R ELSE {}),
         \A h \in Goals : Fresh(h)' => Fresh(h)
  PROVE  CopyInv' /\ NoneBack
<1>1. TypeOK /\ PendingSorted /\ Distinct(pending)
  BY DEF FlowInv, OnePlace, Distinct
<1>2. /\ Elements(pending') \subseteq Elements(pending)
      /\ Due(n) \subseteq Elements(pending)
  BY <1>1, DispatchQueue
<1>3. asked' = Nobody
  BY DEF Dispatch
<1>4. BeingHandled' = {}
  BY <1>3 DEF BeingHandled
<1>5. CopyInv'
  BY <1>3, <1>4 DEF CopyInv
<1>6. \A s \in Servers : Requested(s)' \subseteq Requested(s) \cup Due(n)
  BY RequestedSet
<1>7. \A s \in Servers : \A h \in Requested(s)' : Waits(h)
  BY <1>2, <1>6 DEF Waits, Busy
<1>8. \A h \in Elements(pending') : Waits(h)
  BY <1>2 DEF Waits
<1>9. \A h \in BeingHandled' : Waits(h)
  BY <1>4
<1> QED
  BY <1>5, <1>7, <1>8, <1>9, NoneBackFrame

LEMMA TickKeepsCopies ==
  ASSUME FlowInv, CopyInv, NEW R, NewTick(R)
  PROVE  CopyInv' /\ NoneBack
<1>1. PICK n \in Nat :
        /\ n = now' /\ Dispatch(n, R) /\ asked = Nobody /\ strand' = strand
        /\ \A s \in Servers :
             Carried(Elements(strand'), s) \cup Elements(requests'[s]) =
               Carried(Elements(strand), s) \cup Elements(requests[s])
                 \cup (IF s = owner THEN Due(n) \ R ELSE {})
  BY TickSends
<1> DEFINE sent == Sent(n, R)
<1>2. AtOnce(sent)
  BY <1>1 DEF NewTick
<1>3. /\ sent \in Seq(Goals) /\ Distinct(sent) /\ Elements(sent) = Due(n) \ R
      /\ \A g \in Due(n) \ R : ~Busy(g)
  BY <1>1, SentOnce
<1>4. /\ requests \in [Servers -> Seq(Goals)] /\ owner \in Servers \cup {Nobody}
      /\ said' = said
  BY DEF FlowInv, TypeOK, NewTick, Dispatch
<1>5. Due(n) # {} => owner \in Servers
  BY <1>4 DEF Due, Accepts
<1> HIDE DEF sent
<1>6. ASSUME NEW s \in Servers PROVE Distinct(requests'[s])
  <2>1. CASE sent = <<>> \/ s # owner
    <3>1. requests'[s] = requests[s]
      BY <1>2, <1>4, <2>1 DEF AtOnce
    <3> QED
      BY <3>1 DEF CopyInv
  <2>2. CASE sent # <<>> /\ s = owner
    <3>1. requests'[s] = requests[s] \o sent /\ requests[s] \in Seq(Goals)
      BY <1>2, <1>4, <2>2 DEF AtOnce
    <3>2. Elements(requests[s]) \cap Elements(sent) = {}
      <4>1. Elements(requests[s]) \subseteq Requested(s)
        BY RequestedSet
      <4> QED
        BY <1>3, <4>1 DEF Busy
    <3>3. Distinct(requests[s])
      BY DEF CopyInv
    <3> QED
      BY <1>3, <3>1, <3>2, <3>3, DistinctConcat
  <2> QED
    BY <2>1, <2>2
<1>7. \A s \in Servers : Carried(Elements(strand'), s) = {}
  BY <1>1 DEF NewTick, Carried, Elements
<1>8. SingleRequests(strand')
  BY <1>1 DEF CopyInv
<1>9. \A h \in Goals : Fresh(h)' => Fresh(h)
  BY <1>1, <1>4 DEF Fresh
<1> QED
  BY <1>1, <1>6, <1>7, <1>8, <1>9, DispatchKeepsCopies

LEMMA AheadKeepsCopies ==
  ASSUME FlowInv, CopyInv, NEW R, DispatchAhead(R)
  PROVE  CopyInv' /\ NoneBack
<1>1. PICK n \in Nat :
        /\ n = now + 1 /\ Dispatch(n, R) /\ asked = Nobody
        /\ \A t \in Elements(strand') :
             t \in Elements(strand) \/ (t.op = "request" /\ t.goal \in Due(n) \ R)
        /\ \A s \in Servers :
             Carried(Elements(strand'), s) \cup Elements(requests'[s]) =
               Carried(Elements(strand), s) \cup Elements(requests[s])
                 \cup (IF s = owner THEN Due(n) \ R ELSE {})
  BY AheadSends
<1> DEFINE sent == Sent(n, R)
           tasks == [i \in DOMAIN sent |-> Task("request", sent[i], owner)]
<1>2. strand' = strand \o tasks /\ requests' = requests
  BY <1>1 DEF DispatchAhead, ByTasks
<1>3. /\ sent \in Seq(Goals) /\ Distinct(sent) /\ Elements(sent) = Due(n) \ R
      /\ \A g \in Due(n) \ R : ~Busy(g)
  BY <1>1, SentOnce
<1>4. /\ TypeOK /\ strand \in Seq(TaskSet) /\ said' = said
      /\ SingleRequests(strand)
      /\ \A t \in Elements(strand) : t.op = "request" => t.to \in Servers
  BY <1>1 DEF FlowInv, TypeOK, TaskSet, Dispatch, CopyInv, TasksAreCurrent, TaskIsCurrent
<1> HIDE DEF sent
<1>5. /\ tasks \in Seq(TaskSet)
      /\ \A t \in Elements(tasks) : t.op = "request" /\ t.to = owner /\ t.goal \in Elements(sent)
  BY <1>3, <1>4, RequestTasks
<1>6. SingleRequests(tasks)
  BY <1>3, SingleTasks
<1> HIDE DEF tasks
<1>7. Elements(strand') = Elements(strand) \cup Elements(tasks)
  BY <1>2, <1>4, <1>5, ConcatElements
<1>8. SingleRequests(strand')
  <2>1. ASSUME NEW t \in Elements(strand), NEW w \in Elements(tasks),
               t.op = "request", w.op = "request"
        PROVE  t.goal # w.goal
    <3>1. t.goal \in Carried(Elements(strand), t.to) /\ t.to \in Servers
      BY <1>4, <2>1 DEF Carried
    <3>2. t.goal \in Requested(t.to)
      BY <3>1, RequestedSet
    <3>3. w.goal \in Due(n) \ R
      BY <1>3, <1>5
    <3> QED
      BY <1>3, <3>1, <3>2, <3>3 DEF Busy
  <2> QED
    BY <1>2, <1>4, <1>5, <1>6, <2>1, SingleConcat
<1>9. \A s \in Servers : Distinct(requests'[s])
  BY <1>2 DEF CopyInv
<1>10. ASSUME NEW s \in Servers
       PROVE  Carried(Elements(strand'), s) \cap Elements(requests'[s]) = {}
  <2>1. Elements(requests[s]) \subseteq Requested(s)
    BY RequestedSet
  <2>2. \A g \in Elements(requests[s]) : g \notin Due(n) \ R
    BY <1>3, <2>1 DEF Busy
  <2>3. Carried(Elements(strand'), s) \subseteq Carried(Elements(strand), s) \cup (Due(n) \ R)
    BY <1>3, <1>5, <1>7 DEF Carried
  <2>4. Carried(Elements(strand), s) \cap Elements(requests[s]) = {}
    BY DEF CopyInv
  <2> QED
    BY <1>2, <2>2, <2>3, <2>4
<1>11. \A h \in Goals : Fresh(h)' => Fresh(h)
  BY <1>4, <1>5, <1>7 DEF Fresh
<1> QED
  BY <1>1, <1>8, <1>9, <1>10, <1>11, DispatchKeepsCopies

LEMMA CopyInvInit == Init => CopyInv
<1> SUFFICES ASSUME Init PROVE CopyInv
  OBVIOUS
<1>1. /\ strand = <<>> /\ asked = Nobody /\ tmp = <<>>
      /\ \A s \in Servers : requests[s] = <<>>
  BY DEF Init
<1>2. Elements(strand) = {} /\ BeingHandled = {}
  BY <1>1 DEF Elements, BeingHandled
<1>3. \A s \in Servers : Carried(Elements(strand), s) = {}
  BY <1>2 DEF Carried
<1> QED
  BY <1>1, <1>2, <1>3 DEF CopyInv, SingleRequests, Distinct

LEMMA CopyInvStep ==
  ASSUME FlowInv, CopyInv, [Next]_vars
  PROVE  CopyInv' /\ NoneBack
<1>1. ASSUME NEW s \in Servers, (\E f \in BOOLEAN : Provide(s, f)) \/ Unprovide(s)
      PROVE  CopyInv' /\ NoneBack
  BY <1>1, OwnersKeepCopies
<1>2. ASSUME NEW g \in Goals, PostGoal(g) \/ PostRecall(g) PROVE CopyInv' /\ NoneBack
  BY <1>2, DirectCallsKeepCopies
<1>3. ASSUME NEW g \in Goals, CallPostGoal(g) \/ CallPostRecall(g) PROVE CopyInv' /\ NoneBack
  BY <1>3, OtherCallsKeepCopies
<1>4. ASSUME NEW R \in SUBSET Goals, DispatchAhead(R) PROVE CopyInv' /\ NoneBack
  BY <1>4, AheadKeepsCopies
<1>5. ASSUME NEW R \in SUBSET Goals, NewTick(R) PROVE CopyInv' /\ NoneBack
  BY <1>5, TickKeepsCopies
<1>6. CASE StrandStep
  BY <1>6, RunRequestKeepsCopies, RunTasksKeepCopies DEF StrandStep
<1>7. ASSUME NEW s \in Servers, Ask(s) PROVE CopyInv' /\ NoneBack
  BY <1>7, AskingKeepsCopies
<1>8. CASE WorkRatioStep
  BY <1>8, FlushKeepsCopies, AskingKeepsCopies, HandleKeepsCopies DEF WorkRatioStep
<1>9. CASE UNCHANGED vars
  BY <1>9, OwnersKeepCopies
<1> QED
  BY <1>1, <1>2, <1>3, <1>4, <1>5, <1>6, <1>7, <1>8, <1>9 DEF Next, AgentStep, Tick

-----------------------------------------------------------------------------
(* The theorems                                                            *)

(* Every variable has its type: in particular the count of the goals a     *)
(* server has to see to never becomes negative, whatever is sent, recalled *)
(* or flushed (TeleoReactor::queue, goal_flush, m_have_goals).             *)
THEOREM TypeCorrect == Spec => []TypeOK
<1>1. FlowInv => TypeOK
  BY DEF FlowInv
<1> QED
  BY <1>1, FlowInvariant, PTL

(* The pending queue stays sorted by cmp_goals, posts, recalls and the     *)
(* restriction of the starts by dispatch notwithstanding: the searches of  *)
(* post_goal and recall, which stop at the first goal that comes after,    *)
(* miss none.                                                              *)
THEOREM QueueSorted == Spec => []PendingSorted
<1>1. FlowInv => PendingSorted
  BY DEF FlowInv
<1> QED
  BY <1>1, FlowInvariant, PTL

(* ... and that is what the code relies on: the search that stops early    *)
(* finds a goal exactly when it is in the queue.                           *)
SearchFindsAll == \A g \in Goals : Found(g) <=> g \in Elements(pending)

THEOREM SearchMissesNone == Spec => []SearchFindsAll
<1>1. FlowInv => SearchFindsAll
  BY FoundWhenPending DEF FlowInv, OnePlace, Distinct, SearchFindsAll
<1> QED
  BY <1>1, FlowInvariant, PTL

(* A goal is at one place of the queue, or on its way to one server, or    *)
(* being handled, but never twice: no goal is requested twice, whatever    *)
(* the threads do, a thread that posts on its own included.                *)
THEOREM OnlyOnePlace == Spec => []OnePlace
<1>1. FlowInv => OnePlace
  BY DEF FlowInv
<1> QED
  BY <1>1, FlowInvariant, PTL

(* m_have_goals is the number of goals in m_sync_goals and m_sync_recalls  *)
(* of its reactor: the test of have_goals(), which is all that makes a     *)
(* work ratio look at the lists, is never wrong.                           *)
THEOREM HaveGoalsExact == Spec => []CountExact
<1>1. FlowInv => CountExact
  BY DEF FlowInv
<1> QED
  BY <1>1, FlowInvariant, PTL

(* When goals are posted and recalled on the thread of the agent only, the *)
(* owner of the timeline has been told the last word of the client about   *)
(* every goal as soon as nothing about it is under way.  The hypothesis is *)
(* needed: with another thread the run goal_race finds a recall overtaken  *)
(* by its request.                                                         *)
THEOREM LastWordKept ==
  ASSUME ~OtherThread
  PROVE  Spec => []LastWordHolds
<1>1. Init => WordInv
  BY WordInvInit
<1>2. FlowInv /\ WordInv /\ [Next]_vars => WordInv'
  BY WordInvStep
<1>3. FlowInv /\ WordInv => LastWordHolds
  BY WordHeld
<1> QED
  BY <1>1, <1>2, <1>3, FlowInvariant, PTL DEF Spec

(* A request is never lost, whatever another thread does: once nothing     *)
(* about a goal is under way, the owner it was sent to knows of it, if the *)
(* client still wants it and no handler threw.  What goal_race shows can   *)
(* leave a server a goal too many, and never one too few.                  *)
THEOREM RequestNeverLost == Spec => []NoRequestLost
<1>1. Init => RequestInv
  BY RequestInvInit
<1>2. FlowInv /\ RequestInv /\ [Next]_vars => RequestInv'
  BY RequestInvStep
<1>3. FlowInv /\ RequestInv => NoRequestLost
  BY RequestHeld
<1> QED
  BY <1>1, <1>2, <1>3, FlowInvariant, PTL DEF Spec

(* handleRequest is called once at most for a goal, whatever another       *)
(* thread does: a goal that is handled, or whose handler threw, waits      *)
(* nowhere any more (neither to be posted, nor in the queue, the strand, a *)
(* list or among the goals flushed), and never waits again.                *)
HandledOnce ==
  [][/\ \A g \in Goals : Waits(g)' => Waits(g)
     /\ \A g \in Goals : HandlesRequest(g) => Waits(g) /\ ~Waits(g)']_vars

THEOREM HandledAtMostOnce == Spec => HandledOnce
<1>1. Init => CopyInv
  BY CopyInvInit
<1>2. FlowInv /\ CopyInv /\ [Next]_vars => CopyInv'
  BY CopyInvStep
<1>3. FlowInv /\ CopyInv /\ [Next]_vars =>
        [/\ \A g \in Goals : Waits(g)' => Waits(g)
         /\ \A g \in Goals : HandlesRequest(g) => Waits(g) /\ ~Waits(g)']_vars
  BY CopyInvStep, HandleIsLast DEF NoneBack
<1> QED
  BY <1>1, <1>2, <1>3, FlowInvariant, PTL DEF Spec, HandledOnce
=============================================================================
