------------------------- MODULE Deliberation_proofs -------------------------
(***************************************************************************)
(* Proofs about Deliberation, for any set of reactors, any latencies, any  *)
(* final tick and any bounds.                                              *)
(*                                                                         *)
(* DelibInv is inductive: what the properties say of a tick under way has  *)
(* to be known of the queues only then, so every conjunct but the types is *)
(* guarded by Scheduling, and StartTick establishes them from nothing.     *)
(* CloserDeadlineFirst is not part of it: it follows from the ratios being *)
(* current, by arithmetic alone.                                           *)
(***************************************************************************)
EXTENDS Deliberation, TLAPS

DelibInv == TypeOK /\ EachReactorOnce /\ RatiosAreCurrent /\ LateMeansBusy

-----------------------------------------------------------------------------
(* Operators                                                               *)

LEMMA DenominatorType ==
  ASSUME NEW d \in Nat, NEW n \in Nat, now \in Nat
  PROVE  Denominator(d, n) \in Int
  BY DEF Denominator

LEMMA NewDeadlineAhead ==
  ASSUME now \in Nat, NEW r \in Reactors
  PROVE  NewDeadline(r) \in Nat /\ NewDeadline(r) > now
  BY DeliberationAssumption DEF NewDeadline

(* What is known after the reactors of S have been asked and those of Q    *)
(* were left alone in m_edf.                                               *)
Asked(Q, S, W) ==
  /\ queued' \in SUBSET Reactors
  /\ den' \in [Reactors -> Int]
  /\ deadline' \in [Reactors -> Nat]
  /\ steps' \in [Reactors -> Nat]
  /\ busy' \in SUBSET Reactors
  /\ queued' = Q \cup W
  /\ \A r \in queued' : r \in busy' /\ den'[r] = Denominator(deadline'[r], steps'[r])
  /\ \A r \in S : deadline'[r] <= now' => r \in busy'
  /\ \A r \in Reactors \ S : deadline'[r] = deadline[r] /\ (r \in busy' <=> r \in busy)

(* Rescan keeps what is known of m_edf and of the deadlines, provided that *)
(* the reactors left in m_edf have not stepped.                            *)
LEMMA RescanKeeps ==
  ASSUME TypeOK, NEW STATE Q, Q \in SUBSET queued, NEW STATE S, S \in SUBSET Reactors,
         NEW W \in SUBSET S, NEW STATE n, n \in [Reactors -> Nat],
         Rescan(Q, S, W, n), now' = now,
         \A r \in Q : r \notin S /\ n[r] = steps[r],
         \A r \in queued : r \in busy /\ den[r] = Denominator(deadline[r], steps[r])
  PROVE  Asked(Q, S, W)
<1>1. now \in Nat /\ Q \in SUBSET Reactors /\ W \in SUBSET Reactors
  BY DEF TypeOK
<1>2. \A r \in Reactors : Denominator(deadline[r], n[r]) \in Int
  BY <1>1, DenominatorType DEF TypeOK
<1>3. \A r \in Reactors : NewDeadline(r) \in Nat /\ NewDeadline(r) > now
  BY <1>1, NewDeadlineAhead
<1>4. queued' \in SUBSET Reactors /\ queued' = Q \cup W
  BY <1>1 DEF Rescan
<1>5. den' \in [Reactors -> Int]
  BY <1>2 DEF Rescan, TypeOK
<1>6. deadline' \in [Reactors -> Nat]
  BY <1>3 DEF Rescan, TypeOK
<1>7. steps' \in [Reactors -> Nat]
  BY DEF Rescan
<1>8. busy' \in SUBSET Reactors
  BY <1>1 DEF Rescan, TypeOK
<1>9. ASSUME NEW r \in queued'
      PROVE  r \in busy' /\ den'[r] = Denominator(deadline'[r], steps'[r])
  <2>1. CASE r \in W
    <3>1. r \in S /\ r \in Reactors
      BY <2>1
    <3>2. den'[r] = Denominator(deadline[r], n[r]) /\ deadline'[r] = deadline[r] /\ steps'[r] = n[r]
      BY <2>1, <3>1 DEF Rescan
    <3>3. r \in busy'
      BY <2>1, <3>1 DEF Rescan
    <3> QED
      BY <3>2, <3>3
  <2>2. CASE r \notin W
    <3>1. r \in Q /\ r \notin S /\ r \in Reactors /\ r \in queued
      BY <1>1, <1>4, <1>9, <2>2
    <3>2. den'[r] = den[r] /\ deadline'[r] = deadline[r] /\ steps'[r] = steps[r]
      BY <2>2, <3>1 DEF Rescan
    <3>3. (r \in busy' <=> r \in busy)
      BY <3>1 DEF Rescan
    <3> QED
      BY <1>9, <3>1, <3>2, <3>3
  <2> QED
    BY <2>1, <2>2
<1>10. \A r \in S : deadline'[r] <= now' => r \in busy'
  <2> SUFFICES ASSUME NEW r \in S, r \notin busy' PROVE ~(deadline'[r] <= now')
    OBVIOUS
  <2>1. r \notin W
    BY DEF Rescan
  <2>2. deadline'[r] = NewDeadline(r)
    BY <2>1 DEF Rescan
  <2> QED
    BY <1>1, <1>3, <2>2
<1>11. \A r \in Reactors \ S : deadline'[r] = deadline[r] /\ (r \in busy' <=> r \in busy)
  BY DEF Rescan
<1> QED
  BY <1>4, <1>5, <1>6, <1>7, <1>8, <1>9, <1>10, <1>11 DEF Asked

-----------------------------------------------------------------------------
(* Steps                                                                   *)

(* Execute keeps the invariant, whichever idle reactors are asked again.   *)
LEMMA ExecuteKeeps ==
  ASSUME DelibInv, NEW r \in Reactors, NEW STATE S, S \in SUBSET Reactors,
         NEW W \in SUBSET Reactors, NEW STATE n, n \in [Reactors -> Nat],
         \A q \in Reactors : q # r => n[q] = steps[q],
         Execute(r, S, W, n), thrown' \in BOOLEAN
  PROVE  DelibInv'
<1>1. /\ mode = "deliberate" /\ mode' = mode /\ clock' = clock /\ now' = now
      /\ alive' = alive /\ fresh' = fresh /\ pending' = pending
      /\ r \in queued /\ W \in SUBSET S /\ S \subseteq idle \cup {r}
      /\ idle' = (idle \cup {r}) \ W
      /\ Rescan(queued \ {r}, S, W, n)
  BY DEF Execute, members, MostUrgent
<1>2. TypeOK /\ Scheduling
  BY <1>1 DEF DelibInv, Scheduling
<1>3. /\ queued \cap idle = {}
      /\ pending \cap (queued \cup idle) = {}
      /\ alive \ fresh = pending \cup queued \cup idle
  BY <1>2 DEF DelibInv, EachReactorOnce
<1>4. \A q \in queued \ {r} : q \notin S /\ n[q] = steps[q]
  BY <1>1, <1>2, <1>3 DEF TypeOK
<1>5. \A q \in queued : q \in busy /\ den[q] = Denominator(deadline[q], steps[q])
  BY <1>2 DEF DelibInv, RatiosAreCurrent
<1> DEFINE Q == queued \ {r}
<1>6. Q \in SUBSET queued
  OBVIOUS
<1>7. /\ queued' \in SUBSET Reactors
      /\ den' \in [Reactors -> Int]
      /\ deadline' \in [Reactors -> Nat]
      /\ steps' \in [Reactors -> Nat]
      /\ busy' \in SUBSET Reactors
      /\ queued' = Q \cup W
      /\ \A q \in queued' : q \in busy' /\ den'[q] = Denominator(deadline'[q], steps'[q])
      /\ \A q \in S : deadline'[q] <= now' => q \in busy'
      /\ \A q \in Reactors \ S : deadline'[q] = deadline[q] /\ (q \in busy' <=> q \in busy)
  <2> HIDE DEF Q
  <2>1. Rescan(Q, S, W, n)
    BY <1>1 DEF Q
  <2>2. \A q \in Q : q \notin S /\ n[q] = steps[q]
    BY <1>4 DEF Q
  <2>3. TypeOK /\ W \in SUBSET S /\ now' = now
    BY <1>1, <1>2
  <2>4. Asked(Q, S, W)
    BY <1>5, <1>6, <2>1, <2>2, <2>3, RescanKeeps
  <2> QED
    BY <2>4 DEF Asked
<1>8. TypeOK'
  BY <1>1, <1>2, <1>7 DEF TypeOK
<1>9. EachReactorOnce'
  BY <1>1, <1>3, <1>7 DEF EachReactorOnce
<1>10. RatiosAreCurrent'
  BY <1>1, <1>7 DEF RatiosAreCurrent, Denominator
<1>11. LateMeansBusy'
  <2> SUFFICES ASSUME NEW q \in queued' \cup idle', deadline'[q] <= now' PROVE q \in busy'
    BY DEF LateMeansBusy
  <2>1. q \in Reactors /\ q \in queued \cup idle
    BY <1>1, <1>2, <1>7 DEF TypeOK
  <2>2. CASE q \in S
    BY <1>7, <2>2
  <2>3. CASE q \notin S
    <3>1. deadline'[q] = deadline[q] /\ (q \in busy' <=> q \in busy)
      BY <1>7, <2>1, <2>3
    <3> QED
      BY <1>1, <1>2, <2>1, <3>1 DEF DelibInv, LateMeansBusy
  <2> QED
    BY <2>2, <2>3
<1> QED
  BY <1>8, <1>9, <1>10, <1>11 DEF DelibInv

LEMMA DelibInvInit == Init => DelibInv
<1> SUFFICES ASSUME Init PROVE DelibInv
  OBVIOUS
<1>1. TypeOK
  <2>1. thrown \in BOOLEAN
    BY Zenon DEF Init
  <2> QED
    BY <2>1 DEF Init, TypeOK, Modes
<1>2. ~Scheduling
  BY DEF Init, Scheduling
<1> QED
  BY <1>1, <1>2 DEF DelibInv, EachReactorOnce, RatiosAreCurrent, LateMeansBusy

LEMMA SynchronizeKeeps ==
  ASSUME DelibInv, NEW r \in Reactors, NEW W \in SUBSET {r}, SynchronizeReactor(r, W)
  PROVE  DelibInv'
<1>1. /\ mode = "sync" /\ mode' = mode /\ clock' = clock /\ now' = now
      /\ alive' = alive /\ fresh' = fresh /\ pending' = pending \ {r} /\ thrown' = thrown
      /\ r \in pending /\ idle' = idle \cup ({r} \ W)
      /\ Rescan(queued, {r}, W, steps)
  BY DEF SynchronizeReactor, members
<1>2. TypeOK /\ Scheduling
  BY <1>1 DEF DelibInv, Scheduling
<1>3. /\ queued \cap idle = {}
      /\ pending \cap (queued \cup idle) = {}
      /\ alive \ fresh = pending \cup queued \cup idle
  BY <1>2 DEF DelibInv, EachReactorOnce
<1>4. \A q \in queued : q \in busy /\ den[q] = Denominator(deadline[q], steps[q])
  BY <1>2 DEF DelibInv, RatiosAreCurrent
<1>5. Asked(queued, {r}, W)
  <2>1. queued \in SUBSET queued /\ {r} \in SUBSET Reactors /\ steps \in [Reactors -> Nat]
    BY <1>2 DEF TypeOK
  <2>2. \A q \in queued : q \notin {r} /\ steps[q] = steps[q]
    BY <1>1, <1>3
  <2>3. now' = now /\ Rescan(queued, {r}, W, steps)
    BY <1>1
  <2> QED
    BY <1>2, <1>4, <2>1, <2>2, <2>3, RescanKeeps
<1>6. TypeOK'
  BY <1>1, <1>2, <1>5 DEF TypeOK, Asked
<1>7. EachReactorOnce'
  BY <1>1, <1>3, <1>5 DEF EachReactorOnce, Asked
<1>8. RatiosAreCurrent'
  BY <1>1, <1>5 DEF RatiosAreCurrent, Denominator, Asked
<1>9. LateMeansBusy'
  <2> SUFFICES ASSUME NEW q \in queued' \cup idle', deadline'[q] <= now' PROVE q \in busy'
    BY DEF LateMeansBusy
  <2>1. CASE q = r
    BY <1>5, <2>1 DEF Asked
  <2>2. CASE q # r
    <3>1. q \in queued \cup idle /\ q \in Reactors
      BY <1>1, <1>2, <1>5, <2>2 DEF Asked, TypeOK
    <3>2. deadline'[q] = deadline[q] /\ (q \in busy' <=> q \in busy)
      BY <1>5, <2>2, <3>1 DEF Asked
    <3> QED
      BY <1>1, <1>2, <3>1, <3>2 DEF DelibInv, LateMeansBusy
  <2> QED
    BY <2>1, <2>2
<1> QED
  BY <1>6, <1>7, <1>8, <1>9 DEF DelibInv

LEMMA StartTickKeeps ==
  ASSUME DelibInv, NEW F \in SUBSET alive, StartTick(F)
  PROVE  DelibInv'
<1>1. TypeOK
  BY DEF DelibInv
<1>2. \A r \in Reactors : NewDeadline(r) \in Nat
  BY <1>1, NewDeadlineAhead DEF TypeOK
<1>3. deadline' \in [Reactors -> Nat] /\ steps' \in [Reactors -> Nat]
  BY <1>1, <1>2 DEF StartTick, TypeOK
<1>4. TypeOK'
  <2>1. thrown' \in BOOLEAN
    BY Zenon DEF StartTick
  <2> QED
    BY <1>1, <1>3, <2>1 DEF StartTick, TypeOK, Modes
<1>5. queued' = {} /\ idle' = {} /\ EachReactorOnce'
  BY DEF StartTick, EachReactorOnce
<1> QED
  BY <1>4, <1>5 DEF DelibInv, RatiosAreCurrent, LateMeansBusy

(* A step that leaves the schedule alone, in a tick that was under way or  *)
(* that is over after it.                                                  *)
LEMMA ScheduleUnchanged ==
  ASSUME DelibInv, TypeOK', UNCHANGED schedule, Scheduling' => Scheduling,
         Scheduling' => now' = now,
         Scheduling' => pending' \subseteq pending,
         Scheduling' => alive' \ fresh' = pending' \cup queued \cup idle
  PROVE  DelibInv'
<1>1. UNCHANGED <<queued, den, idle, deadline, steps, busy>>
  BY DEF schedule
<1>2. EachReactorOnce'
  BY <1>1 DEF DelibInv, EachReactorOnce
<1>3. RatiosAreCurrent'
  BY <1>1 DEF DelibInv, RatiosAreCurrent, Denominator
<1>4. LateMeansBusy'
  BY <1>1 DEF DelibInv, LateMeansBusy
<1> QED
  BY <1>2, <1>3, <1>4 DEF DelibInv

LEMMA DelibInvStep == DelibInv /\ [Next]_vars => DelibInv'
<1> SUFFICES ASSUME DelibInv, [Next]_vars PROVE DelibInv'
  OBVIOUS
<1>0. TypeOK /\ (Scheduling => alive \ fresh = pending \cup queued \cup idle)
  BY DEF DelibInv, EachReactorOnce
<1>1. CASE ClockTick
  BY <1>0, <1>1, ScheduleUnchanged DEF ClockTick, members, TypeOK, schedule, Scheduling
<1>2. ASSUME NEW r \in Reactors, Join(r) PROVE DelibInv'
  <2>1. Scheduling /\ alive' = alive \cup {r} /\ r \in fresh
        /\ UNCHANGED <<mode, clock, now, fresh, pending, schedule, thrown>>
    BY <1>2 DEF Join, Scheduling
  <2>2. alive' \ fresh' = alive \ fresh
    BY <2>1
  <2> QED
    BY <1>0, <2>1, <2>2, ScheduleUnchanged DEF TypeOK, schedule, Scheduling
<1>3. ASSUME NEW r \in Reactors, Kill(r) PROVE DelibInv'
  BY <1>0, <1>3, ScheduleUnchanged DEF Kill, TypeOK, schedule, Scheduling
<1>4. CASE EndMission
  BY <1>0, <1>4, ScheduleUnchanged DEF EndMission, members, TypeOK, Modes, schedule, Scheduling
<1>5. ASSUME NEW F \in SUBSET alive, StartTick(F) PROVE DelibInv'
  BY <1>5, StartTickKeeps
<1>6. ASSUME NEW r \in Reactors, NEW W \in SUBSET {r}, SynchronizeReactor(r, W) PROVE DelibInv'
  BY <1>6, SynchronizeKeeps
<1>7. ASSUME NEW r \in Reactors, FailSynchronization(r) PROVE DelibInv'
  <2>1. Scheduling /\ r \in pending /\ pending' = pending \ {r} /\ alive' = alive \ {r}
        /\ UNCHANGED <<mode, clock, now, fresh, schedule, thrown>>
    BY <1>7 DEF FailSynchronization, Scheduling
  <2>2. alive' \ fresh' = pending' \cup queued \cup idle
    BY <2>1 DEF DelibInv, EachReactorOnce
  <2> QED
    BY <1>0, <2>1, <2>2, ScheduleUnchanged DEF TypeOK, schedule, Scheduling
<1>8. ASSUME NEW r \in Reactors, HandlerThrows(r) PROVE DelibInv'
  BY <1>0, <1>8, ScheduleUnchanged
     DEF HandlerThrows, members, TypeOK, Modes, schedule, Scheduling
<1>9. CASE StartDeliberation
  BY <1>0, <1>9, ScheduleUnchanged
     DEF StartDeliberation, members, TypeOK, Modes, schedule, Scheduling
<1>10. ASSUME NEW r \in Reactors, Deliberate(r) PROVE DelibInv'
  <2>1. steps \in [Reactors -> Nat] /\ OneMoreStep(r) \in [Reactors -> Nat]
    BY <1>0 DEF TypeOK, OneMoreStep
  <2>2. \A q \in Reactors : q # r => OneMoreStep(r)[q] = steps[q]
    BY <1>0 DEF TypeOK, OneMoreStep
  <2>3. idle \cup {r} \in SUBSET Reactors /\ {} \in SUBSET Reactors
    BY <1>0 DEF TypeOK
  <2>4. ASSUME NEW W \in SUBSET (idle \cup {r}), ExecuteReactor(r, W) PROVE DelibInv'
    <3>1. W \in SUBSET Reactors /\ thrown' \in BOOLEAN
      BY <1>0, <2>3, <2>4 DEF ExecuteReactor, TypeOK
    <3>2. Execute(r, idle \cup {r}, W, OneMoreStep(r))
      BY <2>4 DEF ExecuteReactor
    <3> QED
      BY <2>1, <2>2, <2>3, <3>1, <3>2, ExecuteKeeps
  <2>5. ASSUME StepThrows(r) PROVE DelibInv'
    <3>1. Execute(r, {}, {}, steps)
      BY <2>5 DEF StepThrows
    <3>2. thrown' \in BOOLEAN
      BY <2>5, Zenon DEF StepThrows
    <3> QED
      BY <2>1, <2>3, <3>1, <3>2, ExecuteKeeps
  <2>6. ASSUME NEW S \in SUBSET (idle \cup {r}), NEW W \in SUBSET S, RescanThrows(r, S, W)
        PROVE  DelibInv'
    <3>1. Execute(r, S, W, OneMoreStep(r))
      BY <2>6 DEF RescanThrows
    <3>2. thrown' \in BOOLEAN
      BY <2>6, Zenon DEF RescanThrows
    <3>3. S \in SUBSET Reactors /\ W \in SUBSET Reactors
      BY <2>3
    <3> QED
      BY <2>1, <2>2, <3>1, <3>2, <3>3, ExecuteKeeps
  <2> QED
    BY <1>10, <2>4, <2>5, <2>6 DEF Deliberate
<1>11. CASE Exhausted \/ OutOfTime \/ NotFree
  BY <1>0, <1>11, ScheduleUnchanged
     DEF Exhausted, OutOfTime, NotFree, members, TypeOK, Modes, schedule, Scheduling
<1>12. CASE Wake
  BY <1>0, <1>12, ScheduleUnchanged DEF Wake, members, TypeOK, Modes, schedule, Scheduling
<1>13. CASE Invalidate
  BY <1>0, <1>13, ScheduleUnchanged DEF Invalidate, members, TypeOK, Modes, schedule, Scheduling
<1>14. CASE UNCHANGED vars
  BY <1>0, <1>14, ScheduleUnchanged DEF vars, members, TypeOK, schedule, Scheduling
<1> QED
  BY <1>1, <1>2, <1>3, <1>4, <1>5, <1>6, <1>7, <1>8, <1>9, <1>10, <1>11, <1>12, <1>13, <1>14
     DEF Next, AgentStep

LEMMA DelibInvariant == Spec => []DelibInv
<1> USE DelibInvInit, DelibInvStep
<1> QED
  BY PTL DEF Spec

-----------------------------------------------------------------------------
(* Theorems                                                                *)

(* Every reachable state is well typed.                                    *)
THEOREM TypeCorrect == Spec => []TypeOK
<1>1. DelibInv => TypeOK
  BY DEF DelibInv
<1> QED
  BY <1>1, DelibInvariant, PTL

(* No reactor of a tick is lost, served twice at once, or served after it  *)
(* was killed, whatever fails or throws.                                   *)
THEOREM EachReactorAlwaysOnce == Spec => []EachReactorOnce
<1>1. DelibInv => EachReactorOnce
  BY DEF DelibInv
<1> QED
  BY <1>1, DelibInvariant, PTL

(* No priority in m_edf is ever stale.                                     *)
THEOREM RatiosAlwaysCurrent == Spec => []RatiosAreCurrent
<1>1. DelibInv => RatiosAreCurrent
  BY DEF DelibInv
<1> QED
  BY <1>1, DelibInvariant, PTL

(* A scheduled reactor is late only while it has work.                     *)
THEOREM LateAlwaysBusy == Spec => []LateMeansBusy
<1>1. DelibInv => LateMeansBusy
  BY DEF DelibInv
<1> QED
  BY <1>1, DelibInvariant, PTL

(* With the same number of steps, a reactor that is not late has a         *)
(* denominator that grows with its deadline; that of an untouched one that *)
(* is late by one tick is 0, which comes before everything.                *)
LEMMA CloserIsMoreUrgent ==
  ASSUME now \in Nat, NEW d \in Nat, NEW e \in Nat, NEW n \in Nat, d < e,
         now <= d \/ (n = 0 /\ now <= d + 1)
  PROVE  Precedes(Denominator(d, n), Denominator(e, n))
<1>1. CASE now <= d
  <2> DEFINE a == d - now + 1
             b == e - now + 1
             m == n + 1
  <2>1. a \in Int /\ b \in Int /\ m \in Int /\ 0 < a /\ a < b /\ 0 < m
    BY <1>1
  <2>2. Denominator(d, n) = a * m /\ Denominator(e, n) = b * m
    BY <1>1 DEF Denominator
  <2> HIDE DEF a, b, m
  <2>3. 0 < a * m /\ a * m < b * m
    BY <2>1
  <2> QED
    BY <2>2, <2>3 DEF Precedes
<1>2. CASE n = 0 /\ now = d + 1
  <2>1. Denominator(d, n) = 0 /\ Denominator(e, n) = e - now + 1 /\ e - now + 1 > 0
    BY <1>2 DEF Denominator
  <2> QED
    BY <2>1 DEF Precedes
<1> QED
  BY <1>1, <1>2

(* The closer deadline is served first, within the stated lateness.        *)
THEOREM CloserDeadlineServedFirst == Spec => []CloserDeadlineFirst
<1>1. DelibInv => CloserDeadlineFirst
  <2> SUFFICES ASSUME DelibInv, Scheduling, NEW r \in queued, NEW s \in queued,
                      steps[r] = steps[s], deadline[r] < deadline[s],
                      now <= deadline[r] \/ (steps[r] = 0 /\ now <= deadline[r] + 1)
               PROVE  Precedes(den[r], den[s])
    BY DEF CloserDeadlineFirst
  <2>1. /\ now \in Nat /\ deadline[r] \in Nat /\ deadline[s] \in Nat
        /\ steps[r] \in Nat
    BY DEF DelibInv, TypeOK
  <2>2. /\ den[r] = Denominator(deadline[r], steps[r])
        /\ den[s] = Denominator(deadline[s], steps[r])
    BY DEF DelibInv, RatiosAreCurrent
  <2> QED
    BY <2>1, <2>2, CloserIsMoreUrgent
<1> QED
  BY <1>1, DelibInvariant, PTL

-----------------------------------------------------------------------------
(* Nobody who has work is left to the next tick by an exhausted m_edf      *)

(* What makes it so: as long as nothing was thrown in a tick, those left   *)
(* in m_idle are those whose last answer was that they have no work.  It   *)
(* needs EachReactorOnce: otherwise a reactor that joins m_edf could       *)
(* already be in m_idle.                                                   *)
IdleHaveNoWork == Scheduling /\ ~thrown => busy \cap idle = {}

(* A reactor of S that answers that it has no work may join m_idle; one    *)
(* that is not asked stays there only if it was.                           *)
LEMMA RescanSparesIdle ==
  ASSUME NEW STATE Q, NEW STATE S, NEW W \in SUBSET S, NEW STATE n, Rescan(Q, S, W, n),
         idle' \cap W = {}, idle' \subseteq idle \cup S, busy \cap idle = {}
  PROVE  busy' \cap idle' = {}
  BY DEF Rescan

LEMMA IdleStep == DelibInv /\ IdleHaveNoWork /\ [Next]_vars => IdleHaveNoWork'
<1> SUFFICES ASSUME DelibInv, IdleHaveNoWork, [Next]_vars, Scheduling', ~thrown'
             PROVE  busy' \cap idle' = {}
  BY DEF IdleHaveNoWork
<1> DEFINE Same == UNCHANGED <<schedule, thrown>> /\ Scheduling
<1>0. Same => busy' \cap idle' = {}
  BY DEF schedule, IdleHaveNoWork
<1> HIDE DEF Same
<1>1. CASE ClockTick \/ (\E r \in Reactors : Join(r)) \/ UNCHANGED vars
  BY <1>0, <1>1 DEF ClockTick, Join, vars, Scheduling, Same
<1>2. ASSUME NEW F \in SUBSET alive, StartTick(F) PROVE busy' \cap idle' = {}
  BY <1>2 DEF StartTick
<1>3. ASSUME NEW r \in Reactors, NEW W \in SUBSET {r}, SynchronizeReactor(r, W)
      PROVE  busy' \cap idle' = {}
  <2>1. /\ Scheduling /\ r \in pending /\ ~thrown
        /\ Rescan(queued, {r}, W, steps) /\ idle' = idle \cup ({r} \ W)
    BY <1>3 DEF SynchronizeReactor, Scheduling
  <2>2. r \notin idle /\ busy \cap idle = {}
    BY <2>1 DEF DelibInv, EachReactorOnce, IdleHaveNoWork
  <2>3. idle' \cap W = {} /\ idle' \subseteq idle \cup {r}
    BY <2>1, <2>2
  <2> QED
    BY <2>1, <2>2, <2>3, RescanSparesIdle
<1>4. ASSUME NEW r \in Reactors, FailSynchronization(r) PROVE busy' \cap idle' = {}
  BY <1>0, <1>4 DEF FailSynchronization, Scheduling, Same
<1>5. CASE StartDeliberation
  BY <1>0, <1>5 DEF StartDeliberation, Scheduling, Same
<1>6. ASSUME NEW r \in Reactors, Deliberate(r) PROVE busy' \cap idle' = {}
  <2>1. PICK W \in SUBSET (idle \cup {r}) : ExecuteReactor(r, W)
    BY <1>6 DEF Deliberate, StepThrows, RescanThrows
  <2>2. /\ Scheduling /\ ~thrown /\ idle' = (idle \cup {r}) \ W
        /\ Rescan(queued \ {r}, idle \cup {r}, W, OneMoreStep(r))
    BY <2>1 DEF ExecuteReactor, Execute, Scheduling
  <2>3. busy \cap idle = {}
    BY <2>2 DEF IdleHaveNoWork
  <2>4. idle' \cap W = {} /\ idle' \subseteq idle \cup (idle \cup {r})
    BY <2>2
  <2> QED
    BY <2>2, <2>3, <2>4, RescanSparesIdle
<1>7. ~EndMission /\ ~Exhausted /\ ~OutOfTime /\ ~NotFree /\ ~Wake /\ ~Invalidate
      /\ \A r \in Reactors : ~Kill(r) /\ ~HandlerThrows(r)
  BY DEF EndMission, Exhausted, OutOfTime, NotFree, Wake, Invalidate, Kill, HandlerThrows,
         Scheduling
<1> QED
  BY <1>1, <1>2, <1>3, <1>4, <1>5, <1>6, <1>7 DEF Next, AgentStep

(* When m_edf runs empty, no reactor that could still answer has work,     *)
(* unless an exception has cut a rescan short in this tick.                *)
THEOREM NoWorkEverForgotten == Spec => NoWorkForgotten
<1>1. Init => IdleHaveNoWork
  BY DEF Init, IdleHaveNoWork, Scheduling
<1>2. IdleHaveNoWork => (Exhausted /\ ~thrown => busy \cap idle = {})
  BY DEF IdleHaveNoWork, Exhausted, Scheduling
<1>3. DelibInv /\ IdleHaveNoWork /\ [Next]_vars
        => IdleHaveNoWork' /\ [Exhausted /\ ~thrown => busy \cap idle = {}]_vars
  BY <1>2, IdleStep
<1> QED
  BY <1>1, <1>3, DelibInvariant, PTL DEF Spec, NoWorkForgotten
=============================================================================
