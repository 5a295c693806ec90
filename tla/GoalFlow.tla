------------------------------- MODULE GoalFlow -------------------------------
(***************************************************************************)
(* The way of a goal from the reactor that posts it to the one that owns   *)
(* its timeline.  The client keeps a posted goal in the pending queue of   *)
(* its External (details::external) until a dispatch sends it; sending     *)
(* hands a task to the strand of the graph, which puts the goal in a list  *)
(* of the owner; the owner finds it there the next time the agent asks for *)
(* its work ratio, and the handler handleRequest is called.  A recall      *)
(* takes the goal out of the pending queue, or follows the same way to     *)
(* handleRecall.                                                           *)
(*                                                                         *)
(* Three threads of control meet: the thread of the agent (ticks, work     *)
(* ratios, and the calls reactors make from their callbacks), the strand,  *)
(* and, when OtherThread holds, a thread of a reactor's own, such as the   *)
(* HTTP service of the REST plug-in, that posts and recalls goals.         *)
(* strand_run waits for its task, hence for all the tasks before it: what  *)
(* the agent runs that way is one step, enabled when the strand is empty.  *)
(* newTick is called on the strand too; the dispatch at the end of a work  *)
(* ratio walks the pending queue on the thread of the agent, without the   *)
(* strand: it is one step here, so a post from another thread in the       *)
(* middle of that walk is out of the model.                                *)
(*                                                                         *)
(* One client, with the right to post goals, and one timeline, which       *)
(* several reactors may own in turn.                                       *)
(***************************************************************************)
EXTENDS Integers, Sequences, FiniteSets

CONSTANTS
  Goals,         \* goals the client may post, each once
  Servers,       \* reactors that may own the timeline
  Nobody,        \* no owner, or no reactor being asked
  StartLb,       \* lower bound of the start of a goal when it is posted
  StartUb,       \* upper bound of the start
  MinDuration,   \* lower bound of the duration
  LookAhead,     \* getLookAhead() of a server
  ExecLatency,   \* getExecLatency() of a server
  OtherThread,   \* whether another thread than the agent's posts and recalls
  MaxTick        \* the tick the clock stops at

ASSUME GoalFlowAssumption ==
  /\ Nobody \notin Servers
  /\ StartLb \in [Goals -> Int]
  /\ StartUb \in [Goals -> Nat]
  /\ \A g \in Goals : StartLb[g] <= StartUb[g]
  /\ MinDuration \in [Goals -> Nat \ {0}]
  /\ LookAhead \in [Servers -> Nat]
  /\ ExecLatency \in [Servers -> Nat]
  /\ OtherThread \in BOOLEAN
  /\ MaxTick \in Nat

(* A bound of IntegerDomain that no date reaches: a dispatch is for a date *)
(* up to MaxTick.  The start of a goal is [MinusInf, PlusInf] unless the   *)
(* client says otherwise.                                                  *)
PlusInf == MaxTick + 1
MinusInf == -PlusInf

VARIABLES
  now,       \* the current tick
  stopped,   \* an exception has left doNext
  owner,     \* m_owner of the timeline
  grants,    \* bit 0 of its m_transactions
  pending,   \* the goal_queue of the client's relation
  blocked,   \* goals of that queue marked as non-postable
  lb,        \* lower bound of the start, which dispatch raises
  strand,    \* tasks handed to the strand and not run yet
  requests,  \* m_sync_goals of each server
  recalls,   \* m_sync_recalls of each server
  have,      \* m_have_goals of each server
  toAsk,     \* servers not synchronized yet in this tick
  asked,     \* the server whose work ratio is being computed
  phase,     \* which list workRatio comes to next
  tmp,       \* goals flushed and not handled yet
  said,      \* the last word of the client about a goal (history)
  view,      \* what a server was last told of a goal (history)
  sentTo,    \* the server a goal was sent to, while it stays owner (history)
  dropped    \* goals an exception made a server forget (history)

timelineVars == <<owner, grants>>
queueVars == <<pending, blocked, lb>>
boxes == <<requests, recalls, have>>
asking == <<toAsk, asked, phase, tmp>>
histories == <<said, view, sentTo, dropped>>
vars == <<now, stopped, timelineVars, queueVars, strand, boxes, asking, histories>>

Operations == {"request", "post", "recall"}
(* "requests": m_sync_goals is next; "recalls": it has been seen to, and   *)
(* tmp holds what came from it; "end": the same of m_sync_recalls.         *)
Phases == {"requests", "recalls", "end"}

TypeOK ==
  /\ now \in 0..MaxTick
  /\ stopped \in BOOLEAN
  /\ owner \in Servers \cup {Nobody}
  /\ grants \in BOOLEAN
  /\ pending \in Seq(Goals)
  /\ blocked \subseteq Goals
  /\ lb \in [Goals -> Int]
  /\ strand \in Seq([op : Operations, goal : Goals, to : Servers \cup {Nobody}])
  /\ requests \in [Servers -> Seq(Goals)]
  /\ recalls \in [Servers -> Seq(Goals)]
  /\ have \in [Servers -> Nat]
  /\ toAsk \subseteq Servers
  /\ asked \in Servers \cup {Nobody}
  /\ phase \in Phases
  /\ tmp \in Seq(Goals)
  /\ said \in [Goals -> {"nothing", "posted", "recalled"}]
  /\ view \in [Servers -> [Goals -> {"nothing", "requested", "recalled"}]]
  /\ sentTo \in [Goals -> Servers \cup {Nobody}]
  /\ dropped \subseteq Goals

Init ==
  /\ now = 0
  /\ stopped = FALSE
  /\ owner = Nobody
  /\ grants = FALSE
  /\ pending = <<>>
  /\ blocked = {}
  /\ lb = StartLb
  /\ strand = <<>>
  /\ requests = [s \in Servers |-> <<>>]
  /\ recalls = [s \in Servers |-> <<>>]
  /\ have = [s \in Servers |-> 0]
  /\ toAsk = {}
  /\ asked = Nobody
  /\ phase = "end"
  /\ tmp = <<>>
  /\ said = [g \in Goals |-> "nothing"]
  /\ view = [s \in Servers |-> [g \in Goals |-> "nothing"]]
  /\ sentTo = [g \in Goals |-> Nobody]
  /\ dropped = {}

Elements(s) == {s[i] : i \in DOMAIN s}

(* What a walk along the list s leaves of it when it erases every entry    *)
(* that is not in S.                                                       *)
Keep(s, S) ==
  LET kept[i \in 0..Len(s)] ==
        IF i = 0 THEN <<>>
        ELSE IF s[i] \in S THEN Append(kept[i - 1], s[i]) ELSE kept[i - 1]
  IN  kept[Len(s)]

-----------------------------------------------------------------------------
(* The timeline                                                            *)

(* look_ahead() > 0: the timeline accepts goals, and its owner plans.      *)
Accepts == owner # Nobody /\ grants /\ LookAhead[owner] > 0

(* timeline::assign on a free timeline, or on the owner's own with other   *)
(* rights, ends with latency_update: if the timeline now takes goals, no   *)
(* pending goal is non-postable any more.                                  *)
Provide(s, f) ==
  /\ ~stopped /\ strand = <<>>
  /\ owner \in {Nobody, s}
  /\ owner' = s
  /\ grants' = f
  /\ blocked' = IF f /\ LookAhead[s] > 0 THEN {} ELSE blocked
  /\ UNCHANGED <<now, stopped, pending, lb, strand, boxes, asking, histories>>

(* timeline::unassign                                                      *)
Unprovide(s) ==
  /\ ~stopped /\ strand = <<>>
  /\ owner = s
  /\ owner' = Nobody
  /\ grants' = FALSE
  /\ sentTo' = [g \in Goals |-> Nobody]
  /\ UNCHANGED <<now, stopped, queueVars, strand, boxes, asking, said, view, dropped>>

-----------------------------------------------------------------------------
(* The pending queue, on the strand                                        *)

(* external::cmp_goals, the order of the queue.                            *)
Before(g, h) ==
  \/ StartUb[g] < StartUb[h]
  \/ StartUb[g] = StartUb[h] /\ lb[g] < lb[h]

(* Mutant: the search compares the upper bounds only.                      *)
PositionByUpper(g) ==
  CHOOSE i \in 0..Len(pending) :
    /\ \A j \in 1..i : StartUb[pending[j]] <= StartUb[g]
    /\ i < Len(pending) => StartUb[g] < StartUb[pending[i + 1]]

(* How many entries a goal with the start of g comes after.                *)
Position(g) ==
  CHOOSE i \in 0..Len(pending) :
    /\ \A j \in 1..i : ~Before(g, pending[j])
    /\ i < Len(pending) => Before(g, pending[i + 1])

(* The search for g looks no further than that.                            *)
Found(g) == \E i \in 1..Position(g) : pending[i] = g

(* external::post_goal                                                     *)
Post(g) ==
  /\ pending' = IF Found(g) THEN pending
                ELSE SubSeq(pending, 1, Position(g)) \o <<g>>
                     \o SubSeq(pending, Position(g) + 1, Len(pending))
  /\ UNCHANGED <<blocked, boxes>>

(* TeleoReactor::queue, for a recall                                       *)
QueueRecall(g) ==
  /\ recalls' = [recalls EXCEPT ![owner] = Append(@, g)]
  /\ have' = [have EXCEPT ![owner] = @ + 1]
  /\ UNCHANGED requests

(* Mutant: a goal that was sent is not recalled.                           *)
RecallPendingOnly(g) ==
  /\ pending' = IF Found(g) THEN Keep(pending, Goals \ {g}) ELSE pending
  /\ blocked' = blocked \ {g}
  /\ UNCHANGED boxes

(* external::recall: a goal still in the queue just leaves it, otherwise   *)
(* the owner, if there is one, is told.                                    *)
Recall(g) ==
  IF Found(g)
  THEN /\ pending' = Keep(pending, Goals \ {g})
       /\ blocked' = blocked \ {g}
       /\ UNCHANGED boxes
  ELSE /\ IF owner # Nobody THEN QueueRecall(g) ELSE UNCHANGED boxes
       /\ UNCHANGED <<pending, blocked>>

-----------------------------------------------------------------------------
(* Calls of the client                                                     *)

(* postGoal or postRecall from a callback on the thread of the agent.      *)
PostGoal(g) ==
  /\ ~stopped /\ asked = Nobody /\ strand = <<>>
  /\ said[g] = "nothing"
  /\ said' = [said EXCEPT ![g] = "posted"]
  /\ Post(g)
  /\ UNCHANGED <<now, stopped, timelineVars, lb, strand, asking, view, sentTo, dropped>>

PostRecall(g) ==
  /\ ~stopped /\ asked = Nobody /\ strand = <<>>
  /\ said[g] = "posted"
  /\ said' = [said EXCEPT ![g] = "recalled"]
  /\ Recall(g)
  /\ UNCHANGED <<now, stopped, timelineVars, lb, strand, asking, view, sentTo, dropped>>

(* The same from another thread, which waits for its task: it has at most  *)
(* one in the strand.                                                      *)
Calling == \E i \in DOMAIN strand : strand[i].op \in {"post", "recall"}
Task(op, g, s) == [op |-> op, goal |-> g, to |-> s]

CallPostGoal(g) ==
  /\ OtherThread /\ ~Calling
  /\ said[g] = "nothing"
  /\ said' = [said EXCEPT ![g] = "posted"]
  /\ strand' = Append(strand, Task("post", g, Nobody))
  /\ UNCHANGED <<now, stopped, timelineVars, queueVars, boxes, asking, view, sentTo, dropped>>

CallPostRecall(g) ==
  /\ OtherThread /\ ~Calling
  /\ said[g] = "posted"
  /\ said' = [said EXCEPT ![g] = "recalled"]
  /\ strand' = Append(strand, Task("recall", g, Nobody))
  /\ UNCHANGED <<now, stopped, timelineVars, queueVars, boxes, asking, view, sentTo, dropped>>

-----------------------------------------------------------------------------
(* The strand runs its tasks in the order they were handed to it           *)

(* Mutant: the goal is not counted.                                        *)
RunRequestUncounted ==
  /\ strand # <<>> /\ Head(strand).op = "request"
  /\ LET t == Head(strand) IN requests' = [requests EXCEPT ![t.to] = Append(@, t.goal)]
  /\ strand' = Tail(strand)
  /\ UNCHANGED <<now, stopped, timelineVars, queueVars, recalls, have, asking, histories>>

(* TeleoReactor::queue, for a goal                                         *)
RunRequest ==
  /\ strand # <<>> /\ Head(strand).op = "request"
  /\ LET t == Head(strand) IN
       /\ requests' = [requests EXCEPT ![t.to] = Append(@, t.goal)]
       /\ have' = [have EXCEPT ![t.to] = @ + 1]
  /\ strand' = Tail(strand)
  /\ UNCHANGED <<now, stopped, timelineVars, queueVars, recalls, asking, histories>>

RunPost ==
  /\ strand # <<>> /\ Head(strand).op = "post"
  /\ Post(Head(strand).goal)
  /\ strand' = Tail(strand)
  /\ UNCHANGED <<now, stopped, timelineVars, lb, asking, histories>>

RunRecall ==
  /\ strand # <<>> /\ Head(strand).op = "recall"
  /\ Recall(Head(strand).goal)
  /\ strand' = Tail(strand)
  /\ UNCHANGED <<now, stopped, timelineVars, lb, asking, histories>>

-----------------------------------------------------------------------------
(* external::dispatch                                                      *)

(* The upper end of the dispatch window at the tick n.                     *)
WindowEnd(n) == IF Accepts THEN n + ExecLatency[owner] + LookAhead[owner] ELSE n

(* Mutant: the walk looks at the latest start.                             *)
VisitedByUpper(n) ==
  {pending[i] : i \in {k \in DOMAIN pending :
                         \A j \in 1..k : StartUb[pending[j]] < WindowEnd(n)}}

(* The walk goes on as long as the goals may start before that.            *)
Visited(n) ==
  {pending[i] : i \in {k \in DOMAIN pending :
                         \A j \in 1..k : lb[pending[j]] < WindowEnd(n)}}

(* startsAfter(n), which also makes n the earliest start.                  *)
Future(g, n) == StartUb[g] >= n

(* Mutant: a goal of the past is kept.                                     *)
AliveForEver(g, n) == TRUE

(* Neither start nor end are necessarily past.                             *)
Alive(g, n) == Future(g, n) \/ lb[g] + MinDuration[g] > n + 1

(* Mutant: a goal stays in the queue once sent.                            *)
GonePastOnly(seen, sent, n) == {g \in seen : ~Alive(g, n)}

(* What leaves the queue.                                                  *)
Gone(seen, sent, n) == sent \cup {g \in seen : ~Alive(g, n)}

(* What is sent, but for the goals of R, the sending of which throws.      *)
Due(n) == {g \in Visited(n) : Alive(g, n) /\ Accepts /\ g \notin blocked}
Sent(n, R) == Keep(pending, Due(n) \ R)

(* The whole walk at the tick n, but for what becomes of the goals sent.   *)
Dispatch(n, R) ==
  LET seen == Visited(n)
      sent == Due(n) \ R
      gone == Gone(seen, sent, n)
  IN  /\ R \subseteq Due(n)
      /\ pending' = Keep(pending, Goals \ gone)
      /\ blocked' = (blocked \cup R) \ gone
      /\ lb' = [g \in Goals |-> IF g \in seen /\ Future(g, n) /\ lb[g] < n THEN n ELSE lb[g]]
      /\ sentTo' = [g \in Goals |-> IF g \in sent THEN owner ELSE sentTo[g]]
      /\ UNCHANGED <<timelineVars, recalls, asked, phase, tmp, said, view, dropped>>

(* On the strand, queue_goal is immediate.                                 *)
AtOnce(sent) ==
  /\ IF sent = <<>>
     THEN UNCHANGED <<requests, have>>
     ELSE /\ requests' = [requests EXCEPT ![owner] = @ \o sent]
          /\ have' = [have EXCEPT ![owner] = @ + Len(sent)]
  /\ UNCHANGED strand

(* On the thread of the agent it only hands a task to the strand.          *)
ByTasks(sent) ==
  /\ strand' = strand \o [i \in DOMAIN sent |-> Task("request", sent[i], owner)]
  /\ UNCHANGED <<requests, have>>

-----------------------------------------------------------------------------
(* The thread of the agent                                                 *)

(* A tick starts: the sort of the reactors, on the strand, calls newTick   *)
(* of the client, which dispatches; every server is then to be             *)
(* synchronized.  The clock may tick whenever no work ratio is being       *)
(* computed and every server has been synchronized.                        *)
NewTick(R) ==
  /\ ~stopped /\ asked = Nobody /\ toAsk = {} /\ strand = <<>>
  /\ now' = IF now < MaxTick THEN now + 1 ELSE now
  /\ Dispatch(now', R)
  /\ AtOnce(Sent(now', R))
  /\ toAsk' = Servers
  /\ UNCHANGED stopped

(* workRatio of the client, which has no work, dispatches for the next     *)
(* tick.  The last tick has no next one: a goal restricted to start after  *)
(* it would wait for a tick that does not come.                            *)
DispatchAhead(R) ==
  /\ ~stopped /\ asked = Nobody /\ now < MaxTick
  /\ Dispatch(now + 1, R)
  /\ ByTasks(Sent(now + 1, R))
  /\ UNCHANGED <<now, stopped, toAsk>>

(* workRatio of a server, in its synchronization or during deliberation.   *)
Ask(s) ==
  /\ ~stopped /\ asked = Nobody
  /\ toAsk = {} \/ s \in toAsk
  /\ asked' = s
  /\ phase' = "requests"
  /\ UNCHANGED <<now, stopped, timelineVars, queueVars, strand, boxes, toAsk, tmp, histories>>

(* have_goals(), and goal_flush on the strand.                             *)
FlushRequests ==
  /\ asked # Nobody /\ phase = "requests"
  /\ phase' = "recalls"
  /\ \/ have[asked] = 0 /\ UNCHANGED <<tmp, requests, have>>
     \/ /\ have[asked] > 0
        /\ strand = <<>>
        /\ tmp' = requests[asked]
        /\ requests' = [requests EXCEPT ![asked] = <<>>]
        /\ have' = [have EXCEPT ![asked] = @ - Len(requests[asked])]
  /\ UNCHANGED <<now, stopped, timelineVars, queueVars, strand, recalls, toAsk, asked, histories>>

(* Mutant: the counter is reset instead of reduced.                        *)
FlushRecallsReset ==
  /\ asked # Nobody /\ phase = "recalls" /\ tmp = <<>>
  /\ phase' = "end"
  /\ \/ have[asked] = 0 /\ UNCHANGED <<tmp, recalls, have>>
     \/ /\ have[asked] > 0
        /\ strand = <<>>
        /\ tmp' = recalls[asked]
        /\ recalls' = [recalls EXCEPT ![asked] = <<>>]
        /\ have' = [have EXCEPT ![asked] = 0]
  /\ UNCHANGED <<now, stopped, timelineVars, queueVars, strand, requests, toAsk, asked, histories>>

(* The same of m_sync_recalls, once the requests have been handled.        *)
FlushRecalls ==
  /\ asked # Nobody /\ phase = "recalls" /\ tmp = <<>>
  /\ phase' = "end"
  /\ \/ have[asked] = 0 /\ UNCHANGED <<tmp, recalls, have>>
     \/ /\ have[asked] > 0
        /\ strand = <<>>
        /\ tmp' = recalls[asked]
        /\ recalls' = [recalls EXCEPT ![asked] = <<>>]
        /\ have' = [have EXCEPT ![asked] = @ - Len(recalls[asked])]
  /\ UNCHANGED <<now, stopped, timelineVars, queueVars, strand, requests, toAsk, asked, histories>>

(* handleRequest, or handleRecall, of the next flushed goal.               *)
Handle ==
  /\ asked # Nobody /\ tmp # <<>>
  /\ view' = [view EXCEPT ![asked][Head(tmp)] =
                IF phase = "recalls" THEN "requested" ELSE "recalled"]
  /\ tmp' = Tail(tmp)
  /\ UNCHANGED <<now, stopped, timelineVars, queueVars, strand, boxes, toAsk, asked, phase,
                 said, sentTo, dropped>>

(* The handler throws: the goals flushed with this one are forgotten.      *)
(* Nothing catches the exception during synchronization.                   *)
HandlerThrows ==
  /\ asked # Nobody /\ tmp # <<>>
  /\ dropped' = dropped \cup Elements(tmp)
  /\ tmp' = <<>>
  /\ asked' = Nobody
  /\ stopped' = (asked \in toAsk)
  /\ UNCHANGED <<now, timelineVars, queueVars, strand, boxes, toAsk, phase, said, view, sentTo>>

Answer ==
  /\ asked # Nobody /\ phase = "end" /\ tmp = <<>>
  /\ asked' = Nobody
  /\ toAsk' = toAsk \ {asked}
  /\ UNCHANGED <<now, stopped, timelineVars, queueVars, strand, boxes, phase, tmp, histories>>

-----------------------------------------------------------------------------
StrandStep == RunRequest \/ RunPost \/ RunRecall

WorkRatioStep == FlushRequests \/ FlushRecalls \/ Handle \/ HandlerThrows \/ Answer

Tick == \E R \in SUBSET Goals : NewTick(R)

AgentStep ==
  \/ Tick
  \/ \E s \in Servers : Ask(s)
  \/ WorkRatioStep

Next ==
  \/ \E s \in Servers, f \in BOOLEAN : Provide(s, f)
  \/ \E s \in Servers : Unprovide(s)
  \/ \E g \in Goals : PostGoal(g) \/ PostRecall(g)
  \/ \E g \in Goals : CallPostGoal(g) \/ CallPostRecall(g)
  \/ \E R \in SUBSET Goals : DispatchAhead(R)
  \/ StrandStep
  \/ AgentStep

Spec == Init /\ [][Next]_vars

(* The threads that run the strand make progress, and so does the thread   *)
(* of the agent; its deliberation loop ends when the clock ticks.          *)
FairSpec == Spec /\ WF_vars(StrandStep) /\ WF_vars(AgentStep) /\ SF_vars(Tick)

-----------------------------------------------------------------------------
(* Properties                                                              *)

(* The pending queue stays sorted although dispatch raises the lower       *)
(* bounds of the goals it visits: post_goal and recall, which stop their   *)
(* search at the first goal that comes after, depend on it.                *)
PendingSorted ==
  \A i, j \in DOMAIN pending : i < j => ~Before(pending[j], pending[i])

(* A goal waits in one place at most, so it is not requested twice.        *)
Requested(s) == {strand[i].goal : i \in {k \in DOMAIN strand :
                                          strand[k].op = "request" /\ strand[k].to = s}}
                \cup Elements(requests[s])
BeingHandled == IF asked # Nobody /\ phase = "recalls" THEN Elements(tmp) ELSE {}

OnePlace ==
  /\ \A i, j \in DOMAIN pending : pending[i] = pending[j] => i = j
  /\ \A s \in Servers : (Requested(s) \cup BeingHandled) \cap Elements(pending) = {}
  /\ \A s, q \in Servers : s # q => Requested(s) \cap Requested(q) = {}

(* What the client said last is what the owner was told last, as soon as   *)
(* nothing about the goal is under way, unless a handler threw or the      *)
(* timeline was given up since.                                            *)
Settled(g) ==
  /\ \A i \in DOMAIN strand : strand[i].goal # g
  /\ g \notin Elements(tmp)
  /\ \A s \in Servers : g \notin Elements(requests[s]) \cup Elements(recalls[s])

LastWordHolds ==
  \A g \in Goals : sentTo[g] # Nobody /\ Settled(g) /\ g \notin dropped =>
    view[sentTo[g]][g] = IF said[g] = "recalled" THEN "recalled" ELSE "requested"

(* A goal sent to a server is handled by handleRequest, unless the         *)
(* exception of a handler lost it or stopped the agent: it stays neither   *)
(* in the strand, nor in m_sync_goals, nor in the local list of workRatio. *)
RequestsReachHandler ==
  \A g \in Goals, s \in Servers :
    g \in Requested(s) ~> (view[s][g] = "requested" \/ g \in dropped \/ stopped)

(* A goal does not stay in the pending queue for ever.  If it must start   *)
(* by some date it leaves whatever the owner does and whatever sending     *)
(* throws: the dispatch, which looks at the queue up to a window, finds it *)
(* in the past at last.  Its time is to be over before the clock of the    *)
(* model stops.                                                            *)
Bounded(g) == StartUb[g] < MaxTick /\ StartUb[g] + MinDuration[g] <= MaxTick + 1

BoundedGoalsLeave ==
  \A g \in Goals :
    Bounded(g) /\ g \in Elements(pending) ~> (g \notin Elements(pending) \/ stopped)

(* A goal that may start at any later date, as it does by default, is      *)
(* never in the past: nothing but a recall removes it while the timeline   *)
(* refuses goals or the goal is non-postable.  But that is the only way to *)
(* wait for ever: if the timeline takes goals from some point on and the   *)
(* goal is not marked any more, it is sent, even though the dispatches     *)
(* that could not send it moved its start, and other goals stand before    *)
(* it in the queue.                                                        *)
OpenGoalsLeave ==
  \A g \in Goals :
    StartUb[g] = PlusInf /\ <>[](Accepts /\ g \notin blocked)
      => <>[](g \notin Elements(pending) \/ stopped)

(* Both: what is pending leaves the queue (external::dispatch), unless it  *)
(* has no latest start and is refused again and again.                     *)
PendingGoalsLeave == BoundedGoalsLeave /\ OpenGoalsLeave
=============================================================================
