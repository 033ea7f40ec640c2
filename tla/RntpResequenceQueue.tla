------------------------- MODULE RntpResequenceQueue -------------------------
(***************************************************************************)
(* The consumer's resequencing queue (RntpResequenceQueue in               *)
(* src/ns-3/src/ndnSIM/apps/generic-consumer.cpp).  The consumer strategy *)
(* hands each dataID to the application at most once, in any order         *)
(* (RntpTransport!AtMostOnceDelivery); receiveData releases the ones that *)
(* continue the sequence, parks the others in q_seq (a min-heap by dataID) *)
(* and q_time (a FIFO by arrival), and autoDequeueTask events release      *)
(* parked ones after maxWaitTime.                                          *)
(*                                                                         *)
(* Time is a discrete clock.  Every receiveData schedules its own          *)
(* autoDequeueTask: curAutoDequeueTaskEvent is never assigned, so the      *)
(* Remove of the previous event never happens and events accumulate; the  *)
(* pending events are a bag of firing times.                               *)
(***************************************************************************)
EXTENDS Integers, Sequences, FiniteSets, Bags, SequencesExt

CONSTANTS
    NData,     \* the producer emits dataIDs 0..NData-1
    Size,      \* the queueSize given to the constructor
    MaxWait,   \* maxWaitTime, in clock ticks
    MaxTime    \* bound: the last clock tick explored

ASSUME NData >= 1 /\ Size >= 1 /\ MaxWait >= 1 /\ MaxTime >= 0

VARIABLES
    lastDataId,  \* -1 until the first release
    qseq,        \* q_seq: set of DataElement [d |-> dataID, t |-> arriveTime]
    qtime,       \* q_time: Seq of DataElement, oldest first
    tasks,       \* pending autoDequeueTask events: bag of firing times
    now,         \* Simulator::Now()
    arrived,     \* dataIDs already handed over by the strategy
    released,    \* dataIDs passed to onDataReseq, in order
    behind       \* history: dataIDs parked at or below lastDataId

vars == <<lastDataId, qseq, qtime, tasks, now, arrived, released, behind>>

DataID == 0..(NData - 1)

\* mutant: DataElement::operator< reversed, so q_seq.top() is the greatest
TopMax(S) == CHOOSE e \in S : \A f \in S : e.d >= f.d

\* q_seq.top(): the element with the least dataID
Top(S) == CHOOSE e \in S : \A f \in S : e.d <= f.d

(* The operations work on a record of the queue's fields                   *)
(* [last, qseq, qtime, out, tasks].                                         *)

\* mutant: the skip and flush pops advance lastDataId as the contiguous
\* loop does (++lastDataId) instead of recording the popped dataID
ReleaseTopIncrement(R, e) ==
    [R EXCEPT !.qseq = @ \ {e}, !.out = Append(@, e.d), !.last = @ + 1]

\* sendData of element e, recording lastDataId = e.d
ReleaseTop(R, e) ==
    [R EXCEPT !.qseq = @ \ {e}, !.out = Append(@, e.d), !.last = e.d]

\* first loop of releaseQueue: pop the top while it continues the sequence
RECURSIVE ReleaseContiguous(_)
ReleaseContiguous(R) ==
    IF R.qseq # {} /\ Top(R.qseq).d = R.last + 1
    THEN ReleaseContiguous(ReleaseTop(R, Top(R.qseq)))
    ELSE R

\* second loop: pop expired q_time entries, returning the new q_time and the
\* greatest expired dataID (-1 if none)
RECURSIVE Expire(_, _, _)
Expire(qt, t, dmax) ==
    IF qt # <<>> /\ Head(qt).t <= t - MaxWait
    THEN Expire(Tail(qt), t, IF dmax < Head(qt).d THEN Head(qt).d ELSE dmax)
    ELSE [qtime |-> qt, dmax |-> dmax]

\* third loop: release every parked element up to dmax
RECURSIVE Flush(_, _)
Flush(R, dmax) ==
    IF R.qseq # {} /\ Top(R.qseq).d <= dmax THEN Flush(ReleaseTop(R, Top(R.qseq)), dmax)
    ELSE R

FlushExpired(R, X) ==
    IF X.dmax = -1 THEN [R EXCEPT !.qtime = X.qtime]
    ELSE Flush([R EXCEPT !.qtime = X.qtime], X.dmax)

AfterContiguous(R, t) ==
    IF R.qseq = {} THEN R ELSE FlushExpired(R, Expire(R.qtime, t, -1))

releaseQueue(R, t) == AfterContiguous(ReleaseContiguous(R), t)

\* mutant: the skip policy also pops q_time.front(), as if the two
\* containers held their elements in the same order
MakeRoomBoth(R) ==
    IF Cardinality(R.qseq) = Size
    THEN [ReleaseTop(R, Top(R.qseq)) EXCEPT !.qtime = Tail(@)]
    ELSE R

\* the skip policy: a full q_seq releases its top before the push
MakeRoom(R) ==
    IF Cardinality(R.qseq) = Size THEN ReleaseTop(R, Top(R.qseq)) ELSE R

\* schedule autoDequeueTask at q_time.front().arriveTime + maxWaitTime
ScheduleRelease(R) ==
    IF R.qseq # {} THEN [R EXCEPT !.tasks = @ (+) SetToBag({Head(R.qtime).t + MaxWait})]
    ELSE R

Park(R, e) == [R EXCEPT !.qseq = @ \cup {e}, !.qtime = Append(@, e)]

\* mutant: the autoDequeueTask is scheduled before releaseQueue expires the
\* old q_time entries
receiveDataScheduleFirst(R, d, t) ==
    IF R.last = -1 \/ d = R.last + 1
    THEN [R EXCEPT !.out = Append(@, d), !.last = d]
    ELSE releaseQueue(ScheduleRelease(Park(MakeRoom(R), [d |-> d, t |-> t])), t)

receiveData(R, d, t) ==
    IF R.last = -1 \/ d = R.last + 1
    THEN [R EXCEPT !.out = Append(@, d), !.last = d]
    ELSE ScheduleRelease(releaseQueue(Park(MakeRoom(R), [d |-> d, t |-> t]), t))

-----------------------------------------------------------------------------
Fields == [last |-> lastDataId, qseq |-> qseq, qtime |-> qtime, out |-> released,
           tasks |-> tasks]

Apply(R) ==
    /\ lastDataId' = R.last
    /\ qseq' = R.qseq
    /\ qtime' = R.qtime
    /\ released' = R.out
    /\ tasks' = R.tasks

Init ==
    /\ lastDataId = -1
    /\ qseq = {}
    /\ qtime = <<>>
    /\ tasks = EmptyBag
    /\ now = 0
    /\ arrived = {}
    /\ released = <<>>
    /\ behind = {}

\* GenericConsumer::OnData: the strategy delivers capsule d
OnData(d) ==
    /\ d \notin arrived
    /\ Apply(receiveData(Fields, d, now))
    /\ arrived' = arrived \cup {d}
    /\ behind' = IF lastDataId # -1 /\ d # lastDataId + 1 /\ d <= MakeRoom(Fields).last
                 THEN behind \cup {d} ELSE behind
    /\ UNCHANGED now

\* one pending autoDequeueTask fires
autoDequeueTask ==
    /\ BagIn(now, tasks)
    /\ Apply(releaseQueue([Fields EXCEPT !.tasks = @ (-) SetToBag({now})], now))
    /\ UNCHANGED <<now, arrived, behind>>

\* the clock advances once every event due now has fired
Tick ==
    /\ now < MaxTime
    /\ ~BagIn(now, tasks)
    /\ now' = now + 1
    /\ UNCHANGED <<lastDataId, qseq, qtime, tasks, arrived, released, behind>>

Next ==
    \/ \E d \in DataID : OnData(d)
    \/ autoDequeueTask
    \/ Tick

Spec == Init /\ [][Next]_vars

-----------------------------------------------------------------------------
(* Properties                                                              *)

Element == [d : DataID, t : 0..MaxTime]

TypeOK ==
    /\ lastDataId \in -1..(NData - 1)
    /\ qseq \subseteq Element
    /\ qtime \in Seq(Element)
    /\ IsABag(tasks) /\ BagToSet(tasks) \subseteq Nat
    /\ now \in 0..MaxTime
    /\ arrived \subseteq DataID
    /\ released \in Seq(DataID)
    /\ behind \subseteq arrived

\* Every element parked in q_seq still has its entry in q_time.  receiveData
\* reads q_time.front() whenever q_seq is non-empty, although the
\* contiguous release and the skip policy pop q_seq alone and only expiry
\* pops q_time; an empty q_time there is undefined behaviour.
QTimeCoversQSeq == \A e \in qseq : e \in ToSet(qtime)

\* No autoDequeueTask is scheduled in the past: the delay
\* front.arriveTime + maxWaitTime - now that receiveData passes to
\* Simulator::Schedule is positive, because releaseQueue has expired the old
\* q_time entries (delivered ones included) before it is computed.
TimersAhead == \A t \in BagToSet(tasks) : t >= now

\* lastDataId moves back (the expiry flush at line 301 records the dataID
\* it releases) only to an element that was already at or below it when
\* it was parked: a late copy, or one the skip policy overtook by
\* releasing the top before the push.  Every other parked element stays
\* ahead of lastDataId, because the skip policy, the contiguous loop and
\* the flush all release the least parked dataID first.
ParkedAheadUnlessBehind == \A e \in qseq : e.d \notin behind => e.d > lastDataId

\* Spec 4.10 step 6: a single auto-release timer is kept for the oldest
\* arrival + maxWaitTime, so no element waits in q_seq longer than
\* maxWaitTime.
HoldBounded == \A e \in qseq : now <= e.t + MaxWait

====
