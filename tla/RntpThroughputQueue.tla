-------------------------- MODULE RntpThroughputQueue --------------------------
(***************************************************************************)
(* ThroughputQueue (rntp-strategy-throughput-queue.cpp): the ring buffer  *)
(* of per-second packet counts that updateChannelQuality keeps for every  *)
(* neighbour, recording each arrival and estimating the longest packet    *)
(* inter-arrival time from the mean count of the closed buckets.          *)
(***************************************************************************)
EXTENDS Naturals, Sequences, SequencesExt

CONSTANTS
    Capacity,   \* nodeInfo->thQueueSize
    MaxSecs,    \* bound: the last simulated second
    MaxCount,   \* bound: packets counted in one second
    Unset       \* an element of new ThroughputElement[capacity] never written

ASSUME Capacity \in Nat \ {0} /\ MaxSecs \in Nat /\ MaxCount \in Nat \ {0}

VARIABLES
    buffer,      \* buffer[0..capacity-1]
    frontIndex,
    rearIndex,
    count,
    now          \* Simulator::Now() in whole seconds at the last arrival

vars == <<buffer, frontIndex, rearIndex, count, now>>

Slot == 0..(Capacity - 1)

isEmpty == count = 0
isFull == count = Capacity

(* rear(): the element before rearIndex, wrapping at 0.                   *)
RearIdx == IF rearIndex = 0 THEN Capacity - 1 ELSE rearIndex - 1

(* Mutant: dequeue advances frontIndex without the modulo.               *)
dequeueNoWrap(f, c) == <<f + 1, c - 1>>

(* dequeue(): drop the front element (an empty queue throws; enqueue only *)
(* calls it when the queue is full).                                      *)
dequeue(f, c) == <<(f + 1) % Capacity, c - 1>>

(* Mutant: enqueue writes over the front without dequeuing it.           *)
enqueueNoDequeue(item) ==
    /\ buffer' = [buffer EXCEPT ![rearIndex] = item]
    /\ rearIndex' = (rearIndex + 1) % Capacity
    /\ count' = IF isFull THEN count ELSE count + 1
    /\ UNCHANGED frontIndex

(* enqueue(item): make room by dequeuing when full, write at rearIndex.   *)
enqueue(item) ==
    LET fc == IF isFull THEN dequeue(frontIndex, count)
              ELSE <<frontIndex, count>>
    IN /\ buffer' = [buffer EXCEPT ![rearIndex] = item]
       /\ rearIndex' = (rearIndex + 1) % Capacity
       /\ frontIndex' = fc[1]
       /\ count' = fc[2] + 1

(* recordPacketArrival(time) with secs = floor(time): open a bucket when  *)
(* the queue is empty or the second advanced, else bump the rear bucket.  *)
(* Simulator time never decreases, so the "unexpected" branch for an      *)
(* earlier second is never taken.                                         *)
recordPacketArrival(secs) ==
    /\ secs \in now..MaxSecs
    /\ now' = secs
    /\ \/ /\ isEmpty
          /\ enqueue([secs |-> secs, count |-> 1])
       \/ /\ ~isEmpty /\ buffer[RearIdx].secs = secs
          /\ buffer[RearIdx].count < MaxCount
          /\ buffer' = [buffer EXCEPT ![RearIdx].count = @ + 1]
          /\ UNCHANGED <<frontIndex, rearIndex, count>>
       \/ /\ ~isEmpty /\ secs > buffer[RearIdx].secs
          /\ enqueue([secs |-> secs, count |-> 1])

(* The loop of countPacketMeanArrivalRate from index i, having summed     *)
(* total over elems elements, until count - 1 elements are summed.        *)
RECURSIVE SumClosed(_, _, _)
SumClosed(i, total, elems) ==
    IF elems >= count - 1 THEN <<total, elems>>
    ELSE SumClosed((i + 1) % Capacity, total + buffer[i].count, elems + 1)

(* Mutant: the loop starts at slot 0 instead of frontIndex.              *)
countPacketMeanArrivalRateFromZero ==
    IF isEmpty \/ count = 1 THEN <<-1, 1>>
    ELSE SumClosed(0, 0, 0)

(* countPacketMeanArrivalRate as <<totalPacketCount, elementsCount>>;     *)
(* <<-1, 1>> stands for the -1.0 returned with fewer than two buckets.    *)
countPacketMeanArrivalRate ==
    IF isEmpty \/ count = 1 THEN <<-1, 1>>
    ELSE SumClosed(frontIndex, 0, 0)

Init ==
    /\ buffer = [i \in Slot |-> Unset]
    /\ frontIndex = 0 /\ rearIndex = 0 /\ count = 0
    /\ now = 0

Next == \E secs \in 0..MaxSecs : recordPacketArrival(secs)

Spec == Init /\ [][Next]_vars

-----------------------------------------------------------------------------
(* The buckets the ring holds, from frontIndex on: the refinement mapping  *)
(* onto RntpThroughputWindow.                                             *)
Contents == [i \in 1..count |-> buffer[(frontIndex + i - 1) % Capacity]]

Window == INSTANCE RntpThroughputWindow WITH window <- Contents

TypeOK ==
    /\ frontIndex \in Slot /\ rearIndex \in Slot /\ count \in 0..Capacity
    /\ \A i \in Slot : buffer[i] = Unset \/ buffer[i] \in Window!Bucket
    /\ now \in 0..MaxSecs

(* The ring buffer implements the sliding window of spec section 4.2:     *)
(* with its wrap of rear() at index 0, the dequeue of the oldest bucket   *)
(* when full, and rearIndex, frontIndex and count kept in step, every     *)
(* arrival changes the buckets as the abstract window does.               *)
RefinesWindow == Window!Spec

(* countPacketMeanArrivalRate's ring walk sums exactly the closed         *)
(* buckets: every bucket but the newest, whatever frontIndex the queue    *)
(* has wrapped to.                                                        *)
MeanRateMatches ==
    count >= 2 => countPacketMeanArrivalRate = Window!MeanRate(Contents)
=============================================================================
