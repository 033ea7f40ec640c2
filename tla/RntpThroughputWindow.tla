------------------------- MODULE RntpThroughputWindow -------------------------
(***************************************************************************)
(* What a ThroughputQueue promises (spec section 4.2): the per-second     *)
(* packet counts of the last Capacity seconds in which packets arrived,   *)
(* oldest first.  An arrival in the second of the newest bucket bumps it; *)
(* an arrival in a later second opens a new bucket, dropping the oldest   *)
(* when Capacity buckets are held.                                        *)
(***************************************************************************)
EXTENDS Naturals, Sequences, SequencesExt

CONSTANTS
    Capacity,   \* nodeInfo->thQueueSize
    MaxSecs,    \* bound: the last simulated second
    MaxCount    \* bound: packets counted in one second

VARIABLES window, now

Bucket == [secs : 0..MaxSecs, count : 1..MaxCount]

(* A packet arrives in second t, not before the previous arrival.         *)
Record(t) ==
    /\ t \in now..MaxSecs
    /\ now' = t
    /\ \/ /\ window # <<>> /\ Last(window).secs = t
          /\ Last(window).count < MaxCount
          /\ window' = [window EXCEPT ![Len(window)].count = @ + 1]
       \/ /\ window = <<>> \/ Last(window).secs < t
          /\ window' = Append(IF Len(window) = Capacity THEN Tail(window)
                              ELSE window,
                              [secs |-> t, count |-> 1])

Init == window = <<>> /\ now = 0

Next == \E t \in 0..MaxSecs : Record(t)

Spec == Init /\ [][Next]_<<window, now>>

(* The mean of the closed buckets: every bucket but the newest, whose     *)
(* second is still open, as <<packets, buckets>>.                         *)
MeanRate(w) ==
    <<FoldSeq(LAMBDA b, acc : acc + b.count, 0, Front(w)), Len(w) - 1>>
=============================================================================
