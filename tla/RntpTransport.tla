---------------------------- MODULE RntpTransport ----------------------------
(***************************************************************************)
(* Hop-by-hop capsule transport of the RNTP forwarding strategy           *)
(* (src/ns-3/src/ndnSIM/NFD/daemon/fw/rntp-strategy*.cpp) for one          *)
(* transport, i.e. one (consumer, producer-prefix) pair, after route       *)
(* discovery has installed the routes.                                     *)
(*                                                                         *)
(* Every node runs the same single-threaded strategy.  A handler runs to   *)
(* completion, so each receive, timer and application event is one atomic *)
(* action that models the whole handler, including the queue drains it    *)
(* triggers.  Per node the model keeps the TransportStates of the pair     *)
(* (capsule queue, SendCapStates, sentDataIDAndNextHops, window), the      *)
(* ChannelQualityStates (heard neighbours, smoothed quality, broken mark) *)
(* and the pending per-capsule retry events.  Transmissions are wireless  *)
(* broadcasts: one message per neighbour, each lost independently.         *)
(***************************************************************************)
EXTENDS Integers, Sequences, FiniteSets, SequencesExt, TLC

CONSTANTS
    Node,          \* node IDs
    Consumer,      \* the consumer node of the transport
    Producer,      \* the node whose application produces the capsules
    Nbr,           \* Nbr[n]: the nodes in radio range of n
    Routes,        \* Routes[n]: route table of n for the pair, in insertion order
    NData,         \* the producer application emits dataIDs 0..NData-1
    MaxRetry,      \* capsuleRetryingMaxTimes
    InitWin,       \* congestionControlInitWin
    InitThres,     \* congestionControlSlowStartThres
    QLevels,       \* abstract smoothed channel-quality values (positive)
    RankPeriod,    \* nTimesRetried is kept modulo RankPeriod (see ASSUME)
    NoNode,        \* the sentinel 0xffffffff / -1 next hop
    Absent,        \* no SendCapState for a dataID
    NoTimer,       \* no event ID stored
    MaxLoss,       \* bound: receptions lost over a behaviour
    MaxBreaks,     \* bound: link liveness timeouts over a behaviour
    TSConsumerID   \* TransportStates::consumerID: never assigned, so the
                   \* wake loop reads an indeterminate value

DataID == 0..(NData - 1)

(* A route is [ids |-> node IDs from the consumer to this node,             *)
(* fq |-> qualities of all hops but the last, fixed at discovery].         *)
ASSUME /\ Consumer \in Node /\ Producer \in Node /\ Consumer # Producer
       /\ \A n \in Node : Nbr[n] \subseteq Node \ {n}
       /\ \A n \in Node : \A i \in 1..Len(Routes[n]) :
             LET r == Routes[n][i] IN
               /\ Len(r.ids) >= 2 /\ r.ids[1] = Consumer /\ Last(r.ids) = n
               /\ Len(r.fq) = Len(r.ids) - 2
       /\ MaxRetry >= 1 /\ InitWin >= 1 /\ InitThres >= 1
       /\ QLevels \subseteq Nat \ {0}
       \* rank = nTimesRetried + 1 is only used as rank % Len(ranked): keeping
       \* nTimesRetried modulo a common multiple of every length is exact.
       /\ \A n \in Node : \A k \in 1..Len(Routes[n]) : RankPeriod % k = 0

VARIABLES
    queue,      \* queue[n]: capSendQueue.buffer, a Seq of CapsuleToSend
    nHidden,    \* nHidden[n]: capSendQueue.nHiddenElements
    scs,        \* scs[n][d]: sendCapStates[d] = [st (sendTimes), down (nodeIDs_down), ev]
    sent,       \* sent[n]: sentDataIDAndNextHops as <<dataID, nextHop>> pairs
    window,     \* window[n]
    thres,      \* thres[n]: slowStartThres
    timers,     \* timers[n]: pending sendCapsuleIterative events
    heard,      \* heard[n]: neighbours with a ChannelQualityStates entry
    qual,       \* qual[n][s]: quality_smooth of the link s -> n
    broken,     \* broken[n]: s such that hop s -> n is QUALITY_BROKEN in the routes
    net,        \* messages in the air, one per (transmission, receiver)
    nextData,   \* GenericSensorApp::dataId
    delivered,  \* capsules handed to the consumer's application face, in order
    nLost,      \* receptions lost so far (environment)
    nBreaks     \* markChannelBroken events so far (environment)

vars == <<queue, nHidden, scs, sent, window, thres, timers, heard, qual,
          broken, net, nextData, delivered, nLost, nBreaks>>

Codes == {"FROM_PRODUCER", "FROM_PREVIOUS_HOP", "FOR_RETRYING"}

-----------------------------------------------------------------------------
(* Sequence scans used by the handlers.  Values a definition uses more than *)
(* once are passed to a helper as arguments.                                *)

\* index of the first occurrence of x in s, 0 if none
FirstIdx(s, x) == SelectInSeq(s, LAMBDA y : y = x)
\* index of the last occurrence of x in s, 0 if none
LastIdx(s, x) == SelectLastInSeq(s, LAMBDA y : y = x)

\* a scan that stops at index k, or runs off the end if k = 0
StopAt(k, s) == IF k = 0 THEN Len(s) + 1 ELSE k

NodeBefore(k, s) == IF k = 1 THEN NoNode ELSE s[k - 1]

\* getNextHop: the node before the first occurrence of n (NoNode if n is
\* first or s is empty; the last node if n is absent)
NextHopOf(n, s) == NodeBefore(StopAt(FirstIdx(s, n), s), s)

\* addDownStreamNodes: every node before the first occurrence of n
DownNodes(n, s) == ToSet(SubSeq(s, 1, StopAt(FirstIdx(s, n), s) - 1))

\* the nodes after the last occurrence of n (all of s if n is absent):
\* prevNodes of matchRoute/lookupRoute
PrevNodes(n, s) == ToSet(SubSeq(s, LastIdx(s, n) + 1, Len(s)))

AfterIdx(k, s) == IF k = 0 THEN <<>> ELSE SubSeq(s, k + 1, Len(s))

\* the part of the capsule path behind n that a pivot re-appends
AfterLast(n, s) == AfterIdx(LastIdx(s, n), s)

ThroughIdx(j, s) == IF j = 0 THEN <<>> ELSE SubSeq(s, 1, j)

\* getUpstreamNodeIDsFromCapsule: nodes after the first n up to and
\* including trans; empty if n is absent or trans does not follow it
getUpstreamNodeIDsFromCapsule(n, s, trans) ==
    ThroughIdx(FirstIdx(AfterIdx(FirstIdx(s, n), s), trans), AfterIdx(FirstIdx(s, n), s))

-----------------------------------------------------------------------------
(* Node-local state.  A handler reads the local record of its node,        *)
(* transforms it as the code does, and commits it; out collects the        *)
(* transmissions of the handler.                                           *)

Local(n) == [q |-> queue[n], nh |-> nHidden[n], scs |-> scs[n], sent |-> sent[n],
             win |-> window[n], thr |-> thres[n], tm |-> timers[n],
             heard |-> heard[n], qual |-> qual[n], bk |-> broken[n], out |-> {}]

Commit(n, L) ==
    /\ queue' = [queue EXCEPT ![n] = L.q]
    /\ nHidden' = [nHidden EXCEPT ![n] = L.nh]
    /\ scs' = [scs EXCEPT ![n] = L.scs]
    /\ sent' = [sent EXCEPT ![n] = L.sent]
    /\ window' = [window EXCEPT ![n] = L.win]
    /\ thres' = [thres EXCEPT ![n] = L.thr]
    /\ timers' = [timers EXCEPT ![n] = L.tm]
    /\ heard' = [heard EXCEPT ![n] = L.heard]
    /\ qual' = [qual EXCEPT ![n] = L.qual]
    /\ broken' = [broken EXCEPT ![n] = L.bk]


-----------------------------------------------------------------------------
(* CapsuleQueue (rntp-strategy-capsule-queue.cpp).  An element is          *)
(* [d, hidden, code, nr (nTimesRetried), path (capInfo.nodeIDs),           *)
(* trans (capInfo.transHopNodeID)].  dataIDsInBuffer is always the set of  *)
(* the buffer's dataIDs, so it is read off the buffer.                      *)

IDsInBuffer(L) == {L.q[i].d : i \in DOMAIN L.q}

countElements(L) == Len(L.q) - L.nh

\* getFront / transientlyPopElement both pick the first visible element
FrontIdx(L) == SelectInSeq(L.q, LAMBDA e : ~e.hidden)

pushElement(L, e) == [L EXCEPT !.q = Append(@, [e EXCEPT !.hidden = FALSE])]

\* transientlyPopElement, given the index of the front element
transientlyPopElement(L, k) == [L EXCEPT !.q[k].hidden = TRUE, !.nh = @ + 1]

removeElement(L, d) ==
    [L EXCEPT !.q = SelectSeq(@, LAMBDA e : e.d # d),
              !.nh = @ - Cardinality({i \in DOMAIN L.q : L.q[i].d = d /\ L.q[i].hidden})]

\* restoreElement followed by the retry bookkeeping of sendCapsuleIterative
\* (lines 765-771): the first element with dataID d is made visible again
\* and turned into a FOR_RETRYING element
RestoreAt(L, i) ==
    [L EXCEPT !.q[i] = [@ EXCEPT !.hidden = FALSE, !.code = "FOR_RETRYING",
                                 !.nr = IF L.q[i].code = "FOR_RETRYING"
                                        THEN (@ + 1) % RankPeriod ELSE 0],
              !.nh = IF L.q[i].hidden THEN @ - 1 ELSE @]

RestoreForRetry(L, d) == RestoreAt(L, SelectInSeq(L.q, LAMBDA e : e.d = d))

-----------------------------------------------------------------------------
(* RntpCongestionControl (rntp-strategy-congestion-control.cpp).           *)

onCapAckReceived(L) ==
    IF L.win >= 1 /\ L.win < L.thr THEN [L EXCEPT !.win = @ * 2]
    ELSE [L EXCEPT !.win = @ + 1, !.thr = @ + 1]

\* mutant: the threshold is halved without the floor at 1
onCapAckTimeoutNoFloor(L, nextHop) ==
    IF nextHop = NoNode THEN [L EXCEPT !.win = 0]
    ELSE [L EXCEPT !.win = IF L.win \div 2 = 0 THEN 1 ELSE L.win \div 2, !.thr = @ \div 2]

onCapAckTimeout(L, nextHop) ==
    IF nextHop = NoNode THEN [L EXCEPT !.win = 0]
    ELSE LET w == IF L.win > 0 THEN L.win \div 2 ELSE L.win
             t == L.thr \div 2
         IN [L EXCEPT !.win = IF w = 0 THEN 1 ELSE w, !.thr = IF t = 0 THEN 1 ELSE t]

onChannelWaken(L) ==
    IF L.win = 0 THEN [L EXCEPT !.win = InitWin, !.thr = InitThres] ELSE L

-----------------------------------------------------------------------------
(* Route table of the pair.  Route i of node n is Routes[n][i]; the        *)
(* quality of its last hop (from its second-to-last node into n) is the    *)
(* node's current smoothed quality of that link, or QUALITY_BROKEN.        *)

RouteIdx(n) == 1..Len(Routes[n])

\* the second-to-last node of a route: getNeighboredIDsInRoutes
RouteNbr(n, i) == Routes[n][i].ids[Len(Routes[n][i].ids) - 1]

\* routes_all at n: the RoutesPerPair of the transport's pair
RoutesAll(n) ==
    {[consumerNodeID |-> Consumer, producerPrefix |-> "prefix", routes |-> Routes[n]]}

\* getNeighboredIDsInRoutes(consumerID, prefix): the second-to-last node of
\* every route of length > 1 of the pairs not skipped; a pair is skipped
\* only when both its consumer and its prefix differ.
getNeighboredIDsInRoutes(n, consumerID, prefix) ==
    UNION {{RouteNbr(n, i) : i \in {i \in DOMAIN rp.routes : Len(rp.routes[i].ids) > 1}} :
           rp \in {rp \in RoutesAll(n) :
                    ~(rp.consumerNodeID # consumerID /\ rp.producerPrefix # prefix)}}

IsBrokenRoute(L, n, i) == RouteNbr(n, i) \in L.bk

\* refreshRouteMetric: -1 if a hop is broken, else prod^(1/(2k)) over the
\* k hop qualities, kept exactly as the pair <<prod, k>> (prod >= 1)
Metric(L, n, i) ==
    IF IsBrokenRoute(L, n, i) THEN <<-1, 1>>
    ELSE <<FoldSeq(LAMBDA x, y : x * y, L.qual[RouteNbr(n, i)], Routes[n][i].fq),
           Len(Routes[n][i].fq) + 1>>

\* metric a strictly below metric b
MetricBelow(a, b) ==
    \/ a[1] < 0 /\ b[1] >= 0
    \/ a[1] >= 0 /\ b[1] >= 0 /\ a[1] ^ b[2] < b[1] ^ a[2]

\* the insertion sort of lookupRoute puts route i (metric a) before route j
\* (metric b): higher metric first, ties in table order
RankedBefore(a, b, i, j) == MetricBelow(b, a) \/ (~MetricBelow(a, b) /\ i < j)

MatchAt(L, n, i) == IF i = 0 \/ IsBrokenRoute(L, n, i) THEN 0 ELSE i

\* matchRoute: the first route of the table that is a prefix of the capsule
\* path; NULL if there is none or if that route has a broken hop
matchRoute(L, n, path) == MatchAt(L, n, SelectInSeq(Routes[n], LAMBDA r : IsPrefix(r.ids, path)))

\* the routes that avoid every node in prev, in table order
LoopFree(n, prev) ==
    SelectSeq([k \in RouteIdx(n) |-> k], LAMBDA k : ToSet(Routes[n][k].ids) \cap prev = {})

PickRanked(ranked, rank) == IF Len(ranked) = 0 THEN 0 ELSE ranked[(rank % Len(ranked)) + 1]

\* lookupRoute: drop the routes through a node after the last occurrence of
\* n in the path, rank the rest by descending metric (insertion sort, ties
\* keep table order) and take entry rank % size; 0 (NULL) if none is left
lookupRoute(L, n, path, rank) ==
    PickRanked(SortSeq(LoopFree(n, PrevNodes(n, path)),
                       LAMBDA i, j : RankedBefore(Metric(L, n, i), Metric(L, n, j), i, j)),
               rank)

-----------------------------------------------------------------------------
(* checkCapsuleArrivalDirection for a capsule heard by n from trans        *)

\* cur, tr: first indices of n and of trans in the path (0 if absent)
DirectionAt(n, cur, tr, trans) ==
    CASE cur # 0 /\ tr # 0 /\ cur > 1 /\ cur < tr -> "FROM_UPSTREAM"
      [] cur # 0 /\ tr # 0 /\ cur > tr             -> "FROM_DOWNSTREAM"
      [] cur = 0 /\ tr # 0 /\ \E i \in RouteIdx(n) : trans \in ToSet(Routes[n][i].ids)
                                                    -> "FROM_DOWNSTREAM"
      [] OTHER                                      -> "FROM_OTHERS"

Direction(n, path, trans) == DirectionAt(n, FirstIdx(path, n), FirstIdx(path, trans), trans)

-----------------------------------------------------------------------------
(* Transmissions.  The strategy broadcasts every Capsule and CapsuleAck on  *)
(* its net-device face; the model keeps one message per receiver that acts *)
(* on it.  A receiver that takes a capsule from neither upstream nor        *)
(* downstream, or an ack that does not name it, only samples the channel,   *)
(* which is exactly what an echo of the sender does (RecvEcho), so those    *)
(* copies are left out.                                                     *)

Msg(kind, src, dst, d, path, ups) ==
    [kind |-> kind, src |-> src, dst |-> dst, d |-> d, path |-> path, ups |-> ups]

\* onReceiveCapsule: the consumer takes every capsule; another node acts on
\* one that comes from up- or downstream of it in the capsule's path
HeedsCapsule(r, n, path) ==
    r = Consumer \/ Direction(r, path, n) \in {"FROM_UPSTREAM", "FROM_DOWNSTREAM"}

\* onReceiveCapsuleAck: only the upstream nodes the ack names act on it
HeedsAck(r, ups) == r \in ToSet(ups)

Heeds(r, kind, n, path, ups) ==
    IF kind = "Capsule" THEN HeedsCapsule(r, n, path) ELSE HeedsAck(r, ups)

Transmit(L, n, kind, d, path, ups) ==
    [L EXCEPT !.out = @ \cup {Msg(kind, n, r, d, path, ups) :
                                r \in {x \in Nbr[n] : Heeds(x, kind, n, path, ups)}}]

sendCapsuleACK(L, n, d, ups) == Transmit(L, n, "CapsuleAck", d, <<>>, ups)

-----------------------------------------------------------------------------
(* The send path: sendCapsule, sendCapsuleIterative, sendCapsulesInQueue,  *)
(* sendCapsuleViaQueue and dealWithAck (rntp-strategy.cpp).  A retry event *)
(* holds its own copy of capInfo and of the iteration parameters:          *)
(* [d, path, nr, code, prev (transHopNodeID_prev)].  The functions of the  *)
(* send path return [l |-> local state, r |-> result, path |-> the         *)
(* capInfo.nodeIDs the call leaves].                                       *)

NewSendCapState == [st |-> 0, down |-> {}, ev |-> NoTimer]

ClearState(L, d) == [L EXCEPT !.scs[d] = Absent]

\* the route chosen for a capsule: matchRoute, else lookupRoute with rank
\* nTimesRetried + 1 for a retried capsule and 0 otherwise
OrLookup(m, L, n, path, p) ==
    IF m # 0 THEN m
    ELSE lookupRoute(L, n, path, IF p.code = "FOR_RETRYING" THEN p.nr + 1 ELSE 0)

\* mutant: a capsule that ran out of retries is dropped instead of restored
GiveUpDropping(L, n, d, path, rt) ==
    [l |-> onCapAckTimeout(removeElement(ClearState(L, d), d),
                           IF rt = 0 THEN NoNode ELSE NextHopOf(n, Routes[n][rt].ids)),
     r |-> IF rt = 0 THEN "NO_ROUTE" ELSE "EXCEED", path |-> path]

\* no route, or the hop was tried capsuleRetryingMaxTimes times: give the
\* capsule back to the queue as FOR_RETRYING and tell congestion control
GiveUp(L, n, d, path, rt) ==
    [l |-> onCapAckTimeout(RestoreForRetry(ClearState(L, d), d),
                           IF rt = 0 THEN NoNode ELSE NextHopOf(n, Routes[n][rt].ids)),
     r |-> IF rt = 0 THEN "NO_ROUTE" ELSE "EXCEED", path |-> path]

\* the next hop acknowledged this capsule before: acknowledge upstream and
\* drop it
AlreadySent(L, n, d, path, ups) ==
    [l |-> removeElement(ClearState(IF ups # <<>> THEN sendCapsuleACK(L, n, d, ups) ELSE L, d), d),
     r |-> "ALREADY_SENT", path |-> path]

\* broadcast along newPath, count the send and re-arm the per-hop timeout
\* (an event ev is armed while sendTimes <= capsuleRetryingMaxTimes)
SendArmed(L, n, d, newPath, cs, ev) ==
    [l |-> [L EXCEPT !.scs[d] = [st |-> cs.st + 1,
                                 down |-> cs.down \cup DownNodes(n, newPath),
                                 ev |-> IF cs.st + 1 <= MaxRetry THEN ev ELSE cs.ev],
                     !.tm = IF cs.st + 1 <= MaxRetry THEN @ \cup {ev} ELSE @],
     r |-> "NORM", path |-> newPath]

\* pivot: the chosen route, then the part of the path behind this node
SendOn(L, n, d, newPath, p) ==
    SendArmed(Transmit(L, n, "Capsule", d, newPath, <<>>), n, d, newPath, L.scs[d],
              [d |-> d, path |-> newPath, nr |-> p.nr, code |-> p.code, prev |-> p.prev])

IterWithRoute(L, n, d, path, p, rt) ==
    IF rt = 0 \/ L.scs[d].st = MaxRetry THEN GiveUp(L, n, d, path, rt)
    ELSE IF <<d, NextHopOf(n, Routes[n][rt].ids)>> \in L.sent
         THEN AlreadySent(L, n, d, path, getUpstreamNodeIDsFromCapsule(n, path, p.prev))
         ELSE SendOn(L, n, d, Routes[n][rt].ids \o AfterLast(n, path), p)

\* sendCapsuleIterative(ts, capInfo, params) run by node n
sendCapsuleIterative(L, n, d, path, p) ==
    IF L.scs[d] = Absent THEN [l |-> removeElement(L, d), r |-> "CANCELED", path |-> path]
    ELSE IterWithRoute(L, n, d, path, p, OrLookup(matchRoute(L, n, path), L, n, path, p))

\* capInfo of a queued capsule is the element itself: a NORM send rewrites
\* its nodeIDs
SetPath(L, d, path) ==
    [L EXCEPT !.q = [j \in DOMAIN L.q |-> IF L.q[j].d = d THEN [L.q[j] EXCEPT !.path = path]
                                          ELSE L.q[j]]]

\* sendCapsulesInQueue: up to window times, hide the first visible element,
\* stamp this node as its transHop, and sendCapsule it (a fresh
\* SendCapState, then sendCapsuleIterative on the element's own capInfo).
\* Returns the local state and the dataIDs whose send returned NORM.
RECURSIVE SendLoop(_, _, _, _)

AfterSend(n, i, ids, d, R) ==
    SendLoop(IF R.r = "NORM" THEN SetPath(R.l, d, R.path) ELSE R.l, n, i + 1,
             IF R.r = "NORM" THEN ids \cup {d} ELSE ids)

SendFront(L, n, i, ids, k) ==
    AfterSend(n, i, ids, L.q[k].d,
              sendCapsuleIterative([transientlyPopElement(L, k) EXCEPT !.q[k].trans = n,
                                                                       !.scs[L.q[k].d] = NewSendCapState],
                                   n, L.q[k].d, L.q[k].path,
                                   [nr |-> L.q[k].nr, prev |-> L.q[k].trans, code |-> L.q[k].code]))

SendLoop(L, n, i, ids) ==
    IF i < L.win /\ countElements(L) > 0 THEN SendFront(L, n, i, ids, FrontIdx(L))
    ELSE [l |-> L, ids |-> ids]

sendCapsulesInQueue(L, n) == SendLoop(L, n, 0, {}).l

AckIfNotSent(S, n, d, ups) ==
    IF d \notin S.ids /\ ups # <<>> THEN sendCapsuleACK(S.l, n, d, ups) ELSE S.l

ViaQueue(L, n, d, path, trans, code, ups) ==
    IF d \in IDsInBuffer(L) THEN sendCapsuleACK(L, n, d, ups)
    ELSE AckIfNotSent(SendLoop(pushElement(L, [d |-> d, hidden |-> FALSE, code |-> code, nr |-> 0,
                                               path |-> path, trans |-> trans]), n, 0, {}),
                      n, d, ups)

\* sendCapsuleViaQueue: a capsule already buffered is only acknowledged;
\* otherwise it is queued, the queue drained, and the capsule acknowledged
\* upstream if it was not sent on at once
sendCapsuleViaQueue(L, n, d, path, trans, code) ==
    ViaQueue(L, n, d, path, trans, code, getUpstreamNodeIDsFromCapsule(n, path, trans))

\* mutant: the retry event is not cancelled (no Simulator::Remove)
dealWithAckKeepsTimer(L, n, d, down) ==
  IF L.scs[d] = Absent \/ down \notin L.scs[d].down THEN L
  ELSE sendCapsulesInQueue(removeElement([IF <<d, down>> \notin L.sent THEN onCapAckReceived(L) ELSE L
                                          EXCEPT !.sent = @ \cup {<<d, down>>}, !.scs[d] = Absent], d), n)

\* mutant: every ack counts for congestion control, repeated ones included
\* dealWithAck: the capsule d is known to have reached node down
dealWithAck(L, n, d, down) ==
  IF L.scs[d] = Absent \/ down \notin L.scs[d].down THEN L
  ELSE LET L1 == IF <<d, down>> \notin L.sent THEN onCapAckReceived(L) ELSE L
           L2 == [L1 EXCEPT !.sent = @ \cup {<<d, down>>},
                            !.tm = @ \ {L.scs[d].ev},
                            !.scs[d] = Absent]
       IN sendCapsulesInQueue(removeElement(L2, d), n)

-----------------------------------------------------------------------------
(* updateChannelQuality(from, q) with the smoothed value abstracted to a   *)
(* level: a first sample creates the entry; a later one updates it, and if *)
(* from is a neighbour in the routes of the TransportStates, looked up    *)
(* with its consumerID and prefix, the window is woken and the queue      *)
(* drained.  Either way the link is un-broken and its liveness timer      *)
(* re-armed.                                                               *)

updateChannelQuality(L, n, from, q) ==
  LET L1 == [L EXCEPT !.heard = @ \cup {from}, !.qual[from] = q, !.bk = @ \ {from}]
  IN IF from \in L.heard /\ from \in getNeighboredIDsInRoutes(n, TSConsumerID, "prefix")
     THEN sendCapsulesInQueue(onChannelWaken(L1), n)
     ELSE L1

-----------------------------------------------------------------------------
Init ==
    /\ queue = [n \in Node |-> <<>>]
    /\ nHidden = [n \in Node |-> 0]
    /\ scs = [n \in Node |-> [d \in DataID |-> Absent]]
    /\ sent = [n \in Node |-> {}]
    /\ window = [n \in Node |-> InitWin]
    /\ thres = [n \in Node |-> InitThres]
    /\ timers = [n \in Node |-> {}]
    \* the InterestBroadcast flood was heard from every neighbour but the
    \* producer, which does not propagate it
    /\ heard = [n \in Node |-> Nbr[n] \ {Producer}]
    /\ qual \in [Node -> [Node -> QLevels]]
    /\ broken = [n \in Node |-> {}]
    /\ net = {}
    /\ nextData = 0
    /\ delivered = <<>>
    /\ nLost = 0
    /\ nBreaks = 0

\* commit the handler's local state and put its transmissions in the air
Step(n, L, rest) ==
    /\ Commit(n, L)
    /\ net' = rest \cup L.out

\* GenericSensorApp::sendData hands capsule nextData to the producer's
\* strategy: onReceiveCapsule with an empty path goes to sendCapsuleViaQueue
Produce ==
    /\ nextData < NData
    /\ Step(Producer, sendCapsuleViaQueue(Local(Producer), Producer, nextData,
                                          <<>>, NoNode, "FROM_PRODUCER"), net)
    /\ nextData' = nextData + 1
    /\ UNCHANGED <<delivered, nLost, nBreaks>>

\* mutant: the consumer does not record what it delivered
ConsumerAckForgets(L, n, d, ups, dn) == sendCapsuleACK(L, n, d, ups)

\* onReceiveCapsule at the consumer: deliver once per (dataID, nextHop -1),
\* acknowledge every copy
ConsumerAck(L, n, d, ups, dn) ==
    IF dn \in L.sent THEN sendCapsuleACK(L, n, d, ups)
    ELSE sendCapsuleACK([L EXCEPT !.sent = @ \cup {dn}], n, d, ups)

ConsumerReceive(L, n, m) ==
    ConsumerAck(L, n, m.d, getUpstreamNodeIDsFromCapsule(n, m.path, m.src),
                <<m.d, NextHopOf(n, m.path)>>)

\* onReceiveCapsule after the channel sample, for the arrival direction dir
CapsuleFrom(n, m, L, dir) ==
    /\ Step(n, CASE dir = "FROM_DOWNSTREAM" /\ n # Consumer -> dealWithAck(L, n, m.d, m.src)
                 [] n = Consumer -> ConsumerReceive(L, n, m)
                 [] dir = "FROM_UPSTREAM" ->
                      sendCapsuleViaQueue(L, n, m.d, m.path, m.src, "FROM_PREVIOUS_HOP")
                 [] OTHER -> L,
            net \ {m})
    /\ delivered' = IF n = Consumer /\ <<m.d, NextHopOf(n, m.path)>> \notin L.sent
                    THEN Append(delivered, m.d) ELSE delivered
    /\ UNCHANGED <<nextData, nLost, nBreaks>>

\* onReceiveCapsule at node n for the capsule m heard with quality q
RecvCapsule(n, m, q) ==
    CapsuleFrom(n, m, updateChannelQuality(Local(n), n, m.src, q), Direction(n, m.path, m.src))

\* onReceiveCapsuleAck after the channel sample: acted on only by a node
\* named in upstreamNodeIDs
AckFrom(n, m, L) ==
    /\ Step(n, IF n \in ToSet(m.ups) THEN dealWithAck(L, n, m.d, m.src) ELSE L, net \ {m})
    /\ UNCHANGED <<nextData, delivered, nLost, nBreaks>>

RecvAck(n, m, q) == AckFrom(n, m, updateChannelQuality(Local(n), n, m.src, q))

\* An echo carries nothing but its source, so sendEchoInPeriodical at s and
\* onReceiveEcho at neighbour n are one step (an echo that is lost is one
\* that is never received).
\* sendEchoInPeriodical: every node broadcasts an echo each echoPeriod and
\* reschedules itself, so a neighbour's echo can always arrive
EchoSent(n, s) == s \in Nbr[n]

RecvEcho(n, s, q) ==
    /\ EchoSent(n, s)
    /\ Commit(n, updateChannelQuality(Local(n), n, s, q))
    /\ UNCHANGED <<net, nextData, delivered, nLost, nBreaks>>

Receive(n) ==
    \E m \in net, q \in QLevels :
       /\ m.dst = n
       /\ \/ m.kind = "Capsule" /\ RecvCapsule(n, m, q)
          \/ m.kind = "CapsuleAck" /\ RecvAck(n, m, q)

\* the per-hop timeout event of capsule t.d fires: sendCapsuleIterative on
\* the event's copy of capInfo and params
RetryTimeout(n, t) ==
    /\ t \in timers[n]
    /\ Step(n, sendCapsuleIterative([Local(n) EXCEPT !.tm = @ \ {t}], n, t.d, t.path,
                                    [nr |-> t.nr, prev |-> t.prev, code |-> t.code]).l,
            net)
    /\ UNCHANGED <<nextData, delivered, nLost, nBreaks>>

\* markChannelBroken: the waitMsgEvent of link s -> n fires (it is armed by
\* every sample of s and fires once).  It marks the hop s -> n broken in
\* every route; on a link that ends no route of n it changes nothing.
LinkTimeout(n, s) ==
    /\ s \in heard[n] \ broken[n]
    /\ \E i \in RouteIdx(n) : RouteNbr(n, i) = s
    /\ nBreaks < MaxBreaks
    /\ broken' = [broken EXCEPT ![n] = @ \cup {s}]
    /\ nBreaks' = nBreaks + 1
    /\ UNCHANGED <<queue, nHidden, scs, sent, window, thres, timers, heard, qual,
                   net, nextData, delivered, nLost>>

\* a transmission is not received by one of its neighbours
LoseMsg ==
    /\ nLost < MaxLoss
    /\ \E m \in net : net' = net \ {m}
    /\ nLost' = nLost + 1
    /\ UNCHANGED <<queue, nHidden, scs, sent, window, thres, timers, heard, qual,
                   broken, nextData, delivered, nBreaks>>

Next ==
    \/ Produce
    \/ \E n \in Node : Receive(n)
    \/ \E n, s \in Node : \E q \in QLevels : RecvEcho(n, s, q)
    \/ \E n \in Node : \E t \in timers[n] : RetryTimeout(n, t)
    \/ \E n \in Node : \E s \in Node : LinkTimeout(n, s)
    \/ LoseMsg

Spec == Init /\ [][Next]_vars

-----------------------------------------------------------------------------
(* Properties                                                              *)

Elem == [d : DataID, hidden : BOOLEAN, code : Codes, nr : 0..(RankPeriod - 1),
         path : Seq(Node), trans : Node \cup {NoNode}]
Timer == [d : DataID, path : Seq(Node), nr : 0..(RankPeriod - 1), code : Codes,
          prev : Node \cup {NoNode}]

TypeOK ==
    /\ \A n \in Node :
         /\ queue[n] \in Seq(Elem)
         /\ nHidden[n] \in Nat
         /\ \A d \in DataID : scs[n][d] = Absent \/
               scs[n][d] \in [st : 0..MaxRetry, down : SUBSET Node, ev : Timer \cup {NoTimer}]
         /\ sent[n] \subseteq DataID \X (Node \cup {NoNode})
         /\ window[n] \in Nat /\ thres[n] \in Nat \ {0}
         /\ timers[n] \subseteq Timer
         /\ heard[n] \subseteq Nbr[n] /\ broken[n] \subseteq heard[n]
    /\ qual \in [Node -> [Node -> QLevels]]
    /\ nextData \in 0..NData
    /\ delivered \in Seq(DataID)
    /\ nLost \in 0..MaxLoss /\ nBreaks \in 0..MaxBreaks

\* Custody: once the producer's strategy took capsule d, some node still
\* buffers it or the consumer delivered it.  A node drops a capsule only on
\* an ack (dealWithAck), an overheard downstream transmission
\* (FROM_DOWNSTREAM) or an earlier ack of the next hop (ALREADY_SENT), each
\* of which must imply that a node further on holds it.
NoCapsuleLost ==
    \A d \in 0..(nextData - 1) :
        \/ d \in ToSet(delivered)
        \/ \E n \in Node : d \in IDsInBuffer(Local(n))

\* The consumer hands every dataID to its application at most once, although
\* retries, pivots and overheard copies reach it along several paths
\* (dedupe on sentDataIDAndNextHops in onReceiveCapsule).
AtMostOnceDelivery == \A i, j \in DOMAIN delivered : i < j => delivered[i] # delivered[j]

\* The in-flight bookkeeping of a node agrees: a dataID has a SendCapState
\* iff one buffered copy of it is hidden; that state's retry event is the
\* only pending event for the dataID; every buffered dataID is buffered once;
\* and nHiddenElements counts the hidden elements.  sendCapsuleIterative
\* dereferences the element restoreElement returns, and getFront is only
\* called when countElements() > 0, so each disagreement is a crash or a
\* capsule that is never sent again.
InFlightConsistent ==
    \A n \in Node :
       LET q == queue[n] IN
       /\ \A i, j \in DOMAIN q : i # j => q[i].d # q[j].d
       /\ nHidden[n] = Cardinality({i \in DOMAIN q : q[i].hidden})
       /\ \A d \in DataID :
             scs[n][d] # Absent <=> \E i \in DOMAIN q : q[i].d = d /\ q[i].hidden
       /\ \A t \in timers[n] : scs[n][t.d] # Absent /\ scs[n][t.d].ev = t
       /\ \A d \in DataID : scs[n][d] # Absent => scs[n][d].ev \in timers[n]

====
