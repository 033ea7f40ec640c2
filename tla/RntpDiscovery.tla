---------------------------- MODULE RntpDiscovery ----------------------------
(***************************************************************************)
(* Route discovery and transport termination of the RNTP strategy         *)
(* (rntp-strategy.cpp), for one (prefix, consumer) pair.                   *)
(*                                                                         *)
(* The consumer application's Interest reaches its strategy               *)
(* (afterReceiveInterest), which floods an InterestBroadcast.  Each relay  *)
(* appends itself and the sampled quality to the visited list, records    *)
(* the route (addRoute) and re-floods the first copy only.  The producer   *)
(* records the route and passes one Interest to its application.  Every   *)
(* flood is sent interestSendTimes times, each after a random contention   *)
(* wait (propagateInterests, propagateInterestsAsync).  Later the consumer *)
(* application injects an InterestBroadcast with end = true                *)
(* (terminateTransport), and each node holding TransportStates erases it   *)
(* and re-floods the end wave.                                             *)
(***************************************************************************)
EXTENDS Naturals, Sequences, SequencesExt, Bags, BagsExt, FiniteSets

CONSTANTS
    Node,          \* the nodes, as model values
    Nbr,           \* Nbr[n]: the nodes within radio range of n
    Consumer,      \* the node running GenericConsumer
    Producer,      \* the node whose nodeInfo->prefixes holds the prefix
    SendTimes,     \* nodeInfo->interestSendTimes
    QLevels,       \* the sampled link qualities (SNR), abstracted
    MaxLoss,       \* how many receptions the radio may lose
    NeedToTerminate,     \* GenericConsumer::needToTerminateTransport
    TerminateAfterFlood, \* the termination delay outlasts the flood
    PrefixIndexUB        \* findPrefix may return its uninitialized index

ASSUME /\ Consumer \in Node /\ Producer \in Node /\ Consumer # Producer
       /\ \A n \in Node : Nbr[n] \subseteq Node \ {n}
       /\ \A n, m \in Node : m \in Nbr[n] <=> n \in Nbr[m]
       /\ SendTimes \in Nat \ {0} /\ MaxLoss \in Nat
       /\ {NeedToTerminate, TerminateAfterFlood, PrefixIndexUB} \subseteq BOOLEAN

VARIABLES
    started,     \* the consumer application has sent its Interest
    terminated,  \* terminateTransport has run
    ts,          \* ts[n]: transportStates_all holds the pair at n
    routes,      \* routes[n]: the RoutesPerPair routes at n, in order
    pending,     \* bag of scheduled propagateInterestsAsync events
    net,         \* bag of InterestBroadcast receptions in the air
    nNotified,   \* Interests the producer's strategy sent to its app
    nLost

vars == <<started, terminated, ts, routes, pending, net, nNotified, nLost>>

(* An InterestBroadcast as the receiver extracts it: the transmitting hop *)
(* (transHopNodeID), visitedNodeIDs, channelQualities and end.  The       *)
(* prefix, consumer, nonce and hop count are fixed by the pair or unread. *)
IB(src, ids, cq, end) == [src |-> src, ids |-> ids, cq |-> cq, end |-> end]

(* Mutant: the uninitialized index happens to be negative.               *)
findPrefixUninit(n) == {-1}

(* findPrefix: the index of the prefix in nodeInfo->prefixes, or -1.  The *)
(* index i is never initialized, so a found prefix returns whatever the   *)
(* stack slot holds: any int32, here 0 or -1.                             *)
findPrefix(n) ==
    IF n # Producer THEN {-1}
    ELSE IF PrefixIndexUB THEN {0, -1} ELSE {0}

(* Mutant: addRoute without the scan for a route with the same nodeIDs.  *)
addRouteNoScan(rs, ids, cq) == Append(rs, [ids |-> ids, cq |-> cq])

(* addRoute: a route whose nodeIDs equal the new list is kept as is;      *)
(* otherwise a new Route is appended to the pair's routes.               *)
addRoute(rs, ids, cq) ==
    IF \E i \in DOMAIN rs : rs[i].ids = ids THEN rs
    ELSE Append(rs, [ids |-> ids, cq |-> cq])

(* propagateInterests: schedule the first of SendTimes broadcasts.        *)
propagateInterests(n, ids, cq, end) ==
    pending' = pending (+) SetToBag({[ev |-> IB(n, ids, cq, end),
                                      times |-> SendTimes]})

(* A new TransportStates for the pair at n (congestionControl->init).     *)
CreateStates(n) == ts' = [ts EXCEPT ![n] = TRUE]

Quiet == pending = EmptyBag /\ net = EmptyBag

-----------------------------------------------------------------------------
(* onReceiveInterestBroadcast at n, of m, sampled with quality q; idx is  *)
(* the outcome of findPrefix.  Its first call, updateChannelQuality, is  *)
(* the channel-quality sample RntpTransport models; no decision here      *)
(* reads it.                                                              *)

(* Mutant: the end handler erases the states but does not flood on.      *)
EndWaveNoForward(n, m, q) ==
    \/ /\ n \in ToSet(m.ids) /\ UNCHANGED <<ts, pending>>
    \/ /\ n \notin ToSet(m.ids) /\ UNCHANGED pending
       /\ ts' = [ts EXCEPT ![n] = FALSE]

(* Mutant: the end handler appends a quality even for the consumer's     *)
(* empty visited list.                                                    *)
EndWaveAlwaysQuality(n, m, q) ==
    \/ /\ n \in ToSet(m.ids)
       /\ UNCHANGED <<ts, pending>>
    \/ /\ n \notin ToSet(m.ids)
       /\ ~ts[n]
       /\ UNCHANGED <<ts, pending>>
    \/ /\ n \notin ToSet(m.ids)
       /\ ts[n]
       /\ ts' = [ts EXCEPT ![n] = FALSE]
       /\ propagateInterests(n, Append(m.ids, n), Append(m.cq, q), TRUE)

(* end = true: a visited node returns; a node with states erases them,   *)
(* extends the lists and floods the end wave; any other node returns.    *)
EndWave(n, m, q) ==
    \/ /\ n \in ToSet(m.ids)
       /\ UNCHANGED <<ts, pending>>
    \/ /\ n \notin ToSet(m.ids)
       /\ ~ts[n]
       /\ UNCHANGED <<ts, pending>>
    \/ /\ n \notin ToSet(m.ids)
       /\ ts[n]
       /\ ts' = [ts EXCEPT ![n] = FALSE]
       /\ propagateInterests(n, Append(m.ids, n),
                             IF m.ids # <<>> THEN Append(m.cq, q) ELSE m.cq,
                             TRUE)

(* The producer branch: record the route, and on the first copy create    *)
(* the states and send an Interest to the application face.              *)
AsProducer(n, m, q) ==
    /\ routes' = [routes EXCEPT ![n] =
                    addRoute(@, Append(m.ids, n), Append(m.cq, q))]
    /\ \/ /\ ~ts[n]
          /\ CreateStates(n)
          /\ nNotified' = nNotified + 1
       \/ /\ ts[n]
          /\ UNCHANGED <<ts, nNotified>>
    /\ UNCHANGED pending

(* Mutant: the relay branch without its visited check.                   *)
AsRelayNoVisitedCheck(n, m, q) ==
    /\ routes' = [routes EXCEPT ![n] =
                    addRoute(@, Append(m.ids, n), Append(m.cq, q))]
    /\ \/ /\ ~ts[n]
          /\ CreateStates(n)
          /\ propagateInterests(n, Append(m.ids, n), Append(m.cq, q), FALSE)
       \/ /\ ts[n]
          /\ UNCHANGED <<ts, pending>>
    /\ UNCHANGED nNotified

(* The relay branch: a visited relay returns; otherwise record the route, *)
(* and on the first copy create the states and flood on.                 *)
AsRelay(n, m, q) ==
    \/ /\ n \in ToSet(m.ids)
       /\ UNCHANGED <<ts, routes, pending>>
    \/ /\ n \notin ToSet(m.ids)
       /\ routes' = [routes EXCEPT ![n] =
                       addRoute(@, Append(m.ids, n), Append(m.cq, q))]
       /\ \/ /\ ~ts[n]
             /\ CreateStates(n)
             /\ propagateInterests(n, Append(m.ids, n), Append(m.cq, q), FALSE)
          \/ /\ ts[n]
             /\ UNCHANGED <<ts, pending>>
    /\ UNCHANGED nNotified

onReceiveInterestBroadcast(n, m, q, idx) ==
    /\ \/ /\ m.end
          /\ EndWave(n, m, q)
          /\ UNCHANGED <<routes, nNotified>>
       \/ /\ ~m.end
          /\ n = Consumer
          /\ UNCHANGED <<ts, routes, pending, nNotified>>
       \/ /\ ~m.end
          /\ n # Consumer
          /\ idx >= 0
          /\ AsProducer(n, m, q)
       \/ /\ ~m.end
          /\ n # Consumer
          /\ idx < 0
          /\ AsRelay(n, m, q)
-----------------------------------------------------------------------------
(* The consumer application's Interest reaches its strategy: no prefix   *)
(* matches and the Interest carries no route tag (consumerNodeID is      *)
(* 0xffffffff), so the consumer creates the states and floods.           *)
afterReceiveInterest ==
    /\ ~started
    /\ started' = TRUE
    /\ CreateStates(Consumer)
    /\ propagateInterests(Consumer, <<Consumer>>, <<>>, FALSE)
    /\ UNCHANGED <<terminated, routes, net, nNotified, nLost>>

(* The copy of broadcast ev that neighbour d receives.                   *)
Reception(ev, d) ==
    [src |-> ev.src, ids |-> ev.ids, cq |-> ev.cq, end |-> ev.end, dst |-> d]

(* Mutant: the reschedule test is times >= 1.                            *)
propagateInterestsAsyncOffByOne(e) ==
    /\ e \in DOMAIN pending
    /\ net' = net (+) SetToBag({Reception(e.ev, d) : d \in Nbr[e.ev.src]})
    /\ pending' = (pending (-) SetToBag({e}))
                  (+) (IF e.times >= 1
                       THEN SetToBag({[e EXCEPT !.times = e.times - 1]})
                       ELSE EmptyBag)
    /\ UNCHANGED <<started, terminated, ts, routes, nNotified, nLost>>

(* A scheduled propagateInterestsAsync: broadcast to every neighbour and *)
(* reschedule while times >= 2.                                          *)
propagateInterestsAsync(e) ==
    /\ e \in DOMAIN pending
    /\ net' = net (+) SetToBag({Reception(e.ev, d) : d \in Nbr[e.ev.src]})
    /\ pending' = (pending (-) SetToBag({e}))
                  (+) (IF e.times >= 2
                       THEN SetToBag({[e EXCEPT !.times = e.times - 1]})
                       ELSE EmptyBag)
    /\ UNCHANGED <<started, terminated, ts, routes, nNotified, nLost>>

(* The radio delivers one reception to its destination.                  *)
Receive(m) ==
    /\ m \in DOMAIN net
    /\ net' = net (-) SetToBag({m})
    /\ \E q \in QLevels, idx \in findPrefix(m.dst) :
          onReceiveInterestBroadcast(m.dst, m, q, idx)
    /\ UNCHANGED <<started, terminated, nLost>>

(* terminateTransport: the consumer application hands an end = true      *)
(* broadcast with no visited nodes to its own strategy.  With the        *)
(* configured delay (100 s) the discovery flood has long ended.          *)
terminateTransport ==
    /\ NeedToTerminate /\ started /\ ~terminated
    /\ TerminateAfterFlood => Quiet
    /\ terminated' = TRUE
    /\ \E q \in QLevels :
          onReceiveInterestBroadcast(Consumer, IB(Consumer, <<>>, <<>>, TRUE), q, -1)
    /\ UNCHANGED <<started, net, nLost>>

(* The radio loses one reception.                                        *)
LoseMsg(m) ==
    /\ m \in DOMAIN net
    /\ nLost < MaxLoss
    /\ net' = net (-) SetToBag({m})
    /\ nLost' = nLost + 1
    /\ UNCHANGED <<started, terminated, ts, routes, pending, nNotified>>

Init ==
    /\ started = FALSE
    /\ terminated = FALSE
    /\ ts = [n \in Node |-> FALSE]
    /\ routes = [n \in Node |-> <<>>]
    /\ pending = EmptyBag
    /\ net = EmptyBag
    /\ nNotified = 0
    /\ nLost = 0

Next ==
    \/ afterReceiveInterest
    \/ \E e \in DOMAIN pending : propagateInterestsAsync(e)
    \/ \E m \in DOMAIN net : Receive(m)
    \/ terminateTransport
    \/ \E m \in DOMAIN net : LoseMsg(m)

(* The simulator fires every scheduled event, and the radio delivers or  *)
(* loses every transmission; the application starts at time 0.          *)
Fairness ==
    /\ WF_vars(afterReceiveInterest)
    /\ WF_vars(\E e \in DOMAIN pending : propagateInterestsAsync(e))
    /\ WF_vars(\E m \in DOMAIN net : Receive(m))

Spec == Init /\ [][Next]_vars /\ Fairness

-----------------------------------------------------------------------------
Codec == INSTANCE RntpCodec

(* The InterestBroadcastInfo propagateInterests hands to                  *)
(* constructInterestBroadcast for a scheduled broadcast; hop count and   *)
(* nonce are not read here and fixed at 0.                                *)
WireInfo(ev) ==
    [hop |-> 0, consumer |-> Consumer, trans |-> ev.src, nonce |-> 0,
     end |-> ev.end, ids |-> ev.ids, cq |-> ev.cq]

Route == [ids : Seq(Node), cq : Seq(QLevels)]

TypeOK ==
    /\ started \in BOOLEAN /\ terminated \in BOOLEAN /\ nNotified \in Nat
    /\ ts \in [Node -> BOOLEAN]
    /\ \A n \in Node : \A i \in DOMAIN routes[n] : routes[n][i] \in Route
    /\ IsABag(pending) /\ IsABag(net)
    /\ \A e \in DOMAIN pending : e.times \in 1..SendTimes
    /\ \A m \in DOMAIN net : m.dst \in Nbr[m.src] /\ m.end \in BOOLEAN
    /\ nLost \in 0..MaxLoss

(* Every route addRoute stores (spec section 8, and what RntpTransport's  *)
(* route table assumes) runs from the consumer to the node that holds it, *)
(* hop by hop between radio neighbours, visits no node twice, and carries *)
(* one quality per hop.  It rests on the visited check of the relay       *)
(* branch and on each hop appending itself before it floods on.          *)
RouteWellFormed ==
    \A n \in Node : \A i \in DOMAIN routes[n] :
        LET r == routes[n][i] IN
          /\ r.ids[1] = Consumer /\ Last(r.ids) = n
          /\ Len(r.cq) = Len(r.ids) - 1
          /\ \A j, k \in DOMAIN r.ids : j < k => r.ids[j] # r.ids[k]
          /\ \A j \in 1..(Len(r.ids) - 1) : r.ids[j + 1] \in Nbr[r.ids[j]]

(* Within one RoutesPerPair no two routes have the same nodeIDs (spec      *)
(* section 8), although every flood is sent interestSendTimes times and   *)
(* reaches a node over every path: the sameness scan of addRoute.         *)
NoDuplicateRoutes ==
    \A n \in Node : \A i, j \in DOMAIN routes[n] :
        i # j => routes[n][i].ids # routes[n][j].ids

(* Once the end wave of terminateTransport has died out, no node holds    *)
(* TransportStates for the pair (spec section 8): every node the          *)
(* discovery flood created states at is reached by the end wave while it  *)
(* still holds them, and nothing recreates them afterwards.              *)
TerminationClears ==
    terminated /\ Quiet => \A n \in Node : ~ts[n]

(* Every InterestBroadcast the strategy schedules, discovery flood or end *)
(* wave, fits the buffer constructInterestBroadcast allocates for n node  *)
(* IDs and n - 1 qualities, and the receiver's                           *)
(* extractInterestBroadcastInfo reads back exactly its visitedNodeIDs and *)
(* channelQualities: the relay appends one quality per hop, and the end  *)
(* handler skips the quality for the consumer's empty list.              *)
BroadcastsDecodable ==
    \A e \in DOMAIN pending :
        LET w == Codec!constructInterestBroadcast(WireInfo(e.ev)) IN
          /\ ~w.payload.overflow
          /\ Codec!extractInterestBroadcastInfo(w).ids =
                [oob |-> FALSE, garbled |-> FALSE, a |-> e.ev.ids]
          /\ Codec!extractInterestBroadcastInfo(w).cq =
                [oob |-> FALSE, garbled |-> FALSE, a |-> e.ev.cq]

(* The producer's strategy eventually passes the Interest to the producer *)
(* application, which only then starts sending capsules: findPrefix must  *)
(* recognise the prefix on the first copy that reaches the producer.     *)
ProducerNotified == <>(nNotified > 0)
=============================================================================
