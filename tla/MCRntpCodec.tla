----------------------------- MODULE MCRntpCodec -----------------------------
(***************************************************************************)
(* The codec checked over bounded messages: a sender encodes one message  *)
(* of the kinds the strategy, the consumer and the sensor build, the      *)
(* receiver decodes it with its dispatch.  The Interest a producer's      *)
(* strategy hands its sensor application goes through the application,    *)
(* which answers with a Capsule tagged with the consumer ID it read.  Node IDs, data IDs, nonces and channel          *)
(* qualities are small numbers; lists hold up to MaxList elements.        *)
(***************************************************************************)
EXTENDS RntpCodec, FiniteSets

CONSTANTS IDs, MaxList

VARIABLES msg, wire, got, app

vars == <<msg, wire, got, app>>

(* The dataId of the sensor's first Capsule, and the receiving node.     *)
DataId == 0
Rx == 0

(* Lists of IDs of length lo..hi.                                         *)
Lists(lo, hi) == UNION {[1..k -> IDs] : k \in lo..hi}

(* A Capsule as relayForwardCapsule builds it: no path before a subpath   *)
(* is chosen, else a path of at least one node.                           *)
Capsules ==
    [kind : {"Capsule"}, dataID : IDs, nonce : IDs, trans : IDs,
     ids : Lists(0, MaxList), nHops : IDs, consumer : IDs]

(* The Interest onReceiveInterestBroadcast gives the producer application *)
(* (line 290): constructInterest(prefix, consumerNodeID, -1).             *)
Interests == [kind : {"Interest"}, consumer : IDs]

(* The consumer application's own Interest for the prefix, untagged.     *)
AppInterests == [kind : {"AppInterest"}]

(* An Echo as sendEchoInPeriodical builds it.                             *)
Echoes == [kind : {"Echo"}, source : IDs, seq : IDs]

(* A CapsuleAck as sendCapsuleACK builds it, for a route with at least    *)
(* one upstream node.                                                     *)
Acks ==
    [kind : {"CapsuleAck"}, down : IDs, ups : Lists(1, MaxList), trans : IDs,
     consumer : IDs, acked : Lists(0, MaxList)]

(* An InterestBroadcast as propagateInterests builds it: one channel      *)
(* quality between each two visited nodes.                                *)
Broadcasts ==
    {b \in [kind : {"InterestBroadcast"}, hop : IDs, consumer : IDs,
            trans : IDs, nonce : IDs, end : BOOLEAN,
            ids : Lists(1, MaxList), cq : Lists(0, MaxList - 1)] :
        Len(b.cq) = Len(b.ids) - 1}

(* The consumer's terminateTransport broadcast: hop 0, end, no lists.     *)
Terminations ==
    [kind : {"Terminate"}, hop : {0}, consumer : IDs, trans : IDs,
     nonce : IDs, end : {TRUE}, ids : {<<>>}, cq : {<<>>}]

Messages == Capsules \cup Acks \cup Broadcasts \cup Terminations \cup Interests \cup AppInterests \cup Echoes

Encode(m) ==
    CASE m.kind = "Capsule" -> constructCapsule(m)
      [] m.kind = "CapsuleAck" -> constructCapsuleACK(m)
      [] m.kind = "InterestBroadcast" -> constructInterestBroadcast(m)
      [] m.kind = "Terminate" -> consumerConstructInterestBroadcast(m)
      [] m.kind = "Interest" -> constructInterest(Prefix, m.consumer, NoNode)
      [] m.kind = "AppInterest" -> [name |-> ParseName(Prefix), tag |-> <<>>]
      [] m.kind = "Echo" -> constructEcho(m.source, m.seq)

IsInterest(w) == "payload" \notin DOMAIN w

(* A list the receiver read back without running off or into garbage.    *)
Intact(l) == [oob |-> FALSE, garbled |-> FALSE, a |-> l]

(* What the receiver should extract from m: the fields m was built from;  *)
(* a Capsule without a path decodes to nonce 0, trans 0xffffffff, 0 hops. *)
Expected(m) ==
    CASE m.kind = "Capsule" ->
            [kind |-> "Capsule", prefix |-> Prefix, dataID |-> m.dataID,
             nonce |-> IF m.ids = <<>> THEN 0 ELSE m.nonce,
             trans |-> IF m.ids = <<>> THEN NoNode ELSE m.trans,
             ids |-> m.ids, nHops |-> IF m.ids = <<>> THEN 0 ELSE m.nHops,
             consumerNodeID |-> m.consumer]
      [] m.kind = "Interest" ->
            [kind |-> "Capsule", prefix |-> Prefix, dataID |-> DataId, nonce |-> 0,
             trans |-> NoNode, ids |-> <<>>, nHops |-> 0, consumerNodeID |-> m.consumer]
      [] m.kind = "AppInterest" ->
            [kind |-> "Interest", prefix |-> Prefix, consumer |-> NoNode, next |-> NoNode]
      [] m.kind = "Echo" -> [kind |-> "Echo", source |-> m.source, seq |-> m.seq]
      [] m.kind = "CapsuleAck" ->
            [kind |-> "CapsuleAck", prefix |-> Prefix, down |-> m.down,
             ups |-> m.ups, trans |-> m.trans, consumer |-> m.consumer,
             acked |-> Intact(m.acked)]
      [] m.kind \in {"InterestBroadcast", "Terminate"} ->
            [kind |-> "InterestBroadcast", prefix |-> Prefix, hop |-> m.hop,
             consumer |-> m.consumer, trans |-> m.trans, nonce |-> m.nonce,
             end |-> m.end, ids |-> Intact(m.ids), cq |-> Intact(m.cq)]

(* What the consumer application reads: no route tag.                     *)
ExpectedApp(m) == [f \in DOMAIN Expected(m) \ {"consumerNodeID"} |-> Expected(m)[f]]

Init == msg \in Messages /\ wire = <<Encode(msg)>> /\ got = <<>> /\ app = <<>>

(* The receiving strategy's afterReceiveData dispatch of a Data.          *)
Deliver ==
    /\ ~IsInterest(wire[1]) /\ got = <<>>
    /\ got' = <<Extract(wire[1], Rx)>>
    /\ UNCHANGED <<msg, wire, app>>

(* The consumer strategy's afterReceiveInterest on its application's      *)
(* Interest: extractInterest.                                             *)
DeliverInterest ==
    /\ msg.kind = "AppInterest" /\ got = <<>>
    /\ got' = <<extractInterest(wire[1])>>
    /\ UNCHANGED <<msg, wire, app>>

(* The producer application's OnInterest, which sends its Capsule back    *)
(* to the strategy.                                                       *)
SensorOnInterest ==
    /\ msg.kind = "Interest" /\ IsInterest(wire[1])
    /\ wire' = <<sensorOnInterest(wire[1], DataId)>>
    /\ UNCHANGED <<msg, got, app>>

(* At the consumer, the strategy hands a Capsule on to the application,   *)
(* whose OnData decodes the name again.                                    *)
DeliverToApp ==
    /\ msg.kind = "Capsule" /\ got # <<>> /\ app = <<>>
    /\ app' = <<consumerExtractCapsuleInfo(wire[1])>>
    /\ UNCHANGED <<msg, wire, got>>

Next == Deliver \/ DeliverInterest \/ SensorOnInterest \/ DeliverToApp

Spec == Init /\ [][Next]_vars

Num == Nat \cup {NoNode}
ReadList == [oob : BOOLEAN, garbled : BOOLEAN, a : Seq(Int)]

(* What the dispatch can hand the handlers, or the undefined behaviour of *)
(* a payload written past its buffer.                                     *)
Extracted ==
    {[kind |-> "overflow"]} \cup
    [kind : {"Capsule"}, prefix : {Prefix}, dataID : Num, nonce : Num,
     trans : Num, ids : Seq(Num), nHops : Num, consumerNodeID : Num] \cup
    [kind : {"Capsule"}, prefix : {Prefix}, dataID : Num, nonce : Num,
     trans : Num, ids : Seq(Num), nHops : Num] \cup
    [kind : {"Interest"}, prefix : {Prefix}, consumer : Num, next : Num] \cup
    [kind : {"Echo"}, source : Num, seq : Num] \cup
    [kind : {"CapsuleAck"}, prefix : {Prefix}, down : Num, ups : Seq(Num),
     trans : Num, consumer : Num, acked : ReadList] \cup
    [kind : {"InterestBroadcast"}, prefix : {Prefix}, hop : Num,
     consumer : Num, trans : Num, nonce : Num, end : BOOLEAN,
     ids : ReadList, cq : ReadList]

TypeOK ==
    /\ msg \in Messages
    /\ Len(wire) = 1
    /\ Len(got) <= 1 /\ \A i \in DOMAIN got : got[i] \in Extracted
    /\ Len(app) <= 1 /\ \A i \in DOMAIN app : app[i] \in Extracted

(* Spec section 8, "decode(encode(m)) == m": every message the sender     *)
(* builds, with its stringstream name, strtok-split lists and the byte    *)
(* offsets of the payload, is extracted by the receiver field for field,  *)
(* without a write past the allocated buffer or a read past the payload;  *)
(* the consumer application's own decoder reads a Capsule the same; and  *)
(* the consumer ID packed into the 64-bit route tag survives the trip     *)
(* through the sensor application, so the producer's strategy never reads *)
(* 0xffffffff and drops the Capsule at rntp-strategy.cpp:444.             *)
RoundTrip ==
    /\ \A i \in DOMAIN got : got[i] = Expected(msg)
    /\ \A i \in DOMAIN app : app[i] = ExpectedApp(msg)
=============================================================================
