------------------------------ MODULE RntpCodec ------------------------------
(***************************************************************************)
(* The message codec of rntp-strategy-messages.cpp: the NDN names built   *)
(* with a stringstream and parsed back by component, the '-'-joined lists *)
(* split with strtok, and the binary payloads of CapsuleAck and           *)
(* InterestBroadcast laid out at byte offsets.                            *)
(*                                                                         *)
(* A string is a sequence of tokens: the separators "/" and "-" and atoms, *)
(* an atom being the decimal digits of one number (or a word such as      *)
(* "Capsule").  Decimal digits contain neither separator, and stoull of   *)
(* an atom gives its number back, so an atom stands for its value.        *)
(***************************************************************************)
EXTENDS Naturals, Sequences, SequencesExt, Bitwise

NoNode == -1                 \* 0xffffffff, that is (uint32_t) -1

(* The tokens of a string: a separator, or the atom of a number or word. *)
Sep(c) == <<"sep", c>>
A(x) == <<"atom", x>>

IsSep(t, c) == t[1] = "sep" /\ t[2] = c

(* Prefix "/rntp/sensorN", as sart-sim.cc names the producer.            *)
Prefix == <<Sep("/"), A("rntp"), Sep("/"), A("sensor")>>

(* ss << x0 << sep << x1 << sep << ... : the elements of s joined by sep. *)
RECURSIVE Join(_, _)
Join(s, c) ==
    IF s = <<>> THEN <<>>
    ELSE IF Len(s) = 1 THEN <<A(Head(s))>>
    ELSE <<A(Head(s)), Sep(c)>> \o Join(Tail(s), c)

(* The parts of s between occurrences of separator c, empty parts kept.  *)
RECURSIVE SplitOn(_, _)
SplitOn(s, c) ==
    IF \E i \in DOMAIN s : IsSep(s[i], c)
    THEN LET i == CHOOSE i \in DOMAIN s : IsSep(s[i], c) /\
                     \A j \in 1..(i - 1) : ~IsSep(s[j], c)
         IN <<SubSeq(s, 1, i - 1)>> \o SplitOn(SubSeq(s, i + 1, Len(s)), c)
    ELSE <<s>>

(* Name(string): the components between the slashes of an absolute URI.  *)
ParseName(str) == Tail(SplitOn(str, "/"))

(* strtok(str, "-") in a loop, each token through stoull: the values of   *)
(* the non-empty tokens between the dashes.                               *)
strtok(comp) ==
    [i \in 1..Len(SelectSeq(SplitOn(comp, "-"), LAMBDA t : t # <<>>)) |->
        SelectSeq(SplitOn(comp, "-"), LAMBDA t : t # <<>>)[i][1][2]]

(* dataName.get(i).toUri() followed by stoull: the atom of component i.  *)
Get(name, i) == name[i + 1][1][2]

(* Mutant: the prefix is rebuilt without its leading slash.              *)
PrefixOfNoLeadingSlash(name) == <<A(Get(name, 0)), Sep("/"), A(Get(name, 1))>>

(* "/" get(0) "/" get(1): the extracted producer prefix.                  *)
PrefixOf(name) == <<Sep("/"), A(Get(name, 0)), Sep("/"), A(Get(name, 1))>>

(* Name::toUri(): "/" before each component.                             *)
NameToUri(name) == FlattenSeq([i \in DOMAIN name |-> <<Sep("/")>> \o name[i]])

-----------------------------------------------------------------------------
(* The LltcConsumerIdTag, a uint64_t holding two uint32_t node IDs.  The   *)
(* widths are scaled down to IdBits bits an ID and 2 * IdBits the tag;    *)
(* the casts, shifts and the all-ones ID 0xffffffff (NoNode in the rest   *)
(* of the model) keep their meaning at the top of the range.              *)
IdBits == 3

(* (uint32_t) x: NoNode, that is -1, becomes the all-ones ID.             *)
UInt(x) == x % 2^IdBits

(* A uint32_t read back: the all-ones ID is 0xffffffff, written NoNode.   *)
AsId(v) == IF v = 2^IdBits - 1 THEN NoNode ELSE v

(* Mutant: the next-hop ID widened through a signed int, so that an ID    *)
(* with its top bit set is sign-extended over the consumer's half.        *)
writeRouteTagSignExt(c, h) ==
    (UInt(c) * 2^IdBits) |
        (IF UInt(h) >= 2^(IdBits - 1) THEN UInt(h) + 2^(2 * IdBits) - 2^IdBits ELSE UInt(h))

(* writeRouteTag: ((uint64_t) consumerNodeID << 32) | (uint64_t) nextHop. *)
writeRouteTag(c, h) == (UInt(c) * 2^IdBits) | UInt(h)

(* (uint32_t) (tagValue >> 32) and (uint32_t) tagValue.                   *)
TagConsumer(v) == AsId((v \div 2^IdBits) % 2^IdBits)
TagNextHop(v) == AsId(v % 2^IdBits)

(* extractRouteTag of a Data: without the tag, the receiver's own ID for  *)
(* both fields.                                                            *)
extractRouteTagData(tag, self) ==
    IF tag = <<>> THEN [consumer |-> self, next |-> self]
    ELSE [consumer |-> TagConsumer(tag[1]), next |-> TagNextHop(tag[1])]

(* extractRouteTag of an Interest: without the tag, 0xffffffff for both.  *)
extractRouteTagInterest(tag) ==
    IF tag = <<>> THEN [consumer |-> NoNode, next |-> NoNode]
    ELSE [consumer |-> TagConsumer(tag[1]), next |-> TagNextHop(tag[1])]

(* constructInterest(pitPrefixStr, consumerNodeID, nextHopNodeID): the    *)
(* prefix as the name, the two IDs in the route tag.                      *)
constructInterest(prefix, c, h) == [name |-> ParseName(prefix), tag |-> <<writeRouteTag(c, h)>>]

(* extractInterest: the name as a URI and the two IDs of the route tag.   *)
extractInterest(w) ==
    [kind |-> "Interest", prefix |-> NameToUri(w.name),
     consumer |-> extractRouteTagInterest(w.tag).consumer,
     next |-> extractRouteTagInterest(w.tag).next]

-----------------------------------------------------------------------------
(* Binary payloads.  A write list holds <<offset, width, value>> triples;  *)
(* the payload keeps the writes that fit the allocated bytes, and notes   *)
(* whether one did not (a heap overflow).                                 *)
Payload(bytes, writes) ==
    [bytes |-> bytes,
     cells |-> [o \in {w[1] : w \in {writes[i] : i \in DOMAIN writes}} |->
                  (CHOOSE w \in {writes[i] : i \in DOMAIN writes} : w[1] = o)[3]],
     overflow |-> \E i \in DOMAIN writes : writes[i][1] + writes[i][2] > bytes]

(* A read of width w at offset off: past the payload, never written, or *)
(* the value written there.                                               *)
Read(p, off, w) ==
    IF off + w > p.bytes THEN [st |-> "oob", v |-> 0]
    ELSE IF off \in DOMAIN p.cells THEN [st |-> "ok", v |-> p.cells[off]]
    ELSE [st |-> "garbage", v |-> 0]

(* (size_t) x for x >= -1: -1 stands for SIZE_MAX.                        *)
SizeT(x) == x

(* The loop reading cnt values of width w from base on.  It stops at the  *)
(* first read past the payload (oob), and notes a read of bytes never     *)
(* written (garbled).  A count that is not a number of the payload, such  *)
(* as SIZE_MAX, runs off the end.                                         *)
RECURSIVE ReadArray(_, _, _, _)
ReadArray(p, base, w, cnt) ==
    IF cnt < 0 THEN [oob |-> TRUE, garbled |-> FALSE, a |-> <<>>]
    ELSE IF cnt = 0 THEN [oob |-> FALSE, garbled |-> FALSE, a |-> <<>>]
    ELSE IF Read(p, base, w).st = "oob"
         THEN [oob |-> TRUE, garbled |-> FALSE, a |-> <<>>]
    ELSE [ReadArray(p, base + w, w, cnt - 1) EXCEPT
             !.garbled = @ \/ Read(p, base, w).st = "garbage",
             !.a = <<Read(p, base, w).v>> \o @]

(* The count read at off, or -1 when the read fails.                     *)
ReadCount(p, off) == IF Read(p, off, 8).st = "ok" THEN Read(p, off, 8).v ELSE -1

-----------------------------------------------------------------------------
(* constructCapsule: prefix/Capsule/dataID, and with a path               *)
(* /nonce/trans/id-id-.../nHops.  The payload is the application's.       *)
constructCapsule(m) ==
    [name |-> ParseName(Prefix \o <<Sep("/"), A("Capsule"), Sep("/"), A(m.dataID)>> \o
                 (IF m.ids = <<>> THEN <<>>
                  ELSE <<Sep("/"), A(m.nonce), Sep("/"), A(m.trans), Sep("/")>> \o
                       Join(m.ids, "-") \o <<Sep("/"), A(m.nHops)>>)),
     payload |-> Payload(0, <<>>),
     tag |-> <<writeRouteTag(m.consumer, 0)>>]

(* GenericSensorApp::OnInterest: the consumer ID from the Interest's tag, *)
(* 0xffffffff without one; then sendData(consumerNodeID), the Capsule     *)
(* sensorName/Capsule/dataId tagged (consumerNodeID << 32) | 0xffffffff.  *)
sensorOnInterest(w, dataId) ==
    [name |-> ParseName(Prefix \o <<Sep("/"), A("Capsule"), Sep("/"), A(dataId)>>),
     payload |-> Payload(0, <<>>),
     tag |-> <<writeRouteTag(IF w.tag = <<>> THEN NoNode ELSE TagConsumer(w.tag[1]), NoNode)>>]

(* The name part of extractCapsuleInfo: the path fields only when the     *)
(* name has at least seven components; otherwise nonce 0, no path, trans  *)
(* 0xffffffff.                                                            *)
CapsuleNameInfo(w) ==
    [kind |-> "Capsule", prefix |-> PrefixOf(w.name), dataID |-> Get(w.name, 3),
     nonce |-> IF Len(w.name) >= 7 THEN Get(w.name, 4) ELSE 0,
     trans |-> IF Len(w.name) >= 7 THEN Get(w.name, 5) ELSE NoNode,
     ids |-> IF Len(w.name) >= 7 THEN strtok(w.name[7]) ELSE <<>>,
     nHops |-> IF Len(w.name) >= 7 THEN Get(w.name, 7) ELSE 0]

(* extractCapsuleInfo at node self: the name part and the consumer ID of  *)
(* the route tag.                                                          *)
extractCapsuleInfo(w, self) ==
    [consumerNodeID |-> extractRouteTagData(w.tag, self).consumer] @@ CapsuleNameInfo(w)

(* Mutant: without a path the consumer leaves transHopNodeID at 0.       *)
consumerExtractCapsuleInfoTransZero(w) ==
    [CapsuleNameInfo(w) EXCEPT !.trans = IF Len(w.name) >= 7 THEN @ ELSE 0]

(* GenericConsumer::extractCapsuleInfo, which OnData applies to a capsule *)
(* the consumer strategy hands to the application: a copy of the         *)
(* strategy's decoder, the same name components read the same way; it     *)
(* does not read the route tag.                                           *)
consumerExtractCapsuleInfo(w) == CapsuleNameInfo(w)

(* constructCapsuleACK: prefix/CapsuleAck/down/up-up-.../trans/consumer,  *)
(* payload [n : size_t][dataIDs : uint32_t[n]].                           *)
constructCapsuleACK(m) ==
    [name |-> ParseName(Prefix \o <<Sep("/"), A("CapsuleAck"), Sep("/"), A(m.down), Sep("/")>> \o
                 Join(m.ups, "-") \o <<Sep("/"), A(m.trans), Sep("/"), A(m.consumer)>>),
     payload |-> Payload(8 + 4 * Len(m.acked),
                   <<<<0, 8, Len(m.acked)>>>> \o
                   [i \in DOMAIN m.acked |-> <<8 + 4 * (i - 1), 4, m.acked[i]>>])]

extractCapsuleACK(w) ==
    [kind |-> "CapsuleAck", prefix |-> PrefixOf(w.name),
     down |-> Get(w.name, 3), ups |-> strtok(w.name[5]),
     trans |-> Get(w.name, 5), consumer |-> Get(w.name, 6),
     acked |-> ReadArray(w.payload, 8, 4, ReadCount(w.payload, 0))]

(* constructInterestBroadcast: prefix/InterestBroadcast/hop/consumer/     *)
(* trans/nonce/end, payload [n][nodeIDs : uint32_t[n]][n - 1][qualities : *)
(* double[]], allocated for n - 1 qualities whatever the list holds.  In  *)
(* size_t arithmetic 8 * (n - 1) wraps for n = 0, leaving 8 bytes.        *)
IBBytes(n) == 16 + 4 * n + 8 * (n - 1)

(* Mutant: the quality count is written as n, like the node count.        *)
constructInterestBroadcastCountN(m) ==
    [name |-> ParseName(Prefix \o <<Sep("/"), A("InterestBroadcast"), Sep("/"), A(m.hop),
                 Sep("/"), A(m.consumer), Sep("/"), A(m.trans), Sep("/"),
                 A(m.nonce), Sep("/"), A(IF m.end THEN "true" ELSE "false")>>),
     payload |-> Payload(IBBytes(Len(m.ids)),
                   <<<<0, 8, Len(m.ids)>>>> \o
                   [i \in DOMAIN m.ids |-> <<8 + 4 * (i - 1), 4, m.ids[i]>>] \o
                   <<<<8 + 4 * Len(m.ids), 8, SizeT(Len(m.ids))>>>> \o
                   [i \in DOMAIN m.cq |->
                      <<16 + 4 * Len(m.ids) + 8 * (i - 1), 8, m.cq[i]>>])]

constructInterestBroadcast(m) ==
    [name |-> ParseName(Prefix \o <<Sep("/"), A("InterestBroadcast"), Sep("/"), A(m.hop),
                 Sep("/"), A(m.consumer), Sep("/"), A(m.trans), Sep("/"),
                 A(m.nonce), Sep("/"), A(IF m.end THEN "true" ELSE "false")>>),
     payload |-> Payload(IBBytes(Len(m.ids)),
                   <<<<0, 8, Len(m.ids)>>>> \o
                   [i \in DOMAIN m.ids |-> <<8 + 4 * (i - 1), 4, m.ids[i]>>] \o
                   <<<<8 + 4 * Len(m.ids), 8, SizeT(Len(m.ids) - 1)>>>> \o
                   [i \in DOMAIN m.cq |->
                      <<16 + 4 * Len(m.ids) + 8 * (i - 1), 8, m.cq[i]>>])]

(* GenericConsumer::constructInterestBroadcast, the consumer's own        *)
(* encoder for terminateTransport: the same name, and a 16-byte payload   *)
(* of two zero counts whatever the lists hold.                            *)
consumerConstructInterestBroadcast(m) ==
    [name |-> ParseName(Prefix \o <<Sep("/"), A("InterestBroadcast"), Sep("/"), A(m.hop),
                 Sep("/"), A(m.consumer), Sep("/"), A(m.trans), Sep("/"),
                 A(m.nonce), Sep("/"), A(IF m.end THEN "true" ELSE "false")>>),
     payload |-> Payload(16, <<<<0, 8, 0>>, <<8, 8, 0>>>>)]

(* extractInterestBroadcastInfo; the reads of the quality list start      *)
(* after the node IDs, with the count the payload holds there.            *)
IBQualities(p, n) == ReadArray(p, 16 + 4 * n, 8, ReadCount(p, 8 + 4 * n))

extractInterestBroadcastInfo(w) ==
    [kind |-> "InterestBroadcast", prefix |-> PrefixOf(w.name),
     hop |-> Get(w.name, 3), consumer |-> Get(w.name, 4),
     trans |-> Get(w.name, 5), nonce |-> Get(w.name, 6),
     end |-> Get(w.name, 7) = "true",
     ids |-> ReadArray(w.payload, 8, 4, ReadCount(w.payload, 0)),
     cq |-> IBQualities(w.payload, ReadCount(w.payload, 0))]

(* constructEcho: ndnNameSpace/ALL/Echo/sourceNodeID/seqNum, with the   *)
(* one-component namespace "/rntp" of sart-sim.cc; no payload, no tag.    *)
Namespace == <<Sep("/"), A("rntp")>>

constructEcho(src, seq) ==
    [name |-> ParseName(Namespace \o <<Sep("/"), A("ALL"), Sep("/"), A("Echo"),
                                       Sep("/"), A(src), Sep("/"), A(seq)>>),
     payload |-> Payload(0, <<>>)]

(* extractEcho: components 3 and 4 through stoull.                        *)
extractEcho(w) == [kind |-> "Echo", source |-> Get(w.name, 3), seq |-> Get(w.name, 4)]

(* The receiver's dispatch on the operation component (afterReceiveData,  *)
(* afterReceiveNonPitData).  A payload the sender overflowed, or a read   *)
(* past it, is undefined behaviour.                                       *)
Extract(w, self) ==
    IF w.payload.overflow THEN [kind |-> "overflow"]
    ELSE CASE Get(w.name, 2) = "Capsule" -> extractCapsuleInfo(w, self)
           [] Get(w.name, 2) = "CapsuleAck" -> extractCapsuleACK(w)
           [] Get(w.name, 2) = "InterestBroadcast" -> extractInterestBroadcastInfo(w)
           [] Get(w.name, 2) = "Echo" -> extractEcho(w)
=============================================================================
