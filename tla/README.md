# TLA+ models of the RNTP transport (SART)

This directory models the Resilient Subpath-Based NDN Transport Protocol (RNTP) of this repository, as it runs on ns-3/ndnSIM. The models are checked with TLC.

## The system and its parts

RNTP runs at every node of a wireless sensor network as an NFD forwarding strategy. The strategy lives in `src/ns-3/src/ndnSIM/NFD/daemon/fw/rntp-strategy*.cpp`. The parts interact as follows:

- **Route discovery.** The consumer floods an InterestBroadcast. Every node records its routes to the consumer, along with the qualities of their hops (`onReceiveInterestBroadcast`, `addRoute`). A later flood with `end = true` terminates the transport.
- **Capsule transport.** The producer's application (`generic-sensor.cpp`) hands each capsule to its strategy. Each node buffers it in a capsule queue (`rntp-strategy-capsule-queue.cpp`) and sends at most `window` capsules per drain. For each capsule it keeps a `SendCapState` with a per-hop retry event.
- **Route choice.** The strategy uses the route that matches the capsule's path (`matchRoute`). Otherwise it uses the best-ranked loop-free route (`lookupRoute`), and it pivots the path onto that route.
- **Acknowledgement.** A capsule is acknowledged either by an explicit `CapsuleAck` or implicitly, when a downstream node's transmission is overheard. Both paths go through `dealWithAck`. `sentDataIDAndNextHops` remembers which next hop already has a capsule.
- **Congestion control** (`rntp-strategy-congestion-control.cpp`): the window doubles below the slow-start threshold and grows by one above it. It is halved on a retry failure, set to 0 when there is no route, and reset when a route neighbour is heard again.
- **Channel quality.** Every reception samples the quality of its link (`updateChannelQuality`). Every sample re-arms a liveness timer, whose expiry marks the link `QUALITY_BROKEN` in the routes (`markChannelBroken`). Periodic echoes keep idle links sampled.
- **Consumer.** The consumer's strategy delivers each capsule once to the application (`generic-consumer.cpp`). The application's `RntpResequenceQueue` parks out-of-order capsules, releases them in dataID order, and expires them after `maxWaitTime`.

## Modules

| Module | Models |
|---|---|
| `RntpTransport` | the strategy of every node for one (consumer, prefix) transport after discovery; capsule queue, congestion control, route choice, channel quality, echo, producer and consumer strategy |
| `MCRntpTransport` | two topologies for TLC (a diamond and a triangle) and the state constraint on transmissions in the air |
| `RntpDiscovery` | route discovery (the InterestBroadcast flood, `addRoute`, `findPrefix`) and transport termination (the end wave), for one pair |
| `MCRntpDiscovery` | the diamond c-a/b-p and the line c-a-p-d for discovery |
| `RntpThroughputWindow` | what a `ThroughputQueue` promises: the per-second packet counts of the last `Capacity` busy seconds, and their mean |
| `RntpThroughputQueue` | the ring buffer of `rntp-strategy-throughput-queue.cpp`, shown to implement `RntpThroughputWindow` |
| `RntpCodec` | the message codec of `rntp-strategy-messages.cpp`: names built with a stringstream, `-`-joined lists split with `strtok`, binary payloads at byte offsets |
| `MCRntpCodec` | one message of every kind, encoded and decoded; an Interest goes through the sensor application first |
| `RntpStaleRetry` | one relay's `TransportStates` objects for a pair across termination, and the per-hop retry event that outlives the erase |
| `RntpResequenceQueue` | the consumer application's resequencing queue, with a discrete clock and its release events |

### RntpTransport

**State.** Each per-node variable is one field of `TransportStates` or `ChannelQualityStates`:

- `queue`, `nHidden`: the capsule buffer and `nHiddenElements`;
- `scs`: the `sendCapStates`;
- `sent`: `sentDataIDAndNextHops`;
- `window`, `thres`: the congestion window and slow-start threshold;
- `timers`: the pending `sendCapsuleIterative` events;
- `heard`, `qual`, `broken`: the `channelQualities` entries, their smoothed quality, and the links marked broken.

Global state:

- `net` holds the broadcasts in the air, one message per receiver.
- `delivered` is what the consumer's application face got.
- `nextData` is the producer's `dataId`.

**Execution.** Every handler is single-threaded and runs to completion in the simulator, so each one is one action.

- A handler reads its node's record (`Local`), applies the code's functions to it, and commits it (`Commit`).
- The nested calls are part of the action. For example, `dealWithAck` ends with `sendCapsulesInQueue`, and `updateChannelQuality` may call `onChannelWaken` and then drain the queue.

**Actions:**

| Action | Code |
|---|---|
| `Produce` | `GenericSensorApp::sendData` → `onReceiveCapsule` (empty path) → `sendCapsuleViaQueue` |
| `RecvCapsule` | `onReceiveCapsule` with its sample, then one of: direction dispatch, consumer dedupe, `dealWithAck`, `sendCapsuleViaQueue` |
| `RecvAck` | `onReceiveCapsuleAck` |
| `RecvEcho` | `sendEchoInPeriodical` at s (`EchoSent`) with `onReceiveEcho` at n |
| `RetryTimeout` | the scheduled `sendCapsuleIterative` event |
| `LinkTimeout` | the `waitMsgEvent` firing `markChannelBroken` |
| `LoseMsg` | the radio losing one reception |

`sendCapsuleIterative` keeps all its branches: CANCELED, NO_ROUTE, EXCEED (restore as FOR_RETRYING and call `onCapAckTimeout`), ALREADY_SENT (ack upstream and drop), and NORM (pivot, broadcast, `sendTimes++`, and re-arm while `sendTimes <= capsuleRetryingMaxTimes`).

**Abstractions:**

- Route tables are constants: the routes discovery would install.
- The smoothed quality is a small set of positive levels. The metric `prod^(1/2k)` is compared exactly, as the pair `<<prod, k>>`.
- `nTimesRetried` is kept modulo `RankPeriod`. This is exact, because it is only used as `rank % size`.
- A receiver that neither forwards, acknowledges nor consumes a broadcast only samples the channel. Its copy is dropped, because an echo has the same effect.
- The wake loop of `updateChannelQuality` looks up the neighbours with `getNeighboredIDsInRoutes` over `RoutesAll(n)`, passing the constant `TSConsumerID`. This is `TransportStates::consumerID`, which nothing assigns; the cfgs give it a value that is not the consumer. With the code's `&&` filter the prefix alone keeps the pair, so the value does not matter.
- In the diamond and the triangle the window never reaches 0: `lookupRoute` returns NULL only when every route leads back where the capsule came from, and these route tables never do that. NO_ROUTE in `onCapAckTimeout` and the wake path are therefore checked in `RntpStaleRetry`, where route choice is free.

### RntpResequenceQueue

The state holds:

- `lastDataId`;
- `q_seq` as a set, whose top is the least dataID (`DataElement::operator<`);
- `q_time` as a sequence;
- the pending `autoDequeueTask` events, as a bag of firing times;
- the clock;
- the dataIDs released to `onDataReseq`;
- `behind`, a history variable: the dataIDs that were at or below `lastDataId` when they were parked.

The three loops of `releaseQueue` are recursive operators. The actions are:

- `OnData`: every dataID arrives once, in any order, because the strategy deduplicates.
- `autoDequeueTask`.
- `Tick`: time advances only once every event due now has fired.

### RntpDiscovery

**State:**

- `ts[n]`: whether `transportStates_all` holds the pair at n;
- `routes[n]`: the `RoutesPerPair` routes in insertion order;
- `pending`: a bag of scheduled `propagateInterestsAsync` events, each with the times it still has to be sent;
- `net`: a bag of receptions in the air;
- `started`, `terminated`: the consumer's Interest was sent, and `terminateTransport` ran;
- `nNotified`: the Interests the producer's strategy handed its application, each of which starts a `sendData` chain;
- `nLost`: receptions the radio lost.

**Actions:**

| Action | Code |
|---|---|
| `afterReceiveInterest` | the consumer strategy taking its application's Interest and calling `propagateInterests` |
| `propagateInterestsAsync(e)` | one scheduled broadcast to every neighbour, re-scheduled while `sendTimes` remain |
| `Receive(m)` | `onReceiveInterestBroadcast` |
| `terminateTransport` | the consumer's end broadcast |
| `LoseMsg(m)` | a lost reception |

`Receive` covers every branch of the handler:

- **end wave:** erase the states and re-flood, with no quality for the consumer's empty list;
- **producer:** add the route, and notify the application once;
- **relay:** drop a copy whose visited list holds the node, and re-flood only when the states are new.

**Composition with the codec.** `BroadcastsDecodable` encodes every scheduled broadcast with `RntpCodec` and decodes it again.

### RntpThroughputQueue and RntpThroughputWindow

- `RntpThroughputQueue` keeps the code's `buffer`, `frontIndex`, `rearIndex` and `count`, and `recordPacketArrival` with its three branches.
- `countPacketMeanArrivalRate` is the recursive ring walk `SumClosed`.
- `RntpThroughputWindow` is the abstract sequence of buckets.
- The refinement mapping `Contents` reads the ring from `frontIndex` on.
- The PIAT formula, floating-point and only a threshold for `waitMsgEvent`, is left out. The bucket sums it divides are checked exactly.

### RntpCodec

A string is a sequence of tokens: the separators `/` and `-`, and atoms, each the decimal digits of one number. Decimal digits contain neither separator, so an atom stands for its value. The helpers:

- `Join` and `SplitOn` are the stringstream and `Name` parsing;
- `strtok` is the dash split;
- a payload is the set of writes that fit its allocation, with an `overflow` flag;
- `Read` and `ReadArray` return `oob` past the end and `garbage` for bytes never written.
- The route tag (`LltcConsumerIdTag`) is the number `(consumer << IdBits) | nextHop`, built with `Bitwise`'s `|`. The widths are scaled from 32/64 bits to `IdBits = 3` and 6 bits, so that `(uint32_t) -1`, the all-ones ID, and IDs with the top bit set (4 in the cfg) stay in reach. `writeRouteTag` and both `extractRouteTag`s keep their casts and the defaults for a packet without a tag.
- `extractCapsuleInfo(w, self)` adds the tag's consumer ID to the name part (`CapsuleNameInfo`), which is what the consumer application's copy reads.
- `constructInterest`/`extractInterest`, `constructEcho`/`extractEcho`, and `sensorOnInterest` (`GenericSensorApp::OnInterest` with `sendData`) are also modelled.

`MCRntpCodec` has four actions:

- `Deliver`: the strategy's dispatch of a Data;
- `DeliverInterest`: the consumer strategy reading its application's untagged Interest;
- `SensorOnInterest`: the producer application answering the Interest that `onReceiveInterestBroadcast` built with `constructInterest(prefix, consumer, -1)`;
- `DeliverToApp`: the consumer application decoding a Capsule.

The `InterestBroadcast` buffer is allocated for `n - 1` qualities in `size_t` arithmetic, which is why the empty list of an end wave matters. `GenericConsumer` has its own encoder, with a fixed 16-byte payload.

### RntpStaleRetry

This module narrows `RntpTransport` to one relay and one capsule, and adds what that model leaves out: termination and recreation of the pair.

- Objects `1..MaxGen` are the `TransportStates` created in turn; `tsOf` is the one the map holds (0: none).
- Per object, the state is:
  - `elem`: the capsule's queue element;
  - `st`: the `SendCapState`'s `sendTimes`;
  - `open`: window > 0;
  - `acked`: the `sentDataIDAndNextHops` entry.
- `timers` is the set of objects with a pending retry event.
- `sendCapsuleIterative` keeps every branch:
  - CANCELED;
  - DUPLICATED, when the map has no entry (line 742);
  - NO_ROUTE and EXCEED, which restore on `ts_serv`;
  - ALREADY_SENT;
  - the send with re-arm.
- `crashed` records the NULL that `restoreElement` returns on a queue without the element.
- `onChannelWaken` is the wake loop (lines 907-916): a sample from one of `Nbrs` wakes the object only if the sender is in `getNeighboredIDsInRoutes(TSConsumerID, "prefix")` over the relay's `RoutesAll`.

## Runs

| Run | Config | Result | Shows |
|---|---|---|---|
| `transport_diamond` | `MCRntpTransport.cfg` | pass | one capsule over two disjoint routes c-a-p and c-b-p, with the cross link a-b, one loss, one link break and one retry: `NoCapsuleLost`, `AtMostOnceDelivery`, `InFlightConsistent` |
| `transport_triangle` | `MCRntpTransportTri.cfg` | pass | two capsules, the producer's direct route c-p and the relayed one c-a-p: the same state invariants with two capsules sharing queues and windows |
| `reseq_skip` | `MCRntpResequenceQueue.cfg` | pass | five dataIDs into a queue of two (the skip policy fires): `QTimeCoversQSeq`, `TimersAhead`, `ParkedAheadUnlessBehind` |
| `reseq_hold_bounded` | `MCRntpResequenceQueueHoldBounded.cfg` | violation | an element outlives `maxWaitTime` with no release event pending |
| `discovery_diamond` | `MCRntpDiscovery.cfg` | pass | flood over the diamond with a loss, then the end wave: `RouteWellFormed`, `TerminationClears`, `BroadcastsDecodable`, `ProducerNotified` |
| `discovery_line` | `MCRntpDiscoveryLine.cfg` | pass | three copies of every flood over c-a-p-d with two losses: `NoDuplicateRoutes`, `TerminationClears`, `ProducerNotified` |
| `discovery_termination_overtakes` | `MCRntpDiscoveryTerminationClears.cfg` | violation | the end wave overtakes a discovery copy, which recreates states nothing erases |
| `discovery_prefix_ub` | `MCRntpDiscoveryPrefixUB.cfg` | violation | a negative uninitialized `findPrefix` index: the producer never notifies its application |
| `throughput_refines_window` | `MCRntpThroughputQueue.cfg` | pass | the ring buffer implements the sliding window (`RefinesWindow`), and the mean-rate loop sums the closed buckets (`MeanRateMatches`) |
| `codec_round_trip` | `MCRntpCodec.cfg` | pass | every message kind decodes to the fields it was built from, by the strategy's decoder and by the consumer's copy, and the consumer ID survives the route tag through the sensor application (`RoundTrip`) |
| `stale_retry_crash_needs_recreate` | `MCRntpStaleRetryCrash.cfg` | pass | a NULL restore needs a recreated `TransportStates`: erase alone is safe (`CrashNeedsRecreate`); a window closed for lack of a route is reopened (`WindowReopens`) |
| `stale_retry_null_restore` | `MCRntpStaleRetryRecreate.cfg` | violation | a late retry restores into the recreated, empty queue and dereferences NULL |

### Properties

- **`NoCapsuleLost`** (custody): every capsule the producer's strategy took is still buffered at some node, or has been delivered. A node drops a capsule on three events: an ack, an overheard downstream copy, or an ALREADY_SENT. Each of these must mean that a node further on holds it.
- **`AtMostOnceDelivery`**: the consumer hands each dataID to its application at most once.
- **`InFlightConsistent`**: four checks on the in-flight bookkeeping.
  - A `SendCapState` exists exactly when a hidden buffered element exists.
  - A state's retry event is the only pending event for its dataID.
  - Every dataID is buffered at most once.
  - `nHiddenElements` counts the hidden elements.

  Any disagreement would be a NULL `restoreElement`, a `getFront` on an empty queue, or a capsule never sent again.
- **`QTimeCoversQSeq`**: `q_time` holds every element of `q_seq`. Otherwise `q_time.front()` in `receiveData` is undefined.
- **`TimersAhead`**: no release event is scheduled in the past.
- **`ParkedAheadUnlessBehind`**: every parked dataID is above `lastDataId`, unless it was at or below it when parked (a late copy, or one the skip policy overtook by releasing the top before the push). So the expiry flush at `generic-consumer.cpp:301` moves `lastDataId` back only to such an element.
- **`RouteWellFormed`**: every stored route runs from the consumer to its holder over radio neighbours, without repeats, with one quality per hop. `RntpTransport`'s constant route tables assume this.
- **`NoDuplicateRoutes`**: repeated copies of a flood never install the same node list twice.
- **`TerminationClears`**: once the end wave has died out, no node holds `TransportStates`.
- **`BroadcastsDecodable`**: every scheduled broadcast fits its buffer and decodes to its own visited list and qualities.
- **`ProducerNotified`** (liveness): the producer application eventually receives the Interest.
- **`RefinesWindow`** (refinement): the ring buffer, read from `frontIndex`, behaves as `RntpThroughputWindow!Spec`.
- **`MeanRateMatches`**: `countPacketMeanArrivalRate` sums every bucket but the newest.
- **`RoundTrip`**: decode after encode gives the message back, with no overflow or out-of-bounds read. `DeliverToApp` also decodes the delivered capsule with `GenericConsumer::extractCapsuleInfo`, the consumer's copy of the decoder. The consumer ID the producer's strategy puts in the Interest's tag comes back in the sensor's Capsule, so the strategy never reads 0xffffffff there and drops it (line 444); a sign-extended `-1` next hop would do exactly that.
- **`CrashNeedsRecreate`**: `restoreElement` returns NULL only if a second `TransportStates` exists for the pair.
- **`WindowReopens`** (liveness): while its `TransportStates` is in the map, a window that is 0 is eventually opened again by the wake loop. It holds because the `&&` filter keeps the pair's routes whatever the garbage `consumerID` holds; the `||` filter spec §9 proposes would never wake it.

Each property of a passing run has a mutant: a plausible bug in a mapped definition under which TLC finds the property violated. The mutants are listed in `PROJECT.json`.

### Findings

Each violation run is recorded as a finding in `PROJECT.json`:

- **`HoldBounded`.** Spec §4.10 promises a single release timer for the oldest arrival plus `maxWaitTime`. The code schedules one event per out-of-order arrival, and none after a timer release. An element parked behind a flushed one can therefore wait until the next arrival, with no bound on the wait.
- **`TerminationClears`.** The end handler erases only states that exist, and keeps no record of the wave. A discovery copy that the end wave overtook therefore recreates states at a relay and at the producer, and they stay for ever. This needs a termination delay shorter than the flood.
  A related consequence is not one of the runs. With the line cfg's `interestSendTimes = 3` and `TerminateAfterFlood = FALSE`, a late copy can also recreate the producer's states after the end wave. `OnInterest` then starts a second `sendData` stream. With `TerminateAfterFlood = TRUE` the producer's states outlive every copy, so a bound on the Interests would only restate the check at `rntp-strategy.cpp:276`. No run checks it.
- **`ProducerNotified`.** `findPrefix` returns the uninitialized `i` when it finds the prefix. When that value is negative, the producer takes the relay branch, and its application never receives the Interest.
- **`NoNullRestore`.** The end handler erases the `TransportStates` without deleting it, and the pending retry events keep their pointer. After a recreation (the previous finding), a late retry that finds no route, or reaches its retry limit, calls `restoreElement` on the new, empty queue. It then dereferences the NULL result (`rntp-strategy.cpp:766`).

## Bounds

**Transport** (`MCRntpTransport.cfg`, diamond): `NData = 1`, `MaxRetry = 1`, `MaxLoss = 1`, `MaxBreaks = 1`, `InitWin = 1`, `InitThres = 2`, one quality level, `MaxInAir = 2` distinct transmissions.

- One loss and one break are enough for every recovery path:
  - retry after a lost capsule or ack;
  - pivot onto the other route after a break;
  - ALREADY_SENT after a lost ack.
- `MaxRetry = 1` makes the EXCEED branch reachable.
- The diamond gives each relay a second route through its sibling, and that is what makes FROM_DOWNSTREAM overhearing happen.

**Transport** (triangle): `NData = 2` with no breaks. It puts two capsules in one queue, and makes the window and `sendCapsulesInQueue` loop over several elements.

**Resequencing:** `NData = 5`, `Size = 2`, `maxWaitTime = 2`, clock up to 5. Every arrival order occurs, the skip policy fires, and timers fire, expire and accumulate.

**Discovery:**

- The diamond has two routes to the producer, and one loss (36,092 states).
- The line runs with the configured `interestSendTimes = 3` and two losses. Three copies are what put the same route through `addRoute` again. Its node d lies beyond the producer, so the end wave must cross the producer.
- `SendTimes = 2` on the diamond does not finish in ten minutes.

**Throughput queue:** the configured two buckets over seven seconds, two packets a second. The ring wraps and drops buckets several times.

**Codec:** IDs {1, 4} (4 has the top bit of a 3-bit ID) and lists of up to two elements. These cover the empty lists (a capsule without a path, the end wave) and lists with separators.

**Stale retry:** two objects and `capsuleRetryingMaxTimes = 2`. One recreation is all the crash needs. Two retries reach both EXCEED and a re-arm.

**Deadlock:**

- Every run but the transport runs sets `CHECK_DEADLOCK FALSE`. A bounded clock, a single delivered message, or a flood and end wave that die out end every behaviour.
- The transport runs check deadlock. A finished transport still has echoes, so it never stops.

## Fairness

**Discovery** (`RntpDiscovery!Fairness`) assumes weak fairness of three actions:

- the consumer application's start;
- every scheduled `propagateInterestsAsync` event;
- the radio handling receptions (delivered or lost).

The ns-3 simulator fires every scheduled event, and the application starts at time 0, so this is what the code's scheduling guarantees. Losses stay bounded by `MaxLoss`. Under this fairness `ProducerNotified` holds, unless `findPrefix` misbehaves.

**Stale retry** (`RntpStaleRetry!Fairness`) assumes weak fairness of `onChannelWaken`. Every node runs `sendEchoInPeriodical`, and the radio loses only finitely many receptions, so a route neighbour's sample keeps arriving while the entry lives.

The transport model has no fairness. Its properties are safety properties, and eventual delivery there would need fairness of link breaks as well as of timers.

## Refinement

`RntpThroughputQueue` instantiates `RntpThroughputWindow` with `window <- Contents`, the ring read from `frontIndex`. `RefinesWindow` checks the abstract specification as a property of the ring buffer.

## Not modelled

- **Two pairs at one node.** With two pairs the `&&` in `getNeighboredIDsInRoutes` also wakes the other pair's transport spuriously; the models have one pair per node. The uninitialized `consumerID` read is checked through `WindowReopens`.
- **Transport liveness.** With about thirteen fairness conjuncts over the transport's state space TLC does not finish. A single weak-fairness conjunct over production, reception and retry timeouts does not help either: with one capsule on the triangle, TLC gets no further than the initial state in five minutes. The cause is the `ENABLED` check of the retry timers under the `NetBound` constraint.
- **Tag carriage by the link service.** The NDN link layer that carries `LltcConsumerIdTag` between nodes is not part of the sources; the model assumes a tag arrives as sent.
- Logging, configuration, the SNR tag and the `sart-sim` scenario.
  - `rntp-config.cpp` holds static defaults. `loadConfigFile` reads them back from a file: one regex match of `NAME=VALUE` per line, plus a chain of name compares.
  - The models take the values they depend on as `CONSTANTS`: `interestSendTimes`, the initial window and threshold, and the queue's buckets.
  - `sart-sim.cc` builds the ns-3 topology and schedules the applications. The model topologies stand in for it.
  - The logging files only format and write text.
- **The PIAT timeout value.** A link may time out after any sample.
- **`RntpTransport` running after termination.** `RntpStaleRetry` covers that for one relay.

These and the other hazards are listed, each at its line, in `PROJECT.json`.
