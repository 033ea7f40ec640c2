--------------------------- MODULE RntpStaleRetry ---------------------------
(***************************************************************************)
(* One relay's TransportStates for a pair across termination              *)
(* (rntp-strategy.cpp), for one capsule.  The end wave erases the pair's  *)
(* entry of transportStates_all without deleting the object (line 225),   *)
(* and a later discovery copy may create a new one (line 320).  The       *)
(* per-hop retry event of sendCapsuleIterative holds the TransportStates  *)
(* pointer it was armed with; when it fires it works on that object for   *)
(* the SendCapState and on the one transportStates_all holds now          *)
(* (ts_serv) for restoreElement and congestion control.                   *)
(*                                                                         *)
(* Objects are numbered 1..MaxGen in creation order; tsOf = 0 means the   *)
(* map holds no entry for the pair.  Per object, elem is the capsule's    *)
(* CapsuleQueue element (absent, visible or hidden), st its SendCapState  *)
(* (Absent or sendTimes), open whether window > 0 (with one capsule       *)
(* sendCapsulesInQueue sends iff it is), acked whether                    *)
(* sentDataIDAndNextHops holds the pair's entry.  Whether matchRoute or   *)
(* lookupRoute finds a route, and whether its next hop acknowledged the   *)
(* capsule before, depends on the route table, which termination leaves   *)
(* alone: each is a free choice.                                          *)
(***************************************************************************)
EXTENDS Naturals

CONSTANTS
    MaxGen,     \* bound: TransportStates objects created for the pair
    MaxRetry,   \* capsuleRetryingMaxTimes
    Absent,     \* no SendCapState for the dataID
    RecreateWhenIdle, \* the overtaken discovery copy arrives after every
                      \* pending per-hop timeout has fired
    Consumer,         \* the pair's consumer node
    Nbrs,             \* the relay's radio neighbours
    RouteNbrs,        \* the second-to-last nodes of the relay's routes
    TSConsumerID      \* TransportStates::consumerID: never assigned, so
                      \* the wake loop reads an indeterminate value

ASSUME MaxGen \in Nat \ {0} /\ MaxRetry \in Nat \ {0} /\ RecreateWhenIdle \in BOOLEAN
       /\ RouteNbrs \subseteq Nbrs

VARIABLES
    tsOf,     \* transportStates_all[h]: the object the map holds, 0 if none
    gen,      \* objects created so far
    elem,     \* elem[k]: "none", "visible" or "hidden"
    st,       \* st[k]: sendCapStates[dataID]->sendTimes, or Absent
    open,     \* open[k]: window > 0
    acked,    \* acked[k]: the (dataID, next hop) entry is in sentDataIDAndNextHops
    timers,   \* the objects a pending sendCapsuleIterative event points to
    crashed   \* a NULL CapsuleToSend was dereferenced

vars == <<tsOf, gen, elem, st, open, acked, timers, crashed>>

Obj == 1..MaxGen

(* The outcomes of the route choice for a retry: no route, a route whose  *)
(* next hop acknowledged the capsule before, or a route to send on.       *)
Outcome == {"NO_ROUTE", "ALREADY_SENT", "ROUTE"}

-----------------------------------------------------------------------------
(* sendCapsuleIterative(ts = k, ...) past its two early returns, with the *)
(* route choice o, ts_serv = s, and T the retry events left pending.      *)

(* No route, or the hop was tried capsuleRetryingMaxTimes times: erase    *)
(* ts_serv's SendCapState, restore ts_serv's element (NULL if it holds    *)
(* none, and cts->code dereferences it), and onCapAckTimeout(ts_serv),    *)
(* which sets the window to 0 for no route and keeps it positive else.   *)
GiveUp(k, s, o, T) ==
    /\ st' = [st EXCEPT ![s] = Absent]
    /\ IF elem[s] = "none"
       THEN crashed' = TRUE /\ UNCHANGED <<elem, open>>
       ELSE /\ elem' = [elem EXCEPT ![s] = "visible"]
            /\ open' = [open EXCEPT ![s] = (o # "NO_ROUTE")]
            /\ UNCHANGED crashed
    /\ timers' = T
    /\ UNCHANGED acked

(* The next hop acknowledged the capsule before: ack upstream, erase the  *)
(* SendCapState and drop the element, both of ts.                        *)
AlreadySent(k, T) ==
    /\ st' = [st EXCEPT ![k] = Absent]
    /\ elem' = [elem EXCEPT ![k] = "none"]
    /\ timers' = T
    /\ UNCHANGED <<open, acked, crashed>>

(* Send on the route: ++sendTimes of ts's SendCapState and re-arm the     *)
(* retry event with ts while sendTimes <= capsuleRetryingMaxTimes.        *)
SendOn(k, T) ==
    /\ st' = [st EXCEPT ![k] = @ + 1]
    /\ timers' = IF st[k] + 1 <= MaxRetry THEN T \cup {k} ELSE T
    /\ UNCHANGED <<elem, open, acked, crashed>>

(* The route choice, for a SendCapState that has sent st[k] times.        *)
RouteChoice(k, T) ==
    \E o \in Outcome :
        \/ (o = "NO_ROUTE" \/ st[k] = MaxRetry) /\ GiveUp(k, tsOf, o, T)
        \/ o = "ALREADY_SENT" /\ st[k] # MaxRetry /\ AlreadySent(k, T)
        \/ o = "ROUTE" /\ st[k] # MaxRetry /\ SendOn(k, T)

(* Mutant: the transportStates_all lookup of line 742 is left out, and    *)
(* operator[] hands back a NULL ts_serv when the entry was erased.        *)
sendCapsuleIterativeNoLookup(k, T) ==
    \/ /\ st[k] = Absent
       /\ elem' = [elem EXCEPT ![k] = "none"] /\ timers' = T
       /\ UNCHANGED <<st, open, acked, crashed>>
    \/ /\ st[k] # Absent /\ tsOf = 0
       /\ crashed' = TRUE /\ timers' = T
       /\ UNCHANGED <<elem, st, open, acked>>
    \/ /\ st[k] # Absent /\ tsOf # 0
       /\ RouteChoice(k, T)

(* Mutant: the retry limit is tested as sendTimes > capsuleRetryingMaxTimes. *)
sendCapsuleIterativeOffByOne(k, T) ==
    \/ /\ st[k] = Absent
       /\ elem' = [elem EXCEPT ![k] = "none"] /\ timers' = T
       /\ UNCHANGED <<st, open, acked, crashed>>
    \/ /\ st[k] # Absent /\ tsOf = 0
       /\ st' = [st EXCEPT ![k] = Absent]
       /\ elem' = [elem EXCEPT ![k] = "none"] /\ timers' = T
       /\ UNCHANGED <<open, acked, crashed>>
    \/ /\ st[k] # Absent /\ tsOf # 0
       /\ \E o \in Outcome :
            \/ (o = "NO_ROUTE" \/ st[k] > MaxRetry) /\ GiveUp(k, tsOf, o, T)
            \/ o = "ROUTE" /\ st[k] <= MaxRetry /\ SendOn(k, T)

(* sendCapsuleIterative(ts = k): no SendCapState cancels; an erased map   *)
(* entry drops the capsule from ts (SEND_CAP_DUPLICATED); otherwise the   *)
(* route choice decides.                                                  *)
sendCapsuleIterative(k, T) ==
    \/ /\ st[k] = Absent
       /\ elem' = [elem EXCEPT ![k] = "none"] /\ timers' = T
       /\ UNCHANGED <<st, open, acked, crashed>>
    \/ /\ st[k] # Absent /\ tsOf = 0
       /\ st' = [st EXCEPT ![k] = Absent]
       /\ elem' = [elem EXCEPT ![k] = "none"] /\ timers' = T
       /\ UNCHANGED <<open, acked, crashed>>
    \/ /\ st[k] # Absent /\ tsOf # 0
       /\ RouteChoice(k, T)

(* sendCapsulesInQueue(s) for the one capsule, visible in s, with the    *)
(* window open: transientlyPopElement and sendCapsule, which creates a    *)
(* fresh SendCapState and runs sendCapsuleIterative(s) on it; with        *)
(* sendTimes 0 and s in the map only the route choice remains.  With one  *)
(* capsule the window is 0 only while it is restored and visible (the     *)
(* NO_ROUTE case), so an arrival always finds the window open, and a wake *)
(* opens it first.                                                        *)
sendCapsulesInQueue(s) ==
    \E o \in Outcome :
        \/ /\ o = "NO_ROUTE"
           /\ elem' = [elem EXCEPT ![s] = "visible"]
           /\ open' = [open EXCEPT ![s] = FALSE]
           /\ UNCHANGED <<st, acked, timers, crashed>>
        \/ /\ o = "ALREADY_SENT"
           /\ elem' = [elem EXCEPT ![s] = "none"] /\ open' = [open EXCEPT ![s] = TRUE]
           /\ UNCHANGED <<st, acked, timers, crashed>>
        \/ /\ o = "ROUTE"
           /\ elem' = [elem EXCEPT ![s] = "hidden"] /\ open' = [open EXCEPT ![s] = TRUE]
           /\ st' = [st EXCEPT ![s] = 1]
           /\ timers' = timers \cup {s}
           /\ UNCHANGED <<acked, crashed>>

-----------------------------------------------------------------------------
(* routes_all at the relay: the RoutesPerPair of the pair, its routes     *)
(* given by their second-to-last nodes.                                   *)
RoutesAll == {[consumerNodeID |-> Consumer, producerPrefix |-> "prefix", nbrs |-> RouteNbrs]}

(* Mutant: the pair filter with ||, as spec section 9 proposes.          *)
getNeighboredIDsInRoutesOr(consumerID, prefix) ==
    UNION {rp.nbrs : rp \in {rp \in RoutesAll :
                        ~(rp.consumerNodeID # consumerID \/ rp.producerPrefix # prefix)}}

(* getNeighboredIDsInRoutes(consumerID, prefix): the route neighbours of  *)
(* the pairs not skipped; a pair is skipped only when both its consumer   *)
(* and its prefix differ from the arguments.                              *)
getNeighboredIDsInRoutes(consumerID, prefix) ==
    UNION {rp.nbrs : rp \in {rp \in RoutesAll :
                        ~(rp.consumerNodeID # consumerID /\ rp.producerPrefix # prefix)}}

(* The capsule reaches the relay from upstream (onReceiveCapsule, then    *)
(* sendCapsuleViaQueue): dropped without a map entry; acknowledged only   *)
(* if already buffered; otherwise pushed and the queue drained.           *)
onReceiveCapsule ==
    /\ tsOf # 0 /\ ~crashed
    /\ elem[tsOf] = "none"
    /\ sendCapsulesInQueue(tsOf)
    /\ UNCHANGED <<tsOf, gen>>

(* The next hop's ack (onReceiveCapsuleAck, then dealWithAck on the map's *)
(* object): a first ack opens the window (onCapAckReceived), the retry    *)
(* event of that SendCapState is removed, state and element dropped.     *)
(* The queue holds nothing else to drain.                                 *)
dealWithAck ==
    /\ tsOf # 0 /\ ~crashed
    /\ st[tsOf] # Absent
    /\ open' = [open EXCEPT ![tsOf] = @ \/ ~acked[tsOf]]
    /\ acked' = [acked EXCEPT ![tsOf] = TRUE]
    /\ timers' = timers \ {tsOf}
    /\ st' = [st EXCEPT ![tsOf] = Absent]
    /\ elem' = [elem EXCEPT ![tsOf] = "none"]
    /\ UNCHANGED <<tsOf, gen, crashed>>

(* A later sample from neighbour from (updateChannelQuality, lines       *)
(* 907-916): for the TransportStates in the map, the neighbours in its    *)
(* routes are looked up with its consumerID and prefix; if from is one,   *)
(* onChannelWaken and sendCapsulesInQueue.                                *)
onChannelWaken ==
    /\ tsOf # 0 /\ ~crashed
    /\ \E from \in Nbrs : from \in getNeighboredIDsInRoutes(TSConsumerID, "prefix")
    /\ \/ /\ elem[tsOf] = "visible"
          /\ sendCapsulesInQueue(tsOf)
       \/ /\ elem[tsOf] # "visible"
          /\ open' = [open EXCEPT ![tsOf] = TRUE]
          /\ UNCHANGED <<elem, st, acked, timers, crashed>>
    /\ UNCHANGED <<tsOf, gen>>

(* The per-hop timeout of the event armed with object k fires.            *)
RetryTimeout(k) ==
    /\ k \in timers /\ ~crashed
    /\ sendCapsuleIterative(k, timers \ {k})
    /\ UNCHANGED <<tsOf, gen>>

(* The end wave reaches the relay: transportStates_all.erase(h).         *)
Terminate ==
    /\ tsOf # 0 /\ ~crashed
    /\ tsOf' = 0
    /\ UNCHANGED <<gen, elem, st, open, acked, timers, crashed>>

(* A discovery copy the end wave overtook reaches the relay: the relay    *)
(* branch creates a new TransportStates (congestionControl->init).       *)
CreateStates ==
    /\ tsOf = 0 /\ gen < MaxGen /\ ~crashed
    /\ RecreateWhenIdle => timers = {}
    /\ gen' = gen + 1 /\ tsOf' = gen + 1
    /\ UNCHANGED <<elem, st, open, acked, timers, crashed>>

Init ==
    /\ tsOf = 1 /\ gen = 1
    /\ elem = [k \in Obj |-> "none"]
    /\ st = [k \in Obj |-> Absent]
    /\ open = [k \in Obj |-> TRUE]
    /\ acked = [k \in Obj |-> FALSE]
    /\ timers = {}
    /\ crashed = FALSE

Next ==
    \/ onReceiveCapsule
    \/ dealWithAck
    \/ onChannelWaken
    \/ \E k \in Obj : RetryTimeout(k)
    \/ Terminate
    \/ CreateStates

(* Every node echoes periodically (sendEchoInPeriodical) and the radio    *)
(* loses finitely many receptions, so a route neighbour's sample keeps    *)
(* arriving; nothing else is assumed to happen.                          *)
Fairness == WF_vars(onChannelWaken)

Spec == Init /\ [][Next]_vars /\ Fairness

-----------------------------------------------------------------------------
TypeOK ==
    /\ tsOf \in 0..gen /\ gen \in Obj
    /\ elem \in [Obj -> {"none", "visible", "hidden"}]
    /\ st \in [Obj -> {Absent} \cup 0..MaxRetry]
    /\ open \in [Obj -> BOOLEAN] /\ acked \in [Obj -> BOOLEAN]
    /\ timers \subseteq 1..gen /\ crashed \in BOOLEAN

(* A retry event never dereferences the NULL that restoreElement returns  *)
(* when the TransportStates the map holds has no element for the capsule *)
(* (sendCapsuleIterative, lines 764-766): the object the event was armed  *)
(* with and the one in transportStates_all must agree on the capsule.     *)
NoNullRestore == ~crashed

(* The NULL restore needs a second TransportStates: with the map entry    *)
(* only erased, the lookup of line 742 sends every late retry event down  *)
(* the SEND_CAP_DUPLICATED path, so a crash implies that a discovery copy *)
(* recreated the pair while an event armed with the old object pended.    *)
CrashNeedsRecreate == crashed => gen > 1

(* A window that onCapAckTimeout set to 0 for no route is reopened while  *)
(* its TransportStates is in the map: the wake loop finds the relay's     *)
(* route neighbours although it looks them up with the never-assigned     *)
(* consumerID, because the pair filter keeps a pair whose prefix matches. *)
WindowReopens ==
    \A k \in Obj : (tsOf = k /\ ~open[k]) ~> (open[k] \/ tsOf # k \/ crashed)
====
