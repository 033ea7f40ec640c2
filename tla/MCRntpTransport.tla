--------------------------- MODULE MCRntpTransport ---------------------------
(* The four-node diamond of the RNTP topologies: consumer c and producer p *)
(* are two hops apart, relays a and b hear each other and both ends.       *)
(* Routes are those the InterestBroadcast flood installs when a's copy    *)
(* arrives first everywhere.                                               *)
EXTENDS RntpTransport

CONSTANTS c, a, b, p,
          MaxInAir    \* transmissions (a broadcast counts once) in the air at once

MCNbr == (c :> {a, b}) @@ (a :> {c, b, p}) @@ (b :> {c, a, p}) @@ (p :> {a, b})

\* fixed quality of the earlier hops of the two-hop routes
FQ == 2

MCRoutes ==
    (c :> << >>)
 @@ (a :> << [ids |-> <<c, a>>, fq |-> << >>], [ids |-> <<c, b, a>>, fq |-> <<FQ>>] >>)
 @@ (b :> << [ids |-> <<c, b>>, fq |-> << >>], [ids |-> <<c, a, b>>, fq |-> <<FQ>>] >>)
 @@ (p :> << [ids |-> <<c, a, p>>, fq |-> <<FQ>>], [ids |-> <<c, b, p>>, fq |-> <<FQ>>] >>)

\* The triangle: the consumer hears the producer directly, so the producer
\* holds the direct route and the two-hop route through the relay a.
TriNbr == (c :> {a, p}) @@ (a :> {c, p}) @@ (p :> {c, a})

TriRoutes ==
    (c :> << >>)
 @@ (a :> << [ids |-> <<c, a>>, fq |-> << >>] >>)
 @@ (p :> << [ids |-> <<c, p>>, fq |-> << >>], [ids |-> <<c, a, p>>, fq |-> <<FQ>>] >>)

\* the bounds of the search
NetBound == Cardinality({<<m.kind, m.src, m.d, m.path, m.ups>> : m \in net}) <= MaxInAir

====
