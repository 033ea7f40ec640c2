--------------------------- MODULE MCRntpDiscovery ---------------------------
(* Topologies for checking RntpDiscovery.                                 *)
EXTENDS RntpDiscovery

CONSTANTS c, a, b, p, d

(* The diamond of MCRntpTransport: c-a, c-b, a-p, b-p and the cross link  *)
(* a-b.                                                                   *)
DiamondNode == {c, a, b, p}
DiamondNbr ==
    [n \in DiamondNode |->
        CASE n = c -> {a, b}
          [] n = a -> {c, b, p}
          [] n = b -> {c, a, p}
          [] n = p -> {a, b}]

(* A line c-a-p-d: d is reached only through the producer, which never    *)
(* floods discovery on, but does flood the end wave.                      *)
LineNode == {c, a, p, d}
LineNbr ==
    [n \in LineNode |->
        CASE n = c -> {a}
          [] n = a -> {c, p}
          [] n = p -> {a, d}
          [] n = d -> {p}]
====
