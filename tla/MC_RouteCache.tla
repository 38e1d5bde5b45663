--------------------------- MODULE MC_RouteCache ---------------------------
(* Small instance of RouteCache: addresses of two bits and three nested    *)
(* subnets, so that a prefix length is also listed and unlisted between    *)
(* two others; two cache entries, three nodes.                             *)
EXTENDS RouteCache, TLC

CONSTANTS c1, c2, n1, n2, n3, r0, r1, r2, r3

MCEntries == {c1, c2}
MCNodes   == {n1, n2, n3}
MCRoutes  == {r0, r1, r2, r3}

Key(n, p) == [net |-> n, prefix |-> p]
MCKeys == {Key(0, 0), Key(2, 1), Key(2, 2)}

\* Seconds that may pass between two readings of the clock.
Forward == {1, 2}

Symmetry ==
  Permutations(MCEntries) \cup Permutations(MCNodes) \cup Permutations(MCRoutes)
=============================================================================
