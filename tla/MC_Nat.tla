------------------------------- MODULE MC_Nat -------------------------------
(* Small instances of Nat: two session objects, three timer nodes, ids 1   *)
(* and 2 of four, a tick of two seconds, a ring of three slots.            *)
EXTENDS Nat, TLC

CONSTANTS s1, s2, n1, n2, n3, h1, h2

MCSessions == {s1, s2}
MCNodes    == {n1, n2, n3}

\* Three flows share the two ids of the UDP id set, and h2 has a flow from a
\* port the port map may give it.  (The short timeout of TCP: see TcpFlows.)
Flow(h, pr, p) == [host |-> h, proto |-> pr, port |-> p]
MCFlows == {Flow(h1, "udp", 1), Flow(h2, "udp", 0), Flow(h1, "udplite", 1)}
TcpFlows == {Flow(h1, "tcp", 1), Flow(h2, "tcp", 1)}

MCProtocols == {"udp", "udplite"}
OneProtocol == {"tcp"}

\* The port map only has ports outside of the NAT range ...
MCRules == {[proto |-> "udp", port |-> 0, host |-> h2]}
\* ... or a port the NAT range contains.
ConflictingRules == {[proto |-> "tcp", port |-> 1, host |-> h2]}

\* An operator moves the range so that it overlaps with the first one.
MCRanges == {[min |-> 2, max |-> 3]}
NoRanges == {}

\* Seconds that may pass between two readings of the clock; it may also be
\* set back.
MCSteps  == {-1, 1, 2}
Forward  == {1, 2}

Symmetry == Permutations(MCSessions) \cup Permutations(MCNodes)
=============================================================================
