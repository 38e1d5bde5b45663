------------------------------ MODULE MC_Dhcp ------------------------------
(* Small instance of Dhcp: two ordinary clients and one with a static rule, *)
(* a range of three addresses of which two are ever offered.               *)
EXTENDS Dhcp, TLC

CONSTANTS c1, c2, s

MCClients == {c1, c2, s}
MCStatic  == s :> 9
MCSymmetry == Permutations({c1, c2})
=============================================================================
