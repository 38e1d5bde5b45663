------------------------------ MODULE MC_Pppoe ------------------------------
(***************************************************************************)
(* Two concentrators with the heartbeat on: the shortest list along which  *)
(* the index can move, and over whose end it can run after the hourly      *)
(* clearing.                                                               *)
(***************************************************************************)
EXTENDS Pppoe
=============================================================================
