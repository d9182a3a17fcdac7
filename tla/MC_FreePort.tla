----------------------------- MODULE MC_FreePort -----------------------------
(* Three concurrent calls of getFreeTCPPort sharing two ephemeral ports:   *)
(* enough for a call to find every port bound and for a port to be handed  *)
(* out twice.                                                              *)
EXTENDS FreePort

CONSTANTS g1, g2, g3

MCCalls == {g1, g2, g3}
MCPorts == {40000, 40001}
=============================================================================
