----------------------------- MODULE MCGatewayWs -----------------------------
(* GatewayWs with interchangeable sockets and callers, for the run without liveness. *)
EXTENDS GatewayWs, TLC

ApiSymmetry == Permutations(Sockets) \cup Permutations(Callers)
==============================================================================
