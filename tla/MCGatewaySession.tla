-------------------------- MODULE MCGatewaySession --------------------------
(* Instance of GatewaySession for TLC: a device that opens two streams,     *)
(* under one id or two, and a connection that holds two messages either     *)
(* way.                                                                     *)
EXTENDS GatewaySession
=============================================================================
