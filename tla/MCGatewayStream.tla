-------------------------- MODULE MCGatewayStream --------------------------
(* Instances of GatewayStream for TLC. *)
EXTENDS GatewayStream

CONSTANTS r1, r2

=============================================================================
