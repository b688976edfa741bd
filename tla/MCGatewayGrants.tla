--------------------------- MODULE MCGatewayGrants ---------------------------
(* Small instances of GatewayGrants: two tenants, each with one subject.   *)
EXTENDS GatewayGrants, TLC

CONSTANTS s1, s2, n1, n2

MCPolicy == (s1 :> n1) @@ (s2 :> n2)
=============================================================================
