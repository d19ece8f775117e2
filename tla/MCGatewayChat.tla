--------------------------- MODULE MCGatewayChat ---------------------------
(* Instances of GatewayChat for TLC.                                       *)
EXTENDS GatewayChat, TLC

CONSTANTS c1, c2, r1, r2

(* One run; two runs on one connection; one run on each of two.            *)
SingleRun == r1 :> c1
OneHome == (r1 :> c1) @@ (r2 :> c1)
TwoHomes == (r1 :> c1) @@ (r2 :> c2)
=============================================================================
