---------------------------- MODULE MCUpstream ----------------------------
(* Instances of Upstream: a primary server with fallbacks, swapped roles,  *)
(* and the proxy switched off.                                             *)
EXTENDS Upstream, TLC

CONSTANTS e1, e2, c1, c2, c3

MCEndpoints == {e1, e2}
MCConfigs == {<<e1, e2>>, <<e2, e1>>, <<e1>>, <<>>}
MCDelays == <<1, 2>>
=============================================================================
