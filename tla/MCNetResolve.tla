---------------------------- MODULE MCNetResolve ----------------------------
(* An instance of NetResolve: the cache is smaller than the set of keys.   *)
EXTENDS NetResolve

CONSTANTS c1, c2, c3, k1, k2, q1, q2, q3
=============================================================================
