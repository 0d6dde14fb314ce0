----------------------------- MODULE MCProbeGate -----------------------------
(* An instance of ProbeGate: any thread may ask for any kind.              *)
EXTENDS ProbeGate

CONSTANTS u1, u2, t1, t2, m1, m2

MCInterval == [k \in Kinds |-> IF k = m1 THEN 2 ELSE 3]
SharedKinds == [t \in Checkers |-> Kinds]
=============================================================================
