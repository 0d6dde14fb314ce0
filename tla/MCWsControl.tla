----------------------------- MODULE MCWsControl -----------------------------
(* Instances of WsControl for the model checker. *)
EXTENDS WsControl, TLC

CONSTANTS r1, r2, r3

MCPids == 1..3
MCTwoPids == 1..2

(* Any thread may be asked for anything. *)
DoesAll == [r \in Reqs |-> Kinds]

(* Any thread may be asked for a start or a stop. *)
DoesChange == [r \in Reqs |-> {"start", "stop"}]

(* One user, who clicks start or stop, and one poller of the status. *)
DoesSerial == [r \in Reqs |-> IF r = r1 THEN {"start", "stop"} ELSE {"status"}]

(* Only one thread, and it starts. *)
DoesStart == [r \in Reqs |-> {"start"}]

ReqSymmetry == Permutations(Reqs)
=============================================================================
