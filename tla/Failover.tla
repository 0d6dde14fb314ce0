------------------------------ MODULE Failover ------------------------------
(***************************************************************************)
(* What the upstream controller promises about its servers, independently  *)
(* of the connections, of the mixture of their late reports and of how     *)
(* failures are counted: one server is in use; it is left for the first of *)
(* the list that has rested, and only when it fails, or for the first of   *)
(* all once that has answered a probe; who failed rests, and nobody is     *)
(* used or probed while resting.                                           *)
(***************************************************************************)
EXTENDS Naturals, Sequences

CONSTANTS Endpoints,       (* servers                                      *)
          NoEndpoint,      (* none                                         *)
          Configs          (* lists the user may set, the primary first    *)

VARIABLES list,            (* the servers in use                           *)
          active,          (* the one connections go to                    *)
          probed,          (* the one that is being tried                  *)
          pausing          (* those that rest                              *)

failoverVars == <<list, active, probed, pausing>>

(* e is the first of l that is not in `out`; or nobody is left. *)
IsFirst(l, e, out) ==
    \/ e = NoEndpoint /\ \A i \in DOMAIN l : l[i] \in out
    \/ \E i \in DOMAIN l : /\ e = l[i] /\ e \notin out
                           /\ \A j \in 1..(i - 1) : l[j] \in out

Begins == IsFirst(list, active, {}) /\ probed = NoEndpoint /\ pausing = {}

Init == list \in Configs /\ Begins

(* Another list, or the same once more: everybody starts afresh. *)
Configure == list' \in Configs /\ Begins'

(* A server is tried: the primary, if another one is in use; the first     *)
(* that has rested, if none is. One at a time.                             *)
Try(e) ==
    /\ probed = NoEndpoint /\ e \notin pausing
    /\ IF active = NoEndpoint THEN IsFirst(list, e, pausing)
                              ELSE e # active /\ IsFirst(list, e, {})
    /\ probed' = e
    /\ UNCHANGED <<list, active, pausing>>

(* The server that is tried answers, and is taken: in the place of another *)
(* one only if it is the primary.                                          *)
Take ==
    /\ probed # NoEndpoint
    /\ active # NoEndpoint => IsFirst(list, probed, {})
    /\ active' = probed
    /\ probed' = NoEndpoint
    /\ UNCHANGED <<list, pausing>>

(* It does not answer, and rests. *)
Miss ==
    /\ probed # NoEndpoint
    /\ pausing' = pausing \cup {probed}
    /\ probed' = NoEndpoint
    /\ UNCHANGED <<list, active>>

(* It was given up before anything was known. *)
GiveUp ==
    /\ probed # NoEndpoint
    /\ probed' = NoEndpoint
    /\ UNCHANGED <<list, active, pausing>>

(* The server in use fails and rests; the first rested one takes over, and *)
(* a probe under way does not count any more.                              *)
Fail ==
    /\ active # NoEndpoint
    /\ pausing' = pausing \cup {active}
    /\ IsFirst(list, active', pausing')
    /\ probed' = NoEndpoint
    /\ UNCHANGED list

(* Pauses end. *)
Rested ==
    /\ pausing' \subseteq pausing
    /\ UNCHANGED <<list, active, probed>>

Next ==
    Configure \/ (\E e \in Endpoints : Try(e)) \/ Take \/ Miss \/ GiveUp \/ Fail \/ Rested

Spec == Init /\ [][Next]_failoverVars
=============================================================================
