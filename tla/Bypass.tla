------------------------------- MODULE Bypass -------------------------------
(***************************************************************************)
(* What the bypass tab promises about the packet engine and the kernel     *)
(* rules that feed it, independently of the handlers, of the privileged    *)
(* helper and of the order of their calls: rules come before the engine,   *)
(* leave after it, and two engines never run at once.                      *)
(***************************************************************************)
CONSTANT Pids              (* process identifiers an engine may get        *)

VARIABLES engines,         (* engines running in the system                *)
          rules            (* is the nftables table of the bypass present? *)

bypassVars == <<engines, rules>>

Init == engines = {} /\ rules = FALSE

(* Rules may be (re)installed while nothing runs. *)
Install == /\ engines = {}
           /\ rules' = TRUE
           /\ UNCHANGED engines

(* An engine starts behind installed rules, and alone. *)
Launch(p) == /\ engines = {}
             /\ rules
             /\ engines' = {p}
             /\ UNCHANGED rules

(* An engine is stopped, or dies by itself: the rules outlive it. *)
End == /\ engines # {}
       /\ engines' = {}
       /\ UNCHANGED rules

(* Rules are only taken away from under nobody. *)
Remove == /\ engines = {}
          /\ rules' = FALSE
          /\ UNCHANGED engines

Next == Install \/ (\E p \in Pids : Launch(p)) \/ End \/ Remove

Spec == Init /\ [][Next]_bypassVars
=============================================================================
