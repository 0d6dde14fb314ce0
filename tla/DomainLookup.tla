------------------------------ MODULE DomainLookup ------------------------------
(***************************************************************************)
(* The lookup of a domain or an address: one question after another, each  *)
(* asked only if neither the user's "Stop" nor the deadline has come; the  *)
(* last of them gets time of its own. The report says in the end that it   *)
(* was stopped, or timed out, or neither.                                  *)
(*                                                                         *)
(* What a question brings is left out; a target says which of them it will *)
(* meet. The deadline may come at any moment.                              *)
(***************************************************************************)
EXTENDS Naturals, Sequences

CONSTANTS Targets          (* what may be looked up: see Facts             *)

(* A target: its kind; which question brings the address for what follows, *)
(* and whether that is public, or IPv6; Windows leads programs to IPv6;    *)
(* which question brings an IPv6 address besides; the external services;   *)
(* THC answers; the site is closed, with addresses for it in the editor.   *)
Facts == [domain : BOOLEAN, ip : {"none", "windows", "quick"}, public : BOOLEAN,
          six : BOOLEAN, road : BOOLEAN, other : {"none", "quick", "rest"},
          external : BOOLEAN, thc : BOOLEAN, closed : BOOLEAN]

(* An address that was typed has no IPv6 address besides. *)
ASSUME DlAssumption ==
    /\ Targets \subseteq Facts
    /\ \A f \in Targets : ~f.domain => ~f.road /\ f.other = "none"

VARIABLES target, at,      (* what is looked up, the number of the step    *)
          filled,          (* parts of the report that are there           *)
          userStop, expired,
          mark             (* "open", "read" (stopped is set), "finished"  *)
                           (* and which of both marks are set              *)

dlVars == <<target, at, filled, userStop, expired, mark>>

Steps == <<"windows", "quick", "tcp", "site", "hostsHelp", "quic", "road",
           "rest", "canary", "ping", "ptr", "tcp", "ping6", "road", "route",
           "certNamed", "certDefault", "network", "thc", "hackertarget",
           "shodan", "ripestat", "hostsRoad">>

(* Type correctness. *)
DlTypeOK ==
    /\ target \in Targets
    /\ at \in 1..Len(Steps) + 1
    /\ filled \subseteq {Steps[i] : i \in DOMAIN Steps}
    /\ userStop \in BOOLEAN /\ expired \in BOOLEAN
    /\ mark \in [at : {"open", "read", "finished"}, stopped : BOOLEAN, timedOut : BOOLEAN]

DlInit ==
    /\ target \in Targets
    /\ at = 1
    /\ filled = {}
    /\ userStop = FALSE /\ expired = FALSE
    /\ mark = [at |-> "open", stopped |-> FALSE, timedOut |-> FALSE]

-----------------------------------------------------------------------------
Halted == userStop \/ expired

(* Mutant of MayRun: the step that has time of its own does not look.      *)
MayRunLast(step) == step = "hostsRoad" \/ ~Halted

MayRun(step) == ~Halted

(* primary_ip: what was typed, or what Windows or a quick server brought. *)
Primary == ~target.domain \/ target.ip \in filled

(* program_ipv6 is the answer of Windows, pick_ipv6 is of all answers. *)
RoadKnown == ~target.six /\ target.road /\ "windows" \in filled
SixKnown == RoadKnown \/ target.other \in filled

FirstWave == target.domain /\ Primary /\ target.public
Outside == Primary /\ target.public /\ target.external

(* The condition of a step, "Stop" and deadline aside. The first wave ends *)
(* before the servers of the rest answer, who do not change primary_ip.    *)
Applies(step) ==
    CASE step \in {"windows", "quick", "rest", "canary"} -> target.domain
      [] step \in {"site", "hostsHelp"} -> FirstWave
      [] step = "quic" -> FirstWave /\ ~target.six
      [] step = "tcp" -> (at < 8 => FirstWave) /\ Primary /\ "tcp" \notin filled
      [] step = "road" ->
            (at < 8 => FirstWave) /\ Primary /\ RoadKnown /\ "road" \notin filled
      [] step \in {"ping", "ptr", "certDefault"} -> Primary
      [] step = "ping6" -> Primary /\ SixKnown
      [] step = "route" -> Primary /\ ~target.six
      [] step = "certNamed" -> target.domain /\ Primary
      [] step = "network" -> Primary /\ target.public
      [] step \in {"thc", "shodan", "ripestat"} -> Outside
      [] step = "hackertarget" -> Outside /\ ~target.thc
      [] step = "hostsRoad" -> target.domain /\ target.closed
                               /\ {"site", "hostsHelp"} \subseteq filled

Do ==
    /\ at <= Len(Steps) /\ Applies(Steps[at]) /\ MayRun(Steps[at])
    /\ filled' = filled \cup {Steps[at]}
    /\ expired' = (expired /\ Steps[at] # "hostsRoad")     (* extend *)
    /\ at' = at + 1
    /\ UNCHANGED <<target, userStop, mark>>

Skip ==
    /\ at <= Len(Steps) /\ (~Applies(Steps[at]) \/ ~MayRun(Steps[at]))
    /\ at' = at + 1
    /\ UNCHANGED <<target, filled, userStop, expired, mark>>

(* should_stop is asked for the one mark, and again for the other. *)
ReadStop ==
    /\ at > Len(Steps) /\ mark.at = "open"
    /\ mark' = [mark EXCEPT !.at = "read", !.stopped = userStop]
    /\ UNCHANGED <<target, at, filled, userStop, expired>>

ReadDeadline ==
    /\ mark.at = "read"
    /\ mark' = [mark EXCEPT !.at = "finished", !.timedOut = expired /\ ~userStop]
    /\ UNCHANGED <<target, at, filled, userStop, expired>>

PressStop ==
    /\ ~userStop /\ mark.at # "finished"
    /\ userStop' = TRUE
    /\ UNCHANGED <<target, at, filled, expired, mark>>

DeadlineComes ==
    /\ ~expired /\ mark.at # "finished"
    /\ expired' = TRUE
    /\ UNCHANGED <<target, at, filled, userStop, mark>>

DlNext == Do \/ Skip \/ ReadStop \/ ReadDeadline \/ PressStop \/ DeadlineComes

DlSpec == DlInit /\ [][DlNext]_dlVars

-----------------------------------------------------------------------------
(* Properties                                                              *)

(* The parts of a whole report. *)
WholeReport ==
    LET t == target
        address == ~t.domain \/ t.ip # "none"
        named == t.domain /\ address /\ t.public
        road == address /\ ~t.six /\ t.road
    IN  (IF t.domain THEN {"windows", "quick", "rest", "canary"} ELSE {})
        \cup (IF address THEN {"ping", "ptr", "tcp", "certDefault"} ELSE {})
        \cup (IF address /\ t.domain THEN {"certNamed"} ELSE {})
        \cup (IF address /\ ~t.six THEN {"route"} ELSE {})
        \cup (IF named THEN {"site", "hostsHelp"} ELSE {})
        \cup (IF named /\ ~t.six THEN {"quic"} ELSE {})
        \cup (IF road THEN {"road"} ELSE {})
        \cup (IF road \/ (address /\ t.other # "none") THEN {"ping6"} ELSE {})
        \cup (IF address /\ t.public THEN {"network"} ELSE {})
        \cup (IF address /\ t.public /\ t.external THEN {"thc", "shodan", "ripestat"} ELSE {})
        \cup (IF address /\ t.public /\ t.external /\ ~t.thc THEN {"hackertarget"} ELSE {})
        \cup (IF named /\ t.closed THEN {"hostsRoad"} ELSE {})

(* A page tells from the marks that parts are missing because there was no *)
(* time: a report that is marked neither stopped nor timed out is whole.   *)
(* One is not: the deadline came, and "Stop" was pressed after it was read *)
(* for the one mark and before it was read for the other.                  *)
UnmarkedIsWhole ==
    mark.at = "finished" /\ ~mark.stopped /\ ~mark.timedOut
        => filled = WholeReport \/ (userStop /\ expired)
=============================================================================
