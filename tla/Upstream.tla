------------------------------ MODULE Upstream ------------------------------
(***************************************************************************)
(* The upstream controller of the Telegram proxy: which of the configured  *)
(* SOCKS servers is the one active server, when it is given up, and when a *)
(* given-up server is probed and comes back. Connections of the Telegram   *)
(* client ask for an attempt, live in parallel, and report what became of  *)
(* it, each at a time of its own.                                          *)
(*                                                                         *)
(* Time is discrete and relative: `rest` is what remains of                *)
(* unavailable_until, and recorded failures carry their age. The           *)
(* generation number is only ever compared for equality with the one an    *)
(* attempt was given, so an attempt of another generation is "stale".      *)
(* What two endpoints differ in, reason texts and queue counters are left  *)
(* out; an entry missing from the health map is a healthy one.             *)
(***************************************************************************)
EXTENDS Naturals, Sequences, FiniteSets

CONSTANTS Endpoints,       (* endpoint keys                                *)
          NoEndpoint,      (* Option::None                                 *)
          Configs,         (* configurations the user may set: sequences   *)
                           (* of distinct endpoints, the primary first     *)
          Conns,           (* parallel connections                         *)
          Window,          (* CONNECT_FAILURE_WINDOW                       *)
          FailLimit,       (* CONNECT_FAILURE_LIMIT                        *)
          FailObservation, (* CONNECT_FAILURE_OBSERVATION_WINDOW           *)
          ZeroLimit,       (* ZERO_RECV_LIMIT                              *)
          ZeroObservation, (* ZERO_RECV_OBSERVATION_WINDOW                 *)
          RetryDelays      (* RETRY_DELAYS                                 *)

ASSUME UpstreamAssumption ==
    /\ NoEndpoint \notin Endpoints
    /\ Configs \subseteq Seq(Endpoints)
    /\ Window \in Nat /\ FailLimit \in Nat \ {0} /\ FailObservation \in Nat
    /\ ZeroLimit \in Nat \ {0} /\ ZeroObservation \in Nat
    /\ RetryDelays \in Seq(Nat \ {0}) /\ RetryDelays # <<>>

VARIABLES endpoints,       (* catalogue of the configuration in force      *)
          active,          (* the one active server                        *)
          probe,           (* probe_key                                    *)
          probePrimary,    (* probe_is_primary                             *)
          failures,        (* per endpoint: failed connects by age         *)
          zeros,           (* per endpoint: dataless connections, and the  *)
                           (* age of the first one                         *)
          round, rest,     (* per endpoint: failure_round and its pause    *)
          attempt,         (* per connection: the attempt it was given     *)
          page             (* last_snapshot: what the page was told        *)

healthVars == <<failures, zeros, round, rest>>
vars == <<endpoints, active, probe, probePrimary, healthVars, attempt, page>>

Options == Endpoints \cup {NoEndpoint}
AttemptKinds == {"none", "regular", "probe", "primary_probe", "stale"}
States == {"primary", "fallback", "checking_primary", "unavailable"}

(* Type correctness. Failures are counted up to the limit only, and the    *)
(* number of a round up to the longest pause.                              *)
TypeOK ==
    /\ endpoints \in Configs
    /\ active \in Options /\ probe \in Options
    /\ probePrimary \in BOOLEAN
    /\ failures \in [Endpoints -> [0..Window -> 0..FailLimit]]
    /\ zeros \in [Endpoints -> [count : 0..ZeroLimit, age : 0..ZeroObservation]]
    /\ round \in [Endpoints -> 0..Len(RetryDelays)]
    /\ rest \in [Endpoints -> Nat]
    /\ attempt \in [Conns -> [kind : AttemptKinds, endpoint : Options]]
    /\ page \in [state : States, selected : Options, active : Options]

NoFailures == [a \in 0..Window |-> 0]
NoZeros == [count |-> 0, age |-> 0]
NoAttempt == [kind |-> "none", endpoint |-> NoEndpoint]
StaleAttempt == [kind |-> "stale", endpoint |-> NoEndpoint]

Capped(n, limit) == IF n < limit THEN n ELSE limit

FirstOf(list) == IF list = <<>> THEN NoEndpoint ELSE Head(list)
Selected == FirstOf(endpoints)

-----------------------------------------------------------------------------
(* The page.                                                               *)

PageState ==
    CASE active = NoEndpoint /\ probe # NoEndpoint /\ probe = Selected -> "checking_primary"
      [] active = NoEndpoint /\ ~(probe # NoEndpoint /\ probe = Selected) -> "unavailable"
      [] active # NoEndpoint /\ probePrimary -> "checking_primary"
      [] active # NoEndpoint /\ ~probePrimary /\ active = Selected -> "primary"
      [] active # NoEndpoint /\ ~probePrimary /\ active # Selected -> "fallback"

Snapshot == [state |-> PageState, selected |-> Selected, active |-> active]

(* emit_snapshot, after every other variable has got its new value. *)
Emit == page' = Snapshot'

-----------------------------------------------------------------------------
(* Parts of the operations.                                                *)

IsProbe(c) == attempt[c].kind \in {"probe", "primary_probe"}

(* attempt_is_current, for an attempt of this generation. *)
IsCurrent(c) ==
    \/ IsProbe(c) /\ probe = attempt[c].endpoint
    \/ attempt[c].kind = "regular" /\ active = attempt[c].endpoint

(* Mutant of FirstAvailable: a server whose pause runs is taken too. *)
FirstOther(exclude, e) ==
    LET others == {i \in DOMAIN endpoints : endpoints[i] # exclude}
    IN  \/ others = {} /\ e = NoEndpoint
        \/ \E i \in others : e = endpoints[i] /\ \A j \in others : i <= j

(* first_available returned e: the first of the catalogue whose pause is   *)
(* over, if there is one.                                                  *)
FirstAvailable(exclude, e) ==
    LET rested == {i \in DOMAIN endpoints :
                      endpoints[i] # exclude /\ rest[endpoints[i]] = 0}
    IN  \/ rested = {} /\ e = NoEndpoint
        \/ \E i \in rested : e = endpoints[i] /\ \A j \in rested : i <= j

Penalize(e) ==
    LET n == Capped(round[e] + 1, Len(RetryDelays))
    IN  /\ round' = [round EXCEPT ![e] = n]
        /\ rest' = [rest EXCEPT ![e] = RetryDelays[n]]
        /\ failures' = [failures EXCEPT ![e] = NoFailures]
        /\ zeros' = [zeros EXCEPT ![e] = NoZeros]

ClearProbe == probe' = NoEndpoint /\ probePrimary' = FALSE

(* Mutant of LeaveAndExpire: a switch keeps the generation. *)
LeaveOnly(c) == attempt' = [attempt EXCEPT ![c] = NoAttempt]

(* The attempt of c is over; in a new generation all others are stale. *)
Leave(c) == attempt' = [attempt EXCEPT ![c] = NoAttempt]
LeaveAndExpire(c) ==
    attempt' = [d \in Conns |-> IF d = c \/ attempt[d].kind = "none" THEN NoAttempt
                                ELSE StaleAttempt]

(* switch_active, called from a report of c. *)
SwitchActive(c, e) ==
    \/ /\ e = active
       /\ Leave(c)
       /\ UNCHANGED <<active, probe, probePrimary>>
    \/ /\ e # active
       /\ active' = e
       /\ ClearProbe
       /\ LeaveAndExpire(c)

-----------------------------------------------------------------------------
(* select_attempt.                                                         *)

Give(c, kind, e) == attempt' = [attempt EXCEPT ![c] = [kind |-> kind, endpoint |-> e]]

PrimaryIsDue ==
    active # NoEndpoint /\ active # Selected /\ probe = NoEndpoint /\ rest[Selected] = 0

SelectProbePrimary(c) ==
    /\ PrimaryIsDue
    /\ probe' = Selected
    /\ probePrimary' = TRUE
    /\ Give(c, "primary_probe", Selected)
    /\ UNCHANGED active

SelectActive(c) ==
    /\ ~PrimaryIsDue
    /\ active # NoEndpoint
    /\ Give(c, "regular", active)
    /\ UNCHANGED <<active, probe, probePrimary>>

SelectCandidate(c) ==
    /\ active = NoEndpoint
    /\ probe = NoEndpoint
    /\ \E candidate \in Endpoints :
           /\ FirstAvailable(NoEndpoint, candidate)
           /\ probe' = candidate
           /\ probePrimary' = (candidate = Selected)
           /\ Give(c, IF candidate = Selected THEN "primary_probe" ELSE "probe", candidate)
    /\ UNCHANGED active

SelectAttempt(c) ==
    /\ attempt[c].kind = "none"
    /\ endpoints # <<>>
    /\ SelectProbePrimary(c) \/ SelectActive(c) \/ SelectCandidate(c)
    /\ UNCHANGED <<endpoints, healthVars>>
    /\ Emit

-----------------------------------------------------------------------------
(* Reports. A connection reports once.                                     *)

(* Nothing is learnt from an attempt that is not current. *)
ReportStale(c) ==
    /\ attempt[c].kind # "none"
    /\ ~IsCurrent(c)
    /\ Leave(c)
    /\ UNCHANGED <<endpoints, active, probe, probePrimary, healthVars, page>>

(* Mutant of ReportProbeFailed: the pause is set, the probe not cleared. *)
ReportProbeFailedKeepsProbe(c) ==
    /\ IsProbe(c) /\ IsCurrent(c)
    /\ Penalize(attempt[c].endpoint)
    /\ Leave(c)
    /\ UNCHANGED <<endpoints, active, probe, probePrimary>>
    /\ Emit

(* A probe that failed to connect, or got no data. *)
ReportProbeFailed(c) ==
    /\ IsProbe(c) /\ IsCurrent(c)
    /\ Penalize(attempt[c].endpoint)
    /\ ClearProbe
    /\ Leave(c)
    /\ UNCHANGED <<endpoints, active>>
    /\ Emit

(* fail_active: the pause begins, the first rested other server takes over. *)
FailActive(c) ==
    /\ Penalize(active)
    /\ \E e \in Options : FirstAvailable(active, e) /\ SwitchActive(c, e)
    /\ UNCHANGED endpoints
    /\ Emit

TooMany(byAge) ==
    /\ Cardinality({n \in (0..Window) \X (1..FailLimit) : n[2] <= byAge[n[1]]}) >= FailLimit
    /\ \E a \in 0..Window : a >= FailObservation /\ byAge[a] > 0

RecordConnectFailure(c) ==
    /\ attempt[c].kind = "regular" /\ IsCurrent(c)
    /\ LET counted == [failures[active] EXCEPT ![0] = Capped(@ + 1, FailLimit)]
       IN  \/ /\ TooMany(counted)
              /\ FailActive(c)
           \/ /\ ~TooMany(counted)
              /\ failures' = [failures EXCEPT ![active] = counted]
              /\ Leave(c)
              /\ UNCHANGED <<endpoints, active, probe, probePrimary, zeros, round, rest, page>>

RecordZeroRecv(c) ==
    /\ attempt[c].kind = "regular" /\ IsCurrent(c)
    /\ LET count == Capped(zeros[active].count + 1, ZeroLimit)
           age == IF zeros[active].count = 0 THEN 0 ELSE zeros[active].age
       IN  \/ /\ count = ZeroLimit /\ age = ZeroObservation
              /\ FailActive(c)
           \/ /\ ~(count = ZeroLimit /\ age = ZeroObservation)
              /\ zeros' = [zeros EXCEPT ![active] = [count |-> count, age |-> age]]
              /\ Leave(c)
              /\ UNCHANGED <<endpoints, active, probe, probePrimary, failures, round, rest, page>>

(* Real data: the server is healthy, and a probe makes it active. *)
RecordRecvOk(c) ==
    /\ attempt[c].kind # "none" /\ IsCurrent(c)
    /\ LET e == attempt[c].endpoint
       IN  /\ failures' = [failures EXCEPT ![e] = NoFailures]
           /\ zeros' = [zeros EXCEPT ![e] = NoZeros]
           /\ round' = [round EXCEPT ![e] = 0]
           /\ rest' = [rest EXCEPT ![e] = 0]
           /\ \/ /\ ~IsProbe(c)
                 /\ Leave(c)
                 /\ UNCHANGED <<active, probe, probePrimary>>
              \/ /\ IsProbe(c)
                 /\ active = NoEndpoint \/ attempt[c].kind = "primary_probe"
                 /\ e # active
                 /\ SwitchActive(c, e)
              \/ /\ IsProbe(c)
                 /\ ~(active = NoEndpoint \/ attempt[c].kind = "primary_probe") \/ e = active
                 /\ ClearProbe
                 /\ Leave(c)
                 /\ UNCHANGED active
    /\ UNCHANGED endpoints
    /\ Emit

(* The connection was given up locally: the server is not to blame. *)
AbandonAttempt(c) ==
    /\ attempt[c].kind # "none"
    /\ \/ /\ IsProbe(c) /\ IsCurrent(c)
          /\ ClearProbe
       \/ /\ ~(IsProbe(c) /\ IsCurrent(c))
          /\ UNCHANGED <<probe, probePrimary>>
    /\ Leave(c)
    /\ UNCHANGED <<endpoints, active, healthVars>>
    /\ Emit

Report(c) ==
    \/ ReportStale(c) \/ ReportProbeFailed(c) \/ RecordConnectFailure(c)
    \/ RecordZeroRecv(c) \/ RecordRecvOk(c) \/ AbandonAttempt(c)

-----------------------------------------------------------------------------
(* replace_config: the first server becomes active and every server        *)
(* healthy. The generation changes only if the active server does.         *)
ReplaceConfig(list) ==
    /\ endpoints' = list
    /\ active' = FirstOf(list)
    /\ ClearProbe
    /\ failures' = [e \in Endpoints |-> NoFailures]
    /\ zeros' = [e \in Endpoints |-> NoZeros]
    /\ round' = [e \in Endpoints |-> 0]
    /\ rest' = [e \in Endpoints |-> 0]
    /\ attempt' = [c \in Conns |-> IF attempt[c].kind = "none" THEN NoAttempt
                                   ELSE IF active = active' THEN attempt[c]
                                   ELSE StaleAttempt]
    /\ Emit

(* Time passes: failures older than the window no longer count. *)
Tick ==
    /\ rest' = [e \in Endpoints |-> IF rest[e] = 0 THEN 0 ELSE rest[e] - 1]
    /\ failures' = [e \in Endpoints |->
                       [a \in 0..Window |-> IF a = 0 THEN 0 ELSE failures[e][a - 1]]]
    /\ zeros' = [e \in Endpoints |->
                    IF zeros[e].count = 0 THEN NoZeros
                    ELSE [zeros[e] EXCEPT !.age = Capped(@ + 1, ZeroObservation)]]
    /\ UNCHANGED <<endpoints, active, probe, probePrimary, round, attempt, page>>

Init ==
    /\ endpoints \in Configs
    /\ active = Selected
    /\ probe = NoEndpoint
    /\ probePrimary = FALSE
    /\ failures = [e \in Endpoints |-> NoFailures]
    /\ zeros = [e \in Endpoints |-> NoZeros]
    /\ round = [e \in Endpoints |-> 0]
    /\ rest = [e \in Endpoints |-> 0]
    /\ attempt = [c \in Conns |-> NoAttempt]
    /\ page = Snapshot

Next ==
    \/ \E c \in Conns : SelectAttempt(c) \/ Report(c)
    \/ \E list \in Configs : ReplaceConfig(list)
    \/ Tick

Spec == Init /\ [][Next]_vars

(* Clients keep connecting, a connection ends some time, and time passes.  *)
Fairness ==
    /\ WF_vars(Tick)
    /\ \A c \in Conns : WF_vars(SelectAttempt(c)) /\ WF_vars(Report(c))

FairSpec == Spec /\ Fairness

-----------------------------------------------------------------------------
(* Properties                                                              *)

(* The active server is never one whose pause still runs: whatever mixture *)
(* of late reports, probes and configuration changes led to it.            *)
ActiveIsRested == active # NoEndpoint => rest[active] = 0

(* Exactly one connection holds the probe the controller waits for. With   *)
(* none, a probe would stay pending for ever and no server be tried again; *)
(* with two, a report about an older probe would decide the newer one.     *)
OneProbeInFlight ==
    probe # NoEndpoint =>
        \E c \in Conns : \A d \in Conns :
            (IsProbe(d) /\ attempt[d].endpoint = probe) <=> (c = d)

(* A burst of failures costs a server one pause: no report extends a pause *)
(* that is still running.                                                  *)
OnePausePerFailure ==
    [][\A e \in Endpoints : rest'[e] > rest[e] => rest[e] = 0]_vars

(* The page was told the state the controller is in. *)
PageIsCurrent == page = Snapshot

(* A primary server that was given up is probed again, or is active again, *)
(* whatever the other servers do.                                          *)
PrimaryIsRetried == (active # Selected) ~> (probe = Selected \/ active = Selected)

(* The controller keeps the promise of module Failover, in which there are *)
(* no connections: reports that come late, reports about a list that is no *)
(* longer in use, and failures below their limits change nothing in it.    *)
Promise == INSTANCE Failover
    WITH list <- endpoints, probed <- probe, pausing <- {e \in Endpoints : rest[e] > 0}
FailsOverAsPromised == Promise!Spec
=============================================================================
