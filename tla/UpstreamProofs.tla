--------------------------- MODULE UpstreamProofs ---------------------------
(***************************************************************************)
(* Theorems about the upstream controller, for any number of servers and   *)
(* connections and any limits, windows and pauses.                         *)
(***************************************************************************)
EXTENDS Upstream, TLAPS

(* An attempt that is not stale is for a server. *)
AttemptsNameServers ==
    \A c \in Conns : attempt[c].kind \in {"regular", "probe", "primary_probe"}
                        => attempt[c].endpoint \in Endpoints

(* No two connections hold probes of this generation. A probe nobody waits *)
(* for any more (the configuration was replaced, the active server stayed) *)
(* keeps new ones out, because then the active server is the primary one.  *)
ProbeInv ==
    /\ \A c, d \in Conns : IsProbe(c) /\ IsProbe(d) => c = d
    /\ probe # NoEndpoint => \E c \in Conns : IsProbe(c) /\ attempt[c].endpoint = probe
    /\ (probe = NoEndpoint /\ \E c \in Conns : IsProbe(c)) => active = Selected

(* Neither the active server nor the probed one has a running pause. *)
RestInv ==
    /\ active # NoEndpoint => rest[active] = 0
    /\ probe # NoEndpoint => rest[probe] = 0 /\ probe # active

Inv == TypeOK /\ AttemptsNameServers /\ ProbeInv /\ RestInv

-----------------------------------------------------------------------------
(* Types of the parts.                                                     *)

LEMMA CappedType ==
    ASSUME NEW n \in Nat, NEW limit \in Nat
    PROVE  /\ Capped(n, limit) \in 0..limit
           /\ n > 0 /\ limit > 0 => Capped(n, limit) \in 1..limit
  BY DEF Capped

LEMMA FirstOfType ==
    ASSUME NEW list \in Configs
    PROVE  /\ FirstOf(list) \in Options
           /\ list # <<>> => FirstOf(list) \in Endpoints /\ FirstOf(list) # NoEndpoint
  BY UpstreamAssumption DEF FirstOf, Options

LEMMA SnapshotType ==
    ASSUME endpoints \in Configs, active \in Options
    PROVE  Snapshot \in [state : States, selected : Options, active : Options]
  <1>1. Selected \in Options
    BY FirstOfType DEF Selected
  <1>2. PageState \in States
    BY DEF PageState, States
  <1>3. QED
    BY <1>1, <1>2 DEF Snapshot

LEMMA EmitType ==
    ASSUME endpoints' \in Configs, active' \in Options, Emit
    PROVE  page' \in [state : States, selected : Options, active : Options]
  <1>1. Selected' \in Options
    BY FirstOfType DEF Selected
  <1>2. PageState' \in States
    BY DEF PageState, States
  <1>3. QED
    BY <1>1, <1>2 DEF Emit, Snapshot

LEMMA PenalizeType ==
    ASSUME TypeOK, NEW e \in Endpoints, Penalize(e)
    PROVE  /\ failures' \in [Endpoints -> [0..Window -> 0..FailLimit]]
           /\ zeros' \in [Endpoints -> [count : 0..ZeroLimit, age : 0..ZeroObservation]]
           /\ round' \in [Endpoints -> 0..Len(RetryDelays)]
           /\ rest' \in [Endpoints -> Nat]
           /\ \A f \in Endpoints \ {e} : rest'[f] = rest[f]
  <1> DEFINE n == Capped(round[e] + 1, Len(RetryDelays))
  <1>1. Len(RetryDelays) \in Nat \ {0}
    BY UpstreamAssumption
  <1>2. n \in 1..Len(RetryDelays)
    <2>1. round[e] + 1 \in Nat \ {0}
      BY <1>1 DEF TypeOK
    <2>2. QED
      BY <1>1, <2>1 DEF Capped
  <1>3. RetryDelays[n] \in Nat
    BY <1>2, UpstreamAssumption
  <1>4. NoFailures \in [0..Window -> 0..FailLimit]
    BY UpstreamAssumption DEF NoFailures
  <1>5. NoZeros \in [count : 0..ZeroLimit, age : 0..ZeroObservation]
    BY UpstreamAssumption DEF NoZeros
  <1>6. QED
    BY <1>2, <1>3, <1>4, <1>5 DEF Penalize, TypeOK

LEMMA LeaveType ==
    ASSUME TypeOK, NEW c \in Conns, Leave(c) \/ LeaveAndExpire(c)
    PROVE  /\ attempt' \in [Conns -> [kind : AttemptKinds, endpoint : Options]]
           /\ AttemptsNameServers => AttemptsNameServers'
           /\ attempt'[c] = NoAttempt
  <1>1. NoAttempt \in [kind : AttemptKinds, endpoint : Options]
    BY DEF NoAttempt, AttemptKinds, Options
  <1>2. StaleAttempt \in [kind : AttemptKinds, endpoint : Options]
    BY DEF StaleAttempt, AttemptKinds, Options
  <1>3. CASE Leave(c)
    BY <1>1, <1>3 DEF TypeOK, Leave, NoAttempt, AttemptsNameServers
  <1>4. CASE LeaveAndExpire(c)
    BY <1>1, <1>2, <1>4 DEF TypeOK, LeaveAndExpire, NoAttempt, StaleAttempt, AttemptsNameServers
  <1>5. QED
    BY <1>3, <1>4

LEMMA CurrentType ==
    ASSUME TypeOK, AttemptsNameServers, NEW c \in Conns, IsCurrent(c)
    PROVE  /\ attempt[c].endpoint \in Endpoints /\ attempt[c].endpoint # NoEndpoint
           /\ IsProbe(c) => probe = attempt[c].endpoint
           /\ attempt[c].kind = "regular" => active = attempt[c].endpoint
  BY UpstreamAssumption DEF IsCurrent, IsProbe, AttemptsNameServers

(* A connection that leaves takes its own probe with it and no other.      *)
LEMMA LeaveProbes ==
    ASSUME TypeOK, NEW c \in Conns, Leave(c)
    PROVE  \A d \in Conns : /\ IsProbe(d)' <=> (d # c /\ IsProbe(d))
                            /\ d # c => attempt'[d] = attempt[d]
  BY DEF TypeOK, Leave, NoAttempt, IsProbe

(* In a new generation nobody holds a probe.                               *)
LEMMA ExpireProbes ==
    ASSUME TypeOK, NEW c \in Conns, LeaveAndExpire(c)
    PROVE  \A d \in Conns : ~IsProbe(d)'
  BY DEF TypeOK, LeaveAndExpire, NoAttempt, StaleAttempt, IsProbe

-----------------------------------------------------------------------------
(* Each operation preserves the invariant.                                 *)

LEMMA InitInv == Init => Inv
  <1> SUFFICES ASSUME Init PROVE Inv
    OBVIOUS
  <1>1. active \in Options
    BY FirstOfType DEF Init, Selected
  <1>2. page \in [state : States, selected : Options, active : Options]
    BY <1>1, SnapshotType DEF Init
  <1>3. TypeOK
    <2>1. NoFailures \in [0..Window -> 0..FailLimit]
      BY UpstreamAssumption DEF NoFailures
    <2>2. NoZeros \in [count : 0..ZeroLimit, age : 0..ZeroObservation]
      BY UpstreamAssumption DEF NoZeros
    <2>3. NoAttempt \in [kind : AttemptKinds, endpoint : Options]
      BY DEF NoAttempt, AttemptKinds, Options
    <2>4. 0 \in 0..Len(RetryDelays)
      BY UpstreamAssumption
    <2>5. QED
      BY <1>1, <1>2, <2>1, <2>2, <2>3, <2>4 DEF Init, TypeOK, Options
  <1>4. AttemptsNameServers /\ ProbeInv
    BY DEF Init, AttemptsNameServers, ProbeInv, IsProbe, NoAttempt
  <1>5. RestInv
    BY <1>1 DEF Init, RestInv, Options
  <1>6. QED
    BY <1>3, <1>4, <1>5 DEF Inv

LEMMA SelectStep ==
    ASSUME Inv, NEW c \in Conns, SelectAttempt(c)
    PROVE  Inv'
  <1> USE DEF Inv
  <1>1. Selected \in Endpoints /\ Selected # NoEndpoint
    BY FirstOfType DEF SelectAttempt, Selected, TypeOK
  <1>2. UNCHANGED <<endpoints, active, failures, zeros, round, rest>>
    BY DEF SelectAttempt, SelectProbePrimary, SelectActive, SelectCandidate, healthVars
  <1>3. page' \in [state : States, selected : Options, active : Options]
    BY <1>2, EmitType DEF SelectAttempt, TypeOK
  <1>4. CASE SelectProbePrimary(c)
    <2>1. TypeOK' /\ AttemptsNameServers'
      BY <1>1, <1>2, <1>3, <1>4
      DEF TypeOK, AttemptsNameServers, SelectProbePrimary, Give, Options, AttemptKinds
    <2>2. ProbeInv'
      BY <1>1, <1>2, <1>4
      DEF TypeOK, ProbeInv, IsProbe, SelectProbePrimary, PrimaryIsDue, Give
    <2>3. RestInv'
      BY <1>1, <1>2, <1>4 DEF RestInv, SelectProbePrimary, PrimaryIsDue
    <2>4. QED
      BY <2>1, <2>2, <2>3
  <1>5. CASE SelectActive(c)
    <2>1. TypeOK' /\ AttemptsNameServers'
      BY <1>2, <1>3, <1>5 DEF TypeOK, AttemptsNameServers, SelectActive, Give, Options, AttemptKinds
    <2>2. ProbeInv'
      BY <1>2, <1>5
      DEF TypeOK, ProbeInv, IsProbe, SelectActive, Give, SelectAttempt, Selected
    <2>3. RestInv'
      BY <1>2, <1>5 DEF RestInv, SelectActive
    <2>4. QED
      BY <2>1, <2>2, <2>3
  <1>6. CASE SelectCandidate(c)
    <2>1. PICK e \in Endpoints :
             /\ FirstAvailable(NoEndpoint, e)
             /\ probe' = e
             /\ probePrimary' = (e = Selected)
             /\ Give(c, IF e = Selected THEN "primary_probe" ELSE "probe", e)
      BY <1>6 DEF SelectCandidate
    <2>2. e # NoEndpoint /\ active = NoEndpoint /\ probe = NoEndpoint /\ active # Selected
      BY <1>1, <1>6, UpstreamAssumption DEF SelectCandidate
    <2>3. rest[e] = 0
      BY <2>1, <2>2 DEF FirstAvailable
    <2>4. TypeOK' /\ AttemptsNameServers'
      BY <1>2, <1>3, <2>1 DEF TypeOK, AttemptsNameServers, Give, Options, AttemptKinds
    <2>5. ProbeInv'
      BY <1>1, <1>2, <2>1, <2>2 DEF TypeOK, ProbeInv, IsProbe, Give
    <2>6. RestInv'
      BY <1>2, <2>1, <2>2, <2>3 DEF RestInv
    <2>7. QED
      BY <2>4, <2>5, <2>6
  <1>7. QED
    BY <1>4, <1>5, <1>6 DEF SelectAttempt

LEMMA ReportStaleStep ==
    ASSUME Inv, NEW c \in Conns, ReportStale(c)
    PROVE  Inv'
  <1> USE DEF Inv
  <1>1. Leave(c) /\ UNCHANGED <<endpoints, active, probe, probePrimary, healthVars, page>>
    BY DEF ReportStale
  <1>2. TypeOK' /\ AttemptsNameServers'
    BY <1>1, LeaveType DEF TypeOK, healthVars
  <1>3. ProbeInv'
    BY <1>1, LeaveProbes DEF ProbeInv, ReportStale, IsCurrent, Selected, IsProbe
  <1>4. RestInv'
    BY <1>1 DEF RestInv, healthVars
  <1>5. QED
    BY <1>2, <1>3, <1>4

LEMMA ReportProbeFailedStep ==
    ASSUME Inv, NEW c \in Conns, ReportProbeFailed(c)
    PROVE  Inv'
  <1> USE DEF Inv
  <1> DEFINE e == attempt[c].endpoint
  <1>1. e \in Endpoints /\ probe = e
    BY CurrentType DEF ReportProbeFailed
  <1>2. Leave(c) /\ ClearProbe /\ Penalize(e) /\ UNCHANGED <<endpoints, active>> /\ Emit
    BY DEF ReportProbeFailed
  <1>3. TypeOK' /\ AttemptsNameServers'
    <2>1. page' \in [state : States, selected : Options, active : Options]
      BY <1>2, EmitType DEF TypeOK
    <2>2. QED
      BY <1>1, <1>2, <2>1, LeaveType, PenalizeType DEF TypeOK, ClearProbe, Options
  <1>4. ProbeInv'
    BY <1>2, LeaveProbes DEF ProbeInv, ClearProbe, ReportProbeFailed
  <1>5. RestInv'
    BY <1>1, <1>2, PenalizeType, UpstreamAssumption DEF RestInv, ClearProbe, TypeOK, Options
  <1>6. QED
    BY <1>3, <1>4, <1>5

(* Penalising the active server and handing over to the first rested one,  *)
(* as both kinds of a regular connection's failure do.                     *)
LEMMA FailActiveStep ==
    ASSUME Inv, NEW c \in Conns, attempt[c].kind = "regular", IsCurrent(c), FailActive(c)
    PROVE  Inv'
  <1> USE DEF Inv
  <1>1. active \in Endpoints /\ active # NoEndpoint
    BY CurrentType
  <1>2. Penalize(active) /\ endpoints' = endpoints /\ Emit
    BY DEF FailActive
  <1>3. PICK e \in Options : FirstAvailable(active, e) /\ SwitchActive(c, e)
    BY DEF FailActive
  <1>4. e # active /\ (e # NoEndpoint => e \in Endpoints /\ rest[e] = 0)
    BY <1>1, <1>3 DEF FirstAvailable, Options
  <1>5. active' = e /\ ClearProbe /\ LeaveAndExpire(c)
    BY <1>3, <1>4 DEF SwitchActive
  <1>6. TypeOK' /\ AttemptsNameServers'
    <2>1. page' \in [state : States, selected : Options, active : Options]
      BY <1>2, <1>5, EmitType DEF TypeOK
    <2>2. QED
      BY <1>1, <1>2, <1>5, <2>1, LeaveType, PenalizeType DEF TypeOK, ClearProbe, Options
  <1>7. ProbeInv'
    BY <1>5, ExpireProbes DEF ProbeInv, ClearProbe
  <1>8. RestInv'
    BY <1>1, <1>2, <1>4, <1>5, PenalizeType DEF RestInv, ClearProbe
  <1>9. QED
    BY <1>6, <1>7, <1>8

LEMMA RecordConnectFailureStep ==
    ASSUME Inv, NEW c \in Conns, RecordConnectFailure(c)
    PROVE  Inv'
  <1> USE DEF Inv
  <1> DEFINE counted == [failures[active] EXCEPT ![0] = Capped(@ + 1, FailLimit)]
  <1>1. attempt[c].kind = "regular" /\ IsCurrent(c)
    BY DEF RecordConnectFailure
  <1>2. active \in Endpoints
    BY <1>1, CurrentType
  <1>3. CASE FailActive(c)
    BY <1>1, <1>3, FailActiveStep
  <1>4. CASE /\ failures' = [failures EXCEPT ![active] = counted]
             /\ Leave(c)
             /\ UNCHANGED <<endpoints, active, probe, probePrimary, zeros, round, rest, page>>
    <2>1. counted \in [0..Window -> 0..FailLimit]
      <3>1. failures[active] \in [0..Window -> 0..FailLimit] /\ 0 \in 0..Window
        BY <1>2, UpstreamAssumption DEF TypeOK
      <3>2. Capped(failures[active][0] + 1, FailLimit) \in 0..FailLimit
        BY <3>1, UpstreamAssumption DEF Capped
      <3>3. QED
        BY <3>1, <3>2
    <2>2. TypeOK' /\ AttemptsNameServers'
      BY <1>4, <2>1, LeaveType DEF TypeOK
    <2>3. ProbeInv'
      BY <1>1, <1>4, LeaveProbes DEF ProbeInv, Selected, IsProbe
    <2>4. RestInv'
      BY <1>4 DEF RestInv
    <2>5. QED
      BY <2>2, <2>3, <2>4
  <1>5. QED
    BY <1>3, <1>4 DEF RecordConnectFailure

LEMMA RecordZeroRecvStep ==
    ASSUME Inv, NEW c \in Conns, RecordZeroRecv(c)
    PROVE  Inv'
  <1> USE DEF Inv
  <1> DEFINE count == Capped(zeros[active].count + 1, ZeroLimit)
             age == IF zeros[active].count = 0 THEN 0 ELSE zeros[active].age
  <1>1. attempt[c].kind = "regular" /\ IsCurrent(c)
    BY DEF RecordZeroRecv
  <1>2. active \in Endpoints
    BY <1>1, CurrentType
  <1>3. CASE FailActive(c)
    BY <1>1, <1>3, FailActiveStep
  <1>4. CASE /\ zeros' = [zeros EXCEPT ![active] = [count |-> count, age |-> age]]
             /\ Leave(c)
             /\ UNCHANGED <<endpoints, active, probe, probePrimary, failures, round, rest, page>>
    <2>1. count \in 0..ZeroLimit /\ age \in 0..ZeroObservation
      BY <1>2, UpstreamAssumption DEF TypeOK, Capped
    <2>2. TypeOK' /\ AttemptsNameServers'
      BY <1>4, <2>1, LeaveType DEF TypeOK
    <2>3. ProbeInv'
      BY <1>1, <1>4, LeaveProbes DEF ProbeInv, Selected, IsProbe
    <2>4. RestInv'
      BY <1>4 DEF RestInv
    <2>5. QED
      BY <2>2, <2>3, <2>4
  <1>5. QED
    BY <1>3, <1>4 DEF RecordZeroRecv

(* What RecordRecvOk writes about the server that sent data. *)
Recovered(e) ==
    /\ failures' = [failures EXCEPT ![e] = NoFailures]
    /\ zeros' = [zeros EXCEPT ![e] = NoZeros]
    /\ round' = [round EXCEPT ![e] = 0]
    /\ rest' = [rest EXCEPT ![e] = 0]

LEMMA RecoveredType ==
    ASSUME TypeOK, NEW e \in Endpoints, Recovered(e)
    PROVE  /\ failures' \in [Endpoints -> [0..Window -> 0..FailLimit]]
           /\ zeros' \in [Endpoints -> [count : 0..ZeroLimit, age : 0..ZeroObservation]]
           /\ round' \in [Endpoints -> 0..Len(RetryDelays)]
           /\ rest' \in [Endpoints -> Nat]
           /\ \A f \in Endpoints : rest'[f] = IF f = e THEN 0 ELSE rest[f]
  <1>1. NoFailures \in [0..Window -> 0..FailLimit]
    BY UpstreamAssumption DEF NoFailures
  <1>2. NoZeros \in [count : 0..ZeroLimit, age : 0..ZeroObservation]
    BY UpstreamAssumption DEF NoZeros
  <1>3. 0 \in 0..Len(RetryDelays)
    BY UpstreamAssumption
  <1>4. QED
    BY <1>1, <1>2, <1>3 DEF Recovered, TypeOK

LEMMA RecordRecvOkStep ==
    ASSUME Inv, NEW c \in Conns, RecordRecvOk(c)
    PROVE  Inv'
  <1> USE DEF Inv
  <1> DEFINE e == attempt[c].endpoint
  <1>1. IsCurrent(c) /\ Recovered(e) /\ endpoints' = endpoints /\ Emit
    BY DEF RecordRecvOk, Recovered
  <1>2. e \in Endpoints /\ e # NoEndpoint /\ (IsProbe(c) => probe = e)
    BY <1>1, CurrentType
  <1>3. /\ \/ Leave(c) /\ UNCHANGED <<active, probe, probePrimary>> /\ ~IsProbe(c)
           \/ active' = e /\ e # active /\ ClearProbe /\ LeaveAndExpire(c)
           \/ ClearProbe /\ Leave(c) /\ UNCHANGED active /\ IsProbe(c)
    BY DEF RecordRecvOk, SwitchActive
  <1>4. TypeOK' /\ AttemptsNameServers'
    <2>1. active' \in Options /\ probe' \in Options /\ probePrimary' \in BOOLEAN
      BY <1>2, <1>3 DEF TypeOK, ClearProbe, Options
    <2>2. page' \in [state : States, selected : Options, active : Options]
      BY <1>1, <2>1, EmitType DEF TypeOK
    <2>3. QED
      BY <1>1, <1>2, <1>3, <2>1, <2>2, LeaveType, RecoveredType DEF TypeOK
  <1>5. ProbeInv'
    <2>1. CASE Leave(c) /\ UNCHANGED <<active, probe, probePrimary>> /\ ~IsProbe(c)
      BY <1>1, <2>1, LeaveProbes DEF ProbeInv, Selected
    <2>2. CASE active' = e /\ ClearProbe /\ LeaveAndExpire(c)
      BY <2>2, ExpireProbes DEF ProbeInv, ClearProbe
    <2>3. CASE ClearProbe /\ Leave(c) /\ IsProbe(c)
      BY <2>3, LeaveProbes DEF ProbeInv, ClearProbe
    <2>4. QED
      BY <1>3, <2>1, <2>2, <2>3
  <1>6. RestInv'
    BY <1>1, <1>2, <1>3, RecoveredType DEF RestInv, ClearProbe, TypeOK, Options
  <1>7. QED
    BY <1>4, <1>5, <1>6

LEMMA AbandonAttemptStep ==
    ASSUME Inv, NEW c \in Conns, AbandonAttempt(c)
    PROVE  Inv'
  <1> USE DEF Inv
  <1>1. Leave(c) /\ UNCHANGED <<endpoints, active, healthVars>> /\ Emit
    BY DEF AbandonAttempt
  <1>2. \/ IsProbe(c) /\ IsCurrent(c) /\ ClearProbe
        \/ ~(IsProbe(c) /\ IsCurrent(c)) /\ UNCHANGED <<probe, probePrimary>>
    BY DEF AbandonAttempt
  <1>3. TypeOK' /\ AttemptsNameServers'
    <2>1. page' \in [state : States, selected : Options, active : Options]
      BY <1>1, EmitType DEF TypeOK
    <2>2. QED
      BY <1>1, <1>2, <2>1, LeaveType DEF TypeOK, ClearProbe, Options, healthVars
  <1>4. ProbeInv'
    BY <1>1, <1>2, LeaveProbes DEF ProbeInv, ClearProbe, IsCurrent, Selected
  <1>5. RestInv'
    BY <1>1, <1>2 DEF RestInv, ClearProbe, healthVars
  <1>6. QED
    BY <1>3, <1>4, <1>5

LEMMA ReplaceConfigStep ==
    ASSUME Inv, NEW list \in Configs, ReplaceConfig(list)
    PROVE  Inv'
  <1> USE DEF Inv
  <1>1. /\ endpoints' = list /\ active' = FirstOf(list) /\ ClearProbe /\ Emit
        /\ rest' = [e \in Endpoints |-> 0]
    BY DEF ReplaceConfig
  <1>2. active' \in Options /\ active' = Selected'
    BY <1>1, FirstOfType DEF Selected
  <1>3. attempt' \in [Conns -> [kind : AttemptKinds, endpoint : Options]] /\ AttemptsNameServers'
    BY DEF ReplaceConfig, TypeOK, AttemptsNameServers, NoAttempt, StaleAttempt, AttemptKinds, Options
  <1>4. TypeOK'
    <2>1. NoFailures \in [0..Window -> 0..FailLimit]
      BY UpstreamAssumption DEF NoFailures
    <2>2. NoZeros \in [count : 0..ZeroLimit, age : 0..ZeroObservation]
      BY UpstreamAssumption DEF NoZeros
    <2>3. 0 \in 0..Len(RetryDelays)
      BY UpstreamAssumption
    <2>4. page' \in [state : States, selected : Options, active : Options]
      BY <1>1, <1>2, EmitType
    <2>5. /\ failures' \in [Endpoints -> [0..Window -> 0..FailLimit]]
          /\ zeros' \in [Endpoints -> [count : 0..ZeroLimit, age : 0..ZeroObservation]]
          /\ round' \in [Endpoints -> 0..Len(RetryDelays)]
          /\ rest' \in [Endpoints -> Nat]
      BY <2>1, <2>2, <2>3 DEF ReplaceConfig
    <2>6. QED
      BY <1>1, <1>2, <1>3, <2>4, <2>5 DEF TypeOK, ClearProbe, Options
  <1>5. ProbeInv'
    <2>1. \A d \in Conns : IsProbe(d)' => IsProbe(d)
      BY DEF ReplaceConfig, TypeOK, IsProbe, NoAttempt, StaleAttempt
    <2>2. QED
      BY <1>1, <1>2, <2>1 DEF ProbeInv, ClearProbe
  <1>6. RestInv'
    BY <1>1, <1>2 DEF RestInv, ClearProbe, Options
  <1>7. QED
    BY <1>3, <1>4, <1>5, <1>6

LEMMA TickStep ==
    ASSUME Inv, Tick
    PROVE  Inv'
  <1> USE DEF Inv
  <1>1. UNCHANGED <<endpoints, active, probe, probePrimary, round, attempt, page>>
    BY DEF Tick
  <1>2. \A e \in Endpoints : rest'[e] \in Nat /\ (rest[e] = 0 => rest'[e] = 0)
    BY DEF Tick, TypeOK
  <1>3. TypeOK'
    <2>1. rest' \in [Endpoints -> Nat]
      BY DEF Tick, TypeOK
    <2>2. failures' \in [Endpoints -> [0..Window -> 0..FailLimit]]
      <3>1. \A e \in Endpoints : \A a \in 0..Window :
               (IF a = 0 THEN 0 ELSE failures[e][a - 1]) \in 0..FailLimit
        BY UpstreamAssumption DEF TypeOK
      <3>2. QED
        BY <3>1 DEF Tick
    <2>3. zeros' \in [Endpoints -> [count : 0..ZeroLimit, age : 0..ZeroObservation]]
      <3>1. NoZeros \in [count : 0..ZeroLimit, age : 0..ZeroObservation]
        BY UpstreamAssumption DEF NoZeros
      <3>2. \A e \in Endpoints :
               [zeros[e] EXCEPT !.age = Capped(@ + 1, ZeroObservation)]
                   \in [count : 0..ZeroLimit, age : 0..ZeroObservation]
        <4> TAKE e \in Endpoints
        <4>1. zeros[e] \in [count : 0..ZeroLimit, age : 0..ZeroObservation]
          BY DEF TypeOK
        <4>2. Capped(zeros[e].age + 1, ZeroObservation) \in 0..ZeroObservation
          BY <4>1, UpstreamAssumption DEF Capped
        <4>3. QED
          BY <4>1, <4>2
      <3>3. QED
        BY <3>1, <3>2 DEF Tick
    <2>4. QED
      BY <1>1, <2>1, <2>2, <2>3 DEF TypeOK
  <1>4. AttemptsNameServers' /\ ProbeInv'
    BY <1>1 DEF AttemptsNameServers, ProbeInv, IsProbe, Selected
  <1>5. RestInv'
    BY <1>1, <1>2 DEF RestInv, TypeOK, Options
  <1>6. QED
    BY <1>3, <1>4, <1>5

LEMMA NextInv == Inv /\ [Next]_vars => Inv'
  <1> SUFFICES ASSUME Inv, [Next]_vars PROVE Inv'
    OBVIOUS
  <1>1. CASE \E c \in Conns : SelectAttempt(c) \/ Report(c)
    BY <1>1, SelectStep, ReportStaleStep, ReportProbeFailedStep, RecordConnectFailureStep,
       RecordZeroRecvStep, RecordRecvOkStep, AbandonAttemptStep DEF Report
  <1>2. CASE \E list \in Configs : ReplaceConfig(list)
    BY <1>2, ReplaceConfigStep
  <1>3. CASE Tick
    BY <1>3, TickStep
  <1>4. CASE UNCHANGED vars
    BY <1>4 DEF Inv, TypeOK, AttemptsNameServers, ProbeInv, RestInv, IsProbe, Selected,
                vars, healthVars
  <1>5. QED
    BY <1>1, <1>2, <1>3, <1>4 DEF Next

LEMMA SpecInv == Spec => []Inv
  <1>1. QED
    BY InitInv, NextInv, PTL DEF Spec

-----------------------------------------------------------------------------
(* What the runs check of one instance, for every instance.                *)

(* The variables of the controller keep their types.                       *)
THEOREM TypeCorrect == Spec => []TypeOK
  <1>1. Inv => TypeOK
    BY DEF Inv
  <1>2. QED
    BY <1>1, SpecInv, PTL

(* fail_active, switch_active and replace_config never make a server       *)
(* active whose pause is still running.                                    *)
THEOREM NoPausedActive == Spec => []ActiveIsRested
  <1>1. Inv => ActiveIsRested
    BY DEF Inv, RestInv, ActiveIsRested
  <1>2. QED
    BY <1>1, SpecInv, PTL

(* select_attempt starts a probe only when no other is under way, and each *)
(* way a probe can end frees the place: exactly one connection holds it.   *)
THEOREM SingleProbe == Spec => []OneProbeInFlight
  <1>1. Inv => OneProbeInFlight
    <2> SUFFICES ASSUME Inv, probe # NoEndpoint PROVE OneProbeInFlight
      BY DEF OneProbeInFlight
    <2>1. PICK c \in Conns : IsProbe(c) /\ attempt[c].endpoint = probe
      BY DEF Inv, ProbeInv
    <2>2. \A d \in Conns : (IsProbe(d) /\ attempt[d].endpoint = probe) <=> (c = d)
      BY <2>1 DEF Inv, ProbeInv
    <2>3. QED
      BY <2>2 DEF OneProbeInFlight
  <1>2. QED
    BY <1>1, SpecInv, PTL

(* Each operation that changes the server, the probe or the catalogue      *)
(* tells the page.                                                         *)
THEOREM PageFollows == Spec => []PageIsCurrent
  <1>1. Init => PageIsCurrent
    BY DEF Init, PageIsCurrent
  <1>2. PageIsCurrent /\ [Next]_vars => PageIsCurrent'
    <2> SUFFICES ASSUME PageIsCurrent, [Next]_vars PROVE PageIsCurrent'
      OBVIOUS
    <2>1. Emit => PageIsCurrent'
      BY DEF Emit, PageIsCurrent
    <2>2. UNCHANGED <<endpoints, active, probe, probePrimary, page>> => PageIsCurrent'
      BY DEF PageIsCurrent, Snapshot, PageState, Selected
    <2>3. ASSUME NEW c \in Conns, SelectAttempt(c) \/ Report(c) PROVE PageIsCurrent'
      BY <2>1, <2>2, <2>3
      DEF SelectAttempt, Report, ReportStale, ReportProbeFailed, RecordConnectFailure,
          RecordZeroRecv, RecordRecvOk, AbandonAttempt, FailActive
    <2>4. ASSUME NEW list \in Configs, ReplaceConfig(list) PROVE PageIsCurrent'
      BY <2>1, <2>4 DEF ReplaceConfig
    <2>5. CASE Tick
      BY <2>2, <2>5 DEF Tick
    <2>6. CASE UNCHANGED vars
      BY <2>2, <2>6 DEF vars
    <2>7. QED
      BY <2>3, <2>4, <2>5, <2>6 DEF Next
  <1>3. QED
    BY <1>1, <1>2, PTL DEF Spec

(* penalize is reached only for a server without a running pause, so late  *)
(* reports of the other parallel connections cannot prolong one.           *)
THEOREM PausesAreNotProlonged == Spec => OnePausePerFailure
  <1> DEFINE Unprolonged == \A e \in Endpoints : rest'[e] > rest[e] => rest[e] = 0
  <1>1. Inv /\ [Next]_vars => [Unprolonged]_vars
    <2> SUFFICES ASSUME Inv, [Next]_vars PROVE Unprolonged \/ UNCHANGED vars
      OBVIOUS
    <2> USE DEF Inv
    <2>1. ASSUME NEW e \in Endpoints, Penalize(e), rest[e] = 0 PROVE Unprolonged
      <3>1. \A f \in Endpoints : rest[f] \in Nat /\ (f # e => rest'[f] = rest[f])
        BY <2>1, PenalizeType DEF TypeOK
      <3>2. QED
        BY <2>1, <3>1
    <2>2. ASSUME NEW e \in Endpoints, Recovered(e) PROVE Unprolonged
      <3>1. \A f \in Endpoints : rest[f] \in Nat /\ rest'[f] = IF f = e THEN 0 ELSE rest[f]
        BY <2>2, RecoveredType DEF TypeOK
      <3>2. QED
        BY <3>1
    <2>3. rest' = rest => Unprolonged
      BY DEF TypeOK
    <2>4. ASSUME NEW c \in Conns, SelectAttempt(c) \/ ReportStale(c) \/ AbandonAttempt(c)
          PROVE  Unprolonged
      BY <2>3, <2>4 DEF SelectAttempt, ReportStale, AbandonAttempt, healthVars
    <2>5. ASSUME NEW c \in Conns, ReportProbeFailed(c) PROVE Unprolonged
      <3>1. /\ attempt[c].endpoint \in Endpoints /\ probe = attempt[c].endpoint
            /\ probe # NoEndpoint /\ Penalize(attempt[c].endpoint)
        BY <2>5, CurrentType DEF ReportProbeFailed
      <3>2. QED
        BY <2>1, <3>1 DEF RestInv
    <2>6. ASSUME NEW c \in Conns, RecordConnectFailure(c) \/ RecordZeroRecv(c)
          PROVE  Unprolonged
      <3>1. attempt[c].kind = "regular" /\ IsCurrent(c)
        BY <2>6 DEF RecordConnectFailure, RecordZeroRecv
      <3>2. active \in Endpoints /\ active # NoEndpoint
        BY <3>1, CurrentType
      <3>3. rest' = rest \/ Penalize(active)
        BY <2>6 DEF RecordConnectFailure, RecordZeroRecv, FailActive
      <3>4. QED
        BY <2>1, <2>3, <3>2, <3>3 DEF RestInv
    <2>7. ASSUME NEW c \in Conns, RecordRecvOk(c) PROVE Unprolonged
      <3>1. IsCurrent(c) /\ Recovered(attempt[c].endpoint)
        BY <2>7 DEF RecordRecvOk, Recovered
      <3>2. QED
        BY <2>2, <3>1, CurrentType
    <2>8. ASSUME NEW list \in Configs, ReplaceConfig(list) PROVE Unprolonged
      BY <2>8 DEF ReplaceConfig, TypeOK
    <2>9. CASE Tick
      BY <2>9 DEF Tick, TypeOK
    <2>10. QED
      BY <2>4, <2>5, <2>6, <2>7, <2>8, <2>9 DEF Next, Report
  <1>2. QED
    BY <1>1, SpecInv, PTL DEF Spec, OnePausePerFailure

-----------------------------------------------------------------------------
(* The controller implements module Failover.                              *)

Pausing == {e \in Endpoints : rest[e] > 0}

(* While a server is in use, only the primary one is probed. *)
OnlyPrimaryIsProbed == probe # NoEndpoint /\ active # NoEndpoint => probe = Selected

LEMMA OnlyPrimaryStep ==
    ASSUME Inv, OnlyPrimaryIsProbed, [Next]_vars
    PROVE  OnlyPrimaryIsProbed'
  <1>1. ASSUME NEW c \in Conns, SelectAttempt(c) PROVE OnlyPrimaryIsProbed'
    BY <1>1 DEF SelectAttempt, SelectProbePrimary, SelectActive, SelectCandidate,
                OnlyPrimaryIsProbed, Selected
  <1>2. ASSUME NEW c \in Conns, Report(c) PROVE OnlyPrimaryIsProbed'
    <2>1. endpoints' = endpoints
      BY <1>2 DEF Report, ReportStale, ReportProbeFailed, RecordConnectFailure,
                  RecordZeroRecv, FailActive, RecordRecvOk, AbandonAttempt
    <2>2. probe' = NoEndpoint \/ UNCHANGED <<active, probe>>
      BY <1>2 DEF Report, ReportStale, ReportProbeFailed, RecordConnectFailure,
                  RecordZeroRecv, FailActive, RecordRecvOk, AbandonAttempt, SwitchActive,
                  ClearProbe
    <2>3. QED
      BY <2>1, <2>2 DEF OnlyPrimaryIsProbed, Selected
  <1>3. ASSUME NEW list \in Configs, ReplaceConfig(list) PROVE OnlyPrimaryIsProbed'
    BY <1>3 DEF ReplaceConfig, ClearProbe, OnlyPrimaryIsProbed
  <1>4. CASE Tick
    BY <1>4 DEF Tick, OnlyPrimaryIsProbed, Selected
  <1>5. CASE UNCHANGED vars
    BY <1>5 DEF vars, OnlyPrimaryIsProbed, Selected
  <1>6. QED
    BY <1>1, <1>2, <1>3, <1>4, <1>5 DEF Next

(* The head of a list is the first that is not in the empty set. *)
LEMMA FirstOfIsFirst ==
    ASSUME NEW list \in Configs
    PROVE  Promise!IsFirst(list, FirstOf(list), {})
  <1>1. list \in Seq(Endpoints)
    BY UpstreamAssumption
  <1>2. CASE list = <<>>
    BY <1>2 DEF FirstOf, Promise!IsFirst
  <1>3. CASE list # <<>>
    <2>1. 1 \in DOMAIN list /\ FirstOf(list) = list[1]
      BY <1>1, <1>3 DEF FirstOf
    <2>2. QED
      BY <2>1 DEF Promise!IsFirst
  <1>4. QED
    BY <1>2, <1>3

(* first_available returns the first server that is neither excluded nor   *)
(* resting.                                                                *)
LEMMA FirstAvailableIsFirst ==
    ASSUME TypeOK, NEW exclude, NEW e, FirstAvailable(exclude, e)
    PROVE  Promise!IsFirst(endpoints, e, Pausing \cup {exclude})
  <1> DEFINE rested == {i \in DOMAIN endpoints :
                            endpoints[i] # exclude /\ rest[endpoints[i]] = 0}
             out == Pausing \cup {exclude}
  <1>1. endpoints \in Seq(Endpoints)
    BY UpstreamAssumption DEF TypeOK
  <1>2. \A i \in DOMAIN endpoints : i \in Nat /\ endpoints[i] \in Endpoints
    BY <1>1
  <1>3. \A i \in DOMAIN endpoints : i \in rested <=> endpoints[i] \notin out
    BY <1>2 DEF TypeOK, Pausing
  <1>4. CASE rested = {} /\ e = NoEndpoint
    BY <1>3, <1>4 DEF Promise!IsFirst
  <1>5. ASSUME NEW i \in rested, e = endpoints[i], \A j \in rested : i <= j
        PROVE  Promise!IsFirst(endpoints, e, out)
    <2>1. i \in DOMAIN endpoints /\ e \notin out
      BY <1>3, <1>5
    <2>2. ASSUME NEW j \in 1..(i - 1) PROVE endpoints[j] \in out
      <3>1. j \in DOMAIN endpoints
        BY <1>1, <2>1
      <3>2. ~(i <= j)
        BY <1>2, <2>1
      <3>3. QED
        BY <1>3, <1>5, <3>1, <3>2
    <2>3. QED
      BY <1>5, <2>1, <2>2 DEF Promise!IsFirst
  <1>6. QED
    BY <1>4, <1>5 DEF FirstAvailable

LEMMA PenalizeRests ==
    ASSUME TypeOK, NEW e \in Endpoints, Penalize(e)
    PROVE  Pausing' = Pausing \cup {e}
  <1> DEFINE n == Capped(round[e] + 1, Len(RetryDelays))
  <1>1. Len(RetryDelays) \in Nat \ {0}
    BY UpstreamAssumption
  <1>2. round[e] + 1 \in Nat \ {0}
    BY <1>1 DEF TypeOK
  <1>3. n \in 1..Len(RetryDelays)
    BY <1>1, <1>2 DEF Capped
  <1>4. RetryDelays[n] \in Nat \ {0}
    BY <1>3, UpstreamAssumption
  <1>5. rest' = [rest EXCEPT ![e] = RetryDelays[n]]
    BY DEF Penalize
  <1>6. QED
    BY <1>4, <1>5 DEF TypeOK, Pausing

(* A server that is used or probed does not rest, so data from it ends no  *)
(* pause.                                                                  *)
LEMMA RecoveredRests ==
    ASSUME TypeOK, NEW e \in Endpoints, rest[e] = 0, Recovered(e)
    PROVE  Pausing' = Pausing
  BY DEF TypeOK, Pausing, Recovered

-----------------------------------------------------------------------------
(* Each step is one of the promise, or changes nothing in it.              *)

Stutters == UNCHANGED <<endpoints, active, probe, Pausing>>

LEMMA SelectPromised ==
    ASSUME Inv, NEW c \in Conns, SelectAttempt(c)
    PROVE  Promise!Next \/ Stutters
  <1> USE DEF Inv
  <1>1. Selected \in Endpoints /\ Selected # NoEndpoint
    BY FirstOfType DEF SelectAttempt, Selected, TypeOK
  <1>2. UNCHANGED <<endpoints, active, rest>> /\ Pausing' = Pausing
    BY DEF SelectAttempt, SelectProbePrimary, SelectActive, SelectCandidate, healthVars, Pausing
  <1>3. Promise!IsFirst(endpoints, Selected, {})
    BY FirstOfIsFirst DEF Selected, TypeOK
  <1>4. CASE SelectProbePrimary(c)
    <2>1. Promise!Try(Selected)
      BY <1>1, <1>2, <1>3, <1>4 DEF Promise!Try, SelectProbePrimary, PrimaryIsDue, Pausing
    <2>2. QED
      BY <1>1, <2>1 DEF Promise!Next
  <1>5. CASE SelectActive(c)
    BY <1>2, <1>5 DEF SelectActive, Stutters
  <1>6. CASE SelectCandidate(c)
    <2>1. PICK e \in Endpoints : FirstAvailable(NoEndpoint, e) /\ probe' = e
      BY <1>6 DEF SelectCandidate
    <2>2. e # NoEndpoint /\ active = NoEndpoint /\ probe = NoEndpoint
      BY <1>6, UpstreamAssumption DEF SelectCandidate
    <2>3. Promise!IsFirst(endpoints, e, Pausing \cup {NoEndpoint})
      BY <2>1, FirstAvailableIsFirst
    <2>4. Promise!IsFirst(endpoints, e, Pausing)
      <3>1. \A i \in DOMAIN endpoints : endpoints[i] \in Endpoints
        BY UpstreamAssumption DEF TypeOK
      <3>2. endpoints \in Seq(Endpoints)
        BY UpstreamAssumption DEF TypeOK
      <3>3. \A i \in DOMAIN endpoints : 1..(i - 1) \subseteq DOMAIN endpoints
        BY <3>2
      <3>4. QED
        BY <2>2, <2>3, <3>1, <3>3, UpstreamAssumption DEF Promise!IsFirst
    <2>5. e \notin Pausing
      BY <2>2, <2>4 DEF Promise!IsFirst
    <2>6. Promise!Try(e)
      BY <1>2, <2>1, <2>2, <2>4, <2>5 DEF Promise!Try, Pausing
    <2>7. QED
      BY <2>6 DEF Promise!Next
  <1>7. QED
    BY <1>4, <1>5, <1>6 DEF SelectAttempt

LEMMA ReportProbeFailedPromised ==
    ASSUME Inv, NEW c \in Conns, ReportProbeFailed(c)
    PROVE  Promise!Miss
  <1> USE DEF Inv
  <1>1. probe = attempt[c].endpoint /\ probe \in Endpoints /\ probe # NoEndpoint
    BY CurrentType DEF ReportProbeFailed
  <1>2. Pausing' = Pausing \cup {probe}
    BY <1>1, PenalizeRests DEF ReportProbeFailed
  <1>3. QED
    BY <1>1, <1>2 DEF ReportProbeFailed, ClearProbe, Promise!Miss, Pausing

LEMMA FailActivePromised ==
    ASSUME Inv, NEW c \in Conns, attempt[c].kind = "regular", IsCurrent(c), FailActive(c)
    PROVE  Promise!Fail
  <1> USE DEF Inv
  <1>1. active \in Endpoints /\ active # NoEndpoint
    BY CurrentType
  <1>2. Pausing' = Pausing \cup {active} /\ endpoints' = endpoints
    BY <1>1, PenalizeRests DEF FailActive
  <1>3. PICK e \in Options : FirstAvailable(active, e) /\ SwitchActive(c, e)
    BY DEF FailActive
  <1>4. Promise!IsFirst(endpoints, e, Pausing \cup {active})
    BY <1>3, FirstAvailableIsFirst
  <1>5. e # active
    BY <1>1, <1>4 DEF Promise!IsFirst
  <1>6. active' = e /\ probe' = NoEndpoint
    BY <1>3, <1>5 DEF SwitchActive, ClearProbe
  <1>7. QED
    BY <1>1, <1>2, <1>4, <1>6 DEF Promise!Fail, Pausing

LEMMA RecordRecvOkPromised ==
    ASSUME Inv, OnlyPrimaryIsProbed, NEW c \in Conns, RecordRecvOk(c)
    PROVE  Promise!Next \/ Stutters
  <1> USE DEF Inv
  <1> DEFINE e == attempt[c].endpoint
  <1>1. IsCurrent(c) /\ Recovered(e) /\ endpoints' = endpoints
    BY DEF RecordRecvOk, Recovered
  <1>2. /\ e \in Endpoints /\ e # NoEndpoint
        /\ IsProbe(c) => probe = e
        /\ attempt[c].kind = "regular" => active = e
    BY <1>1, CurrentType
  <1>3. e = probe \/ e = active
    BY <1>1 DEF IsCurrent
  <1>4. rest[e] = 0
    BY <1>2, <1>3 DEF RestInv
  <1>5. Pausing' = Pausing
    BY <1>1, <1>2, <1>4, RecoveredRests
  <1>6. \/ UNCHANGED <<active, probe>>
        \/ IsProbe(c) /\ active' = e /\ probe' = NoEndpoint
        \/ IsProbe(c) /\ probe' = NoEndpoint /\ active' = active
    BY DEF RecordRecvOk, SwitchActive, ClearProbe
  <1>7. CASE UNCHANGED <<active, probe>>
    BY <1>1, <1>5, <1>7 DEF Stutters
  <1>8. CASE IsProbe(c) /\ active' = e /\ probe' = NoEndpoint
    <2>1. active # NoEndpoint => Promise!IsFirst(endpoints, probe, {})
      BY <1>2, <1>8, FirstOfIsFirst DEF OnlyPrimaryIsProbed, Selected, TypeOK
    <2>2. Promise!Take
      BY <1>1, <1>2, <1>5, <1>8, <2>1 DEF Promise!Take, Pausing
    <2>3. QED
      BY <2>2 DEF Promise!Next
  <1>9. CASE IsProbe(c) /\ probe' = NoEndpoint /\ active' = active
    <2>1. Promise!GiveUp
      BY <1>1, <1>2, <1>5, <1>9 DEF Promise!GiveUp, Pausing
    <2>2. QED
      BY <2>1 DEF Promise!Next
  <1>10. QED
    BY <1>6, <1>7, <1>8, <1>9

LEMMA ReportPromised ==
    ASSUME Inv, OnlyPrimaryIsProbed, NEW c \in Conns, Report(c)
    PROVE  Promise!Next \/ Stutters
  <1> USE DEF Inv
  <1>1. CASE ReportStale(c)
    BY <1>1 DEF ReportStale, Stutters, Pausing, healthVars
  <1>2. CASE ReportProbeFailed(c)
    BY <1>2, ReportProbeFailedPromised DEF Promise!Next
  <1>3. CASE RecordConnectFailure(c)
    <2>1. FailActive(c) \/ UNCHANGED <<endpoints, active, probe, rest>>
      BY <1>3 DEF RecordConnectFailure
    <2>2. FailActive(c) => Promise!Fail
      BY <1>3, FailActivePromised DEF RecordConnectFailure
    <2>3. QED
      BY <2>1, <2>2 DEF Promise!Next, Stutters, Pausing
  <1>4. CASE RecordZeroRecv(c)
    <2>1. FailActive(c) \/ UNCHANGED <<endpoints, active, probe, rest>>
      BY <1>4 DEF RecordZeroRecv
    <2>2. FailActive(c) => Promise!Fail
      BY <1>4, FailActivePromised DEF RecordZeroRecv
    <2>3. QED
      BY <2>1, <2>2 DEF Promise!Next, Stutters, Pausing
  <1>5. CASE RecordRecvOk(c)
    BY <1>5, RecordRecvOkPromised
  <1>6. CASE AbandonAttempt(c)
    <2>1. UNCHANGED <<endpoints, active, rest>> /\ Pausing' = Pausing
      BY <1>6 DEF AbandonAttempt, healthVars, Pausing
    <2>2. CASE IsProbe(c) /\ IsCurrent(c) /\ ClearProbe
      <3>1. Promise!GiveUp
        BY <2>1, <2>2, CurrentType DEF Promise!GiveUp, ClearProbe, Pausing
      <3>2. QED
        BY <3>1 DEF Promise!Next
    <2>3. CASE UNCHANGED probe
      BY <2>1, <2>3 DEF Stutters
    <2>4. QED
      BY <1>6, <2>2, <2>3 DEF AbandonAttempt
  <1>7. QED
    BY <1>1, <1>2, <1>3, <1>4, <1>5, <1>6 DEF Report

LEMMA InitPromised == Init => Promise!Init
  <1> SUFFICES ASSUME Init PROVE Promise!Init
    OBVIOUS
  <1>1. endpoints \in Configs /\ active = FirstOf(endpoints) /\ probe = NoEndpoint
    BY DEF Init, Selected
  <1>2. Promise!IsFirst(endpoints, active, {})
    BY <1>1, FirstOfIsFirst
  <1>3. Pausing = {}
    BY DEF Init, Pausing
  <1>4. QED
    BY <1>1, <1>2, <1>3 DEF Promise!Init, Promise!Begins, Pausing

LEMMA StepPromised ==
    ASSUME Inv, OnlyPrimaryIsProbed, [Next]_vars
    PROVE  Promise!Next \/ Stutters
  <1>1. ASSUME NEW c \in Conns, SelectAttempt(c) \/ Report(c) PROVE Promise!Next \/ Stutters
    BY <1>1, SelectPromised, ReportPromised
  <1>2. ASSUME NEW list \in Configs, ReplaceConfig(list) PROVE Promise!Next
    <2>1. /\ endpoints' = list /\ active' = FirstOf(list) /\ probe' = NoEndpoint
          /\ Pausing' = {}
      BY <1>2 DEF ReplaceConfig, ClearProbe, Pausing
    <2>2. Promise!IsFirst(endpoints', active', {})
      BY <2>1, FirstOfIsFirst
    <2>3. Promise!Configure
      BY <2>1, <2>2 DEF Promise!Configure, Promise!Begins, Pausing
    <2>4. QED
      BY <2>3 DEF Promise!Next
  <1>3. CASE Tick
    <2>1. UNCHANGED <<endpoints, active, probe>> /\ Pausing' \subseteq Pausing
      BY <1>3 DEF Tick, Pausing, Inv, TypeOK
    <2>2. Promise!Rested
      BY <2>1 DEF Promise!Rested, Pausing
    <2>3. QED
      BY <2>2 DEF Promise!Next
  <1>4. CASE UNCHANGED vars
    BY <1>4 DEF vars, healthVars, Stutters, Pausing
  <1>5. QED
    BY <1>1, <1>2, <1>3, <1>4 DEF Next

(* Every step of the controller, whichever connection reports what and     *)
(* when, is a step of the promise or changes nothing in it: one server is  *)
(* in use, it is left for the first rested one and only when it fails, the *)
(* primary returns once it answered, and nobody is used while resting.     *)
THEOREM KeepsThePromise == Spec => FailsOverAsPromised
  <1>1. Init => OnlyPrimaryIsProbed
    BY DEF Init, OnlyPrimaryIsProbed
  <1>2. Inv /\ OnlyPrimaryIsProbed /\ [Next]_vars => OnlyPrimaryIsProbed'
    BY OnlyPrimaryStep
  <1>3. Inv /\ OnlyPrimaryIsProbed /\ [Next]_vars => [Promise!Next]_(Promise!failoverVars)
    BY StepPromised DEF Stutters, Pausing, Promise!failoverVars
  <1>4. Init => Promise!Init
    BY InitPromised
  <1>5. QED
    BY <1>1, <1>2, <1>3, <1>4, SpecInv, PTL DEF Spec, FailsOverAsPromised, Promise!Spec

=============================================================================
