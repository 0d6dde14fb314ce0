------------------------------ MODULE TgRoutes ------------------------------
(* Which ways to one data centre of Telegram a connection may take: the    *)
(* health of the routes (health.rs: RouteHealth) and the plan made from it *)
(* (routes.rs: build_plan). The connections themselves are the caller's:   *)
(* they report in any order, late, and about routes of older plans.        *)
(*                                                                         *)
(* Time has two grains. SecondsPass: a few seconds, more than a burst of   *)
(* failures lasts (2 s). MinutesPass: two minutes, the unit of pauses.     *)
EXTENDS Integers, Sequences, SequencesExt, FiniteSetsExt

CONSTANTS
    FrontCount,        \* fronts of Cloudflare, each with two addresses
    RelayAddresses,    \* addresses of the relay, in the order of the catalogue
    UserDomains, UserWorkers, TunnelHosts,   \* sequences of health keys
    Failing,           \* the keys failures are reported for in an instance
    FailuresBeforeSuppress, CdnFailuresBeforeSuppress,
    MaxDoublings, SuppressMax, RestoredMax,  \* pauses, in ticks
    ClockShifts,       \* how far the wall clock moves between two processes, in ticks
    PlanInputs         \* the requests plans are made for

VARIABLES
    entries,           \* per key: failures in a row, pauses, what is left of one
    tcpOk,             \* addresses TCP reached in the last 30 s
    preferred, failedRelays,                 \* the relay address that answered; those that failed
    frontCursor, frontFamily, familyFailures,
    healthFile         \* what the last save wrote, <<>> if nothing did

frontVars == <<preferred, failedRelays, frontCursor, frontFamily, familyFailures>>
rtVars == <<entries, tcpOk, frontVars, healthFile>>

NoAddress == "none"
NoFamily == 2

Addresses == ToSet(RelayAddresses)
HealthKeys == {"relay", "media relay", "cdn", "direct"} \union Addresses
                \union ToSet(UserDomains) \union ToSet(UserWorkers) \union ToSet(TunnelHosts)
FrontSlots == 2 * FrontCount

(* Thresholds and pauses as health.rs names them; the wall clock is not    *)
(* set back between two processes.                                         *)
ASSUME RtAssumption ==
    /\ FrontCount \in Nat \ {0}
    /\ FailuresBeforeSuppress \in Nat \ {0} /\ CdnFailuresBeforeSuppress \in Nat \ {0}
    /\ MaxDoublings \in Nat /\ SuppressMax \in Nat /\ RestoredMax \in Nat
    /\ ClockShifts \subseteq Nat
    /\ Failing \subseteq HealthKeys

ASSUME KeysAreInSequences ==
    {RelayAddresses, UserDomains, UserWorkers, TunnelHosts} \subseteq Seq(HealthKeys)

Unharmed == [failures |-> 0, suppressions |-> 0, left |-> 0, burst |-> FALSE]

ThresholdOf(k) ==
    CASE k = "cdn" -> CdnFailuresBeforeSuppress
      [] k = "direct" -> 1
      [] OTHER -> FailuresBeforeSuppress

HealthFiles ==
    [pauses : [HealthKeys -> [suppressions : 0..MaxDoublings, left : 0..SuppressMax]],
     cursor : 0..(FrontSlots - 1), family : {0, 1, NoFamily}]

RtTypeOK ==
    /\ entries \in [HealthKeys -> [failures : Nat, suppressions : 0..MaxDoublings,
                                   left : 0..SuppressMax, burst : BOOLEAN]]
    /\ \A k \in HealthKeys : entries[k].failures < ThresholdOf(k)
    /\ tcpOk \subseteq Addresses /\ failedRelays \subseteq Addresses
    /\ preferred \in Addresses \union {NoAddress}
    /\ frontCursor \in 0..(FrontSlots - 1) /\ frontFamily \in {0, 1, NoFamily}
    /\ familyFailures \in 0..1
    /\ healthFile \in Seq(HealthFiles) /\ Len(healthFile) <= 1

-----------------------------------------------------------------------------
(* The file. save() writes the pauses and the front, nothing else. (A      *)
(* write that fails is not noticed; here none does.)                       *)
Snapshotted(es, cursor, fam) ==
    [pauses |-> [k \in HealthKeys |->
                    [suppressions |-> es[k].suppressions, left |-> es[k].left]],
     cursor |-> cursor, family |-> fam]

Save == healthFile' = <<Snapshotted(entries', frontCursor', frontFamily')>>

Unwritten == UNCHANGED healthFile

Restored(p, shift) ==
    IF p.suppressions = 0 THEN Unharmed
    ELSE [Unharmed EXCEPT !.suppressions = p.suppressions,
                          !.left = Min({Max({p.left - shift, 0}), RestoredMax})]

(* A process starts: with the pauses of the file, at most RestoredMax of   *)
(* them left. Without a file it begins with a front of its own choice.     *)
LoadHealth(file, shift) ==
    /\ entries' = [k \in HealthKeys |->
                      IF file = <<>> THEN Unharmed ELSE Restored(file[1].pauses[k], shift)]
    /\ tcpOk' = {} /\ failedRelays' = {} /\ preferred' = NoAddress /\ familyFailures' = 0
    /\ IF file = <<>>
       THEN frontCursor' \in 0..(FrontSlots - 1) /\ frontFamily' = NoFamily
       ELSE frontCursor' = file[1].cursor /\ frontFamily' = file[1].family

NewProcess ==
    /\ \E shift \in ClockShifts : LoadHealth(healthFile, shift)
    /\ UNCHANGED healthFile

RtInit ==
    /\ entries = [k \in HealthKeys |-> Unharmed]
    /\ tcpOk = {} /\ failedRelays = {} /\ preferred = NoAddress /\ familyFailures = 0
    /\ frontCursor \in 0..(FrontSlots - 1) /\ frontFamily = NoFamily
    /\ healthFile = <<>>

-----------------------------------------------------------------------------
(* Reports of connections.                                                 *)

IsSuppressed(k) == entries[k].left > 0

Pause(suppressions) == Min({2 ^ Min({suppressions, MaxDoublings}), SuppressMax})

EndsSeries(k) == entries[k].failures + 1 >= ThresholdOf(k)

(* A failure counts unless the SYN was lost on an address TCP has just     *)
(* reached, or it belongs to a burst that is counted. The last of a series *)
(* pauses the route, each time for twice as long.                          *)
NoteFailure(k, tcpReached, address) ==
    /\ UNCHANGED <<tcpOk, frontVars>>
    /\ LET ignored == (~tcpReached /\ address \in tcpOk) \/ entries[k].burst
           last == EndsSeries(k)
       IN  \/ ignored /\ UNCHANGED entries /\ Unwritten
           \/ /\ ~ignored /\ ~last
              /\ entries' = [entries EXCEPT ![k].failures = @ + 1, ![k].burst = TRUE]
              /\ Unwritten
           \/ /\ ~ignored /\ last
              /\ entries' = [entries EXCEPT
                    ![k] = [failures |-> 0, suppressions |-> Min({@.suppressions + 1, MaxDoublings}),
                            left |-> Pause(@.suppressions), burst |-> TRUE]]
              /\ Save

NoteAnswer(k) ==
    /\ entries' = [entries EXCEPT ![k].failures = 0]
    /\ UNCHANGED <<tcpOk, frontVars>>
    /\ Unwritten

(* Mutant of NoteProven: the pauses are forgotten in memory only. *)
NoteProvenUnsaved(k) ==
    /\ entries' = [entries EXCEPT ![k] = Unharmed]
    /\ UNCHANGED <<tcpOk, frontVars>>
    /\ Unwritten

(* The route carried real traffic: its pauses are forgotten, in the file   *)
(* too.                                                                    *)
NoteProven(k) ==
    /\ entries' = [entries EXCEPT ![k] = Unharmed]
    /\ UNCHANGED <<tcpOk, frontVars>>
    /\ IF entries[k].suppressions > 0 THEN Save ELSE Unwritten

NoteTcpConnected(a) ==
    /\ tcpOk' = tcpOk \union {a}
    /\ UNCHANGED <<entries, preferred, failedRelays, frontCursor, frontFamily, familyFailures>>
    /\ Unwritten

NoteRelayFailed(a) ==
    /\ failedRelays' = failedRelays \union {a}
    /\ preferred' = IF Len(RelayAddresses) > 1 /\ preferred = a THEN NoAddress ELSE preferred
    /\ UNCHANGED <<entries, tcpOk, frontCursor, frontFamily, familyFailures>>
    /\ Unwritten

NoteRelayAnswered(a) ==
    /\ failedRelays' = failedRelays \ {a}
    /\ preferred' = a
    /\ UNCHANGED <<entries, tcpOk, frontCursor, frontFamily, familyFailures>>
    /\ Unwritten

(* The address TCP reached is kept for the next fronts; it is forgotten    *)
(* after two failures in a row. A front that answered stays the first one, *)
(* else the next one is.                                                   *)
NoteFrontResult(i, fam, reached, answered) ==
    /\ answered => reached
    /\ LET worn == frontFamily = fam /\ familyFailures = 1
       IN  /\ frontFamily' = IF reached THEN fam
                             ELSE IF worn THEN NoFamily ELSE frontFamily
           /\ familyFailures' = IF reached \/ worn THEN 0
                                ELSE familyFailures + IF frontFamily = fam THEN 1 ELSE 0
    /\ frontCursor' = IF answered THEN 2 * i + fam
                      ELSE IF frontFamily' # NoFamily
                           THEN 2 * ((i + 1) % FrontCount) + frontFamily'
                           ELSE (2 * i + fam + 1) % FrontSlots
    /\ UNCHANGED <<entries, tcpOk, preferred, failedRelays>>
    /\ Save

Report ==
    \/ \E k \in Failing :
          \/ \E reached \in BOOLEAN, a \in Addresses \union {NoAddress} : NoteFailure(k, reached, a)
          \/ NoteAnswer(k)
          \/ NoteProven(k)
    \/ \E a \in Addresses :
          NoteTcpConnected(a) \/ NoteRelayFailed(a) \/ NoteRelayAnswered(a)
    \/ \E i \in 0..(FrontCount - 1), fam \in {0, 1}, reached, answered \in BOOLEAN :
          NoteFrontResult(i, fam, reached, answered)

SecondsPass ==
    /\ entries' = [k \in HealthKeys |-> [entries[k] EXCEPT !.burst = FALSE]]
    /\ UNCHANGED <<tcpOk, frontVars>>
    /\ Unwritten

Sooner(n) == Max({n - 1, 0})
Waned(pause) == [pause EXCEPT !.left = Sooner(@)]

MinutesPass ==
    /\ entries' = [k \in HealthKeys |->
                      [entries[k] EXCEPT !.burst = FALSE, !.left = Sooner(@)]]
    /\ tcpOk' = {} /\ failedRelays' = {}
    /\ healthFile' = [n \in DOMAIN healthFile |->
          [healthFile[n] EXCEPT !.pauses =
              [k \in HealthKeys |-> Waned(healthFile[n].pauses[k])]]]
    /\ UNCHANGED <<preferred, frontCursor, frontFamily, familyFailures>>

RtNext == Report \/ SecondsPass \/ MinutesPass \/ NewProcess

RtSpec == RtInit /\ [][RtNext]_rtVars

-----------------------------------------------------------------------------
(* The plan of a connection.                                               *)

Route(routeKind, k) == [kind |-> routeKind, key |-> k, slot |-> <<>>]

IsWs(route) == route.kind \notin {"upstream", "direct"}
IsPrimary(route) == route.kind \in {"relay", "user_domain", "front"}

(* The members of s that are in S, in their order (SelectSeq, as a fold).  *)
Kept(s, S) ==
    FoldLeft(LAMBDA kept, x : IF x \in S THEN Append(kept, x) ELSE kept, <<>>, s)

Unpaused == {k \in HealthKeys : ~IsSuppressed(k)}

(* What answered last is first, what failed in the last two minutes last.  *)
RelayAddressOrder ==
    LET known == IF preferred \in Addresses
                 THEN <<preferred>> \o Kept(RelayAddresses, Addresses \ {preferred})
                 ELSE RelayAddresses
    IN  Kept(known, Addresses \ failedRelays) \o Kept(known, failedRelays)

(* One relay, at its first address that is not paused, else by its name.   *)
RelayRoute(request) ==
    LET domain == IF request.media THEN "media relay" ELSE "relay"
        usable == Kept(RelayAddressOrder, Unpaused)
        address == IF usable = <<>> THEN NoAddress ELSE Head(usable)
    IN  IF ~request.relay \/ IsSuppressed(domain) THEN <<>>
        ELSE <<[Route("relay", domain) EXCEPT !.slot = <<address>>]>>

Open(routeKind, keys) ==
    LET usable == Kept(keys, Unpaused)
    IN  [n \in 1..Len(usable) |-> Route(routeKind, usable[n])]

NextFrontSlots(count) ==
    [n \in 1..count |->
        IF frontFamily = NoFamily
        THEN LET slot == (frontCursor + n - 1) % FrontSlots IN <<slot \div 2, slot % 2>>
        ELSE <<(frontCursor \div 2 + n - 1) % FrontCount, frontFamily>>]

FrontRoutes(ignoreSuppression) ==
    IF ~ignoreSuppression /\ IsSuppressed("cdn") THEN <<>>
    ELSE [n \in 1..3 |-> [Route("front", "cdn") EXCEPT !.slot = NextFrontSlots(3)[n]]]

TunnelRoutes ==
    LET open == Open("tunnel", TunnelHosts) IN SubSeq(open, 1, Min({Len(open), 3}))

WsPlan(request) ==
    RelayRoute(request)
      \o (IF request.domains THEN Open("user_domain", UserDomains) ELSE <<>>)
      \o (IF request.workers /\ request.ip THEN Open("user_worker", UserWorkers) ELSE <<>>)
      \o FrontRoutes(FALSE)
      \o (IF request.ip THEN TunnelRoutes ELSE <<>>)

(* Mutant of RawPlan: the fronts once more before what else there is. *)
RawPlanResortEarly(request) ==
    LET ws == IF request.wss THEN WsPlan(request) ELSE <<>>
        backup == IF request.upstream # "off" THEN <<Route("upstream", "")>>
                  ELSE IF ~request.wss \/ ~IsSuppressed("direct")
                  THEN <<Route("direct", "direct")>> ELSE <<>>
        lastResort == IF ws = <<>> /\ request.wss THEN FrontRoutes(TRUE) ELSE <<>>
    IN  IF request.upstream = "always" THEN <<Route("upstream", "")>>
        ELSE ws \o lastResort \o backup

(* Every way over WSS that is not paused, then the user's SOCKS server or  *)
(* a direct connection; the fronts once more if all of WSS is paused.      *)
RawPlan(request) ==
    LET ws == IF request.wss THEN WsPlan(request) ELSE <<>>
        backup == IF request.upstream # "off" THEN <<Route("upstream", "")>>
                  ELSE IF ~request.wss \/ ~IsSuppressed("direct")
                  THEN <<Route("direct", "direct")>> ELSE <<>>
        lastResort == IF ws = <<>> /\ request.wss THEN FrontRoutes(TRUE) ELSE <<>>
    IN  IF request.upstream = "always" THEN <<Route("upstream", "")>>
        ELSE ws \o backup \o lastResort

Cluster(route, request) ==
    IF request.media /\ route.kind \notin {"user_domain", "front"} THEN "media" ELSE "regular"

(* The primary routes of the key's cluster before the others, the backup   *)
(* routes where they were.                                                 *)
Ordered(raw, request) ==
    LET Home(route) == Cluster(route, request) = request.home
        ours == Kept(raw, {r \in ToSet(raw) : IsPrimary(r) /\ Home(r)})
                  \o Kept(raw, {r \in ToSet(raw) : IsPrimary(r) /\ ~Home(r)})
        Nth(n) == Cardinality({m \in 1..n : IsPrimary(raw[m])})
    IN  IF ~request.media \/ request.home = "" THEN raw
        ELSE [n \in 1..Len(raw) |-> IF IsPrimary(raw[n]) THEN ours[Nth(n)] ELSE raw[n]]

BuildPlan(request) == Ordered(RawPlan(request), request)

-----------------------------------------------------------------------------
(* Whatever has failed, a connection has a way to try, at a front that     *)
(* exists; where there is WSS, a paused way is tried only when no other way*)
(* over WSS is left, and after the ways that are not paused, the SOCKS     *)
(* server or the direct connection. A key that has its home on one cluster *)
(* changes the order of the ways, not the ways.                            *)
NeverWithoutRoute ==
    \A request \in PlanInputs :
        LET raw == RawPlan(request)
            plan == Ordered(raw, request)
            Paused(n) == plan[n].key # "" /\ IsSuppressed(plan[n].key)
        IN  /\ plan # <<>>
            /\ \A n \in 1..Len(plan) : plan[n].kind = "front" =>
                  plan[n].slot \in (0..(FrontCount - 1)) \X {0, 1}
            /\ \A n \in 1..Len(plan) : request.wss /\ Paused(n) =>
                  \A m \in 1..Len(plan) : Paused(m) \/ (m < n /\ ~IsWs(plan[m]))
            /\ plan # raw => \A route \in ToSet(raw) :
                  Cardinality({n \in 1..Len(raw) : raw[n] = route})
                    = Cardinality({n \in 1..Len(plan) : plan[n] = route})

(* A process that dies, whenever it dies, leaves the pauses and the front  *)
(* it knew to the next one.                                                *)
CrashLosesNothing ==
    \A n \in DOMAIN healthFile :
        /\ \A k \in HealthKeys :
              /\ healthFile[n].pauses[k].suppressions = entries[k].suppressions
              /\ healthFile[n].pauses[k].left >= entries[k].left
        /\ healthFile[n].cursor = frontCursor /\ healthFile[n].family = frontFamily
=============================================================================
