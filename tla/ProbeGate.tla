------------------------------ MODULE ProbeGate ------------------------------
(***************************************************************************)
(* The gate every network check of the program passes: runs a user started *)
(* hold a token for their whole length, background checks need the single  *)
(* permit and ask for it with try_background, whose steps other threads    *)
(* may come between. The time of the last scheduled check of each kind is  *)
(* in the settings and survives a restart of the program.                  *)
(*                                                                         *)
(* Times are ticks of a clock that is never set back.                      *)
(***************************************************************************)
EXTENDS Integers

CONSTANTS Runs,            (* runs by the button, each with its token      *)
          Checkers,        (* background threads                           *)
          Kinds,           (* kinds of background checks                   *)
          MayAsk,          (* the kinds each thread asks for               *)
          Interval,        (* min_interval_s of each kind                  *)
          Start,           (* the time at which the program is first run   *)
          MaxTime          (* bound: the last tick of the clock            *)

ASSUME GateAssumption ==
    /\ MayAsk \in [Checkers -> SUBSET Kinds]
    /\ Interval \in [Kinds -> Nat]
    /\ Start \in Nat /\ MaxTime \in Nat

VARIABLES userRuns,        (* tokens of the runs going on                  *)
          taken,           (* BACKGROUND_TAKEN                             *)
          gatePc, kind, now,  (* per thread: where it is in try_background, *)
                           (* for which kind, and the time it read         *)
          lastRun,         (* per kind: the stored time, 0 if none         *)
          clock

gateVars == <<userRuns, taken, gatePc, kind, now, lastRun, clock>>

GateLabels == {"idle", "clock", "last", "take", "recheck", "store", "hold"}

(* Type correctness: no time read or stored lies in the future. *)
GateTypeOK ==
    /\ userRuns \subseteq Runs
    /\ taken \in BOOLEAN
    /\ gatePc \in [Checkers -> GateLabels]
    /\ kind \in [Checkers -> Kinds]
    /\ clock \in Nat
    /\ now \in [Checkers -> 0..clock]
    /\ lastRun \in [Kinds -> 0..clock]

GateInit ==
    /\ userRuns = {}
    /\ taken = FALSE
    /\ gatePc = [t \in Checkers |-> "idle"]
    /\ kind \in [Checkers -> Kinds]
    /\ now = [t \in Checkers |-> 0]
    /\ lastRun = [k \in Kinds |-> 0]
    /\ clock = Start

-----------------------------------------------------------------------------
(* Runs by the button.                                                     *)

BeginUserRun(r) ==
    /\ r \notin userRuns
    /\ userRuns' = userRuns \cup {r}
    /\ UNCHANGED <<taken, gatePc, kind, now, lastRun, clock>>

EndUserRun(r) ==
    /\ r \in userRuns
    /\ userRuns' = userRuns \ {r}
    /\ UNCHANGED <<taken, gatePc, kind, now, lastRun, clock>>

UserRunActive == userRuns # {}

-----------------------------------------------------------------------------
(* try_background, step by step. Ending it with "no permit" is "idle".     *)

GateGoto(t, l) == gatePc' = [gatePc EXCEPT ![t] = l]

Ask(t, k) ==
    /\ gatePc[t] = "idle"
    /\ k \in MayAsk[t]
    /\ ~UserRunActive
    /\ kind' = [kind EXCEPT ![t] = k]
    /\ GateGoto(t, "clock")
    /\ UNCHANGED <<userRuns, taken, now, lastRun, clock>>

ReadClock(t) ==
    /\ gatePc[t] = "clock"
    /\ now' = [now EXCEPT ![t] = clock]
    /\ GateGoto(t, "last")
    /\ UNCHANGED <<userRuns, taken, kind, lastRun, clock>>

(* The last check is less than an interval ago, and not in the future. *)
TooEarly(t) ==
    LET passed == now[t] - lastRun[kind[t]]
    IN  0 < passed /\ passed < Interval[kind[t]]

ReadLastRun(t) ==
    /\ gatePc[t] = "last"
    /\ \/ TooEarly(t) /\ GateGoto(t, "idle")
       \/ ~TooEarly(t) /\ GateGoto(t, "take")
    /\ UNCHANGED <<userRuns, taken, kind, now, lastRun, clock>>

(* Mutant of TakePermit: the flag is read in one critical section and set  *)
(* in another, so a second thread may have passed in between.              *)
TakeUnchecked(t) ==
    /\ gatePc[t] = "take"
    /\ taken' = TRUE
    /\ GateGoto(t, "recheck")
    /\ UNCHANGED <<userRuns, kind, now, lastRun, clock>>

TakePermit(t) ==
    /\ gatePc[t] = "take"
    /\ \/ taken /\ GateGoto(t, "idle") /\ UNCHANGED taken
       \/ ~taken /\ GateGoto(t, "recheck") /\ taken' = TRUE
    /\ UNCHANGED <<userRuns, kind, now, lastRun, clock>>

(* Mutant of Recheck: giving way to a user, it keeps the permit. *)
RecheckKeepsPermit(t) ==
    /\ gatePc[t] = "recheck"
    /\ \/ UserRunActive /\ GateGoto(t, "idle")
       \/ ~UserRunActive /\ GateGoto(t, "store")
    /\ UNCHANGED <<userRuns, taken, kind, now, lastRun, clock>>

(* A run by the button that began in the meantime goes first. *)
Recheck(t) ==
    /\ gatePc[t] = "recheck"
    /\ \/ UserRunActive /\ GateGoto(t, "idle") /\ taken' = FALSE
       \/ ~UserRunActive /\ GateGoto(t, "store") /\ UNCHANGED taken
    /\ UNCHANGED <<userRuns, kind, now, lastRun, clock>>

(* The time is stored before the check begins; without it, no check. *)
StoreLastRun(t) ==
    /\ gatePc[t] = "store"
    /\ \/ /\ lastRun' = [lastRun EXCEPT ![kind[t]] = now[t]]
          /\ GateGoto(t, "hold")
          /\ UNCHANGED taken
       \/ /\ taken' = FALSE
          /\ GateGoto(t, "idle")
          /\ UNCHANGED lastRun
    /\ UNCHANGED <<userRuns, kind, now, clock>>

TryBackground(t) ==
    ReadClock(t) \/ ReadLastRun(t) \/ TakePermit(t) \/ Recheck(t) \/ StoreLastRun(t)

(* The permit is released, or dropped, at the end of the check. *)
Release(t) ==
    /\ gatePc[t] = "hold"
    /\ taken' = FALSE
    /\ GateGoto(t, "idle")
    /\ UNCHANGED <<userRuns, kind, now, lastRun, clock>>

-----------------------------------------------------------------------------
(* The program ends at any moment and is started again. *)
Restart ==
    /\ userRuns' = {}
    /\ taken' = FALSE
    /\ gatePc' = [t \in Checkers |-> "idle"]
    /\ UNCHANGED <<kind, now, lastRun, clock>>

GateTick ==
    /\ clock < MaxTime
    /\ clock' = clock + 1
    /\ UNCHANGED <<userRuns, taken, gatePc, kind, now, lastRun>>

GateNext ==
    \/ \E r \in Runs : BeginUserRun(r) \/ EndUserRun(r)
    \/ \E t \in Checkers : TryBackground(t) \/ Release(t)
    \/ \E t \in Checkers, k \in Kinds : Ask(t, k)
    \/ Restart
    \/ GateTick

GateSpec == GateInit /\ [][GateNext]_gateVars

(* try_background has no step that waits, and every check ends. *)
GateFairness == \A t \in Checkers : WF_gateVars(TryBackground(t) \/ Release(t))

GateFairSpec == GateSpec /\ GateFairness

-----------------------------------------------------------------------------
(* Properties                                                              *)

HasPermit(t) == gatePc[t] \in {"recheck", "store", "hold"}

(* One background check at a time ("two at once are a burst already"): the *)
(* flag is set exactly while one thread owns the permit, so that neither   *)
(* giving way to a user nor a failed store leaves it set with no owner.    *)
OnePermit ==
    /\ taken <=> \E t \in Checkers : HasPermit(t)
    /\ \A t, u \in Checkers : HasPermit(t) /\ HasPermit(u) => t = u

(* A scheduled check of a kind comes no sooner than its interval after the *)
(* one before it, restarts included. Two threads may break it, as the      *)
(* stored time is read before the permit is taken: a whole check of one    *)
(* fits in between. OnlyARaceBreaksIt proves that nothing else does.       *)
IntervalKept ==
    [][\A k \in Kinds :
          lastRun'[k] > lastRun[k] => lastRun'[k] - lastRun[k] >= Interval[k]]_gateVars

(* The permit is always given back: background checks never end for good.  *)
PermitComesBack == []<>~taken
=============================================================================
