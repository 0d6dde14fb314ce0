-------------------------------- MODULE Hands --------------------------------
(***************************************************************************)
(* The server's privileged hands: the trait PrivilegedExecutor with its    *)
(* two implementations. PrivdExecutor sends every operation to the helper  *)
(* over the socket and waits for at most READ_TIMEOUT; WindowsExecutor     *)
(* acts on processes itself and has no kernel table to keep.               *)
(*                                                                         *)
(* Every operator takes the outcome the caller gets (`ok`: Result::is_ok)  *)
(* and is enabled exactly for the outcomes that are possible, with the     *)
(* effect that goes with them.                                             *)
(***************************************************************************)
EXTENDS Privd

CONSTANTS OnWindows,       (* which of the two executors production() took *)
          MaxTimeouts,     (* bound: requests the client gave up on        *)
          MaxSpared        (* bound: sweeps that spare an engine           *)

ASSUME HandsAssumption == OnWindows \in BOOLEAN /\ MaxTimeouts \in Nat /\ MaxSpared \in Nat

VARIABLES timeouts,
          spared           (* ghost: sweeps that left an engine running    *)

handsVars == <<privd, child, alive, used, table, late, crashes, timeouts, spared>>

HandsTypeOK == PrivdTypeOK /\ timeouts \in 0..MaxTimeouts /\ spared \in 0..MaxSpared
HandsInit == PrivdInit /\ timeouts = 0 /\ spared = 0

Msg(op) == [op |-> op, pid |-> NoPid]
KillMsg(p) == [op |-> "kill", pid |-> p]

-----------------------------------------------------------------------------
(* One request over the socket.                                            *)

(* The helper read the request and its reply came back. *)
Answered(m, ok) ==
    /\ privd = "up" /\ late = <<>>
    /\ Exec(m, ok)
    /\ UNCHANGED <<privd, late, crashes, timeouts, spared>>

(* Nobody accepts on the socket. *)
Refused(ok) ==
    /\ privd = "down" /\ ~ok
    /\ UNCHANGED handsVars

(* The client gave up; the request is executed later all the same. *)
Abandoned(m, ok) ==
    /\ privd = "up" /\ ~ok
    /\ timeouts < MaxTimeouts
    /\ timeouts' = timeouts + 1
    /\ late' = Append(late, m)
    /\ UNCHANGED <<privd, child, alive, used, table, crashes, spared>>

(* The helper died between the operation and the reply. *)
Cut(m, ok) ==
    /\ privd = "up" /\ late = <<>> /\ ~ok
    /\ crashes < MaxCrashes
    /\ crashes' = crashes + 1
    /\ privd' = "down"
    /\ Exec(m, TRUE)
    /\ UNCHANGED <<late, timeouts, spared>>

Request(m, ok) == Answered(m, ok) \/ Refused(ok) \/ Abandoned(m, ok) \/ Cut(m, ok)

(* A request without an effect: a lost reply leaves nothing behind. *)
Query(ok) ==
    /\ \/ privd = "up" /\ late = <<>> /\ ok /\ UNCHANGED timeouts
       \/ privd = "down" /\ ~ok /\ UNCHANGED timeouts
       \/ privd = "up" /\ ~ok /\ timeouts < MaxTimeouts /\ timeouts' = timeouts + 1
    /\ UNCHANGED <<privdVars, spared>>

-----------------------------------------------------------------------------
(* The trait.                                                              *)

Ping(ok) == IF OnWindows THEN ok /\ UNCHANGED handsVars ELSE Query(ok)

RunNftScript(ok) ==
    IF OnWindows THEN ok /\ UNCHANGED handsVars ELSE Request(Msg("nft"), ok)

DeleteNftTable(ok) ==
    IF OnWindows THEN ok /\ UNCHANGED handsVars ELSE Request(Msg("nft_delete"), ok)

(* A success hands the caller the fresh identifier, child'. *)
RunDaemon(ok) ==
    IF OnWindows
      THEN OpDaemon(ok) /\ UNCHANGED <<privd, late, crashes, timeouts, spared>>
      ELSE Request(Msg("daemon"), ok)

(* taskkill: success, or the process was gone anyway, or an error. *)
Kill(p, ok) ==
    IF OnWindows
      THEN /\ \/ ok /\ alive' = alive \ {p}
              \/ ~ok /\ UNCHANGED alive
           /\ UNCHANGED <<privd, child, used, table, late, crashes, timeouts, spared>>
      ELSE Request(KillMsg(p), ok)

(* The answer is "running", "dead" or "error". *)
IsRunning(p, ans) ==
    IF OnWindows
      THEN /\ ans \in {IF p \in alive THEN "running" ELSE "dead", "error"}
           /\ UNCHANGED handsVars
      ELSE \/ ans = "error" /\ Query(FALSE)
           \/ ans = "running" /\ OpStatus(p, TRUE) /\ Query(TRUE)
           \/ ans = "dead" /\ OpStatus(p, FALSE) /\ Query(TRUE)

(* Mutant of StopStrays: the sweep reports success and kills nothing. *)
StopNoStrays(ok) == UNCHANGED handsVars

(* On Windows every process running the engine's file is killed; elsewhere *)
(* the default method of the trait does nothing. The sweep succeeds unless *)
(* it cannot be begun: what Stop-Process leaves alive, and an output that  *)
(* says nothing, count as success too.                                     *)
StopStrays(ok) ==
    /\ \/ /\ IF OnWindows THEN alive' = IF ok THEN {} ELSE alive
                          ELSE ok /\ UNCHANGED alive
          /\ UNCHANGED spared
       \/ /\ OnWindows /\ ok
          /\ spared < MaxSpared /\ spared' = spared + 1
          /\ alive' \in SUBSET alive \ {{}}
    /\ UNCHANGED <<privd, child, used, table, late, crashes, timeouts>>

(* The engine itself judges the preset, in at most DRY_RUN_TIMEOUT. *)
DryRun(ok) == ok \in BOOLEAN /\ UNCHANGED handsVars
=============================================================================
