------------------------------ MODULE LocalProxy ------------------------------
(***************************************************************************)
(* Encrypted DNS through a Windows service: the page switches it on in a   *)
(* mode, points the adapters at 127.0.0.1 once the engine has answered,    *)
(* and removes the service when no adapter uses it; every start of the     *)
(* program repairs what an earlier one left. A step ends where the program *)
(* can be killed and leave a trace: a service call or a file write.        *)
(*                                                                         *)
(* The mode is kept nowhere but in the engine's config file. A missing and *)
(* an empty config are one value, None: both are read as "". The text is   *)
(* short, one call writes it: a write cut short leaves an empty file. A    *)
(* copy cut short leaves an engine no service can start. Windows, as       *)
(* documented, does not restart a service that is started while it runs.   *)
(***************************************************************************)
EXTENDS Naturals

CONSTANTS Modes,           (* modes of encrypted DNS                       *)
          None,            (* no config, or one that tells no mode         *)
          MaxFaults        (* bound: calls that fail, outside meddling     *)

ASSUME LpAssumption == None \notin Modes /\ MaxFaults \in Nat

VARIABLES service,         (* "none", "stopped", "running"                 *)
          ours,            (* the service's command is the current one     *)
          loaded,          (* the config the engine read when it started   *)
          config,          (* the mode in the config file                  *)
          fresh, shipped,  (* our copy equals the shipped engine; there is *)
                           (* a shipped engine                             *)
          launchable,      (* our copy of the engine is whole              *)
          adapters,        (* some adapter points at 127.0.0.1             *)
          repairDue,       (* the program is started, repair not yet run   *)
          lpPc, task,      (* what the page's or the repair's thread does  *)
          mode, previous,  (* locals of start                              *)
          answered,        (* ghost: the engine answered in this start     *)
          faults,          (* ghost: faults so far                         *)
          torn,            (* ghost: a kill in a write emptied the config, *)
                           (* which no start has written since             *)
          before           (* ghost: the state in which start was called   *)

lpSystem == <<service, ours, loaded>>
lpEngines == <<fresh, launchable, shipped>>
lpFiles == <<config, torn, lpEngines>>
lpStart == <<task, mode, previous, answered, before>>
lpVars == <<lpSystem, lpFiles, adapters, repairDue, lpPc, lpStart, faults>>

Labels == {"idle", "begin", "port", "copy", "write", "verify", "install", "launch",
           "await", "apply", "tidy", "forget",
           "undo", "undoForget", "undoInstall", "undoLaunch"}

(* Type correctness; a running engine runs with a config it could read. *)
LpTypeOK ==
    /\ service \in {"none", "stopped", "running"}
    /\ ours \in BOOLEAN /\ fresh \in BOOLEAN /\ shipped \in BOOLEAN
    /\ launchable \in BOOLEAN /\ torn \in BOOLEAN
    /\ adapters \in BOOLEAN /\ repairDue \in BOOLEAN /\ answered \in BOOLEAN
    /\ {loaded, config, mode, previous} \subseteq Modes \cup {None}
    /\ lpPc \in Labels
    /\ task \in {"none", "page", "repair"}
    /\ faults \in 0..MaxFaults
    /\ before \in [service : {"none", "stopped", "running"}, config : Modes \cup {None},
                   loaded : Modes \cup {None}, faults : 0..MaxFaults]

LpInit ==
    /\ service = "none" /\ ours = FALSE /\ loaded = None
    /\ config = None /\ torn = FALSE
    /\ fresh = FALSE /\ launchable = FALSE /\ shipped = TRUE
    /\ adapters = FALSE
    /\ repairDue = TRUE
    /\ lpPc = "idle" /\ task = "none"
    /\ mode = None /\ previous = None
    /\ answered = FALSE
    /\ faults = 0
    /\ before = [service |-> "none", config |-> None, loaded |-> None, faults |-> 0]

-----------------------------------------------------------------------------
(* Calls of the platform layer.                                            *)

LpFault == faults < MaxFaults /\ faults' = faults + 1
NoFault == UNCHANGED faults

LpGoto(label) == lpPc' = label
LpEnd == lpPc' = "idle" /\ task' = "none" /\ UNCHANGED <<mode, previous, answered, before>>

Stopped == IF service = "running" THEN "stopped" ELSE service

(* Mutant of RemoveService: the service is stopped, its record is kept. *)
OnlyStopService == service' = Stopped /\ loaded' = None /\ UNCHANGED ours

RemoveService == service' = "none" /\ loaded' = None /\ ours' = FALSE

(* A service with a wrong command is deleted and made anew. *)
EnsureService(done, failed) ==
    \/ service # "none" /\ ours /\ NoFault /\ LpGoto(done) /\ UNCHANGED lpSystem
    \/ /\ service = "none" \/ ~ours
       /\ \/ service' = "stopped" /\ ours' = TRUE /\ loaded' = None /\ NoFault /\ LpGoto(done)
          \/ RemoveService /\ LpFault /\ failed

(* The engine reads its config as it starts; one that runs goes on. *)
Startable == service = "running" \/ (service = "stopped" /\ launchable)

ServiceStarted ==
    /\ Startable
    /\ service' = "running"
    /\ loaded' = IF service = "running" THEN loaded ELSE config
    /\ UNCHANGED ours

-----------------------------------------------------------------------------
(* start, for the page or for the repair.                                  *)

Enter(who, m) ==
    /\ task' = who /\ mode' = m /\ previous' = None /\ answered' = FALSE
    /\ before' = [service |-> service, config |-> config, loaded |-> loaded, faults |-> faults]
    /\ LpGoto("begin")
    /\ UNCHANGED <<lpSystem, lpFiles, adapters, faults>>

PageStarts(m) ==
    /\ lpPc = "idle" /\ ~repairDue
    /\ Enter("page", m)
    /\ UNCHANGED repairDue

(* No shipped engine, or a DoH tile without an address to go by. *)
Refuse ==
    /\ lpPc = "begin"
    /\ task = "page" \/ ~shipped
    /\ LpEnd
    /\ UNCHANGED <<lpSystem, lpFiles, adapters, repairDue, faults>>

(* Mutant of StopOwn: the config of a service that is stopped is not kept. *)
StopOwnForgetful ==
    /\ lpPc = "begin" /\ shipped
    /\ previous' = IF service = "running" THEN config ELSE None
    /\ service' = Stopped
    /\ loaded' = IF service = "running" THEN None ELSE loaded
    /\ LpGoto("port")
    /\ UNCHANGED <<ours, lpFiles, adapters, repairDue, task, mode, answered, before, faults>>

(* Our own service must leave port 53 before the port is looked at. *)
StopOwn ==
    /\ lpPc = "begin" /\ shipped
    /\ previous' = IF service # "none" THEN config ELSE None
    /\ service' = Stopped
    /\ loaded' = IF service = "running" THEN None ELSE loaded
    /\ LpGoto("port")
    /\ UNCHANGED <<ours, lpFiles, adapters, repairDue, task, mode, answered, before, faults>>

(* A step of start that changes no file and no service, or fails. *)
Examine(at, next) ==
    /\ lpPc = at
    /\ \/ NoFault /\ LpGoto(next)
       \/ LpFault /\ LpGoto("undo")
    /\ UNCHANGED <<lpSystem, lpFiles, adapters, repairDue, lpStart>>

PortFree == Examine("port", "copy")
CheckConfig == Examine("verify", "install")

(* A copy that fails may have overwritten the old engine before; without a *)
(* shipped engine it fails at once.                                        *)
CopyEngine ==
    /\ lpPc = "copy"
    /\ \/ shipped /\ fresh /\ NoFault /\ UNCHANGED <<fresh, launchable>> /\ LpGoto("write")
       \/ shipped /\ ~fresh /\ NoFault /\ fresh' = TRUE /\ launchable' = TRUE /\ LpGoto("write")
       \/ /\ shipped /\ ~fresh /\ LpFault
          /\ launchable' \in {launchable, FALSE} /\ UNCHANGED fresh /\ LpGoto("undo")
       \/ ~shipped /\ NoFault /\ UNCHANGED <<fresh, launchable>> /\ LpGoto("undo")
    /\ UNCHANGED <<lpSystem, config, torn, shipped, adapters, repairDue, lpStart>>

(* A write that fails may have emptied the file. *)
WriteConfig ==
    /\ lpPc = "write"
    /\ \/ NoFault /\ config' = mode /\ torn' = FALSE /\ LpGoto("verify")
       \/ LpFault /\ config' \in {config, None} /\ UNCHANGED torn /\ LpGoto("undo")
    /\ UNCHANGED <<lpSystem, lpEngines, adapters, repairDue, lpStart>>

Install ==
    /\ lpPc = "install"
    /\ EnsureService("launch", LpGoto("undo"))
    /\ UNCHANGED <<lpFiles, adapters, repairDue, lpStart>>

Launch ==
    /\ lpPc = "launch"
    /\ \/ NoFault /\ ServiceStarted /\ LpGoto("await")
       \/ Startable /\ LpFault /\ UNCHANGED lpSystem /\ LpGoto("undo")
       \/ ~Startable /\ NoFault /\ UNCHANGED lpSystem /\ LpGoto("undo")
    /\ UNCHANGED <<lpFiles, adapters, repairDue, lpStart>>

(* Mutant of Await: the page goes on when the wait is over, answer or not. *)
AwaitAnyway ==
    /\ lpPc = "await"
    /\ \/ service = "running" /\ NoFault /\ answered' = TRUE
       \/ LpFault /\ UNCHANGED answered
    /\ IF task = "page" THEN LpGoto("apply") /\ UNCHANGED task
                        ELSE LpGoto("idle") /\ task' = "none"
    /\ UNCHANGED <<lpSystem, lpFiles, adapters, repairDue, mode, previous, before>>

(* The engine answers, or the servers of the mode are out of reach for the *)
(* whole START_TIMEOUT_S.                                                  *)
Await ==
    /\ lpPc = "await"
    /\ \/ /\ service = "running" /\ NoFault
          /\ answered' = TRUE
          /\ IF task = "page" THEN LpGoto("apply") /\ UNCHANGED task
                              ELSE LpGoto("idle") /\ task' = "none"
       \/ /\ \/ service = "running" /\ LpFault
             \/ service # "running" /\ NoFault
          /\ LpGoto("undo")
          /\ UNCHANGED <<answered, task>>
    /\ UNCHANGED <<lpSystem, lpFiles, adapters, repairDue, mode, previous, before>>

-----------------------------------------------------------------------------
(* roll_back. *)

Undo ==
    /\ lpPc = "undo"
    /\ \/ /\ previous = None
          /\ RemoveService /\ LpGoto("undoForget") /\ UNCHANGED <<config, torn, faults>>
          /\ UNCHANGED lpStart
       \/ /\ previous # None
          /\ NoFault /\ config' = previous /\ torn' = FALSE /\ LpGoto("undoInstall")
          /\ UNCHANGED <<lpSystem, lpStart>>
       \/ /\ previous # None
          /\ LpFault /\ config' \in {config, None} /\ LpEnd
          /\ UNCHANGED <<lpSystem, torn>>
    /\ UNCHANGED <<lpEngines, adapters, repairDue>>

UndoInstall ==
    /\ lpPc = "undoInstall"
    /\ EnsureService("undoLaunch", LpGoto("undoLaunch"))
    /\ UNCHANGED <<lpFiles, adapters, repairDue, lpStart>>

UndoLaunch ==
    /\ lpPc = "undoLaunch"
    /\ \/ NoFault /\ ServiceStarted
       \/ Startable /\ LpFault /\ UNCHANGED lpSystem
       \/ ~Startable /\ NoFault /\ UNCHANGED lpSystem
    /\ LpEnd
    /\ UNCHANGED <<lpFiles, adapters, repairDue>>

-----------------------------------------------------------------------------
(* The adapters, stop_if_unused, repair.                                   *)

(* apply_dns writes 127.0.0.1, or its own check of the server, or every    *)
(* write, fails.                                                           *)
Apply ==
    /\ lpPc = "apply"
    /\ adapters' \in {adapters, TRUE}
    /\ LpGoto("tidy")
    /\ UNCHANGED <<lpSystem, lpFiles, repairDue, lpStart, faults>>

(* Another DNS is chosen for some or all adapters. *)
ApplyOther ==
    /\ lpPc = "idle" /\ ~repairDue /\ adapters
    /\ adapters' \in BOOLEAN
    /\ task' = "page"
    /\ LpGoto("tidy")
    /\ UNCHANGED <<lpSystem, lpFiles, repairDue, mode, previous, answered, before, faults>>

StopIfUnused ==
    /\ lpPc = "tidy"
    /\ IF adapters \/ service = "none"
       THEN LpEnd /\ UNCHANGED lpSystem
       ELSE RemoveService /\ LpGoto("forget") /\ UNCHANGED lpStart
    /\ UNCHANGED <<lpFiles, adapters, repairDue, faults>>

ForgetConfig ==
    /\ lpPc \in {"forget", "undoForget"}
    /\ config' = None /\ torn' = FALSE
    /\ LpEnd
    /\ UNCHANGED <<lpSystem, lpEngines, adapters, repairDue, faults>>

Healthy == service = "running" /\ (shipped => fresh) /\ ours

Repair ==
    /\ lpPc = "idle" /\ repairDue
    /\ repairDue' = FALSE
    /\ \/ /\ ~adapters /\ service # "none"
          /\ task' = "repair" /\ LpGoto("tidy")
          /\ UNCHANGED <<lpSystem, lpFiles, adapters, mode, previous, answered, before, faults>>
       \/ /\ \/ ~adapters /\ service = "none"
             \/ adapters /\ (config = None \/ Healthy)
          /\ UNCHANGED <<lpSystem, lpFiles, adapters, lpPc, lpStart, faults>>
       \/ /\ adapters /\ config # None /\ ~Healthy
          /\ Enter("repair", config)

-----------------------------------------------------------------------------
(* What happens around the program.                                        *)

(* The program ends at any step, for an update too, which brings another   *)
(* engine, or moves the program and with it the command of the service.    *)
Leave ==
    /\ lpPc' = "idle" /\ task' = "none" /\ repairDue' = TRUE
    /\ UNCHANGED <<service, loaded, adapters, mode, previous, answered, before, faults>>

Crash == Leave /\ UNCHANGED <<ours, lpFiles>>

Update ==
    /\ Leave
    /\ fresh' = FALSE /\ shipped' = TRUE
    /\ ours' \in {ours, FALSE}
    /\ UNCHANGED <<config, torn, launchable>>

(* A kill falls into a write of the config, or into the copy of the engine.*)
CrashInWrite ==
    /\ lpPc \in {"write", "undo"} /\ (lpPc = "undo" => previous # None)
    /\ Leave
    /\ config' = None /\ torn' = TRUE
    /\ UNCHANGED <<ours, lpEngines>>

CrashInCopy ==
    /\ lpPc = "copy" /\ shipped /\ ~fresh
    /\ Leave
    /\ launchable' = FALSE
    /\ UNCHANGED <<ours, config, torn, fresh, shipped>>

(* The service is stopped or removed, the shipped engine deleted. *)
Meddle ==
    /\ LpFault
    /\ \/ service' = Stopped /\ loaded' = None /\ service = "running" /\ UNCHANGED <<ours, shipped>>
       \/ service # "none" /\ RemoveService /\ UNCHANGED shipped
       \/ shipped /\ shipped' = FALSE /\ UNCHANGED lpSystem
    /\ UNCHANGED <<config, torn, fresh, launchable, adapters, repairDue, lpPc, lpStart>>

(* The service starts with Windows; the program starts later. *)
Reboot ==
    /\ service' = IF Stopped = "stopped" /\ launchable THEN "running" ELSE Stopped
    /\ loaded' = IF service' = "running" THEN config ELSE None
    /\ lpPc' = "idle" /\ task' = "none" /\ repairDue' = TRUE
    /\ UNCHANGED <<ours, lpFiles, adapters, mode, previous, answered, before, faults>>

LpNext ==
    \/ \E m \in Modes : PageStarts(m)
    \/ Refuse \/ StopOwn \/ PortFree \/ CopyEngine \/ WriteConfig \/ CheckConfig
    \/ Install \/ Launch \/ Await
    \/ Undo \/ UndoInstall \/ UndoLaunch
    \/ Apply \/ ApplyOther \/ StopIfUnused \/ ForgetConfig \/ Repair
    \/ Crash \/ Update \/ CrashInWrite \/ CrashInCopy \/ Meddle \/ Reboot

LpSpec == LpInit /\ [][LpNext]_lpVars

-----------------------------------------------------------------------------
(* Properties                                                              *)

(* "The adapters get 127.0.0.1 only after the engine really answered": an  *)
(* adapter is never pointed at an engine that this very start did not hear *)
(* from, whatever failed before.                                           *)
AdaptersAfterAnswer == [][~adapters /\ adapters' => answered /\ task = "page"]_lpVars

(* The engine runs, it is ours and the current one, in the mode of the file.*)
Engaged == service = "running" /\ ours /\ fresh /\ config # None /\ loaded = config

(* As long as no call fails and nobody meddles, whatever kills, updates and *)
(* reboots there were, in a copy of the engine too: once the repair is done*)
(* and nothing is going on, an adapter on 127.0.0.1 has a running engine of*)
(* ours with the mode in the file, and without such an adapter there is no *)
(* service. One kill is not repaired: it fell into a write of the config,  *)
(* whose mode is then lost, and as long as nobody starts a mode or leaves  *)
(* 127.0.0.1 the adapters point at nothing.                                *)
Settled ==
    faults = 0 /\ lpPc = "idle" /\ ~repairDue =>
        IF adapters THEN Engaged \/ (torn /\ config = None) ELSE service = "none"

(* The last step of a start that failed. *)
RolledBack == lpPc \in {"undo", "undoForget", "undoLaunch"} /\ lpPc' = "idle" /\ ~repairDue'

(* A start that fails by one fault, the repair's too, brings the previous  *)
(* config back, and with it the previous mode, with two exceptions: a copy *)
(* that failed midway has left no engine to start, and the new engine that *)
(* was started and did not answer goes on (the service that still runs is  *)
(* started, which does nothing).                                           *)
FailedStartRestores ==
    [][RolledBack /\ faults' = before.faults + 1
          /\ before.service # "none" /\ before.config # None
       => /\ config' = before.config
          /\ service' = IF launchable THEN "running" ELSE "stopped"
          /\ launchable => loaded' = IF service = "running" THEN mode ELSE before.config
          /\ service = "running" => answered = FALSE /\ loaded = mode]_lpVars

(* What the page shows is what runs: "the mode is in the first line of the *)
(* config, so the page shows what is really started".                      *)
ModeShownRuns ==
    lpPc = "idle" /\ ~repairDue /\ service = "running" => loaded = config
=============================================================================
