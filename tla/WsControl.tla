------------------------------ MODULE WsControl ------------------------------
(***************************************************************************)
(* The bypass tab of the HTTP server: the handlers start, stop and status. *)
(* Every request runs on a blocking thread of its own; they share the      *)
(* controller, a mutex around the record of the running engine. One action *)
(* is one call of the hands or one critical step between two of them.      *)
(*                                                                         *)
(* A record always holds an identifier in this code (start stores          *)
(* Some(pid)), so "no record" and "no pid" are the one value NoPid. Preset *)
(* texts, queue numbers and the log are left out: no property here tells   *)
(* them apart.                                                             *)
(***************************************************************************)
EXTENDS FiniteSets, Hands

CONSTANTS Reqs,            (* request threads                              *)
          NoReq,           (* nobody: the mutex is free                    *)
          Does,            (* what each thread may be asked to do          *)
          MaxRestarts      (* bound: restarts of the server                *)

Kinds == {"start", "stop", "status"}

ASSUME WsAssumption ==
    /\ NoReq \notin Reqs
    /\ Does \in [Reqs -> SUBSET Kinds]
    /\ MaxRestarts \in Nat

VARIABLES pc, lock,        (* where each thread is, who owns the mutex     *)
          record,          (* the controller: engine believed running      *)
          seen,            (* per thread: the engine this request is about *)
          answer,          (* per thread: how its last request ended       *)
          restarts

wsVars == <<pc, lock, record, seen, answer, restarts>>
vars == <<handsVars, wsVars>>

StartLabels == {"start_ping", "start_prepare", "start_lock", "start_alive", "start_strays",
                "start_dry", "start_nft", "start_daemon", "start_undo", "start_store"}
StopLabels == {"stop_ping", "stop_lock", "stop_kill", "stop_delete"}
StatusLabels == {"status_read", "status_poll"}
Labels == {"idle"} \cup StartLabels \cup StopLabels \cup StatusLabels

Answers == {"none", "ok", "refused", "failed", "running", "not_running"}

WsTypeOK ==
    /\ pc \in [Reqs -> Labels]
    /\ lock \in Reqs \cup {NoReq}
    /\ record \in Pids \cup {NoPid}
    /\ seen \in [Reqs -> Pids \cup {NoPid}]
    /\ answer \in [Reqs -> Answers]
    /\ restarts \in 0..MaxRestarts

(* Type correctness of the server, the helper and what is below it. *)
TypeOK == HandsTypeOK /\ WsTypeOK

Init ==
    /\ HandsInit
    /\ pc = [r \in Reqs |-> "idle"]
    /\ lock = NoReq
    /\ record = NoPid
    /\ seen = [r \in Reqs |-> NoPid]
    /\ answer = [r \in Reqs |-> "none"]
    /\ restarts = 0

-----------------------------------------------------------------------------
At(r, l) == pc[r] = l
Goto(r, l) == pc' = [pc EXCEPT ![r] = l] /\ UNCHANGED answer
Finish(r, a) == pc' = [pc EXCEPT ![r] = "idle"] /\ answer' = [answer EXCEPT ![r] = a]

(* Mutant of Acquire: the guard of the mutex is dropped at once. *)
AcquireAndDrop(r) == lock = NoReq /\ UNCHANGED lock

Acquire(r) == lock = NoReq /\ lock' = r
Release == lock' = NoReq

(* The first step of each handler. *)
Entry == [start |-> "start_ping", stop |-> "stop_ping", status |-> "status_read"]

Arrive(r, kind) ==
    /\ At(r, "idle")
    /\ kind \in Does[r]
    /\ Goto(r, Entry[kind])
    /\ seen' = [seen EXCEPT ![r] = NoPid]
    /\ UNCHANGED <<handsVars, lock, record, restarts>>

-----------------------------------------------------------------------------
(* POST /api/ws/start                                                      *)

StartPing(r) ==
    /\ At(r, "start_ping")
    /\ \/ Ping(TRUE) /\ Goto(r, "start_prepare")
       \/ Ping(FALSE) /\ Finish(r, "refused")
    /\ UNCHANGED <<lock, record, seen, restarts>>

(* Mode, names, presets, lists, the engine's file and the launch plan: any *)
(* of them may be unfit, before the mutex is taken.                        *)
StartPrepare(r) ==
    /\ At(r, "start_prepare")
    /\ Goto(r, "start_lock") \/ Finish(r, "failed")
    /\ UNCHANGED <<handsVars, lock, record, seen, restarts>>

StartLock(r) ==
    /\ At(r, "start_lock")
    /\ Acquire(r)
    /\ Goto(r, IF record = NoPid THEN "start_strays" ELSE "start_alive")
    /\ UNCHANGED <<handsVars, record, seen, restarts>>

(* Only an engine the helper itself calls dead gives its place up; when    *)
(* nobody can tell, it counts as running.                                  *)
StartAlive(r) ==
    /\ At(r, "start_alive")
    /\ \/ /\ IsRunning(record, "dead")
          /\ record' = NoPid
          /\ Goto(r, "start_strays")
          /\ UNCHANGED lock
       \/ /\ IsRunning(record, "running") \/ IsRunning(record, "error")
          /\ Release
          /\ Finish(r, "refused")
          /\ UNCHANGED record
    /\ UNCHANGED <<seen, restarts>>

(* Mutant of OrFail: the guard of the mutex outlives a failed start. *)
OrFailHolding(r, next, ok) ==
    \/ ok /\ Goto(r, next) /\ UNCHANGED lock
    \/ ~ok /\ Finish(r, "failed") /\ UNCHANGED lock

(* A step whose error ends the start with an answer. *)
OrFail(r, next, ok) ==
    \/ ok /\ Goto(r, next) /\ UNCHANGED lock
    \/ ~ok /\ Finish(r, "failed") /\ Release

StartStrays(r) ==
    /\ At(r, "start_strays")
    /\ \E ok \in BOOLEAN : StopStrays(ok) /\ OrFail(r, "start_dry", ok)
    /\ UNCHANGED <<record, seen, restarts>>

(* Mutant of StartDry: the rules are forgotten. *)
StartDrySkipsRules(r) ==
    /\ At(r, "start_dry")
    /\ \E ok \in BOOLEAN : DryRun(ok) /\ OrFail(r, "start_daemon", ok)
    /\ UNCHANGED <<record, seen, restarts>>

StartDry(r) ==
    /\ At(r, "start_dry")
    /\ \E ok \in BOOLEAN : DryRun(ok) /\ OrFail(r, "start_nft", ok)
    /\ UNCHANGED <<record, seen, restarts>>

StartNft(r) ==
    /\ At(r, "start_nft")
    /\ \E ok \in BOOLEAN : RunNftScript(ok) /\ OrFail(r, "start_daemon", ok)
    /\ UNCHANGED <<record, seen, restarts>>

StartDaemon(r) ==
    /\ At(r, "start_daemon")
    /\ \/ /\ RunDaemon(TRUE)
          /\ seen' = [seen EXCEPT ![r] = child']
          /\ Goto(r, "start_store")
       \/ /\ RunDaemon(FALSE)
          /\ Goto(r, "start_undo")
          /\ UNCHANGED seen
    /\ UNCHANGED <<lock, record, restarts>>

(* The rules are taken back; whether that worked only goes to the log. *)
StartUndo(r) ==
    /\ At(r, "start_undo")
    /\ \E ok \in BOOLEAN : DeleteNftTable(ok)
    /\ Release
    /\ Finish(r, "failed")
    /\ UNCHANGED <<record, seen, restarts>>

(* Mutant of StartStore: the start answers before it records its engine. *)
StartAnswersOnly(r) ==
    /\ At(r, "start_store")
    /\ Release
    /\ Finish(r, "ok")
    /\ UNCHANGED <<handsVars, record, seen, restarts>>

StartStore(r) ==
    /\ At(r, "start_store")
    /\ record' = seen[r]
    /\ Release
    /\ Finish(r, "ok")
    /\ UNCHANGED <<handsVars, seen, restarts>>

Start(r) ==
    \/ StartPing(r) \/ StartPrepare(r) \/ StartLock(r) \/ StartAlive(r) \/ StartStrays(r)
    \/ StartDry(r) \/ StartNft(r) \/ StartDaemon(r) \/ StartUndo(r) \/ StartStore(r)

-----------------------------------------------------------------------------
(* POST /api/ws/stop                                                       *)

StopPing(r) ==
    /\ At(r, "stop_ping")
    /\ \/ Ping(TRUE) /\ Goto(r, "stop_lock")
       \/ Ping(FALSE) /\ Finish(r, "refused")
    /\ UNCHANGED <<lock, record, seen, restarts>>

(* controller.take(): the record is gone whatever becomes of the kill. *)
StopLock(r) ==
    /\ At(r, "stop_lock")
    /\ lock = NoReq
    /\ \/ /\ record # NoPid
          /\ lock' = r
          /\ Goto(r, "stop_kill")
       \/ /\ record = NoPid
          /\ UNCHANGED lock
          /\ Goto(r, "stop_delete")
    /\ seen' = [seen EXCEPT ![r] = record]
    /\ record' = NoPid
    /\ UNCHANGED <<handsVars, restarts>>

(* A failed kill only goes to the log. The mutex is dropped here, before   *)
(* the rules are removed.                                                  *)
StopKill(r) ==
    /\ At(r, "stop_kill")
    /\ \E ok \in BOOLEAN : Kill(seen[r], ok)
    /\ Release
    /\ Goto(r, "stop_delete")
    /\ UNCHANGED <<record, seen, restarts>>

StopDelete(r) ==
    /\ At(r, "stop_delete")
    /\ \E ok \in BOOLEAN : DeleteNftTable(ok)
    /\ Finish(r, "ok")
    /\ UNCHANGED <<lock, record, seen, restarts>>

Stop(r) == StopPing(r) \/ StopLock(r) \/ StopKill(r) \/ StopDelete(r)

-----------------------------------------------------------------------------
(* GET /api/ws/status                                                      *)

(* The record is copied under the mutex and polled after it is free again. *)
StatusRead(r) ==
    /\ At(r, "status_read")
    /\ lock = NoReq
    /\ seen' = [seen EXCEPT ![r] = record]
    /\ \/ record # NoPid /\ Goto(r, "status_poll")
       \/ record = NoPid /\ Finish(r, "not_running")
    /\ UNCHANGED <<handsVars, lock, record, restarts>>

(* Here an error of the poll counts as "not running". *)
StatusPoll(r) ==
    /\ At(r, "status_poll")
    /\ \/ IsRunning(seen[r], "running") /\ Finish(r, "running")
       \/ (IsRunning(seen[r], "dead") \/ IsRunning(seen[r], "error")) /\ Finish(r, "not_running")
    /\ UNCHANGED <<lock, record, seen, restarts>>

Status(r) == StatusRead(r) \/ StatusPoll(r)

-----------------------------------------------------------------------------
(* The server process dies and comes back: the record is gone, engines and *)
(* rules are not. (A request already written to the helper when the server *)
(* dies is the step Abandoned followed by this one.)                       *)
CoreRestarts ==
    /\ restarts < MaxRestarts
    /\ restarts' = restarts + 1
    /\ pc' = [r \in Reqs |-> "idle"]
    /\ lock' = NoReq
    /\ record' = NoPid
    /\ seen' = [r \in Reqs |-> NoPid]
    /\ answer' = [r \in Reqs |-> "none"]
    /\ UNCHANGED handsVars

(* Below the server: the helper where there is one, and engines anywhere. *)
Below ==
    /\ IF OnWindows THEN \E p \in Pids : EngineExits(p) ELSE PrivdNext
    /\ UNCHANGED <<timeouts, spared, wsVars>>

Serve(r) == Start(r) \/ Stop(r) \/ Status(r)

Next ==
    \/ \E r \in Reqs : Serve(r)
    \/ \E r \in Reqs, kind \in Kinds : Arrive(r, kind)
    \/ CoreRestarts
    \/ Below

Spec == Init /\ [][Next]_vars

(* A thread that can move does, the helper goes on reading, and a thread   *)
(* that waits for the mutex gets it if it becomes free again and again:    *)
(* futex mutexes wake a waiter at every unlock. Nothing makes users click, *)
(* processes die or the helper start.                                      *)
Fairness ==
    /\ \A r \in Reqs : WF_vars(Serve(r))
    /\ \A r \in Reqs : SF_vars(StartLock(r)) /\ SF_vars(StopLock(r)) /\ SF_vars(StatusRead(r))
    /\ WF_vars(~OnWindows /\ ExecLate /\ UNCHANGED <<timeouts, spared, wsVars>>)

FairSpec == Spec /\ Fairness

-----------------------------------------------------------------------------
(* Properties                                                              *)

(* No request was given up on and no process of ours died or was replaced. *)
NoFault == timeouts = 0 /\ crashes = 0 /\ restarts = 0

(* At most one engine runs, as long as no request timed out and neither    *)
(* the helper nor the server died; on Windows, where a start first kills   *)
(* whatever runs, also after failed kills and restarts, and every sweep    *)
(* that left an engine alive costs one engine at most, however many starts *)
(* follow it. This is what start_sync holds its mutex for ("two parallel   *)
(* starts must not spawn two daemons").                                    *)
OneEngine ==
    /\ ~OnWindows /\ NoFault => \A p, q \in alive : p = q
    /\ OnWindows => Cardinality(alive) <= 1 + spared

(* Without faults an engine that runs is accounted for: it is the recorded *)
(* one, or a request holding the mutex is just storing or killing it. So   *)
(* neither a failed start nor a stop leaves an engine nobody can stop.     *)
NoOrphan ==
    (~OnWindows /\ NoFault) =>
        \A p \in alive : \/ p = record
                         \/ \E r \in Reqs : /\ lock = r
                                            /\ pc[r] \in {"start_store", "stop_kill"}
                                            /\ seen[r] = p

(* A stop that answers "ok" without faults has ended the engine it took    *)
(* from the record, whatever started or stopped in between.                *)
StopEndsItsEngine ==
    [][\A r \in Reqs :
          (~OnWindows /\ NoFault' /\ At(r, "stop_delete") /\ pc'[r] = "idle")
              => seen[r] \notin alive']_vars

(* Every accepted request is answered: no path through the handlers keeps  *)
(* the mutex, or waits for a helper that is gone.                          *)
EveryRequestAnswered == \A r \in Reqs : ~At(r, "idle") ~> At(r, "idle")

(* With one user at a time and no faults the tab keeps the promise of      *)
(* module Bypass: rules before the engine, engine before the rules.        *)
Promise == INSTANCE Bypass WITH engines <- alive, rules <- table
KeepsPromise == Promise!Spec

(* The engine the tab shows as running has its rules once the handlers are *)
(* done: "if the daemon is not running, the table is removed all the same" *)
(* (doc of stop), and only then.                                           *)
RunningEngineHasRules ==
    (record \in alive /\ \A r \in Reqs : At(r, "idle")) => table

(* A failed start leaves nothing running (the test of that name): when all *)
(* handlers are done and nothing is recorded, no engine runs.              *)
FailedStartLeavesNothing ==
    ((\A r \in Reqs : At(r, "idle") /\ answer[r] = "failed") /\ record = NoPid) => alive = {}
=============================================================================
