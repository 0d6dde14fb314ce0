--------------------------- MODULE WsControlProofs ---------------------------
(***************************************************************************)
(* Proofs about WsControl, for every set of request threads, every set of  *)
(* process identifiers and every bound.                                    *)
(***************************************************************************)
EXTENDS WsControl, FiniteSetTheorems, TLAPS

(* An operation of the helper keeps the types of its world. *)
LEMMA ExecType ==
    ASSUME HandsTypeOK, NEW m \in Requests, NEW ok \in BOOLEAN, Exec(m, ok)
    PROVE  /\ child' \in Pids \cup {NoPid}
           /\ alive' \subseteq used'
           /\ used' \subseteq Pids
           /\ table' \in BOOLEAN
  <1>1. CASE m.op = "nft" /\ OpNft(ok)
    BY <1>1 DEF HandsTypeOK, PrivdTypeOK, OpNft
  <1>2. CASE m.op = "nft_delete" /\ OpNftDelete(ok)
    BY <1>2 DEF HandsTypeOK, PrivdTypeOK, OpNftDelete
  <1>3. CASE m.op = "daemon" /\ OpDaemon(ok)
    BY <1>3 DEF HandsTypeOK, PrivdTypeOK, OpDaemon
  <1>4. CASE m.op = "kill" /\ OpKill(m.pid, ok)
    BY <1>4 DEF HandsTypeOK, PrivdTypeOK, OpKill
  <1>5. QED
    BY <1>1, <1>2, <1>3, <1>4 DEF Exec

(* So does a request over the socket, whichever way it ends. *)
LEMMA RequestType ==
    ASSUME HandsTypeOK, NEW m \in Requests, NEW ok \in BOOLEAN, Request(m, ok)
    PROVE  HandsTypeOK'
  <1> USE PrivdAssumption, HandsAssumption
  <1>1. CASE Answered(m, ok)
    BY <1>1, ExecType DEF Answered, HandsTypeOK, PrivdTypeOK
  <1>2. CASE Refused(ok)
    BY <1>2 DEF Refused, HandsTypeOK, PrivdTypeOK, handsVars
  <1>3. CASE Abandoned(m, ok)
    BY <1>3 DEF Abandoned, HandsTypeOK, PrivdTypeOK
  <1>4. CASE Cut(m, ok)
    <2>1. Exec(m, TRUE)
      BY <1>4 DEF Cut
    <2>2. /\ child' \in Pids \cup {NoPid}
          /\ alive' \subseteq used'
          /\ used' \subseteq Pids
          /\ table' \in BOOLEAN
      BY <2>1, ExecType
    <2>3. crashes' \in 0..MaxCrashes
      BY <1>4 DEF Cut, HandsTypeOK, PrivdTypeOK
    <2>4. QED
      BY <1>4, <2>2, <2>3 DEF Cut, HandsTypeOK, PrivdTypeOK
  <1>5. QED
    BY <1>1, <1>2, <1>3, <1>4 DEF Request

LEMMA QueryType ==
    ASSUME HandsTypeOK, NEW ok \in BOOLEAN, Query(ok)
    PROVE  HandsTypeOK'
  BY HandsAssumption DEF Query, HandsTypeOK, PrivdTypeOK, privdVars

(* The messages the hands send are requests the helper knows. *)
LEMMA Messages ==
    /\ Msg("nft") \in Requests
    /\ Msg("nft_delete") \in Requests
    /\ Msg("daemon") \in Requests
    /\ \A p \in Pids : KillMsg(p) \in Requests
  BY DEF Msg, KillMsg, Requests

(* Every operation of the trait keeps the types. *)
LEMMA TraitType ==
    ASSUME HandsTypeOK, NEW ok \in BOOLEAN,
           NEW p \in Pids \cup {NoPid}, NEW ans
    PROVE  /\ Ping(ok) => HandsTypeOK'
           /\ RunNftScript(ok) => HandsTypeOK'
           /\ DeleteNftTable(ok) => HandsTypeOK'
           /\ RunDaemon(ok) => HandsTypeOK'
           /\ p \in Pids /\ Kill(p, ok) => HandsTypeOK'
           /\ IsRunning(p, ans) => HandsTypeOK'
           /\ StopStrays(ok) => HandsTypeOK'
           /\ DryRun(ok) => HandsTypeOK'
  <1>0. UNCHANGED handsVars => HandsTypeOK'
    BY DEF HandsTypeOK, PrivdTypeOK, handsVars
  <1>1. Ping(ok) => HandsTypeOK'
    BY <1>0, QueryType DEF Ping
  <1>2. RunNftScript(ok) => HandsTypeOK'
    BY <1>0, RequestType, Messages DEF RunNftScript
  <1>3. DeleteNftTable(ok) => HandsTypeOK'
    BY <1>0, RequestType, Messages DEF DeleteNftTable
  <1>4. RunDaemon(ok) => HandsTypeOK'
    <2>1. CASE OnWindows
      BY <2>1 DEF RunDaemon, OpDaemon, HandsTypeOK, PrivdTypeOK
    <2>2. CASE ~OnWindows
      BY <2>2, RequestType, Messages DEF RunDaemon
    <2>3. QED
      BY <2>1, <2>2
  <1>5. p \in Pids /\ Kill(p, ok) => HandsTypeOK'
    <2>1. CASE OnWindows
      BY <2>1 DEF Kill, HandsTypeOK, PrivdTypeOK
    <2>2. CASE ~OnWindows
      BY <2>2, RequestType, Messages DEF Kill
    <2>3. QED
      BY <2>1, <2>2
  <1>6. IsRunning(p, ans) => HandsTypeOK'
    BY <1>0, QueryType DEF IsRunning
  <1>7. StopStrays(ok) => HandsTypeOK'
    <2>1. StopStrays(ok) => spared' \in 0..MaxSpared /\ alive' \subseteq alive
      BY HandsAssumption DEF StopStrays, HandsTypeOK
    <2>2. QED
      BY <2>1 DEF StopStrays, HandsTypeOK, PrivdTypeOK
  <1>8. DryRun(ok) => HandsTypeOK'
    BY <1>0 DEF DryRun
  <1>9. QED
    BY <1>1, <1>2, <1>3, <1>4, <1>5, <1>6, <1>7, <1>8

-----------------------------------------------------------------------------
(* The steps of the helper and of the engines keep the types. *)
LEMMA PrivdNextType ==
    ASSUME HandsTypeOK, PrivdNext, UNCHANGED <<timeouts, spared>>
    PROVE  HandsTypeOK'
  <1> USE PrivdAssumption, HandsAssumption
  <1>1. CASE ExecLate
    <2>1. late \in Seq(Requests) /\ late # <<>>
      BY <1>1 DEF ExecLate, HandsTypeOK, PrivdTypeOK
    <2>2. Head(late) \in Requests /\ Tail(late) \in Seq(Requests)
      BY <2>1
    <2>3. PICK ok \in BOOLEAN : Exec(Head(late), ok)
      BY <1>1 DEF ExecLate
    <2>4. QED
      BY <1>1, <2>2, <2>3, ExecType DEF ExecLate, HandsTypeOK, PrivdTypeOK
  <1>2. CASE PrivdStart
    BY <1>2 DEF PrivdStart, HandsTypeOK, PrivdTypeOK
  <1>3. CASE PrivdDies
    BY <1>3 DEF PrivdDies, HandsTypeOK, PrivdTypeOK
  <1>4. CASE PrivdReplaced
    BY <1>4 DEF PrivdReplaced, HandsTypeOK, PrivdTypeOK
  <1>5. CASE \E p \in Pids : EngineExits(p)
    BY <1>5 DEF EngineExits, HandsTypeOK, PrivdTypeOK
  <1>6. QED
    BY <1>1, <1>2, <1>3, <1>4, <1>5 DEF PrivdNext

-----------------------------------------------------------------------------
(* What holds between the program counters, the mutex and the record.      *)

(* Labels at which a thread owns the mutex. *)
Critical == {"start_alive", "start_strays", "start_dry", "start_nft", "start_daemon",
             "start_undo", "start_store", "stop_kill"}

(* A thread at such a label owns the mutex and nobody else does; the record *)
(* is empty there, except while start asks whether the old engine lives;    *)
(* and a stop that is about to kill knows whom.                             *)
MutexInv ==
    /\ \A r \in Reqs : pc[r] \in Critical <=> lock = r
    /\ \A r \in Reqs : pc[r] \in Critical \ {"start_alive"} => record = NoPid
    /\ \A r \in Reqs : pc[r] = "start_alive" => record # NoPid
    /\ \A r \in Reqs : pc[r] = "stop_kill" => seen[r] # NoPid

(* Every step of a request thread keeps the types. *)
LEMMA ServeType ==
    ASSUME TypeOK, MutexInv, NEW r \in Reqs, Serve(r)
    PROVE  TypeOK'
  <1> USE DEF TypeOK, WsTypeOK, Labels, StartLabels, StopLabels, StatusLabels, Answers,
              At, Goto, Finish, Release, Acquire, OrFail
  <1>0. UNCHANGED handsVars => HandsTypeOK'
    BY DEF HandsTypeOK, PrivdTypeOK, handsVars
  <1>c. \A ok \in BOOLEAN, p \in Pids \cup {NoPid}, ans \in {"running", "dead", "error"} :
           /\ Ping(ok) => HandsTypeOK'
           /\ RunNftScript(ok) => HandsTypeOK'
           /\ DeleteNftTable(ok) => HandsTypeOK'
           /\ RunDaemon(ok) => HandsTypeOK'
           /\ p \in Pids /\ Kill(p, ok) => HandsTypeOK'
           /\ IsRunning(p, ans) => HandsTypeOK'
           /\ StopStrays(ok) => HandsTypeOK'
           /\ DryRun(ok) => HandsTypeOK'
    BY TraitType
  <1>1. CASE StartPing(r)
    BY <1>1, <1>c DEF StartPing
  <1>2. CASE StartPrepare(r)
    BY <1>2, <1>0 DEF StartPrepare
  <1>3. CASE StartLock(r)
    BY <1>3, <1>0 DEF StartLock
  <1>4. CASE StartAlive(r)
    BY <1>4, <1>c DEF StartAlive
  <1>5. CASE StartStrays(r)
    BY <1>5, <1>c DEF StartStrays
  <1>6. CASE StartDry(r)
    BY <1>6, <1>c DEF StartDry
  <1>7. CASE StartNft(r)
    BY <1>7, <1>c DEF StartNft
  <1>8. CASE StartDaemon(r)
    <2>1. HandsTypeOK'
      BY <1>8, <1>c DEF StartDaemon
    <2>2. child' \in Pids \cup {NoPid}
      BY <2>1 DEF HandsTypeOK, PrivdTypeOK
    <2>3. QED
      BY <1>8, <2>1, <2>2 DEF StartDaemon
  <1>9. CASE StartUndo(r)
    BY <1>9, <1>c DEF StartUndo
  <1>10. CASE StartStore(r)
    BY <1>10, <1>0 DEF StartStore
  <1>11. CASE StopPing(r)
    BY <1>11, <1>c DEF StopPing
  <1>12. CASE StopLock(r)
    BY <1>12, <1>0 DEF StopLock
  <1>13. CASE StopKill(r)
    <2>1. seen[r] \in Pids
      BY <1>13 DEF StopKill, MutexInv
    <2>2. HandsTypeOK'
      BY <1>13, <2>1, <1>c DEF StopKill
    <2>3. QED
      BY <1>13, <2>2 DEF StopKill
  <1>14. CASE StopDelete(r)
    BY <1>14, <1>c DEF StopDelete
  <1>15. CASE StatusRead(r)
    BY <1>15, <1>0 DEF StatusRead
  <1>16. CASE StatusPoll(r)
    BY <1>16, <1>c DEF StatusPoll
  <1>17. QED
    BY <1>1, <1>2, <1>3, <1>4, <1>5, <1>6, <1>7, <1>8, <1>9, <1>10, <1>11, <1>12, <1>13,
       <1>14, <1>15, <1>16 DEF Serve, Start, Stop, Status

(* ... and what holds around the mutex. *)
LEMMA ServeMutex ==
    ASSUME TypeOK, MutexInv, NEW r \in Reqs, Serve(r)
    PROVE  MutexInv'
  <1> USE WsAssumption
        DEF TypeOK, WsTypeOK, MutexInv, Critical, At, Goto, Finish, Release, Acquire, OrFail
  <1>1. CASE StartPing(r)
    BY <1>1 DEF StartPing
  <1>2. CASE StartPrepare(r)
    BY <1>2 DEF StartPrepare
  <1>3. CASE StartLock(r)
    BY <1>3 DEF StartLock
  <1>4. CASE StartAlive(r)
    BY <1>4 DEF StartAlive
  <1>5. CASE StartStrays(r)
    BY <1>5 DEF StartStrays
  <1>6. CASE StartDry(r)
    BY <1>6 DEF StartDry
  <1>7. CASE StartNft(r)
    BY <1>7 DEF StartNft
  <1>8. CASE StartDaemon(r)
    BY <1>8 DEF StartDaemon
  <1>9. CASE StartUndo(r)
    BY <1>9 DEF StartUndo
  <1>10. CASE StartStore(r)
    BY <1>10 DEF StartStore
  <1>11. CASE StopPing(r)
    BY <1>11 DEF StopPing
  <1>12. CASE StopLock(r)
    BY <1>12 DEF StopLock
  <1>13. CASE StopKill(r)
    BY <1>13 DEF StopKill
  <1>14. CASE StopDelete(r)
    BY <1>14 DEF StopDelete
  <1>15. CASE StatusRead(r)
    BY <1>15 DEF StatusRead
  <1>16. CASE StatusPoll(r)
    BY <1>16 DEF StatusPoll
  <1>17. QED
    BY <1>1, <1>2, <1>3, <1>4, <1>5, <1>6, <1>7, <1>8, <1>9, <1>10, <1>11, <1>12, <1>13,
       <1>14, <1>15, <1>16 DEF Serve, Start, Stop, Status

(* Types and mutex discipline are inductive together. *)
LEMMA TypeInductive ==
    ASSUME TypeOK, MutexInv, [Next]_vars
    PROVE  TypeOK' /\ MutexInv'
  <1>0. UNCHANGED handsVars => HandsTypeOK'
    BY DEF TypeOK, HandsTypeOK, PrivdTypeOK, handsVars
  <1>1. CASE \E r \in Reqs : Serve(r)
    BY <1>1, ServeType, ServeMutex
  <1>2. ASSUME NEW r \in Reqs, NEW kind \in Kinds, Arrive(r, kind)
        PROVE  TypeOK' /\ MutexInv'
    BY <1>2, <1>0, WsAssumption
       DEF Arrive, Entry, Kinds, TypeOK, WsTypeOK, MutexInv, Critical, At, Goto, Labels,
           StartLabels, StopLabels, StatusLabels, Answers
  <1>3. CASE CoreRestarts
    <2>1. WsTypeOK'
      BY <1>3, WsAssumption DEF CoreRestarts, TypeOK, WsTypeOK, Labels, Answers
    <2>2. MutexInv'
      BY <1>3, WsAssumption DEF CoreRestarts, MutexInv, Critical
    <2>3. QED
      BY <1>0, <1>3, <2>1, <2>2 DEF CoreRestarts, TypeOK
  <1>4. CASE Below
    <2>1. WsTypeOK' /\ MutexInv'
      BY <1>4 DEF Below, TypeOK, WsTypeOK, MutexInv, wsVars
    <2>2. HandsTypeOK'
      <3>1. CASE OnWindows
        BY <1>4, <3>1 DEF Below, EngineExits, TypeOK, HandsTypeOK, PrivdTypeOK
      <3>2. CASE ~OnWindows
        BY <1>4, <3>2, PrivdNextType DEF Below, TypeOK
      <3>3. QED
        BY <3>1, <3>2
    <2>3. QED
      BY <2>1, <2>2 DEF TypeOK
  <1>5. CASE UNCHANGED vars
    BY <1>0, <1>5 DEF vars, wsVars, TypeOK, WsTypeOK, MutexInv
  <1>6. QED
    BY <1>1, <1>2, <1>3, <1>4, <1>5 DEF Next

LEMMA TypeInitial ==
    ASSUME Init
    PROVE  TypeOK /\ MutexInv
  <1>1. PrivdTypeOK
    <2>1. late \in Seq(Requests)
      BY DEF Init, HandsInit, PrivdInit
    <2>2. crashes \in 0..MaxCrashes
      BY PrivdAssumption DEF Init, HandsInit, PrivdInit
    <2>3. QED
      BY <2>1, <2>2 DEF Init, HandsInit, PrivdInit, PrivdTypeOK
  <1>2. timeouts \in 0..MaxTimeouts /\ spared \in 0..MaxSpared
    BY HandsAssumption DEF Init, HandsInit
  <1>3. WsTypeOK
    BY WsAssumption DEF Init, WsTypeOK, Labels, Answers
  <1>4. MutexInv
    BY WsAssumption DEF Init, MutexInv, Critical
  <1>5. QED
    BY <1>1, <1>2, <1>3, <1>4 DEF TypeOK, HandsTypeOK

(* Type correctness of the whole system: server threads, record, helper,   *)
(* engines, kernel table and abandoned requests.                           *)
THEOREM TypeCorrect == Spec => []TypeOK
  <1>1. Init => TypeOK /\ MutexInv
    BY TypeInitial
  <1>2. TypeOK /\ MutexInv /\ [Next]_vars => TypeOK' /\ MutexInv'
    BY TypeInductive
  <1>3. QED
    BY <1>1, <1>2, PTL DEF Spec

(* The mutex discipline of the handlers: no early return keeps the mutex,  *)
(* no step between taking and dropping it runs without it.                 *)
THEOREM MutexDiscipline == Spec => []MutexInv
  <1>1. Init => TypeOK /\ MutexInv
    BY TypeInitial
  <1>2. TypeOK /\ MutexInv /\ [Next]_vars => TypeOK' /\ MutexInv'
    BY TypeInductive
  <1>3. QED
    BY <1>1, <1>2, PTL DEF Spec
-----------------------------------------------------------------------------
(* At most one engine.                                                     *)

(* Without faults nothing was abandoned, and whatever runs is the child of *)
(* a helper that is up, so that kill and status go to the right process.   *)
UnixInv ==
    (~OnWindows /\ NoFault) =>
        /\ late = <<>>
        /\ alive # {} => privd = "up" /\ alive = {child}

(* Between stop_strays and the spawn only what a sweep has spared runs. *)
AfterStrays == {"start_dry", "start_nft", "start_daemon", "start_undo"}

WindowsInv ==
    OnWindows =>
        /\ IsFiniteSet(alive) /\ Cardinality(alive) <= 1 + spared
        /\ \A r \in Reqs : pc[r] \in AfterStrays => Cardinality(alive) <= spared

EngineInv == TypeOK /\ MutexInv /\ UnixInv /\ NoOrphan /\ WindowsInv

(* The bounds' counters only grow, so a fault is never forgotten. *)
LEMMA FaultsStay ==
    ASSUME TypeOK, MutexInv, [Next]_vars, NoFault'
    PROVE  NoFault
  <1>0. /\ timeouts \in Nat /\ timeouts' = 0 /\ crashes \in Nat /\ crashes' = 0
        /\ restarts \in Nat /\ restarts' = 0
    BY PrivdAssumption, HandsAssumption, WsAssumption
       DEF NoFault, TypeOK, HandsTypeOK, PrivdTypeOK, WsTypeOK
  <1>1. ASSUME timeouts' = timeouts \/ timeouts' = timeouts + 1,
               crashes' = crashes \/ crashes' = crashes + 1,
               restarts' = restarts \/ restarts' = restarts + 1
        PROVE  NoFault
    BY <1>0, <1>1 DEF NoFault
  <1>2. \A m : \A ok \in BOOLEAN : Request(m, ok) =>
           /\ timeouts' = timeouts \/ timeouts' = timeouts + 1
           /\ crashes' = crashes \/ crashes' = crashes + 1
    BY DEF Request, Answered, Refused, Abandoned, Cut, handsVars
  <1>3. \A ok \in BOOLEAN : Query(ok) =>
           /\ timeouts' = timeouts \/ timeouts' = timeouts + 1
           /\ crashes' = crashes
    BY DEF Query, privdVars
  <1>4. \A p, ans : \A ok \in BOOLEAN :
          Ping(ok) \/ RunNftScript(ok) \/ DeleteNftTable(ok) \/ RunDaemon(ok) \/ Kill(p, ok)
            \/ IsRunning(p, ans) \/ StopStrays(ok) \/ DryRun(ok) \/ UNCHANGED handsVars =>
              /\ timeouts' = timeouts \/ timeouts' = timeouts + 1
              /\ crashes' = crashes \/ crashes' = crashes + 1
    BY <1>2, <1>3 DEF Ping, RunNftScript, DeleteNftTable, RunDaemon, Kill, IsRunning,
         StopStrays, DryRun, handsVars
  <1>5. ASSUME NEW r \in Reqs, Serve(r) PROVE NoFault
    <2>1. restarts' = restarts
      BY <1>5 DEF Serve, Start, Stop, Status, StartPing, StartPrepare, StartLock, StartAlive,
           StartStrays, StartDry, StartNft, StartDaemon, StartUndo, StartStore, StopPing,
           StopLock, StopKill, StopDelete, StatusRead, StatusPoll
    <2>2. /\ timeouts' = timeouts \/ timeouts' = timeouts + 1
          /\ crashes' = crashes \/ crashes' = crashes + 1
      BY <1>4, <1>5 DEF Serve, Start, Stop, Status, StartPing, StartPrepare, StartLock,
           StartAlive, StartStrays, StartDry, StartNft, StartDaemon, StartUndo, StartStore,
           StopPing, StopLock, StopKill, StopDelete, StatusRead, StatusPoll
    <2>3. QED
      BY <1>1, <2>1, <2>2
  <1>6. ASSUME NEW r \in Reqs, NEW kind \in Kinds, Arrive(r, kind) PROVE NoFault
    BY <1>1, <1>6 DEF Arrive, handsVars
  <1>7. CASE CoreRestarts
    BY <1>1, <1>7 DEF CoreRestarts, handsVars
  <1>8. CASE Below
    BY <1>1, <1>8 DEF Below, wsVars, PrivdNext, ExecLate, PrivdStart, PrivdDies, PrivdReplaced,
         EngineExits
  <1>9. CASE UNCHANGED vars
    BY <1>1, <1>9 DEF vars, handsVars, wsVars
  <1>10. QED
    BY <1>5, <1>6, <1>7, <1>8, <1>9 DEF Next

(* Without faults, an operation other than a spawn or a kill leaves the    *)
(* helper's world as it is, and a spawn adds exactly the reported engine.  *)
LEMMA QuietHands ==
    ASSUME TypeOK, ~OnWindows, NoFault, NoFault', late = <<>>, NEW ok \in BOOLEAN,
           NEW p, NEW ans
    PROVE  /\ Ping(ok) \/ RunNftScript(ok) \/ DeleteNftTable(ok) \/ IsRunning(p, ans)
                \/ StopStrays(ok) \/ DryRun(ok) \/ RunDaemon(FALSE) \/ UNCHANGED handsVars =>
                    UNCHANGED <<privd, child, alive, late>>
           /\ RunDaemon(TRUE) => /\ privd = "up"
                                 /\ UNCHANGED <<privd, late>>
                                 /\ alive' = alive \cup {child'}
  <1>1. timeouts = 0 /\ timeouts' = 0 /\ crashes = 0 /\ crashes' = 0
    BY DEF NoFault
  <1>2. \A m : \A b \in BOOLEAN : Request(m, b) => (Answered(m, b) \/ UNCHANGED handsVars)
    BY <1>1 DEF Request, Refused, Abandoned, Cut
  <1>3. Query(ok) => UNCHANGED <<privd, child, alive, late>>
    BY DEF Query, privdVars
  <1>4. RunNftScript(ok) => UNCHANGED <<privd, child, alive, late>>
    BY <1>2 DEF RunNftScript, Answered, Exec, Msg, OpNft, handsVars
  <1>5. DeleteNftTable(ok) => UNCHANGED <<privd, child, alive, late>>
    BY <1>2 DEF DeleteNftTable, Answered, Exec, Msg, OpNftDelete, handsVars
  <1>6. RunDaemon(FALSE) => UNCHANGED <<privd, child, alive, late>>
    <2>1. Request(Msg("daemon"), FALSE) => (Answered(Msg("daemon"), FALSE) \/ UNCHANGED handsVars)
      BY <1>2
    <2>2. QED
      BY <2>1 DEF RunDaemon, Answered, Exec, Msg, OpDaemon, handsVars
  <1>7. RunDaemon(TRUE) => /\ privd = "up"
                           /\ UNCHANGED <<privd, late>>
                           /\ alive' = alive \cup {child'}
    <2>1. Request(Msg("daemon"), TRUE) => Answered(Msg("daemon"), TRUE)
      BY DEF Request, Refused, Abandoned, Cut
    <2>2. QED
      BY <2>1 DEF RunDaemon, Answered, Exec, Msg, OpDaemon
  <1>8. Ping(ok) \/ IsRunning(p, ans) => UNCHANGED <<privd, child, alive, late>>
    <2>1. Query(TRUE) \/ Query(FALSE) => UNCHANGED <<privd, child, alive, late>>
      BY DEF Query, privdVars
    <2>2. QED
      BY <2>1, <1>3 DEF Ping, IsRunning, handsVars
  <1>9. QED
    BY <1>4, <1>5, <1>6, <1>7, <1>8 DEF StopStrays, DryRun, handsVars
(* A step of a request thread, outside Windows and without faults. *)
LEMMA ServeUnix ==
    ASSUME EngineInv, ~OnWindows, NoFault, NoFault', NEW r \in Reqs, Serve(r)
    PROVE  UnixInv' /\ NoOrphan'
  <1> USE WsAssumption
        DEF EngineInv, UnixInv, NoOrphan, TypeOK, WsTypeOK, MutexInv, Critical, At, Goto, Finish,
            Release, Acquire, OrFail
  (* A step that changes neither the helper's world nor who accounts for it. *)
  <1>q. ASSUME UNCHANGED <<privd, child, alive, late>>, record' = record \/ record \notin alive,
               \A q \in Reqs : lock = q /\ pc[q] \in {"start_store", "stop_kill"} =>
                                   lock' = q /\ pc'[q] = pc[q] /\ seen'[q] = seen[q]
        PROVE  UnixInv' /\ NoOrphan'
    BY <1>q
  <1>n. NoPid \notin alive
    BY PrivdAssumption DEF HandsTypeOK, PrivdTypeOK
  (* What runs is the record, or what the owner of the mutex is about. *)
  <1>a. \A p \in alive : p = record \/ (lock \in Reqs /\ seen[lock] = p
                                        /\ pc[lock] \in {"start_store", "stop_kill"})
    OBVIOUS
  <1>h. \A p, ans : \A ok \in BOOLEAN :
          Ping(ok) \/ RunNftScript(ok) \/ DeleteNftTable(ok) \/ IsRunning(p, ans)
             \/ StopStrays(ok) \/ DryRun(ok) \/ RunDaemon(FALSE) \/ UNCHANGED handsVars =>
                 UNCHANGED <<privd, child, alive, late>>
    BY QuietHands
  <1>1. CASE StartPing(r)
    BY <1>1, <1>q, <1>h DEF StartPing
  <1>2. CASE StartPrepare(r)
    BY <1>2, <1>q, <1>h DEF StartPrepare
  <1>3. CASE StartLock(r)
    BY <1>3, <1>q, <1>h DEF StartLock
  <1>4. CASE StartAlive(r)
    <2>1. UNCHANGED <<privd, child, alive, late>>
      BY <1>4, <1>h DEF StartAlive
    <2>2. IsRunning(record, "dead") => record \notin alive
      BY DEF IsRunning, OpStatus
    <2>3. QED
      BY <1>4, <2>1, <2>2, <1>q DEF StartAlive
  <1>5. CASE StartStrays(r)
    BY <1>5, <1>q, <1>h DEF StartStrays
  <1>6. CASE StartDry(r)
    BY <1>6, <1>q, <1>h DEF StartDry
  <1>7. CASE StartNft(r)
    BY <1>7, <1>q, <1>h DEF StartNft
  <1>8. CASE StartDaemon(r)
    <2>1. alive = {}
      BY <1>8, <1>a, <1>n DEF StartDaemon
    <2>2. CASE RunDaemon(TRUE)
      <3>1. /\ privd = "up"
            /\ UNCHANGED <<privd, late>>
            /\ alive' = {child'}
        BY <2>1, <2>2, QuietHands
      <3>2. lock' = r /\ pc'[r] = "start_store" /\ seen'[r] = child'
        BY <1>8, <2>1, <3>1, <1>h DEF StartDaemon
      <3>3. QED
        BY <3>1, <3>2
    <2>3. CASE ~RunDaemon(TRUE)
      BY <1>8, <2>1, <2>3, <1>h DEF StartDaemon
    <2>4. QED
      BY <2>2, <2>3
  <1>9. CASE StartUndo(r)
    BY <1>9, <1>q, <1>h DEF StartUndo
  <1>10. CASE StartStore(r)
    <2>1. \A p \in alive : p = seen[r]
      BY <1>10, <1>a, <1>n DEF StartStore
    <2>2. record' = seen[r] /\ UNCHANGED <<privd, child, alive, late>>
      BY <1>10, <1>h DEF StartStore
    <2>3. QED
      BY <2>1, <2>2
  <1>11. CASE StopPing(r)
    BY <1>11, <1>q, <1>h DEF StopPing
  <1>12. CASE StopLock(r)
    <2>1. UNCHANGED <<privd, child, alive, late>>
      BY <1>12, <1>h DEF StopLock
    <2>2. \A p \in alive : p = record
      BY <1>12, <1>a DEF StopLock
    <2>3. CASE record = NoPid
      BY <2>1, <2>2, <2>3, <1>n
    <2>4. CASE record # NoPid
      <3>1. lock' = r /\ pc'[r] = "stop_kill" /\ seen'[r] = record
        BY <1>12, <2>4 DEF StopLock
      <3>2. QED
        BY <2>1, <2>2, <3>1
    <2>5. QED
      BY <2>3, <2>4
  <1>13. CASE StopKill(r)
    <2>1. alive \subseteq {seen[r]} /\ record = NoPid
      BY <1>13, <1>a, <1>n DEF StopKill
    <2>2. PICK ok \in BOOLEAN : Kill(seen[r], ok)
      BY <1>13 DEF StopKill
    <2>3. late' = <<>> /\ alive' = {}
      BY <2>1, <2>2 DEF Kill, Request, Answered, Refused, Abandoned, Cut, Exec, KillMsg, OpKill,
           NoFault, handsVars
    <2>4. QED
      BY <2>3
  <1>14. CASE StopDelete(r)
    BY <1>14, <1>q, <1>h DEF StopDelete
  <1>15. CASE StatusRead(r)
    BY <1>15, <1>q, <1>h DEF StatusRead
  <1>16. CASE StatusPoll(r)
    BY <1>16, <1>q, <1>h DEF StatusPoll
  <1>17. QED
    BY <1>1, <1>2, <1>3, <1>4, <1>5, <1>6, <1>7, <1>8, <1>9, <1>10, <1>11, <1>12, <1>13,
       <1>14, <1>15, <1>16 DEF Serve, Start, Stop, Status
LEMMA OneMore ==
    ASSUME NEW S, IsFiniteSet(S), NEW e, NEW n \in Nat, Cardinality(S) <= n
    PROVE  IsFiniteSet(S \cup {e}) /\ Cardinality(S \cup {e}) <= 1 + n
  <1>1. Cardinality(S) \in Nat
    BY FS_CardinalityType
  <1>2. /\ IsFiniteSet(S \cup {e})
        /\ Cardinality(S \cup {e}) = IF e \in S THEN Cardinality(S) ELSE Cardinality(S) + 1
    BY FS_AddElement
  <1>3. QED
    BY <1>1, <1>2

(* Engines that exit or are killed leave no more than there were. *)
LEMMA FewerEngines ==
    ASSUME EngineInv, OnWindows, alive' \subseteq alive
    PROVE  /\ IsFiniteSet(alive') /\ Cardinality(alive') <= Cardinality(alive)
           /\ Cardinality(alive') \in Nat /\ Cardinality(alive) \in Nat
  <1>1. IsFiniteSet(alive)
    BY DEF EngineInv, WindowsInv
  <1>2. QED
    BY <1>1, FS_Subset, FS_CardinalityType

(* A step of a request thread on Windows. *)
LEMMA ServeWindows ==
    ASSUME EngineInv, OnWindows, NEW r \in Reqs, Serve(r)
    PROVE  WindowsInv'
  <1> USE WsAssumption
        DEF EngineInv, WindowsInv, AfterStrays, TypeOK, WsTypeOK, MutexInv, Critical, At, Goto,
            Finish, Release, Acquire, OrFail
  <1>n. spared \in Nat
    BY HandsAssumption DEF HandsTypeOK
  <1>q. ASSUME alive' \subseteq alive, spared' = spared,
               \A q \in Reqs : pc'[q] \in AfterStrays => pc[q] \in AfterStrays
        PROVE  WindowsInv'
    BY <1>q, <1>n, FewerEngines
  <1>h. \A p, ans : \A ok \in BOOLEAN :
          /\ Ping(ok) \/ RunNftScript(ok) \/ DeleteNftTable(ok) \/ IsRunning(p, ans)
               \/ DryRun(ok) \/ RunDaemon(FALSE) \/ UNCHANGED handsVars =>
                   alive' = alive /\ spared' = spared
          /\ Kill(p, ok) => alive' \subseteq alive /\ spared' = spared
          /\ RunDaemon(TRUE) => alive' = alive \cup {child'} /\ spared' = spared
    BY DEF Ping, RunNftScript, DeleteNftTable, IsRunning, DryRun, RunDaemon, OpDaemon, Kill,
       handsVars
  <1>1. CASE StartPing(r)
    BY <1>1, <1>q, <1>h DEF StartPing
  <1>2. CASE StartPrepare(r)
    BY <1>2, <1>q, <1>h DEF StartPrepare
  <1>3. CASE StartLock(r)
    BY <1>3, <1>q, <1>h DEF StartLock
  <1>4. CASE StartAlive(r)
    BY <1>4, <1>q, <1>h DEF StartAlive
  <1>5. CASE StartStrays(r)
    <2>1. PICK ok \in BOOLEAN : StopStrays(ok) /\ OrFail(r, "start_dry", ok)
      BY <1>5 DEF StartStrays
    <2>2. alive' \subseteq alive
      BY <2>1 DEF StopStrays
    <2>3. lock = r /\ \A q \in Reqs : pc[q] \in AfterStrays => FALSE
      BY <1>5 DEF StartStrays
    <2>4. CASE spared' = spared + 1
      BY <1>n, <2>2, <2>4, FewerEngines
    <2>5. CASE spared' = spared /\ ok
      <3>1. alive' = {}
        BY <2>1, <2>5, <1>n DEF StopStrays
      <3>2. QED
        BY <2>5, <3>1, <1>n, FS_EmptySet
    <2>6. CASE spared' = spared /\ ~ok
      <3>1. \A q \in Reqs : pc'[q] \in AfterStrays => pc[q] \in AfterStrays
        BY <2>1, <2>6
      <3>2. QED
        BY <2>2, <2>6, <3>1, <1>q
    <2>7. QED
      BY <2>1, <2>4, <2>5, <2>6 DEF StopStrays
  <1>6. CASE StartDry(r)
    BY <1>6, <1>q, <1>h DEF StartDry
  <1>7. CASE StartNft(r)
    BY <1>7, <1>q, <1>h DEF StartNft
  <1>8. CASE StartDaemon(r)
    <2>1. /\ IsFiniteSet(alive) /\ Cardinality(alive) <= spared
          /\ lock = r /\ \A q \in Reqs : pc[q] \in AfterStrays => q = r
      BY <1>8 DEF StartDaemon
    <2>2. CASE RunDaemon(TRUE) /\ Goto(r, "start_store")
      <3>1. /\ IsFiniteSet(alive') /\ spared' = spared
            /\ Cardinality(alive') <= 1 + spared
        <4>1. alive' = alive \cup {child'} /\ spared' = spared
          BY <2>2, <1>h
        <4>2. QED
          BY ONLY <1>n, <2>1, <4>1, OneMore
      <3>2. \A q \in Reqs : pc'[q] \notin AfterStrays
        BY <2>1, <2>2
      <3>3. QED
        BY <3>1, <3>2
    <2>3. CASE RunDaemon(FALSE)
      BY <2>1, <2>3, <1>h
    <2>4. QED
      BY <1>8, <2>2, <2>3 DEF StartDaemon
  <1>9. CASE StartUndo(r)
    BY <1>9, <1>q, <1>h DEF StartUndo
  <1>10. CASE StartStore(r)
    BY <1>10, <1>q, <1>h DEF StartStore
  <1>11. CASE StopPing(r)
    BY <1>11, <1>q, <1>h DEF StopPing
  <1>12. CASE StopLock(r)
    BY <1>12, <1>q, <1>h DEF StopLock
  <1>13. CASE StopKill(r)
    <2>1. PICK ok \in BOOLEAN : Kill(seen[r], ok)
      BY <1>13 DEF StopKill
    <2>2. alive' \subseteq alive /\ spared' = spared
      BY <2>1, Zenon DEF Kill
    <2>3. \A q \in Reqs : pc'[q] \in AfterStrays => pc[q] \in AfterStrays
      BY <1>13 DEF StopKill
    <2>4. QED
      BY <2>2, <2>3, <1>q
  <1>14. CASE StopDelete(r)
    BY <1>14, <1>q, <1>h DEF StopDelete
  <1>15. CASE StatusRead(r)
    BY <1>15, <1>q, <1>h DEF StatusRead
  <1>16. CASE StatusPoll(r)
    BY <1>16, <1>q, <1>h DEF StatusPoll
  <1>17. QED
    BY <1>1, <1>2, <1>3, <1>4, <1>5, <1>6, <1>7, <1>8, <1>9, <1>10, <1>11, <1>12, <1>13,
       <1>14, <1>15, <1>16 DEF Serve, Start, Stop, Status

(* Steps below the server, outside Windows and without faults. *)
LEMMA BelowUnix ==
    ASSUME EngineInv, ~OnWindows, NoFault, NoFault', Below
    PROVE  UnixInv' /\ NoOrphan'
  <1> USE DEF EngineInv, UnixInv, NoOrphan, Below, wsVars
  <1>1. CASE ExecLate
    BY <1>1 DEF ExecLate
  <1>2. CASE PrivdStart
    BY <1>2 DEF PrivdStart
  <1>3. CASE PrivdDies \/ PrivdReplaced
    BY <1>3 DEF PrivdDies, PrivdReplaced, NoFault
  <1>4. CASE \E p \in Pids : EngineExits(p)
    BY <1>4 DEF EngineExits
  <1>5. QED
    BY <1>1, <1>2, <1>3, <1>4 DEF PrivdNext

(* The engine invariant is inductive. *)
LEMMA EngineInductive ==
    ASSUME EngineInv, [Next]_vars
    PROVE  EngineInv'
  <1>1. TypeOK' /\ MutexInv'
    BY TypeInductive DEF EngineInv
  <1>2. ASSUME ~OnWindows, NoFault'
        PROVE  UnixInv' /\ NoOrphan'
    <2>1. NoFault
      BY <1>2, FaultsStay DEF EngineInv
    <2>2. CASE \E r \in Reqs : Serve(r)
      BY <1>2, <2>1, <2>2, ServeUnix
    <2>3. ASSUME NEW r \in Reqs, NEW kind \in Kinds, Arrive(r, kind)
          PROVE  UnixInv' /\ NoOrphan'
      BY <1>2, <2>1, <2>3
         DEF Arrive, Entry, At, Goto, EngineInv, UnixInv, NoOrphan, handsVars, TypeOK, WsTypeOK,
             MutexInv, Critical
    <2>4. CASE CoreRestarts
      BY <1>2, <2>1, <2>4, WsAssumption DEF CoreRestarts, NoFault
    <2>5. CASE Below
      BY <1>2, <2>1, <2>5, BelowUnix
    <2>6. CASE UNCHANGED vars
      BY <1>2, <2>1, <2>6 DEF vars, handsVars, wsVars, EngineInv, UnixInv, NoOrphan
    <2>7. QED
      BY <2>2, <2>3, <2>4, <2>5, <2>6 DEF Next
  <1>3. ASSUME OnWindows
        PROVE  WindowsInv'
    <2>2. CASE \E r \in Reqs : Serve(r)
      BY <1>3, <2>2, ServeWindows
    <2>3. ASSUME NEW r \in Reqs, NEW kind \in Kinds, Arrive(r, kind)
          PROVE  WindowsInv'
      <3>1. pc'[r] \notin AfterStrays /\ \A q \in Reqs \ {r} : pc'[q] = pc[q]
        <4>1. pc \in [Reqs -> Labels]
          BY DEF EngineInv, TypeOK, WsTypeOK
        <4>2. Entry[kind] \in {"start_ping", "stop_ping", "status_read"}
          BY DEF Entry, Kinds
        <4>3. QED
          BY <2>3, <4>1, <4>2 DEF Arrive, Entry, Goto, AfterStrays
      <3>2. alive' = alive
        BY <2>3 DEF Arrive, handsVars
      <3>3. QED
        BY <2>3, <3>1, <3>2 DEF EngineInv, WindowsInv, Arrive, handsVars
    <2>4. CASE CoreRestarts
      BY <1>3, <2>4 DEF CoreRestarts, EngineInv, WindowsInv, AfterStrays, handsVars
    <2>5. CASE Below
      <3>1. alive' \subseteq alive /\ spared' = spared /\ pc' = pc
        BY <1>3, <2>5 DEF Below, EngineExits, wsVars
      <3>2. spared \in Nat
        BY HandsAssumption DEF EngineInv, TypeOK, HandsTypeOK
      <3>3. QED
        BY <1>3, <3>1, <3>2, FewerEngines DEF EngineInv, WindowsInv
    <2>6. CASE UNCHANGED vars
      BY <1>3, <2>6 DEF vars, handsVars, wsVars, EngineInv, WindowsInv, AfterStrays
    <2>7. QED
      BY <2>2, <2>3, <2>4, <2>5, <2>6 DEF Next
  <1>4. QED
    BY <1>1, <1>2, <1>3 DEF EngineInv, UnixInv, NoOrphan, WindowsInv

LEMMA EngineInvariant == Spec => []EngineInv
  <1>1. Init => EngineInv
    <2>1. Init => WindowsInv
      <3>1. Init => alive = {} /\ spared = 0
        BY DEF Init, HandsInit, PrivdInit
      <3>2. IsFiniteSet({}) /\ Cardinality({}) = 0
        BY FS_EmptySet
      <3>3. Init => Cardinality(alive) = 0 /\ IsFiniteSet(alive)
        BY <3>1, <3>2
      <3>4. QED
        BY <3>1, <3>3 DEF WindowsInv
    <2>2. QED
      BY <2>1, TypeInitial DEF EngineInv, UnixInv, NoOrphan, Init, HandsInit, PrivdInit
  <1>2. EngineInv /\ [Next]_vars => EngineInv'
    BY EngineInductive
  <1>3. QED
    BY <1>1, <1>2, PTL DEF Spec

(* Two engines never run at once, for any number of parallel starts and    *)
(* stops: as long as no request timed out and no process died; on Windows  *)
(* even then, and each sweep that leaves an engine alive adds one at most. *)
THEOREM AtMostOneEngine == Spec => []OneEngine
  <1>1. EngineInv => OneEngine
    BY DEF EngineInv, UnixInv, WindowsInv, OneEngine
  <1>2. QED
    BY <1>1, EngineInvariant, PTL

(* Without faults no engine escapes the record. *)
THEOREM EnginesAccountedFor == Spec => []NoOrphan
  <1>1. EngineInv => NoOrphan
    BY DEF EngineInv
  <1>2. QED
    BY <1>1, EngineInvariant, PTL

-----------------------------------------------------------------------------
(* A stop ends the engine it took.                                         *)

(* Identifiers are not used twice: what the record or a thread names was   *)
(* handed out, so a fresh engine is never the one a stop has killed. Once  *)
(* a stop is past its kill, the engine it took from the record is gone.    *)
StopInv ==
    (~OnWindows /\ NoFault) =>
        /\ record \in used \cup {NoPid}
        /\ \A r \in Reqs : seen[r] \in used \cup {NoPid}
        /\ \A r \in Reqs : pc[r] = "stop_delete" => seen[r] \notin alive

(* No call of the hands takes an identifier back, and an engine that was   *)
(* not there before has a fresh one; a success reports it.                 *)
LEMMA FreshPids ==
    ASSUME TypeOK, ~OnWindows, NoFault, NoFault', late = <<>>, NEW ok \in BOOLEAN,
           NEW p, NEW ans
    PROVE  Ping(ok) \/ RunNftScript(ok) \/ DeleteNftTable(ok) \/ IsRunning(p, ans)
             \/ StopStrays(ok) \/ DryRun(ok) \/ RunDaemon(ok) \/ Kill(p, ok)
             \/ UNCHANGED handsVars =>
                /\ used \subseteq used'
                /\ alive' \cap used \subseteq alive
                /\ RunDaemon(TRUE) => child' \in used'
  <1>1. timeouts = 0 /\ timeouts' = 0 /\ crashes = 0 /\ crashes' = 0
    BY DEF NoFault
  <1>2. \A m : Request(m, ok) => (Answered(m, ok) \/ UNCHANGED handsVars)
    BY <1>1 DEF Request, Refused, Abandoned, Cut
  <1>3. \A m : Exec(m, ok) => used \subseteq used' /\ alive' \cap used \subseteq alive
    BY DEF Exec, OpNft, OpNftDelete, OpDaemon, OpKill
  <1>4. \A m : Request(m, ok) => used \subseteq used' /\ alive' \cap used \subseteq alive
    BY <1>2, <1>3 DEF Answered, handsVars
  <1>5. RunDaemon(TRUE) => child' \in used'
    <2>1. Request(Msg("daemon"), TRUE) => Answered(Msg("daemon"), TRUE)
      BY DEF Request, Refused, Abandoned, Cut
    <2>2. QED
      BY <2>1 DEF RunDaemon, Answered, Exec, Msg, OpDaemon
  <1>6. \A b \in BOOLEAN : Query(b) => used' = used /\ alive' = alive
    BY DEF Query, privdVars
  <1>7. Ping(ok) \/ IsRunning(p, ans) => used' = used /\ alive' = alive
    BY <1>6 DEF Ping, IsRunning
  <1>8. QED
    BY <1>4, <1>5, <1>7 DEF RunNftScript, DeleteNftTable, RunDaemon, Kill, StopStrays, DryRun,
       handsVars

(* The same of every step of the system. *)
LEMMA StepIsFresh ==
    ASSUME EngineInv, ~OnWindows, NoFault, NoFault', [Next]_vars
    PROVE  used \subseteq used' /\ alive' \cap used \subseteq alive
  <1> TypeOK /\ late = <<>>
    BY DEF EngineInv, UnixInv
  <1>h. \A p, ans : \A ok \in BOOLEAN :
          Ping(ok) \/ RunNftScript(ok) \/ DeleteNftTable(ok) \/ IsRunning(p, ans)
             \/ StopStrays(ok) \/ DryRun(ok) \/ RunDaemon(ok) \/ Kill(p, ok)
             \/ UNCHANGED handsVars =>
                used \subseteq used' /\ alive' \cap used \subseteq alive
    BY FreshPids
  <1>1. ASSUME NEW r \in Reqs, Serve(r)
        PROVE  used \subseteq used' /\ alive' \cap used \subseteq alive
    BY <1>1, <1>h DEF Serve, Start, Stop, Status, StartPing, StartPrepare, StartLock, StartAlive,
       StartStrays, StartDry, StartNft, StartDaemon, StartUndo, StartStore, StopPing, StopLock,
       StopKill, StopDelete, StatusRead, StatusPoll
  <1>2. ASSUME NEW r \in Reqs, NEW kind \in Kinds, Arrive(r, kind)
        PROVE  used \subseteq used' /\ alive' \cap used \subseteq alive
    BY <1>2, <1>h DEF Arrive
  <1>3. CASE CoreRestarts
    BY <1>3, <1>h DEF CoreRestarts
  <1>4. CASE Below
    BY <1>4 DEF Below, PrivdNext, ExecLate, PrivdStart, PrivdDies, PrivdReplaced, EngineExits
  <1>5. CASE UNCHANGED vars
    BY <1>5 DEF vars, handsVars
  <1>6. QED
    BY <1>1, <1>2, <1>3, <1>4, <1>5 DEF Next

(* Without faults nothing runs when the kill of a stop has come back. *)
LEMMA KillEndsAll ==
    ASSUME EngineInv, ~OnWindows, NoFault, NoFault', NEW r \in Reqs, StopKill(r)
    PROVE  alive' = {}
  <1> USE DEF EngineInv, UnixInv, NoOrphan, MutexInv, Critical, At
  <1>1. NoPid \notin alive
    BY PrivdAssumption DEF TypeOK, HandsTypeOK, PrivdTypeOK
  <1>2. alive \subseteq {seen[r]}
    BY <1>1 DEF StopKill
  <1>3. PICK ok \in BOOLEAN : Kill(seen[r], ok)
    BY DEF StopKill
  <1>4. QED
    BY <1>2, <1>3 DEF Kill, Request, Answered, Refused, Abandoned, Cut, Exec, KillMsg, OpKill,
       NoFault, handsVars

LEMMA ServeStop ==
    ASSUME EngineInv, StopInv, ~OnWindows, NoFault, NoFault', NEW r \in Reqs, Serve(r)
    PROVE  StopInv'
  <1> USE DEF At, Goto, Finish, Release, Acquire, OrFail
  <1>1. used \subseteq used' /\ alive' \cap used \subseteq alive
    BY StepIsFresh DEF Next
  <1>2. /\ pc \in [Reqs -> Labels] /\ seen \in [Reqs -> Pids \cup {NoPid}]
        /\ NoPid \notin alive /\ late = <<>>
    BY PrivdAssumption DEF EngineInv, UnixInv, TypeOK, WsTypeOK, HandsTypeOK, PrivdTypeOK
  <1>3. NoPid \notin alive'
    BY TypeInductive, PrivdAssumption
       DEF EngineInv, TypeOK, WsTypeOK, HandsTypeOK, PrivdTypeOK, Next
  (* A step that takes no thread to the end of a stop. *)
  <1>q. ASSUME record' \in used' \cup {NoPid}, seen'[r] \in used' \cup {NoPid},
               \A q \in Reqs \ {r} : pc'[q] = pc[q] /\ seen'[q] = seen[q],
               pc'[r] = "stop_delete" => seen'[r] \notin alive'
        PROVE  StopInv'
    BY <1>q, <1>1, <1>3 DEF StopInv
  <1>4. CASE StartPing(r) \/ StartPrepare(r) \/ StartLock(r) \/ StartStrays(r) \/ StartDry(r)
             \/ StartNft(r) \/ StartUndo(r) \/ StopPing(r) \/ StopDelete(r) \/ StatusPoll(r)
    BY <1>4, <1>1, <1>2, <1>q DEF StopInv, StartPing, StartPrepare, StartLock, StartStrays,
       StartDry, StartNft, StartUndo, StopPing, StopDelete, StatusPoll
  <1>5. CASE StartAlive(r)
    BY <1>5, <1>1, <1>2, <1>q DEF StopInv, StartAlive
  <1>6. CASE StartDaemon(r)
    <2>1. RunDaemon(TRUE) => child' \in used'
      BY <1>2, FreshPids DEF EngineInv
    <2>2. /\ record' = record
          /\ \/ seen' = [seen EXCEPT ![r] = child'] /\ RunDaemon(TRUE)
             \/ seen' = seen
      BY <1>6 DEF StartDaemon
    <2>3. pc' \in {[pc EXCEPT ![r] = l] : l \in {"start_store", "start_undo"}}
      BY <1>6 DEF StartDaemon
    <2>4. QED
      BY <2>1, <2>2, <2>3, <1>1, <1>2, <1>q DEF StopInv
  <1>7. CASE StartStore(r)
    BY <1>7, <1>1, <1>2, <1>q DEF StopInv, StartStore
  <1>8. CASE StopLock(r)
    BY <1>8, <1>1, <1>2, <1>3, <1>q DEF StopInv, StopLock
  <1>9. CASE StopKill(r)
    BY <1>9, <1>1, <1>2, <1>q, KillEndsAll DEF StopInv, StopKill
  <1>10. CASE StatusRead(r)
    BY <1>10, <1>1, <1>2, <1>q DEF StopInv, StatusRead
  <1>11. QED
    BY <1>4, <1>5, <1>6, <1>7, <1>8, <1>9, <1>10 DEF Serve, Start, Stop, Status

LEMMA StopInductive ==
    ASSUME EngineInv, StopInv, [Next]_vars
    PROVE  StopInv'
  <1> SUFFICES ASSUME ~OnWindows, NoFault' PROVE StopInv'
    BY DEF StopInv
  <1>0. NoFault
    BY FaultsStay DEF EngineInv
  <1>1. used \subseteq used' /\ alive' \cap used \subseteq alive
    BY <1>0, StepIsFresh
  <1>2. NoPid \notin alive'
    BY TypeInductive, PrivdAssumption DEF EngineInv, TypeOK, HandsTypeOK, PrivdTypeOK
  <1>3. ASSUME NEW r \in Reqs, Serve(r) PROVE StopInv'
    BY <1>0, <1>3, ServeStop
  <1>4. ASSUME NEW r \in Reqs, NEW kind \in Kinds, Arrive(r, kind) PROVE StopInv'
    <2>1. pc \in [Reqs -> Labels] /\ seen \in [Reqs -> Pids \cup {NoPid}]
      BY DEF EngineInv, TypeOK, WsTypeOK
    <2>2. Entry[kind] # "stop_delete"
      BY DEF Entry, Kinds
    <2>3. QED
      BY <1>0, <1>1, <1>4, <2>1, <2>2 DEF Arrive, Goto, StopInv, handsVars
  <1>5. CASE CoreRestarts
    BY <1>0, <1>5 DEF CoreRestarts, NoFault
  <1>6. CASE Below \/ UNCHANGED vars
    BY <1>0, <1>1, <1>2, <1>6 DEF Below, wsVars, vars, StopInv
  <1>7. QED
    BY <1>3, <1>4, <1>5, <1>6 DEF Next

(* A stop that answers "ok" without faults has ended the engine it took    *)
(* from the record, for any number of starts and stops around it: the      *)
(* mutex is free between the kill and the answer, and others may start an  *)
(* engine there, but never the one that was stopped.                       *)
THEOREM StopEndsIt == Spec => StopEndsItsEngine
  <1>1. Init => StopInv
    BY DEF Init, HandsInit, PrivdInit, StopInv
  <1>2. EngineInv /\ StopInv /\ [Next]_vars => StopInv'
    BY StopInductive
  <1>3. ASSUME EngineInv, StopInv, [Next]_vars
        PROVE  [\A r \in Reqs :
                   (~OnWindows /\ NoFault' /\ At(r, "stop_delete") /\ pc'[r] = "idle")
                       => seen[r] \notin alive']_vars
    <2>1. ASSUME NEW r \in Reqs, ~OnWindows, NoFault', At(r, "stop_delete")
          PROVE  seen[r] \notin alive'
      <3>1. NoFault
        BY <1>3, <2>1, FaultsStay DEF EngineInv
      <3>2. seen[r] \notin alive /\ seen[r] \in used \cup {NoPid}
        BY <1>3, <2>1, <3>1 DEF StopInv, At
      <3>3. NoPid \notin alive'
        BY <1>3, TypeInductive, PrivdAssumption DEF EngineInv, TypeOK, HandsTypeOK, PrivdTypeOK
      <3>4. alive' \cap used \subseteq alive
        BY <1>3, <2>1, <3>1, StepIsFresh
      <3>5. QED
        BY <3>2, <3>3, <3>4
    <2>2. QED
      BY <2>1
  <1>4. QED
    BY <1>1, <1>2, <1>3, EngineInvariant, PTL DEF Spec, StopEndsItsEngine

-----------------------------------------------------------------------------
(* With one user the tab implements Bypass.                                *)

(* The circumstances of the promise, outside Windows: of the threads only  *)
(* one is ever asked to start or stop, and nothing times out or dies.      *)
OneUser(u) ==
    /\ ~OnWindows
    /\ u \in Reqs /\ \A r \in Reqs \ {u} : Does[r] \subseteq {"status"}
    /\ MaxTimeouts = 0 /\ MaxCrashes = 0 /\ MaxRestarts = 0

(* Only that thread is inside start or stop; an engine runs behind rules,  *)
(* and is only spawned behind rules; rules are only removed when the       *)
(* record, and with it the engine, is gone.                                *)
OneUserInv(u) ==
    /\ \A r \in Reqs \ {u} : pc[r] \in {"idle"} \cup StatusLabels
    /\ alive # {} => table
    /\ pc[u] = "start_daemon" => table
    /\ pc[u] = "stop_delete" => record = NoPid

(* Where nothing can fail the counters of faults stay at zero. *)
LEMMA NothingFails ==
    ASSUME NEW u, OneUser(u), TypeOK
    PROVE  NoFault
  BY DEF OneUser, NoFault, TypeOK, HandsTypeOK, PrivdTypeOK, WsTypeOK

(* What a call of the hands does to engines and rules then. *)
LEMMA HandsOfOneUser ==
    ASSUME TypeOK, ~OnWindows, NoFault, NoFault', late = <<>>, NEW ok \in BOOLEAN,
           NEW p, NEW ans
    PROVE  /\ Ping(ok) \/ IsRunning(p, ans) \/ StopStrays(ok) \/ DryRun(ok)
                \/ RunDaemon(FALSE) \/ UNCHANGED handsVars => UNCHANGED <<alive, table>>
           /\ RunNftScript(ok) => /\ UNCHANGED alive
                                  /\ table' \in {table, TRUE}
                                  /\ ok => table'
           /\ DeleteNftTable(ok) => UNCHANGED alive /\ table' \in {table, FALSE}
           /\ RunDaemon(TRUE) => /\ UNCHANGED table
                                 /\ child' \in Pids /\ alive' = alive \cup {child'}
           /\ Kill(p, ok) => UNCHANGED table /\ alive' \subseteq alive
  <1>1. timeouts = 0 /\ timeouts' = 0 /\ crashes = 0 /\ crashes' = 0
    BY DEF NoFault
  <1>2. \A m : \A b \in BOOLEAN :
           Request(m, b) => (Answered(m, b) \/ (~b /\ UNCHANGED handsVars))
    BY <1>1 DEF Request, Refused, Abandoned, Cut
  <1>3. table \in BOOLEAN
    BY DEF TypeOK, HandsTypeOK, PrivdTypeOK
  <1>4. Ping(ok) \/ IsRunning(p, ans) \/ StopStrays(ok) \/ DryRun(ok) \/ UNCHANGED handsVars
          => UNCHANGED <<alive, table>>
    <2>1. \A b \in BOOLEAN : Query(b) => UNCHANGED <<alive, table>>
      BY DEF Query, privdVars
    <2>2. QED
      BY <2>1 DEF Ping, IsRunning, StopStrays, DryRun, handsVars
  <1>5. RunNftScript(ok) => /\ UNCHANGED alive
                            /\ table' \in {table, TRUE}
                            /\ ok => table'
    BY <1>2, <1>3 DEF RunNftScript, Answered, Exec, Msg, OpNft, handsVars
  <1>6. DeleteNftTable(ok) => UNCHANGED alive /\ table' \in {table, FALSE}
    BY <1>2, <1>3 DEF DeleteNftTable, Answered, Exec, Msg, OpNftDelete, handsVars
  <1>7. RunDaemon(FALSE) => UNCHANGED <<alive, table>>
    <2>1. Request(Msg("daemon"), FALSE) => (Answered(Msg("daemon"), FALSE) \/ UNCHANGED handsVars)
      BY <1>2
    <2>2. QED
      BY <2>1 DEF RunDaemon, Answered, Exec, Msg, OpDaemon, handsVars
  <1>8. RunDaemon(TRUE) => /\ UNCHANGED table
                           /\ child' \in Pids /\ alive' = alive \cup {child'}
    <2>1. Request(Msg("daemon"), TRUE) => Answered(Msg("daemon"), TRUE)
      BY <1>2
    <2>2. QED
      BY <2>1 DEF RunDaemon, Answered, Exec, Msg, OpDaemon
  <1>9. Kill(p, ok) => UNCHANGED table /\ alive' \subseteq alive
    <2>1. Request(KillMsg(p), ok) => (Answered(KillMsg(p), ok) \/ UNCHANGED handsVars)
      BY <1>2
    <2>2. QED
      BY <2>1 DEF Kill, Answered, Exec, KillMsg, OpKill, handsVars
  <1>10. QED
    BY <1>4, <1>5, <1>6, <1>7, <1>8, <1>9

(* A step of the promise, or none. *)
PromisedStep == [Promise!Next]_(Promise!bypassVars)

LEMMA ServePromise ==
    ASSUME NEW u \in Reqs, OneUser(u), EngineInv, OneUserInv(u), NoFault, NoFault', NEW r \in Reqs,
           Serve(r)
    PROVE  OneUserInv(u)' /\ PromisedStep
  <1> USE DEF At, Goto, Finish, Release, Acquire, OrFail, PromisedStep, Promise!bypassVars
  <1> TypeOK /\ late = <<>> /\ ~OnWindows
    BY DEF EngineInv, UnixInv, OneUser
  <1>t. pc \in [Reqs -> Labels] /\ table \in BOOLEAN /\ NoPid \notin alive
    BY PrivdAssumption DEF TypeOK, WsTypeOK, HandsTypeOK, PrivdTypeOK
  <1>h. \A p, ans : \A ok \in BOOLEAN :
          Ping(ok) \/ IsRunning(p, ans) \/ StopStrays(ok) \/ DryRun(ok)
            \/ RunDaemon(FALSE) \/ UNCHANGED handsVars => UNCHANGED <<alive, table>>
    BY HandsOfOneUser
  (* What runs is the record, or what the owner of the mutex is about. *)
  <1>a. \A p \in alive : p = record \/ (lock \in Reqs /\ seen[lock] = p
                                        /\ pc[lock] \in {"start_store", "stop_kill"})
    BY DEF EngineInv, NoOrphan, OneUser
  <1>m. pc[r] \in Critical => /\ lock = r
                              /\ pc[r] # "start_alive" => record = NoPid
    BY DEF EngineInv, MutexInv
  (* The steps of start and stop are the user's. *)
  <1>u. pc[r] \notin StatusLabels \cup {"idle"} => r = u
    BY DEF OneUserInv
  <1>o. ASSUME r = u, \E l \in Labels : pc' = [pc EXCEPT ![r] = l]
        PROVE  /\ \A q \in Reqs \ {u} : pc'[q] \in {"idle"} \cup StatusLabels
               /\ pc'[r] = pc'[u]
    BY <1>o, <1>t DEF OneUserInv
  <1>1. CASE StatusRead(r) \/ StatusPoll(r)
    <2>1. UNCHANGED <<alive, table, record>>
      BY <1>1, <1>h DEF StatusRead, StatusPoll
    <2>2. pc'[r] \in {"idle", "status_poll"} /\ \A q \in Reqs \ {r} : pc'[q] = pc[q]
      BY <1>1, <1>t DEF StatusRead, StatusPoll
    <2>3. QED
      BY <2>1, <2>2 DEF OneUserInv, StatusLabels
  <1>2. CASE StartPing(r) \/ StartPrepare(r) \/ StartStrays(r) \/ StartDry(r) \/ StopPing(r)
    <2>1. r = u /\ UNCHANGED <<alive, table, record>>
      BY <1>2, <1>h, <1>u DEF StatusLabels, StartPing, StartPrepare, StartStrays, StartDry, StopPing
    <2>2. \E l \in {"start_prepare", "start_lock", "start_dry", "start_nft", "stop_lock", "idle"} :
             pc' = [pc EXCEPT ![r] = l]
      BY <1>2 DEF StartPing, StartPrepare, StartStrays, StartDry, StopPing
    <2>3. QED
      BY <2>1, <2>2, <1>t, <1>o DEF OneUserInv, Labels, StartLabels, StopLabels, StatusLabels
  <1>3. CASE StartLock(r) \/ StartAlive(r) \/ StartStore(r)
    <2>1. r = u /\ UNCHANGED <<alive, table>>
      BY <1>3, <1>h, <1>u DEF StatusLabels, StartLock, StartAlive, StartStore
    <2>2. \E l \in {"start_alive", "start_strays", "idle"} : pc' = [pc EXCEPT ![r] = l]
      BY <1>3 DEF StartLock, StartAlive, StartStore
    <2>3. QED
      BY <2>1, <2>2, <1>t, <1>o DEF OneUserInv, Labels, StartLabels, StopLabels, StatusLabels
  <1>4. CASE StartNft(r)
    <2>1. r = u /\ alive = {} /\ record = NoPid /\ record' = record
      BY <1>4, <1>a, <1>m, <1>t, <1>u DEF StartNft, Critical, StatusLabels
    <2>2. PICK ok \in BOOLEAN : RunNftScript(ok) /\ OrFail(r, "start_daemon", ok)
      BY <1>4 DEF StartNft
    <2>3. UNCHANGED alive /\ table' \in {table, TRUE} /\ (ok => table')
      BY <2>2, HandsOfOneUser
    <2>4. \/ ok /\ pc' = [pc EXCEPT ![r] = "start_daemon"]
          \/ pc' = [pc EXCEPT ![r] = "idle"]
      BY <2>2
    <2>5. OneUserInv(u)'
      BY <2>1, <2>3, <2>4, <1>t, <1>o DEF OneUserInv, Labels, StartLabels, StopLabels, StatusLabels
    <2>6. PromisedStep
      BY <2>1, <2>3 DEF Promise!Next, Promise!Install
    <2>7. QED
      BY <2>5, <2>6
  <1>5. CASE StartDaemon(r)
    <2>1. r = u /\ alive = {} /\ table
      BY <1>5, <1>a, <1>m, <1>t, <1>u DEF StartDaemon, Critical, StatusLabels, OneUserInv
    <2>2. \/ RunDaemon(TRUE) /\ pc' = [pc EXCEPT ![r] = "start_store"]
          \/ RunDaemon(FALSE) /\ pc' = [pc EXCEPT ![r] = "start_undo"]
      BY <1>5 DEF StartDaemon
    <2>3. /\ RunDaemon(TRUE) => /\ UNCHANGED table
                                /\ child' \in Pids /\ alive' = alive \cup {child'}
          /\ RunDaemon(FALSE) => UNCHANGED <<alive, table>>
      BY HandsOfOneUser
    <2>4. OneUserInv(u)'
      BY <2>1, <2>2, <2>3, <1>t, <1>o DEF OneUserInv, Labels, StartLabels, StopLabels, StatusLabels
    <2>5. PromisedStep
      BY <2>1, <2>2, <2>3 DEF Promise!Next, Promise!Launch
    <2>6. QED
      BY <2>4, <2>5
  <1>6. CASE StartUndo(r) \/ StopDelete(r)
    <2>1. r = u /\ record = NoPid /\ record' = record
      BY <1>6, <1>m, <1>u DEF StartUndo, StopDelete, Critical, StatusLabels, OneUserInv
    <2>2. alive = {}
      <3>1. lock \in Reqs /\ pc[lock] \in {"start_store", "stop_kill"} => lock = u
        BY DEF OneUserInv, StatusLabels
      <3>2. pc[u] \in {"start_undo", "stop_delete"}
        BY <1>6, <2>1 DEF StartUndo, StopDelete
      <3>3. QED
        BY <2>1, <3>1, <3>2, <1>a, <1>t
    <2>3. UNCHANGED alive /\ table' \in {table, FALSE} /\ pc' = [pc EXCEPT ![r] = "idle"]
      BY <1>6, HandsOfOneUser DEF StartUndo, StopDelete
    <2>4. OneUserInv(u)'
      BY <2>1, <2>2, <2>3, <1>t, <1>o DEF OneUserInv, Labels, StartLabels, StopLabels, StatusLabels
    <2>5. PromisedStep
      BY <2>2, <2>3 DEF Promise!Next, Promise!Remove
    <2>6. QED
      BY <2>4, <2>5
  <1>7. CASE StopLock(r)
    <2>1. r = u /\ UNCHANGED <<alive, table>> /\ record' = NoPid
      BY <1>7, <1>h, <1>u DEF StatusLabels, StopLock
    <2>2. \E l \in {"stop_kill", "stop_delete"} : pc' = [pc EXCEPT ![r] = l]
      BY <1>7 DEF StopLock
    <2>3. QED
      BY <2>1, <2>2, <1>t, <1>o DEF OneUserInv, Labels, StartLabels, StopLabels, StatusLabels
  <1>8. CASE StopKill(r)
    <2>1. r = u /\ record = NoPid /\ record' = record
      BY <1>8, <1>m, <1>u DEF StopKill, Critical, StatusLabels
    <2>2. alive' = {} /\ UNCHANGED table /\ pc' = [pc EXCEPT ![r] = "stop_delete"]
      BY <1>8, KillEndsAll, HandsOfOneUser DEF StopKill
    <2>3. OneUserInv(u)'
      BY <2>1, <2>2, <1>t, <1>o DEF OneUserInv, Labels, StartLabels, StopLabels, StatusLabels
    <2>4. PromisedStep
      BY <2>2 DEF Promise!Next, Promise!End
    <2>5. QED
      BY <2>3, <2>4
  <1>9. QED
    BY <1>1, <1>2, <1>3, <1>4, <1>5, <1>6, <1>7, <1>8 DEF Serve, Start, Stop, Status

LEMMA StepPromise ==
    ASSUME NEW u \in Reqs, OneUser(u), EngineInv, OneUserInv(u), [Next]_vars
    PROVE  OneUserInv(u)' /\ PromisedStep
  <1>0. NoFault /\ NoFault' /\ late = <<>> /\ ~OnWindows /\ pc \in [Reqs -> Labels]
    <2>1. TypeOK'
      BY TypeInductive DEF EngineInv
    <2>2. NoFault /\ NoFault'
      BY <2>1, NothingFails DEF EngineInv, OneUser, NoFault, TypeOK, HandsTypeOK, PrivdTypeOK, WsTypeOK
    <2>3. QED
      BY <2>2 DEF EngineInv, UnixInv, TypeOK, WsTypeOK, OneUser
  <1>1. ASSUME NEW r \in Reqs, Serve(r) PROVE OneUserInv(u)' /\ PromisedStep
    BY <1>0, <1>1, ServePromise
  <1>2. ASSUME NEW r \in Reqs, NEW kind \in Kinds, Arrive(r, kind)
        PROVE  OneUserInv(u)' /\ PromisedStep
    <2>1. r # u => kind = "status"
      BY <1>2 DEF Arrive, OneUser
    <2>2. pc' = [pc EXCEPT ![r] = Entry[kind]] /\ UNCHANGED <<alive, table, record>>
      BY <1>2 DEF Arrive, Goto, handsVars
    <2>3. Entry[kind] \in {"start_ping", "stop_ping", "status_read"}
          /\ (kind = "status" => Entry[kind] = "status_read")
      BY DEF Entry, Kinds
    <2>4. QED
      BY <1>0, <2>1, <2>2, <2>3 DEF OneUserInv, StatusLabels, PromisedStep, Promise!bypassVars
  <1>3. CASE CoreRestarts
    BY <1>0, <1>3 DEF CoreRestarts, NoFault
  <1>4. CASE Below
    <2>1. UNCHANGED <<table, pc, record>> /\ (alive' = alive \/ \E p \in alive : alive' = alive \ {p})
      BY <1>0, <1>4 DEF Below, wsVars, PrivdNext, ExecLate, PrivdStart, PrivdDies, PrivdReplaced,
         EngineExits, NoFault
    <2>2. alive' = alive \/ (alive # {} /\ alive' = {})
      BY <1>0, <2>1 DEF EngineInv, UnixInv
    <2>3. OneUserInv(u)'
      BY <2>1, <2>2 DEF OneUserInv
    <2>4. PromisedStep
      BY <2>1, <2>2 DEF PromisedStep, Promise!bypassVars, Promise!Next, Promise!End
    <2>5. QED
      BY <2>3, <2>4
  <1>5. CASE UNCHANGED vars
    BY <1>5 DEF vars, handsVars, wsVars, OneUserInv, PromisedStep, Promise!bypassVars
  <1>6. QED
    BY <1>1, <1>2, <1>3, <1>4, <1>5 DEF Next

(* The tab implements the abstract tab Bypass when one user clicks and     *)
(* nothing fails, whatever he clicks and however many threads poll the     *)
(* status: rules are there before the engine and leave after it, and two   *)
(* engines never run.                                                      *)
THEOREM TabKeepsPromise ==
    ASSUME NEW u \in Reqs, OneUser(u)
    PROVE  Spec => KeepsPromise
  <1>1. Init => OneUserInv(u) /\ Promise!Init
    BY DEF Init, HandsInit, PrivdInit, OneUserInv, Promise!Init
  <1>2. EngineInv /\ OneUserInv(u) /\ [Next]_vars
          => OneUserInv(u)' /\ [Promise!Next]_(Promise!bypassVars)
    BY StepPromise DEF PromisedStep
  <1>3. QED
    BY <1>1, <1>2, EngineInvariant, PTL DEF Spec, KeepsPromise, Promise!Spec

(* Behind the promise a running engine always has its rules, so the race   *)
(* of a stop with another start is the only way to lose them: it takes two *)
(* users who click at once.                                                *)
THEOREM RulesStayForOneUser ==
    ASSUME NEW u \in Reqs, OneUser(u)
    PROVE  Spec => []RunningEngineHasRules
  <1> DEFINE Ruled == alive # {} => table
  <1>1. Promise!Init => Ruled
    BY DEF Promise!Init
  <1>2. Ruled /\ [Promise!Next]_(Promise!bypassVars) => Ruled'
    BY DEF Promise!Next, Promise!Install, Promise!Launch, Promise!End, Promise!Remove,
       Promise!bypassVars
  <1>3. Ruled => RunningEngineHasRules
    BY DEF RunningEngineHasRules
  <1>4. QED
    BY <1>1, <1>2, <1>3, TabKeepsPromise, PTL DEF KeepsPromise, Promise!Spec

(* A start that fails without a timeout and without a death leaves no      *)
(* engine, whatever other requests were under way: the late answer of the  *)
(* helper is the only way to be left with one.                             *)
THEOREM FailedStartIsClean ==
    Spec => [](~OnWindows /\ NoFault => FailedStartLeavesNothing)
  <1>1. TypeOK /\ NoOrphan => (~OnWindows /\ NoFault => FailedStartLeavesNothing)
    BY PrivdAssumption
    DEF TypeOK, HandsTypeOK, PrivdTypeOK, NoOrphan, FailedStartLeavesNothing, At
  <1>2. QED
    BY <1>1, TypeCorrect, EnginesAccountedFor, PTL
=============================================================================
