------------------------------- MODULE DiagRun -------------------------------
(***************************************************************************)
(* One run of the site diagnostics: a pool of worker threads with a queue, *)
(* lanes that let at most a limit of their tasks into the pool at a time,  *)
(* stages of postponed tasks that a coordinating task starts one after     *)
(* another, the user's "Stop", and the end of the run.                     *)
(*                                                                         *)
(* A worker has no name: it is the task it runs. What a task computes, the *)
(* progress notes and panics (caught, and sent as an answer) are left out. *)
(* The deadline of the run only cuts probes short: every probe ends anyway.*)
(***************************************************************************)
EXTENDS Naturals, Sequences, SequencesExt, FiniteSets

CONSTANTS Main,            (* the thread of run_check                      *)
          Tasks,           (* everything submitted or postponed            *)
          Lanes, NoLane,   (* the lanes; a task that goes straight in      *)
          LaneOf,          (* the lane each task is submitted to           *)
          Limit,           (* per lane: tasks at once                      *)
          Coord,           (* the task start_stages submits                *)
          Stages,          (* the postponed tasks, stage by stage          *)
          Jobs,            (* per thread: the tasks it submits and awaits  *)
          Insisted,        (* tasks awaited with await_value               *)
          Workers          (* threads of the pool                          *)

Threads == Tasks \cup {Main}
Staged == UNION {Stages[i] : i \in DOMAIN Stages}
NoTask == Main             (* an empty hand *)

ASSUME RunAssumption ==
    /\ Main \notin Tasks /\ NoLane \notin Lanes
    /\ LaneOf \in [Tasks -> Lanes \cup {NoLane}]
    /\ Limit \in [Lanes -> Nat \ {0}]
    /\ IsFiniteSet(Tasks) /\ Coord \in Tasks \ Staged /\ LaneOf[Coord] = NoLane
    /\ Stages \in Seq(SUBSET Tasks) /\ \A t \in Staged : LaneOf[t] = NoLane
    /\ \A i, j \in DOMAIN Stages : i # j => Stages[i] \cap Stages[j] = {}
    /\ Jobs \in [Threads -> SUBSET (Tasks \ Staged)] /\ Insisted \subseteq Tasks
    /\ Workers \in Nat \ {0}

VARIABLES diagPc,          (* per thread: see Places                       *)
          result,          (* per task: what its handle has received       *)
          queue, open,     (* the pool                                     *)
          waiting, running, closed,   (* the lanes                         *)
          pumping, hand,   (* per thread: the lane it pumps, and the task  *)
                           (* it has taken from it and not yet pushed      *)
          stage, left,     (* the coordinator: stage, its unfinished tasks *)
          userStopped

poolVars == <<queue, open>>
laneVars == <<waiting, running, closed>>
pumpVars == <<pumping, hand>>
stageVars == <<stage, left>>
diagVars == <<diagPc, result, poolVars, laneVars, pumpVars, stageVars, userStopped>>

(* new: only its handle exists; ended: answered, its bookkeeping is left;  *)
(* dropped: it will never run.                                             *)
Places == {"new", "waiting", "held", "queued", "running", "ended", "done", "dropped"}

(* "silence": the sender is gone and nothing was sent. *)
Results == {"none", "answer", "cancelled", "silence"}

(* Type correctness. *)
DiagTypeOK ==
    /\ diagPc \in [Threads -> Places \cup {"closing"}]
    /\ result \in [Tasks -> Results]
    /\ queue \in Seq(Tasks) /\ open \in BOOLEAN
    /\ waiting \in [Lanes -> Seq(Tasks)]
    /\ running \in [Lanes -> Nat] /\ closed \in [Lanes -> BOOLEAN]
    /\ pumping \in [Threads -> Lanes \cup {NoLane}] /\ hand \in [Threads -> Threads]
    /\ stage \in 0..Len(Stages) /\ left \in 0..Cardinality(Staged)
    /\ userStopped \in BOOLEAN

DiagInit ==
    /\ diagPc = [h \in Threads |-> IF h = Main THEN "running" ELSE "new"]
    /\ result = [t \in Tasks |-> "none"]
    /\ queue = <<>> /\ open = TRUE
    /\ waiting = [l \in Lanes |-> <<>>]
    /\ running = [l \in Lanes |-> 0]
    /\ closed = [l \in Lanes |-> FALSE]
    /\ pumping = [h \in Threads |-> NoLane]
    /\ hand = [h \in Threads |-> NoTask]
    /\ stage = 0 /\ left = 0
    /\ userStopped = FALSE

-----------------------------------------------------------------------------
(* The pool.                                                               *)

Busy == {t \in Tasks : diagPc[t] \in {"running", "ended"} \/ (diagPc[t] = "done" /\ pumping[t] # NoLane)}

(* Mutant of Refusal: a closed pool drops every job without a word. *)
SilentRefusal(t) == "silence"

(* What a task that will not run is told. The job a lane pushes has a      *)
(* `fail` that does nothing, and its own sender is dropped with it.        *)
Refusal(t) == IF LaneOf[t] = NoLane THEN "cancelled" ELSE "silence"

(* Pool::push *)
Push(t) ==
    \/ /\ open
       /\ queue' = Append(queue, t)
       /\ diagPc' = [diagPc EXCEPT ![t] = "queued"]
       /\ UNCHANGED <<open, result>>
    \/ /\ ~open
       /\ diagPc' = [diagPc EXCEPT ![t] = "dropped"]
       /\ result' = [result EXCEPT ![t] = Refusal(t)]
       /\ UNCHANGED poolVars

(* A worker takes the next job. *)
Begin ==
    /\ queue # <<>>
    /\ Cardinality(Busy) < Workers
    /\ diagPc' = [diagPc EXCEPT ![Head(queue)] = "running"]
    /\ queue' = Tail(queue)
    /\ UNCHANGED <<result, open, laneVars, pumpVars, stageVars, userStopped>>

-----------------------------------------------------------------------------
(* Lanes.                                                                  *)

(* Run::submit *)
SubmitPlain(t) ==
    /\ LaneOf[t] = NoLane
    /\ Push(t)
    /\ UNCHANGED <<laneVars, pumpVars>>

(* Lane::submit: the task waits in the lane, then this thread pumps it. *)
SubmitToLane(h, t) ==
    LET l == LaneOf[t]
    IN  /\ l # NoLane
        /\ \/ /\ closed[l]
              /\ diagPc' = [diagPc EXCEPT ![t] = "dropped"]
              /\ result' = [result EXCEPT ![t] = "cancelled"]
              /\ UNCHANGED <<waiting, pumping>>
           \/ /\ ~closed[l]
              /\ diagPc' = [diagPc EXCEPT ![t] = "waiting"]
              /\ waiting' = [waiting EXCEPT ![l] = Append(@, t)]
              /\ pumping' = [pumping EXCEPT ![h] = l]
              /\ UNCHANGED result
        /\ UNCHANGED <<poolVars, running, closed, hand>>

Submit(h, t) ==
    /\ diagPc[h] = "running" /\ pumping[h] = NoLane
    /\ t \in Jobs[h] /\ diagPc[t] = "new"
    /\ SubmitPlain(t) \/ SubmitToLane(h, t)
    /\ UNCHANGED <<stageVars, userStopped>>

(* Mutant of HasRoom: one task too many. *)
HasRoomForOneMore(l) == running[l] <= Limit[l] /\ waiting[l] # <<>>

HasRoom(l) == running[l] < Limit[l] /\ waiting[l] # <<>>

(* Lane::pump, one turn of its loop in two steps: the lane's lock is free  *)
(* when the job is pushed.                                                 *)
PumpTake(h) ==
    LET l == pumping[h]
    IN  /\ l # NoLane /\ hand[h] = NoTask
        /\ \/ /\ closed[l] \/ ~HasRoom(l)
              /\ pumping' = [pumping EXCEPT ![h] = NoLane]
              /\ UNCHANGED <<diagPc, waiting, running, hand>>
           \/ /\ ~closed[l] /\ HasRoom(l)
              /\ hand' = [hand EXCEPT ![h] = Head(waiting[l])]
              /\ diagPc' = [diagPc EXCEPT ![Head(waiting[l])] = "held"]
              /\ waiting' = [waiting EXCEPT ![l] = Tail(@)]
              /\ running' = [running EXCEPT ![l] = @ + 1]
              /\ UNCHANGED pumping
        /\ UNCHANGED <<result, poolVars, closed, stageVars, userStopped>>

PumpPush(h) ==
    /\ hand[h] # NoTask
    /\ Push(hand[h])
    /\ hand' = [hand EXCEPT ![h] = NoTask]
    /\ UNCHANGED <<laneVars, pumping, stageVars, userStopped>>

-----------------------------------------------------------------------------
(* A task.                                                                 *)

(* Everything submitted is awaited: with Run::wait, which "Stop"           *)
(* interrupts, or with await_value, which nothing does. A silent handle is *)
(* asked again and again.                                                  *)
Told(u) == result[u] \in {"answer", "cancelled"}

(* In the code check_voice, check_bursts, check_telegram and the system    *)
(* check insist on plain tasks. collect_groups, which insists on tasks of  *)
(* a lane, is called by the main thread: the one that calls close().       *)
InsistsOnPlain == \A t \in Tasks : \A u \in Jobs[t] \cap Insisted : LaneOf[u] = NoLane

GivenUp(u) == userStopped /\ u \notin Insisted

WaitOver(t) == \A u \in Jobs[t] : Told(u) \/ GivenUp(u)

(* The job returns (or panics) and its result is sent. *)
Answer(t) ==
    /\ t # Coord
    /\ diagPc[t] = "running" /\ pumping[t] = NoLane
    /\ WaitOver(t)
    /\ result' = [result EXCEPT ![t] = "answer"]
    /\ diagPc' = [diagPc EXCEPT ![t] = IF LaneOf[t] = NoLane /\ t \notin Staged THEN "done" ELSE "ended"]
    /\ UNCHANGED <<poolVars, laneVars, pumpVars, stageVars, userStopped>>

(* Mutant of LeaveLane: the freed place is not offered to the next task. *)
LeaveLaneQuietly(t) ==
    /\ diagPc[t] = "ended" /\ LaneOf[t] # NoLane
    /\ running' = [running EXCEPT ![LaneOf[t]] = @ - 1]
    /\ diagPc' = [diagPc EXCEPT ![t] = "done"]
    /\ UNCHANGED <<result, poolVars, waiting, closed, pumpVars, stageVars, userStopped>>

(* The end of a lane's job: its place is free, and the worker pumps. *)
LeaveLane(t) ==
    /\ diagPc[t] = "ended" /\ LaneOf[t] # NoLane
    /\ running' = [running EXCEPT ![LaneOf[t]] = @ - 1]
    /\ pumping' = [pumping EXCEPT ![t] = LaneOf[t]]
    /\ diagPc' = [diagPc EXCEPT ![t] = "done"]
    /\ UNCHANGED <<result, poolVars, waiting, closed, hand, stageVars, userStopped>>

(* Mutant of LeaveStage: the coordinator is not told. *)
LeaveStageUncounted(t) ==
    /\ diagPc[t] = "ended" /\ t \in Staged
    /\ diagPc' = [diagPc EXCEPT ![t] = "done"]
    /\ UNCHANGED <<result, poolVars, laneVars, pumpVars, stageVars, userStopped>>

(* The end of a staged job: the coordinator counts it. *)
LeaveStage(t) ==
    /\ diagPc[t] = "ended" /\ t \in Staged
    /\ left' = left - 1
    /\ diagPc' = [diagPc EXCEPT ![t] = "done"]
    /\ UNCHANGED <<result, poolVars, laneVars, pumpVars, stage, userStopped>>

-----------------------------------------------------------------------------
(* The coordinator of the stages. It has no regard for "Stop", and nothing *)
(* counts a task that was taken out of the queue unrun.                    *)

Coordinating == diagPc[Coord] = "running"
ToPush == IF stage = 0 THEN {} ELSE {t \in Stages[stage] : diagPc[t] = "new"}

(* Mutant of NextStage: a stage begins when the tasks of the one before it *)
(* have been pushed.                                                       *)
NextStageAtOnce ==
    /\ Coordinating /\ ToPush = {}
    /\ stage < Len(Stages)
    /\ stage' = stage + 1
    /\ left' = Cardinality(Stages[stage + 1])
    /\ UNCHANGED <<diagPc, result, poolVars, laneVars, pumpVars, userStopped>>

NextStage ==
    /\ Coordinating /\ ToPush = {} /\ left = 0
    /\ stage < Len(Stages)
    /\ stage' = stage + 1
    /\ left' = Cardinality(Stages[stage + 1])
    /\ UNCHANGED <<diagPc, result, poolVars, laneVars, pumpVars, userStopped>>

PushStaged(t) ==
    /\ Coordinating /\ t \in ToPush
    /\ Push(t)
    /\ UNCHANGED <<laneVars, pumpVars, stageVars, userStopped>>

StagesOver ==
    /\ Coordinating /\ ToPush = {} /\ left = 0
    /\ stage = Len(Stages)
    /\ result' = [result EXCEPT ![Coord] = "answer"]
    /\ diagPc' = [diagPc EXCEPT ![Coord] = "done"]
    /\ UNCHANGED <<poolVars, laneVars, pumpVars, stageVars, userStopped>>

-----------------------------------------------------------------------------
(* The end of the run: close().                                            *)

(* The main thread, too, has waits that "Stop" does not interrupt: those   *)
(* of collect_groups for the tasks of net_lane. Stopped before, it does    *)
(* not submit them.                                                        *)
EverythingAwaited ==
    \A t \in (Jobs[Main] \ {Coord}) \cup Staged :
        Told(t) \/ (IF diagPc[t] = "new" THEN userStopped ELSE GivenUp(t))

(* Everything has been submitted and awaited, or the user stopped it. *)
BeginClose ==
    /\ diagPc[Main] = "running" /\ pumping[Main] = NoLane
    /\ EverythingAwaited
    /\ diagPc' = [diagPc EXCEPT ![Main] = "closing"]
    /\ UNCHANGED <<result, poolVars, laneVars, pumpVars, stageVars, userStopped>>

CloseLane(l) ==
    /\ diagPc[Main] = "closing" /\ ~closed[l]
    /\ closed' = [closed EXCEPT ![l] = TRUE]
    /\ waiting' = [waiting EXCEPT ![l] = <<>>]
    /\ diagPc' = [t \in Threads |-> IF t \in ToSet(waiting[l]) THEN "dropped" ELSE diagPc[t]]
    /\ result' = [t \in Tasks |-> IF t \in ToSet(waiting[l]) THEN "cancelled" ELSE result[t]]
    /\ UNCHANGED <<poolVars, running, pumpVars, stageVars, userStopped>>

(* With the coordinator's job go the senders of all its staged tasks. *)
ClosePool ==
    LET drained == ToSet(queue)
        orphaned == IF Coord \in drained THEN Staged ELSE {}
    IN  /\ diagPc[Main] = "closing" /\ \A l \in Lanes : closed[l]
        /\ open' = FALSE
        /\ queue' = <<>>
        /\ diagPc' = [t \in Threads |-> IF t = Main THEN "done"
                                    ELSE IF t \in drained \cup orphaned THEN "dropped"
                                    ELSE diagPc[t]]
        /\ result' = [t \in Tasks |-> IF t \in drained THEN Refusal(t)
                                      ELSE IF t \in orphaned THEN "silence"
                                      ELSE result[t]]
        /\ UNCHANGED <<laneVars, pumpVars, stageVars, userStopped>>

UserStops ==
    /\ ~userStopped
    /\ userStopped' = TRUE
    /\ UNCHANGED <<diagPc, result, poolVars, laneVars, pumpVars, stageVars>>

MainStep ==
    BeginClose \/ (\E l \in Lanes : CloseLane(l)) \/ ClosePool

CoordStep == NextStage \/ (\E t \in Tasks : PushStaged(t)) \/ StagesOver

ThreadStep(h) == (\E t \in Tasks : Submit(h, t)) \/ PumpTake(h) \/ PumpPush(h)
TaskStep(t) == Answer(t) \/ LeaveLane(t) \/ LeaveStage(t)

(* What a thread does: the main one, the coordinator, any other. *)
StepOf(h) ==
    \/ ThreadStep(h)
    \/ h = Main /\ MainStep
    \/ h = Coord /\ CoordStep
    \/ h \in Tasks /\ TaskStep(h)

DiagNext == (\E h \in Threads : StepOf(h)) \/ Begin \/ UserStops

DiagSpec == DiagInit /\ [][DiagNext]_diagVars

(* Every thread that can go on does; every probe ends. Nobody presses Stop.*)
DiagFairness == (\A h \in Threads : WF_diagVars(StepOf(h))) /\ WF_diagVars(Begin)

DiagFairSpec == DiagSpec /\ DiagFairness

-----------------------------------------------------------------------------
(* Properties                                                              *)

InPool(l) == {t \in Tasks : LaneOf[t] = l /\ diagPc[t] \in {"held", "queued", "running", "ended"}}

(* A lane's counter is the number of its tasks in the pool, and within its *)
(* limit: "десятки сайтов разом" would be taken for blocking.              *)
LaneLimitKept ==
    \A l \in Lanes : /\ Cardinality(InPool(l)) <= Limit[l]
                     /\ open => running[l] = Cardinality(InPool(l))

(* A task is not forgotten in a lane that has room: somebody still pumps.  *)
NobodyForgotten ==
    \A l \in Lanes : HasRoom(l) /\ ~closed[l] => \E h \in Threads : pumping[h] = l

(* A stage's tasks start only when those of all stages before are over.    *)
StagesInOrder ==
    \A i, j \in DOMAIN Stages : \A s \in Stages[i], t \in Stages[j] :
        i < j /\ diagPc[t] \notin {"new", "dropped"} => result[s] # "none"

(* The run ends whether the user stops it or not: no wait is for a task    *)
(* that is stuck in a lane or in a stage.                                  *)
MainReturns == <>[](diagPc[Main] = "done")

(* No job outlives the run for ever: what it still waits for after close() *)
(* has been answered, or cancelled, or is given up because of "Stop". The  *)
(* coordinator is the exception. It takes InsistsOnPlain: a task of a lane *)
(* may be dropped without a word, and who insists on it would ask for ever.*)
JobsEnd == []<>(diagPc[Main] = "done" => Busy \subseteq {Coord})

(* "A task taken out before it started gets Cancelled instead of silence". *)
EveryDroppedTaskIsTold ==
    \A t \in Tasks \ Staged : diagPc[t] = "dropped" => result[t] = "cancelled"

(* The tasks by what they wait for: each has a rank above those it awaits, *)
(* the tasks of a lane have the same one ("only leaves go there"), and the *)
(* coordinator is above what it starts and is awaited with it.             *)
Layered(rank) ==
    /\ rank \in [Tasks -> Nat]
    /\ \A t \in Tasks : \A u \in Jobs[t] : rank[u] < rank[t]
    /\ \A t, u \in Tasks : LaneOf[t] = LaneOf[u] /\ LaneOf[t] # NoLane => rank[t] = rank[u]
    /\ \A t \in Staged : rank[t] < rank[Coord]
    /\ Staged # {} => Coord \in Jobs[Main]

(* A thread for every task that awaits others, and one more. *)
AwaitingTasks == {t \in Tasks : Jobs[t] # {}} \cup {Coord}
EnoughWorkers == Cardinality(AwaitingTasks) < Workers

(* "A lack of threads is not slower, it is mutual deadlock": while the run *)
(* lasts there is always somebody who can go on - who pumps, submits, takes*)
(* a task from the queue, has got all it awaits, or can close the run.     *)
NoDeadlock ==
    diagPc[Main] = "running" =>
        \/ \E h \in Threads : pumping[h] # NoLane \/ hand[h] # NoTask
        \/ \E h \in Threads : diagPc[h] = "running" /\ \E t \in Jobs[h] : diagPc[t] = "new"
        \/ queue # <<>> /\ Cardinality(Busy) < Workers
        \/ \E t \in Tasks : diagPc[t] = "ended" /\ (LaneOf[t] # NoLane \/ t \in Staged)
        \/ \E t \in Tasks \ {Coord} : diagPc[t] = "running" /\ WaitOver(t)
        \/ Coordinating /\ (ToPush # {} \/ left = 0)
        \/ EverythingAwaited
=============================================================================
