-------------------------- MODULE DiagnosticsProofs --------------------------
(* Theorems about the diagnostics: the gate of background checks, the run  *)
(* with its pool, lanes and stages, and the jobs a page watches.           *)
EXTENDS ProbeGate, DiagRun, CheckJob, SequenceLemmas, FiniteSetTheorems, TLAPS

-----------------------------------------------------------------------------
(* Theorems about the gate of network checks, for any number of threads,   *)
(* kinds and runs, any intervals and an unbounded clock reading.           *)

GateInv == GateTypeOK /\ OnePermit

LEMMA InitGate == GateInit => GateInv
  <1> SUFFICES ASSUME GateInit PROVE GateInv
    OBVIOUS
  <1>1. clock \in Nat /\ 0 \in 0..clock
    BY GateAssumption DEF GateInit
  <1>2. GateTypeOK
    BY <1>1 DEF GateInit, GateTypeOK, GateLabels
  <1>3. OnePermit
    BY DEF GateInit, OnePermit, HasPermit
  <1>4. QED
    BY <1>2, <1>3 DEF GateInv

(* Each step of try_background leaves the flag set exactly for its owner.  *)
LEMMA NextInv == GateInv /\ [GateNext]_gateVars => GateInv'
  <1> SUFFICES ASSUME GateInv, [GateNext]_gateVars PROVE GateInv'
    OBVIOUS
  <1> USE DEF GateInv, GateTypeOK, OnePermit, HasPermit, GateLabels
  <1>1. ASSUME NEW r \in Runs, BeginUserRun(r) \/ EndUserRun(r) PROVE GateInv'
    BY <1>1 DEF BeginUserRun, EndUserRun
  <1>2. ASSUME NEW t \in Checkers, NEW k \in Kinds, Ask(t, k) PROVE GateInv'
    BY <1>2 DEF Ask, GateGoto
  <1>3. ASSUME NEW t \in Checkers, ReadClock(t) PROVE GateInv'
    BY <1>3 DEF ReadClock, GateGoto
  <1>4. ASSUME NEW t \in Checkers, ReadLastRun(t) PROVE GateInv'
    BY <1>4 DEF ReadLastRun, GateGoto
  <1>5. ASSUME NEW t \in Checkers, TakePermit(t) PROVE GateInv'
    BY <1>5 DEF TakePermit, GateGoto
  <1>6. ASSUME NEW t \in Checkers, Recheck(t) PROVE GateInv'
    BY <1>6 DEF Recheck, GateGoto
  <1>7. ASSUME NEW t \in Checkers, StoreLastRun(t) PROVE GateInv'
    BY <1>7 DEF StoreLastRun, GateGoto
  <1>8. ASSUME NEW t \in Checkers, Release(t) PROVE GateInv'
    BY <1>8 DEF Release, GateGoto
  <1>9. CASE Restart
    BY <1>9 DEF Restart
  <1>10. CASE GateTick
    <2>1. clock' \in Nat /\ 0..clock \subseteq 0..clock'
      BY <1>10 DEF GateTick
    <2>2. now \in [Checkers -> 0..clock'] /\ lastRun \in [Kinds -> 0..clock']
      BY <2>1
    <2>3. QED
      BY <1>10, <2>1, <2>2 DEF GateTick
  <1>11. CASE UNCHANGED gateVars
    BY <1>11 DEF gateVars
  <1>12. QED
    BY <1>1, <1>2, <1>3, <1>4, <1>5, <1>6, <1>7, <1>8, <1>9, <1>10, <1>11
    DEF GateNext, TryBackground

LEMMA SpecInv == GateSpec => []GateInv
  BY InitGate, NextInv, PTL DEF GateSpec

(* The variables of the gate keep their types; no stored time is later     *)
(* than the clock.                                                         *)
THEOREM GateTypeCorrect == GateSpec => []GateTypeOK
  <1>1. GateInv => GateTypeOK
    BY DEF GateInv
  <1>2. QED
    BY <1>1, SpecInv, PTL

(* However try_background interleaves with runs by the button, with other  *)
(* threads and with failing stores, one thread owns the permit exactly     *)
(* while BACKGROUND_TAKEN is set.                                          *)
THEOREM PermitIsUnique == GateSpec => []OnePermit
  <1>1. GateInv => OnePermit
    BY DEF GateInv
  <1>2. QED
    BY <1>1, SpecInv, PTL

-----------------------------------------------------------------------------
(* What it takes to break the interval.                                    *)

(* Between reading the stored time and storing its own. *)
Decided(t) == gatePc[t] \in {"take", "recheck", "store"}

(* No two threads have decided on a check of the same kind. *)
DecisionsApart == \A t, u \in Checkers : t # u /\ Decided(t) /\ Decided(u) => kind[t] # kind[u]

(* What ReadLastRun found stays true until the time is stored, because     *)
(* nobody else stores a time of this kind.                                 *)
DecisionStands == \A t \in Checkers : Decided(t) => ~TooEarly(t)

LEMMA DecisionStep ==
    ASSUME DecisionsApart, GateInv, DecisionStands, [GateNext]_gateVars
    PROVE  DecisionStands'
  <1> USE DEF GateInv, GateTypeOK, GateLabels, Decided
  <1>1. ASSUME lastRun' = lastRun, NEW t \in Checkers, GateGoto(t, "idle"),
               UNCHANGED <<kind, now>>
        PROVE  DecisionStands'
    BY <1>1 DEF DecisionStands, TooEarly, GateGoto
  <1>2. ASSUME UNCHANGED <<gatePc, kind, now, lastRun>> PROVE DecisionStands'
    BY <1>2 DEF DecisionStands, TooEarly
  <1>3. ASSUME NEW r \in Runs, BeginUserRun(r) \/ EndUserRun(r) PROVE DecisionStands'
    BY <1>2, <1>3 DEF BeginUserRun, EndUserRun
  <1>4. ASSUME NEW t \in Checkers, NEW k \in Kinds, Ask(t, k) PROVE DecisionStands'
    BY <1>4 DEF Ask, GateGoto, DecisionStands, TooEarly
  <1>5. ASSUME NEW t \in Checkers, ReadClock(t) PROVE DecisionStands'
    BY <1>5 DEF ReadClock, GateGoto, DecisionStands, TooEarly
  <1>6. ASSUME NEW t \in Checkers, ReadLastRun(t) PROVE DecisionStands'
    BY <1>6 DEF ReadLastRun, GateGoto, DecisionStands, TooEarly
  <1>7. ASSUME NEW t \in Checkers, TakePermit(t) PROVE DecisionStands'
    BY <1>7 DEF TakePermit, GateGoto, DecisionStands, TooEarly
  <1>8. ASSUME NEW t \in Checkers, Recheck(t) PROVE DecisionStands'
    BY <1>8 DEF Recheck, GateGoto, DecisionStands, TooEarly
  <1>9. ASSUME NEW t \in Checkers, StoreLastRun(t) PROVE DecisionStands'
    <2>1. CASE lastRun' = lastRun
      BY <1>1, <1>9, <2>1 DEF StoreLastRun, DecisionStands, GateGoto, TooEarly
    <2>2. CASE lastRun' = [lastRun EXCEPT ![kind[t]] = now[t]] /\ GateGoto(t, "hold")
      <3>1. kind' = kind /\ now' = now /\ gatePc' = [gatePc EXCEPT ![t] = "hold"]
        BY <1>9, <2>2 DEF StoreLastRun, GateGoto
      <3>3. ASSUME NEW u \in Checkers, gatePc'[u] \in {"take", "recheck", "store"}
            PROVE  u # t /\ gatePc'[u] = gatePc[u] /\ lastRun'[kind[u]] = lastRun[kind[u]]
        <4>1. u # t /\ gatePc'[u] = gatePc[u]
          BY <3>1, <3>3
        <4>2. gatePc[t] = "store"
          BY <1>9 DEF StoreLastRun
        <4>3. kind[u] # kind[t]
          BY <3>3, <4>1, <4>2 DEF DecisionsApart
        <4>4. QED
          BY <2>2, <4>1, <4>3
      <3>4. QED
        BY <3>1, <3>3 DEF DecisionStands, TooEarly
    <2>3. QED
      BY <1>9, <2>1, <2>2 DEF StoreLastRun
  <1>10. ASSUME NEW t \in Checkers, Release(t) PROVE DecisionStands'
    BY <1>1, <1>10 DEF Release
  <1>11. CASE Restart
    BY <1>11 DEF Restart, DecisionStands
  <1>12. CASE GateTick
    BY <1>2, <1>12 DEF GateTick
  <1>13. CASE UNCHANGED gateVars
    BY <1>2, <1>13 DEF gateVars
  <1>14. QED
    BY <1>3, <1>4, <1>5, <1>6, <1>7, <1>8, <1>9, <1>10, <1>11, <1>12, <1>13
    DEF GateNext, TryBackground

(* In a behaviour that breaks the interval of a kind two threads have      *)
(* decided on a check of one kind at the same time; nothing else breaks    *)
(* it: no run by the button, no failed store, no restart of the program.   *)
THEOREM OnlyARaceBreaksIt == GateSpec /\ []DecisionsApart => IntervalKept
  <1> DEFINE Kept == \A k \in Kinds :
                        lastRun'[k] > lastRun[k] => lastRun'[k] - lastRun[k] >= Interval[k]
  <1>1. GateInit => DecisionStands
    BY DEF GateInit, DecisionStands, Decided
  <1>2. DecisionsApart /\ GateInv /\ DecisionStands /\ [GateNext]_gateVars => DecisionStands'
    BY DecisionStep
  <1>3. GateInv /\ DecisionStands /\ [GateNext]_gateVars => [Kept]_gateVars
    <2> SUFFICES ASSUME GateInv, DecisionStands, [GateNext]_gateVars PROVE Kept \/ UNCHANGED gateVars
      OBVIOUS
    <2> USE DEF GateInv, GateTypeOK
    <2>1. ASSUME NEW t \in Checkers, StoreLastRun(t),
                 lastRun' = [lastRun EXCEPT ![kind[t]] = now[t]]
          PROVE  Kept
      <3>1. ~TooEarly(t)
        BY <2>1 DEF StoreLastRun, DecisionStands, Decided
      <3>2. /\ now[t] \in Nat /\ Interval[kind[t]] \in Nat
            /\ \A k \in Kinds : lastRun[k] \in Nat /\ (k # kind[t] => lastRun'[k] = lastRun[k])
            /\ lastRun'[kind[t]] = now[t]
        <4>1. kind[t] \in Kinds /\ now[t] \in 0..clock
          OBVIOUS
        <4>2. Interval[kind[t]] \in Nat
          BY <4>1, GateAssumption
        <4>3. QED
          BY <2>1, <4>1, <4>2
      <3>3. QED
        BY <3>1, <3>2 DEF TooEarly
    <2>2. lastRun' = lastRun => Kept
      OBVIOUS
    <2>3. lastRun' = lastRun \/ \E t \in Checkers :
              StoreLastRun(t) /\ lastRun' = [lastRun EXCEPT ![kind[t]] = now[t]]
      BY DEF GateNext, gateVars, BeginUserRun, EndUserRun, TryBackground, Release, Ask, ReadClock,
             ReadLastRun, TakePermit, Recheck, StoreLastRun, Restart, GateTick
    <2>4. QED
      BY <2>1, <2>2, <2>3
  <1>4. QED
    BY <1>1, <1>2, <1>3, SpecInv, PTL DEF GateSpec, IntervalKept

-----------------------------------------------------------------------------
(* A run of the diagnostics with any number of tasks, lanes, stages and    *)
(* workers: no lane lets more tasks into the pool than its limit, none     *)
(* keeps a task back while it has room and nobody pumps it, and no stage   *)
(* begins before the one before it is over.                                *)
(*                                                                         *)
(* The strengthening says where a task is: in which list, once, and in     *)
(* whose hand; from this the pool's share of each lane, and what is left   *)
(* of a stage, are counted.                                                *)

(* Types but for the coordinator's counters. *)
PcTypes == diagPc \in [Threads -> Places \cup {"closing"}] /\ result \in [Tasks -> Results]
PoolTypes == queue \in Seq(Tasks) /\ open \in BOOLEAN
LaneTypes ==
    /\ waiting \in [Lanes -> Seq(Tasks)] /\ running \in [Lanes -> Nat]
    /\ closed \in [Lanes -> BOOLEAN]
PumpTypes == pumping \in [Threads -> Lanes \cup {NoLane}] /\ hand \in [Threads -> Threads]
RunTypes == PcTypes /\ PoolTypes /\ LaneTypes /\ PumpTypes /\ userStopped \in BOOLEAN

(* A task is in one list or in one hand, and knows it. *)
QueueInv ==
    /\ \A i \in 1..Len(queue) : diagPc[queue[i]] = "queued"
    /\ \A i, j \in 1..Len(queue) : queue[i] = queue[j] => i = j

WaitInv(l) ==
    /\ \A i \in 1..Len(waiting[l]) : /\ diagPc[waiting[l][i]] = "waiting"
                                     /\ LaneOf[waiting[l][i]] = l
    /\ \A i, j \in 1..Len(waiting[l]) : waiting[l][i] = waiting[l][j] => i = j

HandInv ==
    /\ \A h \in Threads : hand[h] # NoTask => diagPc[hand[h]] = "held"
    /\ \A h, k \in Threads : hand[h] = hand[k] /\ hand[h] # NoTask => h = k

PlaceInv == QueueInv /\ (\A l \in Lanes : WaitInv(l)) /\ HandInv

(* The pool is closed after the lanes; who has answered does not pump yet; *)
(* what has ended has a result.                                            *)
EndInv ==
    /\ ~open => \A l \in Lanes : closed[l]
    /\ \A t \in Tasks : diagPc[t] = "ended" => pumping[t] = NoLane
    /\ \A t \in Tasks : diagPc[t] \in {"ended", "done"} => result[t] # "none"

(* Per lane: what it has in the pool is counted. *)
CountInv(l) ==
    /\ Cardinality(InPool(l)) <= running[l] /\ running[l] <= Limit[l]
    /\ open => running[l] = Cardinality(InPool(l))

(* What the coordinator has not begun is new, what it has left behind is   *)
(* done, and it waits for at least as many tasks as are not done.          *)
Unfinished(i) == {t \in Stages[i] : diagPc[t] # "done"}

StageInv ==
    /\ stage \in 0..Len(Stages) /\ left \in 0..Cardinality(Staged)
    /\ stage > 0 => diagPc[Coord] \in {"running", "done"}
    /\ \A i \in 1..Len(Stages) : i > stage => \A t \in Stages[i] : diagPc[t] \in {"new", "dropped"}
    /\ \A i \in 1..Len(Stages) : i < stage => \A t \in Stages[i] : diagPc[t] = "done"
    /\ stage > 0 => Cardinality(Unfinished(stage)) <= left

DiagInv == RunTypes /\ PlaceInv /\ EndInv /\ (\A l \in Lanes : CountInv(l)) /\ StageInv

-----------------------------------------------------------------------------
LEMMA StagedTasks ==
    /\ Staged \subseteq Tasks /\ Cardinality(Staged) \in Nat
    /\ \A i \in 1..Len(Stages) :
          Stages[i] \subseteq Staged /\ IsFiniteSet(Stages[i])
          /\ Cardinality(Stages[i]) \in 0..Cardinality(Staged)
<1>1. \A i \in 1..Len(Stages) : Stages[i] \subseteq Staged /\ Stages[i] \subseteq Tasks
  BY RunAssumption DEF Staged
<1>2. Staged \subseteq Tasks
  BY RunAssumption DEF Staged
<1>3. IsFiniteSet(Staged) /\ Cardinality(Staged) \in Nat
  BY <1>2, RunAssumption, FS_Subset, FS_CardinalityType
<1>4. \A i \in 1..Len(Stages) : IsFiniteSet(Stages[i]) /\ Cardinality(Stages[i]) \in Nat
                                /\ Cardinality(Stages[i]) <= Cardinality(Staged)
  BY <1>1, <1>3, FS_Subset, FS_CardinalityType
<1> QED BY <1>1, <1>2, <1>3, <1>4

LEMMA PoolFinite ==
    ASSUME NEW l PROVE IsFiniteSet(InPool(l)) /\ Cardinality(InPool(l)) \in Nat
  BY RunAssumption, FS_Subset, FS_CardinalityType DEF InPool

LEMMA DiagInitInv == DiagInit => DiagInv /\ NobodyForgotten
<1> SUFFICES ASSUME DiagInit PROVE DiagInv /\ NobodyForgotten
  OBVIOUS
<1> USE RunAssumption DEF DiagInit
<1>1. RunTypes
  <2>1. PcTypes /\ PoolTypes
    BY DEF PcTypes, PoolTypes, Threads, Places, Results
  <2>2. LaneTypes /\ PumpTypes
    BY DEF LaneTypes, PumpTypes, Threads, NoTask
  <2> QED BY <2>1, <2>2 DEF RunTypes
<1>2. PlaceInv
  BY DEF PlaceInv, QueueInv, WaitInv, HandInv, NoTask, Threads
<1>3. EndInv
  BY DEF EndInv, Threads
<1>4. ASSUME NEW l \in Lanes PROVE CountInv(l)
  <2>1. InPool(l) = {}
    BY DEF InPool, Threads
  <2> QED BY <2>1, FS_EmptySet DEF CountInv
<1>5. StageInv
  BY StagedTasks DEF StageInv, Threads
<1>6. NobodyForgotten
  BY DEF NobodyForgotten, HasRoom
<1> QED BY <1>1, <1>2, <1>3, <1>4, <1>5, <1>6 DEF DiagInv

(* Lists. *)
LEMMA TailFacts ==
    ASSUME NEW s \in Seq(Tasks), s # <<>>
    PROVE  /\ Head(s) \in Tasks /\ Head(s) = s[1] /\ 1 \in 1..Len(s)
           /\ Tail(s) \in Seq(Tasks) /\ Len(Tail(s)) = Len(s) - 1
           /\ \A i \in 1..Len(Tail(s)) : i + 1 \in 1..Len(s) /\ Tail(s)[i] = s[i + 1]
  OBVIOUS

LEMMA AppendFacts ==
    ASSUME NEW s \in Seq(Tasks), NEW t \in Tasks
    PROVE  /\ Append(s, t) \in Seq(Tasks) /\ Len(Append(s, t)) = Len(s) + 1
           /\ \A i \in 1..Len(s) : Append(s, t)[i] = s[i]
           /\ Append(s, t)[Len(s) + 1] = t
  OBVIOUS

LEMMA ToSetFacts ==
    ASSUME NEW s \in Seq(Tasks)
    PROVE  /\ ToSet(s) \subseteq Tasks
           /\ \A t : t \in ToSet(s) <=> \E i \in 1..Len(s) : s[i] = t
  BY DEF ToSet

(* A task goes to the pool and finds it open or closed. *)
LEMMA PushType ==
    ASSUME PcTypes, PoolTypes, NEW t \in Tasks, Push(t)
    PROVE  PcTypes' /\ PoolTypes'
<1>1. CASE open
  <2>1. /\ queue' = Append(queue, t) /\ diagPc' = [diagPc EXCEPT ![t] = "queued"]
        /\ UNCHANGED <<open, result>>
    BY <1>1 DEF Push
  <2>2. PcTypes'
    BY <2>1 DEF PcTypes, Places
  <2> QED BY <2>1, <2>2, AppendFacts DEF PoolTypes
<1>2. CASE ~open
  <2>1. /\ diagPc' = [diagPc EXCEPT ![t] = "dropped"] /\ UNCHANGED <<queue, open>>
        /\ result' = [result EXCEPT ![t] = Refusal(t)]
    BY <1>2 DEF Push, poolVars
  <2>2. Refusal(t) \in Results
    BY DEF Refusal, Results
  <2>3. PcTypes'
    BY <2>1, <2>2 DEF PcTypes, Places
  <2> QED BY <2>1, <2>3 DEF PoolTypes
<1> QED BY <1>1, <1>2

(* Submissions, pumps, answers and closings keep the types. *)
LEMMA TypeStep == DiagInv /\ [DiagNext]_diagVars => RunTypes'
<1> SUFFICES ASSUME DiagInv, [DiagNext]_diagVars
             PROVE  PcTypes' /\ PoolTypes' /\ LaneTypes' /\ PumpTypes' /\ (userStopped \in BOOLEAN)'
  BY DEF RunTypes
<1>0. RunTypes /\ PcTypes /\ PoolTypes /\ LaneTypes /\ PumpTypes /\ userStopped \in BOOLEAN
  BY DEF DiagInv, RunTypes
<1> USE RunAssumption DEF poolVars, laneVars, pumpVars, stageVars
<1>1. ASSUME NEW h \in Threads, NEW t \in Tasks, Submit(h, t)
      PROVE PcTypes' /\ PoolTypes' /\ LaneTypes' /\ PumpTypes' /\ (userStopped \in BOOLEAN)'
  <2>1. CASE SubmitPlain(t)
    BY <1>0, <1>1, <2>1, PushType DEF Submit, SubmitPlain, LaneTypes, PumpTypes, laneVars,
       pumpVars
  <2>2. CASE SubmitToLane(h, t) /\ closed[LaneOf[t]]
    BY <1>0, <1>1, <2>2 DEF Submit, SubmitToLane, PcTypes, PoolTypes, LaneTypes, PumpTypes,
       Places, Results, poolVars
  <2>3. CASE SubmitToLane(h, t) /\ ~closed[LaneOf[t]]
    <3> DEFINE l == LaneOf[t]
    <3>1. l \in Lanes /\ Append(waiting[l], t) \in Seq(Tasks)
      BY <1>0, <2>3 DEF SubmitToLane, LaneTypes
    <3>2. PcTypes' /\ PoolTypes'
      BY <1>0, <1>1, <2>3 DEF Submit, SubmitToLane, PcTypes, PoolTypes, Places, poolVars
    <3>3. LaneTypes'
      <4>1. waiting' = [waiting EXCEPT ![l] = Append(waiting[l], t)]
            /\ UNCHANGED <<running, closed>>
        BY <2>3 DEF SubmitToLane
      <4> QED BY <1>0, <3>1, <4>1 DEF LaneTypes
    <3>4. PumpTypes'
      BY <1>0, <1>1, <2>3, <3>1 DEF Submit, SubmitToLane, PumpTypes
    <3> QED BY <1>0, <1>1, <3>2, <3>3, <3>4 DEF Submit
  <2> QED BY <1>0, <1>1, <2>1, <2>2, <2>3 DEF Submit
<1>2. ASSUME NEW h \in Threads, PumpTake(h)
      PROVE PcTypes' /\ PoolTypes' /\ LaneTypes' /\ PumpTypes' /\ (userStopped \in BOOLEAN)'
  <2> DEFINE l == pumping[h]
  <2>1. CASE UNCHANGED <<diagPc, waiting, running, hand>>
    BY <1>0, <1>2, <2>1 DEF PumpTake, PcTypes, PoolTypes, LaneTypes, PumpTypes, poolVars
  <2>2. CASE ~closed[l] /\ HasRoom(l)
    <3>1. l \in Lanes /\ Head(waiting[l]) \in Tasks /\ Tail(waiting[l]) \in Seq(Tasks)
      BY <1>0, <1>2, <2>2, TailFacts DEF PumpTake, PumpTypes, LaneTypes, HasRoom
    <3>2. PcTypes' /\ PoolTypes'
      BY <1>0, <1>2, <2>2, <3>1 DEF PumpTake, PcTypes, PoolTypes, Places, poolVars
    <3>3. LaneTypes'
      <4>1. /\ waiting' = [waiting EXCEPT ![l] = Tail(waiting[l])]
            /\ running' = [running EXCEPT ![l] = running[l] + 1] /\ UNCHANGED closed
        BY <1>2, <2>2 DEF PumpTake
      <4> QED BY <1>0, <3>1, <4>1 DEF LaneTypes
    <3>4. PumpTypes'
      <4>1. UNCHANGED pumping /\ hand' = [hand EXCEPT ![h] = Head(waiting[l])]
        BY <1>2, <2>2 DEF PumpTake
      <4>2. Head(waiting[l]) \in Threads
        BY <3>1 DEF Threads
      <4> QED BY <1>0, <4>1, <4>2 DEF PumpTypes
    <3> QED BY <1>0, <1>2, <3>2, <3>3, <3>4 DEF PumpTake
  <2> QED BY <1>2, <2>1, <2>2 DEF PumpTake
<1>3. ASSUME NEW h \in Threads, PumpPush(h)
      PROVE PcTypes' /\ PoolTypes' /\ LaneTypes' /\ PumpTypes' /\ (userStopped \in BOOLEAN)'
  <2>1. hand[h] \in Tasks /\ Push(hand[h])
    BY <1>0, <1>3 DEF PumpPush, PumpTypes, Threads, NoTask
  <2>2. PcTypes' /\ PoolTypes'
    BY <1>0, <2>1, PushType
  <2>3. LaneTypes' /\ PumpTypes'
    BY <1>0, <1>3 DEF PumpPush, LaneTypes, PumpTypes, Threads, NoTask, laneVars
  <2> QED BY <1>0, <1>3, <2>2, <2>3 DEF PumpPush
<1>4. ASSUME NEW t \in Tasks, Answer(t)
      PROVE PcTypes' /\ PoolTypes' /\ LaneTypes' /\ PumpTypes' /\ (userStopped \in BOOLEAN)'
  <2>1. PcTypes'
    BY <1>0, <1>4 DEF PcTypes, PumpTypes, PoolTypes, LaneTypes, Places, Results, Threads,
       NoTask, Answer
  <2>2. PoolTypes'
    BY <1>0, <1>4 DEF PoolTypes, PumpTypes, PcTypes, Threads, NoTask, Answer
  <2>3. LaneTypes'
    BY <1>0, <1>4 DEF LaneTypes, Answer
  <2>4. PumpTypes'
    BY <1>0, <1>4 DEF PumpTypes, LaneTypes, Threads, NoTask, Answer
  <2>5. (userStopped \in BOOLEAN)'
    BY <1>0, <1>4 DEF RunTypes, Answer
  <2> QED BY <2>1, <2>2, <2>3, <2>4, <2>5
<1>5. ASSUME NEW t \in Tasks, LeaveLane(t)
      PROVE PcTypes' /\ PoolTypes' /\ LaneTypes' /\ PumpTypes' /\ (userStopped \in BOOLEAN)'
  <2>1. LaneOf[t] \in Lanes /\ t \in InPool(LaneOf[t])
    BY <1>5 DEF LeaveLane, InPool
  <2>2. running[LaneOf[t]] - 1 \in Nat
    BY <1>0, <2>1, PoolFinite, FS_EmptySet DEF DiagInv, CountInv, LaneTypes
  <2>3. PcTypes' /\ PoolTypes' /\ PumpTypes'
    BY <1>0, <1>5, <2>1 DEF LeaveLane, PcTypes, PoolTypes, PumpTypes, Places, Threads,
       poolVars
  <2>4. LaneTypes'
    BY <1>0, <1>5, <2>1, <2>2 DEF LeaveLane, LaneTypes
  <2> QED BY <1>0, <1>5, <2>3, <2>4 DEF LeaveLane
<1>6. ASSUME NEW t \in Tasks, LeaveStage(t)
      PROVE PcTypes' /\ PoolTypes' /\ LaneTypes' /\ PumpTypes' /\ (userStopped \in BOOLEAN)'
  <2>1. PcTypes'
    BY <1>0, <1>6 DEF PcTypes, PumpTypes, PoolTypes, LaneTypes, Places, Results, Threads,
       NoTask, LeaveStage
  <2>2. PoolTypes'
    BY <1>0, <1>6 DEF PoolTypes, PumpTypes, PcTypes, Threads, NoTask, LeaveStage
  <2>3. LaneTypes'
    BY <1>0, <1>6 DEF LaneTypes, LeaveStage
  <2>4. PumpTypes'
    BY <1>0, <1>6 DEF PumpTypes, LaneTypes, Threads, NoTask, LeaveStage
  <2>5. (userStopped \in BOOLEAN)'
    BY <1>0, <1>6 DEF RunTypes, LeaveStage
  <2> QED BY <2>1, <2>2, <2>3, <2>4, <2>5
<1>7. CASE BeginClose
  <2>1. PcTypes'
    BY <1>0, <1>7 DEF PcTypes, PumpTypes, PoolTypes, LaneTypes, Places, Results, Threads,
       NoTask, BeginClose
  <2>2. PoolTypes'
    BY <1>0, <1>7 DEF PoolTypes, PumpTypes, PcTypes, Threads, NoTask, BeginClose
  <2>3. LaneTypes'
    BY <1>0, <1>7 DEF LaneTypes, BeginClose
  <2>4. PumpTypes'
    BY <1>0, <1>7 DEF PumpTypes, LaneTypes, Threads, NoTask, BeginClose
  <2>5. (userStopped \in BOOLEAN)'
    BY <1>0, <1>7 DEF RunTypes, BeginClose
  <2> QED BY <2>1, <2>2, <2>3, <2>4, <2>5
<1>8. ASSUME NEW l \in Lanes, CloseLane(l)
      PROVE PcTypes' /\ PoolTypes' /\ LaneTypes' /\ PumpTypes' /\ (userStopped \in BOOLEAN)'
  <2>1. PcTypes'
    BY <1>0, <1>8 DEF PcTypes, PumpTypes, PoolTypes, LaneTypes, Places, Results, Threads,
       NoTask, CloseLane
  <2>2. PoolTypes'
    BY <1>0, <1>8 DEF PoolTypes, PumpTypes, PcTypes, Threads, NoTask, CloseLane
  <2>3. LaneTypes'
    BY <1>0, <1>8 DEF LaneTypes, CloseLane
  <2>4. PumpTypes'
    BY <1>0, <1>8 DEF PumpTypes, LaneTypes, Threads, NoTask, CloseLane
  <2>5. (userStopped \in BOOLEAN)'
    BY <1>0, <1>8 DEF RunTypes, CloseLane
  <2> QED BY <2>1, <2>2, <2>3, <2>4, <2>5
<1>9. CASE ClosePool
  <2>1. PcTypes'
    BY <1>0, <1>9 DEF ClosePool, PcTypes, Places, Results, Refusal
  <2>2. PoolTypes'
    <3>1. queue' = <<>>
      BY <1>9 DEF ClosePool
    <3>2. open' \in BOOLEAN
      BY <1>9 DEF ClosePool
    <3> QED BY <3>1, <3>2 DEF PoolTypes
  <2>3. LaneTypes' /\ PumpTypes'
    BY <1>0, <1>9 DEF ClosePool, LaneTypes, PumpTypes, laneVars, pumpVars
  <2> QED BY <1>0, <1>9, <2>1, <2>2, <2>3 DEF ClosePool
<1>10. CASE NextStage
  <2>1. PcTypes'
    BY <1>0, <1>10 DEF PcTypes, PumpTypes, PoolTypes, LaneTypes, Places, Results, Threads,
       NoTask, NextStage, Coordinating
  <2>2. PoolTypes'
    BY <1>0, <1>10 DEF PoolTypes, PumpTypes, PcTypes, Threads, NoTask, NextStage,
       Coordinating
  <2>3. LaneTypes'
    BY <1>0, <1>10 DEF LaneTypes, NextStage, Coordinating
  <2>4. PumpTypes'
    BY <1>0, <1>10 DEF PumpTypes, LaneTypes, Threads, NoTask, NextStage, Coordinating
  <2>5. (userStopped \in BOOLEAN)'
    BY <1>0, <1>10 DEF RunTypes, NextStage, Coordinating
  <2> QED BY <2>1, <2>2, <2>3, <2>4, <2>5
<1>11. ASSUME NEW t \in Tasks, PushStaged(t)
       PROVE PcTypes' /\ PoolTypes' /\ LaneTypes' /\ PumpTypes' /\ (userStopped \in BOOLEAN)'
  BY <1>0, <1>11, PushType DEF PushStaged, LaneTypes, PumpTypes, laneVars, pumpVars
<1>12. CASE StagesOver
  <2>1. PcTypes'
    BY <1>0, <1>12 DEF PcTypes, PumpTypes, PoolTypes, LaneTypes, Places, Results, Threads,
       NoTask, StagesOver, Coordinating
  <2>2. PoolTypes'
    BY <1>0, <1>12 DEF PoolTypes, PumpTypes, PcTypes, Threads, NoTask, StagesOver,
       Coordinating
  <2>3. LaneTypes'
    BY <1>0, <1>12 DEF LaneTypes, StagesOver, Coordinating
  <2>4. PumpTypes'
    BY <1>0, <1>12 DEF PumpTypes, LaneTypes, Threads, NoTask, StagesOver, Coordinating
  <2>5. (userStopped \in BOOLEAN)'
    BY <1>0, <1>12 DEF RunTypes, StagesOver, Coordinating
  <2> QED BY <2>1, <2>2, <2>3, <2>4, <2>5
<1>13. CASE Begin
  <2>1. PcTypes'
    BY <1>0, <1>13 DEF PcTypes, PumpTypes, PoolTypes, LaneTypes, Places, Results, Threads,
       NoTask, Begin
  <2>2. PoolTypes'
    BY <1>0, <1>13 DEF PoolTypes, PumpTypes, PcTypes, Threads, NoTask, Begin
  <2>3. LaneTypes'
    BY <1>0, <1>13 DEF LaneTypes, Begin
  <2>4. PumpTypes'
    BY <1>0, <1>13 DEF PumpTypes, LaneTypes, Threads, NoTask, Begin
  <2>5. (userStopped \in BOOLEAN)'
    BY <1>0, <1>13 DEF RunTypes, Begin
  <2> QED BY <2>1, <2>2, <2>3, <2>4, <2>5
<1>14. CASE UserStops
  BY <1>0, <1>14 DEF UserStops, PcTypes, PoolTypes, LaneTypes, PumpTypes,
     poolVars, laneVars, pumpVars
<1>15. CASE UNCHANGED diagVars
  BY <1>0, <1>15 DEF diagVars, RunTypes, PcTypes, PoolTypes, LaneTypes, PumpTypes,
     poolVars, laneVars, pumpVars, stageVars
<1> QED BY <1>1, <1>2, <1>3, <1>4, <1>5, <1>6, <1>7, <1>8, <1>9, <1>10, <1>11,
           <1>12, <1>13, <1>14, <1>15
     DEF DiagNext, StepOf, ThreadStep, MainStep, CoordStep, TaskStep

LEMMA PushEnd ==
    ASSUME DiagInv, NEW t \in Tasks, Push(t), UNCHANGED <<closed, pumping>>
    PROVE  EndInv'
<1> USE RunAssumption DEF DiagInv, RunTypes, PcTypes, PumpTypes, LaneTypes, PoolTypes,
        Threads, EndInv, Push, Refusal, poolVars
<1>1. CASE open
  BY <1>1
<1>2. CASE ~open
  <2>1. /\ diagPc' = [diagPc EXCEPT ![t] = "dropped"] /\ UNCHANGED open
        /\ result' = [result EXCEPT ![t] = Refusal(t)] /\ Refusal(t) # "none"
    BY <1>2
  <2> HIDE DEF Push, Refusal
  <2> QED BY <2>1
<1> QED BY <1>1, <1>2

(* Who has answered, what is closed. *)
LEMMA EndStep == DiagInv /\ [DiagNext]_diagVars => EndInv'
<1> SUFFICES ASSUME DiagInv, [DiagNext]_diagVars PROVE EndInv'
  OBVIOUS
<1> USE RunAssumption DEF DiagInv, RunTypes, PcTypes, PumpTypes, LaneTypes, PoolTypes,
   Threads, EndInv,
   poolVars, laneVars, pumpVars, stageVars
<1>1. ASSUME NEW h \in Threads, NEW t \in Tasks, Submit(h, t) PROVE EndInv'
  <2>1. CASE SubmitPlain(t)
    BY <1>1, <2>1, PushEnd DEF Submit, SubmitPlain
  <2>2. CASE SubmitToLane(h, t) /\ closed[LaneOf[t]]
    <3>1. /\ diagPc' = [diagPc EXCEPT ![t] = "dropped"]
          /\ result' = [result EXCEPT ![t] = "cancelled"] /\ UNCHANGED <<open, closed, pumping>>
      BY <1>1, <2>2 DEF Submit, SubmitToLane
    <3> QED BY <3>1
  <2>3. CASE SubmitToLane(h, t) /\ ~closed[LaneOf[t]]
    <3>1. /\ diagPc' = [diagPc EXCEPT ![t] = "waiting"] /\ UNCHANGED <<result, open, closed>>
          /\ pumping' = [pumping EXCEPT ![h] = LaneOf[t]]
          /\ diagPc[h] = "running" /\ diagPc[t] = "new"
      BY <1>1, <2>3 DEF Submit, SubmitToLane
    <3> QED BY <3>1
  <2> QED BY <1>1, <2>1, <2>2, <2>3 DEF Submit
<1>2. ASSUME NEW h \in Threads, PumpTake(h) PROVE EndInv'
  BY <1>2 DEF PumpTake, HasRoom
<1>3. ASSUME NEW h \in Threads, PumpPush(h) PROVE EndInv'
  BY <1>3 DEF PumpPush, Push, Refusal, NoTask
<1>4. ASSUME NEW t \in Tasks, Answer(t) PROVE EndInv'
  BY <1>4 DEF Answer
<1>5. ASSUME NEW t \in Tasks, LeaveLane(t) PROVE EndInv'
  BY <1>5 DEF LeaveLane
<1>6. ASSUME NEW t \in Tasks, LeaveStage(t) PROVE EndInv'
  BY <1>6 DEF LeaveStage
<1>7. CASE BeginClose
  BY <1>7 DEF BeginClose
<1>8. ASSUME NEW l \in Lanes, CloseLane(l) PROVE EndInv'
  BY <1>8 DEF CloseLane
<1>9. CASE ClosePool
  BY <1>9 DEF ClosePool, Refusal
<1>10. CASE NextStage
  BY <1>10 DEF NextStage
<1>11. ASSUME NEW t \in Tasks, PushStaged(t) PROVE EndInv'
  BY <1>11, PushEnd DEF PushStaged
<1>12. CASE StagesOver
  BY <1>12 DEF StagesOver
<1>13. CASE Begin
  BY <1>13 DEF Begin
<1>14. CASE UserStops
  BY <1>14 DEF UserStops
<1>15. CASE UNCHANGED diagVars
  BY <1>15 DEF diagVars, poolVars, laneVars, pumpVars, stageVars
<1> QED BY <1>1, <1>2, <1>3, <1>4, <1>5, <1>6, <1>7, <1>8, <1>9, <1>10, <1>11,
           <1>12, <1>13, <1>14, <1>15
     DEF DiagNext, StepOf, ThreadStep, MainStep, CoordStep, TaskStep

(* A lane with room keeps its pumper, or gets another one. *)
LEMMA ForgottenStep == DiagInv /\ NobodyForgotten /\ [DiagNext]_diagVars => NobodyForgotten'
<1> SUFFICES ASSUME DiagInv /\ NobodyForgotten, [DiagNext]_diagVars PROVE NobodyForgotten'
  OBVIOUS
<1> USE RunAssumption DEF DiagInv, RunTypes, PcTypes, PumpTypes, LaneTypes, PoolTypes,
   Threads, EndInv,
   NobodyForgotten, HasRoom, poolVars, laneVars, pumpVars, stageVars
<1>1. ASSUME NEW h \in Threads, NEW t \in Tasks, Submit(h, t) PROVE NobodyForgotten'
  <2>1. CASE SubmitPlain(t)
    BY <1>1, <2>1 DEF Submit, SubmitPlain, Push, Refusal
  <2>2. CASE SubmitToLane(h, t) /\ closed[LaneOf[t]]
    BY <1>1, <2>2 DEF Submit, SubmitToLane
  <2>3. CASE SubmitToLane(h, t) /\ ~closed[LaneOf[t]]
    <3> DEFINE l == LaneOf[t]
    <3>0. l \in Lanes
      BY <2>3 DEF SubmitToLane
    <3>1. /\ waiting' = [waiting EXCEPT ![l] = Append(waiting[l], t)]
          /\ pumping' = [pumping EXCEPT ![h] = l] /\ pumping[h] = NoLane
          /\ UNCHANGED <<running, closed>>
      BY <1>1, <2>3 DEF Submit, SubmitToLane
    <3>2. ASSUME NEW k \in Lanes, HasRoom(k)', ~closed'[k]
          PROVE  \E g \in Threads : pumping'[g] = k
      <4>1. CASE k = l
        BY <3>0, <3>1, <4>1
      <4>2. CASE k # l
        <5>1. HasRoom(k) /\ ~closed[k]
          BY <3>0, <3>1, <3>2, <4>2
        <5>2. PICK g \in Threads : pumping[g] = k
          BY <5>1
        <5> QED BY <3>1, <5>2
      <4> QED BY <4>1, <4>2
    <3> QED BY <3>2
  <2> QED BY <1>1, <2>1, <2>2, <2>3 DEF Submit
<1>2. ASSUME NEW h \in Threads, PumpTake(h) PROVE NobodyForgotten'
  <2> DEFINE l == pumping[h]
  <2>1. CASE closed[l] \/ ~HasRoom(l)
    <3>1. /\ pumping' = [pumping EXCEPT ![h] = NoLane]
          /\ UNCHANGED <<waiting, running, closed>>
      BY <1>2, <2>1 DEF PumpTake
    <3>2. ASSUME NEW k \in Lanes, HasRoom(k)', ~closed'[k]
          PROVE  \E g \in Threads : pumping'[g] = k
      <4>1. HasRoom(k) /\ ~closed[k]
        BY <3>1, <3>2
      <4>2. PICK g \in Threads : pumping[g] = k
        BY <4>1
      <4> QED BY <2>1, <3>1, <4>1, <4>2
    <3> QED BY <3>2
  <2>2. CASE ~closed[l] /\ HasRoom(l)
    BY <1>2, <2>2 DEF PumpTake
  <2> QED BY <2>1, <2>2
<1>3. ASSUME NEW h \in Threads, PumpPush(h) PROVE NobodyForgotten'
  BY <1>3 DEF PumpPush, Push, Refusal, NoTask
<1>4. ASSUME NEW t \in Tasks, Answer(t) PROVE NobodyForgotten'
  BY <1>4 DEF Answer
<1>5. ASSUME NEW t \in Tasks, LeaveLane(t) PROVE NobodyForgotten'
  BY <1>5 DEF LeaveLane
<1>6. ASSUME NEW t \in Tasks, LeaveStage(t) PROVE NobodyForgotten'
  BY <1>6 DEF LeaveStage
<1>7. CASE BeginClose
  BY <1>7 DEF BeginClose
<1>8. ASSUME NEW l \in Lanes, CloseLane(l) PROVE NobodyForgotten'
  BY <1>8 DEF CloseLane
<1>9. CASE ClosePool
  BY <1>9 DEF ClosePool, Refusal
<1>10. CASE NextStage
  BY <1>10 DEF NextStage
<1>11. ASSUME NEW t \in Tasks, PushStaged(t) PROVE NobodyForgotten'
  BY <1>11 DEF PushStaged, Push, Refusal
<1>12. CASE StagesOver
  BY <1>12 DEF StagesOver
<1>13. CASE Begin
  BY <1>13 DEF Begin
<1>14. CASE UserStops
  BY <1>14 DEF UserStops
<1>15. CASE UNCHANGED diagVars
  BY <1>15 DEF diagVars, poolVars, laneVars, pumpVars, stageVars
<1> QED BY <1>1, <1>2, <1>3, <1>4, <1>5, <1>6, <1>7, <1>8, <1>9, <1>10, <1>11,
           <1>12, <1>13, <1>14, <1>15
     DEF DiagNext, StepOf, ThreadStep, MainStep, CoordStep, TaskStep

-----------------------------------------------------------------------------
(* Where tasks are.                                                        *)

Placed == {"queued", "waiting", "held"}

LEMMA PlacesKept ==
    ASSUME DiagInv, UNCHANGED <<queue, waiting, hand>>,
           \A t \in Tasks : diagPc[t] \in Placed => diagPc'[t] = diagPc[t]
    PROVE  PlaceInv'
<1> USE DEF DiagInv, RunTypes, PoolTypes, LaneTypes, PumpTypes, PlaceInv, Placed
<1>1. QueueInv'
  <2>1. \A i \in 1..Len(queue) : queue[i] \in Tasks /\ diagPc[queue[i]] = "queued"
    BY DEF QueueInv
  <2>2. \A i \in 1..Len(queue) : diagPc'[queue[i]] = "queued"
    BY <2>1
  <2> QED BY <2>2 DEF QueueInv
<1>2. ASSUME NEW l \in Lanes PROVE WaitInv(l)'
  <2> DEFINE w == waiting[l]
  <2>1. w \in Seq(Tasks) /\ WaitInv(l) /\ waiting'[l] = w
    OBVIOUS
  <2> HIDE DEF DiagInv, RunTypes, PoolTypes, LaneTypes, PumpTypes, PlaceInv
  <2>2. \A i \in 1..Len(w) : w[i] \in Tasks /\ diagPc[w[i]] = "waiting" /\ LaneOf[w[i]] = l
    <3>1. \A i \in 1..Len(w) : w[i] \in Tasks
      BY <2>1
    <3> QED BY <2>1, <3>1 DEF WaitInv
  <2>3. \A i, j \in 1..Len(w) : w[i] = w[j] => i = j
    BY <2>1 DEF WaitInv
  <2> HIDE DEF w
  <2>4. \A i \in 1..Len(w) : diagPc'[w[i]] = "waiting" /\ LaneOf[w[i]] = l
    BY <2>2
  <2> QED BY <2>1, <2>3, <2>4 DEF WaitInv
<1>3. HandInv'
  BY DEF HandInv, Threads, NoTask
<1> QED BY <1>1, <1>2, <1>3

(* A task of the coordinator, of a job or of a hand goes to the pool. *)
LEMMA PushPlace ==
    ASSUME DiagInv, NEW t \in Tasks, diagPc[t] \in {"new", "held"}, Push(t), UNCHANGED waiting
    PROVE  /\ QueueInv' /\ \A l \in Lanes : WaitInv(l)'
           /\ \A u \in Tasks : u # t => diagPc'[u] = diagPc[u]
<1> DEFINE pc == IF open THEN "queued" ELSE "dropped"
<1>1. diagPc' = [diagPc EXCEPT ![t] = pc]
  BY DEF Push
<1>2. \A u \in Tasks : u # t => diagPc'[u] = diagPc[u]
  BY <1>1 DEF DiagInv, RunTypes, PcTypes
<1>3. diagPc'[t] = pc
  BY <1>1 DEF DiagInv, RunTypes, PcTypes, Threads
<1>4. QueueInv'
  <2> USE DEF DiagInv, RunTypes, PoolTypes, PlaceInv, QueueInv
  <2>1. CASE open
    <3>1. queue' = Append(queue, t)
      BY <2>1 DEF Push
    <3>2. \A i \in 1..Len(queue) : queue[i] # t /\ queue[i] \in Tasks
      OBVIOUS
    <3> HIDE DEF QueueInv
    <3>3. Len(queue') = Len(queue) + 1 /\ queue'[Len(queue) + 1] = t
          /\ \A i \in 1..Len(queue) : queue'[i] = queue[i]
      BY <3>1, AppendFacts
    <3>4. \A i \in 1..Len(queue') : i \in 1..Len(queue) \/ i = Len(queue) + 1
      BY <3>3
    <3>5. \A i \in 1..Len(queue') : diagPc'[queue'[i]] = "queued"
      BY <1>2, <1>3, <2>1, <3>2, <3>3, <3>4 DEF QueueInv
    <3>6. \A i, j \in 1..Len(queue') : queue'[i] = queue'[j] => i = j
      BY <3>2, <3>3, <3>4 DEF QueueInv
    <3> QED BY <3>5, <3>6 DEF QueueInv
  <2>2. CASE ~open
    <3>1. UNCHANGED queue
      BY <2>2 DEF Push, poolVars
    <3> QED BY <1>2, <3>1
  <2> QED BY <2>1, <2>2
<1>5. ASSUME NEW l \in Lanes PROVE WaitInv(l)'
  <2>1. waiting[l] \in Seq(Tasks) /\ WaitInv(l)
    BY DEF DiagInv, RunTypes, LaneTypes, PlaceInv
  <2>2. \A i \in 1..Len(waiting[l]) : waiting[l][i] \in Tasks /\ waiting[l][i] # t
    BY <2>1 DEF WaitInv
  <2> QED BY <1>2, <2>1, <2>2 DEF WaitInv
<1> QED BY <1>2, <1>4, <1>5

LEMMA PushFresh ==
    ASSUME DiagInv, NEW t \in Tasks, diagPc[t] = "new", Push(t), UNCHANGED <<waiting, hand>>
    PROVE  PlaceInv'
<1>1. QueueInv' /\ (\A l \in Lanes : WaitInv(l)')
      /\ \A u \in Tasks : u # t => diagPc'[u] = diagPc[u]
  BY PushPlace
<1>2. HandInv'
  BY <1>1 DEF HandInv, DiagInv, RunTypes, PumpTypes, PlaceInv, Threads, NoTask
<1> QED BY <1>1, <1>2 DEF PlaceInv

(* While the coordinator is queued, no stage has begun. *)
LEMMA OrphansAreNew ==
    ASSUME DiagInv, diagPc[Coord] = "queued"
    PROVE  \A t \in Staged : diagPc[t] \in {"new", "dropped"}
<1>1. stage = 0
  BY DEF DiagInv, StageInv
<1>2. \A i \in 1..Len(Stages) : \A t \in Stages[i] : diagPc[t] \in {"new", "dropped"}
  BY <1>1, RunAssumption DEF DiagInv, StageInv
<1> QED BY <1>2, RunAssumption DEF Staged

(* Every step leaves each task in one place. *)
LEMMA PlaceStep == DiagInv /\ [DiagNext]_diagVars => PlaceInv'
<1> SUFFICES ASSUME DiagInv, [DiagNext]_diagVars PROVE PlaceInv'
  OBVIOUS
<1>1. ASSUME NEW h \in Threads, NEW t \in Tasks, Submit(h, t) PROVE PlaceInv'
  <2>1. CASE SubmitPlain(t)
    BY <1>1, <2>1, PushFresh DEF Submit, SubmitPlain, laneVars, pumpVars
  <2>2. CASE SubmitToLane(h, t) /\ closed[LaneOf[t]]
    <3>1. UNCHANGED <<queue, waiting, hand>> /\ diagPc' = [diagPc EXCEPT ![t] = "dropped"]
          /\ diagPc[t] = "new"
      BY <1>1, <2>2 DEF Submit, SubmitToLane, poolVars
    <3> QED BY <3>1, PlacesKept DEF Placed, DiagInv, RunTypes, PcTypes, Threads
  <2>3. CASE SubmitToLane(h, t) /\ ~closed[LaneOf[t]]
    <3> DEFINE l == LaneOf[t]
    <3>1. l \in Lanes
      BY <2>3, RunAssumption DEF SubmitToLane
    <3>2. /\ waiting' = [waiting EXCEPT ![l] = Append(waiting[l], t)]
          /\ diagPc' = [diagPc EXCEPT ![t] = "waiting"] /\ diagPc[t] = "new"
          /\ UNCHANGED <<queue, hand>>
      BY <1>1, <2>3 DEF Submit, SubmitToLane, poolVars
    <3>3. /\ \A u \in Tasks : u # t => diagPc'[u] = diagPc[u]
          /\ diagPc'[t] = "waiting"
      BY <3>2 DEF DiagInv, RunTypes, PcTypes, Threads
    <3>4. QueueInv'
      BY <3>2, <3>3 DEF QueueInv, DiagInv, PlaceInv, RunTypes, PoolTypes
    <3>5. HandInv'
      BY <3>2, <3>3 DEF HandInv, DiagInv, PlaceInv, RunTypes, PumpTypes, Threads, NoTask
    <3>6. ASSUME NEW k \in Lanes PROVE WaitInv(k)'
      <4>1. waiting[k] \in Seq(Tasks) /\ WaitInv(k)
        BY DEF DiagInv, RunTypes, LaneTypes, PlaceInv
      <4>2. \A i \in 1..Len(waiting[k]) : waiting[k][i] \in Tasks /\ waiting[k][i] # t
        BY <3>2, <4>1 DEF WaitInv
      <4>3. CASE k # l
        <5>1. waiting'[k] = waiting[k]
          BY <3>2, <4>3 DEF DiagInv, RunTypes, LaneTypes
        <5> QED BY <3>3, <4>1, <4>2, <5>1 DEF WaitInv
      <4>4. CASE k = l
        <5>1. waiting'[k] = Append(waiting[k], t)
          BY <3>1, <3>2, <4>4 DEF DiagInv, RunTypes, LaneTypes
        <5>2. Len(waiting'[k]) = Len(waiting[k]) + 1 /\ waiting'[k][Len(waiting[k]) + 1] = t
              /\ \A i \in 1..Len(waiting[k]) : waiting'[k][i] = waiting[k][i]
          BY <4>1, <5>1, AppendFacts
        <5>3. \A i \in 1..Len(waiting'[k]) : i \in 1..Len(waiting[k]) \/ i = Len(waiting[k]) + 1
          BY <4>1, <5>2
        <5>4. ASSUME NEW i \in 1..Len(waiting'[k])
              PROVE  diagPc'[waiting'[k][i]] = "waiting" /\ LaneOf[waiting'[k][i]] = k
          <6>1. CASE i \in 1..Len(waiting[k])
            <7>1. waiting'[k][i] = waiting[k][i]
              BY <5>2, <6>1
            <7> QED BY <3>3, <4>1, <4>2, <6>1, <7>1 DEF WaitInv
          <6>2. CASE i = Len(waiting[k]) + 1
            BY <3>3, <4>4, <5>2, <6>2
          <6> QED BY <5>3, <6>1, <6>2
        <5>5. \A i, j \in 1..Len(waiting'[k]) : waiting'[k][i] = waiting'[k][j] => i = j
          BY <4>1, <4>2, <5>2, <5>3 DEF WaitInv
        <5> QED BY <5>4, <5>5 DEF WaitInv
      <4> QED BY <4>3, <4>4
    <3> QED BY <3>4, <3>5, <3>6 DEF PlaceInv
  <2> QED BY <1>1, <2>1, <2>2, <2>3 DEF Submit
<1>2. ASSUME NEW h \in Threads, PumpTake(h) PROVE PlaceInv'
  <2> DEFINE l == pumping[h]
  <2>1. CASE closed[l] \/ ~HasRoom(l)
    BY <1>2, <2>1, PlacesKept DEF PumpTake, poolVars
  <2>2. CASE ~closed[l] /\ HasRoom(l)
    <3> DEFINE t == Head(waiting[l])
    <3>1. l \in Lanes /\ waiting[l] \in Seq(Tasks) /\ waiting[l] # <<>> /\ WaitInv(l)
      BY <1>2, <2>2 DEF PumpTake, HasRoom, DiagInv, RunTypes, PumpTypes, LaneTypes, PlaceInv
    <3>2. t \in Tasks /\ t = waiting[l][1] /\ diagPc[t] = "waiting" /\ LaneOf[t] = l
      BY <3>1, TailFacts DEF WaitInv
    <3>3. /\ waiting' = [waiting EXCEPT ![l] = Tail(waiting[l])]
          /\ diagPc' = [diagPc EXCEPT ![t] = "held"]
          /\ hand' = [hand EXCEPT ![h] = t] /\ hand[h] = NoTask /\ UNCHANGED queue
      BY <1>2, <2>2 DEF PumpTake, poolVars
    <3>4. /\ \A u \in Tasks : u # t => diagPc'[u] = diagPc[u]
          /\ diagPc'[t] = "held"
      BY <3>2, <3>3 DEF DiagInv, RunTypes, PcTypes, Threads
    <3> HIDE DEF t
    <3>5. QueueInv'
      BY <3>2, <3>3, <3>4 DEF QueueInv, DiagInv, PlaceInv, RunTypes, PoolTypes
    <3>6. HandInv'
      <4>1. \A g \in Threads : hand[g] # NoTask => hand[g] \in Tasks /\ hand[g] # t
        BY <3>2 DEF HandInv, DiagInv, PlaceInv, RunTypes, PumpTypes, Threads, NoTask
      <4>2. \A g \in Threads : hand'[g] = IF g = h THEN t ELSE hand[g]
        BY <3>3 DEF DiagInv, RunTypes, PumpTypes
      <4> QED BY <3>4, <4>1, <4>2 DEF HandInv, DiagInv, PlaceInv
    <3>7. ASSUME NEW k \in Lanes PROVE WaitInv(k)'
      <4>1. waiting[k] \in Seq(Tasks) /\ WaitInv(k)
        BY DEF DiagInv, RunTypes, LaneTypes, PlaceInv
      <4>2. CASE k # l
        <5>1. waiting'[k] = waiting[k]
          BY <3>3, <4>2 DEF DiagInv, RunTypes, LaneTypes
        <5>2. \A i \in 1..Len(waiting[k]) : waiting[k][i] \in Tasks /\ waiting[k][i] # t
          BY <3>2, <4>1, <4>2 DEF WaitInv
        <5> QED BY <3>4, <4>1, <5>1, <5>2 DEF WaitInv
      <4>3. CASE k = l
        <5>1. waiting'[k] = Tail(waiting[k])
          BY <3>1, <3>3, <4>3 DEF DiagInv, RunTypes, LaneTypes
        <5>2. Len(waiting'[k]) = Len(waiting[k]) - 1 /\ 1 \in 1..Len(waiting[k])
              /\ \A i \in 1..Len(waiting'[k]) :
                    i + 1 \in 1..Len(waiting[k]) /\ waiting'[k][i] = waiting[k][i + 1]
          BY <3>1, <4>1, <4>3, <5>1, TailFacts
        <5>3. \A i \in 1..Len(waiting'[k]) : waiting'[k][i] \in Tasks /\ waiting'[k][i] # t
          BY <3>2, <4>1, <4>3, <5>2 DEF WaitInv
        <5>4. \A i \in 1..Len(waiting'[k]) : diagPc'[waiting'[k][i]] = "waiting"
          BY <3>4, <4>1, <5>2, <5>3 DEF WaitInv
        <5>5. ASSUME NEW i \in 1..Len(waiting'[k]) PROVE LaneOf[waiting'[k][i]] = k
          <6>1. i + 1 \in 1..Len(waiting[k]) /\ waiting'[k][i] = waiting[k][i + 1]
            BY <5>2
          <6> QED BY <4>1, <6>1 DEF WaitInv
        <5>6. ASSUME NEW i \in 1..Len(waiting'[k]), NEW j \in 1..Len(waiting'[k]),
                     waiting'[k][i] = waiting'[k][j]
              PROVE  i = j
          <6>1. /\ i + 1 \in 1..Len(waiting[k]) /\ waiting'[k][i] = waiting[k][i + 1]
                /\ j + 1 \in 1..Len(waiting[k]) /\ waiting'[k][j] = waiting[k][j + 1]
            BY <5>2
          <6>2. i + 1 = j + 1
            BY <4>1, <5>6, <6>1 DEF WaitInv
          <6> QED BY <6>2
        <5> QED BY <5>4, <5>5, <5>6 DEF WaitInv
      <4> QED BY <4>2, <4>3
    <3> QED BY <3>5, <3>6, <3>7 DEF PlaceInv
  <2> QED BY <2>1, <2>2
<1>3. ASSUME NEW h \in Threads, PumpPush(h) PROVE PlaceInv'
  <2> DEFINE t == hand[h]
  <2>1. t \in Tasks /\ diagPc[t] = "held"
    BY <1>3 DEF PumpPush, DiagInv, PlaceInv, HandInv, RunTypes, PumpTypes, Threads, NoTask
  <2>2. QueueInv' /\ (\A l \in Lanes : WaitInv(l)')
        /\ \A u \in Tasks : u # t => diagPc'[u] = diagPc[u]
    BY <1>3, <2>1, PushPlace DEF PumpPush, laneVars
  <2>3. \A g \in Threads : hand'[g] = IF g = h THEN NoTask ELSE hand[g]
    BY <1>3 DEF PumpPush, DiagInv, RunTypes, PumpTypes
  <2>4. HandInv'
    BY <2>1, <2>2, <2>3 DEF HandInv, DiagInv, PlaceInv, RunTypes, PumpTypes, Threads, NoTask
  <2> QED BY <2>2, <2>4 DEF PlaceInv
<1>4. ASSUME NEW t \in Tasks, Answer(t) PROVE PlaceInv'
  BY <1>4, PlacesKept, RunAssumption DEF Answer, Placed, DiagInv, RunTypes, PcTypes,
     Threads,
     Coordinating, poolVars, laneVars, pumpVars
<1>5. ASSUME NEW t \in Tasks, LeaveLane(t) PROVE PlaceInv'
  BY <1>5, PlacesKept, RunAssumption DEF LeaveLane, Placed, DiagInv, RunTypes, PcTypes,
     Threads,
     Coordinating, poolVars, laneVars, pumpVars
<1>6. ASSUME NEW t \in Tasks, LeaveStage(t) PROVE PlaceInv'
  BY <1>6, PlacesKept, RunAssumption DEF LeaveStage, Placed, DiagInv, RunTypes, PcTypes,
     Threads,
     Coordinating, poolVars, laneVars, pumpVars
<1>7. CASE BeginClose
  BY <1>7, PlacesKept, RunAssumption DEF BeginClose, Placed, DiagInv, RunTypes, PcTypes,
     Threads,
     Coordinating, poolVars, laneVars, pumpVars
<1>8. ASSUME NEW l \in Lanes, CloseLane(l) PROVE PlaceInv'
  <2>1. waiting[l] \in Seq(Tasks) /\ WaitInv(l)
    BY DEF DiagInv, RunTypes, LaneTypes, PlaceInv
  <2>2. \A t \in ToSet(waiting[l]) : t \in Tasks /\ diagPc[t] = "waiting" /\ LaneOf[t] = l
    BY <2>1, ToSetFacts DEF WaitInv
  <2>3. \A t \in Tasks : t \notin ToSet(waiting[l]) => diagPc'[t] = diagPc[t]
    BY <1>8 DEF CloseLane, Threads
  <2>4. waiting' = [waiting EXCEPT ![l] = <<>>] /\ UNCHANGED <<queue, hand>>
    BY <1>8 DEF CloseLane, poolVars, pumpVars
  <2>5. QueueInv'
    BY <2>2, <2>3, <2>4 DEF QueueInv, DiagInv, PlaceInv, RunTypes, PoolTypes
  <2>6. HandInv'
    BY <2>2, <2>3, <2>4 DEF HandInv, DiagInv, PlaceInv, RunTypes, PumpTypes, Threads, NoTask
  <2>7. ASSUME NEW k \in Lanes PROVE WaitInv(k)'
    <3>1. waiting[k] \in Seq(Tasks) /\ WaitInv(k)
      BY DEF DiagInv, RunTypes, LaneTypes, PlaceInv
    <3>2. CASE k = l
      <4>1. waiting'[k] = <<>>
        BY <2>4, <3>2 DEF DiagInv, RunTypes, LaneTypes
      <4> QED BY <4>1 DEF WaitInv
    <3>3. CASE k # l
      <4>1. waiting'[k] = waiting[k]
        BY <2>4, <3>3 DEF DiagInv, RunTypes, LaneTypes
      <4>2. \A i \in 1..Len(waiting[k]) :
               waiting[k][i] \in Tasks /\ waiting[k][i] \notin ToSet(waiting[l])
        BY <2>2, <3>1, <3>3 DEF WaitInv
      <4> QED BY <2>3, <3>1, <4>1, <4>2 DEF WaitInv
    <3> QED BY <3>2, <3>3
  <2> QED BY <2>5, <2>6, <2>7 DEF PlaceInv
<1>9. CASE ClosePool
  <2>1. \A t \in ToSet(queue) : t \in Tasks /\ diagPc[t] = "queued"
    BY ToSetFacts DEF DiagInv, RunTypes, PoolTypes, PlaceInv, QueueInv
  <2>2. Coord \in ToSet(queue) => \A t \in Staged : diagPc[t] \in {"new", "dropped"}
    BY <2>1, OrphansAreNew
  <2>3. \A t \in Tasks : diagPc[t] \in {"waiting", "held"} => diagPc'[t] = diagPc[t]
    BY <1>9, <2>1, <2>2, RunAssumption DEF ClosePool, Threads
  <2>4. queue' = <<>> /\ UNCHANGED <<waiting, hand>>
    BY <1>9 DEF ClosePool, laneVars, pumpVars
  <2>5. QueueInv'
    BY <2>4 DEF QueueInv
  <2>6. HandInv'
    BY <2>3, <2>4 DEF HandInv, DiagInv, PlaceInv, RunTypes, PumpTypes, Threads, NoTask
  <2>7. ASSUME NEW k \in Lanes PROVE WaitInv(k)'
    <3>1. waiting[k] \in Seq(Tasks) /\ WaitInv(k)
      BY DEF DiagInv, RunTypes, LaneTypes, PlaceInv
    <3> QED BY <2>3, <2>4, <3>1 DEF WaitInv
  <2> QED BY <2>5, <2>6, <2>7 DEF PlaceInv
<1>10. CASE NextStage
  BY <1>10, PlacesKept, RunAssumption DEF NextStage, Placed, DiagInv, RunTypes, PcTypes,
     Threads,
     Coordinating, poolVars, laneVars, pumpVars
<1>11. ASSUME NEW t \in Tasks, PushStaged(t) PROVE PlaceInv'
  BY <1>11, PushFresh DEF PushStaged, ToPush, laneVars, pumpVars
<1>12. CASE StagesOver
  BY <1>12, PlacesKept, RunAssumption DEF StagesOver, Placed, DiagInv, RunTypes, PcTypes,
     Threads,
     Coordinating, poolVars, laneVars, pumpVars
<1>13. CASE Begin
  <2> DEFINE t == Head(queue)
  <2>1. queue \in Seq(Tasks) /\ queue # <<>> /\ QueueInv
    BY <1>13 DEF Begin, DiagInv, RunTypes, PoolTypes, PlaceInv
  <2>2. t \in Tasks /\ t = queue[1] /\ diagPc[t] = "queued" /\ 1 \in 1..Len(queue)
    BY <2>1, TailFacts DEF QueueInv
  <2>3. /\ queue' = Tail(queue) /\ diagPc' = [diagPc EXCEPT ![t] = "running"]
        /\ UNCHANGED <<waiting, hand>>
    BY <1>13 DEF Begin, laneVars, pumpVars
  <2>4. \A u \in Tasks : u # t => diagPc'[u] = diagPc[u]
    BY <2>3 DEF DiagInv, RunTypes, PcTypes
  <2> HIDE DEF t
  <2>5. QueueInv'
    <3>1. Len(queue') = Len(queue) - 1
          /\ \A i \in 1..Len(queue') : i + 1 \in 1..Len(queue) /\ queue'[i] = queue[i + 1]
      BY <2>1, <2>3, TailFacts
    <3>2. ASSUME NEW i \in 1..Len(queue') PROVE queue'[i] \in Tasks /\ queue'[i] # t
      <4>1. i + 1 \in 1..Len(queue) /\ queue'[i] = queue[i + 1] /\ i + 1 # 1
        BY <3>1
      <4> QED BY <2>1, <2>2, <4>1 DEF QueueInv
    <3>3. \A i \in 1..Len(queue') : diagPc'[queue'[i]] = "queued"
      BY <2>1, <2>4, <3>1, <3>2 DEF QueueInv
    <3>4. \A i, j \in 1..Len(queue') : queue'[i] = queue'[j] => i = j
      BY <2>1, <3>1 DEF QueueInv
    <3> QED BY <3>3, <3>4 DEF QueueInv
  <2>6. HandInv'
    BY <2>2, <2>3, <2>4 DEF HandInv, DiagInv, PlaceInv, RunTypes, PumpTypes, Threads, NoTask
  <2>7. ASSUME NEW k \in Lanes PROVE WaitInv(k)'
    <3>1. waiting[k] \in Seq(Tasks) /\ WaitInv(k)
      BY DEF DiagInv, RunTypes, LaneTypes, PlaceInv
    <3>2. \A i \in 1..Len(waiting[k]) : waiting[k][i] \in Tasks /\ waiting[k][i] # t
      BY <2>2, <3>1 DEF WaitInv
    <3> QED BY <2>3, <2>4, <3>1, <3>2 DEF WaitInv
  <2> QED BY <2>5, <2>6, <2>7 DEF PlaceInv
<1>14. CASE UserStops
  BY <1>14, PlacesKept, RunAssumption DEF UserStops, Placed, DiagInv, RunTypes, PcTypes,
     Threads,
     Coordinating, poolVars, laneVars, pumpVars
<1>15. CASE UNCHANGED diagVars
  BY <1>15, PlacesKept DEF diagVars, poolVars, laneVars, pumpVars
<1> QED BY <1>1, <1>2, <1>3, <1>4, <1>5, <1>6, <1>7, <1>8, <1>9, <1>10, <1>11,
           <1>12, <1>13, <1>14, <1>15
     DEF DiagNext, StepOf, ThreadStep, MainStep, CoordStep, TaskStep

-----------------------------------------------------------------------------
(* The pool's share of a lane.                                             *)

InPoolPc == {"held", "queued", "running", "ended"}

LEMMA SamePool ==
    ASSUME DiagInv, NEW l \in Lanes, UNCHANGED <<open, running>>,
           \A t \in Tasks : LaneOf[t] = l => (diagPc'[t] \in InPoolPc <=> diagPc[t] \in InPoolPc)
    PROVE  CountInv(l)'
<1>1. InPool(l)' = InPool(l)
  BY DEF InPool, InPoolPc
<1> QED BY <1>1 DEF DiagInv, CountInv

LEMMA LessInPool ==
    ASSUME DiagInv, NEW l \in Lanes, ~open', UNCHANGED running,
           \A t \in Tasks : diagPc'[t] # diagPc[t] => diagPc'[t] \notin InPoolPc
    PROVE  CountInv(l)'
<1>1. InPool(l)' \subseteq InPool(l)
  BY DEF InPool, InPoolPc
<1>2. /\ Cardinality(InPool(l)') <= Cardinality(InPool(l))
      /\ Cardinality(InPool(l)) \in Nat /\ Cardinality(InPool(l)') \in Nat
  BY <1>1, PoolFinite, FS_Subset, FS_CardinalityType
<1>3. running[l] \in Nat
  BY DEF DiagInv, RunTypes, LaneTypes
<1> QED BY <1>2, <1>3 DEF DiagInv, CountInv

LEMMA PushMoves ==
    ASSUME DiagInv, NEW t \in Tasks, Push(t)
    PROVE  \A u \in Tasks : u # t => diagPc'[u] = diagPc[u]
<1> DEFINE pc == IF open THEN "queued" ELSE "dropped"
<1>1. diagPc' = [diagPc EXCEPT ![t] = pc]
  BY DEF Push
<1> QED BY <1>1 DEF DiagInv, RunTypes, PcTypes

LEMMA ToPushStaged ==
    ASSUME DiagInv, NEW t \in ToPush
    PROVE  /\ stage \in 1..Len(Stages) /\ t \in Stages[stage] /\ t \in Staged
           /\ diagPc[t] = "new" /\ LaneOf[t] = NoLane
<1>1. stage \in 1..Len(Stages) /\ t \in Stages[stage] /\ diagPc[t] = "new"
  BY DEF ToPush, DiagInv, StageInv
<1>2. t \in Staged
  BY <1>1, RunAssumption DEF Staged
<1> QED BY <1>1, <1>2, RunAssumption

(* Takes and leaves are counted. *)
LEMMA CountStep == DiagInv /\ [DiagNext]_diagVars => (\A l \in Lanes : CountInv(l))'
<1> SUFFICES ASSUME DiagInv, [DiagNext]_diagVars, NEW l \in Lanes PROVE CountInv(l)'
  OBVIOUS
<1>1. ASSUME NEW h \in Threads, NEW t \in Tasks, Submit(h, t) PROVE CountInv(l)'
  <2>1. CASE SubmitPlain(t)
    <3>1. LaneOf[t] = NoLane /\ \A u \in Tasks : u # t => diagPc'[u] = diagPc[u]
      BY <2>1, PushMoves DEF SubmitPlain
    <3>2. UNCHANGED <<open, running>>
      BY <1>1, <2>1 DEF Submit, SubmitPlain, Push, poolVars, laneVars
    <3> QED BY <3>1, <3>2, SamePool, RunAssumption
  <2>2. CASE SubmitToLane(h, t)
    <3>1. diagPc[t] = "new" /\ UNCHANGED <<open, running>>
          /\ diagPc' \in {[diagPc EXCEPT ![t] = "dropped"], [diagPc EXCEPT ![t] = "waiting"]}
      BY <1>1, <2>2 DEF Submit, SubmitToLane, poolVars
    <3> QED BY <3>1, SamePool DEF InPoolPc, DiagInv, RunTypes, PcTypes, Threads
  <2> QED BY <1>1, <2>1, <2>2 DEF Submit
<1>2. ASSUME NEW h \in Threads, PumpTake(h) PROVE CountInv(l)'
  <2> DEFINE k == pumping[h]
  <2>1. CASE closed[k] \/ ~HasRoom(k)
    BY <1>2, <2>1, SamePool DEF PumpTake, poolVars
  <2>2. CASE ~closed[k] /\ HasRoom(k)
    <3> DEFINE t == Head(waiting[k])
    <3>1. k \in Lanes /\ waiting[k] \in Seq(Tasks) /\ waiting[k] # <<>> /\ WaitInv(k)
      BY <1>2, <2>2 DEF PumpTake, HasRoom, DiagInv, RunTypes, PumpTypes, LaneTypes, PlaceInv
    <3>2. t \in Tasks /\ diagPc[t] = "waiting" /\ LaneOf[t] = k
      BY <3>1, TailFacts DEF WaitInv
    <3>3. /\ running' = [running EXCEPT ![k] = running[k] + 1] /\ UNCHANGED open
          /\ diagPc' = [diagPc EXCEPT ![t] = "held"]
      BY <1>2, <2>2 DEF PumpTake, poolVars
    <3>4. /\ \A u \in Tasks : u # t => diagPc'[u] = diagPc[u]
          /\ diagPc'[t] = "held"
      BY <3>2, <3>3 DEF DiagInv, RunTypes, PcTypes, Threads
    <3> HIDE DEF t
    <3>5. CASE l = k
      <4>1. InPool(l)' = InPool(l) \cup {t} /\ t \notin InPool(l)
        BY <3>2, <3>4, <3>5 DEF InPool
      <4>2. Cardinality(InPool(l)') = Cardinality(InPool(l)) + 1
        BY <4>1, PoolFinite, FS_AddElement
      <4>3. running'[l] = running[l] + 1 /\ running[l] < Limit[l] /\ running[l] \in Nat
        BY <2>2, <3>1, <3>3, <3>5 DEF HasRoom, DiagInv, RunTypes, LaneTypes
      <4>4. Cardinality(InPool(l)) \in Nat /\ Limit[l] \in Nat
        BY PoolFinite, RunAssumption
      <4> QED BY <3>3, <4>2, <4>3, <4>4 DEF DiagInv, CountInv
    <3>6. CASE l # k
      <4>1. InPool(l)' = InPool(l)
        BY <3>2, <3>4, <3>6 DEF InPool
      <4>2. running'[l] = running[l]
        BY <3>3, <3>6 DEF DiagInv, RunTypes, LaneTypes
      <4> QED BY <3>3, <4>1, <4>2 DEF DiagInv, CountInv
    <3> QED BY <3>5, <3>6
  <2> QED BY <2>1, <2>2
<1>3. ASSUME NEW h \in Threads, PumpPush(h) PROVE CountInv(l)'
  <2> DEFINE t == hand[h]
  <2>1. t \in Tasks /\ diagPc[t] = "held" /\ Push(t) /\ UNCHANGED running
    BY <1>3 DEF PumpPush, DiagInv, PlaceInv, HandInv, RunTypes, PumpTypes, Threads,
       NoTask, laneVars
  <2> HIDE DEF t
  <2>2. CASE open
    <3>1. diagPc' = [diagPc EXCEPT ![t] = "queued"] /\ UNCHANGED open
      BY <2>1, <2>2 DEF Push
    <3> QED BY <2>1, <3>1, SamePool DEF InPoolPc, DiagInv, RunTypes, PcTypes, Threads
  <2>3. CASE ~open
    <3>1. diagPc' = [diagPc EXCEPT ![t] = "dropped"] /\ UNCHANGED open
      BY <2>1, <2>3 DEF Push, poolVars
    <3> QED BY <2>1, <2>3, <3>1, LessInPool DEF InPoolPc, DiagInv, RunTypes, PcTypes, Threads
  <2> QED BY <2>2, <2>3
<1>4. ASSUME NEW t \in Tasks, Answer(t) PROVE CountInv(l)'
  BY <1>4, SamePool, RunAssumption DEF Answer, InPoolPc, DiagInv, RunTypes, PcTypes,
     Threads,
     Coordinating, poolVars, laneVars
<1>5. ASSUME NEW t \in Tasks, LeaveLane(t) PROVE CountInv(l)'
  <2> DEFINE k == LaneOf[t]
  <2>1. k \in Lanes /\ diagPc[t] = "ended"
    BY <1>5, RunAssumption DEF LeaveLane
  <2>2. /\ running' = [running EXCEPT ![k] = running[k] - 1] /\ UNCHANGED open
        /\ diagPc' = [diagPc EXCEPT ![t] = "done"]
    BY <1>5 DEF LeaveLane, poolVars
  <2>3. /\ \A u \in Tasks : u # t => diagPc'[u] = diagPc[u]
        /\ diagPc'[t] = "done"
    BY <2>2 DEF DiagInv, RunTypes, PcTypes, Threads
  <2>4. CASE l = k
    <3>1. InPool(l)' = InPool(l) \ {t} /\ t \in InPool(l)
      BY <2>1, <2>3, <2>4 DEF InPool
    <3>2. Cardinality(InPool(l)') = Cardinality(InPool(l)) - 1
      BY <3>1, PoolFinite, FS_RemoveElement
    <3>3. running'[l] = running[l] - 1 /\ running[l] \in Nat
      BY <2>1, <2>2, <2>4 DEF DiagInv, RunTypes, LaneTypes
    <3>4. Cardinality(InPool(l)) \in Nat /\ Limit[l] \in Nat
      BY PoolFinite, RunAssumption
    <3> QED BY <2>2, <3>2, <3>3, <3>4 DEF DiagInv, CountInv
  <2>5. CASE l # k
    <3>1. InPool(l)' = InPool(l)
      BY <2>1, <2>3, <2>5 DEF InPool
    <3>2. running'[l] = running[l]
      BY <2>2, <2>5 DEF DiagInv, RunTypes, LaneTypes
    <3> QED BY <2>2, <3>1, <3>2 DEF DiagInv, CountInv
  <2> QED BY <2>4, <2>5
<1>6. ASSUME NEW t \in Tasks, LeaveStage(t) PROVE CountInv(l)'
  BY <1>6, SamePool, RunAssumption DEF LeaveStage, InPoolPc, DiagInv, RunTypes, PcTypes,
     Threads,
     Coordinating, poolVars, laneVars
<1>7. CASE BeginClose
  BY <1>7, SamePool, RunAssumption DEF BeginClose, InPoolPc, DiagInv, RunTypes, PcTypes,
     Threads,
     Coordinating, poolVars, laneVars
<1>8. ASSUME NEW k \in Lanes, CloseLane(k) PROVE CountInv(l)'
  <2>1. waiting[k] \in Seq(Tasks) /\ WaitInv(k)
    BY DEF DiagInv, RunTypes, LaneTypes, PlaceInv
  <2>2. \A t \in ToSet(waiting[k]) : diagPc[t] = "waiting"
    BY <2>1, ToSetFacts DEF WaitInv
  <2>3. \A t \in Tasks : diagPc'[t] = IF t \in ToSet(waiting[k]) THEN "dropped" ELSE diagPc[t]
    BY <1>8 DEF CloseLane, Threads
  <2>4. UNCHANGED <<open, running>>
    BY <1>8 DEF CloseLane, poolVars
  <2> QED BY <2>2, <2>3, <2>4, SamePool DEF InPoolPc
<1>9. CASE ClosePool
  <2>1. ~open' /\ UNCHANGED running
    BY <1>9 DEF ClosePool, laneVars
  <2>2. \A t \in Tasks : diagPc'[t] \in {diagPc[t], "dropped"}
    BY <1>9, RunAssumption DEF ClosePool, Threads
  <2> QED BY <2>1, <2>2, LessInPool DEF InPoolPc
<1>10. CASE NextStage
  BY <1>10, SamePool, RunAssumption DEF NextStage, InPoolPc, DiagInv, RunTypes, PcTypes,
     Threads,
     Coordinating, poolVars, laneVars
<1>11. ASSUME NEW t \in Tasks, PushStaged(t) PROVE CountInv(l)'
  <2>1. LaneOf[t] = NoLane /\ \A u \in Tasks : u # t => diagPc'[u] = diagPc[u]
    BY <1>11, PushMoves, ToPushStaged DEF PushStaged
  <2>2. UNCHANGED <<open, running>>
    BY <1>11 DEF PushStaged, Push, poolVars, laneVars
  <2> QED BY <2>1, <2>2, SamePool, RunAssumption
<1>12. CASE StagesOver
  BY <1>12, SamePool, RunAssumption DEF StagesOver, InPoolPc, DiagInv, RunTypes, PcTypes,
     Threads,
     Coordinating, poolVars, laneVars
<1>13. CASE Begin
  <2>1. Head(queue) \in Tasks /\ diagPc[Head(queue)] = "queued"
    BY <1>13, TailFacts DEF Begin, DiagInv, RunTypes, PoolTypes, PlaceInv, QueueInv
  <2>2. diagPc' = [diagPc EXCEPT ![Head(queue)] = "running"] /\ UNCHANGED <<open, running>>
    BY <1>13 DEF Begin, laneVars
  <2> QED BY <2>1, <2>2, SamePool DEF InPoolPc, DiagInv, RunTypes, PcTypes, Threads
<1>14. CASE UserStops
  BY <1>14, SamePool, RunAssumption DEF UserStops, InPoolPc, DiagInv, RunTypes, PcTypes,
     Threads,
     Coordinating, poolVars, laneVars
<1>15. CASE UNCHANGED diagVars
  BY <1>15, SamePool DEF diagVars, poolVars, laneVars
<1> QED BY <1>1, <1>2, <1>3, <1>4, <1>5, <1>6, <1>7, <1>8, <1>9, <1>10, <1>11,
           <1>12, <1>13, <1>14, <1>15
     DEF DiagNext, StepOf, ThreadStep, MainStep, CoordStep, TaskStep

-----------------------------------------------------------------------------
(* The stages.                                                             *)

LEMMA StageKept ==
    ASSUME DiagInv, UNCHANGED <<stage, left>>,
           stage > 0 => diagPc'[Coord] \in {"running", "done"},
           \A i \in 1..Len(Stages) : i > stage =>
              \A t \in Stages[i] : diagPc[t] \in {"new", "dropped"} => diagPc'[t] \in {"new", "dropped"},
           stage > 0 => \A t \in Staged : diagPc[t] = "done" => diagPc'[t] = "done"
    PROVE  StageInv'
<1> USE StagedTasks DEF DiagInv, StageInv
<1>1. stage > 0 => Cardinality(Unfinished(stage)') <= left
  <2> SUFFICES ASSUME stage > 0 PROVE Cardinality(Unfinished(stage)') <= left
    OBVIOUS
  <2>1. stage \in 1..Len(Stages) /\ IsFiniteSet(Stages[stage]) /\ Stages[stage] \subseteq Staged
    OBVIOUS
  <2>2. Unfinished(stage)' \subseteq Unfinished(stage) /\ Unfinished(stage) \subseteq Stages[stage]
    BY <2>1 DEF Unfinished
  <2>3. Cardinality(Unfinished(stage)') <= Cardinality(Unfinished(stage))
        /\ Cardinality(Unfinished(stage)) \in Nat /\ Cardinality(Unfinished(stage)') \in Nat
    BY <2>1, <2>2, FS_Subset, FS_CardinalityType
  <2>4. Cardinality(Unfinished(stage)) <= left /\ left \in Nat
    OBVIOUS
  <2> QED BY <2>3, <2>4
<1>2. \A i \in 1..Len(Stages) : i < stage => \A t \in Stages[i] : diagPc'[t] = "done"
  OBVIOUS
<1>3. \A i \in 1..Len(Stages) : i > stage => \A t \in Stages[i] : diagPc'[t] \in {"new", "dropped"}
  OBVIOUS
<1> QED BY <1>1, <1>2, <1>3 DEF Unfinished

(* What moves in the lists moves no stage. *)
LEMMA StageUnmoved ==
    ASSUME DiagInv, UNCHANGED <<stage, left>>,
           \A t \in Tasks : diagPc'[t] = diagPc[t] \/ diagPc[t] \in {"waiting", "held", "queued"}
    PROVE  StageInv'
<1>1. stage > 0 => diagPc'[Coord] \in {"running", "done"}
  BY RunAssumption DEF DiagInv, StageInv
<1>2. \A t \in Staged : t \in Tasks
  BY StagedTasks
<1>3. \A i \in 1..Len(Stages) : \A t \in Stages[i] : t \in Staged
  BY StagedTasks
<1> QED BY <1>1, <1>2, <1>3, StageKept

(* The coordinator counts its stages. *)
LEMMA StageStep == DiagInv /\ [DiagNext]_diagVars => StageInv'
<1> SUFFICES ASSUME DiagInv, [DiagNext]_diagVars PROVE StageInv'
  OBVIOUS
<1>1. ASSUME NEW h \in Threads, NEW t \in Tasks, Submit(h, t) PROVE StageInv'
  <2>1. t \in Tasks \ Staged /\ diagPc[t] = "new" /\ UNCHANGED <<stage, left>>
    BY <1>1, RunAssumption DEF Submit, stageVars
  <2>2. \A u \in Tasks : u # t => diagPc'[u] = diagPc[u]
    <3>1. CASE SubmitPlain(t)
      BY <3>1, PushMoves DEF SubmitPlain
    <3>2. CASE SubmitToLane(h, t)
      <4>1. \/ diagPc' = [diagPc EXCEPT ![t] = "dropped"]
            \/ diagPc' = [diagPc EXCEPT ![t] = "waiting"]
        BY <3>2, Zenon DEF SubmitToLane
      <4>2. diagPc \in [Threads -> Places \cup {"closing"}]
        BY DEF DiagInv, RunTypes, PcTypes
      <4>3. Tasks \subseteq Threads
        BY DEF Threads
      <4> QED BY <4>1, <4>2, <4>3
    <3> QED BY <1>1, <3>1, <3>2 DEF Submit
  <2>3. stage > 0 => t # Coord
    BY <2>1 DEF DiagInv, StageInv
  <2>4. stage > 0 => diagPc'[Coord] \in {"running", "done"}
    BY <2>2, <2>3, RunAssumption DEF DiagInv, StageInv
  <2>5. \A u \in Staged : diagPc'[u] = diagPc[u]
    BY <2>1, <2>2, StagedTasks
  <2>6. \A i \in 1..Len(Stages) : \A u \in Stages[i] : u \in Staged
    BY StagedTasks
  <2> QED BY <2>1, <2>4, <2>5, <2>6, StageKept
<1>2. ASSUME NEW h \in Threads, PumpTake(h) PROVE StageInv'
  <2> DEFINE k == pumping[h]
  <2>1. CASE closed[k] \/ ~HasRoom(k)
    BY <1>2, <2>1, StageUnmoved DEF PumpTake, stageVars
  <2>2. CASE ~closed[k] /\ HasRoom(k)
    <3> DEFINE t == Head(waiting[k])
    <3>1. k \in Lanes /\ waiting[k] \in Seq(Tasks) /\ waiting[k] # <<>> /\ WaitInv(k)
      BY <1>2, <2>2 DEF PumpTake, HasRoom, DiagInv, RunTypes, PumpTypes, LaneTypes, PlaceInv
    <3>2. t \in Tasks /\ diagPc[t] = "waiting"
      BY <3>1, TailFacts DEF WaitInv
    <3>3. diagPc' = [diagPc EXCEPT ![t] = "held"] /\ UNCHANGED <<stage, left>>
      BY <1>2, <2>2 DEF PumpTake, stageVars
    <3> HIDE DEF t
    <3> QED BY <3>2, <3>3, StageUnmoved DEF DiagInv, RunTypes, PcTypes
  <2> QED BY <2>1, <2>2
<1>3. ASSUME NEW h \in Threads, PumpPush(h) PROVE StageInv'
  <2>1. hand[h] \in Tasks /\ diagPc[hand[h]] = "held" /\ Push(hand[h]) /\ UNCHANGED <<stage, left>>
    BY <1>3 DEF PumpPush, DiagInv, PlaceInv, HandInv, RunTypes, PumpTypes, Threads, NoTask,
       stageVars
  <2> QED BY <2>1, PushMoves, StageUnmoved
<1>4. ASSUME NEW t \in Tasks, Answer(t) PROVE StageInv'
  <2>1. diagPc[t] = "running" /\ t # Coord /\ UNCHANGED <<stage, left>>
    BY <1>4 DEF Answer, stageVars
  <2>2. \A u \in Tasks : u # t => diagPc'[u] = diagPc[u]
    BY <1>4 DEF Answer, DiagInv, RunTypes, PcTypes
  <2>3. stage > 0 => diagPc'[Coord] \in {"running", "done"}
    BY <2>1, <2>2, RunAssumption DEF DiagInv, StageInv
  <2>4. \A i \in 1..Len(Stages) : \A u \in Stages[i] : u \in Tasks /\ u \in Staged
    BY StagedTasks
  <2>5. \A u \in Tasks : diagPc[u] \in {"new", "dropped", "done"} => diagPc'[u] = diagPc[u]
    BY <2>1, <2>2
  <2> QED BY <2>1, <2>2, <2>3, <2>4, <2>5, StagedTasks, StageKept
<1>5. ASSUME NEW t \in Tasks, LeaveLane(t) PROVE StageInv'
  <2>1. diagPc[t] = "ended" /\ t # Coord /\ UNCHANGED <<stage, left>>
    BY <1>5, RunAssumption DEF LeaveLane, stageVars
  <2>2. \A u \in Tasks : u # t => diagPc'[u] = diagPc[u]
    BY <1>5 DEF LeaveLane, DiagInv, RunTypes, PcTypes
  <2>3. stage > 0 => diagPc'[Coord] \in {"running", "done"}
    BY <2>1, <2>2, RunAssumption DEF DiagInv, StageInv
  <2>4. \A i \in 1..Len(Stages) : \A u \in Stages[i] : u \in Tasks /\ u \in Staged
    BY StagedTasks
  <2>5. \A u \in Tasks : diagPc[u] \in {"new", "dropped", "done"} => diagPc'[u] = diagPc[u]
    BY <2>1, <2>2
  <2> QED BY <2>1, <2>3, <2>4, <2>5, StagedTasks, StageKept
<1>6. ASSUME NEW t \in Tasks, LeaveStage(t) PROVE StageInv'
  <2>1. diagPc[t] = "ended" /\ t \in Staged /\ t # Coord /\ left' = left - 1
        /\ UNCHANGED stage
    BY <1>6, RunAssumption DEF LeaveStage
  <2>2. (\A u \in Tasks : u # t => diagPc'[u] = diagPc[u]) /\ diagPc'[t] = "done"
    BY <1>6 DEF LeaveStage, DiagInv, RunTypes, PcTypes, Threads
  <2>3. PICK i \in 1..Len(Stages) : t \in Stages[i]
    BY <2>1, RunAssumption DEF Staged
  <2>4. i <= stage /\ stage \in 1..Len(Stages)
    BY <2>1, <2>3 DEF DiagInv, StageInv
  <2> USE StagedTasks DEF DiagInv, StageInv
  <2>5. left > 0 /\ Cardinality(Unfinished(stage)') <= left - 1
    <3>1. IsFiniteSet(Unfinished(stage)) /\ Cardinality(Unfinished(stage)) <= left
      BY <2>4, FS_Subset DEF Unfinished
    <3>2. CASE i = stage
      <4>1. t \in Unfinished(stage) /\ Unfinished(stage)' = Unfinished(stage) \ {t}
        BY <2>1, <2>2, <2>3, <2>4, <3>2 DEF Unfinished
      <4>2. /\ Cardinality(Unfinished(stage)') = Cardinality(Unfinished(stage)) - 1
            /\ Cardinality(Unfinished(stage)) \in Nat /\ Cardinality(Unfinished(stage)') \in Nat
        BY <3>1, <4>1, FS_RemoveElement, FS_CardinalityType
      <4> QED BY <3>1, <4>2
    <3>3. CASE i # stage
      BY <2>1, <2>3, <2>4, <3>3
    <3> QED BY <3>2, <3>3
  <2>6. \A j \in 1..Len(Stages) : j > stage => \A u \in Stages[j] : diagPc'[u] \in {"new", "dropped"}
    BY <2>1, <2>2
  <2>7. left' \in 0..Cardinality(Staged) /\ stage' = stage
    BY <2>1, <2>5
  <2>8. stage > 0 => diagPc'[Coord] \in {"running", "done"}
    BY <2>1, <2>2, RunAssumption
  <2>9. \A j \in 1..Len(Stages) : j < stage => \A u \in Stages[j] : diagPc'[u] = "done"
    BY <2>2
  <2>10. Cardinality(Unfinished(stage)') <= left'
    BY <2>1, <2>5, <2>7 DEF Unfinished
  <2> QED BY <2>6, <2>7, <2>8, <2>9, <2>10 DEF Unfinished
<1>7. CASE BeginClose
  BY <1>7, StageUnmoved, RunAssumption DEF BeginClose, DiagInv, RunTypes, PcTypes, Threads,
     stageVars
<1>8. ASSUME NEW l \in Lanes, CloseLane(l) PROVE StageInv'
  <2>1. waiting[l] \in Seq(Tasks) /\ WaitInv(l)
    BY DEF DiagInv, RunTypes, LaneTypes, PlaceInv
  <2>2. \A t \in ToSet(waiting[l]) : diagPc[t] = "waiting"
    BY <2>1, ToSetFacts DEF WaitInv
  <2>3. \A t \in Tasks : diagPc'[t] = IF t \in ToSet(waiting[l]) THEN "dropped" ELSE diagPc[t]
    BY <1>8 DEF CloseLane, Threads
  <2>4. UNCHANGED <<stage, left>>
    BY <1>8 DEF CloseLane, stageVars
  <2> QED BY <2>2, <2>3, <2>4, StageUnmoved
<1>9. CASE ClosePool
  <2>1. \A t \in ToSet(queue) : t \in Tasks /\ diagPc[t] = "queued"
    BY ToSetFacts DEF DiagInv, RunTypes, PoolTypes, PlaceInv, QueueInv
  <2>2. UNCHANGED <<stage, left>>
    BY <1>9 DEF ClosePool, stageVars
  <2>3. CASE stage > 0
    <3>1. Coord \notin ToSet(queue)
      BY <2>1, <2>3 DEF DiagInv, StageInv
    <3>2. \A t \in Tasks : t \notin ToSet(queue) => diagPc'[t] = diagPc[t]
      BY <1>9, <3>1, RunAssumption DEF ClosePool, Threads
    <3> QED BY <2>1, <2>2, <3>2, StageUnmoved
  <2>4. CASE ~(stage > 0)
    <3>1. \A t \in Tasks : diagPc'[t] \in {diagPc[t], "dropped"}
      BY <1>9, RunAssumption DEF ClosePool, Threads
    <3>2. \A i \in 1..Len(Stages) : \A u \in Stages[i] : u \in Tasks /\ u \in Staged
      BY StagedTasks
    <3> QED BY <2>2, <2>4, <3>1, <3>2, StagedTasks, StageKept
  <2> QED BY <2>3, <2>4
<1>10. CASE NextStage
  <2>1. /\ stage' = stage + 1 /\ left' = Cardinality(Stages[stage + 1]) /\ UNCHANGED diagPc
        /\ left = 0 /\ stage < Len(Stages) /\ diagPc[Coord] = "running"
    BY <1>10 DEF NextStage, Coordinating
  <2>2. stage \in Nat /\ stage' \in 1..Len(Stages)
    BY <2>1 DEF DiagInv, StageInv
  <2>3. left' \in 0..Cardinality(Staged) /\ Cardinality(Unfinished(stage')) <= left'
    <3>1. Unfinished(stage') \subseteq Stages[stage'] /\ IsFiniteSet(Stages[stage'])
      BY <2>2, StagedTasks DEF Unfinished
    <3> QED BY <2>1, <2>2, <3>1, StagedTasks, FS_Subset
  <2>4. stage > 0 => \A t \in Stages[stage] : diagPc[t] = "done"
    <3> SUFFICES ASSUME stage > 0, NEW t \in Stages[stage] PROVE diagPc[t] = "done"
      OBVIOUS
    <3>1. IsFiniteSet(Unfinished(stage)) /\ stage \in 1..Len(Stages)
      BY <2>1, <2>2, StagedTasks, FS_Subset DEF Unfinished
    <3>2. Cardinality(Unfinished(stage)) = 0
      BY <2>1, <3>1, FS_CardinalityType DEF DiagInv, StageInv
    <3>3. t \in Tasks /\ t \notin Unfinished(stage)
      BY <3>1, <3>2, FS_EmptySet, StagedTasks
    <3> QED BY <3>3 DEF Unfinished
  <2>5. \A i \in 1..Len(Stages) : i < stage' => \A t \in Stages[i] : diagPc[t] = "done"
    <3>1. \A i \in 1..Len(Stages) : i < stage => \A t \in Stages[i] : diagPc[t] = "done"
      BY DEF DiagInv, StageInv
    <3>2. \A i \in 1..Len(Stages) : i < stage' => i < stage \/ (i = stage /\ stage > 0)
      BY <2>1, <2>2
    <3> QED BY <2>4, <3>1, <3>2
  <2>6. \A i \in 1..Len(Stages) : i > stage' => \A t \in Stages[i] : diagPc[t] \in {"new", "dropped"}
    <3>1. \A i \in 1..Len(Stages) : i > stage => \A t \in Stages[i] : diagPc[t] \in {"new", "dropped"}
      BY DEF DiagInv, StageInv
    <3> QED BY <2>1, <2>2, <3>1
  <2>7. stage' \in 0..Len(Stages)
    BY <2>1, <2>2
  <2>8. (stage > 0 => Cardinality(Unfinished(stage)) <= left)'
    BY <2>1, <2>3 DEF Unfinished
  <2>9. (\A i \in 1..Len(Stages) : i < stage => \A t \in Stages[i] : diagPc[t] = "done")'
    BY <2>1, <2>5
  <2>10. (\A i \in 1..Len(Stages) :
             i > stage => \A t \in Stages[i] : diagPc[t] \in {"new", "dropped"})'
    BY <2>1, <2>6
  <2>11. (stage \in 0..Len(Stages) /\ left \in 0..Cardinality(Staged))'
    BY <2>3, <2>7
  <2>12. (stage > 0 => diagPc[Coord] \in {"running", "done"})'
    BY <2>1
  <2> QED BY <2>8, <2>9, <2>10, <2>11, <2>12 DEF StageInv
<1>11. ASSUME NEW t \in Tasks, PushStaged(t) PROVE StageInv'
  <2>1. t \in Stages[stage] /\ stage \in 1..Len(Stages) /\ diagPc[t] = "new" /\ t \in Tasks
        /\ t \in Staged /\ Push(t) /\ UNCHANGED <<stage, left>> /\ diagPc[Coord] = "running"
    BY <1>11, ToPushStaged DEF PushStaged, stageVars, Coordinating
  <2>2. \A u \in Tasks : u # t => diagPc'[u] = diagPc[u]
    BY <2>1, PushMoves
  <2>3. \A i \in 1..Len(Stages) : i > stage => t \notin Stages[i]
    BY <2>1, RunAssumption
  <2>4. \A i \in 1..Len(Stages) : \A u \in Stages[i] : u \in Tasks /\ u \in Staged
    BY StagedTasks
  <2>5. diagPc'[Coord] = "running"
    BY <2>1, <2>2, RunAssumption
  <2>6. \A u \in Staged : diagPc[u] = "done" => diagPc'[u] = "done"
    BY <2>1, <2>2, StagedTasks
  <2>7. \A i \in 1..Len(Stages) : i > stage => \A u \in Stages[i] : diagPc'[u] = diagPc[u]
    BY <2>2, <2>3, <2>4
  <2> QED BY <2>1, <2>5, <2>6, <2>7, StageKept
<1>12. CASE StagesOver
  <2>1. diagPc' = [diagPc EXCEPT ![Coord] = "done"] /\ UNCHANGED <<stage, left>>
    BY <1>12 DEF StagesOver, stageVars
  <2>2. diagPc'[Coord] = "done" /\ \A t \in Staged : diagPc'[t] = diagPc[t]
    BY <2>1, StagedTasks, RunAssumption DEF DiagInv, RunTypes, PcTypes, Threads
  <2>3. \A i \in 1..Len(Stages) : \A t \in Stages[i] : t \in Staged
    BY StagedTasks
  <2> QED BY <2>1, <2>2, <2>3, StageKept
<1>13. CASE Begin
  <2>1. Head(queue) \in Tasks /\ diagPc[Head(queue)] = "queued"
    BY <1>13, TailFacts DEF Begin, DiagInv, RunTypes, PoolTypes, PlaceInv, QueueInv
  <2>2. diagPc' = [diagPc EXCEPT ![Head(queue)] = "running"] /\ UNCHANGED <<stage, left>>
    BY <1>13 DEF Begin, stageVars
  <2> QED BY <2>1, <2>2, StageUnmoved DEF DiagInv, RunTypes, PcTypes
<1>14. CASE UserStops
  BY <1>14, StageUnmoved DEF UserStops, stageVars
<1>15. CASE UNCHANGED diagVars
  BY <1>15, StageUnmoved DEF diagVars, stageVars
<1> QED BY <1>1, <1>2, <1>3, <1>4, <1>5, <1>6, <1>7, <1>8, <1>9, <1>10, <1>11,
           <1>12, <1>13, <1>14, <1>15
     DEF DiagNext, StepOf, ThreadStep, MainStep, CoordStep, TaskStep

-----------------------------------------------------------------------------
LEMMA DiagStepInv == DiagInv /\ [DiagNext]_diagVars => DiagInv'
  BY TypeStep, PlaceStep, EndStep, CountStep, StageStep DEF DiagInv

(* Threads, lists, lanes and stages are well-typed. *)
THEOREM DiagTypeCorrect == DiagSpec => []DiagTypeOK
<1>1. DiagInv => DiagTypeOK
  BY DEF DiagInv, RunTypes, PcTypes, PoolTypes, LaneTypes, PumpTypes, StageInv, DiagTypeOK
<1> QED BY <1>1, DiagInitInv, DiagStepInv, PTL DEF DiagSpec

(* Lane::pump: never more of a lane's tasks in the pool than its limit,    *)
(* and as long as the pool is open its counter is exact.                   *)
THEOREM LanesKeepLimits == DiagSpec => []LaneLimitKept
<1>1. DiagInv => LaneLimitKept
  <2> SUFFICES ASSUME DiagInv, NEW l \in Lanes
               PROVE  /\ Cardinality(InPool(l)) <= Limit[l]
                      /\ open => running[l] = Cardinality(InPool(l))
    BY DEF LaneLimitKept
  <2>1. Cardinality(InPool(l)) \in Nat /\ running[l] \in Nat /\ Limit[l] \in Nat
    BY PoolFinite, RunAssumption DEF DiagInv, RunTypes, LaneTypes
  <2> QED BY <2>1 DEF DiagInv, CountInv
<1> QED BY <1>1, DiagInitInv, DiagStepInv, PTL DEF DiagSpec

(* Lane::submit, pump and leave: a task waits in a lane with room only     *)
(* while some thread is about to pump that lane.                           *)
THEOREM LanesForgetNobody == DiagSpec => []NobodyForgotten
  BY DiagInitInv, DiagStepInv, ForgottenStep, PTL DEF DiagSpec

(* start_stages: whatever the user stops and whenever the pool is closed,  *)
(* a task of a stage starts only when all those before it are over.        *)
THEOREM StagesKeepOrder == DiagSpec => []StagesInOrder
<1>1. DiagInv => StagesInOrder
  <2> SUFFICES ASSUME DiagInv, NEW i \in DOMAIN Stages, NEW j \in DOMAIN Stages,
                      NEW s \in Stages[i], NEW t \in Stages[j],
                      i < j, diagPc[t] \notin {"new", "dropped"}
               PROVE  result[s] # "none"
    BY DEF StagesInOrder
  <2>1. i \in 1..Len(Stages) /\ j \in 1..Len(Stages)
    BY RunAssumption
  <2>2. stage \in Nat /\ ~(j > stage)
    BY <2>1 DEF DiagInv, StageInv
  <2>3. s \in Tasks /\ diagPc[s] = "done"
    BY <2>1, <2>2, StagedTasks DEF DiagInv, StageInv
  <2> QED BY <2>3 DEF DiagInv, EndInv
<1> QED BY <1>1, DiagInitInv, DiagStepInv, PTL DEF DiagSpec

-----------------------------------------------------------------------------
(* Somebody can always go on.                                              *)

(* Until close(), nothing is refused or taken back, *)
Undropped ==
    /\ open /\ \A l \in Lanes : ~closed[l]
    /\ \A t \in Tasks : diagPc[t] \notin {"dropped", "closing"}

(* each task that waits is in a list or a hand, what is over has answered, *)
Whereabouts ==
    /\ \A t \in Tasks : diagPc[t] = "queued" => \E i \in 1..Len(queue) : queue[i] = t
    /\ \A t \in Tasks : diagPc[t] = "waiting" =>
          LaneOf[t] \in Lanes
          /\ \E i \in 1..Len(waiting[LaneOf[t]]) : waiting[LaneOf[t]][i] = t
    /\ \A t \in Tasks : diagPc[t] = "held" => \E h \in Threads : hand[h] = t
    /\ \A t \in Tasks : diagPc[t] = "ended" => LaneOf[t] # NoLane \/ t \in Staged
    /\ \A t \in Tasks : diagPc[t] \in {"ended", "done"} => result[t] = "answer"

(* and the coordinator's count is exact. *)
Counted ==
    /\ stage = 0 => left = 0
    /\ stage > 0 => left = Cardinality(Unfinished(stage))
    /\ diagPc[Coord] = "done" => stage = Len(Stages) /\ left = 0

GoingInv == diagPc[Main] = "running" => Undropped /\ Whereabouts /\ Counted

LEMMA MainGoesOn ==
    ASSUME DiagInv, [DiagNext]_diagVars, diagPc'[Main] = "running"
    PROVE  diagPc[Main] = "running"
<1> USE RunAssumption DEF DiagInv, RunTypes, PcTypes, PumpTypes, PoolTypes, LaneTypes, Threads, NoTask
<1>1. ASSUME NEW h \in Threads, NEW t \in Tasks, Submit(h, t) PROVE diagPc[Main] = "running"
  BY <1>1 DEF Submit, SubmitPlain, SubmitToLane, Push
<1>2. ASSUME NEW h \in Threads, PumpTake(h) PROVE diagPc[Main] = "running"
  <2>1. HasRoom(pumping[h]) /\ pumping[h] # NoLane => Head(waiting[pumping[h]]) \in Tasks
    BY TailFacts DEF HasRoom
  <2> QED BY <1>2, <2>1 DEF PumpTake
<1>3. ASSUME NEW h \in Threads, PumpPush(h) PROVE diagPc[Main] = "running"
  BY <1>3 DEF PumpPush, Push
<1>4. ASSUME NEW t \in Tasks, TaskStep(t) \/ PushStaged(t) PROVE diagPc[Main] = "running"
  BY <1>4 DEF TaskStep, Answer, LeaveLane, LeaveStage, PushStaged, Push
<1>5. CASE BeginClose \/ ClosePool
  BY <1>5 DEF BeginClose, ClosePool
<1>6. ASSUME NEW l \in Lanes, CloseLane(l) PROVE diagPc[Main] = "running"
  <2>1. Main \notin ToSet(waiting[l])
    BY ToSetFacts
  <2> QED BY <1>6, <2>1 DEF CloseLane
<1>7. CASE NextStage \/ StagesOver
  BY <1>7 DEF NextStage, StagesOver
<1>8. CASE Begin
  <2>1. Head(queue) \in Tasks
    BY <1>8, TailFacts DEF Begin
  <2> QED BY <1>8, <2>1 DEF Begin
<1>9. CASE UserStops \/ UNCHANGED diagVars
  BY <1>9 DEF UserStops, diagVars
<1> QED BY <1>1, <1>2, <1>3, <1>4, <1>5, <1>6, <1>7, <1>8, <1>9
     DEF DiagNext, StepOf, ThreadStep, MainStep, CoordStep

(* Steps, while the pool and the lanes are open, by the task they move. *)
Moved(t, place) == diagPc' = [diagPc EXCEPT ![t] = place]

LEMMA MovedTask ==
    ASSUME DiagInv, NEW t \in Tasks, NEW place, Moved(t, place)
    PROVE  \A u \in Tasks : diagPc'[u] = IF u = t THEN place ELSE diagPc[u]
  BY DEF Moved, DiagInv, RunTypes, PcTypes, Threads

OpenStep ==
    \/ \E t \in Tasks : /\ diagPc[t] \in {"new", "held"} /\ Moved(t, "queued")
                        /\ queue' = Append(queue, t)
                        /\ hand' = hand \/ \E h \in Threads : hand[h] = t /\ hand' = [hand EXCEPT ![h] = NoTask]
                        /\ UNCHANGED <<result, waiting, stage, left>>
    \/ \E t \in Tasks : /\ LaneOf[t] \in Lanes /\ diagPc[t] = "new" /\ Moved(t, "waiting")
                        /\ waiting' = [waiting EXCEPT ![LaneOf[t]] = Append(@, t)]
                        /\ UNCHANGED <<result, queue, hand, stage, left>>
    \/ \E h \in Threads : LET l == pumping[h] IN
                        /\ l \in Lanes /\ waiting[l] # <<>> /\ hand[h] = NoTask
                        /\ hand' = [hand EXCEPT ![h] = Head(waiting[l])]
                        /\ Moved(Head(waiting[l]), "held")
                        /\ waiting' = [waiting EXCEPT ![l] = Tail(@)]
                        /\ UNCHANGED <<result, queue, stage, left>>
    \/ /\ queue # <<>> /\ Moved(Head(queue), "running") /\ queue' = Tail(queue)
       /\ UNCHANGED <<result, waiting, hand, stage, left>>
    \/ \E t \in Tasks : /\ diagPc[t] = "running" /\ t # Coord
                        /\ result' = [result EXCEPT ![t] = "answer"]
                        /\ \/ Moved(t, "ended") /\ (LaneOf[t] # NoLane \/ t \in Staged)
                           \/ Moved(t, "done") /\ t \notin Staged
                        /\ UNCHANGED <<queue, waiting, hand, stage, left>>
    \/ \E t \in Tasks : /\ diagPc[t] = "ended" /\ LaneOf[t] # NoLane /\ Moved(t, "done")
                        /\ UNCHANGED <<result, queue, waiting, hand, stage, left>>
    \/ \E t \in Staged : /\ diagPc[t] = "ended" /\ Moved(t, "done") /\ left' = left - 1
                         /\ UNCHANGED <<result, queue, waiting, hand, stage>>
    \/ /\ Coordinating /\ ToPush = {} /\ left = 0 /\ stage < Len(Stages)
       /\ stage' = stage + 1 /\ left' = Cardinality(Stages[stage + 1])
       /\ UNCHANGED <<diagPc, result, queue, waiting, hand>>
    \/ /\ Coordinating /\ ToPush = {} /\ left = 0 /\ stage = Len(Stages)
       /\ result' = [result EXCEPT ![Coord] = "answer"] /\ Moved(Coord, "done")
       /\ UNCHANGED <<queue, waiting, hand, stage, left>>
    \/ UNCHANGED <<diagPc, result, queue, waiting, hand, stage, left>>

LEMMA OpenSteps ==
    ASSUME DiagInv, Undropped, [DiagNext]_diagVars, diagPc'[Main] = "running"
    PROVE  OpenStep /\ open' /\ closed' = closed
<1> USE RunAssumption DEF poolVars, laneVars, pumpVars, stageVars, Moved
<1>0. Main \notin Tasks /\ open /\ (\A l \in Lanes : ~closed[l])
      /\ diagPc \in [Threads -> Places \cup {"closing"}]
      /\ hand \in [Threads -> Threads] /\ pumping \in [Threads -> Lanes \cup {NoLane}]
  BY DEF DiagInv, RunTypes, PcTypes, PumpTypes, Undropped
<1>1. ASSUME NEW h \in Threads, NEW t \in Tasks, Submit(h, t) PROVE OpenStep /\ open' /\ closed' = closed
  <2>1. CASE SubmitPlain(t)
    BY <1>0, <1>1, <2>1 DEF Submit, SubmitPlain, Push, OpenStep
  <2>2. CASE SubmitToLane(h, t)
    <3>1. LaneOf[t] \in Lanes /\ ~closed[LaneOf[t]]
      BY <1>0, <2>2 DEF SubmitToLane
    <3> QED BY <1>0, <1>1, <2>2, <3>1 DEF Submit, SubmitToLane, OpenStep
  <2> QED BY <1>1, <2>1, <2>2 DEF Submit
<1>2. ASSUME NEW h \in Threads, PumpTake(h) PROVE OpenStep /\ open' /\ closed' = closed
  BY <1>0, <1>2 DEF PumpTake, HasRoom, OpenStep
<1>3. ASSUME NEW h \in Threads, PumpPush(h) PROVE OpenStep /\ open' /\ closed' = closed
  <2>1. hand[h] \in Tasks /\ diagPc[hand[h]] = "held"
    BY <1>0, <1>3 DEF PumpPush, DiagInv, PlaceInv, HandInv, Threads, NoTask
  <2> QED BY <1>0, <1>3, <2>1 DEF PumpPush, Push, OpenStep
<1>4. ASSUME NEW t \in Tasks, TaskStep(t) PROVE OpenStep /\ open' /\ closed' = closed
  <2>1. CASE Answer(t)
    BY <1>0, <2>1 DEF Answer, OpenStep
  <2>2. CASE LeaveLane(t)
    BY <1>0, <2>2 DEF LeaveLane, OpenStep
  <2>3. CASE LeaveStage(t)
    BY <1>0, <2>3 DEF LeaveStage, OpenStep
  <2> QED BY <1>4, <2>1, <2>2, <2>3 DEF TaskStep
<1>5. CASE CoordStep
  <2>1. ASSUME NEW t \in Tasks, PushStaged(t) PROVE OpenStep /\ open' /\ closed' = closed
    <3>1. diagPc[t] = "new"
      BY <2>1, ToPushStaged DEF PushStaged
    <3> QED BY <1>0, <2>1, <3>1 DEF PushStaged, Push, OpenStep
  <2>2. CASE NextStage
    BY <1>0, <2>2 DEF NextStage, OpenStep
  <2>3. CASE StagesOver
    BY <1>0, <2>3 DEF StagesOver, OpenStep
  <2> QED BY <1>5, <2>1, <2>2, <2>3 DEF CoordStep
<1>6. ~MainStep
  <2>1. diagPc[Main] = "running"
    BY MainGoesOn
  <2> QED BY <1>0, <2>1 DEF MainStep, BeginClose, CloseLane, ClosePool, Threads
<1>7. CASE Begin
  BY <1>0, <1>7 DEF Begin, OpenStep
<1>8. CASE UserStops \/ UNCHANGED diagVars
  BY <1>0, <1>8 DEF UserStops, diagVars, OpenStep
<1> QED BY <1>1, <1>2, <1>3, <1>4, <1>5, <1>6, <1>7, <1>8 DEF DiagNext, StepOf, ThreadStep

(* Its ten alternatives, as facts about the places. *)
LEMMA UndroppedStep ==
    ASSUME DiagInv, Undropped, OpenStep, open', closed' = closed
    PROVE  Undropped'
<1> SUFFICES \A t \in Tasks : diagPc'[t] \notin {"dropped", "closing"}
  BY DEF Undropped
<1>1. \A t \in Tasks : \A place :
         Moved(t, place) => \A u \in Tasks : diagPc'[u] = IF u = t THEN place ELSE diagPc[u]
  BY MovedTask
<1>2. \A h \in Threads : pumping[h] \in Lanes /\ waiting[pumping[h]] # <<>>
                            => Head(waiting[pumping[h]]) \in Tasks
  BY TailFacts DEF DiagInv, RunTypes, LaneTypes
<1>3. queue # <<>> => Head(queue) \in Tasks
  BY TailFacts DEF DiagInv, RunTypes, PoolTypes
<1>4. Coord \in Tasks /\ Staged \subseteq Tasks
  BY RunAssumption, StagedTasks
<1>5. \/ \E t \in Tasks, place \in {"queued", "waiting", "held", "running", "ended", "done"} :
            Moved(t, place)
      \/ UNCHANGED diagPc
  BY <1>2, <1>3, <1>4 DEF OpenStep
<1> QED BY <1>1, <1>5 DEF Undropped

LEMMA QueuedStep ==
    ASSUME DiagInv, Whereabouts, OpenStep, NEW t \in Tasks, diagPc'[t] = "queued"
    PROVE  \E i \in 1..Len(queue') : queue'[i] = t
<1>0. queue \in Seq(Tasks)
  BY DEF DiagInv, RunTypes, PoolTypes
<1>1. CASE UNCHANGED queue /\ diagPc[t] = "queued"
  BY <1>1 DEF Whereabouts
<1>2. ASSUME NEW u \in Tasks, Moved(u, "queued"), queue' = Append(queue, u)
      PROVE  \E i \in 1..Len(queue') : queue'[i] = t
  <2>1. /\ Len(queue') = Len(queue) + 1 /\ queue'[Len(queue) + 1] = u
        /\ \A i \in 1..Len(queue) : queue'[i] = queue[i]
    BY <1>0, <1>2, AppendFacts
  <2>2. CASE t = u
    BY <1>0, <2>1, <2>2
  <2>3. CASE t # u
    <3>1. diagPc[t] = "queued"
      BY <1>2, <2>3, MovedTask
    <3>2. PICK i \in 1..Len(queue) : queue[i] = t
      BY <3>1 DEF Whereabouts
    <3> QED BY <1>0, <2>1, <3>2
  <2> QED BY <2>2, <2>3
<1>3. ASSUME queue # <<>>, Moved(Head(queue), "running"), queue' = Tail(queue)
      PROVE  \E i \in 1..Len(queue') : queue'[i] = t
  <2>1. /\ Head(queue) \in Tasks /\ Head(queue) = queue[1]
        /\ Len(queue') = Len(queue) - 1
        /\ \A i \in 1..Len(queue') : queue'[i] = queue[i + 1]
    BY <1>0, <1>3, TailFacts
  <2>2. diagPc[t] = "queued" /\ t # Head(queue)
    BY <1>3, <2>1, MovedTask
  <2>3. PICK i \in 1..Len(queue) : queue[i] = t
    BY <2>2 DEF Whereabouts
  <2>4. i # 1
    BY <2>1, <2>2, <2>3
  <2>5. i - 1 \in 1..Len(queue') /\ (i - 1) + 1 = i
    BY <1>0, <2>1, <2>4
  <2> QED BY <2>1, <2>3, <2>5
<1>4. \A u \in Tasks : \A place : Moved(u, place) /\ place # "queued" => diagPc[t] = "queued"
  BY MovedTask
<1>5. \A h \in Threads : pumping[h] \in Lanes /\ waiting[pumping[h]] # <<>>
                            => Head(waiting[pumping[h]]) \in Tasks
  BY TailFacts DEF DiagInv, RunTypes, LaneTypes
<1>6. Coord \in Tasks /\ Staged \subseteq Tasks
  BY RunAssumption, StagedTasks
<1>7. \/ \E u \in Tasks : Moved(u, "queued") /\ queue' = Append(queue, u)
      \/ queue # <<>> /\ Moved(Head(queue), "running") /\ queue' = Tail(queue)
      \/ UNCHANGED queue /\ diagPc[t] = "queued"
  BY <1>4, <1>5, <1>6 DEF OpenStep
<1> QED BY <1>1, <1>2, <1>3, <1>7

LEMMA HeldStep ==
    ASSUME DiagInv, Whereabouts, OpenStep, NEW t \in Tasks, diagPc'[t] = "held"
    PROVE  \E h \in Threads : hand'[h] = t
<1>0. hand \in [Threads -> Threads] /\ Main \notin Tasks
  BY RunAssumption DEF DiagInv, RunTypes, PumpTypes
<1>1. CASE UNCHANGED hand /\ diagPc[t] = "held"
  BY <1>1 DEF Whereabouts
<1>2. ASSUME NEW u \in Tasks, NEW h \in Threads, hand[h] = u, Moved(u, "queued"),
             hand' = [hand EXCEPT ![h] = NoTask]
      PROVE  \E k \in Threads : hand'[k] = t
  <2>1. diagPc[t] = "held" /\ t # u
    BY <1>2, MovedTask
  <2>2. PICK k \in Threads : hand[k] = t
    BY <2>1 DEF Whereabouts
  <2> QED BY <1>0, <1>2, <2>1, <2>2
<1>3. ASSUME NEW h \in Threads, hand[h] = NoTask, NEW u \in Tasks, Moved(u, "held"),
             hand' = [hand EXCEPT ![h] = u]
      PROVE  \E k \in Threads : hand'[k] = t
  <2>1. CASE t = u
    BY <1>0, <1>3, <2>1
  <2>2. CASE t # u
    <3>1. diagPc[t] = "held"
      BY <1>3, <2>2, MovedTask
    <3>2. PICK k \in Threads : hand[k] = t
      BY <3>1 DEF Whereabouts
    <3>3. k # h
      BY <1>0, <1>3, <3>2 DEF NoTask
    <3> QED BY <1>0, <1>3, <3>2, <3>3
  <2> QED BY <2>1, <2>2
<1>4. \A u \in Tasks : \A place : Moved(u, place) /\ place # "held" => diagPc[t] = "held"
  BY MovedTask
<1>5. \A h \in Threads : pumping[h] \in Lanes /\ waiting[pumping[h]] # <<>>
                            => Head(waiting[pumping[h]]) \in Tasks
  BY TailFacts DEF DiagInv, RunTypes, LaneTypes
<1>6. Coord \in Tasks /\ Staged \subseteq Tasks /\ (queue # <<>> => Head(queue) \in Tasks)
  BY RunAssumption, StagedTasks, TailFacts DEF DiagInv, RunTypes, PoolTypes
<1>7. \/ \E u \in Tasks, h \in Threads :
            hand[h] = u /\ Moved(u, "queued") /\ hand' = [hand EXCEPT ![h] = NoTask]
      \/ \E h \in Threads, u \in Tasks :
            hand[h] = NoTask /\ Moved(u, "held") /\ hand' = [hand EXCEPT ![h] = u]
      \/ UNCHANGED hand /\ diagPc[t] = "held"
  BY <1>4, <1>5, <1>6 DEF OpenStep
<1> QED BY <1>1, <1>2, <1>3, <1>7

LEMMA WaitingStep ==
    ASSUME DiagInv, Whereabouts, OpenStep, NEW t \in Tasks, diagPc'[t] = "waiting"
    PROVE  LaneOf[t] \in Lanes
           /\ \E i \in 1..Len(waiting'[LaneOf[t]]) : waiting'[LaneOf[t]][i] = t
<1> DEFINE l == LaneOf[t]
           Found == l \in Lanes /\ \E i \in 1..Len(waiting'[l]) : waiting'[l][i] = t
<1>0. waiting \in [Lanes -> Seq(Tasks)]
  BY DEF DiagInv, RunTypes, LaneTypes
<1>1. CASE UNCHANGED waiting /\ diagPc[t] = "waiting"
  BY <1>1 DEF Whereabouts
<1>2. ASSUME NEW u \in Tasks, Moved(u, "waiting"), LaneOf[u] \in Lanes,
             waiting' = [waiting EXCEPT ![LaneOf[u]] = Append(@, u)]
      PROVE  Found
  <2> DEFINE w == waiting[LaneOf[u]]
  <2>1. waiting'[LaneOf[u]] = Append(w, u) /\ w \in Seq(Tasks)
        /\ \A k \in Lanes : k # LaneOf[u] => waiting'[k] = waiting[k]
    BY <1>0, <1>2
  <2>2. /\ Len(Append(w, u)) = Len(w) + 1 /\ Append(w, u)[Len(w) + 1] = u
        /\ \A i \in 1..Len(w) : Append(w, u)[i] = w[i]
    BY <2>1, AppendFacts
  <2>3. CASE t = u
    BY <1>2, <2>1, <2>2, <2>3
  <2>4. CASE t # u
    <3>1. diagPc[t] = "waiting"
      BY <1>2, <2>4, MovedTask
    <3>2. l \in Lanes /\ \E i \in 1..Len(waiting[l]) : waiting[l][i] = t
      BY <3>1 DEF Whereabouts
    <3>3. PICK i \in 1..Len(waiting[l]) : waiting[l][i] = t
      BY <3>2
    <3>4. CASE l = LaneOf[u]
      BY <2>1, <2>2, <3>2, <3>3, <3>4
    <3>5. CASE l # LaneOf[u]
      BY <2>1, <3>2, <3>5
    <3> QED BY <3>4, <3>5
  <2> QED BY <2>3, <2>4
<1>3. ASSUME NEW k \in Lanes, waiting[k] # <<>>, Moved(Head(waiting[k]), "held"),
             waiting' = [waiting EXCEPT ![k] = Tail(@)]
      PROVE  Found
  <2> DEFINE w == waiting[k]
  <2>1. w \in Seq(Tasks) /\ waiting'[k] = Tail(w)
        /\ \A j \in Lanes : j # k => waiting'[j] = waiting[j]
    BY <1>0, <1>3
  <2>2. /\ Head(w) \in Tasks /\ Head(w) = w[1]
        /\ Len(Tail(w)) = Len(w) - 1
        /\ \A i \in 1..Len(Tail(w)) : Tail(w)[i] = w[i + 1]
    BY <1>3, <2>1, TailFacts
  <2>3. diagPc[t] = "waiting" /\ t # Head(w)
    BY <1>3, <2>2, MovedTask
  <2>4. l \in Lanes /\ \E i \in 1..Len(waiting[l]) : waiting[l][i] = t
    BY <2>3 DEF Whereabouts
  <2>5. PICK i \in 1..Len(waiting[l]) : waiting[l][i] = t
    BY <2>4
  <2>6. CASE l = k
    <3>1. i # 1
      BY <2>2, <2>3, <2>5, <2>6
    <3>2. i - 1 \in 1..Len(Tail(w)) /\ (i - 1) + 1 = i
      BY <2>1, <2>2, <2>6, <3>1
    <3>3. Tail(w)[i - 1] = t
      BY <2>2, <2>5, <2>6, <3>2
    <3>4. waiting'[l] = Tail(w)
      BY <2>1, <2>6
    <3> HIDE DEF w
    <3> QED BY <2>4, <3>2, <3>3, <3>4
  <2>7. CASE l # k
    BY <2>1, <2>4, <2>7
  <2> QED BY <2>6, <2>7
<1>4. \A u \in Tasks : \A place : Moved(u, place) /\ place # "waiting" => diagPc[t] = "waiting"
  BY MovedTask
<1>5. \A h \in Threads : pumping[h] \in Lanes /\ waiting[pumping[h]] # <<>>
                            => Head(waiting[pumping[h]]) \in Tasks
  BY <1>0, TailFacts
<1>6. Coord \in Tasks /\ Staged \subseteq Tasks /\ (queue # <<>> => Head(queue) \in Tasks)
  BY RunAssumption, StagedTasks, TailFacts DEF DiagInv, RunTypes, PoolTypes
<1>7. \/ \E u \in Tasks : Moved(u, "waiting") /\ LaneOf[u] \in Lanes
                          /\ waiting' = [waiting EXCEPT ![LaneOf[u]] = Append(@, u)]
      \/ \E k \in Lanes : waiting[k] # <<>> /\ Moved(Head(waiting[k]), "held")
                          /\ waiting' = [waiting EXCEPT ![k] = Tail(@)]
      \/ UNCHANGED waiting /\ diagPc[t] = "waiting"
  BY <1>4, <1>5, <1>6 DEF OpenStep
<1> QED BY <1>1, <1>2, <1>3, <1>7

LEMMA OverStep ==
    ASSUME DiagInv, Whereabouts, OpenStep, NEW t \in Tasks
    PROVE  /\ diagPc'[t] = "ended" => LaneOf[t] # NoLane \/ t \in Staged
           /\ diagPc'[t] \in {"ended", "done"} => result'[t] = "answer"
<1>0. result \in [Tasks -> Results] /\ Coord \in Tasks /\ Staged \subseteq Tasks
      /\ (queue # <<>> => Head(queue) \in Tasks)
  BY RunAssumption, StagedTasks, TailFacts DEF DiagInv, RunTypes, PcTypes, PoolTypes
<1>1. \A h \in Threads : pumping[h] \in Lanes /\ waiting[pumping[h]] # <<>>
                            => Head(waiting[pumping[h]]) \in Tasks
  BY TailFacts DEF DiagInv, RunTypes, LaneTypes
<1>2. \/ \E u \in Tasks, place \in {"queued", "waiting", "held", "running"} :
            Moved(u, place) /\ UNCHANGED result
      \/ \E u \in Tasks : /\ result' = [result EXCEPT ![u] = "answer"]
                          /\ \/ Moved(u, "ended") /\ (LaneOf[u] # NoLane \/ u \in Staged)
                             \/ Moved(u, "done")
      \/ \E u \in Tasks : diagPc[u] = "ended" /\ Moved(u, "done") /\ UNCHANGED result
      \/ UNCHANGED <<diagPc, result>>
  BY <1>0, <1>1 DEF OpenStep
<1>3. CASE \E u \in Tasks, place \in {"queued", "waiting", "held", "running"} :
              Moved(u, place) /\ UNCHANGED result
  BY <1>3, MovedTask DEF Whereabouts
<1>4. ASSUME NEW u \in Tasks, result' = [result EXCEPT ![u] = "answer"],
             \/ Moved(u, "ended") /\ (LaneOf[u] # NoLane \/ u \in Staged)
             \/ Moved(u, "done")
      PROVE  /\ diagPc'[t] = "ended" => LaneOf[t] # NoLane \/ t \in Staged
             /\ diagPc'[t] \in {"ended", "done"} => result'[t] = "answer"
  BY <1>0, <1>4, MovedTask DEF Whereabouts
<1>5. CASE \E u \in Tasks : diagPc[u] = "ended" /\ Moved(u, "done") /\ UNCHANGED result
  BY <1>5, MovedTask DEF Whereabouts
<1>6. CASE UNCHANGED <<diagPc, result>>
  BY <1>6 DEF Whereabouts
<1> QED BY <1>2, <1>3, <1>4, <1>5, <1>6

LEMMA WhereStep ==
    ASSUME DiagInv, Whereabouts, OpenStep
    PROVE  Whereabouts'
  BY QueuedStep, HeldStep, WaitingStep, OverStep DEF Whereabouts

(* A staged task that is over is one of the present stage.                 *)
LEMMA CountedStep ==
    ASSUME DiagInv, Whereabouts, Counted, OpenStep
    PROVE  Counted'
<1>0. Coord \in Tasks /\ Coord \notin Staged /\ LaneOf[Coord] = NoLane /\ Staged \subseteq Tasks
      /\ (queue # <<>> => Head(queue) \in Tasks /\ diagPc[Head(queue)] = "queued")
  BY RunAssumption, StagedTasks, TailFacts
  DEF DiagInv, RunTypes, PoolTypes, PlaceInv, QueueInv
<1>1. \A h \in Threads : pumping[h] \in Lanes /\ waiting[pumping[h]] # <<>>
                            => /\ Head(waiting[pumping[h]]) \in Tasks
                               /\ diagPc[Head(waiting[pumping[h]])] = "waiting"
  BY TailFacts DEF DiagInv, RunTypes, LaneTypes, PlaceInv, WaitInv
<1>2. \A i \in 1..Len(Stages) : Stages[i] \subseteq Staged /\ IsFiniteSet(Stages[i])
  BY StagedTasks
<1>3. stage \in 0..Len(Stages) /\ left \in Nat /\ Len(Stages) \in Nat
  BY StagedTasks, RunAssumption DEF DiagInv, StageInv
(* Nobody of a stage becomes done: the count stands. *)
<1>4. ASSUME UNCHANGED <<stage, left>>, \A u \in Staged : diagPc'[u] = "done" <=> diagPc[u] = "done",
             diagPc'[Coord] = "done" => diagPc[Coord] = "done" \/ (stage = Len(Stages) /\ left = 0)
      PROVE  Counted'
  <2>1. stage > 0 => Unfinished(stage)' = Unfinished(stage)
    BY <1>2, <1>3, <1>4 DEF Unfinished
  <2> QED BY <1>4, <2>1 DEF Counted
<1>5. ASSUME NEW u \in Staged, diagPc[u] = "ended", Moved(u, "done"), left' = left - 1,
             UNCHANGED stage
      PROVE  Counted'
  <2>1. PICK i \in 1..Len(Stages) : u \in Stages[i]
    BY RunAssumption DEF Staged
  <2>2. i = stage /\ stage > 0
    BY <1>3, <1>5, <2>1 DEF DiagInv, StageInv
  <2>3. u \in Unfinished(stage) /\ IsFiniteSet(Unfinished(stage))
    BY <1>2, <1>5, <2>1, <2>2, FS_Subset DEF Unfinished
  <2>4. Unfinished(stage)' = Unfinished(stage) \ {u}
    <3>1. \A v \in Tasks : diagPc'[v] = IF v = u THEN "done" ELSE diagPc[v]
      BY <1>0, <1>5, MovedTask
    <3> QED BY <1>0, <1>2, <1>5, <2>1, <2>2, <3>1 DEF Unfinished
  <2>5. /\ Cardinality(Unfinished(stage)') = Cardinality(Unfinished(stage)) - 1
        /\ Cardinality(Unfinished(stage)) # 0
    BY <2>3, <2>4, FS_RemoveElement, FS_EmptySet
  <2>6. left = Cardinality(Unfinished(stage)) /\ diagPc[Coord] # "done"
    BY <2>2, <2>5 DEF Counted
  <2>7. diagPc'[Coord] = diagPc[Coord]
    BY <1>0, <1>5, MovedTask
  <2>8. left' = Cardinality(Unfinished(stage)')
    BY <1>5, <2>5, <2>6
  <2> QED BY <1>5, <2>2, <2>6, <2>7, <2>8 DEF Counted, Unfinished
<1>6. ASSUME Coordinating, stage < Len(Stages), stage' = stage + 1,
             left' = Cardinality(Stages[stage + 1]), UNCHANGED diagPc
      PROVE  Counted'
  <2>1. stage' \in 1..Len(Stages) /\ stage' > stage
    BY <1>3, <1>6
  <2>2. \A u \in Stages[stage'] : diagPc[u] \in {"new", "dropped"}
    BY <2>1 DEF DiagInv, StageInv
  <2>3. \A u \in Stages[stage'] : diagPc'[u] # "done"
    BY <1>6, <2>2
  <2>4. Unfinished(stage)' = Stages[stage']
    BY <2>3 DEF Unfinished
  <2> QED BY <1>6, <2>1, <2>4 DEF Counted, Coordinating
<1>7. \/ \E u \in Tasks, place \in {"queued", "waiting", "held", "running", "ended"} :
            Moved(u, place) /\ diagPc[u] # "done" /\ UNCHANGED <<stage, left>>
      \/ \E u \in Tasks \ (Staged \cup {Coord}) : Moved(u, "done") /\ UNCHANGED <<stage, left>>
      \/ \E u \in Staged : diagPc[u] = "ended" /\ Moved(u, "done") /\ left' = left - 1
                           /\ UNCHANGED stage
      \/ /\ Coordinating /\ stage < Len(Stages)
         /\ stage' = stage + 1 /\ left' = Cardinality(Stages[stage + 1]) /\ UNCHANGED diagPc
      \/ left = 0 /\ stage = Len(Stages) /\ Moved(Coord, "done") /\ UNCHANGED <<stage, left>>
      \/ UNCHANGED <<diagPc, stage, left>>
  <2>1. \A u \in Tasks : LaneOf[u] # NoLane => u \notin Staged \cup {Coord}
    BY <1>0, RunAssumption
  <2> QED BY <1>0, <1>1, <2>1 DEF OpenStep
<1>8. ASSUME NEW u \in Tasks, NEW place \in {"queued", "waiting", "held", "running", "ended"},
             Moved(u, place), diagPc[u] # "done", UNCHANGED <<stage, left>>
      PROVE  Counted'
  <2>1. \A v \in Tasks : diagPc'[v] = "done" <=> diagPc[v] = "done"
    BY <1>8, MovedTask
  <2> QED BY <1>0, <1>4, <1>8, <2>1
<1>9. ASSUME NEW u \in Tasks \ (Staged \cup {Coord}), Moved(u, "done"), UNCHANGED <<stage, left>>
      PROVE  Counted'
  <2>1. \A v \in Tasks : v # u => diagPc'[v] = diagPc[v]
    BY <1>9, MovedTask
  <2> QED BY <1>0, <1>4, <1>9, <2>1
<1>10. CASE left = 0 /\ stage = Len(Stages) /\ Moved(Coord, "done") /\ UNCHANGED <<stage, left>>
  <2>1. \A v \in Tasks : v # Coord => diagPc'[v] = diagPc[v]
    BY <1>0, <1>10, MovedTask
  <2> QED BY <1>0, <1>4, <1>10, <2>1
<1>11. CASE UNCHANGED <<diagPc, stage, left>>
  BY <1>4, <1>11
<1> QED BY <1>5, <1>6, <1>7, <1>8, <1>9, <1>10, <1>11

LEMMA GoingStep == DiagInv /\ GoingInv /\ [DiagNext]_diagVars => GoingInv'
<1> SUFFICES ASSUME DiagInv, GoingInv, [DiagNext]_diagVars, diagPc'[Main] = "running"
             PROVE  Undropped' /\ Whereabouts' /\ Counted'
  BY DEF GoingInv
<1>1. Undropped /\ Whereabouts /\ Counted
  BY MainGoesOn DEF GoingInv
<1>2. OpenStep /\ open' /\ closed' = closed
  BY <1>1, OpenSteps
<1> QED BY <1>1, <1>2, UndroppedStep, WhereStep, CountedStep

LEMMA GoingInit == DiagInit => GoingInv
<1> SUFFICES ASSUME DiagInit PROVE Undropped /\ Whereabouts /\ Counted
  BY DEF GoingInv
<1>1. \A t \in Tasks : diagPc[t] = "new"
  BY RunAssumption DEF DiagInit, Threads
<1>2. Undropped /\ Whereabouts
  BY <1>1 DEF DiagInit, Undropped, Whereabouts
<1>3. stage = 0 /\ left = 0 /\ diagPc[Coord] # "done"
  BY <1>1, RunAssumption DEF DiagInit
<1>4. Counted
  BY <1>3 DEF Counted
<1> QED BY <1>2, <1>4

(* If nobody could go on, no task would be under way: not in the queue,    *)
(* since there is a thread that is not taken by a waiting task; none that  *)
(* runs, among those of least rank; and so none in a lane.                 *)
UnderWay == {t \in Tasks : diagPc[t] \in {"waiting", "held", "queued", "running"}}

Stuck ==
    /\ \A h \in Threads : pumping[h] = NoLane /\ hand[h] = NoTask
    /\ \A h \in Threads : diagPc[h] = "running" => \A t \in Jobs[h] : diagPc[t] # "new"
    /\ queue = <<>> \/ Cardinality(Busy) >= Workers
    /\ \A t \in Tasks : diagPc[t] # "ended"
    /\ \A t \in Tasks \ {Coord} : diagPc[t] = "running" => ~WaitOver(t)
    /\ Coordinating => ToPush = {} /\ left # 0

LEMMA WhereTasksAre ==
    ASSUME DiagInv, Undropped, Whereabouts, Stuck, NEW t \in Tasks
    PROVE  /\ t \in UnderWay \/ diagPc[t] = "new" \/ (diagPc[t] = "done" /\ result[t] = "answer")
           /\ diagPc[t] # "held"
<1>1. diagPc[t] \in Places \cup {"closing"}
  BY DEF DiagInv, RunTypes, PcTypes, Threads
<1>2. diagPc[t] # "held"
  BY RunAssumption DEF Stuck, Whereabouts, NoTask
<1> QED BY <1>1, <1>2 DEF Undropped, Whereabouts, Stuck, UnderWay, Places

LEMMA QueueEmpty ==
    ASSUME DiagInv, Undropped, Whereabouts, Stuck, EnoughWorkers
    PROVE  queue = <<>>
<1> SUFFICES ASSUME Cardinality(Busy) >= Workers PROVE FALSE
  BY DEF Stuck
<1>1. IsFiniteSet(AwaitingTasks) /\ IsFiniteSet(Busy)
  BY RunAssumption, FS_Subset DEF AwaitingTasks, Busy
<1>2. Cardinality(AwaitingTasks) \in Nat /\ Cardinality(Busy) \in Nat
  BY <1>1, FS_CardinalityType
<1>3. ~(Busy \subseteq AwaitingTasks)
  <2>1. Cardinality(AwaitingTasks) < Cardinality(Busy)
    BY <1>2, RunAssumption DEF EnoughWorkers
  <2> QED BY <1>1, <1>2, <2>1, FS_Subset
<1>4. PICK t \in Busy : t \notin AwaitingTasks
  BY <1>3
<1>5. t \in Tasks /\ t # Coord /\ Jobs[t] = {}
  BY <1>4 DEF Busy, AwaitingTasks
<1>6. diagPc[t] = "running"
  BY <1>4, <1>5 DEF Busy, Stuck, Threads
<1>7. WaitOver(t)
  BY <1>5 DEF WaitOver
<1> QED BY <1>5, <1>6, <1>7 DEF Stuck

LEMMA NoneUnderWay ==
    ASSUME NEW rank, Layered(rank), EnoughWorkers,
           DiagInv, NobodyForgotten, Undropped, Whereabouts, Counted, Stuck
    PROVE  UnderWay = {}
<1> SUFFICES ASSUME UnderWay # {} PROVE FALSE
  OBVIOUS
<1>1. PICK t \in UnderWay : \A u \in UnderWay : rank[t] <= rank[u]
  <2> DEFINE R == {rank[u] : u \in UnderWay}
  <2>1. R \in SUBSET Nat /\ R # {}
    BY DEF Layered, UnderWay
  <2>2. \E x \in R : \A y \in R : x <= y
    <3> HIDE DEF R
    <3> QED BY <2>1, LeastNatural
  <2> QED BY <2>2
<1>2. t \in Tasks /\ diagPc[t] \in {"waiting", "held", "queued", "running"}
  BY DEF UnderWay
<1>3. \A u \in Tasks : rank[u] \in Nat
  BY DEF Layered
<1>4. \A u \in Tasks : diagPc[u] # "queued"
  BY QueueEmpty DEF Whereabouts
<1>5. \A u \in UnderWay : rank[u] = rank[t] => diagPc[u] # "running"
  <2> SUFFICES ASSUME NEW u \in UnderWay, rank[u] = rank[t], diagPc[u] = "running" PROVE FALSE
    OBVIOUS
  <2>1. u \in Tasks
    BY DEF UnderWay
  <2>2. CASE u # Coord
    <3>1. ASSUME NEW v \in Jobs[u] PROVE result[v] = "answer"
      <4>1. v \in Tasks /\ diagPc[v] # "new"
        BY <2>1, RunAssumption DEF Stuck, Threads
      <4>2. v \notin UnderWay
        BY <1>1, <1>3, <2>1, <4>1 DEF Layered
      <4> QED BY <4>1, <4>2, WhereTasksAre
    <3>2. WaitOver(u)
      BY <3>1 DEF WaitOver, Told
    <3> QED BY <2>1, <2>2, <3>2 DEF Stuck
  <2>3. CASE u = Coord
    <3>1. ToPush = {} /\ left # 0
      BY <2>3 DEF Stuck, Coordinating
    <3>2. stage \in 1..Len(Stages) /\ left = Cardinality(Unfinished(stage))
      BY <3>1 DEF Counted, DiagInv, StageInv
    <3>3. PICK v \in Unfinished(stage) : TRUE
      BY <3>1, <3>2, FS_EmptySet
    <3>4. v \in Tasks /\ v \in Staged /\ diagPc[v] \notin {"new", "done"}
      BY <3>1, <3>2, StagedTasks DEF Unfinished, ToPush
    <3>5. v \in UnderWay
      BY <3>4, WhereTasksAre
    <3>6. rank[v] < rank[u]
      BY <2>3, <3>4 DEF Layered
    <3> QED BY <1>1, <1>3, <2>1, <3>4, <3>5, <3>6
  <2> QED BY <2>2, <2>3
<1>6. diagPc[t] = "waiting"
  BY <1>2, <1>4, <1>5, WhereTasksAre
<1> DEFINE l == LaneOf[t]
<1>7. l \in Lanes /\ waiting[l] # <<>> /\ waiting[l] \in Seq(Tasks)
  BY <1>2, <1>6 DEF Whereabouts, DiagInv, RunTypes, LaneTypes
<1>8. ~HasRoom(l)
  <2>1. ~closed[l] /\ l # NoLane
    BY <1>7, RunAssumption DEF Undropped
  <2> QED BY <1>7, <2>1 DEF NobodyForgotten, Stuck
<1>9. Cardinality(InPool(l)) # 0
  <2>1. ~(running[l] < Limit[l]) /\ running[l] = Cardinality(InPool(l))
    BY <1>7, <1>8 DEF HasRoom, DiagInv, CountInv, Undropped
  <2>2. Limit[l] \in Nat \ {0} /\ running[l] \in Nat
    BY <1>7, RunAssumption DEF DiagInv, RunTypes, LaneTypes
  <2> QED BY <2>1, <2>2
<1>10. PICK u \in InPool(l) : TRUE
  BY <1>9, FS_EmptySet
<1>11. /\ u \in Tasks /\ LaneOf[u] = l /\ l # NoLane
       /\ diagPc[u] \in {"held", "queued", "running", "ended"}
  BY <1>7, <1>10, RunAssumption DEF InPool
<1>12. diagPc[u] = "running"
  BY <1>4, <1>11, WhereTasksAre DEF Stuck
<1>13. rank[u] = rank[t]
  BY <1>2, <1>11 DEF Layered
<1> QED BY <1>5, <1>11, <1>12, <1>13 DEF UnderWay

LEMMA Unstuck ==
    ASSUME NEW rank, Layered(rank), EnoughWorkers, DiagInv, NobodyForgotten, GoingInv
    PROVE  NoDeadlock
<1>0. ASSUME diagPc[Main] = "running", ~NoDeadlock PROVE Stuck
  <2>1. IsFiniteSet(Busy) /\ Cardinality(Busy) \in Nat
    BY RunAssumption, FS_Subset, FS_CardinalityType DEF Busy
  <2>2. ~(Cardinality(Busy) < Workers) => Cardinality(Busy) >= Workers
    BY <2>1, RunAssumption
  <2>3. \A t \in Tasks : diagPc[t] = "ended" => LaneOf[t] # NoLane \/ t \in Staged
    BY <1>0 DEF GoingInv, Whereabouts
  <2> QED BY <1>0, <2>2, <2>3 DEF NoDeadlock, Stuck
<1> SUFFICES ASSUME diagPc[Main] = "running", Stuck PROVE EverythingAwaited
  BY <1>0 DEF NoDeadlock
<1>1. Undropped /\ Whereabouts /\ Counted
  BY DEF GoingInv
<1>2. UnderWay = {}
  BY <1>1, NoneUnderWay
<1>3. ASSUME NEW t \in Jobs[Main] PROVE diagPc[t] = "done" /\ result[t] = "answer"
  <2>1. t \in Tasks /\ diagPc[t] # "new"
    BY RunAssumption DEF Stuck, Threads
  <2> QED BY <1>1, <1>2, <2>1, WhereTasksAre
<1>4. ASSUME NEW t \in Staged PROVE result[t] = "answer"
  <2>1. diagPc[Coord] = "done"
    BY <1>3 DEF Layered
  <2>2. stage = Len(Stages) /\ left = 0
    BY <1>1, <2>1 DEF Counted
  <2>3. PICK i \in 1..Len(Stages) : t \in Stages[i]
    BY RunAssumption DEF Staged
  <2>4. diagPc[t] = "done"
    <3>1. CASE i < stage
      BY <2>3, <3>1 DEF DiagInv, StageInv
    <3>2. CASE i = stage
      <4>1. IsFiniteSet(Unfinished(stage)) /\ Cardinality(Unfinished(stage)) = 0
        BY <1>1, <2>2, <2>3, <3>2, StagedTasks, FS_Subset DEF Counted, Unfinished
      <4>2. t \notin Unfinished(stage)
        BY <4>1, FS_EmptySet
      <4> QED BY <2>3, <3>2, <4>2 DEF Unfinished
    <3> QED BY <2>2, <2>3, <3>1, <3>2, RunAssumption
  <2> QED BY <1>1, <2>4, StagedTasks DEF Whereabouts
<1> QED BY <1>3, <1>4 DEF EverythingAwaited, Told

(* The pool has a thread for each task that awaits others and one more, as *)
(* workers_per_target reckons, and waits go from one layer of tasks to a   *)
(* lower one, as run_context.rs asks of the lanes: then nothing in a run   *)
(* waits in a circle, whatever the order in which tasks are submitted,     *)
(* begun and answered. The instance shows that with one thread less it may.*)
THEOREM RunsDoNotLockUp ==
    ASSUME NEW rank, Layered(rank), EnoughWorkers
    PROVE  DiagSpec => []NoDeadlock
<1> DEFINE I == DiagInv /\ NobodyForgotten /\ GoingInv
<1>1. DiagInit => I
  BY DiagInitInv, GoingInit
<1>2. I /\ [DiagNext]_diagVars => I'
  BY DiagStepInv, ForgottenStep, GoingStep
<1>3. I => NoDeadlock
  BY Unstuck
<1> QED BY <1>1, <1>2, <1>3, PTL DEF DiagSpec

-----------------------------------------------------------------------------
(* Who is told that he will not run.                                       *)

(* Hands hold tasks of lanes only. *)
HandsOfLanes == \A h \in Threads : hand[h] # NoTask => LaneOf[hand[h]] # NoLane

PlainAreTold ==
    \A t \in Tasks \ Staged :
        LaneOf[t] = NoLane /\ diagPc[t] = "dropped" => result[t] = "cancelled"

ToldInv == HandsOfLanes /\ PlainAreTold

LEMMA PushTold ==
    ASSUME DiagInv, ToldInv, NEW t \in Tasks, Push(t)
    PROVE  PlainAreTold'
<1>1. /\ diagPc \in [Threads -> Places \cup {"closing"}] /\ result \in [Tasks -> Results]
  BY DEF DiagInv, RunTypes, PcTypes
<1>2. \A u \in Tasks : u # t => diagPc'[u] = diagPc[u] /\ result'[u] = result[u]
  BY <1>1 DEF Push, Threads
<1>3. LaneOf[t] = NoLane /\ diagPc'[t] = "dropped" => result'[t] = "cancelled"
  BY <1>1 DEF Push, Refusal, Threads
<1> QED BY <1>2, <1>3 DEF ToldInv, PlainAreTold

LEMMA ToldStep == DiagInv /\ ToldInv /\ [DiagNext]_diagVars => ToldInv'
<1> SUFFICES ASSUME DiagInv, ToldInv, [DiagNext]_diagVars PROVE HandsOfLanes' /\ PlainAreTold'
  BY DEF ToldInv
<1>0. /\ diagPc \in [Threads -> Places \cup {"closing"}] /\ result \in [Tasks -> Results]
      /\ hand \in [Threads -> Threads] /\ Main \notin Tasks /\ NoLane \notin Lanes
  BY RunAssumption DEF DiagInv, RunTypes, PcTypes, PumpTypes
<1> USE DEF poolVars, laneVars, pumpVars, stageVars
<1>a. UNCHANGED hand => HandsOfLanes'
  BY DEF ToldInv, HandsOfLanes
<1>b. ASSUME UNCHANGED result,
             \A t \in Tasks : diagPc'[t] = "dropped" => diagPc[t] = "dropped"
      PROVE  PlainAreTold'
  BY <1>b DEF ToldInv, PlainAreTold
<1>1. ASSUME NEW h \in Threads, NEW t \in Tasks, Submit(h, t) PROVE HandsOfLanes' /\ PlainAreTold'
  <2>1. UNCHANGED hand
    BY <1>1 DEF Submit, SubmitPlain, SubmitToLane
  <2>2. CASE SubmitPlain(t)
    BY <1>a, <2>1, <2>2, PushTold DEF SubmitPlain
  <2>3. CASE SubmitToLane(h, t)
    <3>1. \A u \in Tasks : u # t => diagPc'[u] = diagPc[u] /\ result'[u] = result[u]
      BY <1>0, <2>3 DEF SubmitToLane, Threads
    <3> QED BY <1>a, <2>1, <2>3, <3>1 DEF SubmitToLane, ToldInv, PlainAreTold
  <2> QED BY <1>1, <2>2, <2>3 DEF Submit
<1>2. ASSUME NEW h \in Threads, PumpTake(h) PROVE HandsOfLanes' /\ PlainAreTold'
  <2> DEFINE l == pumping[h]
  <2>1. CASE UNCHANGED <<diagPc, hand>>
    BY <1>2, <1>a, <1>b, <2>1 DEF PumpTake
  <2>2. CASE ~closed[l] /\ HasRoom(l)
    <3>1. l \in Lanes /\ waiting[l] \in Seq(Tasks) /\ waiting[l] # <<>> /\ WaitInv(l)
      BY <1>2, <2>2 DEF PumpTake, HasRoom, DiagInv, RunTypes, PumpTypes, LaneTypes, PlaceInv
    <3>2. Head(waiting[l]) \in Tasks /\ LaneOf[Head(waiting[l])] = l
      BY <3>1, TailFacts DEF WaitInv
    <3>3. hand' = [hand EXCEPT ![h] = Head(waiting[l])] /\ UNCHANGED result
          /\ diagPc' = [diagPc EXCEPT ![Head(waiting[l])] = "held"]
      BY <1>2, <2>2 DEF PumpTake
    <3>4. HandsOfLanes'
      BY <1>0, <3>1, <3>2, <3>3 DEF ToldInv, HandsOfLanes
    <3>5. \A t \in Tasks : diagPc'[t] = "dropped" => diagPc[t] = "dropped"
      BY <1>0, <3>2, <3>3 DEF Threads
    <3> QED BY <1>b, <3>3, <3>4, <3>5
  <2> QED BY <1>2, <2>1, <2>2 DEF PumpTake
<1>3. ASSUME NEW h \in Threads, PumpPush(h) PROVE HandsOfLanes' /\ PlainAreTold'
  <2>1. hand[h] \in Tasks /\ Push(hand[h]) /\ hand' = [hand EXCEPT ![h] = NoTask]
    BY <1>0, <1>3 DEF PumpPush, Threads, NoTask
  <2>2. HandsOfLanes'
    BY <1>0, <2>1 DEF ToldInv, HandsOfLanes
  <2> QED BY <2>1, <2>2, PushTold
<1>4. ASSUME NEW t \in Tasks, TaskStep(t) PROVE HandsOfLanes' /\ PlainAreTold'
  <2>1. UNCHANGED hand /\ \A u \in Tasks : u # t => diagPc'[u] = diagPc[u] /\ result'[u] = result[u]
    BY <1>0, <1>4 DEF TaskStep, Answer, LeaveLane, LeaveStage, Threads
  <2>2. diagPc'[t] # "dropped"
    BY <1>0, <1>4 DEF TaskStep, Answer, LeaveLane, LeaveStage, Threads
  <2> QED BY <1>a, <2>1, <2>2 DEF ToldInv, PlainAreTold
<1>5. CASE CoordStep
  <2>1. ASSUME NEW t \in Tasks, PushStaged(t) PROVE HandsOfLanes' /\ PlainAreTold'
    BY <1>a, <2>1, PushTold DEF PushStaged
  <2>2. CASE NextStage
    BY <1>a, <1>b, <2>2 DEF NextStage
  <2>3. CASE StagesOver
    <3>1. \A u \in Tasks : u # Coord => diagPc'[u] = diagPc[u] /\ result'[u] = result[u]
      BY <1>0, <2>3, RunAssumption DEF StagesOver, Threads
    <3>2. diagPc'[Coord] = "done" /\ UNCHANGED hand
      BY <1>0, <2>3, RunAssumption DEF StagesOver, Threads
    <3> QED BY <1>a, <3>1, <3>2 DEF ToldInv, PlainAreTold
  <2> QED BY <1>5, <2>1, <2>2, <2>3 DEF CoordStep
<1>6. CASE BeginClose
  BY <1>0, <1>6, <1>a, <1>b DEF BeginClose, Threads
<1>7. ASSUME NEW l \in Lanes, CloseLane(l) PROVE HandsOfLanes' /\ PlainAreTold'
  BY <1>7, <1>a DEF CloseLane, ToldInv, PlainAreTold, Threads
<1>8. CASE ClosePool
  <2>1. \A t \in Tasks \ Staged :
           /\ diagPc'[t] = IF t \in ToSet(queue) THEN "dropped" ELSE diagPc[t]
           /\ result'[t] = IF t \in ToSet(queue) THEN Refusal(t) ELSE result[t]
    BY <1>0, <1>8 DEF ClosePool, Threads
  <2>2. UNCHANGED hand
    BY <1>8 DEF ClosePool
  <2> QED BY <1>a, <2>1, <2>2 DEF ToldInv, PlainAreTold, Refusal
<1>9. CASE Begin
  <2>1. Head(queue) \in Tasks
    BY <1>9, TailFacts DEF Begin, DiagInv, RunTypes, PoolTypes
  <2>2. \A t \in Tasks : diagPc'[t] = "dropped" => diagPc[t] = "dropped"
    BY <1>0, <1>9, <2>1 DEF Begin, Threads
  <2> QED BY <1>9, <1>a, <1>b, <2>2 DEF Begin
<1>10. CASE UserStops \/ UNCHANGED diagVars
  BY <1>10, <1>a, <1>b DEF UserStops, diagVars
<1> QED BY <1>1, <1>2, <1>3, <1>4, <1>5, <1>6, <1>7, <1>8, <1>9, <1>10
     DEF DiagNext, StepOf, ThreadStep, MainStep

(* "A task taken out before it started gets Cancelled": so it is for every *)
(* task that goes straight into the pool. The lanes' own jobs are the only *)
(* ones that fall silent.                                                  *)
THEOREM PlainTasksAreTold == DiagSpec => []PlainAreTold
<1>1. DiagInit => ToldInv
  BY RunAssumption DEF DiagInit, ToldInv, HandsOfLanes, PlainAreTold, Threads
<1>2. ToldInv => PlainAreTold
  BY DEF ToldInv
<1> QED BY <1>1, <1>2, ToldStep, DiagInitInv, DiagStepInv, PTL DEF DiagSpec

-----------------------------------------------------------------------------
(* What a page was shown as done is final and whole, for any number of     *)
(* jobs and any set of sites. The strengthening: the domains of a job are  *)
(* those being probed, those with a result and those whose probe panicked; *)
(* a job that is done probes nothing; and what is beyond the slot has not  *)
(* been begun.                                                             *)

JobInv(j) ==
    /\ wanted[j] = probing[j] \cup results[j] \cup panicked[j]
    /\ done[j] => probing[j] = {} /\ j <= slot
    /\ j > slot => wanted[j] = {}

SeenInv ==
    seen.done => /\ seen.job \in JobIds
                 /\ done[seen.job]
                 /\ seen.results = results[seen.job]

CjInv == CjTypeOK /\ (\A j \in JobIds : JobInv(j)) /\ SeenInv

LEMMA CjInitInv == CjInit => CjInv
<1> SUFFICES ASSUME CjInit PROVE CjInv
  OBVIOUS
<1> USE CjAssumption DEF CjInit, JobIds
<1>1. CjTypeOK
  BY DEF CjTypeOK
<1>2. \A j \in JobIds : JobInv(j)
  BY DEF JobInv
<1>3. SeenInv
  BY DEF SeenInv
<1> QED BY <1>1, <1>2, <1>3 DEF CjInv

(* What is on the page of a job that is done does not change any more. *)
LEMMA SeenStays ==
    ASSUME CjInv, UNCHANGED seen,
           \A j \in JobIds : done[j] => done'[j] /\ results'[j] = results[j]
    PROVE  SeenInv'
  BY DEF CjInv, SeenInv

LEMMA CjStepInv == CjInv /\ [CjNext]_cjVars => CjInv'
<1> SUFFICES ASSUME CjInv, [CjNext]_cjVars PROVE CjInv'
  OBVIOUS
<1> USE CjAssumption DEF JobIds
<1> CjTypeOK
  BY DEF CjInv
<1>1. CASE BeginJob
  <2> PICK asked \in SUBSET Sites \ {{}} :
          /\ wanted' = [wanted EXCEPT ![slot + 1] = asked]
          /\ probing' = [probing EXCEPT ![slot + 1] = asked]
    BY <1>1 DEF BeginJob
  <2> USE <1>1 DEF BeginJob
  <2>1. slot + 1 \in JobIds /\ JobInv(slot + 1)
    BY DEF CjInv, CjTypeOK
  <2>2. CjTypeOK'
    BY DEF CjTypeOK
  <2>3. ASSUME NEW j \in JobIds PROVE JobInv(j)'
    <3>1. CASE j = slot + 1
      BY <2>1, <3>1 DEF JobInv, CjTypeOK
    <3>2. CASE j # slot + 1
      BY <3>2 DEF CjInv, JobInv, CjTypeOK
    <3> QED BY <3>1, <3>2
  <2>4. SeenInv'
    BY SeenStays
  <2> QED BY <2>2, <2>3, <2>4 DEF CjInv
<1>2. ASSUME NEW j \in JobIds, NEW site \in Sites, PushResult(j, site)
      PROVE  CjInv'
  <2> USE <1>2 DEF PushResult
  <2>1. JobInv(j) /\ ~done[j]
    BY DEF CjInv, JobInv
  <2>2. CjTypeOK'
    BY DEF CjTypeOK
  <2>3. ASSUME NEW i \in JobIds PROVE JobInv(i)'
    <3>1. CASE i = j
      BY <2>1, <3>1 DEF JobInv, CjTypeOK
    <3>2. CASE i # j
      BY <3>2 DEF CjInv, JobInv, CjTypeOK
    <3> QED BY <3>1, <3>2
  <2>4. SeenInv'
    BY <2>1, SeenStays DEF CjTypeOK
  <2> QED BY <2>2, <2>3, <2>4 DEF CjInv
<1>3. ASSUME NEW j \in JobIds, NEW site \in Sites, Panic(j, site)
      PROVE  CjInv'
  <2> USE <1>3 DEF Panic
  <2>1. JobInv(j) /\ ~done[j]
    BY DEF CjInv, JobInv
  <2>2. CjTypeOK'
    BY DEF CjTypeOK
  <2>3. ASSUME NEW i \in JobIds PROVE JobInv(i)'
    <3>1. CASE i = j
      BY <2>1, <3>1 DEF JobInv, CjTypeOK
    <3>2. CASE i # j
      BY <3>2 DEF CjInv, JobInv, CjTypeOK
    <3> QED BY <3>1, <3>2
  <2>4. SeenInv'
    BY SeenStays
  <2> QED BY <2>2, <2>3, <2>4 DEF CjInv
<1>4. ASSUME NEW j \in JobIds, FinishJob(j)
      PROVE  CjInv'
  <2> USE <1>4 DEF FinishJob
  <2>1. CjTypeOK'
    BY DEF CjTypeOK
  <2>2. ASSUME NEW i \in JobIds PROVE JobInv(i)'
    BY DEF CjInv, JobInv, CjTypeOK
  <2>3. SeenInv'
    BY SeenStays DEF CjTypeOK
  <2> QED BY <2>1, <2>2, <2>3 DEF CjInv
<1>5. CASE Show
  <2> USE <1>5 DEF Show
  <2>1. CjTypeOK'
    BY DEF CjTypeOK
  <2>2. \A j \in JobIds : JobInv(j)'
    BY DEF CjInv, JobInv
  <2>3. SeenInv'
    BY DEF SeenInv, CjTypeOK
  <2> QED BY <2>1, <2>2, <2>3 DEF CjInv
<1>6. CASE UNCHANGED cjVars
  BY <1>6 DEF cjVars, CjInv, CjTypeOK, JobInv, SeenInv
<1> QED BY <1>1, <1>2, <1>3, <1>4, <1>5, <1>6 DEF CjNext

(* Jobs, results and what the page saw are well-typed. *)
THEOREM CjTypeCorrect == CjSpec => []CjTypeOK
<1>1. CjInv => CjTypeOK
  BY DEF CjInv
<1> QED BY <1>1, CjInitInv, CjStepInv, PTL DEF CjSpec

(* begin_job, run_job and status: what was shown as done is final, and     *)
(* each domain has a result or its probe panicked.                         *)
THEOREM DoneIsFinal == CjSpec => []ShownDoneIsFinal
<1>1. CjInv => ShownDoneIsFinal
  BY DEF CjInv, SeenInv, JobInv, ShownDoneIsFinal
<1> QED BY <1>1, CjInitInv, CjStepInv, PTL DEF CjSpec
==============================================================================
