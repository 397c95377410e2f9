------------------------- MODULE HomingCycle_proofs -------------------------
(* Proofs about HomingCycle, for every number of motors, size of the ring,  *)
(* set of tasks and bound on the drifts.                                    *)
EXTENDS HomingCycle, FiniteSetTheorems, TLAPS

----------------------------------------------------------------------------
(* Constants. *)

LEMMA MotorFacts ==
  /\ 0 \in Motors
  /\ LastMotor \in Motors
  /\ \A m \in Motors : m # LastMotor => m + 1 \in Motors
BY MotorCountAssumption DEF Motors, LastMotor

LEMMA FirstLine == <<0, FALSE>> \in Lines
BY MotorFacts DEF Lines

LEMMA SlotFacts ==
  /\ 0 \in Slots
  /\ \A s \in Slots : After(s) \in Slots
<1>1. 0 \in Slots
  BY QueueSizeAssumption DEF Slots
<1>2. ASSUME NEW s \in Slots PROVE After(s) \in Slots
  <2>1. s + 1 \in Int /\ LIMIT_QUEUE_SIZE \in Nat /\ LIMIT_QUEUE_SIZE > 0
    BY QueueSizeAssumption DEF Slots
  <2>2. (s + 1) % LIMIT_QUEUE_SIZE \in 0 .. LIMIT_QUEUE_SIZE - 1
    BY <2>1
  <2> QED BY <2>2 DEF After, Slots
<1> QED BY <1>1, <1>2

----------------------------------------------------------------------------
(* The operators of the components keep the types of their variables. *)

LEMMA HandleBtnType ==
  ASSUME SysTypeOK, NEW b \in BtnEvents, NEW action, HandleBtnEvent(b, action)
  PROVE  SysTypeOK'
<1>1. CASE b = "START"
  BY <1>1 DEF HandleBtnEvent, HandleStart, SysTypeOK, SysStates
<1>2. CASE b = "STOP"
  BY <1>2 DEF HandleBtnEvent, HandleStop, SysTypeOK, SysStates
<1>3. CASE b = "EMERGENCY"
  BY <1>3 DEF HandleBtnEvent, Latch, SysTypeOK, SysStates
<1>4. CASE b = "RESTART"
  BY <1>4 DEF HandleBtnEvent, HandleRestart, ResetHoming, SysTypeOK, SysStates,
              sysVars
<1> QED BY <1>1, <1>2, <1>3, <1>4 DEF BtnEvents

LEMMA CutType ==
  ASSUME StepTypeOK, NEW ms, CutChannels(ms),
         limit_active' \in [Lines -> BOOLEAN]
  PROVE  StepTypeOK'
BY DEF CutChannels, StepTypeOK, StepModes

LEMMA ApplyMoveType ==
  ASSUME StepTypeOK, NEW m \in Motors, NEW up \in BOOLEAN,
         NEW newMode \in StepModes, ApplyMove(m, up, newMode)
  PROVE  StepTypeOK'
BY DEF ApplyMove, StepTypeOK

LEMMA NotifyLimitType ==
  ASSUME StepTypeOK, NEW line \in Lines, NEW active \in BOOLEAN,
         NotifyLimit(line, active)
  PROVE  StepTypeOK'
<1>1. limit_active' \in [Lines -> BOOLEAN]
  BY DEF NotifyLimit, SetLimitFlag, StepTypeOK
<1>2. CASE active /\ MovingTowards(line)
  BY <1>1, <1>2, CutType DEF NotifyLimit
<1>3. CASE ~(active /\ MovingTowards(line))
  BY <1>1, <1>3 DEF NotifyLimit, StepTypeOK, chanVars
<1> QED BY <1>2, <1>3

LEMMA CutStageType ==
  ASSUME StepTypeOK, NEW m \in Motors, NEW stage, CutStage(m, stage)
  PROVE  StepTypeOK'
BY DEF CutStage, StepTypeOK, StepModes

LEMMA LoopType ==
  ASSUME hpc \in [Tasks -> HomingPcs], hi \in [Tasks -> Motors],
         NEW t \in Tasks, NEW again \in HomingPcs, NEW done \in HomingPcs,
         Loop(t, again, done)
  PROVE  hpc' \in [Tasks -> HomingPcs] /\ hi' \in [Tasks -> Motors]
BY MotorFacts DEF Loop

LEMMA GotoType ==
  ASSUME hpc \in [Tasks -> HomingPcs], hi \in [Tasks -> Motors],
         NEW t \in Tasks, NEW pc \in HomingPcs, Goto(t, pc)
  PROVE  hpc' \in [Tasks -> HomingPcs] /\ hi' \in [Tasks -> Motors]
BY DEF Goto

LEMMA RingType ==
  ASSUME LimitTypeOK, UNCHANGED <<settling, workVars, g_limit>>,
         FlushRing \/ DrainOne \/ TakeEvent
  PROVE  LimitTypeOK'
BY SlotFacts, QueueSizeAssumption
   DEF LimitTypeOK, workVars, FlushRing, DrainOne, TakeEvent

LEMMA EventType ==
  ASSUME LimitTypeOK
  PROVE  EventAtTail \in Lines /\ EventAtTail[1] \in Motors
BY DEF LimitTypeOK, EventAtTail, Lines

LEMMA TypeInit == Init => TypeOK
<1> SUFFICES ASSUME Init PROVE TypeOK
  OBVIOUS
<1>1. SysTypeOK
  BY DEF Init, SysInit, SysTypeOK, SysStates
<1>2. StepTypeOK
  BY DEF Init, StepInit, StepTypeOK, StepModes
<1>3. LimitTypeOK
  <2>1. 0 \in 0 .. SEM_VALUE_MAX
    BY QueueSizeAssumption
  <2> QED BY <2>1, FirstLine, SlotFacts
          DEF Init, LimitInit, LimitTypeOK, WorkerStates
<1>4. HomingTypeOK
  <2>1. 0 \in 0 .. MAX_DRIFTS
    BY HomingAssumption
  <2>2. feedback \in [Motors -> BOOLEAN]
    BY HomingAssumption DEF Init
  <2>3. 0 \in Int
    OBVIOUS
  <2> QED BY <2>1, <2>2, <2>3, MotorFacts DEF Init, HomingTypeOK, SafetyPcs, HomingPcs
<1> QED BY <1>1, <1>2, <1>3, <1>4 DEF TypeOK

(* The axes, the move that ends, the encoders and the worker. *)

LEMMA AxisType ==
  ASSUME TypeOK, NEW m \in Motors, Axis(m)
  PROVE  TypeOK'
<1>1. ASSUME AxisTurns(m) \/ AxisDrifts(m) PROVE TypeOK'
  <2>1. PICK p \in Positions : AxisComesTo(m, p)
    BY <1>1 DEF AxisTurns, AxisDrifts, AxisComesTo
  <2>2. pos' \in [Motors -> Positions] /\ settling' \subseteq Lines
    BY <2>1 DEF TypeOK, HomingTypeOK, LimitTypeOK, AxisComesTo, LimitIsr
  <2>3. drifts' \in 0 .. MAX_DRIFTS
    BY <1>1, HomingAssumption DEF TypeOK, HomingTypeOK, AxisTurns, AxisDrifts
  <2>4. UNCHANGED <<sysVars, stepVars, workVars, g_limit, ringVars, safetyVars,
                    taskVars, captured, feedback>>
    BY <1>1 DEF AxisTurns, AxisDrifts
  <2>5. SysTypeOK' /\ StepTypeOK'
    BY <2>4 DEF TypeOK, SysTypeOK, StepTypeOK, sysVars, stepVars
  <2>6. LimitTypeOK'
    BY <2>2, <2>4 DEF TypeOK, LimitTypeOK, workVars, ringVars
  <2>7. HomingTypeOK'
    BY <2>2, <2>3, <2>4 DEF TypeOK, HomingTypeOK, safetyVars, taskVars
  <2> QED BY <2>5, <2>6, <2>7 DEF TypeOK
<1>2. ASSUME MoveEnds(m) PROVE TypeOK'
  <2>1. StepTypeOK'
    BY <1>2 DEF MoveEnds, SlaveIsr, TypeOK, StepTypeOK, StepModes
  <2>2. SysTypeOK' /\ LimitTypeOK'
    BY <1>2 DEF MoveEnds, TypeOK, SysTypeOK, LimitTypeOK, sysVars, limitVars,
                workVars, ringVars
  <2>3. HomingTypeOK'
    BY <1>2 DEF MoveEnds, TypeOK, HomingTypeOK, safetyVars, taskVars, axisVars
  <2> QED BY <2>1, <2>2, <2>3 DEF TypeOK
<1>3. ASSUME EncoderRead(m) PROVE TypeOK'
  BY <1>3 DEF EncoderRead, TypeOK, SysTypeOK, StepTypeOK, LimitTypeOK,
              HomingTypeOK, sysVars, stepVars, limitVars, workVars, ringVars,
              safetyVars, taskVars, axisVars
<1> QED BY <1>1, <1>2, <1>3 DEF Axis

LEMMA LimitWorkerType ==
  ASSUME TypeOK, LimitWorker
  PROVE  TypeOK'
<1>1. SysTypeOK' /\ HomingTypeOK'
  BY DEF LimitWorker, TypeOK, SysTypeOK, HomingTypeOK, sysVars, safetyVars,
         taskVars, axisVars
<1>2. ASSUME NEW l \in Lines, WorkerReads(l, Level(l))
      PROVE  StepTypeOK' /\ LimitTypeOK'
  <2>1. Level(l) \in BOOLEAN
    BY DEF Level
  <2> QED BY <1>2, <2>1 DEF WorkerReads, TypeOK, StepTypeOK, LimitTypeOK,
                            WorkerStates, stepVars, ringVars
<1>3. ASSUME WorkerNotifies PROVE StepTypeOK' /\ LimitTypeOK'
  <2>1. StepTypeOK'
    BY <1>3 DEF WorkerNotifies, SetLimitFlag, TypeOK, StepTypeOK, LimitTypeOK,
                chanVars
  <2>2. LimitTypeOK'
    BY <1>3 DEF WorkerNotifies, TypeOK, LimitTypeOK, WorkerStates, CutStages,
                ringVars
  <2> QED BY <2>1, <2>2
<1>4. ASSUME WorkerCuts PROVE StepTypeOK' /\ LimitTypeOK'
  <2>1. workLine[1] \in Motors
    BY DEF TypeOK, LimitTypeOK, Lines
  <2>2. StepTypeOK'
    BY <1>4, <2>1, CutStageType DEF WorkerCuts, TypeOK
  <2>3. worker' \in WorkerStates
    BY <1>4 DEF WorkerCuts, NextStage, WorkerStates, CutStages
  <2>4. LimitTypeOK'
    BY <1>4, <2>3 DEF WorkerCuts, TypeOK, LimitTypeOK, ringVars
  <2> QED BY <2>2, <2>4
<1>5. ASSUME WorkerSetsLevel PROVE StepTypeOK' /\ LimitTypeOK'
  <2>1. StepTypeOK'
    BY <1>5 DEF WorkerSetsLevel, TypeOK, StepTypeOK, stepVars
  <2>2. LimitTypeOK'
    BY <1>5 DEF WorkerSetsLevel, TypeOK, LimitTypeOK, WorkerStates, ringVars
  <2> QED BY <2>1, <2>2
<1>6. ASSUME WorkerPushes PROVE StepTypeOK' /\ LimitTypeOK'
  BY <1>6, SlotFacts DEF WorkerPushes, TypeOK, StepTypeOK, LimitTypeOK,
                         WorkerStates, stepVars
<1>7. ASSUME WorkerPosts PROVE StepTypeOK' /\ LimitTypeOK'
  <2>1. StepTypeOK'
    BY <1>7 DEF WorkerPosts, TypeOK, StepTypeOK, stepVars
  <2>2. LimitTypeOK'
    <3>1. lsem' \in 0 .. SEM_VALUE_MAX
      BY <1>7, QueueSizeAssumption DEF WorkerPosts, TypeOK, LimitTypeOK
    <3>2. worker' \in WorkerStates /\ workLine' \in Lines /\ workActive' \in BOOLEAN
      BY <1>7, FirstLine DEF WorkerPosts, WorkerStates
    <3> QED BY <1>7, <3>1, <3>2 DEF WorkerPosts, TypeOK, LimitTypeOK
  <2> QED BY <2>1, <2>2
<1> QED BY <1>1, <1>2, <1>3, <1>4, <1>5, <1>6, <1>7
        DEF LimitWorker, WorkerContinues, TypeOK

LEMMA SafetyEventType ==
  ASSUME TypeOK, NEW b \in BtnEvents, SafetyEvent(b)
  PROVE  TypeOK'
<1>1. PICK action : HandleBtnEvent(b, action)
  BY DEF SafetyEvent
<1>2. SysTypeOK'
  BY <1>1, HandleBtnType DEF TypeOK
<1>3. StepTypeOK' /\ LimitTypeOK'
  BY DEF SafetyEvent, TypeOK, StepTypeOK, LimitTypeOK, stepVars, limitVars,
         workVars, ringVars
<1>4. HomingTypeOK'
  BY MotorFacts DEF SafetyEvent, TypeOK, HomingTypeOK, SafetyPcs, safetyVars,
                    taskVars, axisVars
<1> QED BY <1>2, <1>3, <1>4 DEF TypeOK

LEMMA SafetyTaskType ==
  ASSUME TypeOK, SafetyTask
  PROVE  TypeOK'
<1>1. ASSUME NEW t \in Tasks, SafetySpawns(t) PROVE TypeOK'
  BY <1>1 DEF SafetySpawns, TypeOK, SysTypeOK, StepTypeOK, LimitTypeOK,
              HomingTypeOK, SafetyPcs, HomingPcs, sysVars, stepVars, limitVars,
              workVars, ringVars, axisVars
<1>2. ASSUME SafetySpawnFails PROVE TypeOK'
  BY <1>2 DEF SafetySpawnFails, TypeOK, SysTypeOK, StepTypeOK, LimitTypeOK,
              HomingTypeOK, SafetyPcs, sysVars, stepVars, limitVars, workVars,
              ringVars, taskVars, axisVars
<1>3. ASSUME SafetyStops PROVE TypeOK'
  <2>1. StepTypeOK'
    <3>1. CASE IoctlEstop(sdev)
      BY <3>1, CutType DEF IoctlEstop, TypeOK, StepTypeOK
    <3>2. CASE UNCHANGED stepVars
      BY <3>2 DEF TypeOK, StepTypeOK, stepVars
    <3> QED BY <1>3, <3>1, <3>2 DEF SafetyStops
  <2>2. SysTypeOK' /\ LimitTypeOK'
    BY <1>3 DEF SafetyStops, TypeOK, SysTypeOK, LimitTypeOK, sysVars,
                limitVars, workVars, ringVars
  <2>3. spc' \in SafetyPcs /\ sdev' \in Motors
    BY <1>3, MotorFacts DEF SafetyStops, SafetyNextDevice, TypeOK,
                            HomingTypeOK, SafetyPcs
  <2>4. sreached' \in BOOLEAN
    BY <1>3 DEF SafetyStops, TypeOK, HomingTypeOK
  <2>5. HomingTypeOK'
    BY <1>3, <2>3, <2>4 DEF SafetyStops, TypeOK, HomingTypeOK, taskVars,
                            axisVars
  <2> QED BY <2>1, <2>2, <2>5 DEF TypeOK
<1> QED BY <1>1, <1>2, <1>3 DEF SafetyTask

(* What a step leaves alone keeps its type. *)

LEMMA SysSame ==
  ASSUME TypeOK, UNCHANGED sysVars
  PROVE  SysTypeOK'
BY DEF TypeOK, SysTypeOK, sysVars

LEMMA StepSame ==
  ASSUME TypeOK, UNCHANGED stepVars
  PROVE  StepTypeOK'
BY DEF TypeOK, StepTypeOK, stepVars

LEMMA LimitSame ==
  ASSUME TypeOK, UNCHANGED limitVars
  PROVE  LimitTypeOK'
BY DEF TypeOK, LimitTypeOK, limitVars, workVars, ringVars

(* What a homing task can change of HomingTypeOK, and the rest of it. *)

TaskType ==
  /\ hpc \in [Tasks -> HomingPcs]
  /\ hi \in [Tasks -> Motors]
  /\ need \in [Tasks -> Int]
  /\ hm \in [Tasks -> Motors]
  /\ captured \in [Motors -> BOOLEAN]

LEMMA TaskRest ==
  ASSUME TypeOK, UNCHANGED <<safetyVars, feedback, axisVars>>, TaskType'
  PROVE  HomingTypeOK'
BY DEF TypeOK, HomingTypeOK, TaskType, safetyVars, axisVars

LEMMA TaskTypeOK ==
  ASSUME TypeOK
  PROVE  TaskType
BY DEF TypeOK, HomingTypeOK, TaskType

(* A step of a homing task that changes pcs and indices only. *)

LEMMA LoopTask ==
  ASSUME TypeOK, NEW t \in Tasks,
         NEW again \in HomingPcs, NEW done \in HomingPcs,
         Loop(t, again, done), UNCHANGED <<need, hm, captured>>
  PROVE  TaskType'
BY TaskTypeOK, LoopType DEF TaskType

LEMMA GotoTask ==
  ASSUME TypeOK, NEW t \in Tasks, NEW pc \in HomingPcs,
         Goto(t, pc), UNCHANGED <<need, hm, captured>>
  PROVE  TaskType'
BY TaskTypeOK, GotoType DEF TaskType

LEMMA AfterWaitType == \A n \in Int : AfterWait(n) \in HomingPcs
BY DEF AfterWait, HomingPcs

LEMMA HomingTaskType ==
  ASSUME TypeOK, NEW t \in Tasks, HomingTask(t)
  PROVE  TypeOK'
<1> USE TaskTypeOK
<1>0. AfterHomes(t) \in HomingPcs
  BY AfterWaitType DEF AfterHomes, TaskType
<1>1. CASE HomingFlushes(t)
  <2>1. LimitTypeOK'
    BY <1>1, RingType DEF HomingFlushes, TypeOK
  <2>2. TaskType'
    <3>1. "drain" \in HomingPcs
      BY DEF HomingPcs
    <3> QED BY <1>1, <3>1, GotoTask DEF HomingFlushes
  <2> QED BY <1>1, <2>1, <2>2, SysSame, StepSame, TaskRest
          DEF HomingFlushes, TypeOK
<1>2. CASE HomingDrains(t)
  <2>1. LimitTypeOK'
    <3>1. CASE DrainOne
      BY <1>2, <3>1, RingType DEF HomingDrains, TypeOK
    <3>2. CASE UNCHANGED ringVars
      BY <1>2, <3>2, LimitSame DEF HomingDrains, limitVars
    <3> QED BY <1>2, <3>1, <3>2 DEF HomingDrains
  <2>2. TaskType'
    <3>1. CASE UNCHANGED <<hpc, hi, need>>
      BY <1>2, <3>1 DEF HomingDrains, TaskType
    <3>2. CASE /\ hpc' = [hpc EXCEPT ![t] = "read0"]
               /\ hi' = [hi EXCEPT ![t] = 0]
               /\ need' = [need EXCEPT ![t] = 0]
      <4>1. need' \in [Tasks -> Int]
        BY <3>2 DEF TaskType
      <4>2. hpc' \in [Tasks -> HomingPcs]
        BY <3>2 DEF TaskType, HomingPcs
      <4>3. hi' \in [Tasks -> Motors]
        BY <3>2, MotorFacts DEF TaskType
      <4> QED BY <1>2, <4>1, <4>2, <4>3 DEF HomingDrains, TaskType
    <3> QED BY <1>2, <3>1, <3>2 DEF HomingDrains
  <2> QED BY <1>2, <2>1, <2>2, SysSame, StepSame, TaskRest
          DEF HomingDrains, TypeOK
<1>3. CASE HomingReads(t)
  <2>1. hm' = hm /\ captured' = captured
    BY <1>3 DEF HomingReads
  <2>2. need' \in [Tasks -> Int]
    BY <1>3 DEF HomingReads, TaskType
  <2>3. "read0" \in HomingPcs /\ "abort1" \in HomingPcs
    BY DEF HomingPcs
  <2>4. TaskType'
    <3>1. CASE Level(<<hi[t], FALSE>>)
      <4>1. UNCHANGED hi
        BY <1>3, <3>1 DEF HomingReads, Goto
      <4>2. hpc' \in [Tasks -> HomingPcs]
        BY <1>3, <3>1 DEF HomingReads, Goto, TaskType, HomingPcs
      <4> QED BY <2>1, <2>2, <4>1, <4>2 DEF TaskType
    <3>2. CASE ~Level(<<hi[t], FALSE>>)
      <4>1. Loop(t, "read0", "abort1")
        BY <1>3, <3>2 DEF HomingReads
      <4> QED BY <2>1, <2>2, <2>3, <4>1, LoopType DEF TaskType
    <3> QED BY <3>1, <3>2
  <2> QED BY <1>3, <2>4, SysSame, StepSame, LimitSame, TaskRest
          DEF HomingReads, TypeOK
<1>4. CASE HomingNotifiesDriver(t)
  <2>1. <<hi[t], FALSE>> \in Lines
    BY DEF Lines, TaskType
  <2>2. StepTypeOK'
    BY <1>4, <2>1, NotifyLimitType DEF HomingNotifiesDriver, TypeOK
  <2>3. "reached0" \in HomingPcs
    BY DEF HomingPcs
  <2>4. TaskType'
    BY <1>4, <2>3, GotoTask DEF HomingNotifiesDriver
  <2> QED BY <1>4, <2>2, <2>4, SysSame, LimitSame, TaskRest
          DEF HomingNotifiesDriver, TypeOK
<1>5. CASE HomingFindsAtLimit(t)
  <2>1. SysTypeOK'
    BY <1>5 DEF HomingFindsAtLimit, SetLimitReached, TypeOK, SysTypeOK
  <2>2. "capture0" \in HomingPcs
    BY DEF HomingPcs
  <2>3. TaskType'
    BY <1>5, <2>2, GotoTask DEF HomingFindsAtLimit
  <2> QED BY <1>5, <2>1, <2>3, StepSame, LimitSame, TaskRest
          DEF HomingFindsAtLimit, TypeOK
<1>6. CASE HomingCapturesAtStart(t)
  <2>1. captured' \in [Motors -> BOOLEAN]
    BY <1>6 DEF HomingCapturesAtStart, CaptureZero, TypeOK, HomingTypeOK
  <2>2. "read0" \in HomingPcs /\ "abort1" \in HomingPcs
    BY DEF HomingPcs
  <2>3. hpc' \in [Tasks -> HomingPcs] /\ hi' \in [Tasks -> Motors]
    BY <1>6, <2>2, LoopType DEF HomingCapturesAtStart, TaskType
  <2>4. TaskType'
    BY <1>6, <2>1, <2>3 DEF HomingCapturesAtStart, TaskType
  <2> QED BY <1>6, <2>4, SysSame, StepSame, LimitSame, TaskRest
          DEF HomingCapturesAtStart, TypeOK
<1>7. CASE HomingChecksAbort(t)
  <2>1. TaskType'
    <3>1. PICK check \in AbortChecks :
            IF Aborted THEN Exit(t) ELSE Goto(t, check[2])
      BY <1>7 DEF HomingChecksAbort
    <3>2. "none" \in HomingPcs /\ check[2] \in HomingPcs
      BY DEF AbortChecks, HomingPcs
    <3> QED BY <1>7, <3>1, <3>2, GotoTask DEF HomingChecksAbort, Exit
  <2> QED BY <1>7, <2>1, SysSame, StepSame, LimitSame, TaskRest
          DEF HomingChecksAbort, TypeOK
<1>8. CASE HomingSkipsReached(t)
  <2>1. "abort1" \in HomingPcs /\ "allow1" \in HomingPcs
    BY DEF HomingPcs
  <2>2. TaskType'
    BY <1>0, <1>8, <2>1, GotoTask, LoopTask DEF HomingSkipsReached
  <2> QED BY <1>8, <2>2, SysSame, StepSame, LimitSame, TaskRest
          DEF HomingSkipsReached, TypeOK
<1>9. CASE HomingAsksHome(t)
  <2>1. "abort1" \in HomingPcs /\ "home1" \in HomingPcs
    BY DEF HomingPcs
  <2>2. TaskType'
    BY <1>0, <1>9, <2>1, GotoTask, LoopTask DEF HomingAsksHome
  <2> QED BY <1>9, <2>2, SysSame, StepSame, LimitSame, TaskRest
          DEF HomingAsksHome, TypeOK
<1>10. CASE HomingSendsHome(t)
  <2>1. "abort1" \in HomingPcs /\ "HOMING" \in StepModes
    BY DEF HomingPcs, StepModes
  <2>2. TaskType'
    BY <1>0, <1>10, <2>1, LoopTask DEF HomingSendsHome
  <2>3. StepTypeOK'
    BY <1>10, <2>1, ApplyMoveType
       DEF HomingSendsHome, IoctlHome, TypeOK, TaskType
  <2> QED BY <1>10, <2>2, <2>3, SysSame, LimitSame, TaskRest
          DEF HomingSendsHome, TypeOK
<1>11. CASE HomingTimesOut(t)
  <2>1. "none" \in HomingPcs
    BY DEF HomingPcs
  <2>2. TaskType'
    BY <1>11, <2>1, GotoTask DEF HomingTimesOut, Exit
  <2> QED BY <1>11, <2>2, SysSame, StepSame, LimitSame, TaskRest
          DEF HomingTimesOut, TypeOK
<1>12. CASE HomingTakesEvent(t)
  <2>1. LimitTypeOK'
    BY <1>12, RingType DEF HomingTakesEvent, TypeOK
  <2>2. hm' \in [Tasks -> Motors]
    BY <1>12, EventType DEF HomingTakesEvent, TaskType, TypeOK
  <2>3. hpc' \in [Tasks -> HomingPcs]
    BY <1>12 DEF HomingTakesEvent, TaskType, HomingPcs
  <2>4. TaskType'
    BY <1>12, <2>2, <2>3 DEF HomingTakesEvent, TaskType
  <2> QED BY <1>12, <2>1, <2>4, SysSame, StepSame, TaskRest
          DEF HomingTakesEvent, TypeOK
<1>13. CASE HomingChecksKnown(t)
  <2>1. AfterKnown(hm[t]) \in HomingPcs
    BY DEF AfterKnown, HomingPcs
  <2>2. TaskType'
    BY <1>13, <2>1, GotoTask DEF HomingChecksKnown
  <2> QED BY <1>13, <2>2, SysSame, StepSame, LimitSame, TaskRest
          DEF HomingChecksKnown, TypeOK
<1>14. CASE HomingMarksReached(t)
  <2>1. SysTypeOK'
    BY <1>14 DEF HomingMarksReached, SetLimitReached, TypeOK, SysTypeOK
  <2>2. need' \in [Tasks -> Int]
    BY <1>14 DEF HomingMarksReached, TaskType
  <2>3. "capture2" \in HomingPcs
    BY DEF HomingPcs
  <2>4. hpc' \in [Tasks -> HomingPcs] /\ hi' \in [Tasks -> Motors]
    BY <1>14, <2>3, GotoType DEF HomingMarksReached, TaskType
  <2>5. TaskType'
    BY <1>14, <2>2, <2>4 DEF HomingMarksReached, TaskType
  <2> QED BY <1>14, <2>1, <2>5, StepSame, LimitSame, TaskRest
          DEF HomingMarksReached, TypeOK
<1>15. CASE HomingCaptures(t)
  <2>1. captured' \in [Motors -> BOOLEAN]
    BY <1>15 DEF HomingCaptures, CaptureZero, TypeOK, HomingTypeOK
  <2>2. AfterWait(need[t]) \in HomingPcs
    BY AfterWaitType DEF TaskType
  <2>3. hpc' \in [Tasks -> HomingPcs] /\ hi' \in [Tasks -> Motors]
    BY <1>15, <2>2, GotoType DEF HomingCaptures, TaskType
  <2>4. TaskType'
    BY <1>15, <2>1, <2>3 DEF HomingCaptures, TaskType
  <2> QED BY <1>15, <2>4, SysSame, StepSame, LimitSame, TaskRest
          DEF HomingCaptures, TypeOK
<1>16. CASE HomingAsksLift(t)
  <2>1. {"abort3", "poll3", "lift3"} \subseteq HomingPcs
    BY DEF HomingPcs
  <2>2. TaskType'
    BY <1>16, <2>1, GotoTask, LoopTask DEF HomingAsksLift
  <2> QED BY <1>16, <2>2, SysSame, StepSame, LimitSame, TaskRest
          DEF HomingAsksLift, TypeOK
<1>17. CASE HomingChecksLift(t)
  <2>1. {"abort3", "poll3", "apply3"} \subseteq HomingPcs
    BY DEF HomingPcs
  <2>2. TaskType'
    BY <1>17, <2>1, GotoTask, LoopTask DEF HomingChecksLift
  <2> QED BY <1>17, <2>2, SysSame, StepSame, LimitSame, TaskRest
          DEF HomingChecksLift, TypeOK
<1>18. CASE HomingSendsLift(t)
  <2>1. {"abort3", "poll3"} \subseteq HomingPcs /\ "TARGETED" \in StepModes
    BY DEF HomingPcs, StepModes
  <2>2. TaskType'
    BY <1>18, <2>1, LoopTask DEF HomingSendsLift
  <2>3. StepTypeOK'
    BY <1>18, <2>1, ApplyMoveType, StepSame
       DEF HomingSendsLift, TypeOK, TaskType
  <2> QED BY <1>18, <2>2, <2>3, SysSame, LimitSame, TaskRest
          DEF HomingSendsLift, TypeOK
<1>19. CASE HomingPollsBusy(t)
  <2>1. {"busy3", "poll3", "cut3"} \subseteq HomingPcs
    BY DEF HomingPcs
  <2>2. TaskType'
    <3>1. CASE /\ hpc' = [hpc EXCEPT ![t] = "poll3"]
               /\ hi' = [hi EXCEPT ![t] = 0]
      <4>1. hpc' \in [Tasks -> HomingPcs] /\ hi' \in [Tasks -> Motors]
        BY <2>1, <3>1, MotorFacts DEF TaskType
      <4> QED BY <1>19, <4>1 DEF HomingPollsBusy, TaskType
    <3>2. CASE Loop(t, "busy3", "cut3")
      BY <1>19, <2>1, <3>2, LoopTask DEF HomingPollsBusy
    <3> QED BY <1>19, <3>1, <3>2 DEF HomingPollsBusy
  <2> QED BY <1>19, <2>2, SysSame, StepSame, LimitSame, TaskRest
          DEF HomingPollsBusy, TypeOK
<1>20. CASE HomingCutsSon(t)
  <2>1. {"cut3", "homed4"} \subseteq HomingPcs
    BY DEF HomingPcs
  <2>2. TaskType'
    BY <1>20, <2>1, LoopTask DEF HomingCutsSon
  <2>3. StepTypeOK'
    BY <1>20, StepSame DEF HomingCutsSon, IoctlSonOff, TypeOK, StepTypeOK
  <2> QED BY <1>20, <2>2, <2>3, SysSame, LimitSame, TaskRest
          DEF HomingCutsSon, TypeOK
<1>21. CASE HomingSetsHomed(t)
  <2>1. {"homed4", "notify4"} \subseteq HomingPcs
    BY DEF HomingPcs
  <2>2. TaskType'
    BY <1>21, <2>1, LoopTask DEF HomingSetsHomed
  <2>3. SysTypeOK'
    BY <1>21 DEF HomingSetsHomed, SetHomed, TypeOK, SysTypeOK
  <2> QED BY <1>21, <2>2, <2>3, StepSame, LimitSame, TaskRest
          DEF HomingSetsHomed, TypeOK
<1>22. CASE HomingNotifies(t)
  <2>1. "none" \in HomingPcs /\ "WAIT_START" \in SysStates
    BY DEF HomingPcs, SysStates
  <2>2. TaskType'
    BY <1>22, <2>1, GotoTask DEF HomingNotifies, Exit
  <2>3. SysTypeOK'
    BY <1>22, <2>1 DEF HomingNotifies, NotifyHomingComplete, TypeOK, SysTypeOK
  <2> QED BY <1>22, <2>2, <2>3, StepSame, LimitSame, TaskRest
          DEF HomingNotifies, TypeOK
<1> QED BY <1>1, <1>2, <1>3, <1>4, <1>5, <1>6, <1>7, <1>8, <1>9, <1>10, <1>11,
           <1>12, <1>13, <1>14, <1>15, <1>16, <1>17, <1>18, <1>19, <1>20,
           <1>21, <1>22
        DEF HomingTask

LEMMA TypeStep ==
  ASSUME TypeOK, [Next]_vars
  PROVE  TypeOK'
<1>1. ASSUME Next PROVE TypeOK'
  BY <1>1, AxisType, LimitWorkerType, SafetyEventType, SafetyTaskType,
     HomingTaskType DEF Next
<1>2. ASSUME UNCHANGED vars PROVE TypeOK'
  BY <1>2 DEF vars, TypeOK, SysTypeOK, StepTypeOK, LimitTypeOK, HomingTypeOK,
              sysVars, stepVars, limitVars, workVars, ringVars, safetyVars,
              taskVars, axisVars
<1> QED BY <1>1, <1>2

(* The types of all variables, for every number of motors and tasks: no     *)
(* index runs out of its array and no pc leaves the homing routine.         *)
THEOREM TypeCorrect == Spec => []TypeOK
<1>1. Init => TypeOK
  BY TypeInit
<1>2. TypeOK /\ [Next]_vars => TypeOK'
  BY TypeStep
<1> QED BY <1>1, <1>2, PTL DEF Spec

=============================================================================
