------------------------ MODULE MotionControl_proofs ------------------------
(* With the motion task beside it, homing keeps its invariant, because the  *)
(* motion task writes nothing that homing progress depends on; and the two  *)
(* exclude each other.                                                      *)
EXTENDS MotionControl, AxisInvariant_proofs

MotionInv == MotionTypeOK /\ HomingInv /\ OneCommander

LEMMA HomingSame ==
  ASSUME TypeOK,
         UNCHANGED <<safetyVars, taskVars, captured, feedback, axisVars>>
  PROVE  HomingTypeOK'
BY DEF TypeOK, HomingTypeOK, safetyVars, taskVars, axisVars

LEMMA MotionTaskType ==
  ASSUME MotionTypeOK, MotionTask
  PROVE  MotionTypeOK'
<1>1. ASSUME UNCHANGED vars PROVE TypeOK'
  BY <1>1, TypeStep DEF MotionTypeOK
<1>2. ASSUME MotionWaits PROVE mpc' \in MotionPcs /\ mm' \in Motors /\ mup' \in BOOLEAN
  BY <1>2, MotorFacts DEF MotionWaits, MotionPcs
<1>3. CASE \E m \in Motors : MotionTakes(m)
  BY <1>1, <1>3 DEF MotionTakes, MotionTypeOK, MotionPcs
<1>4. CASE MotionPlans
  BY <1>1, <1>2, <1>4 DEF MotionPlans, MotionTypeOK, MotionPcs
<1>5. CASE MotionCutsSon
  <2>1. StepTypeOK'
    BY <1>5 DEF MotionCutsSon, IoctlSonOff, MotionTypeOK, TypeOK, StepTypeOK
  <2>2. SysTypeOK' /\ LimitTypeOK' /\ HomingTypeOK'
    BY <1>5, SysSame, LimitSame, HomingSame DEF MotionCutsSon, MotionTypeOK, TypeOK
  <2> QED BY <1>2, <1>5, <2>1, <2>2 DEF MotionCutsSon, MotionTypeOK, TypeOK
<1>6. CASE MotionAsks
  BY <1>1, <1>2, <1>6 DEF MotionAsks, MotionTypeOK, MotionPcs
<1>7. CASE MotionChecks
  BY <1>1, <1>2, <1>7 DEF MotionChecks, MotionTypeOK, MotionPcs
<1>8. CASE MotionSends
  <2>1. StepTypeOK'
    <3>1. "TARGETED" \in StepModes
      BY DEF StepModes
    <3> QED BY <1>8, <3>1, ApplyMoveType DEF MotionSends, MotionTypeOK, TypeOK
  <2>2. SysTypeOK' /\ LimitTypeOK' /\ HomingTypeOK'
    BY <1>8, SysSame, LimitSame, HomingSame DEF MotionSends, MotionTypeOK, TypeOK
  <2> QED BY <1>2, <1>8, <2>1, <2>2 DEF MotionSends, MotionTypeOK, TypeOK
<1> QED BY <1>3, <1>4, <1>5, <1>6, <1>7, <1>8 DEF MotionTask

(* The motion task writes the step driver only, and works only while homing *)
(* does not: RUNNING says so when it begins.                                *)
LEMMA MotionTaskInv ==
  ASSUME MotionInv, MotionTask
  PROVE  HomingInv' /\ OneCommander'
<1>1. UNCHANGED <<sysVars, spc, taskVars>>
  BY DEF MotionTask, MotionTakes, MotionPlans, MotionCutsSon, MotionAsks,
         MotionChecks, MotionSends, vars, safetyVars
<1>2. HomingInv'
  BY <1>1, Untouched DEF MotionInv
<1>3. NoHomingTask' <=> NoHomingTask
  BY <1>1 DEF NoHomingTask, taskVars
<1>4. CASE \E m \in Motors : MotionTakes(m)
  <2>1. state = "RUNNING"
    BY <1>4 DEF MotionTakes
  <2>2. spc # "spawn" /\ NoHomingTask
    BY <2>1 DEF MotionInv, HomingInv, HomingUnderWay
  <2> QED BY <1>1, <1>2, <1>3, <2>2 DEF OneCommander
<1>5. CASE mpc # "wait"
  BY <1>1, <1>2, <1>3, <1>5 DEF MotionInv, OneCommander
<1> QED BY <1>4, <1>5 DEF MotionTask, MotionPlans, MotionCutsSon, MotionAsks,
                          MotionChecks, MotionSends

LEMMA SpawnFromWait ==
  ASSUME Next, spc' = "spawn"
  PROVE  spc \in {"wait", "spawn"}
<1>1. ASSUME NEW m \in Motors, Axis(m) PROVE UNCHANGED spc
  BY <1>1 DEF Axis, AxisTurns, AxisDrifts, MoveEnds, EncoderRead, safetyVars
<1>2. LimitWorker => UNCHANGED spc
  BY DEF LimitWorker, safetyVars
<1>3. ASSUME NEW b \in BtnEvents, SafetyEvent(b) PROVE spc = "wait"
  BY <1>3 DEF SafetyEvent
<1>4. ~SafetyTask
  BY DEF SafetyTask, SafetySpawns, SafetySpawnFails, SafetyStops,
         SafetyNextDevice
<1> QED BY <1>1, <1>2, <1>3, <1>4, HomingLeavesSafety DEF Next

LEMMA TasksAreKept ==
  ASSUME Next, NoHomingTask, spc # "spawn"
  PROVE  UNCHANGED hpc
<1>1. ASSUME NEW m \in Motors, Axis(m) PROVE UNCHANGED hpc
  BY <1>1 DEF Axis, AxisTurns, AxisDrifts, MoveEnds, EncoderRead, taskVars
<1>2. LimitWorker => UNCHANGED hpc
  BY DEF LimitWorker, taskVars
<1>3. ASSUME NEW b \in BtnEvents, SafetyEvent(b) PROVE UNCHANGED hpc
  BY <1>3 DEF SafetyEvent, taskVars
<1>4. SafetyTask => UNCHANGED hpc
  BY DEF SafetyTask, SafetySpawns, SafetySpawnFails, SafetyStops, taskVars
<1>5. ASSUME NEW t \in Tasks, HomingTask(t) PROVE FALSE
  BY <1>5, TaskIsThere DEF NoHomingTask
<1> QED BY <1>1, <1>2, <1>3, <1>4, <1>5 DEF Next

(* Homing begins only with the motion task at rest. *)
LEMMA OthersInvariant ==
  ASSUME ORDERLY_RESTART, MotionInv, OthersAct
  PROVE  MotionInv'
<1>1. TypeOK' /\ HomingInv'
  BY TypeStep, HomingInvStep DEF MotionInv, MotionTypeOK, OthersAct
<1>2. MotionTypeOK'
  BY <1>1 DEF MotionInv, MotionTypeOK, OthersAct, motionVars
<1>3. ASSUME mpc # "wait" PROVE spc' # "spawn" /\ NoHomingTask'
  <2>1. spc # "spawn" /\ NoHomingTask
    BY <1>3 DEF MotionInv, OneCommander
  <2>2. spc' # "spawn"
    BY <1>3, <2>1, SpawnFromWait DEF OthersAct
  <2>3. UNCHANGED hpc
    BY <1>3, <2>1, TasksAreKept DEF OthersAct
  <2> QED BY <2>1, <2>2, <2>3 DEF NoHomingTask
<1> QED BY <1>1, <1>2, <1>3 DEF MotionInv, OneCommander, OthersAct, motionVars

LEMMA MotionInvStep ==
  ASSUME ORDERLY_RESTART, MotionInv, [MotionNext]_motionAll
  PROVE  MotionInv'
<1>1. CASE OthersAct
  BY <1>1, OthersInvariant
<1>2. CASE MotionTask
  BY <1>2, MotionTaskType, MotionTaskInv DEF MotionInv
<1>3. CASE UNCHANGED motionAll
  <2>1. UNCHANGED vars
    BY <1>3 DEF motionAll
  <2>2. TypeOK' /\ HomingInv'
    BY <2>1, TypeStep, HomingInvStep DEF MotionInv, MotionTypeOK
  <2>3. (NoHomingTask' <=> NoHomingTask) /\ UNCHANGED spc
    BY <2>1 DEF NoHomingTask, vars, taskVars, safetyVars
  <2> QED BY <1>3, <2>2, <2>3
          DEF MotionInv, MotionTypeOK, OneCommander, motionAll, motionVars
<1> QED BY <1>1, <1>2, <1>3 DEF MotionNext

LEMMA MotionInvInit == MotionInit => MotionInv
BY TypeInit, HomingInvInit, MotorFacts
   DEF MotionInit, MotionInv, MotionTypeOK, OneCommander, MotionPcs

(* Types, also for machines that are restarted while they move. *)
THEOREM MotionTypes == MotionSpec => []MotionTypeOK
<1>1. MotionInit => MotionTypeOK
  BY TypeInit, MotorFacts DEF MotionInit, MotionTypeOK, MotionPcs
<1>2. ASSUME MotionTypeOK, [MotionNext]_motionAll PROVE MotionTypeOK'
  <2>1. CASE OthersAct
    BY <1>2, <2>1, TypeStep DEF MotionTypeOK, OthersAct, motionVars
  <2>2. CASE MotionTask
    BY <1>2, <2>2, MotionTaskType
  <2>3. CASE UNCHANGED motionAll
    BY <1>2, <2>3, TypeStep DEF MotionTypeOK, motionAll, motionVars
  <2> QED BY <1>2, <2>1, <2>2, <2>3 DEF MotionNext
<1> QED BY <1>1, <1>2, PTL DEF MotionSpec

(* The two together keep the homing invariant and their exclusion. *)
THEOREM MotionInvariant == ORDERLY_RESTART => (MotionSpec => []MotionInv)
<1> SUFFICES ASSUME ORDERLY_RESTART PROVE MotionSpec => []MotionInv
  OBVIOUS
<1>1. MotionInit => MotionInv
  BY MotionInvInit
<1>2. MotionInv /\ [MotionNext]_motionAll => MotionInv'
  BY MotionInvStep
<1> QED BY <1>1, <1>2, PTL DEF MotionSpec

(* Homing and motion control never command the axes in the same cycle. *)
THEOREM OneCommanderAlways ==
  ORDERLY_RESTART => (MotionSpec => []OneCommander)
<1>1. MotionInv => OneCommander
  BY DEF MotionInv
<1> QED BY <1>1, MotionInvariant, PTL

(* The machine is ready to run only with every axis homed, whatever the     *)
(* motion task sends.                                                       *)
THEOREM ReadyHomedInMotion ==
  ORDERLY_RESTART => (MotionSpec => []ReadyIsHomed)
<1>1. MotionInv => ReadyIsHomed
  BY DEF MotionInv, HomingInv
<1> QED BY <1>1, MotionInvariant, PTL

----------------------------------------------------------------------------
(* Where the axes are in homing, and what is known of the switches.         *)

(* While the motion task works no homing task is left, and it touches none  *)
(* of the limit events.                                                     *)
LEMMA MotionTaskLeaves ==
  ASSUME MotionInv, MotionTask
  PROVE  \/ UNCHANGED vars
         \/ /\ ~Starting /\ ~Starting'
            /\ \A t \in Tasks : hpc[t] = "none" /\ hpc'[t] = "none" /\ hi'[t] = hi[t]
            /\ UNCHANGED <<limitVars, limit_active, pos>>
<1>1. CASE \E m \in Motors : MotionTakes(m)
  BY <1>1 DEF MotionTakes
<1>2. CASE mpc # "wait"
  <2>1. UNCHANGED <<limitVars, spc, taskVars, pos>>
    BY DEF MotionTask, MotionTakes, MotionPlans, MotionCutsSon, MotionAsks, MotionChecks,
           MotionSends, vars, safetyVars, axisVars
  <2>2. UNCHANGED limit_active
    BY DEF MotionTask, MotionTakes, MotionPlans, MotionCutsSon, MotionAsks, MotionChecks,
           MotionSends, IoctlSonOff, ApplyMove, vars, stepVars
  <2>3. spc # "spawn" /\ \A t \in Tasks : hpc[t] = "none"
    BY <1>2 DEF MotionInv, OneCommander, NoHomingTask
  <2>4. ~Starting
    BY <2>3 DEF Starting, BeforeStep0, Step0Pcs, InStep0
  <2> QED BY <2>1, <2>2, <2>3, <2>4, StartingSame DEF taskVars
<1> QED BY <1>1, <1>2 DEF MotionTask, MotionPlans, MotionCutsSon, MotionAsks, MotionChecks,
                          MotionSends

LEMMA MotionTaskAxis ==
  ASSUME ORDERLY_RESTART, OnlyPowerMoves, RingHoldsAll, MotionInv, AxisInv, MotionTask
  PROVE  AxisInv'
<1>1. CASE UNCHANGED vars
  BY <1>1, AxisInvStep DEF MotionInv, MotionTypeOK
<1>2. CASE ~Starting' /\ \A t \in Tasks : hpc'[t] = "none"
  <2>1. \A t \in Tasks : StageIsRight(t)'
    BY <1>2 DEF StageIsRight, Step0IsRight, AwaitIsRight, LiftIsRight, Step0Pcs, InStep0,
                Step1Pcs, Steps1And2Pcs, InSteps1And2, LiftPcs
  <2> QED BY <1>2, <2>1 DEF AxisInv, StartIsStill
<1> QED BY <1>1, <1>2, MotionTaskLeaves

LEMMA MotionTaskFlags ==
  ASSUME ORDERLY_RESTART, OnlyPowerMoves, MotionInv, FlagsInv, MotionTask
  PROVE  FlagsInv'
<1>1. CASE UNCHANGED vars
  BY <1>1, FlagsInvStep DEF MotionInv, MotionTypeOK
<1>2. CASE /\ ~Starting'
           /\ \A t \in Tasks : hpc[t] = "none" /\ hpc'[t] = "none" /\ hi'[t] = hi[t]
           /\ UNCHANGED <<limitVars, limit_active, pos>>
  <2>1. StartIsStill'
    BY <1>2 DEF StartIsStill
  <2>2. \A l \in Lines : Level(l)' = Level(l)
    BY <1>2 DEF Level
  <2> QED BY <1>2, <2>1, <2>2, FlagsKept DEF limitVars
<1> QED BY <1>1, <1>2, MotionTaskLeaves

(* The events in the ring and the axes agree through all of homing, also    *)
(* with the motion task beside it.                                          *)
THEOREM MotionAxisInvariant ==
  ORDERLY_RESTART /\ OnlyPowerMoves /\ RingHoldsAll => (MotionSpec => []AxisInv)
<1> SUFFICES ASSUME ORDERLY_RESTART, OnlyPowerMoves, RingHoldsAll
             PROVE  MotionSpec => []AxisInv
  OBVIOUS
<1>1. MotionInit => AxisInv
  BY AxisInvInit DEF MotionInit
<1>2. MotionInv /\ AxisInv /\ [MotionNext]_motionAll => AxisInv'
  <2> SUFFICES ASSUME MotionInv, AxisInv, [MotionNext]_motionAll PROVE AxisInv'
    OBVIOUS
  <2>1. CASE [Next]_vars
    BY <2>1, AxisInvStep DEF MotionInv, MotionTypeOK
  <2> QED BY <2>1, MotionTaskAxis DEF MotionNext, OthersAct, motionAll
<1> QED BY <1>1, <1>2, MotionInvariant, PTL DEF MotionSpec

(* An encoder zero is taken on the lower limit only, wherever the motion    *)
(* task has left the axes.                                                  *)
THEOREM MotionZeroAtLimit ==
  ORDERLY_RESTART /\ OnlyPowerMoves /\ RingHoldsAll => (MotionSpec => []ZeroTakenAtLimit)
<1>1. MotionTypeOK /\ AxisInv => ZeroTakenAtLimit
  BY ZeroAtLimit DEF MotionTypeOK
<1> QED BY <1>1, MotionTypes, MotionAxisInvariant, PTL

(* No wakeup of the homing task is lost, whatever events motion control has *)
(* left in the ring before it.                                              *)
THEOREM MotionTokensMatch ==
  ORDERLY_RESTART /\ OnlyPowerMoves /\ RingHoldsAll => (MotionSpec => []TokensMatchRing)
<1>1. MotionTypeOK /\ AxisInv => TokensMatchRing
  BY TokensMatch DEF MotionTypeOK
<1> QED BY <1>1, MotionTypes, MotionAxisInvariant, PTL

(* A flag says that a switch is closed only if it is, in homing and motion. *)
THEOREM MotionFlagsFollow ==
  ORDERLY_RESTART /\ OnlyPowerMoves => (MotionSpec => []FlagsFollowSwitches)
<1> SUFFICES ASSUME ORDERLY_RESTART, OnlyPowerMoves
             PROVE  MotionSpec => []FlagsFollowSwitches
  OBVIOUS
<1>1. MotionInit => FlagsInv
  BY FlagsInvInit DEF MotionInit
<1>2. MotionInv /\ FlagsInv /\ [MotionNext]_motionAll => FlagsInv'
  <2> SUFFICES ASSUME MotionInv, FlagsInv, [MotionNext]_motionAll PROVE FlagsInv'
    OBVIOUS
  <2>1. CASE [Next]_vars
    BY <2>1, FlagsInvStep DEF MotionInv, MotionTypeOK
  <2> QED BY <2>1, MotionTaskFlags DEF MotionNext, OthersAct, motionAll
<1>3. MotionTypeOK /\ FlagsInv => FlagsFollowSwitches
  BY FlagsFollow DEF MotionTypeOK
<1> QED BY <1>1, <1>2, <1>3, MotionTypes, MotionInvariant, PTL DEF MotionSpec
=============================================================================
