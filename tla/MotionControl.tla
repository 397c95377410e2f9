--------------------------- MODULE MotionControl ---------------------------
(* The motion task on top of HomingCycle: each new encoder reading makes it *)
(* compare an axis with its setpoint and, in RUNNING, send the axis a MOVE.  *)
(* Setpoint and position are abstracted to the outcome of the comparison.   *)
EXTENDS HomingCycle

VARIABLES
  mpc,                    \* progress of motion_task_main(): see MotionPcs
  mm, mup                 \* motor_id and dir_up of motion_process_motor()

motionVars == <<mpc, mm, mup>>
motionAll == <<vars, motionVars>>

MotionPcs == {"wait", "plan", "sonoff", "allow", "check", "apply"}

MotionTypeOK ==
  /\ TypeOK
  /\ mpc \in MotionPcs
  /\ mm \in Motors
  /\ mup \in BOOLEAN

MotionInit == Init /\ mpc = "wait" /\ mm = 0 /\ mup = FALSE

----------------------------------------------------------------------------
(* The cycle is over: wait for the next reading. *)
MotionWaits == mpc' = "wait" /\ mm' = 0 /\ mup' = FALSE

\* Mutant: the state is not looked at before the axis is processed.
MotionTakes_AnyState(m) ==
  /\ mpc = "wait"
  /\ feedback[m]
  /\ mpc' = "plan" /\ mm' = m
  /\ UNCHANGED <<vars, mup>>

(* A reading of motor m has come in; it is used only in RUNNING. *)
MotionTakes(m) ==
  /\ mpc = "wait"
  /\ feedback[m]
  /\ state = "RUNNING"
  /\ mpc' = "plan" /\ mm' = m
  /\ UNCHANGED <<vars, mup>>

(* motion_process_motor() up to its first effect: nothing to do (no capture *)
(* device, no newer reading, no zero, no error left), an error within the    *)
(* deadband, or a move up or down.                                          *)
MotionPlans ==
  /\ mpc = "plan"
  /\ \/ MotionWaits
     \/ captured[mm] /\ mpc' = "sonoff" /\ UNCHANGED <<mm, mup>>
     \/ captured[mm] /\ mpc' = "allow" /\ mup' \in BOOLEAN /\ UNCHANGED mm
  /\ UNCHANGED vars

MotionCutsSon ==
  /\ mpc = "sonoff"
  /\ IoctlSonOff(mm)
  /\ MotionWaits
  /\ UNCHANGED <<sysVars, limitVars, safetyVars, taskVars, captured, feedback,
                 axisVars>>

MotionAsks ==
  /\ mpc = "allow"
  /\ \/ MotorAllowed(mm, mup) /\ mpc' = "check" /\ UNCHANGED <<mm, mup>>
     \/ ~MotorAllowed(mm, mup) /\ MotionWaits
  /\ UNCHANGED vars

(* STEPIOC_MOVE: the refusal, then the critical section.  Between the two,  *)
(* and before them, the task prints, and the safety task preempts it.       *)
MotionChecks ==
  /\ mpc = "check"
  /\ \/ ~MoveRefused(mm, mup) /\ mpc' = "apply" /\ UNCHANGED <<mm, mup>>
     \/ MoveRefused(mm, mup) /\ MotionWaits
  /\ UNCHANGED vars

MotionSends ==
  /\ mpc = "apply"
  /\ ApplyMove(mm, mup, "TARGETED")
  /\ MotionWaits
  /\ UNCHANGED <<sysVars, limitVars, safetyVars, taskVars, captured, feedback,
                 axisVars>>

MotionTask ==
  \/ \E m \in Motors : MotionTakes(m)
  \/ MotionPlans \/ MotionCutsSon \/ MotionAsks \/ MotionChecks \/ MotionSends

----------------------------------------------------------------------------
(* At rest the motion task waits, too. *)
OthersAct ==
  /\ Next
  /\ ORDERLY_RESTART /\ mpc # "wait" => ~(spc = "wait" /\ spc' = "spawn")
  /\ UNCHANGED motionVars

MotionNext == OthersAct \/ MotionTask

MotionSpec == MotionInit /\ [][MotionNext]_motionAll

(* What Fairness is for HomingCycle.  Nothing says that a setpoint comes.   *)
MotionFairness ==
  /\ WF_motionAll(LimitWorker /\ UNCHANGED motionVars)
  /\ WF_motionAll(SafetyTask /\ UNCHANGED motionVars)
  /\ \A m \in Motors : WF_motionAll(MoveEnds(m) /\ UNCHANGED motionVars)

MotionFairSpec == MotionSpec /\ MotionFairness

----------------------------------------------------------------------------
(* Properties. *)

(* Homing and motion control never command the axes in the same cycle: the  *)
(* state the motion task has looked at excludes that a homing task is left, *)
(* even one that an EMERGENCY has just aborted.                             *)
OneCommander == mpc # "wait" => spc # "spawn" /\ NoHomingTask

(* An axis does not push into its closed switch for ever: the worker cuts   *)
(* it, or, if the move was sent past the check, the count ends it.          *)
Pushes(l) == pulsing[l[1]] /\ son[l[1]] /\ dir_up[l[1]] = l[2] /\ Level(l)

PushEnds == \A l \in Lines : Pushes(l) ~> ~Pushes(l)

(* What system_state.h says of STOP and EMERGENCY: pulses and SON are cut.  *)
StopCutsMotion ==
  state \in {"STOPPED", "ESTOP"} /\ spc = "wait" =>
    \A m \in Motors : ~pulsing[m] /\ ~son[m]

=============================================================================
