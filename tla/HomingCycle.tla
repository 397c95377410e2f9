---------------------------- MODULE HomingCycle ----------------------------
(* The homing of the machine: the safety task that handles the buttons, the *)
(* homing tasks it creates, the limit switch worker, the pulse driver and   *)
(* the axes.  Every thread has a pc and takes one step per access to state  *)
(* that another thread or an interrupt shares, in any interleaving: task    *)
(* priorities only remove interleavings.                                    *)
(*                                                                          *)
(* Motion control is not here (the motion task sends nothing unless the     *)
(* state is RUNNING): MotionControl models it.                              *)
EXTENDS LimitEvents

CONSTANTS
  Tasks,              \* how many homing tasks can exist at once (a bound)
  ORDERLY_RESTART,    \* RESTART is pressed only with the machine at rest
  FAULTS,             \* open() of a step device and task_create() can fail
  FEEDBACK,           \* the axes whose encoder is read before homing begins
  REACH_UP,           \* axes can get as far as their upper switch
  MAX_DRIFTS          \* a bound: how often an axis without SON is moved by
                      \* hand or by its load; 0 is never

ASSUME HomingAssumption ==
  /\ {ORDERLY_RESTART, FAULTS, REACH_UP} \subseteq BOOLEAN
  /\ FEEDBACK \subseteq Motors
  /\ MAX_DRIFTS \in Nat

VARIABLES
  spc, sdev, sreached,        \* the safety task
  hpc, hi, need, hm,          \* the homing tasks: pc, i, need_event_count,
                              \* motor_id
  captured,                   \* g_zero_captured[] of motor_pos.c
  feedback,                   \* g_state[].valid of motor_pos.c
  pos,                        \* where each axis is
  drifts                      \* how often one has drifted

safetyVars == <<spc, sdev, sreached>>
taskVars == <<hpc, hi, need, hm>>
axisVars == <<pos, drifts>>
vars == <<sysVars, stepVars, limitVars, safetyVars, taskVars, captured,
          feedback, axisVars>>

SafetyPcs == {"wait", "spawn", "stop"}

(* A homing task is "none" before its creation and after its end. *)
HomingPcs ==
  {"none", "flush", "drain",                                \* start
   "read0", "reread0", "notify0", "reached0", "capture0",   \* step 0
   "abort1", "reached1", "allow1", "home1",                 \* step 1
   "wait2", "known2", "set2", "capture2",                   \* step 2
   "abort3", "allow3", "lift3", "apply3",                   \* step 3
   "poll3", "busy3", "cut3",
   "homed4", "notify4"}                                     \* step 4

Positions == {"down", "mid"} \cup IF REACH_UP THEN {"up"} ELSE {}

HomingTypeOK ==
  /\ spc \in SafetyPcs
  /\ sdev \in Motors
  /\ sreached \in BOOLEAN
  /\ hpc \in [Tasks -> HomingPcs]
  /\ hi \in [Tasks -> Motors]
  /\ need \in [Tasks -> Int]
  /\ hm \in [Tasks -> Motors]
  /\ captured \in [Motors -> BOOLEAN]
  /\ feedback \in [Motors -> BOOLEAN]
  /\ pos \in [Motors -> Positions]
  /\ drifts \in 0 .. MAX_DRIFTS

TypeOK == SysTypeOK /\ StepTypeOK /\ LimitTypeOK /\ HomingTypeOK

Init ==
  /\ SysInit /\ StepInit /\ LimitInit
  /\ spc = "wait" /\ sdev = 0 /\ sreached = FALSE
  /\ hpc = [t \in Tasks |-> "none"]
  /\ hi = [t \in Tasks |-> 0]
  /\ need = [t \in Tasks |-> 0]
  /\ hm = [t \in Tasks |-> 0]
  /\ captured = [m \in Motors |-> FALSE]
  /\ feedback = [m \in Motors |-> m \in FEEDBACK]
  /\ pos \in [Motors -> Positions]
  /\ drifts = 0

----------------------------------------------------------------------------
(* The axes and the encoders: not code, the surroundings of it. *)

Level(line) == pos[line[1]] = IF line[2] THEN "up" ELSE "down"
LevelIn(p, up) == p = IF up THEN "up" ELSE "down"

(* Axis m comes to p: the lines whose level changes see an edge. *)
AxisComesTo(m, p) ==
  /\ p \in Positions
  /\ pos' = [pos EXCEPT ![m] = p]
  /\ LimitIsr({l \in Lines :
                 l[1] = m /\ LevelIn(pos[m], l[2]) # LevelIn(p, l[2])})

AxisTurns(m) ==
  /\ pulsing[m] /\ son[m]
  /\ \/ dir_up[m] /\ pos[m] = "down" /\ AxisComesTo(m, "mid")
     \/ dir_up[m] /\ pos[m] = "mid" /\ AxisComesTo(m, "up")
     \/ ~dir_up[m] /\ pos[m] = "up" /\ AxisComesTo(m, "mid")
     \/ ~dir_up[m] /\ pos[m] = "mid" /\ AxisComesTo(m, "down")
  /\ UNCHANGED drifts
  /\ UNCHANGED <<sysVars, stepVars, workVars, g_limit, ringVars, safetyVars,
                 taskVars, captured, feedback>>

AxisDrifts(m) ==
  /\ ~son[m]
  /\ drifts < MAX_DRIFTS
  /\ drifts' = drifts + 1
  /\ \/ pos[m] # "mid" /\ AxisComesTo(m, "mid")
     \/ pos[m] = "mid" /\ AxisComesTo(m, "down")
     \/ pos[m] = "mid" /\ AxisComesTo(m, "up")
  /\ UNCHANGED <<sysVars, stepVars, workVars, g_limit, ringVars, safetyVars,
                 taskVars, captured, feedback>>

MoveEnds(m) ==
  /\ SlaveIsr(m)
  /\ UNCHANGED <<sysVars, limitVars, safetyVars, taskVars, captured, feedback,
                 axisVars>>

(* motor_pos_update(): the first reading of an encoder makes it valid. *)
EncoderRead(m) ==
  /\ ~feedback[m]
  /\ feedback' = [feedback EXCEPT ![m] = TRUE]
  /\ UNCHANGED <<sysVars, stepVars, limitVars, safetyVars, taskVars, captured,
                 axisVars>>

LimitWorker ==
  /\ \/ \E l \in Lines : WorkerReads(l, Level(l))
     \/ WorkerContinues
  /\ UNCHANGED <<sysVars, safetyVars, taskVars, captured, feedback, axisVars>>

----------------------------------------------------------------------------
(* The safety task.  The order of button events is free here: how the       *)
(* buttons become events is not part of this module.                        *)

NoHomingTask == \A t \in Tasks : hpc[t] = "none"

(* No homing task is left, no axis moves and no limit line is settling. *)
AtRest ==
  /\ NoHomingTask
  /\ \A m \in Motors : ~(pulsing[m] /\ son[m])
  /\ settling = {} /\ worker = "idle"

MayPress(btn) ==
  btn = "RESTART" =>
    /\ \E t \in Tasks : hpc[t] = "none"
    /\ ORDERLY_RESTART => AtRest

(* The event is handled and the action it returns is about to be dispatched. *)
SafetyEvent(btn) ==
  /\ spc = "wait"
  /\ MayPress(btn)
  /\ \/ HandleBtnEvent(btn, "NONE") /\ UNCHANGED safetyVars
     \/ /\ HandleBtnEvent(btn, "SPAWN_HOMING")
        /\ spc' = "spawn"
        /\ UNCHANGED <<sdev, sreached>>
     \/ /\ HandleBtnEvent(btn, "HARD_STOP")
        /\ spc' = "stop" /\ sdev' = 0 /\ sreached' = FALSE
  /\ UNCHANGED <<stepVars, limitVars, taskVars, captured, feedback, axisVars>>

(* safety_spawn_homing_task(): a failure is only logged. *)
SafetySpawns(t) ==
  /\ spc = "spawn"
  /\ hpc[t] = "none"
  /\ hpc' = [hpc EXCEPT ![t] = "flush"]
  /\ spc' = "wait"
  /\ UNCHANGED <<sysVars, stepVars, limitVars, sdev, sreached, hi, need, hm,
                 captured, feedback, axisVars>>

SafetySpawnFails ==
  /\ FAULTS
  /\ spc = "spawn"
  /\ spc' = "wait"
  /\ UNCHANGED <<sysVars, stepVars, limitVars, sdev, sreached, taskVars,
                 captured, feedback, axisVars>>

LastMotor == MOTOR_COUNT - 1

SafetyNextDevice ==
  /\ spc' = IF sdev = LastMotor THEN "wait" ELSE "stop"
  /\ sdev' = IF sdev = LastMotor THEN 0 ELSE sdev + 1

(* safety_hard_stop_all(): a device that does not open is passed over.  At  *)
(* least one of them opens: this is assumed of the fault, not of the code.  *)
SafetyStops ==
  /\ spc = "stop"
  /\ \/ IoctlEstop(sdev) /\ sreached' = TRUE
     \/ /\ FAULTS
        /\ sdev = LastMotor => sreached
        /\ UNCHANGED <<stepVars, sreached>>
  /\ SafetyNextDevice
  /\ UNCHANGED <<sysVars, limitVars, taskVars, captured, feedback, axisVars>>

SafetyTask ==
  \/ \E t \in Tasks : SafetySpawns(t)
  \/ SafetySpawnFails
  \/ SafetyStops

----------------------------------------------------------------------------
(* A homing task t.  Loops run i over the motors; Loop(t, again, done) ends  *)
(* one round: on to the next motor, or out of the loop at pc `done'.         *)

Goto(t, pc) == hpc' = [hpc EXCEPT ![t] = pc] /\ UNCHANGED hi

\* Mutant: the loop makes one round too many.
Loop_TooFar(t, again, done) ==
  IF hi[t] = MOTOR_COUNT
  THEN /\ hpc' = [hpc EXCEPT ![t] = done]
       /\ hi' = [hi EXCEPT ![t] = 0]
  ELSE /\ hpc' = [hpc EXCEPT ![t] = again]
       /\ hi' = [hi EXCEPT ![t] = @ + 1]

Loop(t, again, done) ==
  IF hi[t] = LastMotor
  THEN /\ hpc' = [hpc EXCEPT ![t] = done]
       /\ hi' = [hi EXCEPT ![t] = 0]
  ELSE /\ hpc' = [hpc EXCEPT ![t] = again]
       /\ hi' = [hi EXCEPT ![t] = @ + 1]

Aborted == state # "HOMING"
Exit(t) == Goto(t, "none")

(* Step 2 loops while events are needed. *)
AfterWait(n) == IF n > 0 THEN "wait2" ELSE "abort3"

HomingFlushes(t) ==
  /\ hpc[t] = "flush"
  /\ FlushRing
  /\ Goto(t, "drain")
  /\ UNCHANGED <<sysVars, stepVars, settling, workVars, g_limit, safetyVars,
                 need, hm, captured, feedback, axisVars>>

HomingDrains(t) ==
  /\ hpc[t] = "drain"
  /\ \/ /\ DrainOne
        /\ UNCHANGED <<hpc, hi, need>>
     \/ /\ lsem = 0
        /\ hpc' = [hpc EXCEPT ![t] = "read0"]
        /\ hi' = [hi EXCEPT ![t] = 0]
        /\ need' = [need EXCEPT ![t] = 0]
        /\ UNCHANGED ringVars
  /\ UNCHANGED <<sysVars, stepVars, settling, workVars, g_limit, safetyVars, hm,
                 captured, feedback, axisVars>>

(* Step 0: motorlimit_read_hw_debounced() of the lower switch reads the pin *)
(* twice, and once only if it is not active the first time.                 *)
HomingReads(t) ==
  /\ hpc[t] \in {"read0", "reread0"}
  /\ \/ /\ Level(<<hi[t], FALSE>>)
        /\ Goto(t, IF hpc[t] = "read0" THEN "reread0" ELSE "notify0")
        /\ UNCHANGED need
     \/ /\ ~Level(<<hi[t], FALSE>>)
        /\ need' = [need EXCEPT ![t] = @ + 1]
        /\ Loop(t, "read0", "abort1")
  /\ UNCHANGED <<sysVars, stepVars, limitVars, safetyVars, hm, captured,
                 feedback, axisVars>>

HomingNotifiesDriver(t) ==
  /\ hpc[t] = "notify0"
  /\ NotifyLimit(<<hi[t], FALSE>>, TRUE)
  /\ Goto(t, "reached0")
  /\ UNCHANGED <<sysVars, limitVars, safetyVars, need, hm, captured, feedback,
                 axisVars>>

HomingFindsAtLimit(t) ==
  /\ hpc[t] = "reached0"
  /\ SetLimitReached(hi[t], TRUE)
  /\ Goto(t, "capture0")
  /\ UNCHANGED <<stepVars, limitVars, safetyVars, need, hm, captured, feedback,
                 axisVars>>

(* motor_pos_capture_zero() fails without feedback, which is only logged. *)
CaptureZero(m) == captured' = [captured EXCEPT ![m] = @ \/ feedback[m]]

\* Mutant: an axis already at its limit keeps whatever zero it had.
HomingCapturesAtStart_Not(t) ==
  /\ hpc[t] = "capture0"
  /\ Loop(t, "read0", "abort1")
  /\ UNCHANGED <<sysVars, stepVars, limitVars, safetyVars, need, hm, captured,
                 feedback, axisVars>>

HomingCapturesAtStart(t) ==
  /\ hpc[t] = "capture0"
  /\ CaptureZero(hi[t])
  /\ Loop(t, "read0", "abort1")
  /\ UNCHANGED <<sysVars, stepVars, limitVars, safetyVars, need, hm, feedback,
                 axisVars>>

(* homing_is_aborted() in the loops of steps 1 and 3: the pc of a check and *)
(* the one after it.                                                        *)
AbortChecks ==
  {<<"abort1", "reached1">>, <<"abort3", "allow3">>, <<"poll3", "busy3">>}

HomingChecksAbort(t) ==
  /\ \E check \in AbortChecks :
       /\ hpc[t] = check[1]
       /\ IF Aborted THEN Exit(t) ELSE Goto(t, check[2])
  /\ UNCHANGED <<sysVars, stepVars, limitVars, safetyVars, need, hm, captured,
                 feedback, axisVars>>

(* Where the loop of step 1 goes after its last motor. *)
AfterHomes(t) == AfterWait(need[t])

HomingSkipsReached(t) ==
  /\ hpc[t] = "reached1"
  /\ IF limit_reached[hi[t]]
     THEN Loop(t, "abort1", AfterHomes(t))
     ELSE Goto(t, "allow1")
  /\ UNCHANGED <<sysVars, stepVars, limitVars, safetyVars, need, hm, captured,
                 feedback, axisVars>>

(* safety_is_motor_allowed(): the state, and the settled level of the       *)
(* switch in the direction of the move.  The two reads are one step.        *)
MotorAllowed(m, up) ==
  /\ state \in {"RUNNING", "HOMING"}
  /\ ~g_limit[<<m, up>>]

(* send_home() and send_lift(): the device opens and the move is allowed,   *)
(* or the axis is passed over; the caller does not look at the result.      *)
HomingAsksHome(t) ==
  /\ hpc[t] = "allow1"
  /\ \/ MotorAllowed(hi[t], FALSE) /\ Goto(t, "home1")
     \/ ~MotorAllowed(hi[t], FALSE) /\ Loop(t, "abort1", AfterHomes(t))
     \/ FAULTS /\ Loop(t, "abort1", AfterHomes(t))
  /\ UNCHANGED <<sysVars, stepVars, limitVars, safetyVars, need, hm, captured,
                 feedback, axisVars>>

HomingSendsHome(t) ==
  /\ hpc[t] = "home1"
  /\ IoctlHome(hi[t], FALSE)
  /\ Loop(t, "abort1", AfterHomes(t))
  /\ UNCHANGED <<sysVars, limitVars, safetyVars, need, hm, captured, feedback,
                 axisVars>>

\* Mutant: a timeout just waits again.
HomingTimesOut_NoCheck(t) == hpc[t] = "wait2" /\ lsem = 0 /\ UNCHANGED vars

(* Step 2.  A timeout that finds the state still HOMING waits again, so     *)
(* only the one that finds it changed is a step.                            *)
HomingTimesOut(t) ==
  /\ hpc[t] = "wait2"
  /\ lsem = 0
  /\ Aborted
  /\ Exit(t)
  /\ UNCHANGED <<sysVars, stepVars, limitVars, safetyVars, need, hm, captured,
                 feedback, axisVars>>

(* Events of an upper switch are ignored; the level is not in the event, so *)
(* the release of a switch is taken like its closing.                       *)
HomingTakesEvent(t) ==
  /\ hpc[t] = "wait2"
  /\ TakeEvent
  /\ IF EventAtTail[2]
     THEN UNCHANGED <<hpc, hm>>
     ELSE /\ hm' = [hm EXCEPT ![t] = EventAtTail[1]]
          /\ hpc' = [hpc EXCEPT ![t] = "known2"]
  /\ UNCHANGED <<sysVars, stepVars, settling, workVars, g_limit, safetyVars, hi,
                 need, captured, feedback, axisVars>>

\* Mutant: an event of an axis already at its limit is counted again.
AfterKnown_Again(m) == "set2"

AfterKnown(m) == IF limit_reached[m] THEN "wait2" ELSE "set2"

HomingChecksKnown(t) ==
  /\ hpc[t] = "known2"
  /\ Goto(t, AfterKnown(hm[t]))
  /\ UNCHANGED <<sysVars, stepVars, limitVars, safetyVars, need, hm, captured,
                 feedback, axisVars>>

HomingMarksReached(t) ==
  /\ hpc[t] = "set2"
  /\ SetLimitReached(hm[t], TRUE)
  /\ need' = [need EXCEPT ![t] = @ - 1]
  /\ Goto(t, "capture2")
  /\ UNCHANGED <<stepVars, limitVars, safetyVars, hm, captured, feedback,
                 axisVars>>

HomingCaptures(t) ==
  /\ hpc[t] = "capture2"
  /\ CaptureZero(hm[t])
  /\ Goto(t, AfterWait(need[t]))
  /\ UNCHANGED <<sysVars, stepVars, limitVars, safetyVars, need, hm, feedback,
                 axisVars>>

(* Step 3. *)
HomingAsksLift(t) ==
  /\ hpc[t] = "allow3"
  /\ \/ MotorAllowed(hi[t], TRUE) /\ Goto(t, "lift3")
     \/ ~MotorAllowed(hi[t], TRUE) /\ Loop(t, "abort3", "poll3")
     \/ FAULTS /\ Loop(t, "abort3", "poll3")
  /\ UNCHANGED <<sysVars, stepVars, limitVars, safetyVars, need, hm, captured,
                 feedback, axisVars>>

(* step_apply_move() of a MOVE looks at the limit flag of the driver before  *)
(* its critical section.                                                    *)
HomingChecksLift(t) ==
  /\ hpc[t] = "lift3"
  /\ IF MoveRefused(hi[t], TRUE)
     THEN Loop(t, "abort3", "poll3")
     ELSE Goto(t, "apply3")
  /\ UNCHANGED <<sysVars, stepVars, limitVars, safetyVars, need, hm, captured,
                 feedback, axisVars>>

HomingSendsLift(t) ==
  /\ hpc[t] = "apply3"
  /\ ApplyMove(hi[t], TRUE, "TARGETED")
  /\ Loop(t, "abort3", "poll3")
  /\ UNCHANGED <<sysVars, limitVars, safetyVars, need, hm, captured, feedback,
                 axisVars>>

\* Mutant: each axis is polled once, and a busy one not waited for.
HomingPollsBusy_Once(t) ==
  /\ hpc[t] = "busy3"
  /\ Loop(t, "busy3", "cut3")
  /\ UNCHANGED <<sysVars, stepVars, limitVars, safetyVars, need, hm, captured,
                 feedback, axisVars>>

(* wait_all_lift_done(): a busy axis starts the round again; an axis whose  *)
(* device does not open counts as done.                                     *)
HomingPollsBusy(t) ==
  /\ hpc[t] = "busy3"
  /\ \/ /\ busy[hi[t]]
        /\ hpc' = [hpc EXCEPT ![t] = "poll3"]
        /\ hi' = [hi EXCEPT ![t] = 0]
     \/ ~busy[hi[t]] /\ Loop(t, "busy3", "cut3")
     \/ FAULTS /\ Loop(t, "busy3", "cut3")
  /\ UNCHANGED <<sysVars, stepVars, limitVars, safetyVars, need, hm, captured,
                 feedback, axisVars>>

HomingCutsSon(t) ==
  /\ hpc[t] = "cut3"
  /\ \/ IoctlSonOff(hi[t])
     \/ FAULTS /\ UNCHANGED stepVars
  /\ Loop(t, "cut3", "homed4")
  /\ UNCHANGED <<sysVars, limitVars, safetyVars, need, hm, captured, feedback,
                 axisVars>>

(* Step 4. *)
HomingSetsHomed(t) ==
  /\ hpc[t] = "homed4"
  /\ SetHomed(hi[t], TRUE)
  /\ Loop(t, "homed4", "notify4")
  /\ UNCHANGED <<stepVars, limitVars, safetyVars, need, hm, captured, feedback,
                 axisVars>>

HomingNotifies(t) ==
  /\ hpc[t] = "notify4"
  /\ NotifyHomingComplete
  /\ Exit(t)
  /\ UNCHANGED <<stepVars, limitVars, safetyVars, need, hm, captured, feedback,
                 axisVars>>

HomingTask(t) ==
  \/ HomingFlushes(t) \/ HomingDrains(t)
  \/ HomingReads(t) \/ HomingNotifiesDriver(t) \/ HomingFindsAtLimit(t)
  \/ HomingCapturesAtStart(t)
  \/ HomingChecksAbort(t) \/ HomingSkipsReached(t) \/ HomingAsksHome(t)
  \/ HomingSendsHome(t)
  \/ HomingTimesOut(t) \/ HomingTakesEvent(t) \/ HomingChecksKnown(t)
  \/ HomingMarksReached(t) \/ HomingCaptures(t)
  \/ HomingAsksLift(t) \/ HomingChecksLift(t) \/ HomingSendsLift(t)
  \/ HomingPollsBusy(t) \/ HomingCutsSon(t)
  \/ HomingSetsHomed(t) \/ HomingNotifies(t)

----------------------------------------------------------------------------
Axis(m) == AxisTurns(m) \/ AxisDrifts(m) \/ MoveEnds(m) \/ EncoderRead(m)

Next ==
  \/ \E m \in Motors : Axis(m)
  \/ LimitWorker
  \/ \E b \in BtnEvents : SafetyEvent(b)
  \/ SafetyTask
  \/ \E t \in Tasks : HomingTask(t)

Spec == Init /\ [][Next]_vars

(* The tasks and the worker are not starved: the threads above them block   *)
(* for their own events and the hard stop is finite.  An axis that is       *)
(* driven turns, and a move of known length ends.  Nobody has to press a    *)
(* button.                                                                  *)
Fairness ==
  /\ WF_vars(SafetyTask)
  /\ WF_vars(LimitWorker)
  /\ \A t \in Tasks : WF_vars(HomingTask(t))
  /\ \A m \in Motors : WF_vars(AxisTurns(m)) /\ WF_vars(MoveEnds(m))

FairSpec == Spec /\ Fairness

----------------------------------------------------------------------------
(* Properties. *)

ReadyStates == {"WAIT_START", "RUNNING", "STOPPED"}

(* The machine is ready to run only if in this very cycle every axis was    *)
(* found at its lower limit and marked homed: the count of needed events    *)
(* in homing_task_main() comes out right whatever events arrive, and no      *)
(* abort lets a half-homed machine through.                                 *)
ReadyIsHomed ==
  state \in ReadyStates => \A m \in Motors : limit_reached[m] /\ homed[m]

(* The state diagram with its promise: OperatingModes, where "referenced"   *)
(* is that every axis has touched its limit and is homed.                   *)
Modes == INSTANCE OperatingModes WITH
  mode <- state,
  referenced <- \A m \in Motors : limit_reached[m] /\ homed[m]

ImplementsModes == Modes!ModesSpec

(* When homing reports completion every axis stands still without power:    *)
(* wait_all_lift_done() and cut_all_son() saw all of them.                  *)
ReadyIsQuiet ==
  state \in ReadyStates => \A m \in Motors : ~pulsing[m] /\ ~busy[m] /\ ~son[m]

(* When homing reports completion every axis has an encoder zero. *)
ReadyHasZero == state \in ReadyStates => \A m \in Motors : captured[m]

(* The encoder zero of an axis is taken while it stands on its lower limit, *)
(* so the event or the reading that led there told the truth.               *)
ZeroTakenAtLimit ==
  \A t \in Tasks :
    /\ hpc[t] = "capture0" => pos[hi[t]] = "down"
    /\ hpc[t] = "capture2" => pos[hm[t]] = "down"

(* A homing task that passed its abort check just before an EMERGENCY can   *)
(* still send the command it was about to send, but only that one: in ESTOP *)
(* with the hard stop over, at most one axis moves, even if only one of the *)
(* devices would open.                                                      *)
LateCommandIsSingle ==
  state = "ESTOP" /\ spc = "wait" =>
    \A m, n \in Motors : busy[m] /\ busy[n] => m = n

AwaitingPcs ==
  {"read0", "reread0", "notify0", "reached0", "capture0", "abort1", "reached1",
   "allow1", "home1", "wait2", "known2", "set2", "capture2"}

(* While a homing task still awaits events, every event in the ring has its *)
(* token and every token its event, but for the one the worker is between   *)
(* pushing and posting: no wakeup is lost and none finds an empty ring.     *)
TokensMatchRing ==
  (\E t \in Tasks : hpc[t] \in AwaitingPcs) =>
    lsem + (IF worker = "post" THEN 1 ELSE 0) = RingLength

Settled(line) ==
  /\ line \notin settling
  /\ workLine = line => worker \in {"idle", "push", "post"}

(* Where a line has settled, the driver's flag and g_limit[] are set only   *)
(* on a closed switch; and from step 1 of homing on, the driver knows every *)
(* closed lower switch, also of an axis that was on it at power-on, of      *)
(* which no edge ever told.                                                 *)
FlagsFollowSwitches ==
  \A l \in Lines : Settled(l) =>
    /\ limit_active[l] \/ g_limit[l] => Level(l)
    /\ Level(l) /\ ~l[2] /\ (\E t \in Tasks : hpc[t] \in {"abort1", "wait2"})
         => limit_active[l]

(* Pulses belong to a move, which its slave interrupt or a switch ends (what *)
(* the head of stm32_steppulse.c says).  Only the limit worker in the middle *)
(* of its cut sees something else.  It holds as long as homing commands the  *)
(* axes; the motion task can preempt the cut with a MOVE.                    *)
PulsesAreMoves ==
  \A m \in Motors :
    pulsing[m] => \/ busy[m] /\ mode[m] # "IDLE"
                  \/ worker \in CutStages /\ workLine[1] = m

(* Homing does not hang: it completes, or an EMERGENCY ends it. *)
HomingEnds == state = "HOMING" ~> state # "HOMING"

(* A homing task that has lost its state ends, wherever it was. *)
AbortedTaskEnds ==
  \A t \in Tasks :
    (hpc[t] # "none" /\ state # "HOMING") ~> (hpc[t] = "none")

(* What safety_task.c says of safety_spawn_homing_task(): button events do  *)
(* not create two overlapping homing tasks.                                 *)
AtMostOneHomingTask ==
  \A t, u \in Tasks : hpc[t] # "none" /\ hpc[u] # "none" => t = u

============================================================================
