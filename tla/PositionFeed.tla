---------------------------- MODULE PositionFeed ----------------------------
(* A reading on its way: from a drive over Modbus into motor_pos.c, to the  *)
(* homing task that takes the zero of an axis from it, and to the motion    *)
(* task that computes an error from it.  Time is counted in ticks, so that  *)
(* the delays and the ages of homing_task.c mean something.                 *)
EXTENDS ModbusPolling

CONSTANTS
  HOMED,                  \* the axes that are homed; the others stand still
  Places,                 \* where an axis can be
  SILENT_HOMING,          \* a drive may fall silent while homing goes on
  OVERLOAD,               \* the console may hold up the motion task again
                          \* before it has caught up with its readings
  LAST_EVENT,             \* a bound: no axis stops after this tick
  HOMING_ZERO_CAPTURE_DELAY, HOMING_ZERO_FRESH_MAX_AGE,
  HOMING_ZERO_FRESH_RETRY, HOMING_ZERO_FRESH_RETRY_COUNT

ASSUME FeedAssumption ==
  /\ HOMED \subseteq Motors
  /\ Places \subseteq Nat
  /\ {SILENT_HOMING, OVERLOAD} \subseteq BOOLEAN
  /\ LAST_EVENT \in Nat
  /\ {HOMING_ZERO_CAPTURE_DELAY, HOMING_ZERO_FRESH_MAX_AGE,
      HOMING_ZERO_FRESH_RETRY, HOMING_ZERO_FRESH_RETRY_COUNT} \subseteq Nat \ {0}

VARIABLES
  stopped,                \* the axes that stand on their limit: not code
  hpc, hm, wake, retry,   \* step 2 of the homing task; the end of its sleep
  read,                   \* the reading motor_pos_capture_zero() works with
  zeroed,                 \* the axes homing is done with
  running,                \* system_state_get() is SYS_STATE_RUNNING
  mpc, mm,                \* the motion task
  g_last_pos_tick, error,
  behind,                 \* it has been held up and has not caught up yet
  due                     \* history: axes with a reading stored in RUNNING
                          \* that motion has not worked on since

homingVars == <<hpc, hm, wake, retry, read, zeroed, running>>
motionVars == <<mpc, mm, g_last_pos_tick, error, behind>>
vars == <<modbusVars, stopped, homingVars, motionVars, due>>

HomingPcs == {"event", "sleep", "fresh", "read", "zero", "flag"}
MotionPcs == {"wait", "pop", "state", "tick", "pulses", "print"}

FeedTypeOK ==
  /\ PosTypeOK /\ ModbusTypeOK
  /\ stopped \subseteq Motors
  /\ hpc \in HomingPcs /\ hm \in Motors /\ wake \in Nat /\ retry \in Nat
  /\ read \in Registers
  /\ zeroed \subseteq Motors
  /\ running \in BOOLEAN
  /\ mpc \in MotionPcs /\ mm \in Motors
  /\ g_last_pos_tick \in [Motors -> Nat]
  /\ error \in [Motors -> Int]
  /\ behind \in BOOLEAN
  /\ due \subseteq Motors

Init ==
  /\ PosInit /\ ModbusInit
  /\ where \in [Motors -> Places]
  /\ stopped = {}
  /\ hpc = "event" /\ hm = 0 /\ wake = 0 /\ retry = 0 /\ read = NoRegisters
  /\ zeroed = {} /\ running = FALSE
  /\ mpc = "wait" /\ mm = 0
  /\ g_last_pos_tick = [m \in Motors |-> 0]
  /\ error = [m \in Motors |-> 0]
  /\ behind = FALSE
  /\ due = {}

----------------------------------------------------------------------------
(* Surroundings: axes that move and stop, drives, time. *)

AxisMoves(m) ==
  /\ m \in HOMED \ stopped
  /\ \E x \in Places : x # where[m] /\ where' = [where EXCEPT ![m] = x]
  /\ UNCHANGED <<posVars, pollVars, stopped, homingVars, motionVars, due>>

AxisStops(m) ==
  /\ m \in HOMED \ stopped
  /\ now <= LAST_EVENT
  /\ stopped' = stopped \union {m}
  /\ UNCHANGED <<modbusVars, homingVars, motionVars, due>>

DriveFallsSilent ==
  /\ running \/ SILENT_HOMING
  /\ now < MAX_TICK
  /\ FallsSilent
  /\ UNCHANGED <<stopped, homingVars, motionVars, due>>

(* The request thread runs when the motion task, which outranks it, waits   *)
(* for an update or for the console.                                        *)
MotionBlocked == (mpc = "wait" /\ g_data_sem = 0) \/ mpc = "print"

Asleep == hpc = "sleep" /\ now < wake

Tick ==
  /\ \/ Asleep
     \/ hpc = "event" /\ (now < MAX_TICK \/ rpc = "silent")
  /\ MotionBlocked /\ BusInTime
  /\ now' = now + 1
  /\ UNCHANGED <<g_state, zeroVars, g_motor_update_queue, g_data_sem, pollVars, where,
                 stopped, homingVars, motionVars, due>>

----------------------------------------------------------------------------
(* The request thread. *)
ModbusActs ==
  /\ MotionBlocked
  /\ Modbus
  /\ due' = IF running /\ g_state' # g_state THEN due \union {ri} ELSE due
  /\ UNCHANGED <<stopped, homingVars, motionVars>>

----------------------------------------------------------------------------
(* The homing task, from the limit event of an axis to its zero. *)

HomingSleeps(ticks) == hpc' = "sleep" /\ wake' = now + ticks

\* Mutant: no wait between the event and the look at the reading's age.
HomingTakesEvent_NoDelay(m) ==
  /\ hpc = "event"
  /\ m \in stopped \ zeroed
  /\ hm' = m /\ retry' = 0
  /\ HomingSleeps(0)
  /\ UNCHANGED <<modbusVars, stopped, read, zeroed, running, motionVars, due>>

HomingTakesEvent(m) ==
  /\ hpc = "event"
  /\ m \in stopped \ zeroed
  /\ hm' = m /\ retry' = 0
  /\ HomingSleeps(HOMING_ZERO_CAPTURE_DELAY)
  /\ UNCHANGED <<modbusVars, stopped, read, zeroed, running, motionVars, due>>

HomingWakes ==
  /\ hpc = "sleep" /\ now >= wake
  /\ hpc' = "fresh" /\ wake' = 0
  /\ UNCHANGED <<modbusVars, stopped, hm, retry, read, zeroed, running,
                 motionVars, due>>

(* wait_motor_pos_fresh_for_zero(): after the last retry the zero is taken  *)
(* all the same.                                                            *)
HomingChecksAge ==
  /\ hpc = "fresh"
  /\ IF IsFresh(hm, HOMING_ZERO_FRESH_MAX_AGE)
        \/ retry + 1 >= HOMING_ZERO_FRESH_RETRY_COUNT
     THEN hpc' = "read" /\ UNCHANGED <<wake, retry>>
     ELSE HomingSleeps(HOMING_ZERO_FRESH_RETRY) /\ retry' = retry + 1
  /\ UNCHANGED <<modbusVars, stopped, hm, read, zeroed, running, motionVars, due>>

(* The axis is done with; the last one ends homing. *)
AxisDone ==
  /\ hpc' = "event"
  /\ zeroed' = zeroed \union {hm}
  /\ running' = (zeroed' = HOMED)
  /\ hm' = 0 /\ retry' = 0 /\ read' = NoRegisters

\* Mutant: homing waits for a valid reading.
HomingReadsPosition_Waits ==
  /\ hpc = "read" /\ g_state[hm].valid
  /\ read' = g_state[hm].regs /\ hpc' = "zero"
  /\ UNCHANGED <<modbusVars, stopped, hm, wake, retry, zeroed, running, motionVars, due>>

HomingReadsPosition ==
  /\ hpc = "read"
  /\ IF g_state[hm].valid
     THEN /\ read' = g_state[hm].regs /\ hpc' = "zero"
          /\ UNCHANGED <<hm, retry, zeroed, running>>
     ELSE AxisDone
  /\ UNCHANGED <<modbusVars, stopped, wake, motionVars, due>>

HomingWritesZero ==
  /\ hpc = "zero"
  /\ WriteZero(hm, read)
  /\ hpc' = "flag"
  /\ UNCHANGED <<pollVars, where, stopped, hm, wake, retry, read, zeroed,
                 running, motionVars, due>>

HomingSetsCaptured ==
  /\ hpc = "flag"
  /\ SetCaptured(hm)
  /\ AxisDone
  /\ UNCHANGED <<pollVars, where, stopped, wake, motionVars, due>>

Homing ==
  \/ \E m \in Motors : HomingTakesEvent(m)
  \/ HomingWakes \/ HomingChecksAge \/ HomingReadsPosition
  \/ HomingWritesZero \/ HomingSetsCaptured

----------------------------------------------------------------------------
(* The motion task: motion_task_main() and motion_process_motor() up to the *)
(* error.                                                                   *)

MotionTakesToken ==
  /\ mpc = "wait"
  /\ TakeToken
  /\ mpc' = "pop"
  /\ UNCHANGED <<pollVars, where, stopped, homingVars, mm,
                 g_last_pos_tick, error, behind, due>>

MotionPops ==
  /\ mpc = "pop"
  /\ PopUpdate
  /\ mpc' = "state" /\ mm' = Head(g_motor_update_queue)
  /\ UNCHANGED <<pollVars, where, stopped, homingVars,
                 g_last_pos_tick, error, behind, due>>

(* -EAGAIN: a token without an update. *)
MotionFindsNone ==
  /\ mpc = "pop"
  /\ RingEmpty
  /\ mpc' = "wait"
  /\ UNCHANGED <<modbusVars, stopped, homingVars, mm,
                 g_last_pos_tick, error, behind, due>>

MotionWaits == mpc' = "wait" /\ mm' = 0

MotionChecksState ==
  /\ mpc = "state"
  /\ IF running THEN mpc' = "tick" /\ UNCHANGED mm ELSE MotionWaits
  /\ UNCHANGED <<modbusVars, stopped, homingVars, g_last_pos_tick, error, behind, due>>

MotionReadsTick ==
  /\ mpc = "tick"
  /\ LET tick == g_state[mm].last_update_tick
     IN IF tick = g_last_pos_tick[mm]
        THEN MotionWaits /\ UNCHANGED g_last_pos_tick
        ELSE /\ mpc' = "pulses"
             /\ g_last_pos_tick' = [g_last_pos_tick EXCEPT ![mm] = tick]
             /\ UNCHANGED mm
  /\ UNCHANGED <<modbusVars, stopped, homingVars, error, behind, due>>

(* motor_pos_get_pulses() for an axis that is to stand at angle 0.  The     *)
(* result is printed, which may take as long as several readings.           *)
MotionGetsPulses ==
  /\ mpc = "pulses"
  /\ due' = due \ {mm}
  /\ IF g_state[mm].valid /\ g_zero_captured[mm]
     THEN /\ error' = [error EXCEPT ![mm] =
                         PulsesTo(TargetOf(PWM_MIN), g_state[mm].regs,
                                  g_zero_pulse[mm])]
          /\ \/ MotionWaits /\ UNCHANGED behind
             \/ /\ OVERLOAD \/ ~behind
                /\ mpc' = "print" /\ behind' = TRUE /\ UNCHANGED mm
     ELSE MotionWaits /\ UNCHANGED <<error, behind>>
  /\ UNCHANGED <<modbusVars, stopped, homingVars, g_last_pos_tick>>

MotionPrinted ==
  /\ mpc = "print"
  /\ MotionWaits
  /\ UNCHANGED <<modbusVars, stopped, homingVars, g_last_pos_tick, error, behind,
                 due>>

(* The wait finds no token, and times out in the end: motion has caught up. *)
MotionIdles ==
  /\ mpc = "wait" /\ g_data_sem = 0
  /\ behind' = FALSE
  /\ UNCHANGED <<modbusVars, stopped, homingVars, mpc, mm, g_last_pos_tick,
                 error, due>>

Motion ==
  \/ MotionTakesToken \/ MotionPops \/ MotionFindsNone \/ MotionChecksState
  \/ MotionReadsTick \/ MotionGetsPulses \/ MotionPrinted \/ MotionIdles

----------------------------------------------------------------------------
Next ==
  \/ ModbusActs \/ DriveFallsSilent \/ Homing \/ Motion \/ Tick
  \/ \E m \in Motors : AxisMoves(m) \/ AxisStops(m)

Spec == Init /\ [][Next]_vars

(* The tasks are scheduled, and time does not stand still: a request and its *)
(* answer take part of a tick, so that it is not always in their way.        *)
FairSpec ==
  Spec /\ WF_vars(Homing) /\ WF_vars(Motion) /\ WF_vars(ModbusActs) /\ SF_vars(Tick)

----------------------------------------------------------------------------
(* Properties. *)

(* No update waits in the ring without a token that will fetch it: the ring *)
(* may be full and tokens may come without updates, but not the reverse.    *)
TokensCoverRing ==
  Len(g_motor_update_queue) <= g_data_sem + (IF mpc = "pop" THEN 1 ELSE 0)
                          + (IF rpc = "post" THEN 1 ELSE 0)

(* When the motion task has nothing left to fetch, it has worked on every   *)
(* reading stored while the machine runs, or on one of the same tick: a     *)
(* full ring drops an update, but not the last one of an axis.              *)
CaughtUp ==
  mpc = "wait" /\ g_data_sem = 0 /\ rpc # "post" =>
    \A m \in due : g_last_pos_tick[m] = g_state[m].last_update_tick

(* Homing takes the zero of an axis from a reading made after the axis came *)
(* to stand on its limit (homing_task.c:475 and 576), and the error of an   *)
(* axis that still stands there is the margin.                              *)
PulsesAt(m) == -((where[m] * MOTOR_POS_PULSE) \div RESOLUTION)

ZeroIsCurrent ==
  \A m \in HOMED :
    /\ g_zero_captured[m] => g_zero_pulse[m] = PulsesAt(m) + MARGIN_PULSES
    /\ error[m] \in {0, MARGIN_PULSES}

(* Waiting for a fresh reading ends, also when Modbus has failed.           *)
ZeroingEnds == hpc # "event" ~> hpc = "event"

=============================================================================
