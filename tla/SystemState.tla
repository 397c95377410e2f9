---------------------------- MODULE SystemState ----------------------------
(* The operating mode and the homing progress of the machine               *)
(* (common/system_state).  Every operation of the C file takes the one     *)
(* mutex, so each is a single step here.  The module has no Next of its    *)
(* own: the operations are called by the safety, homing and motion tasks,  *)
(* and the modules that model those tasks decide when.                     *)
EXTENDS Integers

CONSTANT MOTOR_COUNT      \* 3 in the code (SYSTEM_STATE_MOTOR_COUNT)

ASSUME MotorCountAssumption == MOTOR_COUNT \in Nat \ {0}

VARIABLES
  state,                  \* g_state.state
  limit_reached,          \* g_state.limit_reached[]
  homed                   \* g_state.homed[]

sysVars == <<state, limit_reached, homed>>

Motors == 0 .. MOTOR_COUNT - 1

SysStates == {"IDLE", "HOMING", "WAIT_START", "RUNNING", "STOPPED",
              "ESTOP", "FAULT"}

(* What the caller has to do once the mutex is released. *)
SysActions == {"NONE", "SPAWN_HOMING", "HARD_STOP"}

(* START and STOP are the two levels of the one START/STOP button. *)
BtnEvents == {"START", "STOP", "EMERGENCY", "RESTART"}

SysTypeOK ==
  /\ state \in SysStates
  /\ limit_reached \in [Motors -> BOOLEAN]
  /\ homed \in [Motors -> BOOLEAN]

SysInit ==
  /\ state = "IDLE"
  /\ limit_reached = [m \in Motors |-> FALSE]
  /\ homed = [m \in Motors |-> FALSE]

----------------------------------------------------------------------------
(* Button events.  Each handler relates the state to the action the call   *)
(* returns; an event the current state does not accept changes nothing.    *)

StartableStates == {"WAIT_START", "STOPPED"}
RestartableStates == {"IDLE", "STOPPED", "ESTOP", "FAULT"}
LatchedStates == {"ESTOP", "FAULT"}

HandleStart(action) ==
  /\ state' = IF state \in StartableStates THEN "RUNNING" ELSE state
  /\ action = "NONE"
  /\ UNCHANGED <<limit_reached, homed>>

HandleStop(action) ==
  /\ \/ state = "RUNNING" /\ state' = "STOPPED" /\ action = "HARD_STOP"
     \/ state # "RUNNING" /\ UNCHANGED state /\ action = "NONE"
  /\ UNCHANGED <<limit_reached, homed>>

(* EMERGENCY goes to ESTOP and a reported fault to FAULT; both are ignored  *)
(* in a state that is already latched.                                      *)
Latch(target, action) ==
  /\ \/ state \notin LatchedStates /\ state' = target /\ action = "HARD_STOP"
     \/ state \in LatchedStates /\ UNCHANGED state /\ action = "NONE"
  /\ UNCHANGED <<limit_reached, homed>>

\* Mutant: a RESTART keeps what the last homing found.
ResetHoming_LimitsKept ==
  /\ UNCHANGED limit_reached
  /\ homed' = [m \in Motors |-> FALSE]

ResetHoming ==
  /\ limit_reached' = [m \in Motors |-> FALSE]
  /\ homed' = [m \in Motors |-> FALSE]

HandleRestart(action) ==
  \/ /\ state \in RestartableStates
     /\ ResetHoming
     /\ state' = "HOMING"
     /\ action = "SPAWN_HOMING"
  \/ /\ state \notin RestartableStates
     /\ action = "NONE"
     /\ UNCHANGED sysVars

HandleBtnEvent(btn, action) ==
  \/ btn = "START" /\ HandleStart(action)
  \/ btn = "STOP" /\ HandleStop(action)
  \/ btn = "EMERGENCY" /\ Latch("ESTOP", action)
  \/ btn = "RESTART" /\ HandleRestart(action)

----------------------------------------------------------------------------
(* Homing progress, called by the homing task. *)

SetLimitReached(m, reached) ==
  /\ limit_reached' = [limit_reached EXCEPT ![m] = reached]
  /\ UNCHANGED <<state, homed>>

SetHomed(m, done) ==
  /\ homed' = [homed EXCEPT ![m] = done]
  /\ UNCHANGED <<state, limit_reached>>

\* Mutant: the state is not looked at again.
NotifyHomingComplete_Unguarded ==
  /\ state' = "WAIT_START"
  /\ UNCHANGED <<limit_reached, homed>>

NotifyHomingComplete ==
  /\ state' = IF state = "HOMING" THEN "WAIT_START" ELSE state
  /\ UNCHANGED <<limit_reached, homed>>

============================================================================
