--------------------------- MODULE OperatingModes ---------------------------
(* What the operator is promised: the state diagram at the head of           *)
(* system_state.h, and what makes it safe.  `referenced' says that every     *)
(* axis has been homed since the last RESTART; the machine runs only then.   *)
(* How homing is done, and by whom, is left to the implementation.           *)
VARIABLES mode, referenced

Restart ==
  /\ mode \in {"IDLE", "STOPPED", "ESTOP", "FAULT"}
  /\ mode' = "HOMING"
  /\ referenced' = FALSE

(* The last axis is homed.  An EMERGENCY may have come just before. *)
Reference ==
  /\ mode \in {"HOMING", "ESTOP", "FAULT"}
  /\ ~referenced
  /\ referenced' = TRUE
  /\ UNCHANGED mode

HomingComplete ==
  /\ mode = "HOMING"
  /\ referenced
  /\ mode' = "WAIT_START"
  /\ UNCHANGED referenced

Start ==
  /\ mode \in {"WAIT_START", "STOPPED"}
  /\ referenced
  /\ mode' = "RUNNING"
  /\ UNCHANGED referenced

Stop ==
  /\ mode = "RUNNING"
  /\ mode' = "STOPPED"
  /\ UNCHANGED referenced

Latched ==
  /\ mode \notin {"ESTOP", "FAULT"}
  /\ mode' \in {"ESTOP", "FAULT"}
  /\ UNCHANGED referenced

ModesInit == mode = "IDLE" /\ referenced = FALSE

ModesNext ==
  Restart \/ Reference \/ HomingComplete \/ Start \/ Stop \/ Latched

ModesSpec == ModesInit /\ [][ModesNext]_<<mode, referenced>>
=============================================================================
