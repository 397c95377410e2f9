----------------------------- MODULE StepDriver -----------------------------
(* The pulse driver behind /dev/step0..2 (stm32_steppulse.c), at the level  *)
(* of one axis' channel: whether TIM3 puts pulses out, the direction pin,   *)
(* the SON (servo on) pin, the mode and the limit flags.  The count of       *)
(* pulses is abstracted: a TARGETED move ends at some update interrupt of    *)
(* its slave timer.  Pulses and SON of an axis are what makes it move.       *)
EXTENDS SystemState

VARIABLES
  mode,                   \* ch->mode
  busy,                   \* ch->busy
  dir_up,                 \* ch->dir_up, and the DIR pin it is written to
  pulsing,                \* the channel's CCxE bit in TIM3's CCER
  son,                    \* ch->son_enabled, and the SON pin
  limit_active            \* ch->limit_up_active, ch->limit_down_active

stepVars == <<mode, busy, dir_up, pulsing, son, limit_active>>
chanVars == <<mode, busy, dir_up, pulsing, son>>

(* A limit switch line: the motor and whether it is the upper one. *)
Lines == Motors \X BOOLEAN

StepModes == {"IDLE", "HOMING", "TARGETED"}

StepTypeOK ==
  /\ mode \in [Motors -> StepModes]
  /\ busy \in [Motors -> BOOLEAN]
  /\ dir_up \in [Motors -> BOOLEAN]
  /\ pulsing \in [Motors -> BOOLEAN]
  /\ son \in [Motors -> BOOLEAN]
  /\ limit_active \in [Lines -> BOOLEAN]

StepInit ==
  /\ mode = [m \in Motors |-> "IDLE"]
  /\ busy = [m \in Motors |-> FALSE]
  /\ dir_up = [m \in Motors |-> FALSE]
  /\ pulsing = [m \in Motors |-> FALSE]
  /\ son = [m \in Motors |-> FALSE]
  /\ limit_active = [l \in Lines |-> FALSE]

----------------------------------------------------------------------------
(* The channels ms stop: pulses off, not busy, mode IDLE, SON off. *)
CutChannels(ms) ==
  /\ mode' = [m \in Motors |-> IF m \in ms THEN "IDLE" ELSE mode[m]]
  /\ busy' = [m \in Motors |-> m \notin ms /\ busy[m]]
  /\ pulsing' = [m \in Motors |-> m \notin ms /\ pulsing[m]]
  /\ son' = [m \in Motors |-> m \notin ms /\ son[m]]
  /\ UNCHANGED dir_up

(* The refusal test of step_apply_move(), made before its critical section *)
(* and only for MOVE: HOME is never refused.                               *)
MoveRefused(m, up) == limit_active[<<m, up>>]

(* The critical section of step_apply_move(): SON on, direction, counters, *)
(* pulses on.  A change of direction while busy first stops the pulses,    *)
(* which no other step can see.                                            *)
ApplyMove(m, up, newMode) ==
  /\ son' = [son EXCEPT ![m] = TRUE]
  /\ dir_up' = [dir_up EXCEPT ![m] = up]
  /\ mode' = [mode EXCEPT ![m] = newMode]
  /\ busy' = [busy EXCEPT ![m] = TRUE]
  /\ pulsing' = [pulsing EXCEPT ![m] = TRUE]
  /\ UNCHANGED limit_active

IoctlHome(m, up) == ApplyMove(m, up, "HOMING")

\* Mutant: the ioctl stops only the channel of its own device.
IoctlEstop_OwnChannel(m) == CutChannels({m}) /\ UNCHANGED limit_active

(* STEPIOC_ESTOP on any one device stops every channel. *)
IoctlEstop(m) == CutChannels(Motors) /\ UNCHANGED limit_active

(* STEPIOC_SON_OFF drops SON and nothing else: a move goes on pulsing. *)
IoctlSonOff(m) ==
  /\ son' = [son EXCEPT ![m] = FALSE]
  /\ UNCHANGED <<mode, busy, dir_up, pulsing, limit_active>>

\* Mutant: the end of the move is not reported.
SlaveIsr_StaysBusy(m) ==
  /\ pulsing[m] /\ mode[m] = "TARGETED"
  /\ pulsing' = [pulsing EXCEPT ![m] = FALSE]
  /\ mode' = [mode EXCEPT ![m] = "IDLE"]
  /\ UNCHANGED <<busy, dir_up, son, limit_active>>

(* The update interrupt of the slave timer that ends a TARGETED move.  In   *)
(* HOMING mode the interrupt only acknowledges itself, and in the full      *)
(* cycles of the 16-bit counter it only reloads: neither changes the state. *)
SlaveIsr(m) ==
  /\ pulsing[m] /\ mode[m] = "TARGETED"
  /\ pulsing' = [pulsing EXCEPT ![m] = FALSE]
  /\ busy' = [busy EXCEPT ![m] = FALSE]
  /\ mode' = [mode EXCEPT ![m] = "IDLE"]
  /\ UNCHANGED <<dir_up, son, limit_active>>

----------------------------------------------------------------------------
(* stm32_steppulse_notify_limit(): record the switch, and cut the channel   *)
(* if it is moving towards the switch that has just become active.          *)

\* Mutant: the channel is cut only in a TARGETED move.
MovingTowards_Targeted(line) ==
  mode[line[1]] = "TARGETED" /\ dir_up[line[1]] = line[2]

MovingTowards(line) == busy[line[1]] /\ dir_up[line[1]] = line[2]

\* Mutant: the flag is set by a closing switch and never cleared.
SetLimitFlag_Sticks(line, active) ==
  limit_active' = [limit_active EXCEPT ![line] = @ \/ active]

SetLimitFlag(line, active) ==
  limit_active' = [limit_active EXCEPT ![line] = active]

(* The whole of it in one step. *)
NotifyLimit(line, active) ==
  /\ SetLimitFlag(line, active)
  /\ IF active /\ MovingTowards(line)
     THEN CutChannels({line[1]})
     ELSE UNCHANGED chanVars

(* Its cut one access at a time, for a caller that can be preempted: pulses *)
(* off, not busy, mode IDLE, SON off.                                       *)
CutStages == {"pulses", "busy", "mode", "son"}

\* Mutant: the channel stays on.
CutStage_PulsesGoOn(m, stage) ==
  /\ busy' = IF stage = "busy" THEN [busy EXCEPT ![m] = FALSE] ELSE busy
  /\ mode' = IF stage = "mode" THEN [mode EXCEPT ![m] = "IDLE"] ELSE mode
  /\ son' = IF stage = "son" THEN [son EXCEPT ![m] = FALSE] ELSE son
  /\ UNCHANGED <<pulsing, dir_up, limit_active>>

CutStage(m, stage) ==
  /\ pulsing' = IF stage = "pulses" THEN [pulsing EXCEPT ![m] = FALSE] ELSE pulsing
  /\ busy' = IF stage = "busy" THEN [busy EXCEPT ![m] = FALSE] ELSE busy
  /\ mode' = IF stage = "mode" THEN [mode EXCEPT ![m] = "IDLE"] ELSE mode
  /\ son' = IF stage = "son" THEN [son EXCEPT ![m] = FALSE] ELSE son
  /\ UNCHANGED <<dir_up, limit_active>>

============================================================================
