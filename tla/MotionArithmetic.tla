-------------------------- MODULE MotionArithmetic --------------------------
(* The formulas of motor_pos.c and motion_task.c, on integers: where the    *)
(* code computes in float, the rounding to its 24 bits is left out.  Angles *)
(* are counted in motor pulses.                                             *)
EXTENDS Integers

CONSTANTS
  HALF_TURN,              \* 2^16: encoder counts in half a turn of the motor
  MOTOR_POS_PULSE,        \* pulses in a turn
  MARGIN_PULSES,          \* from the lower limit to the angle 0
  ANGLE_MAX_PULSES,       \* MOTION_ANGLE_MAX_DEG
  PWM_MIN, PWM_MAX,       \* the widths that stand for 0 and for ANGLE_MAX
  FREQ_MIN, FREQ_MAX,     \* MOTION_FREQ_MIN_HZ, MOTION_FREQ_MAX_HZ
  DEADBAND, FULL_SPEED,   \* MOTION_DEADBAND_PULSES, MOTION_PULSES_FULL_SPEED
  SLOPE                   \* 10000, under the square of the error

ASSUME ArithmeticAssumption ==
  /\ HALF_TURN \in Nat \ {0} /\ HALF_TURN % 2 = 0
  /\ MOTOR_POS_PULSE \in Nat \ {0}
  /\ MARGIN_PULSES \in Nat
  /\ ANGLE_MAX_PULSES \in Nat
  /\ PWM_MIN \in Nat /\ PWM_MAX \in Nat /\ PWM_MIN < PWM_MAX
  /\ FREQ_MIN \in Nat \ {0} /\ FREQ_MAX \in Nat /\ FREQ_MIN < FREQ_MAX
  /\ DEADBAND \in Nat /\ FULL_SPEED \in Nat /\ DEADBAND < FULL_SPEED
  /\ SLOPE \in Nat \ {0}
  /\ (FULL_SPEED - DEADBAND) * (FULL_SPEED - DEADBAND)
       <= (FREQ_MAX - FREQ_MIN) * SLOPE

RESOLUTION == 2 * HALF_TURN     \* MOTOR_POS_ENCODER_RESOLUTION

Registers == [encode_value : Int, turn : Int, rev : Int]

NoRegisters == [encode_value |-> 0, turn |-> 0, rev |-> 0]

(* What a drive holds in its registers 31, 32 and 36 with its encoder at x: *)
(* the low half of the position in a turn as a signed number, the half      *)
(* turns and the full turns.                                                *)
RegistersAt(x) ==
  [encode_value |-> IF 2 * (x % HALF_TURN) < HALF_TURN
                    THEN x % HALF_TURN
                    ELSE (x % HALF_TURN) - HALF_TURN,
   turn |-> x \div HALF_TURN,
   rev |-> x \div RESOLUTION]

----------------------------------------------------------------------------
\* Mutant: the sign of the low half is not looked at.
Decode_Unsigned(encode_value, turn) == encode_value + (turn % 2) * HALF_TURN

(* motor_pos_decode(): the position within the turn. *)
Decode(encode_value, turn) ==
  encode_value + ((turn % 2) + IF encode_value < 0 THEN 1 ELSE 0) * HALF_TURN

(* motor_pos_current_pulse(); the cast rounds towards zero. *)
CurrentPulse(regs) ==
  LET counts == Decode(regs.encode_value, regs.turn) + regs.rev * RESOLUTION
      scaled == counts * MOTOR_POS_PULSE
  IN IF scaled >= 0 THEN -(scaled \div RESOLUTION) ELSE (-scaled) \div RESOLUTION

(* The zero of motor_pos_capture_zero(). *)
ZeroFrom(regs) == CurrentPulse(regs) + MARGIN_PULSES

(* motion_pwm_to_deg() and the first line of motor_pos_control(). *)
TargetOf(pulse_width_us) ==
  IF pulse_width_us <= PWM_MIN THEN 0
  ELSE IF pulse_width_us >= PWM_MAX THEN ANGLE_MAX_PULSES
  ELSE ((pulse_width_us - PWM_MIN) * ANGLE_MAX_PULSES) \div (PWM_MAX - PWM_MIN)

(* motor_pos_control(): pulses still to go, positive upwards. *)
PulsesTo(target, regs, zero_pulse) == target - (CurrentPulse(regs) - zero_pulse)

(* The frequency motion_process_motor() finds for an error, of one axis or  *)
(* the largest of all.                                                      *)
FreqOf(err) ==
  IF err >= FULL_SPEED THEN FREQ_MAX
  ELSE IF err <= DEADBAND THEN FREQ_MIN
  ELSE ((err - DEADBAND) * (err - DEADBAND)) \div SLOPE + FREQ_MIN

(* move.freq_hz of an axis with the error own among the errors of all. *)
MoveFreq(own, errors) ==
  LET max_err == CHOOSE e \in errors : \A f \in errors : f <= e
      shared_freq == FreqOf(max_err)
  IN IF shared_freq < FreqOf(own) THEN shared_freq ELSE FreqOf(own)

=============================================================================
