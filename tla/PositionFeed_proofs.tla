------------------------ MODULE PositionFeed_proofs ------------------------
(* The way of a reading, for any number of axes, any ring and semaphore and  *)
(* any delays: what the formulas compute, types, that no update waits       *)
(* without a token, that motion works on every reading, and that a zero is   *)
(* taken from a reading made at the limit.                                  *)
EXTENDS FeedInvariant, FiniteSetTheorems, SequenceTheorems, TLAPS

----------------------------------------------------------------------------
(* What the formulas of motor_pos.c and motion_task.c compute, for every    *)
(* resolution, setpoint and error.                                          *)

(* Quotient and remainder, as the solver needs them. *)
LEMMA DivMod ==
  ASSUME NEW x \in Int, NEW n \in Nat \ {0}
  PROVE  /\ x \div n \in Int
         /\ x % n \in 0 .. n - 1
         /\ x = n * (x \div n) + (x % n)
OBVIOUS

LEMMA DivIs ==
  ASSUME NEW n \in Nat \ {0}, NEW q \in Int, NEW r \in 0 .. n - 1
  PROVE  /\ (n * q + r) \div n = q
         /\ (n * q + r) % n = r
OBVIOUS

LEMMA DivBound ==
  ASSUME NEW a \in Nat, NEW n \in Nat \ {0}, NEW b \in Nat, a <= n * b
  PROVE  a \div n \in 0 .. b
<1>1. a \div n \in Int /\ a % n \in 0 .. n - 1 /\ a = n * (a \div n) + (a % n)
  BY DivMod
<1> DEFINE q == a \div n
<1> HIDE DEF q
<1>2. q \in Int /\ n * q <= n * b /\ n * q > -n
  BY <1>1 DEF q
<1>3. q >= 0
  <2>1. CASE q <= -1
    <3>1. n * q <= n * (-1)
      BY <1>2, <2>1
    <3> QED BY <1>2, <3>1
  <2> QED BY <1>2, <2>1
<1>4. q <= b
  <2>1. CASE q >= b + 1
    <3>1. n * q >= n * (b + 1)
      BY <1>2, <2>1
    <3>2. n * (b + 1) = n * b + n
      OBVIOUS
    <3> QED BY <1>2, <3>1, <3>2
  <2> QED BY <1>2, <2>1
<1> QED BY <1>2, <1>3, <1>4 DEF q

LEMMA DivMonotone ==
  ASSUME NEW a \in Nat, NEW b \in Nat, a <= b, NEW n \in Nat \ {0}
  PROVE  a \div n <= b \div n
OBVIOUS

(* What motor_pos_decode() makes of the registers of a drive is the position *)
(* within the turn, and with the full turns the position itself, for every   *)
(* position above and below zero.                                           *)
THEOREM DecodeIsPosition ==
  ASSUME NEW x \in Int
  PROVE  LET regs == RegistersAt(x)
         IN /\ Decode(regs.encode_value, regs.turn) = x % RESOLUTION
            /\ Decode(regs.encode_value, regs.turn) + regs.rev * RESOLUTION = x
<1> DEFINE half == x \div HALF_TURN
           low == x % HALF_TURN
           enc == IF 2 * low < HALF_TURN THEN low ELSE low - HALF_TURN
<1> HALF_TURN \in Nat \ {0} /\ RESOLUTION \in Nat \ {0} /\ RESOLUTION = 2 * HALF_TURN
  BY ArithmeticAssumption DEF RESOLUTION
<1>1. half \in Int /\ low \in 0 .. HALF_TURN - 1 /\ x = HALF_TURN * half + low
  BY DivMod
<1>2. enc \in Int /\ (enc < 0 <=> ~(2 * low < HALF_TURN))
  BY <1>1
<1>3. half % 2 \in 0 .. 1 /\ half \div 2 \in Int /\ half = 2 * (half \div 2) + (half % 2)
  BY <1>1, DivMod
<1> DEFINE odd == half % 2
           turns == half \div 2
<1> HIDE DEF half, low, odd, turns
<1>4. Decode(enc, half) = odd * HALF_TURN + low
  <2>1. CASE 2 * low < HALF_TURN
    BY <1>1, <1>2, <1>3, <2>1 DEF Decode, odd
  <2>2. CASE ~(2 * low < HALF_TURN)
    BY <1>1, <1>2, <1>3, <2>2 DEF Decode, odd
  <2> QED BY <2>1, <2>2
<1>5. /\ x = RESOLUTION * turns + (odd * HALF_TURN + low)
      /\ odd * HALF_TURN + low \in 0 .. RESOLUTION - 1
  BY <1>1, <1>3 DEF odd, turns
<1>6. x % RESOLUTION = odd * HALF_TURN + low /\ x \div RESOLUTION = turns
  BY <1>3, <1>5, DivIs DEF turns
<1>7. RegistersAt(x) = [encode_value |-> enc, turn |-> half, rev |-> turns]
  BY <1>6 DEF RegistersAt, half, low
<1> HIDE DEF enc
<1>8. /\ RegistersAt(x).encode_value = enc
      /\ RegistersAt(x).turn = half
      /\ RegistersAt(x).rev = turns
  BY <1>7
<1>9. turns \in Int /\ RESOLUTION * turns = turns * RESOLUTION
  BY <1>3 DEF turns
<1> QED BY <1>4, <1>5, <1>6, <1>8, <1>9

(* The frequency for an error lies within the limits of the driver. *)
THEOREM FreqWithinLimits ==
  ASSUME NEW err \in Nat
  PROVE  FreqOf(err) \in FREQ_MIN .. FREQ_MAX
<1> DEFINE d == err - DEADBAND
           full == FULL_SPEED - DEADBAND
<1> USE ArithmeticAssumption
<1>1. CASE err >= FULL_SPEED \/ err <= DEADBAND
  BY <1>1 DEF FreqOf
<1>2. CASE err < FULL_SPEED /\ err > DEADBAND
  <2>1. d \in Nat /\ full \in Nat /\ d <= full
    BY <1>2
  <2> HIDE DEF d, full
  <2>2. d * d \in Nat /\ d * d <= full * full
    BY <2>1
  <2>3. full * full <= (FREQ_MAX - FREQ_MIN) * SLOPE
    BY DEF full
  <2>4. full * full \in Nat /\ d * d <= SLOPE * (FREQ_MAX - FREQ_MIN)
    BY <2>1, <2>2, <2>3
  <2>5. (d * d) \div SLOPE \in 0 .. FREQ_MAX - FREQ_MIN
    BY <2>2, <2>4, DivBound
  <2>6. FreqOf(err) = ((d * d) \div SLOPE) + FREQ_MIN
    BY <1>2 DEF FreqOf, d
  <2> QED BY <2>5, <2>6
<1> QED BY <1>1, <1>2

(* A larger error never gives a lower frequency. *)
LEMMA FreqMonotone ==
  ASSUME NEW a \in Nat, NEW b \in Nat, a <= b
  PROVE  FreqOf(a) <= FreqOf(b)
<1> DEFINE d == a - DEADBAND
           e == b - DEADBAND
<1> USE ArithmeticAssumption
<1>1. FreqOf(a) \in FREQ_MIN .. FREQ_MAX /\ FreqOf(b) \in FREQ_MIN .. FREQ_MAX
  BY FreqWithinLimits
<1>2. CASE b >= FULL_SPEED \/ a <= DEADBAND
  BY <1>1, <1>2 DEF FreqOf
<1>3. CASE b < FULL_SPEED /\ a > DEADBAND
  <2>1. d \in Nat /\ e \in Nat /\ d <= e
    BY <1>3
  <2>2. FreqOf(a) = ((d * d) \div SLOPE) + FREQ_MIN /\ FreqOf(b) = ((e * e) \div SLOPE) + FREQ_MIN
    BY <1>3 DEF FreqOf
  <2> HIDE DEF d, e
  <2>3. d * d \in Nat /\ e * e \in Nat /\ d * d <= e * e
    BY <2>1
  <2>4. (d * d) \div SLOPE <= (e * e) \div SLOPE
    BY <2>3, DivMonotone
  <2>5. (d * d) \div SLOPE \in Int /\ (e * e) \div SLOPE \in Int
    BY <2>3, DivMod
  <2> QED BY <2>2, <2>4, <2>5
<1> QED BY <1>2, <1>3

(* The frequency shared by the axes is never the lower one: motion_task.c   *)
(* takes the smaller of it and the axis' own, and that is always its own.   *)
THEOREM OwnFrequencyWins ==
  ASSUME NEW errors \in SUBSET Nat, NEW own \in errors,
         \E e \in errors : \A f \in errors : f <= e
  PROVE  MoveFreq(own, errors) = FreqOf(own)
<1> DEFINE max_err == CHOOSE e \in errors : \A f \in errors : f <= e
<1>1. max_err \in errors /\ own <= max_err
  OBVIOUS
<1> HIDE DEF max_err
<1>2. FreqOf(own) <= FreqOf(max_err)
  BY <1>1, FreqMonotone
<1>3. FreqOf(own) \in Int /\ FreqOf(max_err) \in Int
  BY <1>1, FreqWithinLimits, ArithmeticAssumption
<1>4. ~(FreqOf(max_err) < FreqOf(own))
  BY <1>2, <1>3
<1> QED BY <1>4 DEF MoveFreq, max_err

(* Every setpoint, also one out of range or stale, is an angle of the axis. *)
THEOREM TargetWithinAngle ==
  ASSUME NEW w \in Nat
  PROVE  TargetOf(w) \in 0 .. ANGLE_MAX_PULSES
<1> DEFINE a == w - PWM_MIN
           range == PWM_MAX - PWM_MIN
<1> USE ArithmeticAssumption
<1>1. CASE w <= PWM_MIN \/ w >= PWM_MAX
  BY <1>1 DEF TargetOf
<1>2. CASE w > PWM_MIN /\ w < PWM_MAX
  <2>1. a \in Nat /\ range \in Nat \ {0} /\ a <= range
    BY <1>2
  <2>2. TargetOf(w) = (a * ANGLE_MAX_PULSES) \div range
    BY <1>2 DEF TargetOf
  <2> HIDE DEF a, range
  <2>3. a * ANGLE_MAX_PULSES \in Nat /\ a * ANGLE_MAX_PULSES <= range * ANGLE_MAX_PULSES
    BY <2>1
  <2>4. (a * ANGLE_MAX_PULSES) \div range \in 0 .. ANGLE_MAX_PULSES
    BY <2>1, <2>3, DivBound
  <2> QED BY <2>2, <2>4
<1> QED BY <1>1, <1>2

----------------------------------------------------------------------------
(* The way of a reading. *)

LEMMA Constants ==
  /\ MOTOR_POS_COUNT \in Nat \ {0} /\ MOTOR_UPDATE_QUEUE_SIZE \in Nat \ {0, 1}
  /\ SEM_VALUE_MAX \in Nat /\ SEM_VALUE_MAX >= MOTOR_UPDATE_QUEUE_SIZE - 1
  /\ HOMED \subseteq Motors /\ Places \subseteq Nat
  /\ {HOMING_ZERO_CAPTURE_DELAY, HOMING_ZERO_FRESH_RETRY} \subseteq Nat
  /\ Motors \subseteq Nat /\ 0 \in Motors
BY MotorPosAssumption, FeedAssumption DEF Motors

----------------------------------------------------------------------------
(* What the formulas return. *)

LEMMA DivInt ==
  ASSUME NEW x \in Int, NEW n \in Nat \ {0}
  PROVE  x \div n \in Int
OBVIOUS

LEMMA ModInt ==
  ASSUME NEW x \in Int, NEW n \in Nat \ {0}
  PROVE  x % n \in 0 .. n - 1
OBVIOUS

LEMMA ProductInt ==
  ASSUME NEW x \in Int, NEW y \in Int
  PROVE  x * y \in Int
OBVIOUS

LEMMA ResolutionType == HALF_TURN \in Nat \ {0} /\ RESOLUTION \in Nat \ {0}
BY ArithmeticAssumption DEF RESOLUTION

LEMMA NoRegistersType == NoRegisters \in Registers
BY DEF NoRegisters, Registers

LEMMA RegistersAtType ==
  ASSUME NEW x \in Nat
  PROVE  RegistersAt(x) \in Registers
<1>1. x % HALF_TURN \in Int /\ x \div HALF_TURN \in Int /\ x \div RESOLUTION \in Int
  BY ResolutionType, DivInt, ModInt
<1> QED BY <1>1, ResolutionType DEF RegistersAt, Registers

LEMMA CurrentPulseType ==
  ASSUME NEW regs \in Registers
  PROVE  CurrentPulse(regs) \in Int
<1> DEFINE counts == Decode(regs.encode_value, regs.turn) + regs.rev * RESOLUTION
<1>1. regs.encode_value \in Int /\ regs.turn \in Int /\ regs.rev \in Int
  BY DEF Registers
<1>2. Decode(regs.encode_value, regs.turn) \in Int
  <2>1. (regs.turn % 2) \in Int
    BY <1>1, ModInt
  <2>2. (regs.turn % 2) + (IF regs.encode_value < 0 THEN 1 ELSE 0) \in Int
    BY <1>1, <2>1
  <2> QED BY <1>1, <2>2, ResolutionType, ProductInt DEF Decode
<1>3. regs.rev * RESOLUTION \in Int
  BY <1>1, ResolutionType, ProductInt
<1>4. counts \in Int
  BY <1>2, <1>3
<1> HIDE DEF counts
<1>5. counts * MOTOR_POS_PULSE \in Int
  BY <1>4, ArithmeticAssumption, ProductInt
<1>6. -(counts * MOTOR_POS_PULSE) \in Int
  BY <1>5
<1>7. /\ (counts * MOTOR_POS_PULSE) \div RESOLUTION \in Int
      /\ (-(counts * MOTOR_POS_PULSE)) \div RESOLUTION \in Int
  BY <1>5, <1>6, ResolutionType, DivInt
<1>8. -((counts * MOTOR_POS_PULSE) \div RESOLUTION) \in Int
  BY <1>7
<1> QED BY <1>7, <1>8 DEF CurrentPulse, counts

LEMMA ZeroFromType ==
  ASSUME NEW regs \in Registers
  PROVE  ZeroFrom(regs) \in Int
BY CurrentPulseType, ArithmeticAssumption DEF ZeroFrom

LEMMA PulsesToType ==
  ASSUME NEW regs \in Registers, NEW zero_pulse \in Int
  PROVE  PulsesTo(TargetOf(PWM_MIN), regs, zero_pulse) \in Int
<1>1. TargetOf(PWM_MIN) = 0
  BY ArithmeticAssumption DEF TargetOf
<1> QED BY <1>1, CurrentPulseType DEF PulsesTo

----------------------------------------------------------------------------
(* motor_pos.c: the shape of its state, whoever calls. *)

LEMMA PushType ==
  ASSUME PosTypeOK, NEW m \in Motors, Push(m)
  PROVE  /\ g_motor_update_queue' \in Seq(Motors)
         /\ Len(g_motor_update_queue') < MOTOR_UPDATE_QUEUE_SIZE
         /\ Len(g_motor_update_queue') <= Len(g_motor_update_queue) + 1
<1>1. /\ Append(g_motor_update_queue, m) \in Seq(Motors)
      /\ Len(Append(g_motor_update_queue, m)) = Len(g_motor_update_queue) + 1
  BY AppendProperties DEF PosTypeOK
<1>2. Len(g_motor_update_queue) \in Nat
  BY LenProperties DEF PosTypeOK
<1> QED BY <1>1, <1>2, Constants DEF Push, RingFull, PosTypeOK

LEMMA UpdateType ==
  ASSUME PosTypeOK, NEW m \in Motors, NEW regs \in Registers, Update(m, regs)
  PROVE  PosTypeOK'
<1>1. g_state' \in [Motors -> [regs : Registers, valid : BOOLEAN, last_update_tick : Nat]]
  <2>1. [regs |-> regs, valid |-> TRUE, last_update_tick |-> now]
          \in [regs : Registers, valid : BOOLEAN, last_update_tick : Nat]
    BY DEF PosTypeOK
  <2> HIDE DEF Registers
  <2> QED BY <2>1 DEF PosTypeOK, Update
<1> QED BY <1>1, PushType DEF PosTypeOK, Update, zeroVars

LEMMA PostType ==
  ASSUME PosTypeOK, PostUpdate
  PROVE  PosTypeOK'
BY Constants DEF PosTypeOK, PostUpdate, zeroVars

LEMMA TakeType ==
  ASSUME PosTypeOK, TakeToken
  PROVE  PosTypeOK'
BY Constants DEF PosTypeOK, TakeToken, zeroVars

LEMMA PopType ==
  ASSUME PosTypeOK, PopUpdate
  PROVE  /\ PosTypeOK'
         /\ Head(g_motor_update_queue) \in Motors
         /\ Len(g_motor_update_queue') = Len(g_motor_update_queue) - 1
<1>1. g_motor_update_queue \in Seq(Motors) /\ g_motor_update_queue # <<>>
  BY DEF PosTypeOK, PopUpdate, RingEmpty
<1>2. /\ Head(g_motor_update_queue) \in Motors
      /\ Tail(g_motor_update_queue) \in Seq(Motors)
      /\ Len(Tail(g_motor_update_queue)) = Len(g_motor_update_queue) - 1
  BY <1>1, HeadTailProperties
<1>3. Len(g_motor_update_queue) \in Nat
  BY <1>1, LenProperties
<1> QED BY <1>2, <1>3, Constants DEF PosTypeOK, PopUpdate, zeroVars

LEMMA ZeroType ==
  ASSUME PosTypeOK, NEW m \in Motors, NEW regs \in Registers,
         WriteZero(m, regs) \/ SetCaptured(m)
  PROVE  PosTypeOK'
BY ZeroFromType DEF PosTypeOK, WriteZero, SetCaptured

LEMMA PosSame ==
  ASSUME PosTypeOK, UNCHANGED posVars
  PROVE  PosTypeOK'
BY DEF PosTypeOK, posVars, zeroVars

----------------------------------------------------------------------------
(* modbus_task.c *)

LEMMA NextSlaveType ==
  ASSUME ri \in Motors, NextSlave
  PROVE  ri' \in Motors
<1>1. ri + 1 \in Int
  BY Constants
<1>2. (ri + 1) % MOTOR_POS_COUNT \in 0 .. MOTOR_POS_COUNT - 1
  BY <1>1, Constants, ModInt
<1> QED BY <1>2 DEF NextSlave, Motors

LEMMA ModbusType ==
  ASSUME PosTypeOK, ModbusTypeOK, Modbus
  PROVE  PosTypeOK' /\ ModbusTypeOK'
<1>1. where' = where
  BY DEF Modbus, StartEngine, StartRequests, SendRequest, InputCallback,
         StoreReading, PostReading, RequestFails
<1>2. CASE StartEngine \/ StartRequests \/ SendRequest
  <2>1. UNCHANGED posVars
    BY <1>2 DEF StartEngine, StartRequests, SendRequest
  <2>2. now \in Nat
    BY DEF PosTypeOK
  <2>3. ModbusTypeOK'
    BY <1>1, <1>2, <2>2 DEF StartEngine, StartRequests, SendRequest, ModbusTypeOK, RequestPcs
  <2> QED BY <2>1, <2>3, PosSame
<1>3. CASE InputCallback
  <2>1. RegistersAt(where[ri]) \in Registers
    BY RegistersAtType DEF ModbusTypeOK
  <2> QED BY <1>1, <1>3, <2>1, PosSame DEF InputCallback, ModbusTypeOK
<1>4. CASE StoreReading
  <2>1. g_input_data.regs \in Registers /\ ri \in Motors
    BY DEF ModbusTypeOK
  <2>2. PosTypeOK'
    BY <1>4, <2>1, UpdateType DEF StoreReading
  <2>3. ModbusTypeOK'
    BY <1>1, <1>4 DEF StoreReading, ModbusTypeOK, RequestPcs
  <2> QED BY <2>2, <2>3
<1>5. CASE PostReading
  BY <1>1, <1>5, PostType, NextSlaveType DEF PostReading, ModbusTypeOK, RequestPcs
<1>6. CASE RequestFails
  BY <1>1, <1>6, PosSame, NextSlaveType DEF RequestFails, ModbusTypeOK, RequestPcs
<1> QED BY <1>2, <1>3, <1>4, <1>5, <1>6 DEF Modbus

LEMMA SilentType ==
  ASSUME PosTypeOK, ModbusTypeOK, FallsSilent
  PROVE  PosTypeOK' /\ ModbusTypeOK'
BY PosSame DEF FallsSilent, ModbusTypeOK, RequestPcs

LEMMA ModbusSame ==
  ASSUME PosTypeOK, ModbusTypeOK, UNCHANGED modbusVars
  PROVE  PosTypeOK' /\ ModbusTypeOK'
BY PosSame DEF modbusVars, pollVars, ModbusTypeOK

LEMMA PollSame ==
  ASSUME ModbusTypeOK, UNCHANGED <<pollVars, where>>
  PROVE  ModbusTypeOK'
BY DEF pollVars, ModbusTypeOK

----------------------------------------------------------------------------
(* The whole. *)

HomingTypeOK ==
  /\ hpc \in HomingPcs /\ hm \in Motors /\ wake \in Nat /\ retry \in Nat
  /\ read \in Registers
  /\ zeroed \subseteq Motors
  /\ running \in BOOLEAN

LEMMA TypeInit == Init => FeedTypeOK
<1> SUFFICES ASSUME Init PROVE FeedTypeOK
  OBVIOUS
<1>1. <<>> \in Seq(Motors) /\ Len(<<>>) = 0
  BY EmptySeq
<1>2. PosTypeOK
  BY <1>1, Constants, NoRegistersType DEF Init, PosInit, PosTypeOK
<1>3. ModbusTypeOK
  BY Constants, NoRegistersType DEF Init, ModbusInit, ModbusTypeOK, RequestPcs
<1>4. HomingTypeOK
  BY Constants, NoRegistersType DEF Init, HomingTypeOK, HomingPcs
<1>5. /\ stopped \subseteq Motors /\ due \subseteq Motors
      /\ mpc \in MotionPcs /\ mm \in Motors /\ behind \in BOOLEAN
  BY Constants DEF Init, MotionPcs
<1>6. g_last_pos_tick \in [Motors -> Nat] /\ error \in [Motors -> Int]
  BY DEF Init
<1> QED BY <1>2, <1>3, <1>4, <1>5, <1>6 DEF FeedTypeOK, HomingTypeOK

LEMMA HomingTypeStep ==
  ASSUME FeedTypeOK, Homing
  PROVE  FeedTypeOK'
<1> USE DEF FeedTypeOK
<1>0. hm \in Motors /\ read \in Registers /\ now \in Nat
  BY DEF PosTypeOK
<1>1. ASSUME NEW m \in Motors, HomingTakesEvent(m) PROVE FeedTypeOK'
  BY <1>0, <1>1, ModbusSame, Constants
  DEF HomingTakesEvent, HomingSleeps, motionVars, HomingPcs
<1>2. CASE HomingWakes
  BY <1>2, ModbusSame DEF HomingWakes, motionVars, HomingPcs
<1>3. CASE HomingChecksAge
  BY <1>0, <1>3, ModbusSame, Constants
  DEF HomingChecksAge, HomingSleeps, motionVars, HomingPcs
<1>4. ASSUME AxisDone, wake' = wake
      PROVE  HomingTypeOK'
  BY <1>0, <1>4, NoRegistersType, Constants DEF AxisDone, HomingTypeOK, HomingPcs
<1>5. CASE HomingReadsPosition
  <2>1. g_state[hm].regs \in Registers
    BY <1>0 DEF PosTypeOK
  <2>2. HomingTypeOK'
    BY <1>4, <1>5, <2>1 DEF HomingReadsPosition, HomingTypeOK, HomingPcs
  <2> QED BY <1>5, <2>2, ModbusSame DEF HomingReadsPosition, HomingTypeOK, motionVars
<1>6. CASE HomingWritesZero
  BY <1>0, <1>6, ZeroType, PollSame DEF HomingWritesZero, motionVars, HomingPcs
<1>7. CASE HomingSetsCaptured
  <2>1. HomingTypeOK'
    BY <1>4, <1>7 DEF HomingSetsCaptured
  <2> QED BY <1>0, <1>7, <2>1, ZeroType, PollSame
          DEF HomingSetsCaptured, HomingTypeOK, motionVars
<1> QED BY <1>1, <1>2, <1>3, <1>5, <1>6, <1>7 DEF Homing

LEMMA MotionTypeStep ==
  ASSUME FeedTypeOK, Motion
  PROVE  FeedTypeOK'
<1> USE DEF FeedTypeOK
<1>0. mm \in Motors
  OBVIOUS
<1>1. CASE MotionTakesToken
  BY <1>1, TakeType, PollSame DEF MotionTakesToken, homingVars, MotionPcs
<1>2. CASE MotionPops
  BY <1>2, PopType, PollSame DEF MotionPops, homingVars, MotionPcs
<1>3. CASE MotionFindsNone \/ MotionChecksState \/ MotionPrinted \/ MotionIdles
  BY <1>3, ModbusSame, Constants
  DEF MotionFindsNone, MotionChecksState, MotionPrinted, MotionIdles, MotionWaits,
      homingVars, MotionPcs
<1>4. CASE MotionReadsTick
  <2>1. g_state[mm].last_update_tick \in Nat
    BY <1>0 DEF PosTypeOK
  <2> QED BY <1>4, <2>1, ModbusSame, Constants
          DEF MotionReadsTick, MotionWaits, homingVars, MotionPcs
<1>5. CASE MotionGetsPulses
  <2>1. g_state[mm].regs \in Registers /\ g_zero_pulse[mm] \in Int
    BY <1>0 DEF PosTypeOK
  <2>2. PulsesTo(TargetOf(PWM_MIN), g_state[mm].regs, g_zero_pulse[mm]) \in Int
    BY <2>1, PulsesToType
  <2> QED BY <1>5, <2>2, ModbusSame, Constants
          DEF MotionGetsPulses, MotionWaits, homingVars, MotionPcs
<1> QED BY <1>1, <1>2, <1>3, <1>4, <1>5 DEF Motion

LEMMA TypeStep ==
  ASSUME FeedTypeOK, [Next]_vars
  PROVE  FeedTypeOK'
<1> USE DEF FeedTypeOK
<1>1. CASE ModbusActs
  BY <1>1, ModbusType DEF ModbusActs, homingVars, motionVars, ModbusTypeOK
<1>2. CASE DriveFallsSilent
  BY <1>2, SilentType DEF DriveFallsSilent, homingVars, motionVars
<1>3. CASE Homing
  BY <1>3, HomingTypeStep
<1>4. CASE Motion
  BY <1>4, MotionTypeStep
<1>5. CASE Tick
  BY <1>5, PollSame DEF Tick, homingVars, motionVars, zeroVars, PosTypeOK
<1>6. ASSUME NEW m \in Motors, AxisMoves(m) \/ AxisStops(m) PROVE FeedTypeOK'
  <2>1. CASE AxisMoves(m)
    BY <1>6, <2>1, Constants, PosSame
    DEF AxisMoves, pollVars, homingVars, motionVars, ModbusTypeOK
  <2>2. CASE AxisStops(m)
    BY <1>6, <2>2, ModbusSame DEF AxisStops, homingVars, motionVars
  <2> QED BY <1>6, <2>1, <2>2
<1>7. CASE UNCHANGED vars
  BY <1>7, ModbusSame DEF vars, homingVars, motionVars
<1> QED BY <1>1, <1>2, <1>3, <1>4, <1>5, <1>6, <1>7 DEF Next

(* Slave ids, loop indices and ring indices stay in range, the semaphore    *)
(* below its maximum, and every computed zero and error is a number, for    *)
(* any number of drives and any delays.                                     *)
THEOREM FeedTypes == Spec => []FeedTypeOK
<1>1. FeedTypeOK /\ [Next]_vars => FeedTypeOK'
  BY TypeStep
<1> QED BY <1>1, TypeInit, PTL DEF Spec

----------------------------------------------------------------------------
(* Tokens and updates. *)

LEMMA TokensInit == Init => TokensCoverRing
BY DEF Init, PosInit, ModbusInit, TokensCoverRing

LEMMA TokensStep ==
  ASSUME FeedTypeOK, TokensCoverRing, [Next]_vars
  PROVE  TokensCoverRing'
<1> DEFINE len == Len(g_motor_update_queue)
<1>0. /\ PosTypeOK /\ ModbusTypeOK /\ len \in Nat /\ g_data_sem \in Nat
      /\ len <= SEM_VALUE_MAX /\ SEM_VALUE_MAX \in Nat
  BY LenProperties, Constants DEF FeedTypeOK, PosTypeOK
<1>1. CASE UNCHANGED <<g_motor_update_queue, g_data_sem, mpc, rpc>>
  BY <1>1 DEF TokensCoverRing
<1>2. CASE ModbusActs
  <2>1. CASE StoreReading
    <3>1. Push(ri) /\ ri \in Motors /\ g_data_sem' = g_data_sem
      BY <2>1 DEF StoreReading, Update, FeedTypeOK, ModbusTypeOK
    <3>2. Len(g_motor_update_queue') \in Nat
          /\ Len(g_motor_update_queue') <= len + 1
      BY <1>0, <3>1, PushType, LenProperties
    <3> QED BY <1>0, <1>2, <2>1, <3>1, <3>2
            DEF ModbusActs, StoreReading, motionVars, TokensCoverRing
  <2>2. CASE PostReading
    BY <1>0, <1>2, <2>2 DEF ModbusActs, PostReading, PostUpdate, motionVars,
       FeedTypeOK, PosTypeOK, TokensCoverRing
  <2>3. CASE RequestFails \/ StartEngine \/ StartRequests \/ SendRequest \/ InputCallback
    BY <1>0, <1>2, <2>3 DEF ModbusActs, RequestFails, StartEngine, StartRequests,
       SendRequest, InputCallback, posVars, motionVars, TokensCoverRing
  <2> QED BY <1>2, <2>1, <2>2, <2>3 DEF ModbusActs, Modbus
<1>3. CASE DriveFallsSilent
  BY <1>0, <1>3 DEF DriveFallsSilent, FallsSilent, posVars, motionVars, TokensCoverRing
<1>4. CASE Motion
  <2>1. CASE MotionTakesToken
    BY <1>0, <2>1 DEF MotionTakesToken, TakeToken, pollVars, TokensCoverRing
  <2>2. CASE MotionPops
    <3>1. PopUpdate
      BY <2>2 DEF MotionPops
    <3>2. Len(g_motor_update_queue') = len - 1
      BY <1>0, <3>1, PopType
    <3> QED BY <1>0, <2>2, <3>2 DEF MotionPops, PopUpdate, pollVars, TokensCoverRing
  <2>3. CASE MotionFindsNone
    <3>1. len = 0
      BY <2>3, EmptySeq DEF MotionFindsNone, RingEmpty
    <3> QED BY <1>0, <2>3, <3>1
            DEF MotionFindsNone, modbusVars, posVars, pollVars, TokensCoverRing
  <2>4. CASE MotionChecksState \/ MotionReadsTick \/ MotionGetsPulses \/ MotionPrinted
             \/ MotionIdles
    BY <1>0, <2>4 DEF MotionChecksState, MotionReadsTick, MotionGetsPulses,
       MotionPrinted, MotionIdles, MotionWaits, modbusVars, posVars, pollVars,
       TokensCoverRing
  <2> QED BY <1>4, <2>1, <2>2, <2>3, <2>4 DEF Motion
<1>5. CASE Homing
  BY <1>1, <1>5 DEF Homing, HomingTakesEvent, HomingWakes, HomingChecksAge,
     HomingReadsPosition, HomingWritesZero, HomingSetsCaptured, WriteZero, SetCaptured,
     modbusVars, posVars, pollVars, motionVars
<1>6. CASE Tick \/ \E m \in Motors : AxisMoves(m) \/ AxisStops(m)
  BY <1>1, <1>6 DEF Tick, AxisMoves, AxisStops, modbusVars, posVars, pollVars, motionVars
<1>7. CASE UNCHANGED vars
  BY <1>1, <1>7 DEF vars, modbusVars, posVars, pollVars, motionVars
<1> QED BY <1>2, <1>3, <1>4, <1>5, <1>6, <1>7 DEF Next

(* No update is stranded: whatever the order of the task that stores and    *)
(* the task that fetches, an update in the ring has a token that wakes the   *)
(* motion task for it, also when the ring or the semaphore is full.         *)
THEOREM TokensAlwaysCover == Spec => []TokensCoverRing
<1>1. FeedTypeOK /\ TokensCoverRing /\ [Next]_vars => TokensCoverRing'
  BY TokensStep
<1> QED BY <1>1, TokensInit, FeedTypes, PTL DEF Spec

----------------------------------------------------------------------------
(* How many updates of an axis are in the ring. *)

LEMMA UpdatesFinite ==
  ASSUME NEW ring \in Seq(Motors), NEW m \in Motors
  PROVE  IsFiniteSet(UpdatesOf(m, ring)) /\ Cardinality(UpdatesOf(m, ring)) \in Nat
<1>1. Len(ring) \in Nat
  BY LenProperties
<1>2. IsFiniteSet(1 .. Len(ring))
  BY <1>1, FS_Interval
<1>3. UpdatesOf(m, ring) \in SUBSET (1 .. Len(ring))
  BY DEF UpdatesOf
<1>4. IsFiniteSet(UpdatesOf(m, ring))
  BY <1>2, <1>3, FS_Subset
<1> QED BY <1>4, FS_CardinalityType

LEMMA UpdatesOfAppend ==
  ASSUME NEW ring \in Seq(Motors), NEW m \in Motors, NEW k \in Motors
  PROVE  /\ k # m => UpdatesOf(k, Append(ring, m)) = UpdatesOf(k, ring)
         /\ UpdatesOf(m, Append(ring, m)) # {}
         /\ Cardinality(UpdatesOf(k, Append(ring, m)))
              <= Cardinality(UpdatesOf(k, ring)) + (IF k = m THEN 1 ELSE 0)
<1> DEFINE new == Append(ring, m)
<1>1. /\ Len(ring) \in Nat /\ Len(new) = Len(ring) + 1
      /\ \A p \in 1 .. Len(ring) : new[p] = ring[p]
      /\ new[Len(ring) + 1] = m
  BY AppendProperties, LenProperties
<1> HIDE DEF new
<1>2. k # m => UpdatesOf(k, new) = UpdatesOf(k, ring)
  BY <1>1 DEF UpdatesOf
<1>3. UpdatesOf(m, new) = UpdatesOf(m, ring) \cup {Len(ring) + 1}
  BY <1>1 DEF UpdatesOf
<1>4. Cardinality(UpdatesOf(m, new)) <= Cardinality(UpdatesOf(m, ring)) + 1
  <2>1. IsFiniteSet(UpdatesOf(m, ring)) /\ Cardinality(UpdatesOf(m, ring)) \in Nat
    BY UpdatesFinite
  <2>2. Cardinality(UpdatesOf(m, ring) \cup {Len(ring) + 1})
          = IF Len(ring) + 1 \in UpdatesOf(m, ring) THEN Cardinality(UpdatesOf(m, ring))
                                                   ELSE Cardinality(UpdatesOf(m, ring)) + 1
    BY <2>1, FS_AddElement
  <2> QED BY <1>3, <2>1, <2>2
<1>5. Cardinality(UpdatesOf(k, ring)) \in Nat
  BY UpdatesFinite
<1>6. CASE k = m
  BY <1>3, <1>4, <1>6 DEF new
<1>7. CASE k # m
  BY <1>2, <1>3, <1>5, <1>7 DEF new
<1> QED BY <1>6, <1>7

(* Without an axis in it, and with at most b updates of each other axis, the *)
(* ring is at most so long.                                                 *)
LEMMA RingLengthBound ==
  ASSUME NEW ring \in Seq(Motors), NEW m \in Motors, NEW b \in Nat,
         UpdatesOf(m, ring) = {},
         \A k \in Motors \ {m} : Cardinality(UpdatesOf(k, ring)) <= b
  PROVE  Len(ring) <= (MOTOR_POS_COUNT - 1) * b
<1> DEFINE S == 1 .. Len(ring)
           T == (Motors \ {m}) \X (1 .. b)
           upto(p) == {q \in 1 .. p : ring[q] = ring[p]}
           f == [p \in S |-> <<ring[p], Cardinality(upto(p))>>]
<1>1. Len(ring) \in Nat /\ \A p \in S : p \in Nat /\ ring[p] \in Motors \ {m}
  BY ElementOfSeq, LenProperties DEF UpdatesOf
<1>2. IsFiniteSet(S) /\ Cardinality(S) = Len(ring)
  BY <1>1, FS_Interval
<1>3. IsFiniteSet(T) /\ Cardinality(T) = (MOTOR_POS_COUNT - 1) * b
  <2>1. IsFiniteSet(Motors) /\ Cardinality(Motors) = MOTOR_POS_COUNT
    BY Constants, FS_Interval DEF Motors
  <2>2. IsFiniteSet(Motors \ {m}) /\ Cardinality(Motors \ {m}) = MOTOR_POS_COUNT - 1
    BY <2>1, FS_RemoveElement
  <2>3. IsFiniteSet(1 .. b) /\ Cardinality(1 .. b) = b
    BY FS_Interval
  <2> QED BY <2>2, <2>3, FS_Product
<1>4. ASSUME NEW p \in S
      PROVE  /\ upto(p) \subseteq UpdatesOf(ring[p], ring)
             /\ p \in upto(p)
             /\ IsFiniteSet(upto(p))
             /\ Cardinality(upto(p)) \in 1 .. b
  <2>1. upto(p) \in SUBSET UpdatesOf(ring[p], ring) /\ p \in upto(p)
    BY <1>1 DEF UpdatesOf
  <2>2. ring[p] \in Motors /\ Cardinality(UpdatesOf(ring[p], ring)) <= b
    BY <1>1
  <2>3. IsFiniteSet(UpdatesOf(ring[p], ring)) /\ Cardinality(UpdatesOf(ring[p], ring)) \in Nat
    BY <2>2, UpdatesFinite
  <2>4. IsFiniteSet(upto(p)) /\ Cardinality(upto(p)) <= Cardinality(UpdatesOf(ring[p], ring))
    BY <2>1, <2>3, FS_Subset
  <2>5. Cardinality(upto(p)) \in Nat /\ Cardinality(upto(p)) # 0
    BY <2>1, <2>4, FS_CardinalityType, FS_EmptySet
  <2> HIDE DEF upto
  <2> QED BY <2>1, <2>2, <2>3, <2>4, <2>5
<1>5. f \in [S -> T]
  BY <1>1, <1>4
<1>6. ASSUME NEW p \in S, NEW q \in S, p < q PROVE f[p] # f[q]
  <2>1. SUFFICES ASSUME ring[p] = ring[q]
                 PROVE  Cardinality(upto(p)) # Cardinality(upto(q))
    OBVIOUS
  <2>2. upto(p) \in SUBSET upto(q) /\ q \notin upto(p)
    BY <1>1, <1>6, <2>1
  <2>3. q \in upto(q) /\ IsFiniteSet(upto(q))
    BY <1>4
  <2> HIDE DEF upto
  <2> QED BY <2>2, <2>3, FS_Subset
<1>7. Cardinality(T) >= Cardinality(S)
  <2> SUFFICES ASSUME Cardinality(T) < Cardinality(S) PROVE FALSE
    <3>1. Cardinality(T) \in Int /\ Cardinality(S) \in Int
      BY <1>1, <1>2, <1>3, FS_CardinalityType
    <3> QED BY <3>1
  <2>1. PICK p \in S, q \in S : p # q /\ f[p] = f[q]
    <3> HIDE DEF f, S, T
    <3> QED BY <1>2, <1>3, <1>5, FS_PigeonHole
  <2>2. p < q \/ q < p
    BY <1>1, <2>1
  <2> HIDE DEF f
  <2> QED BY <1>6, <2>1, <2>2
<1> QED BY <1>2, <1>3, <1>7

----------------------------------------------------------------------------
(* What each part leaves alone. *)

LEMMA HomingLeaves ==
  ASSUME Homing
  PROVE  UNCHANGED <<now, g_state, g_motor_update_queue, g_data_sem, pollVars, where,
                     stopped, motionVars, due>>
BY DEF Homing, HomingTakesEvent, HomingWakes, HomingChecksAge, HomingReadsPosition,
       HomingWritesZero, HomingSetsCaptured, WriteZero, SetCaptured, modbusVars, posVars,
       motionVars

LEMMA MotionLeaves ==
  ASSUME Motion
  PROVE  UNCHANGED <<now, g_state, zeroVars, pollVars, where, stopped, homingVars>>
BY DEF Motion, MotionTakesToken, MotionPops, MotionFindsNone, MotionChecksState,
       MotionReadsTick, MotionGetsPulses, MotionPrinted, MotionIdles, TakeToken, PopUpdate,
       modbusVars, posVars, zeroVars

LEMMA ModbusLeaves ==
  ASSUME ModbusActs
  PROVE  UNCHANGED <<now, zeroVars, where, stopped, homingVars, motionVars>>
BY DEF ModbusActs, Modbus, StartEngine, StartRequests, SendRequest, InputCallback,
       StoreReading, PostReading, RequestFails, Update, PostUpdate, posVars

(* The clock, the axes and a drive that falls silent. *)
WorldActs ==
  \/ DriveFallsSilent \/ Tick \/ UNCHANGED vars
  \/ \E m \in Motors : AxisMoves(m) \/ AxisStops(m)

LEMMA WorldLeaves ==
  ASSUME WorldActs
  PROVE  UNCHANGED <<g_state, zeroVars, g_motor_update_queue, g_data_sem, ri, sent,
                     g_input_data, misses, homingVars, motionVars, due>>
BY DEF WorldActs, DriveFallsSilent, FallsSilent, Tick, AxisMoves, AxisStops, vars,
       modbusVars, posVars, pollVars

LEMMA NextIs ==
  ASSUME [Next]_vars
  PROVE  ModbusActs \/ Homing \/ Motion \/ WorldActs
BY DEF Next, WorldActs

----------------------------------------------------------------------------
(* Homing ends once. *)

LEMMA PhasesInit == Init => PhasesAreRight
<1> SUFFICES ASSUME Init PROVE PhasesAreRight
  OBVIOUS
<1>1. \A m \in Motors : misses[m] = 0
  BY DEF Init, ModbusInit
<1> QED BY <1>1, ModbusAssumption DEF Init, PhasesAreRight

LEMMA RunningStays ==
  ASSUME FeedTypeOK, PhasesAreRight, [Next]_vars
  PROVE  /\ running => running' /\ hpc' = "event" /\ zeroed' = HOMED
         /\ running' => hpc' = "event" /\ zeroed' = HOMED
<1>1. CASE Homing
  <2>1. CASE running
    <3>1. hpc = "event" /\ \A m \in Motors : m \notin stopped \ zeroed
      BY <2>1 DEF PhasesAreRight
    <3> QED BY <1>1, <3>1
            DEF Homing, HomingTakesEvent, HomingWakes, HomingChecksAge, HomingReadsPosition,
                HomingWritesZero, HomingSetsCaptured
  <2>2. CASE ~running
    <3>1. AxisDone \/ UNCHANGED running
      BY <1>1
      DEF Homing, HomingTakesEvent, HomingWakes, HomingChecksAge, HomingReadsPosition,
          HomingWritesZero, HomingSetsCaptured
    <3>2. AxisDone => hpc' = "event" /\ (running' => zeroed' = HOMED)
      BY DEF AxisDone
    <3> QED BY <2>2, <3>1, <3>2
  <2> QED BY <2>1, <2>2 DEF FeedTypeOK
<1>2. CASE UNCHANGED homingVars
  BY <1>2 DEF PhasesAreRight, homingVars
<1> QED BY <1>1, <1>2, NextIs, ModbusLeaves, MotionLeaves, WorldLeaves

LEMMA MissesStep ==
  ASSUME FeedTypeOK, PhasesAreRight, [Next]_vars
  PROVE  \A m \in Motors : misses'[m] <= MAX_MISSES
<1>0. misses \in [Motors -> Nat] /\ ri \in Motors /\ MAX_MISSES \in Nat
  BY ModbusAssumption DEF FeedTypeOK, ModbusTypeOK
<1>1. CASE UNCHANGED misses
  BY <1>1 DEF PhasesAreRight
<1>2. CASE StoreReading
  BY <1>0, <1>2 DEF StoreReading, PhasesAreRight
<1>3. CASE RequestFails
  BY <1>0, <1>3 DEF RequestFails, PhasesAreRight
<1>4. ModbusActs => StoreReading \/ RequestFails \/ UNCHANGED misses
  BY DEF ModbusActs, Modbus, StartEngine, StartRequests, SendRequest, InputCallback,
         PostReading
<1>5. Homing \/ Motion => UNCHANGED misses
  BY HomingLeaves, MotionLeaves DEF pollVars
<1> QED BY <1>1, <1>2, <1>3, <1>4, <1>5, NextIs, WorldLeaves

LEMMA PhasesStep ==
  ASSUME FeedTypeOK, PhasesAreRight, [Next]_vars
  PROVE  PhasesAreRight'
<1>1. stopped' \subseteq HOMED
  <2>1. WorldActs => stopped' \subseteq HOMED
    BY DEF PhasesAreRight, WorldActs, DriveFallsSilent, Tick, AxisMoves, AxisStops, vars
  <2> QED BY <2>1, NextIs, HomingLeaves, ModbusLeaves, MotionLeaves DEF PhasesAreRight
<1>2. ~running' => due' = {}
  <2>1. SUFFICES ASSUME ~running' PROVE due' = {}
    OBVIOUS
  <2>2. ~running /\ due = {}
    BY <2>1, RunningStays DEF PhasesAreRight
  <2>3. ModbusActs => due' = {}
    BY <2>2 DEF ModbusActs
  <2>4. Motion => due' = {}
    BY <2>2 DEF Motion, MotionTakesToken, MotionPops, MotionFindsNone, MotionChecksState,
       MotionReadsTick, MotionGetsPulses, MotionPrinted, MotionIdles
  <2> QED BY <2>2, <2>3, <2>4, NextIs, HomingLeaves, WorldLeaves
<1> QED BY <1>1, <1>2, RunningStays, MissesStep DEF PhasesAreRight

----------------------------------------------------------------------------
(* The drives are asked in turn. *)

LEMMA BeforeIs ==
  ASSUME FeedTypeOK
  PROVE  /\ AskedNext \in Motors
         /\ \A m \in Motors : /\ Before(m) \in 0 .. MOTOR_POS_COUNT - 1
                              /\ Before(m) = 0 <=> m = AskedNext
<1>1. AskedNext \in Motors
  BY Constants DEF FeedTypeOK, ModbusTypeOK, AskedNext, Motors
<1> QED BY <1>1, Constants DEF Before, Motors

LEMMA BeforeSame ==
  ASSUME AskedNext' = AskedNext
  PROVE  \A m \in Motors : Before(m)' = Before(m)
BY DEF Before

LEMMA NextSlaveIs ==
  ASSUME ri \in Motors, NextSlave
  PROVE  ri' = IF ri = MOTOR_POS_COUNT - 1 THEN 0 ELSE ri + 1
<1>1. CASE ri = MOTOR_POS_COUNT - 1
  <2>1. ri + 1 = MOTOR_POS_COUNT * 1 + 0
    BY <1>1, Constants
  <2>2. (MOTOR_POS_COUNT * 1 + 0) % MOTOR_POS_COUNT = 0
    BY Constants, DivIs
  <2> QED BY <1>1, <2>1, <2>2 DEF NextSlave
<1>2. CASE ri # MOTOR_POS_COUNT - 1
  <2>1. ri + 1 \in 0 .. MOTOR_POS_COUNT - 1
    BY <1>2, Constants DEF Motors
  <2>2. \A r \in 0 .. MOTOR_POS_COUNT - 1 : (MOTOR_POS_COUNT * 0 + r) % MOTOR_POS_COUNT = r
    BY Constants, DivIs
  <2>3. \A r \in 0 .. MOTOR_POS_COUNT - 1 : MOTOR_POS_COUNT * 0 + r = r
    BY Constants
  <2> QED BY <1>2, <2>1, <2>2, <2>3 DEF NextSlave
<1> QED BY <1>1, <1>2

(* With its answer or without, the drive that has been asked is the last. *)
LEMMA AskedAdvances ==
  ASSUME FeedTypeOK, StoreReading \/ RequestFails
  PROVE  /\ AskedNext = ri
         /\ \A m \in Motors :
              Before(m)' = IF m = ri THEN MOTOR_POS_COUNT - 1 ELSE Before(m) - 1
<1>1. ri \in Motors /\ AskedNext = ri
  BY DEF FeedTypeOK, ModbusTypeOK, AskedNext, StoreReading, RequestFails
<1>2. AskedNext' = IF ri = MOTOR_POS_COUNT - 1 THEN 0 ELSE ri + 1
  <2>1. CASE StoreReading
    BY <2>1 DEF StoreReading, AskedNext
  <2>2. CASE RequestFails
    BY <1>1, <2>2, NextSlaveIs DEF RequestFails, AskedNext
  <2> QED BY <2>1, <2>2
<1>3. AskedNext' \in Motors
  BY <1>1, <1>2, Constants DEF Motors
<1> QED BY <1>1, <1>2, <1>3, Constants DEF Before, Motors

LEMMA AskedStays ==
  ASSUME FeedTypeOK, [Next]_vars, ~(ModbusActs /\ (StoreReading \/ RequestFails))
  PROVE  AskedNext' = AskedNext
<1>1. CASE ModbusActs
  <2>1. CASE PostReading
    <3>1. ri \in Motors
      BY DEF FeedTypeOK, ModbusTypeOK
    <3> QED BY <2>1, <3>1, NextSlaveIs DEF PostReading, AskedNext
  <2>2. CASE StartEngine \/ StartRequests \/ SendRequest \/ InputCallback
    BY <2>2 DEF StartEngine, StartRequests, SendRequest, InputCallback, AskedNext
  <2> QED BY <1>1, <2>1, <2>2 DEF ModbusActs, Modbus
<1>2. CASE Homing \/ Motion
  BY <1>2, HomingLeaves, MotionLeaves DEF pollVars, AskedNext
<1>3. CASE WorldActs
  BY <1>3 DEF WorldActs, DriveFallsSilent, FallsSilent, Tick, AxisMoves, AxisStops, vars,
              modbusVars, pollVars, AskedNext
<1> QED BY <1>1, <1>2, <1>3, NextIs

----------------------------------------------------------------------------
(* The motion task catches up. *)

LEMMA FeedInvInit == Init => FeedInv
<1> SUFFICES ASSUME Init PROVE FeedInv
  OBVIOUS
<1>1. Len(g_motor_update_queue) = 0
  BY EmptySeq DEF Init, PosInit
<1> QED BY <1>1, PhasesInit DEF Init, PosInit, FeedInv, DueIsTracked, KeepsUp, FillsEvenly

(* The ring has room for an axis that is not in it. *)
LEMMA RoomForNext ==
  ASSUME RingOutlasts, FeedTypeOK, TokensCoverRing, FeedInv, MotionBlocked, StoreReading,
         ~InRing(ri)
  PROVE  ~RingFull
<1>0. /\ g_motor_update_queue \in Seq(Motors) /\ Len(g_motor_update_queue) \in Nat
      /\ ri \in Motors /\ rpc = "wait" /\ MAX_MISSES \in Nat /\ misses[ri] \in Nat
  BY ModbusAssumption, LenProperties DEF FeedTypeOK, PosTypeOK, ModbusTypeOK, StoreReading
<1>1. CASE mpc = "wait" /\ g_data_sem = 0
  <2>1. Len(g_motor_update_queue) <= 0
    BY <1>0, <1>1 DEF TokensCoverRing
  <2> QED BY <1>0, <2>1, Constants DEF RingFull
<1>2. CASE mpc = "print"
  <2>1. ASSUME NEW k \in Motors \ {ri}
        PROVE  Cardinality(UpdatesOf(k, g_motor_update_queue)) <= MAX_MISSES + 1
    <3>1. Cardinality(UpdatesOf(k, g_motor_update_queue))
            <= misses[ri] + (IF Before(ri) < Before(k) THEN 1 ELSE 0)
      BY <1>0, <1>2 DEF FeedInv, FillsEvenly
    <3>2. misses[ri] <= MAX_MISSES
      BY <1>0 DEF FeedInv, PhasesAreRight
    <3>3. Cardinality(UpdatesOf(k, g_motor_update_queue)) \in Nat
      BY <1>0, UpdatesFinite
    <3> QED BY <1>0, <3>1, <3>2, <3>3
  <2>2. UpdatesOf(ri, g_motor_update_queue) = {} /\ MAX_MISSES + 1 \in Nat
    BY <1>0 DEF InRing
  <2>3. Len(g_motor_update_queue) <= (MOTOR_POS_COUNT - 1) * (MAX_MISSES + 1)
    BY <1>0, <2>1, <2>2, RingLengthBound
  <2>4. (MOTOR_POS_COUNT - 1) * (MAX_MISSES + 1) \in Int
    BY <1>0, Constants, ProductInt
  <2> QED BY <1>0, <2>3, <2>4, Constants DEF RingOutlasts, RingFull
<1> QED BY <1>1, <1>2 DEF MotionBlocked

(* A reading that is stored has its axis in the ring. *)
LEMMA StoreIsSeen ==
  ASSUME RingOutlasts, FeedTypeOK, TokensCoverRing, FeedInv, MotionBlocked, StoreReading
  PROVE  /\ InRing(ri)'
         /\ \A k \in Motors : InRing(k)' <=> k = ri \/ InRing(k)
         /\ \A k \in Motors :
              Cardinality(UpdatesOf(k, g_motor_update_queue'))
                <= Cardinality(UpdatesOf(k, g_motor_update_queue)) + (IF k = ri THEN 1 ELSE 0)
<1>0. g_motor_update_queue \in Seq(Motors) /\ ri \in Motors /\ ri' = ri /\ Push(ri)
  BY DEF FeedTypeOK, PosTypeOK, ModbusTypeOK, StoreReading, Update
<1>1. \A k \in Motors : Cardinality(UpdatesOf(k, g_motor_update_queue)) \in Nat
  BY <1>0, UpdatesFinite
<1>2. CASE RingFull
  <2>1. g_motor_update_queue' = g_motor_update_queue /\ InRing(ri)
    BY <1>0, <1>2, RoomForNext DEF Push
  <2> QED BY <1>0, <1>1, <2>1 DEF InRing
<1>3. CASE ~RingFull
  <2>1. g_motor_update_queue' = Append(g_motor_update_queue, ri)
    BY <1>0, <1>3 DEF Push
  <2> QED BY <1>0, <2>1, UpdatesOfAppend DEF InRing
<1> QED BY <1>2, <1>3

LEMMA TailKeeps ==
  ASSUME NEW ring \in Seq(Motors), ring # <<>>, NEW m \in Motors,
         UpdatesOf(m, ring) # {}, m # Head(ring)
  PROVE  UpdatesOf(m, Tail(ring)) # {}
<1>1. PICK p \in 1 .. Len(ring) : ring[p] = m
  BY DEF UpdatesOf
<1>2. /\ Len(ring) \in Nat /\ Head(ring) = ring[1] /\ Len(Tail(ring)) = Len(ring) - 1
      /\ \A i \in 1 .. Len(Tail(ring)) : Tail(ring)[i] = ring[i + 1]
  BY LenProperties, HeadTailProperties
<1>3. p - 1 \in 1 .. Len(Tail(ring)) /\ Tail(ring)[p - 1] = m
  BY <1>1, <1>2
<1> QED BY <1>3 DEF UpdatesOf

(* What a step of Modbus does to the ring and to the readings. *)
LEMMA OtherModbus ==
  ASSUME ModbusActs, ~StoreReading
  PROVE  UNCHANGED <<g_state, g_motor_update_queue>>
BY DEF ModbusActs, Modbus, StartEngine, StartRequests, SendRequest, InputCallback,
       PostReading, RequestFails, PostUpdate, posVars

LEMMA DueStep ==
  ASSUME RingOutlasts, FeedTypeOK, TokensCoverRing, FeedInv, [Next]_vars
  PROVE  DueIsTracked'
<1>1. CASE UNCHANGED <<g_state, g_motor_update_queue, g_last_pos_tick, due, mm, mpc>>
  BY <1>1 DEF FeedInv, DueIsTracked, InRing, InWork
<1>2. CASE ModbusActs
  <2>1. UNCHANGED <<g_last_pos_tick, mm, mpc>> /\ MotionBlocked
    BY <1>2, ModbusLeaves DEF ModbusActs, motionVars
  <2>2. CASE StoreReading
    <3>1. /\ g_state \in [Motors -> [regs : Registers, valid : BOOLEAN, last_update_tick : Nat]]
          /\ ri \in Motors /\ due' \subseteq due \cup {ri} /\ due \subseteq Motors
      BY <1>2 DEF FeedTypeOK, PosTypeOK, ModbusTypeOK, ModbusActs
    <3>2. \A m \in Motors \ {ri} : g_state'[m] = g_state[m]
      BY <2>2, <3>1 DEF StoreReading, Update
    <3>3. ri' = ri /\ InRing(ri)' /\ \A m \in Motors : InRing(m) => InRing(m)'
      BY <2>1, <2>2, StoreIsSeen DEF StoreReading
    <3> QED BY <2>1, <3>1, <3>2, <3>3 DEF FeedInv, DueIsTracked, InRing, InWork
  <2>3. CASE ~StoreReading
    <3>1. UNCHANGED <<g_state, g_motor_update_queue, due>>
      BY <1>2, <2>3, OtherModbus DEF ModbusActs
    <3> QED BY <1>1, <2>1, <3>1
  <2> QED BY <2>2, <2>3
<1>3. CASE Motion
  <2>0. UNCHANGED g_state /\ mm \in Motors /\ due \subseteq Motors
    BY <1>3, MotionLeaves DEF FeedTypeOK
  <2>1. CASE MotionTakesToken \/ MotionFindsNone \/ MotionPrinted \/ MotionIdles
    BY <2>0, <2>1
    DEF MotionTakesToken, TakeToken, MotionFindsNone, MotionPrinted, MotionIdles, MotionWaits,
        modbusVars, posVars, FeedInv, DueIsTracked, InRing, InWork
  <2>2. CASE MotionPops
    <3>1. /\ g_motor_update_queue \in Seq(Motors) /\ g_motor_update_queue # <<>>
          /\ g_motor_update_queue' = Tail(g_motor_update_queue)
          /\ mm' = Head(g_motor_update_queue) /\ mpc = "pop" /\ mpc' = "state"
          /\ UNCHANGED <<g_last_pos_tick, due>>
      BY <2>2 DEF MotionPops, PopUpdate, RingEmpty, FeedTypeOK, PosTypeOK
    <3>2. \A m \in Motors : InRing(m) => m = mm' \/ InRing(m)'
      BY <3>1, TailKeeps DEF InRing
    <3> QED BY <2>0, <3>1, <3>2 DEF FeedInv, DueIsTracked, InWork
  <2>3. CASE MotionChecksState
    <3>1. CASE running
      BY <2>0, <2>3, <3>1
      DEF MotionChecksState, modbusVars, posVars, FeedInv, DueIsTracked, InRing, InWork
    <3>2. CASE ~running
      <4>1. due' = {}
        BY <2>3, <3>2 DEF MotionChecksState, FeedInv, PhasesAreRight
      <4> QED BY <4>1 DEF DueIsTracked
    <3> QED BY <3>1, <3>2
  <2>4. CASE MotionReadsTick
    <3>1. g_last_pos_tick \in [Motors -> Nat]
      BY DEF FeedTypeOK
    <3>2. CASE g_state[mm].last_update_tick = g_last_pos_tick[mm]
      BY <2>0, <2>4, <3>2
      DEF MotionReadsTick, MotionWaits, modbusVars, posVars, FeedInv, DueIsTracked, InRing, InWork
    <3>3. CASE g_state[mm].last_update_tick # g_last_pos_tick[mm]
      BY <2>0, <2>4, <3>1, <3>3
      DEF MotionReadsTick, modbusVars, posVars, FeedInv, DueIsTracked, InRing, InWork
    <3> QED BY <3>2, <3>3
  <2>5. CASE MotionGetsPulses
    <3>1. mpc = "pulses" /\ due' = due \ {mm} /\ UNCHANGED <<g_last_pos_tick, g_motor_update_queue>>
      BY <2>5 DEF MotionGetsPulses, modbusVars, posVars
    <3> QED BY <2>0, <3>1 DEF FeedInv, DueIsTracked, InRing, InWork
  <2> QED BY <1>3, <2>1, <2>2, <2>3, <2>4, <2>5 DEF Motion
<1>4. CASE Homing
  BY <1>1, <1>4, HomingLeaves DEF motionVars
<1>5. CASE WorldActs
  BY <1>1, <1>5, WorldLeaves DEF motionVars
<1> QED BY <1>2, <1>3, <1>4, <1>5, NextIs

LEMMA KeepsUpStep ==
  ASSUME FeedTypeOK, TokensCoverRing, FeedInv, [Next]_vars
  PROVE  KeepsUp'
<1>0. /\ g_motor_update_queue \in Seq(Motors) /\ Len(g_motor_update_queue) \in Nat
      /\ g_data_sem \in Nat
  BY LenProperties DEF FeedTypeOK, PosTypeOK
<1>1. CASE UNCHANGED <<g_motor_update_queue, mpc, behind>>
  BY <1>1 DEF FeedInv, KeepsUp
<1>2. CASE ModbusActs
  <2>1. UNCHANGED <<mpc, behind>> /\ MotionBlocked
    BY <1>2, ModbusLeaves DEF ModbusActs, motionVars
  <2>2. ASSUME ~behind, StoreReading PROVE KeepsUp'
    <3>1. mpc = "wait" /\ g_data_sem = 0 /\ rpc = "wait"
      BY <2>1, <2>2 DEF MotionBlocked, FeedInv, KeepsUp, StoreReading
    <3>2. Len(g_motor_update_queue) = 0
      BY <1>0, <3>1 DEF TokensCoverRing
    <3>3. ri \in Motors /\ Push(ri)
      BY <2>2 DEF FeedTypeOK, ModbusTypeOK, StoreReading, Update
    <3>4. Len(g_motor_update_queue') <= 1
      BY <3>2, <3>3, PushType DEF FeedTypeOK
    <3> QED BY <2>1, <3>1, <3>4 DEF KeepsUp
  <2>3. CASE behind
    BY <2>1, <2>3 DEF KeepsUp
  <2> QED BY <1>1, <1>2, <2>1, <2>2, <2>3, OtherModbus DEF FeedTypeOK
<1>3. CASE Motion
  <2>1. CASE MotionTakesToken
    BY <2>1 DEF MotionTakesToken, TakeToken, FeedInv, KeepsUp
  <2>2. CASE MotionPops
    <3>1. /\ g_motor_update_queue # <<>> /\ g_motor_update_queue' = Tail(g_motor_update_queue)
          /\ mpc' = "state" /\ behind' = behind
      BY <2>2 DEF MotionPops, PopUpdate, RingEmpty
    <3>2. /\ Tail(g_motor_update_queue) \in Seq(Motors)
          /\ Len(Tail(g_motor_update_queue)) = Len(g_motor_update_queue) - 1
      BY <1>0, <3>1, HeadTailProperties
    <3>3. ~behind => Len(Tail(g_motor_update_queue)) = 0
      <4>1. Len(Tail(g_motor_update_queue)) \in Nat
        BY <3>2, LenProperties
      <4> QED BY <1>0, <3>2, <4>1 DEF FeedInv, KeepsUp
    <3>4. ~behind => Tail(g_motor_update_queue) = <<>>
      BY <3>2, <3>3, EmptySeq
    <3> QED BY <3>1, <3>3, <3>4 DEF KeepsUp
  <2>3. CASE MotionFindsNone \/ MotionPrinted
    BY <2>3 DEF MotionFindsNone, MotionPrinted, MotionWaits, modbusVars, posVars, FeedInv, KeepsUp
  <2>4. CASE MotionChecksState \/ MotionReadsTick
    BY <2>4 DEF MotionChecksState, MotionReadsTick, MotionWaits, modbusVars, posVars, FeedInv,
                KeepsUp
  <2>5. CASE MotionGetsPulses
    <3>1. mpc = "pulses" /\ UNCHANGED g_motor_update_queue
          /\ \/ mpc' = "print" /\ behind'
             \/ mpc' = "wait" /\ behind' = behind
      BY <2>5 DEF MotionGetsPulses, MotionWaits, modbusVars, posVars
    <3> QED BY <3>1 DEF FeedInv, KeepsUp
  <2>6. CASE MotionIdles
    <3>1. Len(g_motor_update_queue) <= 1
      BY <1>0, <2>6 DEF MotionIdles, TokensCoverRing
    <3> QED BY <2>6, <3>1 DEF MotionIdles, modbusVars, posVars, KeepsUp
  <2> QED BY <1>3, <2>1, <2>2, <2>3, <2>4, <2>5, <2>6 DEF Motion
<1>4. CASE Homing
  BY <1>1, <1>4, HomingLeaves DEF motionVars
<1>5. CASE WorldActs
  BY <1>1, <1>5, WorldLeaves DEF motionVars
<1> QED BY <1>2, <1>3, <1>4, <1>5, NextIs

LEMMA FillsStep ==
  ASSUME ~OVERLOAD, RingOutlasts, FeedTypeOK, TokensCoverRing, FeedInv, [Next]_vars
  PROVE  FillsEvenly'
<1> SUFFICES ASSUME mpc' = "print", NEW m \in Motors, ~InRing(m)', NEW k \in Motors \ {m}
             PROVE  Cardinality(UpdatesOf(k, g_motor_update_queue'))
                      <= misses'[m] + (IF Before(m)' < Before(k)' THEN 1 ELSE 0)
  BY DEF FillsEvenly
<1> DEFINE count == Cardinality(UpdatesOf(k, g_motor_update_queue))
<1>0. /\ misses \in [Motors -> Nat] /\ misses[m] \in Nat /\ count \in Nat /\ ri \in Motors
      /\ \A n \in Motors : Before(n) \in 0 .. MOTOR_POS_COUNT - 1
      /\ MOTOR_POS_COUNT \in Nat
  <2>1. g_motor_update_queue \in Seq(Motors)
    BY DEF FeedTypeOK, PosTypeOK
  <2> QED BY <2>1, BeforeIs, UpdatesFinite, Constants DEF FeedTypeOK, ModbusTypeOK
<1>1. ASSUME mpc = "print", ~InRing(m)
      PROVE  count <= misses[m] + (IF Before(m) < Before(k) THEN 1 ELSE 0)
  BY <1>1 DEF FeedInv, FillsEvenly
<1>2. ASSUME mpc = "print", UNCHANGED <<g_motor_update_queue, misses>>, AskedNext' = AskedNext
      PROVE  Cardinality(UpdatesOf(k, g_motor_update_queue'))
               <= misses'[m] + (IF Before(m)' < Before(k)' THEN 1 ELSE 0)
  <2>1. ~InRing(m)
    BY <1>2 DEF InRing
  <2> QED BY <1>1, <1>2, <2>1, BeforeSame
<1>3. CASE ModbusActs
  <2>0. mpc = "print" /\ MotionBlocked
    BY <1>3, ModbusLeaves DEF ModbusActs, motionVars
  <2>1. CASE StoreReading
    <3>1. m # ri /\ ~InRing(m) /\ ri' = ri
      BY <1>0, <2>0, <2>1, StoreIsSeen DEF StoreReading
    <3>2. misses'[m] = misses[m]
      BY <1>0, <2>1, <3>1 DEF StoreReading
    <3>3. /\ Before(ri) = 0 /\ Before(m) # 0
          /\ Before(m)' = Before(m) - 1
          /\ Before(k)' = IF k = ri THEN MOTOR_POS_COUNT - 1 ELSE Before(k) - 1
      BY <1>0, <2>1, <3>1, AskedAdvances, BeforeIs
    <3>4. count <= misses[m] + (IF Before(m) < Before(k) THEN 1 ELSE 0)
      BY <1>1, <2>0, <3>1
    <3>5. Cardinality(UpdatesOf(k, g_motor_update_queue')) <= count + (IF k = ri THEN 1 ELSE 0)
      BY <2>0, <2>1, StoreIsSeen
    <3>6. Cardinality(UpdatesOf(k, g_motor_update_queue')) \in Nat
      <4>1. g_motor_update_queue' \in Seq(Motors)
        BY <1>0, <2>1, PushType DEF StoreReading, Update, FeedTypeOK
      <4> QED BY <4>1, UpdatesFinite
    <3>7. CASE k = ri
      BY <1>0, <3>2, <3>3, <3>4, <3>5, <3>6, <3>7
    <3>8. CASE k # ri
      BY <1>0, <3>2, <3>3, <3>4, <3>5, <3>6, <3>8
    <3> QED BY <3>7, <3>8
  <2>2. CASE RequestFails
    <3>1. g_motor_update_queue' = g_motor_update_queue /\ ~InRing(m)
      BY <2>2 DEF RequestFails, posVars, InRing
    <3>2. misses'[m] = IF m = ri THEN misses[m] + 1 ELSE misses[m]
      BY <1>0, <2>2 DEF RequestFails
    <3>3. /\ Before(ri) = 0 /\ (m # ri => Before(m) # 0) /\ (k # ri => Before(k) # 0)
          /\ Before(m)' = IF m = ri THEN MOTOR_POS_COUNT - 1 ELSE Before(m) - 1
          /\ Before(k)' = IF k = ri THEN MOTOR_POS_COUNT - 1 ELSE Before(k) - 1
      BY <1>0, <2>2, AskedAdvances, BeforeIs
    <3>4. count <= misses[m] + (IF Before(m) < Before(k) THEN 1 ELSE 0)
      BY <1>1, <2>0, <3>1
    <3>5. CASE m = ri
      BY <1>0, <3>1, <3>2, <3>3, <3>4, <3>5
    <3>6. CASE k = ri
      BY <1>0, <3>1, <3>2, <3>3, <3>4, <3>6
    <3>7. CASE m # ri /\ k # ri
      BY <1>0, <3>1, <3>2, <3>3, <3>4, <3>7
    <3> QED BY <3>5, <3>6, <3>7
  <2>3. CASE ~(StoreReading \/ RequestFails)
    <3>1. UNCHANGED misses
      BY <1>3, <2>3 DEF ModbusActs, Modbus, StartEngine, StartRequests, SendRequest,
                        InputCallback, PostReading
    <3> QED BY <1>2, <1>3, <2>0, <2>3, <3>1, OtherModbus, AskedStays
  <2> QED BY <2>1, <2>2, <2>3
<1>4. CASE Motion
  <2>1. MotionGetsPulses /\ behind' = TRUE /\ ~behind
    BY <1>4 DEF Motion, MotionTakesToken, MotionPops, MotionFindsNone, MotionChecksState,
                MotionReadsTick, MotionGetsPulses, MotionPrinted, MotionIdles, MotionWaits
  <2>2. g_motor_update_queue' = <<>>
    BY <2>1 DEF MotionGetsPulses, modbusVars, posVars, FeedInv, KeepsUp
  <2>3. UpdatesOf(k, g_motor_update_queue') = {}
    <3>1. Len(<<>>) = 0
      BY EmptySeq
    <3> QED BY <2>2, <3>1 DEF UpdatesOf
  <2>4. misses' = misses
    BY <1>4, MotionLeaves DEF pollVars
  <2> QED BY <1>0, <2>3, <2>4, FS_EmptySet
<1>5. CASE Homing \/ WorldActs
  <2>1. UNCHANGED <<mpc, g_motor_update_queue, misses>>
    BY <1>5, HomingLeaves, WorldLeaves DEF motionVars, pollVars
  <2>2. AskedNext' = AskedNext
    <3>1. CASE Homing
      BY <3>1, HomingLeaves DEF pollVars, AskedNext
    <3>2. CASE WorldActs
      BY <3>2 DEF WorldActs, DriveFallsSilent, FallsSilent, Tick, AxisMoves, AxisStops, vars,
                  modbusVars, pollVars, AskedNext
    <3> QED BY <1>5, <3>1, <3>2
  <2> QED BY <1>2, <2>1, <2>2
<1> QED BY <1>3, <1>4, <1>5, NextIs

(* With a ring that outlasts the misses of a drive, the update of an axis is *)
(* never the one that is dropped: what is due is in the ring or in hand.     *)
THEOREM FeedInvariant == ~OVERLOAD /\ RingOutlasts => (Spec => []FeedInv)
<1> SUFFICES ASSUME ~OVERLOAD, RingOutlasts PROVE Spec => []FeedInv
  OBVIOUS
<1>1. FeedTypeOK /\ TokensCoverRing /\ FeedInv /\ [Next]_vars => FeedInv'
  <2> SUFFICES ASSUME FeedTypeOK, TokensCoverRing, FeedInv, [Next]_vars PROVE FeedInv'
    OBVIOUS
  <2>1. PhasesAreRight'
    BY PhasesStep DEF FeedInv
  <2> QED BY <2>1, DueStep, KeepsUpStep, FillsStep DEF FeedInv
<1> QED BY <1>1, FeedInvInit, FeedTypes, TokensAlwaysCover, PTL DEF Spec

(* The motion task that waits again has worked on the last reading of every *)
(* axis, whatever requests fail and however long the console held it up.    *)
THEOREM AlwaysCaughtUp == ~OVERLOAD /\ RingOutlasts => (Spec => []CaughtUp)
<1>1. FeedTypeOK /\ TokensCoverRing /\ FeedInv => CaughtUp
  <2> SUFFICES ASSUME FeedTypeOK, TokensCoverRing, FeedInv,
                      mpc = "wait", g_data_sem = 0, rpc # "post", NEW m \in due
               PROVE  g_last_pos_tick[m] = g_state[m].last_update_tick
    BY DEF CaughtUp
  <2>1. Len(g_motor_update_queue) = 0
    <3>1. Len(g_motor_update_queue) \in Nat
      BY LenProperties DEF FeedTypeOK, PosTypeOK
    <3> QED BY <3>1 DEF TokensCoverRing
  <2>2. ~InRing(m) /\ ~InWork(m)
    BY <2>1 DEF InRing, UpdatesOf, InWork
  <2> QED BY <2>2 DEF FeedInv, DueIsTracked
<1> QED BY <1>1, FeedTypes, TokensAlwaysCover, FeedInvariant, PTL

----------------------------------------------------------------------------
(* The zero of an axis. *)

LEMMA CurrentIsPulses ==
  ASSUME NEW x \in Nat
  PROVE  /\ CurrentPulse(RegistersAt(x)) = -((x * MOTOR_POS_PULSE) \div RESOLUTION)
         /\ -((x * MOTOR_POS_PULSE) \div RESOLUTION) \in Int
<1> DEFINE regs == RegistersAt(x)
           scaled == x * MOTOR_POS_PULSE
<1>1. Decode(regs.encode_value, regs.turn) + regs.rev * RESOLUTION = x
  BY DecodeIsPosition
<1>2. scaled \in Nat
  BY ArithmeticAssumption
<1>3. scaled \div RESOLUTION \in Int
  BY <1>2, ResolutionType, DivInt
<1> HIDE DEF regs
<1>4. CurrentPulse(regs) = IF scaled >= 0 THEN -(scaled \div RESOLUTION)
                                          ELSE (-scaled) \div RESOLUTION
  BY <1>1 DEF CurrentPulse
<1> HIDE DEF scaled
<1>5. CurrentPulse(regs) = -(scaled \div RESOLUTION) /\ -(scaled \div RESOLUTION) \in Int
  BY <1>2, <1>3, <1>4
<1> QED BY <1>5 DEF regs, scaled

LEMMA ZeroAndError ==
  ASSUME FeedTypeOK, NEW m \in Motors
  PROVE  /\ ZeroFrom(RegistersAt(where[m])) = PulsesAt(m) + MARGIN_PULSES
         /\ PulsesTo(TargetOf(PWM_MIN), RegistersAt(where[m]), PulsesAt(m) + MARGIN_PULSES)
              = MARGIN_PULSES
<1>1. where[m] \in Nat
  BY DEF FeedTypeOK, ModbusTypeOK
<1>2. CurrentPulse(RegistersAt(where[m])) = PulsesAt(m) /\ PulsesAt(m) \in Int
  BY <1>1, CurrentIsPulses DEF PulsesAt
<1>3. TargetOf(PWM_MIN) = 0 /\ MARGIN_PULSES \in Nat
  BY ArithmeticAssumption DEF TargetOf
<1> QED BY <1>2, <1>3 DEF ZeroFrom, PulsesTo

LEMMA ZeroFeedInvInit == Init => ZeroFeedInv
<1> SUFFICES ASSUME Init PROVE ZeroFeedInv
  OBVIOUS
<1>1. Awaited = {}
  BY DEF Init, Awaited
<1>2. /\ \A m \in Motors : ~g_state[m].valid /\ ~g_zero_captured[m] /\ error[m] = 0
      /\ rpc = "start" /\ hpc = "event" /\ zeroed = {} /\ stopped = {}
  BY DEF Init, PosInit, ModbusInit
<1>3. ZeroIsRight
  BY <1>2, FeedAssumption DEF ZeroIsRight
<1> QED BY <1>1, <1>2, <1>3, PhasesInit DEF ZeroFeedInv, SleepIsRight

(* An axis that has stopped stays where it is. *)
LEMMA StopsForGood ==
  ASSUME FeedTypeOK, [Next]_vars, NEW m \in stopped
  PROVE  m \in stopped' /\ where'[m] = where[m] /\ PulsesAt(m)' = PulsesAt(m)
<1>1. m \in Motors /\ where \in [Motors -> Nat]
  BY DEF FeedTypeOK, ModbusTypeOK
<1>2. CASE WorldActs
  BY <1>1, <1>2 DEF WorldActs, DriveFallsSilent, FallsSilent, Tick, AxisMoves, AxisStops, vars,
                    modbusVars, PulsesAt
<1> QED BY <1>2, NextIs, HomingLeaves, ModbusLeaves, MotionLeaves DEF PulsesAt

(* Nothing but the request thread moves the request. *)
LEMMA RequestStays ==
  ASSUME [Next]_vars, ~ModbusActs
  PROVE  /\ UNCHANGED <<g_state, ri, sent, g_input_data, misses>>
         /\ \/ UNCHANGED rpc
            \/ rpc = "wait" /\ rpc' = "silent" /\ (running \/ SILENT_HOMING)
               /\ UNCHANGED homingVars
<1>1. Homing \/ Motion => UNCHANGED <<g_state, pollVars>>
  BY HomingLeaves, MotionLeaves
<1>2. WorldActs => \/ UNCHANGED rpc
                   \/ /\ rpc = "wait" /\ rpc' = "silent" /\ (running \/ SILENT_HOMING)
  BY DEF WorldActs, DriveFallsSilent, FallsSilent, Tick, AxisMoves, AxisStops, vars,
         modbusVars, pollVars
<1> QED BY <1>1, <1>2, NextIs, WorldLeaves DEF pollVars

LEMMA ComingStays ==
  ASSUME FeedTypeOK, [Next]_vars, NEW m \in stopped, ComingIsCurrent(m)
  PROVE  ComingIsCurrent(m)'
<1>0. /\ m \in Motors /\ where'[m] = where[m]
      /\ g_input_data \in [regs : Registers, valid : BOOLEAN, seen : BOOLEAN]
  BY StopsForGood DEF FeedTypeOK, ModbusTypeOK
<1>1. CASE ModbusActs
  <2>1. CASE InputCallback
    BY <1>0, <2>1 DEF InputCallback, ComingIsCurrent
  <2>2. CASE SendRequest
    BY <1>0, <2>2 DEF SendRequest, ComingIsCurrent
  <2>3. CASE StartEngine \/ StartRequests \/ StoreReading \/ PostReading \/ RequestFails
    BY <2>3 DEF StartEngine, StartRequests, StoreReading, PostReading, RequestFails,
                ComingIsCurrent
  <2> QED BY <1>1, <2>1, <2>2, <2>3 DEF ModbusActs, Modbus
<1>2. CASE ~ModbusActs
  BY <1>0, <1>2, RequestStays DEF ComingIsCurrent
<1> QED BY <1>1, <1>2

LEMMA StoredStays ==
  ASSUME FeedTypeOK, [Next]_vars, NEW m \in stopped, StoredIsCurrent(m),
         ~(StoreReading /\ ri = m) \/ ComingIsCurrent(m)
  PROVE  StoredIsCurrent(m)'
<1>0. /\ m \in Motors /\ where'[m] = where[m] /\ ri \in Motors
      /\ g_state \in [Motors -> [regs : Registers, valid : BOOLEAN, last_update_tick : Nat]]
  BY StopsForGood DEF FeedTypeOK, PosTypeOK, ModbusTypeOK
<1>1. CASE ModbusActs /\ StoreReading
  BY <1>0, <1>1 DEF StoreReading, Update, StoredIsCurrent, ComingIsCurrent
<1>2. CASE ~(ModbusActs /\ StoreReading)
  <2>1. UNCHANGED g_state
    BY <1>2, RequestStays, OtherModbus
  <2> QED BY <1>0, <2>1 DEF StoredIsCurrent
<1> QED BY <1>1, <1>2

(* The request thread between start and silence. *)
LEMMA RequestStep ==
  ASSUME ~SILENT_HOMING, FeedTypeOK, ZeroFeedInv, [Next]_vars
  PROVE  /\ (rpc = "silent" => running)'
         /\ (rpc \in {"start", "create", "failed"} => \A m \in Motors : ~g_state[m].valid)'
         /\ (rpc = "wait" => now - sent \in 0 .. ANSWER_TIME)'
<1>0. now \in Nat /\ sent \in Nat /\ ANSWER_TIME \in Nat
  BY ModbusAssumption DEF FeedTypeOK, PosTypeOK, ModbusTypeOK
<1>1. running => running'
  BY RunningStays DEF ZeroFeedInv
<1>2. CASE ModbusActs
  <2>1. CASE StartEngine \/ StartRequests
    <3>1. UNCHANGED g_state /\ rpc \in {"start", "create"} /\ rpc' \notin {"silent", "wait"}
      BY <2>1 DEF StartEngine, StartRequests, posVars
    <3> QED BY <3>1 DEF ZeroFeedInv
  <2>2. CASE SendRequest
    BY <1>0, <2>2 DEF SendRequest, posVars
  <2>3. CASE InputCallback
    BY <2>3 DEF InputCallback, posVars, ZeroFeedInv
  <2>4. CASE StoreReading \/ PostReading \/ RequestFails
    BY <2>4 DEF StoreReading, PostReading, RequestFails
  <2> QED BY <1>2, <2>1, <2>2, <2>3, <2>4 DEF ModbusActs, Modbus
<1>3. CASE ~ModbusActs
  <2>1. UNCHANGED <<g_state, sent>>
    BY <1>3, RequestStays
  <2>2. \/ UNCHANGED rpc
        \/ rpc' = "silent" /\ running
    BY <1>3, RequestStays
  <2>3. rpc = "wait" => now' = now \/ (now' = now + 1 /\ now - sent < ANSWER_TIME)
    <3>1. WorldActs => now' = now \/ (now' = now + 1 /\ BusInTime)
      BY DEF WorldActs, DriveFallsSilent, FallsSilent, Tick, AxisMoves, AxisStops, vars,
             modbusVars, posVars
    <3> QED BY <1>3, <3>1, NextIs, HomingLeaves, MotionLeaves DEF BusInTime
  <2> QED BY <1>0, <1>1, <2>1, <2>2, <2>3 DEF ZeroFeedInv
<1> QED BY <1>2, <1>3

LEMMA AskedIs ==
  ASSUME FeedTypeOK, NEW m \in Motors
  PROVE  /\ Asked(m) \in Nat
         /\ Asked(m) + 1 = (misses[m] + 1) * MOTOR_POS_COUNT - Before(m)
         /\ Before(m) \in 0 .. MOTOR_POS_COUNT - 1
         /\ (misses[m] + 1) * MOTOR_POS_COUNT \in Nat
<1>1. misses[m] \in Nat /\ MOTOR_POS_COUNT \in Nat \ {0}
  BY Constants DEF FeedTypeOK, ModbusTypeOK
<1>2. Before(m) \in 0 .. MOTOR_POS_COUNT - 1
  BY BeforeIs
<1>3. /\ misses[m] * MOTOR_POS_COUNT \in Nat
      /\ (misses[m] + 1) * MOTOR_POS_COUNT = misses[m] * MOTOR_POS_COUNT + MOTOR_POS_COUNT
  BY <1>1
<1> QED BY <1>1, <1>2, <1>3 DEF Asked

(* One more drive has been asked. *)
LEMMA AskedMore ==
  ASSUME FeedTypeOK, NEW m \in Motors, StoreReading \/ RequestFails,
         ~(StoreReading /\ ri = m)
  PROVE  Asked(m)' = Asked(m) + 1
<1>0. /\ misses \in [Motors -> Nat] /\ ri \in Motors /\ MOTOR_POS_COUNT \in Nat \ {0}
      /\ Before(m) \in 0 .. MOTOR_POS_COUNT - 1 /\ Before(ri) = 0
  BY Constants, BeforeIs, AskedAdvances DEF FeedTypeOK, ModbusTypeOK
<1>1. Before(m)' = IF m = ri THEN MOTOR_POS_COUNT - 1 ELSE Before(m) - 1
  BY AskedAdvances
<1>2. CASE m # ri
  <2>1. misses'[m] = misses[m]
    BY <1>0, <1>2 DEF StoreReading, RequestFails
  <2>2. misses[m] * MOTOR_POS_COUNT \in Nat
    BY <1>0
  <2> QED BY <1>0, <1>1, <1>2, <2>1, <2>2 DEF Asked
<1>3. CASE m = ri
  <2>1. misses'[m] = misses[m] + 1
    BY <1>0, <1>3 DEF StoreReading, RequestFails
  <2>2. /\ misses[m] * MOTOR_POS_COUNT \in Nat
        /\ (misses[m] + 1) * MOTOR_POS_COUNT = misses[m] * MOTOR_POS_COUNT + MOTOR_POS_COUNT
    BY <1>0
  <2> QED BY <1>0, <1>1, <1>3, <2>1, <2>2 DEF Asked
<1> QED BY <1>2, <1>3

LEMMA AskedKept ==
  ASSUME AskedNext' = AskedNext, UNCHANGED misses, NEW m \in Motors
  PROVE  Asked(m)' = Asked(m)
BY BeforeSame DEF Asked

(* The time since the event, by the end of the sleep, is more than the misses *)
(* of a drive account for.                                                  *)
LEMMA AskedBound ==
  ASSUME DelayOutlasts, FeedTypeOK, ZeroFeedInv, NEW m \in Motors
  PROVE  Asked(m) * ANSWER_TIME + Waited < HOMING_ZERO_CAPTURE_DELAY
<1>0. /\ ANSWER_TIME \in Nat /\ MAX_MISSES \in Nat /\ HOMING_ZERO_CAPTURE_DELAY \in Nat
      /\ MOTOR_POS_COUNT \in Nat \ {0} /\ misses[m] \in Nat /\ misses[m] <= MAX_MISSES
  BY ModbusAssumption, Constants
  DEF FeedTypeOK, ModbusTypeOK, ZeroFeedInv, PhasesAreRight
<1>1. Waited \in 0 .. ANSWER_TIME
  BY <1>0 DEF ZeroFeedInv, Waited
<1> DEFINE rounds == MOTOR_POS_COUNT * (MAX_MISSES + 1)
<1>2. rounds \in Nat /\ Asked(m) \in Nat /\ Asked(m) + 1 <= rounds
  <2>1. (misses[m] + 1) * MOTOR_POS_COUNT <= MOTOR_POS_COUNT * (MAX_MISSES + 1)
    BY <1>0
  <2>2. rounds \in Nat
    BY <1>0
  <2> HIDE DEF rounds
  <2> QED BY <2>1, <2>2, AskedIs DEF rounds
<1>3. rounds * ANSWER_TIME < HOMING_ZERO_CAPTURE_DELAY
  BY DEF DelayOutlasts
<1> HIDE DEF rounds
<1>4. /\ (Asked(m) + 1) * ANSWER_TIME <= rounds * ANSWER_TIME
      /\ (Asked(m) + 1) * ANSWER_TIME = Asked(m) * ANSWER_TIME + ANSWER_TIME
      /\ Asked(m) * ANSWER_TIME \in Nat /\ rounds * ANSWER_TIME \in Nat
  BY <1>0, <1>2
<1> QED BY <1>0, <1>1, <1>3, <1>4

LEMMA SleepStep ==
  ASSUME ~SILENT_HOMING, FeedTypeOK, ZeroFeedInv, [Next]_vars
  PROVE  SleepIsRight'
<1> SUFFICES ASSUME hpc' = "sleep", retry' = 0
             PROVE  /\ EventAt' \in 0 .. now'
                    /\ EventAt' < now' => ComingIsCurrent(hm)'
                    /\ \/ StoredIsCurrent(hm)'
                       \/ now' - EventAt' <= Asked(hm)' * ANSWER_TIME + Waited'
  BY DEF SleepIsRight
<1>0. /\ now \in Nat /\ wake \in Nat /\ ANSWER_TIME \in Nat /\ hm \in Motors
      /\ HOMING_ZERO_CAPTURE_DELAY \in Nat
  BY ModbusAssumption, Constants DEF FeedTypeOK, PosTypeOK
<1>1. CASE \E m \in Motors : HomingTakesEvent(m)
  <2>1. wake' = now + HOMING_ZERO_CAPTURE_DELAY /\ now' = now /\ hm' \in Motors
    BY <1>1 DEF HomingTakesEvent, HomingSleeps, modbusVars, posVars
  <2>2. EventAt' = now
    BY <1>0, <2>1 DEF EventAt
  <2>3. FeedTypeOK' /\ Waited' \in Nat
    <3>1. FeedTypeOK'
      BY TypeStep
    <3>2. Waited' = Waited
      BY <1>1 DEF HomingTakesEvent, Waited, modbusVars, posVars, pollVars
    <3>3. Waited \in Nat
      BY <1>0 DEF Waited, ZeroFeedInv
    <3> QED BY <3>1, <3>2, <3>3
  <2>4. Asked(hm)' \in Nat
    <3>1. \A m \in Motors : Asked(m) \in Nat
      BY AskedIs
    <3>2. Asked(hm)' = Asked(hm')
      BY <1>1 DEF HomingTakesEvent, Asked, Before, AskedNext, modbusVars, pollVars
    <3> QED BY <2>1, <3>1, <3>2
  <2>5. Asked(hm)' * ANSWER_TIME \in Nat
    BY <1>0, <2>4
  <2> QED BY <1>0, <2>1, <2>2, <2>3, <2>5
<1>2. CASE ~\E m \in Motors : HomingTakesEvent(m)
  <2>1. UNCHANGED homingVars
    <3>1. Homing => \/ \E m \in Motors : HomingTakesEvent(m)
                    \/ hpc' # "sleep" \/ retry' # 0
      <4>1. HomingChecksAge => hpc' # "sleep" \/ retry' # 0
        BY DEF HomingChecksAge, HomingSleeps, FeedTypeOK
      <4> QED BY <4>1 DEF Homing, HomingWakes, HomingReadsPosition, HomingWritesZero,
                          HomingSetsCaptured, AxisDone
    <3> QED BY <1>2, <3>1, NextIs, ModbusLeaves, MotionLeaves, WorldLeaves
  <2>2. /\ hpc = "sleep" /\ retry = 0 /\ hm' = hm /\ EventAt' = EventAt
        /\ EventAt \in 0 .. now
        /\ EventAt < now => ComingIsCurrent(hm)
        /\ StoredIsCurrent(hm) \/ now - EventAt <= Asked(hm) * ANSWER_TIME + Waited
        /\ hm \in stopped /\ ~running
    BY <2>1 DEF homingVars, ZeroFeedInv, SleepIsRight, ZeroIsRight, EventAt, PhasesAreRight
  <2>3. /\ Asked(hm) \in Nat /\ Asked(hm) * ANSWER_TIME \in Nat
        /\ (Asked(hm) + 1) * ANSWER_TIME = Asked(hm) * ANSWER_TIME + ANSWER_TIME
    <3>1. Asked(hm) \in Nat
      BY <1>0, AskedIs
    <3> QED BY <1>0, <3>1
  <2>4. Waited \in 0 .. ANSWER_TIME
    BY <1>0 DEF Waited, ZeroFeedInv
  <2>5. ComingIsCurrent(hm) => ComingIsCurrent(hm)'
    BY <2>2, ComingStays
  <2>6. CASE ModbusActs /\ (StoreReading \/ RequestFails)
    <3>1. now' = now
      BY <2>6, ModbusLeaves
    <3>2. CASE StoreReading /\ ri = hm
      <4>1. rpc = "wait" /\ g_input_data.seen /\ rpc' = "post"
        BY <3>2 DEF StoreReading
      <4>2. CASE EventAt < now
        <5>1. StoredIsCurrent(hm)'
          <6>1. g_state \in [Motors -> [regs : Registers, valid : BOOLEAN,
                                        last_update_tick : Nat]] /\ where'[hm] = where[hm]
            BY <2>2, StopsForGood DEF FeedTypeOK, PosTypeOK
          <6> QED BY <1>0, <2>2, <3>2, <4>1, <4>2, <6>1
                  DEF StoreReading, Update, StoredIsCurrent, ComingIsCurrent
        <5> QED BY <2>2, <2>5, <3>1, <4>2, <5>1
      <4>3. CASE EventAt = now
        <5>1. Waited' = 0
          BY <4>1 DEF Waited
        <5>2. Asked(hm)' * ANSWER_TIME \in Nat
          <6>1. FeedTypeOK'
            BY TypeStep
          <6>2. misses'[hm] = 0
            BY <1>0, <3>2 DEF StoreReading, FeedTypeOK, ModbusTypeOK
          <6>3. \A m \in Motors : m = ri => Before(m)' = MOTOR_POS_COUNT - 1
            BY <3>2, AskedAdvances
          <6>4. Before(hm)' = MOTOR_POS_COUNT - 1
            <7>1. PICK m \in Motors : m = hm
              BY <1>0
            <7>2. Before(m)' = MOTOR_POS_COUNT - 1
              BY <3>2, <6>3, <7>1
            <7> QED BY <2>1, <7>1, <7>2 DEF Before, homingVars
          <6>5. Asked(hm)' = 0
            BY <2>2, <6>2, <6>4, Constants DEF Asked
          <6> QED BY <1>0, <6>5
        <5> QED BY <1>0, <2>2, <3>1, <4>3, <5>1, <5>2
      <4> QED BY <1>0, <2>2, <4>2, <4>3
    <3>3. CASE ~(StoreReading /\ ri = hm)
      <4>1. Asked(hm)' = Asked(hm) + 1
        BY <1>0, <2>2, <2>6, <3>3, AskedMore
      <4>2. Waited' = 0
        BY <2>6 DEF StoreReading, RequestFails, Waited
      <4>3. StoredIsCurrent(hm) => StoredIsCurrent(hm)'
        BY <2>2, <3>3, StoredStays
      <4>4. /\ EventAt \in Int
            /\ now - EventAt <= Asked(hm) * ANSWER_TIME + Waited =>
                 now - EventAt <= Asked(hm)' * ANSWER_TIME + Waited'
        BY <1>0, <2>2, <2>3, <2>4, <4>1, <4>2
      <4> QED BY <2>2, <2>5, <3>1, <4>3, <4>4
    <3> QED BY <3>2, <3>3
  <2>7. CASE ~(ModbusActs /\ (StoreReading \/ RequestFails))
    <3>1. AskedNext' = AskedNext
      BY <2>7, AskedStays
    <3>2. UNCHANGED misses
      BY <2>7, RequestStays DEF ModbusActs, Modbus, StartEngine, StartRequests, SendRequest,
                                InputCallback, PostReading
    <3>3. Asked(hm)' = Asked(hm)
      BY <1>0, <2>2, <3>1, <3>2, AskedKept
    <3>4. StoredIsCurrent(hm) => StoredIsCurrent(hm)'
      <4>1. UNCHANGED g_state
        BY <2>7, RequestStays, OtherModbus
      <4>2. where'[hm] = where[hm]
        BY <2>2, StopsForGood
      <4> QED BY <2>2, <4>1, <4>2 DEF StoredIsCurrent
    <3>5. CASE ModbusActs
      <4>1. now' = now
        BY <3>5, ModbusLeaves
      <4>2. Waited' = Waited
        BY <1>0, <2>7, <3>5, <4>1
        DEF ModbusActs, Modbus, StartEngine, StartRequests, SendRequest, InputCallback,
            PostReading, Waited
      <4> QED BY <2>2, <2>5, <3>3, <3>4, <4>1, <4>2
    <3>6. CASE ~ModbusActs
      <4>1. UNCHANGED <<rpc, sent, ri, g_input_data>>
        BY <2>2, <3>6, RequestStays
      <4>2. CASE now' = now
        <5>1. Waited' = Waited
          BY <4>1, <4>2 DEF Waited
        <5> QED BY <2>2, <2>5, <3>3, <3>4, <4>2, <5>1
      <4>3. CASE Tick
        <5>1. now' = now + 1 /\ BusInTime
          BY <4>3 DEF Tick
        <5>2. CASE rpc \in {"start", "create", "failed"}
          <6>1. StoredIsCurrent(hm)'
            BY <1>0, <2>2, <3>4, <5>2 DEF ZeroFeedInv, StoredIsCurrent
          <6>2. ComingIsCurrent(hm)'
            BY <4>1, <5>2 DEF ComingIsCurrent
          <6> QED BY <1>0, <2>2, <5>1, <6>1, <6>2
        <5>3. CASE rpc = "wait" /\ ~g_input_data.seen
          <6>1. ComingIsCurrent(hm)'
            BY <4>1, <5>3 DEF ComingIsCurrent
          <6>2. Waited' = Waited + 1
            <7>1. sent \in Nat
              BY DEF FeedTypeOK, ModbusTypeOK
            <7> QED BY <1>0, <4>1, <5>1, <5>3, <7>1 DEF Waited
          <6> QED BY <1>0, <2>2, <2>3, <2>4, <3>3, <3>4, <5>1, <6>1, <6>2
        <5>4. rpc # "silent"
          BY <2>2 DEF ZeroFeedInv
        <5> QED BY <5>1, <5>2, <5>3, <5>4 DEF BusInTime
      <4>4. now' = now \/ Tick
        BY <3>6, NextIs, HomingLeaves, MotionLeaves
        DEF WorldActs, DriveFallsSilent, FallsSilent, AxisMoves, AxisStops, vars, modbusVars,
            posVars
      <4> QED BY <4>2, <4>3, <4>4
    <3> QED BY <3>5, <3>6
  <2> QED BY <2>6, <2>7
<1> QED BY <1>1, <1>2

(* Homing keeps the axes it has waited for apart from the one it waits for. *)
LEMMA AwaitedStep ==
  ASSUME DelayOutlasts, FeedTypeOK, ZeroFeedInv, [Next]_vars
  PROVE  \A m \in Awaited' : /\ m \in stopped
                             /\ StoredIsCurrent(m) /\ ComingIsCurrent(m)
<1>0. /\ zeroed \subseteq stopped /\ (hpc # "event" => hm \in stopped)
      /\ \A m \in Awaited : StoredIsCurrent(m) /\ ComingIsCurrent(m)
      /\ hm \in Motors /\ retry \in Nat
  BY DEF ZeroFeedInv, ZeroIsRight, FeedTypeOK
<1>1. Awaited \subseteq stopped
  BY <1>0 DEF Awaited
<1>2. CASE UNCHANGED homingVars
  BY <1>0, <1>1, <1>2 DEF Awaited, homingVars
<1>3. CASE Homing
  <2>1. CASE \E m \in Motors : HomingTakesEvent(m)
    <3>1. Awaited' \subseteq Awaited
      BY <2>1 DEF HomingTakesEvent, HomingSleeps, Awaited
    <3> QED BY <1>0, <1>1, <3>1
  <2>2. CASE HomingWakes
    <3>1. hpc = "sleep" /\ now >= wake /\ Awaited' \subseteq zeroed \cup {hm}
          /\ zeroed \subseteq Awaited
      BY <2>2 DEF HomingWakes, Awaited
    <3>2. CASE retry > 0
      BY <1>0, <1>1, <3>1, <3>2 DEF Awaited
    <3>3. CASE retry = 0
      <4>1. /\ EventAt \in 0 .. now
            /\ EventAt < now => ComingIsCurrent(hm)
            /\ StoredIsCurrent(hm) \/ now - EventAt <= Asked(hm) * ANSWER_TIME + Waited
        BY <3>1, <3>3 DEF ZeroFeedInv, SleepIsRight
      <4>2. Asked(hm) * ANSWER_TIME + Waited < HOMING_ZERO_CAPTURE_DELAY
        BY <1>0, AskedBound
      <4>3. now - EventAt >= HOMING_ZERO_CAPTURE_DELAY /\ EventAt < now
        BY <3>1, FeedAssumption DEF EventAt, FeedTypeOK, PosTypeOK
      <4>4. Asked(hm) * ANSWER_TIME + Waited \in Int /\ now - EventAt \in Int
            /\ HOMING_ZERO_CAPTURE_DELAY \in Nat
        <5>1. Asked(hm) \in Nat /\ ANSWER_TIME \in Nat
          BY <1>0, AskedIs, ModbusAssumption
        <5>2. Waited \in Nat
          BY <5>1 DEF Waited, ZeroFeedInv
        <5>3. Asked(hm) * ANSWER_TIME \in Int
          BY <5>1, ProductInt
        <5> QED BY <4>1, <5>2, <5>3, Constants DEF FeedTypeOK, PosTypeOK
      <4>5. StoredIsCurrent(hm) /\ ComingIsCurrent(hm)
        BY <4>1, <4>2, <4>3, <4>4
      <4> QED BY <1>0, <1>1, <3>1, <4>5
    <3> QED BY <1>0, <3>2, <3>3
  <2>3. CASE HomingChecksAge \/ HomingWritesZero
    <3>1. Awaited' \subseteq Awaited
      BY <2>3 DEF HomingChecksAge, HomingWritesZero, HomingSleeps, Awaited
    <3> QED BY <1>0, <1>1, <3>1
  <2>4. CASE HomingReadsPosition \/ HomingSetsCaptured
    <3>1. hpc \in {"read", "flag"} /\ Awaited = zeroed \cup {hm}
      BY <2>4 DEF HomingReadsPosition, HomingSetsCaptured, Awaited
    <3>2. Awaited' \subseteq zeroed \cup {hm}
      BY <2>4 DEF HomingReadsPosition, HomingSetsCaptured, AxisDone, Awaited
    <3> QED BY <1>0, <1>1, <3>1, <3>2
  <2> QED BY <1>3, <2>1, <2>2, <2>3, <2>4 DEF Homing
<1> QED BY <1>2, <1>3, NextIs, ModbusLeaves, MotionLeaves, WorldLeaves

LEMMA ZeroedStep ==
  ASSUME FeedTypeOK, ZeroFeedInv, [Next]_vars
  PROVE  zeroed' \subseteq stopped'
<1>1. \A m \in stopped : m \in stopped'
  BY StopsForGood
<1>2. zeroed \subseteq stopped /\ (hpc # "event" => hm \in stopped)
  BY DEF ZeroFeedInv, ZeroIsRight
<1>3. CASE UNCHANGED zeroed
  BY <1>1, <1>2, <1>3
<1>4. CASE Homing
  <2>1. UNCHANGED zeroed \/ (hpc # "event" /\ zeroed' = zeroed \cup {hm})
    BY <1>4 DEF Homing, HomingTakesEvent, HomingWakes, HomingChecksAge, HomingReadsPosition,
                HomingWritesZero, HomingSetsCaptured, AxisDone
  <2> QED BY <1>1, <1>2, <2>1
<1> QED BY <1>3, <1>4, NextIs, ModbusLeaves, MotionLeaves, WorldLeaves DEF homingVars

LEMMA ZeroStep ==
  ASSUME FeedTypeOK, ZeroFeedInv, [Next]_vars
  PROVE  ZeroIsRight'
<1>0. /\ zeroed \subseteq stopped /\ (hpc # "event" => hm \in stopped \ zeroed)
      /\ \A m \in Motors : g_zero_captured[m] => m \in zeroed
      /\ \A m \in zeroed : g_zero_captured[m] => g_zero_pulse[m] = PulsesAt(m) + MARGIN_PULSES
      /\ hpc = "zero" => read = RegistersAt(where[hm])
      /\ hpc = "flag" => g_zero_pulse[hm] = PulsesAt(hm) + MARGIN_PULSES
      /\ \A m \in HOMED : error[m] \in {0, MARGIN_PULSES}
      /\ hm \in Motors /\ stopped \subseteq Motors /\ HOMED \subseteq Motors
  BY FeedAssumption DEF ZeroFeedInv, ZeroIsRight, FeedTypeOK
<1>1. \A m \in stopped : /\ m \in stopped' /\ where'[m] = where[m]
                         /\ PulsesAt(m)' = PulsesAt(m)
  BY StopsForGood
<1>2. CASE UNCHANGED <<zeroVars, homingVars, error>>
  BY <1>0, <1>1, <1>2 DEF ZeroIsRight, zeroVars, homingVars, PulsesAt
<1>3. CASE Motion
  <2>1. UNCHANGED <<zeroVars, homingVars>>
    BY <1>3, MotionLeaves
  <2>2. CASE UNCHANGED error
    BY <1>2, <2>1, <2>2
  <2>3. CASE MotionGetsPulses /\ g_state[mm].valid /\ g_zero_captured[mm]
    <3>1. mm \in Motors /\ error \in [Motors -> Int]
      BY DEF FeedTypeOK
    <3>2. mm \in zeroed /\ g_zero_pulse[mm] = PulsesAt(mm) + MARGIN_PULSES
      BY <1>0, <2>3, <3>1
    <3>3. g_state[mm].regs = RegistersAt(where[mm])
      BY <2>3, <3>2 DEF ZeroFeedInv, Awaited, StoredIsCurrent
    <3>4. error' = [error EXCEPT ![mm] = MARGIN_PULSES]
      BY <2>3, <3>1, <3>2, <3>3, ZeroAndError DEF MotionGetsPulses
    <3>5. \A m \in HOMED : error'[m] \in {0, MARGIN_PULSES}
      BY <1>0, <3>1, <3>4
    <3> QED BY <1>0, <1>1, <2>1, <3>5 DEF ZeroIsRight, zeroVars, homingVars, PulsesAt
  <2>4. UNCHANGED error \/ (MotionGetsPulses /\ g_state[mm].valid /\ g_zero_captured[mm])
    BY <1>3 DEF Motion, MotionTakesToken, MotionPops, MotionFindsNone, MotionChecksState,
                MotionReadsTick, MotionGetsPulses, MotionPrinted, MotionIdles
  <2> QED BY <2>2, <2>3, <2>4
<1>4. CASE Homing
  <2>0. UNCHANGED <<error, where, stopped, g_state>> /\ \A m \in Motors : PulsesAt(m)' = PulsesAt(m)
    BY <1>4, HomingLeaves DEF motionVars, PulsesAt
  <2>1. CASE \E m \in Motors : HomingTakesEvent(m)
    BY <1>0, <2>0, <2>1
    DEF HomingTakesEvent, HomingSleeps, modbusVars, posVars, zeroVars, ZeroIsRight, PulsesAt
  <2>2. CASE HomingWakes \/ HomingChecksAge
    <3>1. UNCHANGED <<zeroVars, hm, zeroed>> /\ hpc # "event" /\ hpc' \in {"fresh", "sleep", "read"}
      BY <2>2 DEF HomingWakes, HomingChecksAge, HomingSleeps, modbusVars, posVars
    <3> QED BY <1>0, <2>0, <3>1 DEF zeroVars, ZeroIsRight, PulsesAt
  <2>3. CASE HomingReadsPosition
    <3>1. UNCHANGED zeroVars /\ hpc = "read"
      BY <2>3 DEF HomingReadsPosition, modbusVars, posVars
    <3>2. CASE g_state[hm].valid
      <4>1. g_state[hm].regs = RegistersAt(where[hm])
        BY <3>1, <3>2 DEF ZeroFeedInv, Awaited, StoredIsCurrent
      <4>2. read' = RegistersAt(where'[hm']) /\ hpc' = "zero" /\ UNCHANGED <<hm, zeroed>>
        BY <2>0, <2>3, <3>2, <4>1 DEF HomingReadsPosition
      <4> QED BY <1>0, <2>0, <3>1, <4>2 DEF zeroVars, ZeroIsRight, PulsesAt
    <3>3. CASE ~g_state[hm].valid
      <4>1. hpc' = "event" /\ zeroed' = zeroed \cup {hm} /\ ~g_zero_captured[hm]
        BY <1>0, <2>3, <3>1, <3>3 DEF HomingReadsPosition, AxisDone
      <4> QED BY <1>0, <2>0, <3>1, <4>1 DEF zeroVars, ZeroIsRight, PulsesAt
    <3> QED BY <3>2, <3>3
  <2>4. CASE HomingWritesZero
    <3>1. g_zero_pulse \in [Motors -> Int]
      BY DEF FeedTypeOK, PosTypeOK
    <3>2. /\ hpc = "zero" /\ hpc' = "flag" /\ UNCHANGED <<hm, zeroed, g_zero_captured>>
          /\ g_zero_pulse' = [g_zero_pulse EXCEPT ![hm] = PulsesAt(hm) + MARGIN_PULSES]
      BY <1>0, <2>4, ZeroAndError DEF HomingWritesZero, WriteZero
    <3>3. /\ g_zero_pulse'[hm] = PulsesAt(hm) + MARGIN_PULSES
          /\ \A m \in zeroed : g_zero_pulse'[m] = g_zero_pulse[m]
      BY <1>0, <3>1, <3>2
    <3> QED BY <1>0, <2>0, <3>2, <3>3 DEF ZeroIsRight, PulsesAt
  <2>5. CASE HomingSetsCaptured
    <3>1. g_zero_captured \in [Motors -> BOOLEAN]
      BY DEF FeedTypeOK, PosTypeOK
    <3>2. /\ hpc = "flag" /\ hpc' = "event" /\ zeroed' = zeroed \cup {hm}
          /\ g_zero_pulse' = g_zero_pulse
          /\ g_zero_captured' = [g_zero_captured EXCEPT ![hm] = TRUE]
      BY <2>5 DEF HomingSetsCaptured, SetCaptured, AxisDone
    <3>3. \A m \in Motors : m # hm => g_zero_captured'[m] = g_zero_captured[m]
      BY <3>1, <3>2
    <3> QED BY <1>0, <2>0, <3>2, <3>3 DEF ZeroIsRight, PulsesAt
  <2> QED BY <1>4, <2>1, <2>2, <2>3, <2>4, <2>5 DEF Homing
<1> QED BY <1>2, <1>3, <1>4, NextIs, ModbusLeaves, WorldLeaves DEF motionVars

(* With a delay in which every drive is sure to answer, and no drive silent  *)
(* while homing goes on, all that homing has waited for is read at the limit. *)
THEOREM ZeroFeedInvariant ==
  ~SILENT_HOMING /\ DelayOutlasts => (Spec => []ZeroFeedInv)
<1> SUFFICES ASSUME ~SILENT_HOMING, DelayOutlasts PROVE Spec => []ZeroFeedInv
  OBVIOUS
<1>1. FeedTypeOK /\ ZeroFeedInv /\ [Next]_vars => ZeroFeedInv'
  <2> SUFFICES ASSUME FeedTypeOK, ZeroFeedInv, [Next]_vars PROVE ZeroFeedInv'
    OBVIOUS
  <2>1. PhasesAreRight'
    BY PhasesStep DEF ZeroFeedInv
  <2>2. ASSUME NEW m \in Awaited' PROVE StoredIsCurrent(m)' /\ ComingIsCurrent(m)'
    <3>1. m \in stopped /\ StoredIsCurrent(m) /\ ComingIsCurrent(m)
      BY <2>2, AwaitedStep
    <3> QED BY <3>1, StoredStays, ComingStays
  <2> QED BY <2>1, <2>2, RequestStep, SleepStep, ZeroedStep, ZeroStep DEF ZeroFeedInv
<1> QED BY <1>1, ZeroFeedInvInit, FeedTypes, PTL DEF Spec

(* The zero of an axis is the place it has stopped at, from a reading made   *)
(* after it stopped, and the motion task finds the margin as its error.     *)
THEOREM ZeroAlwaysCurrent ==
  ~SILENT_HOMING /\ DelayOutlasts => (Spec => []ZeroIsCurrent)
<1>1. FeedTypeOK /\ ZeroFeedInv => ZeroIsCurrent
  BY FeedAssumption DEF ZeroFeedInv, ZeroIsRight, ZeroIsCurrent
<1> QED BY <1>1, FeedTypes, ZeroFeedInvariant, PTL

(* The two hold together: no update is missed for good, and no zero comes   *)
(* from an earlier reading.                                                 *)
THEOREM ReadingInvariant ==
  ~OVERLOAD /\ RingOutlasts /\ ~SILENT_HOMING /\ DelayOutlasts =>
    (Spec => []ReadingInv)
<1>1. FeedInv /\ ZeroFeedInv => ReadingInv
  BY DEF ReadingInv
<1> QED BY <1>1, FeedInvariant, ZeroFeedInvariant, PTL

=============================================================================
