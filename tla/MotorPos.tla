------------------------------ MODULE MotorPos ------------------------------
(* motor_pos.c: the last reading of each encoder with its time, the zero of  *)
(* each axis, and the ring and semaphore that tell the motion task which    *)
(* axis has a new reading.  An operation that holds g_lock is one step.     *)
EXTENDS MotionArithmetic, Sequences

CONSTANTS
  MOTOR_POS_COUNT,
  MOTOR_UPDATE_QUEUE_SIZE,
  SEM_VALUE_MAX,          \* of NuttX: a post beyond it fails
  MAX_TICK                \* a bound of the clock, but for waits under way

ASSUME MotorPosAssumption ==
  /\ MOTOR_POS_COUNT \in Nat \ {0}
  /\ MOTOR_UPDATE_QUEUE_SIZE \in Nat \ {0, 1}
  /\ SEM_VALUE_MAX \in Nat /\ SEM_VALUE_MAX >= MOTOR_UPDATE_QUEUE_SIZE - 1
  /\ MAX_TICK \in Nat \ {0}

VARIABLES
  now,                                  \* clock_systime_ticks()
  g_state,
  g_zero_pulse, g_zero_captured,
  g_motor_update_queue,                 \* from g_motor_update_tail to .._head
  g_data_sem

zeroVars == <<g_zero_pulse, g_zero_captured>>
posVars == <<now, g_state, zeroVars, g_motor_update_queue, g_data_sem>>

Motors == 0 .. MOTOR_POS_COUNT - 1

PosTypeOK ==
  /\ now \in Nat
  /\ g_state \in [Motors -> [regs : Registers, valid : BOOLEAN,
                             last_update_tick : Nat]]
  /\ g_zero_pulse \in [Motors -> Int]
  /\ g_zero_captured \in [Motors -> BOOLEAN]
  /\ g_motor_update_queue \in Seq(Motors)
  /\ Len(g_motor_update_queue) < MOTOR_UPDATE_QUEUE_SIZE
  /\ g_data_sem \in 0 .. SEM_VALUE_MAX

(* motor_pos_init(), with the clock at its first tick. *)
PosInit ==
  /\ now = 1
  /\ g_state = [m \in Motors |->
                  [regs |-> NoRegisters, valid |-> FALSE, last_update_tick |-> 0]]
  /\ g_zero_pulse = [m \in Motors |-> 0]
  /\ g_zero_captured = [m \in Motors |-> FALSE]
  /\ g_motor_update_queue = <<>>
  /\ g_data_sem = 0

----------------------------------------------------------------------------
(* The ring keeps one slot free. *)
RingFull == Len(g_motor_update_queue) = MOTOR_UPDATE_QUEUE_SIZE - 1
RingEmpty == g_motor_update_queue = <<>>

\* Mutant: without the test for a full ring the head catches up with the
\* tail, which makes the ring look empty.
Push_NoFullTest(m) ==
  g_motor_update_queue' = IF RingFull THEN <<>> ELSE Append(g_motor_update_queue, m)

Push(m) ==
  g_motor_update_queue' = IF RingFull THEN g_motor_update_queue
                                      ELSE Append(g_motor_update_queue, m)

\* Mutant: the semaphore is used as a flag.
PostUpdate_Flag ==
  /\ g_data_sem' = 1
  /\ UNCHANGED <<now, g_state, zeroVars, g_motor_update_queue>>

(* motor_pos_update() under the lock; its sem_post() comes after. *)
Update(m, regs) ==
  /\ g_state' = [g_state EXCEPT ![m] =
                   [regs |-> regs, valid |-> TRUE, last_update_tick |-> now]]
  /\ Push(m)
  /\ UNCHANGED <<now, zeroVars, g_data_sem>>

PostUpdate ==
  /\ g_data_sem' = IF g_data_sem < SEM_VALUE_MAX THEN g_data_sem + 1
                                                 ELSE g_data_sem
  /\ UNCHANGED <<now, g_state, zeroVars, g_motor_update_queue>>

(* motor_pos_wait_update_id(): the token, then under the lock the oldest    *)
(* update; an empty ring gives -EAGAIN.                                     *)
TakeToken ==
  /\ g_data_sem > 0
  /\ g_data_sem' = g_data_sem - 1
  /\ UNCHANGED <<now, g_state, zeroVars, g_motor_update_queue>>

PopUpdate ==
  /\ ~RingEmpty
  /\ g_motor_update_queue' = Tail(g_motor_update_queue)
  /\ UNCHANGED <<now, g_state, zeroVars, g_data_sem>>

IsFresh(m, max_age) ==
  g_state[m].valid /\ now - g_state[m].last_update_tick < max_age

(* motor_pos_capture_zero() reads under the lock and writes without it. *)
WriteZero(m, regs) ==
  /\ g_zero_pulse' = [g_zero_pulse EXCEPT ![m] = ZeroFrom(regs)]
  /\ UNCHANGED <<now, g_state, g_zero_captured, g_motor_update_queue,
                 g_data_sem>>

SetCaptured(m) ==
  /\ g_zero_captured' = [g_zero_captured EXCEPT ![m] = TRUE]
  /\ UNCHANGED <<now, g_state, g_zero_pulse, g_motor_update_queue,
                 g_data_sem>>

=============================================================================
