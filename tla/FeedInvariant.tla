--------------------------- MODULE FeedInvariant ---------------------------
(* Why the motion task works on every reading, and why the zero of an axis  *)
(* is taken from a reading made at its limit.                               *)
EXTENDS PositionFeed, FiniteSets

(* While the console holds up the motion task, the ring takes what the other *)
(* drives answer until a drive that has missed some requests answers again.  *)
RingOutlasts == (MOTOR_POS_COUNT - 1) * (MAX_MISSES + 1) < MOTOR_UPDATE_QUEUE_SIZE - 1

(* Within the delay every drive answers at least once. *)
DelayOutlasts == MOTOR_POS_COUNT * (MAX_MISSES + 1) * ANSWER_TIME < HOMING_ZERO_CAPTURE_DELAY

----------------------------------------------------------------------------
(* The drives are asked in turn; this one is the next, or is being asked.   *)
AskedNext ==
  IF rpc # "post" THEN ri ELSE IF ri = MOTOR_POS_COUNT - 1 THEN 0 ELSE ri + 1

(* How many drives come before m. *)
Before(m) == IF m >= AskedNext THEN m - AskedNext ELSE m + MOTOR_POS_COUNT - AskedNext

UpdatesOf(m, ring) == {p \in 1 .. Len(ring) : ring[p] = m}

InRing(m) == UpdatesOf(m, g_motor_update_queue) # {}

InWork(m) == mm = m /\ mpc \in {"state", "tick", "pulses"}

(* Homing ends once, and the readings of RUNNING come after it. *)
PhasesAreRight ==
  /\ stopped \subseteq HOMED
  /\ running => hpc = "event" /\ zeroed = HOMED
  /\ ~running => due = {}
  /\ \A m \in Motors : misses[m] <= MAX_MISSES

DueIsTracked ==
  \A m \in due :
    g_last_pos_tick[m] = g_state[m].last_update_tick \/ InRing(m) \/ InWork(m)

(* A motion task that has caught up works on each update as it comes. *)
KeepsUp ==
  ~behind =>
    /\ mpc # "print"
    /\ Len(g_motor_update_queue) <= 1
    /\ mpc \in {"state", "tick", "pulses"} => g_motor_update_queue = <<>>

(* While the motion task prints, an axis whose last reading is not in the   *)
(* ring has missed a request in each round the others have answered.        *)
FillsEvenly ==
  mpc = "print" =>
    \A m \in Motors :
      ~InRing(m) =>
        \A k \in Motors \ {m} :
          Cardinality(UpdatesOf(k, g_motor_update_queue))
            <= misses[m] + (IF Before(m) < Before(k) THEN 1 ELSE 0)

FeedInv == PhasesAreRight /\ DueIsTracked /\ KeepsUp /\ FillsEvenly

----------------------------------------------------------------------------
(* What is stored of m, and what is on its way, is where it stands. *)
StoredIsCurrent(m) == g_state[m].valid => g_state[m].regs = RegistersAt(where[m])

ComingIsCurrent(m) ==
  rpc = "wait" /\ g_input_data.seen /\ ri = m => g_input_data.regs = RegistersAt(where[m])

(* The drives that have been asked since the last time m answered. *)
Asked(m) == misses[m] * MOTOR_POS_COUNT + (MOTOR_POS_COUNT - 1 - Before(m))

Waited == IF rpc = "wait" THEN now - sent ELSE 0

(* Homing sleeps after the event of hm, which stands on its limit: until it *)
(* is read again, no more time has passed than its misses account for.      *)
EventAt == wake - HOMING_ZERO_CAPTURE_DELAY

SleepIsRight ==
  hpc = "sleep" /\ retry = 0 =>
    /\ EventAt \in 0 .. now
    /\ EventAt < now => ComingIsCurrent(hm)
    /\ StoredIsCurrent(hm) \/ now - EventAt <= Asked(hm) * ANSWER_TIME + Waited

(* The axes homing has waited for. *)
Awaited ==
  zeroed \cup
    (IF hpc \notin {"event", "sleep"} \/ (hpc = "sleep" /\ retry > 0) THEN {hm} ELSE {})

ZeroIsRight ==
  /\ \A m \in Motors : g_zero_captured[m] => m \in zeroed
  /\ \A m \in zeroed :
       g_zero_captured[m] => g_zero_pulse[m] = PulsesAt(m) + MARGIN_PULSES
  /\ hpc # "event" => hm \in stopped \ zeroed
  /\ hpc = "zero" => read = RegistersAt(where[hm])
  /\ hpc = "flag" => g_zero_pulse[hm] = PulsesAt(hm) + MARGIN_PULSES
  /\ \A m \in HOMED : error[m] \in {0, MARGIN_PULSES}

ZeroFeedInv ==
  /\ PhasesAreRight
  /\ rpc = "silent" => running
  /\ rpc \in {"start", "create", "failed"} => \A m \in Motors : ~g_state[m].valid
  /\ rpc = "wait" => now - sent \in 0 .. ANSWER_TIME
  /\ SleepIsRight
  /\ zeroed \subseteq stopped
  /\ \A m \in Awaited : StoredIsCurrent(m) /\ ComingIsCurrent(m)
  /\ ZeroIsRight

(* Both: no update is missed for good, no zero is from an earlier reading. *)
ReadingInv == FeedInv /\ ZeroFeedInv

=============================================================================
