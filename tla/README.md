# A verification model of the Stewart platform controller

The program runs on NuttX on an STM32F411 and drives the three AC servo axes of
a Stewart platform: it homes them against their lower limit switches and then
follows setpoints measured from PWM inputs, with the axis positions read over
Modbus. Buttons start, stop, restart and emergency-stop it. This directory holds
TLA+ models of it, the configurations that check them with TLC, and theorems
about them checked with TLAPS. Paths below are relative to the repository root;
the board sources are in `boards/stm32f411e-disco/src/`.

## 1. The system

| Component | State | Operations | Speaks to |
|---|---|---|---|
| Operating state, `common/system_state` | `state`, `limit_reached[]`, `homed[]`, one mutex | button and fault events, homing progress, completion | called by safety, homing and motion task |
| Safety task, `common/safety_task`, priority 200 | none of its own | take a button event, let `system_state` decide, then hard-stop or spawn homing; `safety_is_motor_allowed()` for others | buttons, step devices, homing task |
| Homing task, `common/homing_task`, priority 100, one per RESTART | `i`, `need_event_count`, per-run | steps 0 to 4: find who is on the switch, send HOME, wait for events, lift, report | limit ring, step devices, motor position, `system_state` |
| Motion task, `common/motion_task`, priority 150 | last error per axis | for each new reading: compare with the setpoint, MOVE or SON off | motor position, PWM capture, step devices |
| Motor position, `common/motor_pos` | per axis reading, age, zero; ring of updates | update, capture zero, pulses to a target | written by Modbus, read by motion and homing |
| Modbus task, `common/modbus_task`, priorities 100 and 80 | the axis being polled | poll the drives in turn, callback with the registers | motor position |
| Limit switches, `stm32_sensorbtn.c` | debounce per line, `g_limit[]`, ring of 8 and semaphore | interrupt, watchdog, `limit_worker()`, flush, timed wait | step driver, homing task, safety task |
| Buttons, same file | lockout ticks, RESTART watchdog, ring of 8 and semaphore | three interrupts, `restart_worker()`, wait | safety task |
| Step driver, `stm32_steppulse.c` | per channel mode, busy, direction, SON, limit flags, counters; TIM3 and its slaves | MOVE, HOME, STATUS, ESTOP, SON_OFF, limit notification, slave interrupt | everything that moves an axis |
| PWM capture, `stm32_pwmcapture.c` | last edges and period per channel | interrupt, GET, RESET | motion task |
| Bring-up, `stm32_bringup.c`, `stewart_main.c` | none | start the above in order | - |

What is hard in it: the tasks share the driver and the state with no lock around
"check, then command"; events travel through rings whose semaphore and indices
are not updated together; interrupts and a work queue act between any two steps
of a task; EMERGENCY may come at any point of homing, and RESTART at any point
after it; three axes share one timer; counts sit at the edge of 16 bits. What
makes the components correct, in a sentence each:

* state: the machine runs only if every axis was homed since the last RESTART;
* safety task: after STOP or EMERGENCY no axis moves or is powered;
* homing: it ends, at rest, with every axis zeroed on its switch, or it is aborted;
* limit events: none is lost or made up, flags follow the switches;
* buttons: presses are handled once and in order, and an EMERGENCY always;
* step driver: a move puts out the pulses it was asked for, at the speed it was asked
  for, and stops at a switch (where the code falls short of this is in section 3);
* motion: it commands only when homing does not;
* motor position and Modbus: the zero of an axis is taken from a reading made at
  its limit, and no reading is left lying while the motion task waits;
* PWM capture: the width is that of a real pulse, and a lost signal shows.

`PROJECT.json` lists the hazards at their lines, each with the properties that
are for it, and maps every definition to the lines it stands for.

## 2. The modules

| Module | Models | Extends |
|---|---|---|
| `SystemState` | `system_state.c`; each operation is one step because it holds the mutex | - |
| `StepDriver` | the driver as its callers see it | `SystemState` |
| `LimitEvents` | limit half of `stm32_sensorbtn.c` | `StepDriver` |
| `HomingCycle` | safety task, homing tasks, axes; the composition with its Next | `LimitEvents` |
| `MotionControl` | the motion task, composed with all of `HomingCycle` | `HomingCycle` |
| `PulseCount` | inside of the step driver: TIM3, slave counters, `step_apply_move()` | - |
| `ButtonEvents` | button half of `stm32_sensorbtn.c`, the loop of the safety task | `SystemState` |
| `MotionArithmetic` | formulas of `motor_pos.c` and `motion_task.c`: position from registers, target from a pulse width, error, frequency | - |
| `MotorPos` | `motor_pos.c`: readings with their ticks, zeros, ring of updates and semaphore | `MotionArithmetic` |
| `ModbusPolling` | `modbus_task.c`: start, request thread, input callback, requests that fail | `MotorPos` |
| `PositionFeed` | the way of a reading, in ticks: Modbus, homing step 2 to the zero, motion task to the error; the composition | `ModbusPolling` |
| `PwmCapture` | `stm32_pwmcapture.c`: TIM1, the interrupt handler, both ioctls, the signals | - |
| `OperatingModes` | abstract: the state diagram of `system_state.h` with its promise | - |
| `PressQueue` | abstract: a FIFO queue of accepted presses | - |
| `HomingInvariant` | the inductive invariants of homing, of late commands and of the encoder zeros | `HomingCycle` |
| `AxisInvariant` | the inductive invariants of axes and limit events, of the worker's cut, of the standstill and of the limit flags | `HomingInvariant` |
| `FeedInvariant` | the inductive invariants of the updates and of the wait for the zero | `PositionFeed` |
| `MCHomingCycle` | for TLC: symmetry of the homing tasks | `AxisInvariant` |
| `HomingCycle_proofs`, `HomingInvariant_proofs`, `AxisInvariant_proofs`, `MotionControl_proofs`, `PulseCount_proofs`, `ButtonEvents_proofs`, `PwmCapture_proofs` | theorems | the modules they are named after |
| `PositionFeed_proofs` | theorems about `PositionFeed`, `FeedInvariant` and the formulas of `MotionArithmetic` | `FeedInvariant` |

**Steps.** Each thread has a program counter and takes one step per access to
shared state; any interleaving is allowed. Priorities only remove
interleavings, and prints, mutexes and flash waits make most of them possible on
one core. One operation relies on a priority: the stop of all channels by
STEPIOC_ESTOP is one step because the safety task outranks every task that commands
an axis. The limit worker runs in the low-priority work queue, so its cut of a
channel is four steps (`CutStage`). The homing task makes the same call for an axis
that does not move, in one step. Critical sections are one step
where nothing outside can see the middle (`ApplyMove`), and several where a timer
runs on (`PulseCount`). `motor_pos_update()` is two steps, because its `sem_post()`
comes after the lock, and `motor_pos_capture_zero()` three, because it writes the
zero and the flag without the lock. In `PwmCapture` every access of the handler to SR
is a step: a read-modify-write of it is `IsrReadsFlags` and `IsrWritesFlags`.

**Variables.** They carry the names of the C variables where there is one. `hpc[t]` is
where homing task t is: the digit at the end of a value is the step of
`homing_task_main()`, so `wait2` is the wait for events. `hi`, `need` and `hm` are
its `i`, `need_event_count` and `motor_id`. `spc` and `sdev` are the safety task and
the device its hard stop has reached; `mpc` the motion task. `pos` is where an axis
is: on the lower switch, between, on the upper one. In `ButtonEvents`, `alarm` and
in `PulseCount`, `target`, `put_out`, `disturbed` and `starved` (a period ended within
the axis' own command; another axis' command made the period shorter than its compare
value) are history for the properties, as are `missed` (the lockout has dropped an edge of the contact), `due` in
`PositionFeed` (axes with a reading motion has not worked on) and `rises` and `last_pulse`
in `PwmCapture`. In `PositionFeed` `rpc`, `hpc` and `mpc` are where the request
thread, the homing task and the motion task are; `where`, `stopped` and `misses` are
the drives.

**Actions.** One per operation or handler step; e.g. `HomingReads` is one reading
of `motorlimit_read_hw_debounced()`, `HomingNotifiesDriver`, `HomingFindsAtLimit` and
`HomingCapturesAtStart` the three calls for an axis found on its switch,
`HomingAsksHome` and `HomingSendsHome` the two halves of `send_home()`. The
operators ending in `_Something` and marked "Mutant" are variants of their
neighbours with a plausible bug, none used by a specification: they are what each
property was tested against.

**Abstractions.** In `HomingCycle` positions are down/mid/up, so distances, speeds and
the waiting for fresh readings (which changes nothing) are gone; a limit line is
"settling" from its edge to its worker, which covers re-armed watchdogs; the error a
motion cycle finds is any of none, small, up, down. In `ButtonEvents` the end of
homing comes when it likes. The ring of `motor_pos.c` is a sequence with the length
test of the code, whose head and tail move under one lock (the rings of
`stm32_sensorbtn.c`, whose consumers do not look, keep their indices).
`PulseCount` has no phase
within a period: a period with the channel on is a pulse, also the first one, which on the
machine may have begun before the channel was switched on.
`MotionArithmetic` computes on integers: the rounding of `float` to 24 bits is left
out (exact up to 2^24 pulses, 1677 turns of a motor, which no axis makes), and angles are counted in motor pulses. In `PositionFeed` a tick is 25 ms (6
ticks are the 150 ms before the zero is taken, 8 the 200 ms of age, 2 and 5 the
retries), and one axis is homed while the other drive only fills the ring. In
`PwmCapture` a unit of time is such that pulse, period, timeout and counter wrap keep
their order. Handlers nothing calls (`safety_report_fault()`, `motorlimit_waitevent()`
and its like, the tests in `stewart_main.c`) are not actions; the state FAULT is there
and never entered.

**Assumptions about what is not code.** A slave counter counts every TIM3 period; with
ARR 0 it stands still; a new ARR counts at once; an interrupt is served before the
next TIM3 period ends and before the next critical section begins, and one that falls
in a critical section waits for its end; a critical section is shorter than a period
(`MayTick`, `CallBegins`). TIM1 latches an edge of the polarity it looks for, and the
handler comes before the next edge of the same channel. The motion task (priority 150)
outranks the request thread and the poll thread (100 and 80), which run when it waits
(`MotionBlocked`). The devices of the PWM capture open. An axis turns only when it is
powered and pulsed; without power it may be moved (`MAX_DRIFTS`). In a hard stop at
least one of the step devices opens. `ORDERLY_RESTART` is the operator's discipline to
press RESTART only when no homing task is left, nothing moves and no switch is
settling (and the motion task waits). It is a constant: theorems assume it explicitly,
and `homing_overlap` shows what happens without.

## 3. The runs

| Run | Module, configuration | Shows |
|---|---|---|
| `homing` | `MCHomingCycle`, `Homing.cfg` | `ReadyIsQuiet`, `ZeroTakenAtLimit`, `PulsesAreMoves`, `TokensMatchRing`; `HomingEnds`, `AbortedTaskEnds`; the inductive invariants `AxisInv`, `CutInv`, `QuietInv`, `FlagsInv` as `AxesInv` |
| `homing_faults` | `HomingFaults.cfg` | with failing devices and task creation, stray and lost limit events: refinement of `OperatingModes`; `ReadyIsHomed`, `ReadyHasZero`, `LateCommandIsSingle` and the inductive invariants `HomingInv`, `LateInv`, `ZeroInv` |
| `motion` | `MotionControl`, `Motion.cfg` | `OneCommander`, `FlagsFollowSwitches`, `PushEnds` |
| `pulses` | `PulseCount`, `Pulses.cfg` | `NeverOvershoots`, `EndsInFull`, `MoveEnds` and the inductive invariant `CountInv` |
| `buttons` | `ButtonEvents`, `Buttons.cfg` | refinement of `PressQueue`, `RunsOnlyIfClosed`, `EmergencyStops` and the inductive invariant `ButtonInv` |
| `feed` | `FeedInvariant`, `Feed.cfg` | `TokensCoverRing`, `CaughtUp`, `ZeroIsCurrent`, `ZeroingEnds` and the inductive invariants `FeedInv`, `ZeroFeedInv` as `ReadingInv` |
| `pwm` | `PwmCapture`, `Pwm.cfg` | `WidthIsTrue`, `PeriodIsTrue`, `SignalIsFollowed` and the inductive invariant `CaptureInv` |
| `homing_overlap` | `HomingOverlap.cfg` | violation: two homing tasks after EMERGENCY, RESTART |
| `motion_late` | `MotionLate.cfg` | violation: a MOVE after the hard stop |
| `pulse_target` | `PulseTarget.cfg` | violation of `StopsAtTarget`: a move loaded in one piece puts out one pulse more than its target |
| `zero_stale` | `ZeroStale.cfg` | violation: another drive falls silent and the zero comes from an old reading |
| `pwm_edge_lost` | `PwmEdgeLost.cfg` | violation: clearing one channel's flag loses another channel's edge |

Each passing run checks the type invariant of its module too (`homing_faults` is the
module of `homing`). The five violations are real disagreements between what the
sources say and what they do; `PROJECT.json` quotes both under "findings".

**Bounds and why they do.** `homing*`: two axes are the least for which a loop over
axes can be interrupted in its middle and an event can belong to "the other" axis;
three are not different in kind, and the proofs are for any number. The ring is 4 (3
entries: more than the lower switches of two axes can fill in one cycle without drift)
or 2 (one entry, so that it overflows, in `homing_faults` and `motion`). Drift is one
movement in a behaviour: an axis cut at its switch comes off it and gives an event
that homing has counted already. `motion`: one axis with both switches; the safety
task, worker, homing task and motion task all interleave on it. Outside homing nobody
takes limit tokens, so the semaphore runs to `SEM_VALUE_MAX`, which is 2 there (32767
in NuttX). `pulses`: a full cycle of 3 periods instead of 65536 with the sizes 1, 2
(one piece), 5 (cycle and rest) and 6 (a multiple), two periods of which the shorter
is below the compare value of the longer, and two commands, which is a move that
replaces another in any of its states; with three the run takes eight million states
and shows nothing new. 4, a cycle and a rest of one, gets ARR 0 (see below)
and is left out of `pulses`; `pulse_target` has it. `buttons`: a ring of 3 entries and 3 events outstanding
(`BURST`), all it can hold. `feed`: two drives, the ring of 6 as one of 4 (3 entries,
which fill while the console holds up the motion task); both ring and semaphore reach
their limits. An axis stops at tick 1 at the latest (`LAST_EVENT`), and a wait under
way runs to its end whatever `MAX_TICK` is; of its two places one has a negative low
half, the other an odd half turn and a full turn. The response timeout is 2 ticks and
a drive fails once in a row, so that a round with a failure is shorter than the wait;
in `zero_stale` it is 40 ticks, which is the 1000 ms of the configuration. `pwm`: a
period of 3 units with both pulse widths, a counter that wraps at 7, out of step with
it, and a timeout of 5; one of two channels is lost, returns and is reset at any time.

**Fairness.** Weak fairness of each task and of the limit worker: on this system the
threads above them block between events and their work is finite, so a runnable
task runs. Weak fairness of a driven axis and of the end of a counted move, which
are physical. None for buttons, setpoints, drift or the first reading of an
encoder: nobody has to do these. `PulseCount` has it for timers, interrupts and the
end of a critical section; `ButtonEvents` for the safety task and the post of
`restart_worker()`; `PwmCapture` for the handler, the counter and the edges of a signal
that is present. `PositionFeed` has it weak for the three tasks and strong for
`Tick`: time does not stand still, but a request and its answer, which take part of a tick,
disable it for a moment again and again.

**What limits the passing properties.** `ZeroTakenAtLimit`, `TokensMatchRing` and
`HomingEnds` are shown for restarts at rest and axes that move only under power: an
event carries no level, and a flush is not atomic. `ReadyHasZero` is shown for
encoders that have been read: a failed capture is only logged. `ReadyIsHomed` needs
only the restarts at rest. `PulsesAreMoves` holds while homing commands the axes and
not beside the motion task (below). `LateCommandIsSingle` says at most one axis moves
in ESTOP, not none. That a move ends at its target, whatever
other axes do, is what the driver promises and what `StopsAtTarget` says: it
is false (`pulse_target`). What holds is `EndsInFull`, at least the
target and exactly the target for moves by full cycles, if no period has ended
within the critical section of the move (`disturbed`) and no other axis has made the period
shorter than its compare value (`starved`); and, disturbed or not, `NeverOvershoots`, with the one
excess pulse of a move loaded in one piece (`Excess`); both for sizes without a rest of one
pulse. `ImplementsModes` says nothing of a HOMING
that no task runs.
`RunsOnlyIfClosed` excludes the time after the lockout has dropped an edge.
`ZeroIsCurrent` is shown for drives that answer, or fail at once, while homing goes on
(`SILENT_HOMING`), and `CaughtUp` for a console that lets the motion task catch up
between two delays (`OVERLOAD`): if it does not, a full ring can drop the updates of
the same axis again and again. `WidthIsTrue` is shown for edges that do not meet the
write of a flag (`COLLIDE`). `PushEnds` holds although the driver tests its limit flag
before its critical section, because a counted move ends; and although a MOVE may
preempt the worker's cut, because the cut ends with SON off.

More shows when a configuration is changed:

* `PulseTarget.cfg` with `MoveSizes = {4}` and `Narrow = {0, 1}`: `StopsAtTarget` fails as a rest of
  one pulse gets ARR 0, at which the counter stands still: 65537 pulses on axis 1
  never end (`stm32_steppulse.c:338`). `NeverOvershoots` and `MoveEnds` fail too.
* `PulseTarget.cfg` with `MoveSizes = {5}` and `Narrow = {0, 1}`: `StopsAtTarget` fails as a move
  ends short. Another axis is given a move of more than twice the frequency; the period of
  TIM3 is now below the compare value of the first, which has no more edges while its slave counts
  on (`stm32_steppulse.c:300`, `304`). And even where edges remain, the first axis runs at the
  speed of the other, which `motion_task.c:238` rules out in words ("never faster than this axis
  needs").
* `Homing.cfg` with `FAULTS = TRUE`: `HomingEnds` fails. A failed `task_create()` is only logged
  (`safety_task.c:107`): the state stays HOMING without a task, refuses RESTART, and only EMERGENCY
  leads out.
* `Homing.cfg` with `MAX_DRIFTS = 1`: `HomingEnds` fails, after a small movement of an
  unpowered axis, in two ways. A switch that closes while the homing task flushes leaves an
  entry without a token, and step 2 waits for an event that is there
  (`stm32_sensorbtn.c:459`); or the limit worker's late cut of an axis meets the MOVE that
  lifts it, and step 3 polls a `busy` that nothing clears (`stm32_steppulse.c:491`).
* `Motion.cfg` with INVARIANT `PulsesAreMoves`: fails. A MOVE in the middle of the limit
  worker's cut leaves pulses that nothing ends (`stm32_steppulse.c:491`).
* `Buttons.cfg` with `BTN_QUEUE_SIZE = 3`: `EmergencyStops` (and `ButtonInv`) fails. With one event
  too many RESTART posts without an entry and the tail overtakes the head
  (`stm32_sensorbtn.c:325`).
* `RunsOnlyIfClosed` without `~missed`: fails. A STOP within the lockout of an
  earlier edge is lost (`stm32_sensorbtn.c:221`).

Deadlock is checked in every run.

## 4. The proofs

`TypeCorrect` (module `HomingCycle_proofs`): `Spec => []TypeOK` for every number of axes
and tasks, every ring, with faults, drift and disorderly restarts. `TypeOK` is
inductive; the proof has a lemma for each group of operations (channels, ring,
loops) and one case per action.

`HomingInvariant`, `ReadyHomed`, `OneHomingTask` (module `HomingInvariant_proofs`), under
`ORDERLY_RESTART`. That a ready machine is homed is not inductive: it depends on
`need_event_count` reaching zero exactly when no axis is left. `HomingInv` says that
at each stage `need` is the cardinality of the axes not yet reached (in step 0: of those
below `i`), that the task about to mark an axis holds one not marked yet, and that from step
3 on none is left; that there is one homing task at most; and that while homing goes
on the state is HOMING or ESTOP, so a RESTART cannot reset the progress
below it. The ring does not occur in it: whatever events come, an axis is
counted once. The lemmas on cardinalities (`CountNext`, `AllBelowLast`,
`NoneLeft`) carry the arithmetic, and `Untouched` disposes of every step that does
not write progress.

`ModesImplemented` (module `HomingInvariant_proofs`), under `ORDERLY_RESTART`: the
refinement. Every step of the composition is a step of `OperatingModes` or leaves it
alone; the condition "referenced" of its RUNNING is what `HomingInv` gives when homing
reports, and only a RESTART takes it back.

`LateInvariant`, `LateSingle` (module `HomingInvariant_proofs`), under `ORDERLY_RESTART`.
`LateCommandIsSingle` speaks of the time when the hard stop is over; `LateInv` says what
leads there: from the first device reached on (`Stopped`), nothing is busy as long as a
task is past its last check (`Commanding`), and in ESTOP no task gets there anew
(`NoNewCommand`), so the one command that is under way is the last. It needs
`HomingInv` for there being one task.

`ZeroInvariant`, `ReadyZero` (module `HomingInvariant_proofs`), for `FEEDBACK = Motors`,
the second with `ORDERLY_RESTART`. `ZeroInv` says that an axis marked at its limit has
its zero or belongs to the task that is about to capture it; a ready machine has all axes
marked and, by `HomingInv`, no such task left.

`AxisInvariant`, `ZeroAlwaysAtLimit`, `TokensAlwaysMatch` (module
`AxisInvariant_proofs`), under `ORDERLY_RESTART`, `OnlyPowerMoves` (axes move only under
power, `MAX_DRIFTS = 0`) and `RingHoldsAll` (the ring is longer than the number of lines
on which homing can see an edge; in the code 6 lines and a ring of 8 slots). A limit event names an
axis and carries no level, so whether the zero that follows it is true depends on the
history. `AxisInv` says stage by stage what history there can be. From RESTART to the
first command nothing moves (`StartIsStill`), so the flush, whose two halves are not
atomic, meets no event. While homing drives the axes down (`AwaitsEvents`) each line gives
one edge: a line is settling, in the worker's hand or in the ring, never twice
(`EventsAreRight`), and a reported lower switch belongs to an axis that has arrived and
stands still. So the entries are distinct members of `EdgeLines`, and by counting
(`EdgesFinite`, `RingRoom`) the head never comes round to the tail. Before an
axis is lifted its cut must be over (`LiftIsRight`). Three things bound the theorem: with
a drift an axis can come off its switch again; with a disorderly RESTART the
flush meets events; and a ring that overflows loses them.

`CutInvariant`, `PulsesAlwaysMoves` (same module and conditions): at each of the four
writes of the worker's cut the channel is not pulsing once its output is off, because by
`AxisInv` homing commands no axis whose cut is not over.

`QuietInvariant`, `ReadyQuiet` (same module). `QuietInv`: the axes the homing task has
polled are not busy, those it has cut have no power, and nothing commands them until the state
is reported. It needs `ORDERLY_RESTART` and devices that open (`~FAULTS`; a device that does not
open is skipped by the code), and holds with drifts and any ring. That nothing
*pulses* in the ready state needs `CutInv` as well.

`FlagsInvariant`, `FlagsAlwaysFollow` (same module), under `ORDERLY_RESTART` and
`OnlyPowerMoves`, for any ring and all faults. `FlagsInv` says that the driver's flag and
`g_limit[]` differ from a settled switch only while the worker holds that line and has not
come to the write of the one or the other, and which axes step 0 has told the driver about
although they gave no edge.

`AxesInvariant` states the four invariants together, as the run `homing` checks them, under all of
these conditions; each has a theorem of its own because it needs fewer of them.

`MotionTypes`, `MotionInvariant`, `OneCommanderAlways`, `ReadyHomedInMotion` (module
`MotionControl_proofs`): the motion task writes the driver only, so it keeps
`HomingInv`; and a cycle begins in RUNNING, in which by `HomingInv` no homing task is
left, and none begins while it lasts. `MotionAxisInvariant`, `MotionZeroAtLimit`,
`MotionTokensMatch` and `MotionFlagsFollow` carry the results above over to the composition:
while `AxisInv` says anything a homing task is active, so by `OneCommander` the motion task is
not; and `FlagsInv` does not depend on who moves the axes. (`CutInv` and `PulsesAreMoves` do, and
are false there, see section 3.)

`TypeCorrect`, `CountInvariant`, `NeverTooFar`, `MovesEndInFull` (module
`PulseCount_proofs`), for every counter width, period and number of commands. The
first holds always, the others under `NoSingleRest` (no size leaves a rest of one
pulse, for which the code loads ARR 0). `CountInv` is the argument: pulses put
out, plus the periods until the interrupt that ends the move (`PeriodsLeft`), are the
target and the excess pulse, or less if the count was disturbed or starved. At the interrupt
that ends the move no period is left, so `EndsInFull` follows. The excess pulse is in the
invariant because the code has it (`arr = pulses`), and not because it should be; with
`pulses - 1` the same proof would give the target. The full cycles of a
narrow counter appear in it as a product, which the lemmas on division take apart.

`TypeCorrect`, `QueueImplemented`, `ButtonInvariant`, `RunningIsClosed` (module
`ButtonEvents_proofs`). The last three are for rings longer than what may be
outstanding (`KeepsUp`), whatever their size. The lemmas `ContentPush` and
`ContentPop` turn a ring with two indices into a sequence; by `RingInv` every entry
has its token, so that the ring is never full when an event comes (`NotFull`) and
never empty when one is taken. `ContactInv` follows the last event of the contact
through the ring and the task's hand to the state.

`TypeCorrect`, `CaptureInvariant`, `WidthAlwaysTrue`, `PeriodAlwaysTrue` (module
`PwmCapture_proofs`), the last three if no edge meets the write of a flag
(`~COLLIDE`), for any number of channels, any widths and any wrap of the counter.
`CaptureInv` says that a flag stays until its channel is measured, that a channel has
one unmeasured edge at most, and what its stored tick and width are, with and without
that edge.

`FeedTypes`, `TokensAlwaysCover` (module `PositionFeed_proofs`): for any number of
axes, ring and semaphore, no update is without a token on its way.

`FeedInvariant`, `AlwaysCaughtUp` (same module), for a motion task that catches up between
two delays (`~OVERLOAD`) and `RingOutlasts`: `(MOTOR_POS_COUNT - 1) * (MAX_MISSES + 1) <
MOTOR_UPDATE_QUEUE_SIZE - 1`. A full ring drops updates, so why is the last reading of an axis never
lost for good? While the motion task is held up, an axis whose update is not in the ring
has missed a request in each round the others have answered (`FillsEvenly`), so the ring
still has a slot when it answers; an update that is dropped is of an axis that has another one in the ring, and the
task reads the newest position for it (`DueIsTracked`). With the three
drives and the ring of 6 of the code this allows one miss in a row. The bound is
tight: with two drives, one miss and a ring of 3, TLC finds `CaughtUp` violated.

`ZeroFeedInvariant`, `ZeroAlwaysCurrent` (same module), for drives that answer or fail at
once while homing goes on (`~SILENT_HOMING`) and `DelayOutlasts`: `MOTOR_POS_COUNT *
(MAX_MISSES + 1) * ANSWER_TIME < HOMING_ZERO_CAPTURE_DELAY`. The freshness test of
`homing_task.c` does not see to it that a reading was made after the axis had stopped; the wait
does. `SleepIsRight` bounds the time since the event of an axis by the requests made since
its drive last answered (`Asked`), each of which takes `ANSWER_TIME` at most. The constants
may count a finer tick than the 25 ms of the run: with the code's 150 ms, three drives and one miss in
a row, `3 * 2 * ANSWER_TIME < 150 ms` asks for answers within less than 25 ms. The bound
is tight: with a delay of 4 in `Feed.cfg`, which is `2 * 2 * 1`, `ZeroIsCurrent` is violated. A drive
that falls silent takes 1000 ms, and `zero_stale` shows what comes of it.
`ReadingInvariant` states `FeedInv` and `ZeroFeedInv` together, as the run `feed` checks them.

`DecodeIsPosition`, `FreqWithinLimits`, `OwnFrequencyWins`, `TargetWithinAngle`
(module `PositionFeed_proofs`): registers decode to the position they came from,
for every integer; a frequency lies within its limits; the axes' common frequency
never binds; a target lies within the angle of the axis.

The proofs rest on the constants' named assumptions (`MotorCountAssumption`,
`QueueSizeAssumption`, `HomingAssumption`, `PulseAssumption`, `ButtonAssumption`,
`PwmAssumption`, `ArithmeticAssumption`, `MotorPosAssumption`, `ModbusAssumption`,
`FeedAssumption`) and on the conditions named above. Every invariant a passing
run checks is stated by a theorem, and so is the refinement of `OperatingModes` and of
`PressQueue`. Only model-checked: liveness (`HomingEnds`, `AbortedTaskEnds`, `PushEnds`,
`MoveEnds`, `EmergencyStops`, `ZeroingEnds`, `SignalIsFollowed`), as fairness and ENABLED
are outside the prover.

## 5. Not modelled, and what is left

Not modelled: the rounding of `float` in positions, targets and frequencies; the
lengths of the homing moves; configuration and build files (they have no state; their values
are the constants); the registration of devices and pins; the FreeModbus engine with
its poll thread, the drives and NuttX itself (external, modelled from how the code uses
them); functions without a caller.

Left, in the order of their worth:

1. A composition of `PwmCapture` with the setpoint of the motion task: `motion_task.c` uses
   the width whatever `valid` and `stale` say, so today there is nothing to relate.
2. `ButtonEvents` in place of the free presses of `HomingCycle`.
