----------------------------- MODULE PulseCount -----------------------------
(* How the pulse driver counts (stm32_steppulse.c): TIM3 puts out one pulse  *)
(* per period on every enabled channel, and its update event clocks one      *)
(* slave counter per axis, whose own update interrupt ends a move.  A slave  *)
(* of 16 bits counts a long move in full cycles and a rest.                  *)
(*                                                                          *)
(* The hardware as the driver uses it: a slave counts every TIM3 period,    *)
(* whether its channel is enabled or not; it goes from ARR to 0 and raises   *)
(* its update flag; with ARR 0 it stands still; an ARR takes effect at once. *)
(* A period of the PWM has a pulse if the compare value lies within it.      *)
(* Phases within a period are not modelled: a pulse is a period.             *)
EXTENDS Integers

CONSTANTS
  Axes,
  Narrow,                 \* the axes with a slave of 16 bits: 1 in the code
  TOP,                    \* 16#10000 in the code: periods in a full cycle
  WIDE_TOP,               \* the same for the slaves of 32 bits
  MoveSizes,              \* the pulses of a MOVE
  Periods,                \* of TIM3, from the frequency of a MOVE
  MAX_COMMANDS            \* a bound: MOVE and HOME commands in a behaviour

ASSUME PulseAssumption ==
  /\ Narrow \subseteq Axes
  /\ TOP \in Nat \ {0, 1} /\ WIDE_TOP \in Nat /\ WIDE_TOP >= TOP
  /\ MoveSizes \subseteq 1 .. WIDE_TOP - 1
  /\ Periods \subseteq Nat \ {0, 1}
  /\ MAX_COMMANDS \in Nat

VARIABLES
  mode, busy,                           \* ch->mode, ch->busy
  overflow_remaining, last_cycle_arr,   \* of ch, for a slave of 16 bits
  enabled,                              \* CCxE in TIM3's CCER
  period, compare,                      \* TIM3's ARR and CCR1..3
  cnt, arr, uif,                        \* the slaves' CNT, ARR and SR.UIF
  call,                                 \* step_apply_move() in progress
  commands,                             \* how many have begun
  target, put_out,                      \* history, for the properties: the
                                        \* pulses asked for and put out since
                                        \* the last command
  disturbed, starved                    \* history: whether a period ended
                                        \* within that command, and whether
                                        \* another axis' command has since
                                        \* made the period too short

chanVars == <<mode, busy, overflow_remaining, last_cycle_arr>>
masterVars == <<enabled, period, compare>>
slaveVars == <<cnt, arr, uif>>
history == <<target, put_out, disturbed, starved>>
vars == <<chanVars, masterVars, slaveVars, call, commands, history>>

Top(a) == IF a \in Narrow THEN TOP ELSE WIDE_TOP

(* A call in progress: no call, or the axis, its size (0: HOME), its period, *)
(* how far it is and whether a TIM3 period has ended within it.             *)
NoCall == [at |-> "none"]
Calls == [at : {"enter", "enable"}, axis : Axes, size : MoveSizes \cup {0},
          period : Periods, ticked : BOOLEAN]

TypeOK ==
  /\ mode \in [Axes -> {"IDLE", "HOMING", "TARGETED"}]
  /\ busy \in [Axes -> BOOLEAN]
  /\ overflow_remaining \in [Axes -> Nat]
  /\ last_cycle_arr \in [Axes -> 0 .. TOP - 1]
  /\ enabled \in [Axes -> BOOLEAN]
  /\ period \in Periods \cup {0}
  /\ compare \in [Axes -> Nat]
  /\ arr \in [Axes -> Nat] /\ cnt \in [Axes -> Nat]
  /\ \A a \in Axes : arr[a] \in 0 .. Top(a) - 1 /\ cnt[a] \in 0 .. arr[a]
  /\ uif \in [Axes -> BOOLEAN]
  /\ call \in Calls \cup {NoCall}
  /\ commands \in 0 .. MAX_COMMANDS
  /\ target \in [Axes -> MoveSizes \cup {0}]
  /\ put_out \in [Axes -> Nat]
  /\ disturbed \in [Axes -> BOOLEAN]
  /\ starved \in [Axes -> BOOLEAN]

Init ==
  /\ mode = [a \in Axes |-> "IDLE"]
  /\ busy = [a \in Axes |-> FALSE]
  /\ overflow_remaining = [a \in Axes |-> 0]
  /\ last_cycle_arr = [a \in Axes |-> 0]
  /\ enabled = [a \in Axes |-> FALSE]
  /\ period = 0
  /\ compare = [a \in Axes |-> 0]
  /\ cnt = [a \in Axes |-> 0]
  /\ arr = [a \in Axes |-> 0]
  /\ uif = [a \in Axes |-> FALSE]
  /\ call = NoCall
  /\ commands = 0
  /\ target = [a \in Axes |-> 0]
  /\ put_out = [a \in Axes |-> 0]
  /\ disturbed = [a \in Axes |-> FALSE]
  /\ starved = [a \in Axes |-> FALSE]

----------------------------------------------------------------------------
(* The timers. *)

PutsOut(a) == enabled[a] /\ compare[a] \in 1 .. period

Overflows(a) == arr[a] > 0 /\ cnt[a] = arr[a]

(* A critical section is shorter than a period, so at most one ends in it.  *)
(* An interrupt is served before the next period ends and before the next   *)
(* critical section begins; one that falls in a critical section waits for  *)
(* its end.                                                                 *)
MayTick ==
  IF call = NoCall THEN \A a \in Axes : ~uif[a] ELSE ~call.ticked

Tick ==
  /\ MayTick
  /\ cnt' = [a \in Axes |->
               IF arr[a] = 0 \/ Overflows(a) THEN 0 ELSE cnt[a] + 1]
  /\ uif' = [a \in Axes |-> uif[a] \/ Overflows(a)]
  /\ put_out' = [a \in Axes |->
                   IF PutsOut(a) /\ mode[a] = "TARGETED"
                   THEN put_out[a] + 1 ELSE put_out[a]]
  /\ IF call = NoCall
     THEN UNCHANGED <<call, disturbed>>
     ELSE /\ call' = [call EXCEPT !.ticked = TRUE]
          /\ disturbed' = [disturbed EXCEPT ![call.axis] = TRUE]
  /\ UNCHANGED <<chanVars, masterVars, arr, commands, target, starved>>

----------------------------------------------------------------------------
(* step_slave_isr_common() *)

IsrStops(a) ==
  mode[a] = "TARGETED" /\ ~(a \in Narrow /\ overflow_remaining[a] > 0)

IsrIgnores(a) ==
  /\ mode[a] # "TARGETED"
  /\ UNCHANGED <<chanVars, enabled, cnt, arr>>

\* Mutant: the rest is not loaded after the last full cycle.
IsrReloads_NoRest(a) ==
  /\ mode[a] = "TARGETED" /\ a \in Narrow /\ overflow_remaining[a] > 0
  /\ overflow_remaining' = [overflow_remaining EXCEPT ![a] = @ - 1]
  /\ cnt' = [cnt EXCEPT ![a] = 0]
  /\ UNCHANGED <<mode, busy, last_cycle_arr, enabled, arr>>

\* Mutant: > 0 read as >= 0.
IsrReloads_OneTooMany(a) ==
  /\ mode[a] = "TARGETED" /\ a \in Narrow /\ overflow_remaining[a] >= 0
  /\ overflow_remaining' = [overflow_remaining EXCEPT ![a] = @ - 1]
  /\ cnt' = [cnt EXCEPT ![a] = 0]
  /\ arr' = [arr EXCEPT ![a] = last_cycle_arr[a]]
  /\ UNCHANGED <<mode, busy, last_cycle_arr, enabled>>

IsrReloads(a) ==
  /\ mode[a] = "TARGETED" /\ a \in Narrow /\ overflow_remaining[a] > 0
  /\ overflow_remaining' = [overflow_remaining EXCEPT ![a] = @ - 1]
  /\ cnt' = [cnt EXCEPT ![a] = 0]
  /\ arr' = IF overflow_remaining[a] = 1
            THEN [arr EXCEPT ![a] = last_cycle_arr[a]]
            ELSE arr
  /\ UNCHANGED <<mode, busy, last_cycle_arr, enabled>>

\* Mutant: the channel is off but the mode stays.
IsrEndsMove_ModeStays(a) ==
  /\ IsrStops(a)
  /\ enabled' = [enabled EXCEPT ![a] = FALSE]
  /\ busy' = [busy EXCEPT ![a] = FALSE]
  /\ UNCHANGED <<mode, overflow_remaining, last_cycle_arr, cnt, arr>>

IsrEndsMove(a) ==
  /\ IsrStops(a)
  /\ enabled' = [enabled EXCEPT ![a] = FALSE]
  /\ busy' = [busy EXCEPT ![a] = FALSE]
  /\ mode' = [mode EXCEPT ![a] = "IDLE"]
  /\ UNCHANGED <<overflow_remaining, last_cycle_arr, cnt, arr>>

SlaveIsr(a) ==
  /\ call = NoCall
  /\ uif[a]
  /\ uif' = [uif EXCEPT ![a] = FALSE]
  /\ IsrIgnores(a) \/ IsrReloads(a) \/ IsrEndsMove(a)
  /\ UNCHANGED <<period, compare, call, commands, history>>

----------------------------------------------------------------------------
(* step_apply_move(): its critical section, in which interrupts wait. *)

CallBegins(a, size, p) ==
  /\ call = NoCall /\ \A b \in Axes : ~uif[b]
  /\ commands < MAX_COMMANDS
  /\ commands' = commands + 1
  /\ call' = [at |-> "enter", axis |-> a, size |-> size, period |-> p,
              ticked |-> FALSE]
  /\ disturbed' = [disturbed EXCEPT ![a] = FALSE]
  /\ UNCHANGED <<chanVars, masterVars, slaveVars, target, put_out, starved>>

(* How the pulses are split: full cycles first, then the ARR of the rest.   *)
FullCycles(size) ==
  IF size % TOP = 0 THEN (size \div TOP) - 1 ELSE size \div TOP

RestArr(size) == (IF size % TOP = 0 THEN TOP ELSE size % TOP) - 1

IsLong(a, size) == a \in Narrow /\ size > TOP - 1

\* Mutant: the last full cycle of a multiple of 16#10000 is counted twice.
LoadCount_OneCycleMore(a, size) ==
  /\ mode' = [mode EXCEPT ![a] = "TARGETED"]
  /\ overflow_remaining' = [overflow_remaining EXCEPT ![a] =
                              IF IsLong(a, size) THEN size \div TOP ELSE 0]
  /\ last_cycle_arr' = [last_cycle_arr EXCEPT ![a] =
                          IF IsLong(a, size) THEN RestArr(size) ELSE @]
  /\ arr' = [arr EXCEPT ![a] =
               IF ~IsLong(a, size) THEN size
               ELSE IF FullCycles(size) > 0 THEN TOP - 1 ELSE RestArr(size)]

LoadCount(a, size) ==
  /\ mode' = [mode EXCEPT ![a] = "TARGETED"]
  /\ overflow_remaining' = [overflow_remaining EXCEPT ![a] =
                              IF IsLong(a, size) THEN FullCycles(size) ELSE 0]
  /\ last_cycle_arr' = [last_cycle_arr EXCEPT ![a] =
                          IF IsLong(a, size) THEN RestArr(size) ELSE @]
  /\ arr' = [arr EXCEPT ![a] =
               IF ~IsLong(a, size) THEN size
               ELSE IF FullCycles(size) > 0 THEN TOP - 1 ELSE RestArr(size)]

(* HOME does not know how far it is: the counter runs over its full range.  *)
LoadHoming(a) ==
  /\ mode' = [mode EXCEPT ![a] = "HOMING"]
  /\ overflow_remaining' = [overflow_remaining EXCEPT ![a] = 0]
  /\ arr' = [arr EXCEPT ![a] = Top(a) - 1]
  /\ UNCHANGED last_cycle_arr

(* The period is TIM3's: it is every axis' period from now on, and only     *)
(* this axis' compare value follows it.  An axis that turns round while it  *)
(* moves has its channel off for the moment.                                *)
CallLoads ==
  /\ call.at = "enter"
  /\ period' = call.period
  /\ compare' = [compare EXCEPT ![call.axis] = call.period \div 2]
  /\ cnt' = [cnt EXCEPT ![call.axis] = 0]
  /\ \/ call.size = 0 /\ LoadHoming(call.axis)
     \/ call.size > 0 /\ LoadCount(call.axis, call.size)
  /\ call' = [call EXCEPT !.at = "enable"]
  /\ target' = [target EXCEPT ![call.axis] = call.size]
  /\ put_out' = [put_out EXCEPT ![call.axis] = 0]
  /\ starved' = [a \in Axes |-> /\ a # call.axis
                                /\ starved[a] \/ compare[a] > call.period]
  /\ \E turns \in BOOLEAN :
       enabled' = [enabled EXCEPT ![call.axis] =
                     @ /\ ~(busy[call.axis] /\ turns)]
  /\ UNCHANGED <<busy, uif, commands, disturbed>>

CallEnables ==
  /\ call.at = "enable"
  /\ busy' = [busy EXCEPT ![call.axis] = TRUE]
  /\ enabled' = [enabled EXCEPT ![call.axis] = TRUE]
  /\ call' = NoCall
  /\ UNCHANGED <<mode, overflow_remaining, last_cycle_arr, period, compare,
                 slaveVars, commands, history>>

(* A hard stop of all axes, or a limit switch that cuts one of them. *)
Cut(as) ==
  /\ call = NoCall
  /\ \E a \in as : busy[a]
  /\ enabled' = [a \in Axes |-> a \notin as /\ enabled[a]]
  /\ busy' = [a \in Axes |-> a \notin as /\ busy[a]]
  /\ mode' = [a \in Axes |-> IF a \in as THEN "IDLE" ELSE mode[a]]
  /\ UNCHANGED <<overflow_remaining, last_cycle_arr, period, compare,
                 slaveVars, call, commands, history>>

Commands ==
  \E a \in Axes, size \in MoveSizes \cup {0}, p \in Periods :
    CallBegins(a, size, p)

Next ==
  \/ Tick
  \/ \E a \in Axes : SlaveIsr(a)
  \/ Commands \/ CallLoads \/ CallEnables
  \/ Cut(Axes) \/ \E a \in Axes : Cut({a})

Spec == Init /\ [][Next]_vars

(* Timers run, interrupts are served, a critical section ends.  Nobody has  *)
(* to stop an axis.                                                         *)
Fairness ==
  /\ WF_vars(Tick)
  /\ \A a \in Axes : WF_vars(SlaveIsr(a))
  /\ WF_vars(CallLoads \/ CallEnables)

FairSpec == Spec /\ Fairness

----------------------------------------------------------------------------
(* Properties. *)

(* The pulse that a move loaded in one piece has too much: ARR = pulses.     *)
Excess(a) == IF IsLong(a, target[a]) THEN 0 ELSE 1

(* However commands, interrupts and cuts of all axes fall, an axis puts out *)
(* no more than its target and that one pulse (which the driver does not    *)
(* promise: see StopsAtTarget): an interrupt that a critical section delays,*)
(* or that is left over from the move before, costs pulses and adds none.   *)
NeverOvershoots ==
  \A a \in Axes : target[a] > 0 => put_out[a] <= target[a] + Excess(a)

(* The interrupt that ends a move, and not a cut or another command. *)
EndsByCount(a) == uif[a] /\ ~uif'[a] /\ IsrStops(a) /\ enabled[a]

(* Nothing has spoilt the count since the command began. *)
Clean(a) == ~disturbed[a] /\ ~starved[a]

(* A move that ends by its count, and whose count nothing has spoilt, has    *)
(* put out its target at least, in whatever cycles it was counted; one that *)
(* went by full cycles and a rest has put out no pulse more either.         *)
EndsInFull ==
  [][\A a \in Axes : EndsByCount(a) /\ Clean(a) =>
       /\ put_out[a] >= target[a]
       /\ IsLong(a, target[a]) => put_out[a] = target[a]]_vars

OnlyMoves == \A a \in Axes : mode[a] # "HOMING"

(* What the driver promises: the slaves "count pulse edges and stop at      *)
(* target" (stm32_steppulse.c:6-8).  No move goes past its target, and,     *)
(* whatever moves the other axes are given, one that ends by its count and  *)
(* that no delay of its own command has cut short has put out its target.   *)
(* Violated: a move loaded in one piece has the number of pulses in ARR and *)
(* not one less (:357; :338 "ARR = so xung - 1"); a rest of one pulse has   *)
(* ARR 0; and the slaves count periods of TIM3, which has no edges for an   *)
(* axis whose compare value is above the period another axis has set.       *)
StopsAtTarget ==
  [][\A a \in Axes :
       /\ put_out'[a] <= target'[a]
       /\ OnlyMoves /\ EndsByCount(a) /\ ~disturbed[a] =>
            put_out[a] >= target[a]]_vars

(* What keeps the count right: the periods that are left until the interrupt *)
(* that ends the move, and the pulses already put out, add up to the target. *)
PeriodsLater(a) ==
  IF overflow_remaining[a] = 0 THEN 0
  ELSE (overflow_remaining[a] - 1) * TOP + last_cycle_arr[a] + 1

PeriodsLeft(a) ==
  (IF uif[a] THEN 0 ELSE arr[a] - cnt[a] + 1) + PeriodsLater(a)

(* The move of an axis is under way, and no call is about to replace it. *)
Counts(a) ==
  /\ mode[a] = "TARGETED"
  /\ call = NoCall \/ call.axis # a \/ call.at = "enable"

MoveInv(a) ==
  /\ mode[a] = "TARGETED" =>
       /\ target[a] > 0 /\ arr[a] > 0
       /\ overflow_remaining[a] > 0 =>
            a \in Narrow /\ arr[a] = TOP - 1 /\ last_cycle_arr[a] > 0
       /\ put_out[a] + PeriodsLeft(a) <= target[a] + Excess(a)
  /\ target[a] > 0 => put_out[a] <= target[a] + Excess(a)
  /\ Counts(a) /\ Clean(a) =>
       /\ put_out[a] + PeriodsLeft(a) = target[a] + Excess(a)
       /\ compare[a] \in 1 .. period
       /\ enabled[a] \/ (call # NoCall /\ call.axis = a)

(* An interrupt waits only for the end of the call in which it fell.        *)
CountInv ==
  /\ call # NoCall /\ ~call.ticked => \A a \in Axes : ~uif[a]
  /\ call # NoCall /\ call.ticked => disturbed[call.axis]
  /\ \A a \in Axes : MoveInv(a)

(* A move of known length ends. *)
MoveEnds ==
  \A a \in Axes : mode[a] = "TARGETED" ~> mode[a] # "TARGETED"

=============================================================================
