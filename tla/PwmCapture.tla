----------------------------- MODULE PwmCapture -----------------------------
(* The PWM capture driver (stm32_pwmcapture.c): TIM1 latches the edges of    *)
(* the setpoint signals, one interrupt handler for all channels measures    *)
(* them, and a task reads width, period, valid and stale.                   *)
(*                                                                          *)
(* Time passes in units, in which an edge, a pulse, the period of a signal,  *)
(* the timeout and the wrap of the counter keep their order.  The handler   *)
(* runs within a unit, but edges of other channels fall between its steps.  *)
EXTENDS Integers, FiniteSets

CONSTANTS
  PWMCAP_NCHANNELS,
  COUNTER,            \* PWMCAP_ARR + 1: where the counter wraps
  TIMEOUT,            \* PWMCAP_TIMEOUT_MS
  PERIOD, Widths,     \* of the signals
  LOSSY,              \* the channels whose signal is lost and that are reset
  COLLIDE             \* an edge may come while the handler clears a flag

ASSUME PwmAssumption ==
  /\ PWMCAP_NCHANNELS \in Nat \ {0}
  /\ COUNTER \in Nat \ {0}
  /\ PERIOD \in 1 .. TIMEOUT
  /\ TIMEOUT \in 1 .. COUNTER - 1
  /\ Widths \subseteq 1 .. PERIOD - 1
  /\ LOSSY \subseteq 0 .. PWMCAP_NCHANNELS - 1
  /\ COLLIDE \in BOOLEAN

VARIABLES
  cnt, phase,                   \* TIM1's counter; time since the rises were due
  on, line, high,               \* signals: present; level; width of the pulse
  ccif, ccp,                    \* the flags of SR, the polarities
  ipc, ii, sr, rmw,             \* the handler: pc, i, sr, SR as modreg read it
  state, last_rise_tick,        \* the rest is struct pwmcap_chan_s
  pulse_width_us, period_us, valid,
  edge_age,                     \* time since last_edge_systick, up to TIMEOUT + 1
  rises, last_pulse             \* history: rises since the signal came, and the
                                \* width of the last pulse that has ended

Channels == 0 .. PWMCAP_NCHANNELS - 1

signalVars == <<on, line, high, rises, last_pulse>>
timVars == <<ccif, ccp>>
isrVars == <<ipc, ii, sr, rmw>>
chanVars == <<state, last_rise_tick, pulse_width_us, period_us, valid, edge_age>>
vars == <<cnt, phase, signalVars, timVars, isrVars, chanVars>>

Ticks == 0 .. COUNTER - 1
IsrPcs == {"idle", "test", "clear", "write", "measure"}

TypeOK ==
  /\ cnt \in Ticks
  /\ phase \in 0 .. PERIOD - 1
  /\ on \in [Channels -> BOOLEAN]
  /\ line \in [Channels -> BOOLEAN]
  /\ high \in [Channels -> Nat]
  /\ rises \in [Channels -> 0 .. 2]
  /\ last_pulse \in [Channels -> Nat]
  /\ ccif \subseteq Channels
  /\ ccp \in [Channels -> BOOLEAN]
  /\ ipc \in IsrPcs
  /\ ii \in Channels
  /\ sr \subseteq Channels
  /\ rmw \subseteq Channels
  /\ state \in [Channels -> {"WAIT_RISE", "WAIT_FALL"}]
  /\ last_rise_tick \in [Channels -> Ticks]
  /\ pulse_width_us \in [Channels -> Ticks]
  /\ period_us \in [Channels -> Ticks]
  /\ valid \in [Channels -> BOOLEAN]
  /\ edge_age \in [Channels -> 0 .. TIMEOUT + 1]

(* stm32_pwmcapture_initialize(). *)
Init ==
  /\ cnt = 0 /\ phase = 0
  /\ on = [c \in Channels |-> FALSE]
  /\ line = [c \in Channels |-> FALSE]
  /\ high = [c \in Channels |-> 0]
  /\ rises = [c \in Channels |-> 0]
  /\ last_pulse = [c \in Channels |-> 0]
  /\ ccif = {}
  /\ ccp = [c \in Channels |-> FALSE]
  /\ ipc = "idle" /\ ii = 0 /\ sr = {} /\ rmw = {}
  /\ state = [c \in Channels |-> "WAIT_RISE"]
  /\ last_rise_tick = [c \in Channels |-> 0]
  /\ pulse_width_us = [c \in Channels |-> 0]
  /\ period_us = [c \in Channels |-> 0]
  /\ valid = [c \in Channels |-> FALSE]
  /\ edge_age = [c \in Channels |-> TIMEOUT + 1]

----------------------------------------------------------------------------
(* The signals and the timer. *)

(* TIM1 latches an edge of the polarity it has been told to look for.  The  *)
(* handler comes within the unit: the latched value is cnt when it reads it. *)
Latch(c, falling) ==
  ccif' = IF ccp[c] = falling THEN ccif \union {c} ELSE ccif

EdgePossible == COLLIDE \/ ipc # "write"

RiseDue(c) == on[c] /\ phase = 0 /\ ~line[c] /\ high[c] = 0
FallDue(c) == line[c] /\ (phase = high[c] \/ ~on[c])

Rise(c) ==
  /\ EdgePossible
  /\ RiseDue(c)
  /\ line' = [line EXCEPT ![c] = TRUE]
  /\ \E w \in Widths : high' = [high EXCEPT ![c] = w]
  /\ rises' = [rises EXCEPT ![c] = IF @ < 2 THEN @ + 1 ELSE 2]
  /\ Latch(c, FALSE)
  /\ UNCHANGED <<cnt, phase, on, last_pulse, ccp, isrVars, chanVars>>

Fall(c) ==
  /\ EdgePossible
  /\ FallDue(c)
  /\ line' = [line EXCEPT ![c] = FALSE]
  /\ last_pulse' = [last_pulse EXCEPT ![c] = phase]
  /\ Latch(c, TRUE)
  /\ UNCHANGED <<cnt, phase, on, high, rises, ccp, isrVars, chanVars>>

(* The link is lost or comes back, within a period; a pulse that is cut by  *)
(* the loss ends at once.                                                   *)
Lose(c) ==
  /\ c \in LOSSY /\ on[c] /\ phase > 0
  /\ on' = [on EXCEPT ![c] = FALSE]
  /\ rises' = [rises EXCEPT ![c] = 0]
  /\ UNCHANGED <<cnt, phase, line, high, last_pulse, timVars, isrVars, chanVars>>

Return(c) ==
  /\ ~on[c] /\ ~line[c] /\ phase > 0
  /\ on' = [on EXCEPT ![c] = TRUE]
  /\ UNCHANGED <<cnt, phase, line, high, rises, last_pulse, timVars, isrVars,
                 chanVars>>

(* A unit passes: the edges of this one have come and have been handled. *)
Advance ==
  /\ ipc = "idle" /\ ccif = {}
  /\ \A c \in Channels : ~RiseDue(c) /\ ~FallDue(c)
  /\ cnt' = (cnt + 1) % COUNTER
  /\ phase' = (phase + 1) % PERIOD
  /\ high' = [c \in Channels |-> IF phase' = 0 THEN 0 ELSE high[c]]
  /\ edge_age' = [c \in Channels |->
                    IF edge_age[c] > TIMEOUT THEN edge_age[c] ELSE edge_age[c] + 1]
  /\ UNCHANGED <<on, line, rises, last_pulse, timVars, isrVars, state,
                 last_rise_tick, pulse_width_us, period_us, valid>>

----------------------------------------------------------------------------
(* pwmcap_interrupt(). *)

IsrStarts ==
  /\ ipc = "idle" /\ ccif # {}
  /\ ipc' = "test" /\ ii' = 0 /\ sr' = ccif
  /\ UNCHANGED <<cnt, phase, signalVars, timVars, rmw, chanVars>>

\* Mutant: one channel too many.
IsrNextChannel_TooFar ==
  IF ii < PWMCAP_NCHANNELS
  THEN ipc' = "test" /\ ii' = ii + 1 /\ sr' = sr
  ELSE ipc' = "idle" /\ ii' = 0 /\ sr' = {}

IsrNextChannel ==
  IF ii + 1 < PWMCAP_NCHANNELS
  THEN ipc' = "test" /\ ii' = ii + 1 /\ sr' = sr
  ELSE ipc' = "idle" /\ ii' = 0 /\ sr' = {}

IsrTests ==
  /\ ipc = "test"
  /\ \/ ii \in sr /\ ipc' = "clear" /\ UNCHANGED <<ii, sr>>
     \/ ii \notin sr /\ IsrNextChannel
  /\ UNCHANGED <<cnt, phase, signalVars, timVars, rmw, chanVars>>

(* pwmcap_modreg(SR) reads the register, and writes it back without the bit *)
(* of this channel: every flag that is written as 0 is cleared.             *)
IsrReadsFlags ==
  /\ ipc = "clear"
  /\ rmw' = ccif /\ ipc' = "write"
  /\ UNCHANGED <<cnt, phase, signalVars, timVars, ii, sr, chanVars>>

\* Mutant: all flags are written as 0.
IsrWritesFlags_All ==
  /\ ipc = "write"
  /\ ccif' = {} /\ rmw' = {} /\ ipc' = "measure"
  /\ UNCHANGED <<cnt, phase, signalVars, ccp, ii, sr, chanVars>>

IsrWritesFlags ==
  /\ ipc = "write"
  /\ ccif' = ccif \intersect (rmw \ {ii})
  /\ ipc' = "measure" /\ rmw' = {}
  /\ UNCHANGED <<cnt, phase, signalVars, ccp, ii, sr, chanVars>>

\* Mutant: the difference is not cut to 16 bits.
Elapsed_Signed(c) == cnt - last_rise_tick[c]

Elapsed(c) == (cnt - last_rise_tick[c]) % COUNTER

MeasuresRise(c) ==
  /\ state[c] = "WAIT_RISE"
  /\ period_us' = IF valid[c] \/ period_us[c] # 0 \/ last_rise_tick[c] # 0
                  THEN [period_us EXCEPT ![c] = Elapsed(c)]
                  ELSE period_us
  /\ last_rise_tick' = [last_rise_tick EXCEPT ![c] = cnt]
  /\ ccp' = [ccp EXCEPT ![c] = TRUE]
  /\ state' = [state EXCEPT ![c] = "WAIT_FALL"]
  /\ UNCHANGED <<pulse_width_us, valid>>

MeasuresFall(c) ==
  /\ state[c] = "WAIT_FALL"
  /\ pulse_width_us' = [pulse_width_us EXCEPT ![c] = Elapsed(c)]
  /\ valid' = [valid EXCEPT ![c] = TRUE]
  /\ ccp' = [ccp EXCEPT ![c] = FALSE]
  /\ state' = [state EXCEPT ![c] = "WAIT_RISE"]
  /\ UNCHANGED <<period_us, last_rise_tick>>

\* Mutant: last_edge_systick is not set.
IsrMeasures_NoAge ==
  /\ ipc = "measure"
  /\ MeasuresRise(ii) \/ MeasuresFall(ii)
  /\ IsrNextChannel
  /\ UNCHANGED <<cnt, phase, signalVars, ccif, rmw, edge_age>>

IsrMeasures ==
  /\ ipc = "measure"
  /\ MeasuresRise(ii) \/ MeasuresFall(ii)
  /\ edge_age' = [edge_age EXCEPT ![ii] = 0]
  /\ IsrNextChannel
  /\ UNCHANGED <<cnt, phase, signalVars, ccif, rmw>>

(* PWMCAPIOC_RESET, a critical section of a task: the handler is not running. *)
IoctlReset(c) ==
  /\ c \in LOSSY
  /\ ipc = "idle"
  /\ valid' = [valid EXCEPT ![c] = FALSE]
  /\ pulse_width_us' = [pulse_width_us EXCEPT ![c] = 0]
  /\ period_us' = [period_us EXCEPT ![c] = 0]
  /\ UNCHANGED <<cnt, phase, signalVars, timVars, isrVars, state,
                 last_rise_tick, edge_age>>

(* The stale flag of PWMCAPIOC_GET; the other results are the variables. *)
Stale(c) == valid[c] /\ edge_age[c] > TIMEOUT

Isr ==
  \/ IsrStarts \/ IsrTests \/ IsrReadsFlags \/ IsrWritesFlags \/ IsrMeasures

Next ==
  \/ Isr \/ Advance
  \/ \E c \in Channels :
       Rise(c) \/ Fall(c) \/ Lose(c) \/ Return(c) \/ IoctlReset(c)

Spec == Init /\ [][Next]_vars

Fairness ==
  /\ WF_vars(Isr) /\ WF_vars(Advance)
  /\ \A c \in Channels : WF_vars(Rise(c)) /\ WF_vars(Fall(c))

FairSpec == Spec /\ Fairness

----------------------------------------------------------------------------
(* Properties.  A task sees the channel when the handler has nothing to do. *)

Settled == ipc = "idle" /\ ccif = {}

(* The width a task reads, and motion uses without a look at "stale", is   *)
(* that of the last pulse that has ended, also after the signal is lost.   *)
WidthIsTrue ==
  Settled => \A c \in Channels : valid[c] => pulse_width_us[c] = last_pulse[c]

(* From the second rise on the period is that of the signal, whatever the   *)
(* counter was when it came and however often it has wrapped.               *)
PeriodIsTrue ==
  Settled => \A c \in Channels :
    rises[c] = 2 /\ valid[c] /\ period_us[c] # 0 => period_us[c] = PERIOD

(* A signal that stays is reported, valid and fresh, again and again; one   *)
(* that stays away is not taken for a live one.                             *)
SignalIsFollowed ==
  \A c \in Channels :
    /\ <>[]on[c] => []<>(valid[c] /\ ~Stale(c))
    /\ <>[]~on[c] => <>[](valid[c] => Stale(c))

(* Why the first two hold, as an inductive invariant.  A flag stays pending  *)
(* until its channel is measured, ...                                       *)
Pending(c) == c \in ccif \/ (ii = c /\ ipc \in {"clear", "write", "measure"})

HandlerInv ==
  /\ ipc = "idle" => sr = {}
  /\ ipc \in {"clear", "write"} => ii \in sr
  /\ ipc = "write" => rmw = ccif
  /\ \A c \in sr : c > ii \/ (c = ii /\ ipc # "measure") => c \in ccif
  /\ ipc = "measure" => ii \notin ccif

(* ... a channel has at most one edge in a unit, ... *)
EdgeInv(c) ==
  /\ high[c] < PERIOD
  /\ line[c] => high[c] # 0 /\ phase <= high[c]
  /\ line[c] /\ ~on[c] => phase > 0
  /\ ~line[c] /\ phase = 0 => high[c] = 0
  /\ Pending(c) => IF line[c] THEN on[c] /\ phase = 0 ELSE phase > 0
  /\ rises[c] > 0 => on[c]

(* ... so that the channel has seen all edges but the pending one, ... *)
WidthInv(c) ==
  /\ state[c] = "WAIT_FALL" <=> ccp[c]
  /\ ccp[c] <=> (line[c] <=> ~Pending(c))
  /\ line[c] /\ ~Pending(c) => Elapsed(c) = phase
  /\ ~line[c] /\ Pending(c) => Elapsed(c) = phase /\ last_pulse[c] = phase
  /\ valid[c] /\ (line[c] \/ ~Pending(c)) => pulse_width_us[c] = last_pulse[c]

(* ... and the last rise is one period back when the next is due. *)
PeriodInv(c) ==
  /\ rises[c] > 0 /\ phase > 0 => Elapsed(c) = phase
  /\ rises[c] > 0 /\ phase = 0 /\ ~line[c] => Elapsed(c) = PERIOD
  /\ rises[c] = 2 /\ line[c] /\ Pending(c) => Elapsed(c) = PERIOD
  /\ rises[c] = 2 /\ ~(line[c] /\ Pending(c)) /\ period_us[c] # 0
       => period_us[c] = PERIOD

CaptureInv ==
  /\ HandlerInv
  /\ \A c \in Channels : EdgeInv(c) /\ WidthInv(c) /\ PeriodInv(c)

=============================================================================
