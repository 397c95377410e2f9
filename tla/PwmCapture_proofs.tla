-------------------------- MODULE PwmCapture_proofs --------------------------
(* What a task reads of a channel is what the signal was, for any number of *)
(* channels, any counter that is longer than the timeout, any period.       *)
EXTENDS PwmCapture, TLAPS

LEMMA Constants ==
  /\ PWMCAP_NCHANNELS \in Nat \ {0} /\ COUNTER \in Nat \ {0}
  /\ PERIOD \in Nat \ {0} /\ PERIOD < COUNTER /\ TIMEOUT \in Nat
  /\ Widths \subseteq Nat /\ \A w \in Widths : w # 0 /\ w < PERIOD
  /\ Channels \subseteq Nat /\ 0 \in Channels
BY PwmAssumption DEF Channels

LEMMA ModInRange ==
  ASSUME NEW x \in Int, NEW n \in Nat \ {0}
  PROVE  x % n \in 0 .. n - 1
OBVIOUS

LEMMA ModIs ==
  ASSUME NEW n \in Nat \ {0}, NEW r \in 0 .. n - 1
  PROVE  /\ r % n = r
         /\ n % n = 0
         /\ (r - n) % n = r
OBVIOUS

----------------------------------------------------------------------------
(* Types. *)

LEMMA TypeInit == Init => TypeOK
BY Constants DEF Init, TypeOK, Ticks, IsrPcs

LEMMA NextChannelType ==
  ASSUME ii \in Channels, sr \subseteq Channels, IsrNextChannel
  PROVE  ii' \in Channels /\ sr' \subseteq Channels /\ ipc' \in {"test", "idle"}
<1>1. CASE ii + 1 < PWMCAP_NCHANNELS
  <2>1. ii + 1 \in Channels
    BY <1>1, PwmAssumption DEF Channels
  <2> QED BY <1>1, <2>1 DEF IsrNextChannel
<1>2. CASE ~(ii + 1 < PWMCAP_NCHANNELS)
  BY <1>2, Constants DEF IsrNextChannel
<1> QED BY <1>1, <1>2

LEMMA ElapsedType ==
  ASSUME TypeOK, NEW c \in Channels
  PROVE  Elapsed(c) \in Ticks
<1>1. cnt - last_rise_tick[c] \in Int
  BY Constants DEF TypeOK, Ticks
<1> QED BY <1>1, Constants, ModInRange DEF Elapsed, Ticks

LEMMA TypeStep ==
  ASSUME TypeOK, [Next]_vars
  PROVE  TypeOK'
<1> USE DEF TypeOK
<1>1. CASE UNCHANGED vars
  BY <1>1 DEF vars, signalVars, timVars, isrVars, chanVars
<1>2. ASSUME NEW c \in Channels, Rise(c) PROVE TypeOK'
  BY <1>2, Constants DEF Rise, Latch, isrVars, chanVars
<1>3. ASSUME NEW c \in Channels, Fall(c) PROVE TypeOK'
  BY <1>3 DEF Fall, Latch, isrVars, chanVars
<1>4. ASSUME NEW c \in Channels, Lose(c) PROVE TypeOK'
  BY <1>4 DEF Lose, timVars, isrVars, chanVars
<1>5. ASSUME NEW c \in Channels, Return(c) PROVE TypeOK'
  BY <1>5 DEF Return, timVars, isrVars, chanVars
<1>6. CASE Advance
  <2>1. cnt' \in Ticks /\ phase' \in 0 .. PERIOD - 1
    <3>1. cnt + 1 \in Int /\ phase + 1 \in Int
      BY Constants DEF Ticks
    <3>2. (cnt + 1) % COUNTER \in 0 .. COUNTER - 1 /\ (phase + 1) % PERIOD \in 0 .. PERIOD - 1
      BY <3>1, Constants, ModInRange
    <3> QED BY <1>6, <3>2 DEF Advance, Ticks
  <2> QED BY <1>6, <2>1, Constants DEF Advance, timVars, isrVars
<1>7. CASE IsrStarts
  BY <1>7, Constants DEF IsrStarts, signalVars, timVars, chanVars, IsrPcs
<1>8. CASE IsrTests
  BY <1>8, NextChannelType DEF IsrTests, signalVars, timVars, chanVars, IsrPcs
<1>9. CASE IsrReadsFlags
  BY <1>9 DEF IsrReadsFlags, signalVars, timVars, chanVars, IsrPcs
<1>10. CASE IsrWritesFlags
  BY <1>10 DEF IsrWritesFlags, signalVars, chanVars, IsrPcs
<1>11. CASE IsrMeasures
  <2>1. ii' \in Channels /\ sr' \subseteq Channels /\ ipc' \in IsrPcs
    BY <1>11, NextChannelType DEF IsrMeasures, IsrPcs
  <2>2. Elapsed(ii) \in Ticks
    BY ElapsedType
  <2>3. edge_age' \in [Channels -> 0 .. TIMEOUT + 1]
    BY <1>11, Constants DEF IsrMeasures
  <2>4. CASE MeasuresRise(ii)
    BY <1>11, <2>1, <2>2, <2>3, <2>4 DEF IsrMeasures, MeasuresRise, signalVars
  <2>5. CASE MeasuresFall(ii)
    BY <1>11, <2>1, <2>2, <2>3, <2>5 DEF IsrMeasures, MeasuresFall, signalVars
  <2> QED BY <1>11, <2>4, <2>5 DEF IsrMeasures
<1>12. ASSUME NEW c \in Channels, IoctlReset(c) PROVE TypeOK'
  BY <1>12, Constants DEF IoctlReset, signalVars, timVars, isrVars, Ticks
<1> QED BY <1>1, <1>2, <1>3, <1>4, <1>5, <1>6, <1>7, <1>8, <1>9, <1>10, <1>11,
           <1>12 DEF Next, Isr

(* The indices of the handler stay among the channels, the measures within  *)
(* the 16 bits of the counter.                                              *)
THEOREM TypeCorrect == Spec => []TypeOK
<1>1. TypeOK /\ [Next]_vars => TypeOK'
  BY TypeStep
<1> QED BY TypeInit, <1>1, PTL DEF Spec

----------------------------------------------------------------------------
(* The capture invariant, where no edge falls into the write of a flag.     *)

PwmInv == TypeOK /\ CaptureInv

ChannelInv(c) == EdgeInv(c) /\ WidthInv(c) /\ PeriodInv(c)

(* The distance on the counter, and what a unit of time makes of it. *)
LEMMA Distance ==
  ASSUME NEW t \in Ticks, NEW l \in Ticks
  PROVE  (t - l) % COUNTER = IF t >= l THEN t - l ELSE t - l + COUNTER
<1>1. t \in 0 .. COUNTER - 1 /\ l \in 0 .. COUNTER - 1
  BY Constants DEF Ticks
<1>2. CASE t >= l
  <2>1. t - l \in 0 .. COUNTER - 1
    BY <1>1, <1>2, Constants
  <2> QED BY <1>2, <2>1, Constants, ModIs
<1>3. CASE t < l
  <2>1. t - l + COUNTER \in 0 .. COUNTER - 1
    BY <1>1, <1>3, Constants
  <2>2. ((t - l + COUNTER) - COUNTER) % COUNTER = t - l + COUNTER
    BY <2>1, Constants, ModIs
  <2>3. (t - l + COUNTER) - COUNTER = t - l
    BY <1>1, Constants
  <2> QED BY <1>1, <1>3, <2>2, <2>3
<1> QED BY <1>1, <1>2, <1>3

LEMMA ElapsedIs ==
  ASSUME TypeOK, NEW c \in Channels
  PROVE  Elapsed(c) = IF cnt >= last_rise_tick[c] THEN cnt - last_rise_tick[c]
                      ELSE cnt - last_rise_tick[c] + COUNTER
<1>1. cnt \in Ticks /\ last_rise_tick[c] \in Ticks
  BY DEF TypeOK
<1> QED BY <1>1, Distance DEF Elapsed

LEMMA ElapsedGrows ==
  ASSUME TypeOK, TypeOK', Advance, NEW c \in Channels, Elapsed(c) + 1 < COUNTER
  PROVE  Elapsed(c)' = Elapsed(c) + 1
<1> DEFINE l == last_rise_tick[c]
<1>1. cnt \in 0 .. COUNTER - 1 /\ l \in 0 .. COUNTER - 1
  BY Constants DEF TypeOK, Ticks
<1>2. cnt' = IF cnt + 1 = COUNTER THEN 0 ELSE cnt + 1
  <2>1. CASE cnt + 1 = COUNTER
    BY <2>1, Constants, ModIs DEF Advance
  <2>2. CASE cnt + 1 # COUNTER
    <3>1. cnt + 1 \in 0 .. COUNTER - 1
      BY <1>1, <2>2, Constants
    <3> QED BY <2>2, <3>1, Constants, ModIs DEF Advance
  <2> QED BY <2>1, <2>2
<1>3. last_rise_tick' = last_rise_tick
  BY DEF Advance
<1>4. Elapsed(c)' = IF cnt' >= l THEN cnt' - l ELSE cnt' - l + COUNTER
  <2>1. cnt' \in Ticks /\ l \in Ticks
    BY DEF TypeOK
  <2> QED BY <1>3, <2>1, Distance DEF Elapsed
<1> QED BY <1>1, <1>2, <1>4, ElapsedIs, Constants

(* A channel of which a step changes nothing. *)
LEMMA ChannelSame ==
  ASSUME NEW d \in Channels, ChannelInv(d),
         UNCHANGED <<cnt, phase>>,
         line'[d] = line[d], high'[d] = high[d], on'[d] = on[d],
         rises'[d] = rises[d], last_pulse'[d] = last_pulse[d],
         ccp'[d] = ccp[d], state'[d] = state[d],
         last_rise_tick'[d] = last_rise_tick[d],
         pulse_width_us'[d] = pulse_width_us[d], period_us'[d] = period_us[d],
         valid'[d] = valid[d],
         Pending(d)' <=> Pending(d)
  PROVE  ChannelInv(d)'
<1>1. Elapsed(d)' = Elapsed(d)
  BY DEF Elapsed
<1> HIDE DEF Pending
<1>2. EdgeInv(d)'
  BY DEF ChannelInv, EdgeInv
<1>3. WidthInv(d)'
  BY <1>1 DEF ChannelInv, WidthInv
<1>4. PeriodInv(d)'
  BY <1>1 DEF ChannelInv, PeriodInv
<1> QED BY <1>2, <1>3, <1>4 DEF ChannelInv

LEMMA CaptureInit == Init => CaptureInv
<1> SUFFICES ASSUME Init PROVE CaptureInv
  OBVIOUS
<1>1. HandlerInv
  BY DEF Init, HandlerInv
<1>2. ASSUME NEW d \in Channels PROVE EdgeInv(d) /\ WidthInv(d) /\ PeriodInv(d)
  BY Constants DEF Init, EdgeInv, WidthInv, PeriodInv, Pending
<1> QED BY <1>1, <1>2 DEF CaptureInv

(* A rise finds a channel that waits for it, since the fall before it was   *)
(* handled in an earlier unit.                                              *)
LEMMA RiseKeeps ==
  ASSUME PwmInv, TypeOK', ~COLLIDE, NEW c \in Channels, Rise(c)
  PROVE  CaptureInv'
<1> USE DEF PwmInv
<1>1. ipc # "write" /\ on[c] /\ phase = 0 /\ ~line[c] /\ high[c] = 0
  BY DEF Rise, EdgePossible, RiseDue
<1>2. ~Pending(c)
  BY <1>1 DEF CaptureInv, EdgeInv
<1>3. ~ccp[c] /\ state[c] # "WAIT_FALL"
  BY <1>1, <1>2 DEF CaptureInv, WidthInv, TypeOK
<1>4. ccif' = ccif \union {c}
  BY <1>3 DEF Rise, Latch
<1>5. UNCHANGED <<ipc, ii, sr, rmw>>
  BY DEF Rise, isrVars
<1>6. ASSUME NEW d \in Channels PROVE Pending(d)' <=> Pending(d) \/ d = c
  BY <1>4, <1>5 DEF Pending
<1>7. HandlerInv'
  BY <1>1, <1>2, <1>4, <1>5 DEF CaptureInv, HandlerInv, Pending
<1>8. ASSUME NEW d \in Channels, d # c PROVE ChannelInv(d)'
  <2>1. ChannelInv(d)
    BY DEF CaptureInv, ChannelInv
  <2>2. Pending(d)' <=> Pending(d)
    BY <1>6, <1>8
  <2>3. /\ line'[d] = line[d] /\ high'[d] = high[d] /\ rises'[d] = rises[d]
        /\ UNCHANGED <<cnt, phase, on, last_pulse, ccp, state, last_rise_tick,
                       pulse_width_us, period_us, valid>>
    BY <1>8 DEF Rise, chanVars, TypeOK
  <2> QED BY <2>1, <2>2, <2>3, ChannelSame
<1>9. ChannelInv(c)'
  <2>1. Pending(c)' /\ Elapsed(c)' = Elapsed(c)
    BY <1>6 DEF Rise, chanVars, Elapsed
  <2>2. /\ line'[c] /\ high'[c] \in Widths
        /\ rises'[c] = IF rises[c] < 2 THEN rises[c] + 1 ELSE 2
        /\ UNCHANGED <<cnt, phase, on, last_pulse, ccp, state, last_rise_tick,
                       pulse_width_us, period_us, valid>>
    BY DEF Rise, chanVars, TypeOK
  <2> HIDE DEF Pending
  <2>3. EdgeInv(c)'
    BY <1>1, <2>1, <2>2, Constants DEF EdgeInv, TypeOK
  <2>4. WidthInv(c)'
    BY <1>1, <1>2, <1>3, <2>1, <2>2 DEF CaptureInv, WidthInv
  <2>5. PeriodInv(c)'
    BY <1>1, <2>1, <2>2 DEF CaptureInv, PeriodInv, TypeOK
  <2> QED BY <2>3, <2>4, <2>5 DEF ChannelInv
<1> QED BY <1>7, <1>8, <1>9 DEF CaptureInv, ChannelInv

LEMMA FallKeeps ==
  ASSUME PwmInv, TypeOK', ~COLLIDE, NEW c \in Channels, Fall(c)
  PROVE  CaptureInv'
<1> USE DEF PwmInv
<1>1. ipc # "write" /\ line[c] /\ (phase = high[c] \/ ~on[c])
  BY DEF Fall, EdgePossible, FallDue
<1>2. phase > 0 /\ ~Pending(c)
  BY <1>1, Constants DEF CaptureInv, EdgeInv, TypeOK
<1>3. ccp[c] /\ state[c] = "WAIT_FALL" /\ Elapsed(c) = phase
  BY <1>1, <1>2 DEF CaptureInv, WidthInv
<1>4. ccif' = ccif \union {c}
  BY <1>3 DEF Fall, Latch, TypeOK
<1>5. UNCHANGED <<ipc, ii, sr, rmw>>
  BY DEF Fall, isrVars
<1>6. ASSUME NEW d \in Channels PROVE Pending(d)' <=> Pending(d) \/ d = c
  BY <1>4, <1>5 DEF Pending
<1>7. HandlerInv'
  BY <1>1, <1>2, <1>4, <1>5 DEF CaptureInv, HandlerInv, Pending
<1>8. ASSUME NEW d \in Channels, d # c PROVE ChannelInv(d)'
  <2>1. ChannelInv(d)
    BY DEF CaptureInv, ChannelInv
  <2>2. Pending(d)' <=> Pending(d)
    BY <1>6, <1>8
  <2>3. /\ line'[d] = line[d] /\ last_pulse'[d] = last_pulse[d]
        /\ UNCHANGED <<cnt, phase, on, high, rises, ccp, state, last_rise_tick,
                       pulse_width_us, period_us, valid>>
    BY <1>8 DEF Fall, chanVars, TypeOK
  <2> QED BY <2>1, <2>2, <2>3, ChannelSame
<1>9. ChannelInv(c)'
  <2>1. Pending(c)' /\ Elapsed(c)' = Elapsed(c)
    BY <1>6 DEF Fall, chanVars, Elapsed
  <2>2. /\ ~line'[c] /\ last_pulse'[c] = phase
        /\ UNCHANGED <<cnt, phase, on, high, rises, ccp, state, last_rise_tick,
                       pulse_width_us, period_us, valid>>
    BY DEF Fall, chanVars, TypeOK
  <2> HIDE DEF Pending
  <2>3. EdgeInv(c)'
    BY <1>1, <1>2, <2>1, <2>2 DEF CaptureInv, EdgeInv, TypeOK
  <2>4. WidthInv(c)'
    BY <1>3, <2>1, <2>2 DEF WidthInv
  <2>5. PeriodInv(c)'
    BY <1>1, <1>2, <1>3, <2>1, <2>2 DEF CaptureInv, PeriodInv
  <2> QED BY <2>3, <2>4, <2>5 DEF ChannelInv
<1> QED BY <1>7, <1>8, <1>9 DEF CaptureInv, ChannelInv

(* A signal that is lost or returns, and a reset, change no edge. *)
LEMMA LoseKeeps ==
  ASSUME PwmInv, TypeOK', NEW c \in Channels, Lose(c)
  PROVE  CaptureInv'
<1> USE DEF PwmInv
<1>1. /\ phase > 0 /\ on'[c] = FALSE /\ rises'[c] = 0
      /\ UNCHANGED <<cnt, phase, line, high, last_pulse, ccif, ccp, ipc, ii, sr, rmw,
                     state, last_rise_tick, pulse_width_us, period_us, valid>>
  BY DEF Lose, timVars, isrVars, chanVars, TypeOK
<1>2. HandlerInv'
  BY <1>1 DEF CaptureInv, HandlerInv
<1>3. ASSUME NEW d \in Channels PROVE (Pending(d)' <=> Pending(d)) /\ Elapsed(d)' = Elapsed(d)
  BY <1>1 DEF Pending, Elapsed
<1>4. ASSUME NEW d \in Channels, d # c PROVE ChannelInv(d)'
  <2>1. ChannelInv(d)
    BY DEF CaptureInv, ChannelInv
  <2>2. on'[d] = on[d] /\ rises'[d] = rises[d]
    BY <1>4 DEF Lose, TypeOK
  <2> QED BY <1>1, <1>3, <2>1, <2>2, ChannelSame
<1>5. ChannelInv(c)'
  <2>1. EdgeInv(c)'
    BY <1>1, <1>3 DEF CaptureInv, EdgeInv, TypeOK
  <2>2. WidthInv(c)'
    BY <1>1, <1>3 DEF CaptureInv, WidthInv
  <2>3. PeriodInv(c)'
    BY <1>1, <1>3 DEF PeriodInv
  <2> QED BY <2>1, <2>2, <2>3 DEF ChannelInv
<1> QED BY <1>2, <1>4, <1>5 DEF CaptureInv, ChannelInv

LEMMA ReturnKeeps ==
  ASSUME PwmInv, TypeOK', NEW c \in Channels, Return(c)
  PROVE  CaptureInv'
<1> USE DEF PwmInv
<1>1. /\ ~on[c] /\ ~line[c] /\ phase > 0 /\ on'[c] = TRUE
      /\ UNCHANGED <<cnt, phase, line, high, rises, last_pulse, ccif, ccp, ipc, ii, sr,
                     rmw, state, last_rise_tick, pulse_width_us, period_us, valid>>
  BY DEF Return, timVars, isrVars, chanVars, TypeOK
<1>2. HandlerInv'
  BY <1>1 DEF CaptureInv, HandlerInv
<1>3. ASSUME NEW d \in Channels PROVE (Pending(d)' <=> Pending(d)) /\ Elapsed(d)' = Elapsed(d)
  BY <1>1 DEF Pending, Elapsed
<1>4. ASSUME NEW d \in Channels, d # c PROVE ChannelInv(d)'
  <2>1. ChannelInv(d)
    BY DEF CaptureInv, ChannelInv
  <2>2. on'[d] = on[d]
    BY <1>4 DEF Return, TypeOK
  <2> QED BY <1>1, <1>3, <2>1, <2>2, ChannelSame
<1>5. ChannelInv(c)'
  <2>1. EdgeInv(c)'
    BY <1>1, <1>3 DEF CaptureInv, EdgeInv
  <2>2. WidthInv(c)'
    BY <1>1, <1>3 DEF CaptureInv, WidthInv
  <2>3. PeriodInv(c)'
    BY <1>1, <1>3 DEF CaptureInv, PeriodInv
  <2> QED BY <2>1, <2>2, <2>3 DEF ChannelInv
<1> QED BY <1>2, <1>4, <1>5 DEF CaptureInv, ChannelInv

LEMMA ResetKeeps ==
  ASSUME PwmInv, TypeOK', NEW c \in Channels, IoctlReset(c)
  PROVE  CaptureInv'
<1> USE DEF PwmInv
<1>1. /\ valid'[c] = FALSE /\ period_us'[c] = 0
      /\ UNCHANGED <<cnt, phase, on, line, high, rises, last_pulse, ccif, ccp, ipc, ii,
                     sr, rmw, state, last_rise_tick>>
  BY DEF IoctlReset, signalVars, timVars, isrVars, TypeOK
<1>2. HandlerInv'
  BY <1>1 DEF CaptureInv, HandlerInv
<1>3. ASSUME NEW d \in Channels PROVE (Pending(d)' <=> Pending(d)) /\ Elapsed(d)' = Elapsed(d)
  BY <1>1 DEF Pending, Elapsed
<1>4. ASSUME NEW d \in Channels, d # c PROVE ChannelInv(d)'
  <2>1. ChannelInv(d)
    BY DEF CaptureInv, ChannelInv
  <2>2. /\ valid'[d] = valid[d] /\ period_us'[d] = period_us[d]
        /\ pulse_width_us'[d] = pulse_width_us[d]
    BY <1>4 DEF IoctlReset, TypeOK
  <2> QED BY <1>1, <1>3, <2>1, <2>2, ChannelSame
<1>5. ChannelInv(c)'
  <2>1. EdgeInv(c)'
    BY <1>1, <1>3 DEF CaptureInv, EdgeInv
  <2>2. WidthInv(c)'
    BY <1>1, <1>3 DEF CaptureInv, WidthInv
  <2>3. PeriodInv(c)'
    BY <1>1, <1>3 DEF CaptureInv, PeriodInv
  <2> QED BY <2>1, <2>2, <2>3 DEF ChannelInv
<1> QED BY <1>2, <1>4, <1>5 DEF CaptureInv, ChannelInv

(* Time passes when nothing is pending and no edge is due. *)
LEMMA AdvanceKeeps ==
  ASSUME PwmInv, TypeOK', Advance
  PROVE  CaptureInv'
<1> USE DEF PwmInv
<1>1. /\ ipc = "idle" /\ ccif = {} /\ \A d \in Channels : ~RiseDue(d) /\ ~FallDue(d)
      /\ phase' = (phase + 1) % PERIOD
      /\ high' = [d \in Channels |-> IF phase' = 0 THEN 0 ELSE high[d]]
      /\ UNCHANGED <<on, line, rises, last_pulse, ccif, ccp, ipc, ii, sr, rmw, state,
                     last_rise_tick, pulse_width_us, period_us, valid>>
  BY DEF Advance, timVars, isrVars
<1>2. phase' = IF phase + 1 = PERIOD THEN 0 ELSE phase + 1
  <2>1. CASE phase + 1 = PERIOD
    BY <1>1, <2>1, Constants, ModIs
  <2>2. CASE phase + 1 # PERIOD
    <3>1. phase + 1 \in 0 .. PERIOD - 1
      BY <2>2, Constants DEF TypeOK
    <3> QED BY <1>1, <2>2, <3>1, Constants, ModIs
  <2> QED BY <2>1, <2>2
<1>3. HandlerInv'
  BY <1>1 DEF CaptureInv, HandlerInv
<1>4. ASSUME NEW d \in Channels PROVE ChannelInv(d)'
  <2>1. ~Pending(d) /\ ~Pending(d)'
    BY <1>1 DEF Pending
  <2> HIDE DEF Pending
  <2>2. line[d] => on[d] /\ phase < high[d] /\ phase + 1 < PERIOD /\ phase' = phase + 1
    BY <1>1, <1>2, Constants DEF CaptureInv, EdgeInv, FallDue, TypeOK
  <2>3. Elapsed(d) + 1 < COUNTER => Elapsed(d)' = Elapsed(d) + 1
    BY ElapsedGrows
  <2>4. phase \in 0 .. PERIOD - 1 /\ high[d] \in Nat /\ high'[d] = IF phase' = 0 THEN 0 ELSE high[d]
    BY <1>1 DEF TypeOK
  <2>5. EdgeInv(d)
    BY DEF CaptureInv
  <2>6. EdgeInv(d)'
    <3>1. line'[d] = line[d] /\ on'[d] = on[d] /\ rises'[d] = rises[d]
      BY <1>1
    <3> QED BY <1>2, <2>1, <2>2, <2>4, <2>5, <3>1, Constants DEF EdgeInv
  <2>7. WidthInv(d)'
    BY <1>1, <2>1, <2>2, <2>3, <2>4, Constants DEF CaptureInv, WidthInv
  <2>8. ~line[d] /\ phase = 0 => rises[d] = 0
    BY <1>1, <2>5 DEF EdgeInv, RiseDue, TypeOK
  <2>9. rises[d] > 0 => Elapsed(d) = phase
    BY <2>1, <2>4, <2>8 DEF CaptureInv, PeriodInv, WidthInv
  <2>10. rises[d] > 0 => Elapsed(d)' = phase + 1
    BY <2>3, <2>4, <2>9, Constants
  <2>11. PeriodInv(d)'
    BY <1>1, <1>2, <2>1, <2>2, <2>4, <2>10 DEF CaptureInv, PeriodInv, TypeOK
  <2> QED BY <2>6, <2>7, <2>11 DEF ChannelInv
<1> QED BY <1>3, <1>4 DEF CaptureInv, ChannelInv

(* The handler, from its copy of SR to the last measure.  Up to the measure *)
(* of a channel its edge is pending.                                        *)
LEMMA SamePending ==
  ASSUME PwmInv, UNCHANGED <<cnt, phase, signalVars, ccp, chanVars>>,
         \A d \in Channels : Pending(d)' <=> Pending(d)
  PROVE  \A d \in Channels : ChannelInv(d)'
<1> SUFFICES ASSUME NEW d \in Channels PROVE ChannelInv(d)'
  OBVIOUS
<1>1. ChannelInv(d)
  BY DEF PwmInv, CaptureInv, ChannelInv
<1>2. UNCHANGED <<cnt, phase, on, line, high, rises, last_pulse, ccp, state,
                  last_rise_tick, pulse_width_us, period_us, valid>>
  BY DEF signalVars, chanVars
<1> QED BY <1>1, <1>2, ChannelSame

LEMMA LooksKeep ==
  ASSUME PwmInv, TypeOK', IsrStarts \/ IsrTests \/ IsrReadsFlags \/ IsrWritesFlags
  PROVE  CaptureInv'
<1> USE DEF PwmInv
<1>1. HandlerInv
  BY DEF CaptureInv
<1>2. UNCHANGED <<cnt, phase, signalVars, ccp, chanVars>>
  BY DEF IsrStarts, IsrTests, IsrReadsFlags, IsrWritesFlags, timVars
<1>3. ASSUME HandlerInv', \A d \in Channels : Pending(d)' <=> Pending(d)
      PROVE  CaptureInv'
  BY <1>2, <1>3, SamePending DEF CaptureInv, ChannelInv
<1>4. CASE IsrStarts
  <2>1. HandlerInv'
    BY <1>4 DEF IsrStarts, HandlerInv, timVars
  <2>2. \A d \in Channels : Pending(d)' <=> Pending(d)
    BY <1>4 DEF IsrStarts, Pending, timVars
  <2> QED BY <1>3, <2>1, <2>2
<1>5. CASE IsrTests
  <2>1. ccif' = ccif /\ rmw' = rmw /\ ipc = "test"
    BY <1>5 DEF IsrTests, timVars
  <2>2. CASE ii \in sr /\ ipc' = "clear" /\ UNCHANGED <<ii, sr>>
    <3>1. ii \in ccif
      BY <1>1, <2>1, <2>2 DEF HandlerInv
    <3>2. HandlerInv'
      BY <1>1, <2>1, <2>2 DEF HandlerInv
    <3>3. \A d \in Channels : Pending(d)' <=> Pending(d)
      BY <2>1, <2>2, <3>1 DEF Pending
    <3> QED BY <1>3, <3>2, <3>3
  <2>3. CASE ii \notin sr /\ IsrNextChannel
    <3>1. ipc' \in {"test", "idle"}
      BY <2>3, NextChannelType DEF TypeOK
    <3>2. \A d \in Channels : Pending(d)' <=> Pending(d)
      BY <2>1, <3>1 DEF Pending
    <3>3. CASE ipc' = "idle"
      <4>1. sr' = {}
        BY <2>3, <3>3 DEF IsrNextChannel
      <4>2. HandlerInv'
        BY <3>3, <4>1 DEF HandlerInv
      <4> QED BY <1>3, <3>2, <4>2
    <3>4. CASE ipc' = "test"
      <4>1. ii' = ii + 1 /\ sr' = sr
        BY <2>3, <3>4 DEF IsrNextChannel
      <4>2. \A d \in sr : d >= ii + 1 => d \in ccif
        BY <1>1, <2>1, Constants DEF HandlerInv, TypeOK
      <4>3. HandlerInv'
        BY <2>1, <3>4, <4>1, <4>2, Constants DEF HandlerInv, TypeOK
      <4> QED BY <1>3, <3>2, <4>3
    <3> QED BY <3>1, <3>3, <3>4
  <2> QED BY <1>5, <2>2, <2>3 DEF IsrTests
<1>6. CASE IsrReadsFlags
  <2>1. HandlerInv'
    BY <1>1, <1>6 DEF IsrReadsFlags, HandlerInv, timVars
  <2>2. \A d \in Channels : Pending(d)' <=> Pending(d)
    BY <1>6 DEF IsrReadsFlags, Pending, timVars
  <2> QED BY <1>3, <2>1, <2>2
<1>7. CASE IsrWritesFlags
  <2>1. ccif' = ccif \ {ii} /\ UNCHANGED <<ii, sr>> /\ ipc' = "measure"
    BY <1>1, <1>7 DEF IsrWritesFlags, HandlerInv
  <2>2. HandlerInv'
    BY <1>1, <1>7, <2>1, Constants DEF IsrWritesFlags, HandlerInv, TypeOK
  <2>3. ipc = "write"
    BY <1>7 DEF IsrWritesFlags
  <2>4. \A d \in Channels : Pending(d)' <=> Pending(d)
    BY <2>1, <2>3 DEF Pending
  <2> QED BY <1>3, <2>2, <2>4
<1> QED BY <1>4, <1>5, <1>6, <1>7

LEMMA MeasureKeeps ==
  ASSUME PwmInv, TypeOK', IsrMeasures
  PROVE  CaptureInv'
<1> USE DEF PwmInv
<1>1. /\ ipc = "measure" /\ ii \in Channels /\ ii \notin ccif /\ ii \in DOMAIN state
      /\ UNCHANGED <<cnt, phase, on, line, high, rises, last_pulse, ccif>>
      /\ MeasuresRise(ii) \/ MeasuresFall(ii)
      /\ IsrNextChannel
  BY DEF IsrMeasures, CaptureInv, HandlerInv, TypeOK, signalVars
<1>2. ipc' \in {"test", "idle"}
  BY <1>1, NextChannelType DEF TypeOK
<1>3. \A d \in Channels : Pending(d)' <=> (Pending(d) /\ d # ii)
  BY <1>1, <1>2 DEF Pending
<1>4. Pending(ii)
  BY <1>1 DEF Pending
<1>5. HandlerInv'
  <2>1. CASE ipc' = "idle"
    <3>1. sr' = {}
      BY <1>1, <2>1 DEF IsrNextChannel
    <3> QED BY <2>1, <3>1 DEF HandlerInv
  <2>2. CASE ipc' = "test"
    <3>1. ii' = ii + 1 /\ sr' = sr
      BY <1>1, <2>2 DEF IsrNextChannel
    <3>2. \A d \in sr : d >= ii + 1 => d \in ccif
      BY <1>1, Constants DEF CaptureInv, HandlerInv, TypeOK
    <3> QED BY <1>1, <2>2, <3>1, <3>2, Constants DEF HandlerInv, TypeOK
  <2> QED BY <1>2, <2>1, <2>2
<1> HIDE DEF Pending
<1>6. ASSUME NEW d \in Channels, d # ii PROVE ChannelInv(d)'
  <2>1. ChannelInv(d)
    BY DEF CaptureInv, ChannelInv
  <2>2. /\ ccp'[d] = ccp[d] /\ state'[d] = state[d]
        /\ last_rise_tick'[d] = last_rise_tick[d]
        /\ pulse_width_us'[d] = pulse_width_us[d] /\ period_us'[d] = period_us[d]
        /\ valid'[d] = valid[d]
    BY <1>1, <1>6 DEF MeasuresRise, MeasuresFall, TypeOK
  <2>3. Pending(d)' <=> Pending(d)
    BY <1>3, <1>6
  <2> QED BY <1>1, <2>1, <2>2, <2>3, ChannelSame
<1>7. ChannelInv(ii)
  BY <1>1 DEF CaptureInv, ChannelInv
<1>8. ASSUME NEW c \in Channels, c = ii PROVE ChannelInv(c)'
  <2>1. EdgeInv(c)'
    BY <1>1, <1>3, <1>8, <1>7 DEF ChannelInv, EdgeInv
  <2>2. CASE MeasuresRise(c)
    <3>1. line[c] /\ phase = 0 /\ ~ccp[c]
      BY <1>4, <1>7, <1>8, <2>2 DEF MeasuresRise, ChannelInv, WidthInv, EdgeInv, TypeOK
    <3>2. /\ last_rise_tick'[c] = cnt /\ ccp'[c] = TRUE /\ state'[c] = "WAIT_FALL"
          /\ UNCHANGED <<pulse_width_us, valid>>
          /\ \/ period_us'[c] = Elapsed(c)
             \/ period_us'[c] = period_us[c] /\ period_us[c] = 0
      BY <2>2 DEF MeasuresRise, TypeOK
    <3>3. Elapsed(c)' = 0
      <4>1. cnt \in Ticks
        BY DEF TypeOK
      <4>2. cnt - cnt = 0 /\ 0 % COUNTER = 0
        BY <4>1, Constants, ModIs DEF Ticks
      <4> QED BY <1>1, <3>2, <4>2 DEF Elapsed
    <3>4. WidthInv(c)'
      BY <1>1, <1>3, <1>7, <1>8, <3>1, <3>2, <3>3 DEF ChannelInv, WidthInv
    <3>5. PeriodInv(c)'
      BY <1>1, <1>3, <1>4, <1>7, <1>8, <3>1, <3>2, <3>3, Constants
      DEF ChannelInv, PeriodInv, TypeOK
    <3> QED BY <2>1, <3>4, <3>5 DEF ChannelInv
  <2>3. CASE MeasuresFall(c)
    <3>1. ~line[c] /\ phase > 0 /\ Elapsed(c) = phase /\ last_pulse[c] = phase
      BY <1>4, <1>7, <1>8, <2>3 DEF MeasuresFall, ChannelInv, WidthInv, EdgeInv
    <3>2. /\ pulse_width_us'[c] = Elapsed(c) /\ ccp'[c] = FALSE
          /\ state'[c] = "WAIT_RISE" /\ UNCHANGED <<period_us, last_rise_tick>>
      BY <2>3 DEF MeasuresFall, TypeOK
    <3>3. Elapsed(c)' = Elapsed(c)
      BY <1>1, <3>2 DEF Elapsed
    <3>4. WidthInv(c)'
      BY <1>1, <1>3, <1>8, <3>1, <3>2 DEF WidthInv
    <3>5. PeriodInv(c)'
      BY <1>1, <1>3, <1>7, <1>8, <3>1, <3>2, <3>3 DEF ChannelInv, PeriodInv
    <3> QED BY <2>1, <3>4, <3>5 DEF ChannelInv
  <2> QED BY <1>1, <1>8, <2>2, <2>3
<1> QED BY <1>1, <1>5, <1>6, <1>8 DEF CaptureInv, ChannelInv

LEMMA CaptureStep ==
  ASSUME PwmInv, ~COLLIDE, [Next]_vars
  PROVE  PwmInv'
<1>1. TypeOK'
  BY TypeStep DEF PwmInv
<1>2. CASE UNCHANGED vars
  <2>1. UNCHANGED <<cnt, phase, signalVars, timVars, isrVars, chanVars>>
    BY <1>2 DEF vars
  <2>2. HandlerInv'
    BY <2>1 DEF PwmInv, CaptureInv, HandlerInv, timVars, isrVars
  <2>3. \A d \in Channels : Pending(d)' <=> Pending(d)
    BY <2>1 DEF Pending, timVars, isrVars
  <2>4. \A d \in Channels : ChannelInv(d)'
    BY <2>1, <2>3, SamePending DEF timVars
  <2> QED BY <1>1, <2>2, <2>4 DEF PwmInv, CaptureInv, ChannelInv
<1>3. ASSUME NEW c \in Channels, Rise(c) \/ Fall(c) \/ Lose(c) \/ Return(c) \/ IoctlReset(c)
      PROVE  CaptureInv'
  BY <1>1, <1>3, RiseKeeps, FallKeeps, LoseKeeps, ReturnKeeps, ResetKeeps
<1>4. CASE Advance
  BY <1>1, <1>4, AdvanceKeeps DEF PwmInv
<1>5. CASE Isr
  BY <1>1, <1>5, LooksKeep, MeasureKeeps DEF PwmInv, Isr
<1> QED BY <1>1, <1>2, <1>3, <1>4, <1>5 DEF Next, PwmInv

(* No edge is lost or taken for another one, whatever comes between the     *)
(* steps of the handler - but for a write to SR that meets a new flag.      *)
THEOREM CaptureInvariant ==
  ASSUME ~COLLIDE
  PROVE  Spec => []CaptureInv
<1>1. Init => PwmInv
  BY TypeInit, CaptureInit DEF PwmInv
<1>2. PwmInv /\ [Next]_vars => PwmInv'
  BY CaptureStep
<1>3. PwmInv => CaptureInv
  BY DEF PwmInv
<1> QED BY <1>1, <1>2, <1>3, PTL DEF Spec

(* The width motion takes for the setpoint is that of a real pulse, the     *)
(* last one.                                                                *)
THEOREM WidthAlwaysTrue ==
  ASSUME ~COLLIDE
  PROVE  Spec => []WidthIsTrue
<1>1. CaptureInv => WidthIsTrue
  BY DEF CaptureInv, WidthInv, WidthIsTrue, Settled, Pending
<1> QED BY <1>1, CaptureInvariant, PTL

(* The period is that of the signal, wherever the counter wraps. *)
THEOREM PeriodAlwaysTrue ==
  ASSUME ~COLLIDE
  PROVE  Spec => []PeriodIsTrue
<1>1. CaptureInv => PeriodIsTrue
  BY DEF CaptureInv, PeriodInv, PeriodIsTrue, Settled, Pending
<1> QED BY <1>1, CaptureInvariant, PTL

=============================================================================
