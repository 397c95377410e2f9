-------------------------- MODULE PulseCount_proofs --------------------------
(* The count of pulses, for any axes, any width of the counters, any sizes, *)
(* periods and number of commands.                                          *)
EXTENDS PulseCount, TLAPS

(* No size leaves a rest of one pulse after the full cycles, for which the  *)
(* code loads ARR 0, at which the counter stands still.                     *)
NoSingleRest == \A n \in MoveSizes : n > TOP - 1 => n % TOP # 1

LEMMA Constants ==
  /\ Narrow \subseteq Axes /\ TOP \in Nat \ {0, 1} /\ WIDE_TOP \in Nat
  /\ WIDE_TOP >= TOP /\ MAX_COMMANDS \in Nat
  /\ \A n \in MoveSizes : n \in Nat /\ n > 0 /\ n < WIDE_TOP
  /\ \A p \in Periods : p \in Nat /\ p > 1
  /\ \A a \in Axes : Top(a) \in Nat /\ Top(a) >= TOP
BY PulseAssumption DEF Top

LEMMA Parts ==
  ASSUME NEW size \in Nat, NEW n \in Nat \ {0}
  PROVE  /\ size \div n \in Nat /\ (size % n) \in 0 .. n - 1
         /\ size = (size \div n) * n + (size % n)
OBVIOUS

LEMMA OneLess ==
  ASSUME NEW k \in Nat \ {0}, NEW n \in Nat
  PROVE  k * n = (k - 1) * n + n /\ (k - 1) * n \in Nat
OBVIOUS

LEMMA Half ==
  ASSUME NEW p \in Nat, p > 1
  PROVE  p \div 2 \in 1 .. p
OBVIOUS

----------------------------------------------------------------------------
(* How a size is split. *)

LEMMA SplitType ==
  ASSUME NEW size \in MoveSizes, size > TOP - 1
  PROVE  FullCycles(size) \in Nat /\ RestArr(size) \in 0 .. TOP - 1
<1>1. size \in Nat /\ TOP \in Nat \ {0} /\ size >= TOP
  BY Constants
<1>2. /\ size \div TOP \in Nat /\ (size % TOP) \in 0 .. TOP - 1
      /\ size = (size \div TOP) * TOP + (size % TOP)
  BY <1>1, Parts
<1>3. size % TOP = 0 => size \div TOP # 0
  <2> SUFFICES ASSUME size % TOP = 0, size \div TOP = 0 PROVE FALSE
    OBVIOUS
  <2>1. 0 * TOP = 0
    BY <1>1
  <2> QED BY <1>1, <1>2, <2>1
<1> QED BY <1>1, <1>2, <1>3 DEF FullCycles, RestArr

(* The full cycles and the rest are the size. *)
LEMMA SplitIsSize ==
  ASSUME NEW size \in MoveSizes, size > TOP - 1
  PROVE  size = FullCycles(size) * TOP + RestArr(size) + 1
<1>1. size \in Nat /\ TOP \in Nat \ {0}
  BY Constants
<1>2. /\ size \div TOP \in Nat /\ (size % TOP) \in 0 .. TOP - 1
      /\ size = (size \div TOP) * TOP + (size % TOP)
  BY <1>1, Parts
<1>3. CASE size % TOP = 0
  <2>1. size \div TOP \in Nat \ {0}
    BY <1>3, SplitType, <1>2 DEF FullCycles
  <2>2. (size \div TOP) * TOP = ((size \div TOP) - 1) * TOP + TOP
    BY <1>1, <2>1, OneLess
  <2>3. ((size \div TOP) - 1) * TOP \in Nat
    BY <1>1, <2>1, OneLess
  <2> QED BY <1>1, <1>2, <1>3, <2>2, <2>3 DEF FullCycles, RestArr
<1>4. CASE size % TOP # 0
  <2>1. (size \div TOP) * TOP \in Nat
    BY <1>1, <1>2
  <2> QED BY <1>1, <1>2, <1>4, <2>1 DEF FullCycles, RestArr
<1> QED BY <1>3, <1>4

LEMMA RestIsPositive ==
  ASSUME NoSingleRest, NEW size \in MoveSizes, size > TOP - 1
  PROVE  RestArr(size) > 0
<1>1. (size % TOP) \in 0 .. TOP - 1 /\ size % TOP # 1
  BY Parts, Constants DEF NoSingleRest
<1> QED BY <1>1, Constants DEF RestArr

----------------------------------------------------------------------------
(* Types. *)

LEMMA TypeInit == Init => TypeOK
BY Constants DEF Init, TypeOK

LEMMA TickType ==
  ASSUME TypeOK, Tick
  PROVE  TypeOK'
<1>1. \A a \in Axes : arr[a] \in 0 .. Top(a) - 1 /\ cnt[a] \in 0 .. arr[a]
  BY DEF TypeOK
<1>2. /\ cnt' \in [Axes -> Nat]
      /\ \A a \in Axes : arr'[a] = arr[a] /\ cnt'[a] \in 0 .. arr[a]
  <2>1. ASSUME NEW a \in Axes
        PROVE  arr'[a] = arr[a] /\ cnt'[a] \in 0 .. arr[a]
    <3>1. arr[a] \in Nat /\ cnt[a] \in 0 .. arr[a]
      BY <1>1, Constants
    <3> QED BY <3>1 DEF Tick, Overflows
  <2> QED BY <1>1, <2>1 DEF TypeOK, Tick
<1>3. put_out' \in [Axes -> Nat] /\ uif' \in [Axes -> BOOLEAN]
  BY DEF TypeOK, Tick, Overflows
<1>4. call' \in Calls \cup {NoCall} /\ disturbed' \in [Axes -> BOOLEAN]
  <2>1. CASE call = NoCall
    BY <2>1 DEF TypeOK, Tick
  <2>2. CASE call # NoCall
    <3>1. call \in Calls /\ call' = [call EXCEPT !.ticked = TRUE]
      BY <2>2 DEF TypeOK, Tick
    <3>2. call' \in Calls
      BY <3>1 DEF Calls
    <3> QED BY <2>2, <3>2 DEF TypeOK, Tick
  <2> QED BY <2>1, <2>2
<1> QED BY <1>1, <1>2, <1>3, <1>4 DEF TypeOK, Tick, chanVars, masterVars

LEMMA IsrType ==
  ASSUME TypeOK, NEW a \in Axes, SlaveIsr(a)
  PROVE  TypeOK'
<1>1. uif' \in [Axes -> BOOLEAN] /\ UNCHANGED <<period, compare, call, commands, history>>
  BY DEF TypeOK, SlaveIsr
<1>2. CASE IsrIgnores(a)
  BY <1>1, <1>2 DEF TypeOK, IsrIgnores, chanVars, history
<1>3. CASE IsrEndsMove(a)
  BY <1>1, <1>3 DEF TypeOK, IsrEndsMove, history
<1>4. CASE IsrReloads(a)
  <2>1. overflow_remaining' \in [Axes -> Nat]
    BY <1>4 DEF TypeOK, IsrReloads
  <2>2. Top(a) = TOP
    BY <1>4 DEF IsrReloads, Top
  <2>3. arr' \in [Axes -> Nat] /\ cnt' \in [Axes -> Nat]
    BY <1>4, Constants DEF TypeOK, IsrReloads
  <2>4. ASSUME NEW b \in Axes
        PROVE  arr'[b] \in 0 .. Top(b) - 1 /\ cnt'[b] \in 0 .. arr'[b]
    BY <1>4, <2>2, Constants DEF TypeOK, IsrReloads
  <2> QED BY <1>1, <1>4, <2>1, <2>3, <2>4 DEF TypeOK, IsrReloads, history
<1> QED BY <1>2, <1>3, <1>4 DEF SlaveIsr

LEMMA LoadType ==
  ASSUME TypeOK, NEW a \in Axes, NEW size \in MoveSizes \cup {0},
         \/ size = 0 /\ LoadHoming(a)
         \/ size > 0 /\ LoadCount(a, size)
  PROVE  /\ mode' \in [Axes -> {"IDLE", "HOMING", "TARGETED"}]
         /\ overflow_remaining' \in [Axes -> Nat]
         /\ last_cycle_arr' \in [Axes -> 0 .. TOP - 1]
         /\ arr' \in [Axes -> Nat]
         /\ arr'[a] \in 0 .. Top(a) - 1
         /\ \A b \in Axes : b # a => arr'[b] = arr[b]
<1>1. CASE LoadHoming(a)
  BY <1>1, Constants DEF TypeOK, LoadHoming
<1>2. CASE size > 0 /\ LoadCount(a, size)
  <2>1. size \in MoveSizes /\ size \in Nat /\ size < WIDE_TOP
    BY <1>2, Constants
  <2>2. IsLong(a, size) => FullCycles(size) \in Nat /\ RestArr(size) \in 0 .. TOP - 1
    BY <2>1, SplitType DEF IsLong
  <2>3. ~IsLong(a, size) => size \in 0 .. Top(a) - 1
    BY <2>1, Constants DEF IsLong, Top
  <2> QED BY <1>2, <2>2, <2>3, Constants DEF TypeOK, LoadCount
<1> QED BY <1>1, <1>2

LEMMA CallType ==
  ASSUME TypeOK, call # NoCall
  PROVE  /\ call.axis \in Axes /\ call.size \in MoveSizes \cup {0}
         /\ call.period \in Periods
         /\ [call EXCEPT !.at = "enable"] \in Calls
         /\ [call EXCEPT !.at = "enable"] # NoCall
         /\ [call EXCEPT !.at = "enable"].at = "enable"
         /\ [call EXCEPT !.at = "enable"].axis = call.axis
         /\ [call EXCEPT !.at = "enable"].ticked = call.ticked
<1>1. call \in Calls
  BY DEF TypeOK
<1> QED BY <1>1 DEF Calls, NoCall

LEMMA LoadsType ==
  ASSUME TypeOK, CallLoads
  PROVE  TypeOK'
<1> DEFINE c == call.axis
<1>1. call # NoCall
  BY DEF CallLoads, NoCall
<1>2. c \in Axes /\ call.size \in MoveSizes \cup {0} /\ call.period \in Periods
  BY <1>1, CallType
<1>3. /\ mode' \in [Axes -> {"IDLE", "HOMING", "TARGETED"}]
      /\ overflow_remaining' \in [Axes -> Nat]
      /\ last_cycle_arr' \in [Axes -> 0 .. TOP - 1]
      /\ arr' \in [Axes -> Nat]
      /\ arr'[c] \in 0 .. Top(c) - 1
      /\ \A b \in Axes : b # c => arr'[b] = arr[b]
  BY <1>2, LoadType DEF CallLoads
<1>4. cnt' \in [Axes -> Nat]
      /\ \A b \in Axes : cnt'[b] = IF b = c THEN 0 ELSE cnt[b]
  BY <1>2 DEF TypeOK, CallLoads
<1>5. \A b \in Axes : arr'[b] \in 0 .. Top(b) - 1 /\ cnt'[b] \in 0 .. arr'[b]
  BY <1>3, <1>4, Constants DEF TypeOK
<1>6. call.period \div 2 \in Nat
  BY <1>2, Constants, Half
<1>7. compare' \in [Axes -> Nat] /\ period' \in Periods
  BY <1>2, <1>6 DEF TypeOK, CallLoads
<1>8. call' \in Calls
  BY <1>1, CallType DEF CallLoads
<1>9. /\ target' \in [Axes -> MoveSizes \cup {0}] /\ put_out' \in [Axes -> Nat]
      /\ disturbed' \in [Axes -> BOOLEAN] /\ enabled' \in [Axes -> BOOLEAN]
  BY <1>2 DEF TypeOK, CallLoads
<1> QED BY <1>3, <1>4, <1>5, <1>7, <1>8, <1>9 DEF TypeOK, CallLoads

LEMMA TypeStep ==
  ASSUME TypeOK, [Next]_vars
  PROVE  TypeOK'
<1>1. CASE Tick
  BY <1>1, TickType
<1>2. ASSUME NEW a \in Axes, SlaveIsr(a) PROVE TypeOK'
  BY <1>2, IsrType
<1>3. CASE Commands
  <2>1. PICK a \in Axes, size \in MoveSizes \cup {0}, p \in Periods : CallBegins(a, size, p)
    BY <1>3 DEF Commands
  <2>2. call' \in Calls
    BY <2>1 DEF CallBegins, Calls
  <2>3. commands' \in 0 .. MAX_COMMANDS
    BY <2>1, Constants DEF CallBegins, TypeOK
  <2> QED BY <2>1, <2>2, <2>3 DEF CallBegins, TypeOK, chanVars, masterVars, slaveVars
<1>4. CASE CallLoads
  BY <1>4, LoadsType
<1>5. CASE CallEnables
  BY <1>5 DEF CallEnables, TypeOK, slaveVars, history
<1>6. ASSUME NEW as \in SUBSET Axes, Cut(as) PROVE TypeOK'
  BY <1>6 DEF Cut, TypeOK, slaveVars, history
<1>7. CASE UNCHANGED vars
  BY <1>7 DEF vars, TypeOK, chanVars, masterVars, slaveVars, history
<1> QED BY <1>1, <1>2, <1>3, <1>4, <1>5, <1>6, <1>7 DEF Next

(* The registers stay within their width, however calls, interrupts and     *)
(* timers interleave.                                                       *)
THEOREM TypeCorrect == Spec => []TypeOK
<1>1. TypeOK /\ [Next]_vars => TypeOK'
  BY TypeStep
<1> QED BY <1>1, TypeInit, PTL DEF Spec

----------------------------------------------------------------------------
(* The count. *)

LEMMA LaterType ==
  ASSUME TypeOK, NEW a \in Axes
  PROVE  PeriodsLater(a) \in Nat /\ PeriodsLeft(a) \in Nat
<1>1. overflow_remaining[a] \in Nat /\ last_cycle_arr[a] \in Nat /\ TOP \in Nat
      /\ arr[a] \in Nat /\ cnt[a] \in 0 .. arr[a]
  BY Constants DEF TypeOK
<1>2. overflow_remaining[a] # 0 => (overflow_remaining[a] - 1) * TOP \in Nat
  BY <1>1, OneLess
<1>3. PeriodsLater(a) \in Nat
  BY <1>1, <1>2 DEF PeriodsLater
<1> QED BY <1>1, <1>3 DEF PeriodsLeft

LEMMA CountInit == Init => CountInv
BY Constants DEF Init, CountInv, MoveInv, Counts

(* An axis that a step leaves alone. *)
LEMMA MoveSame ==
  ASSUME NEW a \in Axes, MoveInv(a),
         mode'[a] = mode[a], overflow_remaining'[a] = overflow_remaining[a],
         last_cycle_arr'[a] = last_cycle_arr[a], arr'[a] = arr[a], cnt'[a] = cnt[a],
         uif'[a] = uif[a], target'[a] = target[a], put_out'[a] = put_out[a],
         Counts(a)' /\ Clean(a)' =>
           /\ Counts(a) /\ Clean(a)
           /\ compare[a] \in 1 .. period => compare'[a] \in 1 .. period'
           /\ enabled[a] \/ (call # NoCall /\ call.axis = a) =>
                enabled'[a] \/ (call' # NoCall /\ call'.axis = a)
  PROVE  MoveInv(a)'
<1>1. PeriodsLeft(a)' = PeriodsLeft(a)
  BY DEF PeriodsLeft, PeriodsLater
<1>2. Excess(a)' = Excess(a)
  BY DEF Excess
<1> QED BY <1>1, <1>2 DEF MoveInv

LEMMA TickCounts ==
  ASSUME TypeOK, TypeOK', CountInv, Tick
  PROVE  CountInv'
<1>1. \A a \in Axes : ~uif[a]
  BY DEF Tick, MayTick, CountInv
<1>2. /\ call' # NoCall => call'.ticked /\ disturbed'[call'.axis] /\ call # NoCall
                           /\ call'.axis = call.axis /\ call'.at = call.at
      /\ \A a \in Axes : (disturbed[a] => disturbed'[a]) /\ (starved'[a] = starved[a])
      /\ call = NoCall <=> call' = NoCall
  <2>1. CASE call = NoCall
    BY <2>1 DEF Tick
  <2>2. CASE call # NoCall
    <3>1. call \in Calls /\ call.axis \in Axes
      BY <2>2, CallType DEF TypeOK
    <3> QED BY <2>2, <3>1 DEF Tick, Calls, NoCall, TypeOK
  <2> QED BY <2>1, <2>2
<1>3. ASSUME NEW a \in Axes PROVE MoveInv(a)'
  <2>1. Excess(a)' = Excess(a) /\ PeriodsLater(a)' = PeriodsLater(a)
    BY DEF Tick, Excess, PeriodsLater, chanVars
  <2>2. /\ mode'[a] = mode[a] /\ target'[a] = target[a] /\ arr'[a] = arr[a]
        /\ overflow_remaining'[a] = overflow_remaining[a]
        /\ last_cycle_arr'[a] = last_cycle_arr[a]
        /\ compare'[a] = compare[a] /\ period' = period /\ enabled'[a] = enabled[a]
    BY DEF Tick, chanVars, masterVars
  <2>3. CASE mode[a] # "TARGETED"
    <3>1. put_out'[a] = put_out[a]
      BY <2>3 DEF Tick, TypeOK
    <3> QED BY <2>1, <2>2, <2>3, <3>1 DEF CountInv, MoveInv, Counts
  <2>4. CASE mode[a] = "TARGETED"
    <3>1. arr[a] > 0 /\ arr[a] \in Nat /\ cnt[a] \in 0 .. arr[a]
      BY <2>4 DEF CountInv, MoveInv, TypeOK
    <3>2. PeriodsLeft(a)' = PeriodsLeft(a) - 1
      <4>1. PeriodsLater(a) \in Nat
        BY LaterType
      <4>2. CASE cnt[a] = arr[a]
        <5>1. uif'[a] /\ ~uif[a]
          BY <1>1, <3>1, <4>2 DEF Tick, Overflows
        <5> QED BY <2>1, <3>1, <4>1, <4>2, <5>1 DEF PeriodsLeft
      <4>3. CASE cnt[a] # arr[a]
        <5>1. ~uif'[a] /\ ~uif[a] /\ cnt'[a] = cnt[a] + 1
          <6>1. ~Overflows(a) /\ arr[a] # 0
            BY <3>1, <4>3 DEF Overflows
          <6>2. cnt'[a] = cnt[a] + 1
            BY <6>1 DEF Tick
          <6>3. ~uif[a] /\ ~uif'[a]
            BY <1>1, <6>1 DEF Tick
          <6> QED BY <6>2, <6>3
        <5> QED BY <2>1, <2>2, <3>1, <4>1, <5>1 DEF PeriodsLeft
      <4> QED BY <4>2, <4>3
    <3>3. /\ put_out[a] \in Nat /\ put_out'[a] \in {put_out[a], put_out[a] + 1}
          /\ PutsOut(a) => put_out'[a] = put_out[a] + 1
      BY <2>4 DEF Tick, TypeOK
    <3>4. PeriodsLeft(a) \in Nat /\ PeriodsLeft(a)' \in Nat
      <4>1. PeriodsLeft(a) \in Nat
        BY LaterType
      <4>2. arr'[a] \in Nat /\ cnt'[a] \in 0 .. arr'[a] /\ PeriodsLater(a) \in Nat
        BY LaterType, <2>2, <3>1 DEF TypeOK
      <4> QED BY <2>1, <4>1, <4>2 DEF PeriodsLeft
    <3>5. Excess(a) \in Nat /\ target[a] \in Nat
      BY Constants DEF Excess, TypeOK
    <3>6. ASSUME Counts(a)', Clean(a)'
          PROVE  /\ Counts(a) /\ Clean(a)
                 /\ call = NoCall \/ call.axis # a
      <4>1. Clean(a)
        BY <1>2, <3>6 DEF Clean
      <4>2. CASE call = NoCall
        BY <2>4, <4>1, <4>2 DEF Counts
      <4>3. CASE call # NoCall
        <5>1. call' # NoCall /\ disturbed'[call'.axis] /\ call'.axis = call.axis
          BY <1>2, <4>3
        <5>2. call.axis # a
          BY <3>6, <5>1 DEF Clean
        <5> QED BY <2>4, <4>1, <5>2 DEF Counts
      <4> QED BY <4>2, <4>3
    <3> QED BY <2>1, <2>2, <2>4, <3>2, <3>3, <3>4, <3>5, <3>6
            DEF CountInv, MoveInv, PutsOut
  <2> QED BY <2>3, <2>4
<1> QED BY <1>2, <1>3 DEF CountInv

LEMMA IsrCounts ==
  ASSUME TypeOK, CountInv, NEW a \in Axes, SlaveIsr(a)
  PROVE  CountInv'
<1>1. call = NoCall /\ uif[a] /\ UNCHANGED <<period, compare, call, commands, history>>
  BY DEF SlaveIsr
<1>2. ASSUME NEW b \in Axes, b # a PROVE MoveInv(b)'
  <2>1. MoveInv(b)
    BY DEF CountInv
  <2>2. uif'[b] = uif[b]
    BY <1>2 DEF SlaveIsr, TypeOK
  <2>3. /\ mode'[b] = mode[b] /\ overflow_remaining'[b] = overflow_remaining[b]
        /\ last_cycle_arr'[b] = last_cycle_arr[b] /\ arr'[b] = arr[b]
        /\ cnt'[b] = cnt[b] /\ enabled'[b] = enabled[b]
    BY <1>2 DEF SlaveIsr, IsrIgnores, IsrReloads, IsrEndsMove, chanVars, TypeOK
  <2> QED BY <1>1, <2>1, <2>2, <2>3, MoveSame DEF Counts, Clean, history
<1>3. MoveInv(a)'
  <2>1. /\ target'[a] = target[a] /\ put_out'[a] = put_out[a] /\ Excess(a)' = Excess(a)
        /\ Clean(a)' = Clean(a) /\ compare'[a] = compare[a] /\ period' = period
    BY <1>1 DEF history, Excess, Clean
  <2>2. CASE IsrIgnores(a)
    BY <2>1, <2>2 DEF IsrIgnores, CountInv, MoveInv, Counts, chanVars
  <2>3. CASE IsrEndsMove(a)
    BY <2>1, <2>3 DEF IsrEndsMove, CountInv, MoveInv, Counts, TypeOK
  <2>4. CASE IsrReloads(a)
    <3>1. /\ mode[a] = "TARGETED" /\ mode' = mode /\ enabled' = enabled
          /\ overflow_remaining[a] \in Nat \ {0}
          /\ overflow_remaining'[a] = overflow_remaining[a] - 1
          /\ last_cycle_arr'[a] = last_cycle_arr[a] /\ last_cycle_arr[a] \in Nat
          /\ cnt'[a] = 0 /\ ~uif'[a]
          /\ arr'[a] = IF overflow_remaining[a] = 1 THEN last_cycle_arr[a] ELSE arr[a]
      BY <2>4 DEF IsrReloads, SlaveIsr, TypeOK
    <3>2. a \in Narrow /\ arr[a] = TOP - 1 /\ last_cycle_arr[a] > 0 /\ arr[a] > 0
      BY <3>1 DEF CountInv, MoveInv
    <3>3. PeriodsLeft(a)' = PeriodsLeft(a)
      <4>1. PeriodsLeft(a) = (overflow_remaining[a] - 1) * TOP + last_cycle_arr[a] + 1
        <5>1. PeriodsLater(a) \in Nat
          BY LaterType
        <5>2. PeriodsLeft(a) = PeriodsLater(a)
          BY <1>1, <5>1 DEF PeriodsLeft
        <5> QED BY <3>1, <5>2 DEF PeriodsLater
      <4>2. CASE overflow_remaining[a] = 1
        <5>1. PeriodsLeft(a)' = last_cycle_arr[a] + 1
          BY <3>1, <4>2 DEF PeriodsLeft, PeriodsLater
        <5>2. (overflow_remaining[a] - 1) * TOP = 0
          BY <4>2, Constants
        <5> QED BY <3>1, <4>1, <5>1, <5>2
      <4>3. CASE overflow_remaining[a] # 1
        <5> DEFINE k == overflow_remaining[a] - 1
        <5>1. k \in Nat \ {0} /\ TOP \in Nat
          BY <3>1, <4>3, Constants
        <5>2. k * TOP = (k - 1) * TOP + TOP /\ (k - 1) * TOP \in Nat
          BY <5>1, OneLess
        <5>3. PeriodsLeft(a)' = (TOP - 1 - 0 + 1) + ((k - 1) * TOP + last_cycle_arr[a] + 1)
          BY <3>1, <3>2, <4>3, <5>1 DEF PeriodsLeft, PeriodsLater
        <5> QED BY <3>1, <4>1, <5>1, <5>2, <5>3
      <4> QED BY <4>2, <4>3
    <3>4. overflow_remaining'[a] > 0 => arr'[a] = TOP - 1
      BY <3>1, <3>2
    <3> QED BY <1>1, <2>1, <3>1, <3>2, <3>3, <3>4 DEF CountInv, MoveInv, Counts
  <2> QED BY <2>2, <2>3, <2>4 DEF SlaveIsr
<1> QED BY <1>1, <1>2, <1>3 DEF CountInv

LEMMA LoadsCount ==
  ASSUME NoSingleRest, TypeOK, CountInv, CallLoads
  PROVE  CountInv'
<1> DEFINE n == call.size
<1> SUFFICES ASSUME NEW c \in Axes, c = call.axis
             PROVE  CountInv'
  BY CallType DEF CallLoads, NoCall
<1>1. /\ call # NoCall /\ call.at = "enter"
      /\ c \in Axes /\ n \in MoveSizes \cup {0} /\ call.period \in Periods
      /\ call' # NoCall /\ call'.at = "enable" /\ call'.axis = c
      /\ call'.ticked = call.ticked
  <2>1. call # NoCall
    BY DEF CallLoads, NoCall
  <2> QED BY <2>1, CallType DEF CallLoads
<1>2. /\ uif' = uif /\ (~call.ticked => ~uif[c])
      /\ target'[c] = n /\ put_out'[c] = 0 /\ cnt'[c] = 0
      /\ period' = call.period /\ compare'[c] = call.period \div 2
      /\ call.ticked => disturbed[c]
      /\ disturbed' = disturbed
  BY <1>1 DEF CallLoads, CountInv, TypeOK
<1>3. ASSUME NEW a \in Axes, a # c PROVE MoveInv(a)'
  <2>1. MoveInv(a)
    BY DEF CountInv
  <2>2. /\ target'[a] = target[a] /\ put_out'[a] = put_out[a] /\ cnt'[a] = cnt[a]
        /\ compare'[a] = compare[a] /\ enabled'[a] = enabled[a]
        /\ Clean(a)' => Clean(a) /\ compare[a] <= call.period
    BY <1>1, <1>3, Constants DEF CallLoads, TypeOK, Clean
  <2>3. /\ mode'[a] = mode[a] /\ overflow_remaining'[a] = overflow_remaining[a]
        /\ last_cycle_arr'[a] = last_cycle_arr[a] /\ arr'[a] = arr[a]
    BY <1>1, <1>3 DEF CallLoads, LoadHoming, LoadCount, TypeOK
  <2>4. compare[a] \in Nat /\ call.period \in Nat /\ period \in Nat
    BY <1>1, Constants DEF TypeOK
  <2>5. ASSUME Counts(a)', Clean(a)'
        PROVE  /\ Counts(a) /\ Clean(a)
               /\ compare[a] \in 1 .. period => compare'[a] \in 1 .. period'
    BY <1>1, <1>2, <1>3, <2>2, <2>3, <2>4, <2>5 DEF Counts
  <2> QED BY <1>1, <1>2, <1>3, <2>1, <2>2, <2>3, <2>5, MoveSame
<1>4. MoveInv(c)'
  <2>1. CASE n = 0
    <3>1. mode'[c] = "HOMING" /\ target'[c] = 0
      BY <1>1, <1>2, <2>1, Constants DEF CallLoads, LoadHoming, TypeOK
    <3> QED BY <3>1 DEF MoveInv, Counts
  <2>2. CASE n # 0
    <3>1. n \in MoveSizes /\ n \in Nat /\ n > 0 /\ TOP \in Nat \ {0, 1}
      BY <1>1, <2>2, Constants
    <3>2. /\ mode'[c] = "TARGETED"
          /\ overflow_remaining'[c] = IF IsLong(c, n) THEN FullCycles(n) ELSE 0
          /\ IsLong(c, n) => last_cycle_arr'[c] = RestArr(n)
          /\ arr'[c] = IF ~IsLong(c, n) THEN n
                       ELSE IF FullCycles(n) > 0 THEN TOP - 1 ELSE RestArr(n)
      BY <1>1, <2>2 DEF CallLoads, LoadCount, TypeOK
    <3>3. Excess(c)' = IF IsLong(c, n) THEN 0 ELSE 1
      BY <1>2 DEF Excess, IsLong
    <3>4. IsLong(c, n) =>
            /\ c \in Narrow /\ FullCycles(n) \in Nat
            /\ RestArr(n) \in 0 .. TOP - 1 /\ RestArr(n) > 0
            /\ n = FullCycles(n) * TOP + RestArr(n) + 1
      BY <3>1, SplitType, SplitIsSize, RestIsPositive DEF IsLong
    <3>5. /\ arr'[c] > 0
          /\ overflow_remaining'[c] > 0 =>
               c \in Narrow /\ arr'[c] = TOP - 1 /\ last_cycle_arr'[c] > 0
      BY <3>1, <3>2, <3>4
    <3>6. /\ PeriodsLeft(c)' \in Int
          /\ PeriodsLeft(c)' <= n + (IF IsLong(c, n) THEN 0 ELSE 1)
          /\ ~uif[c] => PeriodsLeft(c)' = n + (IF IsLong(c, n) THEN 0 ELSE 1)
      <4>1. CASE ~IsLong(c, n)
        <5>1. PeriodsLeft(c)' = (IF uif[c] THEN 0 ELSE n - 0 + 1) + 0
          BY <1>2, <3>2, <4>1 DEF PeriodsLeft, PeriodsLater
        <5> QED BY <3>1, <4>1, <5>1
      <4>2. CASE IsLong(c, n) /\ FullCycles(n) = 0
        <5>1. PeriodsLeft(c)' = (IF uif[c] THEN 0 ELSE RestArr(n) - 0 + 1) + 0
          BY <1>2, <3>2, <3>4, <4>2 DEF PeriodsLeft, PeriodsLater
        <5>2. n = RestArr(n) + 1
          BY <3>1, <3>4, <4>2
        <5> QED BY <3>1, <3>4, <4>2, <5>1, <5>2
      <4>3. CASE IsLong(c, n) /\ FullCycles(n) # 0
        <5> DEFINE k == FullCycles(n)
        <5>1. k \in Nat \ {0}
          BY <3>4, <4>3
        <5>2. k * TOP = (k - 1) * TOP + TOP /\ (k - 1) * TOP \in Nat
          BY <3>1, <5>1, OneLess
        <5>3. PeriodsLeft(c)' = (IF uif[c] THEN 0 ELSE TOP - 1 - 0 + 1)
                                + ((k - 1) * TOP + RestArr(n) + 1)
          BY <1>2, <3>2, <3>4, <4>3, <5>1 DEF PeriodsLeft, PeriodsLater
        <5> HIDE DEF k
        <5>4. n = k * TOP + RestArr(n) + 1
          BY <3>4, <4>3 DEF k
        <5> QED BY <3>1, <3>4, <4>3, <5>2, <5>3, <5>4
      <4> QED BY <4>1, <4>2, <4>3
    <3>7. compare'[c] \in 1 .. period'
      BY <1>1, <1>2, Half, Constants
    <3>8. Clean(c)' => ~uif[c]
      BY <1>1, <1>2 DEF Clean
    <3> QED BY <1>1, <1>2, <3>1, <3>2, <3>3, <3>5, <3>6, <3>7, <3>8 DEF MoveInv
  <2> QED BY <2>1, <2>2
<1> QED BY <1>1, <1>2, <1>3, <1>4 DEF CountInv

LEMMA CountStep ==
  ASSUME NoSingleRest, TypeOK, CountInv, [Next]_vars
  PROVE  CountInv'
<1>1. CASE Tick
  BY <1>1, TickType, TickCounts
<1>2. ASSUME NEW a \in Axes, SlaveIsr(a) PROVE CountInv'
  BY <1>2, IsrCounts
<1>3. CASE Commands
  <2>1. PICK c \in Axes, size \in MoveSizes \cup {0}, p \in Periods : CallBegins(c, size, p)
    BY <1>3 DEF Commands
  <2>2. /\ call = NoCall /\ call' # NoCall /\ ~call'.ticked /\ call'.axis = c
        /\ call'.at = "enter" /\ uif' = uif /\ \A a \in Axes : ~uif[a]
    BY <2>1 DEF CallBegins, NoCall, slaveVars
  <2>3. ASSUME NEW a \in Axes PROVE MoveInv(a)'
    <3>1. MoveInv(a)
      BY DEF CountInv
    <3>2. a # c => (Clean(a)' => Clean(a))
      BY <2>1 DEF CallBegins, TypeOK, Clean
    <3> QED BY <2>1, <2>2, <3>1, <3>2, MoveSame
            DEF CallBegins, Counts, chanVars, masterVars, slaveVars
  <2> QED BY <2>2, <2>3 DEF CountInv
<1>4. CASE CallLoads
  BY <1>4, LoadsCount
<1>5. CASE CallEnables
  <2>1. call # NoCall /\ call.at = "enable" /\ call' = NoCall /\ call.axis \in Axes
    BY <1>5, CallType DEF CallEnables, NoCall
  <2>2. ASSUME NEW a \in Axes PROVE MoveInv(a)'
    <3>1. MoveInv(a)
      BY DEF CountInv
    <3>2. enabled'[a] = (a = call.axis \/ enabled[a])
      BY <1>5, <2>1 DEF CallEnables, TypeOK
    <3> QED BY <1>5, <2>1, <3>1, <3>2, MoveSame
            DEF CallEnables, Counts, Clean, slaveVars, history
  <2> QED BY <2>1, <2>2 DEF CountInv
<1>6. ASSUME NEW as \in SUBSET Axes, Cut(as) PROVE CountInv'
  <2>1. call = NoCall /\ call' = NoCall
    BY <1>6 DEF Cut
  <2>2. ASSUME NEW a \in Axes PROVE MoveInv(a)'
    <3>1. MoveInv(a)
      BY DEF CountInv
    <3>2. CASE a \in as
      <4>1. mode'[a] = "IDLE" /\ target' = target /\ put_out' = put_out
        BY <1>6, <3>2 DEF Cut, history
      <4> QED BY <3>1, <4>1 DEF MoveInv, Counts, Excess
    <3>3. CASE a \notin as
      <4>1. mode'[a] = mode[a] /\ enabled'[a] = enabled[a]
        BY <1>6, <3>3 DEF Cut, TypeOK
      <4> QED BY <1>6, <2>1, <3>1, <4>1, MoveSame DEF Cut, Counts, Clean, slaveVars, history
    <3> QED BY <3>2, <3>3
  <2> QED BY <2>1, <2>2 DEF CountInv
<1>7. CASE UNCHANGED vars
  <2>1. ASSUME NEW a \in Axes PROVE MoveInv(a)'
    <3>1. MoveInv(a)
      BY DEF CountInv
    <3> QED BY <1>7, <3>1, MoveSame
            DEF vars, Counts, Clean, chanVars, masterVars, slaveVars, history
  <2> QED BY <1>7, <2>1 DEF CountInv, vars, slaveVars, history
<1> QED BY <1>1, <1>2, <1>3, <1>4, <1>5, <1>6, <1>7 DEF Next

(* The pulses put out and the periods left add up, whatever commands,       *)
(* interrupts and cuts do, as long as no move leaves a rest of one pulse.   *)
THEOREM CountInvariant == NoSingleRest => (Spec => []CountInv)
<1> SUFFICES ASSUME NoSingleRest PROVE Spec => []CountInv
  OBVIOUS
<1>1. TypeOK /\ CountInv /\ [Next]_vars => CountInv'
  BY CountStep
<1> QED BY <1>1, CountInit, TypeCorrect, PTL DEF Spec

(* A move never puts out more than it was asked for, and the one pulse that *)
(* a move loaded in one piece has too much.                                 *)
THEOREM NeverTooFar == NoSingleRest => (Spec => []NeverOvershoots)
<1>1. CountInv => NeverOvershoots
  BY DEF CountInv, MoveInv, NeverOvershoots
<1> QED BY <1>1, CountInvariant, PTL

(* A move whose count nothing spoils ends with all its pulses out; one of   *)
(* several cycles ends with no pulse more.                                  *)
THEOREM MovesEndInFull == NoSingleRest => (Spec => EndsInFull)
<1> DEFINE InFull(a) == EndsByCount(a) /\ Clean(a) =>
                          /\ put_out[a] >= target[a]
                          /\ IsLong(a, target[a]) => put_out[a] = target[a]
<1>1. TypeOK /\ CountInv /\ [Next]_vars => [\A a \in Axes : InFull(a)]_vars
  <2> SUFFICES ASSUME TypeOK, CountInv, [Next]_vars, NEW a \in Axes,
                      EndsByCount(a), Clean(a)
               PROVE  /\ put_out[a] >= target[a]
                      /\ IsLong(a, target[a]) => put_out[a] = target[a]
    OBVIOUS
  <2>1. uif[a] /\ ~uif'[a] /\ IsrStops(a)
    BY DEF EndsByCount
  <2>2. call = NoCall
    BY <2>1 DEF Next, vars, slaveVars, Tick, SlaveIsr, Commands, CallBegins,
                CallLoads, CallEnables, Cut
  <2>3. MoveInv(a) /\ mode[a] = "TARGETED" /\ Counts(a)
    BY <2>1, <2>2 DEF CountInv, IsrStops, Counts
  <2>4. PeriodsLeft(a) = 0
    BY <2>1, <2>3 DEF MoveInv, IsrStops, PeriodsLeft, PeriodsLater, TypeOK
  <2>5. put_out[a] \in Nat /\ target[a] \in Nat
    BY Constants DEF TypeOK
  <2>6. put_out[a] = target[a] + Excess(a)
    BY <2>3, <2>4, <2>5 DEF MoveInv, Excess
  <2> QED BY <2>5, <2>6 DEF Excess
<1> SUFFICES ASSUME NoSingleRest PROVE Spec => EndsInFull
  OBVIOUS
<1> QED BY <1>1, CountInvariant, TypeCorrect, PTL DEF Spec, EndsInFull

=============================================================================
