------------------------ MODULE AxisInvariant_proofs ------------------------
(* Homing and the axes, for any number of motors and any ring that holds an *)
(* event of each line, for a machine that is restarted only at rest and     *)
(* whose axes move only under power: the events homing takes are true and   *)
(* none is lost, a zero is taken on the limit, pulses belong to moves, a    *)
(* machine that is ready stands still, and the flags follow the switches.   *)
EXTENDS AxisInvariant, HomingInvariant_proofs

----------------------------------------------------------------------------
(* From RESTART to the first command of homing nothing moves.               *)

LEMMA NoDrifts ==
  ASSUME OnlyPowerMoves, TypeOK, NEW m \in Motors
  PROVE  ~AxisDrifts(m)
BY DEF OnlyPowerMoves, AxisDrifts, TypeOK, HomingTypeOK

(* What the steps of the world around a homing task leave alone. *)
LEMMA AroundTask ==
  ASSUME NEW m \in Motors, Axis(m) \/ LimitWorker
  PROVE  UNCHANGED <<sysVars, safetyVars, taskVars>>
BY DEF Axis, AxisTurns, AxisDrifts, MoveEnds, EncoderRead, LimitWorker

LEMMA StartingSame ==
  ASSUME UNCHANGED <<spc, taskVars>>
  PROVE  Starting' <=> Starting
BY DEF Starting, taskVars

LEMMA LineIs ==
  /\ \A l \in Lines : l = <<l[1], l[2]>> /\ l[1] \in Motors /\ l[2] \in BOOLEAN
  /\ \A m \in Motors, up \in BOOLEAN :
       <<m, up>> \in Lines /\ <<m, up>>[1] = m /\ <<m, up>>[2] = up
BY DEF Lines

(* An axis turns one position in its direction. *)
LEMMA TurnsOnce ==
  ASSUME TypeOK, NEW m \in Motors, AxisTurns(m)
  PROVE  /\ pulsing[m] /\ son[m]
         /\ \A n \in Motors : n # m => pos'[n] = pos[n]
         /\ pos[m] # pos'[m]
         /\ settling' = settling \cup {l \in Lines : Level(l) # Level(l)'}
         /\ ~dir_up[m] =>
              \/ /\ REACH_UP /\ pos[m] = "up" /\ pos'[m] = "mid"
                 /\ settling' = settling \cup {<<m, TRUE>>}
              \/ /\ pos[m] = "mid" /\ pos'[m] = "down"
                 /\ settling' = settling \cup {<<m, FALSE>>}
         /\ UNCHANGED <<sysVars, stepVars, workVars, g_limit, ringVars, spc, taskVars>>
<1>0. pos \in [Motors -> Positions]
  BY DEF TypeOK, HomingTypeOK
<1>1. PICK p \in Positions :
        /\ AxisComesTo(m, p) /\ p # pos[m]
        /\ ~dir_up[m] => \/ pos[m] = "up" /\ p = "mid"
                         \/ pos[m] = "mid" /\ p = "down"
  BY DEF AxisTurns, AxisComesTo
<1>2. pos' = [pos EXCEPT ![m] = p]
  BY <1>1 DEF AxisComesTo
<1> DEFINE edges == {l \in Lines : l[1] = m /\ LevelIn(pos[m], l[2]) # LevelIn(p, l[2])}
<1>3. settling' = settling \cup edges
  BY <1>1 DEF AxisComesTo, LimitIsr
<1>4. pos'[m] = p /\ \A n \in Motors : n # m => pos'[n] = pos[n]
  BY <1>0, <1>2
<1>5. edges = {l \in Lines : Level(l) # Level(l)'}
  <2>1. ASSUME NEW l \in Lines PROVE l \in edges <=> Level(l) # Level(l)'
    <3>1. l[1] \in Motors /\ l[2] \in BOOLEAN
      BY DEF Lines
    <3> QED BY <1>4, <3>1 DEF Level, LevelIn
  <2> QED BY <2>1
<1>6. CASE pos[m] = "up" /\ p = "mid"
  <2>1. REACH_UP
    BY <1>0, <1>6 DEF Positions
  <2>2. edges = {<<m, TRUE>>}
    <3>1. ASSUME NEW l \in Lines PROVE l \in edges <=> l = <<m, TRUE>>
      BY <1>6, LineIs DEF LevelIn
    <3> QED BY <3>1, LineIs
  <2> QED BY <1>1, <1>3, <1>4, <1>5, <1>6, <2>1, <2>2 DEF AxisTurns, safetyVars
<1>7. CASE pos[m] = "mid" /\ p = "down"
  <2>2. edges = {<<m, FALSE>>}
    <3>1. ASSUME NEW l \in Lines PROVE l \in edges <=> l = <<m, FALSE>>
      BY <1>7, LineIs DEF LevelIn
    <3> QED BY <3>1, LineIs
  <2> QED BY <1>1, <1>3, <1>4, <1>5, <1>7, <2>2 DEF AxisTurns, safetyVars
<1>8. CASE dir_up[m]
  BY <1>1, <1>3, <1>4, <1>5, <1>8 DEF AxisTurns, safetyVars
<1> QED BY <1>1, <1>6, <1>7, <1>8

(* A step that starts no axis and turns none keeps those that stand still. *)
LEMMA StillStays ==
  ASSUME TypeOK, NEW m \in Motors,
         (pulsing'[m] => pulsing[m]) /\ (son'[m] => son[m])
  PROVE  Still(m) => Still(m)'
BY DEF Still

LEMMA CutCalms ==
  ASSUME TypeOK, NEW ms, CutChannels(ms)
  PROVE  \A m \in Motors : /\ (pulsing'[m] => pulsing[m]) /\ (son'[m] => son[m])
                          /\ (busy'[m] => busy[m])
BY DEF CutChannels, TypeOK, StepTypeOK

LEMMA NotifyCalms ==
  ASSUME TypeOK, NEW line, NEW active, NotifyLimit(line, active)
  PROVE  \A m \in Motors : /\ (pulsing'[m] => pulsing[m]) /\ (son'[m] => son[m])
                          /\ (busy'[m] => busy[m])
BY CutCalms DEF NotifyLimit, chanVars

LEMMA StageCalms ==
  ASSUME TypeOK, NEW m \in Motors, NEW stage, CutStage(m, stage)
  PROVE  /\ \A n \in Motors : (pulsing'[n] => pulsing[n]) /\ (son'[n] => son[n])
         /\ \A n \in Motors : n # m => busy'[n] = busy[n]
         /\ stage # "busy" => busy' = busy
         /\ stage = "pulses" => ~pulsing'[m]
BY DEF CutStage, TypeOK, StepTypeOK

----------------------------------------------------------------------------
(* From RESTART to the first command nothing moves. *)

LEMMA StillWhenStarting ==
  ASSUME StartIsStill, Starting' => Starting,
         Starting => /\ settling' = settling /\ worker' = worker
                     /\ \A m \in Motors : (pulsing'[m] => pulsing[m]) /\ (son'[m] => son[m])
  PROVE  StartIsStill'
<1>1. ASSUME Starting' PROVE settling' = {} /\ worker' = "idle"
                             /\ \A m \in Motors : ~(pulsing'[m] /\ son'[m])
  BY <1>1 DEF StartIsStill, Still
<1> QED BY <1>1 DEF StartIsStill, Still

LEMMA AxisStart ==
  ASSUME OnlyPowerMoves, TypeOK, StartIsStill, NEW m \in Motors, Axis(m)
  PROVE  StartIsStill'
<1>1. Starting' <=> Starting
  BY AroundTask, StartingSame DEF safetyVars
<1>2. CASE AxisTurns(m)
  BY <1>1, <1>2, TurnsOnce, StillWhenStarting DEF StartIsStill, Still
<1>3. CASE MoveEnds(m)
  BY <1>1, <1>3, StillWhenStarting
  DEF MoveEnds, SlaveIsr, limitVars, workVars, TypeOK, StepTypeOK
<1>4. CASE EncoderRead(m)
  BY <1>1, <1>4, StillWhenStarting DEF EncoderRead, stepVars, limitVars, workVars
<1> QED BY <1>2, <1>3, <1>4, NoDrifts DEF Axis

LEMMA WorkerNeedsWork ==
  ASSUME LimitWorker
  PROVE  worker # "idle" \/ settling # {}
BY DEF LimitWorker, WorkerReads, WorkerContinues, WorkerNotifies, WorkerCuts,
       WorkerSetsLevel, WorkerPushes, WorkerPosts, CutStages

LEMMA WorkerStart ==
  ASSUME StartIsStill, LimitWorker
  PROVE  StartIsStill'
<1>1. Starting' <=> Starting
  BY StartingSame DEF LimitWorker, safetyVars
<1>2. ~Starting
  BY WorkerNeedsWork DEF StartIsStill
<1> QED BY <1>1, <1>2 DEF StartIsStill

LEMMA SafetyEventStart ==
  ASSUME ORDERLY_RESTART, StartIsStill, NEW b \in BtnEvents, SafetyEvent(b)
  PROVE  StartIsStill'
<1>1. UNCHANGED <<stepVars, limitVars, taskVars>>
  BY DEF SafetyEvent
<1>2. CASE HandleBtnEvent(b, "SPAWN_HOMING")
  <2>1. b = "RESTART"
    BY <1>2 DEF HandleBtnEvent, HandleStart, HandleStop, Latch
  <2>2. AtRest
    BY <2>1 DEF SafetyEvent, MayPress
  <2>3. settling' = {} /\ worker' = "idle" /\ \A m \in Motors : ~(pulsing'[m] /\ son'[m])
    BY <1>1, <2>2 DEF AtRest, stepVars, limitVars, workVars
  <2> QED BY <2>3 DEF StartIsStill, Still
<1>3. CASE spc' # "spawn" \/ UNCHANGED spc
  <2>1. Starting' => Starting
    BY <1>1, <1>3 DEF Starting, taskVars
  <2> QED BY <1>1, <2>1, StillWhenStarting DEF stepVars, limitVars, workVars
<1> QED BY <1>2, <1>3 DEF SafetyEvent, safetyVars

LEMMA SafetyTaskStart ==
  ASSUME TypeOK, StartIsStill, SafetyTask
  PROVE  StartIsStill'
<1>1. UNCHANGED limitVars
  BY DEF SafetyTask, SafetySpawns, SafetySpawnFails, SafetyStops
<1>2. Starting' => Starting
  <2>1. ASSUME NEW t \in Tasks, SafetySpawns(t) PROVE Starting
    BY <2>1 DEF SafetySpawns, Starting
  <2>2. SafetySpawnFails => Starting
    BY DEF SafetySpawnFails, Starting
  <2>3. SafetyStops => spc' # "spawn" /\ UNCHANGED taskVars
    BY DEF SafetyStops, SafetyNextDevice
  <2> QED BY <2>1, <2>2, <2>3 DEF SafetyTask, Starting, taskVars
<1>3. \A m \in Motors : (pulsing'[m] => pulsing[m]) /\ (son'[m] => son[m])
  <2>1. SafetyStops => \A m \in Motors : (pulsing'[m] => pulsing[m]) /\ (son'[m] => son[m])
    BY CutCalms DEF SafetyStops, IoctlEstop, stepVars
  <2> QED BY <2>1 DEF SafetyTask, SafetySpawns, SafetySpawnFails, stepVars
<1> QED BY <1>1, <1>2, <1>3, StillWhenStarting DEF limitVars, workVars

(* The one homing task. *)
LEMMA OneTask ==
  ASSUME TypeOK, HomingInv, NEW t \in Tasks, HomingTask(t)
  PROVE  /\ hpc[t] # "none" /\ spc # "spawn" /\ spc' = spc
         /\ \A u \in Tasks : u # t => hpc[u] = "none" /\ hpc'[u] = "none"
<1>1. hpc[t] # "none" /\ spc' = spc
  BY TaskIsThere, HomingLeavesSafety
<1>2. \A u \in Tasks : u # t => hpc'[u] = hpc[u]
  BY DEF HomingTask, HomingFlushes, HomingDrains, HomingReads,
         HomingNotifiesDriver, HomingFindsAtLimit, HomingCapturesAtStart,
         HomingChecksAbort, HomingSkipsReached, HomingAsksHome,
         HomingSendsHome, HomingTimesOut, HomingTakesEvent, HomingChecksKnown,
         HomingMarksReached, HomingCaptures, HomingAsksLift, HomingChecksLift,
         HomingSendsLift, HomingPollsBusy, HomingCutsSon, HomingSetsHomed,
         HomingNotifies, Goto, Exit, Loop, TypeOK, HomingTypeOK
<1> QED BY <1>1, <1>2 DEF HomingInv, AtMostOneHomingTask, NoHomingTask

LEMMA TaskLeaves ==
  ASSUME NEW t \in Tasks, HomingTask(t)
  PROVE  UNCHANGED <<settling, worker, workLine, workActive, g_limit, pos>>
BY DEF HomingTask, HomingFlushes, HomingDrains, HomingReads,
       HomingNotifiesDriver, HomingFindsAtLimit, HomingCapturesAtStart,
       HomingChecksAbort, HomingSkipsReached, HomingAsksHome, HomingSendsHome,
       HomingTimesOut, HomingTakesEvent, HomingChecksKnown, HomingMarksReached,
       HomingCaptures, HomingAsksLift, HomingChecksLift, HomingSendsLift,
       HomingPollsBusy, HomingCutsSon, HomingSetsHomed, HomingNotifies,
       axisVars, limitVars, workVars

LEMMA LoopGoes ==
  ASSUME TypeOK, NEW t \in Tasks, NEW again, NEW done, Loop(t, again, done)
  PROVE  hpc'[t] \in {again, done}
BY LoopAt

(* A task is at its start only when it has just been created. *)
LEMMA TaskGoesOn ==
  ASSUME TypeOK, NEW t \in Tasks, HomingTask(t),
         hpc[t] \notin BeforeStep0 \cup Step0Pcs
  PROVE  hpc'[t] \notin BeforeStep0 \cup Step0Pcs
<1> USE DEF BeforeStep0, Step0Pcs, InStep0
<1>1. /\ AfterHomes(t) \in {"wait2", "abort3"} /\ AfterWait(need[t]) \in {"wait2", "abort3"}
      /\ AfterKnown(hm[t]) \in {"wait2", "set2"}
  BY DEF AfterHomes, AfterWait, AfterKnown
<1>2. CASE HomingChecksAbort(t)
  <2>1. PICK check \in AbortChecks :
          hpc[t] = check[1] /\ (Goto(t, "none") \/ Goto(t, check[2]))
    BY <1>2 DEF HomingChecksAbort, Exit
  <2>2. hpc'[t] \in {"none", check[2]}
    BY <2>1, GotoAt
  <2> QED BY <2>2 DEF AbortChecks
<1>3. CASE HomingAsksHome(t) \/ HomingAsksLift(t) \/ HomingChecksLift(t) \/ HomingSkipsReached(t)
  <2>1. \/ Loop(t, "abort1", AfterHomes(t)) \/ Loop(t, "abort3", "poll3")
        \/ Goto(t, "home1") \/ Goto(t, "lift3") \/ Goto(t, "apply3") \/ Goto(t, "allow1")
    BY <1>3 DEF HomingAsksHome, HomingAsksLift, HomingChecksLift, HomingSkipsReached
  <2>2. hpc'[t] \in {"abort1", AfterHomes(t), "abort3", "poll3", "home1", "lift3",
                     "apply3", "allow1"}
    BY <2>1, LoopGoes, GotoAt
  <2> QED BY <1>1, <2>2
<1>4. CASE HomingSendsHome(t) \/ HomingSendsLift(t) \/ HomingCutsSon(t) \/ HomingSetsHomed(t)
  <2>1. \/ Loop(t, "abort1", AfterHomes(t)) \/ Loop(t, "abort3", "poll3")
        \/ Loop(t, "cut3", "homed4") \/ Loop(t, "homed4", "notify4")
    BY <1>4 DEF HomingSendsHome, HomingSendsLift, HomingCutsSon, HomingSetsHomed
  <2>2. hpc'[t] \in {"abort1", AfterHomes(t), "abort3", "poll3", "cut3", "homed4", "notify4"}
    BY <2>1, LoopGoes
  <2> QED BY <1>1, <2>2
<1>5. CASE HomingTakesEvent(t) \/ HomingPollsBusy(t)
  <2>1. hpc'[t] \in {hpc[t], "known2", "poll3"} \/ Loop(t, "busy3", "cut3")
    BY <1>5 DEF HomingTakesEvent, HomingPollsBusy, TypeOK, HomingTypeOK
  <2>2. hpc'[t] \in {hpc[t], "known2", "poll3", "busy3", "cut3"}
    BY <2>1, LoopGoes
  <2> QED BY <2>2
<1>6. CASE \/ HomingTimesOut(t) \/ HomingChecksKnown(t) \/ HomingMarksReached(t)
           \/ HomingCaptures(t) \/ HomingNotifies(t)
  <2>1. \/ Goto(t, "none") \/ Goto(t, AfterKnown(hm[t])) \/ Goto(t, "capture2")
        \/ Goto(t, AfterWait(need[t]))
    BY <1>6 DEF HomingTimesOut, HomingChecksKnown, HomingMarksReached, HomingCaptures,
                HomingNotifies, Exit
  <2>2. hpc'[t] \in {"none", AfterKnown(hm[t]), "capture2", AfterWait(need[t])}
    BY <2>1, GotoAt
  <2> QED BY <1>1, <2>2
<1>7. ~( \/ HomingFlushes(t) \/ HomingDrains(t) \/ HomingReads(t) \/ HomingNotifiesDriver(t)
         \/ HomingFindsAtLimit(t) \/ HomingCapturesAtStart(t))
  BY DEF HomingFlushes, HomingDrains, HomingReads, HomingNotifiesDriver,
         HomingFindsAtLimit, HomingCapturesAtStart
<1> QED BY <1>2, <1>3, <1>4, <1>5, <1>6, <1>7 DEF HomingTask

(* Only its two commands make a task set an axis in motion. *)
LEMMA TaskCalms ==
  ASSUME TypeOK, NEW t \in Tasks, HomingTask(t),
         ~HomingSendsHome(t), ~HomingSendsLift(t)
  PROVE  \A m \in Motors : /\ (pulsing'[m] => pulsing[m]) /\ (son'[m] => son[m])
                          /\ (busy'[m] => busy[m])
<1>1. HomingNotifiesDriver(t) =>
        \A m \in Motors : /\ (pulsing'[m] => pulsing[m]) /\ (son'[m] => son[m])
                         /\ (busy'[m] => busy[m])
  BY NotifyCalms DEF HomingNotifiesDriver
<1>2. HomingCutsSon(t) =>
        \A m \in Motors : /\ (pulsing'[m] => pulsing[m]) /\ (son'[m] => son[m])
                         /\ (busy'[m] => busy[m])
  BY DEF HomingCutsSon, IoctlSonOff, stepVars, TypeOK, StepTypeOK
<1> QED BY <1>1, <1>2
        DEF HomingTask, HomingFlushes, HomingDrains, HomingReads,
            HomingFindsAtLimit, HomingCapturesAtStart, HomingChecksAbort,
            HomingSkipsReached, HomingAsksHome, HomingTimesOut, HomingTakesEvent,
            HomingChecksKnown, HomingMarksReached, HomingCaptures,
            HomingAsksLift, HomingChecksLift, HomingPollsBusy, HomingSetsHomed,
            HomingNotifies, stepVars

LEMMA HomingTaskStart ==
  ASSUME TypeOK, HomingInv, StartIsStill, NEW t \in Tasks, HomingTask(t)
  PROVE  StartIsStill'
<1>1. Starting => hpc[t] \in BeforeStep0 \cup Step0Pcs
  BY OneTask DEF Starting, BeforeStep0, Step0Pcs, InStep0
<1>2. Starting' => hpc'[t] \in BeforeStep0 \cup Step0Pcs
  BY OneTask DEF Starting, BeforeStep0, Step0Pcs, InStep0
<1>3. Starting' => Starting
  BY <1>2, TaskGoesOn DEF Starting
<1>4. CASE HomingSendsHome(t) \/ HomingSendsLift(t)
  <2>1. ~Starting
    BY <1>1, <1>4 DEF HomingSendsHome, HomingSendsLift, BeforeStep0, Step0Pcs, InStep0
  <2> QED BY <1>3, <2>1 DEF StartIsStill
<1>5. CASE ~(HomingSendsHome(t) \/ HomingSendsLift(t))
  BY <1>3, <1>5, TaskCalms, TaskLeaves, StillWhenStarting
<1> QED BY <1>4, <1>5

LEMMA StartStep ==
  ASSUME ORDERLY_RESTART, OnlyPowerMoves, TypeOK, HomingInv, StartIsStill, [Next]_vars
  PROVE  StartIsStill'
<1>1. ASSUME UNCHANGED vars PROVE StartIsStill'
  <2>1. UNCHANGED <<spc, taskVars, settling, worker, pulsing, son>>
    BY <1>1 DEF vars, safetyVars, limitVars, workVars, stepVars
  <2> QED BY <2>1, StartingSame, StillWhenStarting
<1> QED BY <1>1, AxisStart, WorkerStart, SafetyEventStart, SafetyTaskStart,
           HomingTaskStart DEF Next

----------------------------------------------------------------------------
(* The ring.  No line reports twice, so that the head does not come round. *)

LEMMA EdgesFinite == IsFiniteSet(EdgeLines) /\ Cardinality(EdgeLines) \in Nat
<1>1. IsFiniteSet(Motors)
  BY FS_Interval, MotorCountAssumption DEF Motors
<1>2. IsFiniteSet(BOOLEAN)
  <2>1. BOOLEAN = {TRUE} \cup {FALSE}
    OBVIOUS
  <2>2. IsFiniteSet({TRUE})
    BY FS_Singleton
  <2>3. IsFiniteSet({TRUE} \cup {FALSE})
    BY ONLY <2>2, FS_AddElement
  <2> QED BY <2>1, <2>3
<1>3. IsFiniteSet(Lines)
  BY <1>1, <1>2, FS_Product DEF Lines
<1> QED BY <1>3, FS_Subset, FS_CardinalityType DEF EdgeLines

LEMMA RingRoom ==
  ASSUME RingHoldsAll, TypeOK, EventsAreRight, worker \notin {"idle", "post"}
  PROVE  /\ lhead + 1 < LIMIT_QUEUE_SIZE
         /\ After(lhead) = lhead + 1
         /\ ~RingFull
<1>1. /\ lhead \in Nat /\ ltail \in Nat /\ lhead < LIMIT_QUEUE_SIZE
      /\ LIMIT_QUEUE_SIZE \in Nat /\ ltail <= lhead
  BY QueueSizeAssumption DEF TypeOK, LimitTypeOK, Slots, EventsAreRight
<1>2. lhead + 1 < LIMIT_QUEUE_SIZE
  <2> DEFINE f == [s \in 0 .. lhead |-> IF s = lhead THEN workLine ELSE lqueue[s]]
  <2>1. workLine \in EdgeLines /\ workLine \notin Reported
    BY DEF EventsAreRight, WithEdge, InHand
  <2>2. \A s \in 0 .. lhead - 1 : lqueue[s] \in Reported /\ lqueue[s] \in EdgeLines
    BY DEF EventsAreRight, WithEdge, Reported
  <2>3. \A s \in 0 .. lhead : s # lhead => s \in 0 .. lhead - 1
    BY <1>1
  <2>4. f \in [0 .. lhead -> EdgeLines]
    BY <2>1, <2>2, <2>3
  <2>5. \A r, s \in 0 .. lhead : f[r] = f[s] => r = s
    BY <2>1, <2>2, <2>3 DEF EventsAreRight
  <2> HIDE DEF f
  <2>6. IsFiniteSet(0 .. lhead) /\ Cardinality(0 .. lhead) = lhead + 1
    BY <1>1, FS_Interval
  <2>7. ~(Cardinality(EdgeLines) < Cardinality(0 .. lhead))
    BY <2>4, <2>5, <2>6, EdgesFinite, FS_PigeonHole
  <2> QED BY <1>1, <2>6, <2>7, EdgesFinite DEF RingHoldsAll
<1>3. After(lhead) = lhead + 1
  BY <1>1, <1>2 DEF After
<1> QED BY <1>1, <1>2, <1>3 DEF RingFull

LEMMA TailStep ==
  ASSUME TypeOK, EventsAreRight, lsem > 0
  PROVE  /\ ltail < lhead /\ After(ltail) = ltail + 1
         /\ EventAtTail \in Reported
<1>1. /\ lhead \in Nat /\ ltail \in Nat /\ lhead < LIMIT_QUEUE_SIZE
      /\ LIMIT_QUEUE_SIZE \in Nat /\ lsem \in Nat
  BY QueueSizeAssumption DEF TypeOK, LimitTypeOK, Slots
<1>2. ltail < lhead
  BY <1>1 DEF EventsAreRight
<1>3. After(ltail) = ltail + 1
  BY <1>1, <1>2 DEF After
<1> QED BY <1>1, <1>2, <1>3 DEF EventAtTail, Reported

----------------------------------------------------------------------------
(* Around a homing task in steps 1 to 3. *)

(* Axes come to rest and stay. *)
LEMMA RestAwaits ==
  ASSUME AwaitsEvents, UNCHANGED <<limitVars, pos, limit_reached>>,
         \A m \in Motors : (Still(m) => Still(m)') /\ (MovesDown(m) => MovesDown(m)'),
         workLine \in Lines
  PROVE  AwaitsEvents' /\ Reported' = Reported
<1>1. Reported' = Reported /\ InHand' = InHand
  BY DEF Reported, InHand, limitVars, workVars, ringVars
<1>2. EventsAreRight'
  BY <1>1 DEF AwaitsEvents, EventsAreRight, WithEdge, EdgeIsOver, limitVars, workVars, ringVars
<1>3. WorkIsRight'
  BY LineIs DEF AwaitsEvents, WorkIsRight, limitVars, workVars
<1>4. \A m \in Motors : Arrived(m) => Arrived(m)'
  BY DEF Arrived, limitVars, workVars
<1> QED BY <1>1, <1>2, <1>3, <1>4 DEF AwaitsEvents

LEMMA RestOthers ==
  ASSUME UNCHANGED <<limitVars, pos, limit_reached>>, NEW m \in Motors,
         Still(m) => Still(m)'
  PROVE  /\ NotSentYet(m) => NotSentYet(m)'
         /\ CutIsOver(m) => CutIsOver(m)'
<1>1. WithEdge' = WithEdge
  BY DEF WithEdge, Reported, InHand, limitVars, workVars, ringVars
<1> QED BY <1>1 DEF NotSentYet, CutIsOver, Arrived, limitVars, workVars

LEMMA TurnsAwaits ==
  ASSUME TypeOK, NEW m \in Motors, AxisTurns(m), AwaitsEvents
  PROVE  AwaitsEvents' /\ Reported' = Reported
<1>0. pulsing[m] /\ son[m] /\ ~dir_up[m] /\ busy[m]
  BY TurnsOnce DEF AwaitsEvents, MovesDown, Still
<1>1. /\ UNCHANGED <<sysVars, stepVars, workVars, ringVars>>
      /\ \A n \in Motors : n # m => pos'[n] = pos[n]
  BY TurnsOnce
<1>2. Reported' = Reported /\ InHand' = InHand
  BY <1>1 DEF Reported, InHand, workVars, ringVars
<1>3. PICK l \in Lines :
        /\ l[1] = m /\ settling' = settling \cup {l}
        /\ l \in EdgeLines /\ ~EdgeIsOver(l) /\ EdgeIsOver(l)'
        /\ \A k \in Lines : EdgeIsOver(k) => EdgeIsOver(k)'
        /\ l = LowerLine(m) \/ l[2]
  <2>1. CASE /\ REACH_UP /\ pos[m] = "up" /\ pos'[m] = "mid"
             /\ settling' = settling \cup {<<m, TRUE>>}
    BY <1>1, <2>1, LineIs DEF EdgeLines, EdgeIsOver
  <2>2. CASE /\ pos[m] = "mid" /\ pos'[m] = "down"
             /\ settling' = settling \cup {<<m, FALSE>>}
    BY <1>1, <2>2, LineIs DEF EdgeLines, EdgeIsOver, LowerLine
  <2> QED BY <1>0, <2>1, <2>2, TurnsOnce
<1>4. l \notin WithEdge
  BY <1>3 DEF AwaitsEvents, EventsAreRight
<1>5. EventsAreRight'
  <2>1. WithEdge' = WithEdge \cup {l}
    BY <1>2, <1>3 DEF WithEdge
  <2>2. \A k \in WithEdge' : k \in EdgeLines /\ EdgeIsOver(k)'
    BY <1>3, <2>1 DEF AwaitsEvents, EventsAreRight, EdgeLines
  <2>3. settling' \cap (InHand' \cup Reported') = {}
    BY <1>2, <1>3, <1>4 DEF AwaitsEvents, EventsAreRight, WithEdge
  <2> QED BY <1>1, <1>2, <2>2, <2>3
          DEF AwaitsEvents, EventsAreRight, workVars, ringVars
<1>6. WorkIsRight' /\ \A n \in Motors : MovesDown(n)'
  BY <1>1 DEF AwaitsEvents, WorkIsRight, MovesDown, Still, workVars, stepVars
<1>7. \A n \in Motors : Arrived(n) => Arrived(n)'
  <2>1. SUFFICES ASSUME NEW n \in Motors, Arrived(n) PROVE Arrived(n)'
    OBVIOUS
  <2>2. n # m
    BY <1>0, <2>1 DEF Arrived, Still
  <2>3. LowerLine(n) \notin settling'
    BY <1>3, <2>1, <2>2, LineIs DEF Arrived, LowerLine
  <2> QED BY <1>1, <2>1, <2>2, <2>3 DEF Arrived, Still, workVars, stepVars
<1> QED BY <1>1, <1>2, <1>5, <1>6, <1>7 DEF AwaitsEvents, sysVars

LEMMA TurnsOthers ==
  ASSUME TypeOK, NEW m \in Motors, AxisTurns(m), NEW n \in Motors
  PROVE  /\ AwaitsEvents /\ NotSentYet(n) => NotSentYet(n)'
         /\ CutIsOver(n) => CutIsOver(n)'
<1>1. /\ UNCHANGED <<sysVars, stepVars, workVars, ringVars>>
      /\ \A k \in Motors : k # m => pos'[k] = pos[k]
      /\ settling' = settling \cup {l \in Lines : Level(l) # Level(l)'}
      /\ pulsing[m] /\ son[m]
  BY TurnsOnce
<1>2. Reported' = Reported /\ InHand' = InHand
  BY <1>1 DEF Reported, InHand, workVars, ringVars
<1>3. ASSUME n # m PROVE \A l \in settling' : l \in settling \/ l[1] # n
  BY <1>1, <1>3 DEF Level
<1>4. Still(n) => n # m
  BY <1>1 DEF Still
<1>5. NotSentYet(n) => NotSentYet(n)'
  <2>1. SUFFICES ASSUME NotSentYet(n) PROVE NotSentYet(n)'
    OBVIOUS
  <2>2. n # m
    BY <1>4, <2>1 DEF NotSentYet
  <2>3. \A l \in WithEdge' : l[1] # n
    BY <1>2, <1>3, <2>1, <2>2 DEF NotSentYet, WithEdge
  <2> QED BY <1>1, <2>1, <2>2, <2>3 DEF NotSentYet, Still, stepVars, sysVars
<1>6. CutIsOver(n) => CutIsOver(n)'
  <2>1. SUFFICES ASSUME CutIsOver(n) PROVE CutIsOver(n)'
    OBVIOUS
  <2>2. n # m
    BY <1>4, <2>1 DEF CutIsOver, Arrived
  <2>3. LowerLine(n) \notin settling'
    BY <1>3, <2>1, <2>2, LineIs DEF CutIsOver, Arrived, LowerLine
  <2> QED BY <1>1, <2>1, <2>2, <2>3 DEF CutIsOver, Arrived, Still, workVars, stepVars
<1> QED BY <1>5, <1>6

(* The worker begins with a settled line. *)
LEMMA ReadsAwaits ==
  ASSUME TypeOK, NEW l \in Lines, WorkerReads(l, Level(l)), UNCHANGED <<pos, limit_reached>>,
         AwaitsEvents
  PROVE  AwaitsEvents' /\ Reported' = Reported
<1>1. /\ worker = "idle" /\ worker' = "notify" /\ l \in settling
      /\ settling' = settling \ {l} /\ workLine' = l /\ workActive' = Level(l)
      /\ UNCHANGED <<ringVars, stepVars>>
  BY DEF WorkerReads
<1>2. Reported' = Reported /\ InHand = {} /\ InHand' = {l}
  BY <1>1 DEF Reported, InHand, ringVars
<1>3. EventsAreRight'
  <2>1. WithEdge' = WithEdge
    BY <1>1, <1>2 DEF WithEdge
  <2>2. \A k \in WithEdge' : k \in EdgeLines /\ EdgeIsOver(k)'
    BY <2>1 DEF AwaitsEvents, EventsAreRight, EdgeIsOver
  <2>3. l \notin Reported
    BY <1>1 DEF AwaitsEvents, EventsAreRight
  <2> QED BY <1>1, <1>2, <2>2, <2>3 DEF AwaitsEvents, EventsAreRight, ringVars
<1>4. WorkIsRight'
  <2>1. EdgeIsOver(l)
    BY <1>1 DEF AwaitsEvents, EventsAreRight, WithEdge
  <2>2. Level(l) = ~l[2]
    BY <2>1, LineIs DEF EdgeIsOver, Level
  <2> QED BY <1>1, <2>2 DEF WorkIsRight, CutStages
<1>5. \A m \in Motors : MovesDown(m)' /\ (Arrived(m) => Arrived(m)')
  BY <1>1 DEF AwaitsEvents, MovesDown, Arrived, Still, stepVars
<1> QED BY <1>2, <1>3, <1>4, <1>5 DEF AwaitsEvents

LEMMA ReadsOthers ==
  ASSUME TypeOK, NEW l \in Lines, WorkerReads(l, Level(l)), UNCHANGED <<pos, limit_reached>>,
         NEW m \in Motors
  PROVE  /\ NotSentYet(m) => NotSentYet(m)'
         /\ CutIsOver(m) => CutIsOver(m)'
<1>1. /\ worker = "idle" /\ worker' = "notify" /\ l \in settling
      /\ settling' = settling \ {l} /\ workLine' = l /\ workActive' = Level(l)
      /\ UNCHANGED <<ringVars, stepVars>>
  BY DEF WorkerReads
<1>2. WithEdge' = WithEdge
  BY <1>1 DEF WithEdge, Reported, InHand, ringVars
<1>3. Still(m)' <=> Still(m)
  BY <1>1 DEF Still, stepVars
<1>4. ASSUME CutIsOver(m) PROVE CutIsOver(m)'
  <2>1. l # LowerLine(m) /\ pos[m] = "down"
    BY <1>1, <1>4 DEF CutIsOver, Arrived
  <2>2. l[1] = m => ~Level(l)
    BY <2>1, LineIs DEF LowerLine, Level
  <2> QED BY <1>1, <1>3, <1>4, <2>1, <2>2 DEF CutIsOver, Arrived, CutStages
<1> QED BY <1>2, <1>3, <1>4 DEF NotSentYet

(* It tells the driver, and cuts the axis stage by stage. *)
LEMMA CutsAwaits ==
  ASSUME TypeOK, WorkerNotifies \/ WorkerCuts \/ WorkerSetsLevel,
         UNCHANGED <<pos, limit_reached>>, AwaitsEvents
  PROVE  AwaitsEvents' /\ Reported' = Reported
<1>0. workLine \in Lines /\ workLine[1] \in Motors
  BY LineIs DEF TypeOK, LimitTypeOK
<1>1. /\ UNCHANGED <<settling, workLine, workActive, ringVars, dir_up>>
      /\ worker \notin {"idle", "post", "push"} /\ worker' \notin {"idle", "post", "notify"}
  BY DEF WorkerNotifies, WorkerCuts, WorkerSetsLevel, CutStages, NextStage, CutStage,
         chanVars, stepVars
<1>2. Reported' = Reported /\ InHand' = InHand
  BY <1>1 DEF Reported, InHand, ringVars
<1>3. EventsAreRight'
  <2>1. WithEdge' = WithEdge
    BY <1>1, <1>2 DEF WithEdge
  <2>2. \A k \in WithEdge' : k \in EdgeLines /\ EdgeIsOver(k)'
    BY <2>1 DEF AwaitsEvents, EventsAreRight, EdgeIsOver
  <2> QED BY <1>1, <1>2, <2>2 DEF AwaitsEvents, EventsAreRight, ringVars
<1>4. /\ \A m \in Motors : (pulsing'[m] => pulsing[m]) /\ (son'[m] => son[m])
      /\ \A m \in Motors : busy'[m] = busy[m] \/ (worker = "busy" /\ m = workLine[1])
      /\ worker = "pulses" => ~pulsing'[workLine[1]]
  <2>1. CASE WorkerCuts
    BY <1>0, <2>1, StageCalms DEF WorkerCuts
  <2>2. CASE WorkerNotifies \/ WorkerSetsLevel
    BY <2>2 DEF WorkerNotifies, WorkerSetsLevel, chanVars, stepVars
  <2> QED BY <2>1, <2>2
<1>5. \A m \in Motors : Still(m) => Still(m)'
  BY <1>4 DEF Still
<1>6. WorkIsRight'
  <2>1. WorkIsRight /\ MovesDown(workLine[1])
    BY <1>0 DEF AwaitsEvents
  <2>2. CASE WorkerNotifies
    <3>1. worker = "notify" /\ worker' \in {"pulses", "level"}
          /\ (worker' = "level" /\ workActive => ~MovingTowards(workLine))
          /\ (worker' = "pulses" => workActive)
      BY <2>2 DEF WorkerNotifies
    <3>2. worker' = "level" /\ ~workLine[2] => Still(workLine[1])
      <4>1. SUFFICES ASSUME worker' = "level", ~workLine[2] PROVE Still(workLine[1])
        OBVIOUS
      <4>2. workActive /\ workLine[2] = FALSE
        BY <1>0, <2>1, <3>1, <4>1, LineIs DEF WorkIsRight
      <4>3. ~(busy[workLine[1]] /\ dir_up[workLine[1]] = FALSE)
        BY <3>1, <4>1, <4>2 DEF MovingTowards
      <4>4. dir_up[workLine[1]] \in BOOLEAN
        BY <1>0 DEF TypeOK, StepTypeOK
      <4> QED BY <2>1, <4>3, <4>4 DEF MovesDown
    <3> QED BY <1>0, <1>1, <1>5, <2>1, <3>1, <3>2 DEF WorkIsRight, CutStages
  <2>3. CASE WorkerCuts
    <3>1. worker \in CutStages /\ worker' \in {"busy", "mode", "son", "level"}
      BY <2>3 DEF WorkerCuts, CutStages, NextStage
    <3>2. Still(workLine[1])'
      <4>1. CASE worker = "pulses"
        BY <1>1, <1>4, <4>1 DEF Still
      <4>2. CASE worker # "pulses"
        <5>1. Still(workLine[1])
          BY <2>1, <3>1, <4>2 DEF WorkIsRight, CutStages
        <5> QED BY <1>0, <1>1, <1>5, <5>1
      <4> QED BY <4>1, <4>2
    <3> QED BY <1>1, <2>1, <3>1, <3>2 DEF WorkIsRight, CutStages
  <2>4. CASE WorkerSetsLevel
    BY <1>0, <1>1, <1>5, <2>1, <2>4 DEF WorkerSetsLevel, WorkIsRight, CutStages
  <2> QED BY <2>2, <2>3, <2>4
<1>7. ASSUME NEW m \in Motors PROVE MovesDown(m)'
  <2>1. MovesDown(m)
    BY DEF AwaitsEvents
  <2>2. CASE worker = "busy" /\ m = workLine[1]
    <3>1. Still(m)
      BY <2>2 DEF AwaitsEvents, WorkIsRight, CutStages
    <3> QED BY <1>5, <3>1 DEF MovesDown
  <2>3. CASE busy'[m] = busy[m]
    BY <1>1, <1>5, <2>1, <2>3 DEF MovesDown
  <2> QED BY <1>4, <2>2, <2>3
<1>8. \A m \in Motors : Arrived(m) => Arrived(m)'
  BY <1>1, <1>5 DEF Arrived
<1> QED BY <1>2, <1>3, <1>6, <1>7, <1>8 DEF AwaitsEvents

LEMMA CutsOthers ==
  ASSUME TypeOK, WorkerNotifies \/ WorkerCuts \/ WorkerSetsLevel,
         UNCHANGED <<pos, limit_reached>>, NEW m \in Motors
  PROVE  /\ NotSentYet(m) => NotSentYet(m)'
         /\ CutIsOver(m) => CutIsOver(m)'
<1>0. workLine \in Lines /\ workLine[1] \in Motors
  BY LineIs DEF TypeOK, LimitTypeOK
<1>1. /\ UNCHANGED <<settling, workLine, workActive, ringVars>>
      /\ worker \notin {"idle", "post"} /\ worker' \notin {"idle", "post"}
  BY DEF WorkerNotifies, WorkerCuts, WorkerSetsLevel, CutStages, NextStage
<1>2. WithEdge' = WithEdge
  BY <1>1 DEF WithEdge, Reported, InHand, ringVars
<1>3. Still(m) => Still(m)'
  <2>1. CASE WorkerCuts
    BY <1>0, <2>1, StageCalms DEF WorkerCuts, Still
  <2>2. CASE WorkerNotifies \/ WorkerSetsLevel
    BY <2>2 DEF WorkerNotifies, WorkerSetsLevel, chanVars, stepVars, Still
  <2> QED BY <2>1, <2>2
<1>4. ASSUME CutIsOver(m), workLine[1] = m PROVE worker' \notin CutStages
  BY <1>1, <1>4
  DEF CutIsOver, WorkerNotifies, WorkerCuts, WorkerSetsLevel, CutStages
<1> QED BY <1>1, <1>2, <1>3, <1>4 DEF NotSentYet, CutIsOver, Arrived

(* The event goes into the ring; the switch of the axis is reported. *)
LEMMA PushesAwaits ==
  ASSUME RingHoldsAll, TypeOK, WorkerPushes, UNCHANGED <<pos, limit_reached>>, AwaitsEvents
  PROVE  AwaitsEvents' /\ Reported \subseteq Reported'
<1>0. workLine \in Lines /\ workLine[1] \in Motors
  BY LineIs DEF TypeOK, LimitTypeOK
<1>1. /\ worker = "push" /\ worker' = "post"
      /\ UNCHANGED <<workLine, workActive, settling, ltail, lsem, stepVars>>
  BY DEF WorkerPushes
<1>2. EventsAreRight /\ WorkIsRight
  BY DEF AwaitsEvents
<1>3. /\ lqueue' = [lqueue EXCEPT ![lhead] = workLine] /\ lhead' = lhead + 1
      /\ lhead \in Nat /\ lhead \in Slots
  BY <1>1, <1>2, RingRoom DEF WorkerPushes, TypeOK, LimitTypeOK, Slots
<1>4. /\ lqueue'[lhead] = workLine
      /\ \A s \in 0 .. lhead - 1 : lqueue'[s] = lqueue[s]
      /\ \A s \in 0 .. lhead' - 1 : s = lhead \/ s \in 0 .. lhead - 1
      /\ lhead \in 0 .. lhead' - 1 /\ 0 .. lhead - 1 \subseteq 0 .. lhead' - 1
  BY <1>3 DEF TypeOK, LimitTypeOK, Slots
<1>5. Reported' = Reported \cup {workLine} /\ InHand = {workLine} /\ InHand' = {workLine}
  BY <1>1, <1>4 DEF Reported, InHand
<1>6. workLine \notin Reported /\ workLine \notin settling /\ EdgeIsOver(workLine)
  BY <1>1, <1>2, <1>5 DEF EventsAreRight, WithEdge
<1>7. EventsAreRight'
  <2>1. WithEdge' = WithEdge
    BY <1>1, <1>5 DEF WithEdge
  <2>2. \A k \in WithEdge' : k \in EdgeLines /\ EdgeIsOver(k)'
    BY <1>2, <2>1 DEF EventsAreRight, EdgeIsOver
  <2>3. \A r, s \in 0 .. lhead' - 1 : lqueue'[r] = lqueue'[s] => r = s
    BY <1>2, <1>4, <1>6 DEF EventsAreRight, Reported
  <2>4. ltail \in Int /\ lsem \in Int
    BY QueueSizeAssumption DEF TypeOK, LimitTypeOK, Slots
  <2>5. ltail' <= lhead' /\ lsem' + 1 = lhead' - ltail'
    BY <1>1, <1>2, <1>3, <2>4 DEF EventsAreRight
  <2>6. settling' \cap (InHand' \cup Reported') = {}
    BY <1>1, <1>2, <1>5, <1>6 DEF EventsAreRight
  <2> QED BY <1>1, <2>2, <2>3, <2>5, <2>6 DEF EventsAreRight
<1>8. WorkIsRight'
  BY <1>1, <1>2 DEF WorkIsRight, CutStages
<1>9. ASSUME NEW m \in Motors
      PROVE  MovesDown(m)' /\ (limit_reached'[m] \/ LowerLine(m) \in Reported' => Arrived(m)')
  <2>1. MovesDown(m)' /\ (Arrived(m) => Arrived(m)')
    BY <1>1 DEF AwaitsEvents, MovesDown, Arrived, Still, stepVars
  <2>2. ASSUME LowerLine(m) = workLine PROVE Arrived(m)'
    <3>1. pos[m] = "down" /\ Still(m)
      BY <1>1, <1>2, <1>6, <2>2, LineIs DEF EdgeIsOver, WorkIsRight, LowerLine
    <3> QED BY <1>1, <1>6, <2>2, <3>1 DEF Arrived, Still, stepVars
  <2> QED BY <1>5, <2>1, <2>2 DEF AwaitsEvents
<1> QED BY <1>5, <1>7, <1>8, <1>9 DEF AwaitsEvents

LEMMA PushesOthers ==
  ASSUME RingHoldsAll, TypeOK, WorkerPushes, UNCHANGED <<pos, limit_reached>>,
         NEW m \in Motors
  PROVE  /\ AwaitsEvents /\ NotSentYet(m) => NotSentYet(m)'
         /\ CutIsOver(m) => CutIsOver(m)'
<1>1. /\ worker = "push" /\ worker' = "post"
      /\ UNCHANGED <<workLine, workActive, settling, stepVars>>
  BY DEF WorkerPushes
<1>2. Still(m)' <=> Still(m)
  BY <1>1 DEF Still, stepVars
<1>3. CutIsOver(m) => CutIsOver(m)'
  BY <1>1, <1>2 DEF CutIsOver, Arrived
<1>4. ASSUME AwaitsEvents PROVE WithEdge' = WithEdge
  <2>1. lqueue' = [lqueue EXCEPT ![lhead] = workLine] /\ lhead' = lhead + 1
        /\ lhead \in Nat /\ lhead \in Slots
    BY <1>1, <1>4, RingRoom DEF AwaitsEvents, WorkerPushes, TypeOK, LimitTypeOK, Slots
  <2>2. /\ lqueue'[lhead] = workLine
        /\ \A s \in 0 .. lhead - 1 : lqueue'[s] = lqueue[s]
        /\ \A s \in 0 .. lhead' - 1 : s = lhead \/ s \in 0 .. lhead - 1
        /\ lhead \in 0 .. lhead' - 1 /\ 0 .. lhead - 1 \subseteq 0 .. lhead' - 1
    BY <2>1 DEF TypeOK, LimitTypeOK, Slots
  <2>3. Reported' = Reported \cup {workLine} /\ InHand = {workLine} /\ InHand' = {workLine}
    BY <1>1, <2>2 DEF Reported, InHand
  <2> QED BY <1>1, <2>3 DEF WithEdge
<1> QED BY <1>2, <1>3, <1>4 DEF NotSentYet

LEMMA PostsAwaits ==
  ASSUME TypeOK, WorkerPosts, UNCHANGED <<pos, limit_reached>>, AwaitsEvents
  PROVE  AwaitsEvents' /\ Reported' = Reported
<1>1. /\ worker = "post" /\ worker' = "idle"
      /\ UNCHANGED <<settling, lqueue, lhead, ltail, stepVars>>
  BY DEF WorkerPosts
<1>2. EventsAreRight
  BY DEF AwaitsEvents
<1>3. Reported' = Reported /\ InHand' = {}
  BY <1>1 DEF Reported, InHand
<1>4. lsem' = lhead - ltail
  <2>1. /\ lhead < LIMIT_QUEUE_SIZE /\ lhead \in Nat /\ ltail \in Nat /\ lsem \in Nat
        /\ LIMIT_QUEUE_SIZE \in Nat /\ SEM_VALUE_MAX \in Nat
        /\ SEM_VALUE_MAX >= LIMIT_QUEUE_SIZE
    BY QueueSizeAssumption DEF TypeOK, LimitTypeOK, Slots
  <2>2. lsem + 1 = lhead - ltail
    BY <1>1, <1>2 DEF EventsAreRight
  <2>3. lsem # SEM_VALUE_MAX
    BY <2>1, <2>2
  <2> QED BY <2>1, <2>2, <2>3 DEF WorkerPosts
<1>5. EventsAreRight'
  <2>1. WithEdge' \subseteq WithEdge
    BY <1>1, <1>3 DEF WithEdge
  <2>2. \A k \in WithEdge' : k \in EdgeLines /\ EdgeIsOver(k)'
    BY <1>2, <2>1 DEF EventsAreRight, EdgeIsOver
  <2>3. lsem' + 0 = lhead' - ltail'
    BY <1>1, <1>4 DEF TypeOK, LimitTypeOK, Slots
  <2> QED BY <1>1, <1>2, <1>3, <2>2, <2>3 DEF EventsAreRight
<1>6. WorkIsRight'
  BY <1>1 DEF WorkIsRight, CutStages
<1>7. \A m \in Motors : MovesDown(m)' /\ (Arrived(m) => Arrived(m)')
  BY <1>1 DEF AwaitsEvents, MovesDown, Arrived, Still, stepVars
<1> QED BY <1>3, <1>5, <1>6, <1>7 DEF AwaitsEvents

LEMMA PostsOthers ==
  ASSUME TypeOK, WorkerPosts, UNCHANGED <<pos, limit_reached>>, NEW m \in Motors
  PROVE  /\ NotSentYet(m) => NotSentYet(m)'
         /\ CutIsOver(m) => CutIsOver(m)'
<1>1. /\ worker = "post" /\ worker' = "idle"
      /\ UNCHANGED <<settling, lqueue, lhead, stepVars>>
  BY DEF WorkerPosts
<1>2. WithEdge' \subseteq WithEdge
  BY <1>1 DEF WithEdge, Reported, InHand
<1>3. Still(m)' <=> Still(m)
  BY <1>1 DEF Still, stepVars
<1> QED BY <1>1, <1>2, <1>3 DEF NotSentYet, CutIsOver, Arrived

(* A step around the homing task keeps the invariant if it keeps its parts. *)
LEMMA AroundAxis ==
  ASSUME AxisInv, UNCHANGED <<taskVars, limit_reached>>, StartIsStill',
         Starting => UNCHANGED <<pos, lhead, ltail, lsem>>,
         AwaitsEvents => AwaitsEvents' /\ Reported \subseteq Reported',
         \A m \in Motors : /\ AwaitsEvents /\ NotSentYet(m) => NotSentYet(m)'
                           /\ CutIsOver(m) => CutIsOver(m)'
  PROVE  AxisInv'
<1> SUFFICES ASSUME NEW t \in Tasks
             PROVE  StageIsRight(t)'
  BY DEF AxisInv
<1>1. StageIsRight(t)
  BY DEF AxisInv
<1>2. hpc'[t] = hpc[t] /\ hi'[t] = hi[t] /\ hm'[t] = hm[t]
  BY DEF taskVars
<1>3. Step0IsRight(t)'
  <2>1. hpc[t] \in BeforeStep0 \cup Step0Pcs => UNCHANGED <<pos, lhead, ltail, lsem>>
    BY DEF Starting
  <2> QED BY <1>1, <1>2, <2>1 DEF StageIsRight, Step0IsRight, BeforeStep0, Step0Pcs, InStep0
<1>4. AwaitIsRight(t)'
  <2>1. hpc[t] \in Step1Pcs \cup {"known2", "set2", "capture2"} => hpc[t] \in Steps1And2Pcs
    BY DEF Step1Pcs, Steps1And2Pcs, InSteps1And2
  <2>2. hpc[t] \in Steps1And2Pcs => AwaitsEvents' /\ Reported \subseteq Reported'
    BY <1>1 DEF StageIsRight, AwaitIsRight
  <2>3. hpc[t] \in Step1Pcs => \A m \in Motors : m >= hi[t] => NotSentYet(m)'
    BY <1>1, <2>1 DEF StageIsRight, AwaitIsRight
  <2>4. hpc[t] \in {"known2", "set2", "capture2"} => LowerLine(hm[t]) \in Reported'
    BY <1>1, <2>1, <2>2 DEF StageIsRight, AwaitIsRight
  <2> QED BY <1>1, <1>2, <2>2, <2>3, <2>4 DEF StageIsRight, AwaitIsRight, LowerLine
<1>5. LiftIsRight(t)'
  BY <1>1, <1>2 DEF StageIsRight, LiftIsRight
<1> QED BY <1>3, <1>4, <1>5 DEF StageIsRight

LEMMA AxisAxis ==
  ASSUME OnlyPowerMoves, TypeOK, AxisInv, NEW m \in Motors, Axis(m)
  PROVE  AxisInv'
<1>0. UNCHANGED <<taskVars, limit_reached>> /\ workLine \in Lines /\ StartIsStill
  BY AroundTask DEF sysVars, TypeOK, LimitTypeOK, AxisInv
<1>1. StartIsStill'
  BY <1>0, AxisStart
<1>2. CASE AxisTurns(m)
  <2>1. ~Starting
    BY <1>0, <1>2, TurnsOnce DEF StartIsStill, Still
  <2> QED BY <1>0, <1>1, <1>2, <2>1, TurnsAwaits, TurnsOthers, AroundAxis
<1>3. CASE MoveEnds(m) \/ EncoderRead(m)
  <2>1. /\ UNCHANGED <<limitVars, pos, limit_reached>>
        /\ \A n \in Motors : (pulsing'[n] => pulsing[n]) /\ (son'[n] => son[n])
        /\ \A n \in Motors : dir_up'[n] = dir_up[n] /\ (busy'[n] = busy[n] \/ ~pulsing'[n])
    BY <1>3 DEF MoveEnds, EncoderRead, SlaveIsr, axisVars, sysVars, stepVars, TypeOK, StepTypeOK
  <2>2. \A n \in Motors : (Still(n) => Still(n)') /\ (MovesDown(n) => MovesDown(n)')
    BY <2>1 DEF Still, MovesDown
  <2>3. AwaitsEvents => AwaitsEvents' /\ Reported' = Reported
    BY <1>0, <2>1, <2>2, RestAwaits
  <2>4. \A n \in Motors : /\ NotSentYet(n) => NotSentYet(n)'
                          /\ CutIsOver(n) => CutIsOver(n)'
    BY <2>1, <2>2, RestOthers
  <2>5. UNCHANGED <<pos, lhead, ltail, lsem>>
    BY <2>1 DEF limitVars, ringVars
  <2> QED BY <1>0, <1>1, <2>3, <2>4, <2>5, AroundAxis
<1> QED BY <1>2, <1>3, NoDrifts DEF Axis

LEMMA WorkerAxis ==
  ASSUME RingHoldsAll, TypeOK, AxisInv, LimitWorker
  PROVE  AxisInv'
<1>1. UNCHANGED <<taskVars, limit_reached, pos>>
  BY DEF LimitWorker, sysVars, axisVars
<1>2. StartIsStill' /\ ~Starting
  BY WorkerStart, WorkerNeedsWork DEF AxisInv, StartIsStill
<1>3. ASSUME NEW l \in Lines, WorkerReads(l, Level(l)) PROVE AxisInv'
  BY <1>1, <1>2, <1>3, ReadsAwaits, ReadsOthers, AroundAxis
<1>4. CASE WorkerNotifies \/ WorkerCuts \/ WorkerSetsLevel
  BY <1>1, <1>2, <1>4, CutsAwaits, CutsOthers, AroundAxis
<1>5. CASE WorkerPushes
  BY <1>1, <1>2, <1>5, PushesAwaits, PushesOthers, AroundAxis
<1>6. CASE WorkerPosts
  BY <1>1, <1>2, <1>6, PostsAwaits, PostsOthers, AroundAxis
<1> QED BY <1>3, <1>4, <1>5, <1>6 DEF LimitWorker, WorkerContinues

(* Without a task there is nothing to keep but the stillness. *)
LEMMA NoTaskAxis ==
  ASSUME NEW t \in Tasks, hpc[t] = "none"
  PROVE  StageIsRight(t)
BY DEF StageIsRight, Step0IsRight, AwaitIsRight, LiftIsRight, Step0Pcs, InStep0, Step1Pcs,
       Steps1And2Pcs, InSteps1And2, LiftPcs

LEMMA SafetyEventAxis ==
  ASSUME ORDERLY_RESTART, TypeOK, AxisInv, NEW b \in BtnEvents, SafetyEvent(b)
  PROVE  AxisInv'
<1>1. UNCHANGED <<stepVars, limitVars, taskVars, pos>> /\ workLine \in Lines
  BY DEF SafetyEvent, axisVars, TypeOK, LimitTypeOK
<1>2. StartIsStill'
  BY SafetyEventStart DEF AxisInv
<1>3. CASE UNCHANGED limit_reached
  <2>1. \A n \in Motors : (Still(n)' <=> Still(n)) /\ (MovesDown(n)' <=> MovesDown(n))
    BY <1>1 DEF Still, MovesDown, stepVars
  <2>2. AwaitsEvents => AwaitsEvents' /\ Reported' = Reported
    BY <1>1, <1>3, <2>1, RestAwaits
  <2>3. \A n \in Motors : /\ NotSentYet(n) => NotSentYet(n)'
                          /\ CutIsOver(n) => CutIsOver(n)'
    BY <1>1, <1>3, <2>1, RestOthers
  <2>4. UNCHANGED <<pos, lhead, ltail, lsem>>
    BY <1>1 DEF limitVars, ringVars
  <2> QED BY <1>1, <1>2, <1>3, <2>2, <2>3, <2>4, AroundAxis
<1>4. CASE b = "RESTART"
  <2>1. \A t \in Tasks : hpc'[t] = "none"
    BY <1>1, <1>4 DEF SafetyEvent, MayPress, AtRest, NoHomingTask, taskVars
  <2>2. \A t \in Tasks : StageIsRight(t)'
    BY <2>1 DEF StageIsRight, Step0IsRight, AwaitIsRight, LiftIsRight, Step0Pcs, InStep0, Step1Pcs,
       Steps1And2Pcs, InSteps1And2, LiftPcs
  <2> QED BY <1>2, <2>2 DEF AxisInv
<1> QED BY <1>3, <1>4 DEF SafetyEvent, HandleBtnEvent, HandleStart, HandleStop, Latch

LEMMA SafetyTaskAxis ==
  ASSUME TypeOK, HomingInv, AxisInv, SafetyTask
  PROVE  AxisInv'
<1>1. StartIsStill'
  BY SafetyTaskStart DEF AxisInv
<1>2. UNCHANGED <<limitVars, pos, limit_reached>> /\ workLine \in Lines
  BY DEF SafetyTask, SafetySpawns, SafetySpawnFails, SafetyStops, sysVars, axisVars,
         TypeOK, LimitTypeOK
<1>3. ASSUME NEW t \in Tasks, SafetySpawns(t) PROVE AxisInv'
  <2>1. \A u \in Tasks : hpc'[u] \in {"none", "flush"}
    BY <1>3 DEF SafetySpawns, HomingInv, NoHomingTask, TypeOK, HomingTypeOK
  <2>2. \A u \in Tasks : StageIsRight(u)'
    BY <2>1 DEF StageIsRight, Step0IsRight, AwaitIsRight, LiftIsRight, Step0Pcs, InStep0, Step1Pcs,
       Steps1And2Pcs, InSteps1And2, LiftPcs
  <2> QED BY <1>1, <2>2 DEF AxisInv
<1>4. CASE SafetySpawnFails \/ SafetyStops
  <2>1. UNCHANGED taskVars
    BY <1>4 DEF SafetySpawnFails, SafetyStops
  <2>2. /\ \A m \in Motors : (pulsing'[m] => pulsing[m]) /\ (son'[m] => son[m])
        /\ \A m \in Motors : dir_up'[m] = dir_up[m] /\ (busy'[m] = busy[m] \/ ~pulsing'[m])
    BY <1>4 DEF SafetySpawnFails, SafetyStops, IoctlEstop, CutChannels, stepVars,
                TypeOK, StepTypeOK
  <2>3. \A n \in Motors : (Still(n) => Still(n)') /\ (MovesDown(n) => MovesDown(n)')
    BY <2>2 DEF Still, MovesDown
  <2>4. AwaitsEvents => AwaitsEvents' /\ Reported' = Reported
    BY <1>2, <2>3, RestAwaits
  <2>5. \A n \in Motors : /\ NotSentYet(n) => NotSentYet(n)'
                          /\ CutIsOver(n) => CutIsOver(n)'
    BY <1>2, <2>3, RestOthers
  <2>6. UNCHANGED <<pos, lhead, ltail, lsem>>
    BY <1>2 DEF limitVars, ringVars
  <2> QED BY <1>1, <1>2, <2>1, <2>4, <2>5, <2>6, AroundAxis
<1> QED BY <1>3, <1>4 DEF SafetyTask

----------------------------------------------------------------------------
(* The steps of the homing task. *)

LEMMA TaskAxis ==
  ASSUME TypeOK, HomingInv, AxisInv, NEW t \in Tasks, HomingTask(t), StageIsRight(t)'
  PROVE  AxisInv'
<1>1. ASSUME NEW u \in Tasks, u # t PROVE StageIsRight(u)'
  <2>1. hpc'[u] = "none"
    BY <1>1, OneTask
  <2> QED BY <2>1 DEF StageIsRight, Step0IsRight, AwaitIsRight, LiftIsRight, Step0Pcs,
                      InStep0, Step1Pcs, Steps1And2Pcs, InSteps1And2, LiftPcs
<1>2. StartIsStill'
  BY HomingTaskStart DEF AxisInv
<1> QED BY <1>1, <1>2 DEF AxisInv

(* Where the invariant asks nothing. *)
LEMMA OutOfReach ==
  ASSUME NEW t \in Tasks,
         hpc'[t] \in {"none", "flush", "poll3", "busy3", "cut3", "homed4", "notify4"}
  PROVE  StageIsRight(t)'
BY DEF StageIsRight, Step0IsRight, AwaitIsRight, LiftIsRight, Step0Pcs, InStep0,
       Step1Pcs, Steps1And2Pcs, InSteps1And2, LiftPcs

(* Step 0 ends with all the axes seen. *)
LEMMA EntersStep1 ==
  ASSUME TypeOK, AxisInv, NEW t \in Tasks, hpc[t] \in Step0Pcs,
         UNCHANGED <<stepVars, limitVars, limit_reached, pos>>,
         \A m \in Motors : pos[m] = "down" => limit_reached[m],
         hpc'[t] = "abort1"
  PROVE  StageIsRight(t)'
<1>1. /\ settling = {} /\ worker = "idle" /\ \A m \in Motors : Still(m)
      /\ lhead = 0 /\ ltail = 0 /\ lsem = 0
      /\ \A m \in Motors : limit_reached[m] => pos[m] = "down"
  BY DEF AxisInv, StartIsStill, Starting, StageIsRight, Step0IsRight
<1>2. /\ settling' = {} /\ worker' = "idle" /\ lhead' = 0 /\ ltail' = 0 /\ lsem' = 0
      /\ limit_reached' = limit_reached /\ pos' = pos
      /\ \A m \in Motors : Still(m)'
  BY <1>1 DEF limitVars, workVars, ringVars, stepVars, Still
<1>3. Reported' = {} /\ WithEdge' = {} /\ InHand' = {}
  BY <1>2 DEF Reported, InHand, WithEdge
<1>4. EventsAreRight' /\ WorkIsRight'
  BY <1>2, <1>3 DEF EventsAreRight, WorkIsRight, CutStages
<1>5. \A m \in Motors : MovesDown(m)' /\ (limit_reached'[m] => Arrived(m)') /\ NotSentYet(m)'
  BY <1>1, <1>2, <1>3 DEF MovesDown, Arrived, NotSentYet
<1>6. AwaitsEvents'
  BY <1>3, <1>4, <1>5 DEF AwaitsEvents
<1>7. AwaitIsRight(t)'
  BY <1>5, <1>6 DEF AwaitIsRight
<1> QED BY <1>7 DEF StageIsRight, Step0IsRight, LiftIsRight, Step0Pcs, InStep0, LiftPcs

(* Every axis has arrived: nothing is left that could cut it. *)
LEMMA EntersStep3 ==
  ASSUME AwaitsEvents', Unreached' = {}, NEW t \in Tasks, hpc'[t] = "abort3",
         workLine' \in Lines
  PROVE  StageIsRight(t)'
<1>1. ASSUME NEW m \in Motors PROVE CutIsOver(m)'
  <2>1. Arrived(m)' /\ WorkIsRight'
    BY DEF AwaitsEvents, Unreached
  <2>2. ASSUME worker' \notin {"idle", "post"}, workLine'[1] = m
        PROVE  ~workActive' /\ worker' \notin CutStages
    <3>1. workLine'[2]
      BY <2>1, <2>2, LineIs DEF Arrived, LowerLine
    <3> QED BY <2>1, <2>2, <3>1 DEF WorkIsRight
  <2> QED BY <2>1, <2>2 DEF CutIsOver
<1>2. LiftIsRight(t)'
  BY <1>1 DEF LiftIsRight
<1> QED BY <1>2 DEF StageIsRight, Step0IsRight, AwaitIsRight, Step0Pcs, InStep0,
                    Step1Pcs, Steps1And2Pcs, InSteps1And2

(* A step that touches neither the axes nor the events. *)
LEMMA PlainStep ==
  ASSUME TypeOK, AxisInv, NEW t \in Tasks,
         UNCHANGED <<stepVars, limitVars, limit_reached, pos>>
  PROVE  /\ hpc[t] \in Steps1And2Pcs => AwaitsEvents'
         /\ Reported' = Reported /\ Unreached' = Unreached
         /\ \A m \in Motors : /\ NotSentYet(m) => NotSentYet(m)'
                              /\ CutIsOver(m) => CutIsOver(m)'
<1>0. workLine \in Lines
  BY DEF TypeOK, LimitTypeOK
<1>1. \A m \in Motors : (Still(m) => Still(m)') /\ (MovesDown(m) => MovesDown(m)')
  BY DEF Still, MovesDown, stepVars
<1>2. Reported' = Reported /\ Unreached' = Unreached
  BY DEF Reported, Unreached, limitVars, ringVars
<1>3. hpc[t] \in Steps1And2Pcs => AwaitsEvents
  BY DEF AxisInv, StageIsRight, AwaitIsRight
<1> QED BY <1>0, <1>1, <1>2, <1>3, RestAwaits, RestOthers

LEMMA PlainAwait ==
  ASSUME TypeOK, AxisInv, NEW t \in Tasks, hpc[t] \in Steps1And2Pcs,
         UNCHANGED <<stepVars, limitVars, limit_reached, pos>>,
         hi[t] \in Int, hi'[t] \in Int, hpc'[t] \in Steps1And2Pcs,
         hpc'[t] \in Step1Pcs => hpc[t] \in Step1Pcs /\ hi'[t] >= hi[t],
         hpc'[t] \in {"allow1", "home1"} => ~limit_reached[hi'[t]],
         hpc'[t] \in {"known2", "set2", "capture2"} => LowerLine(hm'[t]) \in Reported
  PROVE  StageIsRight(t)'
<1>1. AwaitsEvents' /\ Reported' = Reported
  BY PlainStep
<1>2. hpc'[t] \in Step1Pcs => \A m \in Motors : m >= hi'[t] => NotSentYet(m)'
  <2>1. SUFFICES ASSUME hpc[t] \in Step1Pcs, hi'[t] >= hi[t],
                        NEW m \in Motors, m >= hi'[t]
                 PROVE  NotSentYet(m)'
    OBVIOUS
  <2>2. m \in Int
    BY MotorCountAssumption DEF Motors
  <2>3. NotSentYet(m)
    BY <2>1, <2>2 DEF AxisInv, StageIsRight, AwaitIsRight
  <2> QED BY <2>3, PlainStep
<1>3. AwaitIsRight(t)'
  BY <1>1, <1>2 DEF AwaitIsRight, LowerLine
<1> QED BY <1>3 DEF StageIsRight, Step0IsRight, LiftIsRight, Step0Pcs, InStep0, LiftPcs,
                    Steps1And2Pcs, InSteps1And2

LEMMA PlainLift ==
  ASSUME TypeOK, AxisInv, NEW t \in Tasks, hpc[t] \in LiftPcs, hpc'[t] \in LiftPcs,
         UNCHANGED <<stepVars, limitVars, limit_reached, pos>>,
         hi[t] \in Int, hi'[t] \in Int, hi'[t] >= hi[t]
  PROVE  StageIsRight(t)'
<1>1. \A m \in Motors : m >= hi'[t] => CutIsOver(m)'
  <2>1. SUFFICES ASSUME NEW m \in Motors, m >= hi'[t] PROVE CutIsOver(m)'
    OBVIOUS
  <2>2. m \in Int
    BY MotorCountAssumption DEF Motors
  <2>3. CutIsOver(m)
    BY <2>1, <2>2 DEF AxisInv, StageIsRight, LiftIsRight
  <2> QED BY <2>3, PlainStep
<1> QED BY <1>1 DEF StageIsRight, Step0IsRight, AwaitIsRight, LiftIsRight, Step0Pcs, InStep0,
                    LiftPcs, Step1Pcs, Steps1And2Pcs, InSteps1And2

(* On from step 1 or 2: to the next motor, to waiting, or to step 3. *)
LEMMA AfterAwait ==
  ASSUME TypeOK, HomingInv, AxisInv, NEW t \in Tasks,
         hpc[t] \in InSteps1And2,
         UNCHANGED <<stepVars, limitVars, limit_reached, pos>>,
         \/ hpc[t] \in Step1Pcs /\ Loop(t, "abort1", AfterHomes(t))
         \/ Goto(t, AfterWait(need[t]))
  PROVE  StageIsRight(t)'
<1>1. /\ hi[t] \in Int /\ hi[t] + 1 \in Int /\ need[t] \in Int /\ LastMotor \in Int
      /\ workLine' \in Lines /\ 0 \in Int
  BY MotorCountAssumption
  DEF TypeOK, HomingTypeOK, LimitTypeOK, Motors, LastMotor, limitVars, workVars
<1>2. need[t] = Cardinality(Unreached)
  BY DEF HomingInv, NeedIsRight
<1>3. \/ hpc'[t] = "abort1" /\ hi'[t] = hi[t] + 1 /\ hpc[t] \in Step1Pcs
      \/ hpc'[t] = AfterWait(need[t]) /\ hi'[t] \in Int
  <2>1. CASE hpc[t] \in Step1Pcs /\ Loop(t, "abort1", AfterHomes(t))
    BY <1>1, <2>1, LoopAt DEF AfterHomes
  <2>2. CASE Goto(t, AfterWait(need[t]))
    BY <1>1, <2>2, GotoAt
  <2> QED BY <2>1, <2>2
<1>4. hpc[t] \in Steps1And2Pcs
  BY DEF Steps1And2Pcs
<1>5. CASE hpc'[t] = "abort1" /\ hi'[t] = hi[t] + 1 /\ hpc[t] \in Step1Pcs
  <2>1. hpc'[t] \in Steps1And2Pcs
    BY <1>5 DEF Steps1And2Pcs, InSteps1And2
  <2> QED BY <1>1, <1>4, <1>5, <2>1, PlainAwait
<1>6. CASE hpc'[t] = "wait2" /\ hi'[t] \in Int
  <2>1. hpc'[t] \in Steps1And2Pcs /\ hpc'[t] \notin Step1Pcs
    BY <1>6 DEF Steps1And2Pcs, InSteps1And2, Step1Pcs
  <2> QED BY <1>1, <1>4, <1>6, <2>1, PlainAwait
<1>7. CASE hpc'[t] = "abort3" /\ need[t] <= 0
  <2>1. Unreached = {}
    BY <1>2, <1>7, NoneLeft
  <2>2. AwaitsEvents' /\ Unreached' = {}
    BY <1>4, <2>1, PlainStep
  <2> QED BY <1>1, <1>7, <2>2, EntersStep3
<1> QED BY <1>1, <1>3, <1>5, <1>6, <1>7, AfterWaitAt

(* The start of homing and step 0. *)
LEMMA StartsAxis ==
  ASSUME TypeOK, HomingInv, AxisInv, NEW t \in Tasks, HomingFlushes(t) \/ HomingDrains(t)
  PROVE  StageIsRight(t)'
<1> USE DEF StageIsRight, Step0IsRight, AwaitIsRight, LiftIsRight, Step0Pcs, InStep0,
            LiftPcs, Step1Pcs, Steps1And2Pcs, InSteps1And2
<1>1. CASE HomingFlushes(t)
  <2>1. hpc'[t] = "drain" /\ lhead' = 0 /\ ltail' = 0
    BY <1>1, GotoAt DEF HomingFlushes, FlushRing
  <2> QED BY <2>1
<1>2. CASE HomingDrains(t)
  <2>1. hpc[t] = "drain" /\ lhead = 0 /\ ltail = 0
    BY <1>2 DEF HomingDrains, AxisInv
  <2>2. CASE DrainOne /\ UNCHANGED <<hpc, hi, need>>
    BY <2>1, <2>2 DEF DrainOne
  <2>3. CASE lsem = 0 /\ hpc' = [hpc EXCEPT ![t] = "read0"] /\ hi' = [hi EXCEPT ![t] = 0]
             /\ UNCHANGED ringVars
    <3>1. hpc'[t] = "read0" /\ hi'[t] = 0 /\ lhead' = 0 /\ ltail' = 0 /\ lsem' = 0
      BY <2>1, <2>3 DEF TypeOK, HomingTypeOK, ringVars
    <3>2. \A m \in Motors : ~limit_reached'[m] /\ ~(m < 0)
      BY <1>2, <2>1, MotorCountAssumption
      DEF HomingInv, NeedIsRight, BeforeStep0, NoneReached, HomingDrains, sysVars, Motors
    <3> QED BY <3>1, <3>2
  <2> QED BY <1>2, <2>2, <2>3 DEF HomingDrains
<1> QED BY <1>1, <1>2

(* On to the next motor of step 0, or to step 1. *)
LEMMA NextInStep0 ==
  ASSUME TypeOK, AxisInv, NEW t \in Tasks, hpc[t] \in Step0Pcs,
         UNCHANGED <<stepVars, limitVars, limit_reached, pos>>,
         pos[hi[t]] = "down" => limit_reached[hi[t]],
         Loop(t, "read0", "abort1")
  PROVE  StageIsRight(t)'
<1>1. hi[t] \in Int /\ \A m \in Motors : m \in Int /\ m <= LastMotor
  BY MotorCountAssumption DEF TypeOK, HomingTypeOK, Motors, LastMotor
<1>2. \A m \in Motors : m <= hi[t] /\ pos[m] = "down" => limit_reached[m]
  <2>1. \A m \in Motors : m < hi[t] /\ pos[m] = "down" => limit_reached[m]
    BY DEF AxisInv, StageIsRight, Step0IsRight
  <2> QED BY <1>1, <2>1
<1>3. CASE hi[t] = LastMotor /\ hpc'[t] = "abort1"
  <2>1. \A m \in Motors : pos[m] = "down" => limit_reached[m]
    BY <1>1, <1>2, <1>3
  <2> QED BY <1>3, <2>1, EntersStep1
<1>4. CASE hpc'[t] = "read0" /\ hi'[t] = hi[t] + 1
  <2>1. \A m \in Motors : m < hi'[t] /\ pos[m] = "down" => limit_reached[m]
    BY <1>1, <1>2, <1>4
  <2>2. /\ lhead = 0 /\ ltail = 0 /\ lsem = 0
        /\ \A m \in Motors : limit_reached[m] => pos[m] = "down"
    BY DEF AxisInv, StageIsRight, Step0IsRight
  <2>3. lhead' = 0 /\ ltail' = 0 /\ lsem' = 0 /\ pos' = pos /\ limit_reached' = limit_reached
    BY <2>2 DEF limitVars, ringVars
  <2>4. Step0IsRight(t)'
    BY <1>4, <2>1, <2>2, <2>3 DEF Step0IsRight
  <2> QED BY <1>4, <2>4 DEF StageIsRight, AwaitIsRight, LiftIsRight, LiftPcs, Step1Pcs,
                            Steps1And2Pcs, InSteps1And2
<1> QED BY <1>3, <1>4, LoopAt

(* Within the round of one motor of step 0. *)
LEMMA WithinStep0 ==
  ASSUME TypeOK, AxisInv, NEW t \in Tasks, hpc[t] \in Step0Pcs, hpc'[t] \in Step0Pcs,
         UNCHANGED <<limitVars, hi, pos>>,
         \A m \in Motors : limit_reached'[m] => limit_reached[m] \/ pos[m] = "down",
         \A m \in Motors : limit_reached[m] => limit_reached'[m],
         hpc'[t] \in {"notify0", "reached0", "capture0"} => pos[hi[t]] = "down"
  PROVE  StageIsRight(t)'
<1>1. /\ lhead = 0 /\ ltail = 0 /\ lsem = 0
      /\ \A m \in Motors : /\ limit_reached[m] => pos[m] = "down"
                           /\ m < hi[t] /\ pos[m] = "down" => limit_reached[m]
  BY DEF AxisInv, StageIsRight, Step0IsRight
<1>2. lhead' = 0 /\ ltail' = 0 /\ lsem' = 0 /\ pos' = pos /\ hi' = hi
  BY <1>1 DEF limitVars, ringVars
<1>3. Step0IsRight(t)'
  BY <1>1, <1>2 DEF Step0IsRight
<1> QED BY <1>3 DEF StageIsRight, AwaitIsRight, LiftIsRight, LiftPcs, Step1Pcs,
                    Steps1And2Pcs, InSteps1And2, Step0Pcs, InStep0

LEMMA Step0Axis ==
  ASSUME TypeOK, HomingInv, AxisInv, NEW t \in Tasks,
         \/ HomingReads(t) \/ HomingNotifiesDriver(t) \/ HomingFindsAtLimit(t)
         \/ HomingCapturesAtStart(t)
  PROVE  StageIsRight(t)'
<1> USE DEF Step0Pcs, InStep0
<1>0. hi[t] \in Motors /\ limit_reached \in [Motors -> BOOLEAN]
  BY DEF TypeOK, HomingTypeOK, SysTypeOK
<1>1. CASE HomingReads(t)
  <2>1. hpc[t] \in Step0Pcs /\ UNCHANGED <<stepVars, limitVars, limit_reached, pos>>
    BY <1>1 DEF HomingReads, sysVars, axisVars
  <2>2. CASE Level(<<hi[t], FALSE>>) /\ Goto(t, IF hpc[t] = "read0" THEN "reread0" ELSE "notify0")
    <3>1. pos[hi[t]] = "down" /\ hpc'[t] \in {"reread0", "notify0"} /\ hi' = hi
      BY <2>2, GotoAt DEF Level
    <3> QED BY <2>1, <3>1, WithinStep0
  <2>3. CASE ~Level(<<hi[t], FALSE>>) /\ Loop(t, "read0", "abort1")
    <3>1. pos[hi[t]] # "down"
      BY <2>3 DEF Level
    <3> QED BY <2>1, <2>3, <3>1, NextInStep0
  <2> QED BY <1>1, <2>2, <2>3 DEF HomingReads
<1>2. CASE HomingNotifiesDriver(t)
  <2>1. /\ hpc[t] = "notify0" /\ hpc'[t] = "reached0" /\ hi' = hi
        /\ UNCHANGED <<limitVars, limit_reached, pos>>
    BY <1>2, GotoAt DEF HomingNotifiesDriver, sysVars, axisVars
  <2>2. pos[hi[t]] = "down"
    BY <2>1 DEF AxisInv, StageIsRight, Step0IsRight
  <2> QED BY <2>1, <2>2, WithinStep0
<1>3. CASE HomingFindsAtLimit(t)
  <2>1. /\ hpc[t] = "reached0" /\ hpc'[t] = "capture0" /\ hi' = hi
        /\ UNCHANGED <<limitVars, pos>>
        /\ limit_reached' = [limit_reached EXCEPT ![hi[t]] = TRUE]
    BY <1>3, GotoAt DEF HomingFindsAtLimit, SetLimitReached, axisVars
  <2>2. pos[hi[t]] = "down"
    BY <2>1 DEF AxisInv, StageIsRight, Step0IsRight
  <2>3. \A m \in Motors : /\ limit_reached'[m] => limit_reached[m] \/ pos[m] = "down"
                          /\ limit_reached[m] => limit_reached'[m]
    BY <1>0, <2>1, <2>2
  <2> QED BY <2>1, <2>2, <2>3, WithinStep0
<1>4. CASE HomingCapturesAtStart(t)
  <2>1. /\ hpc[t] = "capture0" /\ Loop(t, "read0", "abort1")
        /\ UNCHANGED <<stepVars, limitVars, limit_reached, pos>>
    BY <1>4 DEF HomingCapturesAtStart, sysVars, axisVars
  <2>2. limit_reached[hi[t]]
    BY <2>1 DEF HomingInv, NeedIsRight
  <2> QED BY <2>1, <2>2, NextInStep0
<1> QED BY <1>1, <1>2, <1>3, <1>4

(* Step 1. *)
LEMMA SkipsAxis ==
  ASSUME TypeOK, HomingInv, AxisInv, NEW t \in Tasks, HomingSkipsReached(t) \/ HomingAsksHome(t)
  PROVE  StageIsRight(t)'
<1>1. /\ hpc[t] \in {"reached1", "allow1"}
      /\ UNCHANGED <<stepVars, limitVars, limit_reached, pos>>
  BY DEF HomingSkipsReached, HomingAsksHome, sysVars, axisVars
<1>2. hpc[t] \in Step1Pcs /\ hpc[t] \in InSteps1And2 /\ hpc[t] \in Steps1And2Pcs
  BY <1>1 DEF Step1Pcs, InSteps1And2, Steps1And2Pcs
<1>3. CASE Loop(t, "abort1", AfterHomes(t))
  BY <1>1, <1>2, <1>3, AfterAwait
<1>4. CASE /\ Goto(t, "allow1") \/ Goto(t, "home1")
           /\ ~limit_reached[hi[t]]
  <2>1. /\ hpc'[t] \in {"allow1", "home1"} /\ hi'[t] = hi[t] /\ hi[t] \in Int
    BY <1>4, GotoAt, MotorCountAssumption DEF TypeOK, HomingTypeOK, Motors
  <2>2. hpc'[t] \in Steps1And2Pcs /\ hpc'[t] \in Step1Pcs
        /\ hpc'[t] \notin {"known2", "set2", "capture2"}
    BY <2>1 DEF Steps1And2Pcs, InSteps1And2, Step1Pcs
  <2> QED BY <1>1, <1>2, <1>4, <2>1, <2>2, PlainAwait
<1>5. HomingAsksHome(t) => ~limit_reached[hi[t]]
  BY DEF HomingAsksHome, AxisInv, StageIsRight, AwaitIsRight
<1> QED BY <1>3, <1>4, <1>5 DEF HomingSkipsReached, HomingAsksHome

(* The home command: the axis goes down, and no event of it is about yet. *)
LEMMA SendsHomeAxis ==
  ASSUME TypeOK, HomingInv, AxisInv, NEW t \in Tasks, HomingSendsHome(t)
  PROVE  StageIsRight(t)'
<1> DEFINE i == hi[t]
<1>0. PICK k \in Motors : k = i
  BY DEF TypeOK, HomingTypeOK
<1>1. /\ hpc[t] = "home1" /\ UNCHANGED <<limitVars, limit_reached, pos>>
      /\ ApplyMove(k, FALSE, "HOMING") /\ Loop(t, "abort1", AfterHomes(t))
  BY <1>0 DEF HomingSendsHome, IoctlHome, sysVars, axisVars
<1>2. /\ busy'[k] /\ dir_up'[k] = FALSE
      /\ \A m \in Motors : m # k =>
           /\ busy'[m] = busy[m] /\ dir_up'[m] = dir_up[m]
           /\ pulsing'[m] = pulsing[m] /\ son'[m] = son[m]
  BY <1>1 DEF ApplyMove, TypeOK, StepTypeOK
<1>3. AwaitsEvents /\ ~limit_reached[k] /\ NotSentYet(k)
      /\ \A m \in Motors : m >= k => NotSentYet(m)
  <2>1. k \in Int
    BY MotorCountAssumption DEF Motors
  <2>2. hpc[t] \in Step1Pcs /\ hpc[t] \in Steps1And2Pcs /\ hpc[t] \in {"allow1", "home1"}
    BY <1>1 DEF Step1Pcs, Steps1And2Pcs, InSteps1And2
  <2>3. AwaitIsRight(t)
    BY DEF AxisInv, StageIsRight
  <2>4. AwaitsEvents /\ ~limit_reached[k]
    BY <1>0, <2>2, <2>3 DEF AwaitIsRight
  <2>5. \A m \in Motors : m >= k => NotSentYet(m)
    BY <1>0, <2>2, <2>3 DEF AwaitIsRight
  <2>6. NotSentYet(k)
    BY <2>1, <2>5
  <2> QED BY <2>4, <2>5, <2>6
<1>4. Reported' = Reported /\ InHand' = InHand /\ WithEdge' = WithEdge
  BY <1>1 DEF Reported, InHand, WithEdge, limitVars, workVars, ringVars
<1>5. /\ LowerLine(k) \notin Reported
      /\ worker # "idle" => workLine[1] # k
  <2>1. \A l \in WithEdge : l[1] # k
    BY <1>3 DEF NotSentYet
  <2>2. LowerLine(k) \notin WithEdge
    BY <2>1, LineIs DEF LowerLine
  <2> QED BY <2>1, <2>2 DEF WithEdge, InHand
<1>6. workLine \in Lines /\ workLine[1] \in Motors
  BY LineIs DEF TypeOK, LimitTypeOK
<1>7. AwaitsEvents'
  <2>1. EventsAreRight'
    BY <1>1, <1>3, <1>4
    DEF AwaitsEvents, EventsAreRight, EdgeIsOver, limitVars, workVars, ringVars
  <2>2. WorkIsRight'
    <3>1. worker # "idle" => (Still(workLine[1])' <=> Still(workLine[1]))
      BY <1>1, <1>2, <1>5, <1>6 DEF Still, limitVars, workVars
    <3> QED BY <1>1, <1>3, <3>1
            DEF AwaitsEvents, WorkIsRight, limitVars, workVars
  <2>3. \A m \in Motors : MovesDown(m)'
    BY <1>2, <1>3 DEF AwaitsEvents, MovesDown, Still
  <2>4. \A m \in Motors : m # k /\ Arrived(m) => Arrived(m)'
    BY <1>1, <1>2 DEF Arrived, Still, limitVars, workVars
  <2>5. \A m \in Motors : limit_reached'[m] \/ LowerLine(m) \in Reported' => Arrived(m)'
    BY <1>1, <1>3, <1>4, <1>5, <2>4 DEF AwaitsEvents
  <2> QED BY <2>1, <2>2, <2>3, <2>5 DEF AwaitsEvents
<1>8. \A m \in Motors : m > k => NotSentYet(m)'
  <2>1. SUFFICES ASSUME NEW m \in Motors, m > k PROVE NotSentYet(m)'
    OBVIOUS
  <2>2. m # k /\ m >= k
    BY <2>1, MotorCountAssumption DEF Motors
  <2> QED BY <1>1, <1>2, <1>3, <1>4, <2>2 DEF NotSentYet, Still
<1>9. CASE hpc'[t] = "abort1" /\ hi'[t] = k + 1
  <2>1. \A m \in Motors : m >= hi'[t] => m > k
    BY <1>9, MotorCountAssumption DEF Motors
  <2>2. AwaitIsRight(t)'
    BY <1>7, <1>8, <1>9, <2>1 DEF AwaitIsRight
  <2> QED BY <1>9, <2>2 DEF StageIsRight, Step0IsRight, LiftIsRight, Step0Pcs, InStep0, LiftPcs
<1>10. CASE hpc'[t] = AfterHomes(t)
  <2>1. need[t] \in Int /\ need[t] = Cardinality(Unreached) /\ k \in Unreached
    BY <1>1, <1>3 DEF HomingInv, NeedIsRight, InSteps1And2, Unreached, TypeOK, HomingTypeOK
  <2>2. hpc'[t] = "wait2"
    BY <1>10, <2>1, AfterWaitAt, NoneLeft DEF AfterHomes
  <2>3. AwaitIsRight(t)'
    BY <1>7, <2>2 DEF AwaitIsRight, Step1Pcs
  <2> QED BY <2>2, <2>3 DEF StageIsRight, Step0IsRight, LiftIsRight, Step0Pcs, InStep0, LiftPcs
<1> QED BY <1>0, <1>1, <1>9, <1>10, LoopAt

(* Step 2. *)
LEMMA ChecksAbortAxis ==
  ASSUME TypeOK, HomingInv, AxisInv, NEW t \in Tasks, HomingChecksAbort(t)
  PROVE  StageIsRight(t)'
<1>0. hi[t] \in Int /\ UNCHANGED <<stepVars, limitVars, limit_reached, pos>>
  BY MotorCountAssumption
  DEF HomingChecksAbort, sysVars, axisVars, TypeOK, HomingTypeOK, Motors
<1>1. PICK check \in AbortChecks :
        hpc[t] = check[1] /\ (Goto(t, "none") \/ Goto(t, check[2]))
  BY DEF HomingChecksAbort, Exit
<1>2. CASE Goto(t, "none")
  BY <1>2, GotoAt, OutOfReach
<1>3. CASE hpc[t] = "abort1" /\ Goto(t, "reached1")
  <2>1. hpc'[t] = "reached1" /\ hi'[t] = hi[t]
    BY <1>3, GotoAt
  <2>2. /\ hpc[t] \in Steps1And2Pcs /\ hpc'[t] \in Steps1And2Pcs /\ hpc[t] \in Step1Pcs
        /\ hpc'[t] \notin {"allow1", "home1"}
        /\ hpc'[t] \notin {"known2", "set2", "capture2"}
    BY <1>3, <2>1 DEF Steps1And2Pcs, InSteps1And2, Step1Pcs
  <2> QED BY <1>0, <2>1, <2>2, PlainAwait
<1>4. CASE hpc[t] = "abort3" /\ Goto(t, "allow3")
  <2>1. hpc[t] \in LiftPcs /\ hpc'[t] \in LiftPcs /\ hi'[t] = hi[t]
    BY <1>4, GotoAt DEF LiftPcs
  <2> QED BY <1>0, <2>1, PlainLift
<1>5. CASE hpc[t] = "poll3" /\ Goto(t, "busy3")
  BY <1>5, GotoAt, OutOfReach
<1> QED BY <1>1, <1>2, <1>3, <1>4, <1>5 DEF AbortChecks

LEMMA TakesEventAxis ==
  ASSUME TypeOK, HomingInv, AxisInv, NEW t \in Tasks, HomingTakesEvent(t)
  PROVE  StageIsRight(t)'
<1>1. /\ hpc[t] = "wait2" /\ TakeEvent
      /\ UNCHANGED <<limit_reached, stepVars, settling, workVars, pos>>
  BY DEF HomingTakesEvent, sysVars, axisVars
<1>2. AwaitsEvents
  BY <1>1 DEF AxisInv, StageIsRight, AwaitIsRight, Steps1And2Pcs, InSteps1And2
<1>3. /\ lsem > 0 /\ lsem' = lsem - 1 /\ ltail' = After(ltail)
      /\ UNCHANGED <<lqueue, lhead>>
  BY <1>1 DEF TakeEvent
<1>4. ltail < lhead /\ ltail' = ltail + 1 /\ EventAtTail \in Reported
  BY <1>2, <1>3, TailStep DEF AwaitsEvents
<1>5. Reported' = Reported /\ InHand' = InHand
  BY <1>1, <1>3 DEF Reported, InHand, workVars
<1>6. EventsAreRight'
  <2>1. lhead \in Int /\ ltail \in Int /\ lsem \in Int
    BY QueueSizeAssumption DEF TypeOK, LimitTypeOK, Slots
  <2>2. EventsAreRight
    BY <1>2 DEF AwaitsEvents
  <2>3. ltail' <= lhead' /\ lsem' + (IF worker' = "post" THEN 1 ELSE 0) = lhead' - ltail'
    BY <1>1, <1>3, <1>4, <2>1, <2>2 DEF EventsAreRight, workVars
  <2>4. \A l \in WithEdge' : l \in EdgeLines /\ EdgeIsOver(l)'
    BY <1>1, <1>5, <2>2 DEF EventsAreRight, WithEdge, EdgeIsOver
  <2> QED BY <1>1, <1>3, <1>5, <2>2, <2>3, <2>4 DEF EventsAreRight, workVars
<1>7. WorkIsRight'
  BY <1>1, <1>2 DEF AwaitsEvents, WorkIsRight, Still, workVars, stepVars
<1>8. AwaitsEvents'
  <2>1. \A m \in Motors : MovesDown(m)' /\ (Arrived(m) => Arrived(m)')
    BY <1>1, <1>2 DEF AwaitsEvents, MovesDown, Arrived, Still, workVars, stepVars
  <2> QED BY <1>1, <1>2, <1>5, <1>6, <1>7, <2>1 DEF AwaitsEvents
<1>9. CASE EventAtTail[2]
  <2>1. hpc'[t] = "wait2"
    BY <1>1, <1>9 DEF HomingTakesEvent
  <2> QED BY <1>8, <2>1
          DEF StageIsRight, Step0IsRight, AwaitIsRight, LiftIsRight, Step0Pcs, InStep0,
              LiftPcs, Step1Pcs
<1>10. CASE ~EventAtTail[2]
  <2>1. hpc'[t] = "known2" /\ hm'[t] = EventAtTail[1]
    BY <1>10 DEF HomingTakesEvent, TypeOK, HomingTypeOK
  <2>2. EventAtTail \in EdgeLines
    BY <1>2, <1>4 DEF AwaitsEvents, EventsAreRight, WithEdge
  <2>3. EventAtTail = LowerLine(hm'[t])
    BY <1>10, <2>1, <2>2, LineIs DEF EdgeLines, LowerLine
  <2>4. AwaitIsRight(t)'
    BY <1>4, <1>5, <1>8, <2>1, <2>3 DEF AwaitIsRight, Step1Pcs, LowerLine
  <2> QED BY <2>1, <2>4
          DEF StageIsRight, Step0IsRight, LiftIsRight, Step0Pcs, InStep0, LiftPcs
<1> QED BY <1>9, <1>10

LEMMA ChecksKnownAxis ==
  ASSUME TypeOK, HomingInv, AxisInv, NEW t \in Tasks, HomingChecksKnown(t)
  PROVE  StageIsRight(t)'
<1>0. /\ hpc[t] = "known2" /\ hm'[t] = hm[t] /\ hi[t] \in Int
      /\ UNCHANGED <<stepVars, limitVars, limit_reached, pos>>
  BY MotorCountAssumption
  DEF HomingChecksKnown, sysVars, axisVars, TypeOK, HomingTypeOK, Motors
<1>1. hpc'[t] \in {"wait2", "set2"} /\ hi'[t] = hi[t]
  BY GotoAt DEF HomingChecksKnown, AfterKnown
<1>2. /\ hpc[t] \in Steps1And2Pcs /\ hpc'[t] \in Steps1And2Pcs /\ hpc'[t] \notin Step1Pcs
      /\ hpc'[t] \notin {"allow1", "home1"}
  BY <1>0, <1>1 DEF Steps1And2Pcs, InSteps1And2, Step1Pcs
<1>3. LowerLine(hm'[t]) \in Reported
  BY <1>0 DEF AxisInv, StageIsRight, AwaitIsRight
<1> QED BY <1>0, <1>1, <1>2, <1>3, PlainAwait

LEMMA MarksReachedAxis ==
  ASSUME TypeOK, HomingInv, AxisInv, NEW t \in Tasks, HomingMarksReached(t)
  PROVE  StageIsRight(t)'
<1>0. PICK k \in Motors : k = hm[t]
  BY DEF TypeOK, HomingTypeOK
<1>1. /\ hpc[t] = "set2" /\ hm'[t] = k
      /\ UNCHANGED <<stepVars, limitVars, pos>>
      /\ limit_reached' = [limit_reached EXCEPT ![k] = TRUE]
  BY <1>0 DEF HomingMarksReached, SetLimitReached, axisVars
<1>2. hpc'[t] = "capture2"
  BY GotoAt DEF HomingMarksReached
<1>3. AwaitsEvents /\ LowerLine(k) \in Reported
  BY <1>0, <1>1 DEF AxisInv, StageIsRight, AwaitIsRight, Steps1And2Pcs
<1>4. Reported' = Reported /\ InHand' = InHand
  BY <1>1 DEF Reported, InHand, limitVars, workVars, ringVars
<1>5. EventsAreRight' /\ WorkIsRight'
  BY <1>1, <1>3, <1>4 DEF AwaitsEvents, EventsAreRight, WithEdge, EdgeIsOver, WorkIsRight,
                          Still, limitVars, workVars, ringVars, stepVars
<1>6. AwaitsEvents'
  <2>1. \A m \in Motors : MovesDown(m)' /\ (Arrived(m) => Arrived(m)')
    BY <1>1, <1>3 DEF AwaitsEvents, MovesDown, Arrived, Still, limitVars, workVars, stepVars
  <2>2. \A m \in Motors : limit_reached'[m] => limit_reached[m] \/ m = k
    BY <1>1 DEF TypeOK, SysTypeOK
  <2> QED BY <1>3, <1>4, <1>5, <2>1, <2>2 DEF AwaitsEvents
<1>7. AwaitIsRight(t)'
  BY <1>1, <1>2, <1>3, <1>4, <1>6 DEF AwaitIsRight, Step1Pcs, LowerLine
<1> QED BY <1>2, <1>7
        DEF StageIsRight, Step0IsRight, LiftIsRight, Step0Pcs, InStep0, LiftPcs

LEMMA CapturesAxis ==
  ASSUME TypeOK, HomingInv, AxisInv, NEW t \in Tasks, HomingCaptures(t)
  PROVE  StageIsRight(t)'
<1>1. /\ hpc[t] \in InSteps1And2 /\ Goto(t, AfterWait(need[t]))
      /\ UNCHANGED <<stepVars, limitVars, limit_reached, pos>>
  BY DEF HomingCaptures, InSteps1And2, sysVars, axisVars
<1> QED BY <1>1, AfterAwait

(* Step 3. *)
LEMMA AsksLiftAxis ==
  ASSUME TypeOK, HomingInv, AxisInv, NEW t \in Tasks, HomingAsksLift(t) \/ HomingChecksLift(t)
  PROVE  StageIsRight(t)'
<1>0. hi[t] \in Int /\ hi[t] + 1 >= hi[t] /\ hi[t] + 1 \in Int
  BY MotorCountAssumption DEF TypeOK, HomingTypeOK, Motors
<1>1. /\ hpc[t] \in LiftPcs
      /\ UNCHANGED <<stepVars, limitVars, limit_reached, pos>>
  BY DEF HomingAsksLift, HomingChecksLift, LiftPcs, sysVars, axisVars
<1>2. CASE Loop(t, "abort3", "poll3")
  <2>1. CASE hpc'[t] = "poll3"
    BY <2>1, OutOfReach
  <2>2. CASE hpc'[t] = "abort3" /\ hi'[t] = hi[t] + 1
    <3>1. hpc'[t] \in LiftPcs
      BY <2>2 DEF LiftPcs
    <3> QED BY <1>0, <1>1, <2>2, <3>1, PlainLift
  <2> QED BY <1>2, <2>1, <2>2, LoopAt
<1>3. CASE Goto(t, "lift3") \/ Goto(t, "apply3")
  <2>1. hpc'[t] \in {"lift3", "apply3"} /\ hi'[t] = hi[t]
    BY <1>3, GotoAt
  <2>2. hpc'[t] \in LiftPcs
    BY <2>1 DEF LiftPcs
  <2> QED BY <1>0, <1>1, <2>1, <2>2, PlainLift
<1> QED BY <1>2, <1>3 DEF HomingAsksLift, HomingChecksLift

LEMMA SendsLiftAxis ==
  ASSUME TypeOK, HomingInv, AxisInv, NEW t \in Tasks, HomingSendsLift(t)
  PROVE  StageIsRight(t)'
<1>0. PICK k \in Motors : k = hi[t]
  BY DEF TypeOK, HomingTypeOK
<1>1. /\ hpc[t] = "apply3" /\ UNCHANGED <<limitVars, limit_reached, pos>>
      /\ ApplyMove(k, TRUE, "TARGETED") /\ Loop(t, "abort3", "poll3")
  BY <1>0 DEF HomingSendsLift, sysVars, axisVars
<1>2. \A m \in Motors : m # k => pulsing'[m] = pulsing[m] /\ son'[m] = son[m]
  BY <1>1 DEF ApplyMove, TypeOK, StepTypeOK
<1>3. CASE hpc'[t] = "poll3"
  BY <1>3, OutOfReach
<1>4. CASE hpc'[t] = "abort3" /\ hi'[t] = k + 1
  <2>1. \A m \in Motors : m >= hi'[t] => m # k /\ m >= k
    BY <1>4, MotorCountAssumption DEF Motors
  <2>2. \A m \in Motors : m >= k => CutIsOver(m)
    BY <1>0, <1>1 DEF AxisInv, StageIsRight, LiftIsRight, LiftPcs
  <2>3. \A m \in Motors : m # k => (Still(m) => Still(m)')
    BY <1>2 DEF Still
  <2>4. \A m \in Motors : m >= hi'[t] => CutIsOver(m)'
    BY <1>1, <2>1, <2>2, <2>3, RestOthers
  <2>5. LiftIsRight(t)'
    BY <2>4 DEF LiftIsRight
  <2> QED BY <1>4, <2>5 DEF StageIsRight, Step0IsRight, AwaitIsRight, Step0Pcs, InStep0,
                            Step1Pcs, Steps1And2Pcs, InSteps1And2
<1> QED BY <1>0, <1>1, <1>3, <1>4, LoopAt

LEMMA EndsAxis ==
  ASSUME TypeOK, NEW t \in Tasks,
         \/ HomingTimesOut(t) \/ HomingPollsBusy(t) \/ HomingCutsSon(t)
         \/ HomingSetsHomed(t) \/ HomingNotifies(t)
  PROVE  StageIsRight(t)'
<1>1. \/ Goto(t, "none") \/ hpc' = [hpc EXCEPT ![t] = "poll3"]
      \/ Loop(t, "busy3", "cut3") \/ Loop(t, "cut3", "homed4") \/ Loop(t, "homed4", "notify4")
  BY DEF HomingTimesOut, HomingPollsBusy, HomingCutsSon, HomingSetsHomed, HomingNotifies, Exit
<1>2. hpc'[t] \in {"none", "poll3", "busy3", "cut3", "homed4", "notify4"}
  BY <1>1, GotoAt, LoopGoes DEF TypeOK, HomingTypeOK
<1> QED BY <1>2, OutOfReach

LEMMA HomingTaskAxis ==
  ASSUME TypeOK, HomingInv, AxisInv, NEW t \in Tasks, HomingTask(t)
  PROVE  AxisInv'
<1>1. StageIsRight(t)'
  BY StartsAxis, Step0Axis, ChecksAbortAxis, SkipsAxis, SendsHomeAxis, TakesEventAxis,
     ChecksKnownAxis, MarksReachedAxis, CapturesAxis, AsksLiftAxis, SendsLiftAxis, EndsAxis
  DEF HomingTask
<1> QED BY <1>1, TaskAxis

LEMMA AxisInvInit == Init => AxisInv
<1> SUFFICES ASSUME Init PROVE AxisInv
  OBVIOUS
<1>1. \A t \in Tasks : hpc[t] = "none"
  BY DEF Init
<1>2. ~Starting
  BY <1>1 DEF Init, Starting, BeforeStep0, Step0Pcs, InStep0
<1> QED BY <1>1, <1>2, NoTaskAxis DEF AxisInv, StartIsStill

LEMMA AxisInvStep ==
  ASSUME ORDERLY_RESTART, OnlyPowerMoves, RingHoldsAll, TypeOK, HomingInv, AxisInv,
         [Next]_vars
  PROVE  AxisInv'
<1>1. ASSUME UNCHANGED vars PROVE AxisInv'
  <2>1. UNCHANGED <<limitVars, pos, limit_reached, taskVars, stepVars>> /\ workLine \in Lines
    BY <1>1 DEF vars, sysVars, axisVars, TypeOK, LimitTypeOK
  <2>2. \A n \in Motors : (Still(n) => Still(n)') /\ (MovesDown(n) => MovesDown(n)')
    BY <2>1 DEF Still, MovesDown, stepVars
  <2>3. AwaitsEvents => AwaitsEvents' /\ Reported' = Reported
    BY <2>1, <2>2, RestAwaits
  <2>4. \A n \in Motors : /\ NotSentYet(n) => NotSentYet(n)'
                          /\ CutIsOver(n) => CutIsOver(n)'
    BY <2>1, <2>2, RestOthers
  <2>5. StartIsStill' /\ UNCHANGED <<lhead, ltail, lsem>>
    BY <1>1, <2>1, StartStep DEF AxisInv, limitVars, ringVars
  <2> QED BY <2>1, <2>3, <2>4, <2>5, AroundAxis
<1>2. CASE Next
  BY <1>2, AxisAxis, WorkerAxis, SafetyEventAxis, SafetyTaskAxis, HomingTaskAxis DEF Next
<1> QED BY <1>1, <1>2

(* The events in the ring and the axes agree through all of homing, for any  *)
(* number of motors, any ring that holds an event of each line, any faults  *)
(* and any buttons.                                                         *)
THEOREM AxisInvariant ==
  ORDERLY_RESTART /\ OnlyPowerMoves /\ RingHoldsAll => (Spec => []AxisInv)
<1> SUFFICES ASSUME ORDERLY_RESTART, OnlyPowerMoves, RingHoldsAll
             PROVE  Spec => []AxisInv
  OBVIOUS
<1>1. TypeOK /\ HomingInv /\ AxisInv /\ [Next]_vars => AxisInv'
  BY AxisInvStep
<1> QED BY <1>1, AxisInvInit, TypeCorrect, HomingInvariant, PTL DEF Spec

LEMMA ZeroAtLimit ==
  ASSUME TypeOK, AxisInv
  PROVE  ZeroTakenAtLimit
<1> SUFFICES ASSUME NEW t \in Tasks
             PROVE  /\ hpc[t] = "capture0" => pos[hi[t]] = "down"
                    /\ hpc[t] = "capture2" => pos[hm[t]] = "down"
  BY DEF ZeroTakenAtLimit
<1>1. hpc[t] = "capture0" => pos[hi[t]] = "down"
  BY DEF AxisInv, StageIsRight, Step0IsRight
<1>2. ASSUME hpc[t] = "capture2" PROVE pos[hm[t]] = "down"
  <2>1. LowerLine(hm[t]) \in Reported /\ AwaitsEvents
    BY <1>2 DEF AxisInv, StageIsRight, AwaitIsRight, Steps1And2Pcs, InSteps1And2
  <2>2. hm[t] \in Motors
    BY DEF TypeOK, HomingTypeOK
  <2> QED BY <2>1, <2>2 DEF AwaitsEvents, Arrived
<1> QED BY <1>1, <1>2

(* The event or the reading that led to the capture of an encoder zero told *)
(* the truth: the axis stands on its lower limit.                           *)
THEOREM ZeroAlwaysAtLimit ==
  ORDERLY_RESTART /\ OnlyPowerMoves /\ RingHoldsAll => (Spec => []ZeroTakenAtLimit)
<1>1. TypeOK /\ AxisInv => ZeroTakenAtLimit
  BY ZeroAtLimit
<1> QED BY <1>1, TypeCorrect, AxisInvariant, PTL

LEMMA TokensMatch ==
  ASSUME TypeOK, AxisInv
  PROVE  TokensMatchRing
<1> SUFFICES ASSUME NEW t \in Tasks, hpc[t] \in AwaitingPcs
             PROVE  lsem + (IF worker = "post" THEN 1 ELSE 0) = RingLength
  BY DEF TokensMatchRing
<1>0. /\ lhead \in Nat /\ ltail \in Nat /\ lhead < LIMIT_QUEUE_SIZE
      /\ LIMIT_QUEUE_SIZE \in Nat \ {0}
  BY QueueSizeAssumption DEF TypeOK, LimitTypeOK, Slots
<1>1. CASE hpc[t] \in Step0Pcs
  <2>1. lhead = 0 /\ ltail = 0 /\ lsem = 0 /\ worker = "idle"
    BY <1>1 DEF AxisInv, StageIsRight, Step0IsRight, StartIsStill, Starting
  <2>2. RingLength = 0
    BY <1>0, <2>1 DEF RingLength
  <2> QED BY <2>1, <2>2
<1>2. CASE hpc[t] \in Steps1And2Pcs
  <2>1. ltail <= lhead /\ lsem + (IF worker = "post" THEN 1 ELSE 0) = lhead - ltail
    BY <1>2 DEF AxisInv, StageIsRight, AwaitIsRight, AwaitsEvents, EventsAreRight
  <2>2. RingLength = lhead - ltail
    BY <1>0, <2>1 DEF RingLength
  <2> QED BY <2>1, <2>2
<1> QED BY <1>1, <1>2
        DEF AwaitingPcs, Step0Pcs, InStep0, Steps1And2Pcs, InSteps1And2

(* No wakeup of the homing task is lost, and none finds an empty ring.      *)
THEOREM TokensAlwaysMatch ==
  ORDERLY_RESTART /\ OnlyPowerMoves /\ RingHoldsAll => (Spec => []TokensMatchRing)
<1>1. TypeOK /\ AxisInv => TokensMatchRing
  BY TokensMatch
<1> QED BY <1>1, TypeCorrect, AxisInvariant, PTL

----------------------------------------------------------------------------
(* Pulses belong to a move. *)

LEMMA CutKept ==
  ASSUME CutInv, UNCHANGED workVars,
         \A m \in Motors : pulsing'[m] =>
           pulsing[m] /\ busy'[m] = busy[m] /\ mode'[m] = mode[m]
  PROVE  CutInv'
BY DEF CutInv, workVars

LEMMA WorkerCut ==
  ASSUME TypeOK, CutInv, LimitWorker
  PROVE  CutInv'
<1>0. workLine[1] \in Motors
  BY LineIs DEF TypeOK, LimitTypeOK
<1>1. ASSUME NEW l \in Lines, WorkerReads(l, Level(l)) PROVE CutInv'
  BY <1>1 DEF WorkerReads, CutInv, stepVars
<1>2. CASE WorkerNotifies \/ WorkerSetsLevel \/ WorkerPushes \/ WorkerPosts
  BY <1>2 DEF WorkerNotifies, WorkerSetsLevel, WorkerPushes, WorkerPosts, CutInv,
              chanVars, stepVars
<1>3. CASE WorkerCuts
  <2>1. /\ worker \in CutStages /\ workLine' = workLine
        /\ worker' = NextStage[worker] /\ CutStage(workLine[1], worker)
    BY <1>3 DEF WorkerCuts
  <2>2. \A m \in Motors : m # workLine[1] =>
          pulsing'[m] = pulsing[m] /\ busy'[m] = busy[m] /\ mode'[m] = mode[m]
    BY <2>1 DEF CutStage, TypeOK, StepTypeOK
  <2>3. ~pulsing'[workLine[1]]
    <3>1. worker = "pulses" => ~pulsing'[workLine[1]]
      BY <1>0, <2>1, StageCalms
    <3>2. worker # "pulses" => ~pulsing[workLine[1]]
      BY <1>0, <2>1 DEF CutInv, CutStages
    <3>3. pulsing'[workLine[1]] => pulsing[workLine[1]]
      BY <1>0, <2>1, StageCalms
    <3> QED BY <3>1, <3>2, <3>3
  <2> QED BY <2>1, <2>2, <2>3 DEF CutInv
<1> QED BY <1>1, <1>2, <1>3 DEF LimitWorker, WorkerContinues

(* A command comes to an axis that the worker is not in the middle of. *)
LEMMA CommandCut ==
  ASSUME TypeOK, CutInv, UNCHANGED workVars, NEW k \in Motors, NEW up,
         ApplyMove(k, up, "HOMING") \/ ApplyMove(k, up, "TARGETED"),
         worker \in {"busy", "mode", "son"} => workLine[1] # k
  PROVE  CutInv'
<1>1. /\ busy'[k] /\ mode'[k] # "IDLE"
      /\ \A m \in Motors : m # k =>
           pulsing'[m] = pulsing[m] /\ busy'[m] = busy[m] /\ mode'[m] = mode[m]
  BY DEF ApplyMove, TypeOK, StepTypeOK
<1> QED BY <1>1 DEF CutInv, workVars

LEMMA HomingTaskCut ==
  ASSUME TypeOK, AxisInv, CutInv, NEW t \in Tasks, HomingTask(t)
  PROVE  CutInv'
<1>0. PICK k \in Motors : k = hi[t]
  BY DEF TypeOK, HomingTypeOK
<1>1. UNCHANGED workVars /\ k \in Int
  BY TaskLeaves, MotorCountAssumption DEF workVars, Motors
<1>2. CASE HomingSendsHome(t)
  <2>1. AwaitIsRight(t) /\ hpc[t] \in Step1Pcs
    BY <1>2 DEF HomingSendsHome, Step1Pcs, AxisInv, StageIsRight
  <2>2. NotSentYet(k)
    BY <1>0, <1>1, <2>1 DEF AwaitIsRight
  <2>3. worker # "idle" => workLine[1] # k
    BY <2>2 DEF NotSentYet, WithEdge, InHand
  <2>4. ApplyMove(k, FALSE, "HOMING")
    BY <1>0, <1>2 DEF HomingSendsHome, IoctlHome
  <2> QED BY <1>1, <2>3, <2>4, CommandCut
<1>3. CASE HomingSendsLift(t)
  <2>1. LiftIsRight(t) /\ hpc[t] \in LiftPcs
    BY <1>3 DEF HomingSendsLift, LiftPcs, AxisInv, StageIsRight
  <2>2. CutIsOver(k)
    BY <1>0, <1>1, <2>1 DEF LiftIsRight
  <2>3. worker \in {"busy", "mode", "son"} => workLine[1] # k
    BY <2>2 DEF CutIsOver, CutStages
  <2>4. ApplyMove(k, TRUE, "TARGETED")
    BY <1>0, <1>3 DEF HomingSendsLift
  <2> QED BY <1>1, <2>3, <2>4, CommandCut
<1>4. CASE HomingNotifiesDriver(t)
  BY <1>1, <1>4, CutKept
  DEF HomingNotifiesDriver, NotifyLimit, CutChannels, chanVars, TypeOK, StepTypeOK
<1>5. CASE HomingCutsSon(t)
  BY <1>1, <1>5, CutKept DEF HomingCutsSon, IoctlSonOff, stepVars
<1>6. CASE UNCHANGED stepVars
  BY <1>1, <1>6, CutKept DEF stepVars
<1> QED BY <1>2, <1>3, <1>4, <1>5, <1>6
        DEF HomingTask, HomingFlushes, HomingDrains, HomingReads,
            HomingFindsAtLimit, HomingCapturesAtStart, HomingChecksAbort,
            HomingSkipsReached, HomingAsksHome, HomingTimesOut, HomingTakesEvent,
            HomingChecksKnown, HomingMarksReached, HomingCaptures,
            HomingAsksLift, HomingChecksLift, HomingPollsBusy, HomingSetsHomed,
            HomingNotifies

LEMMA CutInvStep ==
  ASSUME TypeOK, AxisInv, CutInv, [Next]_vars
  PROVE  CutInv'
<1>1. ASSUME NEW m \in Motors, Axis(m) PROVE CutInv'
  <2>1. UNCHANGED workVars
    BY <1>1 DEF Axis, AxisTurns, AxisDrifts, MoveEnds, EncoderRead, limitVars
  <2>2. CASE MoveEnds(m)
    BY <2>1, <2>2, CutKept DEF MoveEnds, SlaveIsr, TypeOK, StepTypeOK
  <2>3. CASE ~MoveEnds(m)
    BY <1>1, <2>1, <2>3, CutKept DEF Axis, AxisTurns, AxisDrifts, EncoderRead, stepVars
  <2> QED BY <2>2, <2>3
<1>2. ASSUME NEW b \in BtnEvents, SafetyEvent(b) PROVE CutInv'
  BY <1>2, CutKept DEF SafetyEvent, stepVars, limitVars
<1>3. CASE SafetyTask
  BY <1>3, CutKept
  DEF SafetyTask, SafetySpawns, SafetySpawnFails, SafetyStops, IoctlEstop, CutChannels,
      stepVars, limitVars, TypeOK, StepTypeOK
<1>4. CASE UNCHANGED vars
  BY <1>4, CutKept DEF vars, stepVars, limitVars
<1> QED BY <1>1, <1>2, <1>3, <1>4, WorkerCut, HomingTaskCut DEF Next

(* The worker never leaves an axis pulsing that it has cut, because no      *)
(* command of homing comes in between.                                      *)
THEOREM CutInvariant ==
  ORDERLY_RESTART /\ OnlyPowerMoves /\ RingHoldsAll => (Spec => []CutInv)
<1> SUFFICES ASSUME ORDERLY_RESTART, OnlyPowerMoves, RingHoldsAll
             PROVE  Spec => []CutInv
  OBVIOUS
<1>1. Init => CutInv
  BY DEF Init, StepInit, CutInv
<1>2. TypeOK /\ AxisInv /\ CutInv /\ [Next]_vars => CutInv'
  BY CutInvStep
<1> QED BY <1>1, <1>2, TypeCorrect, AxisInvariant, PTL DEF Spec

(* Pulses belong to a move, which its slave interrupt or a switch ends. *)
THEOREM PulsesAlwaysMoves ==
  ORDERLY_RESTART /\ OnlyPowerMoves /\ RingHoldsAll => (Spec => []PulsesAreMoves)
<1>1. CutInv => PulsesAreMoves
  BY DEF CutInv, PulsesAreMoves
<1> QED BY <1>1, CutInvariant, PTL

----------------------------------------------------------------------------
(* In the end every axis stands still without power, where open() of a      *)
(* device and task_create() do not fail.                                    *)

(* No axis starts. *)
NoneStirs == \A m \in Motors : (busy'[m] => busy[m]) /\ (son'[m] => son[m])

LEMMA AroundQuiet ==
  ASSUME QuietInv, UNCHANGED taskVars, NoneStirs,
         state' \in ReadyStates => state \in ReadyStates
  PROVE  QuietInv'
<1>1. \A m \in Motors : (~busy[m] => ~busy'[m]) /\ (~son[m] => ~son'[m])
  BY DEF NoneStirs
<1>2. \A m \in Motors : Quiet(m) => Quiet(m)'
  BY <1>1 DEF Quiet
<1>3. \A t \in Tasks : QuietIsRight(t)'
  BY <1>1, <1>2 DEF QuietInv, QuietIsRight, taskVars
<1> QED BY <1>2, <1>3 DEF QuietInv

LEMMA NoTaskQuiet ==
  ASSUME NEW t \in Tasks, hpc[t] \notin {"poll3", "busy3", "cut3", "homed4", "notify4"}
  PROVE  QuietIsRight(t)
BY DEF QuietIsRight

LEMMA OthersQuiet ==
  ASSUME TypeOK, QuietInv,
         \/ \E m \in Motors : Axis(m)
         \/ LimitWorker
         \/ \E b \in BtnEvents : SafetyEvent(b)
         \/ SafetyStops
         \/ UNCHANGED vars
  PROVE  QuietInv'
<1>0. workLine[1] \in Motors
  BY LineIs DEF TypeOK, LimitTypeOK
<1>1. UNCHANGED taskVars
  BY DEF Axis, AxisTurns, AxisDrifts, MoveEnds, EncoderRead, LimitWorker, SafetyEvent,
         SafetyStops, vars
<1>2. state' \in ReadyStates => state \in ReadyStates
  BY DEF Axis, AxisTurns, AxisDrifts, MoveEnds, EncoderRead, LimitWorker, SafetyEvent,
         SafetyStops, vars, sysVars, HandleBtnEvent, HandleStart, HandleStop, HandleRestart,
         Latch, StartableStates, ReadyStates
<1>3. NoneStirs
  <2>1. ASSUME NEW m \in Motors, Axis(m) PROVE NoneStirs
    BY <2>1 DEF Axis, AxisTurns, AxisDrifts, MoveEnds, EncoderRead, SlaveIsr, stepVars,
                NoneStirs, TypeOK, StepTypeOK
  <2>2. CASE LimitWorker
    <3>1. ASSUME WorkerCuts PROVE NoneStirs
      BY <1>0, <3>1 DEF WorkerCuts, CutStage, NoneStirs, TypeOK, StepTypeOK
    <3>2. \A l \in Lines : WorkerReads(l, Level(l)) => NoneStirs
      BY DEF WorkerReads, stepVars, NoneStirs
    <3> QED BY <2>2, <3>1, <3>2
            DEF LimitWorker, WorkerContinues, WorkerNotifies, WorkerSetsLevel,
                WorkerPushes, WorkerPosts, chanVars, stepVars, NoneStirs
  <2>3. CASE SafetyStops
    BY <2>3, CutCalms DEF SafetyStops, IoctlEstop, NoneStirs, stepVars
  <2>4. CASE UNCHANGED stepVars
    BY <2>4 DEF stepVars, NoneStirs
  <2> QED BY <2>1, <2>2, <2>3, <2>4 DEF SafetyEvent, vars
<1> QED BY <1>1, <1>2, <1>3, AroundQuiet

LEMMA SpawnQuiet ==
  ASSUME TypeOK, QuietInv, SafetySpawnFails \/ \E t \in Tasks : SafetySpawns(t)
  PROVE  QuietInv'
<1>1. UNCHANGED <<stepVars, sysVars, hi>>
  BY DEF SafetySpawnFails, SafetySpawns, taskVars
<1>2. \A t \in Tasks : hpc'[t] \in {hpc[t], "flush"}
  BY DEF SafetySpawnFails, SafetySpawns, taskVars, TypeOK, HomingTypeOK
<1> QED BY <1>1, <1>2 DEF QuietInv, QuietIsRight, Quiet, stepVars, sysVars

LEMMA TaskQuiet ==
  ASSUME TypeOK, HomingInv, NEW t \in Tasks, HomingTask(t), QuietIsRight(t)',
         state' \in ReadyStates => \A m \in Motors : Quiet(m)'
  PROVE  QuietInv'
<1>1. ASSUME NEW u \in Tasks, u # t PROVE QuietIsRight(u)'
  BY <1>1, OneTask DEF QuietIsRight
<1> QED BY <1>1 DEF QuietInv

(* Homing is not over while its task is there. *)
LEMMA TaskNotReady ==
  ASSUME HomingInv, NEW t \in Tasks, HomingTask(t)
  PROVE  state \notin ReadyStates
BY TaskIsThere DEF HomingInv, HomingUnderWay, NoHomingTask, ReadyStates

LEMMA PollsQuiet ==
  ASSUME ~FAULTS, TypeOK, QuietInv, NEW t \in Tasks, HomingPollsBusy(t)
  PROVE  QuietIsRight(t)'
<1>0. /\ hi[t] \in Int /\ \A m \in Motors : m \in Int /\ m <= LastMotor /\ ~(m < 0)
      /\ UNCHANGED stepVars
  BY MotorCountAssumption DEF TypeOK, HomingTypeOK, Motors, LastMotor, HomingPollsBusy
<1>1. \A m \in Motors : m < hi[t] => ~busy[m]
  BY DEF QuietInv, QuietIsRight, HomingPollsBusy
<1>2. CASE hpc' = [hpc EXCEPT ![t] = "poll3"] /\ hi' = [hi EXCEPT ![t] = 0]
  BY <1>2 DEF QuietIsRight, TypeOK, HomingTypeOK
<1>3. CASE ~busy[hi[t]] /\ Loop(t, "busy3", "cut3")
  <2>1. \A m \in Motors : m <= hi[t] => ~busy'[m]
    BY <1>0, <1>1, <1>3 DEF stepVars
  <2>2. CASE hpc'[t] = "busy3" /\ hi'[t] = hi[t] + 1
    <3>1. \A m \in Motors : m < hi'[t] => ~busy'[m]
      BY <1>0, <2>1, <2>2
    <3> QED BY <2>2, <3>1 DEF QuietIsRight
  <2>3. CASE hi[t] = LastMotor /\ hpc'[t] = "cut3" /\ hi'[t] = 0
    <3>1. \A m \in Motors : ~busy'[m] /\ ~(m < hi'[t])
      BY <1>0, <2>1, <2>3
    <3> QED BY <2>3, <3>1 DEF QuietIsRight
  <2> QED BY <1>3, <2>2, <2>3, LoopAt
<1> QED BY <1>2, <1>3 DEF HomingPollsBusy

LEMMA CutsQuiet ==
  ASSUME ~FAULTS, TypeOK, QuietInv, NEW t \in Tasks, HomingCutsSon(t)
  PROVE  QuietIsRight(t)'
<1>0. /\ hi[t] \in Int /\ \A m \in Motors : m \in Int /\ m <= LastMotor
      /\ hi[t] \in Motors
  BY MotorCountAssumption DEF TypeOK, HomingTypeOK, Motors, LastMotor
<1>1. hpc[t] = "cut3" /\ IoctlSonOff(hi[t]) /\ Loop(t, "cut3", "homed4")
  BY DEF HomingCutsSon
<1>2. \A m \in Motors : ~busy[m] /\ (m < hi[t] => ~son[m])
  BY <1>1 DEF QuietInv, QuietIsRight
<1>3. \A m \in Motors : ~busy'[m] /\ (m <= hi[t] => ~son'[m])
  BY <1>0, <1>1, <1>2 DEF IoctlSonOff, TypeOK, StepTypeOK
<1>4. CASE hpc'[t] = "cut3" /\ hi'[t] = hi[t] + 1
  <2>1. \A m \in Motors : m < hi'[t] => ~son'[m]
    BY <1>0, <1>3, <1>4
  <2> QED BY <1>3, <1>4, <2>1 DEF QuietIsRight
<1>5. CASE hi[t] = LastMotor /\ hpc'[t] = "homed4"
  <2>1. \A m \in Motors : ~son'[m]
    BY <1>0, <1>3, <1>5
  <2> QED BY <1>3, <1>5, <2>1 DEF QuietIsRight, Quiet
<1> QED BY <1>1, <1>4, <1>5, LoopAt

LEMMA HomingTaskQuiet ==
  ASSUME ~FAULTS, TypeOK, HomingInv, QuietInv, NEW t \in Tasks, HomingTask(t)
  PROVE  QuietInv'
<1>1. state \notin ReadyStates
  BY TaskNotReady
<1>2. CASE HomingPollsBusy(t) \/ HomingCutsSon(t)
  <2>1. state' = state
    BY <1>2 DEF HomingPollsBusy, HomingCutsSon, sysVars
  <2> QED BY <1>1, <1>2, <2>1, PollsQuiet, CutsQuiet, TaskQuiet
<1>3. CASE HomingSetsHomed(t)
  <2>1. hpc'[t] \in {"homed4", "notify4"} /\ UNCHANGED stepVars /\ state' = state
    BY <1>3, LoopGoes DEF HomingSetsHomed, SetHomed
  <2>2. \A m \in Motors : Quiet(m)
    BY <1>3 DEF HomingSetsHomed, QuietInv, QuietIsRight
  <2>3. QuietIsRight(t)'
    BY <2>1, <2>2 DEF QuietIsRight, Quiet, stepVars
  <2> QED BY <1>1, <2>1, <2>3, TaskQuiet
<1>4. CASE HomingNotifies(t)
  <2>1. hpc'[t] = "none" /\ UNCHANGED stepVars
    BY <1>4, GotoAt DEF HomingNotifies, Exit
  <2>2. \A m \in Motors : Quiet(m)
    BY <1>4 DEF HomingNotifies, QuietInv, QuietIsRight
  <2>3. QuietIsRight(t)' /\ \A m \in Motors : Quiet(m)'
    BY <2>1, <2>2 DEF QuietIsRight, Quiet, stepVars
  <2> QED BY <2>3, TaskQuiet
<1>5. CASE HomingChecksAbort(t)
  <2>1. PICK check \in AbortChecks :
          hpc[t] = check[1] /\ (Goto(t, "none") \/ Goto(t, check[2]))
    BY <1>5 DEF HomingChecksAbort, Exit
  <2>2. hpc'[t] \in {"none", check[2]} /\ hi'[t] = hi[t] /\ state' = state
    BY <1>5, <2>1, GotoAt DEF HomingChecksAbort, sysVars
  <2>3. hpc'[t] = "busy3" => hpc[t] = "poll3"
    BY <2>1, <2>2 DEF AbortChecks
  <2>4. hpc[t] = "poll3" => hi[t] = 0
    BY DEF QuietInv, QuietIsRight
  <2>5. \A m \in Motors : ~(m < 0)
    BY MotorCountAssumption DEF Motors
  <2>6. hpc'[t] \in {"none", "reached1", "allow3", "busy3"}
    BY <2>1, <2>2 DEF AbortChecks
  <2>7. QuietIsRight(t)'
    BY <2>2, <2>3, <2>4, <2>5, <2>6 DEF QuietIsRight
  <2> QED BY <1>1, <2>2, <2>7, TaskQuiet
<1>6. CASE Loop(t, "abort3", "poll3") /\ state' = state
  <2>1. hpc'[t] \in {"abort3", "poll3"} /\ (hpc'[t] = "poll3" => hi'[t] = 0)
    BY <1>6, LoopAt
  <2>2. QuietIsRight(t)'
    BY <2>1 DEF QuietIsRight
  <2> QED BY <1>1, <1>6, <2>2, TaskQuiet
<1>7. CASE /\ hpc'[t] \notin {"poll3", "busy3", "cut3", "homed4", "notify4"}
           /\ state' = state
  <2>1. QuietIsRight(t)'
    BY <1>7 DEF QuietIsRight
  <2> QED BY <1>1, <1>7, <2>1, TaskQuiet
<1>8. CASE \/ HomingFlushes(t) \/ HomingDrains(t) \/ HomingReads(t)
           \/ HomingNotifiesDriver(t) \/ HomingFindsAtLimit(t)
           \/ HomingCapturesAtStart(t) \/ HomingSkipsReached(t) \/ HomingAsksHome(t)
           \/ HomingSendsHome(t)
  <2>1. AfterHomes(t) \in {"wait2", "abort3"} /\ state' = state
    BY <1>8
    DEF AfterHomes, AfterWait, HomingFlushes, HomingDrains, HomingReads, HomingNotifiesDriver,
        HomingFindsAtLimit, HomingCapturesAtStart, HomingSkipsReached, HomingAsksHome,
        HomingSendsHome, SetLimitReached, sysVars
  <2>2. \/ Goto(t, "drain") \/ Goto(t, "reread0") \/ Goto(t, "notify0")
        \/ Goto(t, "reached0") \/ Goto(t, "capture0") \/ Goto(t, "allow1")
        \/ Goto(t, "home1") \/ Loop(t, "read0", "abort1")
        \/ Loop(t, "abort1", AfterHomes(t))
        \/ hpc'[t] \in {"read0", "drain"}
    <3>1. CASE HomingReads(t)
      <4>1. hpc[t] = "read0" \/ hpc[t] = "reread0"
        BY <3>1 DEF HomingReads
      <4> QED BY <3>1, <4>1 DEF HomingReads
    <3>2. CASE HomingDrains(t)
      BY <3>2 DEF HomingDrains, TypeOK, HomingTypeOK
    <3> QED BY <1>8, <3>1, <3>2
            DEF HomingFlushes, HomingNotifiesDriver, HomingFindsAtLimit,
                HomingCapturesAtStart, HomingSkipsReached, HomingAsksHome, HomingSendsHome
  <2>3. hpc'[t] \in {"drain", "reread0", "notify0", "reached0", "capture0", "allow1",
                     "home1", "read0", "abort1", AfterHomes(t)}
    BY <2>2, GotoAt, LoopGoes DEF TypeOK, HomingTypeOK
  <2> QED BY <1>7, <2>1, <2>3
<1>9. CASE \/ HomingTimesOut(t) \/ HomingTakesEvent(t) \/ HomingChecksKnown(t)
           \/ HomingMarksReached(t) \/ HomingCaptures(t)
  <2>1. /\ AfterWait(need[t]) \in {"wait2", "abort3"} /\ state' = state
        /\ AfterKnown(hm[t]) \in {"wait2", "set2"}
    BY <1>9
    DEF AfterWait, AfterKnown, HomingTimesOut, HomingTakesEvent, HomingChecksKnown,
        HomingMarksReached, HomingCaptures, SetLimitReached, sysVars
  <2>2. HomingTakesEvent(t) => hpc'[t] \in {"wait2", "known2"}
    BY DEF HomingTakesEvent, TypeOK, HomingTypeOK
  <2>3. \/ Goto(t, "none") \/ Goto(t, AfterKnown(hm[t])) \/ Goto(t, "capture2")
        \/ Goto(t, AfterWait(need[t])) \/ HomingTakesEvent(t)
    BY <1>9 DEF HomingTimesOut, HomingChecksKnown, HomingMarksReached, HomingCaptures, Exit
  <2>4. hpc'[t] \in {"none", "wait2", "known2", AfterKnown(hm[t]), "capture2",
                     AfterWait(need[t])}
    BY <2>2, <2>3, GotoAt
  <2> QED BY <1>7, <2>1, <2>4
<1>10. CASE HomingAsksLift(t) \/ HomingChecksLift(t) \/ HomingSendsLift(t)
  <2>1. state' = state
    BY <1>10 DEF HomingAsksLift, HomingChecksLift, HomingSendsLift, sysVars
  <2>2. \/ Loop(t, "abort3", "poll3") \/ hpc'[t] = "lift3" \/ hpc'[t] = "apply3"
    BY <1>10, GotoAt DEF HomingAsksLift, HomingChecksLift, HomingSendsLift
  <2> QED BY <1>6, <1>7, <2>1, <2>2
<1> QED BY <1>2, <1>3, <1>4, <1>5, <1>8, <1>9, <1>10 DEF HomingTask

(* Homing waits for every lift and cuts every axis from power, whatever the *)
(* buttons and the switches do meanwhile.                                   *)
THEOREM QuietInvariant ==
  ORDERLY_RESTART /\ ~FAULTS => (Spec => []QuietInv)
<1> SUFFICES ASSUME ORDERLY_RESTART, ~FAULTS PROVE Spec => []QuietInv
  OBVIOUS
<1>1. Init => QuietInv
  BY DEF Init, SysInit, QuietInv, QuietIsRight, ReadyStates
<1>2. ASSUME TypeOK, HomingInv, QuietInv, [Next]_vars PROVE QuietInv'
  BY <1>2, OthersQuiet, SpawnQuiet, HomingTaskQuiet DEF Next, SafetyTask
<1> QED BY <1>1, <1>2, TypeCorrect, HomingInvariant, PTL DEF Spec

(* A machine that is ready to run stands still, without power.              *)
THEOREM ReadyQuiet ==
  ORDERLY_RESTART /\ ~FAULTS /\ OnlyPowerMoves /\ RingHoldsAll =>
    (Spec => []ReadyIsQuiet)
<1>1. CutInv /\ QuietInv => ReadyIsQuiet
  BY DEF CutInv, QuietInv, Quiet, ReadyIsQuiet
<1> QED BY <1>1, CutInvariant, QuietInvariant, PTL

----------------------------------------------------------------------------
(* What is known of the switches. *)

LEMMA LowerIs ==
  ASSUME NEW m \in Motors
  PROVE  /\ LowerLine(m) \in Lines /\ LowerLine(m)[1] = m /\ LowerLine(m)[2] = FALSE
         /\ Level(LowerLine(m)) <=> pos[m] = "down"
         /\ Level(LowerLine(m))' <=> pos'[m] = "down"
BY LineIs DEF LowerLine, Level

(* Only an edge makes the level of a line other than what is known of it. *)
LEMMA FlagsKept ==
  ASSUME FlagsInv, StartIsStill', UNCHANGED <<workVars, g_limit, limit_active>>,
         settling \subseteq settling',
         \A l \in Lines : l \notin settling' => Level(l)' = Level(l),
         \A t \in Tasks : hpc[t] \in Step0Pcs \/ hpc'[t] \in Step0Pcs => UNCHANGED pos,
         \A t \in Tasks : \/ hpc'[t] = hpc[t] /\ hi'[t] = hi[t]
                         \/ hpc'[t] \notin Step0Pcs \cup Steps1And2Pcs
                         \/ /\ hpc'[t] \notin Step0Pcs
                            /\ hpc[t] \in Steps1And2Pcs
  PROVE  FlagsInv'
<1>1. ASSUME NEW l \in Lines PROVE SwitchIsFollowed(l)'
  <2>1. SwitchIsFollowed(l)
    BY DEF FlagsInv
  <2> QED BY <2>1 DEF SwitchIsFollowed, HoldsBefore, workVars
<1>2. ASSUME NEW t \in Tasks PROVE ClosedIsKnown(t)'
  <2>1. ClosedIsKnown(t)
    BY DEF FlagsInv
  <2>2. CASE hpc'[t] \in Step0Pcs
    <3>1. UNCHANGED <<pos, limit_active>> /\ hpc'[t] = hpc[t] /\ hi'[t] = hi[t]
      BY <2>2
    <3>2. \A m \in Motors : KnowsClosed(m)' <=> KnowsClosed(m)
      BY <3>1 DEF KnowsClosed, LowerLine
    <3>3. hpc[t] \in {"reached0", "capture0"} => (KnowsClosed(hi[t]) => KnowsClosed(hi[t])')
      BY <3>1 DEF KnowsClosed, LowerLine
    <3>4. hpc'[t] \notin Steps1And2Pcs
      BY <2>2 DEF Step0Pcs, InStep0, Steps1And2Pcs, InSteps1And2
    <3> QED BY <2>1, <3>1, <3>2, <3>3, <3>4 DEF ClosedIsKnown, KnowsClosed, LowerLine
  <2>3. CASE hpc'[t] \in Steps1And2Pcs
    <3>1. hpc[t] \in Steps1And2Pcs /\ hpc'[t] \notin Step0Pcs
      BY <2>3 DEF Step0Pcs, InStep0, Steps1And2Pcs, InSteps1And2
    <3>2. SUFFICES ASSUME NEW m \in Motors
                   PROVE  \/ KnowsClosed(m)'
                          \/ (LowerLine(m) \in settling)'
                          \/ HoldsBefore(LowerLine(m), {"notify"})'
      BY <3>1 DEF ClosedIsKnown, Step0Pcs, InStep0
    <3>3. \/ KnowsClosed(m)
          \/ LowerLine(m) \in settling
          \/ HoldsBefore(LowerLine(m), {"notify"})
      BY <2>1, <3>1 DEF ClosedIsKnown
    <3>4. LowerLine(m) \notin settling' => (pos'[m] = "down" => pos[m] = "down")
      BY LowerIs
    <3>5. KnowsClosed(m) => KnowsClosed(m)' \/ (LowerLine(m) \in settling)'
      BY <3>4 DEF KnowsClosed, LowerLine
    <3>6. HoldsBefore(LowerLine(m), {"notify"}) => HoldsBefore(LowerLine(m), {"notify"})'
      BY DEF HoldsBefore, LowerLine, workVars
    <3> QED BY <3>3, <3>5, <3>6 DEF LowerLine
  <2> QED BY <2>2, <2>3 DEF ClosedIsKnown, Step0Pcs, InStep0
<1> QED BY <1>1, <1>2 DEF FlagsInv

LEMMA AxisFlags ==
  ASSUME OnlyPowerMoves, TypeOK, FlagsInv, NEW m \in Motors, Axis(m)
  PROVE  FlagsInv'
<1>1. StartIsStill' /\ StartIsStill /\ UNCHANGED taskVars
  BY AxisStart, AroundTask DEF FlagsInv
<1>2. CASE AxisTurns(m)
  <2>1. ~Starting
    BY <1>1, <1>2, TurnsOnce DEF StartIsStill, Still
  <2>2. /\ UNCHANGED <<workVars, g_limit, limit_active>>
        /\ settling' = settling \cup {l \in Lines : Level(l) # Level(l)'}
    BY <1>2, TurnsOnce DEF stepVars
  <2>3. settling \subseteq settling' /\ \A l \in Lines : l \notin settling' => Level(l)' = Level(l)
    BY <2>2
  <2>4. \A t \in Tasks : hpc[t] \notin Step0Pcs /\ hpc'[t] = hpc[t] /\ hi'[t] = hi[t]
    BY <1>1, <2>1 DEF Starting, taskVars
  <2> QED BY <1>1, <2>2, <2>3, <2>4, FlagsKept
<1>3. CASE MoveEnds(m) \/ EncoderRead(m)
  <2>1. UNCHANGED <<limitVars, limit_active, pos>>
    BY <1>3 DEF MoveEnds, EncoderRead, SlaveIsr, axisVars, stepVars
  <2>2. \A l \in Lines : Level(l)' = Level(l)
    BY <2>1 DEF Level
  <2> QED BY <1>1, <2>1, <2>2, FlagsKept DEF limitVars, taskVars
<1> QED BY <1>2, <1>3, NoDrifts DEF Axis

(* The worker has looked at a line that was settled. *)
LEMMA ReadsFlags ==
  ASSUME TypeOK, FlagsInv, StartIsStill', ~Starting,
         NEW l \in Lines, WorkerReads(l, Level(l)), UNCHANGED <<pos, taskVars>>
  PROVE  FlagsInv'
<1>1. /\ worker = "idle" /\ worker' = "notify" /\ l \in settling
      /\ settling' = settling \ {l} /\ workLine' = l /\ workActive' = Level(l)
      /\ UNCHANGED <<g_limit, limit_active>>
  BY DEF WorkerReads, stepVars
<1>2. \A k \in Lines : Level(k)' = Level(k)
  BY DEF Level
<1>3. ASSUME NEW k \in Lines PROVE SwitchIsFollowed(k)'
  <2>1. SwitchIsFollowed(k)
    BY DEF FlagsInv
  <2>2. CASE k = l
    BY <1>1, <1>2, <2>2 DEF SwitchIsFollowed, HoldsBefore
  <2>3. CASE k # l
    BY <1>1, <1>2, <2>1, <2>3 DEF SwitchIsFollowed, HoldsBefore, CutStages
  <2> QED BY <2>2, <2>3
<1>4. ASSUME NEW t \in Tasks PROVE ClosedIsKnown(t)'
  <2>1. ClosedIsKnown(t) /\ hpc'[t] = hpc[t] /\ hpc[t] \notin Step0Pcs
    BY DEF FlagsInv, Starting, taskVars
  <2>2. ASSUME NEW m \in Motors, hpc[t] \in Steps1And2Pcs
        PROVE  \/ KnowsClosed(m)'
               \/ (LowerLine(m) \in settling)'
               \/ HoldsBefore(LowerLine(m), {"notify"})'
    <3>1. \/ KnowsClosed(m)
          \/ LowerLine(m) \in settling
          \/ HoldsBefore(LowerLine(m), {"notify"})
      BY <2>1, <2>2 DEF ClosedIsKnown
    <3> QED BY <1>1, <3>1 DEF KnowsClosed, HoldsBefore, LowerLine
  <2> QED BY <2>1, <2>2 DEF ClosedIsKnown, Step0Pcs, InStep0
<1> QED BY <1>3, <1>4 DEF FlagsInv

(* The driver is told, and then what it is told is known. *)
LEMMA NotifiesFlags ==
  ASSUME TypeOK, FlagsInv, StartIsStill', ~Starting,
         WorkerNotifies, UNCHANGED <<pos, taskVars>>
  PROVE  FlagsInv'
<1>1. /\ worker = "notify" /\ worker' \in {"pulses", "level"}
      /\ limit_active' = [limit_active EXCEPT ![workLine] = workActive]
      /\ UNCHANGED <<workLine, workActive, settling, g_limit>>
      /\ workLine \in Lines /\ limit_active \in [Lines -> BOOLEAN]
  BY DEF WorkerNotifies, SetLimitFlag, TypeOK, LimitTypeOK, StepTypeOK
<1>2. \A k \in Lines : Level(k)' = Level(k)
  BY DEF Level
<1>3. workLine \notin settling => workActive = Level(workLine)
  BY <1>1 DEF FlagsInv, SwitchIsFollowed
<1>4. limit_active'[workLine] = workActive /\ \A k \in Lines : k # workLine => limit_active'[k] = limit_active[k]
  BY <1>1
<1>5. ASSUME NEW k \in Lines PROVE SwitchIsFollowed(k)'
  <2>1. SwitchIsFollowed(k)
    BY DEF FlagsInv
  <2>2. CASE k = workLine
    BY <1>1, <1>2, <1>3, <1>4, <2>2 DEF SwitchIsFollowed, HoldsBefore, CutStages
  <2>3. CASE k # workLine
    BY <1>1, <1>2, <1>4, <2>1, <2>3 DEF SwitchIsFollowed, HoldsBefore
  <2> QED BY <2>2, <2>3
<1>6. ASSUME NEW t \in Tasks PROVE ClosedIsKnown(t)'
  <2>1. ClosedIsKnown(t) /\ hpc'[t] = hpc[t] /\ hpc[t] \notin Step0Pcs
    BY DEF FlagsInv, Starting, taskVars
  <2>2. ASSUME NEW m \in Motors, hpc[t] \in Steps1And2Pcs
        PROVE  \/ KnowsClosed(m)'
               \/ (LowerLine(m) \in settling)'
               \/ HoldsBefore(LowerLine(m), {"notify"})'
    <3>1. \/ KnowsClosed(m)
          \/ LowerLine(m) \in settling
          \/ HoldsBefore(LowerLine(m), {"notify"})
      BY <2>1, <2>2 DEF ClosedIsKnown
    <3>2. CASE LowerLine(m) = workLine
      <4>1. LowerLine(m) \notin settling => (workActive <=> pos[m] = "down")
        BY <1>3, <3>2, LowerIs
      <4> QED BY <1>1, <1>4, <3>2, <4>1 DEF KnowsClosed, LowerLine
    <3>3. CASE LowerLine(m) # workLine
      BY <1>1, <1>4, <3>1, <3>3, LowerIs DEF KnowsClosed, HoldsBefore, LowerLine
    <3> QED BY <3>2, <3>3
  <2> QED BY <2>1, <2>2 DEF ClosedIsKnown, Step0Pcs, InStep0
<1> QED BY <1>5, <1>6 DEF FlagsInv

(* The later stages of the worker. *)
LEMMA StagesFlags ==
  ASSUME TypeOK, FlagsInv, StartIsStill', ~Starting,
         WorkerCuts \/ WorkerSetsLevel \/ WorkerPushes \/ WorkerPosts,
         UNCHANGED <<pos, taskVars>>
  PROVE  FlagsInv'
<1>0. /\ WorkerCuts => /\ worker \in CutStages /\ worker' \in {"level"} \cup CutStages
                         /\ UNCHANGED <<settling, limit_active, workLine, workActive, g_limit>>
      /\ WorkerSetsLevel =>
           /\ g_limit' = [g_limit EXCEPT ![workLine] = workActive]
           /\ worker = "level" /\ worker' = "push"
           /\ UNCHANGED <<settling, limit_active, workLine, workActive>>
      /\ WorkerPushes => /\ worker = "push" /\ worker' = "post"
                         /\ UNCHANGED <<settling, limit_active, workLine, workActive, g_limit>>
      /\ WorkerPosts => /\ worker = "post" /\ worker' = "idle"
                        /\ UNCHANGED <<settling, limit_active, g_limit>>
  <2>1. WorkerCuts => /\ worker \in CutStages /\ worker' \in {"level"} \cup CutStages
                      /\ UNCHANGED <<settling, limit_active, workLine, workActive, g_limit>>
    BY DEF WorkerCuts, CutStages, NextStage, CutStage
  <2> QED BY <2>1 DEF WorkerSetsLevel, WorkerPushes, WorkerPosts, stepVars
<1>1. /\ worker \notin {"idle", "notify"} /\ worker' # "notify"
      /\ UNCHANGED <<settling, limit_active>>
      /\ worker' # "idle" => UNCHANGED <<workLine, workActive>>
      /\ workLine \in Lines /\ g_limit \in [Lines -> BOOLEAN]
  BY <1>0 DEF CutStages, TypeOK, LimitTypeOK
<1>2. \A k \in Lines : Level(k)' = Level(k)
  BY DEF Level
<1>3. \/ /\ UNCHANGED <<g_limit, workLine>> /\ worker \in CutStages
         /\ worker' \in {"level"} \cup CutStages
      \/ /\ g_limit' = [g_limit EXCEPT ![workLine] = workActive]
         /\ worker = "level" /\ worker' = "push"
      \/ /\ UNCHANGED g_limit /\ worker \in {"push", "post"}
         /\ worker' \in {"idle", "post"}
  BY <1>0
<1>4. ASSUME NEW k \in Lines PROVE SwitchIsFollowed(k)'
  <2>1. SwitchIsFollowed(k)
    BY DEF FlagsInv
  <2>2. CASE k \notin settling
    <3>1. worker' # "idle" /\ workLine' = k => workActive' = Level(k)'
      BY <1>1, <1>2, <2>1, <2>2 DEF SwitchIsFollowed
    <3>2. limit_active'[k] => Level(k)'
      BY <1>1, <1>2, <2>1, <2>2 DEF SwitchIsFollowed, HoldsBefore
    <3>3. g_limit'[k] /\ ~HoldsBefore(k, {"notify", "level"} \cup CutStages)' => Level(k)'
      <4>1. CASE UNCHANGED g_limit
        BY <1>1, <1>2, <1>3, <2>1, <2>2, <4>1 DEF SwitchIsFollowed, HoldsBefore, CutStages
      <4>2. CASE g_limit' = [g_limit EXCEPT ![workLine] = workActive] /\ worker = "level"
        <5>1. CASE k = workLine
          BY <1>1, <1>2, <2>1, <2>2, <4>2, <5>1 DEF SwitchIsFollowed
        <5>2. CASE k # workLine
          BY <1>1, <1>2, <2>1, <2>2, <4>2, <5>2 DEF SwitchIsFollowed, HoldsBefore
        <5> QED BY <5>1, <5>2
      <4> QED BY <1>3, <4>1, <4>2
    <3> QED BY <3>1, <3>2, <3>3 DEF SwitchIsFollowed
  <2> QED BY <1>1, <2>2 DEF SwitchIsFollowed
<1>5. ASSUME NEW t \in Tasks PROVE ClosedIsKnown(t)'
  <2>1. ClosedIsKnown(t) /\ hpc'[t] = hpc[t] /\ hpc[t] \notin Step0Pcs
    BY DEF FlagsInv, Starting, taskVars
  <2>2. \A m \in Motors : KnowsClosed(m) => KnowsClosed(m)'
    BY <1>1 DEF KnowsClosed, LowerLine
  <2>3. \A m \in Motors : ~HoldsBefore(LowerLine(m), {"notify"})
    BY <1>1 DEF HoldsBefore
  <2> QED BY <1>1, <2>1, <2>2, <2>3 DEF ClosedIsKnown, Step0Pcs, InStep0, LowerLine
<1> QED BY <1>4, <1>5 DEF FlagsInv

LEMMA WorkerFlags ==
  ASSUME TypeOK, FlagsInv, LimitWorker
  PROVE  FlagsInv'
<1>1. UNCHANGED <<pos, taskVars>>
  BY DEF LimitWorker, axisVars
<1>2. StartIsStill' /\ ~Starting
  BY WorkerStart, WorkerNeedsWork DEF FlagsInv, StartIsStill
<1> QED BY <1>1, <1>2, ReadsFlags, NotifiesFlags, StagesFlags DEF LimitWorker, WorkerContinues

LEMMA SafetyFlags ==
  ASSUME ORDERLY_RESTART, TypeOK, FlagsInv,
         (\E b \in BtnEvents : SafetyEvent(b)) \/ SafetyTask \/ UNCHANGED vars,
         StartIsStill'
  PROVE  FlagsInv'
<1>1. UNCHANGED <<limitVars, limit_active, pos>>
  BY DEF SafetyEvent, SafetyTask, SafetySpawns, SafetySpawnFails, SafetyStops, IoctlEstop,
         vars, stepVars, axisVars
<1>2. \A t \in Tasks : (hpc'[t] = hpc[t] /\ hi'[t] = hi[t]) \/ hpc'[t] = "flush"
  BY DEF SafetyEvent, SafetyTask, SafetySpawns, SafetySpawnFails, SafetyStops, vars, taskVars,
         TypeOK, HomingTypeOK
<1>3. \A l \in Lines : Level(l)' = Level(l)
  BY <1>1 DEF Level
<1>4. "flush" \notin Step0Pcs \cup Steps1And2Pcs
  BY DEF Step0Pcs, InStep0, Steps1And2Pcs, InSteps1And2
<1> QED BY <1>1, <1>2, <1>3, <1>4, FlagsKept DEF limitVars

(* From step 3 on there is no way back. *)
LEMMA StaysPast ==
  ASSUME TypeOK, NEW t \in Tasks, HomingTask(t),
         hpc[t] \notin BeforeStep0 \cup Step0Pcs \cup Steps1And2Pcs
  PROVE  hpc'[t] \notin Step0Pcs \cup Steps1And2Pcs
<1> USE DEF BeforeStep0, Step0Pcs, InStep0, Steps1And2Pcs, InSteps1And2
<1>1. CASE HomingChecksAbort(t)
  <2>1. PICK check \in AbortChecks :
          hpc[t] = check[1] /\ (Goto(t, "none") \/ Goto(t, check[2]))
    BY <1>1 DEF HomingChecksAbort, Exit
  <2>2. hpc'[t] \in {"none", check[2]}
    BY <2>1, GotoAt
  <2> QED BY <2>1, <2>2 DEF AbortChecks
<1>2. CASE HomingPollsBusy(t)
  <2>1. hpc'[t] = "poll3" \/ Loop(t, "busy3", "cut3")
    BY <1>2 DEF HomingPollsBusy, TypeOK, HomingTypeOK
  <2>2. hpc'[t] \in {"poll3", "busy3", "cut3"}
    BY <2>1, LoopGoes
  <2> QED BY <2>2
<1>3. CASE \/ HomingAsksLift(t) \/ HomingChecksLift(t) \/ HomingSendsLift(t)
           \/ HomingCutsSon(t) \/ HomingSetsHomed(t) \/ HomingNotifies(t)
  <2>1. \/ Loop(t, "abort3", "poll3") \/ Goto(t, "lift3") \/ Goto(t, "apply3")
        \/ Loop(t, "cut3", "homed4") \/ Loop(t, "homed4", "notify4") \/ Goto(t, "none")
    BY <1>3 DEF HomingAsksLift, HomingChecksLift, HomingSendsLift, HomingCutsSon,
                HomingSetsHomed, HomingNotifies, Exit
  <2>2. hpc'[t] \in {"abort3", "poll3", "lift3", "apply3", "cut3", "homed4", "notify4", "none"}
    BY <2>1, LoopGoes, GotoAt
  <2> QED BY <2>2
<1>4. ~( \/ HomingFlushes(t) \/ HomingDrains(t) \/ HomingReads(t) \/ HomingNotifiesDriver(t)
         \/ HomingFindsAtLimit(t) \/ HomingCapturesAtStart(t) \/ HomingSkipsReached(t)
         \/ HomingAsksHome(t) \/ HomingSendsHome(t) \/ HomingTimesOut(t)
         \/ HomingTakesEvent(t) \/ HomingChecksKnown(t) \/ HomingMarksReached(t)
         \/ HomingCaptures(t))
  BY DEF HomingFlushes, HomingDrains, HomingReads, HomingNotifiesDriver,
         HomingFindsAtLimit, HomingCapturesAtStart, HomingSkipsReached, HomingAsksHome,
         HomingSendsHome, HomingTimesOut, HomingTakesEvent, HomingChecksKnown,
         HomingMarksReached, HomingCaptures
<1> QED BY <1>1, <1>2, <1>3, <1>4 DEF HomingTask

(* Only at its start does a homing task write a limit flag of the driver. *)
LEMMA TaskKeepsFlags ==
  ASSUME NEW t \in Tasks, HomingTask(t), ~HomingNotifiesDriver(t)
  PROVE  UNCHANGED limit_active
BY DEF HomingTask, HomingFlushes, HomingDrains, HomingReads,
       HomingFindsAtLimit, HomingCapturesAtStart, HomingChecksAbort,
       HomingSkipsReached, HomingAsksHome, HomingSendsHome, IoctlHome, ApplyMove,
       HomingTimesOut, HomingTakesEvent, HomingChecksKnown, HomingMarksReached,
       HomingCaptures, HomingAsksLift, HomingChecksLift, HomingSendsLift,
       HomingPollsBusy, HomingCutsSon, IoctlSonOff, HomingSetsHomed, HomingNotifies, stepVars

(* A step of a homing task that tells the driver nothing. *)
LEMMA TaskFlags ==
  ASSUME TypeOK, HomingInv, FlagsInv, NEW t \in Tasks, HomingTask(t), StartIsStill',
         UNCHANGED limit_active, ClosedIsKnown(t)'
  PROVE  FlagsInv'
<1>1. UNCHANGED <<settling, worker, workLine, workActive, g_limit, pos>>
  BY TaskLeaves
<1>2. ASSUME NEW l \in Lines PROVE SwitchIsFollowed(l)'
  BY <1>1 DEF FlagsInv, SwitchIsFollowed, HoldsBefore, Level
<1>3. ASSUME NEW u \in Tasks, u # t PROVE ClosedIsKnown(u)'
  <2>1. hpc'[u] = "none"
    BY <1>3, OneTask
  <2> QED BY <2>1 DEF ClosedIsKnown, Step0Pcs, InStep0, Steps1And2Pcs, InSteps1And2
<1> QED BY <1>2, <1>3 DEF FlagsInv

(* On to the next motor of step 0, or to step 1. *)
LEMMA NextKnown ==
  ASSUME TypeOK, FlagsInv, NEW t \in Tasks, hpc[t] \in Step0Pcs,
         UNCHANGED <<limit_active, pos>>, KnowsClosed(hi[t]), Loop(t, "read0", "abort1")
  PROVE  ClosedIsKnown(t)'
<1>1. hi[t] \in Int /\ \A m \in Motors : m \in Int /\ m <= LastMotor
  BY MotorCountAssumption DEF TypeOK, HomingTypeOK, Motors, LastMotor
<1>2. \A m \in Motors : m < hi[t] => KnowsClosed(m)
  BY DEF FlagsInv, ClosedIsKnown
<1>3. \A m \in Motors : m <= hi[t] => KnowsClosed(m)'
  <2>1. \A m \in Motors : m <= hi[t] => m < hi[t] \/ m = hi[t]
    BY <1>1
  <2>2. \A m \in Motors : m <= hi[t] => KnowsClosed(m)
    BY <1>2, <2>1
  <2>3. \A m \in Motors : KnowsClosed(m) => KnowsClosed(m)'
    BY DEF KnowsClosed, LowerLine
  <2> QED BY <2>2, <2>3
<1>4. CASE hi[t] = LastMotor /\ hpc'[t] = "abort1"
  BY <1>1, <1>3, <1>4 DEF ClosedIsKnown, Step0Pcs, InStep0
<1>5. CASE hpc'[t] = "read0" /\ hi'[t] = hi[t] + 1
  <2>1. \A m \in Motors : m < hi'[t] => KnowsClosed(m)'
    BY <1>1, <1>3, <1>5
  <2> QED BY <1>5, <2>1 DEF ClosedIsKnown, Steps1And2Pcs, InSteps1And2
<1> QED BY <1>4, <1>5, LoopAt

(* Within the round of one motor of step 0. *)
LEMMA WithinKnown ==
  ASSUME TypeOK, FlagsInv, NEW t \in Tasks, hpc[t] \in Step0Pcs, hpc'[t] \in Step0Pcs,
         UNCHANGED <<hi, pos>>,
         \A l \in Lines : limit_active[l] => limit_active'[l],
         hpc'[t] = "notify0" => pos[hi[t]] = "down",
         hpc'[t] \in {"reached0", "capture0"} => KnowsClosed(hi[t])'
  PROVE  ClosedIsKnown(t)'
<1>1. \A m \in Motors : m < hi[t] => KnowsClosed(m)'
  BY LowerIs DEF FlagsInv, ClosedIsKnown, KnowsClosed
<1>2. hpc'[t] \notin Steps1And2Pcs
  BY DEF Step0Pcs, InStep0, Steps1And2Pcs, InSteps1And2
<1> QED BY <1>1, <1>2 DEF ClosedIsKnown, KnowsClosed, LowerLine

LEMMA Step0Flags ==
  ASSUME TypeOK, HomingInv, FlagsInv, NEW t \in Tasks, StartIsStill',
         \/ HomingFlushes(t) \/ HomingDrains(t) \/ HomingReads(t)
         \/ HomingFindsAtLimit(t) \/ HomingCapturesAtStart(t)
  PROVE  FlagsInv'
<1> USE DEF Step0Pcs, InStep0
<1>0. HomingTask(t) /\ UNCHANGED <<limit_active, pos>>
  BY TaskLeaves, TaskKeepsFlags
  DEF HomingTask, HomingFlushes, HomingDrains, HomingReads, HomingFindsAtLimit,
      HomingCapturesAtStart, stepVars
<1>1. CASE HomingFlushes(t)
  <2>1. hpc'[t] = "drain"
    BY <1>1, GotoAt DEF HomingFlushes
  <2>2. ClosedIsKnown(t)'
    BY <2>1 DEF ClosedIsKnown, Steps1And2Pcs, InSteps1And2
  <2> QED BY <1>0, <2>2, TaskFlags
<1>2. CASE HomingDrains(t)
  <2>1. hpc'[t] = "drain" \/ (hpc'[t] = "read0" /\ hi'[t] = 0)
    <3>1. hpc[t] = "drain" /\ hpc \in [Tasks -> HomingPcs] /\ hi \in [Tasks -> Motors]
      BY <1>2 DEF HomingDrains, TypeOK, HomingTypeOK
    <3>2. CASE DrainOne /\ UNCHANGED <<hpc, hi, need>>
      BY <3>1, <3>2
    <3>3. CASE lsem = 0 /\ hpc' = [hpc EXCEPT ![t] = "read0"] /\ hi' = [hi EXCEPT ![t] = 0]
      BY <3>1, <3>3
    <3> QED BY <1>2, <3>2, <3>3 DEF HomingDrains
  <2>2. \A m \in Motors : ~(m < 0)
    BY MotorCountAssumption DEF Motors
  <2>3. ClosedIsKnown(t)'
    BY <2>1, <2>2 DEF ClosedIsKnown, Steps1And2Pcs, InSteps1And2
  <2> QED BY <1>0, <2>3, TaskFlags
<1>3. CASE HomingReads(t)
  <2>1. hpc[t] \in Step0Pcs
    BY <1>3 DEF HomingReads
  <2>2. CASE Level(<<hi[t], FALSE>>) /\ Goto(t, IF hpc[t] = "read0" THEN "reread0" ELSE "notify0")
    <3>1. pos[hi[t]] = "down" /\ hpc'[t] \in {"reread0", "notify0"} /\ hi' = hi
      BY <2>2, GotoAt DEF Level
    <3>2. ClosedIsKnown(t)'
      BY <1>0, <2>1, <3>1, WithinKnown
    <3> QED BY <1>0, <3>2, TaskFlags
  <2>3. CASE ~Level(<<hi[t], FALSE>>) /\ Loop(t, "read0", "abort1")
    <3>1. KnowsClosed(hi[t])
      BY <2>3 DEF Level, KnowsClosed
    <3>2. ClosedIsKnown(t)'
      BY <1>0, <2>1, <2>3, <3>1, NextKnown
    <3> QED BY <1>0, <3>2, TaskFlags
  <2> QED BY <1>3, <2>2, <2>3 DEF HomingReads
<1>4. CASE HomingFindsAtLimit(t)
  <2>1. hpc[t] = "reached0" /\ hpc'[t] = "capture0" /\ hi' = hi
    BY <1>4, GotoAt DEF HomingFindsAtLimit
  <2>2. KnowsClosed(hi[t])
    BY <2>1 DEF FlagsInv, ClosedIsKnown
  <2>3. KnowsClosed(hi[t])'
    BY <1>0, <2>1, <2>2 DEF KnowsClosed, LowerLine
  <2>4. ClosedIsKnown(t)'
    BY <1>0, <2>1, <2>3, WithinKnown
  <2> QED BY <1>0, <2>4, TaskFlags
<1>5. CASE HomingCapturesAtStart(t)
  <2>1. hpc[t] = "capture0" /\ Loop(t, "read0", "abort1")
    BY <1>5 DEF HomingCapturesAtStart
  <2>2. KnowsClosed(hi[t])
    BY <2>1 DEF FlagsInv, ClosedIsKnown
  <2>3. ClosedIsKnown(t)'
    BY <1>0, <2>1, <2>2, NextKnown
  <2> QED BY <1>0, <2>3, TaskFlags
<1> QED BY <1>1, <1>2, <1>3, <1>4, <1>5

(* The task itself tells the driver of a switch that it found closed. *)
LEMMA NotifiesDriverFlags ==
  ASSUME TypeOK, HomingInv, FlagsInv, NEW t \in Tasks, StartIsStill', HomingNotifiesDriver(t)
  PROVE  FlagsInv'
<1>0. PICK k \in Motors : k = hi[t]
  BY DEF TypeOK, HomingTypeOK
<1>1. /\ hpc[t] = "notify0" /\ hpc'[t] = "reached0" /\ hi' = hi
      /\ UNCHANGED <<limitVars, pos>>
      /\ limit_active' = [limit_active EXCEPT ![LowerLine(k)] = TRUE]
      /\ HomingTask(t) /\ limit_active \in [Lines -> BOOLEAN]
  BY <1>0, GotoAt
  DEF HomingNotifiesDriver, NotifyLimit, SetLimitFlag, LowerLine, axisVars, HomingTask,
      TypeOK, StepTypeOK
<1>2. pos[k] = "down"
  BY <1>0, <1>1 DEF FlagsInv, ClosedIsKnown
<1>3. limit_active'[LowerLine(k)] /\ \A l \in Lines : l # LowerLine(k) => limit_active'[l] = limit_active[l]
  BY <1>1, LowerIs
<1>4. ASSUME NEW l \in Lines PROVE SwitchIsFollowed(l)'
  <2>1. SwitchIsFollowed(l) /\ Level(l)' = Level(l)
    BY <1>1 DEF FlagsInv, Level
  <2>2. l = LowerLine(k) => Level(l)
    BY <1>2, LowerIs
  <2> QED BY <1>1, <1>3, <2>1, <2>2 DEF SwitchIsFollowed, HoldsBefore, limitVars, workVars
<1>5. ClosedIsKnown(t)'
  <2>1. \A l \in Lines : limit_active[l] => limit_active'[l]
    BY <1>3
  <2>2. KnowsClosed(hi[t])'
    BY <1>0, <1>1, <1>3 DEF KnowsClosed, LowerLine
  <2>3. hpc[t] \in Step0Pcs /\ hpc'[t] \in Step0Pcs /\ hpc'[t] # "notify0"
    BY <1>1 DEF Step0Pcs, InStep0
  <2> QED BY <1>1, <2>1, <2>2, <2>3, WithinKnown
<1>6. ASSUME NEW u \in Tasks, u # t PROVE ClosedIsKnown(u)'
  <2>1. hpc'[u] = "none"
    BY <1>1, <1>6, OneTask
  <2> QED BY <2>1 DEF ClosedIsKnown, Step0Pcs, InStep0, Steps1And2Pcs, InSteps1And2
<1> QED BY <1>4, <1>5, <1>6 DEF FlagsInv

LEMMA HomingTaskFlags ==
  ASSUME TypeOK, HomingInv, FlagsInv, NEW t \in Tasks, HomingTask(t)
  PROVE  FlagsInv'
<1>1. StartIsStill'
  BY HomingTaskStart DEF FlagsInv
<1>2. CASE HomingNotifiesDriver(t)
  BY <1>1, <1>2, NotifiesDriverFlags
<1>3. CASE \/ HomingFlushes(t) \/ HomingDrains(t) \/ HomingReads(t)
           \/ HomingFindsAtLimit(t) \/ HomingCapturesAtStart(t)
  BY <1>1, <1>3, Step0Flags
<1>4. CASE hpc[t] \notin BeforeStep0 \cup Step0Pcs
  <2>1. UNCHANGED <<limit_active, settling, worker, workLine, workActive, g_limit, pos>>
    BY <1>4, TaskLeaves, TaskKeepsFlags DEF HomingNotifiesDriver, Step0Pcs, InStep0
  <2>2. /\ hpc'[t] \notin Step0Pcs
        /\ hpc'[t] \in Steps1And2Pcs => hpc[t] \in Steps1And2Pcs
    BY <1>4, TaskGoesOn, StaysPast
  <2>3. \A u \in Tasks : u # t => hpc[u] = "none" /\ hpc'[u] = "none"
    BY OneTask
  <2>4. "none" \notin Step0Pcs \cup Steps1And2Pcs
    BY DEF Step0Pcs, InStep0, Steps1And2Pcs, InSteps1And2
  <2>5. \A l \in Lines : Level(l)' = Level(l)
    BY <2>1 DEF Level
  <2> QED BY <1>1, <1>4, <2>1, <2>2, <2>3, <2>4, <2>5, FlagsKept DEF workVars
<1>5. hpc[t] \in BeforeStep0 \cup Step0Pcs /\ ~HomingNotifiesDriver(t) =>
          \/ HomingFlushes(t) \/ HomingDrains(t) \/ HomingReads(t)
          \/ HomingFindsAtLimit(t) \/ HomingCapturesAtStart(t)
  <2>1. HomingChecksAbort(t) => hpc[t] \in {"abort1", "abort3", "poll3"}
    BY DEF HomingChecksAbort, AbortChecks
  <2> QED BY <2>1
          DEF BeforeStep0, Step0Pcs, InStep0, HomingTask, HomingSkipsReached, HomingAsksHome,
              HomingSendsHome, HomingTimesOut, HomingTakesEvent, HomingChecksKnown,
              HomingMarksReached, HomingCaptures, HomingAsksLift, HomingChecksLift,
              HomingSendsLift, HomingPollsBusy, HomingCutsSon, HomingSetsHomed, HomingNotifies
<1> QED BY <1>2, <1>3, <1>4, <1>5

LEMMA FlagsInvInit == Init => FlagsInv
<1> SUFFICES ASSUME Init PROVE FlagsInv
  OBVIOUS
<1>1. AxisInv /\ \A t \in Tasks : hpc[t] = "none"
  BY AxisInvInit DEF Init
<1>2. \A l \in Lines : SwitchIsFollowed(l)
  BY DEF Init, StepInit, LimitInit, SwitchIsFollowed
<1> QED BY <1>1, <1>2 DEF AxisInv, FlagsInv, ClosedIsKnown, Step0Pcs, InStep0, Steps1And2Pcs,
                          InSteps1And2

LEMMA FlagsInvStep ==
  ASSUME ORDERLY_RESTART, OnlyPowerMoves, TypeOK, HomingInv, FlagsInv, [Next]_vars
  PROVE  FlagsInv'
<1>1. StartIsStill'
  BY StartStep DEF FlagsInv
<1> QED BY <1>1, AxisFlags, WorkerFlags, SafetyFlags, HomingTaskFlags DEF Next

(* What the driver and motorlimit_get() know of a switch lags behind it      *)
(* only while the switch settles or the worker has it in hand, whatever     *)
(* fails, whatever the size of the ring.                                    *)
THEOREM FlagsInvariant ==
  ORDERLY_RESTART /\ OnlyPowerMoves => (Spec => []FlagsInv)
<1> SUFFICES ASSUME ORDERLY_RESTART, OnlyPowerMoves PROVE Spec => []FlagsInv
  OBVIOUS
<1>1. TypeOK /\ HomingInv /\ FlagsInv /\ [Next]_vars => FlagsInv'
  BY FlagsInvStep
<1> QED BY <1>1, FlagsInvInit, TypeCorrect, HomingInvariant, PTL DEF Spec

LEMMA FlagsFollow ==
  ASSUME TypeOK, FlagsInv
  PROVE  FlagsFollowSwitches
<1> SUFFICES ASSUME NEW l \in Lines, Settled(l)
             PROVE  /\ limit_active[l] \/ g_limit[l] => Level(l)
                    /\ Level(l) /\ ~l[2] /\ (\E t \in Tasks : hpc[t] \in {"abort1", "wait2"})
                         => limit_active[l]
  BY DEF FlagsFollowSwitches
<1>1. l \notin settling /\ ~HoldsBefore(l, {"notify"})
      /\ ~HoldsBefore(l, {"notify", "level"} \cup CutStages)
  BY DEF Settled, HoldsBefore, CutStages
<1>2. limit_active[l] \/ g_limit[l] => Level(l)
  BY <1>1 DEF FlagsInv, SwitchIsFollowed
<1>3. ASSUME Level(l), ~l[2], NEW t \in Tasks, hpc[t] \in {"abort1", "wait2"}
      PROVE  limit_active[l]
  <2>1. l = LowerLine(l[1]) /\ l[1] \in Motors
    BY <1>3, LineIs DEF LowerLine
  <2>2. hpc[t] \in Steps1And2Pcs /\ ClosedIsKnown(t)
    BY <1>3 DEF Steps1And2Pcs, InSteps1And2, FlagsInv
  <2>3. KnowsClosed(l[1])
    BY <1>1, <2>1, <2>2 DEF ClosedIsKnown
  <2> QED BY <1>3, <2>1, <2>3, LowerIs DEF KnowsClosed
<1> QED BY <1>2, <1>3

(* A flag says that a switch is closed only if it is; and from step 1 of    *)
(* homing on, the driver knows every closed lower switch.                   *)
THEOREM FlagsAlwaysFollow ==
  ORDERLY_RESTART /\ OnlyPowerMoves => (Spec => []FlagsFollowSwitches)
<1>1. TypeOK /\ FlagsInv => FlagsFollowSwitches
  BY FlagsFollow
<1> QED BY <1>1, TypeCorrect, FlagsInvariant, PTL
(* Events, cuts, standstill and flags agree with the axes all through       *)
(* homing when the conditions of all four hold.                             *)
THEOREM AxesInvariant ==
  ORDERLY_RESTART /\ ~FAULTS /\ OnlyPowerMoves /\ RingHoldsAll => (Spec => []AxesInv)
<1>1. AxisInv /\ CutInv /\ QuietInv /\ FlagsInv => AxesInv
  BY DEF AxesInv
<1> QED BY <1>1, AxisInvariant, CutInvariant, QuietInvariant, FlagsInvariant, PTL

=============================================================================
