--------------------------- MODULE AxisInvariant ---------------------------
(* Where the axes and the limit events are at each stage of homing: why the *)
(* events homing takes are true, why the ring keeps their tokens, and why   *)
(* the axes stand still in the end.  For a machine that is restarted only   *)
(* at rest and whose axes move only under power.                            *)
EXTENDS HomingInvariant

OnlyPowerMoves == MAX_DRIFTS = 0

(* The lines on which homing can see an edge before it lifts the axes: each *)
(* axis comes to its lower switch, and leaves its upper one if it can have  *)
(* been there.  The ring must hold an event of each of them.                *)
EdgeLines == {l \in Lines : l[2] => REACH_UP}
RingHoldsAll == Cardinality(EdgeLines) < LIMIT_QUEUE_SIZE

Still(m) == ~(pulsing[m] /\ son[m])
MovesDown(m) == Still(m) \/ (busy[m] /\ ~dir_up[m])

LowerLine(m) == <<m, FALSE>>

Step0Pcs == InStep0 \cup {"capture0"}
Step1Pcs == {"abort1", "reached1", "allow1", "home1"}
Steps1And2Pcs == InSteps1And2 \cup {"set2"}
LiftPcs == {"abort3", "allow3", "lift3", "apply3"}

(* From RESTART to the first command nothing moves and no line settles. *)
Starting ==
  spc = "spawn" \/ \E t \in Tasks : hpc[t] \in BeforeStep0 \cup Step0Pcs

StartIsStill ==
  Starting => /\ settling = {} /\ worker = "idle"
              /\ \A m \in Motors : Still(m)

(* Step 0 finds the axes that stand on their lower switch. *)
Step0IsRight(t) ==
  /\ hpc[t] = "drain" => lhead = 0 /\ ltail = 0
  /\ hpc[t] \in Step0Pcs =>
       /\ lhead = 0 /\ ltail = 0 /\ lsem = 0
       /\ \A m \in Motors : /\ limit_reached[m] => pos[m] = "down"
                            /\ m < hi[t] /\ pos[m] = "down" => limit_reached[m]
  /\ hpc[t] \in {"notify0", "reached0", "capture0"} => pos[hi[t]] = "down"

(* The ring is not reused while homing awaits events: the slots below the   *)
(* head hold all that has been reported, the ones below the tail are taken. *)
Reported == {lqueue[s] : s \in 0 .. lhead - 1}
InHand == IF worker = "idle" THEN {} ELSE {workLine}
WithEdge == settling \cup InHand \cup Reported

(* An edge of a line is the only one there will be: the axis moves down. *)
EdgeIsOver(l) == IF l[2] THEN pos[l[1]] # "up" ELSE pos[l[1]] = "down"

(* The worker has done with the lower switch of axis m, which stands on it. *)
Arrived(m) ==
  /\ pos[m] = "down" /\ Still(m)
  /\ LowerLine(m) \notin settling
  /\ worker \notin {"idle", "post"} => workLine # LowerLine(m)

EventsAreRight ==
  /\ ltail <= lhead
  /\ lsem + (IF worker = "post" THEN 1 ELSE 0) = lhead - ltail
  /\ \A r, s \in 0 .. lhead - 1 : lqueue[r] = lqueue[s] => r = s
  /\ settling \cap (InHand \cup Reported) = {}
  /\ worker # "post" => InHand \cap Reported = {}
  /\ \A l \in WithEdge : l \in EdgeLines /\ EdgeIsOver(l)

WorkIsRight ==
  /\ worker # "idle" => workActive = ~workLine[2]
  /\ worker \in CutStages => workActive
  /\ worker \in {"busy", "mode", "son", "level", "push"} /\ ~workLine[2] =>
       Still(workLine[1])

(* Steps 1 and 2: the axes move down, and what has come has arrived. *)
AwaitsEvents ==
  /\ EventsAreRight /\ WorkIsRight
  /\ \A m \in Motors :
       /\ MovesDown(m)
       /\ limit_reached[m] \/ LowerLine(m) \in Reported => Arrived(m)

(* Step 1 has not got as far as axis m. *)
NotSentYet(m) ==
  /\ Still(m)
  /\ \A l \in WithEdge : l[1] # m
  /\ pos[m] = "down" => limit_reached[m]

AwaitIsRight(t) ==
  /\ hpc[t] \in Steps1And2Pcs => AwaitsEvents
  /\ hpc[t] \in Step1Pcs => \A m \in Motors : m >= hi[t] => NotSentYet(m)
  /\ hpc[t] \in {"allow1", "home1"} => ~limit_reached[hi[t]]
  /\ hpc[t] \in {"known2", "set2", "capture2"} => LowerLine(hm[t]) \in Reported

(* Step 3: no axis that is still to be lifted can be cut any more. *)
CutIsOver(m) ==
  /\ Arrived(m)
  /\ worker \notin {"idle", "post"} /\ workLine[1] = m =>
       ~workActive /\ worker \notin CutStages

LiftIsRight(t) ==
  hpc[t] \in LiftPcs => \A m \in Motors : m >= hi[t] => CutIsOver(m)

StageIsRight(t) == Step0IsRight(t) /\ AwaitIsRight(t) /\ LiftIsRight(t)

AxisInv == StartIsStill /\ \A t \in Tasks : StageIsRight(t)

----------------------------------------------------------------------------
(* Pulses belong to a move, also while the worker cuts it; and what homing  *)
(* has seen stand still and cut from power stays so.                        *)
CutInv ==
  \A m \in Motors :
    /\ pulsing[m] => busy[m] /\ mode[m] # "IDLE"
    /\ worker \in {"busy", "mode", "son"} /\ workLine[1] = m => ~pulsing[m]

Quiet(m) == ~busy[m] /\ ~son[m]

QuietIsRight(t) ==
  /\ hpc[t] = "poll3" => hi[t] = 0
  /\ hpc[t] = "busy3" => \A m \in Motors : m < hi[t] => ~busy[m]
  /\ hpc[t] = "cut3" =>
       \A m \in Motors : ~busy[m] /\ (m < hi[t] => ~son[m])
  /\ hpc[t] \in {"homed4", "notify4"} => \A m \in Motors : Quiet(m)

QuietInv ==
  /\ \A t \in Tasks : QuietIsRight(t)
  /\ state \in ReadyStates => \A m \in Motors : Quiet(m)

----------------------------------------------------------------------------
(* What the driver and motorlimit_get() know of a line lags behind it only  *)
(* while the line settles or the worker has it in hand.                     *)
HoldsBefore(l, stages) == worker \in stages /\ workLine = l

SwitchIsFollowed(l) ==
  l \notin settling =>
    /\ worker # "idle" /\ workLine = l => workActive = Level(l)
    /\ limit_active[l] /\ ~HoldsBefore(l, {"notify"}) => Level(l)
    /\ g_limit[l] /\ ~HoldsBefore(l, {"notify", "level"} \cup CutStages) => Level(l)

KnowsClosed(m) == pos[m] = "down" => limit_active[LowerLine(m)]

ClosedIsKnown(t) ==
  /\ hpc[t] \in Step0Pcs => \A m \in Motors : m < hi[t] => KnowsClosed(m)
  /\ hpc[t] = "notify0" => pos[hi[t]] = "down"
  /\ hpc[t] \in {"reached0", "capture0"} => KnowsClosed(hi[t])
  /\ hpc[t] \in Steps1And2Pcs =>
       \A m \in Motors :
         \/ KnowsClosed(m)
         \/ LowerLine(m) \in settling
         \/ HoldsBefore(LowerLine(m), {"notify"})

FlagsInv ==
  /\ StartIsStill
  /\ \A l \in Lines : SwitchIsFollowed(l)
  /\ \A t \in Tasks : ClosedIsKnown(t)

----------------------------------------------------------------------------
(* All of it: events, cuts, standstill and flags agree with the axes at     *)
(* each stage of homing.                                                    *)
AxesInv == AxisInv /\ CutInv /\ QuietInv /\ FlagsInv

=============================================================================
