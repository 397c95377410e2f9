-------------------------- MODULE HomingInvariant --------------------------
(* Why ReadyIsHomed, LateCommandIsSingle and ReadyHasZero hold: inductive    *)
(* invariants of HomingCycle, the first for a machine that is restarted only *)
(* at rest.                                                                  *)
EXTENDS HomingCycle, FiniteSets

Unreached == {m \in Motors : ~limit_reached[m]}

UnreachedBelow(k) == {m \in Unreached : m < k}

NoneReached == \A m \in Motors : ~limit_reached[m] /\ ~homed[m]

(* The need count of a task, at each stage of homing_task_main(). *)

BeforeStep0 == {"flush", "drain"}
InStep0 == {"read0", "reread0", "notify0", "reached0"}
InSteps1And2 == {"abort1", "reached1", "allow1", "home1", "wait2", "known2",
                 "capture2"}
AfterStep2 == {"abort3", "allow3", "lift3", "apply3", "poll3", "busy3",
               "cut3", "homed4", "notify4"}

NeedIsRight(t) ==
  /\ hpc[t] \in BeforeStep0 => NoneReached
  /\ hpc[t] \in InStep0 =>
       /\ need[t] = Cardinality(UnreachedBelow(hi[t]))
       /\ \A m \in Motors : m >= hi[t] => m \in Unreached
  /\ hpc[t] = "capture0" =>
       /\ need[t] = Cardinality(UnreachedBelow(hi[t]))
       /\ limit_reached[hi[t]]
       /\ \A m \in Motors : m > hi[t] => m \in Unreached
  /\ hpc[t] \in InSteps1And2 => need[t] = Cardinality(Unreached)
  /\ hpc[t] = "set2" => need[t] = Cardinality(Unreached) /\ hm[t] \in Unreached
  /\ hpc[t] \in AfterStep2 => Unreached = {}

HomedIsRight(t) ==
  /\ hpc[t] = "homed4" => \A m \in Motors : m < hi[t] => homed[m]
  /\ hpc[t] = "notify4" => \A m \in Motors : homed[m]

(* Homing is about to begin, or goes on. *)
HomingUnderWay == spc = "spawn" \/ ~NoHomingTask

(* The parts of the invariant that a step of one homing task can break only *)
(* for that task, and the parts that speak of the whole machine.            *)
HomingInv ==
  /\ AtMostOneHomingTask
  /\ spc = "spawn" => NoHomingTask /\ NoneReached
  /\ HomingUnderWay => state \in {"HOMING", "ESTOP"}
  /\ \A t \in Tasks : NeedIsRight(t) /\ HomedIsRight(t)
  /\ ReadyIsHomed

(* The second invariant, for a command that comes after an EMERGENCY.  The   *)
(* hard stop is complete once one device has been reached, which stops all; *)
(* a task that is past its last check can then still start one axis, and    *)
(* when it has done so no task is left that could start another.            *)
CommandPcs == {"home1", "lift3", "apply3"}
Commanding(t) == hpc[t] \in CommandPcs

Stopped ==
  /\ state = "ESTOP"
  /\ spc = "wait" \/ (spc = "stop" /\ sreached)

LateInv ==
  /\ spc = "spawn" => state # "ESTOP"
  /\ Stopped =>
       /\ \A m, n \in Motors : busy[m] /\ busy[n] => m = n
       /\ (\E t \in Tasks : Commanding(t)) => \A m \in Motors : ~busy[m]

(* The third: an axis that is marked at its limit has its encoder zero, or   *)
(* the task that marked it is about to capture it.                          *)
Capturing(t, m) ==
  \/ hpc[t] = "capture0" /\ hi[t] = m
  \/ hpc[t] = "capture2" /\ hm[t] = m

ZeroInv ==
  \A m \in Motors :
    /\ feedback[m]
    /\ limit_reached[m] => captured[m] \/ \E t \in Tasks : Capturing(t, m)

=============================================================================
