---------------------------- MODULE LimitEvents ----------------------------
(* The limit switch half of stm32_sensorbtn.c: debounced edges, the worker  *)
(* that processes a settled line, and the ring of events with its           *)
(* semaphore, from which the homing task takes them.                        *)
(*                                                                          *)
(* An edge (re)arms the line's watchdog; when it expires the line's work is *)
(* queued and limit_worker() runs it.  A line between its last edge and the *)
(* start of the worker is in `settling': a further edge only restarts the   *)
(* delay, or queues the same work again, so membership is all there is.     *)
EXTENDS StepDriver

CONSTANTS
  LIMIT_QUEUE_SIZE,       \* 8 in the code: the ring holds one less
  SEM_VALUE_MAX           \* where sem_post() fails: 32767 in NuttX

ASSUME QueueSizeAssumption ==
  /\ LIMIT_QUEUE_SIZE \in Nat \ {0, 1}
  /\ SEM_VALUE_MAX \in Nat /\ SEM_VALUE_MAX >= LIMIT_QUEUE_SIZE

VARIABLES
  settling,               \* lines with an armed watchdog or queued work
  worker,                 \* progress of limit_worker(): see WorkerStates
  workLine, workActive,   \* its locals: the line, and the level it read
  g_limit,                \* g_limit[].up/.down, read by motorlimit_get()
  lqueue, lhead, ltail,   \* g_limit_queue[], g_limit_head, g_limit_tail
  lsem                    \* g_limit_event_sem

workVars == <<worker, workLine, workActive>>
ringVars == <<lqueue, lhead, ltail, lsem>>
limitVars == <<settling, workVars, g_limit, ringVars>>

(* What the worker does next: "idle" is no worker running.  A stage of the  *)
(* cut is a state of its own, because the worker runs in the low-priority   *)
(* work queue, which the safety and the motion task preempt.                *)
WorkerStates == {"idle", "notify", "level", "push", "post"} \cup CutStages

NextStage == [pulses |-> "busy", busy |-> "mode", mode |-> "son", son |-> "level"]

Slots == 0 .. LIMIT_QUEUE_SIZE - 1
After(slot) == (slot + 1) % LIMIT_QUEUE_SIZE

LimitTypeOK ==
  /\ settling \subseteq Lines
  /\ worker \in WorkerStates
  /\ workLine \in Lines
  /\ workActive \in BOOLEAN
  /\ g_limit \in [Lines -> BOOLEAN]
  /\ lqueue \in [Slots -> Lines]
  /\ lhead \in Slots
  /\ ltail \in Slots
  /\ lsem \in 0 .. SEM_VALUE_MAX

(* Static storage: every slot holds code 0, the lower switch of motor 0. *)
LimitInit ==
  /\ settling = {}
  /\ worker = "idle"
  /\ workLine = <<0, FALSE>>
  /\ workActive = FALSE
  /\ g_limit = [l \in Lines |-> FALSE]
  /\ lqueue = [s \in Slots |-> <<0, FALSE>>]
  /\ lhead = 0
  /\ ltail = 0
  /\ lsem = 0

----------------------------------------------------------------------------
(* The interrupt of a line, on either edge. *)
LimitIsr(edges) == settling' = settling \cup edges

(* limit_worker(), one step per shared access.  level is the pin. *)

WorkerReads(line, level) ==
  /\ worker = "idle"
  /\ line \in settling
  /\ settling' = settling \ {line}
  /\ worker' = "notify"
  /\ workLine' = line
  /\ workActive' = level
  /\ UNCHANGED <<g_limit, ringVars, stepVars>>

(* The flag and the test of what the axis does are one step: a command that *)
(* starts between the two could as well have started before the flag.       *)
WorkerNotifies ==
  /\ worker = "notify"
  /\ SetLimitFlag(workLine, workActive)
  /\ worker' = IF workActive /\ MovingTowards(workLine) THEN "pulses" ELSE "level"
  /\ UNCHANGED <<workLine, workActive, settling, g_limit, ringVars, chanVars>>

WorkerCuts ==
  /\ worker \in CutStages
  /\ CutStage(workLine[1], worker)
  /\ worker' = NextStage[worker]
  /\ UNCHANGED <<workLine, workActive, settling, g_limit, ringVars>>

WorkerSetsLevel ==
  /\ worker = "level"
  /\ g_limit' = [g_limit EXCEPT ![workLine] = workActive]
  /\ worker' = "push"
  /\ UNCHANGED <<workLine, workActive, settling, ringVars, stepVars>>

RingFull == After(lhead) = ltail

(* A full ring drops the event ... *)
WorkerPushes ==
  /\ worker = "push"
  /\ IF RingFull
     THEN UNCHANGED <<lqueue, lhead>>
     ELSE /\ lqueue' = [lqueue EXCEPT ![lhead] = workLine]
          /\ lhead' = After(lhead)
  /\ worker' = "post"
  /\ UNCHANGED <<workLine, workActive, settling, g_limit, ltail, lsem,
                 stepVars>>

(* ... and the semaphore is posted all the same.  Nobody takes the events   *)
(* outside of homing: there the count grows until a post fails.             *)
WorkerPosts ==
  /\ worker = "post"
  /\ lsem' = IF lsem = SEM_VALUE_MAX THEN lsem ELSE lsem + 1
  /\ worker' = "idle" /\ workLine' = <<0, FALSE>> /\ workActive' = FALSE
  /\ UNCHANGED <<settling, g_limit, lqueue, lhead, ltail, stepVars>>

WorkerContinues ==
  WorkerNotifies \/ WorkerCuts \/ WorkerSetsLevel \/ WorkerPushes \/ WorkerPosts

----------------------------------------------------------------------------
(* Taken by the homing task. *)

\* Mutant: only the semaphore is emptied, not the ring.
FlushRing_Not == UNCHANGED ringVars

(* motorlimit_flush_events(): first the indices, in a critical section, ... *)
FlushRing ==
  /\ lhead' = 0
  /\ ltail' = 0
  /\ UNCHANGED <<lqueue, lsem>>

(* ... then sem_trywait() until it fails, outside of it. *)
DrainOne ==
  /\ lsem > 0
  /\ lsem' = lsem - 1
  /\ UNCHANGED <<lqueue, lhead, ltail>>

(* motorlimit_timedwaitevent_id() when the semaphore has a token: the slot  *)
(* at the tail is taken without a look at the head.                         *)
EventAtTail == lqueue[ltail]

\* Mutant: the tail stays where it is.
TakeEvent_NoAdvance ==
  /\ lsem > 0
  /\ lsem' = lsem - 1
  /\ UNCHANGED <<lqueue, lhead, ltail>>

TakeEvent ==
  /\ lsem > 0
  /\ lsem' = lsem - 1
  /\ ltail' = After(ltail)
  /\ UNCHANGED <<lqueue, lhead>>

RingLength == (lhead - ltail) % LIMIT_QUEUE_SIZE

============================================================================
