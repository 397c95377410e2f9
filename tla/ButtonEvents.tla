---------------------------- MODULE ButtonEvents ----------------------------
(* The button half of stm32_sensorbtn.c: the interrupts with their lockout,  *)
(* the settle delay of RESTART, the ring of events with its semaphore, and   *)
(* the safety task that takes the events and hands them to system_state.     *)
(*                                                                          *)
(* START/STOP is one relay contact: closed is START, open is STOP.  What the *)
(* safety task does after an event (hard stop, homing) takes time and leaves *)
(* this state alone.  Homing completes when it likes.                        *)
EXTENDS SystemState, Sequences

CONSTANTS
  BTN_QUEUE_SIZE,         \* 8 in the code: the ring holds one less
  BURST                   \* a bound: how many events buttons let pile up

ASSUME ButtonAssumption ==
  /\ BTN_QUEUE_SIZE \in Nat \ {0, 1}
  /\ BURST \in Nat

VARIABLES
  relay,                      \* the level of the START/STOP contact: closed
  edge,                       \* its interrupt is pending
  locked,                     \* buttons within DEBOUNCE_TICKS of an accepted
                              \* edge, by g_btn_last_tick[]
  settling,                   \* g_restart_wdog is armed, or its work queued
  posting,                    \* restart_worker() is about to post
  bqueue, bhead, btail,       \* g_btn_queue[], g_btn_head, g_btn_tail
  bsem,                       \* g_btn_event_sem
  bpc, code,                  \* the safety task, and the event it has taken
  alarm,                      \* history: an EMERGENCY press has been accepted
                              \* and not been handled yet
  missed                      \* history: the lockout has dropped an edge of the
                              \* contact, and none has been accepted since

contactVars == <<relay, edge>>
ringVars == <<bqueue, bhead, btail, bsem>>
taskVars == <<bpc, code>>
vars == <<sysVars, contactVars, locked, settling, posting, ringVars, taskVars,
          alarm, missed>>

Slots == 0 .. BTN_QUEUE_SIZE - 1

\* Mutant: the index is not wrapped.
After_NoWrap(slot) == slot + 1

After(slot) == (slot + 1) % BTN_QUEUE_SIZE

(* Buttons with the lockout debounce. *)
LockoutButtons == {"STARTSTOP", "EMERGENCY"}

TypeOK ==
  /\ SysTypeOK
  /\ relay \in BOOLEAN
  /\ edge \in BOOLEAN
  /\ locked \subseteq LockoutButtons
  /\ settling \in BOOLEAN
  /\ posting \in BOOLEAN
  /\ bqueue \in [Slots -> BtnEvents]
  /\ bhead \in Slots
  /\ btail \in Slots
  /\ bsem \in 0 .. BURST
  /\ bpc \in {"wait", "pop", "handle"}
  /\ code \in BtnEvents
  /\ alarm \in BOOLEAN
  /\ missed \in BOOLEAN

(* Static storage: every slot holds code 0, which is START. *)
Init ==
  /\ SysInit
  /\ relay \in BOOLEAN
  /\ edge = FALSE
  /\ locked = {}
  /\ settling = FALSE
  /\ posting = FALSE
  /\ bqueue = [s \in Slots |-> "START"]
  /\ bhead = 0 /\ btail = 0 /\ bsem = 0
  /\ bpc = "wait" /\ code = "START"
  /\ alarm = FALSE /\ missed = FALSE

----------------------------------------------------------------------------
(* The ring. *)

RingFull == After(bhead) = btail

(* A full ring drops the event. *)
Enqueue(event) ==
  IF RingFull
  THEN UNCHANGED <<bqueue, bhead>>
  ELSE /\ bqueue' = [bqueue EXCEPT ![bhead] = event]
       /\ bhead' = After(bhead)

\* Mutant: the event is in the ring and nobody is woken.
Push_NoPost(event) == Enqueue(event) /\ UNCHANGED <<btail, bsem>>

(* An interrupt posts only for an event that is in the ring. *)
Push(event) ==
  /\ Enqueue(event)
  /\ bsem' = IF RingFull THEN bsem ELSE bsem + 1
  /\ UNCHANGED btail

----------------------------------------------------------------------------
(* The buttons.  A button is used only while fewer than BURST events, taken  *)
(* or on their way, are not handled yet.                                     *)

One(b) == IF b THEN 1 ELSE 0

Outstanding ==
  bsem + One(bpc # "wait") + One(edge) + One(settling) + One(posting)

(* The contact closes, opens or bounces; edges before the interrupt is       *)
(* served are one interrupt.                                                 *)
RelayMoves ==
  /\ Outstanding < BURST
  /\ relay' = ~relay
  /\ edge' = TRUE
  /\ UNCHANGED <<sysVars, locked, settling, posting, ringVars, taskVars, alarm, missed>>

(* btn_startstop_isr(): the level is read now, whatever edge it was. *)
StartStopIsr ==
  /\ edge
  /\ edge' = FALSE
  /\ \/ "STARTSTOP" \in locked /\ missed' = TRUE /\ UNCHANGED <<locked, ringVars>>
     \/ /\ "STARTSTOP" \notin locked
        /\ locked' = locked \cup {"STARTSTOP"}
        /\ Push(IF relay THEN "START" ELSE "STOP")
        /\ missed' = FALSE
  /\ UNCHANGED <<sysVars, relay, settling, posting, taskVars, alarm>>

(* btn_emergency_isr(), on the press; a locked one does nothing. *)
EmergencyIsr ==
  /\ Outstanding < BURST
  /\ "EMERGENCY" \notin locked
  /\ locked' = locked \cup {"EMERGENCY"}
  /\ alarm' = TRUE
  /\ Push("EMERGENCY")
  /\ UNCHANGED <<sysVars, contactVars, settling, posting, taskVars, missed>>

LockoutEnds(b) ==
  /\ b \in locked
  /\ locked' = locked \ {b}
  /\ UNCHANGED <<sysVars, contactVars, settling, posting, ringVars, taskVars,
                 alarm, missed>>

(* btn_restart_isr(): an edge (re)starts the delay. *)
RestartIsr ==
  /\ Outstanding < BURST
  /\ ~settling
  /\ settling' = TRUE
  /\ UNCHANGED <<sysVars, contactVars, locked, posting, ringVars, taskVars,
                 alarm, missed>>

(* restart_worker(): nothing if the button is up again; else it enqueues in  *)
(* a critical section, ...                                                   *)
RestartWorker ==
  /\ settling /\ ~posting
  /\ settling' = FALSE
  /\ \/ UNCHANGED <<posting, bqueue, bhead>>
     \/ Enqueue("RESTART") /\ posting' = TRUE
  /\ UNCHANGED <<sysVars, contactVars, locked, btail, bsem, taskVars, alarm, missed>>

(* ... and it posts whether or not the event is in the ring. *)
RestartPosts ==
  /\ posting
  /\ posting' = FALSE
  /\ bsem' = bsem + 1
  /\ UNCHANGED <<sysVars, contactVars, locked, settling, bqueue, bhead, btail,
                 taskVars, alarm, missed>>

----------------------------------------------------------------------------
(* motorbtn_waitevent() and the safety task. *)

SafetyWakes ==
  /\ bpc = "wait"
  /\ bsem > 0
  /\ bsem' = bsem - 1
  /\ bpc' = "pop"
  /\ UNCHANGED <<sysVars, contactVars, locked, settling, posting, bqueue, bhead,
                 btail, code, alarm, missed>>

\* Mutant: the tail moves before the slot is read.
SafetyPops_Late ==
  /\ bpc = "pop"
  /\ code' = bqueue[After(btail)]
  /\ btail' = After(btail)
  /\ bpc' = "handle"
  /\ UNCHANGED <<sysVars, contactVars, locked, settling, posting, bqueue, bhead,
                 bsem, alarm, missed>>

(* The slot at the tail, without a look at the head. *)
SafetyPops ==
  /\ bpc = "pop"
  /\ code' = bqueue[btail]
  /\ btail' = After(btail)
  /\ bpc' = "handle"
  /\ UNCHANGED <<sysVars, contactVars, locked, settling, posting, bqueue, bhead,
                 bsem, alarm, missed>>

SafetyHandles ==
  /\ bpc = "handle"
  /\ \E action \in {"NONE", "SPAWN_HOMING", "HARD_STOP"} :
       HandleBtnEvent(code, action)
  /\ bpc' = "wait" /\ code' = "START"
  /\ alarm' = (alarm /\ code # "EMERGENCY")
  /\ UNCHANGED <<contactVars, locked, settling, posting, ringVars, missed>>

SafetyTask == SafetyWakes \/ SafetyPops \/ SafetyHandles

HomingEnds ==
  /\ state = "HOMING"
  /\ NotifyHomingComplete
  /\ UNCHANGED <<contactVars, locked, settling, posting, ringVars, taskVars,
                 alarm, missed>>

Next ==
  \/ RelayMoves \/ StartStopIsr \/ EmergencyIsr
  \/ \E b \in LockoutButtons : LockoutEnds(b)
  \/ RestartIsr \/ RestartWorker \/ RestartPosts
  \/ SafetyTask
  \/ HomingEnds

Spec == Init /\ [][Next]_vars

(* The safety task has the highest priority of the application's threads,    *)
(* and the work queue runs while that task waits.                            *)
Fairness == WF_vars(SafetyTask) /\ WF_vars(RestartPosts)

FairSpec == Spec /\ Fairness

----------------------------------------------------------------------------
(* Properties. *)

BtnRingLength == (bhead - btail) % BTN_QUEUE_SIZE

(* While the safety task keeps up, the ring and its semaphore are a queue:   *)
(* every accepted press is handled once and in order, and no other event.    *)
Waiting ==
  [i \in 1 .. BtnRingLength |-> bqueue[(btail + i - 1) % BTN_QUEUE_SIZE]]

Taken == IF bpc = "handle" THEN <<code>> ELSE <<>>

Queue == INSTANCE PressQueue WITH
  Presses <- BtnEvents, waiting <- Waiting, taken <- Taken

ImplementsQueue == Queue!QueueSpec

(* An EMERGENCY press that the interrupt accepts puts the machine in ESTOP   *)
(* (or finds it in FAULT), whatever the other buttons and the end of homing  *)
(* do in the meantime.                                                       *)
EmergencyStops == alarm ~> state \in LatchedStates

(* Closed is START, released is STOP: whatever the other buttons and the end *)
(* of homing do in the meantime, with every event handled the machine runs   *)
(* only with the contact closed, unless the lockout has dropped an edge.     *)
RunsOnlyIfClosed ==
  state = "RUNNING" /\ Outstanding = 0 /\ ~missed => relay

(* Why: every event in the ring has its token, and the last event of the    *)
(* contact that is waiting, or the one in hand, or the state says where the  *)
(* contact is.                                                              *)
RingInv == BtnRingLength = bsem + One(bpc = "pop") + One(posting)

ContactEvents == {"START", "STOP"}

Level == IF relay THEN "START" ELSE "STOP"

ContactInv ==
  ~edge /\ ~missed =>
    /\ \A i \in 1 .. BtnRingLength :
         /\ Waiting[i] \in ContactEvents
         /\ \A j \in i + 1 .. BtnRingLength : Waiting[j] \notin ContactEvents
         => Waiting[i] = Level
    /\ (\A i \in 1 .. BtnRingLength : Waiting[i] \notin ContactEvents) =>
         IF bpc = "handle" /\ code \in ContactEvents THEN code = Level
         ELSE state = "RUNNING" => relay

ButtonInv == Outstanding <= BURST /\ RingInv /\ ContactInv

=============================================================================
