------------------------- MODULE ButtonEvents_proofs -------------------------
(* The ring of button events is a queue, and the machine runs only with the *)
(* contact closed, for any size of the ring, as long as fewer events pile   *)
(* up than it has slots.                                                    *)
EXTENDS ButtonEvents, SequenceTheorems, TLAPS

(* The safety task keeps up. *)
KeepsUp == BURST < BTN_QUEUE_SIZE

LEMMA Constants == BTN_QUEUE_SIZE \in Nat \ {0, 1} /\ BURST \in Nat /\ 0 \in Slots
BY ButtonAssumption DEF Slots

----------------------------------------------------------------------------
(* Types. *)

LEMMA NextIs ==
  ASSUME NEW n \in Nat \ {0}, NEW s \in 0 .. n - 1
  PROVE  (s + 1) % n = IF s = n - 1 THEN 0 ELSE s + 1
OBVIOUS

LEMMA AfterIs ==
  ASSUME NEW s \in Slots
  PROVE  /\ After(s) \in Slots
         /\ After(s) = IF s = BTN_QUEUE_SIZE - 1 THEN 0 ELSE s + 1
<1>1. After(s) = IF s = BTN_QUEUE_SIZE - 1 THEN 0 ELSE s + 1
  BY NextIs, Constants DEF After, Slots
<1> QED BY <1>1, Constants DEF Slots

LEMMA EnqueueType ==
  ASSUME TypeOK, NEW e \in BtnEvents, Enqueue(e)
  PROVE  bqueue' \in [Slots -> BtnEvents] /\ bhead' \in Slots
BY AfterIs DEF Enqueue, TypeOK

LEMMA HandleType ==
  ASSUME SysTypeOK, NEW b \in BtnEvents, NEW action, HandleBtnEvent(b, action)
  PROVE  SysTypeOK'
BY DEF SysTypeOK, SysStates, HandleBtnEvent, HandleStart, HandleStop, Latch,
       HandleRestart, ResetHoming, sysVars

LEMMA SysSame ==
  ASSUME SysTypeOK, UNCHANGED sysVars
  PROVE  SysTypeOK'
BY DEF SysTypeOK, sysVars

(* The types with the bound of what is outstanding, which keeps the          *)
(* semaphore in range.                                                      *)
TypeInv == TypeOK /\ Outstanding <= BURST

LEMMA TypeInit == Init => TypeInv
<1> SUFFICES ASSUME Init PROVE TypeInv
  OBVIOUS
<1>1. Outstanding = 0
  BY DEF Init, Outstanding, One
<1>2. SysTypeOK
  BY DEF Init, SysInit, SysTypeOK, SysStates
<1>3. bqueue \in [Slots -> BtnEvents] /\ bhead \in Slots /\ btail \in Slots
      /\ bsem \in 0 .. BURST
  BY Constants DEF Init, BtnEvents
<1>4. Outstanding <= BURST
  BY <1>1, Constants
<1>5. /\ relay \in BOOLEAN /\ edge \in BOOLEAN /\ locked \subseteq LockoutButtons
      /\ settling \in BOOLEAN /\ posting \in BOOLEAN
      /\ bpc \in {"wait", "pop", "handle"} /\ code \in BtnEvents
      /\ alarm \in BOOLEAN /\ missed \in BOOLEAN
  BY DEF Init, BtnEvents
<1> QED BY <1>2, <1>3, <1>4, <1>5 DEF TypeInv, TypeOK

LEMMA TypeStep ==
  ASSUME TypeInv, [Next]_vars
  PROVE  TypeInv'
<1> USE DEF TypeInv
<1>0. /\ bsem \in Nat /\ BURST \in Nat /\ TypeOK
      /\ One(bpc # "wait") \in {0, 1} /\ One(edge) \in {0, 1}
      /\ One(settling) \in {0, 1} /\ One(posting) \in {0, 1}
      /\ One(bpc # "wait")' \in {0, 1} /\ One(edge)' \in {0, 1}
      /\ One(settling)' \in {0, 1} /\ One(posting)' \in {0, 1}
  BY Constants DEF TypeOK, One
<1>1. CASE RelayMoves
  <2>1. Outstanding' <= BURST
    BY <1>0, <1>1 DEF RelayMoves, Outstanding, One, ringVars, taskVars, TypeOK
  <2> QED BY <1>1, <2>1, SysSame DEF RelayMoves, ringVars, taskVars, TypeOK
<1>2. CASE StartStopIsr
  <2>1. bsem' \in {bsem, bsem + 1} /\ bqueue' \in [Slots -> BtnEvents] /\ bhead' \in Slots
        /\ btail' = btail
    <3>1. CASE UNCHANGED ringVars
      BY <1>0, <3>1 DEF ringVars, TypeOK
    <3>2. CASE Push(IF relay THEN "START" ELSE "STOP")
      BY <1>0, <3>2, EnqueueType DEF Push, BtnEvents
    <3> QED BY <1>2, <3>1, <3>2 DEF StartStopIsr
  <2>2. UNCHANGED <<settling, posting, bpc>> /\ edge /\ ~edge'
    BY <1>2 DEF StartStopIsr, taskVars, contactVars
  <2>3. bsem' \in Nat /\ Outstanding' <= BURST
    <3>1. /\ One(bpc # "wait")' = One(bpc # "wait") /\ One(settling)' = One(settling)
          /\ One(posting)' = One(posting) /\ One(edge) = 1 /\ One(edge)' = 0
      BY <2>2 DEF One
    <3> QED BY <1>0, <2>1, <3>1 DEF Outstanding
  <2>4. bsem' \in 0 .. BURST
    BY <1>0, <2>3 DEF Outstanding
  <2> QED BY <1>2, <2>1, <2>3, <2>4, SysSame
          DEF StartStopIsr, taskVars, TypeOK, LockoutButtons
<1>3. CASE EmergencyIsr
  <2>1. bsem' \in {bsem, bsem + 1} /\ bqueue' \in [Slots -> BtnEvents] /\ bhead' \in Slots
        /\ btail' = btail
    BY <1>0, <1>3, EnqueueType DEF EmergencyIsr, Push, BtnEvents
  <2>2. UNCHANGED <<settling, posting, bpc>> /\ edge' = edge /\ Outstanding < BURST
    BY <1>3 DEF EmergencyIsr, taskVars, contactVars
  <2>3. bsem' \in Nat /\ Outstanding' <= BURST
    <3>1. /\ One(bpc # "wait")' = One(bpc # "wait") /\ One(settling)' = One(settling)
          /\ One(posting)' = One(posting) /\ One(edge)' = One(edge)
      BY <2>2 DEF One
    <3> QED BY <1>0, <2>1, <2>2, <3>1 DEF Outstanding
  <2>4. bsem' \in 0 .. BURST
    BY <1>0, <2>3 DEF Outstanding
  <2> QED BY <1>3, <2>1, <2>3, <2>4, SysSame
          DEF EmergencyIsr, taskVars, contactVars, TypeOK, LockoutButtons
<1>4. ASSUME NEW b \in LockoutButtons, LockoutEnds(b) PROVE TypeInv'
  <2>1. Outstanding' <= BURST
    BY <1>4 DEF LockoutEnds, Outstanding, contactVars, ringVars, taskVars
  <2> QED BY <1>4, <2>1, SysSame DEF LockoutEnds, contactVars, ringVars, taskVars, TypeOK
<1>5. CASE RestartIsr
  <2>1. Outstanding' <= BURST
    BY <1>0, <1>5 DEF RestartIsr, Outstanding, One, contactVars, ringVars, taskVars, TypeOK
  <2> QED BY <1>5, <2>1, SysSame DEF RestartIsr, contactVars, ringVars, taskVars, TypeOK
<1>6. CASE RestartWorker
  <2>1. bqueue' \in [Slots -> BtnEvents] /\ bhead' \in Slots /\ posting' \in BOOLEAN
    BY <1>0, <1>6, EnqueueType DEF RestartWorker, BtnEvents, TypeOK
  <2>2. Outstanding' <= BURST
    BY <1>0, <1>6, <2>1 DEF RestartWorker, Outstanding, One, contactVars, taskVars, TypeOK
  <2> QED BY <1>6, <2>1, <2>2, SysSame DEF RestartWorker, contactVars, taskVars, TypeOK
<1>7. CASE RestartPosts
  <2>1. bsem' = bsem + 1 /\ Outstanding' <= BURST
    BY <1>0, <1>7 DEF RestartPosts, Outstanding, One, contactVars, taskVars, TypeOK
  <2>2. bsem' \in 0 .. BURST
    BY <1>0, <2>1, Constants DEF Outstanding, One
  <2> QED BY <1>7, <2>1, <2>2, SysSame DEF RestartPosts, contactVars, taskVars, TypeOK
<1>8. CASE SafetyWakes
  <2>1. Outstanding' <= BURST
    BY <1>0, <1>8 DEF SafetyWakes, Outstanding, One, contactVars, TypeOK
  <2>2. bsem' \in 0 .. BURST
    BY <1>0, <1>8 DEF SafetyWakes, TypeOK
  <2> QED BY <1>8, <2>1, <2>2, SysSame DEF SafetyWakes, contactVars, TypeOK
<1>9. CASE SafetyPops
  <2>1. Outstanding' <= BURST
    BY <1>0, <1>9 DEF SafetyPops, Outstanding, One, contactVars, TypeOK
  <2> QED BY <1>9, <2>1, SysSame, AfterIs DEF SafetyPops, contactVars, TypeOK
<1>10. CASE SafetyHandles
  <2>1. Outstanding' <= BURST
    BY <1>0, <1>10 DEF SafetyHandles, Outstanding, One, contactVars, ringVars, TypeOK
  <2>2. SysTypeOK'
    BY <1>0, <1>10, HandleType DEF SafetyHandles, TypeOK
  <2> QED BY <1>10, <2>1, <2>2 DEF SafetyHandles, contactVars, ringVars, TypeOK, BtnEvents
<1>11. CASE HomingEnds
  <2>1. Outstanding' <= BURST
    BY <1>11 DEF HomingEnds, Outstanding, contactVars, ringVars, taskVars
  <2>2. SysTypeOK'
    BY <1>11 DEF HomingEnds, NotifyHomingComplete, TypeOK, SysTypeOK, SysStates
  <2> QED BY <1>11, <2>1, <2>2 DEF HomingEnds, contactVars, ringVars, taskVars, TypeOK
<1>12. CASE UNCHANGED vars
  <2>1. Outstanding' <= BURST
    BY <1>12 DEF vars, Outstanding, contactVars, ringVars, taskVars
  <2> QED BY <1>12, <2>1, SysSame DEF vars, contactVars, ringVars, taskVars, TypeOK
<1> QED BY <1>1, <1>2, <1>3, <1>4, <1>5, <1>6, <1>7, <1>8, <1>9, <1>10, <1>11, <1>12
        DEF Next, SafetyTask

(* Ring indices and the semaphore stay in range.                            *)
THEOREM TypeCorrect == Spec => []TypeOK
<1>1. TypeInv /\ [Next]_vars => TypeInv'
  BY TypeStep
<1>2. TypeInv => TypeOK
  BY DEF TypeInv
<1> QED BY <1>1, <1>2, TypeInit, PTL DEF Spec

----------------------------------------------------------------------------
(* The ring as a queue: what lies from slot t up to slot h. *)

Content(q, h, t) ==
  [i \in 1 .. (h - t) % BTN_QUEUE_SIZE |-> q[(t + i - 1) % BTN_QUEUE_SIZE]]

LEMMA Distance ==
  ASSUME NEW n \in Nat \ {0}, NEW h \in 0 .. n - 1, NEW t \in 0 .. n - 1
  PROVE  /\ (h - t) % n = IF t <= h THEN h - t ELSE h - t + n
         /\ (h - t) % n \in 0 .. n - 1
OBVIOUS

LEMMA Place ==
  ASSUME NEW n \in Nat \ {0}, NEW t \in 0 .. n - 1, NEW i \in 1 .. n
  PROVE  /\ (t + i - 1) % n = IF t + i - 1 < n THEN t + i - 1 ELSE t + i - 1 - n
         /\ (t + i - 1) % n \in 0 .. n - 1
OBVIOUS

LEMMA ContentType ==
  ASSUME NEW q \in [Slots -> BtnEvents], NEW h \in Slots, NEW t \in Slots
  PROVE  /\ Content(q, h, t) \in Seq(BtnEvents)
         /\ Len(Content(q, h, t)) = (h - t) % BTN_QUEUE_SIZE
         /\ (h - t) % BTN_QUEUE_SIZE \in 0 .. BTN_QUEUE_SIZE - 1
<1> DEFINE n == (h - t) % BTN_QUEUE_SIZE
<1>1. n \in 0 .. BTN_QUEUE_SIZE - 1 /\ n \in Nat
  BY Distance, Constants DEF Slots
<1>2. \A i \in 1 .. n : q[(t + i - 1) % BTN_QUEUE_SIZE] \in BtnEvents
  <2> TAKE i \in 1 .. n
  <2>1. i \in 1 .. BTN_QUEUE_SIZE
    BY <1>1, Constants
  <2>2. (t + i - 1) % BTN_QUEUE_SIZE \in Slots
    BY <2>1, Place, Constants DEF Slots
  <2> QED BY <2>2
<1> HIDE DEF n
<1>3. Content(q, h, t) = [i \in 1 .. n |-> q[(t + i - 1) % BTN_QUEUE_SIZE]]
  BY DEF Content, n
<1>4. Content(q, h, t) \in [1 .. n -> BtnEvents]
  BY <1>2, <1>3
<1>5. Content(q, h, t) \in Seq(BtnEvents)
  BY <1>1, <1>4, SeqDef
<1>6. Len(Content(q, h, t)) = n
  BY <1>1, <1>4, <1>5, LenProperties
<1> QED BY <1>1, <1>5, <1>6 DEF n

LEMMA ContentPush ==
  ASSUME NEW q \in [Slots -> BtnEvents], NEW h \in Slots, NEW t \in Slots,
         NEW e \in BtnEvents, After(h) # t
  PROVE  /\ Content([q EXCEPT ![h] = e], After(h), t) = Append(Content(q, h, t), e)
         /\ (After(h) - t) % BTN_QUEUE_SIZE = ((h - t) % BTN_QUEUE_SIZE) + 1
<1> DEFINE r == [q EXCEPT ![h] = e]
           n == (h - t) % BTN_QUEUE_SIZE
           old == Content(q, h, t)
           new == Content(r, After(h), t)
<1>1. After(h) \in Slots /\ After(h) = IF h = BTN_QUEUE_SIZE - 1 THEN 0 ELSE h + 1
  BY AfterIs
<1>2. /\ n = IF t <= h THEN h - t ELSE h - t + BTN_QUEUE_SIZE
      /\ n \in 0 .. BTN_QUEUE_SIZE - 1
  BY Distance, Constants DEF Slots
<1>3. (After(h) - t) % BTN_QUEUE_SIZE
        = IF t <= After(h) THEN After(h) - t ELSE After(h) - t + BTN_QUEUE_SIZE
  BY <1>1, Distance, Constants DEF Slots
<1>4. (After(h) - t) % BTN_QUEUE_SIZE = n + 1
  BY <1>1, <1>2, <1>3, Constants DEF Slots
<1>5. r \in [Slots -> BtnEvents]
  OBVIOUS
<1>6. old \in Seq(BtnEvents) /\ Len(old) = n
  BY ContentType
<1>7. new \in Seq(BtnEvents) /\ Len(new) = n + 1
  BY <1>1, <1>4, <1>5, ContentType
<1>8. /\ Append(old, e) \in Seq(BtnEvents) /\ Len(Append(old, e)) = n + 1
      /\ \A i \in 1 .. n : Append(old, e)[i] = old[i]
      /\ Append(old, e)[n + 1] = e
  BY <1>6, AppendProperties
<1>9. ASSUME NEW i \in 1 .. n + 1 PROVE new[i] = Append(old, e)[i]
  <2> DEFINE place == (t + i - 1) % BTN_QUEUE_SIZE
  <2>1. i \in 1 .. BTN_QUEUE_SIZE
    BY <1>2, Constants
  <2>2. /\ place = IF t + i - 1 < BTN_QUEUE_SIZE THEN t + i - 1
                                               ELSE t + i - 1 - BTN_QUEUE_SIZE
        /\ place \in Slots
    BY <2>1, Place, Constants DEF Slots
  <2>3. new[i] = r[place]
    BY <1>4 DEF Content
  <2>4. i = n + 1 => place = h
    BY <1>2, <2>2, Constants DEF Slots
  <2>5. i # n + 1 => place # h /\ i \in 1 .. n
    BY <1>2, <2>2, Constants DEF Slots
  <2>6. i \in 1 .. n => old[i] = q[place]
    BY DEF Content
  <2> QED BY <1>8, <2>2, <2>3, <2>4, <2>5, <2>6
<1> HIDE DEF old, new
<1>10. new = Append(old, e)
  BY <1>7, <1>8, <1>9, SeqEqual
<1> QED BY <1>4, <1>10 DEF old, new

LEMMA ContentPop ==
  ASSUME NEW q \in [Slots -> BtnEvents], NEW h \in Slots, NEW t \in Slots,
         (h - t) % BTN_QUEUE_SIZE > 0
  PROVE  /\ Content(q, h, t) # <<>>
         /\ Head(Content(q, h, t)) = q[t]
         /\ Content(q, h, After(t)) = Tail(Content(q, h, t))
         /\ (h - After(t)) % BTN_QUEUE_SIZE = ((h - t) % BTN_QUEUE_SIZE) - 1
<1> DEFINE n == (h - t) % BTN_QUEUE_SIZE
           old == Content(q, h, t)
           new == Content(q, h, After(t))
<1>1. After(t) \in Slots /\ After(t) = IF t = BTN_QUEUE_SIZE - 1 THEN 0 ELSE t + 1
  BY AfterIs
<1>2. /\ n = IF t <= h THEN h - t ELSE h - t + BTN_QUEUE_SIZE
      /\ n \in 1 .. BTN_QUEUE_SIZE - 1
  BY Distance, Constants DEF Slots
<1>3. (h - After(t)) % BTN_QUEUE_SIZE
        = IF After(t) <= h THEN h - After(t) ELSE h - After(t) + BTN_QUEUE_SIZE
  BY <1>1, Distance, Constants DEF Slots
<1>4. (h - After(t)) % BTN_QUEUE_SIZE = n - 1
  BY <1>1, <1>2, <1>3, Constants DEF Slots
<1>5. old \in Seq(BtnEvents) /\ Len(old) = n
  BY ContentType
<1>6. new \in Seq(BtnEvents) /\ Len(new) = n - 1
  BY <1>1, <1>4, ContentType
<1>7. old # <<>>
  BY <1>2, <1>5, EmptySeq
<1>8. /\ Tail(old) \in Seq(BtnEvents) /\ Len(Tail(old)) = n - 1
      /\ \A i \in 1 .. n - 1 : Tail(old)[i] = old[i + 1]
  BY <1>5, <1>7, HeadTailProperties
<1>9. ASSUME NEW i \in 1 .. n - 1 PROVE new[i] = Tail(old)[i]
  <2>1. i \in 1 .. BTN_QUEUE_SIZE /\ i + 1 \in 1 .. BTN_QUEUE_SIZE /\ i + 1 \in 1 .. n
    BY <1>2, Constants
  <2>2. (After(t) + i - 1) % BTN_QUEUE_SIZE
          = IF After(t) + i - 1 < BTN_QUEUE_SIZE THEN After(t) + i - 1
                                               ELSE After(t) + i - 1 - BTN_QUEUE_SIZE
    BY <1>1, <2>1, Place, Constants DEF Slots
  <2>3. (t + (i + 1) - 1) % BTN_QUEUE_SIZE
          = IF t + (i + 1) - 1 < BTN_QUEUE_SIZE THEN t + (i + 1) - 1
                                               ELSE t + (i + 1) - 1 - BTN_QUEUE_SIZE
    BY <2>1, Place, Constants DEF Slots
  <2>4. (After(t) + i - 1) % BTN_QUEUE_SIZE = (t + (i + 1) - 1) % BTN_QUEUE_SIZE
    BY <1>1, <1>2, <2>1, <2>2, <2>3, Constants DEF Slots
  <2>5. new[i] = q[(After(t) + i - 1) % BTN_QUEUE_SIZE]
    BY <1>4 DEF Content
  <2>6. old[i + 1] = q[(t + (i + 1) - 1) % BTN_QUEUE_SIZE]
    BY <2>1 DEF Content
  <2> QED BY <1>8, <2>4, <2>5, <2>6
<1>10. old[1] = q[t]
  <2>1. (t + 1 - 1) % BTN_QUEUE_SIZE = t
    BY Place, Constants DEF Slots
  <2>2. old[1] = q[(t + 1 - 1) % BTN_QUEUE_SIZE]
    BY <1>2 DEF Content
  <2> QED BY <2>1, <2>2
<1> HIDE DEF old, new
<1>11. new = Tail(old)
  BY <1>6, <1>8, <1>9, SeqEqual
<1>12. Head(old) = q[t]
  BY <1>10
<1> QED BY <1>4, <1>7, <1>11, <1>12 DEF old, new


----------------------------------------------------------------------------
(* The queue. *)

LEMMA WaitingIs ==
  ASSUME TypeOK
  PROVE  /\ Waiting = Content(bqueue, bhead, btail)
         /\ BtnRingLength = (bhead - btail) % BTN_QUEUE_SIZE
         /\ Waiting \in Seq(BtnEvents)
         /\ Len(Waiting) = BtnRingLength
         /\ BtnRingLength \in 0 .. BTN_QUEUE_SIZE - 1
<1>1. Waiting = Content(bqueue, bhead, btail)
  BY DEF Waiting, Content, BtnRingLength
<1>2. bqueue \in [Slots -> BtnEvents] /\ bhead \in Slots /\ btail \in Slots
  BY DEF TypeOK
<1> QED BY <1>1, <1>2, ContentType DEF BtnRingLength

LEMMA WaitingNext ==
  /\ Waiting' = Content(bqueue', bhead', btail')
  /\ BtnRingLength' = (bhead' - btail') % BTN_QUEUE_SIZE
BY DEF Waiting, Content, BtnRingLength

LEMMA Pushed ==
  ASSUME TypeOK, NEW e \in BtnEvents, Enqueue(e), ~RingFull, btail' = btail
  PROVE  Waiting' = Append(Waiting, e) /\ BtnRingLength' = BtnRingLength + 1
<1>1. bqueue \in [Slots -> BtnEvents] /\ bhead \in Slots /\ btail \in Slots
  BY DEF TypeOK
<1>2. /\ After(bhead) # btail
      /\ bqueue' = [bqueue EXCEPT ![bhead] = e] /\ bhead' = After(bhead)
  BY DEF Enqueue, RingFull
<1> QED BY <1>1, <1>2, ContentPush, WaitingIs, WaitingNext

LEMMA Popped ==
  ASSUME TypeOK, BtnRingLength > 0, btail' = After(btail), UNCHANGED <<bqueue, bhead>>
  PROVE  /\ Waiting # <<>> /\ Head(Waiting) = bqueue[btail]
         /\ Waiting' = Tail(Waiting) /\ BtnRingLength' = BtnRingLength - 1
<1>1. bqueue \in [Slots -> BtnEvents] /\ bhead \in Slots /\ btail \in Slots
  BY DEF TypeOK
<1> QED BY <1>1, ContentPop, WaitingIs, WaitingNext

LEMMA RingSame ==
  ASSUME UNCHANGED <<bqueue, bhead, btail>>
  PROVE  Waiting' = Waiting /\ BtnRingLength' = BtnRingLength
BY DEF Waiting, BtnRingLength

(* A ring that is full holds more than may be outstanding.                   *)
LEMMA NotFull ==
  ASSUME KeepsUp, TypeInv, RingInv, Outstanding < BURST \/ edge \/ settling
  PROVE  ~RingFull
<1> SUFFICES ASSUME RingFull PROVE FALSE
  OBVIOUS
<1>1. BtnRingLength = BTN_QUEUE_SIZE - 1
  <2>1. bhead \in Slots /\ btail \in Slots /\ After(bhead) = btail
    BY DEF TypeInv, TypeOK, RingFull
  <2>2. bhead \in 0 .. BTN_QUEUE_SIZE - 1 /\ btail \in 0 .. BTN_QUEUE_SIZE - 1
    BY <2>1 DEF Slots
  <2>3. BtnRingLength = IF btail <= bhead THEN bhead - btail ELSE bhead - btail + BTN_QUEUE_SIZE
    BY <2>2, Distance, Constants DEF BtnRingLength
  <2>4. btail = IF bhead = BTN_QUEUE_SIZE - 1 THEN 0 ELSE bhead + 1
    BY <2>1, AfterIs
  <2> QED BY <2>2, <2>3, <2>4, Constants
<1>2. /\ One(bpc # "wait") \in {0, 1} /\ One(bpc = "pop") \in {0, 1}
      /\ One(edge) \in {0, 1} /\ One(settling) \in {0, 1} /\ One(posting) \in {0, 1}
      /\ One(bpc = "pop") <= One(bpc # "wait")
  BY DEF One
<1>3. bsem \in Nat /\ BURST \in Nat /\ BTN_QUEUE_SIZE \in Nat
  BY Constants DEF TypeInv, TypeOK
<1>4. BtnRingLength = bsem + One(bpc = "pop") + One(posting)
  BY DEF RingInv
<1>5. Outstanding >= BtnRingLength + One(edge) + One(settling)
  BY <1>2, <1>3, <1>4 DEF Outstanding
<1>6. Outstanding < BURST \/ One(edge) = 1 \/ One(settling) = 1
  BY DEF One
<1>7. Outstanding <= BURST /\ BURST <= BTN_QUEUE_SIZE - 1
  BY Constants DEF TypeInv, KeepsUp
<1>8. Outstanding \in Int
  BY <1>2, <1>3 DEF Outstanding
<1> QED BY <1>1, <1>2, <1>3, <1>5, <1>6, <1>7, <1>8

(* One step of the buttons or of the safety task is one step of the queue.  *)
QueueStep == [Queue!QueueNext]_<<Waiting, Taken>>

LEMMA QueueKept ==
  ASSUME KeepsUp, TypeInv, RingInv, [Next]_vars
  PROVE  RingInv' /\ QueueStep
<1>0. TypeOK /\ bsem \in Nat /\ BtnRingLength \in Nat
  BY WaitingIs DEF TypeInv, TypeOK
<1>1. ASSUME UNCHANGED <<bqueue, bhead, btail, bsem, bpc, posting, code>>
      PROVE  RingInv' /\ QueueStep
  <2>1. Waiting' = Waiting /\ BtnRingLength' = BtnRingLength /\ Taken' = Taken
    BY <1>1, RingSame DEF Taken
  <2> QED BY <1>1, <2>1 DEF RingInv, One, QueueStep
<1>2. ASSUME NEW e \in BtnEvents, Enqueue(e), ~RingFull,
             UNCHANGED <<btail, bpc, code>>,
             \/ bsem' = bsem + 1 /\ posting' = posting
             \/ bsem' = bsem /\ ~posting /\ posting'
      PROVE  RingInv' /\ QueueStep
  <2>1. Waiting' = Append(Waiting, e) /\ BtnRingLength' = BtnRingLength + 1
    BY <1>0, <1>2, Pushed
  <2>2. Taken' = Taken
    BY <1>2 DEF Taken
  <2>3. RingInv'
    <3>1. One(bpc = "pop") \in {0, 1} /\ One(bpc = "pop")' = One(bpc = "pop")
          /\ One(posting) \in {0, 1}
      BY <1>2 DEF One
    <3>2. \/ bsem' = bsem + 1 /\ One(posting)' = One(posting)
          \/ bsem' = bsem /\ One(posting) = 0 /\ One(posting)' = 1
      BY <1>2 DEF One
    <3>3. BtnRingLength = bsem + One(bpc = "pop") + One(posting)
      BY DEF RingInv
    <3>4. BtnRingLength' = bsem' + One(bpc = "pop")' + One(posting)'
      BY <1>0, <2>1, <3>1, <3>2, <3>3
    <3> QED BY <3>4 DEF RingInv
  <2>4. Queue!Press(e)
    BY <2>1, <2>2 DEF Queue!Press
  <2> QED BY <2>3, <2>4 DEF QueueStep, Queue!QueueNext
<1>3. CASE RelayMoves
  BY <1>1, <1>3 DEF RelayMoves, ringVars, taskVars
<1>4. CASE StartStopIsr
  <2>1. CASE UNCHANGED ringVars
    BY <1>1, <1>4, <2>1 DEF StartStopIsr, ringVars, taskVars
  <2>2. CASE Push(IF relay THEN "START" ELSE "STOP")
    <3>1. ~RingFull
      BY <1>4, NotFull DEF StartStopIsr
    <3> DEFINE e == IF relay THEN "START" ELSE "STOP"
    <3>2. e \in BtnEvents
      BY DEF BtnEvents
    <3>3. Enqueue(e) /\ bsem' = bsem + 1
      BY <2>2, <3>1 DEF Push
    <3>4. UNCHANGED <<btail, bpc, code>> /\ posting' = posting
      BY <1>4, <2>2 DEF StartStopIsr, Push, taskVars
    <3> QED BY <1>2, <3>1, <3>2, <3>3, <3>4
  <2> QED BY <1>4, <2>1, <2>2 DEF StartStopIsr
<1>5. CASE EmergencyIsr
  <2>1. ~RingFull
    BY <1>5, NotFull DEF EmergencyIsr
  <2> QED BY <1>2, <1>5, <2>1 DEF EmergencyIsr, Push, taskVars, BtnEvents
<1>6. CASE \E b \in LockoutButtons : LockoutEnds(b)
  BY <1>1, <1>6 DEF LockoutEnds, ringVars, taskVars
<1>7. CASE RestartIsr
  BY <1>1, <1>7 DEF RestartIsr, ringVars, taskVars
<1>8. CASE RestartWorker
  <2>1. ~RingFull
    BY <1>8, NotFull DEF RestartWorker
  <2>2. CASE UNCHANGED <<posting, bqueue, bhead>>
    BY <1>1, <1>8, <2>2 DEF RestartWorker, taskVars
  <2>3. CASE Enqueue("RESTART") /\ posting' = TRUE
    BY <1>2, <1>8, <2>1, <2>3 DEF RestartWorker, taskVars, BtnEvents
  <2> QED BY <1>8, <2>2, <2>3 DEF RestartWorker
<1>9. CASE RestartPosts
  <2>1. UNCHANGED <<bqueue, bhead, btail, bpc, code>> /\ bsem' = bsem + 1
        /\ posting = TRUE /\ posting' = FALSE
    BY <1>0, <1>9 DEF RestartPosts, taskVars, TypeOK
  <2>2. Waiting' = Waiting /\ BtnRingLength' = BtnRingLength /\ Taken' = Taken
    BY <2>1, RingSame DEF Taken
  <2>3. /\ One(bpc = "pop") \in {0, 1} /\ One(bpc = "pop")' = One(bpc = "pop")
        /\ One(posting) = 1 /\ One(posting)' = 0 /\ bsem' = bsem + 1
    BY <2>1 DEF One
  <2>4. BtnRingLength = bsem + One(bpc = "pop") + One(posting)
    BY DEF RingInv
  <2>5. BtnRingLength' = bsem' + One(bpc = "pop")' + One(posting)'
    BY <1>0, <2>2, <2>3, <2>4
  <2> QED BY <2>2, <2>5 DEF RingInv, QueueStep
<1>10. CASE SafetyWakes
  <2>1. UNCHANGED <<bqueue, bhead, btail, posting, code>> /\ bsem' = bsem - 1
        /\ bpc = "wait" /\ bpc' = "pop"
    BY <1>10 DEF SafetyWakes
  <2>2. Waiting' = Waiting /\ BtnRingLength' = BtnRingLength /\ Taken' = Taken
    BY <2>1, RingSame DEF Taken
  <2>3. /\ One(posting) \in {0, 1} /\ One(posting)' = One(posting)
        /\ One(bpc = "pop") = 0 /\ One(bpc = "pop")' = 1 /\ bsem' = bsem - 1
    BY <2>1 DEF One
  <2>4. BtnRingLength = bsem + One(bpc = "pop") + One(posting)
    BY DEF RingInv
  <2>5. BtnRingLength' = bsem' + One(bpc = "pop")' + One(posting)'
    BY <1>0, <2>2, <2>3, <2>4
  <2> QED BY <2>2, <2>5 DEF RingInv, QueueStep
<1>11. CASE SafetyPops
  <2>1. UNCHANGED <<bqueue, bhead, bsem, posting>> /\ btail' = After(btail)
        /\ code' = bqueue[btail] /\ bpc = "pop" /\ bpc' = "handle"
    BY <1>11 DEF SafetyPops
  <2>2. /\ One(posting) \in {0, 1} /\ One(posting)' = One(posting)
        /\ One(bpc = "pop") = 1 /\ One(bpc = "pop")' = 0 /\ bsem' = bsem
    BY <2>1 DEF One
  <2>3. BtnRingLength = bsem + One(bpc = "pop") + One(posting)
    BY DEF RingInv
  <2>4. BtnRingLength > 0
    BY <1>0, <2>2, <2>3
  <2>5. /\ Waiting # <<>> /\ Head(Waiting) = bqueue[btail]
        /\ Waiting' = Tail(Waiting) /\ BtnRingLength' = BtnRingLength - 1
    BY <1>0, <2>1, <2>4, Popped
  <2>6. BtnRingLength' = bsem' + One(bpc = "pop")' + One(posting)'
    BY <1>0, <2>2, <2>3, <2>5
  <2>7. Taken = <<>> /\ Taken' = <<Head(Waiting)>>
    BY <2>1, <2>5 DEF Taken
  <2>8. Queue!Take
    BY <2>5, <2>7 DEF Queue!Take
  <2> QED BY <2>6, <2>8 DEF RingInv, QueueStep, Queue!QueueNext
<1>12. CASE SafetyHandles
  <2>1. UNCHANGED <<bqueue, bhead, btail, bsem, posting>> /\ bpc = "handle" /\ bpc' = "wait"
    BY <1>12 DEF SafetyHandles, ringVars
  <2>2. Waiting' = Waiting /\ BtnRingLength' = BtnRingLength
    BY <2>1, RingSame
  <2>3. RingInv'
    BY <2>1, <2>2 DEF RingInv, One
  <2>4. Taken = <<code>> /\ Taken' = <<>>
    BY <2>1 DEF Taken
  <2>5. Queue!Handled
    BY <2>2, <2>4 DEF Queue!Handled
  <2> QED BY <2>3, <2>5 DEF QueueStep, Queue!QueueNext
<1>13. CASE HomingEnds
  BY <1>1, <1>13 DEF HomingEnds, ringVars, taskVars
<1>14. CASE UNCHANGED vars
  BY <1>1, <1>14 DEF vars, ringVars, taskVars
<1> QED BY <1>3, <1>4, <1>5, <1>6, <1>7, <1>8, <1>9, <1>10, <1>11, <1>12, <1>13, <1>14
        DEF Next, SafetyTask

LEMMA QueueInits == Init => RingInv /\ Queue!QueueInit
<1> SUFFICES ASSUME Init PROVE RingInv /\ Queue!QueueInit
  OBVIOUS
<1>1. TypeOK
  BY TypeInit DEF TypeInv
<1>2. bhead = 0 /\ btail = 0 /\ bsem = 0 /\ bpc = "wait" /\ ~posting
  BY DEF Init
<1>3. (0 - 0) % BTN_QUEUE_SIZE = 0
  BY Distance, Constants DEF Slots
<1>4. BtnRingLength = 0
  BY <1>2, <1>3 DEF BtnRingLength
<1>5. RingInv
  BY <1>2, <1>4 DEF RingInv, One
<1>6. Waiting = <<>>
  BY <1>1, <1>4, WaitingIs, EmptySeq
<1> QED BY <1>2, <1>5, <1>6 DEF Queue!QueueInit, Taken

(* While the safety task keeps up, the ring, its two indices and its         *)
(* semaphore implement the queue: every accepted press is handled once, in  *)
(* order, and nothing else is.                                              *)
THEOREM QueueImplemented == KeepsUp => (Spec => ImplementsQueue)
<1> SUFFICES ASSUME KeepsUp PROVE Spec => ImplementsQueue
  OBVIOUS
<1>1. TypeInv /\ RingInv /\ [Next]_vars => RingInv' /\ [Queue!QueueNext]_<<Waiting, Taken>>
  BY QueueKept DEF QueueStep
<1>2. TypeInv /\ [Next]_vars => TypeInv'
  BY TypeStep
<1> QED BY <1>1, <1>2, TypeInit, QueueInits, PTL DEF Spec, ImplementsQueue, Queue!QueueSpec


----------------------------------------------------------------------------
(* The contact. *)

NoContacts(s) == \A i \in 1 .. Len(s) : s[i] \notin ContactEvents

LastIs(s, c) ==
  \A i \in 1 .. Len(s) :
    /\ s[i] \in ContactEvents
    /\ \A j \in i + 1 .. Len(s) : s[j] \notin ContactEvents
    => s[i] = c

InHand ==
  IF bpc = "handle" /\ code \in ContactEvents THEN code = Level
  ELSE state = "RUNNING" => relay

LEMMA AppendContact ==
  ASSUME NEW s \in Seq(BtnEvents), NEW c \in ContactEvents
  PROVE  LastIs(Append(s, c), c) /\ ~NoContacts(Append(s, c))
<1>1. c \in BtnEvents
  BY DEF BtnEvents, ContactEvents
<1>2. Len(s) \in Nat /\ Len(Append(s, c)) = Len(s) + 1 /\ Append(s, c)[Len(s) + 1] = c
  BY <1>1, AppendProperties, LenProperties
<1>3. ~NoContacts(Append(s, c))
  BY <1>2 DEF NoContacts
<1>4. ASSUME NEW i \in 1 .. Len(s) + 1,
             \A j \in i + 1 .. Len(s) + 1 : Append(s, c)[j] \notin ContactEvents
      PROVE  Append(s, c)[i] = c
  <2>1. i = Len(s) + 1
    BY <1>2, <1>4
  <2> QED BY <1>2, <2>1
<1> QED BY <1>2, <1>3, <1>4 DEF LastIs

LEMMA AppendOther ==
  ASSUME NEW s \in Seq(BtnEvents), NEW e \in BtnEvents \ ContactEvents, NEW c
  PROVE  /\ LastIs(s, c) => LastIs(Append(s, e), c)
         /\ NoContacts(Append(s, e)) => NoContacts(s)
<1>1. /\ Len(s) \in Nat /\ Len(Append(s, e)) = Len(s) + 1
      /\ Append(s, e)[Len(s) + 1] = e
      /\ \A i \in 1 .. Len(s) : Append(s, e)[i] = s[i]
  BY AppendProperties, LenProperties
<1>2. NoContacts(Append(s, e)) => NoContacts(s)
  BY <1>1 DEF NoContacts
<1>3. ASSUME LastIs(s, c), NEW i \in 1 .. Len(s) + 1, Append(s, e)[i] \in ContactEvents,
             \A j \in i + 1 .. Len(s) + 1 : Append(s, e)[j] \notin ContactEvents
      PROVE  Append(s, e)[i] = c
  <2>1. i \in 1 .. Len(s)
    BY <1>1, <1>3
  <2>2. \A j \in i + 1 .. Len(s) : s[j] \notin ContactEvents
    BY <1>1, <1>3, <2>1
  <2> QED BY <1>1, <1>3, <2>1, <2>2 DEF LastIs
<1> QED BY <1>1, <1>2, <1>3 DEF LastIs

LEMMA TailContacts ==
  ASSUME NEW s \in Seq(BtnEvents), s # <<>>, NEW c, LastIs(s, c)
  PROVE  /\ LastIs(Tail(s), c)
         /\ NoContacts(Tail(s)) =>
              IF Head(s) \in ContactEvents THEN Head(s) = c ELSE NoContacts(s)
<1>1. /\ Len(s) \in Nat /\ Len(s) > 0 /\ Len(Tail(s)) = Len(s) - 1
      /\ Head(s) = s[1]
      /\ \A i \in 1 .. Len(s) - 1 : Tail(s)[i] = s[i + 1]
  BY HeadTailProperties, LenProperties, EmptySeq
<1>2. ASSUME NEW i \in 1 .. Len(s) - 1, Tail(s)[i] \in ContactEvents,
             \A j \in i + 1 .. Len(s) - 1 : Tail(s)[j] \notin ContactEvents
      PROVE  Tail(s)[i] = c
  <2>1. i + 1 \in 1 .. Len(s) /\ s[i + 1] \in ContactEvents
    BY <1>1, <1>2
  <2>2. ASSUME NEW k \in (i + 1) + 1 .. Len(s) PROVE s[k] \notin ContactEvents
    <3>1. k - 1 \in i + 1 .. Len(s) - 1 /\ (k - 1) + 1 = k /\ k - 1 \in 1 .. Len(s) - 1
      BY <1>1
    <3> QED BY <1>1, <1>2, <3>1
  <2>3. s[i + 1] = c
    BY <2>1, <2>2 DEF LastIs
  <2> QED BY <1>1, <2>3
<1>3. ASSUME NoContacts(Tail(s)), NEW k \in 2 .. Len(s) PROVE s[k] \notin ContactEvents
  <2>1. k - 1 \in 1 .. Len(s) - 1 /\ (k - 1) + 1 = k
    BY <1>1
  <2> QED BY <1>1, <1>3, <2>1 DEF NoContacts
<1>4. ASSUME NoContacts(Tail(s)), Head(s) \in ContactEvents PROVE Head(s) = c
  <2>1. 1 \in 1 .. Len(s) /\ \A j \in 1 + 1 .. Len(s) : s[j] \notin ContactEvents
    BY <1>1, <1>3, <1>4
  <2> QED BY <1>1, <1>4, <2>1 DEF LastIs
<1>5. ASSUME NoContacts(Tail(s)), Head(s) \notin ContactEvents PROVE NoContacts(s)
  <2> SUFFICES ASSUME NEW i \in 1 .. Len(s) PROVE s[i] \notin ContactEvents
    BY DEF NoContacts
  <2>1. i = 1 \/ i \in 2 .. Len(s)
    BY <1>1
  <2> QED BY <1>1, <1>3, <1>5, <2>1
<1>6. LastIs(Tail(s), c)
  BY <1>1, <1>2 DEF LastIs
<1> QED BY <1>4, <1>5, <1>6

Contacts == LastIs(Waiting, Level) /\ (NoContacts(Waiting) => InHand)

LEMMA ContactIs ==
  ASSUME TypeOK
  PROVE  ContactInv <=> (~edge /\ ~missed => Contacts)
BY WaitingIs DEF ContactInv, Contacts, LastIs, NoContacts, InHand

LEMMA ContactIsNext ==
  ASSUME TypeOK'
  PROVE  ContactInv' <=> (~edge' /\ ~missed' => Contacts')
BY ContactIs, PTL

LEMMA ContactKept ==
  ASSUME KeepsUp, TypeInv, RingInv, ContactInv, [Next]_vars
  PROVE  ContactInv'
<1> SUFFICES ASSUME ~edge', ~missed' PROVE Contacts'
  BY TypeStep, ContactIsNext DEF TypeInv
<1>0. TypeOK /\ Waiting \in Seq(BtnEvents) /\ (~edge /\ ~missed => Contacts)
  BY WaitingIs, ContactIs DEF TypeInv
<1>1. ASSUME UNCHANGED <<bqueue, bhead, btail, relay>>, ~edge, ~missed,
             InHand => InHand'
      PROVE  Contacts'
  <2>1. Waiting' = Waiting /\ Level' = Level
    BY <1>1, RingSame DEF Level
  <2> QED BY <1>0, <1>1, <2>1 DEF Contacts, LastIs, NoContacts
<1>2. ASSUME NEW e \in BtnEvents \ ContactEvents, Enqueue(e), ~RingFull, ~edge, ~missed,
             UNCHANGED <<btail, relay, bpc, code, state>>
      PROVE  Contacts'
  <2>1. Waiting' = Append(Waiting, e)
    BY <1>0, <1>2, Pushed
  <2>2. Level' = Level /\ (InHand => InHand')
    BY <1>2 DEF Level, InHand
  <2>3. Contacts
    BY <1>0, <1>2
  <2> QED BY <1>0, <2>1, <2>2, <2>3, AppendOther DEF Contacts
<1>3. CASE RelayMoves
  BY <1>3 DEF RelayMoves
<1>4. CASE StartStopIsr
  <2>1. CASE missed' = TRUE
    BY <2>1
  <2>2. CASE Push(IF relay THEN "START" ELSE "STOP")
    <3>1. ~RingFull
      BY <1>4, NotFull DEF StartStopIsr
    <3>2. Level \in ContactEvents /\ Level \in BtnEvents
      BY DEF Level, ContactEvents, BtnEvents
    <3>3. Enqueue(Level) /\ btail' = btail
      BY <2>2 DEF Push, Level
    <3>4. Waiting' = Append(Waiting, Level)
      BY <1>0, <3>1, <3>2, <3>3, Pushed
    <3>5. Level' = Level
      BY <1>4 DEF StartStopIsr, Level
    <3> QED BY <1>0, <3>2, <3>4, <3>5, AppendContact DEF Contacts
  <2> QED BY <1>4, <2>1, <2>2 DEF StartStopIsr
<1>5. CASE EmergencyIsr
  <2>1. ~RingFull
    BY <1>5, NotFull DEF EmergencyIsr
  <2>2. "EMERGENCY" \in BtnEvents \ ContactEvents
    BY DEF BtnEvents, ContactEvents
  <2> QED BY <1>2, <1>5, <2>1, <2>2
          DEF EmergencyIsr, Push, taskVars, contactVars, sysVars
<1>6. CASE \E b \in LockoutButtons : LockoutEnds(b)
  BY <1>1, <1>6 DEF LockoutEnds, ringVars, taskVars, contactVars, sysVars, InHand, Level
<1>7. CASE RestartIsr
  BY <1>1, <1>7 DEF RestartIsr, ringVars, taskVars, contactVars, sysVars, InHand, Level
<1>8. CASE RestartWorker
  <2>1. ~RingFull
    BY <1>8, NotFull DEF RestartWorker
  <2>2. CASE UNCHANGED <<posting, bqueue, bhead>>
    BY <1>1, <1>8, <2>2 DEF RestartWorker, taskVars, contactVars, sysVars, InHand, Level
  <2>3. CASE Enqueue("RESTART") /\ posting' = TRUE
    <3>1. "RESTART" \in BtnEvents \ ContactEvents
      BY DEF BtnEvents, ContactEvents
    <3> QED BY <1>2, <1>8, <2>1, <2>3, <3>1 DEF RestartWorker, taskVars, contactVars, sysVars
  <2> QED BY <1>8, <2>2, <2>3 DEF RestartWorker
<1>9. CASE RestartPosts
  BY <1>1, <1>9 DEF RestartPosts, taskVars, contactVars, sysVars, InHand, Level
<1>10. CASE SafetyWakes
  <2>1. /\ UNCHANGED <<bqueue, bhead, btail, relay, state, edge, missed>>
        /\ bpc = "wait" /\ bpc' = "pop"
    BY <1>10 DEF SafetyWakes, contactVars, sysVars
  <2>2. InHand => InHand'
    BY <2>1 DEF InHand
  <2> QED BY <1>1, <2>1, <2>2
<1>11. CASE SafetyPops
  <2>1. /\ UNCHANGED <<bqueue, bhead, bsem, posting, relay, state, edge, missed>>
        /\ btail' = After(btail)
        /\ code' = bqueue[btail] /\ bpc = "pop" /\ bpc' = "handle"
    BY <1>11 DEF SafetyPops, contactVars, sysVars
  <2>2. BtnRingLength > 0
    <3>1. One(posting) \in {0, 1} /\ One(bpc = "pop") = 1
      BY <2>1 DEF One
    <3>2. BtnRingLength = bsem + One(bpc = "pop") + One(posting)
      BY DEF RingInv
    <3> QED BY <1>0, <3>1, <3>2 DEF TypeOK
  <2>3. /\ Waiting # <<>> /\ Head(Waiting) = code' /\ Waiting' = Tail(Waiting)
    BY <1>0, <2>1, <2>2, Popped
  <2>4. Level' = Level /\ Contacts
    BY <1>0, <2>1 DEF Level
  <2>5. /\ LastIs(Waiting', Level')
        /\ NoContacts(Waiting') =>
             IF code' \in ContactEvents THEN code' = Level' ELSE NoContacts(Waiting)
    BY <1>0, <2>3, <2>4, TailContacts DEF Contacts
  <2>6. ASSUME NoContacts(Waiting') PROVE InHand'
    <3>1. CASE code' \in ContactEvents
      BY <2>1, <2>5, <2>6, <3>1 DEF InHand
    <3>2. CASE code' \notin ContactEvents
      <4>1. InHand
        BY <2>4, <2>5, <2>6, <3>2 DEF Contacts
      <4> QED BY <2>1, <3>2, <4>1 DEF InHand
    <3> QED BY <3>1, <3>2
  <2> QED BY <2>5, <2>6 DEF Contacts
<1>12. CASE SafetyHandles
  <2>1. /\ UNCHANGED <<bqueue, bhead, btail, relay, edge, missed>>
        /\ bpc = "handle" /\ bpc' = "wait"
        /\ \E action \in {"NONE", "SPAWN_HOMING", "HARD_STOP"} : HandleBtnEvent(code, action)
    BY <1>12 DEF SafetyHandles, contactVars, ringVars
  <2>2. ASSUME InHand, state' = "RUNNING" PROVE relay
    <3>1. PICK action : HandleBtnEvent(code, action)
      BY <2>1
    <3>2. code = "START" \/ (state = "RUNNING" /\ code \notin ContactEvents)
      <4>1. CASE code = "STOP" /\ HandleStop(action)
        BY <2>2, <4>1 DEF HandleStop
      <4>2. CASE code = "EMERGENCY" /\ Latch("ESTOP", action)
        BY <2>2, <4>2 DEF Latch, ContactEvents
      <4>3. CASE code = "RESTART" /\ HandleRestart(action)
        BY <2>2, <4>3 DEF HandleRestart, sysVars, ContactEvents
      <4> QED BY <3>1, <4>1, <4>2, <4>3 DEF HandleBtnEvent
    <3> QED BY <2>1, <2>2, <3>2 DEF InHand, Level, ContactEvents
  <2>3. InHand => InHand'
    BY <2>1, <2>2 DEF InHand
  <2> QED BY <1>1, <2>1, <2>3
<1>13. CASE HomingEnds
  <2>1. /\ UNCHANGED <<bqueue, bhead, btail, relay, edge, missed, bpc, code>>
        /\ state' # "RUNNING"
    BY <1>13 DEF HomingEnds, NotifyHomingComplete, ringVars, taskVars, contactVars
  <2>2. InHand => InHand'
    BY <2>1 DEF InHand, Level
  <2> QED BY <1>1, <2>1, <2>2
<1>14. CASE UNCHANGED vars
  BY <1>1, <1>14 DEF vars, ringVars, taskVars, contactVars, sysVars, InHand, Level
<1> QED BY <1>3, <1>4, <1>5, <1>6, <1>7, <1>8, <1>9, <1>10, <1>11, <1>12, <1>13, <1>14
        DEF Next, SafetyTask

LEMMA ContactInit == Init => ContactInv
<1> SUFFICES ASSUME Init PROVE ContactInv
  OBVIOUS
<1>1. TypeOK
  BY TypeInit DEF TypeInv
<1>2. Waiting = <<>>
  BY QueueInits DEF Queue!QueueInit
<1>3. Len(Waiting) = 0
  BY <1>2
<1>4. LastIs(Waiting, Level) /\ InHand
  BY <1>3 DEF LastIs, InHand, Init, SysInit
<1> QED BY <1>1, <1>4, ContactIs DEF Contacts

(* While the safety task keeps up: every event in the ring has its token,   *)
(* and the last event of the contact, or the state, says where the contact  *)
(* is.                                                                      *)
THEOREM ButtonInvariant == KeepsUp => (Spec => []ButtonInv)
<1> SUFFICES ASSUME KeepsUp PROVE Spec => []ButtonInv
  OBVIOUS
<1> DEFINE IInv == TypeInv /\ RingInv /\ ContactInv
<1>1. Init => IInv
  BY TypeInit, QueueInits, ContactInit
<1>2. IInv /\ [Next]_vars => IInv'
  BY TypeStep, QueueKept, ContactKept
<1>3. IInv => ButtonInv
  BY DEF TypeInv, ButtonInv
<1> QED BY <1>1, <1>2, <1>3, PTL DEF Spec

(* The machine runs only with the contact closed, once every event is       *)
(* handled, unless the lockout has dropped an edge: for every ring that is  *)
(* longer than what may be outstanding.                                     *)
THEOREM RunningIsClosed == KeepsUp => (Spec => []RunsOnlyIfClosed)
<1> SUFFICES ASSUME KeepsUp PROVE Spec => []RunsOnlyIfClosed
  OBVIOUS
<1>1. ASSUME TypeOK, ButtonInv PROVE RunsOnlyIfClosed
  <2> SUFFICES ASSUME state = "RUNNING", Outstanding = 0, ~missed PROVE relay
    BY DEF RunsOnlyIfClosed
  <2>1. /\ One(bpc # "wait") \in {0, 1} /\ One(edge) \in {0, 1} /\ One(bpc = "pop") \in {0, 1}
        /\ One(settling) \in {0, 1} /\ One(posting) \in {0, 1} /\ bsem \in Nat
    BY <1>1 DEF One, TypeOK
  <2>2. bsem = 0 /\ One(bpc # "wait") = 0 /\ One(edge) = 0 /\ One(posting) = 0
    BY <2>1 DEF Outstanding
  <2>3. bpc = "wait" /\ ~edge
    BY <2>2 DEF One
  <2>4. One(bpc = "pop") = 0
    BY <2>3 DEF One
  <2>5. BtnRingLength = bsem + One(bpc = "pop") + One(posting)
    BY <1>1 DEF ButtonInv, RingInv
  <2>6. BtnRingLength = 0
    BY <2>2, <2>4, <2>5
  <2>7. Contacts /\ Len(Waiting) = 0
    BY <1>1, <2>3, <2>6, ContactIs, WaitingIs DEF ButtonInv
  <2>8. InHand
    BY <2>7 DEF Contacts, NoContacts
  <2> QED BY <2>3, <2>8 DEF InHand
<1> QED BY <1>1, TypeCorrect, ButtonInvariant, PTL

=============================================================================
