----------------------- MODULE HomingInvariant_proofs -----------------------
(* The proofs that HomingInv, LateInv and ZeroInv are inductive, and with    *)
(* them that a machine restarted only at rest is homed when it is ready to   *)
(* run, implements the state diagram, stays under control after a hard stop  *)
(* and has its encoder zeros.                                               *)
EXTENDS HomingInvariant, HomingCycle_proofs

----------------------------------------------------------------------------
(* Counting the axes that are still to reach their limit. *)

LEMMA UnreachedFinite ==
  /\ IsFiniteSet(Unreached)
  /\ Cardinality(Unreached) \in Nat
  /\ \A k \in Int : /\ IsFiniteSet(UnreachedBelow(k))
                    /\ Cardinality(UnreachedBelow(k)) \in Nat
<1>1. IsFiniteSet(Motors)
  BY FS_Interval, MotorCountAssumption DEF Motors
<1>2. IsFiniteSet(Unreached)
  BY <1>1, FS_Subset DEF Unreached
<1>3. ASSUME NEW k \in Int PROVE IsFiniteSet(UnreachedBelow(k))
  BY <1>2, FS_Subset DEF UnreachedBelow
<1> QED BY <1>2, <1>3, FS_CardinalityType

LEMMA NoneBelowFirst == Cardinality(UnreachedBelow(0)) = 0
<1>1. UnreachedBelow(0) = {}
  BY MotorCountAssumption DEF UnreachedBelow, Unreached, Motors
<1> QED BY <1>1, FS_EmptySet

LEMMA CountNext ==
  ASSUME NEW i \in Motors
  PROVE  /\ i \in Unreached =>
              Cardinality(UnreachedBelow(i + 1)) = Cardinality(UnreachedBelow(i)) + 1
         /\ i \notin Unreached => UnreachedBelow(i + 1) = UnreachedBelow(i)
<1>1. i \in Int
  BY MotorCountAssumption DEF Motors
<1>2. ASSUME i \in Unreached
      PROVE  UnreachedBelow(i + 1) = UnreachedBelow(i) \cup {i}
  BY <1>1, <1>2, MotorCountAssumption DEF UnreachedBelow, Unreached, Motors
<1>3. i \notin UnreachedBelow(i)
  BY <1>1 DEF UnreachedBelow
<1>4. ASSUME i \notin Unreached
      PROVE  UnreachedBelow(i + 1) = UnreachedBelow(i)
  BY <1>1, <1>4, MotorCountAssumption DEF UnreachedBelow, Unreached, Motors
<1> QED BY <1>1, <1>2, <1>3, <1>4, FS_AddElement, UnreachedFinite

LEMMA AllBelowLast ==
  LastMotor \in Int /\ UnreachedBelow(LastMotor + 1) = Unreached
BY MotorCountAssumption DEF LastMotor, UnreachedBelow, Unreached, Motors

LEMMA NoneLeft ==
  ASSUME Cardinality(Unreached) <= 0
  PROVE  Unreached = {}
BY UnreachedFinite, FS_EmptySet

----------------------------------------------------------------------------
(* Steps that touch neither the operating state nor a homing task. *)

LEMMA ProgressSame ==
  ASSUME NEW t, UNCHANGED <<limit_reached, homed, taskVars>>,
         NeedIsRight(t), HomedIsRight(t)
  PROVE  NeedIsRight(t)' /\ HomedIsRight(t)'
<1>1. Unreached' = Unreached
  BY DEF Unreached
<1>2. UnreachedBelow(hi[t])' = UnreachedBelow(hi[t])
  BY <1>1 DEF UnreachedBelow, taskVars
<1>3. NoneReached' = NoneReached
  BY DEF NoneReached
<1>4. NeedIsRight(t)'
  BY <1>1, <1>2, <1>3 DEF NeedIsRight, taskVars
<1>5. HomedIsRight(t)'
  BY DEF HomedIsRight, taskVars
<1> QED BY <1>4, <1>5

LEMMA Untouched ==
  ASSUME HomingInv, UNCHANGED <<sysVars, spc, taskVars>>
  PROVE  HomingInv'
<1>1. \A t \in Tasks : NeedIsRight(t)' /\ HomedIsRight(t)'
  BY ProgressSame DEF HomingInv, sysVars
<1>2. NoHomingTask' = NoHomingTask /\ NoneReached' = NoneReached
  BY DEF NoHomingTask, NoneReached, sysVars, taskVars
<1>3. AtMostOneHomingTask' /\ ReadyIsHomed'
  BY DEF HomingInv, AtMostOneHomingTask, ReadyIsHomed, sysVars, taskVars
<1> QED BY <1>1, <1>2, <1>3 DEF HomingInv, HomingUnderWay, sysVars

LEMMA NoTaskNoNeed ==
  ASSUME NEW t \in Tasks, hpc[t] = "none"
  PROVE  NeedIsRight(t) /\ HomedIsRight(t)
BY DEF NeedIsRight, HomedIsRight, BeforeStep0, InStep0, InSteps1And2,
       AfterStep2

(* A step with no homing task before or after it. *)
LEMMA WithoutTask ==
  ASSUME NoHomingTask',
         spc' = "spawn" => NoneReached',
         spc' = "spawn" => state' \in {"HOMING", "ESTOP"},
         ReadyIsHomed'
  PROVE  HomingInv'
<1>1. \A t \in Tasks : hpc'[t] = "none"
  BY DEF NoHomingTask
<1>2. ASSUME NEW t \in Tasks PROVE NeedIsRight(t)' /\ HomedIsRight(t)'
  BY <1>1 DEF NeedIsRight, HomedIsRight, BeforeStep0, InStep0, InSteps1And2,
              AfterStep2
<1>3. AtMostOneHomingTask'
  BY <1>1 DEF AtMostOneHomingTask
<1> QED BY <1>2, <1>3 DEF HomingInv, HomingUnderWay

LEMMA SafetyEventInv ==
  ASSUME ORDERLY_RESTART, TypeOK, HomingInv, NEW b \in BtnEvents, SafetyEvent(b)
  PROVE  HomingInv'
<1>1. UNCHANGED taskVars /\ spc = "wait"
  BY DEF SafetyEvent
<1>2. CASE b = "RESTART" /\ HandleRestart("SPAWN_HOMING")
  <2>1. NoHomingTask
    BY <1>2 DEF SafetyEvent, MayPress, AtRest
  <2>2. NoHomingTask'
    BY <1>1, <2>1 DEF NoHomingTask, taskVars
  <2>3. NoneReached'
    BY <1>2 DEF HandleRestart, ResetHoming, NoneReached
  <2>4. state' = "HOMING"
    BY <1>2 DEF HandleRestart
  <2> QED BY <2>2, <2>3, <2>4, WithoutTask DEF ReadyIsHomed, ReadyStates
<1>3. ASSUME UNCHANGED <<limit_reached, homed>>, spc' # "spawn",
             \/ UNCHANGED state
             \/ state' = "ESTOP"
             \/ state \in ReadyStates /\ state' \in ReadyStates
      PROVE  HomingInv'
  <2>1. \A t \in Tasks : NeedIsRight(t)' /\ HomedIsRight(t)'
    BY <1>1, <1>3, ProgressSame DEF HomingInv
  <2>2. NoHomingTask' <=> NoHomingTask
    BY <1>1 DEF NoHomingTask, taskVars
  <2>3. AtMostOneHomingTask'
    BY <1>1 DEF HomingInv, AtMostOneHomingTask, taskVars
  <2>4. HomingUnderWay' => state' \in {"HOMING", "ESTOP"}
    BY <1>3, <2>2 DEF HomingInv, HomingUnderWay, ReadyStates
  <2>5. ReadyIsHomed'
    BY <1>3 DEF HomingInv, ReadyIsHomed, ReadyStates
  <2> QED BY <1>3, <2>1, <2>3, <2>4, <2>5 DEF HomingInv
<1>4. CASE HandleBtnEvent(b, "NONE") /\ UNCHANGED safetyVars
  <2>1. CASE HandleStart("NONE")
    BY <1>1, <1>3, <1>4, <2>1
       DEF HandleStart, StartableStates, ReadyStates, safetyVars
  <2>2. CASE HandleStop("NONE")
    BY <1>1, <1>3, <1>4, <2>2 DEF HandleStop, safetyVars
  <2>3. CASE Latch("ESTOP", "NONE")
    BY <1>1, <1>3, <1>4, <2>3 DEF Latch, safetyVars
  <2>4. CASE HandleRestart("NONE")
    BY <1>1, <1>3, <1>4, <2>4 DEF HandleRestart, sysVars, safetyVars
  <2> QED BY <1>4, <2>1, <2>2, <2>3, <2>4 DEF HandleBtnEvent
<1>5. CASE HandleBtnEvent(b, "SPAWN_HOMING")
  BY <1>2, <1>5 DEF HandleBtnEvent, HandleStart, HandleStop, Latch
<1>6. CASE HandleBtnEvent(b, "HARD_STOP") /\ spc' = "stop"
  <2>1. CASE HandleStop("HARD_STOP")
    BY <1>3, <1>6, <2>1 DEF HandleStop, ReadyStates
  <2>2. CASE Latch("ESTOP", "HARD_STOP")
    BY <1>3, <1>6, <2>2 DEF Latch
  <2> QED BY <1>6, <2>1, <2>2 DEF HandleBtnEvent, HandleStart, HandleRestart
<1> QED BY <1>4, <1>5, <1>6 DEF SafetyEvent

LEMMA SafetyTaskInv ==
  ASSUME TypeOK, HomingInv, SafetyTask
  PROVE  HomingInv'
<1>1. ASSUME NEW t \in Tasks, SafetySpawns(t) PROVE HomingInv'
  <2>1. NoHomingTask /\ NoneReached /\ state \in {"HOMING", "ESTOP"}
    BY <1>1 DEF SafetySpawns, HomingInv, HomingUnderWay
  <2>2. \A u \in Tasks : hpc'[u] = IF u = t THEN "flush" ELSE "none"
    BY <1>1, <2>1 DEF SafetySpawns, NoHomingTask, TypeOK, HomingTypeOK
  <2>3. UNCHANGED sysVars /\ spc' = "wait"
    BY <1>1 DEF SafetySpawns
  <2>4. NoneReached'
    BY <2>1, <2>3 DEF NoneReached, sysVars
  <2>5. ASSUME NEW u \in Tasks PROVE NeedIsRight(u)' /\ HomedIsRight(u)'
    BY <2>2, <2>4 DEF NeedIsRight, HomedIsRight, BeforeStep0, InStep0,
                      InSteps1And2, AfterStep2
  <2>6. AtMostOneHomingTask'
    BY <2>2 DEF AtMostOneHomingTask
  <2>7. ReadyIsHomed'
    BY <2>1, <2>3 DEF ReadyIsHomed, ReadyStates, sysVars
  <2> QED BY <2>1, <2>3, <2>5, <2>6, <2>7 DEF HomingInv, sysVars
<1>2. ASSUME SafetySpawnFails PROVE HomingInv'
  <2>1. NoHomingTask'
    BY <1>2 DEF SafetySpawnFails, HomingInv, NoHomingTask, taskVars
  <2>2. ReadyIsHomed'
    BY <1>2 DEF SafetySpawnFails, HomingInv, ReadyIsHomed, sysVars
  <2> QED BY <1>2, <2>1, <2>2, WithoutTask DEF SafetySpawnFails
<1>3. ASSUME SafetyStops PROVE HomingInv'
  <2>1. UNCHANGED <<sysVars, taskVars>> /\ spc = "stop" /\ spc' # "spawn"
    BY <1>3 DEF SafetyStops, SafetyNextDevice
  <2>2. \A t \in Tasks : NeedIsRight(t)' /\ HomedIsRight(t)'
    BY <2>1, ProgressSame DEF HomingInv, sysVars
  <2>3. NoHomingTask' = NoHomingTask
    BY <2>1 DEF NoHomingTask, taskVars
  <2>4. AtMostOneHomingTask' /\ ReadyIsHomed'
    BY <2>1 DEF HomingInv, AtMostOneHomingTask, ReadyIsHomed, sysVars, taskVars
  <2> QED BY <2>1, <2>2, <2>3, <2>4 DEF HomingInv, HomingUnderWay, sysVars
<1> QED BY <1>1, <1>2, <1>3 DEF SafetyTask

----------------------------------------------------------------------------
(* Steps of the homing task. *)

LEMMA TaskFrame ==
  ASSUME TypeOK, HomingInv, NEW t \in Tasks, hpc[t] # "none",
         UNCHANGED <<state, spc>>,
         \A u \in Tasks : u # t => hpc'[u] = hpc[u],
         NeedIsRight(t)', HomedIsRight(t)'
  PROVE  HomingInv'
<1>1. spc # "spawn" /\ state \in {"HOMING", "ESTOP"}
  BY DEF HomingInv, NoHomingTask, HomingUnderWay
<1>2. \A u \in Tasks : u # t => hpc[u] = "none" /\ hpc'[u] = "none"
  BY DEF HomingInv, AtMostOneHomingTask
<1>3. ASSUME NEW u \in Tasks PROVE NeedIsRight(u)' /\ HomedIsRight(u)'
  BY <1>2 DEF NeedIsRight, HomedIsRight, BeforeStep0, InStep0, InSteps1And2,
              AfterStep2
<1>4. AtMostOneHomingTask'
  BY <1>2 DEF AtMostOneHomingTask
<1>5. ReadyIsHomed'
  BY <1>1 DEF ReadyIsHomed, ReadyStates
<1> QED BY <1>1, <1>3, <1>4, <1>5 DEF HomingInv

LEMMA LoopAt ==
  ASSUME TypeOK, NEW t \in Tasks, NEW again, NEW done, Loop(t, again, done)
  PROVE  /\ hi[t] = LastMotor => hpc'[t] = done /\ hi'[t] = 0
         /\ hi[t] # LastMotor => hpc'[t] = again /\ hi'[t] = hi[t] + 1
         /\ \A u \in Tasks : u # t => hpc'[u] = hpc[u]
BY DEF Loop, TypeOK, HomingTypeOK

LEMMA GotoAt ==
  ASSUME TypeOK, NEW t \in Tasks, NEW pc, Goto(t, pc)
  PROVE  /\ hpc'[t] = pc /\ hi' = hi
         /\ \A u \in Tasks : u # t => hpc'[u] = hpc[u]
BY DEF Goto, TypeOK, HomingTypeOK

(* The limit flags, and with them the sets that are counted, stay. *)
LEMMA CountsSame ==
  ASSUME UNCHANGED limit_reached
  PROVE  /\ Unreached' = Unreached
         /\ \A k : {m \in Unreached' : m < k} = UnreachedBelow(k)
BY DEF Unreached, UnreachedBelow

(* On to a pc that asks no more than the present one. *)
LEMMA GoesOn ==
  ASSUME TypeOK, HomingInv, NEW t \in Tasks, UNCHANGED <<limit_reached, homed>>,
         need'[t] = need[t],
         \/ hpc'[t] = "none"
         \/ hi'[t] = hi[t] /\ {hpc[t], hpc'[t]} \subseteq InStep0
         \/ {hpc[t], hpc'[t]} \subseteq InSteps1And2
         \/ /\ hpc[t] \in InSteps1And2 /\ hpc'[t] = "abort3"
            /\ need[t] <= 0
         \/ /\ {hpc[t], hpc'[t]} \subseteq AfterStep2
            /\ hpc'[t] \notin {"homed4", "notify4"}
  PROVE  NeedIsRight(t)' /\ HomedIsRight(t)'
<1>1. Unreached' = Unreached /\ \A k : {m \in Unreached' : m < k} = UnreachedBelow(k)
  BY CountsSame
<1>2. NeedIsRight(t)
  BY DEF HomingInv
<1>3. CASE hpc'[t] = "none"
  BY <1>3 DEF NeedIsRight, HomedIsRight, BeforeStep0, InStep0, InSteps1And2,
              AfterStep2
<1>4. CASE hi'[t] = hi[t] /\ {hpc[t], hpc'[t]} \subseteq InStep0
  <2>1. UnreachedBelow(hi[t])' = UnreachedBelow(hi[t])
    BY <1>1, <1>4 DEF UnreachedBelow
  <2>2. /\ need[t] = Cardinality(UnreachedBelow(hi[t]))
        /\ \A m \in Motors : m >= hi[t] => m \in Unreached
    BY <1>2, <1>4 DEF NeedIsRight
  <2>3. /\ need'[t] = Cardinality(UnreachedBelow(hi[t]))'
        /\ \A m \in Motors : m >= hi'[t] => m \in Unreached'
    BY <1>1, <1>4, <2>1, <2>2
  <2>4. hpc'[t] \in InStep0
    BY <1>4
  <2> QED BY <2>3, <2>4 DEF NeedIsRight, HomedIsRight, BeforeStep0, InStep0,
                            InSteps1And2, AfterStep2
<1>5. CASE {hpc[t], hpc'[t]} \subseteq InSteps1And2
  <2>1. need'[t] = Cardinality(Unreached)'
    BY <1>1, <1>2, <1>5 DEF NeedIsRight
  <2>2. hpc'[t] \in InSteps1And2
    BY <1>5
  <2> QED BY <2>1, <2>2 DEF NeedIsRight, HomedIsRight, BeforeStep0, InStep0,
                            InSteps1And2, AfterStep2
<1>6. CASE hpc[t] \in InSteps1And2 /\ hpc'[t] = "abort3" /\ need[t] <= 0
  <2>1. Unreached' = {}
    BY <1>1, <1>2, <1>6, NoneLeft DEF NeedIsRight
  <2> QED BY <1>6, <2>1 DEF NeedIsRight, HomedIsRight, BeforeStep0, InStep0,
                            InSteps1And2, AfterStep2
<1>7. CASE /\ {hpc[t], hpc'[t]} \subseteq AfterStep2
           /\ hpc'[t] \notin {"homed4", "notify4"}
  <2>1. Unreached' = {}
    BY <1>1, <1>2, <1>7 DEF NeedIsRight
  <2> QED BY <1>7, <2>1 DEF NeedIsRight, HomedIsRight, BeforeStep0, InStep0,
                            InSteps1And2, AfterStep2
<1> QED BY <1>3, <1>4, <1>5, <1>6, <1>7

(* After the last home command, wait2 if events are needed and step 3 if not. *)
LEMMA AfterWaitAt ==
  ASSUME NEW n \in Int
  PROVE  AfterWait(n) = "wait2" \/ (AfterWait(n) = "abort3" /\ n <= 0)
BY DEF AfterWait

(* Step 0: an axis that is not at its limit is counted. *)
LEMMA ReadsInv ==
  ASSUME TypeOK, HomingInv, NEW t \in Tasks, HomingReads(t)
  PROVE  NeedIsRight(t)' /\ HomedIsRight(t)'
<1> DEFINE i == hi[t]
<1>1. i \in Motors /\ i \in Int /\ need[t] \in Int /\ LastMotor \in Int
  BY MotorCountAssumption DEF TypeOK, HomingTypeOK, Motors, LastMotor
<1>2. hpc[t] \in InStep0 /\ UNCHANGED <<limit_reached, homed>>
  BY DEF HomingReads, InStep0, sysVars
<1>3. /\ need[t] = Cardinality(UnreachedBelow(i))
      /\ \A m \in Motors : m >= i => m \in Unreached
  BY <1>2 DEF HomingInv, NeedIsRight
<1>4. CASE Level(<<i, FALSE>>)
  <2>1. hpc'[t] \in {"reread0", "notify0"} /\ hi'[t] = hi[t]
    BY <1>4, GotoAt DEF HomingReads
  <2>2. need'[t] = need[t]
    BY <1>4 DEF HomingReads
  <2> QED BY <1>2, <2>1, <2>2, GoesOn DEF InStep0
<1>5. CASE ~Level(<<i, FALSE>>)
  <2>1. need'[t] = need[t] + 1 /\ Loop(t, "read0", "abort1")
    BY <1>5 DEF HomingReads, TypeOK, HomingTypeOK
  <2>2. need'[t] = Cardinality(UnreachedBelow(i + 1))
    BY <1>1, <1>3, <2>1, CountNext
  <2>3. CASE i = LastMotor
    <3>1. hpc'[t] = "abort1"
      BY <2>1, <2>3, LoopAt
    <3>2. need'[t] = Cardinality(Unreached)'
      BY <1>2, <2>2, <2>3, AllBelowLast, CountsSame
    <3> QED BY <3>1, <3>2 DEF NeedIsRight, HomedIsRight, BeforeStep0, InStep0,
                              InSteps1And2, AfterStep2
  <2>4. CASE i # LastMotor
    <3>1. hpc'[t] = "read0" /\ hi'[t] = i + 1
      BY <2>1, <2>4, LoopAt
    <3>2. UnreachedBelow(hi[t])' = UnreachedBelow(i + 1)
      BY <1>2, <3>1, CountsSame DEF UnreachedBelow
    <3>3. \A m \in Motors : m >= hi'[t] => m \in Unreached'
      BY <1>1, <1>2, <1>3, <3>1, CountsSame DEF Motors
    <3> QED BY <2>2, <3>1, <3>2, <3>3
            DEF NeedIsRight, HomedIsRight, BeforeStep0, InStep0, InSteps1And2,
                AfterStep2
  <2> QED BY <2>3, <2>4
<1> QED BY <1>4, <1>5

(* Step 0: an axis that is at its limit is marked. *)
LEMMA FindsInv ==
  ASSUME TypeOK, HomingInv, NEW t \in Tasks, HomingFindsAtLimit(t)
  PROVE  NeedIsRight(t)' /\ HomedIsRight(t)'
<1> DEFINE i == hi[t]
<1>1. i \in Motors /\ i \in Int
  BY MotorCountAssumption DEF TypeOK, HomingTypeOK, Motors
<1>2. /\ need[t] = Cardinality(UnreachedBelow(i))
      /\ \A m \in Motors : m >= i => m \in Unreached
  BY DEF HomingInv, NeedIsRight, InStep0, HomingFindsAtLimit
<1>3. hpc'[t] = "capture0" /\ hi'[t] = i /\ need' = need
  BY GotoAt DEF HomingFindsAtLimit
<1>4. limit_reached' = [limit_reached EXCEPT ![i] = TRUE]
  BY DEF HomingFindsAtLimit, SetLimitReached
<1>5. Unreached' = Unreached \ {i}
  BY <1>1, <1>4 DEF Unreached, TypeOK, SysTypeOK
<1>6. UnreachedBelow(hi[t])' = UnreachedBelow(i)
  BY <1>1, <1>3, <1>5 DEF UnreachedBelow
<1>7. limit_reached'[i]
  BY <1>1, <1>4 DEF TypeOK, SysTypeOK
<1>8. \A m \in Motors : m > i => m \in Unreached'
  BY <1>1, <1>2, <1>5 DEF Motors
<1> QED BY <1>2, <1>3, <1>6, <1>7, <1>8
        DEF NeedIsRight, HomedIsRight, BeforeStep0, InStep0, InSteps1And2,
            AfterStep2

(* Step 0: on to the next axis. *)
LEMMA CapturesAtStartInv ==
  ASSUME TypeOK, HomingInv, NEW t \in Tasks, HomingCapturesAtStart(t)
  PROVE  NeedIsRight(t)' /\ HomedIsRight(t)'
<1> DEFINE i == hi[t]
<1>1. i \in Motors /\ i \in Int /\ LastMotor \in Int
  BY MotorCountAssumption DEF TypeOK, HomingTypeOK, Motors, LastMotor
<1>2. /\ need[t] = Cardinality(UnreachedBelow(i))
      /\ i \notin Unreached
      /\ \A m \in Motors : m > i => m \in Unreached
  BY DEF HomingInv, NeedIsRight, HomingCapturesAtStart, Unreached
<1>3. /\ need' = need /\ UNCHANGED <<limit_reached, homed>>
      /\ Loop(t, "read0", "abort1")
  BY DEF HomingCapturesAtStart, sysVars
<1>4. need'[t] = Cardinality(UnreachedBelow(i + 1))
  BY <1>1, <1>2, <1>3, CountNext
<1>5. CASE i = LastMotor
  <2>1. hpc'[t] = "abort1"
    BY <1>3, <1>5, LoopAt
  <2>2. need'[t] = Cardinality(Unreached)'
    BY <1>3, <1>4, <1>5, AllBelowLast, CountsSame
  <2> QED BY <2>1, <2>2 DEF NeedIsRight, HomedIsRight, BeforeStep0, InStep0,
                            InSteps1And2, AfterStep2
<1>6. CASE i # LastMotor
  <2>1. hpc'[t] = "read0" /\ hi'[t] = i + 1
    BY <1>3, <1>6, LoopAt
  <2>2. UnreachedBelow(hi[t])' = UnreachedBelow(i + 1)
    BY <1>3, <2>1, CountsSame DEF UnreachedBelow
  <2>3. \A m \in Motors : m >= hi'[t] => m \in Unreached'
    BY <1>1, <1>2, <1>3, <2>1, CountsSame DEF Motors
  <2> QED BY <1>4, <2>1, <2>2, <2>3
          DEF NeedIsRight, HomedIsRight, BeforeStep0, InStep0, InSteps1And2,
              AfterStep2
<1> QED BY <1>5, <1>6

(* Step 2: an axis that reaches its limit is no longer needed. *)
LEMMA MarksInv ==
  ASSUME TypeOK, HomingInv, NEW t \in Tasks, HomingMarksReached(t)
  PROVE  NeedIsRight(t)' /\ HomedIsRight(t)'
<1>1. need[t] = Cardinality(Unreached) /\ hm[t] \in Unreached
  BY DEF HomingInv, NeedIsRight, HomingMarksReached
<1>2. limit_reached' = [limit_reached EXCEPT ![hm[t]] = TRUE]
  BY DEF HomingMarksReached, SetLimitReached
<1>3. Unreached' = Unreached \ {hm[t]}
  BY <1>1, <1>2 DEF Unreached, TypeOK, SysTypeOK
<1>4. Cardinality(Unreached)' = Cardinality(Unreached) - 1
  BY <1>1, <1>3, UnreachedFinite, FS_RemoveElement
<1>5. need'[t] = need[t] - 1 /\ hpc'[t] = "capture2"
  BY GotoAt DEF HomingMarksReached, TypeOK, HomingTypeOK
<1> QED BY <1>1, <1>4, <1>5 DEF NeedIsRight, HomedIsRight, BeforeStep0,
                                InStep0, InSteps1And2, AfterStep2

(* Step 2: is the event that of an axis still needed? *)
LEMMA ChecksKnownInv ==
  ASSUME TypeOK, HomingInv, NEW t \in Tasks, HomingChecksKnown(t)
  PROVE  NeedIsRight(t)' /\ HomedIsRight(t)'
<1>1. /\ hpc'[t] = AfterKnown(hm[t])
      /\ UNCHANGED <<limit_reached, homed, need, hm>>
  BY GotoAt DEF HomingChecksKnown, sysVars
<1>2. need[t] = Cardinality(Unreached)
  BY DEF HomingInv, NeedIsRight, InSteps1And2, HomingChecksKnown
<1>3. need'[t] = Cardinality(Unreached)'
  BY <1>1, <1>2, CountsSame
<1>4. ~limit_reached[hm[t]] => hm'[t] \in Unreached'
  BY <1>1 DEF Unreached, TypeOK, HomingTypeOK
<1> QED BY <1>1, <1>3, <1>4 DEF AfterKnown, NeedIsRight, HomedIsRight,
              BeforeStep0, InStep0, InSteps1And2, AfterStep2

(* Step 4. *)
LEMMA SetsHomedInv ==
  ASSUME TypeOK, HomingInv, NEW t \in Tasks, HomingSetsHomed(t)
  PROVE  NeedIsRight(t)' /\ HomedIsRight(t)'
<1> DEFINE i == hi[t]
<1>1. i \in Motors /\ i \in Int /\ LastMotor \in Int
  BY MotorCountAssumption DEF TypeOK, HomingTypeOK, Motors, LastMotor
<1>2. Unreached = {} /\ \A m \in Motors : m < i => homed[m]
  BY DEF HomingInv, NeedIsRight, HomedIsRight, AfterStep2, HomingSetsHomed
<1>3. /\ homed' = [homed EXCEPT ![i] = TRUE] /\ UNCHANGED limit_reached
      /\ Loop(t, "homed4", "notify4")
  BY DEF HomingSetsHomed, SetHomed
<1>4. Unreached' = {}
  BY <1>2, <1>3, CountsSame
<1>5. \A m \in Motors : m < i + 1 => homed'[m]
  BY <1>1, <1>2, <1>3 DEF Motors, TypeOK, SysTypeOK
<1>6. CASE i = LastMotor
  <2>1. hpc'[t] = "notify4"
    BY <1>3, <1>6, LoopAt
  <2>2. \A m \in Motors : homed'[m]
    BY <1>5, <1>6, MotorCountAssumption DEF Motors, LastMotor
  <2> QED BY <1>4, <2>1, <2>2 DEF NeedIsRight, HomedIsRight, BeforeStep0,
                                  InStep0, InSteps1And2
<1>7. CASE i # LastMotor
  <2>1. hpc'[t] = "homed4" /\ hi'[t] = i + 1
    BY <1>3, <1>7, LoopAt
  <2> QED BY <1>4, <1>5, <2>1 DEF NeedIsRight, HomedIsRight, BeforeStep0,
                                  InStep0, InSteps1And2
<1> QED BY <1>6, <1>7

(* Before step 0: the ring is flushed, and the count begins at the first axis. *)
LEMMA StartInv ==
  ASSUME TypeOK, HomingInv, NEW t \in Tasks,
         HomingFlushes(t) \/ HomingDrains(t)
  PROVE  NeedIsRight(t)' /\ HomedIsRight(t)'
<1>1. NoneReached /\ UNCHANGED <<limit_reached, homed>>
  BY DEF HomingInv, NeedIsRight, BeforeStep0, HomingFlushes, HomingDrains,
         sysVars
<1>2. NoneReached' /\ Unreached' = Motors
  BY <1>1 DEF NoneReached, Unreached
<1>3. CASE hpc'[t] \in BeforeStep0
  BY <1>2, <1>3 DEF NeedIsRight, HomedIsRight, BeforeStep0, InStep0,
                    InSteps1And2, AfterStep2
<1>4. CASE hpc'[t] = "read0" /\ hi'[t] = 0 /\ need'[t] = 0
  <2>1. UnreachedBelow(hi[t])' = UnreachedBelow(0)
    BY <1>1, <1>4, CountsSame DEF UnreachedBelow
  <2> QED BY <1>2, <1>4, <2>1, NoneBelowFirst
          DEF NeedIsRight, HomedIsRight, BeforeStep0, InStep0, InSteps1And2,
              AfterStep2
<1>5. ASSUME HomingFlushes(t) PROVE hpc'[t] \in BeforeStep0
  BY <1>5, GotoAt DEF HomingFlushes, BeforeStep0
<1>6. ASSUME HomingDrains(t)
      PROVE  \/ hpc'[t] \in BeforeStep0
             \/ hpc'[t] = "read0" /\ hi'[t] = 0 /\ need'[t] = 0
  BY <1>6 DEF HomingDrains, BeforeStep0, TypeOK, HomingTypeOK
<1> QED BY <1>3, <1>4, <1>5, <1>6

(* The steps that leave homing progress alone. *)
LEMMA OthersInv ==
  ASSUME TypeOK, HomingInv, NEW t \in Tasks,
         \/ HomingNotifiesDriver(t) \/ HomingChecksAbort(t)
         \/ HomingSkipsReached(t) \/ HomingAsksHome(t) \/ HomingSendsHome(t)
         \/ HomingTimesOut(t) \/ HomingTakesEvent(t) \/ HomingCaptures(t)
         \/ HomingAsksLift(t) \/ HomingChecksLift(t) \/ HomingSendsLift(t)
         \/ HomingPollsBusy(t)
  PROVE  NeedIsRight(t)' /\ HomedIsRight(t)'
<1>1. UNCHANGED <<limit_reached, homed, need>>
  BY DEF HomingNotifiesDriver, HomingChecksAbort, HomingSkipsReached,
         HomingAsksHome, HomingSendsHome, HomingTimesOut, HomingTakesEvent,
         HomingCaptures, HomingAsksLift, HomingChecksLift, HomingSendsLift, HomingPollsBusy,
         sysVars
<1>2. need[t] \in Int
  BY DEF TypeOK, HomingTypeOK
<1>3. CASE HomingNotifiesDriver(t)
  <2>1. hpc[t] = "notify0" /\ hpc'[t] = "reached0" /\ hi'[t] = hi[t]
    BY <1>3, GotoAt DEF HomingNotifiesDriver
  <2> QED BY <1>1, <2>1, GoesOn DEF InStep0
<1>4. CASE HomingChecksAbort(t)
  <2>1. PICK check \in AbortChecks : /\ hpc[t] = check[1]
                                     /\ hpc'[t] \in {"none", check[2]}
    BY <1>4, GotoAt DEF HomingChecksAbort, Exit
  <2> QED BY <1>1, <2>1, GoesOn DEF AbortChecks, InSteps1And2, AfterStep2
<1>5. ASSUME hpc[t] \in InSteps1And2, Loop(t, "abort1", AfterHomes(t))
      PROVE  NeedIsRight(t)' /\ HomedIsRight(t)'
  <2>1. hpc'[t] \in {"abort1", AfterHomes(t)}
    BY <1>5, LoopAt
  <2>2. \/ AfterHomes(t) = "wait2"
        \/ AfterHomes(t) = "abort3" /\ need[t] <= 0
    BY <1>2, AfterWaitAt DEF AfterHomes
  <2> QED BY <1>1, <1>5, <2>1, <2>2, GoesOn DEF InSteps1And2
<1>6. CASE HomingSkipsReached(t)
  <2>1. CASE Loop(t, "abort1", AfterHomes(t))
    BY <1>5, <1>6, <2>1 DEF HomingSkipsReached, InSteps1And2
  <2>2. CASE hpc'[t] = "allow1"
    BY <1>1, <1>6, <2>2, GoesOn DEF HomingSkipsReached, InSteps1And2
  <2> QED BY <1>6, <2>1, <2>2, GotoAt DEF HomingSkipsReached
<1>7. CASE HomingAsksHome(t)
  <2>1. CASE Loop(t, "abort1", AfterHomes(t))
    BY <1>5, <1>7, <2>1 DEF HomingAsksHome, InSteps1And2
  <2>2. CASE hpc'[t] = "home1"
    BY <1>1, <1>7, <2>2, GoesOn DEF HomingAsksHome, InSteps1And2
  <2> QED BY <1>7, <2>1, <2>2, GotoAt DEF HomingAsksHome
<1>8. CASE HomingSendsHome(t)
  BY <1>5, <1>8 DEF HomingSendsHome, InSteps1And2
<1>9. CASE HomingTimesOut(t)
  BY <1>1, <1>9, GotoAt, GoesOn DEF HomingTimesOut, Exit
<1>10. CASE HomingTakesEvent(t)
  <2>1. hpc[t] = "wait2" /\ hpc'[t] \in {"wait2", "known2"}
    BY <1>10 DEF HomingTakesEvent, TypeOK, HomingTypeOK
  <2> QED BY <1>1, <2>1, GoesOn DEF InSteps1And2
<1>11. CASE HomingCaptures(t)
  <2>1. hpc[t] = "capture2" /\ hpc'[t] = AfterWait(need[t])
    BY <1>11, GotoAt DEF HomingCaptures
  <2> QED BY <1>1, <1>2, <2>1, AfterWaitAt, GoesOn DEF InSteps1And2
<1>12. ASSUME hpc[t] \in AfterStep2,
              hpc'[t] \in {"abort3", "lift3", "apply3", "poll3", "busy3", "cut3"}
       PROVE  NeedIsRight(t)' /\ HomedIsRight(t)'
  BY <1>1, <1>12, GoesOn DEF AfterStep2
<1>13. CASE HomingAsksLift(t)
  BY <1>12, <1>13, GotoAt, LoopAt DEF HomingAsksLift, AfterStep2
<1>14. CASE HomingChecksLift(t)
  BY <1>12, <1>14, GotoAt, LoopAt DEF HomingChecksLift, AfterStep2
<1>15. CASE HomingSendsLift(t)
  BY <1>12, <1>15, LoopAt DEF HomingSendsLift, AfterStep2
<1>16. CASE HomingPollsBusy(t)
  <2>1. hpc'[t] \in {"poll3", "busy3", "cut3"}
    BY <1>16, LoopAt DEF HomingPollsBusy, TypeOK, HomingTypeOK
  <2> QED BY <1>12, <1>16, <2>1 DEF HomingPollsBusy, AfterStep2
<1> QED BY <1>3, <1>4, <1>6, <1>7, <1>8, <1>9, <1>10, <1>11, <1>13, <1>14,
           <1>15, <1>16

(* Step 3 ends with the power cut, and nothing homed yet is asked for. *)
LEMMA CutsSonInv ==
  ASSUME TypeOK, HomingInv, NEW t \in Tasks, HomingCutsSon(t)
  PROVE  NeedIsRight(t)' /\ HomedIsRight(t)'
<1>1. UNCHANGED limit_reached /\ Loop(t, "cut3", "homed4")
  BY DEF HomingCutsSon, sysVars
<1>2. Unreached' = {}
  BY <1>1, CountsSame DEF HomingInv, NeedIsRight, AfterStep2, HomingCutsSon
<1>3. hpc'[t] = "cut3" \/ (hpc'[t] = "homed4" /\ hi'[t] = 0)
  BY <1>1, LoopAt
<1>4. \A m \in Motors : ~(m < 0)
  BY MotorCountAssumption DEF Motors
<1> QED BY <1>2, <1>3, <1>4 DEF NeedIsRight, HomedIsRight, BeforeStep0,
                                InStep0, InSteps1And2

LEMMA NotifiesInv ==
  ASSUME TypeOK, HomingInv, NEW t \in Tasks, HomingNotifies(t)
  PROVE  HomingInv'
<1>1. Unreached = {} /\ \A m \in Motors : homed[m]
  BY DEF HomingInv, NeedIsRight, HomedIsRight, AfterStep2, HomingNotifies
<1>2. UNCHANGED <<limit_reached, homed, spc>> /\ hpc'[t] = "none"
  BY GotoAt DEF HomingNotifies, NotifyHomingComplete, Exit, safetyVars
<1>3. spc # "spawn"
  BY DEF HomingInv, NoHomingTask, HomingNotifies
<1>4. \A u \in Tasks : u # t => hpc[u] = "none"
  BY DEF HomingInv, AtMostOneHomingTask, HomingNotifies
<1>5. NoHomingTask'
  BY <1>2, <1>4, GotoAt DEF NoHomingTask, HomingNotifies, Exit
<1>6. ReadyIsHomed'
  BY <1>1, <1>2 DEF ReadyIsHomed, Unreached
<1> QED BY <1>2, <1>3, <1>5, <1>6, WithoutTask

LEMMA HomingLeavesSafety ==
  ASSUME NEW t \in Tasks, HomingTask(t)
  PROVE  UNCHANGED spc
BY DEF HomingTask, HomingFlushes, HomingDrains, HomingReads,
       HomingNotifiesDriver, HomingFindsAtLimit, HomingCapturesAtStart,
       HomingChecksAbort, HomingSkipsReached, HomingAsksHome, HomingSendsHome,
       HomingTimesOut, HomingTakesEvent, HomingChecksKnown, HomingMarksReached,
       HomingCaptures, HomingAsksLift, HomingChecksLift, HomingSendsLift,
       HomingPollsBusy, HomingCutsSon, HomingSetsHomed, HomingNotifies,
       safetyVars

LEMMA TaskIsThere ==
  ASSUME NEW t \in Tasks, HomingTask(t)
  PROVE  hpc[t] # "none"
<1>1. HomingChecksAbort(t) => hpc[t] # "none"
  BY DEF HomingChecksAbort, AbortChecks
<1> QED BY <1>1 DEF HomingTask, HomingFlushes, HomingDrains, HomingReads,
       HomingNotifiesDriver, HomingFindsAtLimit, HomingCapturesAtStart,
       HomingSkipsReached, HomingAsksHome, HomingSendsHome,
       HomingTimesOut, HomingTakesEvent, HomingChecksKnown, HomingMarksReached,
       HomingCaptures, HomingAsksLift, HomingChecksLift, HomingSendsLift,
       HomingPollsBusy, HomingCutsSon, HomingSetsHomed, HomingNotifies

LEMMA HomingTaskInv ==
  ASSUME TypeOK, HomingInv, NEW t \in Tasks, HomingTask(t)
  PROVE  HomingInv'
<1>1. CASE HomingNotifies(t)
  BY <1>1, NotifiesInv
<1>2. CASE ~HomingNotifies(t)
  <2>1. NeedIsRight(t)' /\ HomedIsRight(t)'
    BY <1>2, StartInv, ReadsInv, FindsInv, CapturesAtStartInv, OthersInv,
       ChecksKnownInv, MarksInv, CutsSonInv, SetsHomedInv DEF HomingTask
  <2>2. hpc[t] # "none"
    BY TaskIsThere
  <2>3. UNCHANGED spc
    BY HomingLeavesSafety
  <2>4. UNCHANGED state
    BY <1>2 DEF HomingTask, HomingFlushes, HomingDrains, HomingReads,
         HomingNotifiesDriver, HomingFindsAtLimit,
         HomingCapturesAtStart, HomingChecksAbort, HomingSkipsReached,
         HomingAsksHome, HomingSendsHome, HomingTimesOut,
         HomingTakesEvent, HomingChecksKnown, HomingMarksReached,
         HomingCaptures, HomingAsksLift, HomingChecksLift, HomingSendsLift,
         HomingPollsBusy, HomingCutsSon, HomingSetsHomed,
         SetLimitReached, SetHomed, sysVars
  <2>5. \A u \in Tasks : u # t => hpc'[u] = hpc[u]
    BY <1>2 DEF HomingTask, HomingFlushes, HomingDrains, HomingReads,
         HomingNotifiesDriver, HomingFindsAtLimit, HomingCapturesAtStart,
         HomingChecksAbort, HomingSkipsReached, HomingAsksHome,
         HomingSendsHome, HomingTimesOut, HomingTakesEvent, HomingChecksKnown,
         HomingMarksReached, HomingCaptures, HomingAsksLift, HomingChecksLift, HomingSendsLift,
         HomingPollsBusy, HomingCutsSon, HomingSetsHomed, Goto, Exit, Loop,
         TypeOK, HomingTypeOK
  <2> QED BY <2>1, <2>2, <2>3, <2>4, <2>5, TaskFrame
<1> QED BY <1>1, <1>2

----------------------------------------------------------------------------
LEMMA HomingInvInit == Init => HomingInv
<1> SUFFICES ASSUME Init PROVE HomingInv
  OBVIOUS
<1>1. spc = "wait" /\ state = "IDLE" /\ \A t \in Tasks : hpc[t] = "none"
  BY DEF Init, SysInit
<1>2. \A t \in Tasks : NeedIsRight(t) /\ HomedIsRight(t)
  BY <1>1, NoTaskNoNeed
<1> QED BY <1>1, <1>2 DEF HomingInv, AtMostOneHomingTask, NoHomingTask,
                          HomingUnderWay, ReadyIsHomed, ReadyStates

LEMMA HomingInvStep ==
  ASSUME ORDERLY_RESTART, TypeOK, HomingInv, [Next]_vars
  PROVE  HomingInv'
<1>1. ASSUME NEW m \in Motors, Axis(m) PROVE HomingInv'
  BY <1>1, Untouched DEF Axis, AxisTurns, AxisDrifts, MoveEnds, EncoderRead,
                         safetyVars
<1>2. ASSUME LimitWorker PROVE HomingInv'
  BY <1>2, Untouched DEF LimitWorker, safetyVars
<1>3. ASSUME UNCHANGED vars PROVE HomingInv'
  BY <1>3, Untouched DEF vars, safetyVars
<1> QED BY <1>1, <1>2, <1>3, SafetyEventInv, SafetyTaskInv, HomingTaskInv
        DEF Next

(* The count of needed events and the flags of the axes are right at every  *)
(* stage of homing, for any number of motors, of tasks, of drifts, any size *)
(* of the ring and whatever events arrive or get lost.                      *)
THEOREM HomingInvariant == ORDERLY_RESTART => (Spec => []HomingInv)
<1> SUFFICES ASSUME ORDERLY_RESTART PROVE Spec => []HomingInv
  OBVIOUS
<1>1. Init => HomingInv
  BY HomingInvInit
<1>2. TypeOK /\ HomingInv /\ [Next]_vars => HomingInv'
  BY HomingInvStep
<1>3. Spec => []TypeOK
  BY TypeCorrect
<1> QED BY <1>1, <1>2, <1>3, PTL DEF Spec

(* If RESTART is pressed only with the machine at rest, a machine that is    *)
(* ready to run has touched every limit and homed every axis in this cycle. *)
THEOREM ReadyHomed == ORDERLY_RESTART => (Spec => []ReadyIsHomed)
<1>1. HomingInv => ReadyIsHomed
  BY DEF HomingInv
<1> QED BY <1>1, HomingInvariant, PTL

(* And then no two homing tasks exist, as safety_task.c has it. *)
THEOREM OneHomingTask == ORDERLY_RESTART => (Spec => []AtMostOneHomingTask)
<1>1. HomingInv => AtMostOneHomingTask
  BY DEF HomingInv
<1> QED BY <1>1, HomingInvariant, PTL

----------------------------------------------------------------------------
(* The homing machine implements the state diagram. *)

Referenced == \A m \in Motors : limit_reached[m] /\ homed[m]

(* A step of the diagram, or none. *)
ModeStep == Modes!ModesNext \/ (UNCHANGED state /\ (Referenced' <=> Referenced))

LEMMA SafetyEventMode ==
  ASSUME TypeOK, HomingInv, NEW b \in BtnEvents, SafetyEvent(b)
  PROVE  ModeStep
<1>1. PICK action \in SysActions : HandleBtnEvent(b, action)
  BY DEF SafetyEvent, SysActions
<1>2. UNCHANGED <<limit_reached, homed>> => (Referenced' <=> Referenced)
  BY DEF Referenced
<1>3. CASE HandleStart(action)
  <2>1. state \in StartableStates => Referenced
    BY DEF HomingInv, ReadyIsHomed, ReadyStates, StartableStates, Referenced
  <2> QED BY <1>2, <1>3, <2>1
          DEF HandleStart, StartableStates, ModeStep, Modes!ModesNext, Modes!Start, Referenced
<1>4. CASE HandleStop(action)
  BY <1>2, <1>4 DEF HandleStop, ModeStep, Modes!ModesNext, Modes!Stop, Referenced
<1>5. CASE Latch("ESTOP", action)
  BY <1>2, <1>5
  DEF Latch, LatchedStates, ModeStep, Modes!ModesNext, Modes!Latched, Referenced
<1>6. CASE HandleRestart(action)
  <2>1. ResetHoming => ~Referenced'
    BY MotorFacts DEF ResetHoming, Referenced
  <2> QED BY <1>2, <1>6, <2>1
          DEF HandleRestart, RestartableStates, sysVars, ModeStep, Modes!ModesNext,
              Modes!Restart, Referenced
<1> QED BY <1>1, <1>3, <1>4, <1>5, <1>6 DEF HandleBtnEvent

(* A flag that is set while homing goes on can only complete the reference. *)
LEMMA FlagMode ==
  ASSUME TypeOK, HomingInv, HomingUnderWay, NEW m \in Motors,
         SetLimitReached(m, TRUE) \/ SetHomed(m, TRUE)
  PROVE  ModeStep
<1>1. Referenced => Referenced'
  BY DEF SetLimitReached, SetHomed, Referenced, TypeOK, SysTypeOK
<1>2. state \in {"HOMING", "ESTOP"} /\ state' = state
  BY DEF HomingInv, SetLimitReached, SetHomed
<1> QED BY <1>1, <1>2 DEF ModeStep, Modes!ModesNext, Modes!Reference, Referenced

LEMMA HomingTaskMode ==
  ASSUME TypeOK, HomingInv, NEW t \in Tasks, HomingTask(t)
  PROVE  ModeStep
<1>1. hpc[t] # "none"
  BY TaskIsThere
<1>2. HomingUnderWay
  BY <1>1 DEF HomingUnderWay, NoHomingTask
<1>3. hi[t] \in Motors /\ hm[t] \in Motors
  BY DEF TypeOK, HomingTypeOK
<1>4. CASE HomingFindsAtLimit(t) \/ HomingMarksReached(t) \/ HomingSetsHomed(t)
  BY <1>2, <1>3, <1>4, FlagMode
  DEF HomingFindsAtLimit, HomingMarksReached, HomingSetsHomed
<1>5. CASE HomingNotifies(t)
  <2>1. Referenced
    BY <1>5 DEF HomingNotifies, HomingInv, NeedIsRight, HomedIsRight, AfterStep2,
                Unreached, Referenced
  <2>2. Referenced'
    BY <1>5, <2>1 DEF HomingNotifies, NotifyHomingComplete, Referenced
  <2> QED BY <1>5, <2>1, <2>2
          DEF HomingNotifies, NotifyHomingComplete, ModeStep, Modes!ModesNext,
              Modes!HomingComplete, Referenced
<1>6. CASE UNCHANGED sysVars
  BY <1>6 DEF sysVars, ModeStep, Referenced
<1> QED
  BY <1>4, <1>5, <1>6
  DEF HomingTask, HomingFlushes, HomingDrains, HomingReads, HomingNotifiesDriver,
      HomingCapturesAtStart, HomingChecksAbort, HomingSkipsReached, HomingAsksHome,
      HomingSendsHome, HomingTimesOut, HomingTakesEvent, HomingChecksKnown,
      HomingCaptures, HomingAsksLift, HomingChecksLift, HomingSendsLift,
      HomingPollsBusy, HomingCutsSon

LEMMA StepMode ==
  ASSUME TypeOK, HomingInv, [Next]_vars
  PROVE  ModeStep
<1>1. UNCHANGED sysVars => ModeStep
  BY DEF sysVars, ModeStep, Referenced
<1>2. ASSUME NEW m \in Motors, Axis(m) PROVE UNCHANGED sysVars
  BY <1>2 DEF Axis, AxisTurns, AxisDrifts, MoveEnds, EncoderRead
<1>3. LimitWorker => UNCHANGED sysVars
  BY DEF LimitWorker
<1>4. SafetyTask => UNCHANGED sysVars
  BY DEF SafetyTask, SafetySpawns, SafetySpawnFails, SafetyStops
<1>5. UNCHANGED vars => UNCHANGED sysVars
  BY DEF vars
<1> QED BY <1>1, <1>2, <1>3, <1>4, <1>5, SafetyEventMode, HomingTaskMode DEF Next

(* With restarts at rest the homing machine is an implementation of the     *)
(* state diagram of system_state.h: it runs only when every axis has been   *)
(* homed since the last RESTART, whatever the buttons and the tasks do.     *)
THEOREM ModesImplemented == ORDERLY_RESTART => (Spec => ImplementsModes)
<1> SUFFICES ASSUME ORDERLY_RESTART PROVE Spec => ImplementsModes
  OBVIOUS
<1>1. Init => Modes!ModesInit
  BY MotorFacts DEF Init, SysInit, Modes!ModesInit
<1>2. TypeOK /\ HomingInv /\ [Next]_vars =>
        [Modes!ModesNext]_<<state, \A m \in Motors : limit_reached[m] /\ homed[m]>>
  BY StepMode DEF ModeStep, Referenced
<1> QED BY <1>1, <1>2, TypeCorrect, HomingInvariant, PTL
        DEF Spec, ImplementsModes, Modes!ModesSpec

----------------------------------------------------------------------------
(* A command after an EMERGENCY. *)

(* No more axes are busy than before, and no new command is on its way. *)
LEMMA Calms ==
  ASSUME LateInv,
         Stopped' => Stopped,
         spc' = "spawn" => state' # "ESTOP",
         \A m \in Motors : busy'[m] => busy[m],
         \A t \in Tasks : Commanding(t)' => Commanding(t)
  PROVE  LateInv'
<1>1. ASSUME Stopped'
      PROVE  /\ \A m, n \in Motors : busy'[m] /\ busy'[n] => m = n
             /\ (\E t \in Tasks : Commanding(t)') => \A m \in Motors : ~busy'[m]
  BY <1>1 DEF LateInv
<1> QED BY <1>1 DEF LateInv

LEMMA CommandingSame ==
  ASSUME UNCHANGED taskVars
  PROVE  \A t \in Tasks : Commanding(t)' <=> Commanding(t)
BY DEF Commanding, taskVars

LEMMA AxisLate ==
  ASSUME TypeOK, LateInv, NEW m \in Motors, Axis(m)
  PROVE  LateInv'
<1>1. UNCHANGED <<state, spc, sreached, taskVars>>
  BY DEF Axis, AxisTurns, AxisDrifts, MoveEnds, EncoderRead, sysVars, safetyVars
<1>2. \A n \in Motors : busy'[n] => busy[n]
  BY DEF Axis, AxisTurns, AxisDrifts, MoveEnds, SlaveIsr, EncoderRead, stepVars,
         TypeOK, StepTypeOK
<1>3. (Stopped' => Stopped) /\ (spc' = "spawn" => state' # "ESTOP")
  BY <1>1 DEF Stopped, LateInv
<1> QED BY <1>1, <1>2, <1>3, CommandingSame, Calms

LEMMA CutStageCalms ==
  ASSUME StepTypeOK, NEW m \in Motors, NEW stage, CutStage(m, stage)
  PROVE  \A n \in Motors : busy'[n] => busy[n]
BY DEF CutStage, StepTypeOK

LEMMA LimitWorkerLate ==
  ASSUME TypeOK, LateInv, LimitWorker
  PROVE  LateInv'
<1>1. UNCHANGED <<state, spc, sreached, taskVars>>
  BY DEF LimitWorker, sysVars, safetyVars
<1>2. \A n \in Motors : busy'[n] => busy[n]
  <2>1. ASSUME WorkerCuts PROVE \A n \in Motors : busy'[n] => busy[n]
    BY <2>1, CutStageCalms DEF WorkerCuts, TypeOK, LimitTypeOK, Lines
  <2>2. LimitWorker => WorkerCuts \/ UNCHANGED busy
    BY DEF LimitWorker, WorkerContinues, WorkerReads, WorkerNotifies,
           WorkerSetsLevel, WorkerPushes, WorkerPosts, stepVars, chanVars
  <2> QED BY <2>1, <2>2
<1>3. (Stopped' => Stopped) /\ (spc' = "spawn" => state' # "ESTOP")
  BY <1>1 DEF Stopped, LateInv
<1> QED BY <1>1, <1>2, <1>3, CommandingSame, Calms

LEMMA SafetyEventLate ==
  ASSUME LateInv, NEW b \in BtnEvents, SafetyEvent(b)
  PROVE  LateInv'
<1>1. UNCHANGED <<busy, taskVars>> /\ spc = "wait"
  BY DEF SafetyEvent, stepVars
<1>2. CASE HandleBtnEvent(b, "NONE") /\ UNCHANGED safetyVars
  <2>1. state' = "ESTOP" => state = "ESTOP"
    BY <1>2 DEF HandleBtnEvent, HandleStart, HandleStop, Latch, HandleRestart,
                LatchedStates, sysVars
  <2>2. UNCHANGED <<spc, sreached>>
    BY <1>2 DEF safetyVars
  <2>3. (Stopped' => Stopped) /\ (spc' = "spawn" => state' # "ESTOP")
    BY <1>1, <2>1, <2>2 DEF Stopped
  <2> QED BY <1>1, <2>3, CommandingSame, Calms
<1>3. CASE HandleBtnEvent(b, "SPAWN_HOMING")
  <2>1. state' = "HOMING"
    BY <1>3 DEF HandleBtnEvent, HandleStart, HandleStop, Latch, HandleRestart
  <2> QED BY <2>1 DEF LateInv, Stopped
<1>4. CASE spc' = "stop" /\ sreached' = FALSE
  BY <1>4 DEF LateInv, Stopped
<1> QED BY <1>2, <1>3, <1>4 DEF SafetyEvent

LEMMA SafetyTaskLate ==
  ASSUME TypeOK, LateInv, SafetyTask
  PROVE  LateInv'
<1>1. UNCHANGED state
  BY DEF SafetyTask, SafetySpawns, SafetySpawnFails, SafetyStops, sysVars
<1>2. CASE SafetySpawnFails \/ \E t \in Tasks : SafetySpawns(t)
  <2>1. spc = "spawn" /\ spc' = "wait"
    BY <1>2 DEF SafetySpawns, SafetySpawnFails
  <2> QED BY <1>1, <2>1 DEF LateInv, Stopped
<1>3. CASE SafetyStops
  <2>1. spc = "stop" /\ spc' \in {"wait", "stop"} /\ UNCHANGED taskVars
    BY <1>3 DEF SafetyStops, SafetyNextDevice
  <2>2. CASE IoctlEstop(sdev)
    <3>1. \A m \in Motors : ~busy'[m]
      BY <2>2 DEF IoctlEstop, CutChannels
    <3> QED BY <2>1, <3>1 DEF LateInv
  <2>3. CASE (sdev = LastMotor => sreached) /\ UNCHANGED <<stepVars, sreached>>
    <3>1. spc' = "wait" => sreached
      BY <1>3, <2>3 DEF SafetyStops, SafetyNextDevice
    <3>2. (Stopped' => Stopped) /\ (spc' = "spawn" => state' # "ESTOP")
      BY <1>1, <2>1, <2>3, <3>1 DEF Stopped
    <3>3. UNCHANGED busy
      BY <2>3 DEF stepVars
    <3> QED BY <2>1, <3>2, <3>3, CommandingSame, Calms
  <2> QED BY <1>3, <2>2, <2>3 DEF SafetyStops
<1> QED BY <1>2, <1>3 DEF SafetyTask

LEMMA NotifyLimitCalms ==
  ASSUME StepTypeOK, NEW line, NotifyLimit(line, TRUE)
  PROVE  \A m \in Motors : busy'[m] => busy[m]
BY DEF NotifyLimit, CutChannels, chanVars, StepTypeOK

LEMMA LoopQuiet ==
  ASSUME TypeOK, NEW t \in Tasks, NEW again, NEW done, Loop(t, again, done),
         again \notin CommandPcs, done \notin CommandPcs
  PROVE  hpc'[t] \notin CommandPcs
BY LoopAt

(* In ESTOP a task gets no new permission to command an axis. *)
LEMMA NoNewCommand ==
  ASSUME TypeOK, NEW t \in Tasks, HomingTask(t), state = "ESTOP"
  PROVE  \A u \in Tasks : Commanding(u)' => Commanding(u)
<1>1. \A u \in Tasks : u # t => hpc'[u] = hpc[u]
  BY DEF HomingTask, HomingFlushes, HomingDrains, HomingReads,
         HomingNotifiesDriver, HomingFindsAtLimit, HomingCapturesAtStart,
         HomingChecksAbort, HomingSkipsReached, HomingAsksHome,
         HomingSendsHome, HomingTimesOut, HomingTakesEvent, HomingChecksKnown,
         HomingMarksReached, HomingCaptures, HomingAsksLift, HomingChecksLift,
         HomingSendsLift, HomingPollsBusy, HomingCutsSon, HomingSetsHomed,
         HomingNotifies, Goto, Exit, Loop, TypeOK, HomingTypeOK
<1>2. /\ AfterHomes(t) \notin CommandPcs /\ AfterWait(need[t]) \notin CommandPcs
      /\ AfterKnown(hm[t]) \notin CommandPcs
  BY DEF AfterHomes, AfterWait, AfterKnown, CommandPcs
<1>3. CASE HomingChecksAbort(t)
  <2>1. PICK check \in AbortChecks :
          hpc[t] = check[1] /\ (Goto(t, "none") \/ Goto(t, check[2]))
    BY <1>3 DEF HomingChecksAbort, Exit
  <2>2. "none" \notin CommandPcs /\ check[2] \notin CommandPcs
    BY DEF AbortChecks, CommandPcs
  <2>3. hpc'[t] \notin CommandPcs
    BY <2>1, <2>2, GotoAt
  <2> QED BY <1>1, <2>3 DEF Commanding
<1>4. CASE HomingAsksHome(t) \/ HomingAsksLift(t)
  <2>1. Loop(t, "abort1", AfterHomes(t)) \/ Loop(t, "abort3", "poll3")
    BY <1>4 DEF HomingAsksHome, HomingAsksLift, MotorAllowed
  <2>2. hpc'[t] \notin CommandPcs
    BY <1>2, <2>1, LoopQuiet DEF CommandPcs
  <2> QED BY <1>1, <2>2 DEF Commanding
<1>5. CASE HomingChecksLift(t)
  <2>1. Commanding(t)
    BY <1>5 DEF HomingChecksLift, Commanding, CommandPcs
  <2> QED BY <1>1, <2>1 DEF Commanding
<1>6. CASE HomingSkipsReached(t)
  <2>1. Loop(t, "abort1", AfterHomes(t)) \/ Goto(t, "allow1")
    BY <1>6 DEF HomingSkipsReached
  <2>2. "abort1" \notin CommandPcs /\ "allow1" \notin CommandPcs
    BY DEF CommandPcs
  <2>3. hpc'[t] \notin CommandPcs
    BY <1>2, <2>1, <2>2, LoopQuiet, GotoAt
  <2> QED BY <1>1, <2>3 DEF Commanding
<1>7. CASE HomingSendsHome(t) \/ HomingSendsLift(t)
  BY <1>1, <1>7 DEF HomingSendsHome, HomingSendsLift, Commanding, CommandPcs
<1>8. CASE HomingDrains(t) \/ HomingTakesEvent(t) \/ HomingPollsBusy(t)
  <2>1. \/ hpc'[t] \in {hpc[t], "read0", "known2", "poll3"}
        \/ Loop(t, "busy3", "cut3")
    BY <1>8 DEF HomingDrains, HomingTakesEvent, HomingPollsBusy, TypeOK,
                HomingTypeOK
  <2>2. hpc'[t] = hpc[t] \/ hpc'[t] \notin CommandPcs
    BY <2>1, LoopQuiet DEF CommandPcs
  <2> QED BY <1>1, <2>2 DEF Commanding
<1>9. CASE HomingReads(t) \/ HomingCapturesAtStart(t) \/ HomingCutsSon(t)
           \/ HomingSetsHomed(t)
  <2>1. \/ Loop(t, "read0", "abort1") \/ Loop(t, "cut3", "homed4")
        \/ Loop(t, "homed4", "notify4")
        \/ Goto(t, "reread0") \/ Goto(t, "notify0")
    BY <1>9 DEF HomingReads, HomingCapturesAtStart, HomingCutsSon, HomingSetsHomed
  <2>2. hpc'[t] \notin CommandPcs
    BY <2>1, LoopQuiet, GotoAt DEF CommandPcs
  <2> QED BY <1>1, <2>2 DEF Commanding
<1>10. CASE \/ HomingFlushes(t) \/ HomingNotifiesDriver(t)
            \/ HomingFindsAtLimit(t) \/ HomingTimesOut(t) \/ HomingChecksKnown(t)
            \/ HomingMarksReached(t) \/ HomingCaptures(t) \/ HomingNotifies(t)
  <2>1. \/ Goto(t, "drain") \/ Goto(t, "reached0") \/ Goto(t, "capture0")
        \/ Goto(t, "none") \/ Goto(t, "capture2")
        \/ Goto(t, AfterKnown(hm[t])) \/ Goto(t, AfterWait(need[t]))
    BY <1>10
    DEF HomingFlushes, HomingNotifiesDriver, HomingFindsAtLimit,
        HomingTimesOut, HomingChecksKnown, HomingMarksReached, HomingCaptures,
        HomingNotifies, Exit
  <2>2. \A pc \in {"drain", "reached0", "capture0", "none", "capture2"} :
          pc \notin CommandPcs
    BY DEF CommandPcs
  <2>3. hpc'[t] \notin CommandPcs
    BY <1>2, <2>1, <2>2, GotoAt
  <2> QED BY <1>1, <2>3 DEF Commanding
<1> QED BY <1>3, <1>4, <1>5, <1>6, <1>7, <1>8, <1>9, <1>10 DEF HomingTask

(* The command itself: it starts one axis, and the only task then goes on. *)
LEMMA CommandLate ==
  ASSUME TypeOK, LateInv, AtMostOneHomingTask, NEW t \in Tasks,
         HomingSendsHome(t) \/ HomingSendsLift(t)
  PROVE  LateInv'
<1>1. Commanding(t) /\ UNCHANGED <<state, spc, sreached>>
  BY DEF HomingSendsHome, HomingSendsLift, Commanding, CommandPcs, sysVars, safetyVars
<1>2. AfterHomes(t) \in {"wait2", "abort3"}
  BY DEF AfterHomes, AfterWait
<1>3. hpc'[t] \notin CommandPcs
  <2>1. Loop(t, "abort1", AfterHomes(t)) \/ Loop(t, "abort3", "poll3")
    BY DEF HomingSendsHome, HomingSendsLift
  <2> QED BY <1>2, <2>1, LoopQuiet DEF CommandPcs
<1>4. \A u \in Tasks : u # t => hpc'[u] = "none"
  BY <1>1, LoopAt
  DEF AtMostOneHomingTask, Commanding, CommandPcs, HomingSendsHome, HomingSendsLift
<1>5. \A u \in Tasks : ~Commanding(u)'
  BY <1>3, <1>4 DEF Commanding, CommandPcs
<1>6. \A m \in Motors : m # hi[t] => busy'[m] = busy[m]
  BY DEF HomingSendsHome, HomingSendsLift, IoctlHome, ApplyMove, TypeOK, StepTypeOK
<1>7. ASSUME Stopped' PROVE \A m, n \in Motors : busy'[m] /\ busy'[n] => m = n
  <2>1. \A m \in Motors : ~busy[m]
    BY <1>1, <1>7 DEF LateInv, Stopped
  <2> QED BY <1>6, <2>1
<1>8. spc' = "spawn" => state' # "ESTOP"
  BY <1>1 DEF LateInv
<1> QED BY <1>5, <1>7, <1>8 DEF LateInv

LEMMA HomingTaskLate ==
  ASSUME TypeOK, LateInv, AtMostOneHomingTask, NEW t \in Tasks, HomingTask(t)
  PROVE  LateInv'
<1>1. UNCHANGED <<spc, sreached>>
  BY DEF HomingTask, HomingFlushes, HomingDrains, HomingReads,
         HomingNotifiesDriver, HomingFindsAtLimit, HomingCapturesAtStart,
         HomingChecksAbort, HomingSkipsReached, HomingAsksHome,
         HomingSendsHome, HomingTimesOut, HomingTakesEvent, HomingChecksKnown,
         HomingMarksReached, HomingCaptures, HomingAsksLift, HomingChecksLift,
         HomingSendsLift, HomingPollsBusy, HomingCutsSon, HomingSetsHomed,
         HomingNotifies, safetyVars
<1>2. state' = "ESTOP" => state = "ESTOP"
  BY DEF HomingTask, HomingFlushes, HomingDrains, HomingReads,
         HomingNotifiesDriver, HomingFindsAtLimit, HomingCapturesAtStart,
         HomingChecksAbort, HomingSkipsReached, HomingAsksHome,
         HomingSendsHome, HomingTimesOut, HomingTakesEvent, HomingChecksKnown,
         HomingMarksReached, HomingCaptures, HomingAsksLift, HomingChecksLift,
         HomingSendsLift, HomingPollsBusy, HomingCutsSon, HomingSetsHomed,
         HomingNotifies, NotifyHomingComplete, SetLimitReached, SetHomed, sysVars
<1>3. CASE state' # "ESTOP"
  BY <1>3 DEF LateInv, Stopped
<1>4. CASE state' = "ESTOP" /\ ~(HomingSendsHome(t) \/ HomingSendsLift(t))
  <2>1. \A m \in Motors : busy'[m] => busy[m]
    <3>1. HomingNotifiesDriver(t) => \A m \in Motors : busy'[m] => busy[m]
      BY NotifyLimitCalms DEF HomingNotifiesDriver, TypeOK
    <3>2. HomingCutsSon(t) => UNCHANGED busy
      BY DEF HomingCutsSon, IoctlSonOff, stepVars
    <3> QED BY <1>4, <3>1, <3>2
            DEF HomingTask, HomingFlushes, HomingDrains, HomingReads,
                HomingFindsAtLimit, HomingCapturesAtStart, HomingChecksAbort,
                HomingSkipsReached, HomingAsksHome, HomingTimesOut,
                HomingTakesEvent, HomingChecksKnown, HomingMarksReached,
                HomingCaptures, HomingAsksLift, HomingChecksLift,
                HomingPollsBusy, HomingSetsHomed, HomingNotifies, stepVars
  <2>2. \A u \in Tasks : Commanding(u)' => Commanding(u)
    BY <1>2, <1>4, NoNewCommand
  <2>3. (Stopped' => Stopped) /\ (spc' = "spawn" => state' # "ESTOP")
    BY <1>1, <1>2 DEF Stopped, LateInv
  <2> QED BY <2>1, <2>2, <2>3, Calms
<1> QED BY <1>3, <1>4, CommandLate

LEMMA LateInvStep ==
  ASSUME TypeOK, AtMostOneHomingTask, LateInv, [Next]_vars
  PROVE  LateInv'
<1>1. ASSUME UNCHANGED vars PROVE LateInv'
  <2>1. UNCHANGED <<state, spc, sreached, busy, taskVars>>
    BY <1>1 DEF vars, sysVars, safetyVars, stepVars
  <2>2. (Stopped' => Stopped) /\ (spc' = "spawn" => state' # "ESTOP")
    BY <2>1 DEF Stopped, LateInv
  <2> QED BY <2>1, <2>2, CommandingSame, Calms
<1> QED BY <1>1, AxisLate, LimitWorkerLate, SafetyEventLate, SafetyTaskLate,
           HomingTaskLate DEF Next

(* Once the hard stop of an EMERGENCY has reached a device, nothing moves    *)
(* until a task past its last check starts one axis, and then no task is     *)
(* left that could start another; for any number of axes and tasks.         *)
THEOREM LateInvariant == ORDERLY_RESTART => (Spec => []LateInv)
<1> SUFFICES ASSUME ORDERLY_RESTART PROVE Spec => []LateInv
  OBVIOUS
<1>1. Init => LateInv
  BY DEF Init, SysInit, LateInv, Stopped
<1>2. TypeOK /\ HomingInv /\ LateInv /\ [Next]_vars => LateInv'
  BY LateInvStep DEF HomingInv
<1> QED BY <1>1, <1>2, TypeCorrect, HomingInvariant, PTL DEF Spec

(* If RESTART is pressed only with the machine at rest, then with the hard   *)
(* stop of an EMERGENCY over at most one axis moves, however many axes there *)
(* are, even if all devices but one did not open.                           *)
THEOREM LateSingle == ORDERLY_RESTART => (Spec => []LateCommandIsSingle)
<1>1. LateInv => LateCommandIsSingle
  BY DEF LateInv, Stopped, LateCommandIsSingle
<1> QED BY <1>1, LateInvariant, PTL

----------------------------------------------------------------------------
(* The encoder zeros. *)

LEMMA ZeroSame ==
  ASSUME ZeroInv, UNCHANGED <<limit_reached, captured, taskVars>>,
         \A m \in Motors : feedback'[m]
  PROVE  ZeroInv'
<1>1. \A t, m : Capturing(t, m)' <=> Capturing(t, m)
  BY DEF Capturing, taskVars
<1> QED BY <1>1 DEF ZeroInv

LEMMA AxisZero ==
  ASSUME TypeOK, ZeroInv, NEW m \in Motors, Axis(m)
  PROVE  ZeroInv'
<1>1. UNCHANGED <<limit_reached, captured, taskVars>>
  BY DEF Axis, AxisTurns, AxisDrifts, MoveEnds, EncoderRead, sysVars
<1>2. \A n \in Motors : feedback'[n]
  BY DEF Axis, AxisTurns, AxisDrifts, MoveEnds, EncoderRead, ZeroInv
<1> QED BY <1>1, <1>2, ZeroSame

(* The safety task only takes marks back. *)
LEMMA SafetyEventZero ==
  ASSUME ZeroInv, NEW b \in BtnEvents, SafetyEvent(b)
  PROVE  ZeroInv'
<1>1. UNCHANGED <<captured, feedback, taskVars>>
  BY DEF SafetyEvent
<1>2. CASE UNCHANGED limit_reached
  BY <1>1, <1>2, ZeroSame DEF ZeroInv
<1>3. CASE ResetHoming
  BY <1>1, <1>3 DEF ZeroInv, ResetHoming
<1> QED BY <1>2, <1>3
        DEF SafetyEvent, HandleBtnEvent, HandleStart, HandleStop, Latch,
            HandleRestart, sysVars

LEMMA SafetyTaskZero ==
  ASSUME TypeOK, ZeroInv, SafetyTask
  PROVE  ZeroInv'
<1>1. UNCHANGED <<limit_reached, captured, feedback>>
  BY DEF SafetyTask, SafetySpawns, SafetySpawnFails, SafetyStops, sysVars
<1>2. CASE UNCHANGED taskVars
  BY <1>1, <1>2, ZeroSame DEF ZeroInv
<1>3. ASSUME NEW t \in Tasks, SafetySpawns(t) PROVE ZeroInv'
  <2>1. hpc[t] = "none" /\ \A u \in Tasks : u # t => hpc'[u] = hpc[u]
    BY <1>3 DEF SafetySpawns, TypeOK, HomingTypeOK
  <2>2. \A u \in Tasks, m \in Motors : Capturing(u, m) => Capturing(u, m)'
    BY <1>3, <2>1 DEF Capturing, SafetySpawns
  <2> QED BY <1>1, <2>2 DEF ZeroInv
<1> QED BY <1>2, <1>3 DEF SafetyTask, SafetySpawnFails, SafetyStops

(* What a task about to capture says of an axis, only its own step unsays. *)
LEMMA OthersCapture ==
  ASSUME TypeOK, NEW t \in Tasks, HomingTask(t)
  PROVE  \A u \in Tasks, m \in Motors :
           u # t /\ Capturing(u, m) => Capturing(u, m)'
<1>1. \A u \in Tasks : u # t => hpc'[u] = hpc[u] /\ hi'[u] = hi[u]
  BY DEF HomingTask, HomingFlushes, HomingDrains, HomingReads,
         HomingNotifiesDriver, HomingFindsAtLimit, HomingCapturesAtStart,
         HomingChecksAbort, HomingSkipsReached, HomingAsksHome,
         HomingSendsHome, HomingTimesOut, HomingTakesEvent, HomingChecksKnown,
         HomingMarksReached, HomingCaptures, HomingAsksLift, HomingChecksLift,
         HomingSendsLift, HomingPollsBusy, HomingCutsSon, HomingSetsHomed,
         HomingNotifies, Goto, Exit, Loop, TypeOK, HomingTypeOK
<1>2. \A u \in Tasks : u # t => hm'[u] = hm[u]
  BY DEF HomingTask, HomingFlushes, HomingDrains, HomingReads,
         HomingNotifiesDriver, HomingFindsAtLimit, HomingCapturesAtStart,
         HomingChecksAbort, HomingSkipsReached, HomingAsksHome,
         HomingSendsHome, HomingTimesOut, HomingTakesEvent, HomingChecksKnown,
         HomingMarksReached, HomingCaptures, HomingAsksLift, HomingChecksLift,
         HomingSendsLift, HomingPollsBusy, HomingCutsSon, HomingSetsHomed,
         HomingNotifies, TypeOK, HomingTypeOK
<1> QED BY <1>1, <1>2 DEF Capturing

LEMMA HomingTaskZero ==
  ASSUME TypeOK, ZeroInv, NEW t \in Tasks, HomingTask(t)
  PROVE  ZeroInv'
<1>1. hi[t] \in Motors /\ hm[t] \in Motors
  BY DEF TypeOK, HomingTypeOK
<1>2. UNCHANGED feedback
  BY DEF HomingTask, HomingFlushes, HomingDrains, HomingReads,
         HomingNotifiesDriver, HomingFindsAtLimit, HomingCapturesAtStart,
         HomingChecksAbort, HomingSkipsReached, HomingAsksHome,
         HomingSendsHome, HomingTimesOut, HomingTakesEvent, HomingChecksKnown,
         HomingMarksReached, HomingCaptures, HomingAsksLift, HomingChecksLift,
         HomingSendsLift, HomingPollsBusy, HomingCutsSon, HomingSetsHomed,
         HomingNotifies
<1>3. ASSUME NEW m \in Motors, UNCHANGED captured,
             limit_reached' = [limit_reached EXCEPT ![m] = TRUE],
             Capturing(t, m)', \A n \in Motors : ~Capturing(t, n)
      PROVE  ZeroInv'
  BY <1>2, <1>3, OthersCapture DEF ZeroInv, TypeOK, SysTypeOK
<1>4. CASE HomingFindsAtLimit(t)
  <2>1. PICK m \in Motors : m = hi[t]
    BY <1>1
  <2>2. hpc[t] = "reached0" /\ hpc'[t] = "capture0" /\ hi'[t] = m
    BY <1>4, <2>1, GotoAt DEF HomingFindsAtLimit
  <2>3. Capturing(t, m)' /\ \A n \in Motors : ~Capturing(t, n)
    BY <2>2 DEF Capturing
  <2> QED BY <1>3, <1>4, <2>1, <2>3 DEF HomingFindsAtLimit, SetLimitReached
<1>5. CASE HomingMarksReached(t)
  <2>1. PICK m \in Motors : m = hm[t]
    BY <1>1
  <2>2. hpc[t] = "set2" /\ hpc'[t] = "capture2" /\ hm'[t] = m
    BY <1>5, <2>1, GotoAt DEF HomingMarksReached
  <2>3. Capturing(t, m)' /\ \A n \in Motors : ~Capturing(t, n)
    BY <2>2 DEF Capturing
  <2> QED BY <1>3, <1>5, <2>1, <2>3 DEF HomingMarksReached, SetLimitReached
<1>6. ASSUME NEW m \in Motors, CaptureZero(m), UNCHANGED limit_reached,
             \A n \in Motors : Capturing(t, n) => n = m
      PROVE  ZeroInv'
  <2>1. captured'[m] /\ \A n \in Motors : captured[n] => captured'[n]
    BY <1>6 DEF CaptureZero, ZeroInv, TypeOK, HomingTypeOK
  <2>2. ASSUME NEW n \in Motors, limit_reached'[n]
        PROVE  captured'[n] \/ \E u \in Tasks : Capturing(u, n)'
    <3>1. captured[n] \/ \E u \in Tasks : Capturing(u, n)
      BY <1>6, <2>2 DEF ZeroInv
    <3> QED BY <1>6, <2>1, <3>1, OthersCapture
  <2> QED BY <1>2, <2>2 DEF ZeroInv
<1>7. CASE HomingCapturesAtStart(t)
  <2>1. PICK m \in Motors : m = hi[t]
    BY <1>1
  <2> QED BY <1>6, <1>7, <2>1 DEF HomingCapturesAtStart, Capturing, sysVars
<1>8. CASE HomingCaptures(t)
  <2>1. PICK m \in Motors : m = hm[t]
    BY <1>1
  <2> QED BY <1>6, <1>8, <2>1 DEF HomingCaptures, Capturing, sysVars
<1>9. ASSUME UNCHANGED <<limit_reached, captured>>,
             hpc[t] \notin {"capture0", "capture2"}
      PROVE  ZeroInv'
  <2>1. \A n \in Motors : ~Capturing(t, n)
    BY <1>9 DEF Capturing
  <2>2. ASSUME NEW n \in Motors, limit_reached'[n]
        PROVE  captured'[n] \/ \E u \in Tasks : Capturing(u, n)'
    <3>1. captured[n] \/ \E u \in Tasks : Capturing(u, n)
      BY <1>9, <2>2 DEF ZeroInv
    <3> QED BY <1>9, <2>1, <3>1, OthersCapture
  <2> QED BY <1>2, <2>2 DEF ZeroInv
<1>10. CASE HomingChecksAbort(t)
  BY <1>9, <1>10 DEF HomingChecksAbort, AbortChecks, sysVars
<1> QED
  BY <1>4, <1>5, <1>7, <1>8, <1>9, <1>10
  DEF HomingTask, HomingFlushes, HomingDrains, HomingReads,
      HomingNotifiesDriver, HomingSkipsReached, HomingAsksHome,
      HomingSendsHome, HomingTimesOut, HomingTakesEvent, HomingChecksKnown,
      HomingAsksLift, HomingChecksLift, HomingSendsLift, HomingPollsBusy,
      HomingCutsSon, HomingSetsHomed, HomingNotifies, NotifyHomingComplete,
      SetHomed, sysVars

LEMMA ZeroInvStep ==
  ASSUME TypeOK, ZeroInv, [Next]_vars
  PROVE  ZeroInv'
<1>1. LimitWorker \/ UNCHANGED vars =>
        UNCHANGED <<limit_reached, captured, feedback, taskVars>>
  BY DEF LimitWorker, vars, sysVars
<1>2. ASSUME LimitWorker \/ UNCHANGED vars PROVE ZeroInv'
  BY <1>1, <1>2, ZeroSame DEF ZeroInv
<1> QED BY <1>2, AxisZero, SafetyEventZero, SafetyTaskZero, HomingTaskZero DEF Next

(* If every encoder is read before homing begins, an axis that is marked at  *)
(* its limit has its encoder zero or is about to get it, in any order of the *)
(* tasks and also with disorderly restarts.                                 *)
THEOREM ZeroInvariant == FEEDBACK = Motors => (Spec => []ZeroInv)
<1> SUFFICES ASSUME FEEDBACK = Motors PROVE Spec => []ZeroInv
  OBVIOUS
<1>1. Init => ZeroInv
  BY DEF Init, SysInit, ZeroInv
<1>2. TypeOK /\ ZeroInv /\ [Next]_vars => ZeroInv'
  BY ZeroInvStep
<1> QED BY <1>1, <1>2, TypeCorrect, PTL DEF Spec

(* If also RESTART is pressed only with the machine at rest, a machine that  *)
(* is ready to run has an encoder zero for every axis.                      *)
THEOREM ReadyZero ==
  ORDERLY_RESTART /\ FEEDBACK = Motors => (Spec => []ReadyHasZero)
<1>1. HomingInv /\ ZeroInv => ReadyHasZero
  <2> SUFFICES ASSUME HomingInv, ZeroInv, state \in ReadyStates,
                      NEW m \in Motors
               PROVE  captured[m]
    BY DEF ReadyHasZero
  <2>1. limit_reached[m]
    BY DEF HomingInv, ReadyIsHomed
  <2>2. \A t \in Tasks : hpc[t] = "none"
    BY DEF HomingInv, HomingUnderWay, NoHomingTask, ReadyStates
  <2> QED BY <2>1, <2>2 DEF ZeroInv, Capturing
<1> QED BY <1>1, HomingInvariant, ZeroInvariant, PTL

=============================================================================
