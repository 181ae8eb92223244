--------------------------- MODULE CdmBackendProofs ---------------------------
(***************************************************************************)
(* Proofs about CdmBackend for any set of application threads: type        *)
(* correctness, the safety invariants, the wake-up property, and that the  *)
(* backend implements MediaKeysGate.  They rest on one inductive           *)
(* invariant, Inv, whose parts are named below.                            *)
(***************************************************************************)
EXTENDS CdmBackend, TLAPS

(* Whoever is inside IMediaKeys holds the mutex, and the object is there.     *)
InsideHoldsMutex ==
  \A t \in Threads : pc[t] \in InMediaKeys => mutex = t /\ mediaKeys

(* No call starts before the constructor is done, so nobody sleeps then.      *)
NobodyBeforeReady ==
  ctor # "ready" => \A t \in Threads : pc[t] = "idle"

(* Rialto notifies only a registered client, and never of UNKNOWN; before     *)
(* the registration nothing has happened.                                     *)
RegistrationOrder ==
  /\ ctor = "register" => ~registered /\ appState = "UNKNOWN"
  /\ notifying => registered /\ control # "UNKNOWN"

(* Between registration and initialize(), the state the backend is about to   *)
(* have: the one a notification brought, or else the one registration         *)
(* returned.  It agrees with Rialto's unless a notification is on its way.    *)
PendingState == IF appState = "UNKNOWN" THEN initialState ELSE appState

PendingAgreement ==
  ctor = "initialize" /\ registered /\ ~notifying => Agrees(PendingState)

Inv ==
  /\ TypeOK
  /\ RunningIffMediaKeys
  /\ RefusedOnlyAfterDeadline
  /\ InsideHoldsMutex
  /\ NobodyBeforeReady
  /\ RegistrationOrder
  /\ PendingAgreement
  /\ SettledAgreement

-------------------------------------------------------------------------------
(* Inv holds initially.                                                       *)
LEMMA InitInv == Init => Inv
  BY BackendAssumption
     DEF Init, Inv, TypeOK, AppStates, Waiting, InMediaKeys, RunningIffMediaKeys,
         RefusedOnlyAfterDeadline, InsideHoldsMutex, NobodyBeforeReady,
         RegistrationOrder, PendingAgreement, SettledAgreement, Settled

(* Who forwards a call either enters IMediaKeys with the mutex or comes away  *)
(* empty-handed; no other thread moves.                                       *)
LEMMA ForwardEffect ==
  ASSUME TypeOK, NEW t \in Threads, NEW inside, NEW otherwise,
         Forward(t, inside, otherwise)
  PROVE  /\ mediaKeys => mutex' = t /\ pc' = [pc EXCEPT ![t] = inside]
         /\ ~mediaKeys => mutex' = mutex /\ pc' = [pc EXCEPT ![t] = otherwise]
  BY DEF Forward, TypeOK

(* A notify_one only ever turns sleepers into signalled threads.              *)
LEMMA NotifyOneEffect ==
  ASSUME TypeOK, NotifyOne
  PROVE  /\ pc' \in [Threads -> {"asleep", "signalled"} \cup InMediaKeys
                                \cup {"idle", "refused", "noKeys"}]
         /\ \A t \in Threads : pc'[t] # pc[t] => pc[t] = "asleep" /\ pc'[t] = "signalled"
         /\ (\E t \in Threads : pc[t] = "asleep") =>
               \E t \in Threads : pc[t] = "asleep" /\ pc'[t] = "signalled"
<1> DEFINE sleepers == {t \in Threads : pc[t] = "asleep"}
<1>1. CASE sleepers = {}
  BY <1>1 DEF NotifyOne, TypeOK, Waiting
<1>2. CASE sleepers # {}
  <2>1. PICK t \in sleepers : pc' = [pc EXCEPT ![t] = "signalled"]
    BY <1>2 DEF NotifyOne
  <2> QED
    BY <2>1 DEF TypeOK, Waiting
<1> QED
  BY <1>1, <1>2

-------------------------------------------------------------------------------
(* The constructor and Rialto's thread keep Inv: the steps in which           *)
(* registration, notification and initialize() may overtake one another.      *)
LEMMA RegisterKeepsInv == Inv /\ Register => Inv'
<1> SUFFICES ASSUME Inv, Register PROVE Inv'
  OBVIOUS
<1> USE DEF Inv, Register, locked, calls
<1>1. TypeOK' /\ RunningIffMediaKeys' /\ RefusedOnlyAfterDeadline'
      /\ InsideHoldsMutex' /\ NobodyBeforeReady'
  BY DEF TypeOK, RunningIffMediaKeys, RefusedOnlyAfterDeadline, InsideHoldsMutex,
         NobodyBeforeReady
<1>2. RegistrationOrder'
  BY DEF RegistrationOrder
<1>3. PendingAgreement' /\ SettledAgreement'
  BY DEF PendingAgreement, SettledAgreement, Settled, Agrees, PendingState,
         RegistrationOrder
<1> QED
  BY <1>1, <1>2, <1>3

LEMMA InitializeKeepsInv == Inv /\ Initialize => Inv'
<1> SUFFICES ASSUME Inv, Initialize PROVE Inv'
  OBVIOUS
<1> USE DEF Inv, Initialize, locked, calls, rialto
<1>1. TypeOK'
  BY DEF TypeOK, CreateMediaKeys, AppStates
<1>2. RunningIffMediaKeys'
  BY DEF RunningIffMediaKeys, CreateMediaKeys
<1>3. RefusedOnlyAfterDeadline' /\ NobodyBeforeReady'
  BY DEF RefusedOnlyAfterDeadline, NobodyBeforeReady
<1>4. InsideHoldsMutex'
  BY BackendAssumption DEF InsideHoldsMutex, NobodyBeforeReady, InMediaKeys
<1>5. RegistrationOrder' /\ PendingAgreement'
  BY DEF RegistrationOrder, PendingAgreement
<1>6. SettledAgreement'
  <2> SUFFICES ASSUME Settled' PROVE Agrees(appState)'
    BY DEF SettledAgreement
  <2>1. Agrees(PendingState)
    BY DEF Settled, PendingAgreement
  <2>2. control' = control
    OBVIOUS
  <2>3. \/ appState' = PendingState
        \/ FactoryMayFail /\ PendingState = "RUNNING" /\ appState' # "RUNNING"
    BY BackendAssumption DEF PendingState, CreateMediaKeys, FactoryOutcomes
  <2> QED
    BY <2>1, <2>2, <2>3 DEF Agrees
<1> QED
  BY <1>1, <1>2, <1>3, <1>4, <1>5, <1>6

LEMMA ControlChangesKeepsInv ==
  ASSUME NEW state \in NotifiedStates, Inv, ControlChanges(state)
  PROVE  Inv'
<1> USE DEF Inv, ControlChanges, locked, calls, system
<1>1. TypeOK' /\ RunningIffMediaKeys' /\ RefusedOnlyAfterDeadline'
      /\ InsideHoldsMutex' /\ NobodyBeforeReady'
  BY DEF TypeOK, NotifiedStates, AppStates, RunningIffMediaKeys,
         RefusedOnlyAfterDeadline, InsideHoldsMutex, NobodyBeforeReady
<1>2. RegistrationOrder'
  BY DEF RegistrationOrder, NotifiedStates, TypeOK
<1>3. PendingAgreement' /\ SettledAgreement'
  BY DEF PendingAgreement, SettledAgreement, Settled
<1> QED
  BY <1>1, <1>2, <1>3

LEMMA NotifyKeepsInv == Inv /\ NotifyApplicationState => Inv'
<1> SUFFICES ASSUME Inv, NotifyApplicationState PROVE Inv'
  OBVIOUS
<1> USE DEF Inv, NotifyApplicationState, locked, system
<1>1. /\ pc' \in [Threads -> Waiting \cup InMediaKeys \cup {"idle", "refused", "noKeys"}]
      /\ \A t \in Threads : pc'[t] # pc[t] => pc[t] = "asleep" /\ pc'[t] = "signalled"
  BY NotifyOneEffect DEF TypeOK, Waiting
<1>2. TypeOK'
  BY <1>1 DEF TypeOK, CreateMediaKeys, AppStates
<1>3. RunningIffMediaKeys'
  BY DEF RunningIffMediaKeys, CreateMediaKeys
<1>4. RefusedOnlyAfterDeadline'
  BY <1>1 DEF RefusedOnlyAfterDeadline
<1>5. InsideHoldsMutex'
  BY <1>1, BackendAssumption DEF InsideHoldsMutex, InMediaKeys
<1>6. NobodyBeforeReady'
  BY <1>1 DEF NobodyBeforeReady
<1>7. RegistrationOrder'
  BY DEF RegistrationOrder
<1>8. PendingAgreement' /\ SettledAgreement'
  <2>1. appState' = control \/ (FactoryMayFail /\ control = "RUNNING"
                                  /\ appState # "RUNNING" /\ appState' = appState)
    BY BackendAssumption DEF CreateMediaKeys, FactoryOutcomes
  <2>2. control # "UNKNOWN"
    BY DEF RegistrationOrder
  <2>3. SettledAgreement'
    BY <2>1 DEF SettledAgreement, Settled, Agrees
  <2>4. PendingAgreement'
    BY <2>1, <2>2 DEF PendingAgreement, PendingState, Agrees
  <2> QED
    BY <2>3, <2>4
<1> QED
  BY <1>2, <1>3, <1>4, <1>5, <1>6, <1>7, <1>8

-------------------------------------------------------------------------------
(* Application threads touch neither appState nor mediaKeys nor Rialto, so of *)
(* the parts of Inv they can disturb only the three that speak of pc.         *)
LEMMA ThreadStepKeepsInv ==
  ASSUME NEW t \in Threads, Inv, ThreadStep(t)
  PROVE  Inv'
<1> USE DEF Inv
<1>1. UNCHANGED <<locked, system, rialto>>
  BY DEF ThreadStep, CreateKeySession, SpuriousWakeup, Wake, Deadline, Call, Return
<1>2. RunningIffMediaKeys' /\ RegistrationOrder' /\ PendingAgreement' /\ SettledAgreement'
  BY <1>1 DEF locked, system, rialto, RunningIffMediaKeys, RegistrationOrder,
              PendingAgreement, PendingState, SettledAgreement, Settled, Agrees
<1>3. ctor = "ready"
  <2>1. pc[t] # "idle" \/ ctor = "ready"
    BY DEF ThreadStep, CreateKeySession, SpuriousWakeup, Wake, Deadline, Call, Return,
           Waiting, InMediaKeys
  <2> QED
    BY <2>1 DEF NobodyBeforeReady
<1>4. NobodyBeforeReady'
  BY <1>1, <1>3 DEF NobodyBeforeReady, system
<1>5. TypeOK' /\ RefusedOnlyAfterDeadline' /\ InsideHoldsMutex'
  <2> USE BackendAssumption
      DEF TypeOK, RefusedOnlyAfterDeadline, InsideHoldsMutex, Waiting, InMediaKeys,
          locked, system, rialto
  <2>1. CASE CreateKeySession(t)
    BY <2>1, <1>1 DEF CreateKeySession, Forward, RunningIffMediaKeys
  <2>2. CASE SpuriousWakeup(t)
    BY <2>2, <1>1 DEF SpuriousWakeup
  <2>3. CASE Wake(t)
    BY <2>3, <1>1 DEF Wake, Forward, RunningIffMediaKeys
  <2>4. CASE Deadline(t)
    BY <2>4, <1>1 DEF Deadline, Forward
  <2>5. CASE Call(t)
    BY <2>5, <1>1 DEF Call, Forward
  <2>6. CASE Return(t)
    BY <2>6, <1>1 DEF Return
  <2> QED
    BY <2>1, <2>2, <2>3, <2>4, <2>5, <2>6 DEF ThreadStep
<1> QED
  BY <1>2, <1>4, <1>5

LEMMA NextInv == Inv /\ [Next]_vars => Inv'
<1> SUFFICES ASSUME Inv, [Next]_vars PROVE Inv'
  OBVIOUS
<1>1. CASE Register
  BY <1>1, RegisterKeepsInv
<1>2. CASE Initialize
  BY <1>2, InitializeKeepsInv
<1>3. ASSUME NEW state \in NotifiedStates, ControlChanges(state) PROVE Inv'
  BY <1>3, ControlChangesKeepsInv
<1>4. CASE NotifyApplicationState
  BY <1>4, NotifyKeepsInv
<1>5. ASSUME NEW t \in Threads, ThreadStep(t) PROVE Inv'
  BY <1>5, ThreadStepKeepsInv
<1>6. CASE UNCHANGED vars
  BY <1>6 DEF vars, Inv, TypeOK, RunningIffMediaKeys, RefusedOnlyAfterDeadline,
              InsideHoldsMutex, NobodyBeforeReady, RegistrationOrder, PendingAgreement,
              PendingState, SettledAgreement, Settled, Agrees
<1> QED
  BY <1>1, <1>2, <1>3, <1>4, <1>5, <1>6 DEF Next

THEOREM InvHolds == Spec => []Inv
  BY InitInv, NextInv, PTL DEF Spec

(* The members of CdmBackend and the threads' places stay in their ranges.    *)
THEOREM TypeCorrect == Spec => []TypeOK
<1>1. Inv => TypeOK
  BY DEF Inv
<1> QED
  BY <1>1, InvHolds, PTL

(* createMediaKeys() failing in initialize() or notifyApplicationState() never *)
(* leaves the backend RUNNING without keys, or with keys and not RUNNING.     *)
THEOREM RunningMeansMediaKeys == Spec => []RunningIffMediaKeys
<1>1. Inv => RunningIffMediaKeys
  BY DEF Inv
<1> QED
  BY <1>1, InvHolds, PTL

(* createKeySession never gives up for want of keys before its deadline.      *)
THEOREM NoEarlyRefusal == Spec => []RefusedOnlyAfterDeadline
<1>1. Inv => RefusedOnlyAfterDeadline
  BY DEF Inv
<1> QED
  BY <1>1, InvHolds, PTL

(* Whatever order registration, initialize() and notifications take the mutex *)
(* in, a backend with nothing under way is in Rialto's state.                 *)
THEOREM SettledBackendAgrees == Spec => []SettledAgreement
<1>1. Inv => SettledAgreement
  BY DEF Inv
<1> QED
  BY <1>1, InvHolds, PTL

(* No step makes the backend RUNNING and leaves every sleeper asleep.         *)
THEOREM RunningWakesASleeper == Spec => WakesASleeper
<1> DEFINE Becomes == appState # "RUNNING" /\ appState' = "RUNNING"
                        /\ \E t \in Threads : pc[t] = "asleep"
           Wakes == \E t \in Threads : pc[t] = "asleep" /\ pc'[t] = "signalled"
<1>1. Inv /\ [Next]_vars => [Becomes => Wakes]_vars
  <2> SUFFICES ASSUME Inv, Next, Becomes PROVE Wakes
    OBVIOUS
  <2>1. CASE Initialize
    BY <2>1 DEF Initialize, Inv, NobodyBeforeReady
  <2>2. CASE NotifyApplicationState
    <3>1. NotifyOne
      BY <2>2 DEF NotifyApplicationState, locked
    <3> QED
      BY <3>1, NotifyOneEffect DEF Inv
  <2>3. CASE Register \/ \E state \in NotifiedStates : ControlChanges(state)
    BY <2>3 DEF Register, ControlChanges, locked
  <2>4. CASE \E t \in Threads : ThreadStep(t)
    BY <2>4 DEF ThreadStep, CreateKeySession, SpuriousWakeup, Wake, Deadline, Call, Return,
                locked
  <2> QED
    BY <2>1, <2>2, <2>3, <2>4 DEF Next
<1> QED
  BY <1>1, InvHolds, PTL DEF Spec, WakesASleeper

-------------------------------------------------------------------------------
(* CdmBackend implements MediaKeysGate: the object comes and goes only when   *)
(* nobody is inside it, and at most one caller is.                            *)
Inside == {t \in Threads : pc[t] \in InMediaKeys}

LEMMA FreeMutexMeansNobodyInside == Inv /\ mutex = NoThread => Inside = {}
  BY BackendAssumption DEF Inv, InsideHoldsMutex, Inside

LEMMA OnlyTheHolderIsInside ==
  ASSUME Inv, NEW t \in Threads, pc[t] \in InMediaKeys
  PROVE  Inside = {t}
  BY DEF Inv, InsideHoldsMutex, Inside

LEMMA NotificationMapsToGate ==
  Inv /\ NotifyApplicationState => [Gate!Next]_<<mediaKeys, Inside>>
<1> SUFFICES ASSUME Inv, NotifyApplicationState
             PROVE  [Gate!Next]_<<mediaKeys, Inside>>
  OBVIOUS
<1>1. \A t \in Threads : pc'[t] # pc[t] => pc[t] = "asleep" /\ pc'[t] = "signalled"
  BY NotifyOneEffect DEF NotifyApplicationState, Inv
<1>2. Inside = {} /\ Inside' = {}
  BY <1>1, FreeMutexMeansNobodyInside DEF NotifyApplicationState, Inside, InMediaKeys
<1>3. mediaKeys \in BOOLEAN /\ mediaKeys' \in BOOLEAN
  BY NotifyKeepsInv DEF Inv, TypeOK
<1> QED
  BY <1>2, <1>3 DEF Gate!Next, Gate!Appear, Gate!Vanish, Inside

LEMMA ThreadStepMapsToGate ==
  ASSUME NEW t \in Threads, Inv, ThreadStep(t)
  PROVE  [Gate!Next]_<<mediaKeys, Inside>>
<1>0. mediaKeys' = mediaKeys /\ TypeOK
  BY DEF ThreadStep, CreateKeySession, SpuriousWakeup, Wake, Deadline, Call, Return,
         locked, Inv
<1>1. ASSUME mutex = NoThread, NEW inside \in InMediaKeys, NEW otherwise \in {"refused", "noKeys"},
             Forward(t, inside, otherwise)
      PROVE  [Gate!Next]_<<mediaKeys, Inside>>
  <2>1. Inside = {}
    BY <1>1, FreeMutexMeansNobodyInside
  <2>2. CASE mediaKeys
    <3>1. Inside' = {t}
      BY <1>0, <1>1, <2>1, <2>2 DEF Forward, Inside, TypeOK
    <3> QED
      BY <1>0, <2>1, <2>2, <3>1 DEF Gate!Next, Gate!Enter, Inside
  <2>3. CASE ~mediaKeys
    <3>1. Inside' = Inside
      BY <1>0, <1>1, <2>1, <2>3 DEF Forward, Inside, TypeOK, InMediaKeys
    <3> QED
      BY <1>0, <3>1
  <2> QED
    BY <2>2, <2>3
<1>2. ASSUME pc[t] \notin InMediaKeys, NEW p \in Waiting \cup {"idle"},
             pc' = [pc EXCEPT ![t] = p]
      PROVE  [Gate!Next]_<<mediaKeys, Inside>>
  BY <1>0, <1>2 DEF Inside, TypeOK, InMediaKeys, Waiting
<1>3. CASE CreateKeySession(t)
  BY <1>1, <1>2, <1>3 DEF CreateKeySession, InMediaKeys, Waiting
<1>4. CASE SpuriousWakeup(t)
  BY <1>2, <1>4 DEF SpuriousWakeup, InMediaKeys, Waiting
<1>5. CASE Wake(t)
  BY <1>1, <1>2, <1>5 DEF Wake, InMediaKeys, Waiting
<1>6. CASE Deadline(t)
  BY <1>1, <1>6 DEF Deadline, InMediaKeys
<1>7. CASE Call(t)
  BY <1>1, <1>7 DEF Call, InMediaKeys
<1>8. CASE Return(t)
  <2>1. CASE pc[t] \in InMediaKeys
    <3>1. Inside = {t} /\ Inside' = {}
      BY <1>0, <1>8, <2>1, OnlyTheHolderIsInside DEF Return, Inside, TypeOK, InMediaKeys
    <3> QED
      BY <1>0, <3>1 DEF Gate!Next, Gate!Leave, Inside
  <2>2. CASE pc[t] \notin InMediaKeys
    BY <1>2, <1>8, <2>2 DEF Return
  <2> QED
    BY <2>1, <2>2
<1> QED
  BY <1>3, <1>4, <1>5, <1>6, <1>7, <1>8 DEF ThreadStep

LEMMA InitializeMapsToGate ==
  Inv /\ Initialize => [Gate!Next]_<<mediaKeys, Inside>>
<1> SUFFICES ASSUME Inv, Initialize PROVE [Gate!Next]_<<mediaKeys, Inside>>
  OBVIOUS
<1>1. Inside = {} /\ Inside' = {}
  BY FreeMutexMeansNobodyInside DEF Initialize, calls, Inside
<1>2. mediaKeys \in BOOLEAN /\ mediaKeys' \in BOOLEAN
  BY InitializeKeepsInv DEF Inv, TypeOK
<1> QED
  BY <1>1, <1>2 DEF Gate!Next, Gate!Appear, Gate!Vanish, Inside

THEOREM BackendImplementsGate == Spec => ImplementsGate
<1>1. Init => Gate!Init
  BY DEF Init, Gate!Init, InMediaKeys
<1>2. Inv /\ [Next]_vars => [Gate!Next]_<<mediaKeys, Inside>>
  <2> SUFFICES ASSUME Inv, [Next]_vars PROVE [Gate!Next]_<<mediaKeys, Inside>>
    OBVIOUS
  <2>1. CASE Register \/ (\E state \in NotifiedStates : ControlChanges(state)) \/ UNCHANGED vars
    BY <2>1 DEF Register, ControlChanges, locked, calls, vars, Inside
  <2> QED
    BY <2>1, InitializeMapsToGate, NotificationMapsToGate, ThreadStepMapsToGate DEF Next
<1> QED
  BY <1>1, <1>2, InvHolds, PTL DEF Spec, ImplementsGate, Gate!Spec, Gate!gateVars, Inside
===============================================================================
