------------------------------ MODULE CdmBackend ------------------------------
(***************************************************************************)
(* CdmBackend: the owner of Rialto's IMediaKeys object.  Three kinds of    *)
(* thread meet at its mutex:                                               *)
(*   - the thread that constructs OpenCDMSystemPrivate, which registers    *)
(*     the backend with Rialto's Control and then calls initialize() with  *)
(*     the state that registration returned;                               *)
(*   - Rialto's client thread, which calls notifyApplicationState();       *)
(*   - application threads, whose calls are forwarded to IMediaKeys with   *)
(*     the mutex held; createKeySession first waits up to a second on the  *)
(*     condition variable for the RUNNING state.                           *)
(* A body that only reads and writes members under the mutex is one step.  *)
(* A call into IMediaKeys is a blocking IPC and has two, so that everybody *)
(* else can be seen to queue behind it.                                    *)
(***************************************************************************)
CONSTANTS
  Threads,         \* application threads
  NoThread,        \* the mutex is free
  FactoryMayFail   \* TRUE if createMediaKeys() may come back empty-handed

ASSUME BackendAssumption ==
  /\ NoThread \notin Threads
  /\ FactoryMayFail \in BOOLEAN

VARIABLES
  appState,      \* m_appState
  mediaKeys,     \* m_mediaKeys is not null
  mutex,         \* the thread inside IMediaKeys with m_mutex held
  pc,            \* where each application thread is
  timedOut,      \* the thread's last wait on m_cv ran into its deadline
  ctor,          \* progress of the OpenCDMSystemPrivate constructor
  initialState,  \* its local, filled in by registerClient
  control,       \* the application state Rialto is in
  registered,    \* the backend is a client of Control
  notifying      \* Rialto's thread is about to deliver `control'

locked == <<appState, mediaKeys>>
calls == <<pc, timedOut>>
system == <<ctor, initialState>>
rialto == <<control, registered, notifying>>
vars == <<appState, mediaKeys, mutex, pc, timedOut, ctor, initialState,
          control, registered, notifying>>

AppStates == {"UNKNOWN", "INACTIVE", "RUNNING"}
NotifiedStates == {"INACTIVE", "RUNNING"}  \* what Rialto moves to once it knows
Waiting == {"asleep", "signalled"}
InMediaKeys == {"inCreate", "inCall"}

TypeOK ==
  /\ appState \in AppStates
  /\ mediaKeys \in BOOLEAN
  /\ mutex \in Threads \cup {NoThread}
  /\ pc \in [Threads -> Waiting \cup InMediaKeys \cup {"idle", "refused", "noKeys"}]
  /\ timedOut \in [Threads -> BOOLEAN]
  /\ ctor \in {"register", "initialize", "ready"}
  /\ initialState \in AppStates
  /\ control \in AppStates
  /\ registered \in BOOLEAN
  /\ notifying \in BOOLEAN

Init ==
  /\ appState = "UNKNOWN" /\ mediaKeys = FALSE /\ mutex = NoThread
  /\ pc = [t \in Threads |-> "idle"]
  /\ timedOut = [t \in Threads |-> FALSE]
  /\ ctor = "register" /\ initialState = "UNKNOWN"
  /\ control \in AppStates /\ registered = FALSE /\ notifying = FALSE

-------------------------------------------------------------------------------
(* createMediaKeys(): the member is overwritten whether or not the factory    *)
(* delivers.                                                                  *)
FactoryOutcomes == IF FactoryMayFail THEN BOOLEAN ELSE {TRUE}

CreateMediaKeys(created) ==
  /\ created \in FactoryOutcomes
  /\ mediaKeys' = created

(* A mistake for a run that must fail: nobody is told.                        *)
NotifyNobody == UNCHANGED pc

(* m_cv.notify_one(): one sleeper, if there is any.                           *)
NotifyOne ==
  LET sleepers == {t \in Threads : pc[t] = "asleep"}
  IN  IF sleepers = {}
        THEN UNCHANGED pc
        ELSE \E t \in sleepers : pc' = [pc EXCEPT ![t] = "signalled"]

(* Mistakes one could make in the operations below.  No behaviour uses them:  *)
(* each takes the place of one operation in a run that must then fail.        *)

(* initialize() does not look whether a notification overtook it.             *)
InitializeUnguarded ==
  /\ ctor = "initialize" /\ mutex = NoThread
  /\ ctor' = "ready"
  /\ appState' = initialState
  /\ mediaKeys' = (initialState = "RUNNING")
  /\ UNCHANGED <<mutex, calls, initialState, rialto>>

(* m_appState is assigned before createMediaKeys() is asked, not after.       *)
NotifyStateFirst ==
  /\ notifying /\ mutex = NoThread
  /\ notifying' = FALSE
  /\ appState' = control
  /\ \/ control = appState /\ UNCHANGED <<mediaKeys, pc>>
     \/ /\ control # appState /\ control = "RUNNING"
        /\ \E created \in BOOLEAN : CreateMediaKeys(created)
        /\ NotifyOne
     \/ /\ control # appState /\ control # "RUNNING"
        /\ mediaKeys' = FALSE /\ UNCHANGED pc
  /\ UNCHANGED <<mutex, timedOut, system, control, registered>>

(* notifyApplicationState() drops the object without taking the mutex.        *)
NotifyUnlocked ==
  /\ notifying
  /\ notifying' = FALSE
  /\ \/ control = appState /\ UNCHANGED <<locked, pc>>
     \/ /\ control # appState
        /\ mediaKeys' = (control = "RUNNING")
        /\ appState' = control
        /\ IF control = "RUNNING" THEN NotifyOne ELSE UNCHANGED pc
  /\ UNCHANGED <<mutex, timedOut, system, control, registered>>

(* It waits for every call to drain instead of for the mutex.                 *)
NotifyWhenDrained ==
  /\ notifying /\ \A t \in Threads : pc[t] = "idle"
  /\ notifying' = FALSE
  /\ appState' = control /\ mediaKeys' = (control = "RUNNING")
  /\ UNCHANGED <<mutex, calls, system, control, registered>>

(* wait_for without a predicate: any wake-up ends the wait.                   *)
WakeUntested(t) ==
  /\ pc[t] = "signalled" /\ mutex = NoThread
  /\ IF mediaKeys
       THEN mutex' = t /\ pc' = [pc EXCEPT ![t] = "inCreate"]
       ELSE UNCHANGED mutex /\ pc' = [pc EXCEPT ![t] = "refused"]
  /\ UNCHANGED <<locked, timedOut, system, rialto>>

(* wait instead of wait_for: there is no deadline.                            *)
DeadlineNever(t) ==
  /\ pc[t] \in Waiting /\ FALSE
  /\ UNCHANGED vars

-------------------------------------------------------------------------------
(* The constructor: registerClient fills in initialState, or leaves it alone  *)
(* when it fails (its result is ignored).  Without a Control object the       *)
(* constructor stops here.                                                    *)
Register ==
  /\ ctor = "register"
  /\ \/ /\ registered' = TRUE /\ initialState' = control /\ ctor' = "initialize"
     \/ /\ UNCHANGED <<registered, initialState>>
        /\ ctor' \in {"initialize", "ready"}
  /\ UNCHANGED <<locked, mutex, calls, control, notifying>>

(* initialize(): does nothing when a notification overtook it; its result is  *)
(* ignored by the constructor.                                                *)
Initialize ==
  /\ ctor = "initialize" /\ mutex = NoThread
  /\ ctor' = "ready"
  /\ \/ appState # "UNKNOWN" /\ UNCHANGED locked
     \/ /\ appState = "UNKNOWN" /\ initialState = "RUNNING"
        /\ \E created \in BOOLEAN :
             /\ CreateMediaKeys(created)
             /\ appState' = IF created THEN "RUNNING" ELSE appState
     \/ /\ appState = "UNKNOWN" /\ initialState # "RUNNING"
        /\ appState' = initialState /\ UNCHANGED mediaKeys
  /\ UNCHANGED <<mutex, calls, initialState, rialto>>

(* Rialto changes state; its thread then tells the registered clients.        *)
ControlChanges(state) ==
  /\ ~notifying /\ state # control
  /\ control' = state
  /\ notifying' = registered
  /\ UNCHANGED <<locked, mutex, calls, system, registered>>

NotifyApplicationState ==
  /\ notifying /\ mutex = NoThread
  /\ notifying' = FALSE
  /\ \/ control = appState /\ UNCHANGED <<locked, pc>>
     \/ /\ control # appState /\ control = "RUNNING"
        /\ \E created \in BOOLEAN :
             /\ CreateMediaKeys(created)
             /\ IF created THEN appState' = control /\ NotifyOne
                           ELSE UNCHANGED <<appState, pc>>
     \/ /\ control # appState /\ control # "RUNNING"
        /\ mediaKeys' = FALSE /\ appState' = control /\ UNCHANGED pc
  /\ UNCHANGED <<mutex, timedOut, system, control, registered>>

-------------------------------------------------------------------------------
(* Every forwarded call starts by testing m_mediaKeys and, when it is there,  *)
(* stays inside it with the mutex held.                                       *)
Forward(t, inside, otherwise) ==
  IF mediaKeys
    THEN mutex' = t /\ pc' = [pc EXCEPT ![t] = inside]
    ELSE UNCHANGED mutex /\ pc' = [pc EXCEPT ![t] = otherwise]

(* createKeySession(): the predicate is tested before sleeping.               *)
CreateKeySession(t) ==
  /\ ctor = "ready" /\ pc[t] = "idle" /\ mutex = NoThread
  /\ timedOut' = [timedOut EXCEPT ![t] = FALSE]
  /\ IF appState = "RUNNING"
       THEN Forward(t, "inCreate", "refused")
       ELSE pc' = [pc EXCEPT ![t] = "asleep"] /\ UNCHANGED mutex
  /\ UNCHANGED <<locked, system, rialto>>

(* A wake-up nobody asked for, which condition variables may produce.         *)
SpuriousWakeup(t) ==
  /\ pc[t] = "asleep"
  /\ pc' = [pc EXCEPT ![t] = "signalled"]
  /\ UNCHANGED <<locked, mutex, timedOut, system, rialto>>

(* A signalled sleeper gets the mutex back and tests the predicate again.     *)
Wake(t) ==
  /\ pc[t] = "signalled" /\ mutex = NoThread
  /\ IF appState = "RUNNING"
       THEN Forward(t, "inCreate", "refused")
       ELSE pc' = [pc EXCEPT ![t] = "asleep"] /\ UNCHANGED mutex
  /\ UNCHANGED <<locked, timedOut, system, rialto>>

(* The deadline: wait_for returns whatever the predicate says, and the caller *)
(* does not look at what it returned.                                         *)
Deadline(t) ==
  /\ pc[t] \in Waiting /\ mutex = NoThread
  /\ timedOut' = [timedOut EXCEPT ![t] = TRUE]
  /\ Forward(t, "inCreate", "refused")
  /\ UNCHANGED <<locked, system, rialto>>

(* Every other method: selectKeyId, containsKey, generateRequest, ...         *)
Call(t) ==
  /\ ctor = "ready" /\ pc[t] = "idle" /\ mutex = NoThread
  /\ Forward(t, "inCall", "noKeys")
  /\ UNCHANGED <<locked, timedOut, system, rialto>>

(* The IPC comes back with OK or an error, or there was nothing to call.      *)
Return(t) ==
  /\ pc[t] \in InMediaKeys \cup {"refused", "noKeys"}
  /\ pc' = [pc EXCEPT ![t] = "idle"]
  /\ mutex' = IF mutex = t THEN NoThread ELSE mutex
  /\ UNCHANGED <<locked, timedOut, system, rialto>>

ThreadStep(t) ==
  \/ CreateKeySession(t)
  \/ SpuriousWakeup(t)
  \/ Wake(t)
  \/ Deadline(t)
  \/ Call(t)
  \/ Return(t)

Next ==
  \/ Register
  \/ Initialize
  \/ \E state \in NotifiedStates : ControlChanges(state)
  \/ NotifyApplicationState
  \/ \E t \in Threads : ThreadStep(t)

(* The constructor runs on; an IPC returns; who waits for the mutex gets it   *)
(* in the end even if others keep taking it, and a passed deadline stays      *)
(* passed (wait_for computes it once), hence the strong fairness.             *)
Fairness ==
  /\ WF_vars(Register) /\ SF_vars(Initialize)
  /\ SF_vars(NotifyApplicationState)
  /\ \A t \in Threads : WF_vars(Return(t)) /\ SF_vars(Deadline(t))

Spec == Init /\ [][Next]_vars
FairSpec == Spec /\ Fairness

-------------------------------------------------------------------------------
(* RUNNING is remembered exactly while there is an IMediaKeys object, also    *)
(* after a factory failure in either of the two places that create one.  So   *)
(* a backend that could not create its keys on a RUNNING notification will    *)
(* try again at the next one instead of dropping it as "no change".           *)
RunningIffMediaKeys == appState = "RUNNING" <=> mediaKeys

(* createKeySession gives up for want of media keys only after it has waited  *)
(* its full second: neither a signal that was overtaken by a change to        *)
(* INACTIVE nor a spurious wake-up makes it fail early.                       *)
RefusedOnlyAfterDeadline ==
  \A t \in Threads : pc[t] = "refused" => timedOut[t]

(* Registration returns a state and notifications carry newer ones, in        *)
(* whatever order the two threads reach the mutex.  Once the constructor is   *)
(* done and nothing is under way, the backend is in Rialto's state; only a    *)
(* failed factory excuses it, and then in the direction of having no keys.    *)
Agrees(state) ==
  \/ state = control
  \/ FactoryMayFail /\ control = "RUNNING" /\ state # "RUNNING"

Settled == ctor = "ready" /\ registered /\ ~notifying

SettledAgreement == Settled => Agrees(appState)

(* Becoming RUNNING with sleepers in createKeySession wakes one of them,      *)
(* whichever thread gets there: initialize() does not notify, which is right  *)
(* only because nobody can be asleep before the constructor is done.          *)
WakesASleeper ==
  [][(appState # "RUNNING" /\ appState' = "RUNNING"
        /\ \E t \in Threads : pc[t] = "asleep")
     => \E t \in Threads : pc[t] = "asleep" /\ pc'[t] = "signalled"]_vars

(* The IMediaKeys object never goes away under a caller.                      *)
Gate == INSTANCE MediaKeysGate
          WITH present <- mediaKeys,
               inside <- {t \in Threads : pc[t] \in InMediaKeys}
ImplementsGate == Gate!Spec

(* A call comes back, and Rialto's thread is not held up for ever by callers. *)
CallsReturn == \A t \in Threads : pc[t] # "idle" ~> pc[t] = "idle"
NotificationsDelivered == notifying ~> ~notifying
===============================================================================
