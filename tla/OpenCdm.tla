-------------------------------- MODULE OpenCdm --------------------------------
(***************************************************************************)
(* The life of OpenCDM sessions: the application's threads call the        *)
(* opencdm_* functions, Rialto's thread delivers messages, and the two     *)
(* meet in ActiveSessions, in MessageDispatcher and in the sessions        *)
(* themselves.  Every call runs through the steps at which it takes a      *)
(* mutex or talks to Rialto, in the order of the code.                     *)
(*                                                                         *)
(* What the application is assumed to do: a handle is used by one thread   *)
(* at a time, and a session, which does not lock its members, is asked to  *)
(* do one thing at a time.  CdmBackend is represented by what              *)
(* MediaKeysGate says of it: the object is there or not.                   *)
(***************************************************************************)
EXTENDS Naturals, FiniteSets

CONSTANTS
  Threads,          \* application threads
  Sessions,         \* addresses of session objects
  Handles,          \* the application's OpenCDMSession* variables
  Keys,             \* key ids
  None,             \* no session, no handle, no message
  Playready,        \* the key system is PlayReady: sessions are initialized late
  MayGoInactive,    \* Rialto may leave RUNNING
  ClosesFirst,      \* the application closes a session before it destructs it
  MaxKeySessions,   \* bound: key sessions created in a behaviour
  MaxUnasked        \* bound: messages on their way when Rialto sends an unasked one

ASSUME OpenCdmAssumption ==
  /\ None \notin Threads \cup Sessions \cup Handles \cup Keys
  /\ IsFiniteSet(Handles)
  /\ {Playready, MayGoInactive, ClosesFirst} \subseteq BOOLEAN
  /\ MaxKeySessions \in Nat /\ MaxUnasked \in Nat

VARIABLES
  count, deleting, handle,                 \* ActiveSessions
  clients, message, remaining, callee, reached,     \* MessageDispatcher
  keySession,   \* of a session: m_rialtoSessionId, 0 for kInvalidSessionId
  initialized,  \* m_isInitialized
  challenge,    \* m_challengeData: the key session it is from, 0 if empty
  keyStatuses,  \* the keys in m_keyStatuses with a status but InternalError
  closed,       \* closeSession() has returned true
  call,         \* of a thread: the function it is in, how far, on which handle
  mediaKeys,    \* CdmBackend has an IMediaKeys object
  live,         \* Rialto's key sessions
  lastId,       \* the last key session id given out
  pending       \* messages Rialto has sent and that have not arrived

registry == <<count, deleting, handle>>
dispatcher == <<clients, message, remaining, callee, reached>>
members == <<keySession, initialized, challenge, keyStatuses, closed>>
rialto == <<mediaKeys, live, lastId, pending>>
vars == <<count, deleting, handle, clients, message, remaining, callee, reached,
          keySession, initialized, challenge, keyStatuses, closed, call,
          mediaKeys, live, lastId, pending>>

KeySessionIds == 1..MaxKeySessions
Invalid == 0

(* onLicenseRequest and onLicenseRenewal do the same to a session; a key      *)
(* status message names one key.                                              *)
License(id) == [id |-> id, about |-> "license"]
Messages == [id : KeySessionIds, about : Keys \cup {"license"}]

ASSUME MessagesAssumption == None \notin Messages

Registry == INSTANCE ActiveSessions WITH Null <- None
Dispatcher == INSTANCE MessageDispatcher WITH Clients <- Sessions

Places == {"create", "register", "generate", "wait", "close", "unregister",
           "clear", "remove", "delete"}
Functions == {"construct", "challenge", "close", "destruct"}
Idle == [in |-> "none", at |-> "idle", handle |-> None]
Calls == {Idle} \cup [in : Functions, at : Places, handle : Handles \cup {None}]

TypeOK ==
  /\ Registry!TypeOK /\ Dispatcher!TypeOK
  /\ keySession \in [Sessions -> KeySessionIds \cup {Invalid}]
  /\ initialized \in [Sessions -> BOOLEAN]
  /\ challenge \in [Sessions -> KeySessionIds \cup {0}]
  /\ keyStatuses \in [Sessions -> SUBSET Keys]
  /\ closed \in [Sessions -> BOOLEAN]
  /\ call \in [Threads -> Calls]
  /\ mediaKeys \in BOOLEAN
  /\ live \in SUBSET KeySessionIds
  /\ lastId \in 0..MaxKeySessions
  /\ pending \in SUBSET Messages

Init ==
  /\ Registry!Init /\ Dispatcher!Init
  /\ keySession = [s \in Sessions |-> Invalid]
  /\ initialized = [s \in Sessions |-> FALSE]
  /\ challenge = [s \in Sessions |-> 0]
  /\ keyStatuses = [s \in Sessions |-> {}]
  /\ closed = [s \in Sessions |-> FALSE]
  /\ call = [t \in Threads |-> Idle]
  /\ mediaKeys \in (IF MayGoInactive THEN BOOLEAN ELSE {TRUE})
  /\ live = {} /\ lastId = 0 /\ pending = {}

-------------------------------------------------------------------------------
(* Where threads are.                                                         *)
At(t, place) == call[t].at = place
SessionOf(t) == handle[call[t].handle]
Enter(t, function, place, h) ==
  call' = [call EXCEPT ![t] = [in |-> function, at |-> place, handle |-> h]]
Goto(t, place) == call' = [call EXCEPT ![t].at = place]
Return(t) == call' = [call EXCEPT ![t] = Idle]

(* A mistake for a run that must fail: construction does not clean up.        *)
GiveUpAtOnce(t, place) == place \in Places /\ Return(t)

(* Construction goes on to undo what it did; other functions return.          *)
GiveUp(t, place) == IF call[t].in = "construct" THEN Goto(t, place) ELSE Return(t)

MayUse(t, h) == At(t, "idle") /\ \A u \in Threads : call[u].handle # h

(* Nobody is asking s to do something.                                        *)
Quiet(s) ==
  \A u \in Threads : call[u].handle # None => SessionOf(u) # s

MayAsk(t, h) == MayUse(t, h) /\ handle[h] # None /\ Quiet(handle[h])

-------------------------------------------------------------------------------
(* opencdm_construct_session, from the new object to what it gives back.      *)
ConstructSession(t, h, s) ==
  /\ MayUse(t, h)
  /\ Registry!Create(h, s)
  /\ IF Playready THEN UNCHANGED call ELSE Enter(t, "construct", "create", h)
  /\ UNCHANGED <<dispatcher, members, rialto>>

(* initialize(): createKeySession fails, or Rialto gives out a new id.        *)
CreateKeySession(t) ==
  /\ At(t, "create")
  /\ \/ /\ mediaKeys /\ lastId < MaxKeySessions
        /\ lastId' = lastId + 1
        /\ live' = live \cup {lastId'}
        /\ keySession' = [keySession EXCEPT ![SessionOf(t)] = lastId']
        /\ Goto(t, "register")
     \/ GiveUp(t, "remove") /\ UNCHANGED <<lastId, live, keySession>>
  /\ UNCHANGED <<registry, dispatcher, initialized, challenge, keyStatuses, closed,
                 mediaKeys, pending>>

(* A mistake for a run that must fail: the session does not register.         *)
CreateNoClient(t) ==
  /\ At(t, "register") /\ message = None
  /\ initialized' = [initialized EXCEPT ![SessionOf(t)] = TRUE]
  /\ Goto(t, "generate")
  /\ UNCHANGED <<registry, dispatcher, keySession, challenge, keyStatuses, closed, rialto>>

(* The dispatcher's client is made, and with that registered.                 *)
CreateClient(t) ==
  /\ At(t, "register")
  /\ Dispatcher!AddClient(SessionOf(t))
  /\ initialized' = [initialized EXCEPT ![SessionOf(t)] = TRUE]
  /\ Goto(t, "generate")
  /\ UNCHANGED <<registry, keySession, challenge, keyStatuses, closed, rialto>>

(* generateRequest(): without a request there is no session to give back, nor *)
(* a challenge to wait for.                                                   *)
GenerateRequest(t) ==
  /\ At(t, "generate")
  /\ \/ /\ keySession[SessionOf(t)] \in live
        /\ pending' = pending \cup {License(keySession[SessionOf(t)])}
        /\ IF call[t].in = "construct" THEN Return(t) ELSE Goto(t, "wait")
     \/ GiveUp(t, "close") /\ UNCHANGED pending
  /\ UNCHANGED <<registry, dispatcher, members, mediaKeys, live, lastId>>

(* opencdm_session_get_challenge_data                                         *)
GetChallengeData(t, h) ==
  /\ MayAsk(t, h)
  /\ Enter(t, "challenge", IF initialized[handle[h]] THEN "generate" ELSE "create", h)
  /\ UNCHANGED <<registry, dispatcher, members, rialto>>

(* What is there is taken, be it the answer to an earlier request.            *)
ChallengeArrives(t) ==
  /\ At(t, "wait") /\ challenge[SessionOf(t)] # 0
  /\ Return(t)
  /\ UNCHANGED <<registry, dispatcher, members, rialto>>

-------------------------------------------------------------------------------
(* opencdm_session_close and opencdm_session_clean_decrypt_context            *)
CloseSession(t, h) ==
  /\ MayAsk(t, h)
  /\ Enter(t, "close", "close", h)
  /\ UNCHANGED <<registry, dispatcher, members, rialto>>

(* Mistakes for runs that must fail: the session stops listening before it    *)
(* knows whether it is closed; it forgets its challenge but not its keys.     *)
CloseKeySessionResetFirst(t) ==
  LET id == keySession[SessionOf(t)] IN
  /\ At(t, "close") /\ Dispatcher!RemoveClient(SessionOf(t))
  /\ \/ id \in live /\ live' = live \ {id} /\ Goto(t, "unregister")
     \/ UNCHANGED live /\ GiveUp(t, "remove")
  /\ UNCHANGED <<registry, members, mediaKeys, lastId, pending>>

ClearChallengeOnly(t) ==
  /\ At(t, "clear")
  /\ challenge' = [challenge EXCEPT ![SessionOf(t)] = 0]
  /\ closed' = [closed EXCEPT ![SessionOf(t)] = TRUE]
  /\ GiveUp(t, "remove")
  /\ UNCHANGED <<registry, dispatcher, keySession, initialized, keyStatuses, rialto>>

(* closeKeySession is refused, or fails on the way there, or on the way back. *)
CloseKeySession(t) ==
  LET id == keySession[SessionOf(t)] IN
  /\ At(t, "close")
  /\ \/ id \in live /\ live' = live \ {id} /\ Goto(t, "unregister")
     \/ live' \in {live, live \ {id}} /\ GiveUp(t, "remove")
  /\ UNCHANGED <<registry, dispatcher, members, mediaKeys, lastId, pending>>

ResetClient(t) ==
  /\ At(t, "unregister")
  /\ Dispatcher!RemoveClient(SessionOf(t))
  /\ Goto(t, "clear")
  /\ UNCHANGED <<registry, members, rialto>>

ClearMembers(t) ==
  /\ At(t, "clear")
  /\ challenge' = [challenge EXCEPT ![SessionOf(t)] = 0]
  /\ keyStatuses' = [keyStatuses EXCEPT ![SessionOf(t)] = {}]
  /\ closed' = [closed EXCEPT ![SessionOf(t)] = TRUE]
  /\ GiveUp(t, "remove")
  /\ UNCHANGED <<registry, dispatcher, keySession, initialized, rialto>>

-------------------------------------------------------------------------------
(* opencdm_destruct_session, by an application that closes first: the last    *)
(* reference goes only when there is no key session or it has been closed.    *)
MayDestruct(h) ==
  LET s == handle[h] IN
  ClosesFirst /\ count[s] = 1 => closed[s] \/ keySession[s] = Invalid

(* ActiveSessions::remove for h: the destructor is still to run if this was   *)
(* the last reference.                                                        *)
Remove(t, h) ==
  /\ Registry!Remove(h)
  /\ IF count[handle[h]] = 1 THEN Enter(t, "destruct", "delete", None) ELSE Return(t)
  /\ UNCHANGED <<dispatcher, members, rialto>>

DestructSession(t, h) ==
  /\ MayUse(t, h) /\ handle[h] # None /\ MayDestruct(h)
  /\ Remove(t, h)

RemoveFailedSession(t) == At(t, "remove") /\ Remove(t, call[t].handle)

(* A mistake for a run that must fail: nobody unregisters a session that was  *)
(* not closed.                                                                *)
DeleteRegistered(t) ==
  /\ At(t, "delete")
  /\ keySession' = [keySession EXCEPT ![deleting] = Invalid]
  /\ initialized' = [initialized EXCEPT ![deleting] = FALSE]
  /\ challenge' = [challenge EXCEPT ![deleting] = 0]
  /\ keyStatuses' = [keyStatuses EXCEPT ![deleting] = {}]
  /\ closed' = [closed EXCEPT ![deleting] = FALSE]
  /\ Registry!Delete
  /\ Return(t)
  /\ UNCHANGED <<dispatcher, rialto>>

(* ~OpenCDMSessionPrivate(): a session still registered unregisters, and for  *)
(* that waits for the dispatcher with ActiveSessions' mutex held.  Then the   *)
(* memory is free, and its members are what the next constructor makes them.  *)
DeleteSession(t) ==
  /\ At(t, "delete")
  /\ IF deleting \in clients THEN Dispatcher!RemoveClient(deleting) ELSE UNCHANGED dispatcher
  /\ keySession' = [keySession EXCEPT ![deleting] = Invalid]
  /\ initialized' = [initialized EXCEPT ![deleting] = FALSE]
  /\ challenge' = [challenge EXCEPT ![deleting] = 0]
  /\ keyStatuses' = [keyStatuses EXCEPT ![deleting] = {}]
  /\ closed' = [closed EXCEPT ![deleting] = FALSE]
  /\ Registry!Delete
  /\ Return(t)
  /\ UNCHANGED rialto

(* opencdm_get_session and opencdm_get_system_session, when there is a        *)
(* session that knows the key.                                                *)
GetSession(t, h, s) ==
  /\ MayUse(t, h) /\ keyStatuses[s] # {}
  /\ Registry!Get(h, s)
  /\ UNCHANGED <<dispatcher, members, call, rialto>>

-------------------------------------------------------------------------------
(* Rialto.  It may ask for a licence or report on a key as long as the key    *)
(* session lives: at once, after opencdm_session_load or _update, or unasked. *)
RialtoSends(m) ==
  /\ Cardinality(pending) < MaxUnasked
  /\ m.id \in live /\ pending' = pending \cup {m}
  /\ UNCHANGED <<registry, dispatcher, members, call, mediaKeys, live, lastId>>

(* The IMediaKeys object goes and takes the key sessions with it; what was on *)
(* its way may or may not arrive.                                             *)
GoInactive ==
  /\ MayGoInactive /\ mediaKeys
  /\ mediaKeys' = FALSE /\ live' = {} /\ pending' \in {pending, {}}
  /\ UNCHANGED <<registry, dispatcher, members, call, lastId>>

GoRunning ==
  /\ ~mediaKeys /\ mediaKeys' = TRUE
  /\ UNCHANGED <<registry, dispatcher, members, call, live, lastId, pending>>

(* Rialto's thread.                                                           *)
BeginDispatch(m) ==
  /\ m \in pending /\ pending' = pending \ {m}
  /\ Dispatcher!BeginDispatch(m)
  /\ UNCHANGED <<registry, members, call, mediaKeys, live, lastId>>

(* A mistake for a run that must fail: a challenge for anybody is taken in.   *)
OnAnyLicense(s, m) == challenge' = [challenge EXCEPT ![s] = m.id]

(* A session takes in what is about its own key session.                      *)
OnLicense(s, m) ==
  challenge' = IF m.id = keySession[s] THEN [challenge EXCEPT ![s] = m.id] ELSE challenge

OnKeyStatusesChanged(s, m) ==
  IF m.id = keySession[s]
    THEN \E known \in BOOLEAN :
           keyStatuses' = [keyStatuses EXCEPT ![s] =
                             IF known THEN @ \cup {m.about} ELSE @ \ {m.about}]
    ELSE UNCHANGED keyStatuses

Deliver(s) ==
  /\ Dispatcher!CallClient(s)
  /\ IF message.about = "license"
       THEN OnLicense(s, message) /\ UNCHANGED keyStatuses
       ELSE OnKeyStatusesChanged(s, message) /\ UNCHANGED challenge
  /\ UNCHANGED <<registry, keySession, initialized, closed, call, rialto>>

(* A mistake for a run that must fail: the callback looks its session up with *)
(* opencdm_get_session, and so waits for ActiveSessions' mutex.               *)
CallbackLooksUp ==
  /\ deleting = None
  /\ Dispatcher!ClientReturns /\ UNCHANGED <<registry, members, call, rialto>>

(* The application's callbacks return without calling back.                   *)
CallbackReturns ==
  Dispatcher!ClientReturns /\ UNCHANGED <<registry, members, call, rialto>>

EndDispatch ==
  Dispatcher!EndDispatch /\ UNCHANGED <<registry, members, call, rialto>>

-------------------------------------------------------------------------------
(* What a thread does by itself once it is in a function.                     *)
Proceed(t) ==
  \/ CreateKeySession(t) \/ CreateClient(t) \/ GenerateRequest(t) \/ ChallengeArrives(t)
  \/ CloseKeySession(t) \/ ResetClient(t) \/ ClearMembers(t)
  \/ RemoveFailedSession(t) \/ DeleteSession(t)

Application ==
  \E t \in Threads :
    \/ Proceed(t)
    \/ \E h \in Handles :
         \/ GetChallengeData(t, h) \/ CloseSession(t, h) \/ DestructSession(t, h)
         \/ \E s \in Sessions : ConstructSession(t, h, s) \/ GetSession(t, h, s)

RialtoThread ==
  \/ \E m \in Messages : BeginDispatch(m)
  \/ \E s \in Sessions : Deliver(s)
  \/ CallbackReturns
  \/ EndDispatch

Rialto ==
  \/ \E m \in Messages : RialtoSends(m)
  \/ GoInactive
  \/ GoRunning

Next == Application \/ RialtoThread \/ Rialto

Spec == Init /\ [][Next]_vars

(* An IPC ends, a callback returns, and whoever waits for a mutex gets it in  *)
(* the end, although others keep taking it.                                   *)
Fairness ==
  /\ \A t \in Threads : SF_vars(Proceed(t))
  /\ \A m \in Messages : SF_vars(BeginDispatch(m))
  /\ \A s \in Sessions : WF_vars(Deliver(s))
  /\ WF_vars(CallbackReturns) /\ WF_vars(EndDispatch)

FairSpec == Spec /\ Fairness

-------------------------------------------------------------------------------
(* Rialto's thread never gets to an address that is no session's: a session   *)
(* is in the dispatcher, and in a walk under way, only while it exists.       *)
EventsReachObjects ==
  \A s \in clients \cup remaining \cup ({callee} \ {None}) : Registry!Exists(s)

(* A session that was closed hears nothing any more and knows no keys: it is  *)
(* never found by opencdm_get_session, and messages that were on their way    *)
(* when it was closed do not bring its keys or its challenge back.  It is the *)
(* destruction of an unclosed session only that Rialto's thread can run into. *)
ClosedIsSilent ==
  \A s \in Sessions :
    closed[s] => /\ s \notin clients \cup remaining /\ callee # s
                 /\ challenge[s] = 0 /\ keyStatuses[s] = {}

(* As long as its key session lives, an initialized session hears of it, also *)
(* after an attempt to close it that failed.                                  *)
InitializedListens ==
  \A s \in Sessions : initialized[s] /\ keySession[s] \in live => s \in clients

(* A session never has the challenge of another one, although every message   *)
(* is shown to every session and addresses are used again.                    *)
OwnChallenge ==
  \A s \in Sessions : challenge[s] \in {0, keySession[s]}

(* What opencdm_construct_session leaves to the application is a session that *)
(* is initialized, or, with PlayReady, one that is to be initialized later: a *)
(* construction that failed leaves none.                                      *)
GivenIsInitialized ==
  \A h \in Handles :
    \/ handle[h] = None \/ Playready
    \/ \E t \in Threads : call[t].in = "construct" /\ call[t].handle = h
    \/ initialized[handle[h]]

(* Every call returns: the mutexes of ActiveSessions and MessageDispatcher,   *)
(* which a delete takes one inside the other, do not lock threads out, and a  *)
(* challenge that was asked for comes as long as Rialto is RUNNING.           *)
CallsReturn == \A t \in Threads : ~At(t, "idle") ~> At(t, "idle")

(* A session that the application has given back is freed.                    *)
SessionsAreFreed ==
  \A s \in Sessions :
    Registry!Exists(s) /\ Registry!HandlesTo(s) = {} ~> ~Registry!Exists(s)

(* The comment in opencdm_destruct_session: the media key session has been    *)
(* destructed by then, in opencdm_session_close or _clean_decrypt_context.    *)
MksIsDestructed ==
  \A id \in live : \E s \in Sessions : keySession[s] = id
===============================================================================
