----------------------------- MODULE OpenCdmProofs -----------------------------
(***************************************************************************)
(* Proofs about OpenCdm for any threads, sessions, handles and keys: what  *)
(* Rialto's thread can reach, what a closed session is, and what a         *)
(* construction leaves.  ActiveSessions and MessageDispatcher bring their  *)
(* own invariants with them.  At the end, SessionCalls: what threads that  *)
(* share a session may count on, for any number of them.                   *)
(***************************************************************************)
EXTENDS SessionCalls, FiniteSetTheorems, TLAPS

RegistryProofs == INSTANCE ActiveSessionsProofs WITH Null <- None
DispatcherProofs == INSTANCE MessageDispatcherProofs WITH Clients <- Sessions

-------------------------------------------------------------------------------
(* A thread inside a function of a session has a handle to it, and no two     *)
(* threads are inside functions of one session.                               *)
InsideHasHandle ==
  \A t \in Threads :
    /\ call[t].handle = None <=> call[t].at \in {"idle", "delete"}
    /\ call[t].handle # None => SessionOf(t) # None

OneAtATime ==
  \A t, u \in Threads :
    call[t].handle # None /\ call[u].handle # None /\ SessionOf(t) = SessionOf(u) => t = u

(* What the place that a thread has reached says about its session.           *)
PlacesFit ==
  \A t \in Threads :
    /\ At(t, "create") => ~initialized[SessionOf(t)] /\ keySession[SessionOf(t)] = Invalid
    /\ At(t, "register") => ~initialized[SessionOf(t)]
    /\ call[t].at \in {"generate", "wait", "unregister", "clear"} => initialized[SessionOf(t)]
    /\ At(t, "unregister") => keySession[SessionOf(t)] \notin live
    /\ At(t, "clear") => SessionOf(t) \notin clients

(* Registered sessions exist and are initialized; memory that is no session's *)
(* is as the constructor will leave it.                                       *)
ClientsAreSessions == \A s \in clients : Registry!Exists(s) /\ initialized[s]

UnusedIsUninitialized ==
  \A s \in Sessions : ~Registry!Exists(s) => ~initialized[s] /\ keySession[s] = Invalid

(* Between the new key session and the client there is a thread at work.      *)
InitializedOnceCreated ==
  \A s \in Sessions :
    keySession[s] # Invalid =>
      initialized[s] \/ \E t \in Threads : At(t, "register") /\ SessionOf(t) = s

OnlyInitializedHearOrClose ==
  \A s \in Sessions : closed[s] \/ keyStatuses[s] # {} => initialized[s]

IdsAreGivenOut == (\A s \in Sessions : keySession[s] <= lastId) /\ (\A id \in live : id <= lastId)

SessionInv ==
  /\ InsideHasHandle /\ OneAtATime /\ PlacesFit
  /\ ClientsAreSessions /\ UnusedIsUninitialized /\ InitializedOnceCreated
  /\ OnlyInitializedHearOrClose /\ IdsAreGivenOut
  /\ ClosedIsSilent /\ InitializedListens /\ OwnChallenge /\ GivenIsInitialized

Inv == TypeOK /\ RegistryProofs!Inv /\ DispatcherProofs!Inv /\ SessionInv

-------------------------------------------------------------------------------
(* Steps of the registry and of the dispatcher keep their invariants.         *)
LEMMA RegistryStep ==
  ASSUME RegistryProofs!Inv, [Registry!Next]_registry PROVE RegistryProofs!Inv'
<1>1. RegistryProofs!Next <=> Registry!Next
  BY DEF RegistryProofs!Next, Registry!Next, RegistryProofs!Remove, Registry!Remove,
         RegistryProofs!Create, Registry!Create, RegistryProofs!Get, Registry!Get,
         RegistryProofs!Delete, Registry!Delete, RegistryProofs!Exists, Registry!Exists
<1> QED
  BY <1>1, RegistryProofs!NextInv, OpenCdmAssumption
     DEF registry, RegistryProofs!registryVars, IsFiniteSet, RegistryProofs!IsFiniteSet

LEMMA DispatcherStep ==
  ASSUME DispatcherProofs!Inv, [Dispatcher!Next]_dispatcher PROVE DispatcherProofs!Inv'
<1>1. DispatcherProofs!Next <=> Dispatcher!Next
  BY DEF DispatcherProofs!Next, Dispatcher!Next, DispatcherProofs!AddClient,
         Dispatcher!AddClient, DispatcherProofs!RemoveClient, Dispatcher!RemoveClient,
         DispatcherProofs!CallClient, Dispatcher!CallClient, DispatcherProofs!BeginDispatch,
         Dispatcher!BeginDispatch, DispatcherProofs!ClientReturns, Dispatcher!ClientReturns,
         DispatcherProofs!EndDispatch, Dispatcher!EndDispatch
<1> QED
  BY <1>1, DispatcherProofs!NextInv, OpenCdmAssumption, MessagesAssumption
     DEF dispatcher, DispatcherProofs!dispatcherVars

-------------------------------------------------------------------------------
(* What the invariant says about handles: a handle that is not null is to a   *)
(* session that is counted, and nobody has one to the session being deleted.  *)
LEMMA Held ==
  ASSUME Inv
  PROVE  /\ count \in [Sessions -> Nat] /\ handle \in [Handles -> Sessions \cup {None}]
         /\ deleting \in Sessions \cup {None}
         /\ \A h \in Handles : handle[h] # None =>
              handle[h] \in Sessions /\ count[handle[h]] > 0
         /\ deleting # None => count[deleting] = 0
<1>1. count \in [Sessions -> Nat] /\ handle \in [Handles -> Sessions \cup {None}]
      /\ deleting \in Sessions \cup {None}
  BY DEF Inv, TypeOK, Registry!TypeOK
<1>2. deleting # None => count[deleting] = 0
  BY DEF Inv, RegistryProofs!Inv, RegistryProofs!DeletedIsUnreferenced
<1>3. ASSUME NEW h \in Handles, handle[h] # None
      PROVE  handle[h] \in Sessions /\ count[handle[h]] > 0
  <2>1. handle[h] \in Sessions
    BY <1>1, <1>3
  <2> QED
    BY <2>1, RegistryProofs!PositiveMeansHeld, OpenCdmAssumption
       DEF Inv, IsFiniteSet, RegistryProofs!IsFiniteSet
<1> QED
  BY <1>1, <1>2, <1>3

(* Where a thread is inside a function of a session.                          *)
LEMMA Inside ==
  ASSUME Inv, NEW t \in Threads, call[t].at \notin {"idle", "delete"}
  PROVE  /\ call[t].handle \in Handles /\ SessionOf(t) \in Sessions
         /\ count[SessionOf(t)] > 0 /\ SessionOf(t) # deleting
<1>1. call[t].handle \in Handles
  BY OpenCdmAssumption DEF Inv, SessionInv, TypeOK, InsideHasHandle, Calls, Idle
<1>2. SessionOf(t) # None
  BY DEF Inv, SessionInv, InsideHasHandle
<1> QED
  BY <1>1, <1>2, Held, OpenCdmAssumption DEF SessionOf

(* A step of the library or of Rialto is a step of the registry, or does not  *)
(* concern it; the same goes for the dispatcher.                              *)
LEMMA RegistryUse ==
  ASSUME Inv, [Next]_vars PROVE [Registry!Next]_registry
<1>1. ASSUME NEW t \in Threads, Proceed(t) PROVE [Registry!Next]_registry
  <2>1. ASSUME RemoveFailedSession(t) PROVE Registry!Next
    BY <2>1, Inside DEF RemoveFailedSession, Remove, At, Registry!Next
  <2>2. ASSUME DeleteSession(t) PROVE Registry!Next
    BY <2>2 DEF DeleteSession, Registry!Next
  <2> QED
    BY <1>1, <2>1, <2>2 DEF Proceed, CreateKeySession, CreateClient, GenerateRequest,
       ChallengeArrives, CloseKeySession, ResetClient, ClearMembers, registry
<1>2. ASSUME NEW t \in Threads, NEW h \in Handles,
             GetChallengeData(t, h) \/ CloseSession(t, h) \/ DestructSession(t, h)
      PROVE  [Registry!Next]_registry
  BY <1>2 DEF GetChallengeData, CloseSession, DestructSession, Remove, Registry!Next, registry
<1>3. ASSUME NEW t \in Threads, NEW h \in Handles, NEW s \in Sessions,
             ConstructSession(t, h, s) \/ GetSession(t, h, s)
      PROVE  [Registry!Next]_registry
  BY <1>3 DEF ConstructSession, GetSession, Registry!Next
<1>4. ASSUME RialtoThread \/ Rialto PROVE UNCHANGED registry
  BY <1>4 DEF RialtoThread, Rialto, BeginDispatch, Deliver, CallbackReturns, EndDispatch,
     RialtoSends, GoInactive, GoRunning
<1>5. ASSUME UNCHANGED vars PROVE UNCHANGED registry
  BY <1>5 DEF vars, registry
<1> QED
  BY <1>1, <1>2, <1>3, <1>4, <1>5 DEF Next, Application

LEMMA RegistryInvariant ==
  ASSUME Inv, [Next]_vars PROVE RegistryProofs!Inv'
  BY RegistryUse, RegistryStep DEF Inv

LEMMA DispatcherUse ==
  ASSUME Inv, [Next]_vars PROVE [Dispatcher!Next]_dispatcher
<1>1. ASSUME NEW t \in Threads, Proceed(t) PROVE [Dispatcher!Next]_dispatcher
  <2>1. ASSUME CreateClient(t) \/ ResetClient(t) PROVE Dispatcher!Next
    BY <2>1, Inside DEF CreateClient, ResetClient, At, Dispatcher!Next
  <2>2. ASSUME DeleteSession(t) PROVE [Dispatcher!Next]_dispatcher
    BY <2>2, Held DEF DeleteSession, Dispatcher!Next, Registry!Delete
  <2> QED
    BY <1>1, <2>1, <2>2 DEF Proceed, CreateKeySession, GenerateRequest,
       ChallengeArrives, CloseKeySession, ClearMembers, RemoveFailedSession, Remove, dispatcher
<1>2. ASSUME NEW t \in Threads, NEW h \in Handles,
             \/ GetChallengeData(t, h) \/ CloseSession(t, h) \/ DestructSession(t, h)
             \/ \E s \in Sessions : ConstructSession(t, h, s) \/ GetSession(t, h, s)
      PROVE  UNCHANGED dispatcher
  BY <1>2 DEF GetChallengeData, CloseSession, DestructSession, Remove, ConstructSession,
     GetSession
<1>3. ASSUME RialtoThread PROVE Dispatcher!Next
  BY <1>3 DEF RialtoThread, BeginDispatch, Deliver, CallbackReturns, EndDispatch,
     Dispatcher!Next
<1>4. ASSUME Rialto \/ UNCHANGED vars PROVE UNCHANGED dispatcher
  BY <1>4 DEF Rialto, RialtoSends, GoInactive, GoRunning, vars, dispatcher
<1> QED
  BY <1>1, <1>2, <1>3, <1>4 DEF Next, Application

LEMMA DispatcherInvariant ==
  ASSUME Inv, [Next]_vars PROVE DispatcherProofs!Inv'
  BY DispatcherUse, DispatcherStep DEF Inv

(* What the steps of a thread do to where threads are.                        *)
LEMMA AfterGoto ==
  ASSUME TypeOK, NEW t \in Threads, ~At(t, "idle"), NEW place \in Places, Goto(t, place)
  PROVE  /\ call' \in [Threads -> Calls]
         /\ \A u \in Threads :
              /\ call'[u].at = IF u = t THEN place ELSE call[u].at
              /\ call'[u].handle = call[u].handle /\ call'[u].in = call[u].in
<1>1. call[t] \in Calls \ {Idle}
  BY DEF TypeOK, At, Idle
<1> QED
  BY <1>1 DEF Goto, TypeOK, Calls, Idle

LEMMA AfterEnter ==
  ASSUME TypeOK, NEW t \in Threads, NEW function \in Functions, NEW place \in Places,
         NEW h \in Handles \cup {None}, Enter(t, function, place, h)
  PROVE  /\ call' \in [Threads -> Calls]
         /\ \A u \in Threads :
              /\ call'[u].at = IF u = t THEN place ELSE call[u].at
              /\ call'[u].handle = IF u = t THEN h ELSE call[u].handle
              /\ call'[u].in = IF u = t THEN function ELSE call[u].in
  BY DEF Enter, TypeOK, Calls

LEMMA AfterReturn ==
  ASSUME TypeOK, NEW t \in Threads, Return(t)
  PROVE  /\ call' \in [Threads -> Calls]
         /\ \A u \in Threads :
              /\ call'[u].at = IF u = t THEN "idle" ELSE call[u].at
              /\ call'[u].handle = IF u = t THEN None ELSE call[u].handle
              /\ call'[u].in = IF u = t THEN "none" ELSE call[u].in
  BY DEF Return, TypeOK, Calls, Idle

LEMMA AfterGiveUp ==
  ASSUME TypeOK, NEW t \in Threads, ~At(t, "idle"), NEW place \in Places, GiveUp(t, place)
  PROVE  /\ call' \in [Threads -> Calls]
         /\ \A u \in Threads : u # t => call'[u] = call[u]
         /\ \/ /\ call'[t].at = place /\ call'[t].handle = call[t].handle
               /\ call'[t].in = call[t].in
            \/ /\ call'[t].at = "idle" /\ call'[t].handle = None /\ call'[t].in = "none"
               /\ call[t].in # "construct"
<1>1. \A u \in Threads : u # t => call'[u] = call[u]
  BY DEF GiveUp, Goto, Return, TypeOK
<1> QED
  BY <1>1, AfterGoto, AfterReturn DEF GiveUp

(* The registry and the dispatcher keep their types.                          *)
LEMMA PartsKeepTypes ==
  ASSUME Inv, [Next]_vars PROVE Registry!TypeOK' /\ Dispatcher!TypeOK'
  BY RegistryInvariant, DispatcherInvariant
     DEF RegistryProofs!Inv, DispatcherProofs!Inv, Registry!TypeOK, RegistryProofs!TypeOK,
         Dispatcher!TypeOK, DispatcherProofs!TypeOK

-------------------------------------------------------------------------------
(* A thread that goes on with its session, or leaves it, disturbs nobody.     *)
Moves(t) ==
  /\ \A u \in Threads : u # t => call'[u] = call[u]
  /\ \/ call'[t].handle = call[t].handle /\ call'[t].at \notin {"idle", "delete"}
     \/ call'[t].handle = None /\ call'[t].at \in {"idle", "delete"}

LEMMA ThreadMoves ==
  ASSUME Inv, NEW t \in Threads, call[t].at \notin {"idle", "delete"}, Moves(t), UNCHANGED handle
  PROVE  InsideHasHandle' /\ OneAtATime' /\ \A u \in Threads : u # t => SessionOf(u)' = SessionOf(u)
<1>1. \A u \in Threads : u # t => SessionOf(u)' = SessionOf(u)
  BY DEF Moves, SessionOf
<1>2. call'[t].handle # None => SessionOf(t)' = SessionOf(t) /\ call[t].handle # None
  BY Inside, OpenCdmAssumption DEF Moves, SessionOf
<1>3. InsideHasHandle'
  BY <1>1, <1>2, Inside, OpenCdmAssumption DEF Inv, SessionInv, InsideHasHandle, Moves
<1>4. OneAtATime'
  BY <1>1, <1>2 DEF Inv, SessionInv, OneAtATime, Moves
<1> QED
  BY <1>1, <1>3, <1>4

(* As long as nothing happens to sessions, the parts that are about them hold *)
(* whatever threads do; key sessions may end.                                 *)
SessionsStay == UNCHANGED <<registry, dispatcher, members, lastId>> /\ live' \subseteq live

LEMMA StayingSessions ==
  ASSUME Inv, SessionsStay
  PROVE  /\ ClientsAreSessions' /\ UnusedIsUninitialized' /\ OnlyInitializedHearOrClose'
         /\ IdsAreGivenOut' /\ ClosedIsSilent' /\ InitializedListens' /\ OwnChallenge'
<1> USE DEF Inv, SessionInv, SessionsStay, registry, dispatcher, members
<1>1. ClientsAreSessions' /\ UnusedIsUninitialized'
  BY DEF ClientsAreSessions, UnusedIsUninitialized, Registry!Exists
<1>2. OnlyInitializedHearOrClose' /\ IdsAreGivenOut'
  BY DEF OnlyInitializedHearOrClose, IdsAreGivenOut
<1>3. ClosedIsSilent' /\ InitializedListens' /\ OwnChallenge'
  BY DEF ClosedIsSilent, InitializedListens, OwnChallenge
<1> QED
  BY <1>1, <1>2, <1>3

(* A thread that moves while nothing happens to sessions, and does so neither *)
(* from the step before the client nor out of a construction of which nothing *)
(* is known.                                                                  *)
LEMMA MovingOn ==
  ASSUME Inv, SessionsStay, NEW t \in Threads, Moves(t),
         call[t].at \notin {"idle", "delete", "register"},
         call'[t].at \in {"idle", "remove", "close", "wait", "unregister"},
         call'[t].at \in {"wait", "unregister"} => initialized[SessionOf(t)],
         call'[t].at = "unregister" => keySession[SessionOf(t)] \notin live',
         call[t].in = "construct" =>
           initialized[SessionOf(t)] \/ (call'[t].in = "construct" /\ call'[t].handle # None)
  PROVE  SessionInv'
<1> USE DEF SessionsStay, registry, dispatcher, members
<1>1. InsideHasHandle' /\ OneAtATime' /\ \A u \in Threads : u # t => SessionOf(u)' = SessionOf(u)
  BY ThreadMoves
<1>2. call'[t].at # "idle" => SessionOf(t)' = SessionOf(t)
  BY DEF Moves, SessionOf
<1>3. PlacesFit'
  BY <1>1, <1>2 DEF Inv, SessionInv, PlacesFit, Moves, At
<1>4. InitializedOnceCreated'
  BY <1>1 DEF Inv, SessionInv, InitializedOnceCreated, Moves, At
<1>5. GivenIsInitialized'
  <2> SUFFICES ASSUME NEW h \in Handles, handle[h] # None, ~Playready, ~initialized[handle[h]]
               PROVE  \E u \in Threads : call'[u].in = "construct" /\ call'[u].handle = h
    BY DEF GivenIsInitialized
  <2>1. PICK u \in Threads : call[u].in = "construct" /\ call[u].handle = h
    BY DEF Inv, SessionInv, GivenIsInitialized
  <2> QED
    BY <2>1 DEF Moves, SessionOf
<1> QED
  BY <1>1, <1>3, <1>4, <1>5, StayingSessions DEF SessionInv

LEMMA GivingUp ==
  ASSUME Inv, SessionsStay, NEW t \in Threads, NEW place \in {"remove", "close"}, GiveUp(t, place),
         call[t].at \notin {"idle", "delete", "register"}
  PROVE  SessionInv'
<1>1. TypeOK /\ place \in Places /\ ~At(t, "idle") /\ call[t].handle \in Handles
  BY Inside DEF Inv, Places, At
<1>2. /\ Moves(t) /\ call'[t].at \in {"idle", "remove", "close"}
      /\ call[t].in = "construct" => call'[t].in = "construct" /\ call'[t].handle # None
  BY <1>1, AfterGiveUp, OpenCdmAssumption DEF Moves
<1> QED
  BY <1>2, MovingOn

-------------------------------------------------------------------------------
(* One lemma for each kind of step.                                           *)
LEMMA CreateKeySessionKeeps ==
  ASSUME Inv, NEW t \in Threads, CreateKeySession(t) PROVE SessionInv'
<1> DEFINE s == SessionOf(t)
<1>1. /\ s \in Sessions /\ count[s] > 0 /\ call[t].handle \in Handles
      /\ At(t, "create") /\ ~initialized[s] /\ keySession[s] = Invalid
  BY Inside DEF CreateKeySession, Inv, SessionInv, PlacesFit, At
<1>u. UNCHANGED <<registry, dispatcher, initialized, challenge, keyStatuses, closed,
                 mediaKeys, pending>>
  BY DEF CreateKeySession
<1>s. TypeOK
  BY DEF Inv
<1>2. CASE keySession' = keySession
  <2>1. UNCHANGED <<lastId, live, keySession>> /\ GiveUp(t, "remove")
    BY <1>2, <1>1 DEF CreateKeySession, Inv, TypeOK, Invalid
  <2> QED
    BY <2>1, <1>1, <1>u, GivingUp DEF SessionsStay, members, At
<1>3. CASE keySession' # keySession
  <2>1. /\ lastId' = lastId + 1 /\ live' = live \cup {lastId'}
        /\ keySession' = [keySession EXCEPT ![s] = lastId'] /\ Goto(t, "register")
    BY <1>3 DEF CreateKeySession
  <2>2. lastId \in Nat /\ keySession \in [Sessions -> Nat] /\ live \in SUBSET Nat
    BY OpenCdmAssumption DEF Inv, TypeOK, KeySessionIds, Invalid
  <2>3. \A u \in Threads :
              /\ call'[u].at = IF u = t THEN "register" ELSE call[u].at
              /\ call'[u].handle = call[u].handle /\ call'[u].in = call[u].in
    BY <1>1, <1>s, <2>1, AfterGoto DEF Places, At
  <2>4. \A u \in Threads : SessionOf(u)' = SessionOf(u)
    BY <2>3, <1>u DEF SessionOf, registry
  <2>a. InsideHasHandle'
    BY <2>3, <2>4, <1>1 DEF Inv, SessionInv, InsideHasHandle, At
  <2>b. OneAtATime'
    BY <2>3, <2>4, <1>1 DEF Inv, SessionInv, OneAtATime
  <2>c. PlacesFit'
    BY <2>3, <2>4, <1>1, <1>u, <2>1, <2>2, Inside DEF Inv, SessionInv, PlacesFit, OneAtATime, InsideHasHandle, IdsAreGivenOut, At, registry, dispatcher
  <2>d. ClientsAreSessions' /\ OnlyInitializedHearOrClose' /\ ClosedIsSilent'
    BY <1>u DEF Inv, SessionInv, ClientsAreSessions, OnlyInitializedHearOrClose, ClosedIsSilent, Registry!Exists, registry, dispatcher
  <2>e. UnusedIsUninitialized'
    BY <1>u, <1>1, <2>1 DEF Inv, SessionInv, UnusedIsUninitialized, Registry!Exists, registry, dispatcher
  <2>f. InitializedOnceCreated'
    BY <1>u, <1>1, <2>1, <2>2, <2>3, <2>4 DEF Inv, SessionInv, InitializedOnceCreated, At
  <2>g. IdsAreGivenOut'
    BY <1>1, <2>1, <2>2 DEF Inv, SessionInv, IdsAreGivenOut
  <2>h. InitializedListens'
    BY <1>u, <1>1, <2>1, <2>2 DEF Inv, SessionInv, IdsAreGivenOut, InitializedListens, dispatcher
  <2>i. OwnChallenge'
    BY <1>u, <1>1, <2>1, <2>2 DEF Inv, SessionInv, OwnChallenge, Invalid
  <2>j. GivenIsInitialized'
    BY <1>u, <1>1, <2>3 DEF Inv, SessionInv, GivenIsInitialized, registry
  <2> QED
    BY <2>a, <2>b, <2>c, <2>d, <2>e, <2>f, <2>g, <2>h, <2>i, <2>j DEF SessionInv
<1> QED
  BY <1>2, <1>3

LEMMA CreateClientKeeps ==
  ASSUME Inv, NEW t \in Threads, CreateClient(t) PROVE SessionInv'
<1> DEFINE s == SessionOf(t)
<1>1. /\ s \in Sessions /\ count[s] > 0 /\ call[t].handle \in Handles
      /\ At(t, "register") /\ ~initialized[s] /\ s \notin clients
  BY Inside DEF CreateClient, Inv, SessionInv, PlacesFit, ClientsAreSessions, At
<1>2. /\ initialized' = [initialized EXCEPT ![s] = TRUE] /\ clients' = clients \cup {s}
      /\ UNCHANGED <<registry, message, remaining, callee, reached, keySession, challenge, keyStatuses,
                     closed, rialto>>
  BY DEF CreateClient, Dispatcher!AddClient
<1>3. initialized \in [Sessions -> BOOLEAN]
  BY DEF Inv, TypeOK
<1>4. \A u \in Threads :
        /\ call'[u].at = IF u = t THEN "generate" ELSE call[u].at
        /\ call'[u].handle = call[u].handle /\ call'[u].in = call[u].in
  BY <1>1, AfterGoto DEF CreateClient, Inv, Places, At
<1>5. \A u \in Threads : SessionOf(u)' = SessionOf(u)
  BY <1>2, <1>4 DEF SessionOf, registry
<1> USE DEF Inv, SessionInv, registry, rialto
<1>6. InsideHasHandle' /\ OneAtATime'
  BY <1>1, <1>4, <1>5 DEF InsideHasHandle, OneAtATime, At
<1>7. PlacesFit'
  BY <1>1, <1>2, <1>3, <1>4, <1>5, Inside DEF PlacesFit, OneAtATime, InsideHasHandle, At
<1>8. ClientsAreSessions' /\ UnusedIsUninitialized' /\ OnlyInitializedHearOrClose'
  BY <1>1, <1>2, <1>3 DEF ClientsAreSessions, UnusedIsUninitialized, OnlyInitializedHearOrClose,
     Registry!Exists, TypeOK
<1>9. InitializedOnceCreated' /\ IdsAreGivenOut'
  BY <1>1, <1>2, <1>3, <1>4, <1>5 DEF InitializedOnceCreated, IdsAreGivenOut, At
<1>10. ClosedIsSilent' /\ InitializedListens' /\ OwnChallenge'
  BY <1>1, <1>2, <1>3 DEF ClosedIsSilent, OnlyInitializedHearOrClose, InitializedListens,
     OwnChallenge
<1>11. GivenIsInitialized'
  BY <1>1, <1>2, <1>3, <1>4 DEF GivenIsInitialized, TypeOK, Registry!TypeOK
<1> QED
  BY <1>6, <1>7, <1>8, <1>9, <1>10, <1>11

LEMMA GenerateRequestKeeps ==
  ASSUME Inv, NEW t \in Threads, GenerateRequest(t) PROVE SessionInv'
<1>1. SessionsStay /\ At(t, "generate") /\ initialized[SessionOf(t)] /\ TypeOK
  BY DEF GenerateRequest, SessionsStay, At, Inv, SessionInv, PlacesFit
<1>2. CASE GiveUp(t, "close")
  BY <1>1, <1>2, GivingUp DEF At
<1>3. CASE Return(t) \/ Goto(t, "wait")
  <2>1. Moves(t) /\ call'[t].at \in {"idle", "wait"}
    BY <1>1, <1>3, AfterReturn, AfterGoto DEF Moves, Return, Goto, TypeOK, At, Places
  <2> QED
    BY <1>1, <2>1, MovingOn DEF At
<1> QED
  BY <1>2, <1>3 DEF GenerateRequest

LEMMA ChallengeArrivesKeeps ==
  ASSUME Inv, NEW t \in Threads, ChallengeArrives(t) PROVE SessionInv'
<1>1. SessionsStay /\ At(t, "wait") /\ initialized[SessionOf(t)] /\ TypeOK
  BY DEF ChallengeArrives, SessionsStay, rialto, At, Inv, SessionInv, PlacesFit
<1>2. Moves(t) /\ call'[t].at = "idle"
  BY <1>1, AfterReturn DEF ChallengeArrives, Moves, Return, TypeOK
<1> QED
  BY <1>1, <1>2, MovingOn DEF At

LEMMA CloseKeySessionKeeps ==
  ASSUME Inv, NEW t \in Threads, CloseKeySession(t) PROVE SessionInv'
<1> DEFINE s == SessionOf(t)
<1>1. SessionsStay /\ At(t, "close") /\ TypeOK /\ s \in Sessions
  BY Inside DEF CloseKeySession, SessionsStay, At, Inv
<1>2. CASE GiveUp(t, "remove")
  BY <1>1, <1>2, GivingUp DEF At
<1>3. CASE keySession[s] \in live /\ live' = live \ {keySession[s]} /\ Goto(t, "unregister")
  <2>1. Moves(t) /\ call'[t].at = "unregister" /\ call'[t].handle = call[t].handle
        /\ call'[t].in = call[t].in
    BY <1>1, <1>3, AfterGoto DEF Moves, Goto, TypeOK, At, Places
  <2>2. initialized[s]
    <3>1. keySession[s] # Invalid
      BY <1>3 DEF Inv, TypeOK, KeySessionIds, Invalid
    <3> QED
      BY <1>1, <3>1, Inside DEF Inv, SessionInv, InitializedOnceCreated, OneAtATime,
         InsideHasHandle, At
  <2> QED
    BY <1>1, <1>3, <2>1, <2>2, MovingOn DEF At
<1> QED
  BY <1>2, <1>3 DEF CloseKeySession

(* A call that enters the functions of a session nobody else is asking.       *)
LEMMA AskingKeeps ==
  ASSUME Inv, NEW t \in Threads, NEW h \in Handles, GetChallengeData(t, h) \/ CloseSession(t, h)
  PROVE  SessionInv'
<1> DEFINE s == handle[h]
<1>1. /\ SessionsStay /\ TypeOK /\ UNCHANGED handle /\ MayAsk(t, h) /\ At(t, "idle")
      /\ s \in Sessions /\ s # None
  BY Held DEF GetChallengeData, CloseSession, SessionsStay, rialto, registry, Inv, MayAsk,
     MayUse
<1>2. PICK function \in Functions, place \in {"generate", "create", "close"} :
        /\ Enter(t, function, place, h)
        /\ place = "generate" => initialized[s]
        /\ place = "create" => ~initialized[s]
        /\ function # "construct"
  BY DEF GetChallengeData, CloseSession, Functions
<1>3. \A u \in Threads :
        /\ call'[u].at = IF u = t THEN place ELSE call[u].at
        /\ call'[u].handle = IF u = t THEN h ELSE call[u].handle
        /\ call'[u].in = IF u = t THEN function ELSE call[u].in
  BY <1>1, <1>2, AfterEnter DEF Places
<1>4. \A u \in Threads : SessionOf(u)' = IF u = t THEN s ELSE SessionOf(u)
  BY <1>1, <1>3 DEF SessionOf
<1> USE DEF Inv, SessionInv
<1>5. InsideHasHandle' /\ OneAtATime'
  BY <1>1, <1>3, <1>4, OpenCdmAssumption DEF InsideHasHandle, OneAtATime, MayAsk, Quiet
<1>6. PlacesFit'
  <2>1. place = "create" => keySession[s] = Invalid
    <3> SUFFICES ASSUME place = "create", keySession[s] # Invalid PROVE FALSE
      OBVIOUS
    <3>1. PICK u \in Threads : At(u, "register") /\ SessionOf(u) = s
      BY <1>1, <1>2 DEF InitializedOnceCreated
    <3> QED
      BY <1>1, <3>1 DEF MayAsk, Quiet, InsideHasHandle, At
  <2>2. UNCHANGED <<clients, initialized, keySession>> /\ live' \subseteq live
    BY <1>1 DEF SessionsStay, dispatcher, members
  <2> QED
    BY <1>1, <1>2, <1>3, <1>4, <2>1, <2>2 DEF PlacesFit, At
<1>7. InitializedOnceCreated'
  BY <1>1, <1>3, <1>4 DEF InitializedOnceCreated, At, SessionsStay, members
<1>8. GivenIsInitialized'
  <2>1. call[t].handle = None /\ UNCHANGED initialized
    BY <1>1 DEF InsideHasHandle, At, SessionsStay, members
  <2> QED
    BY <1>1, <1>3, <2>1, OpenCdmAssumption DEF GivenIsInitialized
<1> QED
  BY <1>1, <1>5, <1>6, <1>7, <1>8, StayingSessions

LEMMA ResetClientKeeps ==
  ASSUME Inv, NEW t \in Threads, ResetClient(t) PROVE SessionInv'
<1> DEFINE s == SessionOf(t)
<1>1. /\ s \in Sessions /\ TypeOK /\ call[t].handle \in Handles
      /\ At(t, "unregister") /\ initialized[s] /\ keySession[s] \notin live
  BY Inside DEF ResetClient, Inv, SessionInv, PlacesFit, At
<1>2. clients' = clients \ {s} /\ UNCHANGED <<registry, message, remaining, callee, reached, members, rialto>>
  BY DEF ResetClient, Dispatcher!RemoveClient
<1>3. \A u \in Threads :
        /\ call'[u].at = IF u = t THEN "clear" ELSE call[u].at
        /\ call'[u].handle = call[u].handle /\ call'[u].in = call[u].in
  BY <1>1, AfterGoto DEF ResetClient, Places, At
<1>4. \A u \in Threads : SessionOf(u)' = SessionOf(u)
  BY <1>2, <1>3 DEF SessionOf, registry
<1> USE DEF Inv, SessionInv, registry, rialto, members
<1>5. InsideHasHandle' /\ OneAtATime'
  BY <1>1, <1>3, <1>4 DEF InsideHasHandle, OneAtATime, At
<1>6. PlacesFit'
  BY <1>1, <1>2, <1>3, <1>4 DEF PlacesFit, At
<1>7. ClientsAreSessions' /\ UnusedIsUninitialized' /\ OnlyInitializedHearOrClose' /\ IdsAreGivenOut'
  BY <1>2 DEF ClientsAreSessions, UnusedIsUninitialized, OnlyInitializedHearOrClose,
     IdsAreGivenOut, Registry!Exists
<1>8. InitializedOnceCreated'
  BY <1>1, <1>2, <1>3, <1>4 DEF InitializedOnceCreated, At
<1>9. ClosedIsSilent' /\ InitializedListens' /\ OwnChallenge'
  BY <1>1, <1>2 DEF ClosedIsSilent, InitializedListens, OwnChallenge
<1>10. GivenIsInitialized'
  BY <1>2, <1>3 DEF GivenIsInitialized
<1> QED
  BY <1>5, <1>6, <1>7, <1>8, <1>9, <1>10

LEMMA ClearMembersKeeps ==
  ASSUME Inv, NEW t \in Threads, ClearMembers(t) PROVE SessionInv'
<1> DEFINE s == SessionOf(t)
<1>1. /\ s \in Sessions /\ TypeOK /\ call[t].handle \in Handles
      /\ At(t, "clear") /\ initialized[s] /\ s \notin clients
  BY Inside DEF ClearMembers, Inv, SessionInv, PlacesFit, At
<1>2. s \notin remaining /\ callee # s
  BY <1>1, OpenCdmAssumption
     DEF Inv, DispatcherProofs!Inv, DispatcherProofs!OnlyClientsAreCalled
<1>3. /\ challenge' = [challenge EXCEPT ![s] = 0]
      /\ keyStatuses' = [keyStatuses EXCEPT ![s] = {}]
      /\ closed' = [closed EXCEPT ![s] = TRUE]
      /\ UNCHANGED <<registry, dispatcher, keySession, initialized, rialto>>
  BY DEF ClearMembers
<1>4. Moves(t) /\ call'[t].at \in {"idle", "remove"}
      /\ (call[t].in = "construct" => call'[t].in = "construct" /\ call'[t].handle = call[t].handle)
  BY <1>1, AfterGiveUp DEF ClearMembers, Moves, Places, At
<1>5. InsideHasHandle' /\ OneAtATime' /\ \A u \in Threads : u # t => SessionOf(u)' = SessionOf(u)
  BY <1>1, <1>3, <1>4, ThreadMoves DEF At, registry
<1> USE DEF Inv, SessionInv, registry, dispatcher, rialto
<1>6. PlacesFit'
  BY <1>1, <1>3, <1>4, <1>5 DEF PlacesFit, Moves, At
<1>7. ClientsAreSessions' /\ UnusedIsUninitialized' /\ OnlyInitializedHearOrClose' /\ IdsAreGivenOut'
  BY <1>1, <1>3 DEF ClientsAreSessions, UnusedIsUninitialized, OnlyInitializedHearOrClose,
     IdsAreGivenOut, Registry!Exists, TypeOK
<1>8. InitializedOnceCreated'
  BY <1>1, <1>3, <1>4, <1>5 DEF InitializedOnceCreated, Moves, At
<1>9. ClosedIsSilent' /\ InitializedListens' /\ OwnChallenge'
  BY <1>1, <1>2, <1>3 DEF ClosedIsSilent, InitializedListens, OwnChallenge, TypeOK
<1>10. GivenIsInitialized'
  <2> SUFFICES ASSUME NEW h \in Handles, handle[h] # None, ~Playready, ~initialized[handle[h]]
               PROVE  \E u \in Threads : call'[u].in = "construct" /\ call'[u].handle = h
    BY <1>3 DEF GivenIsInitialized
  <2>1. PICK u \in Threads : call[u].in = "construct" /\ call[u].handle = h
    BY DEF GivenIsInitialized
  <2> QED
    BY <1>4, <2>1 DEF Moves
<1> QED
  BY <1>5, <1>6, <1>7, <1>8, <1>9, <1>10

(* A handle that no other thread is using is given back.                      *)
LEMMA RemoveKeeps ==
  ASSUME Inv, NEW t \in Threads, NEW h \in Handles, Remove(t, h),
         call[t].at \in {"idle", "remove"}, call[t].handle \in {None, h},
         \A u \in Threads : u # t => call[u].handle # h
  PROVE  SessionInv'
<1> DEFINE s == handle[h]
<1>1. s \in Sessions /\ s # None /\ count[s] > 0 /\ deleting = None /\ TypeOK
  BY Held DEF Remove, Registry!Remove, Inv
<1>2. /\ handle' = [handle EXCEPT ![h] = None] /\ count' = [count EXCEPT ![s] = @ - 1]
      /\ deleting' = IF count[s] = 1 THEN s ELSE None
      /\ UNCHANGED <<dispatcher, members, rialto>>
  BY DEF Remove, Registry!Remove
<1>3. \E place \in {"idle", "delete"} : \A u \in Threads :
        /\ call'[u].at = IF u = t THEN place ELSE call[u].at
        /\ call'[u].handle = IF u = t THEN None ELSE call[u].handle
        /\ u # t => call'[u].in = call[u].in
  BY <1>1, AfterEnter, AfterReturn DEF Remove, Functions, Places
<1>4. \A x \in Sessions : Registry!Exists(x)' <=> Registry!Exists(x)
  BY <1>1, <1>2, Held, OpenCdmAssumption DEF Registry!Exists
<1>5. \A u \in Threads : u # t => SessionOf(u)' = SessionOf(u)
  BY <1>2, <1>3 DEF SessionOf, Inv, TypeOK, Registry!TypeOK
<1> USE DEF Inv, SessionInv, dispatcher, members, rialto
<1>6. InsideHasHandle' /\ OneAtATime'
  BY <1>3, <1>5 DEF InsideHasHandle, OneAtATime
<1>7. PlacesFit'
  BY <1>2, <1>3, <1>5 DEF PlacesFit, At
<1>8. ClientsAreSessions' /\ UnusedIsUninitialized'
  BY <1>2, <1>4 DEF ClientsAreSessions, UnusedIsUninitialized, TypeOK, Dispatcher!TypeOK
<1>9. OnlyInitializedHearOrClose' /\ IdsAreGivenOut' /\ ClosedIsSilent' /\ InitializedListens'
      /\ OwnChallenge'
  BY <1>2 DEF OnlyInitializedHearOrClose, IdsAreGivenOut, ClosedIsSilent, InitializedListens,
     OwnChallenge
<1>10. InitializedOnceCreated'
  BY <1>2, <1>3, <1>5 DEF InitializedOnceCreated, At
<1>11. GivenIsInitialized'
  <2> SUFFICES ASSUME NEW g \in Handles, handle'[g] # None, ~Playready, ~initialized[handle'[g]]
               PROVE  \E u \in Threads : call'[u].in = "construct" /\ call'[u].handle = g
    BY <1>2 DEF GivenIsInitialized
  <2>1. g # h /\ handle'[g] = handle[g]
    BY <1>2, Held
  <2>2. PICK u \in Threads : call[u].in = "construct" /\ call[u].handle = g
    BY <2>1 DEF GivenIsInitialized
  <2> QED
    BY <1>3, <2>1, <2>2, OpenCdmAssumption
<1> QED
  BY <1>6, <1>7, <1>8, <1>9, <1>10, <1>11

LEMMA DestructSessionKeeps ==
  ASSUME Inv, NEW t \in Threads, NEW h \in Handles, DestructSession(t, h) PROVE SessionInv'
<1>1. call[t].handle = None
  BY DEF DestructSession, MayUse, At, Inv, SessionInv, InsideHasHandle
<1> QED
  BY <1>1, RemoveKeeps DEF DestructSession, MayUse, At

LEMMA RemoveFailedSessionKeeps ==
  ASSUME Inv, NEW t \in Threads, RemoveFailedSession(t) PROVE SessionInv'
<1>1. /\ At(t, "remove") /\ call[t].handle \in Handles /\ call[t].handle # None
      /\ Remove(t, call[t].handle)
  BY Inside, OpenCdmAssumption DEF RemoveFailedSession, At
<1>2. \A u \in Threads : u # t => call[u].handle # call[t].handle
  BY <1>1 DEF Inv, SessionInv, OneAtATime, SessionOf
<1> QED
  BY <1>1, <1>2, RemoveKeeps DEF At

LEMMA DeleteSessionKeeps ==
  ASSUME Inv, NEW t \in Threads, DeleteSession(t) PROVE SessionInv'
<1> DEFINE s == deleting
<1>1. s \in Sessions /\ s # None /\ count[s] = 0 /\ TypeOK
  BY Held DEF DeleteSession, Registry!Delete, Inv
<1>2. /\ clients' = clients \ {s} /\ UNCHANGED <<message, remaining, callee, reached>>
      /\ keySession' = [keySession EXCEPT ![s] = Invalid]
      /\ initialized' = [initialized EXCEPT ![s] = FALSE]
      /\ challenge' = [challenge EXCEPT ![s] = 0]
      /\ keyStatuses' = [keyStatuses EXCEPT ![s] = {}]
      /\ closed' = [closed EXCEPT ![s] = FALSE]
      /\ deleting' = None /\ UNCHANGED <<count, handle, rialto>>
  BY DEF DeleteSession, Registry!Delete, Dispatcher!RemoveClient, dispatcher
<1>3. \A u \in Threads :
        /\ call'[u].at = IF u = t THEN "idle" ELSE call[u].at
        /\ call'[u].handle = IF u = t THEN None ELSE call[u].handle
        /\ u # t => call'[u].in = call[u].in
  BY <1>1, AfterReturn DEF DeleteSession
<1>4. \A u \in Threads : u # t => SessionOf(u)' = SessionOf(u)
  BY <1>2, <1>3 DEF SessionOf
<1>5. \A h \in Handles : handle[h] # None => handle[h] # s
  BY <1>1, Held
<1>6. \A u \in Threads : call[u].at \notin {"idle", "delete"} => SessionOf(u) \in Sessions \ {s}
  BY Inside
<1>7. At(t, "delete") /\ call[t].handle = None
  BY DEF DeleteSession, At, Inv, SessionInv, InsideHasHandle
<1> USE DEF Inv, SessionInv, rialto
<1>8. InsideHasHandle' /\ OneAtATime'
  BY <1>3, <1>4 DEF InsideHasHandle, OneAtATime
<1>9. PlacesFit'
  BY <1>1, <1>2, <1>3, <1>4, <1>6 DEF PlacesFit, At, TypeOK
<1>10. ClientsAreSessions'
  BY <1>1, <1>2 DEF ClientsAreSessions, Registry!Exists, TypeOK, Dispatcher!TypeOK
<1>11. UnusedIsUninitialized' /\ OnlyInitializedHearOrClose' /\ IdsAreGivenOut'
  BY <1>1, <1>2 DEF UnusedIsUninitialized, OnlyInitializedHearOrClose, IdsAreGivenOut,
     Registry!Exists, TypeOK, KeySessionIds, Invalid
<1>12. InitializedOnceCreated'
  BY <1>1, <1>2, <1>3, <1>4, <1>7 DEF InitializedOnceCreated, At, TypeOK
<1>13. ClosedIsSilent' /\ InitializedListens' /\ OwnChallenge'
  BY <1>1, <1>2 DEF ClosedIsSilent, InitializedListens, OwnChallenge, TypeOK, Invalid
<1>14. GivenIsInitialized'
  BY <1>1, <1>2, <1>3, <1>5, <1>7, OpenCdmAssumption, Held DEF GivenIsInitialized, TypeOK
<1> QED
  BY <1>8, <1>9, <1>10, <1>11, <1>12, <1>13, <1>14

LEMMA ConstructSessionKeeps ==
  ASSUME Inv, NEW t \in Threads, NEW h \in Handles, NEW s \in Sessions, ConstructSession(t, h, s)
  PROVE  SessionInv'
<1>1. /\ TypeOK /\ At(t, "idle") /\ \A u \in Threads : call[u].handle # h
      /\ ~Registry!Exists(s) /\ count[s] = 0 /\ ~initialized[s] /\ keySession[s] = Invalid
  BY Held DEF ConstructSession, MayUse, Registry!Create, Registry!Exists, Inv, SessionInv,
     UnusedIsUninitialized
<1>2. /\ handle' = [handle EXCEPT ![h] = s] /\ count' = [count EXCEPT ![s] = 1]
      /\ UNCHANGED <<deleting, dispatcher, members, rialto>> /\ deleting = None
  BY DEF ConstructSession, Registry!Create
<1>3. \A u \in Threads :
        /\ u # t => call'[u] = call[u]
        /\ ~Playready => /\ call'[t].at = "create" /\ call'[t].handle = h
                         /\ call'[t].in = "construct"
        /\ Playready => call' = call
  BY <1>1, AfterEnter DEF ConstructSession, Enter, TypeOK, Functions, Places
<1>4. \A u \in Threads : u # t \/ Playready => SessionOf(u)' = SessionOf(u)
  BY <1>1, <1>2, <1>3 DEF SessionOf, TypeOK, Registry!TypeOK
<1>5. \A u \in Threads : call[u].handle # None => SessionOf(u) # s
  BY <1>1, Held, OpenCdmAssumption
     DEF Inv, SessionInv, InsideHasHandle, SessionOf, TypeOK, Calls, Idle
<1>6. ~Playready => SessionOf(t)' = s
  BY <1>2, <1>3, Held DEF SessionOf
<1> USE DEF Inv, SessionInv, dispatcher, members, rialto
<1>7. InsideHasHandle' /\ OneAtATime'
  BY <1>1, <1>3, <1>4, <1>5, <1>6, OpenCdmAssumption DEF InsideHasHandle, OneAtATime, At
<1>8. PlacesFit'
  BY <1>1, <1>2, <1>3, <1>4, <1>6 DEF PlacesFit, At
<1>9. ClientsAreSessions' /\ UnusedIsUninitialized'
  BY <1>1, <1>2, Held DEF ClientsAreSessions, UnusedIsUninitialized, Registry!Exists,
     TypeOK, Dispatcher!TypeOK
<1>10. OnlyInitializedHearOrClose' /\ IdsAreGivenOut' /\ ClosedIsSilent' /\ InitializedListens'
       /\ OwnChallenge'
  BY <1>2 DEF OnlyInitializedHearOrClose, IdsAreGivenOut, ClosedIsSilent, InitializedListens,
     OwnChallenge
<1>11. InitializedOnceCreated'
  BY <1>1, <1>2, <1>3, <1>4 DEF InitializedOnceCreated, At
<1>12. GivenIsInitialized'
  <2> SUFFICES ASSUME NEW g \in Handles, handle'[g] # None, ~Playready, ~initialized[handle'[g]]
               PROVE  \E u \in Threads : call'[u].in = "construct" /\ call'[u].handle = g
    BY <1>2 DEF GivenIsInitialized
  <2>1. CASE g = h
    BY <1>3, <2>1
  <2>2. CASE g # h
    <3>1. handle'[g] = handle[g]
      BY <1>2, <2>2, Held
    <3>2. PICK u \in Threads : call[u].in = "construct" /\ call[u].handle = g
      BY <3>1 DEF GivenIsInitialized
    <3> QED
      BY <1>1, <1>3, <3>2, OpenCdmAssumption DEF InsideHasHandle, At
  <2> QED
    BY <2>1, <2>2
<1> QED
  BY <1>7, <1>8, <1>9, <1>10, <1>11, <1>12

LEMMA GetSessionKeeps ==
  ASSUME Inv, NEW t \in Threads, NEW h \in Handles, NEW s \in Sessions, GetSession(t, h, s)
  PROVE  SessionInv'
<1>1. TypeOK /\ initialized[s] /\ \A u \in Threads : call[u].handle # h
  BY DEF GetSession, MayUse, Inv, SessionInv, OnlyInitializedHearOrClose
<1>2. /\ handle' = [handle EXCEPT ![h] = s] /\ count' = [count EXCEPT ![s] = @ + 1]
      /\ count[s] > 0 /\ UNCHANGED <<deleting, dispatcher, members, call, rialto>>
  BY DEF GetSession, Registry!Get
<1>3. \A u \in Threads : SessionOf(u)' = SessionOf(u)
  BY <1>1, <1>2, Held DEF SessionOf
<1> USE DEF Inv, SessionInv, dispatcher, members, rialto
<1>4. InsideHasHandle' /\ OneAtATime' /\ PlacesFit' /\ InitializedOnceCreated'
  BY <1>2, <1>3 DEF InsideHasHandle, OneAtATime, PlacesFit, InitializedOnceCreated, At
<1>5. ClientsAreSessions' /\ UnusedIsUninitialized'
  BY <1>2, Held DEF ClientsAreSessions, UnusedIsUninitialized, Registry!Exists,
     TypeOK, Dispatcher!TypeOK
<1>6. OnlyInitializedHearOrClose' /\ IdsAreGivenOut' /\ ClosedIsSilent' /\ InitializedListens'
       /\ OwnChallenge'
  BY <1>2 DEF OnlyInitializedHearOrClose, IdsAreGivenOut, ClosedIsSilent, InitializedListens,
     OwnChallenge
<1>7. GivenIsInitialized'
  BY <1>1, <1>2, Held DEF GivenIsInitialized
<1> QED
  BY <1>4, <1>5, <1>6, <1>7

(* Rialto's thread calls registered sessions only, and what a session takes   *)
(* in is about its own key session.                                           *)
LEMMA DeliverKeeps ==
  ASSUME Inv, NEW s \in Sessions, Deliver(s) PROVE SessionInv'
<1>1. /\ s \in remaining /\ s \in clients /\ TypeOK /\ initialized[s] /\ ~closed[s]
  BY OpenCdmAssumption
     DEF Deliver, Dispatcher!CallClient, Inv, SessionInv, DispatcherProofs!Inv,
         DispatcherProofs!OnlyClientsAreCalled, ClientsAreSessions, ClosedIsSilent
<1>2. /\ callee' = s /\ remaining' = remaining \ {s}
      /\ UNCHANGED <<clients, message, registry, keySession, initialized, closed, call, rialto>>
  BY DEF Deliver, Dispatcher!CallClient
<1>3. challenge' \in {challenge, [challenge EXCEPT ![s] = keySession[s]]}
  BY DEF Deliver, OnLicense
<1>4. \E statuses : keyStatuses' \in {keyStatuses, [keyStatuses EXCEPT ![s] = statuses]}
  BY DEF Deliver, OnKeyStatusesChanged
<1> USE DEF Inv, SessionInv, registry, rialto
<1>5. InsideHasHandle' /\ OneAtATime' /\ PlacesFit' /\ InitializedOnceCreated' /\ GivenIsInitialized'
  BY <1>2 DEF InsideHasHandle, OneAtATime, PlacesFit, InitializedOnceCreated, GivenIsInitialized,
     At, SessionOf
<1>6. ClientsAreSessions' /\ UnusedIsUninitialized' /\ IdsAreGivenOut' /\ InitializedListens'
  BY <1>2 DEF ClientsAreSessions, UnusedIsUninitialized, Registry!Exists, IdsAreGivenOut,
     InitializedListens
<1>7. OwnChallenge'
  BY <1>2, <1>3 DEF OwnChallenge, TypeOK
<1>8. OnlyInitializedHearOrClose'
  BY <1>1, <1>2, <1>4 DEF OnlyInitializedHearOrClose, TypeOK
<1>9. ClosedIsSilent'
  BY <1>1, <1>2, <1>3, <1>4 DEF ClosedIsSilent, TypeOK
<1> QED
  BY <1>5, <1>6, <1>7, <1>8, <1>9

(* All else that Rialto and its thread do leaves sessions and threads alone.  *)
LEMMA RialtoKeeps ==
  ASSUME Inv, UNCHANGED <<registry, clients, members, call, lastId>>, live' \subseteq live,
         remaining' \subseteq clients, callee' \in {callee, None}
  PROVE  SessionInv'
<1> USE DEF Inv, SessionInv, registry, members
<1>1. InsideHasHandle' /\ OneAtATime' /\ PlacesFit' /\ InitializedOnceCreated' /\ GivenIsInitialized'
  BY DEF InsideHasHandle, OneAtATime, PlacesFit, InitializedOnceCreated, GivenIsInitialized,
     At, SessionOf
<1>2. ClientsAreSessions' /\ UnusedIsUninitialized' /\ OnlyInitializedHearOrClose'
      /\ IdsAreGivenOut' /\ InitializedListens' /\ OwnChallenge'
  BY DEF ClientsAreSessions, UnusedIsUninitialized, Registry!Exists, OnlyInitializedHearOrClose,
     IdsAreGivenOut, InitializedListens, OwnChallenge
<1>3. ClosedIsSilent'
  BY OpenCdmAssumption DEF ClosedIsSilent
<1> QED
  BY <1>1, <1>2, <1>3

LEMMA SessionInvariant ==
  ASSUME Inv, [Next]_vars PROVE SessionInv'
<1>1. ASSUME NEW t \in Threads, Proceed(t) PROVE SessionInv'
  BY <1>1, CreateKeySessionKeeps, CreateClientKeeps, GenerateRequestKeeps, ChallengeArrivesKeeps,
     CloseKeySessionKeeps, ResetClientKeeps, ClearMembersKeeps, RemoveFailedSessionKeeps,
     DeleteSessionKeeps DEF Proceed
<1>2. ASSUME Application PROVE SessionInv'
  BY <1>1, <1>2, AskingKeeps, DestructSessionKeeps, ConstructSessionKeeps, GetSessionKeeps
     DEF Application
<1>3. remaining \subseteq clients
  BY DEF Inv, DispatcherProofs!Inv, DispatcherProofs!OnlyClientsAreCalled
<1>4. ASSUME RialtoThread PROVE SessionInv'
  <2>1. ASSUME NEW m \in Messages, BeginDispatch(m) PROVE SessionInv'
    BY <2>1, RialtoKeeps DEF BeginDispatch, Dispatcher!BeginDispatch
  <2>2. ASSUME CallbackReturns \/ EndDispatch PROVE SessionInv'
    BY <1>3, <2>2, RialtoKeeps
       DEF CallbackReturns, EndDispatch, Dispatcher!ClientReturns, Dispatcher!EndDispatch, rialto
  <2> QED
    BY <1>4, <2>1, <2>2, DeliverKeeps DEF RialtoThread
<1>5. ASSUME Rialto \/ UNCHANGED vars PROVE SessionInv'
  BY <1>3, <1>5, RialtoKeeps DEF Rialto, RialtoSends, GoInactive, GoRunning, vars, registry,
     dispatcher, members
<1> QED
  BY <1>2, <1>4, <1>5 DEF Next

-------------------------------------------------------------------------------
LEMMA TypeInvariant ==
  ASSUME Inv, [Next]_vars PROVE TypeOK'
<1> USE OpenCdmAssumption DEF Inv, TypeOK, KeySessionIds, Invalid, Messages, License
<1>1. Registry!TypeOK' /\ Dispatcher!TypeOK'
  BY PartsKeepTypes
<1> DEFINE Rest == /\ keySession' \in [Sessions -> KeySessionIds \cup {Invalid}]
                   /\ initialized' \in [Sessions -> BOOLEAN]
                   /\ challenge' \in [Sessions -> KeySessionIds \cup {0}]
                   /\ keyStatuses' \in [Sessions -> SUBSET Keys]
                   /\ closed' \in [Sessions -> BOOLEAN]
                   /\ call' \in [Threads -> Calls]
                   /\ mediaKeys' \in BOOLEAN /\ live' \in SUBSET KeySessionIds
                   /\ lastId' \in 0..MaxKeySessions /\ pending' \in SUBSET Messages
<1>2. ASSUME NEW t \in Threads, Proceed(t) PROVE Rest
  <2>1. CASE CreateKeySession(t)
    <3>1. call' \in [Threads -> Calls]
      BY <2>1, AfterGoto, AfterGiveUp DEF CreateKeySession, At, Places
    <3>2. /\ lastId' \in 0..MaxKeySessions /\ live' \in SUBSET KeySessionIds
          /\ keySession' \in [Sessions -> KeySessionIds \cup {Invalid}]
      <4>1. CASE UNCHANGED <<lastId, live, keySession>>
        BY <4>1
      <4>2. CASE /\ lastId < MaxKeySessions /\ lastId' = lastId + 1
                 /\ live' = live \cup {lastId'}
                 /\ keySession' = [keySession EXCEPT ![SessionOf(t)] = lastId']
        <5>1. lastId' \in KeySessionIds /\ lastId' \in 0..MaxKeySessions
          BY <4>2
        <5> QED
          BY <4>2, <5>1
      <4> QED
        BY <2>1, <4>1, <4>2 DEF CreateKeySession
    <3> QED
      BY <2>1, <3>1, <3>2 DEF CreateKeySession
  <2>2. CASE CreateClient(t)
    BY <2>2, AfterGoto DEF CreateClient, rialto, At, Places
  <2>3. CASE GenerateRequest(t)
    <3>1. call' \in [Threads -> Calls]
      BY <2>3, AfterGoto, AfterGiveUp, AfterReturn DEF GenerateRequest, At, Places
    <3>2. pending' \in SUBSET Messages
      BY <2>3, Inside DEF GenerateRequest, At
    <3> QED
      BY <2>3, <3>1, <3>2 DEF GenerateRequest, members
  <2>4. CASE ChallengeArrives(t)
    BY <2>4, AfterReturn DEF ChallengeArrives, members, rialto
  <2>5. CASE CloseKeySession(t)
    BY <2>5, AfterGoto, AfterGiveUp DEF CloseKeySession, members, At, Places
  <2>6. CASE ResetClient(t)
    BY <2>6, AfterGoto DEF ResetClient, members, rialto, At, Places
  <2>7. CASE ClearMembers(t)
    BY <2>7, AfterGiveUp DEF ClearMembers, rialto, At, Places
  <2>8. CASE RemoveFailedSession(t)
    BY <2>8, AfterEnter, AfterReturn DEF RemoveFailedSession, Remove, members, rialto, Functions, Places
  <2>9. CASE DeleteSession(t)
    BY <2>9, AfterReturn DEF DeleteSession, rialto
  <2> QED
    BY <1>2, <2>1, <2>2, <2>3, <2>4, <2>5, <2>6, <2>7, <2>8, <2>9 DEF Proceed
<1>3. ASSUME NEW t \in Threads, NEW h \in Handles, GetChallengeData(t, h) \/ CloseSession(t, h)
      PROVE  Rest
  <2>1. PICK function \in Functions, place \in Places : Enter(t, function, place, h)
    BY <1>3 DEF GetChallengeData, CloseSession, Functions, Places
  <2> QED
    BY <1>3, <2>1, AfterEnter DEF GetChallengeData, CloseSession, members, rialto
<1>4. ASSUME NEW t \in Threads, NEW h \in Handles, DestructSession(t, h) PROVE Rest
  BY <1>4, AfterEnter, AfterReturn DEF DestructSession, Remove, members, rialto, Functions, Places
<1>5. ASSUME NEW t \in Threads, NEW h \in Handles, NEW s \in Sessions,
             ConstructSession(t, h, s) \/ GetSession(t, h, s)
      PROVE  Rest
  <2>1. call' \in [Threads -> Calls]
    <3>1. CASE call' = call
      BY <3>1
    <3>2. CASE Enter(t, "construct", "create", h)
      BY <3>2, AfterEnter DEF Functions, Places
    <3> QED
      BY <1>5, <3>1, <3>2 DEF ConstructSession, GetSession
  <2> QED
    BY <1>5, <2>1 DEF ConstructSession, GetSession, members, rialto
<1>6. ASSUME NEW s \in Sessions, Deliver(s) PROVE Rest
  <2>1. message \in Messages
    BY <1>6 DEF Deliver, Dispatcher!CallClient, Dispatcher!TypeOK
  <2>2. challenge' \in [Sessions -> KeySessionIds \cup {0}]
    BY <1>6, <2>1 DEF Deliver, OnLicense
  <2>3. keyStatuses' \in [Sessions -> SUBSET Keys]
    <3>1. CASE keyStatuses' = keyStatuses
      BY <3>1
    <3>2. CASE message.about \in Keys
      BY <1>6, <3>2 DEF Deliver, OnKeyStatusesChanged
    <3> QED
      BY <1>6, <2>1, <3>1, <3>2 DEF Deliver
  <2> QED
    BY <1>6, <2>2, <2>3 DEF Deliver, rialto
<1>7. ASSUME \/ \E m \in Messages : BeginDispatch(m)
             \/ CallbackReturns \/ EndDispatch \/ Rialto \/ UNCHANGED vars
      PROVE  Rest
  BY <1>7 DEF BeginDispatch, CallbackReturns, EndDispatch, Rialto, RialtoSends, GoInactive,
     GoRunning, vars, members, rialto
<1> QED
  BY <1>1, <1>2, <1>3, <1>4, <1>5, <1>6, <1>7 DEF Next, Application, RialtoThread

LEMMA InitInv == Init => Inv
<1> SUFFICES ASSUME Init PROVE Inv
  OBVIOUS
<1>1. RegistryProofs!Inv
  <2>1. RegistryProofs!Init
    BY DEF Init, Registry!Init, RegistryProofs!Init
  <2> QED
    BY <2>1, RegistryProofs!InitInv, OpenCdmAssumption DEF IsFiniteSet, RegistryProofs!IsFiniteSet
<1>2. DispatcherProofs!Inv
  <2>1. DispatcherProofs!Init
    BY DEF Init, Dispatcher!Init, DispatcherProofs!Init
  <2> QED
    BY <2>1, DispatcherProofs!InitInv, OpenCdmAssumption, MessagesAssumption
<1>3. TypeOK
  <2>1. Registry!TypeOK /\ Dispatcher!TypeOK
    BY <1>1, <1>2 DEF RegistryProofs!Inv, DispatcherProofs!Inv, Registry!TypeOK,
       RegistryProofs!TypeOK, Dispatcher!TypeOK, DispatcherProofs!TypeOK
  <2>2. mediaKeys \in BOOLEAN
    BY DEF Init
  <2>3. call \in [Threads -> Calls]
    BY DEF Init, Calls
  <2> QED
    BY <2>1, <2>2, <2>3, OpenCdmAssumption DEF Init, TypeOK
<1>4. SessionInv
  BY OpenCdmAssumption
     DEF Init, SessionInv, InsideHasHandle, OneAtATime, PlacesFit, ClientsAreSessions,
         UnusedIsUninitialized, InitializedOnceCreated, OnlyInitializedHearOrClose,
         IdsAreGivenOut, ClosedIsSilent, InitializedListens, OwnChallenge, GivenIsInitialized,
         Registry!Init, Dispatcher!Init, Idle, At, Invalid
<1> QED
  BY <1>1, <1>2, <1>3, <1>4 DEF Inv

THEOREM InvHolds == Spec => []Inv
<1>1. Inv /\ [Next]_vars => Inv'
  BY RegistryInvariant, DispatcherInvariant, TypeInvariant, SessionInvariant DEF Inv
<1> QED
  BY <1>1, InitInv, PTL DEF Spec

-------------------------------------------------------------------------------
(* The members of sessions, the calls under way and what Rialto has sent stay *)
(* in their ranges.                                                           *)
THEOREM TypeCorrect == Spec => []TypeOK
<1>1. Inv => TypeOK
  BY DEF Inv
<1> QED
  BY <1>1, InvHolds, PTL

(* Rialto's thread never calls into memory that is no session's, whatever     *)
(* other threads construct, close and destruct meanwhile.                     *)
THEOREM NoEventIntoFreedMemory == Spec => []EventsReachObjects
<1>1. Inv => EventsReachObjects
  BY OpenCdmAssumption
     DEF Inv, SessionInv, ClientsAreSessions, EventsReachObjects, DispatcherProofs!Inv,
         DispatcherProofs!OnlyClientsAreCalled
<1> QED
  BY <1>1, InvHolds, PTL

(* A closed session is out of reach of messages and is not found by its keys. *)
THEOREM ClosedSessionsAreSilent == Spec => []ClosedIsSilent
<1>1. Inv => ClosedIsSilent
  BY DEF Inv, SessionInv
<1> QED
  BY <1>1, InvHolds, PTL

(* An initialized session is registered as long as its key session lives.     *)
THEOREM InitializedSessionsListen == Spec => []InitializedListens
<1>1. Inv => InitializedListens
  BY DEF Inv, SessionInv
<1> QED
  BY <1>1, InvHolds, PTL

(* No session takes in the challenge of another.                              *)
THEOREM ChallengesAreOwn == Spec => []OwnChallenge
<1>1. Inv => OwnChallenge
  BY DEF Inv, SessionInv
<1> QED
  BY <1>1, InvHolds, PTL

(* A construction that failed leaves the application no session.              *)
THEOREM GivenSessionsAreInitialized == Spec => []GivenIsInitialized
<1>1. Inv => GivenIsInitialized
  BY DEF Inv, SessionInv
<1> QED
  BY <1>1, InvHolds, PTL

(* The composition uses its parts as they are: what it does to the registry   *)
(* is a behaviour of ActiveSessions.                                          *)
THEOREM ImplementsActiveSessions == Spec => Registry!Spec
<1>1. Init => Registry!Init
  BY DEF Init
<1>2. Inv /\ [Next]_vars => [Registry!Next]_registry
  BY RegistryUse
<1> QED
  BY <1>1, <1>2, InvHolds, PTL DEF Spec, Registry!Spec, registry, Registry!registryVars

(* What it does to the dispatcher is a behaviour of MessageDispatcher.        *)
THEOREM ImplementsMessageDispatcher == Spec => Dispatcher!Spec
<1>1. Init => Dispatcher!Init
  BY DEF Init
<1>2. Inv /\ [Next]_vars => [Dispatcher!Next]_dispatcher
  BY DispatcherUse
<1> QED
  BY <1>1, <1>2, InvHolds, PTL DEF Spec, Dispatcher!Spec, dispatcher, Dispatcher!dispatcherVars
-------------------------------------------------------------------------------
(* Threads in one session.  Before the first challenge each thread that has   *)
(* made its request has an answer due, so that whoever goes to sleep has one; *)
(* from then on nobody goes to sleep.                                         *)
Asking == {t \in Waiters : at[t] = "lock"}

WaitingInv ==
  /\ Waiting!TypeOK
  /\ asleep \subseteq Asking
  /\ session # "closed" => newestChallenge = arrived
  /\ session = "closed" => newestChallenge = 0
  /\ \A t \in Waiters : newest[t] <= arrived
  /\ session = "open" => Cardinality(asleep) <= due
  /\ session = "open" /\ newestChallenge = 0 => Cardinality(Asking) <= due

LEMMA WaitersAreFinite ==
  /\ MaxChallenges \in Nat /\ IsFiniteSet(Waiters)
  /\ \A S \in SUBSET Waiters : IsFiniteSet(S) /\ Cardinality(S) \in Nat
<1>1. MaxChallenges \in Nat /\ IsFiniteSet(Waiters)
  BY WaitingAssumption DEF Waiting!ChallengesAssumption, Waiting!IsFiniteSet, IsFiniteSet
<1> QED
  BY <1>1, FS_Subset, FS_CardinalityType

(* A challenge that arrives wakes one of those who sleep.                     *)
LEMMA NotifyWakesOne ==
  ASSUME Waiting!TypeOK, Waiting!UpdateChallenge
  PROVE  /\ asleep' \subseteq asleep
         /\ asleep # {} => Cardinality(asleep') = Cardinality(asleep) - 1
         /\ Cardinality(asleep') <= Cardinality(asleep)
<1>1. asleep \in SUBSET Waiters
  BY DEF Waiting!TypeOK
<1>2. CASE asleep = {}
  BY <1>1, <1>2, WaitersAreFinite DEF Waiting!UpdateChallenge
<1>3. CASE asleep # {}
  <2>1. PICK t \in asleep : asleep' = asleep \ {t}
    BY <1>3 DEF Waiting!UpdateChallenge
  <2>2. IsFiniteSet(asleep) /\ Cardinality(asleep) \in Nat
    BY <1>1, WaitersAreFinite
  <2>3. Cardinality(asleep') = Cardinality(asleep) - 1
    BY <2>1, <2>2, FS_RemoveElement
  <2> QED
    BY <1>3, <2>1, <2>2, <2>3
<1> QED
  BY <1>2, <1>3

LEMMA ArrivalInv ==
  ASSUME WaitingInv, Waiting!OnLicenseRequest \/ Waiting!OnLicenseRenewal
  PROVE  WaitingInv'
<1>1. /\ arrived \in Nat /\ due \in Nat /\ MaxChallenges \in Nat /\ arrived < MaxChallenges
      /\ session # "closed" /\ newestChallenge' = arrived + 1 /\ arrived' = arrived + 1
      /\ at' = at /\ session' = session /\ newest' = newest /\ Waiting!UpdateChallenge
      /\ Waiting!TypeOK
  BY WaitersAreFinite
     DEF WaitingInv, Waiting!TypeOK, Waiting!OnLicenseRequest, Waiting!OnLicenseRenewal,
         Waiting!Arrives, Waiting!UpdateChallenge
<1>2. due' \in 0 .. MaxChallenges /\ (due' = due \/ (due > 0 /\ due' = due - 1))
  BY <1>1 DEF Waiting!TypeOK, Waiting!OnLicenseRequest, Waiting!OnLicenseRenewal
<1>3. /\ asleep' \subseteq asleep /\ (asleep # {} => Cardinality(asleep') = Cardinality(asleep) - 1)
      /\ Cardinality(asleep') <= Cardinality(asleep)
  BY <1>1, NotifyWakesOne
<1>4. asleep \in SUBSET Waiters /\ asleep' \in SUBSET Waiters
  BY <1>1, <1>3 DEF Waiting!TypeOK
<1>5. Cardinality(asleep) \in Nat /\ Cardinality(asleep') \in Nat /\ Cardinality({}) = 0
  BY <1>4, WaitersAreFinite, FS_EmptySet
<1>6. session = "open" => Cardinality(asleep') <= due'
  BY <1>1, <1>2, <1>3, <1>5 DEF WaitingInv
<1>7. Waiting!TypeOK'
  BY <1>1, <1>2, <1>4 DEF Waiting!TypeOK
<1>8. asleep' \subseteq Asking' /\ \A t \in Waiters : newest'[t] <= arrived'
  BY <1>1, <1>3 DEF WaitingInv, Asking, Waiting!TypeOK
<1> QED
  BY <1>1, <1>6, <1>7, <1>8 DEF WaitingInv

LEMMA WaiterInv ==
  ASSUME WaitingInv, NEW t \in Waiters,
         \/ Waiting!GetChallengeData(t) \/ Waiting!Proceed(t) \/ Waiting!SpuriousWakeup(t)
  PROVE  WaitingInv'
<1> DEFINE Sleeps == Cardinality(asleep)
           Asks == Cardinality(Asking)
<1>1. /\ Waiting!TypeOK /\ MaxChallenges \in Nat /\ Asking \in SUBSET Waiters
      /\ asleep \in SUBSET Waiters /\ Sleeps \in Nat /\ Asks \in Nat
  BY WaitersAreFinite DEF WaitingInv, Waiting!TypeOK, Asking
<1>2. CASE Waiting!GetChallengeData(t)
  <2>1. Asking' = Asking
    BY <1>1, <1>2 DEF Waiting!GetChallengeData, Waiting!TypeOK, Asking
  <2>2. Waiting!TypeOK' /\ \A u \in Waiters : newest'[u] <= arrived'
    BY <1>1, <1>2 DEF Waiting!GetChallengeData, Waiting!TypeOK, WaitingInv
  <2> QED
    BY <1>2, <2>1, <2>2 DEF Waiting!GetChallengeData, WaitingInv
<1>3. CASE Waiting!GenerateRequest(t) /\ at' = [at EXCEPT ![t] = "idle"]
  <2>1. Asking' = Asking
    BY <1>1, <1>3 DEF Waiting!GenerateRequest, Waiting!TypeOK, Asking
  <2>2. Waiting!TypeOK' /\ due' = due
    BY <1>1, <1>3 DEF Waiting!GenerateRequest, Waiting!TypeOK
  <2> QED
    BY <1>3, <2>1, <2>2 DEF Waiting!GenerateRequest, WaitingInv
<1>4. CASE Waiting!GenerateRequest(t) /\ at' = [at EXCEPT ![t] = "lock"]
  <2>1. due' = due + 1 /\ session = "open" /\ arrived + due < MaxChallenges
    BY <1>1, <1>4 DEF Waiting!GenerateRequest, Waiting!TypeOK
  <2>2. Waiting!TypeOK'
    BY <1>1, <1>4, <2>1 DEF Waiting!GenerateRequest, Waiting!TypeOK
  <2>3. Asking' = Asking \cup {t} /\ t \notin Asking
    BY <1>1, <1>4 DEF Waiting!GenerateRequest, Waiting!TypeOK, Asking
  <2>4. Cardinality(Asking') = Asks + 1
    BY <1>1, <2>3, WaitersAreFinite, FS_AddElement
  <2>5. due \in Nat
    BY <1>1 DEF Waiting!TypeOK
  <2>6. session' = session /\ newestChallenge' = newestChallenge /\ asleep' = asleep
        /\ arrived' = arrived /\ newest' = newest
    BY <1>4 DEF Waiting!GenerateRequest
  <2>7. session = "open" => Sleeps <= due + 1
    BY <1>1, <2>5 DEF WaitingInv
  <2>8. session = "open" /\ newestChallenge = 0 => Asks + 1 <= due + 1
    BY <1>1, <2>5 DEF WaitingInv
  <2> QED
    BY <2>1, <2>2, <2>3, <2>4, <2>6, <2>7, <2>8 DEF WaitingInv
<1>5. CASE Waiting!Wait(t) /\ newestChallenge = 0
  <2>1. asleep' = asleep \cup {t} /\ Asking' = Asking /\ t \in Asking
    BY <1>5 DEF Waiting!Wait, Asking
  <2>2. asleep' \subseteq Asking
    BY <2>1 DEF WaitingInv
  <2>3. Cardinality(asleep') <= Asks
    BY <1>1, <2>2, WaitersAreFinite, FS_Subset
  <2>4. Cardinality(asleep') \in Nat /\ due \in Nat
    BY <1>1, <2>2, WaitersAreFinite DEF Waiting!TypeOK
  <2>5. Waiting!TypeOK'
    BY <1>1, <1>5 DEF Waiting!Wait, Waiting!TypeOK
  <2>6. session = "open" => Cardinality(asleep') <= due
    BY <1>1, <1>5, <2>3, <2>4 DEF WaitingInv
  <2> QED
    BY <1>5, <2>1, <2>2, <2>5, <2>6 DEF Waiting!Wait, WaitingInv
<1>6. CASE Waiting!Wait(t) /\ newestChallenge # 0
  <2>1. asleep' = asleep /\ asleep' \subseteq Asking'
    BY <1>1, <1>6 DEF Waiting!Wait, WaitingInv, Asking, Waiting!TypeOK
  <2>2. Waiting!TypeOK'
    BY <1>1, <1>6 DEF Waiting!Wait, Waiting!TypeOK
  <2> QED
    BY <1>6, <2>1, <2>2 DEF Waiting!Wait, WaitingInv
<1>7. CASE Waiting!SpuriousWakeup(t)
  <2>1. asleep' = asleep \ {t} /\ Asking' = Asking
    BY <1>7 DEF Waiting!SpuriousWakeup, Asking
  <2>2. Cardinality(asleep') <= Sleeps /\ Cardinality(asleep') \in Nat
    BY <1>1, <2>1, WaitersAreFinite, FS_Subset
  <2>3. Waiting!TypeOK' /\ due \in Nat
    BY <1>1, <1>7 DEF Waiting!SpuriousWakeup, Waiting!TypeOK
  <2>4. session = "open" => Cardinality(asleep') <= due
    BY <1>1, <2>2, <2>3 DEF WaitingInv
  <2> QED
    BY <1>7, <2>1, <2>3, <2>4 DEF Waiting!SpuriousWakeup, WaitingInv
<1> QED
  BY <1>2, <1>3, <1>4, <1>5, <1>6, <1>7 DEF Waiting!Proceed, Waiting!GenerateRequest

LEMMA WaitingInvariant ==
  ASSUME WaitingInv, [LiveNext]_liveVars
  PROVE  WaitingInv'
<1>1. CASE UNCHANGED waiting
  BY <1>1 DEF WaitingInv, waiting, Asking, Waiting!TypeOK
<1>2. CASE Waiting!CloseKeySession \/ Waiting!ClearMembers
  BY <1>2, WaitersAreFinite
     DEF WaitingInv, Asking, Waiting!TypeOK, Waiting!CloseKeySession, Waiting!ClearMembers
<1>3. CASE Waiting!Next
  BY <1>2, <1>3, WaiterInv, ArrivalInv DEF Waiting!Next
<1> QED
  BY <1>1, <1>3 DEF LiveNext, SessionsNext, WaitingNext, liveVars

LEMMA WaitingInvHolds == LiveSpec => []WaitingInv
<1>1. LiveInit => WaitingInv
  <2> SUFFICES ASSUME LiveInit PROVE WaitingInv
    OBVIOUS
  <2>1. Asking = {} /\ Cardinality({}) = 0
    BY FS_EmptySet DEF LiveInit, Waiting!Init, Asking
  <2> QED
    BY <2>1, WaitersAreFinite DEF LiveInit, Waiting!Init, WaitingInv, Waiting!TypeOK
<1> QED
  BY <1>1, WaitingInvariant, PTL DEF LiveSpec

(* updateChallenge() may notify one thread only: for each of those who sleep, *)
(* however many, an answer is still on its way.                               *)
THEOREM NobodyIsLeftAsleep == LiveSpec => []SleepersAreDueAnswers
<1>1. WaitingInv => SleepersAreDueAnswers
  BY DEF WaitingInv, SleepersAreDueAnswers, Waiting!SleepersAreDueAnswers,
     Waiting!Cardinality, Cardinality, Waiting!IsFiniteSet, IsFiniteSet
<1> QED
  BY <1>1, WaitingInvHolds, PTL

(* opencdm_session_get_challenge_data never returns a challenge older than    *)
(* one that had arrived when the call began.                                  *)
THEOREM ChallengesDoNotGoBack == LiveSpec => []NeverGoesBack
<1>1. WaitingInv => NeverGoesBack
  <2> SUFFICES ASSUME WaitingInv, newestChallenge # 0
               PROVE  \A t \in Waiters : newestChallenge >= newest[t]
    BY DEF NeverGoesBack, Waiting!NeverGoesBack
  <2>1. newestChallenge = arrived
    BY DEF WaitingInv
  <2> QED
    BY <2>1, WaitersAreFinite DEF WaitingInv, Waiting!TypeOK
<1> QED
  BY <1>1, WaitingInvHolds, PTL
================================================================================
