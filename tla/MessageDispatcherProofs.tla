------------------------ MODULE MessageDispatcherProofs ------------------------
(***************************************************************************)
(* Proofs about MessageDispatcher for any clients and messages: who is     *)
(* called is registered, and who is registered is called once.             *)
(***************************************************************************)
EXTENDS MessageDispatcher, TLAPS

(* Outside a dispatch nobody is called and nobody is left to be called.       *)
WalkOnlyInDispatch == message = None => remaining = {} /\ callee = None /\ reached = {}

(* In a dispatch, a client has been called or is left to be called, not both; *)
(* the one that is being called has been.                                     *)
WalkIsOverClients ==
  /\ message # None => reached \cup remaining = clients
  /\ reached \cap remaining = {} /\ {callee} \ {None} \subseteq reached

Inv == TypeOK /\ OnlyClientsAreCalled /\ WalkOnlyInDispatch /\ WalkIsOverClients

LEMMA InitInv == Init => Inv
  BY DEF Init, Inv, TypeOK, OnlyClientsAreCalled, WalkOnlyInDispatch, WalkIsOverClients

LEMMA NextInv == Inv /\ [Next]_dispatcherVars => Inv'
<1> SUFFICES ASSUME Inv, [Next]_dispatcherVars PROVE Inv'
  OBVIOUS
<1> USE DispatcherAssumption DEF Inv, TypeOK, OnlyClientsAreCalled, WalkOnlyInDispatch,
      WalkIsOverClients
<1>1. ASSUME NEW c \in Clients, AddClient(c) PROVE Inv'
  BY <1>1 DEF AddClient
<1>2. ASSUME NEW c \in Clients, RemoveClient(c) PROVE Inv'
  BY <1>2 DEF RemoveClient
<1>3. ASSUME NEW m \in Messages, BeginDispatch(m) PROVE Inv'
  BY <1>3 DEF BeginDispatch
<1>4. ASSUME NEW c \in Clients, CallClient(c) PROVE Inv'
  BY <1>4 DEF CallClient
<1>5. CASE ClientReturns
  BY <1>5 DEF ClientReturns
<1>6. CASE EndDispatch
  BY <1>6 DEF EndDispatch
<1>7. CASE UNCHANGED dispatcherVars
  BY <1>7 DEF dispatcherVars
<1> QED
  BY <1>1, <1>2, <1>3, <1>4, <1>5, <1>6, <1>7 DEF Next

THEOREM InvHolds == Spec => []Inv
  BY InitInv, NextInv, PTL DEF Spec

(* m_clients and the walk over it hold clients, a dispatch is of a message.   *)
THEOREM TypeCorrect == Spec => []TypeOK
<1>1. Inv => TypeOK
  BY DEF Inv
<1> QED
  BY <1>1, InvHolds, PTL

(* A client whose removeClient() has returned is not called any more, not     *)
(* even by a dispatch that began before.                                      *)
THEOREM NoCallAfterRemoval == Spec => []OnlyClientsAreCalled
<1>1. Inv => OnlyClientsAreCalled
  BY DEF Inv
<1> QED
  BY <1>1, InvHolds, PTL

(* Every client registered when a dispatch begins is called once before it    *)
(* ends, and stays registered until then: the clients that have been called   *)
(* and those left are the registered ones in every state of the walk.         *)
THEOREM EveryClientIsReached == Spec => NobodyIsPassedOver
<1> DEFINE Passes ==
             /\ message # None => clients' = clients
             /\ message # None /\ message' = None => reached = clients
             /\ callee' \notin reached \ {callee}
<1>1. ASSUME Inv, Next PROVE Passes
  <2> USE DispatcherAssumption, <1>1
      DEF Inv, TypeOK, OnlyClientsAreCalled, WalkOnlyInDispatch, WalkIsOverClients
  <2>1. ASSUME NEW c \in Clients, AddClient(c) \/ RemoveClient(c) PROVE Passes
    BY <2>1 DEF AddClient, RemoveClient
  <2>2. ASSUME NEW c \in Clients, CallClient(c) PROVE Passes
    BY <2>2 DEF CallClient
  <2>3. ASSUME NEW m \in Messages, BeginDispatch(m) PROVE Passes
    BY <2>3 DEF BeginDispatch
  <2>4. CASE ClientReturns
    BY <2>4 DEF ClientReturns
  <2>5. CASE EndDispatch
    BY <2>5 DEF EndDispatch
  <2> QED
    BY <2>1, <2>2, <2>3, <2>4, <2>5 DEF Next
<1>2. Inv /\ [Next]_dispatcherVars => [Passes]_dispatcherVars
  BY <1>1
<1> QED
  BY <1>2, InvHolds, PTL DEF Spec, NobodyIsPassedOver
================================================================================
