-------------------------- MODULE MessageDispatcher --------------------------
(***************************************************************************)
(* MessageDispatcher: hands each message of Rialto's to the clients that   *)
(* are registered, one after the other.  onLicenseRequest,                 *)
(* onLicenseRenewal and onKeyStatusesChanged walk through m_clients with   *)
(* m_mutex held, also while a client is being called, so whoever wants to  *)
(* register or unregister meanwhile waits for the walk to end.             *)
(***************************************************************************)
CONSTANTS
  Clients,    \* addresses of IMediaKeysClient objects
  Messages,   \* what Rialto may have to say
  None        \* no message, or no client

ASSUME DispatcherAssumption == None \notin Clients /\ None \notin Messages

VARIABLES
  clients,    \* m_clients
  message,    \* the message being dispatched; m_mutex is held while there is one
  remaining,  \* the clients that the walk has still to reach
  callee,     \* the client being called
  reached     \* history: the clients called in this dispatch; no step depends on it

dispatcherVars == <<clients, message, remaining, callee, reached>>

TypeOK ==
  /\ clients \in SUBSET Clients
  /\ message \in Messages \cup {None}
  /\ remaining \in SUBSET Clients
  /\ callee \in Clients \cup {None}
  /\ reached \in SUBSET Clients

Init == clients = {} /\ message = None /\ remaining = {} /\ callee = None /\ reached = {}

-------------------------------------------------------------------------------
(* Mistakes for runs that must fail: a client is taken out without waiting    *)
(* for the walk; the walk stops at the first client.                          *)
RemoveClientUnlocked(c) ==
  /\ clients' = clients \ {c}
  /\ UNCHANGED <<message, remaining, callee, reached>>

CallFirstClientOnly(c) ==
  /\ message # None /\ callee = None /\ c \in remaining
  /\ callee' = c
  /\ remaining' = {}
  /\ reached' = reached \cup {c}
  /\ UNCHANGED <<clients, message>>

-------------------------------------------------------------------------------
(* addClient(), from the constructor of MessageDispatcherClient.              *)
AddClient(c) ==
  /\ message = None
  /\ clients' = clients \cup {c}
  /\ UNCHANGED <<message, remaining, callee, reached>>

(* removeClient(), from its destructor.                                       *)
RemoveClient(c) ==
  /\ message = None
  /\ clients' = clients \ {c}
  /\ UNCHANGED <<message, remaining, callee, reached>>

(* A message arrives on Rialto's thread.                                      *)
BeginDispatch(m) ==
  /\ message = None
  /\ message' = m /\ remaining' = clients
  /\ UNCHANGED <<clients, callee, reached>>

(* The walk is in no order that matters: m_clients is ordered by address.     *)
CallClient(c) ==
  /\ message # None /\ callee = None /\ c \in remaining
  /\ callee' = c
  /\ remaining' = remaining \ {c}
  /\ reached' = reached \cup {c}
  /\ UNCHANGED <<clients, message>>

ClientReturns ==
  /\ callee # None
  /\ callee' = None
  /\ UNCHANGED <<clients, message, remaining, reached>>

EndDispatch ==
  /\ message # None /\ callee = None /\ remaining = {}
  /\ message' = None /\ reached' = {}
  /\ UNCHANGED <<clients, remaining, callee>>

Next ==
  \/ \E c \in Clients : AddClient(c) \/ RemoveClient(c) \/ CallClient(c)
  \/ \E m \in Messages : BeginDispatch(m)
  \/ ClientReturns
  \/ EndDispatch

Spec == Init /\ [][Next]_dispatcherVars

-------------------------------------------------------------------------------
(* Nobody is called, or about to be, who has unregistered: once the           *)
(* MessageDispatcherClient of a session is destructed, the session may go.    *)
OnlyClientsAreCalled ==
  remaining \cup ({callee} \ {None}) \subseteq clients

(* Every client that is registered when a dispatch begins is called once      *)
(* before it ends, and nobody who registers meanwhile is: none comes or goes  *)
(* while there is a message, all have been called when the dispatch is over,  *)
(* and no one is called who has been.                                         *)
NobodyIsPassedOver ==
  [][/\ message # None => clients' = clients
     /\ message # None /\ message' = None => reached = clients
     /\ callee' \notin reached \ {callee}]_dispatcherVars
===============================================================================
