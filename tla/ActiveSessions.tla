---------------------------- MODULE ActiveSessions ----------------------------
(***************************************************************************)
(* ActiveSessions: the process-wide registry of session objects and of how *)
(* many times each was given out.  create() and get() give a session out,  *)
(* remove() takes one back and deletes the object with the last one.  All  *)
(* three hold m_mutex from end to end; the delete inside remove() may have *)
(* to wait for the message dispatcher, so it is a step of its own, during  *)
(* which the mutex stays taken.                                            *)
(***************************************************************************)
EXTENDS Naturals, FiniteSets

CONSTANTS
  Sessions,  \* addresses of session objects
  Handles,   \* the application's variables that can hold one
  Null       \* a null pointer

ASSUME RegistryAssumption ==
  /\ Null \notin Sessions
  /\ IsFiniteSet(Handles)

VARIABLES
  count,     \* m_activeSessions: the counter of each session, 0 if it is not there
  deleting,  \* the session that remove() is deleting with the mutex held, or Null
  handle     \* what the application got and has not given back

registryVars == <<count, deleting, handle>>

TypeOK ==
  /\ count \in [Sessions -> Nat]
  /\ deleting \in Sessions \cup {Null}
  /\ handle \in [Handles -> Sessions \cup {Null}]

Init ==
  /\ count = [s \in Sessions |-> 0]
  /\ deleting = Null
  /\ handle = [h \in Handles |-> Null]

Exists(s) == count[s] > 0 \/ deleting = s

HandlesTo(s) == {h \in Handles : handle[h] = s}

-------------------------------------------------------------------------------
(* Mistakes for runs that must fail: get() gives a session out uncounted;     *)
(* remove() deletes one reference too early; it never deletes.                *)
GetUncounted(h, s) ==
  /\ deleting = Null /\ handle[h] = Null /\ count[s] > 0
  /\ handle' = [handle EXCEPT ![h] = s]
  /\ UNCHANGED <<count, deleting>>

RemoveTooEarly(h) ==
  /\ deleting = Null /\ handle[h] # Null
  /\ handle' = [handle EXCEPT ![h] = Null]
  /\ count' = [count EXCEPT ![handle[h]] = IF @ <= 2 THEN 0 ELSE @ - 1]
  /\ deleting' = IF count[handle[h]] <= 2 THEN handle[h] ELSE Null

RemoveNeverDeletes(h) ==
  /\ deleting = Null /\ handle[h] # Null
  /\ handle' = [handle EXCEPT ![h] = Null]
  /\ count' = [count EXCEPT ![handle[h]] = IF @ > 1 THEN @ - 1 ELSE 1]
  /\ UNCHANGED deleting

-------------------------------------------------------------------------------
(* create(): `new' returns an address that no existing object has.            *)
Create(h, s) ==
  /\ deleting = Null /\ handle[h] = Null /\ ~Exists(s)
  /\ handle' = [handle EXCEPT ![h] = s]
  /\ count' = [count EXCEPT ![s] = 1]
  /\ UNCHANGED deleting

(* get() when it finds s; which of several that know the key is found depends *)
(* on the order of the map, that is on addresses.                             *)
Get(h, s) ==
  /\ deleting = Null /\ handle[h] = Null /\ count[s] > 0
  /\ handle' = [handle EXCEPT ![h] = s]
  /\ count' = [count EXCEPT ![s] = @ + 1]
  /\ UNCHANGED deleting

(* remove(), up to the delete if this was the last reference.                 *)
Remove(h) ==
  /\ deleting = Null /\ handle[h] # Null
  /\ handle' = [handle EXCEPT ![h] = Null]
  /\ count' = [count EXCEPT ![handle[h]] = @ - 1]
  /\ deleting' = IF count[handle[h]] = 1 THEN handle[h] ELSE Null

(* The rest of remove(): the object is gone, the entry erased, the mutex free. *)
Delete ==
  /\ deleting # Null
  /\ deleting' = Null
  /\ UNCHANGED <<count, handle>>

Next ==
  \/ \E h \in Handles : Remove(h) \/ \E s \in Sessions : Create(h, s) \/ Get(h, s)
  \/ Delete

Spec == Init /\ [][Next]_registryVars

-------------------------------------------------------------------------------
(* The counter of a session is the number of references the application has,  *)
(* however creations, lookups and removals of the same session interleave.    *)
CountsHandles == \A s \in Sessions : count[s] = Cardinality(HandlesTo(s))

(* A session exists until its last instance is removed, and cannot be got     *)
(* back while remove() is at work on it.                                      *)
Ownership == INSTANCE SharedOwnership
               WITH objects <- {s \in Sessions : Exists(s)}
ImplementsSharedOwnership == Ownership!Spec
===============================================================================
