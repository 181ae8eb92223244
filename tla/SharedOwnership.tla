--------------------------- MODULE SharedOwnership ---------------------------
(***************************************************************************)
(* What the session registry promises to the application: an object is     *)
(* shared by the handles that were given out for it.  It exists for as     *)
(* long as one of them has not been given back, a handle can be had only   *)
(* while there is another one, and an object that nobody has a handle to   *)
(* is destroyed and never comes back to life.                              *)
(***************************************************************************)
CONSTANTS
  Sessions,  \* addresses of session objects
  Handles,   \* the application's variables that can hold one
  Null       \* a handle that holds none

VARIABLES
  handle,    \* what each of the application's variables holds
  objects    \* the session objects that exist

ownershipVars == <<handle, objects>>

Held == {s \in Sessions : \E h \in Handles : handle[h] = s}

Init == handle = [h \in Handles |-> Null] /\ objects = {}

Construct(h, s) ==
  /\ handle[h] = Null /\ s \notin objects
  /\ handle' = [handle EXCEPT ![h] = s]
  /\ objects' = objects \cup {s}

Share(h, s) ==
  /\ handle[h] = Null /\ s \in Held
  /\ handle' = [handle EXCEPT ![h] = s]
  /\ UNCHANGED objects

Release(h) ==
  /\ handle[h] # Null
  /\ handle' = [handle EXCEPT ![h] = Null]
  /\ UNCHANGED objects

Destroy(s) ==
  /\ s \in objects \ Held
  /\ objects' = objects \ {s}
  /\ UNCHANGED handle

Next ==
  \/ \E h \in Handles : Release(h) \/ \E s \in Sessions : Construct(h, s) \/ Share(h, s)
  \/ \E s \in Sessions : Destroy(s)

Spec == Init /\ [][Next]_ownershipVars

(* No handle dangles.                                                         *)
HandlesAreValid == Held \subseteq objects
==============================================================================
