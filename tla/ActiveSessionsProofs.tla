------------------------- MODULE ActiveSessionsProofs -------------------------
(***************************************************************************)
(* Proofs about ActiveSessions for any set of sessions and any finite set  *)
(* of handles: the counters are exact, and the registry implements         *)
(* SharedOwnership.                                                        *)
(***************************************************************************)
EXTENDS ActiveSessions, FiniteSetTheorems, TLAPS

(* The object that remove() is deleting has no reference left.                *)
DeletedIsUnreferenced == deleting # Null => count[deleting] = 0

Inv == TypeOK /\ CountsHandles /\ DeletedIsUnreferenced

-------------------------------------------------------------------------------
(* The references to a session are finitely many, so that they can be counted. *)
LEMMA HandlesToFinite ==
  ASSUME NEW s PROVE IsFiniteSet(HandlesTo(s)) /\ Cardinality(HandlesTo(s)) \in Nat
<1>1. IsFiniteSet(HandlesTo(s))
  BY FS_Subset, RegistryAssumption DEF HandlesTo
<1> QED
  BY <1>1, FS_CardinalityType

(* Storing a pointer in a null handle makes one reference more to that        *)
(* session, and no other to any other.                                        *)
LEMMA TakeHandle ==
  ASSUME TypeOK, NEW h \in Handles, NEW s \in Sessions, handle[h] = Null,
         handle' = [handle EXCEPT ![h] = s], NEW x \in Sessions
  PROVE  Cardinality(HandlesTo(x)') =
           IF x = s THEN Cardinality(HandlesTo(x)) + 1 ELSE Cardinality(HandlesTo(x))
<1>1. CASE x = s
  <2>1. HandlesTo(x)' = HandlesTo(x) \cup {h} /\ h \notin HandlesTo(x)
    BY <1>1, RegistryAssumption DEF HandlesTo, TypeOK
  <2> QED
    BY <1>1, <2>1, HandlesToFinite, FS_AddElement
<1>2. CASE x # s
  <2>1. HandlesTo(x)' = HandlesTo(x)
    BY <1>2, RegistryAssumption DEF HandlesTo, TypeOK
  <2> QED
    BY <1>2, <2>1
<1> QED
  BY <1>1, <1>2

(* Giving a pointer back makes one reference less.                            *)
LEMMA DropHandle ==
  ASSUME TypeOK, NEW h \in Handles, handle[h] # Null,
         handle' = [handle EXCEPT ![h] = Null], NEW x \in Sessions
  PROVE  Cardinality(HandlesTo(x)') =
           IF x = handle[h] THEN Cardinality(HandlesTo(x)) - 1 ELSE Cardinality(HandlesTo(x))
<1>1. CASE x = handle[h]
  <2>1. HandlesTo(x)' = HandlesTo(x) \ {h} /\ h \in HandlesTo(x)
    BY <1>1, RegistryAssumption DEF HandlesTo, TypeOK
  <2> QED
    BY <1>1, <2>1, HandlesToFinite, FS_RemoveElement
<1>2. CASE x # handle[h]
  <2>1. HandlesTo(x)' = HandlesTo(x)
    BY <1>2, RegistryAssumption DEF HandlesTo, TypeOK
  <2> QED
    BY <1>2, <2>1
<1> QED
  BY <1>1, <1>2

(* A counter is positive exactly when somebody holds the session.             *)
LEMMA PositiveMeansHeld ==
  ASSUME Inv, NEW s \in Sessions
  PROVE  count[s] > 0 <=> \E h \in Handles : handle[h] = s
<1>1. count[s] = Cardinality(HandlesTo(s))
  BY DEF Inv, CountsHandles
<1>2. Cardinality(HandlesTo(s)) = 0 <=> HandlesTo(s) = {}
  BY HandlesToFinite, FS_EmptySet
<1> QED
  BY <1>1, <1>2, HandlesToFinite DEF HandlesTo

-------------------------------------------------------------------------------
LEMMA InitInv == Init => Inv
<1> SUFFICES ASSUME Init PROVE Inv
  OBVIOUS
<1>1. TypeOK /\ DeletedIsUnreferenced
  BY DEF Init, TypeOK, DeletedIsUnreferenced
<1>2. ASSUME NEW s \in Sessions PROVE count[s] = Cardinality(HandlesTo(s))
  <2>1. HandlesTo(s) = {}
    BY RegistryAssumption DEF Init, HandlesTo
  <2> QED
    BY <2>1, FS_EmptySet DEF Init
<1> QED
  BY <1>1, <1>2 DEF Inv, CountsHandles

LEMMA CreateKeepsInv ==
  ASSUME NEW h \in Handles, NEW s \in Sessions, Inv, Create(h, s)
  PROVE  Inv'
<1>1. TypeOK' /\ DeletedIsUnreferenced'
  BY DEF Inv, TypeOK, Create, DeletedIsUnreferenced
<1>2. count[s] = 0
  BY DEF Inv, TypeOK, Create, Exists
<1>3. ASSUME NEW x \in Sessions PROVE count'[x] = Cardinality(HandlesTo(x)')
  <2>1. count[x] = Cardinality(HandlesTo(x))
    BY DEF Inv, CountsHandles
  <2>2. Cardinality(HandlesTo(x)') =
        IF x = s THEN Cardinality(HandlesTo(x)) + 1 ELSE Cardinality(HandlesTo(x))
    BY TakeHandle DEF Inv, Create
  <2>3. count'[x] = IF x = s THEN 1 ELSE count[x]
    BY DEF Create, Inv, TypeOK
  <2> QED
    BY <1>2, <2>1, <2>2, <2>3
<1> QED
  BY <1>1, <1>3 DEF Inv, CountsHandles, HandlesTo

LEMMA GetKeepsInv ==
  ASSUME NEW h \in Handles, NEW s \in Sessions, Inv, Get(h, s)
  PROVE  Inv'
<1>1. TypeOK' /\ DeletedIsUnreferenced'
  BY DEF Inv, TypeOK, Get, DeletedIsUnreferenced
<1>2. ASSUME NEW x \in Sessions PROVE count'[x] = Cardinality(HandlesTo(x)')
  BY TakeHandle, HandlesToFinite DEF Inv, TypeOK, CountsHandles, Get
<1> QED
  BY <1>1, <1>2 DEF Inv, CountsHandles, HandlesTo

LEMMA RemoveKeepsInv ==
  ASSUME NEW h \in Handles, Inv, Remove(h)
  PROVE  Inv'
<1>0. handle[h] \in Sessions /\ count[handle[h]] > 0
  <2>1. handle[h] \in Sessions
    BY DEF Inv, TypeOK, Remove
  <2> QED
    BY <2>1, PositiveMeansHeld
<1>1. TypeOK' /\ DeletedIsUnreferenced'
  BY <1>0, RegistryAssumption DEF Inv, TypeOK, Remove, DeletedIsUnreferenced
<1>2. ASSUME NEW x \in Sessions PROVE count'[x] = Cardinality(HandlesTo(x)')
  BY <1>0, DropHandle, HandlesToFinite DEF Inv, TypeOK, CountsHandles, Remove
<1> QED
  BY <1>1, <1>2 DEF Inv, CountsHandles, HandlesTo

LEMMA NextInv == Inv /\ [Next]_registryVars => Inv'
<1> SUFFICES ASSUME Inv, [Next]_registryVars PROVE Inv'
  OBVIOUS
<1>1. CASE Delete
  BY <1>1 DEF Delete, Inv, TypeOK, CountsHandles, HandlesTo, DeletedIsUnreferenced
<1>2. CASE UNCHANGED registryVars
  BY <1>2 DEF registryVars, Inv, TypeOK, CountsHandles, HandlesTo, DeletedIsUnreferenced
<1> QED
  BY <1>1, <1>2, CreateKeepsInv, GetKeepsInv, RemoveKeepsInv DEF Next

THEOREM InvHolds == Spec => []Inv
  BY InitInv, NextInv, PTL DEF Spec

(* The registry's members stay in their ranges: no counter goes below zero.   *)
THEOREM TypeCorrect == Spec => []TypeOK
<1>1. Inv => TypeOK
  BY DEF Inv
<1> QED
  BY <1>1, InvHolds, PTL

(* Every counter is the number of references the application has.             *)
THEOREM CountersAreExact == Spec => []CountsHandles
<1>1. Inv => CountsHandles
  BY DEF Inv
<1> QED
  BY <1>1, InvHolds, PTL

-------------------------------------------------------------------------------
(* A session exists exactly from its creation to the delete that follows the  *)
(* return of its last reference.                                              *)
Objects == {s \in Sessions : Exists(s)}

THEOREM RegistryImplementsSharedOwnership == Spec => ImplementsSharedOwnership
<1>1. Init => Ownership!Init
  BY RegistryAssumption DEF Init, Ownership!Init, Exists
<1>2. Inv /\ [Next]_registryVars => [Ownership!Next]_<<handle, Objects>>
  <2> SUFFICES ASSUME Inv, [Next]_registryVars
               PROVE  [Ownership!Next]_<<handle, Objects>>
    OBVIOUS
  <2> USE DEF Ownership!Next, Objects
  <2>1. ASSUME NEW h \in Handles, NEW s \in Sessions, Create(h, s)
        PROVE  Ownership!Construct(h, s)
    BY <2>1, RegistryAssumption DEF Ownership!Construct, Create, Exists, Inv, TypeOK
  <2>2. ASSUME NEW h \in Handles, NEW s \in Sessions, Get(h, s)
        PROVE  Ownership!Share(h, s)
    <3>1. s \in Ownership!Held
      BY <2>2, PositiveMeansHeld DEF Get, Ownership!Held
    <3>2. Objects' = Objects
      BY <2>2, RegistryAssumption DEF Get, Exists, Inv, TypeOK
    <3> QED
      BY <2>2, <3>1, <3>2 DEF Ownership!Share, Get
  <2>3. ASSUME NEW h \in Handles, Remove(h)
        PROVE  Ownership!Release(h)
    <3>1. handle[h] \in Sessions /\ count[handle[h]] > 0
      <4>1. handle[h] \in Sessions
        BY <2>3 DEF Inv, TypeOK, Remove
      <4> QED
        BY <4>1, PositiveMeansHeld
    <3>2. Objects' = Objects
      BY <2>3, <3>1, RegistryAssumption DEF Remove, Exists, Inv, TypeOK
    <3> QED
      BY <2>3, <3>2 DEF Ownership!Release, Remove
  <2>4. ASSUME Delete PROVE Ownership!Destroy(deleting)
    <3>1. deleting \in Sessions /\ count[deleting] = 0
      BY <2>4 DEF Delete, Inv, TypeOK, DeletedIsUnreferenced
    <3>2. deleting \notin Ownership!Held
      BY <3>1, PositiveMeansHeld DEF Ownership!Held
    <3>3. Objects' = Objects \ {deleting}
      BY <2>4, <3>1, RegistryAssumption DEF Delete, Exists, Inv, TypeOK
    <3> QED
      BY <2>4, <3>1, <3>2, <3>3 DEF Ownership!Destroy, Delete, Exists
  <2>5. CASE UNCHANGED registryVars
    BY <2>5 DEF registryVars, Exists
  <2>6. Delete => deleting \in Sessions
    BY DEF Delete, Inv, TypeOK
  <2> QED
    BY <2>1, <2>2, <2>3, <2>4, <2>5, <2>6 DEF Next
<1> QED
  BY <1>1, <1>2, InvHolds, PTL
     DEF Spec, ImplementsSharedOwnership, Ownership!Spec, Ownership!ownershipVars, Objects
===============================================================================
