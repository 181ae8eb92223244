---------------------------- MODULE MediaKeysGate ----------------------------
(***************************************************************************)
(* What CdmBackend promises about the IMediaKeys object it owns: the       *)
(* object appears and disappears only while nobody is inside one of its    *)
(* methods, a method is entered only while the object exists, and at most  *)
(* one caller is inside at a time.  Nothing is said about why the object   *)
(* comes and goes; CdmBackend is shown to implement this.                  *)
(***************************************************************************)
CONSTANT Threads

VARIABLES
  present,  \* TRUE while the object exists
  inside    \* the callers that are inside one of its methods

gateVars == <<present, inside>>

TypeOK == present \in BOOLEAN /\ inside \in SUBSET Threads

Init == present = FALSE /\ inside = {}

Appear == ~present /\ inside = {} /\ present' = TRUE /\ UNCHANGED inside

Vanish == present /\ inside = {} /\ present' = FALSE /\ UNCHANGED inside

Enter(t) == present /\ inside = {} /\ inside' = {t} /\ UNCHANGED present

Leave(t) == t \in inside /\ inside' = inside \ {t} /\ UNCHANGED present

Next ==
  \/ Appear
  \/ Vanish
  \/ \E t \in Threads : Enter(t) \/ Leave(t)

Spec == Init /\ [][Next]_gateVars
===============================================================================
