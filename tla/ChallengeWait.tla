------------------------------ MODULE ChallengeWait ------------------------------
(***************************************************************************)
(* Several threads that ask one session for its challenge, each through    *)
(* the handle it got from opencdm_get_session: the requests they make, the *)
(* condition variable they wait on, and Rialto's answers and renewals.     *)
(* OpenCdm has many sessions and one thread in each; this is one session,  *)
(* initialized before it was shared, with many threads.  Rialto stays      *)
(* RUNNING, and a close that fails changes nothing.                        *)
(***************************************************************************)
EXTENDS Naturals, FiniteSets

CONSTANTS
  Threads,
  MaxChallenges   \* bound: challenges that have arrived or are due

(* Assumed of the constants. *)
ChallengesAssumption == MaxChallenges \in Nat /\ IsFiniteSet(Threads)

VARIABLES
  at,         \* of a thread: where in getChallengeData() it is
  asleep,     \* the threads in m_challengeCv.wait()
  challenge,  \* m_challengeData: the how manyth to arrive it is, 0 if empty
  arrived,    \* challenges that have arrived
  due,        \* requests that Rialto has still to answer
  session,    \* "open", "closing", "closed"
  newest      \* of a thread: the challenge that was the last when its call began

waitVars == <<at, asleep, challenge, arrived, due, session, newest>>

TypeOK ==
  /\ at \in [Threads -> {"idle", "request", "lock"}]
  /\ asleep \in SUBSET Threads
  /\ challenge \in 0 .. arrived
  /\ arrived \in 0 .. MaxChallenges
  /\ due \in 0 .. MaxChallenges
  /\ session \in {"open", "closing", "closed"}
  /\ newest \in [Threads -> 0 .. MaxChallenges]

Init ==
  /\ at = [t \in Threads |-> "idle"] /\ asleep = {}
  /\ challenge = 0 /\ arrived = 0 /\ due = 0 /\ session = "open"
  /\ newest = [t \in Threads |-> 0]

-------------------------------------------------------------------------------
(* opencdm_session_get_challenge_data: initialize() has nothing left to do.   *)
GetChallengeData(t) ==
  /\ at[t] = "idle"
  /\ at' = [at EXCEPT ![t] = "request"]
  /\ newest' = [newest EXCEPT ![t] = arrived]
  /\ UNCHANGED <<asleep, challenge, arrived, due, session>>

(* Whoever is refused does not wait.                                          *)
GenerateRequest(t) ==
  /\ at[t] = "request"
  /\ \/ /\ session = "open" /\ arrived + due < MaxChallenges
        /\ due' = due + 1 /\ at' = [at EXCEPT ![t] = "lock"]
     \/ at' = [at EXCEPT ![t] = "idle"] /\ UNCHANGED due
  /\ UNCHANGED <<asleep, challenge, arrived, session, newest>>

(* m_challengeCv.wait(): what is there is taken, or the thread sleeps.        *)
Wait(t) ==
  /\ at[t] = "lock" /\ t \notin asleep
  /\ IF challenge # 0 THEN at' = [at EXCEPT ![t] = "idle"] /\ UNCHANGED asleep
     ELSE asleep' = asleep \cup {t} /\ UNCHANGED at
  /\ UNCHANGED <<challenge, arrived, due, session, newest>>

SpuriousWakeup(t) ==
  /\ t \in asleep /\ asleep' = asleep \ {t}
  /\ UNCHANGED <<at, challenge, arrived, due, session, newest>>

(* Mistakes for runs that must fail: only the first challenge is signalled;   *)
(* the challenge that is there is kept; a renewal is counted as an answer.    *)
NotifyFirstOnly ==
  /\ challenge' = arrived + 1
  /\ IF asleep = {} \/ challenge # 0 THEN UNCHANGED asleep
     ELSE \E t \in asleep : asleep' = asleep \ {t}

KeepTheFirst ==
  /\ challenge' = IF challenge = 0 THEN arrived + 1 ELSE challenge
  /\ IF asleep = {} THEN UNCHANGED asleep ELSE \E t \in asleep : asleep' = asleep \ {t}

(* updateChallenge(): notify_one wakes one of those who sleep.                *)
UpdateChallenge ==
  /\ challenge' = arrived + 1
  /\ IF asleep = {} THEN UNCHANGED asleep ELSE \E t \in asleep : asleep' = asleep \ {t}

Arrives ==
  /\ session # "closed" /\ arrived < MaxChallenges
  /\ UpdateChallenge /\ arrived' = arrived + 1
  /\ UNCHANGED <<at, session, newest>>

(* onLicenseRequest() for a request, and onLicenseRenewal() for none.         *)
OnLicenseRequest == due > 0 /\ Arrives /\ due' = due - 1
OnLicenseRenewal == arrived + due < MaxChallenges /\ Arrives /\ UNCHANGED due

(* closeSession() by another thread: the key session ends, then, once the     *)
(* session no longer listens, the challenge is cleared.  Nobody is woken.     *)
CloseKeySession ==
  /\ session = "open" /\ session' = "closing"
  /\ UNCHANGED <<at, asleep, challenge, arrived, due, newest>>

ClearMembers ==
  /\ session = "closing" /\ session' = "closed" /\ challenge' = 0 /\ due' = 0
  /\ UNCHANGED <<at, asleep, arrived, newest>>

Proceed(t) == GenerateRequest(t) \/ Wait(t)

Next ==
  \/ \E t \in Threads : GetChallengeData(t) \/ Proceed(t) \/ SpuriousWakeup(t)
  \/ OnLicenseRequest \/ OnLicenseRenewal
  \/ CloseKeySession \/ ClearMembers

Spec == Init /\ [][Next]_waitVars

(* Threads get on, and Rialto answers what it took.                           *)
Fairness ==
  /\ \A t \in Threads : WF_waitVars(Proceed(t))
  /\ WF_waitVars(OnLicenseRequest)

FairSpec == Spec /\ Fairness

-------------------------------------------------------------------------------
(* A challenge wakes one thread only, and everyone may take the same one: for *)
(* each thread asleep there is still an answer on its way, so that nobody is  *)
(* left behind by a challenge that somebody else was woken for.               *)
SleepersAreDueAnswers == session = "open" => Cardinality(asleep) <= due

(* The challenge a call returns need not be the answer to its own request,    *)
(* but it is never older than the last one that had arrived when the call     *)
(* began: of two calls, for its size and for the challenge itself, the second *)
(* does not go back.                                                          *)
NeverGoesBack ==
  \A t \in Threads : at[t] = "lock" /\ challenge # 0 => challenge >= newest[t]

(* Every call returns, unless the session is closed under it: a thread that   *)
(* waits then is not woken, and has nothing to wait for.                      *)
CallsReturn ==
  \A t \in Threads : at[t] # "idle" ~> at[t] = "idle" \/ session # "open"
================================================================================
