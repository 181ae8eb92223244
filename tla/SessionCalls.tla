---------------------------- MODULE SessionCalls ----------------------------
(***************************************************************************)
(* The calls of the application under fair scheduling, in two parts: many  *)
(* sessions with one thread in each, which is OpenCdm, and many threads in *)
(* one session, which is ChallengeWait.  A behaviour is of one part; the   *)
(* variables of the other keep their initial values.                       *)
(***************************************************************************)
EXTENDS OpenCdm

CONSTANTS
  Waiters,        \* threads that share a session
  MaxChallenges   \* bound: challenges that have arrived or are due

VARIABLES
  part,                                              \* "sessions" or "waiting"
  at, asleep, newestChallenge, arrived, due, session, newest  \* ChallengeWait

waiting == <<at, asleep, newestChallenge, arrived, due, session, newest>>
liveVars == <<vars, part, waiting>>

Waiting == INSTANCE ChallengeWait WITH
  Threads <- Waiters, challenge <- newestChallenge

ASSUME WaitingAssumption == Waiting!ChallengesAssumption

LiveInit == part \in {"sessions", "waiting"} /\ Init /\ Waiting!Init

SessionsNext == part = "sessions" /\ Next /\ UNCHANGED <<part, waiting>>
WaitingNext == part = "waiting" /\ Waiting!Next /\ UNCHANGED <<part, vars>>
LiveNext == SessionsNext \/ WaitingNext

(* In the part that is not at work nothing is under way that would have to go *)
(* on.                                                                        *)
LiveSpec ==
  /\ LiveInit /\ [][LiveNext]_liveVars
  /\ Fairness
  /\ Waiting!Fairness

-------------------------------------------------------------------------------
(* updateChallenge(): for each thread that is asleep an answer is on its way  *)
(* (and the variables keep their types).                                      *)
SleepersAreDueAnswers == Waiting!TypeOK /\ Waiting!SleepersAreDueAnswers

(* opencdm_session_get_challenge_data: no call returns a challenge older than *)
(* one that had arrived when it began.                                        *)
NeverGoesBack == Waiting!NeverGoesBack

(* Every call returns: in many sessions, whatever locks it takes (OpenCdm),   *)
(* and in one, whoever waits for its challenge, unless the session is closed  *)
(* under it (getChallengeData(), ChallengeWait).                              *)
EveryCallReturns == CallsReturn /\ Waiting!CallsReturn
================================================================================
