---------------------------- MODULE MCActiveSessions ---------------------------
(* Instances of ActiveSessions for TLC.                                       *)
EXTENDS ActiveSessions
===============================================================================
