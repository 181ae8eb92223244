---------------------------- MODULE MCSessionsLive ----------------------------
(* SessionCalls for TLC; the cfg file gives the constants.                     *)
EXTENDS SessionCalls
===============================================================================
