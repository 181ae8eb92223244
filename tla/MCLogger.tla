------------------------------- MODULE MCLogger -------------------------------
(* Instances of Logger for TLC: two threads share a Logger, one has its own.  *)
EXTENDS Logger, TLC

CONSTANTS t1, t2, t3, l1, l2

MCLoggerOf == t1 :> l1 @@ t2 :> l2 @@ t3 :> l2
===============================================================================
