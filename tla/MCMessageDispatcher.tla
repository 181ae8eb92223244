-------------------------- MODULE MCMessageDispatcher --------------------------
(* Instances of MessageDispatcher for TLC.                                    *)
EXTENDS MessageDispatcher
===============================================================================
