--------------------------- MODULE MCProtectionMeta ---------------------------
(* Instances of ProtectionMeta for TLC.                                       *)
EXTENDS ProtectionMeta
===============================================================================
