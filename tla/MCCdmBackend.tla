----------------------------- MODULE MCCdmBackend -----------------------------
(* Instances of CdmBackend for TLC.                                           *)
EXTENDS CdmBackend
===============================================================================
