------------------------------- MODULE MCOpenCdm -------------------------------
(* Instances of OpenCdm for TLC.  Threads, handles, addresses and keys are    *)
(* interchangeable: runs that check invariants only use Symmetry.             *)
EXTENDS OpenCdm, TLC

Symmetry ==
  Permutations(Threads) \cup Permutations(Handles) \cup Permutations(Sessions)
    \cup Permutations(Keys)
================================================================================
