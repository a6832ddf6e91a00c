-------------------------- MODULE MCBrowserSupervisor --------------------------
(* Instances of BrowserSupervisor for TLC.                                 *)
EXTENDS BrowserSupervisor, TLC

CONSTANTS r1, r2, r3, c1

AllFaults   == FaultKinds
CreateFault == {"create"}

CallSymmetry == Permutations(Runs)
===============================================================================
