--------------------------- MODULE MCServerTransport ---------------------------
(* Instances of ServerTransport for TLC.                                      *)
EXTENDS ServerTransport, TLC

CallSymmetry == Permutations(Runs) \cup Permutations(Closers)

AllFaults == FaultKinds
\* Faults after which the stream of a worker is still whole: it ends, if it
\* does, between two frames.
CleanFaults == {"start", "spawn", "crash", "error"}
OversizeOnly == {"oversize"}
NoFaults == {}
===============================================================================
