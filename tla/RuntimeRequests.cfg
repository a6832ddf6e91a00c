\* Two calls of run() on a server or a browser runtime, and a close().
SPECIFICATION Spec
CONSTANTS
    Null = Null
    Undefined = Undefined
    Bad = Bad
    Runs = {r1, r2}
    Requests <- FewRequests
    Runtimes <- FewRuntimes
    PayloadSizes <- FewSizes
SYMMETRY RunSymmetry
INVARIANTS TypeOK DenialAudited   AcceptedThenRefused
CHECK_DEADLOCK FALSE
