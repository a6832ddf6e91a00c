------------------------------ MODULE RunService ------------------------------
(***************************************************************************)
(* What a runtime promises its callers, whatever host it runs on: the     *)
(* interface AegisPyRuntime (packages/aegispy-core/src/contracts/types.ts) *)
(* as every create-runtime implements it.                                  *)
(*                                                                         *)
(* A call of run() is refused when the runtime was closed before the call, *)
(* and otherwise it is open until it is settled, once and for all, with    *)
(* the guest's result or with an error envelope.  One event of the host    *)
(* may settle several calls: a worker that exits fails every call it owed  *)
(* an answer to.                                                           *)
(***************************************************************************)
CONSTANT Runs            \* the calls of runtime.run()

VARIABLES
    status,              \* status[r]: where the promise of call r stands
    closed               \* runtime.close() was called

vars == <<status, closed>>

Settled == {"result", "failed", "refused"}

Init ==
    /\ status = [r \in Runs |-> "idle"]
    /\ closed = FALSE

\* run(): the closed flag is looked at once, when the call is made.
Call(r) ==
    /\ status[r] = "idle"
    /\ status' = [status EXCEPT ![r] = IF closed THEN "refused" ELSE "open"]
    /\ UNCHANGED closed

\* An event of the host settles the calls in S.
Settle(S) ==
    /\ S # {}
    /\ \A r \in S : status[r] = "open"
    /\ \E answer \in [S -> {"result", "failed"}] :
          status' = [r \in Runs |-> IF r \in S THEN answer[r] ELSE status[r]]
    /\ UNCHANGED closed

Close ==
    /\ closed' = TRUE
    /\ UNCHANGED status

Next ==
    \/ \E r \in Runs : Call(r)
    \/ \E S \in SUBSET Runs : Settle(S)
    \/ Close

Spec == Init /\ [][Next]_vars
===============================================================================
