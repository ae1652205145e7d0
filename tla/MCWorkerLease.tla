--------------------------- MODULE MCWorkerLease ---------------------------
(***************************************************************************)
(* Small instances of WorkerLease: workers that share both roles and one   *)
(* worker for one role only.                                               *)
(***************************************************************************)
EXTENDS WorkerLease, TLC

CONSTANTS a1, a2, a3, none

MCRole == {"detector", "reporter"}
MCPayload == {none}
MCPriority == [r \in MCRole |-> IF r = "detector" THEN 30 ELSE 50]
MCServes == [a \in Agent |-> IF a = a3 THEN {"reporter"} ELSE MCRole]

Symmetric == Permutations({a1, a2})
=============================================================================
