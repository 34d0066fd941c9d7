----------------------------- MODULE MCPaidRoute -----------------------------
(***************************************************************************)
(* Small instances of PaidRoute for TLC.                                   *)
(***************************************************************************)
EXTENDS PaidRoute, TLC

CONSTANTS m1, m2

\* m1 is offered at 2 wei per unit; m2 is a name no offering of worker.yaml has.
MCModels == {m1, m2}
MCPrice == m1 :> 2

\* A negative estimate (an overflowed product) exercises the clamp to 0.
MCEstimates == {-1, 2}

Symmetric == Permutations(Requests) \cup Permutations(Blobs)
=============================================================================
