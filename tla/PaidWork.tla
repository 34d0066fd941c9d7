------------------------------- MODULE PaidWork -------------------------------
(***************************************************************************)
(* What a paid route promises, without saying how: a request is funded by  *)
(* a payment, has units reserved, is worked on, may have its charge        *)
(* settled once, and is over.  Work never starts on an unfunded or         *)
(* unreserved request and nothing is charged before funding or after the   *)
(* request is over.  paymentMiddleware implements this (see PaidRoute).    *)
(***************************************************************************)
EXTENDS Naturals

CONSTANT Requests

VARIABLES stage,    \* "new", "funded", "working", "settling" or "over"
          charge    \* units charged to each request so far

Init ==
  /\ stage  = [r \in Requests |-> "new"]
  /\ charge = [r \in Requests |-> 0]

Move(r, from, to) == stage[r] = from /\ stage' = [stage EXCEPT ![r] = to]

\* Only r's charge may change, and it may only grow.
MayCharge(r) ==
  /\ charge'[r] >= charge[r]
  /\ charge' = [charge EXCEPT ![r] = charge'[r]]

Fund(r)    == Move(r, "new", "funded") /\ UNCHANGED charge
Refuse(r)  == Move(r, "new", "over") /\ UNCHANGED charge
Reserve(r) == Move(r, "funded", "working") /\ MayCharge(r)
\* A refused reservation may still have been charged: the debit is applied
\* before the balance is looked at, and its reply may be lost.
Abandon(r) == Move(r, "funded", "over") /\ MayCharge(r)
Finish(r)  == (Move(r, "working", "settling") \/ Move(r, "working", "over"))
              /\ UNCHANGED charge
Settle(r)  == Move(r, "settling", "over") /\ MayCharge(r)

Next == \E r \in Requests :
  Fund(r) \/ Refuse(r) \/ Reserve(r) \/ Abandon(r) \/ Finish(r) \/ Settle(r)

Spec == Init /\ [][Next]_<<stage, charge>>
=============================================================================
