----------------------------- MODULE PayeeDaemon -----------------------------
(***************************************************************************)
(* The payee daemon's session ledger, as far as the worker can tell it     *)
(* apart.  The daemon is a separate process: its operations are modelled   *)
(* from the calls in internal/runtime/http/middleware.go and from the RPC  *)
(* contract in internal/proto/livepeer/payments/v1/payee_daemon.proto.     *)
(*                                                                         *)
(* A session is keyed by a work_id.  A payment blob names exactly one      *)
(* sender and a work_id is derived from exactly one blob, so the           *)
(* (sender, work_id) key of the ledger collapses to the work_id.           *)
(***************************************************************************)
EXTENDS Integers

CONSTANTS Blobs      \* payment blobs found in the livepeer-payment header

VARIABLES sess,      \* work_id -> "absent" | "open"
          sprice,    \* work_id -> price bound by OpenSession (wei per unit)
          bal        \* work_id -> balance in wei, negative when overdrawn

dvars == <<sess, sprice, bal>>

\* Mutated form: the work_id does not depend on the payment bytes.
deriveWorkID_PerSender(b) == <<"sha256", "sender">>

\* workid.go: the work_id is the hash of the payment bytes and of nothing
\* else.  The hash is taken to be collision-free: distinct blobs, distinct ids.
deriveWorkID(b) == <<"sha256", b>>

WorkIDs == {deriveWorkID(b) : b \in Blobs}

DaemonTypeOK ==
  /\ sess   \in [WorkIDs -> {"absent", "open"}]
  /\ sprice \in [WorkIDs -> Nat]
  /\ bal    \in [WorkIDs -> Int]

DaemonInit ==
  /\ sess   = [w \in WorkIDs |-> "absent"]
  /\ sprice = [w \in WorkIDs |-> 0]
  /\ bal    = [w \in WorkIDs |-> 0]

(***************************************************************************)
(* The four session RPCs.  Each applies to the ledger atomically; whether  *)
(* the reply reaches the worker is decided by the caller's module.         *)
(***************************************************************************)

\* OUTCOME_OPENED binds the price; OUTCOME_ALREADY_OPEN keeps the earlier one.
DaemonOpen(w, p) ==
  \/ /\ sess[w] = "absent"
     /\ sess'   = [sess EXCEPT ![w] = "open"]
     /\ sprice' = [sprice EXCEPT ![w] = p]
     /\ UNCHANGED bal
  \/ /\ sess[w] = "open"
     /\ UNCHANGED dvars

\* Credits a payment to a session that was opened before.
DaemonProcess(w, credit) ==
  /\ sess[w] = "open"
  /\ bal' = [bal EXCEPT ![w] = @ + credit]
  /\ UNCHANGED <<sess, sprice>>

\* Debits at the session's own price; the daemon does not gate on the result.
DaemonDebit(w, units) ==
  /\ sess[w] = "open"
  /\ bal' = [bal EXCEPT ![w] = @ - sprice[w] * units]
  /\ UNCHANGED <<sess, sprice>>

\* Closes and garbage-collects the session; residual credit is forfeited.
DaemonClose(w) ==
  /\ sess'   = [sess EXCEPT ![w] = "absent"]
  /\ sprice' = [sprice EXCEPT ![w] = 0]
  /\ bal'    = [bal EXCEPT ![w] = 0]
=============================================================================
