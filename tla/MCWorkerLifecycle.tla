-------------------------- MODULE MCWorkerLifecycle --------------------------
(***************************************************************************)
(* Small instances of WorkerLifecycle for TLC.                             *)
(***************************************************************************)
EXTENDS WorkerLifecycle, TLC

MCPriceValue == "2" :> 2 @@ "02" :> 2 @@ "5" :> 5 @@ "0" :> 0
MCDecimalText == 0 :> "0" @@ 2 :> "2" @@ 5 :> "5"

Offer(id, price) == [id |-> id, price |-> price, backend_url |-> "url"]
Cap(name, offerings) == [capability |-> name, work_unit |-> "token", offerings |-> offerings]

a == Offer("a", "2")
b == Offer("b", "5")

\* Offering lists: one price written in two ways, two orders, a duplicate id,
\* a zero price, none at all.
OfferingLists ==
  {<<a>>, <<Offer("a", "02")>>, <<Offer("a", "5")>>, <<a, b>>, <<b, a>>,
   <<a, Offer("a", "5")>>, <<Offer("a", "0")>>, << >>}

CapLists ==
  {<<Cap("chat", os)>> : os \in OfferingLists}
    \cup {<<Cap("chat", <<a>>), Cap("embeddings", os)>> : os \in OfferingLists}
    \cup {<<Cap("chat", <<a>>), Cap("chat", <<b>>)>>,
          <<Cap("chat", <<a>>), Cap("unimplemented", <<a>>)>>,
          <<Cap("unimplemented", <<a>>)>>, << >>}

File(caplist, verify) ==
  [decodes |-> TRUE, service_registry_publisher |-> FALSE,
   protocol_version |-> CurrentProtocolVersion, payment_daemon |-> TRUE,
   worker_eth_address |-> "",
   worker |-> [http_listen |-> ":8080", payment_daemon_socket |-> "sock",
               max_concurrent_requests |-> 1,
               verify_daemon_consistency_on_start |-> verify],
   capabilities |-> caplist]

MCYAMLs ==
  LET base == File(<<Cap("chat", <<a>>)>>, TRUE) IN
  {File(cs, v) : cs \in CapLists, v \in BOOLEAN}
    \cup {[base EXCEPT !.decodes = FALSE],
          [base EXCEPT !.service_registry_publisher = TRUE],
          [base EXCEPT !.protocol_version = 2],
          [base EXCEPT !.payment_daemon = FALSE],
          [base EXCEPT !.worker_eth_address = "mixed case"],
          [base EXCEPT !.worker.max_concurrent_requests = 0]}

\* What a daemon may report: the offerings above, a scaled price, one with
\* scale 0 and one missing.
Priced(id, num, den) == [id |-> id, price_info |-> [pricePerUnit |-> num, pixelsPerUnit |-> den]]
DaemonOfferings ==
  {<<Priced("a", 2, 1)>>, <<Priced("a", 5, 1)>>, <<Priced("a", 5, 2)>>, <<Priced("a", 2, 0)>>,
   <<Priced("a", 0, 1)>>, <<[id |-> "a", price_info |-> NilPriceInfo]>>,
   <<Priced("a", 2, 1), Priced("b", 5, 1)>>, <<Priced("b", 5, 1), Priced("a", 2, 1)>>,
   <<Priced("a", 2, 1), Priced("a", 5, 1)>>}

MCDaemonReplies ==
  {<<Cap("chat", os)>> : os \in DaemonOfferings}
    \cup {<<Cap("chat", <<Priced("a", 2, 1)>>), Cap("embeddings", os)>> : os \in DaemonOfferings}
    \cup {<<Cap("chat", <<Priced("a", 2, 1)>>), Cap("chat", <<Priced("b", 5, 1)>>)>>,
          <<Cap("unimplemented", <<Priced("a", 2, 1)>>)>>}
=============================================================================
