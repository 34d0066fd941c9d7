------------------------------- MODULE Catalog -------------------------------
(***************************************************************************)
(* worker.yaml as internal/config reads it: validation, the projection to  *)
(* the routing table, and the comparison with the payee daemon's catalog.  *)
(*                                                                         *)
(* A parsed file is a record of the fields validate() looks at.  A price   *)
(* is its decimal text: the routing table and the comparison use the text, *)
(* validation its value, so "2" and "02" are two prices of equal value.    *)
(***************************************************************************)
EXTENDS Integers, Sequences

CONSTANTS
  CapabilityIDs,   \* names that match capabilityRE
  WorkUnits,       \* knownWorkUnits
  PriceValue,      \* price text -> integer, for the texts that parse
  DecimalText,     \* integer -> its text, as fmt.Sprintf("%d") writes it
  NilPriceInfo,    \* an offering of the daemon without a price_info
  Implemented      \* capabilities this build has a module for

\* Writing and reading a decimal are inverse.
ASSUME DecimalAssumption ==
  /\ 0 \in DOMAIN DecimalText /\ DOMAIN DecimalText \subseteq Int
  /\ \A n \in DOMAIN DecimalText :
       DecimalText[n] \in DOMAIN PriceValue /\ PriceValue[DecimalText[n]] = n

CurrentProtocolVersion == 1

-----------------------------------------------------------------------------
(***************************************************************************)
(* parse.go: validation.                                                   *)
(***************************************************************************)

\* m.ID == "", m.BackendURL == "" and malformed URLs are the empty string here.
validateOffering(o) ==
  /\ o.id # ""
  /\ o.price \in DOMAIN PriceValue
  /\ PriceValue[o.price] > 0
  /\ o.backend_url # ""

DistinctIDs(os) == \A i, j \in DOMAIN os : os[i].id = os[j].id => i = j
DistinctNames(caps) ==
  \A i, j \in DOMAIN caps : caps[i].capability = caps[j].capability => i = j

\* Mutated form: the duplicate check on offering ids is missing.
validateCapability_DuplicateOfferings(c) ==
  /\ c.capability \in CapabilityIDs
  /\ c.work_unit \in WorkUnits
  /\ c.offerings # << >>
  /\ \A j \in DOMAIN c.offerings : validateOffering(c.offerings[j])

validateCapability(c) ==
  /\ c.capability \in CapabilityIDs
  /\ c.work_unit \in WorkUnits
  /\ c.offerings # << >>
  /\ \A j \in DOMAIN c.offerings : validateOffering(c.offerings[j])
  /\ DistinctIDs(c.offerings)

\* Mutated form: the duplicate check on capability names is missing.
validateCapabilities_NoDuplicateCheck(caps) ==
  /\ caps # << >>
  /\ \A i \in DOMAIN caps : validateCapability(caps[i])

validateCapabilities(caps) ==
  /\ caps # << >>
  /\ \A i \in DOMAIN caps : validateCapability(caps[i])
  /\ DistinctNames(caps)

validateWorker(w) ==
  w.http_listen # "" /\ w.payment_daemon_socket # "" /\ w.max_concurrent_requests > 0

validate(y) ==
  /\ ~y.service_registry_publisher
  /\ y.protocol_version = CurrentProtocolVersion
  /\ y.payment_daemon
  /\ y.worker_eth_address \in {"", "lowercase hex"}
  /\ validateWorker(y.worker)
  /\ validateCapabilities(y.capabilities)

\* A file that cannot be opened, is not YAML, or has an unknown field or a
\* second document does not decode.
parseFile(y) == y.decodes

Load(y) == parseFile(y) /\ validate(y)

-----------------------------------------------------------------------------
(***************************************************************************)
(* config.go: the routing table.  New assigns Route[(capability, model)]   *)
(* in file order, so the last of two equal keys would win.                 *)
(***************************************************************************)
Positions(caps, c, m) ==
  {p \in {<<i, j>> : i \in DOMAIN caps, j \in UNION {DOMAIN caps[k].offerings : k \in DOMAIN caps}} :
     /\ p[2] \in DOMAIN caps[p[1]].offerings
     /\ caps[p[1]].capability = c
     /\ caps[p[1]].offerings[p[2]].id = m}

Last(ps) == CHOOSE p \in ps : \A q \in ps : q[1] < p[1] \/ (q[1] = p[1] /\ q[2] <= p[2])

HasRoute(caps, c, m) == Positions(caps, c, m) # {}

Lookup(caps, c, m) ==
  LET p == Last(Positions(caps, c, m)) IN
  [capability |-> c, model |-> m, work_unit |-> caps[p[1]].work_unit,
   price |-> caps[p[1]].offerings[p[2]].price]

\* handlers.go: what GET /registry/offerings publishes, from Ordered.
registryOfferings(caps) ==
  [i \in DOMAIN caps |->
     [name |-> caps[i].capability, work_unit |-> caps[i].work_unit,
      offerings |-> [j \in DOMAIN caps[i].offerings |->
                       [id |-> caps[i].offerings[j].id,
                        price |-> caps[i].offerings[j].price]]]]

-----------------------------------------------------------------------------
(***************************************************************************)
(* grpc.go: the daemon's reply as the worker reads it.  Prices are         *)
(* non-negative, for which Go's division is \div.                          *)
(***************************************************************************)
priceInfoToWeiString(p) ==
  IF p = NilPriceInfo THEN DecimalText[0]
  ELSE IF p.pixelsPerUnit <= 0 THEN DecimalText[p.pricePerUnit]
  ELSE DecimalText[p.pricePerUnit \div p.pixelsPerUnit]

ListCapabilities(reply) ==
  [i \in DOMAIN reply |->
     [capability |-> reply[i].capability, work_unit |-> reply[i].work_unit,
      offerings |-> [j \in DOMAIN reply[i].offerings |->
                       [id |-> reply[i].offerings[j].id,
                        price |-> priceInfoToWeiString(reply[i].offerings[j].price_info)]]]]

-----------------------------------------------------------------------------
(***************************************************************************)
(* verify.go: position by position, texts compared byte for byte.          *)
(***************************************************************************)

\* Mutated form: the offering's price is not compared.
VerifyDaemonCatalog_IDsOnly(caps, daemon) ==
  /\ Len(daemon) = Len(caps)
  /\ \A i \in DOMAIN caps :
       /\ caps[i].capability = daemon[i].capability
       /\ caps[i].work_unit = daemon[i].work_unit
       /\ Len(daemon[i].offerings) = Len(caps[i].offerings)
       /\ \A j \in DOMAIN caps[i].offerings :
            caps[i].offerings[j].id = daemon[i].offerings[j].id

VerifyDaemonCatalog(caps, daemon) ==
  /\ Len(daemon) = Len(caps)
  /\ \A i \in DOMAIN caps :
       /\ caps[i].capability = daemon[i].capability
       /\ caps[i].work_unit = daemon[i].work_unit
       /\ Len(daemon[i].offerings) = Len(caps[i].offerings)
       /\ \A j \in DOMAIN caps[i].offerings :
            /\ caps[i].offerings[j].id = daemon[i].offerings[j].id
            /\ caps[i].offerings[j].price = daemon[i].offerings[j].price

-----------------------------------------------------------------------------
(***************************************************************************)
(* main.go: registration of the modules on the mux.                        *)
(***************************************************************************)

\* Each capability has one HTTP path; registering a path twice panics.
registerPanics(caps) ==
  \E i, j \in DOMAIN caps :
    i # j /\ caps[i].capability = caps[j].capability /\ caps[i].capability \in Implemented

\* Mutated form: the default case of the switch registers the capability too.
registerModules_AnyName(caps) == {caps[i].capability : i \in DOMAIN caps}

registerModules(caps) == {caps[i].capability : i \in DOMAIN caps} \cap Implemented

missingCapabilityModules(caps, registered) ==
  {caps[i].capability : i \in DOMAIN caps} \ registered
=============================================================================
