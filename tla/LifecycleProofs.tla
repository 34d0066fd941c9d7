--------------------------- MODULE LifecycleProofs ---------------------------
(***************************************************************************)
(* What a serving worker sells, for every set of files, daemon catalogs    *)
(* and handlers.                                                           *)
(***************************************************************************)
EXTENDS WorkerLifecycle, TLAPS

\* A validated catalog names every (capability, model) once, so that the
\* last-wins assignment of config.go is an assignment of one value.
LEMMA RouteUnique ==
  ASSUME NEW cs, IsCatalog(cs), validateCapabilities(cs),
         NEW i \in DOMAIN cs, NEW j \in DOMAIN cs[i].offerings
  PROVE  Positions(cs, cs[i].capability, cs[i].offerings[j].id) = {<<i, j>>}
<1> DEFINE ps == Positions(cs, cs[i].capability, cs[i].offerings[j].id)
<1>1. <<i, j>> \in ps
  BY DEF Positions
<1>2. ASSUME NEW p \in ps PROVE p = <<i, j>>
  <2>1. PICK k \in DOMAIN cs, n \in UNION {DOMAIN cs[l].offerings : l \in DOMAIN cs} :
          p = <<k, n>>
    BY DEF Positions
  <2>2. /\ n \in DOMAIN cs[k].offerings
        /\ cs[k].capability = cs[i].capability
        /\ cs[k].offerings[n].id = cs[i].offerings[j].id
    BY <2>1 DEF Positions
  <2>3. k = i
    BY <2>2 DEF validateCapabilities, DistinctNames
  <2>4. DistinctIDs(cs[i].offerings)
    BY DEF validateCapabilities, validateCapability
  <2>5. n = j
    BY <2>2, <2>3, <2>4 DEF DistinctIDs
  <2> QED BY <2>1, <2>3, <2>5
<1> QED BY <1>1, <1>2

\* Lookup finds the line of worker.yaml that states the offering.
LEMMA LookupFinds ==
  ASSUME NEW cs, IsCatalog(cs), validateCapabilities(cs),
         NEW i \in DOMAIN cs, NEW j \in DOMAIN cs[i].offerings
  PROVE  LET c == cs[i].capability
             m == cs[i].offerings[j].id IN
         /\ HasRoute(cs, c, m)
         /\ Lookup(cs, c, m).price = cs[i].offerings[j].price
         /\ Lookup(cs, c, m).work_unit = cs[i].work_unit
<1> DEFINE ps == Positions(cs, cs[i].capability, cs[i].offerings[j].id)
<1>1. ps = {<<i, j>>}
  BY RouteUnique
<1>2. i \in Int /\ j \in Int
  BY DEF IsCatalog, IsList
<1>3. Last(ps) = <<i, j>>
  <2>1. \A q \in ps : q[1] < i \/ (q[1] = i /\ q[2] <= j)
    BY <1>1, <1>2
  <2> QED BY <1>1, <2>1 DEF Last
<1> HIDE DEF ps
<1>4. HasRoute(cs, cs[i].capability, cs[i].offerings[j].id)
  BY <1>1 DEF HasRoute, ps
<1>5. Lookup(cs, cs[i].capability, cs[i].offerings[j].id) =
        [capability |-> cs[i].capability, model |-> cs[i].offerings[j].id,
         work_unit |-> cs[i].work_unit, price |-> cs[i].offerings[j].price]
  BY <1>3 DEF Lookup, ps
<1> QED BY <1>4, <1>5

\* Reading the daemon's reply keeps its lists, names and units.
LEMMA ReplyRead ==
  ASSUME NEW d, IsCatalog(d)
  PROVE  LET r == ListCapabilities(d) IN
         /\ DOMAIN r = DOMAIN d /\ Len(r) = Len(d)
         /\ \A i \in DOMAIN d :
              /\ r[i].capability = d[i].capability
              /\ r[i].work_unit = d[i].work_unit
              /\ Len(r[i].offerings) = Len(d[i].offerings)
              /\ \A j \in DOMAIN d[i].offerings :
                   /\ r[i].offerings[j].id = d[i].offerings[j].id
                   /\ r[i].offerings[j].price = priceInfoToWeiString(d[i].offerings[j].price_info)
<1> DEFINE r == ListCapabilities(d)
<1>1. DOMAIN r = DOMAIN d
  BY DEF ListCapabilities
<1>2. Len(r) = Len(d)
  BY DEF ListCapabilities, IsCatalog, IsList
<1>3. ASSUME NEW i \in DOMAIN d
      PROVE  /\ r[i].capability = d[i].capability
             /\ r[i].work_unit = d[i].work_unit
  BY DEF ListCapabilities
<1>4. ASSUME NEW i \in DOMAIN d
      PROVE  Len(r[i].offerings) = Len(d[i].offerings)
  <2>1. Len(d[i].offerings) \in Nat /\ DOMAIN d[i].offerings = 1..Len(d[i].offerings)
    BY DEF IsCatalog, IsList
  <2> QED BY <2>1 DEF ListCapabilities
<1>5. ASSUME NEW i \in DOMAIN d, NEW j \in DOMAIN d[i].offerings
      PROVE  /\ r[i].offerings[j].id = d[i].offerings[j].id
             /\ r[i].offerings[j].price = priceInfoToWeiString(d[i].offerings[j].price_info)
  BY DEF ListCapabilities
<1> QED BY <1>1, <1>2, <1>3, <1>4, <1>5

\* A positive price that equals the reply's, as text, is the daemon's number.
LEMMA PriceRead ==
  ASSUME NEW text, NEW p, text = priceInfoToWeiString(p), PriceValue[text] > 0,
         p # NilPriceInfo => p.pricePerUnit \in DOMAIN DecimalText
  PROVE  SamePrice(text, p)
<1>1. p # NilPriceInfo
  <2> SUFFICES ASSUME p = NilPriceInfo PROVE FALSE
    OBVIOUS
  <2>1. text = DecimalText[0]
    BY DEF priceInfoToWeiString
  <2> QED BY <2>1, DecimalAssumption
<1>2. ASSUME p.pixelsPerUnit = 1 PROVE PriceValue[text] = p.pricePerUnit
  <2>1. p.pricePerUnit \in DOMAIN DecimalText /\ p.pricePerUnit \in Int
    BY <1>1, DecimalAssumption
  <2>2. p.pricePerUnit \div 1 = p.pricePerUnit
    BY <2>1
  <2>3. text = DecimalText[p.pricePerUnit \div 1]
    BY <1>1, <1>2 DEF priceInfoToWeiString
  <2> QED BY <2>1, <2>2, <2>3, DecimalAssumption
<1> QED BY <1>1, <1>2 DEF SamePrice

\* VerifyDaemonCatalog compares by position and the mux routes by name: for a
\* validated file the two agree, in both directions.
LEMMA VerifySound ==
  ASSUME NEW cs, NEW d, IsCatalog(cs), IsCatalog(d),
         \A i \in DOMAIN d : \A j \in DOMAIN d[i].offerings :
           d[i].offerings[j].price_info # NilPriceInfo =>
             d[i].offerings[j].price_info.pricePerUnit \in DOMAIN DecimalText,
         validateCapabilities(cs), VerifyDaemonCatalog(cs, ListCapabilities(d))
  PROVE  /\ \A i \in DOMAIN d : \A j \in DOMAIN d[i].offerings :
              LET c == d[i].capability
                  o == d[i].offerings[j] IN
              /\ HasRoute(cs, c, o.id)
              /\ SamePrice(Lookup(cs, c, o.id).price, o.price_info)
              /\ Lookup(cs, c, o.id).work_unit = d[i].work_unit
         /\ \A i \in DOMAIN cs : \A j \in DOMAIN cs[i].offerings :
              \E k \in DOMAIN d :
                /\ d[k].capability = cs[i].capability
                /\ \E n \in DOMAIN d[k].offerings :
                     d[k].offerings[n].id = cs[i].offerings[j].id
<1>1. DOMAIN d = DOMAIN cs
  BY ReplyRead DEF IsCatalog, IsList, VerifyDaemonCatalog
<1>2. ASSUME NEW i \in DOMAIN cs
      PROVE  /\ DOMAIN d[i].offerings = DOMAIN cs[i].offerings
             /\ d[i].capability = cs[i].capability
             /\ d[i].work_unit = cs[i].work_unit
             /\ \A j \in DOMAIN cs[i].offerings :
                  /\ d[i].offerings[j].id = cs[i].offerings[j].id
                  /\ priceInfoToWeiString(d[i].offerings[j].price_info) = cs[i].offerings[j].price
  <2> DEFINE r == ListCapabilities(d)
  <2>1. /\ cs[i].capability = r[i].capability
        /\ cs[i].work_unit = r[i].work_unit
        /\ Len(r[i].offerings) = Len(cs[i].offerings)
        /\ \A j \in DOMAIN cs[i].offerings :
             /\ cs[i].offerings[j].id = r[i].offerings[j].id
             /\ cs[i].offerings[j].price = r[i].offerings[j].price
    BY DEF VerifyDaemonCatalog
  <2> HIDE DEF r
  <2>2. /\ r[i].capability = d[i].capability
        /\ r[i].work_unit = d[i].work_unit
        /\ Len(r[i].offerings) = Len(d[i].offerings)
        /\ \A j \in DOMAIN d[i].offerings :
             /\ r[i].offerings[j].id = d[i].offerings[j].id
             /\ r[i].offerings[j].price = priceInfoToWeiString(d[i].offerings[j].price_info)
    BY <1>1, ReplyRead DEF r
  <2>3. DOMAIN d[i].offerings = DOMAIN cs[i].offerings
    BY <1>1, <2>1, <2>2 DEF IsCatalog, IsList
  <2> QED BY <2>1, <2>2, <2>3
<1>3. ASSUME NEW i \in DOMAIN d, NEW j \in DOMAIN d[i].offerings
      PROVE  /\ HasRoute(cs, d[i].capability, d[i].offerings[j].id)
             /\ SamePrice(Lookup(cs, d[i].capability, d[i].offerings[j].id).price,
                          d[i].offerings[j].price_info)
             /\ Lookup(cs, d[i].capability, d[i].offerings[j].id).work_unit
                  = d[i].work_unit
  <2>1. i \in DOMAIN cs /\ j \in DOMAIN cs[i].offerings
    BY <1>1, <1>2
  <2>2. /\ d[i].capability = cs[i].capability
        /\ d[i].work_unit = cs[i].work_unit
        /\ d[i].offerings[j].id = cs[i].offerings[j].id
        /\ cs[i].offerings[j].price = priceInfoToWeiString(d[i].offerings[j].price_info)
    BY <1>2, <2>1
  <2>3. PriceValue[cs[i].offerings[j].price] > 0
    BY <2>1 DEF validateCapabilities, validateCapability, validateOffering
  <2>4. SamePrice(cs[i].offerings[j].price, d[i].offerings[j].price_info)
    BY <2>2, <2>3, PriceRead
  <2>5. /\ HasRoute(cs, cs[i].capability, cs[i].offerings[j].id)
        /\ Lookup(cs, cs[i].capability, cs[i].offerings[j].id).price = cs[i].offerings[j].price
        /\ Lookup(cs, cs[i].capability, cs[i].offerings[j].id).work_unit = cs[i].work_unit
    BY <2>1, LookupFinds
  <2> QED BY <2>2, <2>4, <2>5
<1>4. ASSUME NEW i \in DOMAIN cs, NEW j \in DOMAIN cs[i].offerings
      PROVE  \E k \in DOMAIN d :
               /\ d[k].capability = cs[i].capability
               /\ \E n \in DOMAIN d[k].offerings :
                    d[k].offerings[n].id = cs[i].offerings[j].id
  BY <1>1, <1>2
<1> QED BY <1>3, <1>4

\* Every route of a validated catalog has a positive price.
LEMMA RoutePricePositive ==
  ASSUME NEW cs, IsCatalog(cs), validateCapabilities(cs),
         NEW i \in DOMAIN cs, NEW j \in DOMAIN cs[i].offerings
  PROVE  PriceValue[Lookup(cs, cs[i].capability, cs[i].offerings[j].id).price] > 0
<1>1. Lookup(cs, cs[i].capability, cs[i].offerings[j].id).price = cs[i].offerings[j].price
  BY LookupFinds
<1>2. PriceValue[cs[i].offerings[j].price] > 0
  BY DEF validateCapabilities, validateCapability, validateOffering
<1> QED BY <1>1, <1>2

-----------------------------------------------------------------------------
(***************************************************************************)
(* The inductive invariant: what run() has established at each position,   *)
(* and that the server goroutine keeps once run() has gone past it.        *)
(***************************************************************************)
BeforeServer == {"flags", "load", "dial", "verify", "register", "server"}

Verified ==
  yaml.worker.verify_daemon_consistency_on_start =>
    VerifyDaemonCatalog(caps, ListCapabilities(daemon))

Complete == missingCapabilityModules(caps, registered) = {}

Established ==
  /\ main \in BeforeServer => srv = "off"
  /\ srv # "off" \/ main \in {"dial", "verify", "register", "server"} => Load(yaml)
  /\ srv # "off" \/ main \in {"register", "server"} => Verified
  /\ srv # "off" \/ main = "server" => Complete

HandlersServed ==
  (\E h \in Handlers : handler[h] \in {"accepted", "running"}) => srv # "off"

IInv == TypeOK /\ Established /\ HandlersServed /\ NoRegistrationPanic

\* A validated file registers no path twice.
LEMMA NoDuplicatePath == ASSUME Load(yaml) PROVE ~registerPanics(caps)
  BY DEF Load, validate, validateCapabilities, DistinctNames, registerPanics, caps

LEMMA InitIInv == Init => IInv
  BY DEF Init, IInv, TypeOK, Established, HandlersServed, NoRegistrationPanic, Running,
         BeforeServer, Starting, Stopping, Results

\* What the steps other than VerifyCatalog and RegisterModules leave alone.
LEMMA CatalogKept ==
  ASSUME UNCHANGED startVars
  PROVE  /\ Load(yaml)' = Load(yaml)
         /\ Verified' = Verified
         /\ Complete' = Complete
  BY DEF startVars, Verified, Complete, caps

LEMMA MainTyped ==
  ASSUME IInv, Main
  PROVE  TypeOK'
<1> USE DEF IInv, TypeOK, Goto, Return, Starting, Stopping, Results, startVars, srvVars,
            lisVars, ExitCode
<1>1. CASE ParseFlags \/ LoadConfig \/ DialDaemon
  BY <1>1 DEF ParseFlags, LoadConfig, DialDaemon
<1>2. CASE VerifyCatalog
  BY <1>2 DEF VerifyCatalog
<1>3. CASE RegisterModules
  <2>1. registered' \subseteq Implemented
    BY <1>3 DEF RegisterModules, registerModules
  <2> QED BY <1>3, <2>1 DEF RegisterModules
<1>4. CASE StartServer \/ StartMetrics \/ Notify
  <2>1. CASE StartServer BY <2>1 DEF StartServer
  <2>2. CASE StartMetrics BY <2>2 DEF StartMetrics
  <2>3. CASE Notify BY <2>3 DEF Notify
  <2> QED BY <1>4, <2>1, <2>2, <2>3
<1>5. CASE SelectServerErr \/ SelectMetricsErr \/ SelectSignal
  <2>1. CASE SelectServerErr BY <2>1 DEF SelectServerErr
  <2>2. CASE SelectMetricsErr BY <2>2 DEF SelectMetricsErr
  <2>3. CASE SelectSignal
    <3>1. main' \in Stopping BY <2>3 DEF SelectSignal
    <3>2. sig' \in BOOLEAN /\ shutting' \in BOOLEAN /\ code' = code BY <2>3 DEF SelectSignal
    <3>3. yaml' = yaml /\ metricsOn' = metricsOn /\ daemon' = daemon /\ registered' = registered
      BY <2>3 DEF SelectSignal
    <3>4. /\ conn' = conn /\ srv' = srv /\ lis' = lis /\ serverErr' = serverErr
          /\ metricsErr' = metricsErr /\ metricsCtx' = metricsCtx
          /\ handler' = handler /\ lateRPC' = lateRPC
      BY <2>3 DEF SelectSignal
    <3>5. TypeOK OBVIOUS
    <3> HIDE DEF IInv
    <3> QED BY ONLY <3>1, <3>2, <3>3, <3>4, <3>5 DEF TypeOK, Stopping
  <2> QED BY <1>5, <2>1, <2>2, <2>3
<1>6. CASE ShutdownDrained \/ ShutdownDeadline
  BY <1>6 DEF ShutdownDrained, ShutdownDeadline
<1>7. CASE StopMetrics
  <2>1. main' \in Stopping
    BY <1>7 DEF StopMetrics
  <2> QED BY <1>7, <2>1 DEF StopMetrics
<1>8. CASE AwaitMetrics \/ DrainServer \/ RunDefers
  <2>1. CASE AwaitMetrics BY <2>1 DEF AwaitMetrics
  <2>2. CASE DrainServer BY <2>2 DEF DrainServer
  <2>3. CASE RunDefers BY <2>3 DEF RunDefers
  <2> QED BY <1>8, <2>1, <2>2, <2>3
<1>9. CASE Exit
  BY <1>9 DEF Exit, Die
<1> QED BY <1>1, <1>2, <1>3, <1>4, <1>5, <1>6, <1>7, <1>8, <1>9 DEF Main

LEMMA MainEstablished ==
  ASSUME IInv, Main
  PROVE  Established' /\ HandlersServed' /\ NoRegistrationPanic'
<1> USE DEF IInv, Established, HandlersServed, NoRegistrationPanic, Running, BeforeServer,
            Goto, Return, srvVars
<1>1. CASE ParseFlags
  BY <1>1, CatalogKept DEF ParseFlags
<1>2. CASE LoadConfig
  BY <1>2, CatalogKept DEF LoadConfig
<1>3. CASE DialDaemon
  BY <1>3, CatalogKept DEF DialDaemon
<1>4. CASE VerifyCatalog
  <2>1. main = "verify" /\ srv' = "off" /\ UNCHANGED <<yaml, handler>>
    BY <1>4 DEF VerifyCatalog
  <2>2. Load(yaml)'
    BY <2>1
  <2>3. main' = "register" => Verified'
    BY <1>4, <2>1 DEF VerifyCatalog, Verified, caps
  <2>4. main' \in {"register", "defers"} /\ code' # "panic"
    BY <1>4 DEF VerifyCatalog
  <2> QED BY <2>1, <2>2, <2>3, <2>4
<1>5. CASE RegisterModules
  <2>1. main = "register" /\ srv' = "off" /\ UNCHANGED <<yaml, daemon, handler>>
    BY <1>5 DEF RegisterModules
  <2>2. Load(yaml) /\ Load(yaml)' /\ Verified'
    BY <2>1 DEF Verified, caps
  <2>3. code' # "panic"
    BY <1>5, <2>2, NoDuplicatePath DEF RegisterModules
  <2>4. main' \in {"server", "defers"} /\ (main' = "server" => Complete')
    BY <1>5, <2>1 DEF RegisterModules, Complete, caps
  <2> QED BY <2>1, <2>2, <2>3, <2>4
<1>6. CASE StartServer
  BY <1>6, CatalogKept DEF StartServer
<1>7. CASE StartMetrics \/ Notify
  BY <1>7, CatalogKept DEF StartMetrics, Notify
<1>8. CASE SelectServerErr \/ SelectMetricsErr \/ SelectSignal
  BY <1>8, CatalogKept DEF SelectServerErr, SelectMetricsErr, SelectSignal, ExitCode
<1>9. CASE ShutdownDrained \/ ShutdownDeadline \/ StopMetrics
  BY <1>9, CatalogKept DEF ShutdownDrained, ShutdownDeadline, StopMetrics
<1>10. CASE AwaitMetrics \/ DrainServer \/ RunDefers
  BY <1>10, CatalogKept DEF AwaitMetrics, DrainServer, RunDefers
<1>11. CASE Exit
  BY <1>11, CatalogKept DEF Exit, Die
<1> QED BY <1>1, <1>2, <1>3, <1>4, <1>5, <1>6, <1>7, <1>8, <1>9, <1>10, <1>11 DEF Main

\* The server goroutines, the handlers and the signal.
LEMMA OthersInvariant ==
  ASSUME IInv,
         \/ ServerStart \/ ServerStop \/ ListenerStart \/ ListenerStop
         \/ \E h \in Handlers : AcceptConn(h) \/ HandlerBegin(h) \/ HandlerRPC(h) \/ HandlerEnd(h)
         \/ Signal
  PROVE  IInv'
<1> USE DEF IInv, TypeOK, Established, HandlersServed, NoRegistrationPanic, Running,
            BeforeServer, Starting, Stopping, Results, srvVars, lisVars
<1>0. UNCHANGED startVars
  BY DEF ServerStart, ServerStop, ListenerStart, ListenerStop, AcceptConn, HandlerBegin, HandlerRPC,
         HandlerEnd, Signal, startVars
<1>1. UNCHANGED <<yaml, metricsOn, daemon, registered>>
  BY <1>0 DEF startVars
<1>2. CASE ServerStart
  BY <1>0, <1>1, <1>2, CatalogKept DEF ServerStart
<1>3. CASE ServerStop
  BY <1>0, <1>1, <1>3, CatalogKept DEF ServerStop
<1>4. CASE ListenerStart \/ ListenerStop
  BY <1>0, <1>1, <1>4, CatalogKept DEF ListenerStart, ListenerStop
<1>5. ASSUME NEW h \in Handlers, AcceptConn(h) \/ HandlerBegin(h) PROVE IInv'
  BY <1>0, <1>1, <1>5, CatalogKept DEF AcceptConn, HandlerBegin
<1>6. ASSUME NEW h \in Handlers, HandlerRPC(h) PROVE IInv'
  BY <1>0, <1>1, <1>6, CatalogKept DEF HandlerRPC
<1>7. ASSUME NEW h \in Handlers, HandlerEnd(h) PROVE IInv'
  BY <1>0, <1>1, <1>7, CatalogKept DEF HandlerEnd
<1>8. CASE Signal
  <2>1. CASE main \in Starting
    <3>1. main' = "exited" /\ code' = "signal" /\ Die /\ UNCHANGED <<srv, sig>>
      BY <1>8, <2>1 DEF Signal
    <3>2. handler' \in [Handlers -> {"idle", "accepted", "running", "done", "killed"}]
      BY <3>1 DEF Die
    <3>3. \A h \in Handlers : handler'[h] \in {"accepted", "running"} => handler[h] = "accepted"
      BY <3>1 DEF Die
    <3>4. TypeOK'
      BY <1>1, <1>8, <3>1, <3>2 DEF Signal
    <3> QED BY <1>0, <3>1, <3>3, <3>4, CatalogKept
  <2>2. CASE main \notin Starting
    <3>1. sig' = TRUE /\ UNCHANGED <<main, code, handler, conn, srvVars, lisVars, lateRPC>>
      BY <1>8, <2>2 DEF Signal
    <3> QED BY <1>0, <1>1, <3>1, CatalogKept
  <2> QED BY <2>1, <2>2
<1> QED BY <1>2, <1>3, <1>4, <1>5, <1>6, <1>7, <1>8

LEMMA StutterInvariant == ASSUME IInv, UNCHANGED vars PROVE IInv'
<1>1. UNCHANGED startVars
  BY DEF vars
<1> QED BY <1>1, CatalogKept DEF vars, startVars, srvVars, lisVars, IInv, TypeOK, Established,
           HandlersServed, NoRegistrationPanic, Running

LEMMA NextIInv == IInv /\ [Next]_vars => IInv'
<1> SUFFICES ASSUME IInv, [Next]_vars PROVE IInv'
  OBVIOUS
<1>1. CASE Main
  BY <1>1, MainTyped, MainEstablished DEF IInv
<1>2. CASE UNCHANGED vars
  BY <1>2, StutterInvariant
<1>3. CASE \/ ServerStart \/ ServerStop \/ ListenerStart \/ ListenerStop
           \/ \E h \in Handlers : AcceptConn(h) \/ HandlerBegin(h) \/ HandlerRPC(h) \/ HandlerEnd(h)
           \/ Signal
  BY <1>3, OthersInvariant
<1> QED BY <1>1, <1>2, <1>3 DEF Next

\* The process never leaves its state space.
THEOREM LifecycleTyped == Spec => []TypeOK
<1>1. IInv => TypeOK
  BY DEF IInv
<1> QED BY <1>1, InitIInv, NextIInv, PTL DEF Spec

\* No validated worker.yaml makes RegisterPaidRoute panic.
THEOREM NeverPanics == Spec => []NoRegistrationPanic
<1>1. IInv => NoRegistrationPanic
  BY DEF IInv
<1> QED BY <1>1, InitIInv, NextIInv, PTL DEF Spec

\* Whatever run() established holds while anything is served.
LEMMA ServingEstablished ==
  ASSUME IInv, Serving
  PROVE  /\ IsCatalog(caps) /\ IsCatalog(daemon)
         /\ \A i \in DOMAIN daemon : \A j \in DOMAIN daemon[i].offerings :
              daemon[i].offerings[j].price_info # NilPriceInfo =>
                daemon[i].offerings[j].price_info.pricePerUnit \in DOMAIN DecimalText
         /\ validateCapabilities(caps)
         /\ Verified /\ Complete
<1>1. srv # "off"
  BY DEF Serving, Running, IInv, HandlersServed
<1>2. Load(yaml) /\ Verified /\ Complete
  BY <1>1 DEF IInv, Established
<1>3. validateCapabilities(caps)
  BY <1>2 DEF Load, validate, caps
<1>4. IsCatalog(caps)
  BY CatalogAssumption DEF IInv, TypeOK, caps
<1>5. IsCatalog(NoCatalog)
  BY DEF IsCatalog, IsList, NoCatalog
<1>6. IsCatalog(daemon)
  BY <1>5, CatalogAssumption DEF IInv, TypeOK
<1>7. \A i \in DOMAIN daemon : \A j \in DOMAIN daemon[i].offerings :
        daemon[i].offerings[j].price_info # NilPriceInfo =>
          daemon[i].offerings[j].price_info.pricePerUnit \in DOMAIN DecimalText
  <2>1. CASE daemon \in DaemonReplies
    BY <2>1, PriceAssumption
  <2>2. CASE daemon = NoCatalog
    BY <2>2 DEF NoCatalog
  <2> QED BY <2>1, <2>2 DEF IInv, TypeOK
<1> QED BY <1>2, <1>3, <1>4, <1>6, <1>7

\* A worker that checked its catalog at start-up looks up the daemon's prices,
\* for every file and every catalog the daemon may report.
THEOREM DaemonPricesServed == Spec => []ServesDaemonPrices
<1>1. IInv => ServesDaemonPrices
  <2> SUFFICES ASSUME IInv, Serving, yaml.worker.verify_daemon_consistency_on_start
               PROVE  ServesDaemonPrices
    BY DEF ServesDaemonPrices
  <2>1. VerifyDaemonCatalog(caps, ListCapabilities(daemon))
    BY ServingEstablished DEF Verified
  <2> QED BY <2>1, ServingEstablished, VerifySound DEF ServesDaemonPrices
<1> QED BY <1>1, InitIInv, NextIInv, PTL DEF Spec

\* There is no partial mode: what is served is registered and priced.
THEOREM FullCatalogServed == Spec => []FullCatalogOrNothing
<1>1. IInv => FullCatalogOrNothing
  <2> SUFFICES ASSUME IInv, Serving,
                      NEW i \in DOMAIN caps
               PROVE  /\ caps[i].capability \in registered
                      /\ \A j \in DOMAIN caps[i].offerings :
                           PriceValue[Lookup(caps, caps[i].capability,
                                             caps[i].offerings[j].id).price] > 0
    BY DEF FullCatalogOrNothing
  <2>1. caps[i].capability \in registered
    BY ServingEstablished DEF Complete, missingCapabilityModules
  <2>2. \A j \in DOMAIN caps[i].offerings :
          PriceValue[Lookup(caps, caps[i].capability, caps[i].offerings[j].id).price] > 0
    BY ServingEstablished, RoutePricePositive
  <2> QED BY <2>1, <2>2
<1> QED BY <1>1, InitIInv, NextIInv, PTL DEF Spec

\* The catalog an orchestrator scrapes is the one requests are charged by.
THEOREM PublishedIsCharged == Spec => []PublishedPricesCharged
<1>1. IInv => PublishedPricesCharged
  <2> SUFFICES ASSUME IInv, Serving PROVE PublishedPricesCharged
    BY DEF PublishedPricesCharged
  <2> DEFINE pub == registryOfferings(caps)
  <2>1. ASSUME NEW i \in DOMAIN pub, NEW j \in DOMAIN pub[i].offerings
        PROVE  /\ pub[i].name \in registered
               /\ HasRoute(caps, pub[i].name, pub[i].offerings[j].id)
               /\ Lookup(caps, pub[i].name, pub[i].offerings[j].id).price
                    = pub[i].offerings[j].price
               /\ Lookup(caps, pub[i].name, pub[i].offerings[j].id).work_unit
                    = pub[i].work_unit
    <3>1. i \in DOMAIN caps /\ j \in DOMAIN caps[i].offerings
      BY DEF registryOfferings
    <3>2. /\ pub[i].name = caps[i].capability
          /\ pub[i].work_unit = caps[i].work_unit
          /\ pub[i].offerings[j].id = caps[i].offerings[j].id
          /\ pub[i].offerings[j].price = caps[i].offerings[j].price
      BY <3>1 DEF registryOfferings
    <3>3. caps[i].capability \in registered
      BY <3>1, ServingEstablished DEF Complete, missingCapabilityModules
    <3>4. /\ HasRoute(caps, caps[i].capability, caps[i].offerings[j].id)
          /\ Lookup(caps, caps[i].capability, caps[i].offerings[j].id).price
               = caps[i].offerings[j].price
          /\ Lookup(caps, caps[i].capability, caps[i].offerings[j].id).work_unit
               = caps[i].work_unit
      BY <3>1, ServingEstablished, LookupFinds
    <3> QED BY <3>2, <3>3, <3>4
  <2> QED BY <2>1 DEF PublishedPricesCharged
<1> QED BY <1>1, InitIInv, NextIInv, PTL DEF Spec

-----------------------------------------------------------------------------
(***************************************************************************)
(* Graceful shutdown.  Exit code 0 can be reached only through the drain:  *)
(* a result channel holds nil only after shutdown was asked for, so the    *)
(* select never returns 0.  What the later positions of run() waited for   *)
(* stays true, because no handler starts once shutdown was asked for.      *)
(***************************************************************************)
Drained == \A h \in Handlers : handler[h] \in {"idle", "done"}

Channels ==
  /\ serverErr = "nil" => shutting
  /\ metricsErr = "nil" => metricsCtx
  /\ serverErr # "empty" => srv = "stopped"
  /\ metricsErr # "empty" => lis = "stopped"

Asked ==
  /\ main \in Starting \cup {"select"} => ~shutting /\ ~metricsCtx
  /\ main \in Stopping \/ code = "0" => shutting
  /\ main \in Starting \ {"notify"} \/ ~metricsOn => lis = "off"

Waited ==
  /\ main \in Stopping \ {"drain"} \/ code = "0" => Drained /\ srv # "listening"
  /\ main = "drainServer" \/ code = "0" => lis \in {"off", "stopped"}
  /\ code = "0" => srv = "stopped" /\ main \in {"defers", "return", "exited"}
  /\ \A h \in Handlers : handler[h] = "killed" => main = "exited"

Connection ==
  /\ conn = "closed" => main \in {"return", "exited"}
  /\ main \in (Starting \ {"flags", "load", "dial"}) \cup {"select"} \cup Stopping => conn = "open"
  /\ code = "0" => conn = IF main = "defers" THEN "open" ELSE "closed"
  /\ lateRPC => code # "0" /\ main \in {"return", "exited"}

DrainInv == Channels /\ Asked /\ Waited /\ Connection

LEMMA InitDrainInv == Init => DrainInv
  BY DEF Init, DrainInv, Channels, Asked, Waited, Connection, Starting, Stopping

LEMMA MainDrainInv == ASSUME IInv, DrainInv, Main PROVE DrainInv'
<1> USE DEF DrainInv, Channels, Asked, Waited, Connection, Drained, IInv, TypeOK, Starting,
            Stopping, Results, Goto, Return, startVars, srvVars, lisVars
<1>1. CASE ParseFlags
  BY <1>1 DEF ParseFlags
<1>2. CASE LoadConfig
  BY <1>2 DEF LoadConfig
<1>3. CASE DialDaemon
  BY <1>3 DEF DialDaemon
<1>4. CASE VerifyCatalog
  BY <1>4 DEF VerifyCatalog
<1>5. CASE RegisterModules
  BY <1>5 DEF RegisterModules
<1>6. CASE StartServer
  BY <1>6 DEF StartServer, Established, BeforeServer
<1>7. CASE StartMetrics
  BY <1>7 DEF StartMetrics
<1>8. CASE Notify
  BY <1>8 DEF Notify
<1>9. CASE SelectServerErr
  BY <1>9 DEF SelectServerErr, ExitCode
<1>10. CASE SelectMetricsErr
  BY <1>10 DEF SelectMetricsErr, ExitCode
<1>11. CASE SelectSignal
  BY <1>11 DEF SelectSignal
<1>12. CASE ShutdownDrained
  BY <1>12 DEF ShutdownDrained, Running
<1>13. CASE ShutdownDeadline
  BY <1>13 DEF ShutdownDeadline
<1>14. CASE StopMetrics
  BY <1>14 DEF StopMetrics
<1>15. CASE AwaitMetrics
  BY <1>15 DEF AwaitMetrics
<1>16. CASE DrainServer
  BY <1>16 DEF DrainServer
<1>17. CASE RunDefers
  BY <1>17 DEF RunDefers
<1>18. CASE Exit
  BY <1>18 DEF Exit, Die
<1> QED BY <1>1, <1>2, <1>3, <1>4, <1>5, <1>6, <1>7, <1>8, <1>9, <1>10, <1>11, <1>12, <1>13,
           <1>14, <1>15, <1>16, <1>17, <1>18 DEF Main

LEMMA OthersDrainInv ==
  ASSUME IInv, DrainInv,
         \/ ServerStart \/ ServerStop \/ ListenerStart \/ ListenerStop
         \/ \E h \in Handlers : AcceptConn(h) \/ HandlerBegin(h) \/ HandlerRPC(h) \/ HandlerEnd(h)
         \/ Signal
  PROVE  DrainInv'
<1> USE DEF DrainInv, Channels, Asked, Waited, Connection, Drained, IInv, TypeOK, Starting,
            Stopping, Results, startVars, srvVars, lisVars
<1>1. CASE ServerStart
  BY <1>1 DEF ServerStart
<1>2. CASE ServerStop
  BY <1>2 DEF ServerStop
<1>3. CASE ListenerStart
  BY <1>3 DEF ListenerStart
<1>4. CASE ListenerStop
  BY <1>4 DEF ListenerStop
<1>5. ASSUME NEW h \in Handlers, AcceptConn(h) \/ HandlerBegin(h) PROVE DrainInv'
  BY <1>5 DEF AcceptConn, HandlerBegin
<1>6. ASSUME NEW h \in Handlers, HandlerRPC(h) PROVE DrainInv'
  BY <1>6 DEF HandlerRPC
<1>7. ASSUME NEW h \in Handlers, HandlerEnd(h) PROVE DrainInv'
  BY <1>7 DEF HandlerEnd
<1>8. CASE Signal
  BY <1>8 DEF Signal, Die
<1> QED BY <1>1, <1>2, <1>3, <1>4, <1>5, <1>6, <1>7, <1>8

LEMMA NextDrainInv == IInv /\ DrainInv /\ [Next]_vars => DrainInv'
<1> SUFFICES ASSUME IInv, DrainInv, [Next]_vars PROVE DrainInv'
  OBVIOUS
<1>1. CASE Main
  BY <1>1, MainDrainInv
<1>2. CASE UNCHANGED vars
  BY <1>2 DEF vars, startVars, srvVars, lisVars, DrainInv, Channels, Asked, Waited, Connection,
              Drained
<1>3. CASE \/ ServerStart \/ ServerStop \/ ListenerStart \/ ListenerStop
           \/ \E h \in Handlers : AcceptConn(h) \/ HandlerBegin(h) \/ HandlerRPC(h) \/ HandlerEnd(h)
           \/ Signal
  BY <1>3, OthersDrainInv
<1> QED BY <1>1, <1>2, <1>3 DEF Next

\* A worker that exits with code 0 drained its handlers, stopped both servers
\* and closed the daemon connection that nobody used afterwards.
THEOREM CleanExit == Spec => []CleanExitDrained
<1>1. IInv /\ DrainInv => CleanExitDrained
  BY DEF CleanExitDrained, DrainInv, Waited, Connection, Drained
<1> QED BY <1>1, InitIInv, NextIInv, InitDrainInv, NextDrainInv, PTL DEF Spec
=============================================================================
