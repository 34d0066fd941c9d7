--------------------------- MODULE WorkerLifecycle ---------------------------
(***************************************************************************)
(* The worker process: run() in cmd/openai-worker-node/main.go with the    *)
(* goroutines it starts, the HTTP server (internal/runtime/http/server.go) *)
(* and the metrics listener (internal/runtime/metrics/listener.go).        *)
(*                                                                         *)
(* run() loads and validates worker.yaml, dials the payee daemon, compares *)
(* catalogs, registers the modules, starts the servers and waits for a     *)
(* server error, a metrics listener error or a signal.  A signal starts a  *)
(* graceful shutdown with a 30 second deadline.  Paid handlers run         *)
(* concurrently with all of this and call the payee daemon.                *)
(***************************************************************************)
EXTENDS Catalog

CONSTANTS
  YAMLs,            \* worker.yaml files the worker may be started with
  DaemonReplies,    \* replies of the daemon to ListCapabilities
  Handlers          \* paid requests, one handler goroutine each

\* Both catalogs are ordered lists of ordered lists.
IsList(s) == Len(s) \in Nat /\ DOMAIN s = 1..Len(s)
IsCatalog(s) == IsList(s) /\ \A i \in DOMAIN s : IsList(s[i].offerings)

ASSUME CatalogAssumption ==
  /\ \A y \in YAMLs : IsCatalog(y.capabilities)
  /\ \A d \in DaemonReplies : IsCatalog(d)

ASSUME PriceAssumption ==
  \A d \in DaemonReplies : \A i \in DOMAIN d : \A j \in DOMAIN d[i].offerings :
    LET p == d[i].offerings[j].price_info IN
    p # NilPriceInfo => p.pricePerUnit \in DOMAIN DecimalText

VARIABLES
  main,             \* where run() is
  code,             \* exit code of the process, or why it died
  yaml, metricsOn,  \* the file and --metrics-listen
  daemon,           \* the daemon's reply to ListCapabilities
  registered,       \* mux.paidCapabilities
  conn,             \* gRPC connection to the payee daemon
  srv, serverErr,   \* HTTP server goroutine and its result channel
  shutting,         \* srv.Shutdown was called
  lis, metricsErr,  \* metrics listener goroutine and its result channel
  metricsCtx,       \* metricsCtx is cancelled
  sig,              \* a signal is in the buffered channel
  handler,          \* state of each paid handler
  lateRPC           \* history: a handler called the daemon after Close

startVars == <<yaml, metricsOn, daemon, registered>>
srvVars == <<srv, serverErr, shutting>>
lisVars == <<lis, metricsErr, metricsCtx>>
vars == <<main, code, startVars, conn, srvVars, lisVars, sig, handler, lateRPC>>

Starting == {"flags", "load", "dial", "verify", "register", "server", "metrics", "notify"}
Stopping == {"drain", "stopMetrics", "awaitMetrics", "drainServer"}
Results == {"empty", "nil", "err"}
NoCatalog == << >>

TypeOK ==
  /\ main \in Starting \cup {"select"} \cup Stopping \cup {"defers", "return", "exited"}
  /\ code \in {"none", "0", "1", "2", "panic", "signal"}
  /\ yaml \in YAMLs /\ metricsOn \in BOOLEAN
  /\ daemon \in DaemonReplies \cup {NoCatalog}
  /\ registered \subseteq Implemented
  /\ conn \in {"none", "open", "closed"}
  /\ srv \in {"off", "starting", "listening", "stopped"}
  /\ lis \in {"off", "starting", "listening", "stopped"}
  /\ serverErr \in Results /\ metricsErr \in Results
  /\ shutting \in BOOLEAN /\ metricsCtx \in BOOLEAN /\ sig \in BOOLEAN
  /\ handler \in [Handlers -> {"idle", "accepted", "running", "done", "killed"}]
  /\ lateRPC \in BOOLEAN

Init ==
  /\ main = "flags" /\ code = "none"
  /\ yaml \in YAMLs /\ metricsOn \in BOOLEAN
  /\ daemon = NoCatalog /\ registered = {}
  /\ conn = "none"
  /\ srv = "off" /\ serverErr = "empty" /\ shutting = FALSE
  /\ lis = "off" /\ metricsErr = "empty" /\ metricsCtx = FALSE
  /\ sig = FALSE
  /\ handler = [h \in Handlers |-> "idle"]
  /\ lateRPC = FALSE

caps == yaml.capabilities
Running == {h \in Handlers : handler[h] = "running"}

Goto(from, to) == main = from /\ main' = to /\ UNCHANGED code

\* return c: the deferred functions still have to run.
Return(from, c) == main = from /\ main' = "defers" /\ code' = c

-----------------------------------------------------------------------------
(***************************************************************************)
(* run(): start-up.                                                        *)
(***************************************************************************)
ParseFlags ==
  /\ Goto("flags", "load") \/ Return("flags", "2")
  /\ UNCHANGED <<startVars, conn, srvVars, lisVars, sig, handler, lateRPC>>

LoadConfig ==
  /\ \/ Load(yaml) /\ Goto("load", "dial")
     \/ ~Load(yaml) /\ Return("load", "1")
  /\ UNCHANGED <<startVars, conn, srvVars, lisVars, sig, handler, lateRPC>>

DialDaemon ==
  /\ \/ Goto("dial", "verify") /\ conn' = "open"
     \/ Return("dial", "1") /\ UNCHANGED conn
  /\ UNCHANGED <<startVars, srvVars, lisVars, sig, handler, lateRPC>>

VerifyCatalog ==
  /\ \/ /\ ~yaml.worker.verify_daemon_consistency_on_start
        /\ Goto("verify", "register")
        /\ UNCHANGED daemon
     \/ /\ yaml.worker.verify_daemon_consistency_on_start
        /\ \/ \E d \in DaemonReplies :
                /\ daemon' = d
                /\ \/ VerifyDaemonCatalog(caps, ListCapabilities(d)) /\ Goto("verify", "register")
                   \/ ~VerifyDaemonCatalog(caps, ListCapabilities(d)) /\ Return("verify", "1")
           \/ Return("verify", "1") /\ UNCHANGED daemon   \* RPC error or 5s timeout
  /\ UNCHANGED <<yaml, metricsOn, registered, conn, srvVars, lisVars, sig, handler, lateRPC>>

\* Mutated form: a capability without a module is only logged.
RegisterModules_PartialMode ==
  /\ registered' = registerModules(caps)
  /\ \/ registered' # {} /\ Goto("register", "server")
     \/ registered' = {} /\ Return("register", "1")
  /\ UNCHANGED <<yaml, metricsOn, daemon, conn, srvVars, lisVars, sig, handler, lateRPC>>

\* Registering a path twice panics; no module at all, or none for some
\* configured capability, refuses to start.
RegisterModules ==
  /\ registered' = registerModules(caps)
  /\ LET refused == registered' = {} \/ missingCapabilityModules(caps, registered') # {} IN
     \/ ~registerPanics(caps) /\ ~refused /\ Goto("register", "server")
     \/ /\ registerPanics(caps) \/ refused
        /\ Return("register", IF registerPanics(caps) THEN "panic" ELSE "1")
  /\ UNCHANGED <<yaml, metricsOn, daemon, conn, srvVars, lisVars, sig, handler, lateRPC>>

StartServer ==
  /\ Goto("server", "metrics")
  /\ srv' = "starting"
  /\ UNCHANGED <<startVars, conn, serverErr, shutting, lisVars, sig, handler, lateRPC>>

StartMetrics ==
  /\ Goto("metrics", "notify")
  /\ lis' = IF metricsOn THEN "starting" ELSE "off"
  /\ UNCHANGED <<startVars, conn, srvVars, metricsErr, metricsCtx, sig, handler, lateRPC>>

Notify ==
  /\ Goto("notify", "select")
  /\ UNCHANGED <<startVars, conn, srvVars, lisVars, sig, handler, lateRPC>>

-----------------------------------------------------------------------------
(***************************************************************************)
(* run(): the select, graceful shutdown and the deferred functions.        *)
(***************************************************************************)
ExitCode(result) == IF result = "err" THEN "1" ELSE "0"

SelectServerErr ==
  /\ serverErr # "empty"
  /\ Return("select", ExitCode(serverErr))
  /\ serverErr' = "empty"
  /\ UNCHANGED <<startVars, conn, srv, shutting, lisVars, sig, handler, lateRPC>>

SelectMetricsErr ==
  /\ metricsErr # "empty"
  /\ Return("select", ExitCode(metricsErr))
  /\ metricsErr' = "empty"
  /\ UNCHANGED <<startVars, conn, srvVars, lis, metricsCtx, sig, handler, lateRPC>>

\* The signal is received and srv.Shutdown begins.
SelectSignal ==
  /\ sig
  /\ Goto("select", "drain")
  /\ sig' = FALSE
  /\ shutting' = TRUE
  /\ UNCHANGED <<startVars, conn, srv, serverErr, lisVars, handler, lateRPC>>

\* Mutated form: run() goes on without looking at the handlers.
ShutdownDrained_NoWait ==
  /\ srv # "listening"
  /\ Goto("drain", "stopMetrics")
  /\ UNCHANGED <<startVars, conn, srvVars, lisVars, sig, handler, lateRPC>>

\* net/http waits for Serve to return and for every handler, then closes the
\* accepted connections that have sent no request.
ShutdownDrained ==
  /\ srv # "listening" /\ Running = {}
  /\ Goto("drain", "stopMetrics")
  /\ handler' = [h \in Handlers |-> IF handler[h] = "accepted" THEN "idle" ELSE handler[h]]
  /\ UNCHANGED <<startVars, conn, srvVars, lisVars, sig, lateRPC>>

\* Mutated form: the shutdown context has no deadline.
ShutdownDeadline_Never == FALSE /\ UNCHANGED vars

\* shutdownCtx expires while handlers are still running: net/http leaves them.
ShutdownDeadline ==
  /\ srv # "listening" /\ Running # {}
  /\ Return("drain", "1")
  /\ UNCHANGED <<startVars, conn, srvVars, lisVars, sig, handler, lateRPC>>

StopMetrics ==
  /\ Goto("stopMetrics", IF metricsOn THEN "awaitMetrics" ELSE "drainServer")
  /\ metricsCtx' = TRUE
  /\ UNCHANGED <<startVars, conn, srvVars, lis, metricsErr, sig, handler, lateRPC>>

AwaitMetrics ==
  /\ metricsErr # "empty"
  /\ Goto("awaitMetrics", "drainServer")
  /\ metricsErr' = "empty"
  /\ UNCHANGED <<startVars, conn, srvVars, lis, metricsCtx, sig, handler, lateRPC>>

DrainServer ==
  /\ serverErr # "empty"
  /\ Return("drainServer", "0")
  /\ serverErr' = "empty"
  /\ UNCHANGED <<startVars, conn, srv, shutting, lisVars, sig, handler, lateRPC>>

\* cancelMetrics and, last, rawPayee.Close.
RunDefers ==
  /\ Goto("defers", "return")
  /\ metricsCtx' = TRUE
  /\ conn' = IF conn = "open" THEN "closed" ELSE conn
  /\ UNCHANGED <<startVars, srvVars, lis, metricsErr, sig, handler, lateRPC>>

\* os.Exit: every goroutine still running is gone.
Die == handler' = [h \in Handlers |-> IF handler[h] = "running" THEN "killed" ELSE handler[h]]

Exit ==
  /\ Goto("return", "exited")
  /\ Die
  /\ UNCHANGED <<startVars, conn, srvVars, lisVars, sig, lateRPC>>

Main ==
  \/ ParseFlags \/ LoadConfig \/ DialDaemon \/ VerifyCatalog \/ RegisterModules
  \/ StartServer \/ StartMetrics \/ Notify
  \/ SelectServerErr \/ SelectMetricsErr \/ SelectSignal
  \/ ShutdownDrained \/ ShutdownDeadline \/ StopMetrics \/ AwaitMetrics \/ DrainServer
  \/ RunDefers \/ Exit

-----------------------------------------------------------------------------
(***************************************************************************)
(* The server goroutines, the handlers and the operator.                   *)
(***************************************************************************)

\* ListenAndServe: binds, fails, or finds Shutdown already called.
ServerStart ==
  /\ main # "exited" /\ srv = "starting"
  /\ \/ ~shutting /\ srv' = "listening" /\ UNCHANGED serverErr
     \/ srv' = "stopped" /\ serverErr' = IF shutting THEN "nil" ELSE "err"
  /\ UNCHANGED <<main, code, startVars, conn, shutting, lisVars, sig, handler, lateRPC>>

\* Accept returns: after Shutdown with ErrServerClosed, which Start maps to
\* nil, otherwise because the listener broke.
ServerStop ==
  /\ main # "exited" /\ srv = "listening"
  /\ srv' = "stopped"
  /\ serverErr' = IF shutting THEN "nil" ELSE "err"
  /\ UNCHANGED <<main, code, startVars, conn, shutting, lisVars, sig, handler, lateRPC>>

\* Serve binds whether or not its context is already cancelled.
ListenerStart ==
  /\ main # "exited" /\ lis = "starting"
  /\ \/ lis' = "listening" /\ UNCHANGED metricsErr
     \/ lis' = "stopped" /\ metricsErr' = "err"
  /\ UNCHANGED <<main, code, startVars, conn, srvVars, metricsCtx, sig, handler, lateRPC>>

\* Stop gives scrapes two seconds, then the listener is closed either way.
ListenerStop ==
  /\ main # "exited" /\ lis = "listening"
  /\ lis' = "stopped"
  /\ metricsErr' = IF metricsCtx THEN "nil" ELSE "err"
  /\ UNCHANGED <<main, code, startVars, conn, srvVars, metricsCtx, sig, handler, lateRPC>>

\* The server accepts a connection.
AcceptConn(h) ==
  /\ main # "exited" /\ srv = "listening"
  /\ handler[h] = "idle"
  /\ handler' = [handler EXCEPT ![h] = "accepted"]
  /\ UNCHANGED <<main, code, startVars, conn, srvVars, lisVars, sig, lateRPC>>

\* Its request has arrived, possibly with Shutdown already under way or expired.
HandlerBegin(h) ==
  /\ main # "exited"
  /\ handler[h] = "accepted"
  /\ handler' = [handler EXCEPT ![h] = "running"]
  /\ UNCHANGED <<main, code, startVars, conn, srvVars, lisVars, sig, lateRPC>>

HandlerRPC(h) ==
  /\ main # "exited" /\ handler[h] = "running"
  /\ lateRPC' = (lateRPC \/ conn = "closed")
  /\ UNCHANGED <<main, code, startVars, conn, srvVars, lisVars, sig, handler>>

HandlerEnd(h) ==
  /\ main # "exited" /\ handler[h] = "running"
  /\ handler' = [handler EXCEPT ![h] = "done"]
  /\ UNCHANGED <<main, code, startVars, conn, srvVars, lisVars, sig, lateRPC>>

\* Before signal.Notify a signal kills the process; afterwards it is queued.
Signal ==
  /\ ~sig
  /\ \/ /\ main \in Starting
        /\ main' = "exited" /\ code' = "signal"
        /\ Die
        /\ UNCHANGED sig
     \/ /\ main \notin Starting \cup {"exited"}
        /\ sig' = TRUE
        /\ UNCHANGED <<main, code, handler>>
  /\ UNCHANGED <<startVars, conn, srvVars, lisVars, lateRPC>>

Server == ServerStart \/ (shutting /\ ServerStop)
Listener == ListenerStart \/ (metricsCtx /\ ListenerStop)

Next ==
  \/ Main
  \/ ServerStart \/ ServerStop \/ ListenerStart \/ ListenerStop
  \/ \E h \in Handlers : AcceptConn(h) \/ HandlerBegin(h) \/ HandlerRPC(h) \/ HandlerEnd(h)
  \/ Signal
  \/ main = "exited" /\ UNCHANGED vars

Spec == Init /\ [][Next]_vars

\* run() and the server goroutines are scheduled, timers fire.  Nothing is
\* assumed of the handlers: a backend may never answer.
FairSpec == Spec /\ WF_vars(Main) /\ WF_vars(Server) /\ WF_vars(Listener)

-----------------------------------------------------------------------------
(***************************************************************************)
(* Properties.                                                             *)
(***************************************************************************)
Serving == srv = "listening" \/ Running # {}

\* The worker's price text against the daemon's price_info: never a missing
\* price, and the same number when prices are not scaled.
SamePrice(text, p) ==
  /\ p # NilPriceInfo
  /\ p.pixelsPerUnit = 1 => PriceValue[text] = p.pricePerUnit

\* With the start-up check on, every price a handler can look up is the
\* daemon's own price for that offering, and everything the daemon sells has
\* a route: the reply's conversion, validation, position-by-position comparison
\* and the last-wins routing table agree.
ServesDaemonPrices ==
  Serving /\ yaml.worker.verify_daemon_consistency_on_start =>
    /\ \A i \in DOMAIN daemon : \A j \in DOMAIN daemon[i].offerings :
         LET c == daemon[i].capability
             o == daemon[i].offerings[j] IN
         /\ HasRoute(caps, c, o.id)
         /\ SamePrice(Lookup(caps, c, o.id).price, o.price_info)
         /\ Lookup(caps, c, o.id).work_unit = daemon[i].work_unit
    /\ \A i \in DOMAIN caps : \A j \in DOMAIN caps[i].offerings :
         \E k \in DOMAIN daemon :
           /\ daemon[k].capability = caps[i].capability
           /\ \E n \in DOMAIN daemon[k].offerings :
                daemon[k].offerings[n].id = caps[i].offerings[j].id

\* There is no partial mode (docs/design-docs/core-beliefs.md): a worker that
\* serves has a module for every configured capability and a positive price
\* for every route.
FullCatalogOrNothing ==
  Serving =>
    \A i \in DOMAIN caps :
      /\ caps[i].capability \in registered
      /\ \A j \in DOMAIN caps[i].offerings :
           PriceValue[Lookup(caps, caps[i].capability, caps[i].offerings[j].id).price] > 0

\* What /registry/offerings publishes is what the middleware charges: every
\* published offering has a registered capability and a route with the
\* published price and unit.
PublishedPricesCharged ==
  Serving =>
    LET published == registryOfferings(caps) IN
    \A i \in DOMAIN published : \A j \in DOMAIN published[i].offerings :
      LET c == published[i].name
          o == published[i].offerings[j] IN
      /\ c \in registered /\ HasRoute(caps, c, o.id)
      /\ Lookup(caps, c, o.id).price = o.price
      /\ Lookup(caps, c, o.id).work_unit = published[i].work_unit

\* No validated configuration makes RegisterPaidRoute panic on a duplicate.
NoRegistrationPanic == code # "panic"

\* Exit code 0 means a drained worker: no paid handler was killed, and both
\* server goroutines had returned before the connection was closed.
CleanExitDrained ==
  main = "exited" /\ code = "0" =>
    /\ \A h \in Handlers : handler[h] \in {"idle", "done"}
    /\ srv = "stopped" /\ lis \in {"off", "stopped"}
    /\ conn = "closed" /\ ~lateRPC

\* A signal the process has taken notice of ends it, even if handlers hang
\* and wherever the server goroutines are at that moment.
SignalEndsProcess == (main = "select" /\ sig) ~> (main = "exited")
=============================================================================
