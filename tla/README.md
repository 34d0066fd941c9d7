# openai-worker-node: a TLA+ verification project

The worker sits between a gateway and one or more inference backends. Every
paid HTTP request carries a payment blob; the worker has a co-located payee
daemon validate it, debits an estimate of the work, forwards the request to a
backend, reconciles the estimate with the reported usage, and closes the
payee session. This directory holds TLA+ models of that code, TLC
configurations that check them on small instances, and TLAPS proofs of the
properties that matter most for every value of the constants. Paths below are
relative to `src/`.

## Inventory

| Part | State it keeps | Operations | Interacts with | What makes it correct |
|---|---|---|---|---|
| Payment middleware `internal/runtime/http/middleware.go` | one goroutine per request; shared semaphore `paidSem`, in-flight gauge, counters | the numbered steps 0 to 11 and three deferred functions | mux, payee client, module, metrics | no work before payment and debit; charged once and exactly; slot released and request counted on every path; session not forgotten |
| Payee daemon (external) | sessions by work_id: price, balance | OpenSession, ProcessPayment, DebitBalance, CloseSession, GetTicketParams, ListCapabilities | middleware and unpaid handlers through gRPC | ledger entries are isolated per payment |
| Payee client `internal/providers/payeedaemon` | gRPC connection; the tests' Fake keeps balances and call counters | marshalling of the RPCs, Close | daemon | keeps the sign of a balance; carries every field exactly; not used after Close; the Fake agrees with the daemon where the tests rely on it |
| Unpaid handlers `internal/runtime/http/handlers.go` | none; reads the semaphore, shares the gRPC channel | health, offerings, ticket params with its bearer check | config, payee client, mux | only valid requests proxied, exactly; the status tells the cause; answered however busy the paid routes are |
| Mux `internal/runtime/http/mux.go` | registered routes, semaphore | Register, RegisterPaidRoute | middleware, server | one route per path; capacity at least 1 |
| Configuration `internal/config` | ordered catalog, route map | parse, validate, project, Lookup, VerifyDaemonCatalog | process, middleware | only valid files; prices equal the daemon's |
| Process `cmd/openai-worker-node/main.go`, `server.go` | position in `run()`, result channels, signal channel | start-up, select, graceful shutdown, defers | everything | full catalog or nothing; drained on exit 0; a signal ends it |
| Metrics listener `internal/runtime/metrics` | listener, result channel | Serve, Stop | process | always delivers a result |
| Capability modules `internal/service/modules` | none between requests | ExtractModel, EstimateWorkUnits, Serve | middleware, backend client, tokenizer | image estimates round up; usage reported is what the client was sent; an error tells the middleware whether anything was used |
| Backend client `internal/providers/backendhttp` | connection pool | DoJSON, DoRaw, DoStream, recordOutcome | modules, backends | one call, counted once |
| Tokenizer `internal/providers/tokenizer` | cache of encodings per model name behind one mutex | CountTokens, CountTokensForModel, word count, WithMetrics | modules, metrics | deterministic; a slow load happens once; the fallback rounds up; nobody waits for ever |
| Cardinality cap `internal/providers/metrics/prometheus.go` | `seen`, `count`, `exceeded` | inc, add, allow | every recorder call | number of series bounded, no series lost in silence |
| Lint `lint/` | none: runs at build time | | | not modelled |
| Generated protobuf code | none of the program's own | the getters the proxy reads answers with | payee client | zero values for an absent message; the rest is not modelled |

What is hard here: handlers interleave on the semaphore, the gauge, the
metrics, the tokenizer's mutex and, when two requests carry the same payment
bytes, on one daemon session; the client may vanish at any step, which cancels
the context the deferred CloseSession uses; an RPC may be applied and its reply
lost; the daemon may stop and come back under a call; Serve can fail after the
response has begun; shutdown races running handlers; image estimates are
products of unbounded integers. `PROJECT.json` lists each as a hazard at its
line with the properties aimed at it.

## Modules

| Module | Models | State and actions |
|---|---|---|
| `PayeeDaemon` | the daemon's ledger, external, and `deriveWorkID` | `sess`, `sprice`, `bal` per work_id; `DaemonOpen` (ALREADY_OPEN keeps the earlier price), `DaemonProcess`, `DaemonDebit` (no gate on the result), `DaemonClose` |
| `PaidRoute` | `paymentMiddleware` | `pc[r]` is the next statement of request r's handler; one action per step, each with all its exits; `Cancel` is the client going away; `paid` and `drawn` are history variables |
| `PaidWork` | the abstract payment contract | stages new, funded, working, settling, over, and a charge |
| `FakePayee` | `payeedaemon.Fake` beside the daemon, and the metered client around it | `balances`, `calls`; every client call of a `PaidRoute` handler is also made to the Fake, in the same step; `rpcs` is the (method, outcome) labels `IncDaemonRPC` was called with |
| `TicketWire` | what `/v1/payment/ticket-params` does to its data | pure operators: hex, big-endian integers, request and response conversion, protobuf getters |
| `UnpaidRoutes` | the handlers that take no payment, the proxy's error mapping, the gRPC channel | `at[r]` is the next statement of request r; daemon stop and start, reconnect, channel close, client gone, paid requests taking and giving slots |
| `Tokenizer` | `Tiktoken`, `WordCount` | `modelEnc`, `defaultEnc`, the mutex `mu`, one action per step of a count; `loads` and `counted` are history variables |
| `CapVec` | `capVec.allow` and its callers | one action per access to `seen`, `count`, `exceeded` |
| `MeteredTokenizer` | `tokenizer.WithMetrics` as the worker wires it | a count of `Tokenizer`, then an increment of `CapVec` |
| `Catalog` | validation, routing table, published offerings, reading the daemon's reply, catalog comparison, registration | pure operators over a parsed worker.yaml and a ListCapabilities reply; a price is its decimal text, the reply's an integer fraction that `priceInfoToWeiString` renders |
| `WorkerLifecycle` | `run()`, `Server`, `Listener` | `main` is the position in `run()`; the server goroutines write `serverErr` and `metricsErr`; a handler begins on a connection accepted earlier, also while Shutdown waits or after it gave up |
| `Metering` | model extraction, estimates and reported units | pure operators over machine words |
| `ModuleServe` | a module's ExtractModel and Serve, the metered backend call and the stream loop | one request of any of the six capabilities |
| `PaidRouteProofs`, `SessionProofs`, `FakePayeeProofs` | | theorems about `PaidRoute`, its sessions and counters, and `FakePayee` |
| `UnpaidProofs`, `MeteredTokenizerProofs`, `LifecycleProofs`, `ServeProofs` | | theorems about `UnpaidRoutes`; `CapVec`, `Tokenizer` and `MeteredTokenizer`; `WorkerLifecycle`; `ModuleServe` |
| `FoldTheorems` | | lemmas: induction, sums, folds and recursive functions |
| `MCPaidRoute`, `MCFakePayee`, `MCUnpaidRoutes`, `MCMeteredTokenizer`, `MCWorkerLifecycle`, `MCModuleServe` | | instances for TLC |

How they compose: `PaidRoute` extends `PayeeDaemon` (shared ledger) and
instantiates `PaidWork` (refinement); `FakePayee` extends `PaidRoute`;
`UnpaidRoutes` extends `TicketWire`; `MeteredTokenizer` extends `Tokenizer` and
`CapVec`, with the callers of the one being the goroutines of the other;
`WorkerLifecycle` extends `Catalog`; `ModuleServe` extends `Metering`.
`PaidRoute` assumes of `Serve` what `ServeOutcomeEnvelope` establishes in
`ModuleServe`: without an error it forwarded a backend status, any of
`BackendStatuses`, with units (`ServeOK`); with one it wrote its own 400 or 502
and used nothing, or forwarded a status and broke off, with the units seen
until then (`ServeFailures`). Both modules take the set of backend statuses as
a constant; the runs give it statuses that Serve (400, 502) and the middleware
(404, 503) write themselves. Of prices `PaidRoute` assumes what
`FullCatalogOrNothing` establishes in `WorkerLifecycle` (which is why the price-parse 500 of the middleware has no
disjunct: a validated price parses).

Operators called `X_Something` are mutated forms of `X`, kept next to it: a
run that checks a property must fail when `X` is replaced by its mutated form.

### How the capped counters are modelled

`CapVec` has every shared access of `capVec.allow` as a step of its own. Where
handlers update `requests_total` the call is one step (`CapVecInc`) that may do
what racing calls can: let a new tuple in although the count has reached the
cap, count a tuple as new twice, and drop an update of a tuple registered
meanwhile. `workUnits`, `paymentRejections` and `capacityRejections` are the
calls of the recorder: a drop at the cap only lowers what is exported, which no
property about them minds. `rpcs` in `FakePayee` also records calls. Its counter
has fourteen label tuples at most (seven methods, two outcomes), so only a cap
below that would keep an error `ErrorsTell` speaks of off the metrics page.

### How daemon calls are modelled

In `PaidRoute` a call returns without an error only if the context is live and
the daemon applied it. With an error it may or may not have been applied (lost
reply). Errors arise because the transport fails (`RPCFaults`), the context is
cancelled, or the daemon does not know the session. `SignedBalance` selects
between the production gRPC client, which decodes balances as unsigned
magnitudes, and a client that keeps the sign, as the Client contract asks and
the tests' Fake does.

In `UnpaidRoutes` a call needs the channel: "ready" while the connection to the
daemon stands, "broken" after the daemon stopped, "closed" for good once the
worker closed it. A call in flight is answered by the daemon, or fails with the
code gRPC gives for what happened to it.

The Fake differs from the daemon by design: it binds no price to a session
(`DebitWeiPerWorkUnit` stands for it), keeps the balance when the session
closes, credits and debits without a session, and ignores the context. The run
gives it the price of the one model and the credit of every blob, as a test
would; `FakeAgrees` and `CallsBalanced` then say what a test on the Fake shows
of the daemon.

## Runs

| Run | Bounds | Checks |
|---|---|---|
| `paid_contention` | 2 requests, 2 slots, 2 blobs that may coincide, credits that do and do not cover the estimate, faulty daemon, signed client | `SlotsMatchHandlers`, `SessionHeld`, `NoForgottenSession`, `OverdraftRefused`, `LedgerIsolated`, `ImplementsContract` |
| `paid_metering` | 2 requests, 1 slot, 1 blob sent twice, an unoffered model, estimates to clamp, usage below and above the estimate, forwarded statuses, faulty daemon, request counter capped at 1 | `TypeOK`, `NoUnpaidWork`, `ChargeMatchesUse`, `RequestsCountedOnce`, `RevenueBacked` |
| `paid_live` | `FakePayee`: 2 requests, 1 slot, 2 blobs, disconnects that make calls fail with or without effect, estimates that the credit covers and does not, signed client | `FakeAgrees`, `CallsBalanced`, `ErrorsTell`, `HandlersFinish`, `SlotsDrain` |
| `unpaid_routes` | 2 requests, one trying every way a body can be wrong; addresses of 1 byte, face values of 2 and 3 bytes, token set or not, right, wrong and no header, 1 paid slot | `TicketParamsExact`, `OnlyValidProxied`, `StatusTellsCause`, `UnpaidAnswered` |
| `metered_tokenizer` | 2 goroutines, a known model name with a trailing blank and an unknown one, one text, default encoding loaded or not, loads that fail or not, cap off or 1 | `TokTypeOK`, `LoadedOnce`, `LastResortRoundsUp`, `NoSilentLoss`, `SeriesBounded`, `WarnedOnce`, `CountsDeterministic`, `CountsReturn` |
| `worker_lifecycle` | 46 files, 20 daemon replies, 2 handlers, metrics on or off (78 974 states) | `TypeOK`, `ServesDaemonPrices`, `FullCatalogOrNothing`, `PublishedPricesCharged`, `NoRegistrationPanic`, `CleanExitDrained`, `SignalEndsProcess` |
| `module_serve` | 8-bit words, 10 pixels a unit, streams of up to 3 lines, chat messages whose content is a text, parts or absent, backend statuses 200, 400, 404, 502, 503 | `TypeOK`, `ImageEstimateIsCeiling`, `StreamUsageDelivered`, `ServeOutcomeEnvelope`, `BackendCountedOnce` |

Two requests are enough for every pairwise interference on the semaphore, the
gauge, the channel and a shared session; one slot makes the capacity rejection
happen, two let both handlers run. Requests (and blobs) are interchangeable
model values, so the safety runs of `PaidRoute` use symmetry; runs with a
liveness property do not. `MaxCalls` bounds the Fake's counters at what the
handlers can make, so the bound is never felt. With the metric capped at one,
two goroutines and the two labels reach the overshoot of one that
`SeriesBounded` allows, and two requests reach the loss that
`RequestsCountedOnce` allows. Word size and the constant 1 000 000 are scaled
together, so that wrapping and rounding both occur.

Runs expected to find a violation, each of a sentence the repository states:

| Run | Property | What the code does instead |
|---|---|---|
| `paid_overdraft_grpc` | `OverdraftRefused` | `grpc.go:177` drops the sign, so an overdrawn request is served |
| `paid_interrupted` | `InterruptedStreamReconciled` | an interrupted stream returns before the reconcile debit |
| `paid_close_cancelled` | `SessionClosedAfterPayment` | CloseSession uses the cancelled request context |
| `paid_gauge` | `GaugeSettles` | two leaving handlers can store stale readings of the semaphore |
| `estimate_overflow` | `NeverUndercharged` | the product wraps |

Smaller divergences met while modelling, without a run of their own:
`index.md:83` and every route's spec (`chat_completions.md:71` among them) turn
a backend 5xx into 502, the modules forward the backend's own status and body
(`chat_completions/module.go:150`), and only a call without an answer becomes
502; `chat_completions/module.go:92` calls the estimate a conservative upper
bound, fields such as `tools` are forwarded and not counted; `metering.md:55`
and `chat_completions.md:31` reserve max(max_tokens, 2048), the code reserves a
`max_tokens` that is given alone, however small; `backendhttp/interface.go:103`
sets the last success on a 2xx, the code on anything below 500; `metrics.md:27`
bounds the model label by the configuration, it is the caller's and set before
the route lookup; `middleware.go:101` says the metrics defer runs after the semaphore release,
it runs before; `recorder.go:81` says a payment rejection is one 402, a
`debit_error` is a 502; `metrics.md:48` limits `canceled` to streams after the
first byte, `classifyOutcome` uses it whenever the context is done;
`prometheus.go:16` calls the cap hard, `SeriesBounded` is
what holds, and histogram and gauge vectors are not capped at all;
`server.go:51` says connections left at the deadline are forcibly closed,
Shutdown only returns there, and the handlers keep running while `run()`
closes the daemon connection (`main.go:119`); `tiktoken.go:27` describes a
lock-free read with a `sync.Once` per model, the code holds one mutex on every
lookup and during a load; the daemon lists its catalog sorted (`payee_daemon.proto:135`) while `verify.go` compares
by position, so a valid but unsorted worker.yaml is refused; `grpc.go:197` has
a scaled price not "silently wrong-number", the division truncates, so a
daemon price of 5/2 agrees with "2" in worker.yaml.

### Fairness

- `FakePayee!FairFakeSpec` (and `PaidRoute!FairSpec`) has weak fairness of each
  handler's next step: the Go scheduler runs every runnable goroutine, and calls
  to daemon and backend are assumed to return. The code sets no deadline on
  them, so this is a real assumption; without it a hung backend holds its slot
  for good. Nothing is assumed of clients: no fairness on `Arrive` or `Cancel`.
- `UnpaidRoutes!FairSpec` has weak fairness of the handlers and of a running
  daemon's answers. Nothing obliges a paid request to end, the daemon to come
  back or the channel to be repaired.
- `MeteredTokenizer!FairMTSpec` has strong fairness of taking the mutex
  (`sync.Mutex` hands itself to its oldest waiter after a millisecond) and weak
  fairness of a goroutine that has begun a count; `EncodingForModel` is assumed
  to return. No goroutine has to begin one.
- `WorkerLifecycle!FairSpec` has weak fairness of `run()`, of a server goroutine
  that has to start or was told to stop, and of the shutdown timer (part of
  `Main`). Nothing is assumed of the handlers: the process ends even if they
  hang.

## Proofs

Every invariant and action property of the passing runs is a theorem, for every
value of the constants that satisfies the named `ASSUME`s; the runs show the
same properties on small instances and, through the mutated forms, that they
can fail. Fairness plays no part in them: where a theorem names a fair
specification it is because the run does.

### The paid route

`PaidRouteProofs` (for any finite set of requests, any capacity, prices,
credits, estimates and usages, either client, faults or not): `TypeCorrect`
(`TypeOK`), `SlotsExact` (`SlotsMatchHandlers`), `WorkIsPaid` (`NoUnpaidWork`),
`ChargeIsExact` (`ChargeMatchesUse`), `ContractRefinement`
(`ImplementsContract`).

The inductive invariant `IInv` adds to the properties what each program point
knows: which inputs have been read (`InputsKnown`: the model is offered once
the route is resolved, the blob is set once the header is read) and how far
the charge has come (`ChargeProgress`: nothing before the debit, the estimate
at serve and reconcile, the larger of estimate and usage afterwards unless an
error was logged). `ChargeMatchesUse` alone is not inductive: a state in which
a handler at `reconcile` had already paid for its usage would satisfy it and
be overcharged by the next step. Each action has its own lemma; the refinement
uses the same invariant, and maps every step to a contract step or a stutter.

`SessionProofs` builds on `IInv`:

- `SessionIsHeld` (`SessionHeld`), `SessionsRemembered` (`NoForgottenSession`)
  and `LedgerIsIsolated` (`LedgerIsolated`). A step touches one ledger entry,
  that of its own work_id (`LedgerFootprint`), and distinct blobs have distinct
  work_ids. The invariant `SInv` adds `BlobRead` (before its header is read a
  request has no blob, so a blob that is read is kept), `NotYetAccepted`
  (before the payment step nobody is accepted, so a session left behind by a
  failed open counts as refused) and `SessionOwned` (nobody has a session open
  that no request has got to). Without `SessionOwned` a request could find its
  session open at an earlier price, and `SessionHeld` would not be inductive.
- `OverdraftIsRefused` (`OverdraftRefused`), under the hypothesis
  `SignedBalance`. The run `paid_overdraft_grpc` shows the hypothesis is needed:
  with the production client the property is false.
- `RequestsAreCountedOnce` (`RequestsCountedOnce`): a request hands its labels
  to `IncRequest` exactly once, at the gate or in the metrics defer, and the
  counter lacks a call only if the cap is on and more calls than it allows were
  made. The invariant `CountersOK` relates three numbers: each counter is at
  most the calls with its labels, the cap's own count is at most all calls, and
  where a counter is short that count has reached the cap.
- `RevenueIsBacked` (`RevenueBacked`): the revenue counter is the sum of the
  requests' shares, and each share is covered by its request's debits, or its
  reconcile is still to come or was logged as failed. The property speaks only
  of the end, when all are done; the invariant speaks of every state on the way.

`FakePayeeProofs`:

- `FakeTellsTheBalance` (`FakeAgrees`), under the hypothesis `SameMoney`: the
  Fake is set to the daemon's one credit and price, as the run does. The
  invariant adds that the ledgers of blobs nobody has sent yet are untouched on
  both sides.
- `FakeCallsAreBalanced` (`CallsBalanced`): the invariant `CallInv` bounds each
  counter by the number of handlers that have got past the call at every point,
  since at the end nothing in the state tells any more how far one got.
- `DaemonErrorsTell` (`ErrorsTell`): while the metered client has counted no
  error, every open session is in use, however many requests share it, and the revenue counted ends up debited. The invariant adds
  that no reconcile error was logged; the session part follows because a handler
  leaves its session only by a close that took effect, or by a failed call that
  the counter shows. The revenue part is `RevenueIsBacked` under that invariant.

### The unpaid routes

`UnpaidProofs` (for any requests, bodies, headers and tokens, any behaviour of
daemon and channel): `OnlyValidIsProxied` (`OnlyValidProxied`),
`StatusTellsItsCause` (`StatusTellsCause`), `ProxyIsExact`
(`TicketParamsExact`). The invariant `UInv` says what a handler has established
by the point it is at and what is known of its call, because a status is decided
several steps before it is written. `TicketPath` follows the data: what was sent
is the message of the caller's body, what came back was issued for that message,
and what is written is what came back. The conversions are then proved exact for
texts and numbers of any length: hex in both directions (`DecodeEncode`,
`EncodeDecode`), `Int.SetBytes` after `Int.Bytes` (`SetBytesOfBytes`), and
`Int.SetBytes` against the place values `Worth` (`SetBytesIsWorth`). That the
face value and the recipient a ticket is issued for are the ones the daemon was
asked for is an assumption on the daemon (`IssuesTicketParams`); that they, and
everything else, reach the caller unchanged is what is proved.

### Tokenizer and metrics

`MeteredTokenizerProofs` (for any goroutines, models, texts, encodings, cap):

- Of `CapVec`: `CapOvershootBounded` (`SeriesBounded`) and `OperatorWarnedOnce`
  (`WarnedOnce`). The invariant says that registered tuples are bounded by the
  counter plus the goroutines inside the check-then-add window, and that the
  counter can only have passed the cap by those that were in the window
  together.
- Of `Tokenizer`: `TokTypeCorrect` (`TokTypeOK`), `EncodingLoadedOnce`
  (`LoadedOnce`), `CountIsDeterministic` (`CountsDeterministic`) and
  `LastResortIsNeverShort` (`LastResortRoundsUp`). The invariant `TokInv` says
  that only the holder of the mutex is between lookup and load, that an entry
  that is missing was never loaded, and that the count watched by the property
  is what the cache gives now. `LastResortRoundsUp` rests on `WordsCounted`: the loop over
  the characters counts the positions at which a word starts, for a text of any
  length.
- Of `MeteredTokenizer`: `MeteredIsBoth`, every behaviour of the composition is
  one of the tokenizer and one of the vector, so that the theorems above hold of
  it (`MeteredKeepsPromises`), and `NoCallLostSilently` (`NoSilentLoss`).

### The process

`LifecycleProofs` (for any set of files, daemon replies and handlers, metrics
on or off): `DaemonPricesServed` (`ServesDaemonPrices`), `FullCatalogServed`
(`FullCatalogOrNothing`), `PublishedIsCharged` (`PublishedPricesCharged`),
`NeverPanics` (`NoRegistrationPanic`), `CleanExit` (`CleanExitDrained`) and
`LifecycleTyped` (`TypeOK`).

The first four rest on lemmas about the operators: a validated catalog names
every (capability, model) once (`RouteUnique`), so Lookup finds the line that
states it (`LookupFinds`), and position-by-position equality with the reply as
read gives the daemon's number (`VerifySound`). The invariant `Established`
says which of these checks run() has passed at each position, and that a
started server keeps them. `CleanExit` needs a second one, `DrainInv`: a result
channel holds nil only after shutdown was asked for, so the select cannot
return 0, and what the later positions waited for stays true because a drained
server accepts no connection and has closed those it had accepted. That
`http.Server.Shutdown` returns nil only when no handler runs, idle connections
closed, is net/http's contract and is assumed.

### The modules

`ServeProofs` (for any request a body can parse to, any word size and unit, any
usages, streams of any length):

- `EveryCallCountedOnce` (`BackendCountedOnce`), `ServeKeepsEnvelope`
  (`ServeOutcomeEnvelope`) and `StreamUsageIsDelivered` (`StreamUsageDelivered`)
  from `ServeInv`, which says in which of four ways a Serve that returned has
  ended (refused, no answer, buffered, streamed) and that the last usage
  remembered is that of the lines already sent. Who wrote the status is a
  variable of its own, `origin`, because the status does not tell: a backend's
  400 or 502 is forwarded as it is. The set of backend statuses is any set of
  final statuses.
- `ImageEstimateRoundsUp` (`ImageEstimateIsCeiling`) from `EstimateKept`: the
  estimate a request carries is the one its module computed. It needs that no
  intermediate product wraps when the last one does not, and that the form
  reader finds the first part of a name.
- `ServeTypeCorrect` (`TypeOK`).

### Induction over data

The library's induction theorems speak about a predicate, which the provers
cannot instantiate. `FoldTheorems` states induction about the set of the values
that satisfy it instead (`CountUp`, `CountAll`, `CountFromSmaller`,
`SubsetInduction`), all from the well-foundedness of the naturals. On top of
that: a sum over a finite set exists, is the same whichever member is taken out
first and is what `SumFunction` computes (`SumFunctionIsSum`); a fold from the
left exists (`FoldExists`); and a function on the naturals that calls itself
with a smaller argument exists and is unique (`RecursionExists`,
`RecursionUnique`). With the existence of a solution, the `CHOOSE` behind a fold
or a recursive function satisfies its equation, and the rest is induction.

### Assumptions

They are the named `ASSUME`s of the modules, and TLC evaluates each on a run:

- `PaidRoute`: the semaphore's capacity, ranges of prices and units, a finite
  set of requests, a natural cap (`CapNatural`), `NoneIsNoBlob` and `LabelIsNoModel` (the markers for
  "nothing" are not values). `FakePayee`: the Fake's settings are naturals.
- `CapVec`: finitely many goroutines, a natural cap, a label to count.
  `MeteredTokenizer`: the counters' goroutines are the callers, its keys those
  of the labels.
- `Tokenizer`: `StringsAreSequences` (texts have a length and positions),
  `MultiplierPercent` (the multiplier is a natural percentage), lengths of
  encodings are naturals, markers are no values.
- `UnpaidRoutes`: `BodyTexts` (the fields of a decoded body are texts and a
  numeral), `MessageNotNil`, and of the daemon `IssuesTicketParams`.
- `Catalog`, `WorkerLifecycle`: catalogs are lists (`CatalogAssumption`),
  decimal writing and reading are inverse (`DecimalAssumption`,
  `PriceAssumption`).
- `Metering`, `ModuleServe`: the defaults fit a word (`WordSize`), a body with a
  model parses to fields of their types, counts of tokens and runes being
  lengths (`RequestsParsed`, for each of the six capabilities), a backend's status is a
  final one, 200 to 999 (`FinalStatuses`), `ServeBounds`.

### Only model-checked

Liveness under fairness (`HandlersFinish`, `SlotsDrain`, `UnpaidAnswered`,
`CountsReturn`, `SignalEndsProcess`): the prover has neither fairness nor
`ENABLED`. The five runs that expect a violation: a counterexample is shown by
its trace.

## Not modelled

- JSON, YAML, multipart and base64 decoding: their results are inputs of the
  models. A body that does not parse is one of them.
- Byte-pair encoding: `BPE` is any function from texts to lengths. In
  `messageContentString` the counts of pieces joined by a blank add up.
- `validateJSONObject` of `parse.go` (192 and 229), for fields no property reads:
  a null there is refused by the field's own `UnmarshalYAML` first.
- Latency histograms, logging, the uptime ticker, the details of
  `validateMetricsListen`: nothing else depends on them.
- `GetQuote`, which nothing in the worker calls, and the preset answers and
  error knobs of the Fake beyond failing a call.
- The generated protobuf code apart from the getters: encoding, descriptors
  and stubs have no state of the program's own.
- The payment-middleware lint: a build-time check of the source text.
- Hash collisions of `deriveWorkID` are excluded. Sender addresses are not
  distinguished by the ledger: a blob names one sender.
- The daemon beyond the calls the worker makes, in particular how it validates
  a ticket: a payment is accepted or not.

## Plan

1. Done: the middleware, its ledger and contract; the cardinality cap; the
   process with its catalog; the modules.
2. Done: the unpaid routes with the ticket-params proxy, the tokenizer and its
   metered wrapper, the Fake beside the daemon, model extraction and chat
   content.
3. Done: proofs of every invariant and action property of the passing runs, the
   refinement of the tokenizer and the vector by their composition, and the
   lemmas about sums, folds and recursive functions they need.
4. Then: the bounded steps between a property and its liveness (that a handler
   past the gate always has a step it can take, stated as an invariant on its
   guards), and lemmas about the arithmetic of the estimates at the edge of a
   word.
5. Left out for size: `PaidRoute` composed with `WorkerLifecycle`, so that a
   shutdown during a charge is one behaviour.
