---------------------------- MODULE UnpaidRoutes ----------------------------
(***************************************************************************)
(* The routes that take no payment (handlers.go): GET /health, GET         *)
(* /registry/offerings and POST /v1/payment/ticket-params, the last a      *)
(* proxy to the daemon's GetTicketParams over one shared gRPC channel.     *)
(* Several requests run at once, beside paid requests that hold slots of   *)
(* the mux's semaphore for as long as they like; the daemon may stop,      *)
(* restart and answer with any error, the client may go away, and the      *)
(* worker's shutdown may close the channel under a call.                   *)
(***************************************************************************)
EXTENDS TicketWire, FiniteSets, FiniteSetsExt

CONSTANTS
  Requests,    \* requests to unpaid routes
  Bodies(_),   \* bodies a request's caller may POST: [json, tail, in]
  Headers,     \* values of the Authorization header
  Tokens,      \* values auth_token may have in worker.yaml; NoText is unset
  MaxPaid,     \* cap(paidSem)
  Issues(_)    \* the ticket_params the daemon may issue for a message

ASSUME MaxPaidPositive == MaxPaid \in Nat \ {0}

\* A body ticketParamsHandler goes on with, and the message it then sends.
WellFormed(b) == Decodes(b) /\ ensureSingleJSONDocument(b) /\ ParsesTicketParams(b.in)
Message(b) == GetTicketParamsRequest(parseTicketParamsRequest(b.in))

\* What a sequence of big-endian bytes is worth, place by place.
Place[k \in Nat] == IF k = 0 THEN 1 ELSE 256 * Place[k - 1]
Worth(b) == SumFunction([i \in DOMAIN b |-> b[i] * Place[Len(b) - i]])

\* The fields arrive as text, whatever its characters.
ASSUME BodyTexts ==
  \A r \in Requests : \A b \in Bodies(r) :
    /\ {b.in.sender, b.in.recipient} \subseteq HexText
    /\ {b.in.capability, b.in.offering} \subseteq PlainText
    /\ b.in.faceValue \in [decimal : BOOLEAN, value : Int]

\* The message is not the nil message.
ASSUME MessageNotNil ==
  \A r \in Requests : \A b \in Bodies(r) : WellFormed(b) => Message(b) # Nil

\* The daemon issues ticket params for the recipient and the face value it was
\* asked for, padded or not; the fields of a message are bytes, and its
\* expiration may be missing.
ASSUME IssuesTicketParams ==
  \A r \in Requests : \A b \in Bodies(r) : WellFormed(b) =>
    \A tp \in Issues(Message(b)) :
      /\ tp # Nil /\ tp.recipient = Message(b).recipient
      /\ Worth(tp.faceValue) = Worth(Message(b).faceValue)
      /\ {tp.faceValue, tp.expirationBlock} \subseteq Seq(Byte)
      /\ {tp.winProb, tp.recipientRandHash, tp.seed} \subseteq Seq(Byte)
      /\ tp.expirationParams # Nil => tp.expirationParams.creationRoundBlockHash \in Seq(Byte)

Routes == {"health", "offerings", "ticket"}

\* Status codes of gRPC errors, as far as the proxy tells them apart.
\* "Unknown" is what status.Code gives for an error that is not a gRPC one.
Codes == {"InvalidArgument", "Unavailable", "DeadlineExceeded", "Canceled", "Unknown"}

VARIABLES
  authToken,   \* cfg.AuthToken
  inflight,    \* len(paidSem)
  daemon,      \* the daemon process runs
  channel,     \* the gRPC channel: "ready", "broken" or "closed"
  at,          \* where each request's handler is
  route, header, body,   \* what each request asks
  gone,        \* its client has gone away
  wire,        \* the message it sent the daemon, Nil before
  result,      \* what the call returned: [code, params]
  issued,      \* history: the ticket_params the daemon issued it, Nil if none
  troubled,    \* history: the channel was not ready at some time of its call
  status, reply          \* what the client is answered

conn    == <<daemon, channel>>
request == <<route, header, body>>
unpaidVars == <<authToken, inflight, conn, at, request, gone, wire, result,
                issued, troubled, status, reply>>

NoStatus == 0

-----------------------------------------------------------------------------

Init ==
  /\ authToken \in Tokens
  /\ inflight = 0
  /\ daemon = TRUE                 \* the start-up catalog check has passed
  /\ channel = "ready"
  /\ at       = [r \in Requests |-> "idle"]
  /\ route    = [r \in Requests |-> "health"]
  /\ header   = [r \in Requests |-> NoText]
  /\ body     = [r \in Requests |-> Nil]
  /\ gone     = [r \in Requests |-> FALSE]
  /\ wire     = [r \in Requests |-> Nil]
  /\ result   = [r \in Requests |-> Nil]
  /\ issued   = [r \in Requests |-> Nil]
  /\ troubled = [r \in Requests |-> FALSE]
  /\ status   = [r \in Requests |-> NoStatus]
  /\ reply    = [r \in Requests |-> Nil]

(* The mux routes a request to its handler.                                *)
RegisterUnpaidHandlers(r) ==
  /\ at[r] = "idle"
  /\ \E rt \in Routes, h \in Headers :
       /\ route'  = [route EXCEPT ![r] = rt]
       /\ header' = [header EXCEPT ![r] = h]
       /\ \/ rt = "ticket" /\ \E b \in Bodies(r) : body' = [body EXCEPT ![r] = b]
          \/ rt # "ticket" /\ UNCHANGED body
       /\ at' = [at EXCEPT ![r] = IF rt = "health" THEN "health" ELSE "auth"]
  /\ UNCHANGED <<authToken, inflight, conn, gone, wire, result, issued, troubled, status, reply>>

\* writeJSONError and Encode: the handler answers and returns.
Answer(r, code, out) ==
  /\ at'     = [at EXCEPT ![r] = "done"]
  /\ status' = [status EXCEPT ![r] = code]
  /\ reply'  = [reply EXCEPT ![r] = out]
  /\ UNCHANGED <<authToken, inflight, conn, request, gone, wire, result, issued, troubled>>

writeJSONError(r, code) == Answer(r, code, Nil)

Continue(r, step) ==
  /\ at' = [at EXCEPT ![r] = step]
  /\ UNCHANGED <<authToken, inflight, conn, request, gone, wire, result, issued, troubled, status, reply>>

\* A bug healthHandler must not have: it takes a slot of the paid semaphore.
healthHandler_TakesSlot(r) ==
  /\ at[r] = "health"
  /\ inflight < MaxPaid
  /\ Answer(r, 200, [maxConcurrent |-> MaxPaid, inflight |-> inflight])

healthHandler(r) ==
  /\ at[r] = "health"
  /\ Answer(r, 200, [maxConcurrent |-> MaxPaid, inflight |-> inflight])

\* A bug requireBearerAuth must not have: no header passes.
requireBearerAuth_NoHeaderPasses(h) == authToken = NoText \/ h \in {NoText, authToken}

requireBearerAuth(h) == authToken = NoText \/ h = authToken

(* The first lines of both handlers that ask for the token.                *)
Authorize(r) ==
  /\ at[r] = "auth"
  /\ \/ requireBearerAuth(header[r]) /\ Continue(r, route[r])
     \/ ~requireBearerAuth(header[r]) /\ writeJSONError(r, 401)

registryOfferingsHandler(r) ==
  /\ at[r] = "offerings"
  /\ Answer(r, 200, Nil)

(* ticketParamsHandler up to the call.                                     *)
ParseBody(r) ==
  /\ at[r] = "ticket"
  /\ \/ WellFormed(body[r]) /\ Continue(r, "call")
     \/ ~WellFormed(body[r]) /\ writeJSONError(r, 400)

-----------------------------------------------------------------------------
(* The call.  Nothing sets a deadline: it ends when the daemon answers,    *)
(* the channel breaks or closes, or the client goes away.                  *)

\* The generated stub's Invoke returns: a response or an error, never both.
Return(r, code, params) ==
  /\ at'     = [at EXCEPT ![r] = "returned"]
  /\ result' = [result EXCEPT ![r] = [code |-> code, params |-> params]]

\* A ready channel carries the message to the daemon.
Send(r) ==
  /\ at[r] = "call" /\ channel = "ready" /\ ~gone[r]
  /\ wire' = [wire EXCEPT ![r] = Message(body[r])]
  /\ at'   = [at EXCEPT ![r] = "sent"]
  /\ UNCHANGED <<authToken, inflight, conn, request, gone, result, issued, troubled, status, reply>>

\* Any other channel fails the call at once (it does not wait for ready; a
\* call may still find the channel repaired before it gets this far).
FailFast(r) ==
  /\ at[r] = "call"
  /\ \/ gone[r] /\ Return(r, "Canceled", Nil)
     \/ channel = "broken" /\ Return(r, "Unavailable", Nil)
     \/ channel = "closed" /\ Return(r, "Canceled", Nil)
  /\ troubled' = [troubled EXCEPT ![r] = @ \/ channel # "ready"]
  /\ UNCHANGED <<authToken, inflight, conn, request, gone, wire, issued, status, reply>>

\* The daemon answers: ticket params, no ticket params, or an error.
DaemonAnswer(r) ==
  /\ at[r] = "sent" /\ daemon
  /\ \/ \E tp \in Issues(wire[r]) :
          /\ Return(r, "OK", tp)
          /\ issued' = [issued EXCEPT ![r] = tp]
     \/ Return(r, "OK", Nil) /\ UNCHANGED issued
     \/ \E c \in Codes : Return(r, c, Nil) /\ UNCHANGED issued
  /\ UNCHANGED <<authToken, inflight, conn, request, gone, wire, troubled, status, reply>>

\* Every call on the wire ends with the given code.
AbortCalls(code) ==
  /\ at'       = [r \in Requests |-> IF at[r] = "sent" THEN "returned" ELSE at[r]]
  /\ result'   = [r \in Requests |->
                    IF at[r] = "sent" THEN [code |-> code, params |-> Nil] ELSE result[r]]
  /\ troubled' = [r \in Requests |-> troubled[r] \/ at[r] = "sent"]
  /\ UNCHANGED <<authToken, inflight, request, gone, wire, issued, status, reply>>

DaemonStop ==
  /\ daemon
  /\ daemon'  = FALSE
  /\ channel' = IF channel = "closed" THEN "closed" ELSE "broken"
  /\ IF channel = "ready" THEN AbortCalls("Unavailable")
     ELSE UNCHANGED <<authToken, inflight, at, request, gone, wire, result, issued, troubled, status, reply>>

DaemonStart ==
  /\ ~daemon
  /\ daemon' = TRUE
  /\ UNCHANGED <<authToken, inflight, channel, at, request, gone, wire, result, issued, troubled, status, reply>>

\* The channel reconnects by itself, after its back-off.
Reconnect ==
  /\ daemon /\ channel = "broken"
  /\ channel' = "ready"
  /\ UNCHANGED <<authToken, inflight, daemon, at, request, gone, wire, result, issued, troubled, status, reply>>

\* grpcClient.Close, on the way out of main.
CloseChannel ==
  /\ channel # "closed"
  /\ channel' = "closed"
  /\ AbortCalls("Canceled")
  /\ UNCHANGED daemon

ClientGone(r) ==
  /\ at[r] \in {"call", "sent"} /\ ~gone[r]
  /\ gone' = [gone EXCEPT ![r] = TRUE]
  /\ IF at[r] = "sent" THEN Return(r, "Canceled", Nil) ELSE UNCHANGED <<at, result>>
  /\ UNCHANGED <<authToken, inflight, conn, request, wire, issued, troubled, status, reply>>

-----------------------------------------------------------------------------
(* The answer.                                                             *)

\* A bug writeTicketParamsProxyError must not have: whatever goes wrong is the daemon's outage.
writeTicketParamsProxyError_Always503(code) ==
  IF code = "InvalidArgument" THEN 400 ELSE 503

\* The status writeTicketParamsProxyError writes for an error.
writeTicketParamsProxyError(code) ==
  CASE code = "InvalidArgument" -> 400
    [] code \in {"Unavailable", "DeadlineExceeded"} -> 503
    [] OTHER -> 500

(* ticketParamsHandler from the call's return on.  A response without      *)
(* ticket_params is an error of the client's own making.                   *)
Reply(r) ==
  /\ at[r] = "returned"
  /\ LET res == result[r]
     IN  IF res.code # "OK" THEN writeJSONError(r, writeTicketParamsProxyError(res.code))
         ELSE IF res.params = Nil THEN writeJSONError(r, writeTicketParamsProxyError("Unknown"))
         ELSE Answer(r, 200, renderTicketParamsJSON(TicketParams(res.params)))

-----------------------------------------------------------------------------
(* Paid requests, as far as unpaid ones can notice them.                   *)

PaidAcquire ==
  /\ inflight < MaxPaid
  /\ inflight' = inflight + 1
  /\ UNCHANGED <<authToken, conn, at, request, gone, wire, result, issued, troubled, status, reply>>

PaidRelease ==
  /\ inflight > 0
  /\ inflight' = inflight - 1
  /\ UNCHANGED <<authToken, conn, at, request, gone, wire, result, issued, troubled, status, reply>>

\* The steps of one request's handler.
Handler(r) ==
  \/ healthHandler(r)
  \/ Authorize(r)
  \/ registryOfferingsHandler(r)
  \/ ParseBody(r)
  \/ Send(r)
  \/ FailFast(r)
  \/ Reply(r)

Next ==
  \/ \E r \in Requests : \/ RegisterUnpaidHandlers(r)
                         \/ Handler(r)
                         \/ DaemonAnswer(r)
                         \/ ClientGone(r)
  \/ DaemonStop
  \/ DaemonStart
  \/ Reconnect
  \/ CloseChannel
  \/ PaidAcquire
  \/ PaidRelease

Spec == Init /\ [][Next]_unpaidVars

(* Go runs every goroutine that can run, and a daemon that runs answers    *)
(* the calls it has got.  Nothing obliges a paid request to end, the       *)
(* daemon to come back or the channel to be repaired.                      *)
Fairness ==
  \A r \in Requests : WF_unpaidVars(Handler(r)) /\ WF_unpaidVars(DaemonAnswer(r))

FairSpec == Spec /\ Fairness

-----------------------------------------------------------------------------
(* Properties.                                                             *)

\* ticketParamsHandler proxies exactly: what a 200 says was issued by the daemon
\* for this caller's own sender, recipient, face value, capability and offering,
\* and every field the caller reads back (digits, numerals, zero values for an
\* absent message) is the one that was asked for or issued, whatever other calls
\* share the channel.
TicketParamsExact ==
  \A r \in Requests : route[r] = "ticket" /\ status[r] = 200 =>
    LET in == body[r].in   m == wire[r]   tp == issued[r]   out == reply[r]
    IN  /\ tp # Nil
        /\ EncodeToString(m.sender) = in.sender.raw
        /\ EncodeToString(m.recipient) = in.recipient.raw
        /\ Worth(m.faceValue) = in.faceValue.value
        /\ m.capability = in.capability.core /\ m.offering = in.offering.core
        /\ out.recipient.raw = in.recipient.raw
        /\ out.faceValue = in.faceValue.value
        /\ out.expirationBlock = Worth(tp.expirationBlock)
        /\ DecodeString(out.seed.raw) = tp.seed
        /\ DecodeString(out.winProb.raw) = tp.winProb
        /\ DecodeString(out.recipientRandHash.raw) = tp.recipientRandHash
        /\ IF tp.expirationParams = Nil
           THEN out.creationRound = 0 /\ out.blockHash.raw = <<>>
           ELSE /\ out.creationRound = tp.expirationParams.creationRound
                /\ DecodeString(out.blockHash.raw) = tp.expirationParams.creationRoundBlockHash

\* No message reaches the daemon for a request that requireBearerAuth or the body's
\* checks turn down, and such a request is answered 401 or 400, never anything else.
OnlyValidProxied ==
  \A r \in Requests : route[r] = "ticket" =>
    LET allowed == authToken \in {NoText, header[r]}
    IN  /\ wire[r] # Nil => allowed /\ WellFormed(body[r])
        /\ at[r] = "done" /\ ~allowed => status[r] = 401
        /\ at[r] = "done" /\ allowed /\ ~WellFormed(body[r]) => status[r] = 400

\* writeTicketParamsProxyError: a 503, which tells the caller to try again later, is
\* only answered to a valid request that the daemon did not serve because it or the
\* channel to it was unavailable; a 400 only to a request that is wrong; and a 500
\* never hides an outage of a call whose client stayed, unless the worker is closing.
StatusTellsCause ==
  \A r \in Requests : at[r] = "done" /\ route[r] = "ticket" =>
    /\ status[r] = 503 => /\ WellFormed(body[r])
                          /\ \/ troubled[r]
                             \/ result[r].code \in {"Unavailable", "DeadlineExceeded"}
    /\ status[r] = 400 /\ WellFormed(body[r]) =>
          wire[r] # Nil /\ result[r].code = "InvalidArgument"
    /\ status[r] = 500 /\ ~gone[r] /\ troubled[r] => channel = "closed"

\* Every request to an unpaid route is answered, though paid requests may hold every
\* slot for ever, the daemon may stay down and the channel may never come back.
UnpaidAnswered ==
  \A r \in Requests : at[r] # "idle" ~> at[r] = "done"
=============================================================================
