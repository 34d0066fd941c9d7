---------------------------- MODULE UnpaidProofs ----------------------------
(***************************************************************************)
(* The routes without payment, proved for any number of requests, bodies,  *)
(* headers and tokens, and any behaviour of the daemon and its channel.    *)
(***************************************************************************)
EXTENDS UnpaidRoutes, FoldTheorems

-----------------------------------------------------------------------------
(***************************************************************************)
(* The inductive invariant.  What a status says is decided several steps   *)
(* before it is written: by what the handler checked on its way to the     *)
(* call, and by how the call ended.                                        *)
(***************************************************************************)
Calling == {"call", "sent", "returned"}
Places  == {"idle", "auth", "done"} \cup Routes \cup Calling

ShapeOK ==
  /\ at \in [Requests -> Places] /\ route \in [Requests -> Routes]
  /\ gone \in [Requests -> BOOLEAN] /\ troubled \in [Requests -> BOOLEAN]
  /\ DOMAIN header = Requests /\ DOMAIN body = Requests
  /\ DOMAIN wire = Requests /\ DOMAIN result = Requests /\ DOMAIN issued = Requests
  /\ DOMAIN status = Requests /\ DOMAIN reply = Requests

Allowed(r) == requireBearerAuth(header[r])
Proxied(r) == route[r] = "ticket" /\ Allowed(r) /\ WellFormed(body[r])

\* What the handler of r has established by the point it is at.
Checked(r) ==
  /\ at[r] \in {"auth"} \cup Calling => route[r] # "health"
  /\ at[r] \in Routes => route[r] = at[r]
  /\ at[r] = "ticket" => Allowed(r)
  /\ at[r] \in Calling => Proxied(r)
  /\ route[r] = "ticket" /\ at[r] # "idle" => body[r] \in Bodies(r)
  /\ wire[r] # Nil => at[r] \in {"sent", "returned", "done"} /\ Proxied(r)
  /\ at[r] = "sent" => wire[r] # Nil

\* What is known of the call of r by the point it is at.
CallKnown(r) ==
  /\ troubled[r] => at[r] \in {"returned", "done"}
  /\ at[r] = "returned" =>
       /\ result[r].code = "InvalidArgument" => wire[r] # Nil
       /\ troubled[r] /\ ~gone[r] => channel = "closed" \/ result[r].code = "Unavailable"

\* What the status of an answered ticket request means.
StatusMeans(r) ==
  at[r] = "done" /\ route[r] = "ticket" =>
    /\ ~Allowed(r) => status[r] = 401
    /\ Allowed(r) /\ ~WellFormed(body[r]) => status[r] = 400
    /\ status[r] = 503 => /\ WellFormed(body[r])
                          /\ result[r].code \in {"Unavailable", "DeadlineExceeded"}
    /\ status[r] = 400 /\ WellFormed(body[r]) =>
         wire[r] # Nil /\ result[r].code = "InvalidArgument"
    /\ status[r] = 500 /\ ~gone[r] /\ troubled[r] => channel = "closed"

ROK(r) == Checked(r) /\ CallKnown(r) /\ StatusMeans(r)

UInv == ShapeOK /\ \A r \in Requests : ROK(r)

-----------------------------------------------------------------------------
\* A step of r's handler, or of the daemon or the client on its call.
StepOf(r) == RegisterUnpaidHandlers(r) \/ Handler(r) \/ DaemonAnswer(r) \/ ClientGone(r)

\* Such a step leaves the token and the channel alone and is about r only.
LEMMA OthersUntouched ==
  ASSUME ShapeOK, NEW r \in Requests, StepOf(r)
  PROVE  /\ ShapeOK' /\ authToken' = authToken /\ channel' = channel
         /\ \A q \in Requests \ {r} :
              /\ at'[q] = at[q] /\ route'[q] = route[q] /\ header'[q] = header[q]
              /\ body'[q] = body[q] /\ gone'[q] = gone[q] /\ wire'[q] = wire[q]
              /\ result'[q] = result[q] /\ troubled'[q] = troubled[q]
              /\ status'[q] = status[q]
<1> USE DEF ShapeOK, Places, Routes, Calling, Answer, writeJSONError, Continue, Return, request, conn
<1>1. CASE RegisterUnpaidHandlers(r) BY <1>1 DEF RegisterUnpaidHandlers
<1>2. CASE healthHandler(r) BY <1>2 DEF healthHandler
<1>3. CASE Authorize(r) BY <1>3 DEF Authorize
<1>4. CASE registryOfferingsHandler(r) BY <1>4 DEF registryOfferingsHandler
<1>5. CASE ParseBody(r) BY <1>5 DEF ParseBody
<1>6. CASE Send(r) BY <1>6 DEF Send
<1>7. CASE FailFast(r) BY <1>7 DEF FailFast
<1>8. CASE Reply(r) BY <1>8 DEF Reply
<1>9. CASE DaemonAnswer(r) BY <1>9 DEF DaemonAnswer
<1>10. CASE ClientGone(r) BY <1>10 DEF ClientGone
<1> QED
  BY <1>1, <1>2, <1>3, <1>4, <1>5, <1>6, <1>7, <1>8, <1>9, <1>10 DEF StepOf, Handler

\* Up to the call: each check of the handler is established when it is passed.
LEMMA HandlerChecks ==
  ASSUME ShapeOK, NEW r \in Requests, ROK(r),
         \/ RegisterUnpaidHandlers(r) \/ healthHandler(r) \/ Authorize(r)
         \/ registryOfferingsHandler(r) \/ ParseBody(r)
  PROVE  ROK(r)'
<1> USE DEF ShapeOK, Places, Routes, Calling, ROK, Checked, CallKnown, StatusMeans, Proxied, Allowed,
            Answer, writeJSONError, Continue, request, conn
<1>1. CASE RegisterUnpaidHandlers(r) BY <1>1 DEF RegisterUnpaidHandlers
<1>2. CASE healthHandler(r) BY <1>2 DEF healthHandler
<1>3. CASE Authorize(r) BY <1>3 DEF Authorize, requireBearerAuth
<1>4. CASE registryOfferingsHandler(r) BY <1>4 DEF registryOfferingsHandler
<1>5. CASE ParseBody(r) BY <1>5 DEF ParseBody, requireBearerAuth
<1> QED BY <1>1, <1>2, <1>3, <1>4, <1>5

\* The call: a message goes out for a checked request only, and the way the
\* call ends is recorded.
LEMMA CallRecords ==
  ASSUME ShapeOK, NEW r \in Requests, ROK(r),
         Send(r) \/ FailFast(r) \/ DaemonAnswer(r) \/ ClientGone(r)
  PROVE  ROK(r)'
<1> USE DEF ShapeOK, Places, Routes, Calling, ROK, Checked, CallKnown, StatusMeans, Proxied, Allowed,
            requireBearerAuth, Return, request, conn
<1>1. CASE Send(r)
  <2>1. Message(body[r]) # Nil BY <1>1, MessageNotNil DEF Send
  <2> QED BY <1>1, <2>1 DEF Send
<1>2. CASE FailFast(r) BY <1>2 DEF FailFast
<1>3. CASE DaemonAnswer(r) BY <1>3 DEF DaemonAnswer
<1>4. CASE ClientGone(r) BY <1>4 DEF ClientGone
<1> QED BY <1>1, <1>2, <1>3, <1>4

\* The answer: the status follows from how the call ended.
LEMMA ReplyMeans ==
  ASSUME ShapeOK, NEW r \in Requests, ROK(r), Reply(r)
  PROVE  ROK(r)'
<1> USE DEF ShapeOK, Places, Routes, Calling, ROK, Checked, CallKnown, StatusMeans, Proxied, Allowed,
            requireBearerAuth, Answer, writeJSONError, request, conn
<1>1. CASE result[r].code # "OK"
  <2>1. /\ at[r] = "returned" /\ at'[r] = "done"
        /\ status'[r] = writeTicketParamsProxyError(result[r].code)
        /\ UNCHANGED <<authToken, channel, route, header, body, gone, wire, result, troubled>>
    BY <1>1 DEF Reply
  <2> QED BY <1>1, <2>1 DEF writeTicketParamsProxyError
<1>2. CASE result[r].code = "OK"
  <2>1. /\ at[r] = "returned" /\ at'[r] = "done" /\ status'[r] \in {200, 500}
        /\ UNCHANGED <<authToken, channel, route, header, body, gone, wire, result, troubled>>
    BY <1>2 DEF Reply, writeTicketParamsProxyError
  <2> QED BY <1>2, <2>1
<1> QED BY <1>1, <1>2

\* The daemon, the channel and paid requests: no status loses its meaning.
LEMMA SurroundingsKeep ==
  ASSUME UInv, DaemonStop \/ DaemonStart \/ Reconnect \/ CloseChannel \/ PaidAcquire \/ PaidRelease
  PROVE  UInv'
<1> USE DEF UInv, ShapeOK, ROK, Checked, CallKnown, StatusMeans, Proxied, Allowed, requireBearerAuth,
            request, conn, Places, Routes, Calling
<1>1. CASE DaemonStop
  <2>1. CASE channel = "ready"
    <3>1. AbortCalls("Unavailable") /\ channel' = "broken" BY <1>1, <2>1 DEF DaemonStop
    <3>2. ShapeOK' BY <3>1 DEF AbortCalls
    <3>3. ASSUME NEW r \in Requests PROVE ROK(r)'
      <4>1. CASE at[r] = "sent" BY <2>1, <3>1, <4>1 DEF AbortCalls
      <4>2. CASE at[r] # "sent" BY <2>1, <3>1, <4>2 DEF AbortCalls
      <4> QED BY <4>1, <4>2
    <3> QED BY <3>2, <3>3
  <2>2. CASE channel # "ready" BY <1>1, <2>2 DEF DaemonStop
  <2> QED BY <2>1, <2>2
<1>2. CASE DaemonStart BY <1>2 DEF DaemonStart
<1>3. CASE Reconnect BY <1>3 DEF Reconnect
<1>4. CASE CloseChannel BY <1>4 DEF CloseChannel, AbortCalls
<1>5. CASE PaidAcquire \/ PaidRelease BY <1>5 DEF PaidAcquire, PaidRelease
<1> QED BY <1>1, <1>2, <1>3, <1>4, <1>5

LEMMA InitUInv == Init => UInv
BY DEF Init, UInv, ShapeOK, ROK, Checked, CallKnown, StatusMeans, Places, Routes, Calling

LEMMA StepUInv == UInv /\ [Next]_unpaidVars => UInv'
<1> SUFFICES ASSUME UInv, [Next]_unpaidVars PROVE UInv' OBVIOUS
<1>0. ShapeOK /\ \A r \in Requests : ROK(r) BY DEF UInv
<1>1. ASSUME NEW r \in Requests, StepOf(r) PROVE UInv'
  <2>1. ROK(r)'
    BY <1>0, <1>1, HandlerChecks, CallRecords, ReplyMeans DEF StepOf, Handler
  <2>2. ASSUME NEW q \in Requests \ {r} PROVE ROK(q)'
    <3>1. ROK(q) BY <1>0
    <3> QED BY <1>0, <1>1, <3>1, OthersUntouched
        DEF ROK, Checked, CallKnown, StatusMeans, Proxied, Allowed, requireBearerAuth
  <2> QED BY <1>0, <1>1, <2>1, <2>2, OthersUntouched DEF UInv
<1>2. CASE UNCHANGED unpaidVars
  BY <1>2 DEF unpaidVars, request, conn, UInv, ShapeOK, ROK, Checked, CallKnown, StatusMeans,
     Proxied, Allowed, requireBearerAuth
<1> QED BY <1>1, <1>2, SurroundingsKeep DEF Next, StepOf

LEMMA Invariance == Spec => []UInv
BY InitUInv, StepUInv, PTL DEF Spec

\* No message reaches the daemon for a request that the bearer token or the
\* checks of the body turn down, and such a request is answered 401 or 400,
\* whatever the daemon, the channel and the other requests do meanwhile.
THEOREM OnlyValidIsProxied == Spec => []OnlyValidProxied
<1>1. UInv => OnlyValidProxied
  <2> SUFFICES ASSUME UInv, NEW r \in Requests, route[r] = "ticket"
               PROVE  /\ wire[r] # Nil => authToken \in {NoText, header[r]} /\ WellFormed(body[r])
                      /\ at[r] = "done" /\ authToken \notin {NoText, header[r]} => status[r] = 401
                      /\ at[r] = "done" /\ authToken \in {NoText, header[r]} /\ ~WellFormed(body[r])
                           => status[r] = 400
    BY DEF OnlyValidProxied
  <2>1. authToken \in {NoText, header[r]} <=> Allowed(r) BY DEF Allowed, requireBearerAuth
  <2>2. ROK(r) BY DEF UInv
  <2> QED BY <2>1, <2>2 DEF ROK, Checked, StatusMeans, Proxied
<1> QED BY <1>1, Invariance, PTL

\* A 503 is answered only for an outage, a 400 only for a request that is
\* wrong, and a 500 hides no outage from a client that stayed, unless the
\* worker has closed the channel.
THEOREM StatusTellsItsCause == Spec => []StatusTellsCause
<1>1. UInv => StatusTellsCause BY DEF UInv, ROK, StatusMeans, StatusTellsCause
<1> QED BY <1>1, Invariance, PTL

-----------------------------------------------------------------------------
(***************************************************************************)
(* What the proxy does to the data.  Hex is exact in both directions, for  *)
(* texts and byte strings of any length.                                   *)
(***************************************************************************)

\* A byte is two digits.
LEMMA TwoDigits ==
  /\ \A x \in 0 .. 255 : 16 * (x \div 16) + (x % 16) = x
  /\ \A x \in 0 .. 15, y \in 0 .. 15 : (16 * x + y) \div 16 = x /\ (16 * x + y) % 16 = y
  /\ \A n \in Nat : 2 * n \in Nat /\ (2 * n) \div 2 = n
<1>1. \A x \in 0 .. 255 : 16 * (x \div 16) + (x % 16) = x OBVIOUS
<1>2. \A x \in 0 .. 15, y \in 0 .. 15 : (16 * x + y) \div 16 = x OBVIOUS
<1>3. \A x \in 0 .. 15, y \in 0 .. 15 : (16 * x + y) % 16 = y OBVIOUS
<1>4. \A n \in Nat : 2 * n \in Nat /\ (2 * n) \div 2 = n OBVIOUS
<1> QED BY <1>1, <1>2, <1>3, <1>4

\* hex.DecodeString reads back what hex.EncodeToString wrote.
LEMMA DecodeEncode ==
  ASSUME NEW b \in Seq(Byte)
  PROVE  DecodeString(EncodeToString(b)) = b
<1> DEFINE e == EncodeToString(b)
<1>0. Len(b) \in Nat /\ b = [i \in 1 .. Len(b) |-> b[i]] OBVIOUS
<1>a. 2 * Len(b) \in Nat /\ (2 * Len(b)) \div 2 = Len(b) BY <1>0, TwoDigits
<1>b. Len(e) = 2 * Len(b) BY <1>a DEF EncodeToString
<1>1. Len(e) \div 2 = Len(b) BY <1>a, <1>b
<1>2. ASSUME NEW i \in 1 .. Len(b)
      PROVE  16 * e[2 * i - 1] + e[2 * i] = b[i]
  <2>a. b[i] \in Byte OBVIOUS
  <2>1. b[i] \in 0 .. 255 BY <2>a DEF Byte
  <2>2. (2 * i - 1) \in 1 .. 2 * Len(b) /\ 2 * i \in 1 .. 2 * Len(b) BY <1>0
  <2>3. (2 * i - 1) % 2 = 1 /\ (2 * i - 1 + 1) \div 2 = i /\ (2 * i) % 2 = 0 /\ (2 * i) \div 2 = i
    OBVIOUS
  <2>4. e[2 * i - 1] = b[i] \div 16 BY <2>2, <2>3 DEF EncodeToString
  <2>5. e[2 * i] = b[i] % 16 BY <2>2, <2>3 DEF EncodeToString
  <2>6. 16 * (b[i] \div 16) + (b[i] % 16) = b[i] BY <2>1, TwoDigits
  <2> QED BY <2>4, <2>5, <2>6
<1> HIDE DEF e
<1> QED BY <1>0, <1>1, <1>2 DEF DecodeString, e

\* hex.EncodeToString gives back the digits hex.DecodeString read.
LEMMA EncodeDecode ==
  ASSUME NEW n \in Nat, NEW raw, raw \in Seq(HexDigit \cup {NotHex}), Len(raw) = 2 * n,
         \A i \in DOMAIN raw : raw[i] \in HexDigit
  PROVE  EncodeToString(DecodeString(raw)) = raw
<1> DEFINE d == DecodeString(raw)
<1>0. raw = [i \in 1 .. 2 * n |-> raw[i]] /\ (2 * n) \div 2 = n OBVIOUS
<1>1. d = [i \in 1 .. n |-> 16 * raw[2 * i - 1] + raw[2 * i]] BY <1>0 DEF DecodeString
<1>2. Len(d) = n BY <1>1
<1>3. ASSUME NEW i \in 1 .. 2 * n
      PROVE  raw[i] = IF i % 2 = 1 THEN d[(i + 1) \div 2] \div 16 ELSE d[i \div 2] % 16
  <2>0. raw[i] \in 0 .. 15 BY DEF HexDigit
  <2>1. CASE i % 2 = 1
    <3> DEFINE k == (i + 1) \div 2
    <3>1. k \in 1 .. n /\ 2 * k - 1 = i /\ 2 * k \in 1 .. 2 * n BY <2>1
    <3>a. raw[2 * k] \in HexDigit BY <1>0, <3>1
    <3>2. raw[2 * k] \in 0 .. 15 BY <3>a DEF HexDigit
    <3>3. d[k] = 16 * raw[i] + raw[2 * k] BY <1>1, <3>1
    <3>4. (16 * raw[i] + raw[2 * k]) \div 16 = raw[i]
      <4>1. \A x \in 0 .. 15, y \in 0 .. 15 : (16 * x + y) \div 16 = x BY TwoDigits
      <4> HIDE DEF k
      <4> QED BY ONLY <2>0, <3>2, <4>1
    <3> QED BY <2>1, <3>3, <3>4
  <2>2. CASE i % 2 # 1
    <3> DEFINE k == i \div 2
    <3>1. k \in 1 .. n /\ 2 * k = i /\ 2 * k - 1 \in 1 .. 2 * n BY <2>2
    <3>a. raw[2 * k - 1] \in HexDigit BY <1>0, <3>1
    <3>2. raw[2 * k - 1] \in 0 .. 15 BY <3>a DEF HexDigit
    <3>3. d[k] = 16 * raw[2 * k - 1] + raw[i] BY <1>1, <3>1
    <3>4. (16 * raw[2 * k - 1] + raw[i]) % 16 = raw[i]
      <4>1. \A x \in 0 .. 15, y \in 0 .. 15 : (16 * x + y) % 16 = y BY TwoDigits
      <4> HIDE DEF k
      <4> QED BY ONLY <2>0, <3>2, <4>1
    <3> QED BY <2>2, <3>3, <3>4
  <2> QED BY <2>1, <2>2
<1> HIDE DEF d
<1> QED BY <1>0, <1>2, <1>3 DEF EncodeToString, d

-----------------------------------------------------------------------------
(***************************************************************************)
(* Numerals, exact for numbers of any size.  Int.Bytes and Int.SetBytes    *)
(* work byte by byte; Worth, which the property uses, weighs each byte by  *)
(* its place.                                                              *)
(***************************************************************************)
LEMMA PlaceValue ==
  /\ Place \in [Nat -> Nat]
  /\ Place[0] = 1
  /\ \A k \in Nat \ {0} : Place[k] = 256 * Place[k - 1]
<1> DEFINE prev == [k \in Nat |-> IF k = 0 THEN 0 ELSE k - 1]
           step == [k \in Nat |-> [v \in Nat |-> 256 * v]]
<1>1. Descends(prev)
  BY DEF Descends
<1>2. step \in [Nat -> [Nat -> Nat]]
  OBVIOUS
<1>3. PICK f : IsRecursion(f, Nat, 1, step, prev, Nat)
  <2> HIDE DEF prev, step
  <2>1. 1 \in Nat OBVIOUS
  <2> QED BY <1>1, <1>2, <2>1, RecursionExists
<1>4. /\ f \in [Nat -> Nat] /\ f[0] = 1
      /\ \A k \in Nat \ {0} : f[k] = step[k][f[prev[k]]]
  <2> HIDE DEF prev, step
  <2> QED BY <1>3, Zenon DEF IsRecursion
<1>5. ASSUME NEW k \in Nat \ {0} PROVE f[k] = 256 * f[k - 1]
  <2>1. k \in Nat /\ prev[k] = k - 1 /\ k - 1 \in Nat OBVIOUS
  <2>2. f[k - 1] \in Nat BY <1>4, <2>1
  <2>3. f[k] = step[k][f[k - 1]] BY <1>4, <2>1
  <2> QED BY <2>1, <2>2, <2>3
<1>6. f = [k \in Nat |-> IF k = 0 THEN 1 ELSE 256 * f[k - 1]]
  BY <1>4, <1>5
<1>7. Place = [k \in Nat |-> IF k = 0 THEN 1 ELSE 256 * Place[k - 1]]
  <2> DEFINE Solves(h) == h = [k \in Nat |-> IF k = 0 THEN 1 ELSE 256 * h[k - 1]]
  <2>1. Place = CHOOSE h : Solves(h) BY Zenon DEF Place
  <2>2. Solves(f) BY <1>6
  <2> HIDE DEF Solves
  <2>3. Solves(Place) BY ONLY <2>1, <2>2, Zenon
  <2> QED BY ONLY <2>3 DEF Solves
<1> DEFINE T == {k \in Nat : Place[k] = f[k]}
<1> HIDE DEF step, prev
<1>8. \A k \in Nat : Place[k] = IF k = 0 THEN 1 ELSE 256 * Place[k - 1]
  BY <1>7, Zenon
<1>9. \A k \in Nat : k \in T
  <2>1. 0 \in T BY <1>4, <1>8
  <2>2. ASSUME NEW k \in Nat, k \in T PROVE k + 1 \in T
    <3>1. k + 1 \in Nat /\ k + 1 # 0 /\ (k + 1) - 1 = k OBVIOUS
    <3>2. Place[k + 1] = 256 * Place[k] BY <1>8, <3>1
    <3>3. f[k + 1] = 256 * f[k] BY <1>5, <3>1
    <3> QED BY <2>2, <3>1, <3>2, <3>3
  <2> HIDE DEF T
  <2> QED BY <2>1, <2>2, CountAll
<1>10. Place = f
  <2>1. DOMAIN Place = Nat BY <1>7, Zenon
  <2>2. \A k \in Nat : Place[k] = f[k] BY <1>9
  <2>3. Place = [k \in Nat |-> Place[k]] BY <1>7, Zenon
  <2> QED BY <1>4, <2>2, <2>3
<1> QED BY <1>4, <1>5, <1>10

\* Int.Bytes gives bytes, the last one the remainder.
LEMMA BytesStepwise ==
  /\ Bytes \in [Nat -> Seq(Byte)]
  /\ Bytes[0] = <<>>
  /\ \A n \in Nat \ {0} : Bytes[n] = Append(Bytes[n \div 256], n % 256)
<1> DEFINE prev == [k \in Nat |-> k \div 256]
           V == Seq(Byte)
           step == [k \in Nat |-> [v \in V |-> Append(v, k % 256)]]
<1>0. \A k \in Nat : k \div 256 \in Nat /\ k % 256 \in Byte /\ (k # 0 => k \div 256 < k)
  BY DEF Byte
<1>1. Descends(prev)
  BY <1>0 DEF Descends
<1>2. step \in [Nat -> [V -> V]]
  <2>1. ASSUME NEW k \in Nat, NEW v \in V PROVE Append(v, k % 256) \in V
    <3>1. k % 256 \in Byte BY <1>0
    <3> HIDE DEF Byte
    <3> QED BY <3>1
  <2> HIDE DEF V
  <2> QED BY <2>1
<1>3. PICK f : IsRecursion(f, V, <<>>, step, prev, Nat)
  <2>1. <<>> \in V OBVIOUS
  <2> HIDE DEF prev, step, V
  <2> QED BY <1>1, <1>2, <2>1, RecursionExists
<1>4. /\ f \in [Nat -> V] /\ f[0] = <<>>
      /\ \A k \in Nat \ {0} : f[k] = step[k][f[prev[k]]]
  <2> HIDE DEF prev, step, V
  <2> QED BY <1>3, Zenon DEF IsRecursion
<1>5. ASSUME NEW k \in Nat \ {0} PROVE f[k] = Append(f[k \div 256], k % 256)
  <2> DEFINE q == k \div 256
             d == k % 256
  <2>1. k \in Nat /\ prev[k] = q /\ q \in Nat BY <1>0
  <2>2. \A v \in V : step[k][v] = Append(v, d) BY <2>1
  <2> HIDE DEF V, q, d, step, prev
  <2>3. f[q] \in V BY <1>4, <2>1
  <2>4. f[k] = step[k][f[q]] BY <1>4, <2>1
  <2>5. f[k] = Append(f[q], d) BY <2>2, <2>3, <2>4
  <2> QED BY <2>5 DEF q, d
<1>6. f = [k \in Nat |-> IF k = 0 THEN <<>> ELSE Append(f[k \div 256], k % 256)]
  <2> DEFINE More(k) == Append(f[k \div 256], k % 256)
  <2>a. f[0] = <<>> /\ \A k \in Nat \ {0} : f[k] = More(k) BY <1>4, <1>5, Zenon
  <2>2. f = [k \in Nat |-> f[k]] BY <1>4, Zenon
  <2> HIDE DEF More
  <2>1. \A k \in Nat : f[k] = IF k = 0 THEN <<>> ELSE More(k) BY ONLY <2>a
  <2>3. f = [k \in Nat |-> IF k = 0 THEN <<>> ELSE More(k)] BY ONLY <2>1, <2>2
  <2> QED BY <2>3 DEF More
<1>7. Bytes = [k \in Nat |-> IF k = 0 THEN <<>> ELSE Append(Bytes[k \div 256], k % 256)]
  <2> DEFINE Solves(h) == h = [k \in Nat |-> IF k = 0 THEN <<>> ELSE Append(h[k \div 256], k % 256)]
  <2>1. Bytes = CHOOSE h : Solves(h) BY Zenon DEF Bytes
  <2>2. Solves(f) BY <1>6
  <2> HIDE DEF Solves
  <2>3. Solves(Bytes) BY ONLY <2>1, <2>2, Zenon
  <2> QED BY ONLY <2>3 DEF Solves
<1> DEFINE T == {k \in Nat : Bytes[k] = f[k]}
<1> HIDE DEF step, prev, V
<1>8. \A k \in Nat : Bytes[k] = IF k = 0 THEN <<>> ELSE Append(Bytes[k \div 256], k % 256)
  BY <1>7, Zenon
<1>9. \A k \in Nat : k \in T
  <2>1. ASSUME NEW k \in Nat, \A j \in 0..(k - 1) : j \in T PROVE k \in T
    <3>1. CASE k = 0 BY <1>4, <1>8, <3>1
    <3>2. CASE k # 0
      <4>1. k \div 256 \in 0..(k - 1)
        <5>1. k \div 256 \in Nat /\ k \div 256 < k BY <1>0, <3>2
        <5> DEFINE j == k \div 256
        <5> HIDE DEF j
        <5> QED BY <5>1 DEF j
      <4>2. Bytes[k \div 256] = f[k \div 256] BY <2>1, <4>1
      <4>3. Bytes[k] = Append(Bytes[k \div 256], k % 256) BY <1>8, <3>2
      <4>4. f[k] = Append(f[k \div 256], k % 256) BY <1>5, <3>2
      <4> QED BY <4>2, <4>3, <4>4
    <3> QED BY <3>1, <3>2
  <2> HIDE DEF T
  <2> QED BY <2>1, CountFromSmaller
<1>10. Bytes = f
  <2>2. \A k \in Nat : Bytes[k] = f[k] BY <1>9
  <2>3. Bytes = [k \in Nat |-> Bytes[k]] BY <1>7, Zenon
  <2> QED BY <1>4, <2>2, <2>3
<1> QED BY <1>4, <1>5, <1>10 DEF V

LEMMA BytesAreNaturals ==
  ASSUME NEW b \in Seq(Byte)
  PROVE  Len(b) \in Nat /\ DOMAIN b = 1..Len(b) /\ \A i \in 1..Len(b) : b[i] \in Nat
<1>1. Len(b) \in Nat /\ DOMAIN b = 1..Len(b)
  <2> HIDE DEF Byte
  <2> QED OBVIOUS
<1>2. ASSUME NEW i \in 1..Len(b) PROVE b[i] \in Nat
  <2>1. b[i] \in Byte
    OBVIOUS
  <2>2. \A x \in Byte : x \in Nat
    BY DEF Byte
  <2> QED BY <2>1, <2>2
<1> QED BY <1>1, <1>2

\* Int.SetBytes, as a function of how many bytes it has read.
IsReading(f, b) ==
  /\ f[0] = 0
  /\ \A k \in 0..Len(b) : f[k] \in Nat
  /\ \A k \in 1..Len(b) : f[k] = 256 * f[k - 1] + b[k]

LEMMA SetBytesStepwise ==
  ASSUME NEW b \in Seq(Byte)
  PROVE  \E f : IsReading(f, b) /\ SetBytes(b) = f[Len(b)]
<1> DEFINE n == Len(b)
           V == Nat
           Shift(acc, d) == 256 * acc + d
           step == [i \in 1..n |-> [v \in V |-> Shift(v, b[i])]]
           it == CHOOSE h : h = [u \in SUBSET (1..n) |->
                                   IF u = {} THEN 0 ELSE Shift(h[u \ {Max(u)}], b[Max(u)])]
<1>0. n \in Nat /\ DOMAIN b = 1..n /\ \A i \in 1..n : b[i] \in Nat
  BY BytesAreNaturals
<1>1. \A i \in 1..n : \A v \in V : Shift(v, b[i]) \in V
  BY <1>0
<1>2. 0 \in V
  OBVIOUS
<1>3. step \in [1..n -> [V -> V]]
  <2> HIDE DEF V, n, Shift
  <2> QED BY <1>1
<1>4. PICK g : IsFold(g, V, 0, step, n)
  <2> HIDE DEF V, n, step
  <2> QED BY <1>0, <1>2, <1>3, FoldExists
<1>5. ASSUME NEW u \in SUBSET (1..n), u # {}
      PROVE  g[u] = Shift(g[u \ {Max(u)}], b[Max(u)])
  <2>1. Max(u) \in 1..n /\ u \ {Max(u)} \in SUBSET (1..n)
    <3> HIDE DEF n
    <3>1. Max(u) \in u
      BY <1>0, <1>5, LastPosition
    <3> QED BY <3>1
  <2>2. g[u] = step[Max(u)][g[u \ {Max(u)}]]
    <3> HIDE DEF V, n, step
    <3> QED BY <1>4, <1>5 DEF IsFold
  <2>3. g[u \ {Max(u)}] \in V
    <3> HIDE DEF V, n, step
    <3> QED BY <1>4, <2>1 DEF IsFold
  <2> HIDE DEF V, n, Shift
  <2> QED BY <2>1, <2>2, <2>3
<1>6. g = [u \in SUBSET (1..n) |-> IF u = {} THEN 0 ELSE Shift(g[u \ {Max(u)}], b[Max(u)])]
  <2>1. g \in [SUBSET (1..n) -> V] /\ g[{}] = 0
    <3> HIDE DEF V, n, step
    <3> QED BY <1>4 DEF IsFold
  <2> HIDE DEF V, n, step, Shift
  <2> QED BY <1>5, <2>1
<1>7. it = [u \in SUBSET (1..n) |-> IF u = {} THEN 0 ELSE Shift(it[u \ {Max(u)}], b[Max(u)])]
  <2> HIDE DEF Shift
  <2> QED BY <1>6, Zenon
<1>8. SetBytes(b) = it[1..n]
  <2>1. DOMAIN b = 1..n
    BY <1>0
  <2> QED BY <2>1, Zenon DEF SetBytes, FoldLeft, MapThenFoldSet
<1> HIDE DEF it, n, V, step, Shift
<1>9. it[{}] = 0
  <2>1. {} \in SUBSET (1..n)
    OBVIOUS
  <2> QED BY <1>7, <2>1, Zenon
<1>10. ASSUME NEW k \in 1..n
       PROVE  it[1..k] = Shift(it[1..(k - 1)], b[k])
  <2>0. k \in Nat \ {0}
    BY <1>0
  <2>1. 1..k # {} /\ Max(1..k) = k /\ (1..k) \ {k} = 1..(k - 1)
    BY <2>0, PrefixLast
  <2>2. 1..k \in SUBSET (1..n)
    BY <1>0
  <2>3. it[1..k] = Shift(it[(1..k) \ {Max(1..k)}], b[Max(1..k)])
    BY <1>7, <2>1, <2>2, Zenon
  <2> QED BY <2>1, <2>3
<1> DEFINE f == [k \in 0..n |-> it[1..k]]
<1>11. f[0] = 0
  <2>1. 1..0 = {} /\ 0 \in 0..n
    BY <1>0
  <2> QED BY <1>9, <2>1
<1>12. \A k \in 1..n : f[k] = Shift(f[k - 1], b[k])
  <2> TAKE k \in 1..n
  <2>1. k \in 0..n /\ k - 1 \in 0..n
    BY <1>0
  <2> QED BY <1>10, <2>1
<1>13. f[n] = it[1..n]
  <2>1. n \in 0..n
    BY <1>0
  <2> QED BY <2>1
<1> HIDE DEF f
<1>14. \A k \in 0..n : f[k] \in V
  <2> DEFINE T == {k \in 0..n : f[k] \in V}
  <2>1. 0 \in T
    BY <1>0, <1>2, <1>11
  <2>2. \A k \in 1..n : k - 1 \in T => k \in T
    BY <1>0, <1>1, <1>12
  <2>3. \A k \in 0..n : k \in T
    <3> HIDE DEF T
    <3> QED BY <1>0, <2>1, <2>2, CountUp
  <2> QED BY <2>3
<1>15. IsReading(f, b)
  BY <1>11, <1>12, <1>14 DEF n, V, Shift, IsReading
<1> QED BY <1>8, <1>13, <1>15 DEF n

\* Two readings of byte strings that begin alike agree on the beginning.
BeginAlike(b, c, n) ==
  /\ Len(b) \in Nat /\ Len(c) \in Nat /\ n <= Len(b) /\ n <= Len(c)
  /\ \A i \in 1..n : b[i] = c[i]

LEMMA ReadingsAgree ==
  ASSUME NEW b, NEW c, NEW n \in Nat, BeginAlike(b, c, n),
         NEW f, IsReading(f, b), NEW g, IsReading(g, c)
  PROVE  f[n] = g[n]
<1> DEFINE T == {k \in 0..n : f[k] = g[k]}
<1>1. 0 \in T
  BY DEF IsReading
<1>2. ASSUME NEW k \in 1..n, k - 1 \in T PROVE k \in T
  <2>1. k \in 0..n /\ k \in 1..Len(b) /\ k \in 1..Len(c) /\ f[k - 1] = g[k - 1] /\ b[k] = c[k]
    BY <1>2 DEF BeginAlike
  <2>2. f[k] = 256 * f[k - 1] + b[k] /\ g[k] = 256 * g[k - 1] + c[k]
    BY <2>1 DEF IsReading
  <2> QED BY <2>1, <2>2
<1>3. \A k \in 0..n : k \in T
  <2> HIDE DEF T
  <2> QED BY <1>1, <1>2, CountUp
<1>4. n \in 0..n
  OBVIOUS
<1> QED BY <1>3, <1>4

\* One more byte.
LEMMA SetBytesAppend ==
  ASSUME NEW b \in Seq(Byte), NEW d \in Byte
  PROVE  SetBytes(Append(b, d)) = 256 * SetBytes(b) + d
<1> DEFINE c == Append(b, d)
           n == Len(b)
<1>1. /\ c \in Seq(Byte) /\ Len(c) = n + 1 /\ n \in Nat /\ c[n + 1] = d
      /\ \A i \in 1..n : c[i] = b[i]
  <2> HIDE DEF Byte
  <2> QED OBVIOUS
<1>2. PICK f : IsReading(f, b) /\ SetBytes(b) = f[n]
  BY SetBytesStepwise
<1>3. PICK g : IsReading(g, c) /\ SetBytes(c) = g[n + 1]
  <2> HIDE DEF c, n
  <2> QED BY <1>1, SetBytesStepwise
<1> HIDE DEF c, n
<1>4. f[n] = g[n]
  <2>1. n <= Len(b) /\ n <= Len(c) /\ Len(b) \in Nat /\ Len(c) \in Nat
    BY <1>1 DEF n
  <2>2. \A i \in 1..n : b[i] = c[i]
    BY <1>1
  <2>3. BeginAlike(b, c, n)
    BY <2>1, <2>2 DEF BeginAlike
  <2> QED BY <1>1, <1>2, <1>3, <2>3, ReadingsAgree
<1>5. g[n + 1] = 256 * g[n] + d
  <2>1. n + 1 \in 1..Len(c) /\ (n + 1) - 1 = n
    BY <1>1
  <2> QED BY <1>1, <1>3, <2>1 DEF IsReading
<1> QED BY <1>2, <1>3, <1>4, <1>5 DEF c

\* Int.SetBytes reads back what Int.Bytes wrote.
LEMMA SetBytesOfBytes == \A v \in Nat : SetBytes(Bytes[v]) = v
<1> DEFINE T == {v \in Nat : SetBytes(Bytes[v]) = v}
<1>1. ASSUME NEW v \in Nat, \A m \in 0..(v - 1) : m \in T PROVE v \in T
  <2>1. CASE v = 0
    <3>1. Bytes[0] = <<>> /\ <<>> \in Seq(Byte) /\ Len(<<>>) = 0
      BY BytesStepwise
    <3>2. PICK f : IsReading(f, <<>>) /\ SetBytes(<<>>) = f[Len(<<>>)]
      BY <3>1, SetBytesStepwise
    <3>3. SetBytes(<<>>) = 0
      BY <3>1, <3>2 DEF IsReading
    <3> QED BY <2>1, <3>1, <3>3
  <2>2. CASE v # 0
    <3> DEFINE q == v \div 256
               d == v % 256
    <3>1. q \in 0..(v - 1) /\ d \in Byte /\ 256 * q + d = v
      <4>1. q \in Nat /\ q < v
        BY <2>2
      <4>2. d \in Byte
        BY DEF Byte
      <4>3. 256 * q + d = v
        OBVIOUS
      <4> HIDE DEF q, d
      <4> QED BY <4>1, <4>2, <4>3
    <3>2. Bytes[v] = Append(Bytes[q], d) /\ Bytes[q] \in Seq(Byte)
      <4>1. v \in Nat \ {0} /\ q \in Nat
        BY <2>2, <3>1
      <4>2. Bytes[v] = Append(Bytes[v \div 256], v % 256)
        BY <4>1, BytesStepwise, Zenon
      <4>3. Bytes[q] \in Seq(Byte)
        <5> HIDE DEF q
        <5> QED BY <4>1, BytesStepwise, Zenon
      <4> QED BY <4>2, <4>3, Zenon
    <3>3. SetBytes(Bytes[q]) = q
      BY <1>1, <3>1
    <3> HIDE DEF q, d
    <3>4. SetBytes(Append(Bytes[q], d)) = 256 * SetBytes(Bytes[q]) + d
      BY <3>1, <3>2, SetBytesAppend
    <3>5. SetBytes(Bytes[v]) = v
      BY <3>1, <3>2, <3>3, <3>4
    <3> QED BY <3>5
  <2> QED BY <2>1, <2>2
<1>2. \A v \in Nat : v \in T
  <2> HIDE DEF T
  <2> QED BY <1>1, CountFromSmaller
<1> QED BY <1>2

\* A digit more at one place less.
LEMMA PlaceShift ==
  ASSUME NEW a \in Int, NEW d \in Int, NEW p \in Int, NEW q \in Int, q = 256 * p
  PROVE  (256 * a + d) * p = a * q + d * p
OBVIOUS

\* Reading byte by byte and weighing each byte by its place give the same number.
LEMMA SetBytesIsWorth ==
  ASSUME NEW b \in Seq(Byte)
  PROVE  SetBytes(b) = Worth(b)
<1> DEFINE n == Len(b)
           F == [i \in 1..n |-> b[i] * Place[n - i]]
<1>0. n \in Nat /\ DOMAIN b = 1..n /\ \A i \in 1..n : b[i] \in Nat
  BY BytesAreNaturals
<1>1. PICK f : IsReading(f, b) /\ SetBytes(b) = f[n]
  BY SetBytesStepwise
<1>2. Worth(b) = SumFunction(F)
  BY <1>0 DEF Worth
<1> HIDE DEF n
<1>3. ASSUME NEW i \in 1..n PROVE Place[n - i] \in Nat /\ F[i] = b[i] * Place[n - i] /\ F[i] \in Int
  <2>1. n - i \in Nat /\ b[i] \in Nat
    BY <1>0
  <2>2. Place[n - i] \in Nat
    BY <2>1, PlaceValue
  <2>3. b[i] * Place[n - i] \in Int
    BY <2>1, <2>2
  <2> QED BY <2>2, <2>3
<1>4. F \in [1..n -> Int] /\ IsFiniteSet(1..n)
  <2>1. \A i \in 1..n : b[i] * Place[n - i] \in Int
    BY <1>3
  <2>2. IsFiniteSet(1..n)
    BY <1>0, FS_Interval
  <2> QED BY <2>1, <2>2
<1>5. PICK g : IsSum(g, F, 1..n) /\ SumFunction(F) = g[1..n]
  <2> HIDE DEF F
  <2> QED BY <1>4, SumFunctionIsSum
<1> HIDE DEF F
<1> DEFINE T == {k \in 0..n : f[k] * Place[n - k] = g[1..k]}
<1>6. 0 \in T
  <2>1. 1..0 = {} /\ 0 \in 0..n /\ n - 0 = n
    BY <1>0
  <2>2. g[{}] = 0 /\ f[0] = 0 /\ Place[n] \in Nat
    BY <1>0, <1>1, <1>5, PlaceValue DEF IsSum, IsReading
  <2>3. 0 * Place[n] = 0
    BY <2>2
  <2> QED BY <2>1, <2>2, <2>3
<1>7. ASSUME NEW k \in 1..n, k - 1 \in T PROVE k \in T
  <2> DEFINE p == Place[n - k]
             q == Place[n - (k - 1)]
  <2>1. k \in 0..n /\ k - 1 \in 0..n /\ n - k \in Nat /\ n - (k - 1) \in Nat \ {0}
        /\ (n - (k - 1)) - 1 = n - k
    BY <1>0
  <2>2. p \in Nat /\ q \in Nat /\ q = 256 * p
    <3>1. \A j \in Nat : Place[j] \in Nat
      BY PlaceValue
    <3>2. Place[n - (k - 1)] = 256 * Place[(n - (k - 1)) - 1]
      BY <2>1, PlaceValue, Zenon
    <3>3. Place[(n - (k - 1)) - 1] = Place[n - k]
      BY <2>1
    <3> QED BY <2>1, <3>1, <3>2, <3>3
  <2>3. f[k - 1] \in Nat /\ f[k] = 256 * f[k - 1] + b[k] /\ b[k] \in Nat
    BY <1>0, <1>1, <2>1 DEF IsReading, n
  <2>4. f[k - 1] * q = g[1..(k - 1)]
    BY <1>7
  <2>5. g[1..k] = b[k] * p + g[1..(k - 1)]
    <3>1. 1..k \in SUBSET (1..n) /\ k \in 1..k /\ (1..k) \ {k} = 1..(k - 1)
      BY <1>0
    <3>2. g[1..k] = F[k] + g[(1..k) \ {k}]
      BY <1>5, <3>1, Zenon DEF IsSum
    <3>3. F[k] = b[k] * p
      BY <1>3
    <3> QED BY <3>1, <3>2, <3>3
  <2> HIDE DEF p, q
  <2>6. (256 * f[k - 1] + b[k]) * p = f[k - 1] * q + b[k] * p
    BY <2>2, <2>3, PlaceShift
  <2>7. f[k - 1] * q \in Int /\ b[k] * p \in Int
    BY <2>2, <2>3
  <2>8. f[k] * p = g[1..k]
    BY <2>3, <2>4, <2>5, <2>6, <2>7
  <2> QED BY <2>1, <2>8 DEF p
<1>8. \A k \in 0..n : k \in T
  <2> HIDE DEF T
  <2> QED BY <1>0, <1>6, <1>7, CountUp
<1>9. f[n] * Place[0] = g[1..n] /\ Place[0] = 1 /\ f[n] \in Nat
  <2>1. n \in 0..n /\ n - n = 0
    BY <1>0
  <2>2. f[n] * Place[n - n] = g[1..n]
    BY <1>8, <2>1
  <2>3. f[n] \in Nat
    BY <1>1, <2>1 DEF IsReading, n
  <2> QED BY <2>1, <2>2, <2>3, PlaceValue
<1> QED BY <1>1, <1>2, <1>5, <1>9

-----------------------------------------------------------------------------
(***************************************************************************)
(* The path of a ticket through the proxy: what was sent is the message of *)
(* the caller's body, what came back was issued for that message, and what *)
(* is written is what came back.                                           *)
(***************************************************************************)
TicketPath(r) ==
  /\ wire[r] # Nil => wire[r] = Message(body[r])
  /\ at[r] = "returned" /\ result[r].code = "OK" /\ result[r].params # Nil =>
       wire[r] # Nil /\ issued[r] = result[r].params /\ issued[r] \in Issues(wire[r])
  /\ status[r] # NoStatus => at[r] = "done"
  /\ route[r] = "ticket" /\ status[r] = 200 =>
       /\ wire[r] # Nil /\ body[r] \in Bodies(r) /\ issued[r] \in Issues(wire[r])
       /\ reply[r] = renderTicketParamsJSON(TicketParams(issued[r]))

\* The steps of r keep it on its path.
LEMMA PathStep ==
  ASSUME ShapeOK, NEW r \in Requests, ROK(r), TicketPath(r), StepOf(r)
  PROVE  TicketPath(r)'
<1> USE DEF ShapeOK, TicketPath, ROK, Checked, Proxied, Calling, Routes,
            Answer, writeJSONError, Continue, Return, request, conn, NoStatus
<1>1. CASE RegisterUnpaidHandlers(r) BY <1>1 DEF RegisterUnpaidHandlers
<1>2. CASE healthHandler(r) BY <1>2 DEF healthHandler
<1>3. CASE Authorize(r) BY <1>3 DEF Authorize
<1>4. CASE registryOfferingsHandler(r) BY <1>4 DEF registryOfferingsHandler
<1>5. CASE ParseBody(r) BY <1>5 DEF ParseBody
<1>6. CASE Send(r) BY <1>6 DEF Send
<1>7. CASE FailFast(r) BY <1>7 DEF FailFast
<1>8. CASE Reply(r)
  <2>1. CASE result[r].code # "OK" \/ result[r].params = Nil
    BY <1>8, <2>1 DEF Reply, writeTicketParamsProxyError
  <2>2. CASE result[r].code = "OK" /\ result[r].params # Nil
    BY <1>8, <2>2 DEF Reply
  <2> QED BY <2>1, <2>2
<1>9. CASE DaemonAnswer(r) BY <1>9 DEF DaemonAnswer, Codes
<1>10. CASE ClientGone(r) BY <1>10 DEF ClientGone
<1> QED
  BY <1>1, <1>2, <1>3, <1>4, <1>5, <1>6, <1>7, <1>8, <1>9, <1>10 DEF StepOf, Handler

\* Nobody else's step takes it off.
LEMMA PathKept ==
  ASSUME ShapeOK, NEW r \in Requests, TicketPath(r),
         \/ \E q \in Requests \ {r} : StepOf(q)
         \/ DaemonStop \/ DaemonStart \/ Reconnect \/ CloseChannel \/ PaidAcquire \/ PaidRelease
  PROVE  TicketPath(r)'
<1> USE DEF ShapeOK, TicketPath, request, conn
<1>1. ASSUME NEW q \in Requests \ {r}, StepOf(q) PROVE TicketPath(r)'
  <2>1. issued'[r] = issued[r] /\ reply'[r] = reply[r]
    BY <1>1 DEF StepOf, Handler, RegisterUnpaidHandlers, healthHandler, Authorize,
       registryOfferingsHandler, ParseBody, Send, FailFast, Reply, DaemonAnswer, ClientGone,
       Answer, writeJSONError, Continue, Return
  <2> QED BY <1>1, <2>1, OthersUntouched
<1>2. CASE DaemonStop BY <1>2 DEF DaemonStop, AbortCalls
<1>3. CASE DaemonStart BY <1>3 DEF DaemonStart
<1>4. CASE Reconnect BY <1>4 DEF Reconnect
<1>5. CASE CloseChannel BY <1>5 DEF CloseChannel, AbortCalls
<1>6. CASE PaidAcquire \/ PaidRelease BY <1>6 DEF PaidAcquire, PaidRelease
<1> QED BY <1>1, <1>2, <1>3, <1>4, <1>5, <1>6

LEMMA PathInvariance == Spec => [](\A r \in Requests : TicketPath(r))
<1> DEFINE PInv == \A r \in Requests : TicketPath(r)
<1>1. Init => PInv BY DEF Init, TicketPath, NoStatus
<1>2. UInv /\ PInv /\ [Next]_unpaidVars => PInv'
  <2> SUFFICES ASSUME UInv, PInv, [Next]_unpaidVars, NEW r \in Requests PROVE TicketPath(r)'
    OBVIOUS
  <2>0. ShapeOK /\ ROK(r) /\ TicketPath(r) BY DEF UInv
  <2>1. CASE UNCHANGED unpaidVars BY <2>0, <2>1 DEF unpaidVars, request, TicketPath
  <2>2. CASE StepOf(r) BY <2>0, <2>2, PathStep
  <2>3. CASE \/ \E q \in Requests \ {r} : StepOf(q)
             \/ DaemonStop \/ DaemonStart \/ Reconnect \/ CloseChannel \/ PaidAcquire \/ PaidRelease
    BY <2>0, <2>3, PathKept
  <2> QED BY <2>1, <2>2, <2>3 DEF Next, StepOf
<1> HIDE DEF PInv
<1>3. Spec => []PInv BY <1>1, <1>2, Invariance, PTL DEF Spec
<1> QED BY <1>3 DEF PInv

\* An address that passes parseHexAddress has exactly the digits it was sent with.
LEMMA AddressExact ==
  ASSUME NEW t \in HexText, IsHexAddress(t)
  PROVE  EncodeToString(parseHexAddress(t)) = t.raw
<1>0. TrimSpace(t).raw = t.raw /\ t.raw \in Seq(HexDigit \cup {NotHex}) BY DEF TrimSpace, HexText
<1>1. Len(t.raw) = 2 * AddrLen /\ \A i \in DOMAIN t.raw : t.raw[i] \in HexDigit
  BY <1>0 DEF IsHexAddress
<1> QED BY <1>0, <1>1, EncodeDecode, AddrLenPositive DEF parseHexAddress

\* Of a ticket answered with 200 every address, digest, round and number the
\* caller reads is the one it asked for or was issued, for texts, byte strings and
\* numbers of any length, whatever other calls share the channel.
THEOREM ProxyIsExact == Spec => []TicketParamsExact
<1>1. (\A r \in Requests : TicketPath(r)) /\ UInv => TicketParamsExact
  <2> SUFFICES ASSUME \A r \in Requests : TicketPath(r), UInv,
                      NEW r \in Requests, route[r] = "ticket", status[r] = 200
               PROVE  LET in == body[r].in   m == wire[r]   tp == issued[r]   out == reply[r]
                      IN  /\ tp # Nil
                          /\ EncodeToString(m.sender) = in.sender.raw
                          /\ EncodeToString(m.recipient) = in.recipient.raw
                          /\ Worth(m.faceValue) = in.faceValue.value
                          /\ m.capability = in.capability.core /\ m.offering = in.offering.core
                          /\ out.recipient.raw = in.recipient.raw
                          /\ out.faceValue = in.faceValue.value
                          /\ out.expirationBlock = Worth(tp.expirationBlock)
                          /\ DecodeString(out.seed.raw) = tp.seed
                          /\ DecodeString(out.winProb.raw) = tp.winProb
                          /\ DecodeString(out.recipientRandHash.raw) = tp.recipientRandHash
                          /\ IF tp.expirationParams = Nil
                             THEN out.creationRound = 0 /\ out.blockHash.raw = <<>>
                             ELSE /\ out.creationRound = tp.expirationParams.creationRound
                                  /\ DecodeString(out.blockHash.raw)
                                       = tp.expirationParams.creationRoundBlockHash
    BY DEF TicketParamsExact
  <2> DEFINE in == body[r].in
             m == wire[r]
             tp == issued[r]
             out == reply[r]
  <2>1. /\ m = Message(body[r]) /\ body[r] \in Bodies(r) /\ WellFormed(body[r])
        /\ tp \in Issues(m) /\ out = renderTicketParamsJSON(TicketParams(tp))
    BY DEF TicketPath, UInv, ROK, Checked, Proxied, NoStatus
  <2>2. /\ tp # Nil /\ tp.recipient = m.recipient /\ Worth(tp.faceValue) = Worth(m.faceValue)
        /\ tp.faceValue \in Seq(Byte) /\ tp.expirationBlock \in Seq(Byte)
        /\ tp.winProb \in Seq(Byte) /\ tp.recipientRandHash \in Seq(Byte) /\ tp.seed \in Seq(Byte)
        /\ tp.expirationParams # Nil => tp.expirationParams.creationRoundBlockHash \in Seq(Byte)
    BY <2>1, IssuesTicketParams
  <2>3. /\ in.sender \in HexText /\ in.recipient \in HexText
        /\ in.capability \in PlainText /\ in.offering \in PlainText
        /\ IsHexAddress(in.sender) /\ IsHexAddress(in.recipient)
    BY <2>1, BodyTexts DEF WellFormed, ParsesTicketParams
  <2>4. /\ m.sender = parseHexAddress(in.sender) /\ m.recipient = parseHexAddress(in.recipient)
        /\ m.capability = TrimSpace(in.capability).core /\ m.offering = TrimSpace(in.offering).core
        /\ m.faceValue = Bytes[in.faceValue.value]
    BY <2>1 DEF Message, GetTicketParamsRequest, parseTicketParamsRequest
  <2>5. \A t \in PlainText : TrimSpace(t).core = t.core BY DEF TrimSpace, PlainText
  <2>6. EncodeToString(m.sender) = in.sender.raw /\ EncodeToString(m.recipient) = in.recipient.raw
    BY <2>3, <2>4, AddressExact
  <2>7. /\ out.recipient.raw = EncodeToString(tp.recipient)
        /\ out.seed.raw = EncodeToString(tp.seed)
        /\ out.winProb.raw = EncodeToString(tp.winProb)
        /\ out.recipientRandHash.raw = EncodeToString(tp.recipientRandHash)
    BY <2>1, <2>2 DEF renderTicketParamsJSON, TicketParams, Get, bytesToHexString
  <2>8. /\ out.creationRound = GetCreationRound(tp.expirationParams)
        /\ out.blockHash.raw = EncodeToString(GetCreationRoundBlockHash(tp.expirationParams))
    BY <2>1, <2>2 DEF renderTicketParamsJSON, TicketParams, Get, bytesToHexString
  <2>9. out.faceValue = SetBytes(tp.faceValue) /\ out.expirationBlock = SetBytes(tp.expirationBlock)
    BY <2>1, <2>2 DEF renderTicketParamsJSON, TicketParams, Get, bytesToDecimalString
  <2>10. in.faceValue.value \in Nat
    <3>1. in.faceValue.value \in Int /\ in.faceValue.value > 0
      BY <2>1, BodyTexts DEF WellFormed, ParsesTicketParams
    <3> QED BY <3>1
  <2>11. Worth(m.faceValue) = in.faceValue.value
    <3>1. m.faceValue \in Seq(Byte)
      <4>1. \A v \in Nat : Bytes[v] \in Seq(Byte)
        BY BytesStepwise, Zenon
      <4> HIDE DEF in, m
      <4> QED BY <2>4, <2>10, <4>1, Zenon
    <3>2. Worth(m.faceValue) = SetBytes(m.faceValue)
      BY <3>1, SetBytesIsWorth
    <3>3. SetBytes(m.faceValue) = in.faceValue.value
      <4>1. m.faceValue = Bytes[in.faceValue.value]
        BY <2>4
      <4>2. SetBytes(Bytes[in.faceValue.value]) = in.faceValue.value
        BY <2>10, SetBytesOfBytes
      <4> QED BY <4>1, <4>2
    <3> QED BY <3>2, <3>3
  <2>12. out.faceValue = in.faceValue.value
    <3>1. SetBytes(tp.faceValue) = Worth(tp.faceValue)
      BY <2>2, SetBytesIsWorth
    <3> QED BY <2>2, <2>9, <2>11, <3>1
  <2>13. out.expirationBlock = Worth(tp.expirationBlock)
    BY <2>2, <2>9, SetBytesIsWorth
  <2>14. IF tp.expirationParams = Nil
         THEN out.creationRound = 0 /\ out.blockHash.raw = <<>>
         ELSE /\ out.creationRound = tp.expirationParams.creationRound
              /\ DecodeString(out.blockHash.raw) = tp.expirationParams.creationRoundBlockHash
    <3>1. CASE tp.expirationParams = Nil
      <4>1. EncodeToString(<<>>) = <<>> BY DEF EncodeToString
      <4> QED BY <2>8, <3>1, <4>1 DEF GetCreationRound, GetCreationRoundBlockHash, Get
    <3>2. CASE tp.expirationParams # Nil
      <4>1. /\ out.creationRound = tp.expirationParams.creationRound
            /\ out.blockHash.raw = EncodeToString(tp.expirationParams.creationRoundBlockHash)
        BY <2>8, <3>2 DEF GetCreationRound, GetCreationRoundBlockHash, Get
      <4> QED BY <2>2, <3>2, <4>1, DecodeEncode
    <3> QED BY <3>1, <3>2
  <2> QED
    BY <2>2, <2>3, <2>4, <2>5, <2>6, <2>7, <2>11, <2>12, <2>13, <2>14, DecodeEncode
<1> QED BY <1>1, PathInvariance, Invariance, PTL
=============================================================================
