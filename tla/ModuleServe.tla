----------------------------- MODULE ModuleServe -----------------------------
(***************************************************************************)
(* One paid request inside a capability module: EstimateWorkUnits, and     *)
(* Serve with its backend call, the metrics recorded around it             *)
(* (internal/providers/backendhttp) and, for chat and speech, the loop     *)
(* that copies the backend's stream to the client.  The backend and the    *)
(* client can each fail between any two lines.                             *)
(***************************************************************************)
EXTENDS Metering, FiniteSets, FiniteSetsExt

CONSTANTS
  Requests,     \* [cap |-> capability, ...] as parsed by the module
  AudioCeils,   \* MaxAudioSecondsCeil as an operator may set it
  Usages,       \* total_tokens, or tenths of a second, a backend may report
  BackendStatuses,  \* statuses a backend may answer with
  MaxLines      \* bound: lines of a stream

\* What each module's ExtractModel finds in a body.
modelOf(r) ==
  CASE r.cap = "chat" -> chatModel(r)
    [] r.cap = "embeddings" -> embeddingsModel(r)
    [] r.cap = "images" -> imagesModel(r)
    [] r.cap = "edits" -> editsModel(r)
    [] r.cap = "speech" -> speechModel(r)
    [] r.cap = "transcriptions" -> transcriptionsModel(r)

\* What a body with a model parses to.  A body with another Content-Type is still
\* read as the module's own kind, and counts of tokens and runes are lengths.
Word       == -(IntMax + 1) .. IntMax
IsList(s)  == Len(s) \in Nat /\ DOMAIN s = 1 .. Len(s)
IsField(v) == v = Absent \/ v \in Word
IsSize(v)  == v = Absent \/ v \in (0 .. IntMax) \X (0 .. IntMax)

IsContent(v) ==
  IF v.kind = "parts"
    THEN IsList(v.parts) /\ \A i \in DOMAIN v.parts :
           (v.parts[i].text = Absent \/ v.parts[i].text \in Nat) /\ v.parts[i].json \in Nat
    ELSE v.tokens \in Nat

IsInput(v) ==
  /\ v.kind = "string" => v.tokens \in Nat
  /\ v.kind = "list" => IsList(v.items) /\ \A i \in DOMAIN v.items :
                           v.items[i] = Absent \/ v.items[i] \in Nat

IsPart(p) == (p[1] \in {"n", "steps"} => IsField(p[2])) /\ (p[1] = "size" => IsSize(p[2]))

IsParsed(r) ==
  /\ r.cap = "chat" => /\ IsList(r.messages) /\ IsField(r.max_tokens)
                       /\ \A i \in DOMAIN r.messages :
                            r.messages[i].role \in Nat /\ IsContent(r.messages[i].content)
  /\ r.cap = "embeddings" => IsInput(r.input)
  /\ r.cap = "images" => IsField(r.n) /\ IsField(r.steps) /\ IsSize(r.size)
  /\ r.cap = "edits" => IsList(r.parts) /\ \A i \in DOMAIN r.parts : IsPart(r.parts[i])
  /\ r.cap = "speech" => r.runes \in 0 .. IntMax

ASSUME RequestsParsed ==
  \A r \in Requests :
    /\ r.cap \in {"chat", "embeddings", "images", "edits", "speech", "transcriptions"}
    /\ modelOf(r) # Absent => IsParsed(r)
ASSUME ServeBounds == AudioCeils \subseteq Word /\ MaxLines \in Nat

\* net/http keeps the interim 1xx answers to itself.
ASSUME FinalStatuses == BackendStatuses \subseteq 200..999

\* What a failed backend call reports: "do" and "read body" are the stages of
\* fetch.go, "malformed" is a "do" whose text says malformed or unexpected EOF.
Errors == {"do", "malformed", "read body", "timeout"}

VARIABLES
  req, ceil,          \* the request and the transcription ceiling
  pc,                 \* where the module is
  est,                \* result of EstimateWorkUnits
  status,             \* status written to the client, 0 if none
  origin,             \* whose status that is: a backend's answer, or Serve's own
  source,             \* lines read from the backend's stream
  sent,               \* lines written to the client
  lastUsage,          \* serveStream's lastUsage
  units, failed,      \* Serve's result
  okCalls, errCalls,  \* IncBackendRequest by outcome
  errClass,           \* IncBackendError's class, "none" if not called
  lastSuccess         \* status that set the last-success timestamp, 0 if none

streamVars == <<source, sent, lastUsage>>
metricVars == <<okCalls, errCalls, errClass, lastSuccess>>
vars == <<req, ceil, pc, est, status, origin, streamVars, units, failed, metricVars>>

Lines == Usages \cup {Absent}    \* Absent: a line without a usage block

TypeOK ==
  /\ req \in Requests /\ ceil \in AudioCeils
  /\ pc \in {"extract", "estimate", "serve", "call", "copy", "returned", "refused"}
  /\ est \in Word
  /\ status \in BackendStatuses \cup {0, 400, 502}
  /\ origin \in {"none", "refused", "unreachable", "backend"}
  /\ source \in Seq(Lines) /\ sent \in Seq(Lines) /\ Len(source) <= MaxLines
  /\ lastUsage \in Lines
  /\ units \in Usages \cup {0} \cup {durationFromResponse(d) : d \in Usages}
  /\ failed \in BOOLEAN
  /\ okCalls \in 0..1 /\ errCalls \in 0..1
  /\ errClass \in {"none", "timeout", "malformed", "connect", "5xx"}
  /\ lastSuccess \in BackendStatuses \cup {0}

Init ==
  /\ req \in Requests /\ ceil \in AudioCeils
  /\ pc = "extract" /\ est = 0 /\ status = 0 /\ origin = "none"
  /\ source = << >> /\ sent = << >> /\ lastUsage = Absent
  /\ units = 0 /\ failed = FALSE
  /\ okCalls = 0 /\ errCalls = 0 /\ errClass = "none" /\ lastSuccess = 0

Goto(from, to) == pc = from /\ pc' = to
IsForm == req.cap \in {"edits", "transcriptions"}
Streams == req.cap = "speech" \/ (req.cap = "chat" /\ req.stream)
ContentTypeOK == IsForm => req.form

-----------------------------------------------------------------------------
\* A body without a model is refused before the payment is looked at.
ExtractModel ==
  /\ \/ Goto("extract", "estimate") /\ modelOf(req) # Absent
     \/ Goto("extract", "refused") /\ modelOf(req) = Absent
  /\ UNCHANGED <<req, ceil, est, status, origin, streamVars, units, failed, metricVars>>

Estimated ==
  CASE req.cap = "chat" -> chatEstimate(req)
    [] req.cap = "embeddings" -> embeddingsEstimate(req)
    [] req.cap = "images" -> imagesEstimate(req)
    [] req.cap = "edits" -> editsEstimate(req)
    [] req.cap = "speech" -> speechEstimate(req)
    [] req.cap = "transcriptions" -> transcriptionsEstimate(ceil)

EstimateWorkUnits ==
  /\ \/ Goto("estimate", "serve") /\ ~Estimated.failed /\ est' = Estimated.units
     \/ Goto("estimate", "refused") /\ Estimated.failed /\ UNCHANGED est
  /\ UNCHANGED <<req, ceil, status, origin, streamVars, units, failed, metricVars>>

\* The multipart modules insist on their Content-Type.
CheckContentType ==
  /\ \/ /\ ContentTypeOK
        /\ Goto("serve", "call")
        /\ UNCHANGED <<status, origin, failed>>
     \/ /\ ~ContentTypeOK
        /\ Goto("serve", "returned")
        /\ status' = 400 /\ origin' = "refused" /\ failed' = TRUE
  /\ UNCHANGED <<req, ceil, est, streamVars, units, metricVars>>

\* Order matters: a timeout while reading is a timeout.
classifyTransportError(e) ==
  IF e = "timeout" THEN "timeout"
  ELSE IF e \in {"read body", "malformed"} THEN "malformed"
  ELSE "connect"

\* Mutated form: a transport error is not counted as a backend request.
recordError_Uncounted(e) ==
  errClass' = classifyTransportError(e) /\ UNCHANGED <<okCalls, errCalls, lastSuccess>>

recordError(e) ==
  /\ errCalls' = errCalls + 1
  /\ errClass' = classifyTransportError(e)
  /\ UNCHANGED <<okCalls, lastSuccess>>

recordOutcome(s) ==
  \/ /\ s >= 500
     /\ errCalls' = errCalls + 1 /\ errClass' = "5xx"
     /\ UNCHANGED <<okCalls, lastSuccess>>
  \/ /\ s < 500
     /\ okCalls' = okCalls + 1 /\ lastSuccess' = s
     /\ UNCHANGED <<errCalls, errClass>>

\* Mutated form: the module answers 502 and reports success.
BackendFails_Swallowed ==
  /\ Goto("call", "returned")
  /\ \E e \in Errors : (Streams => e # "read body") /\ recordError(e)
  /\ status' = 502 /\ origin' = "unreachable"
  /\ UNCHANGED <<req, ceil, est, streamVars, units, failed>>

\* DoJSON, DoRaw or DoStream returns an error; only the buffered calls read
\* the body.  The client gets a 502.
BackendFails ==
  /\ Goto("call", "returned")
  /\ \E e \in Errors : (Streams => e # "read body") /\ recordError(e)
  /\ status' = 502 /\ origin' = "unreachable" /\ failed' = TRUE
  /\ UNCHANGED <<req, ceil, est, streamVars, units>>

\* DoJSON or DoRaw answered: the answer is written through, whatever its status,
\* and v, its usage or duration field, gives the units.
BufferedAnswer(unitsOf) ==
  /\ Goto("call", "returned")
  /\ \E s \in BackendStatuses, v \in Lines :
       /\ recordOutcome(s)
       /\ status' = s /\ origin' = "backend"
       /\ units' = unitsOf[v]
  /\ UNCHANGED <<req, ceil, est, streamVars, failed>>

\* The buffered Serve of each module.  Image backends report no usage.
UsageUnits == [v \in Lines |-> usageToUnits(v)]
Durations == [v \in Lines |-> durationFromResponse(v)]
NoUnits == [v \in Lines |-> 0]

chatServeJSON == req.cap = "chat" /\ pc = "call" /\ ~Streams /\ BufferedAnswer(UsageUnits)
embeddingsServe == req.cap = "embeddings" /\ BufferedAnswer(UsageUnits)
imagesServe == req.cap = "images" /\ BufferedAnswer(NoUnits)
editsServe == req.cap = "edits" /\ BufferedAnswer(NoUnits)
transcriptionsServe == req.cap = "transcriptions" /\ BufferedAnswer(Durations)

\* DoStream answered: the status is forwarded before the first line.
StreamOpens ==
  /\ Goto("call", "copy")
  /\ \E s \in BackendStatuses : recordOutcome(s) /\ status' = s
  /\ origin' = "backend"
  /\ UNCHANGED <<req, ceil, est, streamVars, units, failed>>

chatServeStream == req.cap = "chat" /\ pc = "call" /\ Streams /\ StreamOpens
speechServe == req.cap = "speech" /\ StreamOpens

-----------------------------------------------------------------------------
(***************************************************************************)
(* serveStream, and io.Copy of the speech module, which looks for no usage *)
(***************************************************************************)
Finish(err) ==
  /\ Goto("copy", "returned")
  /\ failed' = err
  /\ units' = IF req.cap = "chat" THEN usageToUnits(lastUsage) ELSE 0

\* Mutated form: a later line without usage forgets the usage seen before.
CopyLine_Forgets(l) ==
  /\ pc = "copy" /\ Len(source) < MaxLines
  /\ source' = Append(source, l)
  /\ sent' = Append(sent, l)
  /\ lastUsage' = l
  /\ UNCHANGED <<req, ceil, pc, est, status, origin, units, failed, metricVars>>

\* A line is read, written to the client, and then searched for usage.
CopyLine(l) ==
  /\ pc = "copy" /\ Len(source) < MaxLines
  /\ source' = Append(source, l)
  /\ sent' = Append(sent, l)
  /\ lastUsage' = IF l = Absent THEN lastUsage ELSE l
  /\ UNCHANGED <<req, ceil, pc, est, status, origin, units, failed, metricVars>>

\* The write fails: the client is gone, and the line's usage is not looked at.
ClientGone(l) ==
  /\ Len(source) < MaxLines
  /\ Finish(TRUE)
  /\ source' = Append(source, l)
  /\ UNCHANGED <<req, ceil, est, status, origin, sent, lastUsage, metricVars>>

\* A refused stream was buffered by DoStream, so only a 2xx can break off.
StreamBreaks ==
  /\ status \in 200..299
  /\ Finish(TRUE)
  /\ UNCHANGED <<req, ceil, est, status, origin, streamVars, metricVars>>

StreamEnds ==
  /\ Finish(FALSE)
  /\ UNCHANGED <<req, ceil, est, status, origin, streamVars, metricVars>>

Next ==
  \/ ExtractModel \/ EstimateWorkUnits \/ CheckContentType
  \/ BackendFails
  \/ chatServeJSON \/ embeddingsServe \/ imagesServe \/ editsServe \/ transcriptionsServe
  \/ chatServeStream \/ speechServe
  \/ \E l \in Lines : CopyLine(l) \/ ClientGone(l)
  \/ StreamBreaks \/ StreamEnds
  \/ pc \in {"returned", "refused"} /\ UNCHANGED vars

Spec == Init /\ [][Next]_vars

-----------------------------------------------------------------------------
(***************************************************************************)
(* Properties.                                                             *)
(***************************************************************************)

\* The value of a form's first part with a name: once found, it stays.
First(parts, name) ==
  FoldLeft(LAMBDA st, p : IF ~st[1] /\ p[1] = name THEN <<TRUE, p[2]>> ELSE st,
           <<FALSE, Absent>>, parts)[2]

\* The pixels an image request asks for, exactly.
ImageFields == IF req.cap = "images" THEN req
               ELSE [n |-> First(req.parts, "n"), steps |-> First(req.parts, "steps"),
                     size |-> First(req.parts, "size")]
Pixels == LET wh == parseSize(ImageFields.size) IN
          PositiveOr(ImageFields.n, DefaultN) * PositiveOr(ImageFields.steps, DefaultSteps)
            * wh[1] * wh[2]
ImageEstimated == req.cap \in {"images", "edits"} /\ pc \notin {"extract", "estimate", "refused"}

\* As long as the product fits a machine word, the image estimate is the least
\* number of units that covers every pixel-step asked for.
ImageEstimateIsCeiling ==
  ImageEstimated /\ Pixels + PixelsPerUnit - 1 <= IntMax =>
    /\ est * PixelsPerUnit >= Pixels
    /\ (est - 1) * PixelsPerUnit < Pixels

\* The usage reported by the lines of s, from last to first.
LastUsageIn(s) ==
  LET hits == {i \in DOMAIN s : s[i] # Absent} IN
  IF hits = {} THEN 0 ELSE s[CHOOSE i \in hits : \A j \in hits : j <= i]

\* A chat stream, whichever side ends it, reports the usage of the last usage
\* block the client was sent, and the client was sent the backend's lines in
\* order, at most the last one missing.
StreamUsageDelivered ==
  /\ IsPrefix(sent, source) /\ Len(source) <= Len(sent) + 1
  /\ pc = "returned" /\ req.cap = "chat" /\ Streams => units = LastUsageIn(sent)

\* What the payment middleware relies on.  When Serve answered by itself (the
\* body was no form, no backend was reached) it reports an error, used nothing
\* and sent nothing.  When it forwarded an answer, whatever its status, it
\* reports an error only for a stream that was cut short, and units together
\* with an error only when the client got part of that stream.
ServeOutcomeEnvelope ==
  pc = "returned" =>
    /\ origin \in {"refused", "unreachable", "backend"}
    /\ origin # "backend" => failed /\ units = 0 /\ sent = << >>
    /\ origin = "backend" => status \in BackendStatuses /\ (failed => Streams)
    /\ failed /\ units # 0 => sent # << >>

\* One Serve makes at most one backend call, none for a body it refuses, and
\* counts it exactly once on whichever path it ends: as an error, with a class,
\* if no answer came or the answer was a 5xx, whatever became of the stream;
\* otherwise as a success, with the time of the last success set.
BackendCountedOnce ==
  /\ okCalls + errCalls = IF origin \in {"backend", "unreachable"} THEN 1 ELSE 0
  /\ errCalls = 1 <=> origin = "unreachable" \/ (origin = "backend" /\ status >= 500)
  /\ errCalls = 1 <=> errClass # "none"
  /\ okCalls = 1 <=> lastSuccess # 0

-----------------------------------------------------------------------------
(***************************************************************************)
(* What the documentation and comments say, where the code differs.        *)
(***************************************************************************)

\* "operators never under-charge" (images_generations' comment on its
\* estimate): the units estimated cover the pixels asked for.
NeverUndercharged == ImageEstimated => est * PixelsPerUnit >= Pixels
=============================================================================
