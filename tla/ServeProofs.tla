---------------------------- MODULE ServeProofs ----------------------------
(***************************************************************************)
(* A capability module's Serve, proved for streams of any length, any      *)
(* usage a backend may report and any word size.                           *)
(***************************************************************************)
EXTENDS ModuleServe, FoldTheorems, SequenceTheorems

-----------------------------------------------------------------------------
(***************************************************************************)
(* The inductive invariant.  What the middleware and the operator see when *)
(* Serve returns is put together at four places: the Content-Type check,   *)
(* the failed call, the buffered answer and the copied stream.             *)
(***************************************************************************)
BeforeCall == {"extract", "estimate", "serve", "call", "refused"}

NothingCopied == sent = << >> /\ source = << >> /\ lastUsage = Absent
NothingCounted == okCalls = 0 /\ errCalls = 0 /\ errClass = "none" /\ lastSuccess = 0

\* The backend answered, and its answer was counted by its status.
AnswerCounted ==
  /\ origin = "backend" /\ status \in BackendStatuses
  /\ \/ status < 500 /\ okCalls = 1 /\ errCalls = 0 /\ errClass = "none" /\ lastSuccess = status
     \/ status >= 500 /\ okCalls = 0 /\ errCalls = 1 /\ errClass = "5xx" /\ lastSuccess = 0

ServeTypes ==
  /\ pc \in BeforeCall \cup {"copy", "returned"}
  /\ sent \in Seq(Lines) /\ source \in Seq(Lines) /\ lastUsage \in Lines

Untouched ==
  pc \in BeforeCall =>
    /\ NothingCopied /\ NothingCounted
    /\ status = 0 /\ origin = "none" /\ units = 0 /\ failed = FALSE

Copying == pc = "copy" => AnswerCounted /\ Streams /\ source = sent

Refused ==
  /\ status = 400 /\ origin = "refused" /\ failed = TRUE /\ units = 0
  /\ NothingCopied /\ NothingCounted

NoAnswer ==
  /\ status = 502 /\ origin = "unreachable" /\ failed = TRUE /\ units = 0 /\ NothingCopied
  /\ okCalls = 0 /\ errCalls = 1 /\ errClass # "none" /\ lastSuccess = 0

Buffered == AnswerCounted /\ ~Streams /\ failed = FALSE /\ NothingCopied

\* When the client is gone, the line that could not be written is the last one
\* read.
Streamed ==
  /\ AnswerCounted /\ Streams /\ failed \in BOOLEAN
  /\ units = IF req.cap = "chat" THEN usageToUnits(lastUsage) ELSE 0
  /\ source = sent \/ \E l \in Lines : source = Append(sent, l)

Returned == pc = "returned" => Refused \/ NoAnswer \/ Buffered \/ Streamed

\* serveStream's lastUsage is the usage of the last line sent that has one.
\* The line is part of the statement: that a set of positions has a greatest
\* member is not looked for at the end but kept along the way.
Hits(s) == {i \in DOMAIN s : s[i] # Absent}
LastHit(s, u) ==
  \/ Hits(s) = {} /\ u = Absent
  \/ \E k \in Hits(s) : (\A j \in Hits(s) : j <= k) /\ u = s[k]

ServeInv ==
  ServeTypes /\ Untouched /\ Copying /\ Returned /\ LastHit(sent, lastUsage)

-----------------------------------------------------------------------------
LEMMA NothingHit == LastHit(<< >>, Absent)
BY DEF LastHit, Hits

\* One more line moves the last hit exactly when it has a usage.
LEMMA AppendHit ==
  ASSUME NEW s \in Seq(Lines), NEW l \in Lines, NEW u \in Lines, LastHit(s, u)
  PROVE  LastHit(Append(s, l), IF l = Absent THEN u ELSE l)
<1> DEFINE t == Append(s, l)
<1>1. /\ Len(s) \in Nat /\ DOMAIN s = 1..Len(s)
      /\ t \in Seq(Lines) /\ Len(t) = Len(s) + 1
      /\ \A i \in 1..Len(s) : t[i] = s[i]
      /\ t[Len(s) + 1] = l
  BY LenProperties, AppendProperties
<1>2. DOMAIN t = 1..(Len(s) + 1)
  BY <1>1, LenProperties
<1>3. CASE l = Absent
  <2>1. Hits(t) = Hits(s)
    BY <1>1, <1>2, <1>3 DEF Hits
  <2>2. \A k \in Hits(s) : t[k] = s[k]
    BY <1>1 DEF Hits
  <2> QED BY <1>3, <2>1, <2>2 DEF LastHit
<1>4. CASE l # Absent
  <2>1. Len(s) + 1 \in Hits(t)
    BY <1>1, <1>2, <1>4 DEF Hits
  <2>2. \A j \in Hits(t) : j <= Len(s) + 1
    BY <1>1, <1>2 DEF Hits
  <2> QED BY <1>1, <1>4, <2>1, <2>2 DEF LastHit
<1> QED BY <1>3, <1>4

\* The greatest position is unique, so the reference definition agrees.
LEMMA LastHitIsLastUsage ==
  ASSUME NEW s \in Seq(Lines), NEW u \in Lines, LastHit(s, u)
  PROVE  usageToUnits(u) = LastUsageIn(s)
<1>1. LastUsageIn(s) = IF Hits(s) = {} THEN 0
                       ELSE s[CHOOSE i \in Hits(s) : \A j \in Hits(s) : j <= i]
  BY DEF LastUsageIn, Hits
<1>2. CASE Hits(s) = {} /\ u = Absent
  BY <1>1, <1>2 DEF usageToUnits
<1>3. CASE \E k \in Hits(s) : (\A j \in Hits(s) : j <= k) /\ u = s[k]
  <2>1. PICK k \in Hits(s) : (\A j \in Hits(s) : j <= k) /\ u = s[k]
    BY <1>3
  <2> DEFINE m == CHOOSE i \in Hits(s) : \A j \in Hits(s) : j <= i
  <2>2. m \in Hits(s) /\ \A j \in Hits(s) : j <= m
    BY <2>1
  <2>3. k \in Int /\ m \in Int
    BY <2>2, LenProperties DEF Hits
  <2>4. m = k
    <3> HIDE DEF m
    <3> QED BY <2>1, <2>2, <2>3
  <2>5. s[k] # Absent
    BY DEF Hits
  <2> QED BY <1>1, <2>1, <2>4, <2>5 DEF usageToUnits
<1> QED BY <1>2, <1>3 DEF LastHit

LEMMA ServeInit == Init => ServeInv
<1> SUFFICES ASSUME Init PROVE ServeInv OBVIOUS
<1>1. << >> \in Seq(Lines) BY EmptySeq
<1>2. Absent \in Lines BY DEF Lines
<1> QED
  BY <1>1, <1>2, NothingHit
  DEF Init, ServeInv, ServeTypes, Untouched, Copying, Returned, BeforeCall,
      NothingCopied, NothingCounted

-----------------------------------------------------------------------------
\* Up to the call nothing is written, copied or counted; a form without its
\* Content-Type is refused with a 400.
LEMMA UpToTheCall ==
  ASSUME ServeInv, ExtractModel \/ EstimateWorkUnits \/ CheckContentType
  PROVE  ServeInv'
<1> USE DEF ServeInv, ServeTypes, Untouched, Copying, Returned, BeforeCall, NothingCopied,
            NothingCounted, streamVars, metricVars, Goto
<1>1. sent' = sent /\ source' = source /\ lastUsage' = lastUsage
  BY DEF ExtractModel, EstimateWorkUnits, CheckContentType
<1>2. Lines' = Lines BY DEF Lines
<1>3. LastHit(sent, lastUsage)'
  BY <1>1 DEF LastHit, Hits
<1>4. CASE ExtractModel \/ EstimateWorkUnits
  <2>1. pc' \in BeforeCall /\ pc \in BeforeCall
    BY <1>4 DEF ExtractModel, EstimateWorkUnits
  <2>2. /\ status' = status /\ origin' = origin /\ units' = units /\ failed' = failed
        /\ okCalls' = okCalls /\ errCalls' = errCalls /\ errClass' = errClass
        /\ lastSuccess' = lastSuccess
    BY <1>4 DEF ExtractModel, EstimateWorkUnits
  <2> QED BY <1>1, <1>2, <1>3, <2>1, <2>2
<1>5. CASE CheckContentType
  BY <1>1, <1>2, <1>3, <1>5 DEF CheckContentType, Refused
<1> QED BY <1>4, <1>5

\* recordOutcome, called once, counts the answer of status s.
LEMMA OutcomeCounted ==
  ASSUME NothingCounted, NEW s \in BackendStatuses, recordOutcome(s), status' = s,
         origin' = "backend"
  PROVE  AnswerCounted'
BY FinalStatuses DEF NothingCounted, recordOutcome, AnswerCounted

LEMMA TheCallFails ==
  ASSUME ServeInv, BackendFails
  PROVE  ServeInv'
<1> USE DEF ServeInv, ServeTypes, Untouched, Copying, Returned, BeforeCall, NothingCopied,
            NothingCounted, streamVars, metricVars, Goto
<1>1. LastHit(sent, lastUsage)' /\ Lines' = Lines
  BY DEF BackendFails, LastHit, Hits, Lines
<1>2. errCalls' = 1 /\ errClass' # "none" /\ okCalls' = 0 /\ lastSuccess' = 0
  <2>1. PICK e \in Errors : recordError(e)
    BY DEF BackendFails
  <2>2. pc = "call" /\ errCalls = 0 /\ okCalls = 0 /\ lastSuccess = 0
    BY DEF BackendFails
  <2>3. classifyTransportError(e) # "none"
    BY DEF classifyTransportError
  <2> QED BY <2>1, <2>2, <2>3 DEF recordError
<1>3. /\ pc = "call" /\ pc' = "returned" /\ status' = 502 /\ origin' = "unreachable"
      /\ failed' = TRUE /\ units' = units
      /\ sent' = sent /\ source' = source /\ lastUsage' = lastUsage
  BY DEF BackendFails
<1> QED BY <1>1, <1>2, <1>3 DEF NoAnswer

\* A buffered answer is written through and counted.
LEMMA AnsweredAtOnce ==
  ASSUME ServeInv, NEW unitsOf, BufferedAnswer(unitsOf), ~Streams
  PROVE  ServeInv'
<1> USE DEF ServeInv, ServeTypes, Untouched, Copying, Returned, BeforeCall, NothingCopied,
            streamVars, metricVars, Goto
<1>1. LastHit(sent, lastUsage)' /\ Lines' = Lines
  BY DEF BufferedAnswer, LastHit, Hits, Lines
<1>2. AnswerCounted'
  BY OutcomeCounted DEF BufferedAnswer
<1>3. ~Streams' /\ failed' = FALSE
  BY DEF BufferedAnswer, Streams
<1> QED BY <1>1, <1>2, <1>3 DEF BufferedAnswer, Buffered

\* A stream opens: its status is forwarded and counted before the first line.
LEMMA OpensCounted ==
  ASSUME ServeInv, StreamOpens, Streams
  PROVE  ServeInv'
<1> USE DEF ServeInv, ServeTypes, Untouched, Copying, Returned, BeforeCall, NothingCopied,
            streamVars, metricVars, Goto
<1>1. LastHit(sent, lastUsage)' /\ Lines' = Lines
  BY DEF StreamOpens, LastHit, Hits, Lines
<1>2. AnswerCounted'
  BY OutcomeCounted DEF StreamOpens
<1>3. Streams'
  BY DEF StreamOpens, Streams
<1> QED BY <1>1, <1>2, <1>3 DEF StreamOpens

\* Copying a line keeps sent and source in step, and lastUsage with them.
LEMMA LineCopied ==
  ASSUME ServeInv, NEW l \in Lines, CopyLine(l)
  PROVE  ServeInv'
<1> USE DEF ServeInv, ServeTypes, BeforeCall
<1>1. /\ pc = "copy" /\ pc' = "copy" /\ Lines' = Lines
      /\ sent' = Append(sent, l) /\ source' = Append(source, l)
      /\ lastUsage' = IF l = Absent THEN lastUsage ELSE l
  BY DEF CopyLine, Lines
<1>2. sent' \in Seq(Lines) /\ source' \in Seq(Lines) /\ lastUsage' \in Lines
  BY <1>1, AppendProperties
<1>3. LastHit(sent', lastUsage')
  BY <1>1, AppendHit
<1>4. LastHit(sent, lastUsage)'
  BY <1>3 DEF LastHit, Hits
<1>5. AnswerCounted' /\ Streams' /\ source' = sent'
  BY <1>1 DEF CopyLine, Copying, AnswerCounted, Streams, metricVars
<1> QED BY <1>1, <1>2, <1>4, <1>5 DEF Untouched, Copying, Returned

\* However the copying ends, the units are those of lastUsage.
LEMMA StreamReturns ==
  ASSUME ServeInv,
         \/ \E l \in Lines : ClientGone(l)
         \/ StreamBreaks \/ StreamEnds
  PROVE  ServeInv'
<1> USE DEF ServeInv, ServeTypes, BeforeCall, Finish, Goto, streamVars, metricVars
<1>1. /\ pc = "copy" /\ pc' = "returned" /\ Lines' = Lines
      /\ sent' = sent /\ lastUsage' = lastUsage /\ failed' \in BOOLEAN
  BY DEF ClientGone, StreamBreaks, StreamEnds, Lines
<1>2. source' = sent \/ \E l \in Lines : source' = Append(sent, l)
  BY <1>1 DEF ClientGone, StreamBreaks, StreamEnds, Copying
<1>3. source' \in Seq(Lines)
  BY <1>2, AppendProperties
<1>4. LastHit(sent, lastUsage)'
  BY <1>1 DEF LastHit, Hits
<1>5. AnswerCounted' /\ Streams'
  BY <1>1 DEF ClientGone, StreamBreaks, StreamEnds, Copying, AnswerCounted, Streams
<1>6. units' = IF req'.cap = "chat" THEN usageToUnits(lastUsage') ELSE 0
  BY <1>1 DEF ClientGone, StreamBreaks, StreamEnds, usageToUnits
<1>7. Streamed'
  BY <1>1, <1>2, <1>5, <1>6 DEF Streamed, usageToUnits
<1> QED BY <1>1, <1>3, <1>4, <1>7 DEF Untouched, Copying, Returned

LEMMA ServeStutter ==
  ASSUME ServeInv, UNCHANGED vars
  PROVE  ServeInv'
BY DEF ServeInv, ServeTypes, Untouched, Copying, Returned, Refused, NoAnswer, Buffered, Streamed,
       AnswerCounted, NothingCopied, NothingCounted, Streams, usageToUnits, LastHit, Hits, Lines,
       BeforeCall, vars, streamVars, metricVars

LEMMA ServeStep == ServeInv /\ [Next]_vars => ServeInv'
<1> SUFFICES ASSUME ServeInv, [Next]_vars PROVE ServeInv' OBVIOUS
<1>1. CASE ExtractModel \/ EstimateWorkUnits \/ CheckContentType
  BY <1>1, UpToTheCall
<1>2. CASE BackendFails
  BY <1>2, TheCallFails
<1>3. CASE chatServeJSON \/ embeddingsServe \/ imagesServe \/ editsServe \/ transcriptionsServe
  BY <1>3, AnsweredAtOnce
  DEF chatServeJSON, embeddingsServe, imagesServe, editsServe, transcriptionsServe, Streams
<1>4. CASE chatServeStream \/ speechServe
  BY <1>4, OpensCounted DEF chatServeStream, speechServe, Streams
<1>5. CASE \E l \in Lines : CopyLine(l)
  BY <1>5, LineCopied
<1>6. CASE (\E l \in Lines : ClientGone(l)) \/ StreamBreaks \/ StreamEnds
  BY <1>6, StreamReturns
<1>7. CASE UNCHANGED vars
  BY <1>7, ServeStutter
<1> QED BY <1>1, <1>2, <1>3, <1>4, <1>5, <1>6, <1>7 DEF Next

THEOREM ServeInvariant == Spec => []ServeInv
BY ServeInit, ServeStep, PTL DEF Spec

-----------------------------------------------------------------------------
\* The one backend call of a Serve is counted exactly once, whatever status it is
\* answered with and however the stream ends: as an error with a class exactly
\* when no answer came or the answer was a 5xx.
THEOREM EveryCallCountedOnce == Spec => []BackendCountedOnce
<1>1. ServeInv => BackendCountedOnce
  <2> SUFFICES ASSUME ServeInv PROVE BackendCountedOnce OBVIOUS
  <2>1. CASE pc \in BeforeCall
    BY <2>1 DEF ServeInv, Untouched, NothingCounted, BackendCountedOnce
  <2>2. CASE AnswerCounted
    BY <2>2, FinalStatuses DEF AnswerCounted, BackendCountedOnce
  <2>3. CASE Refused
    BY <2>3 DEF Refused, NothingCounted, BackendCountedOnce
  <2>4. CASE NoAnswer
    BY <2>4 DEF NoAnswer, BackendCountedOnce
  <2> QED
    BY <2>1, <2>2, <2>3, <2>4 DEF ServeInv, ServeTypes, Copying, Returned, Buffered, Streamed
<1> QED BY <1>1, ServeInvariant, PTL

\* What the payment middleware relies on when Serve returns: an answer of Serve's
\* own is an error without units, a forwarded answer fails only as a stream.
THEOREM ServeKeepsEnvelope == Spec => []ServeOutcomeEnvelope
<1>1. ServeInv => ServeOutcomeEnvelope
  <2> SUFFICES ASSUME ServeInv, pc = "returned"
               PROVE  /\ origin \in {"refused", "unreachable", "backend"}
                      /\ origin # "backend" => failed /\ units = 0 /\ sent = << >>
                      /\ origin = "backend" => status \in BackendStatuses /\ (failed => Streams)
                      /\ failed /\ units # 0 => sent # << >>
    BY DEF ServeOutcomeEnvelope
  <2>1. CASE Refused \/ NoAnswer
    BY <2>1 DEF Refused, NoAnswer, NothingCopied
  <2>2. CASE Buffered
    BY <2>2 DEF Buffered, AnswerCounted
  <2>3. CASE Streamed
    <3>1. sent = << >> => Hits(sent) = {}
      BY DEF Hits
    <3>2. units # 0 => sent # << >>
      BY <2>3, <3>1 DEF ServeInv, LastHit, Streamed, usageToUnits
    <3>3. origin = "backend" /\ status \in BackendStatuses /\ Streams
      BY <2>3 DEF Streamed, AnswerCounted
    <3> QED BY <3>2, <3>3
  <2> QED BY <2>1, <2>2, <2>3 DEF ServeInv, Returned
<1> QED BY <1>1, ServeInvariant, PTL

LEMMA AppendExtends ==
  ASSUME NEW s \in Seq(Lines), NEW t, t = s \/ \E l \in Lines : t = Append(s, l)
  PROVE  IsPrefix(s, t) /\ Len(t) <= Len(s) + 1
<1>1. CASE t = s
  BY <1>1, LenProperties DEF IsPrefix
<1>2. ASSUME NEW l \in Lines, t = Append(s, l)
      PROVE  IsPrefix(s, t) /\ Len(t) <= Len(s) + 1
  <2>1. /\ t \in Seq(Lines) /\ Len(t) = Len(s) + 1 /\ Len(s) \in Nat
        /\ \A i \in 1..Len(s) : t[i] = s[i] /\ s[i] \in Lines
    BY <1>2, LenProperties, AppendProperties, ElementOfSeq
  <2> DEFINE front == SubSeq(t, 1, Len(s))
  <2>2. /\ front \in Seq(Lines) /\ Len(front) = Len(s)
        /\ \A i \in 1..Len(s) : front[i] = t[i]
    <3>1. /\ front \in Seq(Lines)
          /\ Len(front) = IF 1 <= Len(s) THEN Len(s) - 1 + 1 ELSE 0
          /\ \A i \in 1..(Len(s) - 1 + 1) : front[i] = t[1 + i - 1]
      BY <2>1, SubSeqProperties
    <3> QED BY <2>1, <3>1
  <2>3. front = s
    BY <2>1, <2>2, SeqEqual
  <2> QED BY <2>1, <2>3, SubSeqFull DEF IsPrefix
<1> QED BY <1>1, <1>2

\* A chat stream reports the usage of the last usage block its client was sent,
\* whichever side ends it.
THEOREM StreamUsageIsDelivered == Spec => []StreamUsageDelivered
<1>1. ServeInv => StreamUsageDelivered
  <2> SUFFICES ASSUME ServeInv PROVE StreamUsageDelivered OBVIOUS
  <2>1. source = sent \/ \E l \in Lines : source = Append(sent, l)
    BY DEF ServeInv, ServeTypes, Untouched, Copying, Returned, Refused, NoAnswer, Buffered,
           Streamed, NothingCopied
  <2>2. IsPrefix(sent, source) /\ Len(source) <= Len(sent) + 1
    BY <2>1, AppendExtends DEF ServeInv, ServeTypes
  <2>3. usageToUnits(lastUsage) = LastUsageIn(sent)
    BY LastHitIsLastUsage DEF ServeInv, ServeTypes
  <2>4. ASSUME pc = "returned", req.cap = "chat", Streams
        PROVE  units = usageToUnits(lastUsage)
    BY <2>4 DEF ServeInv, Returned, Refused, NoAnswer, Buffered, Streamed, NothingCopied,
                usageToUnits
  <2> QED BY <2>2, <2>3, <2>4 DEF StreamUsageDelivered
<1> QED BY <1>1, ServeInvariant, PTL

-----------------------------------------------------------------------------
(***************************************************************************)
(* Machine words and sums.                                                 *)
(***************************************************************************)
LEMMA WordMod ==
  ASSUME NEW x \in Int, NEW m \in Nat \ {0}
  PROVE  /\ (x + m) % (2 * m) \in 0..(2 * m - 1)
         /\ -m <= x /\ x < m => (x + m) % (2 * m) = x + m
OBVIOUS

LEMMA WrapIsWord ==
  ASSUME NEW x \in Int
  PROVE  Wrap(x) \in Word /\ (x \in Word => Wrap(x) = x)
<1> DEFINE m == IntMax + 1
<1>1. m \in Nat \ {0}
  BY WordSize
<1>2. /\ (x + m) % (2 * m) \in 0..(2 * m - 1)
      /\ -m <= x /\ x < m => (x + m) % (2 * m) = x + m
  <2> HIDE DEF m
  <2> QED BY <1>1, WordMod
<1>3. x + m = x + IntMax + 1
  BY WordSize
<1>4. Wrap(x) = ((x + m) % (2 * m)) - m
  BY <1>3 DEF Wrap
<1>5. Word = -m..(m - 1)
  BY WordSize DEF Word
<1> HIDE DEF m
<1> QED BY <1>1, <1>2, <1>4, <1>5

LEMMA Quotient ==
  ASSUME NEW x \in Nat, NEW y \in Nat \ {0}
  PROVE  x \div y \in Nat /\ x \div y <= x /\ y * (x \div y) <= x /\ x < y * (x \div y) + y
OBVIOUS

\* The sum of a list is that of the community modules, whatever its order.
LEMMA SumSeqIsSum ==
  ASSUME NEW n \in Nat, NEW s \in [1..n -> Int]
  PROVE  \E g : IsSum(g, s, 1..n) /\ SumSeq(s) = g[1..n]
<1>0. IsFiniteSet(1..n)
  BY FS_Interval
<1>1. PICK g : IsSum(g, s, 1..n)
  BY <1>0, SumExists
<1> DEFINE it == CHOOSE h : h = [u \in SUBSET (1..n) |-> IF u = {} THEN 0
                                 ELSE h[u \ {Max(u)}] + s[Max(u)]]
<1>2. \A u \in SUBSET (1..n) : u # {} => Max(u) \in u
  BY LastPosition
<1>3. g = [u \in SUBSET (1..n) |-> IF u = {} THEN 0 ELSE g[u \ {Max(u)}] + s[Max(u)]]
  <2>1. g \in [SUBSET (1..n) -> Int] /\ g[{}] = 0
    BY <1>1 DEF IsSum
  <2>2. ASSUME NEW u \in SUBSET (1..n), u # {}
        PROVE  g[u] = g[u \ {Max(u)}] + s[Max(u)]
    <3>1. Max(u) \in u
      BY <1>2, <2>2
    <3>2. g[u] = s[Max(u)] + g[u \ {Max(u)}]
      BY <1>1, <3>1 DEF IsSum
    <3>3. s[Max(u)] \in Int /\ g[u \ {Max(u)}] \in Int
      <4>1. u \ {Max(u)} \in SUBSET (1..n) /\ Max(u) \in 1..n
        BY <3>1
      <4> QED BY <2>1, <4>1
    <3> QED BY <3>2, <3>3
  <2> QED BY <2>1, <2>2
<1>4. it = [u \in SUBSET (1..n) |-> IF u = {} THEN 0 ELSE it[u \ {Max(u)}] + s[Max(u)]]
  BY <1>3, Zenon
<1>5. SumSeq(s) = it[1..n]
  <2>1. DOMAIN s = 1..n
    OBVIOUS
  <2> QED BY <2>1, Zenon DEF SumSeq, FoldLeft, MapThenFoldSet
<1> HIDE DEF it
<1>6. \A u \in SUBSET (1..n) : it[u] = IF u = {} THEN 0 ELSE it[u \ {Max(u)}] + s[Max(u)]
  BY <1>4, Zenon
<1>7. it[{}] = 0
  <2>1. {} \in SUBSET (1..n)
    OBVIOUS
  <2> QED BY <1>6, <2>1, Zenon
<1>8. it[1..n] = g[1..n]
  <2> DEFINE T == {k \in 0..n : it[1..k] = g[1..k]}
  <2>1. 0 \in T
    <3>1. 1..0 = {}
      OBVIOUS
    <3> QED BY <1>1, <1>7, <3>1 DEF IsSum
  <2>2. ASSUME NEW k \in 1..n, k - 1 \in T PROVE k \in T
    <3>0. k \in Nat \ {0}
      OBVIOUS
    <3>1. 1..k # {} /\ Max(1..k) = k /\ (1..k) \ {k} = 1..(k - 1)
      BY <3>0, PrefixLast
    <3>2. 1..k \in SUBSET (1..n) /\ k \in 1..k /\ 1..(k - 1) \in SUBSET (1..n)
      OBVIOUS
    <3>3. it[1..k] = it[(1..k) \ {Max(1..k)}] + s[Max(1..k)]
      BY <1>6, <3>1, <3>2, Zenon
    <3>4. it[1..k] = it[1..(k - 1)] + s[k]
      BY <3>1, <3>3
    <3>5. g[1..k] = s[k] + g[1..(k - 1)]
      <4>1. g[1..k] = s[k] + g[(1..k) \ {k}]
        BY <1>1, <3>2 DEF IsSum
      <4> QED BY <3>1, <4>1
    <3>6. it[1..(k - 1)] = g[1..(k - 1)] /\ g[1..(k - 1)] \in Int
      BY <1>1, <2>2, <3>2 DEF IsSum
    <3>7. it[1..k] = g[1..k]
      BY <3>4, <3>5, <3>6
    <3> QED BY <3>7
  <2>3. \A k \in 0..n : k \in T
    <3> HIDE DEF T
    <3> QED BY <2>1, <2>2, CountUp
  <2>4. n \in 0..n
    OBVIOUS
  <2> QED BY <2>3, <2>4
<1> QED BY <1>1, <1>5, <1>8

LEMMA SumIsNatural ==
  ASSUME NEW n \in Nat, NEW s \in [1..n -> Nat]
  PROVE  SumSeq(s) \in Nat
<1>0. IsFiniteSet(1..n) /\ s \in [1..n -> Int] /\ 1..n \in SUBSET (1..n)
  BY FS_Interval
<1>1. PICK g : IsSum(g, s, 1..n) /\ SumSeq(s) = g[1..n]
  BY <1>0, SumSeqIsSum
<1>2. \A u \in SUBSET (1..n) : g[u] \in Nat
  BY <1>0, <1>1, SumOfNaturals
<1> QED BY <1>0, <1>1, <1>2

-----------------------------------------------------------------------------
(***************************************************************************)
(* The estimates of a parsed request.                                      *)
(***************************************************************************)
LEMMA PositiveField ==
  ASSUME NEW v, IsField(v), NEW default \in 1..IntMax
  PROVE  PositiveOr(v, default) \in 1..IntMax
BY WordSize DEF IsField, PositiveOr, Word

LEMMA DefaultsPositive ==
  /\ DefaultMaxCompletionTokens \in 1..IntMax /\ DefaultMaxAudioSeconds \in 1..IntMax
  /\ DefaultN \in 1..IntMax /\ DefaultSteps \in 1..IntMax
BY WordSize

LEMMA ContentCounted ==
  ASSUME NEW v, IsContent(v)
  PROVE  messageContentString(v) \in Nat
<1>1. CASE v.kind # "parts"
  BY <1>1 DEF IsContent, messageContentString
<1>2. CASE v.kind = "parts"
  <2> DEFINE parts == v.parts
             s == [i \in DOMAIN parts |->
                     IF parts[i].text = Absent THEN parts[i].json ELSE parts[i].text]
  <2>1. /\ Len(parts) \in Nat /\ DOMAIN parts = 1..Len(parts)
        /\ \A i \in DOMAIN parts :
             (parts[i].text = Absent \/ parts[i].text \in Nat) /\ parts[i].json \in Nat
    BY <1>2 DEF IsContent, IsList
  <2>2. s \in [1..Len(parts) -> Nat]
    <3>1. \A i \in DOMAIN parts :
            (IF parts[i].text = Absent THEN parts[i].json ELSE parts[i].text) \in Nat
      BY <2>1
    <3> HIDE DEF parts
    <3> QED BY <2>1, <3>1
  <2>3. SumSeq(s) \in Nat
    <3> HIDE DEF s, parts
    <3> QED BY <2>1, <2>2, SumIsNatural
  <2>4. messageContentString(v) = SumSeq(s)
    BY <1>2, Zenon DEF messageContentString
  <2> QED BY <2>3, <2>4
<1> QED BY <1>1, <1>2

\* The estimate of a chat request is a sum of naturals, cut to a word.
LEMMA ChatCounted ==
  ASSUME NEW r, r.cap = "chat", IsParsed(r)
  PROVE  \E k \in Nat : chatEstimate(r) = Units(Wrap(k))
<1> DEFINE ms == r.messages
           s == [i \in DOMAIN ms |-> ms[i].role + messageContentString(ms[i].content)]
           out == PositiveOr(r.max_tokens, DefaultMaxCompletionTokens)
<1>1. /\ Len(ms) \in Nat /\ DOMAIN ms = 1..Len(ms) /\ IsField(r.max_tokens)
      /\ \A i \in DOMAIN ms : ms[i].role \in Nat /\ IsContent(ms[i].content)
  BY DEF IsParsed, IsList
<1>2. ASSUME NEW i \in DOMAIN ms
      PROVE  ms[i].role + messageContentString(ms[i].content) \in Nat
  <2>1. ms[i].role \in Nat /\ IsContent(ms[i].content)
    BY <1>1
  <2>2. messageContentString(ms[i].content) \in Nat
    BY <2>1, ContentCounted
  <2> QED BY <2>1, <2>2
<1>3. s \in [1..Len(ms) -> Nat]
  <2> HIDE DEF ms
  <2> QED BY <1>1, <1>2
<1>4. SumSeq(s) \in Nat
  <2> HIDE DEF s, ms
  <2> QED BY <1>1, <1>3, SumIsNatural
<1>5. out \in 1..IntMax
  <2> HIDE DEF ms
  <2> QED BY <1>1, DefaultsPositive, PositiveField
<1>6. chatEstimate(r) = Units(Wrap(SumSeq(s) + out))
  BY Zenon DEF chatEstimate
<1>7. SumSeq(s) + out \in Nat
  <2> HIDE DEF s, out
  <2> QED BY <1>4, <1>5
<1> QED BY <1>6, <1>7

LEMMA EmbeddingsCounted ==
  ASSUME NEW v, IsInput(v)
  PROVE  countTokens(v) \in Nat
<1>1. CASE v.kind = "list"
  <2> DEFINE s == [i \in DOMAIN v.items |-> IF v.items[i] = Absent THEN 1 ELSE v.items[i]]
  <2>1. /\ Len(v.items) \in Nat /\ DOMAIN v.items = 1..Len(v.items)
        /\ \A i \in DOMAIN v.items : v.items[i] = Absent \/ v.items[i] \in Nat
    BY <1>1 DEF IsInput, IsList
  <2>2. s \in [1..Len(v.items) -> Nat]
    BY <2>1
  <2>3. SumSeq(s) \in Nat
    <3> HIDE DEF s
    <3> QED BY <2>1, <2>2, SumIsNatural
  <2>4. countTokens(v) = SumSeq(s)
    BY <1>1, Zenon DEF countTokens
  <2> QED BY <2>3, <2>4
<1>2. CASE v.kind # "list"
  BY <1>2 DEF countTokens, IsInput
<1> QED BY <1>1, <1>2

\* The fields of an image request, of whichever of the two modules.
IsImage(r) == IsField(r.n) /\ IsField(r.steps) /\ IsSize(r.size)

\* The pixels times steps that r asks for, exactly.
PixelsOf(r) ==
  PositiveOr(r.n, DefaultN) * PositiveOr(r.steps, DefaultSteps)
    * parseSize(r.size)[1] * parseSize(r.size)[2]

LEMMA ProductType ==
  ASSUME NEW a \in Nat, NEW b \in Nat, NEW c \in Nat, NEW d \in Nat
  PROVE  a * b * c * d \in Nat
OBVIOUS

LEMMA QuoIsWord ==
  ASSUME NEW x \in Word, NEW y \in Nat \ {0}
  PROVE  Quo(x, y) \in Word
<1>1. CASE x >= 0
  <2>1. x \in Nat
    BY <1>1, WordSize DEF Word
  <2>2. x \div y \in Nat /\ x \div y <= x
    BY <2>1, Quotient
  <2> QED BY <1>1, <2>2, WordSize DEF Quo, Word
<1>2. CASE ~(x >= 0)
  <2>1. -x \in Nat /\ -x <= IntMax + 1
    BY <1>2, WordSize DEF Word
  <2>2. (-x) \div y \in Nat /\ (-x) \div y <= -x
    BY <2>1, Quotient
  <2> QED BY <1>2, <2>1, <2>2, WordSize DEF Quo, Word
<1> QED BY <1>1, <1>2

\* An image estimate fails on a size without pixels; otherwise it is a word, and
\* if the product fits one, its quotient rounded up.
LEMMA ImageEstimate ==
  ASSUME NEW r, IsImage(r)
  PROVE  LET e == imagesEstimate(r)
             p == PixelsOf(r)
         IN  /\ p \in Nat
             /\ e = Failed \/ (e.failed = FALSE /\ e.units \in Word)
             /\ e # Failed /\ p + PixelsPerUnit - 1 <= IntMax =>
                  e.units = (p + PixelsPerUnit - 1) \div PixelsPerUnit
<1> DEFINE wh == parseSize(r.size)
           p == PixelsOf(r)
           w == Wrap(p)
           v == Wrap(w + PixelsPerUnit - 1)
<1>1. wh[1] \in Nat /\ wh[2] \in Nat
  BY WordSize DEF IsImage, IsSize, parseSize
<1>2. PositiveOr(r.n, DefaultN) \in 1..IntMax /\ PositiveOr(r.steps, DefaultSteps) \in 1..IntMax
  BY PositiveField, DefaultsPositive DEF IsImage
<1>3. p \in Nat
  <2>1. PositiveOr(r.n, DefaultN) \in Nat /\ PositiveOr(r.steps, DefaultSteps) \in Nat
    BY <1>2, WordSize
  <2> QED BY <1>1, <2>1, ProductType DEF PixelsOf
<1>4. w \in Word /\ (p <= IntMax => w = p)
  <2>1. p <= IntMax => p \in Word
    BY <1>3, WordSize DEF Word
  <2>2. Wrap(p) \in Word /\ (p \in Word => Wrap(p) = p)
    BY <1>3, WrapIsWord
  <2> QED BY <2>1, <2>2
<1>5. /\ PixelsPerUnit \in Nat \ {0}
      /\ imagesEstimate(r) = IF wh[1] <= 0 \/ wh[2] <= 0 THEN Failed
                             ELSE Units(Quo(v, PixelsPerUnit))
  BY WordSize, Zenon DEF imagesEstimate, PixelsOf
<1> HIDE DEF p, wh, w
<1>6. w + PixelsPerUnit - 1 \in Int
  BY <1>4, <1>5, WordSize DEF Word
<1>7. v \in Word /\ (w + PixelsPerUnit - 1 \in Word => v = w + PixelsPerUnit - 1)
  BY <1>6, WrapIsWord
<1>8. Quo(v, PixelsPerUnit) \in Word
  BY <1>5, <1>7, QuoIsWord
<1> HIDE DEF v
<1>9. ASSUME p + PixelsPerUnit - 1 <= IntMax
      PROVE  Quo(v, PixelsPerUnit) = (p + PixelsPerUnit - 1) \div PixelsPerUnit
  <2>1. p <= IntMax /\ p + PixelsPerUnit - 1 \in Word /\ p + PixelsPerUnit - 1 >= 0
    BY <1>3, <1>5, <1>9, WordSize DEF Word
  <2>2. v = p + PixelsPerUnit - 1
    BY <1>4, <1>7, <2>1
  <2> QED BY <2>1, <2>2 DEF Quo
<1>10. /\ imagesEstimate(r) = Failed \/ imagesEstimate(r) = Units(Quo(v, PixelsPerUnit))
       /\ Units(Quo(v, PixelsPerUnit)).failed = FALSE
       /\ Units(Quo(v, PixelsPerUnit)).units = Quo(v, PixelsPerUnit)
  BY <1>5 DEF Units
<1> DEFINE e == imagesEstimate(r)
<1> HIDE DEF e
<1>11. e = Failed \/ (e.failed = FALSE /\ e.units = Quo(v, PixelsPerUnit))
  BY <1>10 DEF e
<1>12. /\ e = Failed \/ (e.failed = FALSE /\ e.units \in Word)
       /\ e # Failed /\ p + PixelsPerUnit - 1 <= IntMax =>
            e.units = (p + PixelsPerUnit - 1) \div PixelsPerUnit
  BY <1>8, <1>9, <1>11
<1> QED BY <1>3, <1>12 DEF p, e

-----------------------------------------------------------------------------
(***************************************************************************)
(* Reading a form part by part finds what FormField picks.                 *)
(***************************************************************************)
Named(parts, name) == {i \in DOMAIN parts : parts[i][1] = name}
Reading(st, p, name) == IF ~st[1] /\ p[1] = name THEN <<TRUE, p[2]>> ELSE st

\* First, as a function of how many parts have been read.
LEMMA FirstStepwise ==
  ASSUME NEW parts, IsList(parts), NEW name
  PROVE  \E f : /\ f[0] = <<FALSE, Absent>>
                /\ \A k \in 1..Len(parts) : f[k] = Reading(f[k - 1], parts[k], name)
                /\ First(parts, name) = f[Len(parts)][2]
<1> DEFINE n == Len(parts)
           base == <<FALSE, Absent>>
           Vals == {Absent} \cup {parts[i][2] : i \in 1..n}
           V == BOOLEAN \X Vals
           step == [i \in 1..n |-> [st \in V |-> Reading(st, parts[i], name)]]
           it == CHOOSE h : h = [u \in SUBSET (1..n) |->
                                   IF u = {} THEN base
                                   ELSE IF ~h[u \ {Max(u)}][1] /\ parts[Max(u)][1] = name
                                        THEN <<TRUE, parts[Max(u)][2]>>
                                        ELSE h[u \ {Max(u)}]]
<1>0. n \in Nat /\ DOMAIN parts = 1..n
  BY DEF IsList
<1>1. base \in V
  OBVIOUS
<1>2. step \in [1..n -> [V -> V]]
  <2>1. ASSUME NEW i \in 1..n, NEW st \in V PROVE Reading(st, parts[i], name) \in V
    <3>1. <<TRUE, parts[i][2]>> \in V
      OBVIOUS
    <3> HIDE DEF V
    <3> QED BY <3>1 DEF Reading
  <2> HIDE DEF V, n
  <2> QED BY <2>1
<1>3. PICK g : IsFold(g, V, base, step, n)
  <2> HIDE DEF V, n, base, step
  <2> QED BY <1>0, <1>1, <1>2, FoldExists
<1>4. ASSUME NEW u \in SUBSET (1..n), u # {}
      PROVE  g[u] = Reading(g[u \ {Max(u)}], parts[Max(u)], name)
  <2>1. Max(u) \in 1..n /\ u \ {Max(u)} \in SUBSET (1..n)
    <3> HIDE DEF n
    <3>1. Max(u) \in u
      BY <1>0, <1>4, LastPosition
    <3> QED BY <3>1
  <2>2. g[u] = step[Max(u)][g[u \ {Max(u)}]]
    <3> HIDE DEF V, n, base, step
    <3> QED BY <1>3, <1>4 DEF IsFold
  <2>3. g[u \ {Max(u)}] \in V
    <3> HIDE DEF V, n, base, step
    <3> QED BY <1>3, <2>1 DEF IsFold
  <2> HIDE DEF V, n
  <2> QED BY <2>1, <2>2, <2>3
<1>5. g = [u \in SUBSET (1..n) |->
             IF u = {} THEN base
             ELSE IF ~g[u \ {Max(u)}][1] /\ parts[Max(u)][1] = name
                  THEN <<TRUE, parts[Max(u)][2]>>
                  ELSE g[u \ {Max(u)}]]
  <2>1. g \in [SUBSET (1..n) -> V] /\ g[{}] = base
    <3> HIDE DEF V, n, base, step
    <3> QED BY <1>3 DEF IsFold
  <2> HIDE DEF V, n, base, step
  <2> QED BY <1>4, <2>1 DEF Reading
<1>6. it = [u \in SUBSET (1..n) |->
              IF u = {} THEN base
              ELSE IF ~it[u \ {Max(u)}][1] /\ parts[Max(u)][1] = name
                   THEN <<TRUE, parts[Max(u)][2]>>
                   ELSE it[u \ {Max(u)}]]
  BY <1>5, Zenon
<1>7. First(parts, name) = it[1..n][2]
  <2>1. DOMAIN parts = 1..n
    BY <1>0
  <2> QED BY <2>1, Zenon DEF First, FoldLeft, MapThenFoldSet
<1> HIDE DEF it, n, base
<1>8. it[{}] = base
  <2>1. {} \in SUBSET (1..n)
    OBVIOUS
  <2> QED BY <1>6, <2>1, Zenon
<1>9. ASSUME NEW k \in 1..n
      PROVE  it[1..k] = Reading(it[1..(k - 1)], parts[k], name)
  <2>0. k \in Nat \ {0}
    BY <1>0
  <2>1. 1..k # {} /\ Max(1..k) = k /\ (1..k) \ {k} = 1..(k - 1)
    BY <2>0, PrefixLast
  <2>2. 1..k \in SUBSET (1..n)
    BY <1>0
  <2>3. it[1..k] = Reading(it[(1..k) \ {Max(1..k)}], parts[Max(1..k)], name)
    BY <1>6, <2>1, <2>2, Zenon DEF Reading
  <2> QED BY <2>1, <2>3
<1> DEFINE f == [k \in 0..n |-> it[1..k]]
<1>10. f[0] = base
  <2>1. 1..0 = {} /\ 0 \in 0..n
    BY <1>0
  <2> QED BY <1>8, <2>1
<1>11. \A k \in 1..n : f[k] = Reading(f[k - 1], parts[k], name)
  <2> TAKE k \in 1..n
  <2>1. k \in 0..n /\ k - 1 \in 0..n
    BY <1>0
  <2> QED BY <1>9, <2>1
<1>12. First(parts, name) = f[n][2]
  <2>1. n \in 0..n
    BY <1>0
  <2> QED BY <1>7, <2>1
<1> HIDE DEF f
<1> QED BY <1>10, <1>11, <1>12 DEF n, base

\* The state of the reading after k parts.
LEMMA FirstFound ==
  ASSUME NEW parts, IsList(parts), NEW name
  PROVE  \/ Named(parts, name) = {} /\ First(parts, name) = Absent
         \/ \E i \in Named(parts, name) :
              (\A j \in Named(parts, name) : i <= j) /\ First(parts, name) = parts[i][2]
<1> DEFINE n == Len(parts)
           Hit(k) == {i \in 1..k : parts[i][1] = name}
           Nothing(k) == Hit(k) = {}
           Least(k, i) == i \in Hit(k) /\ \A j \in Hit(k) : i <= j
<1>0. n \in Nat /\ DOMAIN parts = 1..n /\ Named(parts, name) = Hit(n)
  BY DEF IsList, Named
<1>1. PICK f : /\ f[0] = <<FALSE, Absent>>
               /\ \A k \in 1..n : f[k] = Reading(f[k - 1], parts[k], name)
               /\ First(parts, name) = f[n][2]
  BY FirstStepwise
<1> DEFINE T == {k \in 0..n : \/ Nothing(k) /\ f[k] = <<FALSE, Absent>>
                              \/ \E i \in 1..k : Least(k, i) /\ f[k] = <<TRUE, parts[i][2]>>}
<1> HIDE DEF n
<1>2. 0 \in T
  <2>1. Hit(0) = {} /\ 0 \in 0..n
    BY <1>0
  <2> QED BY <1>1, <2>1
<1>3. ASSUME NEW k \in 1..n, k - 1 \in T PROVE k \in T
  <2>0. k \in 0..n /\ f[k] = Reading(f[k - 1], parts[k], name)
    BY <1>0, <1>1
  <2>1. CASE parts[k][1] = name /\ Nothing(k - 1) /\ f[k - 1] = <<FALSE, Absent>>
    <3>1. f[k] = <<TRUE, parts[k][2]>>
      <4>1. <<FALSE, Absent>>[1] = FALSE
        OBVIOUS
      <4>2. ~f[k - 1][1]
        BY <2>1, <4>1, Zenon
      <4> QED BY <2>0, <2>1, <4>2, Zenon DEF Reading
    <3>2. Hit(k) = {k}
      <4>1. \A i \in 1..k : i = k \/ i \in 1..(k - 1)
        BY <1>0
      <4> QED BY <1>0, <2>1, <4>1
    <3>3. k \in 1..k /\ Least(k, k)
      BY <1>0, <3>2
    <3> HIDE DEF Least, Nothing
    <3> QED BY <2>0, <3>1, <3>3
  <2>2. CASE parts[k][1] # name /\ Nothing(k - 1) /\ f[k - 1] = <<FALSE, Absent>>
    <3>1. f[k] = <<FALSE, Absent>>
      BY <2>0, <2>2 DEF Reading
    <3>2. Nothing(k)
      <4>1. \A i \in 1..k : i = k \/ i \in 1..(k - 1)
        BY <1>0
      <4> QED BY <1>0, <2>2, <4>1
    <3> HIDE DEF Least, Nothing
    <3> QED BY <2>0, <3>1, <3>2
  <2>3. ASSUME NEW i \in 1..(k - 1), Least(k - 1, i), f[k - 1] = <<TRUE, parts[i][2]>>
        PROVE  k \in T
    <3>1. f[k] = <<TRUE, parts[i][2]>>
      <4>1. <<TRUE, parts[i][2]>>[1] = TRUE
        OBVIOUS
      <4>2. f[k - 1][1]
        BY <2>3, <4>1, Zenon
      <4> QED BY <2>0, <2>3, <4>2, Zenon DEF Reading
    <3>2. i \in 1..k /\ Least(k, i)
      <4>1. i \in Hit(k - 1) /\ \A j \in Hit(k - 1) : i <= j
        BY <2>3
      <4>2. i \in Hit(k) /\ i <= k
        BY <1>0, <4>1
      <4>3. \A j \in Hit(k) : j \in Hit(k - 1) \/ j = k
        BY <1>0
      <4> HIDE DEF Hit
      <4> QED BY <1>0, <4>1, <4>2, <4>3
    <3> HIDE DEF Least, Nothing
    <3> QED BY <2>0, <3>1, <3>2
  <2> HIDE DEF Least, Nothing
  <2> QED BY <1>3, <2>1, <2>2, <2>3
<1>4. \A k \in 0..n : k \in T
  <2> HIDE DEF T
  <2> QED BY <1>0, <1>2, <1>3, CountUp
<1>5. n \in T
  <2>1. n \in 0..n
    BY <1>0
  <2> HIDE DEF T
  <2> QED BY <1>4, <2>1
<1>6. CASE Nothing(n) /\ f[n] = <<FALSE, Absent>>
  <2>1. Named(parts, name) = {} /\ f[n][2] = Absent
    BY <1>0, <1>6
  <2> QED BY <1>1, <2>1
<1>7. ASSUME NEW i \in 1..n, Least(n, i), f[n] = <<TRUE, parts[i][2]>>
      PROVE  \E h \in Named(parts, name) :
               (\A j \in Named(parts, name) : h <= j) /\ First(parts, name) = parts[h][2]
  <2>1. i \in Named(parts, name) /\ (\A j \in Named(parts, name) : i <= j)
    BY <1>0, <1>7
  <2>2. First(parts, name) = parts[i][2]
    BY <1>1, <1>7
  <2> QED BY <2>1, <2>2
<1> HIDE DEF Least, Nothing
<1> QED BY <1>5, <1>6, <1>7

\* On a body whose boundary was found the two agree.
LEMMA FormValueIsFirst ==
  ASSUME NEW r, IsList(r.parts), BoundaryFromBody(r), NEW name
  PROVE  FormValue(r, name) = First(r.parts, name)
<1> DEFINE hits == Named(r.parts, name)
<1>1. CASE hits = {}
  BY <1>1, FirstFound DEF FormValue, FormField, Named
<1>2. CASE hits # {}
  <2>1. PICK i \in hits : (\A j \in hits : i <= j) /\ First(r.parts, name) = r.parts[i][2]
    BY <1>2, FirstFound
  <2> DEFINE m == CHOOSE h \in hits : \A j \in hits : h <= j
  <2>2. m \in hits /\ \A j \in hits : m <= j
    <3> HIDE DEF hits
    <3> QED BY <2>1
  <2>3. i \in Int /\ m \in Int
    BY <2>2 DEF Named, IsList
  <2>4. m = i
    <3> HIDE DEF m, hits
    <3> QED BY <2>1, <2>2, <2>3
  <2>5. FormField(r, name) = [ok |-> TRUE, err |-> FALSE, value |-> r.parts[m][2]]
    BY <1>2 DEF FormField, Named
  <2> HIDE DEF m
  <2>6. FormValue(r, name) = r.parts[m][2]
    BY <2>5 DEF FormValue
  <2> QED BY <2>1, <2>4, <2>6
<1> QED BY <1>1, <1>2

-----------------------------------------------------------------------------
(***************************************************************************)
(* The estimate of the request at hand.                                    *)
(***************************************************************************)
Parsed == req \in Requests /\ ceil \in AudioCeils /\ modelOf(req) # Absent

\* The request whose pixels are estimated: a JSON body, or the fields of a form.
ImageOf(r) == IF r.cap = "images" THEN r
              ELSE [n |-> FormValue(r, "n"), steps |-> FormValue(r, "steps"),
                    size |-> FormValue(r, "size")]

LEMMA FormHasBoundary ==
  ASSUME NEW r, r.cap = "edits", modelOf(r) # Absent
  PROVE  BoundaryFromBody(r)
<1>1. modelOf(r) = formModel(r)
  BY DEF modelOf, editsModel
<1>2. ~BoundaryFromBody(r) => FormField(r, "model").err
  BY DEF FormField
<1> QED BY <1>1, <1>2 DEF formModel

LEMMA FormFields ==
  ASSUME NEW r, r.cap = "edits", modelOf(r) # Absent, IsParsed(r)
  PROVE  /\ IsImage(ImageOf(r))
         /\ ImageOf(r) = [n |-> First(r.parts, "n"), steps |-> First(r.parts, "steps"),
                          size |-> First(r.parts, "size")]
<1>1. IsList(r.parts) /\ \A i \in DOMAIN r.parts : IsPart(r.parts[i])
  BY DEF IsParsed
<1>2. ASSUME NEW name
      PROVE  /\ FormValue(r, name) = First(r.parts, name)
             /\ \/ First(r.parts, name) = Absent
                \/ \E i \in DOMAIN r.parts :
                     r.parts[i][1] = name /\ First(r.parts, name) = r.parts[i][2]
  BY <1>1, FormHasBoundary, FormValueIsFirst, FirstFound DEF Named
<1>3. IsField(First(r.parts, "n")) /\ IsField(First(r.parts, "steps"))
  BY <1>1, <1>2 DEF IsPart, IsField
<1>4. IsSize(First(r.parts, "size"))
  BY <1>1, <1>2 DEF IsPart, IsSize
<1>5. ImageOf(r) = [n |-> First(r.parts, "n"), steps |-> First(r.parts, "steps"),
                    size |-> First(r.parts, "size")]
  BY <1>2 DEF ImageOf
<1> QED BY <1>3, <1>4, <1>5 DEF IsImage

LEMMA ImageAtHand ==
  ASSUME Parsed, req.cap \in {"images", "edits"}
  PROVE  /\ Estimated = imagesEstimate(ImageOf(req))
         /\ IsImage(ImageOf(req))
         /\ Pixels = PixelsOf(ImageOf(req))
<1>0. IsParsed(req)
  BY RequestsParsed DEF Parsed
<1>1. CASE req.cap = "images"
  BY <1>0, <1>1 DEF Estimated, ImageOf, IsParsed, IsImage, Pixels, PixelsOf, ImageFields
<1>2. CASE req.cap = "edits"
  <2>1. /\ IsImage(ImageOf(req))
        /\ ImageOf(req) = [n |-> First(req.parts, "n"), steps |-> First(req.parts, "steps"),
                           size |-> First(req.parts, "size")]
    BY <1>0, <1>2, FormFields DEF Parsed
  <2>2. ImageFields = ImageOf(req)
    BY <1>2, <2>1 DEF ImageFields
  <2>3. Pixels = PixelsOf(ImageOf(req))
    BY <2>2, Zenon DEF Pixels, PixelsOf
  <2>4. Estimated = editsEstimate(req)
    BY <1>2 DEF Estimated
  <2>5. editsEstimate(req) = imagesEstimate(ImageOf(req))
    BY <1>2 DEF editsEstimate, ImageOf
  <2> QED BY <2>1, <2>3, <2>4, <2>5
<1> QED BY <1>1, <1>2

\* An estimate that is made is a machine word.
LEMMA EstimateIsWord ==
  ASSUME Parsed, ~Estimated.failed
  PROVE  Estimated.units \in Word
<1>0. IsParsed(req) /\ ceil \in Word
      /\ req.cap \in {"chat", "embeddings", "images", "edits", "speech", "transcriptions"}
  BY RequestsParsed, ServeBounds DEF Parsed
<1>1. CASE req.cap = "chat"
  <2>1. PICK k \in Nat : Estimated = Units(Wrap(k))
    BY <1>0, <1>1, ChatCounted DEF Estimated
  <2> QED BY <2>1, WrapIsWord DEF Units
<1>2. CASE req.cap = "embeddings"
  <2>1. Estimated = Units(Wrap(countTokens(req.input))) /\ countTokens(req.input) \in Int
    BY <1>0, <1>2, EmbeddingsCounted DEF Estimated, embeddingsEstimate, IsParsed
  <2> QED BY <2>1, WrapIsWord DEF Units
<1>3. CASE req.cap \in {"images", "edits"}
  <2>1. Estimated = imagesEstimate(ImageOf(req)) /\ IsImage(ImageOf(req))
    BY <1>3, ImageAtHand
  <2>2. Estimated = Failed \/ Estimated.units \in Word
    BY <2>1, ImageEstimate
  <2> QED BY <2>2 DEF Failed
<1>4. CASE req.cap = "speech"
  BY <1>0, <1>4, WordSize DEF Estimated, speechEstimate, Units, IsParsed, Word
<1>5. CASE req.cap = "transcriptions"
  BY <1>0, <1>5, WordSize DEF Estimated, transcriptionsEstimate, Units, Word
<1> QED BY <1>0, <1>1, <1>2, <1>3, <1>4, <1>5

\* The estimate reserved is that of the request served.
EstimateKept ==
  /\ req \in Requests /\ ceil \in AudioCeils
  /\ pc \notin {"extract", "refused"} => modelOf(req) # Absent
  /\ pc \in {"extract", "estimate", "refused"} => est = 0
  /\ pc \notin {"extract", "estimate", "refused"} => ~Estimated.failed /\ est = Estimated.units

LEMMA EstimateStep == ServeInv /\ EstimateKept /\ [Next]_vars => EstimateKept'
<1> SUFFICES ASSUME ServeInv, EstimateKept, [Next]_vars PROVE EstimateKept' OBVIOUS
<1> USE DEF EstimateKept, Goto
<1>0. req' = req /\ ceil' = ceil
  BY DEF Next, ExtractModel, EstimateWorkUnits, CheckContentType, BackendFails, chatServeJSON,
         embeddingsServe, imagesServe, editsServe, transcriptionsServe, BufferedAnswer,
         chatServeStream, speechServe, StreamOpens, CopyLine, ClientGone, StreamBreaks, StreamEnds,
         Finish, vars
<1>1. Estimated' = Estimated /\ modelOf(req)' = modelOf(req)
  BY <1>0, Zenon DEF Estimated, modelOf
<1>2. CASE ExtractModel
  BY <1>0, <1>1, <1>2 DEF ExtractModel
<1>3. CASE EstimateWorkUnits
  BY <1>0, <1>1, <1>3 DEF EstimateWorkUnits
<1>4. CASE ~ExtractModel /\ ~EstimateWorkUnits /\ ~UNCHANGED vars
  <2>1. est' = est /\ pc \in {"serve", "call", "copy"} /\ pc' \in {"call", "copy", "returned"}
    BY <1>4
    DEF Next, CheckContentType, BackendFails, chatServeJSON, embeddingsServe, imagesServe,
        editsServe, transcriptionsServe, BufferedAnswer, chatServeStream, speechServe,
        StreamOpens, CopyLine, ClientGone, StreamBreaks, StreamEnds, Finish
  <2> QED BY <1>0, <1>1, <2>1
<1>5. CASE UNCHANGED vars
  BY <1>0, <1>1, <1>5 DEF vars
<1> QED BY <1>2, <1>3, <1>4, <1>5

THEOREM EstimateIsKept == Spec => []EstimateKept
<1>1. Init => EstimateKept
  BY DEF Init, EstimateKept
<1> QED BY <1>1, EstimateStep, ServeInvariant, PTL DEF Spec

\* The quotient rounded up is the least number of units that covers p.
LEMMA RoundedUp ==
  ASSUME NEW p \in Nat, NEW y \in Nat \ {0}, NEW q, q = (p + y - 1) \div y
  PROVE  q * y >= p /\ (q - 1) * y < p
<1>1. p + y - 1 \in Nat
  OBVIOUS
<1>2. q \in Nat /\ y * q <= p + y - 1 /\ p + y - 1 < y * q + y
  BY <1>1, Quotient
<1>3. q * y = y * q /\ (q - 1) * y = y * q - y
  BY <1>2
<1>4. y * q \in Nat
  BY <1>2
<1> QED BY <1>2, <1>3, <1>4

\* As long as the product fits a machine word, the image estimate is the least
\* number of units that covers every pixel-step asked for, of a JSON body and of
\* a form alike.
THEOREM ImageEstimateRoundsUp == Spec => []ImageEstimateIsCeiling
<1>1. ServeInv /\ EstimateKept => ImageEstimateIsCeiling
  <2> SUFFICES ASSUME ServeInv, EstimateKept, ImageEstimated,
                      Pixels + PixelsPerUnit - 1 <= IntMax
               PROVE  est * PixelsPerUnit >= Pixels /\ (est - 1) * PixelsPerUnit < Pixels
    BY DEF ImageEstimateIsCeiling
  <2>1. Parsed /\ ~Estimated.failed /\ est = Estimated.units /\ req.cap \in {"images", "edits"}
    BY DEF EstimateKept, ImageEstimated, Parsed
  <2>2. /\ Estimated = imagesEstimate(ImageOf(req)) /\ IsImage(ImageOf(req))
        /\ Pixels = PixelsOf(ImageOf(req))
    BY <2>1, ImageAtHand
  <2>3. /\ Pixels \in Nat
        /\ Estimated # Failed =>
             Estimated.units = (Pixels + PixelsPerUnit - 1) \div PixelsPerUnit
    BY <2>2, ImageEstimate
  <2>4. est = (Pixels + PixelsPerUnit - 1) \div PixelsPerUnit
    BY <2>1, <2>3 DEF Failed
  <2>5. PixelsPerUnit \in Nat \ {0}
    BY WordSize
  <2> QED BY <2>3, <2>4, <2>5, RoundedUp
<1> QED BY <1>1, ServeInvariant, EstimateIsKept, PTL

-----------------------------------------------------------------------------
LEMMA UnitsTyped ==
  ASSUME NEW v \in Lines
  PROVE  /\ usageToUnits(v) \in Usages \cup {0}
         /\ durationFromResponse(v) \in {0} \cup {durationFromResponse(d) : d \in Usages}
BY DEF Lines, usageToUnits, durationFromResponse

UnitsType == Usages \cup {0} \cup {durationFromResponse(d) : d \in Usages}

RestTyped ==
  /\ Len(source) <= MaxLines /\ failed \in BOOLEAN /\ units \in UnitsType
  /\ errClass \in {"none", "timeout", "malformed", "connect", "5xx"}
  /\ lastSuccess \in BackendStatuses \cup {0}

LEMMA RestStep == ServeInv /\ RestTyped /\ [Next]_vars => RestTyped'
<1> SUFFICES ASSUME ServeInv, RestTyped, [Next]_vars PROVE RestTyped' OBVIOUS
<1> USE DEF RestTyped, Goto, streamVars, metricVars
<1>0. UnitsType' = UnitsType /\ 0 \in UnitsType
  BY DEF UnitsType
<1>1. CASE ExtractModel \/ EstimateWorkUnits \/ CheckContentType
  <2>1. CASE ExtractModel BY <1>0, <2>1 DEF ExtractModel
  <2>2. CASE EstimateWorkUnits
    <3>1. UNCHANGED <<source, failed, units, errClass, lastSuccess>>
      BY <2>2 DEF EstimateWorkUnits
    <3> QED BY <1>0, <3>1
  <2>3. CASE CheckContentType
    <3>1. UNCHANGED <<source, units, errClass, lastSuccess>> /\ failed' \in {TRUE, failed}
      BY <2>3 DEF CheckContentType
    <3> QED BY <1>0, <3>1
  <2> QED BY <1>1, <2>1, <2>2, <2>3
<1>2. CASE BackendFails
  BY <1>0, <1>2 DEF BackendFails, recordError, classifyTransportError
<1>3. ASSUME NEW unitsOf, BufferedAnswer(unitsOf), \A v \in Lines : unitsOf[v] \in UnitsType
      PROVE  RestTyped'
  BY <1>0, <1>3 DEF BufferedAnswer, recordOutcome
<1>4. CASE chatServeJSON \/ embeddingsServe
  <2>1. \A v \in Lines : UsageUnits[v] \in UnitsType
    BY UnitsTyped DEF UsageUnits, UnitsType
  <2> QED BY <1>3, <1>4, <2>1 DEF chatServeJSON, embeddingsServe
<1>5. CASE imagesServe \/ editsServe
  <2>1. \A v \in Lines : NoUnits[v] \in UnitsType
    BY <1>0 DEF NoUnits
  <2> QED BY <1>3, <1>5, <2>1 DEF imagesServe, editsServe
<1>6. CASE transcriptionsServe
  <2>1. \A v \in Lines : Durations[v] \in UnitsType
    BY UnitsTyped DEF Durations, UnitsType
  <2> QED BY <1>3, <1>6, <2>1 DEF transcriptionsServe
<1>7. CASE chatServeStream \/ speechServe
  BY <1>0, <1>7 DEF chatServeStream, speechServe, StreamOpens, recordOutcome
<1>8. ASSUME NEW l \in Lines
      PROVE  Len(source) < MaxLines => Len(Append(source, l)) <= MaxLines
  BY AppendProperties, LenProperties, ServeBounds DEF ServeInv, ServeTypes
<1>9. CASE \E l \in Lines : CopyLine(l)
  BY <1>0, <1>8, <1>9 DEF CopyLine
<1>10. ASSUME NEW err \in BOOLEAN, Finish(err) PROVE failed' \in BOOLEAN /\ units' \in UnitsType
  <2>1. usageToUnits(lastUsage) \in UnitsType
    BY UnitsTyped DEF ServeInv, ServeTypes, UnitsType
  <2> QED BY <1>0, <1>10, <2>1 DEF Finish
<1>11. CASE \E l \in Lines : ClientGone(l)
  BY <1>0, <1>8, <1>10, <1>11 DEF ClientGone
<1>12. CASE StreamBreaks \/ StreamEnds
  <2>1. CASE StreamBreaks BY <1>0, <1>10, <2>1 DEF StreamBreaks
  <2>2. CASE StreamEnds BY <1>0, <1>10, <2>2 DEF StreamEnds
  <2> QED BY <1>12, <2>1, <2>2
<1>13. CASE UNCHANGED vars
  BY <1>0, <1>13 DEF vars
<1> QED
  BY <1>1, <1>2, <1>4, <1>5, <1>6, <1>7, <1>9, <1>11, <1>12, <1>13 DEF Next

\* Type correctness, the machine word of every estimate included.
THEOREM ServeTypeCorrect == Spec => []TypeOK
<1>1. Init => RestTyped
  <2>1. Len(<< >>) = 0 /\ 0 <= MaxLines
    BY ServeBounds
  <2> QED BY <2>1 DEF Init, RestTyped, UnitsType
<1>2. ServeInv /\ EstimateKept /\ RestTyped => TypeOK
  <2> SUFFICES ASSUME ServeInv, EstimateKept, RestTyped PROVE TypeOK OBVIOUS
  <2>1. est \in Word
    <3>1. 0 \in Word
      BY WordSize DEF Word
    <3> QED BY <3>1, EstimateIsWord DEF EstimateKept, Parsed
  <2>2. /\ status \in BackendStatuses \cup {0, 400, 502}
        /\ origin \in {"none", "refused", "unreachable", "backend"}
        /\ okCalls \in 0..1 /\ errCalls \in 0..1
    BY DEF ServeInv, ServeTypes, Untouched, Copying, Returned, Refused, NoAnswer, Buffered,
           Streamed, AnswerCounted, NothingCounted, BeforeCall
  <2> QED
    BY <2>1, <2>2 DEF TypeOK, ServeInv, ServeTypes, EstimateKept, RestTyped, UnitsType, BeforeCall
<1> QED BY <1>1, <1>2, RestStep, ServeInvariant, EstimateIsKept, PTL DEF Spec
=============================================================================
