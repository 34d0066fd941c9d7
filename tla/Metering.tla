------------------------------ MODULE Metering ------------------------------
(***************************************************************************)
(* How the six capability modules (internal/service/modules) turn a parsed *)
(* request into the work units that are debited before any work is done,   *)
(* and a backend answer into the units used.                               *)
(*                                                                         *)
(* Go's int and int64 are modelled as two's complement words in            *)
(* -(IntMax+1)..IntMax, so products wrap as they do in the build.  The     *)
(* parameters 1_000_000, 2048, 3600 and the image defaults are constants,  *)
(* to be scaled with IntMax.  A text is the number of tokens or runes that *)
(* its tokenizer counts in it.                                             *)
(***************************************************************************)
EXTENDS Integers, Sequences, SequencesExt

CONSTANTS
  IntMax,                      \* largest int64
  PixelsPerUnit,               \* 1_000_000
  DefaultMaxCompletionTokens,  \* 2048
  DefaultMaxAudioSeconds,      \* 3600
  DefaultN, DefaultSteps, DefaultSize,  \* 1, 30 and <<1024, 1024>>
  Absent                       \* an optional field that is missing, null or
                               \* (in a form) not an integer

ASSUME WordSize ==
  /\ IntMax \in Nat /\ PixelsPerUnit \in Nat \ {0}
  /\ {DefaultMaxCompletionTokens, DefaultMaxAudioSeconds, DefaultN, DefaultSteps} \subseteq 1..IntMax
  /\ DefaultSize \in (1..IntMax) \X (1..IntMax)

-----------------------------------------------------------------------------
\* The value a machine word keeps of x.
Wrap(x) == ((x + IntMax + 1) % (2 * (IntMax + 1))) - (IntMax + 1)

\* Go's integer division truncates towards zero.
Quo(x, y) == IF x >= 0 THEN x \div y ELSE -((-x) \div y)

\* The idiom "p != nil && *p > 0".
PositiveOr(v, default) == IF v = Absent THEN default ELSE IF v > 0 THEN v ELSE default

SumSeq(s) == FoldLeft(LAMBDA x, y : x + y, 0, s)

-----------------------------------------------------------------------------
(***************************************************************************)
(* ExtractModel: the first reading of the body, before any payment.        *)
(* Absent stands for a returned error.                                     *)
(***************************************************************************)

NoText == ""     \* the empty string

\* The check of the JSON modules, of which each has its own copy: r.json tells
\* whether the body decodes.
jsonModel(r) == IF ~r.json \/ r.model = NoText THEN Absent ELSE r.model

chatModel(r)       == jsonModel(r)
embeddingsModel(r) == jsonModel(r)
imagesModel(r)     == jsonModel(r)
speechModel(r)     == jsonModel(r)

\* The boundary of a form is its first line without the leading dashes:
\* r.first is "boundary", or says what is wrong with that line.
BoundaryFromBody(r) == r.first = "boundary"

\* Mutated form: the last part with the name counts.
FormField_LastWins(r, name) ==
  LET hits == {i \in DOMAIN r.parts : r.parts[i][1] = name} IN
  IF ~BoundaryFromBody(r) \/ hits = {}
    THEN [ok |-> FALSE, err |-> ~BoundaryFromBody(r) \/ r.broken, value |-> Absent]
    ELSE [ok |-> TRUE, err |-> FALSE, value |-> r.parts[CHOOSE i \in hits : \A j \in hits : j <= i][2]]

\* The first part with the name.  r.parts holds the parts, as <<name, value>>, up
\* to the end of the body or, when r.broken, to the first that cannot be read.
FormField(r, name) ==
  LET hits == {i \in DOMAIN r.parts : r.parts[i][1] = name} IN
  IF ~BoundaryFromBody(r) \/ hits = {}
    THEN [ok |-> FALSE, err |-> ~BoundaryFromBody(r) \/ r.broken, value |-> Absent]
    ELSE [ok |-> TRUE, err |-> FALSE, value |-> r.parts[CHOOSE i \in hits : \A j \in hits : i <= j][2]]

\* The check of the multipart modules.
formModel(r) ==
  LET f == FormField(r, "model") IN IF f.err \/ ~f.ok \/ f.value = NoText THEN Absent ELSE f.value

editsModel(r)          == formModel(r)
transcriptionsModel(r) == formModel(r)

-----------------------------------------------------------------------------
(***************************************************************************)
(* EstimateWorkUnits of each module.  Failed stands for a returned error.  *)
(***************************************************************************)
Failed == [failed |-> TRUE, units |-> 0]
Units(u) == [failed |-> FALSE, units |-> u]

\* The tokens of what a message's content is flattened to: a string as it is, of
\* an array the text of each part or else its JSON, each followed by a blank, and
\* anything else as JSON.  Blank-separated pieces count for their sum.
messageContentString(v) ==
  IF v.kind = "parts"
    THEN SumSeq([i \in DOMAIN v.parts |->
                   IF v.parts[i].text = Absent THEN v.parts[i].json ELSE v.parts[i].text])
    ELSE v.tokens

\* r.messages holds, of each message, the tokens of its role and its content.
chatEstimate(r) ==
  LET input == SumSeq([i \in DOMAIN r.messages |->
                         r.messages[i].role + messageContentString(r.messages[i].content)])
  IN  Units(Wrap(input + PositiveOr(r.max_tokens, DefaultMaxCompletionTokens)))

\* r.input is [kind |-> "string", tokens |-> n], a list, or anything else.  An
\* item of a list is Absent when it is not a string: it counts as one.
countTokens(input) ==
  IF input.kind = "string" THEN input.tokens
  ELSE IF input.kind = "list"
    THEN SumSeq([i \in DOMAIN input.items |->
                   IF input.items[i] = Absent THEN 1 ELSE input.items[i]])
  ELSE 0

embeddingsEstimate(r) == Units(Wrap(countTokens(r.input)))

\* A size is <<w, h>>, Absent for "" and "auto", and <<0, 0>> for any other text.
parseSize(size) == IF size = Absent THEN DefaultSize ELSE size

\* Mutated form: the division rounds down.
imagesEstimate_RoundsDown(r) ==
  LET wh == parseSize(r.size)
      pixels == Wrap(PositiveOr(r.n, DefaultN) * PositiveOr(r.steps, DefaultSteps) * wh[1] * wh[2]) IN
  IF wh[1] <= 0 \/ wh[2] <= 0 THEN Failed ELSE Units(Quo(pixels, PixelsPerUnit))

imagesEstimate(r) ==
  LET wh == parseSize(r.size)
      pixels == Wrap(PositiveOr(r.n, DefaultN) * PositiveOr(r.steps, DefaultSteps) * wh[1] * wh[2]) IN
  IF wh[1] <= 0 \/ wh[2] <= 0
    THEN Failed
    ELSE Units(Quo(Wrap(pixels + PixelsPerUnit - 1), PixelsPerUnit))

\* The estimate of a form takes a field it cannot read for one that is missing.
FormValue(r, name) == LET f == FormField(r, name) IN IF f.ok THEN f.value ELSE Absent

editsEstimate(r) ==
  imagesEstimate([n |-> FormValue(r, "n"), steps |-> FormValue(r, "steps"),
                  size |-> FormValue(r, "size")])

speechEstimate(r) == Units(r.runes)

transcriptionsEstimate(ceil) == Units(IF ceil <= 0 THEN DefaultMaxAudioSeconds ELSE ceil)

-----------------------------------------------------------------------------
(***************************************************************************)
(* Units a backend answer reports.  Absent: no such field, or not JSON.    *)
(***************************************************************************)

\* Mutated form: the nil check is missing.
usageToUnits_NoNilCheck(u) == u

usageToUnits(u) == IF u = Absent THEN 0 ELSE u

\* d is a duration in tenths of a second; fractions round up.
durationFromResponse(d) == IF d = Absent THEN 0 ELSE IF d <= 0 THEN 0 ELSE (d + 9) \div 10
=============================================================================
