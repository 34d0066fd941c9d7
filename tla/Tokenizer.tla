----------------------------- MODULE Tokenizer -----------------------------
(***************************************************************************)
(* The tokenizer every estimate goes through (internal/providers/          *)
(* tokenizer): tiktoken with a per-model cache of encodings behind one     *)
(* mutex, the default encoding, and the word count as the last resort.     *)
(*                                                                         *)
(* Handler goroutines share one instance.  EncodingForModel is a library   *)
(* call that reads an encoding's data on first use: it can be slow, it can *)
(* fail, and it runs while the mutex is held.  The other steps of a count  *)
(* touch nothing shared.                                                   *)
(***************************************************************************)
EXTENDS Integers, FiniteSets, Sequences, SequencesExt

CONSTANTS
  Callers,      \* handler goroutines
  Models,       \* model names as callers pass them: sequences of characters
  Texts,        \* texts to count: sequences of characters
  Encoding,     \* trimmed model name -> encoding, for the names tiktoken knows
  DefaultEnc,   \* cl100k_base
  BPE,          \* encoding -> text -> length of the encoded text
  Mul           \* multiplierPct of the word count: 133 stands for 1.33

None == "none"           \* no entry
NotYet == -1             \* nothing counted yet
Nil == "nil"             \* a nil *tiktoken.Tiktoken
Free == "free"           \* the mutex is not held
Encodings == {Encoding[n] : n \in DOMAIN Encoding} \cup {DefaultEnc}

ASSUME EncodingsAreValues == Encodings \cap {Nil, None} = {}
ASSUME LengthsNatural == BPE \in [Encodings -> [Texts -> Nat]]
ASSUME MutexHolders == Free \notin Callers
ASSUME StringsAreSequences ==
  \A s \in Models \cup Texts : Len(s) \in Nat /\ DOMAIN s = 1 .. Len(s) /\ (s = << >> \/ Len(s) > 0)
ASSUME MultiplierPercent == Mul \in Nat

-----------------------------------------------------------------------------
(***************************************************************************)
(* The word count.                                                         *)
(***************************************************************************)
isSep(r) == r \in {" ", "\t", "\n", "\r", "VT", "\f"}

\* One iteration of the loop over the runes of s: <<words, inToken>>.
Scan(st, r) ==
  IF isSep(r) THEN <<st[1], FALSE>> ELSE <<IF st[2] THEN st[1] ELSE st[1] + 1, TRUE>>

\* Mutated form: a separator does not end the word.
wordCount_OneWord(s) ==
  LET words == FoldLeft(LAMBDA st, r : IF isSep(r) THEN st ELSE Scan(st, r), <<0, FALSE>>, s)[1] IN
  (words * Mul + 99) \div 100

wordCount(s) == LET words == FoldLeft(Scan, <<0, FALSE>>, s)[1] IN (words * Mul + 99) \div 100

\* strings.TrimSpace
TrimSpace(s) ==
  LET ink == {i \in DOMAIN s : ~isSep(s[i])} IN
  IF ink = {} THEN << >>
  ELSE SubSeq(s, CHOOSE i \in ink : \A j \in ink : i <= j, CHOOSE i \in ink : \A j \in ink : j <= i)

Names == {TrimSpace(m) : m \in Models} \ {<< >>}

-----------------------------------------------------------------------------
VARIABLES
  defaultEnc,          \* t.defaultEnc: DefaultEnc, or Nil if it did not load
  modelEnc,            \* t.modelEnc: trimmed name -> None, Nil or an encoding
  mu,                  \* t.mu: Free or its holder
  at,                  \* where each goroutine is
  model, text, enc,    \* its arguments, the encoding it resolved
  loads,               \* history: calls of EncodingForModel per name
  watch, counted       \* history: an arbitrary model and text, fixed at the
                       \* start, and the last count of the two

tokVars == <<defaultEnc, modelEnc, mu, at, model, text, enc, loads, watch, counted>>

TokPoints == {"idle", "lock", "lookup", "load", "count", "emit"}
Agnostic == << >>        \* the label CountTokens passes for the missing model
Labels == Models \cup {Agnostic}

TokTypeOK ==
  /\ defaultEnc \in {DefaultEnc, Nil}
  /\ modelEnc \in [Names -> Encodings \cup {Nil, None}]
  /\ mu \in Callers \cup {Free}
  /\ at \in [Callers -> TokPoints]
  /\ model \in [Callers -> Labels]
  /\ text \in [Callers -> Texts \cup {<< >>}]
  /\ enc \in [Callers -> Encodings \cup {Nil}]
  /\ loads \in [Names -> Nat]
  /\ watch \in Labels \X (Texts \ {<< >>})
  /\ counted \in Nat \cup {NotYet}

\* NewTiktoken: the default encoding is loaded once, and may not be there.
TokInit ==
  /\ defaultEnc \in {DefaultEnc, Nil}
  /\ modelEnc = [k \in Names |-> None]
  /\ mu = Free
  /\ at = [g \in Callers |-> "idle"]
  /\ model = [g \in Callers |-> Agnostic]
  /\ text = [g \in Callers |-> << >>]
  /\ enc = [g \in Callers |-> Nil]
  /\ loads = [k \in Names |-> 0]
  /\ watch \in Labels \X (Texts \ {<< >>})
  /\ counted = NotYet

TokGoto(g, from, to) == at[g] = from /\ at' = [at EXCEPT ![g] = to]

\* CountTokensForModel(m, s): an empty text is 0; a blank model has no
\* encoding of its own and does not touch the cache.
CountTokensForModel(g, m, s) ==
  /\ TokGoto(g, "idle", IF s = << >> THEN "emit" ELSE IF TrimSpace(m) = << >> THEN "count" ELSE "lock")
  /\ model' = [model EXCEPT ![g] = m]
  /\ text' = [text EXCEPT ![g] = s]
  /\ UNCHANGED <<defaultEnc, modelEnc, mu, enc, loads, watch, counted>>

\* CountTokens(s): no model, straight to the default encoding.
CountTokens(g, s) ==
  /\ TokGoto(g, "idle", IF s = << >> THEN "emit" ELSE "count")
  /\ model' = [model EXCEPT ![g] = Agnostic]
  /\ text' = [text EXCEPT ![g] = s]
  /\ UNCHANGED <<defaultEnc, modelEnc, mu, enc, loads, watch, counted>>

\* Mutated form: the cache is not protected.
Lock_Missing(g) ==
  /\ TokGoto(g, "lock", "lookup")
  /\ mu' = g
  /\ UNCHANGED <<defaultEnc, modelEnc, model, text, enc, loads, watch, counted>>

Lock(g) ==
  /\ TokGoto(g, "lock", "lookup")
  /\ mu = Free
  /\ mu' = g
  /\ UNCHANGED <<defaultEnc, modelEnc, model, text, enc, loads, watch, counted>>

\* Mutated form: a cached nil is not accepted; the lookup starts over.
Lookup_RetriesNil(g) ==
  LET entry == modelEnc[TrimSpace(model[g])] IN
  /\ \/ /\ TokGoto(g, "lookup", IF entry = Nil THEN "lock" ELSE "count")
        /\ entry # None
        /\ enc' = [enc EXCEPT ![g] = entry]
        /\ mu' = Free
     \/ /\ TokGoto(g, "lookup", "load")
        /\ entry = None
        /\ UNCHANGED <<enc, mu>>
  /\ UNCHANGED <<defaultEnc, modelEnc, model, text, loads, watch, counted>>

\* Mutated form: an absent entry is taken for a hit.
Lookup_NoCommaOK(g) ==
  /\ TokGoto(g, "lookup", "count")
  /\ enc' = [enc EXCEPT ![g] = modelEnc[TrimSpace(model[g])]]
  /\ mu' = Free
  /\ UNCHANGED <<defaultEnc, modelEnc, model, text, loads, watch, counted>>

\* A hit returns its entry, nil or not, and unlocks on the way out.
Lookup(g) ==
  LET entry == modelEnc[TrimSpace(model[g])] IN
  /\ \/ /\ TokGoto(g, "lookup", "count")
        /\ entry # None
        /\ enc' = [enc EXCEPT ![g] = entry]
        /\ mu' = Free
     \/ /\ TokGoto(g, "lookup", "load")
        /\ entry = None
        /\ UNCHANGED <<enc, mu>>
  /\ UNCHANGED <<defaultEnc, modelEnc, model, text, loads, watch, counted>>

\* tiktoken.EncodingForModel: an error for a name it does not know, or when
\* the encoding's data cannot be read.
EncodingForModel(name) ==
  {Nil} \cup (IF name \in DOMAIN Encoding THEN {Encoding[name]} ELSE {})

\* Mutated form: a failed lookup is not cached.
Load_NoNegative(g) ==
  LET name == TrimSpace(model[g]) IN
  /\ TokGoto(g, "load", "count")
  /\ \E e \in EncodingForModel(name) :
       /\ enc' = [enc EXCEPT ![g] = e]
       /\ modelEnc' = [modelEnc EXCEPT ![name] = IF e = Nil THEN None ELSE e]
  /\ mu' = Free
  /\ loads' = [loads EXCEPT ![name] = @ + 1]
  /\ UNCHANGED <<defaultEnc, model, text, watch, counted>>

\* The miss path of encodingFor: the result is cached, nil or not.
LoadEncoding(g) ==
  LET name == TrimSpace(model[g]) IN
  /\ TokGoto(g, "load", "count")
  /\ \E e \in EncodingForModel(name) :
       /\ enc' = [enc EXCEPT ![g] = e]
       /\ modelEnc' = [modelEnc EXCEPT ![name] = e]
  /\ mu' = Free
  /\ loads' = [loads EXCEPT ![name] = @ + 1]
  /\ UNCHANGED <<defaultEnc, model, text, watch, counted>>

\* What a text counts for, given the encoding resolved for its model.
CountWith(e, s) ==
  IF s = << >> THEN 0
  ELSE IF e # Nil THEN BPE[e][s]
  ELSE IF defaultEnc # Nil THEN BPE[defaultEnc][s]
  ELSE wordCount(s)

\* The text is encoded; its result is all that is left of the call.
Encode(g) ==
  /\ TokGoto(g, "count", "emit")
  /\ counted' = IF <<model[g], text[g]>> = watch THEN CountWith(enc[g], text[g]) ELSE counted
  /\ text' = [text EXCEPT ![g] = << >>]
  /\ enc' = [enc EXCEPT ![g] = Nil]
  /\ UNCHANGED <<defaultEnc, modelEnc, mu, model, loads, watch>>

Return(g) ==
  /\ TokGoto(g, "emit", "idle")
  /\ model' = [model EXCEPT ![g] = Agnostic]
  /\ UNCHANGED <<defaultEnc, modelEnc, mu, text, enc, loads, watch, counted>>

\* The steps of a count up to its result.
TokStep(g) ==
  \/ \E s \in Texts : CountTokens(g, s) \/ \E m \in Models : CountTokensForModel(g, m, s)
  \/ Lock(g) \/ Lookup(g) \/ LoadEncoding(g) \/ Encode(g)

TokNext == \E g \in Callers : TokStep(g) \/ Return(g)

TokSpec == TokInit /\ [][TokNext]_tokVars

-----------------------------------------------------------------------------
(***************************************************************************)
(* What the estimates rely on.                                             *)
(***************************************************************************)

\* "Implementations MUST be deterministic" (tokenizer.go): once a text was
\* counted for a model, every later count of the two is the same, also when
\* EncodingForModel failed the first time and would succeed now, and whichever
\* goroutine filled the cache.
CountsDeterministic ==
  [][counted # NotYet => counted' = counted]_tokVars

\* An encoding is loaded at most once per model name, known or not, however
\* many goroutines ask for it at the same time: the slow call is never repeated.
LoadedOnce == \A k \in Names : loads[k] <= 1

\* The number of maximal runs of non-separators in s.
WordsIn(s) == Cardinality({i \in DOMAIN s : ~isSep(s[i]) /\ (i = 1 \/ isSep(s[i - 1]))})

\* The encoding found for a label: none for a blank one.
Resolved(m) == IF TrimSpace(m) = << >> THEN Nil ELSE modelEnc[TrimSpace(m)]

\* When neither the model's nor the default encoding is there, a text counts
\* for its words times the multiplier, rounded up and not further: the last
\* resort is never short.
LastResortRoundsUp ==
  counted # NotYet /\ Resolved(watch[1]) = Nil /\ defaultEnc = Nil =>
    /\ 100 * counted >= Mul * WordsIn(watch[2])
    /\ 100 * counted < Mul * WordsIn(watch[2]) + 100
=============================================================================
