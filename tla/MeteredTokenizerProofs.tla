----------------------- MODULE MeteredTokenizerProofs -----------------------
(***************************************************************************)
(* The capped counter vector, the tokenizer's cache under its mutex, and   *)
(* the two composed, for any number of goroutines, label tuples, model     *)
(* names, texts and encodings, and any cap.                                *)
(***************************************************************************)
EXTENDS MeteredTokenizer, FoldTheorems

-----------------------------------------------------------------------------
(***************************************************************************)
(* The vector.                                                             *)
(***************************************************************************)
\* Goroutines that have stored their tuple but not yet counted it.
Uncounted == {g \in Goroutines : pc[g] = "add"}

(***************************************************************************)
(* The strengthening.  seen may run ahead of count by the goroutines that  *)
(* are between Store and Add; count may run past max by the goroutines     *)
(* that passed the check together.  A goroutine passes only while count is *)
(* below max, so count plus the window never exceeds max - 1 + N.          *)
(***************************************************************************)
IInv ==
  /\ TypeOK
  /\ max > 0 =>
       /\ IsFiniteSet(seen)
       /\ series \subseteq seen
       /\ \A g \in Goroutines : pc[g] \in {"add", "inc"} => key[g] \in seen
       /\ Cardinality(seen) <= count + Cardinality(Uncounted)
       /\ count + Cardinality(Window) <= max + Cardinality(Goroutines) - 1

N == Cardinality(Goroutines)

LEMMA SizesNatural ==
  /\ N \in Nat
  /\ IsFiniteSet(Window) /\ Cardinality(Window) \in Nat /\ Cardinality(Window) <= N
  /\ IsFiniteSet(Uncounted) /\ Cardinality(Uncounted) \in Nat
  /\ Cardinality(Uncounted) <= Cardinality(Window)
<1>1. Window \subseteq Goroutines /\ Uncounted \subseteq Window BY DEF Window, Uncounted
<1>2. IsFiniteSet(Window) /\ Cardinality(Window) <= N /\ N \in Nat /\ Cardinality(Window) \in Nat
  BY <1>1, GoroutinesFinite, FS_Subset, FS_CardinalityType DEF N
<1>3. IsFiniteSet(Uncounted) /\ Cardinality(Uncounted) <= Cardinality(Window)
      /\ Cardinality(Uncounted) \in Nat
  BY <1>1, <1>2, FS_Subset, FS_CardinalityType
<1> QED BY <1>2, <1>3

LEMMA NoCallIsKey == NoCall \in Keys
BY SomeKey DEF NoCall

LEMMA TypeStep ==
  ASSUME TypeOK, NEW g \in Goroutines, Step(g)
  PROVE  TypeOK'
<1> USE DEF TypeOK, Goto, Points
<1>1. ASSUME NEW k \in Keys, Call(g, k) PROVE TypeOK' BY <1>1 DEF Call
<1>2. CASE Load(g) BY <1>2 DEF Load
<1>3. CASE Check(g) BY <1>3 DEF Check
<1>4. CASE Exceed(g) BY <1>4, NoCallIsKey DEF Exceed
<1>5. CASE Store(g) BY <1>5 DEF Store
<1>6. CASE Add(g) BY <1>6 DEF Add
<1>7. CASE Inc(g) BY <1>7, NoCallIsKey DEF Inc
<1> QED BY <1>1, <1>2, <1>3, <1>4, <1>5, <1>6, <1>7 DEF Step

\* The invariant is inductive.
LEMMA StepIInv ==
  ASSUME IInv, NEW g \in Goroutines, Step(g)
  PROVE  IInv'
<1>0. TypeOK /\ TypeOK' BY TypeStep DEF IInv
<1>1. max' = max
  BY DEF Step, Call, Load, Check, Exceed, Store, Add, Inc
<1> SUFFICES ASSUME max > 0
             PROVE  /\ IsFiniteSet(seen')
                    /\ series' \subseteq seen'
                    /\ \A h \in Goroutines : pc'[h] \in {"add", "inc"} => key'[h] \in seen'
                    /\ Cardinality(seen') <= count' + Cardinality(Uncounted')
                    /\ count' + Cardinality(Window') <= max + N - 1
  BY <1>0, <1>1 DEF IInv, N
<1>2. /\ IsFiniteSet(seen) /\ series \subseteq seen
      /\ \A h \in Goroutines : pc[h] \in {"add", "inc"} => key[h] \in seen
      /\ Cardinality(seen) <= count + Cardinality(Uncounted)
      /\ count + Cardinality(Window) <= max + N - 1
      /\ Cardinality(seen) \in Nat
  BY FS_CardinalityType DEF IInv, N
<1>3. /\ N \in Nat /\ Cardinality(Window) \in Nat /\ Cardinality(Uncounted) \in Nat
      /\ Cardinality(Window) <= N /\ Cardinality(Uncounted) <= Cardinality(Window)
      /\ IsFiniteSet(Window) /\ IsFiniteSet(Uncounted)
  BY SizesNatural
<1>4. CASE \/ \E k \in Keys : Call(g, k)
           \/ Load(g) \/ Exceed(g) \/ Inc(g)
  <2>1. Window' = Window /\ Uncounted' = Uncounted
    BY <1>0, <1>4 DEF Call, Load, Exceed, Inc, Goto, Window, Uncounted, TypeOK
  <2>2. seen' = seen /\ count' = count BY <1>4 DEF Call, Load, Exceed, Inc
  <2>3. series' \subseteq seen /\ (\A h \in Goroutines : pc'[h] \in {"add", "inc"} => key'[h] \in seen)
    BY <1>0, <1>2, <1>4 DEF Call, Load, Exceed, Inc, Goto, TypeOK
  <2> QED BY <1>2, <2>1, <2>2, <2>3
<1>5. CASE Check(g)
  <2>1. /\ seen' = seen /\ count' = count /\ series' = series /\ key' = key
        /\ Uncounted' = Uncounted
        /\ \A h \in Goroutines : pc'[h] \in {"add", "inc"} => pc[h] = pc'[h]
    BY <1>0, <1>5 DEF Check, Goto, Uncounted, TypeOK
  <2>2. CASE count < max
    <3>1. Cardinality(Window') \in Nat /\ Cardinality(Window') <= N
      <4>1. Window' \subseteq Goroutines BY DEF Window
      <4> QED BY <4>1, GoroutinesFinite, FS_Subset, FS_CardinalityType DEF N
    <3> QED BY <1>0, <1>2, <1>3, <2>1, <2>2, <3>1 DEF TypeOK
  <2>3. CASE count >= max
    <3>1. Window' = Window
      BY <1>0, <1>5, <2>3 DEF Check, Goto, Window, TypeOK
    <3> QED BY <1>2, <2>1, <3>1
  <2> QED BY <1>0, <2>2, <2>3 DEF TypeOK
<1>6. CASE Store(g)
  <2>1. /\ seen' = seen \cup {key[g]} /\ count' = count /\ series' = series /\ key' = key
        /\ Window' = Window /\ g \notin Uncounted /\ Uncounted' = Uncounted \cup {g}
        /\ \A h \in Goroutines \ {g} : pc'[h] = pc[h]
    BY <1>0, <1>6 DEF Store, Goto, Window, Uncounted, TypeOK
  <2>2. IsFiniteSet(seen') /\ Cardinality(seen') \in Nat /\ Cardinality(seen') <= Cardinality(seen) + 1
    <3>1. CASE key[g] \in seen
      <4>1. seen' = seen BY <2>1, <3>1
      <4> QED BY <1>2, <4>1
    <3>2. CASE key[g] \notin seen
      <4>1. /\ IsFiniteSet(seen \cup {key[g]})
            /\ Cardinality(seen \cup {key[g]}) = Cardinality(seen) + 1
        BY <1>2, <3>2, FS_AddElement
      <4>2. Cardinality(seen') = Cardinality(seen) + 1 BY <2>1, <4>1
      <4> QED BY <1>2, <2>1, <4>1, <4>2
    <3> QED BY <3>1, <3>2
  <2>3. Cardinality(Uncounted') = Cardinality(Uncounted) + 1
    BY <1>3, <2>1, FS_AddElement
  <2>4. \A h \in Goroutines : pc'[h] \in {"add", "inc"} => key'[h] \in seen'
    BY <1>2, <2>1
  <2>5. series' \subseteq seen' BY <1>2, <2>1
  <2> QED BY <1>0, <1>2, <1>3, <2>1, <2>2, <2>3, <2>4, <2>5 DEF TypeOK
<1>7. CASE Add(g)
  <2>1. /\ seen' = seen /\ count' = count + 1 /\ series' = series /\ key' = key
        /\ g \in Uncounted /\ Uncounted' = Uncounted \ {g}
        /\ g \in Window /\ Window' = Window \ {g}
    BY <1>0, <1>7 DEF Add, Goto, Window, Uncounted, TypeOK
  <2>2. /\ Cardinality(Uncounted') = Cardinality(Uncounted) - 1
        /\ Cardinality(Window') = Cardinality(Window) - 1
    BY <1>3, <2>1, FS_RemoveElement
  <2>3. \A h \in Goroutines : pc'[h] \in {"add", "inc"} => key'[h] \in seen'
    BY <1>0, <1>2, <1>7, <2>1 DEF Add, Goto, TypeOK
  <2> QED BY <1>0, <1>2, <1>3, <2>1, <2>2, <2>3 DEF TypeOK
<1> QED BY <1>4, <1>5, <1>6, <1>7 DEF Step

LEMMA InitIInv == Init => IInv
<1> SUFFICES ASSUME Init PROVE IInv OBVIOUS
<1>1. TypeOK BY CapsNatural, NoCallIsKey DEF Init, TypeOK, Points
<1>2. Window = {} /\ Uncounted = {} BY DEF Init, Window, Uncounted
<1>3. /\ IsFiniteSet(seen) /\ Cardinality(seen) = 0
      /\ Cardinality(Window) = 0 /\ Cardinality(Uncounted) = 0
  BY <1>2, FS_EmptySet DEF Init
<1>4. N \in Nat BY SizesNatural
<1>5. series \subseteq seen /\ count = 0 /\ \A g \in Goroutines : pc[g] = "idle"
  BY DEF Init
<1> QED BY <1>1, <1>3, <1>4, <1>5 DEF IInv, TypeOK, N

LEMMA Invariance == Spec => []IInv
<1>1. IInv /\ [Next]_vars => IInv'
  <2> SUFFICES ASSUME IInv, [Next]_vars PROVE IInv' OBVIOUS
  <2>1. CASE Next BY <2>1, StepIInv DEF Next
  <2>2. CASE UNCHANGED vars
    BY <2>2 DEF vars, IInv, TypeOK, Window, Uncounted
  <2> QED BY <2>1, <2>2
<1> QED BY <1>1, InitIInv, PTL DEF Spec

\* However many goroutines race through allow(), the metric never has more
\* than max + N - 1 series: the cap can be overshot, but only by the number
\* of goroutines that can be inside allow() at once, less one.
THEOREM CapOvershootBounded == Spec => []SeriesBounded
<1>1. IInv => SeriesBounded
  <2> SUFFICES ASSUME IInv, max > 0
               PROVE  Cardinality(series) <= max + N - 1
    BY DEF SeriesBounded, N
  <2>1. Cardinality(series) <= Cardinality(seen) /\ Cardinality(series) \in Nat
        /\ Cardinality(seen) \in Nat
    BY FS_Subset, FS_CardinalityType DEF IInv
  <2>2. /\ Cardinality(seen) <= count + Cardinality(Uncounted)
        /\ count + Cardinality(Window) <= max + N - 1
    BY DEF IInv, N
  <2> QED BY <2>1, <2>2, SizesNatural DEF IInv, TypeOK
<1> QED BY <1>1, Invariance, PTL

-----------------------------------------------------------------------------
(***************************************************************************)
(* The warning.  The compare-and-swap makes the number of warnings a       *)
(* function of the flag; a goroutine on its way to the flag has seen the   *)
(* counter at the cap, and the counter never goes down.                    *)
(***************************************************************************)
WarnInv ==
  /\ warnings = IF exceeded THEN 1 ELSE 0
  /\ exceeded => count >= max
  /\ \A g \in Goroutines : pc[g] = "exceed" => count >= max

\* Each access of a goroutine keeps it.
LEMMA WarnStep ==
  ASSUME TypeOK, WarnInv, NEW g \in Goroutines, Step(g)
  PROVE  WarnInv'
<1> USE DEF TypeOK, WarnInv, Goto
<1>1. ASSUME NEW k \in Keys, Call(g, k) PROVE WarnInv' BY <1>1 DEF Call
<1>2. CASE Load(g) BY <1>2 DEF Load
<1>3. CASE Check(g) BY <1>3 DEF Check
<1>4. CASE Exceed(g)
  <2>1. count >= max /\ count' = count /\ max' = max BY <1>4 DEF Exceed
  <2>2. exceeded' /\ warnings' = 1 BY <1>4 DEF Exceed
  <2>3. \A h \in Goroutines : pc'[h] = "exceed" => pc[h] = "exceed" BY <1>4 DEF Exceed
  <2> QED BY <2>1, <2>2, <2>3
<1>5. CASE Store(g) BY <1>5 DEF Store
<1>6. CASE Add(g) BY <1>6 DEF Add
<1>7. CASE Inc(g) BY <1>7 DEF Inc
<1> QED BY <1>1, <1>2, <1>3, <1>4, <1>5, <1>6, <1>7 DEF Step

\* The operator is warned of an exceeded cap at most once per metric, and only
\* once the counter has reached the cap, however many updates race.
THEOREM OperatorWarnedOnce == Spec => []WarnedOnce
<1>1. Init => WarnInv BY DEF Init, WarnInv
<1>2. IInv /\ WarnInv /\ [Next]_vars => WarnInv'
  <2> SUFFICES ASSUME IInv, WarnInv, [Next]_vars PROVE WarnInv' OBVIOUS
  <2>1. CASE Next BY <2>1, WarnStep DEF Next, IInv
  <2>2. CASE UNCHANGED vars BY <2>2 DEF vars, WarnInv
  <2> QED BY <2>1, <2>2
<1>3. WarnInv => WarnedOnce BY DEF WarnInv, WarnedOnce
<1> QED BY <1>1, <1>2, <1>3, Invariance, PTL DEF Spec

-----------------------------------------------------------------------------
(***************************************************************************)
(* The cache.  What a count returns is fixed by the entry of its model's   *)
(* name, so the invariant says who may change an entry, and when: only the *)
(* holder of the mutex is between lookup and store, it found no entry, and *)
(* an entry that is there, nil or not, stays.                              *)
(***************************************************************************)
TokTypes ==
  /\ defaultEnc \in {DefaultEnc, Nil}
  /\ modelEnc \in [Names -> Encodings \cup {Nil, None}]
  /\ at \in [Callers -> TokPoints]
  /\ model \in [Callers -> Labels]
  /\ text \in [Callers -> Texts \cup {<< >>}]
  /\ enc \in [Callers -> Encodings \cup {Nil}]
  /\ loads \in [Names -> Nat]
  /\ watch \in Labels \X (Texts \ {<< >>})

Locked == {"lookup", "load"}

CallerOK(g) ==
  /\ at[g] \in Locked => mu = g
  /\ at[g] \in Locked \cup {"lock"} => TrimSpace(model[g]) \in Names
  /\ at[g] = "load" => modelEnc[TrimSpace(model[g])] = None
  /\ at[g] = "count" => Resolved(model[g]) # None /\ enc[g] = Resolved(model[g])
  /\ at[g] # "count" => enc[g] = Nil

EntryOK(k) == loads[k] <= 1 /\ (modelEnc[k] = None => loads[k] = 0)

CountOK ==
  counted # NotYet =>
    /\ Resolved(watch[1]) # None
    /\ counted = CountWith(Resolved(watch[1]), watch[2])

TokInv ==
  /\ TokTypes
  /\ \A g \in Callers : CallerOK(g)
  /\ \A k \in Names : EntryOK(k)
  /\ CountOK

\* A model name with something left after trimming is a key of the cache.
LEMMA TrimmedIsName ==
  ASSUME NEW m \in Labels, TrimSpace(m) # << >>
  PROVE  TrimSpace(m) \in Names
<1>1. TrimSpace(Agnostic) = << >> BY DEF TrimSpace, Agnostic
<1> QED BY <1>1 DEF Names, Labels

\* EncodingForModel returns an encoding or nil, never "no entry".
LEMMA LoadedIsEntry ==
  ASSUME NEW k, NEW e \in EncodingForModel(k)
  PROVE  e \in Encodings \cup {Nil} /\ e # None
BY EncodingsAreValues DEF EncodingForModel, Encodings, Nil, None

\* Steps that leave the cache alone.
LEMMA QuietCache ==
  ASSUME TokInv, NEW g \in Callers, modelEnc' = modelEnc, loads' = loads,
         defaultEnc' = defaultEnc, watch' = watch, counted' = counted
  PROVE  (\A k \in Names : EntryOK(k)') /\ CountOK'
BY DEF TokInv, EntryOK, CountOK, Resolved, CountWith

\* The mutex has one holder: whoever is between lookup and store is alone.
LEMMA OneHolder ==
  ASSUME TokInv, NEW g \in Callers, at[g] \in Locked \/ mu = Free,
         NEW h \in Callers, h # g
  PROVE  at[h] \notin Locked
BY MutexHolders DEF TokInv, CallerOK

\* The start of a count.
LEMMA StartStep ==
  ASSUME TokInv, NEW g \in Callers, NEW s \in Texts,
         CountTokens(g, s) \/ \E m \in Models : CountTokensForModel(g, m, s)
  PROVE  TokInv'
<1>0. PICK m \in Labels :
        /\ at[g] = "idle"
        /\ \/ at' = [at EXCEPT ![g] = "emit"]
           \/ at' = [at EXCEPT ![g] = "count"] /\ TrimSpace(m) = << >>
           \/ at' = [at EXCEPT ![g] = "lock"] /\ TrimSpace(m) # << >>
        /\ model' = [model EXCEPT ![g] = m] /\ text' = [text EXCEPT ![g] = s]
        /\ UNCHANGED <<defaultEnc, modelEnc, mu, enc, loads, watch, counted>>
  <2>1. CASE CountTokens(g, s)
    <3>1. TrimSpace(Agnostic) = << >> BY DEF TrimSpace, Agnostic
    <3> QED BY <2>1, <3>1 DEF CountTokens, TokGoto, Labels
  <2>2. ASSUME NEW m \in Models, CountTokensForModel(g, m, s)
        PROVE  /\ at[g] = "idle"
               /\ \/ at' = [at EXCEPT ![g] = "emit"]
                  \/ at' = [at EXCEPT ![g] = "count"] /\ TrimSpace(m) = << >>
                  \/ at' = [at EXCEPT ![g] = "lock"] /\ TrimSpace(m) # << >>
               /\ model' = [model EXCEPT ![g] = m] /\ text' = [text EXCEPT ![g] = s]
               /\ UNCHANGED <<defaultEnc, modelEnc, mu, enc, loads, watch, counted>>
    BY <2>2 DEF CountTokensForModel, TokGoto
  <2> QED BY <2>1, <2>2 DEF Labels
<1>1. TokTypes' BY <1>0 DEF TokInv, TokTypes, TokPoints
<1>2. (\A k \in Names : EntryOK(k)') /\ CountOK' BY <1>0, QuietCache
<1>3. CallerOK(g)'
  <2>1. at'[g] \in {"emit", "count", "lock"} /\ model'[g] = m /\ enc'[g] = Nil
    BY <1>0 DEF TokInv, TokTypes, CallerOK
  <2>2. at'[g] = "lock" => TrimSpace(m) \in Names
    BY <1>0, TrimmedIsName DEF TokInv, TokTypes
  <2>3. at'[g] = "count" => Resolved(model[g])' = Nil
    BY <1>0, <2>1 DEF TokInv, TokTypes, Resolved
  <2> QED BY <2>1, <2>2, <2>3 DEF CallerOK, Locked, Nil, None
<1>4. \A h \in Callers \ {g} : CallerOK(h)'
  BY <1>0 DEF TokInv, TokTypes, CallerOK, Resolved
<1> QED BY <1>1, <1>2, <1>3, <1>4 DEF TokInv

\* Taking the mutex, and the lookup that follows.
LEMMA LookupStep ==
  ASSUME TokInv, NEW g \in Callers, Lock(g) \/ Lookup(g)
  PROVE  TokInv'
<1>0. TokTypes /\ \A h \in Callers : CallerOK(h) BY DEF TokInv
<1>a. \A h \in Callers \ {g} : at[h] \notin Locked
  <2>1. CASE Lock(g) BY <2>1, OneHolder DEF Lock
  <2>2. CASE Lookup(g)
    <3>1. at[g] \in Locked BY <2>2 DEF Lookup, TokGoto, Locked
    <3> QED BY <3>1, OneHolder
  <2> QED BY <2>1, <2>2
<1>1. CASE Lock(g)
  <2>1. TokTypes' BY <1>0, <1>1 DEF Lock, TokGoto, TokTypes, TokPoints
  <2>2. (\A k \in Names : EntryOK(k)') /\ CountOK' BY <1>1, QuietCache DEF Lock
  <2>3. CallerOK(g)' BY <1>0, <1>1 DEF Lock, TokGoto, TokTypes, CallerOK, Locked
  <2>4. \A h \in Callers \ {g} : CallerOK(h)'
    BY <1>0, <1>1, <1>a DEF Lock, TokGoto, TokTypes, CallerOK, Resolved
  <2> QED BY <2>1, <2>2, <2>3, <2>4 DEF TokInv
<1>2. CASE Lookup(g)
  <2> DEFINE name == TrimSpace(model[g])
  <2>0. at[g] = "lookup" /\ name \in Names /\ mu = g /\ modelEnc' = modelEnc /\ model' = model
    BY <1>0, <1>2 DEF Lookup, TokGoto, CallerOK, Locked
  <2>1. TokTypes' BY <1>0, <1>2, <2>0 DEF Lookup, TokGoto, TokTypes, TokPoints
  <2>2. (\A k \in Names : EntryOK(k)') /\ CountOK' BY <1>2, QuietCache DEF Lookup
  <2>3. CallerOK(g)'
    <3>1. name # << >> BY <2>0 DEF Names
    <3>2. Resolved(model[g])' = modelEnc[name] BY <2>0, <3>1 DEF Resolved
    <3>3. CASE modelEnc[name] # None
      <4>1. at'[g] = "count" /\ enc'[g] = modelEnc[name]
        BY <1>0, <1>2, <3>3 DEF Lookup, TokGoto, TokTypes
      <4> QED BY <2>0, <3>2, <3>3, <4>1 DEF CallerOK, Locked
    <3>4. CASE modelEnc[name] = None
      <4>1. at'[g] = "load" /\ enc' = enc /\ mu' = mu
        BY <1>0, <1>2, <3>4 DEF Lookup, TokGoto, TokTypes
      <4> QED BY <1>0, <2>0, <3>4, <4>1 DEF CallerOK, Locked
    <3> QED BY <3>3, <3>4
  <2>4. \A h \in Callers \ {g} : CallerOK(h)'
    BY <1>0, <1>2, <1>a DEF Lookup, TokGoto, TokTypes, CallerOK, Resolved
  <2> QED BY <2>1, <2>2, <2>3, <2>4 DEF TokInv
<1> QED BY <1>1, <1>2

\* The miss path: the one step that fills an entry.
LEMMA LoadStep ==
  ASSUME TokInv, NEW g \in Callers, LoadEncoding(g)
  PROVE  TokInv'
<1> DEFINE name == TrimSpace(model[g])
<1>0. TokTypes /\ CountOK /\ (\A h \in Callers : CallerOK(h)) /\ (\A k \in Names : EntryOK(k))
  BY DEF TokInv
<1>1. PICK e \in EncodingForModel(name) :
        enc' = [enc EXCEPT ![g] = e] /\ modelEnc' = [modelEnc EXCEPT ![name] = e]
  BY DEF LoadEncoding
<1>2. /\ at[g] = "load" /\ at' = [at EXCEPT ![g] = "count"] /\ mu' = Free
      /\ loads' = [loads EXCEPT ![name] = @ + 1]
      /\ UNCHANGED <<defaultEnc, model, text, watch, counted>>
  BY DEF LoadEncoding, TokGoto
<1>3. name \in Names /\ modelEnc[name] = None BY <1>0, <1>2 DEF CallerOK, Locked
<1>4. e \in Encodings \cup {Nil} /\ e # None BY LoadedIsEntry
<1>a. at[g] \in Locked BY <1>2 DEF Locked
<1>5. \A h \in Callers \ {g} : at[h] \notin Locked BY <1>a, OneHolder
<1>6. TokTypes'
  <2>1. modelEnc' \in [Names -> Encodings \cup {Nil, None}] BY <1>0, <1>1, <1>3, <1>4 DEF TokTypes
  <2>2. enc' \in [Callers -> Encodings \cup {Nil}] BY <1>0, <1>1, <1>4 DEF TokTypes
  <2>3. loads' \in [Names -> Nat] BY <1>0, <1>2, <1>3 DEF TokTypes
  <2>4. at' \in [Callers -> TokPoints] BY <1>0, <1>2 DEF TokTypes, TokPoints
  <2> QED BY <1>0, <1>2, <2>1, <2>2, <2>3, <2>4 DEF TokTypes
<1>7. ASSUME NEW k \in Names PROVE EntryOK(k)'
  <2>1. CASE k = name
    <3>1. modelEnc'[k] = e /\ loads[k] = 0 /\ loads'[k] = 1
      BY <1>0, <1>1, <1>2, <1>3, <2>1 DEF TokTypes, EntryOK
    <3> QED BY <1>4, <3>1 DEF EntryOK
  <2>2. CASE k # name BY <1>0, <1>1, <1>2, <2>2 DEF TokTypes, EntryOK
  <2> QED BY <2>1, <2>2
<1>8. CountOK'
  <2> SUFFICES ASSUME counted' # NotYet
               PROVE  /\ Resolved(watch[1])' # None
                      /\ counted' = CountWith(Resolved(watch[1]), watch[2])'
    BY DEF CountOK
  <2>1. Resolved(watch[1]) # None /\ counted = CountWith(Resolved(watch[1]), watch[2])
    BY <1>0, <1>2 DEF CountOK
  <2>2. Resolved(watch[1])' = Resolved(watch[1])
    BY <1>0, <1>1, <1>2, <1>3, <2>1 DEF Resolved, TokTypes
  <2> QED BY <1>2, <2>1, <2>2 DEF CountWith
<1>9. CallerOK(g)'
  <2>1. at'[g] = "count" /\ enc'[g] = e /\ modelEnc'[name] = e /\ model' = model
    BY <1>0, <1>1, <1>2, <1>3 DEF TokTypes
  <2>2. name # << >> BY <1>3 DEF Names
  <2>3. Resolved(model[g])' = e BY <2>1, <2>2 DEF Resolved
  <2> QED BY <1>4, <2>1, <2>3 DEF CallerOK, Locked
<1>10. ASSUME NEW h \in Callers \ {g} PROVE CallerOK(h)'
  <2>1. at'[h] = at[h] /\ enc'[h] = enc[h] /\ model'[h] = model[h] /\ at[h] \notin Locked /\ CallerOK(h)
    BY <1>0, <1>1, <1>2, <1>5 DEF TokTypes
  <2>2. at[h] = "count" => Resolved(model[h])' = Resolved(model[h])
    BY <1>0, <1>1, <1>2, <1>3, <2>1 DEF CallerOK, Resolved, TokTypes
  <2> QED BY <1>2, <2>1, <2>2 DEF CallerOK, Locked
<1> QED BY <1>6, <1>7, <1>8, <1>9, <1>10 DEF TokInv

\* The end of a count.
LEMMA EndStep ==
  ASSUME TokInv, NEW g \in Callers, Encode(g) \/ Return(g)
  PROVE  TokInv' /\ (counted # NotYet => counted' = counted)
<1>0. TokTypes /\ CountOK /\ \A h \in Callers : CallerOK(h) BY DEF TokInv
<1>1. modelEnc' = modelEnc /\ loads' = loads /\ defaultEnc' = defaultEnc /\ watch' = watch /\ mu' = mu
  BY DEF Encode, Return
<1>2. \A k \in Names : EntryOK(k)' BY <1>1 DEF TokInv, EntryOK
<1>3. TokTypes'
  BY <1>0, <1>1 DEF Encode, Return, TokGoto, TokTypes, TokPoints, Labels
<1>4. \A h \in Callers : CallerOK(h)'
  BY <1>0, <1>1 DEF Encode, Return, TokGoto, TokTypes, CallerOK, Locked, Resolved
<1>5. CountOK' /\ (counted # NotYet => counted' = counted)
  <2>1. CASE counted' = counted BY <1>0, <1>1, <2>1 DEF CountOK, Resolved, CountWith
  <2>2. CASE counted' # counted
    <3>1. /\ at[g] = "count" /\ <<model[g], text[g]>> = watch
          /\ counted' = CountWith(enc[g], text[g])
      BY <2>2 DEF Encode, Return, TokGoto
    <3>2. Resolved(model[g]) # None /\ enc[g] = Resolved(model[g]) BY <1>0, <3>1 DEF CallerOK
    <3>3. model[g] = watch[1] /\ text[g] = watch[2] BY <3>1
    <3>4. Resolved(watch[1]) # None /\ counted' = CountWith(Resolved(watch[1]), watch[2])
      BY <3>1, <3>2, <3>3
    <3>5. counted = NotYet BY <1>0, <2>2, <3>4 DEF CountOK
    <3>6. Resolved(watch[1])' = Resolved(watch[1]) BY <1>1 DEF Resolved
    <3> QED BY <1>1, <3>4, <3>5, <3>6 DEF CountOK, CountWith
  <2> QED BY <2>1, <2>2
<1> QED BY <1>2, <1>3, <1>4, <1>5 DEF TokInv

\* A new tokenizer has an empty cache and no callers.
LEMMA InitTokInv == TokInit => TokInv
<1> SUFFICES ASSUME TokInit PROVE TokInv OBVIOUS
<1>1. TokTypes
  BY DEF TokInit, TokTypes, TokPoints, Labels
<1>2. \A g \in Callers : CallerOK(g) BY DEF TokInit, CallerOK, Locked
<1>3. \A k \in Names : EntryOK(k) BY DEF TokInit, EntryOK
<1>4. CountOK BY DEF TokInit, CountOK
<1> QED BY <1>1, <1>2, <1>3, <1>4 DEF TokInv

\* Every step keeps the invariant and the count.
LEMMA NextTokInv == TokInv /\ [TokNext]_tokVars => TokInv' /\ (counted # NotYet => counted' = counted)
<1> SUFFICES ASSUME TokInv, [TokNext]_tokVars
             PROVE  TokInv' /\ (counted # NotYet => counted' = counted)
  OBVIOUS
<1>1. ASSUME NEW g \in Callers, TokStep(g) \/ Return(g)
      PROVE  TokInv' /\ (counted # NotYet => counted' = counted)
  <2>1. CASE Encode(g) \/ Return(g) BY <2>1, EndStep
  <2>2. CASE ~(Encode(g) \/ Return(g))
    <3>1. TokInv' BY <1>1, <2>2, StartStep, LookupStep, LoadStep DEF TokStep
    <3>2. counted' = counted
      BY <1>1, <2>2 DEF TokStep, CountTokens, CountTokensForModel, Lock, Lookup, LoadEncoding
    <3> QED BY <3>1, <3>2
  <2> QED BY <2>1, <2>2
<1>2. CASE UNCHANGED tokVars
  <2> USE <1>2 DEF tokVars, TokInv
  <2>1. TokTypes' BY DEF TokTypes
  <2>2. \A g \in Callers : CallerOK(g)' BY DEF CallerOK, Resolved
  <2>3. (\A k \in Names : EntryOK(k)') /\ CountOK' BY DEF EntryOK, CountOK, Resolved, CountWith
  <2> QED BY <2>1, <2>2, <2>3
<1> QED BY <1>1, <1>2 DEF TokNext

LEMMA TokInvariance == TokSpec => []TokInv
<1>1. TokInv /\ [TokNext]_tokVars => TokInv' BY NextTokInv
<1> QED BY <1>1, InitTokInv, PTL DEF TokSpec

\* EncodingForModel is called at most once per trimmed model name, however
\* many goroutines miss at the same time and whether or not it succeeds.
THEOREM EncodingLoadedOnce == TokSpec => []LoadedOnce
<1>1. TokInv => LoadedOnce BY DEF TokInv, EntryOK, LoadedOnce
<1> QED BY <1>1, TokInvariance, PTL

\* Two counts of the same text for the same model are equal, whichever
\* goroutine filled the cache between them.
THEOREM CountIsDeterministic == TokSpec => CountsDeterministic
<1>1. TokInv /\ [TokNext]_tokVars => [counted # NotYet => counted' = counted]_tokVars
  BY NextTokInv
<1> QED BY <1>1, TokInvariance, PTL DEF TokSpec, CountsDeterministic

-----------------------------------------------------------------------------
(***************************************************************************)
(* The last resort.  The loop over the characters counts a word where one  *)
(* starts.                                                                 *)
(***************************************************************************)
IsText(s) == Len(s) \in Nat /\ DOMAIN s = 1..Len(s)

\* wordCount, as a function of how many characters have been looked at.
LEMMA ScanStepwise ==
  ASSUME NEW s, IsText(s)
  PROVE  \E f : /\ f[0] = <<0, FALSE>>
                /\ \A k \in 1..Len(s) : f[k - 1] \in Nat \X BOOLEAN /\ f[k] = Scan(f[k - 1], s[k])
                /\ wordCount(s) = (f[Len(s)][1] * Mul + 99) \div 100
<1> DEFINE n == Len(s)
           base == <<0, FALSE>>
           V == Nat \X BOOLEAN
           step == [i \in 1..n |-> [st \in V |-> Scan(st, s[i])]]
           it == CHOOSE h : h = [u \in SUBSET (1..n) |->
                                   IF u = {} THEN base ELSE Scan(h[u \ {Max(u)}], s[Max(u)])]
<1>0. n \in Nat /\ DOMAIN s = 1..n
  BY DEF IsText
<1>1. base \in V
  OBVIOUS
<1>2. \A c : \A st \in V : Scan(st, c) \in V
  <2> SUFFICES ASSUME NEW c, NEW st \in V PROVE Scan(st, c) \in V
    OBVIOUS
  <2>1. st[1] \in Nat /\ st[1] + 1 \in Nat
    OBVIOUS
  <2>2. Scan(st, c) \in {<<st[1], FALSE>>, <<st[1], TRUE>>, <<st[1] + 1, TRUE>>}
    BY Zenon DEF Scan
  <2>3. \A k \in Nat : \A b \in BOOLEAN : <<k, b>> \in V
    BY Zenon
  <2>4. <<st[1], FALSE>> \in V /\ <<st[1], TRUE>> \in V /\ <<st[1] + 1, TRUE>> \in V
    BY <2>1, <2>3, Zenon
  <2> QED BY <2>2, <2>4, Zenon
<1>3. step \in [1..n -> [V -> V]]
  <2> HIDE DEF V, n
  <2> QED BY <1>2
<1>4. PICK g : IsFold(g, V, base, step, n)
  <2> HIDE DEF V, n, base, step
  <2> QED BY <1>0, <1>1, <1>3, FoldExists
<1>5. ASSUME NEW u \in SUBSET (1..n), u # {}
      PROVE  g[u] = Scan(g[u \ {Max(u)}], s[Max(u)])
  <2>1. Max(u) \in 1..n /\ u \ {Max(u)} \in SUBSET (1..n)
    <3> HIDE DEF n
    <3>1. Max(u) \in u
      BY <1>0, <1>5, LastPosition
    <3> QED BY <3>1
  <2>2. g[u] = step[Max(u)][g[u \ {Max(u)}]]
    <3> HIDE DEF V, n, base, step
    <3> QED BY <1>4, <1>5 DEF IsFold
  <2>3. g[u \ {Max(u)}] \in V
    <3> HIDE DEF V, n, base, step
    <3> QED BY <1>4, <2>1 DEF IsFold
  <2> HIDE DEF V, n
  <2> QED BY <2>1, <2>2, <2>3
<1>6. g = [u \in SUBSET (1..n) |-> IF u = {} THEN base ELSE Scan(g[u \ {Max(u)}], s[Max(u)])]
  <2>1. g \in [SUBSET (1..n) -> V] /\ g[{}] = base
    <3> HIDE DEF V, n, base, step
    <3> QED BY <1>4 DEF IsFold
  <2> HIDE DEF V, n, base, step
  <2> QED BY <1>5, <2>1
<1>7. it = [u \in SUBSET (1..n) |-> IF u = {} THEN base ELSE Scan(it[u \ {Max(u)}], s[Max(u)])]
  BY <1>6, Zenon
<1>8. wordCount(s) = (it[1..n][1] * Mul + 99) \div 100
  <2>1. DOMAIN s = 1..n
    BY <1>0
  <2> QED BY <2>1, Zenon DEF wordCount, FoldLeft, MapThenFoldSet
<1> HIDE DEF it, n, base, V, step
<1>9. it[{}] = base
  <2>1. {} \in SUBSET (1..n)
    OBVIOUS
  <2> QED BY <1>7, <2>1, Zenon
<1>10. ASSUME NEW k \in 1..n
       PROVE  it[1..k] = Scan(it[1..(k - 1)], s[k])
  <2>0. k \in Nat \ {0}
    BY <1>0
  <2>1. 1..k # {} /\ Max(1..k) = k /\ (1..k) \ {k} = 1..(k - 1)
    BY <2>0, PrefixLast
  <2>2. 1..k \in SUBSET (1..n)
    BY <1>0
  <2>3. it[1..k] = Scan(it[(1..k) \ {Max(1..k)}], s[Max(1..k)])
    BY <1>7, <2>1, <2>2, Zenon
  <2> QED BY <2>1, <2>3
<1> DEFINE f == [k \in 0..n |-> it[1..k]]
<1>11. f[0] = base
  <2>1. 1..0 = {} /\ 0 \in 0..n
    BY <1>0
  <2> QED BY <1>9, <2>1
<1>12. \A k \in 1..n : f[k] = Scan(f[k - 1], s[k])
  <2> TAKE k \in 1..n
  <2>1. k \in 0..n /\ k - 1 \in 0..n
    BY <1>0
  <2> QED BY <1>10, <2>1
<1>13. f[n] = it[1..n]
  <2>1. n \in 0..n
    BY <1>0
  <2> QED BY <2>1
<1> HIDE DEF f
<1>14. \A k \in 0..n : f[k] \in V
  <2> DEFINE T == {k \in 0..n : f[k] \in V}
  <2>1. 0 \in T
    BY <1>0, <1>1, <1>11
  <2>2. \A k \in 1..n : k - 1 \in T => k \in T
    BY <1>0, <1>2, <1>12
  <2>3. \A k \in 0..n : k \in T
    <3> HIDE DEF T
    <3> QED BY <1>0, <2>1, <2>2, CountUp
  <2> QED BY <2>3
<1>15. \A k \in 1..n : f[k - 1] \in V
  <2>1. \A k \in 1..n : k - 1 \in 0..n
    BY <1>0
  <2> QED BY <1>14, <2>1
<1> QED BY <1>8, <1>11, <1>12, <1>13, <1>15 DEF n, base, V

\* The loop counts the starts of words.
LEMMA WordsCounted ==
  ASSUME NEW s, IsText(s)
  PROVE  WordsIn(s) \in Nat /\ wordCount(s) = (WordsIn(s) * Mul + 99) \div 100
<1> DEFINE n == Len(s)
           Start(i) == ~isSep(s[i]) /\ (i = 1 \/ isSep(s[i - 1]))
           Starts(k) == {i \in 1..k : Start(i)}
<1>0. n \in Nat /\ DOMAIN s = 1..n
  BY DEF IsText
<1>1. WordsIn(s) = Cardinality(Starts(n))
  BY <1>0 DEF WordsIn
<1>2. PICK f : /\ f[0] = <<0, FALSE>>
               /\ \A k \in 1..n : f[k - 1] \in Nat \X BOOLEAN /\ f[k] = Scan(f[k - 1], s[k])
               /\ wordCount(s) = (f[n][1] * Mul + 99) \div 100
  BY ScanStepwise
<1> HIDE DEF n
<1>3. \A k \in 0..n : IsFiniteSet(Starts(k)) /\ Cardinality(Starts(k)) \in Nat
  <2> TAKE k \in 0..n
  <2>1. IsFiniteSet(1..k) /\ Starts(k) \in SUBSET (1..k)
    BY <1>0, FS_Interval
  <2> HIDE DEF Starts
  <2> QED BY <2>1, FS_Subset, FS_CardinalityType
<1> DEFINE T == {k \in 0..n : /\ f[k][1] = Cardinality(Starts(k))
                              /\ f[k][2] <=> (k # 0 /\ ~isSep(s[k]))}
<1>4. 0 \in T
  <2>1. Starts(0) = {} /\ 0 \in 0..n
    BY <1>0
  <2>2. Cardinality(Starts(0)) = 0
    BY <2>1, FS_EmptySet
  <2>3. f[0][1] = 0 /\ f[0][2] = FALSE
    BY <1>2
  <2> HIDE DEF Starts
  <2> QED BY <2>1, <2>2, <2>3
<1>5. ASSUME NEW k \in 1..n, k - 1 \in T PROVE k \in T
  <2>0. /\ k \in 0..n /\ k - 1 \in 0..n /\ f[k] = Scan(f[k - 1], s[k])
        /\ \A i \in 1..k : i = k \/ i \in 1..(k - 1)
        /\ 1..(k - 1) \subseteq 1..k /\ k \in 1..k /\ k \notin 1..(k - 1)
    BY <1>0, <1>2
  <2>1. /\ f[k - 1][1] = Cardinality(Starts(k - 1))
        /\ f[k - 1][2] <=> (k - 1 # 0 /\ ~isSep(s[k - 1]))
    BY <1>5
  <2>2. Starts(k) = IF Start(k) THEN Starts(k - 1) \cup {k} ELSE Starts(k - 1)
    <3> HIDE DEF Start
    <3> QED BY <2>0
  <2>3. Cardinality(Starts(k)) = IF Start(k) THEN Cardinality(Starts(k - 1)) + 1
                                 ELSE Cardinality(Starts(k - 1))
    <3>1. k \notin Starts(k - 1)
      BY <2>0
    <3>2. IsFiniteSet(Starts(k - 1))
      BY <1>3, <2>0
    <3> HIDE DEF Starts, Start
    <3> QED BY <2>2, <3>1, <3>2, FS_AddElement
  <2> HIDE DEF Starts
  <2>4. Start(k) <=> ~isSep(s[k]) /\ ~f[k - 1][2]
    <3>1. (k = 1) <=> (k - 1 = 0)
      BY <1>0
    <3> QED BY <2>1, <3>1
  <2>5. CASE isSep(s[k])
    <3>1. f[k] = <<f[k - 1][1], FALSE>>
      BY <2>0, <2>5, Zenon DEF Scan
    <3>2. f[k][1] = f[k - 1][1] /\ f[k][2] = FALSE
      BY <3>1
    <3> QED BY <2>0, <2>1, <2>3, <2>4, <2>5, <3>2
  <2>6. CASE ~isSep(s[k]) /\ f[k - 1][2]
    <3>1. f[k] = <<f[k - 1][1], TRUE>>
      BY <2>0, <2>6, Zenon DEF Scan
    <3>2. f[k][1] = f[k - 1][1] /\ f[k][2] = TRUE
      BY <3>1
    <3>3. k # 0
      BY <1>0
    <3> QED BY <2>0, <2>1, <2>3, <2>4, <2>6, <3>2, <3>3
  <2>7. CASE ~isSep(s[k]) /\ ~f[k - 1][2]
    <3>1. f[k] = <<f[k - 1][1] + 1, TRUE>>
      BY <2>0, <2>7, Zenon DEF Scan
    <3>2. f[k][1] = f[k - 1][1] + 1 /\ f[k][2] = TRUE
      BY <3>1
    <3>3. k # 0
      BY <1>0
    <3> QED BY <2>0, <2>1, <2>3, <2>4, <2>7, <3>2, <3>3
  <2> QED BY <2>5, <2>6, <2>7
<1>6. \A k \in 0..n : k \in T
  <2> HIDE DEF T
  <2> QED BY <1>0, <1>4, <1>5, CountUp
<1>7. n \in 0..n
  BY <1>0
<1>8. f[n][1] = Cardinality(Starts(n)) /\ Cardinality(Starts(n)) \in Nat
  BY <1>3, <1>6, <1>7
<1> QED BY <1>1, <1>2, <1>8

LEMMA PercentRoundedUp ==
  ASSUME NEW w \in Nat, NEW m \in Nat
  PROVE  /\ (w * m + 99) \div 100 \in Nat
         /\ 100 * ((w * m + 99) \div 100) >= m * w
         /\ 100 * ((w * m + 99) \div 100) < m * w + 100
<1> DEFINE p == w * m
<1>1. p \in Nat /\ p = m * w
  OBVIOUS
<1>2. /\ (p + 99) \div 100 \in Nat
      /\ 100 * ((p + 99) \div 100) >= p /\ 100 * ((p + 99) \div 100) < p + 100
  <2> HIDE DEF p
  <2> QED BY <1>1
<1> QED BY <1>1, <1>2

LEMMA TextWords ==
  ASSUME NEW s \in Texts
  PROVE  /\ wordCount(s) \in Nat
         /\ 100 * wordCount(s) >= Mul * WordsIn(s)
         /\ 100 * wordCount(s) < Mul * WordsIn(s) + 100
<1>1. IsText(s)
  BY StringsAreSequences DEF IsText
<1> QED BY <1>1, WordsCounted, PercentRoundedUp, MultiplierPercent

\* Without any encoding a text counts for its words times the multiplier, rounded
\* up and not further: the last resort is never short, whatever the text.
THEOREM LastResortIsNeverShort == TokSpec => []LastResortRoundsUp
<1>1. TokInv => LastResortRoundsUp
  <2> SUFFICES ASSUME TokInv, counted # NotYet, Resolved(watch[1]) = Nil, defaultEnc = Nil
               PROVE  /\ 100 * counted >= Mul * WordsIn(watch[2])
                      /\ 100 * counted < Mul * WordsIn(watch[2]) + 100
    BY DEF LastResortRoundsUp
  <2>1. watch[2] \in Texts /\ watch[2] # << >>
    BY DEF TokInv, TokTypes
  <2>2. counted = wordCount(watch[2])
    BY <2>1 DEF TokInv, CountOK, CountWith
  <2> QED BY <2>1, <2>2, TextWords
<1> QED BY <1>1, TokInvariance, PTL

\* What a count returns is a natural number.
LEMMA CountNatural ==
  ASSUME TokTypes, NEW g \in Callers
  PROVE  CountWith(enc[g], text[g]) \in Nat
<1>1. enc[g] # Nil => enc[g] \in Encodings BY DEF TokTypes
<1>2. defaultEnc # Nil => defaultEnc \in Encodings BY DEF TokTypes, Encodings
<1>3. text[g] # << >> => text[g] \in Texts BY DEF TokTypes
<1> HIDE DEF Encodings
<1> QED BY <1>1, <1>2, <1>3, LengthsNatural, TextWords DEF CountWith

\* Every variable of the tokenizer keeps its type; a count is a natural number
\* whichever of the three ways it was made.
THEOREM TokTypeCorrect == TokSpec => []TokTypeOK
<1> DEFINE Rest == mu \in Callers \cup {Free} /\ counted \in Nat \cup {NotYet}
<1>1. TokInit => Rest BY DEF TokInit
<1>2. TokInv /\ Rest /\ [TokNext]_tokVars => Rest'
  <2> SUFFICES ASSUME TokInv, Rest, [TokNext]_tokVars PROVE Rest' OBVIOUS
  <2>1. CASE UNCHANGED tokVars BY <2>1 DEF tokVars
  <2>2. ASSUME NEW g \in Callers, Encode(g) PROVE Rest'
    BY <2>2, CountNatural DEF Encode, TokInv
  <2>3. ASSUME NEW g \in Callers, TokStep(g) \/ Return(g), ~Encode(g) PROVE Rest'
    <3>1. counted' = counted /\ mu' \in {mu, g, Free}
      BY <2>3 DEF TokStep, CountTokens, CountTokensForModel, Lock, Lookup, LoadEncoding, Return
    <3> QED BY <3>1
  <2> QED BY <2>1, <2>2, <2>3 DEF TokNext
<1>3. TokInv /\ Rest => TokTypeOK BY DEF TokInv, TokTypes, TokTypeOK
<1> HIDE DEF Rest
<1> QED BY <1>1, <1>2, <1>3, TokInvariance, PTL DEF TokSpec

-----------------------------------------------------------------------------
(***************************************************************************)
(* The composition.  Every step of the metered tokenizer is a step of the  *)
(* tokenizer or a step of the counter vector, or both, and never anything  *)
(* else: what was proved of the two holds of them together.                *)
(***************************************************************************)

\* A label a caller passed has its key in the counter vector.
LEMMA CallKeyKnown ==
  ASSUME TokTypes, NEW g \in Callers
  PROVE  CallKey(model[g]) \in Keys
BY KeysOfLabels DEF TokTypes

\* A step of the composition, seen from the tokenizer.
LEMMA StepOfTokenizer == [MTNext]_mtVars => [TokNext]_tokVars
<1> SUFFICES ASSUME MTNext PROVE [TokNext]_tokVars
  BY DEF mtVars, tokVars
<1> PICK g \in Goroutines : Run(g) BY DEF MTNext
<1>1. g \in Callers BY SameGoroutines
<1>2. CASE Inner(g) BY <1>1, <1>2 DEF Inner, TokNext
<1>3. CASE IncTokenizerCall(g) BY <1>3 DEF IncTokenizerCall
<1>4. CASE Allow(g) BY <1>4 DEF Allow
<1>5. CASE Finish(g) BY <1>1, <1>5 DEF Finish, TokNext
<1> QED BY <1>2, <1>3, <1>4, <1>5 DEF Run

\* A step of the composition, seen from the counter vector.
LEMMA StepOfVector == TokInv /\ [MTNext]_mtVars => [Next]_vars
<1> SUFFICES ASSUME TokInv, MTNext PROVE [Next]_vars
  BY DEF mtVars, vars
<1> PICK g \in Goroutines : Run(g) BY DEF MTNext
<1>1. CASE Inner(g) BY <1>1 DEF Inner
<1>2. CASE IncTokenizerCall(g)
  <2>1. CallKey(model[g]) \in Keys BY SameGoroutines, CallKeyKnown DEF TokInv
  <2> QED BY <1>2, <2>1 DEF IncTokenizerCall, Next, Step
<1>3. CASE Allow(g) BY <1>3 DEF Allow, Next, Step
<1>4. CASE Finish(g) BY <1>4 DEF Finish, Next, Step
<1> QED BY <1>1, <1>2, <1>3, <1>4 DEF Run

LEMMA IsTokenizer == MTSpec => TokSpec
BY StepOfTokenizer, PTL DEF MTSpec, MTInit, TokSpec

\* tokenizer.WithMetrics composed with the Prometheus recorder is, step by
\* step, a tokenizer and a capped counter vector.
THEOREM MeteredIsBoth == MTSpec => TokSpec /\ Spec
<1>1. MTInit => Init BY DEF MTInit
<1> QED BY <1>1, IsTokenizer, TokInvariance, StepOfVector, PTL DEF MTSpec, Spec

\* Counting through the wrapper keeps what the tokenizer and the vector
\* promise on their own.
COROLLARY MeteredKeepsPromises ==
  MTSpec => []LoadedOnce /\ CountsDeterministic /\ []SeriesBounded /\ []WarnedOnce
BY MeteredIsBoth, EncodingLoadedOnce, CountIsDeterministic, CapOvershootBounded,
   OperatorWarnedOnce, PTL

(***************************************************************************)
(* No call is lost in silence.  A call inside the vector belongs to a      *)
(* wrapper that has its count and has not returned, and carries its label. *)
(***************************************************************************)
InCall(g) == pc[g] # "idle" => at[g] = "emit" /\ key[g] = CallKey(model[g])

Accounted ==
  counted # NotYet =>
    \/ \E g \in Callers : at[g] = "emit" /\ model[g] = watch[1]
    \/ CallKey(watch[1]) \in series
    \/ exceeded

\* A step of the tokenizer keeps both: only a count makes one, and it is
\* pending then.
LEMMA InnerAccounts ==
  ASSUME TokInv, TypeOK, \A h \in Goroutines : InCall(h), Accounted,
         NEW g \in Callers, TokStep(g), UNCHANGED vars
  PROVE  (\A h \in Goroutines : InCall(h)') /\ Accounted'
<1>0. TokTypes BY DEF TokInv
<1>1. /\ at[g] # "emit" /\ watch' = watch
      /\ \A h \in Callers \ {g} : at'[h] = at[h] /\ model'[h] = model[h]
  BY <1>0 DEF TokStep, CountTokens, CountTokensForModel, Lock, Lookup, LoadEncoding, Encode,
     TokGoto, TokTypes
<1>2. counted' = counted \/ (at'[g] = "emit" /\ model'[g] = watch[1])
  <2>1. CASE Encode(g)
    <3>1. at'[g] = "emit" /\ model' = model BY <1>0, <2>1 DEF Encode, TokGoto, TokTypes
    <3>2. <<model[g], text[g]>> = watch => model[g] = watch[1] OBVIOUS
    <3>3. counted' = counted \/ <<model[g], text[g]>> = watch BY <2>1 DEF Encode
    <3> QED BY <3>1, <3>2, <3>3
  <2>2. CASE ~Encode(g)
    <3>1. counted' = counted
      BY <2>2 DEF TokStep, CountTokens, CountTokensForModel, Lock, Lookup, LoadEncoding
    <3> QED BY <3>1
  <2> QED BY <2>1, <2>2
<1>3. pc' = pc /\ key' = key /\ series' = series /\ exceeded' = exceeded BY DEF vars
<1>4. \A h \in Goroutines : InCall(h)' BY <1>1, <1>3, SameGoroutines DEF InCall
<1>5. Accounted' BY <1>1, <1>2, <1>3 DEF Accounted
<1> QED BY <1>4, <1>5

\* So does a step of the vector that is not its last for the call.
LEMMA VectorAccounts ==
  ASSUME TokInv, TypeOK, \A h \in Goroutines : InCall(h), Accounted,
         NEW g \in Goroutines, IncTokenizerCall(g) \/ Allow(g)
  PROVE  (\A h \in Goroutines : InCall(h)') /\ Accounted'
<1> USE DEF TypeOK, Goto
<1>1. at' = at /\ model' = model /\ watch' = watch /\ counted' = counted
  BY DEF IncTokenizerCall, Allow, tokVars
<1>2. series' = series /\ exceeded' = exceeded
  BY DEF IncTokenizerCall, Allow, Call, Load, Check, Store, Add
<1>3. \A h \in Goroutines : InCall(h)'
  BY <1>1 DEF IncTokenizerCall, Allow, Call, Load, Check, Store, Add, InCall
<1> QED BY <1>1, <1>2, <1>3 DEF Accounted

\* The last one makes the series or raises the flag.
LEMMA FinishAccounts ==
  ASSUME TokInv, TypeOK, \A h \in Goroutines : InCall(h), Accounted,
         NEW g \in Goroutines, Finish(g)
  PROVE  (\A h \in Goroutines : InCall(h)') /\ Accounted'
<1>0. TokTypes /\ g \in Callers BY SameGoroutines DEF TokInv
<1>1. /\ watch' = watch /\ counted' = counted
      /\ \A h \in Callers \ {g} : at'[h] = at[h] /\ model'[h] = model[h]
  BY <1>0 DEF Finish, Return, TokGoto, TokTypes
<1>2. /\ pc'[g] = "idle" /\ pc[g] # "idle"
      /\ \A h \in Goroutines \ {g} : pc'[h] = pc[h] /\ key'[h] = key[h]
  <2>1. Goto(g, "inc", "idle") \/ Goto(g, "exceed", "idle") BY DEF Finish, Inc, Exceed
  <2>2. key' = [key EXCEPT ![g] = NoCall] BY DEF Finish, Inc, Exceed
  <2> QED BY <2>1, <2>2 DEF Goto, TypeOK
<1>3. /\ series \subseteq series' /\ (exceeded => exceeded')
      /\ exceeded' \/ CallKey(model[g]) \in series'
  <2>1. key[g] = CallKey(model[g]) BY <1>2 DEF InCall
  <2> QED BY <2>1 DEF Finish, Inc, Exceed
<1>4. ASSUME NEW h \in Goroutines PROVE InCall(h)'
  <2>1. CASE h = g BY <1>2, <2>1 DEF InCall
  <2>2. CASE h # g BY <1>1, <1>2, <2>2, SameGoroutines DEF InCall
  <2> QED BY <2>1, <2>2
<1>5. Accounted' BY <1>1, <1>3 DEF Accounted
<1> QED BY <1>4, <1>5

\* Every model name that was counted for, and whose callers have all been
\* answered, is a series of tokenizer_calls_total or the operator was warned.
THEOREM NoCallLostSilently == MTSpec => []NoSilentLoss
<1> DEFINE MInv == (\A g \in Goroutines : InCall(g)) /\ Accounted
<1>1. MTInit => MInv
  BY SameGoroutines DEF MTInit, TokInit, Init, InCall, Accounted
<1>2. TokInv /\ IInv /\ MInv /\ [MTNext]_mtVars => MInv'
  <2> SUFFICES ASSUME TokInv, IInv, MInv, [MTNext]_mtVars PROVE MInv' OBVIOUS
  <2>0. TypeOK BY DEF IInv
  <2>1. ASSUME NEW g \in Goroutines, Run(g) PROVE MInv'
    <3>1. CASE Inner(g) BY <2>0, <3>1, InnerAccounts, SameGoroutines DEF Inner
    <3>2. CASE IncTokenizerCall(g) \/ Allow(g) BY <2>0, <3>2, VectorAccounts
    <3>3. CASE Finish(g) BY <2>0, <3>3, FinishAccounts
    <3> QED BY <2>1, <3>1, <3>2, <3>3 DEF Run
  <2>2. CASE UNCHANGED mtVars
    BY <2>2 DEF mtVars, tokVars, vars, InCall, Accounted
  <2> QED BY <2>1, <2>2 DEF MTNext
<1>3. MInv => NoSilentLoss BY DEF Accounted, NoSilentLoss
<1> HIDE DEF MInv
<1> QED BY <1>1, <1>2, <1>3, MeteredIsBoth, TokInvariance, Invariance, PTL DEF MTSpec
=============================================================================
