------------------------------- MODULE CapVec -------------------------------
(***************************************************************************)
(* capVec (internal/providers/metrics/prometheus.go): a counter vector     *)
(* whose number of label tuples is capped.  allow() reads and writes a     *)
(* sync.Map, an atomic counter and an atomic flag one after the other with *)
(* no lock around them; goroutines interleave between any two accesses.    *)
(***************************************************************************)
EXTENDS Integers, FiniteSets

CONSTANTS Goroutines,  \* goroutines that update the metric
          Keys,        \* label tuples, joined with NUL into one key
          Caps         \* values max_series_per_metric may have; 0 disables it

ASSUME GoroutinesFinite == IsFiniteSet(Goroutines)
ASSUME CapsNatural == Caps \subseteq Nat
ASSUME SomeKey == Keys # {}

VARIABLES max,         \* set once by ApplyCap, before the metric is used
          seen,        \* c.seen
          count,       \* c.count
          exceeded,    \* c.exceeded
          warnings,    \* number of onExceed calls
          series,      \* label tuples that exist in the Prometheus vector
          pc, key      \* per goroutine: next access, label tuple of its call

vars == <<max, seen, count, exceeded, warnings, series, pc, key>>

NoCall == CHOOSE k \in Keys : TRUE    \* key of a goroutine outside inc and add

Points == {"idle", "load", "check", "store", "add", "exceed", "inc"}

TypeOK ==
  /\ max \in Nat
  /\ seen \subseteq Keys
  /\ count \in Nat
  /\ exceeded \in BOOLEAN
  /\ warnings \in Nat
  /\ series \subseteq Keys
  /\ pc \in [Goroutines -> Points]
  /\ key \in [Goroutines -> Keys]

Init ==
  /\ max \in Caps
  /\ seen = {} /\ count = 0 /\ exceeded = FALSE /\ warnings = 0 /\ series = {}
  /\ pc = [g \in Goroutines |-> "idle"]
  /\ key = [g \in Goroutines |-> NoCall]

Goto(g, from, to) == pc[g] = from /\ pc' = [pc EXCEPT ![g] = to]

\* inc or add is called with a label tuple.
Call(g, k) ==
  /\ Goto(g, "idle", "load")
  /\ key' = [key EXCEPT ![g] = k]
  /\ UNCHANGED <<max, seen, count, exceeded, warnings, series>>

\* max <= 0 or seen.Load(key) hits: the update goes through.
Load(g) ==
  /\ \/ Goto(g, "load", "inc") /\ (max <= 0 \/ key[g] \in seen)
     \/ Goto(g, "load", "check") /\ max > 0 /\ key[g] \notin seen
  /\ UNCHANGED <<max, seen, count, exceeded, warnings, series, key>>

\* Mutated form: the comparison with the cap is off by one.
Check_OffByOne(g) ==
  /\ \/ Goto(g, "check", "exceed") /\ count > max
     \/ Goto(g, "check", "store") /\ count <= max
  /\ UNCHANGED <<max, seen, count, exceeded, warnings, series, key>>

\* count.Load() >= max
Check(g) ==
  /\ \/ Goto(g, "check", "exceed") /\ count >= max
     \/ Goto(g, "check", "store") /\ count < max
  /\ UNCHANGED <<max, seen, count, exceeded, warnings, series, key>>

\* Mutated form: the update is dropped without a trace.
Exceed_Silent(g) ==
  /\ Goto(g, "exceed", "idle")
  /\ key' = [key EXCEPT ![g] = NoCall]
  /\ UNCHANGED <<max, seen, count, exceeded, warnings, series>>

\* Mutated form: the flag is set but not tested.
Exceed_EveryTime(g) ==
  /\ Goto(g, "exceed", "idle")
  /\ exceeded' = TRUE
  /\ warnings' = warnings + 1
  /\ key' = [key EXCEPT ![g] = NoCall]
  /\ UNCHANGED <<max, seen, count, series>>

\* exceeded.CompareAndSwap(false, true) decides who logs; the update is dropped.
Exceed(g) ==
  /\ Goto(g, "exceed", "idle")
  /\ exceeded' = TRUE
  /\ warnings' = IF exceeded THEN warnings ELSE warnings + 1
  /\ key' = [key EXCEPT ![g] = NoCall]
  /\ UNCHANGED <<max, seen, count, series>>

Store(g) ==
  /\ Goto(g, "store", "add")
  /\ seen' = seen \cup {key[g]}
  /\ UNCHANGED <<max, count, exceeded, warnings, series, key>>

Add(g) ==
  /\ Goto(g, "add", "inc")
  /\ count' = count + 1
  /\ UNCHANGED <<max, seen, exceeded, warnings, series, key>>

\* WithLabelValues creates the series if it is new.
Inc(g) ==
  /\ Goto(g, "inc", "idle")
  /\ series' = series \cup {key[g]}
  /\ key' = [key EXCEPT ![g] = NoCall]
  /\ UNCHANGED <<max, seen, count, exceeded, warnings>>

Step(g) == \/ \E k \in Keys : Call(g, k)
           \/ Load(g) \/ Check(g) \/ Exceed(g) \/ Store(g) \/ Add(g) \/ Inc(g)

Next == \E g \in Goroutines : Step(g)

Spec == Init /\ [][Next]_vars

-----------------------------------------------------------------------------
(***************************************************************************)
(* What holds.                                                             *)
(***************************************************************************)

\* Goroutines that passed the cap check and have not yet raised the counter.
Window == {g \in Goroutines : pc[g] \in {"store", "add"}}

\* The true bound of the cap: goroutines that pass the check together can
\* overshoot it, but by fewer tuples than there are goroutines.
SeriesBounded ==
  max > 0 => Cardinality(series) <= max + Cardinality(Goroutines) - 1

\* The operator hears of an exceeded cap at most once per metric, and only if
\* the counter really reached the cap, however many updates race.
WarnedOnce ==
  /\ warnings <= 1
  /\ warnings = 1 => count >= max

=============================================================================
