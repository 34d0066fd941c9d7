-------------------------- MODULE MeteredTokenizer --------------------------
(***************************************************************************)
(* tokenizer.WithMetrics as the worker wires it: a count, then one         *)
(* IncTokenizerCall on the Prometheus recorder, whose counter vector       *)
(* tokenizer_calls_total is capped (CapVec).  The label is the model name  *)
(* as the caller passed it, while the cache of encodings is keyed by the   *)
(* trimmed name.                                                           *)
(***************************************************************************)
EXTENDS Tokenizer, CapVec

\* The callers of the tokenizer are the goroutines that update the metric.
ASSUME SameGoroutines == Callers = Goroutines

mtVars == <<tokVars, vars>>

NUL == "NUL"
LabelUnset == <<"_unset_">>
OutcomeOK == <<"ok">>

unset(v) == IF v = << >> THEN LabelUnset ELSE v

\* Every value is followed by a NUL.
joinNul(vs) == FoldLeft(LAMBDA out, v : out \o v \o <<NUL>>, << >>, vs)

\* The key of IncTokenizerCall(m, OutcomeOK) in the counter vector.
CallKey(m) == joinNul(<<unset(m), unset(OutcomeOK)>>)

ASSUME KeysOfLabels == Keys = {CallKey(m) : m \in Labels}

MTInit == TokInit /\ Init

\* The inner tokenizer at work.
Inner(g) == TokStep(g) /\ UNCHANGED vars

\* IncTokenizerCall enters the counter vector.
IncTokenizerCall(g) ==
  /\ at[g] = "emit"
  /\ Call(g, CallKey(model[g]))
  /\ UNCHANGED tokVars

\* capVec.allow, one shared access at a time.
Allow(g) == (Load(g) \/ Check(g) \/ Store(g) \/ Add(g)) /\ UNCHANGED tokVars

\* The last access of inc, counted or dropped, and the wrapper's return.
Finish(g) == (Inc(g) \/ Exceed(g)) /\ Return(g)

Run(g) == Inner(g) \/ IncTokenizerCall(g) \/ Allow(g) \/ Finish(g)

MTNext == \E g \in Goroutines : Run(g)

\* A goroutine that has started a count keeps running, and a waiter gets the
\* mutex in the end: sync.Mutex hands it to its oldest waiter after 1 ms.
\* EncodingForModel is assumed to return.
Fairness ==
  \A g \in Goroutines :
    /\ SF_mtVars(Lock(g) /\ UNCHANGED vars)
    /\ WF_mtVars(at[g] # "idle" /\ Run(g))

MTSpec == MTInit /\ [][MTNext]_mtVars
FairMTSpec == MTSpec /\ Fairness

-----------------------------------------------------------------------------
\* Every model name that tokens were counted for, and whose callers have all
\* been answered, is a series of tokenizer_calls_total, unless the operator has
\* been told that the cap is exceeded: no call is lost from the metric in silence.
NoSilentLoss ==
  counted # NotYet /\ (\A g \in Callers : at[g] = "emit" => model[g] # watch[1]) =>
    CallKey(watch[1]) \in series \/ exceeded

\* A count that waits for the mutex, or holds it, returns to its caller.
CountsReturn == \A g \in Goroutines : (at[g] = "lock") ~> (at[g] = "idle")
=============================================================================
