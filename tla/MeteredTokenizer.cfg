\* Two goroutines, a model name tiktoken knows and one it does not, encodings
\* that load or fail, the cap on tokenizer_calls_total off or at one.
CONSTANTS
  Callers = {g1, g2}
  Goroutines = {g1, g2}
  Models <- MCModels
  Texts <- MCTexts
  Encoding <- MCEncoding
  DefaultEnc = "cl100k_base"
  BPE <- MCBPE
  Mul = 133
  Keys <- MCKeys
  Caps = {0, 1}
SPECIFICATION FairMTSpec
INVARIANTS TokTypeOK LoadedOnce LastResortRoundsUp NoSilentLoss SeriesBounded WarnedOnce
PROPERTIES CountsDeterministic CountsReturn
