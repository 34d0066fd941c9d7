\* All six modules, optional fields missing, non-positive, small and large
\* enough to wrap; streams of up to three lines.
CONSTANTS
  Absent = Absent
  IntMax = 127
  PixelsPerUnit = 10
  DefaultMaxCompletionTokens = 20
  DefaultMaxAudioSeconds = 36
  DefaultN = 1
  DefaultSteps = 3
  DefaultSize <- MCDefaultSize
  Requests <- MCRequests
  AudioCeils = {0, 7}
  Usages <- MCUsages
  BackendStatuses <- MCStatuses
  MaxLines = 3
SPECIFICATION Spec
INVARIANTS TypeOK ImageEstimateIsCeiling StreamUsageDelivered ServeOutcomeEnvelope BackendCountedOnce
