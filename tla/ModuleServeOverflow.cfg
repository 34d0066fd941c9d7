\* Image requests whose product does not fit a machine word.
CONSTANTS
  Absent = Absent
  IntMax = 127
  PixelsPerUnit = 10
  DefaultMaxCompletionTokens = 20
  DefaultMaxAudioSeconds = 36
  DefaultN = 1
  DefaultSteps = 3
  DefaultSize <- MCDefaultSize
  Requests <- MCRequests
  AudioCeils = {0, 7}
  Usages <- MCUsages
  BackendStatuses <- MCStatuses
  MaxLines = 3
SPECIFICATION Spec
INVARIANT NeverUndercharged
