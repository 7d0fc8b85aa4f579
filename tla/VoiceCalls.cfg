SPECIFICATION VoiceSpec
CONSTANTS
  Calls = {c1, c2}
  Timed = {c1}
  MAX_CONCURRENT_CALLS = 1
  MaxTurns = 2
  MaxOutages = 2
INVARIANTS
  VoiceTypeOK
  CeilingWithoutOverlap
  CleanCallIsComplete
PROPERTY TranscriptKeepsTurns
CHECK_DEADLOCK FALSE
