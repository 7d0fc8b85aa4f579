SPECIFICATION VoiceSpec
CONSTANTS
  Calls = {c1, c2}
  Timed = {c1, c2}
  MAX_CONCURRENT_CALLS = 1
  MaxTurns = 1
  MaxOutages = 0
INVARIANT HardCeiling
CHECK_DEADLOCK FALSE
