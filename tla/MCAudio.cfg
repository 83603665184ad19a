\* The user connects a second time; no audio device fails.
SPECIFICATION Spec
CONSTANTS
  MaxConnects = 2
  AudioFails = {}
  AutoTokens = {}
  Saves = {}
  Kicks = {}
  MaxEvents = 3
INVARIANTS
  AudioReady
CHECK_DEADLOCK FALSE
