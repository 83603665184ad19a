\* A gap of more than maxJitterDelay packets.
SPECIFICATION Spec
CONSTANTS
  SeqMod = 12
  jitterBufSize = 1
  maxJitterDelay = 2
  MaxPackets = 7
  FirstSeqs = {1}
INVARIANTS
  WaitsNoLonger
