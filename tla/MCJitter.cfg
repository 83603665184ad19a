\* Nine packets in any order, repeated or lost, from the start of the numbers
\* and across their wrap; 2^32, 5 and 10 become 12, 1 and 2.
SPECIFICATION FairSpec
CONSTANTS
  SeqMod = 12
  jitterBufSize = 1
  maxJitterDelay = 2
  MaxPackets = 9
  FirstSeqs = {1, 8}
INVARIANTS
  FramesBounded
  PlaysWhatIsDue
  DueIsHeard
PROPERTIES
  LoopEnds
