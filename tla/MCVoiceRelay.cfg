\* Three sessions move between two channels, the second of which is one more
\* than a packet has room for (WireMod stands for 2^16).
SPECIFICATION VoiceSpec
CONSTANTS
  Users = {alice}
  SessionIDs = {s1, s2, s3}
  MaxChannelID = 2
  NoUser = NoUser
  NoSession = NoSession
  Addrs = {a1, a2}
  NoAddr = NoAddr
  WireMod = 2
  UserStates <- OneAtATime
SYMMETRY Symmetry
INVARIANTS
  OnlyItsChannelHears
  EveryoneIsServed
PROPERTIES
  ImplementsMembership
  AddressStays
