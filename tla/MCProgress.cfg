\* Everything that is started comes to its end.
SPECIFICATION FairSpec
CONSTANTS
  alice = alice
  bob = bob
  t1 = t1
  t2 = t2
  Users = {alice, bob}
  SessionIDs = {s1, s2}
  MaxChannelID = 2
  NoUser = NoUser
  NoSession = NoSession
  Addrs = {}
  NoAddr = NoAddr
  Tokens = {}
  NoToken = NoToken
  Conns = {k1, k2}
  Kinds = {"join", "leave", "delete", "kick"}
  ChannelSpecs = {}
  InitUsers <- AliceLeads
  InitTokens <- NoTokens
  InitChannels <- WithTemp
  AllowNoToken = TRUE
  StoreMayFail = FALSE
  MaxRequests = 2
PROPERTIES
  HandlersReturn
  HangUpCleansUp
  KickTakesHold
  EmptiedTempGoes
