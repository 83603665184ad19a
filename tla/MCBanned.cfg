\* A user logged in twice is banned.
SPECIFICATION Spec
CONSTANTS
  alice = alice
  bob = bob
  t1 = t1
  t2 = t2
  Users = {alice, bob}
  SessionIDs = {s1, s2, s3}
  MaxChannelID = 1
  NoUser = NoUser
  NoSession = NoSession
  Addrs = {}
  NoAddr = NoAddr
  Tokens = {}
  NoToken = NoToken
  Conns = {k1, k2, k3}
  Kinds = {"ban"}
  ChannelSpecs = {}
  InitUsers <- AliceLeads
  InitTokens <- NoTokens
  InitChannels <- OneLobby
  AllowNoToken = TRUE
  StoreMayFail = FALSE
  MaxRequests = 1
INVARIANTS
  BannedAreOffline
