\* An administrator and a user log in and hang up, create, use and delete channels
\* while cleanup timers run and the store fails now and then.
SPECIFICATION Spec
CONSTANTS
  alice = alice
  bob = bob
  t1 = t1
  t2 = t2
  Users = {alice, bob}
  SessionIDs = {s1, s2}
  MaxChannelID = 3
  NoUser = NoUser
  NoSession = NoSession
  Addrs = {}
  NoAddr = NoAddr
  Tokens = {}
  NoToken = NoToken
  Conns = {k1, k2}
  Kinds = {"join", "leave", "create", "delete"}
  ChannelSpecs <- NewTempOrLobby
  InitUsers <- AliceLeads
  InitTokens <- NoTokens
  InitChannels <- WithTemp
  AllowNoToken = TRUE
  StoreMayFail = TRUE
  MaxRequests = 4
SYMMETRY ConnSymmetry
INVARIANTS
  ServerTypeOK
  MembersLive
  SeatAgrees
PROPERTIES
  PermanentNeverExpires
  ClosedToNewcomers
