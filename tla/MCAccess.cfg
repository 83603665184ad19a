\* An administrator changes roles, issues tokens, kicks and bans while logins use
\* tokens up and the targets log in, several times each; the store fails now and
\* then.
SPECIFICATION Spec
CONSTANTS
  alice = alice
  bob = bob
  t1 = t1
  t2 = t2
  Users = {alice, bob}
  SessionIDs = {s1, s2}
  MaxChannelID = 1
  NoUser = NoUser
  NoSession = NoSession
  Addrs = {}
  NoAddr = NoAddr
  Tokens = {t1, t2}
  NoToken = NoToken
  Conns = {k1, k2}
  Kinds = {"join", "leave", "state", "role", "token", "kick", "ban"}
  ChannelSpecs = {}
  InitUsers <- AliceAdmin
  InitTokens <- OneUse
  InitChannels <- OneLobby
  AllowNoToken = TRUE
  StoreMayFail = TRUE
  MaxRequests = 2
SYMMETRY ConnSymmetry
INVARIANTS
  SessionsOwned
  ConnsRegistered
  SeatAgrees
  TokenUsesCounted
PROPERTIES
  NoEscalation
  BannedStayOut
