\* A server and an export command over one database, killed anywhere.
SPECIFICATION FairSpec
CONSTANTS
  Server = server
  Procs = {server, tool}
  Importers = {server, admin}
  LegacyFile = TRUE
  AlterMayFail = FALSE
  MaxFaults = 3
  Config <- SmallTree
  TempNames = {"Chess"}
  MaxRequests = 1
  LogsInfo = TRUE
CONSTRAINT
  ExportKeepsUp
INVARIANTS
  StartTypeOK
  OpenedComplete
  NoTwins
  ImportPlaces
  ExportRoundTrips
  OneAdminToken
PROPERTIES
  CertStays
  ComesUp
