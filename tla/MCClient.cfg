\* Three things that the user, the server or the network does - forms, buttons,
\* hotkeys, joins, a lost connection, a kick - come at any time; devices fail.
SPECIFICATION FairSpec
CONSTANTS
  MaxConnects = 2
  AudioFails = {2}
  AutoTokens = {2}
  Saves = {2}
  Kicks = {1}
  MaxEvents = 3
INVARIANTS
  OneOwner
  ConnectedIsLive
  ButtonLeft
  AfterMute
  BookmarkRight
PROPERTIES
  LostIsTold
\* The user may stop, and the bounds run out.
CHECK_DEADLOCK FALSE
