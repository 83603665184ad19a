--------------------------- MODULE ChannelManager ---------------------------
(***************************************************************************)
(* pkg/server/channels.go: who is in which voice channel, kept twice - by  *)
(* channel for the relay and the counts, by session for the move out of    *)
(* the previous channel.  Each method runs under cm.mu, so each is one     *)
(* step; the manager itself does not know which channels the store has.    *)
(***************************************************************************)
EXTENDS Model, Maps

VARIABLES
  members,            \* channel ID -> the non-empty set of its sessions
  sessionToChannel    \* session ID -> its channel

roomVars == <<members, sessionToChannel>>

NewChannelManager == members = <<>> /\ sessionToChannel = <<>>

\* Members(c) and len of it: a channel without an entry reads as empty
Members(c) == IF c \in DOMAIN members THEN members[c] ELSE {}
MembersCount(c) == Cardinality(Members(c))

\* sessionToChannel[s] in Go: the zero value when there is no entry
ChannelOf(s) ==
  IF s \in DOMAIN sessionToChannel THEN sessionToChannel[s] ELSE NoChannel

\* The index without session s; a channel that s leaves empty loses its entry
Without(s) ==
  LET c == ChannelOf(s) IN
    IF Members(c) \subseteq {s}
    THEN Drop(members, c)
    ELSE Put(members, c, Members(c) \ {s})

\* A Join that does not take the session out of its previous channel.
JoinStaysBehind(s, c) ==
  /\ members' = Put(members, c, Members(c) \cup {s})
  /\ sessionToChannel' = Put(sessionToChannel, s, c)

\* Join(s, c) returns the previous channel, ChannelOf(s) before the step
Join(s, c) ==
  LET rest == Without(s) IN
    /\ members' = Put(rest, c, (IF c \in DOMAIN rest THEN rest[c] ELSE {}) \cup {s})
    /\ sessionToChannel' = Put(sessionToChannel, s, c)

\* A Leave that stores channel 0 for the session instead of deleting its entry.
LeaveStoresZero(s) ==
  /\ members' = Without(s)
  /\ sessionToChannel' = Put(sessionToChannel, s, NoChannel)

\* Leave(s) returns the channel left, ChannelOf(s) before the step, or 0
Leave(s) ==
  /\ members' = IF s \in DOMAIN sessionToChannel THEN Without(s) ELSE members
  /\ sessionToChannel' = Drop(sessionToChannel, s)

-----------------------------------------------------------------------------
CMNext == \E s \in SessionIDs : Leave(s) \/ \E c \in ChannelIDs : Join(s, c)

CMSpec == NewChannelManager /\ [][CMNext]_roomVars

RoomsTypeOK ==
  /\ IsMap(members, ChannelIDs, SUBSET SessionIDs)
  /\ IsMap(sessionToChannel, SessionIDs, ChannelIDs)

(***************************************************************************)
(* The two maps of the ChannelManager always tell the same story: the      *)
(* relay (Members) and the channel check of the voice path (ChannelOf)     *)
(* can never disagree about who is where, however Join and Leave are       *)
(* interleaved, and no emptied channel keeps an entry.                     *)
(***************************************************************************)
IndexAgree ==
  /\ \A s \in SessionIDs, c \in ChannelIDs :
       s \in Members(c) <=> (s \in DOMAIN sessionToChannel /\ sessionToChannel[s] = c)
  /\ \A c \in DOMAIN members : members[c] # {}

\* The channel whose member list names s; -1, which is no channel, if several do
Seat(s) ==
  LET cs == {c \in DOMAIN members : s \in members[c]} IN
    IF cs = {} THEN NoChannel
    ELSE IF \E c \in cs : cs = {c} THEN CHOOSE c \in cs : TRUE
    ELSE -1

(***************************************************************************)
(* What the manager promises: read back through the member lists, the maps *)
(* are one channel per session, Join moves exactly one session and Leave   *)
(* removes exactly one.                                                    *)
(***************************************************************************)
Promise == INSTANCE Membership WITH chanOf <- [s \in SessionIDs |-> Seat(s)]

\* The index by channel, read back as one channel per session, takes only the
\* steps of Membership.
ImplementsMembership == Promise!Spec
=============================================================================
