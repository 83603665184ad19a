--------------------------- MODULE SessionManager ---------------------------
(***************************************************************************)
(* pkg/server/session.go: the sessions that are online.  Each method runs  *)
(* under sm.mu; the setters do nothing for an ID that is gone.             *)
(***************************************************************************)
EXTENDS Model, Maps

CONSTANTS
  Addrs,     \* UDP addresses (IP and port)
  NoAddr     \* nil, before the first voice packet of a session

ASSUME AddrAssumption == NoAddr \notin Addrs

VARIABLE sessions    \* session ID -> session

Sessions ==
  [user : Users, role : Roles, channel : ChannelIDs \cup {NoChannel},
   udp : Addrs \cup {NoAddr}, muted : BOOLEAN, deafened : BOOLEAN]

NewSessionManager == sessions = <<>>

\* A draw that is not checked against the table.
AnyID == SessionIDs

\* Create: the loop draws until the ID is fresh, so any free ID may come out -
\* also one that an earlier session used
FreeIDs == SessionIDs \ DOMAIN sessions

Create(id, u, r) ==
  sessions' = Put(sessions, id,
    [user |-> u, role |-> r, channel |-> NoChannel,
     udp |-> NoAddr, muted |-> FALSE, deafened |-> FALSE])

Remove(id) == sessions' = Drop(sessions, id)

\* The sessions GetByUserIDSnapshot may return: whichever the map yields first
SessionsOf(u) == {id \in DOMAIN sessions : sessions[id].user = u}

\* A setter, applied to the session if it is still there
Update(id, new) ==
  sessions' = IF id \in DOMAIN sessions THEN Put(sessions, id, new) ELSE sessions

SetChannel(id, c)  == Update(id, [sessions[id] EXCEPT !.channel = c])
UpdateRole(id, r)  == Update(id, [sessions[id] EXCEPT !.role = r])
SetUDPAddr(id, a)  == Update(id, [sessions[id] EXCEPT !.udp = a])
UpdateUserState(id, m, d) ==
  Update(id, [sessions[id] EXCEPT !.muted = m, !.deafened = d])
=============================================================================
