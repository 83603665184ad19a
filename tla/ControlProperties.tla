-------------------------- MODULE ControlProperties --------------------------
(***************************************************************************)
(* What the control plane of pkg/server guarantees, and what its comments  *)
(* say of it.                                                              *)
(***************************************************************************)
EXTENDS ControlServer

GoroutinesTypeOK ==
  /\ pc \in [Conns -> Labels]
  /\ open \in [Conns -> BOOLEAN]
  /\ sid \in [Conns -> SessionIDs \cup {NoSession}]
  /\ who \in [Conns -> Users \cup {NoUser}]
  /\ cred \in [Conns -> Tokens \cup {NoToken}]
  /\ arg \in [Conns -> Frames]
  /\ tempChanTimes \subseteq Users
  /\ asleep \in [ChannelIDs -> Nat]
  /\ deleting \in [ChannelIDs -> Nat]
  /\ active \in Int
  /\ budget \in Nat

\* What a step may rely on: the locals it uses have been set
Fits(user, label, frame) ==
  /\ label \notin {"idle", "auth", "closed"} => user \in Users
  /\ label \in {"join_count", "join_move", "join_set", "temp_lookup", "temp_count",
               "del_store", "del_members", "del_leave", "del_set", "bye_lookup",
               "bye_count"} => frame.ch \in ChannelIDs
  /\ label \in {"ban_store", "evict_find", "evict_close", "role_store", "role_find",
               "role_set"} => frame.user \in Users
  /\ label = "tok_store" => frame.tok \in Tokens

LocalsSet == \A k \in Conns : Fits(who[k], pc[k], arg[k])

SessionsTypeOK ==
  /\ IsMap(sessions, SessionIDs, Sessions)
  /\ IsMap(connMap, SessionIDs, Conns)

ServerTypeOK ==
  RoomsTypeOK /\ StoreTypeOK /\ GoroutinesTypeOK /\ LocalsSet /\ SessionsTypeOK

-----------------------------------------------------------------------------
(* Whose session, connection and seat it is *)

\* Between sessions.Create and sessions.Remove
Live(k) == pc[k] \in {"set_conn", "respond", "loop"} \cup RequestSteps \cup ByeSteps

\* Between setConn and removeConn
Registered(k) ==
  pc[k] \in {"respond", "loop", "bye_leave", "bye_conn"} \cup RequestSteps

\* Before the cleanup's channels.Leave
Seated(k) == pc[k] \in {"set_conn", "respond", "loop", "bye_leave"} \cup RequestSteps

(***************************************************************************)
(* Every session in the table belongs to exactly one goroutine that will   *)
(* remove it, and it carries that goroutine's user: concurrent logins,     *)
(* logins under the same name, kicks and disconnects in any order neither  *)
(* leak a session nor let two connections share one, although IDs are      *)
(* drawn again once they are free.                                         *)
(***************************************************************************)
SessionsOwned ==
  /\ \A k \in Conns : Live(k) => /\ sid[k] \in DOMAIN sessions
                                 /\ sessions[sid[k]].user = who[k]
  /\ \A j, k \in Conns : Live(j) /\ Live(k) /\ sid[j] = sid[k] => j = k
  /\ \A s \in DOMAIN sessions : \E k \in Conns : Live(k) /\ sid[k] = s

(***************************************************************************)
(* connMap is exact: a session's entry is the connection of the goroutine  *)
(* that owns it, from setConn to removeConn.  A cleanup that let go of the *)
(* ID before removeConn could delete the entry of the session that drew    *)
(* the ID next, which would then get no broadcast and escape kicks.        *)
(***************************************************************************)
ConnsRegistered ==
  /\ \A k \in Conns : Registered(k) => /\ sid[k] \in DOMAIN connMap
                                       /\ connMap[sid[k]] = k
  /\ \A s \in DOMAIN connMap : Registered(connMap[s]) /\ sid[connMap[s]] = s

(***************************************************************************)
(* Only sessions that are online sit in channels: whoever the relay and    *)
(* the member lists find there has a goroutine that has yet to run its     *)
(* channels.Leave, so no disconnect leaves a member behind.                *)
(***************************************************************************)
MembersLive ==
  \A s \in DOMAIN sessionToChannel : \E k \in Conns : Seated(k) /\ sid[k] = s

\* handleDeleteChannel, on members listed a while ago, takes either of the two away
Agree(field, seat) ==
  \/ field = seat
  \/ "delete" \in Kinds /\ NoChannel \in {field, seat}

(***************************************************************************)
(* A session's own channel field (SetChannel) and its seat (Join, Leave)   *)
(* are written under two locks, by its own handler and by those that       *)
(* delete channels.  Between its requests the two agree; deletions that    *)
(* come between a Join and its SetChannel, or work on a member that has    *)
(* moved on, may take one of them away, but never make them name two       *)
(* different channels.                                                     *)
(***************************************************************************)
SeatAgrees ==
  \A k \in Conns : pc[k] = "loop" => Agree(Mine(k).channel, ChannelOf(sid[k]))

-----------------------------------------------------------------------------
(* Tokens, roles and bans *)

(***************************************************************************)
(* ValidateToken counts every login made with a token, and no interleaving *)
(* of logins gets more of them out of it than its max_uses.                *)
(***************************************************************************)
TokenUsesCounted ==
  \A t \in DOMAIN tokens :
    /\ tokens[t].useCount =
         Cardinality({k \in Conns : cred[k] = t})
         + IF t \in DOMAIN InitTokens THEN InitTokens[t].useCount ELSE 0
    /\ tokens[t].maxUses > 0 => tokens[t].useCount <= tokens[t].maxUses

RolesAround ==
  {users[u] : u \in DOMAIN users} \cup {tokens[t].role : t \in DOMAIN tokens}
  \cup {sessions[s].role : s \in DOMAIN sessions} \cup {arg[k].role : k \in Conns}

(***************************************************************************)
(* Nobody climbs above the highest role around - stored, online, in a      *)
(* token or in a request under way: once the last administrator is gone,   *)
(* no mix of logins, role changes and tokens makes one.                    *)
(***************************************************************************)
NoEscalation ==
  [][\A r \in Roles : (\A x \in RolesAround : x <= r)
                        => (\A x \in RolesAround' : x <= r)]_vars

\* Banned, without a session and without a login that is past the ban check
ShutOut(u) ==
  /\ IsUserBanned(u)
  /\ \A k \in Conns : who[k] = u => ~Live(k) /\ pc[k] # "new_session"

(***************************************************************************)
(* A banned user who is out stays out as long as a ban is in force: no     *)
(* login, second login or failing store lets the user back in.             *)
(***************************************************************************)
BannedStayOut ==
  [][\A u \in Users : ShutOut(u) /\ IsUserBanned(u)' => ShutOut(u)']_vars

-----------------------------------------------------------------------------
(* Channels *)

(***************************************************************************)
(* A permanent channel disappears only in answer to a delete request for   *)
(* it.  The sleeping goroutine of cleanupTempChannel remembers nothing but *)
(* an ID, so this rests on IDs never being given out twice.                *)
(***************************************************************************)
PermanentNeverExpires ==
  [][\A c \in DOMAIN channels \ DOMAIN channels' :
       channels[c].isTemp
         \/ \E k \in Conns : pc[k] = "del_store" /\ arg[k].ch = c]_vars

\* Sessions whose join of channel c has come as far as one of these steps
OnTheWay(c, steps) == {sid[k] : k \in {j \in Conns : pc[j] \in steps /\ arg[j].ch = c}}

Full(c) == channels[c].maxUsers > 0 /\ MembersCount(c) >= channels[c].maxUsers

NobodyNew(c, steps) ==
  (Members(c) \cup OnTheWay(c, steps))' \subseteq Members(c) \cup OnTheWay(c, steps)

(***************************************************************************)
(* A channel that is gone lets nobody in but those handleJoinChannel had   *)
(* found it for before the deletion, and a full one nobody but those whose *)
(* member count was taken while a seat was free: the stale lookup and the  *)
(* stale count cost no more than the joins that were under way.            *)
(***************************************************************************)
ClosedToNewcomers ==
  [][\A c \in ChannelIDs :
       /\ c \notin DOMAIN channels => NobodyNew(c, {"join_count", "join_move"})
       /\ c \in DOMAIN channels /\ Full(c) => NobodyNew(c, {"join_move"})]_vars

(***************************************************************************)
(* A temp channel whose cleanup goroutine was started does not stay empty  *)
(* in the list: it is deleted or somebody is in it.                        *)
(***************************************************************************)
EmptiedTempGoes ==
  \A c \in ChannelIDs :
    asleep[c] > 0 ~> (c \notin DOMAIN channels \/ Members(c) # {})

-----------------------------------------------------------------------------
(* Progress *)

(***************************************************************************)
(* Every handler comes to its end: no request keeps its connection from    *)
(* being served, and none waits for another one.                           *)
(***************************************************************************)
HandlersReturn ==
  \A k \in Conns : pc[k] \in RequestSteps ~> pc[k] \notin RequestSteps

(***************************************************************************)
(* A connection that is closed, by its client or by a kick, is cleaned up  *)
(* completely.                                                             *)
(***************************************************************************)
HangUpCleansUp ==
  \A k \in Conns : (pc[k] # "idle" /\ ~open[k]) ~> pc[k] = "closed"

(***************************************************************************)
(* Once a kick has found the connection of its target, that target goes.   *)
(***************************************************************************)
KickTakesHold ==
  \A j, k \in Conns :
    (/\ pc[k] = "evict_close"
     /\ arg[k].sess \in DOMAIN connMap
     /\ connMap[arg[k].sess] = j) ~> pc[j] = "closed"

-----------------------------------------------------------------------------
(* What comments say, and concurrent handlers break *)

Resting == \A k \in Conns : pc[k] \in {"idle", "auth", "loop", "closed"}

(***************************************************************************)
(* "Also kick them if online" (handleBanUser): when every request has been *)
(* served, a banned user has no open session.                              *)
(***************************************************************************)
BannedAreOffline ==
  Resting => \A k \in Conns : Live(k) /\ IsUserBanned(who[k]) => ~open[k]
=============================================================================
