---------------------------- MODULE ControlServer ----------------------------
(***************************************************************************)
(* pkg/server/control.go: the control plane.  One goroutine per connection *)
(* (handleControlConn) authenticates a client, then serves its requests    *)
(* one at a time; the goroutines share the ChannelManager, the             *)
(* SessionManager, the Store and the handler's connMap.  None of them is   *)
(* held across two calls, so a handler is a sequence of steps, one per     *)
(* access to shared state, and every other goroutine may run in between:   *)
(* pc[k] names the access goroutine k makes next.                          *)
(*                                                                         *)
(* Replies, broadcasts and the read-only requests (list, chat, export,     *)
(* ping) change none of this state; a request that is turned down before   *)
(* its first effect is a stuttering step.                                  *)
(***************************************************************************)
EXTENDS ChannelManager, SessionManager, Store

CONSTANTS
  Conns,           \* accepted connections, each with its own goroutine
  Kinds,           \* which request kinds clients send
  ChannelSpecs,    \* the channels clients ask to create
  InitUsers, InitTokens, InitChannels,    \* what the store holds at start
  AllowNoToken,    \* Config.AllowNoToken
  StoreMayFail,    \* store calls may return an error (SQLITE_BUSY, I/O)
  MaxRequests      \* bound on the requests of one behaviour

ASSUME ServerAssumption ==
  /\ IsMap(InitUsers, Users, Roles)
  /\ IsMap(InitTokens, Tokens, TokenRows)
  /\ \A t \in DOMAIN InitTokens :
       InitTokens[t].maxUses > 0 => InitTokens[t].useCount <= InitTokens[t].maxUses
  /\ IsMap(InitChannels, ChannelIDs, Channels)
  /\ Cardinality(DOMAIN InitChannels) \in Nat
  /\ DOMAIN InitChannels = 1 .. Cardinality(DOMAIN InitChannels)
  /\ ChannelSpecs \subseteq Channels
  /\ AllowNoToken \in BOOLEAN
  /\ StoreMayFail \in BOOLEAN
  /\ MaxRequests \in Nat

VARIABLES
  pc,              \* conn -> the step its goroutine takes next
  open,            \* conn -> neither side has closed it
  sid, who, cred,  \* conn -> session ID, username and token of handleControlConn
  arg,             \* conn -> the locals of the request in progress
  connMap,         \* ControlHandler.connMap: session ID -> conn
  tempChanTimes,   \* users that made a temp channel less than 10 s ago
  asleep,          \* channel -> cleanup goroutines in their 5 minute sleep
  deleting,        \* channel -> cleanup goroutines past the re-check
  active,          \* metrics.ActiveConnections
  budget           \* requests left, bounded by MaxRequests

goroutineVars == <<pc, open, sid, who, cred, arg>>
timerVars == <<asleep, deleting>>
vars == <<members, sessionToChannel, sessions, users, bans, tokens, channels,
          nextChannelID, pc, open, sid, who, cred, arg, connMap, tempChanTimes,
          asleep, deleting, active, budget>>

Blank == [ch |-> NoChannel, spec |-> Lobby, role |-> RoleUser, user |-> NoUser,
          sess |-> NoSession, todo |-> {}, tok |-> NoToken]

Frames == [ch : ChannelIDs \cup {NoChannel}, spec : Channels, role : Roles,
           user : Users \cup {NoUser}, sess : SessionIDs \cup {NoSession},
           todo : SUBSET SessionIDs, tok : Tokens \cup {NoToken}]

AuthSteps    == {"get_user", "create_user", "auto_token", "check_ban", "new_session"}
RequestSteps == {"join_count", "join_move", "join_set", "leave_set", "temp_lookup",
                 "temp_count", "chan_rate", "chan_store", "del_store", "del_members",
                 "del_leave", "del_set", "tok_store", "ban_store", "evict_find",
                 "evict_close", "role_store", "role_find", "role_set"}
ByeSteps     == {"bye_leave", "bye_conn", "bye_session"}
Labels == {"idle", "auth"} \cup AuthSteps \cup {"set_conn", "respond", "loop"}
          \cup RequestSteps \cup ByeSteps \cup {"bye_lookup", "bye_count", "closed"}

Init ==
  /\ NewChannelManager
  /\ NewSessionManager
  /\ users = InitUsers
  /\ bans = {}
  /\ tokens = InitTokens
  /\ channels = InitChannels
  /\ nextChannelID = Cardinality(DOMAIN InitChannels) + 1
  /\ pc = [k \in Conns |-> "idle"]
  /\ open = [k \in Conns |-> FALSE]
  /\ sid = [k \in Conns |-> NoSession]
  /\ who = [k \in Conns |-> NoUser]
  /\ cred = [k \in Conns |-> NoToken]
  /\ arg = [k \in Conns |-> Blank]
  /\ connMap = <<>>
  /\ tempChanTimes = {}
  /\ asleep = [c \in ChannelIDs |-> 0]
  /\ deleting = [c \in ChannelIDs |-> 0]
  /\ active = 0
  /\ budget = MaxRequests

-----------------------------------------------------------------------------
(* Control flow of a goroutine *)

Goto(k, label) == pc' = [pc EXCEPT ![k] = label]

\* The locals of the handler from here on
Keep(k, frame) == arg' = [arg EXCEPT ![k] = frame]

\* The handler returns to the message loop
Finish(k) == Goto(k, "loop") /\ Keep(k, Blank)

\* handleControlConn returns: the first defer closes the connection
Return(k) ==
  /\ Goto(k, "closed")
  /\ open' = [open EXCEPT ![k] = FALSE]
  /\ Keep(k, Blank)

Mine(k) == sessions[sid[k]]    \* GetSnapshot(sessionID)

\* A request arrives in the message loop and finds its own session
Request(k, kind) ==
  /\ pc[k] = "loop"
  /\ open[k]
  /\ kind \in Kinds
  /\ budget > 0
  /\ sid[k] \in DOMAIN sessions
  /\ budget' = budget - 1
  /\ UNCHANGED <<open, sid, who, cred, connMap, active>>

\* A later step of a request
Step(k, label) ==
  /\ pc[k] = label
  /\ UNCHANGED <<open, sid, who, cred, connMap, active, budget>>

-----------------------------------------------------------------------------
(* Connections: accept, authentication, the message loop's end *)

\* ActiveConnections.Add(1) comes before authentication
Accept(k) ==
  /\ pc[k] = "idle"
  /\ Goto(k, "auth")
  /\ open' = [open EXCEPT ![k] = TRUE]
  /\ active' = active + 1
  /\ UNCHANGED <<roomVars, sessions, storeVars, sid, who, cred, arg, connMap,
                 tempChanTimes, timerVars, budget>>

\* The client goes away or sends what ReadControlMessage rejects: the server
\* notices at its next read
ClientClose(k) ==
  /\ open[k]
  /\ open' = [open EXCEPT ![k] = FALSE]
  /\ UNCHANGED <<roomVars, sessions, storeVars, pc, sid, who, cred, arg, connMap,
                 tempChanTimes, timerVars, active, budget>>

\* AuthRequest with a token the store accepts, or without one where that is allowed
AuthRequest(k, u, t) ==
  /\ pc[k] = "auth"
  /\ open[k]
  /\ \/ /\ t = NoToken
        /\ AllowNoToken
        /\ Keep(k, [arg[k] EXCEPT !.role = RoleUser])
        /\ UNCHANGED storeVars
     \/ /\ ValidateToken(t)
        /\ Keep(k, [arg[k] EXCEPT !.role = tokens[t].role])
  /\ Goto(k, "get_user")
  /\ who' = [who EXCEPT ![k] = u]
  /\ cred' = [cred EXCEPT ![k] = t]
  /\ UNCHANGED <<roomVars, sessions, open, sid, connMap, tempChanTimes, timerVars,
                 active, budget>>

\* The 10 s deadline, a closed connection, another first message, an invalid
\* username, or a token that is missing, unknown, expired or exhausted
AuthReject(k) ==
  /\ pc[k] = "auth"
  /\ Return(k)
  /\ UNCHANGED <<roomVars, sessions, storeVars, sid, who, cred, connMap,
                 tempChanTimes, timerVars, active, budget>>

\* Existing users keep their stored role; a new one gets the token's
GetUser(k) ==
  /\ Step(k, "get_user")
  /\ IF who[k] \in DOMAIN users
     THEN Goto(k, "check_ban") /\ Keep(k, [arg[k] EXCEPT !.role = users[who[k]]])
     ELSE Goto(k, "create_user") /\ UNCHANGED arg
  /\ UNCHANGED <<roomVars, sessions, storeVars, tempChanTimes, timerVars>>

\* usernames are UNIQUE: the loser of two first logins is turned away
CreateNewUser(k) ==
  /\ pc[k] = "create_user"
  /\ \/ /\ who[k] \notin DOMAIN users
        /\ CreateUser(who[k], arg[k].role)
        /\ Goto(k, IF cred[k] = NoToken THEN "auto_token" ELSE "check_ban")
        /\ UNCHANGED <<arg, open>>
     \/ /\ who[k] \in DOMAIN users
        /\ Return(k)
        /\ UNCHANGED storeVars
  /\ UNCHANGED <<roomVars, sessions, sid, who, cred, connMap, tempChanTimes,
                 timerVars, active, budget>>

\* Raw tokens nobody holds yet: 256 random bits never collide
Unissued == Tokens \ (DOMAIN tokens \cup {arg[k].tok : k \in Conns})

\* A personal token for the token-less newcomer; if none can be drawn or stored
\* the join goes on without it
AutoToken(k) ==
  /\ Step(k, "auto_token")
  /\ \/ \E t \in Unissued : CreateToken(t, NewToken(RoleUser, 0, FALSE))
     \/ UNCHANGED storeVars
  /\ Goto(k, "check_ban")
  /\ UNCHANGED <<roomVars, sessions, arg, tempChanTimes, timerVars>>

\* A CheckBan that only looks at bans without an end.
CheckBanIgnoringTimed(k) ==
  /\ pc[k] = "check_ban"
  /\ \/ /\ [user |-> who[k], timed |-> FALSE] \in bans
        /\ Return(k)
     \/ /\ [user |-> who[k], timed |-> FALSE] \notin bans
        /\ Goto(k, "new_session")
        /\ UNCHANGED <<arg, open>>
  /\ UNCHANGED <<roomVars, sessions, storeVars, sid, who, cred, connMap,
                 tempChanTimes, timerVars, active, budget>>

CheckBan(k) ==
  /\ pc[k] = "check_ban"
  /\ \/ IsUserBanned(who[k]) /\ Return(k)
     \/ ~IsUserBanned(who[k]) /\ Goto(k, "new_session") /\ UNCHANGED <<arg, open>>
  /\ UNCHANGED <<roomVars, sessions, storeVars, sid, who, cred, connMap,
                 tempChanTimes, timerVars, active, budget>>

NewSession(k) ==
  /\ pc[k] = "new_session"
  /\ \E id \in FreeIDs :
       /\ Create(id, who[k], arg[k].role)
       /\ sid' = [sid EXCEPT ![k] = id]
  /\ Goto(k, "set_conn")
  /\ UNCHANGED <<roomVars, storeVars, open, who, cred, arg, connMap, tempChanTimes,
                 timerVars, active, budget>>

\* setConn; from here on the deferred cleanup runs
SetConn(k) ==
  /\ pc[k] = "set_conn"
  /\ connMap' = Put(connMap, sid[k], k)
  /\ Goto(k, "respond")
  /\ UNCHANGED <<roomVars, sessions, storeVars, open, sid, who, cred, arg,
                 tempChanTimes, timerVars, active, budget>>

\* The AuthResponse is written, or its write fails on a closed connection
Respond(k) ==
  /\ Step(k, "respond")
  /\ \/ Finish(k)
     \/ ~open[k] /\ Goto(k, "bye_leave") /\ Keep(k, Blank)
  /\ UNCHANGED <<roomVars, sessions, storeVars, tempChanTimes, timerVars>>

\* The read in the message loop fails: the deferred cleanup begins
ReadError(k) ==
  /\ Step(k, "loop")
  /\ ~open[k]
  /\ Goto(k, "bye_leave")
  /\ UNCHANGED <<roomVars, sessions, storeVars, arg, tempChanTimes, timerVars>>

\* A failing store call during authentication ends the connection
AuthStoreError(k) ==
  /\ StoreMayFail
  /\ pc[k] \in {"get_user", "create_user", "check_ban"}
  /\ Return(k)
  /\ UNCHANGED <<roomVars, sessions, storeVars, sid, who, cred, connMap,
                 tempChanTimes, timerVars, active, budget>>

-----------------------------------------------------------------------------
(* The deferred cleanup: Leave, removeConn, Remove, then the temp channel *)

ByeLeave(k) ==
  /\ Step(k, "bye_leave")
  /\ Leave(sid[k])
  /\ Keep(k, [arg[k] EXCEPT !.ch = ChannelOf(sid[k])])
  /\ Goto(k, "bye_conn")
  /\ UNCHANGED <<sessions, storeVars, tempChanTimes, timerVars>>

ByeConn(k) ==
  /\ pc[k] = "bye_conn"
  /\ connMap' = Drop(connMap, sid[k])
  /\ Goto(k, "bye_session")
  /\ UNCHANGED <<roomVars, sessions, storeVars, open, sid, who, cred, arg,
                 tempChanTimes, timerVars, active, budget>>

ByeSession(k) ==
  /\ pc[k] = "bye_session"
  /\ Remove(sid[k])
  /\ active' = active - 1
  /\ IF arg[k].ch # NoChannel
     THEN Goto(k, "bye_lookup") /\ UNCHANGED <<open, arg>>
     ELSE Return(k)
  /\ UNCHANGED <<roomVars, storeVars, sid, who, cred, connMap, tempChanTimes,
                 timerVars, budget>>

\* The cleanup with Remove ahead of removeConn: the ID is free too early.
ByeRemoveFirst(k) ==
  \/ ByeLeave(k)
  \/ /\ pc[k] = "bye_conn"
     /\ Remove(sid[k])
     /\ Goto(k, "bye_session")
     /\ UNCHANGED <<roomVars, storeVars, open, sid, who, cred, arg, connMap,
                    tempChanTimes, timerVars, active, budget>>
  \/ /\ pc[k] = "bye_session"
     /\ connMap' = Drop(connMap, sid[k])
     /\ active' = active - 1
     /\ Return(k)
     /\ UNCHANGED <<roomVars, sessions, storeVars, sid, who, cred, tempChanTimes,
                    timerVars, budget>>

\* The cleanup that forgets the session's place in its channel.
ByeWithoutLeave(k) ==
  \/ /\ Step(k, "bye_leave")
     /\ Goto(k, "bye_conn")
     /\ UNCHANGED <<roomVars, sessions, storeVars, arg, tempChanTimes, timerVars>>
  \/ ByeConn(k)
  \/ ByeSession(k)

Bye(k) == ByeLeave(k) \/ ByeConn(k) \/ ByeSession(k)

-----------------------------------------------------------------------------
(* cleanupTempChannel, called after a leave and at the end of the cleanup *)

\* Back to the loop, or out of handleControlConn
TempDone(k) ==
  IF pc[k] \in {"temp_lookup", "temp_count"}
  THEN Finish(k) /\ UNCHANGED open
  ELSE Return(k)

IsTempChannel(c) == c \in DOMAIN channels /\ channels[c].isTemp

TempLookup(k) ==
  /\ pc[k] \in {"temp_lookup", "bye_lookup"}
  /\ \/ /\ IsTempChannel(arg[k].ch)
        /\ Goto(k, IF pc[k] = "temp_lookup" THEN "temp_count" ELSE "bye_count")
        /\ UNCHANGED <<open, arg>>
     \/ /\ StoreMayFail \/ ~IsTempChannel(arg[k].ch)
        /\ TempDone(k)
  /\ UNCHANGED <<roomVars, sessions, storeVars, sid, who, cred, connMap,
                 tempChanTimes, timerVars, active, budget>>

\* An empty temp channel gets a goroutine that sleeps 5 minutes
TempCount(k) ==
  /\ pc[k] \in {"temp_count", "bye_count"}
  /\ asleep' = IF MembersCount(arg[k].ch) > 0 THEN asleep
               ELSE [asleep EXCEPT ![arg[k].ch] = @ + 1]
  /\ TempDone(k)
  /\ UNCHANGED <<roomVars, sessions, storeVars, sid, who, cred, connMap,
                 tempChanTimes, deleting, active, budget>>

\* A re-check with >= instead of >: every channel counts as in use.
TimerWakeKeepsAll(c) ==
  /\ asleep[c] > 0
  /\ asleep' = [asleep EXCEPT ![c] = @ - 1]
  /\ deleting' = IF MembersCount(c) >= 0 THEN deleting
                 ELSE [deleting EXCEPT ![c] = @ + 1]
  /\ UNCHANGED <<roomVars, sessions, storeVars, goroutineVars, connMap,
                 tempChanTimes, active, budget>>

\* The re-check: a channel in use is left alone
TimerWake(c) ==
  /\ asleep[c] > 0
  /\ asleep' = [asleep EXCEPT ![c] = @ - 1]
  /\ deleting' = IF MembersCount(c) > 0 THEN deleting
                 ELSE [deleting EXCEPT ![c] = @ + 1]
  /\ UNCHANGED <<roomVars, sessions, storeVars, goroutineVars, connMap,
                 tempChanTimes, active, budget>>

\* The goroutine deletes the channel, or logs the store's error; either way it ends
TimerDelete(c) ==
  /\ deleting[c] > 0
  /\ deleting' = [deleting EXCEPT ![c] = @ - 1]
  /\ DeleteChannel(c) \/ (StoreMayFail /\ UNCHANGED storeVars)
  /\ UNCHANGED <<roomVars, sessions, goroutineVars, connMap, tempChanTimes,
                 asleep, active, budget>>

-----------------------------------------------------------------------------
(* handleJoinChannel, handleLeaveChannel, handleUserState *)

JoinRequest(k, c) ==
  /\ Request(k, "join")
  /\ c \in DOMAIN channels
  /\ Keep(k, [arg[k] EXCEPT !.ch = c, !.spec = channels[c]])
  /\ Goto(k, "join_count")
  /\ UNCHANGED <<roomVars, sessions, storeVars, tempChanTimes, timerVars>>

\* A count with > instead of >=: one more than the channel holds.
JoinCountOneTooMany(k) ==
  /\ Step(k, "join_count")
  /\ IF arg[k].spec.maxUsers > 0 /\ MembersCount(arg[k].ch) > arg[k].spec.maxUsers
     THEN Finish(k)
     ELSE Goto(k, "join_move") /\ UNCHANGED arg
  /\ UNCHANGED <<roomVars, sessions, storeVars, tempChanTimes, timerVars>>

\* "channel is full" sends the request back to the loop
JoinCount(k) ==
  /\ Step(k, "join_count")
  /\ IF arg[k].spec.maxUsers > 0 /\ MembersCount(arg[k].ch) >= arg[k].spec.maxUsers
     THEN Finish(k)
     ELSE Goto(k, "join_move") /\ UNCHANGED arg
  /\ UNCHANGED <<roomVars, sessions, storeVars, tempChanTimes, timerVars>>

\* A Join that does not move a session that sits in a channel.
JoinMoveFirst(k) ==
  /\ Step(k, "join_move")
  /\ IF ChannelOf(sid[k]) = NoChannel THEN Join(sid[k], arg[k].ch) ELSE UNCHANGED roomVars
  /\ Goto(k, "join_set")
  /\ UNCHANGED <<sessions, storeVars, arg, tempChanTimes, timerVars>>

\* The previous channel is only notified: no cleanupTempChannel here
JoinMove(k) ==
  /\ Step(k, "join_move")
  /\ Join(sid[k], arg[k].ch)
  /\ Goto(k, "join_set")
  /\ UNCHANGED <<sessions, storeVars, arg, tempChanTimes, timerVars>>

JoinSet(k) ==
  /\ Step(k, "join_set")
  /\ SetChannel(sid[k], arg[k].ch)
  /\ Finish(k)
  /\ UNCHANGED <<roomVars, storeVars, tempChanTimes, timerVars>>

LeaveRequest(k) ==
  /\ Request(k, "leave")
  /\ Leave(sid[k])
  /\ Keep(k, [arg[k] EXCEPT !.ch = ChannelOf(sid[k])])
  /\ Goto(k, "leave_set")
  /\ UNCHANGED <<sessions, storeVars, tempChanTimes, timerVars>>

\* A LeaveSet that forgets the session's own channel field.
LeaveSetNothing(k) ==
  /\ Step(k, "leave_set")
  /\ IF arg[k].ch # NoChannel THEN Goto(k, "temp_lookup") /\ UNCHANGED arg
     ELSE Finish(k)
  /\ UNCHANGED <<roomVars, sessions, storeVars, tempChanTimes, timerVars>>

LeaveSet(k) ==
  /\ Step(k, "leave_set")
  /\ SetChannel(sid[k], NoChannel)
  /\ IF arg[k].ch # NoChannel THEN Goto(k, "temp_lookup") /\ UNCHANGED arg
     ELSE Finish(k)
  /\ UNCHANGED <<roomVars, storeVars, tempChanTimes, timerVars>>

UserStateRequest(k, muted, deafened) ==
  /\ Request(k, "state")
  /\ UpdateUserState(sid[k], muted, deafened)
  /\ UNCHANGED <<roomVars, storeVars, pc, arg, tempChanTimes, timerVars>>

-----------------------------------------------------------------------------
(* handleCreateChannel, handleDeleteChannel *)

Creating == {k \in Conns : pc[k] \in {"chan_rate", "chan_store"}}

\* Anyone may open a temp sub-channel where the parent allows it; everything else
\* needs the permission, and its parent is not looked up
CreateChannelRequest(k, ch) ==
  /\ Request(k, "create")
  /\ nextChannelID + Cardinality(Creating) <= MaxChannelID
  /\ \/ /\ ch.parent # NoChannel
        /\ ch.isTemp
        /\ ch.parent \in DOMAIN channels
        /\ channels[ch.parent].allowSub
        /\ Goto(k, "chan_rate")
     \/ /\ ch.parent = NoChannel \/ ~ch.isTemp
        /\ HasPermission(Mine(k).role, "create_channel")
        /\ Goto(k, "chan_store")
  /\ Keep(k, [arg[k] EXCEPT !.spec = ch])
  /\ UNCHANGED <<roomVars, sessions, storeVars, tempChanTimes, timerVars>>

\* One temp channel per user per 10 s; the slot is taken before the store is asked
ChanRate(k) ==
  /\ Step(k, "chan_rate")
  /\ IF who[k] \in tempChanTimes
     THEN Finish(k) /\ UNCHANGED tempChanTimes
     ELSE /\ tempChanTimes' = tempChanTimes \cup {who[k]}
          /\ Goto(k, "chan_store")
          /\ UNCHANGED arg
  /\ UNCHANGED <<roomVars, sessions, storeVars, timerVars>>

RateExpires(u) ==
  /\ u \in tempChanTimes
  /\ tempChanTimes' = tempChanTimes \ {u}
  /\ UNCHANGED <<roomVars, sessions, storeVars, goroutineVars, connMap, timerVars,
                 active, budget>>

\* A channel that does not validate costs its creator the slot all the same
ChanStore(k) ==
  /\ Step(k, "chan_store")
  /\ \/ /\ Validate(arg[k].spec)
        /\ nextChannelID <= MaxChannelID
        /\ CreateChannel(arg[k].spec)
     \/ ~Validate(arg[k].spec) /\ UNCHANGED storeVars
  /\ Finish(k)
  /\ UNCHANGED <<roomVars, sessions, tempChanTimes, timerVars>>

DeleteChannelRequest(k, c) ==
  /\ Request(k, "delete")
  /\ HasPermission(Mine(k).role, "delete_channel")
  /\ Keep(k, [arg[k] EXCEPT !.ch = c])
  /\ Goto(k, "del_store")
  /\ UNCHANGED <<roomVars, sessions, storeVars, tempChanTimes, timerVars>>

DelStore(k) ==
  /\ Step(k, "del_store")
  /\ DeleteChannel(arg[k].ch)
  /\ Goto(k, "del_members")
  /\ UNCHANGED <<roomVars, sessions, arg, tempChanTimes, timerVars>>

DelMembers(k) ==
  /\ Step(k, "del_members")
  /\ Keep(k, [arg[k] EXCEPT !.todo = Members(arg[k].ch)])
  /\ Goto(k, "del_leave")
  /\ UNCHANGED <<roomVars, sessions, storeVars, tempChanTimes, timerVars>>

\* The loop body without its progress: the same member again and again.
DelLeaveForever(k) ==
  /\ Step(k, "del_leave")
  /\ \/ \E s \in arg[k].todo :
          /\ Leave(s)
          /\ Keep(k, [arg[k] EXCEPT !.sess = s])
          /\ Goto(k, "del_set")
     \/ arg[k].todo = {} /\ Finish(k) /\ UNCHANGED roomVars
  /\ UNCHANGED <<sessions, storeVars, tempChanTimes, timerVars>>

\* Leave(sid) takes the member out of whatever channel it is in by now
DelLeave(k) ==
  /\ Step(k, "del_leave")
  /\ \/ \E s \in arg[k].todo :
          /\ Leave(s)
          /\ Keep(k, [arg[k] EXCEPT !.sess = s, !.todo = @ \ {s}])
          /\ Goto(k, "del_set")
     \/ arg[k].todo = {} /\ Finish(k) /\ UNCHANGED roomVars
  /\ UNCHANGED <<sessions, storeVars, tempChanTimes, timerVars>>

DelSet(k) ==
  /\ Step(k, "del_set")
  /\ SetChannel(arg[k].sess, NoChannel)
  /\ Goto(k, "del_leave")
  /\ UNCHANGED <<roomVars, storeVars, arg, tempChanTimes, timerVars>>

-----------------------------------------------------------------------------
(* handleCreateToken, handleKickUser, handleBanUser, handleSetUserRole *)

\* The raw token is drawn before it is stored
CreateTokenRequest(k, r) ==
  /\ Request(k, "token")
  /\ HasPermission(Mine(k).role, "manage_tokens")
  /\ \E t \in Unissued : Keep(k, [arg[k] EXCEPT !.tok = t, !.role = r])
  /\ Goto(k, "tok_store")
  /\ UNCHANGED <<roomVars, sessions, storeVars, tempChanTimes, timerVars>>

TokStore(k) ==
  /\ Step(k, "tok_store")
  /\ \E n \in {0, 1}, timed \in BOOLEAN :
       CreateToken(arg[k].tok, NewToken(arg[k].role, n, timed))
  /\ Finish(k)
  /\ UNCHANGED <<roomVars, sessions, tempChanTimes, timerVars>>

KickRequest(k, u) ==
  /\ Request(k, "kick")
  /\ HasPermission(Mine(k).role, "kick_user")
  /\ Keep(k, [arg[k] EXCEPT !.user = u])
  /\ Goto(k, "evict_find")
  /\ UNCHANGED <<roomVars, sessions, storeVars, tempChanTimes, timerVars>>

BanRequest(k, u) ==
  /\ Request(k, "ban")
  /\ HasPermission(Mine(k).role, "ban_user")
  /\ Keep(k, [arg[k] EXCEPT !.user = u])
  /\ Goto(k, "ban_store")
  /\ UNCHANGED <<roomVars, sessions, storeVars, tempChanTimes, timerVars>>

BanStore(k) ==
  /\ Step(k, "ban_store")
  /\ \E timed \in BOOLEAN : CreateBan(arg[k].user, timed)
  /\ Goto(k, "evict_find")
  /\ UNCHANGED <<roomVars, sessions, arg, tempChanTimes, timerVars>>

\* GetByUserIDSnapshot: one of the user's sessions, if there is one
EvictFind(k) ==
  /\ Step(k, "evict_find")
  /\ \/ \E s \in SessionsOf(arg[k].user) :
          Keep(k, [arg[k] EXCEPT !.sess = s]) /\ Goto(k, "evict_close")
     \/ SessionsOf(arg[k].user) = {} /\ Finish(k)
  /\ UNCHANGED <<roomVars, sessions, storeVars, tempChanTimes, timerVars>>

\* A kick that tells the client but leaves its connection open.
EvictOnlyTells(k) ==
  /\ pc[k] = "evict_close"
  /\ Finish(k)
  /\ UNCHANGED <<roomVars, sessions, storeVars, open, sid, who, cred, connMap,
                 tempChanTimes, timerVars, active, budget>>

\* The connection registered for that session now, if any, is closed
EvictClose(k) ==
  /\ pc[k] = "evict_close"
  /\ open' = IF arg[k].sess \in DOMAIN connMap
             THEN [open EXCEPT ![connMap[arg[k].sess]] = FALSE]
             ELSE open
  /\ Finish(k)
  /\ UNCHANGED <<roomVars, sessions, storeVars, sid, who, cred, connMap,
                 tempChanTimes, timerVars, active, budget>>

\* A role change without the permission check.
SetUserRoleByAnyone(k, u, r) ==
  /\ Request(k, "role")
  /\ u # who[k]
  /\ Keep(k, [arg[k] EXCEPT !.user = u, !.role = r])
  /\ Goto(k, "role_store")
  /\ UNCHANGED <<roomVars, sessions, storeVars, tempChanTimes, timerVars>>

\* Not one's own role, and none above one's own
SetUserRoleRequest(k, u, r) ==
  /\ Request(k, "role")
  /\ HasPermission(Mine(k).role, "manage_roles")
  /\ u # who[k]
  /\ r <= Mine(k).role
  /\ Keep(k, [arg[k] EXCEPT !.user = u, !.role = r])
  /\ Goto(k, "role_store")
  /\ UNCHANGED <<roomVars, sessions, storeVars, tempChanTimes, timerVars>>

RoleStore(k) ==
  /\ Step(k, "role_store")
  /\ UpdateUserRole(arg[k].user, arg[k].role)
  /\ Goto(k, "role_find")
  /\ UNCHANGED <<roomVars, sessions, arg, tempChanTimes, timerVars>>

RoleFind(k) ==
  /\ Step(k, "role_find")
  /\ \/ \E s \in SessionsOf(arg[k].user) :
          Keep(k, [arg[k] EXCEPT !.sess = s]) /\ Goto(k, "role_set")
     \/ SessionsOf(arg[k].user) = {} /\ Finish(k)
  /\ UNCHANGED <<roomVars, sessions, storeVars, tempChanTimes, timerVars>>

RoleSet(k) ==
  /\ Step(k, "role_set")
  /\ UpdateRole(arg[k].sess, arg[k].role)
  /\ Finish(k)
  /\ UNCHANGED <<roomVars, storeVars, tempChanTimes, timerVars>>

\* A failing store call in a request is answered with an error
RequestStoreError(k) ==
  /\ StoreMayFail
  /\ pc[k] \in {"chan_store", "del_store", "tok_store", "ban_store", "role_store"}
  /\ Finish(k)
  /\ UNCHANGED <<roomVars, sessions, storeVars, open, sid, who, cred, connMap,
                 tempChanTimes, timerVars, active, budget>>

-----------------------------------------------------------------------------
(* The server *)

\* What a client does
Client(k) ==
  \/ Accept(k)
  \/ ClientClose(k)
  \/ \E u \in Users, t \in Tokens \cup {NoToken} : AuthRequest(k, u, t)
  \/ \E c \in ChannelIDs : JoinRequest(k, c) \/ DeleteChannelRequest(k, c)
  \/ LeaveRequest(k)
  \/ \E m, d \in BOOLEAN : UserStateRequest(k, m, d)
  \/ \E ch \in ChannelSpecs : CreateChannelRequest(k, ch)
  \/ \E r \in Roles : CreateTokenRequest(k, r)
  \/ \E u \in DOMAIN users : KickRequest(k, u) \/ BanRequest(k, u)
  \/ \E u \in DOMAIN users, r \in Roles : SetUserRoleRequest(k, u, r)

\* What the goroutine does on its own; none of it waits for another goroutine
Goroutine(k) ==
  \/ AuthReject(k) \/ GetUser(k) \/ CreateNewUser(k) \/ AutoToken(k) \/ CheckBan(k)
  \/ NewSession(k) \/ SetConn(k) \/ Respond(k) \/ ReadError(k) \/ AuthStoreError(k)
  \/ Bye(k) \/ TempLookup(k) \/ TempCount(k)
  \/ JoinCount(k) \/ JoinMove(k) \/ JoinSet(k) \/ LeaveSet(k)
  \/ ChanRate(k) \/ ChanStore(k)
  \/ DelStore(k) \/ DelMembers(k) \/ DelLeave(k) \/ DelSet(k)
  \/ TokStore(k) \/ BanStore(k) \/ EvictFind(k) \/ EvictClose(k)
  \/ RoleStore(k) \/ RoleFind(k) \/ RoleSet(k) \/ RequestStoreError(k)

\* The clock
Clock ==
  /\ \/ \E t \in Tokens : TokenExpires(t)
     \/ \E u \in Users : BanExpires(u)
  /\ UNCHANGED <<roomVars, sessions, goroutineVars, connMap, tempChanTimes,
                 timerVars, active, budget>>

\* Every connection is over and no cleanup goroutine is left
Quiet ==
  /\ \A k \in Conns : pc[k] = "closed"
  /\ \A c \in ChannelIDs : asleep[c] = 0 /\ deleting[c] = 0
  /\ UNCHANGED vars

Next ==
  \/ \E k \in Conns : Client(k) \/ Goroutine(k)
  \/ \E c \in ChannelIDs : TimerWake(c) \/ TimerDelete(c)
  \/ \E u \in Users : RateExpires(u)
  \/ Clock
  \/ Quiet

Spec == Init /\ [][Next]_vars

\* Goroutines run: the scheduler is fair, no step blocks, the read of the first
\* message has a deadline and a sleeping goroutine wakes.  Clients owe nothing.
Fairness ==
  /\ \A k \in Conns : WF_vars(Goroutine(k))
  /\ \A c \in ChannelIDs : WF_vars(TimerWake(c)) /\ WF_vars(TimerDelete(c))

FairSpec == Spec /\ Fairness
=============================================================================
