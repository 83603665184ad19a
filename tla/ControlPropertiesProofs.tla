----------------------- MODULE ControlPropertiesProofs -----------------------
(***************************************************************************)
(* What the control plane guarantees beyond ownership, for any number of   *)
(* connections, users, channels, tokens and requests: bans hold, the two   *)
(* records of a seat agree, permanent channels stay, nobody climbs and     *)
(* tokens are counted.  All of it rests on IInv of ControlServerProofs and *)
(* on locals being local: a goroutine moves only its own pc and locals.    *)
(***************************************************************************)
EXTENDS ControlServerProofs, FiniteSetTheorems

-----------------------------------------------------------------------------
(* What one goroutine does to the others *)

\* Goroutine k touches nobody else's position and locals
Alone(k) ==
  \A j \in Conns \ {k} :
    pc'[j] = pc[j] /\ sid'[j] = sid[j] /\ who'[j] = who[j] /\ cred'[j] = cred[j]
      /\ arg'[j] = arg[j]

\* Goroutine k takes a step of its own, or its client asks it for something
Acts(k) == Client(k) \/ Goroutine(k)

\* A request leaves the message loop, if at all, for the steps of its handler.
Asked(k) ==
  /\ pc[k] = "loop"
  /\ UNCHANGED <<sid, who, cred>>
  /\ UNCHANGED pc \/ \E l \in RequestSteps \ {"temp_count"} : Goto(k, l)
  /\ UNCHANGED arg \/ \E f : Keep(k, f)

\* All a client does is come, go, log in and ask.
LEMMA ClientAsks ==
  ASSUME NEW k \in Conns, Client(k)
  PROVE  \/ Accept(k) \/ ClientClose(k)
         \/ \E u \in Users, t \in Tokens \cup {NoToken} : AuthRequest(k, u, t)
         \/ Asked(k)
PROOF
  <1>1. ASSUME NEW kind, Request(k, kind)
        PROVE  pc[k] = "loop" /\ UNCHANGED <<sid, who, cred>>
    BY <1>1 DEF Request
  <1>2. ASSUME NEW kind, Request(k, kind), NEW l \in RequestSteps \ {"temp_count"},
               Goto(k, l), NEW f, Keep(k, f)
        PROVE  Asked(k)
    BY <1>1, <1>2 DEF Asked
  <1>3. ASSUME NEW c \in ChannelIDs, JoinRequest(k, c) \/ DeleteChannelRequest(k, c)
        PROVE  Asked(k)
    BY <1>2, <1>3 DEF JoinRequest, DeleteChannelRequest, RequestSteps
  <1>4. LeaveRequest(k) => Asked(k)
    BY <1>2 DEF LeaveRequest, RequestSteps
  <1>5. ASSUME NEW m \in BOOLEAN, NEW d \in BOOLEAN, UserStateRequest(k, m, d)
        PROVE  Asked(k)
    BY <1>1, <1>5 DEF UserStateRequest, Asked
  <1>6. ASSUME NEW ch \in ChannelSpecs, CreateChannelRequest(k, ch)
        PROVE  Asked(k)
    BY <1>2, <1>6 DEF CreateChannelRequest, RequestSteps
  <1>7. ASSUME NEW r \in Roles, CreateTokenRequest(k, r)
        PROVE  Asked(k)
    BY <1>2, <1>7 DEF CreateTokenRequest, RequestSteps
  <1>8. ASSUME NEW u \in DOMAIN users, KickRequest(k, u) \/ BanRequest(k, u)
        PROVE  Asked(k)
    BY <1>2, <1>8 DEF KickRequest, BanRequest, RequestSteps
  <1>9. ASSUME NEW u \in DOMAIN users, NEW r \in Roles, SetUserRoleRequest(k, u, r)
        PROVE  Asked(k)
    BY <1>2, <1>9 DEF SetUserRoleRequest, RequestSteps
  <1> QED BY <1>3, <1>4, <1>5, <1>6, <1>7, <1>8, <1>9 DEF Client

\* Locals are local: what connection k asks for and does leaves the positions and
\* locals of all other goroutines as they are.
LEMMA ActsAlone ==
  ASSUME GoroutinesTypeOK, NEW k \in Conns, Acts(k)
  PROVE  Alone(k)
PROOF
  <1> USE DEF Alone
  <1>1. \A l : Goto(k, l) => \A j \in Conns \ {k} : pc'[j] = pc[j]
    BY DEF Goto, GoroutinesTypeOK
  <1>2. \A f : Keep(k, f) => \A j \in Conns \ {k} : arg'[j] = arg[j]
    BY DEF Keep, GoroutinesTypeOK
  <1>3. CASE Client(k)
    <2>1. CASE Accept(k) \/ ClientClose(k)
      BY <1>1, <2>1 DEF Accept, ClientClose
    <2>2. ASSUME NEW u \in Users, NEW t \in Tokens \cup {NoToken}, AuthRequest(k, u, t)
          PROVE  Alone(k)
      <3>1. /\ who' = [who EXCEPT ![k] = u] /\ cred' = [cred EXCEPT ![k] = t]
            /\ \E f : Keep(k, f)
            /\ Goto(k, "get_user") /\ sid' = sid
        BY <2>2 DEF AuthRequest
      <3> QED BY <1>1, <1>2, <3>1 DEF GoroutinesTypeOK
    <2>3. CASE Asked(k)
      BY <1>1, <1>2, <2>3 DEF Asked
    <2> QED BY <1>3, <2>1, <2>2, <2>3, ClientAsks
  <1>4. CASE NewSession(k)
    <2>1. PICK id : sid' = [sid EXCEPT ![k] = id]
      BY <1>4 DEF NewSession
    <2> QED BY <1>1, <1>4, <2>1 DEF NewSession, GoroutinesTypeOK
  <1>5. CASE AuthReject(k) \/ GetUser(k) \/ CreateNewUser(k) \/ AutoToken(k) \/ CheckBan(k)
             \/ AuthStoreError(k) \/ SetConn(k) \/ Respond(k) \/ ReadError(k)
             \/ ByeLeave(k) \/ ByeConn(k) \/ ByeSession(k)
    BY <1>1, <1>2, <1>5 DEF AuthReject, GetUser, CreateNewUser, AutoToken, CheckBan,
       AuthStoreError, SetConn, Respond, ReadError, ByeLeave, ByeConn, ByeSession, Step,
       Return, Finish
  <1>6. CASE TempLookup(k) \/ TempCount(k)
    BY <1>1, <1>2, <1>6 DEF TempLookup, TempCount, TempDone, Return, Finish
  <1>7. CASE JoinCount(k) \/ JoinMove(k) \/ JoinSet(k) \/ LeaveSet(k) \/ ChanRate(k)
             \/ ChanStore(k) \/ DelStore(k) \/ DelMembers(k) \/ DelLeave(k) \/ DelSet(k)
    <2>1. CASE JoinCount(k) \/ JoinMove(k) \/ JoinSet(k)
      BY <1>1, <1>2, <2>1 DEF JoinCount, JoinMove, JoinSet, Step, Finish
    <2>2. CASE LeaveSet(k) \/ ChanRate(k)
      BY <1>1, <1>2, <2>2 DEF LeaveSet, ChanRate, Step, Finish
    <2>3. CASE ChanStore(k) \/ DelStore(k) \/ DelMembers(k) \/ DelSet(k)
      BY <1>1, <1>2, <2>3 DEF ChanStore, DelStore, DelMembers, DelSet, Step, Finish
    <2>4. CASE DelLeave(k)
      <3>1. Step(k, "del_leave") /\ \E l : Goto(k, l) /\ \E f : Keep(k, f)
        BY <2>4 DEF DelLeave, Finish
      <3> QED BY <1>1, <1>2, <3>1 DEF Step
    <2> QED BY <1>7, <2>1, <2>2, <2>3, <2>4
  <1>8. CASE TokStore(k) \/ BanStore(k) \/ EvictFind(k) \/ EvictClose(k) \/ RoleStore(k)
             \/ RoleFind(k) \/ RoleSet(k) \/ RequestStoreError(k)
    BY <1>1, <1>2, <1>8 DEF TokStore, BanStore, EvictFind, EvictClose, RoleStore, RoleFind,
       RoleSet, RequestStoreError, Step, Finish
  <1> QED
    BY <1>3, <1>4, <1>5, <1>6, <1>7, <1>8 DEF Acts, Goroutine, Bye

-----------------------------------------------------------------------------
(* Bans *)

\* Past the ban check and with a session, or about to have one
Inside(k) == Live(k) \/ pc[k] = "new_session"

\* The ban check is the only way in, and nobody changes the user once inside.
LEMMA InsideByBanCheck ==
  ASSUME GoroutinesTypeOK, NEW k \in Conns, Acts(k)
  PROVE  Inside(k)' => /\ who'[k] = who[k]
                       /\ Inside(k) \/ (pc[k] = "check_ban" /\ ~IsUserBanned(who[k]))
PROOF
  <1> DEFINE Goal == Inside(k)' => /\ who'[k] = who[k]
                                   /\ Inside(k)
                                      \/ (pc[k] = "check_ban" /\ ~IsUserBanned(who[k]))
  <1> USE DEF Inside, Live, RequestSteps, ByeSteps
  <1>1. \A l : Goto(k, l) => pc'[k] = l
    BY DEF Goto, GoroutinesTypeOK
  <1>2. ASSUME Inside(k), UNCHANGED who
        PROVE  Goal
    BY <1>2
  <1>3. ASSUME NEW l, Goto(k, l), l \notin {"new_session", "set_conn", "respond", "loop"},
               l \notin RequestSteps, l \notin ByeSteps
        PROVE  Goal
    BY <1>1, <1>3
  <1>4. CASE Client(k)
    <2>1. CASE Accept(k)
      BY <1>3, <2>1 DEF Accept
    <2>2. CASE ClientClose(k)
      BY <2>2 DEF ClientClose
    <2>3. ASSUME NEW u \in Users, NEW t \in Tokens \cup {NoToken}, AuthRequest(k, u, t)
          PROVE  Goal
      BY <1>3, <2>3 DEF AuthRequest
    <2>4. CASE Asked(k)
      BY <1>2, <2>4 DEF Asked
    <2> QED BY <1>4, <2>1, <2>2, <2>3, <2>4, ClientAsks
  <1>5. CASE AuthReject(k) \/ GetUser(k) \/ CreateNewUser(k) \/ AutoToken(k)
             \/ AuthStoreError(k)
    BY <1>3, <1>5 DEF AuthReject, GetUser, CreateNewUser, AutoToken, AuthStoreError, Return
  <1>6. CASE CheckBan(k)
    BY <1>1, <1>3, <1>6 DEF CheckBan, Return
  <1>7. CASE NewSession(k) \/ SetConn(k) \/ Respond(k) \/ ReadError(k) \/ ByeLeave(k)
             \/ ByeConn(k) \/ ByeSession(k)
    BY <1>2, <1>7 DEF NewSession, SetConn, Respond, ReadError, ByeLeave, ByeConn,
       ByeSession, Step
  <1>8. CASE TempLookup(k) \/ TempCount(k)
    BY <1>2, <1>3, <1>8 DEF TempLookup, TempCount, TempDone, Return
  <1>9. CASE JoinCount(k) \/ JoinMove(k) \/ JoinSet(k) \/ LeaveSet(k) \/ ChanRate(k)
             \/ ChanStore(k) \/ DelStore(k) \/ DelMembers(k) \/ DelLeave(k) \/ DelSet(k)
    <2>1. CASE JoinCount(k) \/ JoinMove(k) \/ JoinSet(k)
      BY <1>2, <2>1 DEF JoinCount, JoinMove, JoinSet, Step
    <2>2. CASE LeaveSet(k) \/ ChanRate(k)
      BY <1>2, <2>2 DEF LeaveSet, ChanRate, Step
    <2>3. CASE ChanStore(k) \/ DelStore(k) \/ DelMembers(k) \/ DelSet(k)
      BY <1>2, <2>3 DEF ChanStore, DelStore, DelMembers, DelSet, Step
    <2>4. CASE DelLeave(k)
      <3>1. pc[k] = "del_leave" /\ UNCHANGED <<sid, who, cred>>
        BY <2>4 DEF DelLeave, Step
      <3> QED BY <1>2, <3>1
    <2> QED BY <1>9, <2>1, <2>2, <2>3, <2>4
  <1>10. CASE TokStore(k) \/ BanStore(k) \/ EvictFind(k) \/ EvictClose(k) \/ RoleStore(k)
              \/ RoleFind(k) \/ RoleSet(k) \/ RequestStoreError(k)
    BY <1>2, <1>10 DEF TokStore, BanStore, EvictFind, EvictClose, RoleStore, RoleFind,
       RoleSet, RequestStoreError, Step
  <1> QED
    BY <1>4, <1>5, <1>6, <1>7, <1>8, <1>9, <1>10 DEF Acts, Goroutine, Bye

\* A user who is banned and out stays out while a ban is in force, for every mix of
\* logins, bans, kicks and failing store calls.
THEOREM BansHold == Spec => BannedStayOut
PROOF
  <1>1. ASSUME GoroutinesTypeOK, [Next]_vars, NEW u \in Users, ShutOut(u), IsUserBanned(u)'
        PROVE  ShutOut(u)'
    <2>1. \A k \in Conns : who[k] = u => ~Inside(k)
      BY <1>1 DEF ShutOut, Inside
    <2>2. ASSUME NEW k \in Conns, Acts(k)
          PROVE  \A j \in Conns : who'[j] = u => ~Inside(j)'
      <3>1. \A j \in Conns \ {k} : who'[j] = u => ~Inside(j)'
        BY <1>1, <2>1, <2>2, ActsAlone DEF Alone, Inside, Live
      <3>2. who'[k] = u => ~Inside(k)'
        BY <1>1, <2>1, <2>2, InsideByBanCheck DEF ShutOut
      <3> QED BY <3>1, <3>2
    <2>3. ASSUME UNCHANGED <<pc, who>>
          PROVE  \A j \in Conns : who'[j] = u => ~Inside(j)'
      BY <2>1, <2>3 DEF Inside, Live
    <2>4. (\E k \in Conns : Acts(k)) \/ UNCHANGED <<pc, who>>
      BY <1>1 DEF Next, Acts, TimerWake, TimerDelete, RateExpires, Clock, Quiet, vars,
         goroutineVars
    <2> QED BY <1>1, <2>2, <2>3, <2>4 DEF ShutOut, Inside
  <1>2. IInv /\ [Next]_vars => [\A u \in Users : ShutOut(u) /\ IsUserBanned(u)' => ShutOut(u)']_vars
    BY <1>1 DEF IInv
  <1> QED BY <1>2, Invariance, PTL DEF Spec, BannedStayOut

-----------------------------------------------------------------------------
(* The two records of a seat *)

Deletes == {"del_store", "del_members", "del_leave", "del_set"}

\* Where the session's own channel field and the index agree
Agreeing ==
  {"set_conn", "respond", "loop"} \cup (RequestSteps \ {"join_set", "leave_set"})

\* A join and a leave under way have changed the index and have yet to set the field
SeatSet(k) ==
  /\ pc[k] \in Deletes => "delete" \in Kinds
  /\ pc[k] \in Agreeing => Agree(Mine(k).channel, ChannelOf(sid[k]))
  /\ pc[k] = "join_set" => Agree(arg[k].ch, ChannelOf(sid[k]))
  /\ pc[k] = "leave_set" => ChannelOf(sid[k]) = NoChannel

\* A setter of one field leaves the channel field alone.
LEMMA OtherFieldsOf ==
  ASSUME NEW x \in Sessions
  PROVE  /\ \A r : [x EXCEPT !.role = r].channel = x.channel
         /\ \A m, d : [x EXCEPT !.muted = m, !.deafened = d].channel = x.channel
  BY DEF Sessions

\* The setters and Remove leave the channel field of every other session alone.
LEMMA OtherFieldsStay ==
  ASSUME SessionsTypeOK, NEW s \in DOMAIN sessions
  PROVE  /\ UNCHANGED sessions => sessions'[s].channel = sessions[s].channel
         /\ \A id : \A r \in Roles :
              UpdateRole(id, r) => sessions'[s].channel = sessions[s].channel
         /\ \A id : \A m, d \in BOOLEAN :
              UpdateUserState(id, m, d) => sessions'[s].channel = sessions[s].channel
         /\ \A id, c :
              id # s /\ SetChannel(id, c) => sessions'[s].channel = sessions[s].channel
         /\ \A id, u, r :
              id # s /\ Create(id, u, r) => sessions'[s].channel = sessions[s].channel
         /\ \A id : id # s /\ Remove(id) => sessions'[s].channel = sessions[s].channel
PROOF
  <1>1. sessions[s] \in Sessions
    BY DEF SessionsTypeOK, IsMap
  <1>2. ASSUME NEW id, NEW new, Update(id, new), id # s \/ new.channel = sessions[s].channel
        PROVE  sessions'[s].channel = sessions[s].channel
    BY <1>2 DEF Update, Put
  <1>3. ASSUME NEW id, NEW r \in Roles, UpdateRole(id, r)
        PROVE  sessions'[s].channel = sessions[s].channel
    <2> DEFINE new == [sessions[id] EXCEPT !.role = r]
    <2>1. Update(id, new)
      BY <1>3 DEF UpdateRole
    <2>2. id # s \/ new.channel = sessions[s].channel
      BY <1>1, OtherFieldsOf
    <2> HIDE DEF new
    <2> QED BY <1>2, <2>1, <2>2
  <1>4. ASSUME NEW id, NEW m \in BOOLEAN, NEW d \in BOOLEAN, UpdateUserState(id, m, d)
        PROVE  sessions'[s].channel = sessions[s].channel
    <2> DEFINE new == [sessions[id] EXCEPT !.muted = m, !.deafened = d]
    <2>1. Update(id, new)
      BY <1>4 DEF UpdateUserState
    <2>2. id # s \/ new.channel = sessions[s].channel
      BY <1>1, OtherFieldsOf
    <2> HIDE DEF new
    <2> QED BY <1>2, <2>1, <2>2
  <1>5. \A id, c : id # s /\ SetChannel(id, c) => sessions'[s].channel = sessions[s].channel
    BY <1>2 DEF SetChannel
  <1>6. \A id, u, r :
          id # s /\ Create(id, u, r) => sessions'[s].channel = sessions[s].channel
    BY DEF Create, Put
  <1>7. \A id : id # s /\ Remove(id) => sessions'[s].channel = sessions[s].channel
    BY DEF Remove, Drop
  <1> QED BY <1>3, <1>4, <1>5, <1>6, <1>7

\* Join and Leave move one session in the index.
LEMMA OtherSeatsStay ==
  ASSUME NEW s
  PROVE  /\ UNCHANGED roomVars => ChannelOf(s)' = ChannelOf(s)
         /\ \A id : id # s /\ Leave(id) => ChannelOf(s)' = ChannelOf(s)
         /\ \A id, c : id # s /\ Join(id, c) => ChannelOf(s)' = ChannelOf(s)
PROOF
  <1>1. UNCHANGED roomVars => ChannelOf(s)' = ChannelOf(s)
    BY DEF roomVars, ChannelOf
  <1>2. \A id : id # s /\ Leave(id) => ChannelOf(s)' = ChannelOf(s)
    BY DEF Leave, Drop, ChannelOf
  <1>3. \A id, c : id # s /\ Join(id, c) => ChannelOf(s)' = ChannelOf(s)
    BY DEF Join, Put, ChannelOf
  <1> QED BY <1>1, <1>2, <1>3

\* Of what clients do, leaves and reports of a user's state touch rooms and sessions.
LEMMA ClientSeats ==
  ASSUME NEW k \in Conns, Client(k)
  PROVE  \/ LeaveRequest(k)
         \/ \E m, d \in BOOLEAN : UserStateRequest(k, m, d)
         \/ /\ UNCHANGED <<roomVars, sessions>>
            /\ \/ Accept(k) \/ ClientClose(k)
               \/ \E u \in Users, t \in Tokens \cup {NoToken} : AuthRequest(k, u, t)
               \/ \E c : DeleteChannelRequest(k, c)
               \/ /\ pc[k] = "loop" /\ UNCHANGED sid
                  /\ \E l \in Agreeing \ Deletes : Goto(k, l)
PROOF
  <1> DEFINE Calm == /\ UNCHANGED <<roomVars, sessions>>
                     /\ pc[k] = "loop" /\ UNCHANGED sid
                     /\ \E l \in Agreeing \ Deletes : Goto(k, l)
  <1>1. {"join_count", "chan_rate", "chan_store", "tok_store", "evict_find", "ban_store",
         "role_store"} \subseteq Agreeing \ Deletes
    BY DEF Agreeing, RequestSteps, Deletes
  <1>2. ASSUME NEW c \in ChannelIDs, JoinRequest(k, c)
        PROVE  Calm
    BY <1>1, <1>2 DEF JoinRequest, Request
  <1>3. ASSUME NEW ch \in ChannelSpecs, CreateChannelRequest(k, ch)
        PROVE  Calm
    BY <1>1, <1>3 DEF CreateChannelRequest, Request
  <1>4. ASSUME NEW r \in Roles, CreateTokenRequest(k, r)
        PROVE  Calm
    BY <1>1, <1>4 DEF CreateTokenRequest, Request
  <1>5. ASSUME NEW u \in DOMAIN users, KickRequest(k, u) \/ BanRequest(k, u)
        PROVE  Calm
    BY <1>1, <1>5 DEF KickRequest, BanRequest, Request
  <1>6. ASSUME NEW u \in DOMAIN users, NEW r \in Roles, SetUserRoleRequest(k, u, r)
        PROVE  Calm
    BY <1>1, <1>6 DEF SetUserRoleRequest, Request
  <1>7. Accept(k) \/ ClientClose(k) => UNCHANGED <<roomVars, sessions>>
    BY DEF Accept, ClientClose
  <1>8. ASSUME NEW u \in Users, NEW t \in Tokens \cup {NoToken}, AuthRequest(k, u, t)
        PROVE  UNCHANGED <<roomVars, sessions>>
    BY <1>8 DEF AuthRequest
  <1>9. ASSUME NEW c \in ChannelIDs, DeleteChannelRequest(k, c)
        PROVE  UNCHANGED <<roomVars, sessions>>
    BY <1>9 DEF DeleteChannelRequest
  <1> HIDE DEF Calm
  <1>10. \/ LeaveRequest(k)
         \/ \E m, d \in BOOLEAN : UserStateRequest(k, m, d)
         \/ /\ UNCHANGED <<roomVars, sessions>>
            /\ \/ Accept(k) \/ ClientClose(k)
               \/ \E u \in Users, t \in Tokens \cup {NoToken} : AuthRequest(k, u, t)
               \/ \E c : DeleteChannelRequest(k, c)
         \/ Calm
    BY <1>2, <1>3, <1>4, <1>5, <1>6, <1>7, <1>8, <1>9 DEF Client
  <1> QED BY <1>10 DEF Calm

\* But for the two steps of a deletion, a goroutine changes both records of its own
\* session only.
LEMMA OthersSitStill ==
  ASSUME GoroutinesTypeOK, SessionsTypeOK, NEW k \in Conns, Acts(k),
         ~DelLeave(k), ~DelSet(k),
         NEW s \in DOMAIN sessions, Live(k) => sid[k] # s
  PROVE  ChannelOf(s)' = ChannelOf(s) /\ sessions'[s].channel = sessions[s].channel
PROOF
  <1> DEFINE Goal == ChannelOf(s)' = ChannelOf(s) /\ sessions'[s].channel = sessions[s].channel
  <1> SUFFICES Goal
    OBVIOUS
  <1>0. ASSUME UNCHANGED <<roomVars, sessions>>
        PROVE  Goal
    BY <1>0, OtherSeatsStay, OtherFieldsStay
  <1>1. pc[k] \in Serving \cup ByeSteps \cup {"set_conn"} => sid[k] # s
    BY DEF Live, Serving, ByeSteps
  <1>2. CASE Client(k)
    <2>1. CASE LeaveRequest(k)
      BY <1>1, <2>1, OtherSeatsStay, OtherFieldsStay
         DEF LeaveRequest, Request, Serving
    <2>2. ASSUME NEW m \in BOOLEAN, NEW d \in BOOLEAN, UserStateRequest(k, m, d)
          PROVE  Goal
      BY <2>2, OtherSeatsStay, OtherFieldsStay DEF UserStateRequest
    <2> QED BY <1>0, <1>2, <2>1, <2>2, ClientSeats
  <1>3. CASE NewSession(k)
    <2>1. PICK id \in FreeIDs : Create(id, who[k], arg[k].role)
      BY <1>3 DEF NewSession
    <2> QED BY <1>3, <2>1, OtherSeatsStay, OtherFieldsStay DEF NewSession, FreeIDs
  <1>4. CASE ByeLeave(k)
    BY <1>1, <1>4, OtherSeatsStay, OtherFieldsStay DEF ByeLeave, Step, Serving
  <1>5. CASE ByeSession(k)
    BY <1>1, <1>5, OtherSeatsStay, OtherFieldsStay DEF ByeSession, ByeSteps
  <1>6. CASE JoinMove(k)
    BY <1>1, <1>6, OtherSeatsStay, OtherFieldsStay
       DEF JoinMove, Step, Serving, RequestSteps
  <1>7. CASE JoinSet(k) \/ LeaveSet(k)
    <2>1. (\E c : SetChannel(sid[k], c)) /\ UNCHANGED roomVars
      BY <1>7 DEF JoinSet, LeaveSet
    <2>2. sid[k] # s
      BY <1>1, <1>7 DEF JoinSet, LeaveSet, Step, Serving, RequestSteps
    <2> QED BY <2>1, <2>2, OtherSeatsStay, OtherFieldsStay
  <1>8. CASE RoleSet(k)
    <2>1. arg[k].role \in Roles
      BY DEF GoroutinesTypeOK, Frames
    <2> QED BY <1>8, <2>1, OtherSeatsStay, OtherFieldsStay DEF RoleSet
  <1> HIDE DEF Goal
  <1>10. CASE AuthReject(k) \/ GetUser(k) \/ CreateNewUser(k) \/ AutoToken(k) \/ CheckBan(k)
              \/ SetConn(k) \/ Respond(k) \/ ReadError(k) \/ AuthStoreError(k) \/ ByeConn(k)
              \/ TempLookup(k) \/ TempCount(k)
    BY <1>0, <1>10 DEF AuthReject, GetUser, CreateNewUser, AutoToken, CheckBan, SetConn,
       Respond, ReadError, AuthStoreError, ByeConn, TempLookup, TempCount
  <1>11. CASE JoinCount(k) \/ ChanRate(k) \/ ChanStore(k) \/ DelStore(k) \/ DelMembers(k)
              \/ TokStore(k) \/ BanStore(k) \/ EvictFind(k) \/ EvictClose(k) \/ RoleStore(k)
              \/ RoleFind(k) \/ RequestStoreError(k)
    BY <1>0, <1>11 DEF JoinCount, ChanRate, ChanStore, DelStore, DelMembers, TokStore,
       BanStore, EvictFind, EvictClose, RoleStore, RoleFind, RequestStoreError
  <1> QED
    BY <1>2, <1>3, <1>4, <1>5, <1>6, <1>7, <1>8, <1>10, <1>11
       DEF Acts, Goroutine, Bye

\* The two steps of a deletion take a channel away and give none.
LEMMA DeletionTakes ==
  ASSUME SessionsTypeOK, NEW k \in Conns, DelLeave(k) \/ DelSet(k), NEW s \in DOMAIN sessions
  PROVE  /\ ChannelOf(s)' \in {ChannelOf(s), NoChannel}
         /\ sessions'[s].channel \in {sessions[s].channel, NoChannel}
PROOF
  <1>1. \A id : Leave(id) => ChannelOf(s)' \in {ChannelOf(s), NoChannel}
    BY DEF Leave, Drop, ChannelOf
  <1>2. ASSUME NEW id, SetChannel(id, NoChannel)
        PROVE  sessions'[s].channel \in {sessions[s].channel, NoChannel}
    <2>1. CASE id # s
      BY <1>2, <2>1, OtherFieldsStay
    <2>2. CASE id = s
      <3>1. sessions[s] \in Sessions
        BY DEF SessionsTypeOK, IsMap
      <3>2. [sessions[s] EXCEPT !.channel = NoChannel].channel = NoChannel
        BY <3>1 DEF Sessions
      <3> QED BY <1>2, <2>2, <3>2 DEF SetChannel, Update, Put
    <2> QED BY <2>1, <2>2
  <1>3. CASE DelLeave(k)
    <2>1. UNCHANGED sessions /\ (UNCHANGED roomVars \/ \E id : Leave(id))
      BY <1>3 DEF DelLeave
    <2> QED BY <1>1, <2>1, OtherSeatsStay
  <1>4. CASE DelSet(k)
    <2>1. UNCHANGED roomVars /\ SetChannel(arg[k].sess, NoChannel)
      BY <1>4 DEF DelSet
    <2> QED BY <1>2, <2>1, OtherSeatsStay
  <1> QED BY <1>3, <1>4

\* What a deletion takes leaves the two records of every session as SeatSet has them.
LEMMA DeletionAgrees ==
  ASSUME GoroutinesTypeOK, SessionsTypeOK, NEW k \in Conns, DelLeave(k) \/ DelSet(k),
         SeatSet(k), NEW j \in Conns, SeatSet(j), sid[j] \in DOMAIN sessions,
         UNCHANGED sid, pc'[j] = pc[j] \/ (pc[j] \in Deletes /\ pc'[j] \in {"loop"} \cup Deletes),
         pc[j] = "join_set" => arg'[j].ch = arg[j].ch
  PROVE  SeatSet(j)'
PROOF
  <1> DEFINE s == sid[j]
  <1>1. "delete" \in Kinds
    BY DEF DelLeave, DelSet, Step, SeatSet, Deletes
  <1>2. /\ ChannelOf(s)' \in {ChannelOf(s), NoChannel}
        /\ sessions'[s].channel \in {sessions[s].channel, NoChannel}
    BY DeletionTakes
  <1>3. pc'[j] \in Agreeing => pc[j] \in Agreeing
    BY DEF Agreeing, Deletes, RequestSteps
  <1>4. pc'[j] \in {"join_set", "leave_set"} => pc'[j] = pc[j]
    BY DEF Deletes
  <1>5. Mine(j)'.channel = sessions'[s].channel /\ ChannelOf(sid[j])' = ChannelOf(s)'
    BY DEF Mine, ChannelOf
  <1>6. pc'[j] \in Agreeing => Agree(Mine(j).channel, ChannelOf(sid[j]))'
    BY <1>1, <1>2, <1>3, <1>5 DEF SeatSet, Agree, Mine
  <1>7. pc'[j] = "join_set" => Agree(arg[j].ch, ChannelOf(sid[j]))'
    BY <1>1, <1>2, <1>4, <1>5 DEF SeatSet, Agree
  <1>8. pc'[j] = "leave_set" => ChannelOf(sid[j])' = NoChannel
    BY <1>2, <1>4, <1>5 DEF SeatSet
  <1> QED BY <1>1, <1>6, <1>7, <1>8 DEF SeatSet

\* The goroutine that joins or leaves sets the field before it serves anything else.
LEMMA OwnSeatSet ==
  ASSUME IInv, NEW k \in Conns, Acts(k), SeatSet(k)
  PROVE  SeatSet(k)'
PROOF
  <1> DEFINE s == sid[k]
  <1>0. GoroutinesTypeOK /\ SessionsTypeOK /\ SessionsOwned /\ MembersLive
    BY DEF IInv, Owned
  <1>1. \A l : Goto(k, l) => pc'[k] = l
    BY <1>0 DEF Goto, GoroutinesTypeOK
  <1>2. pc[k] \in Agreeing \cup {"join_set", "leave_set"} => s \in DOMAIN sessions
    BY <1>0 DEF Agreeing, Live, SessionsOwned, RequestSteps
  \* A step that moves no seat
  <1>3. ASSUME pc[k] \in Agreeing, UNCHANGED <<roomVars, sid>>,
               sessions'[s].channel = sessions[s].channel,
               pc'[k] \notin {"join_set", "leave_set"},
               pc'[k] \in Deletes => "delete" \in Kinds
        PROVE  SeatSet(k)'
    BY <1>3, OtherSeatsStay DEF SeatSet, Mine, Agree
  \* A step to where nothing is said of the seat
  <1>4. ASSUME pc'[k] \notin Agreeing \cup Deletes \cup {"join_set", "leave_set"}
        PROVE  SeatSet(k)'
    BY <1>4 DEF SeatSet
  <1>5. ASSUME pc[k] \in Agreeing, NEW l, l \notin {"join_set", "leave_set"},
               l \in Deletes => "delete" \in Kinds,
               Goto(k, l), UNCHANGED <<roomVars, sessions, sid>>
        PROVE  SeatSet(k)'
    BY <1>1, <1>3, <1>5
  <1> USE DEF Agreeing, Deletes, RequestSteps
  <1>6. CASE Client(k)
    <2>1. CASE LeaveRequest(k)
      <3>1. ChannelOf(sid[k])' = NoChannel
        BY <2>1 DEF LeaveRequest, Request, Leave, Drop, ChannelOf
      <3> QED BY <1>1, <2>1, <3>1 DEF LeaveRequest, SeatSet
    <2>2. ASSUME NEW m \in BOOLEAN, NEW d \in BOOLEAN, UserStateRequest(k, m, d)
          PROVE  SeatSet(k)'
      <3>1. /\ UpdateUserState(s, m, d) /\ UNCHANGED <<roomVars, sid, pc>>
            /\ pc[k] = "loop"
        BY <2>2 DEF UserStateRequest, Request
      <3>2. sessions'[s].channel = sessions[s].channel
        BY <1>0, <1>2, <3>1, OtherFieldsStay
      <3> QED BY <1>3, <3>1, <3>2
    <2>3. CASE Accept(k) \/ \E u \in Users, t \in Tokens \cup {NoToken} : AuthRequest(k, u, t)
      BY <1>1, <1>4, <2>3 DEF Accept, AuthRequest
    <2>4. CASE ClientClose(k)
      BY <2>4, OtherSeatsStay DEF ClientClose, SeatSet, Mine
    <2>5. CASE \E c : DeleteChannelRequest(k, c)
      BY <1>5, <2>5 DEF DeleteChannelRequest, Request
    <2>6. CASE /\ UNCHANGED <<roomVars, sessions>> /\ pc[k] = "loop" /\ UNCHANGED sid
               /\ \E l \in Agreeing \ Deletes : Goto(k, l)
      BY <1>5, <2>6
    <2> HIDE DEF Agreeing, Deletes, RequestSteps
    <2> QED BY <1>6, <2>1, <2>2, <2>3, <2>4, <2>5, <2>6, ClientSeats
  <1>7. CASE NewSession(k)
    <2>1. PICK id \in FreeIDs : /\ Create(id, who[k], arg[k].role)
                                /\ sid' = [sid EXCEPT ![k] = id]
      BY <1>7 DEF NewSession
    <2>2. sid'[k] = id /\ pc'[k] = "set_conn" /\ UNCHANGED sessionToChannel
      BY <1>0, <1>1, <1>7, <2>1 DEF NewSession, GoroutinesTypeOK, roomVars
    <2>3. sessions'[id].channel = NoChannel
      BY <2>1 DEF Create, Put
    <2>4. id \notin DOMAIN sessionToChannel
      BY <1>0, <2>1 DEF FreeIDs, MembersLive, SessionsOwned, Seated, Live, ByeSteps
    <2> QED BY <2>2, <2>3, <2>4 DEF SeatSet, Mine, ChannelOf, Agree
  <1>8. CASE JoinMove(k)
    <2>1. ChannelOf(sid[k])' = arg'[k].ch
      BY <1>8 DEF JoinMove, Step, Join, Put, ChannelOf
    <2>2. pc'[k] = "join_set"
      BY <1>1, <1>8 DEF JoinMove
    <2>3. Agree(arg[k].ch, ChannelOf(sid[k]))'
      BY <2>1 DEF Agree
    <2> QED BY <2>2, <2>3 DEF SeatSet
  <1>9. CASE JoinSet(k) \/ LeaveSet(k)
    <2>1. PICK c : /\ SetChannel(s, c) /\ Agree(c, ChannelOf(s))
                   /\ UNCHANGED <<roomVars, sid>>
                   /\ pc[k] \in {"join_set", "leave_set"}
                   /\ \E l \in {"loop", "temp_lookup"} : Goto(k, l)
      BY <1>9 DEF JoinSet, LeaveSet, Step, Finish, SeatSet, Agree
    <2>2. sessions'[s].channel = c
      <3>1. s \in DOMAIN sessions /\ sessions[s] \in Sessions
        BY <1>0, <1>2, <2>1 DEF SessionsTypeOK, IsMap
      <3>2. [sessions[s] EXCEPT !.channel = c].channel = c
        BY <3>1 DEF Sessions
      <3> QED BY <2>1, <3>1, <3>2 DEF SetChannel, Update, Put
    <2> QED BY <1>1, <2>1, <2>2, OtherSeatsStay DEF SeatSet, Mine, Agree
  <1>10. CASE RoleSet(k)
    <2>1. /\ UpdateRole(arg[k].sess, arg[k].role) /\ UNCHANGED <<roomVars, sid>>
          /\ pc[k] = "role_set" /\ Goto(k, "loop")
      BY <1>10 DEF RoleSet, Step, Finish
    <2>2. sessions'[s].channel = sessions[s].channel
      BY <1>0, <1>2, <2>1, OtherFieldsStay DEF GoroutinesTypeOK, Frames
    <2> QED BY <1>1, <1>3, <2>1, <2>2
  <1>11. CASE SetConn(k) \/ Respond(k) \/ ReadError(k)
    BY <1>5, <1>11 DEF SetConn, Respond, ReadError, Step, Finish
  <1>12. CASE JoinCount(k) \/ ChanRate(k) \/ ChanStore(k)
    BY <1>5, <1>12 DEF JoinCount, ChanRate, ChanStore, Step, Finish
  <1>13. CASE TokStore(k) \/ BanStore(k) \/ EvictFind(k) \/ EvictClose(k) \/ RoleStore(k)
              \/ RoleFind(k)
    BY <1>5, <1>13 DEF TokStore, BanStore, EvictFind, EvictClose, RoleStore, RoleFind, Step,
       Finish
  <1>14. CASE RequestStoreError(k)
    BY <1>5, <1>14 DEF RequestStoreError, Finish, SeatSet
  <1>15. CASE TempLookup(k) \/ TempCount(k)
    <2>1. CASE pc[k] \in {"temp_lookup", "temp_count"}
      BY <1>5, <1>15, <2>1 DEF TempLookup, TempCount, TempDone, Finish
    <2>2. CASE pc[k] \notin {"temp_lookup", "temp_count"}
      BY <1>1, <1>4, <1>15, <2>2 DEF TempLookup, TempCount, TempDone, Return
    <2> QED BY <2>1, <2>2
  <1>16. CASE AuthReject(k) \/ GetUser(k) \/ CreateNewUser(k) \/ AutoToken(k) \/ CheckBan(k)
              \/ AuthStoreError(k) \/ ByeLeave(k) \/ ByeConn(k) \/ ByeSession(k)
    BY <1>1, <1>4, <1>16 DEF AuthReject, GetUser, CreateNewUser, AutoToken, CheckBan,
       AuthStoreError, ByeLeave, ByeConn, ByeSession, Return
  <1>17. CASE DelStore(k) \/ DelMembers(k)
    <2>1. "delete" \in Kinds
      BY <1>17 DEF DelStore, DelMembers, Step, SeatSet
    <2> QED BY <1>5, <1>17, <2>1 DEF DelStore, DelMembers, Step
  <1>18. CASE DelLeave(k) \/ DelSet(k)
    <2>1. /\ pc[k] \in {"del_leave", "del_set"} /\ UNCHANGED sid
          /\ pc'[k] \in {"loop", "del_leave", "del_set"}
      BY <1>1, <1>18 DEF DelLeave, DelSet, Step, Finish
    <2> QED BY <1>0, <1>2, <1>18, <2>1, DeletionAgrees
  <1> HIDE DEF Agreeing, Deletes, RequestSteps
  <1> QED
    BY <1>6, <1>7, <1>8, <1>9, <1>10, <1>11, <1>12, <1>13, <1>14, <1>15, <1>16, <1>17,
       <1>18 DEF Acts, Goroutine, Bye

(***************************************************************************)
(* The channel field of a session that is served and its seat, written     *)
(* under two locks, agree between its requests, but for what the handlers  *)
(* that delete channels take away from a stale list of members: one of the *)
(* two may be gone, they never name two channels (control.go:385-517).     *)
(***************************************************************************)
THEOREM SeatsAgree == Spec => []SeatAgrees
PROOF
  <1> DEFINE SInv == \A k \in Conns : SeatSet(k)
  <1>1. Init => SInv
    BY DEF Init, SeatSet, Deletes, Agreeing, RequestSteps
  <1>2. IInv /\ SInv /\ [Next]_vars => SInv'
    <2> SUFFICES ASSUME IInv, SInv, [Next]_vars, NEW j \in Conns
                 PROVE  SeatSet(j)'
      OBVIOUS
    <2>0. GoroutinesTypeOK /\ SessionsTypeOK /\ SessionsOwned
      BY DEF IInv, Owned
    <2>1. ASSUME NEW k \in Conns, Acts(k), j # k
          PROVE  SeatSet(j)'
      <3>1. pc'[j] = pc[j] /\ sid'[j] = sid[j] /\ arg'[j] = arg[j]
        BY <2>0, <2>1, ActsAlone DEF Alone
      <3>2. CASE Live(j) /\ ~DelLeave(k) /\ ~DelSet(k)
        <4>1. sid[j] \in DOMAIN sessions /\ (Live(k) => sid[k] # sid[j])
          BY <2>0, <2>1, <3>2 DEF SessionsOwned
        <4>2. /\ ChannelOf(sid[j])' = ChannelOf(sid[j])
              /\ sessions'[sid[j]].channel = sessions[sid[j]].channel
          BY <2>0, <2>1, <3>1, <3>2, <4>1, OthersSitStill DEF ChannelOf
        <4> QED BY <3>1, <4>2 DEF SeatSet, Mine, Agree
      <3>3. CASE Live(j) /\ (DelLeave(k) \/ DelSet(k))
        <4>1. sid[j] \in DOMAIN sessions /\ UNCHANGED sid
          BY <2>0, <3>3 DEF SessionsOwned, DelLeave, DelSet, Step
        <4> QED BY <2>0, <3>1, <3>3, <4>1, DeletionAgrees
      <3>4. CASE ~Live(j)
        BY <3>1, <3>4 DEF SeatSet, Live, Agreeing, RequestSteps, Deletes
      <3> QED BY <3>2, <3>3, <3>4
    <2>2. ASSUME Acts(j)
          PROVE  SeatSet(j)'
      BY <2>2, OwnSeatSet
    <2>3. ASSUME UNCHANGED <<pc, sid, arg, sessions, roomVars>>
          PROVE  SeatSet(j)'
      BY <2>3 DEF SeatSet, Mine, ChannelOf, roomVars, Agree
    <2>4. (\E k \in Conns : Acts(k)) \/ UNCHANGED <<pc, sid, arg, sessions, roomVars>>
      BY DEF Next, Acts, TimerWake, TimerDelete, RateExpires, Clock, Quiet, vars,
         goroutineVars, roomVars
    <2> QED BY <2>1, <2>2, <2>3, <2>4
  <1>3. SInv => SeatAgrees
    BY DEF SeatAgrees, SeatSet, Agreeing
  <1> QED BY <1>1, <1>2, <1>3, Invariance, PTL DEF Spec

-----------------------------------------------------------------------------
(* Channels and their timers *)

\* The steps that may change the store.
StoreStep(k) ==
  \/ \E u \in Users, t \in Tokens \cup {NoToken} : AuthRequest(k, u, t)
  \/ CreateNewUser(k) \/ AutoToken(k) \/ ChanStore(k) \/ DelStore(k) \/ TokStore(k)
  \/ BanStore(k) \/ RoleStore(k)

\* All others leave it as it is.
LEMMA StoreSteps ==
  ASSUME [Next]_vars
  PROVE  \/ UNCHANGED storeVars
         \/ \E k \in Conns : StoreStep(k)
         \/ \E c \in ChannelIDs : TimerDelete(c)
         \/ Clock
PROOF
  <1>1. ASSUME NEW k \in Conns, Client(k)
        PROVE  UNCHANGED storeVars \/ StoreStep(k)
    BY <1>1 DEF StoreStep, Client, Accept, ClientClose, JoinRequest, DeleteChannelRequest,
       LeaveRequest, UserStateRequest, CreateChannelRequest, CreateTokenRequest, KickRequest,
       BanRequest, SetUserRoleRequest
  <1>2. ASSUME NEW k \in Conns, Goroutine(k)
        PROVE  UNCHANGED storeVars \/ StoreStep(k)
    BY <1>2 DEF StoreStep, Goroutine, AuthReject, GetUser, CheckBan, NewSession, SetConn,
       Respond, ReadError, AuthStoreError, Bye, ByeLeave, ByeConn, ByeSession, TempLookup,
       TempCount, JoinCount, JoinMove, JoinSet, LeaveSet, ChanRate, DelMembers, DelLeave,
       DelSet, EvictFind, EvictClose, RoleFind, RoleSet, RequestStoreError
  <1>3. ASSUME NEW c \in ChannelIDs, TimerWake(c)
        PROVE  UNCHANGED storeVars
    BY <1>3 DEF TimerWake
  <1>4. ASSUME NEW u \in Users, RateExpires(u)
        PROVE  UNCHANGED storeVars
    BY <1>4 DEF RateExpires
  <1>5. Quiet \/ UNCHANGED vars => UNCHANGED storeVars
    BY DEF Quiet, vars, storeVars
  <1> QED BY <1>1, <1>2, <1>3, <1>4, <1>5 DEF Next

\* A temp channel, or one that is gone and whose ID is never given out again
Passing(c) == c < nextChannelID /\ (c \in DOMAIN channels => channels[c].isTemp)

Counting == {"temp_count", "bye_count"}

\* IDs are given out in order, and timers are set for temp channels only
TimersPassing ==
  /\ \A c \in DOMAIN channels : c < nextChannelID
  /\ \A c \in ChannelIDs : asleep[c] > 0 \/ deleting[c] > 0 => Passing(c)
  /\ \A k \in Conns : pc[k] \in Counting => Passing(arg[k].ch)

\* Who deletes: a handler that was asked to, or a timer that is past its re-check.
LEMMA ChannelsChange ==
  ASSUME [Next]_vars
  PROVE  \/ UNCHANGED <<channels, nextChannelID>>
         \/ \E ch : CreateChannel(ch)
         \/ \E k \in Conns : pc[k] = "del_store" /\ DeleteChannel(arg[k].ch)
         \/ \E c \in ChannelIDs : deleting[c] > 0 /\ DeleteChannel(c)
PROOF
  <1>1. ASSUME NEW k \in Conns, StoreStep(k)
        PROVE  \/ UNCHANGED <<channels, nextChannelID>>
               \/ \E ch : CreateChannel(ch)
               \/ pc[k] = "del_store" /\ DeleteChannel(arg[k].ch)
    BY <1>1 DEF StoreStep, AuthRequest, CreateNewUser, AutoToken, ChanStore, DelStore,
       TokStore, BanStore, RoleStore, Step, ValidateToken, CreateUser, CreateToken,
       CreateBan, UpdateUserRole, storeVars
  <1>2. ASSUME NEW c \in ChannelIDs, TimerDelete(c)
        PROVE  UNCHANGED <<channels, nextChannelID>> \/ (deleting[c] > 0 /\ DeleteChannel(c))
    BY <1>2 DEF TimerDelete, storeVars
  <1>3. Clock => UNCHANGED <<channels, nextChannelID>>
    BY DEF Clock, TokenExpires, BanExpires
  <1>4. UNCHANGED storeVars => UNCHANGED <<channels, nextChannelID>>
    BY DEF storeVars
  <1> QED BY <1>1, <1>2, <1>3, <1>4, StoreSteps

\* An ID that has been given out is never that of a permanent channel again.
LEMMA PassingStays ==
  ASSUME StoreTypeOK, [Next]_vars, \A c \in DOMAIN channels : c < nextChannelID
  PROVE  /\ \A c \in DOMAIN channels' : c < nextChannelID'
         /\ \A c \in ChannelIDs : Passing(c) => Passing(c)'
PROOF
  <1> USE DEF Passing
  <1>1. nextChannelID \in Nat /\ DOMAIN channels \subseteq ChannelIDs
    BY DEF StoreTypeOK, IsMap
  <1>2. CASE UNCHANGED <<channels, nextChannelID>>
    BY <1>2
  <1>3. ASSUME NEW ch, CreateChannel(ch)
        PROVE  /\ \A c \in DOMAIN channels' : c < nextChannelID'
               /\ \A c \in ChannelIDs : Passing(c) => Passing(c)'
    BY <1>1, <1>3 DEF CreateChannel, Put, ChannelIDs
  <1>4. ASSUME NEW d, DeleteChannel(d)
        PROVE  /\ \A c \in DOMAIN channels' : c < nextChannelID'
               /\ \A c \in ChannelIDs : Passing(c) => Passing(c)'
    BY <1>4 DEF DeleteChannel, Drop
  <1> QED BY <1>2, <1>3, <1>4, ChannelsChange

\* A goroutine counts the members of a channel it has found to be a temp channel.
LEMMA CountsTempOnly ==
  ASSUME GoroutinesTypeOK, NEW k \in Conns, Acts(k), pc'[k] \in Counting
  PROVE  /\ arg'[k] = arg[k]
         /\ pc[k] \in Counting \/ IsTempChannel(arg[k].ch)
PROOF
  <1> DEFINE Goal == /\ arg'[k] = arg[k]
                     /\ pc[k] \in Counting \/ IsTempChannel(arg[k].ch)
  <1> SUFFICES Goal
    OBVIOUS
  <1>0. ASSUME NEW l, Goto(k, l), l \notin Counting
        PROVE  FALSE
    BY <1>0 DEF Goto, GoroutinesTypeOK
  <1> USE DEF Counting
  <1>1. CASE Client(k)
    <2>1. CASE Accept(k) \/ \E u \in Users, t \in Tokens \cup {NoToken} : AuthRequest(k, u, t)
      BY <1>0, <2>1 DEF Accept, AuthRequest
    <2>2. CASE ClientClose(k)
      BY <2>2 DEF ClientClose
    <2>3. CASE Asked(k)
      BY <1>0, <2>3 DEF Asked, RequestSteps
    <2> QED BY <1>1, <2>1, <2>2, <2>3, ClientAsks
  <1>2. CASE TempLookup(k)
    BY <1>0, <1>2 DEF TempLookup, TempDone, Finish, Return
  <1> HIDE DEF Goal
  <1>3. ~TempCount(k)
    BY <1>0 DEF TempCount, TempDone, Finish, Return
  <1>4. /\ ~AuthReject(k) /\ ~GetUser(k) /\ ~CreateNewUser(k) /\ ~AutoToken(k)
        /\ ~CheckBan(k) /\ ~AuthStoreError(k)
    BY <1>0 DEF AuthReject, GetUser, CreateNewUser, AutoToken, CheckBan, AuthStoreError,
       Return
  <1>5. /\ ~NewSession(k) /\ ~SetConn(k) /\ ~Respond(k) /\ ~ReadError(k)
        /\ ~ByeLeave(k) /\ ~ByeConn(k) /\ ~ByeSession(k)
    BY <1>0 DEF NewSession, SetConn, Respond, ReadError, ByeLeave, ByeConn, ByeSession,
       Finish, Return
  <1>6. /\ ~JoinCount(k) /\ ~JoinMove(k) /\ ~JoinSet(k) /\ ~LeaveSet(k) /\ ~ChanRate(k)
        /\ ~ChanStore(k)
    BY <1>0 DEF JoinCount, JoinMove, JoinSet, LeaveSet, ChanRate, ChanStore, Finish
  <1>7. /\ ~DelStore(k) /\ ~DelMembers(k) /\ ~DelLeave(k) /\ ~DelSet(k)
    BY <1>0 DEF DelStore, DelMembers, DelLeave, DelSet, Finish
  <1>8. /\ ~TokStore(k) /\ ~BanStore(k) /\ ~EvictFind(k) /\ ~EvictClose(k)
        /\ ~RoleStore(k) /\ ~RoleFind(k) /\ ~RoleSet(k) /\ ~RequestStoreError(k)
    BY <1>0 DEF TokStore, BanStore, EvictFind, EvictClose, RoleStore, RoleFind, RoleSet,
       RequestStoreError, Finish
  <1> QED
    BY <1>1, <1>2, <1>3, <1>4, <1>5, <1>6, <1>7, <1>8 DEF Acts, Goroutine, Bye

\* Who sets timers: a goroutine that counts; who moves them on: the timers themselves.
LEMMA TimersChange ==
  ASSUME GoroutinesTypeOK, LocalsSet, [Next]_vars, NEW c \in ChannelIDs
  PROVE  /\ asleep'[c] > 0 => \/ asleep[c] > 0
                              \/ \E k \in Conns : pc[k] \in Counting /\ arg[k].ch = c
         /\ deleting'[c] > 0 => deleting[c] > 0 \/ asleep[c] > 0
PROOF
  <1>0. /\ asleep \in [ChannelIDs -> Nat] /\ deleting \in [ChannelIDs -> Nat]
    BY DEF GoroutinesTypeOK
  <1>1. ASSUME NEW k \in Conns, TempCount(k)
        PROVE  /\ asleep'[c] > 0 => asleep[c] > 0 \/ (pc[k] \in Counting /\ arg[k].ch = c)
               /\ deleting' = deleting
    BY <1>0, <1>1 DEF TempCount, Counting
  <1>2. ASSUME NEW d \in ChannelIDs, TimerWake(d)
        PROVE  /\ asleep'[c] > 0 => asleep[c] > 0
               /\ deleting'[c] > 0 => deleting[c] > 0 \/ asleep[c] > 0
    BY <1>0, <1>2 DEF TimerWake
  <1>3. ASSUME NEW d \in ChannelIDs, TimerDelete(d)
        PROVE  asleep' = asleep /\ (deleting'[c] > 0 => deleting[c] > 0)
    BY <1>0, <1>3 DEF TimerDelete
  <1>4. ASSUME NEW k \in Conns, Client(k)
        PROVE  UNCHANGED timerVars
    BY <1>4 DEF Client, Accept, ClientClose, AuthRequest, JoinRequest, DeleteChannelRequest,
       LeaveRequest, UserStateRequest, CreateChannelRequest, CreateTokenRequest, KickRequest,
       BanRequest, SetUserRoleRequest
  <1>5. ASSUME NEW k \in Conns, Goroutine(k)
        PROVE  UNCHANGED timerVars \/ TempCount(k)
    BY <1>5 DEF Goroutine, AuthReject, GetUser, CreateNewUser, AutoToken, CheckBan,
       NewSession, SetConn, Respond, ReadError, AuthStoreError, Bye, ByeLeave, ByeConn,
       ByeSession, TempLookup, JoinCount, JoinMove, JoinSet, LeaveSet, ChanRate, ChanStore,
       DelStore, DelMembers, DelLeave, DelSet, TokStore, BanStore, EvictFind, EvictClose,
       RoleStore, RoleFind, RoleSet, RequestStoreError
  <1>6. ASSUME NEW u \in Users, RateExpires(u)
        PROVE  UNCHANGED timerVars
    BY <1>6 DEF RateExpires
  <1>7. Clock \/ Quiet \/ UNCHANGED vars => UNCHANGED timerVars
    BY DEF Clock, Quiet, vars, timerVars
  <1>8. UNCHANGED timerVars => asleep' = asleep /\ deleting' = deleting
    BY DEF timerVars
  <1> QED BY <1>1, <1>2, <1>3, <1>4, <1>5, <1>6, <1>7, <1>8 DEF Next

\* A permanent channel disappears only in answer to a delete request, for any number of
\* channels, timers and requests.
THEOREM PermanentStays == Spec => PermanentNeverExpires
PROOF
  <1>1. Init => TimersPassing
    <2> SUFFICES ASSUME Init
                 PROVE  TimersPassing
      OBVIOUS
    <2>1. \A c \in DOMAIN channels : c < nextChannelID
      BY ServerAssumption DEF Init
    <2>2. \A k \in Conns : pc[k] = "idle"
      BY DEF Init
    <2>3. \A c \in ChannelIDs : asleep[c] = 0 /\ deleting[c] = 0
      BY DEF Init
    <2> QED BY <2>1, <2>2, <2>3 DEF TimersPassing, Counting
  <1>2. IInv /\ TimersPassing /\ [Next]_vars => TimersPassing'
    <2> SUFFICES ASSUME IInv, TimersPassing, [Next]_vars
                 PROVE  TimersPassing'
      OBVIOUS
    <2>0. GoroutinesTypeOK /\ LocalsSet /\ StoreTypeOK
      BY DEF IInv
    <2>1. /\ \A c \in DOMAIN channels' : c < nextChannelID'
          /\ \A c \in ChannelIDs : Passing(c) => Passing(c)'
      BY <2>0, PassingStays DEF TimersPassing
    <2>2. \A k \in Conns : pc[k] \in Counting => arg[k].ch \in ChannelIDs
      BY <2>0 DEF LocalsSet, Fits, Counting
    <2>3. ASSUME NEW c \in ChannelIDs, asleep'[c] > 0 \/ deleting'[c] > 0
          PROVE  Passing(c)'
      BY <2>0, <2>1, <2>3, TimersChange DEF TimersPassing
    <2>4. ASSUME NEW j \in Conns, pc'[j] \in Counting
          PROVE  Passing(arg[j].ch)'
      <3>1. ASSUME NEW k \in Conns, Acts(k), j # k
            PROVE  pc[j] \in Counting /\ arg'[j] = arg[j]
        BY <2>0, <2>4, <3>1, ActsAlone DEF Alone
      <3>2. ASSUME Acts(j)
            PROVE  /\ arg'[j] = arg[j]
                   /\ pc[j] \in Counting \/ IsTempChannel(arg[j].ch)
        BY <2>0, <2>4, <3>2, CountsTempOnly
      <3>3. (\E k \in Conns : Acts(k)) \/ UNCHANGED <<pc, arg>>
        BY DEF Next, Acts, TimerWake, TimerDelete, RateExpires, Clock, Quiet, vars,
           goroutineVars
      <3>4. arg'[j] = arg[j] /\ (pc[j] \in Counting \/ IsTempChannel(arg[j].ch))
        BY <2>4, <3>1, <3>2, <3>3
      <3>5. arg[j].ch \in ChannelIDs /\ Passing(arg[j].ch)
        BY <2>0, <2>2, <3>4 DEF TimersPassing, IsTempChannel, Passing, StoreTypeOK, IsMap
      <3> QED BY <2>1, <3>4, <3>5
    <2> QED BY <2>1, <2>3, <2>4 DEF TimersPassing
  <1>3. TimersPassing /\ [Next]_vars
          => [\A c \in DOMAIN channels \ DOMAIN channels' :
                channels[c].isTemp
                  \/ \E k \in Conns : pc[k] = "del_store" /\ arg[k].ch = c]_vars
    <2> SUFFICES ASSUME TimersPassing, [Next]_vars, NEW c \in DOMAIN channels \ DOMAIN channels'
                 PROVE  channels[c].isTemp
                          \/ \E k \in Conns : pc[k] = "del_store" /\ arg[k].ch = c
      OBVIOUS
    <2>1. \A ch : ~CreateChannel(ch)
      BY DEF CreateChannel, Put
    <2>2. \A d : DeleteChannel(d) => c = d
      BY DEF DeleteChannel, Drop
    <2> QED BY <2>1, <2>2, ChannelsChange DEF TimersPassing, Passing
  <1> QED BY <1>1, <1>2, <1>3, Invariance, PTL DEF Spec, PermanentNeverExpires

-----------------------------------------------------------------------------
(* Full and deleted channels *)

Joining == {"join_count", "join_move"}

\* The row a join goes by is the channel's row as long as there is one: rows never
\* change, and an ID never comes back
Current(c, row) == c < nextChannelID /\ (c \in DOMAIN channels => channels[c] = row)

LooksHold ==
  /\ \A c \in DOMAIN channels : c < nextChannelID
  /\ \A k \in Conns : pc[k] = "join_count" => Current(arg[k].ch, arg[k].spec)

\* No step makes a row that was looked up another channel's.
LEMMA CurrentStays ==
  ASSUME StoreTypeOK, [Next]_vars, NEW c \in ChannelIDs, NEW row, Current(c, row)
  PROVE  Current(c, row)'
PROOF
  <1> USE DEF Current
  <1>1. nextChannelID \in Nat /\ DOMAIN channels \subseteq ChannelIDs
    BY DEF StoreTypeOK, IsMap
  <1>2. c \in Nat /\ c # nextChannelID
    BY <1>1 DEF ChannelIDs
  <1>3. CASE UNCHANGED <<channels, nextChannelID>>
    BY <1>3
  <1>4. ASSUME NEW ch, CreateChannel(ch)
        PROVE  Current(c, row)'
    BY <1>1, <1>2, <1>4 DEF CreateChannel, Put
  <1>5. ASSUME NEW d, DeleteChannel(d)
        PROVE  Current(c, row)'
    BY <1>5 DEF DeleteChannel, Drop
  <1> QED BY <1>3, <1>4, <1>5, ChannelsChange

\* A goroutine is on its way into a channel because it was, because it has just found
\* the channel, or because it has just counted a free seat.
LEMMA JoinsComeFrom ==
  ASSUME GoroutinesTypeOK, NEW k \in Conns, Acts(k), pc'[k] \in Joining
  PROVE  /\ sid'[k] = sid[k]
         /\ \/ pc'[k] = pc[k] /\ arg'[k] = arg[k]
            \/ /\ pc'[k] = "join_count"
               /\ arg'[k].ch \in DOMAIN channels
               /\ arg'[k].spec = channels[arg'[k].ch]
            \/ /\ pc[k] = "join_count" /\ arg'[k] = arg[k]
               /\ ~(arg[k].spec.maxUsers > 0
                      /\ MembersCount(arg[k].ch) >= arg[k].spec.maxUsers)
PROOF
  <1> DEFINE Goal ==
        /\ sid'[k] = sid[k]
        /\ \/ pc'[k] = pc[k] /\ arg'[k] = arg[k]
           \/ /\ pc'[k] = "join_count"
              /\ arg'[k].ch \in DOMAIN channels
              /\ arg'[k].spec = channels[arg'[k].ch]
           \/ /\ pc[k] = "join_count" /\ arg'[k] = arg[k]
              /\ ~(arg[k].spec.maxUsers > 0
                     /\ MembersCount(arg[k].ch) >= arg[k].spec.maxUsers)
  <1> SUFFICES Goal
    OBVIOUS
  <1>0. ASSUME NEW l, Goto(k, l), l \notin Joining
        PROVE  FALSE
    BY <1>0 DEF Goto, GoroutinesTypeOK
  <1> USE DEF Joining
  <1>1. CASE Client(k)
    <2>1. CASE Accept(k) \/ \E u \in Users, t \in Tokens \cup {NoToken} : AuthRequest(k, u, t)
      BY <1>0, <2>1 DEF Accept, AuthRequest
    <2>2. CASE ClientClose(k)
      BY <2>2 DEF ClientClose
    <2>3. ASSUME NEW c \in ChannelIDs, JoinRequest(k, c)
          PROVE  Goal
      <3>1. arg[k] \in Frames
        BY DEF GoroutinesTypeOK
      <3>2. arg'[k] = [arg[k] EXCEPT !.ch = c, !.spec = channels[c]]
        BY <2>3 DEF JoinRequest, Keep, GoroutinesTypeOK
      <3>3. arg'[k].ch = c /\ arg'[k].spec = channels[c]
        BY <3>1, <3>2 DEF Frames
      <3> QED BY <2>3, <3>3 DEF JoinRequest, Request, Goto, GoroutinesTypeOK
    <2>4. CASE LeaveRequest(k)
      BY <1>0, <2>4 DEF LeaveRequest
    <2>5. ASSUME NEW m \in BOOLEAN, NEW d \in BOOLEAN, UserStateRequest(k, m, d)
          PROVE  Goal
      BY <2>5 DEF UserStateRequest, Request
    <2>6. /\ \A c : ~DeleteChannelRequest(k, c)
          /\ \A ch : ~CreateChannelRequest(k, ch)
          /\ \A r : ~CreateTokenRequest(k, r)
          /\ \A u : ~KickRequest(k, u) /\ ~BanRequest(k, u)
          /\ \A u, r : ~SetUserRoleRequest(k, u, r)
      BY <1>0 DEF DeleteChannelRequest, CreateChannelRequest, CreateTokenRequest, KickRequest,
         BanRequest, SetUserRoleRequest
    <2> HIDE DEF Goal
    <2> QED BY <1>1, <2>1, <2>2, <2>3, <2>4, <2>5, <2>6 DEF Client
  <1>2. CASE JoinCount(k)
    <2>1. ~Finish(k)
      BY <1>0 DEF Finish
    <2> QED BY <1>2, <2>1 DEF JoinCount, Step
  <1> HIDE DEF Goal
  <1>3. /\ ~AuthReject(k) /\ ~GetUser(k) /\ ~CreateNewUser(k) /\ ~AutoToken(k)
        /\ ~CheckBan(k) /\ ~AuthStoreError(k)
    BY <1>0 DEF AuthReject, GetUser, CreateNewUser, AutoToken, CheckBan, AuthStoreError,
       Return
  <1>4. /\ ~NewSession(k) /\ ~SetConn(k) /\ ~Respond(k) /\ ~ReadError(k)
        /\ ~ByeLeave(k) /\ ~ByeConn(k) /\ ~ByeSession(k)
    BY <1>0 DEF NewSession, SetConn, Respond, ReadError, ByeLeave, ByeConn, ByeSession,
       Finish, Return
  <1>5. ~TempLookup(k) /\ ~TempCount(k)
    BY <1>0 DEF TempLookup, TempCount, TempDone, Finish, Return
  <1>6. /\ ~JoinMove(k) /\ ~JoinSet(k) /\ ~LeaveSet(k) /\ ~ChanRate(k) /\ ~ChanStore(k)
    BY <1>0 DEF JoinMove, JoinSet, LeaveSet, ChanRate, ChanStore, Finish
  <1>7. /\ ~DelStore(k) /\ ~DelMembers(k) /\ ~DelLeave(k) /\ ~DelSet(k)
    BY <1>0 DEF DelStore, DelMembers, DelLeave, DelSet, Finish
  <1>8. /\ ~TokStore(k) /\ ~BanStore(k) /\ ~EvictFind(k) /\ ~EvictClose(k)
        /\ ~RoleStore(k) /\ ~RoleFind(k) /\ ~RoleSet(k) /\ ~RequestStoreError(k)
    BY <1>0 DEF TokStore, BanStore, EvictFind, EvictClose, RoleStore, RoleFind, RoleSet,
       RequestStoreError, Finish
  <1> QED
    BY <1>1, <1>2, <1>3, <1>4, <1>5, <1>6, <1>7, <1>8 DEF Acts, Goroutine, Bye

\* Members are made by the joins that are past the count.
LEMMA MembersComeFrom ==
  ASSUME RoomsOK, RoomsOK', [Next]_vars, NEW c \in ChannelIDs
  PROVE  Members(c)' \subseteq Members(c) \cup OnTheWay(c, {"join_move"})
PROOF
  <1>1. \A s \in Members(c)' : /\ s \in SessionIDs
                               /\ s \in DOMAIN sessionToChannel' /\ sessionToChannel'[s] = c
    BY DEF RoomsOK, RoomsTypeOK, IndexAgree, Members, IsMap
  <1>2. \A s \in DOMAIN sessionToChannel :
          s \in SessionIDs /\ (sessionToChannel[s] = c => s \in Members(c))
    BY DEF RoomsOK, RoomsTypeOK, IndexAgree, IsMap
  <1>3. ASSUME NEW s, Leave(s)
        PROVE  Members(c)' \subseteq Members(c)
    BY <1>1, <1>2, <1>3 DEF Leave, Drop
  <1>4. ASSUME NEW k \in Conns, JoinMove(k)
        PROVE  Members(c)' \subseteq Members(c) \cup OnTheWay(c, {"join_move"})
    <2>1. ASSUME NEW s \in Members(c)', s # sid[k]
          PROVE  s \in Members(c)
      BY <1>1, <1>2, <1>4, <2>1 DEF JoinMove, Join, Put
    <2>2. ASSUME sid[k] \in Members(c)'
          PROVE  sid[k] \in OnTheWay(c, {"join_move"})
      BY <1>1, <1>4, <2>2 DEF JoinMove, Step, Join, Put, OnTheWay
    <2> QED BY <2>1, <2>2
  <1>5. UNCHANGED roomVars => Members(c)' = Members(c)
    BY DEF roomVars, Members
  <1>6. ASSUME NEW k \in Conns, Client(k)
        PROVE  UNCHANGED roomVars \/ \E s : Leave(s)
    BY <1>6 DEF Client, Accept, ClientClose, AuthRequest, JoinRequest, DeleteChannelRequest,
       LeaveRequest, UserStateRequest, CreateChannelRequest, CreateTokenRequest, KickRequest,
       BanRequest, SetUserRoleRequest
  <1>7. ASSUME NEW k \in Conns, Goroutine(k)
        PROVE  UNCHANGED roomVars \/ JoinMove(k) \/ \E s : Leave(s)
    BY <1>7 DEF Goroutine, AuthReject, GetUser, CreateNewUser, AutoToken, CheckBan,
       NewSession, SetConn, Respond, ReadError, AuthStoreError, Bye, ByeLeave, ByeConn,
       ByeSession, TempLookup, TempCount, JoinCount, JoinSet, LeaveSet, ChanRate, ChanStore,
       DelStore, DelMembers, DelLeave, DelSet, TokStore, BanStore, EvictFind, EvictClose,
       RoleStore, RoleFind, RoleSet, RequestStoreError
  <1>8. ASSUME NEW d \in ChannelIDs, TimerWake(d) \/ TimerDelete(d)
        PROVE  UNCHANGED roomVars
    BY <1>8 DEF TimerWake, TimerDelete
  <1>9. ASSUME NEW u \in Users, RateExpires(u)
        PROVE  UNCHANGED roomVars
    BY <1>9 DEF RateExpires
  <1>10. Clock \/ Quiet \/ UNCHANGED vars => UNCHANGED roomVars
    BY DEF Clock, Quiet, vars, roomVars
  <1> QED BY <1>3, <1>4, <1>5, <1>6, <1>7, <1>8, <1>9, <1>10 DEF Next

\* Whoever is on the way to a channel that is gone, or past the count of one that is
\* full, was so before.
LEMMA WaysStay ==
  ASSUME GoroutinesTypeOK, LooksHold, [Next]_vars, NEW c \in ChannelIDs,
         NEW j \in Conns, pc'[j] \in Joining, arg'[j].ch = c
  PROVE  /\ sid'[j] = sid[j]
         /\ c \notin DOMAIN channels => pc[j] \in Joining /\ arg[j].ch = c
         /\ c \in DOMAIN channels /\ Full(c) /\ pc'[j] = "join_move" =>
              pc[j] = "join_move" /\ arg[j].ch = c
PROOF
  <1> DEFINE Goal == /\ sid'[j] = sid[j]
                     /\ c \notin DOMAIN channels => pc[j] \in Joining /\ arg[j].ch = c
                     /\ c \in DOMAIN channels /\ Full(c) /\ pc'[j] = "join_move" =>
                          pc[j] = "join_move" /\ arg[j].ch = c
  <1>0. ASSUME UNCHANGED <<pc[j], sid[j], arg[j]>>
        PROVE  Goal
    BY <1>0
  <1>1. ASSUME NEW k \in Conns, Acts(k), j # k
        PROVE  Goal
    BY <1>0, <1>1, ActsAlone DEF Alone
  <1>2. ASSUME Acts(j)
        PROVE  Goal
    <2>1. CASE pc'[j] = "join_count" /\ arg'[j].ch \in DOMAIN channels /\ sid'[j] = sid[j]
      BY <2>1
    <2>2. CASE /\ pc[j] = "join_count" /\ arg'[j] = arg[j] /\ sid'[j] = sid[j]
               /\ ~(arg[j].spec.maxUsers > 0
                      /\ MembersCount(arg[j].ch) >= arg[j].spec.maxUsers)
      <3>1. c \in DOMAIN channels => channels[c] = arg[j].spec
        BY <2>2 DEF LooksHold, Current
      <3>2. c \in DOMAIN channels => ~Full(c)
        BY <2>2, <3>1 DEF Full
      <3> QED BY <2>2, <3>2 DEF Joining
    <2> QED BY <1>0, <1>2, <2>1, <2>2, JoinsComeFrom
  <1>3. (\E k \in Conns : Acts(k)) \/ UNCHANGED <<pc, sid, arg>>
    BY DEF Next, Acts, TimerWake, TimerDelete, RateExpires, Clock, Quiet, vars,
       goroutineVars
  <1> QED BY <1>0, <1>1, <1>2, <1>3

\* For any number of channels, limits and joins: a full channel admits only those who
\* counted before it was full, a deleted one only those who found it before.
THEOREM ClosedStayClosed == Spec => ClosedToNewcomers
PROOF
  <1>1. Init => LooksHold
    <2> SUFFICES ASSUME Init
                 PROVE  LooksHold
      OBVIOUS
    <2>1. \A c \in DOMAIN channels : c < nextChannelID
      BY ServerAssumption DEF Init
    <2>2. \A k \in Conns : pc[k] = "idle"
      BY DEF Init
    <2> QED BY <2>1, <2>2 DEF LooksHold
  <1>2. IInv /\ LooksHold /\ [Next]_vars => LooksHold'
    <2> SUFFICES ASSUME IInv, LooksHold, [Next]_vars
                 PROVE  LooksHold'
      OBVIOUS
    <2>0. GoroutinesTypeOK /\ LocalsSet /\ StoreTypeOK
      BY DEF IInv
    <2>1. \A c \in DOMAIN channels' : c < nextChannelID'
      BY <2>0, PassingStays DEF LooksHold
    <2>2. ASSUME NEW j \in Conns, pc'[j] = "join_count"
          PROVE  Current(arg[j].ch, arg[j].spec)'
      <3>1. ASSUME arg'[j] = arg[j], pc[j] = "join_count"
            PROVE  Current(arg[j].ch, arg[j].spec)'
        <4>0. arg[j].ch \in ChannelIDs
          BY <2>0, <3>1 DEF LocalsSet, Fits
        <4>1. PICK c, row : c = arg[j].ch /\ row = arg[j].spec
          OBVIOUS
        <4>2. Current(c, row)
          BY <3>1, <4>1 DEF LooksHold
        <4>3. Current(c, row)'
          BY <2>0, <4>0, <4>1, <4>2, CurrentStays
        <4> QED BY <3>1, <4>1, <4>3 DEF Current
      <3>2. ASSUME NEW k \in Conns, Acts(k), j # k
            PROVE  pc[j] = "join_count" /\ arg'[j] = arg[j]
        BY <2>0, <2>2, <3>2, ActsAlone DEF Alone
      <3>3. ASSUME arg'[j].ch \in DOMAIN channels, arg'[j].spec = channels[arg'[j].ch]
            PROVE  Current(arg[j].ch, arg[j].spec)'
        <4>0. arg'[j].ch \in ChannelIDs
          BY <2>0, <3>3 DEF StoreTypeOK, IsMap
        <4>1. PICK c, row : c = arg'[j].ch /\ row = arg'[j].spec
          OBVIOUS
        <4>2. Current(c, row)
          BY <3>3, <4>1 DEF LooksHold, Current
        <4>3. Current(c, row)'
          BY <2>0, <4>0, <4>1, <4>2, CurrentStays
        <4> QED BY <4>1, <4>3 DEF Current
      <3>4. ASSUME Acts(j)
            PROVE  Current(arg[j].ch, arg[j].spec)'
        BY <2>0, <2>2, <3>1, <3>3, <3>4, JoinsComeFrom DEF Joining
      <3>5. (\E k \in Conns : Acts(k)) \/ UNCHANGED <<pc, arg>>
        BY DEF Next, Acts, TimerWake, TimerDelete, RateExpires, Clock, Quiet, vars,
           goroutineVars
      <3> QED BY <2>2, <3>1, <3>2, <3>4, <3>5
    <2> QED BY <2>1, <2>2 DEF LooksHold
  <1>3. IInv /\ IInv' /\ LooksHold /\ [Next]_vars
          => [\A c \in ChannelIDs :
                /\ c \notin DOMAIN channels => NobodyNew(c, {"join_count", "join_move"})
                /\ c \in DOMAIN channels /\ Full(c) => NobodyNew(c, {"join_move"})]_vars
    <2> SUFFICES ASSUME IInv, IInv', LooksHold, [Next]_vars, NEW c \in ChannelIDs
                 PROVE  /\ c \notin DOMAIN channels => NobodyNew(c, {"join_count", "join_move"})
                        /\ c \in DOMAIN channels /\ Full(c) => NobodyNew(c, {"join_move"})
      OBVIOUS
    <2>1. Members(c)' \subseteq Members(c) \cup OnTheWay(c, {"join_move"})
      BY MembersComeFrom DEF IInv
    <2>2. ASSUME c \notin DOMAIN channels
          PROVE  OnTheWay(c, {"join_count", "join_move"})'
                   \subseteq OnTheWay(c, {"join_count", "join_move"})
      BY <2>2, WaysStay DEF IInv, OnTheWay, Joining
    <2>3. ASSUME c \in DOMAIN channels, Full(c)
          PROVE  OnTheWay(c, {"join_move"})' \subseteq OnTheWay(c, {"join_move"})
      BY <2>3, WaysStay DEF IInv, OnTheWay, Joining
    <2>4. OnTheWay(c, {"join_move"}) \subseteq OnTheWay(c, {"join_count", "join_move"})
      BY DEF OnTheWay
    <2> QED BY <2>1, <2>2, <2>3, <2>4 DEF NobodyNew
  <1> QED BY <1>1, <1>2, <1>3, Invariance, PTL DEF Spec, ClosedToNewcomers

-----------------------------------------------------------------------------
(* Roles *)

\* No role above r: stored, in a token, online, in a request under way
UsersBelow(r)    == \A u \in DOMAIN users : users[u] <= r
TokensBelow(r)   == \A t \in DOMAIN tokens : tokens[t].role <= r
SessionsBelow(r) == \A s \in DOMAIN sessions : sessions[s].role <= r
RequestsBelow(r) == \A k \in Conns : arg[k].role <= r

AllBelow(r) == UsersBelow(r) /\ TokensBelow(r) /\ SessionsBelow(r) /\ RequestsBelow(r)

\* The roles around are those four.
LEMMA AroundIsBelow ==
  ASSUME NEW r
  PROVE  /\ (\A x \in RolesAround : x <= r) <=> AllBelow(r)
         /\ (\A x \in RolesAround' : x <= r) <=> AllBelow(r)'
PROOF
  <1>1. (\A x \in RolesAround : x <= r) <=> AllBelow(r)
    BY DEF RolesAround, AllBelow, UsersBelow, TokensBelow, SessionsBelow, RequestsBelow
  <1>2. (\A x \in RolesAround' : x <= r) <=> AllBelow(r)'
    BY DEF RolesAround, AllBelow, UsersBelow, TokensBelow, SessionsBelow, RequestsBelow
  <1> QED BY <1>1, <1>2

\* What is stored is what was stored before, or what a request carries.
LEMMA StoredBelow ==
  ASSUME StoreTypeOK, NEW r \in Roles, AllBelow(r), [Next]_vars
  PROVE  UsersBelow(r)' /\ TokensBelow(r)'
PROOF
  <1> USE DEF UsersBelow, TokensBelow
  <1>0. /\ UsersBelow(r) /\ TokensBelow(r)
        /\ \A k \in Conns : arg[k].role <= r
        /\ RoleUser <= r
    BY DEF AllBelow, RequestsBelow, Roles, RoleUser, RoleModerator, RoleAdmin
  <1>1. ASSUME UNCHANGED <<users, tokens>>
        PROVE  UsersBelow(r)' /\ TokensBelow(r)'
    BY <1>0, <1>1
  <1>2. ASSUME NEW t, NEW x, NEW n, NEW b, CreateToken(t, NewToken(x, n, b)), x <= r
        PROVE  UsersBelow(r)' /\ TokensBelow(r)'
    BY <1>0, <1>2 DEF CreateToken, NewToken, Put
  <1>3. ASSUME NEW t, ValidateToken(t) \/ TokenExpires(t)
        PROVE  UsersBelow(r)' /\ TokensBelow(r)'
    <2>1. \A u \in DOMAIN tokens : tokens[u] \in TokenRows
      BY DEF StoreTypeOK, IsMap
    <2>2. t \in DOMAIN tokens /\ UNCHANGED users
      BY <1>3 DEF ValidateToken, Valid, TokenExpires
    <2>3. DOMAIN tokens' = DOMAIN tokens
      BY <1>3 DEF ValidateToken, TokenExpires
    <2>4. \A u \in DOMAIN tokens : tokens'[u].role = tokens[u].role
      BY <1>3, <2>1, <2>2 DEF ValidateToken, TokenExpires, TokenRows
    <2> QED BY <1>0, <2>2, <2>3, <2>4
  <1>4. ASSUME NEW k \in Conns, StoreStep(k)
        PROVE  UsersBelow(r)' /\ TokensBelow(r)'
    <2>1. ASSUME NEW u \in Users, NEW t \in Tokens \cup {NoToken}, AuthRequest(k, u, t)
          PROVE  UsersBelow(r)' /\ TokensBelow(r)'
      BY <1>1, <1>3, <2>1 DEF AuthRequest, storeVars
    <2>2. CASE CreateNewUser(k)
      BY <1>0, <1>1, <2>2 DEF CreateNewUser, CreateUser, Put, storeVars
    <2>3. CASE RoleStore(k)
      BY <1>0, <1>1, <2>3 DEF RoleStore, UpdateUserRole, Put
    <2>4. CASE AutoToken(k)
      BY <1>0, <1>1, <1>2, <2>4 DEF AutoToken, storeVars
    <2>5. CASE TokStore(k)
      BY <1>0, <1>2, <2>5 DEF TokStore
    <2>6. CASE ChanStore(k) \/ DelStore(k) \/ BanStore(k)
      BY <1>1, <2>6 DEF ChanStore, DelStore, BanStore, CreateChannel, DeleteChannel,
         CreateBan, storeVars
    <2> QED BY <1>4, <2>1, <2>2, <2>3, <2>4, <2>5, <2>6 DEF StoreStep
  <1>5. ASSUME NEW c \in ChannelIDs, TimerDelete(c)
        PROVE  UsersBelow(r)' /\ TokensBelow(r)'
    BY <1>1, <1>5 DEF TimerDelete, DeleteChannel, storeVars
  <1>6. CASE Clock
    BY <1>1, <1>3, <1>6 DEF Clock, BanExpires
  <1>7. CASE UNCHANGED storeVars
    BY <1>1, <1>7 DEF storeVars
  <1> QED BY <1>4, <1>5, <1>6, <1>7, StoreSteps

\* A setter of another field leaves the role alone.
LEMMA RoleFieldOf ==
  ASSUME NEW x \in Sessions
  PROVE  /\ \A c : [x EXCEPT !.channel = c].role = x.role
         /\ \A m, d : [x EXCEPT !.muted = m, !.deafened = d].role = x.role
         /\ \A r : [x EXCEPT !.role = r].role = r
  BY DEF Sessions

\* Roles online come from requests: a login or a role change.
LEMMA OnlineBelow ==
  ASSUME SessionsTypeOK, NEW r \in Roles, AllBelow(r), [Next]_vars
  PROVE  SessionsBelow(r)'
PROOF
  <1> USE DEF SessionsBelow
  <1>0. SessionsBelow(r) /\ \A k \in Conns : arg[k].role <= r
    BY DEF AllBelow, RequestsBelow
  <1>1. ASSUME UNCHANGED sessions
        PROVE  SessionsBelow(r)'
    BY <1>0, <1>1
  <1>2. ASSUME NEW id, NEW new, Update(id, new), id \in DOMAIN sessions => new.role <= r
        PROVE  SessionsBelow(r)'
    BY <1>0, <1>2 DEF Update, Put
  <1>3. \A id \in DOMAIN sessions : sessions[id] \in Sessions
    BY DEF SessionsTypeOK, IsMap
  <1>4. ASSUME NEW id, NEW c, SetChannel(id, c)
        PROVE  SessionsBelow(r)'
    <2> DEFINE new == [sessions[id] EXCEPT !.channel = c]
    <2>1. Update(id, new)
      BY <1>4 DEF SetChannel
    <2>2. id \in DOMAIN sessions => new.role <= r
      BY <1>0, <1>3, RoleFieldOf
    <2> HIDE DEF new
    <2> QED BY <1>2, <2>1, <2>2
  <1>5. ASSUME NEW id, NEW m, NEW d, UpdateUserState(id, m, d)
        PROVE  SessionsBelow(r)'
    <2> DEFINE new == [sessions[id] EXCEPT !.muted = m, !.deafened = d]
    <2>1. Update(id, new)
      BY <1>5 DEF UpdateUserState
    <2>2. id \in DOMAIN sessions => new.role <= r
      BY <1>0, <1>3, RoleFieldOf
    <2> HIDE DEF new
    <2> QED BY <1>2, <2>1, <2>2
  <1>6. ASSUME NEW id, NEW x, x <= r, UpdateRole(id, x)
        PROVE  SessionsBelow(r)'
    <2> DEFINE new == [sessions[id] EXCEPT !.role = x]
    <2>1. Update(id, new)
      BY <1>6 DEF UpdateRole
    <2>2. id \in DOMAIN sessions => new.role <= r
      BY <1>3, <1>6, RoleFieldOf
    <2> HIDE DEF new
    <2> QED BY <1>2, <2>1, <2>2
  <1>7. ASSUME NEW k \in Conns, Client(k)
        PROVE  SessionsBelow(r)'
    <2>1. UNCHANGED sessions \/ \E m, d \in BOOLEAN : UserStateRequest(k, m, d)
      BY <1>7, ClientSeats DEF LeaveRequest
    <2> QED BY <1>1, <1>5, <2>1 DEF UserStateRequest
  <1>8. ASSUME NEW k \in Conns, NewSession(k)
        PROVE  SessionsBelow(r)'
    BY <1>0, <1>8 DEF NewSession, Create, Put
  <1>9. ASSUME NEW k \in Conns, JoinSet(k) \/ LeaveSet(k) \/ DelSet(k)
        PROVE  SessionsBelow(r)'
    BY <1>4, <1>9 DEF JoinSet, LeaveSet, DelSet
  <1>10. ASSUME NEW k \in Conns, RoleSet(k)
         PROVE  SessionsBelow(r)'
    BY <1>0, <1>6, <1>10 DEF RoleSet
  <1>11. ASSUME NEW k \in Conns, ByeSession(k)
         PROVE  SessionsBelow(r)'
    BY <1>0, <1>11 DEF ByeSession, Remove, Drop
  <1>12. ASSUME NEW k \in Conns, Goroutine(k)
         PROVE  \/ UNCHANGED sessions
                \/ NewSession(k) \/ JoinSet(k) \/ LeaveSet(k) \/ DelSet(k) \/ RoleSet(k)
                \/ ByeSession(k)
    BY <1>12 DEF Goroutine, AuthReject, GetUser, CreateNewUser, AutoToken, CheckBan,
       SetConn, Respond, ReadError, AuthStoreError, Bye, ByeLeave, ByeConn, TempLookup,
       TempCount, JoinCount, JoinMove, ChanRate, ChanStore, DelStore, DelMembers, DelLeave,
       TokStore, BanStore, EvictFind, EvictClose, RoleStore, RoleFind, RequestStoreError
  <1>13. ASSUME NEW c \in ChannelIDs, TimerWake(c) \/ TimerDelete(c)
         PROVE  UNCHANGED sessions
    BY <1>13 DEF TimerWake, TimerDelete
  <1>14. ASSUME NEW u \in Users, RateExpires(u)
         PROVE  UNCHANGED sessions
    BY <1>14 DEF RateExpires
  <1>15. Clock \/ Quiet \/ UNCHANGED vars => UNCHANGED sessions
    BY DEF Clock, Quiet, vars
  <1> QED
    BY <1>1, <1>7, <1>8, <1>9, <1>10, <1>11, <1>12, <1>13, <1>14, <1>15 DEF Next

\* Locals kept for later leave the role alone, unless they set it.
LEMMA FrameRole ==
  ASSUME NEW f \in Frames
  PROVE  /\ \A c : [f EXCEPT !.ch = c].role = f.role
         /\ \A x : [f EXCEPT !.spec = x].role = f.role
         /\ \A c, x : [f EXCEPT !.ch = c, !.spec = x].role = f.role
         /\ \A u : [f EXCEPT !.user = u].role = f.role
         /\ \A s : [f EXCEPT !.sess = s].role = f.role
         /\ \A t : [f EXCEPT !.todo = t].role = f.role
         /\ \A s, t : [f EXCEPT !.sess = s, !.todo = t].role = f.role
         /\ \A r : [f EXCEPT !.role = r].role = r
         /\ \A t, r : [f EXCEPT !.tok = t, !.role = r].role = r
         /\ \A u, r : [f EXCEPT !.user = u, !.role = r].role = r
  BY DEF Frames

\* Only an administrator, who has the highest role, makes tokens.
LEMMA TokensByAdmins ==
  ASSUME NEW x \in Roles, HasPermission(x, "manage_tokens")
  PROVE  x = RoleAdmin
  BY DEF HasPermission, permissionMatrix, Roles, RoleUser, RoleModerator, RoleAdmin

\* A request carries no role above its sender's, and a login none above what is stored.
LEMMA RequestBelow ==
  ASSUME GoroutinesTypeOK, SessionsTypeOK, NEW r \in Roles, AllBelow(r), NEW k \in Conns,
         Acts(k)
  PROVE  arg'[k].role <= r
PROOF
  <1> DEFINE Goal == arg'[k].role <= r
  <1> SUFFICES Goal
    OBVIOUS
  <1>0. /\ arg[k].role <= r /\ RoleUser <= r
        /\ arg[k] \in Frames
    BY DEF AllBelow, RequestsBelow, GoroutinesTypeOK, Roles, RoleUser, RoleModerator,
       RoleAdmin
  <1>1. \A f : Keep(k, f) => arg'[k] = f
    BY DEF Keep, GoroutinesTypeOK
  <1>2. UNCHANGED arg => Goal
    BY <1>0
  <1>3. Finish(k) \/ Return(k) => Goal
    BY <1>0, <1>1 DEF Finish, Return, Blank
  <1>4. ASSUME NEW f, Keep(k, f), f.role <= r
        PROVE  Goal
    BY <1>1, <1>4
  <1>5. sid[k] \in DOMAIN sessions => Mine(k).role \in Roles /\ Mine(k).role <= r
    BY DEF SessionsTypeOK, IsMap, Sessions, Mine, AllBelow, SessionsBelow
  <1>6. CASE Keep(k, Blank)
    BY <1>0, <1>1, <1>6 DEF Blank
  <1> HIDE DEF Goal
  <1>7. CASE Client(k)
    <2>1. CASE Accept(k) \/ ClientClose(k)
      BY <1>2, <2>1 DEF Accept, ClientClose
    <2>2. ASSUME NEW u \in Users, NEW t \in Tokens \cup {NoToken}, AuthRequest(k, u, t)
          PROVE  Goal
      <3>1. PICK x : Keep(k, [arg[k] EXCEPT !.role = x])
                     /\ (x = RoleUser \/ (t \in DOMAIN tokens /\ x = tokens[t].role))
        BY <2>2 DEF AuthRequest, ValidateToken, Valid
      <3>2. x <= r
        BY <1>0, <3>1 DEF AllBelow, TokensBelow
      <3>3. [arg[k] EXCEPT !.role = x].role <= r
        BY <1>0, <3>2, FrameRole
      <3> QED BY <1>4, <3>1, <3>3
    <2>3. ASSUME NEW c \in ChannelIDs, JoinRequest(k, c)
          PROVE  Goal
      <3>1. [arg[k] EXCEPT !.ch = c, !.spec = channels[c]].role <= r
        BY <1>0, FrameRole
      <3> QED BY <1>4, <2>3, <3>1 DEF JoinRequest
    <2>4. ASSUME NEW c \in ChannelIDs, DeleteChannelRequest(k, c)
          PROVE  Goal
      <3>1. [arg[k] EXCEPT !.ch = c].role <= r
        BY <1>0, FrameRole
      <3> QED BY <1>4, <2>4, <3>1 DEF DeleteChannelRequest
    <2>5. CASE LeaveRequest(k)
      <3>1. [arg[k] EXCEPT !.ch = ChannelOf(sid[k])].role <= r
        BY <1>0, FrameRole
      <3> QED BY <1>4, <2>5, <3>1 DEF LeaveRequest
    <2>6. ASSUME NEW m \in BOOLEAN, NEW d \in BOOLEAN, UserStateRequest(k, m, d)
          PROVE  Goal
      BY <1>2, <2>6 DEF UserStateRequest
    <2>7. ASSUME NEW ch \in ChannelSpecs, CreateChannelRequest(k, ch)
          PROVE  Goal
      <3>1. [arg[k] EXCEPT !.spec = ch].role <= r
        BY <1>0, FrameRole
      <3> QED BY <1>4, <2>7, <3>1 DEF CreateChannelRequest
    <2>8. ASSUME NEW x \in Roles, CreateTokenRequest(k, x)
          PROVE  Goal
      <3>1. /\ sid[k] \in DOMAIN sessions /\ HasPermission(Mine(k).role, "manage_tokens")
            /\ \E t : Keep(k, [arg[k] EXCEPT !.tok = t, !.role = x])
        BY <2>8 DEF CreateTokenRequest, Request
      <3>2. Mine(k).role = RoleAdmin /\ RoleAdmin <= r
        BY <1>5, <3>1, TokensByAdmins
      <3>3. x <= r
        BY <3>2 DEF Roles, RoleUser, RoleModerator, RoleAdmin
      <3>4. \A t : [arg[k] EXCEPT !.tok = t, !.role = x].role <= r
        BY <1>0, <3>3, FrameRole
      <3> QED BY <1>4, <3>1, <3>4
    <2>9. ASSUME NEW u \in DOMAIN users, KickRequest(k, u) \/ BanRequest(k, u)
          PROVE  Goal
      <3>1. [arg[k] EXCEPT !.user = u].role <= r
        BY <1>0, FrameRole
      <3> QED BY <1>4, <2>9, <3>1 DEF KickRequest, BanRequest
    <2>10. ASSUME NEW u \in DOMAIN users, NEW x \in Roles, SetUserRoleRequest(k, u, x)
           PROVE  Goal
      <3>1. /\ sid[k] \in DOMAIN sessions /\ x <= Mine(k).role
            /\ Keep(k, [arg[k] EXCEPT !.user = u, !.role = x])
        BY <2>10 DEF SetUserRoleRequest, Request
      <3>2. x <= r
        BY <1>5, <3>1 DEF Roles, RoleUser, RoleModerator, RoleAdmin
      <3>3. [arg[k] EXCEPT !.user = u, !.role = x].role <= r
        BY <1>0, <3>2, FrameRole
      <3> QED BY <1>4, <3>1, <3>3
    <2> QED
      BY <1>7, <2>1, <2>2, <2>3, <2>4, <2>5, <2>6, <2>7, <2>8, <2>9, <2>10 DEF Client
  <1>8. CASE GetUser(k)
    <2>1. ASSUME who[k] \in DOMAIN users, Keep(k, [arg[k] EXCEPT !.role = users[who[k]]])
          PROVE  Goal
      <3>1. [arg[k] EXCEPT !.role = users[who[k]]].role <= r
        BY <1>0, <2>1, FrameRole DEF AllBelow, UsersBelow
      <3> QED BY <1>4, <2>1, <3>1
    <2> QED BY <1>2, <1>8, <2>1 DEF GetUser
  <1>9. CASE ByeLeave(k)
    <2>1. [arg[k] EXCEPT !.ch = ChannelOf(sid[k])].role <= r
      BY <1>0, FrameRole
    <2> QED BY <1>4, <1>9, <2>1 DEF ByeLeave
  <1>10. CASE DelMembers(k)
    <2>1. [arg[k] EXCEPT !.todo = Members(arg[k].ch)].role <= r
      BY <1>0, FrameRole
    <2> QED BY <1>4, <1>10, <2>1 DEF DelMembers
  <1>11. CASE DelLeave(k)
    <2>1. Finish(k) \/ \E s, t : Keep(k, [arg[k] EXCEPT !.sess = s, !.todo = t])
      BY <1>11 DEF DelLeave
    <2>2. \A s, t : [arg[k] EXCEPT !.sess = s, !.todo = t].role <= r
      BY <1>0, FrameRole
    <2> QED BY <1>3, <1>4, <2>1, <2>2
  <1>12. CASE EvictFind(k) \/ RoleFind(k)
    <2>1. Finish(k) \/ \E s : Keep(k, [arg[k] EXCEPT !.sess = s])
      BY <1>12 DEF EvictFind, RoleFind
    <2>2. \A s : [arg[k] EXCEPT !.sess = s].role <= r
      BY <1>0, FrameRole
    <2> QED BY <1>3, <1>4, <2>1, <2>2
  <1>13. CASE AuthReject(k) \/ CreateNewUser(k) \/ AutoToken(k) \/ CheckBan(k)
              \/ NewSession(k) \/ SetConn(k) \/ Respond(k) \/ ReadError(k)
              \/ AuthStoreError(k) \/ ByeConn(k) \/ ByeSession(k)
    BY <1>2, <1>3, <1>6, <1>13 DEF AuthReject, CreateNewUser, AutoToken, CheckBan,
       NewSession, SetConn, Respond, ReadError, AuthStoreError, ByeConn, ByeSession
  <1>14. CASE TempLookup(k) \/ TempCount(k)
    BY <1>2, <1>3, <1>14 DEF TempLookup, TempCount, TempDone
  <1>15. CASE JoinCount(k) \/ JoinMove(k) \/ JoinSet(k) \/ LeaveSet(k) \/ ChanRate(k)
              \/ ChanStore(k) \/ DelStore(k) \/ DelSet(k)
    BY <1>2, <1>3, <1>15 DEF JoinCount, JoinMove, JoinSet, LeaveSet, ChanRate, ChanStore,
       DelStore, DelSet
  <1>16. CASE TokStore(k) \/ BanStore(k) \/ EvictClose(k) \/ RoleStore(k) \/ RoleSet(k)
              \/ RequestStoreError(k)
    BY <1>2, <1>3, <1>16 DEF TokStore, BanStore, EvictClose, RoleStore, RoleSet,
       RequestStoreError
  <1> QED
    BY <1>7, <1>8, <1>9, <1>10, <1>11, <1>12, <1>13, <1>14, <1>15, <1>16
       DEF Acts, Goroutine, Bye

\* For any number of users, connections and tokens, nobody climbs above the highest role
\* around: no mix of logins, role changes and tokens makes the first administrator.
THEOREM NobodyClimbs == Spec => NoEscalation
PROOF
  <1>1. ASSUME GoroutinesTypeOK, SessionsTypeOK, StoreTypeOK, [Next]_vars, NEW r \in Roles,
               AllBelow(r)
        PROVE  AllBelow(r)'
    <2>1. ASSUME NEW j \in Conns
          PROVE  arg'[j].role <= r
      <3>1. arg[j].role <= r
        BY <1>1 DEF AllBelow, RequestsBelow
      <3>2. ASSUME NEW k \in Conns, Acts(k), j # k
            PROVE  arg'[j].role <= r
        BY <1>1, <3>1, <3>2, ActsAlone DEF Alone
      <3>3. Acts(j) => arg'[j].role <= r
        BY <1>1, RequestBelow
      <3>4. (\E k \in Conns : Acts(k)) \/ UNCHANGED arg
        BY <1>1 DEF Next, Acts, TimerWake, TimerDelete, RateExpires, Clock, Quiet, vars,
           goroutineVars
      <3> QED BY <3>1, <3>2, <3>3, <3>4
    <2> QED BY <1>1, <2>1, StoredBelow, OnlineBelow DEF AllBelow, RequestsBelow
  <1>2. IInv /\ [Next]_vars
          => [\A r \in Roles : (\A x \in RolesAround : x <= r)
                                => (\A x \in RolesAround' : x <= r)]_vars
    BY <1>1, AroundIsBelow DEF IInv, Owned
  <1> QED BY <1>2, Invariance, PTL DEF Spec, NoEscalation

-----------------------------------------------------------------------------
(* Token uses *)

\* The connections that logged in with token t, and the uses it had at start
LoginsWith(t) == {k \in Conns : cred[k] = t}
UsedBefore(t) == IF t \in DOMAIN InitTokens THEN InitTokens[t].useCount ELSE 0

\* The count, for one token
Counted(t) ==
  /\ tokens[t].useCount = Cardinality(LoginsWith(t)) + UsedBefore(t)
  /\ tokens[t].maxUses > 0 => tokens[t].useCount <= tokens[t].maxUses

\* A token that is drawn and has yet to be stored is nobody else's
Drawn(k) ==
  /\ pc[k] # "tok_store" => arg[k].tok = NoToken
  /\ pc[k] = "tok_store" => /\ arg[k].tok \in Tokens \ DOMAIN tokens
                            /\ \A j \in Conns \ {k} : arg[j].tok # arg[k].tok

\* Tokens stay in the table; who logged in with one found it there
UsesInv ==
  /\ \A t \in DOMAIN tokens : IsFiniteSet(LoginsWith(t)) /\ Counted(t)
  /\ DOMAIN InitTokens \subseteq DOMAIN tokens
  /\ \A k \in Conns : cred[k] \in DOMAIN tokens \cup {NoToken}
  /\ \A k \in Conns : pc[k] \in {"idle", "auth"} => cred[k] = NoToken
  /\ \A k \in Conns : Drawn(k)

\* Locals kept for later leave the token alone, unless they set it.
LEMMA FrameTok ==
  ASSUME NEW f \in Frames
  PROVE  /\ \A c : [f EXCEPT !.ch = c].tok = f.tok
         /\ \A x : [f EXCEPT !.spec = x].tok = f.tok
         /\ \A c, x : [f EXCEPT !.ch = c, !.spec = x].tok = f.tok
         /\ \A u : [f EXCEPT !.user = u].tok = f.tok
         /\ \A s : [f EXCEPT !.sess = s].tok = f.tok
         /\ \A t : [f EXCEPT !.todo = t].tok = f.tok
         /\ \A s, t : [f EXCEPT !.sess = s, !.todo = t].tok = f.tok
         /\ \A r : [f EXCEPT !.role = r].tok = f.tok
         /\ \A t, r : [f EXCEPT !.tok = t, !.role = r].tok = t
         /\ \A u, r : [f EXCEPT !.user = u, !.role = r].tok = f.tok
  BY DEF Frames

\* A goroutine holds a drawn token from the request for it until it is stored.
LEMMA TokChange ==
  ASSUME GoroutinesTypeOK, NEW k \in Conns, Acts(k), Drawn(k)
  PROVE  \/ arg'[k].tok = NoToken /\ pc'[k] # "tok_store"
         \/ arg'[k] = arg[k] /\ pc'[k] = pc[k]
         \/ arg'[k].tok \in Unissued /\ pc'[k] = "tok_store" /\ UNCHANGED tokens
PROOF
  <1> DEFINE Goal == \/ arg'[k].tok = NoToken /\ pc'[k] # "tok_store"
                     \/ arg'[k] = arg[k] /\ pc'[k] = pc[k]
                     \/ arg'[k].tok \in Unissued /\ pc'[k] = "tok_store" /\ UNCHANGED tokens
  <1> SUFFICES Goal
    OBVIOUS
  <1>0. /\ arg[k] \in Frames
        /\ pc[k] # "tok_store" => arg[k].tok = NoToken
    BY DEF GoroutinesTypeOK, Drawn
  <1>1. \A f : Keep(k, f) => arg'[k] = f
    BY DEF Keep, GoroutinesTypeOK
  <1>2. \A l : Goto(k, l) => pc'[k] = l
    BY DEF Goto, GoroutinesTypeOK
  \* The locals stay, or are cleared, and the goroutine goes elsewhere
  <1>3. ASSUME pc[k] # "tok_store", NEW l, Goto(k, l), l # "tok_store",
               UNCHANGED arg \/ Keep(k, Blank)
        PROVE  Goal
    BY <1>0, <1>1, <1>2, <1>3 DEF Blank
  <1>4. ASSUME Finish(k) \/ Return(k)
        PROVE  Goal
    BY <1>1, <1>2, <1>4 DEF Finish, Return, Blank
  <1>5. ASSUME pc[k] # "tok_store", NEW l, Goto(k, l), l # "tok_store", NEW f, Keep(k, f),
               f.tok = arg[k].tok
        PROVE  Goal
    BY <1>0, <1>1, <1>2, <1>5
  <1>6. CASE UNCHANGED <<pc, arg>>
    BY <1>6
  <1> HIDE DEF Goal
  <1>7. CASE Client(k)
    <2>1. CASE Accept(k) \/ ClientClose(k)
      BY <1>3, <1>6, <2>1 DEF Accept, ClientClose
    <2>2. ASSUME NEW u \in Users, NEW t \in Tokens \cup {NoToken}, AuthRequest(k, u, t)
          PROVE  Goal
      <3>1. \A x : [arg[k] EXCEPT !.role = x].tok = arg[k].tok
        BY <1>0, FrameTok
      <3>2. pc[k] # "tok_store" /\ Goto(k, "get_user")
            /\ \E x : Keep(k, [arg[k] EXCEPT !.role = x])
        BY <2>2 DEF AuthRequest
      <3> QED BY <1>5, <3>1, <3>2
    <2>3. ASSUME NEW c \in ChannelIDs, JoinRequest(k, c)
          PROVE  Goal
      <3>1. [arg[k] EXCEPT !.ch = c, !.spec = channels[c]].tok = arg[k].tok
        BY <1>0, FrameTok
      <3> QED BY <1>5, <2>3, <3>1 DEF JoinRequest, Request
    <2>4. ASSUME NEW c \in ChannelIDs, DeleteChannelRequest(k, c)
          PROVE  Goal
      <3>1. [arg[k] EXCEPT !.ch = c].tok = arg[k].tok
        BY <1>0, FrameTok
      <3> QED BY <1>5, <2>4, <3>1 DEF DeleteChannelRequest, Request
    <2>5. CASE LeaveRequest(k)
      <3>1. [arg[k] EXCEPT !.ch = ChannelOf(sid[k])].tok = arg[k].tok
        BY <1>0, FrameTok
      <3> QED BY <1>5, <2>5, <3>1 DEF LeaveRequest, Request
    <2>6. ASSUME NEW m \in BOOLEAN, NEW d \in BOOLEAN, UserStateRequest(k, m, d)
          PROVE  Goal
      BY <1>6, <2>6 DEF UserStateRequest
    <2>7. ASSUME NEW ch \in ChannelSpecs, CreateChannelRequest(k, ch)
          PROVE  Goal
      <3>1. [arg[k] EXCEPT !.spec = ch].tok = arg[k].tok
        BY <1>0, FrameTok
      <3> QED BY <1>5, <2>7, <3>1 DEF CreateChannelRequest, Request
    <2>8. ASSUME NEW x \in Roles, CreateTokenRequest(k, x)
          PROVE  Goal
      <3>1. /\ Goto(k, "tok_store") /\ UNCHANGED tokens
            /\ \E t \in Unissued : Keep(k, [arg[k] EXCEPT !.tok = t, !.role = x])
        BY <2>8 DEF CreateTokenRequest, storeVars
      <3>2. \A t : [arg[k] EXCEPT !.tok = t, !.role = x].tok = t
        BY <1>0, FrameTok
      <3> QED BY <1>1, <1>2, <3>1, <3>2 DEF Goal
    <2>9. ASSUME NEW u \in DOMAIN users, KickRequest(k, u) \/ BanRequest(k, u)
          PROVE  Goal
      <3>1. [arg[k] EXCEPT !.user = u].tok = arg[k].tok
        BY <1>0, FrameTok
      <3> QED BY <1>5, <2>9, <3>1 DEF KickRequest, BanRequest, Request
    <2>10. ASSUME NEW u \in DOMAIN users, NEW x \in Roles, SetUserRoleRequest(k, u, x)
           PROVE  Goal
      <3>1. [arg[k] EXCEPT !.user = u, !.role = x].tok = arg[k].tok
        BY <1>0, FrameTok
      <3> QED BY <1>5, <2>10, <3>1 DEF SetUserRoleRequest, Request
    <2> QED
      BY <1>7, <2>1, <2>2, <2>3, <2>4, <2>5, <2>6, <2>7, <2>8, <2>9, <2>10 DEF Client
  <1>8. CASE GetUser(k)
    <2>1. [arg[k] EXCEPT !.role = users[who[k]]].tok = arg[k].tok
      BY <1>0, FrameTok
    <2> QED BY <1>3, <1>5, <1>8, <2>1 DEF GetUser, Step
  <1>9. CASE ByeLeave(k)
    <2>1. [arg[k] EXCEPT !.ch = ChannelOf(sid[k])].tok = arg[k].tok
      BY <1>0, FrameTok
    <2> QED BY <1>5, <1>9, <2>1 DEF ByeLeave, Step
  <1>10. CASE DelMembers(k)
    <2>1. [arg[k] EXCEPT !.todo = Members(arg[k].ch)].tok = arg[k].tok
      BY <1>0, FrameTok
    <2> QED BY <1>5, <1>10, <2>1 DEF DelMembers, Step
  <1>11. CASE DelLeave(k)
    <2>1. pc[k] = "del_leave"
      BY <1>11 DEF DelLeave, Step
    <2>2. \/ Finish(k)
          \/ Goto(k, "del_set") /\ \E s, t : Keep(k, [arg[k] EXCEPT !.sess = s, !.todo = t])
      BY <1>11 DEF DelLeave
    <2>3. \A s, t : [arg[k] EXCEPT !.sess = s, !.todo = t].tok = arg[k].tok
      BY <1>0, FrameTok
    <2> QED BY <1>4, <1>5, <2>1, <2>2, <2>3
  <1>12. CASE EvictFind(k) \/ RoleFind(k)
    <2>1. \/ Finish(k)
          \/ /\ pc[k] \in {"evict_find", "role_find"}
             /\ \E l \in {"evict_close", "role_set"} : Goto(k, l)
             /\ \E s : Keep(k, [arg[k] EXCEPT !.sess = s])
      BY <1>12 DEF EvictFind, RoleFind, Step
    <2>2. \A s : [arg[k] EXCEPT !.sess = s].tok = arg[k].tok
      BY <1>0, FrameTok
    <2> QED BY <1>4, <1>5, <2>1, <2>2
  <1>13. CASE AuthReject(k) \/ CreateNewUser(k) \/ AutoToken(k) \/ CheckBan(k)
              \/ NewSession(k) \/ SetConn(k)
    BY <1>3, <1>4, <1>13 DEF AuthReject, CreateNewUser, AutoToken, CheckBan, NewSession,
       SetConn, Step
  <1>14. CASE Respond(k) \/ ReadError(k) \/ AuthStoreError(k) \/ ByeConn(k) \/ ByeSession(k)
    BY <1>3, <1>4, <1>14 DEF Respond, ReadError, AuthStoreError, ByeConn, ByeSession, Step
  <1>15. CASE TempLookup(k) \/ TempCount(k)
    BY <1>3, <1>4, <1>15 DEF TempLookup, TempCount, TempDone
  <1>16. CASE JoinCount(k) \/ JoinMove(k) \/ JoinSet(k) \/ LeaveSet(k) \/ ChanRate(k)
    BY <1>3, <1>4, <1>16 DEF JoinCount, JoinMove, JoinSet, LeaveSet, ChanRate, Step
  <1>17. CASE ChanStore(k) \/ DelStore(k) \/ DelSet(k)
    BY <1>3, <1>4, <1>17 DEF ChanStore, DelStore, DelSet, Step
  <1>18. CASE TokStore(k) \/ BanStore(k) \/ EvictClose(k) \/ RoleStore(k) \/ RoleSet(k)
              \/ RequestStoreError(k)
    BY <1>3, <1>4, <1>18 DEF TokStore, BanStore, EvictClose, RoleStore, RoleSet,
       RequestStoreError, Step
  <1> QED
    BY <1>7, <1>8, <1>9, <1>10, <1>11, <1>12, <1>13, <1>14, <1>15, <1>16, <1>17, <1>18
       DEF Acts, Goroutine, Bye

\* Nobody comes back to the point before authentication.
LEMMA NoWayBack ==
  ASSUME GoroutinesTypeOK, NEW k \in Conns, Acts(k), pc'[k] \in {"idle", "auth"}
  PROVE  pc[k] \in {"idle", "auth"} /\ UNCHANGED cred
PROOF
  <1>0. ASSUME NEW l, Goto(k, l), l \notin {"idle", "auth"}
        PROVE  FALSE
    BY <1>0 DEF Goto, GoroutinesTypeOK
  <1>1. CASE Client(k)
    <2>1. CASE Accept(k) \/ ClientClose(k)
      BY <2>1 DEF Accept, ClientClose
    <2>2. ~\E u \in Users, t \in Tokens \cup {NoToken} : AuthRequest(k, u, t)
      BY <1>0 DEF AuthRequest
    <2>3. ~Asked(k)
      BY <1>0 DEF Asked, RequestSteps
    <2> QED BY <1>1, <2>1, <2>2, <2>3, ClientAsks
  <1>2. /\ ~AuthReject(k) /\ ~GetUser(k) /\ ~CreateNewUser(k) /\ ~AutoToken(k)
        /\ ~CheckBan(k) /\ ~AuthStoreError(k)
    BY <1>0 DEF AuthReject, GetUser, CreateNewUser, AutoToken, CheckBan, AuthStoreError,
       Return
  <1>3. /\ ~NewSession(k) /\ ~SetConn(k) /\ ~Respond(k) /\ ~ReadError(k)
        /\ ~ByeLeave(k) /\ ~ByeConn(k) /\ ~ByeSession(k)
    BY <1>0 DEF NewSession, SetConn, Respond, ReadError, ByeLeave, ByeConn, ByeSession,
       Finish, Return
  <1>4. /\ ~TempLookup(k) /\ ~TempCount(k) /\ ~JoinCount(k) /\ ~JoinMove(k)
        /\ ~JoinSet(k) /\ ~LeaveSet(k) /\ ~ChanRate(k) /\ ~ChanStore(k)
    BY <1>0 DEF TempLookup, TempCount, TempDone, JoinCount, JoinMove, JoinSet, LeaveSet,
       ChanRate, ChanStore, Finish, Return
  <1>5. /\ ~DelStore(k) /\ ~DelMembers(k) /\ ~DelLeave(k) /\ ~DelSet(k)
    BY <1>0 DEF DelStore, DelMembers, DelLeave, DelSet, Finish
  <1>6. /\ ~TokStore(k) /\ ~BanStore(k) /\ ~EvictFind(k) /\ ~EvictClose(k)
        /\ ~RoleStore(k) /\ ~RoleFind(k) /\ ~RoleSet(k) /\ ~RequestStoreError(k)
    BY <1>0 DEF TokStore, BanStore, EvictFind, EvictClose, RoleStore, RoleFind, RoleSet,
       RequestStoreError, Finish
  <1> QED BY <1>1, <1>2, <1>3, <1>4, <1>5, <1>6 DEF Acts, Goroutine, Bye

\* A new token is stored: one drawn on the spot, or the one the request drew
Issues(k) ==
  /\ UNCHANGED cred
  /\ \E t, r : \E n \in {0, 1}, timed \in BOOLEAN : CreateToken(t, NewToken(r, n, timed))
                  /\ \/ t \in Unissued /\ pc[k] = "auto_token"
                     \/ t = arg[k].tok /\ pc[k] = "tok_store" /\ pc'[k] # "tok_store"

\* Tokens change when they are used, issued and run out, and users' tokens at login only.
LEMMA TokensChange ==
  ASSUME GoroutinesTypeOK, [Next]_vars
  PROVE  \/ UNCHANGED <<tokens, cred>>
         \/ \E k \in Conns, u \in Users, t \in Tokens \cup {NoToken} : AuthRequest(k, u, t)
         \/ \E k \in Conns : Acts(k) /\ Issues(k)
         \/ (\E t : TokenExpires(t)) /\ UNCHANGED <<cred, pc, arg>>
PROOF
  <1>1. ASSUME NEW k \in Conns, Client(k)
        PROVE  \/ UNCHANGED cred
               \/ \E u \in Users, t \in Tokens \cup {NoToken} : AuthRequest(k, u, t)
    BY <1>1, ClientAsks DEF Accept, ClientClose, Asked
  <1>2. ASSUME NEW k \in Conns, Goroutine(k)
        PROVE  UNCHANGED cred
    BY <1>2 DEF Goroutine, AuthReject, GetUser, CreateNewUser, AutoToken, CheckBan,
       NewSession, SetConn, Respond, ReadError, AuthStoreError, Bye, ByeLeave, ByeConn,
       ByeSession, TempLookup, TempCount, JoinCount, JoinMove, JoinSet, LeaveSet, ChanRate,
       ChanStore, DelStore, DelMembers, DelLeave, DelSet, TokStore, BanStore, EvictFind,
       EvictClose, RoleStore, RoleFind, RoleSet, RequestStoreError, Step
  <1>3. ASSUME NEW c \in ChannelIDs, TimerWake(c) \/ TimerDelete(c)
        PROVE  UNCHANGED cred
    BY <1>3 DEF TimerWake, TimerDelete, goroutineVars
  <1>4. ASSUME NEW u \in Users, RateExpires(u)
        PROVE  UNCHANGED cred
    BY <1>4 DEF RateExpires, goroutineVars
  <1>5. Clock \/ Quiet \/ UNCHANGED vars => UNCHANGED cred
    BY DEF Clock, Quiet, vars, goroutineVars
  <1>6. \/ UNCHANGED cred
        \/ \E k \in Conns, u \in Users, t \in Tokens \cup {NoToken} : AuthRequest(k, u, t)
    BY <1>1, <1>2, <1>3, <1>4, <1>5 DEF Next
  <1>7. ASSUME NEW k \in Conns, StoreStep(k), UNCHANGED cred
        PROVE  \/ UNCHANGED tokens
               \/ \E u \in Users, t \in Tokens \cup {NoToken} : AuthRequest(k, u, t)
               \/ Acts(k) /\ Issues(k)
    <2>1. CASE AutoToken(k)
      BY <1>7, <2>1 DEF AutoToken, Step, Issues, Acts, Goroutine, storeVars
    <2>2. CASE TokStore(k)
      <3>1. pc'[k] = "loop"
        BY <2>2 DEF TokStore, Finish, Goto, GoroutinesTypeOK
      <3> QED BY <1>7, <2>2, <3>1 DEF TokStore, Step, Issues, Acts, Goroutine
    <2>3. CASE CreateNewUser(k) \/ ChanStore(k) \/ DelStore(k) \/ BanStore(k) \/ RoleStore(k)
      BY <2>3 DEF CreateNewUser, ChanStore, DelStore, BanStore, RoleStore, CreateUser,
         CreateChannel, DeleteChannel, CreateBan, UpdateUserRole, storeVars
    <2> QED BY <1>7, <2>1, <2>2, <2>3 DEF StoreStep
  <1>8. ASSUME NEW c \in ChannelIDs, TimerDelete(c)
        PROVE  UNCHANGED tokens
    BY <1>8 DEF TimerDelete, DeleteChannel, storeVars
  <1>9. Clock => UNCHANGED tokens \/ ((\E t : TokenExpires(t)) /\ UNCHANGED <<cred, pc, arg>>)
    BY DEF Clock, BanExpires, goroutineVars
  <1>10. UNCHANGED storeVars => UNCHANGED tokens
    BY DEF storeVars
  <1> QED BY <1>6, <1>7, <1>8, <1>9, <1>10, StoreSteps

\* Every use is counted, and counted once.
LEMMA UsesKept == IInv /\ UsesInv /\ [Next]_vars => UsesInv'
PROOF
  <1> SUFFICES ASSUME IInv, UsesInv, [Next]_vars
               PROVE  UsesInv'
    OBVIOUS
  <1>0. GoroutinesTypeOK /\ StoreTypeOK
    BY DEF IInv
  <1>1. /\ DOMAIN tokens \subseteq Tokens /\ NoToken \notin DOMAIN tokens
        /\ \A t \in DOMAIN tokens : tokens[t] \in TokenRows
    BY <1>0, StoreAssumption DEF StoreTypeOK, IsMap
  \* What one token's count rests on
  <1>2. ASSUME NEW t \in DOMAIN tokens, t \in DOMAIN tokens', UNCHANGED cred,
               tokens'[t].useCount = tokens[t].useCount,
               tokens'[t].maxUses = tokens[t].maxUses
        PROVE  (IsFiniteSet(LoginsWith(t)) /\ Counted(t))'
    BY <1>2 DEF UsesInv, Counted, LoginsWith, UsedBefore
  <1>3. ASSUME NEW k \in Conns, NEW u \in Users, NEW x \in Tokens \cup {NoToken},
               AuthRequest(k, u, x), ValidateToken(x)
        PROVE  /\ DOMAIN tokens' = DOMAIN tokens
               /\ \A t \in DOMAIN tokens : (IsFiniteSet(LoginsWith(t)) /\ Counted(t))'
               /\ \A j \in Conns : cred'[j] \in DOMAIN tokens \cup {NoToken}
    <2>1. /\ x \in DOMAIN tokens /\ cred[k] = NoToken /\ cred' = [cred EXCEPT ![k] = x]
          /\ tokens' = [tokens EXCEPT ![x].useCount = @ + 1]
      BY <1>3 DEF ValidateToken, Valid, AuthRequest, UsesInv
    <2>2. /\ cred'[k] = x /\ DOMAIN tokens' = DOMAIN tokens
          /\ \A j \in Conns \ {k} : cred'[j] = cred[j]
      BY <1>0, <2>1 DEF GoroutinesTypeOK
    <2>3. ASSUME NEW t \in DOMAIN tokens, t # x
          PROVE  (IsFiniteSet(LoginsWith(t)) /\ Counted(t))'
      <3>1. LoginsWith(t)' = LoginsWith(t)
        BY <1>1, <2>1, <2>2, <2>3 DEF LoginsWith
      <3>2. tokens'[t] = tokens[t]
        BY <2>1, <2>3
      <3> QED BY <3>1, <3>2 DEF UsesInv, Counted, UsedBefore
    <2>4. (IsFiniteSet(LoginsWith(x)) /\ Counted(x))'
      <3>1. IsFiniteSet(LoginsWith(x)) /\ Counted(x) /\ k \notin LoginsWith(x)
        BY <1>1, <2>1 DEF UsesInv, LoginsWith
      <3>2. LoginsWith(x)' = LoginsWith(x) \cup {k}
        BY <2>2 DEF LoginsWith
      <3>3. /\ IsFiniteSet(LoginsWith(x)')
            /\ Cardinality(LoginsWith(x)') = Cardinality(LoginsWith(x)) + 1
            /\ Cardinality(LoginsWith(x)) \in Nat
        BY <3>1, <3>2, FS_AddElement, FS_CardinalityType
      <3>4. /\ tokens'[x].useCount = tokens[x].useCount + 1
            /\ tokens'[x].maxUses = tokens[x].maxUses
            /\ tokens[x].useCount \in Nat /\ tokens[x].maxUses \in Nat
        BY <1>1, <2>1 DEF TokenRows
      <3>5. tokens[x].maxUses > 0 => tokens[x].useCount < tokens[x].maxUses
        BY <1>3 DEF ValidateToken, Valid
      <3>6. UsedBefore(x) \in Nat
        BY ServerAssumption DEF UsedBefore, IsMap, TokenRows
      <3>7. tokens'[x].useCount = Cardinality(LoginsWith(x)') + UsedBefore(x)
        BY <3>1, <3>3, <3>4, <3>6 DEF Counted
      <3>8. tokens'[x].maxUses > 0 => tokens'[x].useCount <= tokens'[x].maxUses
        BY <3>4, <3>5
      <3> QED BY <3>3, <3>7, <3>8 DEF Counted, UsedBefore
    <2>5. \A j \in Conns : cred'[j] \in DOMAIN tokens \cup {NoToken}
      BY <2>1, <2>2 DEF UsesInv
    <2> QED BY <2>2, <2>3, <2>4, <2>5
  <1>4. ASSUME NEW k \in Conns, Issues(k)
        PROVE  /\ UNCHANGED cred
               /\ \E t \in Tokens \ DOMAIN tokens :
                    /\ DOMAIN tokens' = DOMAIN tokens \cup {t}
                    /\ \A j \in Conns \ {k} : pc[j] = "tok_store" => arg[j].tok # t
                    /\ pc'[k] = "tok_store" => pc[k] # "tok_store"
               /\ \A t \in DOMAIN tokens' : (IsFiniteSet(LoginsWith(t)) /\ Counted(t))'
    <2>1. PICK t, r : \E n \in {0, 1}, timed \in BOOLEAN :
                  /\ CreateToken(t, NewToken(r, n, timed))
                  /\ \/ t \in Unissued /\ pc[k] = "auto_token"
                     \/ t = arg[k].tok /\ pc[k] = "tok_store" /\ pc'[k] # "tok_store"
      BY <1>4 DEF Issues
    <2>2. PICK n \in {0, 1}, timed \in BOOLEAN : CreateToken(t, NewToken(r, n, timed))
      BY <2>1
    <2>3. Drawn(k) /\ \A j \in Conns : Drawn(j)
      BY DEF UsesInv
    <2>4. /\ t \in Tokens \ DOMAIN tokens
          /\ \A j \in Conns \ {k} : pc[j] = "tok_store" => arg[j].tok # t
      BY <2>1, <2>3 DEF Unissued, Drawn
    <2>5. /\ DOMAIN tokens' = DOMAIN tokens \cup {t}
          /\ tokens'[t] = NewToken(r, n, timed)
          /\ \A x \in DOMAIN tokens : tokens'[x] = tokens[x]
      BY <2>2, <2>4 DEF CreateToken, Put
    <2>6. UNCHANGED cred
      BY <1>4 DEF Issues
    <2>7. (IsFiniteSet(LoginsWith(t)) /\ Counted(t))'
      <3>1. LoginsWith(t)' = {}
        BY <2>4, <2>6, StoreAssumption DEF LoginsWith, UsesInv
      <3>2. UsedBefore(t) = 0
        BY <2>4 DEF UsedBefore, UsesInv
      <3>3. tokens'[t].useCount = 0 /\ tokens'[t].maxUses = n
        BY <2>5 DEF NewToken
      <3> QED BY <3>1, <3>2, <3>3, FS_EmptySet DEF Counted, UsedBefore
    <2>8. pc'[k] = "tok_store" => pc[k] # "tok_store"
      BY <2>1
    <2> QED BY <1>2, <2>4, <2>5, <2>6, <2>7, <2>8
  <1>5. ASSUME NEW x, TokenExpires(x), UNCHANGED cred
        PROVE  /\ DOMAIN tokens' = DOMAIN tokens
               /\ \A t \in DOMAIN tokens : (IsFiniteSet(LoginsWith(t)) /\ Counted(t))'
    <2>1. DOMAIN tokens' = DOMAIN tokens
      BY <1>5 DEF TokenExpires
    <2>2. \A t \in DOMAIN tokens : /\ tokens'[t].useCount = tokens[t].useCount
                                   /\ tokens'[t].maxUses = tokens[t].maxUses
      BY <1>1, <1>5 DEF TokenExpires, TokenRows
    <2> QED BY <1>2, <1>5, <2>1, <2>2
  <1>6. ASSUME NEW k \in Conns, NEW u \in Users, NEW x \in Tokens \cup {NoToken},
               AuthRequest(k, u, x)
        PROVE  UNCHANGED <<tokens, cred>> \/ ValidateToken(x)
    <2>1. cred[k] = NoToken /\ cred' = [cred EXCEPT ![k] = x]
      BY <1>6 DEF AuthRequest, UsesInv
    <2>2. x = NoToken => cred' = cred
      BY <1>0, <2>1 DEF GoroutinesTypeOK
    <2>3. (x = NoToken /\ UNCHANGED tokens) \/ ValidateToken(x)
      BY <1>6 DEF AuthRequest, storeVars
    <2> QED BY <2>2, <2>3
  <1>7. /\ DOMAIN tokens \subseteq DOMAIN tokens'
        /\ \A t \in DOMAIN tokens' : (IsFiniteSet(LoginsWith(t)) /\ Counted(t))'
        /\ \A j \in Conns : cred'[j] \in DOMAIN tokens' \cup {NoToken}
    <2>1. CASE UNCHANGED <<tokens, cred>>
      BY <1>2, <2>1 DEF UsesInv
    <2>2. ASSUME NEW k \in Conns, NEW u \in Users, NEW x \in Tokens \cup {NoToken},
                 AuthRequest(k, u, x), ValidateToken(x)
          PROVE  /\ DOMAIN tokens \subseteq DOMAIN tokens'
                 /\ \A t \in DOMAIN tokens' : (IsFiniteSet(LoginsWith(t)) /\ Counted(t))'
                 /\ \A j \in Conns : cred'[j] \in DOMAIN tokens' \cup {NoToken}
      BY <1>3, <2>2
    <2>3. ASSUME NEW k \in Conns, Issues(k)
          PROVE  /\ DOMAIN tokens \subseteq DOMAIN tokens'
                 /\ \A t \in DOMAIN tokens' : (IsFiniteSet(LoginsWith(t)) /\ Counted(t))'
                 /\ \A j \in Conns : cred'[j] \in DOMAIN tokens' \cup {NoToken}
      BY <1>4, <2>3 DEF UsesInv
    <2>4. ASSUME NEW x, TokenExpires(x), UNCHANGED cred
          PROVE  /\ DOMAIN tokens \subseteq DOMAIN tokens'
                 /\ \A t \in DOMAIN tokens' : (IsFiniteSet(LoginsWith(t)) /\ Counted(t))'
                 /\ \A j \in Conns : cred'[j] \in DOMAIN tokens' \cup {NoToken}
      BY <1>5, <2>4 DEF UsesInv
    <2> QED BY <1>0, <1>6, <2>1, <2>2, <2>3, <2>4, TokensChange
  <1>8. ASSUME NEW j \in Conns, pc'[j] \in {"idle", "auth"}
        PROVE  cred'[j] = NoToken
    <2>1. ASSUME NEW k \in Conns, Acts(k), j # k
          PROVE  pc'[j] = pc[j] /\ cred'[j] = cred[j]
      BY <1>0, <2>1, ActsAlone DEF Alone
    <2>2. (\E k \in Conns : Acts(k)) \/ UNCHANGED <<pc, cred>>
      BY DEF Next, Acts, TimerWake, TimerDelete, RateExpires, Clock, Quiet, vars,
         goroutineVars
    <2> QED BY <1>0, <1>8, <2>1, <2>2, NoWayBack DEF UsesInv
  <1>9. ASSUME NEW j \in Conns
        PROVE  Drawn(j)'
    <2>0. Drawn(j) /\ (pc[j] = "tok_store" => arg[j].tok \in Tokens /\ arg[j].tok # NoToken)
      BY StoreAssumption DEF UsesInv, Drawn
    \* The token j holds stays out of the table
    <2>1. ASSUME pc[j] = "tok_store", pc'[j] = "tok_store"
          PROVE  arg[j].tok \notin DOMAIN tokens'
      <3>1. arg[j].tok \notin DOMAIN tokens
        BY <2>0, <2>1 DEF Drawn
      <3>2. ASSUME NEW k \in Conns, Issues(k)
            PROVE  arg[j].tok \notin DOMAIN tokens'
        BY <1>4, <2>1, <3>1, <3>2
      <3>3. ASSUME NEW k \in Conns, NEW u \in Users, NEW x \in Tokens \cup {NoToken},
                   AuthRequest(k, u, x)
            PROVE  arg[j].tok \notin DOMAIN tokens'
        BY <1>3, <1>6, <3>1, <3>3
      <3>4. ASSUME NEW x, TokenExpires(x), UNCHANGED cred
            PROVE  arg[j].tok \notin DOMAIN tokens'
        BY <1>5, <3>1, <3>4
      <3> QED BY <1>0, <3>1, <3>2, <3>3, <3>4, TokensChange
    <2>2. ASSUME NEW k \in Conns, Acts(k), j # k
          PROVE  Drawn(j)'
      <3>1. pc'[j] = pc[j] /\ \A i \in Conns \ {k} : arg'[i] = arg[i]
        BY <1>0, <2>2, ActsAlone DEF Alone
      <3>2. arg'[k].tok # arg[j].tok \/ pc[j] # "tok_store"
        <4>1. Drawn(k)
          BY DEF UsesInv
        <4>2. pc[j] = "tok_store" => arg[k].tok # arg[j].tok
          BY <2>0, <2>2 DEF Drawn
        <4>3. \A t \in Unissued : t # arg[j].tok
          BY DEF Unissued
        <4> QED BY <1>0, <2>0, <2>2, <4>1, <4>2, <4>3, TokChange
      <3> QED BY <2>0, <2>1, <2>2, <3>1, <3>2 DEF Drawn
    <2>3. CASE Acts(j)
      <3>1. \A i \in Conns \ {j} : arg'[i] = arg[i]
        BY <1>0, <2>3, ActsAlone DEF Alone
      <3>2. CASE arg'[j].tok = NoToken /\ pc'[j] # "tok_store"
        BY <3>2 DEF Drawn
      <3>3. CASE arg'[j] = arg[j] /\ pc'[j] = pc[j]
        BY <2>0, <2>1, <3>1, <3>3 DEF Drawn
      <3>4. CASE arg'[j].tok \in Unissued /\ pc'[j] = "tok_store" /\ UNCHANGED tokens
        BY <3>1, <3>4 DEF Drawn, Unissued
      <3> QED BY <1>0, <2>0, <2>3, <3>2, <3>3, <3>4, TokChange
    <2>4. ASSUME UNCHANGED <<pc, arg>>
          PROVE  Drawn(j)'
      BY <2>0, <2>1, <2>4 DEF Drawn
    <2>5. (\E k \in Conns : Acts(k)) \/ UNCHANGED <<pc, arg>>
      BY DEF Next, Acts, TimerWake, TimerDelete, RateExpires, Clock, Quiet, vars,
         goroutineVars
    <2> QED BY <2>2, <2>3, <2>4, <2>5
  <1> QED BY <1>7, <1>8, <1>9 DEF UsesInv

\* However logins, new tokens and expiries interleave, a token's count is the number of
\* logins made with it, and never above its limit.
THEOREM TokenCountsHold == Spec => []TokenUsesCounted
PROOF
  <1>1. Init => UsesInv
    <2> SUFFICES ASSUME Init
                 PROVE  UsesInv
      OBVIOUS
    <2>1. /\ tokens = InitTokens /\ \A k \in Conns : cred[k] = NoToken /\ pc[k] = "idle"
          /\ \A k \in Conns : arg[k].tok = NoToken
      BY DEF Init, Blank
    <2>2. ASSUME NEW t \in DOMAIN tokens
          PROVE  IsFiniteSet(LoginsWith(t)) /\ Counted(t)
      <3>1. t # NoToken /\ tokens[t].useCount \in Nat
        BY <2>1, ServerAssumption, StoreAssumption DEF IsMap, TokenRows
      <3>2. LoginsWith(t) = {}
        BY <2>1, <3>1 DEF LoginsWith
      <3> QED BY <2>1, <3>1, <3>2, FS_EmptySet, ServerAssumption DEF Counted, UsedBefore
    <2> QED BY <2>1, <2>2 DEF UsesInv, Drawn
  <1>2. UsesInv => TokenUsesCounted
    BY DEF UsesInv, TokenUsesCounted, Counted, LoginsWith, UsedBefore
  <1> QED BY <1>1, <1>2, UsesKept, Invariance, PTL DEF Spec
=============================================================================
