------------------------ MODULE ControlServerProofs -------------------------
(***************************************************************************)
(* The control plane for any number of connections, sessions, users,       *)
(* channels and requests: types, and who owns sessions, seats and          *)
(* registered connections.                                                 *)
(***************************************************************************)
EXTENDS ControlProperties, ChannelManagerProofs

-----------------------------------------------------------------------------
(* The store *)

\* Every method of the DataStore keeps the store's type.
LEMMA StoreMethodsKeepType ==
  ASSUME StoreTypeOK
  PROVE  /\ \A u \in Users, r \in Roles : CreateUser(u, r) => StoreTypeOK'
         /\ \A u \in Users, r \in Roles : UpdateUserRole(u, r) => StoreTypeOK'
         /\ \A ch \in Channels :
              nextChannelID <= MaxChannelID /\ CreateChannel(ch) => StoreTypeOK'
         /\ \A c \in ChannelIDs : DeleteChannel(c) => StoreTypeOK'
         /\ \A t \in Tokens, row \in TokenRows : CreateToken(t, row) => StoreTypeOK'
         /\ \A t : ValidateToken(t) => StoreTypeOK'
         /\ \A t : TokenExpires(t) => StoreTypeOK'
         /\ \A u \in Users, b \in BOOLEAN : CreateBan(u, b) => StoreTypeOK'
         /\ \A u : BanExpires(u) => StoreTypeOK'
         /\ UNCHANGED storeVars => StoreTypeOK'
PROOF
  <1> USE DEF StoreTypeOK
  <1>1. \A u \in Users, r \in Roles : CreateUser(u, r) => StoreTypeOK'
    BY PutIsMap DEF CreateUser
  <1>2. \A u \in Users, r \in Roles : UpdateUserRole(u, r) => StoreTypeOK'
    BY PutIsMap DEF UpdateUserRole
  <1>3. \A ch \in Channels :
          nextChannelID <= MaxChannelID /\ CreateChannel(ch) => StoreTypeOK'
    <2> SUFFICES ASSUME NEW ch \in Channels, nextChannelID <= MaxChannelID,
                        CreateChannel(ch)
                 PROVE  StoreTypeOK'
      OBVIOUS
    <2>1. nextChannelID \in ChannelIDs /\ nextChannelID' \in Nat \ {0}
      BY ModelAssumption DEF CreateChannel, ChannelIDs
    <2> QED BY <2>1, PutIsMap DEF CreateChannel
  <1>4. \A c \in ChannelIDs : DeleteChannel(c) => StoreTypeOK'
    BY DropIsMap DEF DeleteChannel
  <1>5. \A t \in Tokens, row \in TokenRows : CreateToken(t, row) => StoreTypeOK'
    BY PutIsMap DEF CreateToken
  <1>6. \A t : ValidateToken(t) => StoreTypeOK'
    BY DEF ValidateToken, Valid, TokenRows, IsMap
  <1>7. \A t : TokenExpires(t) => StoreTypeOK'
    <2> SUFFICES ASSUME NEW t, TokenExpires(t)
                 PROVE  StoreTypeOK'
      OBVIOUS
    <2>1. tokens[t] \in TokenRows
      BY DEF TokenExpires, IsMap
    <2>2. [tokens[t] EXCEPT !.expired = TRUE] \in TokenRows
      BY <2>1 DEF TokenRows
    <2> QED BY <2>2 DEF TokenExpires, IsMap
  <1>8. \A u \in Users, b \in BOOLEAN : CreateBan(u, b) => StoreTypeOK'
    BY DEF CreateBan, BanRows
  <1>9. \A u : BanExpires(u) => StoreTypeOK'
    BY DEF BanExpires
  <1>10. UNCHANGED storeVars => StoreTypeOK'
    BY DEF storeVars
  <1> QED BY <1>1, <1>2, <1>3, <1>4, <1>5, <1>6, <1>7, <1>8, <1>9, <1>10

\* Every step of the server keeps the store's type.
LEMMA StoreKept ==
  ASSUME StoreTypeOK, GoroutinesTypeOK, LocalsSet, [Next]_vars
  PROVE  StoreTypeOK'
PROOF
  <1> USE StoreMethodsKeepType
  <1>1. ASSUME NEW k \in Conns, Client(k)
        PROVE  StoreTypeOK'
    <2>1. ASSUME NEW u \in Users, NEW t \in Tokens \cup {NoToken}, AuthRequest(k, u, t)
          PROVE  StoreTypeOK'
      BY <2>1 DEF AuthRequest
    <2> QED
      BY <1>1, <2>1 DEF Client, Accept, ClientClose, JoinRequest, DeleteChannelRequest,
         LeaveRequest, UserStateRequest, CreateChannelRequest, CreateTokenRequest,
         KickRequest, BanRequest, SetUserRoleRequest
  <1>2. ASSUME NEW k \in Conns, Goroutine(k)
        PROVE  StoreTypeOK'
    <2>1. arg[k] \in Frames
      BY DEF GoroutinesTypeOK
    <2>2. CASE CreateNewUser(k)
      BY <2>1, <2>2 DEF CreateNewUser, Frames, LocalsSet, Fits
    <2>3. CASE AutoToken(k)
      <3>1. NewToken(RoleUser, 0, FALSE) \in TokenRows
        BY DEF NewToken, TokenRows, RoleUser, Roles
      <3> QED BY <2>3, <3>1 DEF AutoToken, Unissued
    <2>4. CASE ChanStore(k)
      BY <2>1, <2>4 DEF ChanStore, Frames
    <2>5. CASE DelStore(k)
      BY <2>5 DEF DelStore, Step, LocalsSet, Fits
    <2>6. CASE TokStore(k)
      <3>1. \A n \in {0, 1}, b \in BOOLEAN : NewToken(arg[k].role, n, b) \in TokenRows
        BY <2>1 DEF NewToken, TokenRows, Frames
      <3> QED BY <2>6, <3>1 DEF TokStore, Step, LocalsSet, Fits
    <2>7. CASE BanStore(k)
      BY <2>7 DEF BanStore, Step, LocalsSet, Fits
    <2>8. CASE RoleStore(k)
      BY <2>1, <2>8 DEF RoleStore, Step, LocalsSet, Fits, Frames
    <2> QED
      BY <1>2, <2>2, <2>3, <2>4, <2>5, <2>6, <2>7, <2>8
         DEF Goroutine, AuthReject, GetUser, CheckBan, NewSession, SetConn, Respond,
         ReadError, AuthStoreError, Bye, ByeLeave, ByeConn, ByeSession, TempLookup,
         TempCount, JoinCount, JoinMove, JoinSet, LeaveSet, ChanRate, DelMembers,
         DelLeave, DelSet, EvictFind, EvictClose, RoleFind, RoleSet, RequestStoreError
  <1>3. ASSUME NEW c \in ChannelIDs, TimerWake(c) \/ TimerDelete(c)
        PROVE  StoreTypeOK'
    BY <1>3 DEF TimerWake, TimerDelete
  <1>4. ASSUME NEW u \in Users, RateExpires(u)
        PROVE  StoreTypeOK'
    BY <1>4 DEF RateExpires
  <1>5. CASE Clock
    BY <1>5 DEF Clock
  <1>6. CASE Quiet \/ UNCHANGED vars
    BY <1>6 DEF Quiet, vars, storeVars
  <1> QED BY <1>1, <1>2, <1>3, <1>4, <1>5, <1>6 DEF Next

-----------------------------------------------------------------------------
(* The rooms *)

\* A live session's ID is one the server may draw.
LEMMA LiveID ==
  ASSUME SessionsTypeOK, SessionsOwned, NEW k \in Conns, Live(k)
  PROVE  sid[k] \in SessionIDs
  BY DEF SessionsTypeOK, SessionsOwned, IsMap

\* Every step of the server is a Join, a Leave, or none of the ChannelManager's.
LEMMA RoomsCalled ==
  ASSUME GoroutinesTypeOK, LocalsSet, SessionsTypeOK, SessionsOwned, [Next]_vars
  PROVE  [CMNext]_roomVars
PROOF
  <1>1. ASSUME NEW k \in Conns, Client(k)
        PROVE  [CMNext]_roomVars
    <2>1. CASE LeaveRequest(k)
      <3>1. Live(k) /\ Leave(sid[k])
        BY <2>1 DEF LeaveRequest, Request, Live
      <3> QED BY <3>1, LiveID DEF CMNext
    <2> QED
      BY <1>1, <2>1 DEF Client, Accept, ClientClose, AuthRequest, JoinRequest,
         DeleteChannelRequest, UserStateRequest, CreateChannelRequest,
         CreateTokenRequest, KickRequest, BanRequest, SetUserRoleRequest
  <1>2. ASSUME NEW k \in Conns, Goroutine(k)
        PROVE  [CMNext]_roomVars
    <2>1. CASE ByeLeave(k)
      <3>1. Live(k) /\ Leave(sid[k])
        BY <2>1 DEF ByeLeave, Step, Live, ByeSteps
      <3> QED BY <3>1, LiveID DEF CMNext
    <2>2. CASE JoinMove(k)
      <3>1. Live(k) /\ Join(sid[k], arg[k].ch) /\ arg[k].ch \in ChannelIDs
        BY <2>2 DEF JoinMove, Step, Live, RequestSteps, LocalsSet, Fits
      <3> QED BY <3>1, LiveID DEF CMNext
    <2>3. CASE DelLeave(k)
      <3>1. arg[k].todo \subseteq SessionIDs
        BY DEF GoroutinesTypeOK, Frames
      <3> QED BY <2>3, <3>1 DEF DelLeave, CMNext
    <2> QED
      BY <1>2, <2>1, <2>2, <2>3
         DEF Goroutine, AuthReject, GetUser, CreateNewUser, AutoToken, CheckBan,
         NewSession, SetConn, Respond, ReadError, AuthStoreError, Bye, ByeConn,
         ByeSession, TempLookup, TempCount, JoinCount, JoinSet, LeaveSet, ChanRate,
         ChanStore, DelStore, DelMembers, DelSet, TokStore, BanStore, EvictFind,
         EvictClose, RoleStore, RoleFind, RoleSet, RequestStoreError
  <1>3. ASSUME NEW c \in ChannelIDs, TimerWake(c) \/ TimerDelete(c)
        PROVE  [CMNext]_roomVars
    BY <1>3 DEF TimerWake, TimerDelete
  <1>4. ASSUME NEW u \in Users, RateExpires(u)
        PROVE  [CMNext]_roomVars
    BY <1>4 DEF RateExpires
  <1>5. CASE Clock
    BY <1>5 DEF Clock
  <1>6. CASE Quiet \/ UNCHANGED vars
    BY <1>6 DEF Quiet, vars, roomVars
  <1> QED BY <1>1, <1>2, <1>3, <1>4, <1>5, <1>6 DEF Next

\* Whoever joins or leaves, the two indexes stay typed and in agreement.
LEMMA RoomsKept ==
  ASSUME RoomsOK, GoroutinesTypeOK, LocalsSet, SessionsTypeOK, SessionsOwned,
         [Next]_vars
  PROVE  RoomsOK'
  BY RoomsCalled, CallsKeepRooms

-----------------------------------------------------------------------------
(* The goroutines' own state *)

\* Goroutine k goes to a label with locals that fit it.
LEMMA Jump ==
  ASSUME GoroutinesTypeOK, LocalsSet, NEW k \in Conns, NEW label \in Labels,
         NEW frame \in Frames, Fits(who[k], label, frame),
         Goto(k, label), Keep(k, frame), UNCHANGED who
  PROVE  pc' \in [Conns -> Labels] /\ arg' \in [Conns -> Frames] /\ LocalsSet'
  BY DEF GoroutinesTypeOK, LocalsSet, Goto, Keep

\* It goes there with the locals it has.
LEMMA JumpOnly ==
  ASSUME GoroutinesTypeOK, LocalsSet, NEW k \in Conns, NEW label \in Labels,
         Fits(who[k], label, arg[k]), Goto(k, label), UNCHANGED <<arg, who>>
  PROVE  pc' \in [Conns -> Labels] /\ arg' \in [Conns -> Frames] /\ LocalsSet'
  BY DEF GoroutinesTypeOK, LocalsSet, Goto

\* A handler starts with typed locals.
LEMMA BlankIsFrame == Blank \in Frames
  BY DEF Blank, Frames, Lobby, Channels, RoleUser, Roles, NoChannel

\* Back in the loop there is nothing to remember.
LEMMA FinishFits ==
  ASSUME GoroutinesTypeOK, LocalsSet, NEW k \in Conns, who[k] \in Users,
         Finish(k), UNCHANGED who
  PROVE  pc' \in [Conns -> Labels] /\ arg' \in [Conns -> Frames] /\ LocalsSet'
  BY Jump, BlankIsFrame DEF Finish, Fits, Labels

\* A goroutine that is over needs no locals.
LEMMA ReturnFits ==
  ASSUME GoroutinesTypeOK, LocalsSet, NEW k \in Conns, Return(k), UNCHANGED who
  PROVE  /\ pc' \in [Conns -> Labels] /\ arg' \in [Conns -> Frames] /\ LocalsSet'
         /\ open' \in [Conns -> BOOLEAN]
PROOF
  <1>1. "closed" \in Labels /\ Fits(who[k], "closed", Blank)
    BY DEF Labels, Fits
  <1>2. open' \in [Conns -> BOOLEAN]
    BY DEF Return, GoroutinesTypeOK
  <1> QED BY <1>1, <1>2, Jump, BlankIsFrame DEF Return

\* What a client does keeps the goroutines typed and their locals set.
LEMMA ControlKeptByClient ==
  ASSUME GoroutinesTypeOK, LocalsSet, RoomsOK, StoreTypeOK, NEW k \in Conns, Client(k)
  PROVE  GoroutinesTypeOK' /\ LocalsSet'
PROOF
  <1> DEFINE Kept == GoroutinesTypeOK' /\ LocalsSet'
  <1>0. arg[k] \in Frames /\ Fits(who[k], pc[k], arg[k])
    BY DEF GoroutinesTypeOK, LocalsSet
  <1>1. CASE Accept(k)
    <2>1. "auth" \in Labels /\ Fits(who[k], "auth", arg[k])
      BY DEF Labels, Fits
    <2> QED BY <1>1, <2>1, JumpOnly DEF Accept, GoroutinesTypeOK, timerVars
  <1>2. CASE ClientClose(k)
    BY <1>2 DEF ClientClose, GoroutinesTypeOK, LocalsSet, timerVars
  <1>3. ASSUME NEW u \in Users, NEW t \in Tokens \cup {NoToken}, AuthRequest(k, u, t)
        PROVE  Kept
    <2>1. PICK r \in Roles : Keep(k, [arg[k] EXCEPT !.role = r])
      BY <1>3 DEF AuthRequest, ValidateToken, Valid, StoreTypeOK, IsMap, TokenRows,
         RoleUser, Roles
    <2>2. [arg[k] EXCEPT !.role = r] \in Frames
      BY <1>0 DEF Frames
    <2>3. arg' \in [Conns -> Frames] /\ who' \in [Conns -> Users \cup {NoUser}]
      BY <1>3, <2>1, <2>2 DEF Keep, AuthRequest, GoroutinesTypeOK
    <2>4. pc' = [pc EXCEPT ![k] = "get_user"] /\ who' = [who EXCEPT ![k] = u]
      BY <1>3 DEF AuthRequest, Goto
    <2>5. LocalsSet'
      BY <2>1, <2>4 DEF LocalsSet, Fits, Keep, GoroutinesTypeOK
    <2> QED BY <1>3, <2>3, <2>4, <2>5
            DEF AuthRequest, GoroutinesTypeOK, Labels, AuthSteps, timerVars
  <1>4. ASSUME pc[k] = "loop", who[k] \in Users, open' = open, budget' \in Nat,
               UNCHANGED <<who, sid, cred, active, tempChanTimes, timerVars>>,
               NEW label \in RequestSteps, NEW frame \in Frames,
               Fits(who[k], label, frame), Goto(k, label), Keep(k, frame)
        PROVE  Kept
    <2>1. label \in Labels
      BY DEF Labels
    <2> QED BY <1>4, <2>1, Jump DEF GoroutinesTypeOK, timerVars
  <1>5. ASSUME NEW kind, Request(k, kind)
        PROVE  /\ pc[k] = "loop" /\ who[k] \in Users /\ open' = open /\ budget' \in Nat
               /\ UNCHANGED <<who, sid, cred, active>>
    BY <1>0, <1>5 DEF Request, Fits, GoroutinesTypeOK
  <1> HIDE DEF Kept
  <1>6. ASSUME NEW c \in ChannelIDs, JoinRequest(k, c)
        PROVE  Kept
    <2>1. [arg[k] EXCEPT !.ch = c, !.spec = channels[c]] \in Frames
      BY <1>0, <1>6 DEF JoinRequest, StoreTypeOK, IsMap, Frames
    <2>2. Fits(who[k], "join_count", [arg[k] EXCEPT !.ch = c, !.spec = channels[c]])
      BY <1>0, <1>5, <1>6, <2>1 DEF JoinRequest, Fits, Frames
    <2> QED BY <1>4, <1>5, <1>6, <2>1, <2>2 DEF JoinRequest, RequestSteps
  <1>7. ASSUME NEW c \in ChannelIDs, DeleteChannelRequest(k, c)
        PROVE  Kept
    <2>1. [arg[k] EXCEPT !.ch = c] \in Frames
      BY <1>0 DEF Frames
    <2>2. Fits(who[k], "del_store", [arg[k] EXCEPT !.ch = c])
      BY <1>0, <1>5, <1>7 DEF DeleteChannelRequest, Fits, Frames
    <2> QED BY <1>4, <1>5, <1>7, <2>1, <2>2 DEF DeleteChannelRequest, RequestSteps
  <1>8. CASE LeaveRequest(k)
    <2>1. ChannelOf(sid[k]) \in ChannelIDs \cup {NoChannel}
      BY DEF ChannelOf, RoomsOK, RoomsTypeOK, IsMap
    <2>2. [arg[k] EXCEPT !.ch = ChannelOf(sid[k])] \in Frames
      BY <1>0, <2>1 DEF Frames
    <2>3. Fits(who[k], "leave_set", [arg[k] EXCEPT !.ch = ChannelOf(sid[k])])
      BY <1>5, <1>8 DEF LeaveRequest, Fits
    <2> QED BY <1>4, <1>5, <1>8, <2>2, <2>3 DEF LeaveRequest, RequestSteps, Kept
  <1>9. ASSUME NEW m \in BOOLEAN, NEW d \in BOOLEAN, UserStateRequest(k, m, d)
        PROVE  Kept
    BY <1>5, <1>9 DEF UserStateRequest, LocalsSet, GoroutinesTypeOK, Kept, timerVars
  <1>10. ASSUME NEW ch \in ChannelSpecs, CreateChannelRequest(k, ch)
         PROVE  Kept
    <2>1. [arg[k] EXCEPT !.spec = ch] \in Frames
      BY <1>0, ServerAssumption DEF Frames
    <2>2. \A label \in {"chan_rate", "chan_store"} :
            Fits(who[k], label, [arg[k] EXCEPT !.spec = ch])
      BY <1>5, <1>10 DEF CreateChannelRequest, Fits
    <2> QED BY <1>4, <1>5, <1>10, <2>1, <2>2 DEF CreateChannelRequest, RequestSteps
  <1>11. ASSUME NEW r \in Roles, CreateTokenRequest(k, r)
         PROVE  Kept
    <2>1. PICK t \in Tokens : Keep(k, [arg[k] EXCEPT !.tok = t, !.role = r])
      BY <1>11 DEF CreateTokenRequest, Unissued
    <2>2. [arg[k] EXCEPT !.tok = t, !.role = r] \in Frames
      BY <1>0 DEF Frames
    <2>3. Fits(who[k], "tok_store", [arg[k] EXCEPT !.tok = t, !.role = r])
      BY <1>0, <1>5, <1>11 DEF CreateTokenRequest, Fits, Frames
    <2> QED BY <1>4, <1>5, <1>11, <2>1, <2>2, <2>3 DEF CreateTokenRequest, RequestSteps
  <1>12. ASSUME NEW u \in DOMAIN users, KickRequest(k, u) \/ BanRequest(k, u)
         PROVE  Kept
    <2>1. u \in Users
      BY DEF StoreTypeOK, IsMap
    <2>2. [arg[k] EXCEPT !.user = u] \in Frames
      BY <1>0, <2>1 DEF Frames
    <2>3. \A label \in {"evict_find", "ban_store"} :
            Fits(who[k], label, [arg[k] EXCEPT !.user = u])
      BY <1>0, <1>5, <1>12, <2>1 DEF KickRequest, BanRequest, Fits, Frames
    <2> QED BY <1>4, <1>5, <1>12, <2>2, <2>3 DEF KickRequest, BanRequest, RequestSteps
  <1>13. ASSUME NEW u \in DOMAIN users, NEW r \in Roles, SetUserRoleRequest(k, u, r)
         PROVE  Kept
    <2>1. u \in Users
      BY DEF StoreTypeOK, IsMap
    <2>2. [arg[k] EXCEPT !.user = u, !.role = r] \in Frames
      BY <1>0, <2>1 DEF Frames
    <2>3. Fits(who[k], "role_store", [arg[k] EXCEPT !.user = u, !.role = r])
      BY <1>0, <1>5, <1>13, <2>1 DEF SetUserRoleRequest, Fits, Frames
    <2> QED BY <1>4, <1>5, <1>13, <2>2, <2>3 DEF SetUserRoleRequest, RequestSteps
  <1> QED
    BY <1>1, <1>2, <1>3, <1>6, <1>7, <1>8, <1>9, <1>10, <1>11, <1>12, <1>13
       DEF Client, Kept

\* So does every step a goroutine takes on its own.
LEMMA ControlKeptByGoroutine ==
  ASSUME GoroutinesTypeOK, LocalsSet, RoomsOK, SessionsTypeOK, StoreTypeOK,
         NEW k \in Conns, Goroutine(k)
  PROVE  GoroutinesTypeOK' /\ LocalsSet'
PROOF
  <1> DEFINE Calm == UNCHANGED <<open, sid, who, cred, active, budget, tempChanTimes, timerVars>>
             Kept == GoroutinesTypeOK' /\ LocalsSet'
  <1> SUFFICES Kept
    OBVIOUS
  <1>0. arg[k] \in Frames /\ Fits(who[k], pc[k], arg[k])
    BY DEF GoroutinesTypeOK, LocalsSet
  \* The four ways in which a step ends
  <1>1. ASSUME Calm, who[k] \in Users, Finish(k)
        PROVE  Kept
    BY <1>1, FinishFits DEF GoroutinesTypeOK, timerVars
  <1>2. ASSUME Calm, NEW label \in Labels, Fits(who[k], label, arg[k]), Goto(k, label),
               UNCHANGED arg
        PROVE  Kept
    BY <1>2, JumpOnly DEF GoroutinesTypeOK, timerVars
  <1>3. ASSUME Calm, NEW label \in Labels, NEW frame \in Frames,
               Fits(who[k], label, frame), Goto(k, label), Keep(k, frame)
        PROVE  Kept
    BY <1>3, Jump DEF GoroutinesTypeOK, timerVars
  <1>4. ASSUME Return(k), UNCHANGED <<sid, who, cred, budget, tempChanTimes, deleting>>,
               active' \in Int, asleep' \in [ChannelIDs -> Nat]
        PROVE  Kept
    BY <1>4, ReturnFits DEF GoroutinesTypeOK
  <1> HIDE DEF Kept
  \* Authentication
  <1>5. CASE AuthReject(k) \/ AuthStoreError(k)
    BY <1>4, <1>5 DEF AuthReject, AuthStoreError, GoroutinesTypeOK, timerVars
  <1>6. CASE GetUser(k)
    <2>1. Calm /\ who[k] \in Users
      BY <1>0, <1>6 DEF GetUser, Step, Fits
    <2>2. CASE who[k] \in DOMAIN users
      <3>1. [arg[k] EXCEPT !.role = users[who[k]]] \in Frames
        BY <1>0, <2>2 DEF StoreTypeOK, IsMap, Frames
      <3> QED BY <1>3, <1>6, <2>1, <2>2, <3>1 DEF GetUser, Fits, Labels, AuthSteps
    <2>3. CASE who[k] \notin DOMAIN users
      BY <1>2, <1>6, <2>1, <2>3 DEF GetUser, Fits, Labels, AuthSteps
    <2> QED BY <2>2, <2>3
  <1>7. CASE CreateNewUser(k)
    <2>1. who[k] \in Users
      BY <1>0, <1>7 DEF CreateNewUser, Fits
    <2>2. \A label \in {"auto_token", "check_ban"} :
            label \in Labels /\ Fits(who[k], label, arg[k])
      BY <2>1 DEF Fits, Labels, AuthSteps
    <2> QED BY <1>2, <1>4, <1>7, <2>2 DEF CreateNewUser, GoroutinesTypeOK, timerVars
  <1>8. CASE AutoToken(k)
    <2>1. "check_ban" \in Labels /\ Fits(who[k], "check_ban", arg[k])
      BY <1>0, <1>8 DEF AutoToken, Step, Fits, Labels, AuthSteps
    <2> QED BY <1>2, <1>8, <2>1 DEF AutoToken, Step
  <1>9. CASE CheckBan(k)
    <2>1. "new_session" \in Labels /\ Fits(who[k], "new_session", arg[k])
      BY <1>0, <1>9 DEF CheckBan, Fits, Labels, AuthSteps
    <2> QED BY <1>2, <1>4, <1>9, <2>1 DEF CheckBan, GoroutinesTypeOK, timerVars
  <1>10. CASE NewSession(k)
    <2>1. "set_conn" \in Labels /\ Fits(who[k], "set_conn", arg[k])
      BY <1>0, <1>10 DEF NewSession, Fits, Labels
    <2>2. sid' \in [Conns -> SessionIDs \cup {NoSession}]
      BY <1>10 DEF NewSession, FreeIDs, GoroutinesTypeOK
    <2> QED BY <1>10, <2>1, <2>2, JumpOnly DEF NewSession, GoroutinesTypeOK, timerVars, Kept
  <1>11. CASE SetConn(k)
    <2>1. "respond" \in Labels /\ Fits(who[k], "respond", arg[k])
      BY <1>0, <1>11 DEF SetConn, Fits, Labels
    <2> QED BY <1>2, <1>11, <2>1 DEF SetConn
  <1>12. CASE Respond(k)
    <2>1. "bye_leave" \in Labels /\ Fits(who[k], "bye_leave", Blank) /\ who[k] \in Users
      BY <1>0, <1>12 DEF Respond, Step, Fits, Labels, ByeSteps
    <2> QED BY <1>1, <1>3, <1>12, <2>1, BlankIsFrame DEF Respond, Step
  \* The end of a connection
  <1>13. CASE ReadError(k)
    <2>1. "bye_leave" \in Labels /\ Fits(who[k], "bye_leave", arg[k])
      BY <1>0, <1>13 DEF ReadError, Step, Fits, Labels, ByeSteps
    <2> QED BY <1>2, <1>13, <2>1 DEF ReadError, Step
  <1>14. CASE ByeLeave(k)
    <2>1. ChannelOf(sid[k]) \in ChannelIDs \cup {NoChannel}
      BY DEF ChannelOf, RoomsOK, RoomsTypeOK, IsMap
    <2>2. [arg[k] EXCEPT !.ch = ChannelOf(sid[k])] \in Frames
      BY <1>0, <2>1 DEF Frames
    <2>3. /\ "bye_conn" \in Labels
          /\ Fits(who[k], "bye_conn", [arg[k] EXCEPT !.ch = ChannelOf(sid[k])])
      BY <1>0, <1>14 DEF ByeLeave, Step, Fits, Labels, ByeSteps
    <2> QED BY <1>3, <1>14, <2>2, <2>3 DEF ByeLeave, Step
  <1>15. CASE ByeConn(k)
    <2>1. "bye_session" \in Labels /\ Fits(who[k], "bye_session", arg[k])
      BY <1>0, <1>15 DEF ByeConn, Fits, Labels, ByeSteps
    <2> QED BY <1>2, <1>15, <2>1 DEF ByeConn
  <1>16. CASE ByeSession(k)
    <2>1. active' \in Int
      BY <1>16 DEF ByeSession, GoroutinesTypeOK
    <2>2. CASE arg[k].ch # NoChannel
      <3>1. "bye_lookup" \in Labels /\ Fits(who[k], "bye_lookup", arg[k])
        BY <1>0, <1>16, <2>2 DEF ByeSession, Fits, Labels, Frames
      <3> QED BY <1>16, <2>1, <2>2, <3>1, JumpOnly
              DEF ByeSession, GoroutinesTypeOK, timerVars, Kept
    <2>3. CASE arg[k].ch = NoChannel
      BY <1>4, <1>16, <2>1, <2>3 DEF ByeSession, GoroutinesTypeOK, timerVars
    <2> QED BY <2>2, <2>3
  <1>17. CASE TempLookup(k)
    <2>1. who[k] \in Users /\ arg[k].ch \in ChannelIDs
      BY <1>0, <1>17 DEF TempLookup, Fits
    <2>2. \A label \in {"temp_count", "bye_count"} :
            label \in Labels /\ Fits(who[k], label, arg[k])
      BY <2>1 DEF Fits, Labels, RequestSteps
    <2> QED BY <1>1, <1>2, <1>4, <1>17, <2>1, <2>2
            DEF TempLookup, TempDone, GoroutinesTypeOK, timerVars
  <1>18. CASE TempCount(k)
    <2>1. who[k] \in Users /\ arg[k].ch \in ChannelIDs
      BY <1>0, <1>18 DEF TempCount, Fits
    <2>2. asleep' \in [ChannelIDs -> Nat]
      BY <1>18, <2>1 DEF TempCount, GoroutinesTypeOK
    <2>3. CASE Finish(k) /\ UNCHANGED open
      BY <1>18, <2>1, <2>2, <2>3, FinishFits DEF TempCount, GoroutinesTypeOK, Kept
    <2>4. CASE Return(k)
      BY <1>4, <1>18, <2>2, <2>4 DEF TempCount, GoroutinesTypeOK
    <2> QED BY <1>18, <2>3, <2>4 DEF TempCount, TempDone
  \* Requests
  <1>19. ASSUME NEW l \in RequestSteps, Step(k, l)
         PROVE  /\ who[k] \in Users /\ Fits(who[k], l, arg[k])
                /\ UNCHANGED <<open, sid, who, cred, active, budget>>
    BY <1>0, <1>19 DEF Step, Fits, RequestSteps
  <1>20. CASE JoinCount(k)
    <2>1. "join_move" \in Labels /\ Fits(who[k], "join_move", arg[k])
      BY <1>0, <1>20 DEF JoinCount, Step, Fits, Labels, RequestSteps
    <2> QED BY <1>1, <1>2, <1>19, <1>20, <2>1 DEF JoinCount, RequestSteps
  <1>21. CASE JoinMove(k)
    <2>1. "join_set" \in Labels /\ Fits(who[k], "join_set", arg[k])
      BY <1>0, <1>21 DEF JoinMove, Step, Fits, Labels, RequestSteps
    <2> QED BY <1>2, <1>19, <1>21, <2>1 DEF JoinMove, RequestSteps
  <1>22. CASE LeaveSet(k)
    <2>1. CASE arg[k].ch # NoChannel
      <3>1. "temp_lookup" \in Labels /\ Fits(who[k], "temp_lookup", arg[k])
        BY <1>0, <1>22, <2>1 DEF LeaveSet, Step, Fits, Labels, RequestSteps, Frames
      <3> QED BY <1>2, <1>19, <1>22, <2>1, <3>1 DEF LeaveSet, RequestSteps
    <2>2. CASE arg[k].ch = NoChannel
      BY <1>1, <1>19, <1>22, <2>2 DEF LeaveSet, RequestSteps
    <2> QED BY <2>1, <2>2
  <1>23. CASE ChanRate(k)
    <2>1. "chan_store" \in Labels /\ Fits(who[k], "chan_store", arg[k]) /\ who[k] \in Users
      BY <1>0, <1>23 DEF ChanRate, Step, Fits, Labels, RequestSteps
    <2>2. CASE who[k] \in tempChanTimes
      BY <1>1, <1>19, <1>23, <2>1, <2>2 DEF ChanRate, RequestSteps
    <2>3. CASE who[k] \notin tempChanTimes
      BY <1>23, <2>1, <2>3, JumpOnly DEF ChanRate, Step, GoroutinesTypeOK, timerVars, Kept
    <2> QED BY <2>2, <2>3
  <1>24. CASE DelStore(k) \/ BanStore(k) \/ RoleStore(k) \/ DelSet(k)
    <2>1. /\ DelStore(k) => Fits(who[k], "del_members", arg[k])
          /\ BanStore(k) => Fits(who[k], "evict_find", arg[k])
          /\ RoleStore(k) => Fits(who[k], "role_find", arg[k])
          /\ DelSet(k) => Fits(who[k], "del_leave", arg[k])
      BY <1>0 DEF DelStore, BanStore, RoleStore, DelSet, Step, Fits
    <2>2. {"del_members", "evict_find", "role_find", "del_leave"} \subseteq Labels
      BY DEF Labels, RequestSteps
    <2> QED BY <1>2, <1>19, <1>24, <2>1, <2>2
            DEF DelStore, BanStore, RoleStore, DelSet, RequestSteps
  <1>25. CASE DelMembers(k)
    <2>1. Members(arg[k].ch) \subseteq SessionIDs
      BY DEF Members, RoomsOK, RoomsTypeOK, IsMap
    <2>2. [arg[k] EXCEPT !.todo = Members(arg[k].ch)] \in Frames
      BY <1>0, <2>1 DEF Frames
    <2>3. /\ "del_leave" \in Labels
          /\ Fits(who[k], "del_leave", [arg[k] EXCEPT !.todo = Members(arg[k].ch)])
      BY <1>0, <1>25 DEF DelMembers, Step, Fits, Labels, RequestSteps, Frames
    <2> QED BY <1>3, <1>19, <1>25, <2>2, <2>3 DEF DelMembers, RequestSteps
  <1>26. CASE DelLeave(k)
    <2>1. ASSUME NEW s \in arg[k].todo, Goto(k, "del_set"),
                 Keep(k, [arg[k] EXCEPT !.sess = s, !.todo = @ \ {s}])
          PROVE  Kept
      <3>1. [arg[k] EXCEPT !.sess = s, !.todo = @ \ {s}] \in Frames
        BY <1>0 DEF Frames
      <3>2. /\ "del_set" \in Labels
            /\ Fits(who[k], "del_set", [arg[k] EXCEPT !.sess = s, !.todo = @ \ {s}])
        BY <1>0, <1>26 DEF DelLeave, Step, Fits, Labels, RequestSteps, Frames
      <3> QED BY <1>3, <1>19, <1>26, <2>1, <3>1, <3>2 DEF DelLeave, RequestSteps
    <2> QED BY <1>1, <1>19, <1>26, <2>1 DEF DelLeave, RequestSteps
  <1>27. ASSUME NEW l \in {"evict_find", "role_find"}, Step(k, l),
                NEW s \in SessionsOf(arg[k].user),
                NEW label \in {"evict_close", "role_set"}, Goto(k, label),
                Keep(k, [arg[k] EXCEPT !.sess = s]), UNCHANGED <<tempChanTimes, timerVars>>
         PROVE  Kept
    <2>1. [arg[k] EXCEPT !.sess = s] \in Frames
      BY <1>0 DEF SessionsOf, SessionsTypeOK, IsMap, Frames
    <2>2. label \in Labels /\ Fits(who[k], label, [arg[k] EXCEPT !.sess = s])
      BY <1>0, <1>27 DEF Step, Fits, Labels, RequestSteps, Frames
    <2> QED BY <1>3, <1>27, <2>1, <2>2 DEF Step
  <1>28. CASE EvictFind(k)
    BY <1>1, <1>19, <1>27, <1>28 DEF EvictFind, RequestSteps
  <1>29. CASE RoleFind(k)
    BY <1>1, <1>19, <1>27, <1>29 DEF RoleFind, RequestSteps
  <1>30. CASE EvictClose(k)
    <2>1. who[k] \in Users
      BY <1>0, <1>30 DEF EvictClose, Fits
    <2>2. open' \in [Conns -> BOOLEAN]
      BY <1>30 DEF EvictClose, GoroutinesTypeOK
    <2> QED BY <1>30, <2>1, <2>2, FinishFits DEF EvictClose, GoroutinesTypeOK, timerVars, Kept
  <1>31. CASE JoinSet(k) \/ ChanStore(k) \/ TokStore(k) \/ RoleSet(k)
    BY <1>1, <1>19, <1>31 DEF JoinSet, ChanStore, TokStore, RoleSet, RequestSteps
  <1>32. CASE RequestStoreError(k)
    <2>1. who[k] \in Users
      BY <1>0, <1>32 DEF RequestStoreError, Fits
    <2> QED BY <1>1, <1>32, <2>1 DEF RequestStoreError
  <1> QED
    BY <1>5, <1>6, <1>7, <1>8, <1>9, <1>10, <1>11, <1>12, <1>13, <1>14, <1>15, <1>16,
       <1>17, <1>18, <1>20, <1>21, <1>22, <1>23, <1>24, <1>25, <1>26, <1>28, <1>29,
       <1>30, <1>31, <1>32 DEF Goroutine, Bye

\* Timers, the clock and stuttering leave the goroutines alone.
LEMMA ControlKept ==
  ASSUME GoroutinesTypeOK, LocalsSet, RoomsOK, SessionsTypeOK, StoreTypeOK, [Next]_vars
  PROVE  GoroutinesTypeOK' /\ LocalsSet'
PROOF
  <1> USE DEF goroutineVars, timerVars
  <1>1. ASSUME NEW c \in ChannelIDs, TimerWake(c)
        PROVE  GoroutinesTypeOK' /\ LocalsSet'
    <2>1. asleep' \in [ChannelIDs -> Nat] /\ deleting' \in [ChannelIDs -> Nat]
      BY <1>1 DEF TimerWake, GoroutinesTypeOK
    <2> QED BY <1>1, <2>1 DEF TimerWake, GoroutinesTypeOK, LocalsSet
  <1>2. ASSUME NEW c \in ChannelIDs, TimerDelete(c)
        PROVE  GoroutinesTypeOK' /\ LocalsSet'
    <2>1. deleting' \in [ChannelIDs -> Nat]
      BY <1>2 DEF TimerDelete, GoroutinesTypeOK
    <2> QED BY <1>2, <2>1 DEF TimerDelete, GoroutinesTypeOK, LocalsSet
  <1>3. ASSUME NEW u \in Users, RateExpires(u)
        PROVE  GoroutinesTypeOK' /\ LocalsSet'
    BY <1>3 DEF RateExpires, GoroutinesTypeOK, LocalsSet
  <1>4. CASE Clock
    BY <1>4 DEF Clock, GoroutinesTypeOK, LocalsSet
  <1>5. CASE Quiet \/ UNCHANGED vars
    BY <1>5 DEF Quiet, vars, GoroutinesTypeOK, LocalsSet
  <1> QED
    BY <1>1, <1>2, <1>3, <1>4, <1>5, ControlKeptByClient, ControlKeptByGoroutine DEF Next

-----------------------------------------------------------------------------
(* Ownership *)

\* The inductive invariant.  Leave and Join are typed only for a live session's
\* ID, sessions.Remove frees an ID only one goroutine holds, and connMap is exact
\* only while no two goroutines hold the same ID: none of the parts is inductive
\* without the others.
Owned == SessionsTypeOK /\ SessionsOwned /\ ConnsRegistered /\ MembersLive

IInv == RoomsOK /\ StoreTypeOK /\ GoroutinesTypeOK /\ LocalsSet /\ Owned

-----------------------------------------------------------------------------
(* Where a step leaves a goroutine *)

\* Live, registered and seated
Serving == {"respond", "loop", "bye_leave"} \cup RequestSteps

\* None of the three
Outside == {"idle", "auth"} \cup AuthSteps \cup {"bye_lookup", "bye_count", "closed"}

\* Goroutine k moves, if at all, among the labels of one of these sets
Stays(k) ==
  /\ \A j \in Conns \ {k} : pc'[j] = pc[j] /\ who'[j] = who[j]
  /\ \/ pc[k] \in Serving /\ pc'[k] \in Serving /\ who'[k] = who[k]
     \/ pc[k] \in Outside /\ pc'[k] \in Outside
     \/ pc'[k] = pc[k] /\ who'[k] = who[k]
  /\ UNCHANGED <<sid, connMap>>

\* Sessions keep their users, and no ID comes or goes
SameSessions ==
  /\ IsMap(sessions', SessionIDs, Sessions)
  /\ DOMAIN sessions' = DOMAIN sessions
  /\ \A s \in DOMAIN sessions : sessions'[s].user = sessions[s].user

\* Only a goroutine's own session takes a seat
SameSeats ==
  DOMAIN sessionToChannel'
    \subseteq DOMAIN sessionToChannel \cup {sid[k] : k \in {j \in Conns : Seated(j)}}

\* A step that moves no goroutine across these borders changes no ownership.
LEMMA StaysKeepsOwned ==
  ASSUME Owned, NEW k \in Conns, Stays(k), SameSessions, SameSeats
  PROVE  Owned'
PROOF
  <1>1. \A j \in Conns : (Live(j)' <=> Live(j)) /\ (Registered(j)' <=> Registered(j))
                         /\ (Seated(j)' <=> Seated(j))
    BY DEF Stays, Serving, Outside, Live, Registered, Seated, AuthSteps, RequestSteps,
       ByeSteps
  <1>2. \A j \in Conns : Live(j) => who'[j] = who[j]
    BY DEF Stays, Outside, Live, AuthSteps, RequestSteps, ByeSteps
  <1>3. sid' = sid /\ connMap' = connMap
    BY DEF Stays
  <1>4. SessionsTypeOK'
    BY <1>3 DEF Owned, SessionsTypeOK, SameSessions
  <1>5. SessionsOwned'
    BY <1>1, <1>2, <1>3 DEF Owned, SessionsOwned, SameSessions
  <1>6. ConnsRegistered'
    BY <1>1, <1>3 DEF Owned, ConnsRegistered, SessionsTypeOK, IsMap
  <1>7. MembersLive'
    BY <1>1, <1>3 DEF Owned, MembersLive, SameSeats
  <1> QED BY <1>4, <1>5, <1>6, <1>7 DEF Owned

\* The setters of the SessionManager change neither IDs nor users.
LEMMA SettersKeepSessions ==
  ASSUME SessionsTypeOK
  PROVE  /\ UNCHANGED sessions => SameSessions
         /\ \A id : \A c \in ChannelIDs \cup {NoChannel} : SetChannel(id, c) => SameSessions
         /\ \A id : \A r \in Roles : UpdateRole(id, r) => SameSessions
         /\ \A id : \A m, d \in BOOLEAN :
              UpdateUserState(id, m, d) => SameSessions
PROOF
  <1>1. ASSUME NEW id, NEW new, Update(id, new),
               id \in DOMAIN sessions => new \in Sessions /\ new.user = sessions[id].user
        PROVE  SameSessions
    BY <1>1 DEF Update, Put, SameSessions, SessionsTypeOK, IsMap
  <1>2. \A id \in DOMAIN sessions : sessions[id] \in Sessions
    BY DEF SessionsTypeOK, IsMap
  <1>3. UNCHANGED sessions => SameSessions
    BY DEF SameSessions, SessionsTypeOK
  <1>4. ASSUME NEW id, NEW c \in ChannelIDs \cup {NoChannel}, SetChannel(id, c)
        PROVE  SameSessions
    <2>1. id \in DOMAIN sessions =>
            /\ [sessions[id] EXCEPT !.channel = c] \in Sessions
            /\ [sessions[id] EXCEPT !.channel = c].user = sessions[id].user
      BY <1>2 DEF Sessions
    <2> QED BY <1>1, <1>4, <2>1 DEF SetChannel
  <1>5. ASSUME NEW id, NEW r \in Roles, UpdateRole(id, r)
        PROVE  SameSessions
    <2>1. id \in DOMAIN sessions =>
            /\ [sessions[id] EXCEPT !.role = r] \in Sessions
            /\ [sessions[id] EXCEPT !.role = r].user = sessions[id].user
      BY <1>2 DEF Sessions
    <2> QED BY <1>1, <1>5, <2>1 DEF UpdateRole
  <1>6. ASSUME NEW id, NEW m \in BOOLEAN, NEW d \in BOOLEAN, UpdateUserState(id, m, d)
        PROVE  SameSessions
    <2>1. id \in DOMAIN sessions =>
            /\ [sessions[id] EXCEPT !.muted = m, !.deafened = d] \in Sessions
            /\ [sessions[id] EXCEPT !.muted = m, !.deafened = d].user = sessions[id].user
      BY <1>2 DEF Sessions
    <2> QED BY <1>1, <1>6, <2>1 DEF UpdateUserState
  <1> QED BY <1>3, <1>4, <1>5, <1>6

\* Leave and a goroutine's own Join are all that happens to seats.
LEMMA SeatsKept ==
  /\ UNCHANGED roomVars => SameSeats
  /\ \A s : Leave(s) => SameSeats
  /\ \A k \in Conns : \A c : Seated(k) /\ Join(sid[k], c) => SameSeats
PROOF
  <1>1. UNCHANGED roomVars => SameSeats
    BY DEF roomVars, SameSeats
  <1>2. \A s : Leave(s) => SameSeats
    BY DEF Leave, Drop, SameSeats
  <1>3. \A k \in Conns : \A c : Seated(k) /\ Join(sid[k], c) => SameSeats
    BY DEF Join, Put, SameSeats
  <1> QED BY <1>1, <1>2, <1>3

\* No request and no message of a client changes who owns what.
LEMMA OwnedKeptByClient ==
  ASSUME Owned, GoroutinesTypeOK, NEW k \in Conns, Client(k)
  PROVE  Owned'
PROOF
  <1> USE SeatsKept
  <1>0. SessionsTypeOK
    BY DEF Owned
  <1>1. CASE Accept(k) \/ ClientClose(k)
    <2>1. Stays(k)
      BY <1>1 DEF Accept, ClientClose, Goto, GoroutinesTypeOK, Stays, Outside
    <2> QED BY <1>0, <1>1, <2>1, StaysKeepsOwned, SettersKeepSessions
            DEF Accept, ClientClose
  <1>2. ASSUME NEW u \in Users, NEW t \in Tokens \cup {NoToken}, AuthRequest(k, u, t)
        PROVE  Owned'
    <2>1. Stays(k)
      BY <1>2 DEF AuthRequest, Goto, GoroutinesTypeOK, Stays, Outside, AuthSteps
    <2> QED BY <1>0, <1>2, <2>1, StaysKeepsOwned, SettersKeepSessions DEF AuthRequest
  <1>3. ASSUME NEW kind, Request(k, kind), NEW label \in RequestSteps, Goto(k, label)
        PROVE  Stays(k)
    BY <1>3 DEF Request, Goto, GoroutinesTypeOK, Stays, Serving
  <1>4. ASSUME NEW c \in ChannelIDs, JoinRequest(k, c) \/ DeleteChannelRequest(k, c)
        PROVE  Owned'
    <2>1. Stays(k)
      BY <1>3, <1>4 DEF JoinRequest, DeleteChannelRequest, RequestSteps
    <2> QED BY <1>0, <1>4, <2>1, StaysKeepsOwned, SettersKeepSessions
            DEF JoinRequest, DeleteChannelRequest
  <1>5. CASE LeaveRequest(k)
    <2>1. Stays(k)
      BY <1>3, <1>5 DEF LeaveRequest, RequestSteps
    <2> QED BY <1>0, <1>5, <2>1, StaysKeepsOwned, SettersKeepSessions DEF LeaveRequest
  <1>6. ASSUME NEW m \in BOOLEAN, NEW d \in BOOLEAN, UserStateRequest(k, m, d)
        PROVE  Owned'
    <2>1. Stays(k)
      BY <1>6 DEF UserStateRequest, Request, Stays
    <2>2. UpdateUserState(sid[k], m, d) /\ SameSeats
      BY <1>6 DEF UserStateRequest
    <2>3. SameSessions
      BY <1>0, <2>2, SettersKeepSessions
    <2> QED BY <2>1, <2>2, <2>3, StaysKeepsOwned
  <1>7. ASSUME NEW ch \in ChannelSpecs, CreateChannelRequest(k, ch)
        PROVE  Owned'
    <2>1. Stays(k)
      BY <1>3, <1>7 DEF CreateChannelRequest, RequestSteps
    <2> QED BY <1>0, <1>7, <2>1, StaysKeepsOwned, SettersKeepSessions
            DEF CreateChannelRequest
  <1>8. ASSUME NEW r \in Roles, CreateTokenRequest(k, r)
        PROVE  Owned'
    <2>1. Stays(k)
      BY <1>3, <1>8 DEF CreateTokenRequest, RequestSteps
    <2> QED BY <1>0, <1>8, <2>1, StaysKeepsOwned, SettersKeepSessions
            DEF CreateTokenRequest
  <1>9. ASSUME NEW u \in DOMAIN users, KickRequest(k, u) \/ BanRequest(k, u)
        PROVE  Owned'
    <2>1. Stays(k)
      BY <1>3, <1>9 DEF KickRequest, BanRequest, RequestSteps
    <2> QED BY <1>0, <1>9, <2>1, StaysKeepsOwned, SettersKeepSessions
            DEF KickRequest, BanRequest
  <1>10. ASSUME NEW u \in DOMAIN users, NEW r \in Roles, SetUserRoleRequest(k, u, r)
         PROVE  Owned'
    <2>1. Stays(k)
      BY <1>3, <1>10 DEF SetUserRoleRequest, RequestSteps
    <2> QED BY <1>0, <1>10, <2>1, StaysKeepsOwned, SettersKeepSessions
            DEF SetUserRoleRequest
  <1> QED
    BY <1>1, <1>2, <1>4, <1>5, <1>6, <1>7, <1>8, <1>9, <1>10 DEF Client

-----------------------------------------------------------------------------
(* The five steps that cross a border *)

\* A fresh ID is nobody's: the newcomer is its only owner.
LEMMA OwnedKeptByNewSession ==
  ASSUME Owned, GoroutinesTypeOK, LocalsSet, NEW k \in Conns, NewSession(k)
  PROVE  Owned'
PROOF
  <1>1. PICK id \in FreeIDs : /\ Create(id, who[k], arg[k].role)
                              /\ sid' = [sid EXCEPT ![k] = id]
    BY DEF NewSession
  <1>2. id \in SessionIDs /\ id \notin DOMAIN sessions
    BY DEF FreeIDs
  <1>3. /\ pc[k] = "new_session" /\ pc' = [pc EXCEPT ![k] = "set_conn"]
        /\ UNCHANGED <<who, connMap, members, sessionToChannel>>
    BY DEF NewSession, Goto, roomVars
  <1>4. who[k] \in Users
    BY <1>3 DEF LocalsSet, Fits
  <1>5. ~Live(k) /\ ~Registered(k) /\ ~Seated(k)
    BY <1>3 DEF Live, Registered, Seated, RequestSteps, ByeSteps
  <1>6. Live(k)' /\ ~Registered(k)' /\ Seated(k)'
    BY <1>3 DEF Live, Registered, Seated, RequestSteps, ByeSteps, GoroutinesTypeOK
  <1>7. \A j \in Conns \ {k} : /\ Live(j)' <=> Live(j)
                               /\ Registered(j)' <=> Registered(j)
                               /\ Seated(j)' <=> Seated(j)
                               /\ sid'[j] = sid[j]
    BY <1>1, <1>3 DEF Live, Registered, Seated, GoroutinesTypeOK
  <1>8. sid'[k] = id
    BY <1>1 DEF GoroutinesTypeOK
  <1>9. /\ DOMAIN sessions' = DOMAIN sessions \cup {id}
        /\ sessions'[id].user = who[k]
        /\ \A s \in DOMAIN sessions : sessions'[s] = sessions[s]
    BY <1>1, <1>2 DEF Create, Put
  <1>10. SessionsTypeOK'
    <2>1. arg[k].role \in Roles
      BY DEF GoroutinesTypeOK, Frames
    <2>2. [user |-> who[k], role |-> arg[k].role, channel |-> NoChannel,
           udp |-> NoAddr, muted |-> FALSE, deafened |-> FALSE] \in Sessions
      BY <1>4, <2>1 DEF Sessions
    <2>3. IsMap(sessions', SessionIDs, Sessions)
      BY <1>1, <1>2, <2>2, PutIsMap DEF Create, Owned, SessionsTypeOK
    <2> QED BY <1>3, <2>3 DEF Owned, SessionsTypeOK
  <1>11. SessionsOwned'
    BY <1>2, <1>3, <1>5, <1>6, <1>7, <1>8, <1>9 DEF Owned, SessionsOwned
  <1>12. ConnsRegistered'
    BY <1>3, <1>5, <1>6, <1>7 DEF Owned, ConnsRegistered, SessionsTypeOK, IsMap
  <1>13. MembersLive'
    BY <1>3, <1>5, <1>6, <1>7 DEF Owned, MembersLive
  <1> QED BY <1>10, <1>11, <1>12, <1>13 DEF Owned

\* setConn takes the entry of the goroutine's own ID.
LEMMA OwnedKeptBySetConn ==
  ASSUME Owned, GoroutinesTypeOK, NEW k \in Conns, SetConn(k)
  PROVE  Owned'
PROOF
  <1>1. /\ pc[k] = "set_conn" /\ pc' = [pc EXCEPT ![k] = "respond"]
        /\ UNCHANGED <<who, sid, sessions, members, sessionToChannel>>
        /\ connMap' = Put(connMap, sid[k], k)
    BY DEF SetConn, Goto, roomVars
  <1>2. Live(k) /\ ~Registered(k) /\ Seated(k)
    BY <1>1 DEF Live, Registered, Seated, RequestSteps, ByeSteps
  <1>3. Live(k)' /\ Registered(k)' /\ Seated(k)'
    BY <1>1 DEF Live, Registered, Seated, RequestSteps, ByeSteps, GoroutinesTypeOK
  <1>4. \A j \in Conns \ {k} : /\ Live(j)' <=> Live(j)
                               /\ Registered(j)' <=> Registered(j)
                               /\ Seated(j)' <=> Seated(j)
    BY <1>1 DEF Live, Registered, Seated, GoroutinesTypeOK
  <1>5. sid[k] \in SessionIDs
    BY <1>2, LiveID DEF Owned
  <1>6. SessionsTypeOK'
    BY <1>1, <1>5, PutIsMap DEF Owned, SessionsTypeOK
  <1>7. SessionsOwned'
    BY <1>1, <1>2, <1>3, <1>4 DEF Owned, SessionsOwned
  <1>8. /\ DOMAIN connMap' = DOMAIN connMap \cup {sid[k]} /\ connMap'[sid[k]] = k
        /\ \A s \in DOMAIN connMap \ {sid[k]} : connMap'[s] = connMap[s]
    BY <1>1 DEF Put
  <1>9. \A j \in Conns \ {k} : Registered(j) => sid[j] # sid[k]
    BY <1>2 DEF Owned, SessionsOwned, Registered, Live, ByeSteps
  <1>10. ConnsRegistered'
    BY <1>1, <1>3, <1>4, <1>8, <1>9 DEF Owned, ConnsRegistered, SessionsTypeOK, IsMap
  <1>11. MembersLive'
    BY <1>1, <1>3, <1>4 DEF Owned, MembersLive
  <1> QED BY <1>6, <1>7, <1>10, <1>11 DEF Owned

\* channels.Leave at the end of a connection: no seat with that ID is left.
LEMMA OwnedKeptByByeLeave ==
  ASSUME Owned, GoroutinesTypeOK, NEW k \in Conns, ByeLeave(k)
  PROVE  Owned'
PROOF
  <1>1. /\ pc[k] = "bye_leave" /\ pc' = [pc EXCEPT ![k] = "bye_conn"]
        /\ UNCHANGED <<who, sid, sessions, connMap>>
        /\ sessionToChannel' = Drop(sessionToChannel, sid[k])
    BY DEF ByeLeave, Step, Goto, Leave
  <1>2. Live(k) /\ Registered(k) /\ Live(k)' /\ Registered(k)'
    BY <1>1 DEF Live, Registered, RequestSteps, ByeSteps, GoroutinesTypeOK
  <1>3. \A j \in Conns \ {k} : /\ Live(j)' <=> Live(j)
                               /\ Registered(j)' <=> Registered(j)
                               /\ Seated(j)' <=> Seated(j)
    BY <1>1 DEF Live, Registered, Seated, GoroutinesTypeOK
  <1>4. SessionsTypeOK' /\ SessionsOwned' /\ ConnsRegistered'
    BY <1>1, <1>2, <1>3 DEF Owned, SessionsTypeOK, SessionsOwned, ConnsRegistered, IsMap
  <1>5. DOMAIN sessionToChannel' = DOMAIN sessionToChannel \ {sid[k]}
    BY <1>1 DEF Drop
  <1>6. MembersLive'
    BY <1>1, <1>3, <1>5 DEF Owned, MembersLive
  <1> QED BY <1>4, <1>6 DEF Owned

\* removeConn comes while the ID is still the goroutine's own.
LEMMA OwnedKeptByByeConn ==
  ASSUME Owned, GoroutinesTypeOK, NEW k \in Conns, ByeConn(k)
  PROVE  Owned'
PROOF
  <1>1. /\ pc[k] = "bye_conn" /\ pc' = [pc EXCEPT ![k] = "bye_session"]
        /\ UNCHANGED <<who, sid, sessions, members, sessionToChannel>>
        /\ connMap' = Drop(connMap, sid[k])
    BY DEF ByeConn, Goto, roomVars
  <1>2. /\ Live(k) /\ Registered(k) /\ ~Seated(k)
        /\ Live(k)' /\ ~Registered(k)' /\ ~Seated(k)'
    BY <1>1 DEF Live, Registered, Seated, RequestSteps, ByeSteps, GoroutinesTypeOK
  <1>3. \A j \in Conns \ {k} : /\ Live(j)' <=> Live(j)
                               /\ Registered(j)' <=> Registered(j)
                               /\ Seated(j)' <=> Seated(j)
    BY <1>1 DEF Live, Registered, Seated, GoroutinesTypeOK
  <1>4. SessionsTypeOK'
    BY <1>1, DropIsMap DEF Owned, SessionsTypeOK
  <1>5. SessionsOwned'
    BY <1>1, <1>2, <1>3 DEF Owned, SessionsOwned
  <1>6. /\ DOMAIN connMap' = DOMAIN connMap \ {sid[k]}
        /\ \A s \in DOMAIN connMap \ {sid[k]} : connMap'[s] = connMap[s]
    BY <1>1 DEF Drop
  <1>7. \A j \in Conns \ {k} : Registered(j) => sid[j] # sid[k]
    BY <1>2 DEF Owned, SessionsOwned, Registered, Live, ByeSteps
  <1>8. ConnsRegistered'
    BY <1>1, <1>2, <1>3, <1>6, <1>7 DEF Owned, ConnsRegistered, SessionsTypeOK, IsMap
  <1>9. MembersLive'
    BY <1>1, <1>2, <1>3 DEF Owned, MembersLive
  <1> QED BY <1>4, <1>5, <1>8, <1>9 DEF Owned

\* sessions.Remove frees an ID that nobody else holds and no map mentions.
LEMMA OwnedKeptByByeSession ==
  ASSUME Owned, GoroutinesTypeOK, NEW k \in Conns, ByeSession(k)
  PROVE  Owned'
PROOF
  <1>1. /\ pc[k] = "bye_session"
        /\ \E l \in {"bye_lookup", "closed"} : pc' = [pc EXCEPT ![k] = l]
        /\ UNCHANGED <<who, sid, connMap, members, sessionToChannel>>
        /\ sessions' = Drop(sessions, sid[k])
    BY DEF ByeSession, Goto, Return, Remove, roomVars
  <1>2. /\ Live(k) /\ ~Registered(k) /\ ~Seated(k)
        /\ ~Live(k)' /\ ~Registered(k)' /\ ~Seated(k)'
    BY <1>1 DEF Live, Registered, Seated, RequestSteps, ByeSteps, GoroutinesTypeOK
  <1>3. \A j \in Conns \ {k} : /\ Live(j)' <=> Live(j)
                               /\ Registered(j)' <=> Registered(j)
                               /\ Seated(j)' <=> Seated(j)
    BY <1>1 DEF Live, Registered, Seated, GoroutinesTypeOK
  <1>4. SessionsTypeOK'
    BY <1>1, DropIsMap DEF Owned, SessionsTypeOK
  <1>5. /\ DOMAIN sessions' = DOMAIN sessions \ {sid[k]}
        /\ \A s \in DOMAIN sessions \ {sid[k]} : sessions'[s] = sessions[s]
    BY <1>1 DEF Drop
  <1>6. \A j \in Conns \ {k} : Live(j) => sid[j] # sid[k]
    BY <1>2 DEF Owned, SessionsOwned
  <1>7. SessionsOwned'
    BY <1>1, <1>2, <1>3, <1>5, <1>6 DEF Owned, SessionsOwned
  <1>8. ConnsRegistered'
    BY <1>1, <1>2, <1>3 DEF Owned, ConnsRegistered, SessionsTypeOK, IsMap
  <1>9. MembersLive'
    BY <1>1, <1>2, <1>3 DEF Owned, MembersLive
  <1> QED BY <1>4, <1>7, <1>8, <1>9 DEF Owned

-----------------------------------------------------------------------------
(* All steps *)

\* A later step of authentication or of a request crosses no border.
LEMMA StepStays ==
  ASSUME GoroutinesTypeOK, NEW k \in Conns, UNCHANGED <<who, sid, connMap>>,
         NEW l, Goto(k, l),
         (pc[k] \in Serving /\ l \in Serving) \/ (pc[k] \in Outside /\ l \in Outside)
  PROVE  Stays(k)
  BY DEF Goto, GoroutinesTypeOK, Stays

\* No step of a goroutine breaks ownership.
LEMMA OwnedKeptByGoroutine ==
  ASSUME Owned, GoroutinesTypeOK, LocalsSet, NEW k \in Conns, Goroutine(k)
  PROVE  Owned'
PROOF
  <1> USE SeatsKept
  <1>0. SessionsTypeOK
    BY DEF Owned
  <1>1. ASSUME Stays(k), SameSeats, UNCHANGED sessions
        PROVE  Owned'
    BY <1>0, <1>1, StaysKeepsOwned, SettersKeepSessions
  <1>2. /\ arg[k].ch \in ChannelIDs \cup {NoChannel}
        /\ arg[k].role \in Roles
    BY DEF GoroutinesTypeOK, Frames
  \* Outside
  <1>3. CASE AuthReject(k) \/ GetUser(k) \/ CreateNewUser(k) \/ AutoToken(k)
             \/ CheckBan(k) \/ AuthStoreError(k)
    <2>1. Stays(k)
      BY <1>3, StepStays DEF AuthReject, GetUser, CreateNewUser, AutoToken, CheckBan,
         AuthStoreError, Step, Return, Outside, AuthSteps
    <2> QED BY <1>1, <1>3, <2>1 DEF AuthReject, GetUser, CreateNewUser, AutoToken,
            CheckBan, AuthStoreError
  <1>4. CASE TempLookup(k)
    <2>1. Stays(k)
      BY <1>4, StepStays DEF TempLookup, TempDone, Return, Finish, Outside, Serving,
         RequestSteps
    <2> QED BY <1>1, <1>4, <2>1 DEF TempLookup
  <1>5. CASE TempCount(k)
    <2>1. Stays(k)
      BY <1>5, StepStays DEF TempCount, TempDone, Return, Finish, Outside, Serving,
         RequestSteps
    <2> QED BY <1>1, <1>5, <2>1 DEF TempCount
  \* Serving
  <1>6. CASE Respond(k) \/ ReadError(k) \/ JoinCount(k) \/ ChanRate(k) \/ ChanStore(k)
             \/ DelStore(k) \/ DelMembers(k)
    <2>1. Stays(k)
      BY <1>6, StepStays DEF Respond, ReadError, JoinCount, ChanRate, ChanStore, DelStore,
         DelMembers, Step, Finish, Serving, RequestSteps
    <2> QED BY <1>1, <1>6, <2>1 DEF Respond, ReadError, JoinCount, ChanRate, ChanStore,
            DelStore, DelMembers
  <1>7. CASE TokStore(k) \/ BanStore(k) \/ EvictFind(k) \/ EvictClose(k) \/ RoleStore(k)
             \/ RoleFind(k) \/ RequestStoreError(k)
    <2>1. Stays(k)
      BY <1>7, StepStays DEF TokStore, BanStore, EvictFind, EvictClose, RoleStore,
         RoleFind, RequestStoreError, Step, Finish, Serving, RequestSteps
    <2> QED BY <1>1, <1>7, <2>1 DEF TokStore, BanStore, EvictFind, EvictClose, RoleStore,
            RoleFind, RequestStoreError
  <1>8. CASE JoinMove(k) \/ DelLeave(k)
    <2>1. Stays(k)
      BY <1>8, StepStays DEF JoinMove, DelLeave, Step, Finish, Serving, RequestSteps
    <2>2. SameSeats /\ UNCHANGED sessions
      BY <1>8 DEF JoinMove, DelLeave, Step, Seated, RequestSteps
    <2> QED BY <1>1, <2>1, <2>2
  <1>9. CASE JoinSet(k) \/ LeaveSet(k) \/ DelSet(k) \/ RoleSet(k)
    <2>1. Stays(k)
      BY <1>9, StepStays DEF JoinSet, LeaveSet, DelSet, RoleSet, Step, Finish, Serving,
         RequestSteps
    <2>2. SameSessions
      BY <1>0, <1>2, <1>9, SettersKeepSessions DEF JoinSet, LeaveSet, DelSet, RoleSet
    <2>3. SameSeats
      BY <1>9 DEF JoinSet, LeaveSet, DelSet, RoleSet
    <2> QED BY <2>1, <2>2, <2>3, StaysKeepsOwned
  <1> QED
    BY <1>3, <1>4, <1>5, <1>6, <1>7, <1>8, <1>9, OwnedKeptByNewSession,
       OwnedKeptBySetConn, OwnedKeptByByeLeave, OwnedKeptByByeConn,
       OwnedKeptByByeSession DEF Goroutine, Bye

\* Nothing else touches sessions, connMap, seats or the goroutines.
LEMMA OwnedUntouched ==
  ASSUME Owned, UNCHANGED <<pc, sid, who, connMap, sessions, roomVars>>
  PROVE  Owned'
  BY DEF Owned, SessionsTypeOK, SessionsOwned, ConnsRegistered, MembersLive, Live,
     Registered, Seated, roomVars

\* Every step keeps the inductive invariant.
LEMMA IInvKept == IInv /\ [Next]_vars => IInv'
PROOF
  <1> SUFFICES ASSUME IInv, [Next]_vars
               PROVE  IInv'
    OBVIOUS
  <1> USE DEF IInv
  <1>1. SessionsTypeOK /\ SessionsOwned
    BY DEF Owned
  <1>2. RoomsOK' /\ StoreTypeOK' /\ GoroutinesTypeOK' /\ LocalsSet'
    BY <1>1, RoomsKept, StoreKept, ControlKept
  <1>3. ASSUME Clock \/ Quiet \/ UNCHANGED vars
        PROVE  Owned'
    BY <1>3, OwnedUntouched DEF Clock, Quiet, vars, goroutineVars, roomVars
  <1>4. ASSUME NEW c \in ChannelIDs, TimerWake(c) \/ TimerDelete(c)
        PROVE  Owned'
    BY <1>4, OwnedUntouched DEF TimerWake, TimerDelete, goroutineVars
  <1>5. ASSUME NEW u \in Users, RateExpires(u)
        PROVE  Owned'
    BY <1>5, OwnedUntouched DEF RateExpires, goroutineVars
  <1>6. Owned'
    BY <1>3, <1>4, <1>5, OwnedKeptByClient, OwnedKeptByGoroutine DEF Next
  <1> QED BY <1>2, <1>6

\* It holds when the server starts.
LEMMA IInvInit == Init => IInv
PROOF
  <1> SUFFICES ASSUME Init
               PROVE  IInv
    OBVIOUS
  <1> USE DEF Init
  <1>1. RoomsOK
    BY DEF NewChannelManager, RoomsOK, RoomsTypeOK, IndexAgree, IsMap, Members
  <1>2. StoreTypeOK
    BY ServerAssumption DEF StoreTypeOK
  <1>3. GoroutinesTypeOK
    BY BlankIsFrame, ServerAssumption DEF GoroutinesTypeOK, Labels
  <1>4. LocalsSet
    BY DEF LocalsSet, Fits
  <1>5. \A k \in Conns : ~Live(k) /\ ~Registered(k) /\ ~Seated(k)
    BY DEF Live, Registered, Seated, RequestSteps, ByeSteps
  <1>6. Owned
    BY <1>5 DEF Owned, SessionsTypeOK, SessionsOwned, ConnsRegistered, MembersLive,
       NewSessionManager, NewChannelManager, IsMap
  <1> QED BY <1>1, <1>2, <1>3, <1>4, <1>6 DEF IInv

\* The inductive invariant holds in every reachable state: initial, and kept by each
\* step of a client, a goroutine, a timer or the clock.
THEOREM Invariance == Spec => []IInv
  BY IInvInit, IInvKept, PTL DEF Spec

-----------------------------------------------------------------------------
(* What follows for every number of connections, sessions and requests *)

\* The control plane never leaves its types: no handler reads a local it has not
\* set, and no map of the server holds a key or a value of the wrong kind.
THEOREM TypeCorrect == Spec => []ServerTypeOK
PROOF
  <1>1. IInv => ServerTypeOK
    BY DEF IInv, RoomsOK, Owned, ServerTypeOK
  <1> QED BY <1>1, Invariance, PTL

\* The two indexes of the ChannelManager agree under every handler and every
\* disconnect, not only under calls of Join and Leave on their own.
THEOREM RoomsAgree == Spec => []IndexAgree
PROOF
  <1>1. IInv => IndexAgree
    BY DEF IInv, RoomsOK
  <1> QED BY <1>1, Invariance, PTL

\* Sessions and the goroutines of handleControlConn that will remove them are in
\* one-to-one correspondence.
THEOREM SessionsHaveOwners == Spec => []SessionsOwned
PROOF
  <1>1. IInv => SessionsOwned
    BY DEF IInv, Owned
  <1> QED BY <1>1, Invariance, PTL

\* The order of the deferred cleanup keeps connMap exact although IDs are reused.
THEOREM ConnMapExact == Spec => []ConnsRegistered
PROOF
  <1>1. IInv => ConnsRegistered
    BY DEF IInv, Owned
  <1> QED BY <1>1, Invariance, PTL

\* No disconnect leaves a member behind in a channel.
THEOREM NoGhostMembers == Spec => []MembersLive
PROOF
  <1>1. IInv => MembersLive
    BY DEF IInv, Owned
  <1> QED BY <1>1, Invariance, PTL

(***************************************************************************)
(* The whole control plane implements Membership: whatever requests,       *)
(* disconnects and deletions do at once, every session is in one channel   *)
(* at most, and a step takes one session from where it is to one channel   *)
(* or to none.  The handlers get at the rooms by Join and Leave only, with *)
(* IDs of sessions (the manager checks neither) and of channels.           *)
(***************************************************************************)
THEOREM ServerImplementsMembership == Spec => ImplementsMembership
PROOF
  <1>1. Init => NewChannelManager
    BY DEF Init
  <1>2. IInv /\ [Next]_vars => [CMNext]_roomVars
    BY RoomsCalled DEF IInv, Owned
  <1>3. Spec => CMSpec
    BY <1>1, <1>2, Invariance, PTL DEF Spec, CMSpec
  <1> QED BY <1>3, ManagerImplementsMembership
=============================================================================
