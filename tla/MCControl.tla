----------------------------- MODULE MCControl ------------------------------
(***************************************************************************)
(* Small stores for TLC: alice administers, bob is an ordinary user;       *)
(* channel 1 is where the runs start.                                     *)
(***************************************************************************)
EXTENDS ControlProperties, TLC

\* Which connection or session ID it is makes no difference
ConnSymmetry == Permutations(Conns) \cup Permutations(SessionIDs)

CONSTANTS alice, bob, t1, t2

AliceAdmin == alice :> RoleAdmin
AliceLeads == alice :> RoleAdmin @@ bob :> RoleUser

NoTokens   == <<>>
OneUse     == t1 :> NewToken(RoleModerator, 1, TRUE)

Root == [Lobby EXCEPT !.allowSub = TRUE]
Temp == [Lobby EXCEPT !.parent = 1, !.isTemp = TRUE, !.maxUsers = 1]

OneLobby == <<Lobby>>
WithTemp == <<Root, Temp>>

NewTempOrLobby == {Temp, Lobby, [Temp EXCEPT !.maxUsers = MaxChannelUsers + 1]}
=============================================================================
