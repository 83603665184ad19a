------------------------------- MODULE Store --------------------------------
(***************************************************************************)
(* pkg/store: the DataStore both back ends implement (the in-memory maps   *)
(* of memory.go under one lock, the SQLite tables of store.go with one     *)
(* statement or one transaction per method).  Each method is one step; a   *)
(* failing method changes nothing.                                         *)
(***************************************************************************)
EXTENDS Model, Maps

CONSTANTS Tokens,     \* the raw tokens crypto.GenerateToken may produce
          NoToken     \* the empty token of a token-less join

ASSUME StoreAssumption == NoToken \notin Tokens

VARIABLES
  users,           \* username -> stored role
  bans,            \* ban rows in force
  tokens,          \* issued token -> [role, maxUses, useCount, timed, expired]
  channels,        \* channel ID -> channel
  nextChannelID    \* AUTOINCREMENT: an ID is never given out twice

storeVars == <<users, bans, tokens, channels, nextChannelID>>

TokenRows == [role : Roles, maxUses : Nat, useCount : Nat, timed : BOOLEAN,
              expired : BOOLEAN]
BanRows == [user : Users, timed : BOOLEAN]

NewToken(r, n, timed) ==
  [role |-> r, maxUses |-> n, useCount |-> 0, timed |-> timed, expired |-> FALSE]

StoreTypeOK ==
  /\ IsMap(users, Users, Roles)
  /\ bans \subseteq BanRows
  /\ IsMap(tokens, Tokens, TokenRows)
  /\ IsMap(channels, ChannelIDs, Channels)
  /\ nextChannelID \in Nat \ {0}

-----------------------------------------------------------------------------
(* Users *)

CreateUser(u, r) ==
  /\ users' = Put(users, u, r)
  /\ UNCHANGED <<bans, tokens, channels, nextChannelID>>

\* No row matches an unknown user: nothing is updated
UpdateUserRole(u, r) ==
  /\ users' = IF u \in DOMAIN users THEN Put(users, u, r) ELSE users
  /\ UNCHANGED <<bans, tokens, channels, nextChannelID>>

-----------------------------------------------------------------------------
(* Channels *)

\* An ID chosen as SQLite chooses rowids without AUTOINCREMENT: one above the
\* largest in use.
CreateChannelReusingID(ch) ==
  /\ LET c == IF channels = <<>> THEN 1
              ELSE 1 + CHOOSE m \in DOMAIN channels : \A x \in DOMAIN channels : x <= m
     IN channels' = Put(channels, c, ch)
  /\ UNCHANGED <<users, bans, tokens, nextChannelID>>

CreateChannel(ch) ==
  /\ channels' = Put(channels, nextChannelID, ch)
  /\ nextChannelID' = nextChannelID + 1
  /\ UNCHANGED <<users, bans, tokens>>

\* Sub-channels keep their parent_id: nothing cascades
DeleteChannel(c) ==
  /\ channels' = Drop(channels, c)
  /\ UNCHANGED <<users, bans, tokens, nextChannelID>>

-----------------------------------------------------------------------------
(* Tokens *)

CreateToken(t, row) ==
  /\ tokens' = Put(tokens, t, row)
  /\ UNCHANGED <<users, bans, channels, nextChannelID>>

\* A use count checked with > instead of >=.
ValidAllowingOneMore(t) ==
  /\ t \in DOMAIN tokens
  /\ ~tokens[t].expired
  /\ tokens[t].maxUses > 0 => tokens[t].useCount <= tokens[t].maxUses

\* The checks of ValidateToken: maxUses 0 is unlimited
Valid(t) ==
  /\ t \in DOMAIN tokens
  /\ ~tokens[t].expired
  /\ tokens[t].maxUses > 0 => tokens[t].useCount < tokens[t].maxUses

\* Check and increment are one transaction
ValidateToken(t) ==
  /\ Valid(t)
  /\ tokens' = [tokens EXCEPT ![t].useCount = @ + 1]
  /\ UNCHANGED <<users, bans, channels, nextChannelID>>

\* The clock passes expires_at
TokenExpires(t) ==
  /\ t \in DOMAIN tokens
  /\ tokens[t].timed
  /\ ~tokens[t].expired
  /\ tokens' = [tokens EXCEPT ![t].expired = TRUE]
  /\ UNCHANGED <<users, bans, channels, nextChannelID>>

-----------------------------------------------------------------------------
(* Bans *)

\* Rows that differ only in their end are one row that ends with the last
CreateBan(u, timed) ==
  /\ bans' = bans \cup {[user |-> u, timed |-> timed]}
  /\ UNCHANGED <<users, tokens, channels, nextChannelID>>

IsUserBanned(u) == \E b \in bans : b.user = u

\* The clock passes expires_at: the row stays and counts no more
BanExpires(u) ==
  /\ [user |-> u, timed |-> TRUE] \in bans
  /\ bans' = bans \ {[user |-> u, timed |-> TRUE]}
  /\ UNCHANGED <<users, tokens, channels, nextChannelID>>
=============================================================================
