------------------------------- MODULE Model --------------------------------
(***************************************************************************)
(* pkg/model and pkg/rbac: the identifiers, the role order, the permission *)
(* matrix and the channel record that every part of the server shares.     *)
(***************************************************************************)
EXTENDS Integers, FiniteSets

CONSTANTS
  Users,          \* usernames (UNIQUE, never deleted: a name and a user ID agree)
  SessionIDs,     \* the non-zero uint32 values the server may draw
  MaxChannelID,   \* bound on the autoincremented channel IDs
  NoUser,         \* not a username
  NoSession       \* session ID 0

ASSUME ModelAssumption ==
  /\ MaxChannelID \in Nat
  /\ NoUser \notin Users
  /\ NoSession \notin SessionIDs

ChannelIDs == 1 .. MaxChannelID
NoChannel  == 0

RoleUser      == 0
RoleModerator == 1
RoleAdmin     == 2
Roles         == {RoleUser, RoleModerator, RoleAdmin}

permissionMatrix ==
  [r \in Roles |->
     CASE r = RoleAdmin     -> {"create_channel", "delete_channel", "kick_user",
                                "ban_user", "manage_tokens", "edit_channel",
                                "manage_roles"}
       [] r = RoleModerator -> {"kick_user"}
       [] r = RoleUser      -> {}]

HasPermission(role, perm) == perm \in permissionMatrix[role]

\* Name and description are opaque to the server: they select no behaviour.
Channels ==
  [maxUsers : Nat, parent : ChannelIDs \cup {NoChannel},
   isTemp : BOOLEAN, allowSub : BOOLEAN]

MaxChannelUsers == 256

\* Channel.Validate, of the fields that are kept here
Validate(ch) == ch.maxUsers <= MaxChannelUsers

\* NewChannel(): the Lobby, without limit, permanent, at the root
Lobby == [maxUsers |-> 0, parent |-> NoChannel, isTemp |-> FALSE, allowSub |-> FALSE]
=============================================================================
