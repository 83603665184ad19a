----------------------------- MODULE Membership -----------------------------
(***************************************************************************)
(* What the ChannelManager of pkg/server/channels.go promises its callers: *)
(* every session is in at most one channel, a join moves that session and  *)
(* no other, a leave takes it out.                                         *)
(***************************************************************************)
EXTENDS Model

VARIABLE chanOf    \* session ID -> its channel, NoChannel when in none

Init == chanOf = [s \in SessionIDs |-> NoChannel]

Move(s, c) == chanOf' = [chanOf EXCEPT ![s] = c]

Next == \E s \in SessionIDs, c \in ChannelIDs \cup {NoChannel} : Move(s, c)

Spec == Init /\ [][Next]_chanOf
=============================================================================
