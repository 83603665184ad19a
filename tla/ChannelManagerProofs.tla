------------------------ MODULE ChannelManagerProofs ------------------------
(***************************************************************************)
(* The ChannelManager for any number of sessions and channels: its two     *)
(* maps agree, and it implements Membership.                               *)
(***************************************************************************)
EXTENDS ChannelManager, TLAPS

\* 0 is no channel: Go's zero value cannot be taken for one.
LEMMA ZeroIsNoChannel == NoChannel \notin ChannelIDs
  BY DEF NoChannel, ChannelIDs

\* Storing and deleting a key keep the type of a map.
LEMMA PutIsMap ==
  ASSUME NEW K, NEW V, NEW f, IsMap(f, K, V), NEW k \in K, NEW v \in V
  PROVE  IsMap(Put(f, k, v), K, V)
  BY DEF IsMap, Put

LEMMA DropIsMap ==
  ASSUME NEW K, NEW V, NEW f, IsMap(f, K, V), NEW k
  PROVE  IsMap(Drop(f, k), K, V)
  BY DEF IsMap, Drop

RoomsOK == RoomsTypeOK /\ IndexAgree

\* Taking s out of the index leaves every other session where it is and s nowhere.
LEMMA WithoutFacts ==
  ASSUME RoomsOK, NEW s \in SessionIDs
  PROVE  /\ IsMap(Without(s), ChannelIDs, SUBSET SessionIDs)
         /\ \A c \in DOMAIN Without(s) : Without(s)[c] # {}
         /\ \A c \in ChannelIDs :
              (IF c \in DOMAIN Without(s) THEN Without(s)[c] ELSE {}) = Members(c) \ {s}
PROOF
  <1> DEFINE cur == ChannelOf(s)
  <1>1. \A c \in ChannelIDs : c # cur => s \notin Members(c)
    BY DEF RoomsOK, IndexAgree, ChannelOf
  <1>2. \A c \in DOMAIN members : c \in ChannelIDs /\ members[c] \in SUBSET SessionIDs
    BY DEF RoomsOK, RoomsTypeOK, IsMap
  <1>3. IsMap(members, ChannelIDs, SUBSET SessionIDs) /\ \A c \in DOMAIN members : members[c] # {}
    BY DEF RoomsOK, RoomsTypeOK, IndexAgree
  <1>4. CASE Members(cur) \subseteq {s}
    <2>1. Without(s) = Drop(members, cur)
      BY <1>4 DEF Without
    <2>2. IsMap(Without(s), ChannelIDs, SUBSET SessionIDs)
      BY <1>3, <2>1, DropIsMap
    <2>3. /\ DOMAIN Without(s) = DOMAIN members \ {cur}
          /\ \A c \in DOMAIN members \ {cur} : Without(s)[c] = members[c]
      BY <2>1 DEF Drop
    <2>4. ASSUME NEW c \in ChannelIDs
          PROVE  (IF c \in DOMAIN Without(s) THEN Without(s)[c] ELSE {}) = Members(c) \ {s}
      BY <1>1, <1>4, <2>3 DEF Members
    <2> QED BY <1>3, <2>2, <2>3, <2>4
  <1>5. CASE ~(Members(cur) \subseteq {s})
    <2>1. Without(s) = Put(members, cur, members[cur] \ {s}) /\ cur \in DOMAIN members
      BY <1>5 DEF Without, Members
    <2>2. IsMap(Without(s), ChannelIDs, SUBSET SessionIDs)
      BY <1>2, <1>3, <2>1, PutIsMap
    <2>3. /\ DOMAIN Without(s) = DOMAIN members
          /\ Without(s)[cur] = members[cur] \ {s}
          /\ \A c \in DOMAIN members \ {cur} : Without(s)[c] = members[c]
      BY <2>1 DEF Put
    <2>4. ASSUME NEW c \in ChannelIDs
          PROVE  (IF c \in DOMAIN Without(s) THEN Without(s)[c] ELSE {}) = Members(c) \ {s}
      BY <1>1, <2>1, <2>3 DEF Members
    <2>5. \A c \in DOMAIN Without(s) : Without(s)[c] # {}
      BY <1>3, <1>5, <2>1, <2>3 DEF Members
    <2> QED BY <2>2, <2>4, <2>5
  <1> QED BY <1>4, <1>5

\* A channel nobody is in has no entry to begin with.
LEMMA NotSeated ==
  ASSUME RoomsOK, NEW s \in SessionIDs, s \notin DOMAIN sessionToChannel
  PROVE  \A c \in ChannelIDs : s \notin Members(c)
  BY DEF RoomsOK, IndexAgree

\* Join keeps the two maps in agreement.
LEMMA JoinKeepsRooms ==
  ASSUME RoomsOK, NEW s \in SessionIDs, NEW c \in ChannelIDs, Join(s, c)
  PROVE  /\ RoomsOK'
         /\ DOMAIN sessionToChannel' = DOMAIN sessionToChannel \cup {s}
         /\ \A x \in SessionIDs :
              ChannelOf(x)' = IF x = s THEN c ELSE ChannelOf(x)
PROOF
  <1> DEFINE rest == Without(s)
             room == (IF c \in DOMAIN rest THEN rest[c] ELSE {}) \cup {s}
  <1>1. members' = Put(rest, c, room) /\ sessionToChannel' = Put(sessionToChannel, s, c)
    BY DEF Join
  <1>2. /\ IsMap(rest, ChannelIDs, SUBSET SessionIDs)
        /\ \A d \in DOMAIN rest : rest[d] # {}
        /\ \A d \in ChannelIDs :
             (IF d \in DOMAIN rest THEN rest[d] ELSE {}) = Members(d) \ {s}
    BY WithoutFacts
  <1>3. room = Members(c) \cup {s} /\ room \in SUBSET SessionIDs
    BY <1>2 DEF IsMap
  <1> HIDE DEF rest, room
  <1>4. RoomsTypeOK'
    BY <1>1, <1>2, <1>3, PutIsMap DEF RoomsOK, RoomsTypeOK
  <1>5. /\ DOMAIN sessionToChannel' = DOMAIN sessionToChannel \cup {s}
        /\ sessionToChannel'[s] = c
        /\ \A x \in DOMAIN sessionToChannel \ {s} :
             sessionToChannel'[x] = sessionToChannel[x]
    BY <1>1 DEF Put
  <1>6. /\ DOMAIN members' = DOMAIN rest \cup {c}
        /\ members'[c] = room
        /\ \A d \in DOMAIN rest \ {c} : members'[d] = rest[d]
    BY <1>1 DEF Put
  <1>7. \A d \in ChannelIDs :
          Members(d)' = IF d = c THEN Members(c) \cup {s} ELSE Members(d) \ {s}
    BY <1>2, <1>3, <1>6 DEF Members
  <1>8. \A d \in DOMAIN members' : members'[d] # {}
    BY <1>2, <1>3, <1>6
  <1>9. IndexAgree'
    BY <1>5, <1>7, <1>8 DEF RoomsOK, IndexAgree
  <1>10. \A x \in SessionIDs : ChannelOf(x)' = IF x = s THEN c ELSE ChannelOf(x)
    BY <1>5 DEF ChannelOf
  <1> QED BY <1>4, <1>5, <1>9, <1>10 DEF RoomsOK

\* So does Leave.
LEMMA LeaveKeepsRooms ==
  ASSUME RoomsOK, NEW s \in SessionIDs, Leave(s)
  PROVE  /\ RoomsOK'
         /\ DOMAIN sessionToChannel' = DOMAIN sessionToChannel \ {s}
         /\ \A x \in SessionIDs :
              ChannelOf(x)' = IF x = s THEN NoChannel ELSE ChannelOf(x)
PROOF
  <1>1. /\ DOMAIN sessionToChannel' = DOMAIN sessionToChannel \ {s}
        /\ \A x \in DOMAIN sessionToChannel \ {s} :
             sessionToChannel'[x] = sessionToChannel[x]
    BY DEF Leave, Drop
  <1>2. \A x \in SessionIDs :
          ChannelOf(x)' = IF x = s THEN NoChannel ELSE ChannelOf(x)
    BY <1>1 DEF ChannelOf
  <1>3. IsMap(sessionToChannel', SessionIDs, ChannelIDs)
    BY DropIsMap DEF Leave, RoomsOK, RoomsTypeOK
  <1>4. /\ IsMap(members', ChannelIDs, SUBSET SessionIDs)
        /\ \A d \in DOMAIN members' : members'[d] # {}
        /\ \A d \in ChannelIDs : Members(d)' = Members(d) \ {s}
    <2>1. CASE s \in DOMAIN sessionToChannel
      <3>1. members' = Without(s)
        BY <2>1 DEF Leave
      <3> QED BY <3>1, WithoutFacts DEF Members
    <2>2. CASE s \notin DOMAIN sessionToChannel
      <3>1. members' = members
        BY <2>2 DEF Leave
      <3> QED BY <2>2, <3>1, NotSeated DEF Members, RoomsOK, RoomsTypeOK, IndexAgree
    <2> QED BY <2>1, <2>2
  <1>5. IndexAgree'
    BY <1>1, <1>4 DEF RoomsOK, IndexAgree
  <1> QED BY <1>1, <1>2, <1>3, <1>4, <1>5 DEF RoomsOK, RoomsTypeOK

\* So does every call of the two.
LEMMA CallsKeepRooms ==
  ASSUME RoomsOK, [CMNext]_roomVars
  PROVE  RoomsOK'
PROOF
  <1>1. CASE CMNext
    BY <1>1, JoinKeepsRooms, LeaveKeepsRooms DEF CMNext
  <1>2. CASE UNCHANGED roomVars
    BY <1>2 DEF roomVars, RoomsOK, RoomsTypeOK, IndexAgree, Members
  <1> QED BY <1>1, <1>2

-----------------------------------------------------------------------------
(***************************************************************************)
(* For any number of sessions and channels, the relay's view of who is in  *)
(* a channel (Members) and the voice path's check (ChannelOf) agree in     *)
(* every reachable state of the manager.                                   *)
(***************************************************************************)
THEOREM IndexesAgree == CMSpec => [](RoomsTypeOK /\ IndexAgree)
PROOF
  <1>1. NewChannelManager => RoomsOK
    BY DEF NewChannelManager, RoomsOK, RoomsTypeOK, IndexAgree, IsMap, Members
  <1>2. RoomsOK /\ [CMNext]_roomVars => RoomsOK'
    BY CallsKeepRooms
  <1> QED BY <1>1, <1>2, PTL DEF CMSpec, RoomsOK

\* Read through the index by channel or by session, a seat is the same.
LEMMA SeatRead ==
  ASSUME RoomsOK, NEW s \in SessionIDs
  PROVE  Seat(s) = ChannelOf(s)
PROOF
  <1> DEFINE cs == {c \in DOMAIN members : s \in members[c]}
  <1> USE DEF Seat
  <1>1. DOMAIN members \subseteq ChannelIDs
    BY DEF RoomsOK, RoomsTypeOK, IsMap
  <1>2. \A c \in ChannelIDs :
          c \in cs <=> s \in DOMAIN sessionToChannel /\ sessionToChannel[s] = c
    BY <1>1 DEF RoomsOK, IndexAgree, Members
  <1>3. CASE s \in DOMAIN sessionToChannel
    <2>1. sessionToChannel[s] \in ChannelIDs
      BY <1>3 DEF RoomsOK, RoomsTypeOK, IsMap
    <2>2. cs = {sessionToChannel[s]}
      BY <1>1, <1>2, <1>3, <2>1
    <2> QED BY <1>3, <2>2 DEF ChannelOf
  <1>4. CASE s \notin DOMAIN sessionToChannel
    <2>1. cs = {}
      BY <1>1, <1>2, <1>4
    <2> QED BY <1>4, <2>1 DEF ChannelOf
  <1> QED BY <1>3, <1>4

(***************************************************************************)
(* The ChannelManager implements Membership: a Join moves its session and  *)
(* no other, a Leave takes out its session and no other, whatever the      *)
(* bookkeeping of the two maps does on the way.                            *)
(***************************************************************************)
THEOREM ManagerImplementsMembership == CMSpec => ImplementsMembership
PROOF
  <1> DEFINE Seats == [s \in SessionIDs |-> Seat(s)]
             Same == Seats = [s \in SessionIDs |-> ChannelOf(s)]
  <1>1. NewChannelManager => Promise!Init
    BY DEF NewChannelManager, Promise!Init, NoChannel, Promise!NoChannel, Seat
  <1>2. RoomsOK => Same
    BY SeatRead
  <1>3. RoomsOK' => Same'
    BY <1>2, PTL
  <1>4. RoomsOK /\ RoomsOK' /\ [CMNext]_roomVars => [Promise!Next]_Seats
    <2> SUFFICES ASSUME RoomsOK, RoomsOK', [CMNext]_roomVars
                 PROVE  [Promise!Next]_Seats
      OBVIOUS
    <2>1. Same /\ Same'
      BY <1>2, <1>3
    <2>2. Promise!ChannelIDs = ChannelIDs /\ Promise!NoChannel = NoChannel
      BY DEF Promise!ChannelIDs, ChannelIDs, Promise!NoChannel, NoChannel
    <2>3. ASSUME NEW s \in SessionIDs, NEW c \in ChannelIDs \cup {NoChannel},
                 \A x \in SessionIDs : ChannelOf(x)' = IF x = s THEN c ELSE ChannelOf(x)
          PROVE  Promise!Next
      <3> HIDE DEF Seats
      <3>1. Seats' = [Seats EXCEPT ![s] = c]
        BY <2>1, <2>3
      <3> USE DEF Seats
      <3>2. Promise!Move(s, c)
        BY <3>1 DEF Promise!Move
      <3> QED BY <2>2, <3>2 DEF Promise!Next
    <2>4. ASSUME NEW s \in SessionIDs, NEW c \in ChannelIDs, Join(s, c)
          PROVE  Promise!Next
      BY <2>3, <2>4, JoinKeepsRooms
    <2>5. ASSUME NEW s \in SessionIDs, Leave(s)
          PROVE  Promise!Next
      BY <2>3, <2>5, LeaveKeepsRooms
    <2>6. CASE UNCHANGED roomVars
      BY <2>6 DEF roomVars, Seat
    <2> QED BY <2>4, <2>5, <2>6 DEF CMNext
  <1>5. CMSpec => []RoomsOK
    BY IndexesAgree, PTL DEF RoomsOK
  <1> QED BY <1>1, <1>4, <1>5, PTL DEF CMSpec, ImplementsMembership, Promise!Spec
=============================================================================
