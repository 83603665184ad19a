---------------------------- MODULE VoiceProofs -----------------------------
(***************************************************************************)
(* Theorems about VoiceRelay for any number of sessions, channels and      *)
(* addresses: who is sent a voice packet, and whose address a session has. *)
(***************************************************************************)
EXTENDS VoiceRelay, ChannelManagerProofs

LoopPoints == {"read", "learn", "check", "list", "send", "done"}

VoiceTypeOK ==
  /\ RoomsOK
  /\ IsMap(sessions, SessionIDs, Sessions)
  /\ rpc \in LoopPoints /\ rmuted \in BOOLEAN
  /\ pkt \in Packets \cup {NoPacket}
  /\ rpc # "read" => pkt \in Packets
  /\ todo \subseteq SessionIDs

\* While the loop is about to store an address, the session has none: only the
\* loop stores addresses, and a session that took the ID over starts without.
Fresh ==
  rpc = "learn" /\ pkt.sid \in DOMAIN sessions => sessions[pkt.sid].udp = NoAddr

\* Who could hear the sender all the time can hear it now.
SteadyHear == \A m \in steady : m \in SessionIDs /\ Hears(m, pkt)

\* Whoever was sent the packet or may still be is of its audience.  A member of
\* the list whose ID was drawn again is not, but has no address.
Listed ==
  /\ got \subseteq audience
  /\ \A m \in todo : m \in DOMAIN sessions /\ sessions[m].udp # NoAddr => m \in audience
  /\ pkt.sid \notin got \cup todo
  /\ got # {} \/ todo # {} \/ rpc = "list" => aired

\* Nobody who could hear the sender all the time has been forgotten.
Pending ==
  /\ rpc # "send" => todo = {}
  /\ rpc \in {"read", "learn", "check", "list"} => got = {}
  /\ rpc = "learn" /\ rmuted => steady = {}
  /\ rpc \in {"send", "done"} => steady \subseteq got \cup todo

VInv == VoiceTypeOK /\ Fresh /\ SteadyHear /\ Listed /\ Pending

-----------------------------------------------------------------------------
\* A step of the handlers moves no address and gives none to a new session.
AddressesKept ==
  \A m \in DOMAIN sessions' :
    \/ m \in DOMAIN sessions /\ sessions'[m].udp = sessions[m].udp
    \/ m \notin DOMAIN sessions /\ sessions'[m].udp = NoAddr

\* Whatever the handlers do to rooms and sessions, the loop's invariant stands.
LEMMA HandlersKeep ==
  ASSUME VInv, UNCHANGED loopVars, Observe({}),
         RoomsOK', IsMap(sessions, SessionIDs, Sessions)', AddressesKept
  PROVE  VInv'
PROOF
  <1>1. rpc' = rpc /\ pkt' = pkt /\ rmuted' = rmuted /\ todo' = todo
    BY DEF loopVars
  <1>2. VoiceTypeOK'
    BY <1>1 DEF VInv, VoiceTypeOK
  <1>3. Fresh'
    BY <1>1 DEF VInv, Fresh, AddressesKept
  <1>4. /\ got' = got \cap DOMAIN sessions'
        /\ audience \cap DOMAIN sessions' \subseteq audience'
        /\ aired => aired'
        /\ steady' \subseteq steady
    BY DEF Observe
  <1>5. \A m \in steady' : Hears(m, pkt)'
    BY DEF Observe
  <1>6. SteadyHear'
    BY <1>4, <1>5 DEF VInv, SteadyHear
  <1>7. Listed'
    BY <1>1, <1>4 DEF VInv, Listed, AddressesKept
  <1>8. \A m \in steady' : m \in DOMAIN sessions'
    BY <1>5 DEF Hears
  <1>9. Pending'
    BY <1>1, <1>4, <1>8 DEF VInv, Pending
  <1> QED BY <1>2, <1>3, <1>6, <1>7, <1>9 DEF VInv

\* An update of one session that is there keeps the table.
LEMMA UpdateKeeps ==
  ASSUME IsMap(sessions, SessionIDs, Sessions), NEW s \in SessionIDs, NEW new \in Sessions,
         Update(s, new)
  PROVE  /\ IsMap(sessions, SessionIDs, Sessions)'
         /\ DOMAIN sessions' = DOMAIN sessions
         /\ \A m \in DOMAIN sessions :
              sessions'[m] = IF m = s THEN new ELSE sessions[m]
  BY DEF Update, IsMap, Put

LEMMA ControlKeeps ==
  ASSUME VInv, NEW s \in SessionIDs, Control(s)
  PROVE  VInv' /\ AddressesKept
PROOF
  <1>1. RoomsOK /\ IsMap(sessions, SessionIDs, Sessions)
    BY DEF VInv, VoiceTypeOK
  <1>2. CASE Login(s)
    <2>1. PICK u \in Users : Create(s, u, RoleUser)
      BY <1>2 DEF Login
    <2> DEFINE new == [user |-> u, role |-> RoleUser, channel |-> NoChannel,
                       udp |-> NoAddr, muted |-> FALSE, deafened |-> FALSE]
    <2>2. new \in Sessions
      BY DEF Sessions, Roles, RoleUser
    <2>3. sessions' = Put(sessions, s, new) /\ s \notin DOMAIN sessions
      BY <1>2, <2>1 DEF Login, Create, FreeIDs
    <2>4. new.udp = NoAddr
      OBVIOUS
    <2> HIDE DEF new
    <2>5. IsMap(sessions, SessionIDs, Sessions)'
      BY <1>1, <2>2, <2>3, PutIsMap
    <2>6. AddressesKept
      BY <2>3, <2>4 DEF AddressesKept, Put
    <2>7. UNCHANGED <<roomVars, loopVars>> /\ Observe({})
      BY <1>2 DEF Login
    <2>8. RoomsOK'
      BY <1>1, <2>7 DEF roomVars, RoomsOK, RoomsTypeOK, IndexAgree, Members
    <2> QED BY <2>5, <2>6, <2>7, <2>8, HandlersKeep
  <1>3. CASE Exit(s)
    <2>1. RoomsOK' /\ UNCHANGED <<sessions, loopVars>> /\ Observe({})
      BY <1>1, <1>3, LeaveKeepsRooms DEF Exit
    <2>2. AddressesKept /\ IsMap(sessions, SessionIDs, Sessions)'
      BY <1>1, <2>1 DEF AddressesKept
    <2> QED BY <2>1, <2>2, HandlersKeep
  <1>4. CASE Logout(s)
    <2>1. sessions' = Drop(sessions, s) /\ UNCHANGED <<roomVars, loopVars>> /\ Observe({})
      BY <1>4 DEF Logout, Remove
    <2>2. AddressesKept
      BY <2>1 DEF AddressesKept, Drop
    <2>3. IsMap(sessions, SessionIDs, Sessions)'
      BY <1>1, <2>1, DropIsMap
    <2>4. RoomsOK'
      BY <1>1, <2>1 DEF roomVars, RoomsOK, RoomsTypeOK, IndexAgree, Members
    <2> QED BY <2>1, <2>2, <2>3, <2>4, HandlersKeep
  <1>5. ASSUME NEW c \in ChannelIDs, Enter(s, c) PROVE VInv' /\ AddressesKept
    <2>1. RoomsOK' /\ UNCHANGED <<sessions, loopVars>> /\ Observe({})
      BY <1>1, <1>5, JoinKeepsRooms DEF Enter
    <2>2. AddressesKept /\ IsMap(sessions, SessionIDs, Sessions)'
      BY <1>1, <2>1 DEF AddressesKept
    <2> QED BY <2>1, <2>2, HandlersKeep
  <1>6. ASSUME NEW st \in UserStates, SetState(s, st[1], st[2]) PROVE VInv' /\ AddressesKept
    <2> DEFINE new == [sessions[s] EXCEPT !.muted = st[1], !.deafened = st[2]]
    <2>1. /\ s \in DOMAIN sessions /\ Update(s, new)
          /\ UNCHANGED <<roomVars, loopVars>> /\ Observe({})
      BY <1>6 DEF SetState, UpdateUserState
    <2>2. sessions[s] \in Sessions
      BY <1>1, <2>1 DEF IsMap
    <2>3. st[1] \in BOOLEAN /\ st[2] \in BOOLEAN
      BY RelayAssumption
    <2>4. new \in Sessions /\ new.udp = sessions[s].udp
      BY <2>2, <2>3 DEF Sessions
    <2> HIDE DEF new
    <2>5. /\ IsMap(sessions, SessionIDs, Sessions)'
          /\ DOMAIN sessions' = DOMAIN sessions
          /\ \A m \in DOMAIN sessions : sessions'[m] = IF m = s THEN new ELSE sessions[m]
      BY <1>1, <2>1, <2>4, UpdateKeeps
    <2>6. AddressesKept
      BY <2>4, <2>5 DEF AddressesKept
    <2>7. RoomsOK'
      BY <1>1, <2>1 DEF roomVars, RoomsOK, RoomsTypeOK, IndexAgree, Members
    <2> QED BY <2>1, <2>5, <2>6, <2>7, HandlersKeep
  <1> QED BY <1>2, <1>3, <1>4, <1>5, <1>6 DEF Control

-----------------------------------------------------------------------------
LEMMA ReceiveKeeps ==
  ASSUME VInv, NEW p \in Packets, Receive(p)
  PROVE  VInv'
PROOF
  <1>1. /\ UNCHANGED <<roomVars, sessions, todo>> /\ pkt' = p /\ rpc = "read"
        /\ rmuted' = sessions[p.sid].muted /\ p.sid \in DOMAIN sessions
        /\ got' = {} /\ audience' = Members(p.chan) /\ aired' = OnAir(p)
        /\ steady' = {m \in SessionIDs : Hears(m, p)}
    BY DEF Receive
  <1>2. /\ rpc' \in {"learn", "check", "done"}
        /\ rpc' = "learn" => sessions[p.sid].udp = NoAddr
        /\ rpc' = "done" => sessions[p.sid].muted \/ sessions[p.sid].udp \notin {NoAddr, p.from}
    <2>1. sessions[p.sid].muted \in BOOLEAN
      BY <1>1 DEF VInv, VoiceTypeOK, IsMap, Sessions
    <2> QED BY <2>1 DEF Receive
  <1>3. todo = {}
    BY <1>1 DEF VInv, Pending
  <1>4. VoiceTypeOK'
    <2>1. RoomsOK'
      BY <1>1 DEF VInv, VoiceTypeOK, roomVars, RoomsOK, RoomsTypeOK, IndexAgree, Members
    <2>2. rmuted' \in BOOLEAN
      BY <1>1 DEF VInv, VoiceTypeOK, IsMap, Sessions
    <2> QED BY <1>1, <1>2, <2>1, <2>2 DEF VInv, VoiceTypeOK, LoopPoints
  <1>5. Fresh'
    BY <1>1, <1>2 DEF Fresh
  <1>6. SteadyHear'
    BY <1>1 DEF SteadyHear, Hears, Members, ChannelOf, roomVars
  <1>7. Listed'
    BY <1>1, <1>2, <1>3 DEF Listed
  <1>8. Pending'
    <2>1. sessions[p.sid].muted \/ sessions[p.sid].udp \notin {NoAddr, p.from} => steady' = {}
      BY <1>1 DEF Hears
    <2> QED BY <1>1, <1>2, <1>3, <2>1 DEF Pending
  <1> QED BY <1>4, <1>5, <1>6, <1>7, <1>8 DEF VInv

\* What the steps of the loop have in common that leave the table alone.
LEMMA LoopStep ==
  ASSUME VInv, UNCHANGED <<roomVars, sessions, pkt, rmuted>>, rpc # "read",
         rpc' \in LoopPoints \ {"read", "learn"}, todo' \in SUBSET SessionIDs,
         NEW sent \in SUBSET SessionIDs, Observe(sent)
  PROVE  /\ VoiceTypeOK' /\ Fresh' /\ SteadyHear'
         /\ got' = (got \cup sent) \cap DOMAIN sessions
         /\ audience' = (audience \cap DOMAIN sessions) \cup Members(pkt.chan)
         /\ aired' = (aired \/ OnAir(pkt))
         /\ steady' = steady
PROOF
  <1>1. pkt' = pkt /\ sessions' = sessions /\ members' = members
        /\ sessionToChannel' = sessionToChannel /\ rmuted' = rmuted
    BY DEF roomVars
  <1>2. VoiceTypeOK'
    BY <1>1 DEF VInv, VoiceTypeOK, RoomsOK, RoomsTypeOK, IndexAgree, Members
  <1>3. Fresh'
    BY DEF Fresh
  <1>4. \A m : Hears(m, pkt)' <=> Hears(m, pkt)
    BY <1>1 DEF Hears, Members, ChannelOf
  <1>5. steady' = steady
    BY <1>4 DEF Observe, VInv, SteadyHear
  <1>6. SteadyHear'
    BY <1>1, <1>4, <1>5 DEF VInv, SteadyHear
  <1>7. Members(pkt.chan)' = Members(pkt.chan) /\ OnAir(pkt)' = OnAir(pkt)
    BY <1>1 DEF Members, OnAir
  <1> QED BY <1>1, <1>2, <1>3, <1>5, <1>6, <1>7 DEF Observe

LEMMA LearnKeeps ==
  ASSUME VInv, Learn
  PROVE  /\ VInv'
         /\ \A s \in DOMAIN sessions \cap DOMAIN sessions' :
              sessions[s].udp # NoAddr => sessions'[s].udp = sessions[s].udp
PROOF
  <1> DEFINE new == [sessions[pkt.sid] EXCEPT !.udp = pkt.from]
  <1>1. /\ rpc = "learn" /\ rpc' = (IF rmuted THEN "done" ELSE "check")
        /\ UNCHANGED <<roomVars, pkt, rmuted, todo>> /\ Observe({})
        /\ Update(pkt.sid, new)
    BY DEF Learn, SetUDPAddr
  <1>2. pkt \in Packets /\ pkt.sid \in SessionIDs /\ pkt.from \in Addrs
    BY <1>1 DEF VInv, VoiceTypeOK, Packets
  <1>3. pkt.sid \in DOMAIN sessions => new \in Sessions /\ new.udp = pkt.from
                                       /\ new.muted = sessions[pkt.sid].muted
                                       /\ new.deafened = sessions[pkt.sid].deafened
    <2>1. pkt.sid \in DOMAIN sessions => sessions[pkt.sid] \in Sessions
      BY DEF VInv, VoiceTypeOK, IsMap
    <2> QED BY <1>2, <2>1 DEF Sessions
  <1> HIDE DEF new
  <1>4. /\ IsMap(sessions, SessionIDs, Sessions)'
        /\ DOMAIN sessions' = DOMAIN sessions
        /\ \A m \in DOMAIN sessions :
             sessions'[m] = IF m = pkt.sid THEN new ELSE sessions[m]
    BY <1>1, <1>2, <1>3 DEF Update, IsMap, Put, VInv, VoiceTypeOK
  <1>5. RoomsOK'
    BY <1>1 DEF VInv, VoiceTypeOK, roomVars, RoomsOK, RoomsTypeOK, IndexAgree, Members
  <1>6. \A s \in DOMAIN sessions \cap DOMAIN sessions' :
          sessions[s].udp # NoAddr => sessions'[s].udp = sessions[s].udp
    BY <1>1, <1>4 DEF VInv, Fresh
  <1>7. todo = {} /\ todo' = {} /\ got = {} /\ got' = {}
    BY <1>1 DEF VInv, Pending, Observe
  <1>8. VoiceTypeOK' /\ Fresh'
    BY <1>1, <1>2, <1>4, <1>5 DEF VInv, VoiceTypeOK, Fresh, LoopPoints
  <1>9. SteadyHear'
    BY DEF VInv, SteadyHear, Observe, Learn
  <1>10. Listed'
    BY <1>1, <1>7 DEF Listed
  <1>11. Pending'
    BY <1>1, <1>7 DEF VInv, Pending, Observe
  <1> QED BY <1>6, <1>8, <1>9, <1>10, <1>11 DEF VInv

LEMMA CheckKeeps ==
  ASSUME VInv, Check
  PROVE  VInv'
PROOF
  <1> DEFINE there == ChannelOf(pkt.sid) # NoChannel /\ ChannelOf(pkt.sid) = pkt.chan
  <1>1. /\ rpc = "check" /\ rpc' = (IF there THEN "list" ELSE "done")
        /\ UNCHANGED <<roomVars, sessions, pkt, rmuted, todo>> /\ Observe({})
    BY DEF Check
  <1>2. todo = {} /\ todo' = {} /\ got = {} /\ pkt \in Packets
    BY <1>1 DEF VInv, Pending, VoiceTypeOK
  <1>3. VoiceTypeOK' /\ Fresh' /\ SteadyHear' /\ got' = {} /\ steady' = steady
        /\ aired' = (aired \/ OnAir(pkt))
    BY <1>1, <1>2, LoopStep DEF LoopPoints
  <1>4. there => OnAir(pkt)
    BY <1>2 DEF VInv, VoiceTypeOK, RoomsOK, RoomsTypeOK, IndexAgree, ChannelOf, OnAir,
                IsMap, Packets
  <1>5. ~ there => steady = {}
    <2>1. Members(NoChannel) = {}
      BY ZeroIsNoChannel DEF VInv, VoiceTypeOK, RoomsOK, RoomsTypeOK, IsMap, Members
    <2> QED BY <2>1 DEF VInv, SteadyHear, Hears
  <1>6. Listed'
    BY <1>1, <1>2, <1>3, <1>4 DEF Listed
  <1>7. Pending'
    BY <1>1, <1>2, <1>3, <1>5 DEF Pending
  <1> QED BY <1>3, <1>6, <1>7 DEF VInv

LEMMA ListKeeps ==
  ASSUME VInv, List
  PROVE  VInv'
PROOF
  <1>1. /\ rpc = "list" /\ todo' = Members(pkt.chan) \ {pkt.sid}
        /\ rpc' = (IF todo' = {} THEN "done" ELSE "send")
        /\ UNCHANGED <<roomVars, sessions, pkt, rmuted>> /\ Observe({})
    BY DEF List
  <1>2. got = {} /\ aired
    BY <1>1 DEF VInv, Pending, Listed
  <1>3. Members(pkt.chan) \subseteq SessionIDs
    BY DEF VInv, VoiceTypeOK, RoomsOK, RoomsTypeOK, IsMap, Members
  <1>4. /\ VoiceTypeOK' /\ Fresh' /\ SteadyHear' /\ got' = {} /\ steady' = steady /\ aired'
        /\ Members(pkt.chan) \subseteq audience'
    <2>1. todo' \in SUBSET SessionIDs /\ {} \in SUBSET SessionIDs
      BY <1>1, <1>3
    <2>2. rpc # "read" /\ rpc' \in LoopPoints \ {"read", "learn"}
      BY <1>1 DEF LoopPoints
    <2>3. /\ VoiceTypeOK' /\ Fresh' /\ SteadyHear' /\ steady' = steady
          /\ got' = (got \cup {}) \cap DOMAIN sessions
          /\ audience' = (audience \cap DOMAIN sessions) \cup Members(pkt.chan)
          /\ aired' = (aired \/ OnAir(pkt))
      BY <1>1, <2>1, <2>2, LoopStep
    <2> QED BY <1>2, <2>3
  <1>5. Listed'
    BY <1>1, <1>4 DEF Listed
  <1>6. steady \subseteq todo'
    BY <1>1 DEF VInv, SteadyHear, Hears
  <1>7. Pending'
    BY <1>1, <1>4, <1>6 DEF Pending
  <1> QED BY <1>4, <1>5, <1>7 DEF VInv

LEMMA ForwardKeeps ==
  ASSUME VInv, NEW m \in todo, Forward(m)
  PROVE  VInv'
PROOF
  <1> DEFINE sent == IF Reachable(m) THEN {m} ELSE {}
  <1>1. /\ rpc = "send" /\ todo' = todo \ {m}
        /\ rpc' = (IF todo' = {} THEN "done" ELSE "send")
        /\ UNCHANGED <<roomVars, sessions, pkt, rmuted>> /\ Observe(sent)
    BY DEF Forward
  <1>2. todo \subseteq SessionIDs
    BY DEF VInv, VoiceTypeOK
  <1>3. sent \in SUBSET SessionIDs /\ todo' \in SUBSET SessionIDs
    <2>1. sent \subseteq {m} /\ m \in SessionIDs
      BY <1>2
    <2> HIDE DEF sent
    <2> QED BY <1>1, <1>2, <2>1
  <1>4. /\ VoiceTypeOK' /\ Fresh' /\ SteadyHear' /\ steady' = steady
        /\ got' = (got \cup sent) \cap DOMAIN sessions
        /\ audience \cap DOMAIN sessions \subseteq audience'
        /\ aired => aired'
    BY <1>1, <1>3, LoopStep DEF LoopPoints
  <1>5. \A x \in sent : x = m /\ x \in DOMAIN sessions /\ sessions[x].udp # NoAddr
    BY DEF Reachable
  <1>6. Listed'
    BY <1>1, <1>4, <1>5 DEF VInv, Listed
  <1>7. m \in steady => m \in sent
    BY DEF VInv, SteadyHear, Hears, Reachable
  <1>8. steady \subseteq got \cup todo /\ steady \subseteq DOMAIN sessions
    BY <1>1 DEF VInv, Pending, SteadyHear, Hears
  <1> HIDE DEF sent
  <1>9. Pending'
    BY <1>1, <1>4, <1>7, <1>8 DEF Pending
  <1> QED BY <1>4, <1>6, <1>9 DEF VInv

LEMMA LoopTopKeeps ==
  ASSUME VInv, LoopTop
  PROVE  VInv'
PROOF
  <1>1. /\ rpc = "done" /\ rpc' = "read" /\ pkt' = NoPacket /\ rmuted' = FALSE
        /\ got' = {} /\ audience' = {} /\ aired' = FALSE /\ steady' = {}
        /\ UNCHANGED <<roomVars, sessions, todo>>
    BY DEF LoopTop
  <1>2. todo' = {}
    BY <1>1 DEF VInv, Pending
  <1>3. RoomsOK'
    BY <1>1 DEF VInv, VoiceTypeOK, roomVars, RoomsOK, RoomsTypeOK, IndexAgree, Members
  <1>4. VoiceTypeOK' /\ Fresh' /\ SteadyHear'
    BY <1>1, <1>3 DEF VInv, VoiceTypeOK, Fresh, SteadyHear, LoopPoints
  <1>5. Listed' /\ Pending'
    BY <1>1, <1>2 DEF Listed, Pending
  <1> QED BY <1>4, <1>5 DEF VInv

-----------------------------------------------------------------------------
LEMMA VoiceStarts == Init => VInv
PROOF
  <1> SUFFICES ASSUME Init PROVE VInv
    OBVIOUS
  <1>1. RoomsOK
    BY DEF Init, NewChannelManager, RoomsOK, RoomsTypeOK, IndexAgree, IsMap, Members
  <1>2. VoiceTypeOK
    <2>1. IsMap(sessions, SessionIDs, Sessions)
      BY DEF Init, NewSessionManager, IsMap
    <2>2. rpc = "read" /\ pkt = NoPacket /\ rmuted = FALSE /\ todo = {}
      BY DEF Init
    <2> QED BY <1>1, <2>1, <2>2 DEF VoiceTypeOK, LoopPoints
  <1>3. Fresh /\ SteadyHear /\ Listed /\ Pending
    BY DEF Init, Fresh, SteadyHear, Listed, Pending
  <1> QED BY <1>2, <1>3 DEF VInv

\* Every step keeps the invariant and every address.
LEMMA VoiceSteps ==
  ASSUME VInv, [Next]_vars
  PROVE  /\ VInv'
         /\ \A s \in DOMAIN sessions \cap DOMAIN sessions' :
              sessions[s].udp # NoAddr => sessions'[s].udp = sessions[s].udp
PROOF
  <1> DEFINE kept == \A s \in DOMAIN sessions \cap DOMAIN sessions' :
                       sessions[s].udp # NoAddr => sessions'[s].udp = sessions[s].udp
  <1>1. ASSUME NEW s \in SessionIDs, Control(s) PROVE VInv' /\ kept
    BY <1>1, ControlKeeps DEF AddressesKept
  <1>2. CASE Learn
    BY <1>2, LearnKeeps
  <1>3. ASSUME sessions' = sessions PROVE kept
    BY <1>3
  <1> HIDE DEF kept
  <1>4. ASSUME NEW p \in Packets, Receive(p) PROVE VInv' /\ kept
    BY <1>3, <1>4, ReceiveKeeps DEF Receive
  <1>5. CASE Check
    BY <1>3, <1>5, CheckKeeps DEF Check
  <1>6. CASE List
    BY <1>3, <1>6, ListKeeps DEF List
  <1>7. ASSUME NEW m \in todo, Forward(m) PROVE VInv' /\ kept
    BY <1>3, <1>7, ForwardKeeps DEF Forward
  <1>8. CASE LoopTop
    BY <1>3, <1>8, LoopTopKeeps DEF LoopTop
  <1>9. CASE UNCHANGED vars
    <2>1. UNCHANGED <<members, sessionToChannel, sessions, rpc, pkt, rmuted, todo,
                      got, audience, aired, steady>>
      BY <1>9 DEF vars, roomVars, loopVars
    <2>2. VoiceTypeOK'
      BY <2>1 DEF VInv, VoiceTypeOK, RoomsOK, RoomsTypeOK, IndexAgree, Members
    <2>3. SteadyHear'
      BY <2>1 DEF VInv, SteadyHear, Hears, Members, ChannelOf
    <2>4. Fresh' /\ Listed' /\ Pending'
      BY <2>1 DEF VInv, Fresh, Listed, Pending
    <2> QED BY <1>3, <2>1, <2>2, <2>3, <2>4 DEF VInv
  <1>10. VInv' /\ kept
    BY <1>1, <1>2, <1>4, <1>5, <1>6, <1>7, <1>8, <1>9 DEF Next, voiceLoop, kept
  <1> QED BY <1>10 DEF kept

LEMMA VInvInvariant == VoiceSpec => []VInv
PROOF
  <1>1. VInv /\ [Next]_vars => VInv'
    BY VoiceSteps
  <1> QED BY <1>1, VoiceStarts, PTL DEF VoiceSpec

-----------------------------------------------------------------------------
(***************************************************************************)
(* However many people come, go and change channels while a packet is      *)
(* handled: it is sent to members of its channel only, and never unless    *)
(* its sender was one.                                                     *)
(***************************************************************************)
THEOREM NobodyElseHears == VoiceSpec => []OnlyItsChannelHears
PROOF
  <1>1. VInv => OnlyItsChannelHears
    BY DEF VInv, Listed, OnlyItsChannelHears
  <1> QED BY <1>1, VInvInvariant, PTL

(***************************************************************************)
(* However many people come, go and change channels while a packet is      *)
(* handled: those who stay and can hear its sender are all sent it.        *)
(***************************************************************************)
THEOREM AllWhoStayHear == VoiceSpec => []EveryoneIsServed
PROOF
  <1>1. VInv => EveryoneIsServed
    BY DEF VInv, Pending, EveryoneIsServed
  <1> QED BY <1>1, VInvInvariant, PTL

(***************************************************************************)
(* The relay never replaces the address of a session, although it decides  *)
(* to store one on a snapshot that may be out of date.                     *)
(***************************************************************************)
THEOREM AddressesStay == VoiceSpec => AddressStays
PROOF
  <1>1. VInv /\ [Next]_vars =>
          [\A s \in DOMAIN sessions \cap DOMAIN sessions' :
             sessions[s].udp # NoAddr => sessions'[s].udp = sessions[s].udp]_vars
    BY VoiceSteps
  <1> QED BY <1>1, VInvInvariant, PTL DEF VoiceSpec, AddressStays

(***************************************************************************)
(* Next to a relay at work, with its handlers moving people between any    *)
(* two of its steps, the rooms are those of Membership still: the relay    *)
(* reads the ChannelManager and never calls Join or Leave.                 *)
(***************************************************************************)
THEOREM RelayImplementsMembership == VoiceSpec => ImplementsMembership
PROOF
  <1>1. Init => NewChannelManager
    BY DEF Init
  <1>2. VInv /\ [Next]_vars => [CMNext]_roomVars
    <2> SUFFICES ASSUME VInv, [Next]_vars PROVE [CMNext]_roomVars
      OBVIOUS
    <2>1. DOMAIN sessions \subseteq SessionIDs /\ DOMAIN sessionToChannel \subseteq SessionIDs
      BY DEF VInv, VoiceTypeOK, RoomsOK, RoomsTypeOK, IsMap
    <2>2. ASSUME NEW s \in SessionIDs, Control(s) PROVE [CMNext]_roomVars
      BY <2>2 DEF Control, Login, Enter, Exit, SetState, Logout, CMNext
    <2>3. CASE voiceLoop
      BY <2>3 DEF voiceLoop, Receive, Learn, Check, List, Forward, LoopTop
    <2> QED BY <2>2, <2>3 DEF Next, vars
  <1>3. VoiceSpec => CMSpec
    BY <1>1, <1>2, VInvInvariant, PTL DEF VoiceSpec, CMSpec
  <1> QED BY <1>3, ManagerImplementsMembership
=============================================================================
