----------------------------- MODULE VoiceRelay -----------------------------
(***************************************************************************)
(* pkg/server/voice.go: the one goroutine that reads voice packets from    *)
(* the UDP socket and forwards each to the other members of the sender's   *)
(* channel.  It shares the two managers with the control handlers and      *)
(* holds no lock from one call to the next, so people log in and out, move *)
(* and change their state between any two of its steps.                    *)
(***************************************************************************)
EXTENDS ChannelManager, SessionManager

CONSTANTS
  WireMod,      \* 2^16: a packet has 16 bits for the channel
  UserStates    \* the pairs <<muted, deafened>> a client may report

ASSUME RelayAssumption == WireMod \in Nat \ {0} /\ UserStates \subseteq BOOLEAN \X BOOLEAN

VARIABLES
  rpc,        \* voiceLoop: the access it makes next
  pkt,        \* the packet in buf, NoPacket before the first
  rmuted,     \* the sender's mute flag in the snapshot taken
  todo,       \* members of the list the loop has yet to look at
  got,        \* history: who has been sent this packet
  audience,   \* history: who was in its channel at some time since it was read
  aired,      \* history: was its sender?
  steady      \* history: who could have heard its sender all the time

loopVars == <<rpc, pkt, rmuted, todo>>
vars == <<roomVars, sessions, loopVars, got, audience, aired, steady>>

Packets == [sid : SessionIDs, chan : 0 .. WireMod - 1, from : Addrs]
NoPacket == [sid |-> NoSession, chan |-> 0, from |-> NoAddr]

-----------------------------------------------------------------------------
\* Session m is one that a packet p must reach, as things stand.
Hears(m, p) ==
  /\ {p.sid, m} \subseteq DOMAIN sessions /\ m # p.sid
  /\ ~ sessions[p.sid].muted /\ sessions[p.sid].udp \in {NoAddr, p.from}
  /\ ChannelOf(p.sid) = p.chan /\ m \in Members(p.chan)
  /\ ~ sessions[m].deafened /\ sessions[m].udp # NoAddr

OnAir(p) == p.sid \in Members(p.chan)

\* The histories of the packet in hand, one step further; a session that ends
\* takes its part of them with it, for its ID may be drawn again.
Observe(sent) ==
  /\ got' = (got \cup sent) \cap DOMAIN sessions'
  /\ audience' = (audience \cap DOMAIN sessions') \cup Members(pkt.chan)'
  /\ aired' = (aired \/ OnAir(pkt)')
  /\ steady' = {m \in steady : Hears(m, pkt)'}

Init ==
  /\ NewChannelManager /\ NewSessionManager
  /\ rpc = "read" /\ pkt = NoPacket /\ rmuted = FALSE /\ todo = {}
  /\ got = {} /\ audience = {} /\ aired = FALSE /\ steady = {}

-----------------------------------------------------------------------------
\* A read that takes every packet's address for the session's.
ReceiveRelearns(p) ==
  /\ rpc = "read" /\ p.sid \in DOMAIN sessions
  /\ rpc' = "learn"
  /\ pkt' = p /\ rmuted' = sessions[p.sid].muted
  /\ got' = {} /\ audience' = Members(p.chan)
  /\ aired' = OnAir(p) /\ steady' = {m \in SessionIDs : Hears(m, p)}
  /\ UNCHANGED <<roomVars, sessions, todo>>

\* ReadFromUDP yields a packet of a session that GetSnapshot knows: from any
\* address, for any channel - the sender may have moved since it was sent
Receive(p) ==
  /\ rpc = "read" /\ p.sid \in DOMAIN sessions
  /\ LET s == sessions[p.sid] IN
       /\ rpc' = CASE s.udp = NoAddr                 -> "learn"
                   [] s.udp = p.from /\ ~ s.muted    -> "check"
                   [] s.udp = p.from /\ s.muted      -> "done"
                   [] s.udp \notin {NoAddr, p.from}  -> "done"
       /\ pkt' = p /\ rmuted' = s.muted
  /\ got' = {} /\ audience' = Members(p.chan)
  /\ aired' = OnAir(p) /\ steady' = {m \in SessionIDs : Hears(m, p)}
  /\ UNCHANGED <<roomVars, sessions, todo>>

\* SetUDPAddr: the first packet says where its session is
Learn ==
  /\ rpc = "learn"
  /\ SetUDPAddr(pkt.sid, pkt.from)
  /\ rpc' = IF rmuted THEN "done" ELSE "check"
  /\ UNCHANGED <<roomVars, pkt, rmuted, todo>>
  /\ Observe({})

\* A loop that believes what the packet says.
CheckNothing ==
  /\ rpc = "check" /\ rpc' = "list"
  /\ UNCHANGED <<roomVars, sessions, pkt, rmuted, todo>>
  /\ Observe({})

\* ChannelOf: the sender must be where it says, in 64 bits
Check ==
  /\ rpc = "check"
  /\ rpc' = IF ChannelOf(pkt.sid) # NoChannel /\ ChannelOf(pkt.sid) = pkt.chan
            THEN "list" ELSE "done"
  /\ UNCHANGED <<roomVars, sessions, pkt, rmuted, todo>>
  /\ Observe({})

\* Members(actualChannel): a copy of the list, without the sender (no echo)
List ==
  /\ rpc = "list"
  /\ todo' = Members(pkt.chan) \ {pkt.sid}
  /\ rpc' = IF todo' = {} THEN "done" ELSE "send"
  /\ UNCHANGED <<roomVars, sessions, pkt, rmuted>>
  /\ Observe({})

\* The member is there, has an address and wants to hear
Reachable(m) ==
  m \in DOMAIN sessions /\ sessions[m].udp # NoAddr /\ ~ sessions[m].deafened

\* A loop that ends at the first member it cannot reach.
ForwardStops(m) ==
  /\ rpc = "send" /\ m \in todo
  /\ todo' = IF Reachable(m) THEN todo \ {m} ELSE {}
  /\ rpc' = IF todo' = {} THEN "done" ELSE "send"
  /\ UNCHANGED <<roomVars, sessions, pkt, rmuted>>
  /\ Observe(IF Reachable(m) THEN {m} ELSE {})

\* GetSnapshot and WriteToUDP for one member, in the order of the copied list,
\* which is that of a Go map: any
Forward(m) ==
  /\ rpc = "send" /\ m \in todo
  /\ todo' = todo \ {m}
  /\ rpc' = IF todo' = {} THEN "done" ELSE "send"
  /\ UNCHANGED <<roomVars, sessions, pkt, rmuted>>
  /\ Observe(IF Reachable(m) THEN {m} ELSE {})

\* Back to the top of the loop
LoopTop ==
  /\ rpc = "done" /\ rpc' = "read"
  /\ pkt' = NoPacket /\ rmuted' = FALSE
  /\ got' = {} /\ audience' = {} /\ aired' = FALSE /\ steady' = {}
  /\ UNCHANGED <<roomVars, sessions, todo>>

voiceLoop ==
  \/ \E p \in Packets : Receive(p)
  \/ Learn \/ Check \/ List
  \/ \E m \in todo : Forward(m)
  \/ LoopTop

-----------------------------------------------------------------------------
(***************************************************************************)
(* The control handlers, as far as they change what the loop reads.  That  *)
(* only sessions of the table sit in channels (a session leaves before it  *)
(* is removed) is ControlServer's MembersLive.                             *)
(***************************************************************************)
Login(s) ==
  /\ s \in FreeIDs
  /\ \E u \in Users : Create(s, u, RoleUser)
  /\ UNCHANGED <<roomVars, loopVars>> /\ Observe({})

Enter(s, c) ==
  /\ s \in DOMAIN sessions /\ Join(s, c)
  /\ UNCHANGED <<sessions, loopVars>> /\ Observe({})

Exit(s) ==
  /\ s \in DOMAIN sessionToChannel /\ Leave(s)
  /\ UNCHANGED <<sessions, loopVars>> /\ Observe({})

SetState(s, m, d) ==
  /\ s \in DOMAIN sessions /\ UpdateUserState(s, m, d)
  /\ UNCHANGED <<roomVars, loopVars>> /\ Observe({})

Logout(s) ==
  /\ s \in DOMAIN sessions \ DOMAIN sessionToChannel /\ Remove(s)
  /\ UNCHANGED <<roomVars, loopVars>> /\ Observe({})

Control(s) ==
  \/ Login(s) \/ Exit(s) \/ Logout(s)
  \/ \E c \in ChannelIDs : Enter(s, c)
  \/ \E st \in UserStates : SetState(s, st[1], st[2])

Next == voiceLoop \/ \E s \in SessionIDs : Control(s)

VoiceSpec == Init /\ [][Next]_vars

-----------------------------------------------------------------------------
(***************************************************************************)
(* A voice packet goes to nobody but sessions that were in the sender's    *)
(* channel while the packet was handled, never back to its sender and not  *)
(* at all unless the sender was in that channel - although the list is a   *)
(* copy, its members leave, log out and have their IDs drawn again.        *)
(***************************************************************************)
OnlyItsChannelHears ==
  /\ got \subseteq audience \ {pkt.sid}
  /\ got # {} => aired

(***************************************************************************)
(* And it goes to all of them: whoever is in the channel with an address,  *)
(* undeafened, for as long as the packet is handled, and the sender where  *)
(* it claims to be and unmuted, has been sent the packet at the end, no    *)
(* matter who else comes and goes meanwhile.                               *)
(***************************************************************************)
EveryoneIsServed == rpc = "done" => steady \subseteq got

(***************************************************************************)
(* "Only the first packet from a session registers the address" (voice.go  *)
(* 83): the snapshot that said "no address yet" is stale when the address  *)
(* is set, and yet no address is ever replaced.                            *)
(***************************************************************************)
AddressStays ==
  [][\A s \in DOMAIN sessions \cap DOMAIN sessions' :
       sessions[s].udp # NoAddr => sessions'[s].udp = sessions[s].udp]_vars
=============================================================================
