----------------------------- MODULE ClientProofs -----------------------------
(***************************************************************************)
(* What holds of the client's connections, microphone loops, bookmarks and *)
(* window for any number of calls of Connect, however their goroutines     *)
(* interleave: no theorem assumes anything of when a connection ends or a  *)
(* form is sent.  OwnInv says who holds a connection or a device; the      *)
(* other invariants rest on little of it, and each is about one claim.     *)
(***************************************************************************)
EXTENDS ClientProperties, TLAPS

\* Connect has stored the connection in the Engine
Linked == {"receive", "report", "return", "returned"}

Alive == {c \in Calls : socket[c] \in {"open", "lost"} /\ connect[c] \in Linked}
Running == {d \in Calls : stream[d] = "open" /\ audio[d] = "open"}

AudioLabels == {"off", "init", "opened", "open", "failed"}
SocketStates == {"none", "open", "lost", "closed"}

OwnTypes ==
  /\ link \in Threads /\ devices \in Threads
  /\ connect \in [Calls -> ConnectLabels]
  /\ audio \in [Calls -> AudioLabels]
  /\ socket \in [Calls -> SocketStates]
  /\ stream \in [Calls -> {"none", "open", "closed"}]
  /\ teardown \in [Threads -> Holding]

Closes(t) == teardown[t].at = "close"

\* What the Engine holds can be closed, and so can what a thread is to close
HeldAlive ==
  /\ link # None => link \in Alive
  /\ devices # None => devices \in Running
  /\ \A t \in Threads : Closes(t) =>
       /\ teardown[t].link # None => teardown[t].link \in Alive
       /\ teardown[t].devices # None => teardown[t].devices \in Running

\* ... and is nobody else's
HeldOnce ==
  \A t \in Threads : Closes(t) =>
    /\ teardown[t].link # None =>
         /\ teardown[t].link # link
         /\ \A s \in Threads : Closes(s) /\ s # t => teardown[s].link # teardown[t].link
    /\ teardown[t].devices # None =>
         /\ teardown[t].devices # devices
         /\ \A s \in Threads : Closes(s) /\ s # t => teardown[s].devices # teardown[t].devices

\* A connection and devices on their way to the Engine
Coming ==
  \A c \in Calls :
    /\ connect[c] \in {"login", "link"} => socket[c] \in {"open", "lost"}
    /\ audio[c] = "opened" => stream[c] = "open"
    /\ connect[c] # "returned" => audio[c] = "off"

OwnInv == OwnTypes /\ HeldAlive /\ HeldOnce /\ Coming

LEMMA CallsAre == Calls \subseteq Threads /\ None \in Threads /\ None \notin Calls
BY DEF Calls, Threads, None

-----------------------------------------------------------------------------
\* A step that takes nothing from the Engine and gives it nothing
LEMMA Undisturbed ==
  ASSUME OwnInv, OwnTypes', Coming', UNCHANGED <<link, devices, teardown>>,
         Alive \subseteq Alive',
         Running \subseteq Running'
  PROVE  OwnInv'
PROOF
  <1>1. \A t \in Threads : Closes(t)' = Closes(t)
    BY DEF Closes
  <1>2. HeldOnce'
    BY <1>1 DEF OwnInv, HeldOnce
  <1>3. HeldAlive'
    BY <1>1 DEF OwnInv, HeldAlive
  <1> QED BY <1>2, <1>3 DEF OwnInv

\* A step of Connect that neither links a connection nor ends one
LEMMA ConnectMoves ==
  ASSUME OwnInv, NEW c \in Calls, NEW label \in ConnectLabels,
         connect' = [connect EXCEPT ![c] = label],
         connect[c] \in Linked => label \in Linked,
         label \in {"login", "link"} => socket'[c] \in {"open", "lost"},
         \/ socket' = socket
         \/ connect[c] \notin Linked /\ \E s \in SocketStates : socket' = [socket EXCEPT ![c] = s],
         connect[c] # "returned",
         audio' = IF label = "returned" THEN [audio EXCEPT ![c] = "init"] ELSE audio,
         UNCHANGED <<link, devices, teardown, stream>>
  PROVE  OwnInv'
PROOF
  <1>1. OwnTypes'
    BY DEF OwnInv, OwnTypes, AudioLabels
  <1>2. Coming'
    BY DEF OwnInv, OwnTypes, Coming
  <1>3. Alive \subseteq Alive'
    BY DEF OwnInv, OwnTypes, Alive
  <1>4. Running \subseteq Running'
    BY DEF OwnInv, OwnTypes, Coming, Running
  <1> QED BY <1>1, <1>2, <1>3, <1>4, Undisturbed

\* The locked section of handleDisconnect hands over what the Engine held
LEMMA TakeDownKeeps ==
  ASSUME OwnInv, NEW t \in Threads, TakeDown(t),
         UNCHANGED <<connect, audio, socket, stream>>
  PROVE  OwnInv'
PROOF
  <1>1. CASE state = "Disconnected"
    <2>1. UNCHANGED <<link, devices, teardown>>
      BY <1>1 DEF TakeDown
    <2>2. OwnTypes' /\ Coming'
      BY <2>1 DEF OwnInv, OwnTypes, Coming
    <2>3. Alive' = Alive /\ Running' = Running
      BY DEF Alive, Running
    <2> QED BY <2>1, <2>2, <2>3, Undisturbed
  <1>2. CASE state # "Disconnected"
    <2> DEFINE new == [at |-> "close", link |-> link, devices |-> devices]
    <2>1. link' = None /\ devices' = None /\ teardown' = [teardown EXCEPT ![t] = new]
      BY <1>2 DEF TakeDown
    <2>2. new \in Holding /\ None \in Threads
      BY CallsAre DEF OwnInv, OwnTypes, Holding
    <2>3. OwnTypes'
      BY <2>1, <2>2 DEF OwnInv, OwnTypes
    <2>4. teardown'[t] = new /\ \A s \in Threads : s # t => teardown'[s] = teardown[s]
      BY <2>1 DEF OwnInv, OwnTypes
    <2> HIDE DEF new
    <2>5. new.link = link /\ new.devices = devices /\ new.at = "close"
      BY DEF new
    <2>9. Alive' = Alive /\ Running' = Running
      BY DEF Alive, Running
    <2>8. HeldAlive'
      BY <2>1, <2>4, <2>5, <2>9 DEF OwnInv, HeldAlive, Closes
    <2>6. HeldOnce'
      BY <2>1, <2>4, <2>5 DEF OwnInv, HeldOnce, HeldAlive, Closes
    <2>7. Coming'
      BY DEF OwnInv, Coming
    <2> QED BY <2>3, <2>8, <2>6, <2>7 DEF OwnInv
  <1> QED BY <1>1, <1>2

\* What the thread closes, it alone had
LEMMA CloseAllKeeps ==
  ASSUME OwnInv, NEW t \in Threads, CloseAll(t)
  PROVE  OwnInv'
PROOF
  <1> DEFINE d == teardown[t].devices
             l == teardown[t].link
  <1>1. /\ Closes(t) /\ l \in Threads /\ d \in Threads
        /\ UNCHANGED <<link, devices, connect, audio>>
        /\ stream' = IF d = None THEN stream ELSE [stream EXCEPT ![d] = "closed"]
        /\ socket' = IF l = None THEN socket ELSE [socket EXCEPT ![l] = "closed"]
        /\ teardown' = [teardown EXCEPT ![t].at = "report"]
    BY DEF CloseAll, CloseDevices, Closes, OwnInv, OwnTypes, Holding, engineVars, audioVars
  <1>2. OwnTypes'
    BY <1>1 DEF OwnInv, OwnTypes, Holding, SocketStates
  <1>3. /\ teardown'[t].at = "report"
        /\ \A s \in Threads : s # t => teardown'[s] = teardown[s]
    BY <1>1 DEF OwnInv, OwnTypes, Holding
  <1>4. l # None => l \in Alive /\ l # link
    BY <1>1 DEF OwnInv, HeldAlive, HeldOnce
  <1>5. d # None => d \in Running /\ d # devices
    BY <1>1 DEF OwnInv, HeldAlive, HeldOnce
  <1>6. \A c \in Calls : c # l => socket'[c] = socket[c]
    BY <1>1 DEF OwnInv, OwnTypes
  <1>7. \A c \in Calls : c # d => stream'[c] = stream[c]
    BY <1>1 DEF OwnInv, OwnTypes
  <1>8. Alive \ {l} \subseteq Alive'
    BY <1>1, <1>6 DEF Alive
  <1>9. Running \ {d} \subseteq Running'
    BY <1>1, <1>7 DEF Running
  <1>10. \A s \in Threads : Closes(s)' => s # t /\ Closes(s)
    BY <1>3 DEF Closes
  <1>11. HeldOnce'
    BY <1>1, <1>3, <1>10 DEF OwnInv, HeldOnce
  <1>12. HeldAlive'
    <2>1. link' # None => link' \in Alive'
      BY <1>1, <1>4, <1>8 DEF OwnInv, HeldAlive
    <2>2. devices' # None => devices' \in Running'
      BY <1>1, <1>5, <1>9 DEF OwnInv, HeldAlive
    <2>3. ASSUME NEW s \in Threads, Closes(s)'
          PROVE  /\ teardown'[s].link # None => teardown'[s].link \in Alive'
                 /\ teardown'[s].devices # None => teardown'[s].devices \in Running'
      <3>1. s # t /\ Closes(s) /\ teardown'[s] = teardown[s]
        BY <1>3, <1>10, <2>3
      <3>2. teardown[s].link # None => teardown[s].link \in Alive /\ teardown[s].link # l
        BY <1>1, <3>1 DEF OwnInv, HeldAlive, HeldOnce
      <3>3. teardown[s].devices # None => teardown[s].devices \in Running /\ teardown[s].devices # d
        BY <1>1, <3>1 DEF OwnInv, HeldAlive, HeldOnce
      <3> QED BY <1>8, <1>9, <3>1, <3>2, <3>3
    <2> QED BY <2>1, <2>2, <2>3 DEF HeldAlive
  <1>13. Coming'
    BY <1>1, <1>4, <1>5, <1>6, <1>7 DEF OwnInv, Coming, Alive, Running, Linked
  <1> QED BY <1>2, <1>11, <1>12, <1>13 DEF OwnInv

LEMMA ReportDisconnectedKeeps ==
  ASSUME OwnInv, NEW t \in Threads, ReportDisconnected(t)
  PROVE  OwnInv'
PROOF
  <1>1. /\ UNCHANGED <<link, devices, connect, audio, socket, stream>>
        /\ teardown' = [teardown EXCEPT ![t] = Idle]
    BY DEF ReportDisconnected, engineVars, netVars, audioVars
  <1>2. OwnTypes'
    BY <1>1, CallsAre DEF OwnInv, OwnTypes, Idle, Holding
  <1>3. teardown'[t].at = "idle" /\ \A s \in Threads : s # t => teardown'[s] = teardown[s]
    BY <1>1 DEF OwnInv, OwnTypes, Idle
  <1>4. \A s \in Threads : Closes(s)' => s # t /\ Closes(s)
    BY <1>3 DEF Closes
  <1>5. Alive' = Alive /\ Running' = Running
    BY <1>1 DEF Alive, Running
  <1>6. HeldAlive'
    BY <1>1, <1>3, <1>4, <1>5 DEF OwnInv, HeldAlive
  <1>7. HeldOnce'
    BY <1>1, <1>3, <1>4 DEF OwnInv, HeldOnce
  <1>8. Coming'
    BY <1>1 DEF OwnInv, Coming
  <1> QED BY <1>2, <1>6, <1>7, <1>8 DEF OwnInv

\* The Engine is given a connection that is new to everyone
LEMMA LinkKeeps ==
  ASSUME OwnInv, NEW c \in Calls, Link(c)
  PROVE  OwnInv'
PROOF
  <1>1. /\ connect[c] = "link" /\ connect' = [connect EXCEPT ![c] = "receive"]
        /\ link' = c /\ UNCHANGED <<devices, teardown, audio, socket, stream>>
    BY DEF Link, ConnectAt, netVars, audioVars
  <1>2. OwnTypes'
    BY <1>1, CallsAre DEF OwnInv, OwnTypes, ConnectLabels, AudioLabels
  <1>3. c \notin Alive /\ c \in Alive'
    BY <1>1 DEF OwnInv, OwnTypes, Coming, Alive, Linked
  <1>4. Alive \subseteq Alive'
    BY <1>1 DEF OwnInv, OwnTypes, Alive, Linked
  <1>5. Running' = Running
    BY <1>1 DEF Running
  <1>6. \A t \in Threads : Closes(t)' = Closes(t)
    BY <1>1 DEF Closes
  <1>7. HeldAlive'
    BY <1>1, <1>3, <1>4, <1>5, <1>6 DEF OwnInv, HeldAlive
  <1>8. HeldOnce'
    BY <1>1, <1>3, <1>6 DEF OwnInv, HeldOnce, HeldAlive
  <1>9. Coming'
    BY <1>1 DEF OwnInv, OwnTypes, Coming
  <1> QED BY <1>2, <1>7, <1>8, <1>9 DEF OwnInv

LEMMA StoreDevicesKeeps ==
  ASSUME OwnInv, NEW c \in Calls, StoreDevices(c)
  PROVE  OwnInv'
PROOF
  <1>1. /\ audio[c] = "opened" /\ audio' = [audio EXCEPT ![c] = "open"]
        /\ devices' = c /\ UNCHANGED <<link, teardown, connect, socket, stream>>
    BY DEF StoreDevices, netVars, audioVars
  <1>2. OwnTypes'
    BY <1>1, CallsAre DEF OwnInv, OwnTypes, ConnectLabels, AudioLabels
  <1>3. c \notin Running /\ c \in Running'
    BY <1>1 DEF OwnInv, OwnTypes, Coming, Running
  <1>4. Running \subseteq Running'
    BY <1>1 DEF OwnInv, OwnTypes, Running
  <1>5. Alive' = Alive
    BY <1>1 DEF Alive
  <1>6. \A t \in Threads : Closes(t)' = Closes(t)
    BY <1>1 DEF Closes
  <1>7. HeldAlive'
    BY <1>1, <1>3, <1>4, <1>5, <1>6 DEF OwnInv, HeldAlive
  <1>8. HeldOnce'
    BY <1>1, <1>3, <1>6 DEF OwnInv, HeldOnce, HeldAlive
  <1>9. Coming'
    BY <1>1 DEF OwnInv, OwnTypes, Coming
  <1> QED BY <1>2, <1>7, <1>8, <1>9 DEF OwnInv

\* The server, the network or the audio goroutine does something of its own
LEMMA WorldKeeps ==
  ASSUME OwnInv, NEW c \in Calls,
         OpenStreams(c) \/ OpenError(c) \/ \E kick \in BOOLEAN : ServerCloses(c, kick)
  PROVE  OwnInv'
PROOF
  <1>1. UNCHANGED <<link, devices, teardown, connect>>
    BY DEF OpenStreams, OpenError, ServerCloses, engineVars, taskVars
  <1>2. \/ /\ audio[c] = "init" /\ UNCHANGED socket
           /\ audio' = [audio EXCEPT ![c] = "opened"] /\ stream' = [stream EXCEPT ![c] = "open"]
        \/ /\ audio[c] = "init" /\ UNCHANGED <<socket, stream>>
           /\ audio' = [audio EXCEPT ![c] = "failed"]
        \/ /\ socket[c] = "open" /\ UNCHANGED <<audio, stream>>
           /\ socket' = [socket EXCEPT ![c] = "lost"]
    BY DEF OpenStreams, OpenError, ServerCloses, engineVars, taskVars, netVars, audioVars
  <1>3. OwnTypes'
    BY <1>1, <1>2 DEF OwnInv, OwnTypes, AudioLabels, SocketStates
  <1>4. Coming'
    BY <1>1, <1>2 DEF OwnInv, OwnTypes, Coming
  <1>5. Alive \subseteq Alive'
    BY <1>1, <1>2 DEF OwnInv, OwnTypes, Alive
  <1>6. Running \subseteq Running'
    BY <1>1, <1>2 DEF OwnInv, OwnTypes, Running
  <1> QED BY <1>1, <1>3, <1>4, <1>5, <1>6, Undisturbed

-----------------------------------------------------------------------------
\* What the steps of Connect do, and the form that starts one
LEMMA ConnectKeeps ==
  ASSUME OwnInv, NEW c \in Calls,
         \/ SendForm(c) \/ Connect(c) \/ ReportConnecting(c) \/ Dial(c) \/ DialError(c)
         \/ Authenticate(c) \/ LoginError(c) \/ ReportFailed(c) \/ Receive(c)
         \/ ReportConnected(c) \/ TakeToken(c)
  PROVE  OwnInv'
PROOF
  <1>1. CASE SendForm(c)
    <2>1. /\ connect[c] = "unused" /\ connect' = [connect EXCEPT ![c] = "new"]
          /\ UNCHANGED <<link, devices, teardown, stream, socket, audio>>
      BY <1>1 DEF SendForm, engineVars, netVars, audioVars
    <2> QED BY <2>1, ConnectMoves DEF ConnectLabels, Linked
  <1>2. CASE Connect(c)
    <2>1. /\ connect[c] = "new"
          /\ UNCHANGED <<link, devices, teardown, stream, socket, audio>>
      BY <1>2 DEF Connect, netVars, audioVars
    <2>2. \/ connect' = [connect EXCEPT ![c] = "started"]
          \/ connect' = [connect EXCEPT ![c] = "refused"]
      BY <1>2 DEF Connect
    <2> QED BY <2>1, <2>2, ConnectMoves DEF ConnectLabels, Linked
  <1>3. CASE ReportConnecting(c) \/ DialError(c)
    <2>1. /\ connect[c] \in {"started", "dial"}
          /\ \/ connect' = [connect EXCEPT ![c] = "dial"]
             \/ connect' = [connect EXCEPT ![c] = "failed"]
          /\ UNCHANGED <<link, devices, teardown, stream, socket, audio>>
      BY <1>3 DEF ReportConnecting, DialError, GiveUp, ConnectAt, engineVars, netVars,
                  audioVars
    <2> QED BY <2>1, ConnectMoves DEF ConnectLabels, Linked
  <1>4. CASE Dial(c)
    <2>1. /\ connect[c] = "dial" /\ connect' = [connect EXCEPT ![c] = "login"]
          /\ socket' = [socket EXCEPT ![c] = "open"]
          /\ UNCHANGED <<link, devices, teardown, stream, audio>>
      BY <1>4 DEF Dial, ConnectAt, engineVars, audioVars
    <2>2. socket'[c] = "open"
      BY <2>1 DEF OwnInv, OwnTypes
    <2> QED BY <2>1, <2>2, ConnectMoves DEF ConnectLabels, SocketStates, Linked
  <1>5. CASE Authenticate(c)
    <2>1. /\ connect[c] = "login" /\ connect' = [connect EXCEPT ![c] = "link"]
          /\ socket[c] = "open"
          /\ UNCHANGED <<link, devices, teardown, stream, socket, audio>>
      BY <1>5 DEF Authenticate, ConnectAt, engineVars, netVars, audioVars
    <2> QED BY <2>1, ConnectMoves DEF ConnectLabels, Linked
  <1>6. CASE LoginError(c)
    <2>1. /\ connect[c] = "login" /\ connect' = [connect EXCEPT ![c] = "failed"]
          /\ socket' = [socket EXCEPT ![c] = "closed"]
          /\ UNCHANGED <<link, devices, teardown, stream, audio>>
      BY <1>6 DEF LoginError, GiveUp, ConnectAt, engineVars, audioVars
    <2> QED BY <2>1, ConnectMoves DEF ConnectLabels, SocketStates, Linked
  <1>7. CASE ReportFailed(c)
    <2>1. /\ connect[c] = "failed" /\ connect' = [connect EXCEPT ![c] = "refused"]
          /\ UNCHANGED <<link, devices, teardown, stream, socket, audio>>
      BY <1>7 DEF ReportFailed, ConnectAt, engineVars, netVars, audioVars
    <2> QED BY <2>1, ConnectMoves DEF ConnectLabels, Linked
  <1>8. CASE Receive(c) \/ ReportConnected(c)
    <2>1. /\ connect[c] \in {"receive", "report"}
          /\ \/ connect' = [connect EXCEPT ![c] = "report"]
             \/ connect' = [connect EXCEPT ![c] = "return"]
          /\ UNCHANGED <<link, devices, teardown, stream, socket, audio>>
      BY <1>8 DEF Receive, ReportConnected, ConnectAt, engineVars, netVars, audioVars
    <2> QED BY <2>1, ConnectMoves DEF ConnectLabels, Linked
  <1>9. CASE TakeToken(c)
    <2>1. /\ connect[c] = "return" /\ connect' = [connect EXCEPT ![c] = "returned"]
          /\ audio' = [audio EXCEPT ![c] = "init"]
          /\ UNCHANGED <<link, devices, teardown, stream, socket>>
      BY <1>9 DEF TakeToken, Return, ConnectAt, engineVars, netVars, audioVars
    <2> QED BY <2>1, ConnectMoves DEF ConnectLabels, Linked
  <1> QED BY <1>1, <1>2, <1>3, <1>4, <1>5, <1>6, <1>7, <1>8, <1>9

\* What the reader, the microphone loop and the window do to anything else
LEMMA ElsewhereKeeps ==
  ASSUME OwnInv,
         UNCHANGED <<link, devices, teardown, connect, audio, socket, stream>>
  PROVE  OwnInv'
PROOF
  <1>1. OwnTypes' /\ Coming'
    BY DEF OwnInv, OwnTypes, Coming
  <1>2. Alive' = Alive /\ Running' = Running
    BY DEF Alive, Running
  <1> QED BY <1>1, <1>2, Undisturbed

LEMMA WatchKeeps ==
  ASSUME OwnInv, NEW c \in Calls, Watch(c)
  PROVE  OwnInv'
PROOF
  <1>1. CASE ReadKick(c) \/ ConnectionLost(c)
    <2>1. TakeDown(c) /\ UNCHANGED <<connect, audio, socket, stream>>
      BY <1>1 DEF ReadKick, ConnectionLost, netVars, audioVars
    <2> QED BY <2>1, CallsAre, TakeDownKeeps
  <1>2. CASE ReadError(c)
    BY <1>2, ElsewhereKeeps DEF ReadError, engineVars, netVars, audioVars
  <1> QED BY <1>1, <1>2 DEF Watch

LEMMA UserKeeps ==
  ASSUME OwnInv,
         \/ PressDisconnect \/ ToggleMute \/ SelectChannel \/ RunPosted \/ SetChannel
  PROVE  OwnInv'
PROOF
  <1>1. CASE PressDisconnect
    <2>1. TakeDown(None) /\ UNCHANGED <<connect, audio, socket, stream>>
      BY <1>1 DEF PressDisconnect, Disconnect, netVars, audioVars
    <2> QED BY <2>1, CallsAre, TakeDownKeeps
  <1>2. CASE ToggleMute \/ SelectChannel \/ RunPosted \/ SetChannel
    BY <1>2, ElsewhereKeeps
    DEF ToggleMute, SetMuted, SelectChannel, Request, RunPosted, SetChannel,
        engineVars, taskVars, netVars, audioVars
  <1> QED BY <1>1, <1>2

LEMMA CallKeeps ==
  ASSUME OwnInv, NEW c \in Calls,
         \/ Engine(c) \/ TakeToken(c) \/ SaveAfterConnect(c) \/ Mic(c)
         \/ \E kick \in BOOLEAN : ServerCloses(c, kick)
  PROVE  OwnInv'
PROOF
  <1>1. CASE Engine(c)
    BY <1>1, ConnectKeeps, LinkKeeps, WatchKeeps, WorldKeeps, StoreDevicesKeeps
    DEF Engine, ConnectStep, Audio
  <1>2. CASE TakeToken(c)
    BY <1>2, ConnectKeeps
  <1>3. CASE SaveAfterConnect(c)
    BY <1>3, ElsewhereKeeps DEF SaveAfterConnect, engVars, engineVars, taskVars, netVars,
                                audioVars
  <1>4. CASE Mic(c)
    BY <1>4, ElsewhereKeeps
    DEF Mic, MicStarts, MicEnds, MicFrame, engineVars, netVars, audioVars
  <1>5. CASE \E kick \in BOOLEAN : ServerCloses(c, kick)
    BY <1>5, WorldKeeps
  <1> QED BY <1>1, <1>2, <1>3, <1>4, <1>5

LEMMA NextKeeps ==
  ASSUME OwnInv, [Next]_vars
  PROVE  OwnInv'
PROOF
  <1>1. CASE \E c \in Calls : SendForm(c)
    BY <1>1, ConnectKeeps
  <1>2. CASE PressDisconnect \/ ToggleMute \/ SelectChannel \/ RunPosted \/ SetChannel
    BY <1>2, UserKeeps
  <1>3. CASE \E t \in Threads : FinishTeardown(t)
    BY <1>3, CloseAllKeeps, ReportDisconnectedKeeps DEF FinishTeardown
  <1>4. CASE \E c \in Calls :
               \/ Engine(c) \/ TakeToken(c) \/ SaveAfterConnect(c) \/ Mic(c)
               \/ \E kick \in BOOLEAN : ServerCloses(c, kick)
    BY <1>4, CallKeeps
  <1>5. CASE UNCHANGED vars
    BY <1>5, ElsewhereKeeps DEF vars, engVars, engineVars, taskVars, netVars, audioVars
  <1> QED BY <1>1, <1>2, <1>3, <1>4, <1>5 DEF Next

LEMMA InitOwns == Init => OwnInv
PROOF
  <1> SUFFICES ASSUME Init PROVE OwnInv
    OBVIOUS
  <1>1. OwnTypes
    BY CallsAre DEF Init, EngineInit, OwnTypes, Idle, Holding, ConnectLabels, AudioLabels,
                    SocketStates
  <1>2. \A t \in Threads : ~Closes(t)
    BY DEF Init, EngineInit, Idle, Closes
  <1>3. HeldAlive /\ HeldOnce
    BY <1>2 DEF Init, EngineInit, HeldAlive, HeldOnce
  <1>4. Coming
    BY DEF Init, EngineInit, Coming
  <1> QED BY <1>1, <1>3, <1>4 DEF OwnInv

-----------------------------------------------------------------------------
\* What the invariant says of one connection or device, in the terms of OneOwner
LEMMA OwnedOnce == OwnInv => OneOwner
PROOF
  <1> SUFFICES ASSUME OwnInv PROVE OneOwner
    OBVIOUS
  <1>1. link # None => socket[link] \in {"open", "lost"} /\ Tearing(link) = {}
    BY DEF OwnInv, HeldAlive, HeldOnce, Alive, Closes, Tearing
  <1>2. devices # None => stream[devices] = "open" /\ Stopping(devices) = {}
    BY DEF OwnInv, HeldAlive, HeldOnce, Running, Closes, Stopping
  <1>3. ASSUME NEW c \in Calls, NEW s \in Threads, NEW t \in Threads, s # t
        PROVE  ~({s, t} \subseteq Tearing(c)) /\ ~({s, t} \subseteq Stopping(c))
    BY <1>3, CallsAre DEF OwnInv, HeldOnce, Closes, Tearing, Stopping
  <1>4. ASSUME NEW c \in Calls
        PROVE  /\ Tearing(c) # {} => socket[c] \in {"open", "lost"}
               /\ Stopping(c) # {} => stream[c] = "open"
    BY CallsAre DEF OwnInv, HeldAlive, Alive, Running, Closes, Tearing, Stopping
  <1> QED BY <1>1, <1>2, <1>3, <1>4 DEF OneOwner

(***************************************************************************)
(* However many calls of Connect there are and however the goroutines      *)
(* interleave, handleDisconnect closes what it took from the Engine and    *)
(* nobody else has it: no connection is closed twice and no device, and    *)
(* the Engine never holds one that is closed (engine.go:759-808).          *)
(***************************************************************************)
THEOREM OwnersUnique == Spec => []OneOwner
PROOF
  <1>1. OwnInv /\ [Next]_vars => OwnInv'
    BY NextKeeps
  <1> QED BY InitOwns, <1>1, OwnedOnce, PTL DEF Spec
-----------------------------------------------------------------------------
(* Types *)

LEMMA TakeDownTypes ==
  ASSUME ClientTypeOK, NEW t \in Threads, TakeDown(t)
  PROVE  /\ state' \in {"Disconnected", "Connecting", "Connected"}
         /\ link' \in Threads /\ devices' \in Threads /\ channel' \in Threads
         /\ teardown' \in [Threads -> Holding]
PROOF
  <1>1. /\ state \in {"Disconnected", "Connecting", "Connected"}
        /\ link \in Threads /\ devices \in Threads /\ channel \in Threads
        /\ teardown \in [Threads -> Holding]
    BY DEF ClientTypeOK, EngineTypeOK
  <1>2. [at |-> "close", link |-> link, devices |-> devices] \in Holding
    BY <1>1 DEF Holding
  <1> QED BY <1>1, <1>2, CallsAre DEF TakeDown

MicTypes == [at : {"off", "top", "read", "ended"}, link : Threads,
             devices : Threads, open : BOOLEAN]

LEMMA TopTyped ==
  ASSUME ClientTypeOK
  PROVE  Top \in MicTypes
BY CallsAre DEF ClientTypeOK, EngineTypeOK, Top, MicOff, MicTypes

LEMMA TopNext ==
  ASSUME ClientTypeOK, NEW c \in Calls
  PROVE  [mic[c] EXCEPT !.at = "top"] \in MicTypes
PROOF
  <1>1. mic[c] \in MicTypes
    BY DEF ClientTypeOK, EngineTypeOK, MicTypes
  <1> QED BY <1>1 DEF MicTypes

LEMMA ConnectTypes ==
  ASSUME ClientTypeOK, NEW c \in Calls, Connect(c) \/ ConnectStep(c), UNCHANGED appVars
  PROVE  ClientTypeOK'
PROOF
  <1> USE DEF ClientTypeOK, EngineTypeOK, engineVars, taskVars, netVars, audioVars, userVars,
              appVars, ConnectLabels, ConnectAt, Post
  <1>1. CASE Connect(c)
    <2>1. connect \in [Calls -> ConnectLabels] /\ state \in {"Disconnected", "Connecting", "Connected"}
      OBVIOUS
    <2>2. connect' \in [Calls -> ConnectLabels] /\ state' \in {"Disconnected", "Connecting", "Connected"}
      <3> HIDE DEF ClientTypeOK, EngineTypeOK
      <3> QED BY <1>1, <2>1 DEF Connect
    <2> QED BY <1>1, <2>2 DEF Connect
  <1>2. CASE ReportConnecting(c)
    BY <1>2 DEF ReportConnecting
  <1>3. CASE Dial(c)
    BY <1>3 DEF Dial
  <1>4. CASE DialError(c)
    BY <1>4 DEF DialError, GiveUp
  <1>5. CASE Authenticate(c)
    BY <1>5 DEF Authenticate
  <1>6. CASE LoginError(c)
    BY <1>6 DEF LoginError, GiveUp
  <1>7. CASE ReportFailed(c)
    BY <1>7 DEF ReportFailed
  <1>8. CASE Link(c)
    BY <1>8, CallsAre DEF Link
  <1>9. CASE Receive(c)
    BY <1>9 DEF Receive
  <1>10. CASE ReportConnected(c)
    BY <1>10 DEF ReportConnected
  <1> QED BY <1>1, <1>2, <1>3, <1>4, <1>5, <1>6, <1>7, <1>8, <1>9, <1>10 DEF ConnectStep

LEMMA GoroutineTypes ==
  ASSUME ClientTypeOK, NEW c \in Calls,
         \/ Watch(c) \/ Audio(c) \/ Mic(c)
         \/ \E kick \in BOOLEAN : ServerCloses(c, kick),
         UNCHANGED appVars
  PROVE  ClientTypeOK'
PROOF
  <1> USE DEF ClientTypeOK, EngineTypeOK, engineVars, taskVars, netVars, audioVars,
              userVars, appVars
  <1>1. CASE ReadKick(c) \/ ConnectionLost(c)
    <2>1. TakeDown(c) /\ c \in Threads
      BY <1>1, CallsAre DEF ReadKick, ConnectionLost
    <2>2. /\ state' \in {"Disconnected", "Connecting", "Connected"}
          /\ link' \in Threads /\ devices' \in Threads /\ channel' \in Threads
          /\ teardown' \in [Threads -> Holding]
      BY <2>1, TakeDownTypes
    <2> QED BY <1>1, <2>2 DEF ReadKick, ConnectionLost
  <1>2. CASE ReadError(c)
    BY <1>2 DEF ReadError
  <1>3. CASE OpenStreams(c)
    BY <1>3 DEF OpenStreams
  <1>4. CASE OpenError(c)
    <2>1. [mic[c] EXCEPT !.at = "top"] \in MicTypes
      BY TopNext
    <2>2. portaudio' \in Nat /\ mic' \in [Calls -> MicTypes]
      <3>1. portaudio \in Nat /\ mic \in [Calls -> MicTypes]
        BY DEF MicTypes
      <3>2. mic' = [mic EXCEPT ![c] = [mic[c] EXCEPT !.at = "top"]]
        BY <1>4 DEF OpenError
      <3>3. \/ portaudio' = portaudio
            \/ portaudio > 0 /\ portaudio' \in {portaudio, portaudio - 1}
        BY <1>4 DEF OpenError
      <3> HIDE DEF ClientTypeOK, EngineTypeOK
      <3> QED BY <2>1, <3>1, <3>2, <3>3
    <2> QED BY <1>4, <2>2 DEF OpenError, MicTypes
  <1>5. CASE StoreDevices(c)
    <2>1. mic \in [Calls -> MicTypes] /\ [mic[c] EXCEPT !.at = "top"] \in MicTypes
      BY TopNext DEF MicTypes
    <2>2. mic' \in [Calls -> MicTypes]
      <3>1. mic' = [mic EXCEPT ![c] = [mic[c] EXCEPT !.at = "top"]]
        BY <1>5 DEF StoreDevices
      <3> HIDE DEF ClientTypeOK, EngineTypeOK
      <3> QED BY <2>1, <3>1
    <2> QED BY <1>5, <2>2, CallsAre DEF StoreDevices, MicTypes
  <1>6. CASE MicStarts(c)
    BY <1>6, TopTyped DEF MicStarts, MicTypes
  <1>7. CASE MicEnds(c)
    <2>1. [MicOff EXCEPT !.at = "ended"]
            \in [at : {"off", "top", "read", "ended"}, link : Threads,
                devices : Threads, open : BOOLEAN]
      BY CallsAre DEF MicOff
    <2> QED BY <1>7, <2>1 DEF MicEnds
  <1>8. CASE MicFrame(c)
    <2>1. late' \in [Calls -> Nat]
      <3>1. late \in [Calls -> Nat]
        OBVIOUS
      <3>2. late' = late \/ late' = [late EXCEPT ![c] = @ + 1]
        BY <1>8 DEF MicFrame
      <3> HIDE DEF ClientTypeOK, EngineTypeOK
      <3> QED BY <3>1, <3>2
    <2> QED BY <1>8, <2>1, TopTyped DEF MicFrame, MicTypes
  <1>9. CASE \E kick \in BOOLEAN : ServerCloses(c, kick)
    BY <1>9 DEF ServerCloses, Event
  <1> QED BY <1>1, <1>2, <1>3, <1>4, <1>5, <1>6, <1>7, <1>8, <1>9 DEF Watch, Audio, Mic

LEMMA WindowTypes ==
  ASSUME ClientTypeOK,
         \/ \E c \in Calls : SendForm(c) \/ TakeToken(c) \/ SaveAfterConnect(c)
         \/ PressDisconnect \/ ToggleMute \/ SelectChannel \/ RunPosted
         \/ SetChannel /\ UNCHANGED appVars
         \/ \E t \in Threads : FinishTeardown(t) /\ UNCHANGED appVars
  PROVE  ClientTypeOK'
PROOF
  <1> USE DEF ClientTypeOK, EngineTypeOK, engVars, engineVars, taskVars, netVars, audioVars,
              userVars, appVars
  <1>1. ASSUME NEW c \in Calls, SendForm(c)
        PROVE  ClientTypeOK'
    <2>1. form' \in [server : Threads, token : Threads, saved : BOOLEAN]
      BY <1>1, CallsAre DEF SendForm, Typed, None
    <2>2. saving' \subseteq Calls /\ crossed' \subseteq Calls
      BY <1>1 DEF SendForm
    <2> QED BY <1>1, <2>1, <2>2 DEF SendForm, Event, ConnectLabels
  <1>2. ASSUME NEW c \in Calls, TakeToken(c)
        PROVE  ClientTypeOK'
    <2>1. form' \in [server : Threads, token : Threads, saved : BOOLEAN]
      BY <1>2, CallsAre DEF TakeToken
    <2>2. connect' \in [Calls -> ConnectLabels]
      BY <1>2 DEF TakeToken, Return, ConnectAt, ConnectLabels
    <2>3. posted' \in Seq({"Disconnected", "Connecting", "Connected", "Token"})
      <3>1. posted \in Seq({"Disconnected", "Connecting", "Connected", "Token"})
        OBVIOUS
      <3>2. posted' = posted \/ posted' = Append(posted, "Token")
        BY <1>2 DEF TakeToken, Return, Post
      <3> HIDE DEF ClientTypeOK, EngineTypeOK
      <3> QED BY <3>1, <3>2
    <2> QED BY <1>2, <2>1, <2>2, <2>3 DEF TakeToken, Return
  <1>3. ASSUME NEW c \in Calls, SaveAfterConnect(c)
        PROVE  ClientTypeOK'
    BY <1>3 DEF SaveAfterConnect, SaveCurrentBookmark, Add
  <1>4. CASE PressDisconnect
    <2>1. TakeDown(None)
      BY <1>4 DEF PressDisconnect, Disconnect
    <2>2. /\ state' \in {"Disconnected", "Connecting", "Connected"}
          /\ link' \in Threads /\ devices' \in Threads /\ channel' \in Threads
          /\ teardown' \in [Threads -> Holding]
      BY <2>1, CallsAre, TakeDownTypes
    <2> QED BY <1>4, <2>2 DEF PressDisconnect, Disconnect, Event
  <1>5. CASE ToggleMute
    BY <1>5 DEF ToggleMute, SetMuted, Event
  <1>6. CASE SelectChannel
    BY <1>6 DEF SelectChannel, Request, Event
  <1>7. CASE RunPosted
    <2>1. /\ Head(posted) \in {"Disconnected", "Connecting", "Connected", "Token"}
          /\ Tail(posted) \in Seq({"Disconnected", "Connecting", "Connected", "Token"})
      BY <1>7 DEF RunPosted
    <2>2. CASE Head(posted) = "Token"
      BY <1>7, <2>1, <2>2 DEF RunPosted, SaveCurrentBookmark, Add
    <2>3. CASE Head(posted) # "Token"
      <3>1. /\ screen' \in {"Disconnected", "Connecting", "Connected"}
            /\ enabled' \subseteq {"connect", "disconnect"}
            /\ bookmarks' = bookmarks
        BY <1>7, <2>1, <2>3 DEF RunPosted, ShowState
      <3> QED BY <1>7, <2>1, <3>1 DEF RunPosted
    <2> QED BY <2>2, <2>3
  <1>8. CASE SetChannel /\ UNCHANGED appVars
    BY <1>8, CallsAre DEF SetChannel
  <1>9. ASSUME NEW t \in Threads, FinishTeardown(t), UNCHANGED appVars
        PROVE  ClientTypeOK'
    <2>1. teardown' \in [Threads -> Holding]
      <3>1. teardown \in [Threads -> Holding]
        OBVIOUS
      <3> HIDE DEF ClientTypeOK, EngineTypeOK
      <3>2. [teardown[t] EXCEPT !.at = "report"] \in Holding
        BY <3>1 DEF Holding
      <3>3. Idle \in Holding
        BY CallsAre DEF Idle, Holding
      <3>4. \/ teardown' = [teardown EXCEPT ![t] = [teardown[t] EXCEPT !.at = "report"]]
            \/ teardown' = [teardown EXCEPT ![t] = Idle]
        BY <1>9 DEF FinishTeardown, CloseAll, ReportDisconnected
      <3> QED BY <3>1, <3>2, <3>3, <3>4
    <2>2. CASE CloseAll(t)
      <3>1. stream' \in [Calls -> {"none", "open", "closed"}] /\ portaudio' \in Nat
        <4>1. stream \in [Calls -> {"none", "open", "closed"}] /\ portaudio \in Nat
          OBVIOUS
        <4>2. \/ UNCHANGED <<stream, portaudio>>
              \/ /\ stream' = [stream EXCEPT ![teardown[t].devices] = "closed"]
                 /\ portaudio' = IF portaudio = 0 THEN 0 ELSE portaudio - 1
          BY <2>2 DEF CloseAll, CloseDevices
        <4> HIDE DEF ClientTypeOK, EngineTypeOK
        <4> QED BY <4>1, <4>2
      <3>2. socket' \in [Calls -> {"none", "open", "lost", "closed"}]
        BY <2>2 DEF CloseAll
      <3>3. /\ UNCHANGED <<state, link, devices, channel, muted, connect, rx, monitor, audio>>
            /\ UNCHANGED <<mic, asking, kicked, events, late, posted>>
        BY <2>2 DEF CloseAll
      <3> QED BY <1>9, <2>1, <3>1, <3>2, <3>3
    <2>3. CASE ReportDisconnected(t)
      <3>1. posted' \in Seq({"Disconnected", "Connecting", "Connected", "Token"})
        BY <2>3 DEF ReportDisconnected, Post
      <3>2. /\ UNCHANGED <<state, link, devices, channel, muted, connect, rx, monitor, audio>>
            /\ UNCHANGED <<mic, asking, socket, kicked, stream, portaudio, events, late>>
        BY <2>3 DEF ReportDisconnected
      <3> QED BY <1>9, <2>1, <3>1, <3>2
    <2> QED BY <1>9, <2>2, <2>3 DEF FinishTeardown
  <1> QED BY <1>1, <1>2, <1>3, <1>4, <1>5, <1>6, <1>7, <1>8, <1>9

(***************************************************************************)
(* Every field, goroutine and posted callback of the client keeps its      *)
(* type (engine.go, app.go).                                               *)
(***************************************************************************)
THEOREM ClientTypes == Spec => []ClientTypeOK
PROOF
  <1>1. Init => ClientTypeOK
    <2> SUFFICES ASSUME Init PROVE ClientTypeOK
      OBVIOUS
    <2>1. EngineTypeOK
      <3>1. /\ mic \in [Calls -> [at : {"off", "top", "read", "ended"}, link : Threads,
                                  devices : Threads, open : BOOLEAN]]
            /\ teardown \in [Threads -> Holding]
        BY CallsAre DEF Init, EngineInit, MicOff, Idle, Holding
      <3>2. /\ connect \in [Calls -> ConnectLabels]
            /\ rx \in [Calls -> {"off", "reading", "ended"}]
            /\ monitor \in [Calls -> {"off", "waiting", "ended"}]
            /\ audio \in [Calls -> {"off", "init", "opened", "open", "failed"}]
            /\ socket \in [Calls -> {"none", "open", "lost", "closed"}]
            /\ stream \in [Calls -> {"none", "open", "closed"}]
        BY DEF Init, EngineInit, ConnectLabels
      <3>3. /\ portaudio \in Nat /\ events \in Nat /\ late \in [Calls -> Nat]
            /\ posted \in Seq({"Disconnected", "Connecting", "Connected", "Token"})
        BY ClientAssumption DEF Init, EngineInit, PreInitAudio
      <3> QED BY <3>1, <3>2, <3>3, CallsAre DEF Init, EngineInit, EngineTypeOK
    <2> QED BY <2>1, CallsAre DEF Init, ClientTypeOK, Typed, Nothing, None
  <1>2. ClientTypeOK /\ [Next]_vars => ClientTypeOK'
    <2> SUFFICES ASSUME ClientTypeOK, [Next]_vars PROVE ClientTypeOK'
      OBVIOUS
    <2>1. CASE Next
      BY <2>1, ConnectTypes, GoroutineTypes, WindowTypes DEF Next, Engine
    <2>2. CASE UNCHANGED vars
      BY <2>2 DEF ClientTypeOK, EngineTypeOK, vars, engVars, engineVars, taskVars, netVars,
                  audioVars, userVars, appVars
    <2> QED BY <2>1, <2>2
  <1> QED BY <1>1, <1>2, PTL DEF Spec

-----------------------------------------------------------------------------
(* What the microphone loops send *)

\* One frame late at most, and after it the loop has seen that the user muted
MicInv ==
  \A c \in Calls :
    /\ late[c] \in {0, 1}
    /\ muted /\ late[c] = 1 => ~mic[c].open

\* Steps of anything but the loops and the mute button
LEMMA MicAside ==
  ASSUME MicInv, UNCHANGED <<late, muted, mic>>
  PROVE  MicInv'
BY DEF MicInv

\* The audio goroutine starts the loop of its call
LEMMA MicBegins ==
  ASSUME ClientTypeOK, MicInv, NEW c \in Calls, UNCHANGED <<late, muted>>,
         mic' = [mic EXCEPT ![c].at = "top"]
  PROVE  MicInv'
BY DEF ClientTypeOK, EngineTypeOK, MicInv

LEMMA MicTops ==
  ASSUME ClientTypeOK, MicInv, NEW c \in Calls, Mic(c)
  PROVE  MicInv'
PROOF
  <1>1. Top.open => ~muted
    BY DEF Top, MicOff
  <1>2. ~[MicOff EXCEPT !.at = "ended"].open
    BY DEF MicOff
  <1>3. CASE MicStarts(c)
    <2>1. mic' = [mic EXCEPT ![c] = Top] /\ UNCHANGED <<late, muted>>
      BY <1>3 DEF MicStarts, userVars, engineVars
    <2> HIDE DEF Top
    <2> QED BY <1>1, <2>1 DEF ClientTypeOK, EngineTypeOK, MicInv
  <1>4. CASE MicEnds(c)
    <2>1. mic' = [mic EXCEPT ![c] = [MicOff EXCEPT !.at = "ended"]] /\ UNCHANGED <<late, muted>>
      BY <1>4 DEF MicEnds, userVars, engineVars
    <2> QED BY <1>2, <2>1 DEF ClientTypeOK, EngineTypeOK, MicInv, MicOff
  <1>5. CASE MicFrame(c)
    <2>1. /\ mic' = [mic EXCEPT ![c] = Top] /\ UNCHANGED muted
          /\ \/ late' = late
             \/ mic[c].open /\ muted /\ late' = [late EXCEPT ![c] = @ + 1]
      BY <1>5 DEF MicFrame, engineVars
    <2>2. mic'[c] = Top /\ \A d \in Calls : d # c => mic'[d] = mic[d]
      BY <2>1 DEF ClientTypeOK, EngineTypeOK
    <2>3. /\ late'[c] = late[c] \/ (mic[c].open /\ muted /\ late'[c] = late[c] + 1)
          /\ \A d \in Calls : d # c => late'[d] = late[d]
      BY <2>1 DEF ClientTypeOK, EngineTypeOK
    <2>4. late'[c] \in {0, 1}
      BY <2>3 DEF MicInv
    <2> HIDE DEF Top
    <2> QED BY <1>1, <2>1, <2>2, <2>3, <2>4 DEF MicInv
  <1> QED BY <1>3, <1>4, <1>5 DEF Mic

LEMMA MicNext ==
  ASSUME ClientTypeOK, MicInv, [Next]_vars
  PROVE  MicInv'
PROOF
  <1>1. CASE ToggleMute
    BY <1>1 DEF ToggleMute, SetMuted, MicInv
  <1>2. ASSUME NEW c \in Calls, Audio(c)
        PROVE  MicInv'
    <2>1. UNCHANGED <<late, muted>> /\ (UNCHANGED mic \/ mic' = [mic EXCEPT ![c].at = "top"])
      BY <1>2 DEF Audio, OpenStreams, OpenError, StoreDevices, engineVars, userVars
    <2> QED BY <2>1, MicAside, MicBegins
  <1>3. ASSUME NEW c \in Calls, Mic(c)
        PROVE  MicInv'
    BY <1>3, MicTops
  <1>4. ASSUME NEW c \in Calls, Connect(c) \/ ConnectStep(c) \/ Watch(c)
        PROVE  MicInv'
    BY <1>4, MicAside
    DEF Connect, ConnectStep, ReportConnecting, Dial, DialError, Authenticate, LoginError,
        ReportFailed, Link, Receive, ReportConnected, GiveUp, Watch, ReadKick, ReadError,
        ConnectionLost, engineVars, userVars
  <1>5. ASSUME NEW c \in Calls,
               \/ SendForm(c) \/ TakeToken(c) \/ SaveAfterConnect(c)
               \/ \E kick \in BOOLEAN : ServerCloses(c, kick)
        PROVE  MicInv'
    BY <1>5, MicAside
    DEF SendForm, TakeToken, Return, SaveAfterConnect, ServerCloses, engVars, engineVars,
        taskVars, userVars
  <1>6. CASE PressDisconnect \/ SelectChannel \/ RunPosted \/ SetChannel
    BY <1>6, MicAside
    DEF PressDisconnect, Disconnect, SelectChannel, Request, RunPosted, SetChannel,
        engineVars, taskVars, userVars
  <1>7. ASSUME NEW t \in Threads, FinishTeardown(t)
        PROVE  MicInv'
    BY <1>7, MicAside DEF FinishTeardown, CloseAll, ReportDisconnected, engineVars, userVars
  <1>8. CASE UNCHANGED vars
    BY <1>8, MicAside DEF vars, engVars, engineVars, taskVars, userVars
  <1> QED BY <1>1, <1>2, <1>3, <1>4, <1>5, <1>6, <1>7, <1>8 DEF Next, Engine

(***************************************************************************)
(* captureLoop tests its copy of muted after the wait for a frame: each    *)
(* loop sends one more frame at most after the user has muted, also a loop *)
(* that runs on after the connection it was started for (engine.go:229).   *)
(***************************************************************************)
THEOREM OneFrameLate == Spec => []AfterMute
PROOF
  <1>1. Init => MicInv
    BY DEF Init, EngineInit, MicInv
  <1>2. MicInv => AfterMute
    BY DEF MicInv, AfterMute
  <1> QED BY <1>1, <1>2, MicNext, ClientTypes, PTL DEF Spec

-----------------------------------------------------------------------------
(* What an Engine that says Connected holds *)

\* "Connected" comes with a connection; its goroutines have started by the time
\* Connect returns, and the monitor has not taken it down
LiveInv ==
  /\ state = "Connected" => link # None /\ monitor[link] # "ended"
  /\ \A c \in Calls :
       /\ connect[c] \in {"report", "return", "returned"} => rx[c] # "off"
       /\ connect[c] = "returned" <=> monitor[c] # "off"

\* Steps that neither connect nor take down
LEMMA LiveAside ==
  ASSUME LiveInv, UNCHANGED <<state, link, monitor, rx, connect>>
  PROVE  LiveInv'
BY DEF LiveInv

\* handleDisconnect, run by the monitor of call c or by another thread
LEMMA TakeDownLive ==
  ASSUME ClientTypeOK, LiveInv, NEW t \in Threads, TakeDown(t), UNCHANGED <<rx, connect>>,
         \/ UNCHANGED monitor
         \/ \E c \in Calls : monitor[c] = "waiting" /\ monitor' = [monitor EXCEPT ![c] = "ended"]
  PROVE  LiveInv'
PROOF
  <1>1. state' = "Disconnected"
    BY DEF TakeDown
  <1>2. \A c \in Calls : monitor'[c] # "off" <=> monitor[c] # "off"
    BY DEF ClientTypeOK, EngineTypeOK
  <1> QED BY <1>1, <1>2 DEF LiveInv

\* A step of Connect up to the link, and the form that starts it
LEMMA DialLive ==
  ASSUME ClientTypeOK, LiveInv, NEW c \in Calls, NEW label \in ConnectLabels,
         connect' = [connect EXCEPT ![c] = label],
         connect[c] # "returned", label \notin {"report", "return", "returned"},
         state' = state \/ state' # "Connected",
         UNCHANGED <<link, monitor, rx>>
  PROVE  LiveInv'
PROOF
  <1>1. connect'[c] = label /\ \A d \in Calls : d # c => connect'[d] = connect[d]
    BY DEF ClientTypeOK, EngineTypeOK
  <1> QED BY <1>1 DEF LiveInv

LEMMA ConnectLive ==
  ASSUME ClientTypeOK, LiveInv, NEW c \in Calls,
         SendForm(c) \/ Connect(c) \/ ConnectStep(c) \/ TakeToken(c)
  PROVE  LiveInv'
PROOF
  <1> USE DEF engineVars, taskVars, netVars
  <1>1. CASE SendForm(c)
    <2>1. /\ connect[c] = "unused" /\ connect' = [connect EXCEPT ![c] = "new"]
          /\ UNCHANGED <<state, link, monitor, rx>>
      BY <1>1 DEF SendForm
    <2> QED BY <2>1, DialLive DEF ConnectLabels
  <1>2. CASE Connect(c)
    <2>1. connect[c] = "new" /\ UNCHANGED <<link, monitor, rx>>
      BY <1>2 DEF Connect
    <2>2. \/ connect' = [connect EXCEPT ![c] = "started"] /\ state' = "Connecting"
          \/ connect' = [connect EXCEPT ![c] = "refused"] /\ state' = state
      BY <1>2 DEF Connect
    <2> QED BY <2>1, <2>2, DialLive DEF ConnectLabels
  <1>3. CASE \/ ReportConnecting(c) \/ Dial(c) \/ DialError(c) \/ Authenticate(c)
             \/ LoginError(c) \/ ReportFailed(c)
    <2>1. /\ connect[c] \in {"started", "dial", "login", "failed"}
          /\ \E label \in {"dial", "login", "link", "failed", "refused"} :
               connect' = [connect EXCEPT ![c] = label]
          /\ state' = state \/ state' = "Disconnected"
          /\ UNCHANGED <<link, monitor, rx>>
      BY <1>3 DEF ReportConnecting, Dial, DialError, Authenticate, LoginError, ReportFailed,
                  GiveUp, ConnectAt
    <2> QED BY <2>1, DialLive DEF ConnectLabels
  <1>4. CASE Link(c)
    <2>1. /\ connect[c] = "link" /\ connect' = [connect EXCEPT ![c] = "receive"]
          /\ link' = c /\ UNCHANGED <<monitor, rx>>
      BY <1>4 DEF Link, ConnectAt
    <2>2. connect'[c] = "receive" /\ \A d \in Calls : d # c => connect'[d] = connect[d]
      BY <2>1 DEF ClientTypeOK, EngineTypeOK
    <2>3. monitor[c] = "off"
      BY <2>1 DEF LiveInv, ClientTypeOK, EngineTypeOK
    <2> QED BY <2>1, <2>2, <2>3, CallsAre DEF LiveInv
  <1>5. CASE Receive(c)
    <2>1. /\ connect[c] = "receive" /\ connect' = [connect EXCEPT ![c] = "report"]
          /\ rx' = [rx EXCEPT ![c] = "reading"] /\ UNCHANGED <<state, link, monitor>>
      BY <1>5 DEF Receive, ConnectAt
    <2>2. /\ connect'[c] = "report" /\ \A d \in Calls : d # c => connect'[d] = connect[d]
          /\ rx'[c] = "reading" /\ \A d \in Calls : d # c => rx'[d] = rx[d]
      BY <2>1 DEF ClientTypeOK, EngineTypeOK
    <2> QED BY <2>1, <2>2 DEF LiveInv
  <1>6. CASE ReportConnected(c)
    <2>1. /\ connect[c] = "report" /\ connect' = [connect EXCEPT ![c] = "return"]
          /\ UNCHANGED <<state, link, monitor, rx>>
      BY <1>6 DEF ReportConnected, ConnectAt
    <2>2. connect'[c] = "return" /\ \A d \in Calls : d # c => connect'[d] = connect[d]
      BY <2>1 DEF ClientTypeOK, EngineTypeOK
    <2> QED BY <2>1, <2>2 DEF LiveInv
  <1>7. CASE TakeToken(c)
    <2>1. /\ connect[c] = "return" /\ connect' = [connect EXCEPT ![c] = "returned"]
          /\ monitor' = [monitor EXCEPT ![c] = "waiting"]
          /\ UNCHANGED <<state, link, rx>>
      BY <1>7 DEF TakeToken, Return, ConnectAt
    <2>2. /\ connect'[c] = "returned" /\ \A d \in Calls : d # c => connect'[d] = connect[d]
          /\ monitor'[c] = "waiting" /\ \A d \in Calls : d # c => monitor'[d] = monitor[d]
      BY <2>1 DEF ClientTypeOK, EngineTypeOK
    <2>3. state' = "Connected" => monitor'[link'] # "ended"
      BY <2>1, <2>2, CallsAre DEF LiveInv, ClientTypeOK, EngineTypeOK, Threads
    <2> QED BY <2>1, <2>2, <2>3 DEF LiveInv
  <1> QED BY <1>1, <1>2, <1>3, <1>4, <1>5, <1>6, <1>7 DEF ConnectStep

LEMMA WatchLive ==
  ASSUME ClientTypeOK, LiveInv, NEW c \in Calls, Watch(c)
  PROVE  LiveInv'
PROOF
  <1>1. CASE ReadKick(c)
    BY <1>1, CallsAre, TakeDownLive DEF ReadKick
  <1>2. CASE ConnectionLost(c)
    BY <1>2, CallsAre, TakeDownLive DEF ConnectionLost
  <1>3. CASE ReadError(c)
    <2>1. /\ rx[c] = "reading" /\ rx' = [rx EXCEPT ![c] = "ended"]
          /\ UNCHANGED <<state, link, monitor, connect>>
      BY <1>3 DEF ReadError, engineVars
    <2>2. \A d \in Calls : rx'[d] # "off" <=> rx[d] # "off"
      BY <2>1 DEF ClientTypeOK, EngineTypeOK
    <2> QED BY <2>1, <2>2 DEF LiveInv
  <1> QED BY <1>1, <1>2, <1>3 DEF Watch

LEMMA LiveNext ==
  ASSUME ClientTypeOK, LiveInv, [Next]_vars
  PROVE  LiveInv'
PROOF
  <1>1. ASSUME NEW c \in Calls,
               \/ SendForm(c) \/ Connect(c) \/ ConnectStep(c) \/ TakeToken(c) \/ Watch(c)
        PROVE  LiveInv'
    BY <1>1, ConnectLive, WatchLive
  <1>2. CASE PressDisconnect
    BY <1>2, CallsAre, TakeDownLive DEF PressDisconnect, Disconnect
  <1>3. ASSUME NEW c \in Calls,
               \/ Audio(c) \/ Mic(c) \/ SaveAfterConnect(c)
               \/ \E kick \in BOOLEAN : ServerCloses(c, kick)
        PROVE  LiveInv'
    BY <1>3, LiveAside
    DEF Audio, OpenStreams, OpenError, StoreDevices, Mic, MicStarts, MicEnds, MicFrame,
        SaveAfterConnect, ServerCloses, engVars, engineVars, taskVars
  <1>4. CASE ToggleMute \/ SelectChannel \/ RunPosted \/ SetChannel
    BY <1>4, LiveAside
    DEF ToggleMute, SetMuted, SelectChannel, Request, RunPosted, SetChannel, engineVars,
        taskVars
  <1>5. ASSUME NEW t \in Threads, FinishTeardown(t)
        PROVE  LiveInv'
    BY <1>5, LiveAside DEF FinishTeardown, CloseAll, ReportDisconnected, engineVars
  <1>6. CASE UNCHANGED vars
    BY <1>6, LiveAside DEF vars, engVars, engineVars, taskVars
  <1> QED BY <1>1, <1>2, <1>3, <1>4, <1>5, <1>6 DEF Next, Engine

(***************************************************************************)
(* Connect stores a connection and says Connected before the goroutines    *)
(* that watch it start (engine.go:140-187), and a teardown may come at any *)
(* time: once they have done what they can, an Engine that says Connected  *)
(* holds a connection that is open at both ends and watched.               *)
(***************************************************************************)
THEOREM NoDeadConnection == Spec => []ConnectedIsLive
PROOF
  <1>1. Init => LiveInv
    BY DEF Init, EngineInit, LiveInv
  <1>2. ClientTypeOK /\ OwnInv /\ LiveInv => ConnectedIsLive
    <2> SUFFICES ASSUME ClientTypeOK, OwnInv, LiveInv, Settled, state = "Connected"
                 PROVE  /\ link # None /\ socket[link] = "open"
                        /\ rx[link] = "reading" /\ monitor[link] = "waiting"
      BY DEF ConnectedIsLive
    <2>1. link \in Calls /\ connect[link] \in Linked
      BY CallsAre DEF LiveInv, OwnInv, OwnTypes, HeldAlive, Alive, Threads
    <2>2. connect[link] = "returned"
      BY <2>1 DEF Settled, Quiet, Linked
    <2>3. monitor[link] = "waiting" /\ rx[link] # "off"
      BY <2>1, <2>2 DEF LiveInv, ClientTypeOK, EngineTypeOK
    <2>4. rx[link] = "reading"
      BY <2>1, <2>3 DEF Settled, ClientTypeOK, EngineTypeOK
    <2>5. socket[link] = "open"
      BY <2>1, <2>4 DEF Settled
    <2> QED BY <2>1, <2>3, <2>4, <2>5, CallsAre
  <1> QED BY <1>1, <1>2, LiveNext, ClientTypes, InitOwns, NextKeeps, PTL DEF Spec

-----------------------------------------------------------------------------
(* What the window is told *)

Items == {"Disconnected", "Connecting", "Connected", "Token"}
Answers == {"Disconnected", "Connected"}

\* Every "Connecting", on the screen scr or in the queue q, has an answer after it
Answered(scr, q) ==
  /\ scr = "Connecting" => \E j \in 1 .. Len(q) : q[j] \in Answers
  /\ \A i \in 1 .. Len(q) :
       q[i] = "Connecting" => \E j \in i + 1 .. Len(q) : q[j] \in Answers

\* What an item that runs leaves on the screen
Shown(scr, x) == IF x = "Token" THEN scr ELSE x

\* An answer is one to all that is posted before it
LEMMA AnsweredPosted ==
  ASSUME NEW scr, NEW q \in Seq(Items), NEW x \in Items
  PROVE  /\ x \in Answers => Answered(scr, Append(q, x))
         /\ x # "Connecting" /\ Answered(scr, q) => Answered(scr, Append(q, x))
PROOF
  <1> DEFINE r == Append(q, x)
  <1>1. Len(r) = Len(q) + 1 /\ Len(q) \in Nat /\ r[Len(q) + 1] = x
    OBVIOUS
  <1>2. \A i \in 1 .. Len(q) : r[i] = q[i]
    OBVIOUS
  <1> HIDE DEF r
  <1>3. \A i \in 1 .. Len(r) : i \in 1 .. Len(q) \/ i = Len(q) + 1
    BY <1>1
  <1>4. ASSUME x \in Answers
        PROVE  Answered(scr, r)
    <2>1. x # "Connecting"
      BY <1>4 DEF Answers
    <2>2. \A i \in 1 .. Len(q) : Len(q) + 1 \in i + 1 .. Len(r)
      BY <1>1
    <2>3. Len(q) + 1 \in 1 .. Len(r)
      BY <1>1
    <2> QED BY <1>1, <1>2, <1>3, <1>4, <2>1, <2>2, <2>3 DEF Answered
  <1>5. ASSUME x # "Connecting", Answered(scr, q)
        PROVE  Answered(scr, r)
    <2>1. \A i \in 0 .. Len(q) : \A j \in i + 1 .. Len(q) : j \in i + 1 .. Len(r) /\ j \in 1 .. Len(q)
      BY <1>1
    <2>2. scr = "Connecting" => \E j \in 1 .. Len(r) : r[j] \in Answers
      BY <1>1, <1>2, <1>5 DEF Answered
    <2>3. ASSUME NEW i \in 1 .. Len(r), r[i] = "Connecting"
          PROVE  \E j \in i + 1 .. Len(r) : r[j] \in Answers
      <3>1. i \in 1 .. Len(q) /\ q[i] = "Connecting"
        BY <1>1, <1>2, <1>3, <1>5, <2>3
      <3>2. PICK j \in i + 1 .. Len(q) : q[j] \in Answers
        BY <1>5, <3>1 DEF Answered
      <3>3. i \in 0 .. Len(q)
        BY <3>1
      <3> QED BY <1>2, <2>1, <3>2, <3>3
    <2> QED BY <2>2, <2>3 DEF Answered
  <1> QED BY <1>4, <1>5 DEF r

\* The first item runs
LEMMA AnsweredRun ==
  ASSUME NEW scr, NEW q \in Seq(Items), q # <<>>, Answered(scr, q)
  PROVE  Answered(Shown(scr, Head(q)), Tail(q))
PROOF
  <1> DEFINE r == Tail(q)
  <1>1. Len(r) = Len(q) - 1 /\ Len(q) \in Nat \ {0} /\ Head(q) = q[1]
    OBVIOUS
  <1>2. \A i \in 1 .. Len(r) : r[i] = q[i + 1]
    OBVIOUS
  <1> HIDE DEF r
  <1>3. \A k \in 1 .. Len(q) : \A j \in k + 1 .. Len(q) :
          j - 1 \in k .. Len(r) /\ j - 1 \in 1 .. Len(r) /\ r[j - 1] = q[j]
    BY <1>1, <1>2
  <1>4. 1 \in 1 .. Len(q) /\ \A i \in 1 .. Len(r) : i + 1 \in 1 .. Len(q)
    BY <1>1
  <1>5. Shown(scr, Head(q)) = "Connecting" => \E j \in 1 .. Len(r) : r[j] \in Answers
    <2>1. CASE q[1] = "Connecting"
      <3>1. PICK j \in 1 + 1 .. Len(q) : q[j] \in Answers
        BY <1>4, <2>1 DEF Answered
      <3> QED BY <1>3, <1>4, <3>1
    <2>2. CASE q[1] = "Token" /\ scr = "Connecting"
      <3>1. PICK j \in 1 .. Len(q) : q[j] \in Answers
        BY <2>2 DEF Answered
      <3>2. j # 1
        BY <2>2, <3>1 DEF Answers
      <3>3. j \in 1 + 1 .. Len(q)
        BY <1>1, <3>1, <3>2
      <3> QED BY <1>3, <1>4, <3>1, <3>3
    <2> QED BY <1>1, <2>1, <2>2 DEF Shown
  <1>6. ASSUME NEW i \in 1 .. Len(r), r[i] = "Connecting"
        PROVE  \E j \in i + 1 .. Len(r) : r[j] \in Answers
    <2>1. q[i + 1] = "Connecting"
      BY <1>2, <1>6
    <2>2. PICK j \in (i + 1) + 1 .. Len(q) : q[j] \in Answers
      BY <1>4, <2>1 DEF Answered
    <2> QED BY <1>3, <1>4, <2>2
  <1> QED BY <1>5, <1>6 DEF Answered, r

-----------------------------------------------------------------------------
\* A call of Connect that has said "Connecting" and nothing since
UnderWay == {"dial", "login", "link", "receive", "report", "failed"}

ScreenInv ==
  /\ screen = "Disconnected" => enabled = {"connect"}
  /\ screen = "Connected" => enabled = {"disconnect"}
  /\ Answered(screen, posted) \/ \E c \in Calls : connect[c] \in UnderWay

\* Steps that post nothing, run nothing and end no call that is under way
LEMMA ScreenAside ==
  ASSUME ScreenInv, UNCHANGED <<screen, enabled, posted>>,
         \A c \in Calls : connect[c] \in UnderWay => connect'[c] \in UnderWay
  PROVE  ScreenInv'
BY DEF ScreenInv

\* Who has nothing more to say says so
LEMMA ScreenAnswer ==
  ASSUME ScreenInv, posted \in Seq(Items), UNCHANGED <<screen, enabled>>,
         \E x \in Answers : posted' = Append(posted, x)
  PROVE  ScreenInv'
PROOF
  <1>1. PICK x \in Answers : posted' = Append(posted, x)
    OBVIOUS
  <1>2. x \in Items
    BY DEF Answers, Items
  <1>3. Answered(screen', posted')
    BY <1>1, <1>2, AnsweredPosted
  <1> QED BY <1>3 DEF ScreenInv

LEMMA ConnectScreen ==
  ASSUME ClientTypeOK, ScreenInv, NEW c \in Calls,
         \/ (Connect(c) \/ ConnectStep(c)) /\ UNCHANGED appVars
         \/ SendForm(c) \/ TakeToken(c)
  PROVE  ScreenInv'
PROOF
  <1> USE DEF engineVars, taskVars, appVars
  <1>1. posted \in Seq(Items)
    BY DEF ClientTypeOK, EngineTypeOK, Items
  <1>2. connect \in [Calls -> ConnectLabels]
    BY DEF ClientTypeOK, EngineTypeOK
  <1>3. CASE ReportConnecting(c) /\ UNCHANGED appVars
    <2>1. connect'[c] = "dial"
      BY <1>2, <1>3 DEF ReportConnecting, ConnectAt
    <2> QED BY <1>3, <2>1 DEF ScreenInv, UnderWay
  <1>4. CASE (ReportFailed(c) \/ ReportConnected(c)) /\ UNCHANGED appVars
    BY <1>1, <1>4, ScreenAnswer DEF ReportFailed, ReportConnected, Post, Answers
  <1>5. CASE (Connect(c) \/ SendForm(c)) /\ UNCHANGED <<screen, enabled>>
    <2>1. /\ connect[c] \in {"unused", "new"} /\ UNCHANGED <<screen, enabled, posted>>
          /\ \E label \in ConnectLabels : connect' = [connect EXCEPT ![c] = label]
      BY <1>5 DEF Connect, SendForm, ConnectLabels
    <2> QED BY <1>2, <2>1, ScreenAside DEF UnderWay
  <1>6. CASE /\ Dial(c) \/ DialError(c) \/ Authenticate(c) \/ LoginError(c) \/ Link(c) \/ Receive(c)
             /\ UNCHANGED appVars
    <2>1. /\ UNCHANGED <<screen, enabled, posted>>
          /\ \E label \in UnderWay : connect' = [connect EXCEPT ![c] = label]
      BY <1>6 DEF Dial, DialError, Authenticate, LoginError, Link, Receive, GiveUp, ConnectAt,
                  UnderWay
    <2> QED BY <1>2, <2>1, ScreenAside
  <1>7. CASE TakeToken(c)
    <2>1. /\ connect[c] = "return" /\ connect' = [connect EXCEPT ![c] = "returned"]
          /\ posted' = posted \/ posted' = Append(posted, "Token")
          /\ UNCHANGED <<screen, enabled>>
      BY <1>7 DEF TakeToken, Return, ConnectAt, Post
    <2>2. Answered(screen, posted) => Answered(screen, posted')
      BY <1>1, <2>1, AnsweredPosted DEF Items
    <2>3. \A d \in Calls : connect[d] \in UnderWay => connect'[d] \in UnderWay
      BY <1>2, <2>1 DEF UnderWay
    <2> QED BY <2>1, <2>2, <2>3 DEF ScreenInv
  <1> QED BY <1>3, <1>4, <1>5, <1>6, <1>7 DEF ConnectStep, SendForm

LEMMA RunScreen ==
  ASSUME ClientTypeOK, ScreenInv, RunPosted
  PROVE  ScreenInv'
PROOF
  <1>1. posted \in Seq(Items) /\ posted # <<>> /\ posted' = Tail(posted) /\ connect' = connect
    BY DEF RunPosted, ClientTypeOK, EngineTypeOK, Items, taskVars
  <1>2. screen' = Shown(screen, Head(posted))
    BY DEF RunPosted, ShowState, Shown
  <1>3. Head(posted) \in Items
    BY <1>1
  <1>4. /\ screen' = "Disconnected" => enabled' = {"connect"}
        /\ screen' = "Connected" => enabled' = {"disconnect"}
    <2>1. CASE Head(posted) = "Token"
      BY <2>1 DEF RunPosted, ScreenInv
    <2>2. CASE Head(posted) # "Token"
      BY <1>3, <2>2 DEF RunPosted, ShowState, Items
    <2> QED BY <2>1, <2>2
  <1>5. Answered(screen, posted) => Answered(screen', posted')
    BY <1>1, <1>2, AnsweredRun
  <1> QED BY <1>1, <1>4, <1>5 DEF ScreenInv

LEMMA ScreenNext ==
  ASSUME ClientTypeOK, ScreenInv, [Next]_vars
  PROVE  ScreenInv'
PROOF
  <1>1. ASSUME NEW c \in Calls,
               \/ (Connect(c) \/ ConnectStep(c)) /\ UNCHANGED appVars
               \/ SendForm(c) \/ TakeToken(c)
        PROVE  ScreenInv'
    BY <1>1, ConnectScreen
  <1>2. CASE RunPosted
    BY <1>2, RunScreen
  <1>3. ASSUME NEW c \in Calls,
               \/ /\ Watch(c) \/ Audio(c) \/ Mic(c) \/ \E kick \in BOOLEAN : ServerCloses(c, kick)
                  /\ UNCHANGED appVars
               \/ SaveAfterConnect(c)
        PROVE  ScreenInv'
    BY <1>3, ScreenAside
    DEF Watch, ReadKick, ReadError, ConnectionLost, Audio, OpenStreams, OpenError,
        StoreDevices, Mic, MicStarts, MicEnds, MicFrame, ServerCloses, SaveAfterConnect,
        engVars, taskVars, appVars
  <1>4. CASE PressDisconnect \/ ToggleMute \/ SelectChannel \/ (SetChannel /\ UNCHANGED appVars)
    BY <1>4, ScreenAside
    DEF PressDisconnect, Disconnect, ToggleMute, SetMuted, SelectChannel, Request, SetChannel,
        taskVars, appVars
  <1>5. ASSUME NEW t \in Threads, FinishTeardown(t), UNCHANGED appVars
        PROVE  ScreenInv'
    <2>1. posted \in Seq(Items)
      BY DEF ClientTypeOK, EngineTypeOK, Items
    <2>2. CASE CloseAll(t)
      BY <1>5, <2>2, ScreenAside DEF CloseAll, appVars
    <2>3. CASE ReportDisconnected(t)
      BY <1>5, <2>1, <2>3, ScreenAnswer DEF ReportDisconnected, Post, Answers, appVars
    <2> QED BY <1>5, <2>2, <2>3 DEF FinishTeardown
  <1>6. CASE UNCHANGED vars
    BY <1>6, ScreenAside DEF vars, engVars, taskVars, appVars
  <1> QED BY <1>1, <1>2, <1>3, <1>4, <1>5, <1>6 DEF Next, Engine

(***************************************************************************)
(* The callbacks of several calls of Connect and handleDisconnect are      *)
(* handed to the window in the order in which their goroutines run, and    *)
(* it does them later (app.go:117-160): when nothing is under way and all  *)
(* is done, the window has the button that fits what it says.              *)
(***************************************************************************)
THEOREM AlwaysAnswered == Spec => []ButtonLeft
PROOF
  <1>1. Init => ScreenInv
    <2> SUFFICES ASSUME Init PROVE ScreenInv
      OBVIOUS
    <2>1. screen = "Disconnected" /\ enabled = {"connect"} /\ posted = <<>>
      BY DEF Init, EngineInit
    <2>2. \A i \in 1 .. Len(posted) : FALSE
      BY <2>1
    <2> QED BY <2>1, <2>2 DEF ScreenInv, Answered
  <1>2. ClientTypeOK /\ ScreenInv => ButtonLeft
    <2> SUFFICES ASSUME ClientTypeOK, ScreenInv, Quiet, posted = <<>>
                 PROVE  screen # "Connecting"
      BY DEF ButtonLeft, ScreenInv, ClientTypeOK
    <2>1. Answered(screen, posted)
      BY DEF ScreenInv, Quiet, UnderWay
    <2>2. \A i \in 1 .. Len(posted) : FALSE
      OBVIOUS
    <2> QED BY <2>1, <2>2 DEF Answered
  <1> QED BY <1>1, <1>2, ScreenNext, ClientTypes, PTL DEF Spec

-----------------------------------------------------------------------------
(* The fields of the form and the bookmarks *)

Right(c) == IF c \in AutoTokens THEN c ELSE Typed

\* The fields are those of the last form sent.  A call whose form has met no
\* other has them to itself as long as it uses them.
FormInv ==
  /\ \A c \in Calls : connect[c] = "unused" => form.server # c
  /\ \A c \in Calls \ crossed :
       /\ UsesForm(c) => form.server = c
       /\ form.server = c =>
            /\ \A d \in Calls \ {c} : ~UsesForm(d)
            /\ form.token = IF connect[c] = "returned" THEN Right(c) ELSE Typed
  /\ \A c \in Saves : connect[c] \notin {"unused", "refused", "returned"} => c \in saving
  /\ BookmarkRight

formVars == <<connect, form, saving, bookmarks, crossed>>

\* Steps that touch neither the calls nor the fields
LEMMA FormAside ==
  ASSUME FormInv, UNCHANGED formVars
  PROVE  FormInv'
BY DEF FormInv, formVars, UsesForm, BookmarkRight

\* A call of Connect goes on, or is refused
LEMMA FormMoves ==
  ASSUME ClientTypeOK, FormInv, NEW c \in Calls, NEW label \in ConnectLabels,
         connect' = [connect EXCEPT ![c] = label],
         connect[c] \notin {"unused", "refused", "returned"},
         label \notin {"unused", "returned"},
         UNCHANGED <<form, saving, bookmarks, crossed>>
  PROVE  FormInv'
PROOF
  <1>1. connect'[c] = label /\ \A d \in Calls : d # c => connect'[d] = connect[d]
    BY DEF ClientTypeOK, EngineTypeOK
  <1>2. \A d \in Calls : UsesForm(d)' => UsesForm(d)
    BY <1>1 DEF UsesForm
  <1>3. BookmarkRight'
    BY <1>1 DEF FormInv, BookmarkRight
  <1> QED BY <1>1, <1>2, <1>3 DEF FormInv

\* A form is sent
LEMMA FormSent ==
  ASSUME ClientTypeOK, FormInv, NEW c \in Calls, SendForm(c)
  PROVE  FormInv'
PROOF
  <1> DEFINE met == {d \in Calls : UsesForm(d)}
  <1>1. /\ connect[c] = "unused" /\ connect' = [connect EXCEPT ![c] = "new"]
        /\ form' = [server |-> c, token |-> Typed, saved |-> c \in Saves]
        /\ saving' = IF c \in Saves THEN saving \cup {c} ELSE saving
        /\ crossed' = IF met = {} THEN crossed ELSE crossed \cup met \cup {c}
        /\ UNCHANGED bookmarks
    BY DEF SendForm
  <1>2. connect'[c] = "new" /\ \A d \in Calls : d # c => connect'[d] = connect[d]
    BY <1>1 DEF ClientTypeOK, EngineTypeOK
  <1>3. form'.server = c /\ form'.token = Typed
    BY <1>1
  <1>4. \A d \in Calls : d # c => (UsesForm(d)' <=> d \in met)
    BY <1>1, <1>2 DEF UsesForm
  <1>5. crossed \subseteq crossed' /\ (met # {} => met \subseteq crossed' /\ c \in crossed')
    BY <1>1
  <1> HIDE DEF met
  <1>6. ASSUME NEW d \in Calls, d \notin crossed'
        PROVE  /\ UsesForm(d)' => d = c
               /\ d = c => /\ \A e \in Calls \ {c} : ~UsesForm(e)'
                           /\ connect'[d] # "returned"
    BY <1>2, <1>4, <1>5, <1>6
  <1>7. BookmarkRight'
    BY <1>1, <1>2, <1>5 DEF FormInv, BookmarkRight
  <1>8. \A d \in Calls : connect'[d] = "unused" => d # c
    BY <1>2
  <1>9. \A d \in Saves : connect'[d] \notin {"unused", "refused", "returned"} => d \in saving'
    BY <1>1, <1>2, AppAssumption DEF FormInv
  <1> QED BY <1>3, <1>6, <1>7, <1>8, <1>9 DEF FormInv

\* Connect returns, and the token is noted before the next user of the fields
LEMMA FormReturns ==
  ASSUME ClientTypeOK, FormInv, NEW c \in Calls, TakeToken(c)
  PROVE  FormInv'
PROOF
  <1>1. /\ connect[c] = "return" /\ connect' = [connect EXCEPT ![c] = "returned"]
        /\ form' = IF c \in AutoTokens THEN [form EXCEPT !.token = c] ELSE form
        /\ UNCHANGED <<saving, bookmarks, crossed>>
    BY DEF TakeToken, Return, ConnectAt
  <1>2. connect'[c] = "returned" /\ \A d \in Calls : d # c => connect'[d] = connect[d]
    BY <1>1 DEF ClientTypeOK, EngineTypeOK
  <1>3. /\ form'.server = form.server
        /\ form'.token = IF c \in AutoTokens THEN c ELSE form.token
    BY <1>1 DEF ClientTypeOK
  <1>4. UsesForm(c) /\ \A d \in Calls : UsesForm(d)' => UsesForm(d)
    BY <1>1, <1>2 DEF UsesForm
  <1>5. c \in Saves => c \in saving'
    BY <1>1 DEF FormInv
  <1>6. ASSUME NEW d \in Calls \ crossed, form.server = d
        PROVE  form'.token = IF connect'[d] = "returned" THEN Right(d) ELSE Typed
    <2>1. CASE d = c
      BY <1>1, <1>2, <1>3, <1>6, <2>1 DEF FormInv, Right
    <2>2. CASE d # c
      BY <1>4, <1>6, <2>2 DEF FormInv
    <2> QED BY <2>1, <2>2
  <1>7. BookmarkRight'
    BY <1>1, <1>2, <1>5 DEF FormInv, BookmarkRight
  <1> QED BY <1>1, <1>2, <1>3, <1>4, <1>5, <1>6, <1>7 DEF FormInv

\* SaveCurrentBookmark, on whichever thread: the fields are right by now
LEMMA FormSaved ==
  ASSUME ClientTypeOK, FormInv, NEW c \in Calls \ crossed, c \in Saves, connect[c] = "returned",
         SaveCurrentBookmark, c \notin saving => bookmarks[c] = Right(c)
  PROVE  form.server = c \/ c \notin saving => bookmarks'[c] = Right(c)
PROOF
  <1>1. bookmarks' = [bookmarks EXCEPT ![form.server] = form.token]
    BY DEF SaveCurrentBookmark, Add
  <1>2. CASE form.server = c
    <2>1. form.token = Right(c)
      BY <1>2 DEF FormInv
    <2> QED BY <1>1, <1>2, <2>1 DEF ClientTypeOK
  <1>3. CASE form.server # c
    BY <1>1, <1>3 DEF ClientTypeOK
  <1> QED BY <1>2, <1>3

LEMMA FormSaves ==
  ASSUME ClientTypeOK, FormInv,
         \/ \E c \in Calls : SaveAfterConnect(c)
         \/ RunPosted
  PROVE  FormInv'
PROOF
  <1>1. UNCHANGED <<connect, form, crossed>> /\ saving' \subseteq saving
    BY DEF SaveAfterConnect, RunPosted, engVars, taskVars
  <1>2. \A d \in Calls : UsesForm(d)' => UsesForm(d)
    BY <1>1 DEF UsesForm
  <1>3. \A c \in Saves : connect[c] \notin {"unused", "refused", "returned"} => c \in saving'
    BY DEF FormInv, SaveAfterConnect, RunPosted
  <1>4. ASSUME NEW c \in Saves \ (saving' \cup crossed), connect[c] = "returned"
        PROVE  bookmarks'[c] = Right(c)
    <2>1. c \in Calls \ crossed
      BY AppAssumption
    <2>2. c \notin saving => bookmarks[c] = Right(c)
      BY <1>4 DEF FormInv, BookmarkRight, Right
    <2>3. CASE SaveCurrentBookmark
      <3>1. c \in saving => SaveAfterConnect(c)
        BY <1>4 DEF SaveAfterConnect, RunPosted
      <3>2. c \in saving => form.server = c
        BY <1>4, <2>1 DEF FormInv, UsesForm
      <3> QED BY <1>4, <2>1, <2>2, <2>3, <3>2, FormSaved
    <2>4. CASE ~SaveCurrentBookmark
      <3>1. bookmarks' = bookmarks /\ saving' = saving
        BY <2>4 DEF SaveAfterConnect, RunPosted, ShowState
      <3> QED BY <1>4, <2>2, <3>1
    <2> QED BY <2>3, <2>4
  <1>5. BookmarkRight'
    BY <1>1, <1>4 DEF BookmarkRight, Right
  <1> QED BY <1>1, <1>2, <1>3, <1>5 DEF FormInv

LEMMA FormNext ==
  ASSUME ClientTypeOK, FormInv, [Next]_vars
  PROVE  FormInv'
PROOF
  <1>1. ASSUME NEW c \in Calls, SendForm(c) \/ TakeToken(c)
        PROVE  FormInv'
    BY <1>1, FormSent, FormReturns
  <1>2. CASE RunPosted \/ \E c \in Calls : SaveAfterConnect(c)
    BY <1>2, FormSaves
  <1>3. ASSUME NEW c \in Calls, Connect(c) \/ ConnectStep(c), UNCHANGED appVars
        PROVE  FormInv'
    <2>1. /\ connect[c] \in {"new", "started", "dial", "login", "link", "receive", "report", "failed"}
          /\ \E label \in ConnectLabels \ {"unused", "returned"} :
               connect' = [connect EXCEPT ![c] = label]
      BY <1>3 DEF Connect, ConnectStep, ReportConnecting, Dial, DialError, Authenticate,
                  LoginError, ReportFailed, Link, Receive, ReportConnected, GiveUp, ConnectAt,
                  ConnectLabels
    <2> QED BY <1>3, <2>1, FormMoves DEF appVars
  <1>4. ASSUME NEW c \in Calls,
               Watch(c) \/ Audio(c) \/ Mic(c) \/ \E kick \in BOOLEAN : ServerCloses(c, kick),
               UNCHANGED appVars
        PROVE  FormInv'
    BY <1>4, FormAside
    DEF Watch, ReadKick, ReadError, ConnectionLost, Audio, OpenStreams, OpenError,
        StoreDevices, Mic, MicStarts, MicEnds, MicFrame, ServerCloses, taskVars, appVars,
        formVars
  <1>5. CASE PressDisconnect \/ ToggleMute \/ SelectChannel \/ (SetChannel /\ UNCHANGED appVars)
    BY <1>5, FormAside
    DEF PressDisconnect, Disconnect, ToggleMute, SetMuted, SelectChannel, Request, SetChannel,
        taskVars, appVars, formVars
  <1>6. ASSUME NEW t \in Threads, FinishTeardown(t), UNCHANGED appVars
        PROVE  FormInv'
    BY <1>6, FormAside DEF FinishTeardown, CloseAll, ReportDisconnected, appVars, formVars
  <1>7. CASE UNCHANGED vars
    BY <1>7, FormAside DEF vars, engVars, taskVars, appVars, formVars
  <1> QED BY <1>1, <1>2, <1>3, <1>4, <1>5, <1>6, <1>7 DEF Next, Engine

(***************************************************************************)
(* OnAutoToken and the goroutine that called Connect save the same fields  *)
(* in either order (app.go:354-367, 488-499): whichever is last, the       *)
(* bookmark of a server whose form met no other has the token that server  *)
(* issued, or the one typed when it issued none.                           *)
(***************************************************************************)
THEOREM BookmarksRight == Spec => []BookmarkRight
PROOF
  <1>1. Init => FormInv
    <2> SUFFICES ASSUME Init PROVE FormInv
      OBVIOUS
    <2>1. \A c \in Calls : connect[c] = "unused" /\ form.server # c
      BY CallsAre DEF Init, EngineInit
    <2> QED BY <2>1, AppAssumption DEF Init, FormInv, UsesForm, BookmarkRight
  <1>2. FormInv => BookmarkRight
    BY DEF FormInv
  <1> QED BY <1>1, <1>2, FormNext, ClientTypes, PTL DEF Spec

=============================================================================
