---------------------------- MODULE ClientEngine ----------------------------
(***************************************************************************)
(* pkg/client/engine.go with control.go and voice.go: the client's         *)
(* connection to a server.  A call of Connect starts goroutines - one that *)
(* reads the control connection, one that waits for its end, one that      *)
(* opens the audio devices and runs the microphone loop - and nothing      *)
(* joins them: they run on, interleaved with the user, with the server and *)
(* with the next call of Connect, and share the Engine's fields under a    *)
(* lock that each takes for a few lines.                                   *)
(***************************************************************************)
EXTENDS Integers, Sequences

CONSTANTS
  MaxConnects,     \* bound on the calls of Connect
  AudioFails,      \* calls whose audio devices may fail to open
  AutoTokens,      \* calls whose login the server answers with a token
  Kicks,           \* calls whose connection the server may end with an error 99
  MaxEvents        \* bound on what the user, the server and the network do

ASSUME ClientAssumption ==
  /\ MaxConnects \in Nat
  /\ AudioFails \subseteq 1 .. MaxConnects
  /\ AutoTokens \subseteq 1 .. MaxConnects
  /\ Kicks \subseteq 1 .. MaxConnects
  /\ MaxEvents \in Nat

Calls == 1 .. MaxConnects
None == 0              \* nil
Threads == {None} \cup Calls   \* the user's, and those that watch a connection

VARIABLES
  \* fields of Engine
  state,
  link,        \* control, voice: the call of Connect they come from
  devices,     \* capture, playback: likewise
  channel,     \* channelID: the connection that has asked for it, None for 0
  muted,
  asking,      \* JoinChannel on the user's thread: the control it has asked on
  \* what the goroutines of a call of Connect have got to
  connect,     \* Connect itself
  rx,          \* StartReceiving of the ControlClient
  monitor,     \* the goroutine that waits for Done
  audio,       \* the goroutine that runs initAudioFn
  mic,         \* captureLoop: where it is and the fields it has read
  teardown,    \* thread -> handleDisconnect: where it is, what it has to close
  \* the world
  socket,      \* call -> its control and voice connection
  kicked,      \* calls whose connection has an unread error 99
  stream,      \* call -> the streams its audio goroutine has opened
  portaudio,   \* calls of portaudio.Initialize without their Terminate; who uses it
               \* waits for the one of PreInitAudio
  posted,      \* what the callbacks have handed to fyne.Do
  events,      \* events left, bounded by MaxEvents
  \* histories
  late         \* call -> frames its captureLoop has sent since the user muted

engineVars == <<state, link, devices, channel, muted>>
taskVars == <<connect, rx, monitor, audio, mic, teardown, asking>>
netVars == <<socket, kicked>>
audioVars == <<stream, portaudio>>
userVars == <<events, late>>
engVars == <<engineVars, taskVars, netVars, audioVars, userVars, posted>>

Idle == [at |-> "idle", link |-> None, devices |-> None]
MicOff == [at |-> "off", link |-> None, devices |-> None, open |-> FALSE]

\* Once, at the start of the program; NewCaptureDevice waits for it
PreInitAudio == portaudio = 1

EngineInit ==
  /\ state = "Disconnected"
  /\ link = None
  /\ devices = None
  /\ channel = None
  /\ muted = FALSE
  /\ asking = None
  /\ connect = [c \in Calls |-> "unused"]
  /\ rx = [c \in Calls |-> "off"]
  /\ monitor = [c \in Calls |-> "off"]
  /\ audio = [c \in Calls |-> "off"]
  /\ mic = [c \in Calls |-> MicOff]
  /\ teardown = [t \in Threads |-> Idle]
  /\ socket = [c \in Calls |-> "none"]
  /\ kicked = {}
  /\ stream = [c \in Calls |-> "none"]
  /\ PreInitAudio
  /\ posted = <<>>
  /\ events = MaxEvents
  /\ late = [c \in Calls |-> 0]

\* The user, the server or the network does something
Event == events > 0 /\ events' = events - 1

\* notifyStateChange and the other callbacks of the user interface
Post(item) == posted' = Append(posted, item)

-----------------------------------------------------------------------------
(* handleDisconnect, in the thread t *)

\* A locked section that leaves the fields in place for the next thread.
TakeDownKeepsFields(t) ==
  IF state = "Disconnected"
    THEN UNCHANGED <<state, link, devices, channel, teardown>>
    ELSE /\ state' = "Disconnected"
         /\ channel' = None
         /\ UNCHANGED <<link, devices>>
         /\ teardown' = [teardown EXCEPT ![t] =
                           [at |-> "close", link |-> link, devices |-> devices]]

\* A locked section that leaves a connection alone whose devices are being opened.
TakeDownWhenAudioReady(t) ==
  IF \/ state = "Disconnected"
     \/ link # None /\ audio[link] \in {"init", "opened"}
    THEN UNCHANGED <<state, link, devices, channel, teardown>>
    ELSE /\ state' = "Disconnected"
         /\ channel' = None
         /\ link' = None
         /\ devices' = None
         /\ teardown' = [teardown EXCEPT ![t] =
                           [at |-> "close", link |-> link, devices |-> devices]]

\* The locked section, at any time.  State Disconnected: nothing is left to do.
TakeDown(t) ==
  IF state = "Disconnected"
    THEN UNCHANGED <<state, link, devices, channel, teardown>>
    ELSE /\ state' = "Disconnected"
         /\ channel' = None
         /\ link' = None
         /\ devices' = None
         /\ teardown' = [teardown EXCEPT ![t] =
                           [at |-> "close", link |-> link, devices |-> devices]]

\* CaptureDevice.Close, which terminates PortAudio as well, and
\* PlaybackDevice.Stop; what is terminated already stays so
CloseDevices(d) ==
  /\ stream' = [stream EXCEPT ![d] = "closed"]
  /\ portaudio' = IF portaudio = 0 THEN 0 ELSE portaudio - 1

\* capture, playback, voice and ctrl, of what there is
CloseAll(t) ==
  /\ teardown[t].at = "close"
  /\ LET d == teardown[t].devices
         l == teardown[t].link
     IN /\ IF d = None THEN UNCHANGED audioVars ELSE CloseDevices(d)
        /\ socket' = IF l = None THEN socket ELSE [socket EXCEPT ![l] = "closed"]
  /\ teardown' = [teardown EXCEPT ![t].at = "report"]
  /\ UNCHANGED <<engineVars, connect, rx, monitor, audio, mic, asking, kicked,
                 userVars, posted>>

\* cancel, new decoders, OnStateChange
ReportDisconnected(t) ==
  /\ teardown[t].at = "report"
  /\ teardown' = [teardown EXCEPT ![t] = Idle]
  /\ Post("Disconnected")
  /\ UNCHANGED <<engineVars, connect, rx, monitor, audio, mic, asking,
                 netVars, audioVars, userVars>>

FinishTeardown(t) == CloseAll(t) \/ ReportDisconnected(t)

\* Engine.Disconnect
Disconnect ==
  /\ teardown[None] = Idle
  /\ asking = None
  /\ Event
  /\ TakeDown(None)
  /\ UNCHANGED <<muted, connect, rx, monitor, audio, mic, asking, netVars,
                 audioVars, late, posted>>

-----------------------------------------------------------------------------
(* Connect, call c *)

ConnectAt(c, label, next) ==
  /\ connect[c] = label
  /\ connect' = [connect EXCEPT ![c] = next]

\* The locked check: "already connected", or the call is the one that connects
Connect(c) ==
  /\ connect[c] = "new"
  /\ IF state = "Disconnected"
       THEN state' = "Connecting" /\ connect' = [connect EXCEPT ![c] = "started"]
       ELSE connect' = [connect EXCEPT ![c] = "refused"] /\ UNCHANGED state
  /\ UNCHANGED <<link, devices, channel, muted, rx, monitor, audio, mic,
                 teardown, asking, netVars, audioVars, userVars, posted>>

ReportConnecting(c) ==
  /\ ConnectAt(c, "started", "dial")
  /\ Post("Connecting")
  /\ UNCHANGED <<engineVars, rx, monitor, audio, mic, teardown, asking,
                 netVars, audioVars, userVars>>

\* setState(StateDisconnected), the locked half: whatever the state is by now
GiveUp(c, label) ==
  /\ ConnectAt(c, label, "failed")
  /\ state' = "Disconnected"
  /\ UNCHANGED <<link, devices, channel, muted, rx, monitor, audio, mic,
                 teardown, asking, kicked, audioVars, userVars, posted>>

\* A setState that does not tell the interface.
ReportFailedSilently(c) ==
  /\ ConnectAt(c, "failed", "refused")
  /\ UNCHANGED <<engineVars, rx, monitor, audio, mic, teardown, asking,
                 netVars, audioVars, userVars, posted>>

ReportFailed(c) ==
  /\ ConnectAt(c, "failed", "refused")
  /\ Post("Disconnected")
  /\ UNCHANGED <<engineVars, rx, monitor, audio, mic, teardown, asking,
                 netVars, audioVars, userVars>>

\* NewControlClient
Dial(c) ==
  /\ ConnectAt(c, "dial", "login")
  /\ socket' = [socket EXCEPT ![c] = "open"]
  /\ UNCHANGED <<engineVars, rx, monitor, audio, mic, teardown, asking,
                 kicked, audioVars, userVars, posted>>

DialError(c) == GiveUp(c, "dial") /\ UNCHANGED socket

\* Authenticate, NewVoiceClient, NewVoiceCipher
Authenticate(c) ==
  /\ socket[c] = "open"
  /\ ConnectAt(c, "login", "link")
  /\ UNCHANGED <<engineVars, rx, monitor, audio, mic, teardown, asking,
                 netVars, audioVars, userVars, posted>>

LoginError(c) ==
  /\ GiveUp(c, "login")
  /\ socket' = [socket EXCEPT ![c] = "closed"]

\* The locked assignment of the fields: the state is not looked at again
Link(c) ==
  /\ ConnectAt(c, "link", "receive")
  /\ link' = c
  /\ state' = "Connected"
  /\ UNCHANGED <<devices, channel, muted, rx, monitor, audio, mic, teardown,
                 asking, netVars, audioVars, userVars, posted>>

\* StartReceiving
Receive(c) ==
  /\ ConnectAt(c, "receive", "report")
  /\ rx' = [rx EXCEPT ![c] = "reading"]
  /\ UNCHANGED <<engineVars, monitor, audio, mic, teardown, asking, netVars,
                 audioVars, userVars, posted>>

ReportConnected(c) ==
  /\ ConnectAt(c, "report", "return")
  /\ Post("Connected")
  /\ UNCHANGED <<engineVars, rx, monitor, audio, mic, teardown, asking,
                 netVars, audioVars, userVars>>

\* OnAutoToken, when the server has made a token for this user; the audio and
\* the monitor goroutine start, and Connect returns
Return(c) ==
  /\ ConnectAt(c, "return", "returned")
  /\ IF c \in AutoTokens THEN Post("Token") ELSE UNCHANGED posted
  /\ audio' = [audio EXCEPT ![c] = "init"]
  /\ monitor' = [monitor EXCEPT ![c] = "waiting"]
  /\ UNCHANGED <<engineVars, rx, mic, teardown, asking, netVars, audioVars,
                 userVars>>

ConnectStep(c) ==
  \/ ReportConnecting(c) \/ Dial(c) \/ DialError(c)
  \/ Authenticate(c) \/ LoginError(c) \/ ReportFailed(c)
  \/ Link(c) \/ Receive(c) \/ ReportConnected(c)

-----------------------------------------------------------------------------
(* The goroutines that watch connection c *)

\* An error message 99 is handled on the reading goroutine
ReadKick(c) ==
  /\ rx[c] = "reading"
  /\ teardown[c] = Idle
  /\ c \in kicked
  /\ socket[c] # "closed"
  /\ kicked' = kicked \ {c}
  /\ TakeDown(c)
  /\ UNCHANGED <<muted, connect, rx, monitor, audio, mic, asking, socket,
                 audioVars, userVars, posted>>

\* A reader that ends only when this end has closed the connection.
ReadErrorOfOwnClose(c) ==
  /\ rx[c] = "reading"
  /\ teardown[c] = Idle
  /\ socket[c] = "closed"
  /\ rx' = [rx EXCEPT ![c] = "ended"]
  /\ UNCHANGED <<engineVars, connect, monitor, audio, mic, teardown, asking,
                 netVars, audioVars, userVars, posted>>

\* The connection is closed, at either end: close(done)
ReadError(c) ==
  /\ rx[c] = "reading"
  /\ teardown[c] = Idle
  /\ socket[c] \in {"lost", "closed"}
  /\ c \in kicked => socket[c] = "closed"
  /\ rx' = [rx EXCEPT ![c] = "ended"]
  /\ UNCHANGED <<engineVars, connect, monitor, audio, mic, teardown, asking,
                 netVars, audioVars, userVars, posted>>

\* <-ctrl.Done(): whoever closed it, handleDisconnect("connection lost")
ConnectionLost(c) ==
  /\ monitor[c] = "waiting"
  /\ rx[c] = "ended"
  /\ monitor' = [monitor EXCEPT ![c] = "ended"]
  /\ TakeDown(c)
  /\ UNCHANGED <<muted, connect, rx, audio, mic, asking, netVars, audioVars,
                 userVars, posted>>

Watch(c) == ReadKick(c) \/ ReadError(c) \/ ConnectionLost(c)

\* The server, or the network, ends the connection; a kick says so first
ServerCloses(c, kick) ==
  /\ Event
  /\ socket[c] = "open"
  /\ kick => c \in Kicks /\ connect[c] \notin {"dial", "login"}
  /\ socket' = [socket EXCEPT ![c] = "lost"]
  /\ kicked' = IF kick THEN kicked \cup {c} ELSE kicked
  /\ UNCHANGED <<engineVars, taskVars, audioVars, late, posted>>

-----------------------------------------------------------------------------
(* Audio *)

\* initAudioDefault opens the streams; PortAudio refuses when it has been ended
OpenStreams(c) ==
  /\ audio[c] = "init"
  /\ portaudio > 0
  /\ audio' = [audio EXCEPT ![c] = "opened"]
  /\ stream' = [stream EXCEPT ![c] = "open"]
  /\ UNCHANGED <<engineVars, connect, rx, monitor, mic, teardown, asking,
                 netVars, portaudio, userVars, posted>>

\* The loops run whether the devices could be opened or not.  When capture was
\* started and playback was not, capture.Close ends PortAudio.
OpenError(c) ==
  /\ audio[c] = "init"
  /\ \/ portaudio = 0 /\ UNCHANGED portaudio
     \/ portaudio > 0 /\ c \in AudioFails /\ portaudio' \in {portaudio, portaudio - 1}
  /\ audio' = [audio EXCEPT ![c] = "failed"]
  /\ mic' = [mic EXCEPT ![c].at = "top"]
  /\ UNCHANGED <<engineVars, connect, rx, monitor, teardown, asking, netVars,
                 stream, userVars, posted>>

\* The locked assignment of the fields, then the loops
StoreDevices(c) ==
  /\ audio[c] = "opened"
  /\ audio' = [audio EXCEPT ![c] = "open"]
  /\ devices' = c
  /\ mic' = [mic EXCEPT ![c].at = "top"]
  /\ UNCHANGED <<state, link, channel, muted, connect, rx, monitor, teardown,
                 asking, netVars, audioVars, userVars, posted>>

\* captureLoop: the locked reads at the top of the loop
Top ==
  IF devices = None \/ link = None
    THEN [MicOff EXCEPT !.at = "ended"]
    ELSE [at |-> "read", link |-> link, devices |-> devices,
          open |-> ~muted /\ channel # None]

MicStarts(c) ==
  /\ mic[c].at = "top"
  /\ mic' = [mic EXCEPT ![c] = Top]
  /\ UNCHANGED <<engineVars, connect, rx, monitor, audio, teardown, asking,
                 netVars, audioVars, userVars, posted>>

\* ReadFrame fails when the stream is closed
MicEnds(c) ==
  /\ mic[c].at = "read"
  /\ stream[mic[c].devices] = "closed"
  /\ mic' = [mic EXCEPT ![c] = [MicOff EXCEPT !.at = "ended"]]
  /\ UNCHANGED <<engineVars, connect, rx, monitor, audio, teardown, asking,
                 netVars, audioVars, userVars, posted>>

\* A loop that reads the fields once, before its first frame.
MicFrameKeepsFlags(c) ==
  /\ mic[c].at = "read"
  /\ stream[mic[c].devices] = "open"
  /\ \E active \in BOOLEAN :
       late' = IF active /\ mic[c].open /\ muted /\ socket[mic[c].link] # "closed"
                 THEN [late EXCEPT ![c] = @ + 1] ELSE late
  /\ UNCHANGED <<engineVars, connect, rx, monitor, audio, teardown, asking,
                 netVars, audioVars, mic, events, posted>>

\* A frame is read and, when the VAD finds somebody speaking, sent; on with the
\* next one
MicFrame(c) ==
  /\ mic[c].at = "read"
  /\ stream[mic[c].devices] = "open"
  /\ \E active \in BOOLEAN :
       late' = IF active /\ mic[c].open /\ muted /\ socket[mic[c].link] # "closed"
                 THEN [late EXCEPT ![c] = @ + 1] ELSE late
  /\ mic' = [mic EXCEPT ![c] = Top]
  /\ UNCHANGED <<engineVars, connect, rx, monitor, audio, teardown, asking,
                 netVars, audioVars, events, posted>>

Audio(c) == OpenStreams(c) \/ OpenError(c) \/ StoreDevices(c)
Mic(c) == MicStarts(c) \/ MicEnds(c) \/ MicFrame(c)

-----------------------------------------------------------------------------
(* Requests of the user *)

\* SetMuted: the button, and the hotkey on a goroutine of its own
SetMuted(m) ==
  /\ Event
  /\ muted' = m
  /\ late' = [c \in Calls |-> 0]
  /\ UNCHANGED <<state, link, devices, channel, taskVars, netVars, audioVars,
                 posted>>

\* JoinChannel reads e.control, fails with "not connected" when it is nil, and
\* sends; the other requests of the interface end here
Request ==
  /\ Event
  /\ teardown[None] = Idle
  /\ asking = None
  /\ link # None
  /\ socket[link] # "closed"
  /\ asking' = link
  /\ UNCHANGED <<engineVars, connect, rx, monitor, audio, mic, teardown,
                 netVars, audioVars, late, posted>>

\* ... and then stores the channel, under a lock of its own
SetChannel ==
  /\ asking # None
  /\ asking' = None
  /\ channel' = asking
  /\ UNCHANGED <<state, link, devices, muted, connect, rx, monitor, audio,
                 mic, teardown, netVars, audioVars, userVars, posted>>
=============================================================================
