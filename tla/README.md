# GoSpeak in TLA+

GoSpeak is a voice chat server and client written in Go. Clients hold one TLS
connection to the control plane (JSON messages: login, channels, roles, kicks,
bans, chat) and one UDP association to the voice plane (a relay that forwards
encrypted packets to the other members of a channel). This directory holds TLA+
specifications of the system, the TLC configurations that check them on small
instances, and TLAPS proofs for instances of any size.

Run a check with `tlc -config MCAccess.cfg MCControl`, a proof with
`tlapm ControlServerProofs.tla`. `PROJECT.json` lists every run, the mutated
definitions each property is tested against, the source lines of every
definition, findings, hazards and theorems.

## 1. The system: inventory

| Component | State | Operations | Talks to |
|---|---|---|---|
| Channel manager, `pkg/server/channels.go` | `members` (channel -> sessions), `sessionToChannel`; one mutex | Join, Leave, Members, ChannelOf, MembersCount | called by control handlers, cleanup goroutines, voice relay |
| Session manager, `pkg/server/session.go` | `sessions` (random 32-bit ID -> session); one mutex | Create, snapshots, setters, Remove | control handlers, voice relay |
| Control server, `pkg/server/control.go` | `connMap`, `tempChanTimes`; one goroutine per connection with its locals; one goroutine per emptied temp channel | accept, authentication, 13 request kinds, deferred cleanup, broadcasts | both managers, store, connections |
| Data store, `pkg/store` | users, channels, tokens, bans (SQLite or maps); schema version | one statement or transaction per method; New and migrate | control server, server start, configuration |
| Permissions, `pkg/rbac`, `pkg/model` | none | permission matrix, validation | control server |
| Voice relay, `pkg/server/voice.go` | UDP address per session | one loop: look up sender, learn address, forward | both managers |
| Channel configuration, `pkg/server/config.go` | none of its own | import (ensureChannel, recursively), export | store |
| Server start and stop, `pkg/server/{server,run}.go`, `cmd/server` | voice key, context; database, certificate and key files | Lobby, YAML import, first admin token, listeners, shutdown, export commands | store, control server, voice relay |
| Framing, `pkg/protocol` | none | length-prefixed frames, voice packet header | both planes, client |
| Client engine, `pkg/client/{engine,control,voice}.go` | connection state, one mutex, five goroutines | Connect, Disconnect, Join, Leave, mute, capture, playback, event handling | server, jitter buffers, audio, UI |
| Jitter buffer, `pkg/client/jitter.go` | packets by sequence number, next sequence number | Push, Pop, Reset | client engine |
| Window, `ui/app.go` | form fields, status and buttons, bookmarks | dialogs, buttons, callbacks through `fyne.Do` | client engine |
| Audio devices, `pkg/audio` | PortAudio (once per process), streams | PreInitAudio, open, read, close | client engine |
| Voice activity detection, `pkg/audio/vad.go` | hold counter, pre-buffer ring | Process, PreBufferedFrames | client engine |
| Crypto, settings, hotkeys, metrics, logging | - | library and operating system calls | - |

### What is hard

*Control plane.* No lock spans two calls. Every handler is a chain of separately
locked accesses to the managers, the store and `connMap`, and the chains of all
connections interleave: count then join, look up then join, store then find the
session then change it, list the members then move each. Session IDs are drawn
again once free, so the order of the deferred cleanup matters. One user may have
several sessions, and a session exists before its connection is registered.
Cleanup goroutines sleep five minutes and remember only a channel ID. The store
may fail at any call. A frame is two writes, and a broadcaster holds a read lock
while it writes to everybody.

*Voice plane.* Packets are lost, repeated and reordered; 16-bit channel IDs and
32-bit counters wrap; the relay works through a copy of the members while they
leave and their IDs go to others.

*Client.* Nothing joins the goroutines of a connection: reader, monitor, audio
and microphone loop of an old one run next to the user and to the next one, and
their callbacks reach the window later, in a queue.

*Persistence.* The server may die between any two accesses to database,
certificate and key, and an export command may migrate the same database.

### What makes each component correct

- Channel manager: both maps tell the same story; each session is in at most one
  channel; emptied channels keep no entry.
- Session manager and `connMap`: every session has exactly one goroutine that
  will remove it; `connMap` is exact.
- Control server: capacity, deleted channels, kicks, bans and role changes mean
  what their comments say; nobody climbs above the highest role around; every
  handler ends and every closed connection is cleaned up; everybody who stays
  is shown the last change.
- Store: a token is never used more often than it may be; channel IDs are never
  given out twice; a file is as complete as its version says.
- Voice relay: a packet reaches the other, undeafened members of the sender's
  channel, all of them and nobody else, and a session keeps its address. Jitter
  buffer: bounded, in order, what is due is played at once, live after a
  gap.
- Server start: it comes up again whatever was cut short; one admin token; a
  certificate that was shown stays; an import can be repeated; what is exported
  can be imported.
- Client: what a connection opened is closed once; an Engine that says Connected has
  a living connection; window, microphone and bookmarks follow it.

`PROJECT.json` lists the hazards one by one, each at its line, with the
properties that watch it.

## 2. What is modelled

| Module | Code | Content |
|---|---|---|
| `Maps` | Go maps | Put, Drop, IsMap |
| `Model` | `pkg/model`, `pkg/rbac` | IDs, roles, permission matrix, channels |
| `ChannelManager` | `channels.go` | the two maps, Join, Leave and the readers |
| `Membership` | - | the abstract promise: each session in at most one channel, one session moved at a time |
| `SessionManager` | `session.go` | the session table, Create, setters, Remove |
| `Store` | `pkg/store` | users, channels, tokens, bans; one step per method |
| `ControlServer` | `control.go` | extends the three above: connections, authentication, every request that changes state, the deferred cleanup, cleanup goroutines, the clock |
| `ControlProperties` | - | what the control plane guarantees and what its comments claim |
| `ControlWire` | `control.go`, `pkg/protocol` | what the handlers send: the lock, the two writes of a frame, full and closed connections, the reading client |
| `VoiceRelay` | `pkg/server/voice.go` | extends both managers: the voice loop, and the handlers as far as they change what it reads |
| `JitterBuffer` | `pkg/client/jitter.go`, `processIncomingVoice` | the buffer, the playback loop and a network that loses, repeats and reorders |
| `SchemaMigration` | `store.New`, `migrate` | processes that open and migrate one database and may die |
| `ChannelTree` | `config.go` | import, call by call, next to requests that create and delete; export |
| `ServerStart` | `run.go`, `server.go`, `cmd/server` | extends the two above: a server from start to end, over files that outlive it |
| `ClientEngine` | `pkg/client/{engine,control}.go`, `pkg/audio` | calls of Connect, their goroutines, teardown, the microphone loop |
| `ClientApp` | `ui/app.go` | extends it: form, buttons, queue of callbacks, bookmarks |
| `ClientProperties` | - | what the client promises its user |
| `ChannelManagerProofs`, `ControlServerProofs`, `ControlPropertiesProofs`, `WireProofs`, `VoiceProofs`, `JitterProofs`, `StartProofs`, `ClientProofs` | - | theorems |
| `MCControl`, `MCVoiceRelay`, `MCServerStart` | - | instances for TLC; the other modules are instances themselves |

`ControlServer` and `VoiceRelay` are the two planes of the server. Both extend
`ChannelManager` and `SessionManager`, as both planes call the same two objects.
`VoiceRelay` takes from the control plane only what the voice loop can notice:
joins, leaves, mute and deafen, sessions that come and go. It relies on
`MembersLive` of `ControlProperties` (a session leaves its channel before it is
removed), which is proved for the control plane.

`ControlServer` and `ControlWire` share the handlers of `control.go`: the first has
what a request checks and changes, the second what it sends. A request is there a
list of messages, and the whole state a version that grows when a handler changes
what a `ServerStateEvent` lists. The client of `ControlWire` reads one connection;
`ClientEngine` is the client over its whole life, and sees of the server only that
it answers, kicks or ends a connection.

### How code and model correspond

**Control plane.** `pc[k]` is the position of connection k's goroutine: it names the
access to shared state that the goroutine makes next. `arg[k]` holds the locals of
the request in progress, `sid`, `who` and `cred` those of `handleControlConn`. One
action is one access (one locked method of a manager, one store call, one read or
write of `connMap` or `tempChanTimes`) together with the local computation up to
the next one; a handler is a chain of actions:

    handleControlConn   Accept, AuthRequest | AuthReject, GetUser, CreateNewUser, AutoToken,
                        CheckBan, NewSession, SetConn, Respond, then requests, ReadError
    deferred cleanup    ByeLeave, ByeConn, ByeSession, [TempLookup, TempCount]
    handleJoinChannel   JoinRequest, JoinCount, JoinMove, JoinSet
    handleLeaveChannel  LeaveRequest, LeaveSet, [TempLookup, TempCount]
    handleCreateChannel CreateChannelRequest, [ChanRate], ChanStore
    handleDeleteChannel DeleteChannelRequest, DelStore, DelMembers, (DelLeave, DelSet)*
    handleCreateToken   CreateTokenRequest, TokStore
    handleKickUser      KickRequest, EvictFind, EvictClose
    handleBanUser       BanRequest, BanStore, EvictFind, EvictClose
    handleSetUserRole   SetUserRoleRequest, RoleStore, RoleFind, RoleSet
    cleanupTempChannel  goroutine: TimerWake, TimerDelete

The guards of the `...Request` actions are the early returns of the handlers; a
request that is refused changes nothing and is a stuttering step. Reading one's
own session (`GetSnapshot`) is merged with the access that follows it: nobody else
removes it, and user and ID never change. `AuthStoreError` and
`RequestStoreError` are the error returns of store calls. Timers and the clock are
actions that may happen at any time (`TimerWake`, `RateExpires`, `TokenExpires`,
`BanExpires`). `open[k]` is false once the next read on a connection fails: the
client closed it or sent what `ReadControlMessage` rejects, or a kick closed it.

**What is sent.** In `ControlWire` `sends[k]` is what handler k has yet to send
before it rests, `msg[k]` the message under way, `todo[k]` the connections it goes
to, and `wire[t]` what connection t holds unread:

    setConn, removeConn   Announce (mu.Lock is called: no RLock succeeds from here on),
                          then setConn or removeConn once the readers are gone
    a request             Request, then its messages, then Rest
    an answer             Answer, WriteLength, WritePayload, Sent
    broadcastToChannel    ListMembers, RLock, (WriteLength, WritePayload | WriteError)*, Sent
    broadcastServerState  BuildState, and likewise
    kick and ban          FindTarget, WriteLength, WritePayload, CloseTarget
    the client            ReadLength, ReadMessage | ReadUnexpected | ReadTorn; HangUp

The order of a Go map's iteration is free; `Targets` are the members of `connMap` a
broadcaster is looking for. The members of a channel are any set: which one it is
is the subject of `ControlServer`.

**Voice plane.** The voice loop is one goroutine, and `rpc` is its position:

    voiceLoop             Receive, [Learn], [Check, [List, Forward*]], LoopTop

`Receive` is the read from the socket with the sender's snapshot and what follows
from it alone (address, mute); `Learn`, `Check` and `List` are one call of a manager
each, `Forward` one member's snapshot and write. Between any two of them the
handlers may act. `got`, `audience`, `aired` and `steady` are histories that only
properties read. A packet is its sender, channel and source address; its channel
has `WireMod` values, as the sixteen bits on the wire.

A jitter buffer is driven by one goroutine of the client:

    processIncomingVoice  Receive (decrypt, Push), (PlayFrame | PlayLost)*, Drained
    disconnect            Forget

Packets are counted in the order of sending; on the wire they carry the count
modulo `SeqMod`. `Receive` brings any packet at any time, which covers loss,
repetition, delay and a listener that comes in late. `due` and `awaited` are
histories.

**Start and restart.** `pc[p]` is the statement or system call process p makes next:

    store.New, migrate    Open, CreateMigTable, CountVersions, [InsertVersion],
                          getSchemaVersion, (execMigration*, setSchemaVersion)*; Refused
    Run                   ListChannels, [CreateLobby], LoadChannels | BadChannelsFile,
                          the import, ChannelsLoaded, HasTokens,
                          [StoreAdminToken, LogAdminToken]
    loadOrGenerateTLS     LoadPair, [CreateCert, WriteCert, CreateKey, WriteKey, ReloadPair]
    then                  StartControl, StartVoice, Serve, Shutdown
    ensureChannel         StartImport, (LookUp, [Insert])*, Imported; Invalid, StoreError
    anywhere              ServerFails (an error Run returns, or a kill), Crash

A statement is a transaction, a migration is not. A channels file is the sequence
of its channels in the order `ensureChannel` visits them, each with the index of
the one it is nested in. Export (`buildChannelTree`) and a whole import are
functions of the rows, `ExportChannels` and `ImportAll`. `buildChannelTree` calls itself
for each channel; `Subtrees` runs the loops of all these calls at once, from the last
channel down; that this computes the recursion is a theorem (`BuildsChannelTree`), and
TLC found the two to agree on every table of up to four IDs. `ExportCommand` is an export process that finds an incomplete schema; one
that finds a complete one only reads.

**Client.** `connect`, `rx`, `monitor`, `audio` and `mic` are the goroutines of each call
of Connect, `teardown` the threads that are inside `handleDisconnect`. A locked
section of the Engine is one action, and so is each step between two of them:

    Connect               Connect, ReportConnecting, Dial | DialError, Authenticate |
                          LoginError, Link, Receive, ReportConnected, Return; ReportFailed
    StartReceiving        ReadKick, ReadError
    the monitor           ConnectionLost
    handleDisconnect      TakeDown, CloseAll, ReportDisconnected
    initAudioDefault      OpenStreams, StoreDevices | OpenError
    captureLoop           MicStarts, MicFrame*, MicEnds
    JoinChannel           Request, SetChannel
    the window            SendForm, PressDisconnect, ToggleMute, SelectChannel, RunPosted
    its goroutines        TakeToken (OnAutoToken), SaveAfterConnect

A connection and its devices are named by the call of Connect that opened them; a
server by the form it was typed into. `posted` is the queue of `fyne.Do`. `late` and
`crossed` are histories. Nothing keeps goroutines, user and server apart but the locks
and the window's thread: `TakeDown` may come at any time, also while devices are being
opened, between Connect's locked section and its callbacks, and between the two halves
of JoinChannel; a form may be sent whenever the window's thread is idle, also while the
goroutine of an earlier one is on its way, for a dialog that is open is not closed when
the buttons change.

**Abstractions.** User names stand for users (UNIQUE, never deleted) and for their
IDs; session IDs, tokens and connections are model values; a channel keeps the
four fields that select behaviour (in `ChannelTree` name, parent and temp flag);
token hashes are the tokens; ban rows that differ only in their end are merged; a
kick and a ban name a registered user, for a ban of an unknown ID concerns nobody.
Replies, broadcasts and chat are left out of `ControlServer`, for they change none of
its state, and are the subject of `ControlWire`. The texts of chat and errors are
left out everywhere.

## 3. What the runs check

| Run | Instance | Checks |
|---|---|---|
| `MCAccess` | 2 connections, an administrator and a new user, a one-use token and one to issue, failing store, 2 requests (join, leave, state, role, token, kick, ban) | `SessionsOwned`, `ConnsRegistered`, `SeatAgrees`, `TokenUsesCounted`, `NoEscalation`, `BannedStayOut` |
| `MCChannels` | 2 connections, up to 3 channels (temp channels with one seat), failing store, 4 requests (join, leave, create, delete) | `ServerTypeOK`, `MembersLive`, `SeatAgrees`, `PermanentNeverExpires`, `ClosedToNewcomers` |
| `MCProgress` | 2 connections, a channel and a temp channel, 2 requests (join, leave, delete, kick) | `HandlersReturn`, `HangUpCleansUp`, `KickTakesHold`, `EmptiedTempGoes` |
| `MCWire` | 2 connections that hold 2 pieces each, 1 request (join, leave, role, kick) | `NobodyMissesAChange`, `RegisteredServed`, `HandlersRest` |
| `MCVoiceRelay` | 3 sessions, 2 channels of which one does not fit on the wire, 2 addresses | `ImplementsMembership`, `OnlyItsChannelHears`, `EveryoneIsServed`, `AddressStays` |
| `MCJitter` | 9 packets, numbers modulo 12, from the start and across the wrap | `FramesBounded`, `PlaysWhatIsDue`, `DueIsHeard`, `LoopEnds` |
| `MCServerStart` | a server and an export command, a new or an old database, 3 faults, a file of 5 channels, 1 request (import, create, delete) | `StartTypeOK`, `OpenedComplete`, `NoTwins`, `ImportPlaces`, `ExportRoundTrips`, `OneAdminToken`, `CertStays`, `ComesUp` |
| `MCClient` | 2 calls of Connect, of which the first may be kicked and the second gets a token, leaves a bookmark and may have no audio devices; 3 events (forms, buttons, hotkey, joins, lost connections, kicks) | `OneOwner`, `ConnectedIsLive`, `ButtonLeft`, `AfterMute`, `BookmarkRight`, `LostIsTold` |

These pass. Four more runs check what comments and documentation say and TLC
shows that the code does otherwise; each is a finding:

| Run | Claim | Counterexample |
|---|---|---|
| `MCBanned` | "Also kick them if online" | two sessions, or a login past the check |
| `MCFrames` | "each message is preceded by a 4-byte ... length header" | a broadcast writes its frame between length and payload of an answer |
| `MCAudio` | "Audio device changes apply on next connection" | connect, disconnect, connect: PortAudio was initialized once and has been terminated |
| `MCJitterStall` | "max frames to wait before considering packet lost" | packet 1, then a gap longer than the look-ahead: every later frame waits for ever |

### Counterexamples without a run of their own

These claims, too, TLC refutes when they are put to the models: three comments of
`control.go`, by the interleaving of handlers, one of the documentation on the jitter
buffer, and what one would expect of the client.

- *"Check max users"* (349). A channel has one seat. Two joins run `JoinCount` before
  either runs `JoinMove`: both count no members, both join.
- *"Move users out of deleted channel"* (514). A join looks the channel up
  (`JoinRequest`); a delete removes the row (`DelStore`) and lists no members
  (`DelMembers`); the join goes on (`JoinCount`, `JoinMove`): its session sits in a
  channel that is gone. Of this and of the last seat `ClosedToNewcomers` says that it
  goes no further than the joins that were under way: once a channel is full, or its
  row is gone, the set of those who are in it or past the check in question does not
  grow.
- *"Update the session if the target user is online"* (719). A login reads its user,
  role included (`GetUser`); `RoleStore` lowers the role; `RoleFind` finds no session;
  the login creates its session with the role it has read (`NewSession`). The session
  keeps the old role until it ends. Which role it can be is bounded: `NoEscalation`.
- *"Reorders packets by sequence number", "buffering a small number of frames"*
  (`docs/audio.md` 155-158, likewise 121, and `jitter.go` 8-9). Packets 1, 3, 2 arrive.
  When 3 comes in, Pop finds 2 missing and 3 in reach, and gives 2 up at once
  (`PopLost`); 3 is played; 2 stays in the map until `cleanup`. So a packet that
  another one in reach has overtaken is never played, and nothing is buffered for its
  sake. `DueIsHeard` speaks of the others: a packet with nothing missing before it is
  always heard.
- *A disconnected client has its microphone closed.* The connection is lost, or the
  user disconnects, while `initAudioDefault` is between `OpenStreams` and
  `StoreDevices`: `handleDisconnect` finds no devices to close (779), the audio
  goroutine stores them afterwards (219). The stream stays open; its
  microphone loop ends when it finds no connection, or goes on with the next one's.
- *A disconnected client has no connection.* The first connection is lost and its
  monitor is slow; the user sends a second form; the monitor, which does not look whose
  end it tells, makes the Engine Disconnected while the second call logs in; the user
  sends a third form, and both calls store their connection (146-155). The second
  one's is overwritten and stays open.
- *The window says what the Engine is.* A connection is kicked after `Link` and before
  `ReportConnected`: Disconnected is posted before Connected (163), and the window
  stays on Connected; its button asks the Engine to disconnect, which finds nothing to
  do and posts nothing. Or a first call fails and is slow to say so (`ReportFailed`), a
  second one connects, and the window ends on Disconnected; Connect refuses what its
  button sends. What remains is that the window never hangs on Connecting with no
  button (`ButtonLeft`), and that the Engine does not call a dead connection Connected
  (`ConnectedIsLive`).
- *The microphone is open in a joined channel only.* JoinChannel sends its request, the
  connection is torn down, JoinChannel stores the channel (464): the next connection
  begins with a channel it has not joined, and its microphone loop sends.
- *A bookmark has the token of its server, for any two forms.* The first form is sent, a
  second one sets the fields although Connect will refuse it (`app.go` 463-488), and the
  goroutine of the first one saves the second one's server with the token it was
  issued by its own. `BookmarkRight` is about forms that do not meet in this way.

### What the code does besides

Met while modelling, and left as it is in the models:

- *Control plane.* A connection that is turned away stays in `ActiveConnections`
  (121). A temp channel whose last member moves to another channel, or that nobody
  ever joined, gets no cleanup goroutine (359); a sleeping one is lost when the
  server restarts (786), gives up when the store fails (793), may delete a channel
  before the grace period of a younger one is over, and tells nobody (792). A
  deleter moves members that have meanwhile gone to another channel (516). A login
  gets its personal token although storing it failed (191).
- *Sending.* Broadcasts are not ordered: a state read earlier may be written later and
  stay on the screen (745). A broadcast that comes before the AuthResponse makes the
  login fail on the client (216, `ReadUnexpected`). The server sets no write deadline:
  a client that does not read stops whoever writes to it, and with a broadcast the
  lock (751). A `ServerStateEvent` above 64 KB is never sent (`protocol.go` 89).
- *Voice.* A listener that has never sent a packet has no address and hears nothing
  (`voice.go` 115); channels from 65536 on carry no voice. The jitter buffer does not drop
  late packets on arrival, as `docs/audio.md` 157 would have it: they stay in the map
  until `cleanup`.
- *Start.* A crash between storing and logging the admin token, or `-log-level warn`,
  leaves a server nobody administers (`run.go` 108). Every error of an ALTER TABLE
  is ignored (`store.go` 183): with `AlterMayFail = TRUE` TLC breaks
  `OpenedComplete`. A pair named with `-cert` and `-key` that does not load is
  overwritten. An error of ListChannels counts as an empty store and makes a second
  Lobby. An import reports success although it skipped a root, takes a temp channel
  of the same name for its own, and may leave channels under a parent that was
  deleted meanwhile; two imports at once create a channel twice.
- *Client.* A server that accepts and stays silent
  leaves the client in Connecting (`client/control.go` 70). `SetMuted` and
  `SetDeafened` report a pair read in two steps (506), and `e.ctx` is read without the
  lock (795). The chosen audio devices are not handed to `NewCaptureDevice`.

### Bounds, and why they are enough

*Control plane.* Two connections are the smallest number for which handlers
interleave, and every counterexample above but that of `MCBanned` needs no more. What
a third one could add is ownership - an ID that is used again - and that, like all
safety properties of these runs, is proved for any number. (With both IDs taken a
login waits, as the drawing loop would.) `MaxRequests` bounds the requests of one
behaviour: two to four, enough for the longest hazard listed (join, join elsewhere,
delete). `MaxChannelID` bounds the channel IDs; `CreateChannelRequest` reserves the ID
it will need, so the bound never blocks a request half-way. Tokens are issued with
use limits 0 and 1 only. `Kinds` selects the requests a run looks at, so that each
run stays small.

*Sending.* `Buffer` counts pieces of frames, so that a connection may be full after a
length and after a payload. Two connections and one request give two logins, a
request's messages and two cleanups that broadcast: five senders, two at a time. The
requests that are left out send what these send, or less.

*Voice.* Three sessions are a sender and two listeners, one of whom may be replaced by
a new session with the same ID while the list is worked off; a session is created by
the one user there is, since the loop never looks at users; two addresses tell a
packet from elsewhere. The instance has no further bound: the histories are of the
packet in hand. In `MCJitter` 2^32, 5 and 10 become 12, 1 and 2, which keeps
`maxJitterDelay` below the limit of `cleanup` as in the code. Nine packets reach past
the look-ahead, past the limit and - starting at 8 - past the wrap; the number of
packets stays below `SeqMod` (`JitterAssumption`: the code's numbers repeat after 2^32
packets, some 994 days of speech).

*Start.* Three faults cut a start short three times, or two and refuse a statement of
the export command. `LegacyFile` lets the database come from before
`schema_migrations`. The file has a nested channel, and a root with an invalid
channel in front of a valid one. `ExportKeepsUp` follows an export command that was
left behind half-way through `store.New` only while the server is there too; the
proofs do without it. `MaxRequests` is one: administrators start no import while
another one of theirs runs, which is what `NoTwins` is claimed for. `LogsInfo` is
`-log-level`: without it no token is shown.

*Client.* Two calls of Connect are an old one and one that meets its leftovers, or two
forms that are sent at once. `MaxEvents` bounds what is done to the client from outside:
three events are a form, a join and the mute button, or two forms and a connection
that ends between any two steps. The goroutines themselves are not bounded. `Kicks`,
`AutoTokens`, `Saves` and `AudioFails` say to which calls these things may happen, and
are different for the two. What takes more calls or more events - the overwritten
connection above takes three calls - is in the proofs, which have no bounds and
assume nothing about when a connection ends or a form is sent.

Symmetry is used only in runs without liveness, over connections and session IDs, in
`MCVoiceRelay` over addresses as well. `CHECK_DEADLOCK FALSE` stands where the system
may stop: in `MCClient` and `MCAudio` the user may do nothing more, in `MCWire` every
handler may have ended or wait for its client once the requests are used up.

### Fairness

- `ControlServer`, `FairSpec`: weak fairness per goroutine (`Goroutine(k)`) and per
  sleeping cleanup goroutine. The Go scheduler is fair to runnable goroutines; no
  step of a handler waits for another goroutine; the first read of a connection has
  a 10-second deadline (`AuthReject` is therefore fair); `time.Sleep` ends. Nothing is
  assumed of clients: they may stay silent for ever. That the store answers (with a
  result or an error) is assumed, and so is that a write ends, which is the subject
  of the next one.
- `ControlWire`, `FairSpec`: handlers run, and clients read what they are sent
  (`WF_vars(Reads(k))`), as `StartReceiving` does. `HandlersRest` is for such clients
  only; TCP promises no more. `mu.Lock` needs no fairness of its own: Go's RWMutex
  lets no new reader in once a writer waits, which is `Announce`.
- `JitterBuffer`: the playback loop runs on until Pop has nothing
  (`WF_vars(Playing)`). Of the network nothing is assumed.
- `ServerStart`: `WF_vars(Run)`. The operating system runs the process, and systemd
  (`Restart=always`) or Docker starts it again. Faults are finite, imports included.
- `ClientProperties`: weak fairness of the goroutines, which the Go scheduler runs, and
  of the window's queue: its thread takes what is posted when the user's own handlers
  leave it the time, and what a user does is bounded by `MaxEvents`. Nothing is assumed
  of dials and logins: they may take for ever. `LostIsTold` needs no more, whatever the
  goroutines of other calls do in between.

## 4. What is proved

All for any number of connections, users, session IDs, channels, tokens, processes,
faults and requests, from the assumptions named in the modules: the null values lie
outside their sets, the initial store is well-formed with channel IDs 1..n and no
token used beyond its limit (`ServerAssumption`), `WireMod` is positive
(`RelayAssumption`), fewer packets are sent than there are numbers (`JitterAssumption`), entries of a channels
file come after the one they are nested in (`TreeAssumption`).

- `ChannelManagerProofs`: `IndexesAgree` (any sequence of Join and Leave keeps the
  two maps typed and in agreement) and `ManagerImplementsMembership` (the manager
  implements `Membership` under the mapping that reads a session's channel out of
  the index by channel). The key lemma, `WithoutFacts`, says what removing a session
  does to every channel.
- `ControlServerProofs`: `Invariance`, `TypeCorrect`, `RoomsAgree`, `SessionsHaveOwners`,
  `ConnMapExact`, `NoGhostMembers`, and `ServerImplementsMembership`: the refinement
  carries over to the whole control plane.
- `ControlPropertiesProofs`: `BansHold`, `SeatsAgree`, `PermanentStays`,
  `ClosedStayClosed`, `NobodyClimbs`, `TokenCountsHold`.
- `WireProofs`: `BroadcastsReachTheLiving`, `WireTypes`, `NobodyMisses`, `SomebodyCanGoOn`.
- `VoiceProofs`: `NobodyElseHears`, `AllWhoStayHear`, `AddressesStay`,
  `RelayImplementsMembership`.
- `JitterProofs`: `JitterTypes`, `MemoryBounded`, `PlaysInOrder`, `PlaysAtOnce`.
- `StartProofs`: `VersionsEarned`, `OpenedWhole` (both assume `~AlterMayFail`),
  `OneTokenMade`, `CertificateStays`, `StartTypes`, `ImportsPlace` (for any number of
  imports at once), `TwinsNever` (one administrator imports at a time),
  `BuildsChannelTree`, `ExportsRoundTrip`.
- `ClientProofs`: `OwnersUnique`, `ClientTypes`, `NoDeadConnection`, `AlwaysAnswered`,
  `OneFrameLate`, `BookmarksRight`; none of them assumes anything about when a
  connection ends or a form is sent.

**Control plane.** The inductive invariant `IInv` is the conjunction of the types,
`LocalsSet` (the locals a step uses have been set), `IndexAgree`, `SessionsOwned`,
`ConnsRegistered` and `MembersLive`. None of the last four is inductive alone: Leave and
Join are typed only for the ID of a live session; `sessions.Remove` frees an ID, which
is harmless only because one goroutine holds it and `connMap` and the rooms no longer
mention it; the fresh ID of a login is nobody's because every owner is in the table.
The module first shows store, rooms and goroutines typed, action by action; it then
sorts the labels into those where a goroutine owns session, seat and connection
(`Serving`) and those where it owns none (`Outside`), shows that all but five actions
stay on one side, and treats the five that cross (`NewSession`, `SetConn`, `ByeLeave`,
`ByeConn`, `ByeSession`) one by one. That the server implements `Membership` then takes
one lemma, `RoomsCalled`: every step is a call of Join or Leave for a session ID, or
leaves the rooms alone; so every behaviour of the server is one of `CMSpec`, for which
`ManagerImplementsMembership` holds. `RelayImplementsMembership` goes the same way.

The six properties of `ControlPropertiesProofs` rest on `IInv` and on locals being
local (`ActsAlone`: a goroutine moves only its own position and locals). *Bans*: whoever
gets inside has passed the check one step before (`InsideByBanCheck`). *Seats*: `SeatSet`
says, label by label, what session and index tell while a move is between its two
locks. Nobody else writes either, as IDs have one owner, but those who delete channels:
of these `DeletionTakes` and `DeletionAgrees` say that they only ever take a seat, or
empty a field, which is what `Agree` leaves room for. *Permanent channels*:
`TimersPassing` - timers, and handlers about to start one, name channels below
`nextChannelID` that are temp if they are there at all; an ID that is gone stays gone.
*Closed channels*: `LooksHold` - the row a join goes by is the row of the channel as long
as there is one, since rows never change and IDs never come back (`CurrentStays`) -, so
that the count of a join is compared with the limit the channel has now
(`JoinsComeFrom`); members come from joins past the count and from nowhere else
(`MembersComeFrom`).
*Roles*: `AllBelow(r)` is preserved for every r, as each action copies a role from
where there is one. *Tokens*: `UsesInv` relates a use count to the cardinality of the
set of logins with that token and needs that a token drawn is not in use
(`Drawn`); each login adds exactly one.

**Sending.** `WInv` is the types, `Locked` (the holders of the lock are the broadcasters
that are writing), `Leaving` (who is on the way to `conn.Close` is not registered, from
removeConn on), `Pending` (what a handler has to send ends in where it rests) and
`RegisteredServed`. The property alone is not inductive: that a session's entry stays
while somebody writes to it follows from removeConn waiting for the readers. `NetInv`
adds the connections and the bound on what they hold.

`NobodyMisses` is about the way of a change to a client, and its invariant says where
on that way it is. `TellInv`: for a client that is registered, listening and not up to
date, the last version is in a payload on its connection (`OnWire`), or in the hand of
a handler that has yet to write to it (`Carries`), or not yet built by a handler that
will broadcast it (`Promises`), or by the client's own login (`Answers`). Whoever changes
the state promises a broadcast in the same step; building the state turns a promise
into a message for everybody; the lock takes nobody out of `todo` who is registered; a
write that fails concerns a client that is gone; a message that is read is shown,
since nothing newer was (`Past`). A login is safe because it is registered before it
reads the state. `Resting` is needed for the end: a script has its only rest at its
end, so a handler that rests has no promise left, and one that is back in its loop
is registered.

`SomebodyCanGoOn` is the part of `HandlersRest` that is no liveness: no state has every
handler waiting for another, or for a connection that nobody will read. `MayMove` and
`MayRead` are the guards of `Handler` and `Reads` written out, as ENABLED is out of the
prover's reach; that they are true exactly where these actions are enabled was
compared on the instance of `MCWire`. The waits lead from the lock to a broadcaster
and from there to a full connection, where the chain must end. It does because of
`Framed`: a payload on a connection has the length its sender wrote before it, with
nothing of the same sender between them, so a client that has read no length finds
one in front. `KicksReturn` and `Resting` show that whoever kicks is registered itself,
so that the search for a target cannot wait for ever.

**Voice.** `VInv` adds to the types: `Fresh` (while an address is about to be stored the
session has none, also when the ID went to a new session), `SteadyHear` (who could hear
all the time can hear now), `Listed` (who was sent the packet or may still be is of its
audience, or has no address: this is where a reused ID is harmless) and `Pending`
(nobody who could hear has been forgotten). `AddressesStay` needs `Fresh`. `JInv` of the
jitter buffer adds `Numbered` (a frame lies under the wire number of its packet),
`DueNumbered` (`nextSeq` is the number of the packet due) and `AwaitedHeld` (a packet
that is due when it arrives is held until it is played). Order then follows because distinct packets have
distinct numbers, the bound because `cleanup` leaves only numbers within `MaxFrames` of
`nextSeq`, on either side.

**Start.** `SchemaInv` says what each process may rely on at the statement it is at: a
file never loses a table, a column or a version row (`FileGrows`), so what one process
has executed stays executed whatever others repeat. `FirstInv` holds the token count
against the position of the one step that makes a token, and the halves of the key
pair (`PairOK`) against the steps that write them.

`StartInv` joins these with the channels. `PlacedInv`: an importer has the channels of
all entries it has passed, but those below a logged root, each under the channel of
the entry it is nested in, unless deleted; IDs are never given out twice, so a row
that is there is the row that was placed. The step that matters is an error:
`NextRootIs` shows that everything between the entry it happens at and the next root
is below the root that is logged. It rests on least and greatest elements of sets of
numbers, which come from the least-number principle (`HasLeast`), itself an instance of
`WFMin`. `WhoImports` says who can be importing at which statement of the server.
`TwinsInv` adds to `NoTwins` that a name an importer has looked up and missed is still
missing (`MissedOK`); that it stays so is where overlapping imports have to be
excluded.

`ExportsRoundTrip` holds of every table whose channels come after their parents, so it
needs no invariant but the types. It goes by what an export is, not by how it is
computed: `Lists` says that a file has every permanent channel below p once, what is
below an entry right behind it, siblings in the order of their IDs. A table has only
one such file (`OneListing`): where two part, both go on with the same channel
(`Parting`). By induction from the last channel down `buildChannelTree` makes one
(`SubtreesList`, its step `Grows`). Importing it into the store it came from finds, entry
by entry, the channel the entry lists (`FindsAll`); importing it into an empty store
makes a channel of each entry (`CopiesAll`), the table this leaves is listed by the same
file (`CopyLists`), and so is exported as this file. The library's theorems about
induction and recursive functions cannot be used, as they take operators; both are
had from `HasLeast`: `Climb` is induction up to a number, and `SubtreesAre` and
`ImportsAre` build the functions that `Subtrees` and `Imports` choose.

The property supposes that no permanent channel has another one of its name beside
it. It is not enough that no two permanent ones have: a temp channel may have the name
of a permanent one beside it, an import that takes it for the permanent one puts
below it what the file has below the other, and adds channels to a store it was
exported from. It takes a temp channel, a permanent one of its name with a higher ID
(made by a request, or by an import that looked before the temp one was there), and
one below that.

**Client.** `OwnInv`: what the Engine or a thread in `handleDisconnect` holds is alive
(`HeldAlive`), is nobody else's (`HeldOnce`), and what is still being made is nobody's
(`Coming`). The locked section of `TakeDown` takes the fields away from the Engine,
which is what makes the second thread find nothing.

The other properties of the client need no owners. `LiveInv`: Connected comes with a
connection whose monitor has not ended; a monitor that waits becomes ready when its
reader ends, so an Engine at rest has one whose reader still reads (`NoDeadConnection`).
The monitor takes down whatever there is when it ends, its own connection or the one
that has replaced it. `ScreenInv`: every
"Connecting" that is posted or shown has an answer behind it in the queue, or a call of
Connect under way that will post one; whatever posts "Connecting" can be the call that
another one's "Disconnected" answers, so the invariant does not say whose answer it is
(`AlwaysAnswered`). `MicInv`: a loop that has sent a frame since the user muted has read
the flag since (`OneFrameLate`); it is local to each loop, so loops that run on after
their connection's end do no harm. `FormInv`: the fields of the form belong to the last
call sent, and to it alone as long as it uses them, if it has not met another
(`BookmarksRight`).

Only model-checked: everything about progress (`HandlersReturn`, `HangUpCleansUp`,
`KickTakesHold`, `EmptiedTempGoes`, `HandlersRest`, `LoopEnds`, `ComesUp`, `LostIsTold`), as
liveness under fairness is out of the prover's reach.

## 5. How the project is ordered

The control plane came first, as everything else reads its state: managers, store,
handlers, then the voice relay and the jitter buffer over the same managers; then
what the handlers send; then the server's files and the client. Runs of one module
that share an instance are one run. The invariants of the runs were proved in the same
order, those about data (IDs, connections, files) before those about the order of
events. What a next step could take up: an abstract specification of the relay; packets
of a client from `SendVoice` through relay and jitter buffer in one model.

## 6. Not modelled, and why

- Voice activity detection: arithmetic on samples in one goroutine. In `ClientEngine`
  a frame is active or not.
- Samples, Opus, the mixing of playback: I/O and library code. Opening and closing of
  streams is modelled.
- Cryptography: library code; drawing a token is a choice among tokens nobody holds.
- Settings, themes, the hotkey's system calls, metrics, logging: files, formatting and
  operating system calls. Of the counters `ActiveConnections` is in `ControlServer`.
- The rest of the window: layout, lists, and dialogs that only send a request.
- Shutdown does not wait for handlers in progress; `ServerStart` ends the process, with
  everything in memory, in one step.
- The size limit of a frame, deafening on the client, and the context that stops the
  playback goroutine.
