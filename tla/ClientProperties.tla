-------------------------- MODULE ClientProperties --------------------------
(***************************************************************************)
(* What the client of pkg/client and ui promises its user, whatever its    *)
(* goroutines, its user and the server do in between: a connection may end *)
(* before Connect has returned, while its audio devices are being opened   *)
(* or between the two halves of JoinChannel, and the user may send another *)
(* form at any time.                                                       *)
(***************************************************************************)
EXTENDS ClientApp

ConnectLabels ==
  {"unused", "new", "started", "dial", "login", "link", "receive", "report",
   "return", "returned", "failed", "refused"}

Holding == [at : {"idle", "close", "report"}, link : Threads, devices : Threads]

EngineTypeOK ==
  /\ state \in {"Disconnected", "Connecting", "Connected"}
  /\ link \in Threads /\ devices \in Threads /\ channel \in Threads /\ asking \in Threads
  /\ muted \in BOOLEAN
  /\ connect \in [Calls -> ConnectLabels]
  /\ rx \in [Calls -> {"off", "reading", "ended"}]
  /\ monitor \in [Calls -> {"off", "waiting", "ended"}]
  /\ audio \in [Calls -> {"off", "init", "opened", "open", "failed"}]
  /\ mic \in [Calls -> [at : {"off", "top", "read", "ended"}, link : Threads,
                        devices : Threads, open : BOOLEAN]]
  /\ teardown \in [Threads -> Holding]
  /\ socket \in [Calls -> {"none", "open", "lost", "closed"}]
  /\ kicked \subseteq Calls
  /\ stream \in [Calls -> {"none", "open", "closed"}]
  /\ portaudio \in Nat /\ events \in Nat /\ late \in [Calls -> Nat]
  /\ posted \in Seq({"Disconnected", "Connecting", "Connected", "Token"})

ClientTypeOK ==
  /\ EngineTypeOK
  /\ screen \in {"Disconnected", "Connecting", "Connected"}
  /\ enabled \subseteq {"connect", "disconnect"}
  /\ form \in [server : Threads, token : Threads, saved : BOOLEAN]
  /\ saving \subseteq Calls
  /\ bookmarks \in [Calls -> Threads \cup {Nothing}]
  /\ crossed \subseteq Calls

-----------------------------------------------------------------------------
(* Connections and devices *)

Tearing(c) == {t \in Threads : teardown[t].at = "close" /\ teardown[t].link = c}
Stopping(c) == {t \in Threads : teardown[t].at = "close" /\ teardown[t].devices = c}

(***************************************************************************)
(* handleDisconnect may run on three threads at once - the user's, the     *)
(* reader's, the monitor's - and connections come and go meanwhile: what   *)
(* the Engine holds is open at this end and nobody's to close, and what    *)
(* one thread is to close no other one is.  So nothing is closed twice.    *)
(***************************************************************************)
OneOwner ==
  /\ link # None => /\ socket[link] \in {"open", "lost"}
                    /\ Tearing(link) = {}
  /\ devices # None => stream[devices] = "open" /\ Stopping(devices) = {}
  /\ \A c \in Calls, s, t \in Threads :
       \/ s = t
       \/ ~({s, t} \subseteq Tearing(c)) /\ ~({s, t} \subseteq Stopping(c))
  /\ \A c \in Calls :
       /\ Tearing(c) # {} => socket[c] \in {"open", "lost"}
       /\ Stopping(c) # {} => stream[c] = "open"

\* No call of Connect, handleDisconnect or initAudioFn is under way
Quiet ==
  /\ \A c \in Calls : connect[c] \in {"unused", "refused", "returned"}
  /\ \A c \in Calls : audio[c] \in {"off", "open", "failed"}
  /\ \A t \in Threads : teardown[t] = Idle

(***************************************************************************)
(* The status and the buttons follow from callbacks of several goroutines, *)
(* handed over in whatever order these run, and may end up telling another *)
(* state than the Engine's.  But every Connecting gets its answer: when    *)
(* nothing is under way and nothing is posted, the window has one of its   *)
(* two buttons enabled, the one that fits what it says.  (What the button  *)
(* asks for the Engine may find done already.)                             *)
(***************************************************************************)
ButtonLeft ==
  Quiet /\ posted = <<>> =>
    \/ screen = "Disconnected" /\ enabled = {"connect"}
    \/ screen = "Connected" /\ enabled = {"disconnect"}

\* ... and the goroutines that watch connections have done what they can
Settled ==
  /\ Quiet
  /\ \A c \in Calls :
       /\ rx[c] = "reading" => socket[c] = "open" /\ c \notin kicked
       /\ monitor[c] = "waiting" => rx[c] # "ended"

(***************************************************************************)
(* Connect says Connected under a lock that it has given up when the       *)
(* goroutines that watch the connection start, and any teardown may come   *)
(* in between, of its own connection or by a monitor left over from an     *)
(* earlier one.  When they have done what they can, an Engine that still   *)
(* says so holds a connection that is open at both ends and watched.       *)
(***************************************************************************)
ConnectedIsLive ==
  Settled /\ state = "Connected" =>
    /\ link # None
    /\ socket[link] = "open"
    /\ rx[link] = "reading" /\ monitor[link] = "waiting"

-----------------------------------------------------------------------------
(* What the microphone loop sends *)

(***************************************************************************)
(* captureLoop tests a copy of muted taken before it waits for a frame: no *)
(* loop sends more than the frame under way after the user has muted, not  *)
(* even one that has outlived its connection and runs on the fields of the *)
(* next.                                                                   *)
(***************************************************************************)
AfterMute == \A c \in Calls : late[c] <= 1

(***************************************************************************)
(* A bookmark has the token of its own server, the one the server issued   *)
(* if it has: of two goroutines that save it (OnAutoToken and the one that *)
(* called Connect), neither leaves the token that was typed.  (Forms that  *)
(* have met are not spoken for: the second one sets the fields although    *)
(* Connect refuses it, and the first one's token is saved for its server.) *)
(***************************************************************************)
BookmarkRight ==
  \A c \in Saves \ (saving \cup crossed) :
    connect[c] = "returned" =>
      bookmarks[c] = IF c \in AutoTokens THEN c ELSE Typed

(***************************************************************************)
(* "Audio device changes apply on next connection" (app.go:743): there is  *)
(* audio on the next connection, PortAudio being initialized whenever a    *)
(* call opens its devices.  (Not so: PreInitAudio initializes it once, and *)
(* every capture.Close terminates it.)                                     *)
(***************************************************************************)
AudioReady == \A c \in Calls : audio[c] = "init" => portaudio > 0

-----------------------------------------------------------------------------
(* Progress: the client's goroutines run, and its window does what is      *)
(* posted when the user leaves it the time (weak fairness: what the user   *)
(* does is bounded); a dial or a login may take for ever.                  *)

LeaveApp(A) == A /\ UNCHANGED appVars

Fairness ==
  /\ WF_vars(RunPosted)
  /\ WF_vars(LeaveApp(SetChannel \/ FinishTeardown(None)))
  /\ \A c \in Calls :
       /\ WF_vars(LeaveApp(ReportFailed(c) \/ Link(c) \/ Receive(c) \/ ReportConnected(c))
                  \/ TakeToken(c))
       /\ WF_vars(LeaveApp(ReadKick(c) \/ ReadError(c) \/ ConnectionLost(c)
                           \/ FinishTeardown(c)))

FairSpec == Spec /\ Fairness

(***************************************************************************)
(* When the server or the network has ended the connection in use, the     *)
(* user is told: reader, monitor, handleDisconnect and the window's thread *)
(* act in turn, among those of other calls of Connect.                     *)
(***************************************************************************)
LostIsTold ==
  (state = "Connected" /\ link # None /\ socket[link] = "lost") ~> screen = "Disconnected"
=============================================================================
