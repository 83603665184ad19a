------------------------------ MODULE ClientApp ------------------------------
(***************************************************************************)
(* ui/app.go over ClientEngine: the window.  Its callbacks run on the      *)
(* Engine's goroutines and hand their work to the window's thread          *)
(* (fyne.Do), which does it later, in order, between the user's actions;   *)
(* a form that is sent starts a goroutine that calls Connect and then      *)
(* saves a bookmark.                                                       *)
(***************************************************************************)
EXTENDS ClientEngine

CONSTANT Saves   \* calls that are to leave a bookmark

ASSUME AppAssumption == Saves \subseteq Calls

VARIABLES
  screen,      \* what statusLabel says
  enabled,     \* which of connectBtn and disconnectBtn can be pressed
  form,        \* connectServer, connectToken, serverSaved
  saving,      \* calls whose goroutine has a bookmark to save, checked at sending
  bookmarks,   \* server -> the token saved for it, Nothing when there is none
  crossed      \* history: calls whose forms have met in the fields of the form

appVars == <<screen, enabled, form, saving, bookmarks, crossed>>
vars == <<engVars, appVars>>

(* Each form that is sent is for a server of its own, named by the call.  A  *)
(* token is Typed into the form of that server, or the call it was issued to. *)
Typed == 0
Nothing == -1

Init ==
  /\ EngineInit
  /\ screen = "Disconnected"
  /\ enabled = {"connect"}
  /\ form = [server |-> None, token |-> Typed, saved |-> FALSE]
  /\ saving = {}
  /\ bookmarks = [c \in Calls |-> Nothing]
  /\ crossed = {}

\* The window's thread is in no handler
WindowIdle == teardown[None] = Idle /\ asking = None

-----------------------------------------------------------------------------
(* What the user does *)

\* The goroutine of call c has yet to use the fields of the form
UsesForm(c) ==
  \/ connect[c] \notin {"unused", "refused", "returned"}
  \/ connect[c] = "returned" /\ c \in saving

\* The callback of the connect dialog, which may have been opened a while ago:
\* the fields are set whatever the Engine does, and whether Connect will refuse or not
SendForm(c) ==
  /\ Event
  /\ WindowIdle
  /\ connect[c] = "unused"
  /\ \A d \in 1 .. c - 1 : connect[d] # "unused"
  /\ connect' = [connect EXCEPT ![c] = "new"]
  /\ form' = [server |-> c, token |-> Typed, saved |-> c \in Saves]
  /\ saving' = IF c \in Saves THEN saving \cup {c} ELSE saving
  /\ LET met == {d \in Calls : UsesForm(d)} IN
       crossed' = IF met = {} THEN crossed ELSE crossed \cup met \cup {c}
  /\ UNCHANGED <<engineVars, rx, monitor, audio, mic, teardown, asking, netVars,
                 audioVars, late, posted, screen, enabled, bookmarks>>

PressDisconnect ==
  /\ "disconnect" \in enabled
  /\ Disconnect
  /\ UNCHANGED appVars

\* The button is enabled with disconnectBtn; the hotkey asks for the state
ToggleMute ==
  /\ \/ "disconnect" \in enabled /\ WindowIdle
     \/ state = "Connected"
  /\ SetMuted(~muted)
  /\ UNCHANGED appVars

\* onChannelListSelect
SelectChannel ==
  /\ state = "Connected"
  /\ screen = "Connected"
  /\ Request
  /\ UNCHANGED appVars

-----------------------------------------------------------------------------
(* What the program does *)

\* BookmarkStore.Add: the bookmark of that server, if there is one, is replaced
Add(server, token) == bookmarks' = [bookmarks EXCEPT ![server] = token]

\* Of the fields as they are by now
SaveCurrentBookmark == Add(form.server, form.token)

\* An OnAutoToken that leaves connectToken alone.
TakeTokenLate(c) == Return(c) /\ UNCHANGED appVars

\* OnAutoToken sets connectToken at once and leaves the rest to the window
TakeToken(c) ==
  /\ Return(c)
  /\ form' = IF c \in AutoTokens THEN [form EXCEPT !.token = c] ELSE form
  /\ UNCHANGED <<screen, enabled, saving, bookmarks, crossed>>

\* After Connect has returned, on its goroutine; an error of Connect ends it
SaveAfterConnect(c) ==
  /\ c \in saving
  /\ connect[c] = "returned"
  /\ saving' = saving \ {c}
  /\ SaveCurrentBookmark
  /\ UNCHANGED <<engVars, screen, enabled, form, crossed>>

\* The functions handed to fyne.Do, one after the other
ShowState(new) ==
  /\ screen' = new
  /\ enabled' = CASE new = "Disconnected" -> {"connect"}
                  [] new = "Connecting"   -> enabled \ {"connect"}
                  [] new = "Connected"    -> {"disconnect"}
  /\ UNCHANGED bookmarks

RunPosted ==
  /\ WindowIdle
  /\ posted # <<>>
  /\ posted' = Tail(posted)
  /\ IF Head(posted) = "Token"
       THEN /\ IF form.saved THEN SaveCurrentBookmark ELSE UNCHANGED bookmarks
            /\ UNCHANGED <<screen, enabled>>
       ELSE ShowState(Head(posted))
  /\ UNCHANGED <<engineVars, taskVars, netVars, audioVars, userVars,
                 form, saving, crossed>>

Engine(c) ==
  /\ Connect(c) \/ ConnectStep(c) \/ Watch(c) \/ Audio(c)
  /\ UNCHANGED appVars

Next ==
  \/ \E c \in Calls : SendForm(c)
  \/ PressDisconnect \/ ToggleMute \/ SelectChannel
  \/ RunPosted
  \/ SetChannel /\ UNCHANGED appVars
  \/ \E t \in Threads : FinishTeardown(t) /\ UNCHANGED appVars
  \/ \E c \in Calls :
       \/ Engine(c) \/ TakeToken(c) \/ SaveAfterConnect(c)
       \/ Mic(c) /\ UNCHANGED appVars
       \/ \E kick \in BOOLEAN : ServerCloses(c, kick) /\ UNCHANGED appVars

Spec == Init /\ [][Next]_vars
=============================================================================
