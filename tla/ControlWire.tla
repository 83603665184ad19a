----------------------------- MODULE ControlWire -----------------------------
(***************************************************************************)
(* The sending side of pkg/server/control.go, down to the two writes of a  *)
(* frame (WriteControlMessage), and the reading side of the client: who    *)
(* may write to which connection when, under which lock, and what then     *)
(* arrives.  ControlServer has the checks and the state of the requests;   *)
(* here a request is the list of messages it sends, and all that the       *)
(* messages show of the server is a version, which grows when a handler    *)
(* changes what a ServerStateEvent lists.                                  *)
(***************************************************************************)
EXTENDS Naturals, Sequences

CONSTANTS
  Conns,        \* connections; each has one handler and one session
  NoConn,
  Kinds,        \* the requests clients make
  Buffer,       \* bound: pieces of frames a connection holds unread
  MaxRequests   \* bound: requests served

AllKinds == {"join", "leave", "role", "state", "channels", "chat", "ping", "list",
             "refusal", "kick"}

ASSUME WireAssumption ==
  /\ Kinds \subseteq AllKinds
  /\ NoConn \notin Conns /\ Buffer \in Nat \ {0} /\ MaxRequests \in Nat

VARIABLES
  version,    \* changes made so far to what a ServerStateEvent lists
  requests,   \* requests served so far
  connMap,    \* ControlHandler.connMap: the sessions that are registered
  readers,    \* handlers that hold ControlHandler.mu.RLock
  writer,     \* the handler that waits in mu.Lock or holds it
  pc,         \* handler: what it does next
  sends,      \* handler: what it has yet to send before it rests
  msg,        \* handler: the message it is sending
  todo,       \* handler: the connections it has yet to send it to
  wire,       \* connection: pieces written and not read
  conn,       \* connection: "open", or "closed" by the server
  client,     \* client: "off", "login", "in", and why it is out again
  half,       \* client: the sender of the frame whose length it has read
  told        \* client: the latest version it has been shown

handlerVars == <<pc, sends, msg, todo>>
lockVars == <<connMap, readers, writer>>
clientVars == <<client, half, told>>
vars == <<version, requests, lockVars, handlerVars, wire, conn, clientVars>>

NoMsg == [kind |-> "none", ver |-> 0, to |-> NoConn]

Init ==
  /\ version = 0 /\ requests = 0
  /\ connMap = {} /\ readers = {} /\ writer = NoConn
  /\ pc = [k \in Conns |-> "off"] /\ sends = [k \in Conns |-> <<>>]
  /\ msg = [k \in Conns |-> NoMsg] /\ todo = [k \in Conns |-> {}]
  /\ wire = [k \in Conns |-> <<>>] /\ conn = [k \in Conns |-> "open"]
  /\ client = [k \in Conns |-> "off"] /\ half = [k \in Conns |-> NoConn]
  /\ told = [k \in Conns |-> 0]

Goto(k, label) == pc' = [pc EXCEPT ![k] = label]
Listening(k) == client[k] \in {"login", "in"}

-----------------------------------------------------------------------------
(* The life of a handler *)

\* A login that passes its checks.
Login(k) ==
  /\ pc[k] = "off"
  /\ Goto(k, "set") /\ client' = [client EXCEPT ![k] = "login"]
  /\ UNCHANGED <<version, requests, lockVars, sends, msg, todo, wire, conn, half, told>>

\* Mutant: the lock is taken while broadcasts are under way.
LockHeldAmongReaders(k) == writer = k

\* mu.Lock in setConn and removeConn: no RLock succeeds from here on, and the
\* lock is held once those who have it are gone.
Announce(k) ==
  /\ pc[k] \in {"set", "remove"} /\ writer = NoConn
  /\ writer' = k
  /\ UNCHANGED <<version, requests, connMap, readers, handlerVars, wire, conn, clientVars>>

LockHeld(k) == writer = k /\ readers = {}

\* setConn; what follows is the AuthResponse.
setConn(k) ==
  /\ pc[k] = "set" /\ LockHeld(k)
  /\ connMap' = connMap \cup {k} /\ writer' = NoConn
  /\ sends' = [sends EXCEPT ![k] = <<"auth", "loop">>] /\ Goto(k, "next")
  /\ UNCHANGED <<version, requests, readers, msg, todo, wire, conn, clientVars>>

\* What the handlers send, in order: to the members of a channel ("event"), to
\* the one who asked ("own", "reply"), to everybody ("all"), to a target.
Messages(kind) ==
  CASE kind = "join"   -> <<"event", "event", "own", "all">>
    [] kind = "leave"  -> <<"event", "all">>
    [] kind = "role"   -> <<"reply", "all">>
    [] kind \in {"state", "channels"} -> <<"all">>
    [] kind = "chat"   -> <<"event">>
    [] kind \in {"ping", "list", "refusal"} -> <<"reply">>
    [] kind = "kick"   -> <<"kick">>

Changing == {"join", "leave", "role", "state", "channels"}

\* The message loop reads a request, and its handler changes the state.
Request(k, kind) ==
  /\ pc[k] = "loop" /\ conn[k] = "open" /\ client[k] = "in" /\ requests < MaxRequests
  /\ requests' = requests + 1
  /\ version' = IF kind \in Changing THEN version + 1 ELSE version
  /\ sends' = [sends EXCEPT ![k] = Append(Messages(kind), "loop")] /\ Goto(k, "next")
  /\ UNCHANGED <<lockVars, msg, todo, wire, conn, clientVars>>

\* The loop's read fails: the deferred cleanup leaves the channel, if the
\* session is in one.
Bye(k) ==
  /\ pc[k] = "loop" /\ ~ (conn[k] = "open" /\ Listening(k))
  /\ \/ /\ version' = version + 1
        /\ sends' = [sends EXCEPT ![k] = <<"event", "all", "close">>]
     \/ version' = version /\ sends' = [sends EXCEPT ![k] = <<"all", "close">>]
  /\ Goto(k, "remove")
  /\ UNCHANGED <<requests, lockVars, msg, todo, wire, conn, clientVars>>

removeConn(k) ==
  /\ pc[k] = "remove" /\ LockHeld(k)
  /\ connMap' = connMap \ {k} /\ writer' = NoConn /\ Goto(k, "next")
  /\ UNCHANGED <<version, requests, readers, sends, msg, todo, wire, conn, clientVars>>

-----------------------------------------------------------------------------
(* Sending one message *)

\* The next item is no message: back to the loop, or conn.Close and the end.
Rest(k) ==
  /\ pc[k] = "next"
  /\ \/ Head(sends[k]) = "loop" /\ Goto(k, "loop") /\ UNCHANGED conn
     \/ /\ Head(sends[k]) = "close" /\ Goto(k, "ended")
        /\ conn' = [conn EXCEPT ![k] = "closed"]
  /\ sends' = [sends EXCEPT ![k] = <<>>]
  /\ UNCHANGED <<version, requests, lockVars, msg, todo, wire, clientVars>>

\* buildChannelInfos, or the fields of an event: read before any lock.
BuildFor(k, t) ==
  msg' = [msg EXCEPT ![k] = [kind |-> Head(sends[k]), ver |-> version, to |-> t]]

Build(k) == BuildFor(k, NoConn)

\* AuthResponse, sendServerState, sendError, Pong: to the own connection.
Answer(k) ==
  /\ pc[k] = "next" /\ Head(sends[k]) \in {"auth", "own", "reply"}
  /\ Build(k) /\ todo' = [todo EXCEPT ![k] = {k}] /\ Goto(k, "write")
  /\ UNCHANGED <<version, requests, lockVars, sends, wire, conn, clientVars>>

\* broadcastToChannel lists the members before it takes the lock; without a
\* channel (chID = 0) nothing is sent.
ListMembers(k) ==
  /\ pc[k] = "next" /\ Head(sends[k]) = "event"
  /\ \/ /\ \E ms \in SUBSET Conns : todo' = [todo EXCEPT ![k] = ms]
        /\ Build(k) /\ Goto(k, "rlock") /\ UNCHANGED sends
     \/ sends' = [sends EXCEPT ![k] = Tail(@)] /\ UNCHANGED <<pc, msg, todo>>
  /\ UNCHANGED <<version, requests, lockVars, wire, conn, clientVars>>

\* broadcastServerState
BuildState(k) ==
  /\ pc[k] = "next" /\ Head(sends[k]) = "all"
  /\ Build(k) /\ todo' = [todo EXCEPT ![k] = Conns] /\ Goto(k, "rlock")
  /\ UNCHANGED <<version, requests, lockVars, sends, wire, conn, clientVars>>

\* handleKickUser and handleBanUser look the connection up under the lock and
\* write to it without.
FindTarget(k) ==
  /\ pc[k] = "next" /\ Head(sends[k]) = "kick" /\ writer = NoConn
  /\ \E t \in connMap : todo' = [todo EXCEPT ![k] = {t}] /\ BuildFor(k, t)
  /\ Goto(k, "write")
  /\ UNCHANGED <<version, requests, lockVars, sends, wire, conn, clientVars>>

\* Mutant: none that waits for its AuthResponse.
TargetsAnswered(k) == {t \in todo[k] \cap connMap : msg[t].kind # "auth"}

\* Those a broadcaster finds in connMap, of those it looks for.
Targets(k) == todo[k] \cap connMap

RLock(k) ==
  /\ pc[k] = "rlock" /\ writer = NoConn
  /\ readers' = readers \cup {k}
  /\ todo' = [todo EXCEPT ![k] = Targets(k)] /\ Goto(k, "write")
  /\ UNCHANGED <<version, requests, connMap, writer, sends, msg, wire, conn, clientVars>>

Piece(k, part) == [from |-> k, part |-> part, kind |-> msg[k].kind, ver |-> msg[k].ver]

\* A write succeeds, or finds the connection closed or the client gone; while
\* the connection is full it waits.
CanWrite(t) == conn[t] = "open" /\ Listening(t) /\ Len(wire[t]) < Buffer
WriteFails(t) == ~ (conn[t] = "open" /\ Listening(t))

\* WriteControlMessage, first write: the length.
WriteLength(k, t) ==
  /\ pc[k] = "write" /\ t \in todo[k] /\ CanWrite(t)
  /\ wire' = [wire EXCEPT ![t] = Append(@, Piece(k, "length"))]
  /\ todo' = [todo EXCEPT ![k] = @ \ {t}] /\ msg' = [msg EXCEPT ![k].to = t]
  /\ Goto(k, "payload")
  /\ UNCHANGED <<version, requests, lockVars, sends, conn, clientVars>>

\* On to the next connection; a kicker keeps its target's.
Written(k) ==
  /\ Goto(k, "write")
  /\ IF msg[k].kind = "kick" THEN UNCHANGED msg ELSE msg' = [msg EXCEPT ![k].to = NoConn]

\* Second write: the payload.
WritePayload(k, t) ==
  /\ pc[k] = "payload" /\ msg[k].to = t /\ CanWrite(t)
  /\ wire' = [wire EXCEPT ![t] = Append(@, Piece(k, "payload"))]
  /\ Written(k)
  /\ UNCHANGED <<version, requests, lockVars, sends, todo, conn, clientVars>>

\* Mutant: a failed write ends the broadcast, RUnlock included.
WriteErrorReturns(k, t) ==
  /\ \/ pc[k] = "write" /\ t \in todo[k]
     \/ pc[k] = "payload" /\ msg[k].to = t
  /\ conn[t] = "closed" \/ ~ Listening(t)
  /\ todo' = [todo EXCEPT ![k] = {}] /\ msg' = [msg EXCEPT ![k] = NoMsg]
  /\ sends' = [sends EXCEPT ![k] = Tail(@)] /\ Goto(k, "next")
  /\ UNCHANGED <<version, requests, lockVars, wire, conn, clientVars>>

\* After a failed write a broadcaster goes on with the next connection; who
\* writes to one only is done, and finds out when the loop reads again.
WriteError(k, t) ==
  /\ \/ pc[k] = "write" /\ t \in todo[k]
     \/ pc[k] = "payload" /\ msg[k].to = t
  /\ conn[t] = "closed" \/ ~ Listening(t)
  /\ todo' = [todo EXCEPT ![k] = @ \ {t}] /\ Written(k)
  /\ UNCHANGED <<version, requests, lockVars, sends, wire, conn, clientVars>>

Finish(k) ==
  /\ sends' = [sends EXCEPT ![k] = Tail(@)] /\ msg' = [msg EXCEPT ![k] = NoMsg]
  /\ Goto(k, "next")

\* Everybody has been written to: a broadcaster lets go of the lock.
Sent(k) ==
  /\ pc[k] = "write" /\ todo[k] = {} /\ msg[k].kind # "kick"
  /\ readers' = readers \ {k} /\ Finish(k)
  /\ UNCHANGED <<version, requests, connMap, writer, todo, wire, conn, clientVars>>

\* A kick closes the connection it has written to.
CloseTarget(k) ==
  /\ pc[k] = "write" /\ todo[k] = {} /\ msg[k].kind = "kick"
  /\ conn' = [conn EXCEPT ![msg[k].to] = "closed"] /\ Finish(k)
  /\ UNCHANGED <<version, requests, lockVars, todo, wire, clientVars>>

-----------------------------------------------------------------------------
(* The client: ReadControlMessage in Authenticate and in StartReceiving *)

First(k) == Head(wire[k])
Read(k) == wire' = [wire EXCEPT ![k] = Tail(@)]

\* The client closes its end; what it has not read is lost.
Leave(k, why) ==
  /\ client' = [client EXCEPT ![k] = why]
  /\ wire' = [wire EXCEPT ![k] = <<>>] /\ half' = [half EXCEPT ![k] = NoConn]
  /\ UNCHANGED <<version, requests, lockVars, handlerVars, conn, told>>

Reading(k) == Listening(k) /\ wire[k] # <<>>

ReadLength(k) ==
  /\ Reading(k) /\ half[k] = NoConn /\ First(k).part = "length"
  /\ half' = [half EXCEPT ![k] = First(k).from] /\ Read(k)
  /\ UNCHANGED <<version, requests, lockVars, handlerVars, conn, client, told>>

\* The payload of that length.
Whole(k) == First(k).part = "payload" /\ First(k).from = half[k]

ReadMessage(k) ==
  /\ Reading(k) /\ half[k] # NoConn /\ Whole(k)
  /\ client[k] = "in" \/ First(k).kind = "auth"
  /\ client' = [client EXCEPT ![k] = "in"]
  /\ told' = [told EXCEPT ![k] = IF First(k).kind \in {"auth", "own", "all"}
                                   /\ First(k).ver > @ THEN First(k).ver ELSE @]
  /\ half' = [half EXCEPT ![k] = NoConn] /\ Read(k)
  /\ UNCHANGED <<version, requests, lockVars, handlerVars, conn>>

\* Authenticate takes nothing but an AuthResponse for an answer.
ReadUnexpected(k) ==
  /\ Reading(k) /\ half[k] # NoConn /\ Whole(k)
  /\ client[k] = "login" /\ First(k).kind # "auth"
  /\ Leave(k, "refused")

\* Bytes of something else, which are no JSON: the client gives up.
ReadTorn(k) == Reading(k) /\ half[k] # NoConn /\ ~ Whole(k) /\ Leave(k, "torn")

\* The stream ends, or the user disconnects.
HangUp(k) == Listening(k) /\ Leave(k, "gone")

-----------------------------------------------------------------------------
Handler(k) ==
  \/ Announce(k) \/ setConn(k) \/ removeConn(k) \/ Bye(k) \/ Rest(k)
  \/ Answer(k) \/ ListMembers(k) \/ BuildState(k) \/ FindTarget(k) \/ RLock(k)
  \/ \E t \in Conns : WriteLength(k, t) \/ WritePayload(k, t) \/ WriteError(k, t)
  \/ Sent(k) \/ CloseTarget(k)

Reads(k) == ReadLength(k) \/ ReadMessage(k) \/ ReadUnexpected(k) \/ ReadTorn(k)

Next ==
  \E k \in Conns :
    \/ Login(k) \/ Handler(k) \/ Reads(k) \/ HangUp(k)
    \/ \E kind \in Kinds : Request(k, kind)

Spec == Init /\ [][Next]_vars

\* Goroutines run, and clients read what they are sent.
FairSpec == Spec /\ \A k \in Conns : WF_vars(Handler(k)) /\ WF_vars(Reads(k))

-----------------------------------------------------------------------------
Labels == {"off", "set", "remove", "next", "loop", "rlock", "write", "payload", "ended"}
Broadcasts == {"event", "all"}

(***************************************************************************)
(* Values; and the lock is held by those who need it: whoever returns from *)
(* a broadcast, setConn or removeConn has let go of it.                    *)
(***************************************************************************)
WireTypeOK ==
  /\ version \in Nat /\ requests \in 0 .. MaxRequests
  /\ connMap \subseteq Conns
  /\ pc \in [Conns -> Labels]
  /\ \A k \in Conns :
       /\ todo[k] \subseteq Conns /\ told[k] <= version
       /\ Len(wire[k]) <= Buffer
       /\ conn[k] \in {"open", "closed"}
       /\ client[k] \in {"off", "login", "in", "refused", "torn", "gone"}
       /\ half[k] \in Conns \cup {NoConn}
  /\ readers = {k \in Conns : pc[k] \in {"write", "payload"} /\ msg[k].kind \in Broadcasts}
  /\ writer # NoConn => pc[writer] \in {"set", "remove"}

\* Every handler waits for its client
AllServed == \A k \in Conns : pc[k] \in {"off", "loop", "ended"}

(***************************************************************************)
(* Whoever is logged in when all requests are served has been shown the    *)
(* last change any of them made: a login that overlaps a broadcast gets it *)
(* from the broadcast or finds it in its AuthResponse.  This is why        *)
(* handleControlConn registers the connection before it reads the state.   *)
(***************************************************************************)
NobodyMissesAChange ==
  AllServed =>
    \A k \in Conns : pc[k] = "loop" /\ conn[k] = "open" /\ client[k] = "in"
                     /\ wire[k] = <<>> => told[k] = version

(***************************************************************************)
(* A broadcast writes to connections of live sessions only: those it has   *)
(* yet to write to stay registered until it is done, and a registered one  *)
(* has a handler that has not yet closed it.  (A kick writes without the   *)
(* lock, to a connection that may be gone.)                                *)
(***************************************************************************)
RegisteredServed ==
  /\ \A k \in connMap : pc[k] \notin {"off", "set", "ended"}
  /\ \A k \in readers : /\ todo[k] \subseteq connMap
                        /\ pc[k] = "payload" => msg[k].to \in connMap

(***************************************************************************)
(* As long as clients read, no handler waits for ever, neither for the     *)
(* lock nor for a full connection: each gets back to its loop or ends.     *)
(***************************************************************************)
HandlersRest ==
  \A k \in Conns : pc[k] \notin {"off", "loop", "ended"} ~> pc[k] \in {"loop", "ended"}

(***************************************************************************)
(* "each message is preceded by a 4-byte big-endian uint32 length header"  *)
(* (docs/protocol.md): what a client reads after a length is the message   *)
(* of that length.                                                         *)
(***************************************************************************)
FramesWhole == \A k \in Conns : client[k] # "torn"
=============================================================================
