----------------------------- MODULE WireProofs -----------------------------
(***************************************************************************)
(* Theorems about ControlWire for any number of connections and requests:  *)
(* broadcasts write to registered connections only, connections stay       *)
(* within their bounds, nobody who is logged in misses the last change of  *)
(* what a ServerStateEvent lists, and the handlers never all wait for one  *)
(* another.                                                                *)
(***************************************************************************)
EXTENDS ControlWire, TLAPS

Items == {"auth", "event", "own", "reply", "all", "kick", "loop", "close"}
Msgs == [kind : Items \cup {"none"}, ver : Nat, to : Conns \cup {NoConn}]

WTypes ==
  /\ version \in Nat
  /\ connMap \subseteq Conns /\ readers \subseteq Conns
  /\ writer \in Conns \cup {NoConn}
  /\ pc \in [Conns -> Labels]
  /\ sends \in [Conns -> Seq(Items)]
  /\ msg \in [Conns -> Msgs]
  /\ todo \in [Conns -> SUBSET Conns]

Sending(k) == pc[k] \in {"write", "payload"} /\ msg[k].kind \in Broadcasts

\* Who holds the lock, and what the holders rely on
Locked ==
  /\ readers = {k \in Conns : Sending(k)}
  /\ \A k \in Conns : pc[k] = "rlock" => msg[k].kind \in Broadcasts
  /\ \A k \in Conns : pc[k] = "payload" => msg[k].to \in Conns
  /\ writer # NoConn => pc[writer] \in {"set", "remove"}

\* A handler on its way to conn.Close is, from removeConn on, not registered
Closing(k) == \E i \in DOMAIN sends[k] : sends[k][i] = "close"

Leaving == \A k \in connMap : pc[k] # "remove" => ~ Closing(k)

\* What a handler has to send before it rests ends in where it rests
Ends == {"loop", "close"}
Ended(s) == s # <<>> /\ s[Len(s)] \in Ends
Sends == {"rlock", "write", "payload"}

Pending ==
  \A k \in Conns :
    /\ pc[k] \in {"remove", "next"} \cup Sends => Ended(sends[k])
    /\ pc[k] \in Sends => Head(sends[k]) \notin Ends

WInv == WTypes /\ Locked /\ Leaving /\ Pending /\ RegisteredServed

-----------------------------------------------------------------------------
\* At the start nobody holds the lock or sends anything
LEMMA WInvInit == Init => WInv
PROOF
  BY WireAssumption DEF Init, WInv, WTypes, Locked, Leaving, Pending, Sends, RegisteredServed, Sending,
     Closing, Msgs, NoMsg, Labels, Broadcasts

\* What a request sends ends in the loop and in no close
LEMMA AppendOpen ==
  ASSUME NEW s \in Seq(Items), \A i \in DOMAIN s : s[i] # "close"
  PROVE  /\ Append(s, "loop") \in Seq(Items) /\ Ended(Append(s, "loop"))
         /\ \A i \in DOMAIN Append(s, "loop") : Append(s, "loop")[i] # "close"
PROOF
  <1>0. "loop" \in Items
    BY DEF Items
  <1>1. Len(s) \in Nat /\ DOMAIN s = 1 .. Len(s)
    OBVIOUS
  <1>2. /\ Append(s, "loop") \in Seq(Items)
        /\ Len(Append(s, "loop")) = Len(s) + 1
        /\ \A i \in 1 .. Len(s) : Append(s, "loop")[i] = s[i]
        /\ Append(s, "loop")[Len(s) + 1] = "loop"
    BY <1>0
  <1>3. DOMAIN Append(s, "loop") = 1 .. Len(s) + 1 /\ Append(s, "loop") # <<>>
    BY <1>1, <1>2
  <1> QED BY <1>1, <1>2, <1>3 DEF Ended, Ends

\* No request's messages contain a close
LEMMA MessagesAre ==
  ASSUME NEW kind \in Kinds
  PROVE  /\ Messages(kind) \in Seq(Items)
         /\ \A i \in DOMAIN Messages(kind) : Messages(kind)[i] # "close"
PROOF
  <1>1. kind \in AllKinds
    BY WireAssumption
  <1>2. CASE kind = "join"
    <2>1. Messages(kind) = <<"event", "event", "own", "all">>
      BY <1>2 DEF Messages
    <2> QED BY <2>1 DEF Items
  <1>3. CASE kind = "leave"
    <2>1. Messages(kind) = <<"event", "all">>
      BY <1>3 DEF Messages
    <2> QED BY <2>1 DEF Items
  <1>4. CASE kind = "role"
    <2>1. Messages(kind) = <<"reply", "all">>
      BY <1>4 DEF Messages
    <2> QED BY <2>1 DEF Items
  <1>5. CASE kind \in {"state", "channels"}
    <2>1. Messages(kind) = <<"all">>
      BY <1>5 DEF Messages
    <2> QED BY <2>1 DEF Items
  <1>6. CASE kind = "chat"
    <2>1. Messages(kind) = <<"event">>
      BY <1>6 DEF Messages
    <2> QED BY <2>1 DEF Items
  <1>7. CASE kind \in {"ping", "list", "refusal"}
    <2>1. Messages(kind) = <<"reply">>
      BY <1>7 DEF Messages
    <2> QED BY <2>1 DEF Items
  <1>8. CASE kind = "kick"
    <2>1. Messages(kind) = <<"kick">>
      BY <1>8 DEF Messages
    <2> QED BY <2>1 DEF Items
  <1> QED BY <1>1, <1>2, <1>3, <1>4, <1>5, <1>6, <1>7, <1>8 DEF AllKinds

\* What remains to be sent after the first item
LEMMA TailOpen ==
  ASSUME NEW s \in Seq(Items), Ended(s), Head(s) \notin Ends
  PROVE  /\ Tail(s) \in Seq(Items) /\ Ended(Tail(s))
         /\ (\E i \in DOMAIN Tail(s) : Tail(s)[i] = "close")
              => \E i \in DOMAIN s : s[i] = "close"
PROOF
  <1>1. s # <<>> /\ Tail(s) \in Seq(Items) /\ Len(Tail(s)) = Len(s) - 1
    BY DEF Ended
  <1>2. \A i \in 1 .. Len(s) - 1 : Tail(s)[i] = s[i + 1]
    BY <1>1
  <1>3. DOMAIN s = 1 .. Len(s) /\ DOMAIN Tail(s) = 1 .. Len(s) - 1 /\ Len(s) \in Nat
    BY <1>1
  <1>4. Len(s) # 1
    BY <1>1 DEF Ended
  <1>5. Len(s) - 1 \in 1 .. Len(s) - 1 /\ Tail(s)[Len(Tail(s))] = s[Len(s)]
    BY <1>1, <1>2, <1>3, <1>4
  <1>6. Tail(s) # <<>>
    BY <1>1, <1>3, <1>5
  <1> QED BY <1>1, <1>2, <1>3, <1>5, <1>6 DEF Ended

\* What setConn and the cleanup have to send ends in where they rest
LEMMA LiteralScripts ==
  /\ <<"auth", "loop">> \in Seq(Items) /\ Ended(<<"auth", "loop">>)
  /\ <<"event", "all", "close">> \in Seq(Items) /\ Ended(<<"event", "all", "close">>)
  /\ <<"all", "close">> \in Seq(Items) /\ Ended(<<"all", "close">>)
PROOF
  BY DEF Items, Ended, Ends

\* A login is not registered yet and sends nothing
LEMMA LoginKeeps ==
  ASSUME WInv, NEW k \in Conns, Login(k)
  PROVE  WInv'
PROOF
  <1>1. WTypes'
    BY DEF WInv, WTypes, Goto, Msgs, Items, Labels, lockVars, Login
  <1>2. Locked'
    BY DEF WInv, WTypes, Locked, Sending, Goto, Broadcasts, lockVars, Login
  <1>3. Leaving'
    BY DEF WInv, WTypes, Leaving, Closing, Goto, lockVars, Login
  <1>4. Pending'
    BY DEF WInv, WTypes, Pending, Sends, Ends, Goto, lockVars, Login, Ended
  <1>5. RegisteredServed'
    BY DEF WInv, WTypes, Locked, Leaving, RegisteredServed, Sending, Goto, Broadcasts,
       lockVars, Login
  <1> QED BY <1>1, <1>2, <1>3, <1>4, <1>5 DEF WInv

\* Whoever waits for the lock is at setConn or removeConn
LEMMA AnnounceKeeps ==
  ASSUME WInv, NEW k \in Conns, Announce(k)
  PROVE  WInv'
PROOF
  <1>1. WTypes'
    BY DEF WInv, WTypes, Msgs, Items, Labels, clientVars, handlerVars, Announce
  <1>2. Locked'
    BY DEF WInv, WTypes, Locked, Sending, Broadcasts, clientVars, handlerVars, Announce
  <1>3. Leaving'
    BY DEF WInv, WTypes, Leaving, Closing, clientVars, handlerVars, Announce
  <1>4. Pending'
    BY DEF WInv, WTypes, Pending, Sends, Ends, clientVars, handlerVars, Announce, Ended
  <1>5. RegisteredServed'
    BY DEF WInv, WTypes, Locked, Leaving, RegisteredServed, Sending, Broadcasts, clientVars,
       handlerVars, Announce
  <1> QED BY <1>1, <1>2, <1>3, <1>4, <1>5 DEF WInv

\* A session that is registered has messages and the loop ahead of it
LEMMA SetConnKeeps ==
  ASSUME WInv, NEW k \in Conns, setConn(k)
  PROVE  WInv'
PROOF
  <1>1. WTypes'
    BY DEF WInv, WTypes, Goto, Msgs, Items, Labels, clientVars, setConn, LockHeld
  <1>2. Locked'
    BY DEF WInv, WTypes, Locked, Sending, Goto, Broadcasts, clientVars, setConn, LockHeld
  <1>3. Leaving'
    BY DEF WInv, WTypes, Leaving, Closing, Goto, clientVars, setConn, LockHeld
  <1>4. Pending'
    BY LiteralScripts DEF WInv, WTypes, Pending, Sends, Ends, Goto, clientVars, setConn,
       LockHeld, Ended
  <1>5. RegisteredServed'
    BY DEF WInv, WTypes, Locked, Leaving, RegisteredServed, Sending, Goto, Broadcasts,
       clientVars, setConn, LockHeld
  <1> QED BY <1>1, <1>2, <1>3, <1>4, <1>5 DEF WInv

\* A request goes back to the loop after its messages
LEMMA RequestKeeps ==
  ASSUME WInv, NEW k \in Conns, NEW kind \in Kinds, Request(k, kind)
  PROVE  WInv'
PROOF
  <1>0. LET new == Append(Messages(kind), "loop")
        IN  new \in Seq(Items) /\ Ended(new) /\ \A i \in DOMAIN new : new[i] # "close"
    BY MessagesAre, AppendOpen
  <1>1. WTypes'
    BY <1>0 DEF WInv, WTypes, Goto, Msgs, Items, Labels, lockVars, clientVars, Request
  <1>2. Locked'
    BY DEF WInv, WTypes, Locked, Sending, Goto, Broadcasts, lockVars, clientVars, Request
  <1>3. Leaving'
    BY <1>0 DEF WInv, WTypes, Leaving, Closing, Goto, lockVars, clientVars, Request
  <1>4. Pending'
    BY <1>0 DEF WInv, WTypes, Pending, Sends, Ends, Goto, lockVars, clientVars, Request,
       Ended
  <1>5. RegisteredServed'
    BY DEF WInv, WTypes, Locked, Leaving, RegisteredServed, Sending, Goto, Broadcasts,
       lockVars, clientVars, Request
  <1> QED BY <1>1, <1>2, <1>3, <1>4, <1>5 DEF WInv

\* A cleanup is registered until removeConn
LEMMA ByeKeeps ==
  ASSUME WInv, NEW k \in Conns, Bye(k)
  PROVE  WInv'
PROOF
  <1>0. version' \in Nat /\ sends' \in [Conns -> Seq(Items)]
    <2>1. CASE version' = version + 1 /\ sends' = [sends EXCEPT ![k] = <<"event", "all", "close">>]
      BY <2>1, LiteralScripts DEF WInv, WTypes, Goto, lockVars, clientVars, Bye
    <2>2. CASE version' = version /\ sends' = [sends EXCEPT ![k] = <<"all", "close">>]
      BY <2>2, LiteralScripts DEF WInv, WTypes, Goto, lockVars, clientVars, Bye
    <2> QED BY <2>1, <2>2 DEF Bye
  <1>1. WTypes'
    BY <1>0 DEF WInv, WTypes, Goto, Msgs, Items, Labels, lockVars, clientVars, Bye
  <1>2. Locked'
    BY DEF WInv, WTypes, Locked, Sending, Goto, Broadcasts, lockVars, clientVars, Bye
  <1>3. Leaving'
    BY DEF WInv, WTypes, Leaving, Closing, Goto, lockVars, clientVars, Bye
  <1>4. Pending'
    BY LiteralScripts DEF WInv, WTypes, Pending, Sends, Ends, Goto, lockVars, clientVars,
       Bye, Ended
  <1>5. RegisteredServed'
    BY DEF WInv, WTypes, Locked, Leaving, RegisteredServed, Sending, Goto, Broadcasts,
       lockVars, clientVars, Bye
  <1> QED BY <1>1, <1>2, <1>3, <1>4, <1>5 DEF WInv

\* An entry is taken away when no broadcaster is writing
LEMMA RemoveConnKeeps ==
  ASSUME WInv, NEW k \in Conns, removeConn(k)
  PROVE  WInv'
PROOF
  <1>1. WTypes'
    BY DEF WInv, WTypes, Goto, Msgs, Items, Labels, clientVars, removeConn, LockHeld
  <1>2. Locked'
    BY DEF WInv, WTypes, Locked, Sending, Goto, Broadcasts, clientVars, removeConn, LockHeld
  <1>3. Leaving'
    BY DEF WInv, WTypes, Leaving, Closing, Goto, clientVars, removeConn, LockHeld
  <1>4. Pending'
    BY DEF WInv, WTypes, Pending, Sends, Ends, Goto, clientVars, removeConn, LockHeld, Ended
  <1>5. RegisteredServed'
    BY DEF WInv, WTypes, Locked, Leaving, RegisteredServed, Sending, Goto, Broadcasts,
       clientVars, removeConn, LockHeld
  <1> QED BY <1>1, <1>2, <1>3, <1>4, <1>5 DEF WInv

\* Only who has left connMap comes to its close
LEMMA RestKeeps ==
  ASSUME WInv, NEW k \in Conns, Rest(k)
  PROVE  WInv'
PROOF
  <1>0. Head(sends[k]) = "close" => Closing(k)
    <2>1. sends[k] \in Seq(Items) /\ sends[k] # <<>>
      BY DEF WInv, WTypes, Pending, Ended, Rest
    <2>2. 1 \in DOMAIN sends[k] /\ Head(sends[k]) = sends[k][1]
      BY <2>1
    <2> QED BY <2>2 DEF Closing
  <1>a. <<>> \in Seq(Items)
    OBVIOUS
  <1>1. WTypes'
    BY <1>a DEF WInv, WTypes, Goto, Msgs, Items, Labels, lockVars, clientVars, Rest
  <1>2. Locked'
    BY DEF WInv, WTypes, Locked, Sending, Goto, Broadcasts, lockVars, clientVars, Rest
  <1>3. Leaving'
    BY DEF WInv, WTypes, Leaving, Closing, Goto, lockVars, clientVars, Rest
  <1>4. Pending'
    BY DEF WInv, WTypes, Pending, Sends, Ends, Goto, lockVars, clientVars, Rest, Ended
  <1>5. RegisteredServed'
    BY <1>0 DEF WInv, WTypes, Locked, Leaving, RegisteredServed, Sending, Goto, Broadcasts,
       lockVars, clientVars, Rest
  <1> QED BY <1>1, <1>2, <1>3, <1>4, <1>5 DEF WInv

\* An answer takes no lock
LEMMA AnswerKeeps ==
  ASSUME WInv, NEW k \in Conns, Answer(k)
  PROVE  WInv'
PROOF
  <1>1. WTypes'
    BY DEF WInv, WTypes, Goto, Build, BuildFor, Msgs, Items, Labels, lockVars, clientVars,
       Answer
  <1>2. Locked'
    BY DEF WInv, WTypes, Locked, Sending, Goto, Build, BuildFor, Broadcasts, lockVars,
       clientVars, Answer
  <1>3. Leaving'
    BY DEF WInv, WTypes, Leaving, Closing, Goto, Build, BuildFor, lockVars, clientVars,
       Answer
  <1>4. Pending'
    BY DEF WInv, WTypes, Pending, Sends, Ends, Goto, Build, BuildFor, lockVars, clientVars,
       Answer, Ended
  <1>5. RegisteredServed'
    BY DEF WInv, WTypes, Locked, Leaving, RegisteredServed, Sending, Goto, Build, BuildFor,
       Broadcasts, lockVars, clientVars, Answer
  <1> QED BY <1>1, <1>2, <1>3, <1>4, <1>5 DEF WInv

\* A broadcaster lists its targets before it takes the lock, or drops the message
LEMMA ListMembersKeeps ==
  ASSUME WInv, NEW k \in Conns, ListMembers(k)
  PROVE  WInv'
PROOF
  <1>0. /\ Tail(sends[k]) \in Seq(Items) /\ Ended(Tail(sends[k]))
        /\ (\E i \in DOMAIN Tail(sends[k]) : Tail(sends[k])[i] = "close") => Closing(k)
    BY TailOpen DEF WInv, WTypes, Pending, Closing, Sends, Ends, Broadcasts, ListMembers
  <1>1. CASE pc' = [pc EXCEPT ![k] = "rlock"] /\ sends' = sends
    <2>1. PICK ms \in SUBSET Conns : todo' = [todo EXCEPT ![k] = ms]
      BY <1>1 DEF WInv, WTypes, Goto, Build, BuildFor, lockVars, clientVars, ListMembers
    <2>2. WTypes'
      <3>1. todo' \in [Conns -> SUBSET Conns]
        BY <2>1 DEF WInv, WTypes, Goto, Build, BuildFor, lockVars, clientVars, ListMembers
      <3>2. pc' \in [Conns -> Labels]
        BY <1>1 DEF WInv, WTypes, Labels
      <3>3. msg' = [msg EXCEPT ![k] = [kind |-> "event", ver |-> version, to |-> NoConn]]
        BY <1>1 DEF WInv, WTypes, Goto, Build, BuildFor, lockVars, clientVars, ListMembers
      <3>4. msg' \in [Conns -> Msgs]
        BY <3>3 DEF WInv, WTypes, Msgs, Items
      <3> QED BY <1>1, <3>1, <3>2, <3>4 DEF WInv, WTypes, lockVars, clientVars, ListMembers
    <2>3. Locked' /\ Leaving'
      BY <1>1, <2>1 DEF WInv, WTypes, Locked, Leaving, Closing, Sending, Build, BuildFor,
         Broadcasts, lockVars, ListMembers
    <2>4. Pending' /\ RegisteredServed'
      BY <1>1, <2>1 DEF WInv, WTypes, Pending, Sends, Ends, RegisteredServed, Locked,
         Sending, Build, BuildFor, Broadcasts, lockVars, ListMembers
    <2> QED BY <2>2, <2>3, <2>4 DEF WInv
  <1>2. CASE sends' = [sends EXCEPT ![k] = Tail(@)] /\ UNCHANGED <<pc, msg, todo>>
    <2>1. WTypes' /\ Locked'
      BY <1>0, <1>2 DEF WInv, WTypes, Locked, Sending, lockVars, ListMembers
    <2>2. Leaving'
      BY <1>0, <1>2 DEF WInv, WTypes, Leaving, Closing, lockVars, ListMembers
    <2>3. Pending' /\ RegisteredServed'
      BY <1>0, <1>2 DEF WInv, WTypes, Pending, Sends, Ends, RegisteredServed, lockVars,
         ListMembers
    <2> QED BY <2>1, <2>2, <2>3 DEF WInv
  <1> QED BY <1>1, <1>2 DEF ListMembers, Goto

\* The state is built before the lock is taken
LEMMA BuildStateKeeps ==
  ASSUME WInv, NEW k \in Conns, BuildState(k)
  PROVE  WInv'
PROOF
  <1>1. WTypes'
    BY DEF WInv, WTypes, Goto, Build, BuildFor, Msgs, Items, Labels, lockVars, clientVars,
       BuildState
  <1>2. Locked'
    BY DEF WInv, WTypes, Locked, Sending, Goto, Build, BuildFor, Broadcasts, lockVars,
       clientVars, BuildState
  <1>3. Leaving'
    BY DEF WInv, WTypes, Leaving, Closing, Goto, Build, BuildFor, lockVars, clientVars,
       BuildState
  <1>4. Pending'
    BY DEF WInv, WTypes, Pending, Sends, Ends, Goto, Build, BuildFor, lockVars, clientVars,
       BuildState, Ended
  <1>5. RegisteredServed'
    BY DEF WInv, WTypes, Locked, Leaving, RegisteredServed, Sending, Goto, Build, BuildFor,
       Broadcasts, lockVars, clientVars, BuildState
  <1> QED BY <1>1, <1>2, <1>3, <1>4, <1>5 DEF WInv

\* A kick takes no lock for its writing
LEMMA FindTargetKeeps ==
  ASSUME WInv, NEW k \in Conns, FindTarget(k)
  PROVE  WInv'
PROOF
  <1>1. WTypes'
    BY DEF WInv, WTypes, Goto, BuildFor, Msgs, Items, Labels, lockVars, clientVars,
       FindTarget
  <1>2. Locked'
    BY DEF WInv, WTypes, Locked, Sending, Goto, BuildFor, Broadcasts, lockVars, clientVars,
       FindTarget
  <1>3. Leaving'
    BY DEF WInv, WTypes, Leaving, Closing, Goto, BuildFor, lockVars, clientVars, FindTarget
  <1>4. Pending'
    BY DEF WInv, WTypes, Pending, Sends, Ends, Goto, BuildFor, lockVars, clientVars,
       FindTarget, Ended
  <1>5. RegisteredServed'
    BY DEF WInv, WTypes, Locked, Leaving, RegisteredServed, Sending, Goto, BuildFor,
       Broadcasts, lockVars, clientVars, FindTarget
  <1> QED BY <1>1, <1>2, <1>3, <1>4, <1>5 DEF WInv

\* With the lock a broadcaster keeps the registered targets only
LEMMA RLockKeeps ==
  ASSUME WInv, NEW k \in Conns, RLock(k)
  PROVE  WInv'
PROOF
  <1>1. WTypes'
    BY DEF WInv, WTypes, Goto, Msgs, Items, Labels, clientVars, RLock, Targets
  <1>2. Locked'
    BY DEF WInv, WTypes, Locked, Sending, Goto, Broadcasts, clientVars, RLock, Targets
  <1>3. Leaving'
    BY DEF WInv, WTypes, Leaving, Closing, Goto, clientVars, RLock, Targets
  <1>4. Pending'
    BY DEF WInv, WTypes, Pending, Sends, Ends, Goto, clientVars, RLock, Targets, Ended
  <1>5. RegisteredServed'
    BY DEF WInv, WTypes, Locked, Leaving, RegisteredServed, Sending, Goto, Broadcasts,
       clientVars, RLock, Targets
  <1> QED BY <1>1, <1>2, <1>3, <1>4, <1>5 DEF WInv

\* The one that is written to was a target
LEMMA WriteLengthKeeps ==
  ASSUME WInv, NEW k \in Conns, NEW t \in Conns, WriteLength(k, t)
  PROVE  WInv'
PROOF
  <1>0. [msg[k] EXCEPT !.to = t] \in Msgs
    <2>1. msg[k] \in Msgs
      BY DEF WInv, WTypes
    <2> QED BY <2>1 DEF Msgs
  <1>1. WTypes'
    BY <1>0 DEF WInv, WTypes, Goto, Msgs, Items, Labels, lockVars, clientVars, WriteLength
  <1>2. Locked'
    BY DEF WInv, WTypes, Locked, Sending, Goto, Broadcasts, lockVars, clientVars,
       WriteLength
  <1>3. Leaving'
    BY DEF WInv, WTypes, Leaving, Closing, Goto, lockVars, clientVars, WriteLength
  <1>4. Pending'
    BY DEF WInv, WTypes, Pending, Sends, Ends, Goto, lockVars, clientVars, WriteLength,
       Ended
  <1>5. RegisteredServed'
    BY DEF WInv, WTypes, Locked, Leaving, RegisteredServed, Sending, Goto, Broadcasts,
       lockVars, clientVars, WriteLength
  <1> QED BY <1>1, <1>2, <1>3, <1>4, <1>5 DEF WInv

\* After the payload nobody is written to
LEMMA WritePayloadKeeps ==
  ASSUME WInv, NEW k \in Conns, NEW t \in Conns, WritePayload(k, t)
  PROVE  WInv'
PROOF
  <1>0. [msg[k] EXCEPT !.to = NoConn] \in Msgs
    BY DEF WInv, WTypes, Msgs
  <1>1. WTypes'
    <2>1. msg' \in [Conns -> Msgs]
      BY <1>0 DEF WInv, WTypes, Goto, Written, lockVars, clientVars, WritePayload
    <2>2. pc' \in [Conns -> Labels]
      BY DEF WInv, WTypes, Labels, Goto, Written, WritePayload
    <2> QED BY <2>1, <2>2 DEF WInv, WTypes, lockVars, clientVars, WritePayload
  <1>2. Locked'
    BY DEF WInv, WTypes, Msgs, Locked, Sending, Broadcasts, Goto, Written, lockVars,
       WritePayload
  <1>3. Leaving'
    BY DEF WInv, WTypes, Leaving, Closing, Goto, Written, lockVars, clientVars, WritePayload
  <1>4. Pending'
    BY DEF WInv, WTypes, Pending, Sends, Ends, Goto, Written, lockVars, clientVars,
       WritePayload, Ended
  <1>5. RegisteredServed'
    BY DEF WInv, WTypes, Locked, Leaving, RegisteredServed, Sending, Goto, Written,
       Broadcasts, lockVars, clientVars, WritePayload
  <1> QED BY <1>1, <1>2, <1>3, <1>4, <1>5 DEF WInv

\* After a failed write neither
LEMMA WriteErrorKeeps ==
  ASSUME WInv, NEW k \in Conns, NEW t \in Conns, WriteError(k, t)
  PROVE  WInv'
PROOF
  <1>0. [msg[k] EXCEPT !.to = NoConn] \in Msgs
    BY DEF WInv, WTypes, Msgs
  <1>1. WTypes'
    BY <1>0 DEF WInv, WTypes, Goto, Written, Msgs, Items, Labels, lockVars, clientVars,
       WriteError
  <1>2. Locked'
    BY DEF WInv, WTypes, Msgs, Locked, Sending, Broadcasts, Goto, Written, lockVars,
       WriteError
  <1>3. Leaving'
    BY DEF WInv, WTypes, Leaving, Closing, Goto, Written, lockVars, clientVars, WriteError
  <1>4. Pending'
    BY DEF WInv, WTypes, Pending, Sends, Ends, Goto, Written, lockVars, clientVars,
       WriteError, Ended
  <1>5. RegisteredServed'
    BY DEF WInv, WTypes, Locked, Leaving, RegisteredServed, Sending, Goto, Written,
       Broadcasts, lockVars, clientVars, WriteError
  <1> QED BY <1>1, <1>2, <1>3, <1>4, <1>5 DEF WInv

\* Whoever is done with a message lets go of the lock
LEMMA SentKeeps ==
  ASSUME WInv, NEW k \in Conns, Sent(k)
  PROVE  WInv'
PROOF
  <1>0. /\ Tail(sends[k]) \in Seq(Items) /\ Ended(Tail(sends[k]))
        /\ (\E i \in DOMAIN Tail(sends[k]) : Tail(sends[k])[i] = "close") => Closing(k)
    BY TailOpen DEF WInv, WTypes, Pending, Closing, Sends, Ends, Broadcasts, Sent
  <1>1. WTypes'
    BY <1>0 DEF WInv, WTypes, Goto, Finish, Msgs, NoMsg, Items, Labels, clientVars, Sent
  <1>2. Locked'
    BY DEF WInv, WTypes, Locked, Sending, Goto, Finish, NoMsg, Broadcasts, clientVars, Sent
  <1>3. Leaving'
    BY <1>0 DEF WInv, WTypes, Leaving, Closing, Goto, Finish, NoMsg, clientVars, Sent
  <1>4. Pending'
    BY <1>0 DEF WInv, WTypes, Pending, Sends, Ends, Goto, Finish, NoMsg, clientVars, Sent,
       Ended
  <1>5. RegisteredServed'
    BY DEF WInv, WTypes, Locked, Leaving, RegisteredServed, Sending, Goto, Finish, NoMsg,
       Broadcasts, clientVars, Sent
  <1> QED BY <1>1, <1>2, <1>3, <1>4, <1>5 DEF WInv

\* A kick closes a connection and leaves connMap alone
LEMMA CloseTargetKeeps ==
  ASSUME WInv, NEW k \in Conns, CloseTarget(k)
  PROVE  WInv'
PROOF
  <1>0. /\ Tail(sends[k]) \in Seq(Items) /\ Ended(Tail(sends[k]))
        /\ (\E i \in DOMAIN Tail(sends[k]) : Tail(sends[k])[i] = "close") => Closing(k)
    BY TailOpen DEF WInv, WTypes, Pending, Closing, Sends, Ends, Broadcasts, CloseTarget
  <1>1. WTypes'
    BY <1>0 DEF WInv, WTypes, Goto, Finish, Msgs, NoMsg, Items, Labels, lockVars,
       clientVars, CloseTarget
  <1>2. Locked'
    BY DEF WInv, WTypes, Locked, Sending, Goto, Finish, NoMsg, Broadcasts, lockVars,
       clientVars, CloseTarget
  <1>3. Leaving'
    BY <1>0 DEF WInv, WTypes, Leaving, Closing, Goto, Finish, NoMsg, lockVars, clientVars,
       CloseTarget
  <1>4. Pending'
    BY <1>0 DEF WInv, WTypes, Pending, Sends, Ends, Goto, Finish, NoMsg, lockVars,
       clientVars, CloseTarget, Ended
  <1>5. RegisteredServed'
    BY DEF WInv, WTypes, Locked, Leaving, RegisteredServed, Sending, Goto, Finish, NoMsg,
       Broadcasts, lockVars, clientVars, CloseTarget
  <1> QED BY <1>1, <1>2, <1>3, <1>4, <1>5 DEF WInv

\* A client that reads or leaves changes nothing of the server
LEMMA ClientKeeps ==
  ASSUME WInv, UNCHANGED <<version, lockVars, handlerVars>>
  PROVE  WInv'
PROOF
  BY DEF WInv, WTypes, Locked, Leaving, Pending, RegisteredServed, Sending, Closing,
     lockVars, handlerVars

\* Every step keeps WInv
LEMMA WInvStep ==
  ASSUME WInv, [Next]_vars
  PROVE  WInv'
PROOF
  <1>1. ASSUME NEW k \in Conns, Handler(k)
        PROVE  WInv'
    BY <1>1, AnnounceKeeps, SetConnKeeps, RemoveConnKeeps, ByeKeeps, RestKeeps,
       AnswerKeeps, ListMembersKeeps, BuildStateKeeps, FindTargetKeeps, RLockKeeps,
       WriteLengthKeeps, WritePayloadKeeps, WriteErrorKeeps, SentKeeps, CloseTargetKeeps
       DEF Handler
  <1>2. ASSUME NEW k \in Conns, Reads(k) \/ HangUp(k)
        PROVE  WInv'
    <2>1. UNCHANGED <<version, lockVars, handlerVars>>
      BY <1>2 DEF Reads, ReadLength, ReadMessage, ReadUnexpected, ReadTorn, HangUp, Leave
    <2> QED BY <2>1, ClientKeeps
  <1>3. CASE UNCHANGED vars
    BY <1>3, ClientKeeps DEF vars
  <1> QED BY <1>1, <1>2, <1>3, LoginKeeps, RequestKeeps DEF Next

(***************************************************************************)
(* Whatever logs in, asks, is kicked or hangs up, and in any order: a      *)
(* broadcast writes to registered connections only, each of which has a    *)
(* handler that has yet to close it (setConn, removeConn and the two       *)
(* broadcasts of control.go).                                              *)
(***************************************************************************)
THEOREM BroadcastsReachTheLiving == Spec => []RegisteredServed
PROOF
  <1>1. WInv => RegisteredServed
    BY DEF WInv
  <1> QED BY <1>1, WInvInit, WInvStep, PTL DEF Spec

-----------------------------------------------------------------------------
(* The connections and their clients *)

Pieces == [from : Conns, part : {"length", "payload"}, kind : Items \cup {"none"}, ver : Nat]

\* No message shows a version that is yet to come
Past ==
  \A k \in Conns : /\ told[k] <= version /\ msg[k].ver <= version
                   /\ \A i \in DOMAIN wire[k] : wire[k][i].ver <= version

NetTypes ==
  /\ requests \in 0 .. MaxRequests
  /\ told \in [Conns -> Nat]
  /\ half \in [Conns -> Conns \cup {NoConn}]
  /\ conn \in [Conns -> {"open", "closed"}]
  /\ client \in [Conns -> {"off", "login", "in", "refused", "torn", "gone"}]
  /\ wire \in [Conns -> Seq(Pieces)]
  /\ \A k \in Conns : Len(wire[k]) <= Buffer

NetInv == WInv /\ NetTypes /\ Past

\* A step of a handler that writes nothing
LEMMA NothingWritten ==
  ASSUME NetInv, WInv', NEW k \in Conns,
         version' = version \/ version' = version + 1,
         requests' \in 0 .. MaxRequests,
         conn' = conn \/ \E t \in Conns : conn' = [conn EXCEPT ![t] = "closed"],
         client' = client \/ client' = [client EXCEPT ![k] = "login"],
         \A j \in Conns : msg'[j].ver = msg[j].ver \/ msg'[j].ver <= version,
         UNCHANGED <<wire, half, told>>
  PROVE  NetInv'
PROOF
  <1>1. version \in Nat /\ version' \in Nat /\ version <= version'
    BY DEF NetInv, WInv, WTypes
  <1>2. NetTypes'
    BY DEF NetInv, NetTypes
  <1>3. Past'
    <2> SUFFICES ASSUME NEW j \in Conns
                 PROVE  /\ told[j] <= version' /\ msg'[j].ver <= version'
                        /\ \A i \in DOMAIN wire[j] : wire[j][i].ver <= version'
      BY DEF Past
    <2>1. told[j] \in Nat /\ msg'[j].ver \in Nat /\ msg[j].ver \in Nat
      BY DEF NetInv, WInv, WTypes, NetTypes, Msgs
    <2>2. \A i \in DOMAIN wire[j] : wire[j][i].ver \in Nat
      <3>1. wire[j] \in Seq(Pieces)
        BY DEF NetInv, NetTypes
      <3>2. \A i \in DOMAIN wire[j] : wire[j][i] \in Pieces
        BY <3>1
      <3> QED BY <3>2 DEF Pieces
    <2> QED BY <1>1, <2>1, <2>2 DEF NetInv, Past
  <1> QED BY <1>2, <1>3 DEF NetInv

\* A piece of the message in hand is written
LEMMA PieceWritten ==
  ASSUME NetInv, WInv', NEW k \in Conns, NEW t \in Conns, NEW part \in {"length", "payload"},
         CanWrite(t), wire' = [wire EXCEPT ![t] = Append(@, Piece(k, part))],
         \A j \in Conns : msg'[j].ver = msg[j].ver,
         UNCHANGED <<version, requests, conn, client, half, told>>
  PROVE  NetInv'
PROOF
  <1>1. Piece(k, part) \in Pieces /\ Piece(k, part).ver <= version
    BY DEF NetInv, WInv, WTypes, Msgs, Past, Piece, Pieces
  <1>2. wire[t] \in Seq(Pieces) /\ Len(wire[t]) < Buffer /\ Buffer \in Nat
    BY WireAssumption DEF NetInv, NetTypes, CanWrite
  <1>3. /\ Append(wire[t], Piece(k, part)) \in Seq(Pieces)
        /\ Len(Append(wire[t], Piece(k, part))) <= Buffer
        /\ \A i \in DOMAIN Append(wire[t], Piece(k, part)) :
             \/ i \in DOMAIN wire[t] /\ Append(wire[t], Piece(k, part))[i] = wire[t][i]
             \/ Append(wire[t], Piece(k, part))[i] = Piece(k, part)
    BY <1>1, <1>2
  <1>4. NetTypes'
    BY <1>3 DEF NetInv, NetTypes
  <1>5. Past'
    BY <1>1, <1>3 DEF NetInv, NetTypes, Past
  <1> QED BY <1>4, <1>5 DEF NetInv

\* The client takes the first piece off its connection, or closes its end
LEMMA ClientReads ==
  ASSUME NetInv, WInv', NEW k \in Conns,
         \/ wire[k] # <<>> /\ wire' = [wire EXCEPT ![k] = Tail(@)]
         \/ wire' = [wire EXCEPT ![k] = <<>>],
         client' \in [Conns -> {"off", "login", "in", "refused", "torn", "gone"}],
         half' \in [Conns -> Conns \cup {NoConn}],
         told' = told \/ (wire[k] # <<>> /\ told' = [told EXCEPT ![k] = First(k).ver]),
         UNCHANGED <<version, requests, msg, conn>>
  PROVE  NetInv'
PROOF
  <1>1. wire[k] \in Seq(Pieces) /\ Len(wire[k]) <= Buffer /\ Buffer \in Nat
    BY WireAssumption DEF NetInv, NetTypes
  <1>2. wire[k] # <<>> => First(k) \in Pieces /\ First(k).ver <= version
    <2> SUFFICES ASSUME wire[k] # <<>> PROVE First(k) \in Pieces /\ First(k).ver <= version
      OBVIOUS
    <2>1. 1 \in DOMAIN wire[k] /\ First(k) = wire[k][1] /\ First(k) \in Pieces
      BY <1>1 DEF First
    <2> QED BY <2>1 DEF NetInv, Past
  <1>3. /\ wire'[k] \in Seq(Pieces) /\ Len(wire'[k]) <= Buffer
        /\ \A i \in DOMAIN wire'[k] : \E j \in DOMAIN wire[k] : wire'[k][i] = wire[k][j]
    <2>1. CASE wire[k] # <<>> /\ wire' = [wire EXCEPT ![k] = Tail(@)]
      <3>1. wire'[k] = Tail(wire[k])
        BY <2>1 DEF NetInv, NetTypes
      <3>2. /\ Tail(wire[k]) \in Seq(Pieces) /\ Len(Tail(wire[k])) = Len(wire[k]) - 1
            /\ \A i \in 1 .. Len(wire[k]) - 1 : Tail(wire[k])[i] = wire[k][i + 1]
        BY <1>1, <2>1
      <3>3. /\ DOMAIN Tail(wire[k]) = 1 .. Len(wire[k]) - 1
            /\ DOMAIN wire[k] = 1 .. Len(wire[k]) /\ Len(wire[k]) \in Nat
        BY <1>1, <3>2
      <3>4. \A i \in 1 .. Len(wire[k]) - 1 : i + 1 \in 1 .. Len(wire[k])
        BY <3>3
      <3> QED BY <1>1, <3>1, <3>2, <3>3, <3>4
    <2>2. CASE wire' = [wire EXCEPT ![k] = <<>>]
      BY <1>1, <2>2 DEF NetInv, NetTypes
    <2> QED BY <2>1, <2>2
  <1>4. \A j \in Conns : j # k => wire'[j] = wire[j]
    BY DEF NetInv, NetTypes
  <1>5. DOMAIN wire' = Conns /\ wire' = [j \in Conns |-> wire'[j]]
    BY DEF NetInv, NetTypes
  <1>6. told' \in [Conns -> Nat] /\ \A j \in Conns : told'[j] <= version
    BY <1>2 DEF NetInv, NetTypes, Past, Pieces
  <1>7. NetTypes'
    <2>1. \A j \in Conns : wire'[j] \in Seq(Pieces) /\ Len(wire'[j]) <= Buffer
      BY <1>3, <1>4 DEF NetInv, NetTypes
    <2> QED BY <1>5, <1>6, <2>1 DEF NetInv, NetTypes
  <1>8. Past'
    <2> SUFFICES ASSUME NEW j \in Conns
                 PROVE  /\ told'[j] <= version /\ msg[j].ver <= version
                        /\ \A i \in DOMAIN wire'[j] : wire'[j][i].ver <= version
      BY DEF Past
    <2>1. \A h \in Conns : \A i \in DOMAIN wire[h] : wire[h][i].ver <= version
      BY DEF NetInv, Past
    <2>2. CASE j = k
      BY <1>3, <1>6, <2>1, <2>2 DEF NetInv, Past
    <2>3. CASE j # k
      BY <1>4, <1>6, <2>1, <2>3 DEF NetInv, Past
    <2> QED BY <2>2, <2>3
  <1> QED BY <1>7, <1>8 DEF NetInv

\* A handler keeps the connections typed, within Buffer, and shows nothing yet to come
LEMMA HandlerNet ==
  ASSUME NetInv, WInv', NEW k \in Conns, Login(k) \/ Handler(k) \/ \E kind \in Kinds : Request(k, kind)
  PROVE  NetInv'
PROOF
  <1>1. /\ version \in Nat /\ requests \in 0 .. MaxRequests /\ MaxRequests \in Nat
        /\ \A j \in Conns : msg[j].ver <= version
        /\ \A j \in Conns : msg[j] \in Msgs /\ msg'[j] \in Msgs
    BY WireAssumption DEF NetInv, WInv, WTypes, NetTypes, Past
  <1>2. CASE Login(k)
    BY <1>1, <1>2, NothingWritten DEF Login
  <1>3. ASSUME NEW kind \in Kinds, Request(k, kind)
        PROVE  NetInv'
    <2>1. requests' \in 0 .. MaxRequests
      BY <1>1, <1>3 DEF Request
    <2> QED BY <1>1, <1>3, <2>1, NothingWritten DEF Request, clientVars
  <1>4. CASE Announce(k) \/ setConn(k) \/ removeConn(k) \/ Bye(k) \/ Rest(k)
    BY <1>1, <1>4, NothingWritten
    DEF Announce, setConn, removeConn, Bye, Rest, handlerVars, clientVars
  <1>5. CASE Answer(k) \/ BuildState(k) \/ ListMembers(k) \/ FindTarget(k)
    <2>1. \A j \in Conns : msg'[j].ver = msg[j].ver \/ msg'[j].ver <= version
      <3>1. \/ msg' = msg
            \/ \E t \in Conns \cup {NoConn} :
                 msg' = [msg EXCEPT ![k] = [kind |-> Head(sends[k]), ver |-> version, to |-> t]]
        BY <1>5 DEF Answer, BuildState, ListMembers, FindTarget, Build, BuildFor, NetInv, WInv, WTypes
      <3>2. DOMAIN msg = Conns
        BY DEF NetInv, WInv, WTypes
      <3> QED BY <1>1, <3>1, <3>2
    <2> QED BY <1>1, <1>5, <2>1, NothingWritten
            DEF Answer, BuildState, ListMembers, FindTarget, clientVars
  <1>6. CASE RLock(k)
    BY <1>1, <1>6, NothingWritten DEF RLock, clientVars
  <1>7. ASSUME NEW t \in Conns, WriteLength(k, t)
        PROVE  NetInv'
    <2>1. \A j \in Conns : msg'[j].ver = msg[j].ver
      BY <1>1, <1>7 DEF WriteLength, NetInv, WInv, WTypes, Msgs
    <2> QED BY <1>7, <2>1, PieceWritten DEF WriteLength, clientVars
  <1>8. ASSUME NEW t \in Conns, WritePayload(k, t)
        PROVE  NetInv'
    <2>1. \A j \in Conns : msg'[j].ver = msg[j].ver
      <3>1. msg' = msg \/ msg' = [msg EXCEPT ![k].to = NoConn]
        BY <1>8 DEF WritePayload, Written
      <3>2. msg \in [Conns -> Msgs]
        BY DEF NetInv, WInv, WTypes
      <3>3. CASE msg' = [msg EXCEPT ![k].to = NoConn]
        BY <3>2, <3>3 DEF Msgs
      <3> QED BY <3>1, <3>3
    <2> QED BY <1>8, <2>1, PieceWritten DEF WritePayload, clientVars
  <1>9. ASSUME NEW t \in Conns, WriteError(k, t)
        PROVE  NetInv'
    <2>1. \A j \in Conns : msg'[j].ver = msg[j].ver
      <3>1. msg' = msg \/ msg' = [msg EXCEPT ![k].to = NoConn]
        BY <1>9 DEF WriteError, Written
      <3>2. msg \in [Conns -> Msgs]
        BY DEF NetInv, WInv, WTypes
      <3>3. CASE msg' = [msg EXCEPT ![k].to = NoConn]
        BY <3>2, <3>3 DEF Msgs
      <3> QED BY <3>1, <3>3
    <2> QED BY <1>1, <1>9, <2>1, NothingWritten DEF WriteError, clientVars
  <1>10. CASE Sent(k) \/ CloseTarget(k)
    <2>1. \A j \in Conns : msg'[j].ver = msg[j].ver \/ msg'[j].ver <= version
      BY <1>1, <1>10 DEF Sent, CloseTarget, Finish, NoMsg, NetInv, WInv, WTypes
    <2>2. conn' = conn \/ \E t \in Conns : conn' = [conn EXCEPT ![t] = "closed"]
      <3>1. CASE msg[k].to \in Conns
        BY <1>10, <3>1 DEF Sent, CloseTarget
      <3>2. CASE msg[k].to \notin Conns
        BY <1>10, <3>2 DEF Sent, CloseTarget, NetInv, NetTypes
      <3> QED BY <3>1, <3>2
    <2> QED BY <1>1, <1>10, <2>1, <2>2, NothingWritten DEF Sent, CloseTarget, clientVars
  <1> QED BY <1>2, <1>3, <1>4, <1>5, <1>6, <1>7, <1>8, <1>9, <1>10 DEF Handler

\* So does a client that reads or leaves
LEMMA ClientNet ==
  ASSUME NetInv, WInv', NEW k \in Conns, Reads(k) \/ HangUp(k)
  PROVE  NetInv'
PROOF
  <1>1. CASE ReadLength(k)
    <2>1. First(k).from \in Conns
      <3>1. wire[k] \in Seq(Pieces) /\ wire[k] # <<>>
        BY <1>1 DEF NetInv, NetTypes, ReadLength, Reading
      <3>2. First(k) \in Pieces
        BY <3>1 DEF First
      <3> QED BY <3>2 DEF Pieces
    <2> QED BY <1>1, <2>1, ClientReads DEF ReadLength, Reading, Read, handlerVars, NetInv, NetTypes
  <1>2. CASE ReadMessage(k)
    <2>1. told' = told \/ told' = [told EXCEPT ![k] = First(k).ver]
      BY <1>2 DEF ReadMessage, NetInv, NetTypes
    <2> QED BY <1>2, <2>1, ClientReads DEF ReadMessage, Reading, Read, handlerVars, NetInv, NetTypes
  <1>3. ASSUME NEW why \in {"refused", "torn", "gone"}, Leave(k, why)
        PROVE  NetInv'
    BY <1>3, ClientReads DEF Leave, handlerVars, NetInv, NetTypes
  <1> QED BY <1>1, <1>2, <1>3 DEF Reads, HangUp, ReadUnexpected, ReadTorn

\* At the start nothing is written
LEMMA NetInvInit ==
  ASSUME Init
  PROVE  NetInv
PROOF
  <1>1. NetTypes
    BY WireAssumption DEF Init, NetTypes
  <1>2. Past
    <2> SUFFICES ASSUME NEW j \in Conns
                 PROVE  /\ told[j] <= version /\ msg[j].ver <= version
                        /\ \A i \in DOMAIN wire[j] : wire[j][i].ver <= version
      BY DEF Past
    <2>1. told[j] <= version /\ msg[j].ver <= version
      BY DEF Init, NoMsg
    <2>2. wire[j] = <<>>
      BY DEF Init
    <2>3. DOMAIN <<>> = {}
      OBVIOUS
    <2> QED BY <2>1, <2>2, <2>3, Zenon
  <1> QED BY <1>1, <1>2, WInvInit DEF NetInv

\* Every step keeps NetInv
LEMMA NetInvStep ==
  ASSUME NetInv, [Next]_vars
  PROVE  NetInv'
PROOF
  <1>1. WInv'
    BY WInvStep DEF NetInv
  <1>2. CASE UNCHANGED vars
    BY <1>1, <1>2 DEF vars, clientVars, handlerVars, NetInv, NetTypes, Past
  <1> QED BY <1>1, <1>2, HandlerNet, ClientNet DEF Next

(***************************************************************************)
(* A connection never holds more than it can, no client is shown a state   *)
(* that is yet to come, and the lock is held by those who need it, for     *)
(* every order of logins, requests, failed writes and hang-ups.            *)
(***************************************************************************)
THEOREM WireTypes == Spec => []WireTypeOK
PROOF
  <1>1. NetInv => WireTypeOK
    <2> SUFFICES ASSUME NetInv PROVE WireTypeOK
      OBVIOUS
    <2>1. \A k \in Conns : todo[k] \subseteq Conns
      BY DEF NetInv, WInv, WTypes
    <2> QED BY <2>1 DEF NetInv, WInv, WTypes, Locked, Sending, NetTypes, Past, WireTypeOK
  <1> QED BY <1>1, NetInvInit, NetInvStep, PTL DEF Spec

-----------------------------------------------------------------------------
(* Who has yet to be told of the last change, and by whom *)

\* What a client takes its view of the server from
Telling == {"auth", "own", "all"}

\* The last version is on k's connection
OnWire(k) ==
  \E i \in 1 .. Len(wire[k]) :
    wire[k][i].part = "payload" /\ wire[k][i].kind \in Telling /\ wire[k][i].ver = version

\* Handler h has it in hand and has yet to write it to k
Carries(h, k) ==
  /\ msg[h].kind \in Telling /\ msg[h].ver = version
  /\ \/ pc[h] \in Sends /\ k \in todo[h]
     \/ pc[h] = "payload" /\ msg[h].to = k

\* Handler h will broadcast the state that it then finds
Promises(h) ==
  \/ pc[h] \in {"remove", "next"} /\ \E i \in 1 .. Len(sends[h]) : sends[h][i] = "all"
  \/ pc[h] \in Sends /\ \E i \in 2 .. Len(sends[h]) : sends[h][i] = "all"

\* A login that is registered but has not read the state for its answer
Answers(k) == pc[k] = "next" /\ Head(sends[k]) = "auth"

Coming(k) ==
  \/ told[k] = version \/ OnWire(k) \/ Answers(k)
  \/ \E h \in Conns : Promises(h) \/ Carries(h, k)

Live(k) == k \in connMap /\ conn[k] = "open" /\ Listening(k)

\* The last version has got to every client, or is on its way
TellInv == \A k \in Conns : Live(k) => Coming(k)

\* A script rests at its end only
OnlyLast(s) == \A i \in 1 .. Len(s) - 1 : s[i] \notin Ends

\* A handler rests when it has sent everything, and is registered until removeConn
Rests(k) ==
  /\ pc[k] \in {"remove", "next"} \cup Sends => OnlyLast(sends[k])
  /\ pc[k] = "remove" => sends[k][Len(sends[k])] = "close"
  /\ pc[k] = "loop" => k \in connMap
  /\ pc[k] \in {"next"} \cup Sends /\ sends[k][Len(sends[k])] = "loop" => k \in connMap

Resting == \A k \in Conns : Rests(k)

\* A handler's step leaves the other handlers alone
LEMMA Alone ==
  ASSUME WInv, NEW k \in Conns, Login(k) \/ Handler(k) \/ \E kind \in Kinds : Request(k, kind),
         NEW h \in Conns, h # k
  PROVE  /\ pc'[h] = pc[h] /\ sends'[h] = sends[h] /\ msg'[h] = msg[h] /\ todo'[h] = todo[h]
         /\ h \in connMap' <=> h \in connMap
PROOF
  <1>0. DOMAIN pc = Conns /\ DOMAIN sends = Conns /\ DOMAIN msg = Conns /\ DOMAIN todo = Conns
    BY DEF WInv, WTypes
  <1>1. CASE Login(k) \/ \E kind \in Kinds : Request(k, kind)
    BY <1>0, <1>1 DEF Login, Request, Goto, lockVars, handlerVars
  <1>2. CASE Announce(k) \/ setConn(k) \/ removeConn(k) \/ Bye(k) \/ Rest(k)
    BY <1>0, <1>2 DEF Announce, setConn, removeConn, Bye, Rest, Goto, lockVars, handlerVars
  <1>3. CASE Answer(k) \/ BuildState(k)
    BY <1>0, <1>3 DEF Answer, BuildState, Build, BuildFor, Goto, lockVars
  <1>4. CASE ListMembers(k)
    BY <1>0, <1>4 DEF ListMembers, Build, BuildFor, Goto, lockVars
  <1>5. CASE FindTarget(k)
    BY <1>0, <1>5 DEF FindTarget, BuildFor, Goto, lockVars
  <1>6. CASE RLock(k)
    BY <1>0, <1>6 DEF RLock, Goto
  <1>7. ASSUME NEW t \in Conns, WriteLength(k, t) \/ WritePayload(k, t) \/ WriteError(k, t)
        PROVE  /\ pc'[h] = pc[h] /\ sends'[h] = sends[h] /\ msg'[h] = msg[h] /\ todo'[h] = todo[h]
               /\ h \in connMap' <=> h \in connMap
    BY <1>0, <1>7 DEF WriteLength, WritePayload, WriteError, Written, Goto, lockVars
  <1>8. CASE Sent(k) \/ CloseTarget(k)
    BY <1>0, <1>8 DEF Sent, CloseTarget, Finish, Goto, lockVars
  <1> QED BY <1>1, <1>2, <1>3, <1>4, <1>5, <1>6, <1>7, <1>8 DEF Handler

\* What follows the first item of a script
LEMMA TailIs ==
  ASSUME NEW s \in Seq(Items), Ended(s), OnlyLast(s), Head(s) \notin Ends
  PROVE  /\ Len(s) \in Nat /\ Len(s) >= 2 /\ Len(Tail(s)) = Len(s) - 1 /\ OnlyLast(Tail(s))
         /\ Tail(s)[Len(Tail(s))] = s[Len(s)]
         /\ \A i \in 2 .. Len(s) : i - 1 \in 1 .. Len(Tail(s)) /\ Tail(s)[i - 1] = s[i]
PROOF
  <1>1. s # <<>> /\ Tail(s) \in Seq(Items) /\ Len(Tail(s)) = Len(s) - 1 /\ Len(s) \in Nat
    BY DEF Ended
  <1>2. \A i \in 1 .. Len(s) - 1 : Tail(s)[i] = s[i + 1]
    BY <1>1
  <1>3. Len(s) # 1 /\ Len(s) # 0
    BY <1>1 DEF Ended
  <1>4. \A i \in 2 .. Len(s) : i - 1 \in 1 .. Len(s) - 1 /\ Tail(s)[i - 1] = s[i]
    <2> TAKE i \in 2 .. Len(s)
    <2>1. i - 1 \in 1 .. Len(s) - 1 /\ i = (i - 1) + 1
      BY <1>1
    <2> QED BY <1>2, <2>1
  <1>5. Len(s) \in 2 .. Len(s)
    BY <1>1, <1>3
  <1>6. OnlyLast(Tail(s))
    <2> SUFFICES ASSUME NEW i \in 1 .. Len(s) - 2 PROVE Tail(s)[i] \notin Ends
      BY <1>1 DEF OnlyLast
    <2>1. i \in 1 .. Len(s) - 1 /\ i + 1 \in 1 .. Len(s) - 1
      BY <1>1
    <2> QED BY <1>2, <2>1 DEF OnlyLast
  <1> QED BY <1>1, <1>3, <1>4, <1>5, <1>6

\* A script whose first item is its rest has no other
LEMMA RestIsLast ==
  ASSUME NEW s \in Seq(Items), Ended(s), OnlyLast(s), Head(s) \in Ends
  PROVE  Len(s) = 1 /\ s[1] = Head(s)
PROOF
  <1>1. s # <<>> /\ Len(s) \in Nat /\ s[1] = Head(s)
    BY DEF Ended
  <1>2. Len(s) # 0
    BY <1>1
  <1>3. ~ (1 \in 1 .. Len(s) - 1)
    <2> SUFFICES ASSUME 1 \in 1 .. Len(s) - 1 PROVE FALSE
      OBVIOUS
    <2>1. s[1] \notin Ends
      BY DEF OnlyLast
    <2> QED BY <1>1, <2>1
  <1>4. \A n \in Nat : n # 0 /\ ~ (1 \in 1 .. n - 1) => n = 1
    OBVIOUS
  <1> QED BY <1>1, <1>2, <1>3, <1>4

\* The scripts of requests rest at their end, in the loop, and those of changes
\* broadcast the state
LEMMA MessagesRest ==
  ASSUME NEW kind \in Kinds
  PROVE  /\ OnlyLast(Append(Messages(kind), "loop"))
         /\ Append(Messages(kind), "loop")[Len(Append(Messages(kind), "loop"))] = "loop"
         /\ kind \in Changing =>
              \E i \in 1 .. Len(Append(Messages(kind), "loop")) :
                Append(Messages(kind), "loop")[i] = "all"
PROOF
  <1>1. kind \in AllKinds
    BY WireAssumption
  <1>2. Messages(kind) \in Seq(Items)
    BY MessagesAre
  <1>3. \A i \in DOMAIN Messages(kind) : Messages(kind)[i] \notin Ends
    <2>2. CASE kind = "join"
      <3>1. Messages(kind) = <<"event", "event", "own", "all">>
        BY <2>2 DEF Messages
      <3> QED BY <3>1 DEF Ends
    <2>3. CASE kind = "leave"
      <3>1. Messages(kind) = <<"event", "all">>
        BY <2>3 DEF Messages
      <3> QED BY <3>1 DEF Ends
    <2>4. CASE kind = "role"
      <3>1. Messages(kind) = <<"reply", "all">>
        BY <2>4 DEF Messages
      <3> QED BY <3>1 DEF Ends
    <2>5. CASE kind \in {"state", "channels"}
      <3>1. Messages(kind) = <<"all">>
        BY <2>5 DEF Messages
      <3> QED BY <3>1 DEF Ends
    <2>6. CASE kind = "chat"
      <3>1. Messages(kind) = <<"event">>
        BY <2>6 DEF Messages
      <3> QED BY <3>1 DEF Ends
    <2>7. CASE kind \in {"ping", "list", "refusal"}
      <3>1. Messages(kind) = <<"reply">>
        BY <2>7 DEF Messages
      <3> QED BY <3>1 DEF Ends
    <2>8. CASE kind = "kick"
      <3>1. Messages(kind) = <<"kick">>
        BY <2>8 DEF Messages
      <3> QED BY <3>1 DEF Ends
    <2> QED BY <1>1, <2>2, <2>3, <2>4, <2>5, <2>6, <2>7, <2>8 DEF AllKinds
  <1>4. kind \in Changing => \E i \in DOMAIN Messages(kind) : Messages(kind)[i] = "all"
    <2>2. CASE kind = "join"
      <3>1. Messages(kind) = <<"event", "event", "own", "all">>
        BY <2>2 DEF Messages
      <3>2. 4 \in DOMAIN <<"event", "event", "own", "all">>
            /\ <<"event", "event", "own", "all">>[4] = "all"
        OBVIOUS
      <3> QED BY <3>1, <3>2
    <2>3. CASE kind = "leave"
      <3>1. Messages(kind) = <<"event", "all">>
        BY <2>3 DEF Messages
      <3>2. 2 \in DOMAIN <<"event", "all">> /\ <<"event", "all">>[2] = "all"
        OBVIOUS
      <3> QED BY <3>1, <3>2
    <2>4. CASE kind = "role"
      <3>1. Messages(kind) = <<"reply", "all">>
        BY <2>4 DEF Messages
      <3>2. 2 \in DOMAIN <<"reply", "all">> /\ <<"reply", "all">>[2] = "all"
        OBVIOUS
      <3> QED BY <3>1, <3>2
    <2>5. CASE kind \in {"state", "channels"}
      <3>1. Messages(kind) = <<"all">>
        BY <2>5 DEF Messages
      <3>2. 1 \in DOMAIN <<"all">> /\ <<"all">>[1] = "all"
        OBVIOUS
      <3> QED BY <3>1, <3>2
    <2> QED BY <2>2, <2>3, <2>4, <2>5 DEF Changing
  <1> DEFINE s == Messages(kind)
  <1>5. /\ Len(s) \in Nat /\ DOMAIN s = 1 .. Len(s)
        /\ Len(Append(s, "loop")) = Len(s) + 1
        /\ \A i \in 1 .. Len(s) : Append(s, "loop")[i] = s[i]
        /\ Append(s, "loop")[Len(s) + 1] = "loop"
    BY <1>2
  <1>6. OnlyLast(Append(s, "loop"))
    <2> SUFFICES ASSUME NEW i \in 1 .. Len(s) PROVE Append(s, "loop")[i] \notin Ends
      BY <1>5 DEF OnlyLast
    <2> QED BY <1>3, <1>5
  <1>7. kind \in Changing => \E i \in 1 .. Len(s) + 1 : Append(s, "loop")[i] = "all"
    <2>1. 1 .. Len(s) \subseteq 1 .. Len(s) + 1
      BY <1>5
    <2> QED BY <1>4, <1>5, <2>1
  <1> QED BY <1>5, <1>6, <1>7

\* What setConn and the cleanup have to send rests at its end only
LEMMA LiteralsRest ==
  /\ OnlyLast(<<"auth", "loop">>) /\ <<"auth", "loop">>[Len(<<"auth", "loop">>)] = "loop"
  /\ OnlyLast(<<"event", "all", "close">>) /\ OnlyLast(<<"all", "close">>)
  /\ <<"event", "all", "close">>[Len(<<"event", "all", "close">>)] = "close"
  /\ <<"all", "close">>[Len(<<"all", "close">>)] = "close"
  /\ Head(<<"auth", "loop">>) = "auth"
  /\ \E i \in 1 .. Len(<<"event", "all", "close">>) : <<"event", "all", "close">>[i] = "all"
  /\ \E i \in 1 .. Len(<<"all", "close">>) : <<"all", "close">>[i] = "all"
PROOF
  <1>1. /\ OnlyLast(<<"auth", "loop">>) /\ OnlyLast(<<"event", "all", "close">>)
        /\ OnlyLast(<<"all", "close">>)
    BY DEF OnlyLast, Ends
  <1>2. 2 \in 1 .. Len(<<"event", "all", "close">>) /\ <<"event", "all", "close">>[2] = "all"
    OBVIOUS
  <1>3. 1 \in 1 .. Len(<<"all", "close">>) /\ <<"all", "close">>[1] = "all"
    OBVIOUS
  <1>4. /\ <<"auth", "loop">>[Len(<<"auth", "loop">>)] = "loop"
        /\ <<"event", "all", "close">>[Len(<<"event", "all", "close">>)] = "close"
        /\ <<"all", "close">>[Len(<<"all", "close">>)] = "close"
        /\ Head(<<"auth", "loop">>) = "auth"
    OBVIOUS
  <1>5. \E i \in 1 .. Len(<<"event", "all", "close">>) : <<"event", "all", "close">>[i] = "all"
    BY <1>2
  <1>6. \E i \in 1 .. Len(<<"all", "close">>) : <<"all", "close">>[i] = "all"
    BY <1>3
  <1> QED BY <1>1, <1>4, <1>5, <1>6

\* A handler's step leaves it and the others resting
LEMMA HandlerRests ==
  ASSUME WInv, Resting, NEW k \in Conns,
         Login(k) \/ Handler(k) \/ \E kind \in Kinds : Request(k, kind)
  PROVE  Resting'
PROOF
  <1>0. /\ DOMAIN pc = Conns /\ DOMAIN sends = Conns /\ Rests(k)
        /\ pc[k] \in Labels /\ sends[k] \in Seq(Items)
    BY DEF WInv, WTypes, Resting
  <1>a. /\ pc[k] \in {"remove", "next"} \cup Sends => Ended(sends[k])
        /\ pc[k] \in Sends => Head(sends[k]) \notin Ends
    BY DEF WInv, Pending
  <1> SUFFICES Rests(k)'
    BY Alone DEF Resting, Rests
  <1>1. CASE Login(k)
    BY <1>0, <1>1 DEF Login, Goto, Rests, Sends
  <1>2. ASSUME NEW kind \in Kinds, Request(k, kind)
        PROVE  Rests(k)'
    <2>1. pc'[k] = "next" /\ sends'[k] = Append(Messages(kind), "loop") /\ connMap' = connMap
      BY <1>0, <1>2 DEF Request, Goto, lockVars
    <2>2. k \in connMap
      BY <1>0, <1>2 DEF Request, Rests
    <2> QED BY <2>1, <2>2, MessagesRest DEF Rests, Sends
  <1>3. CASE Announce(k)
    BY <1>0, <1>3 DEF Announce, handlerVars, Rests
  <1>4. CASE setConn(k)
    <2>1. pc'[k] = "next" /\ sends'[k] = <<"auth", "loop">> /\ k \in connMap'
      BY <1>0, <1>4 DEF setConn, Goto
    <2> QED BY <2>1, LiteralsRest DEF Rests, Sends
  <1>5. CASE removeConn(k)
    <2>1. pc[k] = "remove" /\ pc'[k] = "next" /\ sends'[k] = sends[k]
      BY <1>0, <1>5 DEF removeConn, Goto
    <2> QED BY <1>0, <2>1 DEF Rests, Sends
  <1>6. CASE Bye(k)
    <2>1. /\ pc'[k] = "remove"
          /\ sends'[k] = <<"event", "all", "close">> \/ sends'[k] = <<"all", "close">>
      BY <1>0, <1>6 DEF Bye, Goto
    <2> QED BY <2>1, LiteralsRest DEF Rests, Sends
  <1>7. CASE Rest(k)
    <2>1. Head(sends[k]) \in Ends /\ pc[k] = "next"
      BY <1>7 DEF Rest, Ends
    <2>2. Len(sends[k]) = 1 /\ sends[k][1] = Head(sends[k])
      BY <1>0, <1>a, <2>1, RestIsLast DEF Rests
    <2>3. /\ connMap' = connMap
          /\ (pc'[k] = "loop" /\ Head(sends[k]) = "loop") \/ pc'[k] = "ended"
      BY <1>0, <1>7 DEF Rest, Goto, lockVars
    <2> QED BY <1>0, <2>1, <2>2, <2>3 DEF Rests, Sends
  <1>8. CASE Answer(k) \/ BuildState(k) \/ FindTarget(k)
    <2>1. pc[k] = "next" /\ pc'[k] \in Sends /\ sends'[k] = sends[k] /\ connMap' = connMap
      BY <1>0, <1>8 DEF Answer, BuildState, FindTarget, Goto, lockVars, Sends
    <2> QED BY <1>0, <2>1 DEF Rests, Sends
  <1>9. CASE ListMembers(k)
    <2>0. pc[k] = "next" /\ connMap' = connMap /\ Head(sends[k]) \notin Ends
      BY <1>9 DEF ListMembers, lockVars, Ends
    <2>1. \/ pc'[k] = "rlock" /\ sends'[k] = sends[k]
          \/ pc'[k] = "next" /\ sends'[k] = Tail(sends[k])
      BY <1>0, <1>9 DEF ListMembers, Goto
    <2>2. OnlyLast(sends[k]) /\ Ended(sends[k])
      BY <1>0, <1>a, <2>0 DEF Rests
    <2> QED BY <1>0, <2>0, <2>1, <2>2, TailIs DEF Rests, Sends
  <1>10. CASE RLock(k) \/ \E t \in Conns : WriteLength(k, t) \/ WritePayload(k, t) \/ WriteError(k, t)
    <2>1. pc[k] \in Sends /\ pc'[k] \in Sends /\ sends'[k] = sends[k] /\ connMap' = connMap
      BY <1>0, <1>10
      DEF RLock, WriteLength, WritePayload, WriteError, Written, Goto, lockVars, Sends
    <2> QED BY <1>0, <2>1 DEF Rests, Sends
  <1>11. CASE Sent(k) \/ CloseTarget(k)
    <2>1. /\ pc[k] = "write" /\ pc'[k] = "next" /\ sends'[k] = Tail(sends[k])
          /\ connMap' = connMap
      BY <1>0, <1>11 DEF Sent, CloseTarget, Finish, Goto, lockVars
    <2>2. OnlyLast(sends[k]) /\ Ended(sends[k]) /\ Head(sends[k]) \notin Ends
      BY <1>0, <1>a, <2>1 DEF Rests, Sends
    <2> QED BY <1>0, <2>1, <2>2, TailIs DEF Rests, Sends
  <1> QED BY <1>1, <1>2, <1>3, <1>4, <1>5, <1>6, <1>7, <1>8, <1>9, <1>10, <1>11 DEF Handler

\* What a handler's step takes out of hand it puts on the connection, or into hand
LEMMA StillComing ==
  ASSUME NEW k \in Conns, NEW j \in Conns, Coming(j),
         \A h \in Conns \ {k} : pc'[h] = pc[h] /\ sends'[h] = sends[h] /\ msg'[h] = msg[h]
                                /\ todo'[h] = todo[h],
         version' = version, told' = told, OnWire(j) => OnWire(j)',
         k = j /\ Answers(k) => Answers(k)' \/ Carries(k, j)',
         Promises(k) => Promises(k)' \/ Carries(k, j)',
         Carries(k, j) => Carries(k, j)' \/ OnWire(j)'
  PROVE  Coming(j)'
PROOF
  <1>1. CASE told[j] = version \/ OnWire(j)
    BY <1>1 DEF Coming
  <1>2. CASE Answers(j)
    <2>1. CASE j = k
      BY <1>2, <2>1 DEF Coming
    <2>2. CASE j # k
      BY <1>2, <2>2 DEF Coming, Answers
    <2> QED BY <2>1, <2>2
  <1>3. ASSUME NEW h \in Conns, Promises(h) \/ Carries(h, j)
        PROVE  Coming(j)'
    <2>1. CASE h = k
      BY <1>3, <2>1 DEF Coming
    <2>2. CASE h # k
      <3>1. Promises(h)' \/ Carries(h, j)'
        BY <1>3, <2>2 DEF Promises, Carries
      <3> QED BY <3>1 DEF Coming
    <2> QED BY <2>1, <2>2
  <1> QED BY <1>1, <1>2, <1>3 DEF Coming

\* A piece is added behind what is on a connection
LEMMA WireGrows ==
  ASSUME NetInv, NEW k \in Conns, NEW t \in Conns, NEW part \in {"length", "payload"},
         wire' = [wire EXCEPT ![t] = Append(@, Piece(k, part))], version' = version,
         NEW j \in Conns
  PROVE  /\ OnWire(j) => OnWire(j)'
         /\ part = "payload" /\ j = t /\ msg[k].kind \in Telling /\ msg[k].ver = version
              => OnWire(j)'
PROOF
  <1>0. DOMAIN wire = Conns /\ wire[t] \in Seq(Pieces)
    BY DEF NetInv, NetTypes
  <1>1. CASE j # t
    BY <1>0, <1>1 DEF OnWire
  <1>2. CASE j = t
    <2> DEFINE p == Piece(k, part)
    <2>1. wire'[j] = Append(wire[j], p)
      BY <1>0, <1>2
    <2>2. /\ p.part = part /\ p.kind = msg[k].kind /\ p.ver = msg[k].ver
          /\ p \in Pieces
      BY DEF Piece, Pieces, NetInv, WInv, WTypes, Msgs
    <2> HIDE DEF p
    <2>3. /\ Len(wire[j]) \in Nat /\ Len(wire'[j]) = Len(wire[j]) + 1
          /\ \A i \in 1 .. Len(wire[j]) : wire'[j][i] = wire[j][i]
          /\ wire'[j][Len(wire[j]) + 1] = p
      BY <1>0, <1>2, <2>1, <2>2
    <2>4. 1 .. Len(wire[j]) \subseteq 1 .. Len(wire'[j]) /\ Len(wire[j]) + 1 \in 1 .. Len(wire'[j])
      BY <2>3
    <2>5. OnWire(j) => OnWire(j)'
      BY <2>3, <2>4 DEF OnWire
    <2>6. part = "payload" /\ msg[k].kind \in Telling /\ msg[k].ver = version => OnWire(j)'
      BY <2>2, <2>3, <2>4 DEF OnWire
    <2> QED BY <1>2, <2>5, <2>6
  <1> QED BY <1>1, <1>2

\* Until every client has the last version, it is on its way to those who lack it
LEMMA HandlerTells ==
  ASSUME NetInv, Resting, TellInv, NEW k \in Conns,
         Login(k) \/ Handler(k) \/ \E kind \in Kinds : Request(k, kind)
  PROVE  TellInv'
PROOF
  <1>0. /\ DOMAIN pc = Conns /\ DOMAIN sends = Conns /\ DOMAIN msg = Conns /\ DOMAIN todo = Conns
        /\ DOMAIN conn = Conns /\ DOMAIN client = Conns
        /\ Rests(k) /\ WInv /\ sends[k] \in Seq(Items) /\ msg[k] \in Msgs
        /\ pc[k] \in Labels /\ version \in Nat
    BY DEF NetInv, WInv, WTypes, NetTypes, Resting
  <1>a. /\ pc[k] \in {"remove", "next"} \cup Sends => Ended(sends[k])
        /\ pc[k] \in Sends => Head(sends[k]) \notin Ends
    BY DEF NetInv, WInv, Pending
  <1>b. \A h \in Conns \ {k} : /\ pc'[h] = pc[h] /\ sends'[h] = sends[h] /\ msg'[h] = msg[h]
                               /\ todo'[h] = todo[h] /\ (h \in connMap' <=> h \in connMap)
    BY <1>0, Alone
  <1>c. pc[k] \in {"next"} \cup Sends =>
          /\ sends[k] # <<>> /\ Len(sends[k]) \in Nat \ {0} /\ Head(sends[k]) = sends[k][1]
    BY <1>0, <1>a DEF Ended
  <1> SUFFICES ASSUME NEW j \in Conns, Live(j)' PROVE Coming(j)'
    BY DEF TellInv
  <1>1. CASE Login(k)
    <2>1. k \notin connMap /\ connMap' = connMap /\ pc[k] = "off" /\ pc'[k] = "set"
      BY <1>0, <1>1 DEF Login, WInv, RegisteredServed, Goto, lockVars
    <2>2. j # k /\ Live(j)
      BY <1>0, <1>1, <2>1 DEF Login, Live, Listening
    <2>3. Coming(j)
      BY <2>2 DEF TellInv
    <2>4. ~ Promises(k) /\ ~ Carries(k, j)
      BY <2>1 DEF Promises, Carries, Sends
    <2>5. version' = version /\ told' = told /\ wire' = wire
      BY <1>1 DEF Login
    <2>6. OnWire(j) => OnWire(j)'
      BY <2>5 DEF OnWire
    <2> QED BY <1>b, <2>2, <2>3, <2>4, <2>5, <2>6, StillComing
  <1>2. ASSUME NEW kind \in Kinds, Request(k, kind)
        PROVE  Coming(j)'
    <2>1. pc[k] = "loop" /\ pc'[k] = "next" /\ sends'[k] = Append(Messages(kind), "loop")
      BY <1>0, <1>2 DEF Request, Goto
    <2>2. CASE kind \in Changing
      <3>1. Promises(k)'
        BY <2>1, <2>2, MessagesRest DEF Promises
      <3> QED BY <3>1 DEF Coming
    <2>3. CASE kind \notin Changing
      <3>1. version' = version /\ told' = told /\ wire' = wire
        BY <1>2, <2>3 DEF Request, clientVars
      <3>2. Live(j)
        BY <1>2 DEF Request, Live, Listening, lockVars, clientVars
      <3>3. Coming(j)
        BY <3>2 DEF TellInv
      <3>4. ~ Promises(k) /\ ~ Carries(k, j) /\ ~ Answers(k)
        BY <2>1 DEF Promises, Carries, Sends, Answers
      <3>5. OnWire(j) => OnWire(j)'
        BY <3>1 DEF OnWire
      <3> QED BY <1>b, <3>1, <3>3, <3>4, <3>5, StillComing
    <2> QED BY <2>2, <2>3
  <1>3. CASE Announce(k)
    <2>1. Live(j)
      BY <1>3 DEF Announce, Live, Listening, clientVars
    <2>2. Coming(j)
      BY <2>1 DEF TellInv
    <2> QED BY <1>3, <2>2 DEF Announce, Coming, OnWire, Answers, Promises, Carries, handlerVars, clientVars
  <1>4. CASE setConn(k)
    <2>1. pc[k] = "set" /\ pc'[k] = "next" /\ sends'[k] = <<"auth", "loop">>
      BY <1>0, <1>4 DEF setConn, Goto
    <2>2. CASE j = k
      <3>1. Answers(k)'
        BY <2>1, LiteralsRest DEF Answers
      <3> QED BY <2>2, <3>1 DEF Coming
    <2>3. CASE j # k
      <3>1. Live(j)
        BY <1>b, <1>4, <2>3 DEF setConn, Live, Listening, clientVars
      <3>2. Coming(j)
        BY <3>1 DEF TellInv
      <3>3. ~ Promises(k) /\ ~ Carries(k, j)
        BY <2>1 DEF Promises, Carries, Sends
      <3>4. version' = version /\ told' = told /\ wire' = wire
        BY <1>4 DEF setConn, clientVars
      <3>5. OnWire(j) => OnWire(j)'
        BY <3>4 DEF OnWire
      <3> QED BY <1>b, <2>3, <3>2, <3>3, <3>4, <3>5, StillComing
    <2> QED BY <2>2, <2>3
  <1>5. CASE removeConn(k)
    <2>1. pc[k] = "remove" /\ pc'[k] = "next" /\ sends'[k] = sends[k] /\ k \notin connMap'
      BY <1>0, <1>5 DEF removeConn, Goto
    <2>2. j # k /\ Live(j)
      BY <1>b, <1>5, <2>1 DEF removeConn, Live, Listening, clientVars
    <2>3. Coming(j)
      BY <2>2 DEF TellInv
    <2>4. Promises(k) => Promises(k)'
      BY <2>1 DEF Promises, Sends
    <2>5. ~ Carries(k, j)
      BY <2>1 DEF Carries, Sends
    <2>6. version' = version /\ told' = told /\ wire' = wire
      BY <1>5 DEF removeConn, clientVars
    <2>7. OnWire(j) => OnWire(j)'
      BY <2>6 DEF OnWire
    <2> QED BY <1>b, <2>2, <2>3, <2>4, <2>5, <2>6, <2>7, StillComing
  <1>6. CASE Bye(k)
    <2>1. /\ pc'[k] = "remove"
          /\ sends'[k] = <<"event", "all", "close">> \/ sends'[k] = <<"all", "close">>
      BY <1>0, <1>6 DEF Bye, Goto
    <2>2. Promises(k)'
      BY <2>1, LiteralsRest DEF Promises
    <2> QED BY <2>2 DEF Coming
  <1>7. CASE Rest(k)
    <2>1. Head(sends[k]) \in Ends /\ pc[k] = "next"
      BY <1>7 DEF Rest, Ends
    <2>2. Len(sends[k]) = 1 /\ sends[k][1] = Head(sends[k])
      BY <1>0, <1>a, <2>1, RestIsLast DEF Rests
    <2>3. ~ Promises(k) /\ ~ Carries(k, j) /\ ~ Answers(k)
      BY <2>1, <2>2 DEF Promises, Carries, Answers, Sends, Ends
    <2>4. version' = version /\ told' = told /\ wire' = wire
      BY <1>7 DEF Rest, clientVars
    <2>5. Live(j)
      BY <1>0, <1>7 DEF Rest, Live, Listening, lockVars, clientVars
    <2>6. Coming(j)
      BY <2>5 DEF TellInv
    <2>7. OnWire(j) => OnWire(j)'
      BY <2>4 DEF OnWire
    <2> QED BY <1>b, <2>3, <2>4, <2>6, <2>7, StillComing
  <1>d. ASSUME Answer(k) \/ BuildState(k) \/ FindTarget(k) \/ ListMembers(k)
        PROVE  /\ Coming(j) /\ (OnWire(j) => OnWire(j)') /\ ~ Carries(k, j)
               /\ version' = version /\ told' = told
               /\ pc[k] = "next" /\ Head(sends[k]) \notin Ends
    <2>1. version' = version /\ told' = told /\ wire' = wire /\ Live(j)
      BY <1>d DEF Answer, BuildState, FindTarget, ListMembers, Live, Listening, lockVars, clientVars
    <2>2. pc[k] = "next" /\ Head(sends[k]) \notin Ends
      BY <1>d DEF Answer, BuildState, FindTarget, ListMembers, Ends
    <2>3. OnWire(j) => OnWire(j)'
      BY <2>1 DEF OnWire
    <2>4. ~ Carries(k, j)
      BY <2>2 DEF Carries, Sends
    <2> QED BY <2>1, <2>2, <2>3, <2>4 DEF TellInv
  <1>e. ASSUME Promises(k), pc[k] = "next", sends'[k] = sends[k], pc'[k] \in Sends,
               Head(sends[k]) # "all"
        PROVE  Promises(k)'
    <2>1. PICK i \in 1 .. Len(sends[k]) : sends[k][i] = "all"
      BY <1>e DEF Promises, Sends
    <2>2. i # 1
      BY <1>c, <1>e, <2>1
    <2>3. i \in 2 .. Len(sends[k])
      BY <1>c, <1>e, <2>1, <2>2
    <2> QED BY <1>e, <2>1, <2>3 DEF Promises
  <1>8. CASE Answer(k)
    <2>1. /\ pc'[k] = "write" /\ sends'[k] = sends[k] /\ todo'[k] = {k}
          /\ msg'[k].kind = Head(sends[k]) /\ msg'[k].ver = version
          /\ Head(sends[k]) # "all"
      BY <1>0, <1>8 DEF Answer, Build, BuildFor, Goto
    <2>2. Promises(k) => Promises(k)'
      BY <1>8, <1>d, <1>e, <2>1 DEF Sends
    <2>3. Answers(k) /\ j = k => Carries(k, j)'
      BY <1>8, <1>d, <2>1 DEF Answers, Carries, Sends, Telling
    <2> QED BY <1>8, <1>b, <1>d, <2>2, <2>3, StillComing
  <1>9. CASE BuildState(k)
    <2>1. /\ pc'[k] = "rlock" /\ todo'[k] = Conns /\ msg'[k].kind = "all" /\ msg'[k].ver = version
      BY <1>0, <1>9 DEF BuildState, Build, BuildFor, Goto
    <2>2. Carries(k, j)'
      BY <1>9, <1>d, <2>1 DEF Carries, Sends, Telling
    <2> QED BY <2>2 DEF Coming
  <1>10. CASE FindTarget(k)
    <2>1. pc'[k] = "write" /\ sends'[k] = sends[k] /\ Head(sends[k]) = "kick"
      BY <1>0, <1>10 DEF FindTarget, Goto
    <2>2. Promises(k) => Promises(k)'
      BY <1>10, <1>d, <1>e, <2>1 DEF Sends
    <2>3. ~ Answers(k)
      BY <2>1 DEF Answers
    <2> QED BY <1>10, <1>b, <1>d, <2>2, <2>3, StillComing
  <1>11. CASE ListMembers(k)
    <2>1. Head(sends[k]) = "event" /\ ~ Answers(k)
      BY <1>11 DEF ListMembers, Answers
    <2>2. \/ pc'[k] = "rlock" /\ sends'[k] = sends[k]
          \/ pc'[k] = "next" /\ sends'[k] = Tail(sends[k])
      BY <1>0, <1>11, <1>d DEF ListMembers, Goto
    <2>3. CASE pc'[k] = "rlock" /\ sends'[k] = sends[k]
      <3>1. Promises(k) => Promises(k)'
        BY <1>11, <1>d, <1>e, <2>1, <2>3 DEF Sends
      <3> QED BY <1>11, <1>b, <1>d, <2>1, <3>1, StillComing
    <2>4. CASE pc'[k] = "next" /\ sends'[k] = Tail(sends[k])
      <3>1. Promises(k) => Promises(k)'
        <4> SUFFICES ASSUME Promises(k) PROVE Promises(k)'
          OBVIOUS
        <4>1. PICK i \in 1 .. Len(sends[k]) : sends[k][i] = "all"
          BY <1>11, <1>d DEF Promises, Sends
        <4>2. i # 1
          BY <1>11, <1>c, <1>d, <2>1, <4>1
        <4>3. i \in 2 .. Len(sends[k])
          BY <1>11, <1>c, <1>d, <4>1, <4>2
        <4>4. i - 1 \in 1 .. Len(Tail(sends[k])) /\ Tail(sends[k])[i - 1] = "all"
          BY <1>0, <1>11, <1>a, <1>d, <4>1, <4>3, TailIs DEF Rests
        <4> QED BY <2>4, <4>4 DEF Promises
      <3> QED BY <1>11, <1>b, <1>d, <2>1, <3>1, StillComing
    <2> QED BY <2>2, <2>3, <2>4
  <1>12. CASE RLock(k)
    <2>1. /\ pc[k] = "rlock" /\ pc'[k] = "write" /\ sends'[k] = sends[k] /\ msg' = msg
          /\ todo'[k] = todo[k] \cap connMap /\ version' = version /\ told' = told /\ wire' = wire
      BY <1>0, <1>12 DEF RLock, Goto, Targets, clientVars
    <2>2. Live(j)
      BY <1>12 DEF RLock, Live, Listening, clientVars
    <2>3. Coming(j)
      BY <2>2 DEF TellInv
    <2>4. Promises(k) => Promises(k)'
      BY <2>1 DEF Promises, Sends
    <2>5. Carries(k, j) => Carries(k, j)'
      BY <2>1, <2>2 DEF Carries, Sends, Live
    <2>6. (OnWire(j) => OnWire(j)') /\ ~ Answers(k)
      BY <2>1 DEF OnWire, Answers
    <2> QED BY <1>b, <2>1, <2>3, <2>4, <2>5, <2>6, StillComing
  <1>13. ASSUME NEW t \in Conns, WriteLength(k, t)
         PROVE  Coming(j)'
    <2>1. /\ pc[k] = "write" /\ pc'[k] = "payload" /\ sends'[k] = sends[k]
          /\ todo'[k] = todo[k] \ {t} /\ version' = version /\ told' = told
      BY <1>0, <1>13 DEF WriteLength, Goto, clientVars
    <2>2. msg'[k].to = t /\ msg'[k].kind = msg[k].kind /\ msg'[k].ver = msg[k].ver
      BY <1>0, <1>13 DEF WriteLength, Msgs
    <2>3. Live(j)
      BY <1>13 DEF WriteLength, Live, Listening, lockVars, clientVars
    <2>4. Coming(j)
      BY <2>3 DEF TellInv
    <2>5. (Promises(k) => Promises(k)') /\ ~ Answers(k)
      BY <2>1 DEF Promises, Sends, Answers
    <2>6. Carries(k, j) => Carries(k, j)'
      BY <2>1, <2>2 DEF Carries, Sends
    <2>7. OnWire(j) => OnWire(j)'
      BY <1>13, <2>1, WireGrows DEF WriteLength
    <2> QED BY <1>b, <2>1, <2>4, <2>5, <2>6, <2>7, StillComing
  <1>14. ASSUME NEW t \in Conns, WritePayload(k, t)
         PROVE  Coming(j)'
    <2>1. /\ pc[k] = "payload" /\ msg[k].to = t /\ pc'[k] = "write" /\ sends'[k] = sends[k]
          /\ todo'[k] = todo[k] /\ version' = version /\ told' = told
      BY <1>0, <1>14 DEF WritePayload, Written, Goto, clientVars
    <2>2. msg'[k].kind = msg[k].kind /\ msg'[k].ver = msg[k].ver
      BY <1>0, <1>14 DEF WritePayload, Written, Msgs
    <2>3. Live(j)
      BY <1>14 DEF WritePayload, Live, Listening, lockVars, clientVars
    <2>4. Coming(j)
      BY <2>3 DEF TellInv
    <2>5. (Promises(k) => Promises(k)') /\ ~ Answers(k)
      BY <2>1 DEF Promises, Sends, Answers
    <2>6. Carries(k, j) => Carries(k, j)' \/ OnWire(j)'
      <3>1. wire' = [wire EXCEPT ![t] = Append(@, Piece(k, "payload"))]
        BY <1>14 DEF WritePayload
      <3>2. j = t /\ msg[k].kind \in Telling /\ msg[k].ver = version => OnWire(j)'
        BY <2>1, <3>1, WireGrows
      <3> QED BY <2>1, <2>2, <3>2 DEF Carries, Sends
    <2>7. OnWire(j) => OnWire(j)'
      BY <1>14, <2>1, WireGrows DEF WritePayload
    <2> QED BY <1>b, <2>1, <2>4, <2>5, <2>6, <2>7, StillComing
  <1>15. ASSUME NEW t \in Conns, WriteError(k, t)
         PROVE  Coming(j)'
    <2>1. /\ pc[k] = "write" \/ (pc[k] = "payload" /\ msg[k].to = t)
          /\ pc'[k] = "write" /\ sends'[k] = sends[k] /\ wire' = wire
          /\ todo'[k] = todo[k] \ {t} /\ version' = version /\ told' = told
      BY <1>0, <1>15 DEF WriteError, Written, Goto, clientVars
    <2>2. msg'[k].kind = msg[k].kind /\ msg'[k].ver = msg[k].ver
      BY <1>0, <1>15 DEF WriteError, Written, Msgs
    <2>3. Live(j) /\ j # t
      BY <1>15 DEF WriteError, Live, Listening, lockVars, clientVars
    <2>4. Coming(j)
      BY <2>3 DEF TellInv
    <2>5. (Promises(k) => Promises(k)') /\ ~ Answers(k)
      BY <2>1 DEF Promises, Sends, Answers
    <2>6. Carries(k, j) => Carries(k, j)'
      BY <2>1, <2>2, <2>3 DEF Carries, Sends
    <2>7. OnWire(j) => OnWire(j)'
      BY <2>1 DEF OnWire
    <2> QED BY <1>b, <2>1, <2>4, <2>5, <2>6, <2>7, StillComing
  <1>16. CASE Sent(k) \/ CloseTarget(k)
    <2>1. /\ pc[k] = "write" /\ todo[k] = {} /\ pc'[k] = "next" /\ sends'[k] = Tail(sends[k])
          /\ version' = version /\ told' = told /\ wire' = wire
      BY <1>0, <1>16 DEF Sent, CloseTarget, Finish, Goto, clientVars
    <2>2. Live(j)
      BY <1>0, <1>16 DEF Sent, CloseTarget, Live, Listening, lockVars, clientVars
    <2>3. Coming(j)
      BY <2>2 DEF TellInv
    <2>4. Promises(k) => Promises(k)'
      <3> SUFFICES ASSUME Promises(k) PROVE Promises(k)'
        OBVIOUS
      <3>1. PICK i \in 2 .. Len(sends[k]) : sends[k][i] = "all"
        BY <2>1 DEF Promises
      <3>2. i - 1 \in 1 .. Len(Tail(sends[k])) /\ Tail(sends[k])[i - 1] = "all"
        BY <1>0, <1>a, <2>1, <3>1, TailIs DEF Rests, Sends
      <3> QED BY <2>1, <3>2 DEF Promises
    <2>5. ~ Carries(k, j) /\ ~ Answers(k) /\ (OnWire(j) => OnWire(j)')
      BY <2>1 DEF Carries, Answers, OnWire
    <2> QED BY <1>b, <2>1, <2>3, <2>4, <2>5, StillComing
  <1> QED BY <1>1, <1>2, <1>3, <1>4, <1>5, <1>6, <1>7, <1>8, <1>9, <1>10, <1>11, <1>12,
             <1>13, <1>14, <1>15, <1>16 DEF Handler

\* A client loses a message unread by leaving only
LEMMA ClientTells ==
  ASSUME NetInv, TellInv, NEW k \in Conns, Reads(k) \/ HangUp(k)
  PROVE  TellInv'
PROOF
  <1>0. /\ DOMAIN told = Conns /\ DOMAIN wire = Conns /\ DOMAIN client = Conns
        /\ wire[k] \in Seq(Pieces) /\ version \in Nat /\ told[k] \in Nat /\ told[k] <= version
    BY DEF NetInv, WInv, WTypes, NetTypes, Past
  <1>a. UNCHANGED <<version, connMap, pc, sends, msg, todo, conn>>
    BY DEF Reads, ReadLength, ReadMessage, ReadUnexpected, ReadTorn, HangUp, Leave, lockVars,
       handlerVars
  <1>b. \A j \in Conns \ {k} : client'[j] = client[j] /\ wire'[j] = wire[j] /\ told'[j] = told[j]
    BY <1>0 DEF Reads, ReadLength, ReadMessage, ReadUnexpected, ReadTorn, HangUp, Leave, Read
  <1>c. ASSUME NEW j \in Conns, Live(j), told[j] = version => told'[j] = version,
               OnWire(j) => OnWire(j)' \/ told'[j] = version
        PROVE  Coming(j)'
    <2>1. Coming(j)
      BY <1>c DEF TellInv
    <2>2. CASE told[j] = version \/ OnWire(j)
      BY <1>a, <1>c, <2>2 DEF Coming
    <2>3. CASE Answers(j) \/ \E h \in Conns : Promises(h) \/ Carries(h, j)
      BY <1>a, <2>3 DEF Coming, Answers, Promises, Carries
    <2> QED BY <2>1, <2>2, <2>3 DEF Coming
  <1> SUFFICES ASSUME NEW j \in Conns, Live(j)' PROVE Coming(j)'
    BY DEF TellInv
  <1>1. CASE j # k
    <2>1. Live(j)
      BY <1>a, <1>b, <1>1 DEF Live, Listening
    <2>2. OnWire(j) => OnWire(j)'
      BY <1>a, <1>b, <1>1 DEF OnWire
    <2> QED BY <1>b, <1>c, <1>1, <2>1, <2>2
  <1>d. ASSUME Reading(k), wire' = [wire EXCEPT ![k] = Tail(@)],
               NEW i \in 1 .. Len(wire[k]), i # 1
        PROVE  i - 1 \in 1 .. Len(wire'[k]) /\ wire'[k][i - 1] = wire[k][i]
    <2>1. wire'[k] = Tail(wire[k]) /\ wire[k] # <<>>
      BY <1>0, <1>d DEF Reading
    <2>2. /\ Len(wire[k]) \in Nat /\ Len(Tail(wire[k])) = Len(wire[k]) - 1
          /\ \A n \in 1 .. Len(wire[k]) - 1 : Tail(wire[k])[n] = wire[k][n + 1]
      BY <1>0, <2>1
    <2>3. i - 1 \in 1 .. Len(wire[k]) - 1 /\ (i - 1) + 1 = i
      BY <1>d, <2>2
    <2> QED BY <2>1, <2>2, <2>3
  <1>e. Reading(k) => First(k) = wire[k][1] /\ First(k) \in Pieces /\ First(k).ver <= version
    <2> SUFFICES ASSUME Reading(k) PROVE First(k) = wire[k][1] /\ First(k) \in Pieces
                                         /\ First(k).ver <= version
      OBVIOUS
    <2>1. 1 \in DOMAIN wire[k] /\ First(k) = wire[k][1] /\ First(k) \in Pieces
      BY <1>0 DEF Reading, First
    <2> QED BY <2>1 DEF NetInv, Past
  <1>2. CASE j = k /\ ReadLength(k)
    <2>1. Live(k) /\ told'[k] = told[k]
      BY <1>2, <1>a DEF ReadLength, Live, Listening
    <2>2. OnWire(k) => OnWire(k)'
      <3> SUFFICES ASSUME NEW i \in 1 .. Len(wire[k]), wire[k][i].part = "payload",
                          wire[k][i].kind \in Telling, wire[k][i].ver = version
                   PROVE  OnWire(k)'
        BY DEF OnWire
      <3>1. i # 1
        BY <1>2, <1>e DEF ReadLength
      <3>2. i - 1 \in 1 .. Len(wire'[k]) /\ wire'[k][i - 1] = wire[k][i]
        BY <1>2, <1>d, <3>1 DEF ReadLength, Read
      <3> QED BY <1>a, <3>2 DEF OnWire
    <2> QED BY <1>2, <1>c, <2>1, <2>2
  <1>3. CASE j = k /\ ReadMessage(k)
    <2>1. Live(k)
      BY <1>3, <1>a DEF ReadMessage, Reading, Live
    <2>2. told'[k] = IF First(k).kind \in {"auth", "own", "all"} /\ First(k).ver > told[k]
                     THEN First(k).ver ELSE told[k]
      BY <1>0, <1>3 DEF ReadMessage
    <2>3. First(k) = wire[k][1] /\ First(k).ver <= version /\ First(k).ver \in Nat
      BY <1>3, <1>e DEF ReadMessage, Pieces
    <2>4. told[k] = version => told'[k] = version
      BY <1>0, <2>2, <2>3
    <2>5. OnWire(k) => OnWire(k)' \/ told'[k] = version
      <3> SUFFICES ASSUME NEW i \in 1 .. Len(wire[k]), wire[k][i].part = "payload",
                          wire[k][i].kind \in Telling, wire[k][i].ver = version
                   PROVE  OnWire(k)' \/ told'[k] = version
        BY DEF OnWire
      <3>1. CASE i = 1
        BY <1>0, <2>2, <2>3, <3>1 DEF Telling
      <3>2. CASE i # 1
        <4>1. i - 1 \in 1 .. Len(wire'[k]) /\ wire'[k][i - 1] = wire[k][i]
          BY <1>3, <1>d, <3>2 DEF ReadMessage, Read
        <4> QED BY <1>a, <4>1 DEF OnWire
      <3> QED BY <3>1, <3>2
    <2> QED BY <1>3, <1>c, <2>1, <2>4, <2>5
  <1>4. ASSUME NEW why \in {"refused", "torn", "gone"}, Leave(k, why), j = k
        PROVE  Coming(j)'
    BY <1>0, <1>4 DEF Leave, Live, Listening
  <1> QED BY <1>1, <1>2, <1>3, <1>4 DEF Reads, ReadUnexpected, ReadTorn, HangUp

(***************************************************************************)
(* With any number of clients, requests and broadcasts under way at once:  *)
(* whoever is logged in when all requests are served, and has read what is *)
(* on its connection, has been shown the last change any of them made.     *)
(* What carries it: from the change on, a handler has the broadcast before *)
(* it, or has the built state in hand for the client, or has written it;   *)
(* and a connection is registered (setConn) before the state is read for   *)
(* its AuthResponse (handleControlConn, broadcastServerState).             *)
(***************************************************************************)
THEOREM NobodyMisses == Spec => []NobodyMissesAChange
PROOF
  <1> DEFINE I == NetInv /\ Resting /\ TellInv
  <1>1. Init => I
    <2> SUFFICES ASSUME Init PROVE I
      OBVIOUS
    <2>1. NetInv
      BY NetInvInit
    <2>2. Resting /\ TellInv
      BY DEF Init, Resting, Rests, Sends, TellInv, Live
    <2> QED BY <2>1, <2>2
  <1>2. I /\ [Next]_vars => I'
    <2> SUFFICES ASSUME I, [Next]_vars PROVE I'
      OBVIOUS
    <2>1. NetInv' /\ WInv
      BY NetInvStep DEF NetInv
    <2>2. CASE UNCHANGED vars
      <3>1. UNCHANGED <<pc, sends, connMap, msg, todo, version, told, conn, client, wire>>
        BY <2>2 DEF vars, lockVars, handlerVars, clientVars
      <3>2. Resting'
        BY <3>1 DEF Resting, Rests
      <3>3. TellInv'
        BY <3>1 DEF TellInv, Live, Listening, Coming, OnWire, Answers, Promises, Carries
      <3> QED BY <2>1, <3>2, <3>3
    <2>3. ASSUME NEW k \in Conns, Reads(k) \/ HangUp(k)
          PROVE  I'
      <3>1. UNCHANGED <<pc, sends, connMap>>
        BY <2>3 DEF Reads, ReadLength, ReadMessage, ReadUnexpected, ReadTorn, HangUp, Leave,
           lockVars, handlerVars
      <3>2. Resting'
        BY <3>1 DEF Resting, Rests
      <3> QED BY <2>1, <2>3, <3>2, ClientTells
    <2>4. ASSUME NEW k \in Conns, Login(k) \/ Handler(k) \/ \E kind \in Kinds : Request(k, kind)
          PROVE  I'
      BY <2>1, <2>4, HandlerRests, HandlerTells
    <2> QED BY <2>2, <2>3, <2>4 DEF Next
  <1>3. I => NobodyMissesAChange
    <2> SUFFICES ASSUME I, AllServed, NEW k \in Conns, pc[k] = "loop", conn[k] = "open",
                        client[k] = "in", wire[k] = <<>>
                 PROVE  told[k] = version
      BY DEF NobodyMissesAChange
    <2>1. Live(k)
      BY DEF Live, Listening, Resting, Rests
    <2>2. Coming(k)
      BY <2>1 DEF TellInv
    <2>3. ~ Answers(k) /\ \A h \in Conns : ~ Promises(h) /\ ~ Carries(h, k)
      BY DEF AllServed, Answers, Promises, Carries, Sends
    <2>4. ~ OnWire(k)
      <3>1. Len(wire[k]) = 0
        OBVIOUS
      <3> QED BY <3>1 DEF OnWire
    <2> QED BY <2>2, <2>3, <2>4 DEF Coming
  <1> QED BY <1>1, <1>2, <1>3, PTL DEF Spec

-----------------------------------------------------------------------------
(* Who can go on *)

\* None of the pieces from i to j on t's connection is from y
NoneOf(t, y, i, j) == \A m \in i .. j : wire[t][m].from # y

\* Of y's frames, the last before piece n of t's connection lacks its payload
Opened(t, y, n) ==
  \/ half[t] = y /\ NoneOf(t, y, 1, n - 1)
  \/ \E i \in 1 .. n - 1 : /\ wire[t][i].from = y /\ wire[t][i].part = "length"
                           /\ NoneOf(t, y, i + 1, n - 1)

\* Each payload follows the length that its sender has written before it
FramedOn(t) ==
  /\ ~ Listening(t) => wire[t] = <<>>
  /\ pc[t] = "off" => client[t] = "off"
  /\ \A n \in 1 .. Len(wire[t]) :
       wire[t][n].part = "payload" => Opened(t, wire[t][n].from, n)
  /\ \A y \in Conns :
       pc[y] = "payload" /\ msg[y].to = t =>
         /\ client[t] # "off"
         /\ conn[t] = "open" /\ Listening(t) => Opened(t, y, Len(wire[t]) + 1)

Framed == \A t \in Conns : FramedOn(t)

\* Whoever kicks returns to its loop
KickReturns(s) == \A i \in 1 .. Len(s) : s[i] = "kick" => s[Len(s)] = "loop"

KicksReturn == \A k \in Conns : KickReturns(sends[k])

\* A write to t's connection returns
Writes(t) == CanWrite(t) \/ WriteFails(t)

\* The guards of Handler(k), but for a loop that reads
MayMove(k) ==
  \/ pc[k] \in {"set", "remove"} /\ (writer = NoConn \/ LockHeld(k))
  \/ pc[k] = "next" /\ Head(sends[k]) # "kick"
  \/ pc[k] = "next" /\ Head(sends[k]) = "kick" /\ writer = NoConn /\ connMap # {}
  \/ pc[k] = "rlock" /\ writer = NoConn
  \/ pc[k] = "write" /\ (todo[k] = {} \/ \E t \in todo[k] : Writes(t))
  \/ pc[k] = "payload" /\ Writes(msg[k].to)

\* The guards of Reads(k)
MayRead(k) == Reading(k) /\ (half[k] # NoConn \/ First(k).part = "length")

\* Unless all handlers rest, one of them or a client can go on
NoDeadlock ==
  (\E k \in Conns : pc[k] \notin {"off", "loop", "ended"}) =>
    \E k \in Conns : MayMove(k) \/ MayRead(k)

\* What lies in front of a piece tells whether it is a payload's turn
LEMMA OpenedKept ==
  ASSUME NEW t, NEW y, NEW n, half'[t] = half[t],
         \A i \in 1 .. n - 1 : wire'[t][i] = wire[t][i], Opened(t, y, n),
         n \in Nat
  PROVE  Opened(t, y, n)'
PROOF
  <1>1. CASE half[t] = y /\ NoneOf(t, y, 1, n - 1)
    BY <1>1 DEF Opened, NoneOf
  <1>2. ASSUME NEW i \in 1 .. n - 1, wire[t][i].from = y, wire[t][i].part = "length",
               NoneOf(t, y, i + 1, n - 1)
        PROVE  Opened(t, y, n)'
    <2>1. \A m \in i + 1 .. n - 1 : m \in 1 .. n - 1
      OBVIOUS
    <2> QED BY <1>2, <2>1 DEF Opened, NoneOf
  <1> QED BY <1>1, <1>2 DEF Opened

\* A piece of another sender changes nothing
LEMMA OpenedPastNext ==
  ASSUME NEW t, NEW y, NEW n \in Nat, Opened(t, y, n)', wire'[t][n].from # y
  PROVE  Opened(t, y, n + 1)'
PROOF
  <1>0. (n + 1) - 1 = n /\ \A i \in 1 .. n - 1 : i \in 1 .. n
    OBVIOUS
  <1>1. CASE half'[t] = y /\ NoneOf(t, y, 1, n - 1)'
    <2>1. \A m \in 1 .. n : m \in 1 .. n - 1 \/ m = n
      OBVIOUS
    <2>2. NoneOf(t, y, 1, n)'
      BY <1>1, <2>1 DEF NoneOf
    <2> QED BY <1>0, <1>1, <2>2 DEF Opened
  <1>2. ASSUME NEW i \in 1 .. n - 1, wire'[t][i].from = y, wire'[t][i].part = "length",
               NoneOf(t, y, i + 1, n - 1)'
        PROVE  Opened(t, y, n + 1)'
    <2>1. \A m \in i + 1 .. n : m \in i + 1 .. n - 1 \/ m = n
      OBVIOUS
    <2>2. NoneOf(t, y, i + 1, n)'
      BY <1>2, <2>1 DEF NoneOf
    <2> QED BY <1>0, <1>2, <2>2 DEF Opened
  <1> QED BY <1>1, <1>2 DEF Opened

\* The client takes the first piece
LEMMA OpenedRead ==
  ASSUME NetInv, NEW t \in Conns, wire[t] # <<>>, wire'[t] = Tail(wire[t]),
         \/ /\ half[t] = NoConn /\ First(t).part = "length" /\ half'[t] = First(t).from
         \/ /\ half[t] = First(t).from /\ First(t).part = "payload" /\ half'[t] = NoConn,
         NEW y \in Conns, NEW n \in 1 .. Len(wire[t]), Opened(t, y, n + 1)
  PROVE  Opened(t, y, n)'
PROOF
  <1>0. wire[t] \in Seq(Pieces) /\ Len(wire[t]) \in Nat /\ First(t) = wire[t][1] /\ n \in Nat
    BY DEF NetInv, NetTypes, First
  <1>1. \A i \in 1 .. Len(wire[t]) - 1 : wire'[t][i] = wire[t][i + 1]
    BY <1>0
  <1>2. NoConn \notin Conns
    BY WireAssumption
  <1>3. ASSUME NEW j \in Nat, j >= 1, NoneOf(t, y, j + 1, n)
        PROVE  NoneOf(t, y, j, n - 1)'
    <2> SUFFICES ASSUME NEW m \in j .. n - 1 PROVE wire'[t][m].from # y
      BY DEF NoneOf
    <2>1. m + 1 \in j + 1 .. n /\ m \in 1 .. Len(wire[t]) - 1
      BY <1>0, <1>3
    <2>2. wire[t][m + 1].from # y
      BY <1>3, <2>1 DEF NoneOf
    <2> QED BY <1>1, <2>1, <2>2
  <1>4. (n + 1) - 1 = n
    BY <1>0
  <1>5. CASE half[t] = y /\ NoneOf(t, y, 1, n)
    <2>1. 1 \in 1 .. n
      BY <1>0
    <2>2. wire[t][1].from # y
      BY <1>5, <2>1 DEF NoneOf
    <2> QED BY <1>0, <1>2, <1>5, <2>2
  <1>6. ASSUME NEW i \in 1 .. n, wire[t][i].from = y, wire[t][i].part = "length",
               NoneOf(t, y, i + 1, n)
        PROVE  Opened(t, y, n)'
    <2>1. CASE i = 1
      <3>1. half'[t] = y
        BY <1>0, <1>6, <2>1
      <3>2. NoneOf(t, y, 1, n - 1)'
        BY <1>3, <1>6, <2>1
      <3> QED BY <3>1, <3>2 DEF Opened
    <2>2. CASE i # 1
      <3>1. i - 1 \in 1 .. n - 1 /\ i - 1 \in 1 .. Len(wire[t]) - 1 /\ (i - 1) + 1 = i
            /\ i \in Nat /\ i >= 1
        BY <1>0, <2>2
      <3>2. wire'[t][i - 1] = wire[t][i]
        BY <1>1, <3>1
      <3>3. NoneOf(t, y, i, n - 1)'
        BY <1>3, <1>6, <3>1
      <3>4. \E j \in 1 .. n - 1 : /\ wire'[t][j].from = y /\ wire'[t][j].part = "length"
                                  /\ NoneOf(t, y, j + 1, n - 1)'
        BY <1>6, <3>1, <3>2, <3>3
      <3> QED BY <3>4 DEF Opened
    <2> QED BY <2>1, <2>2
  <1> QED BY <1>4, <1>5, <1>6 DEF Opened

\* Steps that neither write nor read
LEMMA FramedAside ==
  ASSUME NetInv, Framed, UNCHANGED <<wire, half, client>>,
         \A t \in Conns : conn'[t] = "open" => conn[t] = "open",
         \A y \in Conns : pc'[y] = "payload" => pc[y] = "payload" /\ msg'[y].to = msg[y].to,
         \A t \in Conns : pc'[t] = "off" => pc[t] = "off"
  PROVE  Framed'
PROOF
  <1> SUFFICES ASSUME NEW t \in Conns PROVE FramedOn(t)'
    BY DEF Framed
  <1>1. FramedOn(t)
    BY DEF Framed
  <1>2. \A y, n : Opened(t, y, n)' <=> Opened(t, y, n)
    BY DEF Opened, NoneOf
  <1>3. Listening(t)' <=> Listening(t)
    BY DEF Listening
  <1> QED BY <1>1, <1>2, <1>3 DEF FramedOn

\* A piece is written
LEMMA FramedWrite ==
  ASSUME NetInv, Framed, NEW k \in Conns, NEW t \in Conns, NEW part \in {"length", "payload"},
         wire' = [wire EXCEPT ![t] = Append(@, Piece(k, part))],
         UNCHANGED <<half, client, conn>>, CanWrite(t),
         \A y \in Conns \ {k} : pc'[y] = pc[y] /\ msg'[y] = msg[y],
         \/ part = "length" /\ pc'[k] = "payload" /\ msg'[k].to = t
         \/ part = "payload" /\ pc[k] = "payload" /\ msg[k].to = t /\ pc'[k] = "write"
  PROVE  Framed'
PROOF
  <1> SUFFICES ASSUME NEW j \in Conns PROVE FramedOn(j)'
    BY DEF Framed
  <1>0. DOMAIN wire = Conns /\ wire[t] \in Seq(Pieces) /\ FramedOn(j) /\ FramedOn(t)
    BY DEF NetInv, NetTypes, Framed
  <1>1. (Listening(j)' <=> Listening(j)) /\ Listening(t) /\ client[t] # "off"
    BY DEF Listening, CanWrite
  <1>2. pc'[j] = "off" => client[j] = "off"
    BY <1>0 DEF FramedOn
  <1>3. CASE j # t
    <2>1. wire'[j] = wire[j]
      BY <1>0, <1>3
    <2>2. \A y, n : Opened(j, y, n)' <=> Opened(j, y, n)
      BY <2>1 DEF Opened, NoneOf
    <2>3. \A y \in Conns : pc'[y] = "payload" /\ msg'[y].to = j => pc[y] = "payload" /\ msg[y].to = j
      BY <1>3
    <2> QED BY <1>0, <1>1, <1>2, <2>1, <2>2, <2>3 DEF FramedOn
  <1>4. CASE j = t
    <2>a. PICK l \in Nat : l = Len(wire[t])
      BY <1>0
    <2>b. PICK p : p = Piece(k, part) /\ p.from = k /\ p.part = part
      BY DEF Piece
    <2>2. wire'[t] = Append(wire[t], p)
      BY <1>0, <2>b
    <2>3. /\ Len(wire'[t]) = l + 1 /\ wire'[t][l + 1] = p
          /\ \A i \in 1 .. l : wire'[t][i] = wire[t][i]
      BY <1>0, <2>a, <2>2
    <2>4. ASSUME NEW n \in 1 .. l + 1, NEW y, Opened(t, y, n)
          PROVE  Opened(t, y, n)'
      <3>1. n \in Nat /\ \A i \in 1 .. n - 1 : i \in 1 .. l
        OBVIOUS
      <3>2. \A i \in 1 .. n - 1 : wire'[t][i] = wire[t][i]
        BY <2>3, <3>1
      <3> QED BY <2>4, <3>1, <3>2, OpenedKept
    <2>5. l + 1 \in 1 .. l + 1
      OBVIOUS
    <2>6. wire'[t] # <<>>
      BY <2>3
    <2>7. ASSUME NEW n \in 1 .. l + 1, wire'[t][n].part = "payload", NEW y, y = wire'[t][n].from
          PROVE  Opened(t, y, n)'
      <3>1. CASE n \in 1 .. l
        <4>1. wire'[t][n] = wire[t][n]
          BY <2>3, <3>1
        <4>2. Opened(t, y, n)
          BY <1>0, <2>7, <2>a, <3>1, <4>1 DEF FramedOn
        <4> QED BY <2>4, <4>2
      <3>2. CASE n = l + 1
        <4>1. part = "payload" /\ y = k
          BY <2>b, <2>3, <2>7, <3>2
        <4>2. Opened(t, k, l + 1)
          BY <1>0, <1>1, <2>a, <4>1 DEF FramedOn, CanWrite
        <4> QED BY <2>4, <2>5, <3>2, <4>1, <4>2
      <3>3. n \in 1 .. l \/ n = l + 1
        OBVIOUS
      <3> QED BY <3>1, <3>2, <3>3
    <2>8. ASSUME NEW y \in Conns, pc'[y] = "payload", msg'[y].to = t
          PROVE  Opened(t, y, l + 2)'
      <3>0. l + 1 \in Nat /\ (l + 1) + 1 = l + 2 /\ (l + 2) - 1 = l + 1
        OBVIOUS
      <3>1. CASE y # k
        <4>1. Opened(t, y, l + 1)
          BY <1>0, <1>1, <2>8, <2>a, <3>1 DEF FramedOn, CanWrite
        <4>2. Opened(t, y, l + 1)'
          BY <2>4, <2>5, <4>1
        <4>3. wire'[t][l + 1].from # y
          BY <2>b, <2>3, <3>1
        <4> QED BY <3>0, <4>2, <4>3, OpenedPastNext
      <3>2. CASE y = k
        <4>1. part = "length"
          BY <2>8, <3>2
        <4>2. wire'[t][l + 1].from = y /\ wire'[t][l + 1].part = "length"
          BY <2>b, <2>3, <3>2, <4>1
        <4>3. l + 1 \in 1 .. (l + 2) - 1 /\ \A m \in (l + 1) + 1 .. (l + 2) - 1 : FALSE
          OBVIOUS
        <4> QED BY <4>2, <4>3 DEF Opened, NoneOf
      <3> QED BY <3>1, <3>2
    <2>9. Len(wire'[t]) = l + 1 /\ (l + 1) + 1 = l + 2
      BY <2>3
    <2>10. \A n \in 1 .. Len(wire'[t]) :
             (wire[t][n].part = "payload" => Opened(t, wire[t][n].from, n))'
      BY <2>7, <2>9 DEF Opened, NoneOf
    <2>11. \A y \in Conns : (pc[y] = "payload" /\ msg[y].to = t =>
             client[t] # "off" /\ Opened(t, y, Len(wire[t]) + 1))'
      BY <1>1, <2>8, <2>9 DEF Opened, NoneOf
    <2> QED BY <1>1, <1>2, <1>4, <2>6, <2>10, <2>11 DEF FramedOn
  <1> QED BY <1>3, <1>4

\* A client reads the first piece, in its turn
LEMMA FramedRead ==
  ASSUME NetInv, Framed, NEW t \in Conns, Listening(t), wire[t] # <<>>,
         wire' = [wire EXCEPT ![t] = Tail(@)], half' = [half EXCEPT ![t] = half'[t]],
         \/ /\ half[t] = NoConn /\ First(t).part = "length" /\ half'[t] = First(t).from
         \/ /\ half[t] = First(t).from /\ First(t).part = "payload" /\ half'[t] = NoConn,
         client' = [client EXCEPT ![t] = client'[t]], Listening(t)',
         UNCHANGED <<pc, msg, conn>>
  PROVE  Framed'
PROOF
  <1> SUFFICES ASSUME NEW j \in Conns PROVE FramedOn(j)'
    BY DEF Framed
  <1>0. /\ DOMAIN wire = Conns /\ DOMAIN half = Conns /\ DOMAIN client = Conns
        /\ wire[t] \in Seq(Pieces) /\ FramedOn(j) /\ FramedOn(t)
    BY DEF NetInv, NetTypes, Framed
  <1>1. CASE j # t
    <2>1. wire'[j] = wire[j] /\ half'[j] = half[j] /\ client'[j] = client[j]
      BY <1>0, <1>1
    <2>2. ASSUME NEW y, NEW n PROVE Opened(j, y, n)' <=> Opened(j, y, n)
      <3>1. \A i, m : NoneOf(j, y, i, m)' <=> NoneOf(j, y, i, m)
        BY <2>1 DEF NoneOf
      <3> QED BY <2>1, <3>1 DEF Opened
    <2> QED BY <1>0, <2>1, <2>2 DEF FramedOn, Listening
  <1>2. CASE j = t
    <2>0. PICK l \in Nat : l = Len(wire[t])
      BY <1>0
    <2>1. /\ wire'[t] = Tail(wire[t]) /\ l >= 1 /\ Len(wire'[t]) = l - 1
          /\ \A i \in 1 .. l - 1 : wire'[t][i] = wire[t][i + 1]
      BY <1>0, <2>0
    <2>a. \A y \in Conns, n \in 1 .. l : Opened(t, y, n + 1) => Opened(t, y, n)'
      BY <2>0, <2>1, OpenedRead
    <2>b. \A i \in 1 .. l : wire[t][i].from \in Conns
      <3>1. \A i \in 1 .. l : wire[t][i] \in Pieces
        BY <1>0, <2>0
      <3> QED BY <3>1 DEF Pieces
    <2>c. client[t] # "off" /\ client'[t] # "off"
      BY DEF Listening
    <2>2. ASSUME NEW n \in 1 .. l - 1, wire'[t][n].part = "payload", NEW y, y = wire'[t][n].from
          PROVE  Opened(t, y, n)'
      <3>1. n + 1 \in 1 .. l /\ n \in 1 .. l /\ wire'[t][n] = wire[t][n + 1]
        BY <2>1
      <3>2. Opened(t, y, n + 1)
        BY <1>0, <2>0, <2>2, <3>1 DEF FramedOn
      <3>3. y \in Conns
        BY <2>2, <2>b, <3>1
      <3> QED BY <2>a, <3>1, <3>2, <3>3
    <2>3. ASSUME NEW y \in Conns, pc'[y] = "payload", msg'[y].to = t, conn'[t] = "open"
          PROVE  Opened(t, y, l)'
      <3>1. Opened(t, y, l + 1)
        BY <1>0, <2>0, <2>3 DEF FramedOn
      <3>2. l \in 1 .. l
        BY <2>1
      <3> QED BY <2>a, <3>1, <3>2
    <2>4. pc'[t] = "off" => client'[t] = "off"
      BY <1>0, <2>c DEF FramedOn
    <2>5. Len(wire'[t]) = l - 1 /\ (l - 1) + 1 = l
      BY <2>1
    <2>6. ASSUME NEW n \in 1 .. Len(wire'[t]), wire'[t][n].part = "payload"
          PROVE  Opened(t, wire[t][n].from, n)'
      <3>1. PICK y : y = wire'[t][n].from
        OBVIOUS
      <3>2. n \in 1 .. l - 1
        BY <2>5, <2>6
      <3>3. Opened(t, y, n)'
        BY <2>2, <2>6, <3>1, <3>2
      <3> QED BY <3>1, <3>3 DEF Opened, NoneOf
    <2>7. ASSUME NEW y \in Conns, pc'[y] = "payload", msg'[y].to = t, conn'[t] = "open"
          PROVE  Opened(t, y, Len(wire[t]) + 1)'
      <3>1. Opened(t, y, l)'
        BY <2>3, <2>7
      <3>2. Len(wire'[t]) + 1 = l
        BY <2>5
      <3> QED BY <3>1, <3>2 DEF Opened, NoneOf
    <2> QED BY <1>2, <2>4, <2>6, <2>7, <2>c DEF FramedOn
  <1> QED BY <1>1, <1>2

\* A client closes its end
LEMMA FramedLeave ==
  ASSUME NetInv, Framed, NEW t \in Conns, NEW why \in {"refused", "torn", "gone"}, Leave(t, why),
         Listening(t)
  PROVE  Framed'
PROOF
  <1> SUFFICES ASSUME NEW j \in Conns PROVE FramedOn(j)'
    BY DEF Framed
  <1>0. /\ DOMAIN wire = Conns /\ DOMAIN half = Conns /\ DOMAIN client = Conns /\ FramedOn(j)
        /\ UNCHANGED <<pc, msg, conn>>
    BY DEF NetInv, NetTypes, Framed, Leave, handlerVars
  <1>1. CASE j # t
    <2>1. wire'[j] = wire[j] /\ half'[j] = half[j] /\ client'[j] = client[j]
      BY <1>0, <1>1 DEF Leave
    <2>2. ASSUME NEW y, NEW n PROVE Opened(j, y, n)' <=> Opened(j, y, n)
      <3>1. \A i, m : NoneOf(j, y, i, m)' <=> NoneOf(j, y, i, m)
        BY <2>1 DEF NoneOf
      <3> QED BY <2>1, <3>1 DEF Opened
    <2> QED BY <1>0, <2>1, <2>2 DEF FramedOn, Listening
  <1>2. CASE j = t
    <2>1. wire'[t] = <<>> /\ client'[t] = why
      BY <1>0 DEF Leave
    <2>2. Len(wire'[t]) = 0
      BY <2>1
    <2>3. pc[t] # "off"
      <3> SUFFICES ASSUME pc[t] = "off" PROVE FALSE
        OBVIOUS
      <3>1. client[t] = "off"
        BY <1>0, <1>2 DEF FramedOn
      <3> QED BY <3>1 DEF Listening
    <2> QED BY <1>0, <1>2, <2>1, <2>2, <2>3 DEF FramedOn, Listening
  <1> QED BY <1>1, <1>2

\* A step of a client
LEMMA ClientFramed ==
  ASSUME NetInv, Framed, NEW k \in Conns, Reads(k) \/ HangUp(k)
  PROVE  Framed'
PROOF
  <1>0. DOMAIN half = Conns /\ DOMAIN client = Conns /\ wire[k] \in Seq(Pieces)
    BY DEF NetInv, NetTypes
  <1>1. CASE ReadLength(k)
    <2>1. /\ half' = [half EXCEPT ![k] = half'[k]] /\ half'[k] = First(k).from
          /\ half[k] = NoConn /\ First(k).part = "length"
      BY <1>0, <1>1 DEF ReadLength
    <2>2. /\ Listening(k) /\ wire[k] # <<>> /\ wire' = [wire EXCEPT ![k] = Tail(@)]
          /\ client' = client /\ UNCHANGED <<pc, msg, conn>>
      BY <1>1 DEF ReadLength, Reading, Read, handlerVars
    <2>3. client' = [client EXCEPT ![k] = client'[k]] /\ Listening(k)'
      BY <1>0, <2>2 DEF NetInv, NetTypes, Listening
    <2> QED BY <2>1, <2>2, <2>3, FramedRead
  <1>2. CASE ReadMessage(k)
    <2>1. /\ half' = [half EXCEPT ![k] = half'[k]] /\ half'[k] = NoConn
          /\ half[k] = First(k).from /\ First(k).part = "payload"
      BY <1>0, <1>2 DEF ReadMessage, Whole
    <2>2. /\ Listening(k) /\ wire[k] # <<>> /\ wire' = [wire EXCEPT ![k] = Tail(@)]
          /\ client' = [client EXCEPT ![k] = "in"] /\ UNCHANGED <<pc, msg, conn>>
      BY <1>2 DEF ReadMessage, Reading, Read, handlerVars
    <2>3. client' = [client EXCEPT ![k] = client'[k]] /\ Listening(k)'
      BY <1>0, <2>2 DEF Listening
    <2> QED BY <2>1, <2>2, <2>3, FramedRead
  <1>3. CASE ReadUnexpected(k) \/ ReadTorn(k) \/ HangUp(k)
    BY <1>3, FramedLeave DEF ReadUnexpected, ReadTorn, HangUp, Reading
  <1> QED BY <1>1, <1>2, <1>3 DEF Reads

\* A step of a handler
LEMMA HandlerFramed ==
  ASSUME NetInv, Framed, NEW k \in Conns,
         Login(k) \/ Handler(k) \/ \E kind \in Kinds : Request(k, kind)
  PROVE  Framed'
PROOF
  <1>0. /\ DOMAIN pc = Conns /\ DOMAIN msg = Conns /\ DOMAIN client = Conns /\ DOMAIN conn = Conns
        /\ WInv /\ pc[k] \in Labels /\ msg[k] \in Msgs
    BY DEF NetInv, WInv, WTypes, NetTypes
  <1>a. \A h \in Conns \ {k} : pc'[h] = pc[h] /\ msg'[h] = msg[h]
    BY <1>0, Alone
  <1>1. CASE Login(k)
    <2> SUFFICES ASSUME NEW j \in Conns PROVE FramedOn(j)'
      BY DEF Framed
    <2>1. /\ pc[k] = "off" /\ pc'[k] = "set" /\ UNCHANGED <<wire, half, msg, conn>>
          /\ client' = [client EXCEPT ![k] = "login"]
      BY <1>0, <1>1 DEF Login, Goto
    <2>2. FramedOn(j) /\ FramedOn(k)
      BY DEF Framed
    <2>3. \A y, n : Opened(j, y, n)' <=> Opened(j, y, n)
      BY <2>1 DEF Opened, NoneOf
    <2>4. CASE j # k
      <3>1. client'[j] = client[j] /\ pc'[j] = pc[j]
        BY <1>0, <2>1, <2>4, <1>a
      <3>2. \A y \in Conns : pc'[y] = "payload" => pc[y] = "payload"
        BY <1>a, <2>1
      <3> QED BY <2>1, <2>2, <2>3, <3>1, <3>2 DEF FramedOn, Listening
    <2>5. CASE j = k
      <3>1. client[k] = "off" /\ client'[k] = "login" /\ wire[k] = <<>>
        BY <1>0, <2>1, <2>2 DEF FramedOn, Listening
      <3>2. \A y \in Conns : ~ (pc'[y] = "payload" /\ msg'[y].to = k)
        BY <1>a, <2>1, <2>2, <3>1 DEF FramedOn
      <3>3. Len(wire'[k]) = 0
        BY <2>1, <3>1
      <3> QED BY <2>1, <2>5, <3>1, <3>2, <3>3 DEF FramedOn, Listening
    <2> QED BY <2>4, <2>5
  <1>2. ASSUME UNCHANGED <<wire, half, client>>,
               \A t \in Conns : conn'[t] = "open" => conn[t] = "open",
               pc'[k] \notin {"payload", "off"}
        PROVE  Framed'
    BY <1>2, <1>a, FramedAside
  <1>3. CASE \E kind \in Kinds : Request(k, kind)
    BY <1>0, <1>2, <1>3 DEF Request, Goto, clientVars
  <1>4. CASE Announce(k)
    BY <1>0, <1>2, <1>4 DEF Announce, handlerVars, clientVars
  <1>5. CASE setConn(k) \/ removeConn(k) \/ Bye(k) \/ Rest(k)
    BY <1>0, <1>2, <1>5 DEF setConn, removeConn, Bye, Rest, Goto, clientVars
  <1>6. CASE Answer(k) \/ BuildState(k) \/ FindTarget(k) \/ RLock(k)
    BY <1>0, <1>2, <1>6 DEF Answer, BuildState, FindTarget, RLock, Goto, clientVars
  <1>7. CASE ListMembers(k)
    BY <1>0, <1>2, <1>7 DEF ListMembers, Goto, clientVars
  <1>8. CASE Sent(k) \/ CloseTarget(k)
    BY <1>0, <1>2, <1>8 DEF Sent, CloseTarget, Finish, Goto, clientVars, NetInv, NetTypes
  <1>9. ASSUME NEW t \in Conns, WriteError(k, t)
        PROVE  Framed'
    BY <1>0, <1>2, <1>9 DEF WriteError, Written, Goto, clientVars
  <1>10. ASSUME NEW t \in Conns, WriteLength(k, t)
         PROVE  Framed'
    <2>1. pc'[k] = "payload" /\ msg'[k].to = t
      BY <1>0, <1>10 DEF WriteLength, Goto, Msgs
    <2> QED BY <1>a, <1>10, <2>1, FramedWrite DEF WriteLength, clientVars
  <1>11. ASSUME NEW t \in Conns, WritePayload(k, t)
         PROVE  Framed'
    <2>1. pc'[k] = "write" /\ pc[k] = "payload" /\ msg[k].to = t
      BY <1>0, <1>11 DEF WritePayload, Written, Goto
    <2> QED BY <1>a, <1>11, <2>1, FramedWrite DEF WritePayload, clientVars
  <1> QED BY <1>1, <1>3, <1>4, <1>5, <1>6, <1>7, <1>8, <1>9, <1>10, <1>11 DEF Handler

\* No step gives a handler that will close its connection a kick to send
LEMMA HandlerKicks ==
  ASSUME WInv, Resting, KicksReturn, NEW k \in Conns,
         Login(k) \/ Handler(k) \/ \E kind \in Kinds : Request(k, kind)
  PROVE  KicksReturn'
PROOF
  <1>0. /\ DOMAIN sends = Conns /\ Rests(k) /\ sends[k] \in Seq(Items) /\ KickReturns(sends[k])
    BY DEF WInv, WTypes, Resting, KicksReturn
  <1>a. /\ pc[k] \in {"remove", "next"} \cup Sends => Ended(sends[k])
        /\ pc[k] \in Sends => Head(sends[k]) \notin Ends
    BY DEF WInv, Pending
  <1>b. \A h \in Conns \ {k} : sends'[h] = sends[h]
    BY Alone
  <1> SUFFICES KickReturns(sends'[k])
    BY <1>b DEF KicksReturn, KickReturns
  <1>1. CASE sends'[k] = sends[k]
    BY <1>0, <1>1
  <1>2. ASSUME NEW kind \in Kinds, Request(k, kind)
        PROVE  KickReturns(sends'[k])
    <2>1. sends'[k] = Append(Messages(kind), "loop")
      BY <1>0, <1>2 DEF Request
    <2> QED BY <2>1, MessagesRest DEF KickReturns
  <1>3. CASE setConn(k)
    <2>1. sends'[k] = <<"auth", "loop">>
      BY <1>0, <1>3 DEF setConn
    <2> QED BY <2>1, LiteralsRest DEF KickReturns
  <1>4. CASE Bye(k)
    <2>1. sends'[k] = <<"event", "all", "close">> \/ sends'[k] = <<"all", "close">>
      BY <1>0, <1>4 DEF Bye
    <2>2. /\ \A i \in 1 .. Len(<<"event", "all", "close">>) : <<"event", "all", "close">>[i] # "kick"
          /\ \A i \in 1 .. Len(<<"all", "close">>) : <<"all", "close">>[i] # "kick"
      OBVIOUS
    <2> QED BY <2>1, <2>2 DEF KickReturns
  <1>5. CASE Rest(k)
    <2>1. sends'[k] = <<>>
      BY <1>0, <1>5 DEF Rest
    <2>2. Len(<<>>) = 0
      OBVIOUS
    <2> QED BY <2>1, <2>2 DEF KickReturns
  <1>6. ASSUME pc[k] = "next" \/ pc[k] = "write", Head(sends[k]) \notin Ends,
               sends'[k] = Tail(sends[k])
        PROVE  KickReturns(sends'[k])
    <2>1. Ended(sends[k]) /\ OnlyLast(sends[k])
      BY <1>0, <1>a, <1>6 DEF Rests, Sends
    <2>2. PICK l \in Nat : l = Len(sends[k]) /\ l >= 2
      BY <1>0, <1>6, <2>1, TailIs
    <2>3. /\ Len(Tail(sends[k])) = l - 1 /\ Tail(sends[k])[l - 1] = sends[k][l]
          /\ \A i \in 1 .. l - 1 : i \in 1 .. l /\ i + 1 \in 1 .. l
      BY <1>0, <1>6, <2>1, <2>2, TailIs
    <2>4. \A i \in 1 .. l - 1 : Tail(sends[k])[i] = sends[k][i + 1]
      BY <1>0, <2>2
    <2> QED BY <1>0, <1>6, <2>2, <2>3, <2>4 DEF KickReturns
  <1>7. CASE ListMembers(k)
    <2>1. pc[k] = "next" /\ Head(sends[k]) \notin Ends
      BY <1>7 DEF ListMembers, Ends
    <2>2. sends'[k] = sends[k] \/ sends'[k] = Tail(sends[k])
      BY <1>0, <1>7 DEF ListMembers
    <2> QED BY <1>1, <1>6, <2>1, <2>2
  <1>8. CASE Sent(k) \/ CloseTarget(k)
    <2>1. pc[k] = "write" /\ sends'[k] = Tail(sends[k])
      BY <1>0, <1>8 DEF Sent, CloseTarget, Finish
    <2>2. Head(sends[k]) \notin Ends
      BY <1>a, <2>1 DEF Sends
    <2> QED BY <1>6, <2>1, <2>2
  <1>9. CASE \/ Login(k) \/ Announce(k) \/ removeConn(k) \/ Answer(k) \/ BuildState(k)
             \/ FindTarget(k) \/ RLock(k)
             \/ \E t \in Conns : WriteLength(k, t) \/ WritePayload(k, t) \/ WriteError(k, t)
    <2>1. UNCHANGED sends
      BY <1>9 DEF Login, Announce, removeConn, Answer, BuildState, FindTarget, RLock, WriteLength,
         WritePayload, WriteError, handlerVars
    <2> QED BY <1>1, <2>1
  <1> QED BY <1>2, <1>3, <1>4, <1>5, <1>7, <1>8, <1>9 DEF Handler

\* A client that fills a connection has something it can read
LEMMA FullIsRead ==
  ASSUME NetInv, Framed, NEW t \in Conns, ~ Writes(t)
  PROVE  MayRead(t)
PROOF
  <1>1. wire[t] \in Seq(Pieces) /\ Buffer \in Nat \ {0}
    BY WireAssumption DEF NetInv, NetTypes
  <1>2. Listening(t) /\ Len(wire[t]) >= 1 /\ wire[t] # <<>>
    BY <1>1 DEF Writes, CanWrite, WriteFails
  <1>3. 1 \in 1 .. Len(wire[t]) /\ First(t) = wire[t][1] /\ First(t) \in Pieces
    BY <1>1, <1>2 DEF First
  <1>4. First(t).part = "payload" => half[t] = First(t).from
    <2> SUFFICES ASSUME First(t).part = "payload" PROVE half[t] = First(t).from
      OBVIOUS
    <2>1. Opened(t, First(t).from, 1)
      BY <1>3 DEF Framed, FramedOn
    <2>2. 1 .. 1 - 1 = {}
      OBVIOUS
    <2> QED BY <2>1, <2>2 DEF Opened
  <1>5. First(t).part \in {"length", "payload"} /\ First(t).from # NoConn
    BY <1>3, WireAssumption DEF Pieces
  <1> QED BY <1>2, <1>4, <1>5 DEF MayRead, Reading

\* Somebody can always go on
LEMMA SomebodyGoesOn ==
  ASSUME NetInv, Resting, Framed, KicksReturn
  PROVE  NoDeadlock
PROOF
  <1> SUFFICES ASSUME NEW k \in Conns, pc[k] \notin {"off", "loop", "ended"}
               PROVE  \E h \in Conns : MayMove(h) \/ MayRead(h)
    BY DEF NoDeadlock
  <1>0. /\ WInv /\ writer \in Conns \cup {NoConn} /\ pc[k] \in Labels /\ readers \subseteq Conns
        /\ \A h \in Conns : todo[h] \subseteq Conns
    BY DEF NetInv, WInv, WTypes
  <1>1. ASSUME NEW h \in Conns, pc[h] \in {"write", "payload"}
        PROVE  \E j \in Conns : MayMove(j) \/ MayRead(j)
    <2>1. CASE pc[h] = "write"
      <3>1. CASE todo[h] = {} \/ \E t \in todo[h] : Writes(t)
        BY <2>1, <3>1 DEF MayMove
      <3>2. CASE \E t \in todo[h] : ~ Writes(t)
        BY <1>0, <3>2, FullIsRead
      <3> QED BY <3>1, <3>2
    <2>2. CASE pc[h] = "payload"
      <3>1. msg[h].to \in Conns
        BY <1>0, <2>2 DEF WInv, Locked
      <3>2. CASE Writes(msg[h].to)
        BY <2>2, <3>2 DEF MayMove
      <3>3. CASE ~ Writes(msg[h].to)
        BY <3>1, <3>3, FullIsRead
      <3> QED BY <3>2, <3>3
    <2> QED BY <1>1, <2>1, <2>2
  <1>2. CASE writer # NoConn
    <2>1. writer \in Conns /\ pc[writer] \in {"set", "remove"}
      BY <1>0, <1>2 DEF WInv, Locked
    <2>2. CASE readers = {}
      BY <2>1, <2>2 DEF MayMove, LockHeld
    <2>3. CASE readers # {}
      <3>1. PICK h \in Conns : Sending(h)
        BY <1>0, <2>3 DEF WInv, Locked
      <3> QED BY <1>1, <3>1 DEF Sending
    <2> QED BY <2>2, <2>3
  <1>3. CASE writer = NoConn
    <2>1. CASE pc[k] \in {"set", "remove", "rlock"}
      BY <1>3, <2>1 DEF MayMove
    <2>2. CASE pc[k] = "next"
      <3>1. CASE Head(sends[k]) # "kick"
        BY <2>2, <3>1 DEF MayMove
      <3>2. CASE Head(sends[k]) = "kick"
        <4>1. Ended(sends[k]) /\ sends[k] \in Seq(Items)
          BY <1>0, <2>2 DEF WInv, WTypes, Pending
        <4>2. 1 \in 1 .. Len(sends[k]) /\ sends[k][1] = "kick"
          BY <3>2, <4>1 DEF Ended
        <4>3. sends[k][Len(sends[k])] = "loop"
          BY <4>2 DEF KicksReturn, KickReturns
        <4>4. k \in connMap
          BY <2>2, <4>3 DEF Resting, Rests
        <4> QED BY <1>3, <2>2, <3>2, <4>4 DEF MayMove
      <3> QED BY <3>1, <3>2
    <2>3. CASE pc[k] \in {"write", "payload"}
      BY <1>1, <2>3
    <2> QED BY <1>0, <2>1, <2>2, <2>3 DEF Labels
  <1> QED BY <1>2, <1>3

(***************************************************************************)
(* Handlers, the waiting writer of the lock and full connections never all *)
(* wait for one another: while any handler is under way, one of them or a  *)
(* client has a step before it.  The lock waits for broadcasters only, a   *)
(* broadcaster only for a connection that is full, and whoever fills one   *)
(* leaves its client something to read: each payload on a connection comes *)
(* after the length that its sender wrote (WriteControlMessage), even when *)
(* frames of several senders are mixed; and who kicks is registered, so    *)
(* the search for a target finds somebody.                                 *)
(***************************************************************************)
THEOREM SomebodyCanGoOn == Spec => []NoDeadlock
PROOF
  <1> DEFINE I == NetInv /\ Resting /\ Framed /\ KicksReturn
  <1>1. Init => I
    <2> SUFFICES ASSUME Init PROVE I
      OBVIOUS
    <2>1. NetInv
      BY NetInvInit
    <2>2. Resting
      BY DEF Init, Resting, Rests, Sends
    <2>3. \A t \in Conns : wire[t] = <<>> /\ sends[t] = <<>> /\ pc[t] = "off" /\ client[t] = "off"
      BY DEF Init
    <2>4. Len(<<>>) = 0
      OBVIOUS
    <2>5. ASSUME NEW t \in Conns PROVE FramedOn(t)
      <3>1. \A y \in Conns : pc[y] # "payload"
        BY <2>3
      <3>2. Len(wire[t]) = 0
        BY <2>3, <2>4
      <3> QED BY <2>3, <3>1, <3>2 DEF FramedOn
    <2>6. KicksReturn
      BY <2>3, <2>4 DEF KicksReturn, KickReturns
    <2> QED BY <2>1, <2>2, <2>5, <2>6 DEF Framed
  <1>2. I /\ [Next]_vars => I'
    <2> SUFFICES ASSUME I, [Next]_vars PROVE I'
      OBVIOUS
    <2>1. NetInv' /\ WInv
      BY NetInvStep DEF NetInv
    <2>2. CASE UNCHANGED vars
      <3>1. UNCHANGED <<pc, sends, connMap, msg, conn, client, wire, half>>
        BY <2>2 DEF vars, lockVars, handlerVars, clientVars
      <3>2. Resting' /\ KicksReturn'
        BY <3>1 DEF Resting, Rests, KicksReturn, KickReturns
      <3>3. Framed'
        BY <3>1, FramedAside
      <3> QED BY <2>1, <3>2, <3>3
    <2>3. ASSUME NEW k \in Conns, Reads(k) \/ HangUp(k)
          PROVE  I'
      <3>1. UNCHANGED <<pc, sends, connMap>>
        BY <2>3 DEF Reads, ReadLength, ReadMessage, ReadUnexpected, ReadTorn, HangUp, Leave,
           lockVars, handlerVars
      <3>2. Resting' /\ KicksReturn'
        BY <3>1 DEF Resting, Rests, KicksReturn, KickReturns
      <3> QED BY <2>1, <2>3, <3>2, ClientFramed
    <2>4. ASSUME NEW k \in Conns, Login(k) \/ Handler(k) \/ \E kind \in Kinds : Request(k, kind)
          PROVE  I'
      BY <2>1, <2>4, HandlerRests, HandlerFramed, HandlerKicks
    <2> QED BY <2>2, <2>3, <2>4 DEF Next
  <1>3. I => NoDeadlock
    BY SomebodyGoesOn
  <1> QED BY <1>1, <1>2, <1>3, PTL DEF Spec
=============================================================================
