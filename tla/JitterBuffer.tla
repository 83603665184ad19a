---------------------------- MODULE JitterBuffer ----------------------------
(***************************************************************************)
(* pkg/client/jitter.go and the loop in processIncomingVoice that drives   *)
(* it: the packets of one speaker as they come in from UDP, in any order,  *)
(* some never and some twice, on their way to the decoder.                 *)
(*                                                                         *)
(* Packets are counted 1, 2, ... in the order the speaker sent them; on    *)
(* the wire a packet carries that count modulo SeqMod.                     *)
(***************************************************************************)
EXTENDS Integers, FiniteSets, Maps

CONSTANTS
  SeqMod,           \* 2^32
  jitterBufSize,    \* 5
  maxJitterDelay,   \* 10
  MaxPackets,       \* bound on the packets the speaker sends
  FirstSeqs         \* the wire numbers the first of them may carry

MaxFrames == jitterBufSize * 3

\* 994 days of speech lie between two packets with one number
ASSUME JitterAssumption ==
  /\ {SeqMod, jitterBufSize, maxJitterDelay, MaxPackets} \subseteq Nat
  /\ MaxPackets + maxJitterDelay < SeqMod
  /\ FirstSeqs \subseteq 0 .. SeqMod - 1

VARIABLES
  frames,     \* wire number -> the packet held under it
  nextSeq,    \* the wire number to be played next
  ready,      \* has a packet come in yet?
  pc,         \* processIncomingVoice: "wait" for a packet, or "play" what can be played
  first,      \* the wire number of packet 1
  due,        \* history: the packet that nextSeq stands for
  awaited     \* history: the wire number just received, if it is the one to be played

vars == <<frames, nextSeq, ready, pc, first, due, awaited>>

SeqNums == 0 .. SeqMod - 1
Packets == 1 .. MaxPackets
Nothing == -1

SeqOf(n) == (first + n - 1) % SeqMod
Later(q, i) == (q + i) % SeqMod

-----------------------------------------------------------------------------
\* seqDiff: |a - b|, also when the numbers wrap between a and b
seqDiff(a, b) == IF a >= b THEN a - b ELSE b - a

cleanup(fs, next) ==
  [q \in {x \in DOMAIN fs : seqDiff(x, next) <= MaxFrames} |-> fs[q]]

\* A Push that turns a packet away when the buffer is full.
PushWhenFree(q, data) ==
  /\ nextSeq' = IF ready THEN nextSeq ELSE q
  /\ ready' = TRUE
  /\ frames' = IF Cardinality(DOMAIN frames) < MaxFrames THEN Put(frames, q, data) ELSE frames

\* A Push that never cleans up.
PushUnlimited(q, data) ==
  /\ nextSeq' = IF ready THEN nextSeq ELSE q
  /\ ready' = TRUE
  /\ frames' = Put(frames, q, data)

\* A Push that goes back to play a late packet.
PushRewinds(q, data) ==
  /\ nextSeq' = IF ready /\ q >= nextSeq THEN nextSeq ELSE q
  /\ ready' = TRUE
  /\ LET all == Put(frames, q, data) IN
       frames' = IF Cardinality(DOMAIN all) > MaxFrames
                 THEN cleanup(all, nextSeq') ELSE all

Push(q, data) ==
  /\ nextSeq' = IF ready THEN nextSeq ELSE q
  /\ ready' = TRUE
  /\ LET all == Put(frames, q, data) IN
       frames' = IF Cardinality(DOMAIN all) > MaxFrames
                 THEN cleanup(all, nextSeq') ELSE all

\* The next frame is there: Pop hands it out.
PopFrame ==
  /\ ready /\ nextSeq \in DOMAIN frames
  /\ frames' = Drop(frames, nextSeq)
  /\ nextSeq' = Later(nextSeq, 1)
  /\ UNCHANGED ready

\* The next frame is missing and a later one is in reach
NextIsLost ==
  /\ ready /\ nextSeq \notin DOMAIN frames
  /\ \E i \in 1 .. maxJitterDelay : Later(nextSeq, i) \in DOMAIN frames

\* Pop gives up the next frame: the decoder conceals the loss.
PopLost == NextIsLost /\ nextSeq' = Later(nextSeq, 1) /\ UNCHANGED <<frames, ready>>

\* Nothing to play yet.
PopNothing ==
  /\ ~ (ready /\ nextSeq \in DOMAIN frames)
  /\ ~ NextIsLost
  /\ UNCHANGED <<frames, nextSeq, ready>>

Reset == frames' = <<>> /\ ready' = FALSE /\ UNCHANGED nextSeq

-----------------------------------------------------------------------------
\* A new buffer; the listener may come in at any point of the speaker's count
NewJitterBuffer ==
  /\ frames = <<>> /\ nextSeq = 0 /\ ready = FALSE
  /\ pc = "wait" /\ first \in FirstSeqs /\ due = 0 /\ awaited = Nothing

\* The network brings packet n: any packet, in any order, any number of times
Receive(n) ==
  LET q == SeqOf(n) IN
  /\ pc = "wait" /\ pc' = "play"
  /\ Push(q, n)
  /\ due' = IF ready THEN due ELSE n
  /\ awaited' = IF q = nextSeq' THEN q ELSE Nothing
  /\ UNCHANGED first

PlayFrame ==
  /\ pc = "play" /\ PopFrame
  /\ due' = due + 1
  /\ awaited' = IF awaited = nextSeq THEN Nothing ELSE awaited
  /\ UNCHANGED <<pc, first>>

\* A loss is reported and the lost frame still expected.
PlayLostAgain == pc = "play" /\ NextIsLost /\ UNCHANGED vars

PlayLost ==
  /\ pc = "play" /\ PopLost
  /\ due' = due + 1
  /\ UNCHANGED <<pc, first, awaited>>

Drained ==
  /\ pc = "play" /\ pc' = "wait" /\ PopNothing
  /\ UNCHANGED <<first, due, awaited>>

\* The buffer is emptied or, after a reconnect, replaced by a new one
Forget == pc = "wait" /\ Reset /\ UNCHANGED <<pc, first, due, awaited>>

Playing == PlayFrame \/ PlayLost \/ Drained

Next == (\E n \in Packets : Receive(n)) \/ Playing \/ Forget

Spec == NewJitterBuffer /\ [][Next]_vars

\* The playback loop runs on until it has nothing to play
FairSpec == Spec /\ WF_vars(Playing)

-----------------------------------------------------------------------------
JitterTypeOK ==
  /\ IsMap(frames, SeqNums, Packets)
  /\ nextSeq \in SeqNums
  /\ ready \in BOOLEAN
  /\ pc \in {"wait", "play"}
  /\ first \in SeqNums
  /\ due \in Nat
  /\ awaited \in SeqNums \cup {Nothing}

(***************************************************************************)
(* "Limit buffer size to prevent memory growth": late packets are never    *)
(* played and stay behind, packets after a long gap wait in front, and yet *)
(* the buffer never holds more than cleanup() leaves on both sides.        *)
(***************************************************************************)
FramesBounded == Cardinality(DOMAIN frames) <= 2 * MaxFrames + 1

(***************************************************************************)
(* What is played is what is due: the frame found under the next number is *)
(* the packet the speaker sent at that place, so packets are played in the *)
(* order of sending and none twice, whatever the network repeats or delays *)
(* and although the numbers wrap.                                          *)
(***************************************************************************)
PlaysWhatIsDue ==
  ready /\ nextSeq \in DOMAIN frames => frames[nextSeq] = due

(***************************************************************************)
(* A packet that has nothing missing before it is played before the loop   *)
(* waits for the next one: however full the buffer is of late frames and   *)
(* of frames far ahead, on whichever side of the wrap, Push has room for   *)
(* it and cleanup() does not sweep it out.  (Nothing is claimed of one     *)
(* that another one in reach has overtaken: Pop gives it up at once.)      *)
(***************************************************************************)
DueIsHeard == pc = "wait" => awaited = Nothing

\* The loop `for { ... jb.Pop() ... }` ends after every packet and the client
\* listens again.
LoopEnds == pc = "play" ~> pc = "wait"

(***************************************************************************)
(* jitter.go:9 calls maxJitterDelay the "max frames to wait before         *)
(* considering packet lost".  (Not so: Pop looks maxJitterDelay numbers    *)
(* ahead; if more than that are missing it returns nothing however many    *)
(* frames wait, and since nextSeq never moves the speaker stays silent.)   *)
(***************************************************************************)
WaitsNoLonger ==
  pc = "wait" /\ ready =>
    Cardinality({q \in DOMAIN frames : frames[q] > due}) <= maxJitterDelay
=============================================================================
