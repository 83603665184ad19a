---------------------------- MODULE JitterProofs ----------------------------
(***************************************************************************)
(* Theorems about JitterBuffer, for buffers, delays and numbers of any     *)
(* size and any behaviour of the network.                                  *)
(***************************************************************************)
EXTENDS JitterBuffer, FiniteSetTheorems, TLAPS

\* A held frame carries the number its packet was sent under.
Numbered == \A q \in DOMAIN frames : q = SeqOf(frames[q])

\* The next number belongs to the packet that is due, one lap or none ahead.
DueNumbered == ready => due \in 1 .. MaxPackets + 1 /\ nextSeq = SeqOf(due)

\* The packet to be played now is held until it is.
AwaitedHeld ==
  awaited # Nothing =>
    /\ pc = "play" /\ ready /\ awaited \in DOMAIN frames
    /\ awaited = nextSeq

JInv == JitterTypeOK /\ FramesBounded /\ Numbered /\ DueNumbered /\ AwaitedHeld

\* As far as packets are counted and looked ahead
Counted == 1 .. MaxPackets + 1 + maxJitterDelay

-----------------------------------------------------------------------------
LEMMA ModUpToTwice ==
  ASSUME NEW M \in Nat, M > 0, NEW x \in Nat, x < 2 * M
  PROVE  x % M = (IF x < M THEN x ELSE x - M)
PROOF
  <1>1. CASE x < M
    BY <1>1, SMT
  <1>2. CASE M <= x
    BY <1>2, SMT
  <1> QED BY <1>1, <1>2

LEMMA Sizes ==
  /\ SeqMod \in Nat /\ SeqMod > 0
  /\ maxJitterDelay \in Nat /\ MaxPackets \in Nat /\ MaxFrames \in Nat
  /\ MaxPackets + maxJitterDelay < SeqMod
BY JitterAssumption DEF MaxFrames

\* The wire number of a packet, without modulus.
LEMMA SeqOfWraps ==
  ASSUME first \in SeqNums, NEW n \in Counted
  PROVE  /\ SeqOf(n) \in SeqNums
         /\ SeqOf(n) = IF first + n - 1 < SeqMod THEN first + n - 1
                       ELSE first + n - 1 - SeqMod
PROOF
  <1> DEFINE x == first + n - 1
  <1>1. x \in Nat /\ x < 2 * SeqMod
    BY Sizes DEF SeqNums, Counted
  <1> HIDE DEF x
  <1>2. x % SeqMod = IF x < SeqMod THEN x ELSE x - SeqMod
    BY <1>1, Sizes, ModUpToTwice
  <1>3. x % SeqMod \in SeqNums
    BY <1>1, <1>2, Sizes DEF SeqNums
  <1>4. SeqOf(n) = x % SeqMod
    BY DEF SeqOf, x
  <1>5. CASE x < SeqMod
    <2>1. SeqOf(n) = x /\ x \in SeqNums
      BY <1>1, <1>2, <1>3, <1>4, <1>5
    <2> QED BY <1>1, <1>5, <2>1, Sizes DEF x
  <1>6. CASE ~ (x < SeqMod)
    <2>1. SeqOf(n) = x - SeqMod /\ x - SeqMod \in SeqNums
      BY <1>1, <1>2, <1>3, <1>4, <1>6
    <2> QED BY <1>1, <1>6, <2>1, Sizes DEF x, SeqNums, Counted
  <1> QED BY <1>5, <1>6

\* Within a lap a wire number stands for one packet.
LEMMA SeqOfInjective ==
  ASSUME first \in SeqNums, NEW m \in Counted, NEW n \in Counted, SeqOf(m) = SeqOf(n)
  PROVE  m = n
PROOF
  <1>1. m - n < SeqMod /\ n - m < SeqMod
    BY Sizes DEF Counted
  <1>2. first \in Int /\ m \in Int /\ n \in Int /\ SeqMod \in Int
    BY Sizes DEF SeqNums, Counted
  <1> QED BY <1>1, <1>2, SeqOfWraps

\* Counting on from a packet's number gives the later packet's number.
LEMMA LaterSeqOf ==
  ASSUME first \in SeqNums, NEW n \in Counted, NEW i \in Nat, n + i \in Counted
  PROVE  Later(SeqOf(n), i) = SeqOf(n + i)
PROOF
  <1> DEFINE y == SeqOf(n) + i
  <1>1. first \in Nat /\ n \in Nat /\ SeqMod \in Nat /\ SeqMod > 0
    BY Sizes DEF SeqNums, Counted
  <1>2. CASE first + n - 1 < SeqMod
    <2>1. y = first + (n + i) - 1
      BY <1>1, <1>2, SeqOfWraps
    <2> QED BY <2>1 DEF Later, SeqOf
  <1>3. CASE ~ (first + n - 1 < SeqMod)
    <2>1. y = first + (n + i) - 1 - SeqMod
      BY <1>1, <1>3, SeqOfWraps
    <2>2. y \in Nat /\ y < SeqMod
      BY <1>1, <1>3, <2>1, Sizes DEF SeqNums, Counted
    <2>3. ~ (first + (n + i) - 1 < SeqMod)
      BY <1>1, <1>3
    <2>4. SeqOf(n + i) = y
      BY <2>1, <2>3, SeqOfWraps
    <2>5. y < 2 * SeqMod
      BY <1>1, <2>2
    <2> HIDE DEF y
    <2>6. y % SeqMod = y
      BY <1>1, <2>2, <2>5, ModUpToTwice
    <2> QED BY <2>4, <2>6 DEF Later, y
  <1> QED BY <1>2, <1>3

LEMMA FramesFinite ==
  ASSUME NEW S, S \subseteq SeqNums
  PROVE  IsFiniteSet(S)
PROOF
  <1>1. IsFiniteSet(SeqNums)
    BY Sizes, FS_Interval DEF SeqNums
  <1> QED BY <1>1, FS_Subset

\* What cleanup leaves lies within MaxFrames of the next number on either side.
LEMMA CleanupBounds ==
  ASSUME NEW fs, NEW next \in SeqNums, DOMAIN fs \subseteq SeqNums
  PROVE  Cardinality(DOMAIN cleanup(fs, next)) <= 2 * MaxFrames + 1
PROOF
  <1> DEFINE near == (next - MaxFrames) .. (next + MaxFrames)
  <1>1. next \in Int /\ MaxFrames \in Nat
    BY Sizes DEF SeqNums
  <1>2. IsFiniteSet(near) /\ Cardinality(near) = 2 * MaxFrames + 1
    BY <1>1, FS_Interval
  <1>3. DOMAIN cleanup(fs, next) \subseteq near
    BY <1>1, Sizes DEF cleanup, seqDiff, SeqNums
  <1> QED BY <1>2, <1>3, FS_Subset

-----------------------------------------------------------------------------
\* A received packet: the one step that can fill the buffer.
LEMMA ReceiveKeeps ==
  ASSUME JInv, NEW n \in Packets, Receive(n)
  PROVE  JInv'
PROOF
  <1> DEFINE q == SeqOf(n)
             all == Put(frames, q, n)
  <1>1. first \in SeqNums /\ n \in Counted /\ first' = first
    BY Sizes DEF JInv, JitterTypeOK, Receive, Packets, Counted
  <1>2. q \in SeqNums
    BY <1>1, SeqOfWraps
  <1>3. nextSeq' \in SeqNums /\ ready' = TRUE /\ pc' = "play"
    BY <1>2 DEF JInv, JitterTypeOK, Receive, Push
  <1>4. IsMap(all, SeqNums, Packets) /\ all[q] = n /\ q \in DOMAIN all
    BY <1>2 DEF JInv, JitterTypeOK, IsMap, Put
  <1>5. \A r \in DOMAIN all : r = SeqOf(all[r])
    BY <1>2 DEF JInv, Numbered, Put
  <1>6. frames' = IF Cardinality(DOMAIN all) > MaxFrames
                  THEN cleanup(all, nextSeq') ELSE all
    BY DEF Receive, Push
  <1> HIDE DEF all
  <1>7. /\ DOMAIN frames' \subseteq DOMAIN all
        /\ \A r \in DOMAIN frames' : frames'[r] = all[r]
        /\ frames' \in [DOMAIN frames' -> Packets]
    <2>1. CASE frames' = all
      BY <2>1, <1>4 DEF IsMap
    <2>2. CASE frames' = cleanup(all, nextSeq')
      BY <2>2, <1>4 DEF IsMap, cleanup
    <2> QED BY <1>6, <2>1, <2>2
  <1>8. JitterTypeOK'
    <2>1. due' \in Nat
      BY Sizes DEF JInv, JitterTypeOK, Receive, Packets
    <2>2. awaited' \in SeqNums \cup {Nothing}
      BY <1>2 DEF Receive
    <2> QED BY <1>1, <1>3, <1>4, <1>7, <2>1, <2>2 DEF JitterTypeOK, IsMap
  <1>9. FramesBounded'
    <2>1. CASE Cardinality(DOMAIN all) > MaxFrames
      BY <1>3, <1>4, <1>6, <2>1, CleanupBounds DEF IsMap, FramesBounded
    <2>2. CASE ~ (Cardinality(DOMAIN all) > MaxFrames)
      <3>1. IsFiniteSet(DOMAIN all)
        BY <1>4, FramesFinite DEF IsMap
      <3>2. Cardinality(DOMAIN all) \in Nat
        BY <3>1, FS_CardinalityType
      <3> QED BY <1>6, <2>2, <3>2, Sizes DEF FramesBounded
    <2> QED BY <2>1, <2>2
  <1>10. Numbered'
    BY <1>1, <1>5, <1>7 DEF Numbered, SeqOf
  <1>11. DueNumbered'
    <2>1. CASE ready
      BY <1>1, <2>1 DEF JInv, DueNumbered, Receive, Push, SeqOf
    <2>2. CASE ~ ready
      <3>1. due' = n /\ nextSeq' = q
        BY <2>2 DEF Receive, Push
      <3> QED BY <1>1, <3>1, Sizes DEF DueNumbered, Packets, SeqOf
    <2> QED BY <2>1, <2>2
  <1>12. AwaitedHeld'
    <2> SUFFICES ASSUME awaited' # Nothing
                 PROVE  q \in DOMAIN frames' /\ awaited' = q /\ q = nextSeq'
      BY <1>3 DEF AwaitedHeld
    <2>1. awaited' = q /\ q = nextSeq'
      BY DEF Receive
    <2>2. seqDiff(q, nextSeq') <= MaxFrames
      <3>1. \A r \in SeqNums : seqDiff(r, r) <= MaxFrames
        BY Sizes DEF seqDiff, SeqNums
      <3> QED BY <1>3, <2>1, <3>1
    <2>3. q \in DOMAIN frames'
      BY <1>4, <1>6, <2>2 DEF cleanup
    <2> QED BY <2>1, <2>3
  <1> QED BY <1>8, <1>9, <1>10, <1>11, <1>12 DEF JInv

\* Taking frames out disturbs neither their numbers nor the bound.
LEMMA FewerFrames ==
  ASSUME JitterTypeOK, FramesBounded, NEW q
  PROVE  /\ IsMap(Drop(frames, q), SeqNums, Packets)
         /\ Cardinality(DOMAIN Drop(frames, q)) <= 2 * MaxFrames + 1
PROOF
  <1>1. IsMap(Drop(frames, q), SeqNums, Packets)
    BY DEF JitterTypeOK, IsMap, Drop
  <1>2. IsFiniteSet(DOMAIN frames)
    BY FramesFinite DEF JitterTypeOK, IsMap
  <1>3. DOMAIN Drop(frames, q) \in SUBSET DOMAIN frames
    BY DEF Drop
  <1>4. /\ Cardinality(DOMAIN Drop(frames, q)) <= Cardinality(DOMAIN frames)
        /\ IsFiniteSet(DOMAIN Drop(frames, q))
    BY <1>2, <1>3, FS_Subset
  <1>5. Cardinality(DOMAIN frames) \in Nat /\ Cardinality(DOMAIN Drop(frames, q)) \in Nat
    BY <1>2, <1>4, FS_CardinalityType
  <1> QED BY <1>1, <1>4, <1>5, Sizes DEF FramesBounded

\* The next number moves on with the packet that is due.
LEMMA NextMovesOn ==
  ASSUME JInv, ready, due \in Packets
  PROVE  /\ Later(nextSeq, 1) \in SeqNums
         /\ due + 1 \in 1 .. MaxPackets + 1
         /\ Later(nextSeq, 1) = SeqOf(due + 1)
PROOF
  <1>1. first \in SeqNums /\ nextSeq = SeqOf(due)
    BY DEF JInv, JitterTypeOK, DueNumbered
  <1>2. due \in Counted /\ due + 1 \in Counted /\ due + 1 \in 1 .. MaxPackets + 1
    BY Sizes DEF Packets, Counted
  <1>3. Later(nextSeq, 1) = SeqOf(due + 1)
    BY <1>1, <1>2, LaterSeqOf
  <1> QED BY <1>1, <1>2, <1>3, SeqOfWraps

\* The frame under the next number is the packet that is due.
LEMMA NextIsDue ==
  ASSUME JInv, ready, nextSeq \in DOMAIN frames
  PROVE  frames[nextSeq] = due /\ due \in Packets
PROOF
  <1>1. frames[nextSeq] \in Packets /\ first \in SeqNums
    BY DEF JInv, JitterTypeOK, IsMap
  <1>2. SeqOf(frames[nextSeq]) = SeqOf(due) /\ due \in 1 .. MaxPackets + 1
    BY DEF JInv, Numbered, DueNumbered
  <1>3. frames[nextSeq] \in Counted /\ due \in Counted
    BY <1>1, <1>2, Sizes DEF Packets, Counted
  <1> QED BY <1>1, <1>2, <1>3, SeqOfInjective

\* A frame in reach is a packet after the one due, so the one due was sent.
LEMMA LostWasSent ==
  ASSUME JInv, NextIsLost
  PROVE  due \in Packets
PROOF
  <1>1. PICK i \in 1 .. maxJitterDelay : Later(nextSeq, i) \in DOMAIN frames
    BY DEF NextIsLost
  <1> DEFINE m == frames[Later(nextSeq, i)]
  <1>2. m \in Packets /\ Later(nextSeq, i) = SeqOf(m) /\ first \in SeqNums
    BY <1>1 DEF JInv, JitterTypeOK, IsMap, Numbered
  <1>3. due \in 1 .. MaxPackets + 1 /\ nextSeq = SeqOf(due)
    BY DEF JInv, DueNumbered, NextIsLost
  <1>4. m \in Counted /\ due \in Counted /\ due + i \in Counted /\ i \in Nat
    BY <1>1, <1>2, <1>3, Sizes DEF Packets, Counted
  <1>5. Later(nextSeq, i) = SeqOf(due + i)
    BY <1>2, <1>3, <1>4, LaterSeqOf
  <1> HIDE DEF m
  <1>6. m = due + i
    BY <1>2, <1>4, <1>5, SeqOfInjective
  <1> QED BY <1>1, <1>2, <1>3, <1>6, Sizes DEF Packets

LEMMA PlayFrameKeeps ==
  ASSUME JInv, PlayFrame
  PROVE  JInv'
PROOF
  <1>1. ready /\ nextSeq \in DOMAIN frames /\ frames' = Drop(frames, nextSeq)
    BY DEF PlayFrame, PopFrame
  <1>2. ready' = ready /\ first' = first /\ pc' = "play" /\ due' = due + 1
    BY DEF PlayFrame, PopFrame
  <1>3. due \in Packets
    BY <1>1, NextIsDue
  <1>4. nextSeq' = Later(nextSeq, 1)
    BY DEF PlayFrame, PopFrame
  <1>5. JitterTypeOK' /\ FramesBounded'
    <2>1. awaited' \in SeqNums \cup {Nothing}
      BY DEF JInv, JitterTypeOK, PlayFrame
    <2>2. due' \in Nat
      BY <1>2 DEF JInv, JitterTypeOK
    <2> QED BY <1>1, <1>2, <1>3, <1>4, <2>1, <2>2, FewerFrames, NextMovesOn
            DEF JInv, JitterTypeOK, FramesBounded
  <1>6. Numbered'
    BY <1>1, <1>2 DEF JInv, Numbered, Drop, SeqOf
  <1>7. DueNumbered'
    BY <1>1, <1>2, <1>3, <1>4, NextMovesOn DEF DueNumbered, SeqOf
  <1>8. AwaitedHeld'
    BY <1>2 DEF JInv, AwaitedHeld, PlayFrame
  <1> QED BY <1>5, <1>6, <1>7, <1>8 DEF JInv

LEMMA PlayLostKeeps ==
  ASSUME JInv, PlayLost
  PROVE  JInv'
PROOF
  <1>1. NextIsLost /\ frames' = frames /\ ready /\ nextSeq \notin DOMAIN frames
    BY DEF PlayLost, PopLost, NextIsLost
  <1>2. /\ ready' = ready /\ first' = first /\ pc' = "play" /\ pc = "play"
        /\ due' = due + 1 /\ awaited' = awaited
    BY DEF PlayLost, PopLost
  <1>3. due \in Packets
    BY <1>1, LostWasSent
  <1>4. nextSeq' = Later(nextSeq, 1)
    BY DEF PlayLost, PopLost
  <1>5. JitterTypeOK' /\ FramesBounded'
    BY <1>1, <1>2, <1>3, <1>4, NextMovesOn DEF JInv, JitterTypeOK, FramesBounded
  <1>6. Numbered'
    BY <1>1, <1>2 DEF JInv, Numbered, SeqOf
  <1>7. DueNumbered'
    BY <1>1, <1>2, <1>3, <1>4, NextMovesOn DEF DueNumbered, SeqOf
  <1>8. AwaitedHeld'
    BY <1>1, <1>2 DEF JInv, AwaitedHeld
  <1> QED BY <1>5, <1>6, <1>7, <1>8 DEF JInv

LEMMA DrainedKeeps ==
  ASSUME JInv, Drained
  PROVE  JInv'
PROOF
  <1>1. UNCHANGED <<frames, nextSeq, ready, first, due, awaited>> /\ pc' = "wait"
    BY DEF Drained, PopNothing
  <1>2. awaited = Nothing
    BY DEF JInv, AwaitedHeld, Drained, PopNothing
  <1> QED BY <1>1, <1>2
          DEF JInv, JitterTypeOK, FramesBounded, Numbered, DueNumbered, AwaitedHeld, SeqOf

LEMMA ForgetKeeps ==
  ASSUME JInv, Forget
  PROVE  JInv'
PROOF
  <1>1. /\ frames' = <<>> /\ ready' = FALSE
        /\ UNCHANGED <<nextSeq, pc, first, due, awaited>> /\ pc = "wait"
    BY DEF Forget, Reset
  <1>2. IsMap(<<>>, SeqNums, Packets) /\ DOMAIN <<>> = {}
    BY DEF IsMap
  <1>3. Cardinality({}) = 0
    BY FS_EmptySet
  <1>4. JitterTypeOK'
    BY <1>1, <1>2 DEF JInv, JitterTypeOK
  <1>5. FramesBounded'
    <2>1. Cardinality(DOMAIN frames') = 0
      BY <1>1, <1>2, <1>3
    <2> QED BY <2>1, Sizes DEF FramesBounded
  <1>6. Numbered' /\ DueNumbered'
    BY <1>1, <1>2 DEF Numbered, DueNumbered
  <1>7. AwaitedHeld'
    BY <1>1 DEF JInv, AwaitedHeld
  <1> QED BY <1>4, <1>5, <1>6, <1>7 DEF JInv

LEMMA StartsRight == NewJitterBuffer => JInv
PROOF
  <1> SUFFICES ASSUME NewJitterBuffer PROVE JInv
    OBVIOUS
  <1>1. IsMap(<<>>, SeqNums, Packets) /\ DOMAIN <<>> = {}
    BY DEF IsMap
  <1>2. Cardinality({}) = 0
    BY FS_EmptySet
  <1>3. JitterTypeOK
    <2>1. first \in SeqNums /\ nextSeq \in SeqNums
      BY JitterAssumption, Sizes DEF NewJitterBuffer, SeqNums
    <2> QED BY <1>1, <2>1 DEF NewJitterBuffer, JitterTypeOK
  <1>4. FramesBounded
    BY <1>1, <1>2, Sizes DEF NewJitterBuffer, FramesBounded
  <1>5. Numbered /\ DueNumbered /\ AwaitedHeld
    BY <1>1 DEF NewJitterBuffer, Numbered, DueNumbered, AwaitedHeld
  <1> QED BY <1>3, <1>4, <1>5 DEF JInv

LEMMA JInvInvariant == Spec => []JInv
PROOF
  <1>1. JInv /\ [Next]_vars => JInv'
    <2> SUFFICES ASSUME JInv, [Next]_vars PROVE JInv'
      OBVIOUS
    <2>1. ASSUME NEW n \in Packets, Receive(n) PROVE JInv'
      BY <2>1, ReceiveKeeps
    <2>2. CASE PlayFrame
      BY <2>2, PlayFrameKeeps
    <2>3. CASE PlayLost
      BY <2>3, PlayLostKeeps
    <2>4. CASE Drained
      BY <2>4, DrainedKeeps
    <2>5. CASE Forget
      BY <2>5, ForgetKeeps
    <2>6. CASE UNCHANGED vars
      BY <2>6 DEF vars, JInv, JitterTypeOK, FramesBounded, Numbered, DueNumbered,
                  AwaitedHeld, SeqOf
    <2> QED BY <2>1, <2>2, <2>3, <2>4, <2>5, <2>6 DEF Next, Playing
  <1> QED BY <1>1, StartsRight, PTL DEF Spec

-----------------------------------------------------------------------------
(***************************************************************************)
(* The buffer stays within its types: nextSeq is a number of the wire,     *)
(* also after it wrapped.                                                  *)
(***************************************************************************)
THEOREM JitterTypes == Spec => []JitterTypeOK
BY JInvInvariant, PTL DEF JInv

(***************************************************************************)
(* Whatever arrives, the buffer of a speaker holds at most twice MaxFrames *)
(* frames and one: cleanup() does prevent memory growth.                   *)
(***************************************************************************)
THEOREM MemoryBounded == Spec => []FramesBounded
BY JInvInvariant, PTL DEF JInv

(***************************************************************************)
(* The decoder gets the packets in the order the speaker sent them, none   *)
(* twice and none in another's place.                                      *)
(***************************************************************************)
THEOREM PlaysInOrder == Spec => []PlaysWhatIsDue
PROOF
  <1>1. JInv => PlaysWhatIsDue
    BY NextIsDue DEF PlaysWhatIsDue
  <1> QED BY <1>1, JInvInvariant, PTL

(***************************************************************************)
(* The packet that is due is never turned away, left in the buffer or      *)
(* swept out of it: it is played at once, on whichever side of the wrap.   *)
(***************************************************************************)
THEOREM PlaysAtOnce == Spec => []DueIsHeard
PROOF
  <1>1. JInv => DueIsHeard
    BY DEF JInv, AwaitedHeld, DueIsHeard
  <1> QED BY <1>1, JInvInvariant, PTL
=============================================================================
