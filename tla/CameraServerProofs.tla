------------------------- MODULE CameraServerProofs -------------------------
(* Theorems about CameraServer, for any set of cameras, route and number of  *)
(* buffers.                                                                  *)
EXTENDS CameraServer, TLAPS, FiniteSetTheorems, SequenceTheorems, WellFoundedInduction

-----------------------------------------------------------------------------
(* Lemmas on numbers and frame ids.                                         *)

\* A non-empty set of naturals has a least element, which Min returns.
LEMMA LeastIsMember ==
    ASSUME NEW S, S \subseteq Nat, S # {}
    PROVE  Min(S) \in S
<1>1. PICK x \in S : \A y \in S : <<y, x>> \notin OpToRel(<, Nat)
  BY NatLessThanWellFounded, WFMin, Zenon
<1>2. ASSUME NEW y \in S, y < x PROVE FALSE
  <2>1. y \in Nat /\ x \in Nat BY <1>1
  <2>2. <<y, x>> \in OpToRel(<, Nat) BY <1>2, <2>1, Zenon DEF OpToRel
  <2> QED BY <1>1, <2>2
<1>3. \A y \in S : x =< y
  <2>1. x \in Nat /\ \A y \in S : y \in Nat BY <1>1
  <2> QED BY <1>2, <2>1
<1> QED BY <1>3 DEF Min

\* Every frame lies in a segment of the route.
LEMMA SegOfFrame == \A n \in Frames : SegOf(n) \in 0..(Segments - 1)
<1> SUFFICES ASSUME NEW n \in Frames PROVE SegOf(n) \in 0..(Segments - 1)
  OBVIOUS
<1> DEFINE d == n \div PerSegment
           r == n % PerSegment
<1>1. Segments \in Nat \ {0} /\ PerSegment \in Nat \ {0}
  BY CountsAssumption
<1>2. Segments * PerSegment \in Nat
  BY <1>1
<1>3. n \in Nat /\ n < Segments * PerSegment
  BY <1>2, IdAssumption DEF Frames
<1>4. d \in Nat /\ r \in 0..(PerSegment - 1) /\ n = PerSegment * d + r
  BY <1>1, <1>3
<1> HIDE DEF d, r
<1>5. d < Segments
  <2> SUFFICES ASSUME d >= Segments PROVE FALSE
    BY <1>1, <1>4
  <2>1. PICK k \in Nat : d = Segments + k
    <3>1. d - Segments \in Nat BY <1>1, <1>4
    <3> QED BY <3>1, <1>1, <1>4
  <2>2. PerSegment * d = PerSegment * Segments + PerSegment * k
    BY <2>1, <1>1
  <2>3. PerSegment * k \in Nat /\ PerSegment * Segments = Segments * PerSegment
    BY <2>1, <1>1
  <2> QED BY <2>2, <2>3, <1>2, <1>3, <1>4
<1> QED BY <1>1, <1>4, <1>5 DEF SegOf, d

\* Ids tell frames apart, and the id after one can only be of the next frame.
LEMMA IdsApart ==
    ASSUME NEW m \in Frames, NEW n \in Frames
    PROVE  /\ Id[m] = Id[n] => m = n
           /\ Id[m] = Id[n] + 1 => m = n + 1
<1>1. Segments * PerSegment \in Nat
  BY CountsAssumption
<1>2. /\ Frames \subseteq Nat
      /\ \A k, l \in Frames : k < l => Id[k] < Id[l]
      /\ \A k \in Frames : Id[k] \in Nat
      /\ \A k, l \in Frames : k < l => k + 1 \in Frames
  BY <1>1, IdAssumption DEF Frames
<1>3. m \in Nat /\ n \in Nat /\ Id[m] \in Nat /\ Id[n] \in Nat
  BY <1>2
<1>4. ASSUME Id[m] = Id[n] PROVE m = n
  <2>1. ~(m < n) /\ ~(n < m) BY <1>2, <1>3, <1>4
  <2> QED BY <2>1, <1>3
<1>5. ASSUME Id[m] = Id[n] + 1 PROVE m = n + 1
  <2>1. n < m
    <3>1. ~(m < n) BY <1>2, <1>3, <1>5
    <3>2. m # n BY <1>3, <1>5
    <3> QED BY <3>1, <3>2, <1>3
  <2>2. n + 1 \in Frames /\ Id[n] < Id[n + 1] /\ Id[n + 1] \in Nat
    <3>1. n + 1 \in Frames BY <1>2, <2>1
    <3>2. n < n + 1 BY <1>3
    <3> QED BY <3>1, <3>2, <1>2
  <2>3. ~(n + 1 < m) BY <1>2, <1>3, <1>5, <2>2
  <2> QED BY <2>1, <2>3, <1>3
<1> QED BY <1>4, <1>5

-----------------------------------------------------------------------------
(* Type correctness.                                                        *)

\* The calls of pushFrame are about a camera and a frame; the empty item is
\* alone in its queue, and only while the destructor waits for its thread; a
\* thread that is busy has a frame.
ShapeInv ==
    /\ TypeOK
    /\ cpc \in {"wait", "push", "restart", "count", "queue"} => item \in Cameras \X Frames
    /\ cpc = "join" => item[1] \in Cameras
    /\ \A c \in Cameras :
          /\ queue[c] = <<Poison>> \/ queue[c] \in Seq(Frames)
          /\ queue[c] = <<Poison>> => cpc = "join" /\ item[1] = c /\ c \in Joinable
          /\ c \in Busy => frame[c] \in Frames

LEMMA FramesAreNats == Frames \subseteq Nat /\ Poison \notin Frames /\ None \notin Frames
<1>1. Segments * PerSegment \in Nat
  BY CountsAssumption
<1> QED BY <1>1, IdAssumption DEF Frames, Poison, None

LEMMA PoisonIsNoFrame == \A s \in Seq(Frames) : s # <<Poison>>
<1> SUFFICES ASSUME NEW s \in Seq(Frames), s = <<Poison>> PROVE FALSE
  OBVIOUS
<1>1. s[1] = Poison /\ 1 \in 1..Len(s) OBVIOUS
<1> QED BY <1>1, FramesAreNats, ElementOfSeq

LEMMA IdsAreNats == \A n \in Frames : Id[n] \in Nat /\ n \in Nat
BY FramesAreNats, IdAssumption DEF Frames

LEMMA ShapeInit == Init => ShapeInv
<1> SUFFICES ASSUME Init PROVE ShapeInv
  OBVIOUS
<1>1. \A c \in Cameras : Size[c][0] \in Nat
  BY SizeAssumption, CountsAssumption
<1>2. 0 \in 0..(Buffers - 1)
  BY CountsAssumption
<1>3. TypeOK
  BY <1>1, <1>2, BoundAssumption
     DEF Init, TypeOK, AllEmpty, Empty, None
<1> QED BY <1>3 DEF Init, ShapeInv, Busy

\* getFrame keeps the ring and the buffers in shape, whatever it returns.
LEMMA GetFrameTypes ==
    ASSUME TypeOK, NEW c \in Cameras, NEW id \in Nat, NEW n \in Nat, NEW ok \in BOOLEAN,
           GetFrame(c, id, n, ok)
    PROVE  /\ ring' \in [Cameras -> 0..(Buffers - 1)]
           /\ buf' \in [Cameras -> [0..(Buffers - 1) -> [id : Nat \union {None}, pic : Nat \union {None}]]]
           /\ cached' \in [Cameras -> SUBSET (Nat \X (0..(Buffers - 1)))]
<1>1. (ring[c] + 1) % Buffers \in 0..(Buffers - 1)
  BY CountsAssumption DEF TypeOK
<1>2. ring' \in [Cameras -> 0..(Buffers - 1)]
  BY <1>1 DEF GetFrame, Filled, TypeOK
<1> DEFINE Labels == [id : Nat \union {None}, pic : Nat \union {None}]
<1>3. buf' \in [Cameras -> [0..(Buffers - 1) -> Labels]]
  <2>1. [id |-> id, pic |-> n] \in Labels
    OBVIOUS
  <2>2. buf' = buf \/ buf' = [buf EXCEPT ![c][ring[c]] = [id |-> id, pic |-> n]]
    BY DEF GetFrame, Filled
  <2> HIDE DEF Labels
  <2>3. buf \in [Cameras -> [0..(Buffers - 1) -> Labels]] /\ ring[c] \in 0..(Buffers - 1)
    BY DEF TypeOK, Labels
  <2>4. CASE buf' = [buf EXCEPT ![c][ring[c]] = [id |-> id, pic |-> n]]
    <3>1. [buf[c] EXCEPT ![ring[c]] = [id |-> id, pic |-> n]] \in [0..(Buffers - 1) -> Labels]
      BY <2>1, <2>3
    <3> QED BY <2>3, <2>4, <3>1
  <2> QED BY <2>2, <2>3, <2>4
<1>4. cached' \in [Cameras -> SUBSET (Nat \X (0..(Buffers - 1)))]
  <2>1. <<gen, ring[c]>> \in Nat \X (0..(Buffers - 1))
    BY DEF TypeOK
  <2>2. cached' = cached \/ cached' = [cached EXCEPT ![c] = @ \union {<<gen, ring[c]>>}]
    BY DEF GetFrame, Filled
  <2> DEFINE Places == Nat \X (0..(Buffers - 1))
  <2>3. cached \in [Cameras -> SUBSET Places]
    BY DEF TypeOK
  <2> HIDE DEF Places
  <2>4. cached[c] \union {<<gen, ring[c]>>} \in SUBSET Places
    BY <2>1, <2>3 DEF Places
  <2>5. cached' \in [Cameras -> SUBSET Places]
    BY <2>2, <2>3, <2>4
  <2> QED BY <2>5 DEF Places
<1> QED BY <1>2, <1>3, <1>4

\* The first camera whose thread is still to be ended.
LEMMA FirstJoinable == Joinable # {} => Min(Joinable) \in Joinable
BY LeastIsMember, CamerasAssumption DEF Joinable

\* What the caller does, short of ending a thread, moves no frame of a thread.
LEMMA ShapeCaller ==
    ASSUME ShapeInv, publishing' \in Nat,
           CallerStep \/ CallerChoice
    PROVE  ShapeInv'
<1> USE DEF ShapeInv, Caller, callerVars, serverVars, Busy, Joinable, None, Poison
<1>1. ASSUME NEW c \in Cameras, NEW n \in Frames, PublishFrame(c, n) PROVE ShapeInv'
  <2>1. TypeOK' BY <1>1, BoundAssumption DEF TypeOK, PublishFrame
  <2> QED BY <1>1, <2>1 DEF PublishFrame
<1>2. CASE EndTurn \/ Destroy \/ WaitBeforePublish \/ CountFrame \/ Unlock \/ NextTurn
  <2>1. TypeOK' BY <1>2 DEF TypeOK, EndTurn, Destroy, WaitBeforePublish, CountFrame, Unlock, NextTurn
  <2> QED BY <1>2, <2>1 DEF EndTurn, Destroy, WaitBeforePublish, CountFrame, Unlock, NextTurn
<1>3. CASE PushFrame
  <2>1. Size[item[1]][SegOf(item[2])] \in Nat
    <3>1. item[1] \in Cameras /\ item[2] \in Frames BY <1>3 DEF PushFrame
    <3>2. SegOf(item[2]) \in 0..(Segments - 1) BY <3>1, SegOfFrame
    <3> QED BY <3>1, <3>2, SizeAssumption
  <2>2. TypeOK' BY <1>3, <2>1 DEF TypeOK, PushFrame
  <2> QED BY <1>3, <2>2 DEF PushFrame
<1>4. CASE Restart
  <2>1. 0 \in 0..(Buffers - 1) BY CountsAssumption
  <2>2. /\ ring' \in [Cameras -> 0..(Buffers - 1)]
        /\ buf' \in [Cameras -> [0..(Buffers - 1) -> [id : Nat \union {None}, pic : Nat \union {None}]]]
        /\ cached' \in [Cameras -> SUBSET (Nat \X (0..(Buffers - 1)))]
    BY <1>4, <2>1 DEF Restart, StartVipcServer, AllEmpty, Empty, ClearedCache
  <2>3. /\ thread' \in [Cameras -> {"none", "pop", "send", "prefetch", "count", "exited"}]
        /\ \A c \in Cameras : thread'[c] = thread[c] \/ (thread[c] = "none" /\ thread'[c] = "pop")
    BY <1>4 DEF Restart, StartVipcServer, TypeOK
  <2>4. TypeOK' BY <1>4, <2>2, <2>3 DEF TypeOK, Restart, StartVipcServer
  <2> QED BY <1>4, <2>3, <2>4 DEF Restart, StartVipcServer
<1>5. CASE QueueFrame
  <2>1. item[1] \in Cameras /\ item[2] \in Frames BY <1>5 DEF QueueFrame
  <2>2. queue[item[1]] \in Seq(Frames) BY <1>5, <2>1 DEF QueueFrame
  <2>3. /\ Append(queue[item[1]], item[2]) \in Seq(Frames)
        /\ Append(queue[item[1]], item[2]) \in Seq(Frames \union {Poison})
        /\ Append(queue[item[1]], item[2]) # <<Poison>>
    <3>1. Append(queue[item[1]], item[2]) \in Seq(Frames) BY <2>1, <2>2, AppendProperties
    <3> QED BY <3>1, PoisonIsNoFrame, SeqMonotonic
  <2>4. TypeOK' BY <1>5, <2>1, <2>3 DEF TypeOK, QueueFrame
  <2> QED BY <1>5, <2>1, <2>3, <2>4 DEF QueueFrame, TypeOK
<1>6. CASE EndThread
  <2> DEFINE m == Min(Joinable)
  <2>1. m \in Joinable BY <1>6, FirstJoinable DEF EndThread
  <2>2. m \in Cameras /\ thread[m] \notin {"none", "exited"} BY <2>1 DEF Joinable
  <2> HIDE DEF m, Joinable
  <2>3. queue' = [queue EXCEPT ![m] = <<Poison>>] /\ item' = <<m, None>>
    BY <1>6 DEF EndThread, m
  <2>4. <<Poison>> \in Seq(Frames \union {Poison}) OBVIOUS
  <2>5. TypeOK' BY <1>6, <2>2, <2>3, <2>4 DEF TypeOK, EndThread
  <2>6. cpc = "end" /\ cpc' = "join" /\ thread' = thread /\ frame' = frame
    BY <1>6 DEF EndThread
  <2>7. queue'[m] = <<Poison>> /\ item'[1] = m /\ \A c \in Cameras \ {m} : queue'[c] = queue[c]
    BY <2>2, <2>3 DEF TypeOK
  <2> QED BY <2>2, <2>5, <2>6, <2>7 DEF Joinable
<1>7. CASE JoinThread
  <2>1. TypeOK' BY <1>7 DEF TypeOK, JoinThread
  <2> QED BY <1>7, <2>1 DEF JoinThread
<1>8. CASE Destroyed
  <2>1. TypeOK' BY <1>8 DEF TypeOK, Destroyed
  <2> QED BY <1>8, <2>1 DEF Destroyed
<1> QED BY <1>1, <1>2, <1>3, <1>4, <1>5, <1>6, <1>7, <1>8 DEF CallerStep, CallerChoice

\* A camera thread takes frames, never leaves a server in disorder, and ends on
\* the empty item.
LEMMA ShapeThread ==
    ASSUME ShapeInv, publishing' \in Nat, NEW c \in Cameras, CameraThread(c)
    PROVE  ShapeInv'
<1> USE DEF ShapeInv, Thread, callerVars, serverVars, Busy, Joinable
<1>1. CASE Pop(c)
  <2>1. CASE queue[c] = <<Poison>>
    <3>1. Head(queue[c]) = Poison /\ Tail(queue[c]) = <<>> BY <2>1
    <3>2. <<>> \in Seq(Frames) /\ <<>> \in Seq(Frames \union {Poison}) /\ <<>> # <<Poison>>
      OBVIOUS
    <3> HIDE DEF Busy, Joinable
    <3>3. TypeOK' BY <1>1, <3>1, <3>2 DEF Pop, TypeOK
    <3> QED BY <1>1, <3>1, <3>2, <3>3 DEF Pop, TypeOK, Busy, Joinable
  <2>2. CASE queue[c] \in Seq(Frames)
    <3>1. queue[c] # <<>> BY <1>1 DEF Pop
    <3>2. Head(queue[c]) \in Frames /\ Tail(queue[c]) \in Seq(Frames)
      BY <2>2, <3>1, HeadTailProperties
    <3>3. Head(queue[c]) # Poison BY <3>2, FramesAreNats
    <3>4. Tail(queue[c]) \in Seq(Frames \union {Poison}) BY <3>2, SeqMonotonic
    <3>5. Tail(queue[c]) # <<Poison>>
      BY <3>2, PoisonIsNoFrame
    <3>6. TypeOK' BY <1>1, <3>2, <3>3, <3>4 DEF Pop, TypeOK
    <3>7. /\ queue'[c] = Tail(queue[c]) /\ frame'[c] = Head(queue[c])
          /\ \A d \in Cameras \ {c} : queue'[d] = queue[d] /\ thread'[d] = thread[d] /\ frame'[d] = frame[d]
          /\ cpc' = cpc /\ item' = item
      BY <1>1, <3>3 DEF Pop, TypeOK
    <3>8. ASSUME NEW d \in Cameras
          PROVE  /\ queue'[d] = <<Poison>> \/ queue'[d] \in Seq(Frames)
                 /\ queue'[d] = <<Poison>> => cpc' = "join" /\ item'[1] = d /\ d \in Joinable'
                 /\ d \in Busy' => frame'[d] \in Frames
      <4>1. CASE d = c BY <3>2, <3>5, <3>7, <4>1
      <4>2. CASE d # c BY <3>7, <4>2
      <4> QED BY <4>1, <4>2
    <3> HIDE DEF Busy, Joinable
    <3> QED BY <3>6, <3>7, <3>8
  <2> QED BY <2>1, <2>2
<1>2. ASSUME NEW ok \in BOOLEAN, Send(c, ok) PROVE ShapeInv'
  <2> DEFINE n == frame[c]
  <2>1. n \in Frames /\ n \in Nat /\ Id[n] \in Nat
    BY <1>2, IdsAreNats DEF Send
  <2>2. GetFrame(c, Id[n], n, ok) BY <1>2 DEF Send
  <2>3. /\ ring' \in [Cameras -> 0..(Buffers - 1)]
        /\ buf' \in [Cameras -> [0..(Buffers - 1) -> [id : Nat \union {None}, pic : Nat \union {None}]]]
        /\ cached' \in [Cameras -> SUBSET (Nat \X (0..(Buffers - 1)))]
    BY <2>1, <2>2, GetFrameTypes
  <2>4. sent' \in [Cameras -> [want : Nat \union {None}, pic : Nat \union {None}]]
    <3>1. CASE Hits(c, Id[n])' = {}
      BY <1>2, <3>1 DEF Send, TypeOK
    <3>2. CASE Hits(c, Id[n])' # {}
      <4> DEFINE b == Min(Hits(c, Id[n])')
      <4>1. b \in Hits(c, Id[n])'
        <5>1. Hits(c, Id[n])' \subseteq Nat BY DEF Hits
        <5> QED BY <3>2, <5>1, LeastIsMember
      <4>2. b \in 0..(Buffers - 1) BY <4>1 DEF Hits
      <4>3. buf'[c][b].pic \in Nat \union {None} BY <2>3, <4>2
      <4>4. sent' = [sent EXCEPT ![c] = [want |-> n, pic |-> buf'[c][b].pic]]
        BY <1>2, <3>2 DEF Send
      <4> HIDE DEF b
      <4> QED BY <2>1, <4>3, <4>4 DEF TypeOK
    <3> QED BY <3>1, <3>2
  <2>5. TypeOK' BY <1>2, <2>3, <2>4 DEF Send, TypeOK
  <2> QED BY <1>2, <2>1, <2>5 DEF Send, TypeOK
<1>3. ASSUME NEW ok \in BOOLEAN, Prefetch(c, ok) PROVE ShapeInv'
  <2> DEFINE n == frame[c]
  <2>1. n \in Frames /\ n + 1 \in Nat /\ Id[n] + 1 \in Nat
    BY <1>3, IdsAreNats DEF Prefetch
  <2>2. GetFrame(c, Id[n] + 1, n + 1, ok) BY <1>3 DEF Prefetch
  <2>3. /\ ring' \in [Cameras -> 0..(Buffers - 1)]
        /\ buf' \in [Cameras -> [0..(Buffers - 1) -> [id : Nat \union {None}, pic : Nat \union {None}]]]
        /\ cached' \in [Cameras -> SUBSET (Nat \X (0..(Buffers - 1)))]
    BY <2>1, <2>2, GetFrameTypes
  <2>4. TypeOK' BY <1>3, <2>3 DEF Prefetch, TypeOK
  <2> QED BY <1>3, <2>1, <2>4 DEF Prefetch, TypeOK
<1>4. CASE FrameDone(c)
  <2>1. TypeOK' BY <1>4 DEF FrameDone, TypeOK
  <2> QED BY <1>4, <2>1 DEF FrameDone, TypeOK
<1> QED BY <1>1, <1>2, <1>3, <1>4 DEF CameraThread

-----------------------------------------------------------------------------
(* publishing_ counts the frames under way.  A frame is named by its place:  *)
(* in the hands of the caller, in a queue, or in the hands of a thread.      *)

Length(c) == IF queue[c] = <<Poison>> THEN 0 ELSE Len(queue[c])

Places ==
    {p \in Cameras \X Nat : IF p[2] = 0 THEN p[1] \in Busy ELSE p[2] <= Length(p[1])}

InFlight == IF cpc = "queue" THEN Places \union {<<None, 0>>} ELSE Places

CountInv ==
    /\ IsFiniteSet(InFlight) /\ publishing = Cardinality(InFlight)
    /\ cpc \in {"unlocked", "end", "join", "destroyed"} => InFlight = {}

LEMMA LengthType == ShapeInv => \A c \in Cameras : Length(c) \in Nat
BY LenProperties DEF ShapeInv, TypeOK, Length

LEMMA NoneIsNoPlace == <<None, 0>> \notin Places
BY CamerasAssumption DEF Places, None

\* Nothing is under way exactly when no thread is busy and no frame is queued.
LEMMA NothingUnderWay ==
    ASSUME ShapeInv, InFlight = {}
    PROVE  Busy = {} /\ Waiting = {} /\ \A c \in Cameras : queue[c] \in {<<>>, <<Poison>>}
<1>1. Places = {}
  BY DEF InFlight
<1>2. ASSUME NEW c \in Cameras PROVE c \notin Busy
  <2>1. <<c, 0>> \notin Places BY <1>1
  <2> QED BY <2>1 DEF Places
<1>3. ASSUME NEW c \in Cameras PROVE queue[c] \in {<<>>, <<Poison>>}
  <2>1. <<c, 1>> \notin Places BY <1>1
  <2>2. ~(1 <= Length(c)) BY <2>1 DEF Places
  <2>3. CASE queue[c] \in Seq(Frames) /\ queue[c] # <<Poison>>
    <3>1. Len(queue[c]) \in Nat /\ ~(1 <= Len(queue[c]))
      BY <2>2, <2>3, LenProperties DEF Length
    <3>2. Len(queue[c]) = 0 BY <3>1
    <3> QED BY <2>3, <3>2, EmptySeq
  <2> QED BY <2>3 DEF ShapeInv
<1>4. ASSUME NEW c \in Waiting PROVE FALSE
  <2>1. PICK i \in DOMAIN queue[c] : queue[c][i] # Poison
    BY DEF Waiting
  <2>2. c \in Cameras BY DEF Waiting
  <2>3. CASE queue[c] = <<>> BY <2>1, <2>3
  <2>4. CASE queue[c] = <<Poison>> BY <2>1, <2>4
  <2> QED BY <1>3, <2>2, <2>3, <2>4
<1>5. Busy \subseteq Cameras BY DEF Busy
<1> QED BY <1>2, <1>3, <1>4, <1>5

LEMMA CountInit == Init => CountInv
<1> SUFFICES ASSUME Init PROVE CountInv
  OBVIOUS
<1>1. InFlight = {}
  <2>1. Busy = {} BY DEF Init, Busy
  <2>2. \A c \in Cameras : queue[c] = <<>> BY DEF Init
  <2>3. \A c \in Cameras : Length(c) = 0 BY <2>2 DEF Length
  <2>4. Places = {} BY <2>1, <2>3 DEF Places
  <2> QED BY <2>4 DEF Init, InFlight
<1> QED BY <1>1, FS_EmptySet DEF Init, CountInv

\* What moves no frame changes no place.
LEMMA CountStutter ==
    ASSUME CountInv, UNCHANGED <<publishing, queue, Busy>>,
           cpc # "queue" /\ cpc' # "queue",
           cpc' \in {"unlocked", "end", "join", "destroyed"} =>
               cpc \in {"unlocked", "end", "join", "destroyed"} \/ publishing = 0
    PROVE  CountInv'
<1>1. Places' = Places
  BY DEF Places, Length
<1>2. InFlight' = InFlight
  BY <1>1 DEF InFlight
<1>3. publishing = 0 => InFlight = {}
  BY FS_EmptySet DEF CountInv
<1> HIDE DEF InFlight
<1> QED BY <1>2, <1>3 DEF CountInv

LEMMA CountCaller ==
    ASSUME ShapeInv, CountInv, CallerStep \/ CallerChoice
    PROVE  CountInv'
<1> USE DEF Caller, callerVars, serverVars
<1>1. CASE (\E c \in Cameras, n \in Frames : PublishFrame(c, n)) \/ WaitBeforePublish \/ PushFrame
           \/ EndTurn \/ Unlock \/ NextTurn \/ Destroy \/ JoinThread \/ Destroyed
  <2>1. UNCHANGED <<publishing, queue, Busy>>
    BY <1>1 DEF PublishFrame, WaitBeforePublish, PushFrame, EndTurn, Unlock, NextTurn, Destroy,
                JoinThread, Destroyed, Busy
  <2>2. /\ cpc # "queue" /\ cpc' # "queue"
        /\ cpc' \in {"unlocked", "end", "join", "destroyed"} =>
               cpc \in {"unlocked", "end", "join", "destroyed"} \/ publishing = 0
    BY <1>1 DEF PublishFrame, WaitBeforePublish, PushFrame, EndTurn, Unlock, NextTurn, Destroy,
                JoinThread, Destroyed, AllSent
  <2> QED BY <2>1, <2>2, CountStutter
<1>2. CASE Restart
  <2>1. Busy' = Busy
    BY <1>2 DEF Restart, StartVipcServer, Busy, ShapeInv, TypeOK
  <2>2. UNCHANGED <<publishing, queue>> /\ cpc = "restart" /\ cpc' = "count"
    BY <1>2 DEF Restart
  <2> QED BY <2>1, <2>2, CountStutter
<1>3. CASE CountFrame
  <2>1. UNCHANGED <<queue, Busy>> /\ publishing' = publishing + 1 /\ cpc = "count" /\ cpc' = "queue"
    BY <1>3 DEF CountFrame, Busy
  <2>2. InFlight = Places /\ InFlight' = Places \union {<<None, 0>>}
    BY <2>1 DEF InFlight, Places, Length
  <2>3. /\ IsFiniteSet(InFlight')
        /\ Cardinality(InFlight') = Cardinality(InFlight) + 1
    BY <2>2, NoneIsNoPlace, FS_AddElement DEF CountInv
  <2> QED BY <2>1, <2>3 DEF CountInv
<1>4. CASE QueueFrame
  <2>0. PICK c \in Cameras, l \in Nat : c = item[1] /\ l = Length(c)
    BY <1>4, LengthType DEF QueueFrame, ShapeInv
  <2> DEFINE p == <<c, l + 1>>
  <2>1. item[2] \in Frames /\ queue[c] \in Seq(Frames)
    BY <1>4, <2>0 DEF QueueFrame, ShapeInv
  <2>2. /\ cpc = "queue" /\ cpc' = "turn" /\ publishing' = publishing /\ Busy' = Busy
        /\ queue' = [queue EXCEPT ![c] = Append(@, item[2])]
    BY <1>4, <2>0 DEF QueueFrame, Busy
  <2>3. Length(c)' = l + 1 /\ \A d \in Cameras \ {c} : Length(d)' = Length(d)
    <3>1. queue'[c] = Append(queue[c], item[2]) /\ \A d \in Cameras \ {c} : queue'[d] = queue[d]
      BY <2>1, <2>2 DEF ShapeInv, TypeOK
    <3>2. queue'[c] # <<Poison>> /\ Len(queue'[c]) = Len(queue[c]) + 1
      <4>1. Append(queue[c], item[2]) \in Seq(Frames) /\ Len(Append(queue[c], item[2])) = Len(queue[c]) + 1
        BY <2>1, AppendProperties
      <4> QED BY <3>1, <4>1, PoisonIsNoFrame
    <3>3. queue[c] # <<Poison>>
      BY <2>1, PoisonIsNoFrame
    <3> QED BY <2>0, <3>1, <3>2, <3>3 DEF Length
  <2>4. Places' = Places \union {p} /\ p \notin Places
    BY <2>0, <2>2, <2>3 DEF Places
  <2>5. InFlight \ {<<None, 0>>} = Places /\ <<None, 0>> \in InFlight /\ InFlight' = Places \union {p}
    BY <2>2, <2>4, NoneIsNoPlace DEF InFlight
  <2>6. IsFiniteSet(Places) /\ Cardinality(Places) = Cardinality(InFlight) - 1
    BY <2>5, FS_RemoveElement DEF CountInv
  <2>7. IsFiniteSet(InFlight') /\ Cardinality(InFlight') = Cardinality(Places) + 1
    BY <2>4, <2>5, <2>6, FS_AddElement
  <2>8. Cardinality(InFlight) \in Nat
    BY FS_CardinalityType DEF CountInv
  <2> QED BY <2>2, <2>6, <2>7, <2>8 DEF CountInv
<1>5. CASE EndThread
  <2>1. PICK m \in Cameras : m = Min(Joinable)
    BY <1>5, FirstJoinable DEF EndThread, Joinable
  <2>2. InFlight = {} /\ cpc = "end" /\ cpc' = "join"
    BY <1>5 DEF EndThread, CountInv
  <2>3. queue[m] = <<>>
    <3>1. queue[m] # <<Poison>> BY <2>1, <2>2 DEF ShapeInv
    <3> QED BY <2>1, <2>2, <3>1, NothingUnderWay
  <2>4. publishing' = publishing - Len(queue[m]) /\ queue' = [queue EXCEPT ![m] = <<Poison>>] /\ Busy' = Busy
    BY <1>5, <2>1 DEF EndThread, Busy
  <2>5. publishing' = publishing
    <3>1. Len(queue[m]) = 0 BY <2>3
    <3>2. publishing \in Nat BY DEF ShapeInv, TypeOK
    <3> QED BY <2>4, <3>1, <3>2
  <2>6. \A d \in Cameras : Length(d)' = Length(d)
    <3>1. queue'[m] = <<Poison>> /\ \A d \in Cameras \ {m} : queue'[d] = queue[d]
      BY <2>1, <2>4 DEF ShapeInv, TypeOK
    <3>2. Length(m)' = 0 /\ Length(m) = 0
      BY <2>3, <3>1 DEF Length
    <3> QED BY <3>1, <3>2 DEF Length
  <2>7. Places' = Places BY <2>4, <2>6 DEF Places
  <2>8. InFlight' = InFlight BY <2>2, <2>7 DEF InFlight
  <2> QED BY <2>2, <2>5, <2>8 DEF CountInv
<1> QED BY <1>1, <1>2, <1>3, <1>4, <1>5 DEF CallerStep, CallerChoice

LEMMA CountThread ==
    ASSUME ShapeInv, CountInv, NEW c \in Cameras, CameraThread(c)
    PROVE  CountInv'
<1> USE DEF Thread, callerVars, serverVars
<1>1. CASE Pop(c)
  <2>1. CASE queue[c] = <<Poison>>
    <3>1. Head(queue[c]) = Poison /\ Tail(queue[c]) = <<>> BY <2>1
    <3>2. queue' = [queue EXCEPT ![c] = <<>>] /\ thread[c] = "pop" /\ thread' = [thread EXCEPT ![c] = "exited"]
      BY <1>1, <3>1 DEF Pop
    <3>3. Busy' = Busy
      BY <3>2 DEF Busy, ShapeInv, TypeOK
    <3>4. \A d \in Cameras : Length(d)' = Length(d)
      <4>1. queue'[c] = <<>> /\ \A d \in Cameras \ {c} : queue'[d] = queue[d]
        BY <3>2 DEF ShapeInv, TypeOK
      <4>2. Length(c)' = 0 /\ Length(c) = 0 BY <2>1, <4>1 DEF Length
      <4> QED BY <4>1, <4>2 DEF Length
    <3>5. Places' = Places BY <3>3, <3>4 DEF Places
    <3>6. InFlight' = InFlight BY <1>1, <3>5 DEF InFlight, Pop
    <3> QED BY <1>1, <3>6 DEF CountInv, Pop
  <2>2. CASE queue[c] \in Seq(Frames) /\ queue[c] # <<Poison>>
    <3>1. queue[c] # <<>> BY <1>1 DEF Pop
    <3>2. PICK l \in Nat : l = Len(queue[c]) /\ l = Length(c) /\ l > 0
      BY <2>2, <3>1, LenProperties, EmptySeq DEF Length
    <3>3. Head(queue[c]) # Poison /\ Tail(queue[c]) \in Seq(Frames) /\ Len(Tail(queue[c])) = l - 1
      <4>1. Head(queue[c]) \in Frames BY <2>2, <3>1, HeadTailProperties
      <4> QED BY <2>2, <3>1, <3>2, <4>1, FramesAreNats, HeadTailProperties
    <3>4. /\ queue' = [queue EXCEPT ![c] = Tail(@)]
          /\ thread[c] = "pop" /\ thread' = [thread EXCEPT ![c] = "send"]
          /\ publishing' = publishing /\ cpc' = cpc
      BY <1>1, <3>3 DEF Pop
    <3>5. c \notin Busy /\ Busy' = Busy \union {c}
      BY <3>4 DEF Busy, ShapeInv, TypeOK
    <3>6. Length(c)' = l - 1 /\ \A d \in Cameras \ {c} : Length(d)' = Length(d)
      <4>1. queue'[c] = Tail(queue[c]) /\ \A d \in Cameras \ {c} : queue'[d] = queue[d]
        BY <3>4 DEF ShapeInv, TypeOK
      <4>2. queue'[c] # <<Poison>> BY <3>3, <4>1, PoisonIsNoFrame
      <4> QED BY <3>3, <4>1, <4>2 DEF Length
    <3> DEFINE p == <<c, l>>
               r == <<c, 0>>
    <3>7. p \in Places /\ r \notin Places /\ Places' = (Places \ {p}) \union {r}
      <4>1. p \in Places /\ r \notin Places
        BY <3>2, <3>5 DEF Places
      <4>2. ASSUME NEW d \in Cameras, NEW i \in Nat
            PROVE  <<d, i>> \in Places' <=> <<d, i>> \in (Places \ {p}) \union {r}
        <5>1. CASE d = c /\ i = 0 BY <3>2, <3>5, <5>1 DEF Places
        <5>2. CASE d = c /\ i # 0 BY <3>2, <3>6, <5>2 DEF Places
        <5>3. CASE d # c BY <3>5, <3>6, <5>3 DEF Places
        <5> QED BY <5>1, <5>2, <5>3
      <4>3. Places' \subseteq Cameras \X Nat /\ (Places \ {p}) \union {r} \subseteq Cameras \X Nat
        BY DEF Places
      <4> QED BY <4>1, <4>2, <4>3
    <3>8. p \in InFlight /\ r \notin InFlight /\ InFlight' = (InFlight \ {p}) \union {r}
      <4>1. p # <<None, 0>> /\ r # <<None, 0>>
        BY <3>2, CamerasAssumption DEF None
      <4> QED BY <3>4, <3>7, <4>1 DEF InFlight
    <3>9. IsFiniteSet(InFlight') /\ Cardinality(InFlight') = Cardinality(InFlight)
      <4>1. IsFiniteSet(InFlight \ {p}) /\ Cardinality(InFlight \ {p}) = Cardinality(InFlight) - 1
        BY <3>8, FS_RemoveElement DEF CountInv
      <4>2. r \notin InFlight \ {p}
        BY <3>8
      <4>3. IsFiniteSet(InFlight') /\ Cardinality(InFlight') = Cardinality(InFlight \ {p}) + 1
        BY <3>8, <4>1, <4>2, FS_AddElement
      <4>4. Cardinality(InFlight) \in Nat
        BY FS_CardinalityType DEF CountInv
      <4> QED BY <4>1, <4>3, <4>4
    <3> QED BY <3>4, <3>8, <3>9 DEF CountInv
  <2> QED BY <2>1, <2>2 DEF ShapeInv
<1>2. ASSUME NEW ok \in BOOLEAN, Send(c, ok) \/ Prefetch(c, ok) PROVE CountInv'
  <2>1. UNCHANGED <<publishing, queue, cpc>> BY <1>2 DEF Send, Prefetch
  <2>2. Busy' = Busy BY <1>2 DEF Send, Prefetch, Busy, ShapeInv, TypeOK
  <2>3. Places' = Places BY <2>1, <2>2 DEF Places, Length
  <2>4. InFlight' = InFlight BY <2>1, <2>3 DEF InFlight
  <2> QED BY <2>1, <2>4 DEF CountInv
<1>3. CASE FrameDone(c)
  <2> DEFINE p == <<c, 0>>
  <2>1. publishing' = publishing - 1 /\ queue' = queue /\ cpc' = cpc
    BY <1>3 DEF FrameDone
  <2>2. c \in Busy /\ Busy' = Busy \ {c}
    BY <1>3 DEF FrameDone, Busy, ShapeInv, TypeOK
  <2>3. p \in Places /\ Places' = Places \ {p}
    BY <2>1, <2>2 DEF Places, Length
  <2>4. p \in InFlight /\ InFlight' = InFlight \ {p}
    BY <2>1, <2>3, CamerasAssumption DEF InFlight, None
  <2>5. IsFiniteSet(InFlight') /\ Cardinality(InFlight') = Cardinality(InFlight) - 1
    BY <2>4, FS_RemoveElement DEF CountInv
  <2> QED BY <2>1, <2>4, <2>5 DEF CountInv
<1> QED BY <1>1, <1>2, <1>3 DEF CameraThread

LEMMA IInvInit == Init => ShapeInv /\ CountInv
BY ShapeInit, CountInit

LEMMA IInvStep ==
    ASSUME ShapeInv, CountInv, [Next]_vars
    PROVE  ShapeInv' /\ CountInv'
<1>1. CASE CallerStep \/ CallerChoice
  <2>1. CountInv' BY <1>1, CountCaller
  <2>2. publishing' \in Nat BY <2>1, FS_CardinalityType DEF CountInv
  <2> QED BY <1>1, <2>1, <2>2, ShapeCaller
<1>2. ASSUME NEW c \in Cameras, CameraThread(c) PROVE ShapeInv' /\ CountInv'
  <2>1. CountInv' BY <1>2, CountThread
  <2>2. publishing' \in Nat BY <2>1, FS_CardinalityType DEF CountInv
  <2> QED BY <1>2, <2>1, <2>2, ShapeThread
<1>3. CASE UNCHANGED vars
  BY <1>3 DEF vars, callerVars, serverVars, ShapeInv, TypeOK, Busy, Joinable, CountInv, InFlight, Places, Length
<1> QED BY <1>1, <1>2, <1>3 DEF Next

\* While the main thread may free segments no camera thread has, or will get, a
\* frame of one: waitForSent() is enough, because publishing_ counts exactly.
THEOREM FramesReturned == Spec => []ReadersReleased
<1>1. ShapeInv /\ CountInv => ReadersReleased
  BY NothingUnderWay DEF CountInv, ReadersReleased
<1> QED BY IInvInit, IInvStep, <1>1, PTL DEF Spec

\* Every variable keeps its type; publishing_ never falls below zero.
THEOREM ServerTyped == Spec => []TypeOK
<1>1. ShapeInv => TypeOK
  BY DEF ShapeInv
<1> QED BY IInvInit, IInvStep, <1>1, PTL DEF Spec

\* A server with its buffers is replaced, and at the end deleted, only when no
\* camera thread is busy with it or has a frame waiting.
THEOREM ReplacedIdle == Spec => ServerReplacedIdle
<1>1. ASSUME ShapeInv, CountInv, Next, gen' # gen
      PROVE  Busy = {} /\ Waiting = {}
  <2>1. Restart \/ Destroyed
    BY <1>1 DEF Next, CallerStep, CallerChoice, CameraThread, WaitBeforePublish, PushFrame, CountFrame,
                QueueFrame, Unlock, NextTurn, EndThread, JoinThread, EndTurn, Destroy, PublishFrame,
                Pop, FrameDone, Send, Prefetch, serverVars
  <2>2. InFlight = {}
    <3>1. CASE Restart
      <4>1. publishing = 0 BY <3>1 DEF Restart, AllSent
      <4> QED BY <1>1, <4>1, FS_EmptySet DEF CountInv
    <3>2. CASE Destroyed
      <4>1. cpc = "end" BY <3>2 DEF Destroyed, Caller
      <4> QED BY <1>1, <4>1 DEF CountInv
    <3> QED BY <2>1, <3>1, <3>2
  <2> QED BY <1>1, <2>2, NothingUnderWay
<1>2. ShapeInv /\ CountInv /\ [Next]_vars => [gen' # gen => Busy = {} /\ Waiting = {}]_vars
  BY <1>1
<1> QED BY IInvInit, IInvStep, <1>2, PTL DEF Spec, ServerReplacedIdle

-----------------------------------------------------------------------------
(* What the buffers hold.                                                   *)

\* As far as an id is that of a frame, the picture under it is that frame's.
PictureInv ==
    /\ \A c \in Cameras, b \in 0..(Buffers - 1), m \in Frames :
          buf[c][b].id = Id[m] => buf[c][b].pic = m
    /\ SentRight

\* getFrame fills at most one buffer.
LEMMA GetFrameFills ==
    ASSUME TypeOK, NEW c \in Cameras, NEW id, NEW n, NEW ok \in BOOLEAN, GetFrame(c, id, n, ok)
    PROVE  \A d \in Cameras, b \in 0..(Buffers - 1) :
              buf'[d][b] = buf[d][b] \/ buf'[d][b] = [id |-> id, pic |-> n]
<1>1. buf' = buf \/ buf' = [buf EXCEPT ![c][ring[c]] = [id |-> id, pic |-> n]]
  BY DEF GetFrame, Filled
<1>2. ASSUME NEW d \in Cameras, NEW b \in 0..(Buffers - 1)
      PROVE  buf'[d][b] = buf[d][b] \/ buf'[d][b] = [id |-> id, pic |-> n]
  <2> DEFINE Label == [id |-> id, pic |-> n]
             Labels == [id : Nat \union {None}, pic : Nat \union {None}]
  <2>1. buf \in [Cameras -> [0..(Buffers - 1) -> Labels]] /\ ring[c] \in 0..(Buffers - 1)
    BY DEF TypeOK
  <2> HIDE DEF Label, Labels
  <2>2. CASE buf' = [buf EXCEPT ![c][ring[c]] = Label]
    <3>1. buf'[c] = [buf[c] EXCEPT ![ring[c]] = Label] /\ \A e \in Cameras \ {c} : buf'[e] = buf[e]
      BY <2>1, <2>2
    <3>2. buf[c] \in [0..(Buffers - 1) -> Labels] BY <2>1
    <3>3. CASE d = c BY <2>1, <3>1, <3>2, <3>3 DEF Label
    <3>4. CASE d # c BY <3>1, <3>4
    <3> QED BY <3>3, <3>4
  <2> QED BY <1>1, <2>2 DEF Label
<1> QED BY <1>2

LEMMA PictureInit == Init => PictureInv
<1> SUFFICES ASSUME Init PROVE PictureInv
  OBVIOUS
<1>1. \A c \in Cameras, b \in 0..(Buffers - 1) : buf[c][b].id = None
  BY DEF Init, AllEmpty, Empty
<1>2. \A m \in Frames : Id[m] # None
  BY IdsAreNats DEF None
<1>3. SentRight
  BY DEF Init, SentRight
<1> QED BY <1>1, <1>2, <1>3 DEF PictureInv

LEMMA PictureStep ==
    ASSUME ShapeInv, PictureInv, [Next]_vars
    PROVE  PictureInv'
<1> DEFINE Right == \A c \in Cameras, b \in 0..(Buffers - 1), m \in Frames :
                       buf[c][b].id = Id[m] => buf[c][b].pic = m
<1>1. CASE CallerStep \/ CallerChoice
  <2>1. CASE Restart
    <3>1. sent' = sent /\ buf' = AllEmpty
      BY <2>1 DEF Restart, StartVipcServer
    <3>2. \A c \in Cameras, b \in 0..(Buffers - 1) : buf'[c][b].id = None
      BY <3>1 DEF AllEmpty, Empty
    <3>3. \A m \in Frames : Id[m] # None
      BY IdsAreNats DEF None
    <3> QED BY <3>1, <3>2, <3>3 DEF PictureInv, SentRight
  <2>2. CASE ~Restart
    <3>1. buf' = buf /\ sent' = sent
      BY <1>1, <2>2 DEF CallerStep, CallerChoice, WaitBeforePublish, PushFrame, CountFrame, QueueFrame,
            Unlock, NextTurn, EndThread, JoinThread, Destroyed, EndTurn, Destroy, PublishFrame, serverVars
    <3> QED BY <3>1 DEF PictureInv, SentRight
  <2> QED BY <2>1, <2>2
<1>2. ASSUME NEW c \in Cameras, NEW ok \in BOOLEAN, Send(c, ok) PROVE PictureInv'
  <2>1. PICK n \in Frames : n = frame[c]
    BY <1>2 DEF Send, Thread, ShapeInv, Busy
  <2>2. GetFrame(c, Id[n], n, ok) BY <1>2, <2>1 DEF Send
  <2>3. \A d \in Cameras, b \in 0..(Buffers - 1) :
           buf'[d][b] = buf[d][b] \/ buf'[d][b] = [id |-> Id[n], pic |-> n]
    BY <2>2, GetFrameFills DEF ShapeInv
  <2>4. Right'
    <3> SUFFICES ASSUME NEW d \in Cameras, NEW b \in 0..(Buffers - 1), NEW m \in Frames,
                        buf'[d][b].id = Id[m]
                 PROVE  buf'[d][b].pic = m
      OBVIOUS
    <3>1. CASE buf'[d][b] = buf[d][b] BY <3>1 DEF PictureInv
    <3>2. CASE buf'[d][b] = [id |-> Id[n], pic |-> n] BY <3>2, IdsApart
    <3> QED BY <2>3, <3>1, <3>2
  <2>5. SentRight'
    <3>1. CASE Hits(c, Id[n])' = {}
      BY <1>2, <2>1, <3>1 DEF Send, SentRight, PictureInv
    <3>2. CASE Hits(c, Id[n])' # {}
      <4> DEFINE b == Min(Hits(c, Id[n])')
      <4>1. b \in Hits(c, Id[n])'
        <5>1. Hits(c, Id[n])' \subseteq Nat BY DEF Hits
        <5> QED BY <3>2, <5>1, LeastIsMember
      <4>2. b \in 0..(Buffers - 1) /\ buf'[c][b].id = Id[n] BY <4>1 DEF Hits
      <4>3. sent' = [sent EXCEPT ![c] = [want |-> n, pic |-> buf'[c][b].pic]]
        BY <1>2, <2>1, <3>2 DEF Send
      <4> HIDE DEF b
      <4>4. buf'[c][b].pic = n BY <2>4, <4>2
      <4> QED BY <4>3, <4>4 DEF SentRight, PictureInv, ShapeInv, TypeOK
    <3> QED BY <3>1, <3>2
  <2> QED BY <2>4, <2>5 DEF PictureInv
<1>3. ASSUME NEW c \in Cameras, NEW ok \in BOOLEAN, Prefetch(c, ok) PROVE PictureInv'
  <2>1. PICK n \in Frames : n = frame[c]
    BY <1>3 DEF Prefetch, Thread, ShapeInv, Busy
  <2>2. GetFrame(c, Id[n] + 1, n + 1, ok) /\ sent' = sent BY <1>3, <2>1 DEF Prefetch
  <2>3. \A d \in Cameras, b \in 0..(Buffers - 1) :
           buf'[d][b] = buf[d][b] \/ buf'[d][b] = [id |-> Id[n] + 1, pic |-> n + 1]
    BY <2>2, GetFrameFills DEF ShapeInv
  <2>4. Right'
    <3> SUFFICES ASSUME NEW d \in Cameras, NEW b \in 0..(Buffers - 1), NEW m \in Frames,
                        buf'[d][b].id = Id[m]
                 PROVE  buf'[d][b].pic = m
      OBVIOUS
    <3>1. CASE buf'[d][b] = buf[d][b] BY <3>1 DEF PictureInv
    <3>2. CASE buf'[d][b] = [id |-> Id[n] + 1, pic |-> n + 1] BY <3>2, IdsApart
    <3> QED BY <2>3, <3>1, <3>2
  <2> QED BY <2>2, <2>4 DEF PictureInv, SentRight
<1>4. ASSUME NEW c \in Cameras, Pop(c) \/ FrameDone(c) PROVE PictureInv'
  BY <1>4 DEF Pop, FrameDone, serverVars, PictureInv, SentRight
<1>5. CASE UNCHANGED vars
  BY <1>5 DEF vars, serverVars, PictureInv, SentRight
<1> QED BY <1>1, <1>2, <1>3, <1>4, <1>5 DEF Next, CameraThread

\* The picture sent for a frame is that frame's, for every numbering that
\* increases: a prefetch under an id that is skipped is never found again.
THEOREM RightPicture == Spec => []SentRight
<1>1. PictureInv => SentRight
  BY DEF PictureInv
<1> QED BY IInvInit, IInvStep, PictureInit, PictureStep, <1>1, PTL DEF Spec
=============================================================================
