---------------------------- MODULE CameraServer ----------------------------
(***************************************************************************)
(* tools/replay/camera.cc: class CameraServer.                             *)
(*                                                                         *)
(* The stream thread of Replay hands frames to one thread per camera       *)
(* through a queue; publishing_ counts the frames handed over and not yet  *)
(* done with.  A frame is taken from a FrameReader of a loaded segment and *)
(* sent through a ring of buffers that belong to the VisionIPC server.     *)
(* waitForSent() is what lets the owner free segments, replace the server  *)
(* and delete both.                                                        *)
(*                                                                         *)
(* Frames are numbered along the route: PerSegment to a segment.           *)
(***************************************************************************)
EXTENDS Integers, Sequences, FiniteSets, FiniteSetsExt

CONSTANTS
    Cameras,    \* the cameras, by their index
    Segments,   \* number of segments
    PerSegment, \* frames of one camera in a segment
    Id,         \* frame id of each frame number; ids may skip values
    Size,       \* Size[c][s]: frame size of camera c in segment s, 0 if absent
    Buffers,    \* BUFFER_COUNT
    MaxPushes   \* bound: frames pushed

ASSUME CamerasAssumption == Cameras \subseteq Nat /\ IsFiniteSet(Cameras) /\ Cameras # {}
ASSUME CountsAssumption == {Segments, PerSegment, Buffers} \subseteq Nat \ {0}
ASSUME IdAssumption ==
    /\ Id \in [0..(Segments * PerSegment - 1) -> Nat]
    /\ \A m, n \in DOMAIN Id : m < n => Id[m] < Id[n]
ASSUME SizeAssumption  == Size \in [Cameras -> [0..(Segments - 1) -> Nat]]
ASSUME BoundAssumption == MaxPushes \in Nat

Frames   == DOMAIN Id
SegOf(n) == n \div PerSegment
None     == -1
Poison   == -2 \* the empty item that ends a camera thread

VARIABLES
    cpc,        \* where the caller is
    item,       \* the camera and frame pushFrame was called with
    size,       \* width and height of each camera
    pushes,     \* frames pushed so far
    publishing, \* publishing_
    queue,      \* queue of each camera
    thread,     \* thread of each camera: "none", "pop", "send", "prefetch",
                \* "count", "exited"
    frame,      \* the frame each thread works on
    gen,        \* which VisionIpcServer is alive
    ring,       \* next buffer get_buffer returns, for each camera
    buf,        \* frame id and picture in each buffer of each camera
    cached,     \* cached_buf: buffers, each with the server it belongs to
    sent        \* history: the frame each camera sent last, and its picture

callerVars == <<cpc, item, size, pushes>>
serverVars == <<gen, ring, buf, cached, sent>>
vars == <<callerVars, publishing, queue, thread, frame, serverVars>>

-----------------------------------------------------------------------------
(* The VisionIPC server and its buffers.                                   *)

Empty    == [id |-> None, pic |-> None]
AllEmpty == [c \in Cameras |-> [b \in 0..(Buffers - 1) |-> Empty]]

\* cached_buf.clear(), for every camera
ClearedCache == [c \in Cameras |-> {}]

\* Mutant of StartVipcServer: only cameras that had a size when the replay
\* started have a thread.
StartVipcServerOnly(newSize) ==
    /\ gen' = gen + 1
    /\ ring' = [c \in Cameras |-> 0]
    /\ buf' = AllEmpty
    /\ cached' = ClearedCache
    /\ UNCHANGED <<thread, sent>>

\* startVipcServer: a new server, new buffers, and a thread for every camera
\* that has a size.
StartVipcServer(newSize) ==
    /\ gen' = gen + 1
    /\ ring' = [c \in Cameras |-> 0]
    /\ buf' = AllEmpty
    /\ cached' = ClearedCache
    /\ thread' = [c \in Cameras |->
                    IF newSize[c] > 0 /\ thread[c] = "none" THEN "pop" ELSE thread[c]]
    /\ UNCHANGED sent

\* the cached buffer that carries the frame id
Hits(c, id) == {b \in 0..(Buffers - 1) : <<gen, b>> \in cached[c] /\ buf[c][b].id = id}

\* Mutant of Filled: the buffer is labelled and cached before it is decoded.
FilledAnyway(c, id, n, ok) ==
    /\ buf' = [buf EXCEPT ![c][ring[c]] = [id |-> id, pic |-> IF ok THEN n ELSE @.pic]]
    /\ cached' = [cached EXCEPT ![c] = @ \union {<<gen, ring[c]>>}]

\* fr->get, set_frame_id and the insertion, when the frame could be decoded
Filled(c, id, n, ok) ==
    IF ok
    THEN /\ buf' = [buf EXCEPT ![c][ring[c]] = [id |-> id, pic |-> n]]
         /\ cached' = [cached EXCEPT ![c] = @ \union {<<gen, ring[c]>>}]
    ELSE UNCHANGED <<buf, cached>>

\* getFrame: the picture n under the label id; decoding may fail
GetFrame(c, id, n, ok) ==
    IF Hits(c, id) # {}
    THEN UNCHANGED <<ring, buf, cached>>
    ELSE /\ Filled(c, id, n, ok)
         /\ ring' = [ring EXCEPT ![c] = (@ + 1) % Buffers]

Init ==
    /\ cpc = "turn" /\ item = <<None, None>> /\ pushes = 0
    /\ size = [c \in Cameras |-> Size[c][0]]
    /\ publishing = 0
    /\ queue = [c \in Cameras |-> <<>>]
    /\ thread = [c \in Cameras |-> IF Size[c][0] > 0 THEN "pop" ELSE "none"]
    /\ frame = [c \in Cameras |-> None]
    /\ gen = 0 /\ ring = [c \in Cameras |-> 0] /\ buf = AllEmpty
    /\ cached = [c \in Cameras |-> {}]
    /\ sent = [c \in Cameras |-> [want |-> None, pic |-> None]]

-----------------------------------------------------------------------------
(* The caller: Replay's stream thread while it holds stream_lock_, and at  *)
(* the end Replay::stop.                                                   *)

Caller(from, to) == cpc = from /\ cpc' = to

\* waitForSent
AllSent == publishing = 0

\* publishFrame, for a segment that has this camera.  Playback faster than real
\* time (setSpeed may change it at any time) waits for the cameras first.
PublishFrame(c, n) ==
    /\ pushes < MaxPushes /\ Size[c][SegOf(n)] > 0
    /\ (Caller("turn", "push") \/ Caller("turn", "wait"))
    /\ item' = <<c, n>> /\ pushes' = pushes + 1
    /\ UNCHANGED <<size, publishing, queue, thread, frame, serverVars>>

WaitBeforePublish ==
    /\ Caller("wait", "push") /\ AllSent
    /\ UNCHANGED <<item, size, pushes, publishing, queue, thread, frame, serverVars>>

\* pushFrame: the size is set at once, the server is replaced after a wait.
PushFrame ==
    LET c == item[1]
        s == Size[c][SegOf(item[2])]
    IN /\ Caller("push", IF size[c] # s THEN "restart" ELSE "count")
       /\ size' = [size EXCEPT ![c] = s]
       /\ UNCHANGED <<item, pushes, publishing, queue, thread, frame, serverVars>>

\* Mutant of Restart: the server is replaced without waiting.
RestartAtOnce ==
    /\ Caller("restart", "count")
    /\ StartVipcServer(size)
    /\ UNCHANGED <<item, size, pushes, publishing, queue, frame>>

Restart ==
    /\ Caller("restart", "count") /\ AllSent
    /\ StartVipcServer(size)
    /\ UNCHANGED <<item, size, pushes, publishing, queue, frame>>

\* ++publishing_
CountFrame ==
    /\ Caller("count", "queue")
    /\ publishing' = publishing + 1
    /\ UNCHANGED <<item, size, pushes, queue, thread, frame, serverVars>>

\* cam.queue.push
QueueFrame ==
    /\ Caller("queue", "turn")
    /\ queue' = [queue EXCEPT ![item[1]] = Append(@, item[2])]
    /\ UNCHANGED <<item, size, pushes, publishing, thread, frame, serverVars>>

\* Mutant of EndTurn: the stream thread does not wait for the cameras.
EndTurnAtOnce ==
    /\ Caller("turn", "unlocked")
    /\ UNCHANGED <<item, size, pushes, publishing, queue, thread, frame, serverVars>>

\* publishEvents has returned: "ensure frames are sent before unlocking"
EndTurn ==
    /\ Caller("turn", "settle")
    /\ UNCHANGED <<item, size, pushes, publishing, queue, thread, frame, serverVars>>

Unlock ==
    /\ Caller("settle", "unlocked") /\ AllSent
    /\ UNCHANGED <<item, size, pushes, publishing, queue, thread, frame, serverVars>>

NextTurn ==
    /\ Caller("unlocked", "turn")
    /\ UNCHANGED <<item, size, pushes, publishing, queue, thread, frame, serverVars>>

\* The destructor starts once the stream thread is gone.  It goes through the
\* cameras in order: clear the queue, send the thread the empty item, join it.
Destroy ==
    /\ Caller("unlocked", "end")
    /\ UNCHANGED <<item, size, pushes, publishing, queue, thread, frame, serverVars>>

Joinable == {c \in Cameras : thread[c] \notin {"none", "exited"}}

\* Mutant of EndThread: the thread is not told to end.
EndNothing ==
    /\ Caller("end", "join") /\ Joinable # {}
    /\ publishing' = publishing - Len(queue[Min(Joinable)])
    /\ queue' = [queue EXCEPT ![Min(Joinable)] = <<>>]
    /\ item' = <<Min(Joinable), None>>
    /\ UNCHANGED <<size, pushes, thread, frame, serverVars>>

EndThread ==
    /\ Caller("end", "join") /\ Joinable # {}
    /\ publishing' = publishing - Len(queue[Min(Joinable)])
    /\ queue' = [queue EXCEPT ![Min(Joinable)] = <<Poison>>]
    /\ item' = <<Min(Joinable), None>>
    /\ UNCHANGED <<size, pushes, thread, frame, serverVars>>

JoinThread ==
    /\ Caller("join", "end") /\ thread[item[1]] = "exited"
    /\ UNCHANGED <<item, size, pushes, publishing, queue, thread, frame, serverVars>>

\* vipc_server_.reset(nullptr)
Destroyed ==
    /\ Caller("end", "destroyed") /\ Joinable = {}
    /\ gen' = gen + 1
    /\ UNCHANGED <<item, size, pushes, publishing, queue, thread, frame,
                   ring, buf, cached, sent>>

-----------------------------------------------------------------------------
(* The camera threads.                                                     *)

Thread(c, from, to) == thread[c] = from /\ thread' = [thread EXCEPT ![c] = to]

Pop(c) ==
    /\ queue[c] # <<>>
    /\ Thread(c, "pop", IF Head(queue[c]) = Poison THEN "exited" ELSE "send")
    /\ queue' = [queue EXCEPT ![c] = Tail(@)]
    /\ frame' = [frame EXCEPT ![c] = IF Head(queue[c]) = Poison THEN None ELSE Head(queue[c])]
    /\ UNCHANGED <<callerVars, publishing, serverVars>>

\* Send what getFrame returns; a frame that cannot be decoded is skipped.
Send(c, ok) ==
    /\ Thread(c, "send", "prefetch")
    /\ \E n \in {frame[c]} :
        /\ GetFrame(c, Id[n], n, ok)
        /\ UNCHANGED gen
        /\ sent' = IF Hits(c, Id[n])' = {} THEN sent
                   ELSE [sent EXCEPT ![c] = [want |-> n, pic |-> buf'[c][Min(Hits(c, Id[n])')].pic]]
    /\ UNCHANGED <<callerVars, publishing, queue, frame>>

\* The next frame of the same reader, under the next frame id.
Prefetch(c, ok) ==
    /\ Thread(c, "prefetch", "count")
    /\ LET n == frame[c]
       IN /\ ok => SegOf(n + 1) = SegOf(n)
          /\ GetFrame(c, Id[n] + 1, n + 1, ok)
    /\ UNCHANGED <<callerVars, publishing, queue, frame, gen, sent>>

\* --publishing_
FrameDone(c) ==
    /\ Thread(c, "count", "pop")
    /\ publishing' = publishing - 1
    /\ frame' = [frame EXCEPT ![c] = None]
    /\ UNCHANGED <<callerVars, queue, serverVars>>

-----------------------------------------------------------------------------
CallerStep ==
    \/ WaitBeforePublish \/ PushFrame \/ Restart \/ CountFrame \/ QueueFrame
    \/ Unlock \/ NextTurn \/ EndThread \/ JoinThread \/ Destroyed

CallerChoice == EndTurn \/ Destroy \/ \E c \in Cameras, n \in Frames : PublishFrame(c, n)

CameraThread(c) ==
    Pop(c) \/ FrameDone(c) \/ \E ok \in BOOLEAN : Send(c, ok) \/ Prefetch(c, ok)

Next == CallerStep \/ CallerChoice \/ \E c \in Cameras : CameraThread(c)

\* Every thread is scheduled; what the stream thread publishes is up to the log.
Fairness == WF_vars(CallerStep) /\ \A c \in Cameras : WF_vars(CameraThread(c))

Spec == Init /\ [][Next]_vars
FairSpec == Spec /\ Fairness
-----------------------------------------------------------------------------
(* Properties.                                                             *)

TypeOK ==
    /\ cpc \in {"turn", "wait", "push", "restart", "count", "queue", "settle",
                "unlocked", "end", "join", "destroyed"}
    /\ item \in (Cameras \union {None}) \X (Frames \union {None})
    /\ size \in [Cameras -> Nat] /\ pushes \in 0..MaxPushes
    /\ publishing \in Nat
    /\ queue \in [Cameras -> Seq(Frames \union {Poison})]
    /\ thread \in [Cameras -> {"none", "pop", "send", "prefetch", "count", "exited"}]
    /\ frame \in [Cameras -> Frames \union {None}]
    /\ gen \in Nat /\ ring \in [Cameras -> 0..(Buffers - 1)]
    /\ buf \in [Cameras -> [0..(Buffers - 1) -> [id : Nat \union {None}, pic : Nat \union {None}]]]
    /\ cached \in [Cameras -> SUBSET (Nat \X (0..(Buffers - 1)))]
    /\ sent \in [Cameras -> [want : Nat \union {None}, pic : Nat \union {None}]]

Busy    == {c \in Cameras : thread[c] \in {"send", "prefetch", "count"}}
Waiting == {c \in Cameras : \E i \in DOMAIN queue[c] : queue[c][i] # Poison}

\* While stream_lock_ is free, and from the destructor on, no camera thread
\* holds or will get a FrameReader: the main thread may free the segments.
ReadersReleased ==
    cpc \in {"unlocked", "end", "join", "destroyed"} => Busy = {} /\ Waiting = {}

\* The server is replaced and deleted only while no camera thread uses it.
ServerReplacedIdle == [][gen' # gen => Busy = {} /\ Waiting = {}]_vars

\* Whatever is skipped, prefetched, cached, overwritten or not decodable, the
\* picture sent for a frame is the picture of that frame.
SentRight == \A c \in Cameras : sent[c].pic = sent[c].want

\* Whatever sizes the frames of the cameras have, each waitForSent returns: a
\* frame that was counted in publishing_ finds a thread that takes it, also when
\* its camera had no thread before.
WaitsEnd == \A w \in {"wait", "restart", "settle"} : cpc = w ~> cpc # w

\* The destructor ends.
DestroyEnds == cpc = "end" ~> cpc = "destroyed"
=============================================================================
