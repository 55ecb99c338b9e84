------------------------------- MODULE Replay -------------------------------
(***************************************************************************)
(* tools/replay/replay.cc: class Replay.                                   *)
(*                                                                         *)
(* Three kinds of threads share one object.  The Qt main thread runs the   *)
(* user's calls (seekTo, pause, stop) and the slots queued to it; it owns  *)
(* the segment cache.  The stream thread walks the merged events and       *)
(* publishes them while it holds stream_lock_.  Loader workers load one    *)
(* segment each and post segmentLoadFinished to the main thread.           *)
(*                                                                         *)
(* Time is a natural number relative to route_start_ts_; SegLen time units *)
(* are one 60 s segment.  An event is identified by its time.  events_ is  *)
(* EventsOf(merged): mergeSegments assigns the two together.               *)
(***************************************************************************)
EXTENDS Integers, Sequences, FiniteSets, FiniteSetsExt

CONSTANTS
    Segs,         \* segment numbers of the route that have log and video
    SegLen,       \* time units in one segment
    Events,       \* times of the logged events
    Which,        \* the service of each event, as its order in Event::Which
    CacheLimit,   \* segment_cache_limit
    MayFail,      \* segments whose load may fail
    SeekTargets,  \* absolute times the user may seek to
    SeekDeltas,   \* relative seeks the user may ask for
    StartTargets, \* times start() may be called with
    NoLoop,       \* REPLAY_FLAG_NO_LOOP
    CanPause,     \* whether the user uses pause()
    CanStop,      \* whether the user stops the replay
    MaxUserOps,   \* bound: number of user calls
    MaxPosts      \* bound: length of the main thread's queue of posted calls

ASSUME SegsAssumption     == Segs \subseteq Nat /\ Segs # {} /\ IsFiniteSet(Segs)
ASSUME SegLenAssumption   == SegLen \in Nat \ {0}
ASSUME EventsAssumption   == Events \subseteq Nat /\ IsFiniteSet(Events)
ASSUME WhichAssumption    == Which \in [Events -> Nat]
ASSUME LimitAssumption    == CacheLimit \in Nat \ {0}
ASSUME MayFailAssumption  == MayFail \subseteq Segs
ASSUME TargetsAssumption  == /\ SeekTargets \subseteq Nat
                             /\ SeekDeltas \subseteq Int
                             /\ StartTargets \subseteq Nat
ASSUME FlagsAssumption    == {NoLoop, CanPause, CanStop} \subseteq BOOLEAN
ASSUME BoundsAssumption   == MaxUserOps \in Nat /\ MaxPosts \in Nat

VARIABLES
    seg,             \* segments_: what each entry of the map holds
    merged,          \* merged_segments_; events_ is EventsOf(merged)
    cur,             \* cur_mono_time_, relative to route_start_ts_
    current_segment, \* current_segment_
    seeking_to,      \* seeking_to_, or None
    disturbed,       \* history: the pending seek was disturbed, see ApplyErase
    events_ready,    \* events_ready_
    paused,          \* paused_: the stream thread has to leave its loop
    user_paused,     \* user_paused_
    exit,            \* exit_
    q,               \* calls posted to the main thread, oldest first
    mpc,             \* where the main thread is
    upd,             \* which lambda updateEvents runs
    arg,             \* argument of the call the main thread is in
    after,           \* where the main thread goes after checkSeekProgress
    win,             \* keys in [begin, end) of updateSegmentsCache
    key,             \* key of cur in updateSegmentsCache
    mset,            \* segments_to_merge
    unheard,         \* history: segments whose result nobody was told, see below
    ops,             \* number of user calls so far
    spc,             \* where the stream thread is
    it,              \* the event the stream thread is at, or End
    cur_which,       \* cur_which of streamThread
    out              \* history: events published since the last seek

callVars   == <<upd, arg, after>>
cacheVars  == <<win, key, mset, unheard>>
mainVars   == <<mpc, callVars, cacheVars>>
flagVars   == <<events_ready, paused, user_paused, exit>>
cursorVars == <<cur, current_segment, seeking_to, disturbed>>
streamVars == <<spc, it, cur_which, out>>
vars == <<seg, merged, q, ops, mainVars, flagVars, cursorVars, streamVars>>

-----------------------------------------------------------------------------
(* Operators on the route and the cache.                                   *)

None == -1
End  == -1

SegOf(t) == t \div SegLen
MaxSeconds == (Max(Segs) + 1) * SegLen
EventsOf(S) == {e \in Events : SegOf(e) \in S}

\* Event::operator< : by time, then by service
Later(e, t, w) == e > t \/ (e = t /\ Which[e] > w)

\* Mutant of UpperBound: the search restarts at the head of the events.
UpperBoundFromHead(S, t, w) == IF EventsOf(S) = {} THEN End ELSE Min(EventsOf(S))

\* std::upper_bound(events_, Event(w, t)) over the events of the segments S
UpperBound(S, t, w) ==
    LET L == {e \in EventsOf(S) : Later(e, t, w)}
    IN IF L = {} THEN End ELSE Min(L)

\* ++first over the events of the segments S
NextEvent(S, e) ==
    LET L == {f \in EventsOf(S) : f > e}
    IN IF L = {} THEN End ELSE Min(L)

Keys     == {n \in Segs : seg[n] # "erased"}
Loaded   == {n \in Segs : seg[n] = "loaded"}
Resident == {n \in Segs : seg[n] \in {"loading", "loaded", "failed"}}

Rank(n) == Cardinality({m \in Keys : m < n})

\* begin and end of updateSegmentsCache around the key c, as ranks in the map
Window(c) ==
    LET b0 == Rank(c) - Min({CacheLimit \div 2, Rank(c)})
        e  == b0 + Min({CacheLimit, Cardinality(Keys) - b0})
        b  == e - Min({CacheLimit, e})
    IN {n \in Keys : b <= Rank(n) /\ Rank(n) < e}

\* loadNextSegment: the first entry not loaded, if nothing is loading there
NullOnly(n) == IF seg[n] = "null" THEN {n} ELSE {}

\* loadSegmentInRange: at most one segment, forward ones first
ToLoad(c, W) ==
    LET fwd == {n \in W \ Loaded : n >= c}
        bwd == {n \in W \ Loaded : n < c}
        f   == IF fwd = {} THEN {} ELSE NullOnly(Min(fwd))
    IN IF f # {} \/ bwd = {} THEN f ELSE NullOnly(Max(bwd))

MinSeconds == IF Keys = {} THEN 0 ELSE Min(Keys) * SegLen

\* segments_.lower_bound(current_segment_)
IsLowerBound(c) ==
    /\ c \in Keys /\ c >= current_segment
    /\ \A n \in Keys : n >= current_segment => c <= n

Posts == [kind : {"finished", "orphan", "cache", "seek"}, arg : Int, ok : BOOLEAN]
Post(kind, a, ok) == [kind |-> kind, arg |-> a, ok |-> ok]

\* The lambdas run under stream_lock_; the stream thread holds it from the
\* evaluation of its wait predicate until it blocks on the condition variable.
LockFree == spc \in {"none", "lock", "waiting", "exited"}

\* Mutant of Notified: the notification is forgotten.
NotNotified == spc

\* stream_cv_.notify_one()
Notified == IF spc = "waiting" THEN "lock" ELSE spc

-----------------------------------------------------------------------------
(* Main: load() has filled segments_ and start(t) enters seekTo(t).        *)

Init ==
    /\ seg = [n \in Segs |-> "null"]
    /\ merged = {} /\ mset = {} /\ win = {} /\ key = None /\ unheard = {}
    /\ cur = 0 /\ current_segment = 0 /\ seeking_to = None /\ disturbed = FALSE
    /\ events_ready = FALSE
    /\ paused = FALSE /\ user_paused = FALSE /\ exit = FALSE
    /\ q = <<>> /\ ops = 0
    /\ mpc = "pause" /\ upd = "seek" /\ arg \in StartTargets /\ after = "cache"
    /\ spc = "none" /\ it = End /\ cur_which = 0 /\ out = {}

\* updateEvents(lambda u with argument a): what comes next is pauseStreamThread
EnterUpdate(u, a) == mpc' = "pause" /\ upd' = u /\ arg' = a

UserCall == mpc = "idle" /\ ops < MaxUserOps /\ ops' = ops + 1

SeekTo(u, t) ==
    /\ UserCall
    /\ EnterUpdate(u, t) /\ after' = "cache"
    /\ UNCHANGED <<seg, merged, q, cacheVars, flagVars, cursorVars, streamVars>>

Pause(b) ==
    /\ CanPause /\ b # user_paused
    /\ UserCall
    /\ EnterUpdate("user", IF b THEN 1 ELSE 0)
    /\ UNCHANGED <<seg, merged, q, after, cacheVars, flagVars, cursorVars, streamVars>>

\* stop(): exit_ = true and, when a stream thread runs, pauseStreamThread
Stop ==
    /\ CanStop
    /\ UserCall
    /\ exit' = TRUE
    /\ paused' = (paused \/ spc # "none")
    /\ mpc' = "notify"
    /\ UNCHANGED <<seg, merged, q, callVars, cacheVars,
                   events_ready, user_paused, cursorVars, streamVars>>

StopNotify ==
    /\ mpc = "notify"
    /\ mpc' = "join" /\ spc' = Notified
    /\ UNCHANGED <<seg, merged, q, ops, callVars, cacheVars,
                   flagVars, cursorVars, it, cur_which, out>>

\* stream_thread_->wait(), then segments_.clear()
StopJoin ==
    /\ mpc = "join" /\ spc \in {"none", "exited"}
    /\ mpc' = "stopped" /\ seg' = [n \in Segs |-> "erased"]
    /\ UNCHANGED <<merged, q, ops, callVars, cacheVars, flagVars, cursorVars, streamVars>>

\* The event loop takes the oldest posted call.
Dequeue(kind) ==
    /\ mpc = "idle" /\ q # <<>> /\ Head(q).kind = kind
    /\ q' = Tail(q)

DequeueSeek ==
    /\ Dequeue("seek")
    /\ EnterUpdate("seek", Head(q).arg) /\ after' = "cache"
    /\ UNCHANGED <<seg, merged, ops, cacheVars, flagVars, cursorVars, streamVars>>

DequeueUpdateCache ==
    /\ Dequeue("cache")
    /\ mpc' = "cache"
    /\ UNCHANGED <<seg, merged, ops, callVars, cacheVars, flagVars, cursorVars, streamVars>>

SegmentLoadFinished ==
    /\ Dequeue("finished")
    /\ IF Head(q).ok THEN mpc' = "cache" /\ UNCHANGED <<upd, arg>>
                     ELSE EnterUpdate("erase", Head(q).arg)
    /\ UNCHANGED <<seg, merged, ops, after, cacheVars, flagVars, cursorVars, streamVars>>

\* The sender was destroyed after it posted: sender() is null, and a failed
\* load dereferences it.
OrphanLoadFinished ==
    /\ Dequeue("orphan")
    /\ mpc' = (IF Head(q).ok THEN "cache" ELSE "crashed")
    /\ UNCHANGED <<seg, merged, ops, callVars, cacheVars, flagVars, cursorVars, streamVars>>

-----------------------------------------------------------------------------
(* updateEvents: raise paused_ without the lock, then run the lambda under *)
(* the lock, restore paused_ and notify.                                   *)

PauseStreamThread ==
    /\ mpc = "pause"
    /\ paused' = TRUE /\ mpc' = "apply"
    /\ UNCHANGED <<seg, merged, q, ops, callVars, cacheVars,
                   events_ready, user_paused, exit, cursorVars, streamVars>>

\* seekTo's lambda; the target is valid when its segment is in the map
ApplySeek ==
    LET target == Max({0, IF upd = "seekRel" THEN cur + arg ELSE arg})
        valid  == SegOf(target) \in Keys /\ target <= MaxSeconds
    IN /\ upd \in {"seek", "seekRel"}
       /\ IF valid
          THEN /\ current_segment' = SegOf(target)
               /\ cur' = target /\ seeking_to' = target
               /\ out' = {}
          ELSE UNCHANGED <<cur, current_segment, seeking_to, out>>
       /\ disturbed' = (~valid /\ seeking_to # None)
       /\ events_ready' = ~valid
       /\ mpc' = "check"
       /\ UNCHANGED <<seg, merged, user_paused, after>>

\* pause()'s critical section
ApplyUserPause ==
    /\ upd = "user"
    /\ user_paused' = (arg = 1)
    /\ mpc' = "idle"
    /\ UNCHANGED <<seg, merged, events_ready, after, cursorVars, out>>

\* segmentLoadFinished(false)'s lambda.  Like a seek without a target in the
\* route, it may raise events_ready_ while another seek is pending: the stream
\* thread then leaves the segment that seek waits for, and the next merge finds
\* it still pending and lowers events_ready_ again.
ApplyErase ==
    /\ upd = "erase"
    /\ seg' = [seg EXCEPT ![arg] = "erased"]
    /\ events_ready' = (Keys \ {arg} # {})
    /\ disturbed' = (seeking_to # None)
    /\ mpc' = "cache"
    /\ UNCHANGED <<merged, user_paused, after, cur, current_segment, seeking_to, out>>

\* whether a merge wakes the stream thread up
PlayableAfterMerge ==
    seeking_to = None /\ (current_segment \in mset \/ current_segment \notin Keys)

\* Mutant of ApplyMerge: checkSeekProgress is not called after the merge.
ApplyMergeUnchecked ==
    /\ upd = "merge"
    /\ merged' = mset
    /\ events_ready' = PlayableAfterMerge
    /\ mpc' = "free" /\ after' = "free"
    /\ UNCHANGED <<seg, user_paused, cursorVars, out>>

\* mergeSegments' lambda
ApplyMerge ==
    /\ upd = "merge"
    /\ merged' = mset
    /\ events_ready' = PlayableAfterMerge
    /\ mpc' = "check" /\ after' = "free"
    /\ UNCHANGED <<seg, user_paused, cursorVars, out>>

\* checkSeekProgress' lambda
ApplyReady ==
    /\ upd = "ready"
    /\ events_ready' = TRUE
    /\ mpc' = after
    /\ UNCHANGED <<seg, merged, user_paused, after, cursorVars, out>>

Lambda == ApplySeek \/ ApplyUserPause \/ ApplyErase \/ ApplyMerge \/ ApplyReady

\* Mutant of Apply: it lifts the user's pause.
ApplyResuming ==
    /\ mpc = "apply" /\ LockFree
    /\ Lambda
    /\ paused' = (upd = "user" /\ user_paused')
    /\ spc' = Notified
    /\ UNCHANGED <<q, ops, upd, arg, cacheVars, exit, it, cur_which>>

Apply ==
    /\ mpc = "apply" /\ LockFree
    /\ Lambda
    /\ paused' = user_paused'
    /\ spc' = Notified
    /\ UNCHANGED <<q, ops, upd, arg, cacheVars, exit, it, cur_which>>

\* the segment the pending seek waits for is there
SeekArrived == seeking_to # None /\ SegOf(seeking_to) \in Loaded

\* Mutant of CheckSeekProgress: the stream thread is not woken up.
CheckSeekNoWakeup ==
    /\ mpc = "check"
    /\ seeking_to' = (IF SeekArrived THEN None ELSE seeking_to)
    /\ disturbed' = (disturbed /\ ~SeekArrived)
    /\ mpc' = after
    /\ UNCHANGED <<seg, merged, q, ops, callVars, cacheVars, cur,
                   current_segment, flagVars, streamVars>>

CheckSeekProgress ==
    /\ mpc = "check"
    /\ IF SeekArrived
       THEN /\ seeking_to' = None /\ disturbed' = FALSE
            /\ EnterUpdate("ready", 0)
       ELSE /\ mpc' = after
            /\ UNCHANGED <<seeking_to, disturbed, upd, arg>>
    /\ UNCHANGED <<seg, merged, q, ops, after, cacheVars, cur, current_segment,
                   flagVars, streamVars>>

-----------------------------------------------------------------------------
(* updateSegmentsCache, in four steps: window and load, collect, merge     *)
(* (through updateEvents), free.                                           *)

\* Segment's constructor starts the workers, and only then is loadFinished
\* connected: a worker that is through by then has told nobody.  A loaded
\* segment is noticed by the next call, whoever posts it; one that failed is
\* neither loaded again nor erased until it is freed.
NotNoticed == {n \in unheard : seg[n] = "failed"}

Outcomes(n) == {"loading", "loaded"} \union (IF n \in MayFail THEN {"failed"} ELSE {})

\* a new Segment n, of which the connect finds the workers still at it or done
Load(n) ==
    \E r \in Outcomes(n) :
        /\ seg' = [seg EXCEPT ![n] = r]
        /\ unheard' = NotNoticed \union (IF r = "loading" THEN {} ELSE {n})

UpdateSegmentsCache ==
    /\ mpc = "cache"
    /\ \E c \in Keys :
        /\ IsLowerBound(c)
        /\ key' = c /\ win' = Window(c)
        /\ \/ \E n \in ToLoad(c, win') : Load(n)
           \/ ToLoad(c, win') = {} /\ unheard' = NotNoticed /\ UNCHANGED seg
    /\ mpc' = "merge"
    /\ UNCHANGED <<merged, q, ops, upd, arg, after, mset, flagVars, cursorVars, streamVars>>

\* no segment at or after the current one: the call returns at once
UpdateSegmentsCacheReturns ==
    /\ mpc = "cache"
    /\ \A c \in Keys : c < current_segment
    /\ mpc' = "idle"
    /\ UNCHANGED <<seg, merged, q, ops, callVars, cacheVars,
                   flagVars, cursorVars, streamVars>>

\* Mutant of AlreadyMerged: merge only when there is something new to merge.
NothingNew(S) == S \subseteq merged

AlreadyMerged(S) == S = merged

MergeSegments ==
    /\ mpc = "merge"
    /\ mset' = win \cap Loaded
    /\ IF AlreadyMerged(mset')
       THEN mpc' = "free" /\ UNCHANGED <<upd, arg>>
       ELSE EnterUpdate("merge", 0)
    /\ UNCHANGED <<seg, merged, q, ops, after, win, key, unheard,
                   flagVars, cursorVars, streamVars>>

\* Mutant of OutOfWindow: the segments ahead of the window are kept.
BehindWindow == {n \in Keys : \A w \in win : n < w}

OutOfWindow == Keys \ win

\* Segments out of the window are destroyed: their workers are waited for, and
\* what they had posted loses its sender.  The first call that finds the
\* current segment loaded starts the stream thread.
FreeSegments ==
    /\ mpc = "free"
    /\ LET freed == OutOfWindow
       IN /\ seg' = [n \in Segs |-> IF n \in freed THEN "null" ELSE seg[n]]
          /\ q' = [i \in DOMAIN q |->
                     IF q[i].kind = "finished" /\ q[i].arg \in freed
                     THEN [q[i] EXCEPT !.kind = "orphan"] ELSE q[i]]
          /\ unheard' = unheard \ freed
    /\ IF spc = "none" /\ seg[key] = "loaded"
       THEN spc' = "lock" /\ cur' = cur - 1
       ELSE UNCHANGED <<spc, cur>>
    /\ mpc' = "idle"
    /\ upd' = "none" /\ arg' = 0 /\ after' = "cache"
    /\ win' = {} /\ key' = None /\ mset' = {}
    /\ UNCHANGED <<merged, ops, flagVars, current_segment, seeking_to, disturbed,
                   it, cur_which, out>>

-----------------------------------------------------------------------------
(* Loader workers (Segment::loadFile and the posted loadFinished) that end *)
(* after loadFinished is connected.                                        *)

LoadDone(n, ok) ==
    /\ seg[n] = "loading"
    /\ ok \/ n \in MayFail
    /\ mpc \notin {"stopped", "crashed"} /\ Len(q) < MaxPosts
    /\ seg' = [seg EXCEPT ![n] = IF ok THEN "loaded" ELSE "failed"]
    /\ q' = Append(q, Post("finished", n, ok))
    /\ UNCHANGED <<merged, ops, mainVars, flagVars, cursorVars, streamVars>>

-----------------------------------------------------------------------------
(* streamThread and publishEvents.                                         *)

Wanted == exit \/ (events_ready /\ ~paused)

\* Take the lock, or wake up with it, and evaluate the predicate of the wait.
StreamCheck ==
    /\ spc = "lock"
    /\ IF ~Wanted THEN spc' = "block" /\ UNCHANGED <<it, events_ready>>
       ELSE IF exit THEN spc' = "exited" /\ UNCHANGED <<it, events_ready>>
       ELSE /\ it' = UpperBound(merged, cur, cur_which)
            /\ IF it' = End THEN spc' = "lock" /\ events_ready' = FALSE
                            ELSE spc' = "publish" /\ UNCHANGED events_ready
    /\ UNCHANGED <<seg, merged, q, ops, mainVars, paused, user_paused, exit,
                   cursorVars, cur_which, out>>

\* The predicate was false: release the lock and block, in one step.
StreamBlock ==
    /\ spc = "block"
    /\ spc' = "waiting"
    /\ UNCHANGED <<seg, merged, q, ops, mainVars, flagVars, cursorVars, it, cur_which, out>>

\* A condition variable may wake up without a notification.
SpuriousWakeup ==
    /\ spc = "waiting"
    /\ spc' = "lock"
    /\ UNCHANGED <<seg, merged, q, ops, mainVars, flagVars, cursorVars, it, cur_which, out>>

\* Mutant of WithCacheUpdate: a segment crossing does not queue the update.
WithoutCacheUpdate == q

\* invokeMethod(updateSegmentsCache, QueuedConnection)
WithCacheUpdate == Append(q, Post("cache", 0, TRUE))

\* One turn of publishEvents' loop up to the sleep.
PublishTurn ==
    /\ spc = "publish" /\ ~paused /\ it # End
    /\ IF current_segment # SegOf(it)
       THEN /\ Len(q) < MaxPosts
            /\ current_segment' = SegOf(it)
            /\ q' = WithCacheUpdate
       ELSE UNCHANGED <<current_segment, q>>
    /\ cur' = it
    /\ spc' = "emit"
    /\ UNCHANGED <<seg, merged, ops, mainVars, flagVars, seeking_to, disturbed,
                   it, cur_which, out>>

\* After the sleep: publish, unless paused_ was raised meanwhile.
Publish ==
    /\ spc = "emit" /\ ~paused
    /\ out' = out \union {it}
    /\ it' = NextEvent(merged, it)
    /\ spc' = "publish"
    /\ UNCHANGED <<seg, merged, q, ops, mainVars, flagVars, cursorVars, cur_which>>

\* publishEvents left by paused_, at the head of the loop or after the sleep
PublishInterrupted ==
    /\ spc \in {"publish", "emit"} /\ paused /\ it # End
    /\ cur_which' = Which[it]
    /\ spc' = "lock"
    /\ UNCHANGED <<seg, merged, q, ops, mainVars, flagVars, cursorVars, it, out>>

\* publishEvents reached the end of events_: restart the route, or go on waiting
PublishedAll ==
    /\ spc = "publish" /\ it = End
    /\ LET last == Max(Keys)
       IN IF ~NoLoop /\ current_segment >= last /\ last \in merged
          THEN /\ Len(q) < MaxPosts
               /\ q' = Append(q, Post("seek", MinSeconds, TRUE))
          ELSE UNCHANGED q
    /\ spc' = "lock"
    /\ UNCHANGED <<seg, merged, ops, mainVars, flagVars, cursorVars, it, cur_which, out>>

-----------------------------------------------------------------------------
MainStep ==
    \/ StopNotify \/ StopJoin
    \/ DequeueSeek \/ DequeueUpdateCache \/ SegmentLoadFinished \/ OrphanLoadFinished
    \/ PauseStreamThread \/ Apply \/ CheckSeekProgress
    \/ UpdateSegmentsCache \/ UpdateSegmentsCacheReturns \/ MergeSegments \/ FreeSegments

UserStep ==
    \/ \E t \in SeekTargets : SeekTo("seek", t)
    \/ \E d \in SeekDeltas : SeekTo("seekRel", d)
    \/ \E b \in BOOLEAN : Pause(b)
    \/ Stop

LoaderStep == \E n \in Segs, ok \in BOOLEAN : LoadDone(n, ok)

StreamRuns ==
    /\ mpc # "crashed"
    /\ StreamCheck \/ StreamBlock \/ PublishTurn \/ Publish \/ PublishInterrupted \/ PublishedAll

StreamStep == StreamRuns \/ SpuriousWakeup

Next == MainStep \/ UserStep \/ LoaderStep \/ StreamStep

\* The main thread runs its event loop, the workers and the stream thread are
\* scheduled; nothing makes the user call, or a wakeup come, by itself.  Taking
\* stream_lock_ is strongly fair: only wakeups without a notification could make
\* the stream thread take it again and again while the main thread waits.
Fairness ==
    /\ WF_vars(MainStep) /\ SF_vars(Apply)
    /\ WF_vars(LoaderStep)
    /\ WF_vars(StreamRuns)

Spec == Init /\ [][Next]_vars
FairSpec == Spec /\ Fairness

-----------------------------------------------------------------------------
(* Properties.                                                             *)

TypeOK ==
    /\ seg \in [Segs -> {"null", "loading", "loaded", "failed", "erased"}]
    /\ merged \subseteq Segs /\ mset \subseteq Segs /\ win \subseteq Segs
    /\ unheard \subseteq Segs
    /\ cur \in Int /\ current_segment \in Int /\ seeking_to \in Nat \union {None}
    /\ {events_ready, paused, user_paused, exit, disturbed} \subseteq BOOLEAN
    /\ q \in Seq(Posts)
    /\ mpc \in {"idle", "pause", "apply", "check", "cache", "merge", "free",
                "notify", "join", "stopped", "crashed"}
    /\ upd \in {"none", "seek", "seekRel", "user", "erase", "merge", "ready"}
    /\ arg \in Int /\ after \in {"cache", "free"}
    /\ key \in Segs \union {None} /\ ops \in Nat
    /\ spc \in {"none", "lock", "block", "waiting", "publish", "emit", "exited"}
    /\ it \in Events \union {End} /\ cur_which \in Nat /\ out \subseteq Events
    /\ spc = "emit" => it # End

\* events_ points into the logs of the merged segments: as long as the replay
\* runs or the stream thread walks events_, every merged segment is in memory
\* (updateSegmentsCache frees after the swap, stop() clears after the join).
MergedAlive ==
    mpc # "stopped" \/ spc \in {"publish", "emit"} => merged \subseteq Loaded

\* From the moment pause(true) returns until pause(false) nothing is published,
\* whatever seeks, merges and failed loads the main thread handles meanwhile.
PausedIsQuiet == user_paused => paused /\ spc \notin {"publish", "emit"}

\* Between two seeks events come out in the order of the log, however often
\* merges and pauses restart the search for the next event.
InOrder == spc = "emit" => \A e \in out : e <= it

\* Whenever the main thread is back in its event loop, at most
\* segment_cache_limit segments hold memory.
CacheBounded == mpc = "idle" => Cardinality(Resident) <= CacheLimit

\* Nothing is queued, loading or running.
Quiet == mpc = "idle" /\ q = <<>> /\ \A n \in Segs : seg[n] # "loading"

\* Every segment crossing, seek and finished load is followed by as many cache
\* updates as it takes: when nothing is under way, what is in memory is merged,
\* and it is the whole window around the current segment, unless the result of
\* a load was lost between the start of its workers and the connect.
CacheSettles ==
    Quiet => \A c \in Keys : IsLowerBound(c) =>
        /\ Loaded = merged /\ merged \subseteq Window(c)
        /\ unheard = {} => merged = Window(c)

\* With nothing under way and the current segment merged (or gone), the stream
\* thread has something to play.
Playable ==
    /\ Quiet /\ spc \notin {"none", "exited"}
    /\ current_segment \in merged \/ current_segment \notin Keys
    /\ UpperBound(merged, cur, cur_which) # End

\* The stream thread is never left asleep with events to play, unless a failed
\* load or a seek without a target disturbed the seek that is pending.
NotStalled == Playable /\ ~disturbed => events_ready

\* stop(), or a failure posted by a segment that was freed since
Ended == exit \/ mpc = "crashed"

\* Every seek completes, unless the replay ends first, the seek is disturbed, or
\* its segment failed to load before the connect.
SeekCompletes ==
    [](seeking_to # None =>
        <>(seeking_to = None \/ Ended \/ disturbed \/ SegOf(seeking_to) \in unheard))

\* Unless the user pauses it for good, the replay ends, a disturbed seek stays
\* pending or the result of a load stays lost, playback gets to the last event
\* that the segments left in the route have.
PlaysToTheEnd ==
    <>[](~user_paused /\ ~Ended /\ ~disturbed /\ unheard = {})
        => <>(\A e \in EventsOf(Keys) : e <= cur)

-----------------------------------------------------------------------------
(* What the comments and the README say, and the code does not do.         *)

\* replay.h: exit_, paused_ and events_ready_ are protected with stream_lock_.
\* Then the predicate of the wait cannot turn true between its evaluation and
\* the wait itself, and no notification is lost.
NoLostWakeup == spc = "block" => ~Wanted

\* mergeSegments: "Wake up the stream thread if the current segment is loaded or
\* invalid".  A seek to a segment whose load then fails stays pending, and
\* every merge after it leaves events_ready_ down.
WokenIfInvalid == Playable => events_ready
=============================================================================
