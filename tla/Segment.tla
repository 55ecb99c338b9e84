------------------------------- MODULE Segment -------------------------------
(***************************************************************************)
(* tools/replay/route.cc: class Segment, with the FileReader, LogReader    *)
(* and FrameReader its workers run.                                        *)
(*                                                                         *)
(* The main thread constructs the segment, which starts one worker per     *)
(* file, and connects to loadFinished afterwards.  The workers share the   *)
(* counter loading_ and the flag abort_; the last one to finish emits      *)
(* loadFinished.  The main thread may destroy the segment at any time.     *)
(***************************************************************************)
EXTENDS Integers, FiniteSets

CONSTANTS
    NumFiles,    \* files of the segment, in the order the constructor starts them
    Videos,      \* the files that are camera files; the others are logs
    Remote,      \* the files that are https:// urls
    Cached,      \* the remote files that are in the download cache already
    Good,        \* the files that exist and can be read when they are fetched
    Flaky,       \* the remote files whose download may fail
    NoFileCache, \* REPLAY_FLAG_NO_FILE_CACHE
    MaxRetries,  \* FileReader::max_retries_
    CanDestroy   \* whether the owner destroys the segment

Files == 1..NumFiles

ASSUME FilesAssumption   == NumFiles \in Nat \ {0}
ASSUME KindsAssumption   == Videos \subseteq Files /\ Remote \subseteq Files /\ Good \subseteq Files
ASSUME CachedAssumption  == Cached \subseteq Remote /\ Flaky \subseteq Remote
ASSUME OptionsAssumption == {NoFileCache, CanDestroy} \subseteq BOOLEAN /\ MaxRetries \in Nat

VARIABLES
    main,      \* the owner: "build", "connect", "run", "disconnected",
               \* "destroying", "destroyed"
    next,      \* the file the constructor starts next
    worker,    \* worker of each file: "none", "fetch", "download", "parse",
               \* "end", "count", "emit", "done", "cancelled"
    ok,        \* local variable success of each worker
    tries,     \* failed downloads of each worker
    cache,     \* remote files in the download cache
    loading,   \* loading_
    abort,     \* abort_
    connected, \* loadFinished is connected to the owner
    told       \* what loadFinished told the owner last

ownerVars  == <<main, next, connected>>
workerVars == <<worker, ok, tries, cache>>
vars == <<ownerVars, workerVars, loading, abort, told>>

Init ==
    /\ main = "build" /\ next = 1
    /\ worker = [f \in Files |-> "none"]
    /\ ok = [f \in Files |-> FALSE]
    /\ tries = [f \in Files |-> 0]
    /\ cache = Cached
    /\ loading = 0 /\ abort = FALSE
    /\ connected = FALSE /\ told = "nothing"

-----------------------------------------------------------------------------
(* The owner.                                                              *)

\* One turn of the constructor's loop: ++loading_, then QtConcurrent::run.
StartFile ==
    /\ main = "build"
    /\ loading' = loading + 1
    /\ worker' = [worker EXCEPT ![next] = "fetch"]
    /\ next' = next + 1
    /\ main' = IF next = NumFiles THEN "connect" ELSE "build"
    /\ UNCHANGED <<connected, ok, tries, cache, abort, told>>

\* loadSegmentInRange connects once the constructor has returned.
Connect ==
    /\ main = "connect"
    /\ connected' = TRUE /\ main' = "run"
    /\ UNCHANGED <<next, workerVars, loading, abort, told>>

\* The destructor: disconnect(), abort_ = true, waitForFinished().
Disconnect ==
    /\ CanDestroy /\ main = "run"
    /\ connected' = FALSE /\ main' = "disconnected"
    /\ UNCHANGED <<next, workerVars, loading, abort, told>>

AbortLoads ==
    /\ main = "disconnected"
    /\ abort' = TRUE /\ main' = "destroying"
    /\ UNCHANGED <<next, connected, workerVars, loading, told>>

\* Mutant of WaitForFinished: the destructor does not wait for its workers.
DestroyAtOnce ==
    /\ main = "destroying"
    /\ main' = "destroyed"
    /\ UNCHANGED <<next, connected, workerVars, loading, abort, told>>

\* setCancelOnWait: a worker the pool has not started yet never runs.
CancelOnWait(f) ==
    /\ main = "destroying"
    /\ worker[f] = "fetch" /\ tries[f] = 0
    /\ worker' = [worker EXCEPT ![f] = "cancelled"]
    /\ UNCHANGED <<ownerVars, ok, tries, cache, loading, abort, told>>

WaitForFinished ==
    /\ main = "destroying"
    /\ \A f \in Files : worker[f] \in {"done", "cancelled"}
    /\ main' = "destroyed"
    /\ UNCHANGED <<next, connected, workerVars, loading, abort, told>>

-----------------------------------------------------------------------------
(* The workers.                                                            *)

GoTo(f, pc) == worker' = [worker EXCEPT ![f] = pc]

\* FrameReader::load skips the read when the local path exists, whatever the
\* flag; FileReader::read uses the cache only when it is on.
ReadsLocally(f) ==
    f \notin Remote \/ (f \in cache /\ (f \in Videos \/ ~NoFileCache))

FetchLocal(f) ==
    /\ worker[f] = "fetch" /\ ReadsLocally(f)
    /\ GoTo(f, IF f \in Good THEN "parse" ELSE "end")
    /\ UNCHANGED <<ownerVars, ok, tries, cache, loading, abort, told>>

\* the condition of the loop in FileReader::download
CanTry(f) == tries[f] <= MaxRetries /\ ~abort

\* The next attempt, with the sleep before it.
StartDownload(f) ==
    /\ worker[f] = "fetch" /\ ~ReadsLocally(f) /\ CanTry(f)
    /\ GoTo(f, "download")
    /\ UNCHANGED <<ownerVars, ok, tries, cache, loading, abort, told>>

Downloaded(f) ==
    /\ worker[f] = "download" /\ f \in Good
    /\ GoTo(f, "parse")
    /\ cache' = IF NoFileCache THEN cache ELSE cache \union {f}
    /\ UNCHANGED <<ownerVars, ok, tries, loading, abort, told>>

\* httpGet returns nothing: the file is missing, the transfer failed, or it
\* saw abort_.
DownloadFails(f) ==
    /\ worker[f] = "download" /\ (f \in Flaky \/ f \notin Good \/ abort)
    /\ tries' = [tries EXCEPT ![f] = @ + 1]
    /\ GoTo(f, "fetch")
    /\ UNCHANGED <<ownerVars, ok, cache, loading, abort, told>>

GiveUp(f) ==
    /\ worker[f] = "fetch" /\ ~ReadsLocally(f) /\ ~CanTry(f)
    /\ GoTo(f, "end")
    /\ UNCHANGED <<ownerVars, ok, tries, cache, loading, abort, told>>

\* What parsing may return.  A log reader fails once it is aborted.  A frame
\* reader opens the local path, and once aborted has read some packets or none.
ParseResults(f) ==
    IF f \notin Videos THEN {~abort}
    ELSE IF f \in Remote /\ f \notin cache THEN {FALSE}
    ELSE {TRUE, ~abort}

Parse(f) ==
    /\ worker[f] = "parse"
    /\ \E b \in ParseResults(f) : ok' = [ok EXCEPT ![f] = b]
    /\ GoTo(f, "end")
    /\ UNCHANGED <<ownerVars, tries, cache, loading, abort, told>>

\* Mutants of MarkAbort: a failure does not stop the other files; abort_ is
\* set after loading_ is decremented.
MarkNothing(f) ==
    /\ worker[f] = "end"
    /\ GoTo(f, "count")
    /\ UNCHANGED <<ownerVars, ok, tries, cache, loading, abort, told>>
MarkAfterCount(f) ==
    \/ MarkNothing(f)
    \/ /\ worker[f] = "done" /\ ~ok[f] /\ ~abort
       /\ abort' = TRUE
       /\ UNCHANGED <<ownerVars, workerVars, loading, told>>

\* "abort all loading jobs"
MarkAbort(f) ==
    /\ worker[f] = "end"
    /\ abort' = (abort \/ ~ok[f])
    /\ GoTo(f, "count")
    /\ UNCHANGED <<ownerVars, ok, tries, cache, loading, told>>

\* Mutant of Count: a worker that failed returns early.
CountSuccess(f) ==
    /\ worker[f] = "count"
    /\ loading' = IF ok[f] THEN loading - 1 ELSE loading
    /\ GoTo(f, IF loading' = 0 THEN "emit" ELSE "done")
    /\ UNCHANGED <<ownerVars, ok, tries, cache, abort, told>>

\* --loading_ == 0
Count(f) ==
    /\ worker[f] = "count"
    /\ loading' = loading - 1
    /\ GoTo(f, IF loading' = 0 THEN "emit" ELSE "done")
    /\ UNCHANGED <<ownerVars, ok, tries, cache, abort, told>>

\* Mutant of Emit: the last worker reports its own result.
EmitOwn(f) ==
    /\ worker[f] = "emit"
    /\ told' = IF ~connected THEN told ELSE IF ok[f] THEN "ok" ELSE "failed"
    /\ GoTo(f, "done")
    /\ UNCHANGED <<ownerVars, ok, tries, cache, loading, abort>>

\* emit loadFinished(!abort_), which reaches the owner if it is connected
Emit(f) ==
    /\ worker[f] = "emit"
    /\ told' = IF ~connected THEN told ELSE IF abort THEN "failed" ELSE "ok"
    /\ GoTo(f, "done")
    /\ UNCHANGED <<ownerVars, ok, tries, cache, loading, abort>>

-----------------------------------------------------------------------------
Worker(f) ==
    \/ FetchLocal(f) \/ StartDownload(f) \/ Downloaded(f) \/ DownloadFails(f) \/ GiveUp(f)
    \/ Parse(f) \/ MarkAbort(f) \/ Count(f) \/ Emit(f)

Owner ==
    \/ StartFile \/ Connect \/ AbortLoads \/ WaitForFinished
    \/ \E f \in Files : CancelOnWait(f)

Next == Owner \/ Disconnect \/ \E f \in Files : Worker(f)

\* The constructor and the destructor run on, and the pool runs every worker;
\* the owner is free not to destroy the segment.
Fairness == WF_vars(Owner) /\ \A f \in Files : WF_vars(Worker(f))

Spec == Init /\ [][Next]_vars
FairSpec == Spec /\ Fairness

-----------------------------------------------------------------------------
(* Properties.                                                             *)

TypeOK ==
    /\ main \in {"build", "connect", "run", "disconnected", "destroying", "destroyed"}
    /\ next \in 1..(NumFiles + 1) /\ (main = "build" => next \in Files)
    /\ worker \in [Files -> {"none", "fetch", "download", "parse",
                             "end", "count", "emit", "done", "cancelled"}]
    /\ ok \in [Files -> BOOLEAN]
    /\ tries \in [Files -> 0..(MaxRetries + 1)]
    /\ cache \subseteq Remote
    /\ loading \in Nat
    /\ {abort, connected} \subseteq BOOLEAN
    /\ told \in {"nothing", "ok", "failed"}

Counted ==
    {f \in Files : worker[f] \in {"fetch", "download", "parse", "end", "count", "cancelled"}}

\* loading_ counts the workers that still have to report, while the
\* constructor adds to it and the workers subtract: zero means all have (one
\* that was cancelled never will).
CountsRunning == loading = Cardinality(Counted)

isLoaded == loading = 0 /\ ~abort

\* isLoaded(), which the main thread asks at any time once the segment is
\* built, says yes only when every file has been read to its end.
LoadedIsComplete ==
    main = "run" /\ isLoaded => \A f \in Files : worker[f] \in {"emit", "done"} /\ ok[f]

\* Once loaded, a segment stays loaded until it is destroyed: what mergeSegments
\* has merged is not taken away by a worker that is late.
LoadedIsStable ==
    [][main = "run" /\ main' = "run" /\ isLoaded => isLoaded']_vars

\* Once the destructor is past disconnect() nobody is told anything, and once
\* it has returned no worker still touches the segment.
DestroyIsFinal ==
    [][(main \in {"disconnected", "destroying", "destroyed"})
          => told' = told /\ (main = "destroyed" => worker' = worker)]_vars

\* Whatever fails, is retried or is aborted, the load ends, or the destructor
\* does.
LoadEnds == <>(main = "destroyed" \/ (main # "build" /\ loading = 0))

Status ==
    IF main \in {"disconnected", "destroying", "destroyed"} THEN "destroyed"
    ELSE IF abort THEN "failed"
    ELSE IF main = "build" \/ loading > 0 THEN "loading" ELSE "loaded"

Abstract == INSTANCE SegmentLoad WITH status <- Status

\* The segment keeps the promise Replay relies on.
KeepsPromise == Abstract!Spec
=============================================================================
