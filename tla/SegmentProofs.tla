---------------------------- MODULE SegmentProofs ----------------------------
(* Theorems about Segment, for every number of files, set of failing         *)
(* downloads and number of retries.                                          *)
EXTENDS Segment, TLAPS, FiniteSetTheorems

\* The constructor has started the files before next, and only those.
StartedInOrder ==
    \A f \in Files : worker[f] = "none" <=> (main = "build" /\ f >= next)

\* Only remote files are downloaded, at most MaxRetries + 1 times.
RetriesBounded ==
    \A f \in Files : worker[f] = "download" => f \in Remote /\ tries[f] <= MaxRetries

\* A worker that is about to report has marked its failure.
FailureMarked ==
    \A f \in Files : worker[f] \in {"count", "emit", "done"} => ok[f] \/ abort

\* The owner's state and what it has done to the segment.
OwnerInv ==
    /\ connected <=> main = "run"
    /\ main = "destroyed" => \A f \in Files : worker[f] \in {"done", "cancelled"}

IInv == TypeOK /\ CountsRunning /\ StartedInOrder /\ RetriesBounded /\ FailureMarked /\ OwnerInv

LEMMA FilesFinite == IsFiniteSet(Files)
<1>1. NumFiles \in Int BY FilesAssumption
<1> QED BY <1>1, FS_Interval DEF Files

LEMMA CountedFinite == IsFiniteSet(Counted)
<1>1. Counted \in SUBSET Files BY DEF Counted
<1> QED BY <1>1, FilesFinite, FS_Subset

LEMMA CountedEmpty ==
    ASSUME CountsRunning, loading = 0
    PROVE  Counted = {}
BY CountedFinite, FS_EmptySet DEF CountsRunning

-----------------------------------------------------------------------------
(* Type correctness, with the bound on the retries it rests on.            *)

LEMMA TypeInit == Init => TypeOK /\ RetriesBounded
<1>1. NumFiles \in Nat /\ NumFiles >= 1 /\ MaxRetries \in Nat
  BY FilesAssumption, OptionsAssumption
<1>2. Cached \subseteq Remote BY CachedAssumption
<1> SUFFICES ASSUME Init PROVE TypeOK /\ RetriesBounded
  OBVIOUS
<1>3. worker = [f \in Files |-> "none"] /\ tries = [f \in Files |-> 0]
  BY DEF Init
<1>4. /\ worker \in [Files -> {"none", "fetch", "download", "parse",
                             "end", "count", "emit", "done", "cancelled"}]
      /\ tries \in [Files -> 0..(MaxRetries + 1)]
      /\ ok \in [Files -> BOOLEAN]
  BY <1>1, <1>3 DEF Init
<1>5. next \in 1..(NumFiles + 1) /\ next \in Files /\ loading \in Nat
  BY <1>1 DEF Init, Files
<1>6. {abort, connected} \subseteq BOOLEAN
  BY Zenon DEF Init
<1> QED BY <1>2, <1>3, <1>4, <1>5, <1>6 DEF Init, TypeOK, RetriesBounded

LEMMA TypeStep ==
    ASSUME TypeOK, CountsRunning, RetriesBounded, [Next]_vars
    PROVE  TypeOK' /\ RetriesBounded'
<1>a. NumFiles \in Nat /\ NumFiles >= 1 /\ MaxRetries \in Nat
  BY FilesAssumption, OptionsAssumption
<1> USE DEF TypeOK, RetriesBounded, ownerVars, workerVars
<1>1. CASE UNCHANGED vars BY <1>1 DEF vars
<1>2. CASE StartFile
  BY <1>a, <1>2 DEF StartFile, Files
<1>3. CASE Connect \/ Disconnect \/ AbortLoads \/ WaitForFinished
  BY <1>3 DEF Connect, Disconnect, AbortLoads, WaitForFinished
<1>11. ASSUME NEW f \in Files, CancelOnWait(f) PROVE TypeOK' /\ RetriesBounded'
  BY <1>11 DEF CancelOnWait
<1>4. ASSUME NEW f \in Files, FetchLocal(f) PROVE TypeOK' /\ RetriesBounded'
  <2>1. worker' \in [Files -> {"none", "fetch", "download", "parse", "end", "count", "emit", "done", "cancelled"}]
    BY <1>4 DEF FetchLocal, GoTo
  <2>2. \A g \in Files : worker'[g] = "download" => worker[g] = "download"
    BY <1>4 DEF FetchLocal, GoTo
  <2> QED BY <1>4, <2>1, <2>2 DEF FetchLocal
<1>5. ASSUME NEW f \in Files, StartDownload(f) PROVE TypeOK' /\ RetriesBounded'
  BY <1>5 DEF StartDownload, GoTo, CanTry, ReadsLocally
<1>6. ASSUME NEW f \in Files, Downloaded(f) PROVE TypeOK' /\ RetriesBounded'
  <2>1. cache' \subseteq Remote BY <1>6 DEF Downloaded
  <2> QED BY <1>6, <2>1 DEF Downloaded, GoTo
<1>7. ASSUME NEW f \in Files, DownloadFails(f) PROVE TypeOK' /\ RetriesBounded'
  BY <1>7, <1>a DEF DownloadFails, GoTo
<1>8. ASSUME NEW f \in Files, GiveUp(f) \/ MarkAbort(f) \/ Emit(f) PROVE TypeOK' /\ RetriesBounded'
  BY <1>8 DEF GiveUp, MarkAbort, Emit, GoTo
<1>9. ASSUME NEW f \in Files, Parse(f) PROVE TypeOK' /\ RetriesBounded'
  <2>1. ParseResults(f) \subseteq BOOLEAN BY Zenon DEF ParseResults
  <2> QED BY <1>9, <2>1 DEF Parse, GoTo
<1>10. ASSUME NEW f \in Files, Count(f) PROVE TypeOK' /\ RetriesBounded'
  <2>1. f \in Counted BY <1>10 DEF Count, Counted
  <2>2. loading # 0 BY <2>1, CountedEmpty
  <2> QED BY <1>10, <2>2 DEF Count, GoTo
<1> QED BY <1>1, <1>2, <1>3, <1>4, <1>5, <1>6, <1>7, <1>8, <1>9, <1>10, <1>11 DEF Next, Owner, Worker

-----------------------------------------------------------------------------
(* loading_ counts the workers that still have to report.                  *)

\* The constructor starts a worker: one more is counted.
LEMMA CountStart ==
    ASSUME TypeOK, CountsRunning, StartedInOrder, StartFile
    PROVE  CountsRunning'
<1>1. next \in Files /\ next \notin Counted
  BY DEF TypeOK, StartFile, StartedInOrder, Counted
<1>2. Counted' = Counted \union {next}
  BY <1>1 DEF StartFile, Counted, TypeOK
<1>3. Cardinality(Counted \union {next}) = Cardinality(Counted) + 1
  BY <1>1, CountedFinite, FS_AddElement
<1> QED BY <1>2, <1>3 DEF StartFile, CountsRunning

\* A worker reports: one less is counted.
LEMMA CountReport ==
    ASSUME TypeOK, CountsRunning, NEW f \in Files, Count(f)
    PROVE  CountsRunning'
<1>1. f \in Counted BY DEF Count, Counted
<1>2. Counted' = Counted \ {f}
  BY DEF Count, GoTo, Counted, TypeOK
<1>3. Cardinality(Counted \ {f}) = Cardinality(Counted) - 1
  BY <1>1, CountedFinite, FS_RemoveElement
<1> QED BY <1>2, <1>3 DEF Count, CountsRunning

\* Every other step of a worker keeps it among the counted ones, or out of them.
LEMMA CountSame ==
    ASSUME TypeOK, CountsRunning, NEW f \in Files,
           \/ FetchLocal(f) \/ StartDownload(f) \/ Downloaded(f) \/ DownloadFails(f)
           \/ GiveUp(f) \/ Parse(f) \/ MarkAbort(f) \/ Emit(f) \/ CancelOnWait(f)
    PROVE  CountsRunning' /\ loading' = loading
<1>1. loading' = loading
  BY DEF FetchLocal, StartDownload, Downloaded, DownloadFails, GiveUp, Parse, MarkAbort, Emit,
         CancelOnWait
<1>2. \E pc : worker' = [worker EXCEPT ![f] = pc]
  BY Zenon DEF GoTo, FetchLocal, StartDownload, Downloaded, DownloadFails, GiveUp, Parse, MarkAbort, Emit,
         CancelOnWait
<1>3. worker[f] \in {"fetch", "download", "parse", "end", "count", "cancelled"}
          <=> worker'[f] \in {"fetch", "download", "parse", "end", "count", "cancelled"}
  BY DEF FetchLocal, StartDownload, Downloaded, DownloadFails, GiveUp, Parse, MarkAbort, Emit,
         CancelOnWait, GoTo, TypeOK
<1>4. \A g \in Files \ {f} : worker'[g] = worker[g]
  BY <1>2 DEF TypeOK
<1>5. Counted' = Counted
  BY <1>3, <1>4 DEF Counted
<1> QED BY <1>1, <1>5 DEF CountsRunning

LEMMA CountInit == Init => CountsRunning
<1> SUFFICES ASSUME Init PROVE CountsRunning
  OBVIOUS
<1>1. Counted = {} BY DEF Init, Counted
<1> QED BY <1>1, FS_EmptySet DEF Init, CountsRunning

LEMMA CountStep ==
    ASSUME TypeOK, CountsRunning, StartedInOrder, [Next]_vars
    PROVE  CountsRunning'
<1>1. CASE UNCHANGED <<worker, loading>>
  BY <1>1 DEF CountsRunning, Counted
<1>2. CASE Owner
  BY <1>1, <1>2, CountStart, CountSame
     DEF Owner, Connect, AbortLoads, WaitForFinished, workerVars
<1>3. CASE Disconnect
  BY <1>1, <1>3 DEF Disconnect, workerVars
<1>4. ASSUME NEW f \in Files, Worker(f) PROVE CountsRunning'
  BY <1>4, CountReport, CountSame DEF Worker
<1>5. CASE UNCHANGED vars
  BY <1>1, <1>5 DEF vars, workerVars
<1> QED BY <1>2, <1>3, <1>4, <1>5 DEF Next

-----------------------------------------------------------------------------
(* The order of the constructor, of a worker and of the destructor.        *)

LEMMA OrderInit == Init => StartedInOrder /\ FailureMarked /\ OwnerInv
<1> SUFFICES ASSUME Init PROVE StartedInOrder /\ FailureMarked /\ OwnerInv
  OBVIOUS
<1>1. \A f \in Files : worker[f] = "none" BY DEF Init
<1>2. \A f \in Files : f >= next BY FilesAssumption DEF Init, Files
<1> QED BY <1>1, <1>2 DEF Init, StartedInOrder, FailureMarked, OwnerInv

LEMMA StartedStep ==
    ASSUME TypeOK, StartedInOrder, [Next]_vars
    PROVE  StartedInOrder'
<1>1. CASE UNCHANGED <<worker, main, next>>
  BY <1>1 DEF StartedInOrder
<1>2. CASE StartFile
  <2>1. next \in Int /\ NumFiles \in Int /\ \A f \in Files : f \in Int /\ f <= NumFiles
    BY FilesAssumption DEF TypeOK, Files
  <2>2. next \in Files BY <1>2 DEF StartFile, TypeOK
  <2>3. \A f \in Files : worker'[f] = "none" <=> worker[f] = "none" /\ f # next
    BY <1>2, <2>2 DEF StartFile, TypeOK
  <2>4. \A f \in Files : worker'[f] = "none" <=> f > next
    BY <1>2, <2>1, <2>2, <2>3 DEF StartFile, StartedInOrder
  <2>5. next' = next + 1 /\ main' = IF next = NumFiles THEN "connect" ELSE "build"
    BY <1>2 DEF StartFile
  <2>6. ASSUME NEW f \in Files
        PROVE  f > next <=> main' = "build" /\ f >= next'
    BY <2>1, <2>2, <2>5, <2>6
  <2> QED BY <2>4, <2>6 DEF StartedInOrder
<1>3. CASE Connect \/ AbortLoads \/ WaitForFinished \/ Disconnect
  BY <1>3 DEF Connect, AbortLoads, WaitForFinished, Disconnect, workerVars, StartedInOrder
<1>6. ASSUME NEW f \in Files, CancelOnWait(f) PROVE StartedInOrder'
  BY <1>6 DEF CancelOnWait, ownerVars, TypeOK, StartedInOrder
<1>4. ASSUME NEW f \in Files, Worker(f) PROVE StartedInOrder'
  <2>1. /\ main' = main /\ next' = next
        /\ worker[f] # "none" /\ worker'[f] # "none"
        /\ \A g \in Files \ {f} : worker'[g] = worker[g]
    BY <1>4 DEF Worker, FetchLocal, StartDownload, Downloaded, DownloadFails, GiveUp, Parse,
                MarkAbort, Count, Emit, GoTo, TypeOK, ownerVars
  <2> QED BY <2>1 DEF StartedInOrder
<1>5. CASE UNCHANGED vars
  BY <1>1, <1>5 DEF vars, workerVars, ownerVars
<1> QED BY <1>2, <1>3, <1>4, <1>5, <1>6 DEF Next, Owner

LEMMA MarkedStep ==
    ASSUME TypeOK, FailureMarked, [Next]_vars
    PROVE  FailureMarked'
<1>1. CASE UNCHANGED <<worker, ok>> /\ (abort => abort')
  BY <1>1 DEF FailureMarked
<1>2. CASE StartFile
  BY <1>2 DEF StartFile, FailureMarked, TypeOK
<1>3. CASE Connect \/ AbortLoads \/ WaitForFinished \/ Disconnect
  BY <1>1, <1>3 DEF Connect, AbortLoads, WaitForFinished, Disconnect, workerVars
<1>6. ASSUME NEW f \in Files, CancelOnWait(f) PROVE FailureMarked'
  BY <1>6 DEF CancelOnWait, TypeOK, FailureMarked
<1>4. ASSUME NEW f \in Files, Worker(f) PROVE FailureMarked'
  <2>1. \A g \in Files \ {f} : worker'[g] = worker[g] /\ ok'[g] = ok[g]
    BY <1>4 DEF Worker, FetchLocal, StartDownload, Downloaded, DownloadFails, GiveUp, Parse,
                MarkAbort, Count, Emit, GoTo, TypeOK
  <2>2. abort => abort'
    BY <1>4 DEF Worker, FetchLocal, StartDownload, Downloaded, DownloadFails, GiveUp, Parse,
                MarkAbort, Count, Emit
  <2>3. worker'[f] \in {"count", "emit", "done"} => ok'[f] \/ abort'
    <3>1. CASE MarkAbort(f)
      <4>1. ok' = ok /\ abort' = (abort \/ ~ok[f]) BY <3>1 DEF MarkAbort
      <4> QED BY <4>1
    <3>2. CASE Count(f) \/ Emit(f)
      <4>1. worker[f] \in {"count", "emit", "done"} /\ ok' = ok
        BY <3>2 DEF Count, Emit
      <4> QED BY <4>1, <2>2 DEF FailureMarked
    <3>3. CASE \/ FetchLocal(f) \/ StartDownload(f) \/ Downloaded(f) \/ DownloadFails(f)
               \/ GiveUp(f) \/ Parse(f)
      BY <3>3 DEF FetchLocal, StartDownload, Downloaded, DownloadFails, GiveUp, Parse,
                  GoTo, TypeOK
    <3> QED BY <1>4, <3>1, <3>2, <3>3 DEF Worker
  <2> QED BY <2>1, <2>2, <2>3 DEF FailureMarked
<1>5. CASE UNCHANGED vars
  BY <1>1, <1>5 DEF vars, workerVars
<1> QED BY <1>2, <1>3, <1>4, <1>5, <1>6 DEF Next, Owner

LEMMA OwnerStep ==
    ASSUME TypeOK, OwnerInv, [Next]_vars
    PROVE  OwnerInv'
<1>1. CASE UNCHANGED <<main, connected, worker>>
  BY <1>1 DEF OwnerInv
<1>2. CASE StartFile
  BY <1>2 DEF StartFile, OwnerInv
<1>3. CASE Connect \/ AbortLoads \/ WaitForFinished \/ Disconnect
  BY <1>3 DEF Connect, AbortLoads, WaitForFinished, Disconnect, workerVars, OwnerInv
<1>6. ASSUME NEW f \in Files, CancelOnWait(f) PROVE OwnerInv'
  BY <1>6 DEF CancelOnWait, ownerVars, OwnerInv
<1>4. ASSUME NEW f \in Files, Worker(f) PROVE OwnerInv'
  BY <1>4 DEF Worker, FetchLocal, StartDownload, Downloaded, DownloadFails, GiveUp, Parse,
              MarkAbort, Count, Emit, ownerVars, OwnerInv
<1>5. CASE UNCHANGED vars
  BY <1>1, <1>5 DEF vars, workerVars, ownerVars
<1> QED BY <1>2, <1>3, <1>4, <1>5, <1>6 DEF Next, Owner

\* The inductive invariant of Segment.
THEOREM SegmentInv == Spec => []IInv
<1>1. Init => IInv
  BY TypeInit, CountInit, OrderInit DEF IInv
<1>2. IInv /\ [Next]_vars => IInv'
  BY TypeStep, CountStep, StartedStep, MarkedStep, OwnerStep DEF IInv
<1> QED BY <1>1, <1>2, PTL DEF Spec

\* Segment::loading_ and its workers always agree, and every variable has its
\* type: no worker is retried more than max_retries_ times.
THEOREM CounterIsExact == Spec => [](TypeOK /\ CountsRunning)
<1>1. IInv => TypeOK /\ CountsRunning BY DEF IInv
<1> QED BY <1>1, SegmentInv, PTL

-----------------------------------------------------------------------------
(* What isLoaded() means.                                                  *)

\* With every worker started and none left to report, all have reported.
LEMMA AllReported ==
    ASSUME IInv, main # "build", loading = 0
    PROVE  \A f \in Files : worker[f] \in {"emit", "done"}
<1>1. Counted = {} BY CountedEmpty DEF IInv
<1> QED BY <1>1 DEF IInv, TypeOK, StartedInOrder, Counted

\* isLoaded() is true only when every file has been read to its end.
THEOREM LoadedMeansComplete == Spec => []LoadedIsComplete
<1>1. IInv => LoadedIsComplete
  <2> SUFFICES ASSUME IInv, main = "run", isLoaded, NEW f \in Files
               PROVE  worker[f] \in {"emit", "done"} /\ ok[f]
    BY DEF LoadedIsComplete
  <2>1. loading = 0 /\ ~abort BY Zenon DEF isLoaded
  <2>2. worker[f] \in {"emit", "done"} BY <2>1, AllReported
  <2>3. ok[f] BY <2>1, <2>2 DEF IInv, FailureMarked
  <2> QED BY <2>2, <2>3
<1> QED BY <1>1, SegmentInv, PTL

\* What the workers can still change once all of them have reported: nothing
\* but the last loadFinished.
LEMMA AfterReport ==
    ASSUME IInv, main # "build", loading = 0, NEW f \in Files, Worker(f)
    PROVE  Emit(f)
<1>1. worker[f] \in {"emit", "done"} BY AllReported
<1> QED BY <1>1 DEF Worker, FetchLocal, StartDownload, Downloaded, DownloadFails, GiveUp, Parse,
                    MarkAbort, Count

\* A loaded segment stays loaded until its destructor runs.
THEOREM LoadedForGood == Spec => LoadedIsStable
<1>1. IInv /\ [Next]_vars => [main = "run" /\ main' = "run" /\ isLoaded => isLoaded']_vars
  <2> SUFFICES ASSUME IInv, Next, main = "run", main' = "run", isLoaded
               PROVE  isLoaded'
    BY DEF isLoaded, vars, ownerVars
  <2>1. loading = 0 /\ ~abort BY Zenon DEF isLoaded
  <2>2. CASE Owner \/ Disconnect
    <3>1. FALSE
      BY <2>2 DEF Owner, StartFile, Connect, AbortLoads, CancelOnWait, WaitForFinished, Disconnect
    <3> QED BY <3>1
  <2>3. ASSUME NEW f \in Files, Worker(f) PROVE isLoaded'
    <3>1. Emit(f) BY <2>1, <2>3, AfterReport
    <3>2. loading' = loading /\ abort' = abort BY <3>1, Zenon DEF Emit
    <3> QED BY <2>1, <3>2, Zenon DEF isLoaded
  <2> QED BY <2>2, <2>3 DEF Next
<1> QED BY <1>1, SegmentInv, PTL DEF Spec, LoadedIsStable

\* The destructor silences the segment and outlives its workers.
THEOREM DestructionIsFinal == Spec => DestroyIsFinal
<1>1. IInv /\ [Next]_vars
        => [(main \in {"disconnected", "destroying", "destroyed"})
              => told' = told /\ (main = "destroyed" => worker' = worker)]_vars
  <2> SUFFICES ASSUME IInv, Next, main \in {"disconnected", "destroying", "destroyed"}
               PROVE  told' = told /\ (main = "destroyed" => worker' = worker)
    BY DEF vars, workerVars
  <2>1. ~connected BY DEF IInv, OwnerInv
  <2>2. CASE Owner \/ Disconnect
    BY <2>2 DEF Owner, StartFile, Connect, AbortLoads, CancelOnWait, WaitForFinished, Disconnect,
                workerVars
  <2>3. ASSUME NEW f \in Files, Worker(f)
        PROVE  told' = told /\ main # "destroyed"
    <3>1. worker[f] \notin {"done", "cancelled"}
      BY <2>3 DEF Worker, FetchLocal, StartDownload, Downloaded, DownloadFails, GiveUp, Parse,
                  MarkAbort, Count, Emit
    <3>2. main # "destroyed" BY <3>1 DEF IInv, OwnerInv
    <3>3. told' = told
      BY <2>1, <2>3 DEF Worker, FetchLocal, StartDownload, Downloaded, DownloadFails, GiveUp,
                        Parse, MarkAbort, Count, Emit
    <3> QED BY <3>2, <3>3
  <2> QED BY <2>2, <2>3 DEF Next
<1> QED BY <1>1, SegmentInv, PTL DEF Spec, DestroyIsFinal

-----------------------------------------------------------------------------
(* The promise.                                                            *)

Destroying == main \in {"disconnected", "destroying", "destroyed"}

\* A step of the constructor leaves the segment loading, or failed.
LEMMA PromiseOwner ==
    ASSUME IInv, Owner \/ Disconnect
    PROVE  Abstract!Destroy \/ UNCHANGED <<Status, told>>
<1> USE DEF Status, IInv, TypeOK
<1>1. CASE StartFile
  <2>1. loading \in Nat /\ loading' > 0 /\ main = "build" /\ ~Destroying /\ ~Destroying'
    BY <1>1 DEF StartFile, Destroying
  <2>2. abort' = abort /\ told' = told BY <1>1 DEF StartFile
  <2> QED BY <2>1, <2>2 DEF Destroying
<1>2. CASE Connect
  BY <1>2 DEF Connect
<1>3. CASE AbortLoads \/ WaitForFinished
  BY <1>3 DEF AbortLoads, WaitForFinished
<1>4. CASE Disconnect
  BY <1>4 DEF Disconnect, Abstract!Destroy
<1>5. ASSUME NEW f \in Files, CancelOnWait(f) PROVE UNCHANGED <<Status, told>>
  BY <1>5 DEF CancelOnWait, ownerVars
<1> QED BY <1>1, <1>2, <1>3, <1>4, <1>5 DEF Owner

LEMMA PromiseWorker ==
    ASSUME IInv, NEW f \in Files, Worker(f)
    PROVE  [Abstract!Next]_<<Status, told>>
<1>1. main' = main
  BY DEF Worker, FetchLocal, StartDownload, Downloaded, DownloadFails, GiveUp, Parse,
         MarkAbort, Count, Emit, ownerVars
<1>2. CASE UNCHANGED <<loading, abort, told>>
  BY <1>1, <1>2 DEF Status
<1>3. CASE MarkAbort(f)
  <2>1. abort' = (abort \/ ~ok[f]) /\ loading' = loading /\ told' = told
    BY <1>3 DEF MarkAbort
  <2>2. CASE main # "build" /\ loading = 0
    <3>1. Emit(f) BY <2>2, AfterReport
    <3> QED BY <1>3, <3>1 DEF MarkAbort, Emit
  <2>3. CASE ~(main # "build" /\ loading = 0)
    <3>1. loading \in Nat BY DEF IInv, TypeOK
    <3>2. CASE abort' = abort BY <1>1, <2>1, <3>2 DEF Status
    <3>3. CASE ~abort /\ abort'
      BY <1>1, <2>1, <2>3, <3>1, <3>3 DEF Status, Abstract!Next, Abstract!Finish
    <3>4. abort' = abort \/ (~abort /\ abort')
      BY <2>1, Zenon DEF IInv, TypeOK
    <3> QED BY <3>2, <3>3, <3>4
  <2> QED BY <2>2, <2>3
<1>4. CASE Count(f)
  <2>1. loading' = loading - 1 /\ abort' = abort /\ told' = told
    BY <1>4 DEF Count
  <2>2. loading \in Nat /\ loading # 0
    <3>1. f \in Counted BY <1>4 DEF Count, Counted
    <3> QED BY <3>1, CountedEmpty DEF IInv, TypeOK
  <2> QED BY <1>1, <2>1, <2>2 DEF Status, Abstract!Next, Abstract!Finish
<1>5. CASE Emit(f)
  <2>1. UNCHANGED <<main, loading, abort>> BY <1>5 DEF Emit, ownerVars
  <2>2. Status' = Status BY <2>1 DEF Status
  <2>3. CASE ~connected
    BY <1>5, <2>2, <2>3 DEF Emit
  <2>4. CASE connected
    <3>1. main = "run" BY <2>4 DEF IInv, OwnerInv
    <3>2. told' = IF abort THEN "failed" ELSE "ok" BY <1>5, <2>4 DEF Emit
    <3>3. Abstract!Tell BY <2>2, <3>1, <3>2 DEF Abstract!Tell, Status
    <3> QED BY <3>3 DEF Abstract!Next
  <2> QED BY <2>3, <2>4
<1> QED BY <1>2, <1>3, <1>4, <1>5
        DEF Worker, FetchLocal, StartDownload, Downloaded, DownloadFails, GiveUp, Parse

\* A Segment implements SegmentLoad: a load ends as loaded or failed for good,
\* and the owner is told "failed" only when it has failed.
THEOREM SegmentKeepsPromise == Spec => KeepsPromise
<1>1. Init => Abstract!Init
  BY DEF Init, Abstract!Init, Status
<1>2. IInv /\ [Next]_vars => [Abstract!Next]_<<Status, told>>
  <2>1. CASE UNCHANGED vars
    BY <2>1 DEF vars, ownerVars, Status
  <2>2. ASSUME IInv, Next PROVE [Abstract!Next]_<<Status, told>>
    BY <2>2, PromiseOwner, PromiseWorker DEF Next, Abstract!Next
  <2> QED BY <2>1, <2>2
<1> QED BY <1>1, <1>2, SegmentInv, PTL DEF Spec, KeepsPromise, Abstract!Spec
=============================================================================
