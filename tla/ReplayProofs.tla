---------------------------- MODULE ReplayProofs ----------------------------
(* Theorems about Replay, for every route, cache limit and set of failing    *)
(* segments.                                                                 *)
EXTENDS Replay, TLAPS, SequenceTheorems, WellFoundedInduction, FiniteSetTheorems

\* A non-empty set of naturals has a least element, which Min returns.
LEMMA MinIsMember ==
    ASSUME NEW S, S \subseteq Nat, S # {}
    PROVE  Min(S) \in S
<1>1. PICK x \in S : \A y \in S : <<y, x>> \notin OpToRel(<, Nat)
  BY NatLessThanWellFounded, WFMin, Zenon
<1>2. \A y \in S : ~(y < x)
  <2>1. ASSUME NEW y \in S, y < x PROVE FALSE
    <3>1. y \in Nat /\ x \in Nat BY <1>1
    <3>2. <<y, x>> \in OpToRel(<, Nat) BY <2>1, <3>1, Zenon DEF OpToRel
    <3> QED BY <1>1, <3>2
  <2> QED BY <2>1
<1>3. \A y \in S : x =< y
  BY <1>2
<1> QED BY <1>3 DEF Min

\* The clamp of a seek target at the start of the route.
LEMMA ClampIsNat ==
    ASSUME NEW x \in Int
    PROVE  Max({0, x}) \in Nat
<1>1. \E m \in {0, x} : \A y \in {0, x} : m >= y
  <2>1. CASE x >= 0 BY <2>1
  <2>2. CASE ~(x >= 0) BY <2>2
  <2> QED BY <2>1, <2>2
<1>2. /\ Max({0, x}) \in {0, x}
      /\ \A y \in {0, x} : Max({0, x}) >= y
  BY <1>1 DEF Max
<1> QED BY <1>2

LEMMA SegSubsets ==
    ASSUME NEW S \in SUBSET Segs
    PROVE  IsFiniteSet(S) /\ Cardinality(S) \in Nat
BY SegsAssumption, FS_Subset, FS_CardinalityType

\* A finite, non-empty set of segments has a last one, which Max returns: the
\* one with the fewest after it.
LEMMA MaxIsMember ==
    ASSUME NEW S \in SUBSET Segs, S # {}
    PROVE  Max(S) \in S
<1> DEFINE Above(x) == {y \in S : y > x}
<1> DEFINE Counts == {Cardinality(Above(x)) : x \in S}
<1>1. \A x : Above(x) \in SUBSET Segs /\ IsFiniteSet(Above(x)) /\ Cardinality(Above(x)) \in Nat
  BY SegSubsets
<1>2. Counts \subseteq Nat /\ Counts # {}
  BY <1>1
<1>3. PICK k \in Counts : \A j \in Counts : <<j, k>> \notin OpToRel(<, Nat)
  <2> HIDE DEF Counts
  <2> QED BY <1>2, NatLessThanWellFounded, WFMin, Zenon
<1>4. PICK x \in S : k = Cardinality(Above(x))
  BY <1>3
<1>5. \A y \in S : x >= y
  <2> SUFFICES ASSUME NEW y \in S, y > x PROVE FALSE
    BY SegsAssumption
  <2>0. S \subseteq Nat /\ x \in Nat /\ y \in Nat
    BY SegsAssumption
  <2>1. Above(y) \in SUBSET Above(x) /\ x \in Nat /\ y \in Nat
    <3>1. ASSUME NEW z \in S, z > y PROVE z > x BY <2>0, <3>1
    <3> QED BY <2>0, <3>1
  <2>2. y \in Above(x) /\ y \notin Above(y)
    BY <2>1
  <2>3. Cardinality(Above(y)) < Cardinality(Above(x))
    <3>1. Above(y) # Above(x) BY <2>2
    <3> HIDE DEF Above
    <3>2. /\ Cardinality(Above(y)) <= Cardinality(Above(x))
          /\ Cardinality(Above(x)) # Cardinality(Above(y))
      BY <1>1, <2>1, <3>1, FS_Subset
    <3> QED BY <1>1, <3>2
  <2>4. Cardinality(Above(y)) \in Counts /\ Cardinality(Above(y)) \in Nat /\ k \in Nat
    BY <1>1, <1>4
  <2>5. <<Cardinality(Above(y)), k>> \in OpToRel(<, Nat)
    <3> HIDE DEF Above, Counts
    <3>1. Cardinality(Above(y)) < k BY <1>4, <2>3
    <3> QED BY <2>4, <3>1, Zenon DEF OpToRel
  <2> QED BY <1>3, <2>4, <2>5
<1> QED BY <1>5 DEF Max

LEMMA ToLoadInWindow ==
    ASSUME NEW c \in Nat, NEW W \in SUBSET Keys
    PROVE  ToLoad(c, W) \subseteq W
<1> DEFINE fwd == {n \in W \ Loaded : n >= c}
           bwd == {n \in W \ Loaded : n < c}
<1>1. fwd \subseteq Nat /\ fwd \subseteq W /\ bwd \in SUBSET Segs /\ bwd \subseteq W
  BY SegsAssumption DEF Keys
<1>2. fwd # {} => Min(fwd) \in W
  <2> HIDE DEF fwd
  <2> QED BY <1>1, MinIsMember
<1>3. bwd # {} => Max(bwd) \in W
  <2> HIDE DEF bwd
  <2> QED BY <1>1, MaxIsMember
<1> QED BY <1>2, <1>3 DEF ToLoad, NullOnly

LEMMA UpperBoundType ==
    ASSUME NEW S, NEW t, NEW w
    PROVE  UpperBound(S, t, w) \in Events \union {End}
<1> DEFINE L == {e \in EventsOf(S) : Later(e, t, w)}
<1>1. L \subseteq Events /\ L \subseteq Nat
  BY EventsAssumption DEF EventsOf
<1>2. L # {} => Min(L) \in L
  BY <1>1, MinIsMember
<1> HIDE DEF L
<1>3. (IF L = {} THEN End ELSE Min(L)) \in Events \union {End}
  BY <1>1, <1>2
<1> QED BY <1>3 DEF UpperBound, L

LEMMA NextEventType ==
    ASSUME NEW S, NEW e
    PROVE  NextEvent(S, e) \in Events \union {End}
<1> DEFINE L == {f \in EventsOf(S) : f > e}
<1>1. L \subseteq Events /\ L \subseteq Nat
  BY EventsAssumption DEF EventsOf
<1>2. L # {} => Min(L) \in L
  BY <1>1, MinIsMember
<1> HIDE DEF L
<1>3. (IF L = {} THEN End ELSE Min(L)) \in Events \union {End}
  BY <1>1, <1>2
<1> QED BY <1>3 DEF NextEvent, L

LEMMA SegOfType == \A t \in Int : SegOf(t) \in Int
BY SegLenAssumption DEF SegOf

LEMMA MinSecondsType == MinSeconds \in Int
<1>1. CASE Keys = {}
  BY <1>1 DEF MinSeconds
<1>2. CASE Keys # {}
  <2>1. Min(Keys) \in Nat
    BY <1>2, MinIsMember, SegsAssumption DEF Keys
  <2> QED BY <2>1, <1>2, SegLenAssumption DEF MinSeconds
<1> QED BY <1>1, <1>2

-----------------------------------------------------------------------------
(* Type correctness.                                                        *)

\* Marking the posts of freed segments as orphans keeps a queue a queue.
LEMMA OrphansType ==
    ASSUME NEW s \in Seq(Posts), NEW F
    PROVE  [i \in DOMAIN s |-> IF s[i].kind = "finished" /\ s[i].arg \in F
                               THEN [s[i] EXCEPT !.kind = "orphan"] ELSE s[i]]
              \in Seq(Posts)
<1> DEFINE r == [i \in DOMAIN s |-> IF s[i].kind = "finished" /\ s[i].arg \in F
                                    THEN [s[i] EXCEPT !.kind = "orphan"] ELSE s[i]]
<1>1. DOMAIN s = 1..Len(s) /\ Len(s) \in Nat
  OBVIOUS
<1>2. ASSUME NEW i \in 1..Len(s) PROVE r[i] \in Posts
  <2>1. s[i] \in Posts
    BY <1>1
  <2>2. [s[i] EXCEPT !.kind = "orphan"] \in Posts
    BY <2>1 DEF Posts
  <2>3. r[i] = s[i] \/ r[i] = [s[i] EXCEPT !.kind = "orphan"]
    BY <1>1
  <2> QED BY <2>1, <2>2, <2>3
<1>3. r \in [1..Len(s) -> Posts]
  BY <1>1, <1>2
<1> QED BY <1>1, <1>3, SeqDef

LEMMA DequeueType ==
    ASSUME q \in Seq(Posts), q # <<>>
    PROVE  Head(q) \in Posts /\ Tail(q) \in Seq(Posts)
BY HeadTailProperties

\* updateSegmentsCache touches at most one segment, which was not in memory; if
\* its load is not under way afterwards, nobody was told of its end.
LEMMA LoadsOne ==
    ASSUME TypeOK, UpdateSegmentsCache
    PROVE  /\ seg' \in [Segs -> {"null", "loading", "loaded", "failed", "erased"}]
           /\ unheard' \subseteq Segs /\ NotNoticed \subseteq unheard'
           /\ \A m \in Segs : \/ seg'[m] = seg[m]
                             \/ /\ seg[m] = "null"
                                /\ \/ seg'[m] = "loading"
                                   \/ seg'[m] \in {"loaded", "failed"} /\ m \in unheard'
           /\ Keys' = Keys
<1>1. PICK c \in Keys : /\ win' = Window(c)
                        /\ \/ \E n \in ToLoad(c, win') : Load(n)
                           \/ unheard' = NotNoticed /\ seg' = seg
  BY DEF UpdateSegmentsCache
<1>2. NotNoticed \subseteq Segs BY DEF NotNoticed, TypeOK
<1>3. ASSUME NEW n \in ToLoad(c, win'), Load(n)
      PROVE  /\ seg' \in [Segs -> {"null", "loading", "loaded", "failed", "erased"}]
             /\ unheard' \subseteq Segs /\ NotNoticed \subseteq unheard'
             /\ \A m \in Segs : \/ seg'[m] = seg[m]
                               \/ /\ seg[m] = "null"
                                  /\ \/ seg'[m] = "loading"
                                     \/ seg'[m] \in {"loaded", "failed"} /\ m \in unheard'
  <2>1. seg[n] = "null" BY DEF ToLoad, NullOnly
  <2>2. PICK r \in {"loading", "loaded", "failed"} :
            /\ seg' = [seg EXCEPT ![n] = r]
            /\ unheard' = NotNoticed \union (IF r = "loading" THEN {} ELSE {n})
    BY <1>3 DEF Load, Outcomes
  <2>3. n \in Segs
    <3>1. c \in Nat /\ Window(c) \in SUBSET Keys /\ Keys \subseteq Segs
      BY SegsAssumption DEF Keys, Window
    <3> QED BY <1>1, <3>1, ToLoadInWindow
  <2>4. seg' \in [Segs -> {"null", "loading", "loaded", "failed", "erased"}]
    BY <2>2, <2>3 DEF TypeOK
  <2>5. unheard' \subseteq Segs /\ NotNoticed \subseteq unheard' BY <1>2, <2>2, <2>3
  <2>6. \A m \in Segs : seg'[m] = IF m = n THEN r ELSE seg[m] BY <2>2, <2>3 DEF TypeOK
  <2>7. r = "loading" \/ (r \in {"loaded", "failed"} /\ n \in unheard') BY <2>2
  <2>8. ASSUME NEW m \in Segs
        PROVE  \/ seg'[m] = seg[m]
               \/ /\ seg[m] = "null"
                  /\ \/ seg'[m] = "loading"
                     \/ seg'[m] \in {"loaded", "failed"} /\ m \in unheard'
    <3>1. CASE m = n BY <2>1, <2>6, <2>7, <3>1
    <3>2. CASE m # n BY <2>6, <3>2
    <3> QED BY <3>1, <3>2
  <2> QED BY <2>4, <2>5, <2>8
<1>4. CASE unheard' = NotNoticed /\ seg' = seg
  BY <1>2, <1>4 DEF TypeOK, Keys
<1>5. /\ seg' \in [Segs -> {"null", "loading", "loaded", "failed", "erased"}]
      /\ unheard' \subseteq Segs /\ NotNoticed \subseteq unheard'
      /\ \A m \in Segs : \/ seg'[m] = seg[m]
                        \/ /\ seg[m] = "null"
                           /\ \/ seg'[m] = "loading"
                              \/ seg'[m] \in {"loaded", "failed"} /\ m \in unheard'
  BY <1>1, <1>3, <1>4
<1>6. Keys' = Keys
  <2>1. \A m \in Segs : seg'[m] # "erased" <=> seg[m] # "erased" BY <1>5
  <2> QED BY <2>1 DEF Keys
<1> QED BY <1>5, <1>6

LEMMA TypeInit == Init => TypeOK
<1> SUFFICES ASSUME Init PROVE TypeOK
  OBVIOUS
<1>1. arg \in Int
  BY TargetsAssumption DEF Init
<1>2. q \in Seq(Posts)
  BY DEF Init
<1>3. /\ seg \in [Segs -> {"null", "loading", "loaded", "failed", "erased"}]
      /\ merged \subseteq Segs /\ mset \subseteq Segs /\ win \subseteq Segs /\ unheard \subseteq Segs
      /\ {events_ready, paused, user_paused, exit, disturbed} \subseteq BOOLEAN
      /\ out \subseteq Events
  BY DEF Init
<1>4. /\ cur \in Int /\ current_segment \in Int /\ ops \in Nat /\ cur_which \in Nat
      /\ seeking_to \in Nat \union {None} /\ key \in Segs \union {None}
      /\ it \in Events \union {End}
  BY DEF Init, None, End
<1>5. /\ mpc = "pause" /\ upd = "seek" /\ after = "cache" /\ spc = "none"
  BY DEF Init
<1> QED BY <1>1, <1>2, <1>3, <1>4, <1>5 DEF TypeOK

(* One lemma per group of actions; each assumes TypeOK.                     *)

LEMMA TypeUser == TypeOK /\ UserStep => TypeOK'
<1> SUFFICES ASSUME TypeOK, UserStep PROVE TypeOK'
  OBVIOUS
<1>1. ASSUME NEW t \in SeekTargets, SeekTo("seek", t) PROVE TypeOK'
  <2>1. t \in Int BY TargetsAssumption
  <2> QED BY <1>1, <2>1 DEF SeekTo, UserCall, EnterUpdate, TypeOK, flagVars, cursorVars, streamVars, cacheVars
<1>2. ASSUME NEW d \in SeekDeltas, SeekTo("seekRel", d) PROVE TypeOK'
  <2>1. d \in Int BY TargetsAssumption
  <2> QED BY <1>2, <2>1 DEF SeekTo, UserCall, EnterUpdate, TypeOK, flagVars, cursorVars, streamVars, cacheVars
<1>3. ASSUME NEW b \in BOOLEAN, Pause(b) PROVE TypeOK'
  BY <1>3 DEF Pause, UserCall, EnterUpdate, TypeOK, flagVars, cursorVars, streamVars, cacheVars
<1>4. CASE Stop
  BY <1>4 DEF Stop, UserCall, TypeOK, cursorVars, streamVars, callVars, cacheVars
<1> QED BY <1>1, <1>2, <1>3, <1>4 DEF UserStep

LEMMA TypeMain == TypeOK /\ MainStep => TypeOK'
<1> SUFFICES ASSUME TypeOK, MainStep PROVE TypeOK'
  OBVIOUS
<1> USE DEF flagVars, cursorVars, streamVars, callVars, cacheVars
<1>1. CASE StopNotify
  BY <1>1 DEF StopNotify, Notified, TypeOK
<1>2. CASE StopJoin
  BY <1>2 DEF StopJoin, TypeOK
<1>3. CASE DequeueSeek
  <2>1. Head(q) \in Posts /\ Tail(q) \in Seq(Posts)
    BY <1>3, DequeueType DEF DequeueSeek, Dequeue, TypeOK
  <2>2. Head(q).arg \in Int BY <2>1 DEF Posts
  <2> QED BY <1>3, <2>1, <2>2 DEF DequeueSeek, Dequeue, EnterUpdate, TypeOK
<1>4. CASE DequeueUpdateCache
  <2>1. Tail(q) \in Seq(Posts)
    BY <1>4, DequeueType DEF DequeueUpdateCache, Dequeue, TypeOK
  <2> QED BY <1>4, <2>1 DEF DequeueUpdateCache, Dequeue, TypeOK
<1>5. CASE SegmentLoadFinished
  <2>1. Head(q) \in Posts /\ Tail(q) \in Seq(Posts)
    BY <1>5, DequeueType DEF SegmentLoadFinished, Dequeue, TypeOK
  <2>2. Head(q).arg \in Int BY <2>1 DEF Posts
  <2> QED BY <1>5, <2>1, <2>2 DEF SegmentLoadFinished, Dequeue, EnterUpdate, TypeOK
<1>6. CASE OrphanLoadFinished
  <2>1. Tail(q) \in Seq(Posts)
    BY <1>6, DequeueType DEF OrphanLoadFinished, Dequeue, TypeOK
  <2> QED BY <1>6, <2>1 DEF OrphanLoadFinished, Dequeue, TypeOK
<1>7. CASE PauseStreamThread
  BY <1>7 DEF PauseStreamThread, TypeOK
<1>8. CASE Apply
  <2>1. CASE ApplySeek
    <3> DEFINE target == Max({0, IF upd = "seekRel" THEN cur + arg ELSE arg})
    <3>1. target \in Nat
      <4>1. (IF upd = "seekRel" THEN cur + arg ELSE arg) \in Int BY DEF TypeOK
      <4> QED BY <4>1, ClampIsNat
    <3>2. SegOf(target) \in Int BY <3>1, SegOfType
    <3>3. /\ cur' \in Int /\ current_segment' \in Int /\ seeking_to' \in Nat \union {None}
          /\ out' \subseteq Events /\ events_ready' \in BOOLEAN /\ disturbed' \in BOOLEAN
      BY <2>1, <3>1, <3>2 DEF ApplySeek, TypeOK
    <3> QED BY <1>8, <2>1, <3>3 DEF Apply, ApplySeek, Notified, TypeOK
  <2>2. CASE ApplyUserPause
    BY <1>8, <2>2 DEF Apply, ApplyUserPause, Notified, TypeOK
  <2>3. CASE ApplyErase
    BY <1>8, <2>3 DEF Apply, ApplyErase, Notified, TypeOK
  <2>4. CASE ApplyMerge
    BY <1>8, <2>4 DEF Apply, ApplyMerge, PlayableAfterMerge, Notified, TypeOK
  <2>5. CASE ApplyReady
    BY <1>8, <2>5 DEF Apply, ApplyReady, Notified, TypeOK
  <2> QED BY <1>8, <2>1, <2>2, <2>3, <2>4, <2>5 DEF Apply, Lambda
<1>9. CASE CheckSeekProgress
  <2>1. CASE SeekArrived
    <3>1. /\ seeking_to' = None /\ disturbed' = FALSE
          /\ mpc' = "pause" /\ upd' = "ready" /\ arg' = 0
          /\ UNCHANGED <<seg, merged, q, ops, after, cacheVars, cur, current_segment,
                         flagVars, streamVars>>
      BY <1>9, <2>1 DEF CheckSeekProgress, EnterUpdate
    <3>2. {events_ready, paused, user_paused, exit, disturbed}' \subseteq BOOLEAN
      BY <3>1 DEF TypeOK
    <3> HIDE DEF None
    <3> QED BY <3>1, <3>2 DEF TypeOK
  <2>2. CASE ~SeekArrived
    BY <1>9, <2>2 DEF CheckSeekProgress, TypeOK
  <2> QED BY <2>1, <2>2
<1>10. CASE UpdateSegmentsCache
  <2>1. PICK c \in Keys : key' = c /\ win' = Window(c)
    BY <1>10 DEF UpdateSegmentsCache
  <2>2. /\ seg' \in [Segs -> {"null", "loading", "loaded", "failed", "erased"}]
        /\ unheard' \subseteq Segs
    BY <1>10, LoadsOne
  <2>3. key' \in Segs /\ win' \subseteq Segs
    BY <2>1 DEF Keys, Window
  <2> QED BY <1>10, <2>2, <2>3 DEF UpdateSegmentsCache, TypeOK
<1>11. CASE UpdateSegmentsCacheReturns
  BY <1>11 DEF UpdateSegmentsCacheReturns, TypeOK
<1>12. CASE MergeSegments
  BY <1>12 DEF MergeSegments, EnterUpdate, TypeOK
<1>13. CASE FreeSegments
  <2>1. q' \in Seq(Posts)
    BY <1>13, OrphansType DEF FreeSegments, TypeOK
  <2> QED BY <1>13, <2>1 DEF FreeSegments, None, TypeOK
<1> QED BY <1>1, <1>2, <1>3, <1>4, <1>5, <1>6, <1>7, <1>8, <1>9, <1>10, <1>11, <1>12, <1>13
        DEF MainStep

LEMMA TypeLoader == TypeOK /\ LoaderStep => TypeOK'
<1> SUFFICES ASSUME TypeOK, NEW n \in Segs, NEW ok \in BOOLEAN, LoadDone(n, ok)
             PROVE  TypeOK'
  BY DEF LoaderStep
<1>1. Post("finished", n, ok) \in Posts
  BY SegsAssumption DEF Post, Posts
<1>2. q' \in Seq(Posts)
  BY <1>1, AppendProperties DEF LoadDone, TypeOK
<1> QED BY <1>2 DEF LoadDone, TypeOK, mainVars, callVars, cacheVars, flagVars, cursorVars, streamVars

LEMMA TypeStream == TypeOK /\ StreamStep => TypeOK'
<1> SUFFICES ASSUME TypeOK, StreamStep PROVE TypeOK'
  OBVIOUS
<1> USE DEF mainVars, callVars, cacheVars, flagVars, cursorVars
<1>1. CASE StreamCheck
  BY <1>1, UpperBoundType DEF StreamCheck, TypeOK
<1>2. CASE StreamBlock
  BY <1>2 DEF StreamBlock, TypeOK
<1>3. CASE SpuriousWakeup
  BY <1>3 DEF SpuriousWakeup, TypeOK
<1>4. CASE PublishTurn
  <2>1. it \in Int /\ SegOf(it) \in Int
    BY <1>4, SegOfType, EventsAssumption DEF PublishTurn, TypeOK
  <2>2. Post("cache", 0, TRUE) \in Posts
    BY DEF Post, Posts
  <2>3. WithCacheUpdate \in Seq(Posts)
    BY <2>2, AppendProperties DEF WithCacheUpdate, TypeOK
  <2>4. q' \in Seq(Posts) /\ current_segment' \in Int /\ cur' \in Int
    BY <1>4, <2>1, <2>3 DEF PublishTurn, TypeOK
  <2>5. /\ UNCHANGED <<seg, merged, ops, mainVars, flagVars, seeking_to, disturbed, it, cur_which, out>>
        /\ spc' = "emit" /\ it # End
    BY <1>4 DEF PublishTurn
  <2> QED BY <2>4, <2>5 DEF TypeOK
<1>5. CASE Publish
  <2>1. it \in Events
    BY <1>5 DEF Publish, TypeOK
  <2>2. out' \subseteq Events /\ it' \in Events \union {End}
    BY <1>5, <2>1, NextEventType DEF Publish, TypeOK
  <2> QED BY <1>5, <2>2 DEF Publish, TypeOK
<1>6. CASE PublishInterrupted
  BY <1>6, WhichAssumption DEF PublishInterrupted, TypeOK
<1>7. CASE PublishedAll
  <2>1. Post("seek", MinSeconds, TRUE) \in Posts
    BY MinSecondsType DEF Post, Posts
  <2>2. Append(q, Post("seek", MinSeconds, TRUE)) \in Seq(Posts)
    BY <2>1, AppendProperties DEF TypeOK
  <2>3. q' = Append(q, Post("seek", MinSeconds, TRUE)) \/ q' = q
    BY <1>7 DEF PublishedAll
  <2>4. q' \in Seq(Posts)
    BY <2>2, <2>3 DEF TypeOK
  <2> QED BY <1>7, <2>4 DEF PublishedAll, TypeOK
<1> QED BY <1>1, <1>2, <1>3, <1>4, <1>5, <1>6, <1>7 DEF StreamStep, StreamRuns

\* Every reachable state is well typed: in particular the cursor, the posted
\* calls and the iterator always denote times, calls and events of the route.
THEOREM TypeCorrect == Spec => []TypeOK
<1>1. TypeOK /\ [Next]_vars => TypeOK'
  <2> SUFFICES ASSUME TypeOK, [Next]_vars PROVE TypeOK'
    OBVIOUS
  <2>1. CASE UNCHANGED vars
    BY <2>1 DEF vars, mainVars, callVars, cacheVars, flagVars, cursorVars, streamVars, TypeOK
  <2> QED BY <2>1, TypeMain, TypeUser, TypeLoader, TypeStream DEF Next
<1> QED BY TypeInit, <1>1, PTL DEF Spec

-----------------------------------------------------------------------------
(* No dangling events.                                                      *)

Updating(u) == mpc \in {"pause", "apply"} /\ upd = u
LoadFailed(s, n) == n \in Segs => s[n] \in {"failed", "erased"}
FailurePosted(s, i) == s[i].kind = "finished" /\ ~s[i].ok

\* The strengthening of MergedAlive.  A swap installs segments of the window
\* that are in memory; from the swap to the end of FreeSegments the merged
\* segments are inside the window, so the freed ones are not merged; a segment
\* is erased only because its load failed, and it never loads again.
AliveInv ==
    /\ mpc # "stopped" => merged \subseteq Loaded
    /\ mpc = "stopped" => spc \in {"none", "exited"}
    /\ (\/ mpc = "free"
        \/ mpc = "check" /\ after = "free"
        \/ Updating("ready") /\ after = "free") => merged \subseteq win
    /\ Updating("merge") => mset \subseteq win \cap Loaded
    /\ Updating("seek") \/ Updating("seekRel") => after = "cache"
    /\ Updating("erase") => LoadFailed(seg, arg)
    /\ \A i \in DOMAIN q : FailurePosted(q, i) => LoadFailed(seg, q[i].arg)

LEMMA AliveInit == Init => AliveInv
BY DEF Init, AliveInv, Updating, LoadFailed, FailurePosted, Loaded

LEMMA AliveUser == TypeOK /\ AliveInv /\ UserStep => AliveInv'
<1> SUFFICES ASSUME TypeOK, AliveInv, UserStep PROVE AliveInv'
  OBVIOUS
<1> USE DEF Updating, LoadFailed, FailurePosted, Loaded, UserCall, EnterUpdate,
            flagVars, cursorVars, streamVars, callVars, cacheVars
<1>1. ASSUME NEW u \in {"seek", "seekRel"}, NEW t, SeekTo(u, t) PROVE AliveInv'
  BY <1>1 DEF SeekTo, AliveInv
<1>2. ASSUME NEW b \in BOOLEAN, Pause(b) PROVE AliveInv'
  BY <1>2 DEF Pause, AliveInv
<1>3. CASE Stop
  BY <1>3 DEF Stop, AliveInv
<1> QED BY <1>1, <1>2, <1>3 DEF UserStep

LEMMA AliveDequeue ==
    ASSUME TypeOK, AliveInv,
           DequeueSeek \/ DequeueUpdateCache \/ SegmentLoadFinished \/ OrphanLoadFinished
    PROVE  AliveInv'
<1> USE DEF Dequeue, EnterUpdate, flagVars, cursorVars, streamVars, callVars, cacheVars
<1>1. q # <<>> /\ q' = Tail(q) /\ mpc = "idle"
  BY DEF DequeueSeek, DequeueUpdateCache, SegmentLoadFinished, OrphanLoadFinished
<1>2. q \in Seq(Posts)
  BY DEF TypeOK
<1>3. UNCHANGED <<seg, merged, win, mset, spc>>
  BY DEF DequeueSeek, DequeueUpdateCache, SegmentLoadFinished, OrphanLoadFinished
<1>4. \A i \in DOMAIN q' : i + 1 \in DOMAIN q /\ q'[i] = q[i + 1]
  BY <1>1, <1>2
<1>5. \A i \in DOMAIN q' : FailurePosted(q', i) => LoadFailed(seg', q'[i].arg)
  BY <1>3, <1>4 DEF AliveInv, FailurePosted, LoadFailed
<1>6. mpc' \in {"pause", "cache", "crashed"}
  BY DEF DequeueSeek, DequeueUpdateCache, SegmentLoadFinished, OrphanLoadFinished
<1>7. (mpc' = "pause" /\ upd' = "erase") => LoadFailed(seg', arg')
  <2> SUFFICES ASSUME mpc' = "pause", upd' = "erase" PROVE LoadFailed(seg', arg')
    OBVIOUS
  <2>1. SegmentLoadFinished /\ ~Head(q).ok /\ arg' = Head(q).arg /\ Head(q).kind = "finished"
    BY DEF DequeueSeek, DequeueUpdateCache, SegmentLoadFinished, OrphanLoadFinished
  <2>2. 1 \in DOMAIN q /\ Head(q) = q[1]
    BY <1>1, <1>2
  <2> QED BY <2>1, <2>2, <1>3 DEF AliveInv, FailurePosted, LoadFailed
<1>8. mpc' = "pause" => /\ upd' \in {"seek", "erase"}
                        /\ upd' = "seek" => after' = "cache"
  BY DEF DequeueSeek, DequeueUpdateCache, SegmentLoadFinished, OrphanLoadFinished
<1>9. (mpc # "stopped" => merged \subseteq Loaded)'
  BY <1>1, <1>3 DEF AliveInv, Loaded
<1> QED BY <1>5, <1>6, <1>7, <1>8, <1>9 DEF AliveInv, Updating

LEMMA AliveUpdate ==
    ASSUME TypeOK, AliveInv, PauseStreamThread \/ Apply \/ CheckSeekProgress
    PROVE  AliveInv'
<1> USE DEF flagVars, cursorVars, streamVars, callVars, cacheVars
<1>1. CASE PauseStreamThread
  BY <1>1 DEF PauseStreamThread, AliveInv, Updating, LoadFailed, FailurePosted, Loaded
<1>2. CASE Apply
  <2>1. mpc = "apply" /\ UNCHANGED <<q, upd, arg, win, mset>>
    BY <1>2 DEF Apply
  <2>2. CASE ApplySeek
    BY <1>2, <2>2 DEF Apply, ApplySeek, AliveInv, Updating, LoadFailed, FailurePosted, Loaded
  <2>3. CASE ApplyUserPause
    BY <1>2, <2>3 DEF Apply, ApplyUserPause, AliveInv, Updating, LoadFailed, FailurePosted, Loaded
  <2>4. CASE ApplyErase
    <3>1. LoadFailed(seg, arg)
      BY <2>1, <2>4 DEF ApplyErase, AliveInv, Updating
    <3>2. \A n \in Segs : seg'[n] = seg[n] \/ (n = arg /\ seg'[n] = "erased")
      BY <2>4 DEF ApplyErase, TypeOK
    <3>3. \A n : LoadFailed(seg, n) => LoadFailed(seg', n)
      BY <3>2 DEF LoadFailed
    <3>4. Loaded \subseteq Loaded'
      BY <3>1, <3>2 DEF Loaded, LoadFailed
    <3>5. merged' = merged /\ mpc' = "cache"
      BY <2>4 DEF ApplyErase
    <3> QED BY <2>1, <3>3, <3>4, <3>5 DEF AliveInv, Updating, FailurePosted
  <2>5. CASE ApplyMerge
    BY <1>2, <2>5 DEF Apply, ApplyMerge, AliveInv, Updating, LoadFailed, FailurePosted, Loaded
  <2>6. CASE ApplyReady
    BY <1>2, <2>6 DEF Apply, ApplyReady, AliveInv, Updating, LoadFailed, FailurePosted, Loaded, TypeOK
  <2> QED BY <1>2, <2>2, <2>3, <2>4, <2>5, <2>6 DEF Apply, Lambda
<1>3. CASE CheckSeekProgress
  BY <1>3 DEF CheckSeekProgress, EnterUpdate, AliveInv, Updating, LoadFailed, FailurePosted,
              Loaded, TypeOK
<1> QED BY <1>1, <1>2, <1>3

LEMMA AliveCache ==
    ASSUME TypeOK, AliveInv,
           \/ UpdateSegmentsCache \/ UpdateSegmentsCacheReturns
           \/ MergeSegments \/ FreeSegments
    PROVE  AliveInv'
<1> USE DEF flagVars, cursorVars, streamVars, callVars, cacheVars
<1>1. CASE UpdateSegmentsCache
  <2>1. \A n \in Segs : seg'[n] = seg[n] \/ seg[n] = "null"
    BY <1>1, LoadsOne
  <2>2. Loaded \subseteq Loaded' /\ \A n : LoadFailed(seg, n) => LoadFailed(seg', n)
    BY <2>1 DEF Loaded, LoadFailed
  <2>3. mpc = "cache" /\ mpc' = "merge" /\ UNCHANGED <<merged, q>>
    BY <1>1 DEF UpdateSegmentsCache
  <2> QED BY <2>2, <2>3 DEF AliveInv, Updating, FailurePosted
<1>2. CASE UpdateSegmentsCacheReturns
  BY <1>2 DEF UpdateSegmentsCacheReturns, AliveInv, Updating, LoadFailed, FailurePosted, Loaded
<1>3. CASE MergeSegments
  BY <1>3 DEF MergeSegments, AlreadyMerged, EnterUpdate, AliveInv, Updating, LoadFailed,
              FailurePosted, Loaded
<1>4. CASE FreeSegments
  <2>1. merged \subseteq win /\ merged \subseteq Loaded
    BY <1>4 DEF FreeSegments, AliveInv
  <2>2. \A n \in Segs : seg'[n] = IF n \in OutOfWindow THEN "null" ELSE seg[n]
    BY <1>4 DEF FreeSegments
  <2>3. merged' = merged /\ merged' \subseteq Loaded'
    BY <1>4, <2>1, <2>2 DEF FreeSegments, Loaded, OutOfWindow
  <2>4. ASSUME NEW i \in DOMAIN q', FailurePosted(q', i) PROVE LoadFailed(seg', q'[i].arg)
    <3>0. DOMAIN q' = DOMAIN q
      BY <1>4 DEF FreeSegments
    <3>1. q[i] \in Posts
      BY <3>0 DEF TypeOK
    <3>2. q'[i] = IF q[i].kind = "finished" /\ q[i].arg \in OutOfWindow
                  THEN [q[i] EXCEPT !.kind = "orphan"] ELSE q[i]
      BY <1>4, <3>0 DEF FreeSegments
    <3>3. q'[i] = q[i] /\ q[i].arg \notin OutOfWindow
      BY <2>4, <3>1, <3>2 DEF FailurePosted, Posts
    <3>4. LoadFailed(seg, q[i].arg)
      BY <2>4, <3>0, <3>3 DEF AliveInv, FailurePosted
    <3> QED BY <2>2, <3>3, <3>4 DEF LoadFailed
  <2>5. mpc' = "idle"
    BY <1>4 DEF FreeSegments
  <2> QED BY <2>3, <2>4, <2>5 DEF AliveInv, Updating
<1> QED BY <1>1, <1>2, <1>3, <1>4

LEMMA AliveStop ==
    ASSUME TypeOK, AliveInv, StopNotify \/ StopJoin
    PROVE  AliveInv'
BY DEF StopNotify, StopJoin, Notified, AliveInv, Updating, LoadFailed, FailurePosted, Loaded,
       flagVars, cursorVars, streamVars, callVars, cacheVars

LEMMA AliveLoader == TypeOK /\ AliveInv /\ LoaderStep => AliveInv'
<1> SUFFICES ASSUME TypeOK, AliveInv, NEW n \in Segs, NEW ok \in BOOLEAN, LoadDone(n, ok)
             PROVE  AliveInv'
  BY DEF LoaderStep
<1>1. UNCHANGED <<merged, mpc, upd, arg, after, win, mset, spc>> /\ mpc # "stopped"
  BY DEF LoadDone, mainVars, callVars, cacheVars, streamVars
<1>2. seg[n] = "loading" /\ seg' = [seg EXCEPT ![n] = IF ok THEN "loaded" ELSE "failed"]
  BY DEF LoadDone
<1>3. Loaded \subseteq Loaded' /\ \A m : LoadFailed(seg, m) => LoadFailed(seg', m)
  BY <1>2 DEF Loaded, LoadFailed, TypeOK
<1>4. ASSUME NEW i \in DOMAIN q', FailurePosted(q', i) PROVE LoadFailed(seg', q'[i].arg)
  <2> DEFINE e == Post("finished", n, ok)
  <2>1. q \in Seq(Posts) /\ e \in Posts /\ q' = Append(q, e)
    BY SegsAssumption DEF LoadDone, TypeOK, Post, Posts
  <2> HIDE DEF e
  <2>2. CASE i \in DOMAIN q
    <3>1. q'[i] = q[i]
      BY <2>1, <2>2
    <3> QED BY <1>3, <1>4, <2>2, <3>1 DEF AliveInv, FailurePosted
  <2>3. CASE i \notin DOMAIN q
    <3>1. q'[i] = e
      BY <2>1, <2>3
    <3> QED BY <1>2, <1>4, <3>1 DEF FailurePosted, LoadFailed, Post, e, TypeOK
  <2> QED BY <2>2, <2>3
<1> QED BY <1>1, <1>3, <1>4 DEF AliveInv, Updating

\* The stream thread touches neither the cache nor a pending update; what it
\* posts is never a failed load.
LEMMA AliveStream == TypeOK /\ AliveInv /\ StreamStep => AliveInv'
<1> SUFFICES ASSUME TypeOK, AliveInv, StreamStep PROVE AliveInv'
  OBVIOUS
<1> USE DEF mainVars, callVars, cacheVars
<1>1. UNCHANGED <<seg, merged, mpc, upd, arg, after, win, mset>>
  BY DEF StreamStep, StreamRuns, StreamCheck, StreamBlock, SpuriousWakeup, PublishTurn,
         Publish, PublishInterrupted, PublishedAll
<1>2. spc \in {"none", "exited"} => FALSE
  BY DEF StreamStep, StreamRuns, StreamCheck, StreamBlock, SpuriousWakeup, PublishTurn,
         Publish, PublishInterrupted, PublishedAll
<1>3. mpc # "stopped"
  BY <1>2 DEF AliveInv
<1>4. \/ q' = q
      \/ q' = Append(q, Post("cache", 0, TRUE))
      \/ q' = Append(q, Post("seek", MinSeconds, TRUE))
  BY DEF StreamStep, StreamRuns, StreamCheck, StreamBlock, SpuriousWakeup, PublishTurn,
         Publish, PublishInterrupted, PublishedAll, WithCacheUpdate
<1>5. ASSUME NEW i \in DOMAIN q', FailurePosted(q', i) PROVE LoadFailed(seg', q'[i].arg)
  <2>1. CASE q' = q
    BY <1>1, <1>5, <2>1 DEF AliveInv
  <2>2. ASSUME NEW e, e \in Posts, e.kind # "finished", q' = Append(q, e)
        PROVE  LoadFailed(seg', q'[i].arg)
    <3>1. q \in Seq(Posts)
      BY DEF TypeOK
    <3>2. i \in DOMAIN q /\ q'[i] = q[i]
      BY <1>5, <2>2, <3>1 DEF FailurePosted
    <3> QED BY <1>1, <1>5, <3>2 DEF AliveInv, FailurePosted
  <2>3. /\ Post("cache", 0, TRUE) \in Posts /\ Post("cache", 0, TRUE).kind # "finished"
        /\ Post("seek", MinSeconds, TRUE) \in Posts
        /\ Post("seek", MinSeconds, TRUE).kind # "finished"
    BY MinSecondsType DEF Post, Posts
  <2> QED BY <1>4, <2>1, <2>2, <2>3
<1> QED BY <1>1, <1>3, <1>5 DEF AliveInv, Updating, Loaded

LEMMA AliveAlways == Spec => []AliveInv
<1>1. TypeOK /\ AliveInv /\ [Next]_vars => AliveInv'
  <2> SUFFICES ASSUME TypeOK, AliveInv, [Next]_vars PROVE AliveInv'
    OBVIOUS
  <2>1. CASE UNCHANGED vars
    BY <2>1 DEF vars, mainVars, callVars, cacheVars, flagVars, cursorVars, streamVars,
                AliveInv, Updating, LoadFailed, FailurePosted, Loaded
  <2>2. CASE MainStep
    BY <2>2, AliveStop, AliveDequeue, AliveUpdate, AliveCache DEF MainStep
  <2> QED BY <2>1, <2>2, AliveUser, AliveLoader, AliveStream DEF Next
<1> QED BY TypeCorrect, AliveInit, <1>1, PTL DEF Spec

\* No event the stream thread or the main thread can reach through events_
\* belongs to a segment whose log has been freed.
THEOREM NoDanglingEvents == Spec => []MergedAlive
<1>1. AliveInv => MergedAlive
  BY DEF AliveInv, MergedAlive
<1> QED BY AliveAlways, <1>1, PTL

-----------------------------------------------------------------------------
(* The lock, the pause and the order of events.                             *)

\* paused_ is restored to user_paused_ by every update and raised before it, so
\* a pause by the user survives everything the main thread does afterwards.
THEOREM PauseHolds == Spec => []PausedIsQuiet
<1>1. Init => PausedIsQuiet
  BY DEF Init, PausedIsQuiet
<1>2. PausedIsQuiet /\ [Next]_vars => PausedIsQuiet'
  <2> SUFFICES ASSUME PausedIsQuiet, [Next]_vars PROVE PausedIsQuiet'
    OBVIOUS
  <2> USE DEF flagVars, streamVars
  <2>1. CASE UNCHANGED vars
    BY <2>1 DEF vars, PausedIsQuiet
  <2>2. CASE Apply
    <3>1. spc' \notin {"publish", "emit"}
      BY <2>2 DEF Apply, LockFree, Notified
    <3>2. user_paused' => paused'
      BY <2>2, Zenon DEF Apply
    <3> QED BY <3>1, <3>2 DEF PausedIsQuiet
  <2>3. CASE FreeSegments \/ StopNotify \/ PauseStreamThread
    <3>1. CASE FreeSegments \/ StopNotify
      BY <2>3, <3>1 DEF FreeSegments, StopNotify, Notified, PausedIsQuiet
    <3>2. CASE PauseStreamThread
      <4>1. paused' /\ user_paused' = user_paused /\ spc' = spc
        BY <3>2 DEF PauseStreamThread
      <4> QED BY <4>1, Zenon DEF PausedIsQuiet
    <3> QED BY <2>3, <3>1, <3>2
  <2>4. CASE MainStep /\ ~Apply /\ ~(FreeSegments \/ StopNotify \/ PauseStreamThread)
    <3>1. paused' = paused /\ user_paused' = user_paused /\ spc' = spc
      BY <2>4 DEF MainStep, StopJoin, DequeueSeek, DequeueUpdateCache, SegmentLoadFinished,
           OrphanLoadFinished, CheckSeekProgress, UpdateSegmentsCache,
           UpdateSegmentsCacheReturns, MergeSegments
    <3> QED BY <3>1, Zenon DEF PausedIsQuiet
  <2>5. CASE UserStep \/ LoaderStep
    BY <2>5 DEF UserStep, SeekTo, Pause, Stop, LoaderStep, LoadDone, PausedIsQuiet
  <2>6. CASE StreamStep
    BY <2>6 DEF StreamStep, StreamRuns, StreamCheck, Wanted, StreamBlock, SpuriousWakeup,
         PublishTurn, Publish, PublishInterrupted, PublishedAll, PausedIsQuiet
  <2> QED BY <2>1, <2>2, <2>3, <2>4, <2>5, <2>6 DEF Next
<1> QED BY <1>1, <1>2, PTL DEF Spec

\* Between two seeks the cursor never falls behind what has been published, and
\* the iterator never behind the cursor.
OrderInv ==
    /\ spc = "none" => out = {}
    /\ \A e \in out : e <= cur
    /\ spc = "publish" /\ it # End => it >= cur
    /\ spc = "emit" => it = cur

LEMMA UpperBoundAhead ==
    ASSUME NEW S, NEW t \in Int, NEW w, UpperBound(S, t, w) # End
    PROVE  UpperBound(S, t, w) >= t
<1> DEFINE L == {e \in EventsOf(S) : Later(e, t, w)}
<1>1. L \subseteq Nat
  BY EventsAssumption DEF EventsOf
<1>2. L # {} => Min(L) \in L
  BY <1>1, MinIsMember
<1>3. \A e \in L : e >= t
  BY <1>1 DEF Later
<1> HIDE DEF L
<1>4. (IF L = {} THEN End ELSE Min(L)) # End => (IF L = {} THEN End ELSE Min(L)) >= t
  BY <1>2, <1>3
<1> QED BY <1>4 DEF UpperBound, L

LEMMA NextEventAhead ==
    ASSUME NEW S, NEW e \in Int, NextEvent(S, e) # End
    PROVE  NextEvent(S, e) > e
<1> DEFINE L == {f \in EventsOf(S) : f > e}
<1>1. L \subseteq Nat /\ \A f \in L : f > e
  BY EventsAssumption DEF EventsOf
<1>2. L # {} => Min(L) \in L
  BY <1>1, MinIsMember
<1> HIDE DEF L
<1>3. (IF L = {} THEN End ELSE Min(L)) # End => (IF L = {} THEN End ELSE Min(L)) > e
  BY <1>1, <1>2
<1> QED BY <1>3 DEF NextEvent, L

\* Events come out in the order of the log between two seeks, whatever merges,
\* pauses and wakeups restart the search for the next event.
THEOREM PublishedInOrder == Spec => []InOrder
<1>1. Init => OrderInv
  BY DEF Init, OrderInv
<1>2. TypeOK /\ TypeOK' /\ OrderInv /\ [Next]_vars => OrderInv'
  <2> SUFFICES ASSUME TypeOK, TypeOK', OrderInv, [Next]_vars PROVE OrderInv'
    OBVIOUS
  <2> USE DEF flagVars, streamVars, cursorVars
  <2>1. CASE UNCHANGED vars
    BY <2>1 DEF vars, OrderInv
  <2>2. CASE Apply
    <3>1. spc' \notin {"publish", "emit"} /\ (spc' = "none" => spc = "none")
      BY <2>2 DEF Apply, LockFree, Notified
    <3>2. (out' = out /\ cur' = cur) \/ out' = {}
      BY <2>2 DEF Apply, Lambda, ApplySeek, ApplyUserPause, ApplyErase, ApplyMerge, ApplyReady
    <3> QED BY <3>1, <3>2 DEF OrderInv
  <2>3. CASE FreeSegments
    BY <2>3 DEF FreeSegments, OrderInv, TypeOK
  <2>4. CASE StopNotify
    BY <2>4 DEF StopNotify, Notified, OrderInv
  <2>5. CASE MainStep /\ ~Apply /\ ~(FreeSegments \/ StopNotify)
    BY <2>5 DEF MainStep, StopJoin, DequeueSeek, DequeueUpdateCache, SegmentLoadFinished,
         OrphanLoadFinished, CheckSeekProgress, UpdateSegmentsCache, PauseStreamThread,
         UpdateSegmentsCacheReturns, MergeSegments, OrderInv
  <2>6. CASE UserStep \/ LoaderStep
    BY <2>6 DEF UserStep, SeekTo, Pause, Stop, LoaderStep, LoadDone, OrderInv
  <2>7. CASE StreamCheck
    BY <2>7, UpperBoundAhead DEF StreamCheck, OrderInv, TypeOK
  <2>8. CASE Publish
    <3>1. it \in Int /\ it = cur
      BY <2>8, EventsAssumption DEF Publish, OrderInv, TypeOK
    <3>2. it' # End => it' > it
      BY <2>8, <3>1, NextEventAhead DEF Publish
    <3>3. it' # End => it' \in Int
      <4>1. it' \in Events \union {End} BY DEF TypeOK
      <4> QED BY <4>1, EventsAssumption
    <3> QED BY <2>8, <3>1, <3>2, <3>3 DEF Publish, OrderInv, TypeOK
  <2>9. CASE PublishTurn
    <3>1. it \in Int /\ it >= cur /\ cur' = it /\ out' = out /\ it' = it /\ spc' = "emit"
      BY <2>9, EventsAssumption DEF PublishTurn, OrderInv, TypeOK
    <3>2. out \subseteq Events /\ Events \subseteq Nat
      BY EventsAssumption DEF TypeOK
    <3> QED BY <3>1, <3>2 DEF OrderInv, TypeOK
  <2>10. CASE StreamBlock \/ SpuriousWakeup \/ PublishInterrupted \/ PublishedAll
    BY <2>10 DEF StreamBlock, SpuriousWakeup, PublishInterrupted, PublishedAll, OrderInv
  <2> QED BY <2>1, <2>2, <2>3, <2>4, <2>5, <2>6, <2>7, <2>8, <2>9, <2>10
          DEF Next, StreamStep, StreamRuns
<1>3. OrderInv => InOrder
  BY DEF OrderInv, InOrder
<1> QED BY TypeCorrect, <1>1, <1>2, <1>3, PTL DEF Spec

-----------------------------------------------------------------------------
(* The window of the cache.                                                 *)

LEMMA MinOfTwo ==
    ASSUME NEW a \in Nat, NEW b \in Nat
    PROVE  Min({a, b}) \in Nat /\ Min({a, b}) <= a /\ Min({a, b}) <= b
<1>1. \E m \in {a, b} : \A y \in {a, b} : m =< y
  <2>1. CASE a =< b BY <2>1
  <2>2. CASE ~(a =< b) BY <2>2
  <2> QED BY <2>1, <2>2
<1>2. /\ Min({a, b}) \in {a, b}
      /\ \A y \in {a, b} : Min({a, b}) =< y
  BY <1>1 DEF Min
<1> QED BY <1>2

LEMMA RankType ==
    ASSUME NEW n
    PROVE  Rank(n) \in Nat /\ Rank(n) <= Cardinality(Keys) /\ Cardinality(Keys) \in Nat
<1>1. Keys \in SUBSET Segs /\ {m \in Keys : m < n} \in SUBSET Keys
  BY DEF Keys
<1>2. IsFiniteSet(Keys) /\ Cardinality(Keys) \in Nat
  BY <1>1, SegSubsets
<1>3. Cardinality({m \in Keys : m < n}) \in Nat
  BY <1>1, SegSubsets
<1>4. Cardinality({m \in Keys : m < n}) <= Cardinality(Keys)
  BY <1>1, <1>2, FS_Subset
<1> QED BY <1>2, <1>3, <1>4 DEF Rank

\* Different keys of the map have different places in it.
LEMMA RankMonotone ==
    ASSUME NEW n \in Keys, NEW m \in Keys, n < m
    PROVE  Rank(n) < Rank(m)
<1> DEFINE Before(x) == {k \in Keys : k < x}
<1>1. Keys \in SUBSET Segs /\ Keys \subseteq Nat
  BY SegsAssumption DEF Keys
<1>2. Before(n) \in SUBSET Before(m) /\ n \in Before(m) /\ n \notin Before(n)
  <2>1. ASSUME NEW k \in Keys, k < n PROVE k < m BY <1>1, <2>1
  <2>2. Before(n) \in SUBSET Before(m) BY <2>1
  <2>3. n \notin Before(n) BY <1>1
  <2> QED BY <2>2, <2>3
<1>3. Before(m) \in SUBSET Segs
  BY <1>1
<1>4. Before(n) # Before(m)
  BY <1>2
<1>5. IsFiniteSet(Before(m))
  BY <1>3, SegSubsets
<1>6. Rank(n) = Cardinality(Before(n)) /\ Rank(m) = Cardinality(Before(m))
  BY DEF Rank
<1> HIDE DEF Before
<1>7. Rank(n) <= Rank(m) /\ Rank(m) # Rank(n)
  BY <1>2, <1>4, <1>5, <1>6, FS_Subset
<1> QED BY <1>7, RankType

\* However the current segment lies in the route, the window around it is at
\* most segment_cache_limit segments wide (replay.cc, updateSegmentsCache).
LEMMA WindowBounded ==
    ASSUME NEW c
    PROVE  /\ Window(c) \in SUBSET Keys
           /\ IsFiniteSet(Window(c)) /\ Cardinality(Window(c)) <= CacheLimit
<1> DEFINE b0 == Rank(c) - Min({CacheLimit \div 2, Rank(c)})
           e  == b0 + Min({CacheLimit, Cardinality(Keys) - b0})
           b  == e - Min({CacheLimit, e})
<1>1. /\ CacheLimit \in Nat /\ CacheLimit \div 2 \in Nat /\ Rank(c) \in Nat
      /\ Rank(c) <= Cardinality(Keys) /\ Cardinality(Keys) \in Nat
  BY LimitAssumption, RankType
<1>2. b0 \in Nat /\ b0 <= Rank(c)
  BY <1>1, MinOfTwo
<1>3. Cardinality(Keys) - b0 \in Nat
  BY <1>1, <1>2
<1>4. e \in Nat
  <2> HIDE DEF b0
  <2>1. Min({CacheLimit, Cardinality(Keys) - b0}) \in Nat BY <1>1, <1>3, MinOfTwo
  <2> QED BY <1>2, <2>1
<1>5. b \in Nat /\ e - b <= CacheLimit
  <2> HIDE DEF e
  <2>1. Min({CacheLimit, e}) \in Nat /\ Min({CacheLimit, e}) <= CacheLimit /\ Min({CacheLimit, e}) <= e
    BY <1>1, <1>4, MinOfTwo
  <2> QED BY <1>4, <2>1
<1>6. Window(c) = {n \in Keys : b <= Rank(n) /\ Rank(n) < e}
  BY DEF Window
<1> HIDE DEF b, e
<1>7. Window(c) \in SUBSET Keys /\ Window(c) \in SUBSET Segs /\ Keys \subseteq Nat
  BY <1>6, SegsAssumption DEF Keys
<1>8. IsFiniteSet(Window(c)) /\ Cardinality(Window(c)) \in Nat
  BY <1>7, SegSubsets
<1>9. /\ IsFiniteSet(b .. (e - 1)) /\ Cardinality(b .. (e - 1)) \in Nat
      /\ Cardinality(b .. (e - 1)) <= CacheLimit
  <2>1. b \in Int /\ e - 1 \in Int
    BY <1>4, <1>5
  <2>2. /\ IsFiniteSet(b .. (e - 1))
        /\ Cardinality(b .. (e - 1)) = IF b > e - 1 THEN 0 ELSE (e - 1) - b + 1
    BY <2>1, FS_Interval
  <2> QED BY <1>1, <1>4, <1>5, <2>2
<1>10. Cardinality(Window(c)) <= Cardinality(b .. (e - 1))
  <2> SUFFICES ASSUME Cardinality(b .. (e - 1)) < Cardinality(Window(c)) PROVE FALSE
    BY <1>8, <1>9
  <2> DEFINE f == [n \in Window(c) |-> Rank(n)]
  <2>1. f \in [Window(c) -> b .. (e - 1)]
    <3>1. ASSUME NEW n \in Window(c) PROVE Rank(n) \in b .. (e - 1)
      BY <1>4, <1>5, <1>6, RankType
    <3> QED BY <3>1
  <2>2. PICK x, y \in Window(c) : x # y /\ f[x] = f[y]
    <3> HIDE DEF f
    <3> QED BY <1>8, <1>9, <2>1, FS_PigeonHole
  <2>3. x \in Keys /\ y \in Keys /\ x \in Nat /\ y \in Nat /\ Rank(x) = Rank(y)
    BY <1>7, <2>2
  <2>4. CASE x < y BY <2>3, <2>4, RankMonotone, RankType
  <2>5. CASE y < x BY <2>3, <2>5, RankMonotone, RankType
  <2> QED BY <2>2, <2>3, <2>4, <2>5
<1> QED BY <1>1, <1>7, <1>8, <1>9, <1>10

\* When nothing is left to load in a window in which no load is under way or
\* has failed, the whole window is in memory.
LEMMA NothingToLoad ==
    ASSUME TypeOK, NEW c \in Nat, NEW W \in SUBSET Keys, ToLoad(c, W) = {},
           \A n \in W : seg[n] \notin {"loading", "failed"}
    PROVE  W \subseteq Loaded
<1> DEFINE fwd == {n \in W \ Loaded : n >= c}
           bwd == {n \in W \ Loaded : n < c}
<1>1. W \subseteq Segs /\ W \subseteq Nat
  BY SegsAssumption DEF Keys
<1>2. \A n \in W \ Loaded : seg[n] = "null"
  BY <1>1 DEF TypeOK, Keys, Loaded
<1>3. fwd = {}
  <2> SUFFICES ASSUME fwd # {} PROVE FALSE
    OBVIOUS
  <2>1. fwd \subseteq Nat BY <1>1
  <2>2. Min(fwd) \in fwd
    <3> HIDE DEF fwd
    <3> QED BY <2>1, MinIsMember
  <2>3. NullOnly(Min(fwd)) = {Min(fwd)} BY <1>2, <2>2 DEF NullOnly
  <2>4. ToLoad(c, W) = NullOnly(Min(fwd)) BY <2>3 DEF ToLoad
  <2> QED BY <2>3, <2>4
<1>4. bwd = {}
  <2> SUFFICES ASSUME bwd # {} PROVE FALSE
    OBVIOUS
  <2>1. bwd \in SUBSET Segs BY <1>1
  <2>2. Max(bwd) \in bwd
    <3> HIDE DEF bwd
    <3> QED BY <2>1, MaxIsMember
  <2>3. NullOnly(Max(bwd)) = {Max(bwd)} BY <1>2, <2>2 DEF NullOnly
  <2>4. ToLoad(c, W) = NullOnly(Max(bwd)) BY <1>3 DEF ToLoad
  <2> QED BY <2>3, <2>4
<1> QED BY <1>1, <1>3, <1>4

-----------------------------------------------------------------------------
(* The cache stays within its limit.                                        *)

\* The main thread is inside a call of updateSegmentsCache, before and after
\* the swap of events_.
Swapped ==
    \/ mpc = "free"
    \/ mpc = "check" /\ after = "free"
    \/ Updating("ready") /\ after = "free"
InUpdate == mpc = "merge" \/ Updating("merge") \/ Swapped

\* Only inside the call, between the load and the free, may there be one segment
\* more than the limit; the window that will be left is within it all the time.
BoundInv ==
    IF InUpdate THEN Cardinality(win) <= CacheLimit
                ELSE Cardinality(Resident) <= CacheLimit

\* Which steps begin and end the call.
LEMMA UpdatePhases ==
    ASSUME TypeOK, AliveInv, Next, ~UpdateSegmentsCache, ~FreeSegments
    PROVE  InUpdate' = InUpdate /\ UNCHANGED <<win, key, unheard>>
<1> USE DEF InUpdate, Swapped, Updating, EnterUpdate, callVars, cacheVars, mainVars
<1>1. CASE UserStep
  BY <1>1 DEF UserStep, SeekTo, Pause, Stop, UserCall, TypeOK
<1>2. CASE LoaderStep
  BY <1>2 DEF LoaderStep, LoadDone
<1>3. CASE StreamStep
  BY <1>3 DEF StreamStep, StreamRuns, StreamCheck, StreamBlock, SpuriousWakeup, PublishTurn,
     Publish, PublishInterrupted, PublishedAll
<1>4. CASE StopNotify \/ StopJoin \/ DequeueSeek \/ DequeueUpdateCache \/ SegmentLoadFinished
           \/ OrphanLoadFinished \/ UpdateSegmentsCacheReturns
  BY <1>4 DEF StopNotify, StopJoin, DequeueSeek, DequeueUpdateCache, SegmentLoadFinished,
     OrphanLoadFinished, Dequeue, UpdateSegmentsCacheReturns, AliveInv
<1>5. CASE PauseStreamThread
  BY <1>5 DEF PauseStreamThread
<1>6. CASE Apply
  BY <1>6 DEF Apply, Lambda, ApplySeek, ApplyUserPause, ApplyErase, ApplyMerge, ApplyReady,
     AliveInv, TypeOK
<1>7. CASE CheckSeekProgress
  BY <1>7 DEF CheckSeekProgress, TypeOK
<1>8. CASE MergeSegments
  BY <1>8 DEF MergeSegments
<1> QED BY <1>1, <1>2, <1>3, <1>4, <1>5, <1>6, <1>7, <1>8 DEF Next, MainStep

\* Only updateSegmentsCache adds to what is in memory.
LEMMA ResidentShrinks ==
    ASSUME TypeOK, Next, ~UpdateSegmentsCache
    PROVE  Resident' \subseteq Resident
<1> USE DEF Resident, TypeOK
<1>1. CASE StopJoin
  BY <1>1 DEF StopJoin
<1>2. CASE Apply
  BY <1>2 DEF Apply, Lambda, ApplySeek, ApplyUserPause, ApplyErase, ApplyMerge, ApplyReady
<1>3. CASE FreeSegments
  BY <1>3 DEF FreeSegments
<1>4. CASE LoaderStep
  BY <1>4 DEF LoaderStep, LoadDone
<1>5. CASE ~(StopJoin \/ Apply \/ FreeSegments \/ LoaderStep)
  <2>1. seg' = seg
    BY <1>5 DEF Next, MainStep, UserStep, SeekTo, Pause, Stop, StopNotify, DequeueSeek,
       DequeueUpdateCache, SegmentLoadFinished, OrphanLoadFinished, PauseStreamThread,
       CheckSeekProgress, UpdateSegmentsCacheReturns, MergeSegments, StreamStep, StreamRuns,
       StreamCheck, StreamBlock, SpuriousWakeup, PublishTurn, Publish, PublishInterrupted,
       PublishedAll
  <2> QED BY <2>1
<1> QED BY <1>1, <1>2, <1>3, <1>4, <1>5

LEMMA BoundInit == Init => BoundInv
<1> SUFFICES ASSUME Init PROVE BoundInv
  OBVIOUS
<1>1. Resident = {} /\ ~InUpdate
  BY DEF Init, Resident, InUpdate, Swapped, Updating
<1> QED BY <1>1, FS_EmptySet, LimitAssumption DEF BoundInv

LEMMA BoundStep == TypeOK /\ AliveInv /\ BoundInv /\ [Next]_vars => BoundInv'
<1> SUFFICES ASSUME TypeOK, AliveInv, BoundInv, [Next]_vars PROVE BoundInv'
  OBVIOUS
<1>1. CASE UNCHANGED vars
  BY <1>1 DEF vars, mainVars, callVars, cacheVars, BoundInv, InUpdate, Swapped, Updating, Resident
<1>2. CASE UpdateSegmentsCache
  <2>1. PICK c \in Keys : win' = Window(c)
    BY <1>2 DEF UpdateSegmentsCache
  <2>2. InUpdate'
    BY <1>2 DEF UpdateSegmentsCache, InUpdate
  <2> QED BY <2>1, <2>2, WindowBounded DEF BoundInv
<1>3. CASE FreeSegments
  <2>1. InUpdate /\ ~InUpdate'
    BY <1>3 DEF FreeSegments, InUpdate, Swapped, Updating
  <2>2. Resident' \in SUBSET win
    <3>1. ASSUME NEW n \in Segs, n \notin win, seg'[n] \in {"loading", "loaded", "failed"}
          PROVE  FALSE
      <4>1. seg'[n] = IF n \in Keys \ win THEN "null" ELSE seg[n]
        BY <1>3 DEF FreeSegments, OutOfWindow
      <4> QED BY <3>1, <4>1 DEF Keys
    <3> QED BY <3>1 DEF Resident
  <2>3. IsFiniteSet(win) /\ Cardinality(win) \in Nat
    BY SegSubsets DEF TypeOK
  <2>4. Cardinality(Resident') <= Cardinality(win) /\ Cardinality(Resident') \in Nat
    BY <2>2, <2>3, FS_Subset, FS_CardinalityType
  <2> QED BY <2>1, <2>3, <2>4, LimitAssumption DEF BoundInv
<1>4. CASE Next /\ ~UpdateSegmentsCache /\ ~FreeSegments
  <2>1. InUpdate' = InUpdate /\ win' = win
    BY <1>4, UpdatePhases
  <2>2. Resident' \in SUBSET Resident
    BY <1>4, ResidentShrinks
  <2>3. IsFiniteSet(Resident) /\ Cardinality(Resident) \in Nat
    BY SegSubsets DEF Resident
  <2>4. Cardinality(Resident') <= Cardinality(Resident) /\ Cardinality(Resident') \in Nat
    BY <2>2, <2>3, FS_Subset, FS_CardinalityType
  <2> QED BY <2>1, <2>3, <2>4, LimitAssumption DEF BoundInv
<1> QED BY <1>1, <1>2, <1>3, <1>4

\* Back in its event loop, the main thread never leaves more segments in memory
\* than segment_cache_limit, whatever was erased, sought or loading meanwhile
\* (replay.cc, updateSegmentsCache).
THEOREM CacheWithinLimit == Spec => []CacheBounded
<1>1. BoundInv => CacheBounded
  BY DEF BoundInv, CacheBounded, InUpdate, Swapped, Updating
<1> QED BY <1>1, BoundInit, BoundStep, TypeCorrect, AliveAlways, PTL DEF Spec

-----------------------------------------------------------------------------
(* The cache settles.                                                       *)

\* A segment that failed is still to be erased: its failure is posted, or being
\* handled; or nobody was told.
FailedInv ==
    \A n \in Segs : seg[n] = "failed" =>
        \/ n \in unheard
        \/ Updating("erase") /\ arg = n
        \/ \E i \in DOMAIN q : FailurePosted(q, i) /\ q[i].arg = n

LEMMA FailedInit == Init => FailedInv
BY DEF Init, FailedInv

\* A call appended to the queue leaves the earlier ones where they are.
LEMMA AppendKeeps ==
    ASSUME NEW s \in Seq(Posts), NEW e \in Posts
    PROVE  /\ Append(s, e) # <<>>
           /\ \A i \in DOMAIN s : i \in DOMAIN Append(s, e) /\ Append(s, e)[i] = s[i]
           /\ Len(s) + 1 \in DOMAIN Append(s, e) /\ Append(s, e)[Len(s) + 1] = e
<1>1. Len(Append(s, e)) = Len(s) + 1 /\ Append(s, e) \in Seq(Posts) /\ Len(s) \in Nat
  BY AppendProperties, LenProperties
<1>2. DOMAIN s = 1 .. Len(s) /\ DOMAIN Append(s, e) = 1 .. (Len(s) + 1)
  BY <1>1, LenProperties
<1>3. Append(s, e) # <<>>
  BY <1>1, EmptySeq
<1> QED BY <1>1, <1>2, <1>3, AppendProperties

\* What the stream thread does to the queue and to the state of the cache.
LEMMA StreamPosts ==
    ASSUME TypeOK, StreamStep
    PROVE  /\ UNCHANGED <<seg, merged, mainVars>>
           /\ \/ q' = q /\ current_segment' = current_segment
              \/ \E e \in Posts : q' = Append(q, e)
<1>1. UNCHANGED <<seg, merged, mainVars>>
  BY DEF StreamStep, StreamRuns, StreamCheck, StreamBlock, SpuriousWakeup, PublishTurn,
     Publish, PublishInterrupted, PublishedAll, cursorVars
<1>2. Post("cache", 0, TRUE) \in Posts /\ Post("seek", MinSeconds, TRUE) \in Posts
  BY MinSecondsType DEF Post, Posts
<1>3. \/ q' = q /\ current_segment' = current_segment
      \/ q' = Append(q, Post("cache", 0, TRUE))
      \/ q' = Append(q, Post("seek", MinSeconds, TRUE))
  BY DEF StreamStep, StreamRuns, StreamCheck, StreamBlock, SpuriousWakeup, PublishTurn,
     Publish, PublishInterrupted, PublishedAll, cursorVars, WithCacheUpdate
<1> QED BY <1>1, <1>2, <1>3

LEMMA FailedStep == TypeOK /\ FailedInv /\ [Next]_vars => FailedInv'
<1> SUFFICES ASSUME TypeOK, FailedInv, [Next]_vars, NEW n \in Segs, seg'[n] = "failed"
             PROVE  \/ n \in unheard'
                    \/ Updating("erase")' /\ arg' = n
                    \/ \E i \in DOMAIN q' : FailurePosted(q', i) /\ q'[i].arg = n
  BY DEF FailedInv
<1> USE DEF EnterUpdate, mainVars, callVars, cacheVars
<1>0. q \in Seq(Posts) /\ seg \in [Segs -> {"null", "loading", "loaded", "failed", "erased"}]
  BY DEF TypeOK
<1>1. ASSUME seg[n] = "failed", q' = q, n \in unheard => n \in unheard',
             Updating("erase") /\ arg = n => Updating("erase")' /\ arg' = n
      PROVE  \/ n \in unheard'
             \/ Updating("erase")' /\ arg' = n
             \/ \E i \in DOMAIN q' : FailurePosted(q', i) /\ q'[i].arg = n
  BY <1>1 DEF FailedInv, FailurePosted
<1>2. CASE LoaderStep
  <2>1. PICK m \in Segs, ok \in BOOLEAN : LoadDone(m, ok)
    BY <1>2 DEF LoaderStep
  <2> DEFINE e == Post("finished", m, ok)
  <2>2. e \in Posts /\ q' = Append(q, e) /\ UNCHANGED <<mpc, upd, arg, unheard>>
    BY <2>1, SegsAssumption DEF LoadDone, Post, Posts
  <2>3. /\ \A i \in DOMAIN q : i \in DOMAIN q' /\ q'[i] = q[i]
        /\ \E i \in DOMAIN q' : q'[i] = e
    <3> HIDE DEF e
    <3> QED BY <1>0, <2>2, AppendKeeps
  <2>4. CASE n = m
    <3>1. seg' = [seg EXCEPT ![m] = IF ok THEN "loaded" ELSE "failed"]
      BY <2>1 DEF LoadDone
    <3>2. ~ok BY <1>0, <2>4, <3>1
    <3> QED BY <2>3, <2>4, <3>2 DEF FailurePosted, Post
  <2>5. CASE n # m
    <3>1. seg[n] = "failed" BY <1>0, <2>1, <2>5 DEF LoadDone
    <3> QED BY <2>2, <2>3, <3>1 DEF FailedInv, FailurePosted, Updating
  <2> QED BY <2>4, <2>5
<1>3. CASE StreamStep
  <2>1. seg[n] = "failed" /\ UNCHANGED <<mpc, upd, arg, unheard>> BY <1>3, StreamPosts
  <2>2. CASE q' = q BY <1>1, <2>1, <2>2 DEF Updating
  <2>3. CASE q' # q
    <3>1. PICK e \in Posts : q' = Append(q, e) BY <1>3, <2>3, StreamPosts
    <3>2. \A i \in DOMAIN q : i \in DOMAIN q' /\ q'[i] = q[i]
      BY <1>0, <3>1, AppendKeeps
    <3> QED BY <2>1, <3>2 DEF FailedInv, FailurePosted, Updating
  <2> QED BY <2>2, <2>3
<1>4. CASE DequeueSeek \/ DequeueUpdateCache \/ SegmentLoadFinished \/ OrphanLoadFinished
  <2>1. seg' = seg /\ mpc = "idle" /\ q # <<>> /\ q' = Tail(q) /\ unheard' = unheard
    BY <1>4 DEF DequeueSeek, DequeueUpdateCache, SegmentLoadFinished, OrphanLoadFinished, Dequeue
  <2> SUFFICES ASSUME n \notin unheard
               PROVE  \/ Updating("erase")' /\ arg' = n
                      \/ \E i \in DOMAIN q' : FailurePosted(q', i) /\ q'[i].arg = n
    BY <2>1
  <2>2. PICK i \in DOMAIN q : FailurePosted(q, i) /\ q[i].arg = n
    BY <2>1 DEF FailedInv, Updating
  <2>3. CASE i = 1
    <3>1. Head(q) = q[1] BY <1>0, <2>1
    <3>2. SegmentLoadFinished /\ ~Head(q).ok /\ Head(q).arg = n
      BY <1>4, <2>2, <2>3, <3>1 DEF DequeueSeek, DequeueUpdateCache, SegmentLoadFinished,
         OrphanLoadFinished, Dequeue, FailurePosted
    <3> QED BY <3>2 DEF SegmentLoadFinished, Updating
  <2>4. CASE i # 1
    <3>1. i - 1 \in DOMAIN q' /\ q'[i - 1] = q[i] BY <1>0, <2>1, <2>4
    <3> QED BY <2>2, <3>1 DEF FailurePosted
  <2> QED BY <2>3, <2>4
<1>5. CASE Apply
  <2>1. q' = q /\ unheard' = unheard BY <1>5 DEF Apply
  <2>2. CASE ApplyErase
    <3>1. seg' = [seg EXCEPT ![arg] = "erased"] /\ mpc' = "cache" BY <2>2 DEF ApplyErase
    <3>2. arg # n /\ seg[n] = "failed" BY <1>0, <3>1
    <3> QED BY <1>1, <2>1, <3>2
  <2>3. CASE ~ApplyErase
    <3>1. seg' = seg /\ upd # "erase"
      BY <1>5, <2>3 DEF Apply, Lambda, ApplySeek, ApplyUserPause, ApplyMerge, ApplyReady
    <3> QED BY <1>1, <2>1, <3>1 DEF Updating
  <2> QED BY <2>2, <2>3
<1>6. CASE FreeSegments
  <2>1. seg'[n] = (IF n \in OutOfWindow THEN "null" ELSE seg[n]) /\ mpc = "free"
    BY <1>6 DEF FreeSegments
  <2>2. n \notin OutOfWindow /\ seg[n] = "failed" BY <2>1
  <2>5. n \in unheard => n \in unheard' BY <1>6, <2>2 DEF FreeSegments
  <2> SUFFICES ASSUME n \notin unheard
               PROVE  \E i \in DOMAIN q' : FailurePosted(q', i) /\ q'[i].arg = n
    BY <2>5
  <2>3. PICK i \in DOMAIN q : FailurePosted(q, i) /\ q[i].arg = n
    BY <2>1, <2>2 DEF FailedInv, Updating
  <2>4. i \in DOMAIN q' /\ q'[i] = q[i]
    BY <1>6, <2>2, <2>3 DEF FreeSegments
  <2> QED BY <2>3, <2>4 DEF FailurePosted
<1>7. CASE UpdateSegmentsCache
  <2>1. CASE n \in unheard' BY <2>1
  <2>2. CASE n \notin unheard'
    <3>1. seg[n] = "failed" BY <1>7, <2>2, LoadsOne
    <3>2. n \in unheard => n \in unheard' BY <1>7, <3>1, LoadsOne DEF NotNoticed
    <3>3. q' = q /\ mpc = "cache" BY <1>7 DEF UpdateSegmentsCache
    <3> QED BY <1>1, <3>1, <3>2, <3>3 DEF Updating
  <2> QED BY <2>1, <2>2
<1>8. CASE StopJoin
  BY <1>8 DEF StopJoin
<1>9. CASE UserStep \/ StopNotify \/ UpdateSegmentsCacheReturns \/ MergeSegments \/ CheckSeekProgress
  <2>1. seg' = seg /\ q' = q /\ unheard' = unheard /\ mpc \notin {"pause", "apply"}
    BY <1>9 DEF UserStep, SeekTo, Pause, Stop, UserCall, StopNotify, UpdateSegmentsCacheReturns,
       MergeSegments, CheckSeekProgress
  <2> QED BY <1>1, <2>1 DEF Updating
<1>10. CASE PauseStreamThread
  BY <1>1, <1>10 DEF PauseStreamThread, Updating
<1>11. CASE UNCHANGED vars
  BY <1>1, <1>11 DEF vars, Updating
<1> QED BY <1>2, <1>3, <1>4, <1>5, <1>6, <1>7, <1>8, <1>9, <1>10, <1>11 DEF Next, MainStep

Settled ==
    \A c \in Keys : IsLowerBound(c) =>
        /\ Loaded = merged /\ merged \subseteq Window(c)
        /\ unheard = {} => merged = Window(c)
Still   == q = <<>> /\ \A n \in Segs : seg[n] # "loading"
Resting == mpc = "idle" \/ Updating("user")

\* What a call of updateSegmentsCache may rely on from its window to its end,
\* unless something was posted meanwhile that will lead to another call.
SettleInv ==
    /\ Resting /\ Still => Settled
    /\ InUpdate =>
         /\ key \in Keys /\ win = Window(key)
         /\ q = <<>> => IsLowerBound(key)
         /\ (q = <<>> /\ win \cap unheard = {} /\ \A n \in win : seg[n] # "loading")
                => win \subseteq Loaded
    /\ InUpdate /\ mpc # "merge" /\ q = <<>> => mset = win \cap Loaded
    /\ Swapped => merged = mset

LEMMA SettleInit == Init => SettleInv
BY DEF Init, SettleInv, Resting, InUpdate, Swapped, Updating

LEMMA WindowOfKeys ==
    ASSUME Keys' = Keys, NEW c
    PROVE  Window(c)' = Window(c)
<1>1. \A n : Rank(n)' = Rank(n)
  BY DEF Rank
<1> QED BY <1>1 DEF Window

\* Until it frees, the call leaves the keys alone; nobody else touches the
\* cache without posting a call.
LEMMA UpdateKeeps ==
    ASSUME TypeOK, AliveInv, Next, InUpdate, ~FreeSegments
    PROVE  /\ Keys' = Keys
           /\ q' = <<>> => q = <<>> /\ seg' = seg /\ current_segment' = current_segment
           /\ UNCHANGED <<win, key, unheard>> /\ InUpdate'
           /\ ~MergeSegments => /\ mset' = mset /\ (mpc = "merge" => mpc' = "merge")
                                /\ Swapped' => (Swapped /\ merged' = merged) \/ merged' = mset
           /\ ~UpdateSegmentsCache
<1> USE DEF InUpdate, Swapped, Updating, EnterUpdate, callVars, cacheVars, mainVars
<1>0. ~UpdateSegmentsCache /\ mpc \notin {"idle", "cache", "notify", "join", "stopped"}
  BY DEF UpdateSegmentsCache
<1>1. InUpdate' = InUpdate /\ UNCHANGED <<win, key, unheard>>
  BY <1>0, UpdatePhases
<1>2. CASE LoaderStep
  <2>1. PICK m \in Segs, ok \in BOOLEAN : LoadDone(m, ok)
    BY <1>2 DEF LoaderStep
  <2>2. Post("finished", m, ok) \in Posts BY SegsAssumption DEF Post, Posts
  <2>3. q' # <<>> BY <2>1, <2>2, AppendKeeps DEF LoadDone, TypeOK
  <2>4. Keys' = Keys BY <2>1 DEF LoadDone, Keys, TypeOK
  <2>5. UNCHANGED <<merged, mset, mpc, upd, after>> BY <2>1 DEF LoadDone
  <2> QED BY <1>0, <1>1, <2>3, <2>4, <2>5
<1>3. CASE StreamStep
  <2>1. UNCHANGED <<seg, merged, mset, mpc, upd, after>> BY <1>3, StreamPosts
  <2>2. q' = <<>> => q' = q /\ current_segment' = current_segment
    BY <1>3, StreamPosts, AppendKeeps DEF TypeOK
  <2> QED BY <1>0, <1>1, <2>1, <2>2 DEF Keys
<1>4. CASE MainStep \/ UserStep
  <2>1. PauseStreamThread \/ Apply \/ CheckSeekProgress \/ MergeSegments
    BY <1>0, <1>4 DEF MainStep, UserStep, SeekTo, Pause, Stop, UserCall, StopNotify, StopJoin,
       DequeueSeek, DequeueUpdateCache, SegmentLoadFinished, OrphanLoadFinished, Dequeue,
       UpdateSegmentsCacheReturns
  <2>2. q' = q /\ seg' = seg /\ current_segment' = current_segment
    BY <2>1 DEF PauseStreamThread, Apply, Lambda, ApplySeek, ApplyUserPause, ApplyErase,
       ApplyMerge, ApplyReady, CheckSeekProgress, MergeSegments, cursorVars
  <2>3. ~MergeSegments => /\ mset' = mset /\ (mpc = "merge" => mpc' = "merge")
                          /\ Swapped' => (Swapped /\ merged' = merged) \/ merged' = mset
    BY <1>0, <2>1 DEF PauseStreamThread, Apply, Lambda, ApplySeek, ApplyUserPause, ApplyErase,
       ApplyMerge, ApplyReady, CheckSeekProgress
  <2> QED BY <1>0, <1>1, <2>2, <2>3 DEF Keys
<1> QED BY <1>2, <1>3, <1>4 DEF Next

\* Nobody outside a call of updateSegmentsCache comes to rest having touched the
\* cache, without something left to do.
LEMMA RestKeeps ==
    ASSUME TypeOK, AliveInv, Next, ~InUpdate, ~UpdateSegmentsCacheReturns, Resting', q' = <<>>
    PROVE  Resting /\ q = <<>> /\ UNCHANGED <<seg, merged, current_segment, unheard>>
<1> USE DEF Resting, InUpdate, Swapped, Updating, EnterUpdate, callVars, cacheVars, mainVars
<1>1. CASE LoaderStep
  <2>1. PICK m \in Segs, ok \in BOOLEAN : LoadDone(m, ok)
    BY <1>1 DEF LoaderStep
  <2>2. Post("finished", m, ok) \in Posts BY SegsAssumption DEF Post, Posts
  <2> QED BY <2>1, <2>2, AppendKeeps DEF LoadDone, TypeOK
<1>2. CASE StreamStep
  <2>1. q' = q /\ current_segment' = current_segment
    BY <1>2, StreamPosts, AppendKeeps DEF TypeOK
  <2> QED BY <1>2, <2>1, StreamPosts
<1>3. CASE UserStep
  <2>1. UNCHANGED <<q, seg, merged, current_segment, unheard>> /\ mpc = "idle"
    BY <1>3 DEF UserStep, SeekTo, Pause, Stop, UserCall, cursorVars
  <2> QED BY <2>1
<1>4. CASE PauseStreamThread
  BY <1>4 DEF PauseStreamThread, cursorVars
<1>5. CASE Apply
  <2>1. upd = "user" /\ ApplyUserPause
    BY <1>5 DEF Apply, Lambda, ApplySeek, ApplyUserPause, ApplyErase, ApplyMerge, ApplyReady, TypeOK
  <2> QED BY <1>5, <2>1 DEF Apply, ApplyUserPause, cursorVars
<1>6. CASE CheckSeekProgress
  BY <1>6 DEF CheckSeekProgress, TypeOK
<1>7. CASE MainStep /\ ~PauseStreamThread /\ ~Apply /\ ~CheckSeekProgress
  BY <1>7 DEF MainStep, StopNotify, StopJoin, DequeueSeek, DequeueUpdateCache,
     SegmentLoadFinished, OrphanLoadFinished, Dequeue, UpdateSegmentsCache, MergeSegments,
     FreeSegments
<1> QED BY <1>1, <1>2, <1>3, <1>4, <1>5, <1>6, <1>7 DEF Next

LEMMA SettleBegins ==
    ASSUME TypeOK, FailedInv, UpdateSegmentsCache
    PROVE  SettleInv'
<1>1. PICK c \in Keys : /\ IsLowerBound(c) /\ key' = c /\ win' = Window(c)
                        /\ \/ \E n \in ToLoad(c, win') : Load(n)
                           \/ ToLoad(c, win') = {} /\ seg' = seg
  BY DEF UpdateSegmentsCache
<1>2. PICK W \in SUBSET Keys : W = win'
  BY <1>1, WindowBounded
<1>3. c \in Nat /\ W \subseteq Segs
  BY SegsAssumption DEF Keys
<1>4. Keys' = Keys
  BY LoadsOne
<1>5. q' = q /\ current_segment' = current_segment /\ mpc = "cache" /\ mpc' = "merge"
  BY DEF UpdateSegmentsCache, cursorVars
<1>6. win' = Window(key)'
  BY <1>1, <1>4, WindowOfKeys
<1>7. IsLowerBound(key)'
  BY <1>1, <1>4, <1>5 DEF IsLowerBound
<1>8. ASSUME q' = <<>>, W \cap unheard' = {}, \A n \in W : seg'[n] # "loading" PROVE W \subseteq Loaded'
  <2>1. ASSUME NEW n \in W, Load(n) PROVE FALSE
    <3>1. seg' = [seg EXCEPT ![n] = "loading"]
      BY <1>8, <2>1 DEF Load
    <3> QED BY <1>3, <1>8, <2>1, <3>1 DEF TypeOK
  <2>2. seg' = seg /\ ToLoad(c, W) = {}
    BY <1>1, <1>2, <1>3, <2>1, ToLoadInWindow
  <2>3. \A n \in W : seg[n] \notin {"loading", "failed"}
    <3>1. \A i : i \notin DOMAIN <<>> OBVIOUS
    <3>2. \A n \in W : seg[n] = "failed" => n \notin unheard
      BY <1>8, LoadsOne DEF NotNoticed
    <3> QED BY <1>3, <1>5, <1>8, <2>2, <3>1, <3>2 DEF FailedInv, Updating
  <2>4. W \subseteq Loaded
    BY <1>3, <2>2, <2>3, NothingToLoad
  <2> QED BY <2>2, <2>4 DEF Loaded
<1> QED
  BY <1>1, <1>2, <1>4, <1>5, <1>6, <1>7, <1>8 DEF SettleInv, Resting, Swapped, Updating

LEMMA SettleEnds ==
    ASSUME TypeOK, SettleInv, FreeSegments
    PROVE  SettleInv'
<1>1. mpc = "free" /\ mpc' = "idle" /\ merged' = merged /\ current_segment' = current_segment
  BY DEF FreeSegments
<1>2. InUpdate /\ Swapped /\ ~InUpdate' /\ ~Swapped'
  BY <1>1 DEF InUpdate, Swapped, Updating
<1>3. \A n \in Segs : seg'[n] = IF n \in Keys \ win THEN "null" ELSE seg[n]
  BY DEF FreeSegments, OutOfWindow
<1>4. Keys' = Keys
  BY <1>3 DEF Keys
<1>5. ASSUME Still' PROVE Settled'
  <2>1. q = <<>>
    <3>1. DOMAIN q' = DOMAIN q /\ q' = <<>> BY <1>5 DEF FreeSegments, Still
    <3>2. DOMAIN q = {} BY <3>1
    <3>3. Len(q) = 0 BY <3>2, LenProperties DEF TypeOK
    <3> QED BY <3>3, EmptySeq DEF TypeOK
  <2>2. IsLowerBound(key) /\ key \in Keys /\ win = Window(key) /\ mset = win \cap Loaded /\ merged = mset
    BY <1>1, <1>2, <2>1 DEF SettleInv
  <2>3. win \subseteq Keys /\ Keys \subseteq Segs /\ Keys \subseteq Nat
    BY <2>2, WindowBounded, SegsAssumption DEF Keys
  <2>4. \A n \in win : seg[n] # "loading"
    BY <1>3, <1>5, <2>3 DEF Still
  <2>6. Loaded' = win \cap Loaded
    <3>1. ASSUME NEW n \in win \cap Loaded PROVE n \in Loaded'
      BY <1>3, <2>3 DEF Loaded
    <3>2. ASSUME NEW n \in Segs, seg'[n] = "loaded" PROVE n \in win \cap Loaded
      <4>1. n \notin Keys \ win /\ seg[n] = "loaded" BY <1>3, <3>2
      <4> QED BY <4>1 DEF Keys, Loaded
    <3> QED BY <2>3, <3>1, <3>2 DEF Loaded
  <2>5. ASSUME unheard' = {} PROVE win \subseteq Loaded
    <3>1. win \cap unheard = {} BY <2>5 DEF FreeSegments, OutOfWindow
    <3> QED BY <1>2, <2>1, <2>4, <3>1 DEF SettleInv
  <2>7. ASSUME NEW c \in Keys, IsLowerBound(c)' PROVE c = key
    <3>1. IsLowerBound(c) BY <1>1, <1>4, <2>7 DEF IsLowerBound
    <3>2. PICK k \in Keys : k = key BY <2>2
    <3>3. c <= k /\ k <= c /\ c \in Nat /\ k \in Nat
      BY <2>2, <2>3, <3>1, <3>2 DEF IsLowerBound
    <3> QED BY <3>2, <3>3
  <2>8. \A c : Window(c)' = Window(c)
    BY <1>4, WindowOfKeys
  <2>9. merged = win \cap Loaded BY <2>2
  <2> QED BY <1>1, <1>4, <2>2, <2>5, <2>6, <2>7, <2>8, <2>9 DEF Settled
<1> QED BY <1>2, <1>5 DEF SettleInv

LEMMA SettleGoesOn ==
    ASSUME TypeOK, AliveInv, SettleInv, Next, InUpdate, ~FreeSegments
    PROVE  SettleInv'
<1>1. /\ Keys' = Keys /\ UNCHANGED <<win, key, unheard>> /\ InUpdate'
      /\ q' = <<>> => q = <<>> /\ seg' = seg /\ current_segment' = current_segment
      /\ ~MergeSegments => /\ mset' = mset /\ (mpc = "merge" => mpc' = "merge")
                           /\ Swapped' => (Swapped /\ merged' = merged) \/ merged' = mset
  BY UpdateKeeps
<1>2. ~Resting'
  BY <1>1 DEF InUpdate, Swapped, Resting, Updating
<1>3. (key \in Keys /\ win = Window(key))'
  BY <1>1, WindowOfKeys DEF SettleInv
<1>4. ASSUME q' = <<>>
      PROVE  /\ IsLowerBound(key)' /\ Loaded' = Loaded
             /\ (win' \cap unheard' = {} /\ \A n \in win' : seg'[n] # "loading") => win' \subseteq Loaded'
  BY <1>1, <1>4 DEF SettleInv, IsLowerBound, Loaded
<1>5. CASE MergeSegments
  <2>1. mset' = win \cap Loaded /\ seg' = seg /\ merged' = merged
    BY <1>5 DEF MergeSegments
  <2>2. Swapped' => merged' = mset'
    BY <1>5, <2>1 DEF MergeSegments, AlreadyMerged, EnterUpdate, Swapped, Updating
  <2>3. mset' = (win \cap Loaded)'
    BY <1>1, <2>1 DEF Loaded
  <2> QED BY <1>1, <1>2, <1>3, <1>4, <2>2, <2>3 DEF SettleInv
<1>6. CASE ~MergeSegments
  <2>0. mset' = mset /\ (mpc = "merge" => mpc' = "merge")
    BY <1>1, <1>6
  <2>1. Swapped' => merged' = mset'
    <3>1. Swapped => merged = mset BY DEF SettleInv
    <3>2. Swapped' => (Swapped /\ merged' = merged) \/ merged' = mset BY <1>1, <1>6
    <3> QED BY <2>0, <3>1, <3>2
  <2>2. mpc' # "merge" /\ q' = <<>> => mset' = (win \cap Loaded)'
    <3> SUFFICES ASSUME mpc' # "merge", q' = <<>> PROVE mset' = (win \cap Loaded)'
      OBVIOUS
    <3>1. mset = win \cap Loaded BY <1>1, <2>0 DEF SettleInv
    <3>2. win' = win /\ Loaded' = Loaded BY <1>1, <1>4
    <3> QED BY <2>0, <3>1, <3>2
  <2> QED BY <1>1, <1>2, <1>3, <1>4, <2>1, <2>2 DEF SettleInv
<1> QED BY <1>5, <1>6

LEMMA SettleStep == TypeOK /\ AliveInv /\ FailedInv /\ SettleInv /\ [Next]_vars => SettleInv'
<1> SUFFICES ASSUME TypeOK, AliveInv, FailedInv, SettleInv, [Next]_vars PROVE SettleInv'
  OBVIOUS
<1>1. CASE UNCHANGED vars
  <2>1. UNCHANGED <<Keys, Loaded>> /\ UNCHANGED <<mpc, upd, after, q, seg, merged, win, key, mset, unheard, current_segment>>
    BY <1>1 DEF vars, mainVars, callVars, cacheVars, cursorVars, Keys, Loaded
  <2>2. \A c : Window(c)' = Window(c)
    BY <2>1, WindowOfKeys
  <2> QED BY <2>1, <2>2 DEF SettleInv, Resting, Still, Settled, IsLowerBound, InUpdate, Swapped, Updating
<1>2. CASE Next /\ ~InUpdate /\ ~UpdateSegmentsCache
  <2>1. ~FreeSegments
    BY <1>2 DEF FreeSegments, InUpdate, Swapped
  <2>2. ~InUpdate' /\ ~Swapped'
    BY <1>2, <2>1, UpdatePhases DEF InUpdate
  <2>3. ASSUME Resting', Still' PROVE Settled'
    <3>1. CASE UpdateSegmentsCacheReturns
      <4>1. \A c \in Keys : c < current_segment /\ c \in Int
        BY <3>1, SegsAssumption DEF UpdateSegmentsCacheReturns, Keys
      <4>2. Keys' = Keys /\ current_segment' = current_segment /\ current_segment \in Int
        BY <3>1 DEF UpdateSegmentsCacheReturns, Keys, cursorVars, TypeOK
      <4>3. ASSUME NEW c \in Keys, c >= current_segment PROVE FALSE
        BY <4>1, <4>2, <4>3
      <4> QED BY <4>2, <4>3 DEF Settled, IsLowerBound
    <3>2. CASE ~UpdateSegmentsCacheReturns
      <4>1. Resting /\ q = <<>> /\ UNCHANGED <<seg, merged, current_segment, unheard>>
        BY <1>2, <2>3, <3>2, RestKeeps DEF Still
      <4>2. Keys' = Keys /\ Loaded' = Loaded /\ Still
        BY <2>3, <4>1 DEF Keys, Loaded, Still
      <4>3. Settled BY <4>1, <4>2 DEF SettleInv
      <4>4. \A c : Window(c)' = Window(c) BY <4>2, WindowOfKeys
      <4> QED BY <4>1, <4>2, <4>3, <4>4 DEF Settled, IsLowerBound
    <3> QED BY <3>1, <3>2
  <2> QED BY <2>2, <2>3 DEF SettleInv
<1>3. CASE Next /\ InUpdate /\ ~UpdateSegmentsCache
  BY <1>3, SettleGoesOn, SettleEnds
<1>4. CASE UpdateSegmentsCache
  BY <1>4, SettleBegins
<1> QED BY <1>1, <1>2, <1>3, <1>4

\* However segment crossings, seeks, finished and failed loads interleave, once
\* nothing is queued, loading or running the segments in memory are merged and
\* lie in the window around the current segment; and they are all of it, unless
\* the result of a load fell between the start of its workers and the connect.
THEOREM CacheHasSettled == Spec => []CacheSettles
<1>1. SettleInv => CacheSettles
  BY DEF SettleInv, CacheSettles, Quiet, Resting, Still, Settled
<1>2. TypeOK /\ FailedInv /\ [Next]_vars => FailedInv'
  BY FailedStep
<1>3. Spec => []FailedInv
  BY <1>2, FailedInit, TypeCorrect, PTL DEF Spec
<1> QED BY <1>1, <1>3, SettleInit, SettleStep, TypeCorrect, AliveAlways, PTL DEF Spec

-----------------------------------------------------------------------------
(* The stream thread is woken up.                                           *)

\* events_ready_ stays up while the thread walks events_; when it is down,
\* there is a reason that another step will remove.
ReadyInv ==
    /\ spc \in {"publish", "emit"} => events_ready
    /\ seeking_to # None /\ mpc # "check" => SegOf(seeking_to) \notin merged
    /\ \/ events_ready \/ seeking_to # None \/ Updating("ready") \/ mpc = "stopped"
       \/ current_segment \in Keys \ merged
       \/ merged = {}
       \/ spc # "none" /\ UpperBound(merged, cur, cur_which) = End

LEMMA ReadyInit == Init => ReadyInv
BY DEF Init, ReadyInv

LEMMA ReadyApply ==
    ASSUME TypeOK, AliveInv, ReadyInv, Apply
    PROVE  ReadyInv'
<1> USE DEF Updating
<1>0. spc' \notin {"publish", "emit"} /\ (spc # "none" => spc' # "none") /\ cur_which' = cur_which
      /\ mpc = "apply"
  BY DEF Apply, LockFree, Notified
<1>1. CASE ApplySeek
  <2>1. mpc' = "check" /\ merged' = merged /\ Keys' = Keys BY <1>1 DEF ApplySeek, Keys
  <2>2. CASE events_ready' BY <1>0, <2>1, <2>2 DEF ReadyInv
  <2>3. CASE ~events_ready'
    <3> DEFINE target == Max({0, IF upd = "seekRel" THEN cur + arg ELSE arg})
    <3>1. target \in Nat
      <4>1. (IF upd = "seekRel" THEN cur + arg ELSE arg) \in Int BY DEF TypeOK
      <4> QED BY <4>1, ClampIsNat
    <3>2. seeking_to' = target BY <1>1, <2>3 DEF ApplySeek
    <3>3. seeking_to' # None
      <4> HIDE DEF target
      <4> QED BY <3>1, <3>2 DEF None
    <3> QED BY <1>0, <2>1, <3>3 DEF ReadyInv
  <2> QED BY <2>2, <2>3
<1>2. CASE ApplyUserPause
  BY <1>0, <1>2 DEF ApplyUserPause, cursorVars, ReadyInv, Keys
<1>3. CASE ApplyErase
  <2>1. merged' = merged /\ seeking_to' = seeking_to /\ upd = "erase" /\ events_ready' = (Keys \ {arg} # {})
    BY <1>3 DEF ApplyErase, cursorVars
  <2>2. CASE events_ready' BY <1>0, <2>1, <2>2 DEF ReadyInv
  <2>3. CASE ~events_ready'
    <3>1. merged \subseteq Loaded /\ LoadFailed(seg, arg) BY <1>0, <2>1 DEF AliveInv
    <3>2. Loaded \subseteq Keys \ {arg} BY <3>1 DEF Loaded, Keys, LoadFailed
    <3>3. merged' = {} BY <2>1, <2>3, <3>1, <3>2
    <3> QED BY <1>0, <2>1, <3>3 DEF ReadyInv
  <2> QED BY <2>2, <2>3
<1>4. CASE ApplyMerge
  <2>1. /\ merged' = mset /\ mpc' = "check" /\ seeking_to' = seeking_to /\ Keys' = Keys
        /\ current_segment' = current_segment /\ events_ready' = PlayableAfterMerge
    BY <1>4 DEF ApplyMerge, cursorVars, Keys
  <2>2. CASE events_ready' BY <1>0, <2>1, <2>2 DEF ReadyInv
  <2>3. CASE ~events_ready'
    <3>1. seeking_to' # None \/ current_segment' \in Keys' \ merged'
      BY <2>1, <2>3 DEF PlayableAfterMerge
    <3> QED BY <1>0, <2>1, <3>1 DEF ReadyInv
  <2> QED BY <2>2, <2>3
<1>5. CASE ApplyReady
  <2>1. events_ready' /\ merged' = merged /\ seeking_to' = seeking_to
    BY <1>5 DEF ApplyReady, cursorVars
  <2> QED BY <1>0, <2>1 DEF ReadyInv
<1> QED BY <1>1, <1>2, <1>3, <1>4, <1>5 DEF Apply, Lambda

LEMMA ReadyStep == TypeOK /\ AliveInv /\ ReadyInv /\ [Next]_vars => ReadyInv'
<1> SUFFICES ASSUME TypeOK, AliveInv, ReadyInv, [Next]_vars PROVE ReadyInv'
  OBVIOUS
<1> USE DEF mainVars, callVars, cacheVars, flagVars, cursorVars, streamVars, Updating, EnterUpdate
\* steps that leave the reasons alone
<1>1. ASSUME UNCHANGED <<merged, cur, current_segment, seeking_to, events_ready, spc, cur_which>>,
             Keys' = Keys \/ mpc' = "stopped", mpc # "check", mpc' # "check",
             Updating("ready") => Updating("ready")', mpc = "stopped" => mpc' = "stopped"
      PROVE  ReadyInv'
  BY <1>1 DEF ReadyInv
<1>2. CASE UNCHANGED vars
  BY <1>2 DEF vars, ReadyInv, Keys
<1>3. CASE UserStep
  <2>1. UNCHANGED <<merged, seg, cur, current_segment, seeking_to, events_ready, spc, cur_which>>
        /\ mpc = "idle" /\ mpc' # "check"
    BY <1>3 DEF UserStep, SeekTo, Pause, Stop, UserCall
  <2> QED BY <1>1, <2>1 DEF Keys
<1>4. CASE LoaderStep
  <2>1. UNCHANGED <<merged, cur, current_segment, seeking_to, events_ready, spc, cur_which, mpc, upd>>
        /\ Keys' = Keys
    BY <1>4 DEF LoaderStep, LoadDone, Keys, TypeOK
  <2> QED BY <2>1 DEF ReadyInv
<1>5. CASE StreamStep
  <2>0. UNCHANGED <<seg, merged, mpc, upd>> /\ Keys' = Keys BY <1>5, StreamPosts DEF Keys
  <2>1. CASE StreamCheck
    BY <2>0, <2>1 DEF StreamCheck, ReadyInv, Wanted
  <2>2. CASE PublishTurn \/ PublishInterrupted \/ Publish
    <3>1. events_ready' /\ seeking_to' = seeking_to
      BY <2>2 DEF PublishTurn, PublishInterrupted, Publish, ReadyInv
    <3> QED BY <2>0, <3>1 DEF ReadyInv
  <2>3. CASE StreamBlock \/ SpuriousWakeup \/ PublishedAll
    <3>1. /\ UNCHANGED <<cur, current_segment, seeking_to, events_ready, cur_which>>
          /\ spc # "none" /\ spc' \notin {"none", "publish", "emit"}
      BY <2>3 DEF StreamBlock, SpuriousWakeup, PublishedAll
    <3> QED BY <2>0, <3>1 DEF ReadyInv
  <2> QED BY <1>5, <2>1, <2>2, <2>3 DEF StreamStep, StreamRuns
<1>6. CASE StopJoin
  BY <1>1, <1>6 DEF StopJoin
<1>7. CASE StopNotify
  BY <1>7 DEF StopNotify, Notified, ReadyInv, Keys
<1>8. CASE DequeueSeek \/ DequeueUpdateCache \/ SegmentLoadFinished \/ OrphanLoadFinished
           \/ UpdateSegmentsCacheReturns \/ MergeSegments
  <2>1. UNCHANGED <<merged, seg, cur, current_segment, seeking_to, events_ready, spc, cur_which>>
        /\ mpc \in {"idle", "cache", "merge"} /\ mpc' # "check"
    BY <1>8 DEF DequeueSeek, DequeueUpdateCache, SegmentLoadFinished, OrphanLoadFinished, Dequeue,
       UpdateSegmentsCacheReturns, MergeSegments
  <2> QED BY <1>1, <2>1 DEF Keys
<1>9. CASE PauseStreamThread
  <2>1. UNCHANGED <<merged, seg, cur, current_segment, seeking_to, events_ready, spc, cur_which, upd>>
        /\ mpc = "pause" /\ mpc' = "apply"
    BY <1>9 DEF PauseStreamThread
  <2> QED BY <1>1, <2>1 DEF Keys
<1>10. CASE Apply
  BY <1>10, ReadyApply
<1>11. CASE CheckSeekProgress
  <2>1. UNCHANGED <<merged, seg, cur, current_segment, events_ready, spc, cur_which>>
        /\ mpc = "check" /\ mpc' # "check"
    BY <1>11 DEF CheckSeekProgress, TypeOK
  <2>2. merged \subseteq Loaded BY <2>1 DEF AliveInv
  <2>3. CASE seeking_to' = seeking_to /\ (seeking_to # None => SegOf(seeking_to) \notin Loaded)
    BY <2>1, <2>2, <2>3 DEF ReadyInv, Keys
  <2>4. CASE seeking_to' = None /\ mpc' = "pause" /\ upd' = "ready"
    BY <2>1, <2>4 DEF ReadyInv, Keys
  <2> QED BY <1>11, <2>3, <2>4 DEF CheckSeekProgress, SeekArrived
<1>12. CASE UpdateSegmentsCache
  <2>2. Keys' = Keys
    BY <1>12, LoadsOne
  <2>3. UNCHANGED <<merged, cur, current_segment, seeking_to, events_ready, spc, cur_which>>
        /\ mpc = "cache" /\ mpc' = "merge"
    BY <1>12 DEF UpdateSegmentsCache
  <2> QED BY <1>1, <2>2, <2>3
<1>13. CASE FreeSegments
  <2>1. UNCHANGED <<merged, current_segment, seeking_to, events_ready, cur_which>>
        /\ mpc = "free" /\ mpc' = "idle"
    BY <1>13 DEF FreeSegments
  <2>2. Keys' = Keys BY <1>13 DEF FreeSegments, OutOfWindow, Keys
  <2>3. (spc' = spc /\ cur' = cur) \/ (spc = "none" /\ spc' = "lock")
    BY <1>13 DEF FreeSegments
  <2> QED BY <2>1, <2>2, <2>3 DEF ReadyInv
<1> QED BY <1>2, <1>3, <1>4, <1>5, <1>6, <1>7, <1>8, <1>9, <1>10, <1>11, <1>12, <1>13
        DEF Next, MainStep

\* Undisturbed, a seek keeps the stream thread out of its loop until it is
\* complete, and current_segment_ is the segment it waits for.
SeekInv ==
    /\ Updating("ready") => seeking_to = None
    /\ seeking_to # None /\ ~disturbed /\ mpc # "stopped" =>
        /\ ~events_ready
        /\ current_segment = SegOf(seeking_to) /\ current_segment \in Keys

LEMMA SeekApply ==
    ASSUME TypeOK, SeekInv, Apply
    PROVE  SeekInv'
<1> USE DEF Updating, cursorVars
<1>0. mpc = "apply" /\ upd' = upd BY DEF Apply
<1>1. CASE ApplySeek
  <2> DEFINE target == Max({0, IF upd = "seekRel" THEN cur + arg ELSE arg})
             valid  == SegOf(target) \in Keys /\ target <= MaxSeconds
  <2>1. /\ mpc' = "check" /\ Keys' = Keys /\ events_ready' = ~valid
        /\ upd \in {"seek", "seekRel"}
        /\ valid => current_segment' = SegOf(target) /\ seeking_to' = target
        /\ ~valid => seeking_to' = seeking_to /\ disturbed' = (seeking_to # None)
    BY <1>1 DEF ApplySeek, Keys
  <2> HIDE DEF target
  <2> QED BY <2>1 DEF SeekInv
<1>2. CASE ApplyUserPause
  BY <1>0, <1>2 DEF ApplyUserPause, SeekInv, Keys
<1>3. CASE ApplyErase
  <2>1. seeking_to' = seeking_to /\ disturbed' = (seeking_to # None) /\ mpc' = "cache"
    BY <1>3 DEF ApplyErase
  <2> QED BY <1>0, <2>1 DEF SeekInv
<1>4. CASE ApplyMerge
  BY <1>0, <1>4 DEF ApplyMerge, PlayableAfterMerge, SeekInv, Keys
<1>5. CASE ApplyReady
  <2>1. seeking_to' = seeking_to /\ mpc' = after /\ seeking_to = None
    BY <1>0, <1>5 DEF ApplyReady, SeekInv
  <2> QED BY <2>1, <1>0 DEF TypeOK, SeekInv
<1> QED BY <1>1, <1>2, <1>3, <1>4, <1>5 DEF Apply, Lambda

LEMMA SeekStep == TypeOK /\ ReadyInv /\ SeekInv /\ [Next]_vars => SeekInv'
<1> SUFFICES ASSUME TypeOK, ReadyInv, SeekInv, [Next]_vars PROVE SeekInv'
  OBVIOUS
<1> USE DEF mainVars, callVars, cacheVars, flagVars, cursorVars, streamVars, Updating, EnterUpdate
\* steps that leave the seek alone
<1>1. ASSUME UNCHANGED <<current_segment, seeking_to, disturbed, events_ready>>,
             Keys' = Keys \/ mpc' = "stopped", mpc = "stopped" => mpc' = "stopped",
             Updating("ready")' => Updating("ready")
      PROVE  SeekInv'
  BY <1>1 DEF SeekInv
<1>2. CASE UNCHANGED vars
  BY <1>1, <1>2 DEF vars, Keys
<1>3. CASE UserStep
  <2>1. UNCHANGED <<seg, current_segment, seeking_to, disturbed, events_ready>> /\ mpc = "idle"
        /\ (mpc' = "notify" \/ upd' \in {"seek", "seekRel", "user"})
    BY <1>3 DEF UserStep, SeekTo, Pause, Stop, UserCall
  <2> QED BY <1>1, <2>1 DEF Keys
<1>4. CASE LoaderStep
  <2>1. UNCHANGED <<current_segment, seeking_to, disturbed, events_ready, mpc, upd>> /\ Keys' = Keys
    BY <1>4 DEF LoaderStep, LoadDone, Keys, TypeOK
  <2> QED BY <1>1, <2>1
<1>5. CASE StreamStep
  <2>0. UNCHANGED <<seg, merged, mpc, upd, seeking_to, disturbed>> /\ Keys' = Keys
    BY <1>5, StreamPosts DEF Keys, StreamStep, StreamRuns, StreamCheck, StreamBlock, SpuriousWakeup,
       PublishTurn, PublishInterrupted, Publish, PublishedAll
  <2>1. CASE StreamCheck
    <3>1. current_segment' = current_segment /\ (events_ready' => events_ready)
      BY <2>1 DEF StreamCheck
    <3>2. events_ready' \in BOOLEAN BY <2>1 DEF StreamCheck, TypeOK
    <3> QED BY <2>0, <3>1, <3>2 DEF SeekInv
  <2>2. CASE PublishTurn
    BY <2>0, <2>2 DEF PublishTurn, ReadyInv, SeekInv
  <2>3. CASE StreamBlock \/ SpuriousWakeup \/ PublishInterrupted \/ Publish \/ PublishedAll
    <3>1. UNCHANGED <<current_segment, events_ready>>
      BY <2>3 DEF StreamBlock, SpuriousWakeup, PublishInterrupted, Publish, PublishedAll
    <3> QED BY <1>1, <2>0, <3>1
  <2> QED BY <1>5, <2>1, <2>2, <2>3 DEF StreamStep, StreamRuns
<1>6. CASE StopJoin \/ StopNotify
  BY <1>1, <1>6 DEF StopJoin, StopNotify, Keys
<1>7. CASE DequeueSeek \/ DequeueUpdateCache \/ SegmentLoadFinished \/ OrphanLoadFinished
           \/ UpdateSegmentsCacheReturns \/ MergeSegments
  <2>1. UNCHANGED <<seg, current_segment, seeking_to, disturbed, events_ready>>
        /\ mpc \in {"idle", "cache", "merge"} /\ ~Updating("ready")'
    BY <1>7 DEF DequeueSeek, DequeueUpdateCache, SegmentLoadFinished, OrphanLoadFinished, Dequeue,
       UpdateSegmentsCacheReturns, MergeSegments
  <2> QED BY <1>1, <2>1 DEF Keys
<1>8. CASE PauseStreamThread
  <2>1. UNCHANGED <<seg, current_segment, seeking_to, disturbed, events_ready, upd>>
        /\ mpc = "pause" /\ mpc' = "apply"
    BY <1>8 DEF PauseStreamThread
  <2> QED BY <1>1, <2>1 DEF Keys
<1>9. CASE Apply
  BY <1>9, SeekApply
<1>10. CASE CheckSeekProgress
  <2>1. UNCHANGED <<seg, current_segment, events_ready>> /\ mpc = "check"
        /\ (seeking_to' = None \/ (UNCHANGED <<seeking_to, disturbed>> /\ mpc' = after))
    BY <1>10 DEF CheckSeekProgress
  <2>2. Keys' = Keys BY <2>1 DEF Keys
  <2>3. CASE seeking_to' = None
    BY <2>3 DEF SeekInv
  <2>4. CASE UNCHANGED <<seeking_to, disturbed>> /\ mpc' = after
    <3>1. mpc' \in {"cache", "free"} BY <2>4 DEF TypeOK
    <3> QED BY <2>1, <2>2, <2>4, <3>1 DEF SeekInv
  <2> QED BY <2>1, <2>3, <2>4
<1>11. CASE UpdateSegmentsCache
  <2>2. Keys' = Keys
    BY <1>11, LoadsOne
  <2> QED BY <1>1, <1>11, <2>2 DEF UpdateSegmentsCache
<1>12. CASE FreeSegments
  <2>1. UNCHANGED <<current_segment, seeking_to, disturbed, events_ready>> /\ mpc = "free" /\ mpc' = "idle"
    BY <1>12 DEF FreeSegments
  <2>2. Keys' = Keys BY <1>12 DEF FreeSegments, OutOfWindow, Keys
  <2> QED BY <1>1, <2>1, <2>2
<1> QED BY <1>2, <1>3, <1>4, <1>5, <1>6, <1>7, <1>8, <1>9, <1>10, <1>11, <1>12
        DEF Next, MainStep

\* The stream thread is never left asleep with events to play: mergeSegments and
\* checkSeekProgress raise events_ready_, whatever interleaves, unless the seek
\* that is pending was disturbed (ApplyErase, ApplySeek).
THEOREM NeverStalled == Spec => []NotStalled
<1>1. Spec => []ReadyInv
  BY ReadyInit, ReadyStep, TypeCorrect, AliveAlways, PTL DEF Spec
<1>2. Init => SeekInv
  BY DEF Init, SeekInv, Updating
<1>3. ReadyInv /\ SeekInv => NotStalled
  <2> SUFFICES ASSUME ReadyInv, SeekInv, ~NotStalled PROVE FALSE
    OBVIOUS
  <2>1. /\ mpc = "idle" /\ spc # "none" /\ ~events_ready /\ ~disturbed
        /\ current_segment \in merged \/ current_segment \notin Keys
        /\ UpperBound(merged, cur, cur_which) # End
    BY DEF NotStalled, Playable, Quiet
  <2>2. merged # {}
    BY <2>1 DEF UpperBound, EventsOf
  <2>3. seeking_to # None /\ SegOf(seeking_to) \notin merged
    BY <2>1, <2>2 DEF ReadyInv, Updating
  <2> QED BY <2>1, <2>3 DEF SeekInv
<1> QED BY <1>1, <1>2, <1>3, SeekStep, TypeCorrect, PTL DEF Spec
=============================================================================
