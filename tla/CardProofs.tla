------------------------------ MODULE CardProofs ------------------------------
(***************************************************************************)
(* Theorems about Card, for every set of cars and of carStates and however *)
(* long carControl may be missing before it is called dead.                *)
(***************************************************************************)
EXTENDS Card, TLAPS

NonPassive == CP.passive = FALSE

-----------------------------------------------------------------------------
(* CI.init runs once, and before any command.                              *)

\* The interface is initialized exactly while controls, seen ready in the last
\* step, have not been read as starting again, and from the end of CI.init on.
StartInv ==
    /\ CP.passive \in BOOLEAN
    /\ pc \in {"update", "publish", "control", "apply"}
    /\ initializedPrev \in BOOLEAN
    /\ pc = "update" => (initializedPrev = TRUE <=> initialized)
    /\ pc = "apply" => NonPassive /\ initialized /\ initializedPrev = FALSE
    /\ inits = IF \/ NonPassive /\ initializedPrev = TRUE /\ (pc = "update" \/ initialized)
                  \/ pc = "apply"
               THEN 1 ELSE 0
    /\ sent # {} /\ pc = "update" => NonPassive /\ initializedPrev = TRUE
    /\ ~NonPassive => sent = {}

LEMMA StartInit == Init => StartInv
<1> SUFFICES ASSUME Init PROVE StartInv
  OBVIOUS
<1>1. PICK c \in Configs : CP = CarParamsOf(c)
  BY Zenon DEF Init
<1>2. CP.passive = (~c.controller \/ ~c.enabledToggle \/ c.dashcamOnly)
  BY <1>1 DEF CarParamsOf
<1>3. CP.passive \in BOOLEAN
  BY Zenon, <1>2
<1>4. initializedPrev = FALSE /\ pc = "update" /\ onroad = "unseen" /\ sent = {} /\ inits = 0
  BY DEF Init
<1> QED BY <1>3, <1>4 DEF StartInv, initialized, NonPassive

LEMMA StartStep ==
    ASSUME StartInv, [Next]_vars
    PROVE  StartInv'
<1> USE DEF StartInv, NonPassive, initialized
<1>1. CASE StateUpdate
  BY <1>1 DEF StateUpdate
<1>2. CASE StatePublish
  BY <1>2 DEF StatePublish, history
<1>3. CASE ControlsUpdate
  <2>1. CP.passive = FALSE /\ CP' = CP
    BY <1>3 DEF ControlsUpdate, Controlled
  <2>2. initializedPrev' = TRUE /\ onroad' = "ready" /\ pc' = "update"
    BY Zenon, <1>3 DEF ControlsUpdate, Controlled
  <2>3. inits' = 1
    BY <1>3, <2>1 DEF ControlsUpdate, Controlled, Starting, history
  <2> QED BY <2>1, <2>2, <2>3
<1>4. CASE SkipControls
  BY <1>4 DEF SkipControls, Controlled, history
<1>7. CASE InitCar
  BY <1>7 DEF InitCar, Controlled, Starting
<1>5. CASE ControlsAnswers \/ ControlsTurns
  BY <1>5 DEF ControlsAnswers, ControlsTurns, history
<1>6. CASE UNCHANGED vars
  BY <1>6 DEF vars, control, history
<1> QED BY <1>1, <1>2, <1>3, <1>4, <1>5, <1>6, <1>7 DEF Next

\* Commands wait for CI.init, which runs once per start of controls, and never
\* in a passive car.
THEOREM InitOnce == Spec => []InitOncePerStart
<1>1. StartInv => InitOncePerStart
  BY DEF StartInv, InitOncePerStart, NonPassive
<1> QED BY StartInit, StartStep, <1>1, PTL DEF Spec

-----------------------------------------------------------------------------
(* No old command.                                                         *)

\* What CI.init took, as far as it is part of the age of a message read when
\* the last CI.init was n steps ago.
Kept(n) == IF n <= 2 THEN took ELSE 0

\* A carControl waits for a frame at most before it is read, and while
\* carControl is alive the one that is held has aged with quiet: but for the
\* frames of a CI.init no further back than the message itself.
AgeInv ==
    /\ pc \in {"update", "publish", "control", "apply"}
    /\ held \in Int /\ wire \in Int /\ sent \subseteq Int
    /\ took \in Nat /\ since \in Nat /\ since <= AliveFrames + 2
    /\ since = AliveFrames + 2 => took = 0
    /\ lag \in Nat /\ lag <= Kept(IF pc = "publish" THEN since + 1 ELSE since + 2)
    /\ quiet \in Nat /\ quiet <= AliveFrames
    /\ wire <= (IF pc = "publish" THEN 0 ELSE 1) + Kept(since + 1)
    /\ quiet < AliveFrames =>
         held <= quiet + (IF pc = "publish" THEN 1 ELSE 2) + Kept(since - quiet)
    /\ FreshCommand

LEMMA AgeInit == Init => AgeInv
BY AliveAssumption DEF Init, AgeInv, FreshCommand, None, Kept

LEMMA UpToLeast ==
    ASSUME NEW bound \in Int, NEW n \in Int
    PROVE  UpTo(bound, n) \in Int /\ UpTo(bound, n) <= n /\ UpTo(bound, n) <= bound
BY DEF UpTo

LEMMA OlderMost ==
    ASSUME NEW age \in Int, NEW n \in Nat
    PROVE  Older(age, n) \in Int /\ Older(age, n) <= age + n
<1>1. age + n \in Int /\ MaxAge \in Int
  BY BoundAssumption
<1>2. UpTo(MaxAge, age + n) \in Int /\ UpTo(MaxAge, age + n) <= age + n
  BY <1>1, UpToLeast
<1> QED BY <1>2 DEF Older, None

LEMMA AgeStep ==
    ASSUME AgeInv, [Next]_vars
    PROVE  AgeInv'
<1>a. AliveFrames \in Nat /\ AliveFrames >= 1
  BY AliveAssumption
<1>b. /\ held \in Int /\ wire \in Int /\ took \in Nat /\ since \in Nat /\ lag \in Nat /\ quiet \in Nat
      /\ since <= AliveFrames + 2 /\ quiet <= AliveFrames
      /\ since = AliveFrames + 2 => took = 0
  BY DEF AgeInv
<1>c. /\ lag <= Kept(IF pc = "publish" THEN since + 1 ELSE since + 2)
      /\ wire <= (IF pc = "publish" THEN 0 ELSE 1) + Kept(since + 1)
      /\ quiet < AliveFrames =>
           held <= quiet + (IF pc = "publish" THEN 1 ELSE 2) + Kept(since - quiet)
  BY DEF AgeInv
<1>d. pc \in {"update", "publish", "control", "apply"} /\ sent \subseteq Int /\ FreshCommand
  BY DEF AgeInv
<1> USE <1>a, <1>b, <1>c, <1>d
<1>1. CASE StateUpdate
  <2>1. /\ wire' = None /\ pc' = "publish" /\ sent' = sent /\ lag' = lag
        /\ since' = UpTo(AliveFrames + 2, since + 1)
        /\ took' = IF since' = AliveFrames + 2 THEN 0 ELSE took
        /\ held' = IF wire # None THEN wire ELSE held
        /\ quiet' = IF wire # None THEN 0 ELSE UpTo(AliveFrames, quiet + 1 + lag)
        /\ pc = "update"
    BY <1>1 DEF StateUpdate
  <2>2. since' \in Nat /\ since' <= AliveFrames + 2 /\ took' \in Nat
    BY <2>1 DEF UpTo
  <2>3. held' \in Int /\ wire' \in Int /\ quiet' \in Nat /\ quiet' <= AliveFrames
    BY <2>1 DEF UpTo, None
  <2>4. since <= AliveFrames => since' = since + 1 /\ took' = took
    BY <2>1 DEF UpTo
  <2>5. lag <= Kept(since + 1)'
    BY <2>1, <2>4 DEF Kept
  <2>6. wire' <= Kept(since + 1)'
    BY <2>1, <2>2 DEF Kept, None
  <2>7. Kept(since - quiet)' \in Nat
    BY <2>2, <2>3 DEF Kept
  <2>8. quiet' < AliveFrames => held' <= quiet' + 1 + Kept(since - quiet)'
    <3> SUFFICES ASSUME quiet' < AliveFrames PROVE held' <= quiet' + 1 + Kept(since - quiet)'
      OBVIOUS
    <3>1. CASE wire # None
      <4>1. held' = wire /\ quiet' = 0
        BY <2>1, <3>1
      <4>2. wire <= 1 + Kept(since + 1)
        BY <2>1
      <4>3. CASE since <= 1
        <5>1. since' = since + 1 /\ took' = took
          BY <2>4, <4>3
        <5>2. Kept(since + 1) = took /\ Kept(since - quiet)' = took
          BY <4>1, <4>3, <5>1 DEF Kept
        <5> QED BY <4>1, <4>2, <5>2
      <4>4. CASE since > 1
        <5>1. Kept(since + 1) = 0
          BY <4>4 DEF Kept
        <5> QED BY <2>7, <4>1, <4>2, <5>1
      <4> QED BY <4>3, <4>4
    <3>2. CASE wire = None
      <4>1. held' = held /\ quiet' = quiet + 1 + lag /\ quiet < AliveFrames
        BY <2>1, <3>2 DEF UpTo
      <4>2. held <= quiet + 2 + Kept(since - quiet)
        BY <2>1, <4>1
      <4>3. CASE since <= AliveFrames
        BY <2>4, <4>1, <4>2, <4>3 DEF Kept
      <4>4. CASE since > AliveFrames
        <5>1. since - quiet > 2
          BY <4>1, <4>4
        <5>2. Kept(since - quiet) = 0
          BY <5>1 DEF Kept
        <5> QED BY <2>7, <4>1, <4>2, <5>2
      <4> QED BY <4>3, <4>4
    <3> QED BY <3>1, <3>2
  <2>9. FreshCommand' /\ sent' \subseteq Int
    BY <2>1 DEF FreshCommand
  <2>10. lag' \in Nat /\ lag' <= Kept(IF pc = "publish" THEN since + 1 ELSE since + 2)'
    BY <2>1, <2>5 DEF Kept
  <2>11. since' = AliveFrames + 2 => took' = 0
    BY <2>1
  <2>12. Kept(since + 1)' \in Nat
    BY <2>2 DEF Kept
  <2> QED BY <2>1, <2>2, <2>3, <2>6, <2>7, <2>8, <2>9, <2>10, <2>11, <2>12 DEF AgeInv, FreshCommand
<1>2. CASE StatePublish
  <2>1. /\ pc = "publish" /\ pc' = "control" /\ lag' = 0
        /\ held' = Older(held, 1) /\ wire' = Older(wire, 1)
        /\ UNCHANGED <<quiet, sent, since, took>>
    BY <1>2 DEF StatePublish, history
  <2>2. held' \in Int /\ wire' \in Int /\ held' <= held + 1 /\ wire' <= wire + 1
    BY <2>1, OlderMost
  <2>3. Kept(since + 2) \in Nat /\ Kept(since + 1)' = Kept(since + 1)
        /\ Kept(since - quiet)' = Kept(since - quiet) /\ Kept(since + 2)' = Kept(since + 2)
    BY <2>1 DEF Kept
  <2>4. Kept(since + 1) \in Nat /\ Kept(since - quiet) \in Nat
    BY DEF Kept
  <2>5. lag' <= Kept(since + 2)' /\ wire' <= 1 + Kept(since + 1)'
    BY <2>1, <2>2, <2>3, <2>4
  <2>6. quiet' < AliveFrames => held' <= quiet' + 2 + Kept(since - quiet)'
    BY <2>1, <2>2, <2>3, <2>4
  <2>7. FreshCommand' /\ sent' \subseteq Int
    BY <2>1 DEF FreshCommand
  <2> QED BY <2>1, <2>2, <2>5, <2>6, <2>7 DEF AgeInv, FreshCommand
<1>3. CASE InitCar
  <2>1. PICK n \in 0 .. (InitFrames - took) :
             /\ held' = Older(held, n) /\ wire' = Older(wire, n)
             /\ lag' = n /\ took' = took + n
    BY <1>3 DEF InitCar
  <2>2. /\ pc = "control" /\ pc' = "apply" /\ since' = 0
        /\ UNCHANGED <<quiet, sent>>
    BY <1>3 DEF InitCar
  <2>3. n \in Nat
    BY BoundAssumption
  <2>4. held' \in Int /\ wire' \in Int /\ held' <= held + n /\ wire' <= wire + n
    BY <2>1, <2>3, OlderMost
  <2>5. took' \in Nat /\ Kept(since + 1)' = took + n /\ Kept(since + 2)' = took + n
    BY <2>1, <2>2, <2>3 DEF Kept
  <2>6. Kept(since - quiet)' = took + n
    BY <2>1, <2>2, <2>3 DEF Kept
  <2>7. Kept(since + 1) <= took /\ Kept(since - quiet) <= took
    BY DEF Kept
  <2>8. Kept(since + 1) \in Nat /\ Kept(since - quiet) \in Nat
    BY DEF Kept
  <2>9. wire' <= 1 + Kept(since + 1)'
    BY <2>2, <2>3, <2>4, <2>5, <2>7, <2>8
  <2>10. quiet' < AliveFrames => held' <= quiet' + 2 + Kept(since - quiet)'
    BY <2>2, <2>3, <2>4, <2>6, <2>7, <2>8
  <2>11. FreshCommand' /\ sent' \subseteq Int /\ lag' <= Kept(since + 2)'
    BY <2>1, <2>2, <2>5 DEF FreshCommand
  <2> QED BY <2>1, <2>2, <2>3, <2>4, <2>5, <2>9, <2>10, <2>11 DEF AgeInv, FreshCommand
<1>4. CASE ControlsUpdate
  <2>1. /\ pc \in {"control", "apply"} /\ pc' = "update" /\ sent' = When(Alive, {held})
        /\ UNCHANGED <<held, wire, quiet, lag, since, took>>
    BY <1>4 DEF ControlsUpdate, history
  <2>2. Kept(since + 1)' = Kept(since + 1) /\ Kept(since + 2)' = Kept(since + 2)
        /\ Kept(since - quiet)' = Kept(since - quiet)
    BY <2>1 DEF Kept
  <2>3. Kept(since - quiet) \in Nat /\ Kept(since - quiet) <= took
    BY DEF Kept
  <2>4. \A age \in sent' : age = held /\ quiet < AliveFrames
    BY <2>1 DEF When, Alive
  <2>5. sent' \subseteq Int /\ FreshCommand'
    BY <2>1, <2>3, <2>4 DEF FreshCommand
  <2> QED BY <2>1, <2>2, <2>5 DEF AgeInv, FreshCommand
<1>5. CASE SkipControls
  <2>1. pc = "control" /\ pc' = "update" /\ sent' = {} /\ UNCHANGED <<held, wire, quiet, lag, since, took>>
    BY <1>5 DEF SkipControls, history
  <2> QED BY <2>1 DEF Kept, AgeInv, FreshCommand
<1>6. CASE ControlsAnswers
  <2>1. wire' = lag /\ UNCHANGED <<pc, held, quiet, lag, sent, since, took>>
    BY <1>6 DEF ControlsAnswers, history
  <2> QED BY <2>1 DEF Kept, AgeInv, FreshCommand
<1>7. CASE ControlsTurns
  <2>1. UNCHANGED <<pc, held, wire, quiet, lag, sent, since, took>>
    BY <1>7 DEF ControlsTurns, history
  <2> QED BY <2>1 DEF Kept, AgeInv, FreshCommand
<1>8. CASE UNCHANGED vars
  <2>1. UNCHANGED <<pc, held, wire, quiet, lag, sent, since, took>>
    BY <1>8 DEF vars, control, history
  <2> QED BY <2>1 DEF Kept, AgeInv, FreshCommand
<1> QED BY <1>1, <1>2, <1>3, <1>4, <1>5, <1>6, <1>7, <1>8 DEF Next

\* A command on the bus answers a carState at most AliveFrames + 1 frames old,
\* and what CI.init has taken of late.
THEOREM Fresh == Spec => []FreshCommand
<1>1. AgeInv => FreshCommand
  BY DEF AgeInv
<1> QED BY AgeInit, AgeStep, <1>1, PTL DEF Spec

-----------------------------------------------------------------------------
(* An override softens the alert.                                          *)

\* The driver who has steered during the fault did so in the last frame and is
\* excused, or the alert is already silent.
WarnInv ==
    /\ steered \in BOOLEAN
    /\ warn = [unpressed |-> warn.unpressed, noWarning |-> warn.noWarning, silent |-> warn.silent]
    /\ steered => /\ CS.steerFaultTemporary
                  /\ warn.silent \/ (warn.noWarning /\ warn.unpressed = 0)
    /\ OverrideSoftens

LEMMA WarnStart == Init => WarnInv
BY DEF Init, WarnInv, WarnInit, OverrideSoftens

\* Only a steering fault that is neither excused nor softened raises the alert.
LEMMA AlertFrom ==
    ASSUME NEW cp, NEW w, NEW cs, NEW seen, NEW enabling,
           "steerTempUnavailable" \in CommonEvents(cp, w, cs, seen, enabling)
    PROVE  cs.steerFaultTemporary /\ ~Excused(w, cs, seen) /\ ~Softened(w, cs)
<1>1. \A c \in DOMAIN ConditionEvent : ConditionEvent[c] # "steerTempUnavailable"
  BY DEF ConditionEvent
<1>2. "steerTempUnavailable" \notin PedalAndHoldEvents(cp, cs)
  BY DEF PedalAndHoldEvents, When
<1>3. "steerTempUnavailable" \notin ButtonEvents(cp, cs, enabling)
  BY DEF ButtonEvents, When
<1>4. "steerTempUnavailable" \notin PcmEvents(cp, cs, seen)
  BY DEF PcmEvents, When
<1>5. "steerTempUnavailable" \in SteerFaultEvents(w, cs, seen)
  BY <1>1, <1>2, <1>3, <1>4 DEF CommonEvents
<1> QED BY <1>5 DEF SteerFaultEvents, When

\* One frame of the alert's state, for a driver who steers or has steered.
LEMMA SoftStep ==
    ASSUME NEW w, NEW cs, NEW seen, cs.steerFaultTemporary,
           \/ cs.steeringPressed
           \/ w.silent \/ (w.noWarning /\ w.unpressed = 0)
    PROVE  /\ Excused(w, cs, seen) \/ Softened(w, cs)
           /\ \/ NextWarn(w, cs, seen).silent
              \/ NextWarn(w, cs, seen).noWarning /\ NextWarn(w, cs, seen).unpressed = 0
<1> USE OverrideAssumption
<1>1. CASE cs.steeringPressed
  <2>1. Unpressed(w, cs) = 0 /\ Softened(w, cs)
    BY <1>1 DEF Unpressed, Softened
  <2> QED BY <1>1, <2>1 DEF NextWarn
<1>2. CASE ~cs.steeringPressed
  <2>1. ~Excused(w, cs, seen)
    BY <1>2 DEF Excused
  <2>2. Softened(w, cs)
    BY <1>2 DEF Softened, Unpressed
  <2> QED BY <2>1, <2>2 DEF NextWarn
<1> QED BY <1>1, <1>2

LEMMA WarnStep ==
    ASSUME WarnInv, [Next]_vars
    PROVE  WarnInv'
<1>1. CASE StateUpdate
  <2> PICK cs \in CarStates :
        /\ CS' = cs
        /\ events' = CommonEvents(CP, warn, cs, CS, EnableButtons)
                     \cup When(PedalPressed(cs), {"pedalPressed"})
        /\ warn' = NextWarn(warn, cs, CS)
        /\ steered' = (cs.steerFaultTemporary
                       /\ (cs.steeringPressed \/ (steered /\ CS.steerFaultTemporary)))
    BY <1>1 DEF StateUpdate
  <2>1. steered' \in BOOLEAN
    OBVIOUS
  <2>2. warn' = [unpressed |-> warn'.unpressed, noWarning |-> warn'.noWarning, silent |-> warn'.silent]
    BY DEF NextWarn
  <2>3. ASSUME steered'
        PROVE  /\ CS.steerFaultTemporary'
               /\ warn'.silent \/ (warn'.noWarning /\ warn'.unpressed = 0)
               /\ Excused(warn, cs, CS) \/ Softened(warn, cs)
    BY <2>3, SoftStep DEF WarnInv
  <2>4. ASSUME steered' PROVE "steerTempUnavailable" \notin events'
    <3>1. "steerTempUnavailable" \notin CommonEvents(CP, warn, cs, CS, EnableButtons)
      BY <2>3, <2>4, AlertFrom
    <3> QED BY <3>1 DEF When
  <2> QED BY <2>1, <2>2, <2>3, <2>4 DEF WarnInv, OverrideSoftens
<1>2. CASE UNCHANGED <<CS, warn, events, steered>>
  BY <1>2 DEF WarnInv, OverrideSoftens
<1>3. CASE StatePublish \/ InitCar \/ ControlsUpdate \/ SkipControls \/ ControlsAnswers
           \/ ControlsTurns
  BY <1>2, <1>3 DEF StatePublish, InitCar, ControlsUpdate, SkipControls, ControlsAnswers, ControlsTurns
<1>4. CASE UNCHANGED vars
  BY <1>2, <1>4 DEF vars
<1> QED BY <1>1, <1>3, <1>4 DEF Next

\* Once the driver has steered during a temporary steering fault, the harsh
\* alert is not shown again until the fault is over.
THEOREM OverrideSoftened == Spec => []OverrideSoftens
<1>1. WarnInv => OverrideSoftens
  BY DEF WarnInv
<1> QED BY WarnStart, WarnStep, <1>1, PTL DEF Spec
=============================================================================
