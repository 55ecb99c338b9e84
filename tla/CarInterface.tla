---------------------------- MODULE CarInterface ----------------------------
(***************************************************************************)
(* What every port shares, from selfdrive/car/interfaces.py and            *)
(* selfdrive/car/__init__.py: the events derived from a carState and from  *)
(* buttons.  Pure operators; Card and the ports (CarLoop) run them.        *)
(***************************************************************************)
EXTENDS Integers, FiniteSets

CONSTANT OverrideFrames   \* int(1.5 / DT_CTRL), 150: a steering override is recent

ASSUME OverrideAssumption == OverrideFrames \in Nat /\ OverrideFrames > 1

\* The elements of S if c holds.
When(c, S) == {x \in S : c}

-----------------------------------------------------------------------------
(* create_common_events.                                                   *)

\* Conditions of the carState that raise an event of their own each frame.
ConditionEvent ==
    [doorOpen |-> "doorOpen", seatbeltUnlatched |-> "seatbeltNotLatched",
     otherGear |-> "wrongGear", reverse |-> "reverseGear",
     unavailable |-> "wrongCarMode", espDisabled |-> "espDisabled",
     espActive |-> "espActive", stockFcw |-> "stockFcw", stockAeb |-> "stockAeb",
     overSpeed |-> "speedTooHigh", nonAdaptive |-> "wrongCruiseMode",
     parkingBrake |-> "parkBrake", accFaulted |-> "accFaulted",
     steerFaultPermanent |-> "steerUnavailable"]

Press(b)   == [type |-> b, pressed |-> TRUE]
Release(b) == [type |-> b, pressed |-> FALSE]

\* enable_buttons, unless a port overrides them
EnableButtons == {"accelCruise", "decelCruise"}

ButtonEvents(cp, cs, enabling) ==
    When(~cp.pcmCruise /\ \E b \in enabling : Release(b) \in cs.buttons, {"buttonEnable"})
    \cup When(\E b \in cs.buttons : b.type = "cancel", {"buttonCancel"})

PedalAndHoldEvents(cp, cs) ==
    When(cs.steeringPressed, {"steerOverride"})
    \cup When(cs.brakePressed /\ cs.standstill, {"preEnableStandstill"})
    \cup When(cs.gasPressed, {"gasPressedOverride"})
    \cup When("brakeHold" \in cs.conds /\ cp.openpilotLongitudinalControl, {"brakeHold"})

\* The state behind the alerts for temporary steering faults:
\* steering_unpressed (counted up to OverrideFrames, beyond which it makes no
\* difference), no_steer_warning and silent_steer_warning.
WarnInit == [unpressed |-> 0, noWarning |-> FALSE, silent |-> TRUE]

Unpressed(w, cs) ==
    IF cs.steeringPressed THEN 0
    ELSE IF w.unpressed < OverrideFrames THEN w.unpressed + 1 ELSE w.unpressed

\* The driver was already steering when the fault began.
Excused(w, cs, out) ==
    cs.steerFaultTemporary /\ cs.steeringPressed /\ (~out.steerFaultTemporary \/ w.noWarning)

\* Mutant of Softened: the alert does not stay silent.
SoftenedNow(w, cs) == cs.standstill \/ Unpressed(w, cs) < OverrideFrames

\* if the user overrode recently, show a less harsh alert
Softened(w, cs) == w.silent \/ cs.standstill \/ Unpressed(w, cs) < OverrideFrames

NextWarn(w, cs, out) ==
    [unpressed |-> Unpressed(w, cs),
     noWarning |-> Excused(w, cs, out),
     silent    |-> cs.steerFaultTemporary
                   /\ IF Excused(w, cs, out) THEN w.silent ELSE Softened(w, cs)]

SteerFaultEvents(w, cs, out) ==
    When(cs.steerFaultTemporary /\ ~Excused(w, cs, out),
         {IF Softened(w, cs) THEN "steerTempUnavailableSilent" ELSE "steerTempUnavailable"})

\* we engage when pcm is active (rising edge)
PcmEvents(cp, cs, out) ==
    When(cp.pcmEnable /\ cs.cruiseEnabled /\ ~out.cruiseEnabled /\ cs.allowEnable, {"pcmEnable"})
    \cup When(cp.pcmEnable /\ ~cs.cruiseEnabled, {"pcmDisable"})

CommonEvents(cp, w, cs, out, enabling) ==
    {ConditionEvent[c] : c \in cs.conds \cap DOMAIN ConditionEvent}
    \cup PedalAndHoldEvents(cp, cs)
    \cup ButtonEvents(cp, cs, enabling)
    \cup SteerFaultEvents(w, cs, out)
    \cup PcmEvents(cp, cs, out)

-----------------------------------------------------------------------------
(* create_button_events of selfdrive/car/__init__.py.                      *)

\* Mutant of ButtonEdges: a change from one button to another releases none.
ButtonEdgesNew(cur, prev, name, idle) ==
    IF cur = prev THEN {}
    ELSE IF cur = idle THEN {Release(name[prev])} ELSE {Press(name[cur])}

\* A release of the previous button, a press of the new
ButtonEdges(cur, prev, name, idle) ==
    IF cur = prev THEN {}
    ELSE When(prev # idle, {Release(name[prev])}) \cup When(cur # idle, {Press(name[cur])})
=============================================================================
