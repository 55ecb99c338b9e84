------------------------------ MODULE TeslaPort ------------------------------
(***************************************************************************)
(* selfdrive/car/tesla: the Model S, steered by angle.  On cars with a     *)
(* second harness each DAS_control message of the autopilot is replaced by *)
(* one of openpilot's, with the counter of the one it stands for.          *)
(***************************************************************************)
EXTENDS Port, Sequences

QUEUE == 3   \* maxlen of das_control_counters, 32 in the code

GetParams(raven, longHarness) ==
    [carName |-> "tesla", raven |-> raven,
     dashcamOnly |-> TRUE,
     pcmCruise |-> TRUE,
     openpilotLongitudinalControl |-> longHarness,
     safetyParam |-> When(raven, {"RAVEN"}) \cup When(longHarness, {"LONG_CONTROL"})]
Params == {GetParams(raven, long) : raven \in BOOLEAN, long \in BOOLEAN}
PandaLong == "LONG_CONTROL" \in CP.safetyParam

-----------------------------------------------------------------------------
(* CarState.                                                               *)

Parsed ==
    ({"chassis"} \X ({"ESP_B", "DI_torque1", "DI_torque2", "STW_ANGLHP_STAT", "EPAS_sysStatus", "DI_state",
                      "STW_ACTN_RQ", "GTW_carState", "BrakeMessage"}
                     \cup {IF CP.raven THEN "DriverSeat" ELSE "SDM1"}))
    \cup ({"cam"} \X ({"DAS_control"} \cup When(CP.raven, {"EPAS3P_sysStatus"})))
Reads ==
    ({"chassis"} \X ({"ESP_B", "DI_torque1", "BrakeMessage", "STW_ANGLHP_STAT", "DI_state", "DI_torque2",
                      "STW_ACTN_RQ", "GTW_carState"}
                     \cup {IF CP.raven THEN "DriverSeat" ELSE "SDM1"} \cup When(~CP.raven, {"EPAS_sysStatus"})))
    \cup ({"cam"} \X ({"DAS_control"} \cup When(CP.raven, {"EPAS3P_sysStatus"})))

\* SpdCtrlLvr_Stat and TurnIndLvr_Stat, as the buttons of BUTTONS they are in
Idle == [down |-> {}, active |-> TRUE, eac |-> "IDLE", hands |-> FALSE]
Signals ==
    {Idle, [Idle EXCEPT !.eac = "HANDS_ON", !.hands = TRUE]}
    \cup One(Idle, "down", {{b} : b \in {"leftBlinker", "accelCruise", "decelCruise", "cancel", "resumeCruise"}})
    \cup One(Idle, "active", {FALSE}) \cup One(Idle, "eac", {"FAULT", "HANDS_ON"}) \cup One(Idle, "hands", {TRUE})

\* button_states; das_control_counters and the counter it last got, modulo 4
CsInit == [down |-> {}, eac |-> "IDLE", hands |-> FALSE, das |-> <<>>, stock |-> 0]

Buttons(s) == {Press(b) : b \in s.down \ cs.down} \cup {Release(b) : b \in cs.down \ s.down}

\* The autopilot's messages come one in a frame at most.
Arrived(comes) ==
    IF ~comes THEN cs.das
    ELSE LET das == Append(cs.das, (cs.stock + 1) % 4)
         IN IF Len(das) > QUEUE THEN Tail(das) ELSE das

Decode ==
    \E s \in Signals, comes \in BOOLEAN :
        LET o == [OutIdle EXCEPT !.cruiseEnabled = s.active, !.steeringPressed = s.hands,
                                 !.steerFaultTemporary = s.eac = "FAULT", !.buttons = Buttons(s)]
        IN Decoded([down |-> s.down, eac |-> s.eac, hands |-> s.hands, das |-> Arrived(comes),
                    stock |-> IF comes THEN (cs.stock + 1) % 4 ELSE cs.stock],
                   [o EXCEPT !.events = Engagement(o, EnableButtons, CP.pcmCruise)])

-----------------------------------------------------------------------------
(* CarController.                                                          *)

CtlInit == [frame |-> 0]

\* Temp disable steering on a hands_on_fault, and allow for user override
HandsOnFault == cs.eac = "HANDS_ON" /\ cs.hands

\* das_control_counters once each of them has been answered
Popped == IF CP.openpilotLongitudinalControl THEN <<>> ELSE cs.das

create_steering_control(angle, enabled, counter) == Steer("DAS_steeringControl", enabled, angle, counter)
\* with every counter value, on both buses
create_action_request == Button("STW_ACTN_RQ", "cancel", NoCtr)
\* the acceleration of the carControl as it is, with the autopilot's own state
\* of cruise control
create_longitudinal_commands(cc, counter) ==
    Message("long", "DAS_control", "none", out.cruiseEnabled, Accel(cc), counter)

Apply(cc) ==
    LET lkas == cc.latActive /\ ~HandsOnFault
    IN AppliedWith(cc, [cs EXCEPT !.das = Popped], [frame |-> (ctl.frame + 1) % (2 * Slow)],
        When(Every(2), {create_steering_control(Amount(lkas), lkas, ctl.frame \div 2)})
        \cup When(CP.openpilotLongitudinalControl, {create_longitudinal_commands(cc, cs.das[i]) : i \in DOMAIN cs.das})
        \cup When(Every(2 * Slow) /\ (cc.cancel \/ HandsOnFault), {create_action_request}))
=============================================================================
