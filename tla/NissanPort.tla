----------------------------- MODULE NissanPort -----------------------------
(***************************************************************************)
(* selfdrive/car/nissan: cars with ProPILOT, steered by angle.  The Leaf's *)
(* cruise control is cancelled by showing it an unlatched seatbelt.        *)
(***************************************************************************)
EXTENDS Port

Cars == {"xtrail", "leaf", "leaf_ic", "rogue", "altima"}

\* The Altima's power steering is on another bus than the others'.
GetParams(car) ==
    [carName |-> "nissan", car |-> car,
     pcmCruise |-> TRUE,
     openpilotLongitudinalControl |-> FALSE,
     safetyParam |-> When(car = "altima", {"ALT_EPS_BUS"})]
Params == {GetParams(car) : car \in Cars}

Altima == CP.car = "altima"
Leaf == CP.car \in {"leaf", "leaf_ic"}
PandaLong == FALSE

-----------------------------------------------------------------------------
(* CarState.                                                               *)

Parsed ==
    LET pt == {"STEER_ANGLE_SENSOR", "WHEEL_SPEEDS_REAR", "WHEEL_SPEEDS_FRONT", "ESP", "GEARBOX", "DOORS_LIGHTS",
               "LIGHTS", "CRUISE_THROTTLE"}
              \cup (IF Leaf THEN {"BRAKE_PEDAL", "CANCEL_MSG", "HUD_SETTINGS", "SEATBELT"} ELSE {"GAS_PEDAL", "HUD"})
              \cup (IF Altima THEN {"CRUISE_STATE", "LKAS_SETTINGS", "PROPILOT_HUD"} ELSE {"STEER_TORQUE_SENSOR"})
        adas == IF Altima THEN {"LKAS", "PRO_PILOT"}
                ELSE {"PROPILOT_HUD_INFO_MSG", "LKAS_SETTINGS", "CRUISE_STATE", "PROPILOT_HUD", "LKAS"}
        cam == IF Altima THEN {"STEER_TORQUE_SENSOR"} ELSE When(~Leaf, {"PRO_PILOT"})
    IN ({"pt"} \X pt) \cup ({"adas"} \X adas) \cup ({"cam"} \X cam)

Reads ==
    LET pt == {"CRUISE_THROTTLE", "WHEEL_SPEEDS_FRONT", "WHEEL_SPEEDS_REAR", "STEER_ANGLE_SENSOR", "LIGHTS",
               "DOORS_LIGHTS", "ESP", "GEARBOX"}
              \cup (IF Leaf THEN {"CANCEL_MSG", "HUD_SETTINGS"} ELSE {"GAS_PEDAL", "HUD"})
              \cup When(CP.car = "leaf", {"SEATBELT"})
        adas == IF Altima THEN {"PRO_PILOT"} ELSE {"PROPILOT_HUD_INFO_MSG"}
        cam == When(~Leaf /\ ~Altima, {"PRO_PILOT"})
    IN ({"pt"} \X pt) \cup ({"adas"} \X adas) \cup ({"cam"} \X cam)
       \cup ({IF Altima THEN "pt" ELSE "adas"} \X {"CRUISE_STATE", "PROPILOT_HUD", "LKAS_SETTINGS"})
       \cup {<<IF Altima THEN "cam" ELSE "pt", "STEER_TORQUE_SENSOR">>}

Idle == [distance |-> 0, active |-> TRUE, lkas |-> FALSE, override |-> FALSE]
Signals ==
    {Idle} \cup One(Idle, "distance", {1}) \cup One(Idle, "active", {FALSE}) \cup One(Idle, "lkas", {TRUE})
    \cup One(Idle, "override", {TRUE})

CsInit == [distance |-> 0]

Decode ==
    \E s \in Signals :
        LET o == [OutIdle EXCEPT !.cruiseEnabled = s.active, !.steeringPressed = s.override,
                                 !.buttons = ButtonEdges(s.distance, cs.distance,
                                                         [d \in {0, 1} |-> "gapAdjustCruise"], 0)]
        IN Decoded([distance |-> s.distance],
                   [o EXCEPT !.events = Engagement(o, EnableButtons, CP.pcmCruise)
                                        \cup When(s.lkas, {"invalidLkasSetting"})])

-----------------------------------------------------------------------------
(* CarController.                                                          *)

CtlInit == [frame |-> 0]

\* The angle is the measured one while inactive.
create_steering_control(angle, frame, active) == Steer("LKAS", active, angle, frame)
create_acc_cancel_cmd == Button("CRUISE_THROTTLE", "cancel", NoCtr)
create_cancel_msg(cancel) == IF cancel THEN Button("CANCEL_MSG", "cancel", NoCtr) ELSE Ui("CANCEL_MSG")
create_lkas_hud_msg(cc) == Message("ui", "PROPILOT_HUD", "none", cc.enabled, 0, NoCtr)
create_lkas_hud_info_msg(cc) ==
    Message("ui", "PROPILOT_HUD_INFO_MSG", IF cc.alert THEN "HANDS_ON_WHEEL_WARNING" ELSE "none", FALSE, 0, NoCtr)

\* The Leaf's message goes out in any case, with the seatbelt as it is or,
\* to cancel, unlatched.
Cancels(cc) ==
    IF Leaf THEN When(Every(2), {create_cancel_msg(cc.cancel)})
    ELSE When(cc.cancel, {create_acc_cancel_cmd})

Apply(cc) ==
    Applied(cc, [frame |-> (ctl.frame + 1) % (4 * Slow)],
        Cancels(cc)
        \cup {create_steering_control(Amount(cc.latActive), ctl.frame, cc.latActive)}
        \cup When(~Altima /\ Every(2), {create_lkas_hud_msg(cc)})
        \cup When(~Altima /\ Every(4 * Slow), {create_lkas_hud_info_msg(cc)}))
=============================================================================
