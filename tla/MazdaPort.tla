------------------------------ MODULE MazdaPort ------------------------------
(***************************************************************************)
(* selfdrive/car/mazda: cars steered by the camera's LKAS message, which   *)
(* the car only listens to above a speed.                                  *)
(***************************************************************************)
EXTENDS Port

\* The cars of values.py, all of GEN1: those not supported, the one whose newer
\* power steering steers down to a standstill, and the other supported one.
Cars == {"cx5", "cx5_2022", "cx9_2021"}

GetParams(car) ==
    [carName |-> "mazda",
     lowSteer |-> car # "cx5_2022",
     dashcamOnly |-> car \notin {"cx5_2022", "cx9_2021"},
     pcmCruise |-> TRUE,
     openpilotLongitudinalControl |-> FALSE,
     safetyParam |-> {}]
Params == {GetParams(car) : car \in Cars}
PandaLong == FALSE

-----------------------------------------------------------------------------
(* CarState.                                                               *)

Parsed ==
    ({"pt"} \X {"BLINK_INFO", "STEER", "STEER_RATE", "STEER_TORQUE", "WHEEL_SPEEDS", "ENGINE_DATA", "CRZ_CTRL",
                "CRZ_EVENTS", "CRZ_BTNS", "PEDALS", "BRAKE", "SEATBELT", "DOORS", "GEAR", "BSM"})
    \cup ({"cam"} \X {"CAM_LANEINFO", "CAM_LKAS"})
Reads ==
    ({"pt"} \X {"CRZ_BTNS", "WHEEL_SPEEDS", "ENGINE_DATA", "GEAR", "BLINK_INFO", "BSM", "STEER", "STEER_TORQUE",
                "STEER_RATE", "PEDALS", "BRAKE", "SEATBELT", "DOORS", "CRZ_CTRL", "CRZ_EVENTS"})
    \cup ({"cam"} \X {"CAM_LANEINFO", "CAM_LKAS"})

\* blocked is LKAS_BLOCK; lines whether the camera's lane lines are on
Idle == [distance |-> 0, active |-> TRUE, speed |-> "high", blocked |-> FALSE, brake |-> FALSE,
         lines |-> TRUE, error |-> FALSE]
Signals ==
    {Idle} \cup One(Idle, "distance", {1}) \cup One(Idle, "active", {FALSE}) \cup One(Idle, "speed", {"low", "margin"})
    \cup One(Idle, "blocked", {TRUE}) \cup One(Idle, "brake", {TRUE}) \cup One(Idle, "lines", {FALSE})
    \cup One(Idle, "error", {TRUE})

\* lkas_allowed_speed, low_speed_alert, acc_active_last
CsInit == [distance |-> 0, allowed |-> FALSE, lowSpeed |-> FALSE, active |-> FALSE, brake |-> FALSE]

\* wait for LKAS_BLOCK signal to clear when going up
Allowed(s) ==
    \/ ~CP.lowSteer
    \/ s.speed = "high" /\ ~s.blocked
    \/ cs.allowed /\ s.speed # "low"

\* kept while cruise control is off
LowSpeed(s) == IF s.active THEN ~Allowed(s) /\ cs.active ELSE cs.lowSpeed

Events(o, s) ==
    Engagement(o, EnableButtons, CP.pcmCruise)
    \cup When(s.error, {"steerUnavailable"})
    \cup When(~s.lines, {"lkasDisabled"})
    \cup When(s.lines /\ LowSpeed(s), {"belowSteerSpeed"})

Decode ==
    \E s \in Signals :
        LET o == [OutIdle EXCEPT !.cruiseEnabled = s.active, !.brakePressed = s.brake,
                                 !.steerFaultTemporary = Allowed(s) /\ s.blocked,
                                 !.buttons = ButtonEdges(s.distance, cs.distance,
                                                         [d \in {0, 1} |-> "gapAdjustCruise"], 0)]
        IN Decoded([distance |-> s.distance, allowed |-> Allowed(s), lowSpeed |-> LowSpeed(s),
                    active |-> s.active, brake |-> s.brake],
                   [o EXCEPT !.events = Events(o, s)])

-----------------------------------------------------------------------------
(* CarController.                                                          *)

CtlInit == [frame |-> 0, brakeCounter |-> 0]

BrakeCounter(cc) == IF cc.cancel THEN UpTo(ctl.brakeCounter, Slow) ELSE 0

\* 12 bits around 2048, the counter and a checksum of them
create_steering_control(torque, frame) == Steer("CAM_LKAS", torque # 0, torque, frame)
create_alert_command(cc) ==
    Message("ui", "CAM_LANEINFO", IF cc.alert /\ cs.allowed THEN "HANDS_ON_STEER_WARN" ELSE "none", FALSE, 0, NoCtr)
create_button_cmd(what) == Button("CRZ_BTNS", what, NoCtr)

\* With the brake pressed, wait for the stock system to cancel by itself; a
\* second cancel would turn its main switch off.
Pressed(cc) ==
    When(cc.cancel /\ Every(2 * Slow) /\ ~(cs.brake /\ BrakeCounter(cc) < Slow),
         {create_button_cmd("cancel")})
    \cup When(~cc.cancel /\ cc.resume /\ Every(Slow), {create_button_cmd("resume")})

Apply(cc) ==
    Applied(cc,
        [frame |-> (ctl.frame + 1) % (4 * Slow), brakeCounter |-> BrakeCounter(cc)],
        Pressed(cc)
        \cup When(Every(4 * Slow), {create_alert_command(cc)})
        \cup {create_steering_control(Amount(cc.latActive), ctl.frame)})
=============================================================================
