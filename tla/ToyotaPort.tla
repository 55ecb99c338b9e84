----------------------------- MODULE ToyotaPort -----------------------------
(***************************************************************************)
(* selfdrive/car/toyota: cars steered by torque (LKA) or by angle (LTA).   *)
(* The adaptive cruise control is the camera's, the radar's or a separate  *)
(* unit's (the DSU), which may have been unplugged.                        *)
(***************************************************************************)
EXTENDS Port

MAX_STEER_RATE_FRAMES == Slow

\* The cars of values.py, by their flags and what the code asks of a name.
Car(tss2, radarAcc, angle, noDsu, unsupportedDsu, noStopTimer, name) ==
    [TSS2 |-> tss2, RADAR_ACC |-> radarAcc, ANGLE_CONTROL |-> angle, NO_DSU |-> noDsu,
     UNSUPPORTED_DSU |-> unsupportedDsu, NO_STOP_TIMER |-> noStopTimer, name |-> name]
Tss2Car(radarAcc, angle, name) == Car(TRUE, radarAcc, angle, TRUE, FALSE, TRUE, name)
ToyotaModels ==
    {Tss2Car(FALSE, FALSE, "other"), Tss2Car(FALSE, FALSE, "mirai"),
     Tss2Car(TRUE, FALSE, "other"), Tss2Car(TRUE, TRUE, "other"),
     Car(FALSE, FALSE, FALSE, TRUE, FALSE, FALSE, "camry"),   \* and C-HR
     Car(FALSE, FALSE, FALSE, FALSE, FALSE, TRUE, "highlander"),
     Car(FALSE, FALSE, FALSE, FALSE, FALSE, TRUE, "prius_v"),
     Car(FALSE, FALSE, FALSE, FALSE, FALSE, TRUE, "sienna"),
     Car(FALSE, FALSE, FALSE, FALSE, FALSE, FALSE, "prius"),   \* and Avalon 2019
     Car(FALSE, FALSE, FALSE, FALSE, FALSE, FALSE, "other")}
LexusModels ==
    {Tss2Car(FALSE, FALSE, "other"),
     Car(FALSE, FALSE, FALSE, FALSE, FALSE, FALSE, "prius"),   \* CT, NX, RX
     Car(FALSE, FALSE, FALSE, FALSE, TRUE, FALSE, "other"),    \* IS, RC, GS F
     Car(FALSE, FALSE, FALSE, FALSE, FALSE, FALSE, "other")}
Cars == ToyotaModels \cup LexusModels

CameraAcc(car) == car.TSS2 /\ ~car.RADAR_ACC

\* _get_params; the ecus are those that answered the firmware query
GetParams(car, bsm, ecus, experimentalLong) ==
    LET enableDsu == ecus # {} /\ "dsu" \notin ecus /\ ~car.NO_DSU /\ ~car.UNSUPPORTED_DSU
        disableRadar == experimentalLong /\ car.RADAR_ACC
        long == enableDsu \/ CameraAcc(car) \/ disableRadar
        stopAndGo == \/ car.TSS2 \/ car.name \in {"camry", "sienna", "prius"}
                     \/ (car.name \in {"highlander", "prius_v"} /\ enableDsu)
    IN [carName |-> "toyota", car |-> car,
        enableDsu |-> enableDsu,
        enableBsm |-> bsm /\ car.TSS2,
        disableRadar |-> disableRadar,
        openpilotLongitudinalControl |-> long,
        pcmCruise |-> TRUE,
        safetyParam |-> When(car.ANGLE_CONTROL, {"LTA"}) \cup When(~long, {"STOCK_LONGITUDINAL"}),
        engagesAtStandstill |-> stopAndGo]

PandaLong == "STOCK_LONGITUDINAL" \notin CP.safetyParam

Params == {GetParams(car, bsm, ecus, long) :
             car \in Cars, bsm \in BOOLEAN, ecus \in {{}, {"eps"}, {"eps", "dsu"}}, long \in BOOLEAN}

-----------------------------------------------------------------------------
(* CarState.                                                               *)

Parsed ==
    LET car == CP.car
        pt == {"GEAR_PACKET", "LIGHT_STALK", "BLINKERS_STATE", "BODY_CONTROL_STATE",
               "BODY_CONTROL_STATE_2", "ESP_CONTROL", "EPS_STATUS", "BRAKE_MODULE", "WHEEL_SPEEDS",
               "STEER_ANGLE_SENSOR", "PCM_CRUISE", "PCM_CRUISE_SM", "STEER_TORQUE_SENSOR"}
              \cup When(car.name # "mirai", {"ENGINE_RPM"})
              \cup (IF car.UNSUPPORTED_DSU THEN {"DSU_CRUISE", "PCM_CRUISE_ALT"} ELSE {"PCM_CRUISE_2"})
              \cup When(CP.enableBsm, {"BSM"})
              \cup When(car.RADAR_ACC /\ ~CP.disableRadar, {"PCS_HUD", "ACC_CONTROL"})
              \cup When(~CameraAcc(car) /\ ~CP.enableDsu /\ ~CP.disableRadar, {"PRE_COLLISION"})
        cam == When(car.name # "prius_v", {"LKAS_HUD"})
               \cup When(CameraAcc(car), {"PRE_COLLISION", "ACC_CONTROL", "PCS_HUD"})
    IN ({"pt"} \X pt) \cup ({"cam"} \X cam)

\* The low speed lockout is looked at for every accType that a car may show.
Reads ==
    LET car == CP.car
        acc == IF CameraAcc(car) THEN "cam" ELSE "pt"
        pt == {"BODY_CONTROL_STATE", "BRAKE_MODULE", "ESP_CONTROL", "PCM_CRUISE", "WHEEL_SPEEDS",
               "STEER_ANGLE_SENSOR", "STEER_TORQUE_SENSOR", "GEAR_PACKET", "BLINKERS_STATE",
               "EPS_STATUS", "BODY_CONTROL_STATE_2", "LIGHT_STALK"}
              \cup When(car.name # "mirai", {"ENGINE_RPM"})
              \cup (IF car.UNSUPPORTED_DSU THEN {"DSU_CRUISE", "PCM_CRUISE_ALT"}
                    ELSE {"PCM_CRUISE_2", "PCM_CRUISE_SM"})
              \cup When(CP.enableBsm, {"BSM"})
        cam == When(car.name # "prius_v", {"LKAS_HUD"})
    IN ({"pt"} \X pt) \cup ({"cam"} \X cam)
       \cup When(car.TSS2 /\ ~CP.disableRadar, {acc} \X {"ACC_CONTROL", "PCS_HUD"})
       \cup When(~CP.enableDsu /\ ~CP.disableRadar, {acc} \X {"PRE_COLLISION"})

\* What a decode leaves for the controller of the same frame: status is
\* CRUISE_STATE, far whether the follow distance differs from the one wanted.
Idle == [distance |-> 0, active |-> TRUE, status |-> 8, far |-> FALSE, stopped |-> FALSE,
         override |-> FALSE, fastSteer |-> FALSE, fault |-> FALSE,
         accType |-> 1, lockout |-> FALSE, angleSensor |-> FALSE]
Signals ==
    {Idle} \cup One(Idle, "distance", {1}) \cup One(Idle, "active", {FALSE}) \cup One(Idle, "far", {TRUE})
    \cup One(Idle, "stopped", {TRUE}) \cup One([Idle EXCEPT !.stopped = TRUE], "status", {7})
    \cup One(Idle, "override", {TRUE}) \cup One(Idle, "fastSteer", {TRUE}) \cup One(Idle, "fault", {TRUE})
    \cup One([Idle EXCEPT !.lockout = TRUE], "accType", {1, 2}) \cup One(Idle, "angleSensor", {TRUE})

CsInit == [distance |-> 0, accType |-> 1, lockout |-> FALSE, angleSeen |-> FALSE, now |-> Idle]

AccType(s) == IF CP.car.TSS2 /\ ~CP.disableRadar THEN s.accType ELSE cs.accType

\* some TSS2 cars have low speed lockout permanently set, so ignore on those cars
Lockout(s) ==
    IF (~CP.car.TSS2 /\ ~CP.car.UNSUPPORTED_DSU) \/ (CP.car.TSS2 /\ AccType(s) = 1)
    THEN s.lockout ELSE cs.lockout

Buttons(s) ==
    IF CameraAcc(CP.car) THEN ButtonEdges(s.distance, cs.distance, [d \in {0, 1} |-> "gapAdjustCruise"], 0)
    ELSE {}

\* the pcm's standstill is ignored where it restarts with just an acceleration
PcmStandstill(s) == (~CP.car.NO_STOP_TIMER \/ CP.car.TSS2) /\ s.status = 7

Events(o, s) ==
    Engagement(o, EnableButtons, CP.pcmCruise)
    \cup When(CP.car.ANGLE_CONTROL /\ ~(cs.angleSeen \/ s.angleSensor), {"vehicleSensorsInvalid"})
    \cup When(CP.openpilotLongitudinalControl,
            When(PcmStandstill(s), {"resumeRequired"})
            \cup When(Lockout(s), {"lowSpeedLockout"})
            \cup When(s.stopped /\ ~CP.engagesAtStandstill, {"belowEngageSpeed", "manualRestart"}))

Decode ==
    \E s \in Signals :
        LET o == [OutIdle EXCEPT !.cruiseEnabled = s.active, !.standstill = s.stopped,
                                 !.steeringPressed = s.override, !.steerFaultTemporary = s.fault,
                                 !.buttons = Buttons(s)]
        IN Decoded([distance |-> IF CameraAcc(CP.car) THEN s.distance ELSE 0,
                    accType |-> AccType(s), lockout |-> Lockout(s),
                    angleSeen |-> CP.car.ANGLE_CONTROL /\ (cs.angleSeen \/ s.angleSensor), now |-> s],
                   [o EXCEPT !.events = Events(o, s)])

-----------------------------------------------------------------------------
(* CarController.                                                          *)

CtlInit == [frame |-> 0, alert |-> FALSE, standstill |-> FALSE, hold |-> FALSE, rate |-> 0,
            distance |-> FALSE]

\* a driver who steers against it has lateral control off for the frame
LatActive(cc) == cc.latActive /\ ~cs.now.override

create_steer_command(torque, request) == Steer("STEERING_LKA", request, Amount(torque), NoCtr)
create_lta_steer_command(active)      == Steer("STEERING_LTA", active, Amount(active), ctl.frame \div 2)
create_accel_command(cc, hold) ==
    Message("long", "ACC_CONTROL", IF hold THEN "hold" ELSE "none", TRUE, Accel(cc), NoCtr)
create_acc_cancel_command == Button("PCM_CRUISE", "cancel", NoCtr)
create_ui_command         == Ui("LKAS_HUD")
create_fcw_command        == Ui("PCS_HUD")

\* LKA, whose torque and request are off where LTA steers
Lka(cc) ==
    LET torque == LatActive(cc) /\ ~CP.car.ANGLE_CONTROL
    IN create_steer_command(torque,
           torque /\ NotCut(cs.now.fastSteer, LatActive(cc), ctl.rate, MAX_STEER_RATE_FRAMES))

\* The angle, as its distance from the measured one.
Lta(cc) ==
    When(Every(2) /\ CP.car.TSS2, {create_lta_steer_command(LatActive(cc) /\ CP.car.ANGLE_CONTROL)})

\* on entering standstill, send standstill request; not once pcm entered it
Hold ==
    /\ ctl.hold \/ (cs.now.stopped /\ ~ctl.standstill /\ ~CP.car.NO_STOP_TIMER)
    /\ cs.now.status = 8

Accels(cc) == (Every(3) /\ CP.openpilotLongitudinalControl) \/ cc.cancel

\* Press distance button until we are at the correct bar length
Distance(cc) ==
    IF Accels(cc) /\ Every(6) /\ CP.openpilotLongitudinalControl
    THEN cs.now.active /\ cs.now.far /\ ~ctl.distance
    ELSE ctl.distance

AccelCommand(cc) ==
    IF ~Accels(cc) THEN {}
    ELSE IF cc.cancel /\ CP.car.UNSUPPORTED_DSU THEN {create_acc_cancel_command}
    ELSE IF CP.openpilotLongitudinalControl
    THEN {create_accel_command(cc, Hold)}
    ELSE {Button("ACC_CONTROL", "cancel", NoCtr)}

\* asap if there is something to display or to stop displaying, or on a cancel
SendUi(cc) == cc.alert # ctl.alert \/ cc.cancel

Hud(cc) ==
    When(CP.car.name # "prius_v" /\ (Every(2 * Slow) \/ SendUi(cc)), {create_ui_command})
    \cup When(CP.car.name # "prius_v" /\ (Every(3 * Slow) \/ SendUi(cc)) /\ (CP.enableDsu \/ CP.disableRadar),
              {create_fcw_command})

\* STATIC_DSU_MSGS by period, and the tester that keeps the radar disabled
Static ==
    When(CP.enableDsu, UNION {When(Every(n), {Ui("DSU")}) : n \in {2, 3, Slow}})
    \cup When(CP.disableRadar /\ Every(2 * Slow), {Ui("TESTER_PRESENT")})

Apply(cc) ==
    AppliedWith(cc, [cs EXCEPT !.now = Idle],
        [frame |-> (ctl.frame + 1) % (6 * Slow),
         alert |-> CP.car.name # "prius_v" /\ cc.alert,
         standstill |-> cs.now.stopped,
         hold |-> Hold,
         rate |-> NextAbove(cs.now.fastSteer, LatActive(cc), ctl.rate, MAX_STEER_RATE_FRAMES, 1),
         distance |-> Distance(cc)],
        {Lka(cc)} \cup Lta(cc) \cup AccelCommand(cc) \cup Hud(cc) \cup Static)
=============================================================================
