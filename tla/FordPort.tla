------------------------------- MODULE FordPort -------------------------------
(***************************************************************************)
(* selfdrive/car/ford: cars steered by a curvature sent to the power       *)
(* steering (PSCM) in the place of the camera's (IPMA's) lane centring,    *)
(* which is toggled off by pressing its button for the driver.             *)
(***************************************************************************)
EXTENDS Port

STEER_STEP       == Slow
LKA_STEP         == 3
ACC_CONTROL_STEP == 2
LKAS_UI_STEP     == 3 * Slow
ACC_UI_STEP      == Slow
BUTTONS_STEP     == Slow

\* The platforms of values.py, as flags: those on CAN and those on CAN FD.
Cars == {{}, {"CANFD"}}

\* _get_params; eps says whether the as-built data of the power steering has
\* the lane centring this port takes the place of
GetParams(car, fw, bsm, experimentalLong) ==
    LET canfd == "CANFD" \in car
    IN [carName |-> "ford", flags |-> car,
        dashcamOnly |-> canfd \/ fw.eps = "disabled",
        transmissionType |-> IF fw.shiftByWire THEN "automatic" ELSE "manual",
        enableBsm |-> bsm,
        pcmCruise |-> TRUE,
        openpilotLongitudinalControl |-> experimentalLong,
        safetyParam |-> When(experimentalLong, {"LONG_CONTROL"}) \cup When(canfd, {"CANFD"})]

Params == {GetParams(car, fw, bsm, long) :
             car \in Cars, bsm \in BOOLEAN, long \in BOOLEAN,
             fw \in [eps : {"unknown", "enabled", "disabled"}, shiftByWire : BOOLEAN]}

CanFd == "CANFD" \in CP.flags
PandaLong == "LONG_CONTROL" \in CP.safetyParam

-----------------------------------------------------------------------------
(* CarState.                                                               *)

SideDetect == When(CP.enableBsm, {"Side_Detect_L_Stat", "Side_Detect_R_Stat"})
Gearbox == IF CP.transmissionType = "automatic" THEN {"PowertrainData_10"}
           ELSE {"Engine_Clutch_Data", "BCM_Lamp_Stat_FD1"}

Parsed ==
    LET pt == {"VehicleOperatingModes", "BrakeSysFeatures", "Yaw_Data_FD1", "DesiredTorqBrk",
               "EngVehicleSpThrottle", "BrakeSnData_4", "EngBrakeData", "Cluster_Info1_FD1",
               "SteeringPinion_Data", "EPAS_INFO", "Steering_Data_FD1", "BodyInfo_3_FD1",
               "RCMStatusMessage2_FD1"}
              \cup (IF CanFd THEN {"Lane_Assist_Data3_FD1"} ELSE {"INSTRUMENT_PANEL"} \cup SideDetect)
        cam == {"ACCDATA", "ACCDATA_2", "ACCDATA_3", "IPMA_Data"} \cup When(CanFd, SideDetect)
    IN ({"pt"} \X (pt \cup Gearbox)) \cup ({"cam"} \X cam)

Reads ==
    LET pt == {"SteeringPinion_Data", "BrakeSysFeatures", "Yaw_Data_FD1", "DesiredTorqBrk",
               "EngVehicleSpThrottle", "BrakeSnData_4", "EngBrakeData", "EPAS_INFO",
               "Cluster_Info1_FD1", "Steering_Data_FD1", "BodyInfo_3_FD1", "RCMStatusMessage2_FD1"}
              \cup {IF CanFd THEN "Lane_Assist_Data3_FD1" ELSE "INSTRUMENT_PANEL"}
        cam == When(~CP.openpilotLongitudinalControl, {"ACCDATA"}) \cup {"ACCDATA_3", "ACCDATA_2", "IPMA_Data"}
    IN ({"pt"} \X (pt \cup Gearbox)) \cup ({"cam"} \X cam)
       \cup ({IF CanFd THEN "cam" ELSE "pt"} \X SideDetect)

\* cruise is CcStat_D_Actl, tja what the camera shows of its lane centring
Idle == [distance |-> 0, cruise |-> "on", tja |-> FALSE, epas |-> "ok", latCtl |-> TRUE, pinion |-> TRUE]
Signals ==
    {Idle} \cup One(Idle, "distance", {1}) \cup One(Idle, "cruise", {"off", "standby", "denied"})
    \cup One(Idle, "tja", {TRUE}) \cup One(Idle, "epas", {"limited", "failed"})
    \cup One(Idle, "latCtl", {FALSE}) \cup One(Idle, "pinion", {FALSE})

\* distance_button, and what the controller looks up of this frame
CsInit == [distance |-> 0, main |-> FALSE, tja |-> FALSE]

Events(o, s) ==
    Engagement(o, EnableButtons, CP.pcmCruise)
    \cup When(s.epas = "failed", {"steerUnavailable"})
    \cup When(s.cruise = "denied", {"accFaulted"})
    \cup When(~s.pinion, {"vehicleSensorsInvalid"})

Decode ==
    \E s \in Signals :
        LET o == [OutIdle EXCEPT !.cruiseEnabled = s.cruise = "on",
                                 !.steerFaultTemporary = s.epas = "limited" \/ (CanFd /\ ~s.latCtl),
                                 !.buttons = ButtonEdges(s.distance, cs.distance,
                                                         [d \in {0, 1} |-> "gapAdjustCruise"], 0)]
        IN Decoded([distance |-> s.distance, main |-> s.cruise \in {"on", "standby"}, tja |-> s.tja],
                   [o EXCEPT !.events = Events(o, s)])

-----------------------------------------------------------------------------
(* CarController.                                                          *)

\* main_on_last, lkas_enabled_last, steer_alert_last, lead_distance_bars_last
CtlInit == [frame |-> 0, main |-> FALSE, lkas |-> FALSE, alert |-> FALSE, bars |-> -1]

create_button_msg(bus, what) ==
    Button(IF bus = "main" THEN "Steering_Data_FD1" ELSE "Steering_Data_FD1_camera", what, NoCtr)

\* Nothing in it: its interventions would lock the power steering out.
create_lka_msg == Ui("Lane_Assist_Data1")

\* The curvature is limited from that of the car: none is asked while inactive.
create_lat_ctl_msg(cc)           == Steer("LateralMotionControl", cc.latActive, Amount(cc.latActive), NoCtr)
create_lat_ctl2_msg(cc, counter) == Steer("LateralMotionControl2", cc.latActive, Amount(cc.latActive), counter)
\* The gas is off while inactive, the acceleration beside it is not.
create_acc_msg(cc)               == Long("ACCDATA", cc.longActive, Accel(cc))

\* What the dash shows of lane centring (tja) and of lane keeping.
create_acc_ui_msg(cc) ==
    Message("ui", "ACCDATA_3", IF cc.latActive THEN "active" ELSE IF cs.main THEN "standby" ELSE "off", FALSE, 0, NoCtr)
create_lkas_ui_msg(cc) ==
    Message("ui", "IPMA_Data", IF cc.latActive THEN "lines" ELSE IF cs.main THEN "none" ELSE "LA_Off", cc.alert, 0, NoCtr)

\* A press goes to the camera, and to the car unless it is the camera's own.
Presses(cc) ==
    LET press(what) == {create_button_msg(bus, what) : bus \in {"camera", "main"}}
    IN IF cc.cancel THEN press("cancel")
       ELSE IF cc.resume /\ Every(BUTTONS_STEP) THEN press("resume")
       ELSE When(cs.tja /\ Every(ACC_UI_STEP), {create_button_msg("camera", "tja_toggle")})

Lateral(cc) == {IF CanFd THEN create_lat_ctl2_msg(cc, ctl.frame \div STEER_STEP) ELSE create_lat_ctl_msg(cc)}

SendUi(cc) == ctl.main # cs.main \/ ctl.lkas # cc.latActive \/ ctl.alert # cc.alert

Apply(cc) ==
    \E bars \in {0, 1} :
        Applied(cc,
            [frame |-> (ctl.frame + 1) % (3 * Slow), main |-> cs.main, lkas |-> cc.latActive,
             alert |-> cc.alert, bars |-> bars],
            Presses(cc)
            \cup When(Every(STEER_STEP), Lateral(cc))
            \cup When(Every(LKA_STEP), {create_lka_msg})
            \cup When(CP.openpilotLongitudinalControl /\ Every(ACC_CONTROL_STEP), {create_acc_msg(cc)})
            \cup When(Every(LKAS_UI_STEP) \/ SendUi(cc), {create_lkas_ui_msg(cc)})
            \cup When(Every(ACC_UI_STEP) \/ SendUi(cc) \/ bars # ctl.bars, {create_acc_ui_msg(cc)}))
=============================================================================
