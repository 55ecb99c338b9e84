----------------------------- MODULE HyundaiPort -----------------------------
(***************************************************************************)
(* selfdrive/car/hyundai: cars steered by torque, on CAN or on CAN FD.     *)
(* The adaptive cruise control (SCC) is the radar's or the camera's, or    *)
(* openpilot's once that unit has been silenced.                           *)
(***************************************************************************)
EXTENDS Port

MAX_ANGLE_FRAMES             == Slow
MAX_ANGLE_CONSECUTIVE_FRAMES == 2
PREV_BUTTON_SAMPLES          == Slow

\* The cars of values.py, by the flags that the port looks at.
HyundaiModels ==
    {{}, {"HYBRID"}, {"HYBRID", "LEGACY"}, {"HYBRID", "MIN_STEER_32_MPH"}, {"EV"}, {"EV", "CAMERA_SCC"},
     {"EV", "LEGACY", "MIN_STEER_32_MPH"}, {"LEGACY"}, {"LEGACY", "CLUSTER_GEARS", "MIN_STEER_32_MPH"},
     {"CLUSTER_GEARS"}, {"TCU_GEARS"}, {"LEGACY", "TCU_GEARS"}, {"TCU_GEARS", "UNSUPPORTED_LONGITUDINAL"},
     {"CANFD"}, {"CANFD", "EV"}, {"CANFD", "EV", "CANFD_NO_RADAR_DISABLE"}}
KiaModels ==
    {{}, {"HYBRID"}, {"HYBRID", "LEGACY"}, {"HYBRID", "UNSUPPORTED_LONGITUDINAL"},
     {"HYBRID", "MIN_STEER_32_MPH", "UNSUPPORTED_LONGITUDINAL"}, {"LEGACY"}, {"UNSUPPORTED_LONGITUDINAL"},
     {"LEGACY", "TCU_GEARS", "MIN_STEER_32_MPH"}, {"TCU_GEARS", "UNSUPPORTED_LONGITUDINAL"},
     {"CANFD"}, {"CANFD", "EV"}, {"CANFD", "RADAR_SCC"}}
GenesisModels == {{}, {"LEGACY"}, {"CANFD", "EV"}, {"CANFD", "RADAR_SCC"}}
Cars == HyundaiModels \cup KiaModels \cup GenesisModels

\* Flags detected from the fingerprint: of a CAN FD car, of the others.
CanFdFlags(car, hda2, fp) ==
    When(fp.hybrid, {"HYBRID"})
    \cup When(hda2, {"CANFD_HDA2"})
    \cup When(hda2 /\ fp.altSteering, {"CANFD_HDA2_ALT_STEERING"})
    \cup When(~hda2 /\ ~fp.buttons, {"CANFD_ALT_BUTTONS"})
    \cup When(~hda2 /\ fp.gear # "0x130", {IF fp.gear = "0x40" THEN "CANFD_ALT_GEARS" ELSE "CANFD_ALT_GEARS_2"})
    \cup When(~hda2 /\ "RADAR_SCC" \notin car, {"CANFD_CAMERA_SCC"})
CanFlags(fp) == When(fp.lfa, {"SEND_LFA"}) \cup When(fp.fca, {"USE_FCA"})

\* Mutant of SafetyParam: the long control flag is forgotten on CAN FD.
SafetyParamCan(flags, long) == When(long /\ "CANFD" \notin flags, {"LONG"})

SafetyParam(flags, long) ==
    When(long, {"LONG"})
    \cup (IF "HYBRID" \in flags THEN {"HYBRID_GAS"} ELSE When("EV" \in flags, {"EV_GAS"}))
    \cup When({"CAMERA_SCC", "CANFD_CAMERA_SCC"} \cap flags # {}, {"CAMERA_SCC"})
    \cup (flags \cap {"CANFD_HDA2", "CANFD_HDA2_ALT_STEERING", "CANFD_ALT_BUTTONS"})

\* _get_params
GetParams(car, flags, bsm, experimentalLong) ==
    LET available == IF "CANFD" \in car THEN car \cap {"CANFD_NO_RADAR_DISABLE", "RADAR_SCC"} = {}
                     ELSE car \cap {"LEGACY", "UNSUPPORTED_LONGITUDINAL", "CAMERA_SCC"} = {}
        long == experimentalLong /\ available
    IN [carName |-> "hyundai", flags |-> car \cup flags, enableBsm |-> bsm,
        openpilotLongitudinalControl |-> long, pcmCruise |-> ~long,
        safetyParam |-> SafetyParam(car \cup flags, long)]

CanFdParams ==
    {GetParams(car, CanFdFlags(car, hda2, fp), bsm, long) :
       car \in {c \in Cars : "CANFD" \in c}, hda2 \in BOOLEAN, bsm \in BOOLEAN, long \in BOOLEAN,
       fp \in [hybrid : BOOLEAN, altSteering : BOOLEAN, buttons : BOOLEAN, gear : {"0x130", "0x40", "0x70"}]}
CanParams ==
    {GetParams(car, CanFlags(fp), bsm, long) :
       car \in {c \in Cars : "CANFD" \notin c}, bsm \in BOOLEAN, long \in BOOLEAN,
       fp \in [lfa : BOOLEAN, fca : BOOLEAN]}
Params == CanFdParams \cup CanParams

Has(flag) == flag \in CP.flags
PandaLong == "LONG" \in CP.safetyParam

-----------------------------------------------------------------------------
(* CarState.                                                               *)

gear_msg_canfd ==
    IF Has("CANFD_ALT_GEARS") THEN "GEAR_ALT"
    ELSE IF Has("CANFD_ALT_GEARS_2") THEN "GEAR_ALT_2" ELSE "GEAR_SHIFTER"
accelerator_msg_canfd ==
    IF Has("EV") THEN "ACCELERATOR" ELSE IF Has("HYBRID") THEN "ACCELERATOR_ALT" ELSE "ACCELERATOR_BRAKE_ALT"
cruise_btns_msg_canfd == IF Has("CANFD_ALT_BUTTONS") THEN "CRUISE_BUTTONS_ALT" ELSE "CRUISE_BUTTONS"
lfa_block_msg == IF Has("CANFD_HDA2_ALT_STEERING") THEN "CAM_0x362" ELSE "CAM_0x2a4"

long == CP.openpilotLongitudinalControl
Electric == Has("HYBRID") \/ Has("EV")

ParsedCanFd ==
    LET pt == {gear_msg_canfd, accelerator_msg_canfd, "WHEEL_SPEEDS", "STEERING_SENSORS", "MDPS",
               "TCS", "CRUISE_BUTTONS_ALT", "BLINKERS", "DOORS_SEATBELTS"}
              \cup When(Has("EV"), {"MANUAL_SPEED_LIMIT_ASSIST"})
              \cup When(~Has("CANFD_ALT_BUTTONS"), {"CRUISE_BUTTONS"})
              \cup When(CP.enableBsm, {"BLINDSPOTS_REAR_CORNERS"})
              \cup When(~Has("CANFD_CAMERA_SCC") /\ ~long, {"SCC_CONTROL"})
        cam == IF Has("CANFD_HDA2") THEN {lfa_block_msg} ELSE When(Has("CANFD_CAMERA_SCC"), {"SCC_CONTROL"})
    IN ({"pt"} \X pt) \cup ({"cam"} \X cam)

ReadsCanFd ==
    LET pt == {"CRUISE_BUTTONS_ALT", accelerator_msg_canfd, "TCS", "DOORS_SEATBELTS", gear_msg_canfd,
               "WHEEL_SPEEDS", "STEERING_SENSORS", "MDPS", "BLINKERS", cruise_btns_msg_canfd}
              \cup When(CP.enableBsm, {"BLINDSPOTS_REAR_CORNERS"})
              \cup When(Has("EV"), {"MANUAL_SPEED_LIMIT_ASSIST"})
    IN ({"pt"} \X pt)
       \cup When(~long, {<<IF Has("CANFD_CAMERA_SCC") THEN "cam" ELSE "pt", "SCC_CONTROL">>})
       \cup When(Has("CANFD_HDA2"), {<<"cam", lfa_block_msg>>})

ParsedCan ==
    LET scc == {"SCC11", "SCC12"} \cup When(Has("USE_FCA"), {"FCA11"})
        pt == {"MDPS12", "TCS11", "TCS13", "TCS15", "CLU11", "CLU15", "ESP12", "CGW1", "CGW2",
               "CGW4", "WHL_SPD11", "SAS11"}
              \cup When(~long /\ ~Has("CAMERA_SCC"), scc)
              \cup When(CP.enableBsm, {"LCA11"})
              \cup (IF Electric THEN {"E_EMS11", "ELECT_GEAR"} ELSE {"EMS12", "EMS16"})
              \cup When(~Electric /\ ~Has("CLUSTER_GEARS"), {IF Has("TCU_GEARS") THEN "TCU12" ELSE "LVR12"})
    IN ({"pt"} \X pt) \cup ({"cam"} \X ({"LKAS11"} \cup When(~long /\ Has("CAMERA_SCC"), scc)))

ReadsCan ==
    LET gear == IF Electric THEN "ELECT_GEAR" ELSE IF Has("CLUSTER_GEARS") THEN "CLU15"
                ELSE IF Has("TCU_GEARS") THEN "TCU12" ELSE "LVR12"
        pt == {"CLU11", "CGW1", "CGW2", "WHL_SPD11", "CLU15", "SAS11", "ESP12", "MDPS12", "TCS13",
               "TCS15", "TCS11", gear}
              \cup (IF Electric THEN {"E_EMS11"} ELSE {"EMS12", "EMS16"})
              \cup When(CP.enableBsm, {"LCA11"})
    IN ({"pt"} \X pt) \cup {<<"cam", "LKAS11">>}
       \cup When(~long, {IF Has("CAMERA_SCC") THEN "cam" ELSE "pt"}
                        \X {"SCC11", "SCC12", IF Has("USE_FCA") THEN "FCA11" ELSE "SCC12"})

Parsed == IF Has("CANFD") THEN ParsedCanFd ELSE ParsedCan
Reads  == IF Has("CANFD") THEN ReadsCanFd ELSE ReadsCan

BUTTONS_DICT == [NONE |-> "unknown", RES_ACCEL |-> "accelCruise", SET_DECEL |-> "decelCruise",
                 GAP_DIST |-> "gapAdjustCruise", CANCEL |-> "cancel"]
ENABLE_BUTTONS == {"RES_ACCEL", "SET_DECEL", "CANCEL"}

\* sample: the button message came in this frame (it comes every other)
Idle == [sample |-> TRUE, button |-> "NONE", main |-> FALSE, active |-> FALSE, speed |-> "high", turned |-> FALSE]
Signals ==
    {Idle} \cup One(Idle, "sample", {FALSE}) \cup One(Idle, "button", DOMAIN BUTTONS_DICT)
    \cup One(Idle, "main", {TRUE}) \cup One(Idle, "active", {TRUE})
    \cup One([Idle EXCEPT !.active = TRUE], "button", {"RES_ACCEL"})
    \cup One(Idle, "speed", {"low", "margin"}) \cup One(Idle, "turned", {TRUE})

\* The last button, samples since one that shows an intention to engage, the
\* alert for cars that steer only above a speed.
CsInit == [button |-> "NONE", intent |-> PREV_BUTTON_SAMPLES, lowSpeed |-> FALSE, turned |-> FALSE]

Button1(s) == IF s.sample THEN s.button ELSE cs.button
Intent(s) ==
    IF ~s.sample THEN cs.intent
    ELSE IF s.button \in ENABLE_BUTTONS \/ s.main THEN 0 ELSE UpTo(cs.intent, PREV_BUTTON_SAMPLES)

\* low speed steer alert hysteresis, 2 m/s wide
LowSpeed(s) ==
    (cs.lowSpeed \/ (s.speed = "low" /\ Has("MIN_STEER_32_MPH"))) /\ s.speed # "high"

\* To avoid re-engaging when openpilot cancels, check user engagement intention
Decode ==
    \E s \in Signals :
        LET o == [OutIdle EXCEPT !.cruiseEnabled = s.active,
                    !.buttons = IF long THEN ButtonEdges(Button1(s), cs.button, BUTTONS_DICT, "NONE") ELSE {}]
        IN Decoded([button |-> Button1(s), intent |-> Intent(s), lowSpeed |-> LowSpeed(s), turned |-> s.turned],
                   [o EXCEPT !.events =
                      EngagementIf(o, EnableButtons, CP.pcmCruise, Intent(s) < PREV_BUTTON_SAMPLES)
                      \cup When(LowSpeed(s), {"belowSteerSpeed"})])

-----------------------------------------------------------------------------
(* CarController.                                                          *)

\* accel: accel_last, of CAN FD
CtlInit == [frame |-> 0, above |-> 0, sinceButton |-> 0, accel |-> 0]

\* a rolling counter of 4 bits as one of 4 values, one modulo 15 as one of 2
Alive(n) == n % 4
Alive15(n) == n % 2
idx == ctl.frame \div 2

\* The torque is held by an induced temporary fault while the request is cut.
SteerReq(cc) == NotCut(cs.turned, cc.latActive, ctl.above, MAX_ANGLE_FRAMES)
Lkas(cc, name, ctr) == Steer(name, SteerReq(cc), Amount(cc.latActive), ctr)
create_lkas11(cc) == Lkas(cc, "LKAS11", Alive(ctl.frame))

\* create_steering_messages of CAN FD
SteeringMessages(cc) ==
    IF ~Has("CANFD_HDA2") THEN {Lkas(cc, "LFA", NoCtr)}
    ELSE When(long, {Lkas(cc, "LFA", NoCtr)})
         \cup {Lkas(cc, IF Has("CANFD_HDA2_ALT_STEERING") THEN "LKAS_ALT" ELSE "LKAS", NoCtr)}

create_suppress_lfa == Ui(lfa_block_msg)
create_lfahda_cluster == Ui("LFAHDA_CLUSTER")

\* what keeps the car happy after disabling the ADAS Driving ECU
AdrvMessages ==
    {Ui("ADRV_0x51")} \cup When(Every(2), {Ui("ADRV_0x160")})
    \cup When(Every(Slow), {Ui("ADRV_0x1ea"), Ui("ADRV_0x200"), Ui("ADRV_0x345"), Ui("ADRV_0x1da")})

\* Mutant of AccControl: the gas override is forgotten.
AccControlAlways(cc) ==
    Long("SCC_CONTROL", cc.enabled, Amount(cc.enabled /\ {cc.accel, ctl.accel} # {0}))

\* The raw acceleration, and the one held within a jerk of accel_last: neither
\* is 0 until both are.
AccControl(cc) ==
    Long("SCC_CONTROL", cc.enabled, Amount(cc.enabled /\ ~cc.override /\ {cc.accel, ctl.accel} # {0}))

CanFdMessages(cc) ==
    SteeringMessages(cc)
    \cup When(Every(Slow) /\ Has("CANFD_HDA2"), {create_suppress_lfa})
    \cup When(Every(Slow) /\ (~Has("CANFD_HDA2") \/ long), {create_lfahda_cluster})
    \cup When(Has("CANFD_HDA2") /\ long, AdrvMessages)
    \cup When(long /\ Every(2), {AccControl(cc)})

AccCommands(cc) ==
    {Message("long", "SCC11", "none", TRUE, 0, Alive(idx)),
     Message("long", "SCC12", "none", cc.enabled, Accel(cc), Alive15(idx)),
     Message("long", "SCC14", "none", cc.enabled, 0, NoCtr)}
    \cup When(Has("USE_FCA"), {Message("long", "FCA11", "none", TRUE, 0, Alive15(idx))})

create_lfahda_mfc == Ui("LFAHDA_MFC")
AccOptions == {Ui("SCC13"), Ui("FCA12"), Ui("FRT_RADAR11")}   \* create_acc_opt, create_frt_radar_opt

CanMessages(cc) ==
    {create_lkas11(cc)}
    \cup When(long /\ Every(2), AccCommands(cc))
    \cup When(Every(Slow) /\ Has("SEND_LFA"), {create_lfahda_mfc})
    \cup When(long /\ Every(Slow), AccOptions)

\* keeps relevant ECU disabled: either radar or ADAS driving ECU
TesterPresent == When(Every(Slow) /\ ~Has("CANFD_CAMERA_SCC") /\ long, {Ui("TESTER_PRESENT")})

create_clu11(what)   == Button("CLU11", what, Alive(ctl.frame))
create_buttons(what) == Button("CRUISE_BUTTONS", what, NoCtr)
create_acc_cancel    == Button("SCC_CONTROL", "cancel", NoCtr)

\* create_button_messages; the messages of a burst are one.  Where the cancel
\* is a button on CAN it is not held back.
CanButtons(cc) ==
    IF cc.cancel THEN {create_clu11("cancel")}
    ELSE When(cc.resume /\ ctl.sinceButton > Slow, {create_clu11("resume")})
CanFdButtons(cc) ==
    IF ctl.sinceButton <= Slow THEN {}
    ELSE IF cc.cancel
    THEN {IF Has("CANFD_ALT_BUTTONS") THEN create_acc_cancel ELSE create_buttons("cancel")}
    ELSE When(cc.resume /\ ~Has("CANFD_ALT_BUTTONS"), {create_buttons("resume")})
ButtonMessages(cc) ==
    IF long THEN {} ELSE IF Has("CANFD") THEN CanFdButtons(cc) ELSE CanButtons(cc)

\* last_button_frame: on CAN only a resume moves it, after its burst of frames
Pressed(cc) ==
    IF Has("CANFD") THEN ButtonMessages(cc) # {}
    ELSE ~long /\ cc.resume /\ ~cc.cancel /\ ctl.sinceButton >= Slow + 2

Apply(cc) ==
    Applied(cc,
        [frame |-> (ctl.frame + 1) % (2 * Slow),
         above |-> NextAbove(cs.turned, cc.latActive, ctl.above, MAX_ANGLE_FRAMES, MAX_ANGLE_CONSECUTIVE_FRAMES),
         sinceButton |-> IF Pressed(cc) THEN 1 ELSE UpTo(ctl.sinceButton, Slow + 2),
         accel |-> IF Has("CANFD") /\ long /\ Every(2) THEN cc.accel ELSE ctl.accel],
        TesterPresent \cup (IF Has("CANFD") THEN CanFdMessages(cc) ELSE CanMessages(cc)) \cup ButtonMessages(cc))
=============================================================================
