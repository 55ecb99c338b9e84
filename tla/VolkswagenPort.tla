--------------------------- MODULE VolkswagenPort ---------------------------
(***************************************************************************)
(* selfdrive/car/volkswagen: cars steered by Heading Control Assist (HCA), *)
(* on the MQB or the older PQ platform, with openpilot at the camera or at *)
(* the gateway of the car's network.                                       *)
(***************************************************************************)
EXTENDS Port

STEER_STEP              == 2
ACC_CONTROL_STEP        == 2
STEER_TIME_STUCK_TORQUE == Slow
STEER_TIME_ALERT        == 2 * Slow
INIT_FRAMES             == Slow   \* frame > 600: the EPS has had its time

\* The cars of values.py: on the PQ platform, and steered from a higher speed
\* on than the least.
Candidate(pq, lowSteer) == [pq |-> pq, lowSteer |-> lowSteer]
Cars == {Candidate(FALSE, FALSE),   \* Arteon, Golf, A3, Octavia...
         Candidate(FALSE, TRUE),    \* Crafter, Transporter
         Candidate(TRUE, TRUE)}     \* Caddy, Passat NMS, Sharan

\* _get_params; fp says what the fingerprint shows
GetParams(cand, fp, experimentalLong) ==
    LET pq == cand.pq
    IN
    [carName |-> "volkswagen",
     flags |-> When(pq, {"PQ"}) \cup When(~pq /\ fp.hca, {"STOCK_HCA_PRESENT"}),
     enableBsm |-> fp.bsm,
     transmissionType |-> IF fp.gearbox = "direct" /\ pq THEN "manual" ELSE fp.gearbox,
     networkLocation |-> fp.network,
     lowSteer |-> cand.lowSteer,
     dashcamOnly |-> pq,
     openpilotLongitudinalControl |-> experimentalLong,
     pcmCruise |-> ~experimentalLong,
     safetyParam |-> When(experimentalLong, {"LONG_CONTROL"})]

Params == {GetParams(cand, fp, long) : cand \in Cars, long \in BOOLEAN,
             fp \in [bsm : BOOLEAN, hca : BOOLEAN,
                     gearbox : {"automatic", "direct", "manual"}, network : {"fwdCamera", "gateway"}]}

PQ == "PQ" \in CP.flags
StockHca == "STOCK_HCA_PRESENT" \in CP.flags
AtCamera == CP.networkLocation = "fwdCamera"
long == CP.openpilotLongitudinalControl
PandaLong == "LONG_CONTROL" \in CP.safetyParam

-----------------------------------------------------------------------------
(* CarState.                                                               *)

\* MqbExtraSignals and PqExtraSignals: the radars, on the bus they are on.
ExtraSignals ==
    (IF PQ THEN {"ACC_System", "ACC_GRA_Anzeige"} ELSE {"ACC_06", "ACC_10", "ACC_02"})
    \cup When(CP.enableBsm, {IF PQ THEN "SWA_1" ELSE "SWA_01"})
ext == IF AtCamera THEN "pt" ELSE "cam"

ParsedPt ==
    IF PQ
    THEN {"Bremse_1", "Bremse_3", "Lenkhilfe_3", "Lenkwinkel_1", "Motor_3", "Airbag_1", "Bremse_5",
          "GRA_Neu", "Kombi_1", "Motor_2", "Motor_5", "Lenkhilfe_2", "Gate_Komf_1"}
         \cup When(CP.transmissionType = "automatic", {"Getriebe_1"})
         \cup When(CP.transmissionType = "manual", {"Motor_1"})
    ELSE {"LWI_01", "LH_EPS_03", "ESP_19", "ESP_05", "ESP_21", "Motor_20", "TSK_06", "ESP_02", "GRA_ACC_01",
          "Gateway_72", "Motor_14", "Airbag_02", "Kombi_01", "Blinkmodi_02", "Kombi_03"}
         \cup When(CP.transmissionType = "automatic", {"Getriebe_11"})
         \cup When(CP.transmissionType = "direct", {"EV_Gearshift"})
ParsedCam ==
    When(StockHca, {"HCA_01"}) \cup When(AtCamera, {IF PQ THEN "LDW_Status" ELSE "LDW_02"})
Parsed == ({"pt"} \X ParsedPt) \cup ({"cam"} \X ParsedCam) \cup ({ext} \X ExtraSignals)

ReadsMqb ==
    LET pt == {"ESP_19", "LWI_01", "LH_EPS_03", "ESP_02", "Motor_20", "ESP_05", "Motor_14", "Kombi_01",
               "Gateway_72", "Airbag_02", "TSK_06", "ESP_21", "Blinkmodi_02", "GRA_ACC_01", "Kombi_03"}
              \cup When(CP.transmissionType = "automatic", {"Getriebe_11"})
              \cup When(CP.transmissionType = "direct", {"EV_Gearshift"})
        radar == {"ACC_10", "ACC_06"} \cup When(CP.enableBsm, {"SWA_01"}) \cup When(CP.pcmCruise, {"ACC_02"})
        cam == When(StockHca, {"HCA_01"}) \cup When(AtCamera, {"LDW_02"})
    IN ({"pt"} \X pt) \cup ({ext} \X radar) \cup ({"cam"} \X cam)
ReadsPq ==
    LET pt == {"Bremse_3", "Bremse_1", "Lenkhilfe_3", "Lenkwinkel_1", "Bremse_5", "Lenkhilfe_2", "Motor_3",
               "Motor_2", "Kombi_1", "Gate_Komf_1", "Airbag_1", "Motor_5", "GRA_Neu"}
              \cup When(CP.transmissionType = "automatic", {"Getriebe_1"})
              \cup When(CP.transmissionType = "manual", {"Motor_1"})
        radar == {"ACC_System", "ACC_GRA_Anzeige"} \cup When(CP.enableBsm, {"SWA_1"})
    IN ({"pt"} \X pt) \cup ({ext} \X radar) \cup ({"cam"} \X When(AtCamera, {"LDW_Status"}))
Reads == IF PQ THEN ReadsPq ELSE ReadsMqb

BUTTONS == {"setCruise", "resumeCruise", "accelCruise", "decelCruise", "cancel", "gapAdjustCruise"}

Idle == [down |-> {}, active |-> FALSE, hca |-> "READY", speed |-> "high"]
Signals ==
    {Idle} \cup One(Idle, "down", {{b} : b \in BUTTONS} \cup {{"setCruise", "cancel"}})
    \cup One(Idle, "active", {TRUE}) \cup One(Idle, "speed", {"low", "margin"})
    \cup One(Idle, "hca", {"DISABLED", "INITIALIZING", "FAULT", "REJECTED"})

\* button_states as the set of those down; the counter of the stock buttons
\* message, its 16 values as 2
CsInit == [frame |-> 0, down |-> {}, initComplete |-> FALSE, lowSpeed |-> FALSE, stock |-> 0]

\* create_button_events
Buttons(s) == {Press(b) : b \in s.down \ cs.down} \cup {Release(b) : b \in cs.down \ s.down}

\* update_hca_state: until the EPS has come up its faults are temporary
InitComplete(s) == cs.initComplete \/ s.hca \in {"DISABLED", "READY"} \/ cs.frame > INIT_FRAMES
TempFault(s) == s.hca = "REJECTED" \/ ~InitComplete(s)
PermFault(s) == s.hca = "DISABLED" \/ (InitComplete(s) /\ s.hca \in {"INITIALIZING", "FAULT"})

LowSpeed(s) == (cs.lowSpeed \/ (s.speed = "low" /\ CP.lowSteer)) /\ s.speed # "high"

Events(o, s) ==
    Engagement(o, {"setCruise", "resumeCruise"}, ~long)
    \cup When(PermFault(s), {"steerUnavailable"})
    \cup When(LowSpeed(s), {"belowSteerSpeed"})
    \cup When(ctl.timer > STEER_TIME_ALERT, {"steerTimeLimit"})

Decode ==
    \E s \in Signals, stock \in {0, 1} :
        LET o == [OutIdle EXCEPT !.cruiseEnabled = s.active, !.steerFaultTemporary = TempFault(s),
                                 !.buttons = Buttons(s)]
        IN Decoded([frame |-> IF InitComplete(s) THEN 0 ELSE UpTo(cs.frame, INIT_FRAMES + 1),
                    down |-> s.down, initComplete |-> InitComplete(s), lowSpeed |-> LowSpeed(s),
                    stock |-> stock],
                   [o EXCEPT !.events = Events(o, s)])

-----------------------------------------------------------------------------
(* CarController.                                                          *)

\* The steering torque in steps of the least; hca_frame_timer_running and
\* hca_frame_same_torque; gra_acc_counter_last.
CtlInit == [frame |-> 0, torque |-> 0, timer |-> 0, same |-> 0, stock |-> -1]

SameCount(asked) == IF asked = ctl.torque THEN ctl.same + STEER_STEP ELSE 0
Stuck(asked) == SameCount(asked) > STEER_TIME_STUCK_TORQUE

\* Mutant of Moved: a torque to the right is left as it is.
MovedLeft(asked) == IF asked < 0 THEN asked ELSE asked - 1

\* one step towards zero, and away from it where it is zero
Moved(asked) == IF asked < 0 THEN asked + 1 ELSE asked - 1

\* The torque of this frame, of what the driver's limits make of the request.
Torque(cc, asked) == IF ~cc.latActive THEN 0 ELSE IF Stuck(asked) THEN Moved(asked) ELSE asked

Steered(cc, asked) ==
    LET torque == Torque(cc, asked)
    IN [ctl EXCEPT
          !.torque = torque,
          \* uninterrupted steering: one frame of zero torque resets the rack's timer
          !.timer = IF torque = 0 THEN 0 ELSE UpTo(UpTo(@, STEER_TIME_ALERT + 1), STEER_TIME_ALERT + 1),
          !.same = IF ~cc.latActive THEN @ ELSE IF Stuck(asked) THEN 0 ELSE SameCount(asked)]

\* What mqbcan and pqcan pack.  The button message is the stock one with its
\* counter moved on; 3.01 stands for no acceleration while inactive.
mqb_create_steering_control(torque) == Steer("HCA_01", torque # 0, torque, NoCtr)
pq_create_steering_control(torque)  == Steer("HCA_1", torque # 0, torque, NoCtr)
create_eps_update                   == Ui("LH_EPS_03")
mqb_create_lka_hud_control          == Ui("LDW_02")
pq_create_lka_hud_control           == Ui("LDW_Status")
mqb_create_acc_buttons_control(what) == Button("GRA_ACC_01", what, (cs.stock + 1) % 2)
pq_create_acc_buttons_control(what)  == Button("GRA_Neu", what, (cs.stock + 1) % 2)
mqb_create_acc_accel_control(cc) ==
    {Long(name, cc.longActive, Amount(cc.longActive)) : name \in {"ACC_06", "ACC_07"}}
pq_create_acc_accel_control(cc)  == {Long("ACC_System", cc.longActive, Amount(cc.longActive))}
mqb_create_acc_hud_control       == Ui("ACC_02")
pq_create_acc_hud_control        == Ui("ACC_GRA_Anzeige")

SteerMessages(torque) ==
    {IF PQ THEN pq_create_steering_control(torque) ELSE mqb_create_steering_control(torque)}
    \cup When(StockHca, {create_eps_update})

AccMessages(cc) == IF PQ THEN pq_create_acc_accel_control(cc) ELSE mqb_create_acc_accel_control(cc)

HudMessages ==
    When(Every(Slow), {IF PQ THEN pq_create_lka_hud_control ELSE mqb_create_lka_hud_control})
    \cup When(long /\ Every(IF PQ THEN 4 ELSE 6), {IF PQ THEN pq_create_acc_hud_control ELSE mqb_create_acc_hud_control})

\* Mutant of GraSendReady: every frame.
GraSendAlways == CP.pcmCruise

\* one answer to each of the stock messages
GraSendReady == CP.pcmCruise /\ cs.stock # ctl.stock

ButtonMessages(cc) ==
    LET press(what) == IF PQ THEN pq_create_acc_buttons_control(what) ELSE mqb_create_acc_buttons_control(what)
    IN When(GraSendReady /\ cc.cancel, {press("cancel")})
       \cup When(GraSendReady /\ cc.resume, {press("resume")})

Apply(cc) ==
    \E asked \in IF Every(STEER_STEP) /\ cc.latActive THEN {-1, 0, 1} ELSE {0} :
        LET steered == IF Every(STEER_STEP) THEN Steered(cc, asked) ELSE ctl
        IN Applied(cc, [steered EXCEPT !.frame = (@ + 1) % (3 * Slow), !.stock = cs.stock],
             When(Every(STEER_STEP), SteerMessages(steered.torque))
             \cup When(long /\ Every(ACC_CONTROL_STEP), AccMessages(cc))
             \cup HudMessages \cup ButtonMessages(cc))
=============================================================================
