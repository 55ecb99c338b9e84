------------------------------- MODULE GmPort -------------------------------
(***************************************************************************)
(* selfdrive/car/gm: cars steered by the LKA message, whose rolling        *)
(* counter follows the camera's until openpilot's own messages come back   *)
(* over the panda's loopback.                                              *)
(***************************************************************************)
EXTENDS Port

STEER_STEP                 == 3
INACTIVE_STEER_STEP        == Slow
CAMERA_CANCEL_DELAY_FRAMES == Slow
ADAS_KEEPALIVE_STEP        == Slow

\* The cars of values.py, by the sets the code looks them up in.
Candidate(camera, ev, untested) == [camera |-> camera, ev |-> ev, untested |-> untested]
Cars == {Candidate(FALSE, FALSE, TRUE), Candidate(FALSE, FALSE, FALSE),   \* Malibu..., Acadia...
         Candidate(FALSE, TRUE, FALSE),                                   \* Volt
         Candidate(TRUE, TRUE, FALSE), Candidate(TRUE, FALSE, FALSE)}     \* Bolt EUV, Equinox...

\* _get_params, of a candidate and what its fingerprint shows
GetParams(cand, fp, experimentalLong) ==
    LET long == ~cand.camera \/ experimentalLong
        radarUnavailable == cand.camera \/ ~fp.radarHeader
    IN [carName |-> "gm",
        direct |-> cand.ev,
        enableBsm |-> fp.bsm,
        fwdCamera |-> cand.camera,
        radarUnavailable |-> radarUnavailable,
        pcmCruise |-> ~long,
        openpilotLongitudinalControl |-> long,
        safetyParam |-> When(cand.camera, {"HW_CAM"})
                        \cup When(cand.camera /\ experimentalLong, {"HW_CAM_LONG"}),
        dashcamOnly |-> cand.untested \/ (~cand.camera /\ radarUnavailable)]

\* The panda lets through what the stock camera would send, unless told.
PandaLong == "HW_CAM" \in CP.safetyParam => "HW_CAM_LONG" \in CP.safetyParam

Params == {GetParams(cand, fp, long) :
             cand \in Cars,
             fp \in [bsm : BOOLEAN, radarHeader : BOOLEAN],
             long \in BOOLEAN}

-----------------------------------------------------------------------------
(* CarState.                                                               *)

\* Messages the CAN parsers are told of, by bus.
Parsed ==
    LET pt == {"BCMTurnSignals", "ECMPRDNL2", "PSCMStatus", "ESPStatus", "BCMDoorBeltStatus",
               "BCMGeneralPlatformStatus", "EBCMWheelSpdFront", "EBCMWheelSpdRear",
               "EBCMFrictionBrakeStatus", "AcceleratorPedal2", "ASCMSteeringButton",
               "ECMEngineStatus", "PSCMSteeringAngle", "ECMAcceleratorPos"}
              \cup When(CP.enableBsm, {"BCMBlindSpotMonitor"})
              \cup When(CP.fwdCamera, {"ASCMLKASteeringCmd"})
              \cup When(CP.direct, {"EBCMRegenPaddle"})
        cam == When(CP.fwdCamera, {"AEBCmd", "ASCMLKASteeringCmd", "ASCMActiveCruiseControlStatus"})
    IN ({"pt"} \X pt) \cup ({"cam"} \X cam) \cup {<<"loopback", "ASCMLKASteeringCmd">>}

\* Messages CarState.update looks into.
Reads ==
    LET pt == {"ASCMSteeringButton", "PSCMStatus", "EBCMWheelSpdRear", "EBCMWheelSpdFront",
               "ECMPRDNL2", "ECMAcceleratorPos", "AcceleratorPedal2", "PSCMSteeringAngle",
               "BCMDoorBeltStatus", "BCMTurnSignals", "BCMGeneralPlatformStatus",
               "ECMEngineStatus", "ESPStatus", "EBCMFrictionBrakeStatus"}
              \cup When(CP.fwdCamera, {"ASCMLKASteeringCmd"})
              \cup When(CP.direct, {"EBCMRegenPaddle"})
              \cup When(CP.enableBsm, {"BCMBlindSpotMonitor"})
        cam == When(CP.fwdCamera, {"ASCMLKASteeringCmd", "ASCMActiveCruiseControlStatus", "AEBCmd"})
    IN ({"pt"} \X pt) \cup ({"cam"} \X cam) \cup {<<"loopback", "ASCMLKASteeringCmd">>}

UNPRESS == "UNPRESS"
BUTTONS_DICT == [INIT |-> "unknown", UNPRESS |-> "unknown", RES_ACCEL |-> "accelCruise",
                 DECEL_SET |-> "decelCruise", MAIN |-> "altButton3", CANCEL |-> "cancel"]

Idle == [button |-> UNPRESS, distance |-> 0, cruise |-> "OFF", lkas |-> "active",
         pt |-> 0, cam |-> 0, slow |-> FALSE, stopped |-> FALSE, pressed |-> FALSE]
Signals ==
    One(Idle, "button", DOMAIN BUTTONS_DICT) \cup One(Idle, "distance", {1})
    \cup One(Idle, "cruise", {"ACTIVE", "STANDSTILL"}) \cup One(Idle, "lkas", {"limited", "failed"})
    \cup One(Idle, "pt", {2}) \cup One(Idle, "cam", {1})
    \cup {[Idle EXCEPT !.slow = TRUE, !.stopped = TRUE, !.pressed = TRUE]}

\* The buttons and the counters of the camera on both sides of the relay; of
\* the loopback, the counters that came back in this frame (vl_all), whether
\* one ever did, and the frames since.  Flying: the counters of our messages
\* that the panda has and that have not come back (external).
CsInit == [button |-> "INIT", distance |-> 0, pt |-> 0, cam |-> 0,
           back |-> <<>>, seen |-> FALSE, since |-> 2, flying |-> <<>>]

\* What becomes of the messages in flight, in their order: until the relay has
\* closed the panda drops the first few; then the first of the others come back
\* and the rest stay.  Bound: none is underway when the next but one is sent.
Lost == 0 .. (IF cs.seen THEN 0 ELSE Len(cs.flying))
Cut(from, to) == SubSeq(cs.flying, from + 1, to)

\* Don't add event if transitioning from INIT, unless it's to an actual button
Buttons(s) ==
    IF s.button = UNPRESS /\ cs.button = "INIT" THEN {}
    ELSE ButtonEdges(s.button, cs.button, BUTTONS_DICT, UNPRESS)
         \cup ButtonEdges(s.distance, cs.distance, [d \in {0, 1} |-> "gapAdjustCruise"], 0)

\* The ECM allows enabling on falling edge of set, but only rising edge of resume
Events(o, s) ==
    Engagement(o, {"decelCruise"}, CP.pcmCruise)
    \cup When(~CP.pcmCruise /\ Press("accelCruise") \in o.buttons, {"buttonEnable"})
    \cup When(s.slow /\ ~(s.stopped /\ CP.fwdCamera), {"belowEngageSpeed"})
    \cup When(s.slow, {"belowSteerSpeed"})
    \cup When(s.cruise = "STANDSTILL", {"resumeRequired"})
    \cup When(s.lkas = "failed", {"steerUnavailable"})

Decode ==
    \E s \in Signals, lost \in Lost, done \in 0 .. Len(cs.flying) :
        LET o == [OutIdle EXCEPT !.cruiseEnabled = s.cruise # "OFF", !.standstill = s.stopped,
                                 !.steeringPressed = s.pressed,
                                 !.steerFaultTemporary = s.lkas = "limited",
                                 !.buttons = Buttons(s)]
        IN /\ lost <= done /\ Len(cs.flying) - done <= 1
           /\ Decoded([button |-> s.button, distance |-> s.distance,
                       pt |-> IF CP.fwdCamera /\ ~cs.seen THEN s.pt ELSE 0,
                       cam |-> IF CP.fwdCamera THEN s.cam ELSE 0,
                       back |-> Cut(lost, done), seen |-> cs.seen \/ lost < done,
                       since |-> IF lost < done THEN 0 ELSE UpTo(cs.since, 2),
                       flying |-> Cut(done, Len(cs.flying))],
                      [o EXCEPT !.events = Events(o, s)])

-----------------------------------------------------------------------------
(* CarController.                                                          *)

CtlInit == [frame |-> 0, sinceSteer |-> 0, sinceButton |-> 0, cancelCounter |-> 0, lka |-> 0]

\* Active: every STEER_STEP frames; also until we're in sync with camera so
\* counters align when relay closes, preventing a fault
SteerStep(cc) ==
    IF \/ cc.latActive
       \/ CP.fwdCamera /\ (~cs.seen \/ ctl.lka # (cs.cam + 1) % 4)
    THEN STEER_STEP ELSE INACTIVE_STEER_STEP

Updated == cs.back # <<>>

\* Mutant of LkaCounter: it counts frames, not messages that came back.
LkaFrames == (ctl.lka + 1) % 4

\* lka_steering_cmd_counter, modulo 4: however many came back in the frame
LkaCounter == (ctl.lka + (IF Updated THEN 1 ELSE 0)) % 4

\* More than MIN_STEER_MSG_INTERVAL_MS (a frame and a half) since the loopback.
SpacedOut == IF cs.since = 0 THEN {FALSE} ELSE IF cs.since = 1 THEN BOOLEAN ELSE {TRUE}

create_steering_control(cc, ctr) ==
    Steer("ASCMLKASteeringCmd", cc.latActive, Amount(cc.latActive), ctr)
create_gas_regen_command(cc) ==
    Long("ASCMGasRegenCmd", cc.enabled, Amount(cc.longActive /\ ~cc.stopping))
create_friction_brake_command(cc) == Long("EBCMFrictionBrakeCmd", cc.enabled, Amount(cc.longActive))
create_acc_dashboard_command == Ui("ASCMActiveCruiseControlStatus")
create_buttons == Button("ASCMSteeringButton", "cancel", NoCtr)
create_pscm_status == Ui("PSCMStatus")

LongCommands(cc) ==
    When(Every(4), {create_gas_regen_command(cc), create_friction_brake_command(cc),
                    create_acc_dashboard_command})

\* create_adas_time_status ... create_adas_headlights_status
RadarFeed ==
    When(~CP.radarUnavailable /\ Every(Slow), {Ui("ASCMTimeStatus"), Ui("ASCMHeadlight")})
    \cup When(~CP.radarUnavailable /\ Every(2), {Ui("ASCMSteeringStatus"), Ui("ASCMAccSpeedStatus")})

KeepAlive == When(~CP.fwdCamera /\ Every(ADAS_KEEPALIVE_STEP), {Ui("ADASKeepAlive")})

\* A delayed cancellation allows camera to cancel and avoids a fault when user
\* depresses brake quickly
CancelDue(count) == ctl.sinceButton > Slow /\ count > CAMERA_CANCEL_DELAY_FRAMES

Apply(cc) ==
    \E spaced \in SpacedOut :
        LET steers == ctl.sinceSteer >= SteerStep(cc) /\ spaced
            lka == IF steers /\ ~cs.seen THEN (cs.pt + 1) % 4 ELSE LkaCounter
            count == IF cc.cancel THEN UpTo(ctl.cancelCounter, CAMERA_CANCEL_DELAY_FRAMES + 1) ELSE 0
            long == CP.openpilotLongitudinalControl
            cancels == ~long /\ CancelDue(count)
        IN AppliedWith(cc, [cs EXCEPT !.flying = IF steers THEN Append(@, lka) ELSE @],
             [frame |-> (ctl.frame + 1) % Slow,
              sinceSteer |-> IF steers THEN 1 ELSE UpTo(ctl.sinceSteer, Slow),
              sinceButton |-> IF cancels THEN 1 ELSE UpTo(ctl.sinceButton, Slow + 1),
              cancelCounter |-> IF long THEN 0 ELSE count,
              lka |-> lka],
             When(steers, {create_steering_control(cc, lka)})
             \cup When(long, LongCommands(cc) \cup RadarFeed \cup KeepAlive)
             \cup When(cancels, {create_buttons})
             \cup When(CP.fwdCamera /\ Every(Slow), {create_pscm_status}))
=============================================================================
