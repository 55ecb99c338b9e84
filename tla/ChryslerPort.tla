---------------------------- MODULE ChryslerPort ----------------------------
(***************************************************************************)
(* selfdrive/car/chrysler: Chrysler, Dodge, Jeep and Ram.  The power       *)
(* steering is held by a control bit that follows the speed of the car and *)
(* has to rest for a while before it comes on again.                       *)
(***************************************************************************)
EXTENDS Port

STEER_STEP == 2
REST       == 2 * Slow   \* 200 frames

\* The cars of values.py: the Pacifica and the others, Ram 1500, Ram HD.
Cars == {"no", "DT", "HD"}

\* ram is the car; eps says whether the
\* firmware of the power steering is old, newer or of a platform that has it.
GetParams(ram, eps, bsm) ==
    LET higher == ram = "no" /\ eps = "new"
    IN [carName |-> "chrysler", ram |-> ram,
        flags |-> When(higher, {"HIGHER_MIN_STEERING_SPEED"}),
        lowSteer |-> ~(ram = "DT" /\ eps = "old"),   \* minSteerSpeed > 0
        dashcamOnly |-> ram = "HD",
        enableBsm |-> bsm,
        pcmCruise |-> TRUE,
        openpilotLongitudinalControl |-> FALSE,
        safetyParam |-> CASE ram = "DT" -> {"RAM_DT"} [] ram = "HD" -> {"RAM_HD"} [] OTHER -> {}]

Params == {GetParams(ram, eps, bsm) :
             ram \in Cars, eps \in {"old", "mid", "new"}, bsm \in BOOLEAN}

RamCar == CP.ram # "no"
PandaLong == FALSE

-----------------------------------------------------------------------------
(* CarState.                                                               *)

CruiseMessages == {"DAS_3", "DAS_4"}

Parsed ==
    LET pt == {"ESP_1", "EPS_2", "ESP_6", "STEERING", "ECM_5", "CRUISE_BUTTONS", "STEERING_LEVERS",
               "ORC_1", "BCM_1"}
              \cup When(CP.enableBsm, {"BSM_1"})
              \cup (IF RamCar THEN {"ESP_8", "EPS_3", "Transmission_Status"}
                    ELSE {"GEAR", "SPEED_1"} \cup CruiseMessages)
    IN ({"pt"} \X pt) \cup ({"cam"} \X ({"DAS_6"} \cup When(RamCar, CruiseMessages)))

Reads ==
    LET pt == {"CRUISE_BUTTONS", "BCM_1", "ORC_1", "ESP_1", "ECM_5", "ESP_6", "STEERING_LEVERS",
               "STEERING", "EPS_2"}
              \cup (IF RamCar THEN {"ESP_8", "Transmission_Status", "EPS_3"} ELSE {"SPEED_1", "GEAR"})
              \cup When(CP.enableBsm, {"BSM_1"})
    IN ({"pt"} \X pt) \cup ({IF RamCar THEN "cam" ELSE "pt"} \X CruiseMessages) \cup {<<"cam", "DAS_6">>}

\* The speed: below both thresholds of the control bit, between them, just
\* above the least speed to steer at, further above it, or well above.
Idle == [distance |-> 0, active |-> TRUE, speed |-> "high", eps |-> "ok"]
Signals ==
    {Idle} \cup One(Idle, "distance", {1}) \cup One(Idle, "active", {FALSE})
    \cup One(Idle, "speed", {"low", "between", "above", "margin"} \ When(~CP.lowSteer, {"low"}))
    \cup One(Idle, "eps", {"limited", "failed"})

CsInit == [distance |-> 0, speed |-> "low", lowSpeed |-> FALSE]

LowSpeed(s) == (cs.lowSpeed \/ (CP.lowSteer /\ s.speed \in {"low", "between", "above"})) /\ s.speed # "high"

Events(o, s) ==
    Engagement(o, EnableButtons, CP.pcmCruise)
    \cup When(s.eps = "failed" /\ ~RamCar, {"steerUnavailable"})
    \cup When(LowSpeed(s), {"belowSteerSpeed"})

Decode ==
    \E s \in Signals :
        LET o == [OutIdle EXCEPT !.cruiseEnabled = s.active, !.steerFaultTemporary = s.eps = "limited",
                                 !.buttons = ButtonEdges(s.distance, cs.distance,
                                                         [d \in {0, 1} |-> "gapAdjustCruise"], 0)]
        IN Decoded([distance |-> s.distance, speed |-> s.speed, lowSpeed |-> LowSpeed(s)],
                   [o EXCEPT !.events = Events(o, s)])

-----------------------------------------------------------------------------
(* CarController.                                                          *)

\* lkas_control_bit_prev, and the frames since its last falling edge and
\* since the last button
CtlInit == [frame |-> 0, bit |-> FALSE, sinceFall |-> 0, sinceButton |-> 0]

\* What the speed makes of the bit: some cars keep it down to a standstill.
BitOfSpeed ==
    IF cs.speed \in {"above", "margin", "high"} THEN TRUE
    ELSE ctl.bit /\ ~(cs.speed = "low" /\ ("HIGHER_MIN_STEERING_SPEED" \in CP.flags \/ RamCar))

\* Mutant of Bit: the bit comes on as the speed allows.
BitAtOnce == BitOfSpeed

\* EPS faults if LKAS re-enables too quickly
Bit == BitOfSpeed /\ ctl.sinceFall > REST

Steers(cc) == cc.latActive /\ ctl.bit

create_lkas_hud(cc) ==
    Message("ui", "DAS_6", IF cc.alert THEN "ldw" ELSE "none", Steers(cc), 0, NoCtr)
create_lkas_command(torque, bit) == Steer("LKAS_COMMAND", bit, torque, NoCtr)
\* with the counter after that of the car's own last message
create_cruise_buttons(what) == Button("CRUISE_BUTTONS", what, NoCtr)

Pressed(cc) ==
    IF ctl.sinceButton <= Slow THEN {}
    ELSE IF cc.cancel THEN {create_cruise_buttons("cancel")}
    ELSE When(cc.resume, {create_cruise_buttons("resume")})

Apply(cc) ==
    LET steering == Every(STEER_STEP)
        falls == steering /\ ctl.bit /\ ~Bit
    IN Applied(cc,
        [frame |-> (ctl.frame + 1) % (2 * Slow),
         bit |-> IF steering THEN Bit ELSE ctl.bit,
         sinceFall |-> IF falls THEN 1 ELSE UpTo(ctl.sinceFall, REST + 1),
         sinceButton |-> IF Pressed(cc) # {} THEN 1 ELSE UpTo(ctl.sinceButton, Slow + 1)],
        Pressed(cc)
        \cup When(Every(2 * Slow), {create_lkas_hud(cc)})
        \cup When(steering, {create_lkas_command(Amount(Steers(cc) /\ Bit), Bit)}))
=============================================================================
