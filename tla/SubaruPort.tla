----------------------------- MODULE SubaruPort -----------------------------
(***************************************************************************)
(* selfdrive/car/subaru: cars with EyeSight, of the global platform (two   *)
(* generations, hybrids) or from before it.  What EyeSight sends is sent   *)
(* on, with openpilot's steering and, on some cars, its acceleration.      *)
(***************************************************************************)
EXTENDS Port

STEER_STEP            == 2
MAX_STEER_RATE_FRAMES == Slow

\* The cars of values.py by their flags, and whether the driver's torque is
\* reversed (Forester and Outback 2018 of before the global platform).
Cars == [flags : {{}, {"STEER_RATE_LIMITED"}, {"GLOBAL_GEN2", "STEER_RATE_LIMITED"}, {"HYBRID"},
                  {"LKAS_ANGLE"}, {"GLOBAL_GEN2", "LKAS_ANGLE"}},
         reversed : {FALSE}]
        \cup [flags : {{"PREGLOBAL"}}, reversed : BOOLEAN]

GetParams(car, infotainment, bsm, experimentalLong) ==
    LET available == car.flags \cap {"GLOBAL_GEN2", "PREGLOBAL", "LKAS_ANGLE", "HYBRID"} = {}
        long == experimentalLong /\ available
    IN [carName |-> "subaru",
        flags |-> car.flags \cup When(infotainment /\ "PREGLOBAL" \notin car.flags, {"SEND_INFOTAINMENT"})
                  \cup When("GLOBAL_GEN2" \in car.flags /\ long, {"DISABLE_EYESIGHT"}),
        dashcamOnly |-> car.flags \cap {"PREGLOBAL", "LKAS_ANGLE", "HYBRID"} # {},
        enableBsm |-> bsm,
        pcmCruise |-> TRUE,
        openpilotLongitudinalControl |-> long,
        safetyParam |-> When("GLOBAL_GEN2" \in car.flags, {"GEN2"})
                        \cup When(car.reversed, {"PREGLOBAL_REVERSED_DRIVER_TORQUE"})
                        \cup When(long, {"LONG"})]

Params == {GetParams(car, info, bsm, long) :
             car \in Cars, info \in BOOLEAN, bsm \in BOOLEAN, long \in BOOLEAN}

Has(flag) == flag \in CP.flags
long == CP.openpilotLongitudinalControl
PandaLong == "LONG" \in CP.safetyParam

-----------------------------------------------------------------------------
(* CarState.                                                               *)

\* Mutant of BodyMessages: as on a hybrid.
BodyMessagesFew == {"Wheel_Speeds", "Brake_Status"}

BodyMessages     == {"Wheel_Speeds", "Brake_Status"} \cup When(~Has("HYBRID"), {"CruiseControl"})
EyeSightMessages == {"ES_Brake"} \cup When(~Has("HYBRID"), {"ES_Distance", "ES_Status"})

Parsed ==
    LET main == {"Dashlights", "Steering_Torque", "BodyInfo", "Brake_Pedal"}
                \cup When(~Has("HYBRID"), {"Throttle", "Transmission"})
                \cup When(CP.enableBsm, {"BSD_RCTA"})
                \cup (IF Has("PREGLOBAL") THEN {"CruiseControl", "Wheel_Speeds", "Dash_State2"}
                      ELSE When(~Has("GLOBAL_GEN2"), BodyMessages))
        cam == IF Has("PREGLOBAL") THEN {"ES_DashStatus", "ES_Distance"}
               ELSE {"ES_DashStatus", "ES_LKAS_State"}
                    \cup When(~Has("GLOBAL_GEN2"), EyeSightMessages)
                    \cup When(Has("SEND_INFOTAINMENT"), {"ES_Infotainment"})
        alt == When(Has("GLOBAL_GEN2"), BodyMessages \cup EyeSightMessages)
               \cup When(Has("HYBRID"), {"Throttle_Hybrid", "Transmission"})
    IN ({"main"} \X main) \cup ({"cam"} \X cam) \cup ({"alt"} \X alt)

Reads ==
    LET gen2(other) == IF Has("GLOBAL_GEN2") THEN "alt" ELSE other
        global == ~Has("PREGLOBAL")
        throttle == IF Has("HYBRID") THEN {"alt"} \X {"Throttle_Hybrid", "Transmission"}
                    ELSE {"main"} \X {"Throttle", "Transmission"}
        cruise == IF Has("HYBRID") THEN {} ELSE {<<gen2("main"), "CruiseControl">>}
        esDistance == IF Has("GLOBAL_GEN2") \/ Has("HYBRID") THEN "alt" ELSE "cam"
        main == {"Dashlights", "Steering_Torque", "BodyInfo"} \cup When(CP.enableBsm, {"BSD_RCTA"})
                \cup When(~global, {"Brake_Pedal", "Dash_State2"})
        cam == {"ES_DashStatus"} \cup When(global, {"ES_LKAS_State"})
               \cup When(Has("SEND_INFOTAINMENT"), {"ES_Infotainment"})
    IN ({"main"} \X main) \cup ({"cam"} \X cam) \cup throttle \cup cruise
       \cup {<<gen2("main"), "Wheel_Speeds">>}
       \cup When(global, {<<gen2("main"), "Brake_Status">>, <<gen2("cam"), "ES_Brake">>})
       \cup When(~Has("HYBRID"), {<<esDistance, "ES_Distance">>})
       \cup When(global /\ ~Has("HYBRID"), {<<esDistance, "ES_Brake">>, <<gen2("cam"), "ES_Status">>})

\* cruise_button 1 is main; 2 stands for the others
Idle == [active |-> TRUE, main |-> TRUE, ready |-> TRUE, button |-> 0, fastSteer |-> FALSE,
         steer |-> "ok", eyesightFault |-> FALSE]
Signals ==
    {Idle, [Idle EXCEPT !.active = FALSE, !.main = FALSE],
     [Idle EXCEPT !.active = FALSE, !.main = FALSE, !.ready = FALSE]}
    \cup One(Idle, "active", {FALSE}) \cup One(Idle, "button", {1, 2}) \cup One(Idle, "fastSteer", {TRUE})
    \cup One(Idle, "steer", {"warning", "error"}) \cup One(Idle, "eyesightFault", {TRUE})

\* what the controller looks up of this frame
CsInit == [main |-> TRUE, ready |-> TRUE, button |-> 0, fastSteer |-> FALSE]

\* if openpilot is controlling long, an eyesight fault is a non-critical fault
Events(o, s) ==
    Engagement(o, EnableButtons, CP.pcmCruise)
    \cup When(s.steer = "error", {"steerUnavailable"})
    \cup When(s.eyesightFault /\ ~Has("HYBRID") /\ ~long, {"accFaulted"})

Decode ==
    \E s \in Signals :
        LET o == [OutIdle EXCEPT !.cruiseEnabled = s.active,
                                 !.steerFaultTemporary = s.steer = "warning" /\ ~Has("PREGLOBAL")]
        IN Decoded([main |-> s.main, ready |-> s.ready, button |-> s.button, fastSteer |-> s.fastSteer],
                   [o EXCEPT !.events = Events(o, s)])

-----------------------------------------------------------------------------
(* CarController.                                                          *)

\* cruise_button_prev, steer_rate_counter
CtlInit == [frame |-> 0, button |-> 0, rate |-> 0]

\* the rolling counter of a message sent every n frames
Nth(n) == ctl.frame \div n

RateLimited == Has("STEER_RATE_LIMITED") /\ ~Has("PREGLOBAL") /\ Every(STEER_STEP)

create_steering_control(torque, request) == Steer("ES_LKAS", request, torque, NoCtr)
create_preglobal_steering_control(frame, torque, request) == Steer("ES_LKAS", request, torque, frame)

Steering(cc) ==
    IF Has("PREGLOBAL") THEN create_preglobal_steering_control(Nth(STEER_STEP), Amount(cc.latActive), cc.latActive)
    ELSE create_steering_control(Amount(cc.latActive),
             IF RateLimited THEN NotCut(cs.fastSteer, cc.latActive, ctl.rate, MAX_STEER_RATE_FRAMES)
             ELSE cc.latActive)

\* The button of cars from before the global platform: main to cancel, main
\* to turn cruise control on, or the driver's; never main twice in a row.
Wanted(cc) == IF cc.cancel \/ (~cs.main /\ cs.ready) THEN 1 ELSE cs.button
CruiseButton(cc) == IF Wanted(cc) = 1 /\ ctl.button = 1 THEN 0 ELSE Wanted(cc)

\* EyeSight's messages with openpilot's acceleration in them; to cancel, the
\* throttle is the inactive one.
create_es_status(cc) == Message("long", "ES_Status", "none", cc.longActive, Amount(cc.longActive), Nth(Slow))
create_es_brake(cc)  == Message("long", "ES_Brake", "none", cc.longActive, Amount(cc.longActive), Nth(Slow))
create_es_distance(cc) ==
    IF long THEN Message("long", "ES_Distance", IF cc.cancel THEN "cancel" ELSE "none", cc.longActive,
                         Amount(cc.longActive /\ ~cc.cancel), Nth(Slow))
    ELSE Button("ES_Distance", "cancel", NoCtr)
create_preglobal_es_distance(button) ==
    Button("ES_Distance", <<"none", "main", "driver">>[button + 1], NoCtr)

\* What EyeSight shows, but its alerts of steering, with openpilot's.
create_es_dashstatus(cc) ==
    Message("ui", "ES_DashStatus", IF long /\ cc.enabled THEN "Cruise_Activated" ELSE "none", FALSE, 0, NoCtr)
create_es_lkas_state(cc) ==
    Message("ui", "ES_LKAS_State", IF cc.alert THEN "hands_on_wheel" ELSE "none", cc.enabled, 0, NoCtr)
create_es_infotainment(cc) ==
    Message("ui", "ES_Infotainment", IF cc.alert THEN "hands_on_wheel" ELSE "none", FALSE, 0, NoCtr)

Hud(cc) == {create_es_dashstatus(cc), create_es_lkas_state(cc)}
           \cup When(Has("SEND_INFOTAINMENT"), {create_es_infotainment(cc)})

\* In the place of a disabled EyeSight: no variant of get_params disables it.
create_es_highbeamassist == Ui("ES_HighBeamAssist")
create_es_static_1       == Ui("ES_STATIC_1")
create_es_static_2       == Ui("ES_STATIC_2")
EyeSightStandIn ==
    When(Every(4 * Slow), {Ui("TESTER_PRESENT")}) \cup When(Every(Slow), {create_es_highbeamassist})
    \cup When(Every(2 * Slow), {create_es_static_1}) \cup When(Every(2), {create_es_static_2})

GlobalMessages(cc) ==
    When(Every(2 * Slow), Hud(cc))
    \cup When(long /\ Every(Slow), {create_es_status(cc), create_es_brake(cc), create_es_distance(cc)})
    \cup When(~long /\ cc.cancel /\ ~Has("HYBRID"), {create_es_distance(cc)})
    \cup When(Has("DISABLE_EYESIGHT"), EyeSightStandIn)

Apply(cc) ==
    LET presses == Has("PREGLOBAL") /\ Every(Slow)
    IN Applied(cc,
        [frame |-> (ctl.frame + 1) % (4 * Slow),
         button |-> IF presses THEN CruiseButton(cc) ELSE ctl.button,
         rate |-> IF RateLimited THEN NextAbove(cs.fastSteer, cc.latActive, ctl.rate, MAX_STEER_RATE_FRAMES, 1)
                  ELSE ctl.rate],
        When(Every(STEER_STEP), {Steering(cc)})
        \cup (IF Has("PREGLOBAL")
              THEN When(presses, {create_preglobal_es_distance(CruiseButton(cc))})
              ELSE GlobalMessages(cc)))
=============================================================================
