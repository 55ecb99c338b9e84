---------------------------- MODULE CarLoopProofs ----------------------------
(***************************************************************************)
(* Theorems about every port in card's loop, for any set of commands and   *)
(* carStates that go on for as long as they like: what a controller puts   *)
(* on the bus, what its CarState reads, and what the driver is told.       *)
(***************************************************************************)
EXTENDS CarLoop, TLAPS

-----------------------------------------------------------------------------
(* The variants of the cars: a port's parameters carry its name and agree   *)
(* among themselves, and its CarState reads what its parser was told of.   *)

LEMMA GmVariants ==
    ASSUME CP \in Gm!Params
    PROVE  /\ Is("gm")
           /\ CP.openpilotLongitudinalControl => Gm!PandaLong
           /\ CP.pcmCruise = ~CP.openpilotLongitudinalControl
           /\ Gm!Reads \subseteq Gm!Parsed
<1>1. PICK cand \in Gm!Cars, fp \in [bsm : BOOLEAN, radarHeader : BOOLEAN], long \in BOOLEAN :
          CP = Gm!GetParams(cand, fp, long)
  BY DEF Gm!Params
<1>2. Is("gm") /\ CP.pcmCruise = ~CP.openpilotLongitudinalControl
  BY <1>1 DEF Gm!GetParams, Is
<1>3. CP.openpilotLongitudinalControl => Gm!PandaLong
  BY <1>1 DEF Gm!GetParams, Gm!PandaLong, Gm!When
<1>4. Gm!Reads \subseteq Gm!Parsed
  BY DEF Gm!Reads, Gm!Parsed
<1> QED  BY <1>2, <1>3, <1>4

LEMMA HondaVariants ==
    ASSUME CP \in Honda!Params
    PROVE  /\ Is("honda")
           /\ CP.openpilotLongitudinalControl => Honda!PandaLong
           /\ CP.pcmCruise
           /\ Honda!Reads \subseteq Honda!Parsed
BY DEF Honda!Params, Honda!GetParams, Is, Honda!Reads, Honda!Parsed

LEMMA ToyotaVariants ==
    ASSUME CP \in Toyota!Params
    PROVE  /\ Is("toyota")
           /\ CP.openpilotLongitudinalControl => Toyota!PandaLong
           /\ CP.pcmCruise
           /\ Toyota!Reads \subseteq Toyota!Parsed
<1>1. PICK car \in Toyota!Cars, bsm \in BOOLEAN, ecus \in {{}, {"eps"}, {"eps", "dsu"}}, long \in BOOLEAN :
          CP = Toyota!GetParams(car, bsm, ecus, long)
  BY DEF Toyota!Params
<1>2. Is("toyota") /\ CP.pcmCruise
  BY <1>1 DEF Toyota!GetParams, Is
<1>3. CP.openpilotLongitudinalControl => Toyota!PandaLong
  BY <1>1 DEF Toyota!GetParams, Toyota!PandaLong, Toyota!When
<1>4. Toyota!Reads \subseteq Toyota!Parsed
  <2>1. CP.car \in Toyota!Cars /\ (CP.disableRadar => CP.car.RADAR_ACC)
    BY <1>1 DEF Toyota!GetParams
  <2> QED  BY <2>1 DEF Toyota!Reads, Toyota!Parsed, Toyota!When, Toyota!CameraAcc
<1> QED  BY <1>2, <1>3, <1>4

LEMMA HyundaiVariants ==
    ASSUME CP \in Hyundai!Params
    PROVE  /\ Is("hyundai")
           /\ CP.openpilotLongitudinalControl => Hyundai!PandaLong
           /\ CP.pcmCruise = ~CP.openpilotLongitudinalControl
           /\ Hyundai!Reads \subseteq Hyundai!Parsed
<1>1. PICK car, flags, bsm, long :
          /\ CP = Hyundai!GetParams(car, flags, bsm, long)
          /\ car \in Hyundai!Cars /\ long \in BOOLEAN
          /\ "CANFD_HDA2" \in flags => "CANFD_CAMERA_SCC" \notin flags
  <2>1. CASE CP \in Hyundai!CanFdParams
    <3>1. PICK car \in Hyundai!Cars, hda2 \in BOOLEAN, bsm \in BOOLEAN, long \in BOOLEAN,
               fp \in [hybrid : BOOLEAN, altSteering : BOOLEAN, buttons : BOOLEAN, gear : {"0x130", "0x40", "0x70"}] :
                 CP = Hyundai!GetParams(car, Hyundai!CanFdFlags(car, hda2, fp), bsm, long)
      BY <2>1 DEF Hyundai!CanFdParams
    <3>2. "CANFD_HDA2" \in Hyundai!CanFdFlags(car, hda2, fp) => hda2
      BY DEF Hyundai!CanFdFlags, Hyundai!When
    <3>3. hda2 => "CANFD_CAMERA_SCC" \notin Hyundai!CanFdFlags(car, hda2, fp)
      BY DEF Hyundai!CanFdFlags, Hyundai!When
    <3> QED  BY <3>1, <3>2, <3>3
  <2>2. CASE CP \in Hyundai!CanParams
    <3>1. PICK car \in Hyundai!Cars, bsm \in BOOLEAN, long \in BOOLEAN, fp \in [lfa : BOOLEAN, fca : BOOLEAN] :
                 CP = Hyundai!GetParams(car, Hyundai!CanFlags(fp), bsm, long)
      BY <2>2 DEF Hyundai!CanParams
    <3>2. "CANFD_HDA2" \notin Hyundai!CanFlags(fp)
      BY DEF Hyundai!CanFlags, Hyundai!When
    <3> QED  BY <3>1, <3>2
  <2> QED  BY <2>1, <2>2 DEF Hyundai!Params
<1>2. Is("hyundai") /\ CP.pcmCruise = ~CP.openpilotLongitudinalControl
  BY <1>1 DEF Hyundai!GetParams, Is
<1>3. CP.openpilotLongitudinalControl => Hyundai!PandaLong
  BY <1>1 DEF Hyundai!GetParams, Hyundai!PandaLong, Hyundai!SafetyParam, Hyundai!When
<1>4. ~(Hyundai!Has("CANFD_HDA2") /\ Hyundai!Has("CANFD_CAMERA_SCC"))
  <2>1. "CANFD_HDA2" \notin car /\ "CANFD_CAMERA_SCC" \notin car
    BY <1>1 DEF Hyundai!Cars, Hyundai!HyundaiModels, Hyundai!KiaModels, Hyundai!GenesisModels
  <2> QED  BY <1>1, <2>1 DEF Hyundai!GetParams, Hyundai!Has
<1>5. Hyundai!ReadsCanFd \subseteq Hyundai!ParsedCanFd
  BY <1>4 DEF Hyundai!ReadsCanFd, Hyundai!ParsedCanFd, Hyundai!When, Hyundai!cruise_btns_msg_canfd
<1>6. Hyundai!ReadsCan \subseteq Hyundai!ParsedCan
  BY DEF Hyundai!ReadsCan, Hyundai!ParsedCan, Hyundai!When
<1> QED  BY <1>2, <1>3, <1>5, <1>6 DEF Hyundai!Reads, Hyundai!Parsed

LEMMA VolkswagenVariants ==
    ASSUME CP \in Volkswagen!Params
    PROVE  /\ Is("volkswagen")
           /\ CP.openpilotLongitudinalControl => Volkswagen!PandaLong
           /\ Volkswagen!Reads \subseteq Volkswagen!Parsed
<1>1. PICK cand, fp, long : long \in BOOLEAN /\ CP = Volkswagen!GetParams(cand, fp, long)
  BY DEF Volkswagen!Params
<1>2. Is("volkswagen")
  BY <1>1 DEF Volkswagen!GetParams, Is
<1>3. CP.openpilotLongitudinalControl => Volkswagen!PandaLong
  BY <1>1 DEF Volkswagen!GetParams, Volkswagen!PandaLong, Volkswagen!When
<1>4. Volkswagen!Reads \subseteq Volkswagen!Parsed
  BY DEF Volkswagen!Reads, Volkswagen!Parsed, Volkswagen!ReadsMqb, Volkswagen!ReadsPq, Volkswagen!ParsedPt, Volkswagen!ParsedCam,
         Volkswagen!ExtraSignals, Volkswagen!When
<1> QED  BY <1>2, <1>3, <1>4

LEMMA FordVariants ==
    ASSUME CP \in Ford!Params
    PROVE  /\ Is("ford")
           /\ CP.openpilotLongitudinalControl => Ford!PandaLong
           /\ CP.pcmCruise
           /\ Ford!Reads \subseteq Ford!Parsed
<1>1. PICK car, fw, bsm, long : CP = Ford!GetParams(car, fw, bsm, long)
  BY DEF Ford!Params
<1>2. Is("ford") /\ CP.pcmCruise
  BY <1>1 DEF Ford!GetParams, Is
<1>3. CP.openpilotLongitudinalControl => Ford!PandaLong
  BY <1>1 DEF Ford!GetParams, Ford!PandaLong, Ford!When
<1>4. Ford!Reads \subseteq Ford!Parsed
  BY DEF Ford!Reads, Ford!Parsed, Ford!When
<1> QED  BY <1>2, <1>3, <1>4

LEMMA SubaruVariants ==
    ASSUME CP \in Subaru!Params
    PROVE  /\ Is("subaru")
           /\ CP.openpilotLongitudinalControl => Subaru!PandaLong
           /\ CP.pcmCruise
           /\ Subaru!Reads \subseteq Subaru!Parsed
<1>1. PICK car \in Subaru!Cars, info \in BOOLEAN, bsm \in BOOLEAN, long \in BOOLEAN :
          CP = Subaru!GetParams(car, info, bsm, long)
  BY DEF Subaru!Params
<1>2. Is("subaru") /\ CP.pcmCruise
  BY <1>1 DEF Subaru!GetParams, Is
<1>3. CP.openpilotLongitudinalControl => Subaru!PandaLong
  BY <1>1 DEF Subaru!GetParams, Subaru!PandaLong, Subaru!When
<1>4. Subaru!Reads \subseteq Subaru!Parsed
  <2>1. /\ ~(Subaru!Has("PREGLOBAL") /\ Subaru!Has("GLOBAL_GEN2"))
        /\ ~(Subaru!Has("PREGLOBAL") /\ Subaru!Has("HYBRID"))
        /\ ~(Subaru!Has("PREGLOBAL") /\ Subaru!Has("SEND_INFOTAINMENT"))
        /\ ~(Subaru!Has("HYBRID") /\ Subaru!Has("GLOBAL_GEN2"))
    BY <1>1 DEF Subaru!GetParams, Subaru!Cars, Subaru!Has, Subaru!When
  <2> QED  BY <2>1 DEF Subaru!Reads, Subaru!Parsed, Subaru!When, Subaru!BodyMessages, Subaru!EyeSightMessages
<1> QED  BY <1>2, <1>3, <1>4

LEMMA ChryslerVariants ==
    ASSUME CP \in Chrysler!Params
    PROVE  /\ Is("chrysler")
           /\ CP.openpilotLongitudinalControl => Chrysler!PandaLong
           /\ CP.pcmCruise
           /\ Chrysler!Reads \subseteq Chrysler!Parsed
<1>1. PICK ram, eps, bsm : CP = Chrysler!GetParams(ram, eps, bsm)
  BY DEF Chrysler!Params
<1>2. Is("chrysler") /\ CP.pcmCruise /\ ~CP.openpilotLongitudinalControl
  BY <1>1 DEF Chrysler!GetParams, Is
<1>4. Chrysler!Reads \subseteq Chrysler!Parsed
  BY DEF Chrysler!Reads, Chrysler!Parsed, Chrysler!When
<1> QED  BY <1>2, <1>4

LEMMA MazdaVariants ==
    ASSUME CP \in Mazda!Params
    PROVE  /\ Is("mazda")
           /\ CP.openpilotLongitudinalControl => Mazda!PandaLong
           /\ CP.pcmCruise
           /\ Mazda!Reads \subseteq Mazda!Parsed
BY DEF Mazda!Params, Mazda!GetParams, Is, Mazda!Reads, Mazda!Parsed

LEMMA NissanVariants ==
    ASSUME CP \in Nissan!Params
    PROVE  /\ Is("nissan")
           /\ CP.openpilotLongitudinalControl => Nissan!PandaLong
           /\ CP.pcmCruise
           /\ Nissan!Reads \subseteq Nissan!Parsed
<1>1. PICK car : CP = Nissan!GetParams(car)
  BY DEF Nissan!Params
<1>2. Is("nissan") /\ CP.pcmCruise /\ ~CP.openpilotLongitudinalControl
  BY <1>1 DEF Nissan!GetParams, Is
<1>4. Nissan!Reads \subseteq Nissan!Parsed
  BY DEF Nissan!Reads, Nissan!Parsed, Nissan!When, Nissan!Leaf, Nissan!Altima
<1> QED  BY <1>2, <1>4

LEMMA TeslaVariants ==
    ASSUME CP \in Tesla!Params
    PROVE  /\ Is("tesla")
           /\ CP.openpilotLongitudinalControl => Tesla!PandaLong
           /\ CP.pcmCruise
           /\ Tesla!Reads \subseteq Tesla!Parsed
<1>1. PICK raven \in BOOLEAN, long \in BOOLEAN : CP = Tesla!GetParams(raven, long)
  BY DEF Tesla!Params
<1>2. Is("tesla") /\ CP.pcmCruise
  BY <1>1 DEF Tesla!GetParams, Is
<1>3. CP.openpilotLongitudinalControl => Tesla!PandaLong
  BY <1>1 DEF Tesla!GetParams, Tesla!PandaLong, Tesla!When
<1>4. Tesla!Reads \subseteq Tesla!Parsed
  BY DEF Tesla!Reads, Tesla!Parsed, Tesla!When
<1> QED  BY <1>2, <1>3, <1>4

LEMMA BodyVariants ==
    ASSUME CP \in Body!Params
    PROVE  /\ Is("body")
           /\ CP.openpilotLongitudinalControl => Body!PandaLong
           /\ CP.pcmCruise
           /\ Body!Reads \subseteq Body!Parsed
BY DEF Body!Params, Is, Body!Reads, Body!Parsed, Body!PandaLong

\* What the messages of one Apply are to be like.
-----------------------------------------------------------------------------
(* The messages of the controllers.                                        *)

\* No message asks for what is not wanted of it, or is the panda's to block.
Proper(messages, cc) ==
    \A m \in messages :
        /\ m.kind = "steer" /\ ~cc.latActive /\ ~Is("honda") => m.val = 0 /\ (m.act = FALSE \/ Is("chrysler"))
        /\ m.kind = "long" =>
             CP.openpilotLongitudinalControl /\ (cc.longActive \/ m.val = 0 \/ (PassesOn /\ cc.accel # 0))
        /\ m.kind = "button" => CP.pcmCruise
        /\ m.kind = "motor" /\ ~cc.enabled => m.val = 0

LEMMA GmSends ==
    ASSUME NEW cc, Gm!Apply(cc), CP.pcmCruise = ~CP.openpilotLongitudinalControl
    PROVE  CC' = cc /\ CP' = CP /\ Proper(sent', cc)
<1>1. \A lka : Proper({Gm!create_steering_control(cc, lka)}, cc)
  BY DEF Gm!create_steering_control, Gm!Steer, Gm!Message, Gm!Amount, Proper
<1>2. CP.openpilotLongitudinalControl => Proper(Gm!LongCommands(cc), cc)
  BY DEF Gm!LongCommands, Gm!create_gas_regen_command, Gm!create_friction_brake_command, Gm!Long,
         Gm!create_acc_dashboard_command, Gm!Ui, Gm!Message, Gm!Amount, Gm!When, Proper
<1>3. Proper(Gm!RadarFeed \cup Gm!KeepAlive, cc)
  BY DEF Gm!RadarFeed, Gm!KeepAlive, Gm!Ui, Gm!Message, Gm!When, Proper
<1>4. CP.pcmCruise => Proper({Gm!create_buttons}, cc)
  BY DEF Gm!create_buttons, Gm!Button, Gm!Message, Proper
<1>5. Proper({Gm!create_pscm_status}, cc)
  BY DEF Gm!create_pscm_status, Gm!Ui, Gm!Message, Proper
<1>6. PICK spaced :
        LET steers == ctl.sinceSteer >= Gm!SteerStep(cc) /\ spaced
            lka == IF steers /\ ~cs.seen THEN (cs.pt + 1) % 4 ELSE Gm!LkaCounter
            count == IF cc.cancel THEN Gm!UpTo(ctl.cancelCounter, Gm!CAMERA_CANCEL_DELAY_FRAMES + 1) ELSE 0
            long == CP.openpilotLongitudinalControl
            cancels == ~long /\ Gm!CancelDue(count)
        IN /\ CC' = cc /\ CP' = CP
           /\ sent' = Gm!When(steers, {Gm!create_steering_control(cc, lka)})
                      \cup Gm!When(long, Gm!LongCommands(cc) \cup Gm!RadarFeed \cup Gm!KeepAlive)
                      \cup Gm!When(cancels, {Gm!create_buttons})
                      \cup Gm!When(CP.fwdCamera /\ Gm!Every(Slow), {Gm!create_pscm_status})
  BY DEF Gm!Apply, Gm!AppliedWith
<1> QED
  BY <1>1, <1>2, <1>3, <1>4, <1>5, <1>6 DEF Gm!When, Proper

LEMMA HondaSends ==
    ASSUME NEW cc, Honda!Apply(cc), Is("honda")
    PROVE  CC' = cc /\ CP' = CP /\ Proper(sent', cc)
BY DEF Honda!Apply, Honda!Applied, Honda!AppliedWith, Honda!Servo, Honda!create_steer_command, Honda!Steer,
       Honda!Message, Honda!NoCtr, Honda!mode, Honda!Amount, Proper

LEMMA ToyotaSends ==
    ASSUME NEW cc, Toyota!Apply(cc), CP.pcmCruise, Is("toyota")
    PROVE  CC' = cc /\ CP' = CP /\ Proper(sent', cc)
<1>1. Proper({Toyota!Lka(cc)}, cc)
  <2>1. Toyota!Lka(cc).kind = "steer" /\ (~cc.latActive => Toyota!Lka(cc).val = 0 /\ Toyota!Lka(cc).act = FALSE)
    BY DEF Toyota!Lka, Toyota!create_steer_command, Toyota!LatActive, Toyota!NotCut, Toyota!Steer, Toyota!Message,
         Toyota!Amount
  <2> QED  BY <2>1 DEF Proper
<1>2. Proper(Toyota!Lta(cc), cc)
  <2> DEFINE command == Toyota!create_lta_steer_command(Toyota!LatActive(cc) /\ CP.car.ANGLE_CONTROL)
  <2>1. command.kind = "steer" /\ (~cc.latActive => command.val = 0 /\ command.act = FALSE)
    BY DEF Toyota!create_lta_steer_command, Toyota!LatActive, Toyota!Steer, Toyota!Message, Toyota!Amount
  <2> QED  BY <2>1 DEF Toyota!Lta, Toyota!When, Proper
<1>3. Proper(Toyota!AccelCommand(cc), cc)
  BY DEF Toyota!AccelCommand, Toyota!create_acc_cancel_command, Toyota!create_accel_command, Toyota!Button,
         Toyota!Message, Toyota!Accel, Toyota!Amount, PassesOn, Proper
<1>4. Proper(Toyota!Hud(cc), cc)
  BY DEF Toyota!Hud, Toyota!create_ui_command, Toyota!create_fcw_command, Toyota!Ui, Toyota!Message, Toyota!When, Proper
<1>5. Proper(Toyota!Static, cc)
  BY DEF Toyota!Static, Toyota!Ui, Toyota!Message, Toyota!When, Proper
<1> QED
  BY <1>1, <1>2, <1>3, <1>4, <1>5 DEF Toyota!Apply, Toyota!AppliedWith, Proper

LEMMA HyundaiSends ==
    ASSUME NEW cc \in Controls, Hyundai!Apply(cc), CP.pcmCruise = ~CP.openpilotLongitudinalControl,
           Is("hyundai")
    PROVE  CC' = cc /\ CP' = CP /\ Proper(sent', cc)
<1>1. \A name, ctr : Proper({Hyundai!Lkas(cc, name, ctr)}, cc)
  <2> TAKE name, ctr
  <2> DEFINE command == Hyundai!Lkas(cc, name, ctr)
  <2>1. command.kind = "steer" /\ (~cc.latActive => command.val = 0 /\ command.act = FALSE)
    BY DEF Hyundai!Lkas, Hyundai!SteerReq, Hyundai!NotCut, Hyundai!Steer, Hyundai!Message, Hyundai!Amount
  <2> QED  BY <2>1 DEF Proper
<1>2. \A name : Proper({Hyundai!Ui(name)}, cc)
  BY DEF Hyundai!Ui, Hyundai!Message, Proper
<1>3. CP.openpilotLongitudinalControl => Proper({Hyundai!AccControl(cc)}, cc)
  BY ControlsAssumption DEF Hyundai!AccControl, Hyundai!Long, Hyundai!Message, Hyundai!Amount, Proper
<1>3a. CP.openpilotLongitudinalControl /\ "CANFD" \notin CP.flags => Proper(Hyundai!AccCommands(cc), cc)
  BY DEF Hyundai!AccCommands, Hyundai!Long, Hyundai!Message, Hyundai!Accel, Hyundai!Amount, Hyundai!When, PassesOn,
         Proper
<1>4. Proper(Hyundai!CanFdMessages(cc), cc)
  BY <1>1, <1>2, <1>3 DEF Hyundai!CanFdMessages, Hyundai!SteeringMessages, Hyundai!create_suppress_lfa,
     Hyundai!create_lfahda_cluster, Hyundai!AdrvMessages, Hyundai!When, Hyundai!long, Proper
<1>5. "CANFD" \notin CP.flags => Proper(Hyundai!CanMessages(cc), cc)
  BY <1>1, <1>2, <1>3a DEF Hyundai!CanMessages, Hyundai!create_lkas11, Hyundai!create_lfahda_mfc, Hyundai!AccOptions,
     Hyundai!When, Hyundai!long, Proper
<1>6. Proper(Hyundai!TesterPresent, cc)
  BY <1>2 DEF Hyundai!TesterPresent, Hyundai!When, Proper
<1>7. \A m \in Hyundai!CanButtons(cc) \cup Hyundai!CanFdButtons(cc) : m.kind = "button"
  BY DEF Hyundai!CanButtons, Hyundai!CanFdButtons, Hyundai!create_clu11, Hyundai!create_buttons,
         Hyundai!create_acc_cancel, Hyundai!Button, Hyundai!Message, Hyundai!When
<1>8. Proper(Hyundai!ButtonMessages(cc), cc)
  BY <1>7 DEF Hyundai!ButtonMessages, Hyundai!long, Proper
<1> QED
  BY <1>4, <1>5, <1>6, <1>8 DEF Hyundai!Apply, Hyundai!Applied, Hyundai!AppliedWith, Hyundai!Has, Proper

LEMMA VolkswagenSends ==
    ASSUME NEW cc, Volkswagen!Apply(cc)
    PROVE  CC' = cc /\ CP' = CP /\ Proper(sent', cc)
<1>1. PICK asked : 
        LET steered == IF Volkswagen!Every(Volkswagen!STEER_STEP) THEN Volkswagen!Steered(cc, asked) ELSE ctl
        IN /\ CC' = cc /\ CP' = CP
           /\ sent' = Volkswagen!When(Volkswagen!Every(Volkswagen!STEER_STEP), Volkswagen!SteerMessages(steered.torque))
                        \cup Volkswagen!When(Volkswagen!long /\ Volkswagen!Every(Volkswagen!ACC_CONTROL_STEP), Volkswagen!AccMessages(cc))
                        \cup Volkswagen!HudMessages \cup Volkswagen!ButtonMessages(cc)
  BY DEF Volkswagen!Apply, Volkswagen!Applied, Volkswagen!AppliedWith
<1> DEFINE torque == Volkswagen!Steered(cc, asked).torque
<1>2. ~cc.latActive => torque = 0
  BY DEF Volkswagen!Steered, Volkswagen!Torque
<1>3. Proper(Volkswagen!SteerMessages(torque), cc)
  <2> HIDE DEF torque
  <2>a. Volkswagen!pq_create_steering_control(torque).kind = "steer" /\ Volkswagen!mqb_create_steering_control(torque).kind = "steer"
    BY DEF Volkswagen!pq_create_steering_control, Volkswagen!mqb_create_steering_control, Volkswagen!Steer, Volkswagen!Message
  <2>1. ~cc.latActive =>
          /\ Volkswagen!pq_create_steering_control(torque).val = 0 /\ Volkswagen!pq_create_steering_control(torque).act = FALSE
          /\ Volkswagen!mqb_create_steering_control(torque).val = 0 /\ Volkswagen!mqb_create_steering_control(torque).act = FALSE
    BY <1>2 DEF Volkswagen!pq_create_steering_control, Volkswagen!mqb_create_steering_control, Volkswagen!Steer,
       Volkswagen!Message
  <2>2. Volkswagen!create_eps_update.kind = "ui"
    BY DEF Volkswagen!create_eps_update, Volkswagen!Ui, Volkswagen!Message
  <2> QED  BY <2>a, <2>1, <2>2 DEF Volkswagen!SteerMessages, Volkswagen!When, Proper
<1>4. Volkswagen!long => Proper(Volkswagen!AccMessages(cc), cc)
  BY DEF Volkswagen!AccMessages, Volkswagen!pq_create_acc_accel_control, Volkswagen!mqb_create_acc_accel_control,
     Volkswagen!Long, Volkswagen!Message, Volkswagen!Amount, Volkswagen!long, Proper
<1>5. Proper(Volkswagen!HudMessages, cc)
  BY DEF Volkswagen!HudMessages, Volkswagen!pq_create_lka_hud_control, Volkswagen!mqb_create_lka_hud_control,
     Volkswagen!pq_create_acc_hud_control, Volkswagen!mqb_create_acc_hud_control, Volkswagen!Ui, Volkswagen!Message,
     Volkswagen!When, Proper
<1>6. Proper(Volkswagen!ButtonMessages(cc), cc)
  BY DEF Volkswagen!ButtonMessages, Volkswagen!pq_create_acc_buttons_control, Volkswagen!mqb_create_acc_buttons_control,
     Volkswagen!GraSendReady, Volkswagen!Button, Volkswagen!Message, Volkswagen!When, Proper
<1> QED
  BY <1>1, <1>3, <1>4, <1>5, <1>6 DEF Volkswagen!When, Proper

LEMMA FordSends ==
    ASSUME NEW cc, Ford!Apply(cc), CP.pcmCruise, Is("ford")
    PROVE  CC' = cc /\ CP' = CP /\ Proper(sent', cc)
<1>1. Proper(Ford!Presses(cc), cc)
  BY DEF Ford!Presses, Ford!create_button_msg, Ford!Button, Ford!Message, Ford!When, Proper
<1>2. Proper(Ford!Lateral(cc), cc)
  BY DEF Ford!Lateral, Ford!create_lat_ctl_msg, Ford!create_lat_ctl2_msg, Ford!Steer, Ford!Message, Ford!Amount, Proper
<1>3. CP.openpilotLongitudinalControl => Proper({Ford!create_acc_msg(cc)}, cc)
  BY DEF Ford!create_acc_msg, Ford!Long, Ford!Message, Ford!Accel, Ford!Amount, PassesOn, Proper
<1>4. Proper({Ford!create_lka_msg, Ford!create_lkas_ui_msg(cc), Ford!create_acc_ui_msg(cc)}, cc)
  BY DEF Ford!create_lka_msg, Ford!create_lkas_ui_msg, Ford!create_acc_ui_msg, Ford!Ui, Ford!Message, Proper
<1> QED
  BY <1>1, <1>2, <1>3, <1>4 DEF Ford!Apply, Ford!Applied, Ford!AppliedWith, Ford!When, Proper

LEMMA SubaruSends ==
    ASSUME NEW cc, Subaru!Apply(cc), CP.pcmCruise
    PROVE  CC' = cc /\ CP' = CP /\ Proper(sent', cc)
<1>1. Proper({Subaru!Steering(cc)}, cc)
  <2> DEFINE request == IF Subaru!RateLimited
                        THEN Subaru!NotCut(cs.fastSteer, cc.latActive, ctl.rate, Subaru!MAX_STEER_RATE_FRAMES)
                        ELSE cc.latActive
             global == Subaru!create_steering_control(Subaru!Amount(cc.latActive), request)
             preglobal == Subaru!create_preglobal_steering_control(
                            Subaru!Nth(Subaru!STEER_STEP), Subaru!Amount(cc.latActive), cc.latActive)
  <2>1. ~cc.latActive => Subaru!Amount(cc.latActive) = 0
    BY DEF Subaru!Amount
  <2>2. ~cc.latActive => request = FALSE
    BY DEF Subaru!NotCut
  <2>3. global.kind = "steer" /\ global.val = Subaru!Amount(cc.latActive) /\ global.act = request
    <3> HIDE DEF request
    <3> QED  BY DEF Subaru!create_steering_control, Subaru!Steer, Subaru!Message
  <2>4. preglobal.kind = "steer" /\ preglobal.val = Subaru!Amount(cc.latActive) /\ preglobal.act = cc.latActive
    BY DEF Subaru!create_preglobal_steering_control, Subaru!Steer, Subaru!Message
  <2>5. Subaru!Steering(cc) = IF Subaru!Has("PREGLOBAL") THEN preglobal ELSE global
    BY DEF Subaru!Steering
  <2> HIDE DEF request, global, preglobal
  <2> QED  BY <2>1, <2>2, <2>3, <2>4, <2>5 DEF Proper
<1>2. CP.openpilotLongitudinalControl => Proper({Subaru!create_es_status(cc), Subaru!create_es_brake(cc)}, cc)
  BY DEF Subaru!create_es_status, Subaru!create_es_brake, Subaru!Message, Subaru!Amount, Proper
<1>3. Proper({Subaru!create_es_distance(cc)}, cc)
  BY DEF Subaru!create_es_distance, Subaru!Button, Subaru!Message, Subaru!Amount, Subaru!long, Proper
<1>4. \A button : Proper({Subaru!create_preglobal_es_distance(button)}, cc)
  BY DEF Subaru!create_preglobal_es_distance, Subaru!Button, Subaru!Message, Proper
<1>5. Proper(Subaru!Hud(cc), cc)
  BY DEF Subaru!Hud, Subaru!create_es_dashstatus, Subaru!create_es_lkas_state, Subaru!create_es_infotainment,
         Subaru!Message, Subaru!When, Proper
<1>6. Proper(Subaru!EyeSightStandIn, cc)
  BY DEF Subaru!EyeSightStandIn, Subaru!create_es_highbeamassist, Subaru!create_es_static_1, Subaru!create_es_static_2,
         Subaru!Ui, Subaru!Message, Subaru!When, Proper
<1>7. Proper(Subaru!GlobalMessages(cc), cc)
  BY <1>2, <1>3, <1>5, <1>6 DEF Subaru!GlobalMessages, Subaru!long, Subaru!When, Proper
<1> QED
  BY <1>1, <1>4, <1>7 DEF Subaru!Apply, Subaru!Applied, Subaru!AppliedWith, Subaru!When, Proper

LEMMA ChryslerSends ==
    ASSUME NEW cc, Chrysler!Apply(cc), CP.pcmCruise, Is("chrysler")
    PROVE  CC' = cc /\ CP' = CP /\ Proper(sent', cc)
<1>1. Proper(Chrysler!Pressed(cc), cc)
  BY DEF Chrysler!Pressed, Chrysler!create_cruise_buttons, Chrysler!Button, Chrysler!Message, Chrysler!When, Proper
<1>2. Proper({Chrysler!create_lkas_hud(cc)}, cc)
  BY DEF Chrysler!create_lkas_hud, Chrysler!Message, Proper
<1>3. Proper({Chrysler!create_lkas_command(Chrysler!Amount(Chrysler!Steers(cc) /\ Chrysler!Bit), Chrysler!Bit)}, cc)
  BY DEF Chrysler!create_lkas_command, Chrysler!Steers, Chrysler!Steer, Chrysler!Message, Chrysler!Amount, Proper
<1> QED
  BY <1>1, <1>2, <1>3 DEF Chrysler!Apply, Chrysler!Applied, Chrysler!AppliedWith, Chrysler!When, Proper

LEMMA MazdaSends ==
    ASSUME NEW cc, Mazda!Apply(cc), CP.pcmCruise
    PROVE  CC' = cc /\ CP' = CP /\ Proper(sent', cc)
<1>1. Proper(Mazda!Pressed(cc), cc)
  BY DEF Mazda!Pressed, Mazda!create_button_cmd, Mazda!Button, Mazda!Message, Mazda!When, Proper
<1>2. Proper({Mazda!create_alert_command(cc)}, cc)
  BY DEF Mazda!create_alert_command, Mazda!Message, Proper
<1>3. Proper({Mazda!create_steering_control(Mazda!Amount(cc.latActive), ctl.frame)}, cc)
  <2> DEFINE command == Mazda!create_steering_control(Mazda!Amount(cc.latActive), ctl.frame)
  <2>1. command.kind = "steer" /\ (~cc.latActive => command.val = 0 /\ command.act = FALSE)
    BY DEF Mazda!create_steering_control, Mazda!Steer, Mazda!Message, Mazda!Amount
  <2> QED  BY <2>1 DEF Proper
<1> QED
  BY <1>1, <1>2, <1>3 DEF Mazda!Apply, Mazda!Applied, Mazda!AppliedWith, Mazda!When, Proper

LEMMA NissanSends ==
    ASSUME NEW cc, Nissan!Apply(cc), CP.pcmCruise
    PROVE  CC' = cc /\ CP' = CP /\ Proper(sent', cc)
<1>1. Proper(Nissan!Cancels(cc), cc)
  BY DEF Nissan!Cancels, Nissan!create_cancel_msg, Nissan!create_acc_cancel_cmd, Nissan!Button, Nissan!Ui,
         Nissan!Message, Nissan!When, Proper
<1>2. Proper({Nissan!create_steering_control(Nissan!Amount(cc.latActive), ctl.frame, cc.latActive)}, cc)
  BY DEF Nissan!create_steering_control, Nissan!Steer, Nissan!Message, Nissan!Amount, Proper
<1>3. Proper({Nissan!create_lkas_hud_msg(cc), Nissan!create_lkas_hud_info_msg(cc)}, cc)
  BY DEF Nissan!create_lkas_hud_msg, Nissan!create_lkas_hud_info_msg, Nissan!Message, Proper
<1> QED
  BY <1>1, <1>2, <1>3 DEF Nissan!Apply, Nissan!Applied, Nissan!AppliedWith, Nissan!When, Proper

LEMMA TeslaSends ==
    ASSUME NEW cc, Tesla!Apply(cc), CP.pcmCruise, Is("tesla")
    PROVE  CC' = cc /\ CP' = CP /\ Proper(sent', cc)
<1> DEFINE active == cc.latActive /\ ~Tesla!HandsOnFault
<1>1. Proper({Tesla!create_steering_control(Tesla!Amount(active), active, ctl.frame \div 2)}, cc)
  <2> DEFINE command == Tesla!create_steering_control(Tesla!Amount(active), active, ctl.frame \div 2)
  <2>1. command.kind = "steer" /\ (~cc.latActive => command.val = 0 /\ command.act = FALSE)
    BY DEF Tesla!create_steering_control, Tesla!Steer, Tesla!Message, Tesla!Amount
  <2> QED  BY <2>1 DEF Proper
<1>2. CP.openpilotLongitudinalControl => \A ctr : Proper({Tesla!create_longitudinal_commands(cc, ctr)}, cc)
  BY DEF Tesla!create_longitudinal_commands, Tesla!Message, Tesla!Accel, Tesla!Amount, PassesOn, Proper
<1>3. Proper({Tesla!create_action_request}, cc)
  BY DEF Tesla!create_action_request, Tesla!Button, Tesla!Message, Proper
<1> QED
  BY <1>1, <1>2, <1>3 DEF Tesla!Apply, Tesla!AppliedWith, Tesla!When, Proper

LEMMA BodySends ==
    ASSUME NEW cc, Body!Apply(cc)
    PROVE  CC' = cc /\ CP' = CP /\ Proper(sent', cc)
BY DEF Body!Apply, Body!Applied, Body!AppliedWith, Body!create_control, Body!Message, Proper

-----------------------------------------------------------------------------
(* The loop, whichever the port.                                           *)

AnyPort ==
    \/ CP \in Gm!Params
    \/ CP \in Honda!Params
    \/ CP \in Toyota!Params
    \/ CP \in Hyundai!Params
    \/ CP \in Volkswagen!Params
    \/ CP \in Ford!Params
    \/ CP \in Subaru!Params
    \/ CP \in Chrysler!Params
    \/ CP \in Mazda!Params
    \/ CP \in Nissan!Params
    \/ CP \in Tesla!Params
    \/ CP \in Body!Params

\* The name of a port and its parameters tell the same of it.
LEMMA WhichPort ==
    ASSUME AnyPort
    PROVE
        /\ Is("gm") <=> CP \in Gm!Params
        /\ Is("honda") <=> CP \in Honda!Params
        /\ Is("toyota") <=> CP \in Toyota!Params
        /\ Is("hyundai") <=> CP \in Hyundai!Params
        /\ Is("volkswagen") <=> CP \in Volkswagen!Params
        /\ Is("ford") <=> CP \in Ford!Params
        /\ Is("subaru") <=> CP \in Subaru!Params
        /\ Is("chrysler") <=> CP \in Chrysler!Params
        /\ Is("mazda") <=> CP \in Mazda!Params
        /\ Is("nissan") <=> CP \in Nissan!Params
        /\ Is("tesla") <=> CP \in Tesla!Params
        /\ Is("body") <=> CP \in Body!Params
BY GmVariants, HondaVariants, ToyotaVariants, HyundaiVariants, VolkswagenVariants, FordVariants, SubaruVariants,
   ChryslerVariants, MazdaVariants, NissanVariants, TeslaVariants, BodyVariants DEF AnyPort, Is

\* What every handler leaves alone or clears.
LEMMA DecodeClears ==
    ASSUME DecodePort
    PROVE  /\ pc = "decode" /\ pc' = "apply" /\ CC' = NoControl /\ sent' = {} /\ CP' = CP /\ ctl' = ctl
<1>1. CASE Gm!Decode
  BY <1>1 DEF Gm!Decode, Gm!Decoded, Gm!NoControl, NoControl
<1>2. CASE Honda!Decode
  BY <1>2 DEF Honda!Decode, Honda!Decoded, Honda!NoControl, NoControl
<1>3. CASE Toyota!Decode
  BY <1>3 DEF Toyota!Decode, Toyota!Decoded, Toyota!NoControl, NoControl
<1>4. CASE Hyundai!Decode
  BY <1>4 DEF Hyundai!Decode, Hyundai!Decoded, Hyundai!NoControl, NoControl
<1>5. CASE Volkswagen!Decode
  BY <1>5 DEF Volkswagen!Decode, Volkswagen!Decoded, Volkswagen!NoControl, NoControl
<1>6. CASE Ford!Decode
  BY <1>6 DEF Ford!Decode, Ford!Decoded, Ford!NoControl, NoControl
<1>7. CASE Subaru!Decode
  BY <1>7 DEF Subaru!Decode, Subaru!Decoded, Subaru!NoControl, NoControl
<1>8. CASE Chrysler!Decode
  BY <1>8 DEF Chrysler!Decode, Chrysler!Decoded, Chrysler!NoControl, NoControl
<1>9. CASE Mazda!Decode
  BY <1>9 DEF Mazda!Decode, Mazda!Decoded, Mazda!NoControl, NoControl
<1>10. CASE Nissan!Decode
  BY <1>10 DEF Nissan!Decode, Nissan!Decoded, Nissan!NoControl, NoControl
<1>11. CASE Tesla!Decode
  BY <1>11 DEF Tesla!Decode, Tesla!Decoded, Tesla!NoControl, NoControl
<1>12. CASE Body!Decode
  BY <1>12 DEF Body!Decode, Body!Decoded, Body!NoControl, NoControl
<1> QED  BY <1>1, <1>2, <1>3, <1>4, <1>5, <1>6, <1>7, <1>8, <1>9, <1>10, <1>11, <1>12 DEF DecodePort

\* What every controller sends is proper.
LEMMA ApplySends ==
    ASSUME NEW cc \in Controls, AnyPort, ApplyPort(cc)
    PROVE  pc = "apply" /\ pc' = "decode" /\ CC' = cc /\ CP' = CP /\ Proper(sent', cc)
<1>1. CASE Is("gm") /\ Gm!Apply(cc)
  <2>1. pc = "apply" /\ pc' = "decode"
    BY <1>1 DEF Gm!Apply, Gm!AppliedWith
  <2> QED  BY <1>1, <2>1, GmSends, GmVariants, WhichPort
<1>2. CASE Is("honda") /\ Honda!Apply(cc)
  <2>1. pc = "apply" /\ pc' = "decode"
    BY <1>2 DEF Honda!Apply, Honda!Applied, Honda!AppliedWith
  <2> QED  BY <1>2, <2>1, HondaSends, WhichPort
<1>3. CASE Is("toyota") /\ Toyota!Apply(cc)
  <2>1. pc = "apply" /\ pc' = "decode"
    BY <1>3 DEF Toyota!Apply, Toyota!AppliedWith
  <2> QED  BY <1>3, <2>1, ToyotaSends, ToyotaVariants, WhichPort
<1>4. CASE Is("hyundai") /\ Hyundai!Apply(cc)
  <2>1. pc = "apply" /\ pc' = "decode"
    BY <1>4 DEF Hyundai!Apply, Hyundai!Applied, Hyundai!AppliedWith
  <2> QED  BY <1>4, <2>1, HyundaiSends, HyundaiVariants, WhichPort
<1>5. CASE Is("volkswagen") /\ Volkswagen!Apply(cc)
  <2>1. pc = "apply" /\ pc' = "decode"
    BY <1>5 DEF Volkswagen!Apply, Volkswagen!Applied, Volkswagen!AppliedWith
  <2> QED  BY <1>5, <2>1, VolkswagenSends, WhichPort
<1>6. CASE Is("ford") /\ Ford!Apply(cc)
  <2>1. pc = "apply" /\ pc' = "decode"
    BY <1>6 DEF Ford!Apply, Ford!Applied, Ford!AppliedWith
  <2> QED  BY <1>6, <2>1, FordSends, FordVariants, WhichPort
<1>7. CASE Is("subaru") /\ Subaru!Apply(cc)
  <2>1. pc = "apply" /\ pc' = "decode"
    BY <1>7 DEF Subaru!Apply, Subaru!Applied, Subaru!AppliedWith
  <2> QED  BY <1>7, <2>1, SubaruSends, SubaruVariants, WhichPort
<1>8. CASE Is("chrysler") /\ Chrysler!Apply(cc)
  <2>1. pc = "apply" /\ pc' = "decode"
    BY <1>8 DEF Chrysler!Apply, Chrysler!Applied, Chrysler!AppliedWith
  <2> QED  BY <1>8, <2>1, ChryslerSends, ChryslerVariants, WhichPort
<1>9. CASE Is("mazda") /\ Mazda!Apply(cc)
  <2>1. pc = "apply" /\ pc' = "decode"
    BY <1>9 DEF Mazda!Apply, Mazda!Applied, Mazda!AppliedWith
  <2> QED  BY <1>9, <2>1, MazdaSends, MazdaVariants, WhichPort
<1>10. CASE Is("nissan") /\ Nissan!Apply(cc)
  <2>1. pc = "apply" /\ pc' = "decode"
    BY <1>10 DEF Nissan!Apply, Nissan!Applied, Nissan!AppliedWith
  <2> QED  BY <1>10, <2>1, NissanSends, NissanVariants, WhichPort
<1>11. CASE Is("tesla") /\ Tesla!Apply(cc)
  <2>1. pc = "apply" /\ pc' = "decode"
    BY <1>11 DEF Tesla!Apply, Tesla!AppliedWith
  <2> QED  BY <1>11, <2>1, TeslaSends, TeslaVariants, WhichPort
<1>12. CASE Is("body") /\ Body!Apply(cc)
  <2>1. pc = "apply" /\ pc' = "decode"
    BY <1>12 DEF Body!Apply, Body!Applied, Body!AppliedWith
  <2> QED  BY <1>12, <2>1, BodySends, WhichPort
<1> QED  BY <1>1, <1>2, <1>3, <1>4, <1>5, <1>6, <1>7, <1>8, <1>9, <1>10, <1>11, <1>12 DEF ApplyPort

\* All three about the messages follow from this: the port is one of the twelve
\* with parameters of its own, and what it last sent is proper.
SendsInv ==
    /\ AnyPort
    /\ pc = "apply" => sent = {}
    /\ Proper(sent, CC)

LEMMA SendsInit == Init => SendsInv
BY DEF Init, InitOf, SendsInv, AnyPort, Proper

LEMMA SendsNext == SendsInv /\ [Next]_vars => SendsInv'
<1> SUFFICES ASSUME SendsInv, [Next]_vars  PROVE SendsInv'
  OBVIOUS
<1>1. CASE DecodePort
  BY <1>1, DecodeClears DEF SendsInv, AnyPort, Proper
<1>2. ASSUME NEW cc \in Controls, ApplyPort(cc)  PROVE SendsInv'
  <2>1. pc' = "decode" /\ CC' = cc /\ CP' = CP /\ Proper(sent', cc)
    BY <1>2, ApplySends DEF SendsInv
  <2>2. AnyPort'
    BY <2>1 DEF SendsInv, AnyPort
  <2>3. Proper(sent, CC)'
    BY <2>1 DEF Proper, PassesOn, Is
  <2> QED  BY <2>1, <2>2, <2>3 DEF SendsInv
<1>3. CASE Skip
  BY <1>3 DEF Skip, SendsInv, AnyPort, Proper, PassesOn, Is
<1>4. CASE UNCHANGED vars
  BY <1>4 DEF vars, port, SendsInv, AnyPort, Proper, PassesOn, Is
<1> QED  BY <1>1, <1>2, <1>3, <1>4 DEF Next

\* The port never changes, and whatever is on the bus is proper, after every
\* handler and every controller.
THEOREM SendsAlways == Spec => []SendsInv
BY SendsInit, SendsNext, PTL DEF Spec

\* No controller steers, accelerates or brakes while the control concerned is
\* off, on any variant of any car, whatever its limiters and buffers remember,
\* but for the acceleration that the carControl itself asks for and toyota,
\* tesla, ford and hyundai pass on.
THEOREM NothingUnasked == Spec => []ActuatorsRest
<1>1. SendsInv => ActuatorsRest
  BY DEF SendsInv, Proper, ActuatorsRest
<1> QED  BY <1>1, SendsAlways, PTL

\* get_params sets the safety parameter that longitudinal control needs.
LEMMA LongIsAllowed ==
    ASSUME AnyPort
    PROVE  CP.openpilotLongitudinalControl => PandaLong
<1>1. CASE CP \in Gm!Params
  BY <1>1, GmVariants DEF PandaLong, Is
<1>2. CASE CP \in Honda!Params
  BY <1>2, HondaVariants DEF PandaLong, Is
<1>3. CASE CP \in Toyota!Params
  BY <1>3, ToyotaVariants DEF PandaLong, Is
<1>4. CASE CP \in Hyundai!Params
  BY <1>4, HyundaiVariants DEF PandaLong, Is
<1>5. CASE CP \in Volkswagen!Params
  BY <1>5, VolkswagenVariants DEF PandaLong, Is
<1>6. CASE CP \in Ford!Params
  BY <1>6, FordVariants DEF PandaLong, Is
<1>7. CASE CP \in Subaru!Params
  BY <1>7, SubaruVariants DEF PandaLong, Is
<1>8. CASE CP \in Chrysler!Params
  BY <1>8, ChryslerVariants DEF PandaLong, Is
<1>9. CASE CP \in Mazda!Params
  BY <1>9, MazdaVariants DEF PandaLong, Is
<1>10. CASE CP \in Nissan!Params
  BY <1>10, NissanVariants DEF PandaLong, Is
<1>11. CASE CP \in Tesla!Params
  BY <1>11, TeslaVariants DEF PandaLong, Is
<1>12. CASE CP \in Body!Params
  BY <1>12, BodyVariants DEF PandaLong, Is
<1> QED  BY <1>1, <1>2, <1>3, <1>4, <1>5, <1>6, <1>7, <1>8, <1>9, <1>10, <1>11, <1>12 DEF AnyPort

\* Acceleration and braking are commanded, and buttons pressed, only where the
\* safety parameter of get_params lets the panda pass them on.
THEOREM PandaLetsThrough == Spec => []PandaAgrees
<1>1. SendsInv => PandaAgrees
  BY LongIsAllowed DEF SendsInv, Proper, PandaAgrees
<1> QED  BY <1>1, SendsAlways, PTL

\* No CarState looks into a message that its parser was not told of, on any
\* variant of any car.
THEOREM ParserIsTold == Spec => []ReadsAreParsed
<1>0. ASSUME AnyPort  PROVE ReadsAreParsed
  <2>1. CASE CP \in Gm!Params
    BY <2>1, GmVariants DEF ReadsAreParsed, Reads, Parsed, Is
  <2>2. CASE CP \in Honda!Params
    BY <2>2, HondaVariants DEF ReadsAreParsed, Reads, Parsed, Is
  <2>3. CASE CP \in Toyota!Params
    BY <2>3, ToyotaVariants DEF ReadsAreParsed, Reads, Parsed, Is
  <2>4. CASE CP \in Hyundai!Params
    BY <2>4, HyundaiVariants DEF ReadsAreParsed, Reads, Parsed, Is
  <2>5. CASE CP \in Volkswagen!Params
    BY <2>5, VolkswagenVariants DEF ReadsAreParsed, Reads, Parsed, Is
  <2>6. CASE CP \in Ford!Params
    BY <2>6, FordVariants DEF ReadsAreParsed, Reads, Parsed, Is
  <2>7. CASE CP \in Subaru!Params
    BY <2>7, SubaruVariants DEF ReadsAreParsed, Reads, Parsed, Is
  <2>8. CASE CP \in Chrysler!Params
    BY <2>8, ChryslerVariants DEF ReadsAreParsed, Reads, Parsed, Is
  <2>9. CASE CP \in Mazda!Params
    BY <2>9, MazdaVariants DEF ReadsAreParsed, Reads, Parsed, Is
  <2>10. CASE CP \in Nissan!Params
    BY <2>10, NissanVariants DEF ReadsAreParsed, Reads, Parsed, Is
  <2>11. CASE CP \in Tesla!Params
    BY <2>11, TeslaVariants DEF ReadsAreParsed, Reads, Parsed, Is
  <2>12. CASE CP \in Body!Params
    BY <2>12, BodyVariants DEF ReadsAreParsed, Reads, Parsed, Is
  <2> QED  BY <1>0, <2>1, <2>2, <2>3, <2>4, <2>5, <2>6, <2>7, <2>8, <2>9, <2>10, <2>11, <2>12 DEF AnyPort
<1>1. SendsInv => ReadsAreParsed
  BY <1>0 DEF SendsInv
<1> QED  BY <1>1, SendsAlways, PTL

-----------------------------------------------------------------------------
(* volkswagen's torque.                                                    *)

\* Two is counted for a message that repeats the torque, so that the messages in
\* a row with one torque are bounded by the count the controller keeps.
RackInv ==
    CP \in Volkswagen!Params =>
        /\ ctl \in [frame : Int, torque : {-1, 0, 1}, timer : Int, same : Nat, stock : Int]
        /\ cs.stock \in {0, 1}
        /\ ctl.same <= Slow
        /\ stuck \in Nat
        /\ IF ctl.torque = 0 THEN stuck = 0 ELSE 2 * (stuck - 1) <= ctl.same

LEMMA RackInit == Init => RackInv
<1> SUFFICES ASSUME Init, CP \in Volkswagen!Params  PROVE RackInv
  BY DEF RackInv
<1>1. cs = Volkswagen!CsInit /\ ctl = Volkswagen!CtlInit
  BY GmVariants, HondaVariants, ToyotaVariants, HyundaiVariants, VolkswagenVariants, FordVariants, SubaruVariants,
     ChryslerVariants, MazdaVariants, NissanVariants, TeslaVariants, BodyVariants DEF Init, InitOf, Is
<1>2. stuck = 0
  BY DEF Init
<1> QED
  BY <1>1, <1>2, SlowAssumption DEF RackInv, Volkswagen!CsInit, Volkswagen!CtlInit

\* A steering message of volkswagen's carries the torque that is remembered.
LEMMA TorqueOnTheBus ==
    ASSUME NEW cc, Volkswagen!Apply(cc), CP \in Volkswagen!Params, RackInv
    PROVE  /\ cs' = cs
           /\ ctl' \in [frame : Int, torque : {-1, 0, 1}, timer : Int, same : Nat, stock : Int]
           /\ ctl'.stock = cs.stock
           /\ ctl'.same <= Slow
           /\ \/ /\ Torques(sent') = {}
                 /\ ctl'.torque = ctl.torque /\ ctl'.same = ctl.same
              \/ /\ Torques(sent') = {ctl'.torque}
                 /\ ctl'.torque = ctl.torque /\ ctl.torque # 0 => ctl'.same = ctl.same + 2
<1>1. PICK asked \in {-1, 0, 1} :
        LET steered == IF Volkswagen!Every(Volkswagen!STEER_STEP) THEN Volkswagen!Steered(cc, asked) ELSE ctl
        IN /\ cs' = cs
           /\ ctl' = [steered EXCEPT !.frame = (@ + 1) % (3 * Slow), !.stock = cs.stock]
           /\ sent' = Volkswagen!When(Volkswagen!Every(Volkswagen!STEER_STEP), Volkswagen!SteerMessages(steered.torque))
                        \cup Volkswagen!When(Volkswagen!long /\ Volkswagen!Every(Volkswagen!ACC_CONTROL_STEP), Volkswagen!AccMessages(cc))
                        \cup Volkswagen!HudMessages \cup Volkswagen!ButtonMessages(cc)
  BY DEF Volkswagen!Apply, Volkswagen!Applied, Volkswagen!AppliedWith
<1> DEFINE steered == Volkswagen!Steered(cc, asked)
<1>2. /\ ctl \in [frame : Int, torque : {-1, 0, 1}, timer : Int, same : Nat, stock : Int]
      /\ ctl.same <= Slow /\ cs.stock \in {0, 1} /\ Slow \in Nat \ {0}
  BY SlowAssumption DEF RackInv
<1>3. Volkswagen!Torque(cc, asked) \in {-1, 0, 1}
  BY <1>2 DEF Volkswagen!Torque, Volkswagen!Moved, Volkswagen!Stuck, Volkswagen!SameCount, Volkswagen!STEER_STEP,
     Volkswagen!STEER_TIME_STUCK_TORQUE
<1>4. \E torque \in {-1, 0, 1}, timer \in Int, same \in Nat :
         /\ torque = Volkswagen!Torque(cc, asked)
         /\ same = IF ~cc.latActive THEN ctl.same ELSE IF Volkswagen!Stuck(asked) THEN 0 ELSE Volkswagen!SameCount(asked)
         /\ steered = [ctl EXCEPT !.torque = torque, !.timer = timer, !.same = same]
  <2> DEFINE t == Volkswagen!Torque(cc, asked)
             u == IF t = 0 THEN 0
                  ELSE Volkswagen!UpTo(Volkswagen!UpTo(ctl.timer, Volkswagen!STEER_TIME_ALERT + 1), Volkswagen!STEER_TIME_ALERT + 1)
             v == IF ~cc.latActive THEN ctl.same ELSE IF Volkswagen!Stuck(asked) THEN 0 ELSE Volkswagen!SameCount(asked)
  <2>1. u \in Int
    BY <1>2, <1>3 DEF Volkswagen!UpTo, Volkswagen!STEER_TIME_ALERT
  <2>2. v \in Nat
    BY <1>2 DEF Volkswagen!SameCount, Volkswagen!STEER_STEP
  <2>3. steered = [ctl EXCEPT !.torque = t, !.timer = u, !.same = v]
    BY Zenon DEF Volkswagen!Steered
  <2> WITNESS t \in {-1, 0, 1}, u \in Int, v \in Nat
  <2> QED
    BY <2>3, Zenon
<1>5. PICK torque \in {-1, 0, 1}, timer \in Int, same \in Nat :
         /\ torque = Volkswagen!Torque(cc, asked)
         /\ same = IF ~cc.latActive THEN ctl.same ELSE IF Volkswagen!Stuck(asked) THEN 0 ELSE Volkswagen!SameCount(asked)
         /\ steered = [ctl EXCEPT !.torque = torque, !.timer = timer, !.same = same]
  BY <1>4, Zenon
<1>6. /\ same <= Slow
      /\ torque = ctl.torque /\ ctl.torque # 0 => same = ctl.same + 2
  BY <1>2, <1>5 DEF Volkswagen!Torque, Volkswagen!Stuck, Volkswagen!Moved, Volkswagen!SameCount, Volkswagen!STEER_STEP,
     Volkswagen!STEER_TIME_STUCK_TORQUE
<1>7. /\ steered \in [frame : Int, torque : {-1, 0, 1}, timer : Int, same : Nat, stock : Int]
      /\ steered.torque = torque /\ steered.same = same
  <2> DEFINE c1 == [ctl EXCEPT !.torque = torque]
             c2 == [c1 EXCEPT !.timer = timer]
  <2>1. steered = [c2 EXCEPT !.same = same]
    BY <1>5, Zenon
  <2>2. c1 \in [frame : Int, torque : {-1, 0, 1}, timer : Int, same : Nat, stock : Int] /\ c1.torque = torque
    BY <1>2
  <2> HIDE DEF c1
  <2>3. c2 \in [frame : Int, torque : {-1, 0, 1}, timer : Int, same : Nat, stock : Int] /\ c2.torque = torque
    BY <2>2
  <2> HIDE DEF c2, steered
  <2> QED  BY <2>1, <2>3
<1> DEFINE next == IF Volkswagen!Every(Volkswagen!STEER_STEP) THEN steered ELSE ctl
<1>8. /\ cs' = cs
      /\ ctl' = [next EXCEPT !.frame = (@ + 1) % (3 * Slow), !.stock = cs.stock]
      /\ sent' = Volkswagen!When(Volkswagen!Every(Volkswagen!STEER_STEP), Volkswagen!SteerMessages(next.torque))
                   \cup Volkswagen!When(Volkswagen!long /\ Volkswagen!Every(Volkswagen!ACC_CONTROL_STEP), Volkswagen!AccMessages(cc))
                   \cup Volkswagen!HudMessages \cup Volkswagen!ButtonMessages(cc)
  BY <1>1, Zenon
<1>9. /\ next \in [frame : Int, torque : {-1, 0, 1}, timer : Int, same : Nat, stock : Int]
      /\ next.same <= Slow
      /\ Volkswagen!Every(Volkswagen!STEER_STEP) /\ next.torque = ctl.torque /\ ctl.torque # 0 => next.same = ctl.same + 2
      /\ ~Volkswagen!Every(Volkswagen!STEER_STEP) => next = ctl
  <2> HIDE DEF steered
  <2> QED  BY <1>2, <1>6, <1>7
<1> HIDE DEF next
<1>10. /\ ctl' \in [frame : Int, torque : {-1, 0, 1}, timer : Int, same : Nat, stock : Int]
       /\ ctl'.torque = next.torque /\ ctl'.same = next.same /\ ctl'.stock = cs.stock
  <2> DEFINE frame == (next.frame + 1) % (3 * Slow)
             c1 == [next EXCEPT !.frame = frame]
  <2>1. ctl' = [c1 EXCEPT !.stock = cs.stock]
    BY <1>8, Zenon
  <2>2. frame \in Int
    BY <1>2, <1>9
  <2> HIDE DEF frame
  <2>3. /\ c1 \in [frame : Int, torque : {-1, 0, 1}, timer : Int, same : Nat, stock : Int]
        /\ c1.torque = next.torque /\ c1.same = next.same
    BY <1>9, <2>2
  <2> HIDE DEF c1
  <2> QED  BY <1>2, <2>1, <2>3
<1>11. Torques(sent') = IF Volkswagen!Every(Volkswagen!STEER_STEP) THEN {next.torque} ELSE {}
  <2>1. \A m \in Volkswagen!AccMessages(cc) : m.kind # "steer"
    BY DEF Volkswagen!AccMessages, Volkswagen!pq_create_acc_accel_control, Volkswagen!mqb_create_acc_accel_control,
       Volkswagen!Long, Volkswagen!Message
  <2>2. \A m \in Volkswagen!HudMessages : m.kind # "steer"
    BY DEF Volkswagen!HudMessages, Volkswagen!pq_create_lka_hud_control, Volkswagen!mqb_create_lka_hud_control,
       Volkswagen!pq_create_acc_hud_control, Volkswagen!mqb_create_acc_hud_control, Volkswagen!Ui, Volkswagen!Message,
       Volkswagen!When
  <2>3. \A m \in Volkswagen!ButtonMessages(cc) : m.kind # "steer"
    BY DEF Volkswagen!ButtonMessages, Volkswagen!pq_create_acc_buttons_control, Volkswagen!mqb_create_acc_buttons_control,
       Volkswagen!Button, Volkswagen!Message, Volkswagen!When
  <2> DEFINE messages == Volkswagen!SteerMessages(next.torque)
  <2>4. PICK m : /\ m \in messages /\ m.kind = "steer" /\ m.val = next.torque
                 /\ \A x \in messages : x = m \/ x.kind # "steer"
    <3> DEFINE pq == Volkswagen!pq_create_steering_control(next.torque)
               mqb == Volkswagen!mqb_create_steering_control(next.torque)
    <3>1. pq.kind = "steer" /\ pq.val = next.torque /\ mqb.kind = "steer" /\ mqb.val = next.torque
      BY DEF Volkswagen!pq_create_steering_control, Volkswagen!mqb_create_steering_control, Volkswagen!Steer, Volkswagen!Message
    <3>2. Volkswagen!create_eps_update.kind # "steer"
      BY DEF Volkswagen!create_eps_update, Volkswagen!Ui, Volkswagen!Message
    <3>3. messages = {IF Volkswagen!PQ THEN pq ELSE mqb} \cup Volkswagen!When(Volkswagen!StockHca, {Volkswagen!create_eps_update})
      BY DEF Volkswagen!SteerMessages
    <3> HIDE DEF pq, mqb, messages
    <3> QED  BY <3>1, <3>2, <3>3 DEF Volkswagen!When
  <2> HIDE DEF messages
  <2>5. sent' = Volkswagen!When(Volkswagen!Every(Volkswagen!STEER_STEP), messages)
                   \cup Volkswagen!When(Volkswagen!long /\ Volkswagen!Every(Volkswagen!ACC_CONTROL_STEP), Volkswagen!AccMessages(cc))
                   \cup Volkswagen!HudMessages \cup Volkswagen!ButtonMessages(cc)
    BY <1>8, Zenon DEF messages
  <2> QED  BY <2>1, <2>2, <2>3, <2>4, <2>5 DEF Torques, Volkswagen!When
<1> QED
  BY <1>8, <1>9, <1>10, <1>11, Zenon

LEMMA RackNext == SendsInv /\ RackInv /\ [Next]_vars => RackInv'
<1> SUFFICES ASSUME SendsInv, RackInv, [Next]_vars, (CP \in Volkswagen!Params)'  PROVE RackInv'
  BY DEF RackInv
<1> DEFINE Ctls == [frame : Int, torque : {-1, 0, 1}, timer : Int, same : Nat, stock : Int]
<1>1. CASE DecodePort /\ NoteDecode
  <2>1. CP' = CP /\ ctl' = ctl /\ stuck' = stuck
    BY <1>1, DecodeClears DEF NoteDecode
  <2>2. Is("volkswagen")
    BY <2>1, VolkswagenVariants
  <2>3. Volkswagen!Decode
    BY <1>1, <2>2 DEF DecodePort, Is
  <2>4. cs'.stock \in {0, 1}
    BY <2>3 DEF Volkswagen!Decode, Volkswagen!Decoded
  <2> QED  BY <2>1, <2>4 DEF RackInv
<1>2. ASSUME NEW cc \in Controls, ApplyPort(cc), NoteApply  PROVE RackInv'
  <2>1. CP \in Volkswagen!Params /\ Is("volkswagen") /\ Volkswagen!Apply(cc)
    <3>1. CP' = CP
      BY <1>2, ApplySends DEF SendsInv
    <3> QED  BY <1>2, <3>1, VolkswagenVariants DEF ApplyPort, Is
  <2>2. /\ cs' = cs /\ ctl' \in Ctls /\ ctl'.same <= Slow
        /\ \/ Torques(sent') = {} /\ ctl'.torque = ctl.torque /\ ctl'.same = ctl.same
           \/ /\ Torques(sent') = {ctl'.torque}
              /\ ctl'.torque = ctl.torque /\ ctl.torque # 0 => ctl'.same = ctl.same + 2
    BY <2>1, TorqueOnTheBus
  <2>3. stuck' = IF Torques(sent') = {} THEN stuck
                 ELSE IF Torques(sent') = {0} THEN 0
                 ELSE IF ctl'.torque = ctl.torque THEN stuck + 1 ELSE 1
    BY <1>2, <2>1, Zenon DEF NoteApply
  <2>4. CASE Torques(sent') = {}
    BY <2>1, <2>2, <2>3, <2>4 DEF RackInv
  <2>5. CASE Torques(sent') = {ctl'.torque} /\ (ctl'.torque = ctl.torque /\ ctl.torque # 0 => ctl'.same = ctl.same + 2)
    <3>1. stuck' = IF ctl'.torque = 0 THEN 0 ELSE IF ctl'.torque = ctl.torque THEN stuck + 1 ELSE 1
      BY <2>3, <2>5
    <3> QED  BY <2>1, <2>2, <2>5, <3>1 DEF RackInv
  <2> QED  BY <2>2, <2>4, <2>5
<1>4. CASE Skip /\ NoteSkip /\ UNCHANGED focus
  BY <1>4 DEF Skip, NoteSkip, RackInv
<1>5. CASE UNCHANGED vars
  BY <1>5 DEF vars, port, RackInv
<1> QED  BY <1>1, <1>2, <1>4, <1>5 DEF Next

LEMMA RackAlways == Spec => []RackInv
BY RackInit, RackNext, SendsAlways, PTL DEF Spec

\* volkswagen never holds one torque for as long as the rack refuses it, however
\* lateral control comes and goes and frames are skipped.
THEOREM RackIsNotTired == Spec => []TorqueMoves
<1>2. SendsInv /\ RackInv => TorqueMoves
  <2> SUFFICES ASSUME AnyPort, RackInv, Is("volkswagen")  PROVE stuck <= Slow \div 2 + 1
    BY DEF TorqueMoves, Volkswagen!STEER_STEP, SendsInv
  <2>1. CP \in Volkswagen!Params
    BY WhichPort
  <2>2. stuck \in Nat /\ (stuck = 0 \/ 2 * (stuck - 1) <= Slow)
    BY <2>1, SlowAssumption DEF RackInv
  <2> QED  BY <2>2, SlowAssumption
<1> QED  BY <1>2, SendsAlways, RackAlways, PTL

-----------------------------------------------------------------------------
(* chrysler's control bit.                                                 *)

\* The bit on the bus is the one remembered, and the frames since it fell are
\* those the controller has counted.
BitInv ==
    CP \in Chrysler!Params =>
        /\ ctl.bit \in BOOLEAN /\ ctl.sinceFall \in Nat
        /\ lkas \in [on : BOOLEAN, frames : Nat]
        /\ lkas.on = ctl.bit
        /\ ~ctl.bit => ctl.sinceFall = lkas.frames

\* What chrysler's steering messages are, and what becomes of the memory.
LEMMA BitOnTheBus ==
    ASSUME NEW cc, Chrysler!Apply(cc)
    PROVE  LET steering == Chrysler!Every(Chrysler!STEER_STEP)
               falls == steering /\ ctl.bit /\ ~Chrysler!Bit
           IN /\ ctl'.bit = IF steering THEN Chrysler!Bit ELSE ctl.bit
              /\ ctl'.sinceFall = IF falls THEN 1 ELSE Chrysler!UpTo(ctl.sinceFall, Chrysler!REST + 1)
              /\ Bits(sent') = IF steering THEN {Chrysler!Bit} ELSE {}
              /\ \A m \in sent' : m.kind = "steer" =>
                    m.act = Chrysler!Bit /\ (m.val # 0 => cc.latActive /\ ctl.bit /\ Chrysler!Bit)
<1> DEFINE steering == Chrysler!Every(Chrysler!STEER_STEP)
           falls == steering /\ ctl.bit /\ ~Chrysler!Bit
           command == Chrysler!create_lkas_command(Chrysler!Amount(Chrysler!Steers(cc) /\ Chrysler!Bit), Chrysler!Bit)
           hud == Chrysler!create_lkas_hud(cc)
<1>1. command.kind = "steer" /\ command.act = Chrysler!Bit
  BY DEF Chrysler!create_lkas_command, Chrysler!Steer, Chrysler!Message
<1>2. command.val # 0 => cc.latActive /\ ctl.bit /\ Chrysler!Bit
  BY DEF Chrysler!create_lkas_command, Chrysler!Steer, Chrysler!Message, Chrysler!Amount, Chrysler!Steers
<1>3. hud.kind = "ui"
  BY DEF Chrysler!create_lkas_hud, Chrysler!Message
<1>4. \A m \in Chrysler!Pressed(cc) : m.kind = "button"
  BY DEF Chrysler!Pressed, Chrysler!create_cruise_buttons, Chrysler!Button, Chrysler!Message, Chrysler!When
<1>5. sent' = Chrysler!Pressed(cc) \cup Chrysler!When(Chrysler!Every(2 * Slow), {hud}) \cup Chrysler!When(steering, {command})
  BY DEF Chrysler!Apply, Chrysler!Applied, Chrysler!AppliedWith
<1>6. /\ ctl'.bit = IF steering THEN Chrysler!Bit ELSE ctl.bit
      /\ ctl'.sinceFall = IF falls THEN 1 ELSE Chrysler!UpTo(ctl.sinceFall, Chrysler!REST + 1)
  BY DEF Chrysler!Apply, Chrysler!Applied, Chrysler!AppliedWith
<1> HIDE DEF command, hud, steering
<1>7. Bits(sent') = IF steering THEN {Chrysler!Bit} ELSE {}
  BY <1>1, <1>3, <1>4, <1>5 DEF Bits, Chrysler!When
<1>8. \A m \in sent' : m.kind = "steer" => m = command
  BY <1>3, <1>4, <1>5 DEF Chrysler!When
<1> QED
  BY <1>1, <1>2, <1>6, <1>7, <1>8 DEF steering

LEMMA BitIsBoolean == ctl.bit \in BOOLEAN => Chrysler!Bit \in BOOLEAN
BY DEF Chrysler!Bit, Chrysler!BitOfSpeed

LEMMA BitInit == Init => BitInv
<1> SUFFICES ASSUME Init, CP \in Chrysler!Params  PROVE BitInv
  BY DEF BitInv
<1>1. ctl = Chrysler!CtlInit
  BY GmVariants, HondaVariants, ToyotaVariants, HyundaiVariants, VolkswagenVariants, FordVariants, SubaruVariants,
     ChryslerVariants, MazdaVariants, NissanVariants, TeslaVariants, BodyVariants DEF Init, InitOf, Is
<1>2. lkas = [on |-> FALSE, frames |-> 0]
  BY DEF Init
<1> QED
  BY <1>1, <1>2 DEF BitInv, Chrysler!CtlInit

LEMMA BitNext == SendsInv /\ BitInv /\ [Next]_vars => BitInv'
<1> SUFFICES ASSUME SendsInv, BitInv, [Next]_vars, (CP \in Chrysler!Params)'  PROVE BitInv'
  BY DEF BitInv
<1>1. CASE DecodePort /\ NoteDecode
  BY <1>1, DecodeClears DEF NoteDecode, BitInv
<1>2. ASSUME NEW cc \in Controls, ApplyPort(cc), NoteApply  PROVE BitInv'
  <2>1. CP \in Chrysler!Params /\ Is("chrysler") /\ Chrysler!Apply(cc)
    <3>1. CP' = CP
      BY <1>2, ApplySends DEF SendsInv
    <3> QED  BY <1>2, <3>1, ChryslerVariants DEF ApplyPort, Is
  <2> DEFINE steering == Chrysler!Every(Chrysler!STEER_STEP)
             bit == Chrysler!Bit
  <2>2. /\ ctl'.bit = IF steering THEN bit ELSE ctl.bit
        /\ ctl'.sinceFall = IF steering /\ ctl.bit /\ ~bit THEN 1 ELSE Chrysler!UpTo(ctl.sinceFall, Chrysler!REST + 1)
        /\ Bits(sent') = IF steering THEN {bit} ELSE {}
    BY <2>1, BitOnTheBus
  <2>3. /\ ctl.bit \in BOOLEAN /\ ctl.sinceFall \in Nat
        /\ lkas \in [on : BOOLEAN, frames : Nat]
        /\ lkas.on = ctl.bit
        /\ ~ctl.bit => ctl.sinceFall = lkas.frames
        /\ bit \in BOOLEAN
    BY <2>1, BitIsBoolean DEF BitInv
  <2>4. lkas' = IF Bits(sent') \subseteq {lkas.on} THEN [lkas EXCEPT !.frames = UpTo(@, Chrysler!REST + 1)]
                ELSE [on |-> ~lkas.on, frames |-> 1]
    BY <1>2, <2>1 DEF NoteApply
  <2>5. Chrysler!REST + 1 \in Nat
    BY SlowAssumption DEF Chrysler!REST
  <2> HIDE DEF steering, bit
  <2>6. CASE Bits(sent') \subseteq {lkas.on}
    <3>1. lkas' = [lkas EXCEPT !.frames = UpTo(lkas.frames, Chrysler!REST + 1)] /\ ctl'.bit = ctl.bit
      BY <2>2, <2>3, <2>4, <2>6
    <3>2. ctl'.sinceFall = Chrysler!UpTo(ctl.sinceFall, Chrysler!REST + 1)
      BY <2>2, <2>3, <2>6
    <3>3. UpTo(lkas.frames, Chrysler!REST + 1) \in Nat /\ ctl'.sinceFall \in Nat
      BY <2>3, <2>5, <3>2 DEF UpTo, Chrysler!UpTo
    <3>4. ~ctl.bit => ctl'.sinceFall = UpTo(lkas.frames, Chrysler!REST + 1)
      BY <2>3, <3>2 DEF UpTo, Chrysler!UpTo
    <3>5. lkas' \in [on : BOOLEAN, frames : Nat] /\ lkas'.on = lkas.on /\ lkas'.frames = UpTo(lkas.frames, Chrysler!REST + 1)
      BY <2>3, <3>1, <3>3
    <3> QED  BY <2>3, <3>1, <3>3, <3>4, <3>5 DEF BitInv
  <2>7. CASE ~(Bits(sent') \subseteq {lkas.on})
    <3>1. steering /\ bit # lkas.on /\ lkas' = [on |-> ~lkas.on, frames |-> 1]
      BY <2>2, <2>4, <2>7
    <3>2. ctl'.bit = ~lkas.on /\ ctl'.bit \in BOOLEAN /\ ctl'.sinceFall \in Nat
      BY <2>2, <2>3, <2>5, <3>1 DEF Chrysler!UpTo
    <3>3. ~ctl'.bit => ctl'.sinceFall = 1
      BY <2>2, <2>3, <3>1, <3>2
    <3>4. lkas'.on = ~lkas.on /\ lkas'.frames = 1 /\ lkas' \in [on : BOOLEAN, frames : Nat]
      BY <2>3, <3>1
    <3> QED  BY <3>2, <3>3, <3>4 DEF BitInv
  <2> QED  BY <2>6, <2>7
<1>3. CASE Skip /\ NoteSkip /\ UNCHANGED focus
  BY <1>3 DEF Skip, NoteSkip, BitInv
<1>4. CASE UNCHANGED vars
  BY <1>4 DEF vars, port, BitInv
<1> QED  BY <1>1, <1>2, <1>3, <1>4 DEF Next

\* chrysler's control bit comes on only after its rest, and no torque comes with
\* the bit down or ahead of it.
THEOREM SteeringRests == Spec => LkasRests
<1> DEFINE Step == pc = "apply" /\ Is("chrysler") =>
                     \A m \in sent' : m.kind = "steer" =>
                        /\ m.act /\ ~lkas.on => lkas.frames >= Chrysler!REST
                        /\ m.val # 0 => m.act /\ lkas.on
<1>1. Spec => []BitInv
  BY BitInit, BitNext, SendsAlways, PTL DEF Spec
<1>2. SendsInv /\ BitInv /\ [Next]_vars => [Step]_vars
  <2> SUFFICES ASSUME SendsInv, BitInv, Next, pc = "apply", Is("chrysler"),
                      NEW m \in sent', m.kind = "steer"
               PROVE  /\ m.act /\ ~lkas.on => lkas.frames >= Chrysler!REST
                      /\ m.val # 0 => m.act /\ lkas.on
    OBVIOUS
  <2>1. CASE DecodePort \/ Skip
    BY <2>1, DecodeClears DEF Skip, SendsInv
  <2>2. ASSUME NEW cc \in Controls, ApplyPort(cc)
        PROVE  /\ m.act /\ ~lkas.on => lkas.frames >= Chrysler!REST
               /\ m.val # 0 => m.act /\ lkas.on
    <3>1. Chrysler!Apply(cc) /\ CP \in Chrysler!Params
      BY <2>2, WhichPort DEF ApplyPort, Is, SendsInv
    <3>2. m.act = Chrysler!Bit /\ (m.val # 0 => ctl.bit /\ Chrysler!Bit)
      BY <3>1, BitOnTheBus
    <3>3. Chrysler!Bit => ctl.sinceFall > Chrysler!REST
      BY DEF Chrysler!Bit
    <3>4. /\ lkas.on = ctl.bit
          /\ ~ctl.bit => ctl.sinceFall = lkas.frames
          /\ lkas.frames \in Nat
      BY <3>1 DEF BitInv
    <3>5. Chrysler!REST \in Nat
      BY SlowAssumption DEF Chrysler!REST
    <3> QED  BY <3>2, <3>3, <3>4, <3>5
  <2> QED  BY <2>1, <2>2 DEF Next
<1> QED  BY <1>1, <1>2, SendsAlways, PTL DEF Spec, LkasRests

-----------------------------------------------------------------------------
(* The stock messages and their answers.                                   *)

\* A stock message that has been answered is one the controller remembers (or, of
\* tesla, one that is no longer in the queue).
StockInv ==
    /\ ~Is("volkswagen") /\ ~Is("tesla") => "stock" \notin DOMAIN cs
    /\ Is("volkswagen") =>
         /\ "stock" \in DOMAIN cs
         /\ answered => ctl.stock = cs.stock
    /\ Is("tesla") =>
         /\ "stock" \in DOMAIN cs /\ "das" \in DOMAIN cs
         /\ cs.stock \in 0 .. 3
         /\ answered => cs.das = <<>>

LEMMA StockInit == Init => StockInv
<1> SUFFICES ASSUME Init  PROVE StockInv
  OBVIOUS
<1>1. ~answered
  BY DEF Init
<1>2. CASE InitOf("gm", Gm!Params, Gm!CsInit, Gm!CtlInit)
  BY <1>2, <1>1, GmVariants DEF InitOf, Gm!CsInit, StockInv, Is
<1>3. CASE InitOf("honda", Honda!Params, Honda!CsInit, Honda!CtlInit)
  BY <1>3, <1>1, HondaVariants DEF InitOf, Honda!CsInit, StockInv, Is
<1>4. CASE InitOf("toyota", Toyota!Params, Toyota!CsInit, Toyota!CtlInit)
  BY <1>4, <1>1, ToyotaVariants DEF InitOf, Toyota!CsInit, StockInv, Is
<1>5. CASE InitOf("hyundai", Hyundai!Params, Hyundai!CsInit, Hyundai!CtlInit)
  BY <1>5, <1>1, HyundaiVariants DEF InitOf, Hyundai!CsInit, StockInv, Is
<1>6. CASE InitOf("volkswagen", Volkswagen!Params, Volkswagen!CsInit, Volkswagen!CtlInit)
  BY <1>6, <1>1, VolkswagenVariants DEF InitOf, Volkswagen!CsInit, StockInv, Is
<1>7. CASE InitOf("ford", Ford!Params, Ford!CsInit, Ford!CtlInit)
  BY <1>7, <1>1, FordVariants DEF InitOf, Ford!CsInit, StockInv, Is
<1>8. CASE InitOf("subaru", Subaru!Params, Subaru!CsInit, Subaru!CtlInit)
  BY <1>8, <1>1, SubaruVariants DEF InitOf, Subaru!CsInit, StockInv, Is
<1>9. CASE InitOf("chrysler", Chrysler!Params, Chrysler!CsInit, Chrysler!CtlInit)
  BY <1>9, <1>1, ChryslerVariants DEF InitOf, Chrysler!CsInit, StockInv, Is
<1>10. CASE InitOf("mazda", Mazda!Params, Mazda!CsInit, Mazda!CtlInit)
  BY <1>10, <1>1, MazdaVariants DEF InitOf, Mazda!CsInit, StockInv, Is
<1>11. CASE InitOf("nissan", Nissan!Params, Nissan!CsInit, Nissan!CtlInit)
  BY <1>11, <1>1, NissanVariants DEF InitOf, Nissan!CsInit, StockInv, Is
<1>12. CASE InitOf("tesla", Tesla!Params, Tesla!CsInit, Tesla!CtlInit)
  BY <1>12, <1>1, TeslaVariants DEF InitOf, Tesla!CsInit, StockInv, Is
<1>13. CASE InitOf("body", Body!Params, Body!CsInit, Body!CtlInit)
  BY <1>13, <1>1, BodyVariants DEF InitOf, Body!CsInit, StockInv, Is
<1> QED  BY <1>2, <1>3, <1>4, <1>5, <1>6, <1>7, <1>8, <1>9, <1>10, <1>11, <1>12, <1>13 DEF Init

\* What a handler leaves of the memory of a CarState.
LEMMA DecodeStock ==
    ASSUME DecodePort, StockInv
    PROVE  /\ ~Is("volkswagen") /\ ~Is("tesla") => "stock" \notin DOMAIN cs'
           /\ Is("volkswagen") => "stock" \in DOMAIN cs'
           /\ Is("tesla") => /\ "stock" \in DOMAIN cs' /\ "das" \in DOMAIN cs'
                             /\ cs'.stock \in 0 .. 3
                             /\ cs'.stock = cs.stock => cs'.das = cs.das
<1>1. CASE Is("gm") /\ Gm!Decode
  BY <1>1 DEF Gm!Decode, Gm!Decoded, Is
<1>2. CASE Is("honda") /\ Honda!Decode
  BY <1>2 DEF Honda!Decode, Honda!Decoded, Is
<1>3. CASE Is("toyota") /\ Toyota!Decode
  BY <1>3 DEF Toyota!Decode, Toyota!Decoded, Is
<1>4. CASE Is("hyundai") /\ Hyundai!Decode
  BY <1>4 DEF Hyundai!Decode, Hyundai!Decoded, Is
<1>5. CASE Is("volkswagen") /\ Volkswagen!Decode
  BY <1>5 DEF Volkswagen!Decode, Volkswagen!Decoded, Is
<1>6. CASE Is("ford") /\ Ford!Decode
  BY <1>6 DEF Ford!Decode, Ford!Decoded, Is
<1>7. CASE Is("subaru") /\ Subaru!Decode
  BY <1>7 DEF Subaru!Decode, Subaru!Decoded, Is
<1>8. CASE Is("chrysler") /\ Chrysler!Decode
  BY <1>8 DEF Chrysler!Decode, Chrysler!Decoded, Is
<1>9. CASE Is("mazda") /\ Mazda!Decode
  BY <1>9 DEF Mazda!Decode, Mazda!Decoded, Is
<1>10. CASE Is("nissan") /\ Nissan!Decode
  BY <1>10 DEF Nissan!Decode, Nissan!Decoded, Is
<1>11. CASE Is("tesla") /\ Tesla!Decode
  <2>1. PICK s \in Tesla!Signals, comes \in BOOLEAN :
           cs' = [down |-> s.down, eac |-> s.eac, hands |-> s.hands, das |-> Tesla!Arrived(comes),
                  stock |-> IF comes THEN (cs.stock + 1) % 4 ELSE cs.stock]
    BY <1>11 DEF Tesla!Decode, Tesla!Decoded
  <2>2. cs.stock \in 0 .. 3
    BY <1>11 DEF StockInv
  <2>3. ~comes => Tesla!Arrived(comes) = cs.das
    BY DEF Tesla!Arrived
  <2> QED  BY <1>11, <2>1, <2>2, <2>3 DEF Is
<1>12. CASE Is("body") /\ Body!Decode
  BY <1>12 DEF Body!Decode, Body!Decoded, Is
<1> QED  BY <1>1, <1>2, <1>3, <1>4, <1>5, <1>6, <1>7, <1>8, <1>9, <1>10, <1>11, <1>12 DEF DecodePort

\* A controller adds nothing to the memory of a CarState, and tesla empties its queue.
LEMMA ApplyStock ==
    ASSUME NEW cc, ApplyPort(cc)
    PROVE  /\ DOMAIN cs' = DOMAIN cs
           /\ Is("tesla") /\ "stock" \in DOMAIN cs => cs'.stock = cs.stock
           /\ Is("tesla") /\ "das" \in DOMAIN cs =>
                 cs'.das = IF CP.openpilotLongitudinalControl THEN <<>> ELSE cs.das
<1>1. CASE Is("gm") /\ Gm!Apply(cc)
  BY <1>1 DEF Gm!Apply, Gm!AppliedWith, Is
<1>2. CASE Is("honda") /\ Honda!Apply(cc)
  BY <1>2 DEF Honda!Apply, Honda!Applied, Honda!AppliedWith, Is
<1>3. CASE Is("toyota") /\ Toyota!Apply(cc)
  BY <1>3 DEF Toyota!Apply, Toyota!AppliedWith, Is
<1>4. CASE Is("hyundai") /\ Hyundai!Apply(cc)
  BY <1>4 DEF Hyundai!Apply, Hyundai!Applied, Hyundai!AppliedWith, Is
<1>5. CASE Is("volkswagen") /\ Volkswagen!Apply(cc)
  BY <1>5 DEF Volkswagen!Apply, Volkswagen!Applied, Volkswagen!AppliedWith, Is
<1>6. CASE Is("ford") /\ Ford!Apply(cc)
  BY <1>6 DEF Ford!Apply, Ford!Applied, Ford!AppliedWith, Is
<1>7. CASE Is("subaru") /\ Subaru!Apply(cc)
  BY <1>7 DEF Subaru!Apply, Subaru!Applied, Subaru!AppliedWith, Is
<1>8. CASE Is("chrysler") /\ Chrysler!Apply(cc)
  BY <1>8 DEF Chrysler!Apply, Chrysler!Applied, Chrysler!AppliedWith, Is
<1>9. CASE Is("mazda") /\ Mazda!Apply(cc)
  BY <1>9 DEF Mazda!Apply, Mazda!Applied, Mazda!AppliedWith, Is
<1>10. CASE Is("nissan") /\ Nissan!Apply(cc)
  BY <1>10 DEF Nissan!Apply, Nissan!Applied, Nissan!AppliedWith, Is
<1>11. CASE Is("tesla") /\ Tesla!Apply(cc)
  BY <1>11 DEF Tesla!Apply, Tesla!AppliedWith, Tesla!Popped, Is
<1>12. CASE Is("body") /\ Body!Apply(cc)
  BY <1>12 DEF Body!Apply, Body!Applied, Body!AppliedWith, Is
<1> QED  BY <1>1, <1>2, <1>3, <1>4, <1>5, <1>6, <1>7, <1>8, <1>9, <1>10, <1>11, <1>12 DEF ApplyPort

\* Volkswagen presses a button only if the stock message has moved on, and
\* Tesla commands an acceleration for each of the autopilot's that waits.
LEMMA VolkswagenPresses ==
    ASSUME NEW cc, Volkswagen!Apply(cc), ctl.stock = cs.stock
    PROVE  \A m \in sent' : m.kind # "button"
<1>1. \A t : \A m \in Volkswagen!SteerMessages(t) : m.kind # "button"
  <2> TAKE t
  <2>1. /\ Volkswagen!pq_create_steering_control(t).kind = "steer"
        /\ Volkswagen!mqb_create_steering_control(t).kind = "steer"
        /\ Volkswagen!create_eps_update.kind = "ui"
    BY DEF Volkswagen!pq_create_steering_control, Volkswagen!mqb_create_steering_control, Volkswagen!create_eps_update,
       Volkswagen!Steer, Volkswagen!Ui, Volkswagen!Message
  <2> QED  BY <2>1 DEF Volkswagen!SteerMessages, Volkswagen!When
<1>2. \A m \in Volkswagen!AccMessages(cc) : m.kind # "button"
  BY DEF Volkswagen!AccMessages, Volkswagen!pq_create_acc_accel_control, Volkswagen!mqb_create_acc_accel_control,
     Volkswagen!Long, Volkswagen!Message
<1>3. \A m \in Volkswagen!HudMessages : m.kind # "button"
  BY DEF Volkswagen!HudMessages, Volkswagen!pq_create_lka_hud_control, Volkswagen!mqb_create_lka_hud_control,
     Volkswagen!pq_create_acc_hud_control, Volkswagen!mqb_create_acc_hud_control, Volkswagen!Ui, Volkswagen!Message,
     Volkswagen!When
<1>4. Volkswagen!ButtonMessages(cc) = {}
  BY DEF Volkswagen!ButtonMessages, Volkswagen!GraSendReady, Volkswagen!When
<1>5. PICK t : sent' = Volkswagen!When(Volkswagen!Every(Volkswagen!STEER_STEP), Volkswagen!SteerMessages(t))
                   \cup Volkswagen!When(Volkswagen!long /\ Volkswagen!Every(Volkswagen!ACC_CONTROL_STEP), Volkswagen!AccMessages(cc))
                   \cup Volkswagen!HudMessages \cup Volkswagen!ButtonMessages(cc)
  BY DEF Volkswagen!Apply, Volkswagen!Applied, Volkswagen!AppliedWith
<1> QED  BY <1>1, <1>2, <1>3, <1>4, <1>5 DEF Volkswagen!When

LEMMA TeslaCommands ==
    ASSUME NEW cc, Tesla!Apply(cc)
    PROVE  \A m \in sent' : m.kind = "long" => CP.openpilotLongitudinalControl /\ cs.das # <<>>
<1>1. \A angle, active, ctr : Tesla!create_steering_control(angle, active, ctr).kind # "long"
  BY DEF Tesla!create_steering_control, Tesla!Steer, Tesla!Message
<1>2. Tesla!create_action_request.kind # "long"
  BY DEF Tesla!create_action_request, Tesla!Button, Tesla!Message
<1>3. PICK angle, active, ctr :
        sent' = Tesla!When(Tesla!Every(2), {Tesla!create_steering_control(angle, active, ctr)})
          \cup Tesla!When(CP.openpilotLongitudinalControl, {Tesla!create_longitudinal_commands(cc, cs.das[i]) : i \in DOMAIN cs.das})
          \cup Tesla!When(Tesla!Every(2 * Slow) /\ (cc.cancel \/ Tesla!HandsOnFault), {Tesla!create_action_request})
  BY DEF Tesla!Apply, Tesla!AppliedWith
<1>4. DOMAIN <<>> = {}
  OBVIOUS
<1> QED  BY <1>1, <1>2, <1>3, <1>4 DEF Tesla!When

LEMMA StockNext == SendsInv /\ RackInv /\ StockInv /\ [Next]_vars => StockInv'
<1> SUFFICES ASSUME SendsInv, RackInv, StockInv, [Next]_vars  PROVE StockInv'
  OBVIOUS
<1>1. CASE DecodePort /\ NoteDecode
  <2>1. CP' = CP /\ ctl' = ctl
    BY <1>1, DecodeClears
  <2>2. answered' => answered /\ Stock(cs') = Stock(cs)
    BY <1>1 DEF NoteDecode
  <2>3. "stock" \in DOMAIN cs => (answered' => answered /\ cs'.stock = cs.stock)
    BY <2>2 DEF Stock, HasStock
  <2> QED  BY <1>1, <2>1, <2>3, DecodeStock DEF StockInv, Is
<1>2. ASSUME NEW cc \in Controls, ApplyPort(cc), NoteApply  PROVE StockInv'
  <2>1. CP' = CP
    BY <1>2, ApplySends DEF SendsInv
  <2>2. CASE Is("volkswagen")
    <3>1. Volkswagen!Apply(cc) /\ CP \in Volkswagen!Params
      BY <1>2, <2>2, WhichPort DEF ApplyPort, Is, SendsInv
    <3>2. cs' = cs /\ ctl'.stock = cs.stock
      BY <3>1, TorqueOnTheBus
    <3> QED  BY <2>1, <2>2, <3>2 DEF StockInv, Is
  <2>3. CASE Is("tesla")
    <3>1. Tesla!Apply(cc)
      BY <1>2, <2>3 DEF ApplyPort, Is
    <3>2. answered' => answered \/ CP.openpilotLongitudinalControl
      BY <1>2, <2>3, <3>1, TeslaCommands DEF NoteApply, AnswerKind
    <3> QED  BY <1>2, <2>1, <2>3, <3>2, ApplyStock DEF StockInv, Is
  <2>4. CASE ~Is("volkswagen") /\ ~Is("tesla")
    BY <1>2, <2>1, <2>4, ApplyStock DEF StockInv, Is
  <2> QED  BY <2>2, <2>3, <2>4
<1>3. CASE Skip /\ NoteSkip /\ UNCHANGED focus
  BY <1>3 DEF Skip, NoteSkip, StockInv, Is
<1>4. CASE UNCHANGED vars
  BY <1>4 DEF vars, port, StockInv, Is
<1> QED  BY <1>1, <1>2, <1>3, <1>4 DEF Next

\* No stock message of volkswagen's buttons or of tesla's autopilot is answered
\* twice, whatever frames are skipped in between.
THEOREM OneAnswerEach == Spec => AnsweredOnce
<1> DEFINE Step == pc = "apply" /\ HasStock /\ answered => \A m \in sent' : m.kind # AnswerKind
<1>1. Spec => []StockInv
  BY StockInit, StockNext, SendsAlways, RackAlways, PTL DEF Spec
<1>2. SendsInv /\ StockInv /\ [Next]_vars => [Step]_vars
  <2> SUFFICES ASSUME SendsInv, StockInv, Next, pc = "apply", HasStock, answered
               PROVE  \A m \in sent' : m.kind # AnswerKind
    OBVIOUS
  <2>1. CASE DecodePort \/ Skip
    BY <2>1, DecodeClears DEF Skip, SendsInv
  <2>2. ASSUME NEW cc \in Controls, ApplyPort(cc)
        PROVE  \A m \in sent' : m.kind # AnswerKind
    <3>1. CASE Is("volkswagen")
      <4>1. Volkswagen!Apply(cc)
        BY <2>2, <3>1 DEF ApplyPort, Is
      <4> QED  BY <3>1, <4>1, VolkswagenPresses DEF AnswerKind, StockInv, Is
    <3>2. CASE Is("tesla")
      <4>1. Tesla!Apply(cc)
        BY <2>2, <3>2 DEF ApplyPort, Is
      <4> QED  BY <3>2, <4>1, TeslaCommands DEF AnswerKind, StockInv
    <3>3. CASE ~Is("volkswagen") /\ ~Is("tesla")
      BY <3>3 DEF StockInv, HasStock
    <3> QED  BY <3>1, <3>2, <3>3
  <2> QED  BY <2>1, <2>2 DEF Next
<1> QED  BY <1>1, <1>2, SendsAlways, PTL DEF Spec, AnsweredOnce

-----------------------------------------------------------------------------
(* The buttons.                                                            *)

\* What the property asks of the button events of a frame, given the buttons
\* held, and the buttons held after them.
Alternate(buttons, h) ==
    \A b \in buttons : b.type \in CruiseTypes =>
        IF b.pressed THEN b.type \notin h \/ Release(b.type) \in buttons ELSE b.type \in h

TypesOf(buttons, pressed) == {b.type : b \in {e \in buttons : e.pressed = pressed}}

After(buttons, h) == ((h \ TypesOf(buttons, FALSE)) \cup TypesOf(buttons, TRUE)) \cap CruiseTypes

Follow(buttons, before, after) == Alternate(buttons, before) /\ After(buttons, before) = after

\* A button of name is its own value alone, and none is named while idle.
Distinct(cur, prev, name, idle) ==
    /\ name[idle] \notin CruiseTypes
    /\ cur # prev /\ name[cur] = name[prev] => name[cur] \notin CruiseTypes

NoCruise(buttons) == \A b \in buttons : b.type \notin CruiseTypes

\* The events of one signal: the button it names is the one held.
LEMMA EdgesAlternate ==
    ASSUME NEW cur, NEW prev, NEW name, NEW idle, Distinct(cur, prev, name, idle),
           NEW others, NoCruise(others)
    PROVE  Follow(ButtonEdges(cur, prev, name, idle) \cup others,
                  {name[prev]} \cap CruiseTypes, {name[cur]} \cap CruiseTypes)
<1> DEFINE h == {name[prev]} \cap CruiseTypes
           edges == ButtonEdges(cur, prev, name, idle)
           buttons == edges \cup others
<1>0. /\ name[idle] \notin CruiseTypes
      /\ cur # prev /\ name[cur] = name[prev] => name[cur] \notin CruiseTypes
      /\ \A b \in others : b.type \notin CruiseTypes
  BY DEF Distinct, NoCruise
<1>1. CASE cur = prev
  <2>1. edges = {}
    BY <1>1 DEF ButtonEdges
  <2>2. TypesOf(buttons, FALSE) \cap CruiseTypes = {} /\ TypesOf(buttons, TRUE) \cap CruiseTypes = {}
    BY <1>0, <2>1 DEF TypesOf
  <2>3. Alternate(buttons, h)
    BY <1>0, <2>1 DEF Alternate
  <2> QED  BY <1>1, <2>2, <2>3 DEF After, Follow
<1>2. CASE cur # prev
  <2>1. edges = When(prev # idle, {Release(name[prev])}) \cup When(cur # idle, {Press(name[cur])})
    BY <1>2 DEF ButtonEdges
  <2>2. \A b \in buttons : b.type \in CruiseTypes =>
           \/ b.pressed = FALSE /\ b.type = name[prev]
           \/ b.pressed = TRUE /\ b.type = name[cur]
    BY <1>0, <2>1 DEF When, Release, Press
  <2>3. /\ name[prev] \in CruiseTypes => Release(name[prev]) \in buttons
        /\ name[cur] \in CruiseTypes => Press(name[cur]) \in buttons
    BY <1>0, <2>1 DEF When
  <2>4. /\ Release(name[prev]).type = name[prev] /\ Release(name[prev]).pressed = FALSE
        /\ Press(name[cur]).type = name[cur] /\ Press(name[cur]).pressed = TRUE
    BY DEF Release, Press
  <2>5. TypesOf(buttons, FALSE) \cap CruiseTypes = {name[prev]} \cap CruiseTypes
    BY <2>2, <2>3, <2>4 DEF TypesOf
  <2>6. TypesOf(buttons, TRUE) \cap CruiseTypes = {name[cur]} \cap CruiseTypes
    BY <2>2, <2>3, <2>4 DEF TypesOf
  <2>7. After(buttons, h) = {name[cur]} \cap CruiseTypes
    BY <1>0, <1>2, <2>5, <2>6 DEF After
  <2>8. Alternate(buttons, h)
    BY <1>0, <1>2, <2>2 DEF Alternate
  <2> QED  BY <2>7, <2>8 DEF Follow
<1> QED  BY <1>1, <1>2

\* The events of a set of buttons that are down.
LEMMA DownAlternate ==
    ASSUME NEW down, NEW prev, NEW buttons,
           buttons = {Press(b) : b \in down \ prev} \cup {Release(b) : b \in prev \ down}
    PROVE  /\ Alternate(buttons, prev \cap CruiseTypes)
           /\ After(buttons, prev \cap CruiseTypes) = down \cap CruiseTypes
<1>1. \A b : /\ Press(b).type = b /\ Press(b).pressed = TRUE
             /\ Release(b).type = b /\ Release(b).pressed = FALSE
  BY DEF Press, Release
<1>2. TypesOf(buttons, TRUE) = down \ prev
  <2>1. TypesOf(buttons, TRUE) \subseteq down \ prev
    BY <1>1 DEF TypesOf
  <2>2. \A b \in down \ prev : Press(b) \in buttons
    OBVIOUS
  <2> QED  BY <1>1, <2>1, <2>2 DEF TypesOf
<1>3. TypesOf(buttons, FALSE) = prev \ down
  <2>1. TypesOf(buttons, FALSE) \subseteq prev \ down
    BY <1>1 DEF TypesOf
  <2>2. \A b \in prev \ down : Release(b) \in buttons
    OBVIOUS
  <2> QED  BY <1>1, <2>1, <2>2 DEF TypesOf
<1>4. Alternate(buttons, prev \cap CruiseTypes)
  BY <1>1 DEF Alternate
<1> QED  BY <1>2, <1>3, <1>4 DEF After

\* The gap button is none of the cruise types.
LEMMA GapIsQuiet ==
    ASSUME NEW buttons, \A b \in buttons : b.type = "gapAdjustCruise"
    PROVE  Alternate(buttons, {}) /\ After(buttons, {}) = {}
<1>1. "gapAdjustCruise" \notin CruiseTypes
  BY DEF CruiseTypes
<1> QED  BY <1>1 DEF Alternate, After, TypesOf

GapName == [d \in {0, 1} |-> "gapAdjustCruise"]

LEMMA GapEdges ==
    ASSUME NEW cur \in {0, 1}, NEW prev \in {0, 1}
    PROVE  \A b \in ButtonEdges(cur, prev, GapName, 0) : b.type = "gapAdjustCruise"
BY DEF ButtonEdges, GapName, Press, Release, When

\* The ports whose button events are not those of the cruise buttons.
Quiet == ~Is("gm") /\ ~Is("hyundai") /\ ~Is("volkswagen") /\ ~Is("tesla")

\* The ports that tell of the gap button alone.
GapOnly == Is("toyota") \/ Is("ford") \/ Is("chrysler") \/ Is("mazda") \/ Is("nissan")

\* The buttons held are those the CarState remembers as down.
HeldInv ==
    /\ Is("gm") =>
         /\ {"button", "distance"} \subseteq DOMAIN cs
         /\ cs.button \in DOMAIN Gm!BUTTONS_DICT /\ cs.distance \in {0, 1}
         /\ held = {Gm!BUTTONS_DICT[cs.button]} \cap CruiseTypes
    /\ Is("hyundai") =>
         /\ "button" \in DOMAIN cs /\ cs.button \in DOMAIN Hyundai!BUTTONS_DICT
         /\ held = IF Hyundai!long THEN {Hyundai!BUTTONS_DICT[cs.button]} \cap CruiseTypes ELSE {}
    /\ Is("volkswagen") \/ Is("tesla") =>
         /\ "down" \in DOMAIN cs
         /\ held = cs.down \cap CruiseTypes
    /\ GapOnly => "distance" \in DOMAIN cs /\ cs.distance \in {0, 1}
    /\ Quiet => held = {}

\* gm tells of no press or release when the first button it sees is none.
LEMMA GmButtons ==
    ASSUME Is("gm"), HeldInv, Gm!Decode
    PROVE  /\ {"button", "distance"} \subseteq DOMAIN cs'
           /\ cs'.button \in DOMAIN Gm!BUTTONS_DICT /\ cs'.distance \in {0, 1}
           /\ Alternate(out'.buttons, held)
           /\ After(out'.buttons, held) = {Gm!BUTTONS_DICT[cs'.button]} \cap CruiseTypes
<1> DEFINE dict == Gm!BUTTONS_DICT
<1>1. PICK s \in Gm!Signals :
        /\ {"button", "distance"} \subseteq DOMAIN cs'
        /\ cs'.button = s.button /\ cs'.distance = s.distance
        /\ out'.buttons = Gm!Buttons(s)
  BY DEF Gm!Decode, Gm!Decoded, Gm!OutIdle
<1>2. s.button \in DOMAIN dict /\ s.distance \in {0, 1}
  BY DEF Gm!Signals, Gm!One, Gm!Idle, Gm!BUTTONS_DICT, Gm!UNPRESS
<1>3. /\ cs.button \in DOMAIN dict /\ cs.distance \in {0, 1}
      /\ held = {dict[cs.button]} \cap CruiseTypes
  BY DEF HeldInv
<1>4. \A cur, prev, name, idle : Gm!ButtonEdges(cur, prev, name, idle) = ButtonEdges(cur, prev, name, idle)
  BY DEF Gm!ButtonEdges, ButtonEdges, Gm!When, When, Gm!Press, Press, Gm!Release, Release
<1>5. /\ dict["INIT"] \notin CruiseTypes /\ dict["UNPRESS"] \notin CruiseTypes
      /\ \A a, b \in DOMAIN dict : a # b /\ dict[a] = dict[b] => dict[a] \notin CruiseTypes
  BY DEF Gm!BUTTONS_DICT, CruiseTypes
<1>6. CASE s.button = "UNPRESS" /\ cs.button = "INIT"
  <2>1. out'.buttons = {} /\ held = {}
    BY <1>1, <1>3, <1>5, <1>6 DEF Gm!Buttons, Gm!UNPRESS
  <2>2. Alternate(out'.buttons, held) /\ After(out'.buttons, held) = {}
    BY <2>1 DEF Alternate, After, TypesOf
  <2> QED  BY <1>1, <1>2, <1>5, <1>6, <2>2
<1>7. CASE ~(s.button = "UNPRESS" /\ cs.button = "INIT")
  <2> DEFINE gap == ButtonEdges(s.distance, cs.distance, GapName, 0)
  <2>1. out'.buttons = ButtonEdges(s.button, cs.button, dict, "UNPRESS") \cup gap
    BY <1>1, <1>4, <1>7 DEF Gm!Buttons, Gm!UNPRESS, GapName
  <2>2. NoCruise(gap)
    BY <1>2, <1>3, GapEdges DEF NoCruise, CruiseTypes
  <2> HIDE DEF gap, dict
  <2>3. Distinct(s.button, cs.button, dict, "UNPRESS")
    BY <1>2, <1>3, <1>5 DEF Distinct
  <2>4. /\ Alternate(out'.buttons, {dict[cs.button]} \cap CruiseTypes)
        /\ After(out'.buttons, {dict[cs.button]} \cap CruiseTypes) = {dict[s.button]} \cap CruiseTypes
    <3>1. Follow(ButtonEdges(s.button, cs.button, dict, "UNPRESS") \cup gap,
                 {dict[cs.button]} \cap CruiseTypes, {dict[s.button]} \cap CruiseTypes)
      BY <2>2, <2>3, EdgesAlternate, Zenon
    <3> QED  BY <2>1, <3>1 DEF Follow
  <2> QED  BY <1>1, <1>2, <1>3, <2>4 DEF dict
<1> QED  BY <1>6, <1>7

\* hyundai tells of its buttons only where openpilot has the cruise control.
LEMMA HyundaiButtons ==
    ASSUME Is("hyundai"), HeldInv, Hyundai!Decode
    PROVE  /\ "button" \in DOMAIN cs' /\ cs'.button \in DOMAIN Hyundai!BUTTONS_DICT
           /\ Alternate(out'.buttons, held)
           /\ After(out'.buttons, held) =
                IF Hyundai!long THEN {Hyundai!BUTTONS_DICT[cs'.button]} \cap CruiseTypes ELSE {}
<1> DEFINE dict == Hyundai!BUTTONS_DICT
<1>1. PICK s \in Hyundai!Signals :
        /\ "button" \in DOMAIN cs' /\ cs'.button = Hyundai!Button1(s)
        /\ out'.buttons = IF Hyundai!long THEN Hyundai!ButtonEdges(Hyundai!Button1(s), cs.button, dict, "NONE") ELSE {}
  BY DEF Hyundai!Decode, Hyundai!Decoded, Hyundai!OutIdle
<1>2. cs.button \in DOMAIN dict
  BY DEF HeldInv
<1>3. s.button \in DOMAIN dict
  <2> DEFINE on == [Hyundai!Idle EXCEPT !.active = TRUE]
  <2>1. Hyundai!Idle.button = "NONE" /\ "button" \in DOMAIN Hyundai!Idle
    BY DEF Hyundai!Idle
  <2>2. "button" \in DOMAIN on
    BY <2>1
  <2>3. /\ "RES_ACCEL" \in DOMAIN dict /\ "NONE" \in DOMAIN dict
    BY DEF Hyundai!BUTTONS_DICT
  <2>4. \A idle, values : "button" \in DOMAIN idle =>
          \A r \in Hyundai!One(idle, "button", values) : r.button \in values
    BY DEF Hyundai!One
  <2>5. \A field, values : field # "button" =>
          \A r \in Hyundai!One(Hyundai!Idle, field, values) : r.button = Hyundai!Idle.button
    BY <2>1 DEF Hyundai!One
  <2>6. \/ s = Hyundai!Idle
        \/ \E field \in {"sample", "main", "active", "speed", "turned"} :
              \E values : s \in Hyundai!One(Hyundai!Idle, field, values)
        \/ s \in Hyundai!One(Hyundai!Idle, "button", DOMAIN dict)
        \/ s \in Hyundai!One(on, "button", {"RES_ACCEL"})
    BY DEF Hyundai!Signals
  <2> HIDE DEF on, dict
  <2> QED  BY <2>1, <2>2, <2>3, <2>4, <2>5, <2>6
<1>4. Hyundai!Button1(s) \in DOMAIN dict
  BY <1>2, <1>3 DEF Hyundai!Button1
<1>5. \A cur, prev, name, idle : Hyundai!ButtonEdges(cur, prev, name, idle) = ButtonEdges(cur, prev, name, idle)
  BY DEF Hyundai!ButtonEdges, ButtonEdges, Hyundai!When, When, Hyundai!Press, Press, Hyundai!Release, Release
<1>6. /\ dict["NONE"] \notin CruiseTypes
      /\ \A a, b \in DOMAIN dict : a # b /\ dict[a] = dict[b] => dict[a] \notin CruiseTypes
  BY DEF Hyundai!BUTTONS_DICT, CruiseTypes
<1>7. CASE Hyundai!long
  <2>1. out'.buttons = ButtonEdges(cs'.button, cs.button, dict, "NONE") \cup {}
    BY <1>1, <1>5, <1>7
  <2>2. held = {dict[cs.button]} \cap CruiseTypes
    BY <1>7 DEF HeldInv
  <2>3. cs'.button \in DOMAIN dict
    BY <1>1, <1>4
  <2> HIDE DEF dict
  <2>4. Distinct(cs'.button, cs.button, dict, "NONE")
    BY <1>2, <1>6, <2>3 DEF Distinct
  <2>5. NoCruise({})
    BY DEF NoCruise
  <2>6. /\ Alternate(out'.buttons, {dict[cs.button]} \cap CruiseTypes)
        /\ After(out'.buttons, {dict[cs.button]} \cap CruiseTypes) = {dict[cs'.button]} \cap CruiseTypes
    <3>1. Follow(ButtonEdges(cs'.button, cs.button, dict, "NONE") \cup {},
                 {dict[cs.button]} \cap CruiseTypes, {dict[cs'.button]} \cap CruiseTypes)
      BY <2>4, <2>5, EdgesAlternate, Zenon
    <3> QED  BY <2>1, <3>1 DEF Follow
  <2> QED  BY <1>1, <1>7, <2>2, <2>3, <2>6 DEF dict
<1>8. CASE ~Hyundai!long
  <2>1. out'.buttons = {} /\ held = {}
    BY <1>1, <1>8 DEF HeldInv
  <2> QED  BY <1>1, <1>4, <1>8, <2>1 DEF Alternate, After, TypesOf
<1> QED  BY <1>7, <1>8

LEMMA DownButtons ==
    ASSUME HeldInv,
           \/ Is("volkswagen") /\ Volkswagen!Decode
           \/ Is("tesla") /\ Tesla!Decode
    PROVE  /\ "down" \in DOMAIN cs'
           /\ Alternate(out'.buttons, held)
           /\ After(out'.buttons, held) = cs'.down \cap CruiseTypes
<1>1. /\ "down" \in DOMAIN cs'
      /\ out'.buttons = {Press(b) : b \in cs'.down \ cs.down} \cup {Release(b) : b \in cs.down \ cs'.down}
  <2>1. CASE Is("volkswagen") /\ Volkswagen!Decode
    <3>1. PICK s \in Volkswagen!Signals, stock \in {0, 1} :
            /\ cs' = [frame |-> IF Volkswagen!InitComplete(s) THEN 0
                                ELSE Volkswagen!UpTo(cs.frame, Volkswagen!INIT_FRAMES + 1),
                      down |-> s.down, initComplete |-> Volkswagen!InitComplete(s),
                      lowSpeed |-> Volkswagen!LowSpeed(s), stock |-> stock]
            /\ out' = LET o == [Volkswagen!OutIdle EXCEPT !.cruiseEnabled = s.active,
                                                         !.steerFaultTemporary = Volkswagen!TempFault(s),
                                                         !.buttons = Volkswagen!Buttons(s)]
                      IN  [o EXCEPT !.events = Volkswagen!Events(o, s)]
      BY <2>1, Zenon DEF Volkswagen!Decode, Volkswagen!Decoded
    <3>2. "down" \in DOMAIN cs' /\ cs'.down = s.down
      BY <3>1
    <3>3. out'.buttons = Volkswagen!Buttons(s)
      BY <3>1 DEF Volkswagen!OutIdle
    <3> QED  BY <3>2, <3>3 DEF Volkswagen!Buttons, Volkswagen!Press, Volkswagen!Release, Press, Release
  <2>2. CASE Is("tesla") /\ Tesla!Decode
    <3>1. PICK s \in Tesla!Signals, comes \in BOOLEAN :
            /\ cs' = [down |-> s.down, eac |-> s.eac, hands |-> s.hands, das |-> Tesla!Arrived(comes),
                      stock |-> IF comes THEN (cs.stock + 1) % 4 ELSE cs.stock]
            /\ out' = LET o == [Tesla!OutIdle EXCEPT !.cruiseEnabled = s.active, !.steeringPressed = s.hands,
                                                    !.steerFaultTemporary = s.eac = "FAULT",
                                                    !.buttons = Tesla!Buttons(s)]
                      IN  [o EXCEPT !.events = Tesla!Engagement(o, Tesla!EnableButtons, CP.pcmCruise)]
      BY <2>2, Zenon DEF Tesla!Decode, Tesla!Decoded
    <3>2. "down" \in DOMAIN cs' /\ cs'.down = s.down
      BY <3>1
    <3>3. out'.buttons = Tesla!Buttons(s)
      BY <3>1 DEF Tesla!OutIdle
    <3> QED  BY <3>2, <3>3 DEF Tesla!Buttons, Tesla!Press, Tesla!Release, Press, Release
  <2> QED  BY <2>1, <2>2
<1>2. held = cs.down \cap CruiseTypes
  BY DEF HeldInv
<1>3. Alternate(out'.buttons, held) /\ After(out'.buttons, held) = cs'.down \cap CruiseTypes
  BY <1>1, <1>2, DownAlternate
<1> QED  BY <1>1, <1>3

\* The other buttons of these ports are not told of: the gap button alone is.
LEMMA ToyotaGap ==
    ASSUME Toyota!Decode, cs.distance \in {0, 1}
    PROVE  /\ "distance" \in DOMAIN cs' /\ cs'.distance \in {0, 1}
           /\ \A b \in out'.buttons : b.type = "gapAdjustCruise"
<1>1. PICK s \in Toyota!Signals : "distance" \in DOMAIN cs' /\ cs'.distance \in {0, s.distance} /\ out'.buttons = Toyota!Buttons(s)
  BY DEF Toyota!Decode, Toyota!Decoded, Toyota!OutIdle
<1>2. s.distance \in {0, 1}
  <2> DEFINE stop == [Toyota!Idle EXCEPT !.stopped = TRUE]
             locked == [Toyota!Idle EXCEPT !.lockout = TRUE]
  <2>1. Toyota!Idle.distance = 0 /\ "distance" \in DOMAIN Toyota!Idle
    BY DEF Toyota!Idle
  <2>2. /\ stop.distance = 0 /\ "distance" \in DOMAIN stop
        /\ locked.distance = 0 /\ "distance" \in DOMAIN locked
    BY <2>1
  <2>3. \A idle, field, values : "distance" \in DOMAIN idle /\ field # "distance" =>
          \A r \in Toyota!One(idle, field, values) : r.distance = idle.distance
    BY DEF Toyota!One
  <2>4. \A r \in Toyota!One(Toyota!Idle, "distance", {1}) : r.distance = 1
    BY <2>1 DEF Toyota!One
  <2>5. \/ s = Toyota!Idle
        \/ s \in Toyota!One(Toyota!Idle, "distance", {1})
        \/ \E idle \in {Toyota!Idle, stop, locked} : \E field, values :
              field # "distance" /\ s \in Toyota!One(idle, field, values)
    BY DEF Toyota!Signals
  <2> HIDE DEF stop, locked
  <2> QED  BY <2>1, <2>2, <2>3, <2>4, <2>5
<1>3. \A cur, prev, name, idle : Toyota!ButtonEdges(cur, prev, name, idle) = ButtonEdges(cur, prev, name, idle)
  BY DEF Toyota!ButtonEdges, ButtonEdges, Toyota!When, When, Toyota!Press, Press, Toyota!Release, Release
<1> QED  BY <1>1, <1>2, <1>3, GapEdges DEF GapName, Toyota!Buttons

LEMMA FordGap ==
    ASSUME Ford!Decode, cs.distance \in {0, 1}
    PROVE  /\ "distance" \in DOMAIN cs' /\ cs'.distance \in {0, 1}
           /\ \A b \in out'.buttons : b.type = "gapAdjustCruise"
<1>1. PICK s \in Ford!Signals : "distance" \in DOMAIN cs' /\ cs'.distance = s.distance
           /\ out'.buttons = Ford!ButtonEdges(s.distance, cs.distance, [d \in {0, 1} |-> "gapAdjustCruise"], 0)
  BY DEF Ford!Decode, Ford!Decoded, Ford!OutIdle
<1>2. s.distance \in {0, 1}
  BY DEF Ford!Signals, Ford!One, Ford!Idle
<1>3. \A cur, prev, name, idle : Ford!ButtonEdges(cur, prev, name, idle) = ButtonEdges(cur, prev, name, idle)
  BY DEF Ford!ButtonEdges, ButtonEdges, Ford!When, When, Ford!Press, Press, Ford!Release, Release
<1> QED  BY <1>1, <1>2, <1>3, GapEdges DEF GapName

LEMMA ChryslerGap ==
    ASSUME Chrysler!Decode, cs.distance \in {0, 1}
    PROVE  /\ "distance" \in DOMAIN cs' /\ cs'.distance \in {0, 1}
           /\ \A b \in out'.buttons : b.type = "gapAdjustCruise"
<1>1. PICK s \in Chrysler!Signals : "distance" \in DOMAIN cs' /\ cs'.distance = s.distance
           /\ out'.buttons = Chrysler!ButtonEdges(s.distance, cs.distance, [d \in {0, 1} |-> "gapAdjustCruise"], 0)
  BY DEF Chrysler!Decode, Chrysler!Decoded, Chrysler!OutIdle
<1>2. s.distance \in {0, 1}
  BY DEF Chrysler!Signals, Chrysler!One, Chrysler!Idle
<1>3. \A cur, prev, name, idle : Chrysler!ButtonEdges(cur, prev, name, idle) = ButtonEdges(cur, prev, name, idle)
  BY DEF Chrysler!ButtonEdges, ButtonEdges, Chrysler!When, When, Chrysler!Press, Press, Chrysler!Release, Release
<1> QED  BY <1>1, <1>2, <1>3, GapEdges DEF GapName

LEMMA MazdaGap ==
    ASSUME Mazda!Decode, cs.distance \in {0, 1}
    PROVE  /\ "distance" \in DOMAIN cs' /\ cs'.distance \in {0, 1}
           /\ \A b \in out'.buttons : b.type = "gapAdjustCruise"
<1>1. PICK s \in Mazda!Signals : "distance" \in DOMAIN cs' /\ cs'.distance = s.distance
           /\ out'.buttons = Mazda!ButtonEdges(s.distance, cs.distance, [d \in {0, 1} |-> "gapAdjustCruise"], 0)
  BY DEF Mazda!Decode, Mazda!Decoded, Mazda!OutIdle
<1>2. s.distance \in {0, 1}
  BY DEF Mazda!Signals, Mazda!One, Mazda!Idle
<1>3. \A cur, prev, name, idle : Mazda!ButtonEdges(cur, prev, name, idle) = ButtonEdges(cur, prev, name, idle)
  BY DEF Mazda!ButtonEdges, ButtonEdges, Mazda!When, When, Mazda!Press, Press, Mazda!Release, Release
<1> QED  BY <1>1, <1>2, <1>3, GapEdges DEF GapName

LEMMA NissanGap ==
    ASSUME Nissan!Decode, cs.distance \in {0, 1}
    PROVE  /\ "distance" \in DOMAIN cs' /\ cs'.distance \in {0, 1}
           /\ \A b \in out'.buttons : b.type = "gapAdjustCruise"
<1>1. PICK s \in Nissan!Signals : "distance" \in DOMAIN cs' /\ cs'.distance = s.distance
           /\ out'.buttons = Nissan!ButtonEdges(s.distance, cs.distance, [d \in {0, 1} |-> "gapAdjustCruise"], 0)
  BY DEF Nissan!Decode, Nissan!Decoded, Nissan!OutIdle
<1>2. s.distance \in {0, 1}
  BY DEF Nissan!Signals, Nissan!One, Nissan!Idle
<1>3. \A cur, prev, name, idle : Nissan!ButtonEdges(cur, prev, name, idle) = ButtonEdges(cur, prev, name, idle)
  BY DEF Nissan!ButtonEdges, ButtonEdges, Nissan!When, When, Nissan!Press, Press, Nissan!Release, Release
<1> QED  BY <1>1, <1>2, <1>3, GapEdges DEF GapName

\* A handler tells of the buttons it has seen change, and remembers them.
LEMMA DecodeHeld ==
    ASSUME DecodePort, HeldInv, CP' = CP, held' = After(out'.buttons, held)
    PROVE  Alternate(out'.buttons, held) /\ HeldInv'
<1>1. CASE Is("gm") /\ Gm!Decode
  BY <1>1, GmButtons DEF HeldInv, Is, GapOnly, Quiet
<1>2. CASE Is("hyundai") /\ Hyundai!Decode
  <2>1. Hyundai!long' = Hyundai!long
    BY DEF Hyundai!long
  <2> QED  BY <1>2, <2>1, HyundaiButtons DEF HeldInv, Is, GapOnly, Quiet
<1>3. CASE \/ Is("volkswagen") /\ Volkswagen!Decode
           \/ Is("tesla") /\ Tesla!Decode
  BY <1>3, DownButtons DEF HeldInv, Is, GapOnly, Quiet
<1>4. CASE \/ Is("toyota") /\ Toyota!Decode
           \/ Is("ford") /\ Ford!Decode
           \/ Is("chrysler") /\ Chrysler!Decode
           \/ Is("mazda") /\ Mazda!Decode
           \/ Is("nissan") /\ Nissan!Decode
  <2>1. cs.distance \in {0, 1} /\ held = {} /\ GapOnly
    BY <1>4 DEF HeldInv, Is, GapOnly, Quiet
  <2>2. /\ "distance" \in DOMAIN cs' /\ cs'.distance \in {0, 1}
        /\ \A b \in out'.buttons : b.type = "gapAdjustCruise"
    BY <1>4, <2>1, ToyotaGap, FordGap, ChryslerGap, MazdaGap, NissanGap
  <2>3. Alternate(out'.buttons, held) /\ held' = {}
    BY <2>1, <2>2, GapIsQuiet
  <2> QED  BY <1>4, <2>2, <2>3 DEF HeldInv, Is, GapOnly, Quiet
<1>5. CASE \/ Is("honda") /\ Honda!Decode
           \/ Is("subaru") /\ Subaru!Decode
           \/ Is("body") /\ Body!Decode
  <2>1. held = {} /\ Quiet /\ ~GapOnly
    BY <1>5 DEF HeldInv, Is, GapOnly, Quiet
  <2>2. out'.buttons = {}
    <3>1. CASE Honda!Decode
      BY <3>1 DEF Honda!Decode, Honda!Decoded, Honda!OutIdle
    <3>2. CASE Subaru!Decode
      BY <3>2 DEF Subaru!Decode, Subaru!Decoded, Subaru!OutIdle
    <3>3. CASE Body!Decode
      BY <3>3 DEF Body!Decode, Body!Decoded, Body!OutIdle
    <3> QED  BY <1>5, <3>1, <3>2, <3>3
  <2>3. Alternate(out'.buttons, held) /\ held' = {}
    BY <2>1, <2>2, GapIsQuiet
  <2> QED  BY <2>1, <2>3 DEF HeldInv, Is, GapOnly, Quiet
<1> QED  BY <1>1, <1>2, <1>3, <1>4, <1>5 DEF DecodePort

LEMMA HeldInit == Init => HeldInv
<1> SUFFICES ASSUME Init  PROVE HeldInv
  OBVIOUS
<1>1. held = {}
  BY DEF Init
<1>2. CASE InitOf("gm", Gm!Params, Gm!CsInit, Gm!CtlInit)
  BY <1>2, <1>1, GmVariants DEF InitOf, Gm!CsInit, Gm!BUTTONS_DICT, CruiseTypes, HeldInv, Is, GapOnly, Quiet
<1>3. CASE InitOf("honda", Honda!Params, Honda!CsInit, Honda!CtlInit)
  BY <1>3, <1>1, HondaVariants DEF InitOf, Honda!CsInit, HeldInv, Is, GapOnly, Quiet
<1>4. CASE InitOf("toyota", Toyota!Params, Toyota!CsInit, Toyota!CtlInit)
  BY <1>4, <1>1, ToyotaVariants DEF InitOf, Toyota!CsInit, HeldInv, Is, GapOnly, Quiet
<1>5. CASE InitOf("hyundai", Hyundai!Params, Hyundai!CsInit, Hyundai!CtlInit)
  BY <1>5, <1>1, HyundaiVariants DEF InitOf, Hyundai!CsInit, Hyundai!BUTTONS_DICT, CruiseTypes, HeldInv, Is, GapOnly, Quiet
<1>6. CASE InitOf("volkswagen", Volkswagen!Params, Volkswagen!CsInit, Volkswagen!CtlInit)
  BY <1>6, <1>1, VolkswagenVariants DEF InitOf, Volkswagen!CsInit, HeldInv, Is, GapOnly, Quiet
<1>7. CASE InitOf("ford", Ford!Params, Ford!CsInit, Ford!CtlInit)
  BY <1>7, <1>1, FordVariants DEF InitOf, Ford!CsInit, HeldInv, Is, GapOnly, Quiet
<1>8. CASE InitOf("subaru", Subaru!Params, Subaru!CsInit, Subaru!CtlInit)
  BY <1>8, <1>1, SubaruVariants DEF InitOf, Subaru!CsInit, HeldInv, Is, GapOnly, Quiet
<1>9. CASE InitOf("chrysler", Chrysler!Params, Chrysler!CsInit, Chrysler!CtlInit)
  BY <1>9, <1>1, ChryslerVariants DEF InitOf, Chrysler!CsInit, HeldInv, Is, GapOnly, Quiet
<1>10. CASE InitOf("mazda", Mazda!Params, Mazda!CsInit, Mazda!CtlInit)
  BY <1>10, <1>1, MazdaVariants DEF InitOf, Mazda!CsInit, HeldInv, Is, GapOnly, Quiet
<1>11. CASE InitOf("nissan", Nissan!Params, Nissan!CsInit, Nissan!CtlInit)
  BY <1>11, <1>1, NissanVariants DEF InitOf, Nissan!CsInit, HeldInv, Is, GapOnly, Quiet
<1>12. CASE InitOf("tesla", Tesla!Params, Tesla!CsInit, Tesla!CtlInit)
  BY <1>12, <1>1, TeslaVariants DEF InitOf, Tesla!CsInit, HeldInv, Is, GapOnly, Quiet
<1>13. CASE InitOf("body", Body!Params, Body!CsInit, Body!CtlInit)
  BY <1>13, <1>1, BodyVariants DEF InitOf, Body!CsInit, HeldInv, Is, GapOnly, Quiet
<1> QED  BY <1>2, <1>3, <1>4, <1>5, <1>6, <1>7, <1>8, <1>9, <1>10, <1>11, <1>12, <1>13 DEF Init

\* The controllers leave the buttons of the CarState as they are.
LEMMA ApplyButtons ==
    ASSUME NEW cc, ApplyPort(cc)
    PROVE  \A field \in {"button", "distance", "down"} \cap DOMAIN cs : cs'[field] = cs[field]
<1>1. CASE Is("gm") /\ Gm!Apply(cc)
  BY <1>1 DEF Gm!Apply, Gm!AppliedWith
<1>2. CASE Is("honda") /\ Honda!Apply(cc)
  BY <1>2 DEF Honda!Apply, Honda!Applied, Honda!AppliedWith
<1>3. CASE Is("toyota") /\ Toyota!Apply(cc)
  BY <1>3 DEF Toyota!Apply, Toyota!AppliedWith
<1>4. CASE Is("hyundai") /\ Hyundai!Apply(cc)
  BY <1>4 DEF Hyundai!Apply, Hyundai!Applied, Hyundai!AppliedWith
<1>5. CASE Is("volkswagen") /\ Volkswagen!Apply(cc)
  BY <1>5 DEF Volkswagen!Apply, Volkswagen!Applied, Volkswagen!AppliedWith
<1>6. CASE Is("ford") /\ Ford!Apply(cc)
  BY <1>6 DEF Ford!Apply, Ford!Applied, Ford!AppliedWith
<1>7. CASE Is("subaru") /\ Subaru!Apply(cc)
  BY <1>7 DEF Subaru!Apply, Subaru!Applied, Subaru!AppliedWith
<1>8. CASE Is("chrysler") /\ Chrysler!Apply(cc)
  BY <1>8 DEF Chrysler!Apply, Chrysler!Applied, Chrysler!AppliedWith
<1>9. CASE Is("mazda") /\ Mazda!Apply(cc)
  BY <1>9 DEF Mazda!Apply, Mazda!Applied, Mazda!AppliedWith
<1>10. CASE Is("nissan") /\ Nissan!Apply(cc)
  BY <1>10 DEF Nissan!Apply, Nissan!Applied, Nissan!AppliedWith
<1>11. CASE Is("tesla") /\ Tesla!Apply(cc)
  BY <1>11 DEF Tesla!Apply, Tesla!AppliedWith
<1>12. CASE Is("body") /\ Body!Apply(cc)
  BY <1>12 DEF Body!Apply, Body!Applied, Body!AppliedWith
<1> QED  BY <1>1, <1>2, <1>3, <1>4, <1>5, <1>6, <1>7, <1>8, <1>9, <1>10, <1>11, <1>12 DEF ApplyPort

LEMMA HeldNext == SendsInv /\ HeldInv /\ [Next]_vars => HeldInv'
<1> SUFFICES ASSUME SendsInv, HeldInv, [Next]_vars  PROVE HeldInv'
  OBVIOUS
<1>1. CASE DecodePort /\ NoteDecode
  BY <1>1, DecodeClears, DecodeHeld DEF NoteDecode, ButtonTypes, After, TypesOf
<1>2. ASSUME NEW cc \in Controls, ApplyPort(cc), NoteApply  PROVE HeldInv'
  <2>1. CP' = CP /\ held' = held
    BY <1>2, ApplySends DEF SendsInv, NoteApply
  <2>2. DOMAIN cs' = DOMAIN cs
    BY <1>2, ApplyStock
  <2>3. Hyundai!long' = Hyundai!long
    BY <2>1 DEF Hyundai!long
  <2>4. "button" \in DOMAIN cs => cs'.button = cs.button
    BY <1>2, ApplyButtons
  <2>5. "distance" \in DOMAIN cs => cs'.distance = cs.distance
    BY <1>2, ApplyButtons
  <2>6. "down" \in DOMAIN cs => cs'.down = cs.down
    BY <1>2, ApplyButtons
  <2> QED  BY <2>1, <2>2, <2>3, <2>4, <2>5, <2>6 DEF HeldInv, Is, GapOnly, Quiet
<1>3. CASE UNCHANGED <<CP, cs, held>>
  <2>1. Hyundai!long' = Hyundai!long
    BY <1>3 DEF Hyundai!long
  <2> QED  BY <1>3, <2>1 DEF HeldInv, Is, GapOnly, Quiet
<1>4. CASE Skip /\ NoteSkip /\ UNCHANGED focus
  BY <1>3, <1>4 DEF Skip, NoteSkip
<1>5. CASE UNCHANGED vars
  BY <1>3, <1>5 DEF vars, port
<1> QED  BY <1>1, <1>2, <1>4, <1>5 DEF Next

\* The button events of a frame are consistent with those before it: the
\* buttons held, by the events, are those the CarState remembers as down.
THEOREM ButtonsAreConsistent == Spec => ButtonsAlternate
<1> DEFINE Step == pc = "decode" /\ pc' = "apply" =>
                     \A b \in out'.buttons : b.type \in CruiseTypes =>
                         IF b.pressed THEN b.type \notin held \/ Release(b.type) \in out'.buttons
                         ELSE b.type \in held
<1>1. Spec => []HeldInv
  BY HeldInit, HeldNext, SendsAlways, PTL DEF Spec
<1>2. SendsInv /\ HeldInv /\ [Next]_vars => [Step]_vars
  <2> SUFFICES ASSUME SendsInv, HeldInv, Next, pc = "decode"
               PROVE  Alternate(out'.buttons, held)
    BY DEF Alternate
  <2>1. CASE DecodePort /\ NoteDecode
    BY <2>1, DecodeClears, DecodeHeld DEF NoteDecode, ButtonTypes, After, TypesOf
  <2>2. ~Skip /\ \A cc \in Controls : ~ApplyPort(cc)
    BY ApplySends DEF Skip, SendsInv
  <2> QED  BY <2>1, <2>2 DEF Next
<1> QED  BY <1>1, <1>2, SendsAlways, PTL DEF Spec, ButtonsAlternate

-----------------------------------------------------------------------------
(* The counter of gm's steering messages.                                  *)

\* A message alone underway carries the controller's counter; when it has come
\* back and was counted, the controller is one ahead of what was on the bus.
CounterTyped ==
    /\ "flying" \in DOMAIN cs
    /\ ctl.lka \in 0 .. 3 /\ cs.pt \in 0 .. 3 /\ cs.flying \in Seq(0 .. 3) /\ apart \in 0 .. 2
CounterHeard ==
    /\ onBus # NoCtr => cs.seen
    /\ pc = "apply" /\ cs.back # <<>> => cs.since = 0
CounterApart ==
    /\ cs.flying = <<>> \/ cs.flying = <<ctl.lka>>
    /\ cs.flying # <<>> /\ pc = "apply" => cs.back = <<>>
    /\ cs.flying = <<>> /\ onBus # NoCtr =>
          ctl.lka = IF pc = "apply" /\ cs.back # <<>> THEN onBus ELSE (onBus + 1) % 4
CounterInRow == cs.flying # <<>> /\ onBus # NoCtr => ctl.lka = (onBus + 1) % 4
CounterInv ==
    Is("gm") => /\ CounterTyped /\ CounterHeard
                /\ apart # 0 => CounterApart
                /\ apart = 2 => CounterInRow

LEMMA NothingCut ==
    ASSUME NEW s \in Seq(0 .. 3), NEW from \in Nat, NEW to \in Nat, to <= from
    PROVE  SubSeq(s, from + 1, to) = <<>>
OBVIOUS

LEMMA CutIsTyped ==
    ASSUME NEW s \in Seq(0 .. 3), NEW from \in Nat, NEW to \in 0 .. Len(s)
    PROVE  SubSeq(s, from + 1, to) \in Seq(0 .. 3)
OBVIOUS

LEMMA WholeCut ==
    ASSUME NEW c \in 0 .. 3
    PROVE  Len(<<c>>) = 1 /\ SubSeq(<<c>>, 1, 1) = <<c>>
<1>1. Len(<<c>>) = 1 /\ <<c>>[1] = c /\ <<c>> \in Seq(0 .. 3)
  OBVIOUS
<1>2. SubSeq(<<c>>, 1, 1) \in Seq(0 .. 3) /\ Len(SubSeq(<<c>>, 1, 1)) = 1 /\ SubSeq(<<c>>, 1, 1)[1] = c
  BY <1>1
<1>3. ASSUME NEW s \in Seq(0 .. 3), NEW t \in Seq(0 .. 3), Len(s) = 1, Len(t) = 1, s[1] = t[1]
      PROVE  s = t
  BY <1>3
<1> QED  BY <1>1, <1>2, <1>3

\* What a frame of gm's CarState reads of its messages in flight.
LEMMA GmDecodes ==
    ASSUME Gm!Decode, cs.flying \in Seq(0 .. 3)
    PROVE  \E lost, done \in 0 .. Len(cs.flying) :
             /\ "flying" \in DOMAIN cs'
             /\ cs.seen => lost = 0
             /\ cs'.pt \in 0 .. 3
             /\ cs'.back = SubSeq(cs.flying, lost + 1, done)
             /\ cs'.flying = SubSeq(cs.flying, done + 1, Len(cs.flying))
             /\ cs'.seen = (cs.seen \/ lost < done)
             /\ lost < done => cs'.since = 0
<1>1. \A s \in Gm!Signals : s.pt \in {0, 2}
  BY DEF Gm!Signals, Gm!One, Gm!Idle, Gm!UNPRESS, Gm!BUTTONS_DICT
<1>2. PICK s \in Gm!Signals, lost \in Gm!Lost, done \in 0 .. Len(cs.flying) :
        /\ "flying" \in DOMAIN cs'
        /\ cs'.pt = IF CP.fwdCamera /\ ~cs.seen THEN s.pt ELSE 0
        /\ cs'.back = Gm!Cut(lost, done)
        /\ cs'.flying = Gm!Cut(done, Len(cs.flying))
        /\ cs'.seen = (cs.seen \/ lost < done)
        /\ cs'.since = IF lost < done THEN 0 ELSE Gm!UpTo(cs.since, 2)
  BY DEF Gm!Decode, Gm!Decoded
<1>3. cs'.pt \in 0 .. 3
  BY <1>1, <1>2
<1>4. lost \in 0 .. Len(cs.flying) /\ (cs.seen => lost = 0)
  BY DEF Gm!Lost
<1> QED  BY <1>2, <1>3, <1>4 DEF Gm!Cut

LEMMA CounterInit == Init => CounterInv
<1> SUFFICES ASSUME Init, Is("gm")  PROVE CounterInv
  BY DEF CounterInv
<1>1. cs = Gm!CsInit /\ ctl = Gm!CtlInit
  BY GmVariants, HondaVariants, ToyotaVariants, HyundaiVariants, VolkswagenVariants, FordVariants, SubaruVariants,
     ChryslerVariants, MazdaVariants, NissanVariants, TeslaVariants, BodyVariants DEF Init, InitOf, Is
<1>2. onBus = NoCtr /\ apart = 0 /\ pc = "decode"
  BY DEF Init
<1> QED  BY <1>1, <1>2 DEF CounterInv, CounterTyped, CounterHeard, Gm!CsInit, Gm!CtlInit

\* What comes back is what was underway, and is what the controller counts.
LEMMA CounterDecode ==
    ASSUME CounterInv, DecodePort, NoteDecode, Is("gm")
    PROVE  /\ CounterInv'
           /\ apart = 2 /\ onBus # NoCtr /\ cs'.back # <<>> => cs'.back = <<(onBus + 1) % 4>>
<1>1. Gm!Decode
  BY DEF DecodePort, Is
<1>2. pc = "decode" /\ pc' = "apply" /\ CP' = CP /\ ctl' = ctl
  BY DecodeClears
<1>3. /\ ctl.lka \in 0 .. 3 /\ cs.flying \in Seq(0 .. 3) /\ apart \in 0 .. 2
      /\ onBus # NoCtr => cs.seen
      /\ apart # 0 => /\ cs.flying = <<>> \/ cs.flying = <<ctl.lka>>
                      /\ cs.flying = <<>> /\ onBus # NoCtr => ctl.lka = (onBus + 1) % 4
      /\ apart = 2 /\ cs.flying # <<>> /\ onBus # NoCtr => ctl.lka = (onBus + 1) % 4
  BY <1>2 DEF CounterInv, CounterTyped, CounterHeard, CounterApart, CounterInRow
<1>4. PICK lost \in 0 .. Len(cs.flying), done \in 0 .. Len(cs.flying) :
        /\ "flying" \in DOMAIN cs'
        /\ cs.seen => lost = 0
        /\ cs'.pt \in 0 .. 3
        /\ cs'.back = SubSeq(cs.flying, lost + 1, done)
        /\ cs'.flying = SubSeq(cs.flying, done + 1, Len(cs.flying))
        /\ cs'.seen = (cs.seen \/ lost < done)
        /\ lost < done => cs'.since = 0
  BY <1>1, <1>3, GmDecodes
<1>5. /\ apart' = apart
      /\ onBus' = IF cs'.back # <<>> THEN cs'.back[Len(cs'.back)] ELSE onBus
  BY DEF NoteDecode
<1>6. Len(cs.flying) \in Nat
  BY <1>3
<1>7. cs'.back # <<>> => lost < done
  BY <1>3, <1>4, <1>6, NothingCut
<1>8. cs'.flying \in Seq(0 .. 3)
  BY <1>3, <1>4, <1>6, CutIsTyped
<1>9. (onBus # NoCtr => cs.seen)' /\ (cs'.back # <<>> => cs'.since = 0)
  BY <1>3, <1>4, <1>5, <1>7
<1>10. ASSUME apart # 0, cs.flying = <<>>
       PROVE  cs'.back = <<>> /\ cs'.flying = <<>>
  <2>1. Len(cs.flying) = 0
    BY <1>10
  <2> QED  BY <1>3, <1>4, <2>1, NothingCut
<1>11. ASSUME apart # 0, cs.flying # <<>>
       PROVE  /\ cs'.flying = <<>> \/ (cs'.flying = <<ctl.lka>> /\ cs'.back = <<>>)
              /\ cs'.back = <<>> \/ cs'.back = <<ctl.lka>>
              /\ cs'.flying = <<>> /\ cs'.back = <<>> => lost = 1
  <2>1. cs.flying = <<ctl.lka>> /\ Len(cs.flying) = 1
    BY <1>3, <1>11, WholeCut
  <2>2. SubSeq(cs.flying, 1, 1) = <<ctl.lka>>
    BY <1>3, <2>1, WholeCut
  <2>5. lost \in {0, 1} /\ done \in {0, 1}
    <3>1. \A n \in 0 .. 1 : n \in {0, 1}
      OBVIOUS
    <3> QED  BY <2>1, <3>1
  <2>3. CASE done = 0
    <3>1. cs'.back = <<>>
      BY <1>3, <1>4, <2>3, NothingCut
    <3>2. cs'.flying = <<ctl.lka>>
      BY <1>4, <2>1, <2>2, <2>3
    <3> QED  BY <3>1, <3>2
  <2>4. CASE done = 1
    <3>1. cs'.flying = <<>>
      BY <1>3, <1>4, <2>1, <2>4, NothingCut
    <3>2. CASE lost = 0
      BY <1>4, <2>2, <2>4, <3>1, <3>2
    <3>3. CASE lost = 1
      BY <1>3, <1>4, <2>4, <3>1, <3>3, NothingCut
    <3> QED  BY <2>5, <3>2, <3>3
  <2> QED  BY <2>3, <2>4, <2>5
<1>12. apart = 2 /\ onBus # NoCtr /\ cs'.back # <<>> => cs'.back = <<(onBus + 1) % 4>>
  BY <1>3, <1>10, <1>11
<1>13. ASSUME cs'.back = <<ctl.lka>>  PROVE cs'.back[Len(cs'.back)] = ctl.lka
  BY <1>3, <1>13
<1>14. ASSUME apart # 0
       PROVE  /\ cs'.flying = <<>> \/ cs'.flying = <<ctl.lka>>
              /\ cs'.flying # <<>> => cs'.back = <<>>
              /\ cs'.flying = <<>> /\ onBus' # NoCtr =>
                   ctl.lka = IF cs'.back # <<>> THEN onBus' ELSE (onBus' + 1) % 4
              /\ apart = 2 /\ cs'.flying # <<>> /\ onBus' # NoCtr => ctl.lka = (onBus' + 1) % 4
  <2>1. CASE cs.flying = <<>>
    BY <1>3, <1>5, <1>10, <1>14, <2>1
  <2>2. CASE cs.flying # <<>>
    <3>1. cs'.back # <<>> => onBus' = ctl.lka
      BY <1>5, <1>11, <1>13, <1>14, <2>2
    <3>2. cs'.back = <<>> => onBus' = onBus
      BY <1>5
    <3>3. cs'.flying = <<>> /\ cs'.back = <<>> => onBus = NoCtr
      BY <1>3, <1>4, <1>11, <1>14, <2>2
    <3> QED  BY <1>3, <1>11, <1>14, <2>2, <3>1, <3>2, <3>3
  <2> QED  BY <2>1, <2>2
<1>15. ctl'.lka = ctl.lka /\ apart' = apart
  BY <1>2, <1>5
<1>16. CounterTyped' /\ CounterHeard'
  BY <1>2, <1>3, <1>4, <1>8, <1>9, <1>15 DEF CounterTyped, CounterHeard
<1>17. apart # 0 => CounterApart'
  BY <1>2, <1>14, <1>15 DEF CounterApart
<1>18. apart = 2 => CounterInRow'
  BY <1>14, <1>15 DEF CounterInRow
<1>19. CounterInv'
  BY <1>15, <1>16, <1>17, <1>18 DEF CounterInv
<1> QED  BY <1>12, <1>19

\* A message is sent when none has just come back, with the counter as it is.
LEMMA CounterApply ==
    ASSUME CounterInv, NEW cc \in Controls, SendsInv, ApplyPort(cc), NoteApply, Is("gm")
    PROVE  CounterInv'
<1>1. Gm!Apply(cc)
  BY DEF ApplyPort, Is
<1>2. pc = "apply" /\ pc' = "decode" /\ CP' = CP
  BY ApplySends DEF SendsInv
<1>3. /\ "flying" \in DOMAIN cs
      /\ ctl.lka \in 0 .. 3 /\ cs.pt \in 0 .. 3 /\ cs.flying \in Seq(0 .. 3) /\ apart \in 0 .. 2
      /\ onBus # NoCtr => cs.seen
      /\ cs.back # <<>> => cs.since = 0
      /\ apart # 0 => /\ cs.flying = <<>> \/ cs.flying = <<ctl.lka>>
                      /\ cs.flying # <<>> => cs.back = <<>>
                      /\ cs.flying = <<>> /\ onBus # NoCtr =>
                           ctl.lka = IF cs.back # <<>> THEN onBus ELSE (onBus + 1) % 4
      /\ apart = 2 /\ cs.flying # <<>> /\ onBus # NoCtr => ctl.lka = (onBus + 1) % 4
  BY <1>2 DEF CounterInv, CounterTyped, CounterHeard, CounterApart, CounterInRow
<1>4. PICK steers, lka :
        /\ steers \in BOOLEAN
        /\ steers => cs.since # 0
        /\ lka = IF steers /\ ~cs.seen THEN (cs.pt + 1) % 4 ELSE Gm!LkaCounter
        /\ cs'.pt = cs.pt /\ cs'.seen = cs.seen /\ DOMAIN cs' = DOMAIN cs
        /\ "flying" \in DOMAIN cs => cs'.flying = IF steers THEN Append(cs.flying, lka) ELSE cs.flying
        /\ ctl'.lka = lka
  <2>1. PICK spaced \in Gm!SpacedOut :
          LET steers == ctl.sinceSteer >= Gm!SteerStep(cc) /\ spaced
              lka == IF steers /\ ~cs.seen THEN (cs.pt + 1) % 4 ELSE Gm!LkaCounter
              count == IF cc.cancel THEN Gm!UpTo(ctl.cancelCounter, Gm!CAMERA_CANCEL_DELAY_FRAMES + 1) ELSE 0
              long == CP.openpilotLongitudinalControl
              cancels == ~long /\ Gm!CancelDue(count)
          IN /\ cs' = [cs EXCEPT !.flying = IF steers THEN Append(@, lka) ELSE @]
             /\ ctl' = [frame |-> (ctl.frame + 1) % Slow,
                        sinceSteer |-> IF steers THEN 1 ELSE Gm!UpTo(ctl.sinceSteer, Slow),
                        sinceButton |-> IF cancels THEN 1 ELSE Gm!UpTo(ctl.sinceButton, Slow + 1),
                        cancelCounter |-> IF long THEN 0 ELSE count,
                        lka |-> lka]
    BY <1>1, Zenon DEF Gm!Apply, Gm!AppliedWith
  <2>2. spaced \in BOOLEAN /\ (spaced => cs.since # 0)
    BY DEF Gm!SpacedOut
  <2> DEFINE steers == (ctl.sinceSteer >= Gm!SteerStep(cc) /\ spaced)
             lka == IF steers /\ ~cs.seen THEN (cs.pt + 1) % 4 ELSE Gm!LkaCounter
             flying == IF steers THEN Append(cs.flying, lka) ELSE cs.flying
  <2>3. steers \in BOOLEAN /\ (steers => cs.since # 0)
    BY <2>2
  <2>4. cs' = [cs EXCEPT !.flying = flying]
    BY <2>1, Zenon
  <2>5. ctl'.lka = lka
    <3> HIDE DEF lka, flying
    <3> QED  BY <2>1 DEF lka
  <2>6. lka = IF steers /\ ~cs.seen THEN (cs.pt + 1) % 4 ELSE Gm!LkaCounter
    OBVIOUS
  <2>7. flying = IF steers THEN Append(cs.flying, lka) ELSE cs.flying
    OBVIOUS
  <2> HIDE DEF steers, lka, flying
  <2>8. /\ cs'.pt = cs.pt /\ cs'.seen = cs.seen /\ DOMAIN cs' = DOMAIN cs
        /\ "flying" \in DOMAIN cs => cs'.flying = flying
    BY <2>4
  <2> QED  BY <2>3, <2>5, <2>6, <2>7, <2>8
<1>5. Gm!LkaCounter = IF cs.back = <<>> THEN ctl.lka ELSE (ctl.lka + 1) % 4
  BY <1>3 DEF Gm!LkaCounter, Gm!Updated
<1>6. lka \in 0 .. 3
  BY <1>3, <1>4, <1>5
<1>7. /\ cs'.pt = cs.pt /\ cs'.seen = cs.seen /\ "flying" \in DOMAIN cs' /\ onBus' = onBus
      /\ cs'.flying = IF steers THEN Append(cs.flying, lka) ELSE cs.flying
  BY <1>3, <1>4 DEF NoteApply
<1>8. cs'.flying \in Seq(0 .. 3)
  BY <1>3, <1>6, <1>7
<1>9. apart' = IF cs'.flying = cs.flying THEN apart
               ELSE IF cs.flying = <<>> THEN UpTo(apart, 2) ELSE 0
  BY DEF NoteApply
<1>10. CASE ~steers
  <2>1. cs'.flying = cs.flying /\ apart' = apart /\ ctl'.lka = Gm!LkaCounter
    BY <1>4, <1>7, <1>9, <1>10
  <2>2. CounterTyped' /\ CounterHeard'
    BY <1>2, <1>3, <1>4, <1>6, <1>7, <1>8, <2>1 DEF CounterTyped, CounterHeard
  <2>3. apart # 0 => CounterApart'
    BY <1>2, <1>3, <1>5, <1>7, <2>1 DEF CounterApart
  <2>4. apart = 2 => CounterInRow'
    BY <1>3, <1>5, <1>7, <2>1 DEF CounterInRow
  <2> QED  BY <2>1, <2>2, <2>3, <2>4 DEF CounterInv
<1>11. CASE steers
  <2>1. cs.back = <<>> /\ (onBus # NoCtr => ctl'.lka = ctl.lka)
    BY <1>3, <1>4, <1>5, <1>11
  <2>2. cs'.flying = Append(cs.flying, lka) /\ cs'.flying # cs.flying /\ cs'.flying # <<>>
    <3>1. Len(Append(cs.flying, lka)) = Len(cs.flying) + 1 /\ Len(cs.flying) \in Nat
      BY <1>3, <1>6
    <3> QED  BY <1>7, <1>11, <3>1
  <2>3. CASE cs.flying = <<>>
    <3>1. cs'.flying = <<lka>>
      BY <1>6, <2>2, <2>3
    <3>2. apart' = UpTo(apart, 2) /\ apart' \in 0 .. 2 /\ (apart' = 2 => apart # 0)
      BY <1>3, <1>9, <2>2, <2>3 DEF UpTo
    <3>3. apart # 0 /\ onBus # NoCtr => ctl'.lka = (onBus + 1) % 4
      BY <1>3, <2>1, <2>3
    <3>4. CounterTyped' /\ CounterHeard'
      BY <1>2, <1>3, <1>4, <1>6, <1>7, <1>8, <3>2 DEF CounterTyped, CounterHeard
    <3>5. CounterApart'
      BY <1>2, <1>4, <3>1, <2>2 DEF CounterApart
    <3>6. apart' = 2 => CounterInRow'
      BY <1>7, <3>2, <3>3 DEF CounterInRow
    <3> QED  BY <3>4, <3>5, <3>6 DEF CounterInv
  <2>4. CASE cs.flying # <<>>
    <3>1. apart' = 0
      BY <1>9, <2>2, <2>4
    <3>2. CounterTyped' /\ CounterHeard'
      BY <1>2, <1>3, <1>4, <1>6, <1>7, <1>8, <3>1 DEF CounterTyped, CounterHeard
    <3> QED  BY <3>1, <3>2 DEF CounterInv
  <2> QED  BY <2>3, <2>4
<1> QED  BY <1>10, <1>11

\* A loopback in a frame that is skipped is forgotten, and what is known of it.
LEMMA CounterSkip ==
    ASSUME CounterInv, Skip, NoteSkip, Is("gm")
    PROVE  CounterInv'
<1>1. /\ pc = "apply" /\ pc' = "decode" /\ cs' = cs /\ ctl' = ctl /\ onBus' = onBus
      /\ apart' = IF cs.back # <<>> THEN 0 ELSE apart
  BY DEF Skip, NoteSkip
<1>2. /\ CounterTyped /\ CounterHeard
      /\ apart # 0 => CounterApart
      /\ apart = 2 => CounterInRow
  BY DEF CounterInv
<1>3. CounterTyped' /\ CounterHeard'
  BY <1>1, <1>2 DEF CounterTyped, CounterHeard
<1>4. apart' # 0 => CounterApart'
  BY <1>1, <1>2 DEF CounterApart
<1>5. apart' = 2 => CounterInRow'
  BY <1>1, <1>2 DEF CounterInRow
<1> QED  BY <1>3, <1>4, <1>5 DEF CounterInv

LEMMA CounterNext == SendsInv /\ CounterInv /\ [Next]_vars => CounterInv'
<1> SUFFICES ASSUME SendsInv, CounterInv, [Next]_vars  PROVE CounterInv'
  OBVIOUS
<1>1. CASE DecodePort /\ NoteDecode
  <2>1. CP' = CP
    BY <1>1, DecodeClears
  <2> QED  BY <1>1, <2>1, CounterDecode DEF CounterInv, Is
<1>2. ASSUME NEW cc \in Controls, ApplyPort(cc), NoteApply  PROVE CounterInv'
  <2>1. CP' = CP
    BY <1>2, ApplySends DEF SendsInv
  <2> QED  BY <1>2, <2>1, CounterApply DEF CounterInv, Is
<1>3. CASE Skip /\ NoteSkip
  <2>1. CP' = CP
    BY <1>3 DEF Skip
  <2> QED  BY <1>3, <2>1, CounterSkip DEF CounterInv, Is
<1>4. CASE UNCHANGED vars
  BY <1>4 DEF vars, port, CounterInv, CounterTyped, CounterHeard, CounterApart, CounterInRow, Is
<1> QED  BY <1>1, <1>2, <1>3, <1>4 DEF Next

\* gm's steering messages carry counters in a row, one after the other on the
\* bus, if the loopback of each was heard and counted before the next was sent.
THEOREM CountersAreFollowed == Spec => CountersFollow
<1> DEFINE Step == pc = "decode" /\ Is("gm") /\ apart = 2 /\ onBus # NoCtr /\ pc' = "apply" /\ cs'.back # <<>> =>
                     cs'.back = <<(onBus + 1) % 4>>
<1>1. Spec => []CounterInv
  BY CounterInit, CounterNext, SendsAlways, PTL DEF Spec
<1>2. SendsInv /\ CounterInv /\ [Next]_vars => [Step]_vars
  <2> SUFFICES ASSUME SendsInv, CounterInv, Next, pc = "decode", Is("gm"), apart = 2, onBus # NoCtr, cs'.back # <<>>
               PROVE  cs'.back = <<(onBus + 1) % 4>>
    OBVIOUS
  <2>1. CASE DecodePort /\ NoteDecode
    BY <2>1, CounterDecode
  <2>2. ~Skip /\ \A cc \in Controls : ~ApplyPort(cc)
    BY ApplySends DEF Skip, SendsInv
  <2> QED  BY <2>1, <2>2 DEF Next
<1> QED  BY <1>1, <1>2, SendsAlways, PTL DEF Spec, CountersFollow
=============================================================================
