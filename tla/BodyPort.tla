------------------------------- MODULE BodyPort -------------------------------
(***************************************************************************)
(* selfdrive/car/body: the comma body, two motors under a balancing robot. *)
(* It is always engaged; what it does is up to the joystick's torques.     *)
(***************************************************************************)
EXTENDS Port

MAX_TORQUE == 2        \* in steps of MAX_TORQUE_RATE, 10 in the code
START_FRAMES == Slow   \* 5 s

Params == {[carName |-> "body", notCar |-> TRUE, pcmCruise |-> TRUE,
            openpilotLongitudinalControl |-> TRUE, safetyParam |-> {}]}
PandaLong == TRUE

Parsed == {"pt"} \X {"MOTORS_DATA", "VAR_VALUES", "BODY_DATA"}
Reads  == {"pt"} \X {"MOTORS_DATA", "VAR_VALUES", "BODY_DATA"}

\* the frame of the CarInterface
CsInit == [frame |-> 0]

\* wait for everything to init first; body always wants to enable
Decode ==
    Decoded([frame |-> UpTo(cs.frame, START_FRAMES + 1)],
            [OutIdle EXCEPT !.cruiseEnabled = TRUE,
                            !.events = When(cs.frame > START_FRAMES, {"pcmEnable"})])

-----------------------------------------------------------------------------
(* CarController.                                                          *)

\* torque_l_filtered, in steps of MAX_TORQUE_RATE; torque_r_filtered is alike
CtlInit == [filtered |-> 0]

\* What the speed and turn controllers ask for, within the rate limit.
Filtered(asked) ==
    IF asked > ctl.filtered THEN ctl.filtered + 1
    ELSE IF asked < ctl.filtered THEN ctl.filtered - 1 ELSE asked

Clip(torque) == IF torque > MAX_TORQUE THEN MAX_TORQUE ELSE IF torque < -MAX_TORQUE THEN -MAX_TORQUE ELSE torque

create_control(runs, torque) == Message("motor", "TORQUE_CMD", "none", runs, torque, NoCtr)

\* Frozen while disabled or without a valid pose.  What is clipped is what is
\* sent and not what is remembered, so the filter may wind up past the maximum.
\* Bound: what the controllers ask for.
Apply(cc) ==
    \E asked \in -(MAX_TORQUE + 1) .. MAX_TORQUE + 1, llkValid \in BOOLEAN :
        LET runs == cc.enabled /\ llkValid
        IN Applied(cc, [filtered |-> IF runs THEN Filtered(asked) ELSE ctl.filtered],
             {create_control(runs, IF runs THEN Clip(Filtered(asked)) ELSE 0)})
=============================================================================
