------------------------------ MODULE HondaPort ------------------------------
(***************************************************************************)
(* selfdrive/car/honda: a Civic without Honda Sensing, steered by a        *)
(* stepper servo on the column that takes a mode, an angle and a torque.   *)
(* Angles are signs (-1, 0, 1); the servo's rate limits and feed-forward   *)
(* torque are abstracted to whether they come to anything.                 *)
(***************************************************************************)
EXTENDS Port

\* _get_params leaves pcmCruise as get_std_params sets it
GetParams == [carName |-> "honda", pcmCruise |-> TRUE, openpilotLongitudinalControl |-> FALSE,
              dashcamOnly |-> FALSE, safetyParam |-> {}]
Params == {GetParams}
PandaLong == FALSE

Parsed == {"pt"} \X {"ENGINE_DATA", "WHEEL_SPEEDS", "POWERTRAIN_DATA", "CAR_SPEED", "VSA_STATUS"}
Reads  == {"pt"} \X {"CAR_SPEED", "WHEEL_SPEEDS"}

CsInit == [speed |-> 0]

\* standstill is computed before vEgoRaw is, of the new message's zero.
Decode ==
    \E v \in {0, 1} :
        LET o == [OutIdle EXCEPT !.standstill = TRUE]
        IN Decoded([speed |-> v], [o EXCEPT !.events = Engagement(o, EnableButtons, FALSE)])

\* frame, target_angle_delta and steer_tq_r
CtlInit == [frame |-> 0, delta |-> 0, torque |-> 0]

mode == 0   \* apply_steer_req
create_steer_command(cc) == Steer("STEERING_LKA", mode # 0, Amount(cc.latActive), NoCtr)

\* create_new_steer_command
Servo(delta, torque) == Steer("STEERING_COMMAND", mode # 0, IF delta = 0 /\ torque = 0 THEN 0 ELSE 1, NoCtr)

\* the cancel message of the falling edge
ServoCancel == Servo(0, 0)

\* On even frames: the servo gets the angle and the torque of the frame before,
\* then come the camera's steering message and what this frame has computed.
\* frame is never counted up, so every frame is even; the branch for the
\* falling edge of enabled, which also would have written last_* back, is not
\* reached and is left out.
Apply(cc) ==
    \E target \in {-1, 0, 1}, held \in {-1, 0, 1} :
        /\ ctl.frame % 2 = 0
        /\ Applied(cc, [ctl EXCEPT !.delta = target, !.torque = held],
             {Servo(ctl.delta, ctl.torque), create_steer_command(cc),
              Servo(target, held)})
=============================================================================
