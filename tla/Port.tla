-------------------------------- MODULE Port --------------------------------
(***************************************************************************)
(* What the ports in selfdrive/car/<brand> have in common.  A port is two  *)
(* handlers that card calls in turn at 100 Hz: Decode, which is            *)
(* CarInterface._update with the CarState.update it calls, and Apply,      *)
(* CarController.update.  Each port says which signals its car may send;   *)
(* a signal at a time departs from Idle, and the memory of the port brings *)
(* them together over the frames.                                          *)
(***************************************************************************)
EXTENDS CarInterface, Sequences, TLC

CONSTANTS
    Slow,      \* stands for every period and delay of 5 frames and more
    Controls   \* the carControl the controls process may send

\* The code's frame never comes round.  That of the model is counted modulo a
\* multiple of Slow, and the counters told from it, modulo 4 at most, must come
\* round with it.
ASSUME SlowAssumption == Slow \in Nat \ {0} /\ Slow % 4 = 0

VARIABLES
    CP,    \* the carParams of the port
    pc,    \* the handler that is next: "decode" or "apply"
    cs,    \* the memory of the CarState
    out,   \* CS.out as the controller and the events see it
    ctl,   \* the memory of the CarController
    CC,    \* the carControl last applied
    sent   \* the CAN messages of the last Apply

port == <<CP, pc, cs, out, ctl, CC, sent>>

-----------------------------------------------------------------------------
(* CAN messages, by what the properties tell apart: act is the request (or *)
(* active) bit, val the torque, angle or acceleration asked for, ctr the   *)
(* rolling counter where the controller keeps one, what the button.        *)

NoCtr == -1
Message(kind, name, what, act, val, ctr) ==
    [kind |-> kind, name |-> name, what |-> what, act |-> act, val |-> val, ctr |-> ctr]

Steer(name, act, val, ctr)  == Message("steer", name, "none", act, val, ctr)
Long(name, act, val)        == Message("long", name, "none", act, val, NoCtr)
Button(name, what, ctr)     == Message("button", name, what, TRUE, 0, ctr)
Ui(name)                    == Message("ui", name, "none", FALSE, 0, NoCtr)

\* What a limiter or a lookup comes to: something, if anything is asked for.
Amount(asked) == IF asked THEN 1 ELSE 0

\* The acceleration of the carControl, clipped and passed on.
Accel(cc) == Amount(cc.accel # 0)

\* A record of signals with one of them set to each of the values.
One(idle, field, values) == {[idle EXCEPT ![field] = v] : v \in values}

UpTo(n, most) == IF n < most THEN n + 1 ELSE most

\* common_fault_avoidance: the count of frames above a limit, and whether the
\* request is still on; it is cut for `cut` frames after `most` of them.
AboveLimit(fault, request, n) == IF request /\ fault THEN n + 1 ELSE 0
NotCut(fault, request, n, most) == request /\ AboveLimit(fault, request, n) <= most
NextAbove(fault, request, n, most, cut) ==
    IF AboveLimit(fault, request, n) >= most + cut THEN 0 ELSE AboveLimit(fault, request, n)

\* frame % n = 0, for a frame counted modulo a multiple of n
Every(n) == ctl.frame % n = 0

-----------------------------------------------------------------------------
(* The carState of a port.                                                 *)

OutIdle == [cruiseEnabled |-> FALSE, standstill |-> FALSE, gasPressed |-> FALSE,
            brakePressed |-> FALSE, steeringPressed |-> FALSE, steerFaultTemporary |-> FALSE,
            buttons |-> {}, events |-> {}]

\* The engagement events of create_common_events, with the port's enable
\* buttons and whether its cruise control engages.
EngagementIf(o, enabling, pcmEnable, allowEnable) ==
    ButtonEvents(CP, o, enabling)
    \cup PcmEvents([pcmEnable |-> pcmEnable],
                   [cruiseEnabled |-> o.cruiseEnabled, allowEnable |-> allowEnable], out)
Engagement(o, enabling, pcmEnable) == EngagementIf(o, enabling, pcmEnable, TRUE)

\* Each handler clears what only it and the properties look at, so that the
\* past is in cs, ctl and what events remember of out.
Remembered(o) == [OutIdle EXCEPT !.cruiseEnabled = o.cruiseEnabled]

NoControl == [enabled |-> FALSE, latActive |-> FALSE, longActive |-> FALSE,
              override |-> FALSE, accel |-> 0,
              cancel |-> FALSE, resume |-> FALSE, stopping |-> FALSE, alert |-> FALSE]
Decoded(newCs, newOut) ==
    /\ pc = "decode" /\ pc' = "apply"
    /\ cs' = newCs /\ out' = newOut
    /\ CC' = NoControl /\ sent' = {}
    /\ UNCHANGED <<CP, ctl>>

AppliedWith(cc, newCs, newCtl, messages) ==
    /\ pc = "apply" /\ pc' = "decode"
    /\ CC' = cc /\ cs' = newCs /\ ctl' = newCtl /\ sent' = messages
    /\ out' = Remembered(out)
    /\ UNCHANGED CP

Applied(cc, newCtl, messages) == AppliedWith(cc, cs, newCtl, messages)

\* card does not call the controller before controls are ready (card.py:170)
\* or when carControl is late (card.py:153).
Skip ==
    /\ pc = "apply" /\ pc' = "decode"
    /\ out' = Remembered(out)
    /\ UNCHANGED <<CP, cs, ctl, CC, sent>>

=============================================================================
