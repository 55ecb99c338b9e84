------------------------------- MODULE CarLoop -------------------------------
(***************************************************************************)
(* Any one of the ports in card's loop: a carState is decoded, then a      *)
(* carControl is applied or the frame is skipped.  What is recorded beside *)
(* the port is what the car and the driver can see of it.                  *)
(***************************************************************************)
EXTENDS Port

CONSTANTS
    Brands     \* the ports to run

\* External: while enabled without longitudinal control, the driver overrides it.
\* (A car that keeps its own cruise control looks at neither.)
ASSUME ControlsAssumption ==
    \A cc \in Controls : cc.enabled /\ ~cc.longActive => cc.override

VARIABLES
    focus,   \* bound: what a behaviour is about, the "driver" or the "controls"
    held,    \* history: button types pressed and not released, by the button events
    answered,\* history: the stock message of now has had an answer of ours
    stuck,   \* history: steering messages in a row with one torque, not zero
    lkas,    \* history: chrysler's control bit on the bus, and the frames it has been so
    enabled, \* history: honda's controls were enabled when last applied
    onBus,   \* history: gm's counter of ours that was last on the bus, or NoCtr
    apart    \* history: gm's messages sent in a row with none of ours underway and
             \* the loopback of the one before counted, up to 2

vars == <<port, focus, held, answered, stuck, lkas, enabled, onBus, apart>>

Gm    == INSTANCE GmPort
Honda == INSTANCE HondaPort
Toyota == INSTANCE ToyotaPort
Hyundai == INSTANCE HyundaiPort
Volkswagen == INSTANCE VolkswagenPort
Ford == INSTANCE FordPort
Subaru == INSTANCE SubaruPort
Chrysler == INSTANCE ChryslerPort
Mazda == INSTANCE MazdaPort
Nissan == INSTANCE NissanPort
Tesla == INSTANCE TeslaPort
Body == INSTANCE BodyPort

InitOf(brand, params, csInit, ctlInit) ==
    /\ brand \in Brands
    /\ CP \in params /\ cs = csInit /\ ctl = ctlInit

Init ==
    /\ \/ InitOf("gm", Gm!Params, Gm!CsInit, Gm!CtlInit)
       \/ InitOf("honda", Honda!Params, Honda!CsInit, Honda!CtlInit)
       \/ InitOf("toyota", Toyota!Params, Toyota!CsInit, Toyota!CtlInit)
       \/ InitOf("hyundai", Hyundai!Params, Hyundai!CsInit, Hyundai!CtlInit)
       \/ InitOf("volkswagen", Volkswagen!Params, Volkswagen!CsInit, Volkswagen!CtlInit)
       \/ InitOf("ford", Ford!Params, Ford!CsInit, Ford!CtlInit)
       \/ InitOf("subaru", Subaru!Params, Subaru!CsInit, Subaru!CtlInit)
       \/ InitOf("chrysler", Chrysler!Params, Chrysler!CsInit, Chrysler!CtlInit)
       \/ InitOf("mazda", Mazda!Params, Mazda!CsInit, Mazda!CtlInit)
       \/ InitOf("nissan", Nissan!Params, Nissan!CsInit, Nissan!CtlInit)
       \/ InitOf("tesla", Tesla!Params, Tesla!CsInit, Tesla!CtlInit)
       \/ InitOf("body", Body!Params, Body!CsInit, Body!CtlInit)
    /\ pc = "decode" /\ out = OutIdle /\ CC = NoControl /\ sent = {}
    /\ focus \in {"driver", "controls"}
    /\ held = {} /\ answered = FALSE /\ stuck = 0 /\ lkas = [on |-> FALSE, frames |-> 0]
    /\ enabled = FALSE /\ onBus = NoCtr /\ apart = 0

Is(brand) == CP.carName = brand

DecodePort ==
    \/ Is("gm") /\ Gm!Decode
    \/ Is("honda") /\ Honda!Decode
    \/ Is("toyota") /\ Toyota!Decode
    \/ Is("hyundai") /\ Hyundai!Decode
    \/ Is("volkswagen") /\ Volkswagen!Decode
    \/ Is("ford") /\ Ford!Decode
    \/ Is("subaru") /\ Subaru!Decode
    \/ Is("chrysler") /\ Chrysler!Decode
    \/ Is("mazda") /\ Mazda!Decode
    \/ Is("nissan") /\ Nissan!Decode
    \/ Is("tesla") /\ Tesla!Decode
    \/ Is("body") /\ Body!Decode

ApplyPort(cc) ==
    \/ Is("gm") /\ Gm!Apply(cc)
    \/ Is("honda") /\ Honda!Apply(cc)
    \/ Is("toyota") /\ Toyota!Apply(cc)
    \/ Is("hyundai") /\ Hyundai!Apply(cc)
    \/ Is("volkswagen") /\ Volkswagen!Apply(cc)
    \/ Is("ford") /\ Ford!Apply(cc)
    \/ Is("subaru") /\ Subaru!Apply(cc)
    \/ Is("chrysler") /\ Chrysler!Apply(cc)
    \/ Is("mazda") /\ Mazda!Apply(cc)
    \/ Is("nissan") /\ Nissan!Apply(cc)
    \/ Is("tesla") /\ Tesla!Apply(cc)
    \/ Is("body") /\ Body!Apply(cc)

\* The buttons that engage, adjust or cancel: GM reports no press of the gap
\* button in the very first frame, but its release.
CruiseTypes == {"accelCruise", "decelCruise", "resumeCruise", "setCruise", "cancel", "altButton3"}

ButtonTypes(pressed) == {b.type : b \in {e \in out'.buttons : e.pressed = pressed}}

\* The counter of the stock message a press of ours is to follow.
HasStock == "stock" \in DOMAIN cs
Stock(state) == IF HasStock THEN state.stock ELSE 0

Torques(messages) == {m.val : m \in {x \in messages : x.kind = "steer"}}

Bits(messages) == {m.act : m \in {x \in messages : x.kind = "steer"}}

NoteDecode ==
    /\ held' = ((held \ ButtonTypes(FALSE)) \cup ButtonTypes(TRUE)) \cap CruiseTypes
    /\ onBus' = IF Is("gm") /\ cs'.back # <<>> THEN cs'.back[Len(cs'.back)] ELSE onBus
    /\ answered' = (answered /\ Stock(cs') = Stock(cs))
    /\ UNCHANGED <<stuck, lkas, enabled, apart>>

\* Tesla's answer to a message of the autopilot is one of its own in its place.
AnswerKind == IF Is("tesla") THEN "long" ELSE "button"

NoteApply ==
    /\ apart' = IF ~Is("gm") \/ cs'.flying = cs.flying THEN apart
                ELSE IF cs.flying = <<>> THEN UpTo(apart, 2) ELSE 0
    /\ answered' = (answered \/ (HasStock /\ \E m \in sent' : m.kind = AnswerKind))
    /\ stuck' = IF ~Is("volkswagen") \/ Torques(sent') = {} THEN stuck
                ELSE IF Torques(sent') = {0} THEN 0
                ELSE IF ctl'.torque = ctl.torque THEN stuck + 1 ELSE 1
    /\ lkas' = IF ~Is("chrysler") THEN lkas
               ELSE IF Bits(sent') \subseteq {lkas.on} THEN [lkas EXCEPT !.frames = UpTo(@, Chrysler!REST + 1)]
               ELSE [on |-> ~lkas.on, frames |-> 1]
    /\ enabled' = (Is("honda") /\ CC'.enabled)
    /\ UNCHANGED <<held, onBus>>

\* The loopback read in a frame that is skipped is never counted.
NoteSkip ==
    /\ apart' = IF Is("gm") /\ cs.back # <<>> THEN 0 ELSE apart
    /\ UNCHANGED <<held, answered, stuck, lkas, enabled, onBus>>

\* Bound: the driver presses buttons while the controller is not run, or
\* leaves them alone while it is.
Next ==
    \/ /\ DecodePort /\ NoteDecode
       /\ focus = "controls" => out'.buttons = {}
       /\ UNCHANGED focus
    \/ /\ focus = "controls"
       /\ \E cc \in Controls : ApplyPort(cc) /\ NoteApply
       /\ UNCHANGED focus
    \/ Skip /\ NoteSkip /\ UNCHANGED focus

Spec == Init /\ [][Next]_vars

-----------------------------------------------------------------------------
(* Properties.                                                             *)

TypeOK ==
    /\ pc \in {"decode", "apply"}
    /\ CC \in Controls \cup {NoControl}
    /\ \A m \in sent : m.kind \in {"steer", "long", "button", "ui", "motor"} /\ m.act \in BOOLEAN

\* The ports that pass the acceleration of the carControl on as it is.
PassesOn == \/ Is("toyota") \/ Is("tesla") \/ Is("ford")
            \/ Is("hyundai") /\ "CANFD" \notin CP.flags

\* With lateral control off no steering message asks for anything.  With
\* longitudinal control off no message asks for acceleration or braking,
\* whatever the limiters remember of the frames before, but for that which the
\* carControl itself asks for: toyota, tesla, ford and hyundai leave it to the
\* controls process to ask for none.  Chrysler's control bit, which follows the
\* speed, may stay on; the body's motors rest while disabled.
ActuatorsRest ==
    \A m \in sent :
        /\ m.kind = "steer" /\ ~CC.latActive /\ ~Is("honda") => m.val = 0 /\ (m.act => Is("chrysler"))
        /\ m.kind = "long" /\ ~CC.longActive => m.val = 0 \/ (PassesOn /\ CC.accel # 0)
        /\ m.kind = "motor" /\ ~CC.enabled => m.val = 0

PandaLong == CASE Is("gm") -> Gm!PandaLong [] Is("honda") -> Honda!PandaLong
    [] Is("toyota") -> Toyota!PandaLong
    [] Is("hyundai") -> Hyundai!PandaLong
    [] Is("volkswagen") -> Volkswagen!PandaLong
    [] Is("ford") -> Ford!PandaLong
    [] Is("subaru") -> Subaru!PandaLong
    [] Is("chrysler") -> Chrysler!PandaLong
    [] Is("mazda") -> Mazda!PandaLong
    [] Is("nissan") -> Nissan!PandaLong
    [] Is("tesla") -> Tesla!PandaLong
    [] Is("body") -> Body!PandaLong

\* Acceleration and braking are commanded only by ports whose safety
\* parameter lets the panda pass them on, and cruise buttons are pressed only
\* where the stock cruise control is the one in charge: get_params and the
\* controller agree on every variant of the car.
PandaAgrees ==
    \A m \in sent :
        /\ m.kind = "long" => CP.openpilotLongitudinalControl /\ PandaLong
        /\ m.kind = "button" => CP.pcmCruise

\* gm: two steering messages of ours in a row on the bus carry counters in a
\* row, neither repeated nor missed, however late the loopbacks come, frames
\* are skipped and the camera or the message rate changes: so long as neither
\* was sent while another was underway, and the loopback of the first was read
\* in a frame that card did not skip.  (The code loses count in those: both
\* messages then carry the same counter.)
CountersFollow ==
    [][pc = "decode" /\ Is("gm") /\ apart = 2 /\ onBus # NoCtr /\ pc' = "apply" /\ cs'.back # <<>> =>
        cs'.back = <<(onBus + 1) % 4>>]_vars

\* What the events say of the cruise buttons is consistent: none is released
\* that was not pressed, or pressed again before it was released, so an
\* engagement on a release is always one the driver began.
ButtonsAlternate ==
    [][pc = "decode" /\ pc' = "apply" =>
        \A b \in out'.buttons : b.type \in CruiseTypes =>
            IF b.pressed THEN b.type \notin held \/ Release(b.type) \in out'.buttons
            ELSE b.type \in held]_vars

Reads  == CASE Is("gm") -> Gm!Reads [] Is("honda") -> Honda!Reads
    [] Is("toyota") -> Toyota!Reads
    [] Is("hyundai") -> Hyundai!Reads
    [] Is("volkswagen") -> Volkswagen!Reads
    [] Is("ford") -> Ford!Reads
    [] Is("subaru") -> Subaru!Reads
    [] Is("chrysler") -> Chrysler!Reads
    [] Is("mazda") -> Mazda!Reads
    [] Is("nissan") -> Nissan!Reads
    [] Is("tesla") -> Tesla!Reads
    [] Is("body") -> Body!Reads
Parsed == CASE Is("gm") -> Gm!Parsed [] Is("honda") -> Honda!Parsed
    [] Is("toyota") -> Toyota!Parsed
    [] Is("hyundai") -> Hyundai!Parsed
    [] Is("volkswagen") -> Volkswagen!Parsed
    [] Is("ford") -> Ford!Parsed
    [] Is("subaru") -> Subaru!Parsed
    [] Is("chrysler") -> Chrysler!Parsed
    [] Is("mazda") -> Mazda!Parsed
    [] Is("nissan") -> Nissan!Parsed
    [] Is("tesla") -> Tesla!Parsed
    [] Is("body") -> Body!Parsed

\* Every message a CarState looks into is one its parser has been told of,
\* on every variant of the car: one that is not would end the process.
ReadsAreParsed == Reads \subseteq Parsed

\* volkswagen: the rack refuses a torque that stays the same for too long, so
\* none does, however lateral control comes and goes.
TorqueMoves == Is("volkswagen") => stuck <= Slow \div Volkswagen!STEER_STEP + 1

\* chrysler: the power steering faults if its control bit comes on again too
\* soon after it fell, or if a torque comes with the bit or ahead of it.
LkasRests ==
    [][pc = "apply" /\ Is("chrysler") =>
        \A m \in sent' : m.kind = "steer" =>
            /\ m.act /\ ~lkas.on => lkas.frames >= Chrysler!REST
            /\ m.val # 0 => m.act /\ lkas.on]_vars

\* Each message of the stock buttons (tesla: of the autopilot) is answered by
\* one of ours at most.
AnsweredOnce ==
    [][pc = "apply" /\ HasStock /\ answered => \A m \in sent' : m.kind # AnswerKind]_vars

\* What carcontroller.py:99 of the honda port says: on the falling edge of
\* enabled the servo is sent a cancel message, of no angle and no torque.
CancelOnFallingEdge ==
    [][pc = "apply" /\ pc' = "decode" /\ enabled /\ ~enabled' =>
        Honda!ServoCancel \in sent']_vars
=============================================================================
