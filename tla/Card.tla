-------------------------------- MODULE Card --------------------------------
(***************************************************************************)
(* selfdrive/car/card.py: the process that turns CAN into carState and     *)
(* carControl into CAN.  A step reads the bus, publishes the carState and, *)
(* when controls are ready, applies the last carControl it has read.  The  *)
(* controls process runs beside it: it answers a carState with a           *)
(* carControl whenever it is scheduled, may be silent, and may restart.    *)
(***************************************************************************)
EXTENDS CarInterface

CONSTANTS
    Configs,      \* CarParams the interface may return (see CarParamsOf)
    CarStates,    \* what the interface may decode from CAN
    AliveFrames,  \* frames after which all_alive calls carControl dead
    InitFrames,   \* bound: frames CI.init may block, see took
    MaxAge        \* bound: ages are counted up to here

ASSUME AliveAssumption == AliveFrames \in Nat \ {0}
ASSUME BoundAssumption ==
    InitFrames \in Nat /\ MaxAge \in Nat /\ MaxAge > AliveFrames + 1 + InitFrames

VARIABLES
    CP,               \* carParams, with passive set
    pc,               \* the next part of step: "update", "publish", "control", "apply"
    CS, CSprev,       \* the carState of this step and CS_prev
    warn,             \* the interface's steering alert state
    events,           \* the events of CS
    initializedPrev,  \* initialized_prev
    onroad,           \* sm['onroadEvents'] as last read: "unseen", "initializing", "ready"
    onroadWire,       \* the onroadEvents last published
    held,             \* sm['carControl']: frames since the carState it answers, or None
    wire,             \* the carControl published and not yet read, or None
    quiet,            \* frames since a carControl was read, as sm.update last saw it
    lag,              \* frames CI.init has kept the next carState waiting
    sent,             \* ages of the carControl applied in the last control update
    inits,            \* history: runs of CI.init since controls were seen initializing
    since,            \* history: steps since CI.init, up to AliveFrames + 2
    took,             \* history: frames CI.init took in the last AliveFrames + 1 steps
    steered           \* history: the driver has steered during the present fault

history == <<inits, since, took>>
control == <<initializedPrev, onroad, onroadWire, held, wire, quiet, lag, sent, history>>
vars == <<CP, pc, CS, CSprev, warn, events, control, steered>>

None == -1

\* The car that is parked, of a new message.
Blank == [gasPressed |-> FALSE, brakePressed |-> FALSE, regenBraking |-> FALSE,
          standstill |-> FALSE, steeringPressed |-> FALSE, steerFaultTemporary |-> FALSE,
          cruiseEnabled |-> FALSE, allowEnable |-> TRUE, buttons |-> {}, conds |-> {}]

\* __init__: a car without a controller, one switched off and a dashcam only
\* car are passive, and their panda is told to allow no output.
CarParamsOf(c) ==
    LET passive == ~c.controller \/ ~c.enabledToggle \/ c.dashcamOnly
    IN [passive |-> passive,
        safety |-> IF passive THEN "noOutput" ELSE c.safety,
        pcmCruise |-> c.pcmCruise, pcmEnable |-> c.pcmCruise,
        openpilotLongitudinalControl |-> ~c.pcmCruise,
        disengageOnAccelerator |-> c.disengageOnAccelerator]

Init ==
    /\ CP \in {CarParamsOf(c) : c \in Configs}
    /\ pc = "update"
    /\ CS = Blank /\ CSprev = Blank
    /\ warn = WarnInit /\ events = {}
    /\ initializedPrev = FALSE
    /\ onroad = "unseen" /\ onroadWire \in {"unseen", "initializing"}
    /\ held = None /\ wire = None /\ quiet = AliveFrames /\ lag = 0
    /\ sent = {} /\ inits = 0 /\ since = AliveFrames + 2 /\ took = 0
    /\ steered = FALSE

-----------------------------------------------------------------------------
(* update_events.                                                          *)

\* Disable on rising edge of accelerator or brake. Also disable on brake when
\* speed > 0
PedalPressed(cs) ==
    \/ cs.gasPressed /\ ~CSprev.gasPressed /\ CP.disengageOnAccelerator
    \/ cs.brakePressed /\ (~CSprev.brakePressed \/ ~cs.standstill)
    \/ cs.regenBraking /\ (~CSprev.regenBraking \/ ~cs.standstill)

UpTo(bound, n) == IF n < bound THEN n ELSE bound

\* state_update and update_events.  CS still holds the carState of the
\* previous step, which is the interface's CS.out.
StateUpdate ==
    /\ pc = "update" /\ pc' = "publish"
    /\ \E cs \in CarStates :
         /\ CS' = cs
         /\ events' = CommonEvents(CP, warn, cs, CS, EnableButtons)
                      \cup When(PedalPressed(cs), {"pedalPressed"})
         /\ warn' = NextWarn(warn, cs, CS)
         /\ steered' = (cs.steerFaultTemporary
                        /\ (cs.steeringPressed \/ (steered /\ CS.steerFaultTemporary)))
    /\ onroad' = onroadWire
    /\ held' = IF wire # None THEN wire ELSE held
    /\ wire' = None
    /\ quiet' = IF wire # None THEN 0 ELSE UpTo(AliveFrames, quiet + 1 + lag)
    /\ inits' = IF onroadWire = "ready" THEN inits ELSE 0
    /\ since' = UpTo(AliveFrames + 2, since + 1)
    /\ took' = IF since' = AliveFrames + 2 THEN 0 ELSE took
    /\ UNCHANGED <<CP, CSprev, initializedPrev, onroadWire, lag, sent>>

\* a carControl that n more frames have passed over
Older(age, n) == IF age = None THEN None ELSE UpTo(MaxAge, age + n)

\* state_publish: what has not been answered is a frame older.
StatePublish ==
    /\ pc = "publish" /\ pc' = "control"
    /\ held' = Older(held, 1) /\ wire' = Older(wire, 1)
    /\ lag' = 0
    /\ UNCHANGED <<CP, CS, CSprev, warn, events, initializedPrev, onroad, onroadWire,
                   quiet, sent, history, steered>>

\* Mutant of Alive: a carControl stays good for ever.
Received == held # None

\* sm.all_alive(['carControl']), which sm.update computed at the start of the
\* step
Alive == held # None /\ quiet < AliveFrames

\* Mutant of Starting: the interface is initialized whenever controls are.
Always == TRUE

\* not initialized_prev
Starting == ~initializedPrev

initialized == onroad = "ready"

Controlled == ~CP.passive /\ initialized

\* CI.init, once controls are ready: it may talk to the car for many frames,
\* during which card neither reads nor publishes.
InitCar ==
    /\ pc = "control" /\ pc' = "apply"
    /\ Controlled /\ Starting
    /\ \E n \in 0 .. (InitFrames - took) :
         /\ held' = Older(held, n) /\ wire' = Older(wire, n)
         /\ lag' = n /\ took' = took + n
    /\ inits' = inits + 1 /\ since' = 0
    /\ UNCHANGED <<CP, CS, CSprev, warn, events, initializedPrev, onroad, onroadWire,
                   quiet, sent, steered>>

\* The rest of controls_update and the end of step.
ControlsUpdate ==
    /\ pc = "apply" \/ (pc = "control" /\ ~Starting)
    /\ pc' = "update"
    /\ Controlled
    /\ sent' = When(Alive, {held})
    /\ initializedPrev' = initialized
    /\ CSprev' = CS
    /\ UNCHANGED <<CP, CS, warn, events, onroad, onroadWire, held, wire, quiet, lag,
                   history, steered>>

SkipControls ==
    /\ pc = "control" /\ pc' = "update"
    /\ ~Controlled
    /\ sent' = {}
    /\ initializedPrev' = initialized
    /\ CSprev' = CS
    /\ UNCHANGED <<CP, CS, warn, events, onroad, onroadWire, held, wire, quiet, lag,
                   history, steered>>

-----------------------------------------------------------------------------
(* The controls process: external, from how card uses its messages.        *)

\* It answers the latest carState, which is old while card is in CI.init.
ControlsAnswers ==
    /\ onroadWire \in {"initializing", "ready"}
    /\ wire' = lag
    /\ UNCHANGED <<CP, pc, CS, CSprev, warn, events, initializedPrev, onroad, onroadWire,
                   held, quiet, lag, sent, history, steered>>

\* It starts, is ready, or restarts.
ControlsTurns ==
    /\ onroadWire' = IF onroadWire = "initializing" THEN "ready" ELSE "initializing"
    /\ UNCHANGED <<CP, pc, CS, CSprev, warn, events, initializedPrev, onroad, held, wire,
                   quiet, lag, sent, history, steered>>

Next ==
    \/ StateUpdate
    \/ StatePublish
    \/ InitCar
    \/ ControlsUpdate
    \/ SkipControls
    \/ ControlsAnswers
    \/ ControlsTurns

Spec == Init /\ [][Next]_vars

-----------------------------------------------------------------------------
(* Properties.                                                             *)

TypeOK ==
    /\ pc \in {"update", "publish", "control", "apply"}
    /\ CS \in CarStates \cup {Blank} /\ CSprev \in CarStates \cup {Blank}
    /\ warn \in [unpressed : 0 .. OverrideFrames, noWarning : BOOLEAN, silent : BOOLEAN]
    /\ initializedPrev \in BOOLEAN /\ steered \in BOOLEAN
    /\ {onroad, onroadWire} \subseteq {"unseen", "initializing", "ready"}
    /\ held \in {None} \cup 0 .. MaxAge /\ wire \in {None} \cup 0 .. MaxAge
    /\ quiet \in 0 .. AliveFrames /\ inits \in 0 .. 1 /\ since \in 0 .. (AliveFrames + 2)
    /\ lag \in 0 .. took /\ took \in 0 .. InitFrames
    /\ sent \subseteq 0 .. MaxAge

\* Commands wait for CI.init: whenever a command goes out, the interface has
\* been initialized exactly once since controls were last seen initializing
\* (card.py:146-157, the knockout of the stock radar is in CI.init), and a
\* passive car is never initialized and never commanded (card.py:64, 170).
InitOncePerStart ==
    /\ inits <= 1
    /\ sent # {} /\ pc = "update" => inits = 1
    /\ CP.passive => inits = 0 /\ sent = {}

\* However the controls process was scheduled, restarted or lost, a command on
\* the bus answers a carState that is at most AliveFrames + 1 frames old plus
\* what CI.init took in this step and the AliveFrames + 1 before it (card.py:149,
\* 153): all_alive is older than CI.init, and what controls sent meanwhile
\* answers the carState from before it.
FreshCommand == pc = "update" => \A age \in sent : age <= AliveFrames + 1 + took

\* Once the driver has steered during a temporary steering fault, the harsh
\* alert is not shown again until the fault is over (interfaces.py:322-326),
\* in whatever order the fault and the override began.
OverrideSoftens == steered => "steerTempUnavailable" \notin events
=============================================================================
