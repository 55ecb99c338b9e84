------------------------------- MODULE MCCard -------------------------------
EXTENDS Card

\* A small instance of Card: carStates that differ in what the events are derived
\* from, and the kinds of CarParams that card tells apart.

Pedals == {Blank,
           [Blank EXCEPT !.gasPressed = TRUE],
           [Blank EXCEPT !.brakePressed = TRUE],
           [Blank EXCEPT !.brakePressed = TRUE, !.standstill = TRUE],
           [Blank EXCEPT !.regenBraking = TRUE, !.cruiseEnabled = TRUE]}

Faults == {[Blank EXCEPT !.steerFaultTemporary = TRUE, !.steeringPressed = p,
                         !.cruiseEnabled = c] : p, c \in BOOLEAN}

Buttons == {[Blank EXCEPT !.buttons = {Release("accelCruise")}, !.conds = {"doorOpen", "brakeHold"}],
            [Blank EXCEPT !.buttons = {Press("cancel")}, !.allowEnable = FALSE,
                          !.cruiseEnabled = TRUE]}

MCCarStates == Pedals \cup Faults \cup Buttons

Config == [controller |-> TRUE, enabledToggle |-> TRUE, dashcamOnly |-> FALSE,
           safety |-> "toyota", pcmCruise |-> TRUE, disengageOnAccelerator |-> TRUE]

MCConfigs == {Config, [Config EXCEPT !.pcmCruise = FALSE, !.disengageOnAccelerator = FALSE],
              [Config EXCEPT !.dashcamOnly = TRUE]}
=============================================================================
