------------------------------ MODULE MCCarLoop ------------------------------
EXTENDS CarLoop

\* A small instance of CarLoop: the commands controlsd gives, the carStates the
\* ports tell apart, and which variants of which port a run looks at.

Engaged == [NoControl EXCEPT !.enabled = TRUE, !.latActive = TRUE, !.longActive = TRUE, !.accel = 1]

MCControls ==
    {NoControl, Engaged,
     [NoControl EXCEPT !.cancel = TRUE, !.accel = 1],
     [Engaged EXCEPT !.latActive = FALSE],
     [Engaged EXCEPT !.longActive = FALSE, !.override = TRUE, !.accel = 0],
     [Engaged EXCEPT !.resume = TRUE, !.alert = TRUE, !.stopping = TRUE]}

\* One variant of each kind the controllers tell apart, each flag either way.
Few(cp) ==
    CASE cp.carName = "gm" -> ~cp.dashcamOnly /\ cp.enableBsm /\ ~cp.direct
      [] cp.carName = "toyota" -> cp.enableBsm = cp.car.TSS2 /\ cp.car.name \in {"other", "highlander", "prius_v"}
      [] cp.carName = "hyundai" -> /\ cp.enableBsm
                                     /\ cp.flags \in {{"SEND_LFA", "USE_FCA"}, {"EV", "CAMERA_SCC", "USE_FCA"},
                                                      {"CANFD", "CANFD_HDA2"}, {"CANFD", "CANFD_CAMERA_SCC"},
                                                      {"CANFD", "CANFD_HDA2", "CANFD_HDA2_ALT_STEERING"},
                                                      {"CANFD", "RADAR_SCC", "CANFD_ALT_BUTTONS"}}
      [] cp.carName = "volkswagen" -> /\ cp.enableBsm /\ cp.lowSteer /\ cp.transmissionType = "automatic"
                                        /\ ("STOCK_HCA_PRESENT" \in cp.flags) = (cp.networkLocation = "fwdCamera")
      [] cp.carName = "ford" -> cp.enableBsm /\ cp.transmissionType = "automatic" /\ (cp.dashcamOnly = ("CANFD" \in cp.flags))
      [] cp.carName = "subaru" -> cp.enableBsm /\ "LKAS_ANGLE" \notin cp.flags /\ "HYBRID" \notin cp.flags /\ "SEND_INFOTAINMENT" \notin cp.flags
      [] cp.carName = "chrysler" -> cp.enableBsm
      [] OTHER -> TRUE

\* Bound: gm's cancel presses and its loopback have nothing to do with one
\* another; a behaviour goes on with one or the other.
CancelsOrHears == Is("gm") => ~cs.seen \/ ctl.cancelCounter = 0

\* Bound: all variants run until they have sent their first messages, which are
\* those of every period, and Few of them run on.
FewGoOn == (Few(CP) /\ CancelsOrHears) \/ sent = {}
=============================================================================
