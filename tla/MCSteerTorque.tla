---------------------------- MODULE MCSteerTorque ----------------------------
(* Commands and measured torques beyond the limit on both sides.             *)
EXTENDS SteerTorque

MCCommands == -9..9
MCMeasured == -10..10
=============================================================================
