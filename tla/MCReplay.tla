------------------------------ MODULE MCReplay ------------------------------
(* Routes of four segments, or two with three events, for model checking     *)
(* Replay: a segment is two time units long and has its events at odd times. *)
EXTENDS Replay

MCEvents == {1, 3, 5, 7}
MCShort  == {0, 1, 3}
MCWhich  == [e \in Events |-> e % 4]
MCSame   == [e \in Events |-> 0]
MCDeltas == {-2}
=============================================================================
