--------------------------- MODULE MCCameraServer ---------------------------
(* Two cameras and two segments of two frames.  Frame ids skip a value. The  *)
(* second camera appears in the second segment, where the first one has      *)
(* another size.                                                             *)
EXTENDS CameraServer

MCId   == [n \in 0..3 |-> IF n = 0 THEN 0 ELSE n + 1]
MCSize == [c \in {1, 2} |-> [s \in {0, 1} |-> IF c = 1 THEN s + 1 ELSE s]]
=============================================================================
