----------------------------- MODULE SegmentLoad -----------------------------
(***************************************************************************)
(* What Replay relies on when it creates a Segment.  A load ends as loaded *)
(* or as failed, and stays so until the owner destroys the segment.  The   *)
(* owner is told "failed", on which it erases the segment for good, only   *)
(* when the load has failed; "ok" is a hint, on which it asks isLoaded().  *)
(***************************************************************************)

VARIABLES
    status,  \* "loading", "loaded", "failed" or "destroyed"
    told     \* what loadFinished told the owner last: "nothing", "ok", "failed"

Init == status = "loading" /\ told = "nothing"

Finish ==
    /\ status = "loading"
    /\ status' \in {"loaded", "failed"}
    /\ UNCHANGED told

Tell ==
    \/ status \in {"loading", "loaded"} /\ told' = "ok" /\ UNCHANGED status
    \/ status = "failed" /\ told' = "failed" /\ UNCHANGED status

Destroy ==
    /\ status # "destroyed"
    /\ status' = "destroyed"
    /\ UNCHANGED told

Next == Finish \/ Tell \/ Destroy

Spec == Init /\ [][Next]_<<status, told>>
=============================================================================
