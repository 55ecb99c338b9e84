--------------------------- MODULE CanFingerprint ---------------------------
(***************************************************************************)
(* selfdrive/car/car_helpers.py: can_fingerprint, with fingerprints.py.    *)
(*                                                                         *)
(* A message stands for an address with a length.  Packets arrive one by   *)
(* one, each with messages of both buses; on each bus the cars that could  *)
(* not have sent them are eliminated.                                      *)
(***************************************************************************)
EXTENDS Integers, FiniteSets

CONSTANTS
    LegacyCars,       \* all_legacy_fingerprint_cars()
    Msgs,             \* messages on the buses
    Ignored,          \* extended messages and VIN query responses
    Fingerprints,     \* _FINGERPRINTS: for each car, sets of messages (a debug one in each)
    FrameFingerprint, \* FRAME_FINGERPRINT
    FrameLimit        \* 200: the search is given up

CanBuses == {0, 1}
NoCar == "none"

ASSUME FramesAssumption == {FrameFingerprint, FrameLimit} \subseteq Nat
ASSUME CanAssumption ==
    /\ Ignored \subseteq Msgs /\ IsFiniteSet(LegacyCars) /\ NoCar \notin LegacyCars
    /\ \A c \in LegacyCars : Fingerprints[c] \subseteq SUBSET Msgs

VARIABLES
    finger,           \* what was heard on each bus
    candidate_cars,   \* the cars left on each bus
    frame,            \* packets seen
    car_fingerprint   \* the answer, or NoCar

canVars == <<finger, candidate_cars, frame, car_fingerprint>>

ResetCan ==
    /\ finger' = [b \in CanBuses |-> {}]
    /\ candidate_cars' = [b \in CanBuses |-> LegacyCars]
    /\ frame' = 0 /\ car_fingerprint' = NoCar

CanInit ==
    /\ finger = [b \in CanBuses |-> {}]
    /\ candidate_cars = [b \in CanBuses |-> LegacyCars]
    /\ frame = 0 /\ car_fingerprint = NoCar

CouldSend(c, m) == \E f \in Fingerprints[c] : m \in f

\* Mutant of Eliminate: a packet without messages of the bus brings all cars back.
EliminateAfresh(cars, msgs) ==
    IF msgs = {} THEN LegacyCars
    ELSE {c \in cars : \A m \in msgs \ Ignored : CouldSend(c, m)}

\* eliminate_incompatible_cars, for the messages of one packet on one bus
Eliminate(cars, msgs) == {c \in cars : \A m \in msgs \ Ignored : CouldSend(c, m)}

\* the one car left on bus b
Only(cars, b) == Cardinality(cars[b]) = 1 /\ frame > FrameFingerprint

\* bus 1 is looked at last and has the last word
Decision(cars) ==
    IF Only(cars, 1) THEN CHOOSE c \in cars[1] : TRUE
    ELSE IF Only(cars, 0) THEN CHOOSE c \in cars[0] : TRUE ELSE NoCar

\* One packet, with the messages msgs[b] of each bus.
CanFrame(msgs) ==
    /\ finger' = [b \in CanBuses |-> finger[b] \union msgs[b]]
    /\ candidate_cars' = [b \in CanBuses |-> Eliminate(candidate_cars[b], msgs[b])]
    /\ car_fingerprint' = Decision(candidate_cars')
    /\ frame' = frame + 1

\* failed or succeeded, after a packet
CanDone ==
    \/ car_fingerprint # NoCar
    \/ frame > FrameLimit + 1
    \/ frame > FrameFingerprint + 1 /\ \A b \in CanBuses : candidate_cars[b] = {}
=============================================================================
