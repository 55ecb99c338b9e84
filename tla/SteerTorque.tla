----------------------------- MODULE SteerTorque -----------------------------
(***************************************************************************)
(* The steering torque path of selfdrive/car: the limiters and             *)
(* common_fault_avoidance of __init__.py, as the CarController.update of   *)
(* the torque cars runs them once a frame (hyundai/carcontroller.py limits *)
(* by the driver's torque, toyota/carcontroller.py by the motor's).        *)
(*                                                                         *)
(* Torques are integers, in the units of the steering command.             *)
(***************************************************************************)
EXTENDS Integers

CONSTANTS
    SteerMax, DeltaUp, DeltaDown,  \* STEER_MAX, STEER_DELTA_UP, STEER_DELTA_DOWN
    Limited,                       \* what limits the torque: "driver" or "motor"
    Allowance, Multiplier, Factor, \* STEER_DRIVER_*
    ErrorMax,                      \* STEER_ERROR_MAX
    MaxAbove, MaxMismatch,         \* max_above_limit_frames, max_mismatching_frames
    Commands,                      \* torques that may be asked for
    Measured,                      \* torques that may be measured
    MaxCount                       \* bound: the history counters stop here

ASSUME LimitsAssumption ==
    /\ {SteerMax, DeltaUp, DeltaDown, ErrorMax} \subseteq Nat
    /\ {Allowance, Multiplier, Factor} \subseteq Nat
    /\ Limited \in {"driver", "motor"}
ASSUME FramesAssumption == {MaxAbove, MaxMismatch} \subseteq Nat \ {0}
ASSUME InputsAssumption == Commands \subseteq Int /\ Measured \subseteq Int
ASSUME CountAssumption  ==
    MaxCount \in Nat /\ MaxCount * DeltaUp >= SteerMax /\ MaxCount * DeltaDown >= SteerMax

VARIABLES
    torque,  \* apply_steer_last (last_steer): the torque sent in the last frame
    req,     \* apply_steer_req of the last frame
    above,   \* angle_limit_counter (steer_rate_counter)
    age,     \* history: frames since steering became active
    capped,  \* history: frames the measured torque has been Against a positive torque
    pushed,  \* history: the same, against a negative torque
    exposed, \* history: frames in a row with the request on above the limit
    cut      \* history: frames in a row with the request cut

history == <<age, capped, pushed, exposed, cut>>
vars == <<torque, req, above, history>>

-----------------------------------------------------------------------------
(* The limiters.                                                           *)

Least(a, b)    == IF a < b THEN a ELSE b
Greatest(a, b) == IF a > b THEN a ELSE b
Abs(a)         == IF a < 0 THEN -a ELSE a

\* numpy_fast.clip
Clip(x, lo, hi) == Greatest(lo, Least(hi, x))

\* Mutant of DriverMax: the driver's torque counts with the wrong sign.
DriverMaxFlipped(m) ==
    Greatest(Least(SteerMax, SteerMax + (Allowance - m * Factor) * Multiplier), 0)

\* max_steer_allowed and min_steer_allowed
DriverMax(m) == Greatest(Least(SteerMax, SteerMax + (Allowance + m * Factor) * Multiplier), 0)
DriverMin(m) == Least(Greatest(-SteerMax, -SteerMax + (-Allowance + m * Factor) * Multiplier), 0)

\* max_lim and min_lim of apply_dist_to_meas_limits
MotorMax(m) == Least(Greatest(m + ErrorMax, ErrorMax), SteerMax)
MotorMin(m) == Greatest(Least(m - ErrorMax, -ErrorMax), -SteerMax)

UpperLimit(m) == IF Limited = "driver" THEN DriverMax(m) ELSE MotorMax(m)
LowerLimit(m) == IF Limited = "driver" THEN DriverMin(m) ELSE MotorMin(m)

\* Mutant of RateLimit: up and down are swapped.
RateSwapped(x, last) ==
    IF last > 0
    THEN Clip(x, Greatest(last - DeltaUp, -DeltaDown), last + DeltaDown)
    ELSE Clip(x, last - DeltaDown, Least(last + DeltaUp, DeltaDown))

\* slow rate if steer torque increases in magnitude
RateLimit(x, last) ==
    IF last > 0
    THEN Clip(x, Greatest(last - DeltaDown, -DeltaUp), last + DeltaUp)
    ELSE Clip(x, last - DeltaUp, Least(last + DeltaDown, DeltaUp))

\* apply_driver_steer_torque_limits, apply_meas_steer_torque_limits
SteerTorqueLimits(x, last, m) == RateLimit(Clip(x, LowerLimit(m), UpperLimit(m)), last)

-----------------------------------------------------------------------------
(* common_fault_avoidance, from the condition, the request and the counter. *)

\* above_limit_frames after the increment
Above(fault, request, n) == IF request /\ fault THEN n + 1 ELSE 0

\* Mutant of RequestOut: one frame too late.
RequestLate(fault, request, n) == request /\ Above(fault, request, n) <= MaxAbove + 1

RequestOut(fault, request, n) == request /\ Above(fault, request, n) <= MaxAbove

AboveOut(fault, request, n) ==
    LET a == Above(fault, request, n)
    IN IF a >= MaxAbove + MaxMismatch THEN 0 ELSE a

-----------------------------------------------------------------------------
Init ==
    /\ torque = 0 /\ req = FALSE /\ above = 0
    /\ age = 0 /\ capped = 0 /\ pushed = 0 /\ exposed = 0 /\ cut = 0

\* The least the limiter ever allows to a side.
Floor == IF Limited = "driver" THEN 0 ELSE Least(ErrorMax, SteerMax)

Counted(n) == IF n < MaxCount THEN n + 1 ELSE n

\* The measured torque is so far against a positive command that none is left:
\* the driver pushes with all that the allowance leaves, or the motor is turned
\* the other way.  Against(-m) is the same for a negative command.
Against(m) ==
    IF Limited = "driver" THEN SteerMax + (Allowance + m * Factor) * Multiplier <= 0
                          ELSE m <= 0

\* One frame of CarController.update, with steering active or not.
Update(x, m, active, fault) ==
    /\ torque' = IF active THEN SteerTorqueLimits(x, torque, m) ELSE 0
    /\ req' = RequestOut(fault, active, above)
    /\ above' = AboveOut(fault, active, above)
    /\ age' = IF active THEN Counted(age) ELSE 0
    /\ capped' = IF Against(m) THEN Counted(capped) ELSE 0
    /\ pushed' = IF Against(-m) THEN Counted(pushed) ELSE 0
    /\ exposed' = IF fault /\ req' THEN exposed + 1 ELSE 0
    /\ cut' = IF active /\ ~req' THEN cut + 1 ELSE 0

Next == \E x \in Commands, m \in Measured, active \in BOOLEAN, fault \in BOOLEAN :
            Update(x, m, active, fault)

Spec == Init /\ [][Next]_vars

-----------------------------------------------------------------------------
(* Properties.                                                             *)

TypeOK ==
    /\ torque \in (-SteerMax)..SteerMax
    /\ req \in BOOLEAN
    /\ above \in 0..(MaxAbove + MaxMismatch - 1)
    /\ {age, capped, pushed} \subseteq 0..MaxCount
    /\ {exposed, cut} \subseteq Nat

\* However the command jumps and changes its sign, it takes STEER_MAX /
\* STEER_DELTA_UP frames of active steering to reach the full torque.
SoftStart == Abs(torque) <= age * DeltaUp

\* A driver who steers hard against the torque gets his way: it falls by
\* STEER_DELTA_DOWN a frame until nothing is left of it, whatever is commanded.
\* So does the torque of a motor that does not follow, down to STEER_ERROR_MAX.
DriverWins ==
    /\ torque <= Greatest(Floor, SteerMax - capped * DeltaDown)
    /\ -torque <= Greatest(Floor, SteerMax - pushed * DeltaDown)

\* The steering unit never sees the request for more than max_above_limit_frames
\* frames in a row above its limit, and never misses it for more than
\* max_mismatching_frames: neither the fault nor a loss of steering.
FaultAvoided == exposed <= MaxAbove /\ cut <= MaxMismatch
=============================================================================
