-------------------------- MODULE SteerTorqueProofs --------------------------
(* Theorems about SteerTorque, for all limits, commands and measurements.    *)
EXTENDS SteerTorque, TLAPS

-----------------------------------------------------------------------------
(* The limits of one frame.                                                *)

\* The driver's and the motor's limits lie on their side of zero, within
\* STEER_MAX.
LEMMA LimitsType ==
    ASSUME NEW m \in Int
    PROVE  /\ UpperLimit(m) \in 0..SteerMax
           /\ LowerLimit(m) \in (-SteerMax)..0
           /\ Floor \in 0..SteerMax
<1>1. /\ SteerMax \in Nat /\ ErrorMax \in Nat
      /\ Allowance \in Nat /\ Multiplier \in Nat /\ Factor \in Nat
  BY LimitsAssumption
<1>2. PICK p \in Int : p = (Allowance + m * Factor) * Multiplier
  BY <1>1
<1>3. PICK n \in Int : n = (-Allowance + m * Factor) * Multiplier
  BY <1>1
<1>4. DriverMax(m) \in 0..SteerMax
  <2>1. DriverMax(m) = Greatest(Least(SteerMax, SteerMax + p), 0)
    BY <1>2 DEF DriverMax
  <2> QED BY <1>1, <2>1 DEF Greatest, Least
<1>5. DriverMin(m) \in (-SteerMax)..0
  <2>1. DriverMin(m) = Least(Greatest(-SteerMax, -SteerMax + n), 0)
    BY <1>3 DEF DriverMin
  <2> QED BY <1>1, <2>1 DEF Greatest, Least
<1>6. MotorMax(m) \in 0..SteerMax /\ MotorMin(m) \in (-SteerMax)..0
  BY <1>1 DEF MotorMax, MotorMin, Greatest, Least
<1>7. Floor \in 0..SteerMax
  BY <1>1 DEF Floor, Least
<1> QED BY <1>4, <1>5, <1>6, <1>7 DEF UpperLimit, LowerLimit

\* A measured torque against one side leaves no more than Floor to it.
LEMMA AgainstLimits ==
    ASSUME NEW m \in Int
    PROVE  /\ Against(m) => UpperLimit(m) <= Floor
           /\ Against(-m) => -LowerLimit(m) <= Floor
<1>1. /\ SteerMax \in Nat /\ ErrorMax \in Nat
      /\ Allowance \in Nat /\ Multiplier \in Nat /\ Factor \in Nat
  BY LimitsAssumption
<1>2. PICK p \in Int : p = (Allowance + m * Factor) * Multiplier
  BY <1>1
<1>3. PICK n \in Int : n = (-Allowance + m * Factor) * Multiplier
  BY <1>1
<1>4. (Allowance + (-m) * Factor) * Multiplier = -n
  BY <1>1, <1>3
<1>5. CASE Limited = "driver"
  <2>1. DriverMax(m) = Greatest(Least(SteerMax, SteerMax + p), 0)
    BY <1>2 DEF DriverMax
  <2>2. DriverMin(m) = Least(Greatest(-SteerMax, -SteerMax + n), 0)
    BY <1>3 DEF DriverMin
  <2>3. UpperLimit(m) = DriverMax(m) /\ LowerLimit(m) = DriverMin(m) /\ Floor = 0
    BY <1>5 DEF UpperLimit, LowerLimit, Floor
  <2>4. Against(m) => SteerMax + p <= 0
    BY <1>2, <1>5 DEF Against
  <2>5. Against(-m) => SteerMax + (-n) <= 0
    BY <1>4, <1>5 DEF Against
  <2> QED BY <1>1, <1>2, <1>3, <2>1, <2>2, <2>3, <2>4, <2>5 DEF Greatest, Least
<1>6. CASE Limited # "driver"
  <2>1. UpperLimit(m) = MotorMax(m) /\ LowerLimit(m) = MotorMin(m) /\ Floor = Least(ErrorMax, SteerMax)
    BY <1>6 DEF UpperLimit, LowerLimit, Floor
  <2>2. (Against(m) => m <= 0) /\ (Against(-m) => -m <= 0)
    BY <1>6 DEF Against
  <2> QED BY <1>1, <2>1, <2>2 DEF MotorMax, MotorMin, Greatest, Least
<1> QED BY <1>5, <1>6

\* One frame of the rate limiter, after the clip to lo and hi.
LEMMA RateLimits ==
    ASSUME NEW x \in Int, NEW last \in (-SteerMax)..SteerMax,
           NEW lo \in (-SteerMax)..0, NEW hi \in 0..SteerMax
    PROVE  LET y == RateLimit(Clip(x, lo, hi), last)
           IN  /\ y \in (-SteerMax)..SteerMax
               /\ Abs(y) <= Abs(last) + DeltaUp
               /\ y <= Greatest(hi, last - DeltaDown)
               /\ -y <= Greatest(-lo, -last - DeltaDown)
<1>1. SteerMax \in Nat /\ DeltaUp \in Nat /\ DeltaDown \in Nat
  BY LimitsAssumption
<1>2. Clip(x, lo, hi) \in lo..hi
  BY <1>1 DEF Clip, Greatest, Least
<1>3. ASSUME NEW c \in lo..hi
      PROVE  /\ RateLimit(c, last) \in (-SteerMax)..SteerMax
             /\ Abs(RateLimit(c, last)) <= Abs(last) + DeltaUp
             /\ RateLimit(c, last) <= Greatest(hi, last - DeltaDown)
             /\ -RateLimit(c, last) <= Greatest(-lo, -last - DeltaDown)
  <2>1. CASE last > 0
    BY <1>1, <2>1 DEF RateLimit, Clip, Greatest, Least, Abs
  <2>2. CASE ~(last > 0)
    BY <1>1, <2>2 DEF RateLimit, Clip, Greatest, Least, Abs
  <2> QED BY <2>1, <2>2
<1> QED BY <1>2, <1>3

\* The torque of the next frame.
LEMMA NextTorque ==
    ASSUME TypeOK, NEW x \in Int, NEW m \in Int, NEW active \in BOOLEAN, NEW fault \in BOOLEAN,
           Update(x, m, active, fault)
    PROVE  /\ torque' \in (-SteerMax)..SteerMax
           /\ active => Abs(torque') <= Abs(torque) + DeltaUp
           /\ ~active => torque' = 0
           /\ active => torque' <= Greatest(UpperLimit(m), torque - DeltaDown)
           /\ active => -torque' <= Greatest(-LowerLimit(m), -torque - DeltaDown)
<1>1. SteerMax \in Nat BY LimitsAssumption
<1>2. CASE active
  <2>1. torque' = RateLimit(Clip(x, LowerLimit(m), UpperLimit(m)), torque)
    BY <1>2 DEF Update, SteerTorqueLimits
  <2> QED BY <1>2, <2>1, LimitsType, RateLimits DEF TypeOK
<1>3. CASE ~active
  BY <1>1, <1>3 DEF Update
<1> QED BY <1>2, <1>3

-----------------------------------------------------------------------------
(* Fault avoidance.                                                        *)

\* What the counter says about the frames before it: up to the limit it counts
\* the exposed ones, beyond it the cut ones.
CounterInv ==
    /\ above <= MaxAbove => exposed = above
    /\ above > MaxAbove => exposed = 0 /\ cut = above - MaxAbove
    /\ above > 0 /\ above <= MaxAbove => cut = 0
    /\ cut <= MaxMismatch

LEMMA FaultStep ==
    ASSUME TypeOK, CounterInv, NEW x \in Int, NEW m \in Int,
           NEW active \in BOOLEAN, NEW fault \in BOOLEAN, Update(x, m, active, fault)
    PROVE  /\ CounterInv'
           /\ req' \in BOOLEAN /\ above' \in 0..(MaxAbove + MaxMismatch - 1)
           /\ {exposed', cut'} \subseteq Nat
<1>1. /\ MaxAbove \in Nat \ {0} /\ MaxMismatch \in Nat \ {0}
      /\ above \in 0..(MaxAbove + MaxMismatch - 1) /\ exposed \in Nat /\ cut \in Nat
  BY FramesAssumption DEF TypeOK
<1>2. CASE ~(active /\ fault)
  <2>1. above' = 0
    BY <1>1, <1>2 DEF Update, AboveOut, Above
  <2>2. req' = active
    BY <1>1, <1>2 DEF Update, RequestOut, Above
  <2>3. exposed' = 0 /\ cut' = 0
    BY <1>2, <2>2 DEF Update
  <2> QED BY <1>1, <2>1, <2>2, <2>3 DEF CounterInv
<1>3. CASE active /\ fault /\ above + 1 <= MaxAbove
  <2>1. above' = above + 1
    BY <1>1, <1>3 DEF Update, AboveOut, Above
  <2>2. req' = TRUE
    BY <1>1, <1>3 DEF Update, RequestOut, Above
  <2>3. exposed' = exposed + 1 /\ cut' = 0
    BY <1>3, <2>2 DEF Update
  <2> QED BY <1>1, <1>3, <2>1, <2>2, <2>3 DEF CounterInv
<1>4. CASE active /\ fault /\ above + 1 > MaxAbove
  <2>1. above' = IF above + 1 >= MaxAbove + MaxMismatch THEN 0 ELSE above + 1
    BY <1>1, <1>4 DEF Update, AboveOut, Above
  <2>2. ~req'
    <3>1. Above(fault, active, above) = above + 1
      BY <1>4 DEF Above
    <3>2. ~(above + 1 <= MaxAbove)
      BY <1>1, <1>4
    <3>3. req' = RequestOut(fault, active, above)
      BY DEF Update
    <3> QED BY <3>1, <3>2, <3>3, Zenon DEF RequestOut
  <2>3. exposed' = 0 /\ cut' = cut + 1
    BY <1>4, <2>2 DEF Update
  <2>4. cut = above - MaxAbove
    BY <1>1, <1>4 DEF CounterInv
  <2>5. CounterInv'
    BY <1>1, <1>4, <2>1, <2>3, <2>4 DEF CounterInv
  <2>6. req' \in BOOLEAN
    <3>1. req' = RequestOut(fault, active, above)
      BY DEF Update
    <3> QED BY <3>1, Zenon DEF RequestOut
  <2>7. above' \in 0..(MaxAbove + MaxMismatch - 1) /\ {exposed', cut'} \subseteq Nat
    BY <1>1, <1>4, <2>1, <2>3
  <2> QED BY <2>5, <2>6, <2>7
<1> QED BY <1>1, <1>2, <1>3, <1>4

-----------------------------------------------------------------------------
(* Slow start and the driver's override.                                   *)

LEMMA CountedType ==
    ASSUME NEW n \in 0..MaxCount
    PROVE  Counted(n) \in 0..MaxCount
BY CountAssumption DEF Counted

\* k frames at the rate d, one more, and the bound on k.
LEMMA Rated ==
    ASSUME NEW k \in Nat, NEW d \in Nat
    PROVE  k * d \in Nat /\ (k + 1) * d = k * d + d
OBVIOUS

\* A magnitude that has grown by at most d; one that lies within r.
LEMMA AbsGrows ==
    ASSUME NEW u \in Int, NEW t \in Int, NEW p \in Int, NEW d \in Int,
           Abs(u) <= Abs(t) + d, Abs(t) <= p
    PROVE  Abs(u) <= p + d
BY DEF Abs

LEMMA AbsWithin ==
    ASSUME NEW r \in Int, NEW u \in (-r)..r, NEW p \in Int, r <= p
    PROVE  Abs(u) <= p /\ -u <= p
BY DEF Abs

LEMMA SoftStartStep ==
    ASSUME TypeOK, SoftStart, NEW x \in Int, NEW m \in Int,
           NEW active \in BOOLEAN, NEW fault \in BOOLEAN, Update(x, m, active, fault)
    PROVE  SoftStart'
<1>1. /\ SteerMax \in Nat /\ DeltaUp \in Nat /\ MaxCount \in Nat
      /\ MaxCount * DeltaUp >= SteerMax /\ age \in 0..MaxCount
  BY LimitsAssumption, CountAssumption DEF TypeOK
<1>2. CASE ~active
  <2>1. torque' = 0 /\ age' = 0 BY <1>2, NextTorque DEF Update
  <2> QED BY <1>1, <2>1 DEF SoftStart, Abs
<1>3. CASE active /\ age < MaxCount
  <2>1. age' = age + 1 BY <1>3 DEF Update, Counted
  <2>2. (age + 1) * DeltaUp = age * DeltaUp + DeltaUp /\ age * DeltaUp \in Nat
    BY <1>1, Rated
  <2>3. Abs(torque') <= Abs(torque) + DeltaUp BY <1>3, NextTorque
  <2>4. torque \in Int /\ torque' \in Int BY <1>1, NextTorque DEF TypeOK
  <2>5. PICK p \in Nat : p = age * DeltaUp BY <2>2
  <2>6. Abs(torque) <= p BY <2>5 DEF SoftStart
  <2>7. Abs(torque') <= p + DeltaUp
    <3>1. DeltaUp \in Nat /\ p \in Nat BY <1>1, <2>5
    <3> QED BY <3>1, <2>3, <2>4, <2>6, AbsGrows
  <2>8. age' * DeltaUp = p + DeltaUp BY <2>1, <2>2, <2>5
  <2> QED BY <2>7, <2>8 DEF SoftStart
<1>4. CASE active /\ age = MaxCount
  <2>1. age' = MaxCount BY <1>1, <1>4 DEF Update, Counted
  <2>2. torque' \in (-SteerMax)..SteerMax BY NextTorque
  <2>4. PICK p \in Nat : p = MaxCount * DeltaUp BY <1>1, Rated
  <2>5. SteerMax <= p BY <1>1, <2>4
  <2>6. Abs(torque') <= p
    <3>1. SteerMax \in Nat /\ p \in Nat BY <1>1, <2>4
    <3> QED BY <3>1, <2>2, <2>5, AbsWithin
  <2> QED BY <2>1, <2>4, <2>6 DEF SoftStart
<1> QED BY <1>1, <1>2, <1>3, <1>4

\* To one side: t is the torque there, h the limit, k the frames it has been at
\* the floor.
LEMMA OverrideStep ==
    ASSUME NEW t \in Int, NEW u \in Int, NEW h \in Int, NEW k \in 0..MaxCount, NEW f \in 0..SteerMax,
           NEW j \in {Counted(k), 0}, j = 0 \/ h <= f,
           t <= Greatest(f, SteerMax - k * DeltaDown),
           u <= Greatest(h, t - DeltaDown), u <= SteerMax
    PROVE  u <= Greatest(f, SteerMax - j * DeltaDown)
<1>1. /\ SteerMax \in Nat /\ DeltaDown \in Nat /\ MaxCount \in Nat
      /\ MaxCount * DeltaDown >= SteerMax
  BY LimitsAssumption, CountAssumption
<1>2. k * DeltaDown \in Nat /\ (k + 1) * DeltaDown = k * DeltaDown + DeltaDown
  BY <1>1, Rated
<1>3. CASE j = 0
  BY <1>1, <1>3 DEF Greatest
<1>4. CASE j # 0 /\ k < MaxCount
  <2>1. j = k + 1 BY <1>4 DEF Counted
  <2> QED BY <1>1, <1>2, <1>4, <2>1 DEF Greatest
<1>5. CASE j # 0 /\ k = MaxCount
  <2>1. j = MaxCount BY <1>1, <1>5 DEF Counted
  <2>2. t <= f BY <1>1, <1>5 DEF Greatest
  <2>3. u <= f BY <1>1, <1>5, <2>2 DEF Greatest
  <2>4. MaxCount * DeltaDown \in Nat BY <1>1, <1>2, <1>5
  <2> QED BY <1>1, <1>5, <2>1, <2>3, <2>4 DEF Greatest
<1> QED BY <1>1, <1>3, <1>4, <1>5

LEMMA DriverStep ==
    ASSUME TypeOK, DriverWins, NEW x \in Int, NEW m \in Int,
           NEW active \in BOOLEAN, NEW fault \in BOOLEAN, Update(x, m, active, fault)
    PROVE  DriverWins'
<1>1. /\ SteerMax \in Nat /\ DeltaDown \in Nat /\ MaxCount \in Nat
      /\ torque \in Int /\ torque' \in (-SteerMax)..SteerMax
      /\ capped \in 0..MaxCount /\ pushed \in 0..MaxCount
      /\ UpperLimit(m) \in 0..SteerMax /\ LowerLimit(m) \in (-SteerMax)..0 /\ Floor \in 0..SteerMax
  BY LimitsAssumption, CountAssumption, NextTorque, LimitsType DEF TypeOK
<1>2. /\ torque' <= Greatest(UpperLimit(m), torque - DeltaDown) \/ torque' = 0
      /\ -torque' <= Greatest(-LowerLimit(m), -torque - DeltaDown) \/ torque' = 0
  BY NextTorque
<1>3. /\ torque' <= Greatest(UpperLimit(m), torque - DeltaDown)
      /\ -torque' <= Greatest(-LowerLimit(m), -torque - DeltaDown)
  BY <1>1, <1>2 DEF Greatest
<1>4. /\ capped' \in {Counted(capped), 0} /\ (capped' = 0 \/ UpperLimit(m) <= Floor)
      /\ pushed' \in {Counted(pushed), 0} /\ (pushed' = 0 \/ -LowerLimit(m) <= Floor)
  BY AgainstLimits, Zenon DEF Update
<1>5. torque' <= Greatest(Floor, SteerMax - capped' * DeltaDown)
  <2>1. torque <= Greatest(Floor, SteerMax - capped * DeltaDown)
    BY DEF DriverWins
  <2>2. torque' \in Int /\ torque' <= SteerMax /\ UpperLimit(m) \in Int
    BY <1>1
  <2> QED BY <1>1, <1>3, <1>4, <2>1, <2>2, OverrideStep
<1>6. -torque' <= Greatest(Floor, SteerMax - pushed' * DeltaDown)
  <2>1. -torque <= Greatest(Floor, SteerMax - pushed * DeltaDown)
    BY DEF DriverWins
  <2>2. /\ torque' \in Int /\ torque \in Int /\ LowerLimit(m) \in Int
    BY <1>1
  <2>3. ASSUME NEW t \in Int, NEW u \in Int, NEW h \in Int,
               t = -torque, u = -torque', h = -LowerLimit(m)
        PROVE  u <= Greatest(Floor, SteerMax - pushed' * DeltaDown)
    <3>1. t <= Greatest(Floor, SteerMax - pushed * DeltaDown)
      BY <2>1, <2>3
    <3>2. u <= Greatest(h, t - DeltaDown)
      BY <1>3, <2>3, Zenon
    <3>3. u <= SteerMax
      <4>1. -torque' <= SteerMax
        <5>1. SteerMax \in Int /\ SteerMax <= SteerMax /\ torque' \in (-SteerMax)..SteerMax
          BY <1>1
        <5> QED BY <5>1, AbsWithin
      <4> QED BY <4>1, <2>3, Zenon
    <3>4. pushed' \in {Counted(pushed), 0} /\ (pushed' = 0 \/ h <= Floor)
      BY <1>4, <2>3, Zenon
    <3> QED BY <1>1, <3>1, <3>2, <3>3, <3>4, OverrideStep
  <2>4. -torque' \in Int /\ -torque \in Int /\ -LowerLimit(m) \in Int
    BY <2>2
  <2> QED BY <2>3, <2>4, Zenon
<1>7. Floor' = Floor BY DEF Floor
<1> QED BY <1>5, <1>6, <1>7 DEF DriverWins

-----------------------------------------------------------------------------
SteerInv == TypeOK /\ SoftStart /\ DriverWins /\ CounterInv

LEMMA SteerInit == Init => SteerInv
<1> SUFFICES ASSUME Init PROVE SteerInv
  OBVIOUS
<1>1. /\ SteerMax \in Nat /\ DeltaUp \in Nat /\ DeltaDown \in Nat /\ ErrorMax \in Nat
      /\ MaxAbove \in Nat \ {0} /\ MaxMismatch \in Nat \ {0} /\ MaxCount \in Nat
  BY LimitsAssumption, FramesAssumption, CountAssumption
<1>2. TypeOK
  <2>1. req \in BOOLEAN BY DEF Init
  <2>2. torque = 0 /\ above = 0 /\ age = 0 /\ capped = 0 /\ pushed = 0 /\ exposed = 0 /\ cut = 0
    BY DEF Init
  <2> QED BY <1>1, <2>1, <2>2 DEF TypeOK
<1>3. SoftStart BY <1>1 DEF Init, SoftStart, Abs
<1>4. DriverWins BY <1>1 DEF Init, DriverWins, Greatest, Least, Floor
<1>5. CounterInv BY <1>1 DEF Init, CounterInv
<1> QED BY <1>2, <1>3, <1>4, <1>5 DEF SteerInv

LEMMA SteerStep == SteerInv /\ [Next]_vars => SteerInv'
<1>1. ASSUME SteerInv, UNCHANGED vars PROVE SteerInv'
  BY <1>1 DEF SteerInv, vars, history, TypeOK, SoftStart, DriverWins, CounterInv, Floor
<1>2. ASSUME SteerInv, NEW x \in Commands, NEW m \in Measured,
             NEW active \in BOOLEAN, NEW fault \in BOOLEAN, Update(x, m, active, fault)
      PROVE  SteerInv'
  <2>1. x \in Int /\ m \in Int BY InputsAssumption
  <2>2. CounterInv' /\ req' \in BOOLEAN /\ above' \in 0..(MaxAbove + MaxMismatch - 1)
        /\ {exposed', cut'} \subseteq Nat
    BY <1>2, <2>1, FaultStep DEF SteerInv
  <2>3. torque' \in (-SteerMax)..SteerMax
    BY <1>2, <2>1, NextTorque DEF SteerInv
  <2>4. {age', capped', pushed'} \subseteq 0..MaxCount
    <3>1. 0 \in 0..MaxCount BY CountAssumption
    <3>2. age \in 0..MaxCount /\ capped \in 0..MaxCount /\ pushed \in 0..MaxCount
      BY <1>2 DEF SteerInv, TypeOK
    <3>3. Counted(age) \in 0..MaxCount /\ Counted(capped) \in 0..MaxCount
          /\ Counted(pushed) \in 0..MaxCount
      BY <3>2, CountedType
    <3> QED BY <1>2, <3>1, <3>3 DEF Update
  <2>5. SoftStart' /\ DriverWins'
    BY <1>2, <2>1, SoftStartStep, DriverStep DEF SteerInv
  <2> QED BY <2>2, <2>3, <2>4, <2>5 DEF SteerInv, TypeOK
<1> QED BY <1>1, <1>2 DEF Next

THEOREM SteerInvariant == Spec => []SteerInv
BY SteerInit, SteerStep, PTL DEF Spec

\* The torque sent stays within STEER_MAX, whatever is commanded and measured,
\* and every counter in its range.
THEOREM SteerTyped == Spec => []TypeOK
<1>1. SteerInv => TypeOK BY DEF SteerInv
<1> QED BY <1>1, SteerInvariant, PTL

\* Full torque takes STEER_MAX / STEER_DELTA_UP frames.
THEOREM TorqueRampsUp == Spec => []SoftStart
<1>1. SteerInv => SoftStart BY DEF SteerInv
<1> QED BY <1>1, SteerInvariant, PTL

\* A driver who steers against the torque takes over at STEER_DELTA_DOWN a frame.
THEOREM DriverTakesOver == Spec => []DriverWins
<1>1. SteerInv => DriverWins BY DEF SteerInv
<1> QED BY <1>1, SteerInvariant, PTL

\* common_fault_avoidance keeps its two promises.
THEOREM RequestWithinLimits == Spec => []FaultAvoided
<1>1. SteerInv => FaultAvoided
  BY FramesAssumption DEF SteerInv, TypeOK, CounterInv, FaultAvoided
<1> QED BY <1>1, SteerInvariant, PTL
=============================================================================
