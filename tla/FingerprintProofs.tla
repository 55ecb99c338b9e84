-------------------------- MODULE FingerprintProofs --------------------------
(* Theorems about Fingerprint, for every database, table of requests, car    *)
(* and number of drives.                                                     *)
EXTENDS Fingerprint, FiniteSetTheorems, SequenceTheorems, TLAPS

-----------------------------------------------------------------------------
(* The handshake of set_obd_multiplexing with pandad.                        *)

\* the switch stands where the parameter says, and that has been reported
Settled == mux = enabled /\ ~ack

\* what set_obd_multiplexing was called for
CallOK ==
    \/ ret = "vin" /\ want
    \/ ret = "scan"
    \/ ret = "query" /\ (OnMuxBus(Request) => want = Request.obd_multiplexing)
    \/ ret = "fwdone" /\ ~want

\* the mode is right where it is needed
AskedFor ==
    /\ pc = "vin" => enabled
    /\ pc = "scan" => enabled = want
    /\ pc = "query" /\ OnMuxBus(Request) => enabled = Request.obd_multiplexing
    /\ pc \in {"fwdone", "can", "done"} => ~enabled
    /\ query_done => pc \in {"can", "done"}

\* The switch is at rest except while card waits for it, and an acknowledgement
\* that card can see then is that of its own request.
Handshake ==
    /\ want \in BOOLEAN /\ enabled \in BOOLEAN /\ changed \in BOOLEAN
    /\ mux \in BOOLEAN /\ ack \in BOOLEAN
    /\ pc # "block" => Settled
    /\ pc = "remove" => enabled # want
    /\ pc = "put" => ~changed /\ enabled # want
    /\ pc = "block" => /\ enabled = want
                       /\ changed => Settled
                       /\ ack => mux = enabled

\* the query that is under way
AtRequest ==
    \/ pc \in {"request", "query"}
    \/ pc \in {"remove", "put", "block"} /\ ret = "query"

AtOK ==
    AtRequest => /\ at.brand \in Brands /\ at.request \in 1..Len(Requests[at.brand])
                 /\ at.group \in Nat

ModeInv ==
    /\ Handshake /\ AskedFor /\ AtOK
    /\ pc \in {"remove", "put", "block"} => CallOK

LEMMA ModeInvInit == Init => ModeInv
BY DEF Init, ModeInv, Handshake, Settled, AskedFor, AtOK, AtRequest, CanInit

\* a request of the table has a Boolean mode
LEMMA RequestTyped ==
    ASSUME AtOK, AtRequest
    PROVE  Request.obd_multiplexing \in BOOLEAN
<1>1. /\ Requests[at.brand] \in Seq([bus : Nat, obd_multiplexing : BOOLEAN,
                                     logging : BOOLEAN, addrs : SUBSET Addrs])
      /\ at.request \in 1..Len(Requests[at.brand])
  BY RequestsAssumption DEF AtOK
<1>2. Request \in [bus : Nat, obd_multiplexing : BOOLEAN, logging : BOOLEAN, addrs : SUBSET Addrs]
  BY <1>1, ElementOfSeq DEF Request
<1> QED BY <1>2

\* the loops stay within the table
LEMMA NextRequestTyped ==
    ASSUME AtOK, AtRequest
    PROVE  /\ NextRequest.brand \in Brands
           /\ NextRequest.request \in 1..Len(Requests[NextRequest.brand])
           /\ NextRequest.group \in Nat
<1>1. /\ at.brand \in Brands /\ at.request \in 1..Len(Requests[at.brand]) /\ at.group \in Nat
      /\ Len(Requests[at.brand]) \in Nat /\ Len(Requests[at.brand]) > 0
  BY RequestsAssumption DEF AtOK
<1> QED BY <1>1 DEF NextRequest

\* card calls set_obd_multiplexing from a place where the switch is at rest
LEMMA SetObdKeeps ==
    ASSUME ModeInv, pc \notin {"remove", "put", "block"},
           NEW m \in BOOLEAN, NEW next \in {"vin", "scan", "query", "fwdone"},
           SetObd(m, next), UNCHANGED <<enabled, changed, mux, ack, query_done>>,
           ~query_done,
           next = "vin" => m,
           next = "fwdone" => ~m,
           next = "query" => /\ UNCHANGED at /\ AtRequest
                             /\ OnMuxBus(Request) => m = Request.obd_multiplexing
    PROVE  ModeInv'
<1> USE DEF ModeInv, SetObd
<1>1. Handshake' BY DEF Handshake, Settled
<1>2. want' = m /\ ret' = next /\ pc' \in {next, "remove"} OBVIOUS
<1>3. next = "query" => (Request' = Request) BY DEF Request
<1>4. AskedFor'
  <2>1. pc' = next => enabled' = m BY DEF Handshake
  <2>2. CASE pc' = "remove" BY <2>2 DEF AskedFor
  <2>3. CASE pc' = next BY <1>2, <1>3, <2>1, <2>3 DEF AskedFor, OnMuxBus
  <2> QED BY <1>2, <2>2, <2>3
<1>5. AtOK' BY <1>2 DEF AtOK, AtRequest
<1>6. CallOK' BY <1>2, <1>3 DEF CallOK, OnMuxBus
<1> QED BY <1>1, <1>4, <1>5, <1>6

LEMMA ModeInvStep == ModeInv /\ [Next]_vars => ModeInv'
<1> SUFFICES ASSUME ModeInv, [Next]_vars PROVE ModeInv'
  OBVIOUS
<1> USE DEF paramVars, pandaVars, queryVars
<1>1. CASE Start
  <2>1. CASE SkipFwQuery
    BY <1>1, <2>1, SetObdKeeps DEF Start, ModeInv, AskedFor
  <2>2. CASE ~SkipFwQuery /\ CacheUsable
    BY <1>1, <2>2 DEF Start, ModeInv, Handshake, Settled, AskedFor, AtOK, AtRequest
  <2>3. CASE ~SkipFwQuery /\ ~CacheUsable
    BY <1>1, <2>3, SetObdKeeps DEF Start, ModeInv, AskedFor
  <2> QED BY <2>1, <2>2, <2>3
<1>2. CASE GetVin
  BY <1>2, SetObdKeeps DEF GetVin, ModeInv, AskedFor
<1>3. CASE ScanEcus
  <2>1. CASE want
    BY <1>3, <2>1, SetObdKeeps DEF ScanEcus, ModeInv, AskedFor
  <2>2. CASE ~want
    BY <1>3, <2>2 DEF ScanEcus, ModeInv, Handshake, Settled, AskedFor, AtOK, AtRequest
  <2> QED BY <2>1, <2>2
<1>4. CASE NextBrand
  <2>1. CASE Left = {} /\ pc' = "match" /\ UNCHANGED <<at, brand_fw>>
    BY <1>4, <2>1 DEF NextBrand, ModeInv, Handshake, Settled, AskedFor, AtOK, AtRequest
  <2>2. CASE \E b \in Left : at' = [brand |-> b, group |-> 1, request |-> 1] /\ pc' = "request"
    <3>1. PICK b \in Left : at' = [brand |-> b, group |-> 1, request |-> 1]
      BY <2>2
    <3>2. b \in Brands /\ Len(Requests[b]) \in Nat /\ Len(Requests[b]) > 0
      BY RequestsAssumption DEF Left
    <3>3. AtOK' BY <3>1, <3>2 DEF AtOK
    <3>4. (Handshake /\ AskedFor)'
      BY <1>4, <2>2 DEF NextBrand, ModeInv, Handshake, Settled, AskedFor
    <3> QED BY <2>2, <3>3, <3>4 DEF ModeInv
  <2> QED BY <1>4, <2>1, <2>2 DEF NextBrand
<1>5. CASE StartRequest
  <2>1. CASE pc' = "judge" /\ UNCHANGED <<want, ret, at>>
    BY <1>5, <2>1 DEF StartRequest, ModeInv, Handshake, Settled, AskedFor, AtOK, AtRequest
  <2>2. CASE at' = NextRequest /\ UNCHANGED <<pc, want, ret>>
    <3>1. AtOK' BY <1>5, <2>2, NextRequestTyped DEF StartRequest, ModeInv, AtRequest, AtOK
    <3>2. (Handshake /\ AskedFor)'
      BY <1>5, <2>2 DEF StartRequest, ModeInv, Handshake, Settled, AskedFor
    <3> QED BY <1>5, <2>2, <3>1, <3>2 DEF StartRequest, ModeInv
  <2>3. CASE Prepare /\ UNCHANGED at
    <3>1. AtRequest BY <1>5 DEF StartRequest, AtRequest
    <3>2. CASE OnMuxBus(Request)
      <4>1. Request.obd_multiplexing \in BOOLEAN BY <3>1, RequestTyped DEF ModeInv
      <4>2. SetObd(Request.obd_multiplexing, "query") BY <2>3, <3>2 DEF Prepare
      <4> QED BY <1>5, <2>3, <3>1, <4>1, <4>2, SetObdKeeps DEF StartRequest, ModeInv, AskedFor
    <3>3. CASE ~OnMuxBus(Request)
      <4>1. pc = "request" /\ pc' = "query" /\ UNCHANGED <<want, ret, at, enabled, changed,
              query_done, mux, ack>>
        BY <1>5, <2>3, <3>3 DEF Prepare, StartRequest
      <4>2. ~OnMuxBus(Request)' BY <3>3, <4>1 DEF OnMuxBus, Request
      <4> QED BY <4>1, <4>2 DEF ModeInv, Handshake, Settled, AskedFor, AtOK, AtRequest
    <3> QED BY <3>2, <3>3
  <2> QED BY <1>5, <2>1, <2>2, <2>3 DEF StartRequest
<1>6. CASE Query
  <2>1. AtOK' BY <1>6, NextRequestTyped DEF Query, ModeInv, AtRequest, AtOK
  <2>2. (Handshake /\ AskedFor)' BY <1>6 DEF Query, ModeInv, Handshake, Settled, AskedFor
  <2> QED BY <1>6, <2>1, <2>2 DEF Query, ModeInv
<1>7. CASE JudgeBrand
  BY <1>7 DEF JudgeBrand, ModeInv, Handshake, Settled, AskedFor, AtOK, AtRequest
<1>8. CASE RemoveChanged \/ PutEnabled
  <2>1. (CallOK /\ AtOK)'
    BY <1>8 DEF RemoveChanged, PutEnabled, ModeInv, CallOK, OnMuxBus, Request, AtOK, AtRequest
  <2>2. AskedFor' BY <1>8 DEF RemoveChanged, PutEnabled, ModeInv, AskedFor
  <2>3. CASE RemoveChanged
    <3>1. Handshake' BY <2>3 DEF RemoveChanged, ModeInv, Handshake, Settled
    <3> QED BY <2>1, <2>2, <3>1 DEF ModeInv
  <2>4. CASE PutEnabled
    <3>1. /\ pc = "put" /\ pc' = "block" /\ enabled' = want
          /\ UNCHANGED <<want, changed, mux, ack>>
      BY <2>4 DEF PutEnabled
    <3>2. ~changed' /\ ~ack' /\ enabled' = want'
      BY <3>1, Zenon DEF ModeInv, Handshake, Settled
    <3>3. Handshake' BY <3>1, <3>2 DEF ModeInv, Handshake
    <3> QED BY <2>1, <2>2, <3>3 DEF ModeInv
  <2> QED BY <1>8, <2>3, <2>4
<1>9. CASE GetChanged
  <2>1. CallOK /\ pc = "block" /\ changed /\ pc' = ret
        /\ UNCHANGED <<want, ret, enabled, changed, query_done, mux, ack, at>>
    BY <1>9 DEF GetChanged, ModeInv
  <2>2. (OnMuxBus(Request)' <=> OnMuxBus(Request)) /\ Request' = Request
    <3>1. Request' = Request BY <2>1 DEF Request
    <3> QED BY <3>1, Zenon DEF OnMuxBus
  <2>3. Handshake' /\ enabled' = want
    BY <2>1 DEF ModeInv, Handshake, Settled, CallOK
  <2>4. AskedFor' BY <2>1, <2>2, <2>3 DEF CallOK, ModeInv, AskedFor
  <2>5. AtOK' BY <2>1 DEF ModeInv, AtOK, AtRequest, CallOK
  <2> QED BY <2>1, <2>3, <2>4, <2>5 DEF ModeInv, CallOK
<1>10. CASE Match
  BY <1>10, SetObdKeeps DEF Match, ModeInv, AskedFor
<1>11. CASE FirmwareQueryDone \/ Decide
  BY <1>11 DEF FirmwareQueryDone, Decide, ModeInv, Handshake, Settled, AskedFor, AtOK, AtRequest
<1>12. CASE ReadCan
  BY <1>12 DEF ReadCan, ModeInv, Handshake, Settled, AskedFor, AtOK, AtRequest
<1>13. CASE Pandad
  <2>1. (CallOK' <=> CallOK) /\ AtOK'
    BY <1>13 DEF Pandad, PandaSwitch, PandaReport, CallOK, OnMuxBus, Request, ModeInv, AtOK, AtRequest
  <2>2. AskedFor'
    BY <1>13 DEF Pandad, PandaSwitch, PandaReport, ModeInv, AskedFor, OnMuxBus, Request
  <2>3. Handshake'
    BY <1>13 DEF Pandad, PandaSwitch, PandaReport, ModeInv, Handshake, Settled
  <2> QED BY <1>13, <2>1, <2>2, <2>3 DEF Pandad, PandaSwitch, PandaReport, ModeInv
<1>14. CASE NextDrive
  BY <1>14 DEF NextDrive, ModeInv, Handshake, Settled, AskedFor, AtOK, AtRequest
<1>15. CASE UNCHANGED vars
  <2>1. (CallOK' <=> CallOK) /\ AtOK' /\ AskedFor'
    BY <1>15 DEF vars, CallOK, OnMuxBus, Request, ModeInv, AtOK, AtRequest, AskedFor
  <2>2. Handshake' BY <1>15 DEF vars, ModeInv, Handshake, Settled
  <2> QED BY <1>15, <2>1, <2>2 DEF vars, ModeInv
<1> QED
  BY <1>1, <1>2, <1>3, <1>4, <1>5, <1>6, <1>7, <1>8, <1>9, <1>10, <1>11, <1>12, <1>13, <1>14,
     <1>15 DEF Next, Card

\* The multiplexing handshake: every query finds bus 1 in the mode it needs,
\* and the harness has it back when the firmware query is declared done.
THEOREM ModeIsRight == Spec => []ModeRight
<1>1. ModeInv => ModeRight
  BY DEF ModeInv, Handshake, Settled, AskedFor, ModeRight
<1> QED BY ModeInvInit, ModeInvStep, <1>1, PTL DEF Spec
-----------------------------------------------------------------------------
(* The firmware match.                                                       *)

\* versions the ECUs of the car have
RealAnswers(F) ==
    \A x \in F : x.addr \in DOMAIN Installed /\ x.version = Installed[x.addr]

\* On such answers, of however few ECUs, no other car matches exactly.
LEMMA OnlyRealMatches ==
    ASSUME RealDistinct, NEW F, RealAnswers(F)
    PROVE  ExactMatches(F) \subseteq {Real}
<1> SUFFICES ASSUME NEW b \in Brands, NEW c \in MatchExact(FwDict(F, b), b), c # Real
             PROVE  FALSE
  BY DEF ExactMatches
<1> DEFINE live == FwDict(F, b)
<1>1. c \in Cars /\ \A e \in DOMAIN FwVersions[c] : EcuFits(c, e, live)
  BY DEF MatchExact, CarsOf
<1>2. PICK e \in DOMAIN FwVersions[c] \ DebugEcus :
          /\ ~Optional(c, e)
          /\ AddrOf[e] \in DOMAIN Installed => Installed[AddrOf[e]] \notin FwVersions[c][e]
  BY <1>1 DEF RealDistinct
<1>3. PICK v \in live[AddrOf[e]] : v \in FwVersions[c][e]
  <2>1. EcuFits(c, e, live) BY <1>1
  <2> HIDE DEF live
  <2> QED BY <1>2, <2>1 DEF EcuFits
<1>4. AddrOf[e] \in Addrs
  BY <1>1, AddrsAssumption, DatabaseAssumption
<1>5. PICK x \in F : x.addr = AddrOf[e] /\ x.version = v
  BY <1>3, <1>4 DEF FwDict
<1> QED BY <1>2, <1>3, <1>5 DEF RealAnswers

\* the answers of this drive, and those in the cache
MatchInv ==
    /\ RealAnswers(fw) /\ RealAnswers(brand_fw) /\ RealAnswers(cache.fw)
    /\ ExactIsReal

LEMMA MatchInvInit == Init => MatchInv
BY DEF Init, MatchInv, RealAnswers, ExactIsReal, NoCache, NoResult

LEMMA MatchInvStep == MatchInv /\ [Next]_vars => MatchInv'
<1> SUFFICES ASSUME MatchInv, [Next]_vars PROVE MatchInv'
  OBVIOUS
<1> USE DEF paramVars, pandaVars, queryVars
<1>1. CASE UNCHANGED <<fw, brand_fw, cache, result>>
  BY <1>1 DEF MatchInv, RealAnswers, ExactIsReal
<1>2. CASE Start
  BY <1>2 DEF Start, MatchInv, RealAnswers, ExactIsReal
<1>3. CASE NextBrand
  BY <1>3 DEF NextBrand, MatchInv, RealAnswers, ExactIsReal
<1>4. CASE Query
  <2>1. RealAnswers(brand_fw') BY <1>4 DEF Query, Answer, MatchInv, RealAnswers
  <2> QED BY <1>4, <2>1 DEF Query, MatchInv, RealAnswers, ExactIsReal
<1>5. CASE JudgeBrand
  BY <1>5 DEF JudgeBrand, MatchInv, RealAnswers, ExactIsReal
<1>6. CASE Match
  <2>1. result'.cars = MatchFwToCar(fw, vin) /\ result'.exact = IsExact(fw, vin)
        /\ UNCHANGED <<fw, brand_fw, cache>>
    BY <1>6 DEF Match
  <2>2. IsExact(fw, vin) /\ MatchFwToCar(fw, vin) # {} =>
            MatchFwToCar(fw, vin) = ExactMatches(fw) /\ ExactMatches(fw) # {}
    BY DEF IsExact, MatchFwToCar
  <2>3. ExactIsReal'
    BY <2>1, <2>2, OnlyRealMatches DEF ExactIsReal, MatchInv
  <2> QED BY <2>1, <2>3 DEF MatchInv, RealAnswers
<1>7. CASE Decide
  <2>1. cache' \in {NoCache, [fw |-> fw, vin |-> vin]} /\ UNCHANGED <<fw, brand_fw, result>>
    BY <1>7 DEF Decide
  <2> QED BY <2>1 DEF MatchInv, RealAnswers, ExactIsReal, NoCache
<1>8. CASE NextDrive
  BY <1>8 DEF NextDrive, MatchInv, RealAnswers, ExactIsReal, NoResult
<1>9. CASE GetVin \/ ScanEcus \/ StartRequest \/ RemoveChanged \/ PutEnabled \/ GetChanged
  BY <1>1, <1>9 DEF GetVin, ScanEcus, StartRequest, RemoveChanged, PutEnabled, GetChanged
<1>10. CASE FirmwareQueryDone \/ ReadCan \/ Pandad
  BY <1>1, <1>10 DEF FirmwareQueryDone, ReadCan, Pandad, PandaSwitch, PandaReport
<1>11. CASE UNCHANGED vars
  BY <1>1, <1>11 DEF vars
<1> QED
  BY <1>2, <1>3, <1>4, <1>5, <1>6, <1>7, <1>8, <1>9, <1>10, <1>11 DEF Next, Card

\* An exact firmware match is the real car, whichever ECUs stay silent in this
\* drive and in the one whose answers are in CarParamsCache.
THEOREM ExactMatchIsReal == Spec => []ExactIsReal
<1>1. MatchInv => ExactIsReal
  BY DEF MatchInv
<1> QED BY MatchInvInit, MatchInvStep, <1>1, PTL DEF Spec

-----------------------------------------------------------------------------
(* The CAN fingerprint.                                                      *)

\* the cars that could have sent everything in M
Senders(M) == {c \in LegacyCars : \A m \in M \ Ignored : CouldSend(c, m)}

\* The candidates are what is left after all that was heard, and no packet comes
\* after the answer.
CanInv ==
    /\ frame \in Nat
    /\ finger \in [CanBuses -> SUBSET Msgs]
    /\ candidate_cars = [b \in CanBuses |-> Senders(finger[b])]
    /\ CanSound

LEMMA CanInvReset ==
    /\ CanInit => CanInv
    /\ ResetCan => CanInv'
BY DEF CanInit, ResetCan, CanInv, Senders, CanSound

\* a packet leaves the senders of what was heard with it
LEMMA EliminateSenders ==
    ASSUME NEW M, NEW msgs
    PROVE  Eliminate(Senders(M), msgs) = Senders(M \union msgs)
BY DEF Eliminate, Senders

LEMMA OnlyIsAlone ==
    ASSUME NEW cars, NEW b, cars[b] \subseteq LegacyCars, Only(cars, b)
    PROVE  cars[b] = {CHOOSE c \in cars[b] : TRUE}
<1>1. IsFiniteSet(cars[b]) BY CanAssumption, FS_Subset
<1>2. \E x : cars[b] = {x} BY <1>1, FS_Singleton DEF Only
<1> QED BY <1>2

LEMMA CanFrameKeeps ==
    ASSUME CanInv, ~CanDone, NEW msgs \in [CanBuses -> SUBSET Msgs], CanFrame(msgs)
    PROVE  CanInv'
<1>1. frame' \in Nat /\ finger' \in [CanBuses -> SUBSET Msgs]
  BY DEF CanFrame, CanInv
<1>2. candidate_cars' = [b \in CanBuses |-> Senders(finger'[b])]
  BY EliminateSenders DEF CanFrame, CanInv
<1>3. \A b \in CanBuses : candidate_cars'[b] \subseteq LegacyCars
  BY <1>2 DEF Senders
<1>4. CanSound'
  <2> SUFFICES ASSUME car_fingerprint' # NoCar
               PROVE  /\ frame' > FrameFingerprint + 1
                      /\ \E b \in CanBuses : Senders(finger'[b]) = {car_fingerprint'}
    BY DEF CanSound, Senders
  <2>1. PICK b \in CanBuses : /\ Only(candidate_cars', b)
                              /\ car_fingerprint' = CHOOSE c \in candidate_cars'[b] : TRUE
    BY DEF CanFrame, Decision, CanBuses
  <2>2. candidate_cars'[b] = {car_fingerprint'}
    BY <1>3, <2>1, OnlyIsAlone
  <2>3. frame > FrameFingerprint /\ frame' = frame + 1
    BY <2>1 DEF Only, CanFrame
  <2> QED BY <1>2, <2>2, <2>3, FramesAssumption DEF CanInv
<1> QED BY <1>1, <1>2, <1>4 DEF CanInv

LEMMA CanInvStep == CanInv /\ [Next]_vars => CanInv'
<1> SUFFICES ASSUME CanInv, [Next]_vars PROVE CanInv'
  OBVIOUS
<1>1. CASE UNCHANGED canVars
  BY <1>1 DEF canVars, CanInv, Senders, CanSound
<1>2. CASE ReadCan
  <2>1. PICK S0 \in SUBSET Sends[0], S1 \in SUBSET Sends[1] :
            CanFrame([b \in CanBuses |-> IF b = 0 THEN S0 ELSE S1])
    BY <1>2 DEF ReadCan
  <2>2. [b \in CanBuses |-> IF b = 0 THEN S0 ELSE S1] \in [CanBuses -> SUBSET Msgs]
    BY CarAssumption DEF CanBuses
  <2>3. ~CanDone BY <1>2 DEF ReadCan
  <2> QED BY <2>1, <2>2, <2>3, CanFrameKeeps
<1>3. CASE NextDrive
  BY <1>3, CanInvReset DEF NextDrive
<1>4. CASE Start \/ GetVin \/ ScanEcus \/ NextBrand \/ StartRequest \/ Query \/ JudgeBrand
  BY <1>1, <1>4 DEF Start, GetVin, ScanEcus, NextBrand, StartRequest, Query, JudgeBrand
<1>5. CASE RemoveChanged \/ PutEnabled \/ GetChanged \/ Match \/ FirmwareQueryDone \/ Decide
  BY <1>1, <1>5 DEF RemoveChanged, PutEnabled, GetChanged, Match, FirmwareQueryDone, Decide
<1>6. CASE Pandad \/ UNCHANGED vars
  BY <1>1, <1>6 DEF Pandad, PandaSwitch, PandaReport, vars
<1> QED
  BY <1>2, <1>3, <1>4, <1>5, <1>6 DEF Next, Card

\* can_fingerprint answers only with the one car that could have sent all that
\* was heard on a bus, and not before FRAME_FINGERPRINT packets.
THEOREM CanAnswerSound == Spec => []CanSound
<1>1. Init => CanInv
  BY CanInvReset DEF Init
<1>2. CanInv => CanSound
  BY DEF CanInv
<1> QED BY <1>1, <1>2, CanInvStep, PTL DEF Spec
=============================================================================
