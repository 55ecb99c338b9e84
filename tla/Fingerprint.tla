----------------------------- MODULE Fingerprint -----------------------------
(***************************************************************************)
(* selfdrive/car/car_helpers.py: fingerprint and get_car, with the VIN and *)
(* firmware queries of fw_versions.py, ecu_addrs.py and vin.py.            *)
(*                                                                         *)
(* Two processes: card, which finds out what car it is in, and pandad      *)
(* (tools/sim/lib/simulated_car.py), which switches bus 1 of the panda     *)
(* between the OBD-II port and the harness.  They talk through Params.     *)
(* The ECUs answer a query or stay silent; a query that raises an          *)
(* exception counts as unanswered, as in the code.                         *)
(***************************************************************************)
EXTENDS FwMatch, CanFingerprint, Sequences, FiniteSetsExt

CONSTANTS
    Groups,      \* for each brand, the groups of addresses asked together
    Requests,    \* for each brand, its requests: records of bus,
                 \* obd_multiplexing, logging and addrs (the whitelist)
    NumPandas,   \* num_pandas
    SkipFwQuery, \* SKIP_FW_QUERY
    FwCache,     \* not DISABLE_FW_CACHE
    Fixed,       \* FINGERPRINT, or NoCar
    Real,        \* the car
    Installed,   \* the version each ECU of the car has, by address
    WiredTo,     \* where the ECU is: "obd" (bus 1, multiplexed), "bus1" or "bus0"
    Sends,       \* the messages of the car on each CAN bus
    MaxDrives    \* bound: number of drives

ASSUME RequestsAssumption ==
    \A b \in Brands :
        /\ Groups[b] \in Seq(SUBSET Addrs)
        /\ Requests[b] \in Seq([bus : Nat, obd_multiplexing : BOOLEAN,
                                logging : BOOLEAN, addrs : SUBSET Addrs])
        /\ Len(Requests[b]) > 0
ASSUME OptionsAssumption == {SkipFwQuery, FwCache} \subseteq BOOLEAN /\ NumPandas \in Nat
ASSUME CarAssumption ==
    /\ DOMAIN Installed \subseteq Addrs /\ \A a \in DOMAIN Installed : Installed[a] \in Versions
    /\ WiredTo \in [DOMAIN Installed -> {"obd", "bus1", "bus0"}]
    /\ Sends \in [CanBuses -> SUBSET Msgs]

VARIABLES
    pc,       \* where card is
    want,     \* set_obd_multiplexing: the mode asked for
    ret,      \* set_obd_multiplexing: where it returns to
    enabled,  \* the parameter ObdMultiplexingEnabled
    changed,  \* the parameter ObdMultiplexingChanged
    query_done, \* the parameter FirmwareQueryDone
    mux,      \* pandad: bus 1 is switched to the OBD-II port
    ack,      \* pandad: a switch is not reported yet
    vin,      \* the VIN
    present,  \* addresses of ECUs that answered tester present
    queried,  \* brands queried so far
    at,       \* brand, group and request of the query
    fw,       \* car_fw of fingerprint
    brand_fw, \* car_fw of the brand being queried
    result,   \* fw_candidates and exact_fw_match
    cache,    \* CarParamsCache: carFw and carVin of an earlier drive, or none
    car,      \* the fingerprint, its source and exact_match
    drives    \* number of drives

paramVars == <<enabled, changed, query_done>>
pandaVars == <<mux, ack>>
queryVars == <<vin, present, queried, at, fw, brand_fw, result>>
vars == <<pc, want, ret, paramVars, pandaVars, queryVars, cache, car, drives, canVars>>

NoCache  == [fw |-> {}, vin |-> "unknown"]
NoResult == [cars |-> {}, exact |-> TRUE]
Nowhere  == [brand |-> 0, group |-> 0, request |-> 0]
NotYet   == [car |-> NoCar, source |-> "none", exact |-> TRUE]

Init ==
    /\ pc = "start" /\ want = FALSE /\ ret = "start"
    /\ enabled = FALSE /\ changed \in BOOLEAN /\ query_done = FALSE
    /\ mux = FALSE /\ ack = FALSE
    /\ vin = "unknown" /\ present = {} /\ queried = {} /\ at = Nowhere
    /\ fw = {} /\ brand_fw = {} /\ result = NoResult
    /\ cache = NoCache /\ car = NotYet /\ drives = 1
    /\ CanInit

-----------------------------------------------------------------------------
(* set_obd_multiplexing, and pandad at the other end of it.                *)

\* Mutant of SetObd: the request is sent without a look at the parameter.
SetObdAlways(m, next) == want' = m /\ ret' = next /\ pc' = "remove"

\* the call: nothing to do when the parameter has the mode already
SetObd(m, next) ==
    /\ want' = m /\ ret' = next
    /\ pc' = IF enabled = m THEN next ELSE "remove"

\* Mutant of RemoveChanged: an old acknowledgement stays.
KeepChanged ==
    /\ pc = "remove" /\ pc' = "put"
    /\ UNCHANGED <<want, ret, paramVars, pandaVars, queryVars, cache, car, drives, canVars>>

RemoveChanged ==
    /\ pc = "remove" /\ pc' = "put"
    /\ changed' = FALSE
    /\ UNCHANGED <<want, ret, enabled, query_done, pandaVars, queryVars, cache, car, drives,
                   canVars>>

PutEnabled ==
    /\ pc = "put" /\ pc' = "block"
    /\ enabled' = want
    /\ UNCHANGED <<want, ret, changed, query_done, pandaVars, queryVars, cache, car, drives,
                   canVars>>

\* params.get_bool("ObdMultiplexingChanged", block=True)
GetChanged ==
    /\ pc = "block" /\ changed
    /\ pc' = ret
    /\ UNCHANGED <<want, ret, paramVars, pandaVars, queryVars, cache, car, drives, canVars>>

\* send_panda_state: switch, then report it
PandaSwitch ==
    /\ ~ack /\ enabled # mux
    /\ mux' = ~mux /\ ack' = TRUE
    /\ UNCHANGED <<pc, want, ret, paramVars, queryVars, cache, car, drives, canVars>>

PandaReport ==
    /\ ack
    /\ changed' = TRUE /\ ack' = FALSE
    /\ UNCHANGED <<pc, want, ret, enabled, query_done, mux, queryVars, cache, car, drives, canVars>>

-----------------------------------------------------------------------------
(* The queries.                                                            *)

Hears(a, r) ==
    \/ WiredTo[a] = "bus0" /\ r.bus = 0
    \/ r.bus = 1 /\ WiredTo[a] = (IF mux THEN "obd" ELSE "bus1")

CacheUsable == FwCache /\ cache.fw # {}

\* fingerprint, up to the first query
Start ==
    /\ pc = "start"
    /\ IF SkipFwQuery THEN SetObd(FALSE, "fwdone") /\ UNCHANGED <<vin, fw>>
       ELSE IF CacheUsable
       THEN /\ pc' = "match" /\ fw' = cache.fw /\ vin' = cache.vin
            /\ UNCHANGED <<want, ret>>
       ELSE SetObd(TRUE, "vin") /\ UNCHANGED <<vin, fw>>
    /\ UNCHANGED <<paramVars, pandaVars, present, queried, at, brand_fw, result,
                   cache, car, drives, canVars>>

\* get_vin, with its retries; get_present_ecus follows, multiplexed first
GetVin ==
    /\ pc = "vin"
    /\ vin' \in Vins
    /\ SetObd(TRUE, "scan")
    /\ UNCHANGED <<paramVars, pandaVars, present, queried, at, fw, brand_fw, result,
                   cache, car, drives, canVars>>

Available(r) == r.bus <= NumPandas * 4 - 1

\* the ECUs that hear a tester present message of one mode
Scanned(m) ==
    {a \in DOMAIN Installed : \E b \in Brands : \E i \in DOMAIN Requests[b] :
        LET r == Requests[b][i]
        IN r.obd_multiplexing = m /\ Available(r) /\ a \in r.addrs /\ Hears(a, r)}

\* get_present_ecus: the queries of one mode; want is that mode
ScanEcus ==
    /\ pc = "scan"
    /\ \E S \in SUBSET Scanned(want) : present' = present \union S
    /\ IF want THEN SetObd(FALSE, "scan") ELSE pc' = "brand" /\ UNCHANGED <<want, ret>>
    /\ UNCHANGED <<paramVars, pandaVars, vin, queried, at, fw, brand_fw, result,
                   cache, car, drives, canVars>>

\* get_brand_ecu_matches
BrandMatches(b) == present \cap UNION {Groups[b][g] : g \in DOMAIN Groups[b]}

\* sorted by the number of matches, stable
MoreLikely(b, c) ==
    LET m == Cardinality(BrandMatches(b))
        n == Cardinality(BrandMatches(c))
    IN m > n \/ (m = n /\ b < c)

Left == {b \in Brands \ queried : BrandMatches(b) # {}}

\* the loop of get_fw_versions_ordered
NextBrand ==
    /\ pc = "brand"
    /\ \/ Left = {} /\ pc' = "match" /\ UNCHANGED <<at, brand_fw>>
       \/ \E b \in Left :
             /\ \A c \in Left \ {b} : MoreLikely(b, c)
             /\ at' = [brand |-> b, group |-> 1, request |-> 1]
             /\ brand_fw' = {} /\ pc' = "request"
    /\ UNCHANGED <<want, ret, paramVars, pandaVars, vin, present, queried, fw, result,
                   cache, car, drives, canVars>>

Request == Requests[at.brand][at.request]

NextRequest ==
    IF at.request < Len(Requests[at.brand]) THEN [at EXCEPT !.request = @ + 1]
    ELSE [at EXCEPT !.group = @ + 1, !.request = 1]

OnMuxBus(r) == r.bus % 4 = 1

\* toggle OBD multiplexing for each request on bus 1
Prepare ==
    IF OnMuxBus(Request) THEN SetObd(Request.obd_multiplexing, "query")
    ELSE pc' = "query" /\ UNCHANGED <<want, ret>>

\* the loops of get_fw_versions: groups, and the requests of each
StartRequest ==
    /\ pc = "request"
    /\ \/ /\ at.group > Len(Groups[at.brand])
          /\ pc' = "judge" /\ UNCHANGED <<want, ret, at>>
       \/ /\ at.group <= Len(Groups[at.brand]) /\ ~Available(Request)
          /\ at' = NextRequest /\ UNCHANGED <<pc, want, ret>>
       \/ /\ at.group <= Len(Groups[at.brand]) /\ Available(Request)
          /\ Prepare /\ UNCHANGED at
    /\ UNCHANGED <<paramVars, pandaVars, vin, present, queried, fw, brand_fw, result,
                   cache, car, drives, canVars>>

Answer(a) == [brand |-> at.brand, addr |-> a, version |-> Installed[a],
              logging |-> Request.logging]

\* IsoTpParallelQuery.get_data: each ECU that hears the request answers or not
Query ==
    /\ pc = "query" /\ pc' = "request"
    /\ \E S \in SUBSET {a \in DOMAIN Installed : /\ a \in Groups[at.brand][at.group]
                                                 /\ a \in Request.addrs /\ Hears(a, Request)} :
            brand_fw' = brand_fw \union {Answer(a) : a \in S}
    /\ at' = NextRequest
    /\ UNCHANGED <<want, ret, paramVars, pandaVars, vin, present, queried, fw, result,
                   cache, car, drives, canVars>>

\* stop when the answers of this brand alone match one car
JudgeBrand ==
    /\ pc = "judge"
    /\ fw' = fw \union brand_fw /\ queried' = queried \union {at.brand}
    /\ pc' = IF Cardinality(MatchFwToCar(brand_fw, vin)) = 1 THEN "match" ELSE "brand"
    /\ UNCHANGED <<want, ret, paramVars, pandaVars, vin, present, at, brand_fw, result,
                   cache, car, drives, canVars>>

-----------------------------------------------------------------------------
(* The match, the CAN fingerprint and the decision.                        *)

\* match_fw_to_car on all answers; a malformed VIN is forgotten
Match ==
    /\ pc = "match"
    /\ result' = [cars |-> MatchFwToCar(fw, vin), exact |-> IsExact(fw, vin)]
    /\ vin' = IF vin = "valid" THEN vin ELSE "unknown"
    /\ SetObd(FALSE, "fwdone")
    /\ UNCHANGED <<paramVars, pandaVars, present, queried, at, fw, brand_fw,
                   cache, car, drives, canVars>>

FirmwareQueryDone ==
    /\ pc = "fwdone" /\ pc' = "can"
    /\ query_done' = TRUE
    /\ UNCHANGED <<want, ret, enabled, changed, pandaVars, queryVars, cache, car, drives, canVars>>

\* one packet of the CAN fingerprint
ReadCan ==
    /\ pc = "can" /\ ~CanDone
    /\ \E S0 \in SUBSET Sends[0], S1 \in SUBSET Sends[1] :
            CanFrame([b \in CanBuses |-> IF b = 0 THEN S0 ELSE S1])
    /\ UNCHANGED <<pc, want, ret, paramVars, pandaVars, queryVars, cache, car, drives>>

OneFwCandidate == Cardinality(result.cars) = 1

\* FINGERPRINT before firmware before CAN; a car that is not known is a mock
Decide ==
    /\ pc = "can" /\ CanDone
    /\ pc' = "done"
    /\ LET found == IF OneFwCandidate THEN CHOOSE c \in result.cars : TRUE ELSE car_fingerprint
           by    == IF OneFwCandidate THEN "fw" ELSE "can"
           exact == OneFwCandidate => result.exact
           name  == IF Fixed # NoCar THEN Fixed ELSE found
       IN /\ car' = [car |-> IF name = NoCar THEN "mock" ELSE name,
                     source |-> IF Fixed # NoCar THEN "fixed" ELSE by, exact |-> exact]
          /\ cache' = IF name = NoCar THEN NoCache ELSE [fw |-> fw, vin |-> vin]
    /\ UNCHANGED <<want, ret, paramVars, pandaVars, queryVars, drives, canVars>>

\* The next drive: card starts anew, CarParamsCache is still there.
NextDrive ==
    /\ pc = "done" /\ drives < MaxDrives
    /\ drives' = drives + 1 /\ pc' = "start"
    /\ query_done' = FALSE
    /\ vin' = "unknown" /\ present' = {} /\ queried' = {} /\ at' = Nowhere
    /\ fw' = {} /\ brand_fw' = {} /\ result' = NoResult
    /\ ResetCan
    /\ UNCHANGED <<want, ret, enabled, changed, pandaVars, cache, car>>

-----------------------------------------------------------------------------
Card ==
    \/ Start \/ GetVin \/ ScanEcus \/ NextBrand \/ StartRequest \/ Query \/ JudgeBrand
    \/ RemoveChanged \/ PutEnabled \/ GetChanged
    \/ Match \/ FirmwareQueryDone \/ ReadCan \/ Decide

Pandad == PandaSwitch \/ PandaReport

Next == Card \/ Pandad \/ NextDrive

\* Both processes run; the next drive need not come.
Fairness == WF_vars(Card) /\ WF_vars(Pandad)

Spec == Init /\ [][Next]_vars
FairSpec == Spec /\ Fairness

-----------------------------------------------------------------------------
(* Properties.                                                             *)

TypeOK ==
    /\ pc \in {"start", "remove", "put", "block", "vin", "scan", "brand", "request", "query",
               "judge", "match", "fwdone", "can", "done"}
    /\ ret \in {"start", "vin", "scan", "query", "fwdone"}
    /\ want \in BOOLEAN /\ enabled \in BOOLEAN /\ changed \in BOOLEAN
    /\ query_done \in BOOLEAN /\ mux \in BOOLEAN /\ ack \in BOOLEAN
    /\ vin \in Vins /\ present \subseteq Addrs /\ queried \subseteq Brands
    /\ fw \subseteq Answers /\ brand_fw \subseteq Answers /\ cache.fw \subseteq Answers
    /\ result.cars \subseteq Cars /\ result.exact \in BOOLEAN
    /\ car_fingerprint \in LegacyCars \union {NoCar}
    /\ \A b \in CanBuses : candidate_cars[b] \subseteq LegacyCars /\ finger[b] \subseteq Msgs
    /\ frame \in 0..(FrameLimit + 2)

\* Whatever acknowledgement an earlier switch has left behind, bus 1 is switched
\* the way a query needs it before the query is sent: to the OBD-II port for the
\* VIN, as each scan and each firmware request says; and it is back on the
\* harness when the firmware query is declared done, for the CAN fingerprint and
\* the ECU knockouts after it.
ModeRight ==
    /\ pc = "vin" => mux
    /\ pc = "scan" => mux = want
    /\ pc = "query" /\ OnMuxBus(Request) => mux = Request.obd_multiplexing
    /\ query_done => ~mux /\ ~enabled

\* Every other car has an essential ECU that the real one lacks or has with a
\* version unknown for the other.
RealDistinct ==
    \A c \in Cars \ {Real} : \E e \in DOMAIN FwVersions[c] \ DebugEcus :
        /\ ~Optional(c, e)
        /\ AddrOf[e] \in DOMAIN Installed => Installed[AddrOf[e]] \notin FwVersions[c][e]

\* However many ECUs stay silent, and whichever brands are queried before the
\* search is stopped, in this drive or in the one the cache is from: an exact
\* match is the real car.
ExactIsReal == RealDistinct /\ result.exact /\ result.cars # {} => result.cars = {Real}

\* The CAN fingerprint answers with a car only when, on one of the buses, it is
\* the only one that could have sent everything that was heard there, and not
\* before FRAME_FINGERPRINT packets.
CanSound ==
    car_fingerprint # NoCar =>
        /\ frame > FrameFingerprint + 1
        /\ \E b \in CanBuses :
              {c \in LegacyCars : \A m \in finger[b] \ Ignored : CouldSend(c, m)} = {car_fingerprint}

\* Every start comes to a decision: no switch of the panda is waited for in vain.
StartupEnds == [](pc = "start" => <>(pc = "done"))
=============================================================================
