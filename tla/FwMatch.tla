------------------------------- MODULE FwMatch -------------------------------
(***************************************************************************)
(* selfdrive/car/fw_versions.py: matching the firmware versions a car      *)
(* answered with against the database (match_fw_to_car and below).         *)
(*                                                                         *)
(* An answer is a record of the brand whose query it answers, the address, *)
(* the version and whether the query is for logging only.                  *)
(***************************************************************************)
EXTENDS Integers, FiniteSets

CONSTANTS
    Cars,                 \* the platforms
    NumBrands,            \* brands are numbered in the order of VERSIONS
    BrandOf,              \* MODEL_TO_BRAND
    Ecus,                 \* ECU entries of the database
    Addrs,                \* addresses (with subaddress) ECUs answer at
    AddrOf,               \* the address of an ECU entry
    Versions,             \* firmware versions
    FwVersions,           \* FW_VERSIONS: for each car, its ECUs' known versions
    EssentialEcus,        \* ESSENTIAL_ECUS
    NonEssential,         \* non_essential_ecus: for each ECU, the cars without it
    FuzzyExclude,         \* FUZZY_EXCLUDE_ECUS
    DebugEcus,            \* virtual debug ECUs
    CustomFuzzy(_, _, _)  \* config.match_fw_to_car_fuzzy of a brand, on its
                          \* answers and the VIN; {} for a brand without one

Brands == 1..NumBrands

\* What is known of the VIN: a valid one, something else, or VIN_UNKNOWN.
Vins == {"valid", "malformed", "unknown"}

ASSUME BrandsAssumption   == NumBrands \in Nat /\ BrandOf \in [Cars -> Brands]
ASSUME AddrsAssumption    == AddrOf \in [Ecus -> Addrs]
ASSUME DatabaseAssumption ==
    \A c \in Cars : DOMAIN FwVersions[c] \subseteq Ecus
                    /\ \A e \in DOMAIN FwVersions[c] : FwVersions[c][e] \subseteq Versions
ASSUME CustomAssumption   ==
    \A b \in Brands, live \in [Addrs -> SUBSET Versions], vin \in Vins :
        CustomFuzzy(b, live, vin) \subseteq Cars

Answers == [brand : Brands, addr : Addrs, version : Versions, logging : BOOLEAN]

CarsOf(b) == {c \in Cars : BrandOf[c] = b}

\* build_fw_dict: the versions seen at each address by the queries of brand b
FwDict(fw, b) ==
    [a \in Addrs |-> {x.version : x \in {y \in fw : y.brand = b /\ ~y.logging /\ y.addr = a}}]

\* an ECU the car may be without
Optional(c, e) == c \in NonEssential[e] \/ e \notin EssentialEcus

EcuFits(c, e, live) ==
    LET found == live[AddrOf[e]]
    IN \/ found = {} /\ Optional(c, e)
       \/ e \in DebugEcus
       \/ found \cap FwVersions[c][e] # {}

\* Mutant of MatchExact: an ECU that is missing does not rule a car out.
MatchPresent(live, b) ==
    {c \in CarsOf(b) : \A e \in DOMAIN FwVersions[c] :
                          live[AddrOf[e]] = {} \/ EcuFits(c, e, live)}

MatchExact(live, b) ==
    {c \in CarsOf(b) : \A e \in DOMAIN FwVersions[c] : EcuFits(c, e, live)}

\* all_fw_versions: the cars of a brand that have a version at an address
CarsWith(a, v, b) ==
    {c \in CarsOf(b) : \E e \in DOMAIN FwVersions[c] \ FuzzyExclude :
                          AddrOf[e] = a /\ v \in FwVersions[c][e]}

\* The addresses whose versions point at one car only, with that car.
UniqueMatches(live, b) ==
    {hit \in Addrs \X CarsOf(b) : \E v \in live[hit[1]] : CarsWith(hit[1], v, b) = {hit[2]}}

\* rejected when two cars are matched uniquely, or by fewer than two addresses
MatchFuzzy(live, b) ==
    LET hits == UniqueMatches(live, b)
        cars == {h[2] : h \in hits}
        ecus == {h[1] : h \in hits}
    IN IF Cardinality(cars) = 1 /\ Cardinality(ecus) >= 2 THEN cars ELSE {}

ExactMatches(fw) == UNION {MatchExact(FwDict(fw, b), b) : b \in Brands}

\* Brand after brand; the custom function of a brand is asked when nothing has
\* matched so far.
FuzzyMatches(fw, vin) ==
    LET upTo[n \in 0..NumBrands] ==
            IF n = 0 THEN {}
            ELSE LET matches == upTo[n - 1] \union MatchFuzzy(FwDict(fw, n), n)
                 IN IF matches = {} THEN CustomFuzzy(n, FwDict(fw, n), vin) ELSE matches
    IN upTo[NumBrands]

\* match_fw_to_car: exact matches if there are any
IsExact(fw, vin) == ExactMatches(fw) # {} \/ FuzzyMatches(fw, vin) = {}
MatchFwToCar(fw, vin) ==
    IF ExactMatches(fw) # {} THEN ExactMatches(fw) ELSE FuzzyMatches(fw, vin)
=============================================================================
