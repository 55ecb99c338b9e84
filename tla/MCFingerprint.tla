---------------------------- MODULE MCFingerprint ----------------------------
(* Two brands with an address in common.  Brand 1 has the cars "a" and "b",  *)
(* brand 2 has "d"; the car is an "a" with an ECU more.  The custom match of *)
(* brand 2 looks at that ECU and at the VIN, whether it is valid or not.     *)
EXTENDS Fingerprint

MCCars == {"a", "b", "d"}
MCBrandOf == [a |-> 1, b |-> 1, d |-> 2]
MCEcus == {"engine", "abs", "gateway", "radio"}
MCAddrs == {"x", "y", "z"}
MCAddrOf == [engine |-> "x", abs |-> "y", gateway |-> "z", radio |-> "y"]
MCVersions == {"v1", "v2"}
MCFwVersions ==
    [a |-> [engine |-> {"v1"}, abs |-> {"v1"}],
     b |-> [engine |-> {"v2"}, abs |-> {"v1", "v2"}],
     d |-> [gateway |-> {"v1"}, radio |-> {"v1"}]]
MCEssential == {"engine", "abs", "gateway"}
MCNonEssential == [e \in MCEcus |-> IF e = "abs" THEN {"a"} ELSE {}]
MCCustom(b, live, v) == IF b = 2 /\ v # "unknown" /\ "v2" \in live["z"] THEN {"d"} ELSE {}

MCReq(bus, obd, log, addrs) ==
    [bus |-> bus, obd_multiplexing |-> obd, logging |-> log, addrs |-> addrs]
MCGroups == <<<<{"x"}, {"y"}>>, <<{"y", "z"}>>>>
MCRequests ==
    <<<<MCReq(1, TRUE, FALSE, MCAddrs), MCReq(1, FALSE, FALSE, {"y"})>>,
      <<MCReq(1, TRUE, FALSE, {"z"}), MCReq(0, FALSE, TRUE, {"y"}), MCReq(5, FALSE, FALSE, MCAddrs)>>>>

MCInstalled == [x |-> "v1", y |-> "v1", z |-> "v2"]
MCWiredTo == [x |-> "obd", y |-> "bus1", z |-> "obd"]

MCLegacy == {"a", "m", "k"}
MCMsgs == {"p", "q", "r", "long"}
MCFingerprints == [a |-> {{"p", "q"}}, m |-> {{"p"}, {"long"}}, k |-> {{"q", "r"}}]
MCSends == [b \in {0, 1} |-> IF b = 0 THEN {"p", "q", "r", "long"} ELSE {"p"}]
=============================================================================
