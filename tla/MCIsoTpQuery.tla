---------------------------- MODULE MCIsoTpQuery ----------------------------
EXTENDS IsoTpQuery, TLC

\* A small instance of IsoTpQuery: two ECUs that share an address, two requests.

CONSTANTS e1, e2, noSub

\* e1 and e2 answer on the same address, with their own sub addresses.
MCRx  == [e \in Ecus |-> "rx"]
MCSub == e1 :> "sub1" @@ e2 :> "sub2"
=============================================================================
