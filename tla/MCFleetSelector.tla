-------------------------- MODULE MCFleetSelector --------------------------
(***************************************************************************)
(* Small instances of FleetSelector.                                       *)
(***************************************************************************)
EXTENDS FleetSelector

CONSTANTS f1, f2, d1, d2, p, q, w1, w2

OneFleet == {f1}
TwoFleets == {f1, f2}
OneDevice == {d1}
TwoDevices == {d1, d2}
TwoPairs == {p, q}
AnyLabels == SUBSET TwoPairs
SomeLabels == {{}, {p}, {p, q}}
OneWorker == {w1}
TwoWorkers == {w1, w2}
============================================================================
