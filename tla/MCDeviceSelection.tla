-------------------------- MODULE MCDeviceSelection --------------------------
(* Small fleets for TLC. *)
EXTENDS DeviceSelection

CONSTANTS d1, d2, d3, w1, w2

Batch(sel, kind, n, thr) == [sel |-> sel, kind |-> kind, n |-> n, thr |-> thr]

(* One canary, then the rest; and half of the fleet, then the rest. *)
Canary == [seq |-> <<Batch({d1}, "none", 0, -1)>>, thr |-> -1]
Halves == [seq |-> <<Batch({d1, d2}, "percent", 50, 40), Batch({d1, d2}, "count", 1, -1)>>,
           thr |-> 60]

OnePolicy == {Canary}
TwoPolicies == {Canary, Halves}
Removable == {Canary, NoPolicy}
==============================================================================
