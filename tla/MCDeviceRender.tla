----------------------------- MODULE MCDeviceRender -----------------------------
(* Small fleets for TLC. *)
EXTENDS DeviceRender

CONSTANTS w1, w2

(* Two devices of one group and one of another. *)
TwoGroups == [d \in Devices |-> IF d = 3 THEN "b" ELSE "a"]

(* The third version has the spec of the first. *)
Reverted == <<"A", "B", "A", "C">>

OneAway == [max |-> 1, min |-> None]
OneThere == [max |-> None, min |-> 1]
Both == [max |-> 2, min |-> 1]

AllBudgets == {None, OneAway, OneThere, Both}
MaxOrNone == {None, OneAway}
================================================================================
