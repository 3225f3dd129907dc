----------------------------- MODULE MCPeriodicTasks -----------------------------
(* Two organizations and a system-wide task, for TLC. *)
EXTENDS PeriodicTasks

CONSTANTS o1, o2, s1, c1, c2
==================================================================================
