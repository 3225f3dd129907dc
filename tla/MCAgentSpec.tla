---------------------------- MODULE MCAgentSpec -----------------------------
(***************************************************************************)
(* Small instances of AgentSpec for TLC: two or three rendered versions,     *)
(* the places where the process may die, and a budget for every kind of      *)
(* fault.                                                                   *)
(***************************************************************************)
EXTENDS AgentSpec

\* Content a asks for image os1, b for os2, o for the installed one and n for none.
ImageOf == [c \in Contents |-> CASE c = "a" -> "os1" [] c = "b" -> "os2"
                                  [] c = "o" -> BootImage [] OTHER -> NoImage]

\* What the service renders as version 1, 2, ...  In PlanAA the second version has the
\* content of the first, as after a console session was added;
\* in PlanReturn the third may go back to the first; in PlanInstalled the first names the
\* image that runs already.
PlanAB == <<{"a"}, {"b"}>>
PlanAA == <<{"a"}, {"a"}>>
PlanInstalled == <<{"o"}, {"a"}>>
PlanReturn == <<{"a"}, {"b"}, {"n", "a"}>>

Ready == {[download |-> TRUE, update |-> TRUE]}

Everywhere == {"off", "idle", "next"} \union Booting \union Syncing \union RollingBack
Nowhere == {}
OutsideWrites == Everywhere \ {"copy", "clear", "staged"}
InUpgrade == {"clear"}
InIdle == {"idle"}
InCopy == {"copy"}

Budget(retries, fatals, prefetches, crashes, powers, healths, drops) ==
  [retry |-> retries, fatal |-> fatals, prefetch |-> prefetches, crash |-> crashes,
   power |-> powers, health |-> healths, drop |-> drops]

FaultsSafety == Budget(1, 1, 1, 1, 1, 1, 0)
FaultsReturn == Budget(0, 2, 0, 0, 1, 1, 1)
FaultsCommit == Budget(0, 0, 0, 1, 0, 0, 0)
FaultsConsole == Budget(0, 1, 0, 0, 0, 0, 0)
FaultsHook == Budget(0, 1, 0, 0, 1, 0, 0)
FaultsCopy == Budget(0, 0, 1, 1, 0, 0, 0)
=============================================================================
