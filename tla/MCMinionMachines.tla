-------------------------- MODULE MCMinionMachines --------------------------
(***************************************************************************)
(* MinionMachines for TLC: one action with one instance, one with two.     *)
(***************************************************************************)
EXTENDS MinionMachines, TLC

CONSTANTS one, two

TwoInstances == (one :> 1) @@ (two :> 2)

Scenario(retention, refreshed, failing) ==
  [retention |-> retention, refreshed |-> refreshed, faults |-> failing,
   again |-> FALSE, orderly |-> TRUE]

Again(scenario) == [scenario EXCEPT !.again = TRUE]

Overtaken(scenario) == [scenario EXCEPT !.orderly = FALSE]

\* Without refreshes machines may fail to pass their checks, to be created and
\* to be powered on; with them, to be created, deleted and powered off.  A transfer is
\* executed again, in order and not.
SafeScenarios ==
  {Scenario("delete", FALSE, {"unhealthy", "undeployed", "unpowered_on"}),
   Scenario("delete", TRUE, {"undeployed", "undeletable"}),
   Scenario("poweroff", TRUE, {"undeployed", "unpowered_off"}),
   Again(Scenario("delete", TRUE, {"undeployed"})),
   Again(Overtaken(Scenario("poweroff", FALSE, {"undeployed"}))),
   Overtaken(Scenario("poweroff", FALSE, {"undeployed"}))}

RefreshUnhealthy == {Scenario("delete", TRUE, {"unhealthy"})}
=============================================================================
