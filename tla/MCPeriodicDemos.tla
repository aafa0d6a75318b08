-------------------------- MODULE MCPeriodicDemos --------------------------
(* Values of the constants of PeriodicDemos for TLC. *)
EXTENDS PeriodicDemos

ASSUME DemosAssumption

ByName == [t \in {40, 60, 80} |-> t]

\* demo_periodic as it is; demo_overload for longer than the 600 ms after which
\* its releases repeat; main may not get the processor to end it.
BothDemos == {"periodic", "overload"}
BothRunFor == [periodic |-> 200, overload |-> 60]
BothHorizon == [periodic |-> 300, overload |-> 80]

\* demo_overload alone, ended after those 600 ms instead of 2 s.
Overload == {"overload"}
OverloadRunFor == [overload |-> 60]
OverloadHorizon == [overload |-> 80]
=============================================================================
