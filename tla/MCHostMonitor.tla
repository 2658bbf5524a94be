--------------------------- MODULE MCHostMonitor ---------------------------
(***************************************************************************)
(* HostMonitor on small instances.                                         *)
(***************************************************************************)
EXTENDS HostMonitor

\* Two hosts, one without a driver, with all that administrators may ask.
Asked == [hosts |-> {1, 2}, drivers |-> {{1}}, hook |-> "ERROR", sent |-> 2,
          requests |-> 4, faults |-> 1]

\* More hosts than the timer takes at once: the driver of the first is silent.
Crowd == [hosts |-> {1, 2, 3}, drivers |-> {{1, 2}, {3}}, hook |-> "DISABLED",
          sent |-> 1, requests |-> 0, faults |-> 1]

\* The same, the first host has no driver, and a host may come or go.
Change == [Crowd EXCEPT !.drivers = {{2, 3}}, !.requests = 1, !.faults = 0]

AllScenarios == {Asked, Crowd, Change}
=============================================================================
