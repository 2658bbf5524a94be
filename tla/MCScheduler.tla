---------------------------- MODULE MCScheduler ----------------------------
(***************************************************************************)
(* Three VMs, of which one suits no host, and two hosts of different size. *)
(***************************************************************************)
EXTENDS Scheduler

MCHosts == 1..2
MCMaxMem == <<1, 2>>
MCVMs == 1..3
MCMem == <<1, 1, 2>>
MCSuits == [v \in MCVMs |-> IF v = 1 THEN {} ELSE MCHosts]

\* VMs keep coming, and a call of the scheduler may fail.
Stream == [stream |-> TRUE, requests |-> 0, faults |-> 1]

\* Three VMs come and end, with users and administrators who interfere.
Crossing == [stream |-> FALSE, requests |-> 1, faults |-> 1]

MCScenarios == {Stream, Crossing}
=============================================================================
