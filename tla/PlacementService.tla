-------------------------- MODULE PlacementService --------------------------
(***************************************************************************)
(* What the life cycle of a VM promises to the hosts: the VM runs only     *)
(* where a host has set capacity aside for it, on one host at a time, and  *)
(* a host gets its capacity back only once the VM no longer runs there.    *)
(* A migration takes capacity from the new host before the old one is      *)
(* given back.                                                             *)
(***************************************************************************)
EXTENDS Integers

CONSTANT Hosts

VARIABLES
    share,      \* How many times the VM is counted in the share of each host
    running     \* The hosts where the VM runs

pvars == <<share, running>>

PlacementInit == share = [h \in Hosts |-> 0] /\ running = {}

Take(h) ==
    /\ share' = [share EXCEPT ![h] = @ + 1]
    /\ UNCHANGED running

GiveBack(h) ==
    /\ share[h] > 0
    /\ h \in running => share[h] > 1
    /\ share' = [share EXCEPT ![h] = @ - 1]
    /\ UNCHANGED running

Start(h) ==
    /\ running = {} /\ share[h] > 0
    /\ running' = {h}
    /\ UNCHANGED share

Stop == running # {} /\ running' = {} /\ UNCHANGED share

Move(h) ==
    /\ running # {} /\ share[h] > 0
    /\ running' = {h}
    /\ UNCHANGED share

PlacementNext ==
    \/ Stop
    \/ \E h \in Hosts : Take(h) \/ GiveBack(h) \/ Start(h) \/ Move(h)

PlacementSpec == PlacementInit /\ [][PlacementNext]_pvars
=============================================================================
