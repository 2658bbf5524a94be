---------------------------- MODULE LeaseService ----------------------------
(***************************************************************************)
(* What a virtual network promises to Virtual Machines: an IP is given     *)
(* only while nobody has it.                                               *)
(***************************************************************************)
CONSTANTS VMs, IPs

VARIABLE holders      \* For each IP, the VMs that have it

Init == holders = [ip \in IPs |-> {}]

Acquire(v, ip) ==
    /\ holders[ip] = {}
    /\ holders' = [holders EXCEPT ![ip] = {v}]

\* A VM gives back an IP, or all of them at once when its insertion fails;
\* several VMs lose theirs when the daemon dies.
GiveBack ==
    /\ holders' \in [IPs -> SUBSET VMs]
    /\ \A ip \in IPs : holders'[ip] \subseteq holders[ip]

Next == (\E v \in VMs, ip \in IPs : Acquire(v, ip)) \/ GiveBack

Spec == Init /\ [][Next]_holders
=============================================================================
