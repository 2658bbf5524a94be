-------------------------- MODULE MCVirtualNetwork --------------------------
(***************************************************************************)
(* Instances of VirtualNetwork for TLC.                                    *)
(***************************************************************************)
EXTENDS VirtualNetwork

AnyNic     == [ip |-> NoIP, by |-> "name"]
ByName(ip) == [ip |-> ip, by |-> "name"]

\* Templates that name the network by NETWORK: one or two NICs, with and
\* without an IP of their own, also one outside the network.
NamedLists == {<<AnyNic>>, <<AnyNic, ByName(1)>>, <<ByName(MaxIp), AnyNic>>}

\* A RANGED and a FIXED network with failures, and a FIXED one whose leases
\* come and go, also under the cursor.
AllNetworks ==
    [ranged |-> [type |-> "RANGED", leases |-> {}, added |-> {},
                 errors |-> {"escape", "exec"}, admin |-> {"hold"},
                 restarts |-> TRUE],
     fixed  |-> [type |-> "FIXED", leases |-> {0}, added |-> {1},
                 errors |-> {"exec"}, admin |-> {"hold"}, restarts |-> TRUE],
     churn  |-> [type |-> "FIXED", leases |-> {0, 1}, added |-> {0, 1},
                 errors |-> {}, admin |-> {"hold", "remove"}, restarts |-> FALSE]]
=============================================================================
