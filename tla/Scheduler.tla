----------------------------- MODULE Scheduler -----------------------------
(***************************************************************************)
(* The scheduler and the shares of the hosts.                              *)
(*                                                                         *)
(* The scheduler is a process of its own.  Each round it asks the daemon   *)
(* for the hosts, the pending VMs and the rules, matches them, and asks    *)
(* the daemon to deploy.  It keeps count of what it gave in the round on   *)
(* its own copy of the shares; the daemon checks no capacity, and charges  *)
(* the share only when the Life-cycle Manager gets to the DEPLOY.          *)
(*                                                                         *)
(* Memory stands for the resources.  RANK may be any expression, so a VM   *)
(* gets any of the hosts that have room.  A limit of 0 or less is no limit: *)
(* it is one that is not reached.                                          *)
(***************************************************************************)
EXTENDS Integers, Sequences, FiniteSets

CONSTANTS
    Hosts,        \* Identifiers of hosts
    VMs,          \* The VMs that there are at a time
    MaxMem,       \* Memory of each host
    Mem,          \* What each VM needs, 0 if it has no MEMORY or no CPU
    Suits,        \* Hosts of each VM: REQUIREMENTS, and rights of its owner
    MAX_VM,       \* VMs that a round looks at
    MAX_DISPATCH, \* VMs that a round deploys
    MAX_HOST,     \* VMs that a round deploys on a host
    Scenarios     \* Bounds: records with the fields
                  \*   stream    VMs keep coming
                  \*   requests  bound on the requests of users and administrators
                  \*   faults    bound on the calls of the scheduler that fail

ASSUME SchedulerAssumption ==
    /\ VMs \subseteq Nat /\ IsFiniteSet(VMs)
    /\ Hosts \subseteq Nat /\ IsFiniteSet(Hosts)
    /\ MaxMem \in [Hosts -> Nat] /\ Mem \in [VMs -> Nat]
    /\ Suits \in [VMs -> SUBSET Hosts]
    /\ MAX_VM \in Nat \ {0} /\ MAX_DISPATCH \in Nat \ {0}
    /\ MAX_HOST \in Nat \ {0}
    /\ \A s \in Scenarios :
        s.stream \in BOOLEAN /\ s.requests \in Nat /\ s.faults \in Nat

VARIABLES
    now,      \* The scenario
    host,     \* The hosts of the daemon with their shares
    order,    \* The VMs in the order in which they came, which is the order of
              \* their identifiers
    vm,       \* State and host of each VM; "queued": ACTIVE, DEPLOY not handled
    round,    \* What the scheduler knows in its round
    crossed,  \* TRUE iff a round read the shares while a DEPLOY was waiting,
              \* or a user deployed a VM
    requests, \* Requests so far
    faults    \* Failed calls so far

vars == <<now, host, order, vm, round, crossed, requests, faults>>

NoHost == -1
NoVM == [state |-> "none", hid |-> NoHost]

\* The state of a VM that is over; when VMs keep coming, another may take its
\* place.
Over == IF now.stream THEN "none" ELSE "done"

\* mem and vms are charged; free is what the host was found to have left.
NewHost == [state |-> "enabled", mem |-> 0, vms |-> 0, free |-> 0]
NoCopy == [mem |-> 0, free |-> -1]

\* A scheduler between two rounds.
Waiting == [at |-> "wait", hosts |-> [h \in Hosts |-> NoCopy],
            vms |-> {}, match |-> [v \in VMs |-> {}],
            host_vms |-> [h \in Hosts |-> 0], dispatched |-> 0]

\* Hosts that were just added, and no VMs.
Init ==
    /\ now \in Scenarios
    /\ host = [h \in Hosts |-> NewHost]
    /\ order = <<>> /\ vm = [v \in VMs |-> NoVM]
    /\ round = Waiting
    /\ crossed = FALSE
    /\ requests = 0 /\ faults = 0

\* VM w came before v.
Before(w, v) ==
    \E i, j \in DOMAIN order : i < j /\ order[i] = w /\ order[j] = v

Pending == {v \in VMs : vm[v].state = "pending"}
Queued == {v \in VMs : vm[v].state = "queued"}
Enabled(h) == host[h].state = "enabled"
Exists(h) == host[h].state # "gone"
-----------------------------------------------------------------------------
(* A round of the scheduler.                                               *)

\* HostPoolXML::set_up: the hosts that are neither in ERROR nor DISABLED.
ReadHosts ==
    /\ round.at = "wait"
    /\ round' = [round EXCEPT !.at = "vms", !.hosts =
            [h \in Hosts |-> IF Enabled(h)
                             THEN [mem |-> host[h].mem, free |-> host[h].free]
                             ELSE NoCopy]]
    /\ crossed' = (crossed \/ Queued # {})
    /\ UNCHANGED <<now, host, order, vm, requests, faults>>

\* Mutant: the MAX_VM pending VMs that came last.
Window_Last ==
    {v \in Pending : Cardinality({w \in Pending : Before(v, w)}) < MAX_VM}

\* The MAX_VM pending VMs that came first.
Window ==
    {v \in Pending : Cardinality({w \in Pending : Before(w, v)}) < MAX_VM}

\* test_capacity, on the copy of the share.
test_capacity(h, v) == MaxMem[h] - round.hosts[h].mem >= Mem[v]

\* match: what the host was found to have left counts too.
Matches(v) ==
    {h \in Suits[v] : /\ Mem[v] <= round.hosts[h].free
                      /\ test_capacity(h, v)}

\* VirtualMachinePoolXML::set_up, AclXML::set_up and match.
ReadVMs ==
    /\ round.at = "vms"
    /\ round' = [at |-> "dispatch", hosts |-> round.hosts, vms |-> Window,
                 match |-> [v \in VMs |-> IF v \in Window THEN Matches(v) ELSE {}],
                 host_vms |-> round.host_vms, dispatched |-> round.dispatched]
    /\ UNCHANGED <<now, host, order, vm, crossed, requests, faults>>

\* The daemon did not answer, or refused: the round is over.
SetUpFails ==
    /\ round.at \in {"wait", "vms"}
    /\ faults < now.faults /\ faults' = faults + 1
    /\ round' = Waiting
    /\ UNCHANGED <<now, host, order, vm, crossed, requests>>

\* Hosts that get_host may find for VM v: they have room for it and for one
\* more VM of this round.
HasRoom(v) ==
    {h \in round.match[v] : /\ test_capacity(h, v)
                            /\ round.host_vms[h] < MAX_HOST}

\* Mutant: the copy of the share is not charged.
get_host_Free(v, h) ==
    [round EXCEPT !.vms = @ \ {v}, !.host_vms[h] = @ + 1]

\* get_host charges the copy of the share, whatever the daemon says later.
get_host(v, h) ==
    [at |-> round.at,
     hosts |-> [round.hosts EXCEPT ![h].mem = @ + Mem[v]],
     vms |-> round.vms \ {v}, match |-> round.match,
     host_vms |-> [round.host_vms EXCEPT ![h] = @ + 1],
     dispatched |-> round.dispatched]

\* one.vm.deploy: the host exists, in any state, and the VM is pending still.
CanDeploy(v, h) == Exists(h) /\ vm[v].state = "pending"

deploy(v, h) ==
    vm' = IF CanDeploy(v, h)
          THEN [vm EXCEPT ![v] = [state |-> "queued", hid |-> h]] ELSE vm

\* The next VM of the round, in the order of their numbers.
NextVM(v) ==
    /\ round.at = "dispatch" /\ round.dispatched < MAX_DISPATCH
    /\ v \in round.vms /\ \A w \in round.vms : ~Before(w, v)

\* dispatch: the VM is deployed, or the daemon refuses.
Dispatch(v, h) ==
    /\ NextVM(v) /\ h \in HasRoom(v)
    /\ deploy(v, h)
    /\ round' = [get_host(v, h) EXCEPT !.dispatched =
                    IF CanDeploy(v, h) THEN @ + 1 ELSE @]
    /\ UNCHANGED <<now, host, order, crossed, requests, faults>>

\* The call fails, before the daemon gets it or after.
DispatchFails(v, h) ==
    /\ NextVM(v) /\ h \in HasRoom(v)
    /\ faults < now.faults /\ faults' = faults + 1
    /\ deploy(v, h) \/ UNCHANGED vm
    /\ round' = get_host(v, h)
    /\ UNCHANGED <<now, host, order, crossed, requests>>

\* There is no host for the VM in this round.
Skip(v) ==
    /\ NextVM(v) /\ HasRoom(v) = {}
    /\ round' = [round EXCEPT !.vms = @ \ {v}]
    /\ UNCHANGED <<now, host, order, vm, crossed, requests, faults>>

NextRound == Waiting

EndRound ==
    /\ round.at = "dispatch"
    /\ round.vms = {} \/ round.dispatched >= MAX_DISPATCH
    /\ round' = NextRound
    /\ UNCHANGED <<now, host, order, vm, crossed, requests, faults>>
-----------------------------------------------------------------------------
(* The daemon.                                                             *)

\* HostPool::add_capacity and del_capacity: mem and n are added to the share, if
\* the host is still there.
Charge(h, mem, n) ==
    host' = IF Exists(h)
            THEN [host EXCEPT ![h] =
                    [state |-> @.state, mem |-> @.mem + mem, vms |-> @.vms + n,
                     free |-> @.free]]
            ELSE host

\* LifeCycleManager::deploy_action: the share is charged.
deploy_action(v) ==
    /\ v \in Queued
    /\ vm' = [vm EXCEPT ![v].state = "active"]
    /\ Charge(vm[v].hid, Mem[v], 1)
    /\ UNCHANGED <<now, order, round, crossed, requests, faults>>

\* The VM ends: the share is given back.  One that is resubmitted is pending
\* again.
Ends(v, to) ==
    /\ vm[v].state = "active"
    /\ vm' = [vm EXCEPT ![v] = [state |-> to, hid |-> NoHost]]
    /\ Charge(vm[v].hid, -Mem[v], -1)
    /\ UNCHANGED <<now, order, round, crossed, faults>>

Finishes(v) == Ends(v, Over) /\ UNCHANGED requests

\* VMs that were given host h.
On(h, states) == {v \in VMs : vm[v].hid = h /\ vm[v].state \in states}

\* The memory of VMs vs, counted unit by unit.
Units(v) == {v} \X (1..Mem[v])
MemSum(vs) == Cardinality(UNION {Units(v) : v \in vs})

MemOf(h, states) == MemSum(On(h, states))

\* The host is monitored: what is left is what running VMs do not have.
Monitor(h) ==
    /\ Exists(h)
    /\ host' = [host EXCEPT ![h].free = MaxMem[h] - MemOf(h, {"active"})]
    /\ host' # host
    /\ UNCHANGED <<now, order, vm, round, crossed, requests, faults>>
-----------------------------------------------------------------------------
(* Users and administrators.                                               *)

Comes == requests < now.requests /\ requests' = requests + 1

\* A VM comes, the last one: in the order of their numbers, or again and again if
\* VMs keep coming.  (It is not taken for one that is over, of which a round still
\* knows.)
Submit(v) ==
    /\ vm[v] = NoVM /\ v \notin round.vms
    /\ now.stream \/ \A w \in VMs : w < v => vm[w] # NoVM
    /\ order' = Append(SelectSeq(order, LAMBDA w : w # v), v)
    /\ vm' = [vm EXCEPT ![v].state = "pending"]
    /\ UNCHANGED <<now, host, round, crossed, requests, faults>>

Resubmit(v) == Comes /\ Ends(v, "pending")

\* A user deploys a VM, wherever it is allowed to.
UserDeploy(v, h) ==
    /\ Comes
    /\ CanDeploy(v, h) /\ h \in Suits[v]
    /\ deploy(v, h)
    /\ crossed' = TRUE
    /\ UNCHANGED <<now, host, order, round, faults>>

\* A VM that is pending is held or deleted.
Leaves(v) ==
    /\ Comes
    /\ v \in Pending
    /\ vm' = [vm EXCEPT ![v].state = Over]
    /\ UNCHANGED <<now, host, order, round, crossed, faults>>

\* A host is disabled or found in ERROR, and enabled again.
Switch(h) ==
    /\ Comes /\ Exists(h)
    /\ host' = [host EXCEPT ![h].state =
                    IF @ = "enabled" THEN "disabled" ELSE "enabled"]
    /\ UNCHANGED <<now, order, vm, round, crossed, faults>>

\* HostPool::drop asks only the share.
Drop(h) ==
    /\ Comes /\ Exists(h) /\ host[h].vms = 0
    /\ host' = [host EXCEPT ![h].state = "gone"]
    /\ UNCHANGED <<now, order, vm, round, crossed, faults>>

Next ==
    \/ ReadHosts \/ ReadVMs \/ SetUpFails \/ EndRound
    \/ \E v \in VMs :
        \/ Skip(v) \/ deploy_action(v) \/ Finishes(v)
        \/ Submit(v) \/ Resubmit(v) \/ Leaves(v)
        \/ \E h \in Hosts : \/ Dispatch(v, h) \/ DispatchFails(v, h)
                            \/ UserDeploy(v, h)
    \/ \E h \in Hosts : Monitor(h) \/ Switch(h) \/ Drop(h)

\* The scheduler runs, the Life-cycle Manager gets to its events, VMs end and
\* hosts are monitored.
Fairness ==
    /\ WF_vars(ReadHosts) /\ WF_vars(ReadVMs) /\ WF_vars(EndRound)
    /\ \A v \in VMs :
        /\ WF_vars(Skip(v) \/ \E h \in Hosts : Dispatch(v, h))
        /\ WF_vars(deploy_action(v)) /\ WF_vars(Finishes(v))
    /\ \A h \in Hosts : WF_vars(Monitor(h))

Spec == Init /\ [][Next]_vars /\ Fairness
-----------------------------------------------------------------------------
\* The VMs that were given a host fit in it, those whose DEPLOY is still to be
\* handled too: the daemon never looks, and the scheduler works on copies, with
\* calls that fail half way and hosts and VMs that change meanwhile.  (Not after
\* a round read the shares before a DEPLOY of the round before was handled, nor
\* after users deployed by themselves: nothing holds the place of a VM between
\* the two.)
NotOvercommitted ==
    ~crossed => \A h \in Hosts : MemOf(h, {"queued", "active"}) <= MaxMem[h]

\* VM v could run: a host that suits it is enabled and large enough.
CanRun(v) == \E h \in Suits[v] : Enabled(h) /\ Mem[v] <= MaxMem[h]

\* No VM that may come to a host of v needs less than v.
IsLeast(v) == \A w \in VMs : Suits[w] \cap Suits[v] # {} => Mem[v] <= Mem[w]

\* VMs before v that cannot run, or for which there may never be room, take their
\* place in the window of each round.
Hopeless(v) == {w \in Pending : Before(w, v) /\ ~(CanRun(w) /\ IsLeast(w))}

\* A VM that could run does not wait for ever, whatever comes before it and
\* however many come after it, if none of those that compete with it needs less,
\* and as long as fewer than MAX_VM of those before it are VMs for which there may
\* never be room.  (get_host gives the room there is to the first VM that fits:
\* for a VM that needs more, smaller ones that keep coming may leave none, ever.)
Placed ==
    \A v \in VMs :
        IsLeast(v) =>
        []<>~(v \in Pending /\ CanRun(v) /\ Cardinality(Hopeless(v)) < MAX_VM)
=============================================================================
