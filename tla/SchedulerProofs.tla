-------------------------- MODULE SchedulerProofs --------------------------
(***************************************************************************)
(* The shares of hosts are charged exactly, and no host is given more than *)
(* it has: proved for any hosts, VMs, sizes and limits of the scheduler.   *)
(***************************************************************************)
EXTENDS Scheduler, FiniteSetTheorems, FunctionTheorems, TLAPS

HostRecord == [state : {"enabled", "disabled", "gone"}, mem : Int, vms : Int,
               free : Int]
VmRecord == [state : {"none", "pending", "queued", "active", "done"},
             hid : Hosts \cup {NoHost}]
Copy == [mem : Int, free : Int]
RoundRecord ==
    [at : {"wait", "vms", "dispatch"}, hosts : [Hosts -> Copy], vms : SUBSET VMs,
     match : [VMs -> SUBSET Hosts], host_vms : [Hosts -> Int], dispatched : Int]

TypeInv ==
    /\ host \in [Hosts -> HostRecord]
    /\ vm \in [VMs -> VmRecord]
    /\ round \in RoundRecord

\* A VM that was given a host has one.
Given == \A v \in VMs : vm[v].state \in {"queued", "active"} => vm[v].hid \in Hosts

\* The share of a host that exists is what VMs have there whose DEPLOY was
\* handled.
ShareIsExact ==
    \A h \in Hosts : Exists(h) =>
        /\ host[h].mem = MemOf(h, {"active"})
        /\ host[h].vms = Cardinality(On(h, {"active"}))

\* The scheduler matches only hosts that it has a copy of.
MatchIsCopied ==
    round.at = "dispatch" =>
        \A v \in VMs : \A h \in round.match[v] : round.hosts[h].free >= 0

\* Its copy of a share counts at least the VMs that were given the host.
CopyIsEnough ==
    ~crossed /\ round.at # "wait" =>
        \A h \in Hosts : round.hosts[h].free >= 0 =>
            MemOf(h, {"queued", "active"}) <= round.hosts[h].mem

SchedInv ==
    /\ TypeInv /\ Given /\ ShareIsExact /\ MatchIsCopied /\ CopyIsEnough
    /\ NotOvercommitted
-----------------------------------------------------------------------------
(* Lemmas about the operators.                                             *)

\* A VM has as many units as it needs memory.
LEMMA UnitsOf ==
    ASSUME NEW v \in VMs
    PROVE  IsFiniteSet(Units(v)) /\ Cardinality(Units(v)) = Mem[v] /\ Mem[v] \in Nat
  <1> DEFINE S == {v}
             T == 1..Mem[v]
  <1>1. IsFiniteSet(S) /\ Cardinality(S) = 1
    BY FS_Singleton
  <1>2. Mem[v] \in Nat
    BY SchedulerAssumption
  <1>3. IsFiniteSet(T) /\ Cardinality(T) = Mem[v]
    BY <1>2, FS_Interval
  <1>4. Units(v) = S \X T
    BY DEF Units
  <1> HIDE DEF S, T
  <1>5. IsFiniteSet(S \X T) /\ Cardinality(S \X T) = Cardinality(S) * Cardinality(T)
    BY <1>1, <1>3, FS_Product
  <1> QED BY <1>1, <1>2, <1>3, <1>4, <1>5

\* The units of memory of finitely many VMs are finite.
LEMMA UnitsFinite ==
    ASSUME NEW vs \in SUBSET VMs
    PROVE  /\ IsFiniteSet(vs) /\ IsFiniteSet(UNION {Units(v) : v \in vs})
           /\ MemSum(vs) \in Nat
  <1>1. IsFiniteSet(vs)
    BY FS_Subset, SchedulerAssumption
  <1>2. ASSUME NEW v \in VMs
        PROVE  IsFiniteSet(Units(v))
    BY UnitsOf
  <1> DEFINE f == [v \in vs |-> Units(v)]
             T == {Units(v) : v \in vs}
  <1>3. f \in Surjection(vs, T)
    BY DEF Surjection
  <1>4. IsFiniteSet(T)
    BY <1>1, <1>3, FS_Surjection
  <1>5. \A u \in T : IsFiniteSet(u)
    BY <1>2
  <1>6. IsFiniteSet(UNION T)
    BY <1>4, <1>5, FS_UNION
  <1> QED BY <1>1, <1>6, FS_CardinalityType DEF MemSum

\* A further VM adds its memory to the sum.
LEMMA MemAdd ==
    ASSUME NEW vs \in SUBSET VMs, NEW v \in VMs \ vs
    PROVE  MemSum(vs \cup {v}) = MemSum(vs) + Mem[v]
  <1> DEFINE U == UNION {Units(w) : w \in vs}
  <1>1. UNION {Units(w) : w \in vs \cup {v}} = U \cup Units(v)
    OBVIOUS
  <1>2. U \cap Units(v) = {}
    BY DEF Units
  <1>3. IsFiniteSet(U) /\ Cardinality(U) \in Nat
    BY UnitsFinite, FS_CardinalityType
  <1>4. IsFiniteSet(Units(v)) /\ Cardinality(Units(v)) = Mem[v]
    BY UnitsOf
  <1>5. Cardinality(U \cup Units(v)) = Cardinality(U) + Mem[v]
    <2>1. Cardinality(U \cap Units(v)) = 0
      BY <1>2, FS_EmptySet
    <2> HIDE DEF U
    <2>2. Cardinality(U \cup Units(v))
              = Cardinality(U) + Cardinality(Units(v)) - Cardinality(U \cap Units(v))
      BY <1>3, <1>4, FS_Union
    <2>3. Mem[v] \in Nat
      BY UnitsOf
    <2> QED BY <1>3, <1>4, <2>1, <2>2, <2>3
  <1> QED BY <1>1, <1>5 DEF MemSum

\* Fewer VMs have less memory.
LEMMA MemLess ==
    ASSUME NEW ws \in SUBSET VMs, NEW vs \in SUBSET ws
    PROVE  MemSum(vs) <= MemSum(ws)
  <1>1. (UNION {Units(v) : v \in vs}) \in SUBSET (UNION {Units(v) : v \in ws})
    OBVIOUS
  <1> QED BY <1>1, UnitsFinite, FS_Subset DEF MemSum

LEMMA CountAdd ==
    ASSUME NEW vs \in SUBSET VMs, NEW v \in VMs \ vs
    PROVE  /\ Cardinality(vs \cup {v}) = Cardinality(vs) + 1
           /\ Cardinality(vs) \in Nat
  BY UnitsFinite, FS_AddElement, FS_CardinalityType
-----------------------------------------------------------------------------
(* What the steps of the daemon and of the scheduler keep.                 *)

LEMMA InitSched == Init => SchedInv
  <1> SUFFICES ASSUME Init PROVE SchedInv
    OBVIOUS
  <1> USE DEF Init
  <1>1. TypeInv
    <2>1. round \in RoundRecord
      BY DEF RoundRecord, Waiting, NoCopy, Copy
    <2> QED BY <2>1 DEF TypeInv, HostRecord, NewHost, VmRecord, NoVM
  <1>2. \A h \in Hosts : On(h, {"active"}) = {} /\ On(h, {"queued", "active"}) = {}
    BY DEF On, NoVM
  <1>3. MemSum({}) = 0
    BY FS_EmptySet DEF MemSum
  <1>4. ShareIsExact
    BY <1>2, <1>3, FS_EmptySet DEF ShareIsExact, MemOf, NewHost
  <1>5. NotOvercommitted
    <2>1. \A h \in Hosts : MaxMem[h] \in Nat
      BY SchedulerAssumption
    <2>2. \A h \in Hosts : MemOf(h, {"queued", "active"}) = 0
      BY <1>2, <1>3 DEF MemOf
    <2> QED BY <2>1, <2>2 DEF NotOvercommitted
  <1> QED BY <1>1, <1>4, <1>5
          DEF SchedInv, Given, MatchIsCopied, CopyIsEnough, Waiting, NoVM

\* What VMs have on a host, in either sense, is a natural number.
LEMMA MemOfType ==
    ASSUME NEW h, NEW states
    PROVE  /\ On(h, states) \in SUBSET VMs /\ MemOf(h, states) \in Nat
  <1>1. On(h, states) \in SUBSET VMs
    BY DEF On
  <1> QED BY <1>1, UnitsFinite DEF MemOf

\* Steps that change no share and give no host to a VM.
LEMMA NobodyGiven ==
    ASSUME SchedInv, UNCHANGED host,
           vm' \in [VMs -> VmRecord],
           \A v \in VMs :
               /\ vm'[v].state \in {"queued", "active"}
                      <=> vm[v].state \in {"queued", "active"}
               /\ vm'[v].state = "active" <=> vm[v].state = "active"
               /\ vm[v].state \in {"queued", "active"} => vm'[v].hid = vm[v].hid
    PROVE  /\ Given' /\ ShareIsExact'
           /\ \A h \in Hosts : MemOf(h, {"queued", "active"})'
                                   = MemOf(h, {"queued", "active"})
  <1>1. \A h \in Hosts : /\ On(h, {"queued", "active"})' = On(h, {"queued", "active"})
                         /\ On(h, {"active"})' = On(h, {"active"})
    BY DEF On
  <1>2. \A h \in Hosts : /\ MemOf(h, {"queued", "active"})' = MemOf(h, {"queued", "active"})
                         /\ MemOf(h, {"active"})' = MemOf(h, {"active"})
    BY <1>1 DEF MemOf, MemSum
  <1>3. Given'
    BY DEF SchedInv, Given
  <1> QED BY <1>1, <1>2, <1>3 DEF SchedInv, ShareIsExact, Exists

\* A VM that was pending is given a host.
LEMMA GivenHost ==
    ASSUME SchedInv, UNCHANGED host, NEW v \in VMs, NEW h \in Hosts,
           vm[v].state = "pending",
           vm' = [vm EXCEPT ![v] = [state |-> "queued", hid |-> h]]
    PROVE  /\ vm' \in [VMs -> VmRecord] /\ Given' /\ ShareIsExact'
           /\ MemOf(h, {"queued", "active"})' = MemOf(h, {"queued", "active"}) + Mem[v]
           /\ \A g \in Hosts : g # h => MemOf(g, {"queued", "active"})'
                                            = MemOf(g, {"queued", "active"})
  <1>0. vm \in [VMs -> VmRecord]
    BY DEF SchedInv, TypeInv
  <1>1. vm' \in [VMs -> VmRecord]
    BY <1>0 DEF VmRecord
  <1>2. /\ On(h, {"queued", "active"})' = On(h, {"queued", "active"}) \cup {v}
        /\ v \notin On(h, {"queued", "active"})
        /\ \A g \in Hosts : g # h => On(g, {"queued", "active"})'
                                         = On(g, {"queued", "active"})
        /\ \A g \in Hosts : On(g, {"active"})' = On(g, {"active"})
    BY <1>0 DEF On
  <1>3. MemOf(h, {"queued", "active"})' = MemOf(h, {"queued", "active"}) + Mem[v]
    BY <1>2, MemOfType, MemAdd DEF MemOf, MemSum
  <1>4. \A g \in Hosts : /\ g # h => MemOf(g, {"queued", "active"})'
                                         = MemOf(g, {"queued", "active"})
                         /\ MemOf(g, {"active"})' = MemOf(g, {"active"})
    BY <1>2 DEF MemOf, MemSum
  <1>5. Given'
    BY <1>0 DEF SchedInv, Given
  <1> QED BY <1>1, <1>2, <1>3, <1>4, <1>5 DEF SchedInv, ShareIsExact, Exists

\* A share that is charged for the VMs that it counts stays exact.
LEMMA ChargeExact ==
    ASSUME SchedInv, NEW h \in Hosts, NEW mem \in Int, NEW n \in Int,
           Charge(h, mem, n),
           \A g \in Hosts : /\ MemOf(g, {"active"})' = MemOf(g, {"active"})
                                   + (IF g = h THEN mem ELSE 0)
                            /\ Cardinality(On(g, {"active"}))'
                                   = Cardinality(On(g, {"active"}))
                                         + (IF g = h THEN n ELSE 0)
    PROVE  host' \in [Hosts -> HostRecord] /\ ShareIsExact'
  <1>0. host \in [Hosts -> HostRecord]
    BY DEF SchedInv, TypeInv
  <1>1. ASSUME NEW g \in Hosts
        PROVE  Cardinality(On(g, {"active"})) \in Nat /\ MemOf(g, {"active"}) \in Nat
    BY MemOfType, UnitsFinite, FS_CardinalityType
  <1>2. CASE ~Exists(h)
    <2>1. host' = host
      BY <1>2 DEF Charge
    <2> QED BY <1>0, <1>1, <1>2, <2>1 DEF SchedInv, ShareIsExact, Exists
  <1>3. CASE Exists(h)
    <2>1. host' = [host EXCEPT ![h] =
                    [state |-> host[h].state, mem |-> host[h].mem + mem,
                     vms |-> host[h].vms + n, free |-> host[h].free]]
      BY <1>3 DEF Charge
    <2>2. /\ host'[h] \in HostRecord /\ host'[h].mem = host[h].mem + mem
          /\ host'[h].vms = host[h].vms + n
      BY <1>0, <2>1 DEF HostRecord
    <2>3. \A g \in Hosts : g # h => host'[g] = host[g]
      BY <1>0, <2>1
    <2>4. host' \in [Hosts -> HostRecord]
      BY <1>0, <2>1, <2>2
    <2> QED BY <1>0, <1>1, <1>3, <2>2, <2>3, <2>4 DEF SchedInv, ShareIsExact, Exists
  <1> QED BY <1>2, <1>3

\* The DEPLOY of a VM is handled: it counts in the share.
LEMMA DeployActionStep ==
    ASSUME SchedInv, NEW v \in VMs, deploy_action(v)
    PROVE  SchedInv'
  <1>h. PICK h \in Hosts : h = vm[v].hid
    BY DEF SchedInv, Given, deploy_action, Queued, Ends
  <1>0. /\ vm \in [VMs -> VmRecord] /\ host \in [Hosts -> HostRecord]
        /\ vm[v].state = "queued" /\ vm[v].hid = h
        /\ vm' = [vm EXCEPT ![v].state = "active"]
        /\ UNCHANGED <<round, crossed>> /\ Mem[v] \in Nat
    BY <1>h, SchedulerAssumption DEF SchedInv, TypeInv, deploy_action, Queued
  <1>1. vm' \in [VMs -> VmRecord] /\ Given'
    BY <1>0 DEF VmRecord, SchedInv, Given
  <1>2. \A g \in Hosts : On(g, {"queued", "active"})' = On(g, {"queued", "active"})
    BY <1>0 DEF On
  <1>3. \A g \in Hosts : MemOf(g, {"queued", "active"})' = MemOf(g, {"queued", "active"})
    BY <1>2 DEF MemOf, MemSum
  <1>4. /\ On(h, {"active"})' = On(h, {"active"}) \cup {v}
        /\ v \notin On(h, {"active"}) /\ On(h, {"active"}) \in SUBSET VMs
        /\ \A g \in Hosts : g # h => On(g, {"active"})' = On(g, {"active"})
    BY <1>0 DEF On
  <1>5. \A g \in Hosts : /\ MemOf(g, {"active"})' = MemOf(g, {"active"})
                                + (IF g = h THEN Mem[v] ELSE 0)
                         /\ Cardinality(On(g, {"active"}))'
                                = Cardinality(On(g, {"active"}))
                                      + (IF g = h THEN 1 ELSE 0)
    <2> SUFFICES ASSUME NEW g \in Hosts
                 PROVE  /\ MemSum(On(g, {"active"})') = MemSum(On(g, {"active"}))
                               + (IF g = h THEN Mem[v] ELSE 0)
                        /\ Cardinality(On(g, {"active"})')
                                = Cardinality(On(g, {"active"}))
                                      + (IF g = h THEN 1 ELSE 0)
      BY DEF MemOf, MemSum
    <2>1. On(g, {"active"}) \in SUBSET VMs
      BY DEF On
    <2>2. MemSum(On(g, {"active"})) \in Nat /\ Cardinality(On(g, {"active"})) \in Nat
      BY <2>1, UnitsFinite, FS_CardinalityType
    <2>3. CASE g # h
      BY <1>4, <2>2, <2>3
    <2>4. CASE g = h
      BY <1>4, <2>4, MemAdd, CountAdd
    <2> QED BY <2>3, <2>4
  <1>6. host' \in [Hosts -> HostRecord] /\ ShareIsExact'
    <2>1. Charge(h, Mem[v], 1)
      BY <1>0 DEF deploy_action
    <2> QED BY <1>0, <1>5, <2>1, ChargeExact
  <1>7. TypeInv'
    BY <1>0, <1>1, <1>6 DEF SchedInv, TypeInv
  <1>8. MatchIsCopied' /\ CopyIsEnough' /\ NotOvercommitted'
    BY <1>0, <1>3 DEF SchedInv, MatchIsCopied, CopyIsEnough, NotOvercommitted
  <1> QED BY <1>1, <1>6, <1>7, <1>8 DEF SchedInv

\* A VM is over, or pending again: it no longer counts.
LEMMA EndsStep ==
    ASSUME SchedInv, NEW v \in VMs, NEW to \in {"none", "done", "pending"}, Ends(v, to)
    PROVE  SchedInv'
  <1>h. PICK h \in Hosts : h = vm[v].hid
    BY DEF SchedInv, Given, deploy_action, Queued, Ends
  <1>0. /\ vm \in [VMs -> VmRecord] /\ host \in [Hosts -> HostRecord]
        /\ vm[v].state = "active" /\ vm[v].hid = h
        /\ vm' = [vm EXCEPT ![v] = [state |-> to, hid |-> NoHost]]
        /\ UNCHANGED <<round, crossed>> /\ Mem[v] \in Nat
    BY <1>h, SchedulerAssumption DEF SchedInv, TypeInv, Ends
  <1>1. vm' \in [VMs -> VmRecord] /\ Given'
    BY <1>0 DEF VmRecord, SchedInv, Given
  <1>2. \A g \in Hosts : On(g, {"queued", "active"})' \in SUBSET On(g, {"queued", "active"})
    BY <1>0 DEF On
  <1>3. \A g \in Hosts : /\ MemOf(g, {"queued", "active"})'
                                <= MemOf(g, {"queued", "active"})
                         /\ MemOf(g, {"queued", "active"})' \in Nat
                         /\ MemOf(g, {"queued", "active"}) \in Nat
    <2> SUFFICES ASSUME NEW g \in Hosts
                 PROVE  /\ MemSum(On(g, {"queued", "active"})')
                                <= MemSum(On(g, {"queued", "active"}))
                        /\ MemSum(On(g, {"queued", "active"})') \in Nat
                        /\ MemSum(On(g, {"queued", "active"})) \in Nat
      BY DEF MemOf, MemSum
    <2> QED BY <1>2, MemOfType, MemLess, UnitsFinite
  <1>4. /\ On(h, {"active"}) = On(h, {"active"})' \cup {v}
        /\ v \notin On(h, {"active"})' /\ On(h, {"active"})' \in SUBSET VMs
        /\ \A g \in Hosts : g # h => On(g, {"active"})' = On(g, {"active"})
    <2>1. \A w \in VMs : w # v => vm'[w] = vm[w]
      BY <1>0
    <2>2. vm'[v].state = to /\ to # "active"
      BY <1>0
    <2>3. \A g : On(g, {"active"})' = On(g, {"active"}) \ {v}
      BY <1>0, <2>1, <2>2 DEF On
    <2>4. v \in On(h, {"active"}) /\ \A g \in Hosts : g # h => v \notin On(g, {"active"})
      BY <1>0 DEF On
    <2> QED BY <2>3, <2>4, MemOfType
  <1>5. \A g \in Hosts : /\ MemOf(g, {"active"})' = MemOf(g, {"active"})
                                + (IF g = h THEN -Mem[v] ELSE 0)
                         /\ Cardinality(On(g, {"active"}))'
                                = Cardinality(On(g, {"active"}))
                                      + (IF g = h THEN -1 ELSE 0)
    <2> SUFFICES ASSUME NEW g \in Hosts
                 PROVE  /\ MemSum(On(g, {"active"})') = MemSum(On(g, {"active"}))
                               + (IF g = h THEN -Mem[v] ELSE 0)
                        /\ Cardinality(On(g, {"active"})')
                                = Cardinality(On(g, {"active"}))
                                      + (IF g = h THEN -1 ELSE 0)
      BY DEF MemOf, MemSum
    <2>1. On(g, {"active"})' \in SUBSET VMs
      BY DEF On
    <2>2. MemSum(On(g, {"active"})') \in Nat /\ Cardinality(On(g, {"active"})') \in Nat
      BY <2>1, UnitsFinite, FS_CardinalityType
    <2>3. CASE g # h
      BY <1>4, <2>2, <2>3
    <2>4. CASE g = h
      <3>1. /\ MemSum(On(g, {"active"})) = MemSum(On(g, {"active"})') + Mem[v]
            /\ Cardinality(On(g, {"active"})) = Cardinality(On(g, {"active"})') + 1
        BY <1>4, <2>4, MemAdd, CountAdd
      <3> QED BY <1>0, <2>2, <2>4, <3>1
    <2> QED BY <2>3, <2>4
  <1>6. host' \in [Hosts -> HostRecord] /\ ShareIsExact'
    <2>1. Charge(h, -Mem[v], -1)
      BY <1>0 DEF Ends
    <2>2. -Mem[v] \in Int /\ -1 \in Int
      BY <1>0
    <2> QED BY <1>0, <1>5, <2>1, <2>2, ChargeExact
  <1>7. TypeInv'
    BY <1>0, <1>1, <1>6 DEF SchedInv, TypeInv
  <1>8. MatchIsCopied' /\ CopyIsEnough' /\ NotOvercommitted'
    <2>1. MatchIsCopied'
      BY <1>0 DEF SchedInv, MatchIsCopied
    <2>2. CopyIsEnough'
      BY <1>0, <1>3 DEF SchedInv, CopyIsEnough, TypeInv, RoundRecord, Copy
    <2>3. NotOvercommitted'
      BY <1>0, <1>3, SchedulerAssumption DEF SchedInv, NotOvercommitted
    <2> QED BY <2>1, <2>2, <2>3
  <1> QED BY <1>1, <1>6, <1>7, <1>8 DEF SchedInv

\* The copy of a share is charged.
LEMMA GetHostFields ==
    ASSUME TypeInv, NEW v \in VMs, NEW h \in Hosts
    PROVE  LET r == get_host(v, h)
           IN  /\ r \in RoundRecord /\ r.at = round.at /\ r.match = round.match
               /\ \A g \in Hosts :
                    /\ r.hosts[g].free = round.hosts[g].free
                    /\ r.hosts[g].mem = round.hosts[g].mem
                                            + (IF g = h THEN Mem[v] ELSE 0)
  <1>1. Mem[v] \in Nat /\ round \in RoundRecord
    BY SchedulerAssumption DEF TypeInv
  <1> QED BY <1>1 DEF get_host, RoundRecord, Copy

\* The scheduler reads the hosts and the VMs.
LEMMA ReadHostsStep ==
    ASSUME SchedInv, ReadHosts
    PROVE  SchedInv'
  <1>0. UNCHANGED <<host, vm>> /\ round \in RoundRecord /\ host \in [Hosts -> HostRecord]
    BY DEF ReadHosts, SchedInv, TypeInv
  <1>1. /\ round' \in RoundRecord /\ round'.at = "vms"
        /\ \A h \in Hosts : IF Enabled(h) THEN round'.hosts[h].mem = host[h].mem
                            ELSE round'.hosts[h].free = -1
    <2> DEFINE copies == [h \in Hosts |->
                            IF Enabled(h)
                            THEN [mem |-> host[h].mem, free |-> host[h].free]
                            ELSE NoCopy]
    <2>1. copies \in [Hosts -> Copy]
      BY <1>0 DEF HostRecord, NoCopy, Copy
    <2>2. round' = [round EXCEPT !.at = "vms", !.hosts = copies]
      BY DEF ReadHosts
    <2>3. \A h \in Hosts : IF Enabled(h) THEN copies[h].mem = host[h].mem
                          ELSE copies[h].free = -1
      BY DEF NoCopy
    <2> HIDE DEF copies
    <2>4. round' \in RoundRecord /\ round'.at = "vms" /\ round'.hosts = copies
      BY <1>0, <2>1, <2>2 DEF RoundRecord
    <2> QED BY <2>3, <2>4
  <1>2. /\ vm' \in [VMs -> VmRecord] /\ Given' /\ ShareIsExact'
        /\ \A h \in Hosts : MemOf(h, {"queued", "active"})'
                                = MemOf(h, {"queued", "active"})
    BY <1>0, NobodyGiven DEF SchedInv, TypeInv
  <1>3. CopyIsEnough'
    <2> SUFFICES ASSUME ~crossed', NEW h \in Hosts, round'.hosts[h].free >= 0
                 PROVE  MemOf(h, {"queued", "active"}) <= round'.hosts[h].mem
      BY <1>2 DEF CopyIsEnough
    <2>1. Enabled(h)
      BY <1>1
    <2>2. host[h].mem = MemOf(h, {"active"}) /\ round'.hosts[h].mem = host[h].mem
      BY <1>1, <2>1 DEF SchedInv, ShareIsExact, Enabled, Exists
    <2>3. Queued = {}
      BY DEF ReadHosts
    <2>4. On(h, {"queued", "active"}) = On(h, {"active"})
      BY <2>3 DEF On, Queued
    <2>5. MemOf(h, {"queued", "active"}) = MemOf(h, {"active"})
      BY <2>4 DEF MemOf
    <2> QED BY <2>2, <2>5, MemOfType
  <1>4. NotOvercommitted'
    <2>1. crossed => crossed'
      BY DEF ReadHosts
    <2> QED BY <1>2, <2>1 DEF SchedInv, NotOvercommitted
  <1> QED BY <1>0, <1>1, <1>2, <1>3, <1>4 DEF SchedInv, TypeInv, MatchIsCopied

\* Steps after which the scheduler still has its copies, or has none.
LEMMA RoundSteps ==
    ASSUME SchedInv, ReadVMs \/ SetUpFails \/ EndRound \/ \E v \in VMs : Skip(v)
    PROVE  SchedInv'
  <1>0. UNCHANGED <<host, vm, crossed>> /\ round \in RoundRecord
    BY DEF ReadVMs, SetUpFails, EndRound, Skip, SchedInv, TypeInv
  <1>1. /\ vm' \in [VMs -> VmRecord] /\ Given' /\ ShareIsExact'
        /\ \A h \in Hosts : MemOf(h, {"queued", "active"})'
                                = MemOf(h, {"queued", "active"})
    BY <1>0, NobodyGiven DEF SchedInv, TypeInv
  <1>2. NotOvercommitted'
    BY <1>0, <1>1 DEF SchedInv, NotOvercommitted
  <1>3. ASSUME round' \in RoundRecord, MatchIsCopied',
               round'.at # "wait" => round.at # "wait" /\ round'.hosts = round.hosts
        PROVE  SchedInv'
    BY <1>0, <1>1, <1>2, <1>3 DEF SchedInv, TypeInv, CopyIsEnough
  <1>4. CASE SetUpFails \/ EndRound
    <2>1. round' = Waiting
      BY <1>4 DEF SetUpFails, EndRound, NextRound
    <2>2. Waiting \in RoundRecord /\ Waiting.at = "wait"
      BY DEF Waiting, RoundRecord, NoCopy, Copy
    <2> QED BY <1>3, <2>1, <2>2 DEF MatchIsCopied
  <1>5. ASSUME NEW v \in VMs, Skip(v)
        PROVE  SchedInv'
    <2>1. round' = [round EXCEPT !.vms = round.vms \ {v}]
      BY <1>5 DEF Skip
    <2>2. /\ round' \in RoundRecord /\ round'.at = round.at
          /\ round'.hosts = round.hosts /\ round'.match = round.match
      BY <1>0, <2>1 DEF RoundRecord
    <2>3. MatchIsCopied'
      BY <2>2 DEF SchedInv, MatchIsCopied
    <2>4. round.at = "dispatch"
      BY <1>5 DEF Skip, NextVM
    <2> QED BY <1>3, <2>2, <2>3, <2>4
  <1>6. CASE ReadVMs
    <2> DEFINE match == [v \in VMs |-> IF v \in Window THEN Matches(v) ELSE {}]
    <2>1. round.at = "vms" /\ round' = [at |-> "dispatch", hosts |-> round.hosts,
                                        vms |-> Window, match |-> match,
                                        host_vms |-> round.host_vms,
                                        dispatched |-> round.dispatched]
      BY <1>6 DEF ReadVMs
    <2>2. match \in [VMs -> SUBSET Hosts] /\ Window \in SUBSET VMs
      BY SchedulerAssumption DEF Matches, Window, Pending
    <2>3. \A v \in VMs : \A h \in match[v] : round.hosts[h].free >= 0
      BY <1>0, SchedulerAssumption DEF Matches, RoundRecord, Copy
    <2> HIDE DEF match
    <2>4. /\ round' \in RoundRecord /\ round'.at = "dispatch"
          /\ round'.hosts = round.hosts /\ round'.match = match
      BY <1>0, <2>1, <2>2 DEF RoundRecord
    <2>5. MatchIsCopied'
      BY <2>3, <2>4 DEF MatchIsCopied
    <2> QED BY <1>3, <2>1, <2>4, <2>5
  <1> QED BY <1>4, <1>5, <1>6

\* A VM gets a host that has room in the copy, or the daemon refuses.
LEMMA GetHostStep ==
    ASSUME SchedInv, NEW v \in VMs, NEW h \in Hosts,
           NextVM(v), h \in HasRoom(v), deploy(v, h) \/ UNCHANGED vm,
           UNCHANGED <<host, crossed>>,
           round' \in RoundRecord, round'.at = round.at, round'.match = round.match,
           round'.hosts = get_host(v, h).hosts
    PROVE  SchedInv'
  <1>0. /\ round \in RoundRecord /\ vm \in [VMs -> VmRecord]
        /\ round.at = "dispatch" /\ Mem[v] \in Nat /\ MaxMem[h] \in Nat
        /\ MaxMem[h] - round.hosts[h].mem >= Mem[v]
        /\ round.hosts[h].free >= 0
    BY SchedulerAssumption
    DEF SchedInv, TypeInv, NextVM, HasRoom, test_capacity, MatchIsCopied
  <1>1. \A g \in Hosts : /\ round.hosts[g].mem \in Int
                         /\ round'.hosts[g].free = round.hosts[g].free
                         /\ round'.hosts[g].mem = round.hosts[g].mem
                                + (IF g = h THEN Mem[v] ELSE 0)
    <2>1. \A g \in Hosts : round.hosts[g].mem \in Int
      BY <1>0 DEF RoundRecord, Copy
    <2> QED BY <2>1, GetHostFields DEF SchedInv
  <1>2. /\ vm' \in [VMs -> VmRecord] /\ Given' /\ ShareIsExact'
        /\ \A g \in Hosts :
            \/ MemOf(g, {"queued", "active"})' = MemOf(g, {"queued", "active"})
            \/ g = h /\ MemOf(g, {"queued", "active"})'
                            = MemOf(g, {"queued", "active"}) + Mem[v]
    <2>1. CASE CanDeploy(v, h) /\ deploy(v, h)
      <3>1. /\ vm[v].state = "pending"
            /\ vm' = [vm EXCEPT ![v] = [state |-> "queued", hid |-> h]]
        BY <2>1 DEF deploy, CanDeploy
      <3> QED BY <3>1, GivenHost
    <2>2. CASE vm' = vm
      BY <1>0, <2>2, NobodyGiven
    <2> QED BY <2>1, <2>2 DEF deploy
  <1>3. TypeInv'
    BY <1>2 DEF SchedInv, TypeInv
  <1>4. MatchIsCopied'
    BY <1>0, <1>1 DEF SchedInv, MatchIsCopied, RoundRecord
  <1>5. ASSUME ~crossed
        PROVE  \A g \in Hosts : round.hosts[g].free >= 0 =>
                    /\ MemOf(g, {"queued", "active"}) <= round.hosts[g].mem
                    /\ MemOf(g, {"queued", "active"})' <= round'.hosts[g].mem
    <2>1. \A g \in Hosts : round.hosts[g].free >= 0 =>
                    MemOf(g, {"queued", "active"}) <= round.hosts[g].mem
      BY <1>0, <1>5 DEF SchedInv, CopyIsEnough
    <2> SUFFICES ASSUME NEW g \in Hosts, round.hosts[g].free >= 0
                 PROVE  MemOf(g, {"queued", "active"})' <= round'.hosts[g].mem
      BY <2>1
    <2>2. MemOf(g, {"queued", "active"}) \in Nat
      BY MemOfType
    <2> QED BY <1>0, <1>1, <1>2, <2>1, <2>2
  <1>6. CopyIsEnough'
    BY <1>1, <1>5 DEF CopyIsEnough
  <1>7. NotOvercommitted'
    <2> SUFFICES ASSUME ~crossed, NEW g \in Hosts
                 PROVE  MemOf(g, {"queued", "active"})' <= MaxMem[g]
      BY DEF NotOvercommitted
    <2>1. MemOf(g, {"queued", "active"}) <= MaxMem[g]
      BY DEF SchedInv, NotOvercommitted
    <2>2. CASE g = h
      <3>1. MemOf(g, {"queued", "active"}) <= round.hosts[g].mem
        BY <1>0, <1>5, <2>2
      <3> QED BY <1>0, <1>1, <1>2, <2>1, <2>2, <3>1, MemOfType
    <2>3. CASE g # h
      BY <1>2, <2>1, <2>3
    <2> QED BY <2>2, <2>3
  <1> QED BY <1>2, <1>3, <1>4, <1>6, <1>7 DEF SchedInv

LEMMA DispatchSteps ==
    ASSUME SchedInv, NEW v \in VMs, NEW h \in Hosts,
           Dispatch(v, h) \/ DispatchFails(v, h)
    PROVE  SchedInv'
  <1>0. /\ get_host(v, h) \in RoundRecord /\ get_host(v, h).at = round.at
        /\ get_host(v, h).match = round.match
    BY GetHostFields DEF SchedInv
  <1>1. CASE DispatchFails(v, h)
    BY <1>0, <1>1, GetHostStep DEF DispatchFails
  <1>2. CASE Dispatch(v, h)
    <2> DEFINE r == get_host(v, h)
               n == IF CanDeploy(v, h) THEN r.dispatched + 1 ELSE r.dispatched
    <2>1. round' = [r EXCEPT !.dispatched = n]
      BY <1>2 DEF Dispatch
    <2>2. n \in Int /\ r \in RoundRecord
      BY <1>0 DEF RoundRecord
    <2> HIDE DEF r, n
    <2>3. /\ round' \in RoundRecord /\ round'.at = r.at /\ round'.match = r.match
          /\ round'.hosts = r.hosts
      BY <2>1, <2>2 DEF RoundRecord
    <2> QED BY <1>0, <1>2, <2>3, GetHostStep DEF Dispatch, r
  <1> QED BY <1>1, <1>2

\* Users submit, hold and delete VMs, and deploy them.
LEMMA UserSteps ==
    ASSUME SchedInv, NEW v \in VMs,
           Submit(v) \/ Leaves(v) \/ \E h \in Hosts : UserDeploy(v, h)
    PROVE  SchedInv'
  <1>0. /\ UNCHANGED <<host, round>> /\ vm \in [VMs -> VmRecord]
    BY DEF Submit, Leaves, UserDeploy, SchedInv, TypeInv
  <1>1. CASE Submit(v) \/ Leaves(v)
    <2>1. /\ UNCHANGED crossed /\ vm[v].state \in {"none", "pending"}
          /\ \E to \in {"none", "pending", "done"} : vm' = [vm EXCEPT ![v].state = to]
      <3>1. CASE Submit(v)
        BY <3>1 DEF Submit, NoVM
      <3>2. CASE Leaves(v)
        <4>1. Over \in {"none", "done"}
          BY DEF Over
        <4> QED BY <3>2, <4>1 DEF Leaves, Pending
      <3> QED BY <1>1, <3>1, <3>2
    <2>2. vm' \in [VMs -> VmRecord]
      BY <1>0, <2>1 DEF VmRecord
    <2>3. /\ Given' /\ ShareIsExact'
          /\ \A h \in Hosts : MemOf(h, {"queued", "active"})'
                                = MemOf(h, {"queued", "active"})
      BY <1>0, <2>1, <2>2, NobodyGiven
    <2> QED BY <1>0, <2>1, <2>2, <2>3
            DEF SchedInv, TypeInv, MatchIsCopied, CopyIsEnough, NotOvercommitted
  <1>2. ASSUME NEW h \in Hosts, UserDeploy(v, h)
        PROVE  SchedInv'
    <2>1. /\ vm[v].state = "pending" /\ crossed'
          /\ vm' = [vm EXCEPT ![v] = [state |-> "queued", hid |-> h]]
      BY <1>2 DEF UserDeploy, deploy, CanDeploy
    <2>2. vm' \in [VMs -> VmRecord] /\ Given' /\ ShareIsExact'
      BY <1>0, <2>1, GivenHost
    <2> QED BY <1>0, <2>1, <2>2
            DEF SchedInv, TypeInv, MatchIsCopied, CopyIsEnough, NotOvercommitted
  <1> QED BY <1>1, <1>2

\* Hosts are monitored, switched and dropped.
LEMMA HostSteps ==
    ASSUME SchedInv, NEW h \in Hosts, Monitor(h) \/ Switch(h) \/ Drop(h)
    PROVE  SchedInv'
  <1>0. /\ UNCHANGED <<vm, round, crossed>> /\ host \in [Hosts -> HostRecord]
        /\ Exists(h)
    BY DEF Monitor, Switch, Drop, SchedInv, TypeInv
  <1>1. /\ host' \in [Hosts -> HostRecord]
        /\ \A g \in Hosts : /\ Exists(g)' => Exists(g)
                            /\ host'[g].mem = host[g].mem /\ host'[g].vms = host[g].vms
    <2>1. MaxMem[h] - MemOf(h, {"active"}) \in Int
      BY MemOfType, SchedulerAssumption
    <2>2. CASE Monitor(h)
      BY <1>0, <2>1, <2>2 DEF Monitor, HostRecord, Exists
    <2>3. CASE Switch(h) \/ Drop(h)
      <3>1. PICK to \in {"enabled", "disabled", "gone"} :
                host' = [host EXCEPT ![h].state = to]
        BY <2>3 DEF Switch, Drop
      <3> QED BY <1>0, <3>1 DEF HostRecord, Exists
    <2> QED BY <2>2, <2>3
  <1>2. \A g \in Hosts : /\ On(g, {"active"})' = On(g, {"active"})
                         /\ MemOf(g, {"active"})' = MemOf(g, {"active"})
                         /\ MemOf(g, {"queued", "active"})' = MemOf(g, {"queued", "active"})
    BY <1>0 DEF On, MemOf, MemSum
  <1>3. ShareIsExact'
    BY <1>1, <1>2 DEF SchedInv, ShareIsExact
  <1>4. CopyIsEnough' /\ NotOvercommitted'
    BY <1>0, <1>2 DEF SchedInv, CopyIsEnough, NotOvercommitted
  <1> QED BY <1>0, <1>1, <1>3, <1>4 DEF SchedInv, TypeInv, MatchIsCopied, Given

LEMMA SchedStep ==
    ASSUME SchedInv, [Next]_vars
    PROVE  SchedInv'
  <1>1. CASE UNCHANGED vars
    <2>1. UNCHANGED <<host, vm, round, crossed>>
      BY <1>1 DEF vars
    <2>2. \A g, s : On(g, s)' = On(g, s) /\ MemOf(g, s)' = MemOf(g, s)
      BY <2>1 DEF On, MemOf, MemSum
    <2> QED BY <2>1, <2>2 DEF SchedInv, TypeInv, Given, ShareIsExact, MatchIsCopied,
               CopyIsEnough, NotOvercommitted, Exists
  <1>2. ASSUME NEW v \in VMs, Finishes(v) \/ Resubmit(v)
        PROVE  SchedInv'
    BY <1>2, EndsStep DEF Finishes, Resubmit, Over
  <1>3. ASSUME NEW v \in VMs, deploy_action(v) \/ Submit(v) \/ Leaves(v)
        PROVE  SchedInv'
    BY <1>3, DeployActionStep, UserSteps
  <1>4. ASSUME NEW v \in VMs, NEW h \in Hosts,
               Dispatch(v, h) \/ DispatchFails(v, h) \/ UserDeploy(v, h)
        PROVE  SchedInv'
    BY <1>4, DispatchSteps, UserSteps
  <1>5. ASSUME NEW h \in Hosts, Monitor(h) \/ Switch(h) \/ Drop(h)
        PROVE  SchedInv'
    BY <1>5, HostSteps
  <1> QED BY <1>1, <1>2, <1>3, <1>4, <1>5, ReadHostsStep, RoundSteps DEF Next

\* No host is given more than it has, those VMs counted whose DEPLOY waits, as
\* long as no round read the shares while a DEPLOY was waiting and no user
\* deployed: the copies of the scheduler are charged before its calls, so that
\* one that fails half way, or a host or VM that changes, errs on the safe side.
THEOREM HostsNotOvercommitted == Spec => []NotOvercommitted
  <1>1. SchedInv /\ [Next]_vars => SchedInv'
    BY SchedStep
  <1>2. SchedInv => NotOvercommitted
    BY DEF SchedInv
  <1> QED BY InitSched, <1>1, <1>2, PTL DEF Spec

\* The share of each host is exactly what its VMs have from deploy_action to
\* their end, so that one that HostPool::drop deletes has none of them.
THEOREM SharesAreExact == Spec => []ShareIsExact
  <1>1. SchedInv /\ [Next]_vars => SchedInv'
    BY SchedStep
  <1>2. SchedInv => ShareIsExact
    BY DEF SchedInv
  <1> QED BY InitSched, <1>1, <1>2, PTL DEF Spec
=============================================================================
