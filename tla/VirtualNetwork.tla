--------------------------- MODULE VirtualNetwork ---------------------------
(***************************************************************************)
(* One virtual network: its table of IP leases, in memory and in the       *)
(* database, and the Virtual Machines that take leases when they are       *)
(* inserted in the VM pool and give them back when they are rolled back or *)
(* reach DONE.                                                             *)
(*                                                                         *)
(* Every operation on the network runs under the mutex of the              *)
(* VirtualNetwork object, so it is one step; a VM with several NICs takes  *)
(* and drops the mutex once per NIC, so its NICs are served in separate    *)
(* steps.  IPs are numbers; a RANGED network owns 0 .. RangeEnd and keeps  *)
(* a record only for the leases in use, a FIXED one keeps a record for     *)
(* each of its IPs with a flag "used".                                     *)
(***************************************************************************)
EXTENDS Integers, Sequences, FiniteSets

CONSTANTS
    VMs,        \* Identifiers of Virtual Machines
    NoVM,       \* The vid -1: a lease nobody took, or a lease on hold
    MaxIp,      \* IPs are 0 .. MaxIp
    RangeEnd,   \* ip_end of a RANGED network, whose ip_start is 0
    NicLists,   \* The NIC lists a VM template may have
    Networks,   \* The networks considered, and what happens to each
    MaxUsed     \* Bound of n_used when a stale lease is given again and again

IPs == 0 .. MaxIp
NoIP == MaxIp + 1     \* a NIC that names no IP
End  == MaxIp + 1     \* leases.end()
None == [state |-> "none", vid |-> NoVM]   \* not in the map

\* A NIC: the IP asked for or leased, and how it names the network, by NETWORK
\* or by NETWORK_ID (a lease sets the latter).
Nic == [ip : IPs \cup {NoIP}, by : {"name", "id"}]

\* A network: its type, the LEASES of its template, those that may be added to
\* it, the database errors that may happen, the requests on the network itself,
\* and whether the daemon may be killed and started again.
Network == [type : {"RANGED", "FIXED"}, leases : SUBSET IPs,
            added : SUBSET IPs, errors : SUBSET {"escape", "exec"},
            admin : SUBSET {"hold", "remove"}, restarts : BOOLEAN]

ASSUME VnetAssumption ==
    /\ NoVM \notin VMs
    /\ MaxIp \in Nat
    /\ RangeEnd \in IPs
    /\ NicLists \subseteq Seq(Nic)
    /\ \A n \in DOMAIN Networks : Networks[n] \in Network
    /\ MaxUsed \in Nat

VARIABLES
    net,        \* The name of the network, which never changes
    leases,     \* The lease map of the object in the pool's cache
    db,         \* The rows of the table "leases" of this network
    n_used,     \* The counter of used leases
    current,    \* Where the next search starts
    dangling,   \* FIXED: the iterator current points to an erased lease
    phase,      \* What each VM is doing
    nics,       \* The NIC attributes of each VM's template
    done        \* How many NICs the current loop over the NICs has treated

netVars == <<leases, db, n_used, current, dangling>>
vmVars  == <<phase, nics, done>>
vars    == <<net, leases, db, n_used, current, dangling, phase, nics, done>>

Type       == Networks[net].type
FixedIPs   == Networks[net].leases
DbErrors   == Networks[net].errors
Admin      == Networks[net].admin
MayRestart == Networks[net].restarts

Lease == [state : {"none", "unused", "used"}, vid : VMs \cup {NoVM}]
Used(v)  == [state |-> "used", vid |-> v]
Unused   == [state |-> "unused", vid |-> NoVM]

\* The keys of the lease map, and its size.
In(ip) == leases[ip].state # "none"
Keys == {ip \in IPs : In(ip)}
size == IF Type = "RANGED" THEN RangeEnd + 1 ELSE Cardinality(Keys)

Init ==
    /\ net \in DOMAIN Networks
    /\ leases = [ip \in IPs |-> IF Type = "FIXED" /\ ip \in FixedIPs
                                THEN Unused ELSE None]
    /\ db = leases
    /\ n_used = 0
    /\ current = IF Type = "RANGED" THEN 0 ELSE End
    /\ dangling = FALSE
    /\ phase = [v \in VMs |-> "none"]
    /\ nics = [v \in VMs |-> <<>>]
    /\ done = [v \in VMs |-> 0]

-----------------------------------------------------------------------------
(* Leases::check and the operations of RangedLeases.                        *)

check(ip) == leases[ip].state = "used"

RangedAdd(v, ip) ==
    /\ leases' = [leases EXCEPT ![ip] = Used(v)]
    /\ db' = [db EXCEPT ![ip] = Used(v)]
    /\ n_used' = n_used + 1

\* Mutant of get: the cursor is not wrapped.
RangedGet_NoWrap(v, ip) ==
    \E k \in 0 .. size - 1 :
        /\ ip = (current + k) % size
        /\ ~check(ip)
        /\ RangedAdd(v, ip)
        /\ current' = current + k
        /\ UNCHANGED dangling

\* get: the first IP from current on that is not in use and whose INSERT
\* works; the cursor stays on it.
RangedGet(v, ip) ==
    \E k \in 0 .. size - 1 :
        /\ ip = (current + k) % size
        /\ ~check(ip)
        /\ \A j \in 0 .. k - 1 :
               check((current + j) % size) \/ DbErrors # {}
        /\ RangedAdd(v, ip)
        /\ current' = ip
        /\ UNCHANGED dangling

RangedGetFails ==
    /\ \A ip \in 0 .. RangeEnd : check(ip) \/ DbErrors # {}
    /\ UNCHANGED netVars

RangedSet(v, ip) ==
    /\ ip \in 0 .. RangeEnd
    /\ ~check(ip)
    /\ RangedAdd(v, ip)
    /\ UNCHANGED <<current, dangling>>

RangedSetFails(ip) ==
    /\ ip \notin 0 .. RangeEnd \/ check(ip) \/ DbErrors # {}
    /\ UNCHANGED netVars

\* del: whoever asks, whoever has the lease.
RangedRelease(ip) ==
    \/ /\ In(ip)
       /\ leases' = [leases EXCEPT ![ip] = None]
       /\ db' = [db EXCEPT ![ip] = None]
       /\ n_used' = n_used - 1
       /\ UNCHANGED <<current, dangling>>
    \/ /\ ~In(ip) \/ "exec" \in DbErrors
       /\ UNCHANGED netVars

-----------------------------------------------------------------------------
(* The operations of FixedLeases.                                           *)

\* Mutant of update_lease: the counter moves only when the row is written.
update_lease_CountLate(ip, l, rc) ==
    /\ leases' = [leases EXCEPT ![ip] = l]
    /\ \/ /\ DbErrors # {}
          /\ rc = -1
          /\ UNCHANGED <<n_used, db>>
       \/ /\ n_used' = IF l.state = "used" THEN n_used + 1 ELSE n_used - 1
          /\ rc = 0
          /\ db' = [db EXCEPT ![ip] = l]

\* update_lease: the record in memory is already changed when the row is
\* written; rc is 0 or -1.
update_lease(ip, l, rc) ==
    /\ leases' = [leases EXCEPT ![ip] = l]
    /\ \/ /\ "escape" \in DbErrors
          /\ rc = -1
          /\ UNCHANGED <<n_used, db>>
       \/ /\ n_used' = IF l.state = "used" THEN n_used + 1 ELSE n_used - 1
          /\ \/ /\ rc = 0
                /\ db' = [db EXCEPT ![ip] = l]
             \/ /\ "exec" \in DbErrors
                /\ rc = -1
                /\ UNCHANGED db

\* The key after ip in the map, or end().
Succ(ip) == LET above == {k \in Keys : k > ip}
            IN  IF above = {} THEN End
                ELSE CHOOSE k \in above : \A m \in above : k <= m

\* Mutant of the search: the lease under the cursor is taken, used or not.
FirstUnused_Any(ip) ==
    LET ahead  == {k \in Keys : current <= k}
        pick   == IF ahead # {} THEN ahead ELSE Keys
    IN  ip \in pick /\ \A k \in pick : ip <= k

\* The unused lease the search from current finds first.
FirstUnused(ip) ==
    LET unused == {k \in Keys : ~check(k)}
        ahead  == {k \in unused : current <= k}
        pick   == IF ahead # {} THEN ahead ELSE unused
    IN  ip \in pick /\ \A k \in pick : ip <= k

FixedGet(v, ip, rc) ==
    /\ ~dangling
    /\ FirstUnused(ip)
    /\ update_lease(ip, Used(v), rc)
    /\ current' = Succ(ip)
    /\ UNCHANGED dangling

\* All leases are used, or there are none: the cursor makes a full turn, which
\* ends on end() when it started on the first key.
FixedGetFails ==
    /\ ~dangling \/ Keys = {}
    /\ \A k \in Keys : check(k)
    /\ current' = IF Keys # {} /\ \A k \in Keys : current <= k
                  THEN End ELSE current
    /\ UNCHANGED <<leases, db, n_used, dangling>>

\* get through an iterator to an erased node reads freed memory: it may find
\* the erased lease there and give it again, or go on from any other node.
FixedGetDangling(v, ip, rc) ==
    /\ dangling
    /\ Keys # {}
    /\ \/ /\ ip = current
          /\ rc = 0
          /\ n_used < MaxUsed
          /\ n_used' = n_used + 1
          /\ UNCHANGED <<leases, db, current, dangling>>
       \/ /\ ip \in Keys
          /\ ~check(ip)
          /\ update_lease(ip, Used(v), rc)
          /\ current' = Succ(ip)
          /\ dangling' = FALSE
       \/ /\ ip = NoIP
          /\ rc = -1
          /\ UNCHANGED netVars

\* Mutant of set: a used lease is given again.
FixedSet_NoCheck(v, ip, rc) ==
    /\ In(ip)
    /\ update_lease(ip, Used(v), rc)
    /\ UNCHANGED <<current, dangling>>

FixedSet(v, ip, rc) ==
    /\ In(ip) /\ ~check(ip)
    /\ update_lease(ip, Used(v), rc)
    /\ UNCHANGED <<current, dangling>>

FixedSetFails(ip) ==
    /\ ~In(ip) \/ check(ip)
    /\ UNCHANGED netVars

\* unset: flips the flag whoever asks, even of a lease that is not used.
FixedRelease(ip) ==
    \/ /\ In(ip)
       /\ \E rc \in {0, -1} : update_lease(ip, Unused, rc)
       /\ UNCHANGED <<current, dangling>>
    \/ /\ ~In(ip)
       /\ UNCHANGED netVars

-----------------------------------------------------------------------------
(* The Leases interface: get, set and release are virtual.  ip and rc are   *)
(* the values they return.                                                  *)

get(v, ip, rc) ==
    \/ Type = "RANGED" /\ ip \in IPs /\ rc = 0 /\ RangedGet(v, ip)
    \/ Type = "RANGED" /\ ip = NoIP /\ rc = -1 /\ RangedGetFails
    \/ Type = "FIXED"  /\ ip \in IPs /\ FixedGet(v, ip, rc)
    \/ Type = "FIXED"  /\ ip = NoIP /\ rc = -1 /\ FixedGetFails
    \/ Type = "FIXED"  /\ FixedGetDangling(v, ip, rc)

set(v, ip, rc) ==
    \/ Type = "RANGED" /\ rc = 0  /\ RangedSet(v, ip)
    \/ Type = "RANGED" /\ rc = -1 /\ RangedSetFails(ip)
    \/ Type = "FIXED"  /\ FixedSet(v, ip, rc)
    \/ Type = "FIXED"  /\ rc = -1 /\ FixedSetFails(ip)

release(ip) ==
    \/ Type = "RANGED" /\ RangedRelease(ip)
    \/ Type = "FIXED"  /\ FixedRelease(ip)

-----------------------------------------------------------------------------
(* The Virtual Machine's side.                                              *)

\* PoolSQL::allocate holds the VM pool's mutex during the whole insertion, so
\* only one VM is inserted at a time.
Inserting(v) == phase[v] \in {"leasing", "rollback"}

Insert(v, list) ==
    /\ phase[v] = "none"
    /\ \A w \in VMs : ~Inserting(w)
    /\ phase' = [phase EXCEPT ![v] = "leasing"]
    /\ nics' = [nics EXCEPT ![v] = list]
    /\ done' = [done EXCEPT ![v] = 0]
    /\ UNCHANGED netVars
    /\ UNCHANGED net

\* get_network_leases for the next NIC, through nic_attribute.
NicAttribute(v) ==
    /\ phase[v] = "leasing"
    /\ done[v] < Len(nics[v])
    /\ \E ip \in IPs \cup {NoIP}, rc \in {0, -1} :
           LET i   == done[v] + 1
               nic == nics[v][i]
           IN  /\ IF nic.ip = NoIP THEN get(v, ip, rc)
                                   ELSE ip = nic.ip /\ set(v, ip, rc)
               /\ IF rc = 0
                  THEN /\ nics' = [nics EXCEPT ![v][i] =
                                      [ip |-> ip, by |-> "id"]]
                       /\ done' = [done EXCEPT ![v] = i]
                       /\ UNCHANGED phase
                  ELSE /\ phase' = [phase EXCEPT ![v] = "rollback"]
                       /\ done' = [done EXCEPT ![v] = 0]
                       /\ UNCHANGED nics
    /\ UNCHANGED net

\* The disk images, the context and the insertion of the VM itself come after
\* the leases, and any of them may fail.
InsertEnd(v) ==
    /\ phase[v] = "leasing"
    /\ done[v] = Len(nics[v])
    /\ phase' = [phase EXCEPT ![v] = "live"]
    /\ UNCHANGED <<nics, done, netVars>>
    /\ UNCHANGED net

\* Mutant of insert: a late failure goes to error_common and skips the
\* rollback of the leases.
InsertFails_NoRollback(v) ==
    /\ phase[v] = "leasing"
    /\ done[v] = Len(nics[v])
    /\ phase' = [phase EXCEPT ![v] = "none"]
    /\ nics' = [nics EXCEPT ![v] = <<>>]
    /\ done' = [done EXCEPT ![v] = 0]
    /\ UNCHANGED netVars
    /\ UNCHANGED net

InsertFails(v) ==
    /\ phase[v] = "leasing"
    /\ done[v] = Len(nics[v])
    /\ phase' = [phase EXCEPT ![v] = "rollback"]
    /\ done' = [done EXCEPT ![v] = 0]
    /\ UNCHANGED <<nics, netVars>>
    /\ UNCHANGED net

\* The VM is DONE, and says so in the database, before its leases are released.
Finalize(v) ==
    /\ phase[v] = "live"
    /\ phase' = [phase EXCEPT ![v] = "releasing"]
    /\ done' = [done EXCEPT ![v] = 0]
    /\ UNCHANGED <<nics, netVars>>
    /\ UNCHANGED net

\* release_network_leases for the next NIC: NICs without NETWORK_ID or IP are
\* skipped.
ReleaseNic(v) ==
    /\ phase[v] \in {"rollback", "releasing"}
    /\ done[v] < Len(nics[v])
    /\ done' = [done EXCEPT ![v] = @ + 1]
    /\ LET nic == nics[v][done[v] + 1]
       IN  IF nic.by = "id" /\ nic.ip # NoIP THEN release(nic.ip)
                                        ELSE UNCHANGED netVars
    /\ UNCHANGED <<phase, nics>>
    /\ UNCHANGED net

\* The object of a VM that was not inserted is deleted and its identifier is
\* used again; a DONE VM stays.
ReleaseEnd(v) ==
    /\ phase[v] \in {"rollback", "releasing"}
    /\ done[v] = Len(nics[v])
    /\ phase' = [phase EXCEPT ![v] = IF @ = "rollback" THEN "none" ELSE "gone"]
    /\ nics' = [nics EXCEPT ![v] = <<>>]
    /\ done' = [done EXCEPT ![v] = 0]
    /\ UNCHANGED netVars
    /\ UNCHANGED net

-----------------------------------------------------------------------------
(* Requests on the network itself, and the life of the object.              *)

HoldLeases(ip) ==
    /\ "hold" \in Admin
    /\ ~check(ip)
    /\ \E rc \in {0, -1} : set(NoVM, ip, rc)
    /\ UNCHANGED vmVars
    /\ UNCHANGED net

FreeLeases(ip) ==
    /\ "hold" \in Admin
    /\ leases[ip] = Used(NoVM)
    /\ release(ip)
    /\ UNCHANGED vmVars
    /\ UNCHANGED net

AddLeases(ip) ==
    /\ ip \in Networks[net].added
    /\ Type = "FIXED"
    /\ ~In(ip)
    /\ leases' = [leases EXCEPT ![ip] = Unused]
    /\ db' = [db EXCEPT ![ip] = Unused]
    /\ UNCHANGED <<n_used, current, dangling, vmVars>>
    /\ UNCHANGED net

RemoveLeases(ip) ==
    /\ "remove" \in Admin
    /\ Type = "FIXED"
    /\ In(ip) /\ ~check(ip)
    /\ leases' = [leases EXCEPT ![ip] = None]
    /\ db' = [db EXCEPT ![ip] = None]
    /\ dangling' = (dangling \/ current = ip)
    /\ UNCHANGED <<n_used, current, vmVars>>
    /\ UNCHANGED net

\* The pool drops the object from its cache and reads it again: select counts
\* the used leases, and the cursor starts afresh.
Reload ==
    /\ leases' = db
    /\ n_used' = Cardinality({ip \in IPs : db[ip].state = "used"})
    /\ current' = IF Type = "RANGED" THEN 0 ELSE End
    /\ dangling' = FALSE
    /\ UNCHANGED <<db, vmVars>>
    /\ UNCHANGED net

\* The daemon dies and comes back: the objects are read again, a VM whose
\* insertion had not ended is not in the database, a DONE one is.
Restart ==
    /\ MayRestart
    /\ leases' = db
    /\ n_used' = Cardinality({ip \in IPs : db[ip].state = "used"})
    /\ current' = IF Type = "RANGED" THEN 0 ELSE End
    /\ dangling' = FALSE
    /\ phase' = [v \in VMs |-> CASE Inserting(v)            -> "none"
                                 [] phase[v] = "releasing"  -> "gone"
                                 [] OTHER                   -> phase[v]]
    /\ nics' = [v \in VMs |-> IF phase[v] = "live" THEN nics[v] ELSE <<>>]
    /\ done' = [v \in VMs |-> IF phase[v] = "live" THEN done[v] ELSE 0]
    /\ UNCHANGED db
    /\ UNCHANGED net

Next ==
    \/ \E v \in VMs : \/ \E list \in NicLists : Insert(v, list)
                      \/ NicAttribute(v)
                      \/ InsertEnd(v)
                      \/ InsertFails(v)
                      \/ Finalize(v)
                      \/ ReleaseNic(v)
                      \/ ReleaseEnd(v)
    \/ \E ip \in IPs : \/ HoldLeases(ip)
                       \/ FreeLeases(ip)
                       \/ AddLeases(ip)
                       \/ RemoveLeases(ip)
    \/ Reload
    \/ Restart

Spec == Init /\ [][Next]_vars

-----------------------------------------------------------------------------
(* Properties                                                               *)

\* The type of every variable; the cursor stays in the range of the network
\* (RangedLeases::get wraps it at size).
TypeOK ==
    /\ net \in DOMAIN Networks
    /\ leases \in [IPs -> Lease]
    /\ db \in [IPs -> Lease]
    /\ n_used \in Int
    /\ current \in IPs \cup {End}
    /\ dangling \in BOOLEAN
    /\ phase \in [VMs -> {"none", "leasing", "live", "rollback",
                          "releasing", "gone"}]
    /\ nics \in [VMs -> Seq(Nic)]
    /\ done \in [VMs -> Nat]

\* v was given ip by nic_attribute and has not begun to give it back.
Holds(v, ip) ==
    \E i \in 1 .. Len(nics[v]) :
        /\ nics[v][i].ip = ip
        /\ \/ phase[v] = "leasing" /\ i <= done[v]
           \/ phase[v] = "live"
           \/ phase[v] = "releasing" /\ done[v] < i

\* Nobody removes leases of the network: an iterator to a removed lease may
\* give it again, and the network promises nothing any more.
Kept == "remove" \notin Admin

\* The IP a VM was given stays recorded as its own, in memory and in the
\* database, as long as the VM has it, whatever the other VMs, the requests
\* on the network, the cache and the database do: so no two VMs share an IP.
LeaseIsOwned ==
    \A v \in VMs, ip \in IPs :
        Kept /\ Holds(v, ip) => leases[ip] = Used(v) /\ db[ip] = Used(v)

\* n_used, which is shown as TOTAL_LEASES, counts the used leases although the
\* code never counts: it adds and subtracts one at each change.
UsedIsCounted == Kept => n_used = Cardinality({ip \in IPs : check(ip)})

\* No lease is lost, if the database and the daemon do not fail: a lease in
\* use is on hold or belongs to a VM that will give it back.
NoLeaseLost ==
    \A ip \in IPs :
        DbErrors = {} /\ ~MayRestart /\ check(ip) =>
            \/ leases[ip].vid = NoVM
            \/ Holds(leases[ip].vid, ip)
            \/ phase[leases[ip].vid] = "rollback"

\* Who has each IP of a network that keeps its leases.
holders == [ip \in IPs |-> {v \in VMs : Kept /\ Holds(v, ip)}]

Service == INSTANCE LeaseService WITH holders <- holders

\* The network keeps the promise of LeaseService: an IP goes to a VM only
\* while no VM has it.
ServiceSpec == Service!Spec
=============================================================================
