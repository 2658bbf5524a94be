------------------------ MODULE VirtualNetworkProofs ------------------------
(***************************************************************************)
(* The leases of a virtual network: proved for any VMs, IPs, networks and  *)
(* NIC lists.                                                              *)
(***************************************************************************)
EXTENDS VirtualNetwork, FiniteSetTheorems, SequenceTheorems, NaturalsInduction,
        WellFoundedInduction, TLAPS

\* Nothing removes leases under the cursor of a network that keeps them.
CursorIsValid == Kept => ~dangling

\* NIC i of VM v has a lease that the VM is still to give back.
Owns(v, i) ==
    /\ i \in 1 .. Len(nics[v]) /\ nics[v][i].by = "id"
    /\ \/ phase[v] = "leasing" /\ i <= done[v]
       \/ phase[v] = "live"
       \/ phase[v] \in {"rollback", "releasing"} /\ done[v] < i

\* A NIC that was leased has its NETWORK_ID.
NicsAreSet ==
    \A v \in VMs :
        /\ done[v] <= Len(nics[v])
        /\ phase[v] = "leasing" => \A i \in 1 .. done[v] : nics[v][i].by = "id"
        /\ phase[v] \in {"live", "releasing"} =>
                \A i \in 1 .. Len(nics[v]) : nics[v][i].by = "id"

\* A lease in use has one who will give it back.
WillBeGiven ==
    DbErrors = {} /\ ~MayRestart =>
        /\ db = leases
        /\ \A ip \in IPs, v \in VMs : leases[ip] = Used(v) =>
            \E i \in 1 .. Len(nics[v]) : Owns(v, i) /\ nics[v][i].ip = ip

\* What holds of every network, whatever the NIC lists of templates.
VnetInv == TypeOK /\ CursorIsValid /\ NicsAreSet /\ WillBeGiven
-----------------------------------------------------------------------------
(* Templates that name the network by NETWORK.                             *)

ByNetwork == \A list \in NicLists : \A i \in DOMAIN list : list[i].by = "name"

\* A NIC that was not leased has no NETWORK_ID, and so no lease is released
\* for it.
NotYetSet ==
    \A v \in VMs : phase[v] = "leasing" =>
        \A i \in done[v] + 1 .. Len(nics[v]) : nics[v][i].by = "name"

\* The lease of a NIC is that VM's, and that NIC's alone.
Owned ==
    Kept => \A v \in VMs :
        /\ \A i \in 1 .. Len(nics[v]) : Owns(v, i) =>
            /\ nics[v][i].ip \in IPs
            /\ leases[nics[v][i].ip] = Used(v) /\ db[nics[v][i].ip] = Used(v)
        /\ \A i, j \in 1 .. Len(nics[v]) :
            Owns(v, i) /\ Owns(v, j) /\ nics[v][i].ip = nics[v][j].ip => i = j

\* The database error that keeps update_lease from counting.
Uncounted == Type = "FIXED" /\ "escape" \in DbErrors

Counted == ~Uncounted => UsedIsCounted

LeaseInv == VnetInv /\ NotYetSet /\ Owned /\ Counted
-----------------------------------------------------------------------------
(* What the operations of the Leases interface may do.                     *)

\* get and set give ip to v, or fail after the record in memory was changed.
Taken(v, ip, rc) ==
    /\ ip \in IPs /\ ~check(ip)
    /\ leases' = [leases EXCEPT ![ip] = Used(v)]
    /\ \/ rc = 0 /\ db' = [db EXCEPT ![ip] = Used(v)]
       \/ rc = -1 /\ db' = db /\ DbErrors # {}
    /\ n_used' = n_used + 1 \/ (n_used' = n_used /\ Uncounted)

\* The iterator to an erased lease gives it again.
Stale(ip, rc) ==
    /\ dangling /\ rc = 0
    /\ leases' = leases /\ db' = db /\ n_used' = n_used + 1

Refused(rc) == rc = -1 /\ UNCHANGED <<leases, db, n_used>>

\* release frees ip, or fails.
Freed(ip) ==
    /\ In(ip)
    /\ \E l \in {None, Unused} :
        /\ leases' = [leases EXCEPT ![ip] = l]
        /\ db' = [db EXCEPT ![ip] = l] \/ (db' = db /\ DbErrors # {})
    /\ n_used' = n_used - 1 \/ (n_used' = n_used /\ Uncounted)

NotFreed(ip) == (~In(ip) \/ DbErrors # {}) /\ UNCHANGED <<leases, db, n_used>>

\* The cursor stays in the network, and only RemoveLeases makes it dangle.
CursorMoves ==
    /\ current' \in IPs \cup {End}
    /\ dangling' = dangling \/ dangling' = FALSE

\* A set of IPs has a least one.
LEMMA LeastIp ==
    ASSUME NEW T \in SUBSET Nat, T # {}
    PROVE  \E k \in T : \A m \in T : k <= m
  <1> DEFINE R == OpToRel(<, Nat)
  <1>1. IsWellFoundedOn(R, Nat)
    BY NatLessThanWellFounded
  <1>2. \A m, k \in Nat : m < k => <<m, k>> \in R
    BY DEF OpToRel
  <1> HIDE DEF R
  <1>3. PICK k \in T : \A m \in T : ~ (<<m, k>> \in R)
    BY <1>1, WFMin
  <1>4. \A m \in T : ~ (m < k)
    BY <1>2, <1>3
  <1>5. \A m \in T : k <= m
    BY <1>4
  <1> QED BY <1>5

LEMMA SuccType ==
    ASSUME TypeOK, NEW ip \in IPs
    PROVE  Succ(ip) \in IPs \cup {End}
  <1> DEFINE above == {k \in Keys : k > ip}
  <1>1. above \in SUBSET IPs /\ above \in SUBSET Nat
    BY VnetAssumption DEF Keys, IPs
  <1>2. CASE above = {}
    BY <1>2 DEF Succ
  <1>3. CASE above # {}
    <2>1. \E k \in above : \A m \in above : k <= m
      BY <1>1, <1>3, LeastIp
    <2>2. Succ(ip) = CHOOSE k \in above : \A m \in above : k <= m
      BY <1>3 DEF Succ
    <2> HIDE DEF above
    <2> QED BY <1>1, <2>1, <2>2
  <1> QED BY <1>2, <1>3

LEMMA UpdateLease ==
    ASSUME NEW v, NEW ip \in IPs, NEW rc, Type = "FIXED", ~check(ip),
           update_lease(ip, Used(v), rc)
    PROVE  Taken(v, ip, rc)
  BY DEF update_lease, Taken, Used, Uncounted

LEMMA SetDoes ==
    ASSUME TypeOK, NEW v, NEW ip \in IPs, NEW rc, set(v, ip, rc)
    PROVE  (Taken(v, ip, rc) \/ Refused(rc)) /\ CursorMoves
  <1>1. CASE RangedSet(v, ip) /\ rc = 0
    BY <1>1 DEF RangedSet, RangedAdd, Taken, CursorMoves, TypeOK
  <1>2. CASE RangedSetFails(ip) /\ rc = -1
    BY <1>2 DEF RangedSetFails, netVars, Refused, CursorMoves, TypeOK
  <1>3. CASE Type = "FIXED" /\ FixedSet(v, ip, rc)
    BY <1>3, UpdateLease DEF FixedSet, CursorMoves, TypeOK
  <1>4. CASE FixedSetFails(ip) /\ rc = -1
    BY <1>4 DEF FixedSetFails, netVars, Refused, CursorMoves, TypeOK
  <1> QED BY <1>1, <1>2, <1>3, <1>4 DEF set

LEMMA GetDoes ==
    ASSUME TypeOK, NEW v, NEW ip \in IPs \cup {NoIP}, NEW rc, get(v, ip, rc)
    PROVE  (Taken(v, ip, rc) \/ Stale(ip, rc) \/ Refused(rc)) /\ CursorMoves
  <1>1. CASE ip \in IPs /\ rc = 0 /\ RangedGet(v, ip)
    BY <1>1 DEF RangedGet, RangedAdd, Taken, CursorMoves
  <1>2. CASE RangedGetFails /\ rc = -1
    BY <1>2 DEF RangedGetFails, netVars, Refused, CursorMoves, TypeOK
  <1>3. CASE Type = "FIXED" /\ ip \in IPs /\ FixedGet(v, ip, rc)
    <2>1. ~check(ip)
      BY <1>3 DEF FixedGet, FirstUnused
    <2> QED BY <1>3, <2>1, UpdateLease, SuccType DEF FixedGet, CursorMoves
  <1>4. CASE FixedGetFails /\ rc = -1
    BY <1>4 DEF FixedGetFails, Refused, CursorMoves, TypeOK
  <1>5. CASE Type = "FIXED" /\ FixedGetDangling(v, ip, rc)
    <2>1. CASE UNCHANGED <<leases, db, current, dangling>> /\ rc = 0 /\ n_used' = n_used + 1
      BY <1>5, <2>1 DEF FixedGetDangling, Stale, CursorMoves, TypeOK
    <2>2. CASE ip \in Keys /\ ~check(ip) /\ update_lease(ip, Used(v), rc)
               /\ current' = Succ(ip) /\ dangling' = FALSE
      BY <1>5, <2>2, UpdateLease, SuccType DEF CursorMoves, Keys
    <2>3. CASE rc = -1 /\ UNCHANGED netVars
      BY <2>3 DEF netVars, Refused, CursorMoves, TypeOK
    <2> QED BY <1>5, <2>1, <2>2, <2>3 DEF FixedGetDangling
  <1> QED BY <1>1, <1>2, <1>3, <1>4, <1>5 DEF get

LEMMA ReleaseDoes ==
    ASSUME TypeOK, NEW ip \in IPs, release(ip)
    PROVE  (Freed(ip) \/ NotFreed(ip)) /\ CursorMoves
  <1>1. CASE RangedRelease(ip)
    BY <1>1 DEF RangedRelease, Freed, NotFreed, netVars, CursorMoves, TypeOK
  <1>2. CASE Type = "FIXED" /\ FixedRelease(ip)
    BY <1>2 DEF FixedRelease, update_lease, Unused, Freed, NotFreed, netVars,
                CursorMoves, TypeOK, Uncounted
  <1> QED BY <1>1, <1>2 DEF release
-----------------------------------------------------------------------------
(* The invariants under those operations.                                  *)

\* The types of the variables of the network.
NetType ==
    /\ leases \in [IPs -> Lease] /\ db \in [IPs -> Lease] /\ n_used \in Int
    /\ current \in IPs \cup {End} /\ dangling \in BOOLEAN

LEMMA NetTypeKept ==
    ASSUME TypeOK, NEW v \in VMs \cup {NoVM}, NEW ip, NEW rc, CursorMoves,
           \/ Taken(v, ip, rc) \/ Stale(ip, rc) \/ Refused(rc)
           \/ (ip \in IPs /\ Freed(ip)) \/ NotFreed(ip)
    PROVE  NetType'
  <1>1. leases' \in [IPs -> Lease] /\ db' \in [IPs -> Lease] /\ n_used' \in Int
    <2>0. /\ Used(v) \in Lease /\ None \in Lease /\ Unused \in Lease
      BY DEF Lease, Used, None, Unused
    <2>1. leases \in [IPs -> Lease] /\ db \in [IPs -> Lease] /\ n_used \in Int
      BY DEF TypeOK
    <2>2. CASE Taken(v, ip, rc)
      BY <2>0, <2>1, <2>2 DEF Taken
    <2>3. CASE ip \in IPs /\ Freed(ip)
      <3>1. PICK l \in Lease : /\ leases' = [leases EXCEPT ![ip] = l]
                               /\ db' = [db EXCEPT ![ip] = l] \/ db' = db
        BY <2>0, <2>3 DEF Freed
      <3>2. n_used' = n_used - 1 \/ n_used' = n_used
        BY <2>3 DEF Freed
      <3> QED BY <2>1, <2>3, <3>1, <3>2
    <2>4. CASE Stale(ip, rc) \/ Refused(rc) \/ NotFreed(ip)
      BY <2>1, <2>4 DEF Stale, Refused, NotFreed
    <2> QED BY <2>2, <2>3, <2>4
  <1>2. current' \in IPs \cup {End}
    BY DEF CursorMoves
  <1>3. dangling' \in BOOLEAN
    BY Zenon DEF TypeOK, CursorMoves
  <1> QED BY <1>1, <1>2, <1>3 DEF NetType

\* The used leases are finite, and counted one by one.
UsedIPs == {ip \in IPs : check(ip)}

LEMMA UsedFinite ==
    /\ IsFiniteSet(UsedIPs) /\ Cardinality(UsedIPs) \in Nat
    /\ \A S \in SUBSET IPs : Cardinality(S) \in Nat
  <1>1. IsFiniteSet(IPs)
    BY FS_Interval, VnetAssumption DEF IPs
  <1>2. UsedIPs \in SUBSET IPs
    BY DEF UsedIPs
  <1> QED BY <1>1, <1>2, FS_Subset, FS_CardinalityType

LEMMA CountTaken ==
    ASSUME TypeOK, NEW v, NEW ip, NEW rc, Taken(v, ip, rc)
    PROVE  Cardinality(UsedIPs') = Cardinality(UsedIPs) + 1
  <1>1. UsedIPs' = UsedIPs \cup {ip} /\ ip \notin UsedIPs
    BY DEF UsedIPs, check, Taken, TypeOK, Used
  <1> QED BY <1>1, UsedFinite, FS_AddElement

LEMMA CountFreed ==
    ASSUME TypeOK, NEW ip \in IPs, Freed(ip), check(ip)
    PROVE  Cardinality(UsedIPs') = Cardinality(UsedIPs) - 1
  <1>1. UsedIPs' = UsedIPs \ {ip} /\ ip \in UsedIPs
    BY DEF UsedIPs, check, Freed, TypeOK, None, Unused
  <1> QED BY <1>1, UsedFinite, FS_RemoveElement

\* The VM that is inserted gets the lease of its next NIC.
LEMMA NicLeased ==
    ASSUME VnetInv, NEW v \in VMs, phase[v] = "leasing", done[v] < Len(nics[v]),
           NEW ip \in IPs \cup {NoIP},
           nics' = [nics EXCEPT ![v][done[v] + 1] = [ip |-> ip, by |-> "id"]],
           done' = [done EXCEPT ![v] = done[v] + 1], phase' = phase
    PROVE  /\ nics' \in [VMs -> Seq(Nic)] /\ done' \in [VMs -> Nat]
           /\ done[v] + 1 \in 1 .. Len(nics[v])
           /\ nics'[v][done[v] + 1] = [ip |-> ip, by |-> "id"]
           /\ ~Owns(v, done[v] + 1)
           /\ \A w \in VMs : Len(nics'[w]) = Len(nics[w])
           /\ \A w \in VMs : \A j \in 1 .. Len(nics[w]) :
                /\ Owns(w, j)' <=> Owns(w, j) \/ (w = v /\ j = done[v] + 1)
                /\ ~(w = v /\ j = done[v] + 1) => nics'[w][j] = nics[w][j]
  <1> DEFINE i == done[v] + 1
             new == [ip |-> ip, by |-> "id"]
             s == [nics[v] EXCEPT ![i] = new]
  <1>0. /\ nics \in [VMs -> Seq(Nic)] /\ done \in [VMs -> Nat]
        /\ i \in 1 .. Len(nics[v]) /\ nics[v] \in Seq(Nic)
        /\ i = done[v] + 1 /\ done[v] \in Nat
    BY DEF VnetInv, TypeOK
  <1>1. new \in Nic /\ new.by = "id"
    BY DEF Nic
  <1>2. nics' = [nics EXCEPT ![v] = s]
    OBVIOUS
  <1> HIDE DEF i, new
  <1>3. /\ s \in Seq(Nic) /\ Len(s) = Len(nics[v])
        /\ \A j \in 1 .. Len(nics[v]) : s[j] = IF j = i THEN new ELSE nics[v][j]
    BY <1>0, <1>1, ExceptSeq
  <1> HIDE DEF s
  <1>4. nics'[v] = s /\ \A w \in VMs : w # v => nics'[w] = nics[w]
    BY <1>0, <1>2
  <1>5. done'[v] = i /\ \A w \in VMs : w # v => done'[w] = done[w]
    BY <1>0
  <1>6. ~Owns(v, i)
    BY <1>0 DEF Owns
  <1>7. \A w \in VMs : Len(nics'[w]) = Len(nics[w])
    BY <1>3, <1>4
  <1>8. ASSUME NEW w \in VMs, NEW j \in 1 .. Len(nics[w])
        PROVE  /\ Owns(w, j)' <=> Owns(w, j) \/ (w = v /\ j = i)
               /\ ~(w = v /\ j = i) => nics'[w][j] = nics[w][j]
    <2>1. CASE w # v
      BY <1>4, <1>5, <2>1 DEF Owns
    <2>2. CASE w = v /\ j # i
      <3>1. nics'[v][j] = nics[v][j]
        BY <1>3, <1>4, <2>2
      <3>2. j <= i <=> j <= done[v]
        BY <1>0, <2>2
      <3> QED BY <1>4, <1>5, <1>7, <2>2, <3>1, <3>2 DEF Owns
    <2>3. CASE w = v /\ j = i
      <3>1. nics'[v][i] = new
        BY <1>0, <1>3, <1>4
      <3> QED BY <1>0, <1>1, <1>5, <1>7, <2>3, <3>1 DEF Owns
    <2> QED BY <2>1, <2>2, <2>3
  <1>9. nics' \in [VMs -> Seq(Nic)] /\ done' \in [VMs -> Nat]
    BY <1>0, <1>2, <1>3
  <1>10. nics'[v][i] = new
    BY <1>0, <1>3, <1>4
  <1> QED BY <1>0, <1>6, <1>7, <1>8, <1>9, <1>10 DEF i, new

\* Its next NIC has no lease: what was leased is given back.
LEMMA NicRefused ==
    ASSUME VnetInv, NEW v \in VMs, phase[v] = "leasing", nics' = nics,
           done' = [done EXCEPT ![v] = 0], phase' = [phase EXCEPT ![v] = "rollback"]
    PROVE  /\ done' \in [VMs -> Nat]
           /\ phase' \in [VMs -> {"none", "leasing", "live", "rollback",
                                  "releasing", "gone"}]
           /\ NicsAreSet'
           /\ \A w \in VMs : \A j \in 1 .. Len(nics[w]) :
                /\ Owns(w, j) => Owns(w, j)'
                /\ NotYetSet => (Owns(w, j)' => Owns(w, j))
           /\ NotYetSet => NotYetSet'
  <1>0. /\ nics \in [VMs -> Seq(Nic)] /\ done \in [VMs -> Nat]
        /\ phase \in [VMs -> {"none", "leasing", "live", "rollback",
                              "releasing", "gone"}]
    BY DEF VnetInv, TypeOK
  <1>1. /\ done'[v] = 0 /\ phase'[v] = "rollback"
        /\ \A w \in VMs : w # v => done'[w] = done[w] /\ phase'[w] = phase[w]
    BY <1>0
  <1>2. \A w \in VMs : Len(nics[w]) \in Nat
    BY <1>0
  <1>3. NicsAreSet'
    BY <1>1, <1>2 DEF NicsAreSet, VnetInv
  <1>4. ASSUME NEW w \in VMs, NEW j \in 1 .. Len(nics[w])
        PROVE  /\ Owns(w, j) => Owns(w, j)'
               /\ NotYetSet => (Owns(w, j)' => Owns(w, j))
    <2>1. CASE w # v
      BY <1>1, <2>1 DEF Owns
    <2>2. CASE w = v
      <3>1. Owns(v, j)' <=> nics[v][j].by = "id"
        BY <1>1, <2>2 DEF Owns
      <3>2. Owns(v, j) <=> nics[v][j].by = "id" /\ j <= done[v]
        BY <2>2 DEF Owns
      <3>3. NotYetSet => (nics[v][j].by = "id" => j <= done[v])
        BY <1>0, <1>2, <2>2 DEF NotYetSet
      <3> QED BY <2>2, <3>1, <3>2, <3>3
    <2> QED BY <2>1, <2>2
  <1>5. NotYetSet => NotYetSet'
    BY <1>1 DEF NotYetSet
  <1> QED BY <1>0, <1>3, <1>4, <1>5

\* nic_attribute for the next NIC: what it does, in two cases.
LEMMA NicAttributeDoes ==
    ASSUME VnetInv, NEW v \in VMs, NicAttribute(v)
    PROVE  \E ip \in IPs \cup {NoIP}, rc \in {0, -1} :
            /\ Taken(v, ip, rc) \/ Stale(ip, rc) \/ Refused(rc)
            /\ CursorMoves
            /\ IF rc = 0
               THEN /\ nics' = [nics EXCEPT ![v][done[v] + 1] =
                                  [ip |-> ip, by |-> "id"]]
                    /\ done' = [done EXCEPT ![v] = done[v] + 1] /\ phase' = phase
               ELSE /\ phase' = [phase EXCEPT ![v] = "rollback"]
                    /\ done' = [done EXCEPT ![v] = 0] /\ nics' = nics
  <1>1. PICK ip \in IPs \cup {NoIP}, rc \in {0, -1} :
            /\ IF nics[v][done[v] + 1].ip = NoIP THEN get(v, ip, rc)
               ELSE ip = nics[v][done[v] + 1].ip /\ set(v, ip, rc)
            /\ IF rc = 0
               THEN /\ nics' = [nics EXCEPT ![v][done[v] + 1] =
                                  [ip |-> ip, by |-> "id"]]
                    /\ done' = [done EXCEPT ![v] = done[v] + 1] /\ phase' = phase
               ELSE /\ phase' = [phase EXCEPT ![v] = "rollback"]
                    /\ done' = [done EXCEPT ![v] = 0] /\ nics' = nics
    BY DEF NicAttribute
  <1>2. TypeOK
    BY DEF VnetInv
  <1>3. /\ Taken(v, ip, rc) \/ Stale(ip, rc) \/ Refused(rc)
        /\ CursorMoves
    <2>1. CASE get(v, ip, rc)
      BY <1>2, <2>1, GetDoes
    <2>2. CASE set(v, ip, rc) /\ ip # NoIP
      BY <1>2, <2>2, SetDoes
    <2> QED BY <1>1, <2>1, <2>2
  <1> QED BY <1>1, <1>3

\* What does not change with the network.
LEMMA SameNet ==
    ASSUME net' = net
    PROVE  /\ DbErrors' = DbErrors /\ Type' = Type /\ (Kept' <=> Kept)
           /\ (MayRestart' <=> MayRestart) /\ (Uncounted' <=> Uncounted)
  BY DEF DbErrors, Type, Kept, Admin, MayRestart, Uncounted

\* The type invariant, in its parts.
Phases == {"none", "leasing", "live", "rollback", "releasing", "gone"}

LEMMA TypeParts ==
    ASSUME TypeOK, net' = net, NetType', phase' \in [VMs -> Phases],
           nics' \in [VMs -> Seq(Nic)], done' \in [VMs -> Nat]
    PROVE  TypeOK'
  <1>1. dangling' \in BOOLEAN
    BY DEF NetType
  <1>2. /\ leases' \in [IPs -> Lease] /\ db' \in [IPs -> Lease]
        /\ n_used' \in Int /\ current' \in IPs \cup {End}
    BY DEF NetType
  <1>3. net' \in DOMAIN Networks
    BY DEF TypeOK
  <1> QED BY <1>1, <1>2, <1>3 DEF TypeOK, Phases

LEMMA CursorKept ==
    ASSUME CursorIsValid, net' = net, dangling' => dangling
    PROVE  CursorIsValid'
  BY SameNet DEF CursorIsValid

LEMMA NicAttributeVnet ==
    ASSUME VnetInv, NEW v \in VMs, NicAttribute(v)
    PROVE  VnetInv'
  <1>0. /\ TypeOK /\ net' = net /\ phase[v] = "leasing" /\ done[v] < Len(nics[v])
        /\ NicsAreSet /\ CursorIsValid /\ WillBeGiven
        /\ phase \in [VMs -> Phases] /\ nics \in [VMs -> Seq(Nic)]
        /\ leases \in [IPs -> Lease] /\ db \in [IPs -> Lease] /\ done \in [VMs -> Nat]
    BY DEF VnetInv, NicAttribute, TypeOK, Phases
  <1>1. PICK ip \in IPs \cup {NoIP}, rc \in {0, -1} :
            /\ Taken(v, ip, rc) \/ Stale(ip, rc) \/ Refused(rc)
            /\ CursorMoves
            /\ IF rc = 0
               THEN /\ nics' = [nics EXCEPT ![v][done[v] + 1] =
                                  [ip |-> ip, by |-> "id"]]
                    /\ done' = [done EXCEPT ![v] = done[v] + 1] /\ phase' = phase
               ELSE /\ phase' = [phase EXCEPT ![v] = "rollback"]
                    /\ done' = [done EXCEPT ![v] = 0] /\ nics' = nics
    BY NicAttributeDoes
  <1>2. NetType'
    BY <1>0, <1>1, NetTypeKept
  <1>3. CursorIsValid'
    BY <1>0, <1>1, CursorKept DEF CursorMoves
  <1>4. DbErrors' = DbErrors /\ (MayRestart' <=> MayRestart)
    BY <1>0, SameNet
  <1>5. CASE rc = 0
    <2>1. /\ nics' = [nics EXCEPT ![v][done[v] + 1] = [ip |-> ip, by |-> "id"]]
          /\ done' = [done EXCEPT ![v] = done[v] + 1] /\ phase' = phase
          /\ Taken(v, ip, rc) \/ Stale(ip, rc)
      BY <1>1, <1>5 DEF Refused
    <2>2. /\ nics' \in [VMs -> Seq(Nic)] /\ done' \in [VMs -> Nat]
          /\ done[v] + 1 \in 1 .. Len(nics[v])
          /\ nics'[v][done[v] + 1] = [ip |-> ip, by |-> "id"]
          /\ ~Owns(v, done[v] + 1)
          /\ \A w \in VMs : Len(nics'[w]) = Len(nics[w])
          /\ \A w \in VMs : \A j \in 1 .. Len(nics[w]) :
               /\ Owns(w, j)' <=> Owns(w, j) \/ (w = v /\ j = done[v] + 1)
               /\ ~(w = v /\ j = done[v] + 1) => nics'[w][j] = nics[w][j]
      BY <1>0, <2>1, NicLeased
    <2>3. TypeOK'
      BY <1>0, <1>2, <2>1, <2>2, TypeParts
    <2>4. NicsAreSet'
      <3>1. done'[v] = done[v] + 1 /\ \A w \in VMs : w # v => done'[w] = done[w]
        BY <1>0, <2>1
      <3>2. \A j \in 1 .. done[v] + 1 : nics'[v][j].by = "id"
        BY <1>0, <2>2 DEF NicsAreSet
      <3>3. \A w \in VMs : w # v => \A j \in 1 .. Len(nics[w]) : nics'[w][j] = nics[w][j]
        BY <2>2
      <3>4. \A w \in VMs : done[w] \in Nat /\ Len(nics[w]) \in Nat
        BY <1>0
      <3> QED BY <1>0, <2>1, <2>2, <3>1, <3>2, <3>3, <3>4 DEF NicsAreSet
    <2>5. WillBeGiven'
      <3> SUFFICES ASSUME DbErrors = {}, ~MayRestart
                   PROVE  /\ db' = leases'
                          /\ \A q \in IPs, u \in VMs : leases'[q] = Used(u) =>
                              \E j \in 1 .. Len(nics'[u]) :
                                  Owns(u, j)' /\ nics'[u][j].ip = q
        BY <1>4 DEF WillBeGiven, Used
      <3>1. /\ db = leases
            /\ \A q \in IPs, u \in VMs : leases[q] = Used(u) =>
                  \E j \in 1 .. Len(nics[u]) : Owns(u, j) /\ nics[u][j].ip = q
        BY <1>0 DEF WillBeGiven
      <3>2. db' = leases'
        BY <1>5, <2>1, <3>1 DEF Taken, Stale
      <3>3. ASSUME NEW q \in IPs, NEW u \in VMs, leases[q] = Used(u)
            PROVE  \E j \in 1 .. Len(nics'[u]) : Owns(u, j)' /\ nics'[u][j].ip = q
        <4>1. PICK j \in 1 .. Len(nics[u]) : Owns(u, j) /\ nics[u][j].ip = q
          BY <3>1, <3>3
        <4>2. ~(u = v /\ j = done[v] + 1)
          BY <2>2, <4>1
        <4>3. Owns(u, j)' /\ nics'[u][j] = nics[u][j]
          BY <2>2, <4>1, <4>2
        <4> QED BY <2>2, <4>1, <4>3
      <3>4. \E j \in 1 .. Len(nics'[v]) : Owns(v, j)' /\ nics'[v][j].ip = ip
        <4>1. PICK i \in 1 .. Len(nics[v]) : i = done[v] + 1
          BY <2>2
        <4>2. Owns(v, i)' /\ nics'[v][i].ip = ip
          BY <2>2, <4>1
        <4> QED BY <2>2, <4>2
      <3>5. ASSUME NEW q \in IPs, NEW u \in VMs, leases'[q] = Used(u)
            PROVE  leases[q] = Used(u) \/ (u = v /\ q = ip)
        BY <1>0, <2>1, <3>5 DEF Taken, Stale, Used
      <3> QED BY <3>2, <3>3, <3>4, <3>5
    <2> QED BY <1>3, <2>3, <2>4, <2>5 DEF VnetInv
  <1>6. CASE rc # 0
    <2>1. /\ phase' = [phase EXCEPT ![v] = "rollback"]
          /\ done' = [done EXCEPT ![v] = 0] /\ nics' = nics
      BY <1>1, <1>6
    <2>2. /\ done' \in [VMs -> Nat] /\ phase' \in [VMs -> Phases] /\ NicsAreSet'
          /\ \A w \in VMs : \A j \in 1 .. Len(nics[w]) : Owns(w, j) => Owns(w, j)'
      BY <1>0, <2>1, NicRefused DEF Phases
    <2>3. TypeOK'
      BY <1>0, <1>2, <2>1, <2>2, TypeParts
    <2>4. WillBeGiven'
      <3> SUFFICES ASSUME DbErrors = {}, ~MayRestart
                   PROVE  WillBeGiven'
        BY <1>4 DEF WillBeGiven
      <3>1. leases' = leases /\ db' = db
        BY <1>1, <1>6 DEF Taken, Stale, Refused
      <3> QED BY <1>0, <2>1, <2>2, <3>1 DEF WillBeGiven, Used
    <2> QED BY <1>3, <2>2, <2>3, <2>4 DEF VnetInv
  <1> QED BY <1>5, <1>6

\* The VM's steps that only change what the VM is at: those that drop its NICs
\* have none left to give back.
LEMMA PhaseSteps ==
    ASSUME VnetInv, NEW v \in VMs,
           \/ \E list \in NicLists : Insert(v, list)
           \/ InsertEnd(v) \/ InsertFails(v) \/ Finalize(v) \/ ReleaseEnd(v)
    PROVE  /\ UNCHANGED <<net, leases, db, n_used, current, dangling>>
           /\ phase' \in [VMs -> Phases] /\ nics' \in [VMs -> Seq(Nic)]
           /\ done' \in [VMs -> Nat] /\ NicsAreSet'
           /\ \A w \in VMs : \A j \in 1 .. Len(nics[w]) :
                Owns(w, j) => /\ Owns(w, j)' /\ Len(nics'[w]) = Len(nics[w])
                              /\ nics'[w][j] = nics[w][j]
  <1>0. /\ nics \in [VMs -> Seq(Nic)] /\ done \in [VMs -> Nat]
        /\ phase \in [VMs -> Phases] /\ NicsAreSet
    BY DEF VnetInv, TypeOK, Phases
  <1>1. UNCHANGED <<net, leases, db, n_used, current, dangling>>
    BY DEF Insert, InsertEnd, InsertFails, Finalize, ReleaseEnd, netVars
  <1>2. \A w \in VMs : Len(nics[w]) \in Nat /\ done[w] \in Nat
    BY <1>0
  <1>3. CASE \E list \in NicLists : Insert(v, list)
    <2>1. PICK list \in NicLists : Insert(v, list)
      BY <1>3
    <2>2. /\ phase[v] = "none" /\ phase' = [phase EXCEPT ![v] = "leasing"]
          /\ nics' = [nics EXCEPT ![v] = list] /\ done' = [done EXCEPT ![v] = 0]
      BY <2>1 DEF Insert
    <2>3. list \in Seq(Nic) /\ Len(list) \in Nat
      BY VnetAssumption
    <2>4. /\ phase' \in [VMs -> Phases] /\ nics' \in [VMs -> Seq(Nic)]
          /\ done' \in [VMs -> Nat]
      BY <1>0, <2>2, <2>3 DEF Phases
    <2>5. NicsAreSet'
      BY <1>0, <1>2, <2>2, <2>3 DEF NicsAreSet
    <2>6. \A j : ~Owns(v, j)
      BY <2>2 DEF Owns
    <2>7. \A w \in VMs : w # v =>
            phase'[w] = phase[w] /\ nics'[w] = nics[w] /\ done'[w] = done[w]
      BY <1>0, <2>2
    <2> QED BY <1>1, <2>4, <2>5, <2>6, <2>7 DEF Owns
  <1>4. CASE InsertEnd(v)
    <2>1. /\ phase[v] = "leasing" /\ phase' = [phase EXCEPT ![v] = "live"]
          /\ nics' = nics /\ done' = done /\ done[v] = Len(nics[v])
      BY <1>4 DEF InsertEnd
    <2>2. phase' \in [VMs -> Phases]
      BY <1>0, <2>1 DEF Phases
    <2>3. NicsAreSet'
      BY <1>0, <1>2, <2>1 DEF NicsAreSet
    <2> QED BY <1>0, <1>1, <2>1, <2>2, <2>3 DEF Owns
  <1>5. CASE InsertFails(v)
    <2>1. /\ phase[v] = "leasing" /\ phase' = [phase EXCEPT ![v] = "rollback"]
          /\ nics' = nics /\ done' = [done EXCEPT ![v] = 0]
      BY <1>5 DEF InsertFails
    <2> QED BY <1>0, <1>1, <2>1, NicRefused DEF Phases
  <1>6. CASE Finalize(v)
    <2>1. /\ phase[v] = "live" /\ phase' = [phase EXCEPT ![v] = "releasing"]
          /\ nics' = nics /\ done' = [done EXCEPT ![v] = 0]
      BY <1>6 DEF Finalize
    <2>2. phase' \in [VMs -> Phases] /\ done' \in [VMs -> Nat]
      BY <1>0, <2>1 DEF Phases
    <2>3. NicsAreSet'
      BY <1>0, <1>2, <2>1 DEF NicsAreSet
    <2> QED BY <1>0, <1>1, <2>1, <2>2, <2>3 DEF Owns
  <1>7. CASE ReleaseEnd(v)
    <2>1. PICK to \in {"none", "gone"} :
            /\ phase[v] \in {"rollback", "releasing"} /\ done[v] = Len(nics[v])
            /\ phase' = [phase EXCEPT ![v] = to]
            /\ nics' = [nics EXCEPT ![v] = <<>>] /\ done' = [done EXCEPT ![v] = 0]
      BY <1>7 DEF ReleaseEnd
    <2>2. /\ phase' \in [VMs -> Phases] /\ nics' \in [VMs -> Seq(Nic)]
          /\ done' \in [VMs -> Nat]
      BY <1>0, <2>1 DEF Phases
    <2>3. \A w \in VMs : w # v =>
            phase'[w] = phase[w] /\ nics'[w] = nics[w] /\ done'[w] = done[w]
      BY <1>0, <2>1
    <2>4. phase'[v] = to /\ nics'[v] = <<>> /\ done'[v] = 0 /\ Len(nics'[v]) = 0
      BY <1>0, <2>1
    <2>5. NicsAreSet'
      BY <1>0, <2>3, <2>4 DEF NicsAreSet
    <2>6. \A j \in 1 .. Len(nics[v]) : ~Owns(v, j)
      BY <1>2, <2>1 DEF Owns
    <2> QED BY <1>1, <2>2, <2>3, <2>5, <2>6 DEF Owns
  <1> QED BY <1>3, <1>4, <1>5, <1>6, <1>7

LEMMA PhaseVnet ==
    ASSUME VnetInv, NEW v \in VMs,
           \/ \E list \in NicLists : Insert(v, list)
           \/ InsertEnd(v) \/ InsertFails(v) \/ Finalize(v) \/ ReleaseEnd(v)
    PROVE  VnetInv'
  <1>1. /\ UNCHANGED <<net, leases, db, n_used, current, dangling>>
        /\ phase' \in [VMs -> Phases] /\ nics' \in [VMs -> Seq(Nic)]
        /\ done' \in [VMs -> Nat] /\ NicsAreSet'
        /\ \A w \in VMs : \A j \in 1 .. Len(nics[w]) :
             Owns(w, j) => /\ Owns(w, j)' /\ Len(nics'[w]) = Len(nics[w])
                           /\ nics'[w][j] = nics[w][j]
    BY PhaseSteps
  <1>2. TypeOK'
    BY <1>1 DEF VnetInv, TypeOK, Phases
  <1>3. CursorIsValid'
    BY <1>1, CursorKept DEF VnetInv
  <1>4. WillBeGiven'
    <2>1. DbErrors' = DbErrors /\ (MayRestart' <=> MayRestart)
      BY <1>1, SameNet
    <2> SUFFICES ASSUME DbErrors = {}, ~MayRestart,
                        NEW ip \in IPs, NEW u \in VMs, leases[ip] = Used(u)
                 PROVE  \E j \in 1 .. Len(nics'[u]) : Owns(u, j)' /\ nics'[u][j].ip = ip
      BY <1>1, <2>1 DEF VnetInv, WillBeGiven, Used
    <2>2. PICK j \in 1 .. Len(nics[u]) : Owns(u, j) /\ nics[u][j].ip = ip
      BY DEF VnetInv, WillBeGiven
    <2> QED BY <1>1, <2>2
  <1> QED BY <1>1, <1>2, <1>3, <1>4 DEF VnetInv

\* release_network_leases for the next NIC: what it does.
LEMMA ReleaseNicDoes ==
    ASSUME VnetInv, NEW v \in VMs, ReleaseNic(v)
    PROVE  /\ UNCHANGED <<net, phase, nics>>
           /\ done' \in [VMs -> Nat] /\ NicsAreSet' /\ NetType' /\ CursorIsValid'
           /\ done[v] + 1 \in 1 .. Len(nics[v])
           /\ phase[v] \in {"rollback", "releasing"}
           /\ \A w \in VMs : \A j \in 1 .. Len(nics[w]) :
                Owns(w, j)' <=> Owns(w, j) /\ ~(w = v /\ j = done[v] + 1)
           /\ LET nic == nics[v][done[v] + 1]
              IN  \/ /\ nic.by = "id" /\ nic.ip \in IPs
                     /\ Freed(nic.ip) \/ NotFreed(nic.ip)
                  \/ /\ ~(nic.by = "id" /\ nic.ip \in IPs)
                     /\ UNCHANGED <<leases, db, n_used>>
  <1> DEFINE i == done[v] + 1
             nic == nics[v][i]
  <1>0. /\ nics \in [VMs -> Seq(Nic)] /\ done \in [VMs -> Nat] /\ TypeOK
        /\ NicsAreSet /\ CursorIsValid /\ NetType
        /\ nics[v] \in Seq(Nic) /\ Len(nics[v]) \in Nat
    BY DEF VnetInv, TypeOK, NetType
  <1>1. /\ UNCHANGED <<net, phase, nics>> /\ done[v] < Len(nics[v])
        /\ phase[v] \in {"rollback", "releasing"}
        /\ done' = [done EXCEPT ![v] = i]
    BY DEF ReleaseNic
  <1>2. i \in 1 .. Len(nics[v]) /\ i \in Nat /\ nic \in Nic
    BY <1>0, <1>1
  <1>3. done' \in [VMs -> Nat] /\ done'[v] = i
        /\ \A w \in VMs : w # v => done'[w] = done[w]
    BY <1>0, <1>1, <1>2
  <1>4. \A w \in VMs : done[w] \in Nat /\ Len(nics[w]) \in Nat
    BY <1>0
  <1>5. NicsAreSet'
    BY <1>0, <1>1, <1>2, <1>3, <1>4 DEF NicsAreSet
  <1>6. ASSUME NEW w \in VMs, NEW j \in 1 .. Len(nics[w])
        PROVE  Owns(w, j)' <=> Owns(w, j) /\ ~(w = v /\ j = i)
    <2>1. CASE w # v
      BY <1>1, <1>3, <2>1 DEF Owns
    <2>2. CASE w = v
      <3>1. (i < j) <=> (done[v] < j /\ j # i)
        BY <1>4, <2>2
      <3> QED BY <1>1, <1>3, <2>2, <3>1 DEF Owns
    <2> QED BY <2>1, <2>2
  <1>7. nic.ip \in IPs <=> nic.ip # NoIP
    BY <1>2, VnetAssumption DEF Nic, NoIP, IPs
  <1>8. CASE nic.by = "id" /\ nic.ip \in IPs
    <2>1. release(nic.ip)
      BY <1>7, <1>8 DEF ReleaseNic
    <2>2. (Freed(nic.ip) \/ NotFreed(nic.ip)) /\ CursorMoves
      BY <1>0, <1>8, <2>1, ReleaseDoes
    <2>3. NetType'
      BY <1>0, <1>8, <2>2, NetTypeKept
    <2>4. CursorIsValid'
      BY <1>0, <1>1, <2>2, CursorKept DEF CursorMoves
    <2> QED BY <1>1, <1>2, <1>3, <1>5, <1>6, <1>8, <2>2, <2>3, <2>4
  <1>9. CASE ~(nic.by = "id" /\ nic.ip \in IPs)
    <2>1. UNCHANGED <<leases, db, n_used, current, dangling>>
      BY <1>7, <1>9 DEF ReleaseNic, netVars
    <2>2. NetType'
      BY <1>0, <2>1 DEF NetType
    <2>3. CursorIsValid'
      BY <1>0, <1>1, <2>1, CursorKept
    <2> QED BY <1>1, <1>2, <1>3, <1>5, <1>6, <1>9, <2>1, <2>2, <2>3
  <1> QED BY <1>8, <1>9

LEMMA ReleaseNicVnet ==
    ASSUME VnetInv, NEW v \in VMs, ReleaseNic(v)
    PROVE  VnetInv'
  <1>1. PICK i \in 1 .. Len(nics[v]) : i = done[v] + 1
    BY ReleaseNicDoes
  <1> DEFINE nic == nics[v][i]
  <1>2. /\ UNCHANGED <<net, phase, nics>>
        /\ done' \in [VMs -> Nat] /\ NicsAreSet' /\ NetType' /\ CursorIsValid'
        /\ \A w \in VMs : \A j \in 1 .. Len(nics[w]) :
             Owns(w, j)' <=> Owns(w, j) /\ ~(w = v /\ j = i)
        /\ \/ /\ nic.by = "id" /\ nic.ip \in IPs
              /\ Freed(nic.ip) \/ NotFreed(nic.ip)
           \/ /\ ~(nic.by = "id" /\ nic.ip \in IPs)
              /\ UNCHANGED <<leases, db, n_used>>
    BY <1>1, ReleaseNicDoes
  <1>3. TypeOK'
    BY <1>2, TypeParts DEF VnetInv, TypeOK, Phases
  <1>4. WillBeGiven'
    <2>0. leases \in [IPs -> Lease]
      BY DEF VnetInv, TypeOK
    <2>1. DbErrors' = DbErrors /\ (MayRestart' <=> MayRestart)
      BY <1>2, SameNet
    <2> SUFFICES ASSUME DbErrors = {}, ~MayRestart
                 PROVE  /\ db' = leases'
                        /\ \A q \in IPs, u \in VMs : leases'[q] = Used(u) =>
                            \E j \in 1 .. Len(nics[u]) : Owns(u, j)' /\ nics[u][j].ip = q
      BY <1>2, <2>1 DEF WillBeGiven, Used
    <2>2. /\ db = leases
          /\ \A q \in IPs, u \in VMs : leases[q] = Used(u) =>
              \E j \in 1 .. Len(nics[u]) : Owns(u, j) /\ nics[u][j].ip = q
      BY DEF VnetInv, WillBeGiven
    <2>3. db' = leases'
      BY <1>2, <2>2 DEF Freed, NotFreed
    <2>4. ASSUME NEW q \in IPs, NEW u \in VMs, leases'[q] = Used(u)
          PROVE  \E j \in 1 .. Len(nics[u]) : Owns(u, j)' /\ nics[u][j].ip = q
      <3>1. leases[q] = Used(u) /\ (nic.by = "id" => nic.ip # q)
        <4>1. CASE nic.by = "id" /\ nic.ip \in IPs /\ Freed(nic.ip)
          BY <2>0, <2>4, <4>1 DEF Freed, None, Unused, Used
        <4>2. CASE nic.by = "id" /\ nic.ip \in IPs /\ NotFreed(nic.ip)
          BY <2>4, <4>2 DEF NotFreed, In, Used
        <4>3. CASE ~(nic.by = "id" /\ nic.ip \in IPs) /\ UNCHANGED <<leases, db, n_used>>
          BY <2>4, <4>3
        <4> QED BY <1>2, <4>1, <4>2, <4>3
      <3>2. PICK j \in 1 .. Len(nics[u]) : Owns(u, j) /\ nics[u][j].ip = q
        BY <2>2, <3>1
      <3>3. ~(u = v /\ j = i)
        BY <3>1, <3>2 DEF Owns
      <3> QED BY <1>2, <3>2, <3>3
    <2> QED BY <2>3, <2>4
  <1> QED BY <1>2, <1>3, <1>4 DEF VnetInv

\* Requests on the network.
LEMMA AdminVnet ==
    ASSUME VnetInv, NEW ip \in IPs,
           HoldLeases(ip) \/ FreeLeases(ip) \/ AddLeases(ip) \/ RemoveLeases(ip)
    PROVE  VnetInv'
  <1>0. /\ UNCHANGED <<net, phase, nics, done>> /\ TypeOK /\ CursorIsValid
        /\ leases \in [IPs -> Lease] /\ db \in [IPs -> Lease] /\ NetType
    BY DEF HoldLeases, FreeLeases, AddLeases, RemoveLeases, vmVars, VnetInv, TypeOK,
           NetType
  <1>1. DbErrors' = DbErrors /\ (MayRestart' <=> MayRestart) /\ (Kept' <=> Kept)
    BY <1>0, SameNet
  <1>2. ASSUME NetType', CursorIsValid',
               DbErrors = {} => \E l \in {None, Unused, Used(NoVM)} :
                    \/ leases' = [leases EXCEPT ![ip] = l] /\ db' = [db EXCEPT ![ip] = l]
                    \/ leases' = leases /\ db' = db
        PROVE  VnetInv'
    <2>1. TypeOK'
      BY <1>0, <1>2, TypeParts DEF TypeOK, Phases
    <2>2. NicsAreSet'
      BY <1>0 DEF VnetInv, NicsAreSet
    <2>3. WillBeGiven'
      <3> SUFFICES ASSUME DbErrors = {}, ~MayRestart
                   PROVE  /\ db' = leases'
                          /\ \A q \in IPs, u \in VMs : leases'[q] = Used(u) =>
                              \E j \in 1 .. Len(nics[u]) : Owns(u, j) /\ nics[u][j].ip = q
        BY <1>0, <1>1 DEF WillBeGiven, Used, Owns
      <3>1. /\ db = leases
            /\ \A q \in IPs, u \in VMs : leases[q] = Used(u) =>
                \E j \in 1 .. Len(nics[u]) : Owns(u, j) /\ nics[u][j].ip = q
        BY DEF VnetInv, WillBeGiven
      <3>2. ASSUME NEW q \in IPs, NEW u \in VMs, leases'[q] = Used(u)
            PROVE  leases[q] = Used(u)
        <4>1. PICK l \in {None, Unused, Used(NoVM)} :
                    leases' = [leases EXCEPT ![ip] = l] \/ leases' = leases
          BY <1>2
        <4>2. l # Used(u)
          BY VnetAssumption DEF None, Unused, Used
        <4> QED BY <1>0, <3>2, <4>1, <4>2
      <3> QED BY <1>2, <3>1, <3>2
    <2> QED BY <1>2, <2>1, <2>2, <2>3 DEF VnetInv
  <1>3. CASE HoldLeases(ip)
    <2>1. PICK rc \in {0, -1} : set(NoVM, ip, rc)
      BY <1>3 DEF HoldLeases
    <2>2. (Taken(NoVM, ip, rc) \/ Refused(rc)) /\ CursorMoves
      BY <1>0, <2>1, SetDoes
    <2>3. NetType'
      BY <1>0, <2>2, NetTypeKept
    <2>4. CursorIsValid'
      BY <1>0, <2>2, CursorKept DEF CursorMoves
    <2> QED BY <1>2, <2>2, <2>3, <2>4 DEF Taken, Refused
  <1>4. CASE FreeLeases(ip)
    <2>2. (Freed(ip) \/ NotFreed(ip)) /\ CursorMoves
      BY <1>0, <1>4, ReleaseDoes DEF FreeLeases
    <2>3. NetType'
      BY <1>0, <2>2, NetTypeKept
    <2>4. CursorIsValid'
      BY <1>0, <2>2, CursorKept DEF CursorMoves
    <2> QED BY <1>2, <2>2, <2>3, <2>4 DEF Freed, NotFreed
  <1>5. CASE AddLeases(ip) \/ RemoveLeases(ip)
    <2>1. \E l \in {None, Unused} : /\ leases' = [leases EXCEPT ![ip] = l]
                                    /\ db' = [db EXCEPT ![ip] = l]
      BY <1>5 DEF AddLeases, RemoveLeases
    <2>2. None \in Lease /\ Unused \in Lease
      BY DEF None, Unused, Lease
    <2>3. leases' \in [IPs -> Lease] /\ db' \in [IPs -> Lease]
      BY <1>0, <2>1, <2>2
    <2>4. n_used' = n_used /\ current' = current
      BY <1>5 DEF AddLeases, RemoveLeases
    <2>5. dangling' \in BOOLEAN
      <3>1. CASE AddLeases(ip)
        BY <1>0, <3>1 DEF AddLeases, NetType
      <3>2. CASE RemoveLeases(ip)
        <4>1. dangling' = (dangling \/ current = ip)
          BY <3>2 DEF RemoveLeases
        <4> QED BY <4>1, Zenon
      <3> QED BY <1>5, <3>1, <3>2
    <2>6. NetType'
      BY <1>0, <2>3, <2>4, <2>5 DEF NetType
    <2>7. CursorIsValid'
      <3>1. CASE AddLeases(ip)
        BY <1>0, <3>1, CursorKept DEF AddLeases
      <3>2. CASE RemoveLeases(ip)
        BY <1>1, <3>2 DEF RemoveLeases, Kept, CursorIsValid
      <3> QED BY <1>5, <3>1, <3>2
    <2> QED BY <1>2, <2>1, <2>6, <2>7
  <1> QED BY <1>3, <1>4, <1>5

\* The object is read again, or all of them.
LEMMA ReloadNet ==
    ASSUME VnetInv, Reload \/ Restart
    PROVE  /\ net' = net /\ leases' = db /\ db' = db /\ NetType' /\ CursorIsValid'
           /\ n_used' = Cardinality({ip \in IPs : db[ip].state = "used"})
  <1>1. /\ net' = net /\ leases' = db /\ db' = db /\ dangling' = FALSE
        /\ n_used' = Cardinality({ip \in IPs : db[ip].state = "used"})
        /\ current' = IF Type = "RANGED" THEN 0 ELSE End
    BY DEF Reload, Restart
  <1>2. {ip \in IPs : db[ip].state = "used"} \in SUBSET IPs
    OBVIOUS
  <1>3. n_used' \in Int
    BY <1>1, <1>2, UsedFinite
  <1>4. current' \in IPs \cup {End}
    BY <1>1, VnetAssumption DEF IPs
  <1>5. NetType'
    BY <1>1, <1>3, <1>4 DEF NetType, VnetInv, TypeOK
  <1> QED BY <1>1, <1>5 DEF CursorIsValid

LEMMA ReloadVnet ==
    ASSUME VnetInv, Reload
    PROVE  VnetInv'
  <1>1. UNCHANGED <<phase, nics, done>>
    BY DEF Reload, vmVars
  <1>2. TypeOK'
    BY <1>1, ReloadNet, TypeParts DEF VnetInv, TypeOK, Phases
  <1>3. NicsAreSet'
    BY <1>1 DEF VnetInv, NicsAreSet
  <1>4. WillBeGiven'
    <2>1. DbErrors' = DbErrors /\ (MayRestart' <=> MayRestart)
      BY ReloadNet, SameNet
    <2> QED BY <1>1, <2>1, ReloadNet DEF VnetInv, WillBeGiven, Owns, Used
  <1> QED BY <1>2, <1>3, <1>4, ReloadNet DEF VnetInv

\* What a restart leaves of the VMs.
LEMMA RestartVMs ==
    ASSUME VnetInv, Restart
    PROVE  /\ phase' \in [VMs -> Phases] /\ nics' \in [VMs -> Seq(Nic)]
           /\ done' \in [VMs -> Nat] /\ MayRestart
           /\ \A v \in VMs :
                \/ /\ phase[v] = "live" /\ phase'[v] = "live"
                   /\ nics'[v] = nics[v] /\ done'[v] = done[v]
                \/ /\ phase'[v] \in {"none", "gone"} /\ nics'[v] = <<>>
                   /\ done'[v] = 0
  <1>0. /\ phase \in [VMs -> Phases] /\ nics \in [VMs -> Seq(Nic)]
        /\ done \in [VMs -> Nat]
    BY DEF VnetInv, TypeOK, Phases
  <1>1. MayRestart
    BY DEF Restart
  <1>2. nics' \in [VMs -> Seq(Nic)] /\ done' \in [VMs -> Nat]
    BY <1>0 DEF Restart
  <1>3. phase' = [v \in VMs |-> CASE Inserting(v)            -> "none"
                                  [] phase[v] = "releasing"  -> "gone"
                                  [] OTHER                   -> phase[v]]
    BY DEF Restart
  <1>4. ASSUME NEW v \in VMs
        PROVE  /\ phase'[v] \in Phases
               /\ \/ phase[v] = "live" /\ phase'[v] = "live"
                  \/ phase[v] # "live" /\ phase'[v] \in {"none", "gone"}
    <2>0. phase[v] \in Phases
      BY <1>0
    <2>1. CASE Inserting(v)
      BY <1>3, <2>1 DEF Inserting, Phases
    <2>2. CASE phase[v] = "releasing"
      BY <1>3, <2>2 DEF Inserting, Phases
    <2>3. CASE ~Inserting(v) /\ phase[v] # "releasing"
      BY <1>3, <2>0, <2>3 DEF Inserting, Phases
    <2> QED BY <2>1, <2>2, <2>3
  <1>5. phase' \in [VMs -> Phases]
    BY <1>3, <1>4
  <1>6. ASSUME NEW v \in VMs
        PROVE  /\ phase[v] = "live" => nics'[v] = nics[v] /\ done'[v] = done[v]
               /\ phase[v] # "live" => nics'[v] = <<>> /\ done'[v] = 0
    BY DEF Restart
  <1> QED BY <1>1, <1>2, <1>4, <1>5, <1>6

LEMMA RestartVnet ==
    ASSUME VnetInv, Restart
    PROVE  VnetInv'
  <1>1. TypeOK'
    BY ReloadNet, RestartVMs, TypeParts DEF VnetInv
  <1>2. NicsAreSet'
    <2>1. \A v \in VMs :
            \/ /\ phase[v] = "live" /\ phase'[v] = "live"
               /\ nics'[v] = nics[v] /\ done'[v] = done[v]
            \/ /\ phase'[v] \in {"none", "gone"} /\ nics'[v] = <<>>
               /\ done'[v] = 0
      BY RestartVMs
    <2>2. NicsAreSet /\ \A v \in VMs : done[v] \in Nat
      BY DEF VnetInv, TypeOK
    <2> QED BY <2>1, <2>2 DEF NicsAreSet
  <1>3. WillBeGiven'
    BY ReloadNet, RestartVMs, SameNet DEF WillBeGiven
  <1> QED BY <1>1, <1>2, <1>3, ReloadNet DEF VnetInv

LEMMA InitVnet == Init => VnetInv
  <1> SUFFICES ASSUME Init PROVE VnetInv
    OBVIOUS
  <1>0. /\ \A ip \in IPs : leases[ip] \in {None, Unused}
        /\ leases \in [IPs -> {None, Unused}] /\ db = leases
    BY DEF Init
  <1>1. None \in Lease /\ Unused \in Lease
    BY DEF None, Unused, Lease
  <1>2. TypeOK
    <2>1. leases \in [IPs -> Lease] /\ db \in [IPs -> Lease]
      BY <1>0, <1>1
    <2>2. current \in IPs \cup {End}
      BY VnetAssumption DEF Init, IPs
    <2>3. dangling \in BOOLEAN
      BY DEF Init
    <2>4. /\ phase \in [VMs -> {"none", "leasing", "live", "rollback",
                                "releasing", "gone"}]
          /\ nics \in [VMs -> Seq(Nic)] /\ done \in [VMs -> Nat] /\ n_used \in Int
          /\ net \in DOMAIN Networks
      BY DEF Init
    <2> QED BY <2>1, <2>2, <2>3, <2>4 DEF TypeOK
  <1>3. NicsAreSet
    BY DEF Init, NicsAreSet
  <1>4. \A ip \in IPs, v \in VMs : leases[ip] # Used(v)
    BY <1>0 DEF None, Unused, Used
  <1> QED BY <1>0, <1>2, <1>3, <1>4 DEF VnetInv, CursorIsValid, WillBeGiven, Init

LEMMA VnetStep ==
    ASSUME VnetInv, [Next]_vars
    PROVE  VnetInv'
  <1>1. CASE UNCHANGED vars
    <2>1. TypeOK'
      BY <1>1 DEF VnetInv, TypeOK, vars
    <2> QED BY <1>1, <2>1, SameNet
            DEF vars, VnetInv, CursorIsValid, NicsAreSet, WillBeGiven, Owns, Used
  <1>2. ASSUME NEW v \in VMs,
               \/ \E list \in NicLists : Insert(v, list)
               \/ InsertEnd(v) \/ InsertFails(v) \/ Finalize(v) \/ ReleaseEnd(v)
               \/ NicAttribute(v) \/ ReleaseNic(v)
        PROVE  VnetInv'
    BY <1>2, PhaseVnet, NicAttributeVnet, ReleaseNicVnet
  <1>3. ASSUME NEW ip \in IPs,
               HoldLeases(ip) \/ FreeLeases(ip) \/ AddLeases(ip) \/ RemoveLeases(ip)
        PROVE  VnetInv'
    BY <1>3, AdminVnet
  <1> QED BY <1>1, <1>2, <1>3, ReloadVnet, RestartVnet DEF Next

LEMMA VnetNotLost ==
    ASSUME VnetInv
    PROVE  NoLeaseLost
  <1> SUFFICES ASSUME NEW ip \in IPs, DbErrors = {}, ~MayRestart, check(ip),
                      leases[ip].vid # NoVM
               PROVE  \/ Holds(leases[ip].vid, ip)
                      \/ phase[leases[ip].vid] = "rollback"
    BY DEF NoLeaseLost
  <1>1. PICK v \in VMs : v = leases[ip].vid
    BY DEF VnetInv, TypeOK, Lease
  <1>2. leases[ip] = Used(v)
    BY <1>1 DEF check, Used, VnetInv, TypeOK, Lease
  <1>3. PICK i \in 1 .. Len(nics[v]) : Owns(v, i) /\ nics[v][i].ip = ip
    BY <1>2 DEF VnetInv, WillBeGiven
  <1> QED BY <1>1, <1>3 DEF Owns, Holds

\* The types of the variables: the cursor in particular never leaves the
\* network, whatever is leased, added and removed.
THEOREM NetworkType == Spec => []TypeOK
  <1>1. VnetInv /\ [Next]_vars => VnetInv'
    BY VnetStep
  <1>2. VnetInv => TypeOK
    BY DEF VnetInv
  <1> QED BY InitVnet, <1>1, <1>2, PTL DEF Spec

\* Without failures of the database and of the daemon no lease is lost: each
\* one in use is on hold or belongs to a VM that will give it back, whatever the
\* NIC lists and even where leases are removed under the cursor.
THEOREM LeasesNotLost == Spec => []NoLeaseLost
  <1>1. VnetInv /\ [Next]_vars => VnetInv'
    BY VnetStep
  <1>2. VnetInv => NoLeaseLost
    BY VnetNotLost
  <1> QED BY InitVnet, <1>1, <1>2, PTL DEF Spec
-----------------------------------------------------------------------------
(* Templates that name the network by NETWORK: leases are owned.           *)

\* Leases and rows that are owned and unchanged stay so.
LEMMA OwnedKept ==
    ASSUME Owned, net' = net,
           Kept => \A v \in VMs : \A i \in 1 .. Len(nics'[v]) : Owns(v, i)' =>
               /\ i \in 1 .. Len(nics[v]) /\ Owns(v, i) /\ nics'[v][i] = nics[v][i]
               /\ leases'[nics[v][i].ip] = leases[nics[v][i].ip]
               /\ db'[nics[v][i].ip] = db[nics[v][i].ip]
    PROVE  Owned'
  <1>1. Kept' <=> Kept
    BY SameNet
  <1> SUFFICES ASSUME Kept, NEW v \in VMs
               PROVE  /\ \A i \in 1 .. Len(nics'[v]) : Owns(v, i)' =>
                           /\ nics'[v][i].ip \in IPs
                           /\ leases'[nics'[v][i].ip] = Used(v)
                           /\ db'[nics'[v][i].ip] = Used(v)
                      /\ \A i, j \in 1 .. Len(nics'[v]) :
                           Owns(v, i)' /\ Owns(v, j)' /\ nics'[v][i].ip = nics'[v][j].ip
                               => i = j
    BY <1>1 DEF Owned, Used
  <1>2. /\ \A i \in 1 .. Len(nics[v]) : Owns(v, i) =>
            /\ nics[v][i].ip \in IPs
            /\ leases[nics[v][i].ip] = Used(v) /\ db[nics[v][i].ip] = Used(v)
        /\ \A i, j \in 1 .. Len(nics[v]) :
            Owns(v, i) /\ Owns(v, j) /\ nics[v][i].ip = nics[v][j].ip => i = j
    BY DEF Owned
  <1>3. ASSUME NEW i \in 1 .. Len(nics'[v]), Owns(v, i)'
        PROVE  /\ i \in 1 .. Len(nics[v]) /\ Owns(v, i) /\ nics'[v][i] = nics[v][i]
               /\ leases'[nics[v][i].ip] = leases[nics[v][i].ip]
               /\ db'[nics[v][i].ip] = db[nics[v][i].ip]
    BY <1>3
  <1>4. \A i \in 1 .. Len(nics'[v]) : Owns(v, i)' =>
            /\ nics'[v][i].ip \in IPs
            /\ leases'[nics'[v][i].ip] = Used(v) /\ db'[nics'[v][i].ip] = Used(v)
    BY <1>2, <1>3
  <1>5. \A i, j \in 1 .. Len(nics'[v]) :
            Owns(v, i)' /\ Owns(v, j)' /\ nics'[v][i].ip = nics'[v][j].ip => i = j
    BY <1>2, <1>3
  <1> QED BY <1>4, <1>5

\* The count stays right.
LEMMA CountedKept ==
    ASSUME TypeOK, Counted, net' = net,
           Kept /\ ~Uncounted =>
               \/ n_used' = n_used /\ Cardinality(UsedIPs') = Cardinality(UsedIPs)
               \/ n_used' = n_used + 1 /\ Cardinality(UsedIPs') = Cardinality(UsedIPs) + 1
               \/ n_used' = n_used - 1 /\ Cardinality(UsedIPs') = Cardinality(UsedIPs) - 1
    PROVE  Counted'
  <1>1. (Kept' <=> Kept) /\ (Uncounted' <=> Uncounted)
    BY SameNet
  <1> SUFFICES ASSUME Kept, ~Uncounted
               PROVE  n_used' = Cardinality(UsedIPs')
    BY <1>1 DEF Counted, UsedIsCounted, UsedIPs
  <1>2. n_used = Cardinality(UsedIPs)
    BY DEF Counted, UsedIsCounted, UsedIPs
  <1> QED BY <1>2

\* A lease that is taken was nobody's.
LEMMA TakenNotOwned ==
    ASSUME LeaseInv, Kept, NEW v, NEW ip, NEW rc, Taken(v, ip, rc),
           NEW w \in VMs, NEW j \in 1 .. Len(nics[w]), Owns(w, j)
    PROVE  /\ nics[w][j].ip # ip
           /\ leases'[nics[w][j].ip] = leases[nics[w][j].ip]
           /\ db'[nics[w][j].ip] = db[nics[w][j].ip]
  <1>1. nics[w][j].ip \in IPs /\ leases[nics[w][j].ip] = Used(w)
    BY DEF LeaseInv, Owned
  <1>2. nics[w][j].ip # ip
    BY <1>1 DEF Taken, check, Used
  <1>3. leases \in [IPs -> Lease] /\ db \in [IPs -> Lease]
    BY DEF LeaseInv, VnetInv, TypeOK
  <1> QED BY <1>1, <1>2, <1>3 DEF Taken

LEMMA NicAttributeLease ==
    ASSUME LeaseInv, NEW v \in VMs, NicAttribute(v)
    PROVE  LeaseInv'
  <1>0. /\ VnetInv /\ TypeOK /\ net' = net /\ phase[v] = "leasing"
        /\ done[v] < Len(nics[v]) /\ NotYetSet /\ Owned /\ Counted /\ CursorIsValid
        /\ leases \in [IPs -> Lease] /\ db \in [IPs -> Lease] /\ done \in [VMs -> Nat]
        /\ nics \in [VMs -> Seq(Nic)]
    BY DEF LeaseInv, VnetInv, NicAttribute, TypeOK
  <1>1. PICK ip \in IPs \cup {NoIP}, rc \in {0, -1} :
            /\ Taken(v, ip, rc) \/ Stale(ip, rc) \/ Refused(rc)
            /\ CursorMoves
            /\ IF rc = 0
               THEN /\ nics' = [nics EXCEPT ![v][done[v] + 1] =
                                  [ip |-> ip, by |-> "id"]]
                    /\ done' = [done EXCEPT ![v] = done[v] + 1] /\ phase' = phase
               ELSE /\ phase' = [phase EXCEPT ![v] = "rollback"]
                    /\ done' = [done EXCEPT ![v] = 0] /\ nics' = nics
    BY <1>0, NicAttributeDoes
  <1>2. VnetInv'
    BY <1>0, NicAttributeVnet
  <1>3. Kept => Taken(v, ip, rc) \/ Refused(rc)
    BY <1>0, <1>1 DEF CursorIsValid, Stale
  <1>4. Counted'
    <2>1. CASE Taken(v, ip, rc)
      <3>1. Cardinality(UsedIPs') = Cardinality(UsedIPs) + 1
        BY <1>0, <2>1, CountTaken
      <3> QED BY <1>0, <2>1, <3>1, CountedKept DEF Taken
    <2>2. CASE Refused(rc)
      <3>1. UsedIPs' = UsedIPs /\ n_used' = n_used
        BY <2>2 DEF UsedIPs, check, Refused
      <3> QED BY <1>0, <3>1, CountedKept
    <2>3. CASE ~Kept
      BY <1>0, <2>3, CountedKept
    <2> QED BY <1>3, <2>1, <2>2, <2>3
  <1>5. CASE rc # 0
    <2>1. /\ phase' = [phase EXCEPT ![v] = "rollback"]
          /\ done' = [done EXCEPT ![v] = 0] /\ nics' = nics
      BY <1>1, <1>5
    <2>2. /\ NotYetSet'
          /\ \A w \in VMs : \A j \in 1 .. Len(nics[w]) : Owns(w, j)' => Owns(w, j)
      BY <1>0, <2>1, NicRefused
    <2>3. ASSUME Kept, NEW w \in VMs, NEW j \in 1 .. Len(nics[w]), Owns(w, j)
          PROVE  /\ leases'[nics[w][j].ip] = leases[nics[w][j].ip]
                 /\ db'[nics[w][j].ip] = db[nics[w][j].ip]
      <3>1. CASE Taken(v, ip, rc)
        BY <2>3, <3>1, TakenNotOwned
      <3>2. CASE Refused(rc)
        BY <3>2 DEF Refused
      <3> QED BY <1>3, <2>3, <3>1, <3>2
    <2>4. Owned'
      BY <1>0, <2>1, <2>2, <2>3, OwnedKept
    <2> QED BY <1>2, <1>4, <2>2, <2>4 DEF LeaseInv
  <1>6. CASE rc = 0
    <2>0. PICK i \in 1 .. Len(nics[v]) : i = done[v] + 1
      BY <1>0
    <2>1. /\ nics' = [nics EXCEPT ![v][done[v] + 1] = [ip |-> ip, by |-> "id"]]
          /\ done' = [done EXCEPT ![v] = done[v] + 1] /\ phase' = phase
      BY <1>1, <1>6
    <2>2. /\ nics'[v][i] = [ip |-> ip, by |-> "id"] /\ ~Owns(v, i)
          /\ \A w \in VMs : Len(nics'[w]) = Len(nics[w])
          /\ \A w \in VMs : \A j \in 1 .. Len(nics[w]) :
               /\ Owns(w, j)' <=> Owns(w, j) \/ (w = v /\ j = i)
               /\ ~(w = v /\ j = i) => nics'[w][j] = nics[w][j]
      BY <1>0, <2>0, <2>1, NicLeased
    <2>3. NotYetSet'
      <3>1. done'[v] = i /\ \A w \in VMs : w # v => done'[w] = done[w]
        BY <1>0, <2>0, <2>1
      <3>2. \A w \in VMs : done[w] \in Nat /\ Len(nics[w]) \in Nat
        BY <1>0
      <3> SUFFICES ASSUME NEW w \in VMs, phase[w] = "leasing",
                          NEW j \in done'[w] + 1 .. Len(nics'[w])
                   PROVE  nics'[w][j].by = "name"
        BY <2>1 DEF NotYetSet
      <3>3. j \in done[w] + 1 .. Len(nics[w]) /\ ~(w = v /\ j = i)
            /\ j \in 1 .. Len(nics[w])
        BY <2>0, <2>2, <3>1, <3>2
      <3> QED BY <1>0, <2>2, <3>3 DEF NotYetSet
    <2>4. Owned'
      <3>0. Kept' <=> Kept
        BY <1>0, SameNet
      <3> SUFFICES ASSUME Kept
                   PROVE  \A w \in VMs :
                            /\ \A j \in 1 .. Len(nics'[w]) : Owns(w, j)' =>
                                /\ nics'[w][j].ip \in IPs
                                /\ leases'[nics'[w][j].ip] = Used(w)
                                /\ db'[nics'[w][j].ip] = Used(w)
                            /\ \A j, k \in 1 .. Len(nics'[w]) :
                                Owns(w, j)' /\ Owns(w, k)'
                                    /\ nics'[w][j].ip = nics'[w][k].ip => j = k
        BY <3>0 DEF Owned, Used
      <3>1. Taken(v, ip, 0)
        BY <1>3, <1>6 DEF Refused
      <3>2. /\ ip \in IPs /\ leases'[ip] = Used(v) /\ db'[ip] = Used(v)
        BY <1>0, <3>1 DEF Taken
      <3>3. nics'[v][i].ip = ip
        BY <2>2
      <3>4. ASSUME NEW w \in VMs, NEW j \in 1 .. Len(nics[w]), Owns(w, j)
            PROVE  /\ nics'[w][j] = nics[w][j] /\ nics[w][j].ip # ip
                   /\ nics[w][j].ip \in IPs
                   /\ leases'[nics[w][j].ip] = Used(w) /\ db'[nics[w][j].ip] = Used(w)
        <4>1. ~(w = v /\ j = i)
          BY <2>2, <3>4
        <4>2. /\ nics[w][j].ip \in IPs
              /\ leases[nics[w][j].ip] = Used(w) /\ db[nics[w][j].ip] = Used(w)
          BY <1>0, <3>4 DEF Owned
        <4>3. /\ nics[w][j].ip # ip
              /\ leases'[nics[w][j].ip] = leases[nics[w][j].ip]
              /\ db'[nics[w][j].ip] = db[nics[w][j].ip]
          BY <3>1, <3>4, TakenNotOwned
        <4> QED BY <2>2, <4>1, <4>2, <4>3
      <3>5. ASSUME NEW w \in VMs, NEW j \in 1 .. Len(nics[w]), NEW k \in 1 .. Len(nics[w]),
                   Owns(w, j), Owns(w, k), nics[w][j].ip = nics[w][k].ip
            PROVE  j = k
        BY <1>0, <3>5 DEF Owned
      <3>6. ASSUME NEW w \in VMs, NEW j \in 1 .. Len(nics[w]), Owns(w, j)'
            PROVE  Owns(w, j) \/ (w = v /\ j = i)
        BY <2>2, <3>6
      <3> QED BY <2>2, <3>2, <3>3, <3>4, <3>5, <3>6
    <2> QED BY <1>2, <1>4, <2>3, <2>4 DEF LeaseInv
  <1> QED BY <1>5, <1>6

LEMMA PhaseLease ==
    ASSUME LeaseInv, ByNetwork, NEW v \in VMs,
           \/ \E list \in NicLists : Insert(v, list)
           \/ InsertEnd(v) \/ InsertFails(v) \/ Finalize(v) \/ ReleaseEnd(v)
    PROVE  LeaseInv'
  <1>0. /\ VnetInv /\ TypeOK /\ NotYetSet /\ Owned /\ Counted
        /\ nics \in [VMs -> Seq(Nic)] /\ done \in [VMs -> Nat]
        /\ phase \in [VMs -> Phases]
    BY DEF LeaseInv, VnetInv, TypeOK, Phases
  <1>1. UNCHANGED <<net, leases, db, n_used, current, dangling>>
    BY <1>0, PhaseSteps
  <1>2. VnetInv'
    BY <1>0, PhaseVnet
  <1>3. Counted'
    <2>1. UsedIPs' = UsedIPs
      BY <1>1 DEF UsedIPs, check
    <2> QED BY <1>0, <1>1, <2>1, CountedKept
  <1>4. \A w \in VMs : Len(nics[w]) \in Nat /\ done[w] \in Nat
    BY <1>0
  <1>5. /\ NotYetSet'
        /\ \A w \in VMs : \A j \in 1 .. Len(nics'[w]) : Owns(w, j)' =>
            j \in 1 .. Len(nics[w]) /\ Owns(w, j) /\ nics'[w][j] = nics[w][j]
    <2>1. CASE \E list \in NicLists : Insert(v, list)
      <3>1. PICK list \in NicLists : Insert(v, list)
        BY <2>1
      <3>2. /\ phase'[v] = "leasing" /\ nics'[v] = list /\ done'[v] = 0
            /\ \A w \in VMs : w # v =>
                phase'[w] = phase[w] /\ nics'[w] = nics[w] /\ done'[w] = done[w]
        BY <1>0, <3>1 DEF Insert
      <3>3. /\ DOMAIN list = 1 .. Len(list) /\ Len(list) \in Nat
        BY VnetAssumption
      <3>4. \A i \in 1 .. Len(list) : list[i].by = "name"
        BY <3>3 DEF ByNetwork
      <3>5. NotYetSet'
        <4> SUFFICES ASSUME NEW w \in VMs, phase'[w] = "leasing",
                            NEW j \in done'[w] + 1 .. Len(nics'[w])
                     PROVE  nics'[w][j].by = "name"
          BY DEF NotYetSet
        <4>1. CASE w = v
          BY <3>2, <3>3, <3>4, <4>1
        <4>2. CASE w # v
          BY <1>0, <3>2, <4>2 DEF NotYetSet
        <4> QED BY <4>1, <4>2
      <3>6. \A j \in 1 .. Len(nics'[v]) : ~Owns(v, j)'
        BY <3>2, <3>3 DEF Owns
      <3> QED BY <3>2, <3>5, <3>6 DEF Owns
    <2>2. CASE InsertFails(v)
      <3>1. /\ phase[v] = "leasing" /\ phase' = [phase EXCEPT ![v] = "rollback"]
            /\ nics' = nics /\ done' = [done EXCEPT ![v] = 0]
        BY <2>2 DEF InsertFails
      <3> QED BY <1>0, <3>1, NicRefused
    <2>3. CASE InsertEnd(v) \/ Finalize(v)
      <3>1. /\ \/ phase[v] = "leasing" /\ phase'[v] = "live" /\ done[v] = Len(nics[v])
               \/ phase[v] = "live" /\ phase'[v] = "releasing"
            /\ nics' = nics
            /\ \A w \in VMs : w # v => phase'[w] = phase[w] /\ done'[w] = done[w]
        BY <1>0, <2>3 DEF InsertEnd, Finalize
      <3>2. NotYetSet'
        BY <1>0, <3>1 DEF NotYetSet
      <3>3. ASSUME NEW w \in VMs, NEW j \in 1 .. Len(nics[w]), Owns(w, j)'
            PROVE  Owns(w, j)
        <4>1. CASE w # v
          BY <3>1, <3>3, <4>1 DEF Owns
        <4>2. CASE w = v
          BY <1>4, <3>1, <3>3, <4>2 DEF Owns
        <4> QED BY <4>1, <4>2
      <3> QED BY <3>1, <3>2, <3>3
    <2>4. CASE ReleaseEnd(v)
      <3>1. /\ phase'[v] \in {"none", "gone"} /\ nics'[v] = <<>>
            /\ \A w \in VMs : w # v =>
                phase'[w] = phase[w] /\ nics'[w] = nics[w] /\ done'[w] = done[w]
        BY <1>0, <2>4 DEF ReleaseEnd
      <3>2. NotYetSet'
        BY <1>0, <3>1 DEF NotYetSet
      <3> QED BY <3>1, <3>2 DEF Owns
    <2> QED BY <2>1, <2>2, <2>3, <2>4
  <1>6. Owned'
    BY <1>0, <1>1, <1>5, OwnedKept
  <1> QED BY <1>2, <1>3, <1>5, <1>6 DEF LeaseInv

LEMMA ReleaseNicLease ==
    ASSUME LeaseInv, NEW v \in VMs, ReleaseNic(v)
    PROVE  LeaseInv'
  <1>0. /\ VnetInv /\ TypeOK /\ NotYetSet /\ Owned /\ Counted
        /\ leases \in [IPs -> Lease] /\ db \in [IPs -> Lease] /\ done \in [VMs -> Nat]
    BY DEF LeaseInv, VnetInv, TypeOK
  <1>1. PICK i \in 1 .. Len(nics[v]) : i = done[v] + 1
    BY <1>0, ReleaseNicDoes
  <1> DEFINE nic == nics[v][i]
  <1>2. /\ UNCHANGED <<net, phase, nics>> /\ phase[v] \in {"rollback", "releasing"}
        /\ \A w \in VMs : \A j \in 1 .. Len(nics[w]) :
             Owns(w, j)' <=> Owns(w, j) /\ ~(w = v /\ j = i)
        /\ \/ /\ nic.by = "id" /\ nic.ip \in IPs
              /\ Freed(nic.ip) \/ NotFreed(nic.ip)
           \/ /\ ~(nic.by = "id" /\ nic.ip \in IPs)
              /\ UNCHANGED <<leases, db, n_used>>
    BY <1>0, <1>1, ReleaseNicDoes
  <1>3. VnetInv'
    BY <1>0, ReleaseNicVnet
  <1>4. NotYetSet'
    <2>1. \A w \in VMs : w # v => done'[w] = done[w]
      BY <1>0 DEF ReleaseNic
    <2> QED BY <1>0, <1>2, <2>1 DEF NotYetSet
  <1>5. nic.by = "id" => Owns(v, i)
    <2>1. done[v] < i
      BY <1>0, <1>1
    <2> QED BY <1>2, <2>1 DEF Owns
  <1>6. CASE Freed(nic.ip) /\ nic.by = "id" /\ nic.ip \in IPs
    <2>1. Kept => leases[nic.ip] = Used(v)
      BY <1>0, <1>5, <1>6 DEF Owned
    <2>2. Counted'
      <3>1. Kept => check(nic.ip)
        BY <2>1 DEF check, Used
      <3>2. Kept => Cardinality(UsedIPs') = Cardinality(UsedIPs) - 1
        BY <1>0, <1>6, <3>1, CountFreed
      <3> QED BY <1>0, <1>2, <1>6, <3>2, CountedKept DEF Freed
    <2>3. ASSUME Kept, NEW w \in VMs, NEW j \in 1 .. Len(nics[w]), Owns(w, j)'
          PROVE  /\ leases'[nics[w][j].ip] = leases[nics[w][j].ip]
                 /\ db'[nics[w][j].ip] = db[nics[w][j].ip]
      <3>1. Owns(w, j) /\ ~(w = v /\ j = i)
        BY <1>2, <2>3
      <3>2. nics[w][j].ip \in IPs /\ leases[nics[w][j].ip] = Used(w)
        BY <1>0, <2>3, <3>1 DEF Owned
      <3>3. nics[w][j].ip # nic.ip
        <4>1. CASE w # v
          BY <2>1, <2>3, <3>2, <4>1 DEF Used
        <4>2. CASE w = v
          BY <1>0, <1>5, <1>6, <2>3, <3>1, <4>2 DEF Owned
        <4> QED BY <4>1, <4>2
      <3> QED BY <1>0, <1>6, <3>2, <3>3 DEF Freed
    <2>4. Owned'
      BY <1>0, <1>2, <2>3, OwnedKept
    <2> QED BY <1>3, <1>4, <2>2, <2>4 DEF LeaseInv
  <1>7. CASE UNCHANGED <<leases, db, n_used>>
    <2>1. UsedIPs' = UsedIPs
      BY <1>7 DEF UsedIPs, check
    <2>2. Counted'
      BY <1>0, <1>2, <1>7, <2>1, CountedKept
    <2>3. Owned'
      BY <1>0, <1>2, <1>7, OwnedKept
    <2> QED BY <1>3, <1>4, <2>2, <2>3 DEF LeaseInv
  <1> QED BY <1>2, <1>6, <1>7 DEF NotFreed

\* Requests on the network touch only leases that no VM has.
LEMMA AdminLease ==
    ASSUME LeaseInv, NEW ip \in IPs,
           HoldLeases(ip) \/ FreeLeases(ip) \/ AddLeases(ip) \/ RemoveLeases(ip)
    PROVE  LeaseInv'
  <1>0. /\ UNCHANGED <<net, phase, nics, done>> /\ VnetInv /\ TypeOK /\ NotYetSet
        /\ Owned /\ Counted
        /\ leases \in [IPs -> Lease] /\ db \in [IPs -> Lease]
    BY DEF HoldLeases, FreeLeases, AddLeases, RemoveLeases, vmVars, LeaseInv, VnetInv,
           TypeOK
  <1>1. VnetInv' /\ NotYetSet'
    BY <1>0, AdminVnet DEF NotYetSet
  <1>2. \A w \in VMs : \A j : Owns(w, j)' <=> Owns(w, j)
    BY <1>0 DEF Owns
  <1>3. ASSUME Kept => \A q \in IPs : (\E w \in VMs : leases[q] = Used(w)) =>
                    leases'[q] = leases[q] /\ db'[q] = db[q]
        PROVE  Owned'
    <2>1. ASSUME Kept, NEW w \in VMs, NEW j \in 1 .. Len(nics[w]), Owns(w, j)
          PROVE  /\ leases'[nics[w][j].ip] = leases[nics[w][j].ip]
                 /\ db'[nics[w][j].ip] = db[nics[w][j].ip]
      BY <1>0, <1>3, <2>1 DEF Owned
    <2> QED BY <1>0, <1>2, <2>1, OwnedKept
  <1>4. CASE HoldLeases(ip)
    <2>1. PICK rc \in {0, -1} : set(NoVM, ip, rc)
      BY <1>4 DEF HoldLeases
    <2>2. Taken(NoVM, ip, rc) \/ Refused(rc)
      BY <1>0, <2>1, SetDoes
    <2>3. CASE Taken(NoVM, ip, rc)
      <3>1. Cardinality(UsedIPs') = Cardinality(UsedIPs) + 1
        BY <1>0, <2>3, CountTaken
      <3>2. Counted'
        BY <1>0, <2>3, <3>1, CountedKept DEF Taken
      <3>3. \A q \in IPs : (\E w \in VMs : leases[q] = Used(w)) =>
                    leases'[q] = leases[q] /\ db'[q] = db[q]
        BY <1>0, <2>3 DEF Taken, check, Used
      <3> QED BY <1>1, <1>3, <3>2, <3>3 DEF LeaseInv
    <2>4. CASE Refused(rc)
      <3>1. UsedIPs' = UsedIPs /\ UNCHANGED <<leases, db, n_used>>
        BY <2>4 DEF UsedIPs, check, Refused
      <3>2. Counted'
        BY <1>0, <3>1, CountedKept
      <3> QED BY <1>1, <1>3, <3>1, <3>2 DEF LeaseInv
    <2> QED BY <2>2, <2>3, <2>4
  <1>5. CASE FreeLeases(ip)
    <2>1. leases[ip] = Used(NoVM) /\ check(ip)
      BY <1>5 DEF FreeLeases, check, Used
    <2>2. Freed(ip) \/ NotFreed(ip)
      BY <1>0, <1>5, ReleaseDoes DEF FreeLeases
    <2>3. CASE Freed(ip)
      <3>1. Cardinality(UsedIPs') = Cardinality(UsedIPs) - 1
        BY <1>0, <2>1, <2>3, CountFreed
      <3>2. Counted'
        BY <1>0, <2>3, <3>1, CountedKept DEF Freed
      <3>3. \A w \in VMs : leases[ip] # Used(w)
        BY <2>1, VnetAssumption DEF Used
      <3>4. \A q \in IPs : q # ip => leases'[q] = leases[q] /\ db'[q] = db[q]
        BY <1>0, <2>3 DEF Freed
      <3> QED BY <1>1, <1>3, <3>2, <3>3, <3>4 DEF LeaseInv
    <2>4. CASE NotFreed(ip)
      <3>1. UsedIPs' = UsedIPs /\ UNCHANGED <<leases, db, n_used>>
        BY <2>4 DEF UsedIPs, check, NotFreed
      <3>2. Counted'
        BY <1>0, <3>1, CountedKept
      <3> QED BY <1>1, <1>3, <3>1, <3>2 DEF LeaseInv
    <2> QED BY <2>2, <2>3, <2>4
  <1>6. CASE AddLeases(ip) \/ RemoveLeases(ip)
    <2>1. PICK l \in {None, Unused} : /\ leases' = [leases EXCEPT ![ip] = l]
                                      /\ db' = [db EXCEPT ![ip] = l]
      BY <1>6 DEF AddLeases, RemoveLeases
    <2>2. ~check(ip) /\ n_used' = n_used
      BY <1>6 DEF AddLeases, RemoveLeases, check, In
    <2>3. l.state # "used"
      BY DEF None, Unused
    <2>4. UsedIPs' = UsedIPs
      BY <1>0, <2>1, <2>2, <2>3 DEF UsedIPs, check
    <2>5. Counted'
      BY <1>0, <2>2, <2>4, CountedKept
    <2>6. \A w \in VMs : leases[ip] # Used(w)
      BY <2>2 DEF check, Used
    <2>7. \A q \in IPs : q # ip => leases'[q] = leases[q] /\ db'[q] = db[q]
      BY <1>0, <2>1
    <2> QED BY <1>1, <1>3, <2>5, <2>6, <2>7 DEF LeaseInv
  <1> QED BY <1>4, <1>5, <1>6

\* The object is read again: the rows are what the VMs have.
LEMMA ReloadLease ==
    ASSUME LeaseInv, Reload \/ Restart, VnetInv'
    PROVE  LeaseInv'
  <1>0. /\ VnetInv /\ TypeOK /\ NotYetSet /\ Owned
        /\ net' = net /\ leases' = db /\ db' = db
        /\ n_used' = Cardinality({ip \in IPs : db[ip].state = "used"})
    BY ReloadNet DEF LeaseInv, VnetInv
  <1>1. Kept' <=> Kept
    BY <1>0, SameNet
  <1>2. Counted'
    BY <1>0 DEF Counted, UsedIsCounted, check
  <1>3. \A v \in VMs :
            \/ phase'[v] = phase[v] /\ nics'[v] = nics[v] /\ done'[v] = done[v]
            \/ phase'[v] \in {"none", "gone"} /\ nics'[v] = <<>>
    <2>1. CASE Reload
      BY <2>1 DEF Reload, vmVars
    <2>2. CASE Restart
      BY <1>0, <2>2, RestartVMs
    <2> QED BY <2>1, <2>2
  <1>4. NotYetSet'
    BY <1>0, <1>3 DEF NotYetSet
  <1>5. ASSUME NEW v \in VMs, NEW i \in 1 .. Len(nics'[v]), Owns(v, i)'
        PROVE  i \in 1 .. Len(nics[v]) /\ Owns(v, i) /\ nics'[v] = nics[v]
    BY <1>3, <1>5 DEF Owns
  <1>6. Owned'
    <2> SUFFICES ASSUME Kept, NEW v \in VMs
                 PROVE  /\ \A i \in 1 .. Len(nics'[v]) : Owns(v, i)' =>
                             /\ nics'[v][i].ip \in IPs
                             /\ db[nics'[v][i].ip] = Used(v)
                        /\ \A i, j \in 1 .. Len(nics'[v]) :
                             Owns(v, i)' /\ Owns(v, j)'
                                 /\ nics'[v][i].ip = nics'[v][j].ip => i = j
      BY <1>0, <1>1 DEF Owned, Used
    <2>1. /\ \A i \in 1 .. Len(nics[v]) : Owns(v, i) =>
              nics[v][i].ip \in IPs /\ db[nics[v][i].ip] = Used(v)
          /\ \A i, j \in 1 .. Len(nics[v]) :
              Owns(v, i) /\ Owns(v, j) /\ nics[v][i].ip = nics[v][j].ip => i = j
      BY <1>0 DEF Owned
    <2> QED BY <1>5, <2>1
  <1> QED BY <1>2, <1>4, <1>6 DEF LeaseInv

LEMMA InitLease == Init => LeaseInv
  <1> SUFFICES ASSUME Init PROVE LeaseInv
    OBVIOUS
  <1>1. \A ip \in IPs : ~check(ip)
    BY DEF Init, check, None, Unused
  <1>2. UsedIPs = {}
    BY <1>1 DEF UsedIPs
  <1>3. Cardinality(UsedIPs) = 0
    BY <1>2, FS_EmptySet
  <1>4. Counted
    BY <1>3 DEF Counted, UsedIsCounted, UsedIPs, Init
  <1>5. NotYetSet /\ Owned
    BY DEF Init, NotYetSet, Owned
  <1> QED BY <1>4, <1>5, InitVnet DEF LeaseInv

LEMMA LeaseStep ==
    ASSUME LeaseInv, ByNetwork, [Next]_vars
    PROVE  LeaseInv'
  <1>0. VnetInv /\ VnetInv'
    BY VnetStep DEF LeaseInv
  <1>1. CASE UNCHANGED vars
    <2>1. Counted'
      BY <1>1, SameNet DEF vars, LeaseInv, Counted, UsedIsCounted, check
    <2>2. NotYetSet' /\ Owned'
      BY <1>1, SameNet DEF vars, LeaseInv, NotYetSet, Owned, Owns, Used
    <2> QED BY <1>0, <2>1, <2>2 DEF LeaseInv
  <1>2. ASSUME NEW v \in VMs,
               \/ \E list \in NicLists : Insert(v, list)
               \/ InsertEnd(v) \/ InsertFails(v) \/ Finalize(v) \/ ReleaseEnd(v)
               \/ NicAttribute(v) \/ ReleaseNic(v)
        PROVE  LeaseInv'
    BY <1>2, PhaseLease, NicAttributeLease, ReleaseNicLease
  <1>3. ASSUME NEW ip \in IPs,
               HoldLeases(ip) \/ FreeLeases(ip) \/ AddLeases(ip) \/ RemoveLeases(ip)
        PROVE  LeaseInv'
    BY <1>3, AdminLease
  <1> QED BY <1>0, <1>1, <1>2, <1>3, ReloadLease DEF Next

\* A VM that has an IP will give it back.
LEMMA HoldsOwns ==
    ASSUME VnetInv, NEW v \in VMs, NEW ip
    PROVE  Holds(v, ip) <=> \E i \in 1 .. Len(nics[v]) :
               Owns(v, i) /\ nics[v][i].ip = ip /\ phase[v] # "rollback"
  <1>1. /\ done[v] \in Nat /\ Len(nics[v]) \in Nat /\ done[v] <= Len(nics[v])
        /\ phase[v] = "leasing" => \A i \in 1 .. done[v] : nics[v][i].by = "id"
        /\ phase[v] \in {"live", "releasing"} =>
                \A i \in 1 .. Len(nics[v]) : nics[v][i].by = "id"
    BY DEF VnetInv, TypeOK, NicsAreSet
  <1> QED BY <1>1 DEF Holds, Owns

LEMMA HeldIsOwned ==
    ASSUME LeaseInv
    PROVE  LeaseIsOwned
  <1> SUFFICES ASSUME Kept, NEW v \in VMs, NEW ip \in IPs, Holds(v, ip)
               PROVE  leases[ip] = Used(v) /\ db[ip] = Used(v)
    BY DEF LeaseIsOwned
  <1>1. PICK i \in 1 .. Len(nics[v]) : Owns(v, i) /\ nics[v][i].ip = ip
    BY HoldsOwns DEF LeaseInv
  <1> QED BY <1>1 DEF LeaseInv, Owned

\* Where templates name the network by NETWORK, the IP a VM was given stays
\* recorded as its own, in memory and in the database, so that no two VMs share
\* an IP: for any number of VMs, NICs and IPs, through database errors, requests
\* on the network and restarts of the daemon.
THEOREM LeasesAreOwned ==
    ASSUME ByNetwork
    PROVE  Spec => []LeaseIsOwned
  <1>1. LeaseInv /\ [Next]_vars => LeaseInv'
    BY LeaseStep
  <1>2. LeaseInv => LeaseIsOwned
    BY HeldIsOwned
  <1> QED BY InitLease, <1>1, <1>2, PTL DEF Spec

\* n_used counts the used leases where no text fails to be escaped for the
\* database in a FIXED network (there update_lease returns before it counts).
THEOREM UsedLeasesAreCounted ==
    ASSUME ByNetwork, \A n \in DOMAIN Networks :
               ~(Networks[n].type = "FIXED" /\ "escape" \in Networks[n].errors)
    PROVE  Spec => []UsedIsCounted
  <1>1. LeaseInv /\ [Next]_vars => LeaseInv'
    BY LeaseStep
  <1>2. LeaseInv => UsedIsCounted
    BY DEF LeaseInv, VnetInv, TypeOK, Counted, Uncounted, Type, DbErrors
  <1> QED BY InitLease, <1>1, <1>2, PTL DEF Spec
-----------------------------------------------------------------------------
(* The network implements LeaseService.                                    *)

LEMMA Shrinks ==
    ASSUME net' = net, \A v \in VMs, ip \in IPs : Holds(v, ip)' => Holds(v, ip)
    PROVE  Service!GiveBack
  <1>1. Kept' <=> Kept
    BY SameNet
  <1> QED BY <1>1 DEF Service!GiveBack, holders

\* A lease that is given goes to the VM, and nobody had it.
LEMMA Given ==
    ASSUME LeaseInv, Kept, NEW v \in VMs, NicAttribute(v),
           NEW ip \in IPs, Taken(v, ip, 0),
           nics' = [nics EXCEPT ![v][done[v] + 1] = [ip |-> ip, by |-> "id"]],
           done' = [done EXCEPT ![v] = done[v] + 1], phase' = phase
    PROVE  Service!Acquire(v, ip)
  <1>0. /\ VnetInv /\ VnetInv' /\ phase[v] = "leasing" /\ done[v] < Len(nics[v])
        /\ net' = net /\ done[v] \in Nat /\ Len(nics[v]) \in Nat
    <2>1. VnetInv /\ VnetInv'
      BY NicAttributeVnet DEF LeaseInv
    <2> QED BY <2>1 DEF VnetInv, TypeOK, NicAttribute
  <1>1. Kept'
    BY <1>0, SameNet
  <1>2. PICK i \in 1 .. Len(nics[v]) : i = done[v] + 1
    BY <1>0
  <1>3. /\ nics'[v][i] = [ip |-> ip, by |-> "id"] /\ ~Owns(v, i)
        /\ \A w \in VMs : Len(nics'[w]) = Len(nics[w])
        /\ \A w \in VMs : \A j \in 1 .. Len(nics[w]) :
             /\ Owns(w, j)' <=> Owns(w, j) \/ (w = v /\ j = i)
             /\ ~(w = v /\ j = i) => nics'[w][j] = nics[w][j]
    BY <1>0, <1>2, NicLeased
  <1>4. \A w \in VMs : ~Holds(w, ip)
    <2>1. LeaseIsOwned /\ ~check(ip)
      BY HeldIsOwned DEF Taken
    <2>2. \A w \in VMs : leases[ip] # Used(w)
      BY <2>1 DEF check, Used
    <2>3. \A w \in VMs : Holds(w, ip) => leases[ip] = Used(w)
      BY <2>1 DEF LeaseIsOwned
    <2> QED BY <2>2, <2>3
  <1>5. ASSUME NEW w \in VMs, NEW q \in IPs
        PROVE  Holds(w, q)' <=> Holds(w, q) \/ (w = v /\ q = ip)
    <2>1. Holds(w, q)' <=> \E j \in 1 .. Len(nics[w]) :
                Owns(w, j)' /\ nics'[w][j].ip = q /\ phase[w] # "rollback"
      <3>1. Holds(w, q)' <=> \E j \in 1 .. Len(nics'[w]) :
                Owns(w, j)' /\ nics'[w][j].ip = q /\ phase'[w] # "rollback"
        <4>1. /\ done'[w] \in Nat /\ Len(nics'[w]) \in Nat
              /\ done'[w] <= Len(nics'[w])
              /\ phase'[w] = "leasing" => \A j \in 1 .. done'[w] : nics'[w][j].by = "id"
              /\ phase'[w] \in {"live", "releasing"} =>
                      \A j \in 1 .. Len(nics'[w]) : nics'[w][j].by = "id"
          BY <1>0 DEF VnetInv, TypeOK, NicsAreSet
        <4> QED BY <4>1 DEF Holds, Owns
      <3> QED BY <1>3, <3>1
    <2>2. Holds(w, q) <=> \E j \in 1 .. Len(nics[w]) :
                Owns(w, j) /\ nics[w][j].ip = q /\ phase[w] # "rollback"
      BY <1>0, HoldsOwns
    <2>3. CASE w # v
      BY <1>3, <2>1, <2>2, <2>3
    <2>4. CASE w = v
      BY <1>0, <1>3, <2>1, <2>2, <2>4
    <2> QED BY <2>3, <2>4
  <1>6. holders[ip] = {}
    BY <1>4 DEF holders
  <1>7. holders' = [holders EXCEPT ![ip] = {v}]
    <2>1. \A q \in IPs : {w \in VMs : Kept' /\ Holds(w, q)'} =
                IF q = ip THEN {v} ELSE {w \in VMs : Kept /\ Holds(w, q)}
      BY <1>1, <1>4, <1>5
    <2> QED BY <2>1 DEF holders
  <1> QED BY <1>6, <1>7 DEF Service!Acquire

\* Every other step of a VM is one in which VMs lose IPs, or none.
LEMMA OthersShrink ==
    ASSUME VnetInv, NEW v \in VMs,
           \/ \E list \in NicLists : Insert(v, list)
           \/ InsertEnd(v) \/ InsertFails(v) \/ Finalize(v) \/ ReleaseEnd(v)
           \/ ReleaseNic(v)
    PROVE  Service!GiveBack
  <1>0. /\ nics \in [VMs -> Seq(Nic)] /\ done \in [VMs -> Nat]
        /\ phase \in [VMs -> Phases]
    BY DEF VnetInv, TypeOK, Phases
  <1>1. net' = net
    BY DEF Insert, InsertEnd, InsertFails, Finalize, ReleaseEnd, ReleaseNic
  <1>2. \A w \in VMs : w # v =>
            phase'[w] = phase[w] /\ nics'[w] = nics[w] /\ done'[w] = done[w]
    BY <1>0 DEF Insert, InsertEnd, InsertFails, Finalize, ReleaseEnd, ReleaseNic
  <1>3. ASSUME NEW ip \in IPs, Holds(v, ip)'
        PROVE  Holds(v, ip)
    <2>0. Len(nics[v]) \in Nat /\ done[v] \in Nat
      BY <1>0
    <2>1. CASE \E list \in NicLists : Insert(v, list)
      <3>1. PICK list \in NicLists : Insert(v, list)
        BY <2>1
      <3>2. phase'[v] = "leasing" /\ nics'[v] = list /\ done'[v] = 0
        BY <1>0, <3>1 DEF Insert
      <3> QED BY <1>3, <3>2 DEF Holds
    <2>2. CASE InsertFails(v)
      <3>1. phase'[v] = "rollback"
        BY <1>0, <2>2 DEF InsertFails
      <3> QED BY <1>3, <3>1 DEF Holds
    <2>3. CASE InsertEnd(v)
      <3>1. /\ phase[v] = "leasing" /\ done[v] = Len(nics[v]) /\ nics' = nics
        BY <2>3 DEF InsertEnd
      <3> QED BY <1>3, <2>0, <3>1 DEF Holds
    <2>4. CASE Finalize(v)
      BY <1>3, <2>4 DEF Finalize, Holds
    <2>5. CASE ReleaseEnd(v)
      <3>1. phase'[v] \in {"none", "gone"}
        BY <1>0, <2>5 DEF ReleaseEnd
      <3> QED BY <1>3, <3>1 DEF Holds
    <2>6. CASE ReleaseNic(v)
      <3>1. /\ phase' = phase /\ nics' = nics /\ done'[v] = done[v] + 1
            /\ phase[v] \in {"rollback", "releasing"}
        BY <1>0, <2>6 DEF ReleaseNic
      <3> QED BY <1>3, <2>0, <3>1 DEF Holds
    <2> QED BY <2>1, <2>2, <2>3, <2>4, <2>5, <2>6
  <1>4. \A w \in VMs, ip \in IPs : Holds(w, ip)' => Holds(w, ip)
    BY <1>2, <1>3 DEF Holds
  <1> QED BY <1>1, <1>4, Shrinks

LEMMA NicAttributeServes ==
    ASSUME LeaseInv, NEW v \in VMs, NicAttribute(v)
    PROVE  Service!GiveBack \/ \E ip \in IPs : Service!Acquire(v, ip)
  <1>0. /\ VnetInv /\ TypeOK /\ net' = net /\ phase[v] = "leasing"
        /\ done[v] < Len(nics[v]) /\ CursorIsValid
        /\ phase \in [VMs -> Phases] /\ done \in [VMs -> Nat]
    BY DEF LeaseInv, VnetInv, NicAttribute, TypeOK, Phases
  <1>1. PICK ip \in IPs \cup {NoIP}, rc \in {0, -1} :
            /\ Taken(v, ip, rc) \/ Stale(ip, rc) \/ Refused(rc)
            /\ CursorMoves
            /\ IF rc = 0
               THEN /\ nics' = [nics EXCEPT ![v][done[v] + 1] =
                                  [ip |-> ip, by |-> "id"]]
                    /\ done' = [done EXCEPT ![v] = done[v] + 1] /\ phase' = phase
               ELSE /\ phase' = [phase EXCEPT ![v] = "rollback"]
                    /\ done' = [done EXCEPT ![v] = 0] /\ nics' = nics
    BY <1>0, NicAttributeDoes
  <1>2. CASE ~Kept
    <2>1. ~Kept'
      BY <1>0, <1>2, SameNet
    <2> QED BY <2>1 DEF Service!GiveBack, holders
  <1>3. CASE Kept /\ rc # 0
    <2>1. /\ phase'[v] = "rollback" /\ nics' = nics
          /\ \A w \in VMs : w # v => phase'[w] = phase[w] /\ done'[w] = done[w]
      BY <1>0, <1>1, <1>3
    <2>2. \A w \in VMs, q \in IPs : Holds(w, q)' => Holds(w, q)
      BY <2>1 DEF Holds
    <2> QED BY <1>0, <2>2, Shrinks
  <1>4. CASE Kept /\ rc = 0
    <2>1. Taken(v, ip, 0)
      BY <1>0, <1>1, <1>4 DEF CursorIsValid, Stale, Refused
    <2>2. ip \in IPs
      BY <2>1 DEF Taken
    <2> QED BY <1>1, <1>4, <2>1, <2>2, Given
  <1> QED BY <1>2, <1>3, <1>4

LEMMA ServiceStep ==
    ASSUME LeaseInv, [Next]_vars
    PROVE  Service!Next \/ UNCHANGED holders
  <1>0. VnetInv
    BY DEF LeaseInv
  <1>1. CASE UNCHANGED vars
    <2>1. Kept' <=> Kept
      BY <1>1, SameNet DEF vars
    <2> QED BY <1>1, <2>1 DEF vars, holders, Holds
  <1>2. ASSUME NEW v \in VMs,
               \/ \E list \in NicLists : Insert(v, list)
               \/ InsertEnd(v) \/ InsertFails(v) \/ Finalize(v) \/ ReleaseEnd(v)
               \/ NicAttribute(v) \/ ReleaseNic(v)
        PROVE  Service!Next
    BY <1>0, <1>2, OthersShrink, NicAttributeServes DEF Service!Next
  <1>3. ASSUME NEW ip \in IPs,
               HoldLeases(ip) \/ FreeLeases(ip) \/ AddLeases(ip) \/ RemoveLeases(ip)
        PROVE  Service!Next
    <2>1. UNCHANGED <<net, phase, nics, done>>
      BY <1>3 DEF HoldLeases, FreeLeases, AddLeases, RemoveLeases, vmVars
    <2> QED BY <2>1, Shrinks DEF Holds, Service!Next
  <1>4. CASE Reload
    <2>1. UNCHANGED <<net, phase, nics, done>>
      BY <1>4 DEF Reload, vmVars
    <2> QED BY <2>1, Shrinks DEF Holds, Service!Next
  <1>5. CASE Restart
    <2>1. net' = net
      BY <1>5 DEF Restart
    <2>2. \A v \in VMs :
                \/ /\ phase[v] = "live" /\ phase'[v] = "live"
                   /\ nics'[v] = nics[v] /\ done'[v] = done[v]
                \/ /\ phase'[v] \in {"none", "gone"} /\ nics'[v] = <<>>
                   /\ done'[v] = 0
      BY <1>0, <1>5, RestartVMs
    <2>3. \A v \in VMs, ip \in IPs : Holds(v, ip)' => Holds(v, ip)
      BY <2>2 DEF Holds
    <2> QED BY <2>1, <2>3, Shrinks DEF Service!Next
  <1> QED BY <1>1, <1>2, <1>3, <1>4, <1>5 DEF Next

\* The network implements LeaseService where templates name it by NETWORK: an
\* IP goes to a VM only while no VM has it.
THEOREM NetworkIsLeaseService ==
    ASSUME ByNetwork
    PROVE  Spec => ServiceSpec
  <1>1. Init => Service!Init
    BY DEF Init, Service!Init, holders, Holds
  <1>2. LeaseInv /\ [Next]_vars => LeaseInv'
    BY LeaseStep
  <1>3. LeaseInv /\ [Next]_vars => [Service!Next]_holders
    BY ServiceStep
  <1> QED BY InitLease, <1>1, <1>2, <1>3, PTL DEF Spec, ServiceSpec, Service!Spec
=============================================================================
