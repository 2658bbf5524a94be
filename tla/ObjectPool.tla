----------------------------- MODULE ObjectPool -----------------------------
(***************************************************************************)
(* A pool of persistent objects (PoolSQL): the rows of its table, the      *)
(* objects in memory with their mutexes, the index by identifier, the      *)
(* index by name and owner, the replacement queue and the mutex of the     *)
(* pool, used by concurrent threads.                                       *)
(*                                                                         *)
(* A method that finds every mutex free is one step.  A thread that waits  *)
(* for the mutex of an object keeps the mutex of the pool, as get does.    *)
(* An object is told apart by its key (its name and owner), the data that  *)
(* a change of owner modifies.                                             *)
(***************************************************************************)
EXTENDS Integers, Sequences, FiniteSets, FiniteSetsExt

CONSTANTS
    Threads,        \* Threads that use the pool
    Nobody,         \* No thread: a mutex that is free
    Lost,           \* No thread: a mutex that nobody will unlock
    Keys,           \* Names of objects, with their owners
    NoKey,          \* Not a key: there is no such row
    Kinds,          \* "named": names are unique; "vm": the pool of VMs
    INT_MAX,        \* The largest identifier
    MAX_POOL_SIZE,  \* Objects in memory before one is replaced
    Addresses,      \* Bound on the objects in memory
    MaxQueue,       \* Bound on the length of the replacement queue
    MaxMoves        \* Bound on the changes of owner between two starts

Oids == 0..INT_MAX
NoOid == -1
NoAddress == 0
Wild == -1   \* What is in the memory of an entry that was erased

ASSUME PoolAssumption ==
    /\ Nobody \notin Threads /\ Lost \notin Threads /\ Nobody # Lost
    /\ NoKey \notin Keys
    /\ Kinds \subseteq {"named", "vm"}
    /\ INT_MAX \in Nat /\ MAX_POOL_SIZE \in Nat
    /\ Addresses \subseteq Nat \ {NoAddress}
    /\ MaxQueue \in Nat /\ MaxMoves \in Nat
    /\ MAX_POOL_SIZE >= Cardinality(Threads)

VARIABLES
    kind,      \* The kind of the pool
    db,        \* The key in the row of each identifier, or NoKey
    last_oid,  \* The row of the pool in pool_control
    lastOID,   \* The last identifier given
    heap,      \* The objects in memory
    pool,      \* Index by identifier
    name_pool, \* Index by key
    oid_queue, \* Identifiers, in the order they are replaced
    mutex,     \* The thread that has the mutex of the pool, or Nobody
    thread,    \* What each thread does
    stray,     \* Keys of an object that was deleted or given another owner, or
               \* whose old key was loaded, between the change of its owner and
               \* the update of the index; and what the erased entry read
    twice,     \* Keys loaded in that time, or given to an owner who had them in
               \* the table or in the index (an object deleted since)
    wrapped,   \* TRUE iff the identifiers began again, or a crash came between
               \* an insertion and the update of last_oid
    moves      \* Changes of owner since the daemon started

vars == <<kind, db, last_oid, lastOID, heap, pool, name_pool, oid_queue, mutex,
          thread, stray, twice, wrapped, moves>>
cache == <<heap, pool, name_pool, oid_queue>>
store == <<db, last_oid, lastOID>>
races == <<stray, twice>>
marks == <<kind, races, wrapped, moves>>

Freed == [oid |-> NoOid, key |-> NoKey, valid |-> FALSE, lock |-> Nobody]
Idle == [at |-> "idle", obj |-> NoAddress, oid |-> NoOid, key |-> NoKey,
         new |-> NoKey, by |-> "oid"]

Init ==
    /\ kind \in Kinds
    /\ db = [o \in Oids |-> NoKey]
    /\ last_oid = -1 /\ lastOID = -1
    /\ heap = [a \in Addresses |-> Freed]
    /\ pool = [o \in Oids |-> NoAddress]
    /\ name_pool = [k \in Keys |-> NoAddress]
    /\ oid_queue = <<>>
    /\ mutex = Nobody
    /\ thread = [t \in Threads |-> Idle]
    /\ moves = 0
    /\ stray = {} /\ twice = {} /\ wrapped = FALSE

Live(a) == a \in Addresses /\ heap[a].oid # NoOid
Unused == {a \in Addresses : /\ ~Live(a)
                             /\ \A o \in Oids : pool[o] # a
                             /\ \A k \in Keys : name_pool[k] # a}
Cached(p) == {o \in Oids : p[o] # NoAddress}
Moving == {t \in Threads : thread[t].at = "index"}

-----------------------------------------------------------------------------
(* Loading and replacing objects.  C is the cache: [heap, pool, name_pool, *)
(* oid_queue].                                                             *)

C0 == [heap |-> heap, pool |-> pool, names |-> name_pool, queue |-> oid_queue]

Becomes(c) ==
    /\ heap' = c.heap /\ pool' = c.pool
    /\ name_pool' = c.names /\ oid_queue' = c.queue

\* Deletes the object at a and its entries: the one of its identifier and the
\* one of key k.
Delete(c, a, k) ==
    [c EXCEPT !.heap[a] = Freed, !.pool[c.heap[a].oid] = NoAddress,
              !.names[k] = NoAddress]

\* Positions of the queue with an object whose mutex is free.
Replaceable(c) ==
    {i \in DOMAIN c.queue : LET a == c.pool[c.queue[i]] IN
        a # NoAddress /\ c.heap[a].lock = Nobody}

\* The first object that no thread has goes; identifiers that are not cached
\* are forgotten and those in use go to the back.
replace(c) ==
    LET i == Min(Replaceable(c))
        InUse(o) == c.pool[o] # NoAddress
        a == c.pool[c.queue[i]]
    IN  [Delete(c, a, c.heap[a].key) EXCEPT
            !.queue = SubSeq(c.queue, i + 1, Len(c.queue))
                      \o SelectSeq(SubSeq(c.queue, 1, i - 1), InUse)]

\* An object for row o, read with key k, at address a.  A map keeps the entry it
\* has.
Insert(c, o, k, a, lock) ==
    [c EXCEPT
        !.heap[a] = [oid |-> o, key |-> k, valid |-> TRUE, lock |-> lock],
        !.pool[o] = IF @ = NoAddress THEN a ELSE @,
        !.names[k] = IF @ = NoAddress THEN a ELSE @,
        !.queue = Append(@, o)]

\* The cache after the insertion of row o; when every object is in use the
\* replacement looks for one for ever ("spin").
Full(c) == Cardinality(Cached(c.pool)) > MAX_POOL_SIZE
Spins(c) == Full(c) /\ Replaceable(c) = {}
Settled(c) == IF Full(c) /\ ~Spins(c) THEN replace(c) ELSE c

\* The objects become h and key k is loaded while threads are about to update the
\* index: the index of their object is lost, or the object is loaded again.
Races(h, k) ==
    LET Late == {m \in Moving : \/ thread[m].key = k
                                \/ h[thread[m].obj].oid = NoOid}
    IN  /\ stray' = stray \cup UNION {{thread[m].key, thread[m].new} : m \in Late}
        /\ twice' = twice \cup ({thread[m].new : m \in Moving} \cap {k})

\* Thread t puts row o, read with key k, into cache c and gets the object, locked
\* if olock.
Load(t, c, o, k, olock) ==
    /\ Len(c.queue) < MaxQueue
    /\ \E a \in {CHOOSE b \in Unused : TRUE} :
        LET d == Insert(c, o, k, a, IF olock THEN t ELSE Nobody) IN
        /\ Becomes(Settled(d))
        /\ mutex' = IF Spins(d) THEN t ELSE Nobody
        /\ thread' = [thread EXCEPT ![t] =
              IF Spins(d) THEN [Idle EXCEPT !.at = "spin"]
              ELSE IF olock THEN [Idle EXCEPT !.at = "hold", !.obj = a]
              ELSE Idle]
        /\ Races(Settled(d).heap, k)

Return(t) ==
    /\ thread' = [thread EXCEPT ![t] = Idle]
    /\ UNCHANGED <<cache, mutex, races>>

\* Thread t waits for the mutex of the object at a, with the pool locked; the
\* row it will load has been read.
WaitFor(t, at, a, o, by) ==
    /\ mutex' = t
    /\ thread' = [thread EXCEPT ![t] =
          [Idle EXCEPT !.at = at, !.obj = a, !.oid = o, !.key = db[o],
                       !.by = by]]
    /\ UNCHANGED <<cache, races>>

Take(t, a) ==
    /\ heap' = [heap EXCEPT ![a].lock = t]
    /\ thread' = [thread EXCEPT ![t] = [Idle EXCEPT !.at = "hold", !.obj = a]]
    /\ mutex' = Nobody
    /\ UNCHANGED <<pool, name_pool, oid_queue, races>>

-----------------------------------------------------------------------------
(* get by identifier and by name.                                          *)

Enters(t) == thread[t].at = "idle" /\ mutex = Nobody

\* Mutant: the object is not asked whether it is valid before it is locked.
GetCached_Unchecked(t, a, by) ==
    \/ heap[a].lock = Nobody /\ (IF heap[a].valid THEN Take(t, a) ELSE Return(t))
    \/ heap[a].lock # Nobody /\ WaitFor(t, "wait", a, heap[a].oid, by)

\* The object at a is cached: it is locked, after a wait if it is in use.
GetCached(t, a, by) ==
    \/ ~heap[a].valid /\ Return(t)
    \/ heap[a].valid /\ heap[a].lock = Nobody /\ Take(t, a)
    \/ /\ heap[a].valid /\ heap[a].lock # Nobody
       /\ WaitFor(t, "wait", a, heap[a].oid, by)

\* get(oid,true).  An object of the same key is locked and deleted first.
get(t, o) ==
    LET a == pool[o]  b == name_pool[db[o]] IN
    /\ Enters(t)
    /\ \/ a # NoAddress /\ Live(a) /\ GetCached(t, a, "oid")
       \/ a = NoAddress /\ db[o] = NoKey /\ Return(t)
       \/ /\ a = NoAddress /\ db[o] # NoKey /\ Unused # {}
          /\ \/ b = NoAddress /\ Load(t, C0, o, db[o], TRUE)
             \/ /\ Live(b) /\ heap[b].lock = Nobody
                /\ Load(t, Delete(C0, b, db[o]), o, db[o], TRUE)
             \/ /\ Live(b) /\ heap[b].lock # Nobody
                /\ WaitFor(t, "clear", b, o, "oid")
    /\ UNCHANGED <<store, kind, wrapped, moves>>

\* The row a SELECT by name and owner finds.
RowOf(k) == {o \in Oids : db[o] = k}

\* get(name,uid,olock); used for objects whose names are unique.  What comes
\* after: r if there is no such object.
get_by_name(t, k, olock, r) ==
    LET a == name_pool[k]  by == IF olock THEN "name" ELSE "check" IN
    /\ Enters(t) /\ kind = "named"
    /\ \/ /\ Live(a) /\ heap[a].valid
          /\ IF olock THEN GetCached(t, a, by) ELSE Return(t)
       \/ /\ a = NoAddress \/ (Live(a) /\ ~heap[a].valid)
          /\ RowOf(k) = {}
          /\ thread' = [thread EXCEPT ![t] = r]
          /\ UNCHANGED <<cache, mutex, races>>
       \/ /\ a = NoAddress \/ (Live(a) /\ ~heap[a].valid)
          /\ Unused # {}
          /\ \E o \in RowOf(k) :
              \/ a = NoAddress /\ Load(t, C0, o, k, olock)
              \/ /\ Live(a) /\ heap[a].lock = Nobody
                 /\ Load(t, Delete(C0, a, heap[a].key), o, k, olock)
              \/ /\ Live(a) /\ heap[a].lock # Nobody
                 /\ WaitFor(t, "clear", a, o, by)
    /\ UNCHANGED <<store, kind, wrapped, moves>>

\* The object a thread waited for was unlocked.  If it was dropped meanwhile,
\* get by identifier returns 0 and leaves it locked; get by name unlocks it.
Granted(t) ==
    LET w == thread[t] IN
    /\ w.at = "wait" /\ Live(w.obj) /\ heap[w.obj].lock = Nobody
    /\ IF heap[w.obj].valid THEN Take(t, w.obj)
       ELSE /\ heap' = [heap EXCEPT ![w.obj].lock =
                           IF w.by = "oid" THEN Lost ELSE Nobody]
            /\ thread' = [thread EXCEPT ![t] = Idle]
            /\ mutex' = Nobody
            /\ UNCHANGED <<pool, name_pool, oid_queue, races>>
    /\ UNCHANGED <<store, kind, wrapped, moves>>

\* The object of the same key was unlocked: it is deleted, the row is loaded.
Cleared(t) ==
    LET w == thread[t]
        k == IF w.by = "oid" THEN w.key ELSE heap[w.obj].key
    IN
    /\ w.at = "clear" /\ Live(w.obj) /\ heap[w.obj].lock = Nobody
    /\ Load(t, Delete(C0, w.obj, k), w.oid, w.key, w.by # "check")
    /\ UNCHANGED <<store, kind, wrapped, moves>>

-----------------------------------------------------------------------------
(* What a thread does with an object it has.                               *)

Holds(t) == thread[t].at = "hold"
Obj(t) == heap[thread[t].obj]
Unlock(t, next) ==
    /\ heap' = [heap EXCEPT ![thread[t].obj].lock = Nobody]
    /\ thread' = [thread EXCEPT ![t] = next]

unlock(t) ==
    /\ Holds(t) /\ Unlock(t, Idle)
    /\ UNCHANGED <<pool, name_pool, oid_queue, mutex, store, marks>>

\* Mutant: the object that was dropped stays valid.
drop_Valid(t) ==
    /\ Holds(t) /\ Obj(t).valid
    /\ db' = [db EXCEPT ![Obj(t).oid] = NoKey]
    /\ UNCHANGED <<last_oid, lastOID, cache, mutex, thread, marks>>

\* drop: the row is deleted, the object stays in the cache and is not valid.
drop(t) ==
    /\ Holds(t) /\ Obj(t).valid
    /\ db' = [db EXCEPT ![Obj(t).oid] = NoKey]
    /\ heap' = [heap EXCEPT ![thread[t].obj].valid = FALSE]
    /\ UNCHANGED <<last_oid, lastOID, pool, name_pool, oid_queue, mutex, thread,
                   marks>>

\* Chown: the object gets its new key and its row is replaced, which deletes a
\* row with the same unique key; then the object is unlocked and the index by
\* name is updated.
chown(t, k) ==
    LET x == Obj(t) IN
    /\ Holds(t) /\ x.valid /\ k # x.key
    /\ moves < MaxMoves /\ moves' = moves + 1
    /\ heap' = [heap EXCEPT ![thread[t].obj] =
                   [x EXCEPT !.key = k, !.lock = Nobody]]
    /\ db' = [o \in Oids |-> IF o = x.oid THEN k
                             ELSE IF kind = "named" /\ db[o] = k THEN NoKey
                             ELSE db[o]]
    /\ LET Again == {m \in Moving : thread[m].obj = thread[t].obj} IN
        /\ stray' = stray
              \cup UNION {{thread[m].key, thread[m].new, k} : m \in Again}
              \cup (IF x.key \in stray \cup twice THEN {k} ELSE {})
        /\ twice' = twice \cup
              (IF x.key \in twice \/ RowOf(k) # {} THEN {k} ELSE {})
    /\ thread' = [thread EXCEPT ![t] =
          [Idle EXCEPT !.at = "index", !.obj = thread[t].obj, !.key = x.key,
                       !.new = k]]
    /\ UNCHANGED <<last_oid, lastOID, pool, name_pool, oid_queue, mutex, kind,
                   wrapped>>

\* Mutant: the index by name is not updated.
update_cache_index_Skip(t) ==
    /\ thread[t].at = "index" /\ mutex = Nobody
    /\ thread' = [thread EXCEPT ![t] = Idle]
    /\ UNCHANGED <<store, cache, mutex, marks>>

\* The entry of the old key, whatever it is now, is erased, and then read to
\* make one of the new key if that is not in the index.  What is read is what
\* the freed memory has: the address, or something another thread put there.
update_cache_index(t) ==
    LET old == thread[t].key
        new == thread[t].new
    IN
    /\ thread[t].at = "index" /\ mutex = Nobody
    /\ \/ /\ name_pool[old] = NoAddress
          /\ UNCHANGED <<name_pool, stray>>
       \/ /\ name_pool[old] # NoAddress /\ name_pool[new] # NoAddress
          /\ name_pool' = [name_pool EXCEPT ![old] = NoAddress]
          /\ UNCHANGED stray
       \/ /\ name_pool[old] # NoAddress /\ name_pool[new] = NoAddress
          /\ \E read \in {name_pool[old], Wild} :
              /\ name_pool' = [name_pool EXCEPT ![old] = NoAddress, ![new] = read]
              /\ stray' = IF read = Wild THEN stray \cup {new} ELSE stray
    /\ twice' = IF name_pool[new] # NoAddress THEN twice \cup {new} ELSE twice
    /\ thread' = [thread EXCEPT ![t] = Idle]
    /\ UNCHANGED <<store, heap, pool, oid_queue, mutex, kind, wrapped, moves>>

\* updatebkstate and updatedkstate lock the pool while the thread has a VM.
updatebkstate(t) ==
    /\ kind = "vm" /\ Holds(t)
    /\ thread' = [thread EXCEPT ![t].at = "nested"]
    /\ UNCHANGED <<store, cache, mutex, marks>>

UpdatedBkstate(t) ==
    /\ thread[t].at = "nested" /\ mutex = Nobody
    /\ thread' = [thread EXCEPT ![t].at = "hold"]
    /\ UNCHANGED <<store, cache, mutex, marks>>

-----------------------------------------------------------------------------
(* Allocation and start.                                                   *)

\* The pools of named objects look for the name first, without locking.
CheckName(t, k) ==
    LET insert == [Idle EXCEPT !.at = "insert", !.key = k] IN
    \/ get_by_name(t, k, FALSE, insert)
    \/ /\ kind = "vm" /\ thread[t].at = "idle"
       /\ thread' = [thread EXCEPT ![t] = insert]
       /\ UNCHANGED <<store, cache, mutex, marks>>

NextOid == (IF lastOID = INT_MAX THEN -1 ELSE lastOID) + 1

\* An INSERT fails when its identifier or its unique key is taken.
Inserts(k) == db[NextOid] = NoKey /\ (kind = "named" => RowOf(k) = {})

\* Mutant: pool_control is not updated.
update_lastOID_Never(oid) == UNCHANGED last_oid

update_lastOID(oid) == last_oid' = oid

\* allocate: the new object is inserted and not kept.  A crash may come after
\* the INSERT.
allocate(t) ==
    LET ok == Inserts(thread[t].key) IN
    /\ thread[t].at = "insert" /\ mutex = Nobody
    /\ lastOID' = IF ok THEN NextOid ELSE NextOid - 1
    /\ db' = IF ok THEN [db EXCEPT ![NextOid] = thread[t].key] ELSE db
    /\ IF ok THEN update_lastOID(NextOid) ELSE UNCHANGED last_oid
    /\ wrapped' = (wrapped \/ lastOID = INT_MAX)
    /\ thread' = [thread EXCEPT ![t] = Idle]
    /\ UNCHANGED <<cache, mutex, kind, races, moves>>

Restarted ==
    /\ heap' = [a \in Addresses |-> Freed]
    /\ pool' = [o \in Oids |-> NoAddress]
    /\ name_pool' = [k \in Keys |-> NoAddress]
    /\ oid_queue' = <<>> /\ mutex' = Nobody
    /\ thread' = [t \in Threads |-> Idle]
    /\ lastOID' = last_oid
    /\ stray' = {} /\ twice' = {} /\ moves' = 0
    /\ UNCHANGED <<last_oid, kind>>

\* The daemon is killed and starts: init_cb reads the last identifier.
Crash == Restarted /\ UNCHANGED <<db, wrapped>>

\* The same between the INSERT and the update of pool_control.
CrashInAllocate ==
    /\ \E t \in Threads :
        /\ thread[t].at = "insert" /\ mutex = Nobody /\ Inserts(thread[t].key)
        /\ db' = [db EXCEPT ![NextOid] = thread[t].key]
    /\ wrapped' = TRUE
    /\ Restarted

-----------------------------------------------------------------------------
Step(t) ==
    \/ Granted(t) \/ Cleared(t) \/ unlock(t) \/ update_cache_index(t)
    \/ UpdatedBkstate(t) \/ allocate(t)

Next ==
    \/ \E t \in Threads :
        \/ Step(t) \/ drop(t) \/ updatebkstate(t)
        \/ \E o \in Oids : get(t, o)
        \/ \E k \in Keys : \/ get_by_name(t, k, TRUE, Idle)
                         \/ chown(t, k) \/ CheckName(t, k)
    \/ Crash \/ CrashInAllocate

Spec == Init /\ [][Next]_vars
-----------------------------------------------------------------------------
\* What a thread finds in the cache is what the table has: an object that no
\* thread works on has the key of its row, an object of a deleted row is not
\* valid, and a row has one valid object.  (When a new owner already has an
\* object of that name, the row of one of the two is overwritten; when it had
\* one that was deleted and is still cached, or the object is asked for by its
\* new name before the index has it, a second copy of it is loaded.)
CacheIsFresh ==
    ~wrapped => \A a \in Addresses :
        Live(a) /\ heap[a].valid /\ heap[a].key \notin stray \cup twice =>
        /\ heap[a].lock = Nobody => db[heap[a].oid] = heap[a].key
        /\ \A b \in Addresses : Live(b) /\ heap[b].valid
                                /\ heap[b].oid = heap[a].oid => a = b

\* An entry of either index leads to a live object, and to the right one: by
\* identifier always, by key once update_cache_index has run (drop leaves the
\* entry, replace and get delete it with the object, and chown changes the key
\* first and the entry after it has unlocked the object).  A key is left out only
\* once something happened to its object in between, or the erased entry read
\* something else (PoolSQL.cc:676): nothing repairs its entry then.
IndexIsSound ==
    /\ \A o \in Cached(pool) : Live(pool[o]) /\ heap[pool[o]].oid = o
    /\ \A k \in Keys \ stray : name_pool[k] # NoAddress =>
        /\ Live(name_pool[k])
        /\ heap[name_pool[k]].key # k =>
            \E t \in Moving : thread[t].key = k /\ thread[t].obj = name_pool[k]

\* A thread that waits in get for the mutex of a cached object, with the mutex of
\* the pool, waits for a thread that has the object and can unlock it, never for
\* the mutex of a dropped object that get by identifier left locked
\* (PoolSQL.cc:503): isValid is asked before lock.  Who has the object may itself
\* wait for the pool, in updatebkstate.  (A get of another row with the key of
\* such an object does not ask, and waits for ever.)
WaitsForHolder ==
    \A t \in Threads : thread[t].at = "wait" =>
        LET h == heap[thread[t].obj].lock IN
        \/ h = Nobody
        \/ h \in Threads /\ thread[h].at \in {"hold", "nested"}
                        /\ thread[h].obj = thread[t].obj

\* Every row has an identifier up to the last one, also after a crash: the next
\* allocation does not try an identifier that is taken.  (Not when identifiers
\* began again at 0, or a crash came between INSERT and update_lastOID.)
OidsAreCovered == ~wrapped => \A o \in Oids : db[o] # NoKey => o <= lastOID

=============================================================================
