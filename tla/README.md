# Verification of the OpenNebula 3.2.1 core

TLA+ models of the daemon `oned` and of the scheduler of this repository
(OpenNebula 3.2.1 with the additions of this tree: backups, recovery, disk
copies, on/off), checked with TLC on small instances, and theorems checked with
TLAPS.

Run TLC in this directory with `tlc -config <cfg> <module>`, and the proofs with
`tlapm <module>` for each of the eight modules `*Proofs`. `PROJECT.json` lists
components, runs, mutants, hazards and theorems, and maps every definition to
the source lines it models.

## 1. Inventory

`oned` is a set of managers. Each is a thread that serves a FIFO queue of
actions (`ActionManager`); managers talk to each other by `trigger`ing actions
and to external driver programs by writing lines to a pipe and reading the
answers in listener threads. Objects (VMs, hosts, networks, images, users) live
in pools that cache rows of a database; an object is locked by whoever works on
it. Users call XML-RPC methods, each in a thread of its own. The scheduler is
another process, and calls the same methods.

| Component (source) | State | Operations | Hard behaviour | What makes it correct |
|---|---|---|---|---|
| Life-cycle Manager (`src/lcm`) | `lcm_state` of each VM | one handler per action of `do_action` | handlers run on a state other threads may have changed since the action was triggered | no VM stuck, capacity exact, records consistent |
| Dispatch Manager (`src/dm`) | `state` of each VM | requests (run in the caller's thread) and five event handlers | requests check, unlock, then trigger | DONE is final; locks released on every path |
| VM requests (`src/rm`, VM part) | history and backup records | deploy, migrate, action, backup, recover, disk copy, template change | records are written before the LCM acts | a record stands for where the VM is |
| VM Manager (`src/vmm`) and driver | monitoring timer | one handler per operation; answers | answers in any order, late, or never (operation killed) | every failure is told to the LCM |
| Transfer Manager (`src/tm`) and driver | none | one handler per script; answers | the answer names the VM but not the script | the answer that ends a prolog is that prolog's |
| VM object, history, VM pool (`src/vm`) | the VM | add/copy history, leases, release | rollback of a failed insertion; fields no constructor sets | what was taken is given back once |
| Host shares (`src/host`) | `running_vms`, memory, CPU, disk | add, delete | spread over a dozen LCM handlers | equals the VMs placed there |
| Virtual networks (`src/vnm`) | leases in memory and in the DB, `n_used`, cursor | get, set, release, hold, free, add, remove | memory/DB order; iterators; several NICs, one lock each | an IP has one owner; none is lost |
| Image repository (`src/image`) | image states, running VMs | register, acquire, release, save, edit, delete; driver answers | several images per VM, answers after the image changed | an image in use is counted and not free |
| Object pools and locks (`src/pool`) | cache, indexes, replacement queue, two levels of mutexes | get, get by name, update, drop, allocate | lock order, invalid objects, index updated late | no deadlock, one object per row |
| Action queues (`src/common/ActionManager.cc`) | queue, timer | trigger, loop | the timer waits for an empty queue | no action lost, timer runs |
| Authorization Manager (`src/authm`) | table of pending requests | authenticate, authorise, notify, time out | time-out against a late answer, driver that dies | each request answered exactly once |
| Driver manager (`src/mad`) | drivers, pipes, listener | start, reload, finalise | listener against users of a driver | no use of a driver that is gone |
| Access control (`src/acl`, permissions) | rules in a table and two indexes | add, delete, evaluate, filter lists | bit masks, identifiers of -1 | decisions and lists = reference |
| Users, groups, requests (`src/um`, `src/group`, `src/rm`) | users, groups, sessions, permissions | log in, allocate, delete, chgrp, passwd, chauth, chmod, chown | one lock per step, decisions on copies | users and groups agree; rights hold when used |
| Information Manager (`src/im`), hosts, hooks (`src/hm`) | host states, last answers, states seen by hooks | timer, monitor, answers, enable, disable | ten-minute time-out, late answers, window of hosts | every host is asked; disabled stays; hooks run |
| Scheduler (`src/scheduler`) | its copy of pools | match, dispatch | capacity read before it is charged, calls that fail half way | no host over-committed, VMs placed in the end |
| Templates, SQL, drivers, CLIs and web front ends | text | parsing, formatting, I/O | few | out of scope, see section 7 |

## 2. Modules

| Module | Role |
|---|---|
| `VmLifeCycle` | One VM: requests, DM, LCM, VMM, TM, both drivers, the hypervisors, and the capacity it takes |
| `PlacementService` | Abstract: what hosts may rely on. Implemented by `VmLifeCycle` (`KeepsPlacement`) |
| `VmLifeCycleProofs` | Types, the history records that handlers read, and for plain users shares, domains, progress and `PlacementService` |
| `VirtualNetwork` | One network and the VMs that take and return its leases |
| `LeaseService` | Abstract: an IP is given only while nobody has it. Implemented by `VirtualNetwork` (`ServiceSpec`) |
| `ImageRepository` | Images, the Image Manager, its driver and the disks of VMs |
| `ObjectPool` | A `PoolSQL`: table, cache, indexes, replacement and both levels of mutexes |
| `AuthManager` | The Authorization Manager with its queue, timer and driver, and the listener of `MadManager` |
| `AccessControl` | ACL rules, permissions, lists, and the reference they are checked against |
| `Requests` | Authentication, authorisation, users, groups, permissions |
| `HostMonitor` | Hosts, the Information Manager, its driver and host hooks |
| `Scheduler` | Rounds of the scheduler, composed with the shares of the daemon |
| `VirtualNetworkProofs` | No lease is lost or shared, the counter, and that the network implements `LeaseService` |
| `ImageRepositoryProofs` | Counts and states of images under their VMs, persistent images, images that stay LOCKED, targets of disks |
| `AuthManagerProofs` | Each request has one who will answer it |
| `AccessControlProofs` | The indexes of rules, the decision on a request, and the lists |
| `SchedulerProofs` | Shares are exact and hosts not over-committed |
| `HostMonitorProofs` | One request under way per host, disabled hosts, hooks |
| `RequestsProofs` | Users against groups, sessions, changes of permissions |
| `MC*` | Constants of the instances that TLC checks, and refinement mappings |

Every module is translated from the code; where two modules speak of the same
code they take different sides of it. `VmLifeCycle` follows one VM through every
manager with its share, `Scheduler` follows several VMs through the shares
alone. `ImageRepository` and `VirtualNetwork` have the insertion and the end of
a VM as their callers. `Requests` takes the answer of the driver and of the
rules as given, which `AuthManager` and `AccessControl` are about.

### VmLifeCycle

State: `vm` (the object: `state`, `lcm_state`, `lcmstate`, last two history
records, states of the backup (`bk`), recovery (`rs`) and disk-copy (`dk`)
records it names, whether its leases and images were released), `charge` (what
it takes from each host's share), the queues `lcmQ`, `dmQ`, `vmmQ`, `tmQ`, the
triggers a request has still to do (`rm`), what the drivers have not answered
(`vmmOps`, `tmOps`), the hosts where a domain really runs (`domain`), and
`daemon`: `"blocked"` once a handler returned with the VM locked, `"dead"` once
one followed a null pointer.

A request, a handler or an answer holds the VM's lock from its first read to
its last write, so each is one action, with everything it triggers. The
exceptions are modelled as they are: `cancel`, `off` and `on` unlock before they
trigger (`Later`, then `RequestTriggers`). Two database writes in one handler
are one step, since nobody else reads the row; a crash is possible only between
handlers (see section 7).

* *Requests*: `deploy`, `migrate`, ..., `change` are
  `RequestManagerVirtualMachine` and the `DispatchManager` method it calls.
* *LCM*: each `*_action` is the handler of that name; `clean_up_vm` and
  `failure_action` are shared as in the code. `Refused` is a handler that only
  logs.
* *DM*: five event handlers. `SettleOrKeepLock` is the missing unlock of
  `failed_action` and `resubmit_action`.
* *VMM, TM*: `Operate` and `TransferWith` are what all handlers share: look for
  history and driver, write to the driver, or tell the LCM of the failure.
  Which failure is told, if any, is a parameter since handlers differ.
* *Environment*: operations run in threads of their own in the Ruby drivers, so
  they end and are answered in any order; `driver_cancel` kills one without an
  answer. `Hypervisor` performs an operation, `VmmProtocol` and `TmProtocol`
  deliver answers. `DomainDies` is a domain lost by its hypervisor.
* *Cache and restart*: `Evict` and `Restart` read the object again, with any
  value of `Garbage` in `lcmstate` and no pointers to records, as the
  constructor leaves them. `Restart` also empties queues and drivers.

The constant `Scenarios` names the lives a run considers: the requests users
make, what polls may report, and the bounds. A behaviour chooses one at the
start (`budget.scenario`).

### VirtualNetwork

State: `leases` and `db` (map and rows), `n_used`, `current` (the cursor),
`dangling` (the cursor is an erased iterator), and for each VM its NICs, its
phase and how many NICs the present loop has treated. A VM with several NICs
locks the network once per NIC, so NICs are separate steps. `RANGED` and `FIXED`
networks differ as the two classes do: one keeps only used leases, the other all
with a flag. Database errors are results the operation may meet (`"escape"`
before and `"exec"` after the statement is built). What a read through the
dangling cursor returns is a nondeterministic choice. The constant `Networks`
names the networks a run considers (type, leases, errors, requests on the
network itself, restarts); `net` is the one of the behaviour.

### ImageRepository

State: the images (`img`), the VMs with their disks (`vm`; its `status` says
whether it has a directory and whether it failed), how many operations of each
kind on each image the driver has not answered (`ops`), the request that is
allocating an image, and the images that a handler left locked (`left`). An operation holds
the lock of its image and is one step; a VM takes its disks one by one, and
gives them back one by one, so `disk_attribute`, `RollbackDisk` and
`ReleaseDisk` are a step for each disk. `register_image` and `save_disk` unlock
in the middle and are two. `protocol` applies an answer to CP, MV, MKFS or RM.
`DriverLost` (the driver dies, and is started again or not) and `Crash` lose what
was under way, since `recover` does nothing.
`delete_image` without a driver returns with the image locked, and
`disk_to_image` without an image to save to follows a null pointer; both are
modelled as they are.

### ObjectPool

State: rows (`db`), the last identifier in memory and in the table, objects in
memory (`heap`) with their mutexes, the two indexes, the replacement queue, the
mutex of the pool and what each thread does. A method that finds every mutex
free is one step; `get` that meets a locked object waits with the mutex of the
pool (`"wait"`), which is what makes deadlocks possible. `get` leaves an object
that became invalid meanwhile locked (`Lost`). `updatebkstate` asks for the pool
while its caller has the VM (`"nested"`). `chown` updates the index after the
object was unlocked; `update_cache_index` reads an entry it has erased, so that
the new entry has the address or anything else (`Wild`). `replace` spins when
every object is locked. The ghosts `stray` and `twice` collect the keys to which
something happened between a change of owner and the update of the index: of a
`stray` key the entry may be wrong or missing, of a `twice` key there may be a
second copy. The properties set these keys aside, and no others.

### AuthManager

State: the `AuthRequest` of each thread, the queue of the manager, what its loop
does, the table `auth_requests`, the driver (alive, lines it has, lines it
wrote), whether it is still in the vector of drivers, and what the listener
holds. A request lives on the stack of its thread; writing to one whose thread
has returned makes `daemon` `"undefined"`, as does the use of a driver that was
deleted. `authenticate_action` and `authorize_action` are three steps (find the
driver, `add_request`, `write`), because they take the lock of the table in
between only. `protocol` takes a request out of the table under the lock, and
`notify_request` writes to it without. `Broken` and `reload` are the listener on
an end of file or a line with a gap.

### AccessControl

A 64-bit word of a rule is the set of its type bits, the set of its scope bits
and its identifier; a mask is an intersection, and a negative identifier sets
all bits, as in C++. `match_rules`, `user_reqs`, `reverse_search` and `Listed`
are the code; `Granted` is the reference: what a rule says in words of users,
groups and objects. The state is the table, the two indexes and the
identifiers, under `add_rule`, `del_rule`, crashes and restarts. A `Rule` is any
three words; the default rules are assumed to be well formed, as the two that
the constructor adds are.

### Requests

A thread is at a point of a method; each point is one lock of one object. The
methods are those that change users, groups, the password and driver of a user,
and the owner, group and permissions of an object. `authenticate_internal`,
`_server` and `_external` check a token on a copy, and the session is set in a
later step. Ghost flags say when requests about one user crossed (`crossed`) and
when a password changed during a log-in (`outdated`): there the properties do
not hold, see section 4.

### HostMonitor

State: the state of each host, the order in which the table gives them, which of
them are due and late, the requests the drivers have not answered, the hosts the
timer has still to look at, the states that hooks remember, hooks that run, the
drivers that are loaded, and whether the listener still hears them (`deaf`).
`DriverDies` is the listener of `MadManager` on the end of a driver: it starts it
again, or erases it, after which its hosts go to ERROR when their turn comes. The
constant `Scenarios` names settings and bounds, of which a behaviour chooses one
(`now`). `Timer` is the query of `discover`, `timer_action` what is done with each host,
`protocol` an answer. Time is what the code asks of it: is the period over, are
ten minutes over, both since the last answer.

### Scheduler

State: the hosts of the daemon with their shares, the VMs and the order in which
they came, and `round`, the copies the scheduler works on. A scenario has either
VMs that come once, or a stream of them: then a VM that is over leaves its place
to a new one, which is last in `order`, without end. `ReadHosts`, `ReadVMs` (with
`match`), `Dispatch` and `EndRound` are its calls to the daemon, and anything may
happen between two of them: VMs end, are resubmitted, held or deployed by users, hosts are
disabled, removed or monitored. `deploy_action` is the LCM that charges a share
when it gets to the DEPLOY. REQUIREMENTS and the rights of the owner are a
constant set of hosts for each VM; RANK may be any expression, so any of the
hosts that have room is chosen.

## 3. Runs

All twelve pass; each property has a mutant of the code that it catches.

| Run | Shows |
|---|---|
| `life_plain` | Requests of plain users with failing drivers, missing files, dying domains and delayed polls, the same without `resume` and with polls that report the domain gone, and migrations that fail anywhere: exact capacity (`CapacityIsExact`), no VM left locked (`NotBlocked`), `DoneIsFinal`, and under fairness no VM stays for ever in a transient state (`Settles`) |
| `life_copied` | One backup or disk copy, whatever `lcmstate` holds, and migrations there and back: records of copies end (`RecordsSettle`), a RUNNING VM runs where its record says (`RunsWhereRecorded`) |
| `life_hard` | The lives of `life_plain`, one with a daemon that dies between any two steps, one with off, on, reboot and disk copies: `NotStuck`, `NoNullRecord`, `SingleDomain`, `BootAfterTransfer`, and `PlacementService` is implemented |
| `life_any` | Any three requests in any state, with the pool dropping the VM at any time: types, and the history records that handlers read without looking (`MigrationHasSource`, `HandlersHaveHistory`) |
| `vnet` | A RANGED and a FIXED network with database errors, holds, reloads and restarts, and a FIXED one whose leases come and go under the cursor: `LeaseIsOwned`, `UsedIsCounted`, `NoLeaseLost`, and `LeaseService` is implemented |
| `images` | Two images and two VMs with up to two disks: `UseIsCounted` (also after crashes no image is free under a VM), `PersistentIsPrivate`, `LockedIsBusy`, `TargetsDiffer` |
| `pool` | Two threads on a pool of named objects and on a pool of VMs, with replacement and crashes: `CacheIsFresh`, `IndexIsSound` (entries lead to the right live object), `WaitsForHolder` (a thread that waits for a cached object waits for a thread that has it), `OidsAreCovered` |
| `auth` | Two threads, a driver that answers late, never or dies, a timer: `OneHolder` (each waiting request is held by exactly one who will answer, an answered one by nobody), `Answered` |
| `acl` | All objects over two users, two groups, two types and two identifiers, for every set of rules that administrators can reach: `AuthorizedIsGranted`, `ListedIsUsable` |
| `requests` | Two threads, three requests, one crash: `MembershipAgrees`, `SessionIsCurrent`, `ChmodIsAllowed` |
| `hosts` | Three lives: two hosts, of which one has no driver, with late answers, four requests and one fault; three hosts of which the timer takes two at once and one is silent, with a fault; the same with a host that has no driver, and one request: `OneRequest`, `DisabledStays`, `HookRuns`, `AskedAgain` |
| `scheduler` | Two hosts and three VMs at a time, of which one suits no host and one needs more than the others; they come once, with a request of a user and a fault, or never stop coming, with a fault: `NotOvercommitted`, `Placed` |

### Bounds

* `life_*`: two hosts where a VM can move, one elsewhere; no handler treats a
  third specially. Two to four requests: deploy and migrate, migrate back, and
  give up is the longest chain that no shorter one contains, since guards look
  at the state and at the last two records only. Two polls under way are needed
  for a stale one; after one restart the queues are as in the first state. For
  the basic and the moving lives, whose polls report `a`, the theorems of section
  5 say that the bounds do not matter. Polls that report `d` are checked without
  `resume`, because with it `CapacityIsExact` fails after five requests (section
  4); without it a VM boots only once, and no poll is older than that. The life with a restart has `d`
  and migrations together, and only the properties of `life_hard` are asked of
  it.
* `vnet`: two IPs in the network and one outside it (or one more to add); two
  VMs of one or two NICs, so that they compete, one fails after its first NIC,
  and the cursor wraps.
* `images`: two images, so that a disk is saved to another image than its own;
  two disks, so that a VM fails half way; one edit or one fault. The VMs are
  symmetric.
* `pool`: two threads (a deadlock takes two), three identifiers and
  MAX_POOL_SIZE = 2, so that objects are replaced and identifiers begin again;
  three addresses, since two valid copies of a row and one replaced object are
  the most that matter; one change of owner. Threads and keys are symmetric.
* `auth`: two threads; four identifiers, so that answers to requests that were
  given up are still in the pipe when new ones are made; two deaths of the
  driver.
* `acl`: users and groups that a rule names and that it does not; four
  identifiers of rules, of which two are the default rules, and identifiers begin
  again. Two of the rules that are asked for are malformed.
* `requests`: methods are called in the three sets that share data (users and
  groups; passwords; the object): methods of two sets have no variable in
  common. Threads are symmetric.
* `hosts`: HOST_PER_INTERVAL is 2; with three enabled hosts the window leaves one
  out, and which one depends on the order of the last answers: `discover` in
  another order (its mutant) starves one. One host is silent, which takes one of
  the two places for ever; a second one would take both. Two requests under way
  for a host (`sent`) are considered with two hosts only, since hosts meet only
  in the window.
* `scheduler`: MAX_VM = 2, so that one hopeless VM leaves a place; hosts of
  sizes 1 and 2 and VMs that need 1, 1 and 2; MAX_DISPATCH = MAX_HOST = 2; one
  request of a user and one fault. In the stream there are three VMs at a time
  and no end of them: two pending VMs fill the window, and a third waits behind
  them.

Deadlock is checked in `vnet`. In the others the bounded requests, identifiers
or faults are used up, or the daemon stops, and the system rests; whether it may
rest there is what `NotStuck`, `RecordsSettle`, `LockedIsBusy`, `NotBlocked`,
`Answered`, `AskedAgain` and `Placed` say. `pool` has the deadlocks of section 4.

### Fairness

* `life_plain`: each manager's loop serves its queue as long as it is not empty,
  a request that has unlocked the VM goes on to its triggers, the drivers end
  each operation and their answers are read. Nothing is assumed of users, the
  monitoring timer, domains, the cache or restarts; an answer may always be a
  failure. That drivers answer is an assumption about programs outside the
  daemon: `oned` has no time-out for them.
* `hosts`: the timer fires, time passes, and drivers that are loaded, heard and not
  `Silent` answer. Hosts whose driver does not are covered by the ten-minute
  time-out, and `AskedAgain` is about all hosts with a driver as long as fewer
  than HOST_PER_INTERVAL are of this kind.
* `auth`: threads go on, time passes, the loop and the listener run. Nothing is
  assumed of the driver. The timer fires only when the queue is empty, so strong
  fairness is asked of `timer_action`: `pthread_cond_timedwait` is reached each
  time the queue is found empty, and returns at once when its time is over.
* `scheduler`: rounds go on, the LCM serves its queue, VMs end and hosts are
  monitored. Calls may fail (boundedly often), hosts may be disabled, and users
  do what they like.

## 4. What does not hold, and where the passing runs stop

Beyond what the properties say, and their exceptions, these do not hold. Each
can be seen in the model, by widening the constants of a run or by dropping the
exception of a property.

Life cycle:

* *An old answer ends a new prolog* (`TransferManagerDriver.cc:44`). The answer
  of a transfer names the VM and not the script. With the requests deploy and
  resubmit, the answer to the script that deletes the old images comes after the
  VM was deployed again and is taken for the end of the new prolog:
  `BootAfterTransfer` fails.
* *Leases and images are released twice* (`LifeCycleStates.cc:1302`,
  `DispatchManagerActions.cc:825`). `failure_action` does not look at the state:
  a failure queued behind a DELETE makes a DONE VM FAILED, and when it is
  deleted again its leases and images, which others may have by then, are
  released again (`vm.res = "again"`, reached with deploy and two finalize). So
  `DoneIsFinal` fails with `finalize`, and a share may become negative.
* `CapacityIsExact` with `migrate` and polls that report `d`: the request adds
  the record of the new host at once, a poll goes there, finds nothing, and
  `monitor_done_action` sets UNKNOWN in the middle of the migration; both hosts
  count the VM. With polls that report `d` and the requests deploy, suspend,
  resume and two more suspends: a poll of the first run that says `d` is
  answered in the second and makes the VM UNKNOWN while its SAVE is under way, a
  later one that says `a` makes it RUNNING, so that the last SUSPEND is served
  as well; its SAVE fails after the first gave the capacity back, and the VM is
  RUNNING and counted nowhere. (`RunsWhereRecorded` fails with one suspend
  less.) With suspend and migrate together: a SUSPEND that still waits when a
  migration is requested is handled once the record of the new host is there,
  its SAVE goes to that host, fails, and the VM is RUNNING with its capacity at
  the old host and its record at the new one. With `off` and `change` the share
  keeps the memory the VM had before; with `backup`, a failure during the backup
  frees it twice. Polls that report `e` or `p` twice give capacity back twice.
* `NotBlocked` when `lcmstate`, which no constructor sets, happens to be
  PROLOG_BACKUP at the first boot: the TM is sent a script to delete a backup
  that was never taken, it is still under way during the epilog, both fail, and
  the second FAILED finds the VM settled. `NotBlocked` also fails with
  `restart`: two deployments under way, the failure of one and the success of
  the other, and `failed_action` returns with the VM locked.
* `NoNullRecord` with `recover` and `finalize` before the first deployment.
* A second backup, or a VM dropped from the cache during one, leaves a record
  under way for ever; so does a recovery during a backup. On hypervisors other
  than Xen a failed disk copy, and with any hypervisor a failed
  `delete_backup_fail` script, leave the VM in a transient state.
* A daemon that dies after a request added the record of a migration, and before
  the LCM acted, starts with a VM recorded on a host where it is not.

Networks:

* *A rollback frees the lease of another VM* (`VirtualMachine.cc:308`). When an
  insertion fails, the IP of every NIC with NETWORK_ID and IP is released, given
  or not. `VirtualNetwork.h:135` says of `release_lease` "Release previously
  given lease". With NICs that name the network by NETWORK_ID (`by = "id"`),
  `LeaseIsOwned` and `UsedIsCounted` fail.
* `LeaseIsOwned` with `remove` on a FIXED network: the cursor is left on an
  erased lease, which the next search may give (`FixedLeases.cc:196`).

Images: an image deleted without a driver stays locked, `disk_to_image` without
an image to save to stops the daemon (`ImageManagerActions.cc:163`), and a crash
leaves images LOCKED and counts too high, since `recover` does nothing. A disk
saved as a DATABLOCK, or an image waiting for its disk that is changed to one
before it is registered, has a file system made at registration
(`ImageManagerActions.cc:405`): it is READY long before the disk is moved to it,
VMs may acquire it, and the answer to the later MV makes it READY under them.
With `DATABLOCK` in `Types`, `UseIsCounted` fails. An image that an
administrator registers with SOURCE = "-" stays LOCKED: with such a template
`LockedIsBusy` fails. The first target letter of a DATABLOCK is `e`, where `Image.h:283` says "prefix +
(d + index): hdd, hde, hdf...".

Pools:

* The pool of VMs blocks when a backup is recorded while another thread waits for
  the VM (`PoolSQL.cc:291`): in the model one thread is `"nested"` and one at
  `"wait"`. No property says that it does not.
* A `get` by identifier that waited for an object dropped meanwhile leaves it
  locked (`PoolSQL.cc:503`). Nobody waits for it through the indexes, since
  `isValid` is asked before `lock` (`WaitsForHolder`), but it is never replaced,
  and when a new object of the same name and owner is loaded by identifier, `get`
  locks the old one without asking (`"clear"`): it waits for ever, with the mutex
  of the pool.
* `update_cache_index` erases the entry of the old key and then reads
  `index->second` through the erased iterator (`PoolSQL.cc:671-676`), which is
  undefined: the new key may lead anywhere. Even when it reads what was there: the
  entry of an object that was replaced between the change of owner and the update
  points to freed memory and is given to the new key, as is that of another
  object of the old key that was loaded meanwhile.
* A crash between the INSERT of a row and the update of `pool_control`
  (`PoolSQL.cc:130`) leaves a row past the last identifier: the next allocation
  tries it and fails.

A new owner who has an object of
that name already: REPLACE with a UNIQUE key deletes one of the two rows. An
object loaded between a change of owner and the update of the index has a wrong
entry or a second copy.

Rules: `malformed` looks at the scope and the identifier of the word of users and
at no other bit (`AclRule.cc:33`): a rule with a type bit or NONE there, which
`oneacl` never writes but a call of `one.acl.addrule` may, is accepted and listed,
and `authorize` never finds it, so `AuthorizedIsGranted` fails with such a rule in
`Asked`. The daemon that makes the tables on its first start has the default rules
twice in the index by user (`AclManager.cc:65` inserts and `start` selects them
again), so that a default rule that is deleted goes on to grant until the next
start. `add_rule` returns `lastOID` after it unlocked.

Users: two requests that change the group of one user, or the deletion of the
group before the user joins it (`//TODO Rollback`, `RequestManagerChown.cc`),
leave users and groups in disagreement, as does a crash in between. A session
may be set for a password that was changed during the log-in.

Authorization: a driver that cannot be started again is erased from the vector
while its descriptor stays with the listener, which then uses a position that is
not there or, with several drivers, reloads a healthy one (`MadManager.cc:319`).
A line that pauses for 25 ms is taken for the death of its driver.

Drivers: `listener` keeps the descriptors it had. When it starts a driver again
whose new pipe has another number, or erases one, a closed descriptor stays in the
set, `select` fails with EBADF from then on (`MadManager.cc:250`), and no driver
of that manager is heard any more (`deaf` of `HostMonitor`). `recover` of the drivers does not ask again for what
was lost.

Hosts: as many hosts as HOST_PER_INTERVAL that never answer keep their places
in the window of `discover`, and the others are never asked again: with
`HostLimit` 1 in the `hosts` run, and the condition on `Stuck` dropped,
`AskedAgain` fails. `oned.conf:13` calls it only
the "Number of hosts monitored in each interval". The ten minutes count from the
last answer and not from the request, so a host that never answered is asked
again at every second timer, and the late answer to the first request is taken for
the answer to the second.

Scheduler: a round that begins while a DEPLOY of the last one is still queued
gives the same place twice, as do deployments by users, which the daemon does not
check. MAX_VM pending VMs that no host can run keep all others from being seen.
`get_host` gives room to the first VM that fits (`VirtualMachineXML.cc:153-175`)
and nothing is kept for one that does not: a large VM waits for ever when smaller
ones keep coming and there is never as much room at once. (Without `IsLeast` in
`Placed` the stream of the `scheduler` run shows it: the VM that needs both units
of the large host never runs.) So no VM has a promise that it will run but those
that need no more than the others that suit the same hosts.
A host may be removed while a DEPLOY to it is queued (`HostPool::drop` asks only
the share).

## 5. Proofs

The theorems hold for all values of the constants that the modules' assumptions
allow: any sets of hosts, VMs, threads, users, images, networks and requests,
any sizes and bounds. The assumptions are about shapes (sets are finite, limits
are natural numbers, templates have the attributes of templates). Where a
theorem needs more, it says so as a hypothesis; each of these hypotheses stands
for a flaw of section 4 and is needed because of it.

### VmLifeCycleProofs: types

`TypeCorrect == Spec => []TypeOK`. `TypeOK` says that every variable has its
type: in particular that the managers send each other only actions their
`do_action` knows, that operations go only to hosts in a history record, and
that the VM is only ever in a known pair of states. It is inductive by itself.

The argument follows the program: one lemma per manager (`RequestsType`,
`LifeCycleManagerType`, `DispatchManagerType`, `VirtualMachineManagerType`,
`TransferManagerType`, `HypervisorType`, `VmmProtocolType`, `TmProtocolType`,
`OutsideType`), each with one case per handler, resting on lemmas about what
the handlers share: shares after `add_capacity` and `del_capacity`
(`ShareType`), VM objects after `add_history`, `Mark`, `Released`
(`HistoryType`, `MarkType`, `ReleasedType`), and queues after a `Head` is taken
or a list appended (`LcmPopType`, `Queues`, `LongQueues`).

### VmLifeCycleProofs: history records

`MigrationSource == Spec => []MigrationHasSource` and
`HistoryFound == Spec => []HandlersHaveHistory`. Neither is inductive: nothing
in them says why a VM that has no record yet cannot be asked to run, or why
one with a single record cannot be found migrating. Both follow from
`HistoryInv`, which is (given `TypeOK`):

* a VM with no record is `Fresh`: PENDING, HOLD or DONE, with nothing in the
  queues but RECOVER, the PROLOG_FAILURE it ends in, and the two scripts these
  lead to, which the TM refuses for want of a record. `Fresh` has to list this
  much because `recover` is accepted in any state;
* a VM with no previous record `Stays`: it is in no state of a migration, and
  neither MIGRATE nor LIVE_MIGRATE waits in the LCM's queue. The queue is part
  of it because the request adds the record long before the handler looks.

Records are never taken away: `add_history` moves the present record to
`prev`, and `cp_previous_history` (a failed migration) copies `prev`, which is
why the second part is needed for the first. The steps of the other managers
and of the drivers are all `Stationary`: they change no record and ask for no
migration, so their lemmas are about answers (`AnswersStay`) and give-ups
(`OperateKeeps`, `TransferKeeps`). The theorems cover crashes, restarts and
late answers, which are steps of `Next` like the others.

### VmLifeCycleProofs: plain users

Under the hypothesis `PlainUsers`, for any hosts, any number of requests, polls,
deaths of domains, failures and restarts, and on any hypervisor:

* `PlainSafety`: `SingleDomain` and `BootAfterTransfer`, also after restarts;
* `PlainProgress`: `NotBlocked`, `NoNullRecord` and `NotStuck` (the last speaks of
  a daemon that was not started again);
* `PlainAccounting`: `CapacityIsExact` and `RunsWhereRecorded`, as long as the
  daemon was not started again. A restart loses what the queues held, and then
  neither holds;
* `PlainDone`: `DoneIsFinal`;
* `PlainPlacement`: the refinement `KeepsPlacement`, also after restarts.

`PlainUsers` says of every scenario: the requests are deploy, hold, release,
resume, reboot, and either the migrations or those that end a run (suspend, stop,
shutdown, cancel), not both; polls report `a` if anything; and `lcmstate`, which
no constructor sets, is not one of the two values `deploy_success_action` looks
for. Without any one of these some of the properties fail: section 4 has the
behaviours.

None of the properties is inductive; they all follow from `PlainInv`. It says
that at any time there is *one* piece of work for the VM, or none (`At(w, e)`: it
is event `e`, and it is in the queue of the LCM, DM, VMM or TM, with the
hypervisor or with the transfer driver), besides requests that wait for the LCM
and polls and reboots that come and go; and that the VM, the shares and the
domains are what that piece of work calls for (`Stage`):

| Stage | The work | The shares count the VM | The domain |
|---|---|---|---|
| `Resting` | none, the VM is not ACTIVE | nowhere | nowhere |
| `Starting` | DEPLOY or RESTORE for the LCM | nowhere | nowhere |
| `Steady` | none, the VM is RUNNING | at its host | there |
| `AskedToMove` | a migration for the LCM | at the host it leaves | there |
| `Operating` | an operation of the hypervisor, to be done, done, or told | at its host, during a migration at both | before or after the operation |
| `Transferring` | a prolog or an epilog | at its host | nowhere |
| `Ending` | the DM is told | nowhere | nowhere |
| `Lost` | none: a restart lost it | anything | on one host at most |

The strengthening is needed because handlers trust the event they get: the
handler of DEPLOY_SUCCESS frees the host the VM came from if the state says so,
and only the stage says that this event cannot come twice, or late. The requests
that wait (`Waiting`) are why movers and enders are kept apart: they are handled
in the state the VM has by then, and are harmless in all of these only if no
record was added in between.

The proof has one lemma for each handler of the LCM (what a stage becomes), of the
DM, VMM and TM, for requests, answers and the environment, and rests on lemmas
about queues that hold one event among others (`None`, `One` after a head is
taken, an element removed or appended) and about shares (`Load` after
`add_capacity` and `del_capacity`).

### VirtualNetworkProofs

* `NetworkType` (`TypeOK`) and `LeasesNotLost` (`NoLeaseLost`) hold for every
  network. `NoLeaseLost` needs `VnetInv`: a NIC that was leased has its
  NETWORK_ID (`NicsAreSet`), memory and database agree and each used lease has a
  NIC that will give it back (`WillBeGiven`), also in the middle of a rollback.
* `LeasesAreOwned` (`LeaseIsOwned`), `UsedLeasesAreCounted` (`UsedIsCounted`) and
  the refinement `NetworkIsLeaseService == Spec => ServiceSpec` have the
  hypothesis `ByNetwork`: templates name the network by NETWORK. (By NETWORK_ID,
  the rollback frees leases of others.) The counter also needs that on a FIXED
  network no statement fails before it is built, since `update_lease` returns
  there before it counts.

`LeaseInv` adds to `VnetInv` that NICs not leased yet have no NETWORK_ID
(`NotYetSet`: so the rollback skips them), and that a leased NIC's IP is recorded
as its VM's in memory and in the database and belongs to no other NIC (`Owned`).
`Owned` alone is not inductive, because a release would free an IP that a second
NIC of the same VM still has. The refinement is proved step by step: a step on a
NIC that gets an IP is an `Acquire` of `LeaseService`, and every other step takes
no IP and is a `GiveBack` (`Shrinks`).

### ImageRepositoryProofs

`UsesAreCounted` (`UseIsCounted`), `PersistentImagesArePrivate`
(`PersistentIsPrivate`), `LockedImagesAreBusy` (`LockedIsBusy`) and
`TargetsAreDifferent` (`TargetsDiffer`), under the hypothesis that users give no
image the type DATABLOCK by chtype or "save as"; images may be registered as
DATABLOCK. `LockedImagesAreBusy` also excludes templates with SOURCE = "-"
(`Sources`). `TargetsAreDifferent` needs the hypothesis only because it rests on
the same invariant.

None is inductive. `ImageInv` has, for each image:

* `Work`: at most one of these will make the image READY, and until it does the
  image is LOCKED or gone: one operation of the driver, the request that
  allocates it, or one disk to be saved to it. Without this an answer of the
  driver could make an image READY under a VM; it is what the DATABLOCK case
  breaks;
* `Counted`: `running` against the disks that hold the image. A deleted image
  may still be held, since it may be acquired between the request and the answer
  of the driver; identifiers are not used again, so that nobody else is counted
  there (`Allocated`);
* `Private`: the disk remembers the persistence its image has, so that "save as"
  is refused for exactly the persistent ones: of those `release_image` takes the
  file back and does not go on to save, and the new image would stay LOCKED;
* `Present`, `Waits`, `Registers`: who unlocks a LOCKED image.

The lemmas are about the set of disks that hold an image (`HoldersAdded`,
`HoldersRemoved`, `HoldersShrink`), about what a VM gains and leaves in a step
(`DiskAdded`, `DiskLeft`, `DiskSavedAs`), and about a step that changes one image
and leaves the others (`OneImage`, `ImageKept`). `LetterInv` says for a VM with
its disks which letter each type has, and that those of datablocks are below
their number.

### AuthManagerProofs

`RequestHeldOnce` (`OneHolder`) and `OnlyDriverMissed == Spec => [](mads => daemon = "up")`: no
thread writes to a request that is gone while the driver is in the
vector. `AuthInv` says that pointers are not repeated in the queue or the table
(`Distinct`), that a request waits iff it is in exactly one of queue, loop, table
and listener (`Held`), that between `add_request` and `write` the driver cannot
know the identifier (`Written`: otherwise an answer could overtake the write and
the request's thread return), and that identifiers suffice (`Enough`).

### AccessControlProofs

* `AccessCorrect == Spec => []AccessInv`: no rule has two rows and none is
  malformed, the index by identifier is the table, and the index by user has each
  rule of the table, and has it once and nothing else unless the daemon made the
  table itself (`fresh`). Crashes between the INSERT and the update of
  `pool_control`, identifiers that begin again and refusals are steps of `Next`.
* `AuthorizedCorrect` (`AuthorizedIsGranted`): for any users, groups, objects and
  rules, the decision is what permissions and rows say. From `AccessInv` and
  lemmas about the words: which words a mask leaves (`MaskPicks`), when a rule
  matches an object (`MatchObject`) or a request without one (`MatchNone`), for
  whom a rule is looked up (`UserFound`), and what the rules made of permissions
  allow (`PermissionsAllow`, `NothingAllowed`). The hypothesis `UserWords` is that
  words of users have the form `oneacl` gives them (section 4).
* `ListedCorrect` (`ListedIsUsable`): the lists and the decision agree whatever
  the index holds, with no hypothesis.

### SchedulerProofs

`HostsNotOvercommitted` (`NotOvercommitted`) and `SharesAreExact`: the share of a
host is the memory and the number of VMs whose DEPLOY was handled. `SchedInv`
relates three quantities: the share (active VMs), what was promised (active and
queued VMs) and the scheduler's copy, which is never less than what was promised
unless a round began before a DEPLOY was charged (`CopyIsEnough`). Sums of memory
are cardinalities of sets of units, so that they can be reasoned about without
induction (`UnitsOf`).

### HostMonitorProofs

`OneRequestUnderWay` (`OneRequest`), `DisabledHostStays` and `StateHookRuns` (the
action properties `DisabledStays` and `HookRuns`). `HostInv`: how many requests
are under way in each state of a host (`AnswersAwaited`), and that hooks remember
the state the host has (`HooksKnow`).

### RequestsProofs

`UsersAndGroupsAgree` (`MembershipAgrees`), `SessionsAreCurrent`
(`SessionIsCurrent`) and `ChmodsAreAllowed` (the action property
`ChmodIsAllowed`). `GroupInv` says for each user either that it is settled or how
far the one request that changes it has come (`Moving`, one case for each point
between two locks), and that identifiers in requests were allocated before.
`SessionIsCurrent` is inductive given its types and that identifiers are new when
they are allocated; `ChmodInv` says that a request past its check asks only for
bits it has the right to.

### Only model-checked

* Liveness (`Settles`, `AskedAgain`, `Answered`, `Placed`): temporal logic under
  fairness and ENABLED are beyond the prover.
* What recursive definitions compute for all inputs.
* `RecordsSettle` of `VmLifeCycle`, which is about backups, and its other
  properties for users who are not plain: they hold for the requests of their
  scenarios and not for all (section 4).
* `CacheIsFresh`, `IndexIsSound`, `WaitsForHolder` and `OidsAreCovered` of
  `ObjectPool`: no obstacle in principle.

## 6. Plan

Theorems, in this order:

1. `OidsAreCovered` and `IndexIsSound` for `ObjectPool`.
2. The life cycle with polls that report `d` and without `resume`, the second kind
   of life in `life_plain`: a stage for UNKNOWN and one for stale polls.
3. `RecordsSettle` for one copy at a time.

Models: several drivers in one `MadManager` (positions in its vector), hooks of
VMs, and the images of a VM composed with its life cycle.

## 7. Not modelled, and why

* Database writes inside one handler are one step with the handler.
  `done_action` writes DONE before it releases leases; a crash in between is in
  `VirtualNetwork` (phase `"releasing"`), not in `VmLifeCycle`.
* More than one VM in `VmLifeCycle`: VMs meet in shares (`Scheduler`), in leases
  (`VirtualNetwork`), in images (`ImageRepository`) and in queues, where actions
  on others change nothing.
* CPU and disk of shares: same steps as memory.
* Contents of transfer scripts, driver messages, monitoring figures, XML, log
  texts, and templates with their parsers (flex and bison, most of it
  generated): data and formatting. Expressions of REQUIREMENTS and RANK are
  constants of `Scheduler`.
* `CHECKPOINT`, `VirtualMachineManager::on_action` (which nobody triggers), the
  parsing of addresses, bridges and VLANs.
* Double unlocks (deploy, migrate and backup of `DispatchManager`, after which the
  requests unlock again: `RequestManagerVirtualMachine.cc:335`, 407, 671, 725 and
  789) and the mutex that `bkmutex` declares as a local. To unlock a mutex that is
  free, or that another thread has by then, is undefined: the latter may let a
  third thread in. The model has one thread at a time on an object, so what the
  runs and theorems say holds only as long as the second unlock does nothing.
* `VmLifeCycle.timer_action` is one step: it selects the VM and asks for its poll.
  In the code the SELECT of `get_running` (`VirtualMachineManager.cc:1579`) comes
  first, and each VM is then locked and polled without another look at its state
  (1586-1637): a VM that left its state in between may be polled all the same. The
  other delay, of the answer to a poll against the steps of the VM, is modelled.
* The listener that hears no driver after it started one again (section 4) is in
  `HostMonitor`; in `ImageRepository` and `VmLifeCycle` it is a driver that does
  not answer, which safety allows and the fairness of `life_plain` excludes; in `AuthManager` the listener goes on. There the
  threads are answered by the time-out with or without it.
* `host_states` of `HostHook` is one static map without a lock of its own
  (`HostHook.cc:87-124`): threads with different hosts may use it at once, which is
  undefined. `HostMonitor` makes each update of a host one step. A `PoolSQL::update`
  whose database write fails skips the hooks with the state already changed in
  memory (`PoolSQL.h:181-186`); `HostMonitor` has no database errors, so `HookRuns`
  is for writes that succeed. `drop` does not ask that the host has no VMs
  (`HostPool.h:163`), which adds behaviours.
* Limits of the scheduler that are 0 or less mean no limit (`PoolXML.h:94`,
  `Scheduler.cc:534`): the same as a limit that is not reached.
* Quotas: kept by the Ruby authorization driver, outside the daemon.
* SQL back ends, command line, Sunstone, cloud APIs, oZones, accounting, onedb
  and the driver scripts: I/O, formatting or clients.
