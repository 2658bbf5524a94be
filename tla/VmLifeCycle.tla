---------------------------- MODULE VmLifeCycle ----------------------------
(***************************************************************************)
(* The life of one Virtual Machine: the user's requests (Request Manager   *)
(* and Dispatch Manager), the Life-cycle Manager, the Virtual Machine and  *)
(* Transfer Managers with their drivers, and the capacity the VM takes     *)
(* from the hosts.                                                         *)
(*                                                                         *)
(* Each manager is one thread that serves its own queue of actions; the    *)
(* requests run in threads of their own and the answers of the drivers in  *)
(* listener threads.  All of them lock the VM while they work on it, so a  *)
(* request, a handler or an answer is one step, and the queues are the     *)
(* only place where the managers get out of step with one another.  The    *)
(* queues hold the actions on this VM: those on other VMs may be between   *)
(* them, but change nothing here.                                          *)
(***************************************************************************)
EXTENDS Integers, Sequences, FiniteSets, SequencesExt

CONSTANTS
    Hosts,         \* Identifiers of hosts
    NoHost,        \* Not a host: the VM has no history record
    Xen,           \* TRUE iff XM_LIST is "xen"
    MayEvict,      \* TRUE iff the pool may drop the VM from its cache
    Scenarios      \* The lives considered: what happens in each, how often

AllCommands ==
    {"deploy", "migrate", "live_migrate", "shutdown", "hold", "release",
     "stop", "cancel", "off", "on", "suspend", "resume", "restart", "reboot",
     "finalize", "resubmit", "backup", "recover", "backupdisk", "change"}

VmState == {"PENDING", "HOLD", "ACTIVE", "STOPPED", "SUSPENDED", "DONE",
            "FAILED"}

LcmState ==
    {"LCM_INIT", "PROLOG", "BOOT", "RUNNING", "MIGRATE", "SAVE_STOP",
     "SAVE_SUSPEND", "SAVE_MIGRATE", "PROLOG_MIGRATE", "PROLOG_RESUME",
     "EPILOG_STOP", "EPILOG", "SHUTDOWN", "CANCEL", "FAILURE", "CLEANUP",
     "UNKNOWN", "OFF", "OFF_BACKUP", "OFF_RECOVER", "OFF_BACKUPDISK",
     "PROLOG_BACKUP", "PROLOG_RECOVER", "PROLOG_BACKUPDISK",
     "PROLOG_RECOVER_DECOMPRESS", "DELETE_BACKUP_FAIL", "DELETE_RECOVER_FAIL",
     "RECOVER_DECOMPRESS_FAIL"}

Reason == {"NONE", "ERROR", "STOP_RESUME", "USER", "CANCEL"}

\* The values of vm->lcmstate that deploy_success tells apart.
LastState == {"OTHER", "PROLOG_BACKUP", "PROLOG_RECOVER_DECOMPRESS"}

\* The state of the record of a backup, a recovery or a disk copy; "NONE": the
\* VM object names no record, its pointer and its id are what memory had.
RecordState == {"NONE", "START", "SUCCESS", "FAIL"}

\* A history record: where the VM is (or was) placed, and why it left.
History == [hid : Hosts \cup {NoHost}, reason : Reason]
NoHistory == [hid |-> NoHost, reason |-> "NONE"]

\* A scenario: the requests users make, the states a POLL may report, whether
\* a manager may fail to find a driver or a file, the values of vm->lcmstate,
\* which no constructor sets, and the bounds on the requests, on the polls of
\* the monitoring timer, on the domains the hypervisor loses and on the times
\* the daemon is started again.
Scenario ==
    [commands : SUBSET AllCommands, reports : SUBSET {"a", "p", "e", "d"},
     errors : BOOLEAN, garbage : SUBSET LastState, cmds : Nat, polls : Nat,
     deaths : Nat, restarts : Nat]

ASSUME LifeCycleAssumption ==
    /\ NoHost \notin Hosts
    /\ Xen \in BOOLEAN /\ MayEvict \in BOOLEAN
    /\ \A s \in DOMAIN Scenarios : Scenarios[s] \in Scenario

VARIABLES
    vm,        \* The VirtualMachine object, which is also what the DB has
    charge,    \* What the VM takes from the share of each host
    lcmQ, dmQ, vmmQ, tmQ,   \* The action queues of the managers
    rm,        \* Triggers a request will do after it unlocked the VM
    vmmOps,    \* Operations the hypervisor driver has not answered
    tmOps,     \* Transfer scripts the transfer driver has not answered
    domain,    \* The hosts whose hypervisor runs a domain of the VM
    daemon,    \* "up"; "blocked": the VM's mutex is never unlocked; "dead"
    budget     \* The scenario, and what is left of its bounds

queues  == <<lcmQ, dmQ, vmmQ, tmQ>>
drivers == <<vmmOps, tmOps, domain>>
vars == <<vm, charge, lcmQ, dmQ, vmmQ, tmQ, rm, vmmOps, tmOps, domain, daemon,
          budget>>

Commands == Scenarios[budget.scenario].commands
Polls    == Scenarios[budget.scenario].reports
Errors   == Scenarios[budget.scenario].errors
Garbage  == Scenarios[budget.scenario].garbage

Init ==
    /\ \E s \in DOMAIN Scenarios :
        budget = [scenario |-> s, cmds |-> Scenarios[s].cmds,
                  polls |-> Scenarios[s].polls, deaths |-> Scenarios[s].deaths,
                  restarts |-> Scenarios[s].restarts]
    /\ \E g \in Garbage :
        vm = [state |-> "PENDING", lcm |-> "LCM_INIT", lcmstate |-> g,
              cur |-> NoHistory, prev |-> NoHistory, mem |-> 1,
              bk |-> "NONE", rs |-> "NONE", dk |-> "NONE", orphan |-> FALSE,
              res |-> "held"]
    /\ charge = [h \in Hosts |-> [vms |-> 0, mem |-> 0]]
    /\ lcmQ = <<>> /\ dmQ = <<>> /\ vmmQ = <<>> /\ tmQ = <<>>
    /\ rm = <<>> /\ vmmOps = <<>> /\ tmOps = <<>>
    /\ domain = {}
    /\ daemon = "up"

HasHistory  == vm.cur.hid # NoHost
HasPrevious == vm.prev.hid # NoHost
Is(s, l)    == vm.state = s /\ vm.lcm = l
Running     == Is("ACTIVE", "RUNNING")

\* HostPool::add_capacity and del_capacity, with the requirements the VM's
\* template has now.
add_capacity(c, h) ==
    [c EXCEPT ![h] = [vms |-> @.vms + 1, mem |-> @.mem + vm.mem]]
del_capacity(c, h) ==
    [c EXCEPT ![h] = [vms |-> @.vms - 1, mem |-> @.mem - vm.mem]]

\* Mutant: the record of the host before is forgotten.
add_history_NoPrevious(v, h) ==
    [v EXCEPT !.cur = [hid |-> h, reason |-> "NONE"]]

\* add_history, cp_history and cp_previous_history on a VM object v.
add_history(v, h) ==
    [v EXCEPT !.prev = IF v.cur.hid # NoHost THEN v.cur ELSE @,
              !.cur = [hid |-> h, reason |-> "NONE"]]
cp_history(v) == add_history(v, v.cur.hid)
cp_previous_history(v) == add_history(v, v.prev.hid)

\* release_network_leases and release_disk_images: leases and images go back
\* by their name, whoever has them, so a second time is one too many.
Released(v) == [v EXCEPT !.res = IF @ = "held" THEN "released" ELSE "again"]

\* updatebkstate and updatedkstate, by the id the VM has of the record.
Mark(r, s) == IF r = "NONE" THEN r ELSE s

\* A record that is under way and that the VM object no longer names.
Forget(v, r) == [v EXCEPT !.orphan = @ \/ r = "START"]

-----------------------------------------------------------------------------
(* Requests: RequestManagerVirtualMachine and DispatchManagerActions.       *)
(* A request that finds the VM in the wrong state changes nothing.          *)

Request(c) ==
    /\ daemon = "up"
    /\ c \in Commands
    /\ budget.cmds > 0
    /\ budget' = [budget EXCEPT !.cmds = @ - 1]

\* What a request leaves: the VM object, actions for the LCM and the TM.
Do(v, l, t) ==
    /\ vm' = v
    /\ lcmQ' = lcmQ \o l
    /\ tmQ' = tmQ \o t
    /\ UNCHANGED <<rm, charge, dmQ, vmmQ, drivers, daemon>>

\* Mutants: no record of the host; a VM that is deployed already.
deploy_NoRecord(h) ==
    /\ Request("deploy")
    /\ vm.state = "PENDING"
    /\ Do([vm EXCEPT !.state = "ACTIVE"], <<"DEPLOY">>, <<>>)
deploy_NoCheck(h) ==
    /\ Request("deploy")
    /\ vm.state \in {"PENDING", "ACTIVE"}
    /\ Do([add_history(vm, h) EXCEPT !.state = "ACTIVE"], <<"DEPLOY">>, <<>>)

deploy(h) ==
    /\ Request("deploy")
    /\ vm.state = "PENDING"
    /\ Do([add_history(vm, h) EXCEPT !.state = "ACTIVE"], <<"DEPLOY">>, <<>>)

\* The record of the new host is added before the LCM has seen the request.
CanMigrate == Running /\ ~(HasPrevious /\ vm.prev.reason = "NONE")

migrate(h) ==
    /\ Request("migrate")
    /\ CanMigrate
    /\ Do(add_history(vm, h), <<"MIGRATE">>, <<>>)

live_migrate(h) ==
    /\ Request("live_migrate")
    /\ CanMigrate
    /\ Do(add_history(vm, h), <<"LIVE_MIGRATE">>, <<>>)

\* A backup and a disk copy have a new record; a recovery names any old one.
backup ==
    /\ Request("backup")
    /\ Running
    /\ Do([Forget(vm, vm.bk) EXCEPT !.bk = "START"], <<"BACKUP">>, <<>>)

backupdisk ==
    /\ Request("backupdisk")
    /\ Running
    /\ Do([Forget(vm, vm.dk) EXCEPT !.dk = "START"], <<"BACKUPDISK">>, <<>>)

recover ==
    /\ Request("recover")
    /\ \E v \in {vm, Forget(vm, vm.rs)} :
            Do([v EXCEPT !.rs = "START"], <<"RECOVER">>, <<>>)

shutdown == Request("shutdown") /\ Running /\ Do(vm, <<"SHUTDOWN">>, <<>>)
stop     == Request("stop")     /\ Running /\ Do(vm, <<"STOP">>, <<>>)
suspend  == Request("suspend")  /\ Running /\ Do(vm, <<"SUSPEND">>, <<>>)
reboot   == Request("reboot")   /\ Running /\ Do(vm, <<"REBOOT">>, <<>>)
restart  == Request("restart")  /\ vm.state = "ACTIVE"
                /\ vm.lcm \in {"UNKNOWN", "BOOT"} /\ Do(vm, <<"RESTART">>, <<>>)

hold     == Request("hold") /\ vm.state = "PENDING"
                /\ Do([vm EXCEPT !.state = "HOLD"], <<>>, <<>>)
release  == Request("release") /\ vm.state = "HOLD"
                /\ Do([vm EXCEPT !.state = "PENDING"], <<>>, <<>>)

\* Mutant: one may resume a VM that is DONE.
resume_Done ==
    /\ Request("resume")
    /\ \/ vm.state \in {"STOPPED", "DONE"}
              /\ Do([vm EXCEPT !.state = "PENDING"], <<>>, <<>>)
       \/ vm.state = "SUSPENDED"
              /\ Do([vm EXCEPT !.state = "ACTIVE"], <<"RESTORE">>, <<>>)

resume ==
    /\ Request("resume")
    /\ \/ vm.state = "STOPPED"
              /\ Do([vm EXCEPT !.state = "PENDING"], <<>>, <<>>)
       \/ vm.state = "SUSPENDED"
              /\ Do([vm EXCEPT !.state = "ACTIVE"], <<"RESTORE">>, <<>>)

\* cancel, off and on unlock the VM first and trigger the LCM later.
Later(e) ==
    /\ rm' = Append(rm, e)
    /\ UNCHANGED <<vm, charge, queues, drivers, daemon>>

cancel == Request("cancel") /\ Running /\ Later("CANCEL")
off    == Request("off") /\ Running /\ Later("OFF")
on     == Request("on") /\ Is("ACTIVE", "OFF") /\ Later("ON")

RequestTriggers ==
    \E i \in 1 .. Len(rm) :
        /\ daemon = "up"
        /\ rm' = RemoveAt(rm, i)
        /\ lcmQ' = Append(lcmQ, rm[i])
        /\ UNCHANGED <<vm, charge, dmQ, vmmQ, tmQ, drivers, daemon, budget>>

finalize ==
    /\ Request("finalize")
    /\ \/ /\ vm.state \in {"SUSPENDED", "FAILED", "PENDING", "HOLD", "STOPPED"}
          /\ Do(Released([vm EXCEPT !.lcm = "LCM_INIT", !.state = "DONE"]),
                <<>>,
                IF vm.state \in {"SUSPENDED", "FAILED"}
                THEN <<"EPILOG_DELETE">> ELSE <<>>)
       \/ vm.state = "ACTIVE" /\ Do(vm, <<"DELETE">>, <<>>)

resubmit ==
    /\ Request("resubmit")
    /\ \/ /\ vm.state \in {"FAILED", "HOLD", "STOPPED"}
          /\ Do([vm EXCEPT !.lcm = "LCM_INIT", !.state = "PENDING"], <<>>,
                IF vm.state = "FAILED" THEN <<"EPILOG_DELETE">> ELSE <<>>)
       \/ vm.state = "ACTIVE" /\ Do(vm, <<"CLEAN">>, <<>>)

\* VirtualMachineChangeTemplate: another MEMORY for a VM that is OFF.
change ==
    /\ Request("change")
    /\ Is("ACTIVE", "OFF")
    /\ Do([vm EXCEPT !.mem = IF @ = 1 THEN 2 ELSE 1], <<>>, <<>>)

Requests ==
    \/ \E h \in Hosts : deploy(h) \/ migrate(h) \/ live_migrate(h)
    \/ backup \/ backupdisk \/ recover \/ shutdown \/ stop \/ suspend \/ reboot
    \/ restart \/ hold \/ release \/ resume \/ cancel \/ off \/ on \/ finalize
    \/ resubmit \/ change \/ RequestTriggers

-----------------------------------------------------------------------------
(* The Life-cycle Manager: handlers of requests (LifeCycleActions).         *)

LcmPop(e) ==
    /\ daemon = "up"
    /\ lcmQ # <<>>
    /\ Head(lcmQ) = e
    /\ lcmQ' = Tail(lcmQ)

\* What a handler leaves: the VM, the shares, actions for DM, VMM and TM.
Out(v, c, d, w, t) ==
    /\ vm' = v
    /\ charge' = c
    /\ dmQ' = dmQ \o d
    /\ vmmQ' = vmmQ \o w
    /\ tmQ' = tmQ \o t
    /\ UNCHANGED daemon

Refused == Out(vm, charge, <<>>, <<>>, <<>>)

\* A null history record, or the pointer to a backup record that no
\* constructor sets, is read.
Crash == daemon' = "dead" /\ UNCHANGED <<vm, charge, dmQ, vmmQ, tmQ>>

\* Mutant: the VM is booted during the prolog.
deploy_action_Early ==
    /\ LcmPop("DEPLOY")
    /\ Out([vm EXCEPT !.lcm = "BOOT"], add_capacity(charge, vm.cur.hid),
           <<>>, <<"DEPLOY">>, <<"PROLOG">>)

deploy_action ==
    /\ LcmPop("DEPLOY")
    /\ \/ /\ vm.state = "ACTIVE"
          /\ LET resumed == HasPrevious /\ vm.prev.reason = "STOP_RESUME"
                 to      == IF resumed THEN "PROLOG_RESUME" ELSE "PROLOG"
             IN  Out([vm EXCEPT !.lcm = to], add_capacity(charge, vm.cur.hid),
                     <<>>, <<>>, <<to>>)
       \/ vm.state # "ACTIVE" /\ Refused

\* The handlers that take a running VM to another state and ask the VMM.
FromRunning(e, to, op) ==
    /\ LcmPop(e)
    /\ \/ Running /\ Out([vm EXCEPT !.lcm = to], charge, <<>>, <<op>>, <<>>)
       \/ ~Running /\ Refused

suspend_action    == FromRunning("SUSPEND", "SAVE_SUSPEND", "SAVE")
stop_action       == FromRunning("STOP", "SAVE_STOP", "SAVE")
shutdown_action   == FromRunning("SHUTDOWN", "SHUTDOWN", "SHUTDOWN")
cancel_action     == FromRunning("CANCEL", "CANCEL", "CANCEL")
off_action        == FromRunning("OFF", "RUNNING", "OFF")
reboot_action     == FromRunning("REBOOT", "RUNNING", "REBOOT")
backupdisk_action == FromRunning("BACKUPDISK", "OFF_BACKUPDISK", "BACKUPDISK")

backup_action ==
    /\ LcmPop("BACKUP")
    /\ \/ Running /\ Out([vm EXCEPT !.lcm = "OFF_BACKUP"], charge,
                         <<>>, <<"BACKUP">>, <<>>)
       \/ ~Running /\ Out([vm EXCEPT !.bk = Mark(@, "FAIL")], charge,
                          <<>>, <<>>, <<>>)

\* In any other state the VM is overwritten all the same.
recover_action ==
    /\ LcmPop("RECOVER")
    /\ \/ Running /\ Out([vm EXCEPT !.lcm = "OFF_RECOVER"], charge,
                         <<>>, <<"RECOVER">>, <<>>)
       \/ ~Running /\ Out([vm EXCEPT !.lcm = "PROLOG_RECOVER"], charge,
                          <<>>, <<>>, <<"PROLOG_RECOVER">>)

\* The new host takes the VM while the old one still has it.
MoveFromRunning(e, to, op) ==
    /\ LcmPop(e)
    /\ \/ Running /\ Out([vm EXCEPT !.lcm = to],
                         add_capacity(charge, vm.cur.hid), <<>>, <<op>>, <<>>)
       \/ ~Running /\ Refused

migrate_action      == MoveFromRunning("MIGRATE", "SAVE_MIGRATE", "SAVE")
live_migrate_action == MoveFromRunning("LIVE_MIGRATE", "MIGRATE", "MIGRATE")

restore_action ==
    /\ LcmPop("RESTORE")
    /\ \/ vm.state = "ACTIVE"
              /\ Out([cp_history(vm) EXCEPT !.lcm = "BOOT"],
                     add_capacity(charge, vm.cur.hid),
                     <<>>, <<"RESTORE">>, <<>>)
       \/ vm.state # "ACTIVE" /\ Refused

on_action ==
    /\ LcmPop("ON")
    /\ \/ Is("ACTIVE", "OFF") /\ Xen /\ Out(vm, charge, <<>>, <<>>, <<"ON">>)
       \/ Is("ACTIVE", "OFF") /\ ~Xen /\ Out([vm EXCEPT !.lcm = "BOOT"], charge,
                                             <<>>, <<"DEPLOY">>, <<>>)
       \/ ~Is("ACTIVE", "OFF") /\ Refused

restart_action ==
    /\ LcmPop("RESTART")
    /\ LET ok == vm.state = "ACTIVE" /\ vm.lcm \in {"UNKNOWN", "BOOT"}
       IN  \/ ok /\ Out([vm EXCEPT !.lcm = "BOOT"], charge,
                        <<>>, <<"DEPLOY">>, <<>>)
           \/ ~ok /\ Refused

\* clean_up_vm: the VM is given up in whatever state it is.  The previous host
\* has the VM as well while it migrates.
clean_up_vm(d) ==
    LET l     == vm.lcm
        both  == l \in {"MIGRATE", "SAVE_MIGRATE"}
        v     == [vm EXCEPT !.lcm = "CLEANUP", !.cur.reason = "USER"]
        c     == del_capacity(charge, vm.cur.hid)
        toVmm == CASE l \in {"BOOT", "RUNNING", "UNKNOWN", "SHUTDOWN", "CANCEL",
                             "SAVE_STOP", "SAVE_SUSPEND"}
                          -> <<"DRIVER_CANCEL", "CANCEL">>
                   [] l = "MIGRATE"
                          -> <<"DRIVER_CANCEL", "CANCEL", "CANCEL_PREVIOUS">>
                   [] l = "SAVE_MIGRATE"
                          -> <<"DRIVER_CANCEL", "CANCEL_PREVIOUS">>
                   [] OTHER -> <<>>
        toTm  == CASE l \in {"PROLOG", "PROLOG_RESUME", "EPILOG_STOP", "EPILOG"}
                          -> <<"DRIVER_CANCEL", "EPILOG_DELETE">>
                   [] l = "PROLOG_MIGRATE"
                          -> <<"DRIVER_CANCEL", "EPILOG_DELETE",
                               "EPILOG_DELETE_PREVIOUS">>
                   [] l \in {"BOOT", "RUNNING", "UNKNOWN", "SHUTDOWN", "CANCEL",
                             "SAVE_STOP", "SAVE_SUSPEND", "MIGRATE", "FAILURE"}
                          -> <<"EPILOG_DELETE">>
                   [] l = "SAVE_MIGRATE" -> <<"EPILOG_DELETE_PREVIOUS">>
                   [] OTHER -> <<>>
    IN  Out(IF both THEN [v EXCEPT !.prev.reason = "USER"] ELSE v,
            IF both THEN del_capacity(c, vm.prev.hid) ELSE c,
            <<d>>, toVmm, toTm)

GiveUp(e, d) ==
    /\ LcmPop(e)
    /\ \/ vm.lcm \in {"LCM_INIT", "CLEANUP"} /\ Refused
       \/ /\ vm.lcm \notin {"LCM_INIT", "CLEANUP"}
          /\ IF HasHistory THEN clean_up_vm(d) ELSE Crash

delete_action == GiveUp("DELETE", "DONE")
clean_action  == GiveUp("CLEAN", "RESUBMIT")

-----------------------------------------------------------------------------
(* The Life-cycle Manager: handlers of events (LifeCycleStates).            *)

\* Mutant: the state is not changed before the DM is told.
failure_action_NoState ==
    Out([vm EXCEPT !.cur.reason = "ERROR"], del_capacity(charge, vm.cur.hid),
        <<"FAILED">>, <<>>, <<>>)

failure_action ==
    IF HasHistory
    THEN Out([vm EXCEPT !.lcm = "FAILURE", !.cur.reason = "ERROR"],
             del_capacity(charge, vm.cur.hid), <<"FAILED">>, <<>>, <<>>)
    ELSE Crash

\* Mutant: the host that a VM migrates from keeps counting it.
save_success_action_Keep ==
    /\ LcmPop("SAVE_SUCCESS")
    /\ Out([vm EXCEPT !.lcm = "PROLOG_MIGRATE", !.prev.reason = "USER"], charge,
           <<>>, <<>>, <<"PROLOG_MIGR">>)

save_success_action ==
    /\ LcmPop("SAVE_SUCCESS")
    /\ \/ /\ vm.lcm = "SAVE_MIGRATE"
          /\ Out([vm EXCEPT !.lcm = "PROLOG_MIGRATE", !.prev.reason = "USER"],
                 del_capacity(charge, vm.prev.hid),
                 <<>>, <<>>, <<"PROLOG_MIGR">>)
       \/ /\ vm.lcm = "SAVE_SUSPEND"
          /\ Out([vm EXCEPT !.cur.reason = "STOP_RESUME"],
                 del_capacity(charge, vm.cur.hid),
                 <<"SUSPEND_SUCCESS">>, <<>>, <<>>)
       \/ /\ vm.lcm = "SAVE_STOP"
          /\ Out([vm EXCEPT !.lcm = "EPILOG_STOP",
                            !.cur.reason = "STOP_RESUME"],
                 charge, <<>>, <<>>, <<"EPILOG_STOP">>)
       \/ vm.lcm \notin {"SAVE_MIGRATE", "SAVE_SUSPEND", "SAVE_STOP"} /\ Refused

\* Mutant: the record of the host before is not copied.
BackToPrevious_NoCopy ==
    Out([vm EXCEPT !.lcm = "RUNNING", !.cur.reason = "ERROR"],
        del_capacity(charge, vm.cur.hid), <<>>, <<"POLL">>, <<>>)

\* The VM is taken to be still where it was.
BackToPrevious ==
    Out([cp_previous_history([vm EXCEPT !.cur.reason = "ERROR",
                                        !.prev.reason = "USER"])
            EXCEPT !.lcm = "RUNNING"],
        del_capacity(charge, vm.cur.hid), <<>>, <<"POLL">>, <<>>)

save_failure_action ==
    /\ LcmPop("SAVE_FAILURE")
    /\ \/ vm.lcm = "SAVE_MIGRATE" /\ BackToPrevious
       \/ vm.lcm \in {"SAVE_SUSPEND", "SAVE_STOP"}
              /\ Out([vm EXCEPT !.lcm = "RUNNING"], charge,
                     <<>>, <<"POLL">>, <<>>)
       \/ vm.lcm \notin {"SAVE_MIGRATE", "SAVE_SUSPEND", "SAVE_STOP"} /\ Refused

\* Whatever the state, the VM is RUNNING now.
deploy_success_action ==
    /\ LcmPop("DEPLOY_SUCCESS")
    /\ LET moved == vm.lcm = "MIGRATE"
           last  == vm.lcmstate
           v     == [vm EXCEPT !.lcm = "RUNNING", !.lcmstate = "OTHER",
                         !.prev.reason = IF moved THEN "USER" ELSE @,
                         !.rs = IF last = "PROLOG_RECOVER_DECOMPRESS"
                                THEN Mark(@, "SUCCESS") ELSE @]
       IN  Out(v, IF moved THEN del_capacity(charge, vm.prev.hid) ELSE charge,
               <<>>, <<>>,
               CASE last = "PROLOG_RECOVER_DECOMPRESS" -> <<"DELETEBAK">>
                 [] last = "PROLOG_BACKUP" -> <<"DELETE_BACKUP_COMPRESS">>
                 [] OTHER -> <<>>)

deploy_failure_action ==
    /\ LcmPop("DEPLOY_FAILURE")
    /\ \/ vm.lcm = "MIGRATE" /\ BackToPrevious
       \/ vm.lcm = "BOOT" /\ failure_action
       \/ vm.lcm \notin {"MIGRATE", "BOOT"} /\ Refused

shutdown_success_action ==
    /\ LcmPop("SHUTDOWN_SUCCESS")
    /\ Out([vm EXCEPT !.lcm = "EPILOG"], charge, <<>>, <<>>, <<"EPILOG">>)

shutdown_failure_action ==
    /\ LcmPop("SHUTDOWN_FAILURE")
    /\ Out([vm EXCEPT !.lcm = "RUNNING"], charge, <<>>, <<"POLL">>, <<>>)

\* The copy, restoration or cleaning of a backup is over: the domain, which
\* was turned off for it, is started again.
AfterBackup == {"PROLOG_BACKUP", "PROLOG_RECOVER_DECOMPRESS",
                "DELETE_RECOVER_FAIL", "RECOVER_DECOMPRESS_FAIL",
                "DELETE_BACKUP_FAIL", "PROLOG_BACKUPDISK"}

\* Mutant: every state is remembered.
prolog_success_action_All ==
    /\ LcmPop("PROLOG_SUCCESS")
    /\ Out([vm EXCEPT !.lcm = "BOOT", !.lcmstate = vm.lcm], charge,
           <<>>, <<"DEPLOY">>, <<>>)

prolog_success_action ==
    /\ LcmPop("PROLOG_SUCCESS")
    /\ LET l == vm.lcm
           v == [vm EXCEPT
                   !.lcmstate = IF l \in {"PROLOG_BACKUP",
                                          "PROLOG_RECOVER_DECOMPRESS"}
                                THEN l ELSE @,
                   !.bk = IF l = "PROLOG_BACKUP" THEN Mark(@, "SUCCESS") ELSE @,
                   !.dk = IF l = "PROLOG_BACKUPDISK" THEN Mark(@, "SUCCESS")
                          ELSE @]
       IN  \/ l = "PROLOG" /\ Out([vm EXCEPT !.lcm = "BOOT"], charge,
                                  <<>>, <<"DEPLOY">>, <<>>)
           \/ l \in {"PROLOG_MIGRATE", "PROLOG_RESUME"}
                  /\ Out([vm EXCEPT !.lcm = "BOOT"], charge,
                         <<>>, <<"RESTORE">>, <<>>)
           \/ l = "PROLOG_BACKUP" /\ vm.bk = "NONE" /\ Crash
           \/ l = "PROLOG_BACKUPDISK" /\ vm.dk = "NONE" /\ Crash
           \/ l \in AfterBackup /\ Xen
                  /\ Out([v EXCEPT !.lcm = "OFF"], charge, <<>>, <<>>, <<"ON">>)
           \/ l \in AfterBackup /\ ~Xen
                  /\ Out([v EXCEPT !.lcm = "BOOT"], charge,
                         <<>>, <<"DEPLOY">>, <<>>)
           \/ l \notin AfterBackup \cup {"PROLOG", "PROLOG_MIGRATE",
                                         "PROLOG_RESUME"} /\ Refused

\* Mutant: the record of a disk copy that fails is left as it is.
prolog_failure_action_Silent ==
    /\ LcmPop("PROLOG_FAILURE")
    /\ \/ vm.lcm = "PROLOG_BACKUPDISK"
              /\ Out([vm EXCEPT !.lcm = "OFF"], charge, <<>>, <<>>, <<"ON">>)
       \/ vm.lcm # "PROLOG_BACKUPDISK" /\ failure_action

prolog_failure_action ==
    /\ LcmPop("PROLOG_FAILURE")
    /\ LET l == vm.lcm
           v == [vm EXCEPT !.lcmstate = "OTHER"]
       IN  \/ l = "PROLOG_BACKUP"
                  /\ Out([v EXCEPT !.lcm = "DELETE_BACKUP_FAIL",
                                   !.bk = Mark(@, "FAIL")],
                         charge, <<>>, <<>>, <<"DELETE_BACKUP_FAIL">>)
           \/ l = "PROLOG_RECOVER"
                  /\ Out([v EXCEPT !.lcm = "DELETE_RECOVER_FAIL",
                                   !.rs = Mark(@, "FAIL")],
                         charge, <<>>, <<>>, <<"DELETE_RECOVER_FAIL">>)
           \/ l = "PROLOG_RECOVER_DECOMPRESS"
                  /\ Out([v EXCEPT !.lcm = "RECOVER_DECOMPRESS_FAIL",
                                   !.rs = Mark(@, "FAIL")],
                         charge, <<>>, <<>>, <<"RECOVER_DECOMPRESS_FAIL">>)
           \/ l = "PROLOG_BACKUPDISK" /\ Xen
                  /\ Out([vm EXCEPT !.dk = Mark(@, "FAIL"), !.lcm = "OFF"],
                         charge, <<>>, <<>>, <<"ON">>)
           \/ l = "PROLOG_BACKUPDISK" /\ ~Xen
                  /\ Out([vm EXCEPT !.dk = Mark(@, "FAIL")], charge,
                         <<>>, <<"DEPLOY">>, <<>>)
           \/ l \notin {"PROLOG_BACKUP", "PROLOG_RECOVER", "PROLOG_BACKUPDISK",
                        "PROLOG_RECOVER_DECOMPRESS"} /\ failure_action

epilog_success_action ==
    /\ LcmPop("EPILOG_SUCCESS")
    /\ \/ vm.lcm = "EPILOG_STOP"
              /\ Out(vm, del_capacity(charge, vm.cur.hid),
                     <<"STOP_SUCCESS">>, <<>>, <<>>)
       \/ vm.lcm = "EPILOG"
              /\ Out(vm, del_capacity(charge, vm.cur.hid),
                     <<"DONE">>, <<>>, <<>>)
       \/ vm.lcm \notin {"EPILOG_STOP", "EPILOG"} /\ Refused

epilog_failure_action == LcmPop("EPILOG_FAILURE") /\ failure_action

cancel_success_action ==
    /\ LcmPop("CANCEL_SUCCESS")
    /\ Out([vm EXCEPT !.lcm = "EPILOG", !.cur.reason = "CANCEL"], charge,
           <<>>, <<>>, <<"EPILOG">>)

\* Mutant: a VM that is OFF gives its capacity back, but never takes it again.
off_success_action_Free ==
    /\ LcmPop("OFF_SUCCESS")
    /\ Out([vm EXCEPT !.lcm = "OFF"], del_capacity(charge, vm.cur.hid),
           <<>>, <<>>, <<>>)

off_success_action ==
    /\ LcmPop("OFF_SUCCESS")
    /\ LET to == CASE vm.lcm = "OFF_BACKUP"     -> "PROLOG_BACKUP"
                   [] vm.lcm = "OFF_RECOVER"    -> "PROLOG_RECOVER"
                   [] vm.lcm = "OFF_BACKUPDISK" -> "PROLOG_BACKUPDISK"
                   [] OTHER                     -> "OFF"
       IN  Out([vm EXCEPT !.lcm = to], charge, <<>>, <<>>,
               IF to = "OFF" THEN <<>> ELSE <<to>>)

\* Mutant: nobody is told to boot the VM.
xmlist_success_action_NoBoot ==
    /\ LcmPop("XMLIST_SUCCESS")
    /\ Out([vm EXCEPT !.lcm = "BOOT"], charge, <<>>, <<>>, <<>>)

xmlist_success_action ==
    /\ LcmPop("XMLIST_SUCCESS")
    /\ \/ vm.lcm = "OFF" /\ Out([vm EXCEPT !.lcm = "BOOT"], charge,
                                <<>>, <<"DEPLOY">>, <<>>)
       \/ vm.lcm # "OFF" /\ Refused

xmlist_failure_action == LcmPop("XMLIST_FAILURE") /\ Refused

prolog_recover_decompress_action ==
    /\ LcmPop("PROLOG_RECOVER_DECOMPRESS")
    /\ Out([vm EXCEPT !.lcm = "PROLOG_RECOVER_DECOMPRESS"], charge,
           <<>>, <<>>, <<"PROLOG_RECOVER_DECOMPRESS">>)

cancel_failure_action ==
    /\ LcmPop("CANCEL_FAILURE")
    /\ Out([vm EXCEPT !.lcm = "RUNNING",
                      !.bk = IF vm.lcm = "OFF_BACKUP" THEN Mark(@, "FAIL")
                              ELSE @,
                      !.rs = IF vm.lcm = "OFF_RECOVER" THEN Mark(@, "FAIL")
                              ELSE @,
                      !.dk = IF vm.lcm = "OFF_BACKUPDISK" THEN Mark(@, "FAIL")
                              ELSE @],
           charge, <<>>, <<"POLL">>, <<>>)

monitor_failure_action == LcmPop("MONITOR_FAILURE") /\ failure_action

monitor_suspend_action ==
    /\ LcmPop("MONITOR_SUSPEND")
    /\ Out([vm EXCEPT !.lcm = "SAVE_SUSPEND", !.cur.reason = "STOP_RESUME"],
           del_capacity(charge, vm.cur.hid), <<"SUSPEND_SUCCESS">>, <<>>, <<>>)

monitor_done_action ==
    /\ LcmPop("MONITOR_DONE")
    /\ Out([vm EXCEPT !.lcm = "UNKNOWN"], charge, <<>>, <<>>, <<>>)

LifeCycleManager ==
    /\ \/ deploy_action \/ suspend_action \/ stop_action \/ shutdown_action
       \/ cancel_action \/ off_action \/ reboot_action \/ backupdisk_action
       \/ backup_action \/ recover_action \/ migrate_action
       \/ live_migrate_action \/ restore_action \/ on_action \/ restart_action
       \/ delete_action \/ clean_action
       \/ save_success_action \/ save_failure_action \/ deploy_success_action
       \/ deploy_failure_action \/ shutdown_success_action
       \/ shutdown_failure_action \/ prolog_success_action
       \/ prolog_failure_action \/ epilog_success_action
       \/ epilog_failure_action \/ cancel_success_action \/ off_success_action
       \/ xmlist_success_action \/ xmlist_failure_action
       \/ prolog_recover_decompress_action \/ cancel_failure_action
       \/ monitor_failure_action \/ monitor_suspend_action
       \/ monitor_done_action
    /\ UNCHANGED <<rm, drivers, budget>>

-----------------------------------------------------------------------------
(* The Dispatch Manager: handlers of events (DispatchManagerStates).        *)

DmPop(e) ==
    /\ daemon = "up"
    /\ dmQ # <<>>
    /\ Head(dmQ) = e
    /\ dmQ' = Tail(dmQ)

\* The final states are entered from one life-cycle state only.
Settle(ok, v) ==
    /\ vm' = IF ok THEN v ELSE vm
    /\ UNCHANGED daemon

suspend_success_action ==
    /\ DmPop("SUSPEND_SUCCESS")
    /\ Settle(Is("ACTIVE", "SAVE_SUSPEND"),
              [vm EXCEPT !.state = "SUSPENDED", !.lcm = "LCM_INIT"])

stop_success_action ==
    /\ DmPop("STOP_SUCCESS")
    /\ Settle(Is("ACTIVE", "EPILOG_STOP"),
              [vm EXCEPT !.state = "STOPPED", !.lcm = "LCM_INIT"])

done_action ==
    /\ DmPop("DONE")
    /\ Settle(vm.state = "ACTIVE" /\ vm.lcm \in {"EPILOG", "CANCEL", "CLEANUP"},
              Released([vm EXCEPT !.state = "DONE", !.lcm = "LCM_INIT"]))

\* The next two unlock the VM only when they change it.
SettleOrKeepLock(l, s) ==
    \/ vm.lcm = l /\ Settle(TRUE, [vm EXCEPT !.state = s, !.lcm = "LCM_INIT"])
    \/ vm.lcm # l /\ daemon' = "blocked" /\ UNCHANGED vm

failed_action   == DmPop("FAILED") /\ SettleOrKeepLock("FAILURE", "FAILED")
resubmit_action == DmPop("RESUBMIT") /\ SettleOrKeepLock("CLEANUP", "PENDING")

DispatchManager ==
    /\ \/ suspend_success_action \/ stop_success_action \/ done_action
       \/ failed_action \/ resubmit_action
    /\ UNCHANGED <<charge, lcmQ, vmmQ, tmQ, rm, drivers, budget>>

-----------------------------------------------------------------------------
(* The Virtual Machine Manager: each handler sends one operation to the     *)
(* driver of the host, or gives up: no history record, no driver, no file.  *)

VmmPop(e) ==
    /\ daemon = "up"
    /\ vmmQ # <<>>
    /\ Head(vmmQ) = e
    /\ vmmQ' = Tail(vmmQ)

\* Operation op at host at (and host to); res is what the hypervisor did.
SendOp(op, at, to) ==
    /\ vmmOps' = Append(vmmOps, [op |-> op, at |-> at, to |-> to,
                                 res |-> "none"])
    /\ UNCHANGED <<vm, lcmQ>>

GiveUpOp(v, e) ==
    /\ vm' = v
    /\ lcmQ' = lcmQ \o e
    /\ UNCHANGED vmmOps

\* Operation op for action a.  On error, the VM becomes v and the LCM gets e.
Operate(a, op, at, to, v, e) ==
    /\ VmmPop(a)
    /\ LET ready == at # NoHost /\ to # NoHost
       IN  \/ ready /\ SendOp(op, at, to)
           \/ (ready => Errors) /\ GiveUpOp(v, e)

AtHost(a, op, v, e) == Operate(a, op, vm.cur.hid, vm.cur.hid, v, e)

\* Mutant: an error of which the LCM hears nothing.
vmm_shutdown_action_Silent == AtHost("SHUTDOWN", "SHUTDOWN", vm, <<>>)

vmm_deploy_action   == AtHost("DEPLOY", "DEPLOY", vm, <<"DEPLOY_FAILURE">>)
vmm_restore_action  == AtHost("RESTORE", "RESTORE", vm, <<"DEPLOY_FAILURE">>)
vmm_shutdown_action == AtHost("SHUTDOWN", "SHUTDOWN", vm,
                              <<"SHUTDOWN_FAILURE">>)
vmm_cancel_action   == AtHost("CANCEL", "CANCEL", vm,
    IF vm.lcm = "CANCEL" THEN <<"CANCEL_FAILURE">> ELSE <<>>)
vmm_off_action      == AtHost("OFF", "OFF", vm,
    IF vm.lcm = "OFF" THEN <<"CANCEL_FAILURE">> ELSE <<>>)
vmm_reboot_action   == AtHost("REBOOT", "REBOOT", vm, <<>>)
poll_action         == AtHost("POLL", "POLL", vm, <<>>)

\* The three backup operations begin by turning the domain off.
vmm_backup_action     == AtHost("BACKUP", "OFF",
    [vm EXCEPT !.bk = Mark(@, "FAIL")], <<"CANCEL_FAILURE">>)
vmm_recover_action    == AtHost("RECOVER", "OFF",
    [vm EXCEPT !.rs = Mark(@, "FAIL")], <<"CANCEL_FAILURE">>)
vmm_backupdisk_action == AtHost("BACKUPDISK", "OFF",
    [vm EXCEPT !.lcm = "RUNNING", !.dk = Mark(@, "FAIL")], <<>>)

\* A VM that migrates is saved, moved or cancelled where it was before.
vmm_save_action ==
    Operate("SAVE", "SAVE",
            IF vm.lcm = "SAVE_MIGRATE" THEN vm.prev.hid ELSE vm.cur.hid,
            vm.cur.hid, vm, <<"SAVE_FAILURE">>)
vmm_migrate_action ==
    Operate("MIGRATE", "MIGRATE", vm.prev.hid, vm.cur.hid, vm,
            <<"DEPLOY_FAILURE">>)
cancel_previous_action ==
    Operate("CANCEL_PREVIOUS", "CANCEL", vm.prev.hid, vm.cur.hid, vm, <<>>)

\* The driver kills one thread that works for the VM, or forgets an operation
\* it has not begun, or finds neither.  No answer will come.
driver_cancel_action ==
    /\ VmmPop("DRIVER_CANCEL")
    /\ \/ UNCHANGED vmmOps
       \/ \E i \in 1 .. Len(vmmOps) : vmmOps' = RemoveAt(vmmOps, i)
    /\ UNCHANGED <<vm, lcmQ>>

\* The monitoring timer, the only action that no one triggers.
timer_action ==
    /\ daemon = "up"
    /\ budget.polls > 0
    /\ vm.state = "ACTIVE" /\ vm.lcm \in {"RUNNING", "UNKNOWN"}
    /\ HasHistory
    /\ SendOp("POLL", vm.cur.hid, vm.cur.hid)
    /\ budget' = [budget EXCEPT !.polls = @ - 1]
    /\ UNCHANGED vmmQ

VmmHandler ==
    \/ vmm_deploy_action \/ vmm_restore_action \/ vmm_shutdown_action
    \/ vmm_cancel_action \/ vmm_off_action \/ vmm_reboot_action \/ poll_action
    \/ vmm_backup_action \/ vmm_recover_action \/ vmm_backupdisk_action
    \/ vmm_save_action \/ vmm_migrate_action \/ cancel_previous_action
    \/ driver_cancel_action

VirtualMachineManager ==
    /\ \/ VmmHandler /\ UNCHANGED budget
       \/ timer_action
    /\ UNCHANGED <<charge, dmQ, tmQ, rm, tmOps, domain, daemon>>

-----------------------------------------------------------------------------
(* The hypervisors (external) and the answers of their drivers, in any      *)
(* order: each operation has a thread of its own.                           *)

CanSucceed(o) ==
    CASE o.op \in {"DEPLOY", "RESTORE"} -> o.at \notin domain
      [] o.op = "MIGRATE" -> o.at \in domain /\ o.to \notin domain
      [] OTHER -> o.at \in domain

DomainAfter(o) ==
    CASE o.op \in {"DEPLOY", "RESTORE"} -> domain \cup {o.at}
      [] o.op = "MIGRATE" -> (domain \ {o.at}) \cup {o.to}
      [] o.op \in {"SAVE", "SHUTDOWN", "CANCEL", "OFF"} -> domain \ {o.at}
      [] OTHER -> domain

PollResult(at) ==
    Polls \cap (IF at \in domain THEN {"a", "p", "e"} ELSE {"e", "d"})

\* The hypervisor performs an operation, or fails to and changes nothing.
Hypervisor ==
    /\ \E i \in 1 .. Len(vmmOps) :
        LET o == vmmOps[i]
        IN  /\ o.res = "none"
            /\ \/ /\ o.op # "POLL" /\ CanSucceed(o)
                  /\ vmmOps' = [vmmOps EXCEPT ![i].res = "success"]
                  /\ domain' = DomainAfter(o)
               \/ /\ vmmOps' = [vmmOps EXCEPT ![i].res = "failure"]
                  /\ UNCHANGED domain
               \/ /\ o.op = "POLL"
                  /\ \E r \in PollResult(o.at) :
                        vmmOps' = [vmmOps EXCEPT ![i].res = r]
                  /\ UNCHANGED domain
    /\ UNCHANGED <<vm, charge, queues, rm, tmOps, daemon, budget>>

\* The hypervisor loses the domain of the VM: it crashes, or its user halts it.
DomainDies ==
    /\ budget.deaths > 0
    /\ \E h \in domain : domain' = domain \ {h}
    /\ budget' = [budget EXCEPT !.deaths = @ - 1]
    /\ UNCHANGED <<vm, charge, queues, rm, vmmOps, tmOps, daemon>>

\* Answers are ignored in these states.
Deaf == vm.lcm \in {"CLEANUP", "FAILURE", "LCM_INIT"}

SuccessEvent(op) ==
    CASE op \in {"DEPLOY", "RESTORE", "MIGRATE"} -> <<"DEPLOY_SUCCESS">>
      [] op = "SHUTDOWN" -> <<"SHUTDOWN_SUCCESS">>
      [] op = "CANCEL"   -> <<"CANCEL_SUCCESS">>
      [] op = "OFF"      -> <<"OFF_SUCCESS">>
      [] op = "SAVE"     -> <<"SAVE_SUCCESS">>
      [] OTHER           -> <<>>

FailureEvent(op) ==
    CASE op \in {"DEPLOY", "RESTORE", "MIGRATE"} -> <<"DEPLOY_FAILURE">>
      [] op = "SHUTDOWN"         -> <<"SHUTDOWN_FAILURE">>
      [] op \in {"CANCEL", "OFF"} -> <<"CANCEL_FAILURE">>
      [] op = "SAVE"             -> <<"SAVE_FAILURE">>
      [] OTHER                   -> <<>>

\* The state of a POLL counts only for a VM that should be running.
MonitorEvent(r) ==
    CASE vm.lcm \notin {"RUNNING", "UNKNOWN"} -> <<>>
      [] r = "p" -> <<"MONITOR_SUSPEND">>
      [] r = "e" -> <<"MONITOR_FAILURE">>
      [] r = "d" -> <<"MONITOR_DONE">>
      [] OTHER   -> <<>>

\* VirtualMachineManagerDriver::protocol.
VmmProtocol ==
    /\ daemon = "up"
    /\ \E i \in 1 .. Len(vmmOps) :
        LET o == vmmOps[i]
            e == CASE o.res = "success" -> SuccessEvent(o.op)
                   [] o.res = "failure" -> FailureEvent(o.op)
                   [] OTHER -> MonitorEvent(o.res)
        IN  /\ o.res # "none"
            /\ vmmOps' = RemoveAt(vmmOps, i)
            /\ lcmQ' = IF Deaf THEN lcmQ ELSE lcmQ \o e
            /\ vm' = IF o.res = "a" /\ vm.lcm = "UNKNOWN"
                     THEN [vm EXCEPT !.lcm = "RUNNING"] ELSE vm
    /\ UNCHANGED <<charge, dmQ, vmmQ, tmQ, rm, tmOps, domain, daemon, budget>>

-----------------------------------------------------------------------------
(* The Transfer Manager: each handler writes a transfer script and sends it *)
(* to its driver, or gives up: no history record, no driver, no file.       *)

TmPop(a) ==
    /\ daemon = "up"
    /\ tmQ # <<>>
    /\ Head(tmQ) = a
    /\ tmQ' = Tail(tmQ)

\* Script a for a VM that becomes v.  On error, it becomes w, the LCM gets e.
TransferWith(a, ready, v, w, e) ==
    /\ TmPop(a)
    /\ \/ /\ ready
          /\ tmOps' = Append(tmOps, a)
          /\ vm' = v
          /\ UNCHANGED lcmQ
       \/ /\ ready => Errors
          /\ vm' = w
          /\ lcmQ' = lcmQ \o e
          /\ UNCHANGED tmOps
    /\ UNCHANGED daemon

Transfer(a, e) == TransferWith(a, HasHistory, vm, vm, e)

prolog_action            == Transfer("PROLOG", <<"PROLOG_FAILURE">>)
prolog_resume_action     == Transfer("PROLOG_RESUME", <<"PROLOG_FAILURE">>)
epilog_action            == Transfer("EPILOG", <<"EPILOG_FAILURE">>)
epilog_stop_action       == Transfer("EPILOG_STOP", <<"EPILOG_FAILURE">>)

prolog_migr_action ==
    TransferWith("PROLOG_MIGR", HasHistory /\ HasPrevious, vm, vm,
                 <<"PROLOG_FAILURE">>)

\* The directory to copy to is in the record.
TransferTo(a, record, w) ==
    \/ TransferWith(a, HasHistory, vm, w, <<"PROLOG_FAILURE">>)
    \/ /\ TmPop(a)
       /\ HasHistory /\ record = "NONE"
       /\ daemon' = "dead"
       /\ UNCHANGED <<vm, lcmQ, tmOps>>

prolog_backup_action == TransferTo("PROLOG_BACKUP", vm.bk,
                                   [vm EXCEPT !.bk = Mark(@, "FAIL")])
prolog_backupdisk_action == TransferTo("PROLOG_BACKUPDISK", vm.dk, vm)

prolog_recover_action ==
    TransferWith("PROLOG_RECOVER", HasHistory,
                 [vm EXCEPT !.state = IF @ = "FAILED" THEN "ACTIVE" ELSE @],
                 [vm EXCEPT !.rs = Mark(@, "FAIL")], <<"PROLOG_FAILURE">>)
epilog_decompress_action ==
    TransferWith("PROLOG_RECOVER_DECOMPRESS", HasHistory, vm,
                 [vm EXCEPT !.lcm = "PROLOG_RECOVER", !.rs = Mark(@, "FAIL")],
                 <<"PROLOG_FAILURE">>)

\* These tell no one when they fail.
epilog_delete_action          == Transfer("EPILOG_DELETE", <<>>)
prolog_on_action              == Transfer("ON", <<>>)
delete_recover_fail_action    == Transfer("DELETE_RECOVER_FAIL", <<>>)
recover_decompress_fail_action == Transfer("RECOVER_DECOMPRESS_FAIL", <<>>)
delete_backup_fail_action     == Transfer("DELETE_BACKUP_FAIL", <<>>)
epilog_deletebak_action       == Transfer("DELETEBAK", <<>>)
epilog_deletecps_action       == Transfer("DELETE_BACKUP_COMPRESS", <<>>)
epilog_delete_previous_action ==
    TransferWith("EPILOG_DELETE_PREVIOUS", HasHistory /\ HasPrevious, vm, vm,
                 <<>>)

tm_driver_cancel_action ==
    /\ TmPop("DRIVER_CANCEL")
    /\ \/ UNCHANGED tmOps
       \/ \E i \in 1 .. Len(tmOps) : tmOps' = RemoveAt(tmOps, i)
    /\ UNCHANGED <<vm, lcmQ, daemon>>

TransferManager ==
    /\ \/ prolog_action \/ prolog_resume_action \/ prolog_backupdisk_action
       \/ epilog_action \/ epilog_stop_action \/ prolog_migr_action
       \/ prolog_backup_action \/ prolog_recover_action
       \/ epilog_decompress_action \/ epilog_delete_action \/ prolog_on_action
       \/ delete_recover_fail_action \/ recover_decompress_fail_action
       \/ delete_backup_fail_action \/ epilog_deletebak_action
       \/ epilog_deletecps_action \/ epilog_delete_previous_action
       \/ tm_driver_cancel_action
    /\ UNCHANGED <<charge, dmQ, vmmQ, rm, vmmOps, domain, budget>>

\* TransferManagerDriver::protocol: the answer does not say which script it is
\* about, so the state of the VM decides what is over.
AnyProlog == {"PROLOG", "PROLOG_MIGRATE", "PROLOG_RESUME", "PROLOG_RECOVER"}
             \cup AfterBackup

TransferEvent(ok) ==
    CASE vm.lcm = "PROLOG_RECOVER" /\ ok -> <<"PROLOG_RECOVER_DECOMPRESS">>
      [] vm.lcm \in AnyProlog /\ (ok => vm.lcm # "PROLOG_RECOVER")
            -> IF ok THEN <<"PROLOG_SUCCESS">> ELSE <<"PROLOG_FAILURE">>
      [] vm.lcm = "OFF"
            -> IF ok THEN <<"XMLIST_SUCCESS">> ELSE <<"XMLIST_FAILURE">>
      [] vm.lcm \in {"EPILOG", "EPILOG_STOP"}
            -> IF ok THEN <<"EPILOG_SUCCESS">> ELSE <<"EPILOG_FAILURE">>
      [] OTHER -> <<>>

TmProtocol ==
    /\ daemon = "up"
    /\ \E i \in 1 .. Len(tmOps), ok \in BOOLEAN :
        /\ tmOps' = RemoveAt(tmOps, i)
        /\ lcmQ' = IF Deaf THEN lcmQ ELSE lcmQ \o TransferEvent(ok)
    /\ UNCHANGED <<vm, charge, dmQ, vmmQ, tmQ, rm, vmmOps, domain, daemon,
                   budget>>

-----------------------------------------------------------------------------
(* The pool replaces a VM it has cached and reads it again from the         *)
(* database, which keeps neither lcmstate nor the records it names; the     *)
(* daemon starts again with empty queues and new drivers.                   *)

ReadAgain ==
    \E g \in Garbage :
        vm' = [vm EXCEPT !.lcmstate = g, !.bk = "NONE", !.rs = "NONE",
                         !.dk = "NONE",
                         !.orphan = @ \/ "START" \in {vm.bk, vm.rs, vm.dk}]

Evict ==
    /\ MayEvict
    /\ daemon = "up"
    /\ ReadAgain
    /\ UNCHANGED <<charge, queues, rm, drivers, daemon, budget>>

Restart ==
    /\ budget.restarts > 0
    /\ budget' = [budget EXCEPT !.restarts = @ - 1]
    /\ ReadAgain
    /\ lcmQ' = <<>> /\ dmQ' = <<>> /\ vmmQ' = <<>> /\ tmQ' = <<>>
    /\ rm' = <<>> /\ vmmOps' = <<>> /\ tmOps' = <<>>
    /\ daemon' = "up"
    /\ UNCHANGED <<charge, domain>>

Next ==
    \/ Requests \/ LifeCycleManager \/ DispatchManager
    \/ VirtualMachineManager \/ TransferManager
    \/ Hypervisor \/ VmmProtocol \/ TmProtocol \/ DomainDies
    \/ Evict \/ Restart

Spec == Init /\ [][Next]_vars

\* Each manager serves its queue, the drivers answer, requests go on.
Fairness ==
    /\ WF_vars(RequestTriggers)
    /\ WF_vars(LifeCycleManager)
    /\ WF_vars(DispatchManager)
    /\ WF_vars(VmmHandler /\ VirtualMachineManager)
    /\ WF_vars(TransferManager)
    /\ WF_vars(Hypervisor)
    /\ WF_vars(VmmProtocol)
    /\ WF_vars(TmProtocol)

FairSpec == Spec /\ Fairness

-----------------------------------------------------------------------------
(* What the queues hold, for the type invariant.                            *)

LcmEvent ==
    {"DEPLOY", "SUSPEND", "STOP", "SHUTDOWN", "CANCEL", "OFF", "ON", "REBOOT",
     "BACKUP", "BACKUPDISK", "RECOVER", "MIGRATE", "LIVE_MIGRATE", "RESTORE",
     "RESTART", "DELETE", "CLEAN", "SAVE_SUCCESS", "SAVE_FAILURE",
     "DEPLOY_SUCCESS", "DEPLOY_FAILURE", "SHUTDOWN_SUCCESS",
     "SHUTDOWN_FAILURE", "PROLOG_SUCCESS", "PROLOG_FAILURE", "EPILOG_SUCCESS",
     "EPILOG_FAILURE", "CANCEL_SUCCESS", "CANCEL_FAILURE", "OFF_SUCCESS",
     "XMLIST_SUCCESS", "XMLIST_FAILURE", "PROLOG_RECOVER_DECOMPRESS",
     "MONITOR_FAILURE", "MONITOR_SUSPEND", "MONITOR_DONE"}

DmEvent == {"SUSPEND_SUCCESS", "STOP_SUCCESS", "DONE", "FAILED", "RESUBMIT"}

VmmEvent ==
    {"DEPLOY", "SAVE", "SHUTDOWN", "CANCEL", "OFF", "RESTORE", "MIGRATE",
     "REBOOT", "POLL", "BACKUP", "RECOVER", "BACKUPDISK", "CANCEL_PREVIOUS",
     "DRIVER_CANCEL"}

Script ==
    {"PROLOG", "PROLOG_RESUME", "PROLOG_MIGR", "PROLOG_BACKUP",
     "PROLOG_RECOVER", "PROLOG_BACKUPDISK", "PROLOG_RECOVER_DECOMPRESS",
     "EPILOG", "EPILOG_STOP", "EPILOG_DELETE", "EPILOG_DELETE_PREVIOUS", "ON",
     "DELETE_RECOVER_FAIL", "RECOVER_DECOMPRESS_FAIL", "DELETE_BACKUP_FAIL",
     "DELETEBAK", "DELETE_BACKUP_COMPRESS"}

OpName == {"DEPLOY", "SAVE", "SHUTDOWN", "CANCEL", "OFF", "RESTORE", "MIGRATE",
           "REBOOT", "POLL"}

Operation ==
    [op : OpName, at : Hosts, to : Hosts,
     res : {"none", "success", "failure", "a", "p", "e", "d"}]

VmObject ==
    [state : VmState, lcm : LcmState, lcmstate : LastState, cur : History,
     prev : History, mem : {1, 2}, bk : RecordState, rs : RecordState,
     dk : RecordState, orphan : BOOLEAN, res : {"held", "released", "again"}]

ShareTable == [Hosts -> [vms : Int, mem : Int]]
TmEvent    == Script \cup {"DRIVER_CANCEL"}
RmEvent    == {"CANCEL", "OFF", "ON"}
Budget     == [scenario : DOMAIN Scenarios, cmds : Nat, polls : Nat,
               deaths : Nat, restarts : Nat]

\* The type of every variable: the states and the events are those the switch
\* statements of the managers know.
TypeOK ==
    /\ vm \in VmObject
    /\ charge \in ShareTable
    /\ lcmQ \in Seq(LcmEvent) /\ dmQ \in Seq(DmEvent)
    /\ vmmQ \in Seq(VmmEvent) /\ tmQ \in Seq(TmEvent)
    /\ rm \in Seq(RmEvent)
    /\ vmmOps \in Seq(Operation) /\ tmOps \in Seq(Script)
    /\ domain \subseteq Hosts
    /\ daemon \in {"up", "blocked", "dead"}
    /\ budget \in Budget

-----------------------------------------------------------------------------
(* Properties.                                                              *)

\* Nobody has anything left to do for the VM.
Quiet ==
    /\ daemon = "up"
    /\ lcmQ = <<>> /\ dmQ = <<>> /\ vmmQ = <<>> /\ tmQ = <<>>
    /\ rm = <<>> /\ vmmOps = <<>> /\ tmOps = <<>>

\* The shares count the VM, and the memory of its template, at hosts hs only.
Counted(hs) ==
    \A h \in Hosts : charge[h] = IF h \in hs THEN [vms |-> 1, mem |-> vm.mem]
                                 ELSE [vms |-> 0, mem |-> 0]

\* Once all is quiet, the host of a VM that is RUNNING, UNKNOWN or OFF counts
\* it once, with its memory, and no other host does; and no host counts a VM
\* the managers are through with.  add_capacity and del_capacity are spread
\* over a dozen handlers of the LCM, and nothing else remembers what was added.
CapacityIsExact ==
    Quiet => /\ vm.lcm \in {"RUNNING", "UNKNOWN", "OFF"}
                    => Counted({vm.cur.hid})
             /\ vm.lcm = "LCM_INIT" => Counted({})

\* The daemon was not started again, which loses what the queues held.
NeverRestarted == budget.restarts = Scenarios[budget.scenario].restarts

\* When all is quiet the VM is not left in a state that only an event, which
\* will not come, could end: every failure has a handler that leads out.
NotStuck ==
    Quiet /\ NeverRestarted
        => vm.lcm \in {"LCM_INIT", "RUNNING", "UNKNOWN", "OFF"}

\* No handler leaves the VM locked (failed_action and resubmit_action return
\* without unlocking it when they find it in another state).
NotBlocked == daemon # "blocked"

\* No handler reads a history record, or follows the pointer to a backup
\* record, that the VM does not have.
NoNullRecord == daemon # "dead"

\* Whatever the LCM is asked to do, the VM has the history record that its
\* handlers read without looking, RECOVER and PROLOG_FAILURE apart.
HandlersHaveHistory ==
    \A i \in 1 .. Len(lcmQ) :
        lcmQ[i] \notin {"RECOVER", "PROLOG_FAILURE"} => HasHistory

\* A VM that migrates has the record of the host it leaves, which the handlers
\* of SAVE_SUCCESS, SAVE_FAILURE, DEPLOY_SUCCESS and DEPLOY_FAILURE read.
MigrationHasSource ==
    vm.lcm \in {"SAVE_MIGRATE", "MIGRATE", "PROLOG_MIGRATE"}
        => HasHistory /\ HasPrevious

\* The VM never runs on two hosts.
SingleDomain == Cardinality(domain) <= 1

\* Once all is quiet, a VM that is RUNNING is found on the host of its record,
\* unless the hypervisor lost it.
RunsWhereRecorded ==
    Quiet /\ vm.lcm = "RUNNING"
          /\ budget.deaths = Scenarios[budget.scenario].deaths
        => domain = {vm.cur.hid}

\* The VM is not started while its images are still on their way: the answer
\* that ends a prolog is the answer to the script of that prolog.
BootAfterTransfer ==
    \A i \in 1 .. Len(vmmOps), j \in 1 .. Len(tmOps) :
        vmmOps[i].op \in {"DEPLOY", "RESTORE"}
            => tmOps[j] \notin {"PROLOG", "PROLOG_RESUME", "PROLOG_MIGR"}

\* When all is quiet, no backup, recovery or disk copy is still said to be
\* under way in the records that the user sees.
RecordsSettle == Quiet => "START" \notin {vm.bk, vm.rs, vm.dk} /\ ~vm.orphan

\* A VM that is DONE stays so.
DoneIsFinal == [][vm.state = "DONE" => vm'.state = "DONE"]_vars

\* A VM does not stay for ever in a state between two others, if users leave
\* it alone: managers and drivers bring it to one they can leave it in.
Settles == []<>(vm.lcm \in {"LCM_INIT", "RUNNING", "UNKNOWN", "OFF"})

Placement == INSTANCE PlacementService
                 WITH share <- [h \in Hosts |-> charge[h].vms],
                      running <- domain

\* The life cycle keeps its promise to the hosts (PlacementService): capacity
\* is taken before the domain starts and given back after it is gone.
KeepsPlacement == Placement!PlacementSpec

=============================================================================
