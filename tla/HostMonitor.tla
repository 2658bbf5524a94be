---------------------------- MODULE HostMonitor ----------------------------
(***************************************************************************)
(* The hosts and the Information Manager that monitors them.               *)
(*                                                                         *)
(* Three threads work on a host: the action loop of the manager asks its   *)
(* driver for news when the timer fires, the listener applies the answers, *)
(* and the threads of the server add, enable, disable and remove hosts.    *)
(* The driver may answer late, out of order or never.  Each step that has  *)
(* the host locked is one action.  HostHook keeps the last state of each   *)
(* host to run the hooks of the administrator.                             *)
(*                                                                         *)
(* Time is what the code asks of it: whether the period of a host is over  *)
(* and whether ten minutes are, both since its last answer.                *)
(***************************************************************************)
EXTENDS Integers, Sequences, SequencesExt, FiniteSetsExt

CONSTANTS
    Hosts,       \* Identifiers of hosts
    Silent,      \* Hosts whose driver need not answer
    HostLimit,   \* HOST_PER_INTERVAL
    Scenarios    \* Settings and bounds: records with the fields
                 \*   hosts     the hosts there may be
                 \*   drivers   the drivers that are started, each with its hosts
                 \*   hook      the state in which the administrator's hook runs
                 \*   sent      bound on the requests to a driver for one host
                 \*   requests  bound on the requests of administrators
                 \*   faults    bound on the crashes of the daemon and its drivers

HostState == {"INIT", "MONITORING", "MONITORED", "ERROR", "DISABLED"}

ASSUME HostMonitorAssumption ==
    /\ Hosts \subseteq Nat /\ IsFiniteSet(Hosts)
    /\ Silent \subseteq Hosts /\ HostLimit \in Nat \ {0}
    /\ \A s \in Scenarios :
        /\ s.hosts \subseteq Hosts /\ s.drivers \subseteq SUBSET Hosts
        /\ s.hook \in HostState /\ s.sent \in Nat \ {0}
        /\ s.requests \in Nat /\ s.faults \in Nat

VARIABLES
    now,         \* The scenario
    state,       \* The state of each host, NoHost if there is none
    order,       \* The hosts of the table, by the time of their last answer
    due,         \* Hosts whose last answer is older than the period
    late,        \* Hosts whose last answer is older than ten minutes
    sent,        \* Requests to the driver that are not answered
    todo,        \* Hosts that the timer has still to look at
    host_states, \* HostStateMapHook: the state of each host that hooks saw
    executing,   \* Hosts whose hook is running
    loaded,      \* The drivers that run
    deaf,        \* TRUE iff the listener waits on a pipe that was closed
    again,       \* Hosts that were asked again, or whose request was lost
    requests,    \* Requests of administrators so far
    faults       \* Crashes so far

vars == <<now, state, order, due, late, sent, todo, host_states, executing,
          loaded, deaf, again, requests, faults>>

NoHost == "none"
Exists(h) == state[h] # NoHost

\* A daemon that starts with some hosts, which answered before.
Init ==
    /\ now \in Scenarios
    /\ \E old \in SUBSET now.hosts :
        /\ state = [h \in Hosts |-> IF h \in old THEN "MONITORED" ELSE NoHost]
        /\ order = SetToSortSeq(old, <)
    /\ due = {} /\ late = {} /\ todo = {} /\ executing = {} /\ again = {}
    /\ sent = [h \in Hosts |-> 0]
    /\ host_states = [h \in Hosts |-> NoHost]
    /\ loaded = now.drivers /\ deaf = FALSE
    /\ requests = 0 /\ faults = 0
-----------------------------------------------------------------------------
(* PoolSQL::update with the hooks of the pool of hosts.                    *)

\* HostStateHook: the hook runs when the state is a new one.
StateHook(h, s) ==
    executing' = IF host_states[h] \notin {NoHost, s} /\ s = now.hook
                 THEN executing \cup {h} ELSE executing

\* Mutant: the state of a host that is in the map is not replaced.
UpdateStateHook_Insert(h, s) ==
    host_states' = IF host_states[h] = NoHost
                   THEN [host_states EXCEPT ![h] = s] ELSE host_states

\* HostUpdateStateHook, the last hook of the pool.
UpdateStateHook(h, s) == host_states' = [host_states EXCEPT ![h] = s]

update(h, s) ==
    /\ StateHook(h, s) /\ UpdateStateHook(h, s)
    /\ state' = [state EXCEPT ![h] = s]

Untouched == UNCHANGED <<state, host_states, executing>>
\* The scenario and the drivers.
drivers == <<now, loaded, deaf>>

\* MadManager::get finds no driver for these hosts.
Driverless == Hosts \ UNION loaded
-----------------------------------------------------------------------------
(* The timer of the Information Manager.                                   *)

Enabled == {h \in Hosts : state[h] \notin {NoHost, "DISABLED"}}

\* Mutant: the hosts are not ordered by their last answer.
discover_ByNumber ==
    LET enabled == SetToSortSeq(Enabled, <)
    IN  ToSet(SubSeq(enabled, 1, Min({HostLimit, Len(enabled)})))

\* HostPool::discover: the hosts that wait longest for an answer.
discover ==
    LET enabled == SelectSeq(order, LAMBDA h : h \in Enabled)
    IN  ToSet(SubSeq(enabled, 1, Min({HostLimit, Len(enabled)})))

Timer ==
    /\ todo = {} /\ discover # {}
    /\ todo' = discover
    /\ UNCHANGED <<order, due, late, sent, drivers, again, requests, faults>>
    /\ Untouched

\* The driver is sent MONITOR.
monitor(h) ==
    /\ sent' = [sent EXCEPT ![h] = Min({@ + 1, now.sent})]
    /\ UNCHANGED again

\* The host begins again with a request under way.
Again(h) == again' = IF sent[h] > 0 THEN again \cup {h} ELSE again

\* Mutant: hosts that are being monitored are monitored too.
Asks_Always(h) == state[h] # "DISABLED" /\ h \in due

Asks(h) == state[h] \notin {"MONITORING", "DISABLED"} /\ h \in due

TimedOut(h) == state[h] = "MONITORING" /\ h \in late

\* The turn of one host, which may be gone by now.  One that did not answer for
\* ten minutes is asked again at a later turn.
timer_action(h) ==
    /\ h \in todo /\ \A g \in todo : h <= g
    /\ todo' = todo \ {h}
    /\ \/ /\ ~Exists(h)
          /\ Untouched /\ UNCHANGED <<sent, again>>
       \/ /\ TimedOut(h)
          /\ update(h, "INIT") /\ Again(h) /\ UNCHANGED sent
       \/ /\ Exists(h) /\ ~TimedOut(h)
          /\ \/ Asks(h) /\ h \in Driverless
                /\ update(h, "ERROR") /\ UNCHANGED <<sent, again>>
             \/ Asks(h) /\ h \notin Driverless
                /\ monitor(h) /\ update(h, "MONITORING")
             \/ ~Asks(h) /\ Untouched /\ UNCHANGED <<sent, again>>
    /\ UNCHANGED <<order, due, late, drivers, requests, faults>>

\* Time passes: the period of a host, then ten minutes.
Elapse(h) ==
    /\ Exists(h) /\ h \notin late
    /\ due' = due \cup {h}
    /\ late' = IF h \in due THEN late \cup {h} ELSE late
    /\ UNCHANGED <<order, sent, todo, drivers, again, requests, faults>>
    /\ Untouched
-----------------------------------------------------------------------------
(* The answers of the driver.                                              *)

\* Mutant: an answer enables the host.
touched_Enabled(h, success) == IF success THEN "MONITORED" ELSE "ERROR"

\* The state that an answer leaves: hosts that are disabled stay so.
touched(h, success) ==
    IF state[h] = "DISABLED" THEN "DISABLED"
    ELSE IF success THEN "MONITORED" ELSE "ERROR"

touch(h, success) ==
    /\ update(h, touched(h, success))
    /\ order' = Append(SelectSeq(order, LAMBDA g : g # h), h)
    /\ due' = due \ {h} /\ late' = late \ {h}

\* An answer to any of the requests; success is what the driver says and
\* whether what it says can be parsed (update_info).
protocol(h, success) ==
    /\ ~deaf /\ sent[h] > 0
    /\ sent' = [sent EXCEPT ![h] = @ - 1]
    /\ again' = IF sent[h] = 1 THEN again \ {h} ELSE again
    /\ IF Exists(h) THEN touch(h, success)
       ELSE Untouched /\ UNCHANGED <<order, due, late>>
    /\ UNCHANGED <<todo, drivers, requests, faults>>

\* A driver dies and is started again: it is loaded, or it does not start and is
\* erased.  recover() does nothing.  The listener goes on with the pipes it knew:
\* unless the new pipe has the number of the old one, select fails from now on
\* and no driver is heard.
DriverDies(d) ==
    /\ faults < now.faults /\ faults' = faults + 1
    /\ ~deaf
    /\ \/ UNCHANGED drivers
       \/ UNCHANGED now /\ deaf' = TRUE /\ loaded' \in {loaded, loaded \ {d}}
    /\ sent' = [h \in Hosts |-> IF h \in d THEN 0 ELSE sent[h]]
    /\ again' = (again \ d) \cup {h \in d : state[h] = "MONITORING"}
    /\ UNCHANGED <<order, due, late, todo, requests>> /\ Untouched

\* The hook ends; the answer of the hook driver is taken for one about the
\* virtual machine with the number of the host.
HookEnds(h) ==
    /\ h \in executing
    /\ executing' = executing \ {h}
    /\ UNCHANGED <<state, order, due, late, sent, todo, host_states, drivers,
                   again, requests, faults>>
-----------------------------------------------------------------------------
(* Requests of administrators.                                             *)

Comes == requests < now.requests /\ requests' = requests + 1

\* A new host has no last answer: its period and the ten minutes are over.
allocate(h) ==
    /\ Comes
    /\ h \in now.hosts /\ ~Exists(h) /\ sent[h] = 0 /\ h \notin todo
    /\ update(h, "INIT")
    /\ order' = <<h>> \o order
    /\ due' = due \cup {h} /\ late' = late \cup {h}
    /\ UNCHANGED <<sent, todo, drivers, again, faults>>

\* An enabled host begins again, also if it was enabled before.
enable(h) ==
    /\ Comes /\ Exists(h)
    /\ update(h, "INIT")
    /\ Again(h)
    /\ UNCHANGED <<order, due, late, sent, todo, drivers, faults>>

disable(h) ==
    /\ Comes /\ Exists(h)
    /\ update(h, "DISABLED")
    /\ UNCHANGED <<order, due, late, sent, todo, drivers, again, faults>>

\* What the hooks know of the host stays.  (That it has no VMs is not asked here.)
drop(h) ==
    /\ Comes /\ Exists(h)
    /\ state' = [state EXCEPT ![h] = NoHost]
    /\ order' = SelectSeq(order, LAMBDA g : g # h)
    /\ due' = due \ {h} /\ late' = late \ {h}
    /\ UNCHANGED <<sent, todo, host_states, executing, drivers, again, faults>>

\* The daemon and its drivers die; the table is left.
Crash ==
    /\ faults < now.faults /\ faults' = faults + 1
    /\ sent' = [h \in Hosts |-> 0]
    /\ again' = {h \in Hosts : state[h] = "MONITORING"}
    /\ todo' = {} /\ executing' = {}
    /\ host_states' = [h \in Hosts |-> NoHost]
    /\ loaded' = now.drivers /\ deaf' = FALSE
    /\ UNCHANGED <<now, state, order, due, late, requests>>

Next ==
    \/ Timer \/ Crash
    \/ \E d \in loaded : DriverDies(d)
    \/ \E h \in Hosts :
        \/ timer_action(h) \/ Elapse(h) \/ HookEnds(h)
        \/ \E success \in BOOLEAN : protocol(h, success)
        \/ allocate(h) \/ enable(h) \/ disable(h) \/ drop(h)

\* The action loop runs, time passes, and drivers that are not silent answer.
Fairness ==
    /\ WF_vars(Timer)
    /\ \A h \in Hosts :
        /\ WF_vars(timer_action(h)) /\ WF_vars(Elapse(h))
        /\ h \notin Silent => WF_vars(\E s \in BOOLEAN : protocol(h, s))

Spec == Init /\ [][Next]_vars /\ Fairness
-----------------------------------------------------------------------------
\* A host that waits for an answer can get one, and no other is under way: the
\* answer that is applied is the one to the last request.  (Not after the host
\* was asked again, because it was enabled in between, because ten minutes had
\* passed since its last answer - which is so for every host that never
\* answered -, or because the driver died.)
OneRequest ==
    \A h \in Hosts : h \notin again =>
        sent[h] <= 1 /\ (state[h] = "MONITORING" => sent[h] = 1)

\* A host that was disabled stays so whatever the timer had found before and
\* whatever answers still come; only a request of an administrator changes it.
DisabledStays ==
    [][\A h \in Hosts : state[h] = "DISABLED" /\ state'[h] # "DISABLED" =>
        requests' = requests + 1]_vars

\* The hook of the administrator runs whenever a host that was updated since
\* the daemon began gets into the state of the hook, whoever moves it there.
HookRuns ==
    [][\A h \in Hosts :
        /\ state[h] \notin {NoHost, now.hook} /\ state'[h] = now.hook
        /\ host_states[h] # NoHost
        => h \in executing']_vars

\* Enabled hosts whose driver need not be heard or does not run.
Stuck == Enabled \cap (IF deaf THEN Hosts ELSE Silent \cup Driverless)

\* Every host that is enabled and has a driver is asked again and again,
\* whatever other hosts do.  (As long as fewer hosts than HOST_PER_INTERVAL
\* have a driver that does not answer or is not loaded: their last answer stays
\* the oldest, and they keep their place among the hosts that are discovered.)
AskedAgain ==
    \A h \in Hosts :
        <>[](h \notin Driverless /\ Cardinality(Stuck) < HostLimit) =>
            /\ []<>(state[h] \in {NoHost, "DISABLED", "MONITORING"})
            /\ []<>(state[h] # "MONITORING")
=============================================================================
