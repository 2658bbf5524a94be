---------------------------- MODULE AuthManager ----------------------------
(***************************************************************************)
(* The Authorization Manager and its driver.                               *)
(*                                                                         *)
(* A thread that serves a user makes an AuthRequest on its stack, triggers *)
(* the manager and waits.  From then on others hold a pointer to it: the   *)
(* queue of the manager (ActionManager), its action loop, the table of     *)
(* requests sent to the driver, the listener that reads the answers        *)
(* (MadManager), and the timer.  Whoever answers wakes the thread, which   *)
(* returns, and the request is gone.                                       *)
(*                                                                         *)
(* The driver is a process: it answers in any order, late or never, and    *)
(* dies.  The listener takes an end of file, or a line that stops for 25   *)
(* ms, for its death and starts it again; if that fails it forgets it.     *)
(*                                                                         *)
(* The identifiers of requests count up; only whether two are equal        *)
(* matters, so the model takes one that nobody has.                        *)
(***************************************************************************)
EXTENDS Integers, Sequences, SequencesExt, FiniteSets

CONSTANTS
    Threads,   \* Threads of the XML-RPC server
    MaxLines,  \* Bound on the identifiers under way, with those the driver has
    MaxFaults  \* Bound on the deaths of the driver

NoThread == "nobody"

ASSUME AuthManagerAssumption ==
    /\ NoThread \notin Threads
    /\ MaxLines \in Nat \ {0} /\ MaxFaults \in Nat

VARIABLES
    request,       \* The AuthRequest of each thread
    queue,         \* The actions of the manager, as the threads that wait
    loop,          \* What the action loop does
    auth_requests, \* The table: a function from identifiers to threads
    driver,        \* The driver: alive, lines it has and lines it wrote
    mads,          \* TRUE iff the driver is in the vector of drivers
    listening,     \* What the listener does
    daemon,        \* "up", or "undefined" once memory that is gone was used
    faults         \* Deaths of the driver so far

vars == <<request, queue, loop, auth_requests, driver, mads, listening, daemon,
          faults>>

Ids == 1..MaxLines

NoRequest == [at |-> "none", time_out |-> "none", result |-> "none"]
IdleLoop == [at |-> "idle", thread |-> NoThread, id |-> 0]
NoAnswer == NoThread
NewDriver == [alive |-> TRUE, inbox |-> {}, outbox |-> <<>>]

\* The manager has started and loaded its driver.
Init ==
    /\ request = [t \in Threads |-> NoRequest]
    /\ queue = <<>> /\ loop = IdleLoop
    /\ auth_requests = [id \in {} |-> NoThread]
    /\ driver = NewDriver /\ mads = TRUE
    /\ listening = NoAnswer
    /\ daemon = "up" /\ faults = 0

Up == daemon = "up"
-----------------------------------------------------------------------------
(* The thread that asks: UserPool::authenticate and authorize.             *)

\* Identifiers in the table, and those that the driver has or has answered.
Used == DOMAIN auth_requests \cup driver.inbox \cup ToSet(driver.outbox)

\* Bound: there is an identifier for every request.
Room == Cardinality(Used) + Len(queue) + (IF loop.at = "add" THEN 1 ELSE 0)
            < MaxLines

\* add_authenticate or add_auth, then trigger; with an authorisation comes at
\* least one thing to authorise, or the core would have answered.
trigger(t) ==
    /\ Up /\ request[t] = NoRequest /\ Room
    /\ request' = [request EXCEPT ![t].at = "asked"]
    /\ queue' = Append(queue, t)
    /\ UNCHANGED <<loop, auth_requests, driver, mads, listening, daemon, faults>>

\* Mutant: the time to wait is not set.
StartWait_Never(t) == request' = [request EXCEPT ![t].at = "waits"]

StartWait(t) ==
    request' = [request EXCEPT ![t] =
                    [@ EXCEPT !.at = "waits", !.time_out = "set"]]

\* wait: the time begins now, maybe after the answer.
wait(t) ==
    /\ Up /\ request[t].at = "asked"
    /\ StartWait(t)
    /\ UNCHANGED <<queue, loop, auth_requests, driver, mads, listening, daemon,
                   faults>>

\* The loop of the request gets FINALIZE: the thread reads the result and the
\* request is gone.
Return(t) ==
    /\ Up /\ request[t].at = "waits" /\ request[t].result = "written"
    /\ request' = [request EXCEPT ![t] = NoRequest]
    /\ UNCHANGED <<queue, loop, auth_requests, driver, mads, listening, daemon,
                   faults>>

\* Time passes.
Elapse(t) ==
    /\ Up /\ request[t].time_out = "set"
    /\ request' = [request EXCEPT ![t].time_out = "over"]
    /\ UNCHANGED <<queue, loop, auth_requests, driver, mads, listening, daemon,
                   faults>>

\* Requests that are there: others may write to them.
Alive(ts) == \A t \in ts : request[t].at # "none"

\* The results of requests ts are written and their threads woken; that is
\* undefined for those that are gone.
notify(ts) ==
    IF Alive(ts)
    THEN /\ request' = [t \in Threads |-> IF t \in ts
                                          THEN [request[t] EXCEPT !.result = "written"]
                                          ELSE request[t]]
         /\ UNCHANGED daemon
    ELSE daemon' = "undefined" /\ UNCHANGED request
-----------------------------------------------------------------------------
(* The action loop: ActionManager::loop and the actions of AuthManager.    *)

\* AUTHENTICATE and AUTHORIZE: without a driver the request is answered; else
\* the manager has a pointer to the driver.
GetDriver ==
    /\ Up /\ loop.at = "idle" /\ queue # <<>>
    /\ queue' = Tail(queue)
    /\ IF mads THEN /\ loop' = [at |-> "add", thread |-> Head(queue), id |-> 0]
                    /\ UNCHANGED <<request, daemon>>
       ELSE notify({Head(queue)}) /\ UNCHANGED loop
    /\ UNCHANGED <<auth_requests, driver, mads, listening, faults>>

add_request ==
    /\ Up /\ loop.at = "add"
    /\ LET id == CHOOSE id \in Ids \ Used : TRUE IN
        /\ auth_requests' = [i \in DOMAIN auth_requests \cup {id} |->
                IF i = id THEN loop.thread ELSE auth_requests[i]]
        /\ loop' = [at |-> "write", thread |-> loop.thread, id |-> id]
    /\ UNCHANGED <<request, queue, driver, mads, listening, daemon, faults>>

\* authenticate or authorize of the driver: a line to its pipe, which is lost
\* if it is dead.  The driver may be deleted by now.
write ==
    /\ Up /\ loop.at = "write"
    /\ loop' = IdleLoop
    /\ driver' = IF driver.alive
                 THEN [driver EXCEPT !.inbox = @ \cup {loop.id}] ELSE driver
    /\ daemon' = IF mads /\ Alive({loop.thread}) THEN daemon ELSE "undefined"
    /\ UNCHANGED <<request, queue, auth_requests, mads, listening, faults>>

TimedOut == {id \in DOMAIN auth_requests :
                request[auth_requests[id]].time_out = "over"}

Without(ids) ==
    auth_requests' = [id \in DOMAIN auth_requests \ ids |-> auth_requests[id]]

\* The timer: only when the queue is empty.
timer_action ==
    /\ Up /\ loop.at = "idle" /\ queue = <<>> /\ TimedOut # {}
    /\ Without(TimedOut)
    /\ notify({auth_requests[id] : id \in TimedOut})
    /\ UNCHANGED <<queue, loop, driver, mads, listening, faults>>
-----------------------------------------------------------------------------
(* The driver, and the listener of MadManager.                             *)

\* The driver writes an answer.
Answer(id) ==
    /\ Up /\ driver.alive /\ id \in driver.inbox
    /\ driver' = [alive |-> TRUE, inbox |-> driver.inbox \ {id},
                  outbox |-> Append(driver.outbox, id)]
    /\ UNCHANGED <<request, queue, loop, auth_requests, mads, listening, daemon,
                   faults>>

\* It dies; what it wrote can still be read.
Dies ==
    /\ Up /\ driver.alive
    /\ faults < MaxFaults /\ faults' = faults + 1
    /\ driver' = [alive |-> FALSE, inbox |-> {}, outbox |-> driver.outbox]
    /\ UNCHANGED <<request, queue, loop, auth_requests, mads, listening, daemon>>

\* Mutant: the request stays in the table.
get_request_Keep(id) == UNCHANGED auth_requests

get_request(id) == Without({id})

\* A line was read; the request is taken from the table, if it is still there.
protocol ==
    /\ Up /\ mads /\ listening = NoAnswer /\ driver.outbox # <<>>
    /\ driver' = [driver EXCEPT !.outbox = Tail(@)]
    /\ LET id == Head(driver.outbox) IN
        IF id \in DOMAIN auth_requests
        THEN listening' = auth_requests[id] /\ get_request(id)
        ELSE UNCHANGED <<listening, auth_requests>>
    /\ UNCHANGED <<request, queue, loop, mads, daemon, faults>>

\* The result is written without the lock.
notify_request ==
    /\ Up /\ listening # NoAnswer
    /\ notify({listening})
    /\ listening' = NoAnswer
    /\ UNCHANGED <<queue, loop, auth_requests, driver, mads, faults>>

\* The pipe is at its end, or a line that came has a gap.
Broken == (driver.outbox = <<>> /\ ~driver.alive)
          \/ (driver.outbox # <<>> /\ driver.alive /\ faults < MaxFaults)

\* reload: the driver is finished and started again, and what it had is lost;
\* recover does nothing.  If it does not start it is deleted.
reload(starts) ==
    /\ Up /\ mads /\ listening = NoAnswer /\ Broken
    /\ faults' = IF driver.alive THEN faults + 1 ELSE faults
    /\ driver' = [alive |-> starts, inbox |-> {}, outbox |-> <<>>]
    /\ mads' = starts
    /\ UNCHANGED <<request, queue, loop, auth_requests, listening, daemon>>

\* The listener still has the descriptor of a driver that was deleted, and
\* takes the driver at its position: there is none.
ListensToNobody ==
    /\ Up /\ ~mads
    /\ daemon' = "undefined"
    /\ UNCHANGED <<request, queue, loop, auth_requests, driver, mads, listening,
                   faults>>

Next ==
    \/ \E t \in Threads : trigger(t) \/ wait(t) \/ Return(t) \/ Elapse(t)
    \/ GetDriver \/ add_request \/ write \/ timer_action
    \/ \E id \in Ids : Answer(id)
    \/ Dies \/ protocol \/ notify_request
    \/ \E starts \in BOOLEAN : reload(starts)
    \/ ListensToNobody

\* Threads go on, time passes and the loop runs.  When the time of the timer is
\* over it is enough that the loop finds its queue empty again and again.
\* Neither users nor the driver need do anything.
Fairness ==
    /\ \A t \in Threads : WF_vars(wait(t)) /\ WF_vars(Return(t))
                          /\ WF_vars(Elapse(t))
    /\ WF_vars(GetDriver) /\ WF_vars(add_request) /\ WF_vars(write)
    /\ SF_vars(timer_action)
    /\ WF_vars(protocol) /\ WF_vars(notify_request)
    /\ WF_vars(\E starts \in BOOLEAN : reload(starts))

Spec == Init /\ [][Next]_vars /\ Fairness
-----------------------------------------------------------------------------
\* How many hold request t to answer it: the queue, the loop before the request
\* is in the table, the table and the listener.
Holders(t) ==
    Cardinality({i \in DOMAIN queue : queue[i] = t})
    + Cardinality({id \in DOMAIN auth_requests : auth_requests[id] = t})
    + (IF loop.at = "add" /\ loop.thread = t THEN 1 ELSE 0)
    + (IF listening = t THEN 1 ELSE 0)

\* A request that waits is held by exactly one who will answer it, and one that
\* was answered, or is gone, by nobody; so that no answer, late or doubled, and
\* no timeout writes to a request whose thread has returned, and none is lost.
OneHolder ==
    \A t \in Threads :
        Holders(t) = IF request[t].at # "none" /\ request[t].result = "none" THEN 1
                     ELSE 0

\* Every thread gets its answer, whatever the driver does and however busy the
\* manager is.  (As long as the driver, once dead, can be started again: the
\* listener goes wrong after a driver that it could not start.)
Answered == \A t \in Threads : []<>(request[t].at = "none" \/ ~Up)
=============================================================================
