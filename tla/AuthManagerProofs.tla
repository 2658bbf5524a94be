------------------------- MODULE AuthManagerProofs -------------------------
(***************************************************************************)
(* Every request to the Authorization Manager is answered by one, and none *)
(* is written to after its thread returned: proved for any number of       *)
(* threads, identifiers and deaths of the driver.                          *)
(***************************************************************************)
EXTENDS AuthManager, FiniteSetTheorems, TLAPS

AuthRequest ==
    [at : {"none", "asked", "waits"}, time_out : {"none", "set", "over"},
     result : {"none", "written"}]

TypeInv ==
    /\ request \in [Threads -> AuthRequest]
    /\ queue \in Seq(Threads)
    /\ loop \in [at : {"idle", "add", "write"},
                 thread : Threads \cup {NoThread}, id : Nat]
    /\ DOMAIN auth_requests \subseteq Ids
    /\ auth_requests \in [DOMAIN auth_requests -> Threads]
    /\ driver \in [alive : BOOLEAN, inbox : SUBSET Ids, outbox : Seq(Ids)]
    /\ mads \in BOOLEAN
    /\ listening \in Threads \cup {NoThread}
    /\ daemon \in {"up", "undefined"}

\* Who has a pointer to the request of thread t, to answer it.
InQueue(t)    == \E i \in DOMAIN queue : queue[i] = t
InTable(t)    == \E id \in DOMAIN auth_requests : auth_requests[id] = t
InLoop(t)     == loop.at = "add" /\ loop.thread = t
InListener(t) == listening = t
Waits(t)      == request[t].at # "none" /\ request[t].result = "none"

\* A request is once in the queue and once in the table.
Distinct ==
    /\ \A i, j \in DOMAIN queue : queue[i] = queue[j] => i = j
    /\ \A i, j \in DOMAIN auth_requests :
        auth_requests[i] = auth_requests[j] => i = j

\* It is held in one place if it waits and nowhere else.
Held ==
    \A t \in Threads :
        /\ Waits(t) <=> InQueue(t) \/ InTable(t) \/ InLoop(t) \/ InListener(t)
        /\ InQueue(t) => ~InTable(t) /\ ~InLoop(t) /\ ~InListener(t)
        /\ InTable(t) => ~InLoop(t) /\ ~InListener(t)
        /\ InLoop(t) => ~InListener(t)

\* Between add_request and write nobody can answer the request: the driver does
\* not have its identifier yet, and the timer belongs to the same loop.
Written ==
    /\ loop.at = "add" => loop.thread \in Threads
    /\ loop.at = "write" =>
        /\ loop.id \in DOMAIN auth_requests
        /\ auth_requests[loop.id] = loop.thread
        /\ loop.id \notin driver.inbox \cup ToSet(driver.outbox)

\* There is an identifier for each request on its way to the table.
Enough ==
    Cardinality(Used) + Len(queue) + (IF loop.at = "add" THEN 1 ELSE 0)
        <= MaxLines

\* Nothing goes wrong with a request; only a driver that is gone is missed.
OnlyDriver == daemon = "undefined" => ~mads

AuthInv == TypeInv /\ Distinct /\ Held /\ Written /\ Enough /\ OnlyDriver
-----------------------------------------------------------------------------
(* Lemmas about the operators.                                             *)

\* Answering requests that wait does what it should, and ends their wait.
LEMMA NotifyWaiting ==
    ASSUME TypeInv, NEW ts \in SUBSET Threads, \A t \in ts : Waits(t),
           notify(ts)
    PROVE  /\ request' \in [Threads -> AuthRequest] /\ daemon' = daemon
           /\ \A t \in Threads : Waits(t)' <=> Waits(t) /\ t \notin ts
  <1>1. Alive(ts)
    BY DEF Alive, Waits
  <1>2. /\ request' = [t \in Threads |->
                IF t \in ts THEN [request[t] EXCEPT !.result = "written"]
                ELSE request[t]]
        /\ daemon' = daemon
    BY <1>1 DEF notify
  <1> QED BY <1>2 DEF TypeInv, AuthRequest, Waits

LEMMA WaitField ==
    ASSUME NEW r \in AuthRequest
    PROVE  LET new == [r EXCEPT !.at = "waits", !.time_out = "set"]
           IN  new \in AuthRequest /\ new.at = "waits" /\ new.result = r.result
  BY DEF AuthRequest

\* What a queue has after an element is added or taken.
LEMMA AppendHas ==
    ASSUME NEW S, NEW s \in Seq(S), NEW x \in S, NEW y
    PROVE  (\E i \in DOMAIN Append(s, x) : Append(s, x)[i] = y)
               <=> (\E i \in DOMAIN s : s[i] = y) \/ y = x
  <1>1. /\ DOMAIN s = 1..Len(s) /\ DOMAIN Append(s, x) = 1..(Len(s) + 1)
        /\ Len(s) \in Nat /\ Append(s, x)[Len(s) + 1] = x
        /\ \A i \in 1..Len(s) : Append(s, x)[i] = s[i]
    OBVIOUS
  <1> QED BY <1>1

LEMMA HeadHas ==
    ASSUME NEW S, NEW s \in Seq(S), s # <<>>, NEW y
    PROVE  (\E i \in DOMAIN s : s[i] = y)
               <=> (\E i \in DOMAIN Tail(s) : Tail(s)[i] = y) \/ y = Head(s)
  <1>1. /\ DOMAIN s = 1..Len(s) /\ DOMAIN Tail(s) = 1..(Len(s) - 1)
        /\ Len(s) \in Nat /\ Len(s) > 0 /\ Head(s) = s[1]
        /\ \A i \in 1..(Len(s) - 1) : Tail(s)[i] = s[i + 1]
    OBVIOUS
  <1>2. ASSUME NEW i \in DOMAIN s, s[i] = y, y # Head(s)
        PROVE  i - 1 \in DOMAIN Tail(s) /\ Tail(s)[i - 1] = y
    BY <1>1, <1>2
  <1>3. ASSUME NEW i \in DOMAIN Tail(s), Tail(s)[i] = y
        PROVE  i + 1 \in DOMAIN s /\ s[i + 1] = y
    BY <1>1, <1>3
  <1> QED BY <1>1, <1>2, <1>3

\* Identifiers in use are identifiers.
LEMMA UsedFinite ==
    ASSUME TypeInv
    PROVE  /\ Used \in SUBSET Ids /\ IsFiniteSet(Used)
           /\ Cardinality(Used) \in Nat /\ Len(queue) \in Nat
  <1>1. IsFiniteSet(Ids)
    BY FS_Interval, AuthManagerAssumption DEF Ids
  <1>2. Used \in SUBSET Ids
    BY DEF Used, TypeInv, ToSet
  <1> QED BY <1>1, <1>2, FS_Subset, FS_CardinalityType DEF TypeInv

\* The identifier that add_request takes is one that nobody has.
LEMMA NewId ==
    ASSUME TypeInv, Enough, loop.at = "add"
    PROVE  (CHOOSE id \in Ids \ Used : TRUE) \in Ids \ Used
  <1>1. Cardinality(Used) < MaxLines
    BY UsedFinite, AuthManagerAssumption DEF Enough
  <1>2. Cardinality(Ids) = MaxLines
    BY FS_Interval, AuthManagerAssumption DEF Ids
  <1>3. Used # Ids
    BY <1>1, <1>2, UsedFinite, AuthManagerAssumption
  <1>4. Ids \ Used # {}
    BY <1>3, UsedFinite
  <1> QED BY <1>4

\* Fewer identifiers in use leave enough.
LEMMA EnoughKept ==
    ASSUME TypeInv, TypeInv', Enough, Used' \subseteq Used,
           Len(queue') + (IF loop'.at = "add" THEN 1 ELSE 0)
               <= Len(queue) + (IF loop.at = "add" THEN 1 ELSE 0)
    PROVE  Enough'
  <1>1. Cardinality(Used') <= Cardinality(Used) /\ Cardinality(Used') \in Nat
    BY UsedFinite, FS_Subset, FS_CardinalityType
  <1>2. Len(queue) \in Nat /\ Len(queue') \in Nat /\ Cardinality(Used) \in Nat
    BY UsedFinite DEF TypeInv
  <1> QED BY <1>1, <1>2, AuthManagerAssumption DEF Enough
-----------------------------------------------------------------------------
LEMMA InitAuth == Init => AuthInv
  <1> SUFFICES ASSUME Init PROVE AuthInv
    OBVIOUS
  <1> USE DEF Init, NoRequest, IdleLoop, NewDriver, NoAnswer
  <1>1. TypeInv
    BY DEF TypeInv, AuthRequest
  <1>2. Distinct /\ Written /\ OnlyDriver
    BY DEF Distinct, Written, OnlyDriver
  <1>3. Held
    BY AuthManagerAssumption DEF Held, InQueue, InTable, InLoop, InListener, Waits
  <1>4. Enough
    <2>1. Used = {}
      BY DEF Used, ToSet
    <2> QED BY <2>1, FS_EmptySet, AuthManagerAssumption DEF Enough
  <1> QED BY <1>1, <1>2, <1>3, <1>4 DEF AuthInv

\* The thread that asks.
LEMMA ThreadSteps ==
    ASSUME AuthInv, NEW t \in Threads,
           trigger(t) \/ wait(t) \/ Return(t) \/ Elapse(t)
    PROVE  AuthInv'
  <1> USE DEF AuthInv
  <1>1. CASE trigger(t)
    <2> USE <1>1 DEF trigger, NoRequest
    <2>1. TypeInv'
      BY DEF TypeInv, AuthRequest
    <2>2. ~InQueue(t) /\ ~InTable(t) /\ ~InLoop(t) /\ ~InListener(t)
      BY DEF Held, Waits
    <2>3. \A u \in Threads : /\ InQueue(u)' <=> InQueue(u) \/ u = t
                             /\ Waits(u)' <=> Waits(u) \/ u = t
      <3>0. queue \in Seq(Threads)
        BY DEF TypeInv
      <3>1. ASSUME NEW u \in Threads
            PROVE  InQueue(u)' <=> InQueue(u) \/ u = t
        <4>1. (\E i \in DOMAIN Append(queue, t) : Append(queue, t)[i] = u)
                 <=> (\E i \in DOMAIN queue : queue[i] = u) \/ u = t
          BY <3>0, AppendHas
        <4> QED BY <4>1 DEF InQueue
      <3>2. \A u \in Threads : Waits(u)' <=> Waits(u) \/ u = t
        BY DEF Waits, TypeInv, AuthRequest
      <3> QED BY <3>1, <3>2
    <2>4. Held'
      BY <2>2, <2>3 DEF Held, InTable, InLoop, InListener
    <2>5. Distinct'
      BY <2>2 DEF Distinct, InQueue, TypeInv
    <2>6. Enough'
      <3>1. Len(queue') = Len(queue) + 1 /\ Used' = Used
        BY DEF TypeInv, Used
      <3> QED BY <3>1, UsedFinite, AuthManagerAssumption DEF Enough, Room
    <2> QED BY <2>1, <2>4, <2>5, <2>6 DEF Written, OnlyDriver
  <1>2. CASE wait(t) \/ Return(t) \/ Elapse(t)
    <2>1. UNCHANGED <<queue, loop, auth_requests, driver, mads, listening, daemon>>
      BY <1>2 DEF wait, Return, Elapse
    <2>2. request' \in [Threads -> AuthRequest]
      <3>1. CASE wait(t)
        BY <3>1, WaitField DEF wait, StartWait, TypeInv
      <3>2. CASE Return(t)
        BY <3>2 DEF Return, NoRequest, TypeInv, AuthRequest
      <3>3. CASE Elapse(t)
        BY <3>3 DEF Elapse, TypeInv, AuthRequest
      <3> QED BY <1>2, <3>1, <3>2, <3>3
    <2>6. TypeInv'
      BY <2>1, <2>2 DEF TypeInv
    <2>7. \A u \in Threads : Waits(u)' <=> Waits(u)
      <3>1. CASE wait(t)
        <4>1. request[t].at = "asked" /\ request[t] \in AuthRequest
          BY <3>1 DEF wait, TypeInv
        <4>2. request'[t].at = "waits" /\ request'[t].result = request[t].result
          BY <3>1, <4>1, WaitField DEF wait, StartWait, TypeInv
        <4>3. \A u \in Threads : u # t => request'[u] = request[u]
          BY <3>1 DEF wait, StartWait, TypeInv
        <4> QED BY <4>1, <4>2, <4>3 DEF Waits
      <3>2. CASE Return(t) \/ Elapse(t)
        BY <3>2 DEF Elapse, Return, NoRequest, TypeInv, AuthRequest, Waits
      <3> QED BY <1>2, <3>1, <3>2
    <2>3. Held'
      BY <2>1, <2>7 DEF Held, InQueue, InTable, InLoop, InListener
    <2>4. Distinct' /\ Written' /\ OnlyDriver'
      BY <2>1 DEF Distinct, Written, OnlyDriver
    <2>5. Enough'
      BY <2>1 DEF Enough, Used
    <2> QED BY <2>6, <2>3, <2>4, <2>5
  <1> QED BY <1>1, <1>2

\* The first request of the queue is nowhere else in it.
LEMMA First ==
    ASSUME AuthInv, queue # <<>>
    PROVE  /\ Head(queue) \in Threads /\ InQueue(Head(queue))
           /\ Tail(queue) \in Seq(Threads)
           /\ Len(Tail(queue)) = Len(queue) - 1
           /\ \A u \in Threads :
                (\E i \in DOMAIN Tail(queue) : Tail(queue)[i] = u)
                    <=> InQueue(u) /\ u # Head(queue)
           /\ \A i, j \in DOMAIN Tail(queue) :
                Tail(queue)[i] = Tail(queue)[j] => i = j
  <1>1. queue \in Seq(Threads)
    BY DEF AuthInv, TypeInv
  <1>2. /\ DOMAIN queue = 1..Len(queue)
        /\ DOMAIN Tail(queue) = 1..(Len(queue) - 1)
        /\ Len(queue) \in Nat /\ Len(queue) > 0 /\ Head(queue) = queue[1]
        /\ \A i \in 1..(Len(queue) - 1) : Tail(queue)[i] = queue[i + 1]
    BY <1>1
  <1>3. \A i, j \in 1..Len(queue) : queue[i] = queue[j] => i = j
    BY <1>2 DEF AuthInv, Distinct
  <1>4. ASSUME NEW u \in Threads
        PROVE  (\E i \in DOMAIN Tail(queue) : Tail(queue)[i] = u)
                   <=> InQueue(u) /\ u # Head(queue)
    <2>1. (\E i \in DOMAIN queue : queue[i] = u)
              <=> (\E i \in DOMAIN Tail(queue) : Tail(queue)[i] = u)
                  \/ u = Head(queue)
      BY <1>1, HeadHas
    <2>2. \A i \in DOMAIN Tail(queue) : Tail(queue)[i] # Head(queue)
      BY <1>2, <1>3
    <2> QED BY <2>1, <2>2 DEF InQueue
  <1>5. \A i, j \in DOMAIN Tail(queue) : Tail(queue)[i] = Tail(queue)[j] => i = j
    BY <1>2, <1>3
  <1>6. InQueue(Head(queue))
    BY <1>2 DEF InQueue
  <1> QED BY <1>1, <1>4, <1>5, <1>6

\* The action loop.
LEMMA GetDriverStep ==
    ASSUME AuthInv, GetDriver
    PROVE  AuthInv'
  <1> USE DEF AuthInv, GetDriver
  <1>1. queue # <<>> /\ queue' = Tail(queue) /\ loop.at = "idle"
    OBVIOUS
  <1>2. /\ \A u \in Threads : InQueue(u)' <=> InQueue(u) /\ u # Head(queue)
        /\ Head(queue) \in Threads /\ InQueue(Head(queue))
        /\ queue' \in Seq(Threads) /\ Len(queue') = Len(queue) - 1
    BY <1>1, First DEF InQueue
  <1>3. Distinct'
    BY <1>1, First DEF Distinct
  <1>4. Used' = Used
    BY DEF Used
  <1>5. CASE mads
    <2>1. /\ loop'.at = "add" /\ loop'.thread = Head(queue)
          /\ loop' \in [at : {"idle", "add", "write"},
                        thread : Threads \cup {NoThread}, id : Nat]
      BY <1>2, <1>5 DEF IdleLoop
    <2>2. TypeInv'
      BY <1>2, <1>5, <2>1 DEF TypeInv
    <2>3. \A u \in Threads : InLoop(u)' <=> u = Head(queue)
      BY <2>1 DEF InLoop
    <2>4. Held'
      BY <1>1, <1>2, <1>5, <2>3 DEF Held, InTable, InLoop, InListener, Waits
    <2>5. Enough'
      BY <1>1, <1>2, <1>4, <2>1, <2>2, EnoughKept DEF TypeInv
    <2>6. Written' /\ OnlyDriver'
      BY <1>2, <1>5, <2>1 DEF Written, OnlyDriver
    <2> QED BY <1>3, <2>2, <2>4, <2>5, <2>6
  <1>6. CASE ~mads
    <2>1. Waits(Head(queue))
      BY <1>2 DEF Held
    <2>2. /\ request' \in [Threads -> AuthRequest] /\ daemon' = daemon
          /\ \A u \in Threads : Waits(u)' <=> Waits(u) /\ u \notin {Head(queue)}
      BY <1>2, <1>6, <2>1, NotifyWaiting
    <2>3. TypeInv'
      BY <1>2, <1>6, <2>2 DEF TypeInv
    <2>4. Held'
      BY <1>1, <1>2, <1>6, <2>2 DEF Held, InTable, InLoop, InListener
    <2>5. Enough'
      BY <1>1, <1>2, <1>4, <1>6, <2>3, EnoughKept DEF TypeInv
    <2>6. Written' /\ OnlyDriver'
      BY <1>1, <1>6, <2>2 DEF Written, OnlyDriver
    <2> QED BY <1>3, <2>3, <2>4, <2>5, <2>6
  <1> QED BY <1>5, <1>6

LEMMA AddStep ==
    ASSUME AuthInv, add_request
    PROVE  AuthInv'
  <1> USE DEF AuthInv, add_request
  <1> DEFINE new == CHOOSE id \in Ids \ Used : TRUE
  <1>1. new \in Ids /\ new \notin Used
    BY NewId
  <1>2. /\ loop.at = "add" /\ loop.thread \in Threads
        /\ auth_requests' = [i \in DOMAIN auth_requests \cup {new} |->
                IF i = new THEN loop.thread ELSE auth_requests[i]]
        /\ loop' = [at |-> "write", thread |-> loop.thread, id |-> new]
    BY DEF Written
  <1>3. /\ loop'.at = "write" /\ loop'.thread = loop.thread /\ loop'.id = new
        /\ loop' \in [at : {"idle", "add", "write"},
                      thread : Threads \cup {NoThread}, id : Nat]
    BY <1>1, <1>2, AuthManagerAssumption DEF TypeInv, Ids
  <1> HIDE DEF new
  <1>4. new \notin DOMAIN auth_requests
    BY <1>1 DEF Used
  <1>5. TypeInv'
    BY <1>1, <1>2, <1>3 DEF TypeInv
  <1>6. ~InTable(loop.thread)
    BY <1>2 DEF Held, InLoop
  <1>7. \A u \in Threads : /\ InTable(u)' <=> InTable(u) \/ u = loop.thread
                           /\ InLoop(u) <=> u = loop.thread
                           /\ ~InLoop(u)'
    BY <1>2, <1>3, <1>4 DEF InTable, InLoop
  <1>8. Held'
    BY <1>2, <1>7 DEF Held, InQueue, InListener, Waits
  <1>9. Distinct'
    BY <1>2, <1>4, <1>6 DEF Distinct, InTable
  <1>10. Written'
    BY <1>1, <1>2, <1>3 DEF Written, Used
  <1>11. Enough'
    <2>1. Used' = Used \cup {new}
      BY <1>2 DEF Used
    <2>2. Cardinality(Used') = Cardinality(Used) + 1
      BY <1>1, <2>1, UsedFinite, FS_AddElement
    <2> QED BY <1>2, <1>3, <2>2, UsedFinite, AuthManagerAssumption DEF Enough
  <1> QED BY <1>5, <1>8, <1>9, <1>10, <1>11 DEF OnlyDriver

LEMMA WriteStep ==
    ASSUME AuthInv, write
    PROVE  AuthInv'
  <1> USE DEF AuthInv, write
  <1>1. loop.id \in DOMAIN auth_requests /\ auth_requests[loop.id] = loop.thread
    BY DEF Written
  <1>2. loop.thread \in Threads /\ InTable(loop.thread)
    BY <1>1 DEF InTable, TypeInv
  <1>3. Alive({loop.thread})
    BY <1>2 DEF Held, Waits, Alive
  <1>4. OnlyDriver'
    BY <1>3 DEF OnlyDriver, Up
  <1>5. /\ driver'.outbox = driver.outbox
        /\ driver'.inbox \in {driver.inbox, driver.inbox \cup {loop.id}}
        /\ driver' \in [alive : BOOLEAN, inbox : SUBSET Ids, outbox : Seq(Ids)]
    BY <1>1 DEF TypeInv
  <1>6. TypeInv'
    BY <1>5 DEF TypeInv, IdleLoop
  <1>7. Used' = Used
    BY <1>1, <1>5 DEF Used
  <1>8. Enough'
    BY <1>6, <1>7, EnoughKept DEF IdleLoop, TypeInv
  <1>9. Held'
    BY DEF Held, InQueue, InTable, InLoop, InListener, Waits, IdleLoop
  <1> QED BY <1>4, <1>6, <1>8, <1>9 DEF Distinct, Written, IdleLoop

LEMMA TimerStep ==
    ASSUME AuthInv, timer_action
    PROVE  AuthInv'
  <1> USE DEF AuthInv, timer_action
  <1> DEFINE ts == {auth_requests[id] : id \in TimedOut}
  <1>1. TimedOut \subseteq DOMAIN auth_requests /\ ts \in SUBSET Threads
    BY DEF TimedOut, TypeInv
  <1>2. \A t \in ts : InTable(t) /\ Waits(t)
    BY <1>1 DEF Held, InTable
  <1>3. /\ request' \in [Threads -> AuthRequest] /\ daemon' = daemon
        /\ \A t \in Threads : Waits(t)' <=> Waits(t) /\ t \notin ts
    BY <1>1, <1>2, NotifyWaiting
  <1>4. auth_requests' = [id \in DOMAIN auth_requests \ TimedOut |-> auth_requests[id]]
    BY DEF Without
  <1>5. TypeInv'
    BY <1>3, <1>4 DEF TypeInv
  <1>6. \A t \in Threads : InTable(t)' <=> InTable(t) /\ t \notin ts
    BY <1>1, <1>4 DEF InTable, Distinct
  <1>7. Held'
    BY <1>2, <1>3, <1>6 DEF Held, InQueue, InLoop, InListener
  <1>8. Distinct'
    BY <1>4 DEF Distinct
  <1>9. Used' \subseteq Used
    BY <1>4 DEF Used
  <1>10. Enough'
    BY <1>5, <1>9, EnoughKept DEF TypeInv
  <1> QED BY <1>3, <1>5, <1>7, <1>8, <1>10 DEF Written, OnlyDriver
-----------------------------------------------------------------------------
(* The driver and the listener.                                            *)

\* A step that moves lines of the driver, and adds none, keeps the invariant.
LEMMA DriverMoves ==
    ASSUME AuthInv,
           UNCHANGED <<request, queue, loop, auth_requests, mads, listening, daemon>>,
           driver' \in [alive : BOOLEAN, inbox : SUBSET Ids, outbox : Seq(Ids)],
           driver'.inbox \cup ToSet(driver'.outbox)
               \subseteq driver.inbox \cup ToSet(driver.outbox)
    PROVE  AuthInv'
  <1> USE DEF AuthInv
  <1>1. TypeInv'
    BY DEF TypeInv
  <1>2. Used' \subseteq Used
    BY DEF Used
  <1>3. Enough'
    BY <1>1, <1>2, EnoughKept DEF TypeInv
  <1>4. Held' /\ Distinct' /\ OnlyDriver'
    BY DEF Held, InQueue, InTable, InLoop, InListener, Waits, Distinct, OnlyDriver
  <1>5. Written'
    BY DEF Written
  <1> QED BY <1>1, <1>3, <1>4, <1>5

\* The lines of a pipe after one is written or read.
LEMMA AppendLines ==
    ASSUME NEW S, NEW s \in Seq(S), NEW x \in S
    PROVE  ToSet(Append(s, x)) = ToSet(s) \cup {x}
  <1>1. \A y : y \in ToSet(Append(s, x)) <=> y \in ToSet(s) \/ y = x
    BY AppendHas DEF ToSet
  <1> QED BY <1>1

LEMMA TailLines ==
    ASSUME NEW S, NEW s \in Seq(S), s # <<>>
    PROVE  /\ ToSet(s) = ToSet(Tail(s)) \cup {Head(s)}
           /\ Head(s) \in S /\ Tail(s) \in Seq(S)
  <1>1. \A y : y \in ToSet(s) <=> y \in ToSet(Tail(s)) \/ y = Head(s)
    BY HeadHas DEF ToSet
  <1> QED BY <1>1

LEMMA DriverSteps ==
    ASSUME AuthInv, (\E id \in Ids : Answer(id)) \/ Dies
    PROVE  AuthInv'
  <1>0. driver.outbox \in Seq(Ids) /\ driver.inbox \in SUBSET Ids
    BY DEF AuthInv, TypeInv
  <1>1. ASSUME NEW id \in Ids, Answer(id)
        PROVE  AuthInv'
    <2>1. driver' = [alive |-> TRUE, inbox |-> driver.inbox \ {id},
                     outbox |-> Append(driver.outbox, id)]
      BY <1>1 DEF Answer
    <2>2. /\ driver' \in [alive : BOOLEAN, inbox : SUBSET Ids, outbox : Seq(Ids)]
          /\ driver'.inbox = driver.inbox \ {id}
          /\ driver'.outbox = Append(driver.outbox, id)
      BY <1>0, <2>1
    <2>3. ToSet(driver'.outbox) = ToSet(driver.outbox) \cup {id}
      BY <1>0, <2>2, AppendLines
    <2>4. driver'.inbox \cup ToSet(driver'.outbox)
               \subseteq driver.inbox \cup ToSet(driver.outbox)
      BY <1>1, <2>2, <2>3 DEF Answer
    <2> QED BY <1>1, <2>2, <2>4, DriverMoves DEF Answer
  <1>2. ASSUME Dies
        PROVE  AuthInv'
    <2>1. /\ driver' \in [alive : BOOLEAN, inbox : SUBSET Ids, outbox : Seq(Ids)]
          /\ driver'.inbox = {} /\ driver'.outbox = driver.outbox
      BY <1>0, <1>2 DEF Dies
    <2> QED BY <1>2, <2>1, DriverMoves DEF Dies
  <1> QED BY <1>1, <1>2

LEMMA ProtocolStep ==
    ASSUME AuthInv, protocol
    PROVE  AuthInv'
  <1> USE DEF AuthInv
  <1> DEFINE line == Head(driver.outbox)
  <1>0. /\ listening = NoThread /\ driver.outbox # <<>>
        /\ driver.outbox \in Seq(Ids) /\ driver.inbox \in SUBSET Ids
        /\ driver \in [alive : BOOLEAN, inbox : SUBSET Ids, outbox : Seq(Ids)]
        /\ UNCHANGED <<request, queue, loop, mads, daemon>>
    BY DEF protocol, TypeInv, NoAnswer
  <1>1. /\ line \in Ids /\ ToSet(driver.outbox) = ToSet(Tail(driver.outbox)) \cup {line}
        /\ Tail(driver.outbox) \in Seq(Ids)
    BY <1>0, TailLines
  <1>2. driver' = [driver EXCEPT !.outbox = Tail(driver.outbox)]
    BY DEF protocol
  <1>3. /\ driver' \in [alive : BOOLEAN, inbox : SUBSET Ids, outbox : Seq(Ids)]
        /\ driver'.inbox = driver.inbox /\ driver'.outbox = Tail(driver.outbox)
    BY <1>0, <1>1, <1>2
  <1>4. CASE line \notin DOMAIN auth_requests
    BY <1>0, <1>1, <1>3, <1>4, DriverMoves DEF protocol
  <1>5. CASE line \in DOMAIN auth_requests
    <2>0. /\ listening' = auth_requests[line]
          /\ auth_requests' = [id \in DOMAIN auth_requests \ {line} |-> auth_requests[id]]
      BY <1>5 DEF protocol, get_request, Without
    <2> HIDE DEF line
    <2>1. auth_requests[line] \in Threads /\ InTable(auth_requests[line])
      BY <1>5 DEF TypeInv, InTable
    <2>2. TypeInv'
      BY <1>0, <1>3, <2>0, <2>1 DEF TypeInv
    <2>3. \A t \in Threads : /\ InTable(t)' <=> InTable(t) /\ t # auth_requests[line]
                             /\ InListener(t)' <=> t = auth_requests[line]
                             /\ ~InListener(t)
      BY <1>0, <1>5, <2>0, AuthManagerAssumption DEF InTable, InListener, Distinct
    <2>4. Held'
      BY <1>0, <2>1, <2>3 DEF Held, InQueue, InLoop, Waits
    <2>5. Distinct' /\ OnlyDriver'
      BY <1>0, <2>0 DEF Distinct, OnlyDriver
    <2>6. Written'
      BY <1>0, <1>1, <1>3, <2>0 DEF Written
    <2>7. Used' \subseteq Used
      BY <1>1, <1>3, <2>0 DEF Used
    <2>8. Enough'
      BY <1>0, <2>2, <2>7, EnoughKept DEF TypeInv
    <2> QED BY <2>2, <2>4, <2>5, <2>6, <2>8
  <1> QED BY <1>4, <1>5

LEMMA NotifyStep ==
    ASSUME AuthInv, notify_request
    PROVE  AuthInv'
  <1> USE DEF AuthInv, notify_request, NoAnswer
  <1>1. listening \in Threads /\ InListener(listening)
    BY DEF TypeInv, InListener
  <1>2. Waits(listening)
    BY <1>1 DEF Held
  <1>3. /\ request' \in [Threads -> AuthRequest] /\ daemon' = daemon
        /\ \A t \in Threads : Waits(t)' <=> Waits(t) /\ t \notin {listening}
    BY <1>1, <1>2, NotifyWaiting
  <1>4. TypeInv'
    BY <1>3 DEF TypeInv
  <1>5. \A t \in Threads : ~InListener(t)'
    BY AuthManagerAssumption DEF InListener
  <1>6. Held'
    BY <1>1, <1>3, <1>5 DEF Held, InQueue, InTable, InLoop, InListener
  <1>7. Enough'
    BY DEF Enough, Used
  <1> QED BY <1>3, <1>4, <1>6, <1>7 DEF Distinct, Written, OnlyDriver

LEMMA ReloadSteps ==
    ASSUME AuthInv, (\E starts \in BOOLEAN : reload(starts)) \/ ListensToNobody
    PROVE  AuthInv'
  <1> USE DEF AuthInv
  <1>1. ASSUME NEW starts \in BOOLEAN, reload(starts)
        PROVE  AuthInv'
    <2>1. /\ driver' \in [alive : BOOLEAN, inbox : SUBSET Ids, outbox : Seq(Ids)]
          /\ driver'.inbox = {} /\ driver'.outbox = <<>>
      BY <1>1 DEF reload
    <2>2. UNCHANGED <<request, queue, loop, auth_requests, listening, daemon>>
      BY <1>1 DEF reload
    <2>3. TypeInv'
      BY <1>1, <2>1, <2>2 DEF TypeInv, reload
    <2>4. ToSet(driver'.outbox) = {}
      BY <2>1 DEF ToSet
    <2>5. Used' \subseteq Used
      BY <2>1, <2>2, <2>4 DEF Used
    <2>6. Enough'
      BY <2>2, <2>3, <2>5, EnoughKept DEF TypeInv
    <2>7. Held' /\ Distinct'
      BY <2>2 DEF Held, InQueue, InTable, InLoop, InListener, Waits, Distinct
    <2>8. Written'
      BY <2>1, <2>2, <2>4 DEF Written
    <2>9. OnlyDriver'
      BY <1>1 DEF OnlyDriver, reload, Up
    <2> QED BY <2>3, <2>6, <2>7, <2>8, <2>9
  <1>2. ASSUME ListensToNobody
        PROVE  AuthInv'
    <2> USE <1>2 DEF ListensToNobody
    <2>1. TypeInv'
      BY DEF TypeInv
    <2>2. Held' /\ Distinct' /\ Written' /\ OnlyDriver' /\ Enough'
      BY DEF Held, InQueue, InTable, InLoop, InListener, Waits, Distinct, Written,
             OnlyDriver, Enough, Used
    <2> QED BY <2>1, <2>2
  <1> QED BY <1>1, <1>2
-----------------------------------------------------------------------------
LEMMA AuthStep ==
    ASSUME AuthInv, [Next]_vars
    PROVE  AuthInv'
  <1>1. CASE UNCHANGED vars
    BY <1>1 DEF vars, AuthInv, TypeInv, Held, InQueue, InTable, InLoop, InListener,
                Waits, Distinct, Written, OnlyDriver, Enough, Used
  <1>2. ASSUME NEW t \in Threads, trigger(t) \/ wait(t) \/ Return(t) \/ Elapse(t)
        PROVE  AuthInv'
    BY <1>2, ThreadSteps
  <1> QED BY <1>1, <1>2, GetDriverStep, AddStep, WriteStep, TimerStep, DriverSteps,
             ProtocolStep, NotifyStep, ReloadSteps DEF Next

\* The places that hold a request, counted.
LEMMA AuthInvOneHolder ==
    ASSUME AuthInv
    PROVE  OneHolder
  <1> SUFFICES ASSUME NEW t \in Threads
               PROVE  Holders(t) = IF request[t].at # "none" /\ request[t].result = "none"
                                   THEN 1 ELSE 0
    BY DEF OneHolder
  <1>1. Cardinality({i \in DOMAIN queue : queue[i] = t})
            = IF InQueue(t) THEN 1 ELSE 0
    <2>1. ASSUME NEW i \in DOMAIN queue, queue[i] = t
          PROVE  {j \in DOMAIN queue : queue[j] = t} = {i}
      BY <2>1 DEF AuthInv, Distinct
    <2>2. ASSUME ~InQueue(t)
          PROVE  {j \in DOMAIN queue : queue[j] = t} = {}
      BY <2>2 DEF InQueue
    <2> QED BY <2>1, <2>2, FS_Singleton, FS_EmptySet DEF InQueue
  <1>2. Cardinality({id \in DOMAIN auth_requests : auth_requests[id] = t})
            = IF InTable(t) THEN 1 ELSE 0
    <2>1. ASSUME NEW i \in DOMAIN auth_requests, auth_requests[i] = t
          PROVE  {j \in DOMAIN auth_requests : auth_requests[j] = t} = {i}
      BY <2>1 DEF AuthInv, Distinct
    <2>2. ASSUME ~InTable(t)
          PROVE  {j \in DOMAIN auth_requests : auth_requests[j] = t} = {}
      BY <2>2 DEF InTable
    <2> QED BY <2>1, <2>2, FS_Singleton, FS_EmptySet DEF InTable
  <1>3. Holders(t) = (IF InQueue(t) THEN 1 ELSE 0) + (IF InTable(t) THEN 1 ELSE 0)
                     + (IF InLoop(t) THEN 1 ELSE 0) + (IF InListener(t) THEN 1 ELSE 0)
    BY <1>1, <1>2 DEF Holders, InLoop, InListener
  <1>4. /\ Waits(t) <=> InQueue(t) \/ InTable(t) \/ InLoop(t) \/ InListener(t)
        /\ InQueue(t) => ~InTable(t) /\ ~InLoop(t) /\ ~InListener(t)
        /\ InTable(t) => ~InLoop(t) /\ ~InListener(t)
        /\ InLoop(t) => ~InListener(t)
    BY DEF AuthInv, Held
  <1> HIDE DEF Holders
  <1> QED BY <1>3, <1>4 DEF Waits

\* A request that waits is held by exactly one who will answer it (the queue,
\* the action loop, the table or the listener), and one that was answered or
\* whose thread has returned by nobody: for any number of threads, identifiers
\* and deaths of the driver.
THEOREM RequestHeldOnce == Spec => []OneHolder
  <1>1. AuthInv /\ [Next]_vars => AuthInv'
    BY AuthStep
  <1>2. AuthInv => OneHolder
    BY AuthInvOneHolder
  <1> QED BY InitAuth, <1>1, <1>2, PTL DEF Spec

\* Whatever the order of answers, timeouts and returns, no one writes to a
\* request that is gone: the manager goes wrong only once its driver is.
THEOREM OnlyDriverMissed == Spec => [](mads => daemon = "up")
  <1>1. AuthInv /\ [Next]_vars => AuthInv'
    BY AuthStep
  <1>2. AuthInv => (mads => daemon = "up")
    BY DEF AuthInv, OnlyDriver, TypeInv
  <1> QED BY InitAuth, <1>1, <1>2, PTL DEF Spec
=============================================================================
