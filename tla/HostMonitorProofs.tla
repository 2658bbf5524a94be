------------------------- MODULE HostMonitorProofs -------------------------
(***************************************************************************)
(* The monitoring of hosts: proved for any set of hosts, drivers and hook. *)
(***************************************************************************)
EXTENDS HostMonitor, TLAPS

\* The types of the variables that the properties are about.
Types ==
    /\ state \in [Hosts -> HostState \cup {NoHost}]
    /\ host_states \in [Hosts -> HostState \cup {NoHost}]
    /\ sent \in [Hosts -> Nat]

\* A request is under way only for a host that waits for its answer, was
\* disabled while it waited, or is gone.
AnswersAwaited ==
    \A h \in Hosts : h \notin again =>
        /\ state[h] = "MONITORING" => sent[h] = 1
        /\ state[h] \in {"INIT", "MONITORED", "ERROR"} => sent[h] = 0
        /\ sent[h] <= 1

\* What the hooks know of a host that is there is its state.
HooksKnow ==
    \A h \in Hosts : Exists(h) /\ host_states[h] # NoHost =>
        host_states[h] = state[h]

HostInv == Types /\ AnswersAwaited /\ HooksKnow

InScenario == now \in Scenarios
-----------------------------------------------------------------------------
\* Requests for a host are counted from one.
LEMMA FirstRequest ==
    ASSUME InScenario, NEW n \in Nat
    PROVE  Min({n + 1, now.sent}) \in Nat /\ (n = 0 => Min({n + 1, now.sent}) = 1)
  <1>0. now.sent \in Nat \ {0}
    BY HostMonitorAssumption DEF InScenario
  <1>1. \E x \in {n + 1, now.sent} : \A y \in {n + 1, now.sent} : x <= y
    BY <1>0
  <1>2. /\ Min({n + 1, now.sent}) \in {n + 1, now.sent}
        /\ \A y \in {n + 1, now.sent} : Min({n + 1, now.sent}) <= y
    BY <1>1 DEF Min
  <1> QED BY <1>0, <1>2

\* update moves one host, and its hooks with it.
LEMMA UpdateDoes ==
    ASSUME Types, HooksKnow, NEW h \in Hosts, NEW s \in HostState, update(h, s)
    PROVE  /\ state' \in [Hosts -> HostState \cup {NoHost}]
           /\ host_states' \in [Hosts -> HostState \cup {NoHost}]
           /\ state'[h] = s /\ host_states'[h] = s
           /\ \A g \in Hosts : g # h =>
                state'[g] = state[g] /\ host_states'[g] = host_states[g]
           /\ HooksKnow'
  <1>1. /\ state' \in [Hosts -> HostState \cup {NoHost}]
        /\ host_states' \in [Hosts -> HostState \cup {NoHost}]
        /\ state'[h] = s /\ host_states'[h] = s
        /\ \A g \in Hosts : g # h =>
             state'[g] = state[g] /\ host_states'[g] = host_states[g]
    BY DEF Types, update, UpdateStateHook
  <1> QED BY <1>1 DEF HooksKnow, Exists

\* A step that leaves the states alone.
LEMMA UntouchedKnow ==
    ASSUME Types, HooksKnow, UNCHANGED <<state, host_states>>
    PROVE  HooksKnow'
  BY DEF HooksKnow, Exists

\* The host begins again: whatever is under way for it is known.
LEMMA BeginsAgain ==
    ASSUME HostInv, NEW h \in Hosts, update(h, "INIT"), Again(h), sent' = sent
    PROVE  HostInv'
  <1>0. Types /\ AnswersAwaited /\ HooksKnow /\ "INIT" \in HostState
    BY DEF HostInv, HostState
  <1>1. /\ state' \in [Hosts -> HostState \cup {NoHost}]
        /\ host_states' \in [Hosts -> HostState \cup {NoHost}]
        /\ state'[h] = "INIT" /\ HooksKnow'
        /\ \A g \in Hosts : g # h => state'[g] = state[g]
    BY <1>0, UpdateDoes
  <1>2. \A g \in Hosts : g \notin again' => g \notin again /\ (g = h => sent[g] = 0)
    BY <1>0 DEF Again, Types
  <1>3. AnswersAwaited'
    BY <1>0, <1>1, <1>2 DEF AnswersAwaited
  <1> QED BY <1>0, <1>1, <1>3 DEF HostInv, Types

LEMMA TimerInv ==
    ASSUME HostInv, InScenario, NEW h \in Hosts, timer_action(h)
    PROVE  HostInv'
  <1>0. /\ Types /\ AnswersAwaited /\ HooksKnow
        /\ "INIT" \in HostState /\ "ERROR" \in HostState /\ "MONITORING" \in HostState
    BY DEF HostInv, HostState
  <1>1. CASE Untouched /\ UNCHANGED <<sent, again>>
    <2>1. UNCHANGED <<state, host_states, sent, again>>
      BY <1>1 DEF Untouched
    <2> QED BY <1>0, <2>1, UntouchedKnow DEF HostInv, Types, AnswersAwaited
  <1>2. CASE update(h, "INIT") /\ Again(h) /\ UNCHANGED sent
    BY <1>2, BeginsAgain
  <1>3. CASE Exists(h) /\ Asks(h) /\ update(h, "ERROR") /\ UNCHANGED <<sent, again>>
    <2>1. /\ state' \in [Hosts -> HostState \cup {NoHost}]
          /\ host_states' \in [Hosts -> HostState \cup {NoHost}]
          /\ state'[h] = "ERROR" /\ HooksKnow'
          /\ \A g \in Hosts : g # h => state'[g] = state[g]
      BY <1>0, <1>3, UpdateDoes
    <2>2. state[h] \in {"INIT", "MONITORED", "ERROR"}
      BY <1>0, <1>3 DEF Types, Exists, Asks, HostState
    <2>3. AnswersAwaited'
      BY <1>0, <1>3, <2>1, <2>2 DEF AnswersAwaited
    <2> QED BY <1>0, <1>3, <2>1, <2>3 DEF HostInv, Types
  <1>4. CASE Exists(h) /\ Asks(h) /\ monitor(h) /\ update(h, "MONITORING")
    <2>1. /\ state' \in [Hosts -> HostState \cup {NoHost}]
          /\ host_states' \in [Hosts -> HostState \cup {NoHost}]
          /\ state'[h] = "MONITORING" /\ HooksKnow'
          /\ \A g \in Hosts : g # h => state'[g] = state[g]
      BY <1>0, <1>4, UpdateDoes
    <2>2. state[h] \in {"INIT", "MONITORED", "ERROR"}
      BY <1>0, <1>4 DEF Types, Exists, Asks, HostState
    <2>3. /\ sent' \in [Hosts -> Nat] /\ again' = again
          /\ sent[h] = 0 => sent'[h] = 1
          /\ \A g \in Hosts : g # h => sent'[g] = sent[g]
      <3>1. PICK n \in Nat : n = sent[h]
        BY <1>0 DEF Types
      <3>2. sent' = [sent EXCEPT ![h] = Min({n + 1, now.sent})] /\ again' = again
        BY <1>4, <3>1 DEF monitor
      <3> QED BY <1>0, <3>1, <3>2, FirstRequest DEF Types
    <2>4. AnswersAwaited'
      BY <1>0, <2>1, <2>2, <2>3 DEF AnswersAwaited
    <2> QED BY <2>1, <2>3, <2>4 DEF HostInv, Types
  <1> QED BY <1>1, <1>2, <1>3, <1>4 DEF timer_action

\* An answer: the last one under way leaves nothing to wait for.
LEMMA ProtocolInv ==
    ASSUME HostInv, NEW h \in Hosts, NEW success \in BOOLEAN, protocol(h, success)
    PROVE  HostInv'
  <1>0. Types /\ AnswersAwaited /\ HooksKnow
    BY DEF HostInv
  <1>1. /\ sent[h] \in Nat /\ sent[h] > 0 /\ sent' \in [Hosts -> Nat]
        /\ sent'[h] = sent[h] - 1 /\ \A g \in Hosts : g # h => sent'[g] = sent[g]
        /\ \A g \in Hosts : g \notin again' => g \notin again \/ (g = h /\ sent[h] = 1)
    BY <1>0 DEF protocol, Types
  <1>2. h \notin again => sent[h] = 1
    BY <1>0, <1>1 DEF AnswersAwaited
  <1>3. CASE Exists(h)
    <2>1. PICK s : s = touched(h, success)
      OBVIOUS
    <2>2. s \in {"DISABLED", "MONITORED", "ERROR"} /\ s \in HostState
      BY <2>1 DEF touched, HostState
    <2>3. update(h, s)
      BY <1>3, <2>1 DEF protocol, touch
    <2>4. /\ state' \in [Hosts -> HostState \cup {NoHost}]
          /\ host_states' \in [Hosts -> HostState \cup {NoHost}]
          /\ state'[h] = s /\ HooksKnow'
          /\ \A g \in Hosts : g # h => state'[g] = state[g]
      BY <1>0, <2>2, <2>3, UpdateDoes
    <2>5. AnswersAwaited'
      BY <1>0, <1>1, <1>2, <2>2, <2>4 DEF AnswersAwaited
    <2> QED BY <1>1, <2>4, <2>5 DEF HostInv, Types
  <1>4. CASE ~Exists(h)
    <2>1. UNCHANGED <<state, host_states>>
      BY <1>4 DEF protocol, Untouched
    <2>2. AnswersAwaited'
      BY <1>0, <1>1, <1>2, <1>4, <2>1 DEF AnswersAwaited, Exists, NoHost
    <2> QED BY <1>0, <1>1, <2>1, <2>2, UntouchedKnow DEF HostInv, Types
  <1> QED BY <1>3, <1>4

\* Requests of administrators.
LEMMA AdminInv ==
    ASSUME HostInv, NEW h \in Hosts,
           allocate(h) \/ enable(h) \/ disable(h) \/ drop(h)
    PROVE  HostInv'
  <1>0. /\ Types /\ AnswersAwaited /\ HooksKnow
        /\ "INIT" \in HostState /\ "DISABLED" \in HostState
    BY DEF HostInv, HostState
  <1>1. CASE allocate(h) \/ disable(h)
    <2>1. PICK s \in {"INIT", "DISABLED"} :
            update(h, s) /\ (s = "INIT" => sent[h] = 0)
      BY <1>1 DEF allocate, disable
    <2>2. /\ state' \in [Hosts -> HostState \cup {NoHost}]
          /\ host_states' \in [Hosts -> HostState \cup {NoHost}]
          /\ state'[h] = s /\ HooksKnow'
          /\ \A g \in Hosts : g # h => state'[g] = state[g]
      BY <1>0, <2>1, UpdateDoes
    <2>3. UNCHANGED <<sent, again>>
      BY <1>1 DEF allocate, disable
    <2>4. AnswersAwaited'
      BY <1>0, <2>1, <2>2, <2>3 DEF AnswersAwaited
    <2> QED BY <1>0, <2>2, <2>3, <2>4 DEF HostInv, Types
  <1>2. CASE enable(h)
    BY <1>2, BeginsAgain DEF enable
  <1>3. CASE drop(h)
    <2>1. /\ state' = [state EXCEPT ![h] = NoHost]
          /\ UNCHANGED <<sent, host_states, again>>
      BY <1>3 DEF drop
    <2>2. /\ state' \in [Hosts -> HostState \cup {NoHost}] /\ state'[h] = NoHost
          /\ \A g \in Hosts : g # h => state'[g] = state[g]
      BY <1>0, <2>1 DEF Types
    <2>3. AnswersAwaited' /\ HooksKnow'
      BY <1>0, <2>1, <2>2 DEF AnswersAwaited, HooksKnow, Exists, NoHost
    <2> QED BY <1>0, <2>1, <2>2, <2>3 DEF HostInv, Types
  <1> QED BY <1>1, <1>2, <1>3

\* A driver dies: nothing is under way for its hosts, and those that wait for an
\* answer are known.
LEMMA DriverDiesInv ==
    ASSUME HostInv, NEW d \in loaded, DriverDies(d)
    PROVE  HostInv'
  <1>0. Types /\ AnswersAwaited /\ HooksKnow
    BY DEF HostInv
  <1>1. /\ UNCHANGED <<state, host_states>>
        /\ sent' = [h \in Hosts |-> IF h \in d THEN 0 ELSE sent[h]]
        /\ again' = (again \ d) \cup {h \in d : state[h] = "MONITORING"}
    BY DEF DriverDies, Untouched
  <1>2. Types'
    BY <1>0, <1>1 DEF Types
  <1>3. AnswersAwaited'
    BY <1>0, <1>1 DEF AnswersAwaited
  <1> QED BY <1>0, <1>1, <1>2, <1>3, UntouchedKnow DEF HostInv

\* The daemon dies with its drivers: nothing is under way any more.
LEMMA CrashInv ==
    ASSUME HostInv, Crash
    PROVE  HostInv'
  <1>0. Types
    BY DEF HostInv
  <1>1. /\ state' = state /\ sent' = [h \in Hosts |-> 0]
        /\ again' = {h \in Hosts : state[h] = "MONITORING"}
        /\ host_states' = [h \in Hosts |-> NoHost]
    BY DEF Crash
  <1>2. AnswersAwaited'
    BY <1>1 DEF AnswersAwaited
  <1>3. HooksKnow'
    BY <1>1 DEF HooksKnow
  <1>4. Types'
    BY <1>0, <1>1 DEF Types
  <1> QED BY <1>2, <1>3, <1>4 DEF HostInv

\* A run has one scenario.
LEMMA ScenarioStays ==
    ASSUME [Next]_vars
    PROVE  now' = now
  <1>1. ASSUME NEW h \in Hosts, timer_action(h) \/ Elapse(h) \/ HookEnds(h)
        PROVE  now' = now
    BY <1>1 DEF timer_action, Elapse, HookEnds, drivers
  <1>2. ASSUME NEW h \in Hosts, NEW success \in BOOLEAN, protocol(h, success)
        PROVE  now' = now
    BY <1>2 DEF protocol, drivers
  <1>3. ASSUME NEW h \in Hosts, allocate(h) \/ enable(h) \/ disable(h) \/ drop(h)
        PROVE  now' = now
    BY <1>3 DEF allocate, enable, disable, drop, drivers
  <1>4. ASSUME NEW d \in loaded, DriverDies(d)
        PROVE  now' = now
    BY <1>4 DEF DriverDies, drivers
  <1>5. CASE UNCHANGED vars \/ Timer \/ Crash
    BY <1>5 DEF vars, Timer, Crash, drivers
  <1> QED BY <1>1, <1>2, <1>3, <1>4, <1>5 DEF Next

LEMMA HostInit == Init => HostInv /\ InScenario
  <1> SUFFICES ASSUME Init PROVE HostInv /\ InScenario
    OBVIOUS
  <1>1. PICK old \in SUBSET now.hosts :
            state = [h \in Hosts |-> IF h \in old THEN "MONITORED" ELSE NoHost]
    BY DEF Init
  <1>2. sent = [h \in Hosts |-> 0] /\ host_states = [h \in Hosts |-> NoHost]
    BY DEF Init
  <1>3. Types
    BY <1>1, <1>2 DEF Types, HostState
  <1>4. InScenario
    BY DEF Init, InScenario
  <1> QED BY <1>1, <1>2, <1>3, <1>4 DEF HostInv, AnswersAwaited, HooksKnow, NoHost

LEMMA HostStep ==
    ASSUME HostInv, InScenario, [Next]_vars
    PROVE  HostInv' /\ InScenario'
  <1>0. InScenario'
    BY ScenarioStays DEF InScenario
  <1> SUFFICES HostInv'
    BY <1>0
  <1>1. CASE UNCHANGED <<state, host_states, sent, again>>
    <2>1. Types /\ AnswersAwaited /\ HooksKnow
      BY DEF HostInv
    <2> QED BY <1>1, <2>1, UntouchedKnow DEF HostInv, Types, AnswersAwaited
  <1>2. CASE UNCHANGED vars \/ Timer
    BY <1>1, <1>2 DEF vars, Timer, Untouched
  <1>3. ASSUME NEW h \in Hosts, Elapse(h) \/ HookEnds(h)
        PROVE  HostInv'
    BY <1>1, <1>3 DEF Elapse, HookEnds, Untouched
  <1>4. ASSUME NEW h \in Hosts,
               \/ timer_action(h)
               \/ \E success \in BOOLEAN : protocol(h, success)
               \/ allocate(h) \/ enable(h) \/ disable(h) \/ drop(h)
        PROVE  HostInv'
    BY <1>4, TimerInv, ProtocolInv, AdminInv
  <1> QED BY <1>2, <1>3, <1>4, DriverDiesInv, CrashInv DEF Next
-----------------------------------------------------------------------------
\* A host that waits for an answer can get one, and no other answer is under
\* way, for any number of hosts, requests and crashes.
THEOREM OneRequestUnderWay == Spec => []OneRequest
  <1>1. HostInv /\ InScenario /\ [Next]_vars
            => HostInv' /\ InScenario'
    BY HostStep
  <1>2. HostInv => OneRequest
    BY DEF HostInv, AnswersAwaited, OneRequest
  <1> QED BY HostInit, <1>1, <1>2, PTL DEF Spec

\* What the actions do to the states of hosts.
LEMMA StateMoves ==
    ASSUME HostInv, Next, NEW h \in Hosts, state'[h] # state[h]
    PROVE  \/ requests' = requests + 1 /\ state'[h] = NoHost
           \/ /\ state[h] = "DISABLED" => requests' = requests + 1
              /\ update(h, state'[h])
  <1>0. /\ Types /\ HooksKnow /\ \A s \in HostState : s # NoHost
        /\ {"INIT", "ERROR", "MONITORING", "MONITORED", "DISABLED"} \subseteq HostState
    BY DEF HostInv, HostState, NoHost
  <1>1. ASSUME NEW g \in Hosts, NEW s \in HostState, update(g, s)
        PROVE  g = h /\ state'[h] = s
    BY <1>0, <1>1, UpdateDoes
  <1>2. state' # state
    OBVIOUS
  <1>3. ~(Timer \/ Crash \/ \E d \in loaded : DriverDies(d))
    BY <1>2 DEF Timer, DriverDies, Crash, Untouched
  <1>4. ASSUME NEW g \in Hosts, timer_action(g)
        PROVE  state[h] # "DISABLED" /\ update(h, state'[h])
    <2>1. \/ TimedOut(g) /\ update(g, "INIT")
          \/ Asks(g) /\ update(g, "ERROR")
          \/ Asks(g) /\ update(g, "MONITORING")
      BY <1>2, <1>4 DEF timer_action, Untouched
    <2>2. PICK s \in HostState : update(g, s) /\ (TimedOut(g) \/ Asks(g))
      BY <1>0, <2>1
    <2>3. g = h /\ state'[h] = s
      BY <1>1, <2>2
    <2> QED BY <2>2, <2>3 DEF TimedOut, Asks
  <1>5. ASSUME NEW g \in Hosts, NEW success \in BOOLEAN, protocol(g, success)
        PROVE  state[h] # "DISABLED" /\ update(h, state'[h])
    <2>1. PICK s : s = touched(g, success)
      OBVIOUS
    <2>2. s \in HostState /\ (state[g] = "DISABLED" => s = "DISABLED")
      BY <1>0, <2>1 DEF touched
    <2>3. update(g, s)
      BY <1>2, <1>5, <2>1 DEF protocol, touch, Untouched
    <2>4. g = h /\ state'[h] = s
      BY <1>1, <2>2, <2>3
    <2> QED BY <2>2, <2>3, <2>4
  <1>6. ASSUME NEW g \in Hosts, allocate(g) \/ enable(g) \/ disable(g)
        PROVE  requests' = requests + 1 /\ update(h, state'[h])
    <2>1. PICK s \in HostState : update(g, s)
      BY <1>0, <1>6 DEF allocate, enable, disable
    <2> QED BY <1>1, <1>6, <2>1 DEF allocate, enable, disable, Comes
  <1>7. ASSUME NEW g \in Hosts, drop(g)
        PROVE  requests' = requests + 1 /\ state'[h] = NoHost
    BY <1>0, <1>7 DEF drop, Comes, Types
  <1>8. ASSUME NEW g \in Hosts, Elapse(g) \/ HookEnds(g)
        PROVE  FALSE
    BY <1>2, <1>8 DEF Elapse, HookEnds, Untouched
  <1> QED BY <1>3, <1>4, <1>5, <1>6, <1>7, <1>8 DEF Next

\* A host that was disabled stays so until an administrator asks for another
\* state, however many hosts, answers and turns of the timer there are.
THEOREM DisabledHostStays == Spec => DisabledStays
  <1>1. HostInv /\ InScenario /\ [Next]_vars
            => HostInv' /\ InScenario'
    BY HostStep
  <1>2. ASSUME HostInv, [Next]_vars
        PROVE  [\A h \in Hosts : state[h] = "DISABLED" /\ state'[h] # "DISABLED" =>
                    requests' = requests + 1]_vars
    <2> SUFFICES ASSUME Next, NEW h \in Hosts, state[h] = "DISABLED",
                        state'[h] # "DISABLED"
                 PROVE  requests' = requests + 1
      BY <1>2
    <2> QED BY <1>2, StateMoves
  <1> QED BY HostInit, <1>1, <1>2, PTL DEF Spec, DisabledStays

\* The hook of the administrator runs whenever a host that was updated since the
\* daemon began gets into the state of the hook.
THEOREM StateHookRuns == Spec => HookRuns
  <1>1. HostInv /\ InScenario /\ [Next]_vars
            => HostInv' /\ InScenario'
    BY HostStep
  <1>2. ASSUME HostInv, InScenario, [Next]_vars
        PROVE  [\A h \in Hosts :
                    /\ state[h] \notin {NoHost, now.hook} /\ state'[h] = now.hook
                    /\ host_states[h] # NoHost
                    => h \in executing']_vars
    <2> SUFFICES ASSUME Next, NEW h \in Hosts, state[h] \notin {NoHost, now.hook},
                        state'[h] = now.hook, host_states[h] # NoHost
                 PROVE  h \in executing'
      BY <1>2
    <2>1. now.hook # NoHost
      BY <1>2, HostMonitorAssumption DEF InScenario, HostState, NoHost
    <2>2. update(h, now.hook)
      BY <1>2, <2>1, StateMoves
    <2>3. host_states[h] = state[h]
      BY <1>2 DEF HostInv, HooksKnow, Exists
    <2> QED BY <2>2, <2>3 DEF update, StateHook
  <1> QED BY HostInit, <1>1, <1>2, PTL DEF Spec, HookRuns
============================================================================
