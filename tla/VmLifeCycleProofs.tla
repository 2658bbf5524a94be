------------------------- MODULE VmLifeCycleProofs -------------------------
(***************************************************************************)
(* Proofs about the life cycle of a VM, for any hosts and bounds:          *)
(*   1. the operators and the types, for any requests;                     *)
(*   2. the history records that the handlers read, for any requests;      *)
(*   3. what the requests of plain users do: shares, domains, progress and *)
(*      placement.                                                         *)
(***************************************************************************)
EXTENDS VmLifeCycle, TLAPS, SequenceTheorems, FiniteSetTheorems

-----------------------------------------------------------------------------
(* 1. The operators the model is built from, and the types.                 *)

\* Taking and giving back capacity leaves the table of shares a table.
LEMMA ShareType ==
  ASSUME vm \in VmObject, NEW c \in ShareTable, NEW h
  PROVE  add_capacity(c, h) \in ShareTable /\ del_capacity(c, h) \in ShareTable
  <1>1. vm.mem \in Int
    BY DEF VmObject
  <1>2. CASE h \in Hosts
    <2>1. c[h].vms \in Int /\ c[h].mem \in Int
      BY <1>2 DEF ShareTable
    <2> QED BY <1>1, <1>2, <2>1 DEF add_capacity, del_capacity, ShareTable
  <1>3. CASE h \notin Hosts
    BY <1>3 DEF add_capacity, del_capacity, ShareTable
  <1> QED BY <1>2, <1>3

\* A reason is the only part of a history record that changes.
LEMMA ReasonType ==
  ASSUME NEW x \in History, NEW r \in Reason
  PROVE  [x EXCEPT !.reason = r] \in History
  BY DEF History

LEMMA RecordHost ==
  ASSUME NEW v \in VmObject
  PROVE  v.cur.hid \in Hosts \cup {NoHost} /\ v.prev.hid \in Hosts \cup {NoHost}
  BY DEF VmObject, History

\* A new record goes before the present one.
LEMMA HistoryType ==
  ASSUME NEW v \in VmObject, NEW h \in Hosts \cup {NoHost}
  PROVE  add_history(v, h) \in VmObject
  <1>1. [hid |-> h, reason |-> "NONE"] \in History
    BY DEF History, Reason
  <1>2. (IF v.cur.hid # NoHost THEN v.cur ELSE v.prev) \in History
    BY DEF VmObject
  <1> QED BY <1>1, <1>2 DEF add_history, VmObject

LEMMA ReleasedType ==
  ASSUME NEW v \in VmObject
  PROVE  Released(v) \in VmObject
  <1>1. (IF v.res = "held" THEN "released" ELSE "again")
            \in {"held", "released", "again"}
    OBVIOUS
  <1> QED BY <1>1 DEF VmObject, Released

\* A record is marked or forgotten, and the VM stays a VM.
LEMMA MarkType ==
  ASSUME NEW v \in VmObject
  PROVE  /\ Mark(v.bk, "FAIL") \in RecordState
         /\ Mark(v.rs, "FAIL") \in RecordState
         /\ Mark(v.dk, "FAIL") \in RecordState
         /\ Mark(v.bk, "SUCCESS") \in RecordState
         /\ Mark(v.rs, "SUCCESS") \in RecordState
         /\ Mark(v.dk, "SUCCESS") \in RecordState
  BY DEF Mark, VmObject, RecordState

LEMMA ForgetType ==
  ASSUME NEW v \in VmObject, NEW r
  PROVE  Forget(v, r) \in VmObject
  <1>1. (v.orphan \/ r = "START") \in BOOLEAN
    OBVIOUS
  <1> QED BY <1>1 DEF Forget, VmObject

\* The fields of a VM that handlers assign, one or two at a time.
LEMMA FieldType ==
  ASSUME NEW v \in VmObject, NEW s \in VmState, NEW l \in LcmState,
         NEW r \in RecordState
  PROVE  /\ [v EXCEPT !.state = s] \in VmObject
         /\ [v EXCEPT !.lcm = l] \in VmObject
         /\ [v EXCEPT !.bk = r] \in VmObject
         /\ [v EXCEPT !.rs = r] \in VmObject
         /\ [v EXCEPT !.dk = r] \in VmObject
         /\ [v EXCEPT !.state = s, !.lcm = l] \in VmObject
         /\ [v EXCEPT !.lcm = l, !.state = s] \in VmObject
         /\ [v EXCEPT !.lcm = l, !.rs = r] \in VmObject
         /\ [v EXCEPT !.lcm = l, !.dk = r] \in VmObject
  BY DEF VmObject

\* The VM leaves a host for a reason.
LEMMA LeaveType ==
  ASSUME NEW v \in VmObject, NEW l \in LcmState, NEW r \in Reason
  PROVE  /\ [v EXCEPT !.cur.reason = r] \in VmObject
         /\ [v EXCEPT !.lcm = l, !.cur.reason = r] \in VmObject
         /\ [v EXCEPT !.lcm = l, !.prev.reason = r] \in VmObject
  <1>1. /\ [v.cur EXCEPT !.reason = r] \in History
        /\ [v.prev EXCEPT !.reason = r] \in History
    BY ReasonType DEF VmObject
  <1> QED BY <1>1 DEF VmObject

LEMMA BudgetType ==
  ASSUME TypeOK
  PROVE  /\ budget.cmds > 0 => [budget EXCEPT !.cmds = @ - 1] \in Budget
         /\ budget.polls > 0 => [budget EXCEPT !.polls = @ - 1] \in Budget
         /\ budget.deaths > 0 => [budget EXCEPT !.deaths = @ - 1] \in Budget
         /\ budget.restarts > 0 => [budget EXCEPT !.restarts = @ - 1] \in Budget
  <1>1. \A n \in Nat : n > 0 => n - 1 \in Nat
    OBVIOUS
  <1>2. budget \in Budget
    BY DEF TypeOK
  <1> QED BY <1>1, <1>2 DEF Budget

LEMMA RemoveAtType ==
  ASSUME NEW S, NEW s \in Seq(S), NEW i \in 1 .. Len(s)
  PROVE  RemoveAt(s, i) \in Seq(S)
  <1>1. SubSeq(s, 1, i - 1) \in Seq(S) /\ SubSeq(s, i + 1, Len(s)) \in Seq(S)
    BY SubSeqProperties
  <1> QED BY <1>1, ConcatProperties DEF RemoveAt

\* Every list of events some step sends to the LCM.
LEMMA LcmLists ==
  /\ <<>> \in Seq(LcmEvent)
  /\ <<"DEPLOY">> \in Seq(LcmEvent) /\ <<"MIGRATE">> \in Seq(LcmEvent)
  /\ <<"LIVE_MIGRATE">> \in Seq(LcmEvent) /\ <<"BACKUP">> \in Seq(LcmEvent)
  /\ <<"BACKUPDISK">> \in Seq(LcmEvent) /\ <<"RECOVER">> \in Seq(LcmEvent)
  /\ <<"SHUTDOWN">> \in Seq(LcmEvent) /\ <<"STOP">> \in Seq(LcmEvent)
  /\ <<"SUSPEND">> \in Seq(LcmEvent) /\ <<"REBOOT">> \in Seq(LcmEvent)
  /\ <<"RESTART">> \in Seq(LcmEvent) /\ <<"RESTORE">> \in Seq(LcmEvent)
  /\ <<"DELETE">> \in Seq(LcmEvent) /\ <<"CLEAN">> \in Seq(LcmEvent)
  /\ <<"DEPLOY_SUCCESS">> \in Seq(LcmEvent)
  /\ <<"DEPLOY_FAILURE">> \in Seq(LcmEvent)
  /\ <<"SHUTDOWN_SUCCESS">> \in Seq(LcmEvent)
  /\ <<"SHUTDOWN_FAILURE">> \in Seq(LcmEvent)
  /\ <<"CANCEL_SUCCESS">> \in Seq(LcmEvent)
  /\ <<"CANCEL_FAILURE">> \in Seq(LcmEvent)
  /\ <<"OFF_SUCCESS">> \in Seq(LcmEvent)
  /\ <<"SAVE_SUCCESS">> \in Seq(LcmEvent) /\ <<"SAVE_FAILURE">> \in Seq(LcmEvent)
  /\ <<"MONITOR_SUSPEND">> \in Seq(LcmEvent)
  /\ <<"MONITOR_FAILURE">> \in Seq(LcmEvent)
  /\ <<"MONITOR_DONE">> \in Seq(LcmEvent)
  /\ <<"PROLOG_SUCCESS">> \in Seq(LcmEvent)
  /\ <<"PROLOG_FAILURE">> \in Seq(LcmEvent)
  /\ <<"PROLOG_RECOVER_DECOMPRESS">> \in Seq(LcmEvent)
  /\ <<"EPILOG_SUCCESS">> \in Seq(LcmEvent)
  /\ <<"EPILOG_FAILURE">> \in Seq(LcmEvent)
  /\ <<"XMLIST_SUCCESS">> \in Seq(LcmEvent)
  /\ <<"XMLIST_FAILURE">> \in Seq(LcmEvent)
  BY DEF LcmEvent

\* Every event that the LCM and the requests send to another manager.
LEMMA Names ==
  /\ "SUSPEND_SUCCESS" \in DmEvent /\ "STOP_SUCCESS" \in DmEvent
  /\ "DONE" \in DmEvent /\ "FAILED" \in DmEvent /\ "RESUBMIT" \in DmEvent
  /\ "DEPLOY" \in VmmEvent /\ "SAVE" \in VmmEvent /\ "SHUTDOWN" \in VmmEvent
  /\ "CANCEL" \in VmmEvent /\ "OFF" \in VmmEvent /\ "RESTORE" \in VmmEvent
  /\ "MIGRATE" \in VmmEvent /\ "REBOOT" \in VmmEvent /\ "POLL" \in VmmEvent
  /\ "BACKUP" \in VmmEvent /\ "RECOVER" \in VmmEvent
  /\ "BACKUPDISK" \in VmmEvent
  /\ "PROLOG" \in TmEvent /\ "PROLOG_RESUME" \in TmEvent
  /\ "PROLOG_MIGR" \in TmEvent /\ "PROLOG_BACKUP" \in TmEvent
  /\ "PROLOG_RECOVER" \in TmEvent /\ "PROLOG_BACKUPDISK" \in TmEvent
  /\ "PROLOG_RECOVER_DECOMPRESS" \in TmEvent /\ "EPILOG" \in TmEvent
  /\ "EPILOG_STOP" \in TmEvent /\ "EPILOG_DELETE" \in TmEvent
  /\ "EPILOG_DELETE_PREVIOUS" \in TmEvent
  /\ "ON" \in TmEvent /\ "DELETE_RECOVER_FAIL" \in TmEvent
  /\ "RECOVER_DECOMPRESS_FAIL" \in TmEvent /\ "DELETE_BACKUP_FAIL" \in TmEvent
  /\ "DELETEBAK" \in TmEvent /\ "DELETE_BACKUP_COMPRESS" \in TmEvent
  BY DEF DmEvent, VmmEvent, TmEvent, Script

LEMMA Queues ==
  ASSUME TypeOK
  PROVE  /\ tmQ \o <<>> \in Seq(TmEvent)
         /\ \A x \in TmEvent : tmQ \o <<x>> \in Seq(TmEvent)
         /\ dmQ \o <<>> \in Seq(DmEvent)
         /\ \A x \in DmEvent : dmQ \o <<x>> \in Seq(DmEvent)
         /\ vmmQ \o <<>> \in Seq(VmmEvent)
         /\ \A x \in VmmEvent : vmmQ \o <<x>> \in Seq(VmmEvent)
  BY ConcatProperties, EmptySeq DEF TypeOK

\* clean_up_vm sends several actions at once.
LEMMA LongQueues ==
  ASSUME TypeOK
  PROVE  /\ vmmQ \o <<"DRIVER_CANCEL", "CANCEL">> \in Seq(VmmEvent)
         /\ vmmQ \o <<"DRIVER_CANCEL", "CANCEL_PREVIOUS">> \in Seq(VmmEvent)
         /\ vmmQ \o <<"DRIVER_CANCEL", "CANCEL", "CANCEL_PREVIOUS">>
                \in Seq(VmmEvent)
         /\ tmQ \o <<"DRIVER_CANCEL", "EPILOG_DELETE">> \in Seq(TmEvent)
         /\ tmQ \o <<"DRIVER_CANCEL", "EPILOG_DELETE", "EPILOG_DELETE_PREVIOUS">>
                \in Seq(TmEvent)
  <1>1. /\ <<"DRIVER_CANCEL", "CANCEL">> \in Seq(VmmEvent)
        /\ <<"DRIVER_CANCEL", "CANCEL_PREVIOUS">> \in Seq(VmmEvent)
        /\ <<"DRIVER_CANCEL", "CANCEL", "CANCEL_PREVIOUS">> \in Seq(VmmEvent)
    BY DEF VmmEvent
  <1>2. /\ <<"DRIVER_CANCEL", "EPILOG_DELETE">> \in Seq(TmEvent)
        /\ <<"DRIVER_CANCEL", "EPILOG_DELETE", "EPILOG_DELETE_PREVIOUS">>
               \in Seq(TmEvent)
    BY DEF TmEvent, Script
  <1> QED BY <1>1, <1>2, ConcatProperties DEF TypeOK

-----------------------------------------------------------------------------
(* Types: the requests.                                                     *)

\* What memory may hold in vm->lcmstate is one of the values told apart.
LEMMA GarbageType ==
  ASSUME budget \in Budget
  PROVE  Garbage \subseteq LastState
  <1>1. budget.scenario \in DOMAIN Scenarios
    BY DEF Budget
  <1>2. Scenarios[budget.scenario] \in Scenario
    BY <1>1, LifeCycleAssumption
  <1>3. Scenarios[budget.scenario].garbage \in SUBSET LastState
    BY <1>2 DEF Scenario
  <1> QED BY <1>3 DEF Garbage

LEMMA InitType == Init => TypeOK
  <1> SUFFICES ASSUME Init PROVE TypeOK
    OBVIOUS
  <1>1. budget \in Budget
    <2>1. PICK s \in DOMAIN Scenarios :
            budget = [scenario |-> s, cmds |-> Scenarios[s].cmds,
                      polls |-> Scenarios[s].polls,
                      deaths |-> Scenarios[s].deaths,
                      restarts |-> Scenarios[s].restarts]
      BY DEF Init
    <2>2. Scenarios[s] \in Scenario
      BY LifeCycleAssumption
    <2>3. /\ Scenarios[s].cmds \in Nat /\ Scenarios[s].polls \in Nat
          /\ Scenarios[s].deaths \in Nat /\ Scenarios[s].restarts \in Nat
      BY <2>2 DEF Scenario
    <2> QED BY <2>1, <2>3 DEF Budget
  <1>2. vm \in VmObject
    <2>1. Garbage \subseteq LastState
      BY <1>1, GarbageType
    <2> QED BY <2>1 DEF Init, VmObject, VmState, LcmState, NoHistory, History,
                        Reason, RecordState
  <1> QED BY <1>1, <1>2 DEF Init, TypeOK, ShareTable

LEMMA DoType ==
  ASSUME TypeOK, NEW v \in VmObject, NEW l \in Seq(LcmEvent),
         NEW t \in Seq(TmEvent), NEW c, Request(c), Do(v, l, t)
  PROVE  TypeOK'
  <1>1. lcmQ' \in Seq(LcmEvent) /\ tmQ' \in Seq(TmEvent)
    BY ConcatProperties DEF TypeOK, Do
  <1>2. budget' \in Budget
    BY BudgetType DEF Request
  <1> QED BY <1>1, <1>2 DEF TypeOK, Do, drivers

LEMMA LaterType ==
  ASSUME TypeOK, NEW c, Request(c), NEW e \in RmEvent, Later(e)
  PROVE  TypeOK'
  <1>1. rm' \in Seq(RmEvent)
    BY AppendProperties DEF TypeOK, Later
  <1>2. budget' \in Budget
    BY BudgetType DEF Request
  <1> QED BY <1>1, <1>2 DEF TypeOK, Later, queues, drivers

LEMMA RequestsType ==
  ASSUME TypeOK, Requests
  PROVE  TypeOK'
  <1> USE LcmLists
  <1>0. /\ vm \in VmObject
        /\ <<>> \in Seq(TmEvent) /\ <<"EPILOG_DELETE">> \in Seq(TmEvent)
    BY DEF TypeOK, TmEvent, Script
  <1>1. ASSUME NEW h \in Hosts, deploy(h) PROVE TypeOK'
    <2>1. [add_history(vm, h) EXCEPT !.state = "ACTIVE"] \in VmObject
      BY <1>0, HistoryType DEF VmObject, VmState
    <2> QED BY <1>0, <1>1, <2>1, DoType DEF deploy
  <1>2. ASSUME NEW h \in Hosts, migrate(h) \/ live_migrate(h) PROVE TypeOK'
    <2>1. add_history(vm, h) \in VmObject
      BY <1>0, HistoryType
    <2> QED BY <1>0, <1>2, <2>1, DoType DEF migrate, live_migrate
  <1>3. ASSUME backup \/ backupdisk \/ recover PROVE TypeOK'
    <2>1. \A v \in VmObject : /\ [v EXCEPT !.bk = "START"] \in VmObject
                              /\ [v EXCEPT !.dk = "START"] \in VmObject
                              /\ [v EXCEPT !.rs = "START"] \in VmObject
      BY DEF VmObject, RecordState
    <2> QED BY <1>0, <1>3, <2>1, ForgetType, DoType
            DEF backup, backupdisk, recover
  <1>4. ASSUME shutdown \/ stop \/ suspend \/ reboot \/ restart PROVE TypeOK'
    BY <1>0, <1>4, DoType DEF shutdown, stop, suspend, reboot, restart
  <1>5. ASSUME hold \/ release \/ resume PROVE TypeOK'
    <2>1. /\ [vm EXCEPT !.state = "HOLD"] \in VmObject
          /\ [vm EXCEPT !.state = "PENDING"] \in VmObject
          /\ [vm EXCEPT !.state = "ACTIVE"] \in VmObject
      BY <1>0 DEF VmObject, VmState
    <2> QED BY <1>0, <1>5, <2>1, DoType DEF hold, release, resume
  <1>6. ASSUME cancel \/ off \/ on PROVE TypeOK'
    BY <1>6, LaterType DEF cancel, off, on, RmEvent
  <1>7. ASSUME finalize PROVE TypeOK'
    <2>1. [vm EXCEPT !.lcm = "LCM_INIT", !.state = "DONE"] \in VmObject
      BY <1>0 DEF VmObject, LcmState, VmState
    <2>2. Released([vm EXCEPT !.lcm = "LCM_INIT", !.state = "DONE"]) \in VmObject
      BY <2>1, ReleasedType
    <2> QED BY <1>0, <1>7, <2>2, DoType DEF finalize
  <1>8. ASSUME resubmit PROVE TypeOK'
    <2>1. [vm EXCEPT !.lcm = "LCM_INIT", !.state = "PENDING"] \in VmObject
      BY <1>0 DEF VmObject, LcmState, VmState
    <2> QED BY <1>0, <1>8, <2>1, DoType DEF resubmit
  <1>9. ASSUME change PROVE TypeOK'
    <2>1. [vm EXCEPT !.mem = IF @ = 1 THEN 2 ELSE 1] \in VmObject
      BY <1>0 DEF VmObject
    <2> QED BY <1>0, <1>9, <2>1, DoType DEF change
  <1>10. ASSUME RequestTriggers PROVE TypeOK'
    <2>1. PICK i \in 1 .. Len(rm) :
             rm' = RemoveAt(rm, i) /\ lcmQ' = Append(lcmQ, rm[i])
      BY <1>10 DEF RequestTriggers
    <2>2. rm \in Seq(RmEvent) /\ rm[i] \in RmEvent
      BY DEF TypeOK
    <2>3. rm' \in Seq(RmEvent)
      BY <2>1, <2>2, RemoveAtType
    <2>4. lcmQ' \in Seq(LcmEvent)
      BY <2>1, <2>2, AppendProperties DEF TypeOK, LcmEvent, RmEvent
    <2> QED BY <1>10, <2>3, <2>4 DEF RequestTriggers, TypeOK, drivers
  <1> QED BY <1>1, <1>2, <1>3, <1>4, <1>5, <1>6, <1>7, <1>8, <1>9, <1>10
          DEF Requests

-----------------------------------------------------------------------------
(* Types: the Life-cycle Manager.                                           *)

LEMMA LcmPopType ==
  ASSUME TypeOK, NEW e, LcmPop(e)
  PROVE  lcmQ' \in Seq(LcmEvent)
  BY HeadTailProperties DEF TypeOK, LcmPop

\* What a handler of the LCM changes, whatever queue it came from.
LcmTyped ==
  /\ vm' \in VmObject /\ charge' \in ShareTable
  /\ dmQ' \in Seq(DmEvent) /\ vmmQ' \in Seq(VmmEvent) /\ tmQ' \in Seq(TmEvent)
  /\ daemon' \in {"up", "blocked", "dead"}

LEMMA RunningType ==
  ASSUME TypeOK, NEW e, NEW to \in LcmState, NEW op \in VmmEvent,
         FromRunning(e, to, op) \/ MoveFromRunning(e, to, op)
  PROVE  LcmTyped
  <1>1. vm' \in VmObject
    BY DEF FromRunning, MoveFromRunning, Out, Refused, TypeOK, VmObject
  <1>2. charge' \in ShareTable
    BY ShareType DEF FromRunning, MoveFromRunning, Out, Refused, TypeOK
  <1> QED BY <1>1, <1>2, Queues
          DEF FromRunning, MoveFromRunning, Out, Refused, TypeOK, LcmTyped

LEMMA FailureType ==
  ASSUME TypeOK, failure_action
  PROVE  LcmTyped
  <1>1. CASE HasHistory
    <2>1. Out([vm EXCEPT !.lcm = "FAILURE", !.cur.reason = "ERROR"],
              del_capacity(charge, vm.cur.hid), <<"FAILED">>, <<>>, <<>>)
      BY <1>1 DEF failure_action
    <2>2. vm' \in VmObject
      BY <2>1, ReasonType DEF Out, TypeOK, VmObject, LcmState, Reason
    <2>3. charge' \in ShareTable
      BY <2>1, ShareType DEF Out, TypeOK
    <2> QED BY <2>1, <2>2, <2>3, Names, Queues DEF Out, TypeOK, LcmTyped
  <1>2. CASE ~HasHistory
    BY <1>2 DEF failure_action, Crash, TypeOK, LcmTyped
  <1> QED BY <1>1, <1>2

LEMMA BackType ==
  ASSUME TypeOK, BackToPrevious
  PROVE  LcmTyped
  <1> DEFINE w == [vm EXCEPT !.cur.reason = "ERROR", !.prev.reason = "USER"]
  <1>1. w \in VmObject
    BY ReasonType DEF TypeOK, VmObject, Reason
  <1>2. cp_previous_history(w) \in VmObject
    BY <1>1, RecordHost, HistoryType DEF cp_previous_history
  <1> HIDE DEF w
  <1>3. vm' = [cp_previous_history(w) EXCEPT !.lcm = "RUNNING"]
    BY DEF BackToPrevious, Out, w
  <1>4. vm' \in VmObject
    BY <1>2, <1>3 DEF VmObject, LcmState
  <1>5. charge' \in ShareTable
    BY ShareType DEF BackToPrevious, Out, TypeOK
  <1> QED BY <1>4, <1>5, Names, Queues DEF BackToPrevious, Out, TypeOK, LcmTyped

LEMMA CleanUpType ==
  ASSUME TypeOK, NEW d \in DmEvent, clean_up_vm(d)
  PROVE  LcmTyped
  <1> DEFINE v == [vm EXCEPT !.lcm = "CLEANUP", !.cur.reason = "USER"]
  <1>1. v \in VmObject
    BY ReasonType DEF TypeOK, VmObject, LcmState, Reason
  <1>2. [v EXCEPT !.prev.reason = "USER"] \in VmObject
    BY <1>1, ReasonType DEF VmObject, Reason
  <1>3. vm' \in VmObject
    BY <1>1, <1>2 DEF clean_up_vm, Out
  <1>4. charge' \in ShareTable
    BY ShareType DEF clean_up_vm, Out, TypeOK
  <1>5. dmQ' \in Seq(DmEvent) /\ daemon' \in {"up", "blocked", "dead"}
    BY Queues DEF clean_up_vm, Out, TypeOK
  <1>6. vmmQ' \in Seq(VmmEvent)
    BY Queues, LongQueues DEF clean_up_vm, Out
  <1>7. tmQ' \in Seq(TmEvent)
    BY Queues, LongQueues, Names DEF clean_up_vm, Out
  <1> QED BY <1>3, <1>4, <1>5, <1>6, <1>7 DEF LcmTyped

LEMMA GiveUpType ==
  ASSUME TypeOK, NEW e, NEW d \in DmEvent, GiveUp(e, d)
  PROVE  LcmTyped
  <1>1. CASE Refused
    BY <1>1, Queues DEF Refused, Out, TypeOK, LcmTyped
  <1>2. CASE Crash
    BY <1>2 DEF Crash, TypeOK, LcmTyped
  <1>3. CASE clean_up_vm(d)
    BY <1>3, CleanUpType
  <1> QED BY <1>1, <1>2, <1>3 DEF GiveUp


\* The handlers that call Out and nothing else.
PlainHandler ==
  \/ deploy_action \/ backup_action \/ on_action \/ restart_action
  \/ save_success_action \/ shutdown_success_action \/ shutdown_failure_action
  \/ epilog_success_action \/ cancel_success_action \/ off_success_action
  \/ xmlist_success_action \/ xmlist_failure_action
  \/ prolog_recover_decompress_action \/ monitor_suspend_action
  \/ monitor_done_action \/ recover_action \/ restore_action
  \/ deploy_success_action \/ cancel_failure_action

LEMMA PlainVmType ==
  ASSUME TypeOK, PlainHandler
  PROVE  vm' \in VmObject
  <1>0. vm \in VmObject
    BY DEF TypeOK
  <1>1. ASSUME deploy_action PROVE vm' \in VmObject
    BY <1>0, <1>1 DEF deploy_action, Out, Refused, VmObject, LcmState
  <1>2. ASSUME backup_action PROVE vm' \in VmObject
    BY <1>0, <1>2, MarkType DEF backup_action, Out, VmObject, LcmState
  <1>3. ASSUME on_action PROVE vm' \in VmObject
    BY <1>0, <1>3 DEF on_action, Out, Refused, VmObject, LcmState
  <1>4. ASSUME restart_action PROVE vm' \in VmObject
    BY <1>0, <1>4 DEF restart_action, Out, Refused, VmObject, LcmState
  <1>5. ASSUME save_success_action PROVE vm' \in VmObject
    <2>1. /\ "PROLOG_MIGRATE" \in LcmState /\ "EPILOG_STOP" \in LcmState
          /\ "USER" \in Reason /\ "STOP_RESUME" \in Reason
      BY DEF LcmState, Reason
    <2>2. /\ [vm EXCEPT !.cur.reason = "STOP_RESUME"] \in VmObject
          /\ [vm EXCEPT !.lcm = "EPILOG_STOP", !.cur.reason = "STOP_RESUME"]
                 \in VmObject
          /\ [vm EXCEPT !.lcm = "PROLOG_MIGRATE", !.prev.reason = "USER"]
                 \in VmObject
      BY <1>0, <2>1, LeaveType
    <2> QED BY <1>0, <1>5, <2>2 DEF save_success_action, Out, Refused
  <1>6. ASSUME shutdown_success_action PROVE vm' \in VmObject
    BY <1>0, <1>6 DEF shutdown_success_action, Out, VmObject, LcmState
  <1>7. ASSUME shutdown_failure_action PROVE vm' \in VmObject
    BY <1>0, <1>7 DEF shutdown_failure_action, Out, VmObject, LcmState
  <1>8. ASSUME epilog_success_action PROVE vm' \in VmObject
    BY <1>0, <1>8 DEF epilog_success_action, Out, Refused, VmObject, LcmState
  <1>9. ASSUME cancel_success_action PROVE vm' \in VmObject
    <2>1. "EPILOG" \in LcmState /\ "CANCEL" \in Reason
      BY DEF LcmState, Reason
    <2> QED BY <1>0, <1>9, <2>1, LeaveType DEF cancel_success_action, Out
  <1>10. ASSUME off_success_action PROVE vm' \in VmObject
    BY <1>0, <1>10 DEF off_success_action, Out, VmObject, LcmState
  <1>11. ASSUME xmlist_success_action PROVE vm' \in VmObject
    BY <1>0, <1>11 DEF xmlist_success_action, Out, Refused, VmObject, LcmState
  <1>12. ASSUME xmlist_failure_action PROVE vm' \in VmObject
    BY <1>0, <1>12 DEF xmlist_failure_action, Out, Refused, VmObject, LcmState
  <1>13. ASSUME prolog_recover_decompress_action PROVE vm' \in VmObject
    BY <1>0, <1>13 DEF prolog_recover_decompress_action, Out, VmObject,
             LcmState
  <1>14. ASSUME monitor_suspend_action PROVE vm' \in VmObject
    <2>1. "SAVE_SUSPEND" \in LcmState /\ "STOP_RESUME" \in Reason
      BY DEF LcmState, Reason
    <2> QED BY <1>0, <1>14, <2>1, LeaveType DEF monitor_suspend_action, Out
  <1>15. ASSUME monitor_done_action PROVE vm' \in VmObject
    BY <1>0, <1>15 DEF monitor_done_action, Out, VmObject, LcmState
  <1>16. ASSUME recover_action PROVE vm' \in VmObject
    <2>1. CASE Running
      BY <1>0, <1>16, <2>1 DEF recover_action, Out, VmObject, LcmState
    <2>2. CASE ~Running
      BY <1>0, <1>16, <2>2 DEF recover_action, Out, VmObject, LcmState
    <2> QED BY <2>1, <2>2
  <1>17. ASSUME restore_action PROVE vm' \in VmObject
    <2>1. cp_history(vm) \in VmObject
      BY <1>0, RecordHost, HistoryType DEF cp_history
    <2> QED BY <1>0, <1>17, <2>1
            DEF restore_action, Out, Refused, VmObject, LcmState
  <1>18. ASSUME deploy_success_action PROVE vm' \in VmObject
    <2>1. /\ (IF vm.lcm = "MIGRATE" THEN "USER" ELSE vm.prev.reason) \in Reason
          /\ (IF vm.lcmstate = "PROLOG_RECOVER_DECOMPRESS"
              THEN Mark(vm.rs, "SUCCESS") ELSE vm.rs) \in RecordState
      BY <1>0, MarkType DEF VmObject, Reason, History
    <2> QED BY <1>0, <1>18, <2>1, ReasonType, ZenonT(60)
            DEF deploy_success_action, Out, VmObject, LcmState, LastState
  <1>19. ASSUME cancel_failure_action PROVE vm' \in VmObject
    <2>1. /\ (IF vm.lcm = "OFF_BACKUP" THEN Mark(vm.bk, "FAIL") ELSE vm.bk)
                 \in RecordState
          /\ (IF vm.lcm = "OFF_RECOVER" THEN Mark(vm.rs, "FAIL") ELSE vm.rs)
                 \in RecordState
          /\ (IF vm.lcm = "OFF_BACKUPDISK" THEN Mark(vm.dk, "FAIL") ELSE vm.dk)
                 \in RecordState
      BY <1>0, MarkType DEF VmObject
    <2> QED BY <1>0, <1>19, <2>1, ZenonT(60)
            DEF cancel_failure_action, Out, VmObject, LcmState
  <1> QED BY <1>1, <1>2, <1>3, <1>4, <1>5, <1>6, <1>7, <1>8, <1>9, <1>10,
          <1>11, <1>12, <1>13, <1>14, <1>15, <1>16, <1>17, <1>18, <1>19
          DEF PlainHandler

LEMMA PlainType ==
  ASSUME TypeOK, PlainHandler
  PROVE  LcmTyped
  <1>1. charge' \in ShareTable
    BY ShareType
     DEF TypeOK, PlainHandler, Out, Refused, deploy_action, backup_action, on_action,
         restart_action, save_success_action, shutdown_success_action,
         shutdown_failure_action, epilog_success_action,
         cancel_success_action, off_success_action, xmlist_success_action,
         xmlist_failure_action, prolog_recover_decompress_action,
         monitor_suspend_action, monitor_done_action, recover_action,
         restore_action, deploy_success_action, cancel_failure_action
  <1>2. dmQ' \in Seq(DmEvent)
    BY Names, Queues
     DEF PlainHandler, Out, Refused, deploy_action, backup_action, on_action,
         restart_action, save_success_action, shutdown_success_action,
         shutdown_failure_action, epilog_success_action,
         cancel_success_action, off_success_action, xmlist_success_action,
         xmlist_failure_action, prolog_recover_decompress_action,
         monitor_suspend_action, monitor_done_action, recover_action,
         restore_action, deploy_success_action, cancel_failure_action
  <1>3. vmmQ' \in Seq(VmmEvent)
    BY Names, Queues
     DEF PlainHandler, Out, Refused, deploy_action, backup_action, on_action,
         restart_action, save_success_action, shutdown_success_action,
         shutdown_failure_action, epilog_success_action,
         cancel_success_action, off_success_action, xmlist_success_action,
         xmlist_failure_action, prolog_recover_decompress_action,
         monitor_suspend_action, monitor_done_action, recover_action,
         restore_action, deploy_success_action, cancel_failure_action
  <1>4. ASSUME \/ deploy_action \/ backup_action \/ on_action \/ restart_action
              \/ save_success_action \/ shutdown_success_action
              \/ shutdown_failure_action \/ epilog_success_action
              \/ cancel_success_action
        PROVE  tmQ' \in Seq(TmEvent)
    BY <1>4, Names, Queues, ZenonT(60)
     DEF Out, Refused, deploy_action, backup_action, on_action,
         restart_action, save_success_action, shutdown_success_action,
         shutdown_failure_action, epilog_success_action, cancel_success_action
  <1>5. ASSUME \/ xmlist_success_action \/ xmlist_failure_action
              \/ prolog_recover_decompress_action \/ monitor_suspend_action
              \/ monitor_done_action \/ recover_action \/ restore_action
              \/ cancel_failure_action
        PROVE  tmQ' \in Seq(TmEvent)
    BY <1>5, Names, Queues
     DEF Out, Refused, xmlist_success_action, xmlist_failure_action,
         prolog_recover_decompress_action, monitor_suspend_action,
         monitor_done_action, recover_action, restore_action,
         cancel_failure_action
  <1>6. ASSUME \/ off_success_action
        PROVE  tmQ' \in Seq(TmEvent)
    BY <1>6, Names, Queues
     DEF Out, Refused, off_success_action
  <1>7. ASSUME deploy_success_action
        PROVE  tmQ' \in Seq(TmEvent)
    <2>1. tmQ' \in {tmQ \o <<"DELETEBAK">>, tmQ \o <<"DELETE_BACKUP_COMPRESS">>,
                   tmQ \o <<>>}
      BY <1>7 DEF deploy_success_action, Out
    <2> QED BY <2>1, Names, Queues
  <1>8. daemon' = daemon
    BY DEF PlainHandler, Out, Refused, deploy_action, backup_action, on_action,
         restart_action, save_success_action, shutdown_success_action,
         shutdown_failure_action, epilog_success_action,
         cancel_success_action, off_success_action, xmlist_success_action,
         xmlist_failure_action, prolog_recover_decompress_action,
         monitor_suspend_action, monitor_done_action, recover_action,
         restore_action, deploy_success_action, cancel_failure_action
  <1> QED BY <1>1, <1>2, <1>3, <1>4, <1>5, <1>6, <1>7,
             <1>8, PlainVmType
          DEF PlainHandler, LcmTyped, TypeOK

LEMMA PrologSuccessType ==
  ASSUME TypeOK, prolog_success_action
  PROVE  LcmTyped
  <1> DEFINE x == IF vm.lcm \in {"PROLOG_BACKUP", "PROLOG_RECOVER_DECOMPRESS"}
                  THEN vm.lcm ELSE vm.lcmstate
             y == IF vm.lcm = "PROLOG_BACKUP" THEN Mark(vm.bk, "SUCCESS")
                  ELSE vm.bk
             z == IF vm.lcm = "PROLOG_BACKUPDISK" THEN Mark(vm.dk, "SUCCESS")
                  ELSE vm.dk
             v == [vm EXCEPT !.lcmstate = x, !.bk = y, !.dk = z]
  <1>1. vm \in VmObject
    BY DEF TypeOK
  <1>2. x \in LastState
    BY <1>1 DEF VmObject, LastState
  <1>3. y \in RecordState /\ z \in RecordState
    BY <1>1, MarkType DEF VmObject
  <1>4. v \in VmObject
    BY <1>1, <1>2, <1>3 DEF VmObject
  <1>5. \/ vm' = vm
        \/ vm' = [vm EXCEPT !.lcm = "BOOT"]
        \/ vm' = [v EXCEPT !.lcm = "OFF"]
        \/ vm' = [v EXCEPT !.lcm = "BOOT"]
    BY DEF prolog_success_action, Out, Refused, Crash
  <1> HIDE DEF v
  <1>6. vm' \in VmObject
    BY <1>1, <1>4, <1>5 DEF VmObject, LcmState
  <1>7. /\ dmQ' \in Seq(DmEvent) /\ charge' \in ShareTable
        /\ daemon' \in {"up", "blocked", "dead"}
    BY Queues DEF prolog_success_action, Out, Refused, Crash, TypeOK
  <1>8. vmmQ' \in {vmmQ, vmmQ \o <<>>, vmmQ \o <<"DEPLOY">>,
                  vmmQ \o <<"RESTORE">>}
    BY DEF prolog_success_action, Out, Refused, Crash
  <1>9. tmQ' \in {tmQ, tmQ \o <<>>, tmQ \o <<"ON">>}
    BY DEF prolog_success_action, Out, Refused, Crash
  <1>10. vmmQ' \in Seq(VmmEvent) /\ tmQ' \in Seq(TmEvent)
    BY <1>8, <1>9, Names, Queues DEF TypeOK
  <1> QED BY <1>6, <1>7, <1>10 DEF LcmTyped

LEMMA PrologFailureType ==
  ASSUME TypeOK, prolog_failure_action
  PROVE  LcmTyped
  <1> DEFINE v == [vm EXCEPT !.lcmstate = "OTHER"]
  <1>1. /\ v \in VmObject /\ v.bk = vm.bk /\ v.rs = vm.rs
        /\ vm \in VmObject
    BY DEF TypeOK, VmObject, LastState
  <1>2. ASSUME NEW w \in VmObject, NEW o \in VmmEvent, NEW s \in TmEvent,
               \/ Out(w, charge, <<>>, <<>>, <<s>>)
               \/ Out(w, charge, <<>>, <<o>>, <<>>)
        PROVE  LcmTyped
    BY <1>2, Queues DEF Out, TypeOK, LcmTyped
  <1>3. CASE vm.lcm = "PROLOG_BACKUP"
    <2>1. [v EXCEPT !.lcm = "DELETE_BACKUP_FAIL", !.bk = Mark(@, "FAIL")]
              \in VmObject
      BY <1>1, MarkType DEF VmObject, LcmState
    <2> QED BY <1>2, <1>3, <2>1, Names DEF prolog_failure_action
  <1>4. CASE vm.lcm = "PROLOG_RECOVER"
    <2>1. [v EXCEPT !.lcm = "DELETE_RECOVER_FAIL", !.rs = Mark(@, "FAIL")]
              \in VmObject
      BY <1>1, MarkType DEF VmObject, LcmState
    <2> QED BY <1>2, <1>4, <2>1, Names DEF prolog_failure_action
  <1>5. CASE vm.lcm = "PROLOG_BACKUPDISK"
    <2>1. /\ [vm EXCEPT !.dk = Mark(@, "FAIL"), !.lcm = "OFF"] \in VmObject
          /\ [vm EXCEPT !.dk = Mark(@, "FAIL")] \in VmObject
      BY <1>1, MarkType DEF VmObject, LcmState
    <2> QED BY <1>2, <1>5, <2>1, Names DEF prolog_failure_action
  <1>6. CASE vm.lcm = "PROLOG_RECOVER_DECOMPRESS"
    <2>1. [v EXCEPT !.lcm = "RECOVER_DECOMPRESS_FAIL", !.rs = Mark(@, "FAIL")]
              \in VmObject
      BY <1>1, MarkType DEF VmObject, LcmState
    <2> QED BY <1>2, <1>6, <2>1, Names DEF prolog_failure_action
  <1>7. CASE failure_action
    BY <1>7, FailureType
  <1> QED BY <1>3, <1>4, <1>5, <1>6, <1>7 DEF prolog_failure_action

LEMMA LifeCycleManagerType ==
  ASSUME TypeOK, LifeCycleManager
  PROVE  TypeOK'
  <1>1. ASSUME \/ suspend_action \/ stop_action \/ shutdown_action
               \/ cancel_action \/ off_action \/ reboot_action
               \/ backupdisk_action \/ migrate_action \/ live_migrate_action
        PROVE  LcmTyped
    <2>1. {"SAVE_SUSPEND", "SAVE_STOP", "SHUTDOWN", "CANCEL", "RUNNING",
           "OFF_BACKUPDISK", "SAVE_MIGRATE", "MIGRATE"} \subseteq LcmState
      BY DEF LcmState
    <2> QED BY <1>1, <2>1, RunningType, Names
            DEF suspend_action, stop_action, shutdown_action, cancel_action,
                off_action, reboot_action, backupdisk_action, migrate_action,
                live_migrate_action
  <1>2. ASSUME delete_action \/ clean_action PROVE LcmTyped
    BY <1>2, GiveUpType, Names DEF delete_action, clean_action
  <1>3. ASSUME epilog_failure_action \/ monitor_failure_action PROVE LcmTyped
    BY <1>3, FailureType DEF epilog_failure_action, monitor_failure_action
  <1>4. ASSUME save_failure_action PROVE LcmTyped
    <2>1. CASE vm.lcm = "SAVE_MIGRATE"
      BY <1>4, <2>1, BackType DEF save_failure_action
    <2>2. CASE vm.lcm # "SAVE_MIGRATE"
      <3>1. vm' \in VmObject
        <4>1. vm \in VmObject /\ [vm EXCEPT !.lcm = "RUNNING"] \in VmObject
          BY DEF TypeOK, VmObject, LcmState
        <4> QED BY <1>4, <2>2, <4>1 DEF save_failure_action, Out, Refused
      <3> QED BY <1>4, <2>2, <3>1, Names, Queues
              DEF save_failure_action, Out, Refused, TypeOK, LcmTyped
    <2> QED BY <2>1, <2>2
  <1>5. ASSUME deploy_failure_action PROVE LcmTyped
    <2>1. CASE BackToPrevious
      BY <2>1, BackType
    <2>2. CASE failure_action
      BY <2>2, FailureType
    <2>3. CASE Refused
      BY <2>3, Queues DEF Refused, Out, TypeOK, LcmTyped
    <2> QED BY <1>5, <2>1, <2>2, <2>3 DEF deploy_failure_action
  <1>6. LcmTyped
    BY <1>1, <1>2, <1>3, <1>4, <1>5, PlainType, PrologSuccessType,
       PrologFailureType
    DEF LifeCycleManager, PlainHandler
  <1>7. lcmQ' \in Seq(LcmEvent)
    BY LcmPopType, Zenon
    DEF LifeCycleManager, FromRunning, MoveFromRunning, GiveUp,
        deploy_action, backup_action, on_action, restart_action,
        save_success_action, shutdown_success_action, shutdown_failure_action,
        epilog_success_action, cancel_success_action, off_success_action,
        xmlist_success_action, xmlist_failure_action,
        prolog_recover_decompress_action, monitor_suspend_action,
        monitor_done_action, recover_action, restore_action,
        deploy_success_action, cancel_failure_action, suspend_action,
        stop_action, shutdown_action, cancel_action, off_action,
        reboot_action, backupdisk_action, migrate_action, live_migrate_action,
        delete_action, clean_action, epilog_failure_action,
        monitor_failure_action, save_failure_action, deploy_failure_action,
        prolog_success_action, prolog_failure_action
  <1> QED BY <1>6, <1>7 DEF TypeOK, LifeCycleManager, LcmTyped, drivers

-----------------------------------------------------------------------------
(* Types: the other managers, the drivers and the hypervisors.              *)

LEMMA DispatchManagerType ==
  ASSUME TypeOK, DispatchManager
  PROVE  TypeOK'
  <1> USE DEF suspend_success_action, stop_success_action, done_action,
              failed_action, resubmit_action
  <1>1. lcmQ' = lcmQ /\ \E e : DmPop(e)
    BY Zenon DEF DispatchManager
  <1>2. dmQ' \in Seq(DmEvent)
    BY <1>1, HeadTailProperties DEF DmPop, TypeOK
  <1>3. \A s \in VmState : [vm EXCEPT !.state = s, !.lcm = "LCM_INIT"] \in VmObject
    BY DEF TypeOK, VmObject, LcmState
  <1>4. Released([vm EXCEPT !.state = "DONE", !.lcm = "LCM_INIT"]) \in VmObject
    BY <1>3, ReleasedType DEF VmState
  <1>5. vm' \in VmObject
    BY <1>3, <1>4 DEF DispatchManager, Settle, SettleOrKeepLock, TypeOK, VmState
  <1>6. daemon' \in {"up", "blocked", "dead"}
    BY DEF DispatchManager, Settle, SettleOrKeepLock, TypeOK
  <1> QED BY <1>2, <1>5, <1>6 DEF DispatchManager, TypeOK, drivers

LEMMA SendOpType ==
  ASSUME TypeOK, NEW op \in OpName, NEW at \in Hosts, NEW to \in Hosts,
         SendOp(op, at, to)
  PROVE  vmmOps' \in Seq(Operation) /\ vm' = vm /\ lcmQ' = lcmQ
  <1>1. [op |-> op, at |-> at, to |-> to, res |-> "none"] \in Operation
    BY DEF Operation
  <1> QED BY <1>1, AppendProperties DEF SendOp, TypeOK

\* What a handler of the VMM changes.
VmmTyped ==
  /\ vm' \in VmObject /\ lcmQ' \in Seq(LcmEvent)
  /\ vmmQ' \in Seq(VmmEvent) /\ vmmOps' \in Seq(Operation)

LEMMA OperateType ==
  ASSUME TypeOK, NEW a, NEW op \in OpName, NEW at \in Hosts \cup {NoHost},
         NEW to \in Hosts \cup {NoHost}, NEW v \in VmObject,
         NEW e \in Seq(LcmEvent), Operate(a, op, at, to, v, e)
  PROVE  VmmTyped
  <1>1. vmmQ' \in Seq(VmmEvent)
    BY HeadTailProperties DEF Operate, VmmPop, TypeOK
  <1>2. CASE GiveUpOp(v, e)
    BY <1>1, <1>2, ConcatProperties DEF GiveUpOp, TypeOK, VmmTyped
  <1>3. CASE SendOp(op, at, to) /\ at # NoHost /\ to # NoHost
    BY <1>1, <1>3, SendOpType DEF TypeOK, VmmTyped
  <1> QED BY <1>2, <1>3 DEF Operate

LEMMA VmmHandlerType ==
  ASSUME TypeOK, VmmHandler
  PROVE  VmmTyped
  <1> USE LcmLists DEF OpName
  <1>0. /\ vm \in VmObject
        /\ vm.cur.hid \in Hosts \cup {NoHost} /\ vm.prev.hid \in Hosts \cup {NoHost}
    BY RecordHost DEF TypeOK
  <1>1. ASSUME vmm_deploy_action \/ vmm_restore_action \/ vmm_shutdown_action
        PROVE  VmmTyped
    BY <1>0, <1>1, OperateType
       DEF vmm_deploy_action, vmm_restore_action, vmm_shutdown_action, AtHost
  <1>2. ASSUME vmm_cancel_action \/ vmm_off_action PROVE VmmTyped
    BY <1>0, <1>2, OperateType DEF vmm_cancel_action, vmm_off_action, AtHost
  <1>3. ASSUME vmm_reboot_action \/ poll_action PROVE VmmTyped
    BY <1>0, <1>3, OperateType DEF vmm_reboot_action, poll_action, AtHost
  <1>4. ASSUME vmm_backup_action \/ vmm_recover_action \/ vmm_backupdisk_action
        PROVE  VmmTyped
    <2>1. "RUNNING" \in LcmState /\ "DONE" \in VmState
      BY DEF LcmState, VmState
    <2>2. /\ [vm EXCEPT !.bk = Mark(@, "FAIL")] \in VmObject
          /\ [vm EXCEPT !.rs = Mark(@, "FAIL")] \in VmObject
          /\ [vm EXCEPT !.lcm = "RUNNING", !.dk = Mark(@, "FAIL")] \in VmObject
      BY <1>0, <2>1, MarkType, FieldType
    <2> QED BY <1>0, <1>4, <2>2, OperateType
            DEF vmm_backup_action, vmm_recover_action, vmm_backupdisk_action,
                AtHost
  <1>5. ASSUME vmm_save_action \/ vmm_migrate_action PROVE VmmTyped
    BY <1>0, <1>5, OperateType DEF vmm_save_action, vmm_migrate_action
  <1>6. ASSUME cancel_previous_action PROVE VmmTyped
    BY <1>0, <1>6, OperateType DEF cancel_previous_action
  <1>7. ASSUME driver_cancel_action PROVE VmmTyped
    BY <1>7, RemoveAtType, HeadTailProperties
       DEF driver_cancel_action, VmmPop, TypeOK, VmmTyped
  <1> QED BY <1>1, <1>2, <1>3, <1>4, <1>5, <1>6, <1>7 DEF VmmHandler

LEMMA VirtualMachineManagerType ==
  ASSUME TypeOK, VirtualMachineManager
  PROVE  TypeOK'
  <1>1. CASE VmmHandler /\ UNCHANGED budget
    BY <1>1, VmmHandlerType DEF VirtualMachineManager, TypeOK, VmmTyped
  <1>2. CASE timer_action
    <2>1. vm.cur.hid \in Hosts
      BY <1>2, RecordHost DEF timer_action, HasHistory, TypeOK
    <2>2. vmmOps' \in Seq(Operation) /\ vm' = vm /\ lcmQ' = lcmQ
      BY <1>2, <2>1, SendOpType DEF timer_action, OpName
    <2>3. budget' \in Budget
      BY <1>2, BudgetType DEF timer_action
    <2> QED BY <1>2, <2>2, <2>3 DEF VirtualMachineManager, timer_action, TypeOK
  <1> QED BY <1>1, <1>2 DEF VirtualMachineManager

\* What a handler of the TM changes.
TmTyped ==
  /\ vm' \in VmObject /\ lcmQ' \in Seq(LcmEvent)
  /\ tmQ' \in Seq(TmEvent) /\ tmOps' \in Seq(Script)
  /\ daemon' \in {"up", "blocked", "dead"}

LEMMA TransferType ==
  ASSUME TypeOK, NEW a \in Script, NEW ready, NEW v \in VmObject,
         NEW w \in VmObject, NEW e \in Seq(LcmEvent),
         TransferWith(a, ready, v, w, e)
  PROVE  TmTyped
  <1>1. tmQ' \in Seq(TmEvent)
    BY HeadTailProperties DEF TransferWith, TmPop, TypeOK
  <1>2. Append(tmOps, a) \in Seq(Script) /\ tmOps \in Seq(Script)
    BY AppendProperties DEF TypeOK
  <1>3. lcmQ \o e \in Seq(LcmEvent) /\ lcmQ \in Seq(LcmEvent)
    BY ConcatProperties DEF TypeOK
  <1> QED BY <1>1, <1>2, <1>3 DEF TransferWith, TmTyped, TypeOK

LEMMA TransferToType ==
  ASSUME TypeOK, NEW a \in Script, NEW r, NEW w \in VmObject,
         TransferTo(a, r, w)
  PROVE  TmTyped
  <1>1. CASE TransferWith(a, HasHistory, vm, w, <<"PROLOG_FAILURE">>)
    BY <1>1, LcmLists, TransferType DEF TypeOK
  <1>2. CASE TmPop(a) /\ daemon' = "dead" /\ UNCHANGED <<vm, lcmQ, tmOps>>
    BY <1>2, HeadTailProperties DEF TmPop, TypeOK, TmTyped
  <1> QED BY <1>1, <1>2 DEF TransferTo

LEMMA TransferManagerType ==
  ASSUME TypeOK, TransferManager
  PROVE  TypeOK'
  <1> USE LcmLists
  <1>1. vm \in VmObject
    BY DEF TypeOK
  <1>2. ASSUME NEW a \in Script, NEW e \in Seq(LcmEvent), Transfer(a, e)
        PROVE  TmTyped
    BY <1>1, <1>2, TransferType DEF Transfer
  <1>3. ASSUME \/ prolog_action \/ prolog_resume_action
               \/ epilog_action \/ epilog_stop_action
        PROVE  TmTyped
    BY <1>2, <1>3
       DEF prolog_action, prolog_resume_action, epilog_action,
           epilog_stop_action, Script
  <1>4. ASSUME \/ epilog_delete_action \/ prolog_on_action
               \/ delete_recover_fail_action \/ recover_decompress_fail_action
               \/ delete_backup_fail_action \/ epilog_deletebak_action
               \/ epilog_deletecps_action
        PROVE  TmTyped
    BY <1>2, <1>4
       DEF epilog_delete_action, prolog_on_action, delete_recover_fail_action,
           recover_decompress_fail_action, delete_backup_fail_action,
           epilog_deletebak_action, epilog_deletecps_action, Script
  <1>5. ASSUME prolog_migr_action \/ epilog_delete_previous_action
        PROVE  TmTyped
    BY <1>1, <1>5, TransferType
       DEF prolog_migr_action, epilog_delete_previous_action, Script
  <1>6. ASSUME \/ prolog_backup_action \/ prolog_backupdisk_action
               \/ epilog_decompress_action
        PROVE  TmTyped
    <2>1. "PROLOG_RECOVER" \in LcmState /\ "DONE" \in VmState
      BY DEF LcmState, VmState
    <2>2. /\ [vm EXCEPT !.bk = Mark(@, "FAIL")] \in VmObject
          /\ [vm EXCEPT !.lcm = "PROLOG_RECOVER", !.rs = Mark(@, "FAIL")]
                 \in VmObject
      BY <1>1, <2>1, MarkType, FieldType
    <2> QED BY <1>1, <1>6, <2>2, TransferType, TransferToType
            DEF prolog_backup_action, prolog_backupdisk_action,
                epilog_decompress_action, Script
  <1>7. ASSUME prolog_recover_action PROVE TmTyped
    <2>1. (IF vm.state = "FAILED" THEN "ACTIVE" ELSE vm.state) \in VmState
      BY <1>1 DEF VmObject, VmState
    <2>2. /\ [vm EXCEPT !.state = IF @ = "FAILED" THEN "ACTIVE" ELSE @] \in VmObject
          /\ [vm EXCEPT !.rs = Mark(@, "FAIL")] \in VmObject
      BY <1>1, <2>1, MarkType DEF VmObject
    <2> QED BY <1>1, <1>7, <2>2, TransferType DEF prolog_recover_action, Script
  <1>8. ASSUME tm_driver_cancel_action PROVE TmTyped
    BY <1>8, RemoveAtType, HeadTailProperties
       DEF tm_driver_cancel_action, TmPop, TypeOK, TmTyped
  <1>9. TmTyped
    BY <1>3, <1>4, <1>5, <1>6, <1>7, <1>8 DEF TransferManager
  <1> QED BY <1>9 DEF TransferManager, TmTyped, TypeOK

LEMMA HypervisorType ==
  ASSUME TypeOK, Hypervisor
  PROVE  TypeOK'
  <1>1. PICK i \in 1 .. Len(vmmOps) :
          LET o == vmmOps[i]
          IN  /\ \E r \in {"success", "failure", "a", "p", "e", "d"} :
                    vmmOps' = [vmmOps EXCEPT ![i].res = r]
              /\ domain' = domain \/ domain' = DomainAfter(o)
    BY LifeCycleAssumption DEF Hypervisor, PollResult
  <1>2. vmmOps \in Seq(Operation) /\ vmmOps[i] \in Operation
    BY DEF TypeOK
  <1>3. vmmOps' \in Seq(Operation)
    <2>1. PICK r \in {"success", "failure", "a", "p", "e", "d"} :
             vmmOps' = [vmmOps EXCEPT ![i].res = r]
      BY <1>1
    <2>2. [vmmOps[i] EXCEPT !.res = r] \in Operation
      BY <1>2 DEF Operation
    <2> QED BY <1>2, <2>1, <2>2, ExceptSeq
  <1>4. domain' \subseteq Hosts
    BY <1>1, <1>2 DEF DomainAfter, Operation, TypeOK
  <1> QED BY <1>3, <1>4 DEF Hypervisor, TypeOK, queues

\* The LCM knows every event that the answers of the drivers turn into.
LEMMA AnswerType ==
  /\ \A op : SuccessEvent(op) \in Seq(LcmEvent)
  /\ \A op : FailureEvent(op) \in Seq(LcmEvent)
  /\ \A r : MonitorEvent(r) \in Seq(LcmEvent)
  /\ \A ok \in BOOLEAN : TransferEvent(ok) \in Seq(LcmEvent)
  <1>1. \A op : SuccessEvent(op) \in Seq(LcmEvent)
    BY LcmLists DEF SuccessEvent
  <1>2. \A op : FailureEvent(op) \in Seq(LcmEvent)
    BY LcmLists DEF FailureEvent
  <1>3. \A r : MonitorEvent(r) \in Seq(LcmEvent)
    BY LcmLists DEF MonitorEvent
  <1>4. \A ok \in BOOLEAN : TransferEvent(ok) \in Seq(LcmEvent)
    BY LcmLists DEF TransferEvent
  <1> QED BY <1>1, <1>2, <1>3, <1>4

LEMMA VmmProtocolType ==
  ASSUME TypeOK, VmmProtocol
  PROVE  TypeOK'
  <1> DEFINE Event(o) == CASE o.res = "success" -> SuccessEvent(o.op)
                           [] o.res = "failure" -> FailureEvent(o.op)
                           [] OTHER -> MonitorEvent(o.res)
  <1>1. \A o : Event(o) \in Seq(LcmEvent)
    BY AnswerType
  <1>2. PICK i \in 1 .. Len(vmmOps) :
            /\ vmmOps' = RemoveAt(vmmOps, i)
            /\ lcmQ' = IF Deaf THEN lcmQ ELSE lcmQ \o Event(vmmOps[i])
            /\ vm' = IF vmmOps[i].res = "a" /\ vm.lcm = "UNKNOWN"
                     THEN [vm EXCEPT !.lcm = "RUNNING"] ELSE vm
    BY Zenon DEF VmmProtocol
  <1> HIDE DEF Event
  <1>3. vmmOps' \in Seq(Operation)
    BY <1>2, RemoveAtType DEF TypeOK
  <1>4. lcmQ' \in Seq(LcmEvent)
    BY <1>1, <1>2, ConcatProperties DEF TypeOK
  <1>5. vm' \in VmObject
    <2>1. [vm EXCEPT !.lcm = "RUNNING"] \in VmObject
      BY DEF TypeOK, VmObject, LcmState
    <2> QED BY <1>2, <2>1 DEF TypeOK
  <1> QED BY <1>3, <1>4, <1>5 DEF VmmProtocol, TypeOK

LEMMA TmProtocolType ==
  ASSUME TypeOK, TmProtocol
  PROVE  TypeOK'
  <1>1. PICK i \in 1 .. Len(tmOps), ok \in BOOLEAN :
          /\ tmOps' = RemoveAt(tmOps, i)
          /\ lcmQ' = IF Deaf THEN lcmQ ELSE lcmQ \o TransferEvent(ok)
    BY DEF TmProtocol
  <1>2. tmOps' \in Seq(Script)
    BY <1>1, RemoveAtType DEF TypeOK
  <1>3. lcmQ' \in Seq(LcmEvent)
    BY <1>1, AnswerType, ConcatProperties DEF TypeOK
  <1> QED BY <1>2, <1>3 DEF TmProtocol, TypeOK

LEMMA OutsideType ==
  ASSUME TypeOK, DomainDies \/ Evict \/ Restart
  PROVE  TypeOK'
  <1>1. ASSUME ReadAgain PROVE vm' \in VmObject
    <2>1. PICK g \in Garbage :
            vm' = [vm EXCEPT !.lcmstate = g, !.bk = "NONE", !.rs = "NONE",
                             !.dk = "NONE",
                             !.orphan = @ \/ "START" \in {vm.bk, vm.rs, vm.dk}]
      BY <1>1 DEF ReadAgain
    <2>2. /\ "NONE" \in RecordState
          /\ (vm.orphan \/ "START" \in {vm.bk, vm.rs, vm.dk}) \in BOOLEAN
      BY DEF RecordState
    <2>3. g \in LastState
      BY GarbageType DEF TypeOK
    <2> QED BY <2>1, <2>2, <2>3 DEF TypeOK, VmObject
  <1>2. CASE DomainDies
    <2>1. budget' \in Budget
      BY <1>2, BudgetType DEF DomainDies
    <2> QED BY <1>2, <2>1 DEF DomainDies, TypeOK, queues
  <1>3. CASE Evict
    BY <1>1, <1>3 DEF Evict, TypeOK, queues, drivers
  <1>4. CASE Restart
    <2>1. budget' \in Budget
      BY <1>4, BudgetType DEF Restart
    <2> QED BY <1>1, <1>4, <2>1 DEF Restart, TypeOK
  <1> QED BY <1>2, <1>3, <1>4

\* Every request, handler, answer and restart keeps the VM, the shares and the
\* queues well formed: each manager is sent only actions that its do_action
\* knows, and the VM only enters states that the managers know.
THEOREM TypeCorrect == Spec => []TypeOK
  <1>1. TypeOK /\ [Next]_vars => TypeOK'
    <2> SUFFICES ASSUME TypeOK, [Next]_vars PROVE TypeOK'
      OBVIOUS
    <2>1. CASE UNCHANGED vars
      BY <2>1 DEF vars, TypeOK
    <2>2. CASE Next
      BY <2>2, RequestsType, LifeCycleManagerType, DispatchManagerType,
         VirtualMachineManagerType, TransferManagerType, HypervisorType,
         VmmProtocolType, TmProtocolType, OutsideType
      DEF Next
    <2> QED BY <2>1, <2>2
  <1> QED BY <1>1, InitType, PTL DEF Spec

-----------------------------------------------------------------------------
(* 2. The handlers of the LCM read the last history records of a VM, mostly *)
(* without asking hasHistory() first.  These proofs show when the records   *)
(* are there.                                                               *)

\* The states of a migration, and the requests for one.
Moving    == {"SAVE_MIGRATE", "MIGRATE", "PROLOG_MIGRATE"}
StayEvent == LcmEvent \ {"MIGRATE", "LIVE_MIGRATE"}

\* All that can happen to a VM that was never deployed: it is held, released,
\* deleted or recovered, and its recovery fails.
FreshEvent  == {"RECOVER", "PROLOG_FAILURE"}
FreshScript == {"PROLOG_RECOVER", "DELETE_RECOVER_FAIL"}
Fresh ==
  /\ vm.prev.hid = NoHost
  /\ vm.state \in {"PENDING", "HOLD", "DONE"}
  /\ vm.lcm \in {"LCM_INIT", "PROLOG_RECOVER", "DELETE_RECOVER_FAIL"}
  /\ lcmQ \in Seq(FreshEvent) /\ tmQ \in Seq(FreshScript)
  /\ dmQ = <<>> /\ vmmQ = <<>> /\ rm = <<>> /\ vmmOps = <<>> /\ tmOps = <<>>

\* A VM that has been on one host only is not on its way to another.
Stays == vm.lcm \notin Moving /\ lcmQ \in Seq(StayEvent)

\* The inductive invariant: a VM with no record was never deployed, and one
\* with a single record does not migrate.
HistoryInv ==
  /\ ~HasHistory => Fresh
  /\ ~HasPrevious => Stays

-----------------------------------------------------------------------------
(* Lists of events, and what the fields of a VM keep.                       *)

LEMMA StayLists ==
  /\ <<>> \in Seq(StayEvent)
  /\ \A x \in StayEvent : <<x>> \in Seq(StayEvent)
  OBVIOUS

\* Every event but the requests for a migration.
LEMMA StayNames ==
  {"DEPLOY", "SUSPEND", "STOP", "SHUTDOWN", "CANCEL", "OFF", "ON", "REBOOT",
   "BACKUP", "BACKUPDISK", "RECOVER", "RESTORE", "RESTART", "DELETE", "CLEAN",
   "SAVE_SUCCESS", "SAVE_FAILURE", "DEPLOY_SUCCESS", "DEPLOY_FAILURE",
   "SHUTDOWN_SUCCESS", "SHUTDOWN_FAILURE", "PROLOG_SUCCESS", "PROLOG_FAILURE",
   "EPILOG_SUCCESS", "EPILOG_FAILURE", "CANCEL_SUCCESS", "CANCEL_FAILURE",
   "OFF_SUCCESS", "XMLIST_SUCCESS", "XMLIST_FAILURE",
   "PROLOG_RECOVER_DECOMPRESS", "MONITOR_FAILURE", "MONITOR_SUSPEND",
   "MONITOR_DONE"} \subseteq StayEvent
  BY DEF StayEvent, LcmEvent

\* Handlers that assign these fields leave the records where they are.
LEMMA FieldKeeps ==
  ASSUME NEW v \in VmObject, NEW s, NEW l, NEW r
  PROVE  /\ [v EXCEPT !.lcm = l].cur.hid = v.cur.hid
         /\ [v EXCEPT !.lcm = l].prev.hid = v.prev.hid
         /\ [v EXCEPT !.lcm = l].lcm = l
         /\ [v EXCEPT !.state = s].cur.hid = v.cur.hid
         /\ [v EXCEPT !.state = s].prev.hid = v.prev.hid
         /\ [v EXCEPT !.state = s].lcm = v.lcm
         /\ [v EXCEPT !.state = s].state = s
  BY DEF VmObject

LEMMA AddKeeps ==
  ASSUME NEW v \in VmObject, NEW h
  PROVE  /\ add_history(v, h).cur.hid = h
         /\ add_history(v, h).lcm = v.lcm
         /\ v.cur.hid # NoHost => add_history(v, h).prev.hid = v.cur.hid
         /\ v.cur.hid = NoHost => add_history(v, h).prev.hid = v.prev.hid
  BY DEF add_history, VmObject

\* The records and the events the step needs to keep HistoryInv, for a VM that
\* has been deployed.
LEMMA DeployedKeeps ==
  ASSUME HistoryInv, vm'.cur.hid # NoHost,
         HasPrevious => vm'.prev.hid # NoHost,
         HasPrevious' \/ (vm'.lcm \notin Moving /\ lcmQ' \in Seq(StayEvent))
  PROVE  HistoryInv'
  BY DEF HistoryInv, HasHistory, HasPrevious, Stays

LEMMA InitHistory == Init => HistoryInv
  BY DEF Init, HistoryInv, HasHistory, Fresh, Stays, Moving, NoHistory

-----------------------------------------------------------------------------
(* The requests.                                                            *)

\* A request that leaves the VM v, and adds no migration to the queue.
LEMMA DoKeeps ==
  ASSUME TypeOK, HistoryInv, NEW v, NEW l \in Seq(StayEvent), NEW t,
         Do(v, l, t), v.cur.hid # NoHost, v.prev.hid = vm.prev.hid,
         v.lcm \in {vm.lcm, "LCM_INIT"}
  PROVE  HistoryInv'
  <1>1. ~HasPrevious => vm'.lcm \notin Moving /\ lcmQ' \in Seq(StayEvent)
    BY ConcatProperties DEF Do, HistoryInv, Stays, Moving
  <1> QED BY <1>1, DeployedKeeps DEF Do, HasPrevious

LEMMA RequestsHistory ==
  ASSUME TypeOK, HistoryInv, Requests
  PROVE  HistoryInv'
  <1> USE StayLists, StayNames
  <1>0. vm \in VmObject
    BY DEF TypeOK
  <1>1. ASSUME NEW h \in Hosts, deploy(h) PROVE HistoryInv'
    <2>1. h # NoHost
      BY LifeCycleAssumption
    <2>2. CASE HasHistory
      BY <1>0, <1>1, <2>1, <2>2
      DEF deploy, Do, HistoryInv, HasHistory, HasPrevious, add_history, VmObject
    <2>3. CASE ~HasHistory
      <3>1. /\ vm'.cur.hid = h /\ vm'.prev.hid = vm.prev.hid /\ vm'.lcm = vm.lcm
        BY <1>0, <1>1, <2>3 DEF deploy, Do, HasHistory, add_history, VmObject
      <3>2. vm.lcm \notin Moving /\ lcmQ \in Seq(StayEvent) /\ ~HasPrevious
        BY <2>3 DEF HistoryInv, Fresh, HasPrevious, Stays
      <3>3. lcmQ' \in Seq(StayEvent)
        BY <1>1, <3>2, ConcatProperties DEF deploy, Do
      <3> QED BY <2>1, <3>1, <3>2, <3>3, DeployedKeeps
    <2> QED BY <2>2, <2>3
  <1>2. ASSUME NEW h \in Hosts, migrate(h) \/ live_migrate(h) PROVE HistoryInv'
    <2>1. h # NoHost /\ HasHistory
      BY <1>2, LifeCycleAssumption
      DEF HistoryInv, Fresh, migrate, live_migrate, CanMigrate, Running, Is
    <2>2. vm'.cur.hid = h /\ vm'.prev.hid = vm.cur.hid
      BY <1>0, <1>2, <2>1, AddKeeps DEF migrate, live_migrate, Do, HasHistory
    <2> QED BY <2>1, <2>2 DEF HistoryInv, HasHistory, HasPrevious
  <1>3. ASSUME backup \/ backupdisk PROVE HistoryInv'
    <2>1. HasHistory
      BY <1>3 DEF HistoryInv, Fresh, backup, backupdisk, Running, Is
    <2>2. \A r : /\ [Forget(vm, r) EXCEPT !.bk = "START"].cur = vm.cur
                 /\ [Forget(vm, r) EXCEPT !.bk = "START"].prev = vm.prev
                 /\ [Forget(vm, r) EXCEPT !.bk = "START"].lcm = vm.lcm
                 /\ [Forget(vm, r) EXCEPT !.dk = "START"].cur = vm.cur
                 /\ [Forget(vm, r) EXCEPT !.dk = "START"].prev = vm.prev
                 /\ [Forget(vm, r) EXCEPT !.dk = "START"].lcm = vm.lcm
      BY <1>0 DEF Forget, VmObject
    <2> QED BY <1>3, <2>1, <2>2, DoKeeps DEF backup, backupdisk, HasHistory
  <1>4. ASSUME recover PROVE HistoryInv'
    <2>1. PICK v \in {vm, Forget(vm, vm.rs)} :
             Do([v EXCEPT !.rs = "START"], <<"RECOVER">>, <<>>)
      BY <1>4 DEF recover
    <2>2. /\ vm'.cur = vm.cur /\ vm'.prev = vm.prev
          /\ vm'.lcm = vm.lcm /\ vm'.state = vm.state
      BY <1>0, <2>1 DEF Do, Forget, VmObject
    <2>3. CASE HasHistory
      BY <2>1, <2>2, <2>3, DoKeeps DEF HasHistory, Do
    <2>4. CASE ~HasHistory
      <3>1. Fresh /\ ~HasPrevious /\ Stays
        BY <2>4 DEF HistoryInv, Fresh, HasPrevious
      <3>2. lcmQ' \in Seq(FreshEvent) /\ tmQ' \in Seq(FreshScript)
        BY <2>1, <3>1, ConcatProperties, EmptySeq DEF Do, Fresh, FreshEvent
      <3>3. lcmQ' \in Seq(StayEvent)
        BY <2>1, <3>1, ConcatProperties DEF Do, Stays
      <3> QED BY <2>1, <2>2, <3>1, <3>2, <3>3
              DEF Do, drivers, HistoryInv, HasHistory, HasPrevious, Fresh, Stays
    <2> QED BY <2>3, <2>4
  <1>5. ASSUME \/ shutdown \/ stop \/ suspend \/ reboot \/ restart
        PROVE  HistoryInv'
    <2>1. HasHistory
      BY <1>5 DEF HistoryInv, Fresh, shutdown, stop, suspend, reboot, restart,
                  Running, Is
    <2> QED BY <1>5, <2>1, DoKeeps
            DEF shutdown, stop, suspend, reboot, restart, HasHistory
  <1>6. ASSUME NEW s \in VmState, NEW l \in {vm.lcm, "LCM_INIT"}, NEW v,
               v.state = s, v.lcm = l, v.cur.hid = vm.cur.hid,
               v.prev.hid = vm.prev.hid,
               NEW t, Do(v, <<>>, t),
               HasHistory \/ (s \in {"PENDING", "HOLD", "DONE"} /\ t = <<>>)
        PROVE  HistoryInv'
    <2>1. CASE HasHistory
      BY <1>6, <2>1, DoKeeps DEF HasHistory
    <2>2. CASE ~HasHistory
      <3>1. Fresh /\ ~HasPrevious /\ Stays
        BY <2>2 DEF HistoryInv, Fresh, HasPrevious
      <3>2. lcmQ' = lcmQ /\ tmQ' = tmQ
        BY <1>6, <2>2, <3>1, ConcatEmptySeq DEF Do, Fresh
      <3>3. vm'.lcm \in {"LCM_INIT", "PROLOG_RECOVER", "DELETE_RECOVER_FAIL"}
        BY <1>6, <3>1 DEF Do, Fresh
      <3> QED BY <1>6, <2>2, <3>1, <3>2, <3>3
              DEF Do, drivers, HistoryInv, HasHistory, HasPrevious, Fresh,
                  Stays, Moving
    <2> QED BY <2>1, <2>2
  <1>7. ASSUME hold \/ release PROVE HistoryInv'
    <2>1. PICK s \in {"PENDING", "HOLD"} : Do([vm EXCEPT !.state = s], <<>>, <<>>)
      BY <1>7 DEF hold, release
    <2>2. PICK v : v = [vm EXCEPT !.state = s]
      OBVIOUS
    <2>3. /\ v.state = s /\ v.lcm = vm.lcm /\ v.cur.hid = vm.cur.hid
          /\ v.prev.hid = vm.prev.hid
      BY <1>0, <2>2, FieldKeeps
    <2>4. s \in VmState
      BY DEF VmState
    <2> QED BY <1>6, <2>1, <2>2, <2>3, <2>4
  <1>8. ASSUME resume PROVE HistoryInv'
    <2>1. HasHistory
      BY <1>8 DEF HistoryInv, Fresh, resume
    <2>0. \A s : LET v == [vm EXCEPT !.state = s]
                IN  v.cur = vm.cur /\ v.prev = vm.prev /\ v.lcm = vm.lcm
      BY <1>0 DEF VmObject
    <2>2. CASE Do([vm EXCEPT !.state = "PENDING"], <<>>, <<>>)
      BY <2>0, <2>1, <2>2, DoKeeps DEF HasHistory
    <2>3. CASE Do([vm EXCEPT !.state = "ACTIVE"], <<"RESTORE">>, <<>>)
      BY <2>0, <2>1, <2>3, DoKeeps DEF HasHistory
    <2> QED BY <1>8, <2>2, <2>3 DEF resume
  <1>9. ASSUME cancel \/ off \/ on PROVE HistoryInv'
    <2>1. HasHistory
      BY <1>9 DEF HistoryInv, Fresh, cancel, off, on, Running, Is
    <2> QED BY <1>9, <2>1 DEF cancel, off, on, Later, queues, HistoryInv,
                              HasHistory, HasPrevious, Stays
  <1>10. ASSUME finalize PROVE HistoryInv'
    <2> DEFINE v == Released([vm EXCEPT !.lcm = "LCM_INIT", !.state = "DONE"])
    <2>1. /\ v.state = "DONE" /\ v.lcm = "LCM_INIT"
          /\ v.cur.hid = vm.cur.hid /\ v.prev.hid = vm.prev.hid
      BY <1>0 DEF Released, VmObject
    <2> HIDE DEF v
    <2>2. CASE vm.state = "ACTIVE" /\ Do(vm, <<"DELETE">>, <<>>)
      BY <2>2, DoKeeps DEF HistoryInv, Fresh, HasHistory
    <2>3. ASSUME NEW t, Do(v, <<>>, t),
                 vm.state \in {"SUSPENDED", "FAILED"} \/ t = <<>>
          PROVE  HistoryInv'
      <3>1. HasHistory \/ t = <<>>
        BY <2>3 DEF HistoryInv, Fresh
      <3>2. "DONE" \in VmState
        BY DEF VmState
      <3> QED BY <1>6, <2>1, <2>3, <3>1, <3>2
    <2> QED BY <1>10, <2>2, <2>3 DEF finalize, v
  <1>11. ASSUME resubmit PROVE HistoryInv'
    <2> DEFINE v == [vm EXCEPT !.lcm = "LCM_INIT", !.state = "PENDING"]
    <2>1. /\ v.state = "PENDING" /\ v.lcm = "LCM_INIT"
          /\ v.cur.hid = vm.cur.hid /\ v.prev.hid = vm.prev.hid
      BY <1>0 DEF VmObject
    <2> HIDE DEF v
    <2>2. CASE vm.state = "ACTIVE" /\ Do(vm, <<"CLEAN">>, <<>>)
      BY <2>2, DoKeeps DEF HistoryInv, Fresh, HasHistory
    <2>3. ASSUME NEW t, Do(v, <<>>, t), vm.state = "FAILED" \/ t = <<>>
          PROVE  HistoryInv'
      <3>1. HasHistory \/ t = <<>>
        BY <2>3 DEF HistoryInv, Fresh
      <3>2. "PENDING" \in VmState
        BY DEF VmState
      <3> QED BY <1>6, <2>1, <2>3, <3>1, <3>2
    <2> QED BY <1>11, <2>2, <2>3 DEF resubmit, v
  <1>12. ASSUME change PROVE HistoryInv'
    <2>1. HasHistory
      BY <1>12 DEF HistoryInv, Fresh, change, Is
    <2> DEFINE v == [vm EXCEPT !.mem = IF @ = 1 THEN 2 ELSE 1]
    <2>2. v.cur = vm.cur /\ v.prev = vm.prev /\ v.lcm = vm.lcm
      BY <1>0 DEF VmObject
    <2> QED BY <1>12, <2>1, <2>2, DoKeeps DEF change, HasHistory
  <1>13. ASSUME RequestTriggers PROVE HistoryInv'
    <2>1. PICK i \in 1 .. Len(rm) : lcmQ' = Append(lcmQ, rm[i])
      BY <1>13 DEF RequestTriggers
    <2>2. rm \in Seq(RmEvent) /\ rm[i] \in RmEvent
      BY DEF TypeOK
    <2>3. HasHistory
      BY <2>1 DEF HistoryInv, Fresh
    <2>4. lcmQ \in Seq(StayEvent) => lcmQ' \in Seq(StayEvent)
      BY <2>1, <2>2, AppendProperties DEF RmEvent
    <2> QED BY <1>13, <2>3, <2>4
            DEF RequestTriggers, HistoryInv, HasHistory, HasPrevious, Stays
  <1> QED BY <1>1, <1>2, <1>3, <1>4, <1>5, <1>7, <1>8, <1>9, <1>10, <1>11,
             <1>12, <1>13
          DEF Requests

-----------------------------------------------------------------------------
(* The Life-cycle Manager.                                                  *)

\* What a handler does to the VM, if it has a history.
LcmKeeps ==
  /\ vm'.cur.hid # NoHost
  /\ HasPrevious => vm'.prev.hid # NoHost
  /\ ~HasPrevious => vm'.lcm \notin Moving

LEMMA PlainKeeps ==
  ASSUME TypeOK, HistoryInv, HasHistory, PlainHandler
  PROVE  LcmKeeps
  <1> USE DEF HasHistory, HasPrevious, Out, Refused, LcmKeeps, Moving
  <1>0. /\ vm \in VmObject
        /\ HasPrevious \/ vm.lcm \notin Moving
    BY DEF TypeOK, HistoryInv, Stays
  <1>1. ASSUME deploy_action PROVE LcmKeeps
    BY <1>0, <1>1 DEF deploy_action, VmObject
  <1>2. ASSUME backup_action PROVE LcmKeeps
    <2>1. \A r : /\ [vm EXCEPT !.bk = r].cur = vm.cur
                 /\ [vm EXCEPT !.bk = r].prev = vm.prev
                 /\ [vm EXCEPT !.bk = r].lcm = vm.lcm
      BY <1>0 DEF VmObject
    <2> QED BY <1>0, <1>2, <2>1 DEF backup_action, VmObject
  <1>3. ASSUME on_action \/ restart_action PROVE LcmKeeps
    BY <1>0, <1>3 DEF on_action, restart_action, VmObject
  <1>5. ASSUME save_success_action PROVE LcmKeeps
    <2>1. CASE vm.lcm = "SAVE_MIGRATE"
      <3>1. vm' = [vm EXCEPT !.lcm = "PROLOG_MIGRATE", !.prev.reason = "USER"]
        BY <1>5, <2>1 DEF save_success_action
      <3> QED BY <1>0, <2>1, <3>1 DEF VmObject, History
    <2>2. CASE vm.lcm = "SAVE_SUSPEND"
      BY <1>0, <1>5, <2>2 DEF save_success_action, VmObject, History
    <2>3. CASE vm.lcm = "SAVE_STOP"
      <3>1. vm' = [vm EXCEPT !.lcm = "EPILOG_STOP",
                             !.cur.reason = "STOP_RESUME"]
        BY <1>5, <2>3 DEF save_success_action
      <3> QED BY <1>0, <3>1 DEF VmObject, History
    <2>4. CASE vm' = vm
      BY <1>0, <2>4
    <2> QED BY <1>5, <2>1, <2>2, <2>3, <2>4 DEF save_success_action
  <1>6. ASSUME shutdown_success_action \/ shutdown_failure_action PROVE LcmKeeps
    BY <1>0, <1>6 DEF shutdown_success_action, shutdown_failure_action, VmObject
  <1>8. ASSUME epilog_success_action PROVE LcmKeeps
    BY <1>0, <1>8 DEF epilog_success_action
  <1>9. ASSUME cancel_success_action PROVE LcmKeeps
    BY <1>0, <1>9 DEF cancel_success_action, VmObject, History
  <1>10. ASSUME off_success_action PROVE LcmKeeps
    BY <1>0, <1>10 DEF off_success_action, VmObject
  <1>11. ASSUME xmlist_success_action \/ xmlist_failure_action PROVE LcmKeeps
    BY <1>0, <1>11 DEF xmlist_success_action, xmlist_failure_action, VmObject
  <1>13. ASSUME prolog_recover_decompress_action PROVE LcmKeeps
    BY <1>0, <1>13 DEF prolog_recover_decompress_action, VmObject
  <1>14. ASSUME monitor_suspend_action PROVE LcmKeeps
    BY <1>0, <1>14 DEF monitor_suspend_action, VmObject, History
  <1>15. ASSUME monitor_done_action PROVE LcmKeeps
    BY <1>0, <1>15 DEF monitor_done_action, VmObject
  <1>16. ASSUME recover_action PROVE LcmKeeps
    BY <1>0, <1>16 DEF recover_action, VmObject
  <1>17. ASSUME restore_action PROVE LcmKeeps
    <2>1. vm.cur.hid \in Hosts \cup {NoHost}
      BY <1>0, RecordHost
    <2>2. cp_history(vm) \in VmObject
      BY <1>0, <2>1, HistoryType DEF cp_history
    <2>3. /\ cp_history(vm).cur.hid # NoHost
          /\ cp_history(vm).prev.hid # NoHost
      BY <1>0, AddKeeps DEF cp_history
    <2> QED BY <1>0, <1>17, <2>2, <2>3 DEF restore_action, VmObject
  <1>18. ASSUME deploy_success_action PROVE LcmKeeps
    BY <1>0, <1>18 DEF deploy_success_action, VmObject, History
  <1>19. ASSUME cancel_failure_action PROVE LcmKeeps
    BY <1>0, <1>19 DEF cancel_failure_action, VmObject
  <1> QED BY <1>1, <1>2, <1>3, <1>5, <1>6, <1>8, <1>9, <1>10, <1>11, <1>13,
             <1>14, <1>15, <1>16, <1>17, <1>18, <1>19
          DEF PlainHandler

\* A migration that fails goes back to the host before, which is recorded.
LEMMA BackKeeps ==
  ASSUME TypeOK, HistoryInv, HasHistory, BackToPrevious, vm.lcm \in Moving
  PROVE  LcmKeeps
  <1> DEFINE w == [vm EXCEPT !.cur.reason = "ERROR", !.prev.reason = "USER"]
  <1>1. w \in VmObject
    BY ReasonType DEF TypeOK, VmObject, Reason
  <1>2. HasPrevious
    BY DEF HistoryInv, Stays
  <1>3. w.cur.hid # NoHost /\ w.prev.hid # NoHost
    BY <1>2 DEF TypeOK, VmObject, History, HasHistory, HasPrevious
  <1> HIDE DEF w
  <1>4. cp_previous_history(w) \in VmObject
    BY <1>1, RecordHost, HistoryType DEF cp_previous_history
  <1>5. /\ cp_previous_history(w).cur.hid # NoHost
        /\ cp_previous_history(w).prev.hid # NoHost
    BY <1>1, <1>3, AddKeeps DEF cp_previous_history
  <1>6. vm' = [cp_previous_history(w) EXCEPT !.lcm = "RUNNING"]
    BY DEF BackToPrevious, Out, w
  <1>7. vm'.cur.hid # NoHost /\ vm'.prev.hid # NoHost
    BY <1>4, <1>5, <1>6 DEF VmObject
  <1> QED BY <1>2, <1>7 DEF LcmKeeps

LEMMA FailureKeeps ==
  ASSUME TypeOK, HasHistory, failure_action
  PROVE  LcmKeeps
  <1>1. vm' = [vm EXCEPT !.lcm = "FAILURE", !.cur.reason = "ERROR"]
    BY DEF failure_action, Out
  <1>2. vm'.cur.hid = vm.cur.hid /\ vm'.prev = vm.prev /\ vm'.lcm = "FAILURE"
    BY <1>1 DEF TypeOK, VmObject, History
  <1> QED BY <1>2 DEF HasHistory, HasPrevious, LcmKeeps, Moving

LEMMA GiveUpKeeps ==
  ASSUME TypeOK, HistoryInv, HasHistory, NEW e, NEW d, GiveUp(e, d)
  PROVE  LcmKeeps
  <1>0. vm \in VmObject
    BY DEF TypeOK
  <1>1. CASE Refused
    BY <1>1 DEF Refused, Out, HistoryInv, HasHistory, HasPrevious, Stays,
                LcmKeeps
  <1>2. CASE clean_up_vm(d)
    <2> DEFINE v == [vm EXCEPT !.lcm = "CLEANUP", !.cur.reason = "USER"]
    <2>0. "CLEANUP" \in LcmState /\ "USER" \in Reason
      BY DEF LcmState, Reason
    <2>1. /\ v \in VmObject
          /\ v.cur.hid = vm.cur.hid /\ v.prev = vm.prev /\ v.lcm = "CLEANUP"
      <3>1. v \in VmObject
        BY <1>0, <2>0, LeaveType
      <3> QED BY <1>0, <3>1 DEF VmObject, History
    <2>2. vm' = v \/ vm' = [v EXCEPT !.prev.reason = "USER"]
      BY <1>2 DEF clean_up_vm, Out
    <2> HIDE DEF v
    <2>3. /\ vm'.cur.hid = vm.cur.hid /\ vm'.prev.hid = vm.prev.hid
          /\ vm'.lcm = "CLEANUP"
      BY <2>1, <2>2 DEF VmObject, History
    <2> QED BY <2>3 DEF LcmKeeps, HasHistory, HasPrevious, Moving
  <1> QED BY <1>1, <1>2 DEF GiveUp

LEMMA RunningKeeps ==
  ASSUME TypeOK, HistoryInv, HasHistory, NEW e, NEW to, NEW op,
         \/ FromRunning(e, to, op) /\ to \notin Moving
         \/ MoveFromRunning(e, to, op) /\ HasPrevious
  PROVE  LcmKeeps
  <1>1. vm' = vm \/ vm' = [vm EXCEPT !.lcm = to]
    BY DEF FromRunning, MoveFromRunning, Out, Refused
  <1>2. CASE vm' = vm
    BY <1>2 DEF HistoryInv, HasHistory, HasPrevious, Stays, LcmKeeps
  <1>3. CASE vm' = [vm EXCEPT !.lcm = to]
    <2>1. vm'.cur = vm.cur /\ vm'.prev = vm.prev /\ vm'.lcm = to
      BY <1>3 DEF TypeOK, VmObject
    <2> QED BY <2>1 DEF HasHistory, HasPrevious, LcmKeeps
  <1> QED BY <1>1, <1>2, <1>3

LEMMA PrologSuccessKeeps ==
  ASSUME TypeOK, HistoryInv, HasHistory, prolog_success_action
  PROVE  LcmKeeps
  <1>0. vm \in VmObject
    BY DEF TypeOK
  <1>1. /\ vm'.cur = vm.cur /\ vm'.prev = vm.prev
        /\ vm'.lcm \in {vm.lcm, "BOOT", "OFF"}
    BY <1>0 DEF prolog_success_action, Out, Refused, Crash, VmObject
  <1> QED BY <1>1 DEF HistoryInv, HasHistory, HasPrevious, Stays, LcmKeeps,
                      Moving

LEMMA PrologFailureKeeps ==
  ASSUME TypeOK, HistoryInv, HasHistory, prolog_failure_action
  PROVE  LcmKeeps
  <1>0. vm \in VmObject
    BY DEF TypeOK
  <1>1. CASE failure_action
    BY <1>1, FailureKeeps
  <1>2. CASE ~failure_action
    <2>1. /\ vm'.cur = vm.cur /\ vm'.prev = vm.prev
          /\ vm'.lcm \in {vm.lcm, "OFF", "DELETE_BACKUP_FAIL",
                          "DELETE_RECOVER_FAIL", "RECOVER_DECOMPRESS_FAIL"}
      BY <1>0, <1>2 DEF prolog_failure_action, Out, VmObject
    <2> QED BY <2>1 DEF HistoryInv, HasHistory, HasPrevious, Stays, LcmKeeps,
                        Moving
  <1> QED BY <1>1, <1>2

\* The handlers take one event from the queue, and add none.
LEMMA LcmPops ==
  ASSUME LifeCycleManager
  PROVE  \E e : LcmPop(e)
  BY Zenon
  DEF LifeCycleManager, FromRunning, MoveFromRunning, GiveUp,
      deploy_action, backup_action, on_action, restart_action,
      save_success_action, shutdown_success_action, shutdown_failure_action,
      epilog_success_action, cancel_success_action, off_success_action,
      xmlist_success_action, xmlist_failure_action,
      prolog_recover_decompress_action, monitor_suspend_action,
      monitor_done_action, recover_action, restore_action,
      deploy_success_action, cancel_failure_action, suspend_action,
      stop_action, shutdown_action, cancel_action, off_action,
      reboot_action, backupdisk_action, migrate_action, live_migrate_action,
      delete_action, clean_action, epilog_failure_action,
      monitor_failure_action, save_failure_action, deploy_failure_action,
      prolog_success_action, prolog_failure_action

LEMMA TailKeeps ==
  ASSUME NEW S, NEW e, LcmPop(e), lcmQ \in Seq(S)
  PROVE  e \in S /\ lcmQ' \in Seq(S)
  BY HeadTailProperties DEF LcmPop

\* A VM with a history.
LEMMA DeployedLcm ==
  ASSUME TypeOK, HistoryInv, HasHistory, LifeCycleManager
  PROVE  LcmKeeps
  <1>1. ASSUME \/ suspend_action \/ stop_action \/ shutdown_action
               \/ cancel_action \/ off_action \/ reboot_action
               \/ backupdisk_action
        PROVE  LcmKeeps
    <2>1. {"SAVE_SUSPEND", "SAVE_STOP", "SHUTDOWN", "CANCEL", "RUNNING",
           "OFF_BACKUPDISK"} \cap Moving = {}
      BY DEF Moving
    <2> QED BY <1>1, <2>1, RunningKeeps
            DEF suspend_action, stop_action, shutdown_action, cancel_action,
                off_action, reboot_action, backupdisk_action
  <1>2. ASSUME migrate_action \/ live_migrate_action PROVE LcmKeeps
    <2>1. LcmPop("MIGRATE") \/ LcmPop("LIVE_MIGRATE")
      BY <1>2 DEF migrate_action, live_migrate_action, MoveFromRunning
    <2>2. HasPrevious
      BY <2>1, TailKeeps DEF HistoryInv, Stays, StayEvent
    <2> QED BY <1>2, <2>2, RunningKeeps DEF migrate_action, live_migrate_action
  <1>3. ASSUME delete_action \/ clean_action PROVE LcmKeeps
    BY <1>3, GiveUpKeeps DEF delete_action, clean_action
  <1>4. ASSUME epilog_failure_action \/ monitor_failure_action PROVE LcmKeeps
    BY <1>4, FailureKeeps DEF epilog_failure_action, monitor_failure_action
  <1>5. ASSUME vm' = vm PROVE LcmKeeps
    BY <1>5 DEF HistoryInv, HasHistory, HasPrevious, Stays, LcmKeeps
  <1>6. ASSUME save_failure_action PROVE LcmKeeps
    <2>1. CASE vm.lcm = "SAVE_MIGRATE"
      BY <1>6, <2>1, BackKeeps DEF save_failure_action, Moving
    <2>2. CASE vm' = [vm EXCEPT !.lcm = "RUNNING"]
      BY <2>2 DEF TypeOK, VmObject, HasHistory, HasPrevious, LcmKeeps, Moving
    <2> QED BY <1>5, <1>6, <2>1, <2>2 DEF save_failure_action, Out, Refused
  <1>7. ASSUME deploy_failure_action PROVE LcmKeeps
    <2>1. CASE vm.lcm = "MIGRATE"
      BY <1>7, <2>1, BackKeeps DEF deploy_failure_action, Moving
    <2>2. CASE failure_action
      BY <2>2, FailureKeeps
    <2> QED BY <1>5, <1>7, <2>1, <2>2
            DEF deploy_failure_action, Out, Refused
  <1> QED BY <1>1, <1>2, <1>3, <1>4, <1>6, <1>7, PlainKeeps,
             PrologSuccessKeeps, PrologFailureKeeps
          DEF LifeCycleManager, PlainHandler

\* A VM without one: its recovery is begun, or fails.
LEMMA FreshLcm ==
  ASSUME TypeOK, HistoryInv, ~HasHistory, LifeCycleManager
  PROVE  HistoryInv'
  <1>0. vm \in VmObject /\ Fresh /\ ~HasPrevious
    BY DEF TypeOK, HistoryInv, Fresh, HasPrevious
  <1>1. PICK e : LcmPop(e)
    BY LcmPops
  <1>2. e \in FreshEvent /\ lcmQ' \in Seq(FreshEvent) /\ lcmQ' \in Seq(StayEvent)
    BY <1>0, <1>1, TailKeeps DEF Fresh, HistoryInv, Stays
  <1>3. UNCHANGED <<rm, vmmOps, tmOps>>
    BY DEF LifeCycleManager, drivers
  <1>4. \A x : LcmPop(x) => x = e
    BY <1>1 DEF LcmPop
  <1>5. recover_action \/ prolog_failure_action
    BY <1>2, <1>4
    DEF FreshEvent, LifeCycleManager, FromRunning, MoveFromRunning, GiveUp,
        deploy_action, backup_action, on_action, restart_action,
        save_success_action, shutdown_success_action, shutdown_failure_action,
        epilog_success_action, cancel_success_action, off_success_action,
        xmlist_success_action, xmlist_failure_action,
        prolog_recover_decompress_action, monitor_suspend_action,
        monitor_done_action, restore_action,
        deploy_success_action, cancel_failure_action, suspend_action,
        stop_action, shutdown_action, cancel_action, off_action,
        reboot_action, backupdisk_action, migrate_action, live_migrate_action,
        delete_action, clean_action, epilog_failure_action,
        monitor_failure_action, save_failure_action, deploy_failure_action,
        prolog_success_action
  <1>6. ASSUME NEW l \in {"PROLOG_RECOVER", "DELETE_RECOVER_FAIL"},
               NEW v, v.cur = vm.cur, v.prev = vm.prev, v.state = vm.state,
               v.lcm = l, Out(v, charge, <<>>, <<>>, <<l>>)
        PROVE  HistoryInv'
    <2>1. tmQ' \in Seq(FreshScript)
      BY <1>0, <1>6, ConcatProperties DEF Out, Fresh, FreshScript
    <2>2. dmQ' = <<>> /\ vmmQ' = <<>>
      BY <1>0, <1>6, ConcatEmptySeq, EmptySeq DEF Out, Fresh
    <2> QED BY <1>0, <1>2, <1>3, <1>6, <2>1, <2>2
            DEF Out, HistoryInv, HasHistory, HasPrevious, Fresh, Stays, Moving
  <1>7. ASSUME recover_action PROVE HistoryInv'
    <2> DEFINE v == [vm EXCEPT !.lcm = "PROLOG_RECOVER"]
    <2>1. Out(v, charge, <<>>, <<>>, <<"PROLOG_RECOVER">>)
      BY <1>0, <1>7 DEF recover_action, Running, Is, Fresh
    <2>2. /\ v.cur = vm.cur /\ v.prev = vm.prev /\ v.state = vm.state
          /\ v.lcm = "PROLOG_RECOVER"
      BY <1>0 DEF VmObject
    <2> HIDE DEF v
    <2> QED BY <1>6, <2>1, <2>2
  <1>8. ASSUME prolog_failure_action PROVE HistoryInv'
    <2> DEFINE v == [[vm EXCEPT !.lcmstate = "OTHER"]
                        EXCEPT !.lcm = "DELETE_RECOVER_FAIL",
                               !.rs = Mark(@, "FAIL")]
    <2>1. \/ Out(v, charge, <<>>, <<>>, <<"DELETE_RECOVER_FAIL">>)
          \/ Crash
      BY <1>0, <1>8 DEF prolog_failure_action, failure_action, Fresh
    <2>2. /\ v.cur = vm.cur /\ v.prev = vm.prev /\ v.state = vm.state
          /\ v.lcm = "DELETE_RECOVER_FAIL"
      BY <1>0 DEF VmObject
    <2> HIDE DEF v
    <2>3. CASE Crash
      BY <1>0, <1>2, <1>3, <2>3
      DEF Crash, HistoryInv, HasHistory, HasPrevious, Fresh, Stays
    <2> QED BY <1>6, <2>1, <2>2, <2>3
  <1> QED BY <1>5, <1>7, <1>8

LEMMA LifeCycleManagerHistory ==
  ASSUME TypeOK, HistoryInv, LifeCycleManager
  PROVE  HistoryInv'
  <1>1. CASE HasHistory
    <2>1. ~HasPrevious => lcmQ' \in Seq(StayEvent)
      BY LcmPops, TailKeeps DEF HistoryInv, Stays
    <2> QED BY <1>1, <2>1, DeployedLcm, DeployedKeeps DEF LcmKeeps, HasPrevious
  <1> QED BY <1>1, FreshLcm

-----------------------------------------------------------------------------
(* The other managers, the drivers and the hypervisors.                     *)

\* They change no record, start no migration and ask for none.
Stationary ==
  /\ vm'.cur.hid = vm.cur.hid /\ vm'.prev.hid = vm.prev.hid
  /\ vm'.lcm \in {vm.lcm, "LCM_INIT", "RUNNING", "PROLOG_RECOVER"}
  /\ lcmQ' = lcmQ \/ \E e \in Seq(StayEvent) : lcmQ' = lcmQ \o e

LEMMA StationaryKeeps ==
  ASSUME HistoryInv, HasHistory, Stationary
  PROVE  HistoryInv'
  <1>1. ~HasPrevious => vm'.lcm \notin Moving /\ lcmQ' \in Seq(StayEvent)
    BY ConcatProperties DEF Stationary, HistoryInv, Stays, Moving
  <1> QED BY <1>1, DeployedKeeps DEF Stationary, HasHistory, HasPrevious

LEMMA DispatchManagerHistory ==
  ASSUME TypeOK, HistoryInv, DispatchManager
  PROVE  HistoryInv'
  <1> USE DEF suspend_success_action, stop_success_action, done_action,
              failed_action, resubmit_action
  <1>1. HasHistory
    BY DEF DispatchManager, DmPop, HistoryInv, Fresh
  <1>2. \A s : LET v == [vm EXCEPT !.state = s, !.lcm = "LCM_INIT"]
               IN  v.cur = vm.cur /\ v.prev = vm.prev /\ v.lcm = "LCM_INIT"
    BY DEF TypeOK, VmObject
  <1>3. LET v == Released([vm EXCEPT !.state = "DONE", !.lcm = "LCM_INIT"])
        IN  v.cur = vm.cur /\ v.prev = vm.prev /\ v.lcm = "LCM_INIT"
    BY DEF TypeOK, VmObject, Released
  <1>4. vm'.cur = vm.cur /\ vm'.prev = vm.prev /\ vm'.lcm \in {vm.lcm, "LCM_INIT"}
    <2>1. \/ vm' = vm
          \/ vm' = Released([vm EXCEPT !.state = "DONE", !.lcm = "LCM_INIT"])
          \/ \E s : vm' = [vm EXCEPT !.state = s, !.lcm = "LCM_INIT"]
      BY DEF DispatchManager, Settle, SettleOrKeepLock
    <2> QED BY <1>2, <1>3, <2>1
  <1> QED BY <1>1, <1>4, StationaryKeeps DEF DispatchManager, Stationary

LEMMA OperateKeeps ==
  ASSUME TypeOK, NEW a, NEW op, NEW at, NEW to, NEW v, NEW e \in Seq(StayEvent),
         v.cur = vm.cur, v.prev = vm.prev, v.lcm \in {vm.lcm, "RUNNING"},
         Operate(a, op, at, to, v, e)
  PROVE  Stationary
  BY DEF Operate, SendOp, GiveUpOp, Stationary

LEMMA VmmHandlerKeeps ==
  ASSUME TypeOK, VmmHandler
  PROVE  Stationary
  <1> USE StayLists, StayNames
  <1>1. ASSUME vmm_deploy_action \/ vmm_restore_action \/ vmm_shutdown_action
        PROVE  Stationary
    BY <1>1, OperateKeeps
       DEF vmm_deploy_action, vmm_restore_action, vmm_shutdown_action, AtHost
  <1>2. ASSUME vmm_cancel_action \/ vmm_off_action PROVE Stationary
    BY <1>2, OperateKeeps DEF vmm_cancel_action, vmm_off_action, AtHost
  <1>3. ASSUME vmm_reboot_action \/ poll_action PROVE Stationary
    BY <1>3, OperateKeeps DEF vmm_reboot_action, poll_action, AtHost
  <1>4. ASSUME vmm_backup_action \/ vmm_recover_action \/ vmm_backupdisk_action
        PROVE  Stationary
    <2> DEFINE u == [vm EXCEPT !.bk = Mark(@, "FAIL")]
               v == [vm EXCEPT !.rs = Mark(@, "FAIL")]
               w == [vm EXCEPT !.lcm = "RUNNING", !.dk = Mark(@, "FAIL")]
    <2>1. /\ u.cur = vm.cur /\ u.prev = vm.prev /\ u.lcm = vm.lcm
          /\ v.cur = vm.cur /\ v.prev = vm.prev /\ v.lcm = vm.lcm
          /\ w.cur = vm.cur /\ w.prev = vm.prev /\ w.lcm = "RUNNING"
      BY DEF TypeOK, VmObject
    <2>2. \/ AtHost("BACKUP", "OFF", u, <<"CANCEL_FAILURE">>)
          \/ AtHost("RECOVER", "OFF", v, <<"CANCEL_FAILURE">>)
          \/ AtHost("BACKUPDISK", "OFF", w, <<>>)
      BY <1>4 DEF vmm_backup_action, vmm_recover_action, vmm_backupdisk_action
    <2> HIDE DEF u, v, w
    <2> QED BY <2>1, <2>2, OperateKeeps DEF AtHost
  <1>5. ASSUME vmm_save_action \/ vmm_migrate_action \/ cancel_previous_action
        PROVE  Stationary
    BY <1>5, OperateKeeps
       DEF vmm_save_action, vmm_migrate_action, cancel_previous_action
  <1>6. ASSUME driver_cancel_action PROVE Stationary
    BY <1>6 DEF driver_cancel_action, Stationary
  <1> QED BY <1>1, <1>2, <1>3, <1>4, <1>5, <1>6 DEF VmmHandler

LEMMA VirtualMachineManagerHistory ==
  ASSUME TypeOK, HistoryInv, VirtualMachineManager
  PROVE  HistoryInv'
  <1>1. CASE VmmHandler
    <2>1. \E a : VmmPop(a)
      BY <1>1, Zenon
      DEF VmmHandler, AtHost, Operate, vmm_deploy_action, vmm_restore_action,
          vmm_shutdown_action, vmm_cancel_action, vmm_off_action,
          vmm_reboot_action, poll_action, vmm_backup_action, vmm_recover_action,
          vmm_backupdisk_action, vmm_save_action, vmm_migrate_action,
          cancel_previous_action, driver_cancel_action
    <2>2. HasHistory
      BY <2>1 DEF VmmPop, HistoryInv, Fresh
    <2> QED BY <1>1, <2>2, VmmHandlerKeeps, StationaryKeeps
  <1>2. CASE timer_action
    <2>1. Stationary
      BY <1>2 DEF timer_action, SendOp, Stationary
    <2> QED BY <1>2, <2>1, StationaryKeeps DEF timer_action
  <1> QED BY <1>1, <1>2 DEF VirtualMachineManager

\* No answer of a driver is a request for a migration.
LEMMA AnswersStay ==
  /\ \A op : SuccessEvent(op) \in Seq(StayEvent)
  /\ \A op : FailureEvent(op) \in Seq(StayEvent)
  /\ \A r : MonitorEvent(r) \in Seq(StayEvent)
  /\ \A ok \in BOOLEAN : TransferEvent(ok) \in Seq(StayEvent)
  <1> USE StayLists, StayNames
  <1>1. \A op : SuccessEvent(op) \in Seq(StayEvent)
    BY DEF SuccessEvent
  <1>2. \A op : FailureEvent(op) \in Seq(StayEvent)
    BY DEF FailureEvent
  <1>3. \A r : MonitorEvent(r) \in Seq(StayEvent)
    BY DEF MonitorEvent
  <1>4. \A ok \in BOOLEAN : TransferEvent(ok) \in Seq(StayEvent)
    BY DEF TransferEvent
  <1> QED BY <1>1, <1>2, <1>3, <1>4

LEMMA DriversHistory ==
  ASSUME TypeOK, HistoryInv, Hypervisor \/ VmmProtocol \/ TmProtocol
  PROVE  HistoryInv'
  <1>0. HasHistory
    BY DEF Hypervisor, VmmProtocol, TmProtocol, HistoryInv, Fresh
  <1>1. CASE Hypervisor
    BY <1>0, <1>1, StationaryKeeps DEF Hypervisor, Stationary, queues
  <1>2. CASE VmmProtocol
    <2> DEFINE Event(o) == CASE o.res = "success" -> SuccessEvent(o.op)
                             [] o.res = "failure" -> FailureEvent(o.op)
                             [] OTHER -> MonitorEvent(o.res)
    <2>1. \A o : Event(o) \in Seq(StayEvent)
      BY AnswersStay
    <2>2. PICK i \in 1 .. Len(vmmOps) :
            /\ lcmQ' = IF Deaf THEN lcmQ ELSE lcmQ \o Event(vmmOps[i])
            /\ vm' = IF vmmOps[i].res = "a" /\ vm.lcm = "UNKNOWN"
                     THEN [vm EXCEPT !.lcm = "RUNNING"] ELSE vm
      BY <1>2, Zenon DEF VmmProtocol
    <2> HIDE DEF Event
    <2>3. /\ vm'.cur = vm.cur /\ vm'.prev = vm.prev
          /\ vm'.lcm \in {vm.lcm, "RUNNING"}
      BY <2>2 DEF TypeOK, VmObject
    <2> QED BY <1>0, <2>1, <2>2, <2>3, StationaryKeeps DEF Stationary
  <1>3. CASE TmProtocol
    <2>1. PICK ok \in BOOLEAN :
            lcmQ' = IF Deaf THEN lcmQ ELSE lcmQ \o TransferEvent(ok)
      BY <1>3 DEF TmProtocol
    <2> QED BY <1>0, <1>3, <2>1, AnswersStay, StationaryKeeps
            DEF TmProtocol, Stationary
  <1> QED BY <1>1, <1>2, <1>3

-----------------------------------------------------------------------------
(* The Transfer Manager.                                                    *)

LEMMA TransferKeeps ==
  ASSUME NEW a, NEW ready, NEW v, NEW w, NEW e \in Seq(StayEvent),
         v.cur = vm.cur, v.prev = vm.prev, v.lcm = vm.lcm,
         w.cur = vm.cur, w.prev = vm.prev, w.lcm \in {vm.lcm, "PROLOG_RECOVER"},
         TransferWith(a, ready, v, w, e)
  PROVE  Stationary
  BY DEF TransferWith, Stationary

LEMMA TransferManagerKeeps ==
  ASSUME TypeOK, TransferManager
  PROVE  Stationary
  <1> USE StayLists, StayNames
  <1>1. vm \in VmObject
    BY DEF TypeOK
  <1>2. ASSUME NEW a, NEW e \in Seq(StayEvent), Transfer(a, e)
        PROVE  Stationary
    BY <1>2, TransferKeeps DEF Transfer
  <1>3. ASSUME \/ prolog_action \/ prolog_resume_action
               \/ epilog_action \/ epilog_stop_action
        PROVE  Stationary
    BY <1>2, <1>3
       DEF prolog_action, prolog_resume_action, epilog_action,
           epilog_stop_action
  <1>4. ASSUME \/ epilog_delete_action \/ prolog_on_action
               \/ delete_recover_fail_action \/ recover_decompress_fail_action
               \/ delete_backup_fail_action \/ epilog_deletebak_action
               \/ epilog_deletecps_action
        PROVE  Stationary
    BY <1>2, <1>4
       DEF epilog_delete_action, prolog_on_action, delete_recover_fail_action,
           recover_decompress_fail_action, delete_backup_fail_action,
           epilog_deletebak_action, epilog_deletecps_action
  <1>5. ASSUME prolog_migr_action \/ epilog_delete_previous_action
        PROVE  Stationary
    BY <1>5, TransferKeeps DEF prolog_migr_action, epilog_delete_previous_action
  <1>6. ASSUME NEW a, NEW r, NEW w, w.cur = vm.cur, w.prev = vm.prev,
               w.lcm = vm.lcm, TransferTo(a, r, w)
        PROVE  Stationary
    <2>1. CASE TransferWith(a, HasHistory, vm, w, <<"PROLOG_FAILURE">>)
      BY <1>6, <2>1, TransferKeeps
    <2>2. CASE UNCHANGED <<vm, lcmQ, tmOps>>
      BY <2>2 DEF Stationary
    <2> QED BY <1>6, <2>1, <2>2 DEF TransferTo
  <1>7. ASSUME prolog_backup_action \/ prolog_backupdisk_action
        PROVE  Stationary
    <2> DEFINE w == [vm EXCEPT !.bk = Mark(@, "FAIL")]
    <2>1. w.cur = vm.cur /\ w.prev = vm.prev /\ w.lcm = vm.lcm
      BY <1>1 DEF VmObject
    <2>2. \/ TransferTo("PROLOG_BACKUP", vm.bk, w)
          \/ TransferTo("PROLOG_BACKUPDISK", vm.dk, vm)
      BY <1>7 DEF prolog_backup_action, prolog_backupdisk_action
    <2> HIDE DEF w
    <2> QED BY <1>6, <2>1, <2>2
  <1>8. ASSUME prolog_recover_action \/ epilog_decompress_action
        PROVE  Stationary
    <2> DEFINE u == [vm EXCEPT !.state = IF @ = "FAILED" THEN "ACTIVE" ELSE @]
               v == [vm EXCEPT !.rs = Mark(@, "FAIL")]
               w == [vm EXCEPT !.lcm = "PROLOG_RECOVER", !.rs = Mark(@, "FAIL")]
               e == <<"PROLOG_FAILURE">>
    <2>1. /\ u.cur = vm.cur /\ u.prev = vm.prev /\ u.lcm = vm.lcm
          /\ v.cur = vm.cur /\ v.prev = vm.prev /\ v.lcm = vm.lcm
          /\ w.cur = vm.cur /\ w.prev = vm.prev /\ w.lcm = "PROLOG_RECOVER"
      BY <1>1 DEF VmObject
    <2>2. \/ TransferWith("PROLOG_RECOVER", HasHistory, u, v, e)
          \/ TransferWith("PROLOG_RECOVER_DECOMPRESS", HasHistory, vm, w, e)
      BY <1>8 DEF prolog_recover_action, epilog_decompress_action
    <2>3. e \in Seq(StayEvent)
      OBVIOUS
    <2> HIDE DEF u, v, w, e
    <2> QED BY <2>1, <2>2, <2>3, TransferKeeps
  <1>9. ASSUME tm_driver_cancel_action PROVE Stationary
    BY <1>9 DEF tm_driver_cancel_action, Stationary
  <1> QED BY <1>3, <1>4, <1>5, <1>7, <1>8, <1>9 DEF TransferManager

\* The scripts asked for a VM that was never deployed are not run: each of
\* them needs the record of a host.
LEMMA FreshTransfer ==
  ASSUME TypeOK, HistoryInv, ~HasHistory, TransferManager
  PROVE  HistoryInv'
  <1>0. vm \in VmObject /\ Fresh /\ ~HasPrevious /\ Stays
    BY DEF TypeOK, HistoryInv, Fresh, HasPrevious
  <1>1. Head(tmQ) \in FreshScript \/ tmQ = <<>>
    BY <1>0, HeadTailProperties DEF Fresh
  <1>2. UNCHANGED <<dmQ, vmmQ, rm, vmmOps>>
    BY DEF TransferManager
  <1>3. ASSUME NEW a, NEW v, NEW w, NEW e, TransferWith(a, HasHistory, v, w, e),
               w.cur = vm.cur, w.prev = vm.prev, w.lcm = vm.lcm,
               w.state = vm.state,
               e \in Seq(FreshEvent) /\ e \in Seq(StayEvent)
        PROVE  HistoryInv'
    <2>1. /\ vm' = w /\ lcmQ' = lcmQ \o e /\ tmOps' = tmOps
          /\ tmQ # <<>> /\ tmQ' = Tail(tmQ)
      BY <1>3 DEF TransferWith, TmPop
    <2>2. /\ lcmQ' \in Seq(FreshEvent) /\ lcmQ' \in Seq(StayEvent)
          /\ tmQ' \in Seq(FreshScript)
      BY <1>0, <1>3, <2>1, ConcatProperties, HeadTailProperties
      DEF Fresh, Stays
    <2> QED BY <1>0, <1>2, <1>3, <2>1, <2>2
            DEF HistoryInv, HasHistory, HasPrevious, Fresh, Stays
  <1>4. prolog_recover_action \/ delete_recover_fail_action
    BY <1>1
    DEF FreshScript, TransferManager, Transfer, TransferTo, TransferWith, TmPop,
        prolog_action, prolog_resume_action, prolog_backupdisk_action,
        epilog_action, epilog_stop_action, prolog_migr_action,
        prolog_backup_action, epilog_decompress_action, epilog_delete_action,
        prolog_on_action, recover_decompress_fail_action,
        delete_backup_fail_action, epilog_deletebak_action,
        epilog_deletecps_action, epilog_delete_previous_action,
        tm_driver_cancel_action
  <1>5. CASE prolog_recover_action
    <2> DEFINE v == [vm EXCEPT !.state = IF @ = "FAILED" THEN "ACTIVE" ELSE @]
               w == [vm EXCEPT !.rs = Mark(@, "FAIL")]
               e == <<"PROLOG_FAILURE">>
    <2>1. /\ w.cur = vm.cur /\ w.prev = vm.prev /\ w.lcm = vm.lcm
          /\ w.state = vm.state
      BY <1>0 DEF VmObject
    <2>2. e \in Seq(FreshEvent) /\ e \in Seq(StayEvent)
      BY StayLists, StayNames DEF FreshEvent
    <2>3. TransferWith("PROLOG_RECOVER", HasHistory, v, w, e)
      BY <1>5 DEF prolog_recover_action
    <2> HIDE DEF v, w, e
    <2> QED BY <1>3, <2>1, <2>2, <2>3
  <1>6. CASE delete_recover_fail_action
    <2>1. TransferWith("DELETE_RECOVER_FAIL", HasHistory, vm, vm, <<>>)
      BY <1>6 DEF delete_recover_fail_action, Transfer
    <2>2. <<>> \in Seq(FreshEvent)
      OBVIOUS
    <2> QED BY <1>3, <2>1, <2>2, StayLists
  <1> QED BY <1>4, <1>5, <1>6

LEMMA TransferManagerHistory ==
  ASSUME TypeOK, HistoryInv, TransferManager
  PROVE  HistoryInv'
  BY FreshTransfer, TransferManagerKeeps, StationaryKeeps

-----------------------------------------------------------------------------
(* The whole system.                                                        *)

LEMMA OutsideHistory ==
  ASSUME TypeOK, HistoryInv, DomainDies \/ Evict \/ Restart
  PROVE  HistoryInv'
  <1>1. /\ vm'.cur = vm.cur /\ vm'.prev = vm.prev
        /\ vm'.lcm = vm.lcm /\ vm'.state = vm.state
    BY DEF DomainDies, Evict, Restart, ReadAgain, TypeOK, VmObject
  <1>2. CASE Restart
    <2>1. /\ lcmQ' \in Seq(FreshEvent) /\ lcmQ' \in Seq(StayEvent)
          /\ tmQ' \in Seq(FreshScript)
      BY <1>2 DEF Restart
    <2> QED BY <1>1, <1>2, <2>1
            DEF Restart, HistoryInv, HasHistory, HasPrevious, Fresh, Stays
  <1>3. CASE DomainDies \/ Evict
    <2>1. UNCHANGED <<queues, rm, vmmOps, tmOps>>
      BY <1>3 DEF DomainDies, Evict, drivers
    <2> QED BY <1>1, <2>1
            DEF queues, HistoryInv, HasHistory, HasPrevious, Fresh, Stays
  <1> QED BY <1>2, <1>3

LEMMA HistoryStep == TypeOK /\ HistoryInv /\ [Next]_vars => HistoryInv'
  <1> SUFFICES ASSUME TypeOK, HistoryInv, [Next]_vars PROVE HistoryInv'
    OBVIOUS
  <1>1. CASE UNCHANGED vars
    BY <1>1 DEF vars, HistoryInv, HasHistory, HasPrevious, Fresh, Stays
  <1>2. CASE Next
    BY <1>2, RequestsHistory, LifeCycleManagerHistory, DispatchManagerHistory,
       VirtualMachineManagerHistory, TransferManagerHistory, DriversHistory,
       OutsideHistory
    DEF Next
  <1> QED BY <1>1, <1>2

\* HistoryInv holds in every state of the life cycle: a VM with no history
\* record was never deployed, and one with a single record does not migrate.
THEOREM HistoryCorrect == Spec => []HistoryInv
  BY TypeCorrect, InitHistory, HistoryStep, PTL DEF Spec

\* A VM in SAVE_MIGRATE, MIGRATE or PROLOG_MIGRATE has the records of both
\* hosts, which the handlers of the LCM read without asking: also when the
\* request for the migration waits in the queue while others are served, when
\* the answer of the driver is late, and after the daemon was started again.
THEOREM MigrationSource == Spec => []MigrationHasSource
  <1>1. HistoryInv => MigrationHasSource
    BY DEF HistoryInv, Fresh, Stays, Moving, MigrationHasSource
  <1> QED BY <1>1, HistoryCorrect, PTL

\* Whatever the LCM is asked, the VM has the record of a host by then, RECOVER
\* and PROLOG_FAILURE apart.
THEOREM HistoryFound == Spec => []HandlersHaveHistory
  <1>1. HistoryInv => HandlersHaveHistory
    BY DEF HistoryInv, Fresh, FreshEvent, HandlersHaveHistory
  <1> QED BY <1>1, HistoryCorrect, PTL

-----------------------------------------------------------------------------
(* 3. The requests of plain users.                                          *)

Movers == {"migrate", "live_migrate"}
Askers == {"suspend", "stop", "shutdown", "cancel"}
PlainCommands == {"deploy", "hold", "release", "resume", "reboot"}
                 \cup Movers \cup Askers

\* Users of one life either move the VM or ask for an end of its running;
\* monitoring finds the VM when it finds anything; and vm->lcmstate, which no
\* constructor sets, is none of the two states deploy_success looks for.
Plain(s) ==
  /\ s.commands \subseteq PlainCommands /\ s.reports \subseteq {"a"}
  /\ s.garbage \subseteq {"OTHER"}
  /\ s.commands \cap Movers = {} \/ s.commands \cap Askers = {}

PlainUsers == \A s \in DOMAIN Scenarios : Plain(Scenarios[s])

\* Some requests may wait in the queue of the LCM while it serves another one;
\* they do nothing unless the VM is RUNNING.  Polls and reboots come and go.
Asks    == {"SUSPEND", "STOP", "SHUTDOWN", "CANCEL"}
Waiting == {"REBOOT"} \cup IF Commands \cap Askers = {} THEN {} ELSE Asks
Passing == {"POLL", "REBOOT"}
PassingOps ==
  {o \in Operation : o.op \in Passing
                     /\ o.res \in {"none", "success", "failure", "a"}}

\* Queue q has nothing but members of N, or these and one e.
None(q, N) == \A i \in 1 .. Len(q) : q[i] \in N
One(q, N, e) ==
  \E i \in 1 .. Len(q) : q[i] = e /\ \A j \in 1 .. Len(q) : j # i => q[j] \in N

\* All the work there is for the VM is e, which is at w.
At(w, e) ==
  /\ IF w = "lcm" THEN One(lcmQ, Waiting, e) ELSE None(lcmQ, Waiting)
  /\ dmQ = IF w = "dm" THEN <<e>> ELSE <<>>
  /\ IF w = "vmm" THEN One(vmmQ, Passing, e) ELSE None(vmmQ, Passing)
  /\ tmQ = IF w = "tm" THEN <<e>> ELSE <<>>
  /\ IF w = "op" THEN One(vmmOps, PassingOps, e) ELSE None(vmmOps, PassingOps)
  /\ tmOps = IF w = "script" THEN <<e>> ELSE <<>>

\* The shares count the VM, of memory m, at a and at b: twice if these are the
\* same host, not at all where they are NoHost.
Times(n, k, a) == IF k = a THEN n ELSE 0
Load(m, a, b) ==
  [k \in Hosts |-> [vms |-> Times(1, k, a) + Times(1, k, b),
                    mem |-> Times(m, k, a) + Times(m, k, b)]]

Here   == vm.cur.hid
Source == vm.prev.hid

\* The domain is at h, unless the hypervisor lost it; or nowhere.
NeverDied == budget.deaths = Scenarios[budget.scenario].deaths
RunsAt(h) == domain = {h} \/ (domain = {} /\ ~NeverDied)
Off       == domain = {}

\* The VM waits for a request, or for the LCM to see one.
Resting(w) ==
  /\ w = "nowhere"
  /\ vm.state # "ACTIVE" /\ vm.lcm = "LCM_INIT"
  /\ charge = Load(vm.mem, NoHost, NoHost) /\ Off

Starting(w, e) ==
  /\ w = "lcm" /\ e \in {"DEPLOY", "RESTORE"}
  /\ Is("ACTIVE", "LCM_INIT")
  /\ e = "DEPLOY" => vm.cur.reason = "NONE"
  /\ charge = Load(vm.mem, NoHost, NoHost) /\ Off

Steady(w) ==
  /\ w = "nowhere"
  /\ Running /\ vm.cur.reason = "NONE"
  /\ charge = Load(vm.mem, Here, NoHost) /\ RunsAt(Here)

AskedToMove(w, e) ==
  /\ w = "lcm" /\ e \in {"MIGRATE", "LIVE_MIGRATE"}
  /\ Running /\ vm.cur.reason = "NONE"
  /\ HasPrevious /\ vm.prev.reason = "NONE" /\ Waiting = {"REBOOT"}
  /\ charge = Load(vm.mem, Source, NoHost) /\ RunsAt(Source)

\* The hypervisor works for the VM.  Two of the operations begin at the host
\* the VM leaves, while both hosts count it.
Leaving == vm.lcm \in {"SAVE_MIGRATE", "MIGRATE"}
Serves(l, op) ==
  \/ l = "BOOT" /\ op \in {"DEPLOY", "RESTORE"}
  \/ l \in {"SAVE_SUSPEND", "SAVE_STOP", "SAVE_MIGRATE"} /\ op = "SAVE"
  \/ l \in {"SHUTDOWN", "CANCEL", "MIGRATE"} /\ op = l
OpHost == IF Leaving THEN Source ELSE Here
Order(op, r) == [op |-> op, at |-> OpHost, to |-> Here, res |-> r]

Pending(w, e, op) ==
  /\ \/ w = "vmm" /\ e = op
     \/ w = "op" /\ e \in {Order(op, "none"), Order(op, "failure")}
     \/ w = "lcm" /\ <<e>> = FailureEvent(op)
  /\ IF op \in {"DEPLOY", "RESTORE"} THEN Off ELSE RunsAt(OpHost)

Performed(w, e, op) ==
  /\ \/ w = "op" /\ e = Order(op, "success")
     \/ w = "lcm" /\ <<e>> = SuccessEvent(op)
  /\ IF op \in {"DEPLOY", "RESTORE", "MIGRATE"} THEN RunsAt(Here) ELSE Off

Operating(w, e) ==
  /\ vm.state = "ACTIVE" /\ vm.cur.reason = "NONE"
  /\ charge = Load(vm.mem, Here, IF Leaving THEN Source ELSE NoHost)
  /\ \E op \in OpName :
        Serves(vm.lcm, op) /\ (Pending(w, e, op) \/ Performed(w, e, op))

\* The images of the VM are on their way.
Prologs == {"PROLOG", "PROLOG_RESUME", "PROLOG_MIGRATE"}
Epilogs == {"EPILOG", "EPILOG_STOP"}
Carries(l, s) ==
  \/ l \in {"PROLOG", "PROLOG_RESUME", "EPILOG", "EPILOG_STOP"} /\ s = l
  \/ l = "PROLOG_MIGRATE" /\ s = "PROLOG_MIGR"

Transferring(w, e) ==
  /\ vm.state = "ACTIVE" /\ vm.lcm \in Prologs \cup Epilogs
  /\ vm.lcm \in Prologs => vm.cur.reason = "NONE"
  /\ \/ w \in {"tm", "script"} /\ Carries(vm.lcm, e)
     \/ w = "lcm" /\ vm.lcm \in Prologs
                  /\ e \in {"PROLOG_SUCCESS", "PROLOG_FAILURE"}
     \/ w = "lcm" /\ vm.lcm \in Epilogs
                  /\ e \in {"EPILOG_SUCCESS", "EPILOG_FAILURE"}
  /\ charge = Load(vm.mem, Here, NoHost) /\ Off

\* The DM is about to hear how it ended.
Ends(l, e) ==
  \/ l = "SAVE_SUSPEND" /\ e = "SUSPEND_SUCCESS"
  \/ l = "EPILOG_STOP" /\ e = "STOP_SUCCESS"
  \/ l = "EPILOG" /\ e = "DONE"
  \/ l = "FAILURE" /\ e = "FAILED"

Ending(w, e) ==
  /\ w = "dm" /\ vm.state = "ACTIVE" /\ Ends(vm.lcm, e)
  /\ charge = Load(vm.mem, NoHost, NoHost) /\ Off

\* The daemon was started again and what the queues held is gone: no request
\* is accepted any more.
Lost(w) ==
  /\ w = "nowhere" /\ ~NeverRestarted
  /\ vm.state = "ACTIVE" /\ vm.lcm \notin {"UNKNOWN", "OFF"}
  /\ vm.lcm = "RUNNING" => HasPrevious /\ vm.prev.reason = "NONE"
                                       /\ Waiting = {"REBOOT"}
  /\ \E h \in Hosts : domain \subseteq {h}

Stage(w, e) ==
  \/ Resting(w) \/ Starting(w, e) \/ Steady(w) \/ AskedToMove(w, e)
  \/ Operating(w, e) \/ Transferring(w, e) \/ Ending(w, e) \/ Lost(w)

Healthy ==
  /\ daemon = "up" /\ vm.lcmstate = "OTHER" /\ None(rm, Waiting)
  /\ budget.deaths <= Scenarios[budget.scenario].deaths
  /\ budget.restarts <= Scenarios[budget.scenario].restarts

\* The inductive invariant: there is one piece of work for the VM, or none,
\* and the state of the VM, the shares and the domain are what it calls for.
PlainInv == Healthy /\ \E w, e : At(w, e) /\ Stage(w, e)
-----------------------------------------------------------------------------
(* Queues: what is left when an element comes or goes.                      *)

LEMMA HeadTail ==
  ASSUME NEW S, NEW q \in Seq(S), q # <<>>
  PROVE  /\ Tail(q) \in Seq(S) /\ Len(Tail(q)) = Len(q) - 1 /\ Len(q) \in Nat
         /\ Len(q) > 0
         /\ Head(q) = q[1]
         /\ \A i \in 1 .. Len(Tail(q)) : Tail(q)[i] = q[i + 1]
  BY HeadTailProperties

LEMMA Removed ==
  ASSUME NEW S, NEW q \in Seq(S), NEW i \in 1 .. Len(q)
  PROVE  /\ RemoveAt(q, i) \in Seq(S) /\ Len(RemoveAt(q, i)) = Len(q) - 1
         /\ \A j \in 1 .. Len(RemoveAt(q, i)) :
                RemoveAt(q, i)[j] = IF j < i THEN q[j] ELSE q[j + 1]
  <1> DEFINE a == SubSeq(q, 1, i - 1)
             b == SubSeq(q, i + 1, Len(q))
  <1>0. Len(q) \in Nat /\ i \in Nat /\ 1 <= i /\ i <= Len(q)
    OBVIOUS
  <1>1. a \in Seq(S) /\ Len(a) = i - 1 /\ \A j \in 1 .. Len(a) : a[j] = q[j]
    BY <1>0, SubSeqProperties
  <1>2. /\ b \in Seq(S) /\ Len(b) = Len(q) - i
        /\ \A j \in 1 .. Len(b) : b[j] = q[i + j]
    <2>1. CASE i = Len(q)
      BY <1>0, <2>1, SubSeqProperties
    <2>2. CASE i < Len(q)
      BY <1>0, <2>2, SubSeqProperties
    <2> QED BY <1>0, <2>1, <2>2
  <1>3. RemoveAt(q, i) = a \o b
    BY DEF RemoveAt
  <1> HIDE DEF a, b
  <1>4. /\ a \o b \in Seq(S) /\ Len(a \o b) = Len(a) + Len(b)
        /\ \A j \in 1 .. Len(a) + Len(b) :
              (a \o b)[j] = IF j <= Len(a) THEN a[j] ELSE b[j - Len(a)]
    BY <1>1, <1>2, ConcatProperties
  <1>5. ASSUME NEW j \in 1 .. Len(RemoveAt(q, i))
        PROVE  RemoveAt(q, i)[j] = IF j < i THEN q[j] ELSE q[j + 1]
    BY <1>0, <1>1, <1>2, <1>3, <1>4, <1>5
  <1>6. Len(a) + Len(b) = Len(q) - 1
    BY <1>0, <1>1, <1>2
  <1>7. RemoveAt(q, i) \in Seq(S) /\ Len(RemoveAt(q, i)) = Len(q) - 1
    BY <1>3, <1>4, <1>6
  <1> QED BY <1>5, <1>7

\* A queue that holds nothing else.
LEMMA NoneEmpty == \A N : None(<<>>, N)
  BY DEF None

LEMMA NoneTail ==
  ASSUME NEW S, NEW q \in Seq(S), NEW N, None(q, N), q # <<>>
  PROVE  Head(q) \in N /\ None(Tail(q), N)
  BY HeadTail DEF None

LEMMA NoneConcat ==
  ASSUME NEW S, NEW q \in Seq(S), NEW t \in Seq(S), NEW N, None(q, N), None(t, N)
  PROVE  None(q \o t, N)
  BY ConcatProperties DEF None

LEMMA NoneAppend ==
  ASSUME NEW S, NEW q \in Seq(S), NEW e \in S, NEW N, None(q, N), e \in N
  PROVE  None(Append(q, e), N)
  BY AppendProperties DEF None

LEMMA NoneRemove ==
  ASSUME NEW S, NEW q \in Seq(S), NEW i \in 1 .. Len(q), NEW N, None(q, N)
  PROVE  None(RemoveAt(q, i), N)
  BY Removed DEF None

LEMMA NoneSet ==
  ASSUME NEW S, NEW q \in Seq(S), NEW N, None(q, N), NEW i \in 1 .. Len(q),
         NEW t \in Seq(S), Len(t) = Len(q), t[i] \in N,
         \A j \in 1 .. Len(q) : j # i => t[j] = q[j]
  PROVE  None(t, N)
  BY DEF None

\* A queue with one element that counts.
LEMMA OneConcat ==
  ASSUME NEW S, NEW q \in Seq(S), NEW N, NEW e \in S, None(q, N)
  PROVE  One(q \o <<e>>, N, e) /\ One(Append(q, e), N, e)
  <1>1. <<e>> \in Seq(S) /\ Len(<<e>>) = 1 /\ <<e>>[1] = e
    OBVIOUS
  <1>2. /\ Len(q \o <<e>>) = Len(q) + 1 /\ Len(q) \in Nat
        /\ \A j \in 1 .. Len(q) + 1 :
              (q \o <<e>>)[j] = IF j <= Len(q) THEN q[j] ELSE <<e>>[j - Len(q)]
    BY <1>1, ConcatProperties
  <1>3. One(q \o <<e>>, N, e)
    <2>1. (q \o <<e>>)[Len(q) + 1] = e
      BY <1>1, <1>2
    <2> QED BY <1>2, <2>1 DEF One, None
  <1>4. One(Append(q, e), N, e)
    <2>1. /\ Len(Append(q, e)) = Len(q) + 1 /\ Append(q, e)[Len(q) + 1] = e
          /\ \A j \in 1 .. Len(q) : Append(q, e)[j] = q[j]
      BY AppendProperties
    <2> QED BY <1>2, <2>1 DEF One, None
  <1> QED BY <1>3, <1>4

LEMMA OneMore ==
  ASSUME NEW S, NEW q \in Seq(S), NEW N, NEW e, One(q, N, e), NEW t \in Seq(S),
         None(t, N)
  PROVE  One(q \o t, N, e)
  <1>1. PICK i \in 1 .. Len(q) :
           q[i] = e /\ \A j \in 1 .. Len(q) : j # i => q[j] \in N
    BY DEF One
  <1>2. /\ Len(q \o t) = Len(q) + Len(t) /\ Len(q) \in Nat /\ Len(t) \in Nat
        /\ \A j \in 1 .. Len(q) + Len(t) :
              (q \o t)[j] = IF j <= Len(q) THEN q[j] ELSE t[j - Len(q)]
    BY ConcatProperties
  <1>3. i \in 1 .. Len(q \o t) /\ (q \o t)[i] = e
    BY <1>1, <1>2
  <1>4. ASSUME NEW j \in 1 .. Len(q \o t), j # i
        PROVE  (q \o t)[j] \in N
    BY <1>1, <1>2, <1>4 DEF None
  <1> QED BY <1>3, <1>4 DEF One

LEMMA OneAppend ==
  ASSUME NEW S, NEW q \in Seq(S), NEW N, NEW e, One(q, N, e), NEW x \in S, x \in N
  PROVE  One(Append(q, x), N, e)
  <1>1. Append(q, x) = q \o <<x>> /\ <<x>> \in Seq(S) /\ None(<<x>>, N)
    BY AppendIsConcat DEF None
  <1> QED BY <1>1, OneMore

LEMMA OneTail ==
  ASSUME NEW S, NEW q \in Seq(S), NEW N, NEW e, e \notin N, One(q, N, e)
  PROVE  /\ q # <<>>
         /\ Head(q) \in N => One(Tail(q), N, e)
         /\ Head(q) \notin N => Head(q) = e /\ None(Tail(q), N)
  <1>1. PICK i \in 1 .. Len(q) :
           q[i] = e /\ \A j \in 1 .. Len(q) : j # i => q[j] \in N
    BY DEF One
  <1>2. q # <<>>
    OBVIOUS
  <1>3. CASE Head(q) \in N
    <2>1. i # 1
      BY <1>1, <1>2, <1>3, HeadTail
    <2>2. i - 1 \in 1 .. Len(Tail(q)) /\ Tail(q)[i - 1] = e
      BY <1>1, <1>2, <2>1, HeadTail
    <2>3. ASSUME NEW j \in 1 .. Len(Tail(q)), j # i - 1 PROVE Tail(q)[j] \in N
      <3>1. Tail(q)[j] = q[j + 1] /\ j + 1 \in 1 .. Len(q) /\ j + 1 # i
        BY <1>2, <2>3, HeadTail
      <3> QED BY <1>1, <3>1
    <2> QED BY <1>2, <1>3, <2>2, <2>3 DEF One
  <1>4. CASE Head(q) \notin N
    <2>1. i = 1
      BY <1>1, <1>2, <1>4, HeadTail
    <2>2. ASSUME NEW j \in 1 .. Len(Tail(q)) PROVE Tail(q)[j] \in N
      <3>1. Tail(q)[j] = q[j + 1] /\ j + 1 \in 1 .. Len(q) /\ j + 1 # i
        BY <1>2, <2>1, <2>2, HeadTail
      <3> QED BY <1>1, <3>1
    <2> QED BY <1>1, <1>2, <1>4, <2>1, <2>2, HeadTail DEF None
  <1> QED BY <1>2, <1>3, <1>4

LEMMA OneRemove ==
  ASSUME NEW S, NEW q \in Seq(S), NEW N, NEW e, e \notin N, One(q, N, e),
         NEW k \in 1 .. Len(q)
  PROVE  /\ q[k] \in N => One(RemoveAt(q, k), N, e)
         /\ q[k] \notin N => q[k] = e /\ None(RemoveAt(q, k), N)
  <1>1. PICK i \in 1 .. Len(q) :
           q[i] = e /\ \A j \in 1 .. Len(q) : j # i => q[j] \in N
    BY DEF One
  <1> DEFINE t == RemoveAt(q, k)
  <1>2. /\ Len(t) = Len(q) - 1 /\ Len(q) \in Nat
        /\ \A j \in 1 .. Len(t) : t[j] = IF j < k THEN q[j] ELSE q[j + 1]
    BY Removed
  <1> HIDE DEF t
  <1>3. CASE q[k] \in N
    <2> DEFINE n == IF i < k THEN i ELSE i - 1
    <2>1. i # k
      BY <1>1, <1>3
    <2>2. n \in 1 .. Len(t) /\ t[n] = e
      BY <1>1, <1>2, <2>1
    <2>3. ASSUME NEW j \in 1 .. Len(t), j # n PROVE t[j] \in N
      <3>1. CASE j < k
        BY <1>1, <1>2, <2>1, <2>3, <3>1
      <3>2. CASE ~(j < k)
        <4>1. t[j] = q[j + 1] /\ j + 1 \in 1 .. Len(q) /\ j + 1 # i
          BY <1>2, <2>1, <2>3, <3>2
        <4> QED BY <1>1, <4>1
      <3> QED BY <3>1, <3>2
    <2> QED BY <1>3, <2>2, <2>3 DEF One, t
  <1>4. CASE q[k] \notin N
    <2>1. i = k
      BY <1>1, <1>4
    <2>2. ASSUME NEW j \in 1 .. Len(t) PROVE t[j] \in N
      <3>1. CASE j < k
        BY <1>1, <1>2, <2>1, <2>2, <3>1
      <3>2. CASE ~(j < k)
        <4>1. t[j] = q[j + 1] /\ j + 1 \in 1 .. Len(q) /\ j + 1 # i
          BY <1>2, <2>1, <2>2, <3>2
        <4> QED BY <1>1, <4>1
      <3> QED BY <3>1, <3>2
    <2> QED BY <1>1, <1>4, <2>1, <2>2 DEF None, t
  <1> QED BY <1>3, <1>4

LEMMA OneSet ==
  ASSUME NEW S, NEW q \in Seq(S), NEW N, NEW e, e \notin N, One(q, N, e),
         NEW k \in 1 .. Len(q), NEW t \in Seq(S), Len(t) = Len(q),
         \A j \in 1 .. Len(q) : j # k => t[j] = q[j]
  PROVE  /\ q[k] \in N /\ t[k] \in N => One(t, N, e)
         /\ q[k] \notin N => q[k] = e /\ One(t, N, t[k])
  BY DEF One
-----------------------------------------------------------------------------
(* The shares.                                                              *)

LEMMA LoadType ==
  ASSUME NEW m \in Int, NEW a, NEW b
  PROVE  Load(m, a, b) \in ShareTable
  BY DEF Load, Times, ShareTable

LEMMA LoadFree ==
  ASSUME NEW m, NEW k, NEW a, NEW b, k # a, k # b, k \in Hosts
  PROVE  Load(m, a, b)[k] = [vms |-> 0, mem |-> 0]
  BY DEF Load, Times

\* A host takes the VM, and one of those that have it gives it back.
LEMMA LoadChanges ==
  ASSUME vm.mem \in Int, NEW h \in Hosts, NEW a \in Hosts \cup {NoHost}
  PROVE  /\ add_capacity(Load(vm.mem, a, NoHost), h) = Load(vm.mem, h, a)
         /\ del_capacity(Load(vm.mem, h, a), h) = Load(vm.mem, a, NoHost)
         /\ del_capacity(Load(vm.mem, a, h), h) = Load(vm.mem, a, NoHost)
  <1> DEFINE m == vm.mem
  <1>0. NoHost \notin Hosts
    BY LifeCycleAssumption
  <1>1. add_capacity(Load(m, a, NoHost), h) = Load(m, h, a)
    <2>1. ASSUME NEW k \in Hosts
          PROVE  add_capacity(Load(m, a, NoHost), h)[k] = Load(m, h, a)[k]
      <3>1. CASE k = h
        BY <1>0, <2>1, <3>1 DEF Load, Times, add_capacity
      <3>2. CASE k # h
        BY <1>0, <2>1, <3>2 DEF Load, Times, add_capacity
      <3> QED BY <3>1, <3>2
    <2> QED BY <2>1 DEF Load, add_capacity
  <1>2. del_capacity(Load(m, h, a), h) = Load(m, a, NoHost)
    <2>1. ASSUME NEW k \in Hosts
          PROVE  del_capacity(Load(m, h, a), h)[k] = Load(m, a, NoHost)[k]
      <3>1. CASE k = h
        BY <1>0, <2>1, <3>1 DEF Load, Times, del_capacity
      <3>2. CASE k # h
        BY <1>0, <2>1, <3>2 DEF Load, Times, del_capacity
      <3> QED BY <3>1, <3>2
    <2> QED BY <2>1 DEF Load, del_capacity
  <1>3. Load(m, h, a) = Load(m, a, h)
    <2>1. ASSUME NEW k \in Hosts PROVE Load(m, h, a)[k] = Load(m, a, h)[k]
      BY <2>1 DEF Load, Times
    <2> QED BY <2>1 DEF Load
  <1> QED BY <1>1, <1>2, <1>3

-----------------------------------------------------------------------------
(* Where the work is.                                                       *)

\* Work is told apart from the requests that wait and from polls.
LEMMA Tokens ==
  ASSUME TypeOK, NEW w, NEW e, Stage(w, e)
  PROVE  /\ w = "lcm" => e \notin Waiting /\ e \in LcmEvent
         /\ w = "vmm" => e \notin Passing
         /\ w = "op"  => e \notin PassingOps
         /\ w \in {"nowhere", "lcm", "dm", "vmm", "tm", "op", "script"}
  <1>0. \A x \in Waiting : x \in {"SUSPEND", "STOP", "SHUTDOWN", "CANCEL", "REBOOT"}
    BY DEF Waiting, Asks
  <1>1. ASSUME NEW op, Serves(vm.lcm, op), Pending(w, e, op) \/ Performed(w, e, op)
        PROVE  /\ w = "lcm" => e \notin Waiting /\ e \in LcmEvent
               /\ w = "vmm" => e \notin Passing
               /\ w = "op"  => e \notin PassingOps
               /\ w \in {"lcm", "vmm", "op"}
    <2>1. op \in {"DEPLOY", "RESTORE", "SAVE", "SHUTDOWN", "CANCEL", "MIGRATE"}
      BY <1>1 DEF Serves
    <2>2. CASE w = "lcm"
      <3>1. <<e>> = FailureEvent(op) \/ <<e>> = SuccessEvent(op)
        BY <1>1, <2>2 DEF Pending, Performed
      <3>2. e \in {"DEPLOY_FAILURE", "SHUTDOWN_FAILURE", "CANCEL_FAILURE",
                   "SAVE_FAILURE", "DEPLOY_SUCCESS", "SHUTDOWN_SUCCESS",
                   "CANCEL_SUCCESS", "SAVE_SUCCESS"}
        BY <2>1, <3>1 DEF FailureEvent, SuccessEvent
      <3> QED BY <1>0, <2>2, <3>2 DEF LcmEvent
    <2>3. CASE w = "vmm"
      BY <1>1, <2>1, <2>3 DEF Pending, Performed, Passing
    <2>4. CASE w = "op"
      BY <1>1, <2>1, <2>4 DEF Pending, Performed, Order, Passing, PassingOps
    <2> QED BY <1>1, <2>2, <2>3, <2>4 DEF Pending, Performed
  <1>2. CASE Operating(w, e)
    BY <1>1, <1>2 DEF Operating
  <1>3. CASE ~Operating(w, e)
    BY <1>0, <1>3 DEF Stage, Resting, Starting, Steady, AskedToMove,
                      Transferring, Ending, Lost, LcmEvent
  <1> QED BY <1>2, <1>3

LEMMA SameWaiting ==
  ASSUME budget'.scenario = budget.scenario
  PROVE  Waiting' = Waiting
  BY DEF Waiting, Commands

\* Nothing is anywhere, once the LCM has taken the work x from its queue q.
Taken(q) ==
  /\ None(q, Waiting) /\ dmQ = <<>> /\ None(vmmQ, Passing) /\ tmQ = <<>>
  /\ None(vmmOps, PassingOps) /\ tmOps = <<>>

Send(d, w, t) == dmQ' = dmQ \o d /\ vmmQ' = vmmQ \o w /\ tmQ' = tmQ \o t

LEMMA LcmTakes ==
  ASSUME TypeOK, PlainInv, NEW x, x \notin Waiting, LcmPop(x)
  PROVE  Stage("lcm", x) /\ Taken(lcmQ')
  <1>1. PICK w, e : At(w, e) /\ Stage(w, e)
    BY DEF PlainInv
  <1>2. lcmQ \in Seq(LcmEvent) /\ lcmQ # <<>> /\ Head(lcmQ) = x /\ lcmQ' = Tail(lcmQ)
    BY DEF TypeOK, LcmPop
  <1>3. w = "lcm"
    BY <1>1, <1>2, NoneTail DEF At
  <1>4. One(lcmQ, Waiting, e) /\ e \notin Waiting
    BY <1>1, <1>3, Tokens DEF At
  <1>5. x = e /\ None(lcmQ', Waiting)
    BY <1>2, <1>4, OneTail
  <1> QED BY <1>1, <1>3, <1>5 DEF At, Taken

LEMMA LcmSends ==
  ASSUME TypeOK, Taken(lcmQ'), UNCHANGED <<rm, drivers, budget>>
  PROVE  /\ Send(<<>>, <<>>, <<>>) => \A e : At("nowhere", e)'
         /\ Send(<<>>, <<"POLL">>, <<>>) => \A e : At("nowhere", e)'
         /\ \A a \in DmEvent : Send(<<a>>, <<>>, <<>>) => At("dm", a)'
         /\ \A a \in VmmEvent : Send(<<>>, <<a>>, <<>>) => At("vmm", a)'
         /\ \A a \in TmEvent : Send(<<>>, <<>>, <<a>>) => At("tm", a)'
  <1>1. Waiting' = Waiting
    BY SameWaiting
  <1>2. vmmQ \in Seq(VmmEvent) /\ vmmQ \o <<>> = vmmQ
    BY ConcatEmptySeq DEF TypeOK
  <1>3. None(vmmQ \o <<"POLL">>, Passing)
    <2>1. <<"POLL">> \in Seq(VmmEvent) /\ None(<<"POLL">>, Passing)
      BY DEF VmmEvent, None, Passing
    <2> QED BY <1>2, <2>1, NoneConcat DEF Taken
  <1>4. \A a \in VmmEvent : One(vmmQ \o <<a>>, Passing, a)
    BY <1>2, OneConcat DEF Taken
  <1>5. <<>> \o <<>> = <<>> /\ \A a : <<>> \o <<a>> = <<a>>
    OBVIOUS
  <1> QED BY <1>1, <1>2, <1>3, <1>4, <1>5 DEF Send, Taken, At, drivers
-----------------------------------------------------------------------------
(* The Life-cycle Manager.                                                  *)

\* What the LCM finds when it takes the work x.
OperationOver ==
  /\ vm.state = "ACTIVE" /\ vm.cur.reason = "NONE"
  /\ charge = Load(vm.mem, Here, IF Leaving THEN Source ELSE NoHost)

Saves == {"SAVE_SUSPEND", "SAVE_STOP", "SAVE_MIGRATE"}

LcmFinds(x) ==
  \/ Starting("lcm", x)
  \/ AskedToMove("lcm", x)
  \/ Transferring("lcm", x)
  \/ OperationOver /\
        \/ x = "SAVE_SUCCESS" /\ vm.lcm \in Saves /\ Off
        \/ x = "SAVE_FAILURE" /\ vm.lcm \in Saves /\ RunsAt(OpHost)
        \/ x = "DEPLOY_SUCCESS" /\ vm.lcm \in {"BOOT", "MIGRATE"} /\ RunsAt(Here)
        \/ x = "DEPLOY_FAILURE" /\ vm.lcm = "BOOT" /\ Off
        \/ x = "DEPLOY_FAILURE" /\ vm.lcm = "MIGRATE" /\ RunsAt(Source)
        \/ x = "SHUTDOWN_SUCCESS" /\ vm.lcm = "SHUTDOWN" /\ Off
        \/ x = "SHUTDOWN_FAILURE" /\ vm.lcm = "SHUTDOWN" /\ RunsAt(Here)
        \/ x = "CANCEL_SUCCESS" /\ vm.lcm = "CANCEL" /\ Off
        \/ x = "CANCEL_FAILURE" /\ vm.lcm = "CANCEL" /\ RunsAt(Here)

LEMMA LcmWork ==
  ASSUME NEW x, Stage("lcm", x)
  PROVE  LcmFinds(x)
  <1>1. CASE Operating("lcm", x)
    <2>1. PICK op \in OpName :
             /\ Serves(vm.lcm, op)
             /\ Pending("lcm", x, op) \/ Performed("lcm", x, op)
      BY <1>1 DEF Operating
    <2>2. OperationOver
      BY <1>1 DEF Operating, OperationOver
    <2>3. CASE Pending("lcm", x, op)
      <3>1. <<x>> = FailureEvent(op)
        BY <2>3 DEF Pending
      <3>2. CASE op = "SAVE"
        BY <2>1, <2>2, <2>3, <3>1, <3>2
        DEF Serves, Pending, LcmFinds, FailureEvent, Saves
      <3>3. CASE op \in {"DEPLOY", "RESTORE"}
        BY <2>1, <2>2, <2>3, <3>1, <3>3
        DEF Serves, Pending, LcmFinds, FailureEvent
      <3>4. CASE op \in {"MIGRATE", "SHUTDOWN", "CANCEL"}
        BY <2>1, <2>2, <2>3, <3>1, <3>4
        DEF Serves, Pending, LcmFinds, FailureEvent, OpHost, Leaving
      <3> QED BY <2>1, <3>2, <3>3, <3>4 DEF Serves
    <2>4. CASE Performed("lcm", x, op)
      <3>1. <<x>> = SuccessEvent(op)
        BY <2>4 DEF Performed
      <3>2. CASE op = "SAVE"
        BY <2>1, <2>2, <2>4, <3>1, <3>2
        DEF Serves, Performed, LcmFinds, SuccessEvent, Saves
      <3>3. CASE op \in {"DEPLOY", "RESTORE", "MIGRATE"}
        BY <2>1, <2>2, <2>4, <3>1, <3>3
        DEF Serves, Performed, LcmFinds, SuccessEvent
      <3>4. CASE op \in {"SHUTDOWN", "CANCEL"}
        BY <2>1, <2>2, <2>4, <3>1, <3>4
        DEF Serves, Performed, LcmFinds, SuccessEvent
      <3> QED BY <2>1, <3>2, <3>3, <3>4 DEF Serves
    <2> QED BY <2>1, <2>3, <2>4
  <1>2. CASE ~Operating("lcm", x)
    BY <1>2 DEF Stage, Resting, Steady, Ending, Lost, LcmFinds
  <1> QED BY <1>1, <1>2

\* The host of a VM that is ACTIVE, and the one it leaves.
LEMMA ActiveHost ==
  ASSUME TypeOK, HistoryInv, vm.state = "ACTIVE"
  PROVE  /\ Here \in Hosts
         /\ Source \in Hosts \cup {NoHost}
         /\ HasPrevious => Source \in Hosts
         /\ Leaving \/ vm.lcm = "PROLOG_MIGRATE" => Source \in Hosts
  <1>1. HasHistory
    BY DEF HistoryInv, Fresh
  <1>2. Leaving \/ vm.lcm = "PROLOG_MIGRATE" => HasPrevious
    BY DEF HistoryInv, Stays, Moving, Leaving
  <1>3. Here \in Hosts \cup {NoHost} /\ Source \in Hosts \cup {NoHost}
    BY RecordHost DEF TypeOK, Here, Source
  <1> QED BY <1>1, <1>2, <1>3 DEF HasHistory, HasPrevious, Here, Source

\* A handler that leaves the VM v and the shares c and sends d, w and t.
LEMMA OutKeeps ==
  ASSUME TypeOK, PlainInv, NEW v, NEW c, NEW d, NEW w, NEW t,
         Out(v, c, d, w, t), v.lcmstate = "OTHER",
         UNCHANGED <<rm, drivers, budget>>
  PROVE  /\ Healthy' /\ Send(d, w, t) /\ vm' = v /\ charge' = c
         /\ Waiting' = Waiting /\ domain' = domain /\ budget' = budget
         /\ NeverDied' = NeverDied
         /\ \A h : RunsAt(h)' = RunsAt(h)
  BY SameWaiting
  DEF PlainInv, Healthy, Out, Send, drivers, NeverDied, RunsAt

LEMMA Arrives ==
  ASSUME Healthy', NEW w, NEW e, At(w, e)', Stage(w, e)'
  PROVE  PlainInv'
  BY DEF PlainInv

\* The LCM takes the only work there is, or a request while there is none.
LcmFree ==
  /\ TypeOK /\ HistoryInv /\ PlainInv
  /\ Taken(lcmQ') /\ UNCHANGED <<rm, drivers, budget>>

\* A step of the LCM for the work x.
LcmServes(x) ==
  /\ TypeOK /\ HistoryInv /\ PlainInv
  /\ x \notin Waiting /\ LcmPop(x) /\ UNCHANGED <<rm, drivers, budget>>

LEMMA LcmServing ==
  ASSUME NEW x, LcmServes(x)
  PROVE  /\ LcmFinds(x) /\ LcmFree /\ vm \in VmObject
         /\ vm.lcmstate = "OTHER" /\ vm.mem \in Int
  BY LcmTakes, LcmWork
  DEF LcmServes, LcmFree, PlainInv, Healthy, TypeOK, VmObject

\* What a handler may leave: a VM that runs, an operation, a transfer or an end.
LEMMA ToSteady ==
  ASSUME LcmFree, NEW v, NEW c, NEW w \in {<<>>, <<"POLL">>},
         Out(v, c, <<>>, w, <<>>),
         v.state = "ACTIVE", v.lcm = "RUNNING", v.cur.reason = "NONE",
         v.lcmstate = "OTHER", c = Load(v.mem, v.cur.hid, NoHost),
         RunsAt(v.cur.hid)
  PROVE  PlainInv'
  <1>1. /\ Healthy' /\ Send(<<>>, w, <<>>) /\ vm' = v /\ charge' = c
        /\ RunsAt(v.cur.hid)'
    BY OutKeeps DEF LcmFree, RunsAt
  <1>2. At("nowhere", 0)'
    BY <1>1, LcmSends DEF LcmFree
  <1>3. Steady("nowhere")'
    BY <1>1 DEF Steady, Running, Is, Here, RunsAt
  <1> QED BY <1>1, <1>2, <1>3, Arrives DEF Stage

LEMMA ToOperation ==
  ASSUME LcmFree, NEW v, NEW c, NEW op \in OpName,
         Out(v, c, <<>>, <<op>>, <<>>),
         v.state = "ACTIVE", v.cur.reason = "NONE", v.lcmstate = "OTHER",
         Serves(v.lcm, op), NEW from, NEW other,
         IF v.lcm \in {"SAVE_MIGRATE", "MIGRATE"}
         THEN from = v.prev.hid /\ other = v.prev.hid
         ELSE from = v.cur.hid /\ other = NoHost,
         c = Load(v.mem, v.cur.hid, other),
         IF op \in {"DEPLOY", "RESTORE"} THEN Off ELSE RunsAt(from)
  PROVE  PlainInv'
  <1>1. /\ Healthy' /\ Send(<<>>, <<op>>, <<>>) /\ vm' = v /\ charge' = c
        /\ domain' = domain /\ NeverDied' = NeverDied
    BY OutKeeps DEF LcmFree
  <1>2. At("vmm", op)'
    <2>1. op \in VmmEvent
      BY DEF OpName, VmmEvent
    <2> QED BY <1>1, <2>1, LcmSends DEF LcmFree
  <1>3. OpHost' = from /\ Leaving' = (v.lcm \in {"SAVE_MIGRATE", "MIGRATE"})
    BY <1>1 DEF OpHost, Leaving, Here, Source
  <1>4. Pending("vmm", op, op)'
    BY <1>1, <1>3 DEF Pending, Off, RunsAt
  <1>5. Operating("vmm", op)'
    BY <1>1, <1>3, <1>4 DEF Operating, Here, Source
  <1> QED BY <1>1, <1>2, <1>5, Arrives DEF Stage

LEMMA ToTransfer ==
  ASSUME LcmFree, NEW v, NEW c, NEW s \in Script, Out(v, c, <<>>, <<>>, <<s>>),
         v.state = "ACTIVE", v.lcm \in Prologs \cup Epilogs,
         v.lcm \in Prologs => v.cur.reason = "NONE", Carries(v.lcm, s),
         v.lcmstate = "OTHER", c = Load(v.mem, v.cur.hid, NoHost), Off
  PROVE  PlainInv'
  <1>1. /\ Healthy' /\ Send(<<>>, <<>>, <<s>>) /\ vm' = v /\ charge' = c
        /\ domain' = domain
    BY OutKeeps DEF LcmFree
  <1>2. At("tm", s)'
    BY <1>1, LcmSends DEF LcmFree, TmEvent
  <1>3. Transferring("tm", s)'
    BY <1>1 DEF Transferring, Here, Off
  <1> QED BY <1>1, <1>2, <1>3, Arrives DEF Stage

LEMMA ToEnd ==
  ASSUME LcmFree, NEW v, NEW c, NEW e \in DmEvent, Out(v, c, <<e>>, <<>>, <<>>),
         v.state = "ACTIVE", Ends(v.lcm, e), v.lcmstate = "OTHER",
         c = Load(v.mem, NoHost, NoHost), Off
  PROVE  PlainInv'
  <1>1. /\ Healthy' /\ Send(<<e>>, <<>>, <<>>) /\ vm' = v /\ charge' = c
        /\ domain' = domain
    BY OutKeeps DEF LcmFree
  <1>2. At("dm", e)'
    BY <1>1, LcmSends DEF LcmFree
  <1>3. Ending("dm", e)'
    BY <1>1 DEF Ending, Off
  <1> QED BY <1>1, <1>2, <1>3, Arrives DEF Stage

\* The requests that are work.
LEMMA DeployPlain ==
  ASSUME LcmServes("DEPLOY"), deploy_action
  PROVE  PlainInv'
  <1>1. /\ Starting("lcm", "DEPLOY") /\ LcmFree /\ vm \in VmObject
        /\ vm.lcmstate = "OTHER" /\ vm.mem \in Int
    BY LcmServing DEF LcmFinds, AskedToMove, Transferring
  <1>2. vm.state = "ACTIVE" /\ vm.cur.reason = "NONE" /\ Off /\ Here \in Hosts
    BY <1>1, ActiveHost DEF Starting, Is, LcmServes
  <1>3. PICK to \in {"PROLOG", "PROLOG_RESUME"} :
           Out([vm EXCEPT !.lcm = to], add_capacity(charge, vm.cur.hid),
               <<>>, <<>>, <<to>>)
    BY <1>2 DEF deploy_action
  <1> DEFINE v == [vm EXCEPT !.lcm = to]
  <1>4. /\ v.lcm = to /\ v.state = "ACTIVE" /\ v.cur = vm.cur
        /\ v.mem = vm.mem /\ v.lcmstate = "OTHER"
    BY <1>1, <1>2 DEF VmObject
  <1>5. add_capacity(charge, vm.cur.hid) = Load(vm.mem, Here, NoHost)
    BY <1>1, <1>2, LoadChanges DEF Starting, Here
  <1>6. to \in Script /\ to \in Prologs /\ Carries(to, to)
    BY DEF Script, Prologs, Carries
  <1> HIDE DEF v
  <1> QED BY <1>1, <1>2, <1>3, <1>4, <1>5, <1>6, ToTransfer DEF v, Here

LEMMA RestorePlain ==
  ASSUME LcmServes("RESTORE"), restore_action
  PROVE  PlainInv'
  <1>1. /\ Starting("lcm", "RESTORE") /\ LcmFree /\ vm \in VmObject
        /\ vm.lcmstate = "OTHER" /\ vm.mem \in Int
    BY LcmServing DEF LcmFinds, AskedToMove, Transferring
  <1>2. vm.state = "ACTIVE" /\ Off /\ Here \in Hosts
    BY <1>1, ActiveHost DEF Starting, Is, LcmServes
  <1> DEFINE v == [cp_history(vm) EXCEPT !.lcm = "BOOT"]
  <1>3. Out(v, add_capacity(charge, vm.cur.hid), <<>>, <<"RESTORE">>, <<>>)
    BY <1>2 DEF restore_action
  <1>4. /\ v.lcm = "BOOT" /\ v.state = "ACTIVE" /\ v.cur.hid = vm.cur.hid
        /\ v.cur.reason = "NONE" /\ v.mem = vm.mem /\ v.lcmstate = "OTHER"
    BY <1>1, <1>2 DEF VmObject, cp_history, add_history
  <1> HIDE DEF v
  <1>5. add_capacity(charge, vm.cur.hid) = Load(vm.mem, Here, NoHost)
    BY <1>1, <1>2, LoadChanges DEF Starting, Here
  <1>6. Serves("BOOT", "RESTORE") /\ "RESTORE" \in OpName
    BY DEF Serves, OpName
  <1> QED BY <1>1, <1>2, <1>3, <1>4, <1>5, <1>6, ToOperation DEF Here

LEMMA MovePlain ==
  ASSUME NEW x \in {"MIGRATE", "LIVE_MIGRATE"}, LcmServes(x),
         NEW to, NEW op, <<to, op>> \in {<<"SAVE_MIGRATE", "SAVE">>,
                                         <<"MIGRATE", "MIGRATE">>},
         MoveFromRunning(x, to, op)
  PROVE  PlainInv'
  <1>1. /\ AskedToMove("lcm", x) /\ LcmFree /\ vm \in VmObject
        /\ vm.lcmstate = "OTHER" /\ vm.mem \in Int
    BY LcmServing DEF LcmFinds, Starting, Transferring
  <1>2. /\ Running /\ vm.state = "ACTIVE" /\ vm.cur.reason = "NONE"
        /\ Here \in Hosts /\ Source \in Hosts
        /\ RunsAt(Source) /\ charge = Load(vm.mem, Source, NoHost)
    BY <1>1, ActiveHost DEF AskedToMove, Running, Is, LcmServes
  <1> DEFINE v == [vm EXCEPT !.lcm = to]
  <1>3. Out(v, add_capacity(charge, vm.cur.hid), <<>>, <<op>>, <<>>)
    BY <1>2 DEF MoveFromRunning
  <1>4. /\ v.lcm = to /\ v.state = "ACTIVE" /\ v.cur = vm.cur
        /\ v.prev = vm.prev /\ v.mem = vm.mem /\ v.lcmstate = "OTHER"
    BY <1>1, <1>2 DEF VmObject
  <1> HIDE DEF v
  <1>5. add_capacity(charge, vm.cur.hid) = Load(vm.mem, Here, Source)
    BY <1>1, <1>2, LoadChanges DEF Here
  <1>6. /\ Serves(to, op) /\ op \in OpName /\ op \notin {"DEPLOY", "RESTORE"}
        /\ to \in {"SAVE_MIGRATE", "MIGRATE"}
    BY DEF Serves, OpName
  <1> QED BY <1>1, <1>2, <1>3, <1>4, <1>5, <1>6, ToOperation DEF Here, Source

\* The answers about an operation.
LEMMA SaveSuccessPlain ==
  ASSUME LcmServes("SAVE_SUCCESS"), save_success_action
  PROVE  PlainInv'
  <1>1. /\ OperationOver /\ vm.lcm \in Saves /\ Off /\ LcmFree /\ vm \in VmObject
        /\ vm.lcmstate = "OTHER" /\ vm.mem \in Int
    BY LcmServing DEF LcmFinds, Starting, AskedToMove, Transferring
  <1>2. /\ vm.state = "ACTIVE" /\ Here \in Hosts /\ vm.cur.reason = "NONE"
        /\ Leaving => Source \in Hosts
    BY <1>1, ActiveHost DEF OperationOver, LcmServes
  <1>3. CASE vm.lcm = "SAVE_MIGRATE"
    <2> DEFINE v == [vm EXCEPT !.lcm = "PROLOG_MIGRATE", !.prev.reason = "USER"]
    <2>1. /\ v.lcm = "PROLOG_MIGRATE" /\ v.state = "ACTIVE" /\ v.cur = vm.cur
          /\ v.mem = vm.mem /\ v.lcmstate = "OTHER"
      BY <1>1, <1>2 DEF VmObject
    <2>2. Out(v, del_capacity(charge, vm.prev.hid), <<>>, <<>>, <<"PROLOG_MIGR">>)
      BY <1>3 DEF save_success_action
    <2> HIDE DEF v
    <2>3. del_capacity(charge, vm.prev.hid) = Load(vm.mem, Here, NoHost)
      BY <1>1, <1>2, <1>3, LoadChanges DEF OperationOver, Leaving, Source
    <2>4. /\ "PROLOG_MIGR" \in Script /\ "PROLOG_MIGRATE" \in Prologs
          /\ Carries("PROLOG_MIGRATE", "PROLOG_MIGR")
      BY DEF Script, Prologs, Carries
    <2> QED BY <1>1, <1>2, <2>1, <2>2, <2>3, <2>4, ToTransfer DEF Here
  <1>4. CASE vm.lcm = "SAVE_SUSPEND"
    <2> DEFINE v == [vm EXCEPT !.cur.reason = "STOP_RESUME"]
    <2>1. /\ v.lcm = "SAVE_SUSPEND" /\ v.state = "ACTIVE"
          /\ v.mem = vm.mem /\ v.lcmstate = "OTHER"
      BY <1>1, <1>2, <1>4 DEF VmObject
    <2>2. Out(v, del_capacity(charge, vm.cur.hid), <<"SUSPEND_SUCCESS">>, <<>>, <<>>)
      BY <1>4 DEF save_success_action
    <2> HIDE DEF v
    <2>3. del_capacity(charge, vm.cur.hid) = Load(vm.mem, NoHost, NoHost)
      BY <1>1, <1>2, <1>4, LoadChanges DEF OperationOver, Leaving, Here
    <2>4. Ends("SAVE_SUSPEND", "SUSPEND_SUCCESS") /\ "SUSPEND_SUCCESS" \in DmEvent
      BY DEF Ends, DmEvent
    <2> QED BY <1>1, <2>1, <2>2, <2>3, <2>4, ToEnd
  <1>5. CASE vm.lcm = "SAVE_STOP"
    <2> DEFINE v == [vm EXCEPT !.lcm = "EPILOG_STOP", !.cur.reason = "STOP_RESUME"]
    <2>1. /\ v.lcm = "EPILOG_STOP" /\ v.state = "ACTIVE"
          /\ v.mem = vm.mem /\ v.lcmstate = "OTHER" /\ v.cur.hid = vm.cur.hid
      BY <1>1, <1>2, <1>5 DEF VmObject, History
    <2>2. Out(v, charge, <<>>, <<>>, <<"EPILOG_STOP">>)
      BY <1>5 DEF save_success_action
    <2> HIDE DEF v
    <2>3. charge = Load(vm.mem, Here, NoHost)
      BY <1>1, <1>5 DEF OperationOver, Leaving
    <2>4. /\ "EPILOG_STOP" \in Script /\ "EPILOG_STOP" \in Epilogs
          /\ "EPILOG_STOP" \notin Prologs /\ Carries("EPILOG_STOP", "EPILOG_STOP")
      BY DEF Script, Prologs, Epilogs, Carries
    <2> QED BY <1>1, <2>1, <2>2, <2>3, <2>4, ToTransfer DEF Here
  <1> QED BY <1>1, <1>3, <1>4, <1>5 DEF Saves

LEMMA BackPlain ==
  ASSUME LcmFree, OperationOver, Leaving, RunsAt(Source), BackToPrevious,
         vm.lcmstate = "OTHER"
  PROVE  PlainInv'
  <1>1. vm \in VmObject /\ vm.mem \in Int
    BY DEF LcmFree, TypeOK, VmObject
  <1>2. Here \in Hosts /\ Source \in Hosts /\ vm.state = "ACTIVE"
    BY ActiveHost DEF LcmFree, OperationOver
  <1> DEFINE u == [vm EXCEPT !.cur.reason = "ERROR", !.prev.reason = "USER"]
             v == [cp_previous_history(u) EXCEPT !.lcm = "RUNNING"]
  <1>3. /\ u.cur.hid = vm.cur.hid /\ u.prev.hid = vm.prev.hid
        /\ u.state = "ACTIVE" /\ u.mem = vm.mem /\ u.lcmstate = "OTHER"
        /\ u \in VmObject
    <2>1. /\ [vm.cur EXCEPT !.reason = "ERROR"] \in History
          /\ [vm.prev EXCEPT !.reason = "USER"] \in History
      BY <1>1, ReasonType DEF VmObject, Reason
    <2>2. u = [vm EXCEPT !.cur = [vm.cur EXCEPT !.reason = "ERROR"],
                         !.prev = [vm.prev EXCEPT !.reason = "USER"]]
      BY <1>1 DEF VmObject, History
    <2> QED BY <1>1, <1>2, <2>1, <2>2 DEF VmObject, History
  <1> HIDE DEF u
  <1>4. /\ v.lcm = "RUNNING" /\ v.state = "ACTIVE" /\ v.cur.hid = vm.prev.hid
        /\ v.cur.reason = "NONE" /\ v.mem = vm.mem /\ v.lcmstate = "OTHER"
    BY <1>3 DEF VmObject, cp_previous_history, add_history
  <1>5. Out(v, del_capacity(charge, vm.cur.hid), <<>>, <<"POLL">>, <<>>)
    BY DEF BackToPrevious, u
  <1> HIDE DEF v
  <1>6. del_capacity(charge, vm.cur.hid) = Load(vm.mem, Source, NoHost)
    BY <1>1, <1>2, LoadChanges DEF OperationOver, Here
  <1> QED BY <1>4, <1>5, <1>6, ToSteady DEF Source

LEMMA FailurePlain ==
  ASSUME LcmFree, vm.state = "ACTIVE", charge = Load(vm.mem, Here, NoHost), Off,
         failure_action, vm.lcmstate = "OTHER"
  PROVE  PlainInv'
  <1>1. vm \in VmObject /\ vm.mem \in Int
    BY DEF LcmFree, TypeOK, VmObject
  <1>2. Here \in Hosts /\ HasHistory
    BY ActiveHost, LifeCycleAssumption DEF LcmFree, HasHistory, Here
  <1> DEFINE v == [vm EXCEPT !.lcm = "FAILURE", !.cur.reason = "ERROR"]
  <1>3. /\ v.lcm = "FAILURE" /\ v.state = "ACTIVE"
        /\ v.mem = vm.mem /\ v.lcmstate = "OTHER"
    BY <1>1 DEF VmObject
  <1>4. Out(v, del_capacity(charge, vm.cur.hid), <<"FAILED">>, <<>>, <<>>)
    BY <1>2 DEF failure_action
  <1> HIDE DEF v
  <1>5. del_capacity(charge, vm.cur.hid) = Load(vm.mem, NoHost, NoHost)
    BY <1>1, <1>2, LoadChanges DEF Here
  <1>6. Ends("FAILURE", "FAILED") /\ "FAILED" \in DmEvent
    BY DEF Ends, DmEvent
  <1> QED BY <1>3, <1>4, <1>5, <1>6, ToEnd

\* The VM runs on, where it was.
LEMMA RunsOnPlain ==
  ASSUME LcmFree, OperationOver, ~Leaving, RunsAt(Here), NEW v \in VmObject,
         v.lcm = "RUNNING", v.state = vm.state, v.cur = vm.cur, v.mem = vm.mem,
         v.lcmstate = "OTHER", NEW w \in {<<>>, <<"POLL">>},
         Out(v, charge, <<>>, w, <<>>)
  PROVE  PlainInv'
  BY ToSteady DEF OperationOver, Here

LEMMA SaveFailurePlain ==
  ASSUME LcmServes("SAVE_FAILURE"), save_failure_action
  PROVE  PlainInv'
  <1>1. /\ OperationOver /\ vm.lcm \in Saves /\ RunsAt(OpHost) /\ LcmFree
        /\ vm \in VmObject /\ vm.lcmstate = "OTHER"
    BY LcmServing DEF LcmFinds, Starting, AskedToMove, Transferring
  <1>2. CASE vm.lcm = "SAVE_MIGRATE"
    BY <1>1, <1>2, BackPlain DEF save_failure_action, OpHost, Leaving
  <1>3. CASE vm.lcm # "SAVE_MIGRATE"
    <2> DEFINE v == [vm EXCEPT !.lcm = "RUNNING"]
    <2>1. Out(v, charge, <<>>, <<"POLL">>, <<>>)
      BY <1>1, <1>3 DEF save_failure_action, Saves
    <2>2. /\ v \in VmObject /\ v.lcm = "RUNNING" /\ v.state = vm.state
          /\ v.cur = vm.cur /\ v.mem = vm.mem /\ v.lcmstate = "OTHER"
      BY <1>1 DEF VmObject, LcmState
    <2> HIDE DEF v
    <2>3. ~Leaving /\ RunsAt(Here)
      BY <1>1, <1>3 DEF Leaving, OpHost, Saves
    <2> QED BY <1>1, <2>1, <2>2, <2>3, RunsOnPlain
  <1> QED BY <1>2, <1>3

LEMMA DeploySuccessPlain ==
  ASSUME LcmServes("DEPLOY_SUCCESS"), deploy_success_action
  PROVE  PlainInv'
  <1>1. /\ OperationOver /\ vm.lcm \in {"BOOT", "MIGRATE"} /\ RunsAt(Here)
        /\ LcmFree /\ vm \in VmObject /\ vm.lcmstate = "OTHER" /\ vm.mem \in Int
    BY LcmServing DEF LcmFinds, Starting, AskedToMove, Transferring
  <1>2. /\ vm.state = "ACTIVE" /\ vm.cur.reason = "NONE" /\ Here \in Hosts
        /\ Leaving => Source \in Hosts
    BY <1>1, ActiveHost DEF OperationOver, LcmServes
  <1>3. PICK r, q :
           LET v == [vm EXCEPT !.lcm = "RUNNING", !.lcmstate = "OTHER",
                               !.prev.reason = r, !.rs = q]
           IN  Out(v, IF vm.lcm = "MIGRATE" THEN del_capacity(charge, vm.prev.hid)
                      ELSE charge, <<>>, <<>>, <<>>)
    BY <1>1 DEF deploy_success_action
  <1> DEFINE v == [vm EXCEPT !.lcm = "RUNNING", !.lcmstate = "OTHER",
                             !.prev.reason = r, !.rs = q]
             c == IF vm.lcm = "MIGRATE" THEN del_capacity(charge, vm.prev.hid)
                  ELSE charge
  <1>4. /\ v.lcm = "RUNNING" /\ v.state = "ACTIVE" /\ v.cur = vm.cur
        /\ v.mem = vm.mem /\ v.lcmstate = "OTHER"
    BY <1>1, <1>2 DEF VmObject
  <1>5. Out(v, c, <<>>, <<>>, <<>>)
    BY <1>3
  <1>6. c = Load(vm.mem, Here, NoHost)
    <2>1. CASE vm.lcm = "MIGRATE"
      <3>1. Leaving /\ c = del_capacity(charge, Source)
        BY <2>1 DEF Leaving, Source
      <3> QED BY <1>1, <1>2, <3>1, LoadChanges DEF OperationOver
    <2>2. CASE vm.lcm # "MIGRATE"
      BY <1>1, <2>2 DEF OperationOver, Leaving
    <2> QED BY <2>1, <2>2
  <1> HIDE DEF v, c
  <1> QED BY <1>1, <1>2, <1>4, <1>5, <1>6, ToSteady DEF Here

LEMMA DeployFailurePlain ==
  ASSUME LcmServes("DEPLOY_FAILURE"), deploy_failure_action
  PROVE  PlainInv'
  <1>1. /\ OperationOver /\ LcmFree /\ vm \in VmObject /\ vm.lcmstate = "OTHER"
        /\ \/ vm.lcm = "BOOT" /\ Off
           \/ vm.lcm = "MIGRATE" /\ RunsAt(Source)
    BY LcmServing DEF LcmFinds, Starting, AskedToMove, Transferring
  <1>2. CASE vm.lcm = "BOOT"
    BY <1>1, <1>2, FailurePlain
    DEF deploy_failure_action, OperationOver, Leaving
  <1>3. CASE vm.lcm = "MIGRATE"
    BY <1>1, <1>3, BackPlain DEF deploy_failure_action, Leaving
  <1> QED BY <1>1, <1>2, <1>3

\* The domain is gone, or the VM runs on.
LEMMA ShutdownPlain ==
  ASSUME NEW x, LcmServes(x),
         (x = "SHUTDOWN_SUCCESS" /\ shutdown_success_action)
            \/ (x = "CANCEL_SUCCESS" /\ cancel_success_action)
  PROVE  PlainInv'
  <1>1. /\ OperationOver /\ LcmFree /\ vm \in VmObject /\ vm.lcmstate = "OTHER"
        /\ Off /\ vm.lcm \in {"SHUTDOWN", "CANCEL"}
    BY LcmServing DEF LcmFinds, Starting, AskedToMove, Transferring
  <1>2. vm.state = "ACTIVE" /\ charge = Load(vm.mem, Here, NoHost)
    BY <1>1 DEF OperationOver, Leaving
  <1>3. /\ "EPILOG" \in Script /\ "EPILOG" \in Epilogs /\ "EPILOG" \notin Prologs
        /\ Carries("EPILOG", "EPILOG")
    BY DEF Script, Prologs, Epilogs, Carries
  <1>4. PICK v : /\ Out(v, charge, <<>>, <<>>, <<"EPILOG">>)
                 /\ v \in {[vm EXCEPT !.lcm = "EPILOG"],
                           [vm EXCEPT !.lcm = "EPILOG", !.cur.reason = "CANCEL"]}
    BY DEF shutdown_success_action, cancel_success_action
  <1>5. /\ v.lcm = "EPILOG" /\ v.state = "ACTIVE" /\ v.mem = vm.mem
        /\ v.lcmstate = "OTHER" /\ v.cur.hid = vm.cur.hid
    <2>1. CASE v = [vm EXCEPT !.lcm = "EPILOG"]
      BY <1>1, <1>2, <2>1 DEF VmObject
    <2>2. CASE v = [vm EXCEPT !.lcm = "EPILOG", !.cur.reason = "CANCEL"]
      BY <1>1, <1>2, <2>2 DEF VmObject, History
    <2> QED BY <1>4, <2>1, <2>2
  <1> QED BY <1>1, <1>2, <1>3, <1>4, <1>5, ToTransfer DEF Here

LEMMA StayPlain ==
  ASSUME NEW x, LcmServes(x),
         (x = "SHUTDOWN_FAILURE" /\ shutdown_failure_action)
            \/ (x = "CANCEL_FAILURE" /\ cancel_failure_action)
  PROVE  PlainInv'
  <1>1. /\ OperationOver /\ LcmFree /\ vm \in VmObject /\ vm.lcmstate = "OTHER"
        /\ RunsAt(Here) /\ vm.lcm \in {"SHUTDOWN", "CANCEL"} /\ ~Leaving
    BY LcmServing DEF LcmFinds, Starting, AskedToMove, Transferring, Leaving
  <1>2. PICK bk \in RecordState, rs \in RecordState, dk \in RecordState :
           Out([vm EXCEPT !.lcm = "RUNNING", !.bk = bk, !.rs = rs, !.dk = dk],
               charge, <<>>, <<"POLL">>, <<>>)
    <2>1. [vm EXCEPT !.lcm = "RUNNING", !.bk = vm.bk, !.rs = vm.rs, !.dk = vm.dk]
            = [vm EXCEPT !.lcm = "RUNNING"]
      BY <1>1 DEF VmObject
    <2>2. vm.bk \in RecordState /\ vm.rs \in RecordState /\ vm.dk \in RecordState
      BY <1>1 DEF VmObject
    <2> QED BY <1>1, <2>1, <2>2 DEF shutdown_failure_action, cancel_failure_action
  <1> DEFINE v == [vm EXCEPT !.lcm = "RUNNING", !.bk = bk, !.rs = rs, !.dk = dk]
  <1>3. /\ v \in VmObject /\ v.lcm = "RUNNING" /\ v.state = vm.state
        /\ v.cur = vm.cur /\ v.mem = vm.mem /\ v.lcmstate = "OTHER"
    BY <1>1 DEF VmObject, LcmState
  <1> HIDE DEF v
  <1> QED BY <1>1, <1>2, <1>3, RunsOnPlain DEF v

\* The answers about a transfer.
LEMMA PrologSuccessPlain ==
  ASSUME LcmServes("PROLOG_SUCCESS"), prolog_success_action
  PROVE  PlainInv'
  <1>1. /\ Transferring("lcm", "PROLOG_SUCCESS") /\ LcmFree /\ vm \in VmObject
        /\ vm.lcmstate = "OTHER"
    BY LcmServing DEF LcmFinds, Starting, AskedToMove
  <1>2. /\ vm.state = "ACTIVE" /\ vm.lcm \in Prologs /\ vm.cur.reason = "NONE"
        /\ charge = Load(vm.mem, Here, NoHost) /\ Off
    BY <1>1 DEF Transferring
  <1> DEFINE v == [vm EXCEPT !.lcm = "BOOT"]
  <1>3. PICK op \in {"DEPLOY", "RESTORE"} : Out(v, charge, <<>>, <<op>>, <<>>)
    BY <1>2 DEF prolog_success_action, Prologs, AfterBackup
  <1>4. /\ v.lcm = "BOOT" /\ v.state = "ACTIVE" /\ v.cur = vm.cur
        /\ v.mem = vm.mem /\ v.lcmstate = "OTHER"
    BY <1>1, <1>2 DEF VmObject
  <1> HIDE DEF v
  <1>5. Serves("BOOT", op) /\ op \in OpName
    BY DEF Serves, OpName
  <1> QED BY <1>1, <1>2, <1>3, <1>4, <1>5, ToOperation DEF Here

LEMMA TransferFailurePlain ==
  ASSUME NEW x, LcmServes(x),
         (x = "PROLOG_FAILURE" /\ prolog_failure_action)
            \/ (x = "EPILOG_FAILURE" /\ epilog_failure_action)
  PROVE  PlainInv'
  <1>1. Transferring("lcm", x) /\ LcmFree /\ vm.lcmstate = "OTHER"
    BY LcmServing DEF LcmFinds, Starting, AskedToMove
  <1>2. failure_action
    BY <1>1 DEF prolog_failure_action, epilog_failure_action, Transferring,
                Prologs, Epilogs
  <1> QED BY <1>1, <1>2, FailurePlain DEF Transferring

LEMMA EpilogSuccessPlain ==
  ASSUME LcmServes("EPILOG_SUCCESS"), epilog_success_action
  PROVE  PlainInv'
  <1>1. /\ Transferring("lcm", "EPILOG_SUCCESS") /\ LcmFree /\ vm \in VmObject
        /\ vm.lcmstate = "OTHER" /\ vm.mem \in Int
    BY LcmServing DEF LcmFinds, Starting, AskedToMove
  <1>2. /\ vm.state = "ACTIVE" /\ vm.lcm \in Epilogs /\ Here \in Hosts
        /\ charge = Load(vm.mem, Here, NoHost) /\ Off
    BY <1>1, ActiveHost DEF Transferring, LcmServes
  <1>3. del_capacity(charge, vm.cur.hid) = Load(vm.mem, NoHost, NoHost)
    BY <1>1, <1>2, LoadChanges DEF Here
  <1>4. PICK e \in DmEvent :
           /\ Ends(vm.lcm, e)
           /\ Out(vm, del_capacity(charge, vm.cur.hid), <<e>>, <<>>, <<>>)
    BY <1>2 DEF epilog_success_action, Epilogs, Ends, DmEvent
  <1> QED BY <1>1, <1>2, <1>3, <1>4, ToEnd

-----------------------------------------------------------------------------
(* Steps that leave the work where it is.                                   *)

\* Nothing a stage tells of has changed.
SameLife ==
  /\ vm'.state = vm.state /\ vm'.lcm = vm.lcm /\ vm'.mem = vm.mem
  /\ vm'.cur = vm.cur /\ vm'.prev = vm.prev
  /\ charge' = charge /\ domain' = domain
  /\ budget'.scenario = budget.scenario /\ budget'.deaths = budget.deaths
  /\ budget'.restarts = budget.restarts

LEMMA SameStage ==
  ASSUME SameLife, NEW w, NEW e, Stage(w, e)
  PROVE  Stage(w, e)' /\ Waiting' = Waiting
  <1>1. /\ Waiting' = Waiting /\ NeverDied' = NeverDied /\ Off' = Off
        /\ NeverRestarted' = NeverRestarted /\ Here' = Here /\ Source' = Source
        /\ HasPrevious' = HasPrevious /\ Leaving' = Leaving /\ Running' = Running
        /\ \A s, l : Is(s, l)' = Is(s, l)
    BY SameWaiting DEF SameLife, NeverDied, NeverRestarted, Off, Here, Source,
                       HasPrevious, Leaving, Running, Is
  <1>2. \A h : RunsAt(h)' = RunsAt(h)
    BY <1>1 DEF RunsAt, SameLife
  <1>3. /\ OpHost' = OpHost /\ \A op, r : Order(op, r)' = Order(op, r)
    BY <1>1 DEF OpHost, Order
  <1>4. \A op : /\ Pending(w, e, op)' = Pending(w, e, op)
                /\ Performed(w, e, op)' = Performed(w, e, op)
    BY <1>1, <1>2, <1>3 DEF Pending, Performed
  <1>5. Operating(w, e) => Operating(w, e)'
    BY <1>1, <1>4 DEF Operating, SameLife
  <1>6. /\ Resting(w) => Resting(w)'
        /\ Starting(w, e) => Starting(w, e)'
        /\ Steady(w) => Steady(w)'
        /\ AskedToMove(w, e) => AskedToMove(w, e)'
        /\ Transferring(w, e) => Transferring(w, e)'
        /\ Ending(w, e) => Ending(w, e)'
        /\ Lost(w) => Lost(w)'
    BY <1>1, <1>2 DEF SameLife, Resting, Starting, Steady, AskedToMove,
                      Transferring, Ending, Lost
  <1> QED BY <1>1, <1>5, <1>6 DEF Stage

LEMMA SameHealth ==
  ASSUME PlainInv, budget'.scenario = budget.scenario,
         budget'.deaths = budget.deaths, budget'.restarts = budget.restarts,
         daemon' = daemon, vm'.lcmstate = vm.lcmstate, None(rm', Waiting)
  PROVE  Healthy'
  BY SameWaiting DEF PlainInv, Healthy

\* The queue of the LCM loses a request that waits.
LEMMA LcmSkips ==
  ASSUME TypeOK, NEW w, NEW e, At(w, e), Stage(w, e),
         NEW x \in Waiting, LcmPop(x),
         UNCHANGED <<rm, drivers, budget, dmQ, tmQ>>,
         \/ vmmQ' = vmmQ
         \/ vmmQ' = vmmQ \o <<"REBOOT">>
  PROVE  At(w, e)'
  <1>1. Waiting' = Waiting
    BY SameWaiting
  <1>2. lcmQ \in Seq(LcmEvent) /\ lcmQ # <<>> /\ Head(lcmQ) = x /\ lcmQ' = Tail(lcmQ)
    BY DEF TypeOK, LcmPop
  <1>3. None(lcmQ, Waiting) => None(lcmQ', Waiting)
    BY <1>2, NoneTail
  <1>4. e \notin Waiting /\ One(lcmQ, Waiting, e) => One(lcmQ', Waiting, e)
    BY <1>2, OneTail
  <1>5. vmmQ \in Seq(VmmEvent) /\ <<"REBOOT">> \in Seq(VmmEvent)
        /\ None(<<"REBOOT">>, Passing)
    BY DEF TypeOK, VmmEvent, None, Passing
  <1>6. None(vmmQ, Passing) => None(vmmQ', Passing)
    BY <1>5, NoneConcat
  <1>7. One(vmmQ, Passing, e) => One(vmmQ', Passing, e)
    BY <1>5, OneMore
  <1>8. w = "lcm" => e \notin Waiting
    BY Tokens
  <1> QED BY <1>1, <1>3, <1>4, <1>6, <1>7, <1>8 DEF At, drivers

LEMMA RefusedPlain ==
  ASSUME TypeOK, PlainInv, NEW x \in Waiting, LcmPop(x), Refused,
         UNCHANGED <<rm, drivers, budget>>
  PROVE  PlainInv'
  <1>1. PICK w, e : At(w, e) /\ Stage(w, e)
    BY DEF PlainInv
  <1>2. /\ vm' = vm /\ charge' = charge /\ daemon' = daemon
        /\ UNCHANGED <<dmQ, vmmQ, tmQ>>
    BY ConcatEmptySeq DEF Refused, Out, TypeOK
  <1>3. At(w, e)'
    BY <1>1, <1>2, LcmSkips
  <1>4. SameLife
    BY <1>2 DEF SameLife, drivers
  <1>5. Healthy'
    BY <1>2, SameHealth DEF PlainInv, Healthy
  <1> QED BY <1>1, <1>3, <1>4, <1>5, SameStage, Arrives

LEMMA RebootPlain ==
  ASSUME TypeOK, PlainInv, reboot_action, UNCHANGED <<rm, drivers, budget>>
  PROVE  PlainInv'
  <1>0. "REBOOT" \in Waiting
    BY DEF Waiting
  <1>1. PICK w, e : At(w, e) /\ Stage(w, e)
    BY DEF PlainInv
  <1>2. CASE Running
    <2>1. /\ vm' = [vm EXCEPT !.lcm = "RUNNING"] /\ charge' = charge
          /\ daemon' = daemon /\ LcmPop("REBOOT")
          /\ dmQ' = dmQ \o <<>> /\ tmQ' = tmQ \o <<>>
          /\ vmmQ' = vmmQ \o <<"REBOOT">>
      BY <1>2 DEF reboot_action, FromRunning, Out
    <2>2. vm' = vm /\ UNCHANGED <<dmQ, tmQ>>
      BY <1>2, <2>1, ConcatEmptySeq DEF Running, Is, TypeOK, VmObject
    <2>3. At(w, e)'
      BY <1>0, <1>1, <2>1, <2>2, LcmSkips
    <2>4. SameLife
      BY <2>1, <2>2 DEF SameLife, drivers
    <2>5. Healthy'
      BY <2>1, <2>2, SameHealth DEF PlainInv, Healthy
    <2> QED BY <1>1, <2>3, <2>4, <2>5, SameStage, Arrives
  <1>3. CASE ~Running
    BY <1>0, <1>3, RefusedPlain DEF reboot_action, FromRunning
  <1> QED BY <1>2, <1>3

\* A request that waited finds the VM running, or comes too late.
LEMMA AskPlain ==
  ASSUME TypeOK, HistoryInv, PlainInv, UNCHANGED <<rm, drivers, budget>>,
         NEW x \in Asks, NEW to, NEW op,
         <<x, to, op>> \in {<<"SUSPEND", "SAVE_SUSPEND", "SAVE">>,
                            <<"STOP", "SAVE_STOP", "SAVE">>,
                            <<"SHUTDOWN", "SHUTDOWN", "SHUTDOWN">>,
                            <<"CANCEL", "CANCEL", "CANCEL">>},
         FromRunning(x, to, op)
  PROVE  PlainInv'
  <1>1. LcmPop(x)
    BY DEF FromRunning
  <1>2. CASE x \notin Waiting
    <2>1. LcmFinds(x)
      BY <1>1, <1>2, LcmTakes, LcmWork
    <2> QED BY <2>1 DEF LcmFinds, Starting, AskedToMove, Transferring, Asks
  <1>3. CASE x \in Waiting /\ ~Running
    BY <1>1, <1>3, RefusedPlain DEF FromRunning
  <1>4. CASE x \in Waiting /\ Running
    <2>1. PICK w, e : At(w, e) /\ Stage(w, e)
      BY DEF PlainInv
    <2>2. Waiting # {"REBOOT"}
      BY <1>4 DEF Asks
    <2>3. Steady(w)
      BY <1>4, <2>1, <2>2
      DEF Stage, Resting, Starting, AskedToMove, Operating, Serves, Transferring,
          Prologs, Epilogs, Ending, Ends, Lost, Running, Is
    <2>4. LcmFree
      <3>1. lcmQ \in Seq(LcmEvent) /\ lcmQ # <<>> /\ lcmQ' = Tail(lcmQ)
        BY <1>1 DEF TypeOK, LcmPop
      <3>2. None(lcmQ', Waiting)
        BY <2>1, <2>3, <3>1, NoneTail DEF At, Steady
      <3> QED BY <2>1, <2>3, <3>2 DEF LcmFree, Taken, At, Steady
    <2> DEFINE v == [vm EXCEPT !.lcm = to]
    <2>5. Out(v, charge, <<>>, <<op>>, <<>>)
      BY <1>4 DEF FromRunning
    <2>6. /\ v.lcm = to /\ v.state = "ACTIVE" /\ v.cur = vm.cur
          /\ v.mem = vm.mem /\ v.lcmstate = "OTHER"
      BY <1>4 DEF TypeOK, VmObject, Running, Is, PlainInv, Healthy
    <2> HIDE DEF v
    <2>7. /\ Serves(to, op) /\ op \in OpName /\ op \notin {"DEPLOY", "RESTORE"}
          /\ to \notin {"SAVE_MIGRATE", "MIGRATE"}
      BY DEF Serves, OpName
    <2> QED BY <2>3, <2>4, <2>5, <2>6, <2>7, ToOperation DEF Steady, Here
  <1> QED BY <1>2, <1>3, <1>4

LEMMA LifeCycleManagerPlain ==
  ASSUME TypeOK, HistoryInv, PlainInv, LifeCycleManager
  PROVE  PlainInv'
  <1>0. UNCHANGED <<rm, drivers, budget>>
    BY DEF LifeCycleManager
  <1>a. \A x \in Waiting : x \in {"SUSPEND", "STOP", "SHUTDOWN", "CANCEL", "REBOOT"}
    BY DEF Waiting, Asks
  <1>b. ASSUME NEW x, x \notin {"SUSPEND", "STOP", "SHUTDOWN", "CANCEL", "REBOOT"},
               LcmPop(x)
        PROVE  LcmServes(x) /\ LcmFinds(x)
    <2>1. LcmServes(x)
      BY <1>0, <1>a, <1>b DEF LcmServes
    <2> QED BY <2>1, LcmServing
  <1>1. CASE deploy_action
    BY <1>1, <1>b, DeployPlain DEF deploy_action
  <1>2. CASE restore_action
    BY <1>2, <1>b, RestorePlain DEF restore_action
  <1>3. CASE migrate_action
    <2>1. LcmServes("MIGRATE")
      BY <1>3, <1>b DEF migrate_action, MoveFromRunning
    <2> QED BY <1>3, <2>1, MovePlain DEF migrate_action
  <1>4. CASE live_migrate_action
    <2>1. LcmServes("LIVE_MIGRATE")
      BY <1>4, <1>b DEF live_migrate_action, MoveFromRunning
    <2> QED BY <1>4, <2>1, MovePlain DEF live_migrate_action
  <1>5. CASE suspend_action \/ stop_action \/ shutdown_action \/ cancel_action
    BY <1>0, <1>5, AskPlain
    DEF suspend_action, stop_action, shutdown_action, cancel_action, Asks
  <1>6. CASE reboot_action
    BY <1>0, <1>6, RebootPlain
  <1>7. CASE save_success_action
    BY <1>7, <1>b, SaveSuccessPlain DEF save_success_action
  <1>8. CASE save_failure_action
    BY <1>8, <1>b, SaveFailurePlain DEF save_failure_action
  <1>9. CASE deploy_success_action
    BY <1>9, <1>b, DeploySuccessPlain DEF deploy_success_action
  <1>10. CASE deploy_failure_action
    BY <1>10, <1>b, DeployFailurePlain DEF deploy_failure_action
  <1>11. CASE shutdown_success_action
    BY <1>11, <1>b, ShutdownPlain DEF shutdown_success_action
  <1>12. CASE cancel_success_action
    BY <1>12, <1>b, ShutdownPlain DEF cancel_success_action
  <1>13. CASE shutdown_failure_action
    BY <1>13, <1>b, StayPlain DEF shutdown_failure_action
  <1>14. CASE cancel_failure_action
    BY <1>14, <1>b, StayPlain DEF cancel_failure_action
  <1>15. CASE prolog_success_action
    BY <1>15, <1>b, PrologSuccessPlain DEF prolog_success_action
  <1>16. CASE prolog_failure_action
    BY <1>16, <1>b, TransferFailurePlain DEF prolog_failure_action
  <1>17. CASE epilog_failure_action
    BY <1>17, <1>b, TransferFailurePlain DEF epilog_failure_action
  <1>18. CASE epilog_success_action
    BY <1>18, <1>b, EpilogSuccessPlain DEF epilog_success_action
  <1>19. CASE \/ off_action \/ backupdisk_action \/ backup_action
              \/ recover_action \/ on_action \/ restart_action \/ delete_action
              \/ clean_action \/ off_success_action \/ xmlist_success_action
              \/ xmlist_failure_action \/ prolog_recover_decompress_action
              \/ monitor_failure_action \/ monitor_suspend_action
              \/ monitor_done_action
    <2>1. PICK x \in {"OFF", "BACKUPDISK", "BACKUP", "RECOVER", "ON", "RESTART",
                      "DELETE", "CLEAN", "OFF_SUCCESS", "XMLIST_SUCCESS",
                      "XMLIST_FAILURE", "PROLOG_RECOVER_DECOMPRESS",
                      "MONITOR_FAILURE", "MONITOR_SUSPEND", "MONITOR_DONE"} :
             LcmPop(x)
      BY <1>19
      DEF off_action, backupdisk_action, backup_action, recover_action, on_action,
          restart_action, delete_action, clean_action, off_success_action,
          xmlist_success_action, xmlist_failure_action,
          prolog_recover_decompress_action, monitor_failure_action,
          monitor_suspend_action, monitor_done_action, FromRunning, GiveUp
    <2>2. LcmFinds(x)
      BY <1>b, <2>1
    <2> QED BY <2>1, <2>2 DEF LcmFinds, Starting, AskedToMove, Transferring
  <1> QED BY <1>1, <1>2, <1>3, <1>4, <1>5, <1>6, <1>7, <1>8, <1>9, <1>10,
             <1>11, <1>12, <1>13, <1>14, <1>15, <1>16, <1>17, <1>18, <1>19
          DEF LifeCycleManager

-----------------------------------------------------------------------------
(* The Dispatch Manager and the Virtual Machine Manager.                    *)

LEMMA DispatchManagerPlain ==
  ASSUME TypeOK, HistoryInv, PlainInv, DispatchManager
  PROVE  PlainInv'
  <1>1. PICK w, e : At(w, e) /\ Stage(w, e)
    BY DEF PlainInv
  <1>2. dmQ # <<>> /\ UNCHANGED <<charge, lcmQ, vmmQ, tmQ, rm, drivers, budget>>
    BY DEF DispatchManager, suspend_success_action, stop_success_action,
           done_action, failed_action, resubmit_action, DmPop
  <1>3. w = "dm" /\ dmQ = <<e>> /\ Head(dmQ) = e /\ Tail(dmQ) = <<>>
    BY <1>1, <1>2 DEF At
  <1>4. Ending("dm", e)
    BY <1>1, <1>3 DEF Stage, Resting, Starting, Steady, AskedToMove, Operating,
                      Pending, Performed, Transferring, Lost
  <1>5. vm \in VmObject /\ vm.lcmstate = "OTHER" /\ daemon = "up"
    BY DEF TypeOK, PlainInv, Healthy
  <1>6. /\ vm'.state # "ACTIVE" /\ vm'.lcm = "LCM_INIT" /\ vm'.mem = vm.mem
        /\ vm'.lcmstate = "OTHER" /\ daemon' = "up" /\ dmQ' = <<>>
    <2> USE DEF DmPop, Settle, SettleOrKeepLock, Is
    <2>1. CASE suspend_success_action
      BY <1>3, <1>4, <1>5, <2>1
      DEF Ending, Ends, suspend_success_action, VmObject
    <2>2. CASE stop_success_action
      BY <1>3, <1>4, <1>5, <2>2 DEF Ending, Ends, stop_success_action, VmObject
    <2>3. CASE done_action
      <3>1. vm' = Released([vm EXCEPT !.state = "DONE", !.lcm = "LCM_INIT"])
        BY <1>3, <1>4, <2>3 DEF Ending, Ends, done_action
      <3> QED BY <1>3, <1>5, <2>3, <3>1 DEF done_action, Released, VmObject
    <2>4. CASE failed_action
      BY <1>3, <1>4, <1>5, <2>4 DEF Ending, Ends, failed_action, VmObject
    <2>5. CASE resubmit_action
      BY <1>3, <1>4, <2>5 DEF Ending, Ends, resubmit_action
    <2> QED BY <2>1, <2>2, <2>3, <2>4, <2>5 DEF DispatchManager
  <1>7. At("nowhere", 0)'
    BY <1>1, <1>2, <1>3, <1>6, SameWaiting DEF At, drivers
  <1>8. Resting("nowhere")'
    BY <1>2, <1>4, <1>6 DEF Resting, Ending, Off, drivers
  <1>9. Healthy'
    BY <1>2, <1>5, <1>6, SameHealth DEF PlainInv, Healthy
  <1> QED BY <1>7, <1>8, <1>9, Arrives DEF Stage

\* The VM is as it was; only the work has moved on.
LEMMA SamePlain ==
  ASSUME PlainInv, vm' = vm, charge' = charge, domain' = domain,
         daemon' = daemon, rm' = rm,
         budget'.scenario = budget.scenario, budget'.deaths = budget.deaths,
         budget'.restarts = budget.restarts,
         NEW w, NEW e, Stage(w, e), At(w, e)'
  PROVE  PlainInv'
  <1>1. SameLife
    BY DEF SameLife
  <1>2. Healthy'
    BY SameHealth DEF PlainInv, Healthy
  <1> QED BY <1>1, <1>2, SameStage, Arrives

\* A poll or a reboot is sent.
LEMMA PassPlain ==
  ASSUME TypeOK, HistoryInv, PlainInv, UNCHANGED <<charge, dmQ, tmQ, rm, tmOps,
                                                   domain, daemon, vm, lcmQ>>,
         budget'.scenario = budget.scenario, budget'.deaths = budget.deaths,
         budget'.restarts = budget.restarts,
         \/ vmmQ' = vmmQ
         \/ vmmQ # <<>> /\ Head(vmmQ) \in Passing /\ vmmQ' = Tail(vmmQ),
         \/ vmmOps' = vmmOps
         \/ \E o \in PassingOps : vmmOps' = Append(vmmOps, o)
  PROVE  PlainInv'
  <1>1. PICK w, e : At(w, e) /\ Stage(w, e)
    BY DEF PlainInv
  <1>2. vmmQ \in Seq(VmmEvent) /\ vmmOps \in Seq(Operation)
        /\ PassingOps \subseteq Operation
    BY DEF TypeOK, PassingOps
  <1>3. IF w = "vmm" THEN One(vmmQ', Passing, e) ELSE None(vmmQ', Passing)
    <2>1. CASE w = "vmm"
      <3>1. One(vmmQ, Passing, e) /\ e \notin Passing
        BY <1>1, <2>1, Tokens DEF At
      <3> QED BY <1>2, <2>1, <3>1, OneTail
    <2>2. CASE w # "vmm"
      BY <1>1, <1>2, <2>2, NoneTail DEF At
    <2> QED BY <2>1, <2>2
  <1>4. IF w = "op" THEN One(vmmOps', PassingOps, e) ELSE None(vmmOps', PassingOps)
    <2>1. CASE w = "op"
      <3>1. One(vmmOps, PassingOps, e)
        BY <1>1, <2>1 DEF At
      <3>2. ASSUME NEW o \in PassingOps, vmmOps' = Append(vmmOps, o)
            PROVE  One(vmmOps', PassingOps, e)
        <4>1. o \in Operation
          BY <1>2
        <4>2. One(Append(vmmOps, o), PassingOps, e)
          BY <1>2, <3>1, <4>1, OneAppend
        <4> QED BY <3>2, <4>2
      <3> QED BY <2>1, <3>1, <3>2
    <2>2. CASE w # "op"
      <3>1. None(vmmOps, PassingOps)
        BY <1>1, <2>2 DEF At
      <3>2. ASSUME NEW o \in PassingOps, vmmOps' = Append(vmmOps, o)
            PROVE  None(vmmOps', PassingOps)
        <4>1. o \in Operation
          BY <1>2
        <4>2. None(Append(vmmOps, o), PassingOps)
          BY <1>2, <3>1, <4>1, NoneAppend
        <4> QED BY <3>2, <4>2
      <3> QED BY <2>2, <3>1, <3>2
    <2> QED BY <2>1, <2>2
  <1>5. At(w, e)'
    BY <1>1, <1>3, <1>4, SameWaiting DEF At, PassingOps, Passing
  <1> QED BY <1>1, <1>5, SamePlain

LEMMA TimerPlain ==
  ASSUME TypeOK, HistoryInv, PlainInv, timer_action,
         UNCHANGED <<charge, dmQ, tmQ, rm, tmOps, domain, daemon>>
  PROVE  PlainInv'
  <1>1. Here \in Hosts
    BY ActiveHost DEF timer_action
  <1>2. /\ UNCHANGED <<vm, lcmQ, vmmQ>>
        /\ vmmOps' = Append(vmmOps, [op |-> "POLL", at |-> Here, to |-> Here,
                                     res |-> "none"])
        /\ budget' = [budget EXCEPT !.polls = @ - 1]
    BY DEF timer_action, SendOp, Here
  <1>3. [op |-> "POLL", at |-> Here, to |-> Here, res |-> "none"] \in PassingOps
    BY <1>1 DEF PassingOps, Passing, Operation, OpName
  <1>4. /\ budget'.scenario = budget.scenario /\ budget'.deaths = budget.deaths
        /\ budget'.restarts = budget.restarts
    BY <1>2 DEF TypeOK, Budget
  <1> QED BY <1>2, <1>3, <1>4, PassPlain

\* The VMM begins an operation, or gives it up.
LEMMA OperatePlain ==
  ASSUME TypeOK, HistoryInv, PlainInv, NEW op, op \notin Passing, NEW ev,
         NEW at, NEW to, Operate(op, op, at, to, vm, ev),
         Serves(vm.lcm, op) => at = OpHost /\ to = Here /\ ev = FailureEvent(op),
         UNCHANGED <<charge, dmQ, tmQ, rm, tmOps, domain, daemon, budget>>
  PROVE  PlainInv'
  <1>1. PICK w, e : At(w, e) /\ Stage(w, e)
    BY DEF PlainInv
  <1>2. /\ vmmQ \in Seq(VmmEvent) /\ vmmOps \in Seq(Operation)
        /\ lcmQ \in Seq(LcmEvent)
        /\ vmmQ # <<>> /\ Head(vmmQ) = op /\ vmmQ' = Tail(vmmQ)
    BY DEF TypeOK, Operate, VmmPop
  <1>3. w = "vmm" /\ e = op /\ None(vmmQ', Passing)
    BY <1>1, <1>2, Tokens, NoneTail, OneTail DEF At
  <1>4. /\ Operating("vmm", op) /\ Serves(vm.lcm, op) /\ Pending("vmm", op, op)
        /\ op \in OpName
    BY <1>1, <1>3 DEF Stage, Resting, Starting, Steady, AskedToMove, Operating,
                      Pending, Performed, Transferring, Ending, Lost
  <1>5. at = OpHost /\ to = Here /\ ev = FailureEvent(op)
    BY <1>4
  <1>6. Waiting' = Waiting
    BY SameWaiting
  <1>7. CASE SendOp(op, at, to) /\ at # NoHost /\ to # NoHost
    <2>1. PICK o : o = Order(op, "none")
      OBVIOUS
    <2>2. vmmOps' = Append(vmmOps, o) /\ UNCHANGED <<vm, lcmQ>>
      BY <1>5, <1>7, <2>1 DEF SendOp, Order
    <2>3. o \in Operation
      <3>1. at \in Hosts /\ to \in Hosts
        BY <1>5, <1>7, RecordHost DEF TypeOK, OpHost, Here, Source
      <3> QED BY <1>4, <1>5, <2>1, <3>1 DEF Order, Operation
    <2>4. One(vmmOps', PassingOps, o)
      BY <1>1, <1>2, <1>3, <2>2, <2>3, OneConcat DEF At
    <2>5. At("op", o)'
      BY <1>1, <1>3, <1>6, <2>2, <2>4 DEF At
    <2>6. Stage("op", o)
      <3>1. Pending("op", o, op)
        BY <1>4, <2>1 DEF Pending
      <3> QED BY <1>4, <3>1 DEF Stage, Operating
    <2> QED BY <2>2, <2>5, <2>6, SamePlain
  <1>8. CASE GiveUpOp(vm, ev)
    <2>1. PICK x \in LcmEvent : ev = <<x>>
      BY <1>4, <1>5 DEF Serves, FailureEvent, LcmEvent
    <2>2. lcmQ' = lcmQ \o <<x>> /\ vm' = vm /\ vmmOps' = vmmOps
      BY <1>8, <2>1 DEF GiveUpOp
    <2>3. One(lcmQ', Waiting, x)
      BY <1>1, <1>2, <1>3, <2>2, OneConcat DEF At
    <2>4. At("lcm", x)'
      BY <1>1, <1>3, <1>6, <2>2, <2>3 DEF At
    <2>5. Stage("lcm", x)
      <3>1. Pending("lcm", x, op)
        BY <1>4, <1>5, <2>1 DEF Pending
      <3> QED BY <1>4, <3>1 DEF Stage, Operating
    <2> QED BY <2>2, <2>4, <2>5, SamePlain
  <1> QED BY <1>7, <1>8 DEF Operate

LEMMA VirtualMachineManagerPlain ==
  ASSUME TypeOK, HistoryInv, PlainInv, VirtualMachineManager
  PROVE  PlainInv'
  <1>0. UNCHANGED <<charge, dmQ, tmQ, rm, tmOps, domain, daemon>>
    BY DEF VirtualMachineManager
  <1>1. CASE timer_action
    BY <1>0, <1>1, TimerPlain
  <1>2. CASE VmmHandler /\ UNCHANGED budget
    <2>1. ASSUME NEW op \in Passing, AtHost(op, op, vm, <<>>) PROVE PlainInv'
      <3>1. /\ vmmQ # <<>> /\ Head(vmmQ) = op /\ vmmQ' = Tail(vmmQ) /\ vm' = vm
            /\ \/ /\ Here # NoHost /\ lcmQ' = lcmQ
                  /\ vmmOps' = Append(vmmOps, [op |-> op, at |-> Here,
                                               to |-> Here, res |-> "none"])
               \/ lcmQ' = lcmQ \o <<>> /\ vmmOps' = vmmOps
        BY <2>1 DEF AtHost, Operate, VmmPop, SendOp, GiveUpOp, Here
      <3>2. Here # NoHost => [op |-> op, at |-> Here, to |-> Here, res |-> "none"]
                                \in PassingOps
        BY RecordHost DEF TypeOK, Here, PassingOps, Passing, Operation, OpName
      <3>3. lcmQ' = lcmQ
        BY <3>1, ConcatEmptySeq DEF TypeOK
      <3> QED BY <1>0, <1>2, <3>1, <3>2, <3>3, PassPlain
    <2>2. CASE poll_action \/ vmm_reboot_action
      BY <2>1, <2>2 DEF poll_action, vmm_reboot_action, Passing
    <2>3. CASE vmm_deploy_action \/ vmm_restore_action
      BY <1>0, <1>2, <2>3, OperatePlain
      DEF vmm_deploy_action, vmm_restore_action, AtHost, Passing, Serves, OpHost,
          Leaving, Here, FailureEvent
    <2>4. CASE vmm_shutdown_action \/ vmm_cancel_action
      BY <1>0, <1>2, <2>4, OperatePlain
      DEF vmm_shutdown_action, vmm_cancel_action, AtHost, Passing, Serves, OpHost,
          Leaving, Here, FailureEvent
    <2>5. CASE vmm_save_action
      BY <1>0, <1>2, <2>5, OperatePlain
      DEF vmm_save_action, Passing, Serves, OpHost, Leaving, Here, Source,
          FailureEvent
    <2>6. CASE vmm_migrate_action
      BY <1>0, <1>2, <2>6, OperatePlain
      DEF vmm_migrate_action, Passing, Serves, OpHost, Leaving, Here, Source,
          FailureEvent
    <2>7. CASE \/ vmm_off_action \/ vmm_backup_action \/ vmm_recover_action
               \/ vmm_backupdisk_action \/ cancel_previous_action
               \/ driver_cancel_action
      <3>1. PICK x \in {"OFF", "BACKUP", "RECOVER", "BACKUPDISK",
                        "CANCEL_PREVIOUS", "DRIVER_CANCEL"} : VmmPop(x)
        BY <2>7 DEF vmm_off_action, vmm_backup_action, vmm_recover_action,
                    vmm_backupdisk_action, cancel_previous_action,
                    driver_cancel_action, AtHost, Operate
      <3>2. PICK w, e : At(w, e) /\ Stage(w, e)
        BY DEF PlainInv
      <3>3. vmmQ \in Seq(VmmEvent) /\ vmmQ # <<>> /\ Head(vmmQ) = x /\ x \notin Passing
        BY <3>1 DEF TypeOK, VmmPop, Passing
      <3>4. w = "vmm" /\ e = x
        BY <3>2, <3>3, Tokens, NoneTail, OneTail DEF At
      <3> QED BY <3>1, <3>2, <3>4
              DEF Stage, Resting, Starting, Steady, AskedToMove, Operating,
                  Pending, Performed, Transferring, Ending, Lost, Serves
    <2> QED BY <1>2, <2>2, <2>3, <2>4, <2>5, <2>6, <2>7 DEF VmmHandler
  <1> QED BY <1>1, <1>2 DEF VirtualMachineManager

-----------------------------------------------------------------------------
(* The hypervisors, and what their drivers and those of transfers answer.   *)

LEMMA PlainScenario ==
  ASSUME TypeOK, PlainUsers
  PROVE  /\ Commands \subseteq PlainCommands /\ Polls \subseteq {"a"}
         /\ Garbage \subseteq {"OTHER"}
         /\ Commands \cap Movers = {} \/ Commands \cap Askers = {}
  BY DEF TypeOK, Budget, PlainUsers, Plain, Commands, Polls, Garbage

\* Every state of the VM that some stage knows.
LEMMA StageLcm ==
  ASSUME NEW w, NEW e, Stage(w, e)
  PROVE  /\ vm.lcm \notin {"UNKNOWN", "OFF"}
         /\ vm.state # "ACTIVE" => Resting(w)
         /\ w # "nowhere" => vm.state = "ACTIVE"
  BY DEF Stage, Resting, Starting, Steady, AskedToMove, Operating, Serves,
         Transferring, Prologs, Epilogs, Ending, Ends, Lost, Running, Is

\* The work is the only operation that is neither a poll nor a reboot.
LEMMA OpWork ==
  ASSUME TypeOK, NEW w, NEW e, At(w, e), Stage(w, e), NEW i \in 1 .. Len(vmmOps),
         vmmOps[i] \notin PassingOps
  PROVE  /\ w = "op" /\ e = vmmOps[i] /\ Operating("op", e) /\ e \notin PassingOps
         /\ One(vmmOps, PassingOps, e) /\ None(RemoveAt(vmmOps, i), PassingOps)
  <1>0. vmmOps \in Seq(Operation)
    BY DEF TypeOK
  <1>1. w = "op"
    BY DEF At, None
  <1>2. e \notin PassingOps /\ One(vmmOps, PassingOps, e)
    BY <1>1, Tokens DEF At
  <1>3. e = vmmOps[i] /\ None(RemoveAt(vmmOps, i), PassingOps)
    BY <1>0, <1>2, OneRemove
  <1>4. Operating("op", e)
    BY <1>1 DEF Stage, Resting, Starting, Steady, AskedToMove, Transferring,
                Ending, Lost
  <1> QED BY <1>1, <1>2, <1>3, <1>4

\* The hypervisor performs the operation that is the work.
LEMMA PerformedPlain ==
  ASSUME TypeOK, PlainInv,
         UNCHANGED <<vm, charge, queues, rm, tmOps, daemon, budget>>,
         NEW op \in OpName, NEW o, Serves(vm.lcm, op), o = Order(op, "none"),
         Operating("op", o), Pending("op", o, op), CanSucceed(o),
         domain' = DomainAfter(o), NEW n, n = Order(op, "success"),
         At("op", n)'
  PROVE  PlainInv'
  <1>1. /\ o.op = op /\ o.at = OpHost /\ o.to = Here
        /\ op \in {"DEPLOY", "RESTORE"} => OpHost = Here
    BY DEF Order, Serves, OpHost, Leaving
  <1>2. IF op \in {"DEPLOY", "RESTORE", "MIGRATE"} THEN domain' = {Here}
                                                  ELSE domain' = {}
    <2>1. CASE op \in {"DEPLOY", "RESTORE"}
      BY <1>1, <2>1 DEF Pending, Off, DomainAfter
    <2>2. CASE op \notin {"DEPLOY", "RESTORE"}
      <3>1. op \in {"SAVE", "SHUTDOWN", "CANCEL", "MIGRATE"}
        BY <2>2 DEF Serves
      <3>2. domain = {OpHost}
        BY <1>1, <3>1 DEF Pending, RunsAt, CanSucceed
      <3> QED BY <1>1, <3>1, <3>2 DEF DomainAfter
    <2> QED BY <2>1, <2>2
  <1>3. /\ Here' = Here /\ Source' = Source /\ Leaving' = Leaving
        /\ Order(op, "success")' = Order(op, "success")
    BY DEF Here, Source, Leaving, Order, OpHost
  <1>4. Performed("op", n, op)'
    BY <1>2, <1>3 DEF Performed, RunsAt, Off
  <1>5. Operating("op", n)'
    BY <1>3, <1>4 DEF Operating
  <1>6. Healthy'
    BY SameHealth DEF PlainInv, Healthy
  <1> QED BY <1>5, <1>6, Arrives DEF Stage

LEMMA HypervisorPlain ==
  ASSUME TypeOK, PlainUsers, PlainInv, Hypervisor
  PROVE  PlainInv'
  <1>0. UNCHANGED <<vm, charge, queues, rm, tmOps, daemon, budget>>
    BY DEF Hypervisor
  <1>1. PICK w, e : At(w, e) /\ Stage(w, e)
    BY DEF PlainInv
  <1>2. PICK i \in 1 .. Len(vmmOps) : \E r \in {"success", "failure", "a"} :
           /\ vmmOps[i].res = "none"
           /\ vmmOps' = [vmmOps EXCEPT ![i].res = r]
           /\ IF r = "success"
              THEN /\ vmmOps[i].op # "POLL" /\ CanSucceed(vmmOps[i])
                   /\ domain' = DomainAfter(vmmOps[i])
              ELSE domain' = domain
           /\ r = "a" => vmmOps[i].op = "POLL"
    BY PlainScenario DEF Hypervisor, PollResult
  <1>3. PICK r \in {"success", "failure", "a"} :
           /\ vmmOps[i].res = "none"
           /\ vmmOps' = [vmmOps EXCEPT ![i].res = r]
           /\ IF r = "success"
              THEN /\ vmmOps[i].op # "POLL" /\ CanSucceed(vmmOps[i])
                   /\ domain' = DomainAfter(vmmOps[i])
              ELSE domain' = domain
           /\ r = "a" => vmmOps[i].op = "POLL"
    BY <1>2
  <1>4. /\ vmmOps \in Seq(Operation) /\ vmmOps[i] \in Operation
        /\ [vmmOps[i] EXCEPT !.res = r] \in Operation
    <2>1. vmmOps \in Seq(Operation) /\ vmmOps[i] \in Operation
      BY DEF TypeOK
    <2> QED BY <2>1 DEF Operation
  <1>5. /\ vmmOps' \in Seq(Operation) /\ Len(vmmOps') = Len(vmmOps)
        /\ vmmOps'[i] = [vmmOps[i] EXCEPT !.res = r]
        /\ \A j \in 1 .. Len(vmmOps) : j # i => vmmOps'[j] = vmmOps[j]
    BY <1>3, <1>4, ExceptSeq
  <1>6. Waiting' = Waiting /\ PassingOps' = PassingOps
    BY <1>0, SameWaiting DEF PassingOps
  <1>7. CASE vmmOps[i] \in PassingOps
    <2>1. vmmOps'[i] \in PassingOps
      BY <1>4, <1>5, <1>7 DEF PassingOps, Operation
    <2>2. domain' = domain
      BY <1>3, <1>7 DEF PassingOps, Passing, DomainAfter
    <2>3. None(vmmOps, PassingOps) => None(vmmOps', PassingOps)
      BY <1>4, <1>5, <2>1, NoneSet
    <2>4. w = "op" => One(vmmOps', PassingOps, e)
      <3>1. w = "op" => e \notin PassingOps /\ One(vmmOps, PassingOps, e)
        BY <1>1, Tokens DEF At
      <3> QED BY <1>4, <1>5, <1>7, <2>1, <3>1, OneSet
    <2>5. At(w, e)'
      BY <1>0, <1>1, <1>6, <2>3, <2>4 DEF At, queues
    <2> QED BY <1>0, <1>1, <2>2, <2>5, SamePlain
  <1>8. CASE vmmOps[i] \notin PassingOps
    <2>1. /\ w = "op" /\ e = vmmOps[i] /\ Operating("op", e)
          /\ e \notin PassingOps /\ One(vmmOps, PassingOps, e)
      BY <1>1, <1>8, OpWork
    <2>2. PICK op \in OpName :
             /\ Serves(vm.lcm, op)
             /\ Pending("op", e, op) \/ Performed("op", e, op)
      BY <2>1 DEF Operating
    <2>3. e = Order(op, "none") /\ Pending("op", e, op)
      BY <1>3, <2>1, <2>2 DEF Pending, Performed, Order
    <2>4. PICK n : n = Order(op, r)
      OBVIOUS
    <2>5. vmmOps'[i] = n
      BY <1>5, <2>1, <2>3, <2>4 DEF Order
    <2>6. One(vmmOps', PassingOps, n)
      BY <1>4, <1>5, <1>8, <2>1, <2>5, OneSet
    <2>7. At("op", n)'
      BY <1>0, <1>1, <1>6, <2>1, <2>6 DEF At, queues
    <2>8. CASE r = "success"
      BY <1>0, <1>3, <2>1, <2>2, <2>3, <2>4, <2>7, <2>8, PerformedPlain
    <2>9. CASE r = "failure"
      <3>1. Pending("op", n, op)
        BY <2>3, <2>4, <2>9 DEF Pending
      <3>2. Stage("op", n)
        BY <2>1, <2>2, <3>1 DEF Operating, Stage
      <3> QED BY <1>0, <1>3, <2>7, <2>9, <3>2, SamePlain
    <2>10. r # "a"
      BY <1>3, <2>1, <2>2, <2>3 DEF Order, Serves
    <2> QED BY <2>8, <2>9, <2>10
  <1> QED BY <1>7, <1>8

LEMMA VmmProtocolPlain ==
  ASSUME TypeOK, PlainInv, VmmProtocol
  PROVE  PlainInv'
  <1> DEFINE Event(o) == CASE o.res = "success" -> SuccessEvent(o.op)
                           [] o.res = "failure" -> FailureEvent(o.op)
                           [] OTHER -> MonitorEvent(o.res)
  <1>0. UNCHANGED <<charge, dmQ, vmmQ, tmQ, rm, tmOps, domain, daemon, budget>>
    BY DEF VmmProtocol
  <1>1. PICK w, e : At(w, e) /\ Stage(w, e)
    BY DEF PlainInv
  <1>2. PICK i \in 1 .. Len(vmmOps) :
           /\ vmmOps[i].res # "none"
           /\ vmmOps' = RemoveAt(vmmOps, i)
           /\ lcmQ' = IF Deaf THEN lcmQ ELSE lcmQ \o Event(vmmOps[i])
           /\ vm' = IF vmmOps[i].res = "a" /\ vm.lcm = "UNKNOWN"
                    THEN [vm EXCEPT !.lcm = "RUNNING"] ELSE vm
    BY Zenon DEF VmmProtocol
  <1>3. vm' = vm
    BY <1>1, <1>2, StageLcm
  <1>4. vmmOps \in Seq(Operation) /\ lcmQ \in Seq(LcmEvent)
    BY DEF TypeOK
  <1>5. Waiting' = Waiting /\ PassingOps' = PassingOps
    BY <1>0, SameWaiting DEF PassingOps
  <1>6. CASE vmmOps[i] \in PassingOps
    <2>1. Event(vmmOps[i]) = <<>>
      <3>1. CASE vmmOps[i].res = "success"
        BY <1>6, <3>1 DEF PassingOps, Passing, SuccessEvent
      <3>2. CASE vmmOps[i].res = "failure"
        BY <1>6, <3>2 DEF PassingOps, Passing, FailureEvent
      <3>3. CASE vmmOps[i].res = "a"
        BY <3>3 DEF MonitorEvent
      <3> QED BY <1>2, <1>6, <3>1, <3>2, <3>3 DEF PassingOps
    <2> HIDE DEF Event
    <2>2. lcmQ' = lcmQ
      BY <1>2, <1>4, <2>1, ConcatEmptySeq
    <2>3. None(vmmOps, PassingOps) => None(vmmOps', PassingOps)
      BY <1>2, <1>4, NoneRemove
    <2>4. w = "op" => One(vmmOps', PassingOps, e)
      <3>1. w = "op" => e \notin PassingOps /\ One(vmmOps, PassingOps, e)
        BY <1>1, Tokens DEF At
      <3> QED BY <1>2, <1>4, <1>6, <3>1, OneRemove
    <2>5. At(w, e)'
      BY <1>0, <1>1, <1>5, <2>2, <2>3, <2>4 DEF At
    <2> QED BY <1>0, <1>1, <1>3, <2>5, SamePlain
  <1>7. CASE vmmOps[i] \notin PassingOps
    <2>1. /\ w = "op" /\ e = vmmOps[i] /\ Operating("op", e)
          /\ None(vmmOps', PassingOps)
      BY <1>1, <1>2, <1>7, OpWork
    <2>2. PICK op \in OpName :
             /\ Serves(vm.lcm, op)
             /\ Pending("op", e, op) \/ Performed("op", e, op)
      BY <2>1 DEF Operating
    <2>3. ~Deaf
      BY <2>2 DEF Deaf, Serves
    <2>4. PICK x \in LcmEvent :
             /\ Event(e) = <<x>>
             /\ Pending("lcm", x, op) \/ Performed("lcm", x, op)
      <3>1. CASE Pending("op", e, op)
        <4>1. e.res = "failure" /\ e.op = op
          BY <1>2, <2>1, <3>1 DEF Pending, Order
        <4>2. PICK x \in LcmEvent : FailureEvent(op) = <<x>>
          BY <2>2 DEF FailureEvent, Serves, LcmEvent
        <4>3. Pending("lcm", x, op)
          BY <3>1, <4>2 DEF Pending
        <4> QED BY <4>1, <4>2, <4>3
      <3>2. CASE Performed("op", e, op)
        <4>1. e.res = "success" /\ e.op = op
          BY <3>2 DEF Performed, Order
        <4>2. PICK x \in LcmEvent : SuccessEvent(op) = <<x>>
          BY <2>2 DEF SuccessEvent, Serves, LcmEvent
        <4>3. Performed("lcm", x, op)
          BY <3>2, <4>2 DEF Performed
        <4> QED BY <4>1, <4>2, <4>3
      <3> QED BY <2>2, <3>1, <3>2
    <2> HIDE DEF Event
    <2>5. lcmQ' = lcmQ \o <<x>>
      BY <1>2, <2>1, <2>3, <2>4
    <2>6. One(lcmQ', Waiting, x)
      BY <1>1, <1>4, <2>1, <2>5, OneConcat DEF At
    <2>7. At("lcm", x)'
      BY <1>0, <1>1, <1>5, <2>1, <2>6 DEF At
    <2>8. Stage("lcm", x)
      BY <2>1, <2>2, <2>4 DEF Operating, Stage
    <2> QED BY <1>0, <1>3, <2>7, <2>8, SamePlain
  <1> QED BY <1>6, <1>7

LEMMA TransferPlain ==
  ASSUME TypeOK, PlainInv, NEW a, NEW ready, NEW x,
         TransferWith(a, ready, vm, vm, <<x>>),
         \/ /\ a \in {"PROLOG", "PROLOG_RESUME", "PROLOG_MIGR"}
            /\ x = "PROLOG_FAILURE"
         \/ a \in {"EPILOG", "EPILOG_STOP"} /\ x = "EPILOG_FAILURE",
         UNCHANGED <<charge, dmQ, vmmQ, rm, vmmOps, domain, budget>>
  PROVE  PlainInv'
  <1>1. PICK w, e : At(w, e) /\ Stage(w, e)
    BY DEF PlainInv
  <1>2. /\ tmQ # <<>> /\ Head(tmQ) = a /\ tmQ' = Tail(tmQ) /\ daemon' = daemon
        /\ vm' = vm
        /\ \/ tmOps' = Append(tmOps, a) /\ lcmQ' = lcmQ
           \/ lcmQ' = lcmQ \o <<x>> /\ tmOps' = tmOps
    BY DEF TransferWith, TmPop
  <1>3. w = "tm" /\ e = a /\ tmQ' = <<>> /\ tmOps = <<>>
    BY <1>1, <1>2 DEF At
  <1>4. Transferring("tm", a)
    BY <1>1, <1>3 DEF Stage, Resting, Starting, Steady, AskedToMove, Operating,
                      Pending, Performed, Ending, Lost
  <1>5. Waiting' = Waiting /\ PassingOps' = PassingOps
    BY SameWaiting DEF PassingOps
  <1>6. CASE tmOps' = Append(tmOps, a) /\ lcmQ' = lcmQ
    <2>1. tmOps' = <<a>>
      BY <1>3, <1>6
    <2>2. At("script", a)'
      BY <1>1, <1>3, <1>5, <1>6, <2>1 DEF At
    <2>3. Stage("script", a)
      BY <1>4 DEF Transferring, Stage
    <2> QED BY <1>2, <2>2, <2>3, SamePlain
  <1>7. CASE lcmQ' = lcmQ \o <<x>> /\ tmOps' = tmOps
    <2>1. lcmQ \in Seq(LcmEvent) /\ x \in LcmEvent
      BY DEF TypeOK, LcmEvent
    <2>2. One(lcmQ', Waiting, x)
      BY <1>1, <1>3, <1>7, <2>1, OneConcat DEF At
    <2>3. At("lcm", x)'
      BY <1>1, <1>3, <1>5, <1>7, <2>2 DEF At
    <2>4. Stage("lcm", x)
      <3>1. Transferring("lcm", x)
        BY <1>4 DEF Transferring, Carries, Prologs, Epilogs
      <3> QED BY <3>1 DEF Stage
    <2> QED BY <1>2, <2>3, <2>4, SamePlain
  <1> QED BY <1>2, <1>6, <1>7

LEMMA TransferManagerPlain ==
  ASSUME TypeOK, PlainInv, TransferManager
  PROVE  PlainInv'
  <1>0. UNCHANGED <<charge, dmQ, vmmQ, rm, vmmOps, domain, budget>>
    BY DEF TransferManager
  <1>1. CASE \/ prolog_action \/ prolog_resume_action \/ prolog_migr_action
             \/ epilog_action \/ epilog_stop_action
    <2>1. PICK a, ready, x :
             /\ TransferWith(a, ready, vm, vm, <<x>>)
             /\ \/ /\ a \in {"PROLOG", "PROLOG_RESUME", "PROLOG_MIGR"}
                   /\ x = "PROLOG_FAILURE"
                \/ a \in {"EPILOG", "EPILOG_STOP"} /\ x = "EPILOG_FAILURE"
      BY <1>1 DEF prolog_action, prolog_resume_action, prolog_migr_action,
                  epilog_action, epilog_stop_action, Transfer
    <2> QED BY <1>0, <2>1, TransferPlain
  <1>2. CASE ~\/ prolog_action \/ prolog_resume_action \/ prolog_migr_action
              \/ epilog_action \/ epilog_stop_action
    <2>1. PICK x \in {"PROLOG_BACKUPDISK", "PROLOG_BACKUP", "PROLOG_RECOVER",
                      "PROLOG_RECOVER_DECOMPRESS", "EPILOG_DELETE", "ON",
                      "DELETE_RECOVER_FAIL", "RECOVER_DECOMPRESS_FAIL",
                      "DELETE_BACKUP_FAIL", "DELETEBAK",
                      "DELETE_BACKUP_COMPRESS", "EPILOG_DELETE_PREVIOUS",
                      "DRIVER_CANCEL"} : TmPop(x)
      BY <1>2
      DEF TransferManager, prolog_backupdisk_action, prolog_backup_action,
          prolog_recover_action, epilog_decompress_action, epilog_delete_action,
          prolog_on_action, delete_recover_fail_action,
          recover_decompress_fail_action, delete_backup_fail_action,
          epilog_deletebak_action, epilog_deletecps_action,
          epilog_delete_previous_action, tm_driver_cancel_action, Transfer,
          TransferTo, TransferWith
    <2>2. PICK w, e : At(w, e) /\ Stage(w, e)
      BY DEF PlainInv
    <2>3. w = "tm" /\ e = x
      BY <2>1, <2>2 DEF TmPop, At
    <2> QED BY <2>1, <2>2, <2>3
            DEF Stage, Resting, Starting, Steady, AskedToMove, Operating,
                Pending, Performed, Transferring, Carries, Ending, Lost
  <1> QED BY <1>1, <1>2

LEMMA TmProtocolPlain ==
  ASSUME TypeOK, PlainInv, TmProtocol
  PROVE  PlainInv'
  <1>0. UNCHANGED <<vm, charge, dmQ, vmmQ, tmQ, rm, vmmOps, domain, daemon, budget>>
    BY DEF TmProtocol
  <1>1. PICK w, e : At(w, e) /\ Stage(w, e)
    BY DEF PlainInv
  <1>2. PICK i \in 1 .. Len(tmOps), ok \in BOOLEAN :
           /\ tmOps' = RemoveAt(tmOps, i)
           /\ lcmQ' = IF Deaf THEN lcmQ ELSE lcmQ \o TransferEvent(ok)
    BY DEF TmProtocol
  <1>3. w = "script" /\ tmOps = <<e>>
    BY <1>1, <1>2 DEF At
  <1>4. tmOps' = <<>>
    <2>1. tmOps \in Seq(Script) /\ Len(tmOps) = 1
      BY <1>3 DEF TypeOK
    <2>2. RemoveAt(tmOps, i) \in Seq(Script) /\ Len(RemoveAt(tmOps, i)) = Len(tmOps) - 1
      BY <2>1, Removed
    <2>3. tmOps' \in Seq(Script) /\ Len(tmOps') = 0
      BY <1>2, <2>1, <2>2
    <2> QED BY <2>3
  <1>5. Transferring("script", e)
    BY <1>1, <1>3 DEF Stage, Resting, Starting, Steady, AskedToMove, Operating,
                      Pending, Performed, Ending, Lost
  <1>6. Waiting' = Waiting /\ PassingOps' = PassingOps
    BY <1>0, SameWaiting DEF PassingOps
  <1>7. ~Deaf /\ vm.lcm \in {"PROLOG", "PROLOG_RESUME", "PROLOG_MIGRATE", "EPILOG",
                             "EPILOG_STOP"}
    BY <1>5 DEF Deaf, Transferring, Prologs, Epilogs
  <1>8. PICK x \in LcmEvent :
           /\ TransferEvent(ok) = <<x>>
           /\ \/ /\ vm.lcm \in Prologs
                 /\ x \in {"PROLOG_SUCCESS", "PROLOG_FAILURE"}
              \/ /\ vm.lcm \in Epilogs
                 /\ x \in {"EPILOG_SUCCESS", "EPILOG_FAILURE"}
    <2>1. CASE vm.lcm \in {"PROLOG", "PROLOG_RESUME", "PROLOG_MIGRATE"}
      BY <2>1 DEF TransferEvent, AnyProlog, Prologs, LcmEvent
    <2>2. CASE vm.lcm \in {"EPILOG", "EPILOG_STOP"}
      BY <2>2 DEF TransferEvent, AnyProlog, AfterBackup, Epilogs, LcmEvent
    <2> QED BY <1>7, <2>1, <2>2
  <1>9. lcmQ' = lcmQ \o <<x>> /\ lcmQ \in Seq(LcmEvent)
    BY <1>2, <1>7, <1>8 DEF TypeOK
  <1>10. One(lcmQ', Waiting, x)
    BY <1>1, <1>3, <1>9, OneConcat DEF At
  <1>11. At("lcm", x)'
    BY <1>0, <1>1, <1>3, <1>4, <1>6, <1>10 DEF At
  <1>12. Stage("lcm", x)
    BY <1>5, <1>8 DEF Transferring, Stage
  <1> QED BY <1>0, <1>11, <1>12, SamePlain

-----------------------------------------------------------------------------
(* Domains that die, VMs read again and daemons started again.              *)

LEMMA DomainDiesPlain ==
  ASSUME TypeOK, PlainInv, DomainDies
  PROVE  PlainInv'
  <1>0. UNCHANGED <<vm, charge, queues, rm, vmmOps, tmOps, daemon>>
    BY DEF DomainDies
  <1>1. PICK w, e : At(w, e) /\ Stage(w, e)
    BY DEF PlainInv
  <1>2. PICK d \in domain : domain' = domain \ {d}
    BY DEF DomainDies
  <1>3. /\ budget'.scenario = budget.scenario /\ budget'.restarts = budget.restarts
        /\ budget'.deaths = budget.deaths - 1
        /\ budget.deaths \in Nat /\ budget.scenario \in DOMAIN Scenarios
    BY DEF DomainDies, TypeOK, Budget
  <1>4. budget.deaths <= Scenarios[budget.scenario].deaths
        /\ Scenarios[budget.scenario].deaths \in Nat
    BY <1>3, LifeCycleAssumption DEF PlainInv, Healthy, Scenario
  <1>5. ~NeverDied' /\ Healthy'
    <2>1. ~NeverDied'
      BY <1>3, <1>4 DEF NeverDied
    <2>2. Waiting' = Waiting
      BY <1>3, SameWaiting
    <2> QED BY <1>0, <1>3, <1>4, <2>1, <2>2 DEF PlainInv, Healthy
  <1>6. At(w, e)'
    BY <1>0, <1>1, <1>3, SameWaiting DEF At, queues, PassingOps
  <1>7. ~Off /\ \A h : RunsAt(h) => RunsAt(h)'
    BY <1>2, <1>5 DEF Off, RunsAt
  <1>8. /\ Here' = Here /\ Source' = Source /\ Leaving' = Leaving
        /\ HasPrevious' = HasPrevious /\ Running' = Running
        /\ NeverRestarted' = NeverRestarted /\ Waiting' = Waiting
        /\ OpHost' = OpHost /\ \A op, r : Order(op, r)' = Order(op, r)
    BY <1>0, <1>3, SameWaiting
    DEF Here, Source, Leaving, HasPrevious, Running, Is, NeverRestarted, OpHost,
        Order
  <1>9. ~Resting(w) /\ ~Starting(w, e) /\ ~Transferring(w, e) /\ ~Ending(w, e)
    BY <1>7 DEF Resting, Starting, Transferring, Ending
  <1>10. CASE Steady(w)
    <2>1. Steady(w)'
      BY <1>0, <1>7, <1>8, <1>10 DEF Steady
    <2> QED BY <1>5, <1>6, <2>1, Arrives DEF Stage
  <1>11. CASE AskedToMove(w, e)
    <2>1. AskedToMove(w, e)'
      BY <1>0, <1>7, <1>8, <1>11 DEF AskedToMove
    <2> QED BY <1>5, <1>6, <2>1, Arrives DEF Stage
  <1>12. CASE Operating(w, e)
    <2>1. \A op : /\ Pending(w, e, op) => Pending(w, e, op)'
                  /\ Performed(w, e, op) => Performed(w, e, op)'
      BY <1>7, <1>8 DEF Pending, Performed
    <2>2. Operating(w, e)'
      BY <1>0, <1>8, <1>12, <2>1 DEF Operating
    <2> QED BY <1>5, <1>6, <2>2, Arrives DEF Stage
  <1>13. CASE Lost(w)
    <2>1. Lost(w)'
      BY <1>0, <1>2, <1>8, <1>13 DEF Lost
    <2> QED BY <1>5, <1>6, <2>1, Arrives DEF Stage
  <1> QED BY <1>1, <1>9, <1>10, <1>11, <1>12, <1>13 DEF Stage

\* The VM as it is read again from the database.
LEMMA ReadAgainPlain ==
  ASSUME TypeOK, PlainUsers, ReadAgain
  PROVE  /\ vm'.state = vm.state /\ vm'.lcm = vm.lcm /\ vm'.mem = vm.mem
         /\ vm'.cur = vm.cur /\ vm'.prev = vm.prev /\ vm'.lcmstate = "OTHER"
  <1>1. PICK g \in Garbage : \E b :
           vm' = [vm EXCEPT !.lcmstate = g, !.bk = "NONE", !.rs = "NONE",
                            !.dk = "NONE", !.orphan = b]
    BY DEF ReadAgain
  <1>2. g = "OTHER"
    BY PlainScenario
  <1> QED BY <1>1, <1>2 DEF TypeOK, VmObject

LEMMA EvictPlain ==
  ASSUME TypeOK, PlainUsers, PlainInv, Evict
  PROVE  PlainInv'
  <1>0. /\ UNCHANGED <<charge, queues, rm, drivers, daemon, budget>> /\ ReadAgain
    BY DEF Evict
  <1>1. PICK w, e : At(w, e) /\ Stage(w, e)
    BY DEF PlainInv
  <1>2. SameLife /\ vm'.lcmstate = "OTHER"
    BY <1>0, ReadAgainPlain DEF SameLife, drivers
  <1>3. Healthy'
    BY <1>0, <1>2, SameHealth DEF PlainInv, Healthy
  <1>4. At(w, e)'
    BY <1>0, <1>1, SameWaiting DEF At, queues, drivers, PassingOps
  <1> QED BY <1>1, <1>2, <1>3, <1>4, SameStage, Arrives

LEMMA RestartPlain ==
  ASSUME TypeOK, HistoryInv, PlainUsers, PlainInv, Restart
  PROVE  PlainInv'
  <1>1. PICK w, e : At(w, e) /\ Stage(w, e)
    BY DEF PlainInv
  <1>2. /\ vm'.state = vm.state /\ vm'.lcm = vm.lcm /\ vm'.mem = vm.mem
        /\ vm'.cur = vm.cur /\ vm'.prev = vm.prev /\ vm'.lcmstate = "OTHER"
    BY ReadAgainPlain DEF Restart
  <1>3. /\ budget'.scenario = budget.scenario /\ budget'.deaths = budget.deaths
        /\ budget'.restarts = budget.restarts - 1
        /\ budget.restarts \in Nat /\ budget.scenario \in DOMAIN Scenarios
    BY DEF Restart, TypeOK, Budget
  <1>4. budget.restarts <= Scenarios[budget.scenario].restarts
        /\ Scenarios[budget.scenario].restarts \in Nat
    BY <1>3, LifeCycleAssumption DEF PlainInv, Healthy, Scenario
  <1>5. ~NeverRestarted' /\ Waiting' = Waiting /\ NeverDied' = NeverDied
    BY <1>3, <1>4, SameWaiting DEF NeverRestarted, NeverDied
  <1>6. charge' = charge /\ domain' = domain
    BY DEF Restart
  <1>7. Healthy'
    BY <1>2, <1>3, <1>4, NoneEmpty DEF PlainInv, Healthy, Restart
  <1>8. At("nowhere", 0)'
    BY NoneEmpty DEF At, Restart
  <1>9. CASE Resting(w)
    <2>1. Resting("nowhere")'
      BY <1>2, <1>6, <1>9 DEF Resting, Off
    <2> QED BY <1>7, <1>8, <2>1, Arrives DEF Stage
  <1>10. CASE Steady(w)
    <2>1. Steady("nowhere")'
      BY <1>2, <1>5, <1>6, <1>10 DEF Steady, Running, Is, Here, RunsAt
    <2> QED BY <1>7, <1>8, <2>1, Arrives DEF Stage
  <1>11. CASE ~Resting(w) /\ ~Steady(w)
    <2>1. vm.state = "ACTIVE" /\ vm.lcm \notin {"UNKNOWN", "OFF"}
      BY <1>1, <1>11, StageLcm
    <2>2. vm.lcm = "RUNNING" => /\ HasPrevious /\ vm.prev.reason = "NONE"
                                /\ Waiting = {"REBOOT"}
      BY <1>1, <1>11
      DEF Stage, Starting, AskedToMove, Operating, Serves, Transferring, Prologs,
          Epilogs, Ending, Ends, Lost, Is
    <2>3. \E h \in Hosts : domain \subseteq {h}
      <3>1. Here \in Hosts
        BY <2>1, ActiveHost
      <3>2. CASE Off
        BY <3>1, <3>2 DEF Off
      <3>3. \A h : RunsAt(h) => domain \subseteq {h}
        BY DEF RunsAt
      <3>4. CASE AskedToMove(w, e)
        <4>1. Source \in Hosts
          BY <2>1, <3>4, ActiveHost DEF AskedToMove
        <4> QED BY <3>3, <3>4, <4>1 DEF AskedToMove
      <3>5. CASE Operating(w, e)
        <4>1. OpHost \in Hosts
          BY <2>1, ActiveHost DEF OpHost
        <4>2. Off \/ RunsAt(OpHost) \/ RunsAt(Here)
          BY <3>5 DEF Operating, Pending, Performed
        <4> QED BY <3>1, <3>2, <3>3, <4>1, <4>2
      <3>6. CASE Lost(w)
        BY <3>6 DEF Lost
      <3> QED BY <1>1, <1>11, <3>2, <3>4, <3>5, <3>6
              DEF Stage, Starting, Transferring, Ending
    <2>4. Lost("nowhere")'
      BY <1>2, <1>5, <1>6, <2>1, <2>2, <2>3 DEF Lost, HasPrevious
    <2> QED BY <1>7, <1>8, <2>4, Arrives DEF Stage
  <1> QED BY <1>9, <1>10, <1>11

-----------------------------------------------------------------------------
(* The requests.                                                            *)

\* Requests change only what is left of their own bound.
LEMMA RequestKeeps ==
  ASSUME TypeOK, PlainUsers, NEW c, Request(c)
  PROVE  /\ c \in Commands /\ c \in PlainCommands /\ daemon = "up"
         /\ budget'.scenario = budget.scenario /\ budget'.deaths = budget.deaths
         /\ budget'.restarts = budget.restarts /\ Waiting' = Waiting
         /\ c \in Askers => Asks \subseteq Waiting
         /\ c \in Movers => Waiting = {"REBOOT"}
         /\ c = "reboot" => "REBOOT" \in Waiting
  <1>1. /\ budget'.scenario = budget.scenario /\ budget'.deaths = budget.deaths
        /\ budget'.restarts = budget.restarts
    BY DEF Request, TypeOK, Budget
  <1>2. /\ Commands \subseteq PlainCommands
        /\ Commands \cap Movers = {} \/ Commands \cap Askers = {}
    BY PlainScenario
  <1>3. c \in Commands /\ daemon = "up"
    BY DEF Request
  <1>4. c \in Askers => Asks \subseteq Waiting
    BY <1>3 DEF Waiting
  <1>5. c \in Movers => Waiting = {"REBOOT"}
    BY <1>2, <1>3 DEF Waiting
  <1> QED BY <1>1, <1>2, <1>3, <1>4, <1>5, SameWaiting DEF Waiting

\* What a request leaves in the queues.
LEMMA DoPlain ==
  ASSUME TypeOK, NEW w, NEW e, At(w, e), Waiting' = Waiting,
         NEW v, NEW l, Do(v, l, <<>>)
  PROVE  /\ vm' = v /\ charge' = charge /\ domain' = domain /\ daemon' = daemon
         /\ rm' = rm
         /\ l = <<>> => At(w, e)'
         /\ \A x \in LcmEvent :
               l = <<x>> => /\ w = "nowhere" => At("lcm", x)'
                            /\ x \in Waiting => At(w, e)'
  <1>1. /\ vm' = v /\ lcmQ' = lcmQ \o l /\ tmQ' = tmQ \o <<>>
        /\ UNCHANGED <<rm, charge, dmQ, vmmQ, vmmOps, tmOps, domain, daemon>>
    BY DEF Do, drivers
  <1>2. tmQ' = tmQ /\ lcmQ \in Seq(LcmEvent) /\ PassingOps' = PassingOps
    BY <1>1, ConcatEmptySeq DEF TypeOK, PassingOps
  <1>3. ASSUME l = <<>> PROVE At(w, e)'
    BY <1>1, <1>2, <1>3, ConcatEmptySeq DEF At
  <1>4. ASSUME NEW x \in LcmEvent, l = <<x>>, w = "nowhere" PROVE At("lcm", x)'
    <2>1. One(lcmQ', Waiting, x)
      BY <1>1, <1>2, <1>4, OneConcat DEF At
    <2> QED BY <1>1, <1>2, <1>4, <2>1 DEF At
  <1>5. ASSUME NEW x \in LcmEvent, l = <<x>>, x \in Waiting PROVE At(w, e)'
    <2>1. None(<<x>>, Waiting) /\ <<x>> \in Seq(LcmEvent)
      BY <1>5 DEF None
    <2>2. None(lcmQ, Waiting) => None(lcmQ', Waiting)
      BY <1>1, <1>2, <1>5, <2>1, NoneConcat
    <2>3. One(lcmQ, Waiting, e) => One(lcmQ', Waiting, e)
      BY <1>1, <1>2, <1>5, <2>1, OneMore
    <2> QED BY <1>1, <1>2, <2>2, <2>3 DEF At
  <1> QED BY <1>1, <1>3, <1>4, <1>5

LEMMA WaitPlain ==
  ASSUME TypeOK, PlainUsers, PlainInv, NEW c, Request(c),
         NEW x \in LcmEvent, x \in Waiting, Do(vm, <<x>>, <<>>)
  PROVE  PlainInv'
  <1>1. PICK w, e : At(w, e) /\ Stage(w, e)
    BY DEF PlainInv
  <1>2. /\ budget'.scenario = budget.scenario /\ budget'.deaths = budget.deaths
        /\ budget'.restarts = budget.restarts /\ Waiting' = Waiting
    BY RequestKeeps
  <1>3. /\ vm' = vm /\ charge' = charge /\ domain' = domain /\ daemon' = daemon
        /\ rm' = rm /\ At(w, e)'
    BY <1>1, <1>2, DoPlain
  <1> QED BY <1>1, <1>2, <1>3, SamePlain

\* A VM that rests goes on resting, or starts.
LEMMA RestPlain ==
  ASSUME TypeOK, PlainUsers, PlainInv, NEW c, Request(c),
         vm.state \in {"PENDING", "HOLD", "STOPPED", "SUSPENDED"},
         NEW v, v.lcm = vm.lcm, v.mem = vm.mem, v.lcmstate = vm.lcmstate,
         \/ v.state # "ACTIVE" /\ Do(v, <<>>, <<>>)
         \/ /\ v.state = "ACTIVE"
            /\ \/ v.cur.reason = "NONE" /\ Do(v, <<"DEPLOY">>, <<>>)
               \/ Do(v, <<"RESTORE">>, <<>>)
  PROVE  PlainInv'
  <1>1. PICK w, e : At(w, e) /\ Stage(w, e)
    BY DEF PlainInv
  <1>2. Resting(w)
    BY <1>1, StageLcm
  <1>3. /\ budget'.scenario = budget.scenario /\ budget'.deaths = budget.deaths
        /\ budget'.restarts = budget.restarts /\ Waiting' = Waiting
    BY RequestKeeps
  <1>4. "DEPLOY" \in LcmEvent /\ "RESTORE" \in LcmEvent
    BY DEF LcmEvent
  <1>5. /\ vm' = v /\ charge' = charge /\ domain' = domain /\ daemon' = daemon
        /\ rm' = rm
        /\ \/ v.state # "ACTIVE" /\ At(w, e)'
           \/ v.state = "ACTIVE" /\ v.cur.reason = "NONE" /\ At("lcm", "DEPLOY")'
           \/ v.state = "ACTIVE" /\ At("lcm", "RESTORE")'
    BY <1>1, <1>2, <1>3, <1>4, DoPlain DEF Resting
  <1>6. Healthy'
    BY <1>3, <1>5, SameHealth DEF PlainInv, Healthy
  <1>7. CASE v.state # "ACTIVE" /\ At(w, e)'
    <2>1. Resting(w)'
      BY <1>2, <1>5, <1>7 DEF Resting, Off
    <2> QED BY <1>6, <1>7, <2>1, Arrives DEF Stage
  <1>8. CASE v.state = "ACTIVE" /\ v.cur.reason = "NONE" /\ At("lcm", "DEPLOY")'
    <2>1. Starting("lcm", "DEPLOY")'
      BY <1>2, <1>5, <1>8 DEF Resting, Starting, Is, Off
    <2> QED BY <1>6, <1>8, <2>1, Arrives DEF Stage
  <1>9. CASE v.state = "ACTIVE" /\ At("lcm", "RESTORE")'
    <2>1. Starting("lcm", "RESTORE")'
      BY <1>2, <1>5, <1>9 DEF Resting, Starting, Is, Off
    <2> QED BY <1>6, <1>9, <2>1, Arrives DEF Stage
  <1> QED BY <1>5, <1>7, <1>8, <1>9

LEMMA MigratePlain ==
  ASSUME TypeOK, HistoryInv, PlainUsers, PlainInv, NEW c \in Movers, Request(c),
         CanMigrate, NEW h \in Hosts, NEW x \in {"MIGRATE", "LIVE_MIGRATE"},
         Do(add_history(vm, h), <<x>>, <<>>)
  PROVE  PlainInv'
  <1>1. PICK w, e : At(w, e) /\ Stage(w, e)
    BY DEF PlainInv
  <1>2. Steady(w)
    BY <1>1
    DEF CanMigrate, Stage, Resting, Starting, AskedToMove, Operating, Serves,
        Transferring, Prologs, Epilogs, Ending, Ends, Lost, Running, Is
  <1>3. /\ budget'.scenario = budget.scenario /\ budget'.deaths = budget.deaths
        /\ budget'.restarts = budget.restarts /\ Waiting' = Waiting
        /\ Waiting = {"REBOOT"}
    BY RequestKeeps
  <1>4. x \in LcmEvent
    BY DEF LcmEvent
  <1>5. /\ vm' = add_history(vm, h) /\ charge' = charge /\ domain' = domain
        /\ daemon' = daemon /\ rm' = rm /\ At("lcm", x)'
    BY <1>1, <1>2, <1>3, <1>4, DoPlain DEF Steady
  <1>6. Here \in Hosts /\ Here # NoHost
    BY <1>2, ActiveHost, LifeCycleAssumption DEF Steady, Running, Is
  <1>7. /\ vm'.state = vm.state /\ vm'.lcm = vm.lcm /\ vm'.mem = vm.mem
        /\ vm'.lcmstate = vm.lcmstate /\ vm'.prev = vm.cur
        /\ vm'.cur.hid = h /\ vm'.cur.reason = "NONE"
    BY <1>5, <1>6 DEF add_history, TypeOK, VmObject, Here
  <1>8. Healthy'
    BY <1>3, <1>5, <1>7, SameHealth DEF PlainInv, Healthy
  <1>9. AskedToMove("lcm", x)'
    <2>1. RunsAt(Here) => RunsAt(Source)'
      BY <1>3, <1>5, <1>7 DEF RunsAt, NeverDied, Here, Source
    <2> QED BY <1>2, <1>3, <1>5, <1>6, <1>7, <2>1
            DEF Steady, AskedToMove, Running, Is, HasPrevious, Here, Source
  <1> QED BY <1>5, <1>8, <1>9, Arrives DEF Stage

LEMMA TriggersPlain ==
  ASSUME TypeOK, PlainInv, RequestTriggers
  PROVE  PlainInv'
  <1>0. UNCHANGED <<vm, charge, dmQ, vmmQ, tmQ, drivers, daemon, budget>>
    BY DEF RequestTriggers
  <1>1. PICK w, e : At(w, e) /\ Stage(w, e)
    BY DEF PlainInv
  <1>2. PICK i \in 1 .. Len(rm) :
           rm' = RemoveAt(rm, i) /\ lcmQ' = Append(lcmQ, rm[i])
    BY DEF RequestTriggers
  <1>3. /\ rm \in Seq(RmEvent) /\ lcmQ \in Seq(LcmEvent) /\ rm[i] \in RmEvent
        /\ None(rm, Waiting)
    BY DEF TypeOK, PlainInv, Healthy
  <1>4. rm[i] \in Waiting /\ rm[i] \in LcmEvent
    BY <1>3 DEF None, RmEvent, LcmEvent
  <1>5. None(rm', Waiting)
    BY <1>2, <1>3, NoneRemove
  <1>6. /\ None(lcmQ, Waiting) => None(lcmQ', Waiting)
        /\ One(lcmQ, Waiting, e) => One(lcmQ', Waiting, e)
    BY <1>2, <1>3, <1>4, NoneAppend, OneAppend
  <1>7. At(w, e)'
    BY <1>0, <1>1, <1>6, SameWaiting DEF At, drivers, PassingOps
  <1>8. Healthy'
    BY <1>0, <1>5, SameHealth DEF PlainInv, Healthy
  <1>9. SameLife
    BY <1>0 DEF SameLife, drivers
  <1> QED BY <1>1, <1>7, <1>8, <1>9, SameStage, Arrives

LEMMA CancelPlain ==
  ASSUME TypeOK, PlainUsers, PlainInv, cancel
  PROVE  PlainInv'
  <1>0. /\ UNCHANGED <<vm, charge, queues, drivers, daemon>>
        /\ rm' = Append(rm, "CANCEL") /\ Request("cancel")
    BY DEF cancel, Later
  <1>1. PICK w, e : At(w, e) /\ Stage(w, e)
    BY DEF PlainInv
  <1>2. /\ budget'.scenario = budget.scenario /\ budget'.deaths = budget.deaths
        /\ budget'.restarts = budget.restarts /\ Waiting' = Waiting
        /\ Asks \subseteq Waiting
    BY <1>0, RequestKeeps DEF Askers
  <1>3. None(rm', Waiting)
    <2>1. rm \in Seq(RmEvent) /\ "CANCEL" \in RmEvent /\ "CANCEL" \in Waiting
      BY <1>2 DEF TypeOK, RmEvent, Asks
    <2> QED BY <1>0, <2>1, NoneAppend DEF PlainInv, Healthy
  <1>4. At(w, e)'
    BY <1>0, <1>1, <1>2 DEF At, queues, drivers, PassingOps
  <1>5. Healthy'
    BY <1>0, <1>2, <1>3, SameHealth DEF PlainInv, Healthy
  <1>6. SameLife
    BY <1>0, <1>2 DEF SameLife, drivers
  <1> QED BY <1>1, <1>4, <1>5, <1>6, SameStage, Arrives

LEMMA RequestsPlain ==
  ASSUME TypeOK, HistoryInv, PlainUsers, PlainInv, Requests
  PROVE  PlainInv'
  <1>0. vm \in VmObject
    BY DEF TypeOK
  <1>1. ASSUME NEW h \in Hosts, deploy(h) PROVE PlainInv'
    <2> DEFINE v == [add_history(vm, h) EXCEPT !.state = "ACTIVE"]
    <2>1. /\ v.state = "ACTIVE" /\ v.lcm = vm.lcm /\ v.mem = vm.mem
          /\ v.lcmstate = vm.lcmstate /\ v.cur.reason = "NONE"
      BY <1>0 DEF add_history, VmObject
    <2>2. Request("deploy") /\ vm.state = "PENDING" /\ Do(v, <<"DEPLOY">>, <<>>)
      BY <1>1 DEF deploy
    <2> HIDE DEF v
    <2> QED BY <2>1, <2>2, RestPlain
  <1>2. ASSUME NEW h \in Hosts, migrate(h) \/ live_migrate(h) PROVE PlainInv'
    BY <1>2, MigratePlain DEF migrate, live_migrate, Movers
  <1>3. CASE shutdown \/ stop \/ suspend \/ reboot
    <2>1. PICK c \in {"shutdown", "stop", "suspend", "reboot"},
                x \in {"SHUTDOWN", "STOP", "SUSPEND", "REBOOT"} :
             /\ Request(c) /\ Do(vm, <<x>>, <<>>)
             /\ \/ c \in {"shutdown", "stop", "suspend"} /\ x # "REBOOT"
                \/ c = "reboot" /\ x = "REBOOT"
      BY <1>3 DEF shutdown, stop, suspend, reboot
    <2>2. x \in LcmEvent /\ x \in Waiting
      BY <2>1, RequestKeeps DEF Askers, Asks, LcmEvent
    <2> QED BY <2>1, <2>2, WaitPlain
  <1>4. CASE hold \/ release \/ resume
    <2>1. PICK c, s : /\ Request(c)
                      /\ vm.state \in {"PENDING", "HOLD", "STOPPED", "SUSPENDED"}
                      /\ \/ s # "ACTIVE" /\ Do([vm EXCEPT !.state = s], <<>>, <<>>)
                         \/ /\ s = "ACTIVE"
                            /\ Do([vm EXCEPT !.state = s], <<"RESTORE">>, <<>>)
      BY <1>4 DEF hold, release, resume
    <2> DEFINE v == [vm EXCEPT !.state = s]
    <2>2. /\ v.state = s /\ v.lcm = vm.lcm /\ v.mem = vm.mem
          /\ v.lcmstate = vm.lcmstate
      BY <1>0 DEF VmObject
    <2>3. \/ v.state # "ACTIVE" /\ Do(v, <<>>, <<>>)
          \/ v.state = "ACTIVE" /\ Do(v, <<"RESTORE">>, <<>>)
      BY <2>1, <2>2
    <2> HIDE DEF v
    <2> QED BY <2>1, <2>2, <2>3, RestPlain
  <1>5. CASE cancel
    BY <1>5, CancelPlain
  <1>6. CASE RequestTriggers
    BY <1>6, TriggersPlain
  <1>7. CASE \/ backup \/ backupdisk \/ recover \/ restart \/ off \/ on
             \/ finalize \/ resubmit \/ change
    <2>1. PICK c \in {"backup", "backupdisk", "recover", "restart", "off", "on",
                      "finalize", "resubmit", "change"} : Request(c)
      BY <1>7 DEF backup, backupdisk, recover, restart, off, on, finalize,
                  resubmit, change
    <2>2. c \in PlainCommands
      BY <2>1, RequestKeeps
    <2> QED BY <2>1, <2>2 DEF PlainCommands, Movers, Askers
  <1> QED BY <1>1, <1>2, <1>3, <1>4, <1>5, <1>6, <1>7 DEF Requests

-----------------------------------------------------------------------------
(* The invariant.                                                           *)

LEMMA InitPlain ==
  ASSUME Init, PlainUsers
  PROVE  PlainInv
  <1>1. PICK s \in DOMAIN Scenarios :
           budget = [scenario |-> s, cmds |-> Scenarios[s].cmds,
                     polls |-> Scenarios[s].polls,
                     deaths |-> Scenarios[s].deaths,
                     restarts |-> Scenarios[s].restarts]
    BY DEF Init
  <1>2. Scenarios[s] \in Scenario /\ Plain(Scenarios[s])
    BY LifeCycleAssumption DEF PlainUsers
  <1>3. /\ vm.state = "PENDING" /\ vm.lcm = "LCM_INIT" /\ vm.lcmstate = "OTHER"
        /\ vm.mem = 1
    BY <1>1, <1>2 DEF Init, Garbage, Plain
  <1>4. Healthy
    BY <1>1, <1>2, <1>3, NoneEmpty DEF Healthy, Init, Scenario
  <1>5. charge = Load(vm.mem, NoHost, NoHost)
    <2>1. NoHost \notin Hosts /\ charge = [h \in Hosts |-> [vms |-> 0, mem |-> 0]]
      BY LifeCycleAssumption DEF Init
    <2>2. Load(vm.mem, NoHost, NoHost) = [h \in Hosts |-> [vms |-> 0, mem |-> 0]]
      BY <1>3, <2>1 DEF Load, Times
    <2> QED BY <2>1, <2>2
  <1>6. At("nowhere", 0)
    BY NoneEmpty DEF At, Init
  <1>7. Resting("nowhere")
    BY <1>3, <1>5 DEF Resting, Off, Init
  <1> QED BY <1>4, <1>6, <1>7 DEF PlainInv, Stage

LEMMA StutterPlain ==
  ASSUME PlainInv, UNCHANGED vars
  PROVE  PlainInv'
  <1>1. PICK w, e : At(w, e) /\ Stage(w, e)
    BY DEF PlainInv
  <1>2. At(w, e)'
    BY <1>1, SameWaiting DEF At, vars, PassingOps
  <1> QED BY <1>1, <1>2, SamePlain DEF vars

LEMMA PlainStep ==
  ASSUME TypeOK, HistoryInv, PlainUsers, PlainInv, [Next]_vars
  PROVE  PlainInv'
  BY RequestsPlain, LifeCycleManagerPlain, DispatchManagerPlain,
     VirtualMachineManagerPlain, TransferManagerPlain, HypervisorPlain,
     VmmProtocolPlain, TmProtocolPlain, DomainDiesPlain, EvictPlain,
     RestartPlain, StutterPlain
  DEF Next

\* For plain users there is one piece of work for the VM, or none, and the VM,
\* the shares of the hosts and the domain are what it calls for.
THEOREM PlainLife ==
  ASSUME PlainUsers
  PROVE  Spec => []PlainInv
  <1>1. Init => PlainInv
    BY InitPlain
  <1>2. TypeOK /\ HistoryInv /\ PlainInv /\ [Next]_vars => PlainInv'
    BY PlainStep
  <1>3. Spec => []TypeOK
    BY TypeCorrect
  <1>4. Spec => []HistoryInv
    BY HistoryCorrect
  <1> QED BY <1>1, <1>2, <1>3, <1>4, PTL DEF Spec

-----------------------------------------------------------------------------
(* What follows for a VM in any state.                                      *)

\* Nothing is going on when all is quiet, but the VM may be lost.
LEMMA QuietStage ==
  ASSUME PlainInv, Quiet
  PROVE  Resting("nowhere") \/ Steady("nowhere") \/ Lost("nowhere")
  <1>1. PICK w, e : At(w, e) /\ Stage(w, e)
    BY DEF PlainInv
  <1>2. /\ Len(lcmQ) = 0 /\ Len(vmmQ) = 0 /\ Len(vmmOps) = 0
        /\ lcmQ = <<>> /\ dmQ = <<>> /\ vmmQ = <<>> /\ tmQ = <<>>
        /\ vmmOps = <<>> /\ tmOps = <<>>
    BY DEF Quiet
  <1>3. w # "lcm" /\ w # "vmm" /\ w # "op"
    BY <1>1, <1>2 DEF At, One
  <1>4. w # "dm" /\ w # "tm" /\ w # "script"
    BY <1>1, <1>2 DEF At
  <1>5. ~Operating(w, e)
    BY <1>3 DEF Operating, Pending, Performed
  <1> QED BY <1>1, <1>3, <1>4, <1>5
          DEF Stage, Resting, Starting, Steady, AskedToMove, Transferring,
              Ending, Lost

\* A VM that is not ACTIVE rests.
LEMMA RestingStage ==
  ASSUME NEW w, NEW e, At(w, e), Stage(w, e), vm.state # "ACTIVE"
  PROVE  Resting("nowhere") /\ At("nowhere", e)
  BY DEF Stage, Resting, Starting, Steady, AskedToMove, Operating, Transferring,
         Ending, Lost, Is, Running

LEMMA CountedLoad ==
  ASSUME vm.mem \in Int
  PROVE  /\ charge = Load(vm.mem, NoHost, NoHost) => Counted({})
         /\ \A h \in Hosts : charge = Load(vm.mem, h, NoHost) => Counted({h})
  <1>1. NoHost \notin Hosts
    BY LifeCycleAssumption
  <1>2. ASSUME NEW k \in Hosts
        PROVE  Load(vm.mem, NoHost, NoHost)[k] = [vms |-> 0, mem |-> 0]
    BY <1>1, <1>2 DEF Load, Times
  <1>3. ASSUME NEW h \in Hosts, NEW k \in Hosts
        PROVE  Load(vm.mem, h, NoHost)[k] = IF k \in {h}
                  THEN [vms |-> 1, mem |-> vm.mem] ELSE [vms |-> 0, mem |-> 0]
    <2>1. CASE k = h
      BY <1>1, <1>3, <2>1 DEF Load, Times
    <2>2. CASE k # h
      BY <1>1, <1>3, <2>2 DEF Load, Times
    <2> QED BY <2>1, <2>2
  <1> QED BY <1>2, <1>3 DEF Counted

LEMMA PlainCapacity ==
  ASSUME TypeOK, HistoryInv, PlainInv, NeverRestarted
  PROVE  CapacityIsExact /\ RunsWhereRecorded
  <1> SUFFICES ASSUME Quiet PROVE CapacityIsExact /\ RunsWhereRecorded
    BY DEF CapacityIsExact, RunsWhereRecorded
  <1>0. vm.mem \in Int
    BY DEF TypeOK, VmObject
  <1>1. Resting("nowhere") \/ Steady("nowhere")
    BY QuietStage DEF Lost
  <1>2. CASE Resting("nowhere")
    BY <1>0, <1>2, CountedLoad DEF Resting, CapacityIsExact, RunsWhereRecorded
  <1>3. CASE Steady("nowhere")
    <2>1. Here \in Hosts
      BY <1>3, ActiveHost DEF Steady, Running, Is
    <2> QED BY <1>0, <1>3, <2>1, CountedLoad
            DEF Steady, CapacityIsExact, RunsWhereRecorded, Running, Is, Here,
                RunsAt, NeverDied
  <1> QED BY <1>1, <1>2, <1>3

LEMMA PlainDomain ==
  ASSUME TypeOK, PlainInv
  PROVE  domain = {} \/ \E h \in Hosts : domain = {h}
  <1>1. PICK w, e : At(w, e) /\ Stage(w, e)
    BY DEF PlainInv
  <1>2. ASSUME NEW h, RunsAt(h) PROVE domain = {} \/ domain = {h}
    BY <1>2 DEF RunsAt
  <1>3. \E h : domain = {} \/ domain = {h}
    <2>1. CASE Operating(w, e)
      BY <1>2, <2>1 DEF Operating, Pending, Performed, Off
    <2>2. CASE Steady(w) \/ AskedToMove(w, e)
      BY <1>2, <2>2 DEF Steady, AskedToMove
    <2>3. CASE Lost(w)
      BY <2>3 DEF Lost
    <2> QED BY <1>1, <2>1, <2>2, <2>3
            DEF Stage, Resting, Starting, Transferring, Ending, Off
  <1> QED BY <1>3 DEF TypeOK

LEMMA PlainSingle ==
  ASSUME TypeOK, PlainInv
  PROVE  SingleDomain
  <1>1. CASE domain = {}
    BY <1>1, FS_EmptySet DEF SingleDomain
  <1>2. ASSUME NEW h, domain = {h} PROVE SingleDomain
    BY <1>2, FS_Singleton DEF SingleDomain
  <1> QED BY <1>1, <1>2, PlainDomain

LEMMA PlainBoot ==
  ASSUME TypeOK, PlainInv
  PROVE  BootAfterTransfer
  <1>1. PICK w, e : At(w, e) /\ Stage(w, e)
    BY DEF PlainInv
  <1>2. CASE w = "script"
    BY <1>1, <1>2 DEF At, None, PassingOps, Passing, BootAfterTransfer
  <1>3. CASE w # "script"
    BY <1>1, <1>3 DEF At, BootAfterTransfer
  <1> QED BY <1>2, <1>3

\* For plain users no handler leaves the VM locked, none reads a record that
\* the VM does not have, and no state is left that no event will end.
THEOREM PlainProgress ==
  ASSUME PlainUsers
  PROVE  Spec => [](NotBlocked /\ NoNullRecord /\ NotStuck)
  <1>1. PlainInv => NotBlocked /\ NoNullRecord
    BY DEF PlainInv, Healthy, NotBlocked, NoNullRecord
  <1>2. PlainInv => NotStuck
    BY QuietStage DEF NotStuck, Resting, Steady, Lost, Running, Is
  <1>3. Spec => []PlainInv
    BY PlainLife
  <1> QED BY <1>1, <1>2, <1>3, PTL

\* For plain users the VM is on one host at a time, and it is not started
\* while its images are on their way: also after the daemon was started again.
THEOREM PlainSafety ==
  ASSUME PlainUsers
  PROVE  Spec => [](SingleDomain /\ BootAfterTransfer)
  <1>1. TypeOK /\ PlainInv => SingleDomain /\ BootAfterTransfer
    BY PlainSingle, PlainBoot
  <1>2. Spec => []PlainInv
    BY PlainLife
  <1>3. Spec => []TypeOK
    BY TypeCorrect
  <1> QED BY <1>1, <1>2, <1>3, PTL

\* For plain users, and a daemon that was not started again, the shares of the
\* hosts are exact and the VM is where its record says, once all is quiet.
THEOREM PlainAccounting ==
  ASSUME PlainUsers
  PROVE  Spec => [](NeverRestarted => CapacityIsExact /\ RunsWhereRecorded)
  <1>1. TypeOK /\ HistoryInv /\ PlainInv
          => (NeverRestarted => CapacityIsExact /\ RunsWhereRecorded)
    BY PlainCapacity
  <1>2. Spec => []PlainInv
    BY PlainLife
  <1>3. Spec => []TypeOK
    BY TypeCorrect
  <1>4. Spec => []HistoryInv
    BY HistoryCorrect
  <1> QED BY <1>1, <1>2, <1>3, <1>4, PTL

-----------------------------------------------------------------------------
(* A VM that is DONE.                                                       *)

\* Nothing but a request that comes too late is left for the LCM.
LEMMA DoneLcm ==
  ASSUME TypeOK, PlainInv, vm.state # "ACTIVE", LifeCycleManager
  PROVE  vm' = vm
  <1>1. ASSUME NEW x, LcmPop(x)
        PROVE  x \in {"SUSPEND", "STOP", "SHUTDOWN", "CANCEL", "REBOOT"}
    BY <1>1, LcmTakes, StageLcm DEF Waiting, Asks
  <1>2. CASE suspend_action \/ stop_action \/ shutdown_action \/ cancel_action
             \/ reboot_action
    BY <1>2 DEF suspend_action, stop_action, shutdown_action, cancel_action,
                reboot_action, FromRunning, Running, Is, Refused, Out
  <1>3. CASE ~\/ suspend_action \/ stop_action \/ shutdown_action
              \/ cancel_action \/ reboot_action
    <2>1. CASE \/ deploy_action \/ restore_action \/ migrate_action
               \/ live_migrate_action \/ save_success_action
               \/ save_failure_action \/ deploy_success_action
               \/ deploy_failure_action
      BY <1>1, <2>1
      DEF deploy_action, restore_action, migrate_action, live_migrate_action,
          save_success_action, save_failure_action, deploy_success_action,
          deploy_failure_action, MoveFromRunning
    <2>2. CASE \/ off_action \/ backupdisk_action \/ backup_action
               \/ recover_action \/ on_action \/ restart_action \/ delete_action
               \/ clean_action \/ off_success_action \/ xmlist_success_action
               \/ xmlist_failure_action \/ prolog_recover_decompress_action
               \/ monitor_failure_action \/ monitor_suspend_action
               \/ monitor_done_action
      BY <1>1, <2>2
      DEF off_action, backupdisk_action, backup_action, recover_action, on_action,
          restart_action, delete_action, clean_action, off_success_action,
          xmlist_success_action, xmlist_failure_action,
          prolog_recover_decompress_action, monitor_failure_action,
          monitor_suspend_action, monitor_done_action, FromRunning, GiveUp
    <2>3. CASE \/ shutdown_success_action \/ cancel_success_action
               \/ shutdown_failure_action \/ cancel_failure_action
               \/ prolog_success_action \/ prolog_failure_action
               \/ epilog_failure_action \/ epilog_success_action
      BY <1>1, <2>3
      DEF shutdown_success_action, cancel_success_action,
          shutdown_failure_action, cancel_failure_action, prolog_success_action,
          prolog_failure_action, epilog_failure_action, epilog_success_action
    <2> QED BY <1>3, <2>1, <2>2, <2>3 DEF LifeCycleManager
  <1> QED BY <1>2, <1>3

LEMMA DoneRequests ==
  ASSUME TypeOK, PlainUsers, vm.state = "DONE", Requests
  PROVE  vm' = vm
  <1>1. CASE recover
    <2>1. "recover" \in PlainCommands
      BY <1>1, RequestKeeps DEF recover
    <2> QED BY <2>1 DEF PlainCommands, Movers, Askers
  <1>2. CASE ~recover
    BY <1>2
    DEF Requests, deploy, migrate, live_migrate, CanMigrate, backup, backupdisk,
        shutdown, stop, suspend, reboot, restart, hold, release, resume, cancel,
        off, on, Later, RequestTriggers, finalize, resubmit, change, Running, Is
  <1> QED BY <1>1, <1>2

LEMMA DoneStep ==
  ASSUME TypeOK, PlainUsers, PlainInv, [Next]_vars, vm.state = "DONE"
  PROVE  vm'.state = "DONE"
  <1>0. vm \in VmObject
    BY DEF TypeOK
  <1>1. PICK w, e : At(w, e) /\ Stage(w, e)
    BY DEF PlainInv
  <1>2. dmQ = <<>> /\ tmQ = <<>>
    BY <1>1, RestingStage DEF At
  <1>3. CASE VirtualMachineManager
    <2>1. ASSUME NEW v, NEW x, NEW op, NEW a, NEW b, NEW ev,
                 Operate(x, op, a, b, v, ev)
          PROVE  vm' = vm \/ vm' = v
      BY <2>1 DEF Operate, SendOp, GiveUpOp
    <2>2. \/ vm' = vm
          \/ vm' = [vm EXCEPT !.bk = Mark(@, "FAIL")]
          \/ vm' = [vm EXCEPT !.rs = Mark(@, "FAIL")]
          \/ vm' = [vm EXCEPT !.lcm = "RUNNING", !.dk = Mark(@, "FAIL")]
      <3>1. CASE timer_action
        BY <3>1 DEF timer_action, SendOp
      <3>2. CASE driver_cancel_action
        BY <3>2 DEF driver_cancel_action
      <3>3. CASE VmmHandler /\ ~driver_cancel_action
        BY <2>1, <3>3
        DEF VmmHandler, vmm_deploy_action, vmm_restore_action,
            vmm_shutdown_action, vmm_cancel_action, vmm_off_action,
            vmm_reboot_action, poll_action, vmm_backup_action,
            vmm_recover_action, vmm_backupdisk_action, vmm_save_action,
            vmm_migrate_action, cancel_previous_action, AtHost
      <3> QED BY <1>3, <3>1, <3>2, <3>3 DEF VirtualMachineManager
    <2> QED BY <1>0, <2>2 DEF VmObject
  <1>4. CASE DispatchManager
    BY <1>2, <1>4 DEF DispatchManager, suspend_success_action,
                      stop_success_action, done_action, failed_action,
                      resubmit_action, DmPop
  <1>5. CASE TransferManager
    BY <1>2, <1>5
    DEF TransferManager, prolog_action, prolog_resume_action,
        prolog_migr_action, epilog_action, epilog_stop_action,
        prolog_backupdisk_action, prolog_backup_action, prolog_recover_action,
        epilog_decompress_action, epilog_delete_action, prolog_on_action,
        delete_recover_fail_action, recover_decompress_fail_action,
        delete_backup_fail_action, epilog_deletebak_action,
        epilog_deletecps_action, epilog_delete_previous_action,
        tm_driver_cancel_action, Transfer, TransferTo, TransferWith, TmPop
  <1>6. CASE VmmProtocol
    <2>1. vm' = vm \/ vm' = [vm EXCEPT !.lcm = "RUNNING"]
      BY <1>6 DEF VmmProtocol
    <2> QED BY <1>0, <2>1 DEF VmObject
  <1>7. CASE Evict \/ Restart
    BY <1>7, ReadAgainPlain DEF Evict, Restart
  <1>8. CASE Hypervisor \/ TmProtocol \/ DomainDies \/ UNCHANGED vars
    BY <1>8 DEF Hypervisor, TmProtocol, DomainDies, vars
  <1> QED BY <1>3, <1>4, <1>5, <1>6, <1>7, <1>8, DoneLcm, DoneRequests DEF Next

\* For plain users a VM that is DONE stays so.
THEOREM PlainDone ==
  ASSUME PlainUsers
  PROVE  Spec => DoneIsFinal
  <1>1. TypeOK /\ PlainInv /\ [Next]_vars
          => [vm.state = "DONE" => vm'.state = "DONE"]_vars
    BY DoneStep
  <1>2. Spec => []PlainInv
    BY PlainLife
  <1>3. Spec => []TypeOK
    BY TypeCorrect
  <1> QED BY <1>1, <1>2, <1>3, PTL DEF Spec, DoneIsFinal

-----------------------------------------------------------------------------
(* The promise to the hosts.                                                *)

\* A host gives the VM back, and the VM does not run there on that account.
GivesBack(h) ==
  /\ charge' = del_capacity(charge, h)
  /\ charge[h].vms > 0
  /\ h \in domain => charge[h].vms > 1

TakesOrGivesBack ==
  \/ charge' = charge
  \/ \E h \in Hosts : charge' = add_capacity(charge, h) \/ GivesBack(h)

LEMMA LoadCounts ==
  ASSUME vm.mem \in Int, NEW h \in Hosts, NEW a \in Hosts \cup {NoHost},
         charge = Load(vm.mem, h, a) \/ charge = Load(vm.mem, a, h)
  PROVE  charge[h].vms > 0 /\ (a = h => charge[h].vms > 1)
  BY DEF Load, Times

LEMMA GivesOne ==
  ASSUME vm.mem \in Int, NEW h \in Hosts, NEW a \in Hosts \cup {NoHost},
         charge = Load(vm.mem, h, a) \/ charge = Load(vm.mem, a, h),
         RunsAt(a) \/ Off, charge' = del_capacity(charge, h)
  PROVE  TakesOrGivesBack
  <1>1. GivesBack(h)
    BY LoadCounts DEF GivesBack, RunsAt, Off
  <1> QED BY <1>1 DEF TakesOrGivesBack

LEMMA FailureGives ==
  ASSUME TypeOK, HistoryInv, vm.state = "ACTIVE", Off, failure_action,
         charge = Load(vm.mem, Here, NoHost)
  PROVE  TakesOrGivesBack
  <1>1. Here \in Hosts /\ vm.mem \in Int
    BY ActiveHost DEF TypeOK, VmObject
  <1>2. charge' = charge \/ charge' = del_capacity(charge, Here)
    BY DEF failure_action, Out, Crash, Here
  <1> QED BY <1>1, <1>2, GivesOne DEF TakesOrGivesBack

\* The handlers that end an operation or a transfer.
LEMMA EndGives ==
  ASSUME NEW x, LcmServes(x),
         \/ x = "SAVE_SUCCESS" /\ save_success_action
         \/ x = "SAVE_FAILURE" /\ save_failure_action
         \/ x = "DEPLOY_SUCCESS" /\ deploy_success_action
         \/ x = "DEPLOY_FAILURE" /\ deploy_failure_action
         \/ x = "PROLOG_FAILURE" /\ prolog_failure_action
         \/ x = "EPILOG_FAILURE" /\ epilog_failure_action
         \/ x = "EPILOG_SUCCESS" /\ epilog_success_action
  PROVE  TakesOrGivesBack
  <1>0. /\ LcmFinds(x) /\ TypeOK /\ HistoryInv /\ vm.mem \in Int
        /\ ~Starting("lcm", x) /\ ~AskedToMove("lcm", x)
    BY LcmServing DEF LcmServes, Starting, AskedToMove
  <1>1. vm.state = "ACTIVE"
    BY <1>0 DEF LcmFinds, OperationOver, Transferring
  <1>2. Here \in Hosts /\ (Leaving => Source \in Hosts)
    BY <1>0, <1>1, ActiveHost
  <1>3. CASE Transferring("lcm", x)
    <2>1. charge = Load(vm.mem, Here, NoHost) /\ Off
      BY <1>3 DEF Transferring
    <2>2. CASE failure_action
      BY <1>0, <1>1, <2>1, <2>2, FailureGives
    <2>3. CASE ~failure_action
      <3>1. epilog_success_action /\ vm.lcm \in Epilogs
        BY <1>3, <2>3 DEF Transferring, Prologs, prolog_failure_action,
                          epilog_failure_action
      <3>2. charge' = del_capacity(charge, Here)
        BY <3>1 DEF epilog_success_action, Epilogs, Out, Here
      <3> QED BY <1>0, <1>2, <2>1, <3>2, GivesOne
    <2> QED BY <2>2, <2>3
  <1>4. CASE ~Transferring("lcm", x)
    <2>1. /\ charge = Load(vm.mem, Here, IF Leaving THEN Source ELSE NoHost)
          /\ \/ x = "SAVE_SUCCESS" /\ vm.lcm \in Saves /\ Off
             \/ x = "SAVE_FAILURE" /\ vm.lcm \in Saves /\ RunsAt(OpHost)
             \/ x = "DEPLOY_SUCCESS" /\ vm.lcm \in {"BOOT", "MIGRATE"} /\ RunsAt(Here)
             \/ x = "DEPLOY_FAILURE" /\ vm.lcm = "BOOT" /\ Off
             \/ x = "DEPLOY_FAILURE" /\ vm.lcm = "MIGRATE" /\ RunsAt(Source)
      BY <1>0, <1>4 DEF LcmFinds, OperationOver
    <2>2. CASE Leaving
      <3>1. \/ charge' = charge
            \/ charge' = del_capacity(charge, Source) /\ (RunsAt(Here) \/ Off)
            \/ charge' = del_capacity(charge, Here) /\ (RunsAt(Source) \/ Off)
        <4>1. CASE x = "SAVE_SUCCESS"
          BY <2>1, <2>2, <4>1 DEF Leaving, Saves, Source, Out, save_success_action
        <4>2. CASE x = "SAVE_FAILURE"
          BY <2>1, <2>2, <4>2 DEF Leaving, Saves, OpHost, Here, Out,
                                  BackToPrevious, save_failure_action
        <4>3. CASE x = "DEPLOY_SUCCESS"
          BY <2>1, <2>2, <4>3 DEF Leaving, Source, Out, deploy_success_action
        <4>4. CASE x = "DEPLOY_FAILURE"
          BY <2>1, <2>2, <4>4 DEF Leaving, Here, Out, BackToPrevious,
                                  deploy_failure_action
        <4> QED BY <2>1, <4>1, <4>2, <4>3, <4>4
      <3> QED BY <1>0, <1>2, <2>1, <2>2, <3>1, GivesOne DEF TakesOrGivesBack
    <2>3. CASE ~Leaving
      <3>1. charge = Load(vm.mem, Here, NoHost) /\ vm.lcm # "MIGRATE"
            /\ vm.lcm # "SAVE_MIGRATE"
        BY <2>1, <2>3 DEF Leaving
      <3>2. CASE x = "DEPLOY_FAILURE"
        BY <1>0, <1>1, <2>1, <3>1, <3>2, FailureGives DEF deploy_failure_action
      <3>3. CASE x # "DEPLOY_FAILURE"
        <4>1. \/ charge' = charge
              \/ charge' = del_capacity(charge, Here) /\ Off
          BY <2>1, <3>1, <3>3 DEF Here, Out, Saves, save_success_action,
                                  save_failure_action, deploy_success_action
        <4> QED BY <1>0, <1>2, <3>1, <4>1, GivesOne DEF TakesOrGivesBack
      <3> QED BY <3>2, <3>3
    <2> QED BY <2>2, <2>3
  <1> QED BY <1>3, <1>4

LEMMA LcmGives ==
  ASSUME TypeOK, HistoryInv, PlainInv, LifeCycleManager
  PROVE  TakesOrGivesBack
  <1>0. UNCHANGED <<rm, drivers, budget>>
    BY DEF LifeCycleManager
  <1>1. ASSUME NEW x, x \notin {"SUSPEND", "STOP", "SHUTDOWN", "CANCEL", "REBOOT"},
               LcmPop(x)
        PROVE  LcmServes(x) /\ LcmFinds(x)
    <2>1. LcmServes(x)
      BY <1>0, <1>1 DEF LcmServes, Waiting, Asks
    <2> QED BY <2>1, LcmServing
  <1>2. CASE \/ suspend_action \/ stop_action \/ shutdown_action \/ cancel_action
             \/ off_action \/ reboot_action \/ backupdisk_action \/ backup_action
             \/ recover_action \/ on_action \/ restart_action
             \/ shutdown_success_action \/ shutdown_failure_action
             \/ cancel_success_action \/ cancel_failure_action
             \/ off_success_action \/ xmlist_success_action
             \/ xmlist_failure_action \/ prolog_recover_decompress_action
             \/ monitor_done_action
    <2>1. charge' = charge
      BY <1>2
      DEF suspend_action, stop_action, shutdown_action, cancel_action, off_action,
          reboot_action, backupdisk_action, backup_action, recover_action,
          on_action, restart_action, shutdown_success_action,
          shutdown_failure_action, cancel_success_action, cancel_failure_action,
          off_success_action, xmlist_success_action, xmlist_failure_action,
          prolog_recover_decompress_action, monitor_done_action, FromRunning,
          Refused, Out
    <2> QED BY <2>1 DEF TakesOrGivesBack
  <1>3. CASE prolog_success_action
    <2>1. charge' = charge
      BY <1>3 DEF prolog_success_action, Refused, Out, Crash
    <2> QED BY <2>1 DEF TakesOrGivesBack
  <1>4. CASE deploy_action \/ restore_action \/ migrate_action
             \/ live_migrate_action
    <2>1. \/ charge' = charge
          \/ vm.state = "ACTIVE" /\ charge' = add_capacity(charge, Here)
      BY <1>4 DEF deploy_action, restore_action, migrate_action,
                  live_migrate_action, MoveFromRunning, Running, Is, Refused,
                  Out, Here
    <2> QED BY <2>1, ActiveHost DEF TakesOrGivesBack
  <1>5. CASE \/ save_success_action \/ save_failure_action
             \/ deploy_success_action \/ deploy_failure_action
             \/ prolog_failure_action \/ epilog_failure_action
             \/ epilog_success_action
    BY <1>1, <1>5, EndGives
    DEF save_success_action, save_failure_action, deploy_success_action,
        deploy_failure_action, prolog_failure_action, epilog_failure_action,
        epilog_success_action
  <1>6. CASE delete_action \/ clean_action \/ monitor_failure_action
             \/ monitor_suspend_action
    <2>1. PICK x \in {"DELETE", "CLEAN", "MONITOR_FAILURE", "MONITOR_SUSPEND"} :
             LcmPop(x)
      BY <1>6 DEF delete_action, clean_action, monitor_failure_action,
                  monitor_suspend_action, GiveUp
    <2>2. LcmFinds(x)
      BY <1>1, <2>1
    <2> QED BY <2>1, <2>2 DEF LcmFinds, Starting, AskedToMove, Transferring
  <1> QED BY <1>2, <1>3, <1>4, <1>5, <1>6 DEF LifeCycleManager

\* The shares as PlacementService sees them.
Shares == [h \in Hosts |-> charge[h].vms]

LEMMA SharesKept ==
  ASSUME charge \in ShareTable, TakesOrGivesBack, domain' = domain
  PROVE  [Placement!PlacementNext]_(Placement!pvars)
  <1>1. CASE charge' = charge
    BY <1>1 DEF Placement!pvars
  <1>2. ASSUME NEW h \in Hosts, charge' = add_capacity(charge, h)
        PROVE  Placement!Take(h)
    <2>1. ASSUME NEW k \in Hosts
          PROVE  charge'[k].vms = IF k = h THEN charge[k].vms + 1 ELSE charge[k].vms
      BY <1>2, <2>1 DEF add_capacity, ShareTable
    <2>2. Shares' = [Shares EXCEPT ![h] = Shares[h] + 1]
      BY <1>2, <2>1 DEF Shares
    <2> QED BY <2>2 DEF Placement!Take, Shares
  <1>3. ASSUME NEW h \in Hosts, GivesBack(h)
        PROVE  Placement!GiveBack(h)
    <2>1. ASSUME NEW k \in Hosts
          PROVE  charge'[k].vms = IF k = h THEN charge[k].vms - 1 ELSE charge[k].vms
      BY <1>3, <2>1 DEF GivesBack, del_capacity, ShareTable
    <2>2. Shares' = [Shares EXCEPT ![h] = Shares[h] - 1]
      BY <1>3, <2>1 DEF Shares
    <2>3. Shares[h] > 0 /\ (h \in domain => Shares[h] > 1)
      BY <1>3 DEF Shares, GivesBack
    <2> QED BY <2>2, <2>3 DEF Placement!GiveBack, Shares
  <1> QED BY <1>1, <1>2, <1>3 DEF TakesOrGivesBack, Placement!PlacementNext

\* The hypervisor performs an operation.
LEMMA HypervisorKeeps ==
  ASSUME TypeOK, HistoryInv, PlainInv, Hypervisor
  PROVE  [Placement!PlacementNext]_(Placement!pvars)
  <1>0. UNCHANGED <<vm, charge, queues, rm, tmOps, daemon, budget>>
    BY DEF Hypervisor
  <1>1. CASE domain' = domain
    BY <1>0, <1>1 DEF Placement!pvars
  <1>2. CASE domain' # domain
    <2>1. PICK i \in 1 .. Len(vmmOps) :
             /\ vmmOps[i].res = "none" /\ CanSucceed(vmmOps[i])
             /\ domain' = DomainAfter(vmmOps[i])
      BY <1>2 DEF Hypervisor
    <2>2. PICK w, e : At(w, e) /\ Stage(w, e)
      BY DEF PlainInv
    <2>3. vmmOps[i] \notin PassingOps
      BY <1>2, <2>1 DEF PassingOps, Passing, DomainAfter
    <2>4. Operating("op", e) /\ e = vmmOps[i]
      BY <2>2, <2>3, OpWork
    <2>5. PICK op \in OpName :
             /\ Serves(vm.lcm, op)
             /\ Pending("op", e, op) \/ Performed("op", e, op)
      BY <2>4 DEF Operating
    <2>6. Pending("op", e, op) /\ e.op = op /\ e.at = OpHost /\ e.to = Here
      BY <2>1, <2>4, <2>5 DEF Pending, Performed, Order
    <2>7. Here \in Hosts /\ (Leaving => Source \in Hosts) /\ vm.mem \in Int
      BY <2>4, ActiveHost DEF Operating, TypeOK, VmObject
    <2>8. Shares[Here] > 0
      BY <2>4, <2>7, LoadCounts DEF Operating, Shares
    <2>9. CASE op \in {"DEPLOY", "RESTORE"}
      <3>1. OpHost = Here
        BY <2>5, <2>9 DEF Serves, OpHost, Leaving
      <3>2. domain = {} /\ domain' = {Here}
        BY <2>1, <2>4, <2>6, <2>9, <3>1 DEF Pending, Off, DomainAfter
      <3>3. Placement!Start(Here)
        BY <1>0, <2>8, <3>2 DEF Placement!Start, Shares
      <3> QED BY <2>7, <3>3 DEF Placement!PlacementNext
    <2>10. CASE op = "MIGRATE"
      <3>1. domain # {} /\ domain' = {Here}
        BY <2>1, <2>4, <2>6, <2>10 DEF Pending, RunsAt, CanSucceed, DomainAfter
      <3>2. Placement!Move(Here)
        BY <1>0, <2>8, <3>1 DEF Placement!Move, Shares
      <3> QED BY <2>7, <3>2 DEF Placement!PlacementNext
    <2>11. CASE op \notin {"DEPLOY", "RESTORE", "MIGRATE"}
      <3>1. op \in {"SAVE", "SHUTDOWN", "CANCEL"}
        BY <2>5, <2>11 DEF Serves
      <3>2. domain # {} /\ domain' = {}
        BY <2>1, <2>4, <2>6, <3>1 DEF Pending, RunsAt, CanSucceed, DomainAfter
      <3>3. Placement!Stop
        BY <1>0, <3>2 DEF Placement!Stop
      <3> QED BY <3>3 DEF Placement!PlacementNext
    <2> QED BY <2>9, <2>10, <2>11
  <1> QED BY <1>1, <1>2

LEMMA PlacementStep ==
  ASSUME TypeOK, HistoryInv, PlainInv, [Next]_vars
  PROVE  [Placement!PlacementNext]_(Placement!pvars)
  <1>1. CASE LifeCycleManager
    BY <1>1, LcmGives, SharesKept DEF LifeCycleManager, drivers, TypeOK
  <1>2. CASE Hypervisor
    BY <1>2, HypervisorKeeps
  <1>3. CASE DomainDies
    <2>1. charge' = charge /\ domain # {} /\ domain' = {}
      BY <1>3, PlainDomain DEF DomainDies
    <2>2. Placement!Stop
      BY <2>1 DEF Placement!Stop
    <2> QED BY <2>2 DEF Placement!PlacementNext
  <1>4. CASE UNCHANGED <<charge, domain>>
    BY <1>4 DEF Placement!pvars
  <1>5. CASE Requests
    <2>1. UNCHANGED <<charge, domain>>
      BY <1>5
      DEF Requests, deploy, migrate, live_migrate, backup, backupdisk, recover,
          shutdown, stop, suspend, reboot, restart, hold, release, resume,
          cancel, off, on, finalize, resubmit, change, RequestTriggers, Later,
          Do, drivers
    <2> QED BY <1>4, <2>1
  <1>6. CASE \/ DispatchManager \/ VirtualMachineManager \/ TransferManager
             \/ VmmProtocol \/ TmProtocol \/ Evict \/ Restart \/ UNCHANGED vars
    <2>1. UNCHANGED <<charge, domain>>
      BY <1>6 DEF DispatchManager, VirtualMachineManager, TransferManager,
                  VmmProtocol, TmProtocol, Evict, Restart, vars, drivers
    <2> QED BY <1>4, <2>1
  <1> QED BY <1>1, <1>2, <1>3, <1>5, <1>6 DEF Next

\* For plain users the life cycle keeps its promise to the hosts, also after
\* the daemon was started again: capacity is taken before the domain starts
\* and given back after it is gone, and the domain is on one host at a time.
THEOREM PlainPlacement ==
  ASSUME PlainUsers
  PROVE  Spec => KeepsPlacement
  <1>1. Init => Placement!PlacementInit
    BY DEF Init, Placement!PlacementInit
  <1>2. TypeOK /\ HistoryInv /\ PlainInv /\ [Next]_vars
          => [Placement!PlacementNext]_(Placement!pvars)
    BY PlacementStep
  <1>3. Spec => []PlainInv
    BY PlainLife
  <1>4. Spec => []TypeOK
    BY TypeCorrect
  <1>5. Spec => []HistoryInv
    BY HistoryCorrect
  <1> QED BY <1>1, <1>2, <1>3, <1>4, <1>5, PTL
          DEF Spec, KeepsPlacement, Placement!PlacementSpec
=============================================================================
