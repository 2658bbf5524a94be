--------------------------- MODULE MCVmLifeCycle ---------------------------
(***************************************************************************)
(* The life cycle of a VM on small instances.                              *)
(***************************************************************************)
EXTENDS VmLifeCycle

Life(commands, reports, cmds) ==
    [commands |-> commands, reports |-> reports, errors |-> TRUE,
     garbage |-> {"OTHER"}, cmds |-> cmds, polls |-> 0, deaths |-> 0,
     restarts |-> 0]

\* The requests of plain users, without those that move the VM.
Basic == {"deploy", "hold", "release", "suspend", "resume", "stop", "shutdown",
          "cancel"}
Moves == {"deploy", "migrate", "live_migrate"}
BasicAndMoves == (Basic \ {"hold", "release"}) \cup Moves

BasicLife   == [Life(Basic, {"a"}, 4) EXCEPT !.polls = 2, !.deaths = 1]
WatchedLife == [Life(Basic \ {"resume"}, {"a", "d"}, 4)
                    EXCEPT !.polls = 2, !.deaths = 1]
MovingLife  == [Life(Moves, {"a"}, 4) EXCEPT !.polls = 1]
CrashedLife == [Life(BasicAndMoves, {"a", "d"}, 3)
                    EXCEPT !.polls = 1, !.restarts = 1]
OffLife     == [Life({"deploy", "off", "on", "reboot", "backupdisk"}, {}, 4)
                    EXCEPT !.errors = FALSE]
BackedLife  == [Life({"deploy", "backup", "backupdisk"}, {"a"}, 2)
                    EXCEPT !.garbage = LastState, !.polls = 1, !.deaths = 1]
AnyLife     == [Life(AllCommands, {}, 3) EXCEPT !.errors = FALSE]

\* The scenarios of the runs.
PlainLives  == [basic |-> BasicLife, watched |-> WatchedLife,
                moving |-> MovingLife]
CopiedLives == [moving |-> MovingLife, backed |-> BackedLife]
HardLives   == [basic |-> BasicLife, watched |-> WatchedLife,
                moving |-> MovingLife, crashed |-> CrashedLife, off |-> OffLife]
AnyLives    == [any |-> AnyLife]
=============================================================================
