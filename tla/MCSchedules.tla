---------------------------- MODULE MCSchedules ----------------------------
(***************************************************************************)
(* Two schedules of Raft side by side: an idle cluster from its start,     *)
(* whose nodes campaign and send heartbeats and which nobody writes to,    *)
(* and the writes of QuietSpec, which no heartbeat helps along.            *)
(***************************************************************************)
EXTENDS MCRaft

VARIABLE schedule

SchedulesInit ==
    \/ schedule = "idle" /\ Init
    \/ schedule = "quiet" /\ LedInit

Idle == \A i \in Server : log'[i] = <<>>

SchedulesNext ==
    /\ UNCHANGED schedule
    /\ Next
    /\ IF schedule = "idle" THEN Idle ELSE Quiet

SchedulesSpec == SchedulesInit /\ [][SchedulesNext]_<<vars, schedule>>
=============================================================================
