-------------------------- MODULE CrashExperiment --------------------------
(***************************************************************************)
(* infrastructure/raft_leader_election_infra/experiment.py: the leader's   *)
(* service is stopped over ssh, the script waits for a new leader, and the *)
(* service is started again.  What ssh returns is not looked at.           *)
(***************************************************************************)
EXTENDS Cluster

CONSTANT CrashRounds

VARIABLE crash          \* the script's position, its locals and the failures

Top(pc) == [pc |-> pc, leader |-> None, new |-> None,
            round |-> crash.round + 1, sshFailed |-> crash.sshFailed]

CrashInit ==
    crash = [pc |-> "find", leader |-> None, new |-> None,
         round |-> 1, sshFailed |-> {}]

AfterRound == Top(IF crash.round < CrashRounds THEN "find" ELSE "done")

Leading(n) == n \in up \intersect leaders

-----------------------------------------------------------------------------

FindLeader ==
    /\ crash.pc = "find"
    /\ \/ \E n \in Node :
            Leading(n) /\ crash' = [crash EXCEPT !.pc = "status", !.leader = n]
       \/ crash' = AfterRound
    /\ UNCHANGED clusterVars

\* The leader is asked once more for its term; the script ends if it does not
\* answer in time.
LeaderTerm ==
    /\ crash.pc = "status"
    /\ crash' \in {[crash EXCEPT !.pc = "crash"],
                   [Top("done") EXCEPT !.round = CrashRounds + 1]}
    /\ UNCHANGED clusterVars

\* systemctl stop has returned, or ssh has failed.
crash_node ==
    /\ crash.pc = "crash"
    /\ Stop(crash.leader) \/ UNCHANGED clusterVars
    /\ crash' = [crash EXCEPT !.pc = "wait"]

\* Mutant: a round without a new leader is left like one without a leader.
WaitOrSkip ==
    /\ crash.pc = "wait"
    /\ \/ \E n \in Node \ {crash.leader} :
            Leading(n) /\ crash' = [crash EXCEPT !.pc = "restart", !.new = n]
       \/ crash' = AfterRound
    /\ UNCHANGED clusterVars

WaitForNewLeader ==
    /\ crash.pc = "wait"
    /\ \/ \E n \in Node \ {crash.leader} :
            Leading(n) /\ crash' = [crash EXCEPT !.pc = "restart", !.new = n]
       \/ crash' = [crash EXCEPT !.pc = "restart"]
    /\ UNCHANGED clusterVars

\* systemctl start does nothing to a service that runs.
restart_node ==
    /\ crash.pc = "restart"
    /\ \/ /\ IF crash.leader \in up THEN UNCHANGED clusterVars ELSE Start(crash.leader)
          /\ crash' = AfterRound
       \/ /\ crash' = [AfterRound EXCEPT !.sshFailed = @ \union {crash.leader}]
          /\ UNCHANGED clusterVars

CrashNext ==
    FindLeader \/ LeaderTerm \/ crash_node \/ WaitForNewLeader \/ restart_node

-----------------------------------------------------------------------------

(***************************************************************************)
(* Between rounds every node runs, unless ssh failed to start it: however  *)
(* a round ends, it starts the node that it stopped.                       *)
(***************************************************************************)
RoundsRestart ==
    (crash.pc = "find" /\ crash.round > 1) => Node \ up \subseteq crash.sshFailed
=============================================================================
