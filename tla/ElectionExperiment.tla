------------------------- MODULE ElectionExperiment -------------------------
(***************************************************************************)
(* infrastructure/experiments/leader_election/experiment.py.  A round      *)
(* finds the leader, writes keys, has AWS stop the leader's instance,      *)
(* waits for a new leader, looks for the keys there, writes more, has the  *)
(* instance started again and looks for those on it.  An instance gets     *)
(* another public address with every start, and the aws commands run       *)
(* without a look at their result.  The ten keys of a phase are one.       *)
(***************************************************************************)
EXTENDS Cluster

CONSTANTS
    ROUNDS,
    MaxWrites           \* bound: writes that reach a node

VARIABLES
    inst,               \* inst[n]: the state of n's instance
    ip,                 \* ip[n]: its address, counted up with every start
    NODES,              \* NODES[n]: the address the script has for n
    exp,                \* the script's position and local variables
    givenUp             \* history: nodes whose start was refused or whose new
                        \* address the script went on without

electionVars == <<inst, ip, NODES, exp, givenUp>>

At(pc, round) ==
    [pc |-> pc, round |-> round, leader |-> None, term |-> 0, rivals |-> {},
     new |-> None, newTerm |-> 0, key |-> 0, missing |-> FALSE]

ElectionInit ==
    /\ inst = [n \in Node |-> "running"]
    /\ ip = [n \in Node |-> 1]
    /\ NODES = ip
    /\ exp = At("check", 0)
    /\ givenUp = {}

NextRound == At(IF exp.round < ROUNDS THEN "find" ELSE "done", exp.round + 1)

\* A request to the address the script has finds n's process.
get_status(n) == n \in up /\ NODES[n] = ip[n]

IsLeader(n) == get_status(n) /\ n \in leaders

\* write_key waits longer than Replicate does, so the answer arrives if the
\* request does.
write_key(n, id, ok) ==
    \/ /\ get_status(n)
       /\ Cardinality({k \in Key : Holders(k) # {}}) < MaxWrites
       /\ handleWrite(n, [id |-> id, key |-> id, op |-> "upsert"],
                      IF ok THEN 200 ELSE 503)
    \/ ok = FALSE /\ UNCHANGED clusterVars

\* missing is what the loop over the keys makes of the answer; a request that
\* fails counts as a miss.
read_key(n, id, missing) ==
    IF id = 0 THEN missing = FALSE
    ELSE missing \/ (get_status(n) /\ handleGet(n, id) = id)

ScriptOnly == UNCHANGED <<clusterVars, inst, ip, NODES, givenUp>>

-----------------------------------------------------------------------------

\* The script ends if one of the nodes does not answer in time.
CheckNodes ==
    /\ exp.pc = "check"
    /\ \/ (\A n \in Node : get_status(n)) /\ exp' = NextRound
       \/ exp' = At("done", ROUNDS + 1)
    /\ ScriptOnly

\* The nodes are asked one after the other: leadership may move past the
\* script and no leader be found.
find_leader ==
    /\ exp.pc = "find"
    /\ \/ \E n \in Node :
            IsLeader(n) /\ exp' = [exp EXCEPT !.pc = "status", !.leader = n]
       \/ exp' = NextRound
    /\ ScriptOnly

\* The leader is asked once more: s['term'] ends the script if it does not
\* answer.
LeaderStatus ==
    /\ exp.pc = "status"
    /\ \/ /\ get_status(exp.leader)
          /\ exp' = [exp EXCEPT !.pc = "pre", !.term = currentTerm[exp.leader]]
       \/ exp' = At("done", ROUNDS + 1)
    /\ ScriptOnly

WritePre ==
    LET id == 2 * exp.round - 1
    IN  /\ exp.pc = "pre"
        /\ \E ok \in BOOLEAN :
             /\ write_key(exp.leader, id, ok)
             /\ exp' = [exp EXCEPT !.pc = "stop", !.key = IF ok THEN id ELSE 0]
        /\ UNCHANGED <<inst, ip, NODES, givenUp>>

stop_instance ==
    /\ exp.pc = "stop"
    /\ inst' = IF inst[exp.leader] = "running"
                 THEN [inst EXCEPT ![exp.leader] = "stopping"] ELSE inst
    /\ exp' = [exp EXCEPT !.pc = "wait", !.rivals = leaders \ {exp.leader}]
    /\ UNCHANGED <<clusterVars, ip, NODES, givenUp>>

\* Mutant: the stopped leader is not passed over.
wait_for_any_leader ==
    /\ exp.pc = "wait"
    /\ \E n \in Node :
         /\ IsLeader(n)
         /\ exp' = [exp EXCEPT !.pc = "verify", !.new = n, !.newTerm = currentTerm[n]]
    /\ ScriptOnly

\* The stopped leader's address is passed over; terms are not compared.
wait_for_new_leader ==
    /\ exp.pc = "wait"
    /\ \E n \in Node \ {exp.leader} :
         /\ IsLeader(n)
         /\ exp' = [exp EXCEPT !.pc = "verify", !.new = n, !.newTerm = currentTerm[n]]
    /\ ScriptOnly

\* start-instances is refused while the instance is still stopping.
start_instance(n) ==
    IF inst[n] = "stopped"
      THEN /\ inst' = [inst EXCEPT ![n] = "pending"]
           /\ ip' = [ip EXCEPT ![n] = @ + 1]
      ELSE UNCHANGED <<inst, ip>>

\* No leader within the timeout: the instance is started, and the round is
\* left without its new address.
WaitTimeout ==
    /\ exp.pc = "wait"
    /\ start_instance(exp.leader)
    /\ givenUp' = givenUp \union {exp.leader}
    /\ exp' = NextRound
    /\ UNCHANGED <<clusterVars, NODES>>

VerifyPre ==
    /\ exp.pc = "verify"
    /\ \E m \in BOOLEAN :
         /\ read_key(exp.new, exp.key, m)
         /\ exp' = [exp EXCEPT !.pc = "post", !.missing = m]
    /\ ScriptOnly

WritePost ==
    LET id == 2 * exp.round
    IN  /\ exp.pc = "post"
        /\ \E ok \in BOOLEAN :
             /\ write_key(exp.new, id, ok)
             /\ exp' = [At("start", exp.round) EXCEPT !.leader = exp.leader,
                                                  !.key = IF ok THEN id ELSE 0]
        /\ UNCHANGED <<inst, ip, NODES, givenUp>>

RestartCrashed ==
    /\ exp.pc = "start"
    /\ start_instance(exp.leader)
    /\ givenUp' = IF inst[exp.leader] = "stopped" THEN givenUp
                  ELSE givenUp \union {exp.leader}
    /\ exp' = [exp EXCEPT !.pc = "ip"]
    /\ UNCHANGED <<clusterVars, NODES>>

\* Mutant: the new address stays in a local variable.
get_public_ip_only ==
    /\ exp.pc = "ip"
    /\ inst[exp.leader] # "stopped"
    /\ exp' = [exp EXCEPT !.pc = "caught"]
    /\ ScriptOnly

\* Asked until there is an address: a stopping instance still has its old
\* one, a stopped one has none.
get_public_ip ==
    /\ exp.pc = "ip"
    /\ \/ /\ inst[exp.leader] # "stopped"
          /\ NODES' = [NODES EXCEPT ![exp.leader] = ip[exp.leader]]
          /\ exp' = [exp EXCEPT !.pc = "caught"]
          /\ UNCHANGED givenUp
       \/ /\ inst[exp.leader] # "running"
          /\ givenUp' = givenUp \union {exp.leader}
          /\ exp' = NextRound
          /\ UNCHANGED NODES
    /\ UNCHANGED <<clusterVars, inst, ip>>

\* Mutant: the key may come from another node.
VerifyPostAnywhere ==
    /\ exp.pc = "caught"
    /\ \E n \in Node, m \in BOOLEAN :
         /\ read_key(n, exp.key, m)
         /\ exp' = [exp EXCEPT !.pc = "sleep", !.missing = m]
    /\ ScriptOnly

\* When the node answers, or a minute later
VerifyPost ==
    /\ exp.pc = "caught"
    /\ \E m \in BOOLEAN :
         /\ read_key(exp.leader, exp.key, m)
         /\ exp' = [exp EXCEPT !.pc = "sleep", !.missing = m]
    /\ ScriptOnly

EndRound == exp.pc = "sleep" /\ exp' = NextRound /\ ScriptOnly

-----------------------------------------------------------------------------
(* AWS *)

InstanceStops(n) ==
    /\ inst[n] = "stopping"
    /\ inst' = [inst EXCEPT ![n] = "stopped"]
    /\ Stop(n)
    /\ UNCHANGED <<ip, NODES, exp, givenUp>>

InstanceBoots(n) ==
    /\ inst[n] = "pending"
    /\ inst' = [inst EXCEPT ![n] = "running"]
    /\ Start(n)
    /\ UNCHANGED <<ip, NODES, exp, givenUp>>

run_experiment ==
    \/ CheckNodes \/ find_leader \/ LeaderStatus \/ WritePre \/ stop_instance
    \/ wait_for_new_leader \/ WaitTimeout \/ VerifyPre \/ WritePost
    \/ RestartCrashed \/ get_public_ip \/ VerifyPost \/ EndRound

ElectionNext ==
    \/ run_experiment
    \/ \E n \in Node : InstanceStops(n) \/ InstanceBoots(n)

-----------------------------------------------------------------------------

(***************************************************************************)
(* The "new leader" whose election the script times has a later term than  *)
(* the leader it stopped, although the script does not compare terms.  The *)
(* exceptions are a node that led, or thought so, when the instance was    *)
(* stopped, and a term that a restarted node has voted in twice.           *)
(***************************************************************************)
NewTermHigher ==
    exp.newTerm > 0 =>
      \/ exp.newTerm > exp.term
      \/ exp.new \in exp.rivals
      \/ forgotten.term >= exp.newTerm

(***************************************************************************)
(* A key that the script counts as lost is in the log of the new leader,   *)
(* which has only not applied it yet, unless that node already claimed to  *)
(* lead when the instance was stopped or a restart took the key away.      *)
(***************************************************************************)
LossIsLag ==
    (exp.pc = "post" /\ exp.missing) =>
       \/ exp.new \in Holders(exp.key) \union exp.rivals
       \/ \E e \in committed : e.cmd.id = exp.key /\ ~Kept(e)

(***************************************************************************)
(* A full catch-up was brought by the log of the running process, as the   *)
(* script says, unless the node had the key before it stopped: its         *)
(* instance was told to stop and went on for a while.                      *)
(***************************************************************************)
CatchUpIsReplication ==
    (exp.pc = "sleep" /\ exp.key # 0 /\ ~exp.missing) =>
       exp.leader \in Holders(exp.key) \/ exp.key \in forgotten.writes

(***************************************************************************)
(* Every node but the one of the present round runs at the address the     *)
(* script has for it, unless a start was refused or a round ended early.   *)
(***************************************************************************)
OthersReachable ==
    exp.round > 0 => \A n \in Node \ {exp.leader} :
       get_status(n) \/ inst[n] = "pending" \/ n \in givenUp
=============================================================================
