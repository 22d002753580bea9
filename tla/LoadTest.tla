------------------------------ MODULE LoadTest ------------------------------
(***************************************************************************)
(* The locust users: ShardedUser (horizontal_scaling) writes to any of the *)
(* addresses of a shard, RaftUser (replication_overhead) to one host, both *)
(* note the keys they have written and read only those; the RaftUser of    *)
(* leader_election writes and reads without a note.  Users run as          *)
(* coroutines: between a request and its answer the others go on.          *)
(***************************************************************************)
EXTENDS Cluster, Functions

CONSTANTS
    Users,              \* the users that run together, by class
    Host,               \* the host of the users that have only one
    LoadKeys,           \* the keys to choose from
    MAX_TRACKED_KEYS

VARIABLES
    class,              \* class[u]: the class of user u, who writes once
    request,            \* request[u]: what user u waits for
    WRITTEN_KEYS

loadVars == <<class, request, WRITTEN_KEYS>>

LoadInit ==
    /\ class \in Users
    /\ request = [u \in DOMAIN class |-> [st |-> "wait", key |-> 0, code |-> 0]]
    /\ WRITTEN_KEYS = <<>>

Put(u, n) ==
    /\ request[u].st = "wait"
    /\ \E k \in LoadKeys, code \in {200, 503} :
         /\ handleWrite(n, [id |-> u, key |-> k, op |-> "upsert"], code)
         /\ request' =
              [request EXCEPT ![u] = [st |-> "sent", key |-> k, code |-> code]]
    /\ UNCHANGED <<class, WRITTEN_KEYS>>

ShardedWrite(u) == class[u] = "ShardedUser" /\ \E n \in Node : Put(u, n)

RaftUserWrite(u) == class[u] = "RaftUser" /\ Put(u, Host)

ElectionUserWrite(u) == class[u] = "ElectionUser" /\ Put(u, Host)

Track(key) ==
    IF Len(WRITTEN_KEYS) < MAX_TRACKED_KEYS
      THEN WRITTEN_KEYS' = Append(WRITTEN_KEYS, key)
      ELSE \E i \in 1..MAX_TRACKED_KEYS :
             WRITTEN_KEYS' = [WRITTEN_KEYS EXCEPT ![i] = key]

\* Mutant: the key is noted whatever the answer.
AnswerAny(u) ==
    /\ request[u].st = "sent"
    /\ request' = [request EXCEPT ![u].st = "done"]
    /\ IF class[u] # "ElectionUser"
         THEN Track(request[u].key) ELSE UNCHANGED WRITTEN_KEYS
    /\ UNCHANGED <<clusterVars, class>>

\* The answer arrives and, if it is 200, the key is noted.
Answer(u) ==
    /\ request[u].st = "sent"
    /\ request' = [request EXCEPT ![u].st = "done"]
    /\ IF class[u] # "ElectionUser" /\ request[u].code = 200
         THEN Track(request[u].key) ELSE UNCHANGED WRITTEN_KEYS
    /\ UNCHANGED <<clusterVars, class>>

\* A read goes to a key that was noted; TRUE if node n has it.
read(n, k) == k \in Range(WRITTEN_KEYS) => handleGet(n, k) # 0

LoadNext ==
    \E u \in DOMAIN class :
      ShardedWrite(u) \/ RaftUserWrite(u) \/ ElectionUserWrite(u) \/ Answer(u)

-----------------------------------------------------------------------------

(***************************************************************************)
(* "reads only query keys that exist": a noted key is found at every node  *)
(* that has applied what is committed.  A read that finds nothing came to  *)
(* a node that lags behind, whoever leads by then.                         *)
(***************************************************************************)
TrackedKeysExist ==
    \A k \in Range(WRITTEN_KEYS), n \in Node :
      read(n, k) \/ \E e \in committed : e.cmd.key = k /\ e.index > lastApplied[n]
=============================================================================
