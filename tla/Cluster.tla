------------------------------ MODULE Cluster ------------------------------
(***************************************************************************)
(* The nodes of one shard as the programs that call them over HTTP meet    *)
(* them.  A round of RPCs is one step: a candidate and the majority that   *)
(* votes for it, a leader's exchange with one peer, a Replicate and the    *)
(* peers it reaches.  What happens in between is in module Raft, and so    *)
(* are the heartbeats that go out under a term or past a log check they    *)
(* should not: here Replicate and the handlers work together as they are   *)
(* meant to.  A write is known by its number.                              *)
(***************************************************************************)
EXTENDS RaftLog, FiniteSets, FiniteSetsExt

CONSTANTS
    Node, Key,
    None,               \* no node
    MaxTerm             \* bound: the highest term

ASSUME ClusterAssumption == IsFiniteSet(Node) /\ MaxTerm \in Nat

VARIABLES
    up,                 \* the nodes whose process runs
    currentTerm, log,
    leaders,            \* the nodes whose state is Leader
    committed,          \* the entries some leader has committed
    lastApplied,
    data,               \* data[i][k]: the write node i's store holds, 0 for none
    forgotten           \* history: what restarted nodes had in their logs, and
                        \* the highest of the terms they were in

raftVars == <<currentTerm, log, leaders, committed>>
clusterVars == <<up, raftVars, lastApplied, data, forgotten>>

Cmd == [id : Nat, key : Key, op : {"upsert", "delete"}]

Majority == Cardinality(Node) \div 2 + 1

Quorums == {Q \in SUBSET Node : Cardinality(Q) = Majority}

Holders(id) == {i \in Node : \E k \in DOMAIN log[i] : log[i][k].cmd.id = id}

ClusterInit ==
    /\ up = Node
    /\ currentTerm = [i \in Node |-> 0]
    /\ log = [i \in Node |-> <<>>]
    /\ leaders = {}
    /\ committed = {}
    /\ lastApplied = [i \in Node |-> 0]
    /\ data = [i \in Node |-> [k \in Key |-> 0]]
    /\ forgotten = [writes |-> {}, term |-> 0]

-----------------------------------------------------------------------------
(* raft *)

\* Mutant: the voters do not look at the term.
ElectAnyTerm(i, Q) ==
    /\ i \in Q \ leaders /\ Q \subseteq up
    /\ \A q \in Q : LogOK(log[q], LastTerm(log[i]), LastIndex(log[i]))
    /\ currentTerm[i] < MaxTerm
    /\ currentTerm' = [q \in Node |->
         IF q \in Q THEN currentTerm[i] + 1 ELSE currentTerm[q]]
    /\ leaders' = (leaders \ (Q \ {i})) \union {i}
    /\ UNCHANGED <<up, log, committed, lastApplied, data, forgotten>>

\* A campaign that wins the votes of Q, at one above the highest of their
\* terms: the campaigns lost before it have brought the candidate there.
Elect(i, Q) ==
    LET t == Max({currentTerm[q] : q \in Q}) + 1
    IN  /\ i \in Q \ leaders /\ Q \subseteq up
        /\ \A q \in Q : LogOK(log[q], LastTerm(log[i]), LastIndex(log[i]))
        /\ t <= MaxTerm
        /\ currentTerm' = [q \in Node |-> IF q \in Q THEN t ELSE currentTerm[q]]
        /\ leaders' = (leaders \ Q) \union {i}
        /\ UNCHANGED <<up, log, committed, lastApplied, data, forgotten>>

\* The entries of its own term that a majority has and has answered for in
\* that term: Replicate and advanceCommitIndex commit them, and with them
\* what is below.  An entry of this term that a node got from a later leader
\* is no answer.  (matchIndex also counts a peer that answered and has left
\* the term since; with three nodes one answer is enough, and the peer that
\* gives it is in the term.)
Committable(i, logs, terms) ==
    {logs[i][k] : k \in {n \in DOMAIN logs[i] :
        /\ logs[i][n].term = currentTerm[i]
        /\ Cardinality({q \in Node : /\ TermAt(logs[q], n) = currentTerm[i]
                                     /\ terms[q] = currentTerm[i]})
             >= Majority}}

\* Mutant: a peer takes the entries of a leader of an earlier term.
ReachableAny(i) == up \ {i}

\* The peers that do not reject leader i's term
Reachable(i) == {p \in up \ {i} : currentTerm[p] <= currentTerm[i]}

\* HandleAppendEntries at the peers in P, for all the entries of leader i
Deliver(i, P, entries) ==
    /\ i \in leaders /\ P \subseteq Reachable(i)
    /\ log' = [q \in Node |-> IF q = i THEN entries
                              ELSE IF q \in P THEN MergeEntries(log[q], entries)
                              ELSE log[q]]
    /\ currentTerm' = [q \in Node |-> IF q \in P THEN currentTerm[i] ELSE currentTerm[q]]
    /\ leaders' = leaders \ P
    /\ committed' = committed \union Committable(i, log', currentTerm')

Heartbeat(i, p) ==
    /\ Deliver(i, {p}, log[i])
    /\ UNCHANGED <<up, lastApplied, data, forgotten>>

\* A peer of a later term answers, and the leader gives up.
StepDown(i, p) ==
    /\ i \in leaders
    /\ p \in up /\ currentTerm[p] > currentTerm[i]
    /\ currentTerm' = [currentTerm EXCEPT ![i] = currentTerm[p]]
    /\ leaders' = leaders \ {i}
    /\ UNCHANGED <<up, log, committed, lastApplied, data, forgotten>>

\* Replicate, when its goroutines reach the peers in P before the timeout
Replicate(i, cmd, P) ==
    Deliver(i, P, Append(log[i], [index |-> Len(log[i]) + 1,
                                  term |-> currentTerm[i], cmd |-> cmd]))

-----------------------------------------------------------------------------
(* kv and rpc *)

\* Mutant: what is in the log is applied.
ApplyAny(i) ==
    /\ i \in up
    /\ lastApplied[i] < Len(log[i])
    /\ LET c == log[i][lastApplied[i] + 1].cmd
       IN  data' = [data EXCEPT ![i][c.key] = IF c.op = "delete" THEN 0 ELSE c.id]
    /\ lastApplied' = [lastApplied EXCEPT ![i] = @ + 1]
    /\ UNCHANGED <<up, raftVars, forgotten>>

\* RunApplyLoop takes the next command.  When the node hears of a commit is
\* left open: at any time after it.
Apply(i) ==
    /\ i \in up
    /\ \E e \in committed :
         e.index > lastApplied[i] /\ TermAt(log[i], e.index) = e.term
    /\ LET c == log[i][lastApplied[i] + 1].cmd
       IN  data' = [data EXCEPT ![i][c.key] = IF c.op = "delete" THEN 0 ELSE c.id]
    /\ lastApplied' = [lastApplied EXCEPT ![i] = @ + 1]
    /\ UNCHANGED <<up, raftVars, forgotten>>

\* Mutant: 200 once the entry is in the leader's log.
handleWriteEarly(i, cmd, code) ==
    /\ i \in up
    /\ \/ i \notin leaders /\ code = 503 /\ UNCHANGED raftVars
       \/ \E P \in SUBSET up : Replicate(i, cmd, P) /\ code = 200
    /\ UNCHANGED <<up, lastApplied, data, forgotten>>

\* handlePut and handleDelete: the status code is 200 (204 for a delete) if
\* a majority has the entry and 503 if not; the entry stays where it is.
handleWrite(i, cmd, code) ==
    /\ i \in up
    /\ \/ i \notin leaders /\ code = 503 /\ UNCHANGED raftVars
       \/ \E P \in SUBSET up :
            /\ code = IF Cardinality(P) + 1 >= Majority THEN 200 ELSE 503
            /\ Replicate(i, cmd, P)
    /\ UNCHANGED <<up, lastApplied, data, forgotten>>

\* handleGet: the value, or 0 for a 404
handleGet(i, k) == data[i][k]

\* The process of i ends.
Stop(i) ==
    /\ up' = up \ {i}
    /\ leaders' = leaders \ {i}
    /\ UNCHANGED <<currentTerm, log, committed, lastApplied, data, forgotten>>

\* A new process: the store is read back, the raft state is not.
Start(i) ==
    /\ up' = up \union {i}
    /\ currentTerm' = [currentTerm EXCEPT ![i] = 0]
    /\ log' = [log EXCEPT ![i] = <<>>]
    /\ lastApplied' = [lastApplied EXCEPT ![i] = 0]
    /\ forgotten' = [writes |-> forgotten.writes \union
                                  {log[i][k].cmd.id : k \in DOMAIN log[i]},
                     term |-> Max({forgotten.term, currentTerm[i]})]
    /\ UNCHANGED <<leaders, committed, data>>

ClusterNext ==
    \/ \E i \in Node, Q \in Quorums : Elect(i, Q)
    \/ \E i, p \in Node : Heartbeat(i, p) \/ StepDown(i, p)
    \/ \E i \in Node : Apply(i)

-----------------------------------------------------------------------------

\* No restart has taken the entry from a node or a vote from its term.
Kept(e) == e.cmd.id \notin forgotten.writes /\ forgotten.term < e.term

(***************************************************************************)
(* A committed write is in the log of every leader of that or a later      *)
(* term.  What it takes to lose it is a restart, which empties the log of  *)
(* a node that held it, or lets a node vote again in the write's term.     *)
(***************************************************************************)
CommittedSurvivesUnlessForgotten ==
    \A e \in committed : Kept(e) =>
        \A i \in leaders : currentTerm[i] >= e.term =>
          HasEntry(log[i], e.index) /\ log[i][e.index] = e

(***************************************************************************)
(* A term has one leader, unless a node that had reached that term was     *)
(* started again and could vote in it a second time.                       *)
(***************************************************************************)
OneLeaderUnlessForgotten ==
    \A i, j \in leaders :
      currentTerm[i] = currentTerm[j] => i = j \/ forgotten.term >= currentTerm[i]
=============================================================================
