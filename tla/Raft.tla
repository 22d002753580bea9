-------------------------------- MODULE Raft --------------------------------
(***************************************************************************)
(* The consensus core of the store: raft/raft.go, election.go and          *)
(* replication.go.  Every node runs                                        *)
(*                                                                         *)
(*   - one run goroutine (pc), which walks through loopFollower,           *)
(*     loopCandidate and loopLeader;                                       *)
(*   - while it leads, one heartbeat goroutine per peer and tick;          *)
(*   - one Replicate call per client command, with one replicateToPeer     *)
(*     goroutine per peer;                                                 *)
(*   - the two RPC handlers.                                               *)
(*                                                                         *)
(* A step is one critical section of n.mu (or one atomic store to the      *)
(* role) with the thread-local code around it.  Timers fire at any time,   *)
(* so resetTimerCh, which only delays them, is not part of the state.      *)
(* Stop is a run goroutine that takes no further step.                     *)
(***************************************************************************)
EXTENDS RaftLog, Integers, FiniteSets

CONSTANTS
    Server,         \* node ids; every node's peers are all the other nodes
    Cmd,            \* client commands, each submitted at most once
    None,           \* the empty string of votedFor and CurrentLeaderID
    StepDownCap,    \* capacity of stepDownCh
    MaxElections,   \* bound: campaigns started in a behaviour
    MaxInFlight,    \* bound: AppendEntries exchanges under way at once
    MaxLate         \* bound: those whose caller gave up

ASSUME ServerAssumption == IsFiniteSet(Server) /\ None \notin Server
ASSUME CmdAssumption == None \notin Cmd
ASSUME BoundAssumption ==
    /\ StepDownCap \in Nat /\ MaxElections \in Nat
    /\ MaxInFlight \in Nat /\ MaxLate \in Nat

Follower == "Follower"
Candidate == "Candidate"
Leader == "Leader"

VARIABLES
    \* fields of Node
    currentTerm, votedFor, state, log, commitIndex,
    nextIndex, matchIndex, stepDownCh,
    \* the run goroutine: where it is, and the locals of loopCandidate
    pc, campaign, votes,
    \* goroutines and calls under way
    hbReady,        \* heartbeat goroutines that have not taken the lock yet
    call,           \* Replicate, one call per command
    voteRpcs,       \* RequestVote exchanges, kept once answered
    aeRpcs,         \* AppendEntries exchanges under way
    \* history
    elected,        \* <<term, node>> of every becomeLeader that succeeded
    usurped         \* a heartbeat carried a term its sender never led

nodeVars == <<currentTerm, votedFor, state>>
logVars == <<log, commitIndex>>
peerVars == <<nextIndex, matchIndex>>
loopVars == <<pc, campaign, votes>>
history == <<elected, usurped>>
vars == <<nodeVars, logVars, peerVars, loopVars, history, stepDownCh, hbReady,
          call, voteRpcs, aeRpcs>>

Peers(i) == Server \ {i}

Majority == Cardinality(Server) \div 2 + 1

Entry == [term : Nat, index : Nat, cmd : Cmd]

VoteRpc ==
    [src : Server, dst : Server, term : Nat, lastIndex : Nat, lastTerm : Nat,
     done : BOOLEAN, replyTerm : Nat, granted : BOOLEAN]

(***************************************************************************)
(* caller is the goroutine that waits for the answer: the heartbeat        *)
(* goroutine of src, the replicateToPeer goroutine of command cmd, or      *)
(* nobody any more, once the 200 ms client timeout has expired.            *)
(***************************************************************************)
AERpc ==
    [caller : {"heartbeat", "replicate", "gone"}, cmd : Cmd \union {None},
     src : Server, dst : Server, term : Nat, prevIndex : Nat, prevTerm : Nat,
     entries : Seq(Entry), leaderCommit : Nat,
     done : BOOLEAN, replyTerm : Nat, success : BOOLEAN]

(***************************************************************************)
(* A Replicate call: node, index and term of the entry it appended, the    *)
(* commitIndex it captured, the replicateToPeer goroutines about to take   *)
(* the lock, and the peers that have acknowledged.                         *)
(***************************************************************************)
Call ==
    [st : {"none", "open", "ok"}, node : Server \union {None},
     index : Nat, term : Nat, commit : Nat,
     ready : SUBSET Server, acks : SUBSET Server]

Init ==
    /\ currentTerm = [i \in Server |-> 0]
    /\ votedFor = [i \in Server |-> None]
    /\ state = [i \in Server |-> Follower]
    /\ log = [i \in Server |-> <<>>]
    /\ commitIndex = [i \in Server |-> 0]
    /\ nextIndex = [i \in Server |-> [p \in Server |-> 0]]
    /\ matchIndex = [i \in Server |-> [p \in Server |-> 0]]
    /\ stepDownCh = [i \in Server |-> <<>>]
    /\ pc = [i \in Server |-> "follower"]
    /\ campaign = [i \in Server |-> 0]
    /\ votes = [i \in Server |-> {}]
    /\ hbReady = [i \in Server |-> {}]
    /\ call = [c \in Cmd |-> [st |-> "none", node |-> None, index |-> 0,
                              term |-> 0, commit |-> 0,
                              ready |-> {}, acks |-> {}]]
    /\ voteRpcs = {}
    /\ aeRpcs = {}
    /\ elected = {}
    /\ usurped = FALSE

-----------------------------------------------------------------------------
(* becomeFollower, as the three fields it writes *)

\* Mutant: the term of the signal is taken, older or not.
TermOfSignal(i, term) == term

TermAfter(i, term) == IF term > currentTerm[i] THEN term ELSE currentTerm[i]

VoteAfter(i, term) == IF term > currentTerm[i] THEN None ELSE votedFor[i]

becomeFollower(i, term) ==
    /\ currentTerm' = [currentTerm EXCEPT ![i] = TermAfter(i, term)]
    /\ votedFor' = [votedFor EXCEPT ![i] = VoteAfter(i, term)]
    /\ state' = [state EXCEPT ![i] = Follower]

\* Mutant: the channel is taken to be unbounded.
signalUnbounded(i, term) ==
    stepDownCh' = [stepDownCh EXCEPT ![i] = Append(@, term)]

\* signalStepDown never blocks: the signal is dropped when the channel is full.
signalStepDown(i, term) ==
    stepDownCh' = [stepDownCh EXCEPT
                     ![i] = IF Len(@) < StepDownCap THEN Append(@, term) ELSE @]

-----------------------------------------------------------------------------
(* The run goroutine *)

(***************************************************************************)
(* When a loop returns, run loads the role and enters the loop for it.     *)
(* That load is taken together with the return: a handler that changes the *)
(* role between the two either leaves the node where it would be had the   *)
(* loop not returned, or changes it just as well before the return.  The   *)
(* exception is a node deposed between becomeLeader and run's load, which  *)
(* is why a new leader enters loopLeader with its first heartbeats still   *)
(* to be sent: Tick sends them, or finds the role lost.                    *)
(***************************************************************************)
Enter(i, role) ==
    /\ pc' = [pc EXCEPT ![i] = CASE role = Follower -> "follower"
                                 [] role = Candidate -> "campaign"
                                 [] role = Leader -> "leader"]
    /\ campaign' = [campaign EXCEPT ![i] = 0]
    /\ votes' = [votes EXCEPT ![i] = {}]

\* wg.Wait() of sendHeartbeats: no heartbeat goroutine of i is left.
HeartbeatsDone(i) ==
    /\ hbReady[i] = {}
    /\ \A r \in aeRpcs : ~(r.src = i /\ r.caller = "heartbeat")

\* The bound on campaigns, those about to start included
ElectionsLeft ==
    Cardinality({<<r.src, r.term>> : r \in voteRpcs})
      + Cardinality({j \in Server : pc[j] = "campaign"}) < MaxElections

\* loopFollower: the election timer fires.
ElectionTimeout(i) ==
    /\ pc[i] = "follower"
    /\ ElectionsLeft
    /\ state' = [state EXCEPT ![i] = Candidate]
    /\ Enter(i, Candidate)
    /\ UNCHANGED <<currentTerm, votedFor, logVars, peerVars, history,
                   stepDownCh, hbReady, call, voteRpcs, aeRpcs>>

\* The stepDownCh case that the three loops share.
StepDown(i) ==
    /\ pc[i] \in {"follower", "candidate", "leader"}
    /\ HeartbeatsDone(i)
    /\ stepDownCh[i] # <<>>
    /\ stepDownCh' = [stepDownCh EXCEPT ![i] = Tail(@)]
    /\ becomeFollower(i, Head(stepDownCh[i]))
    /\ Enter(i, Follower)
    /\ UNCHANGED <<logVars, peerVars, history, hbReady, call, voteRpcs,
                   aeRpcs>>

\* loopCandidate: the critical section, and the requests sent after it.
StartCampaign(i) ==
    /\ pc[i] = "campaign"
    /\ currentTerm' = [currentTerm EXCEPT ![i] = @ + 1]
    /\ votedFor' = [votedFor EXCEPT ![i] = i]
    /\ campaign' = [campaign EXCEPT ![i] = currentTerm[i] + 1]
    /\ votes' = [votes EXCEPT ![i] = {}]
    /\ voteRpcs' = voteRpcs \union
         {[src |-> i, dst |-> p, term |-> currentTerm[i] + 1,
           lastIndex |-> LastIndex(log[i]), lastTerm |-> LastTerm(log[i]),
           done |-> FALSE, replyTerm |-> 0, granted |-> FALSE] :
             p \in Peers(i)}
    /\ pc' = [pc EXCEPT ![i] = "candidate"]
    /\ UNCHANGED <<state, logVars, peerVars, history, stepDownCh, hbReady,
                   call, aeRpcs>>

\* loopCandidate: the election timer, or the last answer without a majority.
CampaignOver(i) ==
    /\ pc[i] = "candidate"
    /\ state[i] = Candidate => ElectionsLeft
    /\ Enter(i, state[i])
    /\ UNCHANGED <<nodeVars, logVars, peerVars, history, stepDownCh, hbReady,
                   call, voteRpcs, aeRpcs>>

\* An answer to the present campaign that its select loop has not taken.
VoteAnswer(i, r) ==
    /\ pc[i] = "candidate"
    /\ r.src = i /\ r.term = campaign[i] /\ r.done
    /\ r.dst \notin votes[i]

VoteHigherTerm(i, r) ==
    /\ VoteAnswer(i, r)
    /\ r.replyTerm > campaign[i]
    /\ becomeFollower(i, r.replyTerm)
    /\ Enter(i, Follower)
    /\ UNCHANGED <<logVars, peerVars, history, stepDownCh, hbReady, call,
                   voteRpcs, aeRpcs>>

VoteCounted(i, r) ==
    /\ VoteAnswer(i, r)
    /\ r.replyTerm <= campaign[i] /\ r.granted
    /\ Cardinality(votes[i]) + 2 < Majority
    /\ votes' = [votes EXCEPT ![i] = @ \union {r.dst}]
    /\ UNCHANGED <<nodeVars, logVars, peerVars, pc, campaign, history,
                   stepDownCh, hbReady, call, voteRpcs, aeRpcs>>

\* becomeLeader's two checks
StillCandidate(i) == currentTerm[i] = campaign[i] /\ state[i] = Candidate

\* The answer that makes a majority, and becomeLeader.
VoteWins(i, r) ==
    /\ VoteAnswer(i, r)
    /\ r.replyTerm <= campaign[i] /\ r.granted
    /\ Cardinality(votes[i]) + 2 >= Majority
    /\ IF StillCandidate(i)
         THEN /\ state' = [state EXCEPT ![i] = Leader]
              /\ Enter(i, Leader)
              /\ nextIndex' = [nextIndex EXCEPT
                   ![i] = [p \in Server |-> IF p = i THEN @[p]
                                            ELSE LastIndex(log[i]) + 1]]
              /\ matchIndex' = [matchIndex EXCEPT
                   ![i] = [p \in Server |-> IF p = i THEN @[p] ELSE 0]]
              /\ elected' = elected \union {<<currentTerm[i], i>>}
         ELSE /\ Enter(i, state[i])
              /\ UNCHANGED <<state, peerVars, elected>>
    /\ UNCHANGED <<currentTerm, votedFor, logVars, usurped, stepDownCh,
                   hbReady, call, voteRpcs, aeRpcs>>

\* loopLeader: the ticker, after the previous round of heartbeats is over.
Tick(i) ==
    /\ pc[i] = "leader"
    /\ HeartbeatsDone(i)
    /\ IF state[i] = Leader
         THEN /\ hbReady' = [hbReady EXCEPT ![i] = Peers(i)]
              /\ UNCHANGED loopVars
         ELSE /\ Enter(i, state[i])
              /\ UNCHANGED hbReady
    /\ UNCHANGED <<nodeVars, logVars, peerVars, history, stepDownCh, call,
                   voteRpcs, aeRpcs>>

-----------------------------------------------------------------------------
(* Calling AppendEntries: the heartbeat goroutines *)

AERequest(caller, c, i, p, term, prevIndex, entries, leaderCommit) ==
    [caller |-> caller, cmd |-> c, src |-> i, dst |-> p, term |-> term,
     prevIndex |-> prevIndex, prevTerm |-> TermAt(log[i], prevIndex),
     entries |-> entries, leaderCommit |-> leaderCommit,
     done |-> FALSE, replyTerm |-> 0, success |-> FALSE]

\* Mutant: the last entry is forgotten.
FarBehind(i, p) == nextIndex[i][p] < LastIndex(log[i])

\* Is there anything to send to p?
Behind(i, p) == nextIndex[i][p] <= LastIndex(log[i])

\* Mutant: prevLogIndex is never set.
NoPrevIndex(i, p) == 0

\* With nothing to send, prevLogIndex stays 0.
HeartbeatPrevIndex(i, p) == IF Behind(i, p) THEN nextIndex[i][p] - 1 ELSE 0

sendHeartbeatToPeer(i, p) ==
    /\ p \in hbReady[i]
    /\ Cardinality(aeRpcs) < MaxInFlight
    /\ hbReady' = [hbReady EXCEPT ![i] = @ \ {p}]
    /\ aeRpcs' = aeRpcs \union
         {AERequest("heartbeat", None, i, p, currentTerm[i],
                    HeartbeatPrevIndex(i, p),
                    IF Behind(i, p) THEN EntriesFrom(log[i], nextIndex[i][p])
                                    ELSE <<>>,
                    commitIndex[i])}
    /\ usurped' = (usurped \/ <<currentTerm[i], i>> \notin elected)
    /\ UNCHANGED <<nodeVars, logVars, peerVars, loopVars, elected,
                   stepDownCh, call, voteRpcs>>

\* Mutant: the loop stops one short of the last index.
CommittableButLast(i, match) ==
    {idx \in commitIndex[i] + 1 .. LastIndex(log[i]) - 1 :
        /\ log[i][idx].term = currentTerm[i]
        /\ Cardinality({p \in Peers(i) : match[p] >= idx}) + 1 >= Majority}

\* advanceCommitIndex of node i once matchIndex[i] is match
Committable(i, match) ==
    {idx \in commitIndex[i] + 1 .. LastIndex(log[i]) :
        /\ log[i][idx].term = currentTerm[i]
        /\ Cardinality({p \in Peers(i) : match[p] >= idx}) + 1 >= Majority}

advanceCommitIndex(i, match) ==
    IF Committable(i, match) = {}
      THEN commitIndex[i]
      ELSE CHOOSE idx \in Committable(i, match) :
               \A other \in Committable(i, match) : other <= idx

\* Mutant: nextIndex is lowered whatever it is.
CanLowerAlways(next) == TRUE

\* The guard on nextIndex--
CanLower(next) == next > 1

\* The answer comes back to the heartbeat goroutine.
HeartbeatReply(r) ==
    /\ r.caller = "heartbeat" /\ r.done
    /\ aeRpcs' = aeRpcs \ {r}
    /\ LET i == r.src
           p == r.dst
           newMatch == r.prevIndex + Len(r.entries)
           ahead == newMatch > matchIndex[i][p]
           match == IF ahead THEN [matchIndex[i] EXCEPT ![p] = newMatch]
                             ELSE matchIndex[i]
       IN  \/ /\ r.replyTerm > r.term
              /\ signalStepDown(i, r.replyTerm)
              /\ UNCHANGED <<peerVars, commitIndex>>
           \/ /\ r.replyTerm <= r.term /\ r.entries = <<>>
              /\ UNCHANGED <<peerVars, commitIndex, stepDownCh>>
           \/ /\ r.replyTerm <= r.term /\ r.entries # <<>> /\ r.success
              /\ matchIndex' = [matchIndex EXCEPT ![i] = match]
              /\ nextIndex' = [nextIndex EXCEPT
                                 ![i][p] = IF ahead THEN newMatch + 1 ELSE @]
              /\ commitIndex' = [commitIndex EXCEPT
                                   ![i] = advanceCommitIndex(i, match)]
              /\ UNCHANGED stepDownCh
           \/ /\ r.replyTerm <= r.term /\ r.entries # <<>> /\ ~r.success
              /\ nextIndex' = [nextIndex EXCEPT
                                 ![i][p] = IF CanLower(@) THEN @ - 1 ELSE @]
              /\ UNCHANGED <<matchIndex, commitIndex, stepDownCh>>
    /\ UNCHANGED <<nodeVars, log, loopVars, history, hbReady, call, voteRpcs>>

(***************************************************************************)
(* SendAppendEntries returns an error: the connection failed or the client *)
(* timeout expired.  The caller gives up.  A request not yet handled may   *)
(* be lost, or still be handled later.                                     *)
(***************************************************************************)
Late == {r \in aeRpcs : r.caller = "gone"}

AppendEntriesError(r) ==
    /\ r.caller # "gone"
    /\ \/ aeRpcs' = aeRpcs \ {r}
       \/ /\ ~r.done /\ Cardinality(Late) < MaxLate
          /\ aeRpcs' = (aeRpcs \ {r}) \union
               {[r EXCEPT !.caller = "gone", !.cmd = None]}
    /\ UNCHANGED <<nodeVars, logVars, peerVars, loopVars, history,
                   stepDownCh, hbReady, call, voteRpcs>>

-----------------------------------------------------------------------------
(* Calling AppendEntries: Replicate and replicateToPeer *)

Replicate(i, c) ==
    /\ call[c].st = "none"
    /\ state[i] = Leader
    /\ LET index == LastIndex(log[i]) + 1
       IN  /\ log' = [log EXCEPT ![i] = Append(@,
                        [term |-> currentTerm[i], index |-> index,
                         cmd |-> c])]
           /\ matchIndex' = [matchIndex EXCEPT ![i][i] = index]
           /\ call' = [call EXCEPT ![c] =
                        [st |-> "open", node |-> i, index |-> index,
                         term |-> currentTerm[i], commit |-> commitIndex[i],
                         ready |-> Peers(i), acks |-> {}]]
    /\ UNCHANGED <<nodeVars, commitIndex, nextIndex, loopVars, history,
                   stepDownCh, hbReady, voteRpcs, aeRpcs>>

\* The top of replicateToPeer's loop: give up, or send what the peer lacks.
replicateToPeer(c, p) ==
    LET i == call[c].node
        next == nextIndex[i][p]
    IN  /\ p \in call[c].ready
        /\ Cardinality(aeRpcs) < MaxInFlight
        /\ call' = [call EXCEPT ![c].ready = @ \ {p}]
        /\ aeRpcs' =
             IF currentTerm[i] # call[c].term \/ state[i] # Leader
               THEN aeRpcs
               ELSE aeRpcs \union
                 {AERequest("replicate", c, i, p, call[c].term, next - 1,
                            EntriesBetween(log[i], next, call[c].index),
                            call[c].commit)}
        /\ UNCHANGED <<nodeVars, logVars, peerVars, loopVars, history,
                       stepDownCh, hbReady, voteRpcs>>

\* The rest of the loop's body, once the answer is there.
ReplicateReply(r) ==
    /\ r.caller = "replicate" /\ r.done
    /\ aeRpcs' = aeRpcs \ {r}
    /\ LET i == r.src
           p == r.dst
           c == r.cmd
       IN  \/ /\ r.replyTerm > r.term
              /\ signalStepDown(i, r.replyTerm)
              /\ UNCHANGED <<peerVars, call>>
           \/ /\ r.replyTerm <= r.term /\ r.success
              /\ matchIndex' = [matchIndex EXCEPT
                   ![i][p] = IF call[c].index > @ THEN call[c].index ELSE @]
              /\ nextIndex' = [nextIndex EXCEPT ![i][p] = call[c].index + 1]
              /\ call' = [call EXCEPT ![c].acks = @ \union {p}]
              /\ UNCHANGED stepDownCh
           \/ /\ r.replyTerm <= r.term /\ ~r.success
              /\ CanLower(nextIndex[i][p])
              /\ nextIndex' = [nextIndex EXCEPT ![i][p] = @ - 1]
              /\ call' = [call EXCEPT ![c].ready = @ \union {p}]
              /\ UNCHANGED <<matchIndex, stepDownCh>>
           \/ /\ r.replyTerm <= r.term /\ ~r.success
              /\ ~CanLower(nextIndex[i][p])
              /\ UNCHANGED <<peerVars, call, stepDownCh>>
    /\ UNCHANGED <<nodeVars, logVars, loopVars, history, hbReady, voteRpcs>>

(***************************************************************************)
(* Replicate counts a majority, commits and returns nil.  Its other        *)
(* returns (ErrReplicationTimeout, or ErrNotLeader after Stop) change      *)
(* nothing: a call that stays open has returned an error or never does,    *)
(* and its replicateToPeer goroutines go on either way.                    *)
(***************************************************************************)
ReplicateCommit(c) ==
    /\ call[c].st = "open"
    /\ Cardinality(call[c].acks) + 1 >= Majority
    /\ call[c].acks # {}
    /\ LET i == call[c].node
       IN  commitIndex' = [commitIndex EXCEPT
                             ![i] = IF call[c].index > @ THEN call[c].index
                                                         ELSE @]
    /\ call' = [call EXCEPT ![c].st = "ok"]
    /\ UNCHANGED <<nodeVars, log, peerVars, loopVars, history, stepDownCh,
                   hbReady, voteRpcs, aeRpcs>>

-----------------------------------------------------------------------------
(* The RPC handlers *)

\* Mutant: votedFor is not looked at.
NeverVoted(r) == FALSE

\* alreadyVoted in HandleRequestVote, after a higher term was adopted
AlreadyVoted(r) ==
    VoteAfter(r.dst, r.term) \notin {None, r.src}

GrantsVote(r) ==
    /\ r.term >= currentTerm[r.dst]
    /\ ~AlreadyVoted(r)
    /\ LogOK(log[r.dst], r.lastTerm, r.lastIndex)

HandleRequestVote(r) ==
    LET i == r.dst
        higher == r.term > currentTerm[i]
    IN  /\ ~r.done
        /\ currentTerm' = [currentTerm EXCEPT ![i] = TermAfter(i, r.term)]
        /\ state' = [state EXCEPT ![i] = IF higher THEN Follower ELSE @]
        /\ votedFor' = [votedFor EXCEPT
                          ![i] = IF GrantsVote(r) THEN r.src
                                 ELSE VoteAfter(i, r.term)]
        /\ voteRpcs' = (voteRpcs \ {r}) \union
             {[r EXCEPT !.done = TRUE, !.replyTerm = TermAfter(i, r.term),
                        !.granted = GrantsVote(r)]}
        /\ UNCHANGED <<logVars, peerVars, loopVars, history, stepDownCh,
                       hbReady, call, aeRpcs>>

\* The answer reaches whoever still waits for it.
Answer(r, term, success) ==
    aeRpcs' = (aeRpcs \ {r}) \union
        (IF r.caller = "gone" THEN {}
         ELSE {[r EXCEPT !.done = TRUE, !.replyTerm = term,
                         !.success = success]})

AppendStale(r) ==
    /\ ~r.done
    /\ r.term < currentTerm[r.dst]
    /\ Answer(r, currentTerm[r.dst], FALSE)
    /\ UNCHANGED <<nodeVars, logVars, peerVars, loopVars, history,
                   stepDownCh, hbReady, call, voteRpcs>>

\* Mutant: a request of an older term is treated like a current one.
AcceptAnyLeader(r) ==
    LET i == r.dst
    IN  /\ ~r.done
        /\ currentTerm' = [currentTerm EXCEPT ![i] = TermAfter(i, r.term)]
        /\ votedFor' = [votedFor EXCEPT ![i] = VoteAfter(i, r.term)]
        /\ state' = [state EXCEPT ![i] = IF r.term > currentTerm[i]
                                        THEN Follower ELSE @]

\* What HandleAppendEntries does with every request of a current term.
AcceptLeader(r) ==
    LET i == r.dst
        higher == r.term > currentTerm[i]
    IN  /\ ~r.done
        /\ r.term >= currentTerm[i]
        /\ currentTerm' = [currentTerm EXCEPT ![i] = r.term]
        /\ votedFor' = [votedFor EXCEPT ![i] = VoteAfter(i, r.term)]
        /\ state' = [state EXCEPT
             ![i] = IF higher \/ @ = Candidate THEN Follower ELSE @]

\* Mutant: the term of the previous entry is not compared.
PrevExists(r) == r.prevIndex > 0 => HasEntry(log[r.dst], r.prevIndex)

\* The consistency check, skipped when prevLogIndex is 0
PrevMatches(r) ==
    r.prevIndex > 0 =>
        /\ HasEntry(log[r.dst], r.prevIndex)
        /\ TermAt(log[r.dst], r.prevIndex) = r.prevTerm

\* Mutant: the check fails but the answer says success.
AppendMismatchAcks(r) ==
    /\ AcceptLeader(r)
    /\ ~PrevMatches(r)
    /\ Answer(r, r.term, TRUE)
    /\ UNCHANGED <<logVars, peerVars, loopVars, history, stepDownCh,
                   hbReady, call, voteRpcs>>

AppendMismatch(r) ==
    /\ AcceptLeader(r)
    /\ ~PrevMatches(r)
    /\ Answer(r, r.term, FALSE)
    /\ UNCHANGED <<logVars, peerVars, loopVars, history, stepDownCh,
                   hbReady, call, voteRpcs>>

\* Mutant: the leader's commit index is taken, smaller or not.
CommitOfLeader(i, leaderCommit, l) ==
    IF leaderCommit < LastIndex(l) THEN leaderCommit ELSE LastIndex(l)

\* commitIndex once the log is l
CommitAfter(i, leaderCommit, l) ==
    IF leaderCommit <= commitIndex[i] THEN commitIndex[i]
    ELSE IF leaderCommit < LastIndex(l) THEN leaderCommit ELSE LastIndex(l)

AppendSuccess(r) ==
    LET i == r.dst
        l == MergeEntries(log[i], r.entries)
    IN  /\ AcceptLeader(r)
        /\ PrevMatches(r)
        /\ log' = [log EXCEPT ![i] = l]
        /\ commitIndex' = [commitIndex EXCEPT
                             ![i] = CommitAfter(i, r.leaderCommit, l)]
        /\ Answer(r, r.term, TRUE)
        /\ UNCHANGED <<peerVars, loopVars, history, stepDownCh, hbReady,
                       call, voteRpcs>>

HandleAppendEntries(r) ==
    AppendStale(r) \/ AppendMismatch(r) \/ AppendSuccess(r)

-----------------------------------------------------------------------------

RunGoroutine(i) ==
    \/ ElectionTimeout(i) \/ StepDown(i)
    \/ StartCampaign(i) \/ CampaignOver(i) \/ Tick(i)
    \/ \E r \in voteRpcs :
         VoteHigherTerm(i, r) \/ VoteCounted(i, r) \/ VoteWins(i, r)

Next ==
    \/ \E i \in Server :
         \/ RunGoroutine(i)
         \/ \E p \in Server : sendHeartbeatToPeer(i, p)
         \/ \E c \in Cmd : Replicate(i, c)
    \/ \E c \in Cmd :
         \/ ReplicateCommit(c)
         \/ \E p \in Server : replicateToPeer(c, p)
    \/ \E r \in aeRpcs :
         \/ HandleAppendEntries(r) \/ AppendEntriesError(r)
         \/ HeartbeatReply(r) \/ ReplicateReply(r)
    \/ \E r \in voteRpcs : HandleRequestVote(r)

Spec == Init /\ [][Next]_vars

(***************************************************************************)
(* The scheduling a live process and a working network give the heartbeats *)
(* of node i: its ticker and its goroutines run, and of the exchanges with *)
(* a peer not all fail.                                                    *)
(***************************************************************************)
HeartbeatHandled(i, p) ==
    \E r \in aeRpcs : /\ r.caller = "heartbeat" /\ r.src = i /\ r.dst = p
                      /\ HandleAppendEntries(r)

HeartbeatAnswered(i, p) ==
    \E r \in aeRpcs : /\ r.src = i /\ r.dst = p
                      /\ HeartbeatReply(r)

HeartbeatFairness(i) ==
    /\ WF_vars(Tick(i))
    /\ \A p \in Peers(i) : /\ WF_vars(sendHeartbeatToPeer(i, p))
                           /\ SF_vars(HeartbeatHandled(i, p))
                           /\ SF_vars(HeartbeatAnswered(i, p))

-----------------------------------------------------------------------------
(* Properties *)

(***************************************************************************)
(* Type invariant of the node fields, goroutine state and RPCs.            *)
(***************************************************************************)
TypeOK ==
    /\ currentTerm \in [Server -> Nat]
    /\ votedFor \in [Server -> Server \union {None}]
    /\ state \in [Server -> {Follower, Candidate, Leader}]
    /\ log \in [Server -> Seq(Entry)]
    /\ commitIndex \in [Server -> Nat]
    /\ nextIndex \in [Server -> [Server -> Nat]]
    /\ matchIndex \in [Server -> [Server -> Nat]]
    /\ stepDownCh \in [Server -> Seq(Nat)]
    /\ \A i \in Server : Len(stepDownCh[i]) <= StepDownCap
    /\ pc \in [Server -> {"follower", "campaign", "candidate", "leader"}]
    /\ campaign \in [Server -> Nat]
    /\ votes \in [Server -> SUBSET Server]
    /\ hbReady \in [Server -> SUBSET Server]
    /\ call \in [Cmd -> Call]
    /\ voteRpcs \subseteq VoteRpc
    /\ aeRpcs \subseteq AERpc
    /\ elected \subseteq (Nat \X Server)
    /\ usurped \in BOOLEAN

(***************************************************************************)
(* At most one node ever passes becomeLeader in a term, however votes,     *)
(* step-downs and re-elections interleave.                                 *)
(***************************************************************************)
ElectionSafety ==
    \A a, b \in elected : a[1] = b[1] => a[2] = b[2]

(***************************************************************************)
(* becomeFollower, HandleRequestVote and loopCandidate never lower a term  *)
(* and never change or forget a vote within a term, even when an old       *)
(* step-down signal is taken from stepDownCh long after it was sent.       *)
(***************************************************************************)
TermsAndVotesStable ==
    [][\A i \in Server :
         /\ currentTerm'[i] >= currentTerm[i]
         /\ (currentTerm'[i] = currentTerm[i] /\ votedFor[i] # None)
              => votedFor'[i] = votedFor[i]]_vars

(***************************************************************************)
(* Every entry sits at its own index in every log, although an empty       *)
(* heartbeat has prevLogIndex 0 and retries walk nextIndex down: appending *)
(* never leaves a hole and never doubles an entry.                         *)
(***************************************************************************)
LogsContiguous == \A i \in Server : Contiguous(log[i])

(***************************************************************************)
(* Two logs that hold an entry of the same index and term are identical up *)
(* to it, as long as no deposed leader has sent a heartbeat under the term *)
(* that deposed it.                                                        *)
(***************************************************************************)
LogMatching ==
    ~usurped =>
      \A i, j \in Server : \A k \in 1..Len(log[i]) :
         (k <= Len(log[j]) /\ log[i][k].term = log[j][k].term)
           => SubSeq(log[i], 1, k) = SubSeq(log[j], 1, k)

(***************************************************************************)
(* What Replicate has acknowledged is in the log of every leader of that   *)
(* or a later term, at the index it was acknowledged for.                  *)
(***************************************************************************)
AckedSurvives ==
    \A c \in Cmd : call[c].st = "ok" =>
      \A i \in Server :
        (state[i] = Leader /\ currentTerm[i] >= call[c].term) =>
           /\ HasEntry(log[i], call[c].index)
           /\ log[i][call[c].index].cmd = c

(***************************************************************************)
(* AckedSurvives, as long as no deposed leader has sent a heartbeat under  *)
(* the term that deposed it.                                               *)
(***************************************************************************)
AckedSurvivesUnlessUsurped == ~usurped => AckedSurvives

(***************************************************************************)
(* What Replicate has acknowledged stays in the logs of a majority, so     *)
(* that every later election can find it.                                  *)
(***************************************************************************)
AckedOnMajority ==
    ~usurped =>
      \A c \in Cmd : call[c].st = "ok" =>
        Cardinality({i \in Server : /\ HasEntry(log[i], call[c].index)
                                    /\ log[i][call[c].index].cmd = c})
          >= Majority

(***************************************************************************)
(* Within a term no log loses an entry of that term: an AppendEntries that *)
(* is handled late, after a longer one, does not cut the log.              *)
(***************************************************************************)
TermEntriesKept ==
    [][\A i \in Server : (currentTerm'[i] = currentTerm[i] /\ ~usurped') =>
         \A k \in 1..Len(log[i]) : log[i][k].term = currentTerm[i] =>
            k <= Len(log'[i]) /\ log'[i][k] = log[i][k]]_vars

(***************************************************************************)
(* matchIndex tells the truth: a peer that has not moved to a later term   *)
(* holds the leader's entries up to its matchIndex, although answers to    *)
(* AppendEntries are used after the lock was given up and without a look   *)
(* at the term they were asked in.                                         *)
(***************************************************************************)
MatchIndexTrue ==
    ~usurped =>
      \A i \in Server : state[i] = Leader =>
        \A p \in Peers(i) : currentTerm[p] <= currentTerm[i] =>
          \A k \in 1..matchIndex[i][p] :
             k <= Len(log[p]) /\ k <= Len(log[i]) /\ log[p][k] = log[i][k]

(***************************************************************************)
(* commitIndex never moves back and never passes the end of the log, with  *)
(* Replicate, advanceCommitIndex and HandleAppendEntries all writing it.   *)
(***************************************************************************)
CommitIndexAdvances ==
    [][~usurped' => \A i \in Server :
         commitIndex'[i] >= commitIndex[i] /\ commitIndex'[i] <= Len(log'[i])
      ]_vars

(***************************************************************************)
(* Two nodes agree on every index both consider committed.                 *)
(***************************************************************************)
CommittedAgree ==
    \A i, j \in Server :
      \A k \in 1..commitIndex[i] : k <= commitIndex[j] =>
         /\ k <= Len(log[i]) /\ k <= Len(log[j])
         /\ log[i][k] = log[j][k]

(***************************************************************************)
(* A leader only appends to its log while it leads, although it handles    *)
(* AppendEntries like everybody else and has no check of its own: nothing  *)
(* it could accept is ever sent, unless a deposed leader has sent a        *)
(* heartbeat under the term that deposed it.                               *)
(***************************************************************************)
LeaderAppendOnly ==
    [][~usurped' => \A i \in Server :
         (state[i] = Leader /\ state'[i] = Leader
            /\ currentTerm'[i] = currentTerm[i])
         => /\ Len(log[i]) <= Len(log'[i])
            /\ SubSeq(log'[i], 1, Len(log[i])) = log[i]]_vars

(***************************************************************************)
(* Once a node leads for good, heartbeats bring every follower's log up to *)
(* the leader's commitIndex.                                               *)
(***************************************************************************)
FollowersCatchUp ==
    \A i, p \in Server :
      <>[](state[i] = Leader) => <>[](Len(log[p]) >= commitIndex[i])

(***************************************************************************)
(* An entry that a leader has appended gets committed by heartbeats alone  *)
(* even when every replicateToPeer has failed, as long as the leader stays *)
(* and Replicate is not cut short once a majority has acknowledged.        *)
(***************************************************************************)
EntriesCommitted ==
    \A c \in Cmd :
      (call[c].st = "open") ~>
         \E i \in Server : i = call[c].node /\ commitIndex[i] >= call[c].index
=============================================================================
