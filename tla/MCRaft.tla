------------------------------- MODULE MCRaft -------------------------------
(***************************************************************************)
(* Raft on small clusters.  LedSpec starts the nodes where one uneventful  *)
(* election has left them, so that the bound on campaigns counts the       *)
(* elections after it.                                                     *)
(***************************************************************************)
EXTENDS Raft, LogStore, TLC

CONSTANT first      \* the node that won the uneventful election

Symmetry == Permutations(Server) \union Permutations(Cmd)

LedSymmetry == Permutations(Server \ {first}) \union Permutations(Cmd)

\* Init, then ElectionTimeout, StartCampaign, HandleRequestVote at every
\* peer, and VoteWins.
LedInit ==
    /\ currentTerm = [i \in Server |-> 1]
    /\ votedFor = [i \in Server |-> first]
    /\ state = [i \in Server |-> IF i = first THEN Leader ELSE Follower]
    /\ log = [i \in Server |-> <<>>]
    /\ commitIndex = [i \in Server |-> 0]
    /\ nextIndex = [i \in Server |-> [p \in Server |->
                      IF i = first /\ p # first THEN 1 ELSE 0]]
    /\ matchIndex = [i \in Server |-> [p \in Server |-> 0]]
    /\ stepDownCh = [i \in Server |-> <<>>]
    /\ pc = [i \in Server |-> IF i = first THEN "leader" ELSE "follower"]
    /\ campaign = [i \in Server |-> 0]
    /\ votes = [i \in Server |-> {}]
    /\ hbReady = [i \in Server |-> {}]
    /\ call = [c \in Cmd |-> [st |-> "none", node |-> None, index |-> 0,
                              term |-> 0, commit |-> 0,
                              ready |-> {}, acks |-> {}]]
    /\ voteRpcs = {[src |-> first, dst |-> p, term |-> 1, lastIndex |-> 0,
                    lastTerm |-> 0, done |-> TRUE, replyTerm |-> 1,
                    granted |-> TRUE] : p \in Peers(first)}
    /\ aeRpcs = {}
    /\ elected = {<<1, first>>}
    /\ usurped = FALSE

LedSpec == LedInit /\ [][Next]_vars

(***************************************************************************)
(* Schedules.  Each of them selects some of the behaviours of LedSpec by   *)
(* what the steps may do.                                                  *)
(***************************************************************************)

\* Every leader is still waiting to send its next heartbeats; only writes
\* are replicated.
Quiet == \A i \in Server : hbReady'[i] = {}

\* The first leader appends an entry and its goroutines then stall, so that
\* only its handlers run; no request is lost; every campaign is won before
\* the next one starts.
Stalled ==
    /\ log'[first] # <<>>
    /\ pc'[first] = "leader" /\ hbReady'[first] = {}
    /\ \A r \in aeRpcs' : r.src # first
    /\ \A r \in aeRpcs : r.done \/ aeRpcs' # aeRpcs \ {r}
    /\ Cardinality({r.term : r \in voteRpcs'}) <= Cardinality(elected) + 1
    /\ \A r, s \in voteRpcs' : r.term = s.term => r.src = s.src

QuietSpec == LedInit /\ [][Next /\ Quiet]_vars

StalledSpec == LedInit /\ [][Next /\ Stalled]_vars

StalledQuietSpec == LedInit /\ [][Next /\ Stalled /\ Quiet]_vars

(***************************************************************************)
(* The first leader keeps its role (MaxElections = 1) and its heartbeats   *)
(* are scheduled; Replicate takes the acknowledgements that are there.     *)
(***************************************************************************)
LedFairSpec ==
    /\ LedSpec
    /\ HeartbeatFairness(first)
    /\ \A c \in Cmd : WF_vars(ReplicateCommit(c))

-----------------------------------------------------------------------------
(* RaftLog against log.go *)

Slice(i) == newLogStore \o log[i]

(***************************************************************************)
(* On every log a node gets to hold the scans of log.go find what the      *)
(* operators of RaftLog take by position.                                  *)
(***************************************************************************)
ScansArePositions ==
    \A i \in Server :
      /\ lastEntry(Slice(i)).index = LastIndex(log[i])
      /\ lastEntry(Slice(i)).term = LastTerm(log[i])
      /\ \A idx \in 1..(Len(log[i]) + 1) :
           /\ entryAt(Slice(i), idx)
                = IF HasEntry(log[i], idx) THEN {log[i][idx]} ELSE {}
           /\ truncateAfter(Slice(i), idx - 1)
                = newLogStore \o TruncateAfter(log[i], idx - 1)
           /\ entriesFrom(Slice(i), idx) = EntriesFrom(log[i], idx)
           /\ \A last \in idx..Len(log[i]) :
                collect(Slice(i), idx, last) = EntriesBetween(log[i], idx, last)

(***************************************************************************)
(* For every request under way that passes the log check, the loop of      *)
(* HandleAppendEntries, which looks at one entry at a time and truncates   *)
(* in the middle of its walk, computes MergeEntries.                       *)
(***************************************************************************)
LoopIsMerge ==
    \A r \in aeRpcs : PrevMatches(r) =>
      receiveEntries(Slice(r.dst), r.entries)
        = newLogStore \o MergeEntries(log[r.dst], r.entries)
=============================================================================
