----------------------------- MODULE RaftCrash -----------------------------
(***************************************************************************)
(* Raft with nodes that crash and are started again.  cmd/node/main.go     *)
(* builds every process with raft.NewNode, which starts at term 0 with no  *)
(* vote and an empty log: only the key-value store is read back from disk. *)
(***************************************************************************)
EXTENDS Raft

CONSTANT MaxRestarts    \* bound: restarts in a behaviour

ASSUME RestartAssumption == MaxRestarts \in Nat

VARIABLE restarts

crashVars == <<vars, restarts>>

CrashInit == Init /\ restarts = 0

(***************************************************************************)
(* The process of i ends and a new one runs NewNode and Run.  Its          *)
(* goroutines and calls are gone, and so are the answers on their way to   *)
(* them; an AppendEntries it has sent may be lost or, within the bound,    *)
(* still be handled.  A RequestVote it has sent is lost: that a peer       *)
(* handles it after the restart is left out.                               *)
(***************************************************************************)
Restart(i) ==
    LET own == {r \in aeRpcs : r.src = i /\ r.caller # "gone"}
        late == {[r EXCEPT !.caller = "gone", !.cmd = None] :
                   r \in {q \in own : ~q.done}}
    IN  /\ restarts < MaxRestarts
        /\ restarts' = restarts + 1
        /\ currentTerm' = [currentTerm EXCEPT ![i] = 0]
        /\ votedFor' = [votedFor EXCEPT ![i] = None]
        /\ state' = [state EXCEPT ![i] = Follower]
        /\ log' = [log EXCEPT ![i] = <<>>]
        /\ commitIndex' = [commitIndex EXCEPT ![i] = 0]
        /\ nextIndex' = [nextIndex EXCEPT ![i] = [p \in Server |-> 0]]
        /\ matchIndex' = [matchIndex EXCEPT ![i] = [p \in Server |-> 0]]
        /\ stepDownCh' = [stepDownCh EXCEPT ![i] = <<>>]
        /\ pc' = [pc EXCEPT ![i] = "follower"]
        /\ campaign' = [campaign EXCEPT ![i] = 0]
        /\ votes' = [votes EXCEPT ![i] = {}]
        /\ hbReady' = [hbReady EXCEPT ![i] = {}]
        /\ call' = [c \in Cmd |->
             IF call[c].node = i /\ call[c].st = "open"
               THEN [call[c] EXCEPT !.ready = {}, !.acks = {}]
               ELSE IF call[c].node = i THEN [call[c] EXCEPT !.ready = {}]
               ELSE call[c]]
        /\ voteRpcs' = {r \in voteRpcs : r.src # i}
        /\ \E still \in SUBSET late :
             /\ Cardinality(Late \union still) <= MaxLate
             /\ aeRpcs' = (aeRpcs \ own) \union still
        /\ UNCHANGED history

CrashNext ==
    \/ Next /\ UNCHANGED restarts
    \/ \E i \in Server : Restart(i)

CrashSpec == CrashInit /\ [][CrashNext]_crashVars

(***************************************************************************)
(* A leader's nextIndex for a peer never reaches 0: nextIndex - 1 is       *)
(* computed in uint64 and would wrap.  A peer that lost its log rejects    *)
(* several requests in flight at once, and each rejection lowers nextIndex *)
(* on its own.                                                             *)
(***************************************************************************)
NextIndexPositive ==
    \A i \in Server : state[i] = Leader =>
        \A p \in Peers(i) : nextIndex[i][p] >= 1
=============================================================================
