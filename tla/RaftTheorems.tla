---------------------------- MODULE RaftTheorems ----------------------------
(***************************************************************************)
(* What is proved of Raft and RaftCrash, for any finite set of nodes, any  *)
(* commands and any bounds.  The steps are in RaftProofs, LogProofs and    *)
(* CompletenessProofs, but for those about what the leaders and the calls  *)
(* of Replicate hold, which come first here.  Then come the two facts      *)
(* about numbers and finite sets that the invariants carry along, and the  *)
(* theorems.                                                               *)
(***************************************************************************)
EXTENDS CompletenessProofs

-----------------------------------------------------------------------------
(* Leaders and candidates *)

\* LeadersHeld is kept by every step.
LEMMA LeadersHeldStep ==
    \A T, U, A, B :
        /\ TypeInv /\ TypeInv' /\ ElectionInv /\ CandidateLogs
        /\ [Next]_vars /\ HistoryInv(T) /\ HistoryInv(U)' /\ Grows(T, U)
        /\ HeldLogs(T, A) /\ VotersHeld(T, A) /\ LeadersHeld(T, A)
        /\ Acquires(A, B, U)
        => LeadersHeld(U, B)'
\* The steps that elect a node.
<1>ElectedStep.
    ASSUME TypeInv, [Next]_vars, NEW u \in Nat, Elected(u)', ~Elected(u)
    PROVE  \E i \in Server, r \in voteRpcs :
              VoteWins(i, r) /\ StillCandidate(i) /\ currentTerm[i] = u
  <2> USE <1>ElectedStep
  <2>1. PICK j \in Server : <<u, j>> \in elected' /\ <<u, j>> \notin elected
    BY DEF Elected
  <2>2. TypeOK
    BY DEF TypeInv
  <2>3. PICK i \in Server, r \in voteRpcs : VoteWins(i, r)
    BY <2>1, <2>2, VoteSteps, Zenon
       DEF NoVoteStep, StartCampaign, VoteCounted, HandleRequestVote, history
  <2>4. StillCandidate(i) /\ <<u, j>> = <<currentTerm[i], i>>
    BY <2>1, <2>3 DEF VoteWins
  <2> QED BY <2>3, <2>4
\* A voter of a leader stays covered: what it comes to hold is of later terms.
<1>CoveredStep.
    ASSUME TypeInv, TypeInv', [Next]_vars,
           NEW T, HistoryInv(T), NEW U, HistoryInv(U)', Grows(T, U),
           NEW A, HeldLogs(T, A), NEW B, Acquires(A, B, U),
           NEW p \in Server, NEW u \in Nat, Covered(p, u, T, A)
    PROVE  Covered(p, u, U, B)'
  <2> USE <1>CoveredStep
  <2>1. TermLogs(T) /\ TermLogs(U)
    BY Zenon DEF HistoryInv, TermLogs
  <2>2. currentTerm[p] \in Nat /\ currentTerm'[p] \in Nat
    BY DEF TypeInv, TypeOK
  <2>3. u <= currentTerm'[p]
    <3>1. u <= currentTerm[p] /\ currentTerm[p] <= currentTerm'[p]
      BY <2>2, StableStep DEF Covered
    <3> QED BY <2>2, <3>1, LeqTransitive, Zenon
  <2>4. ASSUME NEW t \in Nat, NEW k \in Nat, <<p, t, k>> \in B, t < u,
               U[t][k].term = t
        PROVE  Lost(U, t, k, u - 1)' \/ Agree(U[u], U[t], k)
    <3>1. t # currentTerm'[p]
      BY <2>2, <2>3, <2>4
    <3>2. <<p, t, k>> \in A
      BY <2>4, <3>1 DEF Acquires
    <3>3. 1 <= k /\ k <= Len(T[t])
      BY <3>2 DEF HeldLogs
    <3>4. T[t][k].term = t
      BY <2>1, <2>4, <3>3, EntryStays
    <3>5. CASE Lost(T, t, k, u - 1)
      <4>1. u - 1 \in Nat /\ u - 1 <= u - 1
        BY <2>4
      <4> QED BY <2>1, <3>3, <3>5, <4>1, LostStays, Zenon
    <3>6. CASE Agree(T[u], T[t], k)
      BY <2>1, <3>6, AgreeGrows
    <3> QED BY <2>4, <3>2, <3>4, <3>5, <3>6, Zenon DEF Covered
  <2> QED BY <2>3, <2>4, Zenon DEF Covered, Lost
(***************************************************************************)
(* A log at least that recent agrees with term t's log up to k, or comes   *)
(* from a leader after t that does not.                                    *)
(***************************************************************************)
<1>RecentLog.
    ASSUME NEW T, TermLogs(T), NEW l \in Seq(Entry), Rooted(l, T),
           NEW t \in Nat, NEW k \in Nat, 1 <= k, k <= Len(T[t]), 1 <= t,
           LastTerm(l) > t \/ (LastTerm(l) = t /\ Len(l) >= k)
    PROVE  \/ Agree(l, T[t], k)
           \/ \E v \in Nat : /\ t < v /\ v = LastTerm(l) /\ l # <<>>
                             /\ ~Agree(T[v], T[t], k)
  <2> USE <1>RecentLog
  <2>1. PICK n \in Nat : n = Len(l)
    BY LenFacts
  <2>2. PICK w \in Seq(Entry) : w = T[t]
    BY DEF TermLogs
  <2>3. l # <<>>
    BY DEF LastTerm
  <2>4. n \in 1..Len(l)
    BY <2>1, <2>3
  <2>5. PICK v \in Nat : v = l[n].term
    BY <2>4, LogTypes
  <2>6. LastTerm(l) = v
    BY <2>1, <2>3, <2>5 DEF LastTerm
  <2>7. PICK m \in Seq(Entry) : m = T[v]
    BY DEF TermLogs
  <2>8. Agree(l, m, n)
    BY <2>4, <2>5, <2>7 DEF Rooted
  <2>9. CASE v = t
    <3>1. k <= n /\ m = w
      BY <2>1, <2>2, <2>6, <2>7, <2>9
    <3>2. Agree(l, w, k)
      BY <2>8, <3>1, AgreeRules
    <3> QED BY <2>2, <3>2
  <2>10. CASE v > t /\ Agree(m, w, k)
    <3>1. CASE k <= n
      <4>1. Agree(l, m, k)
        BY <2>8, <3>1, AgreeRules
      <4>2. Agree(l, w, k)
        BY <2>10, <4>1, AgreeRules
      <4> QED BY <2>2, <4>2
    <3>2. CASE ~(k <= n)
      <4>1. n \in 1..k /\ n \in 1..Len(w) /\ m[n] = w[n]
        BY <2>1, <2>3, <2>10, <3>2 DEF Agree
      <4>2. l[n] = m[n]
        BY <2>4, <2>8 DEF Agree
      <4>3. w[n].term <= t
        BY <2>2, <4>1, Zenon DEF TermLogs
      <4> QED BY <2>5, <2>10, <4>1, <4>2, <4>3
    <3> QED BY <3>1, <3>2
  <2>11. CASE v > t /\ ~Agree(m, w, k)
    BY <2>2, <2>3, <2>6, <2>7, <2>11, Zenon
  <2> QED BY <2>6, <2>9, <2>10, <2>11
\* The leader that becomeLeader makes has what its voters held.
<1>WinnerCovers.
    ASSUME TypeInv, TypeInv', ElectionInv, CandidateLogs, [Next]_vars,
           NEW T, HistoryInv(T), NEW U, HistoryInv(U)', Grows(T, U),
           NEW A, HeldLogs(T, A), VotersHeld(T, A), NEW B, Acquires(A, B, U),
           NEW i \in Server, NEW r \in voteRpcs, VoteWins(i, r), StillCandidate(i),
           NEW u \in Nat, u = currentTerm[i], ~Elected(u),
           NEW p \in Server, Voted(p, i, u)
    PROVE  Covered(p, u, U, B)'
  <2> USE <1>WinnerCovers
  <2>1. TermLogs(T) /\ TermLogs(U)
    BY Zenon DEF HistoryInv, TermLogs
  <2>2. /\ log' = log /\ currentTerm' = currentTerm /\ <<u, i>> \in elected'
        /\ pc[i] = "candidate" /\ campaign[i] = u
    BY DEF VoteWins, VoteAnswer, StillCandidate, logVars
  <2>3. PICK l \in Seq(Entry) : l = log[i]
    BY NodeTypes, Zenon DEF TypeInv
  <2>4. U[u] = l
    BY <2>2, <2>3, Zenon DEF HistoryInv, LeaderLogs
  <2>5. PICK q \in voteRpcs : q.src = i /\ q.term = u /\ VoterOf(p, q)
    BY Zenon DEF Voted, VoterOf
  <2>6. u <= currentTerm[p] /\ currentTerm[p] \in Nat
    BY <2>5, VotersAreInTerm, NodeTypes, Zenon DEF VotersInTerm, TypeInv
  <2>7. q.lastIndex = Len(l) /\ q.lastTerm = LastTerm(l)
    BY <2>2, <2>3, <2>5, Zenon DEF CandidateLogs, LastIndex
  <2>8. ASSUME NEW t \in Nat, NEW k \in Nat, <<p, t, k>> \in B, t < u,
               U[t][k].term = t
        PROVE  Lost(U, t, k, u - 1)' \/ Agree(U[u], U[t], k)
    <3>1. t # currentTerm'[p]
      BY <2>2, <2>6, <2>8, SMTT(30)
    <3>2. <<p, t, k>> \in A
      BY <2>8, <3>1, Zenon DEF Acquires
    <3>3. 1 <= k /\ k <= Len(T[t])
      BY <3>2, Zenon DEF HeldLogs
    <3>4. T[t][k].term = t
      BY <2>1, <2>8, <3>3, EntryStays
    <3>5. ASSUME NEW v \in Nat, t < v, v <= u, Elected(v), ~Agree(T[v], T[t], k)
          PROVE  Lost(U, t, k, u - 1)'
      <4>1. v # u
        BY <3>5
      <4>2. v <= u - 1 /\ u - 1 \in Nat /\ u - 1 <= u - 1
        BY <3>5, <4>1
      <4>3. Lost(T, t, k, u - 1)
        BY <3>5, <4>2 DEF Lost
      <4> QED BY <2>1, <3>3, <4>2, <4>3, LostStays, Zenon
    <3>6. CASE Lost(T, t, k, u)
      BY <3>5, <3>6, Zenon DEF Lost
    <3>7. CASE Agree(l, T[t], k)
      BY <2>1, <2>4, <3>7, AgreeGrows
    <3>8. ASSUME NEW v \in Nat, t < v, v = LastTerm(l), l # <<>>,
                 ~Agree(T[v], T[t], k)
          PROVE  Lost(U, t, k, u - 1)'
      <4>1. PICK n \in Nat : n = Len(l)
        BY LenFacts
      <4>2. n \in 1..Len(l) /\ l[n].term = v
        BY <3>8, <4>1, SMTT(30) DEF LastTerm
      <4>3. v <= u
        BY <2>3, <4>2, Zenon DEF HistoryInv, NodeLogs
      <4>4. Elected(v)
        <5>1. Agree(l, T[v], n)
          BY <2>3, <4>2, Zenon DEF HistoryInv, NodeLogs, Rooted
        <5>2. n <= Len(T[v]) /\ 1 <= n
          BY <4>2, <5>1 DEF Agree
        <5>3. T[v] # <<>>
          BY <5>2
        <5> QED BY <5>3, Zenon DEF HistoryInv, LeaderLogs, Elected
      <4> QED BY <3>5, <3>8, <4>3, <4>4
    <3>9. CASE Recent(q, t, k)
      <4>1. Rooted(l, T)
        BY <2>3, Zenon DEF HistoryInv, NodeLogs
      <4>2. LastTerm(l) > t \/ (LastTerm(l) = t /\ Len(l) >= k)
        BY <2>7, <3>9 DEF Recent
      <4>3. 1 <= t
        <5>1. PICK w \in Seq(Entry) : w = T[t]
          BY <2>1, Zenon DEF TermLogs
        <5>2. k \in 1..Len(w)
          BY <3>3, <5>1
        <5>3. 1 <= w[k].term
          BY <2>1, <5>1, <5>2, Zenon DEF TermLogs
        <5> QED BY <3>4, <5>1, <5>3
      <4>4. \/ Agree(l, T[t], k)
            \/ \E v \in Nat : /\ t < v /\ v = LastTerm(l) /\ l # <<>>
                              /\ ~Agree(T[v], T[t], k)
        BY <2>1, <3>3, <4>1, <4>2, <4>3, <1>RecentLog, Zenon
      <4> QED BY <3>7, <3>8, <4>4, Zenon
    <3>10. Lost(T, t, k, u) \/ Recent(q, t, k)
      BY <2>5, <2>8, <3>2, <3>4, Zenon DEF VotersHeld
    <3> QED BY <3>6, <3>9, <3>10
  <2> QED BY <2>2, <2>6, <2>8, Zenon DEF Covered, Lost
<1> SUFFICES ASSUME TypeInv, TypeInv', ElectionInv, CandidateLogs, [Next]_vars,
                    NEW T, HistoryInv(T), NEW U, HistoryInv(U)', Grows(T, U),
                    NEW A, HeldLogs(T, A), VotersHeld(T, A), LeadersHeld(T, A),
                    NEW B, Acquires(A, B, U)
             PROVE  LeadersHeld(U, B)'
  OBVIOUS
<1> SUFFICES ASSUME NEW u \in Nat, Elected(u)'
             PROVE  \E Q : IsQuorum(Q) /\ \A p \in Q : Covered(p, u, U, B)'
  BY DEF LeadersHeld, IsQuorum
<1>1. CASE Elected(u)
  <2>1. PICK Q : IsQuorum(Q) /\ \A p \in Q : Covered(p, u, T, A)
    BY <1>1 DEF LeadersHeld
  <2>2. \A p \in Q : Covered(p, u, U, B)'
    BY <2>1, <1>CoveredStep DEF IsQuorum
  <2> QED BY <2>1, <2>2
<1>2. CASE ~Elected(u)
  <2>1. PICK i \in Server, r \in voteRpcs :
           VoteWins(i, r) /\ StillCandidate(i) /\ currentTerm[i] = u
    BY <1>2, <1>ElectedStep
  <2>2. u = campaign[i]
    BY <2>1 DEF StillCandidate
  <2>3. PICK Q : IsQuorum(Q) /\ \A n \in Q : Voted(n, i, u)
    BY <2>1, <2>2, WinnersQuorum, Zenon DEF TypeInv, ElectionInv
  <2>4. \A p \in Q : Covered(p, u, U, B)'
    BY <1>2, <2>1, <2>3, <1>WinnerCovers DEF IsQuorum
  <2> QED BY <2>3, <2>4
<1> QED BY <1>1, <1>2

\* CandidateLogs is kept by every step.
LEMMA CandidateLogsStep ==
    ASSUME TypeInv, ElectionInv, RoleInv, CandidateLogs, [Next]_vars
    PROVE  CandidateLogs'
\* A node that can still win its campaign has just started it, or could win it
\* before and has the same log: what writes a log takes the candidate's role.
<1>CandidateStep.
    ASSUME TypeInv, RoleInv, [Next]_vars, NEW i \in Server,
           pc'[i] = "candidate", StillCandidate(i)'
    PROVE  \/ StartCampaign(i)
           \/ /\ pc[i] = "candidate" /\ StillCandidate(i)
              /\ campaign'[i] = campaign[i] /\ log'[i] = log[i]
  <2> USE <1>CandidateStep
  <2> DEFINE Same == /\ pc'[i] = pc[i] /\ campaign'[i] = campaign[i]
                     /\ state'[i] = state[i] /\ currentTerm'[i] = currentTerm[i]
                     /\ log'[i] = log[i]
  <2>1. /\ state \in [Server -> {Follower, Candidate, Leader}]
        /\ pc \in [Server -> {"follower", "campaign", "candidate", "leader"}]
        /\ campaign \in [Server -> Nat] /\ currentTerm \in [Server -> Nat]
        /\ log \in [Server -> Seq(Entry)]
    BY DEF TypeInv, TypeOK
  <2>2. state'[i] = Candidate /\ currentTerm'[i] = campaign'[i]
    BY Zenon DEF StillCandidate
  <2>3. SUFFICES StartCampaign(i) \/ Same
    BY <2>2, Zenon DEF StillCandidate
  <2>4. ASSUME NEW j \in Server, NEW role \in {Follower, Candidate, Leader},
               Enter(j, role)
        PROVE  j # i /\ pc'[i] = pc[i] /\ campaign'[i] = campaign[i]
    BY <2>1, <2>4 DEF Enter, Follower, Candidate, Leader
  <2> USE DEF nodeVars, logVars, loopVars
  <2>5. CASE UNCHANGED vars
    BY <2>5 DEF vars
  <2>6. ASSUME NEW j \in Server, ElectionTimeout(j) PROVE Same
    <3>1. /\ Enter(j, Candidate) /\ state' = [state EXCEPT ![j] = Candidate]
          /\ UNCHANGED <<currentTerm, log>>
      BY <2>6, Zenon DEF ElectionTimeout
    <3> QED BY <2>1, <2>4, <3>1
  <2>7. ASSUME NEW j \in Server, NEW term, becomeFollower(j, term),
               Enter(j, Follower), UNCHANGED log
        PROVE  Same
    <3>1. j # i /\ pc'[i] = pc[i] /\ campaign'[i] = campaign[i]
      BY <2>4, <2>7
    <3> QED BY <2>1, <2>7, <3>1 DEF becomeFollower
  <2>8. ASSUME NEW j \in Server, StartCampaign(j), j # i PROVE Same
    BY <2>1, <2>8, Zenon DEF StartCampaign
  <2>9. ASSUME NEW j \in Server, Enter(j, state[j]), UNCHANGED <<nodeVars, log>>
        PROVE  Same
    <3>1. state[j] \in {Follower, Candidate, Leader}
      BY <2>1
    <3> QED BY <2>4, <2>9, <3>1, Zenon
  <2>10. ASSUME NEW j \in Server, NEW r \in voteRpcs, VoteWins(j, r) PROVE Same
    <3>1. CASE StillCandidate(j)
      <4>1. /\ Enter(j, Leader) /\ state' = [state EXCEPT ![j] = Leader]
            /\ UNCHANGED <<currentTerm, log>>
        BY <2>10, <3>1 DEF VoteWins
      <4> QED BY <2>1, <2>4, <4>1
    <3>2. CASE ~StillCandidate(j)
      BY <2>9, <2>10, <3>2 DEF VoteWins
    <3> QED BY <3>1, <3>2
  <2>11. ASSUME NEW j \in Server, RunGoroutine(j) PROVE StartCampaign(i) \/ Same
    <3>1. ASSUME StepDown(j) PROVE Same
      BY <2>7, <3>1, Zenon DEF StepDown
    <3>2. ASSUME NEW r \in voteRpcs, VoteHigherTerm(j, r) PROVE Same
      BY <2>7, <3>2, Zenon DEF VoteHigherTerm
    <3>3. ASSUME CampaignOver(j) PROVE Same
      BY <2>9, <3>3, Zenon DEF CampaignOver
    <3>4. ASSUME Tick(j) PROVE Same
      BY <2>9, <3>4 DEF Tick
    <3>5. ASSUME NEW r \in voteRpcs, VoteCounted(j, r) PROVE Same
      BY <3>5, Zenon DEF VoteCounted
    <3> HIDE DEF Same
    <3> QED BY <2>6, <2>8, <2>10, <2>11, <3>1, <3>2, <3>3, <3>4, <3>5 DEF RunGoroutine
  <2>12. ASSUME NEW j \in Server, NEW p \in Server, sendHeartbeatToPeer(j, p)
         PROVE  Same
    BY <2>12, Zenon DEF sendHeartbeatToPeer
  <2>13. ASSUME NEW j \in Server, NEW c \in Cmd, Replicate(j, c) PROVE Same
    <3>1. /\ UNCHANGED <<nodeVars, loopVars>> /\ state[j] = Leader
          /\ \E e : log' = [log EXCEPT ![j] = Append(@, e)]
      BY <2>13, Zenon DEF Replicate
    <3>2. j # i
      BY <2>2, <3>1 DEF Candidate, Leader
    <3> QED BY <2>1, <3>1, <3>2
  <2>14. ASSUME NEW c \in Cmd, \/ ReplicateCommit(c)
                               \/ \E p \in Server : replicateToPeer(c, p)
         PROVE  Same
    BY <2>14 DEF ReplicateCommit, replicateToPeer
  <2>15. ASSUME NEW r \in aeRpcs, \/ AppendStale(r) \/ AppendEntriesError(r)
                                  \/ HeartbeatReply(r) \/ ReplicateReply(r)
         PROVE  Same
    BY <2>15, Zenon
    DEF AppendStale, AppendEntriesError, HeartbeatReply, ReplicateReply
  <2>16. ASSUME NEW r \in aeRpcs, AppendMismatch(r) \/ AppendSuccess(r) PROVE Same
    <3>1. r.dst \in Server
      BY Zenon DEF TypeInv, TypeOK, AERpc
    <3>2. /\ currentTerm' = [currentTerm EXCEPT ![r.dst] = r.term]
          /\ state' = [state EXCEPT
               ![r.dst] = IF r.term > currentTerm[r.dst] \/ @ = Candidate
                          THEN Follower ELSE @]
          /\ UNCHANGED loopVars
          /\ \E l : log' = log \/ log' = [log EXCEPT ![r.dst] = l]
      BY <2>16, Zenon DEF AppendMismatch, AppendSuccess, AcceptLeader
    <3>3. r.dst # i
      BY <2>1, <2>2, <3>1, <3>2 DEF Follower, Candidate
    <3> QED BY <2>1, <3>2, <3>3
  <2>17. ASSUME NEW r \in voteRpcs, HandleRequestVote(r) PROVE Same
    <3>1. r.dst \in Server
      BY DEF TypeInv, TypeOK, VoteRpc
    <3>2. /\ UNCHANGED <<loopVars, log>>
          /\ currentTerm' = [currentTerm EXCEPT ![r.dst] = TermAfter(r.dst, r.term)]
          /\ state' = [state EXCEPT ![r.dst] = IF r.term > currentTerm[r.dst]
                                               THEN Follower ELSE @]
      BY <2>17 DEF HandleRequestVote
    <3>3. CASE r.dst # i
      BY <2>1, <3>2, <3>3
    <3>4. CASE r.dst = i
      BY <2>1, <2>2, <3>1, <3>2, <3>4 DEF TermAfter, Follower, Candidate
    <3> QED BY <3>3, <3>4
  <2> HIDE DEF Same
  <2> QED BY <2>5, <2>11, <2>12, <2>13, <2>14, <2>15, <2>16, <2>17
          DEF Next, HandleAppendEntries
<1> SUFFICES ASSUME NEW i \in Server, pc'[i] = "candidate", StillCandidate(i)',
                    NEW q \in voteRpcs', q.src = i, q.term = campaign'[i]
             PROVE  /\ q.lastIndex = LastIndex(log'[i])
                    /\ q.lastTerm = LastTerm(log'[i])
  BY DEF CandidateLogs
<1>1. currentTerm \in [Server -> Nat] /\ campaign \in [Server -> Nat]
  BY DEF TypeInv, TypeOK
<1>2. ASSUME NEW r \in voteRpcs, r.src = i, r.term = campaign'[i],
             q.lastIndex = r.lastIndex, q.lastTerm = r.lastTerm
      PROVE  /\ q.lastIndex = LastIndex(log'[i])
             /\ q.lastTerm = LastTerm(log'[i])
  <2>1. ~StartCampaign(i)
    <3> SUFFICES ASSUME StartCampaign(i) PROVE FALSE
      OBVIOUS
    <3>1. r.term = currentTerm[i] + 1
      BY <1>1, <1>2, Zenon DEF StartCampaign
    <3>2. r.term <= currentTerm[i]
      BY <1>2, VotersAreInTerm DEF VotersInTerm, VoterOf
    <3> QED BY <1>1, <3>1, <3>2
  <2>2. /\ pc[i] = "candidate" /\ StillCandidate(i)
        /\ campaign'[i] = campaign[i] /\ log'[i] = log[i]
    BY <2>1, <1>CandidateStep
  <2> QED BY <1>2, <2>2 DEF CandidateLogs
<1>3. CASE q \in voteRpcs
  BY <1>2, <1>3
<1>4. ASSUME NEW j \in Server, StartCampaign(j), q.src = j,
             q.lastIndex = LastIndex(log[j]), q.lastTerm = LastTerm(log[j])
      PROVE  /\ q.lastIndex = LastIndex(log'[i])
             /\ q.lastTerm = LastTerm(log'[i])
  BY <1>4, Zenon DEF StartCampaign, logVars
<1> QED BY <1>2, <1>3, <1>4, VoteExchanges, Zenon

-----------------------------------------------------------------------------
(* Exchanges and calls *)

\* An exchange that was under way, answered no differently
SameExchange(m) ==
    \E q \in aeRpcs :
        /\ m.dst = q.dst /\ m.term = q.term
        /\ m.prevIndex = q.prevIndex /\ m.entries = q.entries
        /\ (m.done /\ m.success) => (q.done /\ q.success)
        /\ m.caller = "replicate" => q.caller = "replicate" /\ m.cmd = q.cmd

\* The request replicateToPeer sends
CallRequest(c, p) ==
    AERequest("replicate", c, call[c].node, p, call[c].term,
              nextIndex[call[c].node][p] - 1,
              EntriesBetween(log[call[c].node], nextIndex[call[c].node][p],
                             call[c].index),
              call[c].commit)

\* The AppendEntries exchanges after a step
LEMMA ExchangeSteps ==
    ASSUME TypeInv, [Next]_vars, NEW m \in aeRpcs'
    PROVE  \/ SameExchange(m)
           \/ ~m.done /\ m.caller = "heartbeat"
           \/ \E c \in Cmd, p \in Server :
                 /\ p \in call[c].ready /\ m = CallRequest(c, p)
                 /\ state[call[c].node] = Leader
                 /\ currentTerm[call[c].node] = call[c].term
           \/ \E r \in aeRpcs :
                 /\ AppendSuccess(r)
                 /\ m.dst = r.dst /\ m.term = r.term
                 /\ m.prevIndex = r.prevIndex /\ m.entries = r.entries
                 /\ m.caller = r.caller /\ m.cmd = r.cmd
<1>1. \A q \in aeRpcs : SameExchange(q)
  BY DEF SameExchange
<1>2. CASE m \in aeRpcs
  BY <1>1, <1>2, Zenon
<1>3. ASSUME NEW r \in aeRpcs, NEW term, NEW success, Answer(r, term, success),
             m \notin aeRpcs
      PROVE  /\ m.dst = r.dst /\ m.term = r.term
             /\ m.prevIndex = r.prevIndex /\ m.entries = r.entries
             /\ m.caller = r.caller /\ m.cmd = r.cmd /\ m.success = success
  <2>1. m = [r EXCEPT !.done = TRUE, !.replyTerm = term, !.success = success]
    BY <1>3 DEF Answer
  <2>2. r \in AERpc
    BY DEF TypeInv, TypeOK
  <2> QED BY <2>1, <2>2 DEF AERpc
<1>4. ASSUME NEW r \in aeRpcs, AppendStale(r) \/ AppendMismatch(r), m \notin aeRpcs
      PROVE  SameExchange(m)
  <2>1. \E term : Answer(r, term, FALSE)
    BY <1>4, Zenon DEF AppendStale, AppendMismatch
  <2>2. /\ m.dst = r.dst /\ m.term = r.term
        /\ m.prevIndex = r.prevIndex /\ m.entries = r.entries
        /\ m.caller = r.caller /\ m.cmd = r.cmd /\ m.success = FALSE
    BY <1>3, <1>4, <2>1, Zenon
  <2> QED BY <2>2 DEF SameExchange
<1>5. ASSUME NEW r \in aeRpcs, AppendSuccess(r), m \notin aeRpcs
      PROVE  /\ m.dst = r.dst /\ m.term = r.term
             /\ m.prevIndex = r.prevIndex /\ m.entries = r.entries
             /\ m.caller = r.caller /\ m.cmd = r.cmd
  <2>1. Answer(r, r.term, TRUE)
    BY <1>5, Zenon DEF AppendSuccess
  <2> QED BY <1>3, <1>5, <2>1, Zenon
<1>6. ASSUME NEW r \in aeRpcs, AppendEntriesError(r), m \notin aeRpcs
      PROVE  SameExchange(m)
  <2>1. m = [r EXCEPT !.caller = "gone", !.cmd = None] /\ ~r.done
    BY <1>6 DEF AppendEntriesError
  <2>2. r \in AERpc
    BY DEF TypeInv, TypeOK
  <2>3. /\ m.dst = r.dst /\ m.term = r.term /\ m.prevIndex = r.prevIndex
        /\ m.entries = r.entries /\ m.done = r.done /\ m.caller = "gone"
    BY <2>1, <2>2, Zenon DEF AERpc
  <2> QED BY <2>1, <2>3 DEF SameExchange
<1>7. ASSUME NEW i \in Server, NEW p \in Server, sendHeartbeatToPeer(i, p),
             m \notin aeRpcs
      PROVE  ~m.done /\ m.caller = "heartbeat"
  BY <1>7, SMTT(30) DEF sendHeartbeatToPeer, AERequest
<1>8. ASSUME NEW c \in Cmd, NEW p \in Server, replicateToPeer(c, p), m \notin aeRpcs
      PROVE  /\ p \in call[c].ready /\ m = CallRequest(c, p)
             /\ state[call[c].node] = Leader
             /\ currentTerm[call[c].node] = call[c].term
  BY <1>8, Zenon DEF replicateToPeer, CallRequest
<1>9. ASSUME NEW r \in aeRpcs, HeartbeatReply(r) \/ ReplicateReply(r)
      PROVE  m \in aeRpcs
  BY <1>9 DEF HeartbeatReply, ReplicateReply
<1>10. CASE UNCHANGED aeRpcs
  BY <1>1, <1>10
<1>11. ASSUME NEW i \in Server, \/ RunGoroutine(i)
                                \/ \E c \in Cmd : Replicate(i, c)
       PROVE  UNCHANGED aeRpcs
  BY <1>11, Zenon
  DEF RunGoroutine, ElectionTimeout, StepDown, StartCampaign, CampaignOver,
               Tick, VoteHigherTerm, VoteCounted, VoteWins, Replicate
<1>12. ASSUME NEW c \in Cmd, ReplicateCommit(c) PROVE UNCHANGED aeRpcs
  BY <1>12 DEF ReplicateCommit
<1>13. ASSUME NEW r \in voteRpcs, HandleRequestVote(r) PROVE UNCHANGED aeRpcs
  BY <1>13 DEF HandleRequestVote
<1>14. CASE UNCHANGED vars
  BY <1>10, <1>14, Zenon DEF vars
<1> QED BY <1>2, <1>4, <1>5, <1>6, <1>7, <1>8, <1>9, <1>10, <1>11, <1>12, <1>13,
           <1>14, Zenon
        DEF Next, HandleAppendEntries

\* What a step does to the call of command c
CallStep(c) ==
    \/ call'[c] = call[c]
    \/ \E i \in Server : Replicate(i, c)
    \/ /\ call[c].st # "none" /\ call'[c].st = call[c].st
       /\ call'[c].acks = call[c].acks
    \/ \E r \in aeRpcs : /\ call[c].st # "none" /\ call'[c].st = call[c].st
                         /\ r.caller = "replicate" /\ r.cmd = c
                         /\ r.done /\ r.success
                         /\ call'[c].acks = call[c].acks \union {r.dst}
    \/ /\ call[c].st # "none" /\ call'[c].acks = call[c].acks
       /\ Cardinality(call[c].acks) + 1 >= Majority

\* A call keeps its node, its index and its term.
LEMMA CallSteps ==
    ASSUME TypeInv, [Next]_vars, NEW c \in Cmd
    PROVE  /\ CallStep(c)
           /\ call[c].st # "none" =>
                /\ call'[c].st # "none" /\ call'[c].node = call[c].node
                /\ call'[c].index = call[c].index /\ call'[c].term = call[c].term
<1>1. call \in [Cmd -> Call]
  BY DEF TypeInv, TypeOK
<1>2. CASE call'[c] = call[c]
  BY <1>2, Zenon DEF CallStep
<1>3. ASSUME NEW i \in Server, NEW d \in Cmd, Replicate(i, d)
      PROVE  call'[c] = call[c] \/ (d = c /\ call[c].st = "none")
  BY <1>1, <1>3 DEF Replicate
<1>4. ASSUME NEW d \in Cmd, NEW p \in Server, replicateToPeer(d, p)
      PROVE  \/ call'[c] = call[c]
             \/ call[c].st # "none" /\ call'[c] = [call[c] EXCEPT !.ready = @ \ {p}]
  <2>1. call[d].st # "none"
    BY <1>4 DEF replicateToPeer, TypeInv, CallOfNode
  <2>2. call' = [call EXCEPT ![d].ready = @ \ {p}]
    BY <1>4 DEF replicateToPeer
  <2> QED BY <1>1, <2>1, <2>2, Zenon
<1>5. ASSUME NEW r \in aeRpcs, ReplicateReply(r)
      PROVE  \/ call'[c] = call[c]
             \/ /\ call[c].st # "none"
                /\ call'[c] = [call[c] EXCEPT !.ready = @ \union {r.dst}]
             \/ /\ call[c].st # "none" /\ r.caller = "replicate" /\ r.cmd = c
                /\ r.done /\ r.success
                /\ call'[c] = [call[c] EXCEPT !.acks = @ \union {r.dst}]
  <2>1. r.caller = "replicate" /\ r.cmd \in Cmd /\ call[r.cmd].st # "none" /\ r.done
    BY <1>5 DEF ReplicateReply, TypeInv, ExchangeOfCall
  <2>2. \/ call' = call
        \/ call' = [call EXCEPT ![r.cmd].ready = @ \union {r.dst}]
        \/ r.success /\ call' = [call EXCEPT ![r.cmd].acks = @ \union {r.dst}]
    BY <1>5 DEF ReplicateReply
  <2>3. CASE r.cmd = c
    BY <1>1, <2>1, <2>2, <2>3
  <2>4. CASE r.cmd # c
    BY <1>1, <2>1, <2>2, <2>4
  <2> QED BY <2>3, <2>4, Zenon
<1>6. ASSUME NEW d \in Cmd, ReplicateCommit(d)
      PROVE  \/ call'[c] = call[c]
             \/ /\ call[c].st # "none" /\ call'[c] = [call[c] EXCEPT !.st = "ok"]
                /\ Cardinality(call[c].acks) + 1 >= Majority
  BY <1>1, <1>6 DEF ReplicateCommit
<1>7. CASE \E i \in Server, d \in Cmd : Replicate(i, d)
  BY <1>2, <1>3, <1>7, Zenon DEF CallStep
<1>8. CASE \E d \in Cmd, p \in Server : replicateToPeer(d, p)
  BY <1>1, <1>2, <1>4, <1>8, Zenon DEF CallStep, Call
<1>9. CASE \E r \in aeRpcs : ReplicateReply(r)
  <2>1. PICK r \in aeRpcs : ReplicateReply(r)
    BY <1>9
  <2>2. CASE /\ call[c].st # "none"
             /\ call'[c] = [call[c] EXCEPT !.ready = @ \union {r.dst}]
    BY <1>1, <2>2 DEF CallStep, Call
  <2>3. CASE /\ call[c].st # "none" /\ r.caller = "replicate" /\ r.cmd = c
             /\ r.done /\ r.success
             /\ call'[c] = [call[c] EXCEPT !.acks = @ \union {r.dst}]
    <3>1. /\ call'[c].st = call[c].st /\ call'[c].node = call[c].node
          /\ call'[c].index = call[c].index /\ call'[c].term = call[c].term
          /\ call'[c].acks = call[c].acks \union {r.dst}
      BY <1>1, <2>3 DEF Call
    <3> QED BY <2>1, <2>3, <3>1, Zenon DEF CallStep
  <2> QED BY <1>2, <1>5, <2>1, <2>2, <2>3
<1>10. CASE \E d \in Cmd : ReplicateCommit(d)
  BY <1>1, <1>2, <1>6, <1>10 DEF CallStep, Call
<1>11. CASE UNCHANGED call
  BY <1>2, <1>11, Zenon
<1>12. ASSUME NEW i \in Server, \/ RunGoroutine(i)
                                \/ \E p \in Server : sendHeartbeatToPeer(i, p)
       PROVE  UNCHANGED call
  BY <1>12, Zenon
  DEF RunGoroutine, ElectionTimeout, StepDown, StartCampaign, CampaignOver,
               Tick, VoteHigherTerm, VoteCounted, VoteWins, sendHeartbeatToPeer
<1>13. ASSUME NEW r \in voteRpcs, HandleRequestVote(r) PROVE UNCHANGED call
  BY <1>13 DEF HandleRequestVote
<1>14. ASSUME NEW r \in aeRpcs, \/ HandleAppendEntries(r)
                                \/ AppendEntriesError(r)
                                \/ HeartbeatReply(r)
       PROVE  UNCHANGED call
  BY <1>14, Zenon
  DEF HandleAppendEntries, AppendStale, AppendMismatch, AppendSuccess,
               AppendEntriesError, HeartbeatReply
<1>15. CASE UNCHANGED vars
  BY <1>11, <1>15, Zenon DEF vars
<1> QED BY <1>7, <1>8, <1>9, <1>10, <1>11, <1>12, <1>13, <1>14, <1>15, Zenon
        DEF Next

\* replicateToPeer's batch goes up to last, where the log does.
LEMMA EntriesBetweenReaches ==
    ASSUME NEW S, NEW l \in Seq(S), NEW first \in Nat, first >= 1,
           NEW last \in Nat, last <= Len(l)
    PROVE  /\ EntriesBetween(l, first, last) \in Seq(S)
           /\ last <= first - 1 + Len(EntriesBetween(l, first, last))
<1>1. EntriesBetween(l, first, last) = SubSeq(l, first, last)
  BY DEF EntriesBetween
<1>2. \A k \in first..last : l[k] \in S
  OBVIOUS
<1>3. /\ SubSeq(l, first, last) \in Seq(S)
      /\ Len(SubSeq(l, first, last)) = IF first <= last THEN last - first + 1 ELSE 0
  BY <1>2, SubSeqFacts
<1> QED BY <1>1, <1>3

\* Answers are of what the node holds.
LEMMA AnswersHeldStep ==
    ASSUME TypeInv, [Next]_vars, NEW A, AnswersHeld(A), NEW B, A \subseteq B,
           \A r \in aeRpcs : AppendSuccess(r) =>
              \A k \in 1..(r.prevIndex + Len(r.entries)) : <<r.dst, r.term, k>> \in B
    PROVE  AnswersHeld(B)'
<1> SUFFICES ASSUME NEW m \in aeRpcs', m.done, m.success,
                    NEW k \in 1..(m.prevIndex + Len(m.entries))
             PROVE  <<m.dst, m.term, k>> \in B
  BY DEF AnswersHeld
<1>1. CASE SameExchange(m)
  <2>1. PICK q \in aeRpcs :
           /\ m.dst = q.dst /\ m.term = q.term
           /\ m.prevIndex = q.prevIndex /\ m.entries = q.entries
           /\ q.done /\ q.success
    BY <1>1, Zenon DEF SameExchange
  <2>2. k \in 1..(q.prevIndex + Len(q.entries))
    BY <2>1, Zenon
  <2>3. <<q.dst, q.term, k>> \in A
    BY <2>1, <2>2, Zenon DEF AnswersHeld
  <2> QED BY <2>1, <2>3, Zenon
<1>2. ASSUME NEW r \in aeRpcs, AppendSuccess(r), m.dst = r.dst, m.term = r.term,
             m.prevIndex = r.prevIndex, m.entries = r.entries
      PROVE  <<m.dst, m.term, k>> \in B
  <2>1. k \in 1..(r.prevIndex + Len(r.entries))
    BY <1>2, Zenon
  <2> QED BY <1>2, <2>1, Zenon
<1>3. ASSUME NEW c \in Cmd, NEW p \in Server, m = CallRequest(c, p) PROVE ~m.done
  BY <1>3, Zenon DEF CallRequest, AERequest
<1> QED BY <1>1, <1>2, <1>3, ExchangeSteps, Zenon

\* A leader sends all of its log up to the entry of its call.
LEMMA RequestsReachStep ==
    ASSUME TypeInv, RoleInv, [Next]_vars, NEW T, HistoryInv(T),
           NEW A, CallsHeld(T, A), RequestsReach
    PROVE  RequestsReach'
<1> SUFFICES ASSUME NEW m \in aeRpcs', m.caller = "replicate"
             PROVE  /\ m.term = call'[m.cmd].term
                    /\ call'[m.cmd].index <= m.prevIndex + Len(m.entries)
  BY DEF RequestsReach
<1>1. ASSUME NEW q \in aeRpcs, q.caller = "replicate", m.cmd = q.cmd,
             m.term = q.term, m.prevIndex = q.prevIndex, m.entries = q.entries
      PROVE  /\ m.term = call'[m.cmd].term
             /\ call'[m.cmd].index <= m.prevIndex + Len(m.entries)
  <2>1. q.cmd \in Cmd /\ call[q.cmd].st # "none"
    BY <1>1 DEF TypeInv, ExchangeOfCall
  <2>2. /\ call'[q.cmd].index = call[q.cmd].index
        /\ call'[q.cmd].term = call[q.cmd].term
    BY <2>1, CallSteps
  <2>3. /\ q.term = call[q.cmd].term
        /\ call[q.cmd].index <= q.prevIndex + Len(q.entries)
    BY <1>1 DEF RequestsReach
  <2> QED BY <1>1, <2>2, <2>3, Zenon
<1>2. ASSUME NEW c \in Cmd, NEW p \in Server, p \in call[c].ready,
             m = CallRequest(c, p), state[call[c].node] = Leader,
             currentTerm[call[c].node] = call[c].term
      PROVE  /\ m.term = call'[m.cmd].term
             /\ call'[m.cmd].index <= m.prevIndex + Len(m.entries)
  <2>1. /\ call[c] \in Call /\ call[c].st # "none" /\ call[c].node \in Server
        /\ p \in Peers(call[c].node)
    BY <1>2, Zenon DEF TypeInv, TypeOK, CallOfNode
  <2>2. PICK i \in Server : i = call[c].node
    BY <2>1
  <2>3. PICK k \in Nat : k = call[c].index
    BY <2>1 DEF Call
  <2>4. PICK l \in Seq(Entry) : l = log[i]
    BY NodeTypes, Zenon DEF TypeInv
  <2>5. PICK next \in Nat : next = nextIndex[i][p] /\ next >= 1
    <3>1. nextIndex[i] \in [Server -> Nat]
      BY NodeTypes, Zenon DEF TypeInv
    <3>2. nextIndex[i][p] \in Nat
      BY <3>1, Zenon
    <3>3. nextIndex[i][p] >= 1
      BY <1>2, <2>1, <2>2, Zenon DEF TypeInv, NextPositive
    <3> QED BY <3>2, <3>3, Zenon
  <2>6. k <= Len(l)
    <3>1. k <= Len(T[call[c].term])
      BY <2>1, <2>3, Zenon DEF CallsHeld, CallHeld
    <3>2. T[currentTerm[i]] = log[i]
      BY <1>2, <2>2, Zenon DEF RoleInv, LeadersElected, HistoryInv, LeaderLogs
    <3> QED BY <1>2, <2>2, <2>4, <3>1, <3>2
  <2>7. PICK e \in Seq(Entry) :
           e = EntriesBetween(l, next, k) /\ k <= next - 1 + Len(e)
    <3>1. /\ EntriesBetween(l, next, k) \in Seq(Entry)
          /\ k <= next - 1 + Len(EntriesBetween(l, next, k))
      BY <2>5, <2>6, EntriesBetweenReaches
    <3> QED BY <3>1, Zenon
  <2>8. /\ m.cmd = c /\ m.term = call[c].term
        /\ m.prevIndex = nextIndex[call[c].node][p] - 1
        /\ m.entries = EntriesBetween(log[call[c].node], nextIndex[call[c].node][p],
                                      call[c].index)
    BY <1>2, Zenon DEF CallRequest, AERequest
  <2>9. m.prevIndex = next - 1 /\ m.entries = e
    BY <2>2, <2>3, <2>4, <2>5, <2>7, <2>8, Zenon
  <2>10. call'[c].index = call[c].index /\ call'[c].term = call[c].term
    BY <2>1, CallSteps, Zenon
  <2> QED BY <2>3, <2>7, <2>8, <2>9, <2>10, Zenon
<1>3. ASSUME SameExchange(m)
      PROVE  \E q \in aeRpcs : /\ q.caller = "replicate" /\ m.cmd = q.cmd
                               /\ m.term = q.term /\ m.prevIndex = q.prevIndex
                               /\ m.entries = q.entries
  BY <1>3, Zenon DEF SameExchange
<1> QED BY <1>1, <1>2, <1>3, ExchangeSteps, Zenon

\* Entry k, of term t and with command c, is in the log of node i and the term's.
InTerm(U, i, c, t, k) ==
    /\ t \in Nat /\ k \in Nat /\ 1 <= k
    /\ currentTerm'[i] = t /\ <<t, i>> \in elected'
    /\ k <= Len(U[t]) /\ U[t][k].term = t /\ U[t][k].cmd = c
    /\ Agree(log'[i], U[t], k)

\* Replicate's new entry ends the log of its term.
LEMMA ReplicateAppends ==
    ASSUME TypeInv, TypeInv', RoleInv, [Next]_vars,
           NEW U, HistoryInv(U)',
           NEW i \in Server, NEW c \in Cmd, Replicate(i, c),
           NEW t, t = currentTerm[i], NEW k, k = LastIndex(log[i]) + 1
    PROVE  InTerm(U, i, c, t, k)
<1>1. PICK l \in Seq(Entry) : l = log[i]
  BY NodeTypes, Zenon DEF TypeInv
<1>2. t \in Nat /\ k \in Nat /\ 1 <= k /\ k = Len(l) + 1
  BY <1>1, NodeTypes DEF TypeInv, LastIndex
<1>3. PICK e : e = [term |-> t, index |-> k, cmd |-> c]
  BY Zenon
<1>4. e \in Entry /\ e.term = t /\ e.cmd = c
  BY <1>2, <1>3 DEF Entry
<1>5. PICK w \in Seq(Entry) : w = Append(l, e)
  BY <1>4, AppendFacts, Zenon
<1>6. Len(w) = k /\ k <= Len(w) /\ w[k] = e
  BY <1>2, <1>4, <1>5, AppendFacts
<1>7. log'[i] = w
  <2>1. log' = [log EXCEPT ![i] = w]
    BY <1>1, <1>3, <1>5 DEF Replicate
  <2> QED BY <2>1, Zenon DEF TypeInv, TypeOK
<1>8. currentTerm' = currentTerm /\ <<t, i>> \in elected'
  <2>1. <<t, i>> \in elected
    BY DEF Replicate, RoleInv, LeadersElected
  <2> QED BY <2>1, Zenon DEF Replicate, nodeVars, history
<1>9. U[t] = w
  <2>1. LeaderLogs(U)'
    BY DEF HistoryInv
  <2> QED BY <1>7, <1>8, <2>1 DEF LeaderLogs
<1>10. Agree(w, w, k)
  BY <1>2, <1>6 DEF Agree
<1> QED BY <1>2, <1>4, <1>6, <1>7, <1>8, <1>9, <1>10, Zenon DEF InTerm

\* An index that is not past the end of what a request carries
LEMMA UpToSum ==
    ASSUME NEW k \in Nat, NEW a \in Nat, NEW b \in Nat, 1 <= k, k <= a + b
    PROVE  k \in 1..(a + b)
OBVIOUS

\* Replicate's majority stays one when more acknowledgements come in.
LEMMA MoreAcks ==
    ASSUME Sizes, NEW V \in SUBSET Server, NEW W \in SUBSET Server, V \subseteq W,
           Cardinality(V) + 1 >= Majority
    PROVE  Cardinality(W) + 1 >= Majority
<1>1. /\ Cardinality(V) \in Nat /\ Cardinality(W) \in Nat /\ Cardinality(Server) \in Nat
      /\ Cardinality(V) <= Cardinality(W)
  BY DEF Sizes
<1> QED BY <1>1 DEF Majority

\* Whoever a call has counted had its entry.
LEMMA CallsHeldStep ==
    ASSUME TypeInv, TypeInv', RoleInv, [Next]_vars,
           NEW T, HistoryInv(T), NEW U, HistoryInv(U)', Grows(T, U),
           NEW A, AnswersHeld(A), RequestsReach, CallsHeld(T, A),
           NEW B, A \subseteq B,
           \A i \in Server, c \in Cmd : Replicate(i, c) =>
              <<i, currentTerm[i], LastIndex(log[i]) + 1>> \in B
    PROVE  CallsHeld(U, B)'
<1> SUFFICES ASSUME NEW c \in Cmd, call'[c].st # "none" PROVE CallHeld(c, U, B)'
  BY Zenon DEF CallsHeld
<1>1. CASE call[c].st # "none"
  <2>1. call[c] \in Call /\ call[c].node \in Server
    BY <1>1, Zenon DEF TypeInv, TypeOK, CallOfNode
  <2>2. PICK n \in Server : n = call[c].node
    BY <2>1, Zenon
  <2>3. PICK t \in Nat : t = call[c].term
    BY <2>1, Zenon DEF Call
  <2>4. PICK k \in Nat : k = call[c].index
    BY <2>1, Zenon DEF Call
  <2>5. call'[c].node = n /\ call'[c].index = k /\ call'[c].term = t
    BY <1>1, <2>2, <2>3, <2>4, CallSteps, Zenon
  <2>6. /\ <<t, n>> \in elected
        /\ 1 <= k /\ k <= Len(T[t]) /\ T[t][k].term = t /\ T[t][k].cmd = c
        /\ <<n, t, k>> \in A /\ n \notin call[c].acks
        /\ \A p \in call[c].acks : <<p, t, k>> \in A
        /\ call[c].st = "ok" => Cardinality(call[c].acks) + 1 >= Majority
    BY <1>1, <2>2, <2>3, <2>4, Zenon DEF CallsHeld, CallHeld
  <2>7. <<t, n>> \in elected' /\ k <= Len(U[t]) /\ U[t][k] = T[t][k]
    <3>1. TermLogs(T)
      BY Zenon DEF HistoryInv
    <3>2. k <= Len(U[t]) /\ U[t][k] = T[t][k]
      BY <2>6, <3>1, EntryStays
    <3> QED BY <2>6, <3>2, ElectedStays, Zenon
  <2>8. /\ n \notin call'[c].acks
        /\ \A p \in call'[c].acks : <<p, t, k>> \in A
        /\ call'[c].st = "ok" => Cardinality(call'[c].acks) + 1 >= Majority
    <3>1. CASE call'[c] = call[c]
      BY <2>6, <3>1, Zenon
    <3>2. CASE call'[c].st = call[c].st /\ call'[c].acks = call[c].acks
      BY <2>6, <3>2, Zenon
    <3>3. CASE \E r \in aeRpcs : /\ call'[c].st = call[c].st
                                 /\ r.caller = "replicate" /\ r.cmd = c
                                 /\ r.done /\ r.success
                                 /\ call'[c].acks = call[c].acks \union {r.dst}
      <4>1. PICK r \in aeRpcs : /\ call'[c].st = call[c].st
                                /\ r.caller = "replicate" /\ r.cmd = c
                                /\ r.done /\ r.success
                                /\ call'[c].acks = call[c].acks \union {r.dst}
        BY <3>3, Zenon
      <4>2. /\ r.src # r.dst /\ r.src = n
            /\ r.term = t /\ k <= r.prevIndex + Len(r.entries)
        BY <2>2, <2>3, <2>4, <4>1, Zenon DEF TypeInv, ExchangeOfCall, RequestsReach
      <4>3. r.prevIndex \in Nat /\ Len(r.entries) \in Nat
        <5>1. r \in AERpc
          BY DEF TypeInv, TypeOK
        <5>2. r.prevIndex \in Nat /\ r.entries \in Seq(Entry)
          BY <5>1, Zenon DEF AERpc
        <5> QED BY <5>2, LenFacts, Zenon
      <4>4. k \in 1..(r.prevIndex + Len(r.entries))
        BY <2>6, <4>2, <4>3, UpToSum, Zenon
      <4>5. <<r.dst, t, k>> \in A
        <5>1. <<r.dst, r.term, k>> \in A
          BY <4>1, <4>4, Zenon DEF AnswersHeld
        <5> QED BY <4>2, <5>1, Zenon
      <4>6. call[c].st = "ok" => Cardinality(call'[c].acks) + 1 >= Majority
        <5>1. call[c].acks \in SUBSET Server /\ r.dst \in Server
          BY <2>1, Zenon DEF Call, TypeInv, TypeOK, AERpc
        <5>2. /\ call'[c].acks \in SUBSET Server
              /\ call[c].acks \subseteq call'[c].acks
          BY <4>1, <5>1, Zenon
        <5> QED BY <2>6, <5>1, <5>2, MoreAcks, Zenon DEF TypeInv
      <4> QED BY <2>6, <4>1, <4>2, <4>5, <4>6, Zenon
    <3>4. CASE /\ call'[c].acks = call[c].acks
               /\ Cardinality(call[c].acks) + 1 >= Majority
      BY <2>6, <3>4, Zenon
    <3>5. ASSUME NEW i \in Server, Replicate(i, c) PROVE FALSE
      BY <1>1, <3>5, Zenon DEF Replicate
    <3> QED BY <3>1, <3>2, <3>3, <3>4, <3>5, CallSteps, Zenon DEF CallStep
  <2> QED BY <2>5, <2>6, <2>7, <2>8, Zenon DEF CallHeld
<1>2. CASE call[c].st = "none"
  <2>1. PICK i \in Server : Replicate(i, c)
    BY <1>2, CallSteps, Zenon DEF CallStep
  <2>2. PICK t : t = currentTerm[i]
    BY Zenon
  <2>3. PICK k : k = LastIndex(log[i]) + 1
    BY Zenon
  <2>4. /\ call'[c].node = i /\ call'[c].index = k /\ call'[c].term = t
        /\ call'[c].acks = {} /\ call'[c].st = "open"
    <3>1. call \in [Cmd -> Call]
      BY DEF TypeInv, TypeOK
    <3>2. call' = [call EXCEPT ![c] =
                     [st |-> "open", node |-> i, index |-> k, term |-> t,
                      commit |-> commitIndex[i], ready |-> Peers(i), acks |-> {}]]
      BY <2>1, <2>2, <2>3, Zenon DEF Replicate
    <3> QED BY <3>1, <3>2, Zenon
  <2>5. /\ k \in Nat /\ 1 <= k /\ <<t, i>> \in elected'
        /\ k <= Len(U[t]) /\ U[t][k].term = t /\ U[t][k].cmd = c
    <3>1. InTerm(U, i, c, t, k)
      BY <2>1, <2>2, <2>3, ReplicateAppends, Zenon
    <3> QED BY <3>1, Zenon DEF InTerm
  <2>6. <<i, t, k>> \in B
    BY <2>1, <2>2, <2>3, Zenon
  <2> QED BY <2>4, <2>5, <2>6, Zenon DEF CallHeld
<1> QED BY <1>1, <1>2, Zenon

\* Every step, the history A completed by what the nodes now hold of their terms.
LEMMA HeldStep ==
    ASSUME TypeInv, TypeInv', ElectionInv, ElectionInv', RoleInv, CandidateLogs,
           [Next]_vars, NEW T, HistoryInv(T), NEW U, HistoryInv(U)', Grows(T, U),
           NEW A, HeldInv(T, A)
    PROVE  \E B : HeldInv(U, B)'
<1>1. /\ HeldLogs(T, A) /\ VotersHeld(T, A) /\ LeadersHeld(T, A)
      /\ AnswersHeld(A) /\ RequestsReach /\ CallsHeld(T, A)
  BY DEF HeldInv
<1>2. PICK B : B = A \union {x \in Server \X Nat \X Nat :
                               /\ x[2] = currentTerm'[x[1]] /\ 1 <= x[3]
                               /\ Agree(log'[x[1]], U[x[2]], x[3])}
  BY Zenon
<1>3. A \subseteq B
  BY <1>2
<1>4. ASSUME NEW p \in Server, NEW t \in Nat, NEW k \in Nat
      PROVE  <<p, t, k>> \in B <=>
               \/ <<p, t, k>> \in A
               \/ t = currentTerm'[p] /\ 1 <= k /\ Agree(log'[p], U[t], k)
  BY <1>2
<1>5. Acquires(A, B, U)
  BY <1>3, <1>4, Zenon DEF Acquires
<1>6. ASSUME NEW r \in aeRpcs, AppendSuccess(r),
             NEW k \in 1..(r.prevIndex + Len(r.entries))
      PROVE  <<r.dst, r.term, k>> \in B
  <2>1. PICK n : n = r.prevIndex + Len(r.entries)
    OBVIOUS
  <2>2. n \in Nat /\ Agree(log'[r.dst], T[r.term], n)
    BY <1>6, <2>1, AppendFollowsLeader, Zenon
  <2>3. r.dst \in Server /\ r.term \in Nat
    BY Zenon DEF TypeInv, TypeOK, AERpc
  <2>4. PICK l \in Seq(Entry) : l = log'[r.dst]
    BY <2>3, Zenon DEF TypeInv, TypeOK
  <2>5. TermLogs(T) /\ TermLogs(U)
    BY Zenon DEF HistoryInv, TermLogs
  <2>6. Agree(l, U[r.term], n)
    BY <2>2, <2>3, <2>4, <2>5, AgreeGrows, Zenon
  <2>7. k \in Nat /\ 1 <= k /\ k <= n
    BY <2>1, <2>2
  <2>8. Agree(l, U[r.term], k)
    <3>1. PICK m \in Seq(Entry) : m = U[r.term]
      BY <2>3, <2>5, Zenon DEF TermLogs
    <3>2. Agree(l, m, n)
      BY <2>6, <3>1, Zenon
    <3>3. Agree(l, m, k)
      BY <2>2, <2>7, <3>2 DEF Agree
    <3> QED BY <3>1, <3>3, Zenon
  <2>9. r.term = currentTerm'[r.dst]
    BY <1>6, <2>3, Zenon DEF AppendSuccess, AcceptLeader, TypeInv, TypeOK
  <2> QED BY <1>4, <2>3, <2>4, <2>7, <2>8, <2>9, Zenon
<1>7. ASSUME NEW i \in Server, NEW c \in Cmd, Replicate(i, c)
      PROVE  <<i, currentTerm[i], LastIndex(log[i]) + 1>> \in B
  <2>1. PICK t : t = currentTerm[i]
    OBVIOUS
  <2>2. PICK k : k = LastIndex(log[i]) + 1
    OBVIOUS
  <2>3. /\ t \in Nat /\ k \in Nat /\ 1 <= k /\ currentTerm'[i] = t
        /\ Agree(log'[i], U[t], k)
    <3>1. InTerm(U, i, c, t, k)
      BY <1>7, <2>1, <2>2, ReplicateAppends, Zenon
    <3> QED BY <3>1, Zenon DEF InTerm
  <2> QED BY <1>4, <2>1, <2>2, <2>3, Zenon
<1>8. HeldLogs(U, B)'
  BY <1>1, <1>5, HeldLogsStep
<1>9. VotersHeld(U, B)'
  BY <1>1, <1>5, VotersHeldStep
<1>10. LeadersHeld(U, B)'
  BY <1>1, <1>5, LeadersHeldStep
<1>11. AnswersHeld(B)'
  BY <1>1, <1>3, <1>6, AnswersHeldStep
<1>12. RequestsReach'
  BY <1>1, RequestsReachStep
<1>13. CallsHeld(U, B)'
  BY <1>1, <1>3, <1>7, CallsHeldStep, Zenon
<1> QED BY <1>8, <1>9, <1>10, <1>11, <1>12, <1>13 DEF HeldInv

-----------------------------------------------------------------------------
(* The theorems *)

CompleteInv ==
    /\ TypeInv
    /\ ElectionInv
    /\ RoleInv
    /\ CandidateLogs
    /\ ~usurped => \E T, A : HistoryInv(T) /\ HeldInv(T, A)

\* At first nothing has been voted, sent or replicated.
LEMMA CompleteInit == WellOrdered /\ Sizes /\ Init => CompleteInv
<1> SUFFICES ASSUME WellOrdered, Sizes, Init PROVE CompleteInv
  OBVIOUS
<1>1. TypeInv /\ ElectionInv /\ RoleInv /\ (~usurped => \E T : HistoryInv(T))
  BY LogInit, Zenon DEF LogInv
<1>2. CandidateLogs
  BY DEF Init, CandidateLogs
<1>3. ASSUME NEW T PROVE HeldInv(T, {})
  BY Zenon DEF Init, HeldInv, HeldLogs, VotersHeld, LeadersHeld, Elected, AnswersHeld,
         RequestsReach, CallsHeld
<1> QED BY <1>1, <1>2, <1>3 DEF CompleteInv

\* Every step leaves a history that accounts for all votes, answers and calls.
LEMMA CompleteNext == CompleteInv /\ [Next]_vars => CompleteInv'
<1> SUFFICES ASSUME CompleteInv, [Next]_vars PROVE CompleteInv'
  OBVIOUS
<1>1. TypeInv /\ ElectionInv /\ RoleInv /\ CandidateLogs
  BY DEF CompleteInv
<1>2. TypeInv' /\ ElectionInv' /\ RoleInv'
  BY <1>1, TypeNext, ElectionNext, RoleNext
<1>3. CandidateLogs'
  BY <1>1, CandidateLogsStep
<1>4. ASSUME ~usurped' PROVE \E U, B : HistoryInv(U)' /\ HeldInv(U, B)'
  <2>1. ~usurped
    BY <1>4, UsurpedStays
  <2>2. PICK T, A : HistoryInv(T) /\ HeldInv(T, A)
    BY <2>1 DEF CompleteInv
  <2>3. PICK U : Grows(T, U) /\ HistoryInv(U)'
    BY <1>1, <1>4, <2>2, HistoryStep
  <2>4. \E B : HeldInv(U, B)'
    BY <1>1, <1>2, <2>2, <2>3, HeldStep
  <2> QED BY <2>3, <2>4
<1> QED BY <1>2, <1>3, <1>4 DEF CompleteInv

\* Those who have a call's entry: its node and the peers it has counted.
Holders(c) == call[c].acks \union {call[c].node}

\* A Replicate that returned nil has a quorum that held its entry.
LEMMA HoldersQuorum ==
    ASSUME TypeInv, NEW T, NEW A, HeldInv(T, A), NEW c \in Cmd, call[c].st = "ok"
    PROVE  /\ IsQuorum(Holders(c)) /\ Cardinality(Holders(c)) >= Majority
           /\ \A p \in Holders(c) : <<p, call[c].term, call[c].index>> \in A
<1>1. CallHeld(c, T, A)
  BY Zenon DEF HeldInv, CallsHeld
<1>2. call[c].acks \in SUBSET Server /\ call[c].node \in Server
  BY DEF TypeInv, TypeOK, CallOfNode, Call
<1>3. call[c].node \in Server \ call[c].acks /\ Server \in SUBSET Server
  BY <1>1, <1>2, Zenon DEF CallHeld
<1>4. /\ Cardinality(Holders(c)) = Cardinality(call[c].acks) + 1
      /\ Cardinality(call[c].acks) \in Nat /\ Cardinality(Server) \in Nat
  BY <1>2, <1>3, Zenon DEF Holders, TypeInv, Sizes
<1>5. Cardinality(Holders(c)) >= Majority
  BY <1>1, <1>4, Zenon DEF CallHeld
<1>6. IsQuorum(Holders(c))
  BY <1>2, <1>4, <1>5 DEF IsQuorum, Majority, Holders
<1>7. \A p \in Holders(c) : <<p, call[c].term, call[c].index>> \in A
  BY <1>1, Zenon DEF CallHeld, Holders
<1> QED BY <1>5, <1>6, <1>7

(***************************************************************************)
(* No leader after the term of an acknowledged Replicate lacks its entry.  *)
(* Of the leaders that did, the first would have a voter that held it.     *)
(***************************************************************************)
LEMMA NothingAckedLost ==
    ASSUME TypeInv, NEW T, HistoryInv(T), NEW A, HeldInv(T, A),
           NEW c \in Cmd, call[c].st = "ok", NEW n \in Nat
    PROVE  ~Lost(T, call[c].term, call[c].index, n)
\* Any two quorums share a node.
<1>QuorumsMeet.
    ASSUME NEW P, NEW Q, IsQuorum(P), IsQuorum(Q)
    PROVE  \E p \in Server : p \in P /\ p \in Q
  <2> USE <1>QuorumsMeet
  <2>1. /\ Cardinality(P) \in Nat /\ Cardinality(Q) \in Nat
        /\ Cardinality(Server) \in Nat
    <3>1. P \in SUBSET Server /\ Q \in SUBSET Server /\ Server \in SUBSET Server
      BY Zenon DEF IsQuorum
    <3> QED BY <3>1, Zenon DEF TypeInv, Sizes
  <2>2. Cardinality(P) + Cardinality(Q) > Cardinality(Server)
    BY <2>1 DEF IsQuorum
  <2>3. P \intersect Q # {}
    BY <2>2, Zenon DEF IsQuorum, TypeInv, Sizes
  <2> QED BY <2>3 DEF IsQuorum
<1>1. PICK t \in Nat : t = call[c].term
  BY DEF TypeInv, TypeOK, Call
<1>2. PICK k \in Nat : k = call[c].index
  BY DEF TypeInv, TypeOK, Call
<1>3. T[t][k].term = t
  BY <1>1, <1>2, Zenon DEF HeldInv, CallsHeld, CallHeld
<1>4. IsQuorum(Holders(c)) /\ \A p \in Holders(c) : <<p, t, k>> \in A
  BY <1>1, <1>2, HoldersQuorum, Zenon
<1> SUFFICES ASSUME Lost(T, t, k, n) PROVE FALSE
  BY <1>1, <1>2
<1> DEFINE L == {u \in Nat : t < u /\ Elected(u) /\ ~Agree(T[u], T[t], k)}
<1>5. L \in SUBSET Nat /\ L # {}
  BY DEF Lost
<1>6. PICK u \in L : \A v \in L : u <= v
  BY <1>5, Zenon DEF TypeInv, WellOrdered
<1>7. u \in Nat /\ t < u /\ Elected(u) /\ ~Agree(T[u], T[t], k)
  BY <1>6
<1>8. PICK Q : IsQuorum(Q) /\ \A p \in Q : Covered(p, u, T, A)
  BY <1>7, Zenon DEF HeldInv, LeadersHeld
<1>9. PICK p \in Server : p \in Holders(c) /\ p \in Q
  BY <1>4, <1>8, <1>QuorumsMeet, Zenon
<1>10. Covered(p, u, T, A) /\ <<p, t, k>> \in A
  BY <1>4, <1>8, <1>9, Zenon
<1>11. Lost(T, t, k, u - 1) \/ Agree(T[u], T[t], k)
  BY <1>3, <1>7, <1>10, Zenon DEF Covered
<1>12. ~Lost(T, t, k, u - 1)
  BY <1>6, <1>7 DEF Lost
<1> QED BY <1>7, <1>11, <1>12

\* What no leader lacks is in the log of every leader.
LEMMA AckedSurviveOfHistory == CompleteInv => AckedSurvivesUnlessUsurped
<1> SUFFICES ASSUME CompleteInv, ~usurped, NEW c \in Cmd, call[c].st = "ok",
                    NEW i \in Server, state[i] = Leader,
                    currentTerm[i] >= call[c].term
             PROVE  /\ HasEntry(log[i], call[c].index)
                    /\ log[i][call[c].index].cmd = c
  BY Zenon DEF AckedSurvivesUnlessUsurped, AckedSurvives
<1>1. TypeInv /\ RoleInv
  BY Zenon DEF CompleteInv
<1>2. PICK T, A : HistoryInv(T) /\ HeldInv(T, A)
  BY Zenon DEF CompleteInv
<1>3. PICK t \in Nat : t = call[c].term
  BY <1>1, Zenon DEF TypeInv, TypeOK, Call
<1>4. PICK k \in Nat : k = call[c].index
  BY <1>1 DEF TypeInv, TypeOK, Call
<1>5. PICK u \in Nat : u = currentTerm[i]
  BY <1>1, NodeTypes DEF TypeInv
<1>6. PICK l \in Seq(Entry) : l = log[i]
  BY <1>1, NodeTypes DEF TypeInv
<1>7. PICK w \in Seq(Entry) : w = T[t]
  BY <1>2 DEF HistoryInv, TermLogs
<1>8. 1 <= k /\ k <= Len(w) /\ w[k].cmd = c
  BY <1>2, <1>3, <1>4, <1>7, Zenon DEF HeldInv, CallsHeld, CallHeld
<1>9. <<u, i>> \in elected
  BY <1>1, <1>5 DEF RoleInv, LeadersElected
<1>10. T[u] = l
  BY <1>2, <1>5, <1>6, <1>9, Zenon DEF HistoryInv, LeaderLogs
<1>11. Agree(l, w, k)
  <2>1. CASE u = t
    BY <1>7, <1>8, <1>10, <2>1 DEF Agree
  <2>2. CASE t < u
    <3>1. ~Lost(T, t, k, u)
      BY <1>1, <1>2, <1>3, <1>4, NothingAckedLost
    <3>2. Elected(u)
      BY <1>9, Zenon DEF Elected
    <3>3. Agree(T[u], T[t], k)
      BY <2>2, <3>1, <3>2 DEF Lost
    <3> QED BY <1>7, <1>10, <3>3, Zenon
  <2> QED BY <1>3, <1>5, <2>1, <2>2
<1>12. k <= Len(l) /\ l[k] = w[k]
  BY <1>8, <1>11 DEF Agree
<1> QED BY <1>4, <1>6, <1>8, <1>12 DEF HasEntry

\* Those who held an acknowledged entry have it still.
LEMMA AckedKeptOfHistory == CompleteInv => AckedOnMajority
<1> SUFFICES ASSUME CompleteInv, ~usurped, NEW c \in Cmd, call[c].st = "ok"
             PROVE  Cardinality({i \in Server :
                                   /\ HasEntry(log[i], call[c].index)
                                   /\ log[i][call[c].index].cmd = c}) >= Majority
  BY DEF AckedOnMajority
<1> DEFINE H == {i \in Server : /\ HasEntry(log[i], call[c].index)
                                /\ log[i][call[c].index].cmd = c}
<1>1. TypeInv
  BY DEF CompleteInv
<1>2. PICK T, A : HistoryInv(T) /\ HeldInv(T, A)
  BY DEF CompleteInv
<1>3. PICK t \in Nat : t = call[c].term
  BY <1>1 DEF TypeInv, TypeOK, Call
<1>4. PICK k \in Nat : k = call[c].index
  BY <1>1 DEF TypeInv, TypeOK, Call
<1>5. PICK w \in Seq(Entry) : w = T[t]
  BY <1>2 DEF HistoryInv, TermLogs
<1>6. 1 <= k /\ k <= Len(w) /\ w[k].cmd = c
  BY <1>2, <1>3, <1>4, <1>5, Zenon DEF HeldInv, CallsHeld, CallHeld
<1>7. /\ IsQuorum(Holders(c)) /\ Cardinality(Holders(c)) >= Majority
      /\ \A p \in Holders(c) : <<p, t, k>> \in A
  BY <1>1, <1>2, <1>3, <1>4, HoldersQuorum, Zenon
<1>8. ASSUME NEW p \in Holders(c) PROVE p \in H
  <2>1. p \in Server /\ <<p, t, k>> \in A
    BY <1>7, <1>8 DEF IsQuorum
  <2>2. PICK l \in Seq(Entry) : l = log[p]
    BY <1>1, <2>1, NodeTypes, Zenon DEF TypeInv
  <2>3. currentTerm[p] \in Nat
    BY <1>1, <2>1, NodeTypes DEF TypeInv
  <2>4. ~Lost(T, t, k, currentTerm[p])
    BY <1>1, <1>2, <1>3, <1>4, <2>3, NothingAckedLost, Zenon
  <2>5. Agree(l, w, k)
    BY <1>2, <1>5, <2>1, <2>2, <2>4, Zenon DEF HeldInv, HeldLogs
  <2>6. k <= Len(l) /\ l[k] = w[k]
    BY <1>6, <2>5 DEF Agree
  <2> QED BY <1>4, <1>6, <2>1, <2>2, <2>6 DEF HasEntry
<1>9. /\ H \in SUBSET Server /\ Holders(c) \in SUBSET Server
      /\ Server \in SUBSET Server /\ Holders(c) \subseteq H
  BY <1>7, <1>8, Zenon DEF IsQuorum
<1>10. /\ Cardinality(Holders(c)) <= Cardinality(H)
       /\ Cardinality(Holders(c)) \in Nat /\ Cardinality(H) \in Nat
       /\ Cardinality(Server) \in Nat
  <2> HIDE DEF H
  <2> QED BY <1>1, <1>9, Zenon DEF TypeInv, Sizes
<1> HIDE DEF H
<1>11. Cardinality(H) >= Majority
  BY <1>7, <1>10 DEF Majority
<1> QED BY <1>11 DEF H

-----------------------------------------------------------------------------
(* Numbers and finite sets *)

INSTANCE FiniteSetTheorems
INSTANCE WellFoundedInduction

\* A nonempty set of naturals has a least element.
LEMMA NaturalsWellOrdered == WellOrdered
<1> SUFFICES ASSUME NEW U \in SUBSET Nat, U # {}
             PROVE  \E k \in U : \A m \in U : k <= m
  BY DEF WellOrdered
<1>1. PICK k \in U : \A m \in U : ~(<<m, k>> \in OpToRel(<, Nat))
  BY NatLessThanWellFounded, WFMin, Zenon
<1>2. \A m \in U : ~(m < k)
  BY <1>1, Zenon DEF OpToRel
<1> QED BY <1>2

\* The sizes of sets of nodes: the library's theorems about finite sets.
LEMMA NodesCount == Sizes
<1>1. ASSUME NEW V \in SUBSET Server
      PROVE  IsFiniteSet(V) /\ Cardinality(V) \in Nat
  BY ServerAssumption, FS_Subset, FS_CardinalityType
<1>2. ASSUME NEW V \in SUBSET Server, NEW n \in Server \ V
      PROVE  Cardinality(V \union {n}) = Cardinality(V) + 1
  BY <1>1, FS_AddElement
<1>3. ASSUME NEW V \in SUBSET Server, NEW W \in SUBSET Server, V \subseteq W
      PROVE  Cardinality(V) <= Cardinality(W)
  BY <1>1, <1>3, FS_Subset
<1>4. ASSUME NEW V \in SUBSET Server, NEW W \in SUBSET Server,
             Cardinality(V) + Cardinality(W) > Cardinality(Server)
      PROVE  V \intersect W # {}
  BY <1>4, ServerAssumption, FS_MajoritiesIntersect
<1> QED BY <1>1, <1>2, <1>3, <1>4 DEF Sizes

-----------------------------------------------------------------------------

(***************************************************************************)
(* In every reachable state every field of every node, goroutine and RPC   *)
(* has its type: in particular no index or term of raft.go's uint64 fields *)
(* is ever decremented below zero, and stepDownCh keeps to its capacity.   *)
(***************************************************************************)
THEOREM TypeCorrect == Spec => []TypeOK
<1>1. Init => TypeInv
  BY TypeInit, NaturalsWellOrdered, NodesCount
<1>2. TypeInv => TypeOK
  BY DEF TypeInv
<1> QED BY <1>1, <1>2, TypeNext, PTL DEF Spec

(***************************************************************************)
(* becomeFollower, HandleRequestVote, HandleAppendEntries and              *)
(* loopCandidate never lower a term, and never change or forget a vote     *)
(* within a term, whatever old step-down signals are still in stepDownCh.  *)
(***************************************************************************)
THEOREM VotesStable == Spec => TermsAndVotesStable
<1>1. TypeInv /\ [Next]_vars =>
        [\A i \in Server :
           /\ currentTerm'[i] >= currentTerm[i]
           /\ (currentTerm'[i] = currentTerm[i] /\ votedFor[i] # None)
                => votedFor'[i] = votedFor[i]]_vars
  BY StableStep
<1>2. Init => TypeInv
  BY TypeInit, NaturalsWellOrdered, NodesCount
<1> QED BY <1>1, <1>2, TypeNext, PTL DEF Spec, TermsAndVotesStable

(***************************************************************************)
(* At most one node ever passes becomeLeader in a term, in a cluster of    *)
(* any size, odd or even, however votes, step-downs, late answers and      *)
(* re-elections interleave.                                                *)
(***************************************************************************)
THEOREM ElectionsSafe == Spec => []ElectionSafety
<1>1. Init => TypeInv /\ ElectionInv
  BY TypeInit, ElectionInit, NaturalsWellOrdered, NodesCount
<1>2. (TypeInv /\ ElectionInv) /\ [Next]_vars => (TypeInv /\ ElectionInv)'
  BY TypeNext, ElectionNext
<1> QED BY <1>1, <1>2, QuorumsMakeElectionsSafe, PTL DEF Spec

\* The invariant of logs holds from the start.
LEMMA LogInvAlways == Spec => []LogInv
<1>1. Init => LogInv
  BY LogInit, NaturalsWellOrdered, NodesCount
<1> QED BY <1>1, LogNext, PTL DEF Spec

(***************************************************************************)
(* Two logs that hold an entry of the same index and term are identical up *)
(* to it, in a cluster of any size: whatever heartbeats and                *)
(* replicateToPeer send twice, late or out of order, HandleAppendEntries   *)
(* makes nothing of it but prefixes of leaders' logs.  The exception is a  *)
(* deposed leader's heartbeat under the term that deposed it.              *)
(***************************************************************************)
THEOREM LogsMatch == Spec => []LogMatching
BY LogInvAlways, LogMatchingOfHistory, PTL

(***************************************************************************)
(* Within a term no log loses an entry of that term, in a cluster of any   *)
(* size: truncateAfter in HandleAppendEntries only cuts what an earlier    *)
(* term left behind, however late a request is handled.                    *)
(***************************************************************************)
THEOREM TermEntriesStay == Spec => TermEntriesKept
<1>1. LogInv /\ [Next]_vars =>
        [\A i \in Server : (currentTerm'[i] = currentTerm[i] /\ ~usurped') =>
           \A k \in 1..Len(log[i]) : log[i][k].term = currentTerm[i] =>
              k <= Len(log'[i]) /\ log'[i][k] = log[i][k]]_vars
  BY TermEntriesStep
<1> QED BY <1>1, LogInvAlways, PTL DEF Spec, TermEntriesKept

(***************************************************************************)
(* A leader only appends to its log while it leads: HandleAppendEntries    *)
(* does not look whether the node leads, but no other node has won its     *)
(* term and nothing else is sent under it.                                 *)
(***************************************************************************)
THEOREM LeadersAppend == Spec => LeaderAppendOnly
<1>1. LogInv /\ [Next]_vars =>
        [~usurped' => \A i \in Server :
           (state[i] = Leader /\ state'[i] = Leader
              /\ currentTerm'[i] = currentTerm[i])
           => /\ Len(log[i]) <= Len(log'[i])
              /\ SubSeq(log'[i], 1, Len(log[i])) = log[i]]_vars
  BY LeaderAppendStep
<1> QED BY <1>1, LogInvAlways, PTL DEF Spec, LeaderAppendOnly

\* The invariant of acknowledged entries holds from the start.
LEMMA CompleteInvAlways == Spec => []CompleteInv
<1>1. Init => CompleteInv
  BY CompleteInit, NaturalsWellOrdered, NodesCount
<1> QED BY <1>1, CompleteNext, PTL DEF Spec

(***************************************************************************)
(* What Replicate acknowledged is in the log of every leader of that or a  *)
(* later term, for any number of nodes, elections, retries and late or     *)
(* repeated answers: the up-to-date check of HandleRequestVote and the     *)
(* majority Replicate counts are enough, until a deposed leader sends a    *)
(* heartbeat under the term that deposed it.                               *)
(***************************************************************************)
THEOREM AckedSurvive == Spec => []AckedSurvivesUnlessUsurped
BY CompleteInvAlways, AckedSurviveOfHistory, PTL

(***************************************************************************)
(* What Replicate acknowledged stays in the logs of a majority: the node   *)
(* that appended it and the peers that answered for it do not cut it again *)
(* in HandleAppendEntries, under any later leader.                         *)
(***************************************************************************)
THEOREM AckedKept == Spec => []AckedOnMajority
BY CompleteInvAlways, AckedKeptOfHistory, PTL

-----------------------------------------------------------------------------
(* Restarts *)

\* The invariant of restarts holds from the start.
LEMMA CrashInvAlways == CrashSpec => []CrashInv
<1>1. CrashInit => CrashInv
  BY CrashInvInit, NaturalsWellOrdered, NodesCount
<1> QED BY <1>1, CrashInvNext, PTL DEF CrashSpec

(***************************************************************************)
(* In every log every entry sits at its own index: HandleAppendEntries     *)
(* never leaves a hole and never doubles an entry, with requests that are  *)
(* late, overtaken or sent by a process that is gone, heartbeats with      *)
(* prevLogIndex 0 and nodes that come back with an empty log.              *)
(***************************************************************************)
THEOREM LogsHaveNoHoles == CrashSpec => []LogsContiguous
<1>1. CrashInv => LogsContiguous
  BY DEF CrashInv, NoHoles
<1> QED BY <1>1, CrashInvAlways, PTL

(***************************************************************************)
(* The nextIndex of a leader stays positive however many rejections are on *)
(* their way back to it: nextIndex - 1 never wraps.                        *)
(***************************************************************************)
THEOREM NextIndexNeverWraps == CrashSpec => []NextIndexPositive
<1>1. CrashInv => NextIndexPositive
  BY DEF CrashInv, TypeInv, NextPositive, NextIndexPositive
<1> QED BY <1>1, CrashInvAlways, PTL
=============================================================================
