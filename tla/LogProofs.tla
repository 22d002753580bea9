----------------------------- MODULE LogProofs -----------------------------
(***************************************************************************)
(* The replicated log, for any finite set of nodes: what the leaders of    *)
(* terms have in their logs, what that makes of everybody else's, and what *)
(* of it can never be lost.                                                *)
(*                                                                         *)
(* The argument is about T, where T[t] is the log of the leader of term t  *)
(* as it was when that node left the term, or as it is while the node is   *)
(* still in it.  T is history: no variable of Raft holds it, so the        *)
(* invariants below say that there is such a T.                            *)
(***************************************************************************)
EXTENDS RaftProofs

\* Up to each of its entries, l is the log of the leader who made the entry.
Rooted(l, T) == \A k \in 1..Len(l) : Agree(l, T[l[k].term], k)

\* Leaders only append.
Extends(T, U) ==
    \A t \in Nat : /\ Len(T[t]) <= Len(U[t])
                   /\ \A j \in 1..Len(T[t]) : U[t][j] = T[t][j]

\* An AppendEntries request is a stretch of its term's log, or has a
\* prevLogIndex past the end of it, which no log check lets pass.
Sent(m, T) ==
    \/ m.prevIndex > 0 /\ m.prevTerm = 0
    \/ /\ m.prevIndex + Len(m.entries) <= Len(T[m.term])
       /\ m.prevIndex > 0 => m.prevTerm = T[m.term][m.prevIndex].term
       /\ \A k \in 1..Len(m.entries) : m.entries[k] = T[m.term][m.prevIndex + k]

-----------------------------------------------------------------------------
(* Invariants *)

\* A leader has won the election of its term, and its goroutine is in loopLeader.
LeadersElected ==
    \A i \in Server : state[i] = Leader =>
        pc[i] = "leader" /\ <<currentTerm[i], i>> \in elected

ElectedTerms == \A e \in elected : 1 <= e[1] /\ e[1] <= currentTerm[e[2]]

\* No campaign is won twice.
CampaignsOpen ==
    \A i \in Server : pc[i] = "candidate" =>
        /\ 1 <= campaign[i] /\ campaign[i] <= currentTerm[i]
        /\ <<campaign[i], i>> \notin elected

RoleInv == LeadersElected /\ ElectedTerms /\ CampaignsOpen

\* An entry sits at its index, and was made by the leader of its term.
TermLogs(T) ==
    /\ T \in [Nat -> Seq(Entry)]
    /\ \A t \in Nat : /\ Rooted(T[t], T) /\ Contiguous(T[t])
                      /\ \A k \in 1..Len(T[t]) :
                            1 <= T[t][k].term /\ T[t][k].term <= t

LeaderLogs(T) ==
    /\ \A t \in Nat : (\A i \in Server : <<t, i>> \notin elected) => T[t] = <<>>
    /\ \A i \in Server :
         <<currentTerm[i], i>> \in elected => T[currentTerm[i]] = log[i]

NodeLogs(T) ==
    \A i \in Server :
        /\ Rooted(log[i], T)
        /\ \A k \in 1..Len(log[i]) : log[i][k].term <= currentTerm[i]

Requests(T) == \A m \in aeRpcs : <<m.term, m.src>> \in elected /\ Sent(m, T)

HistoryInv(T) == TermLogs(T) /\ LeaderLogs(T) /\ NodeLogs(T) /\ Requests(T)

-----------------------------------------------------------------------------
(* Logs made of leaders' entries *)

\* The fields of an entry of a log
LEMMA LogTypes ==
    ASSUME NEW l \in Seq(Entry)
    PROVE  /\ Len(l) \in Nat
           /\ \A k \in 1..Len(l) :
                 l[k] \in Entry /\ l[k].term \in Nat /\ l[k].index \in Nat
<1>1. Len(l) \in Nat /\ \A k \in 1..Len(l) : l[k] \in Entry
  OBVIOUS
<1>2. \A e \in Entry : e.term \in Nat /\ e.index \in Nat
  BY DEF Entry
<1> QED BY <1>1, <1>2

\* Agreement up to k is an equivalence, and agreement up to anything smaller.
LEMMA AgreeRules ==
    ASSUME NEW l \in Seq(Entry), NEW m \in Seq(Entry), NEW k \in Nat,
           Agree(l, m, k)
    PROVE  /\ Agree(m, l, k)
           /\ \A j \in Nat : j <= k => Agree(l, m, j)
           /\ \A w \in Seq(Entry) : Agree(m, w, k) => Agree(l, w, k)
BY DEF Agree

\* What a log grows into agrees with what it agreed with.
LEMMA AgreeExtends ==
    ASSUME NEW l \in Seq(Entry), NEW m \in Seq(Entry), NEW w \in Seq(Entry),
           NEW k \in Nat, Agree(l, m, k),
           Len(m) <= Len(w), \A j \in 1..Len(m) : w[j] = m[j]
    PROVE  Agree(l, w, k)
BY DEF Agree

\* An entry of the same index and term means the same log up to it.
LEMMA SameEntrySameLog ==
    ASSUME NEW T \in [Nat -> Seq(Entry)],
           NEW l \in Seq(Entry), Rooted(l, T), NEW m \in Seq(Entry), Rooted(m, T),
           NEW k \in 1..Len(l), k <= Len(m), l[k].term = m[k].term
    PROVE  Agree(l, m, k)
<1>1. k \in Nat /\ k \in 1..Len(m) /\ l[k].term \in Nat
  <2>1. l[k].term \in Nat
    BY LogTypes, Zenon
  <2> QED BY <2>1
<1>2. PICK w \in Seq(Entry) : w = T[l[k].term]
  BY <1>1, Zenon
<1>3. Agree(l, w, k) /\ Agree(m, w, k)
  BY <1>1, <1>2, Zenon DEF Rooted
<1> QED BY <1>1, <1>3, AgreeRules

\* Terms do not fall along the log of a leader.
LEMMA TermsRise ==
    ASSUME NEW T \in [Nat -> Seq(Entry)],
           \A t \in Nat : \A k \in 1..Len(T[t]) : T[t][k].term <= t,
           NEW l \in Seq(Entry), Rooted(l, T), NEW k \in 1..Len(l), NEW j \in 1..k
    PROVE  l[j].term <= l[k].term
<1>1. k \in Nat /\ l[k].term \in Nat
  <2>1. l[k].term \in Nat
    BY LogTypes, Zenon
  <2> QED BY <2>1
<1>2. PICK m \in Seq(Entry) : m = T[l[k].term]
  BY <1>1, Zenon
<1>3. Agree(l, m, k)
  BY <1>2 DEF Rooted
<1>4. j \in 1..Len(m) /\ l[j] = m[j]
  <2>1. Len(m) \in Nat
    BY <1>2, LenFacts, Zenon
  <2>2. k <= Len(m) /\ l[j] = m[j]
    BY <1>3, Zenon DEF Agree
  <2> QED BY <1>1, <2>1, <2>2
<1>5. m[j].term <= l[k].term
  BY <1>1, <1>2, <1>4, Zenon
<1> QED BY <1>4, <1>5

-----------------------------------------------------------------------------
(* Roles and terms *)

\* run's loops never make a node a leader that has not won its term, and
\* never let one campaign win twice.
LEMMA RoleNext ==
    TypeInv /\ RoleInv /\ [Next]_vars => RoleInv'
<1> SUFFICES ASSUME TypeInv, RoleInv, [Next]_vars PROVE RoleInv'
  OBVIOUS
<1>1. TypeOK /\ LeadersElected /\ ElectedTerms /\ CampaignsOpen
  BY DEF TypeInv, RoleInv
<1>2. /\ state \in [Server -> {Follower, Candidate, Leader}]
      /\ pc \in [Server -> {"follower", "campaign", "candidate", "leader"}]
      /\ campaign \in [Server -> Nat] /\ currentTerm \in [Server -> Nat]
      /\ elected \subseteq Nat \X Server
  BY <1>1 DEF TypeOK
<1>3. \A j \in Server : currentTerm[j] \in Nat /\ currentTerm'[j] >= currentTerm[j]
  BY <1>2, StableStep
<1>4. currentTerm' \in [Server -> Nat]
  BY TypeNext, Zenon DEF TypeInv, TypeOK
<1>5. ASSUME UNCHANGED elected PROVE ElectedTerms'
  <2> SUFFICES ASSUME NEW e \in elected
               PROVE  1 <= e[1] /\ e[1] <= currentTerm'[e[2]]
    BY <1>5 DEF ElectedTerms
  <2>1. e[1] \in Nat /\ e[2] \in Server
    BY <1>2
  <2>2. currentTerm'[e[2]] \in Nat
    BY <1>4, <2>1
  <2> QED BY <1>1, <1>3, <2>1, <2>2 DEF ElectedTerms
<1>6. ASSUME UNCHANGED <<elected, pc, campaign>>,
             \A j \in Server : state'[j] = Leader =>
                state[j] = Leader /\ currentTerm'[j] = currentTerm[j]
      PROVE  RoleInv'
  <2>1. LeadersElected'
    BY <1>1, <1>6 DEF LeadersElected
  <2>2. CampaignsOpen'
    <3> SUFFICES ASSUME NEW i \in Server, pc[i] = "candidate"
                 PROVE  /\ 1 <= campaign[i] /\ campaign[i] <= currentTerm'[i]
                        /\ <<campaign[i], i>> \notin elected
      BY <1>6 DEF CampaignsOpen
    <3>1. campaign[i] \in Nat /\ currentTerm'[i] \in Nat
      BY <1>2, <1>4
    <3> QED BY <1>1, <1>3, <3>1 DEF CampaignsOpen
  <2> QED BY <1>5, <1>6, <2>1, <2>2 DEF RoleInv
<1>7. ASSUME NEW i \in Server, NEW role, Enter(i, role), UNCHANGED elected,
             state'[i] # Leader, role \in {Follower, Candidate},
             \A j \in Server \ {i} : state'[j] = state[j],
             \A j \in Server \ {i} : currentTerm'[j] = currentTerm[j]
      PROVE  RoleInv'
  <2>1. /\ pc'[i] # "candidate"
        /\ \A j \in Server \ {i} : pc'[j] = pc[j] /\ campaign'[j] = campaign[j]
    BY <1>2, <1>7 DEF Enter, Follower, Candidate, Leader
  <2>2. LeadersElected'
    BY <1>1, <1>7, <2>1 DEF LeadersElected
  <2>3. CampaignsOpen'
    BY <1>1, <1>7, <2>1 DEF CampaignsOpen
  <2> QED BY <1>5, <1>7, <2>2, <2>3 DEF RoleInv
<1>8. ASSUME NEW i \in Server, ElectionTimeout(i) PROVE RoleInv'
  <2>1. /\ state' = [state EXCEPT ![i] = Candidate] /\ Enter(i, Candidate)
        /\ UNCHANGED <<elected, currentTerm>>
    BY <1>8 DEF ElectionTimeout, history
  <2> QED BY <1>2, <1>7, <2>1 DEF Candidate, Leader
<1>9. ASSUME NEW i \in Server, NEW term, becomeFollower(i, term),
             Enter(i, Follower), UNCHANGED elected
      PROVE  RoleInv'
  BY <1>2, <1>7, <1>9 DEF becomeFollower, Follower, Leader
<1>10. ASSUME NEW i \in Server, StartCampaign(i) PROVE RoleInv'
  <2>1. /\ pc[i] = "campaign" /\ UNCHANGED <<elected, state>>
        /\ currentTerm' = [currentTerm EXCEPT ![i] = @ + 1]
        /\ campaign' = [campaign EXCEPT ![i] = currentTerm[i] + 1]
        /\ pc' = [pc EXCEPT ![i] = "candidate"]
    BY <1>10 DEF StartCampaign, history
  <2>2. state[i] # Leader
    BY <1>1, <2>1, Zenon DEF LeadersElected
  <2>3. LeadersElected'
    BY <1>1, <1>2, <2>1, <2>2 DEF LeadersElected
  <2>4. <<currentTerm[i] + 1, i>> \notin elected
    <3>1. ~(currentTerm[i] + 1 <= currentTerm[i])
      BY <1>3
    <3> QED BY <1>1, <3>1 DEF ElectedTerms
  <2>5. CampaignsOpen'
    BY <1>1, <1>2, <2>1, <2>4 DEF CampaignsOpen
  <2> QED BY <1>5, <2>1, <2>3, <2>5 DEF RoleInv
<1>11. ASSUME NEW i \in Server, \/ CampaignOver(i)
                                \/ Tick(i) /\ state[i] # Leader
       PROVE  RoleInv'
  <2>1. Enter(i, state[i]) /\ UNCHANGED <<elected, state, currentTerm>>
    BY <1>11 DEF CampaignOver, Tick, history, nodeVars
  <2>2. state[i] # Leader
    BY <1>1, <1>11, Zenon DEF CampaignOver, LeadersElected
  <2> QED BY <1>2, <1>7, <2>1, <2>2
<1>12. ASSUME NEW i \in Server, NEW r \in voteRpcs, VoteWins(i, r) PROVE RoleInv'
  <2>1. pc[i] = "candidate" /\ state[i] # Leader
    BY <1>1, <1>12, Zenon DEF VoteWins, VoteAnswer, LeadersElected
  <2>2. CASE ~StillCandidate(i)
    <3>1. Enter(i, state[i]) /\ UNCHANGED <<elected, state, currentTerm>>
      BY <1>12, <2>2 DEF VoteWins
    <3> QED BY <1>2, <1>7, <2>1, <3>1
  <2>3. CASE StillCandidate(i)
    <3>1. /\ state' = [state EXCEPT ![i] = Leader] /\ Enter(i, Leader)
          /\ elected' = elected \union {<<currentTerm[i], i>>}
          /\ currentTerm' = currentTerm /\ currentTerm[i] = campaign[i]
      BY <1>12, <2>3 DEF VoteWins, StillCandidate
    <3>2. /\ pc'[i] = "leader"
          /\ \A j \in Server \ {i} : pc'[j] = pc[j] /\ campaign'[j] = campaign[j]
      BY <1>2, <3>1 DEF Enter, Follower, Candidate, Leader
    <3>3. LeadersElected'
      BY <1>1, <1>2, <3>1, <3>2 DEF LeadersElected
    <3>4. ElectedTerms'
      BY <1>1, <1>2, <2>1, <3>1 DEF ElectedTerms, CampaignsOpen
    <3>5. CampaignsOpen'
      BY <1>1, <1>2, <3>1, <3>2 DEF CampaignsOpen
    <3> QED BY <3>3, <3>4, <3>5 DEF RoleInv
  <2> QED BY <2>2, <2>3
<1>13. ASSUME NEW r \in voteRpcs, HandleRequestVote(r) PROVE RoleInv'
  <2>1. r.dst \in Server /\ r.term \in Nat
    BY <1>1, Zenon DEF TypeOK, VoteRpc
  <2>2. /\ UNCHANGED <<elected, pc, campaign>>
        /\ currentTerm' = [currentTerm EXCEPT ![r.dst] = TermAfter(r.dst, r.term)]
        /\ state' = [state EXCEPT ![r.dst] = IF r.term > currentTerm[r.dst]
                                             THEN Follower ELSE @]
    BY <1>13 DEF HandleRequestVote, history, loopVars
  <2> QED BY <1>2, <1>6, <2>1, <2>2 DEF TermAfter, Follower, Leader
<1>14. ASSUME NEW r \in aeRpcs, AcceptLeader(r), UNCHANGED <<elected, pc, campaign>>
       PROVE  RoleInv'
  <2>1. r.dst \in Server /\ r.term \in Nat
    BY <1>1, Zenon DEF TypeOK, AERpc
  <2>2. /\ r.term >= currentTerm[r.dst]
        /\ currentTerm' = [currentTerm EXCEPT ![r.dst] = r.term]
        /\ state' = [state EXCEPT
             ![r.dst] = IF r.term > currentTerm[r.dst] \/ @ = Candidate
                        THEN Follower ELSE @]
    BY <1>14 DEF AcceptLeader
  <2> QED BY <1>2, <1>6, <1>14, <2>1, <2>2 DEF Follower, Leader
<1>15. ASSUME UNCHANGED <<nodeVars, elected, pc, campaign>> PROVE RoleInv'
  BY <1>6, <1>15 DEF nodeVars
<1> USE DEF history, loopVars
<1>16. CASE UNCHANGED vars
  BY <1>15, <1>16 DEF vars
<1>17. ASSUME NEW i \in Server, RunGoroutine(i) PROVE RoleInv'
  <2>1. CASE StepDown(i)
    BY <1>9, <2>1 DEF StepDown
  <2>2. ASSUME NEW r \in voteRpcs, VoteHigherTerm(i, r) PROVE RoleInv'
    BY <1>9, <2>2 DEF VoteHigherTerm
  <2>3. ASSUME NEW r \in voteRpcs, VoteCounted(i, r) PROVE RoleInv'
    BY <1>15, <2>3 DEF VoteCounted
  <2>4. CASE Tick(i) /\ state[i] = Leader
    BY <1>15, <2>4 DEF Tick
  <2> QED BY <1>8, <1>10, <1>11, <1>12, <1>17, <2>1, <2>2, <2>3, <2>4
          DEF RunGoroutine
<1>18. ASSUME NEW i \in Server, \/ \E p \in Server : sendHeartbeatToPeer(i, p)
                                \/ \E c \in Cmd : Replicate(i, c)
       PROVE  RoleInv'
  BY <1>15, <1>18, Zenon DEF sendHeartbeatToPeer, Replicate
<1>19. ASSUME NEW c \in Cmd, \/ ReplicateCommit(c)
                             \/ \E p \in Server : replicateToPeer(c, p)
       PROVE  RoleInv'
  BY <1>15, <1>19 DEF ReplicateCommit, replicateToPeer
<1>20. ASSUME NEW r \in aeRpcs, \/ AppendStale(r) \/ AppendEntriesError(r)
                                \/ HeartbeatReply(r) \/ ReplicateReply(r)
       PROVE  RoleInv'
  BY <1>15, <1>20, Zenon DEF AppendStale, AppendEntriesError, HeartbeatReply,
                      ReplicateReply
<1>21. ASSUME NEW r \in aeRpcs, AppendMismatch(r) \/ AppendSuccess(r)
       PROVE  RoleInv'
  BY <1>14, <1>21, Zenon DEF AppendMismatch, AppendSuccess
<1> QED BY <1>13, <1>16, <1>17, <1>18, <1>19, <1>20, <1>21
        DEF Next, HandleAppendEntries

-----------------------------------------------------------------------------
(* The history through a step *)

\* becomeLeader: the log of a term nobody has led is empty, and so begins every
\* log.
LEMMA EmptyIsPrefix ==
    ASSUME NEW S, NEW w \in Seq(S), NEW v, Len(v) = 0
    PROVE  Len(v) <= Len(w) /\ \A j \in 1..Len(v) : w[j] = v[j]
  OBVIOUS

\* len of an empty Go slice.
LEMMA LenEmpty == Len(<<>>) = 0
  OBVIOUS

\* Terms compared twice, as the checks on an answer do
LEMMA LeqTransitive ==
    ASSUME NEW a \in Nat, NEW b \in Nat, NEW c \in Nat, a <= b, b <= c
    PROVE  a <= c
OBVIOUS

\* A request that goes on as it was sent
Kept(m) ==
    \E q \in aeRpcs : /\ m.term = q.term /\ m.src = q.src
                      /\ m.prevIndex = q.prevIndex /\ m.prevTerm = q.prevTerm
                      /\ m.entries = q.entries

\* The entries of a rooted log sit at their indices and have positive terms.
LEMMA RootedEntries ==
    ASSUME NEW T, TermLogs(T), NEW l \in Seq(Entry), Rooted(l, T),
           NEW k \in 1..Len(l)
    PROVE  l[k].index = k /\ 1 <= l[k].term
<1>1. k \in Nat /\ l[k].term \in Nat
  <2>1. l[k].term \in Nat
    BY LogTypes
  <2> QED BY <2>1
<1>2. PICK m \in Seq(Entry) : m = T[l[k].term]
  BY <1>1 DEF TermLogs
<1>3. Agree(l, m, k)
  BY <1>2 DEF Rooted
<1>4. l[k] = m[k] /\ k \in 1..Len(m)
  BY <1>3 DEF Agree
<1>5. m[k].index = k /\ 1 <= m[k].term
  BY <1>1, <1>2, <1>4, Zenon DEF TermLogs, Contiguous
<1> QED BY <1>4, <1>5

\* The term logs grow as leaders append, and begin when they are elected.
Grows(T, U) ==
    /\ Extends(T, U)
    /\ \A t \in Nat : (\E i \in Server : <<t, i>> \in elected) =>
          \A j \in 1..Len(U[t]) : j <= Len(T[t]) \/ U[t][j].term = t

(***************************************************************************)
(* HandleAppendEntries, when the log check passes: the node keeps its log, *)
(* or has the log of the sender's term up to the end of the request.       *)
(***************************************************************************)
LEMMA AppendFollowsLeader ==
    ASSUME TypeInv, RoleInv, NEW T, HistoryInv(T),
           NEW r \in aeRpcs, AppendSuccess(r),
           NEW n, n = r.prevIndex + Len(r.entries)
    PROVE  /\ n \in Nat /\ n <= Len(T[r.term])
           /\ Agree(log'[r.dst], T[r.term], n)
           /\ \/ log'[r.dst] = log[r.dst]
              \/ Len(log'[r.dst]) = n /\ ~Agree(log[r.dst], T[r.term], n)
           /\ \A j \in Server \ {r.dst} : log'[j] = log[j]
<1>1. TermLogs(T) /\ NodeLogs(T) /\ Requests(T)
  BY DEF HistoryInv
<1>2. /\ r.dst \in Server /\ r.term \in Nat /\ r.prevIndex \in Nat
      /\ r.entries \in Seq(Entry)
  BY Zenon DEF TypeInv, TypeOK, AERpc
<1>3. PICK i \in Server : i = r.dst
  BY <1>2
<1>4. PICK p \in Nat : p = r.prevIndex
  BY <1>2
<1>5. PICK es \in Seq(Entry) : es = r.entries
  BY <1>2
<1>6. PICK l \in Seq(Entry) : l = log[i]
  BY NodeTypes DEF TypeInv
<1>7. PICK w \in Seq(Entry) : w = T[r.term]
  BY <1>1, <1>2, Zenon DEF TermLogs
<1>8. Rooted(l, T) /\ Rooted(w, T) /\ Contiguous(w)
  BY <1>1, <1>2, <1>6, <1>7, Zenon DEF NodeLogs, TermLogs
<1>9. \A k \in 1..Len(l) :
         k <= Len(w) /\ l[k].term = w[k].term => Agree(l, w, k)
  BY <1>1, <1>8, SameEntrySameLog, Zenon DEF TermLogs
<1>10. p > 0 => p \in 1..Len(l) /\ l[p].term = r.prevTerm
  BY <1>3, <1>4, <1>6 DEF AppendSuccess, PrevMatches, HasEntry, TermAt
<1>11. /\ p + Len(es) <= Len(w)
       /\ p > 0 => r.prevTerm = w[p].term
       /\ \A k \in 1..Len(es) : es[k] = w[p + k]
  <2>1. Sent(r, T)
    BY <1>1, Zenon DEF Requests
  <2>2. ~(p > 0 /\ r.prevTerm = 0)
    <3> SUFFICES ASSUME p > 0, r.prevTerm = 0 PROVE FALSE
      OBVIOUS
    <3>1. p \in 1..Len(l) /\ l[p].term = 0
      BY <1>10
    <3>2. 1 <= l[p].term
      BY <1>1, <1>8, <3>1, RootedEntries
    <3> QED BY <3>1, <3>2
  <2> QED BY <1>4, <1>5, <1>7, <2>1, <2>2 DEF Sent
<1>12. p > 0 => p <= Len(l) /\ l[p].term = w[p].term
  BY <1>10, <1>11
<1>13. PICK m : m = MergeEntries(l, es)
  OBVIOUS
<1>14. /\ m \in Seq(Entry) /\ Agree(m, w, p + Len(es))
       /\ m = l \/ (Len(m) = p + Len(es) /\ ~Agree(l, w, p + Len(es)))
  BY <1>8, <1>9, <1>11, <1>12, <1>13, MergeFollowsLeader, Zenon DEF TypeInv
<1>15. log' = [log EXCEPT ![i] = m]
  BY <1>3, <1>5, <1>6, <1>13 DEF AppendSuccess
<1>16. log'[i] = m /\ \A j \in Server \ {i} : log'[j] = log[j]
  BY <1>15 DEF TypeInv, TypeOK
<1>17. n = p + Len(es) /\ n \in Nat
  BY <1>4, <1>5
<1> QED BY <1>3, <1>6, <1>7, <1>11, <1>14, <1>16, <1>17

\* The exchanges after an answer are those there were.
LEMMA AnswerKeeps ==
    ASSUME TypeInv, NEW r \in aeRpcs, NEW term, NEW success,
           Answer(r, term, success), NEW m \in aeRpcs'
    PROVE  Kept(m)
<1>1. CASE m \in aeRpcs
  BY <1>1 DEF Kept
<1>2. CASE m = [r EXCEPT !.done = TRUE, !.replyTerm = term, !.success = success]
  <2>1. r \in AERpc
    BY DEF TypeInv, TypeOK
  <2>2. /\ m.term = r.term /\ m.src = r.src /\ m.prevIndex = r.prevIndex
        /\ m.prevTerm = r.prevTerm /\ m.entries = r.entries
    BY <1>2, <2>1 DEF AERpc
  <2> QED BY <2>2 DEF Kept
<1> QED BY <1>1, <1>2 DEF Answer

\* A heartbeat under a term its sender never led is never forgotten.
LEMMA UsurpedStays ==
    ASSUME [Next]_vars, usurped
    PROVE  usurped'
<1> USE DEF history
<1>1. CASE UNCHANGED vars
  BY <1>1 DEF vars
<1>2. ASSUME NEW i \in Server, RunGoroutine(i) PROVE usurped'
  BY <1>2, Zenon
  DEF RunGoroutine, ElectionTimeout, StepDown, StartCampaign, CampaignOver,
              Tick, VoteHigherTerm, VoteCounted, VoteWins
<1>3. ASSUME NEW i \in Server, \/ \E p \in Server : sendHeartbeatToPeer(i, p)
                               \/ \E c \in Cmd : Replicate(i, c)
      PROVE  usurped'
  BY <1>3, Zenon DEF sendHeartbeatToPeer, Replicate
<1>4. ASSUME NEW c \in Cmd, \/ ReplicateCommit(c)
                            \/ \E p \in Server : replicateToPeer(c, p)
      PROVE  usurped'
  BY <1>4, Zenon DEF ReplicateCommit, replicateToPeer
<1>5. ASSUME NEW r \in aeRpcs, \/ HandleAppendEntries(r) \/ AppendEntriesError(r)
                               \/ HeartbeatReply(r) \/ ReplicateReply(r)
      PROVE  usurped'
  BY <1>5, Zenon
  DEF HandleAppendEntries, AppendStale, AppendMismatch, AppendSuccess,
              AppendEntriesError, HeartbeatReply, ReplicateReply
<1>6. ASSUME NEW r \in voteRpcs, HandleRequestVote(r) PROVE usurped'
  BY <1>6 DEF HandleRequestVote
<1> QED BY <1>1, <1>2, <1>3, <1>4, <1>5, <1>6 DEF Next

\* The steps the argument about logs has to look at; no other writes a log,
\* elects a node or sends an AppendEntries request.
LEMMA LogSteps ==
    ASSUME TypeInv, [Next]_vars
    PROVE  \/ UNCHANGED <<log, elected>> /\ \A m \in aeRpcs' : Kept(m)
           \/ \E i \in Server, r \in voteRpcs : VoteWins(i, r) /\ StillCandidate(i)
           \/ \E i \in Server, p \in Server : sendHeartbeatToPeer(i, p)
           \/ \E i \in Server, c \in Cmd : Replicate(i, c)
           \/ \E c \in Cmd, p \in Server : replicateToPeer(c, p)
           \/ \E r \in aeRpcs : AppendSuccess(r)
<1> USE DEF history, logVars
<1>1. \A m \in aeRpcs : Kept(m)
  BY DEF Kept
<1>2. ASSUME UNCHANGED <<log, elected>>, aeRpcs' \subseteq aeRpcs
      PROVE  UNCHANGED <<log, elected>> /\ \A m \in aeRpcs' : Kept(m)
  BY <1>1, <1>2
<1>3. CASE UNCHANGED vars
  BY <1>2, <1>3, Zenon DEF vars
<1>4. ASSUME NEW i \in Server, RunGoroutine(i),
             ~\E r \in voteRpcs : VoteWins(i, r) /\ StillCandidate(i)
      PROVE  UNCHANGED <<log, elected, aeRpcs>>
  BY <1>4 DEF RunGoroutine, ElectionTimeout, StepDown, StartCampaign, CampaignOver,
              Tick, VoteHigherTerm, VoteCounted, VoteWins
<1>5. ASSUME NEW c \in Cmd, ReplicateCommit(c)
      PROVE  UNCHANGED <<log, elected, aeRpcs>>
  BY <1>5 DEF ReplicateCommit
<1>6. ASSUME NEW r \in aeRpcs, AppendStale(r) \/ AppendMismatch(r)
      PROVE  UNCHANGED <<log, elected>> /\ \A m \in aeRpcs' : Kept(m)
  <2>1. UNCHANGED <<log, elected>> /\ \E term : Answer(r, term, FALSE)
    BY <1>6, Zenon DEF AppendStale, AppendMismatch
  <2> QED BY <2>1, AnswerKeeps, Zenon
<1>7. ASSUME NEW r \in aeRpcs, HeartbeatReply(r) \/ ReplicateReply(r)
      PROVE  UNCHANGED <<log, elected>> /\ aeRpcs' \subseteq aeRpcs
  BY <1>7 DEF HeartbeatReply, ReplicateReply
<1>8. ASSUME NEW r \in aeRpcs, AppendEntriesError(r)
      PROVE  UNCHANGED <<log, elected>> /\ \A m \in aeRpcs' : Kept(m)
  <2>1. PICK g : g = [r EXCEPT !.caller = "gone", !.cmd = None]
    OBVIOUS
  <2>2. UNCHANGED <<log, elected>> /\ aeRpcs' \subseteq aeRpcs \union {g}
    BY <1>8, <2>1 DEF AppendEntriesError
  <2>3. r \in AERpc
    BY DEF TypeInv, TypeOK
  <2>4. Kept(g)
    BY <2>1, <2>3 DEF Kept, AERpc
  <2> QED BY <1>1, <2>2, <2>4
<1>9. ASSUME NEW r \in voteRpcs, HandleRequestVote(r)
      PROVE  UNCHANGED <<log, elected, aeRpcs>>
  BY <1>9 DEF HandleRequestVote
<1> QED BY <1>2, <1>3, <1>4, <1>5, <1>6, <1>7, <1>8, <1>9
        DEF Next, HandleAppendEntries

(***************************************************************************)
(* However a step changes the logs, the leaders' logs have only grown, and *)
(* everything else is still made of them.                                  *)
(***************************************************************************)
LEMMA HistoryStep ==
    \A T : TypeInv /\ ElectionInv /\ RoleInv /\ HistoryInv(T) /\ [Next]_vars /\ ~usurped'
             => \E U : Grows(T, U) /\ HistoryInv(U)'

\* Growing term logs explain what they explained.
<1>RootedExtends.
    ASSUME NEW T \in [Nat -> Seq(Entry)], NEW U \in [Nat -> Seq(Entry)],
           Extends(T, U), NEW l \in Seq(Entry), Rooted(l, T)
    PROVE  Rooted(l, U)
  <2> USE <1>RootedExtends
  <2> SUFFICES ASSUME NEW k \in 1..Len(l) PROVE Agree(l, U[l[k].term], k)
    BY DEF Rooted
  <2>1. k \in Nat /\ l[k].term \in Nat
    <3>1. l[k].term \in Nat
      BY LogTypes, Zenon
    <3> QED BY <3>1
  <2>2. PICK m \in Seq(Entry) : m = T[l[k].term]
    BY <2>1, Zenon
  <2>3. PICK w \in Seq(Entry) : w = U[l[k].term]
    BY <2>1, Zenon
  <2>4. Agree(l, m, k)
    BY <2>2 DEF Rooted
  <2>5. Len(m) <= Len(w) /\ \A j \in 1..Len(m) : w[j] = m[j]
    BY <2>1, <2>2, <2>3, Zenon DEF Extends
  <2>6. Agree(l, w, k)
    BY <2>1, <2>4, <2>5, AgreeExtends, Zenon
  <2> QED BY <2>3, <2>6

\* What agrees with a rooted log and has nothing else is rooted.
<1>RootedPrefix.
    ASSUME NEW T \in [Nat -> Seq(Entry)],
           NEW l \in Seq(Entry), NEW w \in Seq(Entry), Rooted(w, T),
           Agree(l, w, Len(l))
    PROVE  Rooted(l, T)
  <2> USE <1>RootedPrefix
  <2> SUFFICES ASSUME NEW k \in 1..Len(l) PROVE Agree(l, T[l[k].term], k)
    BY DEF Rooted
  <2>1. k \in Nat /\ k <= Len(l) /\ Len(l) \in Nat
    OBVIOUS
  <2>2. Agree(l, w, k)
    BY <2>1, AgreeRules
  <2>3. l[k].term \in Nat
    BY LogTypes, Zenon
  <2>4. PICK m \in Seq(Entry) : m = T[l[k].term]
    BY <2>3, Zenon
  <2>5. Agree(w, m, k)
    <3>1. l[k] = w[k] /\ k \in 1..Len(w)
      BY <2>1, <2>2 DEF Agree
    <3> QED BY <2>4, <3>1 DEF Rooted
  <2>6. Agree(l, m, k)
    BY <2>1, <2>2, <2>5, AgreeRules
  <2> QED BY <2>4, <2>6

\* Whoever is in a term it has won was in it before, if nobody wins now.
<1>StillInTerm.
    ASSUME TypeInv, RoleInv, [Next]_vars, NEW i \in Server,
           <<currentTerm'[i], i>> \in elected
    PROVE  currentTerm'[i] = currentTerm[i]
  <2> USE <1>StillInTerm
  <2>1. currentTerm'[i] <= currentTerm[i]
    BY DEF RoleInv, ElectedTerms
  <2>2. currentTerm[i] \in Nat /\ currentTerm'[i] \in Nat
    BY TypeNext, Zenon DEF TypeInv, TypeOK
  <2> QED BY <2>1, <2>2, StableStep

\* Such a request is still a stretch of its leader's log.
<1>KeptRequest.
    ASSUME NEW T, Requests(T), NEW m, Kept(m)
    PROVE  <<m.term, m.src>> \in elected /\ Sent(m, T)
  BY <1>KeptRequest DEF Kept, Requests, Sent

\* Steps that write no log and elect nobody
<1>HistorySame.
    ASSUME TypeInv, RoleInv, [Next]_vars, NEW T, HistoryInv(T),
           UNCHANGED <<log, elected>>,
           \A m \in aeRpcs' : \/ Kept(m)
                              \/ <<m.term, m.src>> \in elected /\ Sent(m, T)
    PROVE  HistoryInv(T)'
  <2> USE <1>HistorySame
  <2>1. TermLogs(T) /\ LeaderLogs(T) /\ NodeLogs(T) /\ Requests(T)
    BY DEF HistoryInv
  <2>2. TermLogs(T)'
    BY <2>1, Zenon DEF TermLogs
  <2>3. LeaderLogs(T)'
    BY <2>1, <1>StillInTerm DEF LeaderLogs
  <2>4. NodeLogs(T)'
    <3> SUFFICES ASSUME NEW i \in Server, NEW k \in 1..Len(log[i])
                 PROVE  log[i][k].term <= currentTerm'[i]
      BY <2>1 DEF NodeLogs
    <3>1. log[i] \in Seq(Entry)
      BY DEF TypeInv, TypeOK
    <3>2. PICK t \in Nat : t = log[i][k].term
      BY <3>1, LogTypes
    <3>3. currentTerm[i] \in Nat /\ currentTerm'[i] \in Nat
      BY TypeNext, Zenon DEF TypeInv, TypeOK
    <3>4. t <= currentTerm[i]
      BY <2>1, <3>2, Zenon DEF NodeLogs
    <3>5. currentTerm[i] <= currentTerm'[i]
      BY <3>3, StableStep
    <3>6. t <= currentTerm'[i]
      BY <3>2, <3>3, <3>4, <3>5, LeqTransitive
    <3> QED BY <3>2, <3>6
  <2>5. Requests(T)'
    BY <2>1, <1>KeptRequest, Zenon DEF Requests
  <2> QED BY <2>2, <2>3, <2>4, <2>5 DEF HistoryInv

\* A request sent from the log of the term's leader is a stretch of it.
<1>SentFromLeader.
    ASSUME NEW T, NEW t, NEW l \in Seq(Entry), T[t] = l,
           NEW next \in Nat, next >= 1, NEW entries \in Seq(Entry),
           \A k \in 1..Len(entries) : entries[k] = l[next + k - 1],
           Len(entries) > 0 => next + Len(entries) <= Len(l) + 1,
           NEW m, m.term = t, m.entries = entries, m.prevIndex = next - 1,
           m.prevTerm = TermAt(l, next - 1)
    PROVE  Sent(m, T)
  <2> USE <1>SentFromLeader
  <2>1. CASE next - 1 > Len(l)
    BY <2>1 DEF Sent, TermAt, HasEntry
  <2>2. CASE ~(next - 1 > Len(l))
    <3>1. next - 1 + Len(entries) <= Len(l)
      BY <2>2
    <3>2. next - 1 > 0 => TermAt(l, next - 1) = l[next - 1].term
      BY <2>2 DEF TermAt, HasEntry
    <3>3. \A k \in 1..Len(entries) : entries[k] = l[next - 1 + k]
      <4> TAKE k \in 1..Len(entries)
      <4>1. next - 1 + k = next + k - 1
        OBVIOUS
      <4> QED BY <4>1
    <3> QED BY <3>1, <3>2, <3>3 DEF Sent
  <2> QED BY <2>1, <2>2

\* sendHeartbeatToPeer, by a node that has won its term
<1>HistorySendHeartbeat.
    ASSUME TypeInv, RoleInv, NEW T, HistoryInv(T),
           NEW i \in Server, NEW p \in Server, sendHeartbeatToPeer(i, p), ~usurped'
    PROVE  /\ UNCHANGED <<log, elected>>
           /\ \A m \in aeRpcs' : \/ Kept(m)
                                 \/ <<m.term, m.src>> \in elected /\ Sent(m, T)
  <2> USE <1>HistorySendHeartbeat
  <2> DEFINE next == nextIndex[i][p]
             entries == IF Behind(i, p) THEN EntriesFrom(log[i], next) ELSE <<>>
  <2>1. PICK q : q = AERequest("heartbeat", None, i, p, currentTerm[i],
                               HeartbeatPrevIndex(i, p), entries, commitIndex[i])
    OBVIOUS
  <2>2. /\ aeRpcs' = aeRpcs \union {q} /\ UNCHANGED <<log, elected>>
        /\ p \in hbReady[i] /\ <<currentTerm[i], i>> \in elected
    BY <2>1, Zenon DEF sendHeartbeatToPeer, logVars
  <2>3. next \in Nat /\ next >= 1
    <3>1. pc[i] = "leader" /\ p \in Peers(i)
      BY <2>2 DEF TypeInv, HeartbeatsOfLeader
    <3> QED BY <3>1, NodeTypes, Zenon DEF TypeInv, NextPositive
  <2>4. /\ log[i] \in Seq(Entry) /\ currentTerm[i] \in Nat
        /\ T[currentTerm[i]] = log[i]
    BY <2>2, NodeTypes, Zenon DEF TypeInv, HistoryInv, LeaderLogs
  <2>5. /\ q.term = currentTerm[i] /\ q.src = i /\ q.entries = entries
        /\ q.prevIndex = HeartbeatPrevIndex(i, p)
        /\ q.prevTerm = TermAt(log[i], HeartbeatPrevIndex(i, p))
    BY <2>1, Zenon DEF AERequest
  <2>6. Sent(q, T)
    <3>1. CASE Behind(i, p)
      <4>1. next <= Len(log[i])
        BY <3>1 DEF Behind, LastIndex
      <4>2. /\ EntriesFrom(log[i], next) \in Seq(Entry)
            /\ Len(EntriesFrom(log[i], next)) = Len(log[i]) - next + 1
            /\ \A k \in 1..Len(EntriesFrom(log[i], next)) :
                  EntriesFrom(log[i], next)[k] = log[i][next + k - 1]
        BY <2>3, <2>4, <4>1, EntriesFromType, Zenon
      <4>3. /\ q.entries = EntriesFrom(log[i], next) /\ q.prevIndex = next - 1
            /\ q.prevTerm = TermAt(log[i], next - 1)
        BY <2>5, <3>1 DEF HeartbeatPrevIndex
      <4>4. Len(log[i]) \in Nat
        BY <2>4, LenFacts
      <4> HIDE DEF next
      <4>5. next + Len(EntriesFrom(log[i], next)) <= Len(log[i]) + 1
        BY <2>3, <4>2, <4>4
      <4>6. PICK l \in Seq(Entry), n \in Nat, es \in Seq(Entry) :
              l = log[i] /\ n = next /\ es = EntriesFrom(log[i], next)
        BY <2>3, <2>4, <4>2, Zenon
      <4>7. /\ T[q.term] = l /\ q.entries = es /\ q.prevIndex = n - 1
            /\ q.prevTerm = TermAt(l, n - 1)
        BY <2>4, <2>5, <4>3, <4>6, Zenon
      <4>8. /\ n >= 1 /\ \A k \in 1..Len(es) : es[k] = l[n + k - 1]
            /\ n + Len(es) <= Len(l) + 1
        BY <2>3, <4>2, <4>5, <4>6, Zenon
      <4> QED BY <4>7, <4>8, <1>SentFromLeader, Zenon
    <3>2. CASE ~Behind(i, p)
      <4>1. q.entries = <<>> /\ q.prevIndex = 0
        BY <2>5, <3>2 DEF HeartbeatPrevIndex
      <4>2. Len(log[i]) >= 0 /\ Len(log[i]) \in Nat
        BY <2>4, LenFacts
      <4>3. q.prevIndex + Len(q.entries) <= Len(T[q.term])
        BY <2>4, <2>5, <4>1, <4>2
      <4>4. Len(q.entries) = 0
        BY <4>1
      <4> QED BY <4>1, <4>3, <4>4 DEF Sent
    <3> QED BY <3>1, <3>2
  <2>7. \A m \in aeRpcs : Kept(m)
    BY Zenon DEF Kept
  <2> QED BY <2>2, <2>5, <2>6, <2>7, Zenon

\* replicateToPeer, which looks whether its node still leads the term
<1>HistoryReplicateToPeer.
    ASSUME TypeInv, RoleInv, NEW T, HistoryInv(T),
           NEW c \in Cmd, NEW p \in Server, replicateToPeer(c, p)
    PROVE  /\ UNCHANGED <<log, elected>>
           /\ \A m \in aeRpcs' : \/ Kept(m)
                                 \/ <<m.term, m.src>> \in elected /\ Sent(m, T)
  <2> USE <1>HistoryReplicateToPeer
  <2> DEFINE i == call[c].node
             next == nextIndex[i][p]
             entries == EntriesBetween(log[i], next, call[c].index)
  <2>1. PICK q : q = AERequest("replicate", c, i, p, call[c].term, next - 1,
                               entries, call[c].commit)
    OBVIOUS
  <2>2. UNCHANGED <<log, elected>> /\ p \in call[c].ready
    BY Zenon DEF replicateToPeer, logVars, history
  <2>3. \/ aeRpcs' = aeRpcs
        \/ /\ aeRpcs' = aeRpcs \union {q}
           /\ state[i] = Leader /\ currentTerm[i] = call[c].term
    BY <2>1 DEF replicateToPeer
  <2>4. \A m \in aeRpcs : Kept(m)
    BY DEF Kept
  <2>5. CASE aeRpcs' = aeRpcs
    BY <2>2, <2>4, <2>5, Zenon
  <2>6. CASE /\ aeRpcs' = aeRpcs \union {q}
             /\ state[i] = Leader /\ currentTerm[i] = call[c].term
    <3>1. call[c] \in Call /\ i \in Server /\ p \in Peers(i)
      BY <2>2, Zenon DEF TypeInv, TypeOK, CallOfNode
    <3>2. next \in Nat /\ next >= 1
      BY <2>6, <3>1, NodeTypes, Zenon DEF TypeInv, NextPositive
    <3>3. <<currentTerm[i], i>> \in elected
      BY <2>6, <3>1, Zenon DEF RoleInv, LeadersElected
    <3>4. /\ log[i] \in Seq(Entry) /\ currentTerm[i] \in Nat
          /\ T[currentTerm[i]] = log[i]
      BY <3>1, <3>3, NodeTypes DEF TypeInv, HistoryInv, LeaderLogs
    <3>5. /\ entries \in Seq(Entry)
          /\ \A k \in 1..Len(entries) : entries[k] = log[i][next + k - 1]
          /\ Len(entries) > 0 => next + Len(entries) <= Len(log[i]) + 1
      <4>1. call[c].index \in Nat
        BY <3>1 DEF Call
      <4> QED BY <3>2, <3>4, <4>1, EntriesBetweenType, Zenon
    <3>6. /\ q.term = currentTerm[i] /\ q.src = i /\ q.entries = entries
          /\ q.prevIndex = next - 1 /\ q.prevTerm = TermAt(log[i], next - 1)
      BY <2>1, <2>6, Zenon DEF AERequest
    <3> HIDE DEF entries, next, i
    <3>7. Sent(q, T)
      <4>1. PICK l \in Seq(Entry), n \in Nat, es \in Seq(Entry) :
              l = log[i] /\ n = next /\ es = entries
        BY <3>2, <3>4, <3>5, Zenon
      <4>2. /\ T[q.term] = l /\ q.entries = es /\ q.prevIndex = n - 1
            /\ q.prevTerm = TermAt(l, n - 1)
        BY <3>4, <3>6, <4>1, Zenon
      <4>3. /\ n >= 1 /\ \A k \in 1..Len(es) : es[k] = l[n + k - 1]
            /\ Len(es) > 0 => n + Len(es) <= Len(l) + 1
        BY <3>2, <3>5, <4>1, Zenon
      <4> QED BY <4>2, <4>3, <1>SentFromLeader, Zenon
    <3> QED BY <2>2, <2>4, <2>6, <3>3, <3>6, <3>7
  <2> QED BY <2>3, <2>5, <2>6, Zenon

\* Growing term logs hold what was sent from them.
<1>SentExtends.
    ASSUME NEW T \in [Nat -> Seq(Entry)], NEW U \in [Nat -> Seq(Entry)],
           Extends(T, U), NEW m \in AERpc, Sent(m, T)
    PROVE  Sent(m, U)
  <2> USE <1>SentExtends
  <2>1. /\ m.term \in Nat /\ m.prevIndex \in Nat /\ m.entries \in Seq(Entry)
    BY DEF AERpc
  <2>2. PICK p \in Nat, n \in Nat : p = m.prevIndex /\ n = Len(m.entries)
    BY <2>1, LenFacts, Zenon
  <2>3. PICK l \in Seq(Entry) : l = T[m.term]
    BY <2>1, Zenon
  <2>4. PICK w \in Seq(Entry) : w = U[m.term]
    BY <2>1, Zenon
  <2>5. Len(l) <= Len(w) /\ \A j \in 1..Len(l) : w[j] = l[j]
    BY <2>1, <2>3, <2>4, Zenon DEF Extends
  <2>6. CASE /\ p + n <= Len(l)
             /\ p > 0 => m.prevTerm = l[p].term
             /\ \A k \in 1..n : m.entries[k] = l[p + k]
    <3>1. p + n <= Len(w)
      BY <2>5, <2>6
    <3>2. p > 0 => m.prevTerm = w[p].term
      <4>1. p > 0 => p \in 1..Len(l)
        BY <2>6
      <4> QED BY <2>5, <2>6, <4>1, Zenon
    <3>3. \A k \in 1..n : m.entries[k] = w[p + k]
      <4>1. ASSUME NEW k \in 1..n PROVE p + k \in 1..Len(l)
        BY <2>6
      <4> QED BY <2>5, <2>6, <4>1, Zenon
    <3> QED BY <2>2, <2>4, <3>1, <3>2, <3>3 DEF Sent
  <2>7. CASE m.prevIndex > 0 /\ m.prevTerm = 0
    BY <2>7, Zenon DEF Sent
  <2> QED BY <2>2, <2>3, <2>6, <2>7, Zenon DEF Sent

(***************************************************************************)
(* The steps that change a term log: node i, in the term t it has won or   *)
(* wins now, has the log w, which is what it had before and more.          *)
(***************************************************************************)
<1>HistoryGrows.
    ASSUME TypeInv, TypeInv', RoleInv, [Next]_vars, ElectionSafety',
           NEW T, HistoryInv(T), NEW i \in Server, NEW t \in Nat,
           NEW w \in Seq(Entry),
           t = currentTerm[i], 1 <= t, <<t, i>> \in elected',
           elected \subseteq elected', \A e \in elected' : e \in elected \/ e = <<t, i>>,
           UNCHANGED <<currentTerm, aeRpcs>>,
           log'[i] = w, \A j \in Server \ {i} : log'[j] = log[j],
           Len(T[t]) <= Len(w), \A j \in 1..Len(T[t]) : w[j] = T[t][j],
           Contiguous(w),
           \A k \in 1..Len(w) : 1 <= w[k].term /\ w[k].term <= t,
           \A k \in 1..Len(w) : w[k].term = t \/ Agree(w, T[w[k].term], k)
    PROVE  /\ Extends(T, [T EXCEPT ![t] = w])
           /\ HistoryInv([T EXCEPT ![t] = w])'
  <2> USE <1>HistoryGrows
  <2>1. TermLogs(T) /\ LeaderLogs(T) /\ NodeLogs(T) /\ Requests(T)
    BY Zenon DEF HistoryInv
  <2>2. T \in [Nat -> Seq(Entry)]
    BY <2>1, Zenon DEF TermLogs
  <2>3. PICK U \in [Nat -> Seq(Entry)] : U = [T EXCEPT ![t] = w]
    BY <2>2, Zenon
  <2>4. U[t] = w /\ \A u \in Nat : u # t => U[u] = T[u]
    BY <2>2, <2>3, Zenon
  <2>5. Extends(T, U)
    <3> SUFFICES ASSUME NEW u \in Nat
                 PROVE  /\ Len(T[u]) <= Len(U[u])
                        /\ \A j \in 1..Len(T[u]) : U[u][j] = T[u][j]
      BY Zenon DEF Extends
    <3>1. CASE u = t
      BY <2>4, <3>1, Zenon
    <3>2. CASE u # t
      <4>1. U[u] = T[u] /\ T[u] \in Seq(Entry)
        BY <2>2, <2>4, <3>2, Zenon
      <4> QED BY <4>1
    <3> QED BY <3>1, <3>2, Zenon
  <2>6. Rooted(w, U)
    <3> SUFFICES ASSUME NEW k \in 1..Len(w) PROVE Agree(w, U[w[k].term], k)
      BY Zenon DEF Rooted
    <3>1. w[k].term \in Nat
      BY LogTypes, Zenon
    <3>2. CASE w[k].term = t
      <4>1. U[w[k].term] = w
        BY <2>4, <3>2, Zenon
      <4>2. Agree(w, w, k)
        BY DEF Agree
      <4> QED BY <4>1, <4>2, Zenon
    <3>3. CASE w[k].term # t
      <4>1. U[w[k].term] = T[w[k].term]
        BY <2>4, <3>1, <3>3, Zenon
      <4>2. Agree(w, T[w[k].term], k)
        BY <3>3, Zenon
      <4> QED BY <4>1, <4>2
    <3> QED BY <3>2, <3>3
  <2>7. TermLogs(U)
    <3> SUFFICES ASSUME NEW u \in Nat
                 PROVE  /\ Rooted(U[u], U) /\ Contiguous(U[u])
                        /\ \A k \in 1..Len(U[u]) :
                              1 <= U[u][k].term /\ U[u][k].term <= u
      BY Zenon DEF TermLogs
    <3>1. CASE u = t
      BY <2>4, <2>6, <3>1, Zenon
    <3>2. CASE u # t
      <4>1. U[u] = T[u] /\ T[u] \in Seq(Entry)
        BY <2>2, <2>4, <3>2, Zenon
      <4>2. Rooted(T[u], T)
        BY <2>1 DEF TermLogs
      <4>3. Rooted(T[u], U)
        BY <2>2, <2>5, <4>1, <4>2, <1>RootedExtends, Zenon
      <4> QED BY <2>1, <4>1, <4>3, Zenon DEF TermLogs
    <3> QED BY <3>1, <3>2, Zenon
  <2>8. LeaderLogs(U)'
    <3>1. ASSUME NEW u \in Nat, \A j \in Server : <<u, j>> \notin elected'
          PROVE  U[u] = <<>>
      <4>1. u # t
        BY <3>1, Zenon
      <4>2. \A j \in Server : <<u, j>> \notin elected
        BY <3>1, Zenon
      <4> QED BY <2>1, <2>4, <4>1, <4>2, Zenon DEF LeaderLogs
    <3>2. ASSUME NEW j \in Server, <<currentTerm[j], j>> \in elected'
          PROVE  U[currentTerm[j]] = log'[j]
      <4>1. CASE j = i
        BY <2>4, <4>1, Zenon
      <4>2. CASE j # i
        <5>1. currentTerm[j] # t
          <6>1. SUFFICES ASSUME currentTerm[j] = t PROVE FALSE
            OBVIOUS
          <6>2. <<t, i>>[2] = <<t, j>>[2]
            BY <3>2, <6>1, Zenon DEF ElectionSafety
          <6> QED BY <4>2, <6>2
        <5>2. <<currentTerm[j], j>> \in elected
          BY <3>2, <4>2
        <5>3. currentTerm[j] \in Nat
          BY NodeTypes, Zenon DEF TypeInv
        <5> QED BY <2>1, <2>4, <4>2, <5>1, <5>2, <5>3, Zenon DEF LeaderLogs
      <4> QED BY <4>1, <4>2
    <3> QED BY <3>1, <3>2, Zenon DEF LeaderLogs
  <2>9. NodeLogs(U)'
    <3> SUFFICES ASSUME NEW j \in Server
                 PROVE  /\ Rooted(log'[j], U)
                        /\ \A k \in 1..Len(log'[j]) : log'[j][k].term <= currentTerm[j]
      BY Zenon DEF NodeLogs
    <3>1. CASE j = i
      BY <2>6, <3>1, Zenon
    <3>2. CASE j # i
      <4>1. log'[j] = log[j] /\ log[j] \in Seq(Entry)
        BY <3>2, NodeTypes, Zenon DEF TypeInv
      <4>2. Rooted(log[j], T)
        BY <2>1 DEF NodeLogs
      <4>3. Rooted(log[j], U)
        BY <2>2, <2>5, <4>1, <4>2, <1>RootedExtends, Zenon
      <4> QED BY <2>1, <4>1, <4>3, Zenon DEF NodeLogs
    <3> QED BY <3>1, <3>2, Zenon
  <2>10. Requests(U)'
    <3> SUFFICES ASSUME NEW m \in aeRpcs
                 PROVE  <<m.term, m.src>> \in elected' /\ Sent(m, U)
      BY Zenon DEF Requests
    <3>1. m \in AERpc
      BY Zenon DEF TypeInv, TypeOK
    <3>2. <<m.term, m.src>> \in elected /\ Sent(m, T)
      BY <2>1, Zenon DEF Requests
    <3> QED BY <2>2, <2>5, <3>1, <3>2, <1>SentExtends, Zenon
  <2>11. HistoryInv(U)'
    BY <2>7, <2>8, <2>9, <2>10, Zenon DEF HistoryInv, TermLogs
  <2> QED BY <2>3, <2>5, <2>11

\* Replicate appends to the log of the term's leader.
<1>HistoryReplicate.
    ASSUME TypeInv, TypeInv', RoleInv, [Next]_vars, ElectionSafety',
           NEW T, HistoryInv(T),
           NEW i \in Server, NEW c \in Cmd, Replicate(i, c)
    PROVE  \E U : Grows(T, U) /\ HistoryInv(U)'
  <2> USE <1>HistoryReplicate
  <2>1. TermLogs(T) /\ LeaderLogs(T) /\ NodeLogs(T)
    BY DEF HistoryInv
  <2>2. PICK t \in Nat : t = currentTerm[i]
    BY NodeTypes DEF TypeInv
  <2>3. PICK l \in Seq(Entry) : l = log[i]
    BY NodeTypes, Zenon DEF TypeInv
  <2>4. <<t, i>> \in elected /\ 1 <= t
    BY <2>2, Zenon DEF Replicate, RoleInv, LeadersElected, ElectedTerms
  <2>5. T[t] = l
    BY <2>1, <2>2, <2>3, <2>4 DEF LeaderLogs
  <2>6. PICK e : e = [term |-> t, index |-> Len(l) + 1, cmd |-> c]
    BY Zenon
  <2>7. e \in Entry /\ e.term = t /\ e.index = Len(l) + 1
    <3>1. Len(l) + 1 \in Nat
      OBVIOUS
    <3> QED BY <2>6, <3>1 DEF Entry
  <2>8. PICK w \in Seq(Entry) : w = Append(l, e)
    BY <2>7, AppendFacts, Zenon
  <2>9. /\ Len(w) = Len(l) + 1 /\ w[Len(l) + 1] = e
        /\ \A j \in 1..Len(l) : w[j] = l[j]
    BY <2>7, <2>8, AppendFacts
  <2>10. log' = [log EXCEPT ![i] = w]
    BY <2>2, <2>3, <2>6, <2>8, Zenon DEF Replicate, LastIndex
  <2>11. log'[i] = w /\ \A j \in Server \ {i} : log'[j] = log[j]
    BY <2>10 DEF TypeInv, TypeOK
  <2>12. Rooted(l, T) /\ \A k \in 1..Len(l) : l[k].term <= t
    BY <2>1, <2>2, <2>3, Zenon DEF NodeLogs
  <2>13. \A k \in 1..Len(w) : k \in 1..Len(l) \/ k = Len(l) + 1
    BY <2>9
  <2>14. Contiguous(w) /\ \A k \in 1..Len(w) : 1 <= w[k].term /\ w[k].term <= t
    <3> SUFFICES ASSUME NEW k \in 1..Len(w)
                 PROVE  w[k].index = k /\ 1 <= w[k].term /\ w[k].term <= t
      BY DEF Contiguous
    <3>1. CASE k \in 1..Len(l)
      <4>1. l[k].index = k /\ 1 <= l[k].term
        BY <2>1, <2>12, <3>1, RootedEntries, Zenon
      <4> QED BY <2>9, <2>12, <3>1, <4>1, Zenon
    <3>2. CASE k = Len(l) + 1
      BY <2>4, <2>7, <2>9, <3>2
    <3> QED BY <2>13, <3>1, <3>2, Zenon
  <2>15. \A k \in 1..Len(w) : w[k].term = t \/ Agree(w, T[w[k].term], k)
    <3> SUFFICES ASSUME NEW k \in 1..Len(l) PROVE Agree(w, T[w[k].term], k)
      BY <2>7, <2>9, <2>13
    <3>1. l[k].term \in Nat /\ w[k] = l[k]
      BY <2>9, LogTypes
    <3>2. PICK m \in Seq(Entry) : m = T[l[k].term]
      BY <2>1, <3>1, Zenon DEF TermLogs
    <3>3. Agree(l, m, k)
      BY <2>12, <3>2 DEF Rooted
    <3>4. Agree(w, m, k)
      BY <2>9, <3>3 DEF Agree
    <3> QED BY <3>1, <3>2, <3>4
  <2>16. /\ elected' = elected /\ currentTerm' = currentTerm /\ aeRpcs' = aeRpcs
    BY DEF Replicate, nodeVars, history
  <2>17. Len(T[t]) <= Len(w) /\ \A j \in 1..Len(T[t]) : w[j] = T[t][j]
    BY <2>5, <2>9
  <2>18. PICK U : U = [T EXCEPT ![t] = w]
    BY Zenon
  <2>19. Extends(T, U) /\ HistoryInv(U)'
    BY <2>2, <2>4, <2>11, <2>14, <2>15, <2>16, <2>17, <2>18, <1>HistoryGrows, Zenon
  <2>20. Grows(T, U)
    <3> SUFFICES ASSUME NEW u \in Nat, NEW j \in 1..Len(U[u])
                 PROVE  j <= Len(T[u]) \/ U[u][j].term = u
      BY <2>19, Zenon DEF Grows
    <3>1. T \in [Nat -> Seq(Entry)]
      BY <2>1 DEF TermLogs
    <3>2. CASE u = t
      <4>1. U[u] = w
        BY <2>18, <3>1, <3>2
      <4> QED BY <2>5, <2>7, <2>9, <2>13, <3>2, <4>1
    <3>3. CASE u # t
      <4>1. U[u] = T[u] /\ T[u] \in Seq(Entry)
        BY <2>18, <3>1, <3>3
      <4> QED BY <4>1
    <3> QED BY <3>2, <3>3, Zenon
  <2> QED BY <2>19, <2>20

\* becomeLeader makes the winner's log the log of its term.
<1>HistoryVoteWins.
    ASSUME TypeInv, TypeInv', RoleInv, [Next]_vars, ElectionSafety',
           NEW T, HistoryInv(T),
           NEW i \in Server, NEW r \in voteRpcs, VoteWins(i, r), StillCandidate(i)
    PROVE  \E U : Grows(T, U) /\ HistoryInv(U)'
  <2> USE <1>HistoryVoteWins
  <2>1. TermLogs(T) /\ LeaderLogs(T) /\ NodeLogs(T)
    BY DEF HistoryInv
  <2>2. PICK t \in Nat : t = currentTerm[i]
    BY NodeTypes, Zenon DEF TypeInv
  <2>3. PICK w \in Seq(Entry) : w = log[i]
    BY NodeTypes, Zenon DEF TypeInv
  <2>4. /\ elected' = elected \union {<<t, i>>} /\ log' = log
        /\ currentTerm' = currentTerm /\ aeRpcs' = aeRpcs
        /\ pc[i] = "candidate" /\ t = campaign[i]
    BY <2>2 DEF VoteWins, VoteAnswer, StillCandidate, logVars
  <2>5. 1 <= t /\ <<t, i>> \notin elected
    BY <2>4, Zenon DEF RoleInv, CampaignsOpen
  <2>6. \A j \in Server : <<t, j>> \notin elected
    <3> SUFFICES ASSUME NEW j \in Server, <<t, j>> \in elected PROVE FALSE
      OBVIOUS
    <3>1. <<t, j>>[2] = <<t, i>>[2]
      BY <2>4, Zenon DEF ElectionSafety
    <3> QED BY <2>5, <3>1
  <2>7. T[t] = <<>> /\ Len(T[t]) = 0
    BY <2>1, <2>6, LenEmpty, Zenon DEF LeaderLogs
  <2>8. Rooted(w, T) /\ \A k \in 1..Len(w) : w[k].term <= t
    BY <2>1, <2>2, <2>3, Zenon DEF NodeLogs
  <2>9. Contiguous(w) /\ \A k \in 1..Len(w) : 1 <= w[k].term
    BY <2>1, <2>8, RootedEntries, Zenon DEF Contiguous
  <2>10. Len(T[t]) <= Len(w) /\ \A j \in 1..Len(T[t]) : w[j] = T[t][j]
    BY <2>7, EmptyIsPrefix, Zenon
  <2>11. \A k \in 1..Len(w) : w[k].term = t \/ Agree(w, T[w[k].term], k)
    BY <2>8 DEF Rooted
  <2>12. PICK U : U = [T EXCEPT ![t] = w]
    BY Zenon
  <2>13. Extends(T, U) /\ HistoryInv(U)'
    BY <2>2, <2>3, <2>4, <2>5, <2>8, <2>9, <2>10, <2>11, <2>12,
       <1>HistoryGrows, Zenon
  <2>14. Grows(T, U)
    <3> SUFFICES ASSUME NEW u \in Nat, NEW k \in Server, <<u, k>> \in elected,
                        NEW j \in 1..Len(U[u])
                 PROVE  j <= Len(T[u]) \/ U[u][j].term = u
      BY <2>13, Zenon DEF Grows
    <3>1. u # t
      BY <2>6, Zenon
    <3>2. U[u] = T[u] /\ T[u] \in Seq(Entry)
      BY <2>1, <2>12, <3>1 DEF TermLogs
    <3> QED BY <3>2
  <2> QED BY <2>13, <2>14

\* HandleAppendEntries keeps every log rooted in the term logs.
<1>HistoryAppendSuccess.
    ASSUME TypeInv, TypeInv', RoleInv, ElectionSafety, [Next]_vars,
           NEW T, HistoryInv(T), NEW r \in aeRpcs, AppendSuccess(r)
    PROVE  HistoryInv(T)'
  <2> USE <1>HistoryAppendSuccess
  <2>1. TermLogs(T) /\ LeaderLogs(T) /\ NodeLogs(T) /\ Requests(T)
    BY DEF HistoryInv
  <2>2. r.dst \in Server /\ r.src \in Server /\ r.term \in Nat
    BY Zenon DEF TypeInv, TypeOK, AERpc
  <2>3. PICK i \in Server : i = r.dst
    BY <2>2
  <2>4. PICK n : n = r.prevIndex + Len(r.entries)
    OBVIOUS
  <2>5. PICK w \in Seq(Entry) : w = T[r.term]
    BY <2>1, <2>2, Zenon DEF TermLogs
  <2>6. PICK m \in Seq(Entry) : m = log'[i]
    BY NodeTypes, Zenon DEF TypeInv, TypeOK
  <2>7. PICK l \in Seq(Entry) : l = log[i]
    BY NodeTypes, Zenon DEF TypeInv
  <2>8. /\ n \in Nat /\ Agree(m, w, n)
        /\ m = l \/ Len(m) = n
        /\ \A j \in Server \ {i} : log'[j] = log[j]
    BY <2>3, <2>4, <2>5, <2>6, <2>7, AppendFollowsLeader, Zenon
  <2>9. /\ elected' = elected /\ currentTerm' = [currentTerm EXCEPT ![i] = r.term]
        /\ r.term >= currentTerm[i]
    BY <2>3, Zenon DEF AppendSuccess, AcceptLeader, history
  <2>10. currentTerm'[i] = r.term /\ \A j \in Server \ {i} : currentTerm'[j] = currentTerm[j]
    BY <2>9, Zenon DEF TypeInv, TypeOK
  <2>11. Rooted(l, T) /\ Rooted(w, T)
    BY <2>1, <2>2, <2>5, <2>7, Zenon DEF NodeLogs, TermLogs
  <2>12. Rooted(m, T)
    <3>1. CASE m = l
      BY <2>11, <3>1
    <3>2. CASE Len(m) = n
      <4>1. Agree(m, w, Len(m))
        BY <2>8, <3>2, Zenon
      <4>2. T \in [Nat -> Seq(Entry)]
        BY <2>1, Zenon DEF TermLogs
      <4> QED BY <2>11, <4>1, <4>2, <1>RootedPrefix, Zenon
    <3> QED BY <2>8, <3>1, <3>2
  <2>13. ASSUME NEW k \in 1..Len(m) PROVE m[k].term <= r.term
    <3>1. CASE m = l
      <4>1. PICK t \in Nat : t = l[k].term
        BY <3>1, LogTypes, Zenon
      <4>2. currentTerm[i] \in Nat /\ currentTerm[i] <= r.term
        BY <2>2, <2>9, NodeTypes, Zenon DEF TypeInv
      <4>3. t <= currentTerm[i]
        BY <2>1, <2>7, <3>1, <4>1 DEF NodeLogs
      <4>4. t <= r.term
        BY <2>2, <4>1, <4>2, <4>3, LeqTransitive, Zenon
      <4> QED BY <3>1, <4>1, <4>4
    <3>2. CASE Len(m) = n
      <4>1. m[k] = w[k] /\ k \in 1..Len(w)
        <5>1. k \in 1..n
          BY <3>2, Zenon
        <5> QED BY <2>8, <5>1 DEF Agree
      <4> QED BY <2>1, <2>2, <2>5, <4>1, Zenon DEF TermLogs
    <3> QED BY <2>8, <3>1, <3>2
  <2>14. TermLogs(T)'
    BY <2>1 DEF TermLogs
  <2>15. LeaderLogs(T)'
    <3>1. ASSUME NEW j \in Server, <<currentTerm'[j], j>> \in elected
          PROVE  T[currentTerm'[j]] = log'[j]
      <4>1. j # i
        <5>1. SUFFICES ASSUME j = i PROVE FALSE
          OBVIOUS
        <5>2. <<r.term, r.src>> \in elected /\ <<r.term, i>> \in elected
          BY <2>1, <2>10, <3>1, <5>1, Zenon DEF Requests
        <5>3. <<r.term, r.src>>[2] = <<r.term, i>>[2]
          BY <5>2, Zenon DEF ElectionSafety
        <5> QED BY <2>3, <5>3 DEF TypeInv, ExchangeOfCall
      <4> QED BY <2>1, <2>8, <2>10, <3>1, <4>1, Zenon DEF LeaderLogs
    <3> QED BY <2>1, <2>9, <3>1, Zenon DEF LeaderLogs
  <2>16. NodeLogs(T)'
    <3> SUFFICES ASSUME NEW j \in Server
                 PROVE  /\ Rooted(log'[j], T)
                        /\ \A k \in 1..Len(log'[j]) : log'[j][k].term <= currentTerm'[j]
      BY Zenon DEF NodeLogs
    <3>1. CASE j = i
      BY <2>6, <2>10, <2>12, <2>13, <3>1, Zenon
    <3>2. CASE j # i
      BY <2>1, <2>8, <2>10, <3>2 DEF NodeLogs
    <3> QED BY <3>1, <3>2, Zenon
  <2>17. Requests(T)'
    <3>1. Answer(r, r.term, TRUE)
      BY Zenon DEF AppendSuccess
    <3>2. \A q \in aeRpcs' : Kept(q)
      BY <3>1, AnswerKeeps, Zenon
    <3> QED BY <2>1, <2>9, <3>2, <1>KeptRequest, Zenon DEF Requests
  <2> QED BY <2>14, <2>15, <2>16, <2>17 DEF HistoryInv

\* Term logs that stay as they are grow.
<1>GrowsReflexive.
    ASSUME NEW T, TermLogs(T)
    PROVE  Grows(T, T)
  <2> USE <1>GrowsReflexive
  <2> SUFFICES ASSUME NEW t \in Nat, NEW j \in 1..Len(T[t]) PROVE j <= Len(T[t])
    <3>1. \A t \in Nat : Len(T[t]) <= Len(T[t])
      BY DEF TermLogs
    <3> QED BY <3>1 DEF Grows, Extends
  <2>1. T[t] \in Seq(Entry)
    BY DEF TermLogs
  <2> QED BY <2>1
<1> SUFFICES ASSUME TypeInv, ElectionInv, RoleInv, [Next]_vars, ~usurped',
                    NEW T, HistoryInv(T)
             PROVE  \E U : Grows(T, U) /\ HistoryInv(U)'
  OBVIOUS
<1>1. TypeInv' /\ ElectionSafety /\ ElectionSafety'
  <2>1. TypeInv' /\ ElectionInv'
    BY TypeNext, ElectionNext
  <2>2. (TypeInv /\ ElectionInv => ElectionSafety)'
    BY QuorumsMakeElectionsSafe, PTL
  <2> QED BY <2>1, <2>2, QuorumsMakeElectionsSafe
<1>2. Grows(T, T)
  BY <1>GrowsReflexive DEF HistoryInv
<1>3. CASE UNCHANGED <<log, elected>> /\ \A m \in aeRpcs' : Kept(m)
  BY <1>2, <1>3, <1>HistorySame
<1>4. ASSUME NEW i \in Server, NEW r \in voteRpcs, VoteWins(i, r), StillCandidate(i)
      PROVE  \E U : Grows(T, U) /\ HistoryInv(U)'
  BY <1>1, <1>4, <1>HistoryVoteWins
<1>5. ASSUME NEW i \in Server, NEW p \in Server, sendHeartbeatToPeer(i, p)
      PROVE  \E U : Grows(T, U) /\ HistoryInv(U)'
  <2>1. HistoryInv(T)'
    BY <1>5, <1>HistorySendHeartbeat, <1>HistorySame
  <2> QED BY <1>2, <2>1
<1>6. ASSUME NEW i \in Server, NEW c \in Cmd, Replicate(i, c)
      PROVE  \E U : Grows(T, U) /\ HistoryInv(U)'
  BY <1>1, <1>6, <1>HistoryReplicate
<1>7. ASSUME NEW c \in Cmd, NEW p \in Server, replicateToPeer(c, p)
      PROVE  \E U : Grows(T, U) /\ HistoryInv(U)'
  <2>1. HistoryInv(T)'
    BY <1>7, <1>HistoryReplicateToPeer, <1>HistorySame
  <2> QED BY <1>2, <2>1
<1>8. ASSUME NEW r \in aeRpcs, AppendSuccess(r)
      PROVE  \E U : Grows(T, U) /\ HistoryInv(U)'
  <2>1. HistoryInv(T)'
    BY <1>1, <1>8, <1>HistoryAppendSuccess
  <2> QED BY <1>2, <2>1
<1> QED BY <1>3, <1>4, <1>5, <1>6, <1>7, <1>8, LogSteps

-----------------------------------------------------------------------------
(* Theorems *)

LogInv ==
    /\ TypeInv
    /\ ElectionInv
    /\ RoleInv
    /\ ~usurped => \E T : HistoryInv(T)

\* NewNode starts with an empty log, and there is no leader.
LEMMA LogInit == WellOrdered /\ Sizes /\ Init => LogInv
<1> SUFFICES ASSUME WellOrdered, Sizes, Init PROVE LogInv
  OBVIOUS
<1>1. TypeInv /\ ElectionInv
  BY TypeInit, ElectionInit, Zenon
<1>2. RoleInv
  BY DEF Init, RoleInv, LeadersElected, ElectedTerms, CampaignsOpen, Follower, Leader
<1>3. PICK T : T = [t \in Nat |-> <<>>]
  BY Zenon
<1>4. T \in [Nat -> Seq(Entry)] /\ \A t \in Nat : T[t] = <<>> /\ Len(T[t]) = 0
  BY <1>3
<1>5. TermLogs(T)
  BY <1>4 DEF TermLogs, Rooted, Contiguous
<1>6. LeaderLogs(T) /\ Requests(T)
  BY <1>4, Zenon DEF Init, LeaderLogs, Requests
<1>7. NodeLogs(T)
  <2>1. \A i \in Server : Len(log[i]) = 0
    BY DEF Init
  <2> QED BY <2>1 DEF NodeLogs, Rooted
<1> QED BY <1>1, <1>2, <1>5, <1>6, <1>7 DEF LogInv, HistoryInv

\* Every step leaves term logs that explain all the others.
LEMMA LogNext == LogInv /\ [Next]_vars => LogInv'
<1> SUFFICES ASSUME LogInv, [Next]_vars PROVE LogInv'
  OBVIOUS
<1>1. TypeInv' /\ ElectionInv' /\ RoleInv'
  BY TypeNext, ElectionNext, RoleNext DEF LogInv
<1>2. ASSUME ~usurped' PROVE \E U : HistoryInv(U)'
  <2>1. ~usurped
    BY <1>2, UsurpedStays
  <2>2. PICK T : HistoryInv(T)
    BY <2>1 DEF LogInv
  <2> QED BY <1>2, <2>2, HistoryStep DEF LogInv
<1> QED BY <1>1, <1>2 DEF LogInv

\* What agrees is the same when cut.
LEMMA AgreeSubSeq ==
    ASSUME NEW S, NEW l \in Seq(S), NEW m \in Seq(S), NEW k \in Nat, Agree(l, m, k)
    PROVE  SubSeq(l, 1, k) = SubSeq(m, 1, k)
<1>1. Len(l) \in Nat /\ Len(m) \in Nat /\ k <= Len(l) /\ k <= Len(m)
  BY LenFacts DEF Agree
<1>2. \A j \in 1..k : l[j] \in S /\ m[j] \in S /\ l[j] = m[j]
  BY <1>1 DEF Agree
<1>3. /\ SubSeq(l, 1, k) \in Seq(S) /\ Len(SubSeq(l, 1, k)) = k
      /\ \A j \in 1..k : SubSeq(l, 1, k)[j] = l[j]
  BY <1>2, SubSeqFacts
<1>4. /\ SubSeq(m, 1, k) \in Seq(S) /\ Len(SubSeq(m, 1, k)) = k
      /\ \A j \in 1..k : SubSeq(m, 1, k)[j] = m[j]
  BY <1>2, SubSeqFacts
<1> QED BY <1>2, <1>3, <1>4, SameSeq

\* Logs that are both rooted in the term logs match.
LEMMA LogMatchingOfHistory == LogInv => LogMatching
<1> SUFFICES ASSUME LogInv, ~usurped, NEW i \in Server, NEW j \in Server,
                    NEW k \in 1..Len(log[i]), k <= Len(log[j]),
                    log[i][k].term = log[j][k].term
             PROVE  SubSeq(log[i], 1, k) = SubSeq(log[j], 1, k)
  BY Zenon DEF LogMatching
<1>1. PICK T : HistoryInv(T)
  BY Zenon DEF LogInv
<1>2. PICK l \in Seq(Entry) : l = log[i]
  BY NodeTypes, Zenon DEF LogInv, TypeInv
<1>3. PICK m \in Seq(Entry) : m = log[j]
  BY NodeTypes, Zenon DEF LogInv, TypeInv
<1>4. Rooted(l, T) /\ Rooted(m, T) /\ T \in [Nat -> Seq(Entry)]
  BY <1>1, <1>2, <1>3 DEF HistoryInv, NodeLogs, TermLogs
<1>5. Agree(l, m, k)
  <2>1. k \in 1..Len(l) /\ k <= Len(m) /\ l[k].term = m[k].term
    BY <1>2, <1>3
  <2> QED BY <1>4, <2>1, SameEntrySameLog, Zenon
<1> QED BY <1>2, <1>3, <1>5, AgreeSubSeq

\* The steps that write a log: Replicate at its end, or HandleAppendEntries.
LEMMA LogWriters ==
    ASSUME TypeInv, [Next]_vars, NEW i \in Server
    PROVE  \/ log'[i] = log[i]
           \/ \E e : log'[i] = Append(log[i], e)
           \/ \E r \in aeRpcs : AppendSuccess(r) /\ r.dst = i
<1>1. log \in [Server -> Seq(Entry)]
  BY DEF TypeInv, TypeOK
<1>2. ASSUME NEW j \in Server, NEW c \in Cmd, Replicate(j, c)
      PROVE  log'[i] = log[i] \/ \E e : log'[i] = Append(log[i], e)
  <2>1. \E e : log' = [log EXCEPT ![j] = Append(@, e)]
    BY <1>2, Zenon DEF Replicate
  <2> QED BY <1>1, <2>1
<1>3. ASSUME NEW r \in aeRpcs, AppendSuccess(r), r.dst # i
      PROVE  log'[i] = log[i]
  <2>1. \E l : log' = [log EXCEPT ![r.dst] = l]
    BY <1>3, Zenon DEF AppendSuccess
  <2> QED BY <1>1, <1>3, <2>1
<1>4. ASSUME NEW j \in Server, NEW p \in Server, sendHeartbeatToPeer(j, p)
      PROVE  log' = log
  BY <1>4, Zenon DEF sendHeartbeatToPeer, logVars
<1>5. ASSUME NEW c \in Cmd, NEW p \in Server, replicateToPeer(c, p)
      PROVE  log' = log
  BY <1>5 DEF replicateToPeer, logVars
<1>6. ASSUME NEW j \in Server, NEW r \in voteRpcs, VoteWins(j, r)
      PROVE  log' = log
  BY <1>6 DEF VoteWins, logVars
<1> QED BY <1>2, <1>3, <1>4, <1>5, <1>6, LogSteps, Zenon

\* An Append loses nothing.
LEMMA AppendKeeps ==
    ASSUME NEW S, NEW l \in Seq(S), NEW m \in Seq(S), NEW e, m = Append(l, e)
    PROVE  Len(m) = Len(l) + 1 /\ \A k \in 1..Len(l) : m[k] = l[k]
<1>1. e \in S
  <2>1. Len(m) = Len(l) + 1 /\ m[Len(l) + 1] = e
    OBVIOUS
  <2> QED BY <2>1
<1> QED BY <1>1, AppendFacts

\* HandleAppendEntries on a node that does not change its term: the request is
\* of that term, and another node has won it.
LEMMA AppendInTerm ==
    ASSUME TypeInv, NEW T, HistoryInv(T), NEW r \in aeRpcs, AppendSuccess(r),
           NEW i \in Server, r.dst = i, currentTerm'[i] = currentTerm[i]
    PROVE  /\ r.term = currentTerm[i] /\ r.src # i /\ r.src \in Server
           /\ <<r.term, r.src>> \in elected
<1>1. currentTerm' = [currentTerm EXCEPT ![i] = r.term]
  BY DEF AppendSuccess, AcceptLeader
<1>2. currentTerm'[i] = r.term
  BY <1>1, Zenon DEF TypeInv, TypeOK
<1>3. r.src # i /\ r.src \in Server
  BY DEF TypeInv, TypeOK, ExchangeOfCall, AERpc
<1> QED BY <1>2, <1>3 DEF HistoryInv, Requests

\* No step takes an entry of its own term from a log.
LEMMA TermEntriesStep ==
    LogInv /\ [Next]_vars =>
    [\A i \in Server : (currentTerm'[i] = currentTerm[i] /\ ~usurped') =>
       \A k \in 1..Len(log[i]) : log[i][k].term = currentTerm[i] =>
          k <= Len(log'[i]) /\ log'[i][k] = log[i][k]]_vars
<1> SUFFICES ASSUME LogInv, [Next]_vars, NEW i \in Server,
                    currentTerm'[i] = currentTerm[i], ~usurped',
                    NEW k \in 1..Len(log[i]), log[i][k].term = currentTerm[i]
             PROVE  k <= Len(log'[i]) /\ log'[i][k] = log[i][k]
  BY Zenon
<1>1. TypeInv /\ RoleInv /\ TypeInv'
  BY TypeNext, Zenon DEF LogInv
<1>2. PICK T : HistoryInv(T)
  BY UsurpedStays DEF LogInv
<1>3. PICK l \in Seq(Entry) : l = log[i]
  BY <1>1, NodeTypes, Zenon DEF TypeInv
<1>4. PICK m \in Seq(Entry) : m = log'[i]
  BY <1>1, Zenon DEF TypeInv, TypeOK
<1>5. CASE m = l
  BY <1>3, <1>4, <1>5, LenFacts, IndexBounds, Zenon
<1>6. ASSUME NEW e, m = Append(l, e) PROVE k <= Len(m) /\ m[k] = l[k]
  BY <1>3, <1>6, AppendKeeps
<1>7. ASSUME NEW r \in aeRpcs, AppendSuccess(r), r.dst = i
      PROVE  k <= Len(m) /\ m[k] = l[k]
  <2>1. r.term = currentTerm[i] /\ r.term \in Nat
    BY <1>1, <1>2, <1>7, AppendInTerm, NodeTypes, Zenon DEF TypeInv
  <2>2. PICK w \in Seq(Entry) : w = T[r.term]
    BY <1>2, <2>1, Zenon DEF HistoryInv, TermLogs
  <2>3. PICK n \in Nat : /\ Agree(m, w, n)
                         /\ m = l \/ ~Agree(l, w, n)
    BY <1>1, <1>2, <1>3, <1>4, <1>7, <2>2, AppendFollowsLeader, Zenon
  <2>4. Agree(l, w, k)
    <3>1. Rooted(l, T) /\ l[k].term = r.term
      BY <1>2, <1>3, <2>1, Zenon DEF HistoryInv, NodeLogs
    <3> QED BY <1>3, <2>2, <3>1 DEF Rooted
  <2>5. CASE k <= n
    BY <1>3, <2>3, <2>4, <2>5 DEF Agree
  <2>6. CASE ~(k <= n)
    <3>1. Agree(l, w, n)
      BY <1>3, <2>4, <2>6 DEF Agree
    <3> QED BY <1>3, <2>3, <3>1
  <2> QED BY <2>5, <2>6
<1> QED BY <1>1, <1>3, <1>4, <1>5, <1>6, <1>7, LogWriters, Zenon

\* No step changes what a leader has in its log.
LEMMA LeaderAppendStep ==
    LogInv /\ [Next]_vars =>
    [~usurped' => \A i \in Server :
       (state[i] = Leader /\ state'[i] = Leader
          /\ currentTerm'[i] = currentTerm[i])
       => /\ Len(log[i]) <= Len(log'[i])
          /\ SubSeq(log'[i], 1, Len(log[i])) = log[i]]_vars
<1> SUFFICES ASSUME LogInv, [Next]_vars, NEW i \in Server, ~usurped',
                    state[i] = Leader, currentTerm'[i] = currentTerm[i]
             PROVE  /\ Len(log[i]) <= Len(log'[i])
                    /\ SubSeq(log'[i], 1, Len(log[i])) = log[i]
  OBVIOUS
<1>1. TypeInv /\ RoleInv /\ TypeInv' /\ ElectionSafety
  BY TypeNext, QuorumsMakeElectionsSafe DEF LogInv
<1>2. PICK T : HistoryInv(T)
  BY UsurpedStays DEF LogInv
<1>3. PICK l \in Seq(Entry) : l = log[i]
  BY <1>1, NodeTypes, Zenon DEF TypeInv
<1>4. PICK m \in Seq(Entry) : m = log'[i]
  BY <1>1 DEF TypeInv, TypeOK
<1>5. ASSUME NEW r \in aeRpcs, AppendSuccess(r), r.dst = i PROVE FALSE
  <2>1. /\ r.term = currentTerm[i] /\ r.src # i /\ r.src \in Server
        /\ <<r.term, r.src>> \in elected
    BY <1>1, <1>2, <1>5, AppendInTerm, Zenon
  <2>2. <<currentTerm[i], i>> \in elected
    BY <1>1, Zenon DEF RoleInv, LeadersElected
  <2>3. <<r.term, r.src>>[2] = <<currentTerm[i], i>>[2]
    BY <1>1, <2>1, <2>2 DEF ElectionSafety
  <2> QED BY <2>1, <2>3
<1>6. m = l \/ \E e : m = Append(l, e)
  BY <1>1, <1>3, <1>4, <1>5, LogWriters, Zenon
<1>7. Len(l) <= Len(m) /\ \A k \in 1..Len(l) : m[k] = l[k]
  <2>1. CASE m = l
    BY <2>1
  <2>2. ASSUME NEW e, m = Append(l, e)
        PROVE  Len(l) <= Len(m) /\ \A k \in 1..Len(l) : m[k] = l[k]
    BY <2>2, AppendKeeps
  <2> QED BY <1>6, <2>1, <2>2
<1>8. SubSeq(m, 1, Len(l)) = SubSeq(l, 1, Len(l))
  <2>1. Agree(m, l, Len(l)) /\ Len(l) \in Nat
    BY <1>7 DEF Agree
  <2> QED BY <2>1, AgreeSubSeq
<1>9. SubSeq(l, 1, Len(l)) = l
  OBVIOUS
<1> QED BY <1>3, <1>4, <1>7, <1>8, <1>9
=============================================================================
