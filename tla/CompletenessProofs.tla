------------------------ MODULE CompletenessProofs -------------------------
(***************************************************************************)
(* What Replicate has acknowledged is in the log of every later leader and *)
(* in the logs of a majority, for any finite set of nodes.                 *)
(*                                                                         *)
(* T is the history of LogProofs: T[t] is the log of the leader of term t. *)
(* A is a history too: <<p, t, k>> is in A when node p, in term t, had the *)
(* first k entries of T[t], because it led the term and appended the k-th  *)
(* or because it answered success to an AppendEntries that ended there.    *)
(* HandleAppendEntries may cut such entries from p's log again, but only   *)
(* at the word of a later leader that does not have them.  So take the     *)
(* first leader after t that lacks an entry a majority has answered for:   *)
(* one of its voters had the entry and, no leader before this one lacking  *)
(* it, has it still; the comparison in HandleRequestVote then gives the    *)
(* candidate a log that cannot lack it.                                    *)
(***************************************************************************)
EXTENDS LogProofs

Elected(t) == \E i \in Server : <<t, i>> \in elected

\* A leader after term t, and not after n, lacks one of the first k entries of
\* term t's log.
Lost(T, t, k, n) ==
    \E u \in Nat : t < u /\ u <= n /\ Elected(u) /\ ~Agree(T[u], T[t], k)

-----------------------------------------------------------------------------
(* Invariants *)

\* What a node held it still has, unless a leader it has heard of lacked it.
HeldLogs(T, A) ==
    \A p \in Server, t \in Nat, k \in Nat : <<p, t, k>> \in A =>
        /\ t <= currentTerm[p] /\ 1 <= k /\ k <= Len(T[t])
        /\ Agree(log[p], T[t], k) \/ Lost(T, t, k, currentTerm[p])

\* May a log that ends with the k-th entry of term t's log, an entry of term t,
\* be voted for?
Recent(r, t, k) == r.lastTerm > t \/ (r.lastTerm = t /\ r.lastIndex >= k)

VoterOf(p, r) == p = r.src \/ (p = r.dst /\ r.granted)

\* Whoever has voted held nothing that the candidate's log is behind.
VotersHeld(T, A) ==
    \A r \in voteRpcs, p \in Server, t \in Nat, k \in Nat :
        (VoterOf(p, r) /\ <<p, t, k>> \in A /\ t < r.term /\ T[t][k].term = t)
          => Lost(T, t, k, r.term) \/ Recent(r, t, k)

\* Node p is in term u or later, and what it held before u the leader of u has.
Covered(p, u, T, A) ==
    /\ u <= currentTerm[p]
    /\ \A t \in Nat, k \in Nat :
          (<<p, t, k>> \in A /\ t < u /\ T[t][k].term = t)
            => Lost(T, t, k, u - 1) \/ Agree(T[u], T[t], k)

LeadersHeld(T, A) ==
    \A u \in Nat : Elected(u) =>
        \E Q : IsQuorum(Q) /\ \A p \in Q : Covered(p, u, T, A)

AnswersHeld(A) ==
    \A r \in aeRpcs : (r.done /\ r.success) =>
        \A k \in 1..(r.prevIndex + Len(r.entries)) : <<r.dst, r.term, k>> \in A

\* A replicateToPeer request reaches to the entry of its call.
RequestsReach ==
    \A r \in aeRpcs : r.caller = "replicate" =>
        /\ r.term = call[r.cmd].term
        /\ call[r.cmd].index <= r.prevIndex + Len(r.entries)

\* The entry of a Replicate call, and who had it.
CallHeld(c, T, A) ==
    LET t == call[c].term
        k == call[c].index
    IN  /\ <<t, call[c].node>> \in elected
        /\ 1 <= k /\ k <= Len(T[t]) /\ T[t][k].term = t /\ T[t][k].cmd = c
        /\ <<call[c].node, t, k>> \in A
        /\ call[c].node \notin call[c].acks
        /\ \A p \in call[c].acks : <<p, t, k>> \in A
        /\ call[c].st = "ok" => Cardinality(call[c].acks) + 1 >= Majority

CallsHeld(T, A) == \A c \in Cmd : call[c].st # "none" => CallHeld(c, T, A)

HeldInv(T, A) ==
    /\ HeldLogs(T, A)
    /\ VotersHeld(T, A)
    /\ LeadersHeld(T, A)
    /\ AnswersHeld(A)
    /\ RequestsReach
    /\ CallsHeld(T, A)

\* The requests of a campaign that can still be won describe the candidate's log.
CandidateLogs ==
    \A i \in Server : (pc[i] = "candidate" /\ StillCandidate(i)) =>
        \A r \in voteRpcs : (r.src = i /\ r.term = campaign[i]) =>
            r.lastIndex = LastIndex(log[i]) /\ r.lastTerm = LastTerm(log[i])

-----------------------------------------------------------------------------
(* Logs *)

-----------------------------------------------------------------------------
(* The histories through a step *)

\* Nobody is ever un-elected.
LEMMA ElectedStays ==
    ASSUME TypeInv, [Next]_vars
    PROVE  elected \subseteq elected'
<1>1. TypeOK
  BY DEF TypeInv
<1> QED BY <1>1, VoteSteps, Zenon
        DEF NoVoteStep, StartCampaign, VoteCounted, VoteWins,
                              HandleRequestVote, history

\* An entry of a term's log stays where it is.
LEMMA EntryStays ==
    ASSUME NEW T, TermLogs(T), NEW U, Grows(T, U),
           NEW t \in Nat, NEW k \in Nat, 1 <= k, k <= Len(T[t])
    PROVE  k <= Len(U[t]) /\ U[t][k] = T[t][k]
<1>1. PICK l \in Seq(Entry) : l = T[t]
  BY DEF TermLogs
<1>2. k \in 1..Len(l)
  BY <1>1
<1>3. U[t][k] = l[k] /\ Len(l) <= Len(U[t])
  BY <1>1, <1>2 DEF Grows, Extends
<1> QED BY <1>1, <1>2, <1>3

\* What agrees with a term's log goes on to.
LEMMA AgreeGrows ==
    ASSUME NEW T, TermLogs(T), NEW U, TermLogs(U), Grows(T, U),
           NEW t \in Nat, NEW k \in Nat
    PROVE  /\ \A l \in Seq(Entry) : Agree(l, T[t], k) => Agree(l, U[t], k)
           /\ \A u \in Nat : Agree(T[u], T[t], k) => Agree(U[u], U[t], k)
<1>1. ASSUME NEW u \in Nat, NEW l \in Seq(Entry), Agree(l, T[u], k)
      PROVE  Agree(l, U[u], k)
  <2>1. PICK m \in Seq(Entry) : m = T[u]
    BY DEF TermLogs
  <2>2. PICK w \in Seq(Entry) : w = U[u]
    BY DEF TermLogs
  <2>3. Len(m) <= Len(w) /\ \A j \in 1..Len(m) : w[j] = m[j]
    BY <2>1, <2>2 DEF Grows, Extends
  <2>4. Agree(l, m, k)
    BY <1>1, <2>1
  <2>5. Agree(l, w, k)
    BY <2>3, <2>4, AgreeExtends
  <2> QED BY <2>2, <2>5
<1>2. ASSUME NEW u \in Nat, Agree(T[u], T[t], k)
      PROVE  Agree(U[u], U[t], k)
  <2>1. PICK l \in Seq(Entry) : l = T[u]
    BY DEF TermLogs
  <2>2. PICK m \in Seq(Entry) : m = U[t]
    BY DEF TermLogs
  <2>3. PICK x \in Seq(Entry) : x = U[u]
    BY DEF TermLogs
  <2>4. Agree(l, m, k)
    BY <1>1, <1>2, <2>1, <2>2
  <2>5. Agree(m, l, k)
    BY <2>4, AgreeRules
  <2>6. Agree(m, x, k)
    BY <1>1, <2>1, <2>3, <2>5
  <2>7. Agree(x, m, k)
    BY <2>6, AgreeRules
  <2> QED BY <2>2, <2>3, <2>7
<1> QED BY <1>1, <1>2

\* Lost once, lost for ever.
LEMMA LostStays ==
    \A T, U : \A t, k, n, m \in Nat :
        /\ TypeInv /\ [Next]_vars /\ TermLogs(T) /\ TermLogs(U)
        /\ Grows(T, U) /\ k <= Len(T[t]) /\ n <= m /\ Lost(T, t, k, n)
        => Lost(U, t, k, m)'
\* A leader that lacks an entry never gets it: what it appends is of its term.
<1>LackStays.
    ASSUME NEW T, TermLogs(T), NEW U, TermLogs(U), Grows(T, U),
           NEW t \in Nat, NEW k \in Nat, k <= Len(T[t]),
           NEW u \in Nat, t < u, Elected(u), ~Agree(T[u], T[t], k)
    PROVE  ~Agree(U[u], U[t], k)
  <2> USE <1>LackStays
  <2>1. PICK l \in Seq(Entry) : l = T[u]
    BY DEF TermLogs
  <2>2. PICK m \in Seq(Entry) : m = T[t]
    BY DEF TermLogs
  <2>3. PICK x \in Seq(Entry) : x = U[u]
    BY DEF TermLogs
  <2>4. PICK y \in Seq(Entry) : y = U[t]
    BY DEF TermLogs
  <2>5. /\ Len(l) <= Len(x) /\ \A j \in 1..Len(l) : x[j] = l[j]
        /\ Len(m) <= Len(y) /\ \A j \in 1..Len(m) : y[j] = m[j]
    BY <2>1, <2>2, <2>3, <2>4 DEF Grows, Extends
  <2>6. \A j \in 1..Len(x) : j <= Len(l) \/ x[j].term = u
    BY <2>1, <2>3, Zenon DEF Grows, Elected
  <2>7. SUFFICES ASSUME Agree(x, y, k) PROVE FALSE
    BY <2>3, <2>4
  <2>8. k <= Len(m) /\ ~Agree(l, m, k)
    BY <2>1, <2>2
  <2>9. CASE k <= Len(l)
    <3>1. ASSUME NEW j \in 1..k PROVE l[j] = m[j]
      <4>1. j \in 1..Len(l) /\ j \in 1..Len(m)
        BY <2>8, <2>9
      <4>2. x[j] = y[j]
        BY <2>7 DEF Agree
      <4> QED BY <2>5, <4>1, <4>2
    <3> QED BY <2>8, <2>9, <3>1 DEF Agree
  <2>10. CASE ~(k <= Len(l))
    <3>1. k \in 1..Len(x) /\ k \in 1..Len(m) /\ x[k] = y[k]
      BY <2>7, <2>8, <2>10 DEF Agree
    <3>2. x[k].term = u
      BY <2>6, <2>10, <3>1
    <3>3. y[k] = m[k]
      BY <2>5, <3>1
    <3>4. m[k].term <= t
      BY <2>2, <3>1, Zenon DEF TermLogs
    <3> QED BY <3>1, <3>2, <3>3, <3>4
  <2> QED BY <2>9, <2>10
<1> SUFFICES ASSUME TypeInv, [Next]_vars, NEW T, TermLogs(T), NEW U, TermLogs(U),
                    Grows(T, U), NEW t \in Nat, NEW k \in Nat, k <= Len(T[t]),
                    NEW n \in Nat, NEW m \in Nat, n <= m, Lost(T, t, k, n)
             PROVE  Lost(U, t, k, m)'
  OBVIOUS
<1>1. PICK u \in Nat : t < u /\ u <= n /\ Elected(u) /\ ~Agree(T[u], T[t], k)
  BY DEF Lost
<1>2. ~Agree(U[u], U[t], k)
  BY <1>1, <1>LackStays
<1>3. Elected(u)'
  BY <1>1, ElectedStays DEF Elected
<1>4. u <= m
  BY <1>1, LeqTransitive
<1> QED BY <1>1, <1>2, <1>3, <1>4 DEF Lost

\* What nodes come to hold in a step they hold in the term they are in.
Acquires(A, B, U) ==
    /\ A \subseteq B
    /\ \A p \in Server, t \in Nat, k \in Nat : <<p, t, k>> \in B =>
          \/ <<p, t, k>> \in A
          \/ t = currentTerm'[p] /\ 1 <= k /\ Agree(log'[p], U[t], k)

\* HeldLogs is kept by every step.
LEMMA HeldLogsStep ==
    \A T, U, A, B :
        /\ TypeInv /\ TypeInv' /\ RoleInv /\ [Next]_vars /\ HistoryInv(T)
        /\ HistoryInv(U)' /\ Grows(T, U) /\ HeldLogs(T, A)
        /\ Acquires(A, B, U)
        => HeldLogs(U, B)'
\* What a node holds it keeps, unless HandleAppendEntries cuts it for a leader
\* that lacks it.
<1>KeptOrLost.
    ASSUME TypeInv, TypeInv', RoleInv, [Next]_vars, NEW T, HistoryInv(T),
           NEW p \in Server, NEW t \in Nat, NEW k \in Nat,
           t <= currentTerm[p], Agree(log[p], T[t], k)
    PROVE  Agree(log'[p], T[t], k) \/ Lost(T, t, k, currentTerm'[p])
  <2> USE <1>KeptOrLost
  <2>1. PICK l \in Seq(Entry) : l = log[p]
    BY NodeTypes DEF TypeInv
  <2>2. PICK m \in Seq(Entry) : m = log'[p]
    BY DEF TypeInv, TypeOK
  <2>3. PICK w \in Seq(Entry) : w = T[t]
    BY DEF HistoryInv, TermLogs
  <2>4. Agree(l, w, k)
    BY <2>1, <2>3
  <2>5. CASE m = l
    BY <2>2, <2>3, <2>4, <2>5
  <2>6. ASSUME NEW e, m = Append(l, e) PROVE Agree(log'[p], T[t], k)
    <3>1. Len(m) = Len(l) + 1 /\ \A j \in 1..Len(l) : m[j] = l[j]
      BY <2>6, AppendKeeps
    <3>2. Agree(m, w, k)
      BY <2>4, <3>1 DEF Agree
    <3> QED BY <2>2, <2>3, <3>2
  <2>7. ASSUME NEW r \in aeRpcs, AppendSuccess(r), r.dst = p
        PROVE  Agree(log'[p], T[t], k) \/ Lost(T, t, k, currentTerm'[p])
    <3>1. r.term \in Nat /\ r.src \in Server
      BY Zenon DEF TypeInv, TypeOK, AERpc
    <3>2. PICK x \in Seq(Entry) : x = T[r.term]
      BY <3>1, Zenon DEF HistoryInv, TermLogs
    <3>3. PICK n \in Nat : Agree(m, x, n) /\ (m = l \/ ~Agree(l, x, n))
      BY <2>1, <2>2, <2>7, <3>2, AppendFollowsLeader
    <3>4. CASE Agree(x, w, k)
      <4>1. CASE k <= n
        <5>1. Agree(m, x, k)
          BY <3>3, <4>1, AgreeRules
        <5>2. Agree(m, w, k)
          BY <3>4, <5>1, AgreeRules
        <5> QED BY <2>2, <2>3, <5>2
      <4>2. CASE ~(k <= n)
        <5>1. Agree(w, x, k)
          BY <3>4, AgreeRules
        <5>2. Agree(l, x, k)
          BY <2>4, <5>1, AgreeRules
        <5>3. Agree(l, x, n)
          BY <4>2, <5>2, AgreeRules
        <5> QED BY <2>5, <3>3, <5>3
      <4> QED BY <4>1, <4>2
    <3>5. CASE ~Agree(x, w, k)
      <4>1. currentTerm' = [currentTerm EXCEPT ![p] = r.term] /\ r.term >= currentTerm[p]
        BY <2>7 DEF AppendSuccess, AcceptLeader
      <4>2. currentTerm'[p] = r.term /\ currentTerm[p] \in Nat
        BY <4>1 DEF TypeInv, TypeOK
      <4>3. r.term # t
        <5>1. SUFFICES ASSUME r.term = t PROVE FALSE
          OBVIOUS
        <5>2. k <= Len(w) /\ x = w
          BY <2>3, <2>4, <3>2, <5>1 DEF Agree
        <5> QED BY <3>5, <5>2 DEF Agree
      <4>4. Elected(r.term)
        BY <3>1 DEF Elected, HistoryInv, Requests
      <4>5. t < r.term /\ r.term <= r.term
        BY <3>1, <4>1, <4>2, <4>3
      <4>6. ~Agree(T[r.term], T[t], k)
        BY <2>3, <3>2, <3>5
      <4> QED BY <3>1, <4>2, <4>4, <4>5, <4>6 DEF Lost
    <3> QED BY <3>4, <3>5
  <2> QED BY <2>1, <2>2, <2>5, <2>6, <2>7, LogWriters, Zenon
<1> SUFFICES ASSUME TypeInv, TypeInv', RoleInv, [Next]_vars,
                    NEW T, HistoryInv(T), NEW U, HistoryInv(U)', Grows(T, U),
                    NEW A, HeldLogs(T, A), NEW B, Acquires(A, B, U)
             PROVE  HeldLogs(U, B)'
  OBVIOUS
<1> SUFFICES ASSUME NEW p \in Server, NEW t \in Nat, NEW k \in Nat,
                    <<p, t, k>> \in B
             PROVE  /\ t <= currentTerm'[p] /\ 1 <= k /\ k <= Len(U[t])
                    /\ Agree(log'[p], U[t], k) \/ Lost(U, t, k, currentTerm[p])'
  BY DEF HeldLogs, Lost
<1>1. TermLogs(T) /\ TermLogs(U)
  BY Zenon DEF HistoryInv, TermLogs
<1>2. currentTerm[p] \in Nat /\ currentTerm'[p] \in Nat /\ log'[p] \in Seq(Entry)
  BY Zenon DEF TypeInv, TypeOK
<1>3. CASE t = currentTerm'[p] /\ 1 <= k /\ Agree(log'[p], U[t], k)
  <2>1. k <= Len(U[t])
    BY <1>3 DEF Agree
  <2> QED BY <1>3, <2>1
<1>4. CASE <<p, t, k>> \in A
  <2>1. /\ t <= currentTerm[p] /\ 1 <= k /\ k <= Len(T[t])
        /\ Agree(log[p], T[t], k) \/ Lost(T, t, k, currentTerm[p])
    BY <1>4 DEF HeldLogs
  <2>2. currentTerm[p] <= currentTerm'[p]
    BY <1>2, StableStep
  <2>3. t <= currentTerm'[p]
    BY <1>2, <2>1, <2>2, LeqTransitive
  <2>4. k <= Len(U[t])
    BY <1>1, <2>1, EntryStays
  <2>5. CASE Lost(T, t, k, currentTerm[p])
    <3>1. PICK m \in Nat : m = currentTerm'[p]
      BY <1>2
    <3>2. Lost(U, t, k, m)'
      BY <1>1, <1>2, <2>1, <2>2, <2>5, <3>1, LostStays, Zenon
    <3>3. Lost(U, t, k, currentTerm[p])'
      BY <3>1, <3>2, Zenon DEF Lost
    <3> QED BY <2>1, <2>3, <2>4, <3>3
  <2>6. CASE Agree(log[p], T[t], k)
    <3>1. CASE Agree(log'[p], T[t], k)
      <4>1. Agree(log'[p], U[t], k)
        BY <1>1, <1>2, <3>1, AgreeGrows
      <4> QED BY <2>1, <2>3, <2>4, <4>1
    <3>2. CASE Lost(T, t, k, currentTerm'[p])
      <4>1. PICK m \in Nat : m = currentTerm'[p]
        BY <1>2
      <4>2. m <= m /\ Lost(T, t, k, m)
        BY <3>2, <4>1
      <4>3. Lost(U, t, k, m)'
        BY <1>1, <2>1, <4>2, LostStays, Zenon
      <4>4. Lost(U, t, k, currentTerm[p])'
        BY <4>1, <4>3 DEF Lost
      <4> QED BY <2>1, <2>3, <2>4, <4>4
    <3> QED BY <2>1, <2>6, <3>1, <3>2, <1>KeptOrLost
  <2> QED BY <2>1, <2>5, <2>6
<1> QED BY <1>3, <1>4 DEF Acquires

VotersInTerm ==
    \A r \in voteRpcs, p \in Server : VoterOf(p, r) => r.term <= currentTerm[p]

\* A voter in a RequestVote exchange has voted, and is in its term or later.
LEMMA VotersAreInTerm == TypeInv /\ ElectionInv => VotersInTerm
<1> SUFFICES ASSUME TypeInv, ElectionInv,
                    NEW r \in voteRpcs, NEW p \in Server, VoterOf(p, r)
             PROVE  r.term <= currentTerm[p]
  BY DEF VotersInTerm
<1>1. r.src \in Server /\ r.term \in Nat
  BY Zenon DEF TypeInv, TypeOK, VoteRpc
<1>2. Voted(p, r.src, r.term)
  BY DEF Voted, VoterOf
<1> QED BY <1>1, <1>2 DEF ElectionInv, VotesRemembered

\* The RequestVote exchanges after a step: old ones, new ones that describe the
\* candidate's log, and the one that was answered.
LEMMA VoteExchanges ==
    ASSUME TypeInv, [Next]_vars, NEW q \in voteRpcs'
    PROVE  \/ q \in voteRpcs
           \/ \E i \in Server :
                 /\ StartCampaign(i)
                 /\ q.src = i /\ q.term = currentTerm[i] + 1 /\ ~q.granted
                 /\ q.lastIndex = LastIndex(log[i]) /\ q.lastTerm = LastTerm(log[i])
           \/ \E r \in voteRpcs :
                 /\ HandleRequestVote(r)
                 /\ q.src = r.src /\ q.dst = r.dst /\ q.term = r.term
                 /\ q.lastIndex = r.lastIndex /\ q.lastTerm = r.lastTerm
                 /\ q.granted => GrantsVote(r)
<1>1. TypeOK
  BY DEF TypeInv
<1>2. ASSUME NEW i \in Server, StartCampaign(i), q \notin voteRpcs
      PROVE  /\ q.src = i /\ q.term = currentTerm[i] + 1 /\ ~q.granted
             /\ q.lastIndex = LastIndex(log[i]) /\ q.lastTerm = LastTerm(log[i])
  <2>1. PICK p \in Peers(i) : q = VoteRequest(i, p)
    BY <1>2 DEF StartCampaign, VoteRequest
  <2> QED BY <2>1 DEF VoteRequest
<1>3. ASSUME NEW r \in voteRpcs, HandleRequestVote(r), q \notin voteRpcs
      PROVE  /\ q.src = r.src /\ q.dst = r.dst /\ q.term = r.term
             /\ q.lastIndex = r.lastIndex /\ q.lastTerm = r.lastTerm
             /\ q.granted => GrantsVote(r)
  <2>1. q = [r EXCEPT !.done = TRUE, !.replyTerm = TermAfter(r.dst, r.term),
                      !.granted = GrantsVote(r)]
    BY <1>3 DEF HandleRequestVote
  <2>2. r \in VoteRpc
    BY <1>1 DEF TypeOK
  <2> QED BY <2>1, <2>2 DEF VoteRpc
<1>4. \/ voteRpcs' = voteRpcs
      \/ \E i \in Server : StartCampaign(i)
      \/ \E r \in voteRpcs : HandleRequestVote(r)
  BY <1>1, VoteSteps DEF NoVoteStep, VoteCounted, VoteWins
<1> QED BY <1>2, <1>3, <1>4

\* VotersHeld is kept: StartCampaign and HandleRequestVote make new voters,
\* and the comparison of logs in HandleRequestVote is what it takes.
LEMMA VotersHeldStep ==
    \A T, U, A, B :
        /\ TypeInv /\ TypeInv' /\ ElectionInv /\ ElectionInv' /\ [Next]_vars
        /\ HistoryInv(T) /\ HistoryInv(U)' /\ Grows(T, U) /\ HeldLogs(T, A)
        /\ VotersHeld(T, A) /\ Acquires(A, B, U)
        => VotersHeld(U, B)'
\* A log that has the k-th entry of term t's log, an entry of term t, ends in a
\* later term, or in term t and no sooner.
<1>HolderEnds.
    ASSUME NEW T, TermLogs(T), NEW l \in Seq(Entry), Rooted(l, T),
           NEW t \in Nat, NEW k \in Nat, 1 <= k,
           Agree(l, T[t], k), T[t][k].term = t
    PROVE  /\ LastTerm(l) \in Nat /\ Len(l) \in Nat /\ k <= Len(l)
           /\ t <= LastTerm(l)
  <2> USE <1>HolderEnds
  <2>1. PICK n \in Nat : n = Len(l)
    BY LenFacts
  <2>2. k <= n /\ l[k] = T[t][k]
    BY <2>1 DEF Agree
  <2>3. l # <<>> /\ n \in 1..Len(l) /\ k \in 1..n
    BY <2>1, <2>2
  <2>4. LastTerm(l) = l[n].term /\ l[n].term \in Nat
    BY <2>1, <2>3, LogTypes DEF LastTerm
  <2>5. \A u \in Nat : \A j \in 1..Len(T[u]) : T[u][j].term <= u
    BY Zenon DEF TermLogs
  <2>6. l[k].term <= l[n].term
    BY <2>3, <2>5, TermsRise, Zenon DEF TermLogs
  <2> QED BY <2>1, <2>2, <2>4, <2>6
\* A node's log as a candidate's request describes it is recent enough for
\* anything the node holds.
<1>HolderRecent.
    ASSUME TypeInv, NEW T, HistoryInv(T), NEW A, HeldLogs(T, A),
           NEW p \in Server, NEW t \in Nat, NEW k \in Nat, <<p, t, k>> \in A,
           T[t][k].term = t
    PROVE  \/ Lost(T, t, k, currentTerm[p])
           \/ t < LastTerm(log[p])
           \/ t = LastTerm(log[p]) /\ k <= LastIndex(log[p])
  <2> USE <1>HolderRecent
  <2>1. /\ 1 <= k
        /\ Agree(log[p], T[t], k) \/ Lost(T, t, k, currentTerm[p])
    BY DEF HeldLogs
  <2>2. CASE Agree(log[p], T[t], k)
    <3>1. PICK l \in Seq(Entry) : l = log[p]
      BY NodeTypes DEF TypeInv
    <3>2. Rooted(l, T) /\ TermLogs(T) /\ Agree(l, T[t], k)
      BY <2>2, <3>1 DEF HistoryInv, NodeLogs
    <3>3. LastTerm(l) \in Nat /\ k <= Len(l) /\ t <= LastTerm(l)
      BY <2>1, <3>2, <1>HolderEnds
    <3>4. t < LastTerm(l) \/ t = LastTerm(l)
      BY <3>3
    <3> QED BY <3>1, <3>3, <3>4 DEF LastIndex
  <2> QED BY <2>1, <2>2
<1> SUFFICES ASSUME TypeInv, TypeInv', ElectionInv, ElectionInv', [Next]_vars,
                    NEW T, HistoryInv(T), NEW U, HistoryInv(U)', Grows(T, U),
                    NEW A, HeldLogs(T, A), VotersHeld(T, A), NEW B, Acquires(A, B, U)
             PROVE  VotersHeld(U, B)'
  BY Zenon
<1> SUFFICES ASSUME NEW q \in voteRpcs', NEW p \in Server, NEW t \in Nat,
                    NEW k \in Nat, VoterOf(p, q), <<p, t, k>> \in B,
                    t < q.term, U[t][k].term = t
             PROVE  Lost(U, t, k, q.term)' \/ Recent(q, t, k)
  BY DEF VotersHeld, VoterOf, Recent, Lost
<1>1. TermLogs(T) /\ TermLogs(U)
  BY Zenon DEF HistoryInv, TermLogs
<1>2. q.term \in Nat /\ currentTerm[p] \in Nat /\ currentTerm'[p] \in Nat
  BY Zenon DEF TypeInv, TypeOK, VoteRpc
<1>3. <<p, t, k>> \in A
  <2>1. VotersInTerm'
    BY VotersAreInTerm, PTL
  <2>2. q.term <= currentTerm'[p]
    BY <2>1 DEF VotersInTerm, VoterOf
  <2>3. t # currentTerm'[p]
    BY <1>2, <2>2
  <2> QED BY <2>3, Zenon DEF Acquires
<1>4. 1 <= k /\ k <= Len(T[t])
  BY <1>3, Zenon DEF HeldLogs
<1>5. T[t][k].term = t
  BY <1>1, <1>4, EntryStays
<1>6. ASSUME NEW n \in Nat, n <= q.term, Lost(T, t, k, n)
      PROVE  Lost(U, t, k, q.term)'
  BY <1>1, <1>2, <1>4, <1>6, LostStays, Zenon
<1>7. ASSUME NEW r \in voteRpcs, VoterOf(p, r), q.term = r.term,
             q.lastIndex = r.lastIndex, q.lastTerm = r.lastTerm
      PROVE  Lost(U, t, k, q.term)' \/ Recent(q, t, k)
  <2>1. Lost(T, t, k, r.term) \/ Recent(r, t, k)
    BY <1>3, <1>5, <1>7, Zenon DEF VotersHeld
  <2>2. Recent(r, t, k) => Recent(q, t, k)
    BY <1>7 DEF Recent
  <2>3. q.term <= q.term
    BY <1>2
  <2> QED BY <1>2, <1>6, <1>7, <2>1, <2>2, <2>3, Zenon
<1>8. ASSUME NEW i \in Server, q.src = i, q.term = currentTerm[i] + 1, ~q.granted,
             q.lastIndex = LastIndex(log[i]), q.lastTerm = LastTerm(log[i])
      PROVE  Lost(U, t, k, q.term)' \/ Recent(q, t, k)
  <2>1. p = i
    BY <1>8, Zenon DEF VoterOf
  <2>2. currentTerm[p] <= q.term
    BY <1>2, <1>8, <2>1
  <2>3. \/ Lost(T, t, k, currentTerm[p])
        \/ t < LastTerm(log[p])
        \/ t = LastTerm(log[p]) /\ k <= LastIndex(log[p])
    BY <1>3, <1>5, <1>HolderRecent, Zenon
  <2>4. CASE Lost(T, t, k, currentTerm[p])
    BY <1>2, <1>6, <2>2, <2>4, Zenon
  <2>5. CASE ~Lost(T, t, k, currentTerm[p])
    BY <1>8, <2>1, <2>3, <2>5 DEF Recent
  <2> QED BY <2>4, <2>5, Zenon
<1>9. ASSUME NEW r \in voteRpcs, p = r.dst, q.term = r.term, GrantsVote(r),
             q.lastIndex = r.lastIndex, q.lastTerm = r.lastTerm
      PROVE  Lost(U, t, k, q.term)' \/ Recent(q, t, k)
  <2>1. /\ currentTerm[p] <= q.term
        /\ \/ q.lastTerm > LastTerm(log[p])
           \/ q.lastTerm = LastTerm(log[p]) /\ q.lastIndex >= LastIndex(log[p])
    BY <1>2, <1>9, Zenon DEF GrantsVote, LogOK
  <2>2. \/ Lost(T, t, k, currentTerm[p])
        \/ t < LastTerm(log[p])
        \/ t = LastTerm(log[p]) /\ k <= LastIndex(log[p])
    BY <1>3, <1>5, <1>HolderRecent, Zenon
  <2>3. CASE Lost(T, t, k, currentTerm[p])
    BY <1>2, <1>6, <2>1, <2>3, Zenon
  <2>4. CASE ~Lost(T, t, k, currentTerm[p])
    <3>1. PICK lt \in Nat, li \in Nat : lt = LastTerm(log[p]) /\ li = LastIndex(log[p])
      BY NodeTypes, Zenon DEF TypeInv
    <3>2. q.lastTerm \in Nat /\ q.lastIndex \in Nat
      BY Zenon DEF TypeInv, TypeOK, VoteRpc
    <3>3. t < lt \/ (t = lt /\ k <= li)
      BY <2>2, <2>4, <3>1, Zenon
    <3>4. q.lastTerm > lt \/ (q.lastTerm = lt /\ q.lastIndex >= li)
      BY <2>1, <3>1, Zenon
    <3>5. q.lastTerm > t \/ (q.lastTerm = t /\ q.lastIndex >= k)
      BY <3>2, <3>3, <3>4
    <3> QED BY <3>5 DEF Recent
  <2> QED BY <2>3, <2>4, Zenon
<1>10. CASE q \in voteRpcs
  BY <1>7, <1>10, Zenon
<1>11. ASSUME NEW r \in voteRpcs,
              q.src = r.src, q.dst = r.dst, q.term = r.term,
              q.lastIndex = r.lastIndex, q.lastTerm = r.lastTerm,
              q.granted => GrantsVote(r)
       PROVE  Lost(U, t, k, q.term)' \/ Recent(q, t, k)
  <2>1. CASE p = q.src
    BY <1>7, <1>11, <2>1, Zenon DEF VoterOf
  <2>2. CASE p = q.dst /\ q.granted
    BY <1>9, <1>11, <2>2, Zenon
  <2> QED BY <2>1, <2>2, Zenon DEF VoterOf
<1> QED BY <1>8, <1>10, <1>11, VoteExchanges, Zenon
=============================================================================
