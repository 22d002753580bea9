---------------------------- MODULE StoreProofs ----------------------------
(***************************************************************************)
(* kv.Store on its files keeps the promise of DurableMap, for any number   *)
(* of keys, writes, errors and crashes and any snapshotInterval.           *)
(***************************************************************************)
EXTENDS Store, SequenceTheorems, WellFoundedInduction, TLAPS

Told == [key : Key, value : Value \union {Absent}, ok : BOOLEAN]

Line == Entry \union {Fragment, Garbled}

InWrite == pc \in {"sync", "apply", "save", "rename"}

\* The first n lines of the log file load.
Loads(n) == \A p \in 1..n : wal[p] \in Entry /\ wal[p].value \notin LongValue

StoreType ==
    /\ data \in State /\ snap \in State
    /\ told \in Seq(Told) /\ wal \in Seq(Line)
    /\ synced \in 0..Len(wal)
    /\ pc \in {"idle", "sync", "apply", "save", "rename", "down", "failed"}

\* A line that was cut short is the last one, and not synced.
FragmentsAtEnd ==
    /\ \A p \in 1..Len(wal) : p < Len(wal) \/ p <= synced => wal[p] # Fragment
    /\ InWrite => Len(told) > 0 /\ Len(wal) > 0 /\ wal[Len(wal)] # Fragment
    /\ pc \in {"apply", "save", "rename"} => synced = Len(wal)

\* src[p] is the write that line p comes from.
IsSource(src) ==
    /\ src \in [1..Len(wal) -> 1..Len(told)]
    /\ \A p, q \in 1..Len(wal) : p < q => src[p] < src[q]
    /\ \A p \in 1..Len(wal) : wal[p] \in Entry =>
         told[src[p]].key = wal[p].key /\ told[src[p]].value = wal[p].value
    /\ \A j \in 1..Len(told) : told[j].ok => \E p \in 1..synced : src[p] = j
    /\ InWrite => src[Len(wal)] = Len(told)

\* The log has the writes in their order, and the confirmed ones are synced.
LogHasWrites == \E src : IsSource(src)

\* Neither the snapshot nor the map has a key the log lacks.
SnapInLog ==
    Loads(synced) =>
      \A k \in Key : snap[k] # Absent => \E p \in 1..synced : wal[p].key = k

DataInLog ==
    (Running /\ Loads(Len(wal))) =>
      \A k \in Key : data[k] # Absent => \E p \in 1..Len(wal) : wal[p].key = k

DataOpen ==
    /\ Running => \A k \in Key : data[k] \in Open(k)
    /\ pc \in {"save", "rename"} => data[told[Len(told)].key] = told[Len(told)].value

StoreInv ==
    /\ StoreType /\ FragmentsAtEnd /\ LogHasWrites
    /\ SnapInLog /\ DataInLog /\ DataOpen

-----------------------------------------------------------------------------

\* v is what key k has after the first n lines.
Latest(snapshot, lines, n, k, v) ==
    \/ v = snapshot[k] /\ \A j \in 1..n : lines[j].key # k
    \/ \E j \in 1..n : /\ lines[j].key = k /\ lines[j].value = v
                       /\ \A l \in (j + 1)..n : lines[l].key # k

\* g follows the loop of NewStoreFromDisk over the first n lines.
IsReplay(g, snapshot, lines, n) ==
    g = [m \in 0..n |-> IF m = 0 THEN snapshot ELSE applyLocked(g[m - 1], lines[m])]

\* A set of naturals that is closed under successor up to n and has 0 has n.
LEMMA UpTo ==
    ASSUME NEW n \in Nat, NEW T \in SUBSET (0..n), 0 \in T,
           \A m \in T : m < n => m + 1 \in T
    PROVE  T = 0..n
<1> SUFFICES ASSUME (0..n) \ T # {} PROVE FALSE
  BY Zenon
<1> DEFINE U == (0..n) \ T
<1>1. U \in SUBSET Nat /\ U # {}
  OBVIOUS
<1>2. PICK k \in U : \A m \in U : ~(<<m, k>> \in OpToRel(<, Nat))
  BY <1>1, NatLessThanWellFounded, WFMin, Zenon
<1>3. \A m \in U : ~(m < k)
  BY <1>1, <1>2, Zenon DEF OpToRel
<1>4. k # 0 /\ k \in 0..n
  OBVIOUS
<1>5. k - 1 \in 0..n /\ k - 1 < k /\ k - 1 < n /\ (k - 1) + 1 = k
  BY <1>4
<1>6. k - 1 \in T
  BY <1>3, <1>5
<1> QED BY <1>5, <1>6

\* The loop of NewStoreFromDisk has a result.
LEMMA ReplayDefined ==
    ASSUME NEW snapshot, NEW lines, NEW n \in Nat
    PROVE  \E g : IsReplay(g, snapshot, lines, n)
<1> DEFINE Step(g, i) == IsReplay(g, snapshot, lines, i)
<1> DEFINE T == {i \in 0..n : \E g : Step(g, i)}
<1> USE DEF IsReplay
<1>1. 0 \in T
  <2> DEFINE g == [m \in 0..0 |-> snapshot]
  <2>1. Step(g, 0)
    OBVIOUS
  <2> HIDE DEF g, Step
  <2>2. \E f : Step(f, 0)
    BY <2>1
  <2> QED BY <2>2
<1>2. ASSUME NEW i \in T, i < n PROVE i + 1 \in T
  <2>1. PICK g : Step(g, i)
    OBVIOUS
  <2> DEFINE h == [m \in 0..(i + 1) |-> IF m = i + 1
                       THEN applyLocked(g[i], lines[i + 1]) ELSE g[m]]
  <2> HIDE DEF applyLocked
  <2>2. ASSUME NEW m \in 0..(i + 1)
        PROVE  h[m] = IF m = 0 THEN snapshot ELSE applyLocked(h[m - 1], lines[m])
    <3>1. CASE m = i + 1
      BY <3>1
    <3>2. CASE m # i + 1 /\ m # 0
      <4>1. m \in 0..i /\ m - 1 \in 0..(i + 1) /\ m - 1 # i + 1
        BY <3>2
      <4>2. h[m] = g[m] /\ h[m - 1] = g[m - 1]
        BY <4>1
      <4>3. g[m] = applyLocked(g[m - 1], lines[m])
        BY <2>1, <3>2, <4>1
      <4> QED BY <3>2, <4>2, <4>3
    <3>3. CASE m = 0
      <4>1. 0 \in 0..i
        OBVIOUS
      <4>2. g[0] = snapshot
        BY <2>1, <4>1
      <4> QED BY <3>3, <4>2
    <3> QED BY <3>1, <3>2, <3>3
  <2>3. Step(h, i + 1)
    BY <2>2
  <2> HIDE DEF h, Step
  <2>4. \E f : Step(f, i + 1)
    BY <2>3
  <2> QED BY <1>2, <2>4
<1>3. T \in SUBSET (0..n)
  OBVIOUS
<1>4. n \in 0..n
  OBVIOUS
<1>5. n \in T
  <2> HIDE DEF T
  <2> QED BY <1>1, <1>2, <1>3, <1>4, UpTo
<1> QED BY <1>5

\* What a restart reads: for each key the last line of the log about it, or
\* the snapshot.
LEMMA RestoredIsLatest ==
    ASSUME NEW snapshot \in State, NEW lines \in Seq(Entry)
    PROVE  /\ Restored(snapshot, lines) \in State
           /\ \A k \in Key : Latest(snapshot, lines, Len(lines), k,
                                   Restored(snapshot, lines)[k])
<1> DEFINE n == Len(lines)
<1> DEFINE state[m \in 0..n] ==
             IF m = 0 THEN snapshot ELSE applyLocked(state[m - 1], lines[m])
<1>1. n \in Nat /\ \A m \in 1..n : lines[m] \in Entry
  BY LenProperties
<1>2. state = [m \in 0..n |-> IF m = 0 THEN snapshot
                               ELSE applyLocked(state[m - 1], lines[m])]
  <2> HIDE DEF applyLocked, n
  <2>1. \E g : IsReplay(g, snapshot, lines, n)
    BY <1>1, ReplayDefined
  <2> QED BY <2>1, Zenon DEF IsReplay
<1>3. Restored(snapshot, lines) = state[n]
  BY DEF Restored
<1> HIDE DEF state, n
<1> DEFINE T == {m \in 0..n : /\ state[m] \in State
                              /\ \A k \in Key : Latest(snapshot, lines, m, k, state[m][k])}
<1>4. 0 \in T
  BY <1>1, <1>2 DEF Latest
<1>5. ASSUME NEW m \in T, m < n PROVE m + 1 \in T
  <2>1. m + 1 \in 1..n /\ m \in 0..n /\ m + 1 # 0 /\ (m + 1) - 1 = m /\ m + 1 \in 0..n
    BY <1>1, <1>5
  <2> DEFINE e == lines[m + 1]
  <2>2. state[m + 1] = [state[m] EXCEPT ![e.key] = e.value] /\ e \in Entry
    BY <1>1, <1>2, <2>1, Zenon DEF applyLocked
  <2>3. state[m + 1] \in State
    BY <2>2 DEF State, Entry
  <2>4. ASSUME NEW k \in Key PROVE Latest(snapshot, lines, m + 1, k, state[m + 1][k])
    <3>1. CASE e.key = k
      <4>1. state[m + 1][k] = e.value
        BY <2>2, <3>1 DEF State, Entry
      <4>2. m + 1 \in 1..(m + 1) /\ ((m + 1) + 1)..(m + 1) = {}
        BY <2>1
      <4> QED BY <3>1, <4>1, <4>2 DEF Latest
    <3>2. CASE e.key # k
      <4>1. state[m + 1][k] = state[m][k]
        BY <2>2, <3>2 DEF State, Entry
      <4>2. Latest(snapshot, lines, m, k, state[m][k])
        OBVIOUS
      <4>3. \A j \in 1..(m + 1) : j \in 1..m \/ j = m + 1
        BY <2>1
      <4>4. \A j \in 1..m : j \in 1..(m + 1)
        BY <2>1
      <4>5. \A j \in 1..m : \A l \in (j + 1)..(m + 1) : l \in (j + 1)..m \/ l = m + 1
        BY <2>1
      <4> QED BY <3>2, <4>1, <4>2, <4>3, <4>4, <4>5 DEF Latest
    <3> QED BY <3>1, <3>2
  <2> QED BY <2>1, <2>3, <2>4
<1>6. n \in T
  <2>1. T \in SUBSET (0..n) /\ n \in 0..n
    BY <1>1
  <2> HIDE DEF T
  <2> QED BY <1>1, <1>4, <1>5, <2>1, UpTo
<1> QED BY <1>3, <1>6 DEF n

-----------------------------------------------------------------------------

\* Upsert or Delete leaves the value it asks for open.
LEMMA OpenBegin ==
    ASSUME told \in Seq(Told), NEW k \in Key, NEW v \in Value \union {Absent},
           told' = Append(told, [key |-> k, value |-> v, ok |-> FALSE])
    PROVE  /\ Open(k)' = Open(k) \union {v}
           /\ \A m \in Key : m # k => Open(m)' = Open(m)
<1> DEFINE n == Len(told)
           w == [key |-> k, value |-> v, ok |-> FALSE]
<1>1. w \in Told
  BY DEF Told
<1>2. /\ n \in Nat /\ DOMAIN told = 1..n /\ DOMAIN told' = 1..(n + 1)
      /\ Len(told') = n + 1
      /\ \A j \in 1..n : told'[j] = told[j]
      /\ told'[n + 1] = w
  BY <1>1, AppendProperties, LenProperties
<1> HIDE DEF n, w
<1>3. w.key = k /\ w.value = v /\ w.ok = FALSE
  BY DEF w
<1>4. 1..(n + 1) = (1..n) \union {n + 1}
  BY <1>2
<1>5. ASSUME NEW m \in Key, NEW j \in 1..n
      PROVE  j \in Candidates(m)' <=> j \in Candidates(m)
  <2>1. (j + 1)..(n + 1) = ((j + 1)..n) \union {n + 1}
    BY <1>2
  <2>2. \A l \in (j + 1)..n : l \in 1..n
    BY <1>2
  <2> QED BY <1>2, <1>3, <1>4, <2>1, <2>2 DEF Candidates, n
<1>6. ASSUME NEW m \in Key
      PROVE  n + 1 \in Candidates(m)' <=> m = k
  <2>1. ((n + 1) + 1)..(n + 1) = {}
    BY <1>2
  <2> QED BY <1>2, <1>3, <1>4, <2>1 DEF Candidates
<1>7. \A m \in Key : /\ Candidates(m) \subseteq 1..n
                     /\ Candidates(m)' \subseteq 1..(n + 1)
  BY <1>2 DEF Candidates
<1>8. \A m \in Key : Candidates(m)' = Candidates(m) \union (IF m = k THEN {n + 1} ELSE {})
  BY <1>4, <1>5, <1>6, <1>7
<1>9. \A m \in Key : (\E j \in DOMAIN told : told[j].key = m /\ told[j].ok)'
                     <=> (\E j \in DOMAIN told : told[j].key = m /\ told[j].ok)
  BY <1>2, <1>3, <1>4
<1>10. \A m \in Key : {told'[j].value : j \in Candidates(m)'} =
          {told[j].value : j \in Candidates(m)} \union (IF m = k THEN {v} ELSE {})
  BY <1>2, <1>3, <1>7, <1>8
<1>11. ASSUME NEW m \in Key
       PROVE  Open(m)' = Open(m) \union (IF m = k THEN {v} ELSE {})
  <2>1. CASE \E j \in DOMAIN told : told[j].key = m /\ told[j].ok
    <3>1. \E j \in DOMAIN told' : told'[j].key = m /\ told'[j].ok
      BY <1>9, <2>1
    <3>2. /\ Open(m)' = {told'[j].value : j \in Candidates(m)'}
          /\ Open(m) = {told[j].value : j \in Candidates(m)}
      BY <2>1, <3>1, Zenon DEF Open
    <3> QED BY <1>10, <3>2, Zenon
  <2>2. CASE ~\E j \in DOMAIN told : told[j].key = m /\ told[j].ok
    <3>1. ~\E j \in DOMAIN told' : told'[j].key = m /\ told'[j].ok
      BY <1>9, <2>2
    <3>2. /\ Open(m)' = {told'[j].value : j \in Candidates(m)'} \union {Absent}
          /\ Open(m) = {told[j].value : j \in Candidates(m)} \union {Absent}
      BY <2>2, <3>1, Zenon DEF Open
    <3> QED BY <1>10, <3>2, Zenon
  <2> QED BY <2>1, <2>2
<1> QED BY <1>11, Zenon

\* A nil result settles the key of the write.
LEMMA OpenConfirm ==
    ASSUME told \in Seq(Told), Len(told) > 0, told' = ReturnsNil,
           NEW k, k = told[Len(told)].key, NEW v, v = told[Len(told)].value
    PROVE  /\ Open(k)' = {v}
           /\ \A m \in Key : m # k => Open(m)' = Open(m)
<1> DEFINE n == Len(told)
<1>1. n \in Nat /\ n > 0 /\ DOMAIN told = 1..n /\ n \in 1..n /\ told[n] \in Told
  BY LenProperties, ElementOfSeq
<1>2. /\ DOMAIN told' = 1..n /\ Len(told') = n
      /\ told'[n].key = k /\ told'[n].value = v /\ told'[n].ok = TRUE
      /\ \A j \in 1..n : j # n => told'[j] = told[j]
  BY <1>1 DEF ReturnsNil, Told
<1> HIDE DEF n
<1>3. \A j \in 1..n : told'[j].key = told[j].key /\ told'[j].value = told[j].value
  BY <1>2, Zenon DEF n
<1>4. Candidates(k)' = {n}
  <2>1. n \in Candidates(k)'
    <3>1. (n + 1)..Len(told') = {}
      BY <1>1, <1>2
    <3>2. n \in DOMAIN told' /\ told'[n].key = k
      BY <1>1, <1>2
    <3> QED BY <3>1, <3>2 DEF Candidates
  <2>2. ASSUME NEW j \in Candidates(k)', j # n PROVE FALSE
    <3>1. /\ j \in DOMAIN told'
          /\ ~\E l \in (j + 1)..Len(told') : told'[l].key = k /\ told'[l].ok
      BY DEF Candidates
    <3>2. n \in (j + 1)..Len(told')
      BY <1>1, <1>2, <2>2, <3>1
    <3> QED BY <1>2, <3>1, <3>2
  <2> QED BY <2>1, <2>2
<1>5. Open(k)' = {v}
  <2>1. \E j \in DOMAIN told' : told'[j].key = k /\ told'[j].ok
    <3>1. n \in DOMAIN told' /\ told'[n].key = k /\ told'[n].ok
      BY <1>1, <1>2
    <3> QED BY <3>1
  <2>2. Open(k)' = {told'[j].value : j \in Candidates(k)'}
    BY <2>1 DEF Open
  <2> QED BY <1>2, <1>4, <2>2
<1>6. ASSUME NEW m \in Key, m # k PROVE Open(m)' = Open(m)
  <2>1. \A l \in 1..n : told'[l].key = m => told'[l] = told[l]
    BY <1>2, <1>6
  <2>2. Candidates(m)' = Candidates(m)
    <3>1. \A j \in 1..n, l \in Nat : l \in (j + 1)..n => l \in 1..n
      BY <1>1
    <3>2. \A j \in 1..n : (\E l \in (j + 1)..n : told'[l].key = m /\ told'[l].ok)
                      <=> (\E l \in (j + 1)..n : told[l].key = m /\ told[l].ok)
      BY <1>1, <1>3, <2>1, <3>1
    <3> QED BY <1>1, <1>2, <1>3, <3>2, Zenon DEF Candidates, n
  <2>3. Candidates(m) \subseteq 1..n
    BY <1>1 DEF Candidates
  <2>4. {told'[j].value : j \in Candidates(m)'} = {told[j].value : j \in Candidates(m)}
    BY <1>3, <2>2, <2>3
  <2>5. (\E j \in DOMAIN told' : told'[j].key = m /\ told'[j].ok)
          <=> (\E j \in DOMAIN told : told[j].key = m /\ told[j].ok)
    BY <1>1, <1>2, <1>3, <2>1
  <2>6. CASE \E j \in DOMAIN told : told[j].key = m /\ told[j].ok
    <3>1. /\ Open(m)' = {told'[j].value : j \in Candidates(m)'}
          /\ Open(m) = {told[j].value : j \in Candidates(m)}
      BY <2>5, <2>6 DEF Open
    <3> QED BY <2>4, <3>1, Zenon
  <2>7. CASE ~\E j \in DOMAIN told : told[j].key = m /\ told[j].ok
    <3>1. /\ Open(m)' = {told'[j].value : j \in Candidates(m)'} \union {Absent}
          /\ Open(m) = {told[j].value : j \in Candidates(m)} \union {Absent}
      BY <2>5, <2>7 DEF Open
    <3> QED BY <2>4, <3>1, Zenon
  <2> QED BY <2>6, <2>7
<1> QED BY <1>5, <1>6 DEF n

\* The write under way is open.
LEMMA OpenLast ==
    ASSUME told \in Seq(Told), Len(told) > 0
    PROVE  told[Len(told)].value \in Open(told[Len(told)].key)
<1> DEFINE n == Len(told)
<1>1. n \in DOMAIN told /\ n \in Nat /\ (n + 1)..n = {}
  BY LenProperties
<1>2. n \in Candidates(told[n].key)
  BY <1>1 DEF Candidates
<1> QED BY <1>2 DEF Open

\* A step that tells nobody anything leaves what is open.
LEMMA OpenSame ==
    ASSUME told' = told
    PROVE  \A k \in Key : Open(k)' = Open(k)
BY DEF Open, Candidates

-----------------------------------------------------------------------------

\* w has one line more than lines, or has spoilt one that was cut short.
Grown(w, lines, line) ==
    /\ w \in Seq(Line) /\ Len(w) \in Nat /\ Len(w) > 0
    /\ \A p \in 1..(Len(w) - 1) : p \in 1..Len(lines) /\ w[p] = lines[p]
    /\ \/ /\ Len(w) = Len(lines) + 1 /\ w[Len(w)] = line
          /\ Len(lines) > 0 => lines[Len(lines)] # Fragment
       \/ /\ Len(w) = Len(lines) /\ w[Len(w)] = Garbled
          /\ lines[Len(lines)] = Fragment

\* What FileWAL.Append does to the file
LEMMA AppendedLine ==
    ASSUME NEW lines \in Seq(Line), NEW line \in Line
    PROVE  Grown(AppendLine(lines, line), lines, line)
<1> DEFINE n == Len(lines)
<1> DEFINE w == AppendLine(lines, line)
<1>1. n \in Nat /\ Garbled \in Line /\ \A p \in 1..n : lines[p] \in Line
  BY LenProperties, ElementOfSeq DEF Line
<1>2. CASE lines # <<>> /\ lines[n] = Fragment
  <2> DEFINE f == SubSeq(lines, 1, n - 1)
  <2>1. n > 0
    BY <1>1, <1>2, EmptySeq
  <2>2. \A p \in 1..(n - 1) : lines[p] \in Line /\ p \in 1..n
    BY <1>1, <2>1
  <2>3. n - 1 \in Int /\ 1 \in Int /\ (n - 1) - 1 + 1 = n - 1
    BY <1>1
  <2>4. /\ f \in Seq(Line) /\ Len(f) = n - 1
        /\ \A p \in 1..(n - 1) : f[p] = lines[p]
    BY <1>1, <2>1, <2>2, <2>3, SubSeqProperties
  <2>5. w = Append(f, Garbled)
    BY <1>2 DEF AppendLine
  <2> HIDE DEF f, w
  <2>6. w \in Seq(Line) /\ Len(w) = n /\ w[n] = Garbled /\ \A p \in 1..(n - 1) : w[p] = f[p]
    BY <1>1, <2>1, <2>4, <2>5, AppendProperties
  <2>7. Grown(w, lines, line)
    BY <1>1, <1>2, <2>1, <2>2, <2>4, <2>6 DEF Grown
  <2> QED BY <2>7 DEF w
<1>3. CASE ~(lines # <<>> /\ lines[n] = Fragment)
  <2>1. w = Append(lines, line)
    BY <1>3 DEF AppendLine
  <2> HIDE DEF w
  <2>2. w \in Seq(Line) /\ Len(w) = n + 1 /\ w[n + 1] = line /\ \A p \in 1..n : w[p] = lines[p]
    BY <2>1, AppendProperties
  <2>3. n > 0 => lines[n] # Fragment
    BY <1>3, EmptySeq
  <2>4. Grown(w, lines, line)
    BY <1>1, <2>2, <2>3 DEF Grown
  <2> QED BY <2>4 DEF w
<1> QED BY <1>2, <1>3

\* A first start finds empty files.
LEMMA StoreInit == Init => StoreInv
<1> SUFFICES ASSUME Init PROVE StoreInv
  OBVIOUS
<1>1. /\ wal = <<>> /\ told = <<>> /\ synced = 0 /\ pc = "idle" /\ data = Empty
      /\ snap = Empty
  BY DEF Init, NoSnapshot
<1>2. Len(wal) = 0 /\ Len(told) = 0 /\ wal \in Seq(Line) /\ told \in Seq(Told)
  BY <1>1, EmptySeq
<1>3. 1..0 = {} /\ DOMAIN told = 1..Len(told)
  BY <1>2, LenProperties
<1>4. Empty \in State /\ \A k \in Key : Empty[k] = Absent
  BY DEF Empty, State
<1>5. StoreType /\ FragmentsAtEnd
  BY <1>1, <1>2, <1>3, <1>4 DEF StoreType, FragmentsAtEnd, InWrite
<1>6. LogHasWrites
  <2> DEFINE src == [p \in 1..Len(wal) |-> 0]
  <2>1. IsSource(src)
    BY <1>1, <1>2, <1>3 DEF IsSource, InWrite
  <2> QED BY <2>1 DEF LogHasWrites
<1>7. SnapInLog /\ DataInLog
  BY <1>1, <1>4 DEF SnapInLog, DataInLog
<1>8. DataOpen
  <2>1. \A k \in Key : Absent \in Open(k)
    BY <1>2, <1>3 DEF Open
  <2> QED BY <1>1, <1>4, <2>1 DEF DataOpen
<1> QED BY <1>5, <1>6, <1>7, <1>8 DEF StoreInv

\* What every step of Write has in common: one more write is asked for.
LEMMA WriteBegins ==
    ASSUME StoreType, NEW e \in Entry,
           told' = Append(told, [key |-> e.key, value |-> e.value, ok |-> FALSE])
    PROVE  /\ told' \in Seq(Told) /\ Len(told') = Len(told) + 1 /\ Len(told) \in Nat
           /\ \A j \in 1..Len(told) : told'[j] = told[j]
           /\ told'[Len(told) + 1].key = e.key
           /\ told'[Len(told) + 1].value = e.value
           /\ told'[Len(told) + 1].ok = FALSE
           /\ \A k \in Key : Open(k) \subseteq Open(k)'
<1>1. /\ [key |-> e.key, value |-> e.value, ok |-> FALSE] \in Told
      /\ e.key \in Key /\ e.value \in Value \union {Absent}
  BY DEF Told, Entry
<1>2. told \in Seq(Told)
  BY DEF StoreType
<1>3. /\ Open(e.key)' = Open(e.key) \union {e.value}
      /\ \A m \in Key : m # e.key => Open(m)' = Open(m)
  BY <1>1, <1>2, OpenBegin
<1>4. \A k \in Key : Open(k) \subseteq Open(k)'
  BY <1>3
<1> QED BY <1>1, <1>2, <1>4, AppendProperties, LenProperties

\* Write: the entry, a part of it or nothing gets into the file.
LEMMA StoreWrite ==
    ASSUME StoreInv, Write
    PROVE  StoreInv'
<1>1. PICK e \in Entry :
        /\ told' = Append(told, [key |-> e.key, value |-> e.value, ok |-> FALSE])
        /\ \/ wal' = AppendLine(wal, e) /\ pc' = "sync"
           \/ (wal' = wal \/ wal' = AppendLine(wal, Fragment)) /\ pc' = "idle"
  BY Zenon DEF Write
<1>2. /\ pc = "idle" /\ UNCHANGED <<data, synced, snap>>
      /\ StoreType /\ FragmentsAtEnd /\ LogHasWrites /\ SnapInLog /\ DataInLog /\ DataOpen
  BY DEF Write, StoreInv
<1>3. PICK N : N = Len(told) + 1
  OBVIOUS
<1>4. told' = Append(told, [key |-> e.key, value |-> e.value, ok |-> FALSE])
  BY <1>1
<1>5. StoreType
  BY <1>2
<1>6. /\ told' \in Seq(Told) /\ Len(told') = N /\ N \in Nat /\ Len(told) \in Nat
      /\ \A j \in 1..Len(told) : told'[j] = told[j]
      /\ told'[N].key = e.key /\ told'[N].value = e.value /\ told'[N].ok = FALSE
      /\ \A k \in Key : Open(k) \subseteq Open(k)'
  <2>1. /\ told' \in Seq(Told) /\ Len(told') = Len(told) + 1 /\ Len(told) \in Nat
        /\ \A j \in 1..Len(told) : told'[j] = told[j]
        /\ told'[Len(told) + 1].key = e.key
        /\ told'[Len(told) + 1].value = e.value
        /\ told'[Len(told) + 1].ok = FALSE
        /\ \A k \in Key : Open(k) \subseteq Open(k)'
    BY <1>4, <1>5, WriteBegins, Zenon
  <2> QED BY <1>3, <2>1
<1>7. PICK src : IsSource(src)
  BY <1>2 DEF LogHasWrites
<1>8. /\ wal \in Seq(Line) /\ Len(wal) \in Nat /\ synced \in 0..Len(wal)
      /\ \A p \in 1..Len(wal) : p < Len(wal) \/ p <= synced => wal[p] # Fragment
      /\ \A p \in 1..synced : p \in 1..Len(wal) /\ wal[p] # Fragment
      /\ e # Fragment /\ e # Garbled /\ Fragment \notin Entry /\ Garbled \notin Entry
      /\ Fragment # Garbled /\ e \in Line /\ Fragment \in Line
  BY <1>2, StoreAssumption, LenProperties DEF StoreType, FragmentsAtEnd, Entry, Line
<1>9. DataOpen'
  BY <1>1, <1>2, <1>6 DEF DataOpen, Running
<1>10. \A j \in 1..N : j \in 1..Len(told) \/ j = N
  BY <1>3, <1>6
<1>11. CASE wal' = wal /\ pc' = "idle"
  <2>1. StoreType' /\ FragmentsAtEnd'
    BY <1>2, <1>6, <1>11 DEF StoreType, FragmentsAtEnd, InWrite
  <2>2. IsSource(src)'
    <3>1. src' = src
      OBVIOUS
    <3>2. src \in [1..Len(wal) -> 1..N]
      BY <1>3, <1>6, <1>7 DEF IsSource
    <3>3. \A p \in 1..Len(wal) : src[p] \in 1..Len(told)
      BY <1>7 DEF IsSource
    <3>4. \A j \in 1..N : told'[j].ok => \E p \in 1..synced : src[p] = j
      BY <1>6, <1>7, <1>10 DEF IsSource
    <3> QED BY <1>2, <1>6, <1>7, <1>11, <3>2, <3>3, <3>4 DEF IsSource, InWrite
  <2>3. LogHasWrites'
    BY <2>2 DEF LogHasWrites
  <2>4. SnapInLog' /\ DataInLog'
    BY <1>2, <1>11 DEF SnapInLog, DataInLog, Loads, Running
  <2> QED BY <1>9, <2>1, <2>3, <2>4 DEF StoreInv
<1>12. ASSUME NEW line \in {e, Fragment}, wal' = AppendLine(wal, line),
             \/ pc' = "sync" /\ line = e
             \/ pc' = "idle" /\ line = Fragment
      PROVE  StoreInv'
  <2>0. PICK n : n = Len(wal')
    BY Zenon
  <2>1. /\ wal' \in Seq(Line) /\ n \in Nat /\ n > 0
        /\ \A p \in 1..(n - 1) : p \in 1..Len(wal) /\ wal'[p] = wal[p]
        /\ \/ /\ n = Len(wal) + 1 /\ wal'[n] = line
              /\ Len(wal) > 0 => wal[Len(wal)] # Fragment
           \/ n = Len(wal) /\ wal'[n] = Garbled /\ wal[Len(wal)] = Fragment
    <3>1. line \in Line /\ wal \in Seq(Line)
      BY <1>8
    <3>2. wal' = AppendLine(wal, line)
      BY <1>12
    <3>3. Grown(wal', wal, line)
      BY <3>1, <3>2, AppendedLine
    <3> QED BY <2>0, <3>3 DEF Grown
  <2>2. synced <= n - 1
    BY <1>8, <2>1
  <2>3. \A p \in 1..synced : p \in 1..(n - 1) /\ p \in 1..n /\ wal'[p] = wal[p]
    BY <1>8, <2>1, <2>2
  <2>4. StoreType'
    BY <1>2, <1>6, <1>8, <1>12, <2>1, <2>2, <2>0 DEF StoreType
  <2>5. FragmentsAtEnd'
    <3>1. Len(told') > 0
      BY <1>3, <1>6
    <3>2. pc' = "sync" => wal'[n] # Fragment
      BY <1>8, <1>12, <2>1
    <3>3. \A p \in 1..n : p < n \/ p <= synced => wal'[p] # Fragment
      <4>1. \A p \in 1..n : p < n \/ p <= synced => p \in 1..(n - 1)
        BY <1>8, <2>1, <2>2
      <4>2. \A p \in 1..(n - 1) : wal[p] # Fragment
        BY <1>8, <2>1
      <4> QED BY <2>1, <4>1, <4>2
    <3> QED BY <1>2, <1>12, <2>0, <2>1, <3>1, <3>2, <3>3 DEF FragmentsAtEnd, InWrite
  <2>6. LogHasWrites'
    <3> DEFINE t == [p \in 1..n |-> IF p = n THEN N ELSE src[p]]
    <3>1. \A p \in 1..(n - 1) : src[p] \in 1..Len(told) /\ t[p] = src[p] /\ p \in 1..n
      <4>1. \A p \in 1..(n - 1) : p \in 1..n /\ p # n
        BY <2>1
      <4>2. \A p \in 1..Len(wal) : src[p] \in 1..Len(told)
        BY <1>7 DEF IsSource
      <4> QED BY <2>1, <4>1, <4>2
    <3>2. t[n] = N /\ n \in 1..n
      BY <2>1
    <3>3. \A p \in 1..n : p \in 1..(n - 1) \/ p = n
      BY <2>1
    <3>4. t \in [1..n -> 1..N]
      <4>1. N \in 1..N /\ \A j \in 1..Len(told) : j \in 1..N
        BY <1>3, <1>6
      <4>2. \A p \in 1..n : t[p] \in 1..N
        BY <3>1, <3>2, <3>3, <4>1, Zenon
      <4> QED BY <4>2
    <3> HIDE DEF t
    <3>5. ASSUME NEW p \in 1..n, NEW q \in 1..n, p < q PROVE t[p] < t[q]
      <4>1. p \in 1..(n - 1)
        BY <2>1, <3>5
      <4>2. CASE q = n
        BY <1>3, <1>6, <3>1, <3>2, <4>1, <4>2
      <4>3. CASE q \in 1..(n - 1)
        BY <1>7, <2>1, <3>1, <3>5, <4>1, <4>3 DEF IsSource
      <4> QED BY <3>3, <4>2, <4>3
    <3>6. ASSUME NEW p \in 1..n, wal'[p] \in Entry
          PROVE  told'[t[p]].key = wal'[p].key /\ told'[t[p]].value = wal'[p].value
      <4>1. CASE p = n
        BY <1>6, <1>8, <2>1, <3>2, <3>6, <4>1
      <4>2. CASE p \in 1..(n - 1)
        <5>1. p \in 1..Len(wal) /\ wal'[p] = wal[p] /\ t[p] = src[p]
              /\ told'[src[p]] = told[src[p]]
          BY <1>6, <2>1, <3>1, <4>2, Zenon
        <5> QED BY <1>7, <3>6, <5>1 DEF IsSource
      <4> QED BY <3>3, <4>1, <4>2
    <3>7. ASSUME NEW j \in 1..N, told'[j].ok PROVE \E p \in 1..synced : t[p] = j
      <4>1. j \in 1..Len(told) /\ told[j].ok
        BY <1>6, <1>10, <3>7
      <4>2. PICK p \in 1..synced : src[p] = j
        BY <1>7, <4>1 DEF IsSource
      <4> QED BY <2>3, <3>1, <4>2
    <3>8. /\ t \in [1..Len(wal') -> 1..Len(told')]
          /\ \A p, q \in 1..Len(wal') : p < q => t[p] < t[q]
          /\ \A p \in 1..Len(wal') : wal'[p] \in Entry =>
               told'[t[p]].key = wal'[p].key /\ told'[t[p]].value = wal'[p].value
          /\ \A j \in 1..Len(told') : told'[j].ok => \E p \in 1..synced' : t[p] = j
          /\ t[Len(wal')] = Len(told')
      BY <1>2, <1>6, <3>2, <3>4, <3>5, <3>6, <3>7, <2>0, Zenon
    <3> QED BY <3>8 DEF LogHasWrites, IsSource
  <2>7. SnapInLog'
    BY <1>2, <2>3 DEF SnapInLog, Loads
  <2>8. DataInLog'
    <3> SUFFICES ASSUME Loads(Len(wal))', NEW k \in Key, data[k] # Absent
                 PROVE  \E p \in 1..n : wal'[p].key = k
      BY <1>2, <2>0 DEF DataInLog
    <3>1. n = Len(wal) + 1
      BY <1>8, <2>1, <2>0 DEF Loads
    <3>2. \A p \in 1..Len(wal) : p \in 1..n /\ wal'[p] = wal[p]
      BY <1>8, <2>1, <3>1
    <3>3. Loads(Len(wal))
      BY <3>2, <2>0 DEF Loads
    <3> QED BY <1>2, <3>2, <3>3 DEF DataInLog, Running
  <2> QED BY <1>9, <2>4, <2>5, <2>6, <2>7, <2>8 DEF StoreInv
<1> QED BY <1>1, <1>11, <1>12

-----------------------------------------------------------------------------

\* A nil result changes the mark of the last write only.
LEMMA ReturnedNil ==
    ASSUME told \in Seq(Told), Len(told) > 0, told' = ReturnsNil
    PROVE  /\ told' \in Seq(Told) /\ Len(told') = Len(told)
           /\ \A j \in 1..Len(told) : told'[j].key = told[j].key /\ told'[j].value = told[j].value
           /\ \A j \in 1..Len(told) : j # Len(told) => told'[j] = told[j]
<1> DEFINE n == Len(told)
           w == [told[n] EXCEPT !.ok = TRUE]
<1>1. n \in 1..n /\ told[n] \in Told
  BY LenProperties, ElementOfSeq
<1>2. w \in Told /\ w.key = told[n].key /\ w.value = told[n].value
  BY <1>1, Zenon DEF Told
<1>3. told' = [told EXCEPT ![n] = w]
  BY DEF ReturnsNil
<1> HIDE DEF w
<1>4. /\ told' \in Seq(Told) /\ Len(told') = n
      /\ \A j \in 1..n : told'[j] = IF j = n THEN w ELSE told[j]
  BY <1>1, <1>2, <1>3, ExceptSeq
<1> QED BY <1>2, <1>4

\* The steps that leave the file: its lines stay those of the same writes, and
\* a write that returns nil has its line synced.
LEMMA LogKept ==
    ASSUME StoreInv, UNCHANGED wal,
           synced' \in {synced, Len(wal)},
           InWrite' => InWrite,
           pc' \in {"apply", "save", "rename"} => synced' = Len(wal),
           \/ told' = told
           \/ told' = ReturnsNil /\ InWrite /\ synced' = Len(wal),
           synced' = synced \/ InWrite
    PROVE  /\ told' \in Seq(Told) /\ synced' \in 0..Len(wal)
           /\ FragmentsAtEnd' /\ LogHasWrites'
<1>1. /\ StoreType /\ FragmentsAtEnd /\ LogHasWrites
      /\ told \in Seq(Told) /\ Len(told) \in Nat /\ Len(wal) \in Nat
      /\ synced \in 0..Len(wal) /\ wal \in Seq(Line)
  BY LenProperties DEF StoreInv, StoreType
<1>2. /\ told' \in Seq(Told) /\ Len(told') = Len(told)
      /\ \A j \in 1..Len(told) : told'[j].key = told[j].key /\ told'[j].value = told[j].value
      /\ \A j \in 1..Len(told) : told'[j] = told[j] \/
             (InWrite /\ synced' = Len(wal) /\ j = Len(told))
  <2>1. CASE told' = told
    BY <1>1, <2>1
  <2>2. CASE told' = ReturnsNil /\ InWrite /\ synced' = Len(wal)
    <3>1. Len(told) > 0
      BY <1>1, <2>2 DEF FragmentsAtEnd
    <3> QED BY <1>1, <2>2, <3>1, ReturnedNil
  <2> QED BY <2>1, <2>2
<1>3. synced' \in 0..Len(wal) /\ synced' >= synced
  BY <1>1
<1>4. FragmentsAtEnd'
  <2>1. \A p \in 1..Len(wal) : p < Len(wal) \/ p <= synced' => wal[p] # Fragment
    <3>1. CASE synced' = synced
      BY <1>1, <3>1 DEF FragmentsAtEnd
    <3>2. CASE InWrite
      <4>1. \A p \in 1..Len(wal) : p < Len(wal) \/ p = Len(wal)
        BY <1>1
      <4> QED BY <1>1, <3>2, <4>1 DEF FragmentsAtEnd
    <3> QED BY <3>1, <3>2
  <2> QED BY <1>1, <1>2, <2>1 DEF FragmentsAtEnd
<1>5. PICK src : IsSource(src)
  BY <1>1 DEF LogHasWrites
<1>6. /\ src \in [1..Len(wal) -> 1..Len(told)]
      /\ \A p, q \in 1..Len(wal) : p < q => src[p] < src[q]
      /\ \A p \in 1..Len(wal) : wal[p] \in Entry =>
           told[src[p]].key = wal[p].key /\ told[src[p]].value = wal[p].value
      /\ InWrite => src[Len(wal)] = Len(told)
  BY <1>5 DEF IsSource
<1>7. \A p \in 1..Len(wal) : wal[p] \in Entry =>
         told'[src[p]].key = wal[p].key /\ told'[src[p]].value = wal[p].value
  BY <1>2, <1>6
<1>8. ASSUME NEW j \in 1..Len(told), told'[j].ok PROVE \E p \in 1..synced' : src[p] = j
  <2>1. CASE told'[j] = told[j]
    <3>1. PICK p \in 1..synced : src[p] = j
      BY <1>5, <1>8, <2>1 DEF IsSource
    <3>2. p \in 1..synced'
      BY <1>1, <1>3, <3>1
    <3> QED BY <3>1, <3>2
  <2>2. CASE InWrite /\ synced' = Len(wal) /\ j = Len(told)
    <3>1. Len(wal) \in 1..synced' /\ src[Len(wal)] = j
      BY <1>1, <1>6, <2>2 DEF FragmentsAtEnd
    <3> QED BY <3>1
  <2> QED BY <1>2, <2>1, <2>2
<1>9. /\ src \in [1..Len(wal') -> 1..Len(told')]
      /\ \A p, q \in 1..Len(wal') : p < q => src[p] < src[q]
      /\ \A p \in 1..Len(wal') : wal'[p] \in Entry =>
           told'[src[p]].key = wal'[p].key /\ told'[src[p]].value = wal'[p].value
      /\ \A j \in 1..Len(told') : told'[j].ok => \E p \in 1..synced' : src[p] = j
      /\ InWrite' => src[Len(wal')] = Len(told')
  BY <1>2, <1>6, <1>7, <1>8
<1> QED BY <1>2, <1>3, <1>4, <1>9, Zenon DEF LogHasWrites, IsSource

\* The fsync after a write
LEMMA StoreSync ==
    ASSUME StoreInv, Sync
    PROVE  StoreInv'
<1>1. /\ pc = "sync" /\ UNCHANGED <<data, wal, snap, told>>
      /\ \/ synced' = Len(wal) /\ pc' = "apply"
         \/ synced' = synced /\ pc' = "idle"
      /\ StoreType /\ SnapInLog /\ DataInLog /\ DataOpen
  BY DEF Sync, StoreInv
<1>2. /\ told' \in Seq(Told) /\ synced' \in 0..Len(wal)
      /\ FragmentsAtEnd' /\ LogHasWrites'
  BY <1>1, LogKept DEF InWrite
<1>3. StoreType'
  BY <1>1, <1>2 DEF StoreType
<1>4. SnapInLog'
  <2>1. Len(wal) \in Nat /\ synced \in 0..Len(wal) /\ synced' \in 0..Len(wal) /\ synced' >= synced
    BY <1>1, LenProperties DEF StoreType
  <2>2. \A p \in 1..synced : p \in 1..synced'
    BY <2>1
  <2> QED BY <1>1, <2>2 DEF SnapInLog, Loads
<1>5. DataInLog'
  BY <1>1 DEF DataInLog, Running, Loads
<1>6. DataOpen'
  BY <1>1, OpenSame DEF DataOpen, Running
<1> QED BY <1>2, <1>3, <1>4, <1>5, <1>6 DEF StoreInv

\* While a write is under way it is the last one, and its line the last line.
LEMMA WriteUnderWay ==
    ASSUME StoreInv, InWrite, NEW w, w = told[Len(told)]
    PROVE  /\ told \in Seq(Told) /\ Len(told) > 0
           /\ w \in Told /\ w.key \in Key /\ w.value \in Value \union {Absent}
           /\ w.value \in Open(w.key)
           /\ Len(wal) \in 1..Len(wal)
           /\ Loads(Len(wal)) => wal[Len(wal)].key = w.key
<1>1. /\ told \in Seq(Told) /\ Len(told) > 0 /\ Len(told) \in Nat
      /\ Len(wal) > 0 /\ Len(wal) \in Nat /\ LogHasWrites
  BY LenProperties DEF StoreInv, StoreType, FragmentsAtEnd
<1>2. Len(told) \in 1..Len(told) /\ Len(wal) \in 1..Len(wal)
  BY <1>1
<1>3. w \in Told
  BY <1>1, <1>2, ElementOfSeq
<1>4. w.key \in Key /\ w.value \in Value \union {Absent}
  BY <1>3 DEF Told
<1>5. w.value \in Open(w.key)
  BY <1>1, OpenLast
<1>6. PICK src : IsSource(src)
  BY <1>1 DEF LogHasWrites
<1>7. Loads(Len(wal)) => wal[Len(wal)].key = w.key
  BY <1>2, <1>6 DEF IsSource, Loads
<1> QED BY <1>1, <1>2, <1>3, <1>4, <1>5, <1>7

\* The memory update that follows the fsync
LEMMA StoreApplyEntry ==
    ASSUME StoreInv, ApplyEntry
    PROVE  StoreInv'
<1>1. PICK w : w = told[Len(told)]
  OBVIOUS
<1>2. /\ pc = "apply" /\ InWrite /\ UNCHANGED <<wal, synced, snap>>
      /\ StoreType /\ SnapInLog /\ DataInLog /\ DataOpen /\ synced = Len(wal)
  BY DEF ApplyEntry, StoreInv, InWrite, FragmentsAtEnd
<1>3. /\ told \in Seq(Told) /\ Len(told) > 0
      /\ w.key \in Key /\ w.value \in Value \union {Absent}
      /\ w.value \in Open(w.key)
      /\ Len(wal) \in 1..Len(wal)
      /\ Loads(Len(wal)) => wal[Len(wal)].key = w.key
  BY <1>1, <1>2, WriteUnderWay
<1>4. data' = [data EXCEPT ![w.key] = w.value]
  BY <1>1 DEF ApplyEntry, applyLocked, CurrentEntry
<1>5. \/ pc' = "save" /\ told' = told
      \/ pc' = "idle" /\ told' = ReturnsNil
  BY DEF ApplyEntry
<1>6. /\ told' \in Seq(Told) /\ synced' \in 0..Len(wal)
      /\ FragmentsAtEnd' /\ LogHasWrites'
  BY <1>2, <1>5, LogKept DEF InWrite
<1>7. /\ data' \in State /\ data'[w.key] = w.value
      /\ \A k \in Key : k # w.key => data'[k] = data[k]
  BY <1>2, <1>3, <1>4 DEF StoreType, State
<1>8. StoreType'
  BY <1>2, <1>5, <1>6, <1>7 DEF StoreType
<1>9. SnapInLog'
  BY <1>2 DEF SnapInLog, Loads
<1>10. DataInLog'
  <2> SUFFICES ASSUME Loads(Len(wal)), NEW k \in Key, data'[k] # Absent
               PROVE  \E p \in 1..Len(wal) : wal[p].key = k
    BY <1>2 DEF DataInLog, Loads
  <2>1. CASE k = w.key
    BY <1>3, <2>1
  <2>2. CASE k # w.key
    BY <1>2, <1>7, <2>2 DEF DataInLog, Running
  <2> QED BY <2>1, <2>2
<1>11. DataOpen'
  <2>1. CASE pc' = "save" /\ told' = told
    <3>1. \A k \in Key : Open(k)' = Open(k)
      BY <2>1, OpenSame
    <3>2. \A k \in Key : data'[k] \in Open(k)
      BY <1>2, <1>3, <1>7 DEF DataOpen, Running
    <3> QED BY <1>1, <1>7, <2>1, <3>1, <3>2 DEF DataOpen
  <2>2. CASE pc' = "idle" /\ told' = ReturnsNil
    <3>1. /\ Open(w.key)' = {w.value}
          /\ \A m \in Key : m # w.key => Open(m)' = Open(m)
      BY <1>1, <1>3, <2>2, OpenConfirm
    <3>2. \A k \in Key : data'[k] \in Open(k)'
      BY <1>2, <1>7, <3>1 DEF DataOpen, Running
    <3> QED BY <2>2, <3>2 DEF DataOpen
  <2> QED BY <1>5, <2>1, <2>2
<1> QED BY <1>6, <1>8, <1>9, <1>10, <1>11 DEF StoreInv

\* The snapshot written to its temporary file
LEMMA StoreWriteTmp ==
    ASSUME StoreInv, WriteTmp
    PROVE  StoreInv'
<1>1. /\ pc = "save" /\ pc' \in {"rename", "idle"}
      /\ UNCHANGED <<data, wal, synced, snap, told>>
      /\ StoreType /\ SnapInLog /\ DataInLog /\ DataOpen /\ synced = Len(wal)
  BY DEF WriteTmp, StoreInv, FragmentsAtEnd
<1>2. /\ told' \in Seq(Told) /\ synced' \in 0..Len(wal)
      /\ FragmentsAtEnd' /\ LogHasWrites'
  BY <1>1, LogKept DEF InWrite
<1>3. StoreType' /\ SnapInLog' /\ DataInLog'
  BY <1>1 DEF StoreType, SnapInLog, DataInLog, Running, Loads
<1>4. DataOpen'
  BY <1>1, OpenSame DEF DataOpen, Running
<1> QED BY <1>2, <1>3, <1>4 DEF StoreInv

\* The map of a running process has no key the synced log lacks, so the
\* snapshot has none.
LEMMA StoreRename ==
    ASSUME StoreInv, Rename
    PROVE  StoreInv'
<1>1. PICK w : w = told[Len(told)]
  OBVIOUS
<1>2. /\ pc = "rename" /\ pc' = "idle" /\ InWrite /\ UNCHANGED <<data, wal, synced>>
      /\ \/ snap' = data /\ told' = ReturnsNil
         \/ snap' = snap /\ told' = told
      /\ StoreType /\ SnapInLog /\ DataInLog /\ DataOpen /\ synced = Len(wal)
  BY DEF Rename, StoreInv, InWrite, FragmentsAtEnd
<1>3. /\ told \in Seq(Told) /\ Len(told) > 0
      /\ w.key \in Key /\ w.value \in Value \union {Absent}
  BY <1>1, <1>2, WriteUnderWay
<1>4. /\ told' \in Seq(Told) /\ synced' \in 0..Len(wal)
      /\ FragmentsAtEnd' /\ LogHasWrites'
  BY <1>2, LogKept DEF InWrite
<1>5. StoreType'
  BY <1>2, <1>4 DEF StoreType
<1>6. SnapInLog' /\ DataInLog'
  BY <1>2 DEF SnapInLog, DataInLog, Running, Loads
<1>7. DataOpen'
  <2>1. CASE told' = told
    BY <1>2, <2>1, OpenSame DEF DataOpen, Running
  <2>2. CASE told' = ReturnsNil
    <3>1. /\ Open(w.key)' = {w.value}
          /\ \A m \in Key : m # w.key => Open(m)' = Open(m)
      BY <1>1, <1>3, <2>2, OpenConfirm
    <3>2. data[w.key] = w.value
      BY <1>1, <1>2 DEF DataOpen
    <3>3. \A k \in Key : data[k] \in Open(k)'
      BY <1>2, <3>1, <3>2 DEF DataOpen, Running
    <3> QED BY <1>2, <3>3 DEF DataOpen
  <2> QED BY <1>2, <2>1, <2>2
<1> QED BY <1>4, <1>5, <1>6, <1>7 DEF StoreInv

\* A kill loses memory and keeps the files.
LEMMA StoreKill ==
    ASSUME StoreInv, Kill
    PROVE  StoreInv'
<1>1. /\ pc' = "down" /\ data' = Empty /\ UNCHANGED <<wal, synced, snap, told>>
      /\ StoreType /\ SnapInLog
  BY DEF Kill, StoreInv
<1>2. /\ told' \in Seq(Told) /\ synced' \in 0..Len(wal)
      /\ FragmentsAtEnd' /\ LogHasWrites'
  BY <1>1, LogKept DEF InWrite
<1>3. Empty \in State
  BY DEF Empty, State
<1>4. StoreType' /\ SnapInLog' /\ DataInLog' /\ DataOpen'
  BY <1>1, <1>3 DEF StoreType, SnapInLog, DataInLog, DataOpen, Running, Loads
<1> QED BY <1>2, <1>4 DEF StoreInv

\* The file has its first n lines, and perhaps a part of the next one.
Torn(w, lines, n) ==
    /\ w \in Seq(Line) /\ Len(w) \in Nat
    /\ \A p \in 1..n : w[p] = lines[p]
    /\ \/ Len(w) = n
       \/ Len(w) = n + 1 /\ n < Len(lines) /\ w[n + 1] = Fragment

\* A power loss keeps what was synced of the log, and may tear the rest.
LEMMA PowerLossTears ==
    ASSUME NEW lines \in Seq(Line), NEW n \in 0..Len(lines), NEW w,
           \/ w = SubSeq(lines, 1, n)
           \/ n < Len(lines) /\ w = Append(SubSeq(lines, 1, n), Fragment)
    PROVE  Torn(w, lines, n)
<1> DEFINE f == SubSeq(lines, 1, n)
<1>1. Len(lines) \in Nat /\ \A p \in 1..Len(lines) : lines[p] \in Line
  BY LenProperties, ElementOfSeq
<1>2. \A p \in 1..n : lines[p] \in Line
  BY <1>1
<1>3. n \in Int /\ 1 \in Int /\ n - 1 + 1 = n /\ n \in Nat
  BY <1>1
<1>4. f \in Seq(Line) /\ Len(f) = n /\ \A p \in 1..n : f[p] = lines[p]
  BY <1>1, <1>2, <1>3, SubSeqProperties
<1> HIDE DEF f
<1>5. CASE w = f
  BY <1>3, <1>4, <1>5 DEF Torn
<1>6. CASE n < Len(lines) /\ w = Append(f, Fragment)
  <2>1. Fragment \in Line
    BY DEF Line
  <2>2. /\ w \in Seq(Line) /\ Len(w) = n + 1 /\ w[n + 1] = Fragment
        /\ \A p \in 1..n : w[p] = f[p]
    BY <1>4, <1>6, <2>1, AppendProperties
  <2> QED BY <1>3, <1>4, <1>6, <2>2 DEF Torn
<1> QED BY <1>5, <1>6 DEF f

\* Sync covers every confirmed write, so what the machine loses is open.
LEMMA StorePowerLoss ==
    ASSUME StoreInv, PowerLoss
    PROVE  StoreInv'
<1>1. /\ pc' = "down" /\ data' = Empty /\ UNCHANGED <<synced, told>>
      /\ snap' \in {snap, Empty}
      /\ StoreType /\ SnapInLog /\ FragmentsAtEnd /\ LogHasWrites
  BY DEF PowerLoss, StoreInv, NoSnapshot
<1>2. /\ wal \in Seq(Line) /\ synced \in 0..Len(wal) /\ Len(wal) \in Nat
  BY <1>1, LenProperties DEF StoreType
<1>3. PICK n \in synced..Len(wal) :
         \/ wal' = SubSeq(wal, 1, n)
         \/ n < Len(wal) /\ wal' = Append(SubSeq(wal, 1, n), Fragment)
  BY DEF PowerLoss
<1>4. n \in 0..Len(wal)
  BY <1>2
<1>5. Torn(wal', wal, n)
  BY <1>2, <1>3, <1>4, PowerLossTears
<1>6. /\ wal' \in Seq(Line) /\ Len(wal') \in Nat
      /\ n \in Nat /\ synced \in Nat /\ synced <= n /\ n <= Len(wal')
      /\ Len(wal') <= Len(wal) /\ Len(wal') <= n + 1
      /\ \A p \in 1..n : wal'[p] = wal[p]
      /\ \A p \in 1..Len(wal') : p > n => wal'[p] = Fragment /\ n < Len(wal)
  BY <1>2, <1>4, <1>5 DEF Torn
<1>7. Empty \in State /\ \A k \in Key : Empty[k] = Absent
  BY DEF Empty, State
<1>8. StoreType'
  BY <1>1, <1>6, <1>7 DEF StoreType
<1>9. FragmentsAtEnd'
  <2>1. ASSUME NEW p \in 1..Len(wal'), p < Len(wal') \/ p <= synced
        PROVE  wal'[p] # Fragment
    <3>1. p \in 1..n /\ p \in 1..Len(wal) /\ (p < Len(wal) \/ p <= synced)
      BY <1>2, <1>6, <2>1
    <3> QED BY <1>1, <1>6, <3>1 DEF FragmentsAtEnd
  <2> QED BY <1>1, <2>1 DEF FragmentsAtEnd, InWrite
<1>10. LogHasWrites'
  <2>1. PICK src : IsSource(src)
    BY <1>1 DEF LogHasWrites
  <2>2. PICK g : g = [p \in 1..Len(wal') |-> src[p]]
    BY Zenon
  <2>3. \A p \in 1..Len(wal') : p \in 1..Len(wal)
    BY <1>2, <1>6
  <2>4. g \in [1..Len(wal') -> 1..Len(told)]
    BY <2>1, <2>2, <2>3 DEF IsSource
  <2>5. \A p, q \in 1..Len(wal') : p < q => g[p] < g[q]
    BY <2>1, <2>2, <2>3 DEF IsSource
  <2>6. ASSUME NEW p \in 1..Len(wal'), wal'[p] \in Entry
        PROVE  told[g[p]].key = wal'[p].key /\ told[g[p]].value = wal'[p].value
    <3>1. Fragment \notin Entry
      BY StoreAssumption DEF Entry
    <3>2. p \in 1..n
      BY <1>6, <2>6, <3>1
    <3> QED BY <1>6, <2>1, <2>2, <2>3, <2>6, <3>2 DEF IsSource
  <2>7. ASSUME NEW j \in 1..Len(told), told[j].ok
        PROVE  \E p \in 1..synced : g[p] = j
    <3>1. PICK p \in 1..synced : src[p] = j
      BY <2>1, <2>7 DEF IsSource
    <3>2. p \in 1..Len(wal')
      BY <1>6
    <3> QED BY <2>2, <3>1, <3>2
  <2>8. IsSource(g)'
    BY <1>1, <2>4, <2>5, <2>6, <2>7 DEF IsSource, InWrite
  <2> QED BY <2>8 DEF LogHasWrites
<1>11. SnapInLog'
  <2> SUFFICES ASSUME Loads(synced)', NEW k \in Key, snap'[k] # Absent
               PROVE  \E p \in 1..synced : wal'[p].key = k
    BY <1>1 DEF SnapInLog
  <2>1. \A p \in 1..synced : p \in 1..n /\ wal'[p] = wal[p]
    BY <1>6
  <2>2. Loads(synced)
    BY <1>1, <2>1 DEF Loads
  <2>3. snap' = snap
    BY <1>1, <1>7
  <2> QED BY <1>1, <2>1, <2>2, <2>3 DEF SnapInLog
<1>12. DataInLog' /\ DataOpen'
  BY <1>1, Zenon DEF DataInLog, DataOpen, Running
<1> QED BY <1>8, <1>9, <1>10, <1>11, <1>12 DEF StoreInv

\* A restart reads, of every key, a write that is open.
LEMMA RestartReads ==
    ASSUME StoreInv, CanLoad(wal)
    PROVE  /\ Restored(snap, wal) \in State
           /\ Loads(Len(wal))
           /\ \A k \in Key : Restored(snap, wal)[k] \in Open(k)
           /\ \A k \in Key : Restored(snap, wal)[k] # Absent =>
                \E p \in 1..Len(wal) : wal[p].key = k
<1> DEFINE r == Restored(snap, wal)
<1>1. /\ wal \in Seq(Line) /\ snap \in State /\ synced \in 0..Len(wal)
      /\ Len(wal) \in Nat /\ DOMAIN wal = 1..Len(wal)
      /\ told \in Seq(Told) /\ DOMAIN told = 1..Len(told) /\ Len(told) \in Nat
      /\ SnapInLog /\ LogHasWrites
  BY LenProperties DEF StoreInv, StoreType
<1>2. Loads(Len(wal)) /\ \A p \in 1..Len(wal) : wal[p] \in Entry
  BY <1>1 DEF CanLoad, Loads
<1>3. wal \in Seq(Entry)
  BY <1>1, <1>2, SeqDef
<1>4. r \in State /\ \A k \in Key : Latest(snap, wal, Len(wal), k, r[k])
  BY <1>1, <1>3, RestoredIsLatest
<1> HIDE DEF r
<1>5. PICK src : IsSource(src)
  BY <1>1 DEF LogHasWrites
<1>6. \A p \in 1..synced : p \in 1..Len(wal)
  BY <1>1
<1>7. Loads(synced)
  BY <1>2, <1>6 DEF Loads
<1>8. ASSUME NEW j \in 1..Len(told), told[j].ok
      PROVE  \E p \in 1..Len(wal) : src[p] = j /\ wal[p].key = told[j].key
  <2>1. PICK p \in 1..synced : src[p] = j
    BY <1>5, <1>8 DEF IsSource
  <2>2. told[src[p]].key = wal[p].key
    BY <1>2, <1>5, <1>6 DEF IsSource
  <2> QED BY <1>6, <2>1, <2>2
<1>9. ASSUME NEW k \in Key
      PROVE  /\ r[k] \in Open(k)
             /\ r[k] # Absent => \E p \in 1..Len(wal) : wal[p].key = k
  <2>1. CASE r[k] = snap[k] /\ \A p \in 1..Len(wal) : wal[p].key # k
    <3>1. r[k] = Absent
      BY <1>1, <1>6, <1>7, <2>1 DEF SnapInLog
    <3>2. ~\E j \in DOMAIN told : told[j].key = k /\ told[j].ok
      BY <1>1, <1>8, <2>1
    <3>3. Absent \in Open(k)
      BY <3>2 DEF Open
    <3> QED BY <3>1, <3>3
  <2>2. CASE \E p \in 1..Len(wal) : /\ wal[p].key = k /\ wal[p].value = r[k]
                                   /\ \A q \in (p + 1)..Len(wal) : wal[q].key # k
    <3>1. PICK p \in 1..Len(wal) : /\ wal[p].key = k /\ wal[p].value = r[k]
                                   /\ \A q \in (p + 1)..Len(wal) : wal[q].key # k
      BY <2>2
    <3>2. /\ src[p] \in 1..Len(told)
          /\ told[src[p]].key = k /\ told[src[p]].value = r[k]
      BY <1>2, <1>5, <3>1 DEF IsSource
    <3>3. ASSUME NEW l \in (src[p] + 1)..Len(told), told[l].key = k, told[l].ok
          PROVE  FALSE
      <4>1. l \in 1..Len(told) /\ l > src[p]
        BY <1>1, <3>2
      <4>2. PICK q \in 1..Len(wal) : src[q] = l /\ wal[q].key = k
        BY <1>8, <3>3, <4>1
      <4>3. q # p
        BY <1>1, <3>2, <4>1, <4>2
      <4>4. ~(q < p)
        <5>1. q < p => src[q] < src[p]
          BY <1>5 DEF IsSource
        <5> QED BY <1>1, <3>2, <4>1, <4>2, <5>1
      <4>5. q \in (p + 1)..Len(wal)
        BY <1>1, <4>3, <4>4
      <4> QED BY <3>1, <4>2, <4>5
    <3>4. src[p] \in Candidates(k)
      BY <1>1, <3>2, <3>3 DEF Candidates
    <3>5. r[k] \in Open(k)
      BY <3>2, <3>4 DEF Open
    <3> QED BY <3>1, <3>5
  <2>3. Latest(snap, wal, Len(wal), k, r[k])
    BY <1>4
  <2> QED BY <2>1, <2>2, <2>3 DEF Latest
<1> QED BY <1>2, <1>4, <1>9 DEF r

\* The restart loads the snapshot and replays the log.
LEMMA StoreNewStoreFromDisk ==
    ASSUME StoreInv, NewStoreFromDisk
    PROVE  StoreInv'
<1>1. /\ pc = "down" /\ pc' \in {"idle", "failed"}
      /\ UNCHANGED <<wal, synced, snap, told>>
      /\ StoreType /\ SnapInLog
  BY DEF NewStoreFromDisk, StoreInv
<1>2. /\ told' \in Seq(Told) /\ synced' \in 0..Len(wal)
      /\ FragmentsAtEnd' /\ LogHasWrites'
  BY <1>1, LogKept DEF InWrite
<1>3. SnapInLog'
  BY <1>1 DEF SnapInLog, Loads
<1>4. CASE CanLoad(wal)
  <2>1. pc' = "idle" /\ data' = Restored(snap, wal)
    BY <1>4 DEF NewStoreFromDisk
  <2>2. /\ data' \in State
        /\ \A k \in Key : data'[k] \in Open(k)
        /\ \A k \in Key : data'[k] # Absent => \E p \in 1..Len(wal) : wal[p].key = k
    BY <1>4, <2>1, RestartReads
  <2>3. StoreType' /\ DataInLog'
    BY <1>1, <2>1, <2>2 DEF StoreType, DataInLog
  <2>4. DataOpen'
    BY <1>1, <2>1, <2>2, OpenSame DEF DataOpen
  <2> QED BY <1>2, <1>3, <2>3, <2>4 DEF StoreInv
<1>5. CASE ~CanLoad(wal)
  <2>1. pc' = "failed" /\ data' = data
    BY <1>5, Zenon DEF NewStoreFromDisk
  <2>2. StoreType' /\ DataInLog' /\ DataOpen'
    BY <1>1, <2>1 DEF StoreType, DataInLog, DataOpen, Running
  <2> QED BY <1>2, <1>3, <2>2 DEF StoreInv
<1> QED BY <1>4, <1>5

\* Every step of the store keeps the invariant.
LEMMA StoreNext == StoreInv /\ [Next]_vars => StoreInv'
<1> SUFFICES ASSUME StoreInv, [Next]_vars PROVE StoreInv'
  OBVIOUS
<1>1. CASE UNCHANGED vars
  <2>1. UNCHANGED <<data, pc, wal, synced, snap, told>> /\ StoreType /\ DataOpen
    BY <1>1 DEF vars, StoreInv
  <2>2. FragmentsAtEnd'
    BY <2>1 DEF StoreInv, FragmentsAtEnd, InWrite
  <2>3. LogHasWrites'
    BY <2>1, Zenon DEF StoreInv, LogHasWrites, IsSource, InWrite
  <2>4. StoreType' /\ SnapInLog' /\ DataInLog'
    BY <2>1 DEF StoreInv, StoreType, SnapInLog, DataInLog, Running, Loads
  <2>5. DataOpen'
    BY <2>1, OpenSame DEF DataOpen, Running
  <2> QED BY <2>2, <2>3, <2>4, <2>5 DEF StoreInv
<1> QED BY <1>1, StoreWrite, StoreSync, StoreApplyEntry, StoreWriteTmp, StoreRename,
           StoreKill, StorePowerLoss, StoreNewStoreFromDisk DEF Next

-----------------------------------------------------------------------------

\* The invariant holds throughout.
LEMMA InductiveStore == Spec => []StoreInv
<1>1. Init => StoreInv
  BY StoreInit
<1>2. StoreInv /\ [Next]_vars => StoreInv'
  BY StoreNext
<1> QED BY <1>1, <1>2, PTL DEF Spec

\* persistAndApplyLocked counts a write once, after its call of Upsert or Delete.
WritesCounted ==
    /\ writeCount \in Nat /\ Len(told) <= MaxWrites
    /\ writeCount <= Len(told)
    /\ pc \in {"sync", "apply"} => writeCount < Len(told)

\* A write is begun before it is counted.
LEMMA CountNext == StoreInv /\ WritesCounted /\ [Next]_vars => WritesCounted'
<1> SUFFICES ASSUME StoreInv, WritesCounted, [Next]_vars PROVE WritesCounted'
  OBVIOUS
<1>1. told \in Seq(Told) /\ Len(told) \in Nat
  BY LenProperties DEF StoreInv, StoreType
<1>2. MaxWrites \in Nat
  BY StoreAssumption
<1>3. CASE Write
  <2>1. PICK w \in Told : told' = Append(told, w)
    BY <1>3, Zenon DEF Write, Told, Entry
  <2>2. Len(told') = Len(told) + 1
    BY <1>1, <2>1, AppendProperties
  <2> QED BY <1>1, <1>2, <1>3, <2>2 DEF Write, WritesCounted
<1>4. CASE ApplyEntry
  <2>1. Len(told') = Len(told)
    BY <1>1, <1>4, ExceptSeq DEF ApplyEntry, ReturnsNil
  <2> QED BY <1>1, <1>2, <1>4, <2>1 DEF ApplyEntry, WritesCounted
<1>5. CASE Rename
  <2>1. Len(told') = Len(told)
    BY <1>1, <1>5, ExceptSeq DEF Rename, ReturnsNil
  <2> QED BY <1>1, <1>2, <1>5, <2>1 DEF Rename, WritesCounted
<1>6. CASE Sync \/ WriteTmp \/ Kill \/ PowerLoss \/ NewStoreFromDisk
  BY <1>1, <1>2, <1>6
  DEF Sync, WriteTmp, Kill, PowerLoss, NewStoreFromDisk, WritesCounted
<1>7. CASE UNCHANGED vars
  BY <1>7 DEF vars, WritesCounted
<1> QED BY <1>3, <1>4, <1>5, <1>6, <1>7 DEF Next

(***************************************************************************)
(* The store's fields, and its files, stay of their types through every    *)
(* failure and restart: every line of the log is an entry or one cut       *)
(* short, the synced part is a part of the log, and writeCount counts      *)
(* no more writes than there were.                                         *)
(***************************************************************************)
THEOREM StoreTypes == Spec => []TypeOK
<1>1. Init => WritesCounted
  BY StoreAssumption DEF Init, WritesCounted
<1>2. StoreInv /\ WritesCounted => TypeOK
  <2> SUFFICES ASSUME StoreInv, WritesCounted PROVE TypeOK
    OBVIOUS
  <2>1. StoreType /\ Len(told) \in Nat
    BY LenProperties DEF StoreInv, StoreType
  <2>2. \A k \in DOMAIN wal : wal[k] \in Line
    BY <2>1 DEF StoreType
  <2>3. \A k \in DOMAIN told : told[k].ok \in BOOLEAN
    <3>1. \A k \in DOMAIN told : told[k] \in Told
      BY <2>1 DEF StoreType
    <3>2. \A w \in Told : w.ok \in BOOLEAN
      BY Zenon DEF Told
    <3> QED BY <3>1, <3>2
  <2>4. writeCount \in 0..MaxWrites
    BY <2>1, StoreAssumption DEF WritesCounted
  <2> QED BY <2>1, <2>2, <2>3, <2>4 DEF StoreType, TypeOK, Line
<1> QED BY <1>1, <1>2, StoreInit, StoreNext, CountNext, PTL DEF Spec

(***************************************************************************)
(* What Upsert and Delete have confirmed is never lost and never undone,   *)
(* whatever fails and however often the process or the machine stops.      *)
(***************************************************************************)
THEOREM ConfirmedWritesSurvive == Spec => []AckedDurable
<1>1. ASSUME StoreInv PROVE AckedDurable
  <2> SUFFICES ASSUME pc = "idle", NEW k \in Key
               PROVE  \/ \E j \in Candidates(k) : data[k] = told[j].value
                      \/ data[k] = Absent /\ \A j \in Candidates(k) : ~told[j].ok
    BY Zenon DEF AckedDurable
  <2>1. data[k] \in Open(k)
    BY <1>1 DEF StoreInv, DataOpen, Running
  <2>2. \A j \in Candidates(k) : j \in DOMAIN told /\ told[j].key = k
    BY DEF Candidates
  <2> QED BY <2>1, <2>2 DEF Open
<1> QED BY <1>1, InductiveStore, PTL

(***************************************************************************)
(* The snapshot never has a write the synced log lacks: NewStoreFromDisk   *)
(* reads the same map without it.                                          *)
(***************************************************************************)
THEOREM SnapshotCanBeLost == Spec => []SnapshotRedundant
<1>1. ASSUME StoreInv PROVE SnapshotRedundant
  <2> DEFINE lines == SubSeq(wal, 1, synced)
  <2> SUFFICES ASSUME CanLoad(lines)
               PROVE  Restored(snap, lines) = Restored(NoSnapshot, lines)
    BY DEF SnapshotRedundant
  <2>1. /\ wal \in Seq(Line) /\ Len(wal) \in Nat /\ synced \in 0..Len(wal)
        /\ snap \in State /\ SnapInLog
        /\ \A p \in 1..Len(wal) : wal[p] \in Line
    BY <1>1, LenProperties, ElementOfSeq DEF StoreInv, StoreType
  <2>2. /\ synced \in Int /\ 1 \in Int /\ synced - 1 + 1 = synced
        /\ \A p \in 1..synced : wal[p] \in Line
    BY <2>1
  <2>3. /\ lines \in Seq(Line) /\ Len(lines) = synced /\ DOMAIN lines = 1..synced
        /\ \A p \in 1..synced : lines[p] = wal[p]
    BY <2>1, <2>2, SubSeqProperties, LenProperties
  <2> HIDE DEF lines
  <2>4. Loads(synced) /\ \A p \in 1..synced : lines[p] \in Entry
    BY <2>3 DEF CanLoad, Loads
  <2>5. lines \in Seq(Entry)
    BY <2>3, <2>4, SeqDef
  <2>6. Empty \in State /\ \A k \in Key : Empty[k] = Absent
    BY Zenon DEF Empty, State
  <2> DEFINE r == Restored(snap, lines)
             e == Restored(Empty, lines)
  <2>7. /\ r \in State /\ e \in State
        /\ \A k \in Key : /\ Latest(snap, lines, synced, k, r[k])
                          /\ Latest(Empty, lines, synced, k, e[k])
    BY <2>1, <2>3, <2>5, <2>6, RestoredIsLatest
  <2> HIDE DEF r, e
  <2>8. ASSUME NEW k \in Key PROVE r[k] = e[k]
    <3>1. CASE \A p \in 1..synced : lines[p].key # k
      <4>1. r[k] = snap[k] /\ e[k] = Absent
        BY <2>6, <2>7, <3>1 DEF Latest
      <4>2. snap[k] = Absent
        BY <2>1, <2>3, <2>4, <3>1 DEF SnapInLog
      <4> QED BY <4>1, <4>2
    <3>2. CASE \E p \in 1..synced : lines[p].key = k
      <4>1. PICK p \in 1..synced : /\ lines[p].key = k /\ lines[p].value = r[k]
                                   /\ \A l \in (p + 1)..synced : lines[l].key # k
        BY <2>7, <3>2 DEF Latest
      <4>2. PICK q \in 1..synced : /\ lines[q].key = k /\ lines[q].value = e[k]
                                   /\ \A l \in (q + 1)..synced : lines[l].key # k
        BY <2>7, <3>2 DEF Latest
      <4>3. p = q
        BY <2>1, <4>1, <4>2
      <4> QED BY <4>1, <4>2, <4>3, Zenon
    <3> QED BY <3>1, <3>2
  <2>9. r = e
    BY <2>7, <2>8 DEF State
  <2> QED BY <2>9 DEF r, e, NoSnapshot
<1> QED BY <1>1, InductiveStore, PTL

\* What the steps of a write, of a crash and of a restart are to the callers
LEMMA StepKeepsPromise ==
    ASSUME StoreInv, [Next]_vars
    PROVE  [Promise!Next]_(Promise!vars)
<1> DEFINE open == [k \in Key |-> Open(k)]
<1>1. data \in State /\ DataOpen /\ told \in Seq(Told)
  BY DEF StoreInv, StoreType
<1>2. ASSUME UNCHANGED data, UNCHANGED told, Running' <=> Running
      PROVE  UNCHANGED Promise!vars
  <2>1. open' = open
    BY <1>2, OpenSame
  <2>2. Running' = Running
    BY <1>2 DEF Running
  <2> QED BY <1>2, <2>1, <2>2 DEF Promise!vars
<1>3. ASSUME NEW k \in Key, NEW v \in Value \union {Absent},
             Promise!Begin(k, v) \/ Promise!Show(k, v) \/ Promise!Confirm(k, v)
      PROVE  Promise!Next
  BY <1>3 DEF Promise!Next
<1>4. CASE UNCHANGED vars
  BY <1>2, <1>4 DEF vars, Running
<1>5. CASE Write
  <2>1. PICK e \in Entry :
             told' = Append(told, [key |-> e.key, value |-> e.value, ok |-> FALSE])
    BY <1>5, Zenon DEF Write
  <2>2. e.key \in Key /\ e.value \in Value \union {Absent}
    BY DEF Entry
  <2>3. /\ Open(e.key)' = Open(e.key) \union {e.value}
        /\ \A m \in Key : m # e.key => Open(m)' = Open(m)
    BY <1>1, <2>1, <2>2, OpenBegin
  <2>4. open' = [open EXCEPT ![e.key] = @ \union {e.value}]
    BY <2>2, <2>3, Zenon
  <2>5. Running /\ (Running' = Running) /\ data' = data
    BY <1>5 DEF Write, Running
  <2>6. Promise!Begin(e.key, e.value)
    BY <2>4, <2>5 DEF Promise!Begin
  <2> QED BY <1>3, <2>2, <2>6
<1>6. CASE Sync \/ WriteTmp
  BY <1>2, <1>6 DEF Sync, WriteTmp, Running
<1>7. CASE ApplyEntry
  <2>1. PICK w : w = told[Len(told)]
    OBVIOUS
  <2>2. pc = "apply" /\ InWrite /\ Running /\ (Running' = Running)
    BY <1>7 DEF ApplyEntry, InWrite, Running
  <2>3. /\ Len(told) > 0 /\ w.key \in Key /\ w.value \in Value \union {Absent}
        /\ w.value \in Open(w.key)
    BY <2>1, <2>2, WriteUnderWay
  <2>4. data' = [data EXCEPT ![w.key] = w.value]
    BY <1>7, <2>1 DEF ApplyEntry, applyLocked, CurrentEntry
  <2>5. CASE told' = told
    <3>1. open' = open
      BY <2>5, OpenSame
    <3>2. Promise!Show(w.key, w.value)
      BY <2>2, <2>3, <2>4, <3>1 DEF Promise!Show
    <3> QED BY <1>3, <2>3, <3>2
  <2>6. CASE told' = ReturnsNil
    <3>1. /\ Open(w.key)' = {w.value}
          /\ \A m \in Key : m # w.key => Open(m)' = Open(m)
      BY <1>1, <2>1, <2>3, <2>6, OpenConfirm
    <3>2. open' = [open EXCEPT ![w.key] = {w.value}]
      BY <2>3, <3>1, Zenon
    <3>3. Promise!Confirm(w.key, w.value)
      BY <2>2, <2>3, <2>4, <3>2 DEF Promise!Confirm
    <3> QED BY <1>3, <2>3, <3>3
  <2> QED BY <1>7, <2>5, <2>6 DEF ApplyEntry
<1>8. CASE Rename
  <2>1. PICK w : w = told[Len(told)]
    OBVIOUS
  <2>2. pc = "rename" /\ InWrite /\ Running /\ (Running' = Running) /\ data' = data
    BY <1>8 DEF Rename, InWrite, Running
  <2>3. /\ Len(told) > 0 /\ w.key \in Key /\ w.value \in Value \union {Absent}
        /\ w.value \in Open(w.key)
    BY <2>1, <2>2, WriteUnderWay
  <2>4. CASE told' = told
    BY <1>2, <2>2, <2>4
  <2>5. CASE told' = ReturnsNil
    <3>1. /\ Open(w.key)' = {w.value}
          /\ \A m \in Key : m # w.key => Open(m)' = Open(m)
      BY <1>1, <2>1, <2>3, <2>5, OpenConfirm
    <3>2. open' = [open EXCEPT ![w.key] = {w.value}]
      BY <2>3, <3>1, Zenon
    <3>3. data[w.key] = w.value
      BY <1>1, <2>1, <2>2 DEF DataOpen
    <3>4. data' = [data EXCEPT ![w.key] = w.value]
      BY <1>1, <2>2, <2>3, <3>3 DEF State
    <3>5. Promise!Confirm(w.key, w.value)
      BY <2>2, <2>3, <3>2, <3>4, Zenon DEF Promise!Confirm
    <3> QED BY <1>3, <2>3, <3>5
  <2> QED BY <1>8, <2>4, <2>5 DEF Rename
<1>9. CASE Kill \/ PowerLoss
  <2>1. Running /\ Running' = FALSE /\ data' = Empty /\ told' = told
    BY <1>9 DEF Kill, PowerLoss, Running
  <2>2. open' = open
    BY <2>1, OpenSame
  <2>3. Promise!Crash
    BY <2>1, <2>2 DEF Promise!Crash, Promise!Empty, Empty
  <2> QED BY <2>3 DEF Promise!Next
<1>10. CASE NewStoreFromDisk
  <2>1. pc = "down" /\ ~Running /\ told' = told
    BY <1>10 DEF NewStoreFromDisk, Running
  <2>2. open' = open
    BY <2>1, OpenSame
  <2>3. CASE CanLoad(wal)
    <3>1. Running' = TRUE /\ data' = Restored(snap, wal)
      BY <1>10, <2>3 DEF NewStoreFromDisk, Running
    <3>2. data' \in State /\ \A k \in Key : data'[k] \in Open(k)
      BY <2>3, <3>1, RestartReads
    <3>3. Promise!Restart
      BY <2>1, <2>2, <3>1, <3>2 DEF Promise!Restart, State
    <3> QED BY <3>3 DEF Promise!Next
  <2>4. CASE ~CanLoad(wal)
    BY <1>2, <1>10, <2>1, <2>4 DEF NewStoreFromDisk, Running
  <2> QED BY <2>3, <2>4
<1> QED BY <1>4, <1>5, <1>6, <1>7, <1>8, <1>9, <1>10 DEF Next

(***************************************************************************)
(* The store on its files implements the durable map its callers see: a    *)
(* crash at any step of a write, a failed Write, Sync, WriteFile or Rename *)
(* and a lost snapshot are a crash, an open write or nothing to them.      *)
(***************************************************************************)
THEOREM StoreKeepsPromise == Spec => StoreIsDurableMap
<1>1. Init => Promise!Init
  <2> SUFFICES ASSUME Init PROVE Promise!Init
    OBVIOUS
  <2>1. told = <<>> /\ data = Empty /\ pc = "idle"
    BY DEF Init
  <2>2. \A k \in Key : Open(k) = {Absent}
    BY <2>1 DEF Open, Candidates
  <2>3. [k \in Key |-> Open(k)] = [k \in Key |-> {Absent}]
    BY <2>2
  <2>4. Running = TRUE
    BY <2>1 DEF Running
  <2> QED BY <2>1, <2>3, <2>4 DEF Promise!Init, Promise!Empty, Empty
<1>2. StoreInv /\ [Next]_vars => [Promise!Next]_(Promise!vars)
  BY StepKeepsPromise
<1> QED BY <1>1, <1>2, InductiveStore, PTL DEF Spec, StoreIsDurableMap, Promise!Spec
=============================================================================
