----------------------------- MODULE GeoReport -----------------------------
(***************************************************************************)
(* The numbers of the geo experiments on their way: the rows of            *)
(* geo_colocated/experiment.py (geo_distributed has the same file), the    *)
(* CSV file, and the summary compare_geo_results.py makes of it.  A Python *)
(* value is its type and a number; a cell of the file is empty or holds a  *)
(* number.  Floats are integers here, so that what rounding does is left   *)
(* out, and percentiles come a hundredfold.                                *)
(***************************************************************************)
EXTENDS Integers, FiniteSets, SequencesExt, TLC

CONSTANTS
    Replicas,           \* the number of nodes asked
    Latency,            \* the latencies a request may take
    MaxRows             \* bound: rounds

VARIABLE rows           \* the rows of the rounds so far

PyNone == [type |-> "none", v |-> 0]
PyStr == [type |-> "str", v |-> 0]      \* the empty string
PyInt(n) == [type |-> "int", v |-> n]
PyFloat(n) == [type |-> "float", v |-> n]

NoLeaderRow ==
    [write_status |-> PyStr, write_latency_ms |-> PyStr,
     immediate_stale_reads |-> PyStr, replica_count |-> PyInt(Replicas),
     convergence_ms |-> PyStr]

RoundRow(code, latency, stale, convergence) ==
    [write_status |-> code, write_latency_ms |-> PyFloat(latency),
     immediate_stale_reads |-> PyInt(stale), replica_count |-> PyInt(Replicas),
     convergence_ms |-> convergence]

\* The rows that rounds may leave: no leader, a write that was not
\* acknowledged, one that was
RowOf ==
    {NoLeaderRow}
    \union {RoundRow(code, l, Replicas, PyNone) :
              code \in {PyNone, PyInt(503)}, l \in Latency}
    \union {RoundRow(PyInt(200), l, s, conv) :
              l \in Latency, s \in {0, Replicas - 1}, conv \in {PyNone, PyFloat(1)}}

ReportInit == rows = <<>>

AnyRound ==
    /\ Len(rows) < MaxRows
    /\ \E r \in RowOf : rows' = Append(rows, r)

-----------------------------------------------------------------------------
(* the experiment's own summary, and its file *)

\* statistics.median, of values in order
median(s) ==
    LET m == Len(s) \div 2
    IN  IF Len(s) % 2 = 1 THEN 100 * s[m + 1] ELSE 50 * (s[m] + s[m + 1])

SumOf(s) == FoldSeq(LAMBDA a, b : a + b, 0, s)

\* sum(row[field] for row in rows if isinstance(row[field], int))
IntTotal(rs, field) ==
    SumOf([k \in DOMAIN rs |->
             IF rs[k][field].type = "int" THEN rs[k][field].v ELSE 0])

\* csv.DictWriter: None and the empty string leave the same cell.
Cells(r) ==
    [f \in DOMAIN r |-> IF r[f].type \in {"none", "str"} THEN <<>> ELSE <<r[f].v>>]

csv == [k \in DOMAIN rows |-> Cells(rows[k])]

-----------------------------------------------------------------------------
(* compare_geo_results.py *)

\* The read latencies take the way of the write latencies and are left out.
NUMERIC_FIELDS ==
    {"write_latency_ms", "convergence_ms", "immediate_stale_reads", "replica_count"}

to_float(cell) == IF cell = <<>> THEN PyNone ELSE PyFloat(cell[1])

load_rows ==
    [k \in DOMAIN csv |->
       [f \in NUMERIC_FIELDS |-> to_float(csv[k][f])]
         @@ [write_status |-> csv[k].write_status]]

values(rs, field) ==
    LET ok == SelectSeq(rs, LAMBDA r : r[field].type = "float")
    IN  [k \in DOMAIN ok |-> ok[k][field].v]

\* Mutant: the weights of the two neighbours the other way round.
percentileSwapped(s, pct) ==
    LET rank == (Len(s) - 1) * pct
        lower == rank \div 100
        upper == IF lower + 1 < Len(s) THEN lower + 1 ELSE Len(s) - 1
        weight == rank % 100
    IN  s[lower + 1] * weight + s[upper + 1] * (100 - weight)

\* Indices count from 0 in Python.
percentile(s, pct) ==
    LET rank == (Len(s) - 1) * pct
        lower == rank \div 100
        upper == IF lower + 1 < Len(s) THEN lower + 1 ELSE Len(s) - 1
        weight == rank % 100
    IN  s[lower + 1] * (100 - weight) + s[upper + 1] * weight

summarize_latency(rs, field) ==
    LET vals == SortSeq(values(rs, field), <)
    IN  IF vals = <<>> THEN [count |-> 0]
        ELSE [count |-> Len(vals), p50 |-> percentile(vals, 50),
              p95 |-> percentile(vals, 95), min |-> vals[1], max |-> vals[Len(vals)]]

summarize_staleness(rs) ==
    [stale_total |-> SumOf(values(rs, "immediate_stale_reads")),
     read_total |-> SumOf(values(rs, "replica_count"))]

\* Mutant: the status compared with numbers only, while the file has text.
successful_none(rs) == SelectSeq(rs, LAMBDA r : FALSE)

successful_rounds(rs) == SelectSeq(rs, LAMBDA r : r.write_status = <<200>>)

build_summary ==
    LET ok == successful_rounds(load_rows)
    IN  [successful_rows |-> Len(ok),
         write |-> summarize_latency(ok, "write_latency_ms"),
         convergence |-> summarize_latency(ok, "convergence_ms"),
         staleness |-> summarize_staleness(ok)]

-----------------------------------------------------------------------------

Acked == SelectSeq(rows, LAMBDA r : r.write_status = PyInt(200))

(***************************************************************************)
(* The report is about the acknowledged rounds of the experiment, all of   *)
(* them and no other: rows without a leader, with a failed write or with   *)
(* a convergence that timed out neither get lost on the way through the    *)
(* file nor add a latency or a read.                                       *)
(***************************************************************************)
ReportIsOfAckedRounds ==
    rows # <<>> =>
      LET s == build_summary
      IN  /\ s.successful_rows = Len(Acked) /\ s.write.count = Len(Acked)
          /\ s.convergence.count =
               Cardinality({k \in DOMAIN Acked : Acked[k].convergence_ms # PyNone})
          /\ s.staleness = [stale_total |-> IntTotal(Acked, "immediate_stale_reads"),
                            read_total |-> IntTotal(Acked, "replica_count")]

(***************************************************************************)
(* The two scripts agree on the median, which the experiment takes from    *)
(* the statistics module and the report from its own interpolation; the    *)
(* percentiles are in order, between the least and the greatest value.     *)
(***************************************************************************)
PercentilesInOrder ==
    Acked # <<>> =>
      LET w == build_summary.write
      IN  /\ w.p50 = median(SortSeq(values(successful_rounds(load_rows),
                                           "write_latency_ms"), <))
          /\ 100 * w.min <= w.p50 /\ w.p50 <= w.p95 /\ w.p95 <= 100 * w.max
=============================================================================
