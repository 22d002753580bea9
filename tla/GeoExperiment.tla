--------------------------- MODULE GeoExperiment ---------------------------
(***************************************************************************)
(* geo_colocated/experiment.py and its copy in geo_distributed: a round    *)
(* writes a new key at the leader, reads it once at every node, then reads *)
(* it everywhere again and again until a pass has seen it at all of them.  *)
(* Any request may fail.                                                   *)
(***************************************************************************)
EXTENDS Cluster, SequencesExt

CONSTANTS
    nodes,              \* args.nodes: the nodes in the order they are read
    GeoRounds

VARIABLES
    geo,                \* the position of main and its local variables
    results             \* results[r]: the status and the convergence of round r

geoVars == <<geo, results>>

AtRound(pc) ==
    [pc |-> pc, leader |-> None, code |-> 0, i |-> 1, all_visible |-> TRUE]

GeoInit ==
    /\ geo = AtRound("find")
    /\ results = <<>>

\* The key and the value of a round are its own.
round_num == Len(results) + 1

EndOfRound(code, converged) ==
    /\ results' = Append(results, [code |-> code, converged |-> converged])
    /\ geo' = AtRound(IF round_num < GeoRounds THEN "find" ELSE "done")

geo_find_leader ==
    /\ geo.pc = "find"
    /\ \/ /\ \E n \in leaders : geo' = [geo EXCEPT !.pc = "put", !.leader = n]
          /\ UNCHANGED results
       \/ EndOfRound(0, FALSE)
    /\ UNCHANGED clusterVars

\* The code is 0 for None: the answer misses the timeout, which is no longer
\* than Replicate's own, or the request does not arrive.
put_key ==
    /\ geo.pc = "put"
    /\ \E code \in {0, 200, 503} :
         /\ geo' = [AtRound("poll") EXCEPT !.code = code]
         /\ \/ \E c \in {200, 503} :
                 /\ handleWrite(geo.leader, [id |-> round_num, key |-> round_num,
                                             op |-> "upsert"], c)
                 /\ code \in {0, c}
            \/ code = 0 /\ UNCHANGED clusterVars
    /\ UNCHANGED results

\* The request may fail; otherwise the value is compared.
get_key(n, got) == got => handleGet(n, round_num) = round_num

\* Mutant: the node asked last decides.
PollLast ==
    /\ geo.pc = "poll" /\ geo.i <= Len(nodes)
    /\ \E got \in BOOLEAN :
         /\ get_key(nodes[geo.i], got)
         /\ geo' = [geo EXCEPT !.i = @ + 1, !.all_visible = got]
    /\ UNCHANGED <<clusterVars, results>>

\* A pass of wait_until_all_visible asks the next node.
Poll ==
    /\ geo.pc = "poll" /\ geo.i <= Len(nodes)
    /\ \E got \in BOOLEAN :
         /\ get_key(nodes[geo.i], got)
         /\ geo' = [geo EXCEPT !.i = @ + 1, !.all_visible = @ /\ got]
    /\ UNCHANGED <<clusterVars, results>>

\* After a pass: all visible, the deadline, or another pass
wait_until_all_visible ==
    /\ geo.pc = "poll" /\ geo.i > Len(nodes)
    /\ \/ EndOfRound(geo.code, geo.all_visible)
       \/ /\ ~geo.all_visible
          /\ geo' = [geo EXCEPT !.i = 1, !.all_visible = TRUE]
          /\ UNCHANGED results
    /\ UNCHANGED clusterVars

GeoNext == geo_find_leader \/ put_key \/ Poll \/ wait_until_all_visible

-----------------------------------------------------------------------------

(***************************************************************************)
(* Where a convergence time was noted, every node has the value, although  *)
(* the nodes were not read at the same time and leaders may have changed   *)
(* in between: what a node has shown it keeps.  This holds for a write     *)
(* that timed out or got a 503 too.                                        *)
(***************************************************************************)
ConvergedIsVisible ==
    \A r \in DOMAIN results :
      results[r].converged => \A n \in Node : handleGet(n, r) = r
=============================================================================
