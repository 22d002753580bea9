----------------------------- MODULE MCClients -----------------------------
(***************************************************************************)
(* The programs outside the nodes, for TLC.  A behaviour is one of them    *)
(* with a cluster of its own, or the report or the hash alone; the         *)
(* variables of the others keep their first value.                         *)
(***************************************************************************)
EXTENDS Router, ElectionExperiment, CrashExperiment, LoadTest,
        GeoExperiment, GeoReport, Hashing

CONSTANTS n1, n2, n3

VARIABLE program        \* the one that runs

MCNode == {n1, n2, n3}
MCAddrs == <<n1, n2>>
MCUsers == {<<"ShardedUser", "RaftUser">>, <<"ElectionUser">>}

MCnodes == <<n1, n2, n3>>

\* bound: the terms that elections may reach.  In the second round of the
\* election experiment there is one only while the script waits for it.
TermsOf ==
    [router |-> 2, load |-> 2, geo |-> 2, crash |-> 3,
     election |-> IF exp.round = 2 /\ exp.pc = "wait" THEN 3 ELSE 2]

\* n1 has been elected by all, in term 1.
LedClusterInit ==
    /\ up = Node
    /\ currentTerm = [i \in Node |-> 1]
    /\ log = [i \in Node |-> <<>>]
    /\ leaders = {n1}
    /\ committed = {}
    /\ lastApplied = [i \in Node |-> 0]
    /\ data = [i \in Node |-> [k \in Key |-> 0]]
    /\ forgotten = [writes |-> {}, term |-> 0]

ClientsInit ==
    /\ program \in {"router", "election", "crash", "load", "geo", "report", "hash"}
    /\ LedClusterInit /\ RouterInit /\ ElectionInit /\ CrashInit /\ LoadInit
    /\ GeoInit /\ ReportInit /\ HashInit
    /\ program # "load" => class = <<"ShardedUser", "RaftUser">>

notRouter == <<electionVars, crash, loadVars, geoVars, rows, hash>>
notElection == <<routerVars, crash, loadVars, geoVars, rows, hash>>
notCrash == <<routerVars, electionVars, loadVars, geoVars, rows, hash>>
notLoad == <<routerVars, electionVars, crash, geoVars, rows, hash>>
notGeo == <<routerVars, electionVars, crash, loadVars, rows, hash>>
notReport == <<clusterVars, routerVars, electionVars, crash, loadVars, geoVars, hash>>
notHash == <<clusterVars, routerVars, electionVars, crash, loadVars, geoVars, rows>>

\* bound: the cluster rests when the script has ended.  It also rests while the
\* election experiment has AWS start an instance or sleeps: these steps read
\* nothing of the cluster, whose own steps may come before or after them.
Resting ==
    \/ exp.pc \in {"start", "ip", "sleep"}
    \/ "done" \in {exp.pc, crash.pc, geo.pc}

ClientsNext ==
    /\ UNCHANGED program
    /\ \/ /\ program \in DOMAIN TermsOf /\ ~Resting
          /\ ClusterNext
          /\ LET last == TermsOf[program]
             IN  \A i \in Node :
                   currentTerm'[i] > last => currentTerm'[i] \in Range(currentTerm)
          /\ UNCHANGED <<routerVars, electionVars, crash, loadVars, geoVars, rows, hash>>
       \/ program = "router" /\ RouterNext /\ UNCHANGED notRouter
       \/ program = "election" /\ ElectionNext /\ UNCHANGED notElection
       \/ program = "crash" /\ CrashNext /\ UNCHANGED notCrash
       \/ program = "load" /\ LoadNext /\ UNCHANGED notLoad
       \/ program = "geo" /\ GeoNext /\ UNCHANGED notGeo
       \/ program = "report" /\ AnyRound /\ UNCHANGED notReport
       \/ program = "hash" /\ NextByte /\ UNCHANGED notHash

clientsVars ==
    <<program, clusterVars, routerVars, electionVars, crash, loadVars, geoVars,
      rows, hash>>

ClientsSpec == ClientsInit /\ [][ClientsNext]_clientsVars
=============================================================================
