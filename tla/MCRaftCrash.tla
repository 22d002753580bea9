---------------------------- MODULE MCRaftCrash ----------------------------
(***************************************************************************)
(* RaftCrash on small clusters, from the state after one uneventful        *)
(* election that MCRaft starts from.                                       *)
(***************************************************************************)
EXTENDS RaftCrash, TLC

CONSTANT first

MC == INSTANCE MCRaft

LedSymmetry == Permutations(Server \ {first}) \union Permutations(Cmd)

LedCrashInit == MC!LedInit /\ restarts = 0

LedCrashSpec == LedCrashInit /\ [][CrashNext]_crashVars

\* The first leader's heartbeats are scheduled, as in MCRaft.
LedCrashFairSpec == LedCrashSpec /\ HeartbeatFairness(first)
=============================================================================
