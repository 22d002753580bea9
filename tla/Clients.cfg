SPECIFICATION ClientsSpec
CONSTANTS
  n1 = n1
  n2 = n2
  n3 = n3
  Node <- MCNode
  None = None
  Key = {1, 2, 3, 4}
  MaxTerm = 3
  Addrs <- MCAddrs
  MaxCalls = 2
  MaxLate = 1
  ROUNDS = 2
  MaxWrites = 1
  CrashRounds = 2
  Users <- MCUsers
  Host = n1
  MAX_TRACKED_KEYS = 1
  nodes <- MCnodes
  LoadKeys = {1, 2}
  RouterKeys = {1}
  GeoRounds = 2
  Replicas = 3
  Latency = {1, 2, 4}
  MaxRows = 3
  Width = 8
  IntWidth = 16
  FNV_OFFSET = 197
  FNV_PRIME = 147
  Byte = {48, 49, 57, 107}
  MaxKey = 4
  Shards = {1, 2, 3}
 
INVARIANT OneLeaderUnlessForgotten
 
 
 
INVARIANT NewTermHigher
 
 
INVARIANT OthersReachable
INVARIANT RoundsRestart
 
INVARIANT ConvergedIsVisible
 
 
 
CHECK_DEADLOCK FALSE
