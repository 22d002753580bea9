------------------------------- MODULE Router -------------------------------
(***************************************************************************)
(* shard.Router in front of one shard: a client that makes one call after  *)
(* the other (cmd/client), each call trying the shard's addresses in order *)
(* with a timeout of its own.  A request given up on may be lost, may have *)
(* been handled, or may be handled later: the node does not know that      *)
(* nobody waits any more.                                                  *)
(***************************************************************************)
EXTENDS Cluster

CONSTANTS
    Addrs,              \* the addresses of the shard, in the router's order
    RouterKeys,         \* the keys of the calls
    MaxCalls,           \* bound: calls in a behaviour
    MaxLate             \* bound: requests given up on that wait for their node

ASSUME RouterAssumption ==
    /\ Addrs \in Seq(Node) /\ Addrs # <<>>
    /\ RouterKeys \subseteq Key
    /\ MaxCalls \in Nat /\ MaxLate \in Nat

VARIABLES
    call,               \* the call under way, its address and the answer
    late,               \* requests given up on that are not handled yet
    returned            \* history: the calls that have returned

routerVars == <<call, late, returned>>

NoCall == [st |-> "idle"]

RouterInit ==
    /\ call = NoCall
    /\ late = {}
    /\ returned = <<>>

\* Put, Delete or Get is called: the first address is tried.  The first call
\* is a Put (a bound: on an empty store the others leave nothing behind).
Begin ==
    /\ call.st = "idle"
    /\ Len(returned) < MaxCalls
    /\ \E k \in RouterKeys,
          op \in IF returned = <<>> THEN {"upsert"} ELSE {"upsert", "delete", "get"} :
         call' = [st |-> "sent", i |-> 1, answer |-> 0, abandoned |-> FALSE,
                  cmd |-> [id |-> Len(returned) + 1, key |-> k, op |-> op]]
    /\ UNCHANGED <<clusterVars, late, returned>>

\* The node at the address handles the request.
Handle ==
    /\ call.st = "sent"
    /\ IF call.cmd.op = "get"
         THEN /\ Addrs[call.i] \in up
              /\ call' = [call EXCEPT !.st = "answered",
                            !.answer = handleGet(Addrs[call.i], call.cmd.key)]
              /\ UNCHANGED clusterVars
         ELSE \E code \in {200, 503} :
                /\ handleWrite(Addrs[call.i], call.cmd, code)
                /\ call' = [call EXCEPT !.st = "answered", !.answer = code]
    /\ UNCHANGED <<late, returned>>

HandleLate(r) ==
    /\ \E code \in {200, 503} : handleWrite(r.node, r.cmd, code)
    /\ late' = late \ {r}
    /\ UNCHANGED <<call, returned>>

\* The call returns with no error; a Get with what the node said.
Return ==
    /\ call' = NoCall
    /\ returned' = Append(returned, [cmd |-> call.cmd, ok |-> TRUE,
                                     res |-> call.answer,
                                     abandoned |-> call.abandoned])

\* The next address, or the error that no node took the call
TryNext(abandoned) ==
    IF call.i < Len(Addrs)
      THEN /\ call' = [call EXCEPT !.st = "sent", !.i = @ + 1,
                                   !.abandoned = @ \/ abandoned]
           /\ UNCHANGED returned
      ELSE /\ call' = NoCall
           /\ returned' = Append(returned, [cmd |-> call.cmd, ok |-> FALSE, res |-> 0,
                                   abandoned |-> call.abandoned \/ abandoned])

\* The answer arrives: Get returns a value or "not found", whichever the
\* node says; Put and Delete return on 200 and go on otherwise.
Receive ==
    /\ call.st = "answered"
    /\ IF call.cmd.op = "get" \/ call.answer = 200
         THEN Return
         ELSE TryNext(FALSE)
    /\ UNCHANGED <<clusterVars, late>>

\* The client's timeout, or a connection that fails
Timeout ==
    /\ call.st \in {"sent", "answered"}
    /\ LET unhandled == call.st = "sent" /\ call.cmd.op # "get"
           r == [node |-> Addrs[call.i], cmd |-> call.cmd]
       IN  \/ UNCHANGED late /\ TryNext(FALSE)
           \/ /\ unhandled /\ Cardinality(late) < MaxLate
              /\ late' = late \union {r} /\ TryNext(TRUE)
    /\ UNCHANGED clusterVars

RouterNext ==
    \/ Begin \/ Handle \/ Receive \/ Timeout
    \/ \E r \in late : HandleLate(r)

-----------------------------------------------------------------------------

\* What Put and Delete have confirmed
Confirmed ==
    {k \in DOMAIN returned : returned[k].cmd.op # "get" /\ returned[k].ok}

(***************************************************************************)
(* A Put or Delete that returned nil is in the logs of a majority, whoever *)
(* leads by now.                                                           *)
(***************************************************************************)
ConfirmedOnMajority ==
    \A k \in Confirmed :
      Cardinality(Holders(returned[k].cmd.id)) >= Majority

(***************************************************************************)
(* The writes of a client that waits for each call take effect in the      *)
(* order of the calls: once a call has returned nil, no write of an        *)
(* earlier call is committed after it, although the earlier one may have   *)
(* failed at some nodes and left its entry in their logs.  It needs a      *)
(* request that the router gave up on before its node had handled it.      *)
(***************************************************************************)
CallOrderUnlessAbandoned ==
    \A k \in Confirmed : \A j \in 1..(k - 1) :
      ~returned[j].abandoned =>
        \A d, e \in committed : (d.cmd.id = j /\ e.cmd.id = k) => d.index < e.index

(***************************************************************************)
(* A value that Get has returned is in the logs of a majority: what a      *)
(* client has read, from a follower or a deposed leader, is not undone by  *)
(* a change of leader.                                                     *)
(***************************************************************************)
ReadsAreCommitted ==
    \A k \in DOMAIN returned :
      (returned[k].cmd.op = "get" /\ returned[k].ok /\ returned[k].res # 0) =>
        Cardinality(Holders(returned[k].res)) >= Majority
=============================================================================
