----------------------------- MODULE DurableMap -----------------------------
(***************************************************************************)
(* What kv.Store promises to its callers, without files.  Of every key it  *)
(* is open which of some values a restart finds: the last confirmed one    *)
(* and those of later writes that were not confirmed.  A confirmation      *)
(* settles it.                                                             *)
(***************************************************************************)
CONSTANTS Key, Value, Absent

VARIABLES
    running,
    view,               \* what Get returns
    open                \* open[k]: the values a restart may find

vars == <<running, view, open>>

Empty == [k \in Key |-> Absent]

Init ==
    /\ running = TRUE
    /\ view = Empty
    /\ open = [k \in Key |-> {Absent}]

\* A write is asked for, and may fail from here on.
Begin(k, v) ==
    /\ running
    /\ open' = [open EXCEPT ![k] = @ \union {v}]
    /\ UNCHANGED <<running, view>>

\* Get shows a write that is not confirmed, and may never be.
Show(k, v) ==
    /\ running
    /\ v \in open[k]
    /\ view' = [view EXCEPT ![k] = v]
    /\ UNCHANGED <<running, open>>

\* The write returns nil, and Get shows it.
Confirm(k, v) ==
    /\ running
    /\ v \in open[k]
    /\ view' = [view EXCEPT ![k] = v]
    /\ open' = [open EXCEPT ![k] = {v}]
    /\ UNCHANGED running

Crash ==
    /\ running
    /\ running' = FALSE
    /\ view' = Empty
    /\ UNCHANGED open

Restart ==
    /\ ~running
    /\ running' = TRUE
    /\ view' \in [Key -> Value \union {Absent}]
    /\ \A k \in Key : view'[k] \in open[k]
    /\ UNCHANGED open

Next ==
    \/ \E k \in Key, v \in Value \union {Absent} :
         Begin(k, v) \/ Show(k, v) \/ Confirm(k, v)
    \/ Crash \/ Restart

Spec == Init /\ [][Next]_vars
=============================================================================
