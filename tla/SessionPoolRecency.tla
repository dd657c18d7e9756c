-------------------------- MODULE SessionPoolRecency --------------------------
(***************************************************************************)
(* SessionPool with the history needed to say what "LRU pool"              *)
(* (sessions.py:27) promises of its evictions: which key was served last,  *)
(* and which keys got another session while they were held.                *)
(***************************************************************************)
EXTENDS SessionPool

VARIABLES
    served,        \* <<j, k>> \in served: k was served after j last was
    replaced       \* keys given another session since they were last put in place

history == <<served, replaced>>
recencyVars == <<vars, history>>

\* k is served; `stays` when adopt leaves it at its old place in the order.
Served(k, stays) ==
    /\ served' = MoveToEnd(served, Keys, k)
    /\ replaced' = IF stays THEN replaced \cup {k} ELSE replaced \ {k}

RecencyInit == Init /\ served = {} /\ replaced = {}

RecencyNext ==
    \/ \E k \in Keys : GetHit(k) /\ Served(k, FALSE)
    \/ \E k \in Keys, s \in Owned : GetMiss(k, s) /\ Served(k, FALSE)
    \/ \E k \in Keys, s \in Supplied : AdoptSame(k, s) /\ Served(k, FALSE)
    \/ \E k \in Keys, s \in Supplied : AdoptOther(k, s) /\ Served(k, k \in Held)
    \/ \E idle \in SUBSET Sessions : Sweep(idle) /\ UNCHANGED history
    \/ Close /\ UNCHANGED history
    \/ \E n \in Caps : SetMaxSessions(n) /\ UNCHANGED history
    \/ \E s \in Supplied : Collect(s) /\ UNCHANGED history

RecencySpec == RecencyInit /\ [][RecencyNext]_recencyVars

\* The pool is LRU: when _trim evicts a key, every key that stays was served
\* after it, however get, adopt, sweeps and changes of the cap came before
\* (sessions.py:27).  The exception is a key whose supplied session was
\* replaced: adopt serves it and leaves it at its old place (sessions.py:65).
EvictsLeastRecentlyServed ==
    [][evicted' > evicted =>
          \A j \in (Held \ Held') \ replaced', k \in {i \in Keys : pool'[i] # NoSession} :
              <<j, k>> \in served']_recencyVars

=============================================================================
