----------------------------- MODULE SessionPool -----------------------------
(***************************************************************************)
(* mitmcloak/sessions.py: the LRU pool of httpcloak sessions, with every   *)
(* method the addon calls on it (get, adopt, sweep, close) and the option  *)
(* that changes its cap at run time (Bridge.configure).                    *)
(*                                                                         *)
(* Every method is synchronous and runs on the event loop, so each is one  *)
(* action.  The OrderedDict is the function `pool` together with the       *)
(* strict order `ahead` on the keys it holds: <<j, k>> \in ahead when j    *)
(* comes out of popitem(last=False) before k.                              *)
(***************************************************************************)
EXTENDS Integers, FiniteSets

CONSTANTS
    Keys,          \* pool keys (resolve.session_key)
    Owned,         \* sessions the factory passed to get() can build
    Supplied,      \* sessions the user's callable may hand over
    SuppliedFor,   \* SuppliedFor[k]: the supplied sessions seen under key k
    NoSession,     \* the absent value of pool.get(key)
    Caps,          \* the values mitmcloak_max_sessions is given
    MaxDropped     \* bound on the statistics `evicted` and `swept`

\* Finite sets, and no session that is both built here and supplied.
ASSUME PoolConstants ==
    /\ IsFiniteSet(Keys)
    /\ Owned \cap Supplied = {}
    /\ NoSession \notin Owned \cup Supplied
    /\ SuppliedFor \in [Keys -> SUBSET Supplied]
    /\ Caps \subseteq Nat
    /\ MaxDropped \in Nat

Sessions == Owned \cup Supplied

\* session_key puts decision.preset in the key, and a supplied session's
\* preset is the reserved name "<supplied>": get and adopt share no key.
BuiltKeys == {k \in Keys : SuppliedFor[k] = {}}

VARIABLES
    pool,          \* self._pool as a function: pool[k] is NoSession when absent
    ahead,         \* the order of self._pool
    external,      \* self._external, the sessions not to close
    life,          \* what became of each session: the cgo handle's state
    max_sessions,  \* self.max_sessions
    created,       \* statistics; `reused` saturates at 1, since only
    reused,        \* "reused == 0" is ever asked of it
    evicted,
    swept,
    phase          \* "done" once the addon's done() hook has run

stats == <<created, reused, evicted, swept>>
vars == <<pool, ahead, external, life, max_sessions, stats, phase>>

Held == {k \in Keys : pool[k] # NoSession}
Pooled == {pool[k] : k \in Held}

TypeOK ==
    /\ pool \in [Keys -> Sessions \cup {NoSession}]
    /\ ahead \subseteq Held \X Held
    /\ external \subseteq Supplied
    /\ life \in [Sessions -> {"unborn", "open", "closed", "gone"}]
    /\ max_sessions \in Caps
    /\ created \in Nat /\ reused \in {0, 1} /\ evicted \in Nat /\ swept \in Nat
    /\ phase \in {"running", "done"}

Init ==
    /\ pool = [k \in Keys |-> NoSession]
    /\ ahead = {}
    /\ external = {}
    /\ life = [s \in Sessions |-> IF s \in Owned THEN "unborn" ELSE "open"]
    /\ max_sessions \in Caps
    /\ created = 0 /\ reused = 0 /\ evicted = 0 /\ swept = 0
    /\ phase = "running"

-----------------------------------------------------------------------------
(* The order of an OrderedDict.                                            *)

\* move_to_end(k), and the position of a key inserted for the first time.
MoveToEnd(order, held, k) ==
    {p \in order : k \notin {p[1], p[2]}} \cup ((held \ {k}) \X {k})

\* What popitem(last=False) takes when it is called n times.
IsOldest(victims, n, order, held) ==
    /\ Cardinality(victims) = n
    /\ \A v \in victims, k \in held \ victims : <<v, k>> \in order

\* Slip: _trim with `if` for `while`.
ExcessOfOne(held) == IF Cardinality(held) > max_sessions THEN 1 ELSE 0

\* Slip: _trim with `>=` for `>`.
ExcessToBelow(held) ==
    IF Cardinality(held) >= max_sessions
      THEN Cardinality(held) - max_sessions + 1
      ELSE 0

Excess(held) ==
    IF Cardinality(held) > max_sessions
      THEN Cardinality(held) - max_sessions
      ELSE 0

-----------------------------------------------------------------------------
(* Closing.                                                                *)

\* _close, called on the session of each key of K in turn: a session found in
\* _external is discarded from it instead, so one that was under two keys of K
\* is closed the second time it comes up.
ClosedBy(K, p, ext) ==
    ({p[k] : k \in K} \ ext)
        \cup {p[k] : k \in {j \in K : \E i \in K \ {j} : p[i] = p[j]}}

\* Slip: keys are popped without _close.
DropUnclosed(K, p, order, ext, lf) ==
    /\ pool' = [k \in Keys |-> IF k \in K THEN NoSession ELSE p[k]]
    /\ ahead' = {q \in order : q[1] \notin K /\ q[2] \notin K}
    /\ external' = ext \ {p[k] : k \in K}
    /\ life' = lf

\* The keys of K leave the dictionary p, and their sessions go through _close.
Drop(K, p, order, ext, lf) ==
    /\ pool' = [k \in Keys |-> IF k \in K THEN NoSession ELSE p[k]]
    /\ ahead' = {q \in order : q[1] \notin K /\ q[2] \notin K}
    /\ external' = ext \ {p[k] : k \in K}
    /\ life' = [s \in Sessions |->
                    IF s \in ClosedBy(K, p, ext) THEN "closed" ELSE lf[s]]

\* self._pool[key] = session; self._trim().  Assigning to a key that is already
\* there replaces the value and leaves the key where it is.
InsertAndTrim(k, s, ext, lf) ==
    LET p     == [pool EXCEPT ![k] = s]
        held  == Held \cup {k}
        order == IF k \in Held THEN ahead ELSE MoveToEnd(ahead, Held, k)
    IN  \E victims \in SUBSET held :
            /\ IsOldest(victims, Excess(held), order, held)
            /\ evicted' = evicted + Cardinality(victims)
            /\ evicted' <= MaxDropped
            /\ Drop(victims, p, order, ext, lf)

-----------------------------------------------------------------------------
(* SessionPool.get                                                         *)

\* Slip: a hit that leaves the key where it is in the order.
GetHitInPlace(k) ==
    /\ phase = "running"
    /\ k \in BuiltKeys \cap Held
    /\ reused' = 1
    /\ UNCHANGED <<pool, ahead, external, life, max_sessions, created, evicted, swept, phase>>

GetHit(k) ==
    /\ phase = "running"
    /\ k \in BuiltKeys \cap Held
    /\ ahead' = MoveToEnd(ahead, Held, k)
    /\ reused' = 1
    /\ UNCHANGED <<pool, external, life, max_sessions, created, evicted, swept, phase>>

GetMiss(k, s) ==
    /\ phase = "running"
    /\ k \in BuiltKeys \ Held
    /\ s \in Owned /\ life[s] = "unborn"
    /\ created' = created + 1
    /\ InsertAndTrim(k, s, external, [life EXCEPT ![s] = "open"])
    /\ UNCHANGED <<max_sessions, reused, swept, phase>>

(* SessionPool.adopt                                                       *)

AdoptSame(k, s) ==
    /\ phase = "running"
    /\ s \in SuppliedFor[k]
    /\ pool[k] = s
    /\ ahead' = MoveToEnd(ahead, Held, k)
    /\ UNCHANGED <<pool, external, life, max_sessions, stats, phase>>

AdoptOther(k, s) ==
    /\ phase = "running"
    /\ s \in SuppliedFor[k]
    /\ life[s] # "gone"
    /\ pool[k] # s
    /\ InsertAndTrim(k, s, external \cup {s}, life)
    /\ UNCHANGED <<max_sessions, created, reused, swept, phase>>

\* SessionPool.sweep, `idle` being the sessions whose idle_time() is past
\* max_idle: httpcloak's clock decides, and a call that raises counts as not idle.
Sweep(idle) ==
    LET stale == {k \in Held : pool[k] \in idle}
    IN  /\ phase = "running"
        /\ stale # {}
        /\ swept' = swept + Cardinality(stale)
        /\ swept' <= MaxDropped
        /\ Drop(stale, pool, ahead, external, life)
        /\ UNCHANGED <<max_sessions, created, reused, evicted, phase>>

\* Slip: close does not clear the dictionary.
CloseWithoutClear ==
    /\ phase = "running"
    /\ phase' = "done"
    /\ external' = {}
    /\ life' = [s \in Sessions |->
                    IF s \in ClosedBy(Held, pool, external) THEN "closed" ELSE life[s]]
    /\ UNCHANGED <<pool, ahead, max_sessions, stats>>

\* SessionPool.close, from the addon's done().
Close ==
    /\ phase = "running"
    /\ phase' = "done"
    /\ pool' = [k \in Keys |-> NoSession]
    /\ ahead' = {}
    /\ external' = {}
    /\ life' = [s \in Sessions |->
                    IF s \in ClosedBy(Held, pool, external) THEN "closed" ELSE life[s]]
    /\ UNCHANGED <<max_sessions, stats>>

\* Bridge.configure: the new cap is stored, and nothing is trimmed.
SetMaxSessions(n) ==
    /\ phase = "running"
    /\ max_sessions' = n
    /\ UNCHANGED <<pool, ahead, external, life, stats, phase>>

\* The user drops the last reference to a session the pool does not hold: the
\* garbage collector takes it, and the WeakSet _external loses it.
Collect(s) ==
    /\ s \in Supplied \ Pooled
    /\ life[s] # "gone"
    /\ life' = [life EXCEPT ![s] = "gone"]
    /\ external' = external \ {s}
    /\ UNCHANGED <<pool, ahead, max_sessions, stats, phase>>

Next ==
    \/ \E k \in Keys : GetHit(k)
    \/ \E k \in Keys, s \in Owned : GetMiss(k, s)
    \/ \E k \in Keys, s \in Supplied : AdoptSame(k, s) \/ AdoptOther(k, s)
    \/ \E idle \in SUBSET Sessions : Sweep(idle)
    \/ Close
    \/ \E n \in Caps : SetMaxSessions(n)
    \/ \E s \in Supplied : Collect(s)

Spec == Init /\ [][Next]_vars

-----------------------------------------------------------------------------
(* Properties                                                              *)

\* The callable gives a supplied session out under one pool key only.  Nothing
\* in the code asks this of the user; see SuppliedNeverClosed.
OneKeyEach ==
    \A s \in Supplied, j, k \in Keys :
        s \in SuppliedFor[j] \cap SuppliedFor[k] => j = k

\* The keys held are strictly and totally ordered: an OrderedDict.
OrderInv ==
    /\ \A j, k \in Held :
          /\ <<j, k>> \in ahead => <<k, j>> \notin ahead
          /\ j # k => <<j, k>> \in ahead \/ <<k, j>> \in ahead
    /\ \A i, j, k \in Held : <<i, j>> \in ahead /\ <<j, k>> \in ahead => <<i, k>> \in ahead

\* get and adopt keep to keys of their own.
KeyInv ==
    \A k \in Held :
        /\ pool[k] \in Supplied => pool[k] \in SuppliedFor[k]
        /\ pool[k] \in Owned => k \in BuiltKeys

\* Whatever sequence of moves, evictions and sweeps, popitem finds one oldest
\* key, and a key that the callable serves never holds a session built here
\* (the OrderedDict; session_key with the reserved name "<supplied>").
PoolInv == OrderInv /\ KeyInv

\* A session the pool built is open exactly while some key holds it, and one
\* key at most: no cgo handle is dropped without close(), none is handed out
\* after close(), and none is reachable by two keys (sessions.py:3-4, _trim,
\* sweep, close).
NoSessionLeaked ==
    /\ \A s \in Owned : life[s] = "open" <=> s \in Pooled
    /\ \A j, k \in Held : pool[j] \in Owned /\ pool[j] = pool[k] => j = k

\* "Never close a session the user handed us; they may still be using it"
\* (sessions.py:109, _close): no sequence of adoptions, evictions, sweeps and
\* the final close() closes a supplied session.
SuppliedNeverClosed == \A s \in Supplied : life[s] # "closed"

\* A call that puts a new key in the pool leaves it within the cap in force at
\* that moment, even when the cap was lowered since the last call (_trim).
InsertionsRespectCap ==
    [][Held' \ Held # {} => Cardinality(Held') <= max_sessions]_vars

\* The statistics of `mitmcloak.stats` never lose a session: each one built is
\* still pooled, or was counted as evicted or swept (get, _trim, sweep).
DropsAreCounted ==
    phase = "running" => created <= Cardinality(Held) + evicted + swept

\* The pool keeps the promise of SessionLifetime: seen through the set of
\* sessions it holds, each step takes, releases or forgets sessions as allowed.
Lifetime == INSTANCE SessionLifetime WITH held <- Pooled
ImplementsLifetime == Lifetime!Spec

=============================================================================
