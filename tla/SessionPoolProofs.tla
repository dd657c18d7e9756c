-------------------------- MODULE SessionPoolProofs --------------------------
(***************************************************************************)
(* What is proved of the session pool for every set of keys and sessions,  *)
(* every cap and every behaviour of the user's callable.                   *)
(***************************************************************************)
EXTENDS SessionPoolRecency, FiniteSetTheorems, TLAPS

LifeStates == {"unborn", "open", "closed", "gone"}

-----------------------------------------------------------------------------
(* The effect of the two operators every method of the pool is built from. *)

LEMMA HeldFinite == IsFiniteSet(Held) /\ \A K \in SUBSET Keys : IsFiniteSet(K)
  BY PoolConstants, FS_Subset DEF Held

\* Dropping keys keeps every variable of its type, and holds exactly the rest.
LEMMA DropTypes ==
  ASSUME NEW K \in SUBSET Keys,
         NEW p \in [Keys -> Sessions \cup {NoSession}],
         NEW order \in SUBSET ({k \in Keys : p[k] # NoSession} \X {k \in Keys : p[k] # NoSession}),
         NEW ext \in SUBSET Supplied,
         NEW lf \in [Sessions -> LifeStates],
         Drop(K, p, order, ext, lf)
  PROVE  /\ pool' \in [Keys -> Sessions \cup {NoSession}]
         /\ ahead' \subseteq Held' \X Held'
         /\ external' \subseteq Supplied
         /\ life' \in [Sessions -> LifeStates]
         /\ Held' = {k \in Keys : p[k] # NoSession} \ K
<1>1. pool' \in [Keys -> Sessions \cup {NoSession}]
  BY DEF Drop
<1>2. Held' = {k \in Keys : p[k] # NoSession} \ K
  BY DEF Drop, Held
<1>3. ahead' \subseteq Held' \X Held'
  BY <1>2 DEF Drop
<1>4. external' \subseteq Supplied /\ life' \in [Sessions -> LifeStates]
  BY DEF Drop, LifeStates
<1> QED
  BY <1>1, <1>2, <1>3, <1>4

\* Inserting and trimming keeps every variable of its type, and what it leaves
\* in the pool is within the cap.
LEMMA InsertTypes ==
  ASSUME TypeOK,
         NEW k \in Keys, NEW s \in Sessions,
         NEW ext \in SUBSET Supplied,
         NEW lf \in [Sessions -> LifeStates],
         InsertAndTrim(k, s, ext, lf)
  PROVE  /\ pool' \in [Keys -> Sessions \cup {NoSession}]
         /\ ahead' \subseteq Held' \X Held'
         /\ external' \subseteq Supplied
         /\ life' \in [Sessions -> LifeStates]
         /\ evicted' \in Nat
         /\ Cardinality(Held') <= max_sessions
<1> DEFINE p     == [pool EXCEPT ![k] = s]
           held  == Held \cup {k}
           order == IF k \in Held THEN ahead ELSE MoveToEnd(ahead, Held, k)
<1>1. PICK victims \in SUBSET held :
            /\ IsOldest(victims, Excess(held), order, held)
            /\ evicted' = evicted + Cardinality(victims)
            /\ Drop(victims, p, order, ext, lf)
  BY DEF InsertAndTrim
<1>2. p \in [Keys -> Sessions \cup {NoSession}] /\ held = {j \in Keys : p[j] # NoSession}
  BY PoolConstants DEF TypeOK, Held, Sessions
<1>3. order \in SUBSET (held \X held)
  BY DEF TypeOK, MoveToEnd
<1>4. victims \in SUBSET Keys /\ held \in SUBSET Keys
  BY <1>1 DEF Held
<1>5. Held' = held \ victims
  <2> HIDE DEF p, held, order
  <2> QED BY <1>1, <1>2, <1>3, <1>4, DropTypes
<1>6. /\ IsFiniteSet(held) /\ IsFiniteSet(victims)
      /\ Cardinality(held) \in Nat /\ Cardinality(victims) \in Nat
  BY <1>4, HeldFinite, FS_CardinalityType
<1>7. Cardinality(held \ victims) = Cardinality(held) - Cardinality(victims)
  <2>1. held \cap victims = victims
    BY <1>1
  <2> HIDE DEF held
  <2>2. Cardinality(held \ victims) = Cardinality(held) - Cardinality(held \cap victims)
    BY <1>6, FS_Difference
  <2> QED BY <2>1, <2>2
<1>8. Cardinality(Held') <= max_sessions
  <2>1. max_sessions \in Nat
    BY PoolConstants DEF TypeOK
  <2>2. Cardinality(victims) = Excess(held)
    BY <1>1 DEF IsOldest
  <2> HIDE DEF held
  <2> QED BY <1>5, <1>6, <1>7, <2>1, <2>2 DEF Excess
<1>9. evicted' \in Nat
  BY <1>1, <1>6 DEF TypeOK
<1> HIDE DEF p, held, order
<1> QED
  BY <1>1, <1>2, <1>3, <1>4, <1>8, <1>9, DropTypes

-----------------------------------------------------------------------------
(* Type correctness.                                                       *)

LEMMA TypeInit == Init => TypeOK
  BY DEF Init, TypeOK, Held, Sessions

LEMMA TypeStep == TypeOK /\ [Next]_vars => TypeOK'
<1> SUFFICES ASSUME TypeOK, [Next]_vars PROVE TypeOK'
  OBVIOUS
<1> USE DEF LifeStates
<1>1. ASSUME NEW k \in Keys, GetHit(k) PROVE TypeOK'
  BY <1>1 DEF GetHit, TypeOK, MoveToEnd, Held
<1>2. ASSUME NEW k \in Keys, NEW s \in Owned, GetMiss(k, s) PROVE TypeOK'
  <2> DEFINE lf == [life EXCEPT ![s] = "open"]
  <2>1. lf \in [Sessions -> LifeStates] /\ external \in SUBSET Supplied /\ s \in Sessions
    BY DEF TypeOK, Sessions
  <2>2. InsertAndTrim(k, s, external, lf)
    BY <1>2 DEF GetMiss
  <2> HIDE DEF lf
  <2>3. /\ pool' \in [Keys -> Sessions \cup {NoSession}]
        /\ ahead' \subseteq Held' \X Held'
        /\ external' \subseteq Supplied
        /\ life' \in [Sessions -> LifeStates]
        /\ evicted' \in Nat
    BY <2>1, <2>2, InsertTypes
  <2> QED BY <1>2, <2>3 DEF GetMiss, TypeOK
<1>3. ASSUME NEW k \in Keys, NEW s \in Supplied, AdoptSame(k, s) PROVE TypeOK'
  <2>1. k \in Held
    BY <1>3, PoolConstants DEF AdoptSame, Held
  <2> QED BY <1>3, <2>1 DEF AdoptSame, TypeOK, MoveToEnd, Held, stats
<1>4. ASSUME NEW k \in Keys, NEW s \in Supplied, AdoptOther(k, s) PROVE TypeOK'
  <2>1. external \cup {s} \in SUBSET Supplied /\ s \in Sessions
    BY DEF TypeOK, Sessions
  <2>2. InsertAndTrim(k, s, external \cup {s}, life)
    BY <1>4 DEF AdoptOther
  <2>3. /\ pool' \in [Keys -> Sessions \cup {NoSession}]
        /\ ahead' \subseteq Held' \X Held'
        /\ external' \subseteq Supplied
        /\ life' \in [Sessions -> LifeStates]
        /\ evicted' \in Nat
    BY <2>1, <2>2, InsertTypes DEF TypeOK
  <2> QED BY <1>4, <2>3 DEF AdoptOther, TypeOK
<1>5. ASSUME NEW idle \in SUBSET Sessions, Sweep(idle) PROVE TypeOK'
  <2> DEFINE stale == {k \in Held : pool[k] \in idle}
  <2>1. stale \in SUBSET Keys
    BY DEF Held
  <2>2. Drop(stale, pool, ahead, external, life) /\ swept' = swept + Cardinality(stale)
    BY <1>5 DEF Sweep
  <2>3. Cardinality(stale) \in Nat
    BY <2>1, HeldFinite, FS_CardinalityType
  <2> HIDE DEF stale
  <2>4. /\ pool' \in [Keys -> Sessions \cup {NoSession}]
        /\ ahead' \subseteq Held' \X Held'
        /\ external' \subseteq Supplied
        /\ life' \in [Sessions -> LifeStates]
    BY <2>1, <2>2, DropTypes DEF TypeOK, Held
  <2> QED BY <1>5, <2>2, <2>3, <2>4 DEF Sweep, TypeOK
<1>6. CASE Close
  BY <1>6 DEF Close, TypeOK, Held, stats
<1>7. ASSUME NEW n \in Caps, SetMaxSessions(n) PROVE TypeOK'
  BY <1>7 DEF SetMaxSessions, TypeOK, Held, stats
<1>8. ASSUME NEW s \in Supplied, Collect(s) PROVE TypeOK'
  BY <1>8 DEF Collect, TypeOK, Held, stats
<1>9. CASE UNCHANGED vars
  BY <1>9 DEF vars, stats, TypeOK, Held
<1> QED
  BY <1>1, <1>2, <1>3, <1>4, <1>5, <1>6, <1>7, <1>8, <1>9 DEF Next

\* Every variable of the pool keeps its type, and the order never mentions a
\* key that is not held.
THEOREM TypeCorrect == Spec => []TypeOK
  BY TypeInit, TypeStep, PTL DEF Spec

-----------------------------------------------------------------------------
(* The cap.                                                                *)

\* What leaves nothing new in the pool cannot break the cap.
LEMMA DropHeld ==
  ASSUME TypeOK, NEW K \in SUBSET Keys, Drop(K, pool, ahead, external, life)
  PROVE  Held' = Held \ K
  BY DropTypes DEF TypeOK, Held, LifeStates

\* A call that inserts a key leaves the pool within the cap then in force
\* (sessions.py, _trim), for every cap and every number of keys over it.
THEOREM CapRespected == Spec => InsertionsRespectCap
<1> DEFINE Bound == Held' \ Held # {} => Cardinality(Held') <= max_sessions
<1>1. TypeOK /\ [Next]_vars => [Bound]_vars
  <2> SUFFICES ASSUME TypeOK, Next PROVE Bound
    OBVIOUS
  <2> USE DEF LifeStates
  <2>1. ASSUME NEW k \in Keys, GetHit(k) PROVE Bound
    BY <2>1 DEF GetHit, Held
  <2>2. ASSUME NEW k \in Keys, NEW s \in Owned, GetMiss(k, s) PROVE Bound
    <3> DEFINE lf == [life EXCEPT ![s] = "open"]
    <3>1. lf \in [Sessions -> LifeStates] /\ external \in SUBSET Supplied /\ s \in Sessions
      BY DEF TypeOK, Sessions
    <3>2. InsertAndTrim(k, s, external, lf)
      BY <2>2 DEF GetMiss
    <3> HIDE DEF lf
    <3> QED BY <3>1, <3>2, InsertTypes
  <2>3. ASSUME NEW k \in Keys, NEW s \in Supplied, AdoptSame(k, s) PROVE Bound
    BY <2>3 DEF AdoptSame, Held
  <2>4. ASSUME NEW k \in Keys, NEW s \in Supplied, AdoptOther(k, s) PROVE Bound
    <3>1. external \cup {s} \in SUBSET Supplied /\ s \in Sessions
      BY DEF TypeOK, Sessions
    <3>2. InsertAndTrim(k, s, external \cup {s}, life)
      BY <2>4 DEF AdoptOther
    <3> QED BY <3>1, <3>2, InsertTypes DEF TypeOK
  <2>5. ASSUME NEW idle \in SUBSET Sessions, Sweep(idle) PROVE Bound
    <3>1. PICK K \in SUBSET Keys : Drop(K, pool, ahead, external, life)
      BY <2>5 DEF Sweep, Held
    <3> QED BY <3>1, DropHeld
  <2>6. CASE Close
    BY <2>6 DEF Close, Held
  <2>7. ASSUME NEW n \in Caps, SetMaxSessions(n) PROVE Bound
    BY <2>7 DEF SetMaxSessions, Held
  <2>8. ASSUME NEW s \in Supplied, Collect(s) PROVE Bound
    BY <2>8 DEF Collect, Held
  <2> QED
    BY <2>1, <2>2, <2>3, <2>4, <2>5, <2>6, <2>7, <2>8 DEF Next
<1> QED
  BY <1>1, TypeCorrect, PTL DEF Spec, InsertionsRespectCap

-----------------------------------------------------------------------------
(* No session leaks.  NoSessionLeaked is not inductive alone: that adopt   *)
(* never replaces a session built here needs KeyInv, and that _close never *)
(* spares one needs external \subseteq Supplied, from TypeOK.              *)

\* A pool p that leaks nothing leaks nothing once the keys of K have gone.
LEMMA DropKeepsNoLeak ==
  ASSUME NEW K \in SUBSET Keys,
         NEW p \in [Keys -> Sessions \cup {NoSession}], NEW order,
         NEW ext \in SUBSET Supplied,
         NEW lf \in [Sessions -> LifeStates],
         \A s \in Owned : lf[s] = "open" <=> \E k \in Keys : p[k] = s,
         \A j, k \in Keys : p[j] \in Owned /\ p[j] = p[k] => j = k,
         K \subseteq {k \in Keys : p[k] # NoSession},
         Drop(K, p, order, ext, lf)
  PROVE  NoSessionLeaked'
<1> DEFINE q == [k \in Keys |-> IF k \in K THEN NoSession ELSE p[k]]
<1>1. pool' = q /\ life' = [s \in Sessions |-> IF s \in ClosedBy(K, p, ext) THEN "closed" ELSE lf[s]]
  BY DEF Drop
<1>2. \A s \in Owned : s \in ClosedBy(K, p, ext) <=> \E k \in K : p[k] = s
  BY PoolConstants DEF ClosedBy
<1>3. \A s \in Owned : s \in Pooled' <=> \E k \in Keys \ K : p[k] = s
  BY <1>1, PoolConstants DEF Pooled, Held
<1>4. ASSUME NEW s \in Owned PROVE life'[s] = "open" <=> s \in Pooled'
  <2>1. CASE \E k \in K : p[k] = s
    BY <1>1, <1>2, <1>3, <2>1 DEF Sessions
  <2>2. CASE ~ \E k \in K : p[k] = s
    BY <1>1, <1>2, <1>3, <2>2 DEF Sessions
  <2> QED BY <2>1, <2>2
<1>5. ASSUME NEW j \in Held', NEW k \in Held', pool'[j] \in Owned, pool'[j] = pool'[k]
      PROVE  j = k
  BY <1>1, <1>5, PoolConstants DEF Held
<1> QED
  BY <1>4, <1>5 DEF NoSessionLeaked

\* Each key left after a drop holds what p gave it.
LEMMA DropKeepsKeys ==
  ASSUME NEW K \in SUBSET Keys,
         NEW p \in [Keys -> Sessions \cup {NoSession}], NEW order,
         NEW ext \in SUBSET Supplied,
         NEW lf \in [Sessions -> LifeStates],
         \A k \in Keys :
            /\ p[k] \in Supplied => p[k] \in SuppliedFor[k]
            /\ p[k] \in Owned => k \in BuiltKeys,
         Drop(K, p, order, ext, lf)
  PROVE  KeyInv'
  BY DEF Drop, KeyInv, Held, BuiltKeys

LeakInv == TypeOK /\ KeyInv /\ NoSessionLeaked

LEMMA LeakInit == Init => LeakInv
  BY TypeInit, PoolConstants DEF Init, LeakInv, KeyInv, NoSessionLeaked, Held, Pooled, Sessions

\* LeakInv, said of every key instead of the held ones.
LEMMA LeakFacts ==
  ASSUME LeakInv
  PROVE  /\ \A s \in Owned : life[s] = "open" <=> \E k \in Keys : pool[k] = s
         /\ \A j, k \in Keys : pool[j] \in Owned /\ pool[j] = pool[k] => j = k
         /\ \A k \in Keys :
              /\ pool[k] \in Supplied => pool[k] \in SuppliedFor[k]
              /\ pool[k] \in Owned => k \in BuiltKeys
  BY PoolConstants DEF LeakInv, NoSessionLeaked, KeyInv, Pooled, Held

LEMMA LeakStep == LeakInv /\ [Next]_vars => LeakInv'
<1> SUFFICES ASSUME LeakInv, [Next]_vars PROVE LeakInv'
  OBVIOUS
<1> USE DEF LifeStates
<1>t. TypeOK /\ TypeOK'
  BY TypeStep DEF LeakInv
<1>0. ASSUME UNCHANGED <<pool, life>> PROVE LeakInv'
  BY <1>0, <1>t DEF LeakInv, KeyInv, NoSessionLeaked, Held, Pooled, BuiltKeys
<1>1. ASSUME NEW k \in Keys, GetHit(k) PROVE LeakInv'
  BY <1>0, <1>1 DEF GetHit
<1>2. ASSUME NEW k \in Keys, NEW s \in Owned, GetMiss(k, s) PROVE LeakInv'
  <2> DEFINE p  == [pool EXCEPT ![k] = s]
             lf == [life EXCEPT ![s] = "open"]
  <2>1. PICK victims \in SUBSET (Held \cup {k}) :
           \E order : Drop(victims, p, order, external, lf)
    BY <1>2 DEF GetMiss, InsertAndTrim
  <2>2. /\ p \in [Keys -> Sessions \cup {NoSession}]
        /\ lf \in [Sessions -> LifeStates]
        /\ external \in SUBSET Supplied
        /\ victims \in SUBSET Keys
        /\ victims \subseteq {j \in Keys : p[j] # NoSession}
    BY <1>t, <2>1, PoolConstants DEF TypeOK, Sessions, Held
  <2>3. k \in BuiltKeys /\ pool[k] = NoSession /\ life[s] = "unborn" /\ s \in Sessions
    BY <1>2 DEF GetMiss, Held, Sessions
  <2>4. \A j \in Keys : pool[j] # s
    BY <2>3, LeakFacts
  <2>5. \A t \in Owned : lf[t] = "open" <=> \E j \in Keys : p[j] = t
    <3> TAKE t \in Owned
    <3>1. CASE t = s
      BY <1>t, <2>3, <3>1 DEF TypeOK
    <3>2. CASE t # s
      <4>1. lf[t] = life[t]
        BY <1>t, <3>2 DEF TypeOK, Sessions
      <4>2. (\E j \in Keys : p[j] = t) <=> \E j \in Keys : pool[j] = t
        BY <1>t, <2>3, <3>2, PoolConstants DEF TypeOK
      <4> QED BY <4>1, <4>2, LeakFacts
    <3> QED BY <3>1, <3>2
  <2>6. \A i, j \in Keys : p[i] \in Owned /\ p[i] = p[j] => i = j
    BY <1>t, <2>4, LeakFacts DEF TypeOK
  <2>7. \A j \in Keys :
           /\ p[j] \in Supplied => p[j] \in SuppliedFor[j]
           /\ p[j] \in Owned => j \in BuiltKeys
    BY <1>t, <2>3, LeakFacts, PoolConstants DEF TypeOK
  <2> HIDE DEF p, lf
  <2>8. PICK order : Drop(victims, p, order, external, lf)
    BY <2>1
  <2>9. NoSessionLeaked'
    BY <2>2, <2>5, <2>6, <2>8, DropKeepsNoLeak
  <2>10. KeyInv'
    BY <2>2, <2>7, <2>8, DropKeepsKeys
  <2> QED BY <1>t, <2>9, <2>10 DEF LeakInv
<1>3. ASSUME NEW k \in Keys, NEW s \in Supplied, AdoptSame(k, s) PROVE LeakInv'
  BY <1>0, <1>3 DEF AdoptSame
<1>4. ASSUME NEW k \in Keys, NEW s \in Supplied, AdoptOther(k, s) PROVE LeakInv'
  <2> DEFINE p == [pool EXCEPT ![k] = s]
  <2>1. PICK victims \in SUBSET (Held \cup {k}) :
           \E order : Drop(victims, p, order, external \cup {s}, life)
    BY <1>4 DEF AdoptOther, InsertAndTrim
  <2>2. /\ p \in [Keys -> Sessions \cup {NoSession}]
        /\ life \in [Sessions -> LifeStates]
        /\ external \cup {s} \in SUBSET Supplied
        /\ victims \in SUBSET Keys
        /\ victims \subseteq {j \in Keys : p[j] # NoSession}
    BY <1>t, <2>1, PoolConstants DEF TypeOK, Sessions, Held
  <2>3. s \in SuppliedFor[k] /\ k \notin BuiltKeys /\ pool[k] \notin Owned
    BY <1>4, LeakFacts DEF AdoptOther, BuiltKeys
  <2>4. \A t \in Owned : life[t] = "open" <=> \E j \in Keys : p[j] = t
    <3> TAKE t \in Owned
    <3>1. (\E j \in Keys : p[j] = t) <=> \E j \in Keys : pool[j] = t
      BY <1>t, <2>3, PoolConstants DEF TypeOK
    <3> QED BY <3>1, LeakFacts
  <2>5. \A i, j \in Keys : p[i] \in Owned /\ p[i] = p[j] => i = j
    BY <1>t, LeakFacts, PoolConstants DEF TypeOK
  <2>6. \A j \in Keys :
           /\ p[j] \in Supplied => p[j] \in SuppliedFor[j]
           /\ p[j] \in Owned => j \in BuiltKeys
    BY <1>t, <2>3, LeakFacts, PoolConstants DEF TypeOK
  <2> HIDE DEF p
  <2>7. PICK order : Drop(victims, p, order, external \cup {s}, life)
    BY <2>1
  <2>8. NoSessionLeaked'
    BY <2>2, <2>4, <2>5, <2>7, DropKeepsNoLeak
  <2>9. KeyInv'
    BY <2>2, <2>6, <2>7, DropKeepsKeys
  <2> QED BY <1>t, <2>8, <2>9 DEF LeakInv
<1>5. ASSUME NEW idle \in SUBSET Sessions, Sweep(idle) PROVE LeakInv'
  <2>1. PICK stale \in SUBSET Held : Drop(stale, pool, ahead, external, life)
    BY <1>5 DEF Sweep
  <2>2. /\ stale \in SUBSET Keys
        /\ stale \subseteq {j \in Keys : pool[j] # NoSession}
    BY <2>1 DEF Held
  <2> QED
    BY <1>t, <2>1, <2>2, LeakFacts, DropKeepsNoLeak, DropKeepsKeys DEF LeakInv, TypeOK
<1>6. CASE Close
  <2>1. Held' = {} /\ Pooled' = {}
    BY <1>6 DEF Close, Held, Pooled
  <2>2. \A s \in Owned : life[s] = "open" => s \in ClosedBy(Held, pool, external)
    BY <1>t, PoolConstants DEF LeakInv, NoSessionLeaked, Pooled, ClosedBy, TypeOK
  <2>3. \A s \in Owned : life'[s] # "open"
    BY <1>6, <2>2 DEF Close, Sessions
  <2> QED BY <1>t, <2>1, <2>3 DEF LeakInv, KeyInv, NoSessionLeaked
<1>7. ASSUME NEW n \in Caps, SetMaxSessions(n) PROVE LeakInv'
  BY <1>0, <1>7 DEF SetMaxSessions
<1>8. ASSUME NEW s \in Supplied, Collect(s) PROVE LeakInv'
  <2>1. \A t \in Owned : life'[t] = life[t]
    BY <1>8, <1>t, PoolConstants DEF Collect, TypeOK, Sessions
  <2> QED
    BY <1>8, <1>t, <2>1 DEF Collect, LeakInv, KeyInv, NoSessionLeaked, Held, Pooled, BuiltKeys
<1>9. CASE UNCHANGED vars
  BY <1>0, <1>9 DEF vars
<1> QED
  BY <1>1, <1>2, <1>3, <1>4, <1>5, <1>6, <1>7, <1>8, <1>9 DEF Next

\* No native handle leaks and none is used after close: a session the pool
\* built is open exactly while one key, and one only, holds it.
THEOREM NoLeak == Spec => []NoSessionLeaked
<1>1. Spec => []LeakInv
  BY LeakInit, LeakStep, PTL DEF Spec
<1> QED
  BY <1>1, PTL DEF LeakInv

-----------------------------------------------------------------------------
(* Supplied sessions, and the contract of SessionLifetime.  Both need the  *)
(* callable to give each session out under one key: MCSessionPool's        *)
(* SharedSession shows what happens otherwise.  The strengthening is that  *)
(* every supplied session in the pool is still in _external.               *)

SuppliedInv ==
    /\ LeakInv
    /\ \A k \in Keys : pool[k] \in Supplied => pool[k] \in external
    /\ \A s \in Supplied : life[s] \in {"open", "gone"}

\* What Drop does to the sessions of a pool p in which no session is under two
\* keys and every supplied one is in _external: of those that go, the ones
\* built here are closed, and nothing else changes.
LEMMA DropLetsGo ==
  ASSUME NEW K \in SUBSET Keys,
         NEW p \in [Keys -> Sessions \cup {NoSession}], NEW order,
         NEW ext \in SUBSET Supplied,
         NEW lf \in [Sessions -> LifeStates],
         K \subseteq {k \in Keys : p[k] # NoSession},
         \A j, k \in Keys : p[j] \in Sessions /\ p[j] = p[k] => j = k,
         \A k \in Keys : p[k] \in Supplied => p[k] \in ext,
         Drop(K, p, order, ext, lf)
  PROVE  /\ Pooled' = {p[k] : k \in {j \in Keys : p[j] # NoSession}} \ {p[k] : k \in K}
         /\ life' = [s \in Sessions |->
                        IF s \in {p[k] : k \in K} \cap Owned THEN "closed" ELSE lf[s]]
         /\ \A k \in Keys : pool'[k] \in Supplied => pool'[k] \in external'
<1>1. pool' = [k \in Keys |-> IF k \in K THEN NoSession ELSE p[k]]
  BY DEF Drop
<1>2. ClosedBy(K, p, ext) = {p[k] : k \in K} \cap Owned
  BY PoolConstants DEF ClosedBy, Sessions
<1>3. Pooled' = {p[k] : k \in {j \in Keys : p[j] # NoSession}} \ {p[k] : k \in K}
  <2>1. Held' = {j \in Keys : p[j] # NoSession} \ K
    BY <1>1 DEF Held
  <2>2. \A k \in Held' : pool'[k] = p[k]
    BY <1>1, <2>1
  <2>3. \A j \in Held', k \in K : p[j] # p[k]
    BY <2>1
  <2> QED BY <2>1, <2>2, <2>3 DEF Pooled
<1>4. \A k \in Keys : pool'[k] \in Supplied => pool'[k] \in external'
  BY <1>1, PoolConstants DEF Drop, Sessions
<1> QED
  BY <1>2, <1>3, <1>4 DEF Drop

\* No session is under two keys.
LEMMA OneKeyPerSession ==
  ASSUME OneKeyEach, SuppliedInv
  PROVE  \A j, k \in Keys : pool[j] \in Sessions /\ pool[j] = pool[k] => j = k
  BY LeakFacts DEF SuppliedInv, OneKeyEach, Sessions

LEMMA SuppliedInit == Init => SuppliedInv
  BY LeakInit, PoolConstants DEF Init, SuppliedInv, Sessions

\* Each step keeps SuppliedInv and is a step of SessionLifetime, or a stutter.
LEMMA LifetimeStep ==
  ASSUME OneKeyEach, SuppliedInv, [Next]_vars
  PROVE  SuppliedInv' /\ [Lifetime!Next]_(Lifetime!vars)
<1> USE DEF LifeStates
<1>t. TypeOK /\ LeakInv'
  BY LeakStep DEF SuppliedInv, LeakInv
<1>o. /\ \A j, k \in Keys : pool[j] \in Sessions /\ pool[j] = pool[k] => j = k
      /\ \A k \in Keys : pool[k] \in Supplied => pool[k] \in external
      /\ \A s \in Supplied : life[s] \in {"open", "gone"}
  BY OneKeyPerSession DEF SuppliedInv
<1>0. ASSUME UNCHANGED <<pool, external, life>>
      PROVE  SuppliedInv' /\ [Lifetime!Next]_(Lifetime!vars)
  BY <1>0, <1>t DEF SuppliedInv, Lifetime!vars, Pooled, Held
<1>1. ASSUME NEW k \in Keys, GetHit(k)
      PROVE  SuppliedInv' /\ [Lifetime!Next]_(Lifetime!vars)
  BY <1>0, <1>1 DEF GetHit
<1>2. ASSUME NEW k \in Keys, NEW s \in Owned, GetMiss(k, s)
      PROVE  SuppliedInv' /\ Lifetime!Next
  <2> DEFINE p  == [pool EXCEPT ![k] = s]
             lf == [life EXCEPT ![s] = "open"]
  <2>1. PICK victims \in SUBSET (Held \cup {k}) :
           \E order : Drop(victims, p, order, external, lf)
    BY <1>2 DEF GetMiss, InsertAndTrim
  <2>2. PICK order : Drop(victims, p, order, external, lf)
    BY <2>1
  <2>3. pool[k] = NoSession /\ life[s] = "unborn" /\ s \in Sessions /\ s \notin Supplied
    BY <1>2, PoolConstants DEF GetMiss, Held, Sessions
  <2>4. \A j \in Keys : pool[j] # s
    BY <2>3, LeakFacts DEF SuppliedInv
  <2>5. /\ p \in [Keys -> Sessions \cup {NoSession}]
        /\ lf \in [Sessions -> LifeStates]
        /\ external \in SUBSET Supplied
        /\ victims \in SUBSET Keys
        /\ victims \subseteq {j \in Keys : p[j] # NoSession}
    BY <1>t, <2>1, PoolConstants DEF TypeOK, Sessions, Held
  <2>6. \A i, j \in Keys : p[i] \in Sessions /\ p[i] = p[j] => i = j
    BY <1>t, <1>o, <2>4 DEF TypeOK
  <2>7. \A j \in Keys : p[j] \in Supplied => p[j] \in external
    BY <1>t, <1>o, <2>3 DEF TypeOK
  <2>8. {p[i] : i \in {j \in Keys : p[j] # NoSession}} = Pooled \cup {s}
    BY <1>t, <2>3, PoolConstants DEF Pooled, Held, TypeOK, Sessions
  <2> DEFINE D == {p[i] : i \in victims}
  <2>9. /\ Pooled' = (Pooled \cup {s}) \ D
        /\ life' = [t \in Sessions |-> IF t \in D \cap Owned THEN "closed" ELSE lf[t]]
        /\ \A j \in Keys : pool'[j] \in Supplied => pool'[j] \in external'
    <3> HIDE DEF p, lf
    <3>1. /\ Pooled' = {p[i] : i \in {j \in Keys : p[j] # NoSession}} \ D
          /\ life' = [t \in Sessions |-> IF t \in D \cap Owned THEN "closed" ELSE lf[t]]
          /\ \A j \in Keys : pool'[j] \in Supplied => pool'[j] \in external'
      BY <2>2, <2>5, <2>6, <2>7, DropLetsGo
    <3> QED BY <2>8, <3>1
  <2>10. D \subseteq Pooled \cup {s}
    BY <2>5, <2>8
  <2>11. \A t \in Sessions : lf[t] = IF t \in {s} THEN "open" ELSE life[t]
    BY <1>t DEF TypeOK
  <2>12. \A t \in Supplied : life'[t] \in {"open", "gone"}
    BY <1>t, <1>o, <2>3, <2>9, PoolConstants DEF Sessions, TypeOK
  <2>13. Lifetime!LetGo(D, {s})
    <3> HIDE DEF D, lf
    <3> QED BY <2>9, <2>11 DEF Lifetime!LetGo, Sessions
  <2>14. Lifetime!Take(s)
    <3> HIDE DEF D
    <3> QED BY <2>3, <2>10, <2>13 DEF Lifetime!Take
  <2> QED
    BY <1>t, <2>9, <2>12, <2>14 DEF SuppliedInv, Lifetime!Next
<1>3. ASSUME NEW k \in Keys, NEW s \in Supplied, AdoptSame(k, s)
      PROVE  SuppliedInv' /\ [Lifetime!Next]_(Lifetime!vars)
  BY <1>0, <1>3 DEF AdoptSame
<1>4. ASSUME NEW k \in Keys, NEW s \in Supplied, AdoptOther(k, s)
      PROVE  SuppliedInv' /\ Lifetime!Next
  <2> DEFINE p   == [pool EXCEPT ![k] = s]
             all == {p[i] : i \in {j \in Keys : p[j] # NoSession}}
  <2>1. PICK victims \in SUBSET (Held \cup {k}) :
           \E order : Drop(victims, p, order, external \cup {s}, life)
    BY <1>4 DEF AdoptOther, InsertAndTrim
  <2>2. PICK order : Drop(victims, p, order, external \cup {s}, life)
    BY <2>1
  <2>3. s \in SuppliedFor[k] /\ s \in Sessions /\ s \notin Owned /\ life[s] = "open"
    BY <1>4, <1>o, PoolConstants DEF AdoptOther, Sessions
  <2>4. \A j \in Keys : j # k => pool[j] # s
    BY <2>3, LeakFacts DEF SuppliedInv, OneKeyEach
  <2>5. /\ p \in [Keys -> Sessions \cup {NoSession}]
        /\ life \in [Sessions -> LifeStates]
        /\ external \cup {s} \in SUBSET Supplied
        /\ victims \in SUBSET Keys
        /\ victims \subseteq {j \in Keys : p[j] # NoSession}
    BY <1>t, <2>1, PoolConstants DEF TypeOK, Sessions, Held
  <2>6. \A i, j \in Keys : p[i] \in Sessions /\ p[i] = p[j] => i = j
    BY <1>t, <1>o, <2>4 DEF TypeOK
  <2>7. \A j \in Keys : p[j] \in Supplied => p[j] \in external \cup {s}
    BY <1>t, <1>o DEF TypeOK
  <2>8. pool[k] \notin Owned
    BY <2>3, LeakFacts DEF SuppliedInv, BuiltKeys
  <2>9. all \subseteq Pooled \cup {s} /\ (Pooled \cup {s}) \ all \subseteq {pool[k]}
    BY <1>t, <2>3, PoolConstants DEF Pooled, Held, TypeOK, Sessions
  <2> DEFINE V == {p[i] : i \in victims}
             D == (Pooled \cup {s}) \ (all \ V)
  <2>10. /\ Pooled' = all \ V
         /\ life' = [t \in Sessions |-> IF t \in V \cap Owned THEN "closed" ELSE life[t]]
         /\ \A j \in Keys : pool'[j] \in Supplied => pool'[j] \in external'
    <3> HIDE DEF p
    <3> QED BY <2>2, <2>5, <2>6, <2>7, DropLetsGo
  <2>11. V \subseteq all
    BY <2>5
  <2>12. D \cap Owned = V \cap Owned
    <3> HIDE DEF all, V
    <3> QED BY <2>8, <2>9, <2>11
  <2>13. Pooled' = (Pooled \cup {s}) \ D
    <3> HIDE DEF all, V
    <3> QED BY <2>9, <2>10
  <2>14. \A t \in Supplied : life'[t] \in {"open", "gone"}
    BY <1>t, <1>o, <2>10, PoolConstants DEF Sessions, TypeOK
  <2>15. Lifetime!LetGo(D, {s})
    <3> HIDE DEF D, V
    <3> QED BY <2>3, <2>10, <2>12, <2>13 DEF Lifetime!LetGo, Sessions
  <2>16. D \subseteq Pooled \cup {s}
    OBVIOUS
  <2>17. Lifetime!Take(s)
    <3> HIDE DEF D
    <3> QED BY <2>3, <2>15, <2>16 DEF Lifetime!Take
  <2> QED
    BY <1>t, <2>10, <2>14, <2>17 DEF SuppliedInv, Lifetime!Next
<1>5. ASSUME NEW idle \in SUBSET Sessions, Sweep(idle)
      PROVE  SuppliedInv' /\ Lifetime!Next
  <2>1. PICK stale \in SUBSET Held : Drop(stale, pool, ahead, external, life)
    BY <1>5 DEF Sweep
  <2>2. stale \in SUBSET Keys /\ stale \subseteq {j \in Keys : pool[j] # NoSession}
    BY <2>1 DEF Held
  <2> DEFINE D == {pool[i] : i \in stale}
  <2>3. /\ Pooled' = Pooled \ D
        /\ life' = [t \in Sessions |-> IF t \in D \cap Owned THEN "closed" ELSE life[t]]
        /\ \A j \in Keys : pool'[j] \in Supplied => pool'[j] \in external'
    BY <1>t, <1>o, <2>1, <2>2, DropLetsGo DEF TypeOK, Pooled, Held
  <2>4. \A t \in Supplied : life'[t] \in {"open", "gone"}
    BY <1>t, <1>o, <2>3, PoolConstants DEF Sessions, TypeOK
  <2>5. D \subseteq Pooled
    BY <2>1 DEF Pooled
  <2>6. Lifetime!Release
    <3> HIDE DEF D
    <3> QED BY <2>3, <2>5 DEF Lifetime!Release, Lifetime!LetGo, Sessions
  <2> QED
    BY <1>t, <2>3, <2>4, <2>6 DEF SuppliedInv, Lifetime!Next
<1>6. CASE Close
  <2>1. Pooled' = {} /\ \A k \in Keys : pool'[k] = NoSession
    BY <1>6 DEF Close, Held, Pooled
  <2>2. ClosedBy(Held, pool, external) = Pooled \cap Owned
    BY <1>t, <1>o, PoolConstants DEF ClosedBy, Pooled, Held, Sessions, TypeOK
  <2>3. life' = [t \in Sessions |-> IF t \in Pooled \cap Owned THEN "closed" ELSE life[t]]
    BY <1>6, <2>2 DEF Close
  <2>4. \A t \in Supplied : life'[t] \in {"open", "gone"}
    BY <1>t, <1>o, <2>3, PoolConstants DEF Sessions, TypeOK
  <2>5. Lifetime!Release
    BY <2>1, <2>3 DEF Lifetime!Release, Lifetime!LetGo, Sessions
  <2> QED
    BY <1>t, <2>1, <2>4, <2>5, PoolConstants DEF SuppliedInv, Lifetime!Next
<1>7. ASSUME NEW n \in Caps, SetMaxSessions(n)
      PROVE  SuppliedInv' /\ [Lifetime!Next]_(Lifetime!vars)
  BY <1>0, <1>7 DEF SetMaxSessions
<1>8. ASSUME NEW s \in Supplied, Collect(s)
      PROVE  SuppliedInv' /\ Lifetime!Next
  <2>1. \A k \in Keys : pool[k] # s
    BY <1>8, PoolConstants DEF Collect, Pooled, Held
  <2>2. Lifetime!Forget(s)
    BY <1>8 DEF Collect, Lifetime!Forget, Pooled, Held
  <2>3. \A t \in Supplied : life'[t] \in {"open", "gone"}
    BY <1>8, <1>t, <1>o DEF Collect, TypeOK, Sessions
  <2> QED
    BY <1>8, <1>t, <1>o, <2>1, <2>2, <2>3 DEF Collect, SuppliedInv, Lifetime!Next
<1>9. CASE UNCHANGED vars
  BY <1>0, <1>9 DEF vars
<1> QED
  BY <1>1, <1>2, <1>3, <1>4, <1>5, <1>6, <1>7, <1>8, <1>9 DEF Next

\* "Never close a session the user handed us" (sessions.py, _close): true of
\* every callable that gives each session out under one pool key.
THEOREM SuppliedStayOpen ==
  ASSUME OneKeyEach
  PROVE  Spec => []SuppliedNeverClosed
<1>1. SuppliedInv /\ [Next]_vars => SuppliedInv'
  BY LifetimeStep
<1>2. SuppliedInv => SuppliedNeverClosed
  BY DEF SuppliedInv, SuppliedNeverClosed
<1> QED
  BY <1>1, <1>2, SuppliedInit, PTL DEF Spec

\* The pool implements the contract of SessionLifetime, under the same
\* assumption on the callable.
THEOREM PoolImplementsLifetime ==
  ASSUME OneKeyEach
  PROVE  Spec => ImplementsLifetime
<1>1. SuppliedInv /\ [Next]_vars => SuppliedInv' /\ [Lifetime!Next]_(Lifetime!vars)
  BY LifetimeStep
<1>2. Init => Lifetime!Init
  BY DEF Init, Lifetime!Init, Pooled, Held, Sessions
<1> QED
  BY <1>1, <1>2, SuppliedInit, PTL DEF Spec, ImplementsLifetime, Lifetime!Spec

-----------------------------------------------------------------------------
(* The order of the dictionary, and the statistics.                        *)

Ordered(order, held) ==
    /\ \A j, k \in held :
          /\ <<j, k>> \in order => <<k, j>> \notin order
          /\ j # k => <<j, k>> \in order \/ <<k, j>> \in order
    /\ \A i, j, k \in held : <<i, j>> \in order /\ <<j, k>> \in order => <<i, k>> \in order

\* Moving a key to the end of an order, or putting it there, leaves an order.
LEMMA MoveToEndOrders ==
  ASSUME NEW held, NEW order, Ordered(order, held), NEW k
  PROVE  Ordered(MoveToEnd(order, held, k), held \cup {k})
<1> DEFINE moved == MoveToEnd(order, held, k)
<1>1. \A i, j : <<i, j>> \in moved <=>
          \/ <<i, j>> \in order /\ i # k /\ j # k
          \/ i \in held \ {k} /\ j = k
  BY DEF MoveToEnd
<1> HIDE DEF moved
<1>2. Ordered(moved, held \cup {k})
  BY <1>1 DEF Ordered
<1> QED BY <1>2 DEF moved

\* What is left of an order is an order.
LEMMA DropOrders ==
  ASSUME NEW held, NEW order, Ordered(order, held), NEW K
  PROVE  Ordered({q \in order : q[1] \notin K /\ q[2] \notin K}, held \ K)
<1> DEFINE left == {q \in order : q[1] \notin K /\ q[2] \notin K}
<1>1. \A i, j : <<i, j>> \in left <=> <<i, j>> \in order /\ i \notin K /\ j \notin K
  OBVIOUS
<1> HIDE DEF left
<1>2. Ordered(left, held \ K)
  BY <1>1 DEF Ordered
<1> QED BY <1>2 DEF left

\* Inserting keeps the order, and what the trim takes it counts.
LEMMA InsertEffect ==
  ASSUME TypeOK, OrderInv,
         NEW k \in Keys, NEW s \in Sessions,
         NEW ext \in SUBSET Supplied,
         NEW lf \in [Sessions -> LifeStates],
         InsertAndTrim(k, s, ext, lf)
  PROVE  /\ OrderInv'
         /\ Cardinality(Held') + evicted' = Cardinality(Held \cup {k}) + evicted
<1> DEFINE p     == [pool EXCEPT ![k] = s]
           held  == Held \cup {k}
           order == IF k \in Held THEN ahead ELSE MoveToEnd(ahead, Held, k)
<1>1. PICK victims \in SUBSET held :
            /\ evicted' = evicted + Cardinality(victims)
            /\ Drop(victims, p, order, ext, lf)
  BY DEF InsertAndTrim
<1>2. Held' = held \ victims
  BY <1>1, PoolConstants DEF Drop, Held, TypeOK, Sessions
<1>3. Ordered(order, held)
  <2>1. Ordered(ahead, Held)
    BY DEF OrderInv, Ordered
  <2>2. CASE k \in Held
    <3>1. held = Held
      BY <2>2
    <3> QED BY <2>1, <2>2, <3>1
  <2>3. CASE k \notin Held
    BY <2>1, <2>3, MoveToEndOrders
  <2> QED BY <2>2, <2>3
<1>4. OrderInv'
  <2>1. ahead' = {q \in order : q[1] \notin victims /\ q[2] \notin victims}
    BY <1>1 DEF Drop
  <2> HIDE DEF order, held
  <2>2. Ordered(ahead', Held')
    BY <1>2, <1>3, <2>1, DropOrders
  <2> QED BY <2>2 DEF Ordered, OrderInv
<1>5. /\ IsFiniteSet(held) /\ Cardinality(held) \in Nat /\ Cardinality(victims) \in Nat
      /\ held \cap victims = victims
  BY <1>1, HeldFinite, FS_CardinalityType DEF Held
<1>6. Cardinality(held \ victims) = Cardinality(held) - Cardinality(victims)
  <2> HIDE DEF held
  <2> QED BY <1>5, FS_Difference
<1> HIDE DEF held
<1>7. Cardinality(Held') + evicted' = Cardinality(held) + evicted
  BY <1>1, <1>2, <1>5, <1>6 DEF TypeOK
<1> QED BY <1>4, <1>7 DEF held

OrderAndCount == TypeOK /\ OrderInv /\ DropsAreCounted

LEMMA OrderAndCountInit == Init => OrderAndCount
<1> SUFFICES ASSUME Init PROVE OrderAndCount
  OBVIOUS
<1>1. Held = {} /\ Cardinality(Held) = 0
  BY FS_EmptySet DEF Init, Held
<1> QED BY <1>1, TypeInit DEF Init, OrderAndCount, OrderInv, DropsAreCounted

LEMMA OrderAndCountStep == OrderAndCount /\ [Next]_vars => OrderAndCount'
<1> SUFFICES ASSUME OrderAndCount, [Next]_vars PROVE OrderAndCount'
  OBVIOUS
<1> USE DEF LifeStates, stats
<1>t. TypeOK /\ TypeOK' /\ OrderInv
  BY TypeStep DEF OrderAndCount
<1>n. /\ IsFiniteSet(Held) /\ Cardinality(Held) \in Nat
      /\ created \in Nat /\ evicted \in Nat /\ swept \in Nat
  BY <1>t, HeldFinite, FS_CardinalityType DEF TypeOK
<1>0. ASSUME UNCHANGED <<pool, ahead, created, evicted, swept, phase>> PROVE OrderAndCount'
  BY <1>0, <1>t DEF OrderAndCount, OrderInv, DropsAreCounted, Held
<1>m. ASSUME NEW k \in Held, ahead' = MoveToEnd(ahead, Held, k), Held' = Held PROVE OrderInv'
  <2>1. Held \cup {k} = Held
    OBVIOUS
  <2>2. Ordered(ahead', Held')
    BY <1>t, <1>m, <2>1, MoveToEndOrders DEF OrderInv, Ordered
  <2> QED BY <2>2 DEF Ordered, OrderInv
<1>1. ASSUME NEW k \in Keys, GetHit(k) PROVE OrderAndCount'
  <2>1. Held' = Held /\ OrderInv'
    BY <1>1, <1>m DEF GetHit, Held
  <2> QED BY <1>1, <1>t, <2>1 DEF GetHit, OrderAndCount, DropsAreCounted
<1>2. ASSUME NEW k \in Keys, NEW s \in Owned, GetMiss(k, s) PROVE OrderAndCount'
  <2> DEFINE lf == [life EXCEPT ![s] = "open"]
  <2>1. lf \in [Sessions -> LifeStates] /\ external \in SUBSET Supplied /\ s \in Sessions
    BY <1>t DEF TypeOK, Sessions
  <2>2. /\ InsertAndTrim(k, s, external, lf) /\ created' = created + 1 /\ k \notin Held
        /\ swept' = swept /\ phase' = phase /\ phase = "running"
    BY <1>2 DEF GetMiss
  <2> HIDE DEF lf
  <2>3. OrderInv' /\ Cardinality(Held') + evicted' = Cardinality(Held \cup {k}) + evicted
    BY <1>t, <2>1, <2>2, InsertEffect
  <2>4. Cardinality(Held \cup {k}) = Cardinality(Held) + 1
    BY <1>n, <2>2, FS_AddElement
  <2>5. Cardinality(Held') \in Nat /\ evicted' \in Nat
    BY <1>t, HeldFinite, FS_CardinalityType DEF TypeOK, Held
  <2>6. created' <= Cardinality(Held') + evicted' + swept'
    BY <1>n, <2>2, <2>3, <2>4, <2>5 DEF OrderAndCount, DropsAreCounted
  <2> QED BY <1>t, <2>3, <2>6 DEF OrderAndCount, DropsAreCounted
<1>3. ASSUME NEW k \in Keys, NEW s \in Supplied, AdoptSame(k, s) PROVE OrderAndCount'
  <2>1. k \in Held
    BY <1>3, PoolConstants DEF AdoptSame, Held
  <2>2. Held' = Held /\ OrderInv'
    BY <1>3, <1>m, <2>1 DEF AdoptSame, Held
  <2> QED BY <1>3, <1>t, <2>2 DEF AdoptSame, OrderAndCount, DropsAreCounted
<1>4. ASSUME NEW k \in Keys, NEW s \in Supplied, AdoptOther(k, s) PROVE OrderAndCount'
  <2>1. external \cup {s} \in SUBSET Supplied /\ s \in Sessions /\ life \in [Sessions -> LifeStates]
    BY <1>t DEF TypeOK, Sessions
  <2>2. /\ InsertAndTrim(k, s, external \cup {s}, life)
        /\ created' = created /\ swept' = swept /\ phase' = phase /\ phase = "running"
    BY <1>4 DEF AdoptOther
  <2>3. OrderInv' /\ Cardinality(Held') + evicted' = Cardinality(Held \cup {k}) + evicted
    BY <1>t, <2>1, <2>2, InsertEffect
  <2>4. Cardinality(Held \cup {k}) \in {Cardinality(Held), Cardinality(Held) + 1}
    BY <1>n, FS_AddElement
  <2>5. Cardinality(Held') \in Nat /\ evicted' \in Nat
    BY <1>t, HeldFinite, FS_CardinalityType DEF TypeOK, Held
  <2>6. created' <= Cardinality(Held') + evicted' + swept'
    BY <1>n, <2>2, <2>3, <2>4, <2>5 DEF OrderAndCount, DropsAreCounted
  <2> QED BY <1>t, <2>3, <2>6 DEF OrderAndCount, DropsAreCounted
<1>5. ASSUME NEW idle \in SUBSET Sessions, Sweep(idle) PROVE OrderAndCount'
  <2> DEFINE stale == {k \in Held : pool[k] \in idle}
  <2>1. /\ Drop(stale, pool, ahead, external, life) /\ swept' = swept + Cardinality(stale)
        /\ created' = created /\ evicted' = evicted /\ phase' = phase /\ phase = "running"
    BY <1>5 DEF Sweep
  <2>2. stale \in SUBSET Keys /\ Held \cap stale = stale
    BY DEF Held
  <2> HIDE DEF stale
  <2>3. Held' = Held \ stale
    BY <1>t, <2>1, <2>2, DropHeld
  <2>4. Cardinality(Held') = Cardinality(Held) - Cardinality(stale) /\ Cardinality(stale) \in Nat
    BY <1>n, <2>2, <2>3, FS_Difference, HeldFinite, FS_CardinalityType
  <2>5. created' <= Cardinality(Held') + evicted' + swept'
    BY <1>n, <2>1, <2>4 DEF OrderAndCount, DropsAreCounted
  <2>6. ahead' = {q \in ahead : q[1] \notin stale /\ q[2] \notin stale}
    BY <2>1 DEF Drop
  <2>7. Ordered(ahead, Held)
    BY <1>t DEF OrderInv, Ordered
  <2>8. Ordered(ahead', Held')
    BY <2>3, <2>6, <2>7, DropOrders
  <2> QED BY <1>t, <2>5, <2>8 DEF OrderAndCount, OrderInv, Ordered, DropsAreCounted
<1>6. CASE Close
  <2>1. Held' = {} /\ phase' = "done"
    BY <1>6 DEF Close, Held
  <2> QED BY <1>t, <2>1 DEF OrderAndCount, OrderInv, DropsAreCounted
<1>7. ASSUME NEW n \in Caps, SetMaxSessions(n) PROVE OrderAndCount'
  BY <1>0, <1>7 DEF SetMaxSessions
<1>8. ASSUME NEW s \in Supplied, Collect(s) PROVE OrderAndCount'
  BY <1>0, <1>8 DEF Collect
<1>9. CASE UNCHANGED vars
  BY <1>0, <1>9 DEF vars
<1> QED
  BY <1>1, <1>2, <1>3, <1>4, <1>5, <1>6, <1>7, <1>8, <1>9 DEF Next

LEMMA OrderAndCountHold == Spec => []OrderAndCount
  BY OrderAndCountInit, OrderAndCountStep, PTL DEF Spec

\* The keys stay in one order, whatever moves, evictions and sweeps there are,
\* so popitem has one oldest key; and get and adopt share no key.
THEOREM PoolIsOrdered == Spec => []PoolInv
<1>1. LeakInv /\ OrderAndCount => PoolInv
  BY DEF LeakInv, OrderAndCount, PoolInv
<1>2. LeakInv /\ [Next]_vars => LeakInv'
  BY LeakStep
<1> QED BY <1>1, <1>2, LeakInit, OrderAndCountHold, PTL DEF Spec

\* Every session built is pooled or was counted when it left (sessions.py, the
\* statistics of get, _trim and sweep), for every cap and any number of keys.
THEOREM CountsLoseNothing == Spec => []DropsAreCounted
<1>1. OrderAndCount => DropsAreCounted
  BY DEF OrderAndCount
<1> QED BY <1>1, OrderAndCountHold, PTL

-----------------------------------------------------------------------------
(* What the pool hands out is open.                                        *)

\* The session just inserted under a new key is not among those the trim takes.
LEMMA NewestStays ==
  ASSUME TypeOK, max_sessions # 0,
         NEW k \in Keys \ Held, NEW s \in Sessions, NEW ext, NEW lf,
         InsertAndTrim(k, s, ext, lf)
  PROVE  pool'[k] = s
<1> DEFINE held  == Held \cup {k}
           order == MoveToEnd(ahead, Held, k)
<1>1. PICK victims \in SUBSET held :
            /\ IsOldest(victims, Excess(held), order, held)
            /\ Drop(victims, [pool EXCEPT ![k] = s], order, ext, lf)
  BY DEF InsertAndTrim
<1>2. k \notin victims
  <2> SUFFICES ASSUME k \in victims PROVE FALSE
    OBVIOUS
  <2>1. \A j : <<k, j>> \notin order
    BY DEF MoveToEnd
  <2>2. victims = held
    BY <1>1, <2>1 DEF IsOldest
  <2>3. IsFiniteSet(held) /\ Cardinality(held) \in Nat /\ max_sessions \in Nat
    BY HeldFinite, FS_CardinalityType, PoolConstants DEF Held, TypeOK
  <2>4. Cardinality(held) # 0
    BY <2>3, FS_EmptySet
  <2> HIDE DEF held
  <2> QED BY <1>1, <2>2, <2>3, <2>4 DEF IsOldest, Excess
<1> QED BY <1>1, <1>2 DEF Drop, TypeOK

\* A supplied session in the pool has not been collected.
Live == \A k \in Keys : pool[k] \in Supplied => life[pool[k]] = "open"

LEMMA LiveStep ==
  ASSUME OneKeyEach, SuppliedInv, Live, [Next]_vars
  PROVE  Live'
<1>1. SuppliedInv' /\ TypeOK /\ TypeOK'
  BY LifetimeStep DEF SuppliedInv, LeakInv
<1>2. ASSUME NEW s, s = NoSession \/ life[s] # "gone",
             \A k \in Keys : pool'[k] \in {pool[k], NoSession, s},
             \A t \in Sessions : life'[t] \in {"closed", "open", life[t]}
      PROVE  Live'
  BY <1>1, <1>2, PoolConstants DEF Live, SuppliedInv, Sessions
<1>3. ASSUME NEW k \in Keys, NEW s \in Sessions, NEW ext, NEW lf, life[s] # "gone",
             \A t \in Sessions : lf[t] \in {"open", life[t]},
             InsertAndTrim(k, s, ext, lf)
      PROVE  Live'
  <2>1. PICK K, order : Drop(K, [pool EXCEPT ![k] = s], order, ext, lf)
    BY <1>3 DEF InsertAndTrim
  <2> QED BY <1>1, <1>2, <1>3, <2>1 DEF Drop, TypeOK
<1>4. ASSUME NEW k \in Keys, NEW s \in Owned, GetMiss(k, s) PROVE Live'
  BY <1>1, <1>3, <1>4 DEF GetMiss, TypeOK, Sessions
<1>5. ASSUME NEW k \in Keys, NEW s \in Supplied, AdoptOther(k, s) PROVE Live'
  BY <1>3, <1>5 DEF AdoptOther, Sessions
<1>6. ASSUME NEW idle, Sweep(idle) PROVE Live'
  BY <1>1, <1>2, <1>6 DEF Sweep, Drop, TypeOK
<1>7. CASE Close
  BY <1>1, <1>2, <1>7 DEF Close, TypeOK
<1>8. ASSUME NEW s \in Supplied, Collect(s) PROVE Live'
  BY <1>1, <1>8, PoolConstants DEF Collect, Live, Pooled, Held, TypeOK, Sessions
<1>9. CASE UNCHANGED <<pool, life>>
  BY <1>9 DEF Live
<1> QED
  BY <1>4, <1>5, <1>6, <1>7, <1>8, <1>9
  DEF Next, vars, GetHit, AdoptSame, SetMaxSessions

OpenInv == SuppliedInv /\ Live

LEMMA OpenInit == Init => OpenInv
  BY SuppliedInit, PoolConstants DEF Init, OpenInv, Live, Sessions

LEMMA OpenStep == OneKeyEach /\ OpenInv /\ [Next]_vars => OpenInv'
  BY LifetimeStep, LiveStep DEF OpenInv

\* Whichever way a session is asked for, it is open when it is handed out.
LEMMA HandsOutOpen ==
  ASSUME OneKeyEach, OpenInv, [Next]_vars, max_sessions # 0, NEW k \in Keys
  PROVE  /\ GetHit(k) => life'[pool[k]] = "open"
         /\ \A s \in Owned : GetMiss(k, s) => life'[s] = "open"
         /\ \A s \in Supplied : AdoptSame(k, s) \/ AdoptOther(k, s) => life'[s] = "open"
<1>1. OpenInv' /\ TypeOK /\ SuppliedInv
  BY OpenStep DEF OpenInv, SuppliedInv, LeakInv
<1>2. ASSUME GetHit(k) PROVE life'[pool[k]] = "open"
  <2>1. pool[k] \in Owned
    BY <1>1, <1>2, PoolConstants, LeakFacts
    DEF GetHit, Held, BuiltKeys, TypeOK, Sessions, SuppliedInv
  <2> QED BY <1>1, <1>2, <2>1, LeakFacts DEF GetHit, SuppliedInv
<1>3. ASSUME NEW s \in Owned, GetMiss(k, s) PROVE life'[s] = "open"
  <2>1. pool'[k] = s
    BY <1>1, <1>3, NewestStays DEF GetMiss, Sessions
  <2>2. NoSessionLeaked' /\ k \in Held'
    BY <1>1, <1>3, <2>1, PoolConstants DEF OpenInv, SuppliedInv, LeakInv, Held
  <2> QED BY <2>1, <2>2 DEF NoSessionLeaked, Pooled
<1>4. ASSUME NEW s \in Supplied, AdoptSame(k, s) PROVE life'[s] = "open"
  BY <1>4 DEF AdoptSame, OpenInv, Live
<1>5. ASSUME NEW s \in Supplied, AdoptOther(k, s) PROVE life'[s] = "open"
  <2>1. life'[s] \in {"closed", life[s]} /\ life[s] # "gone"
    BY <1>5 DEF AdoptOther, InsertAndTrim, Drop, Sessions
  <2>2. life[s] \in {"open", "gone"} /\ life'[s] \in {"open", "gone"}
    BY <1>1 DEF OpenInv, SuppliedInv
  <2> QED BY <2>1, <2>2
<1> QED BY <1>2, <1>3, <1>4, <1>5

-----------------------------------------------------------------------------
(* That the pool is LRU                                                     *)

\* The order of the OrderedDict agrees with the order in which keys were
\* served, but for keys whose session was replaced.
Agrees(order, since, kept) ==
    \A j, k \in Keys : <<j, k>> \in order /\ j \notin kept => <<j, k>> \in since

RecencyInv == TypeOK /\ Agrees(ahead, served, replaced)

LEMMA RecencyStepsThePool == RecencyNext => Next
  BY DEF RecencyNext, Next

\* A key that moves to the end when it is served keeps the two in agreement.
LEMMA MovedAgrees ==
  ASSUME RecencyInv, NEW k \in Keys, Served(k, FALSE)
  PROVE  Agrees(MoveToEnd(ahead, Held, k), served', replaced')
  BY DEF RecencyInv, Agrees, Served, MoveToEnd, Held

\* A key served at its old place does too, since it counts as replaced.
LEMMA StayingAgrees ==
  ASSUME RecencyInv, NEW k \in Keys, Served(k, TRUE)
  PROVE  Agrees(ahead, served', replaced')
  BY DEF RecencyInv, Agrees, Served, MoveToEnd

\* What an insertion evicts is ahead of what stays, in an order that agrees.
LEMMA InsertionEvictsOldest ==
  ASSUME RecencyInv, NEW k \in Keys, NEW s \in Sessions, NEW ext, NEW lf,
         InsertAndTrim(k, s, ext, lf), Served(k, k \in Held)
  PROVE  /\ Agrees(ahead', served', replaced')
         /\ \A j \in (Held \ Held') \ replaced', m \in {i \in Keys : pool'[i] # NoSession} :
                <<j, m>> \in served'
<1> DEFINE held  == Held \cup {k}
           order == IF k \in Held THEN ahead ELSE MoveToEnd(ahead, Held, k)
<1>1. PICK victims \in SUBSET held :
            /\ IsOldest(victims, Excess(held), order, held)
            /\ Drop(victims, [pool EXCEPT ![k] = s], order, ext, lf)
  BY DEF InsertAndTrim
<1>2. Agrees(order, served', replaced')
  <2>1. CASE k \in Held
    <3>1. Served(k, TRUE)
      BY <2>1 DEF Served
    <3> QED BY <2>1, <3>1, StayingAgrees
  <2>2. CASE k \notin Held
    <3>1. Served(k, FALSE)
      BY <2>2 DEF Served
    <3> QED BY <2>2, <3>1, MovedAgrees
  <2> QED BY <2>1, <2>2
<1>3. ahead' \subseteq order
  <2> HIDE DEF order
  <2> QED BY <1>1 DEF Drop
<1>4. \A i \in Keys : pool'[i] # NoSession <=> i \in held \ victims
  <2>1. \A i \in Keys : pool'[i] = IF i \in victims THEN NoSession
                                   ELSE [pool EXCEPT ![k] = s][i]
    <3> HIDE DEF order, held
    <3> QED BY <1>1 DEF Drop
  <2>2. \A i \in Keys : [pool EXCEPT ![k] = s][i] # NoSession <=> i \in held
    BY PoolConstants DEF RecencyInv, TypeOK, Held, Sessions
  <2> HIDE DEF held
  <2> QED BY <2>1, <2>2
<1>5. \A v \in victims, m \in held \ victims : <<v, m>> \in order
  <2> HIDE DEF order, held
  <2> QED BY <1>1 DEF IsOldest
<1>6. held \subseteq Keys /\ Held \subseteq held /\ Held' = {i \in Keys : pool'[i] # NoSession}
  BY DEF Held
<1> HIDE DEF held, order
<1>7. \A j \in (Held \ Held') \ replaced', m \in {i \in Keys : pool'[i] # NoSession} :
          <<j, m>> \in served'
  BY <1>2, <1>4, <1>5, <1>6 DEF Agrees
<1> QED BY <1>2, <1>3, <1>7 DEF Agrees

\* The pool evicts the keys served least recently (sessions.py:27, _trim),
\* but for those whose supplied session was replaced.
THEOREM EvictionsAreLRU == RecencySpec => EvictsLeastRecentlyServed
<1> DEFINE Oldest ==
        evicted' > evicted =>
            \A j \in (Held \ Held') \ replaced', k \in {i \in Keys : pool'[i] # NoSession} :
                <<j, k>> \in served'
<1>1. RecencyInit => RecencyInv
  BY TypeInit DEF RecencyInit, RecencyInv, Agrees, Init
<1>2. RecencyInv /\ [RecencyNext]_recencyVars => RecencyInv' /\ [Oldest]_recencyVars
  <2> SUFFICES ASSUME RecencyInv, [RecencyNext]_recencyVars
               PROVE  Agrees(ahead', served', replaced') /\ [Oldest]_recencyVars /\ TypeOK'
    BY DEF RecencyInv, Agrees
  <2>0. TypeOK'
    BY RecencyStepsThePool, TypeStep DEF RecencyInv, recencyVars
  <2>n. ASSUME evicted' = evicted PROVE [Oldest]_recencyVars
    BY <2>n DEF RecencyInv, TypeOK
  <2>1. ASSUME NEW k \in Keys, GetHit(k), Served(k, FALSE)
        PROVE  Agrees(ahead', served', replaced') /\ [Oldest]_recencyVars
    BY <2>1, <2>n, MovedAgrees DEF GetHit
  <2>2. ASSUME NEW k \in Keys, NEW s \in Owned, GetMiss(k, s), Served(k, FALSE)
        PROVE  Agrees(ahead', served', replaced') /\ [Oldest]_recencyVars
    <3>1. Served(k, k \in Held) /\ s \in Sessions
      BY <2>2 DEF GetMiss, Served, Sessions
    <3> QED BY <2>2, <3>1, InsertionEvictsOldest DEF GetMiss
  <2>3. ASSUME NEW k \in Keys, NEW s \in Supplied, AdoptSame(k, s), Served(k, FALSE)
        PROVE  Agrees(ahead', served', replaced') /\ [Oldest]_recencyVars
    <3>1. ahead' = MoveToEnd(ahead, Held, k) /\ evicted' = evicted
      BY <2>3 DEF AdoptSame, stats
    <3> QED BY <2>3, <2>n, <3>1, MovedAgrees
  <2>4. ASSUME NEW k \in Keys, NEW s \in Supplied, AdoptOther(k, s), Served(k, k \in Held)
        PROVE  Agrees(ahead', served', replaced') /\ [Oldest]_recencyVars
    <3>1. s \in Sessions
      BY DEF Sessions
    <3> QED BY <2>4, <3>1, InsertionEvictsOldest DEF AdoptOther
  <2>5. ASSUME UNCHANGED history, ahead' \subseteq ahead, evicted' = evicted
        PROVE  Agrees(ahead', served', replaced') /\ [Oldest]_recencyVars
    BY <2>5, <2>n DEF RecencyInv, Agrees, history
  <2>6. ASSUME NEW idle, Sweep(idle), UNCHANGED history
        PROVE  Agrees(ahead', served', replaced') /\ [Oldest]_recencyVars
    BY <2>5, <2>6 DEF Sweep, Drop
  <2>7. ASSUME Close, UNCHANGED history
        PROVE  Agrees(ahead', served', replaced') /\ [Oldest]_recencyVars
    BY <2>5, <2>7 DEF Close, stats
  <2>8. ASSUME NEW n, SetMaxSessions(n), UNCHANGED history
        PROVE  Agrees(ahead', served', replaced') /\ [Oldest]_recencyVars
    BY <2>5, <2>8 DEF SetMaxSessions, stats
  <2>9. ASSUME NEW s, Collect(s), UNCHANGED history
        PROVE  Agrees(ahead', served', replaced') /\ [Oldest]_recencyVars
    BY <2>5, <2>9 DEF Collect, stats
  <2>10. ASSUME UNCHANGED recencyVars
         PROVE  Agrees(ahead', served', replaced') /\ [Oldest]_recencyVars
    BY <2>5, <2>10 DEF recencyVars, vars, stats, history
  <2> QED BY <2>0, <2>1, <2>2, <2>3, <2>4, <2>6, <2>7, <2>8, <2>9, <2>10 DEF RecencyNext
<1> QED
  BY <1>1, <1>2, PTL DEF RecencySpec, EvictsLeastRecentlyServed

================================================================================
