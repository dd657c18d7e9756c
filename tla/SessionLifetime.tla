--------------------------- MODULE SessionLifetime ---------------------------
(***************************************************************************)
(* What the session pool promises about the sessions it is trusted with,   *)
(* whatever its keys, its cap and its eviction order: a session it built   *)
(* is open for exactly as long as the pool holds it, and is closed in the  *)
(* step in which the pool lets it go; a session the user supplied is held  *)
(* and let go, and never closed.  SessionPool is shown to implement this.  *)
(***************************************************************************)
CONSTANTS Owned, Supplied

VARIABLES held, life

vars == <<held, life>>

Init ==
    /\ held = {}
    /\ life = [s \in Owned \cup Supplied |->
                    IF s \in Owned THEN "unborn" ELSE "open"]

\* The sessions of D are let go while `taken` are (newly) held: of D, those
\* the pool built are closed.
LetGo(D, taken) ==
    /\ held' = (held \cup taken) \ D
    /\ life' = [s \in Owned \cup Supplied |->
                    IF s \in D \cap Owned THEN "closed"
                    ELSE IF s \in taken THEN "open" ELSE life[s]]

\* A session is built, or accepted from the user, and others may have to go.
Take(s) ==
    /\ s \in Owned => life[s] = "unborn"
    /\ s \in Supplied => life[s] = "open"
    /\ \E D \in SUBSET (held \cup {s}) : LetGo(D, {s})

Release == \E D \in SUBSET held : LetGo(D, {})

\* The user forgets a session the pool does not hold.
Forget(s) ==
    /\ s \in Supplied \ held
    /\ life' = [life EXCEPT ![s] = "gone"]
    /\ UNCHANGED held

Next ==
    \/ \E s \in Owned \cup Supplied : Take(s)
    \/ Release
    \/ \E s \in Supplied : Forget(s)

Spec == Init /\ [][Next]_vars

=============================================================================
