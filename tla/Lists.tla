--------------------------------- MODULE Lists ---------------------------------
(***************************************************************************)
(* What Python does to a list with a loop or a comprehension, as recursive *)
(* functions on the number of elements gone through.                       *)
(***************************************************************************)
EXTENDS Integers, Sequences

\* for x in s: state = Step(state, x)
Loop(Step(_, _), start, s) ==
    LET State[n \in 0 .. Len(s)] == IF n = 0 THEN start ELSE Step(State[n - 1], s[n])
    IN  State[Len(s)]

\* [x for x in s if x in S]
Only(s, S) == Loop(LAMBDA kept, x : IF x \in S THEN Append(kept, x) ELSE kept, <<>>, s)

\* [x for x in s if x not in S]
Without(s, S) == Only(s, {s[i] : i \in DOMAIN s} \ S)

\* sum(s)
Total(s) == Loop(LAMBDA total, n : total + n, 0, s)

=============================================================================
