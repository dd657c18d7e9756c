------------------------------- MODULE ListProofs -------------------------------
(***************************************************************************)
(* What is known of Lists, for lists of any length.  The library's theorems *)
(* on induction and on recursive functions take an operator, which no       *)
(* prover here instantiates: induction is proved again for a set, from      *)
(* well-foundedness, and so is that a recursive function exists.            *)
(***************************************************************************)
EXTENDS Lists, SequencesExt, SequenceTheorems, WellFoundedInduction, TLAPS

\* A set of natural numbers has a least element.
LEMMA LeastExists ==
  ASSUME NEW T, T \subseteq Nat, T # {}
  PROVE  \E m \in T : \A k \in T : m <= k
<1>1. IsWellFoundedOn({ss \in Nat \X Nat : ss[1] < ss[2]}, Nat)
  BY NatLessThanWellFounded DEF OpToRel
<1>2. \E x \in T : \A y \in T : ~ (<<y, x>> \in {ss \in Nat \X Nat : ss[1] < ss[2]})
  BY <1>1, WFMin
<1>3. PICK x \in T : \A y \in T : ~ (<<y, x>> \in {ss \in Nat \X Nat : ss[1] < ss[2]})
  BY <1>2
<1>4. ASSUME NEW k \in T PROVE x <= k
  <2>1. ~ (<<k, x>> \in {ss \in Nat \X Nat : ss[1] < ss[2]})
    BY <1>3
  <2>2. x \in Nat /\ k \in Nat
    OBVIOUS
  <2>3. ~ (k < x)
    BY <2>1, <2>2
  <2> QED BY <2>2, <2>3
<1> QED BY <1>4

\* Induction, for a set that stands for the property.
LEMMA UpTo ==
  ASSUME NEW N \in Nat, NEW P, 0 \in P,
         \A n \in 1 .. N : n - 1 \in P => n \in P
  PROVE  0 .. N \subseteq P
<1> DEFINE T == {n \in 0 .. N : n \notin P}
<1> SUFFICES ASSUME T # {} PROVE FALSE
  OBVIOUS
<1>1. T \subseteq Nat
  OBVIOUS
<1>2. PICK m \in T : \A k \in T : m <= k
  <2> HIDE DEF T
  <2> QED BY <1>1, LeastExists
<1>3. m \in 1 .. N /\ m \notin P
  OBVIOUS
<1>4. m - 1 \notin T
  BY <1>2, <1>3
<1>5. m - 1 \in P
  BY <1>3, <1>4
<1> QED BY <1>3, <1>5

\* Induction on lists, for a set that stands for the property.
LEMMA ListInduction ==
  ASSUME NEW T, NEW P, <<>> \in P,
         \A s \in Seq(T), x \in T : s \in P => Append(s, x) \in P
  PROVE  Seq(T) \subseteq P
<1> SUFFICES ASSUME NEW s \in Seq(T) PROVE s \in P
  OBVIOUS
<1>1. PICK N \in Nat : N = Len(s)
  BY LenProperties
<1> DEFINE Part(n) == SubSeq(s, 1, n)
           Q == {n \in 0 .. N : Part(n) \in P}
<1>2. Part(0) = <<>>
  BY SubSeqEmpty
<1>3. ASSUME NEW n \in 1 .. N
      PROVE  Part(n - 1) \in Seq(T) /\ s[n] \in T /\ Part(n) = Append(Part(n - 1), s[n])
  BY <1>1
<1>4. Part(N) = s
  BY <1>1, SubSeqFull
<1> HIDE DEF Part
<1>5. 0 \in Q
  BY <1>2
<1>6. ASSUME NEW n \in 1 .. N, n - 1 \in Q PROVE n \in Q
  <2>1. Part(n - 1) \in P
    BY <1>6
  <2>2. PICK r \in Seq(T) : r = Part(n - 1)
    BY <1>3
  <2>3. PICK x \in T : x = s[n]
    BY <1>3
  <2>4. Append(r, x) \in P
    BY <2>1, <2>2
  <2>5. Part(n) = Append(r, x)
    BY <1>3, <2>2, <2>3
  <2>6. Part(n) \in P
    BY <2>4, <2>5
  <2> QED BY <2>6
<1>7. N \in Q
  <2> HIDE DEF Q
  <2>1. 0 .. N \subseteq Q
    BY <1>5, <1>6, UpTo
  <2> QED BY <2>1
<1> QED BY <1>4, <1>7

LEMMA OneLess ==
  ASSUME NEW m \in Int, NEW k \in Int, k < m
  PROVE  k = m - 1 \/ k < m - 1
  OBVIOUS

\* A recursion for a function from S to D: G says its value somewhere, which
\* depends on its values of lower rank.
IsRecursion(S, D, M, rank, G) ==
    /\ D # {} /\ M \in Nat /\ rank \in [S -> 0 .. M]
    /\ G \in [S \X [S -> D] -> D]
    /\ \A p \in S : \A f, h \in [S -> D] :
          (\A q \in S : rank[q] < rank[p] => f[q] = h[q]) => G[<<p, f>>] = G[<<p, h>>]

LEMMA RecursionExists ==
  ASSUME NEW S, NEW D, NEW M, NEW rank, NEW G, IsRecursion(S, D, M, rank, G)
  PROVE  \E f \in [S -> D] : \A p \in S : f[p] = G[<<p, f>>]
<1>0. /\ D # {} /\ M \in Nat /\ rank \in [S -> 0 .. M]
      /\ G \in [S \X [S -> D] -> D]
      /\ \A p \in S : \A f, h \in [S -> D] :
            (\A q \in S : rank[q] < rank[p] => f[q] = h[q]) => G[<<p, f>>] = G[<<p, h>>]
  BY DEF IsRecursion
<1> DEFINE Upto(f, m) == \A p \in S : rank[p] < m => f[p] = G[<<p, f>>]
           P == {m \in 0 .. M + 1 : \E f \in [S -> D] : Upto(f, m)}
<1>1. 0 \in P
  <2>1. PICK d : d \in D
    BY <1>0
  <2>2. [p \in S |-> d] \in [S -> D] /\ Upto([p \in S |-> d], 0)
    BY <1>0, <2>1
  <2> HIDE DEF Upto
  <2> QED BY <1>0, <2>2
<1>2. ASSUME NEW m \in 1 .. M + 1, m - 1 \in P PROVE m \in P
  <2>1. PICK f \in [S -> D] : Upto(f, m - 1)
    BY <1>2
  <2>2. PICK h : h = [p \in S |-> IF rank[p] = m - 1 THEN G[<<p, f>>] ELSE f[p]]
    OBVIOUS
  <2>3. h \in [S -> D]
    BY <1>0, <2>2
  <2>4. ASSUME NEW p \in S, rank[p] < m PROVE h[p] = G[<<p, h>>]
    <3>1. \A q \in S : rank[q] < rank[p] => h[q] = f[q]
      BY <1>0, <2>2, <2>4
    <3>2. G[<<p, h>>] = G[<<p, f>>]
      BY <1>0, <2>3, <3>1
    <3>3. rank[p] = m - 1 \/ rank[p] < m - 1
      <4>1. PICK k \in 0 .. M : k = rank[p]
        BY <1>0
      <4>2. k < m
        BY <2>4, <4>1
      <4>3. k = m - 1 \/ k < m - 1
        BY <1>0, <4>2, OneLess
      <4> QED BY <4>1, <4>3
    <3>4. h[p] = G[<<p, f>>]
      BY <2>1, <2>2, <3>3
    <3> QED BY <3>2, <3>4
  <2> QED BY <2>3, <2>4
<1>3. M + 1 \in P
  <2> HIDE DEF P
  <2>1. 0 .. M + 1 \subseteq P
    BY <1>0, <1>1, <1>2, UpTo
  <2> QED BY <1>0, <2>1
<1>4. PICK f \in [S -> D] : Upto(f, M + 1)
  BY <1>0, <1>3
<1>5. \A p \in S : f[p] = G[<<p, f>>]
  BY <1>0, <1>4
<1> QED BY <1>5

\* Induction downwards.
LEMMA DownFrom ==
  ASSUME NEW N \in Nat, NEW P, N \in P, \A n \in 1 .. N : n \in P => n - 1 \in P
  PROVE  0 .. N \subseteq P
<1> DEFINE Q == {k \in 0 .. N : N - k \in P}
<1>1. 0 \in Q
  OBVIOUS
<1>2. ASSUME NEW k \in 1 .. N, k - 1 \in Q PROVE k \in Q
  <2>1. N - (k - 1) \in 1 .. N /\ N - (k - 1) \in P /\ N - (k - 1) - 1 = N - k
    BY <1>2
  <2> QED BY <2>1
<1>3. 0 .. N \subseteq Q
  <2> HIDE DEF Q
  <2> QED BY <1>1, <1>2, UpTo
<1>4. ASSUME NEW n \in 0 .. N PROVE n \in P
  <2>1. N - n \in Q /\ N - (N - n) = n
    BY <1>3
  <2> QED BY <2>1
<1> QED BY <1>4

\* Strong induction.
LEMMA AllBelow ==
  ASSUME NEW N \in Nat, NEW P,
         \A n \in 0 .. N : (\A m \in 0 .. n - 1 : m \in P) => n \in P
  PROVE  0 .. N \subseteq P
<1> DEFINE Q == {n \in 0 .. N : \A m \in 0 .. n : m \in P}
<1>1. 0 \in Q
  OBVIOUS
<1>2. ASSUME NEW n \in 1 .. N, n - 1 \in Q PROVE n \in Q
  <2>1. \A m \in 0 .. n - 1 : m \in P
    BY <1>2
  <2>2. n \in P
    BY <2>1
  <2>3. \A m \in 0 .. n : m = n \/ m \in 0 .. n - 1
    OBVIOUS
  <2> QED BY <2>1, <2>2, <2>3
<1>3. 0 .. N \subseteq Q
  <2> HIDE DEF Q
  <2> QED BY <1>1, <1>2, UpTo
<1> QED BY <1>3

\* The same downwards.
LEMMA AllAbove ==
  ASSUME NEW N \in Nat, NEW P,
         \A p \in 1 .. N : (\A q \in p + 1 .. N : q \in P) => p \in P
  PROVE  1 .. N \subseteq P
<1> DEFINE Q == {n \in 0 .. N : \A q \in n + 1 .. N : q \in P}
<1>1. N \in Q
  OBVIOUS
<1>2. ASSUME NEW n \in 1 .. N, n \in Q PROVE n - 1 \in Q
  <2>1. \A q \in n + 1 .. N : q \in P
    BY <1>2
  <2>2. n \in P
    BY <2>1
  <2>3. \A q \in n - 1 + 1 .. N : q = n \/ q \in n + 1 .. N
    OBVIOUS
  <2> QED BY <2>1, <2>2, <2>3
<1>3. 0 \in Q
  <2> HIDE DEF Q
  <2>1. 0 .. N \subseteq Q
    BY <1>1, <1>2, DownFrom
  <2> QED BY <2>1
<1> QED BY <1>3

\* What makes a function a list, and the first elements of one.
LEMMA ListIs ==
  ASSUME NEW T, NEW n \in Nat, NEW f, f = [i \in 1 .. n |-> f[i]], \A i \in 1 .. n : f[i] \in T
  PROVE  f \in Seq(T) /\ Len(f) = n
  OBVIOUS

LEMMA PrefixIs ==
  ASSUME NEW T, NEW z \in Seq(T), NEW n \in 0 .. Len(z)
  PROVE  SubSeq(z, 1, n) = [j \in 1 .. n |-> z[j]]
  OBVIOUS

\* Concatenations may be regrouped.
Groups(T) ==
    /\ \A a, b, c \in Seq(T) : (a \o b) \o c = a \o (b \o c)
    /\ \A a, b \in Seq(T) : \A v \in T : a \o Append(b, v) = Append(a \o b, v)

LEMMA GroupsAll == ASSUME NEW T PROVE Groups(T)
  BY ConcatAssociative DEF Groups

LEMMA ConcatAppend ==
  ASSUME NEW T, NEW a \in Seq(T), NEW b \in Seq(T), NEW v \in T
  PROVE  a \o Append(b, v) = Append(a \o b, v)
  OBVIOUS

-----------------------------------------------------------------------------
(* Only                                                                    *)

\* The states f of the comprehension's loop over the first N elements.
IsLoop(f, s, S, N) ==
    /\ f[0] = <<>>
    /\ \A n \in 1 .. N :
          f[n] = IF s[n] \in S THEN Append(f[n - 1], s[n]) ELSE f[n - 1]

LEMMA OnlyLoop ==
  ASSUME NEW s, NEW S, NEW N \in Nat
  PROVE  N = Len(s) => \E f : Only(s, S) = f[N] /\ IsLoop(f, s, S, N)
<1> DEFINE Step(kept, x) == IF x \in S THEN Append(kept, x) ELSE kept
           Eq(f, m) == f = [n \in 0 .. m |-> IF n = 0 THEN <<>> ELSE Step(f[n - 1], s[n])]
           P == {m \in 0 .. N : \E f : Eq(f, m)}
           State == CHOOSE f : Eq(f, N)
<1>1. N = Len(s) => Only(s, S) = State[N]
  BY DEF Only, Loop
<1> HIDE DEF Step
<1>2. 0 \in P
  <2>1. Eq([n \in 0 .. 0 |-> <<>>], 0)
    OBVIOUS
  <2> HIDE DEF Eq
  <2> QED BY <2>1
<1>3. ASSUME NEW m \in 1 .. N, m - 1 \in P PROVE m \in P
  <2>1. PICK f : Eq(f, m - 1)
    BY <1>3
  <2> DEFINE h == [n \in 0 .. m |-> IF n = m THEN Step(f[m - 1], s[m]) ELSE f[n]]
  <2>2. Eq(h, m)
    <3>1. ASSUME NEW n \in 0 .. m
          PROVE  h[n] = IF n = 0 THEN <<>> ELSE Step(h[n - 1], s[n])
      <4>1. CASE n = m
        BY <4>1
      <4>2. CASE n = 0
        BY <2>1, <4>2
      <4>3. CASE n \in 1 .. m - 1
        <5>1. h[n] = f[n] /\ h[n - 1] = f[n - 1]
          BY <4>3
        <5>2. f[n] = Step(f[n - 1], s[n])
          BY <2>1, <4>3
        <5> QED BY <4>3, <5>1, <5>2
      <4> QED BY <4>1, <4>2, <4>3
    <3> QED BY <3>1
  <2> HIDE DEF Eq, h
  <2> QED BY <2>2
<1>4. Eq(State, N)
  <2>1. N \in P
    <3> HIDE DEF P
    <3>1. 0 .. N \subseteq P
      BY <1>2, <1>3, UpTo
    <3> QED BY <3>1
  <2>2. \E f : Eq(f, N)
    BY <2>1
  <2> HIDE DEF Eq
  <2> QED BY <2>2
<1> HIDE DEF State
<1>5. IsLoop(State, s, S, N)
  <2>1. State[0] = <<>>
    BY <1>4
  <2>2. ASSUME NEW n \in 1 .. N PROVE State[n] = Step(State[n - 1], s[n])
    <3>1. n \in 0 .. N /\ n # 0
      OBVIOUS
    <3> QED BY <1>4, <3>1
  <2> QED BY <2>1, <2>2 DEF IsLoop, Step
<1> QED BY <1>1, <1>5

\* Loops over lists that agree are in the same state after the elements on which
\* they agree.
LEMMA OnlyLoopsAgree ==
  ASSUME NEW N \in Nat, NEW s, NEW t, NEW S, NEW R, NEW f, NEW h,
         IsLoop(f, s, S, N), IsLoop(h, t, R, N),
         \A n \in 1 .. N : s[n] = t[n] /\ (s[n] \in S <=> s[n] \in R)
  PROVE  f[N] = h[N]
<1> DEFINE P == {n \in 0 .. N : f[n] = h[n]}
<1>1. 0 \in P
  BY DEF IsLoop
<1>2. ASSUME NEW n \in 1 .. N, n - 1 \in P PROVE n \in P
  BY <1>2 DEF IsLoop
<1>3. 0 .. N \subseteq P
  <2> HIDE DEF P
  <2> QED BY <1>1, <1>2, UpTo
<1> QED BY <1>3

\* What Only does with the empty list and with one more element.
LEMMA OnlyEmpty == ASSUME NEW S PROVE Only(<<>>, S) = <<>>
<1>1. PICK s : s = <<>>
  OBVIOUS
<1>2. s \in Seq({}) /\ Len(s) = 0
  BY <1>1, EmptySeq
<1>3. PICK f : Only(s, S) = f[0] /\ IsLoop(f, s, S, 0)
  BY <1>2, OnlyLoop
<1> QED BY <1>1, <1>2, <1>3 DEF IsLoop

LEMMA OnlyAppend ==
  ASSUME NEW T, NEW s \in Seq(T), NEW x \in T, NEW S
  PROVE  Only(Append(s, x), S) = IF x \in S THEN Append(Only(s, S), x) ELSE Only(s, S)
<1>1. PICK N \in Nat : N = Len(s)
  BY LenProperties
<1>2. PICK t : t = Append(s, x)
  OBVIOUS
<1>3. t \in Seq(T) /\ Len(t) = N + 1 /\ t[N + 1] = x /\ \A n \in 1 .. N : t[n] = s[n]
  BY <1>1, <1>2, AppendProperties
<1>4. PICK f : Only(s, S) = f[N] /\ IsLoop(f, s, S, N)
  BY <1>1, OnlyLoop
<1>5. PICK h : Only(t, S) = h[N + 1] /\ IsLoop(h, t, S, N + 1)
  BY <1>3, OnlyLoop
<1>6. IsLoop(h, t, S, N)
  BY <1>5 DEF IsLoop
<1>7. f[N] = h[N]
  BY <1>3, <1>4, <1>6, OnlyLoopsAgree
<1>8. h[N + 1] = IF x \in S THEN Append(h[N], x) ELSE h[N]
  BY <1>3, <1>5 DEF IsLoop
<1> QED BY <1>2, <1>4, <1>5, <1>7, <1>8

\* What is kept is of the list and of the set.
LEMMA OnlyType ==
  ASSUME NEW T, NEW s \in Seq(T), NEW S
  PROVE  Only(s, S) \in Seq(T \cap S) /\ Len(Only(s, S)) <= Len(s)
<1> DEFINE P == {r \in Seq(T) : Only(r, S) \in Seq(T \cap S) /\ Len(Only(r, S)) <= Len(r)}
<1>1. <<>> \in P
  <2>1. <<>> \in Seq(T) /\ <<>> \in Seq(T \cap S) /\ Len(<<>>) <= Len(<<>>)
    OBVIOUS
  <2> QED BY <2>1, OnlyEmpty
<1>2. ASSUME NEW r \in Seq(T), NEW x \in T, r \in P PROVE Append(r, x) \in P
  <2>1. PICK u : u = Only(r, S)
    OBVIOUS
  <2>2. PICK v : v = Only(Append(r, x), S)
    OBVIOUS
  <2>3. v = IF x \in S THEN Append(u, x) ELSE u
    BY <2>1, <2>2, OnlyAppend
  <2>4. u \in Seq(T \cap S) /\ Len(u) <= Len(r)
    BY <1>2, <2>1
  <2>5. Append(r, x) \in Seq(T) /\ Len(Append(r, x)) = Len(r) + 1
    OBVIOUS
  <2>6. v \in Seq(T \cap S) /\ Len(v) <= Len(r) + 1
    BY <2>3, <2>4
  <2> QED BY <2>2, <2>5, <2>6
<1>3. Seq(T) \subseteq P
  <2> HIDE DEF P
  <2> QED BY <1>1, <1>2, ListInduction
<1> QED BY <1>3

LEMMA OnlyInList == ASSUME NEW T, NEW s \in Seq(T), NEW S PROVE Only(s, S) \in Seq(T)
<1>1. Only(s, S) \in Seq(T \cap S) /\ T \cap S \subseteq T
  BY OnlyType
<1> QED BY <1>1, SeqMonotonic

\* Only the elements of the list matter to the set.
LEMMA OnlySame ==
  ASSUME NEW T, NEW s \in Seq(T), NEW S, NEW R,
         \A i \in 1 .. Len(s) : s[i] \in S <=> s[i] \in R
  PROVE  Only(s, S) = Only(s, R)
<1>1. PICK N \in Nat : N = Len(s)
  BY LenProperties
<1>2. PICK f : Only(s, S) = f[N] /\ IsLoop(f, s, S, N)
  BY <1>1, OnlyLoop
<1>3. PICK h : Only(s, R) = h[N] /\ IsLoop(h, s, R, N)
  BY <1>1, OnlyLoop
<1>4. \A n \in 1 .. N : s[n] = s[n] /\ (s[n] \in S <=> s[n] \in R)
  BY <1>1
<1> QED BY <1>2, <1>3, <1>4, OnlyLoopsAgree

\* All of the list, and nothing of it.
LEMMA OnlyAll ==
  ASSUME NEW T, NEW s \in Seq(T), NEW S, \A i \in 1 .. Len(s) : s[i] \in S
  PROVE  Only(s, S) = s
<1> DEFINE P == {r \in Seq(T) : Only(r, T) = r}
<1>1. <<>> \in P
  BY OnlyEmpty
<1>2. ASSUME NEW r \in Seq(T), NEW x \in T, r \in P PROVE Append(r, x) \in P
  BY <1>2, OnlyAppend
<1>3. Seq(T) \subseteq P
  <2> HIDE DEF P
  <2> QED BY <1>1, <1>2, ListInduction
<1>4. \A i \in 1 .. Len(s) : s[i] \in T
  OBVIOUS
<1>5. Only(s, S) = Only(s, T)
  BY <1>4, OnlySame
<1> QED BY <1>3, <1>5

LEMMA OnlyNone ==
  ASSUME NEW T, NEW s \in Seq(T), NEW S, \A i \in 1 .. Len(s) : s[i] \notin S
  PROVE  Only(s, S) = <<>>
<1>1. Only(s, S) = Only(s, {})
  BY OnlySame
<1>2. Only(s, {}) \in Seq(T \cap {})
  BY OnlyType
<1>3. T \cap {} = {}
  OBVIOUS
<1> QED BY <1>1, <1>2, <1>3

-----------------------------------------------------------------------------
(* Prefixes                                                                *)

LEMMA PrefixIff ==
  ASSUME NEW T, NEW s \in Seq(T), NEW t \in Seq(T)
  PROVE  IsPrefix(s, t) <=> Len(s) <= Len(t) /\ \A i \in 1 .. Len(s) : s[i] = t[i]
<1>1. PICK N \in Nat : N = Len(s)
  BY LenProperties
<1>2. SubSeq(s, 1, N) = s
  BY <1>1, SubSeqFull
<1>3. CASE N <= Len(t)
  <2>1. PICK u : u = SubSeq(t, 1, N)
    OBVIOUS
  <2>2. u \in Seq(T) /\ Len(u) = N /\ \A i \in 1 .. N : u[i] = t[i]
    <3>1. \A i \in 1 .. N : t[i] \in T
      BY <1>3
    <3>2. /\ u \in Seq(T) /\ Len(u) = IF 1 <= N THEN N - 1 + 1 ELSE 0
          /\ \A i \in 1 .. N - 1 + 1 : u[i] = t[1 + i - 1]
      BY <2>1, <3>1, SubSeqProperties
    <3> QED BY <3>2
  <2>3. u = s <=> \A i \in 1 .. N : s[i] = t[i]
    <3>1. (\A i \in 1 .. N : s[i] = t[i]) => \A i \in 1 .. N : s[i] = u[i]
      BY <2>2
    <3>2. (\A i \in 1 .. N : s[i] = u[i]) => s = u
      BY <1>1, <2>2, SeqEqual
    <3> QED BY <2>2, <3>1, <3>2
  <2> QED BY <1>1, <1>2, <1>3, <2>1, <2>3 DEF IsPrefix
<1>4. CASE ~ (N <= Len(t))
  BY <1>1, <1>4 DEF IsPrefix
<1> QED BY <1>3, <1>4

LEMMA PrefixConcat ==
  ASSUME NEW T, NEW s \in Seq(T), NEW t \in Seq(T)
  PROVE  IsPrefix(s, s \o t)
<1>1. PICK u : u = s \o t
  OBVIOUS
<1>2. /\ u \in Seq(T) /\ Len(u) = Len(s) + Len(t)
      /\ \A i \in 1 .. Len(s) + Len(t) : u[i] = IF i <= Len(s) THEN s[i] ELSE t[i - Len(s)]
  BY <1>1, ConcatProperties
<1>3. Len(s) \in Nat /\ Len(t) \in Nat
  BY LenProperties
<1>4. Len(s) <= Len(u) /\ \A i \in 1 .. Len(s) : s[i] = u[i]
  BY <1>2, <1>3
<1> QED BY <1>1, <1>2, <1>4, PrefixIff

LEMMA PrefixBehind ==
  ASSUME NEW T, NEW x \in Seq(T), NEW s \in Seq(T), NEW t \in Seq(T), IsPrefix(s, t)
  PROVE  IsPrefix(x \o s, x \o t)
<1>1. PICK N \in Nat, M \in Nat, L \in Nat : N = Len(s) /\ M = Len(t) /\ L = Len(x)
  BY LenProperties
<1>2. N <= M /\ \A i \in 1 .. N : s[i] = t[i]
  BY <1>1, PrefixIff
<1>3. PICK u : u = x \o s
  OBVIOUS
<1>4. PICK v : v = x \o t
  OBVIOUS
<1>5. u \in Seq(T) /\ Len(u) = L + N /\ \A i \in 1 .. L + N : u[i] = IF i <= L THEN x[i] ELSE s[i - L]
  BY <1>1, <1>3, ConcatProperties
<1>6. v \in Seq(T) /\ Len(v) = L + M /\ \A i \in 1 .. L + M : v[i] = IF i <= L THEN x[i] ELSE t[i - L]
  BY <1>1, <1>4, ConcatProperties
<1>7. ASSUME NEW i \in 1 .. L + N PROVE u[i] = v[i]
  <2>1. i \in 1 .. L + M
    BY <1>2
  <2>2. CASE i <= L
    BY <1>5, <1>6, <2>1, <2>2
  <2>3. CASE i > L
    <3>1. PICK j \in 1 .. N : j = i - L
      BY <2>3
    <3>2. u[i] = s[j] /\ v[i] = t[j]
      BY <1>5, <1>6, <2>1, <2>3, <3>1
    <3> QED BY <1>2, <3>2
  <2> QED BY <2>2, <2>3
<1>8. L + N <= L + M
  BY <1>2
<1> QED BY <1>3, <1>4, <1>5, <1>6, <1>7, <1>8, PrefixIff

LEMMA PrefixRest ==
  ASSUME NEW T, NEW s \in Seq(T), NEW t \in Seq(T), IsPrefix(s, t)
  PROVE  \E r \in Seq(T) : t = s \o r
<1>1. PICK N \in Nat, M \in Nat : N = Len(s) /\ M = Len(t) /\ N <= M
  BY LenProperties, PrefixIff
<1>2. SubSeq(t, 1, N) = s
  BY <1>1, SubSeqFull DEF IsPrefix
<1>3. PICK r : r = SubSeq(t, N + 1, M)
  OBVIOUS
<1>4. r \in Seq(T)
  <2>1. \A i \in N + 1 .. M : t[i] \in T
    BY <1>1
  <2> QED BY <1>3, <2>1, SubSeqProperties
<1>5. SubSeq(t, 1, N) \o SubSeq(t, N + 1, M) = SubSeq(t, 1, M)
  <2>1. 1 \in 1 .. M + 1 /\ N \in 1 - 1 .. M /\ M \in N .. M
    BY <1>1
  <2> QED BY <1>1, <2>1, ConcatAdjacentSubSeq
<1> QED BY <1>1, <1>2, <1>3, <1>4, <1>5, SubSeqFull

LEMMA OnlyConcat ==
  ASSUME NEW T, NEW s \in Seq(T), NEW t \in Seq(T), NEW S
  PROVE  Only(s \o t, S) = Only(s, S) \o Only(t, S)
<1>1. PICK a \in Seq(T) : a = Only(s, S)
  BY OnlyInList
<1> DEFINE P == {r \in Seq(T) : Only(s \o r, S) = a \o Only(r, S)}
<1>2. <<>> \in P
  <2>1. s \o <<>> = s /\ a \o <<>> = a
    BY ConcatEmptySeq
  <2> QED BY <1>1, <2>1, OnlyEmpty, EmptySeq
<1>3. ASSUME NEW r \in Seq(T), NEW x \in T, r \in P PROVE Append(r, x) \in P
  <2>1. PICK b \in Seq(T) : b = Only(r, S)
    BY OnlyInList
  <2>2. PICK c \in Seq(T) : c = s \o r /\ s \o Append(r, x) = Append(c, x)
    <3>1. s \o Append(r, x) = Append(s \o r, x)
      OBVIOUS
    <3> QED BY <3>1, ConcatProperties
  <2>3. Only(c, S) = a \o b
    BY <1>3, <2>1, <2>2
  <2>4. Only(Append(c, x), S) = IF x \in S THEN Append(a \o b, x) ELSE a \o b
    BY <2>3, OnlyAppend
  <2>5. Only(Append(r, x), S) = IF x \in S THEN Append(b, x) ELSE b
    BY <2>1, OnlyAppend
  <2>6. x \in S => a \o Append(b, x) = Append(a \o b, x)
    BY <1>1
  <2>7. Only(s \o Append(r, x), S) = a \o Only(Append(r, x), S)
    BY <2>2, <2>4, <2>5, <2>6
  <2> QED BY <2>7
<1>4. Seq(T) \subseteq P
  <2> HIDE DEF P
  <2> QED BY <1>2, <1>3, ListInduction
<1> QED BY <1>1, <1>4

LEMMA OnlyPrefix ==
  ASSUME NEW T, NEW s \in Seq(T), NEW t \in Seq(T), IsPrefix(s, t), NEW S
  PROVE  IsPrefix(Only(s, S), Only(t, S))
<1>1. PICK r \in Seq(T) : t = s \o r
  BY PrefixRest
<1>2. Only(t, S) = Only(s, S) \o Only(r, S)
  BY <1>1, OnlyConcat
<1>3. Only(s, S) \in Seq(T) /\ Only(r, S) \in Seq(T)
  BY OnlyInList
<1> QED BY <1>2, <1>3, PrefixConcat

\* What is in a list after one more element.
LEMMA ToSetAppend ==
  ASSUME NEW T, NEW s \in Seq(T), NEW x \in T
  PROVE  ToSet(Append(s, x)) = ToSet(s) \cup {x}
<1>1. PICK N \in Nat : N = Len(s)
  BY LenProperties
<1>2. PICK t : t = Append(s, x)
  OBVIOUS
<1>3. DOMAIN t = 1 .. N + 1 /\ t[N + 1] = x /\ (\A i \in 1 .. N : t[i] = s[i]) /\ DOMAIN s = 1 .. N
  BY <1>1, <1>2
<1>4. ToSet(t) = ToSet(s) \cup {x}
  BY <1>3 DEF ToSet
<1> QED BY <1>2, <1>4

LEMMA ToSetEmpty == ToSet(<<>>) = {}
  BY DEF ToSet

LEMMA OnlyToSet ==
  ASSUME NEW T, NEW s \in Seq(T), NEW S
  PROVE  ToSet(Only(s, S)) = ToSet(s) \cap S
<1> DEFINE P == {r \in Seq(T) : ToSet(Only(r, S)) = ToSet(r) \cap S}
<1>1. <<>> \in P
  BY OnlyEmpty, ToSetEmpty, EmptySeq
<1>2. ASSUME NEW r \in Seq(T), NEW x \in T, r \in P PROVE Append(r, x) \in P
  <2>1. PICK u : u = Only(r, S)
    OBVIOUS
  <2>2. u \in Seq(T)
    BY <2>1, OnlyInList
  <2>3. Only(Append(r, x), S) = IF x \in S THEN Append(u, x) ELSE u
    BY <2>1, OnlyAppend
  <2>4. x \in S => ToSet(Append(u, x)) = ToSet(u) \cup {x}
    BY <2>2, ToSetAppend
  <2>5. ToSet(Append(r, x)) = ToSet(r) \cup {x}
    BY ToSetAppend
  <2>6. ToSet(u) = ToSet(r) \cap S
    BY <1>2, <2>1
  <2>7. ToSet(Only(Append(r, x), S)) = ToSet(Append(r, x)) \cap S
    BY <2>3, <2>4, <2>5, <2>6
  <2> QED BY <2>7
<1>3. Seq(T) \subseteq P
  <2> HIDE DEF P
  <2> QED BY <1>1, <1>2, ListInduction
<1> QED BY <1>3

LEMMA OnlyOnly ==
  ASSUME NEW T, NEW s \in Seq(T), NEW S, NEW R
  PROVE  Only(Only(s, S), R) = Only(s, S \cap R)
<1> DEFINE P == {r \in Seq(T) : Only(Only(r, S), R) = Only(r, S \cap R)}
<1>1. <<>> \in P
  BY OnlyEmpty, EmptySeq
<1>2. ASSUME NEW r \in Seq(T), NEW x \in T, r \in P PROVE Append(r, x) \in P
  <2>1. PICK u \in Seq(T) : u = Only(r, S)
    BY OnlyInList
  <2>2. Only(u, R) = Only(r, S \cap R)
    BY <1>2, <2>1
  <2>3. PICK v : v = Only(Append(r, x), S)
    OBVIOUS
  <2>4. v = IF x \in S THEN Append(u, x) ELSE u
    BY <2>1, <2>3, OnlyAppend
  <2>5. Only(Append(u, x), R) = IF x \in R THEN Append(Only(u, R), x) ELSE Only(u, R)
    BY OnlyAppend
  <2>6. PICK both : both = S \cap R
    OBVIOUS
  <2>7. Only(Append(r, x), both) = IF x \in both THEN Append(Only(r, both), x) ELSE Only(r, both)
    BY OnlyAppend
  <2>8. Only(v, R) = Only(Append(r, x), both)
    BY <2>2, <2>4, <2>5, <2>6, <2>7
  <2>9. Append(r, x) \in Seq(T)
    OBVIOUS
  <2> QED BY <2>3, <2>6, <2>8, <2>9
<1>3. Seq(T) \subseteq P
  <2> HIDE DEF P
  <2> QED BY <1>1, <1>2, ListInduction
<1> QED BY <1>3

LEMMA FirstOfAppend ==
  ASSUME NEW T, NEW s \in Seq(T), NEW x \in T
  PROVE  Append(s, x) # <<>> /\ Append(s, x)[1] = IF s = <<>> THEN x ELSE s[1]
<1>1. /\ Append(s, x) # <<>> /\ Append(s, x)[Len(s) + 1] = x
      /\ \A i \in 1 .. Len(s) : Append(s, x)[i] = s[i]
  BY AppendProperties
<1>2. (s = <<>> => Len(s) = 0) /\ (s # <<>> => Len(s) \in Nat \ {0})
  BY EmptySeq
<1> QED BY <1>1, <1>2

\* The first of those in a set is the first of those in a smaller set, if it is
\* in that one.
LEMMA OnlyFirst ==
  ASSUME NEW T, NEW s \in Seq(T), NEW S, NEW R, R \subseteq S,
         Only(s, S) # <<>>, Only(s, S)[1] \in R
  PROVE  Only(s, R) # <<>> /\ Only(s, R)[1] = Only(s, S)[1]
<1> DEFINE Same(r) == Only(r, S) # <<>> /\ Only(r, S)[1] \in R =>
                         Only(r, R) # <<>> /\ Only(r, R)[1] = Only(r, S)[1]
           None(r) == Only(r, S) = <<>> => Only(r, R) = <<>>
           P == {r \in Seq(T) : Same(r) /\ None(r)}
<1>1. <<>> \in P
  BY OnlyEmpty, EmptySeq
<1>2. ASSUME NEW r \in Seq(T), NEW x \in T, r \in P PROVE Append(r, x) \in P
  <2>1. PICK a \in Seq(T), b \in Seq(T) : a = Only(r, S) /\ b = Only(r, R)
    <3>1. Only(r, S) \in Seq(T) /\ Only(r, R) \in Seq(T)
      BY OnlyInList
    <3> QED BY <3>1
  <2>2. PICK c, d : c = Only(Append(r, x), S) /\ d = Only(Append(r, x), R)
    BY Zenon
  <2>3. c = IF x \in S THEN Append(a, x) ELSE a
    <3>1. Only(Append(r, x), S) = IF x \in S THEN Append(Only(r, S), x) ELSE Only(r, S)
      BY OnlyAppend
    <3> QED BY <2>1, <2>2, <3>1
  <2>4. d = IF x \in R THEN Append(b, x) ELSE b
    <3>1. Only(Append(r, x), R) = IF x \in R THEN Append(Only(r, R), x) ELSE Only(r, R)
      BY OnlyAppend
    <3> QED BY <2>1, <2>2, <3>1
  <2>5. (a # <<>> /\ a[1] \in R => b # <<>> /\ b[1] = a[1]) /\ (a = <<>> => b = <<>>)
    <3>1. Same(r) /\ None(r)
      <4> HIDE DEF Same, None
      <4> QED BY <1>2
    <3> QED BY <2>1, <3>1
  <2>6. /\ Append(a, x) # <<>> /\ Append(a, x)[1] = IF a = <<>> THEN x ELSE a[1]
        /\ Append(b, x) # <<>> /\ Append(b, x)[1] = IF b = <<>> THEN x ELSE b[1]
    BY FirstOfAppend
  <2>7. (c # <<>> /\ c[1] \in R => d # <<>> /\ d[1] = c[1]) /\ (c = <<>> => d = <<>>)
    BY <2>3, <2>4, <2>5, <2>6
  <2>8. Append(r, x) \in Seq(T)
    OBVIOUS
  <2> QED BY <2>2, <2>7, <2>8
<1>3. Seq(T) \subseteq P
  <2> HIDE DEF P
  <2> QED BY <1>1, <1>2, ListInduction
<1> QED BY <1>3

-----------------------------------------------------------------------------
(* Loops whose states are known to stay in a set                           *)

LoopOf(f, g, start, s, N) ==
    f = [n \in 0 .. N |-> IF n = 0 THEN start ELSE g[<<f[n - 1], s[n]>>]]

\* A recursive function on the elements gone through exists, and is what it says
\* at every number of them.
LEMMA LoopExists ==
  ASSUME NEW D, NEW T, NEW g \in [D \X T -> D], NEW start \in D,
         NEW N \in Nat, NEW s, \A n \in 1 .. N : s[n] \in T
  PROVE  \E f \in [0 .. N -> D] : LoopOf(f, g, start, s, N)
<1> DEFINE P == {m \in 0 .. N : \E f \in [0 .. m -> D] : LoopOf(f, g, start, s, m)}
<1>1. 0 \in P
  <2>1. PICK f : f = [n \in 0 .. 0 |-> start]
    OBVIOUS
  <2>2. f \in [0 .. 0 -> D] /\ LoopOf(f, g, start, s, 0)
    BY <2>1 DEF LoopOf
  <2> QED BY <2>2
<1>2. ASSUME NEW m \in 1 .. N, m - 1 \in P PROVE m \in P
  <2>1. PICK f \in [0 .. m - 1 -> D] : LoopOf(f, g, start, s, m - 1)
    BY <1>2
  <2>2. PICK h : h = [n \in 0 .. m |-> IF n = m THEN g[<<f[m - 1], s[m]>>] ELSE f[n]]
    OBVIOUS
  <2>3. s[m] \in T /\ f[m - 1] \in D /\ 0 .. m = 0 .. m - 1 \cup {m}
    OBVIOUS
  <2>4. g[<<f[m - 1], s[m]>>] \in D
    BY <2>3
  <2>5. h \in [0 .. m -> D]
    BY <2>2, <2>3, <2>4
  <2>6. ASSUME NEW n \in 0 .. m
        PROVE  h[n] = IF n = 0 THEN start ELSE g[<<h[n - 1], s[n]>>]
    <3>1. CASE n = m
      <4>1. h[m] = g[<<f[m - 1], s[m]>>] /\ h[m - 1] = f[m - 1] /\ m # 0
        BY <2>2
      <4> QED BY <3>1, <4>1
    <3>2. CASE n = 0
      BY <2>1, <2>2, <3>2 DEF LoopOf
    <3>3. CASE n \in 1 .. m - 1
      <4>1. h[n] = f[n] /\ h[n - 1] = f[n - 1] /\ n # 0
        BY <2>2, <3>3
      <4>2. f[n] = g[<<f[n - 1], s[n]>>]
        BY <2>1, <3>3 DEF LoopOf
      <4> QED BY <4>1, <4>2
    <3> QED BY <3>1, <3>2, <3>3
  <2>7. LoopOf(h, g, start, s, m)
    BY <2>5, <2>6 DEF LoopOf
  <2> QED BY <2>5, <2>7
<1>3. 0 .. N \subseteq P
  <2> HIDE DEF P
  <2> QED BY <1>1, <1>2, UpTo
<1>4. N \in P
  BY <1>3
<1> QED BY <1>4

-----------------------------------------------------------------------------
(* Total                                                                   *)

IsTotal(f, s, N) == f[0] = 0 /\ \A n \in 1 .. N : f[n] = f[n - 1] + s[n]

LEMMA TotalLoop ==
  ASSUME NEW s \in Seq(Nat), NEW N \in Nat
  PROVE  N = Len(s) => \E f : Total(s) = f[N] /\ IsTotal(f, s, N)
<1> DEFINE Eq(f) == f = [n \in 0 .. N |-> IF n = 0 THEN 0 ELSE f[n - 1] + s[n]]
           State == CHOOSE f : Eq(f)
           g == [p \in Nat \X Nat |-> p[1] + p[2]]
<1> SUFFICES ASSUME N = Len(s) PROVE \E f : Total(s) = f[N] /\ IsTotal(f, s, N)
  OBVIOUS
<1>1. \A n \in 1 .. N : s[n] \in Nat
  OBVIOUS
<1>2. Total(s) = State[N]
  BY DEF Total, Loop
<1>3. g \in [Nat \X Nat -> Nat]
  OBVIOUS
<1>4. \E f \in [0 .. N -> Nat] : LoopOf(f, g, 0, s, N)
  <2>1. 0 \in Nat
    OBVIOUS
  <2>2. PICK h : h = g
    OBVIOUS
  <2> HIDE DEF g
  <2>3. h \in [Nat \X Nat -> Nat]
    BY <1>3, <2>2
  <2>4. \E f \in [0 .. N -> Nat] : LoopOf(f, h, 0, s, N)
    BY <1>1, <2>1, <2>3, LoopExists
  <2> QED BY <2>2, <2>4
<1>5. PICK f \in [0 .. N -> Nat] : LoopOf(f, g, 0, s, N)
  BY <1>4
<1>6. Eq(f)
  <2>1. ASSUME NEW n \in 1 .. N PROVE g[<<f[n - 1], s[n]>>] = f[n - 1] + s[n]
    <3>1. f[n - 1] \in Nat /\ s[n] \in Nat
      BY <1>1
    <3> QED BY <3>1
  <2>2. ASSUME NEW n \in 0 .. N
        PROVE  (IF n = 0 THEN 0 ELSE g[<<f[n - 1], s[n]>>]) = IF n = 0 THEN 0 ELSE f[n - 1] + s[n]
    <3>1. n = 0 \/ n \in 1 .. N
      OBVIOUS
    <3> HIDE DEF g
    <3> QED BY <2>1, <3>1
  <2> HIDE DEF g
  <2> QED BY <1>5, <2>2 DEF LoopOf
<1>7. Eq(State)
  <2> HIDE DEF Eq
  <2> QED BY <1>6
<1> HIDE DEF State
<1>8. IsTotal(State, s, N)
  <2>1. State[0] = 0
    BY <1>7
  <2>2. ASSUME NEW n \in 1 .. N PROVE State[n] = State[n - 1] + s[n]
    <3>1. n \in 0 .. N /\ n # 0
      OBVIOUS
    <3> QED BY <1>7, <3>1
  <2> QED BY <2>1, <2>2 DEF IsTotal
<1> QED BY <1>2, <1>8

LEMMA TotalLoopsAgree ==
  ASSUME NEW N \in Nat, NEW s, NEW t, NEW f, NEW h, IsTotal(f, s, N), IsTotal(h, t, N),
         \A n \in 1 .. N : s[n] = t[n]
  PROVE  f[N] = h[N]
<1> DEFINE P == {n \in 0 .. N : f[n] = h[n]}
<1>1. 0 \in P
  BY DEF IsTotal
<1>2. ASSUME NEW n \in 1 .. N, n - 1 \in P PROVE n \in P
  BY <1>2 DEF IsTotal
<1>3. 0 .. N \subseteq P
  <2> HIDE DEF P
  <2> QED BY <1>1, <1>2, UpTo
<1> QED BY <1>3

LEMMA TotalEmpty == Total(<<>>) = 0
<1>1. PICK s : s = <<>>
  OBVIOUS
<1>2. s \in Seq(Nat) /\ Len(s) = 0
  BY <1>1, EmptySeq
<1>3. PICK f : Total(s) = f[0] /\ IsTotal(f, s, 0)
  <2>1. 0 \in Nat
    OBVIOUS
  <2> QED BY <1>2, <2>1, TotalLoop
<1> QED BY <1>1, <1>3 DEF IsTotal

LEMMA TotalAppend ==
  ASSUME NEW s \in Seq(Nat), NEW x \in Nat
  PROVE  Total(Append(s, x)) = Total(s) + x
<1>1. PICK N \in Nat : N = Len(s)
  BY LenProperties
<1>2. PICK t : t = Append(s, x)
  OBVIOUS
<1>3. t \in Seq(Nat) /\ Len(t) = N + 1 /\ t[N + 1] = x /\ \A n \in 1 .. N : t[n] = s[n]
  BY <1>1, <1>2, AppendProperties
<1>4. PICK f : Total(s) = f[N] /\ IsTotal(f, s, N)
  BY <1>1, TotalLoop
<1>5. PICK h : Total(t) = h[N + 1] /\ IsTotal(h, t, N + 1)
  BY <1>3, TotalLoop
<1>6. IsTotal(h, t, N)
  BY <1>5 DEF IsTotal
<1>7. f[N] = h[N]
  BY <1>3, <1>4, <1>6, TotalLoopsAgree
<1>8. h[N + 1] = h[N] + x
  BY <1>3, <1>5 DEF IsTotal
<1> QED BY <1>2, <1>4, <1>5, <1>7, <1>8

\* A sum of natural numbers, and of the first of them.
LEMMA TotalNat == ASSUME NEW s \in Seq(Nat) PROVE Total(s) \in Nat
<1> DEFINE P == {r \in Seq(Nat) : Total(r) \in Nat}
<1>1. <<>> \in P
  BY TotalEmpty, EmptySeq
<1>2. ASSUME NEW r \in Seq(Nat), NEW x \in Nat, r \in P PROVE Append(r, x) \in P
  <2>1. Total(Append(r, x)) = Total(r) + x /\ Append(r, x) \in Seq(Nat)
    BY TotalAppend
  <2> QED BY <1>2, <2>1
<1>3. Seq(Nat) \subseteq P
  <2> HIDE DEF P
  <2> QED BY <1>1, <1>2, ListInduction
<1> QED BY <1>3

LEMMA TotalOfNext ==
  ASSUME NEW s \in Seq(Nat), NEW n \in 1 .. Len(s)
  PROVE  Total(SubSeq(s, 1, n)) = Total(SubSeq(s, 1, n - 1)) + s[n]
<1>1. PICK N \in Nat : N = Len(s)
  BY LenProperties
<1>2. n \in 1 .. N /\ s[n] \in Nat
  BY <1>1
<1>3. SubSeq(s, 1, n - 1) \in Seq(Nat) /\ SubSeq(s, 1, n) = Append(SubSeq(s, 1, n - 1), s[n])
  BY <1>1, <1>2
<1>4. PICK r \in Seq(Nat) : r = SubSeq(s, 1, n - 1)
  BY <1>3
<1>5. PICK x \in Nat : x = s[n]
  BY <1>2
<1>6. SubSeq(s, 1, n) = Append(r, x)
  BY <1>3, <1>4, <1>5
<1> QED BY <1>4, <1>5, <1>6, TotalAppend

\* Sums of the first elements grow with them, by each element.
LEMMA TotalGrows ==
  ASSUME NEW s \in Seq(Nat), NEW N \in Nat, N = Len(s), NEW n \in 0 .. N, NEW m \in n .. N
  PROVE  /\ Total(SubSeq(s, 1, n)) \in Nat /\ Total(SubSeq(s, 1, m)) \in Nat
         /\ Total(SubSeq(s, 1, n)) <= Total(SubSeq(s, 1, m))
<1> DEFINE First(k) == Total(SubSeq(s, 1, k))
           P == {k \in 0 .. m : n <= k => First(n) <= First(k)}
<1>1. ASSUME NEW k \in 0 .. N PROVE First(k) \in Nat
  <2>1. SubSeq(s, 1, k) \in Seq(Nat)
    OBVIOUS
  <2> QED BY <2>1, TotalNat
<1>2. ASSUME NEW k \in 1 .. N PROVE First(k) = First(k - 1) + s[k] /\ s[k] \in Nat
  <2>1. k \in 1 .. Len(s) /\ s[k] \in Nat
    OBVIOUS
  <2>2. Total(SubSeq(s, 1, k)) = Total(SubSeq(s, 1, k - 1)) + s[k]
    BY <2>1, TotalOfNext
  <2> QED BY <2>1, <2>2
<1> HIDE DEF First
<1>3. 0 \in P
  BY <1>1
<1>4. ASSUME NEW k \in 1 .. m, k - 1 \in P PROVE k \in P
  <2>1. k \in 1 .. N /\ k - 1 \in 0 .. N /\ k \in 0 .. N
    OBVIOUS
  <2>2. First(k) = First(k - 1) + s[k] /\ s[k] \in Nat /\ First(k - 1) \in Nat /\ First(n) \in Nat
    BY <1>1, <1>2, <2>1
  <2>3. CASE n = k
    BY <2>2, <2>3, <1>1, <2>1
  <2>4. CASE n # k
    BY <1>4, <2>2, <2>4
  <2> QED BY <2>3, <2>4
<1>5. 0 .. m \subseteq P
  <2> HIDE DEF P
  <2>1. m \in Nat
    OBVIOUS
  <2> QED BY <1>3, <1>4, <2>1, UpTo
<1>6. First(n) <= First(m)
  BY <1>5
<1> QED BY <1>1, <1>6 DEF First

-----------------------------------------------------------------------------
(* Lists of lists                                                          *)

IsFlat(f, s, N) == f[1] = s[1] /\ \A n \in 2 .. N : f[n] = f[n - 1] \o s[n]

LEMMA FlattenLoop ==
  ASSUME NEW s, NEW N \in Nat \ {0}
  PROVE  N = Len(s) => \E f : FlattenSeq(s) = f[N] /\ IsFlat(f, s, N)
<1> DEFINE Step(flat, x) == flat \o x
           Eq(f, m) == f = [n \in 1 .. m |-> IF n = 1 THEN s[n] ELSE Step(f[n - 1], s[n])]
           P == {m \in 0 .. N : m = 0 \/ \E f : Eq(f, m)}
           State == CHOOSE f : Eq(f, N)
<1>1. N = Len(s) => FlattenSeq(s) = State[N]
  BY DEF FlattenSeq
<1> HIDE DEF Step
<1>2. 0 \in P
  OBVIOUS
<1>3. ASSUME NEW m \in 1 .. N, m - 1 \in P PROVE m \in P
  <2>1. CASE m = 1
    <3>1. Eq([n \in 1 .. 1 |-> s[1]], 1)
      OBVIOUS
    <3> HIDE DEF Eq
    <3> QED BY <2>1, <3>1
  <2>2. CASE m \in 2 .. N
    <3>1. m - 1 # 0
      BY <2>2
    <3>2. \E f : Eq(f, m - 1)
      <4> HIDE DEF Eq
      <4> QED BY <1>3, <3>1
    <3>3. PICK f : Eq(f, m - 1)
      BY <3>2
    <3> DEFINE h == [n \in 1 .. m |-> IF n = m THEN Step(f[m - 1], s[m]) ELSE f[n]]
    <3>4. Eq(h, m)
      <4>1. ASSUME NEW n \in 1 .. m
            PROVE  h[n] = IF n = 1 THEN s[n] ELSE Step(h[n - 1], s[n])
        <5>1. CASE n = m
          BY <2>2, <5>1
        <5>2. CASE n = 1
          BY <2>2, <3>3, <5>2
        <5>3. CASE n \in 2 .. m - 1
          <6>1. h[n] = f[n] /\ h[n - 1] = f[n - 1]
            BY <2>2, <5>3
          <6>2. f[n] = Step(f[n - 1], s[n])
            BY <2>2, <3>3, <5>3
          <6> QED BY <5>3, <6>1, <6>2
        <5>4. n = m \/ n = 1 \/ n \in 2 .. m - 1
          BY <2>2
        <5> QED BY <5>1, <5>2, <5>3, <5>4
      <4> QED BY <4>1
    <3> HIDE DEF Eq, h
    <3> QED BY <3>4
  <2>3. m = 1 \/ m \in 2 .. N
    OBVIOUS
  <2> QED BY <2>1, <2>2, <2>3
<1>4. Eq(State, N)
  <2>1. N \in P
    <3> HIDE DEF P
    <3>1. 0 .. N \subseteq P
      BY <1>2, <1>3, UpTo
    <3> QED BY <3>1
  <2>2. \E f : Eq(f, N)
    <3> HIDE DEF Eq
    <3> QED BY <2>1
  <2> HIDE DEF Eq
  <2> QED BY <2>2
<1> HIDE DEF State
<1>5. IsFlat(State, s, N)
  <2>1. State[1] = s[1]
    BY <1>4
  <2>2. ASSUME NEW n \in 2 .. N PROVE State[n] = Step(State[n - 1], s[n])
    <3>1. n \in 1 .. N /\ n # 1
      OBVIOUS
    <3> QED BY <1>4, <3>1
  <2> QED BY <2>1, <2>2 DEF IsFlat, Step
<1> QED BY <1>1, <1>5

LEMMA FlattenLoopsAgree ==
  ASSUME NEW N \in Nat \ {0}, NEW s, NEW t, NEW f, NEW h, IsFlat(f, s, N), IsFlat(h, t, N),
         \A n \in 1 .. N : s[n] = t[n]
  PROVE  f[N] = h[N]
<1> DEFINE P == {n \in 0 .. N : n = 0 \/ f[n] = h[n]}
<1>1. 0 \in P
  OBVIOUS
<1>2. ASSUME NEW n \in 1 .. N, n - 1 \in P PROVE n \in P
  <2>1. CASE n = 1
    BY <2>1 DEF IsFlat
  <2>2. CASE n # 1
    <3>1. n \in 2 .. N /\ f[n - 1] = h[n - 1]
      BY <1>2, <2>2
    <3>2. f[n] = f[n - 1] \o s[n] /\ h[n] = h[n - 1] \o t[n] /\ s[n] = t[n]
      BY <3>1 DEF IsFlat
    <3>3. f[n] = h[n]
      BY <3>1, <3>2
    <3> QED BY <3>3
  <2> QED BY <2>1, <2>2
<1>3. 0 .. N \subseteq P
  <2> HIDE DEF P
  <2> QED BY <1>1, <1>2, UpTo
<1>4. N \in P
  BY <1>3
<1> QED BY <1>4

LEMMA FlattenEmpty == FlattenSeq(<<>>) = <<>>
  BY EmptySeq DEF FlattenSeq

LEMMA FlattenAppend ==
  ASSUME NEW T, NEW s \in Seq(Seq(T)), NEW x \in Seq(T)
  PROVE  FlattenSeq(Append(s, x)) = FlattenSeq(s) \o x
<1>1. PICK N \in Nat : N = Len(s)
  BY LenProperties
<1>2. PICK t : t = Append(s, x)
  OBVIOUS
<1>3. /\ t \in Seq(Seq(T)) /\ Len(t) = N + 1 /\ t[N + 1] = x
      /\ \A n \in 1 .. N : s[n] = t[n]
  BY <1>1, <1>2, AppendProperties
<1>4. PICK h : FlattenSeq(t) = h[N + 1] /\ IsFlat(h, t, N + 1)
  <2>1. N + 1 \in Nat \ {0}
    OBVIOUS
  <2> QED BY <1>3, <2>1, FlattenLoop
<1>5. CASE N = 0
  <2>1. s = <<>>
    BY <1>1, <1>5, EmptySeq
  <2>2. FlattenSeq(t) = x
    BY <1>3, <1>4, <1>5 DEF IsFlat
  <2> QED BY <1>2, <2>1, <2>2, FlattenEmpty, ConcatEmptySeq
<1>6. CASE N # 0
  <2>1. N \in Nat \ {0} /\ N + 1 \in 2 .. N + 1 /\ N + 1 - 1 = N
    BY <1>6
  <2>2. PICK f : FlattenSeq(s) = f[N] /\ IsFlat(f, s, N)
    BY <1>1, <2>1, FlattenLoop
  <2>3. IsFlat(h, t, N)
    <3>1. \A n \in 2 .. N : n \in 2 .. N + 1
      OBVIOUS
    <3> QED BY <1>4, <3>1 DEF IsFlat
  <2>4. f[N] = h[N]
    BY <1>3, <2>1, <2>2, <2>3, FlattenLoopsAgree
  <2> DEFINE Flat(n, m) == h[n] = h[m] \o t[n]
  <2>5. \A n \in 2 .. N + 1 : Flat(n, n - 1)
    BY <1>4 DEF IsFlat
  <2>6. Flat(N + 1, N)
    <3> HIDE DEF Flat
    <3> QED BY <2>1, <2>5
  <2> QED BY <1>2, <1>3, <1>4, <2>2, <2>4, <2>6
<1> QED BY <1>5, <1>6

LEMMA FlattenType == ASSUME NEW T, NEW s \in Seq(Seq(T)) PROVE FlattenSeq(s) \in Seq(T)
<1> DEFINE P == {r \in Seq(Seq(T)) : FlattenSeq(r) \in Seq(T)}
<1>1. <<>> \in P
  BY FlattenEmpty, EmptySeq
<1>2. ASSUME NEW r \in Seq(Seq(T)), NEW x \in Seq(T), r \in P PROVE Append(r, x) \in P
  <2>1. FlattenSeq(r) \in Seq(T)
    BY <1>2
  <2>2. FlattenSeq(Append(r, x)) = FlattenSeq(r) \o x
    BY <2>1, FlattenAppend
  <2>3. FlattenSeq(r) \o x \in Seq(T) /\ Append(r, x) \in Seq(Seq(T))
    BY <2>1, ConcatProperties, AppendProperties
  <2> QED BY <2>2, <2>3
<1>3. Seq(Seq(T)) \subseteq P
  <2> HIDE DEF P
  <2> QED BY <1>1, <1>2, ListInduction
<1> QED BY <1>3

LEMMA FlattenConcat ==
  ASSUME NEW T, NEW s \in Seq(Seq(T)), NEW t \in Seq(Seq(T))
  PROVE  FlattenSeq(s \o t) = FlattenSeq(s) \o FlattenSeq(t)
<1>1. PICK a \in Seq(T) : a = FlattenSeq(s)
  BY FlattenType
<1>2. \A x, y, z \in Seq(T) : (x \o y) \o z = x \o (y \o z)
  <2>1. Groups(T)
    BY GroupsAll
  <2> QED BY <2>1 DEF Groups
<1>3. \A r \in Seq(Seq(T)), x \in Seq(T) : s \o Append(r, x) = Append(s \o r, x)
  <2>1. Groups(Seq(T))
    BY GroupsAll
  <2> QED BY <2>1 DEF Groups
<1> DEFINE P == {r \in Seq(Seq(T)) : FlattenSeq(s \o r) = a \o FlattenSeq(r)}
<1>4. <<>> \in P
  BY <1>1, ConcatEmptySeq, FlattenEmpty, EmptySeq
<1>5. ASSUME NEW r \in Seq(Seq(T)), NEW x \in Seq(T), r \in P PROVE Append(r, x) \in P
  <2>1. PICK b \in Seq(T) : b = FlattenSeq(r)
    BY FlattenType
  <2>2. PICK c \in Seq(Seq(T)) : c = s \o r
    BY ConcatProperties
  <2>3. s \o Append(r, x) = Append(c, x)
    BY <1>3, <2>2
  <2>4. FlattenSeq(c) = a \o b
    BY <1>5, <2>1, <2>2
  <2>5. FlattenSeq(Append(c, x)) = (a \o b) \o x
    BY <2>4, FlattenType, FlattenAppend
  <2>6. FlattenSeq(Append(r, x)) = b \o x
    BY <2>1, FlattenAppend
  <2>7. (a \o b) \o x = a \o (b \o x)
    BY <1>1, <1>2, <2>1
  <2>8. Append(r, x) \in Seq(Seq(T))
    BY AppendProperties
  <2> QED BY <2>3, <2>5, <2>6, <2>7, <2>8
<1>6. Seq(Seq(T)) \subseteq P
  <2> HIDE DEF P
  <2> QED BY <1>4, <1>5, ListInduction
<1> QED BY <1>1, <1>6

LEMMA FlattenPrefix ==
  ASSUME NEW T, NEW s \in Seq(Seq(T)), NEW t \in Seq(Seq(T)), IsPrefix(s, t)
  PROVE  IsPrefix(FlattenSeq(s), FlattenSeq(t))
<1>1. PICK r \in Seq(Seq(T)) : t = s \o r
  BY PrefixRest
<1>2. FlattenSeq(t) = FlattenSeq(s) \o FlattenSeq(r)
  BY <1>1, FlattenConcat
<1> QED BY <1>2, FlattenType, PrefixConcat

-----------------------------------------------------------------------------
(* Division                                                                *)

LEMMA DivMod ==
  ASSUME NEW d \in Nat \ {0}, NEW x \in Nat
  PROVE  x = d * (x \div d) + (x % d) /\ x % d \in 0 .. d - 1 /\ x \div d \in Nat
  OBVIOUS

LEMMA LessDiv ==
  ASSUME NEW d \in Nat \ {0}, NEW n \in Nat, NEW q \in Nat, NEW r \in 0 .. d - 1,
         d * q + r < d * n + d
  PROVE  q <= n
<1> SUFFICES ASSUME q >= n + 1 PROVE FALSE
  OBVIOUS
<1>1. d * q >= d * (n + 1)
  OBVIOUS
<1> QED BY <1>1

LEMMA DivLess ==
  ASSUME NEW d \in Nat \ {0}, NEW n \in Nat, NEW x \in Nat, x < d * n + d
  PROVE  x \div d \in 0 .. n
<1>1. PICK q \in Nat, r \in 0 .. d - 1 : q = x \div d /\ x = d * q + r
  BY DivMod
<1>2. q <= n
  BY <1>1, LessDiv
<1> QED BY <1>1, <1>2

LEMMA DivUnique ==
  ASSUME NEW d \in Nat \ {0}, NEW n \in Nat, NEW r \in 0 .. d - 1
  PROVE  (d * n + r) \div d = n /\ (d * n + r) % d = r
<1>1. PICK x \in Nat : x = d * n + r
  OBVIOUS
<1>2. PICK q \in Nat, t \in 0 .. d - 1 : q = x \div d /\ t = x % d /\ x = d * q + t
  BY DivMod
<1>3. q <= n
  BY <1>1, <1>2, LessDiv
<1>4. n <= q
  BY <1>1, <1>2, LessDiv
<1>5. q = n
  BY <1>3, <1>4
<1>6. t = r
  BY <1>1, <1>2, <1>5
<1> QED BY <1>1, <1>2, <1>5, <1>6

=============================================================================
