----------------------------- MODULE TripsProofs -----------------------------
(***************************************************************************)
(* What Trips keeps for any clients, any places and stops there, any       *)
(* lengths of the roads between them and any number of changes.            *)
(*                                                                         *)
(* A form fills in drives; the drives are recorded as legs, one sequence   *)
(* for the whole trip; and a saved trip is worked out of its legs again.   *)
(* The first three sections are about that sequence: what is picked out of *)
(* one, what joining leaves to be picked out, and what shares add up to.   *)
(***************************************************************************)
EXTENDS Trips, Sums

-----------------------------------------------------------------------------
(* Picking out of a sequence.                                              *)

\* A pass through the places of s that keeps what is in T, and the order it goes in.
Passes(T, s, S, step) ==
    \A k \in DOMAIN s, r \in Seq(S) :
        step[<<k, r>>] = IF s[k] \in T THEN Append(r, s[k]) ELSE r
Greatest(D, pick) == \A t \in SUBSET D : t # {} => pick[t] = Max(t)

\* A pass through a sequence is the recursion on the places gone through.
LEMMA AmongFolds ==
    ASSUME NEW S, NEW T, NEW s \in Seq(S), NEW D, D = DOMAIN s, NEW step, NEW pick,
           Passes(T, s, S, step), Greatest(D, pick)
    PROVE  \E g : Folded(D, Seq(S), <<>>, step, pick, g) /\ Among(T, s) = g[D]
  <1> DEFINE V == Seq(S)
             Then(k, r) == IF s[k] \in T THEN Append(r, s[k]) ELSE r
             Eq(g) == g = [t \in SUBSET D |-> IF t = {} THEN <<>>
                               ELSE LET x == Max(t)
                                    IN  IF s[x] \in T THEN Append(g[t \ {x}], s[x]) ELSE g[t \ {x}]]
             iter == CHOOSE g : Eq(g)
  <1>1. Among(T, s) = iter[D]
    BY DEF Among, FoldLeft, MapThenFoldSet
  <1>2. /\ D \in SUBSET Nat /\ IsFiniteSet(D)
        /\ \A t \in SUBSET D : t \in SUBSET Nat /\ IsFiniteSet(t)
        /\ \A k \in D : s[k] \in S
    <2>1. D = 1..Len(s) /\ Len(s) \in Nat
      OBVIOUS
    <2>2. IsFiniteSet(1..Len(s))
      BY <2>1, FS_Interval
    <2>3. IsFiniteSet(D)
      BY <2>1, <2>2, Zenon
    <2>4. \A k \in D : s[k] \in S
      OBVIOUS
    <2>5. D \in SUBSET Nat
      BY <2>1
    <2>6. \A t \in SUBSET D : t \in SUBSET Nat /\ IsFiniteSet(t)
      BY <2>3, <2>5, FS_Subset
    <2> QED BY <2>3, <2>4, <2>5, <2>6
  <1>3. \A k \in D, r \in V : Then(k, r) \in V /\ step[<<k, r>>] = Then(k, r)
    <2> SUFFICES ASSUME NEW k \in D, NEW r \in V
                 PROVE  Then(k, r) \in V /\ step[<<k, r>>] = Then(k, r)
      OBVIOUS
    <2>1. step[<<k, r>>] = Then(k, r)
      BY DEF Passes
    <2>2. s[k] \in S
      BY <1>2
    <2>3. Append(r, s[k]) \in V
      BY <2>2, AppendProperties
    <2> QED BY <2>1, <2>3
  <1>4. \A t \in SUBSET D : t # {} => Max(t) \in t /\ pick[t] = Max(t)
    BY <1>2, GreatestThere DEF Greatest
  <1> HIDE DEF V, Then
  <1>5. PICK g : Folded(D, V, <<>>, step, pick, g)
    <2>1. <<>> \in V
      BY DEF V
    <2>2. \A k \in D, r \in V : step[<<k, r>>] \in V
      BY <1>3
    <2>3. \A t \in SUBSET D : t # {} => pick[t] \in t
      BY <1>4
    <2> QED BY <1>2, <2>1, <2>2, <2>3, FoldExists
  <1>6. g \in [SUBSET D -> V] /\ g[{}] = <<>>
    BY <1>5 DEF Folded
  <1>7. ASSUME NEW t \in SUBSET D, t # {}
        PROVE  Max(t) \in t /\ g[t] = Then(Max(t), g[t \ {Max(t)}])
    <2>1. Max(t) \in t /\ pick[t] = Max(t) /\ t \ {Max(t)} \in SUBSET D
      BY <1>4, <1>7
    <2>2. g[t] = step[<<pick[t], g[t \ {pick[t]}]>>]
      BY <1>5, <1>7 DEF Folded
    <2> QED BY <1>3, <1>6, <2>1, <2>2
  <1>8. \A h : Eq(h) <=> h = [t \in SUBSET D |-> IF t = {} THEN <<>> ELSE Then(Max(t), h[t \ {Max(t)}])]
    BY DEF Then
  <1> HIDE DEF Eq
  <1>9. Eq(g)
    <2> DEFINE body(t) == IF t = {} THEN <<>> ELSE Then(Max(t), g[t \ {Max(t)}])
    <2>1. \A t \in SUBSET D : g[t] = body(t)
      BY <1>6, <1>7
    <2>2. g = [t \in SUBSET D |-> g[t]]
      BY <1>6
    <2> HIDE DEF body
    <2>3. g = [t \in SUBSET D |-> body(t)]
      BY <2>1, <2>2
    <2>4. g = [t \in SUBSET D |-> IF t = {} THEN <<>> ELSE Then(Max(t), g[t \ {Max(t)}])]
      BY <2>3 DEF body
    <2> QED BY <1>8, <2>4
  <1>10. Eq(iter)
    BY <1>9
  <1>11. \A t \in SUBSET D : iter[t] = IF t = {} THEN <<>> ELSE Then(Max(t), iter[t \ {Max(t)}])
    <2>1. iter = [t \in SUBSET D |-> IF t = {} THEN <<>> ELSE Then(Max(t), iter[t \ {Max(t)}])]
      BY <1>8, <1>10
    <2> HIDE DEF iter
    <2> QED BY <2>1
  <1>12. iter[D] = g[D]
    <2> DEFINE Good == {t \in SUBSET D : iter[t] = g[t]}
    <2> HIDE DEF iter
    <2>1. {} \in Good
      BY <1>6, <1>11
    <2>2. ASSUME NEW t \in SUBSET D, t # {}, \A x \in t : t \ {x} \in Good
          PROVE  t \in Good
      <3>1. Max(t) \in t /\ g[t] = Then(Max(t), g[t \ {Max(t)}])
        BY <1>7, <2>2
      <3>2. iter[t] = Then(Max(t), iter[t \ {Max(t)}])
        BY <1>11, <2>2
      <3>3. iter[t \ {Max(t)}] = g[t \ {Max(t)}]
        BY <2>2, <3>1
      <3> QED BY <3>1, <3>2, <3>3
    <2> HIDE DEF Good
    <2>3. D \in Good
      BY <1>2, <2>1, <2>2, RemovalInduction
    <2> QED BY <2>3 DEF Good
  <1> HIDE DEF iter
  <1> QED BY <1>1, <1>5, <1>12 DEF V

\* What is among nothing, and what one element more brings.
LEMMA AmongAppend ==
    ASSUME NEW S, NEW T, NEW s \in Seq(S), NEW x \in S
    PROVE  /\ Among(T, <<>>) = <<>>
           /\ Among(T, s) \in Seq(S)
           /\ Among(T, Append(s, x)) = IF x \in T THEN Append(Among(T, s), x) ELSE Among(T, s)
  <1> DEFINE n == Len(s)
             long == Append(s, x)
             D == 1..(n + 1)
             V == Seq(S)
             step == [kr \in D \X V |-> IF long[kr[1]] \in T THEN Append(kr[2], long[kr[1]]) ELSE kr[2]]
             pick == [t \in SUBSET D |-> Max(t)]
  <1>1. /\ n \in Nat /\ DOMAIN s = 1..n /\ DOMAIN long = D /\ long \in Seq(S) /\ long[n + 1] = x
        /\ \A k \in 1..n : long[k] = s[k]
    OBVIOUS
  <1>2. Among(T, <<>>) = <<>>
    <2> DEFINE none == [kr \in {} |-> <<>>]
               first == [t \in {} |-> {}]
               E == {}
               nil == <<>>
    <2>1. E = DOMAIN nil /\ nil \in Seq(S)
      OBVIOUS
    <2>2. Passes(T, nil, S, none)
      BY DEF Passes
    <2>3. Greatest(E, first)
      BY DEF Greatest
    <2> HIDE DEF none, first, E, nil
    <2>4. \E g : Folded(E, Seq(S), <<>>, none, first, g) /\ Among(T, nil) = g[E]
      BY <2>1, <2>2, <2>3, AmongFolds
    <2> QED BY <2>4 DEF Folded, E, nil
  <1>3. \A k \in D, r \in V : step[<<k, r>>] = IF long[k] \in T THEN Append(r, long[k]) ELSE r
    <2> HIDE DEF long, D, V
    <2> QED OBVIOUS
  <1>4. Greatest(D, pick) /\ Greatest(1..n, pick)
    <2>1. \A t \in SUBSET (1..n) : t \in SUBSET D
      BY <1>1
    <2> QED BY <2>1 DEF Greatest
  <1> HIDE DEF step, pick
  <1>5. PICK g : Folded(1..n, V, <<>>, step, pick, g) /\ Among(T, s) = g[1..n]
    <2>1. Passes(T, s, S, step)
      <3> SUFFICES ASSUME NEW k \in 1..n, NEW r \in V
                   PROVE  step[<<k, r>>] = IF s[k] \in T THEN Append(r, s[k]) ELSE r
        BY <1>1 DEF Passes
      <3>1. k \in D /\ long[k] = s[k]
        BY <1>1
      <3> HIDE DEF long, D, V
      <3> QED BY <1>3, <3>1
    <2> DEFINE A == 1..n
    <2>2. A = DOMAIN s /\ Greatest(A, pick)
      BY <1>1, <1>4
    <2> HIDE DEF A
    <2>3. \E g : Folded(A, Seq(S), <<>>, step, pick, g) /\ Among(T, s) = g[A]
      BY <2>1, <2>2, AmongFolds
    <2> QED BY <2>3 DEF A
  <1>6. PICK h : Folded(D, V, <<>>, step, pick, h) /\ Among(T, long) = h[D]
    <2>1. Passes(T, long, S, step)
      <3> HIDE DEF long, D
      <3> QED BY <1>1, <1>3 DEF Passes
    <2>2. long \in Seq(S) /\ D = DOMAIN long
      BY <1>1
    <2> HIDE DEF long, D
    <2>3. \E h : Folded(D, Seq(S), <<>>, step, pick, h) /\ Among(T, long) = h[D]
      BY <1>4, <2>1, <2>2, AmongFolds
    <2> QED BY <2>3
  <1>7. D \in SUBSET Nat /\ IsFiniteSet(D) /\ 1..n \in SUBSET D /\ D # {} /\ D \ {n + 1} = 1..n /\ n + 1 \in D
    <2>1. IsFiniteSet(1..(n + 1))
      BY <1>1, FS_Interval
    <2> QED BY <1>1, <2>1
  <1>8. Max(D) = n + 1
    <2>1. \A y \in D : n + 1 >= y
      BY <1>1
    <2>2. \A m \in D : (\A y \in D : m >= y) => m = n + 1
      BY <1>1, <1>7
    <2> HIDE DEF D, n
    <2> QED BY <1>7, <2>1, <2>2 DEF Max
  <1> HIDE DEF D, long
  <1>9. g[1..n] = h[1..n]
    <2>1. \A t \in SUBSET D : t # {} => pick[t] \in t
      <3> TAKE t \in SUBSET D
      <3> HAVE t # {}
      <3>1. t \in SUBSET Nat /\ IsFiniteSet(t)
        BY <1>7, FS_Subset
      <3> QED BY <1>4, <3>1, GreatestThere DEF Greatest
    <2> DEFINE A == 1..n
    <2>2. A \in SUBSET D /\ A \in SUBSET A
      BY <1>7
    <2> HIDE DEF A
    <2>3. Folded(A, V, <<>>, step, pick, g) /\ Folded(D, V, <<>>, step, pick, h)
      BY <1>5, <1>6 DEF A
    <2>4. D \in SUBSET D /\ IsFiniteSet(D)
      BY <1>7
    <2> DEFINE nil == <<>>
    <2>5. Folded(A, V, nil, step, pick, g) /\ Folded(D, V, nil, step, pick, h)
      BY <2>3
    <2> HIDE DEF V, nil
    <2>6. g[A] = h[A]
      <3>1. PickIn(D, pick)
        BY <2>1 DEF PickIn
      <3> QED BY <2>2, <2>4, <2>5, <3>1, FoldOfPart
    <2> QED BY <2>6 DEF A
  <1>10. h[D] = step[<<n + 1, h[1..n]>>] /\ h[1..n] \in V
    <2>1. pick[D] = n + 1
      BY <1>4, <1>7, <1>8 DEF Greatest
    <2>2. h[D] = step[<<pick[D], h[D \ {pick[D]}]>>]
      BY <1>6, <1>7 DEF Folded
    <2> HIDE DEF n, V
    <2> QED BY <1>6, <1>7, <2>1, <2>2 DEF Folded
  <1>11. Among(T, s) \in V
    BY <1>5 DEF Folded
  <1>12. step[<<n + 1, h[1..n]>>] = IF x \in T THEN Append(h[1..n], x) ELSE h[1..n]
    <2> HIDE DEF n, V
    <2> QED BY <1>1, <1>3, <1>7, <1>10
  <1> QED BY <1>2, <1>5, <1>6, <1>9, <1>10, <1>11, <1>12 DEF long
\* What a sequence is made of, with one element more.
LEMMA MembersAppend ==
    ASSUME NEW S, NEW s \in Seq(S), NEW x \in S
    PROVE  /\ ToSet(<<>>) = {} /\ IsInjective(<<>>)
           /\ ToSet(s) \subseteq S /\ (ToSet(s) = {} <=> s = <<>>)
           /\ ToSet(Append(s, x)) = ToSet(s) \cup {x}
           /\ IsInjective(Append(s, x)) <=> IsInjective(s) /\ x \notin ToSet(s)
  <1> DEFINE n == Len(s)
             long == Append(s, x)
  <1>1. /\ n \in Nat /\ DOMAIN s = 1..n /\ DOMAIN long = 1..(n + 1) /\ long[n + 1] = x
        /\ \A k \in 1..n : long[k] = s[k] /\ s[k] \in S
    OBVIOUS
  <1>2. ToSet(<<>>) = {} /\ IsInjective(<<>>)
    BY DEF ToSet, IsInjective
  <1>3. ToSet(s) \subseteq S
    BY <1>1 DEF ToSet
  <1>4. ToSet(s) = {} <=> s = <<>>
    <2>1. s = <<>> <=> n = 0
      OBVIOUS
    <2>2. n # 0 => 1 \in 1..n
      BY <1>1
    <2>3. n = 0 => 1..n = {}
      OBVIOUS
    <2> HIDE DEF n
    <2> QED BY <1>1, <2>1, <2>2, <2>3 DEF ToSet
  <1>5. 1..(n + 1) = (1..n) \cup {n + 1} /\ n + 1 \notin 1..n
    BY <1>1
  <1> HIDE DEF n, long
  <1>6. ToSet(long) = ToSet(s) \cup {x}
    BY <1>1, <1>5 DEF ToSet
  <1>7. IsInjective(long) <=> IsInjective(s) /\ x \notin ToSet(s)
    BY <1>1, <1>5 DEF ToSet, IsInjective
  <1> QED BY <1>2, <1>3, <1>4, <1>6, <1>7 DEF long

\* What is picked out are those of the sequence that are wanted, each as often as it is there.
LEMMA AmongMembers ==
    ASSUME NEW S, NEW T, NEW s \in Seq(S)
    PROVE  /\ Among(T, s) \in Seq(S)
           /\ ToSet(Among(T, s)) = ToSet(s) \cap T
           /\ IsInjective(s) => IsInjective(Among(T, s))
           /\ ToSet(s) \subseteq T => Among(T, s) = s
           /\ ToSet(s) \cap T = {} => Among(T, s) = <<>>
  <1> DEFINE Right(t) ==
                 /\ Among(T, t) \in Seq(S)
                 /\ ToSet(Among(T, t)) = ToSet(t) \cap T
                 /\ IsInjective(t) => IsInjective(Among(T, t))
                 /\ ToSet(t) \subseteq T => Among(T, t) = t
             Good == {t \in Seq(S) : Right(t)}
  <1>1. <<>> \in Good
    <2>1. Among(T, <<>>) = <<>>
      <3>1. <<>> \in Seq({0})
        OBVIOUS
      <3> QED BY <3>1, AmongAppend
    <2>2. ToSet(<<>>) = {} /\ IsInjective(<<>>) /\ <<>> \in Seq(S)
      BY DEF ToSet, IsInjective
    <2> QED BY <2>1, <2>2
  <1>2. ASSUME NEW t \in Seq(S), NEW x \in S, t \in Good PROVE Append(t, x) \in Good
    <2> DEFINE long == Append(t, x)
               kept == Among(T, t)
    <2>1. kept \in Seq(S) /\ Among(T, long) = IF x \in T THEN Append(kept, x) ELSE kept
      BY AmongAppend
    <2>2. /\ ToSet(long) = ToSet(t) \cup {x}
          /\ IsInjective(long) <=> IsInjective(t) /\ x \notin ToSet(t)
      BY MembersAppend
    <2>3. /\ ToSet(Append(kept, x)) = ToSet(kept) \cup {x}
          /\ IsInjective(Append(kept, x)) <=> IsInjective(kept) /\ x \notin ToSet(kept)
      BY <2>1, MembersAppend
    <2>4. Right(t)
      BY <1>2
    <2>5. long \in Seq(S)
      BY AppendProperties
    <2>6. Append(kept, x) \in Seq(S)
      BY <2>1, AppendProperties
    <2>7. ToSet(t) \subseteq T /\ x \in T => Append(kept, x) = long
      BY <2>4
    <2> HIDE DEF long, kept
    <2>8. Right(long)
      <3>1. CASE x \in T
        BY <2>1, <2>2, <2>3, <2>4, <2>7, <2>6, <3>1 DEF kept
      <3>2. CASE x \notin T
        BY <2>1, <2>2, <2>3, <2>4, <3>2 DEF kept
      <3> QED BY <3>1, <3>2
    <2> QED BY <2>5, <2>8 DEF long
  <1>3. s \in Good
    <2> HIDE DEF Good
    <2> QED BY <1>1, <1>2, ByAppending
  <1>5. ToSet(s) \cap T = {} => Among(T, s) = <<>>
    <2>1. ToSet(Among(T, s)) = {} => Among(T, s) = <<>>
      BY <1>3 DEF ToSet
    <2> QED BY <1>3, <2>1
  <1> QED BY <1>3, <1>5

\* What two sequences one after the other are made of.
LEMMA MembersJoin ==
    ASSUME NEW S, NEW s \in Seq(S), NEW t \in Seq(S)
    PROVE  s \o t \in Seq(S) /\ ToSet(s \o t) = ToSet(s) \cup ToSet(t)
  <1> DEFINE m == Len(s)
             n == Len(t)
             st == s \o t
  <1>1. /\ st \in Seq(S) /\ m \in Nat /\ n \in Nat
        /\ DOMAIN s = 1..m /\ DOMAIN t = 1..n /\ DOMAIN st = 1..(m + n)
        /\ \A k \in 1..(m + n) : st[k] = IF k <= m THEN s[k] ELSE t[k - m]
    OBVIOUS
  <1> HIDE DEF m, n, st
  <1>2. ASSUME NEW k \in 1..(m + n) PROVE st[k] \in ToSet(s) \cup ToSet(t)
    <2>1. k <= m => k \in 1..m
      BY <1>1
    <2>2. ~(k <= m) => k - m \in 1..n
      BY <1>1
    <2> QED BY <1>1, <2>1, <2>2 DEF ToSet
  <1>3. ASSUME NEW k \in 1..m PROVE s[k] \in ToSet(st)
    <2>1. k \in 1..(m + n) /\ k <= m
      BY <1>1
    <2> QED BY <1>1, <2>1 DEF ToSet
  <1>4. ASSUME NEW k \in 1..n PROVE t[k] \in ToSet(st)
    <2>1. m + k \in 1..(m + n) /\ ~(m + k <= m) /\ (m + k) - m = k
      BY <1>1
    <2> QED BY <1>1, <2>1 DEF ToSet
  <1>5. ToSet(st) \subseteq ToSet(s) \cup ToSet(t)
    BY <1>1, <1>2 DEF ToSet
  <1>6. ToSet(s) \subseteq ToSet(st) /\ ToSet(t) \subseteq ToSet(st)
    BY <1>1, <1>3, <1>4 DEF ToSet
  <1> QED BY <1>1, <1>5, <1>6 DEF st

\* Picked out of one sequence and then the next.
InTurn(T, s, t) == Among(T, s \o t) = Among(T, s) \o Among(T, t)

\* Of two sequences one after the other: out of the one, then out of the other.
LEMMA AmongJoin ==
    ASSUME NEW S, NEW T, NEW s \in Seq(S), NEW t \in Seq(S)
    PROVE  InTurn(T, s, t)
  <1> DEFINE A(u) == Among(T, u)
             Good == {u \in Seq(S) : A(s \o u) = A(s) \o A(u)}
  <1>1. <<>> \in Good
    <2>1. A(<<>>) = <<>>
      <3>1. <<>> \in Seq({0})
        OBVIOUS
      <3> QED BY <3>1, AmongAppend
    <2>2. A(s) \in Seq(S)
      BY AmongMembers
    <2> HIDE DEF A
    <2>3. A(s) \o <<>> = A(s) /\ s \o <<>> = s /\ <<>> \in Seq(S)
      BY <2>2
    <2>4. A(s \o <<>>) = A(s) \o A(<<>>)
      BY <2>1, <2>3
    <2> QED BY <2>3, <2>4
  <1>2. ASSUME NEW u \in Seq(S), NEW x \in S, u \in Good PROVE Append(u, x) \in Good
    <2>1. s \o Append(u, x) = Append(s \o u, x) /\ s \o u \in Seq(S) /\ Append(u, x) \in Seq(S)
      OBVIOUS
    <2>2. A(Append(s \o u, x)) = IF x \in T THEN Append(A(s \o u), x) ELSE A(s \o u)
      <3> DEFINE w == s \o u
      <3>1. w \in Seq(S)
        BY <2>1
      <3> HIDE DEF w
      <3>2. A(Append(w, x)) = IF x \in T THEN Append(A(w), x) ELSE A(w)
        BY <3>1, AmongAppend
      <3> QED BY <3>2 DEF w
    <2>3. A(Append(u, x)) = IF x \in T THEN Append(A(u), x) ELSE A(u)
      BY AmongAppend
    <2>4. A(s) \in Seq(S) /\ A(u) \in Seq(S)
      BY AmongMembers
    <2> HIDE DEF A
    <2>5. A(s) \o Append(A(u), x) = Append(A(s) \o A(u), x)
      BY <2>4
    <2>6. A(s \o u) = A(s) \o A(u)
      BY <1>2
    <2>7. A(s \o Append(u, x)) = A(s) \o A(Append(u, x))
      BY <2>1, <2>2, <2>3, <2>5, <2>6
    <2> QED BY <2>1, <2>7
  <1>3. t \in Good
    <2> HIDE DEF Good
    <2> QED BY <1>1, <1>2, ByAppending
  <1> QED BY <1>3 DEF InTurn

\* What sequences joined are made of.
LEMMA MembersFlat ==
    ASSUME NEW S, NEW ss \in Seq(Seq(S)), ss # <<>>
    PROVE  /\ FlattenSeq(ss) \in Seq(S)
           /\ \A x : x \in ToSet(FlattenSeq(ss)) <=> \E k \in DOMAIN ss : x \in ToSet(ss[k])
  <1> DEFINE n == Len(ss)
  <1>1. n \in Nat \ {0} /\ DOMAIN ss = 1..n /\ \A k \in 1..n : ss[k] \in Seq(S)
    BY Flattened
  <1>2. PICK g : Joins(ss, S, g)
    BY Flattened
  <1>3. /\ \A k \in 1..n : g[k] \in Seq(S)
        /\ \A k \in 1..n : g[k] = IF k = 1 THEN ss[1] ELSE g[k - 1] \o ss[k]
        /\ FlattenSeq(ss) = g[n]
    BY <1>2 DEF Joins
  <1> HIDE DEF n
  <1> DEFINE Good == {k \in 0..n : k = 0 \/ \A x : x \in ToSet(g[k]) <=> \E j \in 1..k : x \in ToSet(ss[j])}
  <1>4. 0 \in Good
    BY <1>1
  <1>5. ASSUME NEW k \in 0..n, k # n, k \in Good PROVE k + 1 \in Good
    <2>1. k + 1 \in 1..n /\ k + 1 \in 0..n /\ (k + 1) - 1 = k /\ (k + 1 = 1 <=> k = 0)
      BY <1>1, <1>5
    <2>2. k # 0 => k \in 1..n
      BY <1>5
    <2>3. 1..(k + 1) = (1..k) \cup {k + 1}
      OBVIOUS
    <2>4. CASE k = 0
      <3>1. g[1] = ss[1] /\ 1..1 = {1}
        BY <1>3, <2>1, <2>4
      <3> QED BY <2>1, <2>4, <3>1
    <2>5. CASE k # 0
      <3>1. g[k + 1] = g[k] \o ss[k + 1] /\ g[k] \in Seq(S) /\ ss[k + 1] \in Seq(S)
        BY <1>1, <1>3, <2>1, <2>2, <2>5
      <3>2. ToSet(g[k + 1]) = ToSet(g[k]) \cup ToSet(ss[k + 1])
        BY <3>1, MembersJoin
      <3>3. \A x : x \in ToSet(g[k]) <=> \E j \in 1..k : x \in ToSet(ss[j])
        BY <1>5, <2>5
      <3> QED BY <2>1, <2>3, <3>2, <3>3
    <2> QED BY <2>4, <2>5
  <1>6. n \in Good
    <2>1. n \in Nat /\ n \in 0..n
      BY <1>1
    <2> HIDE DEF Good
    <2> QED BY <1>4, <1>5, <2>1, CountingUp
  <1>7. n \in 1..n
    BY <1>1
  <1> QED BY <1>1, <1>3, <1>6, <1>7

\* Picking what only one of the sequences joined has.
LEMMA AmongFlat ==
    ASSUME NEW S, NEW ss \in Seq(Seq(S)), NEW i \in DOMAIN ss, NEW T, ToSet(ss[i]) \subseteq T,
           \A k \in DOMAIN ss : k # i => ToSet(ss[k]) \cap T = {}
    PROVE  Among(T, FlattenSeq(ss)) = ss[i]
  <1> DEFINE n == Len(ss)
             A(u) == Among(T, u)
  <1>1. ss # <<>>
    OBVIOUS
  <1>2. n \in Nat \ {0} /\ DOMAIN ss = 1..n /\ \A k \in 1..n : ss[k] \in Seq(S)
    BY <1>1, Flattened
  <1>3. PICK g : Joins(ss, S, g)
    BY <1>1, Flattened
  <1>4. /\ \A k \in 1..n : g[k] \in Seq(S)
        /\ \A k \in 1..n : g[k] = IF k = 1 THEN ss[1] ELSE g[k - 1] \o ss[k]
        /\ FlattenSeq(ss) = g[n]
    BY <1>3 DEF Joins
  <1>5. \A k \in 1..n : A(ss[k]) = IF k = i THEN ss[i] ELSE <<>>
    BY <1>2, AmongMembers
  <1>10. \A u, v \in Seq(S) : A(u \o v) = A(u) \o A(v)
    <2>1. \A u, v \in Seq(S) : InTurn(T, u, v)
      BY AmongJoin
    <2> QED BY <2>1 DEF InTurn
  <1> HIDE DEF n, A
  <1> DEFINE Good == {k \in 0..n : k = 0 \/ A(g[k]) = IF k < i THEN <<>> ELSE ss[i]}
  <1>6. 0 \in Good
    BY <1>2
  <1>7. ASSUME NEW k \in 0..n, k # n, k \in Good PROVE k + 1 \in Good
    <2>1. k + 1 \in 1..n /\ k + 1 \in 0..n /\ (k + 1) - 1 = k /\ (k + 1 = 1 <=> k = 0) /\ i \in 1..n
      BY <1>2, <1>7
    <2>2. k # 0 => k \in 1..n
      BY <1>7
    <2>3. CASE k = 0
      <3>1. g[1] = ss[1]
        BY <1>4, <2>1, <2>3
      <3>2. A(g[1]) = IF 1 < i THEN <<>> ELSE ss[i]
        BY <1>5, <2>1, <2>3, <3>1
      <3> QED BY <2>1, <2>3, <3>2
    <2>4. CASE k # 0
      <3>1. g[k + 1] = g[k] \o ss[k + 1] /\ g[k] \in Seq(S) /\ ss[k + 1] \in Seq(S) /\ ss[i] \in Seq(S)
        BY <1>2, <1>4, <2>1, <2>2, <2>4
      <3>2. A(g[k + 1]) = A(g[k]) \o A(ss[k + 1])
        BY <1>10, <3>1
      <3>3. A(g[k]) = IF k < i THEN <<>> ELSE ss[i]
        BY <1>7, <2>4
      <3>4. A(ss[k + 1]) = IF k + 1 = i THEN ss[i] ELSE <<>>
        BY <1>5, <2>1
      <3>5. <<>> \o ss[i] = ss[i] /\ ss[i] \o <<>> = ss[i] /\ <<>> \o <<>> = <<>>
        BY <3>1
      <3>6. (k < i <=> k + 1 <= i) /\ (k + 1 < i => k < i) /\ (k + 1 = i => k < i)
        BY <2>1
      <3>7. A(g[k + 1]) = IF k + 1 < i THEN <<>> ELSE ss[i]
        <4>1. CASE k + 1 < i
          <5>1. k < i /\ k + 1 # i
            BY <2>1, <4>1
          <5> QED BY <3>2, <3>3, <3>4, <3>5, <4>1, <5>1
        <4>2. CASE k + 1 = i
          <5>1. k < i /\ ~(k + 1 < i)
            BY <2>1, <4>2
          <5> QED BY <3>2, <3>3, <3>4, <3>5, <4>2, <5>1
        <4>3. CASE ~(k + 1 <= i)
          <5>1. ~(k < i) /\ k + 1 # i /\ ~(k + 1 < i)
            BY <2>1, <4>3
          <5> QED BY <3>2, <3>3, <3>4, <3>5, <4>3, <5>1
        <4> QED BY <2>1, <4>1, <4>2, <4>3
      <3> QED BY <2>1, <3>7
    <2> QED BY <2>3, <2>4
  <1>8. n \in Good
    <2>1. n \in Nat /\ n \in 0..n
      BY <1>2
    <2> HIDE DEF Good
    <2> QED BY <1>6, <1>7, <2>1, CountingUp
  <1>9. n # 0 /\ ~(n < i)
    BY <1>2
  <1> QED BY <1>4, <1>8, <1>9 DEF A
-----------------------------------------------------------------------------
(* What a drive's legs share out.                                          *)

\* The parts a drive is cut into come to its miles, and differ by a hundredth at most.
LEMMA SharesAddUp ==
    ASSUME NEW m \in Nat, NEW w \in Nat \ {0}
    PROVE  /\ \A k \in 1..w : Shares(m, w)[k] \in Nat
           /\ SumOf(Shares(m, w), 1..w) = m
           /\ \A j, k \in 1..w : Shares(m, w)[j] - Shares(m, w)[k] \in -1..1
  <1> DEFINE q == m \div w
             r == m % w
             f == Shares(m, w)
  <1>1. q \in Nat /\ r \in Nat /\ r < w /\ m = w * q + r
    OBVIOUS
  <1>2. \A k \in 1..w : f[k] = q + (IF k <= r THEN 1 ELSE 0)
    BY DEF Shares
  <1> HIDE DEF q, r, f
  <1>3. \A k \in 1..w : f[k] \in Nat /\ f[k] \in Int
    BY <1>1, <1>2
  <1> DEFINE Good == {j \in 0..w : SumOf(f, 1..j) = j * q + Lesser(j, r)}
  <1>4. 0 \in Good
    <2>1. 1..0 = {} /\ 0 * q = 0 /\ Lesser(0, r) = 0 /\ 0 \in 0..w
      BY <1>1 DEF Lesser
    <2> QED BY <2>1, SumEmpty
  <1>5. ASSUME NEW j \in 0..w, j # w, j \in Good PROVE j + 1 \in Good
    <2> DEFINE S == 1..j
    <2>1. /\ j + 1 \in 1..w /\ j + 1 \in 0..w /\ j \in Nat
          /\ 1..(j + 1) = S \cup {j + 1} /\ j + 1 \notin S /\ S \cup {j + 1} \subseteq 1..w
      BY <1>5
    <2>2. IsFiniteSet(S)
      BY <2>1, FS_Interval
    <2>3. Ints(f, S \cup {j + 1})
      BY <1>3, <2>1 DEF Ints
    <2>4. SumOf(f, S) = j * q + Lesser(j, r)
      BY <1>5
    <2> HIDE DEF S
    <2>5. SumOf(f, 1..(j + 1)) = SumOf(f, S) + f[j + 1]
      <3> DEFINE x == j + 1
      <3>1. x \notin S /\ Ints(f, S \cup {x})
        BY <2>1, <2>3
      <3> HIDE DEF x
      <3>2. SumOf(f, S \cup {x}) = SumOf(f, S) + f[x]
        BY <2>2, <3>1, SumAdd
      <3> QED BY <2>1, <3>2 DEF x
    <2>6. f[j + 1] = q + (IF j + 1 <= r THEN 1 ELSE 0)
      BY <1>2, <2>1
    <2>7. (j + 1) * q = j * q + q /\ j * q \in Nat
      BY <1>1, <2>1
    <2>8. Lesser(j + 1, r) = Lesser(j, r) + (IF j + 1 <= r THEN 1 ELSE 0) /\ Lesser(j, r) \in Nat
      BY <1>1, <2>1 DEF Lesser
    <2>9. SumOf(f, 1..(j + 1)) = (j + 1) * q + Lesser(j + 1, r)
      BY <1>1, <2>4, <2>5, <2>6, <2>7, <2>8
    <2> QED BY <2>1, <2>9
  <1>6. SumOf(f, 1..w) = w * q + Lesser(w, r)
    <2>1. w \in Nat /\ w \in 0..w
      OBVIOUS
    <2>2. w \in Good
      <3> HIDE DEF Good
      <3> QED BY <1>4, <1>5, <2>1, CountingUp
    <2> QED BY <2>2
  <1>7. Lesser(w, r) = r
    BY <1>1 DEF Lesser
  <1>8. \A j, k \in 1..w : f[j] - f[k] \in -1..1
    BY <1>1, <1>2
  <1> QED BY <1>1, <1>3, <1>6, <1>7, <1>8 DEF f
-----------------------------------------------------------------------------
(* What the form, a drive and a leg are.                                   *)

\* Of a form that may be complete or not; each client is at a stop once.
Visit == [client : Clients, askedThere : BOOLEAN]
Visits == {v \in Seq(Visit) : \A j, k \in DOMAIN v : v[j].client = v[k].client => j = k}
Stop == [place : Places, visits : Visits]
KeptBy(S) == UNION {[K -> S] : K \in SUBSET Keys}
Form == [stops : Seq(Stop), typed : KeptBy(Nat), given : KeptBy(Seq(Clients)),
         google : BOOLEAN, change : BOOLEAN]
Drive == [miles : Nat, to : Maybe(Seq(Clients)), estimated : BOOLEAN]

\* Every drive of a trip runs between two of its places.
LEMMA KeysOfDrives ==
    ASSUME NEW stops \in Seq(Stop), NEW i \in DrivesOf(stops)
    PROVE  /\ Len(stops) \in Nat /\ DrivesOf(stops) = 1..(Len(stops) + 1) /\ DOMAIN stops = 1..Len(stops)
           /\ \A k \in DOMAIN stops : stops[k] \in Stop
           /\ PlacesOf(stops)[i] \in Places /\ PlacesOf(stops)[i + 1] \in Places
           /\ KeyOf(stops, i) \in Keys
  <1> DEFINE n == Len(stops)
             on == [k \in DOMAIN stops |-> stops[k].place]
             all == PlacesOf(stops)
  <1>1. n \in Nat /\ DOMAIN stops = 1..n /\ \A k \in DOMAIN stops : stops[k] \in Stop
    OBVIOUS
  <1>2. on \in Seq(Places) /\ Len(on) = n
    <2>1. on \in [1..n -> Places]
      BY <1>1 DEF Stop
    <2> HIDE DEF on, n
    <2> QED BY <1>1, <2>1, IsASeq, LenProperties
  <1>3. all = <<Base>> \o on \o <<Base>>
    BY DEF PlacesOf
  <1>4. <<Base>> \in Seq(Places) /\ Len(<<Base>>) = 1
    BY DEF Places
  <1> HIDE DEF on, all, n
  <1>5. all \in Seq(Places) /\ Len(all) = n + 2
    BY <1>1, <1>2, <1>3, <1>4
  <1>6. i \in 1..(n + 2) /\ i + 1 \in 1..(n + 2)
    BY <1>1 DEF DrivesOf, n
  <1>7. all[i] \in Places /\ all[i + 1] \in Places
    BY <1>5, <1>6
  <1>8. KeyOf(stops, i) \in Keys
    BY <1>7 DEF KeyOf, Keys, all
  <1> QED BY <1>1, <1>7, <1>8 DEF DrivesOf, all, n

\* Who caused a stop are those it was for that asked before the driver left, each once.
LEMMA CausersOfStop ==
    ASSUME NEW stop \in Stop
    PROVE  /\ CausedBy(stop) \in Seq(Clients)
           /\ IsInjective(CausedBy(stop))
           /\ \A c : c \in ToSet(CausedBy(stop)) <=>
                         [client |-> c, askedThere |-> FALSE] \in ToSet(stop.visits)
  <1> DEFINE v == stop.visits
             T == {u \in ToSet(v) : ~u.askedThere}
             asked == Among(T, v)
             who == CausedBy(stop)
  <1>1. v \in Seq(Visit) /\ \A j, k \in DOMAIN v : v[j].client = v[k].client => j = k
    BY DEF Stop, Visits
  <1>2. who = [k \in DOMAIN asked |-> asked[k].client]
    BY DEF CausedBy
  <1>3. IsInjective(v)
    BY <1>1 DEF IsInjective
  <1>4. asked \in Seq(Visit) /\ ToSet(asked) = ToSet(v) \cap T /\ IsInjective(asked)
    <2> HIDE DEF v, T
    <2> QED BY <1>1, <1>3, AmongMembers
  <1>5. \A u, w \in ToSet(v) : u.client = w.client => u = w
    BY <1>1 DEF ToSet
  <1>6. \A u \in T : u \in Visit /\ u = [client |-> u.client, askedThere |-> FALSE]
    <2>1. \A u \in ToSet(v) : u \in Visit
      BY <1>1 DEF ToSet
    <2> QED BY <2>1 DEF Visit
  <1>7. \A c : [client |-> c, askedThere |-> FALSE] \in ToSet(v) =>
                   [client |-> c, askedThere |-> FALSE] \in T
    OBVIOUS
  <1>8. T \subseteq ToSet(v)
    OBVIOUS
  <1> HIDE DEF v, T, asked, who
  <1>9. Len(asked) \in Nat /\ DOMAIN asked = 1..Len(asked) /\ DOMAIN who = 1..Len(asked)
    BY <1>2, <1>4
  <1>10. \A k \in DOMAIN asked : asked[k] \in T /\ who[k] = asked[k].client /\ who[k] \in Clients
    <2> TAKE k \in DOMAIN asked
    <2>1. asked[k] \in T
      BY <1>4 DEF ToSet
    <2> QED BY <1>2, <1>6, <2>1 DEF Visit
  <1>11. who \in Seq(Clients)
    <2>1. who \in [1..Len(asked) -> Clients]
      BY <1>2, <1>9, <1>10
    <2> QED BY <1>9, <2>1, IsASeq
  <1>12. IsInjective(who)
    <2> SUFFICES ASSUME NEW j \in DOMAIN asked, NEW k \in DOMAIN asked, who[j] = who[k] PROVE j = k
      BY <1>9 DEF IsInjective
    <2>1. asked[j] = asked[k]
      BY <1>5, <1>8, <1>10
    <2> QED BY <1>4, <2>1 DEF IsInjective
  <1>13. ASSUME NEW c, c \in ToSet(who) PROVE [client |-> c, askedThere |-> FALSE] \in ToSet(v)
    <2>1. PICK k \in DOMAIN asked : c = who[k]
      BY <1>9, <1>13 DEF ToSet
    <2> QED BY <1>6, <1>8, <1>10, <2>1
  <1>14. ASSUME NEW c, [client |-> c, askedThere |-> FALSE] \in ToSet(v) PROVE c \in ToSet(who)
    <2> DEFINE u == [client |-> c, askedThere |-> FALSE]
    <2>1. u \in ToSet(asked) /\ u.client = c
      BY <1>4, <1>7, <1>14
    <2> HIDE DEF u
    <2>2. PICK k \in DOMAIN asked : u = asked[k]
      BY <2>1 DEF ToSet
    <2>3. who[k] = c /\ k \in DOMAIN who
      BY <1>9, <1>10, <2>1, <2>2
    <2> QED BY <2>3 DEF ToSet
  <1> QED BY <1>11, <1>12, <1>13, <1>14 DEF who, v

\* An injective sequence has as many members as places.
LEMMA MembersCounted ==
    ASSUME NEW S, NEW s \in Seq(S), IsInjective(s)
    PROVE  IsFiniteSet(ToSet(s)) /\ Cardinality(ToSet(s)) = Len(s)
  <1> DEFINE Right(t) == IsInjective(t) => IsFiniteSet(ToSet(t)) /\ Cardinality(ToSet(t)) = Len(t)
             Good == {t \in Seq(S) : Right(t)}
  <1>1. <<>> \in Good
    <2>1. ToSet(<<>>) = {} /\ <<>> \in Seq(S) /\ Len(<<>>) = 0
      BY DEF ToSet
    <2> QED BY <2>1, FS_EmptySet
  <1>2. ASSUME NEW t \in Seq(S), NEW x \in S, t \in Good PROVE Append(t, x) \in Good
    <2> DEFINE long == Append(t, x)
    <2>1. /\ ToSet(long) = ToSet(t) \cup {x}
          /\ IsInjective(long) <=> IsInjective(t) /\ x \notin ToSet(t)
      BY MembersAppend
    <2>2. long \in Seq(S) /\ Len(long) = Len(t) + 1 /\ Len(t) \in Nat
      OBVIOUS
    <2> HIDE DEF long
    <2>3. ASSUME IsInjective(long)
          PROVE  IsFiniteSet(ToSet(long)) /\ Cardinality(ToSet(long)) = Len(long)
      <3>1. IsFiniteSet(ToSet(t)) /\ Cardinality(ToSet(t)) = Len(t) /\ x \notin ToSet(t)
        BY <1>2, <2>1, <2>3
      <3> DEFINE U == ToSet(t)
      <3>2. IsFiniteSet(U) /\ x \notin U
        BY <3>1
      <3> HIDE DEF U
      <3>3. IsFiniteSet(U \cup {x}) /\ Cardinality(U \cup {x}) = Cardinality(U) + 1
        BY <3>2, FS_AddElement
      <3> QED BY <2>1, <2>2, <3>1, <3>3 DEF U
    <2> QED BY <2>2, <2>3 DEF long
  <1>3. s \in Good
    <2> HIDE DEF Good
    <2> QED BY <1>1, <1>2, ByAppending
  <1> QED BY <1>3
-----------------------------------------------------------------------------
(* The legs of a drive, and of a trip.                                     *)

\* The legs of miles given to who: one each, or one that nobody pays.
LegsTo(who, i, rule, miles) ==
    IF who = <<>>
    THEN <<[drive |-> i, client |-> {}, rule |-> rule, miles |-> miles]>>
    ELSE [k \in DOMAIN who |-> [drive |-> i, client |-> {who[k]}, rule |-> rule,
                                miles |-> Shares(miles, Len(who))[k]]]
Payers(who) == IF who = <<>> THEN {{}} ELSE {{c} : c \in ToSet(who)}
MilesIn(legs) == SumFunctionOnSet([k \in DOMAIN legs |-> legs[k].miles], DOMAIN legs)

\* A drive's legs say whose they are, and come to its miles.
LEMMA LegsOfWho ==
    ASSUME NEW who \in Seq(Clients), NEW i, NEW rule, NEW miles \in Nat,
           NEW legs, legs = LegsTo(who, i, rule, miles)
    PROVE  /\ legs \in Seq(ToSet(legs)) /\ ToSet(legs) # {}
           /\ \A l \in ToSet(legs) : l.drive = i /\ l.rule = rule /\ l.client \in Payers(who)
           /\ \A p \in Payers(who) : \E l \in ToSet(legs) : l.client = p
           /\ \A l, m \in ToSet(legs) : l.miles - m.miles \in -1..1
           /\ MilesIn(legs) = miles
  <1> DEFINE n == Len(who)
             f == [k \in DOMAIN legs |-> legs[k].miles]
  <1>1. CASE who = <<>>
    <2> DEFINE leg == [drive |-> i, client |-> {}, rule |-> rule, miles |-> miles]
    <2>1. legs = <<leg>> /\ Payers(who) = {{}}
      BY <1>1 DEF LegsTo, Payers
    <2>2. leg.drive = i /\ leg.rule = rule /\ leg.client = {} /\ leg.miles = miles
      OBVIOUS
    <2> HIDE DEF leg
    <2>3. DOMAIN legs = {1} /\ legs[1] = leg
      BY <2>1
    <2>4. ToSet(legs) = {leg}
      BY <2>3 DEF ToSet
    <2>5. legs \in Seq(ToSet(legs))
      BY <2>1, <2>4
    <2>6. f = [k \in {1} |-> f[k]] /\ f[1] = miles
      BY <2>2, <2>3
    <2> DEFINE E == {}
               x == 1
    <2>7. IsFiniteSet(E) /\ Ints(f, E \cup {x}) /\ x \notin E /\ SumOf(f, E) = 0 /\ f[x] = miles
      BY <2>6, FS_EmptySet, SumEmpty DEF Ints
    <2>8. SumOf(f, {1}) = miles
      <3> HIDE DEF f, E, x
      <3>1. SumOf(f, E \cup {x}) = SumOf(f, E) + f[x]
        BY <2>7, SumAdd
      <3>2. E \cup {x} = {1}
        BY DEF E, x
      <3>3. SumOf(f, E \cup {x}) = miles
        BY <2>7, <3>1
      <3> QED BY <3>2, <3>3
    <2>9. MilesIn(legs) = miles
      BY <2>3, <2>8 DEF MilesIn, SumOf
    <2> QED BY <2>1, <2>2, <2>4, <2>5, <2>9
  <1>2. CASE who # <<>>
    <2> DEFINE leg(k) == [drive |-> i, client |-> {who[k]}, rule |-> rule,
                          miles |-> Shares(miles, n)[k]]
    <2>1. legs = [k \in DOMAIN who |-> leg(k)] /\ Payers(who) = {{c} : c \in ToSet(who)}
      BY <1>2 DEF LegsTo, Payers
    <2>2. n \in Nat \ {0} /\ DOMAIN who = 1..n
      BY <1>2
    <2>3. \A k \in 1..n : /\ leg(k).drive = i /\ leg(k).rule = rule
                          /\ leg(k).client = {who[k]} /\ leg(k).miles = Shares(miles, n)[k]
      OBVIOUS
    <2> HIDE DEF leg, n
    <2>4. DOMAIN legs = 1..n /\ \A k \in 1..n : legs[k] = leg(k)
      BY <2>1, <2>2
    <2>5. \A k \in 1..n : legs[k] \in ToSet(legs)
      BY <2>4 DEF ToSet
    <2>6. legs \in Seq(ToSet(legs))
      <3>1. legs \in [1..n -> ToSet(legs)]
        BY <2>1, <2>2, <2>5
      <3> QED BY <2>2, <3>1, IsASeq
    <2>7. ASSUME NEW l \in ToSet(legs) PROVE \E k \in 1..n : l = leg(k)
      BY <2>4 DEF ToSet
    <2>8. \A k \in 1..n : {who[k]} \in Payers(who)
      BY <2>1, <2>2 DEF ToSet
    <2>9. ASSUME NEW p \in Payers(who) PROVE \E k \in 1..n : p = {who[k]}
      BY <2>1, <2>2 DEF ToSet
    <2>10. /\ SumOf(Shares(miles, n), 1..n) = miles
           /\ \A k \in 1..n : Shares(miles, n)[k] \in Nat
           /\ \A j, k \in 1..n : Shares(miles, n)[j] - Shares(miles, n)[k] \in -1..1
      BY <2>2, SharesAddUp
    <2>11. MilesIn(legs) = miles
      <3> DEFINE g == Shares(miles, n)
                 S == 1..n
      <3>1. \A k \in S : f[k] = g[k]
        BY <2>3, <2>4
      <3>2. IsFiniteSet(S) /\ Ints(g, S)
        BY <2>2, <2>10, FS_Interval DEF Ints
      <3>3. SumOf(g, S) = miles
        BY <2>10
      <3> HIDE DEF f, g, S
      <3>4. SumOf(f, S) = miles
        BY <3>1, <3>2, <3>3, SumSame
      <3> QED BY <2>4, <3>4 DEF MilesIn, SumOf, f, S
    <2>12. \A l \in ToSet(legs) : l.drive = i /\ l.rule = rule /\ l.client \in Payers(who)
      BY <2>3, <2>7, <2>8
    <2>13. \A p \in Payers(who) : \E l \in ToSet(legs) : l.client = p
      <3> TAKE p \in Payers(who)
      <3>1. PICK k \in 1..n : p = {who[k]}
        BY <2>9
      <3>2. legs[k] \in ToSet(legs) /\ legs[k].client = p
        BY <2>3, <2>4, <2>5, <3>1
      <3> QED BY <3>2
    <2>14. \A l, m \in ToSet(legs) : l.miles - m.miles \in -1..1
      <3> TAKE l, m \in ToSet(legs)
      <3>1. PICK j \in 1..n : l = leg(j)
        BY <2>7
      <3>2. PICK k \in 1..n : m = leg(k)
        BY <2>7
      <3> QED BY <2>3, <2>10, <3>1, <3>2
    <2>15. ToSet(legs) # {}
      <3>1. 1 \in 1..n
        BY <2>2
      <3> QED BY <2>5, <3>1
    <2> QED BY <2>6, <2>11, <2>12, <2>13, <2>14, <2>15
  <1> QED BY <1>1, <1>2

\* As many legs as are charged.
LEMMA LegsCounted ==
    ASSUME NEW who \in Seq(Clients), IsInjective(who), NEW i, NEW rule, NEW miles \in Nat,
           NEW legs, legs = LegsTo(who, i, rule, miles)
    PROVE  Cardinality(ToSet(legs)) = IF who = <<>> THEN 1 ELSE Len(who)
  <1>1. legs \in Seq(ToSet(legs))
    BY LegsOfWho
  <1>2. IsInjective(legs) /\ Len(legs) = IF who = <<>> THEN 1 ELSE Len(who)
    <2>1. CASE who = <<>>
      <3> DEFINE leg == [drive |-> i, client |-> {}, rule |-> rule, miles |-> miles]
      <3>1. legs = <<leg>>
        BY <2>1 DEF LegsTo
      <3> HIDE DEF leg
      <3> QED BY <2>1, <3>1 DEF IsInjective
    <2>2. CASE who # <<>>
      <3> DEFINE leg(k) == [drive |-> i, client |-> {who[k]}, rule |-> rule,
                            miles |-> Shares(miles, Len(who))[k]]
      <3>1. legs = [k \in DOMAIN who |-> leg(k)] /\ DOMAIN who = 1..Len(who) /\ Len(who) \in Nat
        BY <2>2 DEF LegsTo
      <3>2. \A k : leg(k).client = {who[k]}
        OBVIOUS
      <3> HIDE DEF leg
      <3>3. \A j, k \in DOMAIN who : legs[j] = legs[k] => j = k
        <4> TAKE j, k \in DOMAIN who
        <4> HAVE legs[j] = legs[k]
        <4>1. {who[j]} = {who[k]}
          BY <3>1, <3>2
        <4> QED BY <4>1 DEF IsInjective
      <3>4. Len(legs) = Len(who)
        BY <1>1, <3>1
      <3> QED BY <2>2, <3>1, <3>3, <3>4 DEF IsInjective
    <2> QED BY <2>1, <2>2
  <1> QED BY <1>1, <1>2, MembersCounted

\* Whom a drive is to, and by which rule; and the stop it goes to, or came from.
WhoOf(stops, drive, i) ==
    IF drive.to # {} THEN CHOOSE to \in drive.to : TRUE ELSE Caused(stops, i)
RuleFor(stops, drive, i) == RuleOf(stops, drive, WhoOf(stops, drive, i), i)
LastStop(stops, i) == IF i > Len(stops) THEN Len(stops) ELSE i

\* A drive is given to some clients, or is paid by those its stop was for.
LEMMA WhoFits ==
    ASSUME NEW stops \in Seq(Stop), stops # <<>>, NEW i \in DrivesOf(stops), NEW drive \in Drive
    PROVE  /\ WhoOf(stops, drive, i) \in Seq(Clients)
           /\ LastStop(stops, i) \in DOMAIN stops
           /\ drive.to = {} => /\ WhoOf(stops, drive, i) = CausedBy(stops[LastStop(stops, i)])
                               /\ IsInjective(WhoOf(stops, drive, i))
           /\ drive.to # {} => drive.to = {WhoOf(stops, drive, i)}
           /\ RuleFor(stops, drive, i) = "chosen" <=> drive.to # {}
           /\ LegsOfDrive(stops, drive, i) =
                  LegsTo(WhoOf(stops, drive, i), i, RuleFor(stops, drive, i), drive.miles)
  <1> DEFINE n == Len(stops)
             who == WhoOf(stops, drive, i)
             at == LastStop(stops, i)
  <1>1. n \in Nat \ {0} /\ DOMAIN stops = 1..n /\ i \in 1..(n + 1)
    BY KeysOfDrives DEF DrivesOf
  <1>2. at \in DOMAIN stops
    BY <1>1 DEF LastStop
  <1>3. stops[at] \in Stop
    BY <1>2, KeysOfDrives
  <1>4. drive.to = {} => who = CausedBy(stops[at])
    BY DEF WhoOf, Caused, LastStop
  <1>5. drive.to # {} => drive.to = {who} /\ who \in Seq(Clients)
    <2> SUFFICES ASSUME drive.to # {} PROVE drive.to = {who} /\ who \in Seq(Clients)
      OBVIOUS
    <2>1. PICK to \in Seq(Clients) : drive.to = {to}
      BY DEF Drive, Maybe
    <2> QED BY <2>1 DEF WhoOf
  <1>6. CausedBy(stops[at]) \in Seq(Clients) /\ IsInjective(CausedBy(stops[at]))
    <2> DEFINE stop == stops[at]
    <2>1. stop \in Stop
      BY <1>3
    <2> HIDE DEF stop
    <2>2. CausedBy(stop) \in Seq(Clients) /\ IsInjective(CausedBy(stop))
      BY <2>1, CausersOfStop
    <2> QED BY <2>2 DEF stop
  <1>7. who \in Seq(Clients)
    BY <1>4, <1>5, <1>6
  <1>8. RuleFor(stops, drive, i) = "chosen" <=> drive.to # {}
    <2>1. Len(who) \in Nat /\ (who # <<>> => Len(who) > 0)
      BY <1>7
    <2>2. RuleFor(stops, drive, i) = RuleOf(stops, drive, who, i)
      BY DEF RuleFor
    <2> HIDE DEF who
    <2>3. CASE drive.to # {}
      BY <2>2, <2>3 DEF RuleOf
    <2>4. CASE drive.to = {} /\ who = <<>>
      BY <2>2, <2>4 DEF RuleOf
    <2>5. CASE drive.to = {} /\ who # <<>> /\ Len(who) > 1
      BY <2>2, <2>5 DEF RuleOf
    <2>6. CASE drive.to = {} /\ who # <<>> /\ Len(who) = 1
      <3>1. n = 1 \/ n > 1
        BY <1>1
      <3> QED BY <2>2, <2>6, <3>1 DEF RuleOf
    <2>7. who # <<>> => Len(who) = 1 \/ Len(who) > 1
      <3> DEFINE m == Len(who)
      <3>1. m \in Nat /\ (who # <<>> => m > 0)
        BY <2>1
      <3> HIDE DEF m
      <3>2. who # <<>> => m = 1 \/ m > 1
        BY <3>1
      <3> QED BY <3>2 DEF m
    <2> QED BY <2>3, <2>4, <2>5, <2>6, <2>7
  <1>9. LegsOfDrive(stops, drive, i) = LegsTo(who, i, RuleFor(stops, drive, i), drive.miles)
    BY DEF LegsOfDrive, LegsTo, WhoOf, RuleFor
  <1> QED BY <1>2, <1>4, <1>5, <1>6, <1>7, <1>8, <1>9

\* The drives a body may have.
Drives(stops) == [DrivesOf(stops) -> Drive]

\* The legs of a trip are those of its drives, and a drive's are found again by it.
LEMMA LegsOfTrip ==
    ASSUME NEW stops \in Seq(Stop), stops # <<>>, NEW drives \in Drives(stops),
           NEW legs, legs = LegsOf(stops, drives)
    PROVE  /\ \A i \in DrivesOf(stops) :
                  /\ LegsFor(legs, i) = LegsOfDrive(stops, drives[i], i)
                  /\ {l \in ToSet(legs) : l.drive = i} = ToSet(LegsFor(legs, i))
                  /\ MilesOf(legs, i) = drives[i].miles
           /\ \A l \in ToSet(legs) : l.drive \in DrivesOf(stops)
  <1> DEFINE n == Len(stops) + 1
             of(i) == LegsOfDrive(stops, drives[i], i)
             ss == [i \in 1..n |-> of(i)]
             S == UNION {ToSet(of(i)) : i \in 1..n}
  <1>1. n \in Nat \ {0} /\ DrivesOf(stops) = 1..n
    BY DEF DrivesOf
  <1>2. legs = FlattenSeq(ss)
    BY <1>1 DEF LegsOf
  <1>3. ASSUME NEW i \in 1..n
        PROVE  /\ of(i) \in Seq(S) /\ ToSet(of(i)) # {}
               /\ \A l \in ToSet(of(i)) : l.drive = i
               /\ MilesIn(of(i)) = drives[i].miles
    <2> DEFINE who == WhoOf(stops, drives[i], i)
               rule == RuleFor(stops, drives[i], i)
               miles == drives[i].miles
               mine == of(i)
    <2>1. drives[i] \in Drive /\ miles \in Nat
      BY <1>1 DEF Drives, Drive
    <2>2. who \in Seq(Clients) /\ mine = LegsTo(who, i, rule, miles)
      <3> DEFINE drive == drives[i]
      <3>1. drive \in Drive /\ i \in DrivesOf(stops)
        BY <1>1, <2>1
      <3> HIDE DEF drive
      <3>2. /\ WhoOf(stops, drive, i) \in Seq(Clients)
            /\ LegsOfDrive(stops, drive, i) =
                   LegsTo(WhoOf(stops, drive, i), i, RuleFor(stops, drive, i), drive.miles)
        BY <3>1, WhoFits
      <3> QED BY <3>2 DEF drive
    <2> HIDE DEF who, rule, miles, mine
    <2>3. /\ mine \in Seq(ToSet(mine)) /\ ToSet(mine) # {}
          /\ \A l \in ToSet(mine) : l.drive = i
          /\ MilesIn(mine) = miles
      BY <2>1, <2>2, LegsOfWho
    <2>4. ToSet(mine) \subseteq S
      BY DEF mine
    <2>5. mine \in Seq(S)
      <3> HIDE DEF S
      <3> QED BY <2>3, <2>4, SeqMonotonic
    <2> QED BY <2>3, <2>5 DEF mine, miles
  <1> HIDE DEF n, of, S
  <1>4. ss \in Seq(Seq(S)) /\ DOMAIN ss = 1..n /\ ss # <<>> /\ \A i \in 1..n : ss[i] = of(i)
    <2>1. ss \in [1..n -> Seq(S)]
      BY <1>3
    <2>2. 1 \in DOMAIN ss
      BY <1>1
    <2>3. ss \in Seq(Seq(S)) /\ DOMAIN ss = 1..n
      BY <1>1, <2>1, IsASeq
    <2> QED BY <2>2, <2>3
  <1> HIDE DEF ss
  <1>5. \A x : x \in ToSet(legs) <=> \E k \in 1..n : x \in ToSet(of(k))
    BY <1>2, <1>4, MembersFlat
  <1>6. \A l \in ToSet(legs) : l.drive \in 1..n
    BY <1>3, <1>5
  <1>7. ASSUME NEW i \in 1..n
        PROVE  /\ LegsFor(legs, i) = of(i)
               /\ {l \in ToSet(legs) : l.drive = i} = ToSet(of(i))
    <2> DEFINE T == {l \in ToSet(legs) : l.drive = i}
    <2>1. T = ToSet(of(i))
      BY <1>3, <1>5
    <2>2. \A k \in 1..n : k # i => ToSet(of(k)) \cap T = {}
      BY <1>3
    <2>3. LegsFor(legs, i) = Among(T, legs)
      BY DEF LegsFor
    <2> HIDE DEF T
    <2>4. Among(T, FlattenSeq(ss)) = ss[i]
      <3>1. i \in DOMAIN ss /\ ToSet(ss[i]) \subseteq T
        BY <1>4, <2>1
      <3>2. \A k \in DOMAIN ss : k # i => ToSet(ss[k]) \cap T = {}
        BY <1>4, <2>2
      <3> QED BY <1>4, <3>1, <3>2, AmongFlat
    <2> QED BY <1>2, <1>4, <2>1, <2>3, <2>4 DEF T
  <1>8. \A i \in 1..n : MilesOf(legs, i) = MilesIn(of(i))
    BY <1>7 DEF MilesOf, MilesIn
  <1> QED BY <1>1, <1>3, <1>6, <1>7, <1>8 DEF of
-----------------------------------------------------------------------------
(* What a form is recorded as.                                             *)

\* Every length the form shows is a number of hundredths.
LEMMA MilesFit ==
    ASSUME NEW f \in Form, NEW i \in DrivesOf(f.stops)
    PROVE  /\ f.stops \in Seq(Stop) /\ KeyOf(f.stops, i) \in Keys
           /\ Route(f.stops, i) \in Nat
           /\ Estimate(KeyOf(f.stops, i)) \subseteq Nat
           /\ MilesShown(f, i) \subseteq Nat
           /\ GivenTo(f, KeyOf(f.stops, i)) \in Maybe(Seq(Clients))
           /\ \A k \in DOMAIN f.typed : f.typed[k] \in Nat
           /\ \A k \in DOMAIN f.given : f.given[k] \in Seq(Clients)
  <1> DEFINE key == KeyOf(f.stops, i)
  <1>1. /\ f.stops \in Seq(Stop) /\ f.typed \in KeptBy(Nat) /\ f.given \in KeptBy(Seq(Clients))
    BY DEF Form
  <1>2. key \in Keys /\ PlacesOf(f.stops)[i] \in Places /\ PlacesOf(f.stops)[i + 1] \in Places
    <2> DEFINE stops == f.stops
    <2>1. stops \in Seq(Stop) /\ i \in DrivesOf(stops)
      BY <1>1
    <2> HIDE DEF stops
    <2>2. KeyOf(stops, i) \in Keys /\ PlacesOf(stops)[i] \in Places /\ PlacesOf(stops)[i + 1] \in Places
      BY <2>1, KeysOfDrives
    <2> QED BY <2>2 DEF stops
  <1>3. Route(f.stops, i) \in Nat
    BY <1>2, MilesAssumption DEF Route, Places
  <1>4. \A k \in DOMAIN f.typed : f.typed[k] \in Nat
    <2>1. PICK K \in SUBSET Keys : f.typed \in [K -> Nat]
      BY <1>1 DEF KeptBy
    <2> QED BY <2>1
  <1>5. \A k \in DOMAIN f.given : f.given[k] \in Seq(Clients)
    <2>1. PICK K \in SUBSET Keys : f.given \in [K -> Seq(Clients)]
      BY <1>1 DEF KeptBy
    <2> QED BY <2>1
  <1> HIDE DEF key
  <1>6. \A m \in Nat : Tenth(m) \in Nat /\ Half(m) \in Nat
    BY DEF Tenth, Half
  <1>7. Estimate(key) \subseteq Nat
    <2>1. CASE key \in DOMAIN Known
      BY <1>6, <2>1, MilesAssumption DEF Estimate
    <2>2. CASE key \notin DOMAIN Known
      <3> SUFFICES ASSUME NEW m \in Estimate(key) PROVE m \in Nat
        OBVIOUS
      <3>1. PICK p \in key \ {Base} : m \in {Half(r) : r \in RoundTrip[p]}
        BY <2>2 DEF Estimate
      <3>2. PICK r \in RoundTrip[p] : m = Half(r)
        BY <3>1
      <3>3. p \in {s.place : s \in There} \ {Base}
        BY <1>2, <3>1 DEF Keys, Places
      <3>4. r \in Nat
        BY <3>2, <3>3, MilesAssumption
      <3> QED BY <1>6, <3>2, <3>4
    <2> QED BY <2>1, <2>2
  <1>8. MilesShown(f, i) \subseteq Nat
    BY <1>3, <1>4, <1>7 DEF MilesShown, key
  <1>9. GivenTo(f, key) \in Maybe(Seq(Clients))
    <2>1. CASE key \in DOMAIN f.given
      <3>1. GivenTo(f, key) = {f.given[key]}
        BY <2>1 DEF GivenTo
      <3> QED BY <1>5, <2>1, <3>1 DEF Maybe
    <2>2. CASE key \notin DOMAIN f.given
      <3>1. GivenTo(f, key) = {}
        BY <2>2 DEF GivenTo
      <3> QED BY <3>1 DEF Maybe
    <2> QED BY <2>1, <2>2
  <1> QED BY <1>1, <1>2, <1>3, <1>4, <1>5, <1>7, <1>8, <1>9 DEF key

\* What is recorded of a form, with the drives its legs are the legs of.
Records(row, f, drives) ==
    /\ drives \in Drives(f.stops)
    /\ row.stops = f.stops
    /\ row.legs = LegsOf(f.stops, drives)
    /\ \A i \in DrivesOf(f.stops) :
        LET key == KeyOf(f.stops, i)
        IN /\ drives[i].to = GivenTo(f, key)
           /\ drives[i].to # {} <=> key \in DOMAIN row.given
           /\ drives[i].to # {} => drives[i].to = {row.given[key]}
           /\ key \in DOMAIN row.typed => drives[i].miles = row.typed[key]
           /\ key \notin DOMAIN row.typed => drives[i].miles \in {Route(f.stops, i)} \cup Estimate(key)

\* As the handler writes it.
RowOf(f, answers) == Written(Body(f), [f EXCEPT !.google = FALSE], answers)

\* A complete form's body has a drive for each there is.
LEMMA BodyFits ==
    ASSUME NEW f \in Form, Complete(f)
    PROVE  /\ Body(f).stops = f.stops
           /\ Body(f).drives \in Drives(f.stops)
           /\ \A i \in DrivesOf(f.stops) :
                /\ Body(f).drives[i].miles \in MilesShown(f, i)
                /\ Body(f).drives[i].to = GivenTo(f, KeyOf(f.stops, i))
                /\ Body(f).drives[i].estimated = Estimated(f, KeyOf(f.stops, i))
  <1> DEFINE one(i) == [miles |-> CHOOSE m \in MilesShown(f, i) : TRUE,
                        to |-> GivenTo(f, KeyOf(f.stops, i)),
                        estimated |-> Estimated(f, KeyOf(f.stops, i))]
             I == DrivesOf(f.stops)
  <1>1. Body(f).stops = f.stops /\ Body(f).drives = [i \in I |-> one(i)]
    BY DEF Body
  <1>2. ASSUME NEW i \in I
        PROVE  /\ one(i).miles \in MilesShown(f, i) /\ one(i).to = GivenTo(f, KeyOf(f.stops, i))
               /\ one(i).estimated = Estimated(f, KeyOf(f.stops, i)) /\ one(i) \in Drive
    <2>1. MilesShown(f, i) # {} /\ MilesShown(f, i) \subseteq Nat
      BY MilesFit DEF Complete
    <2>2. GivenTo(f, KeyOf(f.stops, i)) \in Maybe(Seq(Clients))
      BY MilesFit
    <2>3. Estimated(f, KeyOf(f.stops, i)) \in BOOLEAN
      BY DEF Estimated
    <2> QED BY <2>1, <2>2, <2>3 DEF Drive
  <1> HIDE DEF one, I
  <1>3. [i \in I |-> one(i)] \in [I -> Drive]
    BY <1>2
  <1> QED BY <1>1, <1>2, <1>3 DEF Drives, I

\* What is recorded of a complete form is legs of the drives it shows.
LEMMA RowRecords ==
    ASSUME NEW f \in Form, Complete(f), NEW answers \in BOOLEAN
    PROVE  \E drives : Records(RowOf(f, answers), f, drives)
  <1> DEFINE row == RowOf(f, answers)
             body == Body(f)
             draft == [f EXCEPT !.google = FALSE]
             drives == WithRoute(body, answers)
             I == DrivesOf(f.stops)
             keys == {KeyOf(f.stops, i) : i \in I}
  <1>1. /\ body.stops = f.stops /\ body.drives \in Drives(f.stops)
        /\ \A i \in I : /\ body.drives[i].miles \in MilesShown(f, i)
                        /\ body.drives[i].to = GivenTo(f, KeyOf(f.stops, i))
                        /\ body.drives[i].estimated = Estimated(f, KeyOf(f.stops, i))
    BY BodyFits
  <1>2. draft.stops = f.stops /\ draft.typed = f.typed /\ draft.given = f.given
    BY DEF Form
  <1>3. /\ row.stops = f.stops /\ row.legs = LegsOf(f.stops, drives)
        /\ row.typed = [k \in keys \cap DOMAIN f.typed |-> f.typed[k]]
        /\ row.given = [k \in keys \cap DOMAIN f.given |-> f.given[k]]
    <2> HIDE DEF draft, body, drives
    <2>1. row = Written(body, draft, answers)
      BY DEF RowOf, body, draft
    <2> HIDE DEF row
    <2> QED BY <1>1, <1>2, <2>1 DEF Written, Restrict, drives
  <1> HIDE DEF row, body, draft
  <1>4. DOMAIN body.drives = I /\ \A i \in I : body.drives[i] \in Drive
    BY <1>1 DEF Drives
  <1>5. ASSUME NEW i \in I
        PROVE  /\ drives[i] \in Drive
               /\ drives[i].to = body.drives[i].to
               /\ drives[i].miles = IF body.drives[i].estimated /\ answers
                                    THEN Route(f.stops, i) ELSE body.drives[i].miles
    <2> DEFINE was == body.drives[i]
               to == IF was.estimated /\ answers THEN Route(f.stops, i) ELSE was.miles
    <2>1. drives[i] = [was EXCEPT !.miles = to]
      BY <1>1, <1>4 DEF WithRoute
    <2>2. was \in Drive /\ Route(f.stops, i) \in Nat
      BY <1>4, MilesFit
    <2> HIDE DEF was, drives
    <2>3. to \in Nat
      BY <2>2 DEF Drive
    <2> QED BY <2>1, <2>2, <2>3 DEF Drive, was
  <1>6. drives = [i \in I |-> drives[i]]
    BY <1>4 DEF WithRoute
  <1> HIDE DEF drives, I
  <1>7. drives \in Drives(f.stops)
    BY <1>5, <1>6 DEF Drives, I
  <1>8. ASSUME NEW i \in I
        PROVE  LET key == KeyOf(f.stops, i)
               IN /\ drives[i].to = GivenTo(f, key)
                  /\ drives[i].to # {} <=> key \in DOMAIN row.given
                  /\ drives[i].to # {} => drives[i].to = {row.given[key]}
                  /\ key \in DOMAIN row.typed => drives[i].miles = row.typed[key]
                  /\ key \notin DOMAIN row.typed => drives[i].miles \in {Route(f.stops, i)} \cup Estimate(key)
    <2> DEFINE key == KeyOf(f.stops, i)
    <2>1. key \in keys
      OBVIOUS
    <2>2. drives[i].to = GivenTo(f, key)
      BY <1>1, <1>5
    <2>3. key \in DOMAIN f.given => GivenTo(f, key) = {f.given[key]}
      BY DEF GivenTo
    <2>4. key \notin DOMAIN f.given => GivenTo(f, key) = {}
      BY DEF GivenTo
    <2>5. /\ key \in DOMAIN row.given <=> key \in DOMAIN f.given
          /\ key \in DOMAIN row.given => row.given[key] = f.given[key]
          /\ key \in DOMAIN row.typed <=> key \in DOMAIN f.typed
          /\ key \in DOMAIN row.typed => row.typed[key] = f.typed[key]
      <3> HIDE DEF keys, key
      <3> QED BY <1>3, <2>1
    <2>6. body.drives[i].miles \in MilesShown(f, i) /\ body.drives[i].estimated = Estimated(f, key)
      BY <1>1
    <2>7. ASSUME key \in DOMAIN f.typed PROVE drives[i].miles = f.typed[key]
      BY <1>5, <2>6, <2>7 DEF MilesShown, Estimated
    <2>8. ASSUME key \notin DOMAIN f.typed
          PROVE  drives[i].miles \in {Route(f.stops, i)} \cup Estimate(key)
      <3>1. body.drives[i].miles \in {Route(f.stops, i)} \cup Estimate(key)
        BY <2>6, <2>8 DEF MilesShown
      <3> QED BY <1>5, <3>1
    <2> HIDE DEF key
    <2> QED BY <2>2, <2>3, <2>4, <2>5, <2>7, <2>8 DEF key
  <1> QED BY <1>3, <1>7, <1>8 DEF Records, row, I

\* A drive's legs in what is recorded.
LEMMA LegsRecorded ==
    ASSUME NEW f \in Form, f.stops # <<>>, NEW row, NEW drives, Records(row, f, drives),
           NEW i \in DrivesOf(f.stops), NEW who, who = WhoOf(f.stops, drives[i], i)
    PROVE  /\ drives[i] \in Drive /\ f.stops \in Seq(Stop)
           /\ who \in Seq(Clients)
           /\ LegsFor(row.legs, i) =
                  LegsTo(who, i, RuleFor(f.stops, drives[i], i), drives[i].miles)
           /\ {l \in ToSet(row.legs) : l.drive = i} = ToSet(LegsFor(row.legs, i))
           /\ MilesOf(row.legs, i) = drives[i].miles
           /\ \A l \in ToSet(row.legs) : l.drive \in DrivesOf(f.stops)
  <1> DEFINE stops == f.stops
             drive == drives[i]
             legs == row.legs
  <1>1. stops \in Seq(Stop) /\ stops # <<>> /\ i \in DrivesOf(stops)
    BY DEF Form
  <1>2. drives \in Drives(stops) /\ legs = LegsOf(stops, drives)
    BY DEF Records
  <1>3. drive \in Drive
    BY <1>1, <1>2 DEF Drives
  <1> HIDE DEF stops, legs
  <1>4. /\ LegsFor(legs, i) = LegsOfDrive(stops, drive, i)
        /\ {l \in ToSet(legs) : l.drive = i} = ToSet(LegsFor(legs, i))
        /\ MilesOf(legs, i) = drive.miles
        /\ \A l \in ToSet(legs) : l.drive \in DrivesOf(stops)
    BY <1>1, <1>2, LegsOfTrip
  <1> HIDE DEF drive
  <1>5. /\ WhoOf(stops, drive, i) \in Seq(Clients)
        /\ LegsOfDrive(stops, drive, i) =
               LegsTo(WhoOf(stops, drive, i), i, RuleFor(stops, drive, i), drive.miles)
    BY <1>1, <1>3, WhoFits
  <1>6. who = WhoOf(stops, drive, i)
    BY DEF stops, drive
  <1> QED BY <1>1, <1>3, <1>4, <1>5, <1>6 DEF stops, drive, legs

\* What DrivesAddUp says of a trip.
AddsUp(row) ==
    \A i \in DrivesOf(row.stops) :
        LET key == KeyOf(row.stops, i)
            legs == ToSet(LegsFor(row.legs, i))
        IN /\ IF key \in DOMAIN row.typed
              THEN MilesOf(row.legs, i) = row.typed[key]
              ELSE MilesOf(row.legs, i) \in {Route(row.stops, i)} \cup Estimate(key)
           /\ \A l, m \in legs : l.miles - m.miles \in -1..1

\* What is recorded of a drive comes to what was typed for it, or to a length it may have.
LEMMA RowAddsUp ==
    ASSUME NEW f \in Form, f.stops # <<>>, NEW row, NEW drives, Records(row, f, drives)
    PROVE  AddsUp(row)
  <1> SUFFICES ASSUME NEW i \in DrivesOf(f.stops)
               PROVE  LET key == KeyOf(f.stops, i)
                          legs == ToSet(LegsFor(row.legs, i))
                      IN /\ IF key \in DOMAIN row.typed
                            THEN MilesOf(row.legs, i) = row.typed[key]
                            ELSE MilesOf(row.legs, i) \in {Route(f.stops, i)} \cup Estimate(key)
                         /\ \A l, m \in legs : l.miles - m.miles \in -1..1
    BY DEF AddsUp, Records
  <1> DEFINE key == KeyOf(f.stops, i)
             legs == LegsFor(row.legs, i)
             who == WhoOf(f.stops, drives[i], i)
             rule == RuleFor(f.stops, drives[i], i)
             miles == drives[i].miles
  <1>1. /\ who \in Seq(Clients) /\ legs = LegsTo(who, i, rule, miles)
        /\ MilesOf(row.legs, i) = miles /\ drives[i] \in Drive
    BY LegsRecorded
  <1>2. miles \in Nat
    BY <1>1 DEF Drive
  <1>3. /\ key \in DOMAIN row.typed => miles = row.typed[key]
        /\ key \notin DOMAIN row.typed => miles \in {Route(f.stops, i)} \cup Estimate(key)
    BY DEF Records
  <1> HIDE DEF key, legs, who, rule, miles
  <1>4. \A l, m \in ToSet(legs) : l.miles - m.miles \in -1..1
    BY <1>1, <1>2, LegsOfWho
  <1> QED BY <1>1, <1>3, <1>4 DEF key, legs

\* What OnlyCausersPay says of a leg and who is charged for it.
Pays(row, l, c) ==
    LET key == KeyOf(row.stops, l.drive)
    IN /\ c \in ClientsOf(row.stops)
       /\ IF key \in DOMAIN row.given THEN c \in ToSet(row.given[key])
          ELSE [client |-> c, askedThere |-> FALSE]
                   \in ToSet(row.stops[Min({l.drive, Len(row.stops)})].visits)

\* Who is charged for a drive it was given to, or asked for it before it was driven.
LEMMA RowCharges ==
    ASSUME NEW f \in Form, f.stops # <<>>, NEW row, NEW drives, Records(row, f, drives),
           \A i \in DrivesOf(f.stops) : \A to \in drives[i].to : ToSet(to) \subseteq ClientsOf(f.stops),
           NEW l \in ToSet(row.legs), NEW c \in l.client
    PROVE  Pays(row, l, c)
  <1> DEFINE i == l.drive
             key == KeyOf(f.stops, i)
             stops == f.stops
             drive == drives[i]
             who == WhoOf(stops, drive, i)
             rule == RuleFor(stops, drive, i)
             miles == drive.miles
             legs == LegsFor(row.legs, i)
  <1>1. i \in DrivesOf(stops)
    <2>1. \E j : j \in DrivesOf(stops)
      <3>1. stops \in Seq(Stop)
        BY DEF Form
      <3>2. 1 \in DrivesOf(stops)
        BY <3>1 DEF DrivesOf
      <3> QED BY <3>2
    <2>2. PICK j : j \in DrivesOf(stops)
      BY <2>1
    <2> QED BY <2>2, LegsRecorded
  <1>2. /\ who \in Seq(Clients) /\ legs = LegsTo(who, i, rule, miles) /\ drive \in Drive
        /\ stops \in Seq(Stop) /\ l \in ToSet(legs)
    BY <1>1, LegsRecorded
  <1>3. row.stops = stops /\ (drive.to # {} <=> key \in DOMAIN row.given)
        /\ (drive.to # {} => drive.to = {row.given[key]})
    BY <1>1 DEF Records
  <1>4. \A to \in drive.to : ToSet(to) \subseteq ClientsOf(stops)
    BY <1>1
  <1>5. stops # <<>> /\ miles \in Nat
    BY <1>2 DEF Drive
  <1> HIDE DEF i, stops, drive, who, rule, miles, legs
  <1>6. l.client \in Payers(who)
    BY <1>2, <1>5, LegsOfWho
  <1>7. c \in ToSet(who)
    BY <1>6 DEF Payers
  <1>8. /\ LastStop(stops, i) \in DOMAIN stops
        /\ drive.to = {} => who = CausedBy(stops[LastStop(stops, i)])
        /\ drive.to # {} => drive.to = {who}
    <2>1. /\ LastStop(stops, i) \in DOMAIN stops
          /\ drive.to = {} => WhoOf(stops, drive, i) = CausedBy(stops[LastStop(stops, i)])
          /\ drive.to # {} => drive.to = {WhoOf(stops, drive, i)}
      BY <1>1, <1>2, <1>5, WhoFits
    <2> QED BY <2>1 DEF who
  <1>9. CASE drive.to # {}
    <2>1. who = row.given[key] /\ key \in DOMAIN row.given /\ ToSet(who) \subseteq ClientsOf(stops)
      BY <1>3, <1>4, <1>8, <1>9
    <2> QED BY <1>3, <1>7, <2>1 DEF Pays, i, stops
  <1>10. CASE drive.to = {}
    <2> DEFINE at == LastStop(stops, i)
               stop == stops[at]
               v == [client |-> c, askedThere |-> FALSE]
    <2>1. stop \in Stop /\ at \in DOMAIN stops
      BY <1>1, <1>2, <1>8, KeysOfDrives
    <2>2. c \in ToSet(CausedBy(stop))
      BY <1>7, <1>8, <1>10
    <2>3. v \in ToSet(stop.visits)
      <3> HIDE DEF stop
      <3> QED BY <2>1, <2>2, CausersOfStop
    <2>4. c \in ClientsOf(stops)
      <3>1. c \in {u.client : u \in ToSet(stops[at].visits)}
        BY <2>3
      <3> QED BY <2>1, <3>1 DEF ClientsOf
    <2>5. at = Min({i, Len(stops)})
      <3> DEFINE n == Len(stops)
      <3>1. n \in Nat /\ i \in Nat
        BY <1>1, <1>2 DEF DrivesOf
      <3>2. at = IF i > n THEN n ELSE i
        BY DEF LastStop
      <3> HIDE DEF n, at
      <3>3. at \in {i, n} /\ \A y \in {i, n} : at <= y
        BY <3>1, <3>2
      <3>4. \A x \in {i, n} : (\A y \in {i, n} : x <= y) => x = at
        BY <3>1, <3>2
      <3> QED BY <3>3, <3>4 DEF Min, n
    <2>6. key \notin DOMAIN row.given
      BY <1>3, <1>10
    <2> QED BY <1>3, <2>3, <2>4, <2>5, <2>6 DEF Pays, i, stops
  <1> QED BY <1>9, <1>10
-----------------------------------------------------------------------------
(* A saved trip, back in the form.                                         *)

\* The same places, for the same clients in some order.
Alike(s, stops) ==
    /\ s \in Seq(Stop) /\ Len(s) = Len(stops)
    /\ DOMAIN s = DOMAIN stops /\ DrivesOf(s) = DrivesOf(stops)
    /\ \A i \in DrivesOf(stops) : KeyOf(s, i) = KeyOf(stops, i)
    /\ \A i \in DOMAIN stops : ToSet(s[i].visits) = ToSet(stops[i].visits)

\* In whatever order those at a stop come back, its stops, places and drives are the same.
LEMMA ReorderedAlike ==
    ASSUME NEW stops \in Seq(Stop), NEW s \in Reordered(stops)
    PROVE  Alike(s, stops)
  <1> DEFINE D == DOMAIN stops
             n == Len(stops)
             one(i) == {[place |-> stops[i].place, visits |-> v] : v \in SetToSeqs(ToSet(stops[i].visits))}
  <1>1. n \in Nat /\ D = 1..n /\ \A i \in D : stops[i] \in Stop
    OBVIOUS
  <1>2. /\ s \in [D -> UNION {one(i) : i \in D}]
        /\ \A i \in D : s[i].place = stops[i].place /\ ToSet(s[i].visits) = ToSet(stops[i].visits)
    BY DEF Reordered
  <1>3. ASSUME NEW i \in D, NEW x \in one(i) PROVE x \in Stop
    <2> DEFINE S == ToSet(stops[i].visits)
               c == Cardinality(S)
               was == stops[i].visits
    <2>1. PICK v \in SetToSeqs(S) : x = [place |-> stops[i].place, visits |-> v]
      OBVIOUS
    <2>2. was \in Seq(Visit) /\ (\A j, k \in DOMAIN was : was[j].client = was[k].client => j = k)
          /\ stops[i].place \in Places
      BY <1>1 DEF Stop, Visits
    <2>3. c \in Nat
      <3>1. IsInjective(was)
        BY <2>2 DEF IsInjective
      <3> HIDE DEF was
      <3>2. IsFiniteSet(ToSet(was))
        BY <2>2, <3>1, MembersCounted
      <3> QED BY <3>2, FS_CardinalityType DEF was
    <2>4. v \in [1..c -> S] /\ \A j, k \in 1..c : j # k => v[j] # v[k]
      BY <2>1 DEF SetToSeqs
    <2>5. S \subseteq Visit /\ \A u, w \in S : u.client = w.client => u = w
      BY <2>2 DEF ToSet
    <2> HIDE DEF S, c
    <2>6. v \in [1..c -> Visit]
      BY <2>4, <2>5
    <2>7. v \in Seq(Visit) /\ DOMAIN v = 1..c
      BY <2>3, <2>6, IsASeq
    <2>8. \A j, k \in DOMAIN v : v[j].client = v[k].client => j = k
      BY <2>4, <2>5, <2>7
    <2> QED BY <2>1, <2>2, <2>7, <2>8 DEF Stop, Visits
  <1> HIDE DEF one, D, n
  <1>4. s \in [1..n -> Stop]
    BY <1>1, <1>2, <1>3
  <1>5. s \in Seq(Stop) /\ Len(s) = n /\ DOMAIN s = D
    BY <1>1, <1>4, IsASeq
  <1>6. PlacesOf(s) = PlacesOf(stops)
    <2>1. [i \in D |-> s[i].place] = [i \in D |-> stops[i].place]
      BY <1>2
    <2> QED BY <1>5, <2>1 DEF PlacesOf, D
  <1> QED BY <1>2, <1>5, <1>6 DEF Alike, DrivesOf, KeyOf, D, n

\* The legs somebody pays for, and in which order whom the form says they are to.
Paid(legs) == Among({l \in ToSet(legs) : l.client # {}}, legs)
GivenBy(to) == [k \in DOMAIN to |-> CHOOSE c \in to[k].client : TRUE]

\* Who a drive was given to is told from its legs.
LEMMA WhoFromLegs ==
    ASSUME NEW who \in Seq(Clients), NEW i, NEW rule, NEW miles \in Nat,
           NEW legs, legs = LegsTo(who, i, rule, miles),
           NEW to, to = Paid(legs)
    PROVE  GivenBy(to) = who
  <1> DEFINE T == {l \in ToSet(legs) : l.client # {}}
  <1>1. legs \in Seq(ToSet(legs)) /\ \A l \in ToSet(legs) : l.client \in Payers(who)
    BY LegsOfWho
  <1>2. CASE who = <<>>
    <2>1. ToSet(legs) \cap T = {}
      BY <1>1, <1>2 DEF Payers
    <2> HIDE DEF T
    <2>2. Among(T, legs) = <<>>
      BY <1>1, <2>1, AmongMembers
    <2>3. DOMAIN to = {} /\ DOMAIN who = {}
      BY <1>2, <2>2 DEF T, Paid
    <2>4. who = [k \in DOMAIN who |-> who[k]]
      OBVIOUS
    <2> DEFINE body(k) == CHOOSE c \in to[k].client : TRUE
    <2>5. \A k \in {} : body(k) = who[k]
      OBVIOUS
    <2> HIDE DEF body
    <2>6. [k \in {} |-> body(k)] = [k \in {} |-> who[k]]
      BY <2>5
    <2> QED BY <2>3, <2>4, <2>6 DEF GivenBy, body
  <1>3. CASE who # <<>>
    <2>1. ToSet(legs) \subseteq T
      BY <1>1, <1>3 DEF Payers
    <2> HIDE DEF T
    <2>2. Among(T, legs) = legs
      BY <1>1, <2>1, AmongMembers
    <2>3. to = legs
      BY <2>2 DEF T, Paid
    <2> DEFINE leg(k) == [drive |-> i, client |-> {who[k]}, rule |-> rule,
                          miles |-> Shares(miles, Len(who))[k]]
    <2>4. legs = [k \in DOMAIN who |-> leg(k)]
      BY <1>3 DEF LegsTo
    <2>5. \A k : leg(k).client = {who[k]}
      OBVIOUS
    <2> HIDE DEF leg
    <2>6. DOMAIN to = DOMAIN who /\ \A k \in DOMAIN who : to[k].client = {who[k]}
      BY <2>3, <2>4, <2>5
    <2>7. \A k \in DOMAIN who : (CHOOSE c \in to[k].client : TRUE) = who[k]
      BY <2>6
    <2>8. who = [k \in DOMAIN who |-> who[k]]
      OBVIOUS
    <2> QED BY <2>6, <2>7, <2>8 DEF GivenBy
  <1> QED BY <1>2, <1>3

\* The last of the drives between two places is one.
LEMMA LastIsOne ==
    ASSUME NEW row, row.stops \in Seq(Stop), NEW key,
           key \in {KeyOf(row.stops, i) : i \in DrivesOf(row.stops)}
    PROVE  LastBetween(row, key) \in DrivesOf(row.stops) /\ KeyOf(row.stops, LastBetween(row, key)) = key
  <1> DEFINE S == {i \in DrivesOf(row.stops) : KeyOf(row.stops, i) = key}
             n == Len(row.stops)
  <1>1. n \in Nat /\ DrivesOf(row.stops) = 1..(n + 1)
    BY DEF DrivesOf
  <1>2. IsFiniteSet(1..(n + 1))
    BY <1>1, FS_Interval
  <1>3. S # {} /\ S \subseteq 1..(n + 1) /\ S \in SUBSET Nat
    BY <1>1
  <1>4. LastBetween(row, key) = Max(S)
    BY DEF LastBetween
  <1> HIDE DEF S
  <1>5. Max(S) \in S
    BY <1>2, <1>3, FS_Subset, GreatestThere
  <1> QED BY <1>4, <1>5 DEF S

\* A saved trip opens as a complete form, each drive given to whom it was.
LEMMA OpenedFits ==
    ASSUME NEW f \in Form, f.stops # <<>>, NEW row, NEW drives, Records(row, f, drives),
           NEW stops \in Reordered(row.stops), NEW g, g = Opened(row, stops)
    PROVE  /\ Alike(stops, f.stops)
           /\ g \in Form /\ g.stops = stops /\ Complete(g)
           /\ \A i \in DrivesOf(f.stops) :
                LET key == KeyOf(f.stops, i)
                IN /\ GivenTo(g, key) = GivenTo(f, key)
                   /\ MilesShown(g, i) = {MilesOf(row.legs, LastBetween(row, key))}
                   /\ LastBetween(row, key) \in DrivesOf(f.stops)
                   /\ KeyOf(f.stops, LastBetween(row, key)) = key
  <1> DEFINE I == DrivesOf(f.stops)
             keys == {KeyOf(row.stops, i) : i \in DrivesOf(row.stops)}
             last(key) == LastBetween(row, key)
             legs == [key \in keys |-> LegsFor(row.legs, last(key))]
             chosen == {key \in keys : ByHand(ToSet(legs[key]))}
             to(key) == Among({l \in ToSet(legs[key]) : l.client # {}}, legs[key])
             given(key) == [k \in DOMAIN to(key) |-> CHOOSE c \in to(key)[k].client : TRUE]
  <1>1. row.stops = f.stops /\ f.stops \in Seq(Stop)
    BY DEF Records, Form
  <1>2. Alike(stops, f.stops)
    BY <1>1, ReorderedAlike
  <1>3. /\ g = [stops |-> stops,
                typed |-> [key \in keys |-> MilesOf(row.legs, last(key))],
                given |-> [key \in chosen |-> given(key)],
                google |-> FALSE, change |-> TRUE]
    BY DEF Opened
  <1>4. \A key \in keys : last(key) \in I /\ KeyOf(f.stops, last(key)) = key /\ key \in Keys
    <2> TAKE key \in keys
    <2>1. last(key) \in I /\ KeyOf(f.stops, last(key)) = key
      BY <1>1, LastIsOne
    <2> QED BY <1>1, <2>1, KeysOfDrives
  <1>5. ASSUME NEW key \in keys
        PROVE  /\ MilesOf(row.legs, last(key)) \in Nat
               /\ key \in chosen <=> GivenTo(f, key) # {}
               /\ key \in chosen => GivenTo(f, key) = {given(key)} /\ given(key) \in Seq(Clients)
    <2> DEFINE i == last(key)
               drive == drives[i]
               who == WhoOf(f.stops, drive, i)
               rule == RuleFor(f.stops, drive, i)
               miles == drive.miles
               mine == legs[key]
    <2>1. i \in I /\ KeyOf(f.stops, i) = key
      BY <1>4
    <2>2. mine = LegsFor(row.legs, i)
      OBVIOUS
    <2>3. /\ drive \in Drive /\ who \in Seq(Clients) /\ mine = LegsTo(who, i, rule, miles)
          /\ MilesOf(row.legs, i) = miles
      BY <2>1, <2>2, LegsRecorded
    <2>4. miles \in Nat
      BY <2>3 DEF Drive
    <2>5. drive.to = GivenTo(f, key)
      BY <2>1 DEF Records
    <2>6. /\ rule = "chosen" <=> drive.to # {}
          /\ drive.to # {} => drive.to = {who}
      <3> DEFINE all == f.stops
      <3>1. all \in Seq(Stop) /\ all # <<>> /\ i \in DrivesOf(all)
        BY <1>1, <2>1
      <3> HIDE DEF all, i, drive
      <3>2. /\ RuleFor(all, drive, i) = "chosen" <=> drive.to # {}
            /\ drive.to # {} => drive.to = {WhoOf(all, drive, i)}
        BY <2>3, <3>1, WhoFits
      <3> QED BY <3>2 DEF all, i, drive
    <2> HIDE DEF i, drive, who, rule, miles, mine
    <2>7. ToSet(mine) # {} /\ \A l \in ToSet(mine) : l.rule = rule
      BY <2>3, <2>4, LegsOfWho
    <2>8. key \in chosen <=> rule = "chosen"
      BY <2>7 DEF ByHand, mine
    <2> DEFINE t == to(key)
    <2>9. t = Paid(mine)
      BY DEF mine, Paid
    <2> HIDE DEF t
    <2>10. GivenBy(t) = who
      BY <2>3, <2>4, <2>9, WhoFromLegs
    <2>11. given(key) = who
      BY <2>10 DEF t, GivenBy
    <2> QED BY <2>3, <2>4, <2>5, <2>6, <2>8, <2>11 DEF i
  <1>6. \A i \in I : KeyOf(f.stops, i) \in keys
    BY <1>1
  <1>7. chosen \subseteq keys
    OBVIOUS
  <1> HIDE DEF I, keys, last, legs, chosen, to, given
  <1>8. /\ g.stops = stops /\ g.google = FALSE /\ g.change = TRUE
        /\ g.typed = [key \in keys |-> MilesOf(row.legs, last(key))]
        /\ g.given = [key \in chosen |-> given(key)]
    BY <1>3
  <1>9. g \in Form
    <2>1. g.typed \in KeptBy(Nat)
      <3>1. g.typed \in [keys -> Nat] /\ keys \in SUBSET Keys
        BY <1>4, <1>5, <1>8
      <3> QED BY <3>1 DEF KeptBy
    <2>2. g.given \in KeptBy(Seq(Clients))
      <3>1. g.given \in [chosen -> Seq(Clients)] /\ chosen \in SUBSET Keys
        BY <1>4, <1>5, <1>7, <1>8
      <3> QED BY <3>1 DEF KeptBy
    <2>3. stops \in Seq(Stop)
      BY <1>2 DEF Alike
    <2> QED BY <1>3, <1>8, <2>1, <2>2, <2>3 DEF Form
  <1>10. ASSUME NEW i \in I
         PROVE  /\ GivenTo(g, KeyOf(f.stops, i)) = GivenTo(f, KeyOf(f.stops, i))
                /\ MilesShown(g, i) = {MilesOf(row.legs, last(KeyOf(f.stops, i)))}
    <2> DEFINE key == KeyOf(f.stops, i)
    <2>1. key \in keys /\ KeyOf(g.stops, i) = key
      BY <1>2, <1>6, <1>8 DEF Alike, I
    <2> HIDE DEF key
    <2>2. GivenTo(g, key) = GivenTo(f, key)
      <3>1. CASE key \in chosen
        <4>1. GivenTo(g, key) = {given(key)}
          BY <1>8, <3>1 DEF GivenTo
        <4> QED BY <1>5, <2>1, <3>1, <4>1
      <3>2. CASE key \notin chosen
        <4>1. GivenTo(g, key) = {}
          BY <1>8, <3>2 DEF GivenTo
        <4> QED BY <1>5, <2>1, <3>2, <4>1
      <3> QED BY <3>1, <3>2
    <2>3. MilesShown(g, i) = {MilesOf(row.legs, last(key))}
      <3>1. key \in DOMAIN g.typed /\ g.typed[key] = MilesOf(row.legs, last(key))
        BY <1>8, <2>1
      <3> QED BY <2>1, <3>1 DEF MilesShown
    <2> QED BY <2>2, <2>3 DEF key
  <1>11. Complete(g)
    <2>1. stops # <<>>
      <3>1. Len(stops) = Len(f.stops) /\ stops \in Seq(Stop)
        BY <1>2 DEF Alike
      <3> QED BY <1>1, <3>1
    <2>2. DrivesOf(g.stops) = I
      BY <1>2, <1>8 DEF Alike, I
    <2> QED BY <1>8, <1>10, <2>1, <2>2 DEF Complete
  <1> QED BY <1>2, <1>4, <1>6, <1>8, <1>9, <1>10, <1>11 DEF I, last

\* What a drive to these clients charges.
ChargedTo(who, rule, n) == {[client |-> p, rule |-> rule, of |-> n] : p \in Payers(who)}

\* What a drive charges whom, told from its legs.
LEMMA ChargedIs ==
    ASSUME NEW all, NEW i, NEW who \in Seq(Clients), NEW rule, NEW miles \in Nat,
           NEW legs, legs = LegsTo(who, i, rule, miles),
           {l \in ToSet(all) : l.drive = i} = ToSet(legs)
    PROVE  Charged(all, i) = ChargedTo(who, rule, Cardinality(ToSet(legs)))
  <1> DEFINE n == Cardinality(ToSet(legs))
             S == ToSet(legs)
             P == Payers(who)
  <1>1. Charged(all, i) = {[client |-> l.client, rule |-> l.rule, of |-> n] : l \in S}
    BY DEF Charged
  <1>2. /\ \A l \in S : l.rule = rule /\ l.client \in P
        /\ \A p \in P : \E l \in S : l.client = p
    BY LegsOfWho
  <1> HIDE DEF n, S, P
  <1>3. \A l \in S : [client |-> l.client, rule |-> l.rule, of |-> n] \in
                         {[client |-> p, rule |-> rule, of |-> n] : p \in P}
    BY <1>2
  <1>4. \A p \in P : [client |-> p, rule |-> rule, of |-> n] \in
                         {[client |-> l.client, rule |-> l.rule, of |-> n] : l \in S}
    BY <1>2
  <1>5. {[client |-> l.client, rule |-> l.rule, of |-> n] : l \in S}
            = {[client |-> p, rule |-> rule, of |-> n] : p \in P}
    BY <1>3, <1>4
  <1> QED BY <1>1, <1>5 DEF ChargedTo, n, P

\* The two sequences of those an alike stop was for are as long, and have the same members.
LEMMA SameCausers ==
    ASSUME NEW s \in Stop, NEW t \in Stop, ToSet(s.visits) = ToSet(t.visits)
    PROVE  /\ ToSet(CausedBy(s)) = ToSet(CausedBy(t))
           /\ Len(CausedBy(s)) = Len(CausedBy(t))
           /\ CausedBy(s) = <<>> <=> CausedBy(t) = <<>>
  <1> DEFINE a == CausedBy(s)
             b == CausedBy(t)
  <1>1. a \in Seq(Clients) /\ IsInjective(a) /\ b \in Seq(Clients) /\ IsInjective(b)
    BY CausersOfStop
  <1>2. /\ \A c : c \in ToSet(a) <=> [client |-> c, askedThere |-> FALSE] \in ToSet(s.visits)
        /\ \A c : c \in ToSet(b) <=> [client |-> c, askedThere |-> FALSE] \in ToSet(t.visits)
    BY CausersOfStop
  <1> HIDE DEF a, b
  <1>3. ToSet(a) = ToSet(b)
    BY <1>2
  <1>4. Len(a) = Len(b)
    BY <1>1, <1>3, MembersCounted
  <1>5. a = <<>> <=> b = <<>>
    BY <1>1, <1>4
  <1> QED BY <1>3, <1>4, <1>5 DEF a, b

\* What ReopensTheSame says of a trip, its clients in the order they were read.
Reopens(row, stops) ==
    LET legs == LegsOf(stops, Body(Opened(row, stops)).drives)
    IN \A i \in DrivesOf(row.stops) :
        /\ MilesOf(legs, i) = MilesOf(row.legs, i)
        /\ Charged(legs, i) = Charged(row.legs, i)

\* What is recorded, opened and recorded again, charges what it did.
LEMMA RowReopens ==
    ASSUME NEW f \in Form, f.stops # <<>>, NEW row, NEW drives, Records(row, f, drives),
           OneLength(row), NEW stops \in Reordered(row.stops)
    PROVE  Reopens(row, stops)
  <1> DEFINE g == Opened(row, stops)
             again == Body(g).drives
             legs == LegsOf(stops, again)
             I == DrivesOf(f.stops)
  <1>1. /\ Alike(stops, f.stops) /\ g \in Form /\ g.stops = stops /\ Complete(g)
        /\ \A i \in I :
             LET key == KeyOf(f.stops, i)
             IN /\ GivenTo(g, key) = GivenTo(f, key)
                /\ MilesShown(g, i) = {MilesOf(row.legs, LastBetween(row, key))}
                /\ LastBetween(row, key) \in I
                /\ KeyOf(f.stops, LastBetween(row, key)) = key
    BY OpenedFits
  <1> HIDE DEF g
  <1>2. /\ again \in Drives(stops)
        /\ \A i \in DrivesOf(stops) : again[i].miles \in MilesShown(g, i)
                                      /\ again[i].to = GivenTo(g, KeyOf(stops, i))
    BY <1>1, BodyFits
  <1> HIDE DEF again
  <1>3. row.stops = f.stops /\ f.stops \in Seq(Stop)
    BY DEF Records, Form
  <1>4. /\ stops \in Seq(Stop) /\ stops # <<>> /\ Len(stops) = Len(f.stops) /\ DOMAIN stops = DOMAIN f.stops
        /\ DrivesOf(stops) = I /\ \A i \in I : KeyOf(stops, i) = KeyOf(f.stops, i)
        /\ \A i \in DOMAIN stops : ToSet(stops[i].visits) = ToSet(f.stops[i].visits)
    <2>1. stops \in Seq(Stop) /\ Len(stops) = Len(f.stops)
      BY <1>1 DEF Alike
    <2>2. stops # <<>>
      BY <1>3, <2>1
    <2> QED BY <1>1, <2>1, <2>2 DEF Alike
  <1>5. ASSUME NEW i \in I
        PROVE  MilesOf(legs, i) = MilesOf(row.legs, i) /\ Charged(legs, i) = Charged(row.legs, i)
    <2> DEFINE drive == drives[i]
               now == again[i]
               who == WhoOf(f.stops, drive, i)
               whoNow == WhoOf(stops, now, i)
               rule == RuleFor(f.stops, drive, i)
               ruleNow == RuleFor(stops, now, i)
               mine == LegsFor(row.legs, i)
               mineNow == LegsOfDrive(stops, now, i)
               key == KeyOf(f.stops, i)
    <2>1. /\ drive \in Drive /\ who \in Seq(Clients) /\ mine = LegsTo(who, i, rule, drive.miles)
          /\ {l \in ToSet(row.legs) : l.drive = i} = ToSet(mine)
          /\ MilesOf(row.legs, i) = drive.miles
      BY LegsRecorded
    <2>2. /\ LegsFor(legs, i) = mineNow
          /\ {l \in ToSet(legs) : l.drive = i} = ToSet(mineNow)
          /\ MilesOf(legs, i) = now.miles
      <3>1. i \in DrivesOf(stops)
        BY <1>4
      <3>2. /\ LegsFor(legs, i) = mineNow
            /\ {l \in ToSet(legs) : l.drive = i} = ToSet(LegsFor(legs, i))
            /\ MilesOf(legs, i) = now.miles
        BY <1>2, <1>4, <3>1, LegsOfTrip
      <3> QED BY <3>2
    <2>3. now \in Drive
      BY <1>2, <1>4 DEF Drives
    <2>4. now.to = drive.to
      <3>1. drive.to = GivenTo(f, key)
        BY DEF Records
      <3>2. now.to = GivenTo(g, key)
        BY <1>2, <1>4
      <3> QED BY <1>1, <3>1, <3>2
    <2>5. now.miles = drive.miles
      <3> DEFINE j == LastBetween(row, key)
      <3>1. now.miles = MilesOf(row.legs, j)
        BY <1>1, <1>2, <1>4
      <3>2. j \in I /\ KeyOf(f.stops, j) = KeyOf(f.stops, i)
        BY <1>1
      <3> HIDE DEF j
      <3>3. MilesOf(row.legs, j) = MilesOf(row.legs, i)
        BY <1>3, <3>2 DEF OneLength
      <3> QED BY <2>1, <3>1, <3>3
    <2>6. drive.miles \in Nat
      BY <2>1 DEF Drive
    <2>7. /\ whoNow \in Seq(Clients) /\ mineNow = LegsTo(whoNow, i, ruleNow, now.miles)
          /\ LastStop(stops, i) \in DOMAIN stops
          /\ now.to = {} => /\ whoNow = CausedBy(stops[LastStop(stops, i)])
                            /\ IsInjective(whoNow)
          /\ now.to # {} => now.to = {whoNow}
          /\ ruleNow = "chosen" <=> now.to # {}
      <3>1. i \in DrivesOf(stops)
        BY <1>4
      <3> HIDE DEF now
      <3> QED BY <1>4, <2>3, <3>1, WhoFits
    <2>8. /\ drive.to = {} => /\ who = CausedBy(f.stops[LastStop(f.stops, i)])
                              /\ IsInjective(who)
          /\ drive.to # {} => drive.to = {who}
          /\ rule = "chosen" <=> drive.to # {}
      <3> DEFINE all == f.stops
      <3>1. i \in DrivesOf(all) /\ all \in Seq(Stop) /\ all # <<>>
        BY <1>3
      <3> HIDE DEF drive, all
      <3>2. /\ drive.to = {} => /\ WhoOf(all, drive, i) = CausedBy(all[LastStop(all, i)])
                                /\ IsInjective(WhoOf(all, drive, i))
            /\ drive.to # {} => drive.to = {WhoOf(all, drive, i)}
            /\ RuleFor(all, drive, i) = "chosen" <=> drive.to # {}
        BY <2>1, <3>1, WhoFits
      <3> QED BY <3>2 DEF all
    <2>9. rule = RuleOf(f.stops, drive, who, i) /\ ruleNow = RuleOf(stops, now, whoNow, i)
      BY DEF RuleFor
    <2>10. LastStop(stops, i) = LastStop(f.stops, i)
      BY <1>4 DEF LastStop
    <2> DEFINE at == LastStop(stops, i)
    <2>11. at \in DOMAIN stops /\ stops[at] \in Stop /\ f.stops[at] \in Stop
           /\ ToSet(stops[at].visits) = ToSet(f.stops[at].visits)
      BY <1>3, <1>4, <2>7
    <2> HIDE DEF drive, now, who, whoNow, rule, ruleNow, mine, mineNow, key, legs, at
    <2>12. /\ Charged(row.legs, i) = ChargedTo(who, rule, Cardinality(ToSet(mine)))
           /\ Charged(legs, i) = ChargedTo(whoNow, ruleNow, Cardinality(ToSet(mineNow)))
      BY <2>1, <2>2, <2>5, <2>6, <2>7, ChargedIs
    <2>13. CASE drive.to # {}
      <3>1. who = whoNow
        BY <2>4, <2>7, <2>8, <2>13
      <3>2. rule = ruleNow
        BY <2>4, <2>7, <2>8, <2>13
      <3>3. mine = mineNow
        BY <2>1, <2>5, <2>7, <3>1, <3>2
      <3> QED BY <2>1, <2>2, <2>5, <2>12, <3>1, <3>2, <3>3
    <2>14. CASE drive.to = {}
      <3>1. /\ ToSet(who) = ToSet(whoNow) /\ Len(who) = Len(whoNow)
            /\ who = <<>> <=> whoNow = <<>>
        <4> DEFINE s == stops[at]
                   t == f.stops[at]
        <4>1. whoNow = CausedBy(s) /\ who = CausedBy(t)
          BY <2>4, <2>7, <2>8, <2>10, <2>14 DEF at
        <4>2. s \in Stop /\ t \in Stop /\ ToSet(s.visits) = ToSet(t.visits)
          BY <2>11
        <4> HIDE DEF s, t
        <4> QED BY <4>1, <4>2, SameCausers
      <3>2. rule = ruleNow
        BY <1>4, <2>4, <2>9, <3>1 DEF RuleOf
      <3>3. Payers(who) = Payers(whoNow)
        BY <3>1 DEF Payers
      <3>4. /\ Cardinality(ToSet(mine)) = IF who = <<>> THEN 1 ELSE Len(who)
            /\ Cardinality(ToSet(mineNow)) = IF whoNow = <<>> THEN 1 ELSE Len(whoNow)
        BY <2>1, <2>4, <2>5, <2>6, <2>7, <2>8, <2>14, LegsCounted
      <3>5. Cardinality(ToSet(mine)) = Cardinality(ToSet(mineNow))
        BY <3>1, <3>4
      <3> QED BY <2>1, <2>2, <2>5, <2>12, <3>2, <3>3, <3>5 DEF ChargedTo
    <2> QED BY <2>13, <2>14
  <1> QED BY <1>3, <1>5 DEF Reopens, legs, again, g
-----------------------------------------------------------------------------
(* The invariant: what is in the form is a form, what waits on the phone   *)
(* is the body of one, and what is recorded was written of one.            *)

FormsFit == \A f \in form : f \in Form

Copy == [body : {Body(f) : f \in Form}, draft : Form, refused : BOOLEAN]
CopyFits(copy) ==
    /\ copy \in Copy
    /\ \E f \in Form : /\ Complete(f) /\ copy.body = Body(f)
                       /\ copy.draft = [f EXCEPT !.google = FALSE]
CopiesFit == \A copy \in store : CopyFits(copy)

RowFits(row) ==
    \E f \in Form, answers \in BOOLEAN :
        Complete(f) /\ GivenToTheirs(Body(f)) /\ row = RowOf(f, answers)
RowsFit == \A row \in trip : RowFits(row)

TripsFit == FormsFit /\ CopiesFit /\ RowsFit

\* A stop taken off leaves the rest as they were.
LEMMA RemovedFits ==
    ASSUME NEW s \in Seq(Stop), NEW i \in DOMAIN s
    PROVE  RemoveAt(s, i) \in Seq(Stop)
  <1>1. Len(s) \in Nat /\ i \in 1..Len(s)
    OBVIOUS
  <1>2. SubSeq(s, 1, i - 1) \in Seq(Stop) /\ SubSeq(s, i + 1, Len(s)) \in Seq(Stop)
    BY <1>1, SubSeqProperties
  <1>3. SubSeq(s, 1, i - 1) \o SubSeq(s, i + 1, Len(s)) \in Seq(Stop)
    BY <1>2, ConcatProperties
  <1> QED BY <1>3 DEF RemoveAt

\* A stop put on is for each client once.
LEMMA AddedFits ==
    ASSUME NEW s \in There
    PROVE  [place |-> s.place,
            visits |-> [k \in DOMAIN s.for |-> [client |-> s.for[k], askedThere |-> FALSE]]] \in Stop
  <1> DEFINE v == [k \in DOMAIN s.for |-> [client |-> s.for[k], askedThere |-> FALSE]]
             n == Len(s.for)
  <1>1. s.for \in Seq(Clients) /\ \A j, k \in DOMAIN s.for : s.for[j] = s.for[k] => j = k
    BY ThereAssumption DEF IsInjective
  <1>2. n \in Nat /\ DOMAIN s.for = 1..n /\ \A k \in 1..n : s.for[k] \in Clients
    BY <1>1
  <1>3. \A k \in 1..n : v[k] \in Visit /\ v[k].client = s.for[k]
    BY <1>2 DEF Visit
  <1>4. DOMAIN v = 1..n /\ v = [k \in 1..n |-> v[k]]
    BY <1>2
  <1> HIDE DEF v, n
  <1>5. v \in Seq(Visit)
    <2>1. v \in [1..n -> Visit]
      BY <1>3, <1>4
    <2> QED BY <1>2, <2>1, IsASeq
  <1>6. v \in Visits
    BY <1>1, <1>2, <1>3, <1>4, <1>5 DEF Visits
  <1>7. s.place \in Places
    BY DEF Places
  <1> QED BY <1>6, <1>7 DEF Stop, v

\* Who asked at the stop itself changes none of those it is for.
LEMMA AskedFits ==
    ASSUME NEW f \in Form, NEW i \in DOMAIN f.stops, NEW k \in DOMAIN f.stops[i].visits
    PROVE  [f EXCEPT !.stops[i].visits[k].askedThere = ~@] \in Form
  <1> DEFINE s == f.stops
             stop == s[i]
             v == stop.visits
             u == [v[k] EXCEPT !.askedThere = ~@]
             v2 == [v EXCEPT ![k] = u]
             stop2 == [stop EXCEPT !.visits = v2]
             s2 == [s EXCEPT ![i] = stop2]
  <1>1. s \in Seq(Stop) /\ stop \in Stop
    BY DEF Form
  <1>2. v \in Seq(Visit) /\ \A j, l \in DOMAIN v : v[j].client = v[l].client => j = l
    BY <1>1 DEF Stop, Visits
  <1>3. u \in Visit /\ u.client = v[k].client
    <2>1. v[k] \in Visit
      BY <1>2
    <2> QED BY <2>1 DEF Visit
  <1>4. v2 \in Visits
    <2> HIDE DEF u, v
    <2>1. v2 \in Seq(Visit)
      BY <1>2, <1>3 DEF v
    <2>2. DOMAIN v2 = DOMAIN v /\ \A j \in DOMAIN v : v2[j].client = v[j].client
      BY <1>3
    <2> HIDE DEF v2
    <2> QED BY <1>2, <2>1, <2>2 DEF Visits
  <1>5. stop2 \in Stop
    <2> HIDE DEF v2, stop
    <2> QED BY <1>1, <1>4 DEF Stop
  <1>6. s2 \in Seq(Stop)
    <2> HIDE DEF stop2, s
    <2> QED BY <1>1, <1>5 DEF s
  <1>7. [f EXCEPT !.stops = s2] \in Form
    <2> HIDE DEF s2
    <2> QED BY <1>6 DEF Form
  <1> QED BY <1>7

\* Each client of a trip is one.
LEMMA ClientsFit ==
    ASSUME NEW stops \in Seq(Stop)
    PROVE  ClientsOf(stops) \subseteq Clients
  <1> SUFFICES ASSUME NEW c \in ClientsOf(stops) PROVE c \in Clients
    OBVIOUS
  <1>1. PICK i \in DOMAIN stops : c \in {v.client : v \in ToSet(stops[i].visits)}
    BY DEF ClientsOf
  <1>2. PICK v \in ToSet(stops[i].visits) : c = v.client
    BY <1>1
  <1>3. stops[i].visits \in Seq(Visit)
    <2>1. stops[i] \in Stop
      OBVIOUS
    <2> QED BY <2>1 DEF Stop, Visits
  <1>4. v \in Visit
    BY <1>2, <1>3 DEF ToSet
  <1> QED BY <1>2, <1>4 DEF Visit

\* One more key's value is kept.
LEMMA KeptOneMore ==
    ASSUME NEW S, NEW g \in KeptBy(S), NEW key \in Keys, NEW x \in S
    PROVE  /\ [k \in DOMAIN g \cup {key} |-> IF k = key THEN x ELSE g[k]] \in KeptBy(S)
           /\ [k \in DOMAIN g \ {key} |-> IF k = key THEN x ELSE g[k]] \in KeptBy(S)
  <1>1. PICK K \in SUBSET Keys : g \in [K -> S]
    BY DEF KeptBy
  <1>2. [k \in K \cup {key} |-> IF k = key THEN x ELSE g[k]] \in [K \cup {key} -> S]
    BY <1>1
  <1>3. [k \in K \ {key} |-> IF k = key THEN x ELSE g[k]] \in [K \ {key} -> S]
    BY <1>1
  <1>4. K \cup {key} \in SUBSET Keys /\ K \ {key} \in SUBSET Keys /\ DOMAIN g = K
    BY <1>1
  <1> QED BY <1>2, <1>3, <1>4 DEF KeptBy

\* A saved trip opens as a form.
LEMMA RowOpens ==
    ASSUME NEW row, RowFits(row), NEW stops \in Reordered(row.stops)
    PROVE  Opened(row, stops) \in Form
  <1>1. PICK f \in Form, answers \in BOOLEAN : Complete(f) /\ row = RowOf(f, answers)
    BY DEF RowFits
  <1>2. PICK drives : Records(row, f, drives)
    BY <1>1, RowRecords
  <1> QED BY <1>1, <1>2, OpenedFits DEF Complete

\* What is changed in the form leaves a form.
LEMMA FormsStep ==
    ASSUME TripsFit, Next
    PROVE  FormsFit'
  <1> USE DEF TripsFit, FormsFit
  <1>1. CASE OpenNew
    <2>1. Blank \in Form
      <3>1. <<>> \in KeptBy(Nat) /\ <<>> \in KeptBy(Seq(Clients))
        <4>1. {} \in SUBSET Keys /\ <<>> \in [{} -> Nat] /\ <<>> \in [{} -> Seq(Clients)]
          OBVIOUS
        <4> QED BY <4>1 DEF KeptBy
      <3> QED BY <3>1 DEF Blank, Form
    <2> QED BY <1>1, <2>1 DEF OpenNew
  <1>2. CASE OpenChange
    <2>1. PICK row \in trip : \E stops \in Reordered(row.stops) : form' = {Opened(row, stops)}
      BY <1>2 DEF OpenChange
    <2>2. PICK stops \in Reordered(row.stops) : form' = {Opened(row, stops)}
      BY <2>1
    <2>3. Opened(row, stops) \in Form
      BY <2>2, RowOpens DEF RowsFit
    <2> QED BY <2>2, <2>3
  <1>3. CASE Fix
    <2>1. PICK copy \in store : form' = {copy.draft}
      BY <1>3 DEF Fix
    <2>2. copy.draft \in Form
      BY DEF CopiesFit, CopyFits, Copy
    <2> QED BY <2>1, <2>2
  <1>4. CASE Close \/ Save
    BY <1>4 DEF Close, Save
  <1>5. CASE LetGo \/ Take \/ Refuse
    BY <1>5 DEF LetGo, Take, Refuse
  <1>6. CASE AddStop
    <2>1. PICK f \in form, s \in There :
              form' = {[f EXCEPT !.google = FALSE, !.stops = Append(@,
                           [place |-> s.place,
                            visits |-> [k \in DOMAIN s.for |->
                                           [client |-> s.for[k], askedThere |-> FALSE]]])]}
      BY <1>6 DEF AddStop
    <2> DEFINE stop == [place |-> s.place,
                        visits |-> [k \in DOMAIN s.for |-> [client |-> s.for[k], askedThere |-> FALSE]]]
               long == Append(f.stops, stop)
    <2>2. stop \in Stop /\ f \in Form
      BY AddedFits
    <2>3. form' = {[f EXCEPT !.google = FALSE, !.stops = long]}
      BY <2>1, <2>2 DEF Form
    <2> HIDE DEF stop
    <2>4. long \in Seq(Stop)
      BY <2>2, AppendProperties DEF Form
    <2> HIDE DEF long
    <2>5. [f EXCEPT !.google = FALSE, !.stops = long] \in Form
      BY <2>2, <2>4 DEF Form
    <2> QED BY <2>3, <2>5
  <1>7. CASE RemoveStop
    <2>1. PICK f \in form : \E i \in DOMAIN f.stops :
              form' = {[f EXCEPT !.google = FALSE, !.stops = RemoveAt(@, i)]}
      BY <1>7 DEF RemoveStop, Tap
    <2>2. PICK i \in DOMAIN f.stops :
              form' = {[f EXCEPT !.google = FALSE, !.stops = RemoveAt(@, i)]}
      BY <2>1
    <2>3. f \in Form /\ f.stops \in Seq(Stop)
      BY DEF Form
    <2> DEFINE s == f.stops
               short == RemoveAt(s, i)
    <2>4. form' = {[f EXCEPT !.google = FALSE, !.stops = short]}
      BY <2>2, <2>3 DEF Form
    <2>5. short \in Seq(Stop)
      BY <2>3, RemovedFits
    <2> HIDE DEF short
    <2>6. [f EXCEPT !.google = FALSE, !.stops = short] \in Form
      BY <2>3, <2>5 DEF Form
    <2> QED BY <2>4, <2>6
  <1>8. CASE AskedThere
    <2>1. \E f \in form : \E i \in DOMAIN f.stops : \E k \in DOMAIN f.stops[i].visits :
              form' = {[f EXCEPT !.stops[i].visits[k].askedThere = ~@]}
      BY <1>8 DEF AskedThere, Tap
    <2>2. \A f \in form : f \in Form
      OBVIOUS
    <2> QED BY <2>1, <2>2, AskedFits
  <1>9. CASE TypeMiles
    <2>1. PICK f \in form : \E i \in DrivesOf(f.stops), m \in Typed :
              form' = {[f EXCEPT !.typed =
                           [key \in DOMAIN @ \cup {KeyOf(f.stops, i)} |->
                               IF key = KeyOf(f.stops, i) THEN m ELSE @[key]]]}
      BY <1>9 DEF TypeMiles, Tap
    <2>2. PICK i \in DrivesOf(f.stops), m \in Typed :
              form' = {[f EXCEPT !.typed =
                           [key \in DOMAIN @ \cup {KeyOf(f.stops, i)} |->
                               IF key = KeyOf(f.stops, i) THEN m ELSE @[key]]]}
      BY <2>1
    <2> DEFINE at == KeyOf(f.stops, i)
               typed == [key \in DOMAIN f.typed \cup {at} |-> IF key = at THEN m ELSE f.typed[key]]
    <2>3. f \in Form /\ at \in Keys /\ m \in Nat
      BY MilesFit, MilesAssumption
    <2>4. form' = {[f EXCEPT !.typed = typed]}
      BY <2>2, <2>3 DEF Form
    <2>5. typed \in KeptBy(Nat)
      <3>1. f.typed \in KeptBy(Nat)
        BY <2>3 DEF Form
      <3> HIDE DEF at
      <3> QED BY <2>3, <3>1, KeptOneMore
    <2> HIDE DEF typed
    <2>6. [f EXCEPT !.typed = typed] \in Form
      BY <2>3, <2>5 DEF Form
    <2> QED BY <2>4, <2>6
  <1>10. CASE GiveTo
    <2>1. PICK f \in form : \E i \in DrivesOf(f.stops),
               to \in Maybe({<<>>} \cup {<<c>> : c \in ClientsOf(f.stops)}) :
              form' = {[f EXCEPT !.given =
                           [key \in (DOMAIN @ \ {KeyOf(f.stops, i)})
                                    \cup {k \in {KeyOf(f.stops, i)} : to # {}} |->
                               IF key = KeyOf(f.stops, i) THEN CHOOSE t \in to : TRUE ELSE @[key]]]}
      BY <1>10 DEF GiveTo, Tap
    <2>2. PICK i \in DrivesOf(f.stops),
               to \in Maybe({<<>>} \cup {<<c>> : c \in ClientsOf(f.stops)}) :
              form' = {[f EXCEPT !.given =
                           [key \in (DOMAIN @ \ {KeyOf(f.stops, i)})
                                    \cup {k \in {KeyOf(f.stops, i)} : to # {}} |->
                               IF key = KeyOf(f.stops, i) THEN CHOOSE t \in to : TRUE ELSE @[key]]]}
      BY <2>1
    <2> DEFINE at == KeyOf(f.stops, i)
               who == CHOOSE t \in to : TRUE
               given == [key \in (DOMAIN f.given \ {at}) \cup {k \in {at} : to # {}} |->
                            IF key = at THEN who ELSE f.given[key]]
    <2>3. f \in Form /\ at \in Keys /\ f.given \in KeptBy(Seq(Clients)) /\ f.stops \in Seq(Stop)
      BY MilesFit DEF Form
    <2>4. form' = {[f EXCEPT !.given = given]}
      BY <2>2, <2>3 DEF Form
    <2>5. given \in KeptBy(Seq(Clients))
      <3>1. CASE to = {}
        <4> DEFINE none == <<>>
        <4>1. given = [key \in DOMAIN f.given \ {at} |-> IF key = at THEN none ELSE f.given[key]]
          BY <3>1
        <4>2. none \in Seq(Clients)
          OBVIOUS
        <4> HIDE DEF at, given, none
        <4> QED BY <2>3, <4>1, <4>2, KeptOneMore
      <3>2. CASE to # {}
        <4>1. who \in Seq(Clients)
          <5>1. who \in {<<>>} \cup {<<c>> : c \in ClientsOf(f.stops)}
            BY <3>2 DEF Maybe
          <5>2. \A c \in ClientsOf(f.stops) : c \in Clients
            BY <2>3, ClientsFit
          <5>3. \A c \in Clients : <<c>> \in Seq(Clients)
            OBVIOUS
          <5>4. <<>> \in Seq(Clients)
            OBVIOUS
          <5> HIDE DEF who
          <5> QED BY <5>1, <5>2, <5>3, <5>4
        <4>2. (DOMAIN f.given \ {at}) \cup {k \in {at} : to # {}} = DOMAIN f.given \cup {at}
          BY <3>2
        <4> HIDE DEF at, who
        <4>3. given = [key \in DOMAIN f.given \cup {at} |-> IF key = at THEN who ELSE f.given[key]]
          BY <4>2
        <4> HIDE DEF given
        <4> QED BY <2>3, <4>1, <4>3, KeptOneMore
      <3> QED BY <3>1, <3>2
    <2> HIDE DEF given
    <2>6. [f EXCEPT !.given = given] \in Form
      BY <2>3, <2>5 DEF Form
    <2> QED BY <2>4, <2>6
  <1>11. CASE AnswerRoute
    <2>1. PICK f \in form : form' = {[f EXCEPT !.google = ~@]}
      BY <1>11 DEF AnswerRoute
    <2>2. [f EXCEPT !.google = ~@] \in Form
      BY DEF Form
    <2> QED BY <2>1, <2>2
  <1> QED BY <1>1, <1>2, <1>3, <1>4, <1>5, <1>6, <1>7, <1>8, <1>9, <1>10, <1>11 DEF Next

\* Only a complete form is put in the store.
LEMMA CopiesStep ==
    ASSUME TripsFit, Next
    PROVE  CopiesFit'
  <1> USE DEF TripsFit
  <1>1. CASE Save
    <2>1. PICK f \in form : /\ Complete(f)
                            /\ store' = {[body |-> Body(f), draft |-> [f EXCEPT !.google = FALSE],
                                          refused |-> FALSE]}
      BY <1>1 DEF Save
    <2>2. f \in Form /\ [f EXCEPT !.google = FALSE] \in Form
      BY DEF FormsFit, Form
    <2>3. ASSUME NEW copy, copy = [body |-> Body(f), draft |-> [f EXCEPT !.google = FALSE],
                                   refused |-> FALSE]
          PROVE  CopyFits(copy)
      <3>1. copy.body = Body(f) /\ copy.draft = [f EXCEPT !.google = FALSE] /\ copy.refused = FALSE
        BY <2>3
      <3>2. copy \in Copy
        BY <2>2, <2>3 DEF Copy
      <3> QED BY <2>1, <2>2, <3>1, <3>2 DEF CopyFits
    <2> QED BY <2>1, <2>3 DEF CopiesFit
  <1>2. CASE Refuse
    <2>1. ASSUME NEW copy \in store PROVE CopyFits([copy EXCEPT !.refused = TRUE])
      <3> DEFINE now == [copy EXCEPT !.refused = TRUE]
      <3>1. CopyFits(copy)
        BY DEF CopiesFit
      <3>2. now \in Copy /\ now.body = copy.body /\ now.draft = copy.draft
        BY <3>1 DEF CopyFits, Copy
      <3> HIDE DEF now
      <3>3. CopyFits(now)
        BY <3>1, <3>2 DEF CopyFits
      <3> QED BY <3>3 DEF now
    <2> QED BY <1>2, <2>1 DEF Refuse, CopiesFit
  <1>3. CASE Take \/ LetGo
    <2>1. store' \subseteq store
      BY <1>3 DEF Take, LetGo
    <2> QED BY <2>1 DEF CopiesFit
  <1>4. CASE OpenNew \/ OpenChange \/ Fix \/ Close \/ AddStop \/ RemoveStop \/ AskedThere
             \/ TypeMiles \/ GiveTo \/ AnswerRoute
    <2>1. store' = store
      BY <1>4 DEF OpenNew, OpenChange, Fix, Close, AddStop, RemoveStop, AskedThere,
         TypeMiles, GiveTo, AnswerRoute, Tap, phone
    <2> QED BY <2>1 DEF CopiesFit
  <1> QED BY <1>1, <1>2, <1>3, <1>4 DEF Next

\* Only what waits in the store is recorded.
LEMMA RowsStep ==
    ASSUME TripsFit, Next
    PROVE  RowsFit'
  <1> USE DEF TripsFit
  <1>1. CASE Take
    <2>1. PICK copy \in store, answers \in BOOLEAN :
              /\ GivenToTheirs(copy.body)
              /\ trip' = IF trip # {} /\ ~copy.draft.change THEN trip
                         ELSE {Written(copy.body, copy.draft, answers)}
      BY <1>1 DEF Take
    <2>2. PICK f \in Form : /\ Complete(f) /\ copy.body = Body(f)
                            /\ copy.draft = [f EXCEPT !.google = FALSE]
      BY DEF CopiesFit, CopyFits
    <2>3. RowFits(Written(copy.body, copy.draft, answers))
      BY <2>1, <2>2 DEF RowFits, RowOf
    <2> QED BY <2>1, <2>3 DEF RowsFit
  <1>2. CASE OpenNew \/ OpenChange \/ Fix \/ Close \/ Save \/ LetGo \/ AddStop \/ RemoveStop
             \/ AskedThere \/ TypeMiles \/ GiveTo \/ AnswerRoute \/ Refuse
    <2>1. trip' = trip
      BY <1>2 DEF OpenNew, OpenChange, Fix, Close, Save, LetGo, AddStop, RemoveStop, AskedThere,
         TypeMiles, GiveTo, AnswerRoute, Refuse, Tap, phone
    <2> QED BY <2>1 DEF RowsFit
  <1> QED BY <1>1, <1>2 DEF Next

\* The form, the store and what is recorded stay what they are said to be.
THEOREM Inductive == Spec => []TripsFit
  <1>1. Init => TripsFit
    BY DEF Init, TripsFit, FormsFit, CopiesFit, RowsFit
  <1>2. TripsFit /\ [Next]_vars => TripsFit'
    <2>1. ASSUME TripsFit, Next PROVE TripsFit'
      BY <2>1, FormsStep, CopiesStep, RowsStep DEF TripsFit
    <2>2. ASSUME TripsFit, UNCHANGED vars PROVE TripsFit'
      BY <2>2 DEF TripsFit, FormsFit, CopiesFit, RowsFit, vars
    <2> QED BY <2>1, <2>2
  <1> QED BY <1>1, <1>2, PTL DEF Spec

\* What is recorded records a form, with each drive given to clients of the trip.
LEMMA RowOfForm ==
    ASSUME TripsFit, NEW row \in trip
    PROVE  \E f \in Form : \E drives :
               /\ f.stops # <<>> /\ Records(row, f, drives)
               /\ \A i \in DrivesOf(f.stops) : \A to \in drives[i].to : ToSet(to) \subseteq ClientsOf(f.stops)
  <1>1. PICK f \in Form, answers \in BOOLEAN :
            Complete(f) /\ GivenToTheirs(Body(f)) /\ row = RowOf(f, answers)
    BY DEF TripsFit, RowsFit, RowFits
  <1>2. PICK drives : Records(row, f, drives)
    BY <1>1, RowRecords
  <1>3. \A i \in DrivesOf(f.stops) : drives[i].to = Body(f).drives[i].to
    BY <1>1, <1>2, BodyFits DEF Records
  <1>4. \A i \in DrivesOf(f.stops) : \A to \in drives[i].to : ToSet(to) \subseteq ClientsOf(f.stops)
    BY <1>1, <1>3, BodyFits DEF GivenToTheirs
  <1> QED BY <1>1, <1>2, <1>4 DEF Complete

\* However a drive is shared out, its legs come to the miles it was typed as, or
\* to Google's or an estimate's, and are even to the hundredth.
THEOREM EveryDriveAddsUp == Spec => []DrivesAddUp
  <1>1. TripsFit => DrivesAddUp
    <2> SUFFICES ASSUME TripsFit, NEW row \in trip PROVE AddsUp(row)
      BY DEF DrivesAddUp, AddsUp
    <2> QED BY RowOfForm, RowAddsUp
  <1> QED BY <1>1, Inductive, PTL

\* Nobody is charged for a drive but whom it was given to, or who asked for it before it.
THEOREM OnlyCausersAreCharged == Spec => []OnlyCausersPay
  <1>1. TripsFit => OnlyCausersPay
    <2> SUFFICES ASSUME TripsFit, NEW row \in trip, NEW l \in ToSet(row.legs), NEW c \in l.client
                 PROVE  Pays(row, l, c)
      BY DEF OnlyCausersPay, Pays
    <2> QED BY RowOfForm, RowCharges
  <1> QED BY <1>1, Inductive, PTL

\* A saved trip opened and saved again untouched charges what it did, where
\* drives between the same two places were as long.
THEOREM ReopeningChangesNothing == Spec => []ReopensTheSame
  <1>1. TripsFit => ReopensTheSame
    <2> SUFFICES ASSUME TripsFit, NEW row \in trip, OneLength(row), NEW stops \in Reordered(row.stops)
                 PROVE  Reopens(row, stops)
      BY DEF ReopensTheSame, Reopens
    <2> QED BY RowOfForm, RowReopens
  <1> QED BY <1>1, Inductive, PTL
==============================================================================
