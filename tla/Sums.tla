-------------------------------- MODULE Sums --------------------------------
(***************************************************************************)
(* What the folds of the community modules come to over any finite set and *)
(* any sequence: the facts about sums, products, passes through a sequence *)
(* and sequences joined end to end that the proofs about StockShelf,       *)
(* Retainers and Trips rest on.                                            *)
(***************************************************************************)
EXTENDS SequencesExt, FiniteSetsExt, FiniteSetTheorems, SequenceTheorems, TLAPS

-----------------------------------------------------------------------------
(* Induction over a finite set, as a set of its subsets.                   *)

\* Of the finite sets that are not good, one has only good subsets.
LEMMA SubsetInduction ==
    ASSUME NEW S, IsFiniteSet(S), NEW Good,
           \A T \in SUBSET S : (\A U \in SUBSET T : U # T => U \in Good) => T \in Good
    PROVE  S \in Good
  <1> DEFINE Bad == {T \in SUBSET S : T \notin Good}
  <1> SUFFICES ASSUME S \notin Good PROVE FALSE
    OBVIOUS
  <1>1. IsWellFoundedOn(StrictSubsetOrdering(S), FiniteSubsetsOf(S))
    BY FS_StrictSubsetOrderingWellFounded
  <1>2. Bad \subseteq FiniteSubsetsOf(S) /\ Bad # {}
    BY FS_FiniteSubsetsOfFinite
  <1> HIDE DEF Bad
  <1>3. PICK T \in Bad : \A U \in Bad : <<U, T>> \notin StrictSubsetOrdering(S)
    BY <1>1, <1>2, WFMin
  <1>4. T \in SUBSET S /\ T \notin Good
    BY <1>3 DEF Bad
  <1>5. ASSUME NEW U \in SUBSET T, U # T PROVE U \in Good
    <2>1. <<U, T>> \in StrictSubsetOrdering(S)
      BY <1>4, <1>5 DEF StrictSubsetOrdering
    <2> QED BY <1>3, <1>4, <2>1 DEF Bad
  <1> QED BY <1>4, <1>5

\* The form it is mostly needed in: one element less.
LEMMA RemovalInduction ==
    ASSUME NEW S, IsFiniteSet(S), NEW Good, {} \in Good,
           \A T \in SUBSET S : T # {} /\ (\A x \in T : T \ {x} \in Good) => T \in Good
    PROVE  S \in Good
  <1>1. ASSUME NEW T \in SUBSET S, \A U \in SUBSET T : U # T => U \in Good
        PROVE  T \in Good
    <2>1. CASE T = {}
      BY <2>1
    <2>2. CASE T # {}
      <3>1. \A x \in T : T \ {x} \in SUBSET T /\ T \ {x} # T
        OBVIOUS
      <3> QED BY <1>1, <2>2, <3>1
    <2> QED BY <2>1, <2>2
  <1> HIDE DEF IsFiniteSet
  <1> QED BY <1>1, SubsetInduction
-----------------------------------------------------------------------------
(* A fold is defined by recursion over the subsets of a set: there is a    *)
(* function that satisfies the equation it is defined by.                  *)

Folded(S, V, base, step, pick, g) ==
    /\ g \in [SUBSET S -> V]
    /\ \A s \in SUBSET S :
        g[s] = IF s = {} THEN base ELSE step[<<pick[s], g[s \ {pick[s]}]>>]

\* Two such functions agree on every set both go down to.
LEMMA FoldIsOne ==
    ASSUME NEW S, IsFiniteSet(S), NEW V, NEW base, NEW step, NEW pick,
           \A s \in SUBSET S : s # {} => pick[s] \in s,
           NEW A \in SUBSET S, NEW B \in SUBSET S, NEW g, NEW h,
           Folded(A, V, base, step, pick, g), Folded(B, V, base, step, pick, h),
           NEW s \in SUBSET A, s \in SUBSET B
    PROVE  g[s] = h[s]
  <1> DEFINE Good == {t \in SUBSET s : g[t] = h[t]}
  <1>1. \A t \in SUBSET s : t \in SUBSET A /\ t \in SUBSET B /\ t \in SUBSET S
    OBVIOUS
  <1>2. {} \in Good
    BY <1>1 DEF Folded
  <1>3. ASSUME NEW T \in SUBSET s, T # {}, \A x \in T : T \ {x} \in Good
        PROVE  T \in Good
    <2>1. pick[T] \in T
      BY <1>1, <1>3
    <2>2. g[T \ {pick[T]}] = h[T \ {pick[T]}]
      BY <1>3, <2>1
    <2>3. g[T] = step[<<pick[T], g[T \ {pick[T]}]>>]
      BY <1>1, <1>3 DEF Folded
    <2>4. h[T] = step[<<pick[T], h[T \ {pick[T]}]>>]
      BY <1>1, <1>3 DEF Folded
    <2> QED BY <2>2, <2>3, <2>4
  <1>4. IsFiniteSet(s)
    BY FS_Subset
  <1>5. s \in Good
    <2> HIDE DEF Good
    <2> QED BY <1>2, <1>3, <1>4, RemovalInduction
  <1> QED BY <1>5

PickIn(S, pick) == \A s \in SUBSET S : s # {} => pick[s] \in s

\* The fold of a part of a set is the one of the set there.
LEMMA FoldOfPart ==
    ASSUME NEW S, IsFiniteSet(S), NEW V, NEW base, NEW step, NEW pick,
           PickIn(S, pick), NEW A \in SUBSET S, NEW g, NEW h,
           Folded(A, V, base, step, pick, g), Folded(S, V, base, step, pick, h)
    PROVE  g[A] = h[A]
  <1>1. S \in SUBSET S /\ A \in SUBSET A
    OBVIOUS
  <1> QED BY <1>1, FoldIsOne DEF PickIn

\* There is such a function, for every finite set and every step that keeps the values.
LEMMA FoldExists ==
    ASSUME NEW S, IsFiniteSet(S), NEW V, NEW base \in V, NEW step, NEW pick,
           \A x \in S, v \in V : step[<<x, v>>] \in V,
           \A s \in SUBSET S : s # {} => pick[s] \in s
    PROVE  \E g : Folded(S, V, base, step, pick, g)
  <1> DEFINE Is(T, g) == Folded(T, V, base, step, pick, g)
             Good == {T \in SUBSET S : \E g : Is(T, g)}
             Of(T) == CHOOSE g : Is(T, g)
             Val(T) == Of(T)[T]
  <1>1. ASSUME NEW T \in SUBSET S, \A U \in SUBSET T : U # T => U \in Good
        PROVE  T \in Good
    <2>1. \A U \in SUBSET T : U # T => Is(U, Of(U))
      BY <1>1
    <2> DEFINE p == pick[T]
               top == IF T = {} THEN base ELSE step[<<p, Val(T \ {p})>>]
               G == [s \in SUBSET T |-> IF s = T THEN top ELSE Val(s)]
    <2>2. \A U \in SUBSET T : U # T => Val(U) \in V
      <3> TAKE U \in SUBSET T
      <3> HAVE U # T
      <3>1. Of(U) \in [SUBSET U -> V]
        BY <2>1 DEF Folded
      <3> QED BY <3>1
    <2>3. T # {} => p \in T /\ T \ {p} \in SUBSET T /\ T \ {p} # T
      OBVIOUS
    <2>4. top \in V
      BY <2>2, <2>3
    <2>5. G \in [SUBSET T -> V]
      <3> HIDE DEF top, Val
      <3> QED BY <2>2, <2>4
    <2>6. ASSUME NEW s \in SUBSET T
          PROVE  G[s] = IF s = {} THEN base ELSE step[<<pick[s], G[s \ {pick[s]}]>>]
      <3> DEFINE q == pick[s]
      <3>1. s # {} => q \in s /\ s \ {q} \in SUBSET T /\ s \ {q} # T
        OBVIOUS
      <3>2. s # {} => G[s \ {q}] = Val(s \ {q})
        <4> HIDE DEF top, Val, q
        <4> QED BY <3>1
      <3>3. CASE s = T
        <4>1. G[s] = top
          BY <3>3
        <4> HIDE DEF G, Val
        <4> QED BY <3>2, <3>3, <4>1
      <3>4. CASE s # T
        <4>1. G[s] = Of(s)[s]
          BY <3>4
        <4>2. Is(s, Of(s))
          BY <2>1, <3>4
        <4>3. Of(s)[s] = IF s = {} THEN base ELSE step[<<q, Of(s)[s \ {q}]>>]
          <5>1. s \in SUBSET s
            OBVIOUS
          <5> HIDE DEF Of
          <5> QED BY <4>2, <5>1 DEF Folded
        <4>4. s # {} => Of(s)[s \ {q}] = Of(s \ {q})[s \ {q}]
          <5> SUFFICES ASSUME s # {} PROVE Of(s)[s \ {q}] = Of(s \ {q})[s \ {q}]
            OBVIOUS
          <5>1. Is(s \ {q}, Of(s \ {q}))
            BY <2>1, <3>1
          <5>2. s \in SUBSET S /\ s \ {q} \in SUBSET S /\ s \ {q} \in SUBSET s
            OBVIOUS
          <5> HIDE DEF Of, q
          <5> QED BY <4>2, <5>1, <5>2, FoldIsOne
        <4> HIDE DEF G, Of
        <4> QED BY <3>2, <4>1, <4>3, <4>4
      <3> QED BY <3>3, <3>4
    <2> HIDE DEF G
    <2>7. Is(T, G)
      BY <2>5, <2>6 DEF Folded
    <2> QED BY <2>7
  <1> HIDE DEF Good
  <1>2. S \in Good
    BY <1>1, SubsetInduction
  <1> QED BY <1>2 DEF Good
-----------------------------------------------------------------------------
(* Sums.                                                                   *)

SumOf(f, S) == SumFunctionOnSet(f, S)
Ints(f, S) == \A x \in S : f[x] \in Int

\* A sum is what the recursion it is defined by comes to.
LEMMA SumFolds ==
    ASSUME NEW S, IsFiniteSet(S), NEW f, Ints(f, S), NEW T \in SUBSET S
    PROVE  LET step == [xv \in S \X Int |-> f[xv[1]] + xv[2]]
               pick == [s \in SUBSET S |-> CHOOSE x \in s : TRUE]
           IN  \E g : Folded(T, Int, 0, step, pick, g) /\ SumOf(f, T) = g[T]
  <1> DEFINE step == [xv \in S \X Int |-> f[xv[1]] + xv[2]]
             pick == [s \in SUBSET S |-> CHOOSE x \in s : TRUE]
             Eq(g) == g = [s \in SUBSET T |-> IF s = {} THEN 0
                               ELSE LET x == CHOOSE x \in s : TRUE IN f[x] + g[s \ {x}]]
             iter == CHOOSE g : Eq(g)
  <1>1. SumOf(f, T) = iter[T]
    BY DEF SumOf, SumFunctionOnSet, FoldFunctionOnSet, MapThenFoldSet
  <1>2. IsFiniteSet(T)
    BY FS_Subset
  <1>3. \A x \in T, v \in Int : step[<<x, v>>] \in Int
    BY DEF Ints
  <1>4. \A s \in SUBSET T : s # {} => pick[s] \in s
    OBVIOUS
  <1>a. \E g : Folded(T, Int, 0, step, pick, g)
    <2>1. 0 \in Int
      OBVIOUS
    <2> HIDE DEF step, pick
    <2> QED BY <2>1, <1>2, <1>3, <1>4, FoldExists
  <1>5. PICK g : Folded(T, Int, 0, step, pick, g)
    BY <1>a
  <1>6. g \in [SUBSET T -> Int]
    BY <1>5 DEF Folded
  <1>7. ASSUME NEW s \in SUBSET T, s # {}, NEW x, x = CHOOSE y \in s : TRUE
        PROVE  x \in s /\ g[s] = f[x] + g[s \ {x}]
    <2>1. x \in s /\ s \in SUBSET S /\ s \ {x} \in SUBSET T
      BY <1>7
    <2>2. pick[s] = x
      BY <1>7, <2>1
    <2>3. g[s \ {x}] \in Int
      BY <1>6, <2>1
    <2>4. step[<<x, g[s \ {x}]>>] = f[x] + g[s \ {x}]
      BY <2>1, <2>3
    <2>5. g[s] = step[<<pick[s], g[s \ {pick[s]}]>>]
      <3> HIDE DEF step, pick
      <3> QED BY <1>5, <1>7 DEF Folded
    <2> HIDE DEF step, pick
    <2> QED BY <2>1, <2>2, <2>4, <2>5
  <1>8. g[{}] = 0
    <2> HIDE DEF step, pick
    <2> QED BY <1>5 DEF Folded
  <1>9. Eq(g)
    <2> DEFINE body(s) == IF s = {} THEN 0 ELSE LET x == CHOOSE x \in s : TRUE IN f[x] + g[s \ {x}]
    <2>1. \A s \in SUBSET T : g[s] = body(s)
      BY <1>7, <1>8
    <2>2. g = [s \in SUBSET T |-> g[s]]
      BY <1>6
    <2> HIDE DEF body
    <2>3. g = [s \in SUBSET T |-> body(s)]
      BY <2>1, <2>2
    <2> QED BY <2>3 DEF body
  <1>10. Eq(iter)
    <2> HIDE DEF Eq
    <2> QED BY <1>9
  <1>11. \A s \in SUBSET T : iter[s] = IF s = {} THEN 0
              ELSE LET x == CHOOSE x \in s : TRUE IN f[x] + iter[s \ {x}]
    <2> HIDE DEF iter
    <2> QED BY <1>10
  <1>12. iter[T] = g[T]
    <2> DEFINE Good == {s \in SUBSET T : iter[s] = g[s]}
    <2> HIDE DEF iter
    <2>1. {} \in Good
      BY <1>8, <1>11
    <2>2. ASSUME NEW s \in SUBSET T, s # {}, \A x \in s : s \ {x} \in Good
          PROVE  s \in Good
      <3> DEFINE x == CHOOSE x \in s : TRUE
      <3>1. iter[s] = f[x] + iter[s \ {x}]
        BY <1>11, <2>2
      <3>2. x \in s /\ g[s] = f[x] + g[s \ {x}]
        BY <1>7, <2>2
      <3> HIDE DEF x
      <3>3. iter[s \ {x}] = g[s \ {x}]
        BY <2>2, <3>2
      <3> QED BY <3>1, <3>2, <3>3
    <2> HIDE DEF Good
    <2>3. T \in Good
      BY <1>2, <2>1, <2>2, RemovalInduction
    <2> QED BY <2>3 DEF Good
  <1> QED BY <1>1, <1>5, <1>12

\* A sum is one of its terms and the sum of the rest.
LEMMA SumPick ==
    ASSUME NEW S, IsFiniteSet(S), NEW f, Ints(f, S)
    PROVE  /\ SumOf(f, {}) = 0
           /\ SumOf(f, S) \in Int
           /\ S # {} => \E p \in S : SumOf(f, S) = f[p] + SumOf(f, S \ {p})
  <1> DEFINE step == [xv \in S \X Int |-> f[xv[1]] + xv[2]]
             pick == [s \in SUBSET S |-> CHOOSE x \in s : TRUE]
             Is(T, g) == Folded(T, Int, 0, step, pick, g)
  <1>1. ASSUME NEW T \in SUBSET S
        PROVE  \E g : Is(T, g) /\ SumOf(f, T) = g[T]
    BY SumFolds
  <1>2. \A s \in SUBSET S : s # {} => pick[s] \in s
    OBVIOUS
  <1>3. SumOf(f, {}) = 0
    <2>1. PICK g : Is({}, g) /\ SumOf(f, {}) = g[{}]
      BY <1>1
    <2> HIDE DEF step, pick
    <2> QED BY <2>1 DEF Folded
  <1>4. PICK g : Is(S, g) /\ SumOf(f, S) = g[S]
    BY <1>1
  <1>5. SumOf(f, S) \in Int
    <2> HIDE DEF step, pick
    <2> QED BY <1>4 DEF Folded
  <1>6. ASSUME S # {} PROVE \E p \in S : SumOf(f, S) = f[p] + SumOf(f, S \ {p})
    <2> DEFINE p == pick[S]
               T == S \ {p}
    <2>1. p \in S /\ T \in SUBSET S
      BY <1>2, <1>6
    <2>2. PICK h : Is(T, h) /\ SumOf(f, T) = h[T]
      BY <1>1, <2>1
    <2>3. g[T] = h[T]
      <3>1. S \in SUBSET S /\ T \in SUBSET T
        OBVIOUS
      <3> HIDE DEF step, pick, T
      <3> QED BY <1>2, <1>4, <2>1, <2>2, <3>1, FoldIsOne
    <2>4. g[S] = step[<<p, g[T]>>] /\ g[T] \in Int
      <3> HIDE DEF step, pick
      <3> QED BY <1>4, <1>6, <2>1 DEF Folded
    <2>5. step[<<p, g[T]>>] = f[p] + g[T]
      <3> HIDE DEF p, T
      <3> QED BY <2>1, <2>4
    <2> HIDE DEF p, step
    <2> QED BY <1>4, <2>1, <2>2, <2>3, <2>4, <2>5
  <1> QED BY <1>3, <1>5, <1>6

\* Nothing adds up to nothing.
LEMMA SumEmpty == \A f : SumOf(f, {}) = 0
  BY FS_EmptySet, SumPick DEF Ints

\* Integers add up to an integer.
LEMMA SumType ==
    ASSUME NEW S, IsFiniteSet(S), NEW f, Ints(f, S)
    PROVE  SumOf(f, S) \in Int
  BY SumPick

\* Whichever element is taken first.
LEMMA SumRemove ==
    ASSUME NEW S, IsFiniteSet(S), NEW f, Ints(f, S), NEW x \in S
    PROVE  SumOf(f, S) = f[x] + SumOf(f, S \ {x})
  <1> DEFINE Good == {T \in SUBSET S : \A y \in T : SumOf(f, T) = f[y] + SumOf(f, T \ {y})}
  <1>1. {} \in Good
    OBVIOUS
  <1>2. ASSUME NEW T \in SUBSET S, T # {}, \A y \in T : T \ {y} \in Good
        PROVE  T \in Good
    <2>1. \A U \in SUBSET S : IsFiniteSet(U) /\ Ints(f, U) /\ SumOf(f, U) \in Int
      BY FS_Subset, SumType DEF Ints
    <2>2. PICK p \in T : SumOf(f, T) = f[p] + SumOf(f, T \ {p})
      BY <1>2, <2>1, SumPick
    <2>3. ASSUME NEW y \in T, y # p PROVE SumOf(f, T) = f[y] + SumOf(f, T \ {y})
      <3> DEFINE U == (T \ {p}) \ {y}
      <3>1. SumOf(f, T \ {p}) = f[y] + SumOf(f, U)
        BY <1>2, <2>3
      <3>2. SumOf(f, T \ {y}) = f[p] + SumOf(f, U)
        <4>1. U = (T \ {y}) \ {p} /\ p \in T \ {y}
          BY <2>3
        <4> QED BY <1>2, <4>1
      <3>3. f[y] \in Int /\ f[p] \in Int /\ SumOf(f, U) \in Int
        BY <2>1 DEF Ints
      <3> QED BY <2>2, <3>1, <3>2, <3>3
    <2> QED BY <2>2, <2>3
  <1>3. S \in Good
    <2> HIDE DEF Good
    <2> QED BY <1>1, <1>2, RemovalInduction
  <1> QED BY <1>3

\* One element more adds its term.
LEMMA SumAdd ==
    ASSUME NEW S, IsFiniteSet(S), NEW f, NEW x, x \notin S, Ints(f, S \cup {x})
    PROVE  SumOf(f, S \cup {x}) = SumOf(f, S) + f[x]
  <1>1. IsFiniteSet(S \cup {x}) /\ (S \cup {x}) \ {x} = S /\ x \in S \cup {x}
    BY FS_AddElement
  <1>2. SumOf(f, S) \in Int /\ f[x] \in Int
    BY SumType DEF Ints
  <1>3. SumOf(f, S \cup {x}) = f[x] + SumOf(f, S)
    BY <1>1, SumRemove
  <1> QED BY <1>2, <1>3

\* Two sums differ as their terms do.
LEMMA SumPlus ==
    ASSUME NEW S, IsFiniteSet(S), NEW f, NEW g, NEW h, Ints(f, S), Ints(g, S),
           \A x \in S : h[x] = f[x] + g[x]
    PROVE  SumOf(h, S) = SumOf(f, S) + SumOf(g, S)
  <1> DEFINE Good == {T \in SUBSET S : SumOf(h, T) = SumOf(f, T) + SumOf(g, T)}
  <1>1. {} \in Good
    BY SumEmpty
  <1>2. ASSUME NEW T \in SUBSET S, T # {}, \A x \in T : T \ {x} \in Good
        PROVE  T \in Good
    <2>1. \A U \in SUBSET S : IsFiniteSet(U) /\ Ints(f, U) /\ Ints(g, U) /\ Ints(h, U)
      BY FS_Subset DEF Ints
    <2>2. PICK x \in T : TRUE
      BY <1>2
    <2>3. /\ SumOf(f, T) = f[x] + SumOf(f, T \ {x})
          /\ SumOf(g, T) = g[x] + SumOf(g, T \ {x})
          /\ SumOf(h, T) = h[x] + SumOf(h, T \ {x})
      BY <2>1, SumRemove
    <2>4. SumOf(h, T \ {x}) = SumOf(f, T \ {x}) + SumOf(g, T \ {x})
      BY <1>2
    <2>5. h[x] = f[x] + g[x] /\ f[x] \in Int /\ g[x] \in Int
      BY DEF Ints
    <2>6. SumOf(f, T \ {x}) \in Int /\ SumOf(g, T \ {x}) \in Int
      BY <2>1, SumType
    <2> QED BY <2>3, <2>4, <2>5, <2>6
  <1>3. S \in Good
    <2> HIDE DEF Good
    <2> QED BY <1>1, <1>2, RemovalInduction
  <1> QED BY <1>3

\* The sum is told by the terms alone.
LEMMA SumSame ==
    ASSUME NEW S, IsFiniteSet(S), NEW f, NEW g, Ints(f, S), \A x \in S : g[x] = f[x]
    PROVE  SumOf(g, S) = SumOf(f, S)
  <1> DEFINE Good == {T \in SUBSET S : SumOf(g, T) = SumOf(f, T)}
  <1>1. {} \in Good
    BY SumEmpty
  <1>2. ASSUME NEW T \in SUBSET S, T # {}, \A x \in T : T \ {x} \in Good
        PROVE  T \in Good
    <2>1. IsFiniteSet(T) /\ Ints(f, T) /\ Ints(g, T)
      BY FS_Subset DEF Ints
    <2>2. PICK x \in T : TRUE
      BY <1>2
    <2>3. SumOf(f, T) = f[x] + SumOf(f, T \ {x}) /\ SumOf(g, T) = g[x] + SumOf(g, T \ {x})
      BY <2>1, SumRemove
    <2> QED BY <1>2, <2>3
  <1>3. S \in Good
    <2> HIDE DEF Good
    <2> QED BY <1>1, <1>2, RemovalInduction
  <1> QED BY <1>3

\* Naturals add up to a natural, no less than any of them.
LEMMA SumNat ==
    ASSUME NEW S, IsFiniteSet(S), NEW f, \A x \in S : f[x] \in Nat
    PROVE  /\ SumOf(f, S) \in Nat
           /\ \A x \in S : f[x] <= SumOf(f, S)
  <1> DEFINE Good == {T \in SUBSET S : SumOf(f, T) \in Nat}
  <1>1. {} \in Good
    BY SumEmpty
  <1>a. \A T \in SUBSET S : IsFiniteSet(T) /\ Ints(f, T)
    BY FS_Subset DEF Ints
  <1>2. ASSUME NEW T \in SUBSET S, T # {}, \A x \in T : T \ {x} \in Good
        PROVE  T \in Good
    <2>1. PICK x \in T : TRUE
      BY <1>2
    <2>2. SumOf(f, T) = f[x] + SumOf(f, T \ {x})
      BY <1>a, SumRemove
    <2> QED BY <1>2, <2>2
  <1>3. \A T \in SUBSET S : T \in Good
    <2> TAKE T \in SUBSET S
    <2> HIDE DEF Good
    <2> QED BY <1>a, <1>1, <1>2, RemovalInduction
  <1>4. ASSUME NEW x \in S PROVE f[x] <= SumOf(f, S)
    <2>1. SumOf(f, S) = f[x] + SumOf(f, S \ {x})
      BY <1>a, SumRemove
    <2>2. SumOf(f, S \ {x}) \in Nat
      BY <1>3
    <2> QED BY <2>1, <2>2
  <1> QED BY <1>3, <1>4

\* A sum no less term by term is no less, and is the same only if its terms are.
LEMMA SumLeq ==
    ASSUME NEW S, IsFiniteSet(S), NEW f, NEW g, Ints(f, S), Ints(g, S),
           \A x \in S : f[x] <= g[x]
    PROVE  /\ SumOf(f, S) <= SumOf(g, S)
           /\ SumOf(f, S) = SumOf(g, S) => \A x \in S : f[x] = g[x]
  <1> DEFINE d == [x \in S |-> g[x] - f[x]]
  <1>1. \A x \in S : d[x] \in Nat /\ g[x] = f[x] + d[x] /\ (d[x] <= 0 => f[x] = g[x])
    BY DEF Ints
  <1> HIDE DEF d
  <1>2. Ints(d, S)
    BY <1>1 DEF Ints
  <1>3. SumOf(d, S) \in Nat /\ \A x \in S : d[x] <= SumOf(d, S)
    BY <1>1, SumNat
  <1>4. SumOf(g, S) = SumOf(f, S) + SumOf(d, S)
    BY <1>1, <1>2, SumPlus
  <1>5. SumOf(f, S) \in Int
    BY SumType
  <1>6. SumOf(f, S) = SumOf(g, S) => SumOf(d, S) = 0
    BY <1>3, <1>4, <1>5
  <1> QED BY <1>1, <1>3, <1>4, <1>5, <1>6

\* Terms that are nothing may be left out, or brought in.
LEMMA SumZeros ==
    ASSUME NEW S, IsFiniteSet(S), NEW f, Ints(f, S), NEW R \in SUBSET S,
           \A x \in S \ R : f[x] = 0
    PROVE  SumOf(f, S) = SumOf(f, R)
  <1> DEFINE Good == {T \in SUBSET S : R \subseteq T => SumOf(f, T) = SumOf(f, R)}
  <1>a. \A T \in SUBSET S : IsFiniteSet(T) /\ Ints(f, T) /\ SumOf(f, T) \in Int
    BY FS_Subset, SumType DEF Ints
  <1>1. {} \in Good
    <2>1. R \subseteq {} => R = {}
      OBVIOUS
    <2> QED BY <2>1
  <1>2. ASSUME NEW T \in SUBSET S, T # {}, \A x \in T : T \ {x} \in Good
        PROVE  T \in Good
    <2>1. CASE T = R
      BY <2>1
    <2>2. CASE R \subseteq T /\ T # R
      <3>1. PICK x \in T : x \notin R
        BY <2>2
      <3>2. f[x] = 0 /\ R \subseteq T \ {x}
        BY <2>2, <3>1
      <3>3. SumOf(f, T) = f[x] + SumOf(f, T \ {x}) /\ SumOf(f, T \ {x}) \in Int
        BY <1>a, SumRemove
      <3> QED BY <1>2, <3>2, <3>3
    <2> QED BY <2>1, <2>2
  <1>3. S \in Good
    <2> HIDE DEF Good
    <2> QED BY <1>1, <1>2, RemovalInduction
  <1> QED BY <1>3

\* One term changed.
LEMMA SumExcept ==
    ASSUME NEW S, IsFiniteSet(S), NEW f, NEW g, Ints(f, S), NEW x \in S, g[x] \in Int,
           \A y \in S \ {x} : g[y] = f[y]
    PROVE  SumOf(g, S) = SumOf(f, S) - f[x] + g[x]
  <1> DEFINE T == S \ {x}
  <1>1. IsFiniteSet(T) /\ Ints(f, T) /\ Ints(g, S) /\ \A y \in T : g[y] = f[y]
    BY FS_Subset DEF Ints
  <1>2. SumOf(f, S) = f[x] + SumOf(f, T) /\ SumOf(g, S) = g[x] + SumOf(g, T)
    BY <1>1, SumRemove
  <1>3. SumOf(g, T) = SumOf(f, T) /\ SumOf(f, T) \in Int /\ f[x] \in Int
    <2> HIDE DEF T
    <2>1. f[x] \in Int
      BY DEF Ints
    <2> QED BY <1>1, <2>1, SumSame, SumType
  <1> QED BY <1>2, <1>3

\* A part of the terms adds up to no more than all of them.
LEMMA SumSubset ==
    ASSUME NEW S, IsFiniteSet(S), NEW f, \A x \in S : f[x] \in Nat, NEW T \in SUBSET S
    PROVE  SumOf(f, T) <= SumOf(f, S)
  <1> DEFINE g == [x \in S |-> IF x \in T THEN f[x] ELSE 0]
  <1>1. \A x \in S : g[x] \in Nat /\ g[x] <= f[x] /\ (x \in T => g[x] = f[x]) /\ (x \notin T => g[x] = 0)
    OBVIOUS
  <1> HIDE DEF g
  <1>2. IsFiniteSet(T) /\ Ints(f, S) /\ Ints(f, T) /\ Ints(g, S)
    BY <1>1, FS_Subset DEF Ints
  <1>3. SumOf(g, S) <= SumOf(f, S)
    BY <1>1, <1>2, SumLeq
  <1>4. SumOf(g, S) = SumOf(g, T)
    BY <1>1, <1>2, SumZeros
  <1>5. SumOf(g, T) = SumOf(f, T)
    BY <1>1, <1>2, SumSame
  <1> QED BY <1>3, <1>4, <1>5

\* A sum of terms that are each off by d at most is off by d for each at most.
LEMMA SumBounds ==
    ASSUME NEW S, IsFiniteSet(S), NEW f, NEW d \in Nat, Ints(f, S),
           \A x \in S : 0 - d <= f[x] /\ f[x] <= d
    PROVE  /\ Cardinality(S) \in Nat
           /\ 0 - d * Cardinality(S) <= SumOf(f, S) /\ SumOf(f, S) <= d * Cardinality(S)
  <1> DEFINE Good == {T \in SUBSET S : 0 - d * Cardinality(T) <= SumOf(f, T)
                                        /\ SumOf(f, T) <= d * Cardinality(T)}
  <1>1. {} \in Good
    BY SumEmpty, FS_EmptySet
  <1>2. ASSUME NEW T \in SUBSET S, T # {}, \A x \in T : T \ {x} \in Good
        PROVE  T \in Good
    <2>1. IsFiniteSet(T) /\ Ints(f, T)
      BY FS_Subset DEF Ints
    <2>2. PICK x \in T : TRUE
      BY <1>2
    <2> DEFINE U == T \ {x}
               n == Cardinality(U)
    <2>3. IsFiniteSet(U) /\ n \in Nat /\ Cardinality(T) = n + 1
      <3>1. IsFiniteSet(U) /\ Cardinality(U) = Cardinality(T) - 1
        BY <2>1, <2>2, FS_RemoveElement
      <3>2. Cardinality(T) \in Nat /\ Cardinality(U) \in Nat
        BY <2>1, <3>1, FS_CardinalityType
      <3> QED BY <3>1, <3>2
    <2>4. SumOf(f, T) = f[x] + SumOf(f, U) /\ SumOf(f, U) \in Int /\ f[x] \in Int
      <3>1. Ints(f, U) /\ f[x] \in Int
        BY <2>1, <2>2 DEF Ints
      <3>2. SumOf(f, U) \in Int
        BY <2>3, <3>1, SumType
      <3> QED BY <2>1, <3>1, <3>2, SumRemove
    <2>5. 0 - d * n <= SumOf(f, U) /\ SumOf(f, U) <= d * n /\ 0 - d <= f[x] /\ f[x] <= d
      BY <1>2, <2>2
    <2>6. d * (n + 1) = d * n + d /\ d * n \in Nat
      <3> HIDE DEF n
      <3> QED BY <2>3
    <2>7. 0 - d * (n + 1) <= SumOf(f, T) /\ SumOf(f, T) <= d * (n + 1)
      <3> HIDE DEF n, U
      <3> QED BY <2>3, <2>4, <2>5, <2>6
    <2> QED BY <2>3, <2>7
  <1>3. S \in Good
    <2> HIDE DEF Good
    <2> QED BY <1>1, <1>2, RemovalInduction
  <1> QED BY <1>3, FS_CardinalityType

\* A common factor comes out of a sum.
LEMMA SumScale ==
    ASSUME NEW S, IsFiniteSet(S), NEW f, NEW g, NEW k \in Int, Ints(f, S),
           \A x \in S : g[x] = k * f[x]
    PROVE  SumOf(g, S) = k * SumOf(f, S)
  <1> DEFINE Good == {T \in SUBSET S : SumOf(g, T) = k * SumOf(f, T)}
  <1>1. {} \in Good
    BY SumEmpty
  <1>2. ASSUME NEW T \in SUBSET S, T # {}, \A x \in T : T \ {x} \in Good
        PROVE  T \in Good
    <2>1. \A U \in SUBSET S : IsFiniteSet(U) /\ Ints(f, U) /\ Ints(g, U)
      BY FS_Subset DEF Ints
    <2>2. PICK x \in T : TRUE
      BY <1>2
    <2>3. SumOf(f, T) = f[x] + SumOf(f, T \ {x}) /\ SumOf(g, T) = g[x] + SumOf(g, T \ {x})
      BY <2>1, SumRemove
    <2>4. SumOf(f, T \ {x}) \in Int /\ f[x] \in Int
      BY <2>1, SumType DEF Ints
    <2>5. SumOf(g, T \ {x}) = k * SumOf(f, T \ {x}) /\ g[x] = k * f[x]
      BY <1>2
    <2>6. k * (f[x] + SumOf(f, T \ {x})) = k * f[x] + k * SumOf(f, T \ {x})
      BY <2>4
    <2> QED BY <2>3, <2>5, <2>6
  <1>3. S \in Good
    <2> HIDE DEF Good
    <2> QED BY <1>1, <1>2, RemovalInduction
  <1> QED BY <1>3
-----------------------------------------------------------------------------
(* A product of naturals is one.                                           *)

\* Naturals multiply to a natural.
LEMMA ProductNat ==
    ASSUME NEW S \in SUBSET Nat, IsFiniteSet(S)
    PROVE  ProductSet(S) \in Nat
  <1> DEFINE step == [xv \in S \X Nat |-> xv[1] * xv[2]]
             pick == [s \in SUBSET S |-> CHOOSE x \in s : TRUE]
             Eq(g) == g = [s \in SUBSET S |-> IF s = {} THEN 1
                               ELSE LET x == CHOOSE x \in s : TRUE IN x * g[s \ {x}]]
             iter == CHOOSE g : Eq(g)
  <1>1. ProductSet(S) = iter[S]
    BY DEF ProductSet, FoldSet, MapThenFoldSet
  <1>2. \A x \in S, v \in Nat : step[<<x, v>>] \in Nat
    OBVIOUS
  <1>3. \A s \in SUBSET S : s # {} => pick[s] \in s
    OBVIOUS
  <1>4. \E g : Folded(S, Nat, 1, step, pick, g)
    <2>1. 1 \in Nat
      OBVIOUS
    <2> HIDE DEF step, pick
    <2> QED BY <2>1, <1>2, <1>3, FoldExists
  <1>5. PICK g : Folded(S, Nat, 1, step, pick, g)
    BY <1>4
  <1>6. g \in [SUBSET S -> Nat]
    BY <1>5 DEF Folded
  <1>7. ASSUME NEW s \in SUBSET S, s # {}, NEW x, x = CHOOSE y \in s : TRUE
        PROVE  x \in s /\ g[s] = x * g[s \ {x}]
    <2>1. x \in s /\ s \ {x} \in SUBSET S /\ pick[s] = x
      BY <1>7
    <2>2. g[s \ {x}] \in Nat
      BY <1>6, <2>1
    <2>3. step[<<x, g[s \ {x}]>>] = x * g[s \ {x}]
      BY <2>1, <2>2
    <2>4. g[s] = step[<<pick[s], g[s \ {pick[s]}]>>]
      <3> HIDE DEF step, pick
      <3> QED BY <1>5, <1>7 DEF Folded
    <2> HIDE DEF step, pick
    <2> QED BY <2>1, <2>3, <2>4
  <1>8. g[{}] = 1
    <2> HIDE DEF step, pick
    <2> QED BY <1>5 DEF Folded
  <1>9. Eq(g)
    <2> DEFINE body(s) == IF s = {} THEN 1 ELSE LET x == CHOOSE x \in s : TRUE IN x * g[s \ {x}]
    <2>1. \A s \in SUBSET S : g[s] = body(s)
      BY <1>7, <1>8
    <2>2. g = [s \in SUBSET S |-> g[s]]
      BY <1>6
    <2> HIDE DEF body
    <2>3. g = [s \in SUBSET S |-> body(s)]
      BY <2>1, <2>2
    <2> QED BY <2>3 DEF body
  <1>10. Eq(iter)
    <2> HIDE DEF Eq
    <2> QED BY <1>9
  <1>11. \A s \in SUBSET S : iter[s] = IF s = {} THEN 1
              ELSE LET x == CHOOSE x \in s : TRUE IN x * iter[s \ {x}]
    <2> HIDE DEF iter
    <2> QED BY <1>10
  <1>12. iter[S] = g[S]
    <2> DEFINE Good == {s \in SUBSET S : iter[s] = g[s]}
    <2> HIDE DEF iter
    <2>1. {} \in Good
      BY <1>8, <1>11
    <2>2. ASSUME NEW s \in SUBSET S, s # {}, \A x \in s : s \ {x} \in Good
          PROVE  s \in Good
      <3> DEFINE x == CHOOSE x \in s : TRUE
      <3>1. iter[s] = x * iter[s \ {x}]
        BY <1>11, <2>2
      <3>2. x \in s /\ g[s] = x * g[s \ {x}]
        BY <1>7, <2>2
      <3> HIDE DEF x
      <3>3. iter[s \ {x}] = g[s \ {x}]
        BY <2>2, <3>2
      <3> QED BY <3>1, <3>2, <3>3
    <2> HIDE DEF Good
    <2>3. S \in Good
      BY <2>1, <2>2, RemovalInduction
    <2> QED BY <2>3 DEF Good
  <1> QED BY <1>1, <1>6, <1>12
-----------------------------------------------------------------------------
(* Rounding.                                                               *)

\* A quotient is the greatest whose product does not exceed the dividend.
LEMMA DivBounds ==
    ASSUME NEW n \in Int, NEW d \in Nat \ {0}
    PROVE  n \div d \in Int /\ d * (n \div d) <= n /\ n < d * (n \div d) + d
  OBVIOUS

\* A part of w, by a of t, rounded half up, is no more than w.
LEMMA RoundShare ==
    ASSUME NEW w \in Nat, NEW a \in Nat, NEW t \in Nat \ {0}, a <= t
    PROVE  /\ (2 * (w * a) + t) \div (2 * t) \in 0..w
           /\ a = t => (2 * (w * a) + t) \div (2 * t) = w
  <1> DEFINE q == (2 * (w * a) + t) \div (2 * t)
  <1>1. 2 * t \in Nat \ {0} /\ w * a \in Nat /\ w * t \in Nat
    OBVIOUS
  <1>2. q \in Int /\ (2 * t) * q <= 2 * (w * a) + t /\ 2 * (w * a) + t < (2 * t) * q + 2 * t
    <2>1. 2 * (w * a) + t \in Int
      BY <1>1
    <2> QED BY <1>1, <2>1, DivBounds
  <1> HIDE DEF q
  <1>3. w * a <= w * t
    OBVIOUS
  <1>4. q <= w
    <2> SUFFICES ASSUME q >= w + 1 PROVE FALSE
      BY <1>2
    <2>1. (2 * t) * q >= (2 * t) * (w + 1)
      BY <1>2
    <2>2. (2 * t) * (w + 1) = 2 * (w * t) + 2 * t
      OBVIOUS
    <2> QED BY <1>1, <1>2, <1>3, <2>1, <2>2
  <1>5. q >= 0
    <2> SUFFICES ASSUME q <= -1 PROVE FALSE
      BY <1>2
    <2>1. (2 * t) * q <= (2 * t) * (-1)
      BY <1>2
    <2> QED BY <1>1, <1>2, <2>1
  <1>6. a = t => q >= w
    <2> SUFFICES ASSUME a = t, q <= w - 1 PROVE FALSE
      BY <1>2
    <2>1. (2 * t) * q <= (2 * t) * (w - 1)
      BY <1>2
    <2>2. (2 * t) * (w - 1) = 2 * (w * t) - 2 * t
      OBVIOUS
    <2> QED BY <1>1, <1>2, <2>1, <2>2
  <1> QED BY <1>2, <1>4, <1>5, <1>6 DEF q
-----------------------------------------------------------------------------
(* Serving a want from what there is, in an order: each has what those     *)
(* before it do not.                                                       *)

Orders(R, S) ==
    /\ \A i, j \in S : i = j \/ <<i, j>> \in R \/ <<j, i>> \in R
    /\ \A i, j \in S : ~(<<i, j>> \in R /\ <<j, i>> \in R)
    /\ \A i, j, k \in S : <<i, j>> \in R /\ <<j, k>> \in R => <<i, k>> \in R

Ahead(R, S, i) == {j \in S : <<j, i>> \in R}
Lesser(a, b) == IF a < b THEN a ELSE b
Share(R, S, left, want, i) ==
    LET before == SumOf(left, Ahead(R, S, i))
    IN  IF before >= want THEN 0 ELSE Lesser(want - before, left[i])
Shared(R, S, left, want, takes) == \A i \in S : takes[i] = Share(R, S, left, want, i)
Nats(f, S) == \A i \in S : f[i] \in Nat

\* A finite set in order has a last element.
LEMMA LastInOrder ==
    ASSUME NEW S, IsFiniteSet(S), S # {}, NEW R, Orders(R, S)
    PROVE  \E m \in S : \A i \in S : i = m \/ <<i, m>> \in R
  <1> DEFINE Tops(T, m) == \A i \in T : i = m \/ <<i, m>> \in R
             Good == {T \in SUBSET S : T = {} \/ \E m \in T : Tops(T, m)}
  <1>1. {} \in Good
    OBVIOUS
  <1>2. ASSUME NEW T \in SUBSET S, T # {}, \A x \in T : T \ {x} \in Good
        PROVE  T \in Good
    <2>1. PICK x \in T : TRUE
      BY <1>2
    <2>2. CASE T \ {x} = {}
      <3>1. Tops(T, x)
        BY <2>1, <2>2
      <3> QED BY <2>1, <3>1
    <2>3. CASE T \ {x} # {}
      <3>1. PICK m \in T \ {x} : Tops(T \ {x}, m)
        BY <1>2, <2>1, <2>3
      <3>2. CASE <<x, m>> \in R
        <4>1. Tops(T, m)
          BY <3>1, <3>2
        <4> QED BY <3>1, <4>1
      <3>3. CASE <<m, x>> \in R
        <4>1. \A i \in T : i = x \/ <<i, x>> \in R
          BY <2>1, <3>1, <3>3 DEF Orders
        <4> QED BY <2>1, <4>1
      <3> QED BY <2>1, <3>1, <3>2, <3>3 DEF Orders
    <2> QED BY <2>2, <2>3
  <1>3. S \in Good
    <2> HIDE DEF Good
    <2> QED BY <1>1, <1>2, RemovalInduction
  <1> QED BY <1>3

\* The greatest of some numbers is one of them.
LEMMA GreatestThere ==
    ASSUME NEW S \in SUBSET Nat, IsFiniteSet(S), S # {}
    PROVE  Max(S) \in S
  <1> DEFINE R == {ij \in S \X S : ij[1] < ij[2]}
  <1>1. \A i, j \in S : <<i, j>> \in R <=> i < j
    OBVIOUS
  <1> HIDE DEF R
  <1>2. Orders(R, S)
    BY <1>1 DEF Orders
  <1>3. PICK m \in S : \A i \in S : i = m \/ <<i, m>> \in R
    BY <1>2, LastInOrder
  <1>4. \A i \in S : m >= i
    <2> TAKE i \in S
    <2>1. i \in Nat /\ m \in Nat /\ (i = m \/ i < m)
      BY <1>1, <1>3
    <2> QED BY <2>1
  <1> QED BY <1>4 DEF Max

\* Served in order from one amount, each as much as it may have of what those before
\* left, a set takes the amount, or everything there is to take.
LEMMA Served ==
    ASSUME NEW S, IsFiniteSet(S), NEW R, Orders(R, S),
           NEW left, Nats(left, S), NEW want \in Nat,
           NEW takes, Shared(R, S, left, want, takes)
    PROVE  /\ \A i \in S : takes[i] \in Nat /\ takes[i] <= left[i]
           /\ SumOf(takes, S) = Lesser(want, SumOf(left, S))
  <1> DEFINE Closed(T) == \A i \in T, j \in S : <<j, i>> \in R => j \in T
             Good == {T \in SUBSET S : Closed(T) => SumOf(takes, T) = Lesser(want, SumOf(left, T))}
  <1>1. ASSUME NEW T \in SUBSET S
        PROVE  IsFiniteSet(T) /\ Ints(left, T) /\ SumOf(left, T) \in Nat
    <2>1. IsFiniteSet(T) /\ \A i \in T : left[i] \in Nat
      BY FS_Subset DEF Nats
    <2> QED BY <2>1, SumNat DEF Ints
  <1>2. ASSUME NEW i \in S PROVE takes[i] \in Nat /\ takes[i] <= left[i]
    <2> DEFINE before == SumOf(left, Ahead(R, S, i))
    <2>1. before \in Nat
      <3>1. Ahead(R, S, i) \in SUBSET S
        BY DEF Ahead
      <3> QED BY <1>1, <3>1
    <2>2. takes[i] = IF before >= want THEN 0 ELSE Lesser(want - before, left[i])
      BY DEF Shared, Share
    <2>3. left[i] \in Nat
      BY DEF Nats
    <2> HIDE DEF before
    <2> QED BY <2>1, <2>2, <2>3 DEF Lesser
  <1>3. {} \in Good
    BY SumEmpty DEF Lesser
  <1>4. ASSUME NEW T \in SUBSET S, T # {}, \A x \in T : T \ {x} \in Good, Closed(T)
        PROVE  SumOf(takes, T) = Lesser(want, SumOf(left, T))
    <2>1. PICK m \in T : \A i \in T : i = m \/ <<i, m>> \in R
      <3>1. Orders(R, T)
        BY DEF Orders
      <3> QED BY <1>1, <1>4, <3>1, LastInOrder
    <2> DEFINE U == T \ {m}
    <2>2. Closed(U)
      BY <1>4, <2>1 DEF Orders
    <2>3. Ahead(R, S, m) = U
      <3>1. <<m, m>> \notin R
        BY DEF Orders
      <3> QED BY <1>4, <2>1, <3>1 DEF Ahead
    <2>4. SumOf(takes, U) = Lesser(want, SumOf(left, U))
      BY <1>4, <2>1, <2>2
    <2>5. SumOf(left, T) = left[m] + SumOf(left, U) /\ SumOf(takes, T) = takes[m] + SumOf(takes, U)
      <3>1. Ints(takes, T)
        BY <1>2 DEF Ints
      <3> QED BY <1>1, <3>1, SumRemove
    <2>6. takes[m] = IF SumOf(left, U) >= want THEN 0 ELSE Lesser(want - SumOf(left, U), left[m])
      BY <2>3 DEF Shared, Share
    <2>7. SumOf(left, U) \in Nat /\ left[m] \in Nat
      BY <1>1 DEF Nats
    <2> HIDE DEF U
    <2> QED BY <2>4, <2>5, <2>6, <2>7 DEF Lesser
  <1>5. S \in Good
    <2>1. \A T \in SUBSET S : T # {} /\ (\A x \in T : T \ {x} \in Good) => T \in Good
      BY <1>4
    <2> HIDE DEF Good
    <2> QED BY <1>3, <2>1, RemovalInduction
  <1> QED BY <1>2, <1>5
-----------------------------------------------------------------------------
(* Counting up, and sequences: had by appending, and joined.               *)

\* Counting up from nothing reaches every number there is on the way.
LEMMA CountingUp ==
    ASSUME NEW n \in Nat, NEW Good, 0 \in Good,
           \A k \in 0..n : k # n /\ k \in Good => k + 1 \in Good
    PROVE  \A k \in 0..n : k \in Good
  <1> DEFINE Bad == {k \in 0..n : k \notin Good}
             R == {ij \in Bad \X Bad : ij[1] > ij[2]}
  <1> SUFFICES ASSUME Bad # {} PROVE FALSE
    OBVIOUS
  <1>1. IsFiniteSet(Bad)
    <2>1. IsFiniteSet(0..n)
      BY FS_Interval
    <2> QED BY <2>1, FS_Subset
  <1>2. \A i, j \in Bad : <<i, j>> \in R <=> i > j
    OBVIOUS
  <1>3. Bad \in SUBSET Nat
    OBVIOUS
  <1>4. PICK m \in Bad : \A i \in Bad : i = m \/ i > m
    <2> HIDE DEF R, Bad
    <2>1. Orders(R, Bad)
      BY <1>2, <1>3 DEF Orders
    <2> QED BY <1>1, <1>2, <2>1, LastInOrder
  <1>5. m \in Nat \ {0} /\ m <= n /\ m \notin Good
    BY <1>4
  <1>6. m - 1 \in 0..n /\ m - 1 # n /\ ~(m - 1 > m) /\ m - 1 # m
    BY <1>5
  <1>7. m - 1 \in Good
    BY <1>4, <1>6
  <1>8. (m - 1) + 1 = m
    BY <1>5
  <1> QED BY <1>5, <1>6, <1>7, <1>8

\* Every sequence is had by appending to the empty one.
LEMMA ByAppending ==
    ASSUME NEW S, NEW Good, <<>> \in Good,
           \A s \in Seq(S), x \in S : s \in Good => Append(s, x) \in Good
    PROVE  Seq(S) \subseteq Good
  <1> SUFFICES ASSUME NEW s \in Seq(S) PROVE s \in Good
    OBVIOUS
  <1> DEFINE n == Len(s)
             G == {k \in 0..n : SubSeq(s, 1, k) \in Good}
  <1>1. n \in Nat /\ 0 \in 0..n /\ n \in 0..n
    OBVIOUS
  <1>2. SubSeq(s, 1, 0) = <<>> /\ SubSeq(s, 1, n) = s
    OBVIOUS
  <1>3. ASSUME NEW k \in 0..n, k # n, k \in G PROVE k + 1 \in G
    <2>1. k + 1 \in 1..n /\ s[k + 1] \in S /\ SubSeq(s, 1, k) \in Seq(S)
      BY <1>3
    <2>2. SubSeq(s, 1, k + 1) = Append(SubSeq(s, 1, k), s[k + 1])
      BY <1>3, <2>1
    <2>3. Append(SubSeq(s, 1, k), s[k + 1]) \in Good
      BY <1>3, <2>1
    <2>4. k + 1 \in 0..n
      BY <2>1
    <2> HIDE DEF n
    <2> QED BY <2>2, <2>3, <2>4
  <1>4. 0 \in G
    BY <1>1, <1>2
  <1>5. n \in G
    <2> HIDE DEF G, n
    <2> QED BY <1>1, <1>3, <1>4, CountingUp
  <1> QED BY <1>2, <1>5

\* What is defined by recursion on the numbers from one up, there is.
Stepped(n, V, base, step, g) ==
    /\ g \in [1..n -> V]
    /\ \A k \in 1..n : g[k] = IF k = 1 THEN base ELSE step[<<k, g[k - 1]>>]

\* There is such a function, for every step that keeps the values.
LEMMA StepsExist ==
    ASSUME NEW n \in Nat, NEW V, NEW base \in V, NEW step,
           \A k \in 1..n, v \in V : step[<<k, v>>] \in V
    PROVE  \E g : Stepped(n, V, base, step, g)
  <1> USE DEF Stepped
  <1> DEFINE Is(m, g) == Stepped(m, V, base, step, g)
             Good == {m \in 0..n : \E g : Is(m, g)}
  <1>1. 0 \in Good
    <2>1. Is(0, [k \in 1..0 |-> base])
      OBVIOUS
    <2>2. 0 \in 0..n
      OBVIOUS
    <2> HIDE DEF Is
    <2> QED BY <2>1, <2>2
  <1>2. ASSUME NEW m \in 0..n, m # n, m \in Good PROVE m + 1 \in Good
    <2>1. PICK g : Is(m, g)
      BY <1>2
    <2> DEFINE top == IF m = 0 THEN base ELSE step[<<m + 1, g[m]>>]
               h == [k \in 1..(m + 1) |-> IF k = m + 1 THEN top ELSE g[k]]
    <2>2. top \in V /\ m + 1 \in 1..n
      <3>1. m # 0 => g[m] \in V
        BY <2>1
      <3>2. m + 1 \in 1..n
        BY <1>2
      <3> QED BY <3>1, <3>2
    <2>3. h \in [1..(m + 1) -> V]
      <3> HIDE DEF top
      <3> QED BY <2>1, <2>2
    <2>4. ASSUME NEW k \in 1..(m + 1)
          PROVE  h[k] = IF k = 1 THEN base ELSE step[<<k, h[k - 1]>>]
      <3>1. CASE k = m + 1
        <4>1. h[k] = top
          BY <3>1
        <4>2. k # 1 => h[k - 1] = g[m] /\ m # 0
          BY <3>1
        <4>3. k = 1 <=> m = 0
          BY <3>1
        <4> HIDE DEF h
        <4> QED BY <3>1, <4>1, <4>2, <4>3
      <3>2. CASE k # m + 1
        <4>1. k \in 1..m /\ h[k] = g[k] /\ (k # 1 => h[k - 1] = g[k - 1])
          BY <3>2
        <4> HIDE DEF h
        <4> QED BY <2>1, <4>1
      <3> QED BY <3>1, <3>2
    <2>5. Is(m + 1, h)
      <3> HIDE DEF h
      <3> QED BY <2>3, <2>4
    <2> HIDE DEF h, Is
    <2> QED BY <2>2, <2>5
  <1>3. n \in Good
    <2>1. n \in 0..n
      OBVIOUS
    <2> HIDE DEF Good
    <2> QED BY <1>1, <1>2, <2>1, CountingUp
  <1> QED BY <1>3

\* A sequence of sequences joined: through its prefixes, one joined to the next.
Joins(ss, S, g) ==
    /\ g \in [1..Len(ss) -> Seq(S)]
    /\ \A k \in 1..Len(ss) : g[k] = IF k = 1 THEN ss[1] ELSE g[k - 1] \o ss[k]
    /\ FlattenSeq(ss) = g[Len(ss)]

\* So is every sequence of sequences that has one.
LEMMA Flattened ==
    ASSUME NEW S, NEW ss \in Seq(Seq(S)), ss # <<>>
    PROVE  Len(ss) \in Nat \ {0} /\ \E g : Joins(ss, S, g)
  <1> DEFINE n == Len(ss)
             V == Seq(S)
             step == [kv \in (1..n) \X V |-> kv[2] \o ss[kv[1]]]
             Eq(g) == g = [i \in 1..n |-> IF i = 1 THEN ss[i] ELSE g[i - 1] \o ss[i]]
             iter == CHOOSE g : Eq(g)
  <1>1. n \in Nat \ {0} /\ \A k \in 1..n : ss[k] \in V
    OBVIOUS
  <1>2. FlattenSeq(ss) = iter[n]
    BY <1>1 DEF FlattenSeq
  <1>3. ASSUME NEW k \in 1..n, NEW v \in V
        PROVE  step[<<k, v>>] = v \o ss[k] /\ v \o ss[k] \in V
    <2>1. v \o ss[k] \in V
      <3>1. ss[k] \in Seq(S) /\ v \in Seq(S)
        BY <1>1
      <3> QED BY <3>1, ConcatProperties
    <2>2. step[<<k, v>>] = v \o ss[k]
      <3> HIDE DEF V, n
      <3> QED OBVIOUS
    <2> QED BY <2>1, <2>2
  <1> HIDE DEF V, n, step
  <1>4. PICK g : Stepped(n, V, ss[1], step, g)
    <2>1. ss[1] \in V /\ n \in Nat
      <3>1. 1 \in 1..n
        BY <1>1
      <3> QED BY <1>1, <3>1
    <2>2. \A k \in 1..n, v \in V : step[<<k, v>>] \in V
      BY <1>3
    <2> QED BY <2>1, <2>2, StepsExist
  <1>5. ASSUME NEW k \in 1..n PROVE g[k] = IF k = 1 THEN ss[1] ELSE g[k - 1] \o ss[k]
    <2>1. k # 1 => g[k - 1] \in V
      BY <1>1, <1>4 DEF Stepped
    <2> QED BY <1>3, <1>4, <2>1 DEF Stepped
  <1>6. Eq(g)
    <2> DEFINE body(i) == IF i = 1 THEN ss[i] ELSE g[i - 1] \o ss[i]
    <2>1. \A i \in 1..n : g[i] = body(i)
      BY <1>5
    <2>2. g = [i \in 1..n |-> g[i]]
      BY <1>4 DEF Stepped
    <2> HIDE DEF body
    <2>3. g = [i \in 1..n |-> body(i)]
      BY <2>1, <2>2
    <2> QED BY <2>3 DEF body
  <1>7. Eq(iter)
    <2> HIDE DEF Eq
    <2> QED BY <1>6
  <1>8. \A i \in 1..n : iter[i] = IF i = 1 THEN ss[i] ELSE iter[i - 1] \o ss[i]
    <2> HIDE DEF iter
    <2> QED BY <1>7
  <1>9. iter[n] = g[n]
    <2> DEFINE Good == {k \in 0..n : k = 0 \/ iter[k] = g[k]}
    <2> HIDE DEF iter
    <2>1. 0 \in Good
      BY <1>1
    <2>2. ASSUME NEW k \in 0..n, k # n, k \in Good PROVE k + 1 \in Good
      <3>1. k + 1 \in 1..n /\ (k + 1) - 1 = k /\ (k + 1 = 1 <=> k = 0)
        BY <1>1, <2>2
      <3>2. iter[k + 1] = g[k + 1]
        <4>1. iter[k + 1] = IF k = 0 THEN ss[1] ELSE iter[k] \o ss[k + 1]
          BY <1>8, <3>1
        <4>2. g[k + 1] = IF k = 0 THEN ss[1] ELSE g[k] \o ss[k + 1]
          BY <1>5, <3>1
        <4> QED BY <2>2, <4>1, <4>2
      <3> QED BY <3>1, <3>2
    <2>3. n \in Good
      <3>1. n \in Nat /\ n \in 0..n
        BY <1>1
      <3> HIDE DEF Good
      <3> QED BY <2>1, <2>2, <3>1, CountingUp
    <2> QED BY <1>1, <2>3
  <1>10. Joins(ss, S, g)
    <2> HIDE DEF iter
    <2> QED BY <1>2, <1>4, <1>5, <1>9 DEF Stepped, Joins, n, V
  <1> QED BY <1>1, <1>10 DEF n
=============================================================================
