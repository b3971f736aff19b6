------------------------------ MODULE MoneyProofs ------------------------------
(***************************************************************************)
(* What clients are charged and what people are paid: what Retainers keeps *)
(* for any entries, agreements and periods, of any work, deals and         *)
(* charges; and what Payroll keeps for any people, work, vehicles and      *)
(* figures, and any number of payments and removals under way.  The two    *)
(* share no state.                                                         *)
(***************************************************************************)
EXTENDS Retainers, Payroll, Sums, SequenceTheorems

USE IdsAssumption, WorksAssumption, DealsAssumption, ChargesAssumption

-----------------------------------------------------------------------------
(* What there is, and what it says.                                        *)

\* An entry there says what an entry may say.
LEMMA WorkFits ==
    ASSUME TypeOK, NEW i \in There
    PROVE  /\ i \in Ids /\ i \in Nat /\ Work(i) \in Works
           /\ Work(i).day \in Int /\ Work(i).seconds \in Nat /\ Work(i).heads \in Nat
           /\ Work(i).billable \in BOOLEAN
  <1>1. entries[i] \in SUBSET Works /\ entries[i] # {} /\ i \in Ids
    BY DEF TypeOK, There
  <1>2. Work(i) \in Works
    BY <1>1 DEF Work
  <1> QED BY <1>1, <1>2

\* An agreement there says what one may say.
LEMMA DealFits ==
    ASSUME TypeOK, NEW a \in Agreements, agreements[a] # {}
    PROVE  /\ Deal(a) \in Deals /\ AtMostOne(Deal(a).site) /\ Deal(a).starts \in Int
           /\ \A s \in DOMAIN Deal(a).covers : \A t \in Deal(a).covers[s] :
                  t.pool \subseteq Nat /\ AtMostOne(t.pool)
  <1>1. agreements[a] \in SUBSET Deals
    BY DEF TypeOK
  <1>2. Deal(a) \in Deals
    BY <1>1 DEF Deal
  <1> QED BY <1>2

\* The entries there are finitely many.
LEMMA ThereFinite == IsFiniteSet(There) /\ There \subseteq Ids
  BY FS_Subset DEF There

\* Every row is an agreement there, and every agreement there has a row.
LEMMA RowsThere ==
    ASSUME TypeOK
    PROVE  /\ DOMAIN rows = 1..Len(rows) /\ Len(rows) \in Nat
           /\ \A k \in DOMAIN rows : rows[k] \in Agreements /\ agreements[rows[k]] # {}
           /\ \A a \in Agreements : agreements[a] # {} => \E k \in DOMAIN rows : rows[k] = a
  <1>1. rows \in Seq(Agreements) /\ ToSet(rows) = {a \in Agreements : agreements[a] # {}}
    BY DEF TypeOK
  <1>2. \A k \in DOMAIN rows : rows[k] \in ToSet(rows)
    BY DEF ToSet
  <1>3. \A a \in ToSet(rows) : \E k \in DOMAIN rows : rows[k] = a
    BY DEF ToSet
  <1> QED BY <1>1, <1>2, <1>3
-----------------------------------------------------------------------------
(* The agreement an entry falls under.                                     *)

\* The rows are finitely many, and so are those gone through.
LEMMA RowsFinite ==
    ASSUME TypeOK
    PROVE  /\ DOMAIN rows \in SUBSET Nat /\ IsFiniteSet(DOMAIN rows)
           /\ \A s \in SUBSET DOMAIN rows : s \in SUBSET Nat /\ IsFiniteSet(s)
  <1>1. IsFiniteSet(1..Len(rows)) /\ 1..Len(rows) \in SUBSET Nat
    <2>1. Len(rows) \in Int
      BY RowsThere
    <2>2. IsFiniteSet(1..Len(rows))
      BY <2>1, FS_Interval
    <2> QED BY <2>1, <2>2
  <1>2. IsFiniteSet(DOMAIN rows) /\ DOMAIN rows \in SUBSET Nat
    BY <1>1, RowsThere, Zenon
  <1> QED BY <1>2, FS_Subset

\* One pass through the rows, as the function of the rows gone through that it
\* comes to.
Passed(i, g) ==
    /\ g[{}] = {} /\ AgreementFor(i) = g[DOMAIN rows]
    /\ \A s \in SUBSET DOMAIN rows : s # {} => \E k \in s :
          g[s] = IF Reaches(rows[k], i) /\ \A b \in g[s \ {k}] : Closer(rows[k], b)
                 THEN {rows[k]} ELSE g[s \ {k}]

\* The pass agreementFor makes through the rows comes to such a function.
LEMMA PassThrough ==
    ASSUME TypeOK, NEW i
    PROVE  \E g : Passed(i, g)
  <1> DEFINE S == DOMAIN rows
             V == SUBSET Agreements
             Then(k, best) == IF Reaches(rows[k], i) /\ \A b \in best : Closer(rows[k], b)
                              THEN {rows[k]} ELSE best
             step == [kb \in S \X V |-> Then(kb[1], kb[2])]
             pick == [s \in SUBSET S |-> Max(s)]
             Eq(g) == g = [s \in SUBSET S |-> IF s = {} THEN {}
                               ELSE LET x == Max(s)
                                    IN  IF Reaches(rows[x], i) /\ \A b \in g[s \ {x}] : Closer(rows[x], b)
                                        THEN {rows[x]} ELSE g[s \ {x}]]
             iter == CHOOSE g : Eq(g)
  <1>1. AgreementFor(i) = iter[S]
    BY DEF AgreementFor, FoldLeft, MapThenFoldSet
  <1>2. /\ S \in SUBSET Nat /\ IsFiniteSet(S)
        /\ \A s \in SUBSET S : s \in SUBSET Nat /\ IsFiniteSet(s)
        /\ \A k \in S : rows[k] \in Agreements
    BY RowsFinite, RowsThere
  <1>3. \A k \in S, best \in V : Then(k, best) \in V
    BY <1>2
  <1>4. \A s \in SUBSET S : s # {} => Max(s) \in s
    BY <1>2, GreatestThere
  <1> HIDE DEF S, Then
  <1>5. PICK g : Folded(S, V, {}, step, pick, g)
    <2>1. {} \in V
      OBVIOUS
    <2>2. \A k \in S, best \in V : step[<<k, best>>] \in V
      BY <1>3
    <2>3. \A s \in SUBSET S : s # {} => pick[s] \in s
      BY <1>4
    <2> HIDE DEF V, step, pick
    <2> QED BY <1>2, <2>1, <2>2, <2>3, FoldExists
  <1>6. g \in [SUBSET S -> V] /\ g[{}] = {}
    <2> HIDE DEF step, pick, V
    <2> QED BY <1>5 DEF Folded
  <1>7. ASSUME NEW s \in SUBSET S, s # {}
        PROVE  Max(s) \in s /\ g[s] = Then(Max(s), g[s \ {Max(s)}])
    <2>1. pick[s] = Max(s) /\ Max(s) \in s /\ s \ {Max(s)} \in SUBSET S
      BY <1>4, <1>7
    <2>2. g[s] = step[<<pick[s], g[s \ {pick[s]}]>>]
      <3> HIDE DEF step, pick, V
      <3> QED BY <1>5, <1>7 DEF Folded
    <2>3. g[s \ {Max(s)}] \in V
      BY <1>6, <2>1
    <2> HIDE DEF pick, V
    <2> QED BY <2>1, <2>2, <2>3
  <1>8. \A h : Eq(h) <=> h = [s \in SUBSET S |-> IF s = {} THEN {} ELSE Then(Max(s), h[s \ {Max(s)}])]
    BY DEF Then
  <1> HIDE DEF Eq
  <1>9. Eq(g)
    <2> DEFINE body(s) == IF s = {} THEN {} ELSE Then(Max(s), g[s \ {Max(s)}])
    <2>1. \A s \in SUBSET S : g[s] = body(s)
      BY <1>6, <1>7
    <2>2. g = [s \in SUBSET S |-> g[s]]
      BY <1>6
    <2> HIDE DEF body
    <2>3. g = [s \in SUBSET S |-> body(s)]
      BY <2>1, <2>2
    <2>4. g = [s \in SUBSET S |-> IF s = {} THEN {} ELSE Then(Max(s), g[s \ {Max(s)}])]
      BY <2>3 DEF body
    <2> QED BY <1>8, <2>4
  <1>10. Eq(iter)
    BY <1>9
  <1>11. \A s \in SUBSET S : iter[s] = IF s = {} THEN {} ELSE Then(Max(s), iter[s \ {Max(s)}])
    <2>1. iter = [s \in SUBSET S |-> IF s = {} THEN {} ELSE Then(Max(s), iter[s \ {Max(s)}])]
      BY <1>8, <1>10
    <2> HIDE DEF iter
    <2> QED BY <2>1
  <1>12. iter[S] = g[S]
    <2> DEFINE Good == {s \in SUBSET S : iter[s] = g[s]}
    <2> HIDE DEF iter
    <2>1. {} \in Good
      BY <1>6, <1>11
    <2>2. ASSUME NEW s \in SUBSET S, s # {}, \A x \in s : s \ {x} \in Good
          PROVE  s \in Good
      <3>1. Max(s) \in s /\ g[s] = Then(Max(s), g[s \ {Max(s)}])
        BY <1>7, <2>2
      <3>2. iter[s] = Then(Max(s), iter[s \ {Max(s)}])
        BY <1>11, <2>2
      <3>3. iter[s \ {Max(s)}] = g[s \ {Max(s)}]
        BY <2>2, <3>1
      <3> QED BY <3>1, <3>2, <3>3
    <2> HIDE DEF Good
    <2>3. S \in Good
      BY <1>2, <2>1, <2>2, RemovalInduction
    <2> QED BY <2>3 DEF Good
  <1>13. \A s \in SUBSET S : s # {} => \E k \in s : g[s] = Then(k, g[s \ {k}])
    BY <1>7
  <1> HIDE DEF iter
  <1>14. g[{}] = {} /\ AgreementFor(i) = g[S]
    BY <1>1, <1>6, <1>12
  <1>15. Passed(i, g)
    BY <1>13, <1>14 DEF S, Then, Passed
  <1> QED BY <1>15

\* Closer than one that is closer than a third is closer than the third.
LEMMA CloserIsTransitive ==
    ASSUME TypeOK, NEW a \in Agreements, NEW b \in Agreements, NEW c \in Agreements,
           agreements[a] # {}, agreements[b] # {}, agreements[c] # {},
           Closer(a, b), Closer(b, c)
    PROVE  Closer(a, c)
  BY DealFits DEF Closer

\* No agreement is closer than itself.
LEMMA NoneIsCloserThanItself ==
    ASSUME TypeOK, NEW a \in Agreements, agreements[a] # {}
    PROVE  ~Closer(a, a)
  BY DealFits DEF Closer

\* One agreement at most, that reaches the entry; and none of those that do is
\* closer.
LEMMA ClosestFound ==
    ASSUME TypeOK, NEW i
    PROVE  /\ AgreementFor(i) \in SUBSET Agreements /\ AtMostOne(AgreementFor(i))
           /\ \A a \in AgreementFor(i) : agreements[a] # {} /\ Reaches(a, i)
           /\ \A k \in DOMAIN rows : \A a \in AgreementFor(i) :
                  Reaches(rows[k], i) => ~Closer(rows[k], a)
  <1>0. PICK g : Passed(i, g)
    BY PassThrough
  <1> DEFINE S == DOMAIN rows
             Fits(s, best) ==
                 /\ best \in SUBSET Agreements /\ AtMostOne(best)
                 /\ \A a \in best : agreements[a] # {} /\ Reaches(a, i)
                 /\ \A k \in s : Reaches(rows[k], i) => best # {} /\ \A a \in best : ~Closer(rows[k], a)
  <1>1. /\ g[{}] = {} /\ AgreementFor(i) = g[S]
        /\ \A s \in SUBSET S : s # {} => \E k \in s :
              g[s] = IF Reaches(rows[k], i) /\ \A b \in g[s \ {k}] : Closer(rows[k], b)
                     THEN {rows[k]} ELSE g[s \ {k}]
    BY <1>0 DEF Passed
  <1>2. \A k \in S : rows[k] \in Agreements /\ agreements[rows[k]] # {}
    BY RowsThere
  <1>a. IsFiniteSet(S)
    <2>1. S = 1..Len(rows) /\ Len(rows) \in Nat
      BY RowsThere
    <2> HIDE DEF S
    <2>2. IsFiniteSet(1..Len(rows))
      BY <2>1, FS_Interval
    <2> QED BY <2>1, <2>2
  <1> HIDE DEF S
  <1> DEFINE Good == {s \in SUBSET S : Fits(s, g[s])}
  <1>3. {} \in Good
    BY <1>1 DEF AtMostOne
  <1>4. ASSUME NEW s \in SUBSET S, s # {}, \A k \in s : s \ {k} \in Good
        PROVE  s \in Good
    <2>1. PICK k \in s :
            g[s] = IF Reaches(rows[k], i) /\ \A b \in g[s \ {k}] : Closer(rows[k], b)
                   THEN {rows[k]} ELSE g[s \ {k}]
      BY <1>1, <1>4
    <2> DEFINE best == g[s \ {k}]
               new == rows[k]
    <2>2. Fits(s \ {k}, best)
      BY <1>4
    <2>3. new \in Agreements /\ agreements[new] # {} /\ k \in S
      BY <1>2
    <2>4. \A j \in s : rows[j] \in Agreements /\ agreements[rows[j]] # {}
      BY <1>2
    <2>5. CASE Reaches(new, i) /\ \A b \in best : Closer(new, b)
      <3>1. g[s] = {new}
        BY <2>1, <2>5
      <3>2. ASSUME NEW j \in s, Reaches(rows[j], i) PROVE ~Closer(rows[j], new)
        <4>1. CASE j = k
          BY <2>3, <4>1, NoneIsCloserThanItself
        <4>2. CASE j # k
          <5>1. PICK b \in best : ~Closer(rows[j], b)
            BY <2>2, <3>2, <4>2
          <5>2. b \in Agreements /\ agreements[b] # {} /\ Closer(new, b)
            BY <2>2, <2>5
          <5> HIDE DEF best, new
          <5> QED BY <2>3, <2>4, <5>1, <5>2, CloserIsTransitive
        <4> QED BY <4>1, <4>2
      <3>3. Fits(s, {new})
        BY <2>3, <2>5, <3>2 DEF AtMostOne
      <3> HIDE DEF Fits, new
      <3> QED BY <3>1, <3>3
    <2>6. CASE ~(Reaches(new, i) /\ \A b \in best : Closer(new, b))
      <3>1. g[s] = best
        BY <2>1, <2>6
      <3>2. ASSUME NEW j \in s, Reaches(rows[j], i)
            PROVE  best # {} /\ \A a \in best : ~Closer(rows[j], a)
        <4>1. CASE j = k
          BY <2>2, <2>6, <3>2, <4>1 DEF AtMostOne
        <4>2. CASE j # k
          BY <2>2, <3>2, <4>2
        <4> QED BY <4>1, <4>2
      <3>3. Fits(s, best)
        BY <2>2, <3>2
      <3> HIDE DEF Fits, best
      <3> QED BY <3>1, <3>3
    <2> QED BY <2>5, <2>6
  <1>5. S \in Good
    <2>1. \A s \in SUBSET S : s # {} /\ (\A k \in s : s \ {k} \in Good) => s \in Good
      BY <1>4
    <2> HIDE DEF Good
    <2> QED BY <1>a, <1>3, <2>1, RemovalInduction
  <1>6. Fits(S, AgreementFor(i))
    BY <1>1, <1>5
  <1> QED BY <1>6 DEF S
-----------------------------------------------------------------------------
(* What an entry is covered for.                                           *)

\* An entry falls under one agreement at most, and its periods are that one's.
LEMMA HitFits ==
    ASSUME TypeOK, NEW i
    PROVE  /\ Hit(i) \in SUBSET Agreements /\ AtMostOne(Hit(i))
           /\ \A a \in Hit(i) : agreements[a] # {} /\ Reaches(a, i)
           /\ \A x \in PeriodFor(i) : /\ x[1] \in Hit(i) /\ x[1] \in Agreements
                                      /\ x[2] \in Charges /\ x[2] \in periods[x[1]]
                                      /\ Within(Work(i).day, x[2])
           /\ Hit(i) # {} => Work(i).billable
  <1>1. /\ Hit(i) \in SUBSET Agreements /\ AtMostOne(Hit(i))
        /\ \A a \in Hit(i) : agreements[a] # {} /\ Reaches(a, i)
        /\ Hit(i) # {} => Work(i).billable
    BY ClosestFound DEF Hit, AtMostOne
  <1> QED BY <1>1 DEF PeriodFor

\* An entry that has a pool has one size of it.
LEMMA PoolFits ==
    ASSUME TypeOK, NEW i \in There, Hit(i) # {}
    PROVE  Allotment(i).pool \subseteq Nat /\ AtMostOne(Allotment(i).pool)
  <1>1. PICK a \in Hit(i) : a \in Agreements /\ agreements[a] # {} /\ Reaches(a, i)
    BY HitFits
  <1> DEFINE allotments == UNION {Deal(b).covers[Work(i).service] : b \in Hit(i)}
  <1>2. allotments # {}
    BY <1>1 DEF Reaches
  <1>3. Allotment(i) \in allotments
    BY <1>2 DEF Allotment
  <1>4. PICK b \in Hit(i) : Allotment(i) \in Deal(b).covers[Work(i).service]
    BY <1>3
  <1>5. b \in Agreements /\ agreements[b] # {}
    BY HitFits
  <1>6. Work(i).service \in DOMAIN Deal(b).covers
    BY <1>5, WorkFits, DealFits
  <1> QED BY <1>4, <1>5, <1>6, DealFits

\* Two entries of one period, and one service, have one allotment.
LEMMA OnePool ==
    ASSUME TypeOK, NEW i, NEW j, PeriodFor(i) # {}, PeriodFor(j) = PeriodFor(i)
    PROVE  /\ Hit(j) = Hit(i)
           /\ Work(j).service = Work(i).service => Allotment(j) = Allotment(i)
  <1>1. PICK x \in PeriodFor(i) : x[1] \in Hit(i) /\ x[1] \in Hit(j)
    BY HitFits
  <1>2. Hit(j) = Hit(i)
    <2>1. AtMostOne(Hit(i)) /\ AtMostOne(Hit(j))
      BY HitFits
    <2>2. Hit(i) = {x[1]} /\ Hit(j) = {x[1]}
      BY <1>1, <2>1 DEF AtMostOne
    <2> QED BY <2>2
  <1> QED BY <1>2 DEF Allotment

\* What a pool has left for an entry is a number of seconds.
LEMMA LeftFits ==
    ASSUME TypeOK, NEW i \in There, NEW size \in Nat, NEW drawn \in Nat
    PROVE  Left(i, size, drawn) \in Nat
  BY WorkFits DEF Left

\* The seconds of entries there add up.
LEMMA SecondsFit ==
    ASSUME TypeOK, NEW S \in SUBSET There
    PROVE  Seconds(S) \in Nat
  <1> DEFINE f == [i \in S |-> Work(i).seconds]
  <1>1. IsFiniteSet(S)
    BY ThereFinite, FS_Subset
  <1>2. \A i \in S : f[i] \in Nat
    BY WorkFits
  <1> HIDE DEF f
  <1>3. SumOf(f, S) \in Nat
    BY <1>1, <1>2, SumNat
  <1> QED BY <1>3 DEF f, SumOf, Seconds

DrawnBefore(i, read) == Seconds({j \in Drawn(i, read) : Before(j, i)})

\* Where an entry's coverage is known it is one number of seconds.
LEMMA CoveredFits ==
    ASSUME TypeOK, NEW i \in There, NEW read \in SUBSET There
    PROVE  /\ Covered(i, read) \in SUBSET Nat /\ AtMostOne(Covered(i, read))
           /\ Hit(i) = {} => Covered(i, read) = {0}
           /\ Hit(i) # {} /\ ~Capped(i) => Covered(i, read) = {Work(i).seconds}
           /\ PeriodFor(i) # {} => Covered(i, read) # {}
           /\ Capped(i) /\ PeriodFor(i) # {} =>
                /\ Allotment(i).pool # {}
                /\ \A size \in Allotment(i).pool :
                    size \in Nat /\ Covered(i, read) = {Left(i, size, DrawnBefore(i, read))}
           /\ Capped(i) /\ PeriodFor(i) = {} => Covered(i, read) = {}
  <1> DEFINE before == DrawnBefore(i, read)
             sizes == IF PeriodFor(i) = {} THEN {} ELSE Allotment(i).pool
  <1>1. before \in Nat
    BY SecondsFit DEF DrawnBefore, Drawn
  <1>2. Covered(i, read) = IF Hit(i) = {} THEN {0} ELSE IF ~Capped(i) THEN {Work(i).seconds}
                           ELSE {Left(i, size, before) : size \in sizes}
    BY DEF Covered, DrawnBefore
  <1> HIDE DEF before
  <1>3. CASE Hit(i) = {}
    <2>1. ~Capped(i) /\ PeriodFor(i) = {}
      BY <1>3, HitFits DEF Capped
    <2> QED BY <1>2, <1>3, <2>1 DEF AtMostOne
  <1>4. CASE Hit(i) # {} /\ ~Capped(i)
    BY <1>2, <1>4, WorkFits DEF AtMostOne
  <1>5. CASE Hit(i) # {} /\ Capped(i)
    <2>1. Allotment(i).pool \subseteq Nat /\ AtMostOne(Allotment(i).pool) /\ Allotment(i).pool # {}
      BY <1>5, PoolFits DEF Capped
    <2>2. \A size \in Nat : Left(i, size, before) \in Nat
      BY <1>1, LeftFits
    <2>3. Covered(i, read) = {Left(i, size, before) : size \in sizes}
      BY <1>2, <1>5
    <2>4. sizes \subseteq Nat /\ AtMostOne(sizes)
      BY <2>1 DEF AtMostOne
    <2>5. \A size \in sizes : Covered(i, read) = {Left(i, size, before)}
      BY <2>3, <2>4 DEF AtMostOne
    <2>6. PeriodFor(i) = {} => Covered(i, read) = {}
      BY <2>3
    <2>7. Covered(i, read) \in SUBSET Nat /\ AtMostOne(Covered(i, read))
      BY <2>2, <2>3, <2>4 DEF AtMostOne
    <2> QED BY <1>5, <2>1, <2>5, <2>6, <2>7 DEF before
  <1> QED BY <1>3, <1>4, <1>5 DEF Capped
-----------------------------------------------------------------------------
(* The peers of the entries asked about are all that matter to them.       *)

Read(asked) == asked \cup Peers(asked)

\* What is read is there; asked about everything, it is everything.
LEMMA ReadFits ==
    ASSUME NEW asked \in SUBSET There
    PROVE  Read(asked) \in SUBSET There /\ Read(There) = There
  BY DEF Read, Peers

\* Whatever shares a charged period with an entry asked about is read.
LEMMA SharersArePeers ==
    ASSUME TypeOK, NEW asked \in SUBSET There, NEW i \in asked, NEW j \in There,
           NEW x \in PeriodFor(i), x \in PeriodFor(j)
    PROVE  j \in Read(asked)
  <1>1. /\ x[1] \in Agreements /\ x[2] \in periods[x[1]] /\ Within(Work(i).day, x[2])
        /\ Within(Work(j).day, x[2]) /\ Hit(j) # {} /\ Work(j).billable
    BY HitFits
  <1> QED BY <1>1 DEF Read, Peers

\* An entry that shares a period with one asked about is covered for the same.
LEMMA SameCovered ==
    ASSUME TypeOK, NEW asked \in SUBSET There, NEW i \in asked, NEW j \in There,
           NEW x \in PeriodFor(i), x \in PeriodFor(j)
    PROVE  Covered(j, Read(asked)) = Covered(j, There)
  <1>1. \A k \in There : PeriodFor(k) = PeriodFor(j) => k \in Read(asked)
    BY SharersArePeers
  <1>2. Drawn(j, Read(asked)) = Drawn(j, There)
    BY <1>1, ReadFits DEF Drawn
  <1> QED BY <1>2 DEF Covered

\* So a charge is divided by the same seconds.
LEMMA SamePersonSeconds ==
    ASSUME TypeOK, NEW asked \in SUBSET There, NEW i \in asked, NEW x \in PeriodFor(i)
    PROVE  PersonSeconds({x}, Read(asked)) = PersonSeconds({x}, There)
  <1>1. Under({x}, Read(asked)) = Under({x}, There)
    <2>1. \A j \in There : PeriodFor(j) = {x} => j \in Read(asked)
      BY SharersArePeers
    <2> QED BY <2>1, ReadFits DEF Under
  <1>2. \A j \in Under({x}, There) : CoveredSeconds(j, Read(asked)) = CoveredSeconds(j, There)
    <2> TAKE j \in Under({x}, There)
    <2>1. j \in There /\ x \in PeriodFor(j)
      BY DEF Under
    <2>2. Covered(j, Read(asked)) = Covered(j, There)
      BY <2>1, SameCovered
    <2> QED BY <2>2 DEF CoveredSeconds
  <1> DEFINE S == Under({x}, There)
             f(read) == [j \in S |-> Work(j).heads * CoveredSeconds(j, read)]
  <1>3. f(Read(asked)) = f(There)
    BY <1>2
  <1>4. PersonSeconds({x}, Read(asked)) = SumFunctionOnSet(f(Read(asked)), S)
    BY <1>1 DEF PersonSeconds
  <1>5. PersonSeconds({x}, There) = SumFunctionOnSet(f(There), S)
    BY DEF PersonSeconds
  <1> QED BY <1>3, <1>4, <1>5

\* So cover and share are the same whoever asks.
LEMMA ThePeersAreEnough ==
    ASSUME TypeOK
    PROVE  PeersAreEnough
  <1>1. ASSUME NEW asked \in SUBSET There, NEW i \in asked
        PROVE  /\ Covered(i, Read(asked)) = Covered(i, There)
               /\ CoveredShare(i, Read(asked)) = CoveredShare(i, There)
    <2>1. Covered(i, Read(asked)) = Covered(i, There)
      <3>1. CASE PeriodFor(i) = {}
        BY <3>1 DEF Covered
      <3>2. CASE PeriodFor(i) # {}
        BY <3>2, SameCovered
      <3> QED BY <3>1, <3>2
    <2>2. \A x \in PeriodFor(i) : PersonSeconds({x}, Read(asked)) = PersonSeconds({x}, There)
      BY SamePersonSeconds
    <2>3. {y \in PeriodFor(i) : PersonSeconds({y}, Read(asked)) > 0}
              = {y \in PeriodFor(i) : PersonSeconds({y}, There) > 0}
      BY <2>2
    <2>4. CoveredShare(i, Read(asked)) = CoveredShare(i, There)
      <3> DEFINE charged(read) == {y \in PeriodFor(i) : PersonSeconds({y}, read) > 0}
                 worked == Covered(i, There) \ {0}
                 share(x, s, read) == Rounded(x[2].charge * s * Work(i).heads, PersonSeconds({x}, read))
      <3>1. \A x \in charged(There), s \in worked : share(x, s, Read(asked)) = share(x, s, There)
        BY <2>2
      <3>2. charged(Read(asked)) = charged(There)
        BY <2>3
      <3>3. CoveredShare(i, Read(asked)) = {share(x, s, Read(asked)) : x \in charged(Read(asked)), s \in worked}
        BY <2>1 DEF CoveredShare
      <3>4. CoveredShare(i, There) = {share(x, s, There) : x \in charged(There), s \in worked}
        BY DEF CoveredShare
      <3> HIDE DEF charged, worked, share
      <3> QED BY <3>1, <3>2, <3>3, <3>4
    <2> QED BY <2>1, <2>4
  <1>2. ASSUME NEW asked \in SUBSET There, NEW i \in asked
        PROVE  ValueEntries(asked)[i] = <<Covered(i, Read(asked)), CoveredShare(i, Read(asked))>>
    BY DEF ValueEntries, Read
  <1>3. ASSUME NEW asked \in SUBSET There, NEW i \in asked
        PROVE  ValueEntries(asked)[i] = ValueEntries(There)[i]
    <2>1. ValueEntries(There)[i] = <<Covered(i, There), CoveredShare(i, There)>>
      BY <1>2, ReadFits
    <2> QED BY <1>1, <1>2, <2>1
  <1> QED BY <1>3 DEF PeersAreEnough
-----------------------------------------------------------------------------
(* A pool, and the work that draws from it.                                *)

Done == {ij \in There \X There : Before(ij[1], ij[2])}

\* The order the work was done puts any entries in a row.
LEMMA DoneOrders ==
    ASSUME TypeOK, NEW S \in SUBSET There
    PROVE  /\ Orders(Done, S)
           /\ \A i \in S : Ahead(Done, S, i) = {j \in S : Before(j, i)}
  <1>1. \A i, j \in S : <<i, j>> \in Done <=> Before(i, j)
    BY DEF Done
  <1>2. \A i \in S : Work(i).day \in Int /\ i \in Nat
    BY WorkFits
  <1>3. Orders(Done, S)
    BY <1>1, <1>2 DEF Orders, Before
  <1>4. \A i \in S : Ahead(Done, S, i) = {j \in S : Before(j, i)}
    BY <1>1 DEF Ahead
  <1> QED BY <1>3, <1>4

\* Of a pool of one size, each draws what the work done before it leaves.
LEMMA PoolShared ==
    ASSUME TypeOK, NEW i \in There, Capped(i), PeriodFor(i) # {}, NEW size \in Allotment(i).pool,
           NEW j \in Drawn(i, There)
    PROVE  /\ j \in There /\ size \in Nat
           /\ Drawn(i, There) \in SUBSET There
           /\ Covered(j, There)
                  = {Left(j, size, Seconds({k \in Drawn(i, There) : Before(k, j)}))}
  <1>1. j \in There /\ Capped(j) /\ PeriodFor(j) = PeriodFor(i) /\ Work(j).service = Work(i).service
    BY DEF Drawn
  <1>2. Allotment(j) = Allotment(i)
    BY <1>1, OnePool
  <1>3. Drawn(j, There) = Drawn(i, There)
    BY <1>1 DEF Drawn
  <1>4. size \in Nat /\ Covered(j, There) = {Left(j, size, DrawnBefore(j, There))}
    BY <1>1, <1>2, CoveredFits
  <1> QED BY <1>1, <1>3, <1>4 DEF DrawnBefore, Drawn

\* So a pool is drawn as far as its work goes, or to its end.
LEMMA ThePoolIsDrawn ==
    ASSUME TypeOK
    PROVE  PoolIsDrawn
  <1> SUFFICES ASSUME NEW i \in There, Capped(i), PeriodFor(i) # {}, NEW size \in Allotment(i).pool
               PROVE  LET pool == Drawn(i, There)
                      IN SumFunctionOnSet([j \in pool |-> CoveredSeconds(j, There)], pool)
                             = IF Seconds(pool) < size THEN Seconds(pool) ELSE size
    BY DEF PoolIsDrawn
  <1> DEFINE pool == Drawn(i, There)
             takes == [j \in pool |-> CoveredSeconds(j, There)]
             work == [j \in pool |-> Work(j).seconds]
  <1>1. size \in Nat
    BY CoveredFits
  <1>2. pool \in SUBSET There /\ IsFiniteSet(pool)
    BY ThereFinite, FS_Subset DEF Drawn
  <1>3. Nats(work, pool)
    BY <1>2, WorkFits DEF Nats
  <1>4. Shared(Done, pool, work, size, takes)
    <2> SUFFICES ASSUME NEW j \in pool PROVE takes[j] = Share(Done, pool, work, size, j)
      BY DEF Shared
    <2> DEFINE earlier == {k \in pool : Before(k, j)}
    <2>1. Covered(j, There) = {Left(j, size, Seconds(earlier))}
      BY PoolShared
    <2>2. takes[j] = Left(j, size, Seconds(earlier))
      BY <2>1 DEF CoveredSeconds
    <2>3. Ahead(Done, pool, j) = earlier
      BY <1>2, DoneOrders
    <2>4. Seconds(earlier) = SumOf(work, earlier)
      <3> DEFINE f == [k \in earlier |-> Work(k).seconds]
      <3>1. \A k \in earlier : f[k] = work[k]
        OBVIOUS
      <3>2. IsFiniteSet(earlier) /\ earlier \in SUBSET pool
        BY <1>2, FS_Subset
      <3>3. Ints(work, earlier)
        BY <1>3 DEF Ints, Nats
      <3> HIDE DEF f, work, earlier
      <3>4. SumOf(f, earlier) = SumOf(work, earlier)
        BY <3>1, <3>2, <3>3, SumSame
      <3> QED BY <3>4 DEF f, Seconds, SumOf
    <2>5. work[j] = Work(j).seconds
      OBVIOUS
    <2>6. Seconds(earlier) \in Nat /\ Work(j).seconds \in Nat
      BY <1>2, SecondsFit, WorkFits
    <2> HIDE DEF earlier, takes, work, pool
    <2> QED BY <1>1, <2>2, <2>3, <2>4, <2>5, <2>6 DEF Share, Left, Lesser
  <1>5. Orders(Done, pool)
    BY <1>2, DoneOrders
  <1>6. SumFunctionOnSet(takes, pool) = SumOf(takes, pool) /\ Seconds(pool) = SumOf(work, pool)
    BY DEF Seconds, SumOf
  <1>7. Seconds(pool) \in Nat
    BY <1>2, SecondsFit
  <1> HIDE DEF takes, work, pool
  <1>8. SumOf(takes, pool) = Lesser(size, SumOf(work, pool))
    BY <1>1, <1>2, <1>3, <1>4, <1>5, Served
  <1>9. SumFunctionOnSet(takes, pool) = IF Seconds(pool) < size THEN Seconds(pool) ELSE size
    BY <1>1, <1>6, <1>7, <1>8 DEF Lesser
  <1> QED BY <1>9 DEF takes, pool

\* Nothing is drawn for what is done later while earlier work finds less than it
\* needs: what is drawn before the later includes the earlier and all before it.
LEMMA TheEarlierIsCovered ==
    ASSUME TypeOK
    PROVE  DrawnInOrder
  <1> SUFFICES ASSUME NEW i \in There, Capped(i), PeriodFor(i) # {}, NEW j \in Drawn(i, There),
                      Work(j).day < Work(i).day, Covered(i, There) # {0}
               PROVE  Covered(j, There) = {Work(j).seconds}
    BY DEF DrawnInOrder
  <1> DEFINE pool == Drawn(i, There)
             earlier(k) == {l \in pool : Before(l, k)}
             work == [l \in pool |-> Work(l).seconds]
  <1>1. PICK size \in Allotment(i).pool : size \in Nat
    BY CoveredFits
  <1>2. i \in pool /\ pool \in SUBSET There /\ IsFiniteSet(pool) /\ j \in There
    BY ThereFinite, FS_Subset DEF Drawn
  <1>3. /\ Covered(i, There) = {Left(i, size, Seconds(earlier(i)))}
        /\ Covered(j, There) = {Left(j, size, Seconds(earlier(j)))}
    BY <1>2, PoolShared
  <1>4. \A l \in pool : Work(l).seconds \in Nat /\ Work(l).day \in Int /\ l \in Nat
    BY <1>2, WorkFits
  <1>5. \A T \in SUBSET pool : Seconds(T) = SumOf(work, T) /\ Seconds(T) \in Nat
    <2> TAKE T \in SUBSET pool
    <2> DEFINE f == [l \in T |-> Work(l).seconds]
    <2>1. IsFiniteSet(T) /\ Ints(work, T) /\ \A l \in T : f[l] = work[l]
      BY <1>2, <1>4, FS_Subset DEF Ints
    <2>2. Seconds(T) \in Nat
      BY <1>2, SecondsFit
    <2> HIDE DEF f, work
    <2>3. SumOf(f, T) = SumOf(work, T)
      BY <2>1, SumSame
    <2> QED BY <2>2, <2>3 DEF f, Seconds, SumOf
  <1>6. j \notin earlier(j) /\ earlier(j) \cup {j} \in SUBSET earlier(i)
        /\ earlier(i) \in SUBSET pool /\ earlier(j) \in SUBSET pool
    BY <1>2, <1>4 DEF Before
  <1>7. work[j] = Work(j).seconds /\ \A l \in pool : work[l] \in Nat
    BY <1>4
  <1> HIDE DEF earlier, pool, work
  <1>8. Seconds(earlier(j)) + Work(j).seconds <= Seconds(earlier(i))
    <2>1. IsFiniteSet(earlier(i)) /\ IsFiniteSet(earlier(j))
      BY <1>2, <1>6, FS_Subset
    <2>2. SumOf(work, earlier(j) \cup {j}) <= SumOf(work, earlier(i))
      BY <1>6, <1>7, <2>1, SumSubset
    <2>3. Ints(work, earlier(j) \cup {j})
      BY <1>6, <1>7 DEF Ints
    <2>4. SumOf(work, earlier(j) \cup {j}) = SumOf(work, earlier(j)) + work[j]
      BY <1>6, <2>1, <2>3, SumAdd
    <2> QED BY <1>5, <1>6, <1>7, <2>2, <2>4
  <1>9. Left(i, size, Seconds(earlier(i))) # 0
    BY <1>3
  <1>10. Seconds(earlier(i)) < size
    BY <1>1, <1>5, <1>6, <1>9 DEF Left
  <1>11. Left(j, size, Seconds(earlier(j))) = Work(j).seconds
    <2>1. Seconds(earlier(i)) \in Nat /\ Seconds(earlier(j)) \in Nat /\ Work(j).seconds \in Nat
      BY <1>2, <1>5, <1>6, WorkFits
    <2> QED BY <1>1, <1>8, <1>10, <2>1 DEF Left
  <1> QED BY <1>3, <1>11
-----------------------------------------------------------------------------
(* A charge, and the work it covers.                                       *)

\* Rounding is off by half a unit at most.
LEMMA RoundedFits ==
    ASSUME NEW n \in Int, NEW d \in Nat \ {0}
    PROVE  /\ Rounded(n, d) \in Int
           /\ 0 - d <= (2 * d) * Rounded(n, d) - 2 * n
           /\ (2 * d) * Rounded(n, d) - 2 * n <= d
  <1> DEFINE q == (2 * n + d) \div (2 * d)
  <1>1. 2 * n + d \in Int /\ 2 * d \in Nat \ {0}
    OBVIOUS
  <1>2. q \in Int /\ (2 * d) * q <= 2 * n + d /\ 2 * n + d < (2 * d) * q + 2 * d
    BY <1>1, DivBounds
  <1>3. (2 * d) * q \in Int
    BY <1>1, <1>2
  <1> HIDE DEF q
  <1>4. 0 - d <= (2 * d) * q - 2 * n /\ (2 * d) * q - 2 * n <= d
    BY <1>2, <1>3
  <1> QED BY <1>2, <1>4 DEF q, Rounded

\* A bound scaled up is the bound.
LEMMA ScaledBounds ==
    ASSUME NEW d \in Nat \ {0}, NEW m \in Int, NEW c \in Nat,
           0 - d * c <= d * m, d * m <= d * c
    PROVE  m \in -c..c
  <1>1. m <= c
    <2> SUFFICES ASSUME m >= c + 1 PROVE FALSE
      OBVIOUS
    <2>1. d * m >= d * (c + 1)
      OBVIOUS
    <2>2. d * (c + 1) = d * c + d /\ d * c \in Int
      OBVIOUS
    <2> QED BY <2>1, <2>2
  <1>2. -c <= m
    <2> SUFFICES ASSUME m <= 0 - c - 1 PROVE FALSE
      OBVIOUS
    <2>1. d * m <= d * (0 - c - 1)
      OBVIOUS
    <2>2. d * (0 - c - 1) = 0 - d * c - d /\ d * c \in Int
      OBVIOUS
    <2> QED BY <2>1, <2>2
  <1> QED BY <1>1, <1>2

\* Each share is off by half a unit at most: together, by half a unit for each.
LEMMA TheChargeIsSharedOut ==
    ASSUME TypeOK
    PROVE  ChargeIsSharedOut
  <1> SUFFICES ASSUME NEW a \in Agreements, NEW p \in periods[a]
               PROVE  LET over == {i \in Under({<<a, p>>}, There) : CoveredShare(i, There) # {}}
                          shared == SumFunctionOnSet(
                                        [i \in over |-> CHOOSE s \in CoveredShare(i, There) : TRUE],
                                        over)
                      IN  over # {} => 2 * shared - 2 * p.charge \in -Cardinality(over)..Cardinality(over)
    BY DEF ChargeIsSharedOut
  <1> DEFINE x == <<a, p>>
             worked == Under({x}, There)
             over == {i \in worked : CoveredShare(i, There) # {}}
             parts == [i \in worked |-> Work(i).heads * CoveredSeconds(i, There)]
             share == [i \in over |-> CHOOSE s \in CoveredShare(i, There) : TRUE]
             whole == PersonSeconds({x}, There)
             charge == p.charge
  <1>1. x[2] = p /\ charge \in Nat
    BY DEF TypeOK
  <1> HIDE DEF charge
  <1>2. /\ IsFiniteSet(worked) /\ IsFiniteSet(over) /\ over \in SUBSET worked
        /\ \A i \in worked : i \in There /\ PeriodFor(i) = {x}
    BY ThereFinite, FS_Subset DEF Under
  <1>3. ASSUME NEW i \in worked
        PROVE  /\ Covered(i, There) = {CoveredSeconds(i, There)}
               /\ CoveredSeconds(i, There) \in Nat /\ Work(i).heads \in Nat /\ parts[i] \in Nat
    <2>1. Covered(i, There) \in SUBSET Nat /\ AtMostOne(Covered(i, There)) /\ Covered(i, There) # {}
      BY <1>2, CoveredFits
    <2>2. CoveredSeconds(i, There) \in Covered(i, There)
      BY <2>1 DEF CoveredSeconds
    <2>3. Covered(i, There) = {CoveredSeconds(i, There)}
      BY <2>1, <2>2 DEF AtMostOne
    <2>4. Work(i).heads \in Nat
      BY <1>2, WorkFits
    <2> QED BY <2>1, <2>2, <2>3, <2>4
  <1>4. whole = SumOf(parts, worked) /\ whole \in Nat
    <2>1. whole = SumOf(parts, worked)
      BY DEF PersonSeconds, SumOf
    <2> HIDE DEF parts, worked, whole
    <2> QED BY <1>2, <1>3, <2>1, SumNat
  <1>5. ASSUME NEW i \in worked
        PROVE  CoveredShare(i, There) =
                   {Rounded(charge * s * Work(i).heads, whole) :
                        s \in IF whole > 0 THEN Covered(i, There) \ {0} ELSE {}}
    <2>1. PeriodFor(i) = {x}
      BY <1>2
    <2>2. {y \in PeriodFor(i) : PersonSeconds({y}, There) > 0} = IF whole > 0 THEN {x} ELSE {}
      BY <2>1
    <2> DEFINE sharing == {y \in PeriodFor(i) : PersonSeconds({y}, There) > 0}
               part(y, s) == Rounded(y[2].charge * s * Work(i).heads, PersonSeconds({y}, There))
    <2>3. CoveredShare(i, There) = {part(y, s) : y \in sharing, s \in Covered(i, There) \ {0}}
      BY DEF CoveredShare
    <2>4. sharing = IF whole > 0 THEN {x} ELSE {}
      BY <2>2
    <2>5. \A s : part(x, s) = Rounded(charge * s * Work(i).heads, whole)
      BY <1>1 DEF charge
    <2> HIDE DEF x, sharing, part, whole
    <2> QED BY <2>3, <2>4, <2>5
  <1> SUFFICES ASSUME over # {}
               PROVE  2 * SumOf(share, over) - 2 * charge \in -Cardinality(over)..Cardinality(over)
    BY DEF SumOf, charge
  <1>6. whole \in Nat \ {0}
    <2>1. PICK i \in worked : CoveredShare(i, There) # {}
      OBVIOUS
    <2> HIDE DEF whole, worked
    <2> QED BY <1>4, <1>5, <2>1
  <1>7. ASSUME NEW i \in over
        PROVE  share[i] = Rounded(charge * parts[i], whole)
    <2>1. i \in worked /\ CoveredShare(i, There) # {}
      OBVIOUS
    <2> DEFINE s == CoveredSeconds(i, There)
    <2>2. Covered(i, There) = {s} /\ s \in Nat /\ Work(i).heads \in Nat
      BY <1>3, <2>1
    <2>3. share[i] = CHOOSE r \in CoveredShare(i, There) : TRUE
      OBVIOUS
    <2>4. parts[i] = Work(i).heads * s
      BY <2>1
    <2> HIDE DEF whole, worked, s, over, share, parts
    <2>5. CoveredShare(i, There) = {Rounded(charge * s * Work(i).heads, whole)}
      BY <1>5, <1>6, <2>1, <2>2
    <2>6. charge * s * Work(i).heads = charge * parts[i]
      BY <1>1, <2>2, <2>4
    <2> QED BY <2>3, <2>5, <2>6
  <1>8. \A i \in worked \ over : parts[i] = 0
    <2> TAKE i \in worked \ over
    <2>1. i \in worked /\ CoveredShare(i, There) = {} /\ parts[i] = Work(i).heads * CoveredSeconds(i, There)
      OBVIOUS
    <2> DEFINE s == CoveredSeconds(i, There)
    <2>2. Covered(i, There) = {s} /\ s \in Nat /\ Work(i).heads \in Nat
      BY <1>3, <2>1
    <2> HIDE DEF whole, worked, s, over, parts
    <2>3. s = 0
      BY <1>5, <1>6, <2>1, <2>2
    <2> QED BY <2>1, <2>2, <2>3 DEF s
  <1> DEFINE scaled == [i \in over |-> (2 * whole) * share[i]]
             twice == [i \in over |-> (2 * charge) * parts[i]]
             off == [i \in over |-> scaled[i] - twice[i]]
  <1>9. ASSUME NEW i \in over
        PROVE  /\ parts[i] \in Nat /\ share[i] \in Int /\ twice[i] \in Int
               /\ 0 - whole <= off[i] /\ off[i] <= whole /\ off[i] \in Int
               /\ scaled[i] = (2 * whole) * share[i] /\ twice[i] = (2 * charge) * parts[i]
               /\ scaled[i] = off[i] + twice[i]
    <2>1. parts[i] \in Nat /\ share[i] = Rounded(charge * parts[i], whole)
      BY <1>2, <1>3, <1>7
    <2>2. scaled[i] = (2 * whole) * share[i] /\ twice[i] = (2 * charge) * parts[i]
          /\ off[i] = scaled[i] - twice[i]
      OBVIOUS
    <2> HIDE DEF whole, over, parts, share, scaled, twice, off
    <2> DEFINE n == charge * parts[i]
               r == share[i]
    <2>3. n \in Int
      BY <1>1, <2>1
    <2>4. r \in Int /\ 0 - whole <= (2 * whole) * r - 2 * n /\ (2 * whole) * r - 2 * n <= whole
      <3> HIDE DEF n
      <3> QED BY <1>6, <2>1, <2>3, RoundedFits DEF n
    <2>5. twice[i] = 2 * n
      BY <1>1, <2>1, <2>2
    <2>6. (2 * whole) * r \in Int
      <3> HIDE DEF n, r
      <3> QED BY <1>6, <2>4
    <2> QED BY <2>1, <2>2, <2>3, <2>4, <2>5, <2>6
  <1> HIDE DEF whole, worked, over, parts, share, scaled, twice, off
  <1>10. Ints(parts, over) /\ Ints(share, over) /\ Ints(twice, over) /\ Ints(off, over) /\ Ints(parts, worked)
    BY <1>3, <1>9 DEF Ints
  <1>11. SumOf(parts, over) = whole
    BY <1>2, <1>4, <1>8, <1>10, SumZeros
  <1>12. SumOf(scaled, over) = (2 * whole) * SumOf(share, over) /\ SumOf(share, over) \in Int
    <2>1. 2 * whole \in Int
      BY <1>6
    <2> QED BY <1>2, <1>9, <1>10, <2>1, SumScale, SumType
  <1>13. SumOf(twice, over) = (2 * charge) * whole
    <2>1. 2 * charge \in Int
      BY <1>1
    <2> QED BY <1>2, <1>9, <1>10, <1>11, <2>1, SumScale
  <1>14. SumOf(scaled, over) = SumOf(off, over) + SumOf(twice, over)
    BY <1>2, <1>9, <1>10, SumPlus
  <1>15. /\ Cardinality(over) \in Nat
         /\ 0 - whole * Cardinality(over) <= SumOf(off, over)
         /\ SumOf(off, over) <= whole * Cardinality(over)
    BY <1>2, <1>6, <1>9, <1>10, SumBounds
  <1> DEFINE total == SumOf(share, over)
             left == SumOf(off, over)
             c == Cardinality(over)
  <1>16. left \in Int
    BY <1>2, <1>10, SumType
  <1>17. (2 * whole) * total = left + (2 * charge) * whole
    BY <1>12, <1>13, <1>14
  <1>18. total \in Int /\ c \in Nat /\ 0 - whole * c <= left /\ left <= whole * c
    BY <1>12, <1>15
  <1> HIDE DEF total, left, c
  <1>19. whole * (2 * total - 2 * charge) = left
    <2>1. whole * (2 * total - 2 * charge) = (2 * whole) * total - (2 * charge) * whole
      BY <1>1, <1>6, <1>18
    <2>2. (2 * charge) * whole \in Int
      BY <1>1, <1>6
    <2> QED BY <1>16, <1>17, <2>1, <2>2
  <1>20. 2 * total - 2 * charge \in -c..c
    <2>1. 2 * total - 2 * charge \in Int
      BY <1>1, <1>18
    <2> QED BY <1>6, <1>18, <1>19, <2>1, ScaledBounds
  <1> QED BY <1>20 DEF total, c

\* So no agreement that reaches an entry is closer than the one it falls under.
LEMMA TheClosestIsFound ==
    ASSUME TypeOK
    PROVE  ClosestAgreement
  <1> SUFFICES ASSUME NEW i \in There, NEW a \in AgreementFor(i), NEW b \in ToSet(rows), Reaches(b, i)
               PROVE  /\ Deal(b).site # {} => Deal(a).site # {}
                      /\ Deal(b).site = Deal(a).site => Deal(b).starts <= Deal(a).starts
    BY DEF ClosestAgreement
  <1>1. /\ a \in Agreements /\ agreements[a] # {}
        /\ \A k \in DOMAIN rows : Reaches(rows[k], i) => ~Closer(rows[k], a)
    BY ClosestFound
  <1>2. ~Closer(b, a)
    BY <1>1 DEF ToSet
  <1>3. b \in Agreements /\ agreements[b] # {}
    BY DEF TypeOK
  <1>4. Deal(a).starts \in Int /\ Deal(b).starts \in Int
    BY <1>1, <1>3, DealFits
  <1> QED BY <1>2, <1>4 DEF Closer
-----------------------------------------------------------------------------
(* The steps.                                                              *)

\* A row of the agreements' taken out, or put last.
LEMMA TakenOut ==
    ASSUME NEW S, NEW s \in Seq(S), IsInjective(s), NEW k \in DOMAIN s
    PROVE  /\ RemoveAt(s, k) \in Seq(S) /\ IsInjective(RemoveAt(s, k))
           /\ ToSet(RemoveAt(s, k)) = ToSet(s) \ {s[k]}
  <1> DEFINE n == Len(s)
             r == RemoveAt(s, k)
  <1>1. n \in Nat /\ k \in 1..n /\ DOMAIN s = 1..n /\ n - 1 \in Nat
    OBVIOUS
  <1>2. /\ SubSeq(s, 1, k - 1) \in Seq(S) /\ Len(SubSeq(s, 1, k - 1)) = k - 1
        /\ SubSeq(s, k + 1, n) \in Seq(S) /\ Len(SubSeq(s, k + 1, n)) = n - k
        /\ \A j \in 1..(k - 1) : SubSeq(s, 1, k - 1)[j] = s[j]
        /\ \A j \in 1..(n - k) : SubSeq(s, k + 1, n)[j] = s[k + j]
    <2>1. \A j \in 1..n : s[j] \in S
      OBVIOUS
    <2> HIDE DEF n
    <2>2. k - 1 \in Int /\ \A j \in 1..(k - 1) : s[j] \in S
      BY <1>1, <2>1
    <2>3. k + 1 \in Int /\ n \in Int /\ \A j \in (k + 1)..n : s[j] \in S
      BY <1>1, <2>1
    <2>4. /\ SubSeq(s, 1, k - 1) \in Seq(S)
          /\ Len(SubSeq(s, 1, k - 1)) = IF 1 <= k - 1 THEN (k - 1) - 1 + 1 ELSE 0
          /\ \A j \in 1..((k - 1) - 1 + 1) : SubSeq(s, 1, k - 1)[j] = s[1 + j - 1]
      BY <2>2, SubSeqProperties
    <2>5. /\ SubSeq(s, k + 1, n) \in Seq(S)
          /\ Len(SubSeq(s, k + 1, n)) = IF k + 1 <= n THEN n - (k + 1) + 1 ELSE 0
          /\ \A j \in 1..(n - (k + 1) + 1) : SubSeq(s, k + 1, n)[j] = s[(k + 1) + j - 1]
      BY <2>3, SubSeqProperties
    <2>6. Len(SubSeq(s, 1, k - 1)) = k - 1 /\ Len(SubSeq(s, k + 1, n)) = n - k
      BY <1>1, <2>4, <2>5
    <2>7. ASSUME NEW j \in 1..(k - 1) PROVE SubSeq(s, 1, k - 1)[j] = s[j]
      <3>1. j \in 1..((k - 1) - 1 + 1) /\ 1 + j - 1 = j
        BY <1>1
      <3> QED BY <2>4, <3>1
    <2>8. ASSUME NEW j \in 1..(n - k) PROVE SubSeq(s, k + 1, n)[j] = s[k + j]
      <3>1. j \in 1..(n - (k + 1) + 1) /\ (k + 1) + j - 1 = k + j
        BY <1>1
      <3> QED BY <2>5, <3>1
    <2> QED BY <2>4, <2>5, <2>6, <2>7, <2>8
  <1>3. /\ r \in Seq(S) /\ Len(r) = n - 1
        /\ \A j \in 1..(n - 1) : r[j] = IF j < k THEN s[j] ELSE s[j + 1]
    <2> DEFINE head == SubSeq(s, 1, k - 1)
               tail == SubSeq(s, k + 1, n)
    <2>1. r = head \o tail
      BY DEF RemoveAt
    <2>2. /\ head \in Seq(S) /\ tail \in Seq(S) /\ Len(head) = k - 1 /\ Len(tail) = n - k
          /\ \A j \in 1..(k - 1) : head[j] = s[j]
          /\ \A j \in 1..(n - k) : tail[j] = s[k + j]
      BY <1>2
    <2> HIDE DEF head, tail, r, n
    <2>3. r \in Seq(S) /\ Len(r) = n - 1
      <3>1. r \in Seq(S) /\ Len(r) = Len(head) + Len(tail)
        BY <2>1, <2>2, ConcatProperties
      <3> QED BY <1>1, <2>2, <3>1
    <2>4. ASSUME NEW j \in 1..(n - 1) PROVE r[j] = IF j < k THEN s[j] ELSE s[j + 1]
      <3>1. r[j] = IF j <= k - 1 THEN head[j] ELSE tail[j - (k - 1)]
        <4>1. j \in 1..(Len(head) + Len(tail))
          BY <1>1, <2>2
        <4>2. r[j] = IF j <= Len(head) THEN head[j] ELSE tail[j - Len(head)]
          BY <2>1, <2>2, <4>1, ConcatProperties
        <4> QED BY <2>2, <4>2
      <3>2. CASE j < k
        BY <1>1, <2>2, <3>1, <3>2
      <3>3. CASE ~(j < k)
        <4> DEFINE m == j - (k - 1)
        <4>1. m \in 1..(n - k) /\ k + m = j + 1 /\ ~(j <= k - 1)
          BY <1>1, <3>3
        <4>2. r[j] = tail[m]
          BY <3>1, <4>1
        <4>3. tail[m] = s[k + m]
          <5> HIDE DEF m
          <5> QED BY <2>2, <4>1
        <4>4. r[j] = s[j + 1]
          <5> HIDE DEF m
          <5> QED BY <4>1, <4>2, <4>3
        <4> QED BY <3>3, <4>4
      <3> QED BY <3>2, <3>3
    <2> QED BY <2>3, <2>4
  <1>4. DOMAIN r = 1..(n - 1)
    <2> HIDE DEF r, n
    <2> QED BY <1>1, <1>3
  <1>5. \A i, j \in 1..n : s[i] = s[j] => i = j
    BY <1>1 DEF IsInjective
  <1> HIDE DEF r, n
  <1>6. IsInjective(r)
    <2> SUFFICES ASSUME NEW i \in 1..(n - 1), NEW j \in 1..(n - 1), r[i] = r[j] PROVE i = j
      BY <1>4 DEF IsInjective
    <2> QED BY <1>1, <1>3, <1>5
  <1>7. ToSet(r) = ToSet(s) \ {s[k]}
    <2>1. ASSUME NEW x \in ToSet(r) PROVE x \in ToSet(s) /\ x # s[k]
      <3>1. PICK j \in 1..(n - 1) : x = r[j]
        BY <1>4 DEF ToSet
      <3>2. \E i \in 1..n : i # k /\ x = s[i]
        <4>1. CASE j < k
          <5>1. j \in 1..n /\ j # k /\ x = s[j]
            BY <1>1, <1>3, <3>1, <4>1
          <5> QED BY <5>1
        <4>2. CASE ~(j < k)
          <5>1. j + 1 \in 1..n /\ j + 1 # k
            BY <1>1, <3>1, <4>2
          <5>2. x = s[j + 1]
            BY <1>3, <3>1, <4>2
          <5> QED BY <5>1, <5>2
        <4> QED BY <4>1, <4>2
      <3> QED BY <1>1, <1>5, <3>2 DEF ToSet
    <2>2. ASSUME NEW x \in ToSet(s), x # s[k] PROVE x \in ToSet(r)
      <3>1. PICK i \in 1..n : x = s[i]
        BY <1>1 DEF ToSet
      <3>2. i # k
        BY <2>2, <3>1
      <3>3. \E j \in 1..(n - 1) : r[j] = x
        <4>1. CASE i < k
          BY <1>1, <1>3, <3>1, <4>1
        <4>2. CASE i > k
          <5>1. i - 1 \in 1..(n - 1) /\ ~(i - 1 < k) /\ (i - 1) + 1 = i
            BY <1>1, <4>2
          <5>2. r[i - 1] = s[i]
            BY <1>3, <5>1
          <5> QED BY <3>1, <5>1, <5>2
        <4> QED BY <1>1, <3>2, <4>1, <4>2
      <3> QED BY <1>4, <3>3 DEF ToSet
    <2> QED BY <2>1, <2>2
  <1> QED BY <1>3, <1>6, <1>7 DEF r

\* One more put last.
LEMMA PutLast ==
    ASSUME NEW S, NEW s \in Seq(S), IsInjective(s), NEW e \in S, e \notin ToSet(s)
    PROVE  /\ Append(s, e) \in Seq(S) /\ IsInjective(Append(s, e))
           /\ ToSet(Append(s, e)) = ToSet(s) \cup {e}
  <1> DEFINE n == Len(s)
             r == Append(s, e)
  <1>1. n \in Nat /\ DOMAIN s = 1..n
    OBVIOUS
  <1>2. /\ r \in Seq(S) /\ DOMAIN r = 1..(n + 1) /\ r[n + 1] = e
        /\ \A j \in 1..n : r[j] = s[j]
    OBVIOUS
  <1>3. \A i, j \in 1..n : s[i] = s[j] => i = j
    BY <1>1 DEF IsInjective
  <1>4. \A j \in 1..n : s[j] # e
    BY <1>1 DEF ToSet
  <1> HIDE DEF r, n
  <1>5. \A j \in 1..(n + 1) : j \in 1..n \/ j = n + 1
    BY <1>1
  <1>6. IsInjective(r)
    BY <1>2, <1>3, <1>4, <1>5 DEF IsInjective
  <1>7. ToSet(r) = ToSet(s) \cup {e}
    <2>1. ASSUME NEW x \in ToSet(r) PROVE x \in ToSet(s) \/ x = e
      BY <1>1, <1>2, <1>5, <2>1 DEF ToSet
    <2>2. ASSUME NEW x \in ToSet(s) PROVE x \in ToSet(r)
      <3>1. PICK j \in 1..n : x = s[j]
        BY <1>1 DEF ToSet
      <3>2. j \in 1..(n + 1) /\ r[j] = x
        BY <1>1, <1>2, <3>1
      <3> QED BY <1>2, <3>2 DEF ToSet
    <2>3. e \in ToSet(r)
      <3>1. n + 1 \in 1..(n + 1)
        BY <1>1
      <3> QED BY <1>2, <3>1 DEF ToSet
    <2> QED BY <2>1, <2>2, <2>3
  <1> QED BY <1>2, <1>6, <1>7 DEF r

\* An agreement's row taken out, and put last again, leaves the others'.
LEMMA RowsKept ==
    ASSUME TypeOK, NEW a \in Agreements, agreements[a] # {}
    PROVE  /\ RowsWithout(a) \in Seq(Agreements) /\ IsInjective(RowsWithout(a))
           /\ ToSet(RowsWithout(a)) = ToSet(rows) \ {a}
           /\ Append(RowsWithout(a), a) \in Seq(Agreements)
           /\ IsInjective(Append(RowsWithout(a), a))
           /\ ToSet(Append(RowsWithout(a), a)) = ToSet(rows)
  <1> DEFINE k == CHOOSE k \in DOMAIN rows : rows[k] = a
  <1>1. \E j \in DOMAIN rows : rows[j] = a
    BY RowsThere
  <1>2. k \in DOMAIN rows /\ rows[k] = a
    BY <1>1
  <1>3. rows \in Seq(Agreements) /\ IsInjective(rows)
    BY DEF TypeOK
  <1>4. a \in ToSet(rows)
    BY <1>2 DEF ToSet
  <1> HIDE DEF k
  <1> DEFINE r == RemoveAt(rows, k)
  <1>5. r \in Seq(Agreements) /\ IsInjective(r) /\ ToSet(r) = ToSet(rows) \ {a}
    BY <1>2, <1>3, TakenOut
  <1> HIDE DEF r
  <1>6. a \notin ToSet(r)
    BY <1>5
  <1>7. /\ Append(r, a) \in Seq(Agreements) /\ IsInjective(Append(r, a))
        /\ ToSet(Append(r, a)) = ToSet(r) \cup {a}
    BY <1>5, <1>6, PutLast
  <1>8. RowsWithout(a) = r
    BY DEF RowsWithout, r, k
  <1> QED BY <1>4, <1>5, <1>7, <1>8

(***************************************************************************)
(* What a step leaves: entries, agreements and periods as they may be, and *)
(* the rows those of the agreements there are, each once.                  *)
(***************************************************************************)
\* At first nothing is there.
LEMMA InitFits == Init => TypeOK
  <1> SUFFICES ASSUME Init PROVE TypeOK
    OBVIOUS
  <1>1. /\ entries \in [Ids -> SUBSET Works] /\ agreements \in [Agreements -> SUBSET Deals]
        /\ periods \in [Agreements -> SUBSET Charges]
    BY DEF Init
  <1>2. \A a \in Agreements : agreements[a] = {} /\ periods[a] = {}
    BY DEF Init
  <1>3. rows = <<>> /\ rows \in Seq(Agreements) /\ DOMAIN rows = {}
    BY DEF Init
  <1>4. IsInjective(rows) /\ ToSet(rows) = {}
    BY <1>3 DEF IsInjective, ToSet
  <1> QED BY <1>1, <1>2, <1>3, <1>4 DEF TypeOK

\* An entry recorded or deleted touches no agreement.
LEMMA EntryFits ==
    ASSUME TypeOK, NEW i \in Ids, NEW some \in SUBSET Works,
           entries' = [entries EXCEPT ![i] = some], UNCHANGED <<agreements, rows, periods>>
    PROVE  TypeOK'
  <1>1. entries' \in [Ids -> SUBSET Works]
    BY DEF TypeOK
  <1> QED BY <1>1 DEF TypeOK

\* A new agreement's row comes last.
LEMMA MakeFits ==
    ASSUME TypeOK, NEW a \in Agreements, NEW deal \in Deals, MakeAgreement(a, deal)
    PROVE  TypeOK'
  <1>1. /\ agreements[a] = {} /\ agreements' = [agreements EXCEPT ![a] = {deal}]
        /\ rows' = Append(rows, a) /\ UNCHANGED <<entries, periods>>
    BY DEF MakeAgreement
  <1>2. /\ agreements \in [Agreements -> SUBSET Deals]
        /\ rows \in Seq(Agreements) /\ IsInjective(rows)
        /\ ToSet(rows) = {b \in Agreements : agreements[b] # {}}
    BY DEF TypeOK
  <1>3. /\ rows' \in Seq(Agreements) /\ IsInjective(rows')
        /\ ToSet(rows') = ToSet(rows) \cup {a}
    <2>1. a \notin ToSet(rows)
      BY <1>1, <1>2
    <2> QED BY <1>1, <1>2, <2>1, PutLast
  <1>4. /\ agreements' \in [Agreements -> SUBSET Deals] /\ agreements'[a] = {deal}
        /\ \A b \in Agreements : b # a => agreements'[b] = agreements[b]
    BY <1>1, <1>2
  <1>5. ToSet(rows') = {b \in Agreements : agreements'[b] # {}}
    BY <1>2, <1>3, <1>4
  <1>6. \A b \in Agreements : periods'[b] # {} => agreements'[b] # {}
    BY <1>1, <1>4 DEF TypeOK
  <1> QED BY <1>1, <1>3, <1>4, <1>5, <1>6 DEF TypeOK

\* An agreement that says something else keeps its row, wherever that comes.
LEMMA SaysFits ==
    ASSUME TypeOK, NEW a \in Agreements, NEW deal \in Deals, agreements[a] # {},
           agreements' = [agreements EXCEPT ![a] = {deal}],
           rows' \in {rows, Append(RowsWithout(a), a)}, UNCHANGED <<entries, periods>>
    PROVE  TypeOK'
  <1>1. /\ agreements \in [Agreements -> SUBSET Deals]
        /\ rows \in Seq(Agreements) /\ IsInjective(rows)
        /\ ToSet(rows) = {b \in Agreements : agreements[b] # {}}
    BY DEF TypeOK
  <1>2. rows' \in Seq(Agreements) /\ IsInjective(rows') /\ ToSet(rows') = ToSet(rows)
    BY <1>1, RowsKept
  <1>3. /\ agreements' \in [Agreements -> SUBSET Deals]
        /\ \A b \in Agreements : agreements'[b] # {} <=> agreements[b] # {}
    BY <1>1
  <1>4. ToSet(rows') = {b \in Agreements : agreements'[b] # {}}
    BY <1>1, <1>2, <1>3
  <1>5. \A b \in Agreements : periods'[b] # {} => agreements'[b] # {}
    BY <1>3 DEF TypeOK
  <1> QED BY <1>2, <1>3, <1>4, <1>5 DEF TypeOK

\* An agreement goes with its row, and never from under a period charged.
LEMMA RemoveFits ==
    ASSUME TypeOK, NEW a \in Agreements, RemoveAgreement(a)
    PROVE  TypeOK'
  <1>1. /\ agreements[a] # {} /\ periods[a] = {} /\ rows' = RowsWithout(a)
        /\ agreements' = [agreements EXCEPT ![a] = {}] /\ UNCHANGED <<entries, periods>>
    BY DEF RemoveAgreement, ChargedUnder
  <1>2. /\ agreements \in [Agreements -> SUBSET Deals]
        /\ ToSet(rows) = {b \in Agreements : agreements[b] # {}}
    BY DEF TypeOK
  <1>3. rows' \in Seq(Agreements) /\ IsInjective(rows') /\ ToSet(rows') = ToSet(rows) \ {a}
    BY <1>1, RowsKept
  <1>4. /\ agreements' \in [Agreements -> SUBSET Deals] /\ agreements'[a] = {}
        /\ \A b \in Agreements : b # a => agreements'[b] = agreements[b]
    BY <1>1, <1>2
  <1>5. ToSet(rows') = {b \in Agreements : agreements'[b] # {}}
    BY <1>2, <1>3, <1>4
  <1>6. \A b \in Agreements : periods'[b] # {} => agreements'[b] # {}
    BY <1>1, <1>4 DEF TypeOK
  <1> QED BY <1>1, <1>3, <1>4, <1>5, <1>6 DEF TypeOK

\* A period is charged under an agreement that is there.
LEMMA ChargeFits ==
    ASSUME TypeOK, NEW a \in Agreements, NEW p \in Charges, Charge(a, p)
    PROVE  TypeOK'
  <1>1. /\ agreements[a] # {} /\ periods' = [periods EXCEPT ![a] = @ \cup {p}]
        /\ UNCHANGED <<entries, agreements, rows>>
    BY DEF Charge
  <1>2. /\ periods' \in [Agreements -> SUBSET Charges]
        /\ \A b \in Agreements : b # a => periods'[b] = periods[b]
    BY <1>1 DEF TypeOK
  <1>3. \A b \in Agreements : periods'[b] # {} => agreements'[b] # {}
    BY <1>1, <1>2 DEF TypeOK
  <1> QED BY <1>1, <1>2, <1>3 DEF TypeOK

\* Every step keeps the type.
LEMMA StepKeeps ==
    ASSUME TypeOK, [Next]_vars
    PROVE  TypeOK'
  <1>1. ASSUME NEW i \in Ids, NEW work \in Works, RecordEntry(i, work) PROVE TypeOK'
    BY <1>1, EntryFits DEF RecordEntry
  <1>2. ASSUME NEW i \in Ids, DeleteEntry(i) PROVE TypeOK'
    <2>1. {} \in SUBSET Works
      OBVIOUS
    <2> QED BY <1>2, <2>1, EntryFits DEF DeleteEntry
  <1>3. ASSUME NEW a \in Agreements, NEW deal \in Deals, MakeAgreement(a, deal) PROVE TypeOK'
    BY <1>3, MakeFits
  <1>4. ASSUME NEW a \in Agreements, NEW deal \in Deals, MoveAgreement(a, deal) PROVE TypeOK'
    <2>1. agreements[a] # {}
      BY <1>4 DEF MoveAgreement
    <2> QED BY <1>4, <2>1, SaysFits DEF MoveAgreement, Rewrite
  <1>5. ASSUME NEW a \in Agreements, NEW deal \in Deals, CoverService(a, deal) PROVE TypeOK'
    <2>1. /\ agreements[a] # {} /\ agreements' = [agreements EXCEPT ![a] = {deal}]
          /\ UNCHANGED <<entries, rows, periods>>
      BY <1>5 DEF CoverService
    <2> QED BY <2>1, SaysFits
  <1>6. ASSUME NEW a \in Agreements, RemoveAgreement(a) PROVE TypeOK'
    BY <1>6, RemoveFits
  <1>7. ASSUME NEW a \in Agreements, NEW p \in Charges, Charge(a, p) PROVE TypeOK'
    BY <1>7, ChargeFits
  <1>8. CASE UNCHANGED vars
    BY <1>8 DEF vars, TypeOK
  <1> QED BY <1>1, <1>2, <1>3, <1>4, <1>5, <1>6, <1>7, <1>8 DEF Next

\* The type is kept by every step: in particular the rows are always those of
\* the agreements there are, each once, and no agreement goes while a period
\* charged under it stays.
THEOREM TypeCorrect == Spec => []TypeOK
  <1>1. TypeOK /\ [Next]_vars => TypeOK'
    BY StepKeeps
  <1> QED BY <1>1, InitFits, PTL DEF Spec

\* What an entry is covered for, and its part of the charge, never depend on
\* which other entries are asked about with it (PeersAreEnough): those that
\* share a charged period with one asked about, which src/lib/server/valuation/
\* load.ts reads too, are all that could tell.
THEOREM CoverIsTheSameWhoeverAsks == Spec => []PeersAreEnough
  <1>1. TypeOK => PeersAreEnough
    BY ThePeersAreEnough
  <1> QED BY <1>1, TypeCorrect, PTL

\* A charged period's pool covers all the work that draws from it, or as much
\* of it as the pool holds, to the second (PoolIsDrawn).
THEOREM NoPoolIsOverdrawn == Spec => []PoolIsDrawn
  <1>1. TypeOK => PoolIsDrawn
    BY ThePoolIsDrawn
  <1> QED BY <1>1, TypeCorrect, PTL

\* Nothing is covered from a pool while work of an earlier day is not covered
\* in full, in whatever order the two were recorded (DrawnInOrder).
THEOREM EarlierWorkComesFirst == Spec => []DrawnInOrder
  <1>1. TypeOK => DrawnInOrder
    BY TheEarlierIsCovered
  <1> QED BY <1>1, TypeCorrect, PTL

\* The shares of a charge add up to it, but for half a unit of the currency
\* each, whatever the hours and heads it is divided by (ChargeIsSharedOut).
THEOREM NoChargeIsLost == Spec => []ChargeIsSharedOut
  <1>1. TypeOK => ChargeIsSharedOut
    BY TheChargeIsSharedOut
  <1> QED BY <1>1, TypeCorrect, PTL

\* An entry falls under its site's own agreement before the client's, and then
\* under the latest to start, in whatever order the rows are read
\* (ClosestAgreement).
THEOREM TheClosestAgreementIsHit == Spec => []ClosestAgreement
  <1>1. TypeOK => ClosestAgreement
    BY TheClosestIsFound
  <1> QED BY <1>1, TypeCorrect, PTL
-----------------------------------------------------------------------------
(* Payroll.  Whatever a payment's handler read may be stale by the time it *)
(* records; what counts is what Record finds.                              *)

USE KindsAssumption, OwnerAssumption, FiguresAssumption

Lone(S) == \A a, b \in S : a = b

\* There is one rate, one trip of a name, one payment of a uuid; and a payment
\* under way is owed one figure for a piece of work.
OneEach ==
    /\ Lone(rate)
    /\ \A t \in Trips : Lone(trip[t])
    /\ \A u \in Uuids : Lone(payments[u])
    /\ \A r \in Requests : \A post \in posted[r] : \A w \in Payable : Lone(post.owed[w])

IInv == PayTypeOK /\ OneEach /\ PaidOnce /\ ItemsAreOfPayments
-----------------------------------------------------------------------------
(* Types.                                                                  *)

LEMMA ReadPaidType ==
    ASSUME PayTypeOK, NEW post \in Post
    PROVE  [post EXCEPT !.stage = "paid", !.before = PaidTo(post)] \in Post
  <1>1. PaidTo(post) \in SUBSET Payable
    BY DEF PaidTo, Post
  <1>2. \A before \in SUBSET Payable :
          [post EXCEPT !.stage = "paid", !.before = before] \in Post
    BY DEF Post, Posts
  <1> QED BY <1>1, <1>2

LEMMA ReadWorkType ==
    ASSUME PayTypeOK, NEW post \in Post
    PROVE  [post EXCEPT !.stage = "work",
               !.owed = [w \in Payable |-> IF w \in Entries THEN EntryOwed(post, w) ELSE {}],
               !.drove = [t \in Trips |-> Drove(post, t)]] \in Post
  <1> DEFINE owed == [w \in Payable |-> IF w \in Entries THEN EntryOwed(post, w) ELSE {}]
             drove == [t \in Trips |-> Drove(post, t)]
  <1>1. \A e \in Entries : EntryOwed(post, e) \in SUBSET Figures
    BY DEF PayTypeOK, EntryOwed
  <1>2. owed \in [Payable -> SUBSET Figures]
    BY <1>1
  <1>3. \A t \in Trips : Drove(post, t) \in SUBSET Vehicles
    BY DEF PayTypeOK, Drove, Trip
  <1>4. drove \in [Trips -> SUBSET Vehicles]
    BY <1>3
  <1>5. \A o \in [Payable -> SUBSET Figures], d \in [Trips -> SUBSET Vehicles] :
          [post EXCEPT !.stage = "work", !.owed = o, !.drove = d] \in Post
    BY DEF Post, Posts
  <1> QED BY <1>2, <1>4, <1>5

LEMMA ReadLegsType ==
    ASSUME PayTypeOK, NEW post \in Post
    PROVE  [post EXCEPT !.stage = "owed", !.before = {}, !.drove = Untold,
               !.owed = [w \in Payable |->
                   IF w \in Trips
                   THEN IF post.drove[w] = {} THEN {} ELSE {x.legs : x \in trip[w]} \ {0}
                   ELSE post.owed[w]]] \in Post
  <1> DEFINE owed == [w \in Payable |->
                   IF w \in Trips
                   THEN IF post.drove[w] = {} THEN {} ELSE {x.legs : x \in trip[w]} \ {0}
                   ELSE post.owed[w]]
  <1>1. \A t \in Trips : {x.legs : x \in trip[t]} \in SUBSET Figures
    BY DEF PayTypeOK, Trip
  <1>2. \A w \in Payable : post.owed[w] \in SUBSET Figures
    BY DEF Post
  <1>3. owed \in [Payable -> SUBSET Figures]
    BY <1>1, <1>2
  <1>4. Untold \in [Trips -> SUBSET Vehicles]
    BY DEF Untold
  <1>5. \A o \in [Payable -> SUBSET Figures], d \in [Trips -> SUBSET Vehicles] :
          [post EXCEPT !.stage = "owed", !.before = {}, !.drove = d, !.owed = o] \in Post
    BY DEF Post, Posts
  <1> QED BY <1>3, <1>4, <1>5

LEMMA StepType ==
    ASSUME PayTypeOK, NEW r \in Requests, NEW post \in Post, Step(r, post)
    PROVE  posted' \in [Requests -> SUBSET Post]
  BY DEF PayTypeOK, Step

LEMMA AskType ==
    ASSUME PayTypeOK, NEW r \in Requests, NEW u \in Uuids, NEW p \in People,
           NEW covers \in SUBSET Payable, NEW correction \in SUBSET [of: Uuids, amount: Int],
           Ask(r, u, p, covers, correction)
    PROVE  posted' \in [Requests -> SUBSET Post]
  <1>1. Untold \in [Trips -> SUBSET Vehicles] /\ Nothing \in [Payable -> SUBSET Figures]
    BY DEF Untold, Nothing
  <1>2. [stage |-> "asked", uuid |-> u, user |-> p, covers |-> covers,
         correction |-> correction, before |-> {}, drove |-> Untold, owed |-> Nothing] \in Post
    BY <1>1 DEF Post, Posts
  <1> QED BY <1>2 DEF Ask, PayTypeOK

LEMMA RecordType ==
    ASSUME PayTypeOK, NEW r \in Requests, Record(r)
    PROVE  /\ payments' \in [Uuids -> SUBSET Payment]
           /\ items' \subseteq Item
           /\ corrections' \subseteq Correction
           /\ posted' \in [Requests -> SUBSET Post]
  <1>1. PICK post \in posted[r] : Record(r)!1!(post)
    BY DEF Record
  <1>2. post \in Post
    BY DEF PayTypeOK
  <1>3. post.uuid \in Uuids /\ [user |-> post.user] \in Payment
    BY <1>2 DEF Post, Payment
  <1>4. payments' \in [Uuids -> SUBSET Payment]
    BY <1>1, <1>3 DEF PayTypeOK
  <1>5. items' \subseteq Item
    BY <1>1 DEF RowsOf, PayTypeOK
  <1>6. \A c \in post.correction :
          [uuid |-> post.uuid, user |-> post.user, of |-> c.of, amount |-> c.amount] \in Correction
    BY <1>2 DEF Post, Correction
  <1>7. corrections' \subseteq Correction
    BY <1>1, <1>6 DEF PayTypeOK
  <1> QED BY <1>4, <1>5, <1>7 DEF Record, PayTypeOK

LEMMA TypeStep == PayTypeOK /\ [PayNext]_payVars => PayTypeOK'
  <1> SUFFICES ASSUME PayTypeOK, [PayNext]_payVars PROVE PayTypeOK'
    OBVIOUS
  <1>1. ASSUME NEW e \in Entries, NEW who \in SUBSET People,
               RepeatEntry(e, who) \/ \E team \in BOOLEAN : AddEntry(e, who, team)
        PROVE PayTypeOK'
    <2>1. CASE RepeatEntry(e, who)
      BY <2>1 DEF RepeatEntry, PayTypeOK, paid
    <2>2. CASE \E team \in BOOLEAN : AddEntry(e, who, team)
      BY <2>2 DEF AddEntry, PayTypeOK, paid
    <2> QED BY <1>1, <2>1, <2>2
  <1>2. ASSUME NEW t \in Trips, NEW v \in Vehicles, NEW legs \in Figures,
               RecordTrip(t, v, legs) \/ ChangeTrip(t, v, legs)
        PROVE PayTypeOK'
    <2>1. [vehicle |-> v, legs |-> legs] \in Trip
      BY DEF Trip
    <2> QED BY <1>2, <2>1 DEF RecordTrip, ChangeTrip, PayTypeOK, paid
  <1>3. ASSUME NEW x \in Rates, SetRate(x) PROVE PayTypeOK'
    BY <1>3 DEF SetRate, PayTypeOK, paid, Rates
  <1>4. ASSUME NEW c \in Removals, NEW w \in Payable, AskRemoval(c, w) PROVE PayTypeOK'
    BY <1>4 DEF AskRemoval, PayTypeOK, recorded, paid
  <1>5. ASSUME NEW c \in Removals, RemoveWork(c) PROVE PayTypeOK'
    BY <1>5 DEF RemoveWork, PayTypeOK, paid
  <1>6. ASSUME NEW c \in Removals, RefuseRemoval(c) PROVE PayTypeOK'
    BY <1>6 DEF RefuseRemoval, PayTypeOK, recorded, paid
  <1>7. ASSUME NEW r \in Requests, NEW u \in Uuids, NEW p \in People, NEW covers \in SUBSET Payable,
               NEW correction \in {{}} \cup {{[of |-> o, amount |-> 1]} : o \in Uuids},
               Ask(r, u, p, covers, correction)
        PROVE PayTypeOK'
    <2>1. correction \in SUBSET [of: Uuids, amount: Int]
      OBVIOUS
    <2> QED BY <1>7, <2>1, AskType DEF Ask, PayTypeOK, recorded, paid
  <1>8. ASSUME NEW r \in Requests, ReadPaid(r) PROVE PayTypeOK'
    BY <1>8, ReadPaidType, StepType DEF ReadPaid, PayTypeOK, recorded, paid
  <1>9. ASSUME NEW r \in Requests, ReadWork(r) PROVE PayTypeOK'
    BY <1>9, ReadWorkType, StepType DEF ReadWork, PayTypeOK, recorded, paid
  <1>10. ASSUME NEW r \in Requests, ReadLegs(r) PROVE PayTypeOK'
    BY <1>10, ReadLegsType, StepType DEF ReadLegs, PayTypeOK, recorded, paid
  <1>11. ASSUME NEW r \in Requests, Record(r) PROVE PayTypeOK'
    BY <1>11, RecordType DEF Record, PayTypeOK, recorded
  <1>12. ASSUME NEW r \in Requests, Answer(r) PROVE PayTypeOK'
    BY <1>12 DEF Answer, PayTypeOK, recorded, paid
  <1>13. CASE UNCHANGED payVars
    BY <1>13 DEF payVars, recorded, paid, PayTypeOK
  <1> QED
    BY <1>1, <1>2, <1>3, <1>4, <1>5, <1>6, <1>7, <1>8, <1>9, <1>10, <1>11, <1>12, <1>13 DEF PayNext

\* Every variable stays of its type: what is owed is figures, whoever reads it.
THEOREM PayTypeCorrect == PaySpec => []PayTypeOK
  <1>1. PayInit => PayTypeOK
    BY DEF PayInit, PayTypeOK, Rates
  <1> QED BY <1>1, TypeStep, PTL DEF PaySpec
-----------------------------------------------------------------------------
(* One figure for a piece of work.                                         *)

LEMMA OwedOnceStep ==
    ASSUME PayTypeOK, OneEach, [PayNext]_payVars,
           NEW r \in Requests, NEW post \in posted'[r], NEW w \in Payable
    PROVE  Lone(post.owed[w])
  <1>1. CASE post \in posted[r]
    BY <1>1 DEF OneEach
  <1>2. ASSUME NEW u \in Uuids, NEW p \in People, NEW covers \in SUBSET Payable,
               NEW correction, Ask(r, u, p, covers, correction)
        PROVE  Lone(post.owed[w])
    <2>1. post.owed = Nothing
      BY <1>2 DEF Ask, PayTypeOK
    <2> QED BY <2>1 DEF Nothing, Lone
  <1>3. ASSUME ReadPaid(r) PROVE Lone(post.owed[w])
    <2>1. PICK q \in posted[r] : ReadPaid(r)!1!(q)
      BY <1>3 DEF ReadPaid
    <2>2. q \in Post
      BY DEF PayTypeOK
    <2>3. post = [q EXCEPT !.stage = "paid", !.before = PaidTo(q)]
      BY <2>1 DEF Step, PayTypeOK
    <2>4. post.owed = q.owed
      BY <2>2, <2>3 DEF Post
    <2> QED BY <2>4 DEF OneEach
  <1>4. ASSUME ReadWork(r) PROVE Lone(post.owed[w])
    <2>1. PICK q \in posted[r] : ReadWork(r)!1!(q)
      BY <1>4 DEF ReadWork
    <2>2. q \in Post
      BY DEF PayTypeOK
    <2> DEFINE owed == [x \in Payable |-> IF x \in Entries THEN EntryOwed(q, x) ELSE {}]
    <2>3. post = [q EXCEPT !.stage = "work", !.owed = owed, !.drove = [t \in Trips |-> Drove(q, t)]]
      BY <2>1 DEF Step, PayTypeOK
    <2>4. post.owed = owed
      BY <2>2, <2>3 DEF Post
    <2>5. owed[w] \subseteq rate
      BY DEF EntryOwed
    <2> QED BY <2>4, <2>5 DEF OneEach, Lone
  <1>5. ASSUME ReadLegs(r) PROVE Lone(post.owed[w])
    <2>1. PICK q \in posted[r] : ReadLegs(r)!1!(q)
      BY <1>5 DEF ReadLegs
    <2>2. q \in Post
      BY DEF PayTypeOK
    <2> DEFINE owed == [x \in Payable |->
                   IF x \in Trips
                   THEN IF q.drove[x] = {} THEN {} ELSE {y.legs : y \in trip[x]} \ {0}
                   ELSE q.owed[x]]
    <2>3. post = [q EXCEPT !.stage = "owed", !.before = {}, !.drove = Untold, !.owed = owed]
      BY <2>1 DEF Step, PayTypeOK
    <2>4. post.owed = owed
      BY <2>2, <2>3 DEF Post
    <2>5. CASE w \in Trips
      <3>1. Lone({y.legs : y \in trip[w]})
        BY <2>5 DEF OneEach, Lone
      <3>2. owed[w] \subseteq {y.legs : y \in trip[w]}
        BY <2>5
      <3> QED BY <2>4, <3>1, <3>2 DEF Lone
    <2>6. CASE w \notin Trips
      <3>1. owed[w] = q.owed[w]
        BY <2>6
      <3> QED BY <2>4, <3>1 DEF OneEach
    <2> QED BY <2>5, <2>6
  <1>6. ASSUME post \notin posted[r]
        PROVE  \/ \E u \in Uuids, p \in People, covers \in SUBSET Payable :
                      \E correction : Ask(r, u, p, covers, correction)
               \/ ReadPaid(r) \/ ReadWork(r) \/ ReadLegs(r)
    <2>1. posted'[r] # posted[r] /\ posted'[r] # {}
      BY <1>6
    <2>2. \A q \in Requests : posted' = [posted EXCEPT ![q] = {}] => FALSE
      BY <2>1 DEF PayTypeOK
    <2>3. \A q \in Requests : \A x : posted' = [posted EXCEPT ![q] = x] => q = r
      BY <2>1 DEF PayTypeOK
    <2>4. posted' # posted
      BY <2>1
    <2>5. PICK q \in Requests :
             \/ \E u \in Uuids, p \in People, covers \in SUBSET Payable,
                   correction \in {{}} \cup {{[of |-> o, amount |-> 1]} : o \in Uuids} :
                    Ask(q, u, p, covers, correction)
             \/ ReadPaid(q) \/ ReadWork(q) \/ ReadLegs(q)
      BY <2>2, <2>4 DEF PayNext, payVars, AddEntry, RepeatEntry, RecordTrip, ChangeTrip, SetRate,
         AskRemoval, RemoveWork, RefuseRemoval, Record, Answer
    <2>6. q = r
      BY <2>3, <2>5 DEF Ask, ReadPaid, ReadWork, ReadLegs, Step
    <2> QED BY <2>5, <2>6
  <1> QED BY <1>1, <1>2, <1>3, <1>4, <1>5, <1>6

LEMMA OneEachStep == PayTypeOK /\ OneEach /\ [PayNext]_payVars => OneEach'
  <1> SUFFICES ASSUME PayTypeOK, OneEach, [PayNext]_payVars PROVE OneEach'
    OBVIOUS
  <1> DEFINE Rest == /\ Lone(rate')
                     /\ \A t \in Trips : Lone(trip'[t])
                     /\ \A u \in Uuids : Lone(payments'[u])
  <1>1. ASSUME UNCHANGED <<rate, trip, payments>> PROVE Rest
    BY <1>1 DEF OneEach
  <1>2. ASSUME NEW t \in Trips, NEW v \in Vehicles, NEW legs \in Figures,
               RecordTrip(t, v, legs) \/ ChangeTrip(t, v, legs)
        PROVE Rest
    <2>1. trip' = [trip EXCEPT ![t] = {[vehicle |-> v, legs |-> legs]}]
      BY <1>2 DEF RecordTrip, ChangeTrip
    <2>2. \A s \in Trips : Lone(trip'[s])
      BY <2>1 DEF OneEach, PayTypeOK, Lone
    <2>3. UNCHANGED <<rate, payments>>
      BY <1>2 DEF RecordTrip, ChangeTrip, paid
    <2> QED BY <2>2, <2>3 DEF OneEach
  <1>3. ASSUME NEW x \in Rates, SetRate(x) PROVE Rest
    <2>1. Lone(rate') /\ UNCHANGED <<trip, payments>>
      BY <1>3 DEF SetRate, Rates, Lone, paid
    <2> QED BY <2>1 DEF OneEach
  <1>4. ASSUME NEW c \in Removals, RemoveWork(c) PROVE Rest
    <2>1. PICK w \in removing[c] : RemoveWork(c)!1!(w)
      BY <1>4 DEF RemoveWork
    <2>2. \A t \in Trips : Lone(trip'[t])
      BY <2>1 DEF OneEach, Lone
    <2>3. UNCHANGED <<rate, payments>>
      BY <1>4 DEF RemoveWork, paid
    <2> QED BY <2>2, <2>3 DEF OneEach
  <1>5. ASSUME NEW r \in Requests, Record(r) PROVE Rest
    <2>1. PICK post \in posted[r] : Record(r)!1!(post)
      BY <1>5 DEF Record
    <2>2. \A u \in Uuids : Lone(payments'[u])
      BY <2>1 DEF OneEach, PayTypeOK, Lone
    <2>3. UNCHANGED <<rate, trip>>
      BY <1>5 DEF Record, recorded
    <2> QED BY <2>2, <2>3 DEF OneEach
  <1>6. \/ UNCHANGED <<rate, trip, payments>>
        \/ \E t \in Trips, v \in Vehicles, legs \in Figures :
               RecordTrip(t, v, legs) \/ ChangeTrip(t, v, legs)
        \/ \E x \in Rates : SetRate(x)
        \/ \E c \in Removals : RemoveWork(c)
        \/ \E r \in Requests : Record(r)
    BY DEF PayNext, payVars, recorded, paid, AddEntry, RepeatEntry, AskRemoval, RefuseRemoval, Ask, ReadPaid,
       ReadWork, ReadLegs, Answer
  <1>7. Rest
    BY <1>1, <1>2, <1>3, <1>4, <1>5, <1>6
  <1> QED BY <1>7, OwedOnceStep DEF OneEach
-----------------------------------------------------------------------------
(* What is paid.                                                           *)

\* A step leaves what is paid as it was, or records a payment.
LEMMA PaidByRecording ==
    ASSUME [PayNext]_payVars
    PROVE  UNCHANGED paid \/ \E r \in Requests : Record(r)
  BY DEF PayNext, payVars, recorded, paid, AddEntry, RepeatEntry, RecordTrip, ChangeTrip, SetRate,
     AskRemoval, RemoveWork, RefuseRemoval, Ask, ReadPaid, ReadWork, ReadLegs, Answer

\* A step leaves the trips a payment covers as they were, and takes nobody off
\* the entries it covers.
LEMMA CoveredStays ==
    ASSUME PayTypeOK, ItemsAreOfPayments, [PayNext]_payVars, NEW i \in items
    PROVE  /\ i.work \in Entries => crew[i.work] \subseteq crew'[i.work]
           /\ i.work \in Entries \ teams => crew'[i.work] = crew[i.work]
           /\ i.work \in Trips => trip'[i.work] = trip[i.work]
  <1>1. Present(i.work) /\ PaidFor(i.work)
    BY DEF ItemsAreOfPayments, PaidFor
  <1>2. CASE UNCHANGED <<crew, trip>>
    BY <1>2
  <1>3. ASSUME NEW e \in Entries, NEW who \in SUBSET People,
               RepeatEntry(e, who) \/ \E team \in BOOLEAN : AddEntry(e, who, team)
        PROVE  /\ i.work \in Entries => crew[i.work] \subseteq crew'[i.work]
               /\ i.work \in Entries \ teams => crew'[i.work] = crew[i.work]
               /\ trip' = trip
    <2>1. CASE RepeatEntry(e, who)
      BY <2>1 DEF RepeatEntry, PayTypeOK
    <2>2. CASE \E team \in BOOLEAN : AddEntry(e, who, team)
      BY <1>1, <2>2 DEF AddEntry, Present, PayTypeOK
    <2> QED BY <1>3, <2>1, <2>2
  <1>4. ASSUME NEW t \in Trips, NEW v \in Vehicles, NEW legs \in Figures,
               RecordTrip(t, v, legs) \/ ChangeTrip(t, v, legs)
        PROVE  i.work \in Trips => trip'[i.work] = trip[i.work]
    <2>1. CASE RecordTrip(t, v, legs)
      BY <1>1, <2>1 DEF RecordTrip, Present, PayTypeOK
    <2>2. CASE ChangeTrip(t, v, legs)
      BY <1>1, <2>2 DEF ChangeTrip, Settled, PayTypeOK
    <2> QED BY <1>4, <2>1, <2>2
  <1>5. ASSUME NEW t \in Trips, NEW v \in Vehicles, NEW legs \in Figures,
               RecordTrip(t, v, legs) \/ ChangeTrip(t, v, legs)
        PROVE  crew' = crew
    BY <1>5 DEF RecordTrip, ChangeTrip
  <1>6. ASSUME NEW c \in Removals, RemoveWork(c)
        PROVE  /\ i.work \in Entries => crew[i.work] \subseteq crew'[i.work]
               /\ i.work \in Entries \ teams => crew'[i.work] = crew[i.work]
               /\ i.work \in Trips => trip'[i.work] = trip[i.work]
    <2>1. PICK w \in removing[c] : RemoveWork(c)!1!(w)
      BY <1>6 DEF RemoveWork
    <2>2. i.work # w
      BY <1>1, <2>1 DEF Restricted
    <2> QED BY <2>1, <2>2
  <1>7. \/ UNCHANGED <<crew, trip>>
        \/ \E e \in Entries, who \in SUBSET People :
               RepeatEntry(e, who) \/ \E team \in BOOLEAN : AddEntry(e, who, team)
        \/ \E t \in Trips, v \in Vehicles, legs \in Figures :
               RecordTrip(t, v, legs) \/ ChangeTrip(t, v, legs)
        \/ \E c \in Removals : RemoveWork(c)
    BY DEF PayNext, payVars, recorded, SetRate, AskRemoval, RefuseRemoval, Ask, ReadPaid, ReadWork,
       ReadLegs, Record, Answer
  <1> QED BY <1>2, <1>3, <1>4, <1>5, <1>6, <1>7

LEMMA ThereStays ==
    ASSUME PayTypeOK, ItemsAreOfPayments, [PayNext]_payVars, NEW i \in items
    PROVE  Present(i.work)'
  <1>1. Present(i.work) /\ i.work \in Payable
    BY DEF ItemsAreOfPayments, PayTypeOK, Item
  <1> QED BY <1>1, CoveredStays DEF Present, Payable

LEMMA OfPaymentsStep ==
    PayTypeOK /\ OneEach /\ ItemsAreOfPayments /\ [PayNext]_payVars => ItemsAreOfPayments'
  <1> SUFFICES ASSUME PayTypeOK, OneEach, ItemsAreOfPayments, [PayNext]_payVars
               PROVE  ItemsAreOfPayments'
    OBVIOUS
  <1>1. CASE UNCHANGED paid
    <2>1. UNCHANGED <<payments, items, corrections>>
      BY <1>1 DEF paid
    <2> QED BY <2>1, ThereStays DEF ItemsAreOfPayments
  <1>2. ASSUME NEW r \in Requests, Record(r) PROVE ItemsAreOfPayments'
    <2>1. PICK post \in posted[r] : Record(r)!1!(post)
      BY <1>2 DEF Record
    <2>2. post \in Post /\ post.uuid \in Uuids /\ post.user \in People
      BY DEF PayTypeOK, Post
    <2>3. payments[post.uuid] = {} /\ payments'[post.uuid] = {[user |-> post.user]}
      BY <2>1, <2>2 DEF Taken, PayTypeOK
    <2>4. \A u \in Uuids : payments[u] # {} => payments'[u] = payments[u]
      BY <2>1, <2>3 DEF PayTypeOK
    <2>5. \A i \in items \cup corrections : i.uuid \in Uuids
      BY DEF PayTypeOK, Item, Correction
    <2>6. \A i \in items \cup corrections : payments'[i.uuid] = {[user |-> i.user]}
      BY <2>4, <2>5 DEF ItemsAreOfPayments
    <2>7. \A i \in RowsOf(post) : i.uuid = post.uuid /\ i.user = post.user /\ i.work \in post.covers
      BY DEF RowsOf
    <2> DEFINE covering == {[uuid |-> post.uuid, user |-> post.user, of |-> c.of, amount |-> c.amount] :
                            c \in post.correction}
    <2>8. \A i \in covering : i.uuid = post.uuid /\ i.user = post.user
      OBVIOUS
    <2>9. items' = items \cup RowsOf(post) /\ corrections' = corrections \cup covering
      BY <2>1
    <2>10. \A i \in (items \cup corrections)' : payments'[i.uuid] = {[user |-> i.user]}
      BY <2>3, <2>6, <2>7, <2>8, <2>9
    <2>11. UNCHANGED recorded
      BY <1>2 DEF Record
    <2>12. \A i \in items' : Present(i.work)'
      BY <2>1, <2>7, <2>9, <2>11 DEF ItemsAreOfPayments, Present, StillThere, recorded
    <2>13. \A c \in corrections : payments'[c.of] = {[user |-> c.user]}
      BY <2>4 DEF ItemsAreOfPayments, PayTypeOK, Correction
    <2>14. ASSUME NEW c \in post.correction PROVE payments'[c.of] = {[user |-> post.user]}
      <3>1. c.of \in Uuids
        BY <2>2 DEF Post
      <3>2. PICK p \in payments[c.of] : p.user = post.user
        BY <2>1 DEF Theirs
      <3>3. p = [user |-> post.user]
        BY <3>1, <3>2 DEF PayTypeOK, Payment
      <3>4. payments[c.of] = {p}
        BY <3>1, <3>2 DEF OneEach, Lone
      <3> QED BY <2>4, <3>1, <3>3, <3>4
    <2>15. \A c \in covering : payments'[c.of] = {[user |-> c.user]}
      BY <2>14
    <2> QED BY <2>9, <2>10, <2>12, <2>13, <2>15 DEF ItemsAreOfPayments
  <1> QED BY <1>1, <1>2, PaidByRecording

LEMMA PaidOnceStep == PayTypeOK /\ OneEach /\ PaidOnce /\ [PayNext]_payVars => PaidOnce'
  <1> SUFFICES ASSUME PayTypeOK, OneEach, PaidOnce, [PayNext]_payVars,
                      NEW i \in items', NEW j \in items', i.user = j.user, i.work = j.work
               PROVE  i = j
    BY DEF PaidOnce
  <1>1. CASE UNCHANGED paid
    BY <1>1 DEF paid, PaidOnce
  <1>2. ASSUME NEW r \in Requests, Record(r) PROVE i = j
    <2>1. PICK post \in posted[r] : Record(r)!1!(post)
      BY <1>2 DEF Record
    <2>2. items' = items \cup RowsOf(post)
      BY <2>1
    <2>3. \A k \in items, l \in RowsOf(post) : ~(k.user = l.user /\ k.work = l.work)
      BY <2>1 DEF PaidMeanwhile, RowsOf
    <2>4. CASE i \in items /\ j \in items
      BY <2>4 DEF PaidOnce
    <2>5. CASE i \in RowsOf(post) /\ j \in RowsOf(post)
      <3>1. i \in Item /\ j \in Item /\ i.uuid = j.uuid
        BY <2>5 DEF RowsOf
      <3>2. i.work \in Payable
        BY <3>1 DEF Item
      <3>3. i.amount = j.amount
        BY <2>5, <3>2 DEF RowsOf, OneEach, Lone
      <3> QED BY <3>1, <3>3 DEF Item
    <2> QED BY <2>2, <2>3, <2>4, <2>5
  <1> QED BY <1>1, <1>2, PaidByRecording

LEMMA Inductive ==
    /\ PayInit => IInv
    /\ IInv /\ [PayNext]_payVars => IInv'
  <1>1. PayInit => IInv
    BY DEF PayInit, IInv, PayTypeOK, OneEach, Lone, Rates, PaidOnce, ItemsAreOfPayments
  <1> QED BY <1>1, TypeStep, OneEachStep, OfPaymentsStep, PaidOnceStep DEF IInv

\* A piece of work is paid to a person once, however many pages record it and
\* whatever is changed between what they read and what they write.
THEOREM NobodyIsPaidTwice == PaySpec => []PaidOnce
  <1> QED BY Inductive, PTL DEF PaySpec, IInv

\* Items and corrections are of payments recorded, to their own person, and
\* the work an item covers is there.
THEOREM ItemsArePaid == PaySpec => []ItemsAreOfPayments
  <1> QED BY Inductive, PTL DEF PaySpec, IInv

\* What a payment covers is not removed, nobody comes off an entry it covers,
\* and a trip it covers is not changed.
THEOREM PaidWorkStays == PaySpec => PaidStays
  <1>1. IInv /\ [PayNext]_payVars =>
            [\A i \in items : /\ i.work \in Entries => crew[i.work] \subseteq crew'[i.work]
                              /\ i.work \in Entries \ teams => crew'[i.work] = crew[i.work]
                              /\ i.work \in Trips => trip'[i.work] = trip[i.work]]_payVars
    BY CoveredStays DEF IInv
  <1> QED BY <1>1, Inductive, PTL DEF PaySpec, PaidStays
=============================================================================
