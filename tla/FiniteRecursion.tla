--------------------------- MODULE FiniteRecursion ---------------------------
(***************************************************************************)
(* Recursive functions over finite sets, for the proofs about models that  *)
(* have them.  A recursive function is one that solves its equation, if    *)
(* there is one: nothing is known of it before a solution is.  Solutions   *)
(* exist, and what holds at the base and is handed on holds everywhere, by *)
(* the same argument: of the sets for which it is not so yet, a smallest   *)
(* one would be empty.                                                     *)
(***************************************************************************)
EXTENDS Naturals, FiniteSetTheorems, WellFoundedInduction, TLAPS

----------------------------------------------------------------------------
(* Smallest and least *)

\* A family of parts of a finite set has one that contains no other.
LEMMA SmallestOf ==
    ASSUME NEW D, IsFiniteSet(D), NEW Sets, Sets \subseteq SUBSET D, Sets # {}
    PROVE  \E R \in Sets : \A T \in Sets : T \subseteq R => T = R
<1>1. IsWellFoundedOn(StrictSubsetOrdering(D), SUBSET D)
  BY FS_StrictSubsetOrderingWellFounded, FS_FiniteSubsetsOfFinite
<1>2. PICK R \in Sets : \A T \in Sets : ~(<<T, R>> \in StrictSubsetOrdering(D))
  BY <1>1, WFMin, Zenon
<1>3. QED
  BY <1>2 DEF StrictSubsetOrdering

\* A finite family of numbers that is not empty has a least member.
LEMMA LeastOf ==
    ASSUME NEW K \in SUBSET Nat, IsFiniteSet(K), K # {}
    PROVE  \E m \in K : \A n \in K : m <= n
<1> DEFINE UpTo(k) == {n \in K : n <= k}
           Families == {UpTo(k) : k \in K}
<1>1. Families \subseteq SUBSET K /\ Families # {}
  OBVIOUS
<1> HIDE DEF Families
<1>2. IsWellFoundedOn(StrictSubsetOrdering(K), SUBSET K)
  BY FS_StrictSubsetOrderingWellFounded, FS_FiniteSubsetsOfFinite
<1>3. PICK least \in Families : \A other \in Families : ~(<<other, least>> \in StrictSubsetOrdering(K))
  BY <1>1, <1>2, WFMin, Zenon
<1>4. PICK m \in K : least = UpTo(m)
  BY DEF Families
<1>5. ASSUME NEW n \in K, n < m PROVE FALSE
  <2>1. UpTo(n) \in Families /\ UpTo(n) \subseteq K /\ UpTo(m) \subseteq K
    BY DEF Families
  <2>2. UpTo(n) \subseteq UpTo(m) /\ m \in UpTo(m) /\ m \notin UpTo(n)
    <3>1. m \in Nat /\ n \in Nat
      BY <1>5
    <3>2. \A x \in Nat : x <= n => x <= m
      BY <1>5, <3>1
    <3>3. UpTo(n) \subseteq UpTo(m)
      BY <3>2
    <3>4. m \in UpTo(m) /\ m \notin UpTo(n)
      BY <1>5, <3>1
    <3>5. QED
      BY <3>3, <3>4
  <2>3. UpTo(n) # UpTo(m)
    BY <2>2
  <2> HIDE DEF UpTo
  <2>4. <<UpTo(n), UpTo(m)>> \in StrictSubsetOrdering(K)
    BY <2>1, <2>2, <2>3 DEF StrictSubsetOrdering
  <2>5. QED
    BY <1>3, <1>4, <2>1, <2>4
<1>6. QED
  BY <1>5

----------------------------------------------------------------------------
(* Recursion along Prev, down to Base *)

\* Whatever Prev is followed from, it arrives in Base.
Arrives(D, Base, Prev) ==
    /\ \A d \in D \ Base : Prev[d] \in D
    /\ \A S \in SUBSET D : S # {} => \E d \in S : d \in Base \/ Prev[d] \notin S

Follow(Base, Prev, start, step, f, d) == IF d \in Base THEN start[d] ELSE step[<<d, f[Prev[d]]>>]

Solvable(D, Base, Prev, V, start, step) ==
    \E f \in [D -> V] : \A d \in D : f[d] = Follow(Base, Prev, start, step, f, d)

\* A function with values in V that starts and steps so exists.
LEMMA RecursionExists ==
    ASSUME NEW D, IsFiniteSet(D), NEW Base, NEW Prev, Arrives(D, Base, Prev),
           NEW V, NEW start \in [D -> V], NEW step \in [D \X V -> V]
    PROVE  Solvable(D, Base, Prev, V, start, step)
<1> DEFINE Solves(E, f) == \A d \in E : f[d] = Follow(Base, Prev, start, step, f, d)
           Solved(E) == /\ \A d \in E \ Base : Prev[d] \in E
                        /\ \E f \in [E -> V] : Solves(E, f)
           Rests == {R \in SUBSET D : Solved(D \ R)}
<1>1. Rests \subseteq SUBSET D /\ Rests # {}
  <2>1. D \ D = {}
    OBVIOUS
  <2>2. \E f \in [{} -> V] : Solves({}, f)
    <3>1. [d \in {} |-> 0] \in [{} -> V]
      OBVIOUS
    <3>2. QED
      BY <3>1
  <2>3. Solved(D \ D)
    BY <2>1, <2>2
  <2> HIDE DEF Solved
  <2>4. QED
    BY <2>3
<1> HIDE DEF Rests
<1>3. PICK R \in Rests : \A other \in Rests : other \subseteq R => other = R
  BY <1>1, SmallestOf
<1>4. R \in SUBSET D /\ Solved(D \ R)
  BY <1>3 DEF Rests
<1>5. R = {}
  <2> SUFFICES ASSUME R # {} PROVE FALSE
    OBVIOUS
  <2>1. PICK d \in R : d \in Base \/ Prev[d] \notin R
    BY <1>4 DEF Arrives
  <2> DEFINE E == D \ R
             more == D \ (R \ {d})
  <2>2. PICK f \in [E -> V] : Solves(E, f)
    BY <1>4
  <2>3. d \in D /\ d \notin E /\ more = E \cup {d} /\ more \subseteq D
    BY <1>4, <2>1
  <2>4. d \notin Base => Prev[d] \in E
    <3>1. d \notin Base => Prev[d] \in D
      BY <2>3 DEF Arrives
    <3>2. QED
      BY <2>1, <3>1
  <2>5. \A e \in more \ Base : Prev[e] \in E
    BY <1>4, <2>3, <2>4
  <2> DEFINE new == IF d \in Base THEN start[d] ELSE step[<<d, f[Prev[d]]>>]
             g == [e \in more |-> IF e = d THEN new ELSE f[e]]
  <2>6. new \in V
    BY <2>2, <2>3, <2>4
  <2>7. g \in [more -> V]
    BY <2>3, <2>6
  <2>8. ASSUME NEW e \in more PROVE g[e] = Follow(Base, Prev, start, step, g, e)
    <3>1. e \notin Base => g[Prev[e]] = f[Prev[e]]
      BY <2>3, <2>5
    <3>2. CASE e = d
      BY <2>8, <3>1, <3>2 DEF Follow
    <3>3. CASE e # d
      BY <2>2, <2>3, <3>1, <3>3 DEF Follow
    <3>4. QED
      BY <3>2, <3>3
  <2>9. Solved(more)
    BY <2>5, <2>7, <2>8, <2>3
  <2>10. R \ {d} \in Rests
    BY <1>4, <2>9 DEF Rests
  <2>11. QED
    BY <1>3, <2>1, <2>10
<1>6. D \ R = D
  BY <1>5
<1>7. QED
  BY <1>4, <1>6 DEF Solvable

\* What holds at d once it holds at Prev[d], or d is in Base, holds everywhere.
LEMMA InductionAlong ==
    ASSUME NEW D, NEW Base, NEW Prev, Arrives(D, Base, Prev), NEW Good,
           \A d \in D : d \in Base \/ Prev[d] \in Good => d \in Good
    PROVE  D \subseteq Good
<1> SUFFICES ASSUME D \ Good # {} PROVE FALSE
  OBVIOUS
<1>1. PICK d \in D \ Good : d \in Base \/ Prev[d] \notin D \ Good
  BY DEF Arrives
<1>2. QED
  BY <1>1 DEF Arrives

----------------------------------------------------------------------------
(* Counting up to a number *)

Down == [i \in Nat |-> i - 1]

LEMMA CountingArrives ==
    ASSUME NEW n \in Nat
    PROVE  IsFiniteSet(0 .. n) /\ Arrives(0 .. n, {0}, Down)
<1>1. IsFiniteSet(0 .. n)
  BY FS_Interval
<1>2. ASSUME NEW d \in (0 .. n) \ {0} PROVE Down[d] \in 0 .. n
  BY DEF Down
<1>3. ASSUME NEW S \in SUBSET (0 .. n), S # {} PROVE \E d \in S : d \in {0} \/ Down[d] \notin S
  <2>1. S \in SUBSET Nat /\ IsFiniteSet(S)
    <3>1. \A i \in 0 .. n : i \in Nat
      OBVIOUS
    <3>2. IsFiniteSet(S)
      BY <1>1, <1>3, FS_Subset, Zenon
    <3>3. QED
      BY <3>1, <3>2
  <2>2. PICK m \in S : \A i \in S : m <= i
    BY <1>3, <2>1, LeastOf
  <2>3. m # 0 => ~(m <= Down[m])
    BY <2>1 DEF Down
  <2>4. QED
    BY <2>2, <2>3
<1>4. QED
  BY <1>1, <1>2, <1>3 DEF Arrives
=============================================================================
