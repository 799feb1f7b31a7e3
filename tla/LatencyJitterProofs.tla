------------------------- MODULE LatencyJitterProofs -------------------------
(***************************************************************************)
(* For every window size, clock width and set of intervals: the ring       *)
(* buffer of LatencyJitter implements a sliding window over the last K     *)
(* intervals, and the score computed from its slots is that of the window. *)
(* First come facts about sums, maxima and minima over finite sets, which  *)
(* SensorProofs needs too.                                                 *)
(***************************************************************************)
EXTENDS LatencyJitter, SequenceTheorems, FiniteSetTheorems, WellFoundedInduction, TLAPS

(***************************************************************************)
(* Sums over a finite set.                                                 *)
(***************************************************************************)
\* A set with v[x] elements for each x of s.
Marks(v, s) == {p \in s \X Nat : 1 <= p[2] /\ p[2] <= v[p[1]]}

\* What one x contributes.
LEMMA MarksOfOne ==
  ASSUME NEW x, NEW n \in Nat
  PROVE  IsFiniteSet({x} \X (1..n)) /\ Cardinality({x} \X (1..n)) = n
<1>1. IsFiniteSet({x}) /\ Cardinality({x}) = 1  BY FS_Singleton
<1>2. IsFiniteSet(1..n) /\ Cardinality(1..n) = n  BY FS_Interval
<1> DEFINE I == 1..n
           X == {x}
<1> HIDE DEF I, X
<1>3. IsFiniteSet(X \X I) /\ Cardinality(X \X I) = Cardinality(X) * Cardinality(I)
  <2>1. IsFiniteSet(X) /\ IsFiniteSet(I)  BY <1>1, <1>2 DEF X, I
  <2> QED  BY <2>1, FS_Product, Zenon
<1>4. Cardinality(X) = 1 /\ Cardinality(I) = n  BY <1>1, <1>2 DEF X, I
<1>5. Cardinality(X \X I) = 1 * n  BY <1>3, <1>4
<1> QED  BY <1>3, <1>5 DEF X, I

\* There are finitely many.
LEMMA MarksFinite ==
  ASSUME NEW D, IsFiniteSet(D), NEW v \in [D -> Nat]
  PROVE  IsFiniteSet(Marks(v, D))
<1> DEFINE f == [x \in D |-> {x} \X (1..v[x])]
           T == {f[x] : x \in D}
<1>1. f \in Surjection(D, T)  BY DEF Surjection
<1>2. IsFiniteSet(T)  BY <1>1, FS_Surjection
<1>3. \A x \in D : IsFiniteSet(f[x])
  <2> SUFFICES ASSUME NEW x \in D PROVE IsFiniteSet({x} \X (1..v[x]))  OBVIOUS
  <2>1. v[x] \in Nat  OBVIOUS
  <2> QED  BY <2>1, MarksOfOne
<1>4. IsFiniteSet(UNION T)  BY <1>2, <1>3, FS_UNION
<1>5. Marks(v, D) \subseteq UNION T
  <2> SUFFICES ASSUME NEW p \in Marks(v, D) PROVE p \in UNION T  OBVIOUS
  <2>1. p[1] \in D /\ p[2] \in 1..v[p[1]] /\ p = <<p[1], p[2]>>  BY DEF Marks
  <2>2. p \in f[p[1]]  BY <2>1
  <2> QED  BY <2>1, <2>2
<1> QED  BY <1>4, <1>5, FS_Subset

\* Taking x out of s takes v[x] of them away.
LEMMA MarksRemove ==
  ASSUME NEW D, IsFiniteSet(D), NEW v \in [D -> Nat], NEW s \in SUBSET D, NEW x \in s
  PROVE  Cardinality(Marks(v, s)) = v[x] + Cardinality(Marks(v, s \ {x}))
<1> DEFINE A == Marks(v, s \ {x})
           B == {x} \X (1..v[x])
<1>0. v[x] \in Nat  OBVIOUS
<1>1. Marks(v, s) = A \cup B
  <2>1. ASSUME NEW p \in Marks(v, s) PROVE p \in A \cup B
    BY <2>1, <1>0 DEF Marks
  <2>2. ASSUME NEW p \in A \cup B PROVE p \in Marks(v, s)
    BY <2>2, <1>0 DEF Marks
  <2> QED  BY <2>1, <2>2
<1>2. A \cap B = {}  BY DEF Marks
<1>3. IsFiniteSet(B) /\ Cardinality(B) = v[x]  BY <1>0, MarksOfOne
<1>4. IsFiniteSet(A)
  <2>1. A \subseteq Marks(v, D)  BY DEF Marks
  <2> QED  BY <2>1, MarksFinite, FS_Subset
<1> HIDE DEF A, B
<1>5. Cardinality(A \cup B) = Cardinality(A) + Cardinality(B) - Cardinality(A \cap B)
  BY <1>3, <1>4, FS_Union
<1>6. Cardinality(A) \in Nat /\ Cardinality(A \cap B) = 0
  BY <1>2, <1>4, FS_CardinalityType, FS_EmptySet
<1> QED  BY <1>0, <1>1, <1>3, <1>5, <1>6 DEF A

\* The recursive function behind SumFunction counts them: the recursion has a
\* solution, the count itself, and a least set on which another solution
\* differed from it could not be empty nor, without one element, agree.
LEMMA SumIsCount ==
  ASSUME NEW D, IsFiniteSet(D), NEW v \in [D -> Nat]
  PROVE  SumFunction(v) = Cardinality(Marks(v, D))
<1> DEFINE Pick(s) == CHOOSE x \in s : TRUE
           IsSum(i) == i = [s \in SUBSET D |->
                               IF s = {} THEN 0 ELSE v[Pick(s)] + i[s \ {Pick(s)}]]
           marked == [s \in SUBSET D |-> Cardinality(Marks(v, s))]
<1>1. \A s \in SUBSET D : s # {} => Pick(s) \in s  OBVIOUS
<1>2. marked[{}] = 0
  <2>1. Marks(v, {}) = {}  BY DEF Marks
  <2> QED  BY <2>1, FS_EmptySet
<1>3. \A s \in SUBSET D : \A x \in s : marked[s] = v[x] + marked[s \ {x}]
  <2> SUFFICES ASSUME NEW s \in SUBSET D, NEW x \in s
               PROVE  marked[s] = v[x] + marked[s \ {x}]
    OBVIOUS
  <2>1. s \ {x} \in SUBSET D  OBVIOUS
  <2>2. Cardinality(Marks(v, s)) = v[x] + Cardinality(Marks(v, s \ {x}))  BY MarksRemove
  <2> QED  BY <2>1, <2>2
<1>4. PICK iter : IsSum(iter) /\ SumFunction(v) = iter[D]
  <2>1. IsSum(marked)
    <3> HIDE DEF Pick
    <3>1. \A s \in SUBSET D :
            marked[s] = IF s = {} THEN 0 ELSE v[Pick(s)] + marked[s \ {Pick(s)}]
      BY <1>1, <1>2, <1>3
    <3> QED  BY <3>1
  <2> HIDE DEF marked
  <2>2. DOMAIN v = D  OBVIOUS
  <2>3. SumFunction(v) = (CHOOSE i : IsSum(i))[D]
    BY <2>2, Zenon DEF SumFunction, SumFunctionOnSet, FoldFunctionOnSet, MapThenFoldSet
  <2>4. IsSum(CHOOSE i : IsSum(i))  BY <2>1, Zenon
  <2> QED  BY <2>3, <2>4, Zenon
<1> DEFINE Bad == {s \in SUBSET D : iter[s] # marked[s]}
<1> SUFFICES ASSUME Bad # {} PROVE FALSE
  <2>1. D \in SUBSET D  OBVIOUS
  <2> QED  BY <1>4, <2>1
<1>5. PICK s \in Bad : \A t \in Bad : <<t, s>> \notin StrictSubsetOrdering(D)
  <2>1. IsWellFoundedOn(StrictSubsetOrdering(D), SUBSET D)
    BY FS_StrictSubsetOrderingWellFounded, FS_FiniteSubsetsOfFinite
  <2>2. Bad \subseteq SUBSET D  OBVIOUS
  <2> HIDE DEF Bad
  <2> QED  BY <2>1, <2>2, WFMin
<1>6. s # {}
  BY <1>2, <1>4
<1>7. Pick(s) \in s  BY <1>1, <1>6
<1>8. s \ {Pick(s)} \in SUBSET D /\ s \ {Pick(s)} \notin Bad
  <2> DEFINE t == s \ {Pick(s)}
  <2>1. t \in SUBSET D /\ t \subseteq s /\ t # s  BY <1>7
  <2> HIDE DEF t, Bad
  <2>2. <<t, s>> \in StrictSubsetOrdering(D)  BY <2>1 DEF StrictSubsetOrdering, Bad
  <2> QED  BY <1>5, <2>1, <2>2 DEF t
<1>9. iter[s] = v[Pick(s)] + iter[s \ {Pick(s)}]
  <2> HIDE DEF Pick
  <2> QED  BY <1>4, <1>6
<1>10. marked[s] = v[Pick(s)] + marked[s \ {Pick(s)}]  BY <1>3, <1>7
<1> HIDE DEF marked, Pick
<1> QED  BY <1>8, <1>9, <1>10

\* A sum of naturals is a natural.
LEMMA SumType ==
  ASSUME NEW D, IsFiniteSet(D), NEW v \in [D -> Nat]
  PROVE  SumFunction(v) \in Nat
  BY SumIsCount, MarksFinite, FS_CardinalityType

\* Greater terms make no smaller sum.
LEMMA SumMonotone ==
  ASSUME NEW D, IsFiniteSet(D), NEW v \in [D -> Nat], NEW w \in [D -> Nat],
         \A x \in D : v[x] <= w[x]
  PROVE  SumFunction(v) <= SumFunction(w)
<1>1. Marks(v, D) \subseteq Marks(w, D)
  <2> SUFFICES ASSUME NEW p \in Marks(v, D) PROVE p \in Marks(w, D)  OBVIOUS
  <2>1. p \in D \X Nat /\ 1 <= p[2] /\ p[2] <= v[p[1]]  BY DEF Marks
  <2>2. p[1] \in D /\ p[2] \in Nat /\ v[p[1]] \in Nat /\ w[p[1]] \in Nat /\ v[p[1]] <= w[p[1]]
    BY <2>1
  <2>3. p[2] <= w[p[1]]  BY <2>1, <2>2
  <2> QED  BY <2>1, <2>3 DEF Marks
<1> QED  BY <1>1, SumIsCount, MarksFinite, FS_Subset

\* n for each element.
LEMMA Rectangle ==
  ASSUME NEW D, IsFiniteSet(D), NEW n \in Nat
  PROVE  IsFiniteSet(D \X (1..n)) /\ Cardinality(D \X (1..n)) = Cardinality(D) * n
<1>1. IsFiniteSet(1..n) /\ Cardinality(1..n) = n  BY FS_Interval
<1> QED  BY <1>1, FS_Product

\* A sum is at least that many times a bound on its terms from below.
LEMMA SumAtLeast ==
  ASSUME NEW D, IsFiniteSet(D), NEW v \in [D -> Nat], NEW lo \in Nat, \A x \in D : lo <= v[x]
  PROVE  Cardinality(D) * lo <= SumFunction(v)
<1>1. D \X (1..lo) \subseteq Marks(v, D)
  <2> SUFFICES ASSUME NEW p \in D \X (1..lo) PROVE p \in Marks(v, D)  OBVIOUS
  <2>1. p[1] \in D /\ v[p[1]] \in Nat /\ lo <= v[p[1]] /\ p[2] \in 1..lo  OBVIOUS
  <2>2. p \in D \X Nat /\ 1 <= p[2] /\ p[2] <= v[p[1]]  BY <2>1
  <2> QED  BY <2>2 DEF Marks
<1>2. IsFiniteSet(Marks(v, D)) /\ SumFunction(v) = Cardinality(Marks(v, D))
  BY MarksFinite, SumIsCount
<1>3. Cardinality(D \X (1..lo)) <= SumFunction(v)  BY <1>1, <1>2, FS_Subset
<1> QED  BY <1>3, Rectangle

\* And at most that many times a bound from above.
LEMMA SumAtMost ==
  ASSUME NEW D, IsFiniteSet(D), NEW v \in [D -> Nat], NEW hi \in Nat, \A x \in D : v[x] <= hi
  PROVE  SumFunction(v) <= Cardinality(D) * hi
<1>1. Marks(v, D) \subseteq D \X (1..hi)
  <2> SUFFICES ASSUME NEW p \in Marks(v, D) PROVE p \in D \X (1..hi)  OBVIOUS
  <2>1. p \in D \X Nat /\ 1 <= p[2] /\ p[2] <= v[p[1]]  BY DEF Marks
  <2>2. p[1] \in D /\ v[p[1]] \in Nat /\ v[p[1]] <= hi /\ p[2] \in Nat  BY <2>1
  <2>3. p[2] \in 1..hi  BY <2>1, <2>2
  <2> QED  BY <2>1, <2>3
<1>2. SumFunction(v) <= Cardinality(D \X (1..hi))
  BY <1>1, SumIsCount, Rectangle, FS_Subset
<1> QED  BY <1>2, Rectangle

\* So their rounded average lies between two of them.
LEMMA AverageBetween ==
  ASSUME NEW D, IsFiniteSet(D), D # {}, NEW v \in [D -> Nat]
  PROVE  LET avg == SumFunction(v) \div Cardinality(D)
         IN  /\ avg \in Nat
             /\ \E x \in D : v[x] <= avg
             /\ \E x \in D : avg <= v[x]
<1> DEFINE sum == SumFunction(v)
           n == Cardinality(D)
           avg == sum \div n
<1>1. sum \in Nat  BY SumType
<1>2. n \in Nat /\ n # 0  BY FS_CardinalityType, FS_EmptySet
<1>3. /\ \A k \in Nat : (\A x \in D : k <= v[x]) => n * k <= sum
      /\ \A k \in Nat : (\A x \in D : v[x] <= k) => sum <= n * k
  BY SumAtLeast, SumAtMost
<1> HIDE DEF sum, n
<1>4. avg \in Nat /\ n * avg <= sum /\ sum < n * (avg + 1)
  <2>1. avg \in Int /\ sum % n \in 0..(n - 1)  BY <1>1, <1>2
  <2>2. sum = n * avg + (sum % n)  BY <1>1, <1>2
  <2>3. n * (avg + 1) = n * avg + n /\ n * avg \in Int  BY <1>2, <2>1
  <2>4. n * avg <= sum /\ sum < n * (avg + 1)  BY <1>1, <1>2, <2>1, <2>2, <2>3
  <2>5. avg >= 0  BY <1>1, <1>2
  <2> QED  BY <2>1, <2>4, <2>5
<1> HIDE DEF avg
<1>5. \E x \in D : v[x] <= avg
  <2> SUFFICES ASSUME \A x \in D : ~(v[x] <= avg) PROVE FALSE  OBVIOUS
  <2>1. \A x \in D : avg + 1 <= v[x]  BY <1>4
  <2>2. n * (avg + 1) <= sum  BY <1>3, <1>4, <2>1
  <2> QED  BY <1>1, <1>2, <1>4, <2>2
<1>6. \E x \in D : avg <= v[x]
  <2> SUFFICES ASSUME \A x \in D : ~(avg <= v[x]) PROVE FALSE  OBVIOUS
  <2>1. \A x \in D : v[x] <= avg - 1  BY <1>4
  <2>2. avg - 1 \in Nat  BY <1>4, <2>1
  <2>3. sum <= n * (avg - 1)  BY <1>3, <2>1, <2>2
  <2>4. n * (avg - 1) = n * avg - n /\ n * avg \in Nat  BY <1>2, <1>4
  <2> QED  BY <1>1, <1>2, <1>4, <2>3, <2>4
<1> QED  BY <1>4, <1>5, <1>6 DEF avg, sum, n

\* The sum of sums is the sum of both: a least set that contradicted this would
\* not be empty, and would contradict it without any one of its elements.
LEMMA SumAdds ==
  ASSUME NEW D, IsFiniteSet(D), NEW v \in [D -> Nat], NEW w \in [D -> Nat]
  PROVE  SumFunction([x \in D |-> v[x] + w[x]]) = SumFunction(v) + SumFunction(w)
<1> DEFINE z == [x \in D |-> v[x] + w[x]]
           Bad == {s \in SUBSET D : Cardinality(Marks(z, s))
                                    # Cardinality(Marks(v, s)) + Cardinality(Marks(w, s))}
<1>1. z \in [D -> Nat]  OBVIOUS
<1> SUFFICES ASSUME Bad # {} PROVE FALSE
  <2>1. D \in SUBSET D  OBVIOUS
  <2>2. D \notin Bad => Cardinality(Marks(z, D))
                        = Cardinality(Marks(v, D)) + Cardinality(Marks(w, D))
    BY <2>1
  <2> HIDE DEF Bad, z
  <2>3. SumFunction(z) = SumFunction(v) + SumFunction(w) \/ D \in Bad
    BY <1>1, <2>2, SumIsCount
  <2> QED  BY <2>3 DEF z
<1>2. PICK s \in Bad : \A t \in Bad : <<t, s>> \notin StrictSubsetOrdering(D)
  <2>1. IsWellFoundedOn(StrictSubsetOrdering(D), SUBSET D)
    BY FS_StrictSubsetOrderingWellFounded, FS_FiniteSubsetsOfFinite
  <2>2. Bad \subseteq SUBSET D  OBVIOUS
  <2> HIDE DEF Bad
  <2> QED  BY <2>1, <2>2, WFMin
<1> HIDE DEF z
<1>3. s # {}
  <2>1. Marks(z, {}) = {} /\ Marks(v, {}) = {} /\ Marks(w, {}) = {}  BY DEF Marks
  <2>2. Cardinality({}) = 0 /\ 0 = 0 + 0  BY FS_EmptySet
  <2>3. Cardinality(Marks(z, {})) = Cardinality(Marks(v, {})) + Cardinality(Marks(w, {}))
    BY <2>1, <2>2
  <2> QED  BY <2>3
<1>4. PICK x \in s : TRUE  BY <1>3
<1> DEFINE t == s \ {x}
<1>5. t \in SUBSET D /\ t \notin Bad
  <2>1. t \in SUBSET D /\ t \subseteq s /\ t # s  BY <1>4
  <2> HIDE DEF t
  <2>2. <<t, s>> \in StrictSubsetOrdering(D)  BY <2>1 DEF StrictSubsetOrdering
  <2> HIDE DEF Bad
  <2> QED  BY <1>2, <2>1, <2>2
<1>6. /\ Cardinality(Marks(z, s)) = z[x] + Cardinality(Marks(z, t))
      /\ Cardinality(Marks(v, s)) = v[x] + Cardinality(Marks(v, t))
      /\ Cardinality(Marks(w, s)) = w[x] + Cardinality(Marks(w, t))
  BY <1>1, MarksRemove
<1>7. /\ z[x] = v[x] + w[x] /\ v[x] \in Nat /\ w[x] \in Nat  BY DEF z
<1>8. /\ Cardinality(Marks(z, t)) \in Nat /\ Cardinality(Marks(v, t)) \in Nat
      /\ Cardinality(Marks(w, t)) \in Nat
  <2>1. \A y \in [D -> Nat] : Cardinality(Marks(y, t)) \in Nat
    <3> SUFFICES ASSUME NEW y \in [D -> Nat] PROVE Cardinality(Marks(y, t)) \in Nat
      OBVIOUS
    <3>1. Marks(y, t) \subseteq Marks(y, D)  BY <1>5 DEF Marks
    <3> QED  BY <3>1, MarksFinite, FS_Subset, FS_CardinalityType
  <2> QED  BY <1>1, <2>1
<1>9. Cardinality(Marks(z, t)) = Cardinality(Marks(v, t)) + Cardinality(Marks(w, t))
  BY <1>5
<1> HIDE DEF t
<1> QED  BY <1>6, <1>7, <1>8, <1>9

\* The sum over one element.
LEMMA SumOfOne ==
  ASSUME NEW x, NEW v \in [{x} -> Nat]
  PROVE  SumFunction(v) = v[x]
<1>1. IsFiniteSet({x})  BY FS_Singleton
<1>2. Cardinality(Marks(v, {x})) = v[x] + Cardinality(Marks(v, {x} \ {x}))
  BY <1>1, MarksRemove
<1>3. Marks(v, {x} \ {x}) = {}  BY DEF Marks
<1> QED  BY <1>1, <1>2, <1>3, SumIsCount, FS_EmptySet

-----------------------------------------------------------------------------
(***************************************************************************)
(* The greatest element of a finite set.                                   *)
(***************************************************************************)
\* The values of a function on a finite set are finitely many.
LEMMA ImageFinite ==
  ASSUME NEW D, IsFiniteSet(D), NEW v, DOMAIN v = D
  PROVE  IsFiniteSet({v[x] : x \in D})
<1> DEFINE T == {v[x] : x \in D}
           w == [x \in D |-> v[x]]
<1>1. w \in Surjection(D, T)  BY DEF Surjection
<1> QED  BY <1>1, FS_Surjection

\* A finite set of integers that is not empty has a greatest element: the least
\* set without one would have one after all, any of its elements or the greatest
\* of the others.
LEMMA MaxOfFinite ==
  ASSUME NEW T \in SUBSET Int, IsFiniteSet(T), T # {}
  PROVE  Max(T) \in T /\ \A y \in T : Max(T) >= y
<1> DEFINE Top(s, m) == m \in s /\ \A y \in s : m >= y
           Bad == {s \in SUBSET T : s # {} /\ ~\E m : Top(s, m)}
<1>1. Bad = {}
  <2> SUFFICES ASSUME Bad # {} PROVE FALSE  OBVIOUS
  <2>1. PICK s \in Bad : \A t \in Bad : <<t, s>> \notin StrictSubsetOrdering(T)
    <3>1. IsWellFoundedOn(StrictSubsetOrdering(T), SUBSET T)
      BY FS_StrictSubsetOrderingWellFounded, FS_FiniteSubsetsOfFinite
    <3>2. Bad \subseteq SUBSET T  OBVIOUS
    <3> HIDE DEF Bad
    <3> QED  BY <3>1, <3>2, WFMin
  <2>2. PICK x \in s : x \in Int  OBVIOUS
  <2> DEFINE t == s \ {x}
  <2>3. t \notin Bad
    <3>1. t \in SUBSET T /\ t \subseteq s /\ t # s  OBVIOUS
    <3> HIDE DEF t
    <3>2. <<t, s>> \in StrictSubsetOrdering(T)  BY <3>1 DEF StrictSubsetOrdering
    <3> HIDE DEF Bad
    <3> QED  BY <2>1, <3>2
  <2>4. CASE t = {}
    <3>1. Top(s, x)  BY <2>2, <2>4
    <3> QED  BY <3>1
  <2>5. CASE t # {}
    <3>1. PICK m : Top(t, m)  BY <2>3, <2>5
    <3>2. m \in Int /\ \A y \in s : y \in Int  BY <3>1
    <3>3. CASE m >= x
      <4>1. Top(s, m)  BY <3>1, <3>2, <3>3
      <4> QED  BY <4>1
    <3>4. CASE x >= m
      <4>1. Top(s, x)  BY <2>2, <3>1, <3>2, <3>4
      <4> QED  BY <4>1
    <3> QED  BY <2>2, <3>2, <3>3, <3>4
  <2> QED  BY <2>4, <2>5
<1>2. \E m \in T : \A y \in T : m >= y  BY <1>1
<1> QED  BY <1>2 DEF Max

\* Multiplication by a natural keeps the order.
LEMMA TimesMonotone ==
  ASSUME NEW k \in Nat, NEW a \in Nat, NEW c \in Nat, a <= c
  PROVE  k * a <= k * c /\ k * a \in Nat /\ k * c \in Nat
<1>1. PICK e \in Nat : c = a + e
  <2>1. c - a \in Nat /\ c = a + (c - a)  OBVIOUS
  <2> QED  BY <2>1
<1>2. k * c = k * a + k * e /\ k * a \in Nat /\ k * e \in Nat  BY <1>1
<1> QED  BY <1>2

\* The lesser of two naturals.
LEMMA MinOfTwo ==
  ASSUME NEW a \in Nat, NEW c \in Nat
  PROVE  /\ Min({a, c}) \in Nat /\ Min({a, c}) <= a /\ Min({a, c}) <= c
<1>1. \E m \in {a, c} : \A y \in {a, c} : m <= y
  <2>1. CASE a <= c  BY <2>1
  <2>2. CASE c <= a  BY <2>2
  <2> QED  BY <2>1, <2>2
<1>2. Min({a, c}) \in {a, c} /\ \A y \in {a, c} : Min({a, c}) <= y  BY <1>1 DEF Min
<1> QED  BY <1>2

-----------------------------------------------------------------------------
(***************************************************************************)
(* The ring buffer.                                                        *)
(***************************************************************************)
\* Remainders near the divisor.
LEMMA ModSmall ==
  ASSUME NEW W \in Nat \ {0}, NEW a \in 0..(W - 1)
  PROVE  a % W = a
  OBVIOUS

\* One wrap-around upwards: a sum below twice the modulus.
LEMMA ModOnce ==
  ASSUME NEW W \in Nat \ {0}, NEW a \in W..(2 * W - 1)
  PROVE  a % W = a - W
  OBVIOUS

\* One wrap-around downwards: an unsigned subtraction that underflows.
LEMMA ModNegative ==
  ASSUME NEW W \in Nat \ {0}, NEW a \in (-W)..(-1)
  PROVE  a % W = a + W
  OBVIOUS

\* The remainder of a sum of two timestamps, wrapped or not.
LEMMA ModCases ==
  ASSUME NEW W \in Nat \ {0}, NEW a \in 0..(2 * W - 1)
  PROVE  a % W = IF a < W THEN a ELSE a - W
<1>1. CASE a < W
  BY <1>1, ModSmall
<1>2. CASE a >= W
  <2>1. a \in W..(2 * W - 1)
    BY <1>2
  <2>2. a % W = a - W
    BY <2>1, ModOnce
  <2> QED
    BY <1>2, <2>2
<1> QED
  BY <1>1, <1>2

\* Reading a full ring from the slot after n shifts it by one; the last slot
\* read is n itself.
LEMMA Rotation ==
  ASSUME NEW W \in Nat \ {0}, NEW n \in 0..(W - 1), NEW j \in 1..W
  PROVE  LET m == IF n + 1 < W THEN n + 1 ELSE 0
         IN  /\ (m + j - 1) % W = IF j < W THEN (n + j) % W ELSE n
             /\ j < W => (n + j) % W \in 0..(W - 1) /\ (n + j) % W # n
<1> DEFINE m == IF n + 1 < W THEN n + 1 ELSE 0
<1>1. m + j - 1 \in 0..(2 * W - 1) /\ n + j \in 0..(2 * W - 1)
  OBVIOUS
<1>2. PICK a \in 0..(2 * W - 1) : a = m + j - 1
  BY <1>1
<1>3. PICK b \in 0..(2 * W - 1) : b = n + j
  BY <1>1
<1>4. a % W = (IF a < W THEN a ELSE a - W) /\ b % W = (IF b < W THEN b ELSE b - W)
  BY ModCases
<1> HIDE DEF m
<1>5. m = IF n + 1 < W THEN n + 1 ELSE 0
  BY DEF m
<1>6. /\ (m + j - 1) % W = IF j < W THEN (n + j) % W ELSE n
      /\ j < W => (n + j) % W \in 0..(W - 1) /\ (n + j) % W # n
  BY <1>2, <1>3, <1>4, <1>5
<1> QED
  BY <1>6 DEF m

\* Unsigned subtraction recovers the interval across the clock's wrap-around.
LEMMA WrappedDifference ==
  ASSUME NEW W \in Nat \ {0}, NEW p \in 0..(W - 1), NEW d \in 0..(W - 1)
  PROVE  /\ (p + d) % W \in 0..(W - 1)
         /\ (((p + d) % W) - p) % W = d
<1>1. CASE p + d < W
  <2>1. (p + d) % W = p + d
    BY <1>1, ModSmall
  <2> QED
    BY <1>1, <2>1, ModSmall
<1>2. CASE p + d >= W
  <2>1. (p + d) % W = p + d - W
    <3>1. p + d \in W..(2 * W - 1)
      BY <1>2
    <3> QED
      BY <3>1, ModOnce
  <2>2. (d - W) % W = d
    BY ModNegative
  <2> QED
    BY <1>2, <2>1, <2>2
<1> QED
  BY <1>1, <1>2

-----------------------------------------------------------------------------

\* The buffer fills from slot 0 before it starts to overwrite.
RingInv ==
  /\ intervals_ns \in [0..(K - 1) -> 0..(Wrap - 1)]
  /\ count \in 0..K
  /\ next \in 0..(K - 1)
  /\ count < K => next = count
  /\ prev_timestamp \in 0..(Wrap - 1)

\* The ring buffer starts empty.
LEMMA InitRing == JitterInit => RingInv
  BY JitterAssumption DEF JitterInit, RingInv

\* A sample() that records, as it acts on the buffer.
LEMMA SampleRecords ==
  ASSUME RingInv, NEW d \in Intervals, SampleJitter((prev_timestamp + d) % Wrap)
  PROVE  /\ prev_timestamp' \in 0..(Wrap - 1)
         /\ \/ /\ intervals_ns' = [intervals_ns EXCEPT ![next] = d]
               /\ next' = Advance(next)
               /\ count' = CountAfter
            \/ UNCHANGED <<intervals_ns, next, count>>
<1>1. d \in 0..(Wrap - 1)
  BY JitterAssumption
<1>2. /\ (prev_timestamp + d) % Wrap \in 0..(Wrap - 1)
      /\ (((prev_timestamp + d) % Wrap) - prev_timestamp) % Wrap = d
  BY <1>1, WrappedDifference, JitterAssumption DEF RingInv
<1> QED
  BY <1>2 DEF SampleJitter, Record, Elapsed

\* next_ advances by one slot or returns to the first.
LEMMA AdvanceCases ==
  ASSUME NEW i \in 0..(K - 1)
  PROVE  Advance(i) = IF i + 1 < K THEN i + 1 ELSE 0
<1>1. CASE i + 1 < K
  BY <1>1, ModSmall, JitterAssumption DEF Advance
<1>2. CASE i + 1 = K
  BY <1>2, ModOnce, JitterAssumption DEF Advance
<1> QED
  BY <1>1, <1>2, JitterAssumption

\* sample() keeps the ring buffer's shape: count_ and next_ agree.
LEMMA NextRing == RingInv /\ [JitterNext]_jitterVars => RingInv'
<1> SUFFICES ASSUME RingInv, [JitterNext]_jitterVars PROVE RingInv'
  OBVIOUS
<1>1. ASSUME NEW d \in Intervals, SampleJitter((prev_timestamp + d) % Wrap)
      PROVE  RingInv'
  <2>1. prev_timestamp' \in 0..(Wrap - 1)
    BY <1>1, SampleRecords
  <2>2. CASE UNCHANGED <<intervals_ns, next, count>>
    BY <2>1, <2>2 DEF RingInv
  <2>3. CASE /\ intervals_ns' = [intervals_ns EXCEPT ![next] = d]
             /\ next' = Advance(next)
             /\ count' = CountAfter
    <3>1. Advance(next) = IF next + 1 < K THEN next + 1 ELSE 0
      BY AdvanceCases DEF RingInv
    <3>2. intervals_ns' \in [0..(K - 1) -> 0..(Wrap - 1)]
      BY <2>3, JitterAssumption DEF RingInv
    <3> QED
      BY <2>1, <2>3, <3>1, <3>2, JitterAssumption DEF RingInv, CountAfter
  <2> QED
    BY <1>1, <2>2, <2>3, SampleRecords
<1>2. CASE UNCHANGED jitterVars
  BY <1>2 DEF jitterVars, RingInv
<1> QED
  BY <1>1, <1>2 DEF JitterNext

-----------------------------------------------------------------------------

\* While the buffer fills, recording appends.
LEMMA FillingAppends ==
  ASSUME RingInv, NEW d \in Intervals, count < K,
         intervals_ns' = [intervals_ns EXCEPT ![next] = d],
         next' = Advance(next), count' = CountAfter
  PROVE  Window' = Append(Window, d)
<1> USE JitterAssumption DEF RingInv
<1>1. next = count /\ count' = count + 1 /\ Oldest = 0
  BY DEF CountAfter, Oldest
<1>2. Oldest' = 0
  <2>1. next' = IF next + 1 < K THEN next + 1 ELSE 0
    BY AdvanceCases
  <2> QED
    BY <1>1, <2>1 DEF Oldest
<1>3. \A j \in 1..(count + 1) : (0 + j - 1) % K = j - 1
  <2> SUFFICES ASSUME NEW j \in 1..(count + 1) PROVE (0 + j - 1) % K = j - 1
    OBVIOUS
  <2>1. 0 + j - 1 = j - 1 /\ j - 1 \in 0..(K - 1)
    OBVIOUS
  <2> QED
    BY <2>1, ModSmall
<1>4. Window = [j \in 1..count |-> intervals_ns[j - 1]]
  BY <1>1, <1>3 DEF Window
<1>5. Window' = [j \in 1..(count + 1) |-> intervals_ns'[j - 1]]
  BY <1>1, <1>2, <1>3 DEF Window
<1>6. \A j \in 1..(count + 1) : intervals_ns'[j - 1] = IF j <= count THEN intervals_ns[j - 1] ELSE d
  BY <1>1
<1>7. Append(Window, d) = [j \in 1..(count + 1) |-> IF j <= count THEN intervals_ns[j - 1] ELSE d]
  BY <1>4
<1> QED
  BY <1>5, <1>6, <1>7

\* Dropping the oldest value and appending one, element by element.
LEMMA ShiftSequence ==
  \A w \in Seq(0..(Wrap - 1)) : \A x \in 0..(Wrap - 1) :
    Len(w) = K => Append(Tail(w), x) = [j \in 1..K |-> IF j < K THEN w[j + 1] ELSE x]
<1> SUFFICES ASSUME NEW w \in Seq(0..(Wrap - 1)), NEW x \in 0..(Wrap - 1), Len(w) = K
             PROVE  Append(Tail(w), x) = [j \in 1..K |-> IF j < K THEN w[j + 1] ELSE x]
  OBVIOUS
<1> DEFINE V == 0..(Wrap - 1)
<1> HIDE DEF V
<1>1. K \in Nat \ {0} /\ w \in Seq(V) /\ x \in V
  BY JitterAssumption DEF V
<1>2. /\ Tail(w) \in Seq(V) /\ Len(Tail(w)) = K - 1
      /\ \A j \in 1..(K - 1) : Tail(w)[j] = w[j + 1]
  BY <1>1
<1>3. /\ Append(Tail(w), x) \in Seq(V) /\ Len(Append(Tail(w), x)) = K
      /\ \A j \in 1..K : Append(Tail(w), x)[j] = IF j < K THEN w[j + 1] ELSE x
  BY <1>1, <1>2
<1>4. Append(Tail(w), x) \in [1..K -> V]
  BY <1>3, LenProperties
<1> QED
  BY <1>3, <1>4

\* Once it is full, recording overwrites the oldest interval.
LEMMA FullShifts ==
  ASSUME RingInv, NEW d \in Intervals, count = K,
         intervals_ns' = [intervals_ns EXCEPT ![next] = d],
         next' = Advance(next), count' = CountAfter
  PROVE  Window' = Append(Tail(Window), d)
<1> USE JitterAssumption DEF RingInv
<1> DEFINE At(j) == (next + j) % K
<1>1. count' = K /\ Oldest = next /\ Oldest' = next'
  BY DEF CountAfter, Oldest
<1>2. next' = IF next + 1 < K THEN next + 1 ELSE 0
  BY AdvanceCases
<1>3. \A j \in 1..K : /\ (next' + j - 1) % K = IF j < K THEN At(j) ELSE next
                      /\ j < K => At(j) \in 0..(K - 1) /\ At(j) # next
  <2>1. ASSUME NEW j \in 1..K
        PROVE  /\ ((IF next + 1 < K THEN next + 1 ELSE 0) + j - 1) % K
                    = IF j < K THEN At(j) ELSE next
               /\ j < K => At(j) \in 0..(K - 1) /\ At(j) # next
    BY Rotation
  <2> QED
    BY <1>2, <2>1
<1>5. \A j \in 1..K : intervals_ns'[(next' + j - 1) % K] = IF j < K THEN intervals_ns[At(j)] ELSE d
  BY <1>3
<1>6. Window' = [j \in 1..K |-> IF j < K THEN intervals_ns[At(j)] ELSE d]
  BY <1>1, <1>5 DEF Window
<1>7. Window = [j \in 1..K |-> intervals_ns[(next + j - 1) % K]]
  BY <1>1 DEF Window
<1> HIDE DEF At
<1>8. Len(Window) = K /\ \A j \in 1..(K - 1) : Window[j + 1] = intervals_ns[At(j)]
  <2>1. \A j \in 1..(K - 1) : Window[j + 1] = intervals_ns[(next + (j + 1) - 1) % K]
    BY <1>7
  <2>2. \A j \in 1..(K - 1) : next + (j + 1) - 1 = next + j
    OBVIOUS
  <2>3. Len(Window) = K
    BY <1>7
  <2> QED
    BY <2>1, <2>2, <2>3 DEF At
<1>9. Window \in Seq(0..(Wrap - 1)) /\ d \in 0..(Wrap - 1)
  <2>1. \A j \in 1..K : (next + j - 1) % K \in 0..(K - 1)
    OBVIOUS
  <2> QED
    BY <1>7, <2>1
<1>10. Append(Tail(Window), d) = [j \in 1..K |-> IF j < K THEN intervals_ns[At(j)] ELSE d]
  <2>1. Append(Tail(Window), d) = [j \in 1..K |-> IF j < K THEN Window[j + 1] ELSE d]
    <3>1. Len(Window) = K
      BY <1>8
    <3> QED
      BY <1>9, <3>1, ShiftSequence
  <2> QED
    BY <1>8, <2>1
<1> QED
  BY <1>6, <1>10

\* The ring buffer of LatencyJitter::sample() always holds exactly the last
\* kWindow intervals, oldest first, whatever the window size and clock width.
THEOREM RingRefinement == JitterSpec => ImplementsSlidingWindow
<1>1. JitterInit => Ring!Init
  BY JitterAssumption DEF JitterInit, Ring!Init, Window
<1>2. RingInv /\ [JitterNext]_jitterVars => [Ring!Next]_Window
  <2> SUFFICES ASSUME RingInv, [JitterNext]_jitterVars PROVE [Ring!Next]_Window
    OBVIOUS
  <2>1. ASSUME NEW d \in Intervals, SampleJitter((prev_timestamp + d) % Wrap)
        PROVE  [Ring!Next]_Window
    <3>1. CASE UNCHANGED <<intervals_ns, next, count>>
      BY <3>1 DEF Window, Oldest
    <3>2. CASE /\ intervals_ns' = [intervals_ns EXCEPT ![next] = d]
               /\ next' = Advance(next)
               /\ count' = CountAfter
      <4>1. Len(Window) = count
        BY DEF Window, RingInv
      <4>2. CASE count < K
        BY <3>2, <4>1, <4>2, FillingAppends DEF Ring!Push, Ring!Next
      <4>3. CASE count = K
        <5>1. ~(Len(Window) < K)
          BY <4>1, <4>3, JitterAssumption
        <5> QED
          BY <3>2, <4>3, <5>1, FullShifts DEF Ring!Push, Ring!Next
      <4> QED
        BY <4>2, <4>3, JitterAssumption DEF RingInv
    <3> QED
      BY <2>1, <3>1, <3>2, SampleRecords
  <2>2. CASE UNCHANGED jitterVars
    BY <2>2 DEF jitterVars, Window, Oldest
  <2> QED
    BY <2>1, <2>2 DEF JitterNext
<1> QED
  BY <1>1, <1>2, InitRing, NextRing, PTL DEF JitterSpec, ImplementsSlidingWindow, Ring!Spec

-----------------------------------------------------------------------------
(***************************************************************************)
(* The score.                                                              *)
(***************************************************************************)
\* A sum does not depend on the order of its terms.
LEMMA SumReordered ==
  ASSUME NEW D, IsFiniteSet(D), NEW E, IsFiniteSet(E), NEW g \in Bijection(D, E),
         NEW v \in [D -> Nat], NEW w \in [E -> Nat], \A x \in D : v[x] = w[g[x]]
  PROVE  SumFunction(v) = SumFunction(w)
<1> DEFINE A == Marks(v, D)
           B == Marks(w, E)
           h == [p \in A |-> <<g[p[1]], p[2]>>]
<1>1. /\ g \in [D -> E] /\ \A x, y \in D : g[x] = g[y] => x = y
      /\ \A z \in E : \E x \in D : g[x] = z
  BY DEF Bijection, Injection, Surjection, IsInjective
<1>2. \A p \in A : p[1] \in D /\ p[2] \in Nat /\ p = <<p[1], p[2]>>
                   /\ 1 <= p[2] /\ p[2] <= v[p[1]]
  BY DEF Marks
<1>3. ASSUME NEW p \in A PROVE h[p] \in B
  <2>1. g[p[1]] \in E /\ p[2] \in Nat /\ 1 <= p[2] /\ p[2] <= w[g[p[1]]]  BY <1>1, <1>2
  <2> QED  BY <2>1 DEF Marks
<1>4. ASSUME NEW p \in A, NEW q \in A, h[p] = h[q] PROVE p = q
  <2>1. g[p[1]] = g[q[1]] /\ p[2] = q[2]  BY <1>4
  <2>2. p[1] = q[1]  BY <1>1, <1>2, <2>1
  <2> QED  BY <1>2, <2>1, <2>2
<1>5. ASSUME NEW q \in B PROVE \E p \in A : h[p] = q
  <2>1. q[1] \in E /\ q[2] \in Nat /\ q = <<q[1], q[2]>> /\ 1 <= q[2] /\ q[2] <= w[q[1]]
    BY DEF Marks
  <2>2. PICK x \in D : g[x] = q[1]  BY <1>1, <2>1
  <2>3. <<x, q[2]>> \in A  BY <2>1, <2>2 DEF Marks
  <2>4. h[<<x, q[2]>>] = <<g[x], q[2]>>  BY <2>3
  <2> QED  BY <2>1, <2>2, <2>3, <2>4
<1>6. h \in Bijection(A, B)
  <2>1. h \in [A -> B]  BY <1>3
  <2> QED  BY <1>4, <1>5, <2>1 DEF Bijection, Injection, Surjection, IsInjective
<1>7. IsFiniteSet(A)  BY MarksFinite
<1> HIDE DEF A, B, h
<1>8. Cardinality(A) = Cardinality(B)  BY <1>6, <1>7, FS_Bijection DEF ExistsBijection
<1> QED  BY <1>8, SumIsCount DEF A, B

\* An integer converted to float is an integer.
LEMMA FloatType ==
  ASSUME NEW x \in Nat
  PROVE  Float(x) \in Nat
<1> DEFINE small == {w \in Ulps : Mantissa * w <= x}
           v == [w \in small |-> 2 * w]
           S == {1} \cup {2 * u : u \in small}
<1>1. IsFiniteSet(small)  BY JitterAssumption, FS_Subset
<1>2. {v[u] : u \in small} = {2 * u : u \in small}  OBVIOUS
<1>3. IsFiniteSet({2 * u : u \in small})
  <2>1. DOMAIN v = small  OBVIOUS
  <2> HIDE DEF small, v
  <2> QED  BY <1>1, <1>2, <2>1, ImageFinite
<1>4. IsFiniteSet(S)  BY <1>3, FS_Singleton, FS_Union
<1>5. S \in SUBSET (Nat \ {0})  BY JitterAssumption
<1>6. Ulp(x) = Max(S)  BY DEF Ulp
<1> HIDE DEF S
<1>7. Ulp(x) \in Nat \ {0}
  <2>1. S # {}  BY DEF S
  <2>2. S \in SUBSET Int  BY <1>5
  <2> QED  BY <1>4, <1>5, <1>6, <2>1, <2>2, MaxOfFinite
<1> DEFINE u == Ulp(x)
           q == x \div u
<1> HIDE DEF u
<1>8. u \in Nat \ {0}  BY <1>7 DEF u
<1>9. q \in Nat  BY <1>8
<1> HIDE DEF q
<1>10. u * q \in Nat /\ u * (q + 1) \in Nat  BY <1>8, <1>9
<1>11. Float(x) \in {u * (q + 1), u * q}  BY DEF Float, u, q
<1> QED  BY <1>10, <1>11

\* The window read from its oldest slot on is the buffer in another order.
LEMMA WindowReorders ==
  ASSUME RingInv
  PROVE  \E g \in Bijection(1..count, 0..(count - 1)) :
            \A j \in 1..count : Window[j] = intervals_ns[g[j]]
<1> USE JitterAssumption DEF RingInv
<1> DEFINE At(j) == IF count < K THEN j - 1
                    ELSE IF next + j - 1 < K THEN next + j - 1 ELSE next + j - 1 - K
           g == [j \in 1..count |-> At(j)]
<1>1. ASSUME NEW j \in 1..count PROVE (Oldest + j - 1) % K = At(j)
  <2>1. CASE count < K
    <3>1. Oldest + j - 1 = j - 1 /\ j - 1 \in 0..(K - 1)  BY <2>1 DEF Oldest
    <3> QED  BY <2>1, <3>1, ModSmall
  <2>2. CASE count = K
    <3>1. Oldest = next  BY <2>2 DEF Oldest
    <3>2. PICK a \in 0..(2 * K - 1) : a = next + j - 1
      <4>1. next + j - 1 \in 0..(2 * K - 1)  BY <2>2
      <4> QED  BY <4>1
    <3>3. a % K = IF a < K THEN a ELSE a - K  BY ModCases
    <3>4. At(j) = IF a < K THEN a ELSE a - K  BY <2>2, <3>2
    <3> QED  BY <3>1, <3>2, <3>3, <3>4
  <2> QED  BY <2>1, <2>2
<1>2. g \in [1..count -> 0..(count - 1)]  OBVIOUS
<1>3. \A i, j \in 1..count : g[i] = g[j] => i = j  OBVIOUS
<1>4. ASSUME NEW s \in 0..(count - 1) PROVE \E j \in 1..count : g[j] = s
  <2>1. CASE count < K
    <3>1. s + 1 \in 1..count /\ g[s + 1] = s  BY <2>1
    <3> QED  BY <3>1
  <2>2. CASE count = K /\ s >= next
    <3>1. s - next + 1 \in 1..count /\ g[s - next + 1] = s  BY <2>2
    <3> QED  BY <3>1
  <2>3. CASE count = K /\ s < next
    <3>1. s - next + K + 1 \in 1..count /\ g[s - next + K + 1] = s  BY <2>3
    <3> QED  BY <3>1
  <2> QED  BY <2>1, <2>2, <2>3
<1>5. g \in Bijection(1..count, 0..(count - 1))
  BY <1>2, <1>3, <1>4 DEF Bijection, Injection, Surjection, IsInjective
<1>6. \A j \in 1..count : Window[j] = intervals_ns[g[j]]  BY <1>1 DEF Window
<1> QED  BY <1>5, <1>6

\* So both have the same score.
LEMMA ScoreReordered ==
  ASSUME RingInv, count > 0
  PROVE  JitterNorm(Window, 1..count) = JitterNorm(intervals_ns, 0..(count - 1))
<1> DEFINE D == 1..count
           E == 0..(count - 1)
<1>1. PICK g \in Bijection(D, E) : \A j \in D : Window[j] = intervals_ns[g[j]]
  BY WindowReorders
<1>2. count \in Nat /\ count >= 1  BY JitterAssumption DEF RingInv
<1>3. IsFiniteSet(D) /\ IsFiniteSet(E) /\ Cardinality(D) = count /\ Cardinality(E) = count
  BY <1>2, FS_Interval
<1>4. g \in [D -> E]  BY <1>1 DEF Bijection, Injection
<1>5. \A i \in E : intervals_ns[i] \in Nat
  BY JitterAssumption DEF RingInv
<1> HIDE DEF D, E
<1> DEFINE v == [j \in D |-> Window[j]]
           w == [i \in E |-> intervals_ns[i]]
<1>6. v \in [D -> Nat] /\ w \in [E -> Nat] /\ \A j \in D : v[j] = w[g[j]]
  BY <1>1, <1>4, <1>5
<1> HIDE DEF v, w
<1>7. SumFunction(v) = SumFunction(w) /\ SumFunction(w) \in Nat
  BY <1>3, <1>6, SumReordered, SumType
<1> DEFINE sum == Float(SumFunction(w) % Wrap)
           x == [j \in D |-> Distance(count * Float(Window[j]), sum)]
           y == [i \in E |-> Distance(count * Float(intervals_ns[i]), sum)]
<1>8. sum \in Nat
  <2>1. SumFunction(w) % Wrap \in Nat  BY <1>7, JitterAssumption
  <2> QED  BY <2>1, FloatType
<1> HIDE DEF sum
<1>9. \A i \in E : Distance(count * Float(intervals_ns[i]), sum) \in Nat
  <2> SUFFICES ASSUME NEW i \in E PROVE Distance(count * Float(intervals_ns[i]), sum) \in Nat
    OBVIOUS
  <2>1. Float(intervals_ns[i]) \in Nat  BY <1>5, FloatType
  <2>2. count * Float(intervals_ns[i]) \in Nat  BY <1>2, <2>1
  <2> QED  BY <1>8, <2>2 DEF Distance
<1>10. x \in [D -> Nat] /\ y \in [E -> Nat] /\ \A j \in D : x[j] = y[g[j]]
  BY <1>1, <1>4, <1>9
<1> HIDE DEF x, y
<1>11. SumFunction(x) = SumFunction(y)  BY <1>3, <1>10, SumReordered
<1>12. JitterNorm(Window, D) = IF sum = 0 THEN 0
                               ELSE Min({One, (4 * One * SumFunction(x)) \div (count * sum)})
  BY <1>3, <1>7 DEF JitterNorm, v, x, sum
<1>13. JitterNorm(intervals_ns, E) = IF sum = 0 THEN 0
                               ELSE Min({One, (4 * One * SumFunction(y)) \div (count * sum)})
  BY <1>3 DEF JitterNorm, w, y, sum
<1> QED  BY <1>11, <1>12, <1>13 DEF D, E

\* The score is of what the buffer holds, and before the first interval is 0.
ScoreInv ==
  /\ count > 0 => temporal_jitter_norm = JitterNorm(intervals_ns, 0..(count - 1))
  /\ count = 0 => temporal_jitter_norm = 0
  /\ ~has_prev_timestamp => count = 0

\* sample() computes it anew from the buffer it has just written.
LEMMA NextScore == RingInv /\ ScoreInv /\ [JitterNext]_jitterVars => ScoreInv'
<1> SUFFICES ASSUME RingInv, ScoreInv, [JitterNext]_jitterVars PROVE ScoreInv'
  OBVIOUS
<1>1. ASSUME NEW t, SampleJitter(t), has_prev_timestamp PROVE ScoreInv'
  <2>1. /\ temporal_jitter_norm' = JitterNorm(intervals_ns', 0..(count' - 1))
        /\ count' = CountAfter /\ has_prev_timestamp' = TRUE
    BY <1>1 DEF SampleJitter, Record, Filled
  <2>2. count' # 0  BY <2>1, JitterAssumption DEF CountAfter, RingInv
  <2> QED  BY <2>1, <2>2 DEF ScoreInv
<1>2. ASSUME NEW t, SampleJitter(t), ~has_prev_timestamp PROVE ScoreInv'
  <2>1. temporal_jitter_norm' = 0 /\ count' = 0 /\ has_prev_timestamp' = TRUE
    BY <1>2 DEF SampleJitter, ScoreInv
  <2> QED  BY <2>1 DEF ScoreInv
<1>3. CASE UNCHANGED jitterVars
  BY <1>3 DEF jitterVars, ScoreInv
<1> QED  BY <1>1, <1>2, <1>3 DEF JitterNext

\* For every window size, clock width and float format, the score is that of the
\* last intervals in order, however far the buffer is filled and rotated.
THEOREM ScoreSafety == JitterSpec => []JitterIsOfWindow
<1>1. JitterInit => RingInv /\ ScoreInv
  BY InitRing DEF JitterInit, ScoreInv
<1>2. RingInv /\ ScoreInv => JitterIsOfWindow
  <2> SUFFICES ASSUME RingInv, ScoreInv PROVE JitterIsOfWindow  OBVIOUS
  <2>1. CASE count = 0  BY <2>1 DEF ScoreInv, JitterIsOfWindow
  <2>2. CASE count > 0
    BY <2>2, ScoreReordered DEF ScoreInv, JitterIsOfWindow, RingInv
  <2> QED  BY <2>1, <2>2, JitterAssumption DEF RingInv
<1> QED  BY <1>1, <1>2, NextRing, NextScore, PTL DEF JitterSpec
=============================================================================
