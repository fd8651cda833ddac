------------------------------ MODULE SetLemmas ------------------------------
(***************************************************************************)
(* Facts about finite sets of numbers that the proofs about several        *)
(* components rest on: least elements, sums, the newest of some times,     *)
(* images and ranks.                                                       *)
(***************************************************************************)
EXTENDS Integers, FiniteSetsExt, FiniteSetTheorems, WellFoundedInduction, TLAPS

-----------------------------------------------------------------------------
(* Least elements.                                                           *)

\* A set of naturals has a least element: induction in first-order form.
LEMMA Least ==
  ASSUME NEW S, S \subseteq Nat, S # {}
  PROVE  \E m \in S : \A n \in S : m <= n
<1>1. PICK m \in S : \A y \in S : ~(<<y, m>> \in OpToRel(<, Nat))
  BY WFMin, NatLessThanWellFounded, Zenon
<1>2. \A y \in S : ~(y < m)
  BY <1>1, Zenon DEF OpToRel
<1>3. \A y \in S : m <= y
  BY <1>2
<1> QED BY <1>3

LEMMA Smallest ==
  ASSUME NEW S, S \subseteq Nat, S # {}
  PROVE  Min(S) \in S /\ \A y \in S : Min(S) <= y
BY Least DEF Min

\* And a bounded one a greatest.
LEMMA Largest ==
  ASSUME NEW S, S \subseteq Nat, S # {}, NEW n \in Nat, \A x \in S : x <= n
  PROVE  Max(S) \in S /\ \A y \in S : y <= Max(S)
<1> DEFINE T == {n - x : x \in S}
<1>0. ASSUME NEW x \in S PROVE n - x \in Nat
  BY <1>0
<1>1. T \subseteq Nat /\ T # {}
  BY <1>0
<1>2. PICK d \in T : \A y \in T : ~(<<y, d>> \in OpToRel(<, Nat))
  BY <1>1, WFMin, NatLessThanWellFounded, Zenon
<1>3. \A y \in T : ~(y < d)
  BY <1>1, <1>2, Zenon DEF OpToRel
<1>4. PICK m \in S : d = n - m
  BY <1>2
<1>5. \A y \in S : m >= y
  <2>1. SUFFICES ASSUME NEW y \in S PROVE m >= y
    OBVIOUS
  <2>2. n - y \in T
    OBVIOUS
  <2>3. ~(n - y < n - m)
    BY <1>3, <1>4, <2>2
  <2> QED BY <2>3
<1>6. \E x \in S : \A y \in S : x >= y
  BY <1>5
<1>7. Max(S) \in S /\ \A y \in S : Max(S) >= y
  BY <1>6 DEF Max
<1> QED BY <1>7

\* Among finite sets there is one with fewest elements.
LEMMA FewestElements ==
  ASSUME NEW F, F # {}, \A s \in F : IsFiniteSet(s)
  PROVE  \E s \in F : \A t \in F : Cardinality(s) <= Cardinality(t)
<1> DEFINE sizes == {Cardinality(s) : s \in F}
<1>1. sizes \subseteq Nat /\ sizes # {}
  BY FS_CardinalityType
<1>2. \E m \in sizes : \A n \in sizes : m <= n
  BY <1>1, Least, Zenon
<1> QED BY <1>2

\* A subset of a finite set without one element has fewer elements.
LEMMA OneFewer ==
  ASSUME NEW S, IsFiniteSet(S), NEW s \in SUBSET S, NEW x \in s
  PROVE  /\ IsFiniteSet(s) /\ s \ {x} \in SUBSET S
         /\ Cardinality(s) \in Nat /\ Cardinality(s \ {x}) = Cardinality(s) - 1
<1>1. IsFiniteSet(s)
  BY FS_Subset
<1> QED BY <1>1, FS_CardinalityType, FS_RemoveElement

-----------------------------------------------------------------------------
(* Sums over finite sets (MapThenSumSet).                                    *)

Unfolded(f, g, s) ==
    IF s = {} THEN 0 ELSE LET x == CHOOSE y \in s : TRUE IN f[x] + g[s \ {x}]

Sums(f, g, S) == g = [s \in SUBSET S |-> Unfolded(f, g, s)]

Summed(f, S) == MapThenSumSet(LAMBDA x : f[x], S)

\* The recursive function that a sum is defined by exists.
LEMMA SumsExist ==
  ASSUME NEW S, IsFiniteSet(S), NEW f
  PROVE  \E g : Sums(f, g, S)
<1> DEFINE D(n) == {s \in SUBSET S : Cardinality(s) <= n}
           Ok(n) == \E g : g = [s \in D(n) |-> Unfolded(f, g, s)]
           Bad == {n \in Nat : ~Ok(n)}
<1>1. \A s \in SUBSET S : IsFiniteSet(s) /\ Cardinality(s) \in Nat
  BY FS_Subset, FS_CardinalityType
<1>2. Ok(0)
  <2>1. D(0) = {{}}
    BY <1>1, FS_EmptySet
  <2> DEFINE g == [s \in {{}} |-> 0]
  <2>2. g = [s \in {{}} |-> Unfolded(f, g, s)]
    BY DEF Unfolded
  <2> QED BY <2>1, <2>2
<1>3. ASSUME NEW n \in Nat, Ok(n) PROVE Ok(n + 1)
  <2>1. PICK g : g = [s \in D(n) |-> Unfolded(f, g, s)]
    BY <1>3
  <2> DEFINE h == [s \in D(n + 1) |-> Unfolded(f, g, s)]
  <2>2. ASSUME NEW s \in D(n + 1) PROVE Unfolded(f, h, s) = Unfolded(f, g, s)
    <3>1. CASE s = {}
      BY <3>1 DEF Unfolded
    <3>2. CASE s # {}
      <4> DEFINE x == CHOOSE y \in s : TRUE
      <4>1. x \in s
        BY <3>2
      <4>2. /\ s \ {x} \in SUBSET S /\ Cardinality(s \ {x}) = Cardinality(s) - 1
            /\ Cardinality(s) \in Nat /\ Cardinality(s) <= n + 1
        BY <4>1, OneFewer
      <4>4. s \ {x} \in D(n) /\ s \ {x} \in D(n + 1)
        BY <4>2
      <4>3. h[s \ {x}] = g[s \ {x}]
        BY <4>4, <2>1
      <4> QED BY <3>2, <4>3 DEF Unfolded
    <3> QED BY <3>1, <3>2
  <2>3. h = [s \in D(n + 1) |-> Unfolded(f, h, s)]
    BY <2>2
  <2> QED BY <2>3
<1>4. Bad = {}
  <2>1. SUFFICES ASSUME Bad # {} PROVE FALSE
    OBVIOUS
  <2>2. PICK m \in Bad : \A n \in Bad : m <= n
    BY <2>1, Least, Zenon
  <2> HIDE DEF Ok
  <2>3. m \in Nat /\ m # 0 /\ ~Ok(m)
    BY <1>2, <2>2
  <2>4. m - 1 \in Nat /\ m - 1 \notin Bad
    BY <2>2, <2>3
  <2>5. Ok(m - 1)
    BY <2>4
  <2> QED BY <1>3, <2>3, <2>4, <2>5
<1>5. D(Cardinality(S)) = SUBSET S
  BY FS_Subset, FS_CardinalityType
<1>6. Cardinality(S) \in Nat
  BY FS_CardinalityType
<1>7. Ok(Cardinality(S))
  BY <1>4, <1>6
<1> QED BY <1>5, <1>7 DEF Sums

LEMMA SumIsSums ==
  ASSUME NEW S, IsFiniteSet(S), NEW f
  PROVE  \E g : Sums(f, g, S) /\ Summed(f, S) = g[S]
<1> DEFINE g == CHOOSE h : Sums(f, h, S)
<1>1. Sums(f, g, S)
  BY SumsExist
<1>2. Summed(f, S) = g[S]
  BY DEF Summed, MapThenSumSet, MapThenFoldSet, Sums, Unfolded
<1> QED BY <1>1, <1>2

\* What a sum over a subset is does not depend on the set it is taken from.
LEMMA SumsAgree ==
  ASSUME NEW S, IsFiniteSet(S), NEW R \in SUBSET S, NEW f, NEW g, NEW h,
         Sums(f, g, S), Sums(f, h, R)
  PROVE  \A s \in SUBSET R : g[s] = h[s]
<1> DEFINE Bad == {s \in SUBSET R : g[s] # h[s]}
<1>1. SUFFICES ASSUME Bad # {} PROVE FALSE
  OBVIOUS
<1>2. \A s \in Bad : IsFiniteSet(s)
  BY FS_Subset
<1>3. PICK s \in Bad : \A t \in Bad : Cardinality(s) <= Cardinality(t)
  BY <1>1, <1>2, FewestElements
<1>4. g[s] = Unfolded(f, g, s) /\ h[s] = Unfolded(f, h, s)
  BY DEF Sums
<1>5. s # {}
  BY <1>4 DEF Unfolded
<1> DEFINE x == CHOOSE y \in s : TRUE
<1>6. x \in s
  BY <1>5
<1>7. s \ {x} \notin Bad /\ s \ {x} \subseteq s
  <2>1. Cardinality(s \ {x}) = Cardinality(s) - 1 /\ Cardinality(s) \in Nat
    BY <1>6, OneFewer
  <2>2. ~(Cardinality(s) <= Cardinality(s \ {x}))
    BY <2>1
  <2> QED BY <1>3, <2>2, Zenon
<1>8. g[s \ {x}] = h[s \ {x}]
  BY <1>7
<1> QED BY <1>4, <1>5, <1>8 DEF Unfolded

\* Sums are of the kind of their terms, naturals or integers.
LEMMA SumsClosed ==
  ASSUME NEW S, IsFiniteSet(S), NEW f,
         NEW V, 0 \in V, \A x, y \in V : x + y \in V, \A x \in S : f[x] \in V,
         NEW g, Sums(f, g, S)
  PROVE  \A s \in SUBSET S : g[s] \in V
<1> DEFINE Bad == {s \in SUBSET S : g[s] \notin V}
<1>1. SUFFICES ASSUME Bad # {} PROVE FALSE
  OBVIOUS
<1>2. \A s \in Bad : IsFiniteSet(s)
  BY FS_Subset
<1>3. PICK s \in Bad : \A t \in Bad : Cardinality(s) <= Cardinality(t)
  BY <1>1, <1>2, FewestElements
<1>4. g[s] = Unfolded(f, g, s)
  BY DEF Sums
<1>5. s # {}
  BY <1>4 DEF Unfolded
<1> DEFINE x == CHOOSE y \in s : TRUE
<1>6. x \in s
  BY <1>5
<1>7. s \ {x} \notin Bad /\ s \ {x} \subseteq s
  <2>1. Cardinality(s \ {x}) = Cardinality(s) - 1 /\ Cardinality(s) \in Nat
    BY <1>6, OneFewer
  <2>2. ~(Cardinality(s) <= Cardinality(s \ {x}))
    BY <2>1
  <2> QED BY <1>3, <2>2, Zenon
<1>8. g[s \ {x}] \in V /\ f[x] \in V
  BY <1>6, <1>7
<1> QED BY <1>4, <1>5, <1>8 DEF Unfolded

LEMMA SumsNat ==
  ASSUME NEW S, IsFiniteSet(S), NEW f, \A x \in S : f[x] \in Nat,
         NEW g, Sums(f, g, S)
  PROVE  \A s \in SUBSET S : g[s] \in Nat
<1>1. 0 \in Nat /\ \A x, y \in Nat : x + y \in Nat
  OBVIOUS
<1> QED BY <1>1, SumsClosed, Zenon

\* Any element may be added first.
LEMMA AnyFirst ==
  ASSUME NEW S, IsFiniteSet(S), NEW f, \A x \in S : f[x] \in Nat,
         NEW g, Sums(f, g, S)
  PROVE  \A s \in SUBSET S : \A y \in s : g[s] = f[y] + g[s \ {y}]
<1> DEFINE Bad == {s \in SUBSET S : \E y \in s : g[s] # f[y] + g[s \ {y}]}
<1>1. SUFFICES ASSUME Bad # {} PROVE FALSE
  OBVIOUS
<1>2. \A s \in Bad : IsFiniteSet(s)
  BY FS_Subset
<1>3. PICK s \in Bad : \A t \in Bad : Cardinality(s) <= Cardinality(t)
  BY <1>1, <1>2, FewestElements
<1>4. PICK y \in s : g[s] # f[y] + g[s \ {y}]
  OBVIOUS
<1> DEFINE x == CHOOSE z \in s : TRUE
<1>5. x \in s
  OBVIOUS
<1>6. g[s] = f[x] + g[s \ {x}]
  BY DEF Sums, Unfolded
<1>7. x # y
  BY <1>4, <1>6
<1>8. ASSUME NEW z \in s PROVE s \ {z} \notin Bad
  <2>1. Cardinality(s \ {z}) = Cardinality(s) - 1 /\ Cardinality(s) \in Nat
    BY OneFewer
  <2>2. ~(Cardinality(s) <= Cardinality(s \ {z}))
    BY <2>1
  <2> QED BY <1>3, <2>2, Zenon
<1>9. /\ g[s \ {x}] = f[y] + g[(s \ {x}) \ {y}]
      /\ g[s \ {y}] = f[x] + g[(s \ {y}) \ {x}]
  BY <1>5, <1>7, <1>8
<1>10. (s \ {x}) \ {y} = (s \ {y}) \ {x}
  OBVIOUS
<1>11. f[x] \in Nat /\ f[y] \in Nat /\ g[(s \ {x}) \ {y}] \in Nat
  BY <1>5, SumsNat
<1> DEFINE c == g[(s \ {x}) \ {y}]
<1>12. g[s] = f[x] + (f[y] + c) /\ g[s \ {y}] = f[x] + c
  BY <1>6, <1>9, <1>10, Zenon
<1> HIDE DEF c
<1>13. c \in Nat
  BY <1>11 DEF c
<1>14. f[x] + (f[y] + c) = f[y] + (f[x] + c)
  BY <1>11, <1>13
<1> QED BY <1>4, <1>12, <1>14, Zenon
-----------------------------------------------------------------------------
(* The first n elements of a finite set in some order.                       *)

Orders(R, S) ==
    /\ \A x \in S : <<x, x>> \notin R
    /\ \A x, y \in S : x # y => <<x, y>> \in R \/ <<y, x>> \in R
    /\ \A x, y, z \in S : <<x, y>> \in R /\ <<y, z>> \in R => <<x, z>> \in R

First(R, S, n) == {x \in S : Cardinality({y \in S : <<y, x>> \in R}) < n}

\* A finite set has a first element.
LEMMA Foremost ==
  ASSUME NEW S, IsFiniteSet(S), S # {}, NEW R, Orders(R, S)
  PROVE  \E x \in S : \A y \in S : y # x => <<x, y>> \in R
<1> DEFINE Heads(s) == \E x \in s : \A y \in s : y # x => <<x, y>> \in R
           Bad == {s \in SUBSET S : s # {} /\ ~Heads(s)}
<1>1. ASSUME Bad # {} PROVE FALSE
  <2>1. \A s \in Bad : IsFiniteSet(s)
    BY FS_Subset
  <2>2. PICK s \in Bad : \A t \in Bad : Cardinality(s) <= Cardinality(t)
    BY <1>1, <2>1, FewestElements
  <2>3. PICK x \in s : TRUE
    OBVIOUS
  <2>4. s \ {x} \notin Bad /\ s \ {x} \in SUBSET S
    <3>1. Cardinality(s \ {x}) = Cardinality(s) - 1 /\ Cardinality(s) \in Nat
      BY OneFewer
    <3>2. ~(Cardinality(s) <= Cardinality(s \ {x}))
      BY <3>1
    <3> QED BY <2>2, <3>2, Zenon
  <2>5. CASE s \ {x} = {}
    BY <2>5
  <2>6. CASE s \ {x} # {}
    <3>1. PICK z \in s \ {x} : \A y \in s \ {x} : y # z => <<z, y>> \in R
      BY <2>4, <2>6
    <3>2. x \in S /\ z \in S /\ x # z /\ s \subseteq S
      BY <3>1
    <3>3. CASE <<z, x>> \in R
      <4>1. \A y \in s : y # z => <<z, y>> \in R
        BY <3>1, <3>3
      <4> QED BY <3>1, <4>1
    <3>4. CASE <<x, z>> \in R
      <4>1. \A y \in s : y # x => <<x, y>> \in R
        BY <3>1, <3>2, <3>4 DEF Orders
      <4> QED BY <4>1
    <3> QED BY <3>2, <3>3, <3>4 DEF Orders
  <2> QED BY <2>5, <2>6
<1>2. S \notin Bad
  BY <1>1
<1> QED BY <1>2

LEMMA FirstAreFirst ==
  ASSUME NEW S, IsFiniteSet(S), NEW R, Orders(R, S), NEW n \in Nat
  PROVE  \A x \in First(R, S, n), y \in S : <<y, x>> \in R => y \in First(R, S, n)
<1>1. SUFFICES ASSUME NEW x \in First(R, S, n), NEW y \in S, <<y, x>> \in R
               PROVE  y \in First(R, S, n)
  OBVIOUS
<1> DEFINE Ahead(z) == {u \in S : <<u, z>> \in R}
<1>2. x \in S
  BY DEF First
<1>3. Ahead(y) \subseteq Ahead(x)
  BY <1>1, <1>2 DEF Orders
<1>4. IsFiniteSet(Ahead(x))
  BY FS_Subset
<1>5. /\ Cardinality(Ahead(y)) <= Cardinality(Ahead(x))
      /\ Cardinality(Ahead(y)) \in Nat /\ Cardinality(Ahead(x)) \in Nat
  <2>1. IsFiniteSet(Ahead(y))
    BY FS_Subset
  <2> QED BY <1>3, <1>4, <2>1, FS_Subset, FS_CardinalityType
<1>6. Cardinality(Ahead(x)) < n
  BY DEF First
<1>7. Cardinality(Ahead(y)) < n
  BY <1>5, <1>6
<1> QED BY <1>7 DEF First

\* One more of the first.
LEMMA NextFirst ==
  ASSUME NEW S, IsFiniteSet(S), NEW R, Orders(R, S), NEW n \in Nat,
         n < Cardinality(S), Cardinality(First(R, S, n)) = n
  PROVE  Cardinality(First(R, S, n + 1)) = n + 1
<1> DEFINE F == First(R, S, n)
           Ahead(z) == {u \in S : <<u, z>> \in R}
<1>1. F \subseteq S /\ IsFiniteSet(F) /\ IsFiniteSet(S \ F)
  <2>1. F \subseteq S
    BY DEF First
  <2> QED BY <2>1, FS_Subset
<1>2. S \ F # {}
  <2>1. F # S
    <3>1. Cardinality(S) \in Nat
      BY FS_CardinalityType
    <3> QED BY <3>1
  <2> QED BY <1>1, <2>1
<1>3. Orders(R, S \ F)
  BY DEF Orders
<1>4. PICK x \in S \ F : \A y \in S \ F : y # x => <<x, y>> \in R
  BY <1>1, <1>2, <1>3, Foremost
<1>5. \A y \in F : <<y, x>> \in R
  <2>1. SUFFICES ASSUME NEW y \in F PROVE <<y, x>> \in R
    OBVIOUS
  <2>2. y \in S /\ x \in S /\ y # x
    BY <1>1
  <2>3. <<x, y>> \notin R
    BY <2>2, FirstAreFirst
  <2> QED BY <2>2, <2>3 DEF Orders
<1>6. Ahead(x) = F
  BY <1>1, <1>4, <1>5 DEF Orders
<1> DEFINE G == First(R, S, n + 1)
<1>7. x \in G
  <2>1. Cardinality(Ahead(x)) = n
    BY <1>6, Zenon
  <2>2. Cardinality(Ahead(x)) < n + 1
    BY <2>1
  <2> QED BY <2>2 DEF First
<1>8. F \subseteq G
  <2>1. SUFFICES ASSUME NEW y \in F PROVE y \in G
    OBVIOUS
  <2>2. y \in S /\ Cardinality(Ahead(y)) < n
    BY DEF First
  <2>3. Cardinality(Ahead(y)) \in Nat
    <3>1. IsFiniteSet(Ahead(y))
      BY FS_Subset
    <3> QED BY <3>1, FS_CardinalityType
  <2>4. Cardinality(Ahead(y)) < n + 1
    BY <2>2, <2>3
  <2> QED BY <2>2, <2>4 DEF First
<1>9. ASSUME NEW y \in G, y \notin F PROVE y = x
  <2>1. y \in S /\ Cardinality(Ahead(y)) < n + 1
    BY DEF First
  <2>2. SUFFICES ASSUME y # x PROVE FALSE
    OBVIOUS
  <2>3. <<x, y>> \in R
    BY <1>4, <1>9, <2>1, <2>2
  <2>4. F \cup {x} \subseteq Ahead(y)
    <3>1. \A z \in F : <<z, y>> \in R
      BY <1>1, <1>4, <1>5, <2>1, <2>3 DEF Orders
    <3> QED BY <1>1, <2>3, <3>1
  <2>5. IsFiniteSet(Ahead(y)) /\ Cardinality(Ahead(y)) \in Nat
    <3>1. IsFiniteSet(Ahead(y))
      BY FS_Subset
    <3> QED BY <3>1, FS_CardinalityType
  <2>6. Cardinality(F \cup {x}) = n + 1
    BY <1>1, <1>4, FS_AddElement
  <2>7. n + 1 <= Cardinality(Ahead(y))
    <3>1. Cardinality(F \cup {x}) <= Cardinality(Ahead(y))
      BY <2>4, <2>5, FS_Subset, Zenon
    <3> QED BY <2>6, <3>1
  <2> QED BY <2>1, <2>5, <2>7
<1>10. G = F \cup {x}
  BY <1>7, <1>8, <1>9
<1> HIDE DEF G
<1>11. Cardinality(G) = n + 1
  BY <1>1, <1>4, <1>10, FS_AddElement
<1> QED BY <1>11 DEF G

\* There are n of the first n, unless there are fewer in all.
LEMMA FirstCount ==
  ASSUME NEW S, IsFiniteSet(S), NEW R, Orders(R, S), NEW n \in Nat
  PROVE  /\ First(R, S, n) \subseteq S
         /\ n <= Cardinality(S) => Cardinality(First(R, S, n)) = n
         /\ Cardinality(S) <= n => First(R, S, n) = S
<1>1. First(R, S, n) \subseteq S /\ Cardinality(S) \in Nat
  BY FS_CardinalityType DEF First
<1>2. ASSUME n <= Cardinality(S) PROVE Cardinality(First(R, S, n)) = n
  <2> DEFINE Bad == {m \in 0 .. Cardinality(S) : Cardinality(First(R, S, m)) # m}
  <2>1. ASSUME Bad # {} PROVE FALSE
    <3>0. Bad \subseteq Nat
      OBVIOUS
    <3>1. PICK m \in Bad : \A k \in Bad : m <= k
      <4> HIDE DEF Bad
      <4> QED BY <2>1, <3>0, Least
    <3>2. m # 0
      <4>1. ASSUME m = 0 PROVE FALSE
        <5>1. \A x \in S : Cardinality({y \in S : <<y, x>> \in R}) \in Nat
          <6>1. \A x \in S : IsFiniteSet({y \in S : <<y, x>> \in R})
            BY FS_Subset
          <6> QED BY <6>1, FS_CardinalityType
        <5>2. First(R, S, 0) = {}
          BY <5>1 DEF First
        <5> QED BY <3>1, <4>1, <5>2, FS_EmptySet
      <4> QED BY <4>1
    <3>3. m - 1 \in Nat /\ m - 1 \in 0 .. Cardinality(S) /\ m - 1 \notin Bad
      BY <1>1, <3>1, <3>2
    <3>4. Cardinality(First(R, S, m - 1)) = m - 1
      BY <3>3
    <3>5. m - 1 < Cardinality(S) /\ (m - 1) + 1 = m
      BY <1>1, <3>1, <3>2
    <3>6. Cardinality(First(R, S, (m - 1) + 1)) = (m - 1) + 1
      BY <3>3, <3>4, <3>5, NextFirst
    <3> QED BY <3>5, <3>6
  <2>2. n \notin Bad /\ n \in 0 .. Cardinality(S)
    BY <1>1, <1>2, <2>1
  <2> QED BY <2>2
<1>3. ASSUME Cardinality(S) <= n PROVE S \subseteq First(R, S, n)
  <2>1. SUFFICES ASSUME NEW x \in S PROVE Cardinality({y \in S : <<y, x>> \in R}) < n
    BY DEF First
  <2> DEFINE A == {y \in S : <<y, x>> \in R}
  <2>2. A \subseteq S \ {x}
    BY DEF Orders
  <2>3. IsFiniteSet(S \ {x}) /\ Cardinality(S \ {x}) = Cardinality(S) - 1
    BY FS_RemoveElement
  <2>4. Cardinality(A) \in Nat /\ Cardinality(A) <= Cardinality(S \ {x})
    <3>1. IsFiniteSet(A)
      BY FS_Subset
    <3> QED BY <2>2, <2>3, <3>1, FS_Subset, FS_CardinalityType
  <2> HIDE DEF A
  <2>5. Cardinality(A) < n
    BY <1>1, <1>3, <2>3, <2>4
  <2> QED BY <2>5 DEF A
<1> QED BY <1>1, <1>2, <1>3

Later(S) == {e \in S \X S : e[1] > e[2]}
Earlier(S) == {e \in S \X S : e[1] < e[2]}

LEMMA TimesAreOrdered ==
  ASSUME NEW S, S \subseteq Int
  PROVE  Orders(Later(S), S) /\ Orders(Earlier(S), S)
BY DEF Orders, Later, Earlier

\* A finite set of numbers has a greatest and a least.
LEMMA Extremes ==
  ASSUME NEW S, IsFiniteSet(S), S \subseteq Int, S # {}
  PROVE  /\ Max(S) \in S /\ \A y \in S : y <= Max(S)
         /\ Min(S) \in S /\ \A y \in S : Min(S) <= y
<1>1. PICK x \in S : \A y \in S : y # x => <<x, y>> \in Later(S)
  BY TimesAreOrdered, Foremost
<1>2. PICK z \in S : \A y \in S : y # z => <<z, y>> \in Earlier(S)
  BY TimesAreOrdered, Foremost
<1>3. (\A y \in S : x >= y) /\ (\A y \in S : z <= y)
  <2>1. ASSUME NEW y \in S PROVE x >= y /\ z <= y
    <3>1. y # x => x > y
      BY <1>1 DEF Later
    <3>2. y # z => z < y
      BY <1>2 DEF Earlier
    <3>3. x \in Int /\ y \in Int /\ z \in Int
      OBVIOUS
    <3> QED BY <3>1, <3>2, <3>3
  <2> QED BY <2>1
<1>4. Max(S) \in S /\ \A y \in S : Max(S) >= y
  BY <1>3 DEF Max
<1>5. Min(S) \in S /\ \A y \in S : Min(S) <= y
  BY <1>3 DEF Min
<1> QED BY <1>4, <1>5

-----------------------------------------------------------------------------
(* Images and ranks.                                                         *)

ImageOf(f, S) == {f[x] : x \in S}

\* A function without collisions keeps the number of elements.
LEMMA Images ==
  ASSUME NEW S, IsFiniteSet(S), NEW f, \A x, y \in S : f[x] = f[y] => x = y
  PROVE  IsFiniteSet(ImageOf(f, S)) /\ Cardinality(ImageOf(f, S)) = Cardinality(S)
<1> DEFINE V == {f[x] : x \in S}
           g == [x \in S |-> f[x]]
<1>1. g \in [S -> V] /\ \A x \in S : g[x] = f[x]
  OBVIOUS
<1>2. \A v \in V : \E x \in S : v = f[x]
  OBVIOUS
<1> HIDE DEF V, g
<1>3. g \in Injection(S, V)
  <2>1. \A x, y \in S : g[x] = g[y] => x = y
    BY <1>1
  <2> QED BY <1>1, <2>1 DEF Injection, IsInjective
<1>4. g \in Surjection(S, V)
  BY <1>1, <1>2 DEF Surjection
<1>5. ExistsBijection(S, V)
  BY <1>3, <1>4 DEF Bijection, ExistsBijection
<1>6. IsFiniteSet(V) /\ Cardinality(V) = Cardinality(S)
  BY <1>5, FS_Bijection
<1> QED BY <1>6 DEF V, ImageOf

\* The image of a finite set is finite.
LEMMA FiniteImage ==
  ASSUME NEW S, IsFiniteSet(S), NEW f
  PROVE  IsFiniteSet(ImageOf(f, S))
<1> DEFINE V == {f[x] : x \in S}
           g == [x \in S |-> f[x]]
<1>1. g \in [S -> V] /\ \A x \in S : g[x] = f[x]
  OBVIOUS
<1>2. \A v \in V : \E x \in S : v = f[x]
  OBVIOUS
<1> HIDE DEF V, g
<1>3. g \in Surjection(S, V)
  BY <1>1, <1>2 DEF Surjection
<1>4. IsFiniteSet(V)
  BY <1>3, FS_Surjection
<1> QED BY <1>4 DEF V, ImageOf

Ranks(S) == [x \in S |-> Cardinality({y \in S : y < x})]

\* The ranks of n numbers are 0 to n - 1, in their order.
LEMMA RanksCount ==
  ASSUME NEW S, IsFiniteSet(S), S \subseteq Int
  PROVE  /\ Cardinality(S) \in Nat
         /\ \A x \in S : Ranks(S)[x] \in 0 .. Cardinality(S) - 1
         /\ \A x, y \in S : x < y => Ranks(S)[x] < Ranks(S)[y]
         /\ \A k \in 0 .. Cardinality(S) - 1 : \E x \in S : Ranks(S)[x] = k
<1> DEFINE n == Cardinality(S)
           R == Ranks(S)
           Below(x) == {y \in S : y < x}
           V == ImageOf(R, S)
<1>1. n \in Nat
  BY FS_CardinalityType
<1>2. \A x \in S : R[x] = Cardinality(Below(x))
  BY DEF Ranks
<1>3. ASSUME NEW x \in S PROVE R[x] \in 0 .. n - 1
  <2>1. Below(x) \subseteq S \ {x}
    OBVIOUS
  <2>2. IsFiniteSet(S \ {x}) /\ Cardinality(S \ {x}) = n - 1
    <3>1. S \in SUBSET S
      OBVIOUS
    <3>2. Cardinality(S \ {x}) = n - 1
      BY <3>1, OneFewer
    <3>3. S \ {x} \subseteq S
      OBVIOUS
    <3>4. IsFiniteSet(S \ {x})
      BY <3>3, FS_Subset, Zenon
    <3> QED BY <3>2, <3>4
  <2> HIDE DEF Below
  <2>3. IsFiniteSet(Below(x)) /\ Cardinality(Below(x)) <= Cardinality(S \ {x})
    BY <2>1, <2>2, FS_Subset, Zenon
  <2>4. Cardinality(Below(x)) \in Nat
    BY <2>3, FS_CardinalityType
  <2> HIDE DEF R, n
  <2> QED BY <1>1, <1>2, <2>2, <2>3, <2>4
<1>4. ASSUME NEW x \in S, NEW y \in S, x < y PROVE R[x] < R[y]
  <2>1. Below(x) \subseteq Below(y) \ {x} /\ x \in Below(y) /\ Below(y) \in SUBSET S
    <3>1. x \in Int /\ y \in Int
      OBVIOUS
    <3>2. ASSUME NEW z \in Below(x) PROVE z \in Below(y) \ {x}
      <4>1. z \in S /\ z \in Int /\ z < x
        OBVIOUS
      <4>2. z < y /\ z # x
        BY <1>4, <3>1, <4>1
      <4> QED BY <4>1, <4>2
    <3> QED BY <1>4, <3>2
  <2> HIDE DEF Below
  <2>2. /\ IsFiniteSet(Below(y)) /\ Cardinality(Below(y)) \in Nat
        /\ Cardinality(Below(y) \ {x}) = Cardinality(Below(y)) - 1
    BY <2>1, OneFewer
  <2>3. IsFiniteSet(Below(y) \ {x})
    <3>1. Below(y) \ {x} \subseteq Below(y)
      OBVIOUS
    <3> QED BY <2>2, <3>1, FS_Subset, Zenon
  <2>4. IsFiniteSet(Below(x)) /\ Cardinality(Below(x)) <= Cardinality(Below(y) \ {x})
    BY <2>1, <2>3, FS_Subset, Zenon
  <2>5. Cardinality(Below(x)) \in Nat
    BY <2>4, FS_CardinalityType
  <2> HIDE DEF R
  <2> QED BY <1>2, <2>2, <2>4, <2>5
<1> HIDE DEF R, n
<1>5. \A x, y \in S : R[x] = R[y] => x = y
  <2>1. SUFFICES ASSUME NEW x \in S, NEW y \in S, R[x] = R[y], x # y PROVE FALSE
    OBVIOUS
  <2>2. x < y \/ y < x
    BY <2>1
  <2>3. R[x] \in Int /\ R[y] \in Int
    BY <1>1, <1>3
  <2>4. R[x] < R[y] \/ R[y] < R[x]
    BY <1>4, <2>2
  <2> QED BY <2>1, <2>3, <2>4
<1>6. V = 0 .. n - 1
  <2>1. V \subseteq 0 .. n - 1
    BY <1>3 DEF ImageOf
  <2>2. IsFiniteSet(V) /\ Cardinality(V) = n
    BY <1>5, Images DEF n
  <2> HIDE DEF V
  <2>3. IsFiniteSet(0 .. n - 1) /\ Cardinality(0 .. n - 1) = n
    <3>1. 0 \in Int /\ n - 1 \in Int
      BY <1>1
    <3>2. /\ IsFiniteSet(0 .. n - 1)
          /\ Cardinality(0 .. n - 1) = IF 0 > n - 1 THEN 0 ELSE n - 1 - 0 + 1
      BY <3>1, FS_Interval
    <3> QED BY <1>1, <3>2
  <2> QED BY <2>1, <2>2, <2>3, FS_Subset
<1>7. \A k \in 0 .. n - 1 : \E x \in S : R[x] = k
  BY <1>6 DEF ImageOf
<1> QED BY <1>1, <1>3, <1>4, <1>7 DEF R, n
=============================================================================
