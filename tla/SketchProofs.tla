---------------------------- MODULE SketchProofs ----------------------------
(***************************************************************************)
(* What the StreamLog, the sketches of the Go client and the exporter of   *)
(* the OpenTelemetry collector promise, proved for every data, any number  *)
(* of sketches and concurrent calls, and every configuration.  They rest   *)
(* on the same lemmas: a sum over a finite set is a number of units, and   *)
(* what a recursive function adds up is shown at a least counterexample.   *)
(***************************************************************************)
EXTENDS OtelExporter, GoSketch, StreamSketch, FiniteSetTheorems, NaturalsInduction, WellFoundedInduction, TLAPS

-----------------------------------------------------------------------------
(* Sums over a finite set, as the number of the units that are added up.    *)

\* The k-th unit of f[x], for every x in S.
Units(S, f) == {t \in S \X Nat : t[2] \in 1 .. f[t[1]]}
SumOver(S, f) == Cardinality(Units(S, f))

\* f counts something for every member of S.
CountsOn(S, f) == \A x \in S : f[x] \in Nat

\* The units of one member.
LEMMA UnitsOfOne ==
    ASSUME NEW x, NEW f, f[x] \in Nat
    PROVE  /\ Units({x}, f) = {x} \X (1 .. f[x])
           /\ IsFiniteSet(Units({x}, f)) /\ SumOver({x}, f) = f[x]
<1>1. Units({x}, f) = {x} \X (1 .. f[x])
  BY DEF Units
<1>2. IsFiniteSet({x}) /\ Cardinality({x}) = 1
  BY FS_Singleton
<1>3. IsFiniteSet(1 .. f[x]) /\ Cardinality(1 .. f[x]) = f[x]
  <2> DEFINE n == f[x]
  <2>1. n \in Nat
    OBVIOUS
  <2> HIDE DEF n
  <2>2. IsFiniteSet(1 .. n) /\ Cardinality(1 .. n) = n
    BY <2>1, FS_Interval
  <2> QED BY <2>2 DEF n
<1>4. /\ IsFiniteSet({x} \X (1 .. f[x]))
      /\ Cardinality({x} \X (1 .. f[x])) = Cardinality({x}) * Cardinality(1 .. f[x])
  BY <1>2, <1>3, FS_Product
<1>5. Cardinality({x} \X (1 .. f[x])) = f[x]
  BY <1>2, <1>3, <1>4
<1> QED BY <1>1, <1>4, <1>5 DEF SumOver

\* A sum over a finite set is a number.
LEMMA SumFinite ==
    ASSUME NEW S, IsFiniteSet(S), NEW f, CountsOn(S, f)
    PROVE  IsFiniteSet(Units(S, f)) /\ SumOver(S, f) \in Nat
<1> DEFINE g == [x \in S |-> {x} \X (1 .. f[x])]
           T == {g[x] : x \in S}
<1>1. g \in Surjection(S, T)
  BY DEF Surjection
<1>2. IsFiniteSet(T)
  BY <1>1, FS_Surjection
<1>3. ASSUME NEW U \in T PROVE IsFiniteSet(U)
  <2>1. PICK x \in S : U = {x} \X (1 .. f[x])
    OBVIOUS
  <2>2. f[x] \in Nat
    BY DEF CountsOn
  <2> QED BY <2>1, <2>2, UnitsOfOne
<1>4. IsFiniteSet(UNION T)
  BY <1>2, <1>3, FS_UNION
<1>5. Units(S, f) \in SUBSET (UNION T)
  <2> SUFFICES ASSUME NEW t \in Units(S, f) PROVE t \in UNION T
    OBVIOUS
  <2>1. t[1] \in S /\ t = <<t[1], t[2]>> /\ t[2] \in 1 .. f[t[1]]
    BY DEF Units
  <2>2. t \in g[t[1]] /\ g[t[1]] \in T
    BY <2>1
  <2> QED BY <2>2
<1>6. IsFiniteSet(Units(S, f))
  BY <1>4, <1>5, FS_Subset
<1> QED BY <1>6, FS_CardinalityType DEF SumOver

\* A sum over two sets that share nothing.
LEMMA SumSplit ==
    ASSUME NEW S, IsFiniteSet(S), NEW f, CountsOn(S, f), NEW R \in SUBSET S
    PROVE  SumOver(S, f) = SumOver(R, f) + SumOver(S \ R, f)
<1>1. IsFiniteSet(R) /\ IsFiniteSet(S \ R) /\ CountsOn(R, f) /\ CountsOn(S \ R, f)
  BY FS_Subset, FS_Difference DEF CountsOn
<1>2. /\ IsFiniteSet(Units(R, f)) /\ IsFiniteSet(Units(S \ R, f))
      /\ SumOver(R, f) \in Nat /\ SumOver(S \ R, f) \in Nat
  BY <1>1, SumFinite
<1>3. Units(S, f) = Units(R, f) \cup Units(S \ R, f)
  BY DEF Units
<1>4. Units(R, f) \cap Units(S \ R, f) = {}
  BY DEF Units
<1>5. Cardinality(Units(S, f)) = Cardinality(Units(R, f)) + Cardinality(Units(S \ R, f)) - Cardinality({})
  <2> DEFINE U == Units(R, f)
             V == Units(S \ R, f)
  <2>1. IsFiniteSet(U) /\ IsFiniteSet(V) /\ U \cap V = {} /\ Units(S, f) = U \cup V
    BY <1>2, <1>3, <1>4
  <2> HIDE DEF U, V
  <2>2. Cardinality(U \cup V) = Cardinality(U) + Cardinality(V) - Cardinality(U \cap V)
    BY <2>1, FS_Union
  <2> QED BY <2>1, <2>2 DEF U, V
<1> QED BY <1>2, <1>5, FS_EmptySet DEF SumOver

\* A sum depends only on what is added up.
LEMMA SumSame ==
    ASSUME NEW S, NEW f, NEW g, \A x \in S : f[x] = g[x]
    PROVE  SumOver(S, f) = SumOver(S, g)
<1>1. Units(S, f) = Units(S, g)
  BY DEF Units
<1> QED BY <1>1 DEF SumOver

\* One summand changes.
LEMMA SumChange ==
    ASSUME NEW S, IsFiniteSet(S), NEW x \in S, NEW f, CountsOn(S, f), NEW g, CountsOn(S, g),
           \A y \in S \ {x} : g[y] = f[y]
    PROVE  /\ SumOver(S, f) \in Nat /\ SumOver(S, g) \in Nat
           /\ SumOver(S, g) + f[x] = SumOver(S, f) + g[x]
<1>1. {x} \in SUBSET S
  OBVIOUS
<1>2. SumOver(S, f) = SumOver({x}, f) + SumOver(S \ {x}, f)
  BY <1>1, SumSplit
<1>3. SumOver(S, g) = SumOver({x}, g) + SumOver(S \ {x}, g)
  BY <1>1, SumSplit
<1>4. SumOver(S \ {x}, g) = SumOver(S \ {x}, f)
  BY SumSame
<1>5. f[x] \in Nat /\ g[x] \in Nat
  BY DEF CountsOn
<1>6. SumOver({x}, f) = f[x] /\ SumOver({x}, g) = g[x]
  BY <1>5, UnitsOfOne
<1>7. SumOver(S \ {x}, f) \in Nat
  <2>1. IsFiniteSet(S \ {x}) /\ CountsOn(S \ {x}, f)
    BY FS_Difference DEF CountsOn
  <2> QED BY <2>1, SumFinite
<1> QED BY <1>2, <1>3, <1>4, <1>5, <1>6, <1>7

\* Nothing is added up.
LEMMA SumNothing ==
    ASSUME NEW S, NEW f, \A x \in S : f[x] = 0
    PROVE  SumOver(S, f) = 0
<1>1. Units(S, f) = {}
  <2> SUFFICES ASSUME NEW t \in Units(S, f) PROVE FALSE
    OBVIOUS
  <2>1. t[1] \in S /\ t[2] \in 1 .. f[t[1]]
    BY DEF Units
  <2> QED BY <2>1
<1> QED BY <1>1, FS_EmptySet DEF SumOver

-----------------------------------------------------------------------------
(* Recursive functions over the positions of a list.                        *)

\* Sets of natural numbers have a least element.
LEMMA LeastNumber ==
    ASSUME NEW S \in SUBSET Nat, S # {}
    PROVE  \E m \in S : \A y \in S : m <= y
<1>1. IsWellFoundedOn(OpToRel(<, Nat), Nat)
  BY NatLessThanWellFounded
<1>2. PICK m \in S : \A y \in S : ~(<<y, m>> \in OpToRel(<, Nat))
  BY <1>1, WFMin
<1>3. \A y \in S : <<y, m>> \in OpToRel(<, Nat) <=> y < m
  BY DEF OpToRel
<1>4. \A y \in S : ~(y < m)
  BY <1>2, <1>3
<1> QED BY <1>4

\* What holds at 0 and is passed on from each position to the next, here
\* membership in P, holds at all positions up to n.
LEMMA AllPositions ==
    ASSUME NEW n \in Nat, NEW P, 0 \in P, \A k \in 0 .. n - 1 : k \in P => k + 1 \in P
    PROVE  \A k \in 0 .. n : k \in P
<1> DEFINE Bad == {k \in 0 .. n : k \notin P}
<1>1. SUFFICES ASSUME Bad # {} PROVE FALSE
  OBVIOUS
<1>2. PICK m \in Bad : \A y \in Bad : m <= y
  <2>1. Bad \in SUBSET Nat
    OBVIOUS
  <2> QED BY <1>1, <2>1, LeastNumber
<1>3. m \in Nat /\ m # 0 /\ m - 1 \in 0 .. n - 1 /\ ~(m <= m - 1) /\ (m - 1) + 1 = m /\ m - 1 \in 0 .. n
  BY <1>2
<1>4. m - 1 \notin Bad
  BY <1>2, <1>3
<1>5. m - 1 \in P
  BY <1>3, <1>4
<1>6. m \in P
  BY <1>3, <1>5
<1> QED BY <1>2, <1>6

-----------------------------------------------------------------------------
(* Induction over the subsets of a finite set, and the sums of GoSketch.    *)

\* What holds of the empty set and of every set when it holds without one of
\* its members, here membership in P, holds of all subsets of a finite set.
LEMMA SubsetInduction ==
    ASSUME NEW S, IsFiniteSet(S), NEW P, {} \in P,
           \A T \in SUBSET S : T # {} => \E x \in T : T \ {x} \in P => T \in P
    PROVE  \A T \in SUBSET S : T \in P
<1> DEFINE Bad == {T \in SUBSET S : T \notin P}
           N == {Cardinality(T) : T \in Bad}
<1>1. SUFFICES ASSUME Bad # {} PROVE FALSE
  OBVIOUS
<1>2. \A T \in SUBSET S : IsFiniteSet(T) /\ Cardinality(T) \in Nat
  BY FS_Subset, FS_CardinalityType
<1>3. N \in SUBSET Nat /\ N # {}
  BY <1>1, <1>2
<1>4. PICK m \in N : \A y \in N : m <= y
  <2> HIDE DEF N
  <2> QED BY <1>3, LeastNumber
<1>5. PICK T \in Bad : m = Cardinality(T)
  BY <1>4
<1>6. T # {} /\ T \in SUBSET S /\ T \notin P /\ IsFiniteSet(T)
  BY <1>2, <1>5
<1>7. PICK x \in T : T \ {x} \in P => T \in P
  BY <1>6
<1>8. T \ {x} \in Bad
  BY <1>6, <1>7
<1>9. Cardinality(T \ {x}) = Cardinality(T) - 1
  BY <1>6, FS_RemoveElement
<1>10. Cardinality(T \ {x}) \in Nat /\ Cardinality(T) \in Nat /\ m <= Cardinality(T \ {x})
  BY <1>2, <1>4, <1>6, <1>8
<1> QED BY <1>5, <1>9, <1>10

\* One member and the others.
LEMMA SumInsert ==
    ASSUME NEW T, IsFiniteSet(T), NEW f, CountsOn(T, f), NEW x \in T
    PROVE  /\ SumOver(T, f) = f[x] + SumOver(T \ {x}, f)
           /\ SumOver(T \ {x}, f) \in Nat /\ f[x] \in Nat /\ IsFiniteSet(T \ {x})
<1>1. {x} \in SUBSET T /\ f[x] \in Nat /\ CountsOn(T \ {x}, f)
  BY DEF CountsOn
<1>2. SumOver(T, f) = SumOver({x}, f) + SumOver(T \ {x}, f)
  BY <1>1, SumSplit
<1>3. SumOver({x}, f) = f[x]
  BY <1>1, UnitsOfOne
<1>4. IsFiniteSet(T \ {x})
  BY FS_RemoveElement
<1>5. SumOver(T \ {x}, f) \in Nat
  BY <1>1, <1>4, SumFinite
<1> QED BY <1>1, <1>2, <1>3, <1>4, <1>5

\* A part sums to no more than the whole.
LEMMA SumPart ==
    ASSUME NEW S, IsFiniteSet(S), NEW f, CountsOn(S, f), NEW R \in SUBSET S
    PROVE  /\ SumOver(R, f) <= SumOver(S, f) /\ SumOver(R, f) \in Nat /\ SumOver(S, f) \in Nat
           /\ SumOver(S \ R, f) \in Nat /\ SumOver(S, f) = SumOver(R, f) + SumOver(S \ R, f)
<1>1. SumOver(S, f) = SumOver(R, f) + SumOver(S \ R, f)
  BY SumSplit
<1>2. /\ IsFiniteSet(R) /\ CountsOn(R, f)
      /\ IsFiniteSet(S \ R) /\ CountsOn(S \ R, f)
  BY FS_Subset, FS_Difference DEF CountsOn
<1>3. SumOver(R, f) \in Nat /\ SumOver(S \ R, f) \in Nat /\ SumOver(S, f) \in Nat
  BY <1>2, SumFinite
<1> QED BY <1>1, <1>3

\* Sums add up.
LEMMA SumAdd ==
    ASSUME NEW S, IsFiniteSet(S), NEW f, CountsOn(S, f), NEW g, CountsOn(S, g),
           NEW h, \A x \in S : h[x] = f[x] + g[x]
    PROVE  SumOver(S, h) = SumOver(S, f) + SumOver(S, g)
<1> DEFINE P == {T \in SUBSET S : SumOver(T, h) = SumOver(T, f) + SumOver(T, g)}
<1>1. {} \in P
  <2>1. SumOver({}, h) = 0 /\ SumOver({}, f) = 0 /\ SumOver({}, g) = 0
    BY SumNothing
  <2> QED BY <2>1
<1>2. ASSUME NEW T \in SUBSET S, NEW x \in T, T \ {x} \in P PROVE T \in P
  <2>1. /\ IsFiniteSet(T) /\ CountsOn(T, f) /\ CountsOn(T, g) /\ CountsOn(T, h)
        /\ h[x] = f[x] + g[x]
    BY FS_Subset DEF CountsOn
  <2>2. SumOver(T, f) = f[x] + SumOver(T \ {x}, f) /\ SumOver(T \ {x}, f) \in Nat /\ f[x] \in Nat
    BY <2>1, SumInsert
  <2>3. SumOver(T, g) = g[x] + SumOver(T \ {x}, g) /\ SumOver(T \ {x}, g) \in Nat /\ g[x] \in Nat
    BY <2>1, SumInsert
  <2>4. SumOver(T, h) = h[x] + SumOver(T \ {x}, h) /\ SumOver(T \ {x}, h) \in Nat
    BY <2>1, SumInsert
  <2>5. SumOver(T \ {x}, h) = SumOver(T \ {x}, f) + SumOver(T \ {x}, g)
    BY <1>2
  <2> QED BY <2>1, <2>2, <2>3, <2>4, <2>5
<1>3. \A T \in SUBSET S : T # {} => \E x \in T : T \ {x} \in P => T \in P
  BY <1>2
<1> HIDE DEF P
<1>4. \A T \in SUBSET S : T \in P
  BY <1>1, <1>3, SubsetInduction, ZenonT(60)
<1> QED BY <1>4 DEF P

\* Summed up by classes h: each class c, whose members are K[c], has the sum
\* g[c], and all classes together have the sum of their members, R.
LEMMA SumByClass ==
    ASSUME NEW S, IsFiniteSet(S), NEW f, CountsOn(S, f), NEW C, IsFiniteSet(C), NEW h,
           NEW K, \A c \in C : \A x : x \in K[c] <=> x \in S /\ h[x] = c,
           NEW g, \A c \in C : g[c] = SumOver(K[c], f),
           NEW R, \A x : x \in R <=> x \in S /\ h[x] \in C
    PROVE  SumOver(C, g) = SumOver(R, f) /\ CountsOn(C, g)
<1> DEFINE Q(D) == {x \in S : h[x] \in D}
           P == {D \in SUBSET C : SumOver(D, g) = SumOver(Q(D), f)}
<1>1. \A T \in SUBSET S : IsFiniteSet(T) /\ CountsOn(T, f) /\ SumOver(T, f) \in Nat
  BY FS_Subset, SumFinite DEF CountsOn
<1>2. CountsOn(C, g)
  <2> SUFFICES ASSUME NEW c \in C PROVE g[c] \in Nat
    BY DEF CountsOn
  <2>1. K[c] \in SUBSET S
    OBVIOUS
  <2> QED BY <1>1, <2>1
<1>3. {} \in P
  <2>1. Q({}) = {}
    OBVIOUS
  <2>2. SumOver({}, g) = 0 /\ SumOver({}, f) = 0
    BY SumNothing
  <2> QED BY <2>1, <2>2
<1>4. ASSUME NEW D \in SUBSET C, NEW c \in D, D \ {c} \in P PROVE D \in P
  <2>1. IsFiniteSet(D) /\ CountsOn(D, g)
    BY <1>2, FS_Subset DEF CountsOn
  <2>2. SumOver(D, g) = g[c] + SumOver(D \ {c}, g)
    BY <2>1, SumInsert
  <2>3. SumOver(D \ {c}, g) = SumOver(Q(D \ {c}), f)
    BY <1>4
  <2>4. Q(D) \in SUBSET S /\ Q(D \ {c}) \in SUBSET Q(D) /\ Q(D) \ Q(D \ {c}) = K[c]
    OBVIOUS
  <2> HIDE DEF Q
  <2>5. SumOver(Q(D), f) = SumOver(Q(D \ {c}), f) + SumOver(K[c], f)
    <3> DEFINE U == Q(D)
               V == Q(D \ {c})
    <3>1. IsFiniteSet(U) /\ CountsOn(U, f) /\ V \in SUBSET U
      BY <1>1, <2>4
    <3> HIDE DEF U, V
    <3>2. SumOver(U, f) = SumOver(V, f) + SumOver(U \ V, f)
      BY <3>1, SumSplit
    <3> QED BY <2>4, <3>2 DEF U, V
  <2>6. g[c] = SumOver(K[c], f) /\ g[c] \in Nat
    BY <1>2 DEF CountsOn
  <2>7. SumOver(Q(D \ {c}), f) \in Nat
    BY <1>1, <2>4
  <2>8. SumOver(D, g) = SumOver(Q(D), f)
    BY <2>2, <2>3, <2>5, <2>6, <2>7
  <2> QED BY <2>8
<1>5. \A T \in SUBSET C : T # {} => \E x \in T : T \ {x} \in P => T \in P
  BY <1>4
<1>6. \A T \in SUBSET C : T \in P
  <2> HIDE DEF P
  <2> QED BY <1>3, <1>5, SubsetInduction, ZenonT(60)
<1>7. Q(C) = R
  OBVIOUS
<1>8. SumOver(C, g) = SumOver(Q(C), f)
  BY <1>6
<1> QED BY <1>2, <1>7, <1>8

\* The recursive sum as an equation.
Sums(S, f, g) == g = [T \in SUBSET S |->
                        IF T = {} THEN 0 ELSE LET x == CHOOSE y \in T : TRUE IN f[x] + g[T \ {x}]]

\* SumOf is the number of units.
LEMMA SumOfUnits ==
    ASSUME NEW S, IsFiniteSet(S), NEW f, CountsOn(S, f)
    PROVE  SumOf(f, S) = SumOver(S, f)
<1>1. \A T \in SUBSET S : IsFiniteSet(T) /\ CountsOn(T, f)
  BY FS_Subset DEF CountsOn
<1>2. \E g : Sums(S, f, g)
  <2> DEFINE g == [T \in SUBSET S |-> SumOver(T, f)]
  <2>1. ASSUME NEW T \in SUBSET S
        PROVE  g[T] = IF T = {} THEN 0 ELSE LET x == CHOOSE y \in T : TRUE IN f[x] + g[T \ {x}]
    <3>1. CASE T = {}
      BY <3>1, SumNothing
    <3>2. CASE T # {}
      <4> DEFINE x == CHOOSE y \in T : TRUE
      <4>1. x \in T
        BY <3>2
      <4> HIDE DEF x
      <4>2. SumOver(T, f) = f[x] + SumOver(T \ {x}, f)
        BY <1>1, <4>1, SumInsert
      <4>3. g[T] = f[x] + g[T \ {x}]
        BY <4>2
      <4> QED BY <3>2, <4>3 DEF x
    <3> QED BY <3>1, <3>2
  <2>2. Sums(S, f, g)
    <3> DEFINE k == [T \in SUBSET S |->
                       IF T = {} THEN 0 ELSE LET x == CHOOSE y \in T : TRUE IN f[x] + g[T \ {x}]]
    <3>1. \A T \in SUBSET S : g[T] = k[T]
      BY <2>1
    <3>2. DOMAIN g = SUBSET S /\ DOMAIN k = SUBSET S
      OBVIOUS
    <3>3. g = k
      BY <3>1
    <3> QED BY <3>3 DEF Sums
  <2> HIDE DEF g
  <2> QED BY <2>2
<1>3. PICK g : Sums(S, f, g) /\ SumOf(f, S) = g[S]
  BY <1>2, Zenon DEF SumOf, Sums
<1>4. \A T \in SUBSET S : g[T] = IF T = {} THEN 0
                                 ELSE LET x == CHOOSE y \in T : TRUE IN f[x] + g[T \ {x}]
  BY <1>3 DEF Sums
<1> DEFINE P == {T \in SUBSET S : g[T] = SumOver(T, f)}
<1>5. {} \in P
  BY <1>4, SumNothing
<1>6. ASSUME NEW T \in SUBSET S, T # {} PROVE \E x \in T : T \ {x} \in P => T \in P
  <2> DEFINE x == CHOOSE y \in T : TRUE
  <2>1. x \in T
    BY <1>6
  <2>2. g[T] = f[x] + g[T \ {x}]
    BY <1>4, <1>6
  <2> HIDE DEF x
  <2>3. SumOver(T, f) = f[x] + SumOver(T \ {x}, f)
    BY <1>1, <2>1, SumInsert
  <2>4. T \ {x} \in P => T \in P
    BY <2>2, <2>3
  <2> QED BY <2>1, <2>4
<1> HIDE DEF P
<1>7. \A T \in SUBSET S : T \in P
  BY <1>5, <1>6, SubsetInduction, ZenonT(60)
<1> QED BY <1>3, <1>7 DEF P

\* A finite set of integers has a least and a greatest member.
LEMMA Extremes ==
    ASSUME NEW S, IsFiniteSet(S), S \in SUBSET Int
    PROVE  \A T \in SUBSET S : T # {} => /\ \E m \in T : \A y \in T : m <= y
                                         /\ \E m \in T : \A y \in T : y <= m
<1> DEFINE Low(T) == \E m \in T : \A y \in T : m <= y
           High(T) == \E m \in T : \A y \in T : y <= m
           P == {T \in SUBSET S : T # {} => Low(T) /\ High(T)}
<1>1. {} \in P
  OBVIOUS
<1>2. ASSUME NEW T \in SUBSET S, NEW x \in T, T \ {x} \in P PROVE T \in P
  <2>1. CASE T \ {x} = {}
    <3>1. T = {x} /\ x \in Int
      BY <2>1
    <3>2. Low(T) /\ High(T)
      BY <3>1
    <3> QED BY <3>2
  <2>2. CASE T \ {x} # {}
    <3>1. PICK a \in T \ {x} : \A y \in T \ {x} : a <= y
      BY <1>2, <2>2
    <3>2. PICK b \in T \ {x} : \A y \in T \ {x} : y <= b
      BY <1>2, <2>2
    <3>3. \A y \in T : y \in Int /\ (y = x \/ (a <= y /\ y <= b))
      BY <3>1, <3>2
    <3>4. a \in Int /\ b \in Int /\ x \in Int
      OBVIOUS
    <3>5. Low(T)
      <4>1. CASE x <= a
        <5>1. \A y \in T : x <= y
          BY <3>3, <3>4, <4>1
        <5> QED BY <5>1
      <4>2. CASE ~(x <= a)
        <5>1. \A y \in T : a <= y
          BY <3>3, <3>4, <4>2
        <5> QED BY <5>1
      <4> QED BY <4>1, <4>2
    <3>6. High(T)
      <4>1. CASE b <= x
        <5>1. \A y \in T : y <= x
          BY <3>3, <3>4, <4>1
        <5> QED BY <5>1
      <4>2. CASE ~(b <= x)
        <5>1. \A y \in T : y <= b
          BY <3>3, <3>4, <4>2
        <5> QED BY <5>1
      <4> QED BY <4>1, <4>2
    <3> QED BY <3>5, <3>6
  <2> QED BY <2>1, <2>2
<1>3. \A T \in SUBSET S : T # {} => \E x \in T : T \ {x} \in P => T \in P
  BY <1>2
<1>4. \A T \in SUBSET S : T \in P
  <2> HIDE DEF P
  <2> QED BY <1>1, <1>3, SubsetInduction, ZenonT(60)
<1> QED BY <1>4

\* Of a finite set of integers X counted by f, every rank has its value.
AtMost(X, v) == {x \in X : x <= v}
LessThan(X, v) == {x \in X : x < v}
LEMMA RankMember ==
    ASSUME NEW X, IsFiniteSet(X), X \in SUBSET Int, NEW f, CountsOn(X, f),
           NEW r \in Nat, r >= 1, r <= SumOver(X, f)
    PROVE  \E v \in X : /\ f[v] > 0 /\ f[v] \in Nat
                        /\ SumOver(LessThan(X, v), f) < r /\ r <= SumOver(AtMost(X, v), f)
                        /\ SumOver(LessThan(X, v), f) \in Nat /\ SumOver(AtMost(X, v), f) \in Nat
<1> DEFINE U(v) == SumOver(AtMost(X, v), f)
           B(v) == SumOver(LessThan(X, v), f)
           A == {v \in X : U(v) >= r}
<1>2. ASSUME NEW S \in SUBSET X PROVE IsFiniteSet(S) /\ CountsOn(S, f) /\ SumOver(S, f) \in Nat
  <2>1. IsFiniteSet(S) /\ CountsOn(S, f)
    BY FS_Subset DEF CountsOn
  <2> QED BY <2>1, SumFinite
<1>3. \A T \in SUBSET X : T # {} => /\ \E m \in T : \A y \in T : m <= y
                                    /\ \E m \in T : \A y \in T : y <= m
  BY Extremes
<1>4. \A v : U(v) \in Nat /\ B(v) \in Nat
  BY <1>2 DEF AtMost, LessThan
<1>5. A # {}
  <2>1. X # {}
    <3>1. SumOver({}, f) = 0
      BY SumNothing
    <3> QED BY <3>1
  <2>2. PICK m \in X : \A y \in X : y <= m
    BY <1>3, <2>1
  <2>3. AtMost(X, m) = X
    BY <2>2 DEF AtMost
  <2>4. U(m) = SumOver(X, f)
    BY <2>3
  <2>5. SumOver(X, f) \in Nat
    BY <1>2
  <2> QED BY <2>4, <2>5
<1>6. PICK v \in A : \A y \in A : v <= y
  <2>1. A \in SUBSET X
    OBVIOUS
  <2> HIDE DEF A
  <2> QED BY <1>3, <1>5, <2>1
<1>7. v \in X /\ v \in Int /\ U(v) >= r
  BY <1>6
<1>8. B(v) < r
  <2> SUFFICES ASSUME B(v) >= r PROVE FALSE
    BY <1>4
  <2> DEFINE L == LessThan(X, v)
  <2>1. L # {}
    <3>1. SumOver({}, f) = 0
      BY SumNothing
    <3> QED BY <3>1
  <2>2. L \in SUBSET X
    BY DEF LessThan
  <2>3. PICK m \in L : \A y \in L : y <= m
    <3> HIDE DEF L
    <3> QED BY <1>3, <2>1, <2>2
  <2>4. m \in X /\ m \in Int /\ m < v
    BY <2>3 DEF LessThan
  <2>5. AtMost(X, m) = L
    <3>1. \A x \in X : x \in Int /\ (x <= m <=> x < v)
      BY <1>7, <2>3, <2>4 DEF LessThan
    <3> QED BY <3>1 DEF AtMost, LessThan
  <2>6. U(m) = B(v)
    BY <2>5
  <2>7. m \in A
    BY <2>4, <2>6
  <2> QED BY <1>6, <1>7, <2>4, <2>7
<1>9. f[v] > 0 /\ f[v] \in Nat
  <2> DEFINE T == AtMost(X, v)
  <2>1. T \in SUBSET X /\ v \in T
    BY <1>7 DEF AtMost
  <2>2. T \ {v} = LessThan(X, v)
    <3>1. \A x \in X : x \in Int /\ ((x <= v /\ x # v) <=> x < v)
      BY <1>7
    <3> QED BY <3>1 DEF AtMost, LessThan
  <2>3. U(v) = SumOver(T, f) /\ B(v) = SumOver(T \ {v}, f)
    BY <2>2
  <2> HIDE DEF T
  <2>4. IsFiniteSet(T) /\ CountsOn(T, f)
    BY <1>2, <2>1
  <2>5. SumOver(T, f) = f[v] + SumOver(T \ {v}, f) /\ f[v] \in Nat
    BY <2>1, <2>4, SumInsert
  <2> QED BY <1>4, <1>7, <1>8, <2>3, <2>5
<1> QED BY <1>4, <1>7, <1>8, <1>9

-----------------------------------------------------------------------------
(* Counters that wrap around.                                               *)

\* Division with remainder.
LEMMA Remainder ==
    ASSUME NEW n \in Nat, NEW w \in Nat \ {0}
    PROVE  n % w \in Nat /\ n % w < w /\ \E q \in Nat : n = (w * q) + (n % w)
<1>1. PICK r \in Nat : r = n % w /\ r < w
  OBVIOUS
<1>2. PICK q \in Nat : q = n \div w
  OBVIOUS
<1>3. n % w = n - w * (n \div w)
  BY SMTT(60)
<1>4. n = w * q + r
  <2>1. r = n - w * q
    BY <1>1, <1>2, <1>3, Zenon
  <2>2. w * q \in Nat
    OBVIOUS
  <2> QED BY <2>1, <2>2
<1>5. \E x \in Nat : n = w * x + r
  BY <1>4
<1> QED BY <1>1, <1>5, Zenon

\* A remainder is determined by what it leaves.
LEMMA RemainderIs ==
    ASSUME NEW w \in Nat \ {0}, NEW q \in Nat, NEW r \in Nat, r < w,
           NEW n \in Nat, n = w * q + r
    PROVE  n % w = r
  OBVIOUS

\* Wrapping early or late is the same.
LEMMA WrapAdd ==
    ASSUME NEW a \in Nat, NEW b \in Nat, NEW w \in Nat \ {0}
    PROVE  ((a % w) + b) % w = (a + b) % w
<1> DEFINE x == a % w
           y == (x + b) % w
<1>1. x \in Nat /\ \E q \in Nat : a = w * q + x
  BY Remainder
<1>2. PICK k \in Nat : a = w * k + x
  BY <1>1
<1> HIDE DEF x
<1>3. y \in Nat /\ y < w /\ \E q \in Nat : x + b = w * q + y
  <2> DEFINE z == x + b
  <2>1. z \in Nat
    BY <1>1
  <2> HIDE DEF z
  <2>2. z % w \in Nat /\ z % w < w /\ \E q \in Nat : z = (w * q) + (z % w)
    BY <2>1, Remainder
  <2>3. y = z % w
    BY DEF z
  <2> QED BY <2>2, <2>3, Zenon DEF z
<1>4. PICK m \in Nat : x + b = w * m + y
  BY <1>3
<1> HIDE DEF y
<1>5. w * (k + m) = w * k + w * m /\ w * k \in Nat /\ w * m \in Nat /\ k + m \in Nat
  OBVIOUS
<1>6. a + b = w * (k + m) + y /\ a + b \in Nat
  BY <1>1, <1>2, <1>3, <1>4, <1>5
<1>7. (a + b) % w = y
  <2> DEFINE n == a + b
             q == k + m
  <2>1. n \in Nat /\ q \in Nat /\ n = w * q + y
    BY <1>5, <1>6
  <2> HIDE DEF n, q
  <2>2. n % w = y
    BY <1>3, <2>1, RemainderIs
  <2> QED BY <2>2, Zenon DEF n
<1> QED BY <1>7, Zenon DEF x, y

\* The same of both summands, and of a counter that did not wrap.
LEMMA WrapBoth ==
    ASSUME NEW a \in Nat, NEW b \in Nat, NEW w \in Nat \ {0}
    PROVE  ((a % w) + (b % w)) % w = (a + b) % w
<1>1. PICK c \in Nat : c = b % w
  BY Remainder
<1>2. ((b % w) + a) % w = (b + a) % w
  BY WrapAdd
<1>3. ((a % w) + c) % w = (a + c) % w
  BY WrapAdd
<1>4. a + c = c + a /\ a + b = b + a
  OBVIOUS
<1>5. (c + a) % w = (b + a) % w
  BY <1>1, <1>2, Zenon
<1>6. ((a % w) + c) % w = (a + b) % w
  BY <1>3, <1>4, <1>5, Zenon
<1> QED BY <1>1, <1>6, Zenon

\* A counter that has not reached the word size has not wrapped.
LEMMA WrapSmall ==
    ASSUME NEW a \in Nat, NEW w \in Nat \ {0}, a < w
    PROVE  a % w = a
<1>1. a = w * 0 + a
  OBVIOUS
<1> QED BY <1>1, RemainderIs

\* A sum of wrapped counters wraps to the wrapped sum.
LEMMA SumWrapped ==
    ASSUME NEW S, IsFiniteSet(S), NEW f, CountsOn(S, f), NEW w \in Nat \ {0},
           NEW g, \A x \in S : g[x] = f[x] % w
    PROVE  (SumOver(S, g) % w) = (SumOver(S, f) % w) /\ CountsOn(S, g)
<1> DEFINE P == {T \in SUBSET S : SumOver(T, g) % w = SumOver(T, f) % w}
<1>1. CountsOn(S, g)
  BY Remainder DEF CountsOn
<1>2. {} \in P
  <2>1. SumOver({}, f) = 0 /\ SumOver({}, g) = 0
    BY SumNothing
  <2> QED BY <2>1
<1>3. ASSUME NEW T \in SUBSET S, NEW x \in T, T \ {x} \in P PROVE T \in P
  <2> DEFINE a == SumOver(T \ {x}, f)
             b == SumOver(T \ {x}, g)
             c == f[x]
             d == g[x]
  <2>1. IsFiniteSet(T) /\ CountsOn(T, f) /\ CountsOn(T, g)
    BY <1>1, FS_Subset DEF CountsOn
  <2>2. SumOver(T, f) = c + a /\ a \in Nat /\ c \in Nat
    BY <2>1, SumInsert
  <2>3. SumOver(T, g) = d + b /\ b \in Nat /\ d \in Nat
    BY <2>1, SumInsert
  <2>4. b % w = a % w /\ d = c % w
    BY <1>3
  <2> HIDE DEF a, b, c, d
  <2>5. (d + b) % w = (c + b) % w
    BY <2>2, <2>3, <2>4, WrapAdd
  <2>6. ((b % w) + c) % w = (b + c) % w /\ ((a % w) + c) % w = (a + c) % w
    BY <2>2, <2>3, WrapAdd
  <2>7. c + b = b + c /\ c + a = a + c
    BY <2>2, <2>3
  <2>8. SumOver(T, g) % w = SumOver(T, f) % w
    BY <2>2, <2>3, <2>4, <2>5, <2>6, <2>7
  <2> QED BY <2>8
<1>4. \A T \in SUBSET S : T # {} => \E x \in T : T \ {x} \in P => T \in P
  BY <1>3
<1>5. S \in P
  <2>1. {} \in P /\ \A T \in SUBSET S : T # {} => \E x \in T : T \ {x} \in P => T \in P
    BY <1>2, <1>4
  <2> HIDE DEF P
  <2>2. \A T \in SUBSET S : T \in P
    BY <2>1, SubsetInduction, ZenonT(60)
  <2> QED BY <2>2
<1> QED BY <1>1, <1>5

\* Rounding up.
LEMMA Ceiling ==
    ASSUME NEW a \in Nat, NEW b \in Nat \ {0}, NEW c, c = (a + b - 1) \div b
    PROVE  /\ c \in Nat /\ a <= b * c /\ (c > 0 => b * (c - 1) < a)
           /\ \A n \in Nat : a <= b * n => c <= n
<1> DEFINE n == a + b - 1
<1>1. n \in Nat
  OBVIOUS
<1>2. c = n \div b
  OBVIOUS
<1> HIDE DEF n
<1>3. c \in Nat
  BY <1>1, <1>2
<1>4. n % b = n - (b * (n \div b))
  BY <1>1, SMTT(60)
<1>5. n % b \in Nat /\ n % b < b
  BY <1>1, Remainder
<1> DEFINE r == n % b
           p == b * c
<1>6. r = n - p /\ r \in Nat /\ r < b
  BY <1>2, <1>4, <1>5
<1>7. p \in Nat
  BY <1>3
<1> HIDE DEF r
<1>8. a <= p /\ p - b < a
  <2> HIDE DEF p
  <2> QED BY <1>6, <1>7 DEF n
<1>9. b * (c - 1) = p - b
  BY <1>3
<1>10. ASSUME NEW m \in Nat, a <= b * m PROVE c <= m
  <2> SUFFICES ASSUME m + 1 <= c PROVE FALSE
    BY <1>3
  <2>1. PICK e \in Nat : c = m + 1 + e
    BY <1>3
  <2>2. p = (b * m) + b + (b * e) /\ b * e \in Nat /\ b * m \in Nat
    BY <2>1
  <2> HIDE DEF p
  <2> QED BY <1>7, <1>8, <1>10, <2>2
<1> QED BY <1>3, <1>8, <1>9, <1>10

-----------------------------------------------------------------------------
(* OtelExporter: exact deltas, acknowledgements and histograms.             *)

OXSpec == OXInit /\ [][OXNext]_oxVars

\* The types of a payload, of a call and of the rest.
OXPayload == [kind : {"none", "metrics", "traces", "logs"}, value : Nat,
              hist : OXHistogram \cup {<<>>}, n : Nat]
OXCall == [pc : {"idle", "post"}, payload : OXPayload, lat : Nat, ev : Nat, sent : Nat]
OXTypes ==
    /\ oxCfg \in OXConfigs /\ oxCfg.max \in Nat \ {0}
    /\ oxSums \in Nat \cup {-1}
    /\ oxW \in [OXWorker -> OXCall]
    /\ oxSource \in [value : Nat, true : Nat, known : BOOLEAN]
    /\ oxServer \in [events : Nat, lat : Nat, logs : Nat]
    /\ oxAgain \in SUBSET OXPayload
    /\ oxDue \in [lat : Nat, logs : Nat] /\ oxCalm \in BOOLEAN

\* What a call has in hand is what its payload was turned into.
CallOK(b) ==
    /\ b.sent <= ItemsOf(b)
    /\ b.pc = "idle" => b.payload.kind = "none" /\ b.lat = 0 /\ b.ev = 0
    /\ b.pc = "post" => b.payload.kind # "none"
    /\ b.payload.kind = "traces" => b.ev = 0
    /\ b.payload.kind = "logs" => b.ev = b.payload.n
CallsOK == \A w \in OXWorker : CallOK(oxW[w])

\* Of a call, the latencies and events that were posted.
PostedLat(b) == Smaller(b.sent, b.lat)
PostedEv(b) == IF b.sent > b.lat THEN b.ev ELSE 0

\* Of all calls W: latencies and log records posted, events still to be posted.
LatIn(W) == [w \in OXWorker |-> PostedLat(W[w])]
LogsIn(W) == [w \in OXWorker |-> IF W[w].payload.kind = "logs" THEN PostedEv(W[w]) ELSE 0]
EventsLeft(W) == [w \in OXWorker |-> IF W[w].payload.kind = "logs" THEN 0 ELSE W[w].ev - PostedEv(W[w])]

\* The server has what was acknowledged and what the calls in progress posted.
Arrived ==
    /\ oxServer.lat >= oxDue.lat + SumOver(OXWorker, LatIn(oxW))
    /\ oxServer.logs >= oxDue.logs + SumOver(OXWorker, LogsIn(oxW))

\* While all is calm, the values on their way are not older than the one seen
\* last, the first value sent is the first one seen, and what the server has
\* and the calls still have to post is what the source counted in between.
InOrder ==
    /\ oxSource.true <= oxSource.value
    /\ \A q \in oxAgain : /\ q.kind = "metrics" /\ q.value <= oxSource.value
                          /\ oxSource.value - oxSource.true <= q.value
    /\ ~oxSource.known => oxSource.true = 0 /\ oxAgain = {}
    /\ oxSums = -1 =>
         /\ oxServer.events + SumOver(OXWorker, EventsLeft(oxW)) = 0
         /\ oxSource.known => \E q \in oxAgain : q.value = oxSource.value - oxSource.true
    /\ oxSums >= 0 =>
         /\ oxSource.known /\ oxSums <= oxSource.value
         /\ \A q \in oxAgain : oxSums <= q.value
         /\ oxServer.events + SumOver(OXWorker, EventsLeft(oxW))
              = oxSource.true - (oxSource.value - oxSums)

OXInv == OXTypes /\ CallsOK /\ Arrived /\ (oxCalm /\ Mapped("requests", "event") => InOrder)

\* What was posted of a call is part of it.
LEMMA PostedTypes ==
    ASSUME NEW b \in OXCall
    PROVE  /\ PostedLat(b) \in Nat /\ PostedEv(b) \in Nat /\ b.ev - PostedEv(b) \in Nat
           /\ ItemsOf(b) \in Nat
BY DEF OXCall, PostedLat, PostedEv, Smaller, ItemsOf

\* All sums over calls are numbers, and one call that becomes b changes them
\* by what b differs from it.
LEMMA CallChanges ==
    ASSUME NEW W \in [OXWorker -> OXCall], NEW w \in OXWorker, NEW b \in OXCall,
           NEW V, V = [W EXCEPT ![w] = b]
    PROVE  /\ V \in [OXWorker -> OXCall]
           /\ SumOver(OXWorker, LatIn(W)) \in Nat /\ SumOver(OXWorker, LatIn(V)) \in Nat
           /\ SumOver(OXWorker, LogsIn(W)) \in Nat /\ SumOver(OXWorker, LogsIn(V)) \in Nat
           /\ SumOver(OXWorker, EventsLeft(W)) \in Nat /\ SumOver(OXWorker, EventsLeft(V)) \in Nat
           /\ SumOver(OXWorker, LatIn(V)) + LatIn(W)[w] = SumOver(OXWorker, LatIn(W)) + LatIn(V)[w]
           /\ SumOver(OXWorker, LogsIn(V)) + LogsIn(W)[w] = SumOver(OXWorker, LogsIn(W)) + LogsIn(V)[w]
           /\ SumOver(OXWorker, EventsLeft(V)) + EventsLeft(W)[w]
                = SumOver(OXWorker, EventsLeft(W)) + EventsLeft(V)[w]
<1>1. V \in [OXWorker -> OXCall] /\ \A v \in OXWorker \ {w} : V[v] = W[v]
  OBVIOUS
<1>2. \A X \in [OXWorker -> OXCall] : /\ CountsOn(OXWorker, LatIn(X)) /\ CountsOn(OXWorker, LogsIn(X))
                                      /\ CountsOn(OXWorker, EventsLeft(X))
  <2> SUFFICES ASSUME NEW X \in [OXWorker -> OXCall], NEW v \in OXWorker
               PROVE  LatIn(X)[v] \in Nat /\ LogsIn(X)[v] \in Nat /\ EventsLeft(X)[v] \in Nat
    BY DEF CountsOn
  <2>1. X[v] \in OXCall
    OBVIOUS
  <2>2. PostedLat(X[v]) \in Nat /\ PostedEv(X[v]) \in Nat /\ X[v].ev - PostedEv(X[v]) \in Nat
    BY <2>1, PostedTypes
  <2> QED BY <2>2 DEF LatIn, LogsIn, EventsLeft
<1>3. IsFiniteSet(OXWorker)
  BY OXAssumption
<1>4. \A v \in OXWorker \ {w} : /\ LatIn(V)[v] = LatIn(W)[v] /\ LogsIn(V)[v] = LogsIn(W)[v]
                                /\ EventsLeft(V)[v] = EventsLeft(W)[v]
  BY <1>1 DEF LatIn, LogsIn, EventsLeft
<1>5. /\ SumOver(OXWorker, LatIn(W)) \in Nat /\ SumOver(OXWorker, LatIn(V)) \in Nat
      /\ SumOver(OXWorker, LatIn(V)) + LatIn(W)[w] = SumOver(OXWorker, LatIn(W)) + LatIn(V)[w]
  <2> DEFINE f == LatIn(W)
             g == LatIn(V)
  <2>1. CountsOn(OXWorker, f) /\ CountsOn(OXWorker, g) /\ \A v \in OXWorker \ {w} : g[v] = f[v]
    BY <1>1, <1>2, <1>4
  <2> HIDE DEF f, g
  <2>2. /\ SumOver(OXWorker, f) \in Nat /\ SumOver(OXWorker, g) \in Nat
        /\ SumOver(OXWorker, g) + f[w] = SumOver(OXWorker, f) + g[w]
    BY <1>3, <2>1, SumChange
  <2> QED BY <2>2 DEF f, g
<1>6. /\ SumOver(OXWorker, LogsIn(W)) \in Nat /\ SumOver(OXWorker, LogsIn(V)) \in Nat
      /\ SumOver(OXWorker, LogsIn(V)) + LogsIn(W)[w] = SumOver(OXWorker, LogsIn(W)) + LogsIn(V)[w]
  <2> DEFINE f == LogsIn(W)
             g == LogsIn(V)
  <2>1. CountsOn(OXWorker, f) /\ CountsOn(OXWorker, g) /\ \A v \in OXWorker \ {w} : g[v] = f[v]
    BY <1>1, <1>2, <1>4
  <2> HIDE DEF f, g
  <2>2. /\ SumOver(OXWorker, f) \in Nat /\ SumOver(OXWorker, g) \in Nat
        /\ SumOver(OXWorker, g) + f[w] = SumOver(OXWorker, f) + g[w]
    BY <1>3, <2>1, SumChange
  <2> QED BY <2>2 DEF f, g
<1>7. /\ SumOver(OXWorker, EventsLeft(W)) \in Nat /\ SumOver(OXWorker, EventsLeft(V)) \in Nat
      /\ SumOver(OXWorker, EventsLeft(V)) + EventsLeft(W)[w]
           = SumOver(OXWorker, EventsLeft(W)) + EventsLeft(V)[w]
  <2> DEFINE f == EventsLeft(W)
             g == EventsLeft(V)
  <2>1. CountsOn(OXWorker, f) /\ CountsOn(OXWorker, g) /\ \A v \in OXWorker \ {w} : g[v] = f[v]
    BY <1>1, <1>2, <1>4
  <2> HIDE DEF f, g
  <2>2. /\ SumOver(OXWorker, f) \in Nat /\ SumOver(OXWorker, g) \in Nat
        /\ SumOver(OXWorker, g) + f[w] = SumOver(OXWorker, f) + g[w]
    BY <1>3, <2>1, SumChange
  <2> QED BY <2>2 DEF f, g
<1> QED BY <1>1, <1>5, <1>6, <1>7

\* A chunk holds counts.
LEMMA ChunkCounts ==
    ASSUME OXTypes, NEW b \in OXCall, b.sent < ItemsOf(b)
    PROVE  splitBatch(b).lat \in Nat /\ splitBatch(b).ev \in Nat
<1> DEFINE upto == Smaller(b.sent + oxCfg.max, ItemsOf(b))
<1>1. b.lat \in Nat /\ b.ev \in Nat /\ b.sent \in Nat /\ ItemsOf(b) \in Nat /\ oxCfg.max \in Nat \ {0}
  BY PostedTypes DEF OXCall, OXTypes
<1>2. upto \in Nat /\ b.sent < upto
  BY <1>1 DEF Smaller
<1>3. /\ splitBatch(b).lat = Smaller(upto, b.lat) - Smaller(b.sent, b.lat)
      /\ splitBatch(b).ev = IF b.sent <= b.lat /\ b.lat < upto THEN b.ev ELSE 0
  BY DEF splitBatch
<1> HIDE DEF upto
<1> QED BY <1>1, <1>2, <1>3 DEF Smaller

\* The next chunk of a call is what is posted of it next.
LEMMA NextChunk ==
    ASSUME OXTypes, NEW b \in OXCall, b.sent < ItemsOf(b)
    PROVE  LET c == splitBatch(b)
               d == [b EXCEPT !.sent = c.upto]
           IN  /\ d \in OXCall /\ d.sent <= ItemsOf(d) /\ ItemsOf(d) = ItemsOf(b)
               /\ c.lat \in Nat /\ c.ev \in Nat
               /\ PostedLat(d) = PostedLat(b) + c.lat
               /\ PostedEv(d) = PostedEv(b) + c.ev
<1> DEFINE c == splitBatch(b)
           d == [b EXCEPT !.sent = c.upto]
           upto == Smaller(b.sent + oxCfg.max, ItemsOf(b))
<1>1. b.lat \in Nat /\ b.ev \in Nat /\ b.sent \in Nat /\ ItemsOf(b) \in Nat /\ oxCfg.max \in Nat \ {0}
  BY PostedTypes DEF OXCall, OXTypes
<1>2. upto \in Nat /\ b.sent < upto /\ upto <= ItemsOf(b)
  BY <1>1 DEF Smaller
<1>3. c = [lat |-> Smaller(upto, b.lat) - Smaller(b.sent, b.lat),
           ev |-> IF b.sent <= b.lat /\ b.lat < upto THEN b.ev ELSE 0, upto |-> upto]
  BY DEF splitBatch
<1>4. d \in OXCall /\ d.sent = upto /\ d.lat = b.lat /\ d.ev = b.ev
  BY <1>2, <1>3 DEF OXCall
<1> HIDE DEF c, d, upto
<1>5. ItemsOf(d) = ItemsOf(b)
  BY <1>4 DEF ItemsOf
<1>6. c.lat \in Nat /\ PostedLat(d) = PostedLat(b) + c.lat
  BY <1>1, <1>2, <1>3, <1>4 DEF PostedLat, Smaller
<1>7. c.ev \in Nat /\ PostedEv(d) = PostedEv(b) + c.ev
  BY <1>1, <1>2, <1>3, <1>4 DEF PostedEv
<1> QED BY <1>2, <1>4, <1>5, <1>6, <1>7 DEF c, d

\* What the totals of a list's prefixes are, as an equation with a solution.
Totals(h, n, f) == f = [k \in 0 .. n |-> IF k = 0 THEN 0 ELSE f[k - 1] + h[k]]
\* Every list has the totals of its prefixes.
LEMMA TotalsExist ==
    ASSUME NEW h, NEW n \in Nat
    PROVE  \E f : Totals(h, n, f)
<1> DEFINE P == {m \in Nat : \E f : Totals(h, m, f)}
<1>1. 0 \in P
  <2> DEFINE f == [k \in 0 .. 0 |-> 0]
  <2>1. Totals(h, 0, f)
    BY DEF Totals
  <2> QED BY <2>1
<1>2. ASSUME NEW m \in 0 .. n - 1, m \in P PROVE m + 1 \in P
  <2>1. PICK f : Totals(h, m, f)
    BY <1>2
  <2> DEFINE g == [k \in 0 .. m + 1 |-> IF k = m + 1 THEN f[m] + h[m + 1] ELSE f[k]]
  <2>2. ASSUME NEW k \in 0 .. m + 1
        PROVE  g[k] = IF k = 0 THEN 0 ELSE g[k - 1] + h[k]
    <3>1. CASE k = m + 1
      BY <3>1
    <3>2. CASE k # m + 1
      <4>1. k \in 0 .. m /\ g[k] = f[k] /\ (k # 0 => k - 1 \in 0 .. m /\ g[k - 1] = f[k - 1])
        BY <3>2
      <4>2. f[k] = IF k = 0 THEN 0 ELSE f[k - 1] + h[k]
        BY <2>1, <4>1 DEF Totals
      <4> QED BY <4>1, <4>2
    <3> QED BY <3>1, <3>2
  <2>3. Totals(h, m + 1, g)
    BY <2>2 DEF Totals
  <2> QED BY <2>3
<1> HIDE DEF P
<1>3. n \in P
  BY <1>1, <1>2, AllPositions
<1> QED BY <1>3 DEF P

\* The total of a list is its own.
LEMMA HistogramTotal ==
    ASSUME NEW h \in Seq(Nat)
    PROVE  \E f : /\ HistogramCount(h) = f[Len(h)] /\ f[0] = 0
                  /\ \A k \in 0 .. Len(h) - 1 : f[k + 1] = f[k] + h[k + 1]
<1>1. Len(h) \in Nat
  OBVIOUS
<1>2. \E g : g = [k \in 0 .. Len(h) |-> IF k = 0 THEN 0 ELSE g[k - 1] + h[k]]
  BY <1>1, TotalsExist DEF Totals
<1>3. PICK f : Totals(h, Len(h), f) /\ HistogramCount(h) = f[Len(h)]
  BY <1>2, Zenon DEF HistogramCount, Totals
<1>4. \A k \in 0 .. Len(h) : f[k] = IF k = 0 THEN 0 ELSE f[k - 1] + h[k]
  BY <1>3 DEF Totals
<1>5. f[0] = 0
  BY <1>1, <1>4
<1>6. ASSUME NEW k \in 0 .. Len(h) - 1 PROVE f[k + 1] = f[k] + h[k + 1]
  <2>1. k + 1 \in 0 .. Len(h) /\ k + 1 # 0 /\ (k + 1) - 1 = k
    BY <1>1
  <2> QED BY <1>4, <2>1
<1> QED BY <1>3, <1>5, <1>6

\* A total of counts is a count, and nothing comes of nothing.
LEMMA HistogramCounts ==
    ASSUME NEW h \in Seq(Nat)
    PROVE  /\ HistogramCount(h) \in Nat
           /\ HistogramCount(h) > 0 => \E i \in 1 .. Len(h) : h[i] > 0
<1>1. PICK f : /\ HistogramCount(h) = f[Len(h)] /\ f[0] = 0
               /\ \A k \in 0 .. Len(h) - 1 : f[k + 1] = f[k] + h[k + 1]
  BY HistogramTotal
<1>2. Len(h) \in Nat /\ \A i \in 1 .. Len(h) : h[i] \in Nat
  OBVIOUS
<1> DEFINE n == Len(h)
           P == {k \in Nat : f[k] \in Nat /\ (f[k] > 0 => \E i \in 1 .. k : h[i] > 0)}
<1>3. 0 \in P
  BY <1>1
<1>4. ASSUME NEW k \in 0 .. n - 1, k \in P PROVE k + 1 \in P
  <2>1. f[k] \in Nat /\ (f[k] > 0 => \E i \in 1 .. k : h[i] > 0)
    BY <1>4
  <2>2. h[k + 1] \in Nat /\ f[k + 1] = f[k] + h[k + 1] /\ k + 1 \in Nat
    BY <1>1, <1>2
  <2>3. f[k + 1] \in Nat
    BY <2>1, <2>2
  <2>4. ASSUME f[k + 1] > 0 PROVE \E i \in 1 .. k + 1 : h[i] > 0
    <3>1. CASE f[k] > 0
      BY <2>1, <3>1
    <3>2. CASE ~(f[k] > 0)
      <4>1. h[k + 1] > 0 /\ k + 1 \in 1 .. k + 1
        BY <2>1, <2>2, <2>4, <3>2
      <4> QED BY <4>1
    <3> QED BY <3>1, <3>2
  <2> QED BY <2>2, <2>3, <2>4
<1>5. n \in Nat
  BY <1>2
<1> HIDE DEF P, n
<1>6. \A k \in 0 .. n : k \in P
  BY <1>3, <1>4, <1>5, AllPositions
<1>7. n \in P
  BY <1>5, <1>6
<1> QED BY <1>1, <1>7 DEF P, n

\* How far the limit is used up, as an equation with a solution.
Uses(h, count, max, n, f) ==
    f = [k \in 0 .. n |-> IF k = 0 THEN 0 ELSE f[k - 1] + Taken(h[k], count, max, f[k - 1])]
\* Every list has the running use of its limit.
LEMMA UsesExist ==
    ASSUME NEW h, NEW count, NEW max, NEW n \in Nat
    PROVE  \E f : Uses(h, count, max, n, f)
<1> DEFINE P == {m \in Nat : \E f : Uses(h, count, max, m, f)}
<1>1. 0 \in P
  <2> DEFINE f == [k \in 0 .. 0 |-> 0]
  <2>1. Uses(h, count, max, 0, f)
    BY DEF Uses
  <2> QED BY <2>1
<1>2. ASSUME NEW m \in 0 .. n - 1, m \in P PROVE m + 1 \in P
  <2>1. PICK f : Uses(h, count, max, m, f)
    BY <1>2
  <2> DEFINE g == [k \in 0 .. m + 1 |-> IF k = m + 1 THEN f[m] + Taken(h[m + 1], count, max, f[m])
                                        ELSE f[k]]
  <2>2. ASSUME NEW k \in 0 .. m + 1
        PROVE  g[k] = IF k = 0 THEN 0 ELSE g[k - 1] + Taken(h[k], count, max, g[k - 1])
    <3>1. CASE k = m + 1
      BY <3>1
    <3>2. CASE k # m + 1
      <4>1. k \in 0 .. m /\ g[k] = f[k] /\ (k # 0 => k - 1 \in 0 .. m /\ g[k - 1] = f[k - 1])
        BY <3>2
      <4>2. f[k] = IF k = 0 THEN 0 ELSE f[k - 1] + Taken(h[k], count, max, f[k - 1])
        BY <2>1, <4>1 DEF Uses
      <4> QED BY <4>1, <4>2
    <3> QED BY <3>1, <3>2
  <2>3. Uses(h, count, max, m + 1, g)
    BY <2>2 DEF Uses
  <2> QED BY <2>3
<1> HIDE DEF P
<1>3. n \in P
  BY <1>1, <1>2, AllPositions
<1> QED BY <1>3 DEF P

\* A bucket's share of the limit is at least one sample.
LEMMA ShareCounts ==
    ASSUME NEW c \in Nat, NEW count \in Nat \ {0}, NEW max \in Nat \ {0}
    PROVE  Share(c, count, max) \in Nat \ {0}
<1> DEFINE x == 2 * c * max + count
           y == 2 * count
<1>1. x \in Nat /\ y \in Nat \ {0}
  OBVIOUS
<1>2. Share(c, count, max) = IF x < y THEN 1 ELSE x \div y
  BY DEF Share
<1> HIDE DEF x, y
<1>3. x >= y => x \div y \in Nat \ {0}
  BY <1>1
<1> QED BY <1>1, <1>2, <1>3

\* What a bucket takes fits, and is something when the bucket has something
\* and the limit is not used up.
LEMMA TakenFits ==
    ASSUME NEW c \in Nat, NEW count \in Nat \ {0}, NEW max \in Nat \ {0}, NEW used \in 0 .. max
    PROVE  /\ Taken(c, count, max, used) \in Nat /\ used + Taken(c, count, max, used) <= max
           /\ c = 0 => Taken(c, count, max, used) = 0
           /\ c > 0 /\ used = 0 => Taken(c, count, max, used) > 0
<1> DEFINE s == Share(c, count, max)
<1>1. s \in Nat \ {0}
  BY ShareCounts
<1>2. Taken(c, count, max, used) = IF c = 0 THEN 0 ELSE IF used + s > max THEN max - used ELSE s
  BY DEF Taken
<1> HIDE DEF s
<1> QED BY <1>1, <1>2

\* A histogram is expanded to at most the limit, to something if it has
\* something, and only where it has something.
LEMMA HistogramExpanded ==
    ASSUME OXTypes, NEW h \in Seq(Nat)
    PROVE  LET out == expandHistogram(h)
           IN  /\ HistogramCount(out) \in Nat /\ HistogramCount(out) <= oxCfg.max
               /\ HistogramCount(h) > 0 => HistogramCount(out) > 0
               /\ \A i \in DOMAIN out : out[i] > 0 => h[i] > 0
<1> DEFINE out == expandHistogram(h)
           count == HistogramCount(h)
           max == oxCfg.max
           n == Len(h)
<1>1. max \in Nat \ {0} /\ count \in Nat /\ n \in Nat /\ (count > 0 => \E i \in 1 .. n : h[i] > 0)
  BY HistogramCounts DEF OXTypes
<1>2. CASE count <= max
  <2>1. out = h
    BY <1>2 DEF expandHistogram
  <2> QED BY <1>1, <1>2, <2>1
<1>3. CASE ~(count <= max)
  <2>1. out = [i \in 1 .. n |-> Taken(h[i], count, max, Used(h, count, max)[i - 1])]
    BY <1>3 DEF expandHistogram, Downsample
  <2>2. \E g : g = [k \in 0 .. Len(h) |-> IF k = 0 THEN 0 ELSE g[k - 1] + Taken(h[k], count, max, g[k - 1])]
    <3>1. \E g : Uses(h, count, max, Len(h), g)
      <4> HIDE DEF count, max
      <4> QED BY <1>1, UsesExist, Zenon
    <3> QED BY <3>1, Zenon DEF Uses
  <2>3. PICK u : Uses(h, count, max, n, u) /\ Used(h, count, max) = u
    BY <2>2, Zenon DEF Used, Uses
  <2>4. \A k \in 0 .. n : u[k] = IF k = 0 THEN 0 ELSE u[k - 1] + Taken(h[k], count, max, u[k - 1])
    BY <2>3 DEF Uses
  <2>5. \A i \in 1 .. n : out[i] = Taken(h[i], count, max, u[i - 1])
    BY <2>1, <2>3
  <2>6. \A i \in 1 .. n : h[i] \in Nat
    OBVIOUS
  <2>7. DOMAIN out = 1 .. n /\ count \in Nat \ {0}
    BY <1>1, <1>3, <2>1
  <2> HIDE DEF out, count, max, n
  <2> DEFINE P == {k \in Nat : /\ u[k] \in 0 .. max
                               /\ (\E i \in 1 .. k : h[i] > 0) => u[k] > 0}
  <2>8. 0 \in P
    BY <1>1, <2>4
  <2>9. ASSUME NEW k \in 0 .. n - 1, u[k] \in 0 .. max
        PROVE  /\ h[k + 1] \in Nat /\ out[k + 1] = u[k + 1] - u[k] /\ u[k + 1] \in 0 .. max
               /\ out[k + 1] \in Nat /\ (h[k + 1] = 0 => out[k + 1] = 0)
               /\ h[k + 1] > 0 /\ u[k] = 0 => out[k + 1] > 0
    <3>1. k + 1 \in 1 .. n /\ k + 1 \in 0 .. n /\ k + 1 # 0 /\ (k + 1) - 1 = k
      BY <1>1
    <3>2. h[k + 1] \in Nat /\ out[k + 1] = Taken(h[k + 1], count, max, u[k])
      BY <2>5, <2>6, <3>1
    <3>3. u[k + 1] = u[k] + Taken(h[k + 1], count, max, u[k])
      BY <2>4, <3>1
    <3> DEFINE t == Taken(h[k + 1], count, max, u[k])
    <3>4. /\ t \in Nat /\ u[k] + t <= max /\ (h[k + 1] = 0 => t = 0)
          /\ h[k + 1] > 0 /\ u[k] = 0 => t > 0
      BY <1>1, <2>7, <2>9, <3>2, TakenFits
    <3> HIDE DEF t
    <3>5. out[k + 1] = t /\ u[k + 1] = u[k] + t
      BY <3>2, <3>3 DEF t
    <3> QED BY <1>1, <2>9, <3>2, <3>4, <3>5
  <2>10. ASSUME NEW k \in 0 .. n - 1, k \in P PROVE k + 1 \in P
    <3>1. u[k] \in 0 .. max /\ ((\E i \in 1 .. k : h[i] > 0) => u[k] > 0) /\ k \in Nat /\ k + 1 \in Nat
      BY <2>10
    <3>2. /\ h[k + 1] \in Nat /\ out[k + 1] = u[k + 1] - u[k] /\ u[k + 1] \in 0 .. max
          /\ out[k + 1] \in Nat /\ (h[k + 1] > 0 /\ u[k] = 0 => out[k + 1] > 0)
      BY <2>9, <3>1
    <3>3. ASSUME NEW i \in 1 .. k + 1, h[i] > 0 PROVE u[k + 1] > 0
      <4>1. CASE i \in 1 .. k
        BY <1>1, <3>1, <3>2, <3>3, <4>1
      <4>2. CASE i = k + 1
        BY <1>1, <3>1, <3>2, <3>3, <4>2
      <4> QED BY <3>1, <4>1, <4>2
    <3> QED BY <3>1, <3>2, <3>3
  <2> HIDE DEF P
  <2>11. \A k \in 0 .. n : k \in P
    BY <1>1, <2>8, <2>10, AllPositions
  <2>12. \A k \in 0 .. n : u[k] \in 0 .. max /\ ((\E i \in 1 .. k : h[i] > 0) => u[k] > 0)
    BY <2>11 DEF P
  <2>13. \A i \in 1 .. n : out[i] \in Nat /\ (out[i] > 0 => h[i] > 0)
    <3> SUFFICES ASSUME NEW i \in 1 .. n PROVE out[i] \in Nat /\ (out[i] > 0 => h[i] > 0)
      OBVIOUS
    <3>1. i - 1 \in 0 .. n - 1 /\ (i - 1) + 1 = i /\ i - 1 \in 0 .. n
      BY <1>1
    <3>2. out[i] \in Nat /\ h[i] \in Nat /\ (h[i] = 0 => out[i] = 0)
      BY <2>9, <2>12, <3>1
    <3> QED BY <3>2
  <2>14. out \in Seq(Nat) /\ Len(out) = n
    <3>1. out = [i \in 1 .. n |-> out[i]]
      BY <2>1 DEF out
    <3>2. out \in [1 .. n -> Nat]
      BY <2>13, <3>1
    <3> QED BY <1>1, <3>2
  <2>15. PICK f : /\ HistogramCount(out) = f[n] /\ f[0] = 0
                  /\ \A k \in 0 .. n - 1 : f[k + 1] = f[k] + out[k + 1]
    BY <2>14, HistogramTotal
  <2> DEFINE Q == {k \in Nat : f[k] = u[k]}
  <2>16. 0 \in Q
    BY <1>1, <2>4, <2>15
  <2>17. ASSUME NEW k \in 0 .. n - 1, k \in Q PROVE k + 1 \in Q
    <3>1. k \in 0 .. n /\ k + 1 \in 0 .. n /\ k + 1 \in Nat
      BY <1>1
    <3>2. u[k] \in 0 .. max /\ u[k + 1] \in 0 .. max
      BY <2>12, <3>1
    <3>3. f[k] = u[k] /\ f[k + 1] = f[k] + out[k + 1] /\ out[k + 1] = u[k + 1] - u[k]
      BY <2>9, <2>15, <2>17, <3>2
    <3>4. f[k + 1] = u[k + 1]
      BY <1>1, <3>2, <3>3
    <3> QED BY <3>1, <3>4
  <2> HIDE DEF Q
  <2>18. \A k \in 0 .. n : k \in Q
    BY <1>1, <2>16, <2>17, AllPositions
  <2>19. n \in 0 .. n
    BY <1>1
  <2>20. HistogramCount(out) = u[n]
    BY <2>15, <2>18, <2>19 DEF Q
  <2>21. u[n] \in 0 .. max /\ (count > 0 => u[n] > 0)
    BY <1>1, <2>12, <2>19
  <2> QED BY <1>1, <2>7, <2>13, <2>20, <2>21 DEF out, count, max, n
<1> QED BY <1>2, <1>3

\* The configuration stays, and with it what is mapped.
LEMMA MappedKept ==
    ASSUME oxCfg' = oxCfg
    PROVE  Mapped("requests", "event")' <=> Mapped("requests", "event")
BY DEF Mapped, metricMap

\* A payload is turned into counts.
LEMMA BatchTypes ==
    ASSUME OXTypes, NEW p \in OXPayload
    PROVE  /\ cumulativeDelta(p.value) \in Nat
           /\ EventsOf(p) \in Nat /\ LatenciesOf(p) \in Nat
<1>1. p.value \in Nat /\ oxSums \in Nat \cup {-1} /\ p.hist \in OXHistogram \cup {<<>>}
  BY DEF OXPayload, OXTypes
<1>2. cumulativeDelta(p.value) \in Nat
  BY <1>1 DEF cumulativeDelta
<1>3. p.hist \in Seq(Nat)
  <2>1. p.hist \in OXHistogram => p.hist \in Seq(Nat)
    BY OXAssumption
  <2>2. p.hist = <<>> => p.hist \in Seq(Nat)
    OBVIOUS
  <2> QED BY <1>1, <2>1, <2>2
<1>4. HistogramCount(expandHistogram(p.hist)) \in Nat
  BY <1>3, HistogramExpanded
<1>5. EventsOf(p) \in Nat
  BY <1>2 DEF EventsOf
<1>6. LatenciesOf(p) \in Nat
  BY <1>4 DEF LatenciesOf
<1> QED BY <1>2, <1>5, <1>6

\* An idle call stands for nothing.
LEMMA IdleCall ==
    ASSUME NEW b \in OXCall, CallOK(b), b.pc = "idle"
    PROVE  b.lat = 0 /\ b.ev = 0 /\ PostedLat(b) = 0 /\ PostedEv(b) = 0
<1>1. b.lat = 0 /\ b.ev = 0 /\ b.sent \in Nat
  BY DEF CallOK, OXCall
<1> QED BY <1>1 DEF PostedLat, PostedEv, Smaller

\* The record of an idle call is one.
LEMMA OXIdleOK == OXIdle \in OXCall /\ CallOK(OXIdle) /\ OXIdle.pc = "idle"
BY DEF OXIdle, OXNothing, OXCall, OXPayload, CallOK, ItemsOf

\* A call that begins has posted nothing, and adds its events to those left.
LEMMA CallBegins ==
    ASSUME OXTypes, CallsOK, Arrived, NEW w \in OXWorker, oxW[w].pc = "idle",
           NEW b \in OXCall, CallOK(b), b.sent = 0, oxW' = [oxW EXCEPT ![w] = b],
           UNCHANGED <<oxServer, oxDue>>
    PROVE  /\ oxW' \in [OXWorker -> OXCall] /\ CallsOK' /\ Arrived'
           /\ SumOver(OXWorker, EventsLeft(oxW)) \in Nat
           /\ SumOver(OXWorker, EventsLeft(oxW'))
                = SumOver(OXWorker, EventsLeft(oxW)) + IF b.payload.kind = "logs" THEN 0 ELSE b.ev
<1>1. oxW \in [OXWorker -> OXCall] /\ oxW[w] \in OXCall /\ CallOK(oxW[w])
  BY DEF OXTypes, CallsOK
<1>2. PostedLat(oxW[w]) = 0 /\ PostedEv(oxW[w]) = 0 /\ oxW[w].ev = 0
  BY <1>1, IdleCall
<1>3. PostedLat(b) = 0 /\ PostedEv(b) = 0 /\ b.ev \in Nat
  BY DEF PostedLat, PostedEv, Smaller, OXCall
<1>4. oxW'[w] = b /\ \A v \in OXWorker \ {w} : oxW'[v] = oxW[v]
  BY <1>1
<1>5. /\ LatIn(oxW)[w] = 0 /\ LatIn(oxW')[w] = 0 /\ LogsIn(oxW)[w] = 0 /\ LogsIn(oxW')[w] = 0
      /\ EventsLeft(oxW)[w] = 0
      /\ EventsLeft(oxW')[w] = IF b.payload.kind = "logs" THEN 0 ELSE b.ev
  BY <1>2, <1>3, <1>4 DEF LatIn, LogsIn, EventsLeft
<1>6. /\ oxW' \in [OXWorker -> OXCall]
      /\ SumOver(OXWorker, LatIn(oxW)) \in Nat /\ SumOver(OXWorker, LatIn(oxW')) \in Nat
      /\ SumOver(OXWorker, LogsIn(oxW)) \in Nat /\ SumOver(OXWorker, LogsIn(oxW')) \in Nat
      /\ SumOver(OXWorker, EventsLeft(oxW)) \in Nat /\ SumOver(OXWorker, EventsLeft(oxW')) \in Nat
      /\ SumOver(OXWorker, LatIn(oxW')) + LatIn(oxW)[w] = SumOver(OXWorker, LatIn(oxW)) + LatIn(oxW')[w]
      /\ SumOver(OXWorker, LogsIn(oxW')) + LogsIn(oxW)[w] = SumOver(OXWorker, LogsIn(oxW)) + LogsIn(oxW')[w]
      /\ SumOver(OXWorker, EventsLeft(oxW')) + EventsLeft(oxW)[w]
           = SumOver(OXWorker, EventsLeft(oxW)) + EventsLeft(oxW')[w]
  BY <1>1, CallChanges
<1>7. CallsOK'
  BY <1>4 DEF CallsOK
<1>8. /\ SumOver(OXWorker, LatIn(oxW')) = SumOver(OXWorker, LatIn(oxW))
      /\ SumOver(OXWorker, LogsIn(oxW')) = SumOver(OXWorker, LogsIn(oxW))
  BY <1>5, <1>6
<1>9. Arrived'
  BY <1>8 DEF Arrived
<1> QED BY <1>3, <1>5, <1>6, <1>7, <1>9

\* The step of consumeMetrics.
LEMMA MetricsStep ==
    ASSUME OXInv, NEW w \in OXWorker, NEW p \in Fresh \cup oxAgain, Consume(w, p), consumeMetrics(w, p)
    PROVE  OXInv'
<1>1. /\ oxW[w].pc = "idle" /\ p.kind = "metrics" /\ UNCHANGED <<oxCfg, oxServer, oxDue, oxSource>>
      /\ oxAgain' = oxAgain \ {p}
  BY DEF Consume, consumeMetrics
<1>2. p \in oxAgain /\ p \in OXPayload
  BY <1>1 DEF Fresh, OXInv, OXTypes
<1> DEFINE b == [pc |-> "post", payload |-> p, lat |-> LatenciesOf(p), ev |-> EventsOf(p), sent |-> 0]
<1>3. oxW' = [oxW EXCEPT ![w] = b]
  BY DEF consumeMetrics
<1>4. LatenciesOf(p) \in Nat /\ EventsOf(p) \in Nat
  BY <1>2, BatchTypes DEF OXInv
<1>5. b \in OXCall /\ CallOK(b)
  <2>1. b \in OXCall
    BY <1>2, <1>4 DEF OXCall
  <2>2. ItemsOf(b) \in Nat
    BY <2>1, PostedTypes
  <2>3. b.sent = 0 /\ b.pc = "post" /\ b.payload.kind = "metrics"
    BY <1>1
  <2> HIDE DEF b
  <2> QED BY <2>1, <2>2, <2>3 DEF CallOK
<1>6. /\ oxW' \in [OXWorker -> OXCall] /\ CallsOK' /\ Arrived'
      /\ SumOver(OXWorker, EventsLeft(oxW)) \in Nat
      /\ SumOver(OXWorker, EventsLeft(oxW')) = SumOver(OXWorker, EventsLeft(oxW)) + EventsOf(p)
  <2>1. b.payload.kind = "metrics" /\ b.ev = EventsOf(p) /\ b.sent = 0
    BY <1>1
  <2> HIDE DEF b
  <2>2. /\ oxW' \in [OXWorker -> OXCall] /\ CallsOK' /\ Arrived'
        /\ SumOver(OXWorker, EventsLeft(oxW)) \in Nat
        /\ SumOver(OXWorker, EventsLeft(oxW'))
             = SumOver(OXWorker, EventsLeft(oxW)) + IF b.payload.kind = "logs" THEN 0 ELSE b.ev
    BY <1>1, <1>3, <1>5, <2>1, CallBegins DEF OXInv
  <2> QED BY <2>1, <2>2
<1>7. p.value \in Nat /\ oxSums \in Nat \cup {-1}
  BY <1>2 DEF OXPayload, OXInv, OXTypes
<1>8. OXTypes'
  <2>1. oxSums' \in Nat \cup {-1} /\ oxCalm' \in BOOLEAN
    BY <1>7 DEF consumeMetrics, OXInv, OXTypes
  <2> QED BY <1>1, <1>6, <2>1 DEF OXInv, OXTypes
<1>9. ASSUME oxCalm', Mapped("requests", "event")'
      PROVE  InOrder'
  <2>1. /\ oxCalm /\ Mapped("requests", "event")
        /\ \A q \in oxAgain : q.kind = "metrics" => q.value >= p.value
    BY <1>1, <1>9, MappedKept DEF consumeMetrics
  <2>2. InOrder
    BY <2>1 DEF OXInv
  <2>3. oxSums' = p.value
    BY <2>1 DEF consumeMetrics, Mapped
  <2>4. EventsOf(p) = cumulativeDelta(p.value)
    BY <2>1 DEF EventsOf
  <2> DEFINE v == oxSource.value
             t == oxSource.true
             e == oxServer.events
             s == SumOver(OXWorker, EventsLeft(oxW))
  <2>5. v \in Nat /\ t \in Nat /\ e \in Nat /\ s \in Nat /\ t <= v
    BY <1>6, <2>2 DEF OXInv, OXTypes, InOrder
  <2>6. oxSource.known /\ p.value <= v /\ v - t <= p.value
    BY <1>2, <2>2 DEF InOrder
  <2>7. e + s + EventsOf(p) = t - (v - p.value)
    <3>1. CASE oxSums = -1
      <4>1. EventsOf(p) = 0 /\ e + s = 0
        BY <2>2, <2>4, <3>1 DEF cumulativeDelta, InOrder
      <4>2. PICK q \in oxAgain : q.value = v - t
        BY <2>2, <2>6, <3>1 DEF InOrder
      <4>3. q.value >= p.value
        BY <2>1, <2>2 DEF InOrder
      <4>4. p.value = v - t
        BY <1>7, <2>5, <2>6, <4>2, <4>3
      <4> QED BY <1>7, <2>5, <4>1, <4>4
    <3>2. CASE oxSums # -1
      <4>1. oxSums \in Nat /\ oxSums <= p.value /\ e + s = t - (v - oxSums)
        BY <1>2, <1>7, <2>2, <3>2 DEF InOrder
      <4>2. EventsOf(p) = p.value - oxSums
        BY <1>7, <2>4, <3>2, <4>1 DEF cumulativeDelta
      <4> QED BY <1>7, <2>5, <4>1, <4>2
    <3> QED BY <3>1, <3>2
  <2>8. \A q \in oxAgain' : /\ q.kind = "metrics" /\ q.value <= v /\ v - t <= q.value
                            /\ p.value <= q.value
    <3> SUFFICES ASSUME NEW q \in oxAgain
                 PROVE  q.kind = "metrics" /\ q.value <= v /\ v - t <= q.value /\ p.value <= q.value
      BY <1>1
    <3>1. q.kind = "metrics" /\ q.value <= v /\ v - t <= q.value
      BY <2>2 DEF InOrder
    <3>2. q.value >= p.value /\ q.value \in Nat
      BY <2>1, <3>1 DEF OXInv, OXTypes, OXPayload
    <3> QED BY <1>7, <3>1, <3>2
  <2>9. oxServer'.events + SumOver(OXWorker, EventsLeft(oxW')) = t - (v - p.value)
    <3>1. EventsOf(p) \in Nat
      BY <1>4
    <3> HIDE DEF s, e
    <3>2. oxServer'.events = e /\ SumOver(OXWorker, EventsLeft(oxW')) = s + EventsOf(p)
      BY <1>1, <1>6 DEF e, s
    <3> QED BY <2>5, <2>7, <3>1, <3>2
  <2> QED BY <1>1, <1>7, <2>3, <2>5, <2>6, <2>8, <2>9 DEF InOrder
<1> QED BY <1>6, <1>8, <1>9 DEF OXInv

\* The steps of consumeTraces and consumeLogs: no events of the counter.
LEMMA SignalsStep ==
    ASSUME OXInv, NEW w \in OXWorker, NEW p \in Fresh \cup oxAgain, Consume(w, p),
           consumeTraces(w, p) \/ consumeLogs(w, p)
    PROVE  OXInv'
<1>1. /\ oxW[w].pc = "idle" /\ UNCHANGED <<oxCfg, oxServer, oxDue, oxSource, oxSums, oxCalm>>
      /\ oxAgain' = oxAgain \ {p} /\ p.kind \in {"traces", "logs"}
  BY DEF Consume, consumeTraces, consumeLogs
<1>2. p \in OXPayload
  BY DEF Fresh, OXPayload, OXInv, OXTypes
<1>3. PICK b \in OXCall : /\ CallOK(b) /\ b.sent = 0 /\ oxW' = [oxW EXCEPT ![w] = b]
                          /\ (IF b.payload.kind = "logs" THEN 0 ELSE b.ev) = 0
  <2>1. p.n \in Nat
    BY <1>2 DEF OXPayload
  <2>2. CASE consumeTraces(w, p)
    <3> DEFINE n == IF oxCfg.spans = "" THEN 0 ELSE p.n
               b == [pc |-> "post", payload |-> p, lat |-> n, ev |-> 0, sent |-> 0]
    <3>1. b \in OXCall /\ p.kind = "traces" /\ oxW' = [oxW EXCEPT ![w] = b]
      BY <1>2, <2>1, <2>2 DEF OXCall, consumeTraces
    <3>2. ItemsOf(b) \in Nat
      BY <3>1, PostedTypes
    <3>3. b.pc = "post" /\ b.payload.kind = "traces" /\ b.ev = 0 /\ b.sent = 0
      BY <3>1
    <3> HIDE DEF b
    <3>4. CallOK(b)
      BY <3>2, <3>3 DEF CallOK
    <3> QED BY <3>1, <3>3, <3>4
  <2>3. CASE consumeLogs(w, p)
    <3> DEFINE n == IF oxCfg.logs = "" THEN 0 ELSE p.n
               r == [p EXCEPT !.n = n]
               b == [pc |-> "post", payload |-> r, lat |-> 0, ev |-> n, sent |-> 0]
    <3>1. p.kind = "logs" /\ oxW' = [oxW EXCEPT ![w] = b] /\ n \in Nat
      BY <2>1, <2>3 DEF consumeLogs
    <3>2. r \in OXPayload /\ r.kind = "logs" /\ r.n = n
      BY <1>2, <3>1 DEF OXPayload
    <3>3. b \in OXCall
      BY <3>1, <3>2 DEF OXCall
    <3>4. ItemsOf(b) \in Nat
      BY <3>3, PostedTypes
    <3>5. b.pc = "post" /\ b.payload.kind = "logs" /\ b.payload.n = b.ev /\ b.sent = 0
      BY <3>2
    <3> HIDE DEF b
    <3>6. CallOK(b)
      BY <3>4, <3>5 DEF CallOK
    <3> QED BY <3>1, <3>3, <3>5, <3>6
  <2> QED BY <2>2, <2>3
<1>4. /\ oxW' \in [OXWorker -> OXCall] /\ CallsOK' /\ Arrived'
      /\ SumOver(OXWorker, EventsLeft(oxW)) \in Nat
      /\ SumOver(OXWorker, EventsLeft(oxW'))
           = SumOver(OXWorker, EventsLeft(oxW)) + IF b.payload.kind = "logs" THEN 0 ELSE b.ev
  BY <1>1, <1>3, CallBegins DEF OXInv
<1>5. SumOver(OXWorker, EventsLeft(oxW')) = SumOver(OXWorker, EventsLeft(oxW))
  BY <1>3, <1>4
<1>6. OXTypes'
  BY <1>1, <1>4 DEF OXInv, OXTypes
<1>7. ASSUME oxCalm', Mapped("requests", "event")' PROVE InOrder'
  <2>1. InOrder
    BY <1>1, <1>7, MappedKept DEF OXInv
  <2>2. oxAgain' = oxAgain
    BY <1>1, <2>1 DEF InOrder
  <2> QED BY <1>1, <1>5, <2>1, <2>2 DEF InOrder
<1> QED BY <1>4, <1>6, <1>7 DEF OXInv


\* The sums over calls are numbers.
LEMMA SumsOfCalls ==
    ASSUME oxW \in [OXWorker -> OXCall]
    PROVE  /\ SumOver(OXWorker, LatIn(oxW)) \in Nat /\ SumOver(OXWorker, LogsIn(oxW)) \in Nat
           /\ SumOver(OXWorker, EventsLeft(oxW)) \in Nat
<1>1. CASE OXWorker = {}
  <2>1. /\ SumOver(OXWorker, LatIn(oxW)) = 0 /\ SumOver(OXWorker, LogsIn(oxW)) = 0
        /\ SumOver(OXWorker, EventsLeft(oxW)) = 0
    BY <1>1, SumNothing
  <2> QED BY <2>1
<1>2. CASE OXWorker # {}
  <2>1. PICK w \in OXWorker : TRUE
    BY <1>2
  <2>2. oxW = [oxW EXCEPT ![w] = oxW[w]] /\ oxW[w] \in OXCall
    OBVIOUS
  <2> QED BY <2>1, <2>2, CallChanges
<1> QED BY <1>1, <1>2

\* When no call is in progress nothing is posted and nothing is left to post.
LEMMA NothingInIdle ==
    ASSUME oxW \in [OXWorker -> OXCall], CallsOK, \A w \in OXWorker : oxW[w].pc = "idle"
    PROVE  /\ SumOver(OXWorker, LatIn(oxW)) = 0 /\ SumOver(OXWorker, LogsIn(oxW)) = 0
           /\ SumOver(OXWorker, EventsLeft(oxW)) = 0
<1>1. \A w \in OXWorker : PostedLat(oxW[w]) = 0 /\ PostedEv(oxW[w]) = 0 /\ oxW[w].ev = 0
  BY IdleCall DEF CallsOK
<1>2. \A w \in OXWorker : /\ LatIn(oxW)[w] = 0 /\ LogsIn(oxW)[w] = 0
                          /\ EventsLeft(oxW)[w] = 0
  BY <1>1 DEF LatIn, LogsIn, EventsLeft
<1>3. (\A w \in OXWorker : LatIn(oxW)[w] = 0) /\ (\A w \in OXWorker : LogsIn(oxW)[w] = 0)
      /\ (\A w \in OXWorker : EventsLeft(oxW)[w] = 0)
  BY <1>2
<1> QED BY <1>3, SumNothing
\* The step of postBatch with an answer 2xx: the chunk moves to the server.
LEMMA PostedStep ==
    ASSUME OXInv, NEW w \in OXWorker, NEW applied \in BOOLEAN, postBatch(w, 200, applied)
    PROVE  OXInv'
<1> DEFINE b == oxW[w]
           c == splitBatch(b)
           d == [b EXCEPT !.sent = c.upto]
           logs == b.payload.kind = "logs"
<1>1. /\ b.pc = "post" /\ b.sent < ItemsOf(b) /\ applied /\ oxServer' = Posted(w)
      /\ oxW' = [oxW EXCEPT ![w].sent = c.upto]
      /\ UNCHANGED <<oxCfg, oxSums, oxSource, oxDue, oxAgain, oxCalm>>
  BY DEF postBatch
<1>2. oxW \in [OXWorker -> OXCall] /\ b \in OXCall /\ CallOK(b) /\ OXTypes
  BY DEF OXInv, OXTypes, CallsOK
<1>3. oxW' = [oxW EXCEPT ![w] = d]
  BY <1>1, <1>2
<1>4. /\ d \in OXCall /\ d.sent <= ItemsOf(d) /\ c.lat \in Nat /\ c.ev \in Nat
      /\ PostedLat(d) = PostedLat(b) + c.lat /\ PostedEv(d) = PostedEv(b) + c.ev
  BY <1>1, <1>2, NextChunk
<1>5. d.pc = b.pc /\ d.payload = b.payload /\ d.lat = b.lat /\ d.ev = b.ev
  BY <1>2 DEF OXCall
<1>6. oxW'[w] = d /\ \A v \in OXWorker \ {w} : oxW'[v] = oxW[v]
  BY <1>2, <1>3
<1>7. PostedLat(b) \in Nat /\ PostedEv(b) \in Nat /\ b.ev \in Nat
  BY <1>2, PostedTypes DEF OXCall
<1>8. oxServer' = [events |-> oxServer.events + IF logs THEN 0 ELSE c.ev, lat |-> oxServer.lat + c.lat,
                   logs |-> oxServer.logs + IF logs THEN c.ev ELSE 0]
  BY <1>1 DEF Posted
<1> HIDE DEF b, c, d, logs
<1>9. /\ LatIn(oxW)[w] = PostedLat(b) /\ LatIn(oxW')[w] = PostedLat(d)
      /\ LogsIn(oxW)[w] = (IF logs THEN PostedEv(b) ELSE 0)
      /\ LogsIn(oxW')[w] = (IF logs THEN PostedEv(d) ELSE 0)
      /\ EventsLeft(oxW)[w] = (IF logs THEN 0 ELSE b.ev - PostedEv(b))
      /\ EventsLeft(oxW')[w] = (IF logs THEN 0 ELSE b.ev - PostedEv(d))
  BY <1>5, <1>6 DEF LatIn, LogsIn, EventsLeft, b, logs
<1>10. /\ oxW' \in [OXWorker -> OXCall]
       /\ SumOver(OXWorker, LatIn(oxW)) \in Nat /\ SumOver(OXWorker, LatIn(oxW')) \in Nat
       /\ SumOver(OXWorker, LogsIn(oxW)) \in Nat /\ SumOver(OXWorker, LogsIn(oxW')) \in Nat
       /\ SumOver(OXWorker, EventsLeft(oxW)) \in Nat /\ SumOver(OXWorker, EventsLeft(oxW')) \in Nat
       /\ SumOver(OXWorker, LatIn(oxW')) + LatIn(oxW)[w] = SumOver(OXWorker, LatIn(oxW)) + LatIn(oxW')[w]
       /\ SumOver(OXWorker, LogsIn(oxW')) + LogsIn(oxW)[w] = SumOver(OXWorker, LogsIn(oxW)) + LogsIn(oxW')[w]
       /\ SumOver(OXWorker, EventsLeft(oxW')) + EventsLeft(oxW)[w]
            = SumOver(OXWorker, EventsLeft(oxW)) + EventsLeft(oxW')[w]
  <2>1. oxW \in [OXWorker -> OXCall] /\ d \in OXCall
    BY <1>2, <1>4
  <2> QED BY <1>3, <2>1, CallChanges, ZenonT(60)
<1>11. /\ SumOver(OXWorker, LatIn(oxW')) = SumOver(OXWorker, LatIn(oxW)) + c.lat
       /\ SumOver(OXWorker, LogsIn(oxW')) = SumOver(OXWorker, LogsIn(oxW)) + IF logs THEN c.ev ELSE 0
       /\ SumOver(OXWorker, EventsLeft(oxW')) + (IF logs THEN 0 ELSE c.ev)
            = SumOver(OXWorker, EventsLeft(oxW))
  BY <1>4, <1>7, <1>9, <1>10
<1>12. CallsOK'
  <2>1. CallOK(d)
    BY <1>2, <1>4, <1>5 DEF CallOK
  <2> QED BY <1>6, <2>1 DEF OXInv, CallsOK
<1>13. oxServer \in [events : Nat, lat : Nat, logs : Nat]
  BY <1>2 DEF OXTypes
<1>14. /\ oxServer'.events = oxServer.events + (IF logs THEN 0 ELSE c.ev)
       /\ oxServer'.lat = oxServer.lat + c.lat /\ oxServer'.logs = oxServer.logs + (IF logs THEN c.ev ELSE 0)
       /\ oxServer' \in [events : Nat, lat : Nat, logs : Nat]
  BY <1>4, <1>8, <1>13
<1>15. OXTypes'
  BY <1>1, <1>2, <1>10, <1>14 DEF OXTypes
<1>16. Arrived'
  <2>1. oxDue' = oxDue /\ oxDue.lat \in Nat /\ oxDue.logs \in Nat
    BY <1>1, <1>2 DEF OXTypes
  <2>2. /\ oxServer.lat >= oxDue.lat + SumOver(OXWorker, LatIn(oxW))
        /\ oxServer.logs >= oxDue.logs + SumOver(OXWorker, LogsIn(oxW))
    BY DEF OXInv, Arrived
  <2>3. oxServer'.lat >= oxDue.lat + SumOver(OXWorker, LatIn(oxW'))
    BY <1>4, <1>10, <1>11, <1>13, <1>14, <2>1, <2>2
  <2>4. oxServer'.logs >= oxDue.logs + SumOver(OXWorker, LogsIn(oxW'))
    BY <1>4, <1>10, <1>11, <1>13, <1>14, <2>1, <2>2
  <2> QED BY <2>1, <2>3, <2>4 DEF Arrived
<1>17. ASSUME oxCalm', Mapped("requests", "event")' PROVE InOrder'
  <2>1. InOrder
    BY <1>1, <1>17, MappedKept DEF OXInv
  <2>2. oxServer'.events + SumOver(OXWorker, EventsLeft(oxW'))
          = oxServer.events + SumOver(OXWorker, EventsLeft(oxW))
    BY <1>4, <1>10, <1>11, <1>13, <1>14
  <2> QED BY <1>1, <2>1, <2>2 DEF InOrder
<1> QED BY <1>12, <1>15, <1>16, <1>17 DEF OXInv

\* A call that ends: what it has posted is the server's, and due is no more
\* than that.
LEMMA CallEnds ==
    ASSUME OXTypes, CallsOK, Arrived, NEW w \in OXWorker, oxW' = [oxW EXCEPT ![w] = OXIdle],
           oxServer' \in [events : Nat, lat : Nat, logs : Nat],
           oxServer'.lat >= oxServer.lat, oxServer'.logs >= oxServer.logs,
           oxDue' \in [lat : Nat, logs : Nat],
           oxDue'.lat <= oxDue.lat + LatIn(oxW)[w], oxDue'.logs <= oxDue.logs + LogsIn(oxW)[w]
    PROVE  /\ oxW' \in [OXWorker -> OXCall] /\ CallsOK' /\ Arrived'
           /\ SumOver(OXWorker, EventsLeft(oxW)) \in Nat
           /\ EventsLeft(oxW)[w] = 0 =>
                SumOver(OXWorker, EventsLeft(oxW')) = SumOver(OXWorker, EventsLeft(oxW))
<1>1. oxW \in [OXWorker -> OXCall] /\ oxW[w] \in OXCall
  BY DEF OXTypes
<1>2. /\ OXIdle \in OXCall /\ CallOK(OXIdle)
      /\ PostedLat(OXIdle) = 0 /\ PostedEv(OXIdle) = 0 /\ OXIdle.ev = 0
  BY OXIdleOK, IdleCall
<1>3. oxW'[w] = OXIdle /\ \A v \in OXWorker \ {w} : oxW'[v] = oxW[v]
  BY <1>1
<1>4. LatIn(oxW')[w] = 0 /\ LogsIn(oxW')[w] = 0 /\ EventsLeft(oxW')[w] = 0
  BY <1>2, <1>3 DEF LatIn, LogsIn, EventsLeft
<1>5. LatIn(oxW)[w] \in Nat /\ LogsIn(oxW)[w] \in Nat
  BY <1>1, PostedTypes DEF LatIn, LogsIn
<1>6. /\ oxW' \in [OXWorker -> OXCall]
      /\ SumOver(OXWorker, LatIn(oxW)) \in Nat /\ SumOver(OXWorker, LatIn(oxW')) \in Nat
      /\ SumOver(OXWorker, LogsIn(oxW)) \in Nat /\ SumOver(OXWorker, LogsIn(oxW')) \in Nat
      /\ SumOver(OXWorker, EventsLeft(oxW)) \in Nat /\ SumOver(OXWorker, EventsLeft(oxW')) \in Nat
      /\ SumOver(OXWorker, LatIn(oxW')) + LatIn(oxW)[w] = SumOver(OXWorker, LatIn(oxW)) + LatIn(oxW')[w]
      /\ SumOver(OXWorker, LogsIn(oxW')) + LogsIn(oxW)[w] = SumOver(OXWorker, LogsIn(oxW)) + LogsIn(oxW')[w]
      /\ SumOver(OXWorker, EventsLeft(oxW')) + EventsLeft(oxW)[w]
           = SumOver(OXWorker, EventsLeft(oxW)) + EventsLeft(oxW')[w]
  BY <1>1, <1>2, CallChanges
<1>7. CallsOK'
  BY <1>2, <1>3 DEF CallsOK
<1>8. /\ oxServer.lat \in Nat /\ oxServer.logs \in Nat /\ oxServer'.lat \in Nat /\ oxServer'.logs \in Nat
      /\ oxDue.lat \in Nat /\ oxDue.logs \in Nat /\ oxDue'.lat \in Nat /\ oxDue'.logs \in Nat
      /\ oxServer.lat >= oxDue.lat + SumOver(OXWorker, LatIn(oxW))
      /\ oxServer.logs >= oxDue.logs + SumOver(OXWorker, LogsIn(oxW))
  BY DEF OXTypes, Arrived
<1>9. oxServer'.lat >= oxDue'.lat + SumOver(OXWorker, LatIn(oxW'))
  BY <1>4, <1>5, <1>6, <1>8
<1>10. oxServer'.logs >= oxDue'.logs + SumOver(OXWorker, LogsIn(oxW'))
  BY <1>4, <1>5, <1>6, <1>8
<1>11. Arrived'
  BY <1>9, <1>10 DEF Arrived
<1> QED BY <1>4, <1>6, <1>7, <1>11

\* The step of postBatch with any other answer, or none.
LEMMA PostFails ==
    ASSUME OXInv, NEW w \in OXWorker, NEW status \in {400, 429}, NEW applied \in BOOLEAN,
           postBatch(w, status, applied)
    PROVE  OXInv'
<1> DEFINE b == oxW[w]
           c == splitBatch(b)
<1>1. /\ b.pc = "post" /\ b.sent < ItemsOf(b) /\ oxServer' = (IF applied THEN Posted(w) ELSE oxServer)
      /\ oxW' = [oxW EXCEPT ![w] = OXIdle] /\ ~oxCalm' /\ oxCalm' \in BOOLEAN
      /\ oxAgain' \in SUBSET (oxAgain \cup {b.payload})
      /\ UNCHANGED <<oxCfg, oxSums, oxSource, oxDue>>
  <2>1. status # 200
    OBVIOUS
  <2>2. /\ oxW' = [oxW EXCEPT ![w] = OXIdle] /\ oxCalm' = FALSE
        /\ oxAgain' = IF isPermanentHTTPStatus(status) THEN oxAgain ELSE oxAgain \cup {b.payload}
    BY <2>1 DEF postBatch
  <2>3. /\ b.pc = "post" /\ b.sent < ItemsOf(b)
        /\ oxServer' = (IF applied THEN Posted(w) ELSE oxServer)
        /\ UNCHANGED <<oxCfg, oxSums, oxSource, oxDue>>
    BY DEF postBatch
  <2>4. oxAgain' = oxAgain \/ oxAgain' = oxAgain \cup {b.payload}
    BY <2>2
  <2>5. oxAgain' \in SUBSET (oxAgain \cup {b.payload})
    BY <2>4
  <2> HIDE DEF b
  <2> QED BY <2>2, <2>3, <2>5
<1>2. oxW \in [OXWorker -> OXCall] /\ b \in OXCall /\ OXTypes /\ CallsOK /\ Arrived
  BY DEF OXInv, OXTypes
<1>3. c.lat \in Nat /\ c.ev \in Nat
  BY <1>1, <1>2, ChunkCounts
<1>4. /\ oxServer \in [events : Nat, lat : Nat, logs : Nat] /\ oxDue \in [lat : Nat, logs : Nat]
      /\ LatIn(oxW)[w] \in Nat /\ LogsIn(oxW)[w] \in Nat
  BY <1>2, PostedTypes DEF OXTypes, LatIn, LogsIn
<1>5. /\ oxServer' \in [events : Nat, lat : Nat, logs : Nat]
      /\ oxServer'.lat >= oxServer.lat /\ oxServer'.logs >= oxServer.logs
  <2>1. CASE applied
    <3> DEFINE logs == b.payload.kind = "logs"
               m == IF logs THEN 0 ELSE c.ev
               n == IF logs THEN c.ev ELSE 0
    <3>1. oxServer' = [events |-> oxServer.events + m, lat |-> oxServer.lat + c.lat,
                       logs |-> oxServer.logs + n]
      BY <1>1, <2>1 DEF Posted
    <3>2. m \in Nat /\ n \in Nat
      BY <1>3
    <3> HIDE DEF m, n, c
    <3> QED BY <1>3, <1>4, <3>1, <3>2
  <2>2. CASE ~applied
    BY <1>1, <1>4, <2>2
  <2> QED BY <2>1, <2>2
<1>6. /\ oxDue' = oxDue /\ oxDue'.lat <= oxDue.lat + LatIn(oxW)[w]
      /\ oxDue'.logs <= oxDue.logs + LogsIn(oxW)[w]
  BY <1>1, <1>4
<1>7. oxW' \in [OXWorker -> OXCall] /\ CallsOK' /\ Arrived'
  <2>1. oxDue' \in [lat : Nat, logs : Nat]
    BY <1>4, <1>6
  <2>2. oxW' = [oxW EXCEPT ![w] = OXIdle]
    BY <1>1
  <2>3. OXTypes /\ CallsOK /\ Arrived
    BY <1>2
  <2> QED BY <1>5, <1>6, <2>1, <2>2, <2>3, CallEnds
<1>8. oxAgain' \in SUBSET OXPayload
  BY <1>1, <1>2 DEF OXTypes, OXCall
<1>9. OXTypes'
  BY <1>1, <1>2, <1>5, <1>7, <1>8 DEF OXTypes
<1> QED BY <1>1, <1>7, <1>9 DEF OXInv

\* The step of Acknowledge: everything the call had was posted.
LEMMA AcknowledgeStep ==
    ASSUME OXInv, NEW w \in OXWorker, Acknowledge(w)
    PROVE  OXInv'
<1> DEFINE b == oxW[w]
<1>1. /\ b.pc = "post" /\ b.sent = ItemsOf(b) /\ oxW' = [oxW EXCEPT ![w] = OXIdle]
      /\ oxDue' = [lat |-> oxDue.lat + b.lat,
                   logs |-> oxDue.logs + IF b.payload.kind = "logs" THEN b.payload.n ELSE 0]
      /\ UNCHANGED <<oxCfg, oxSums, oxSource, oxServer, oxAgain, oxCalm>>
  BY DEF Acknowledge
<1>2. oxW \in [OXWorker -> OXCall] /\ b \in OXCall /\ CallOK(b) /\ OXTypes /\ CallsOK /\ Arrived
  BY DEF OXInv, OXTypes, CallsOK
<1>3. b.lat \in Nat /\ b.ev \in Nat /\ b.sent \in Nat
  BY <1>2 DEF OXCall
<1>4. PostedLat(b) = b.lat /\ PostedEv(b) = b.ev
  BY <1>1, <1>3 DEF PostedLat, PostedEv, Smaller, ItemsOf
<1>5. /\ LatIn(oxW)[w] = b.lat /\ EventsLeft(oxW)[w] = 0
      /\ LogsIn(oxW)[w] = IF b.payload.kind = "logs" THEN b.payload.n ELSE 0
  BY <1>2, <1>3, <1>4 DEF LatIn, EventsLeft, LogsIn, CallOK
<1>6. LatIn(oxW)[w] \in Nat /\ LogsIn(oxW)[w] \in Nat
  BY <1>2, PostedTypes DEF LatIn, LogsIn
<1>7. oxDue' = [lat |-> oxDue.lat + LatIn(oxW)[w], logs |-> oxDue.logs + LogsIn(oxW)[w]]
  BY <1>1, <1>5
<1> HIDE DEF b
<1>8. oxDue \in [lat : Nat, logs : Nat] /\ oxServer \in [events : Nat, lat : Nat, logs : Nat]
  BY <1>2 DEF OXTypes
<1>9. /\ oxDue' \in [lat : Nat, logs : Nat] /\ oxDue'.lat <= oxDue.lat + LatIn(oxW)[w]
      /\ oxDue'.logs <= oxDue.logs + LogsIn(oxW)[w]
  BY <1>6, <1>7, <1>8
<1>10. oxServer' = oxServer /\ oxServer'.lat >= oxServer.lat /\ oxServer'.logs >= oxServer.logs
  BY <1>1, <1>8
<1>11. /\ oxW' \in [OXWorker -> OXCall] /\ CallsOK' /\ Arrived'
       /\ SumOver(OXWorker, EventsLeft(oxW')) = SumOver(OXWorker, EventsLeft(oxW))
  BY <1>1, <1>2, <1>5, <1>8, <1>9, <1>10, CallEnds
<1>12. OXTypes'
  BY <1>1, <1>2, <1>9, <1>11 DEF OXTypes
<1>13. ASSUME oxCalm', Mapped("requests", "event")' PROVE InOrder'
  <2>1. InOrder
    BY <1>1, <1>13, MappedKept DEF OXInv
  <2> QED BY <1>1, <1>11, <2>1 DEF InOrder
<1> QED BY <1>11, <1>12, <1>13 DEF OXInv

\* The steps of the source.
LEMMA SourceStep ==
    ASSUME OXInv, OXCount \/ OXSourceRestarts \/ OXSend
    PROVE  OXInv'
<1>1. /\ UNCHANGED <<oxCfg, oxSums, oxW, oxServer, oxDue>> /\ OXTypes /\ CallsOK /\ Arrived
  BY DEF OXCount, OXSourceRestarts, OXSend, OXInv
<1>2. oxSource \in [value : Nat, true : Nat, known : BOOLEAN] /\ oxSums \in Nat \cup {-1}
  BY <1>1 DEF OXTypes
<1>3. CallsOK' /\ Arrived'
  BY <1>1 DEF CallsOK, Arrived
<1>4. CASE OXCount
  <2>1. /\ oxSource' = [value |-> oxSource.value + 1,
                        true |-> IF oxSource.known THEN oxSource.true + 1 ELSE oxSource.true,
                        known |-> oxSource.known]
        /\ oxAgain' = oxAgain /\ oxCalm' = oxCalm
    BY <1>2, <1>4 DEF OXCount
  <2>2. OXTypes'
    BY <1>1, <1>2, <2>1 DEF OXTypes
  <2>3. ASSUME oxCalm', Mapped("requests", "event")' PROVE InOrder'
    <3>1. InOrder
      BY <1>1, <2>1, <2>3, MappedKept DEF OXInv
    <3> DEFINE v == oxSource.value
               t == oxSource.true
    <3>2. v \in Nat /\ t \in Nat /\ oxSource'.value = v + 1 /\ oxSource'.known = oxSource.known
      BY <1>2, <2>1
    <3>3. \A q \in oxAgain : q.value \in Nat
      BY <1>1 DEF OXTypes, OXPayload
    <3>4. CASE oxSource.known
      <4>1. oxSource'.true = t + 1
        BY <2>1, <3>4
      <4>2. (v + 1) - (t + 1) = v - t /\ \A x \in Nat : (t + 1) - ((v + 1) - x) = t - (v - x)
        BY <3>2
      <4>3. \A q \in oxAgain : q.value <= v + 1
        BY <3>1, <3>2, <3>3 DEF InOrder
      <4>4. t + 1 <= v + 1
        BY <3>1, <3>2 DEF InOrder
      <4>5. oxSums >= 0 => oxSums \in Nat /\ oxSums <= v + 1
        BY <1>2, <3>1, <3>2 DEF InOrder
      <4> QED BY <1>1, <2>1, <3>1, <3>2, <3>4, <4>1, <4>2, <4>3, <4>4, <4>5 DEF InOrder
    <3>5. CASE ~oxSource.known
      <4>1. oxSource'.true = t /\ t = 0 /\ oxAgain = {} /\ oxSums = -1
        BY <1>2, <2>1, <3>1, <3>5 DEF InOrder
      <4>2. ~(oxSums >= 0) /\ t <= v + 1
        BY <3>2, <4>1
      <4> QED BY <1>1, <2>1, <3>1, <3>2, <3>5, <4>1, <4>2 DEF InOrder
    <3> QED BY <3>4, <3>5
  <2> QED BY <1>3, <2>2, <2>3 DEF OXInv
<1>5. CASE OXSourceRestarts
  <2>1. /\ oxSource' = [value |-> 0, true |-> oxSource.true, known |-> oxSource.known]
        /\ oxCalm' = FALSE /\ oxAgain' = oxAgain
    BY <1>2, <1>5 DEF OXSourceRestarts
  <2>2. OXTypes'
    BY <1>1, <1>2, <2>1 DEF OXTypes
  <2> QED BY <1>3, <2>1, <2>2 DEF OXInv
<1>6. CASE OXSend
  <2>1. PICK h \in OXHistogram :
          oxAgain' = oxAgain \cup {[kind |-> "metrics", value |-> oxSource.value, hist |-> h, n |-> 0]}
    BY <1>6 DEF OXSend
  <2>2. /\ oxSource' = [value |-> oxSource.value, true |-> oxSource.true, known |-> TRUE]
        /\ oxCalm' = oxCalm
    BY <1>2, <1>6 DEF OXSend
  <2> DEFINE r == [kind |-> "metrics", value |-> oxSource.value, hist |-> h, n |-> 0]
  <2>3. r \in OXPayload /\ r.kind = "metrics" /\ r.value = oxSource.value
    BY <1>2 DEF OXPayload
  <2>4. OXTypes'
    BY <1>1, <1>2, <2>1, <2>2, <2>3 DEF OXTypes
  <2>5. ASSUME oxCalm', Mapped("requests", "event")' PROVE InOrder'
    <3>1. InOrder
      BY <1>1, <2>2, <2>5, MappedKept DEF OXInv
    <3> DEFINE v == oxSource.value
               t == oxSource.true
    <3>2. v \in Nat /\ t \in Nat /\ t <= v
      BY <1>2, <3>1 DEF InOrder
    <3>3. oxAgain' = oxAgain \cup {r}
      BY <2>1
    <3>4. oxSource'.value = v /\ oxSource'.true = t /\ oxSource'.known
      BY <2>2
    <3>5. v - t <= v /\ v <= v
      BY <3>2
    <3> HIDE DEF r
    <3>6. \A q \in oxAgain' : q.kind = "metrics" /\ q.value <= v /\ v - t <= q.value
      BY <2>3, <3>1, <3>3, <3>5 DEF InOrder
    <3>7. oxSums = -1 => \E q \in oxAgain' : q.value = v - t
      <4> SUFFICES ASSUME oxSums = -1 PROVE \E q \in oxAgain' : q.value = v - t
        OBVIOUS
      <4>1. CASE oxSource.known
        BY <3>1, <3>3, <4>1 DEF InOrder
      <4>2. CASE ~oxSource.known
        <5>1. r.value = v - t
          BY <2>3, <3>1, <3>2, <4>2 DEF InOrder
        <5> QED BY <3>3, <5>1
      <4> QED BY <4>1, <4>2
    <3>8. oxSums >= 0 => oxSource.known /\ \A q \in oxAgain' : oxSums <= q.value
      <4> SUFFICES ASSUME oxSums >= 0 PROVE oxSource.known /\ \A q \in oxAgain' : oxSums <= q.value
        OBVIOUS
      <4>1. oxSource.known /\ \A q \in oxAgain : oxSums <= q.value
        BY <3>1 DEF InOrder
      <4>2. oxSums <= r.value
        BY <2>3, <3>1 DEF InOrder
      <4> QED BY <3>3, <4>1, <4>2
    <3> QED BY <1>1, <3>1, <3>2, <3>4, <3>6, <3>7, <3>8 DEF InOrder
  <2> QED BY <1>3, <2>4, <2>5 DEF OXInv
<1> QED BY <1>4, <1>5, <1>6


\* At the start all calls are idle, and no sum has a unit.
LEMMA OXStarts == ASSUME OXInit PROVE OXInv
<1>1. oxW \in [OXWorker -> OXCall] /\ \A w \in OXWorker : oxW[w] = OXIdle
  BY OXIdleOK DEF OXInit
<1>2. OXTypes
  <2>1. oxCfg \in OXConfigs /\ oxCfg.max \in Int /\ oxCfg.max > 0
    BY OXAssumption DEF OXInit, Validate
  <2> QED BY <1>1, <2>1 DEF OXInit, OXTypes
<1>3. CallsOK
  BY <1>1, OXIdleOK DEF CallsOK
<1>4. /\ SumOver(OXWorker, LatIn(oxW)) = 0 /\ SumOver(OXWorker, LogsIn(oxW)) = 0
      /\ SumOver(OXWorker, EventsLeft(oxW)) = 0
  BY <1>1, <1>3, NothingInIdle DEF OXIdle
<1>5. Arrived
  BY <1>4 DEF OXInit, Arrived
<1>6. InOrder
  BY <1>4 DEF OXInit, InOrder
<1> QED BY <1>2, <1>3, <1>5, <1>6 DEF OXInv

\* Every step of the exporter, of its calls and of the source keeps OXInv.
LEMMA OXStep == ASSUME OXInv, [OXNext]_oxVars PROVE OXInv'
<1>1. CASE OXCount \/ OXSourceRestarts \/ OXSend
  BY <1>1, SourceStep
<1>2. ASSUME NEW w \in OXWorker, NEW p \in Fresh \cup oxAgain, Consume(w, p) PROVE OXInv'
  <2>1. consumeMetrics(w, p) \/ consumeTraces(w, p) \/ consumeLogs(w, p)
    BY <1>2 DEF Consume
  <2> QED BY <1>2, <2>1, MetricsStep, SignalsStep
<1>3. ASSUME NEW w \in OXWorker, NEW status \in {200, 400, 429}, NEW applied \in BOOLEAN,
             postBatch(w, status, applied)
      PROVE  OXInv'
  <2>1. CASE status = 200
    BY <1>3, <2>1, PostedStep
  <2>2. CASE status \in {400, 429}
    BY <1>3, <2>2, PostFails
  <2> QED BY <2>1, <2>2
<1>4. ASSUME NEW w \in OXWorker, Acknowledge(w) PROVE OXInv'
  BY <1>4, AcknowledgeStep
<1>5. CASE UNCHANGED oxVars
  <2>1. /\ oxCfg' = oxCfg /\ oxSums' = oxSums /\ oxW' = oxW /\ oxSource' = oxSource
        /\ oxServer' = oxServer /\ oxAgain' = oxAgain /\ oxDue' = oxDue /\ oxCalm' = oxCalm
    BY <1>5 DEF oxVars
  <2>2. OXTypes' /\ CallsOK' /\ Arrived'
    BY <2>1 DEF OXInv, OXTypes, CallsOK, Arrived
  <2>3. ASSUME oxCalm', Mapped("requests", "event")' PROVE InOrder'
    <3>1. InOrder
      BY <2>1, <2>3, MappedKept DEF OXInv
    <3> QED BY <2>1, <3>1 DEF InOrder
  <2> QED BY <2>2, <2>3 DEF OXInv
<1> QED BY <1>1, <1>2, <1>3, <1>4, <1>5 DEF OXNext

\* OXInv says all that the exporter promises.
LEMMA OXPromises == ASSUME OXInv PROVE OXSafe
<1>1. OXTypes /\ CallsOK /\ Arrived /\ oxW \in [OXWorker -> OXCall]
  BY DEF OXInv, OXTypes
<1>2. /\ SumOver(OXWorker, LatIn(oxW)) \in Nat /\ SumOver(OXWorker, LogsIn(oxW)) \in Nat
      /\ SumOver(OXWorker, EventsLeft(oxW)) \in Nat
  BY <1>1, SumsOfCalls
<1>3. OXExactWhileCalm
  <2> DEFINE seen == oxSource.true - (oxSource.value - oxSums)
             s == SumOver(OXWorker, EventsLeft(oxW))
             e == oxServer.events
  <2> SUFFICES ASSUME oxCalm, oxSums >= 0, Mapped("requests", "event")
               PROVE  e <= seen /\ ((\A w \in OXWorker : oxW[w].pc = "idle") => e = seen)
    BY DEF OXExactWhileCalm
  <2>1. e + s = seen /\ e \in Nat /\ s \in Nat
    BY <1>1, <1>2 DEF OXInv, InOrder, OXTypes
  <2>2. ASSUME \A w \in OXWorker : oxW[w].pc = "idle" PROVE s = 0
    BY <1>1, <2>2, NothingInIdle
  <2> HIDE DEF seen, s, e
  <2>3. e <= seen
    BY <2>1
  <2>4. s = 0 => e = seen
    BY <2>1
  <2> QED BY <2>2, <2>3, <2>4
<1>4. OXAcknowledgedArrived
  <2>1. oxServer.lat \in Nat /\ oxServer.logs \in Nat /\ oxDue.lat \in Nat /\ oxDue.logs \in Nat
    BY <1>1 DEF OXTypes
  <2>2. /\ oxServer.lat >= oxDue.lat + SumOver(OXWorker, LatIn(oxW))
        /\ oxServer.logs >= oxDue.logs + SumOver(OXWorker, LogsIn(oxW))
    BY <1>1 DEF Arrived
  <2> QED BY <1>2, <2>1, <2>2 DEF OXAcknowledgedArrived
<1>5. OXHistogramBounded
  <2> SUFFICES ASSUME NEW w \in OXWorker, oxW[w].payload.hist # <<>>
               PROVE  LET h == oxW[w].payload.hist
                          out == expandHistogram(h)
                      IN  /\ HistogramCount(out) <= oxCfg.max
                          /\ HistogramCount(h) > 0 => HistogramCount(out) > 0
                          /\ \A i \in DOMAIN out : out[i] > 0 => h[i] > 0
    BY DEF OXHistogramBounded
  <2> DEFINE h == oxW[w].payload.hist
  <2>1. h \in OXHistogram
    BY <1>1 DEF OXCall, OXPayload
  <2>2. h \in Seq(Nat)
    BY <2>1, OXAssumption
  <2> HIDE DEF h
  <2>3. /\ HistogramCount(expandHistogram(h)) <= oxCfg.max
        /\ HistogramCount(h) > 0 => HistogramCount(expandHistogram(h)) > 0
        /\ \A i \in DOMAIN expandHistogram(h) : expandHistogram(h)[i] > 0 => h[i] > 0
    BY <1>1, <2>2, HistogramExpanded
  <2> QED BY <2>3 DEF h
<1> QED BY <1>3, <1>4, <1>5 DEF OXSafe

\* The exporter of the collector, for every number of concurrent calls, every
\* valid configuration and every histogram: the deltas the server has counted
\* are exact while nothing fails (collectMetric), a call that returned nil has
\* arrived whole whatever other calls did (flushBatches, postBatch), and a
\* histogram costs at most max_batch_items samples (expandHistogram).
THEOREM ExporterSafe == OXSpec => []OXSafe
<1>1. OXInit => OXInv
  BY OXStarts
<1>2. OXInv /\ [OXNext]_oxVars => OXInv'
  BY OXStep
<1>3. OXInv => OXSafe
  BY OXPromises
<1> QED BY <1>1, <1>2, <1>3, PTL DEF OXSpec

-----------------------------------------------------------------------------
(* The Go sketches.                                                         *)

\* The states of a sketch, and of what was added to it.
GSState == [buckets : [GSKeys -> Nat], zero : Nat, count : Nat, min : Int, max : Int,
            matrix : [GSRow -> [GSCol -> Nat]], total : Nat, regs : [GSRegisters -> Nat]]
GSTruth == [lat : [GSObserved -> Nat], ev : [GSItem -> Nat], uniq : SUBSET GSItem]
GSTyped == gs \in [GSSketch -> GSState] /\ gsTrue \in [GSSketch -> GSTruth]

\* Every counter is what it counts, modulo the word size.
GSZero == {v \in GSObserved : v = 0}
InBucket(k) == {v \in GSPositive : GSKey[v] = k}
InColumn(r, c) == {i \in GSItem : GSColumn[r][i] = c}
LatOK(d, lat) ==
    /\ d.count = Wrapped(SumOver(GSObserved, lat)) /\ d.zero = Wrapped(SumOver(GSZero, lat))
    /\ \A k \in GSKeys : d.buckets[k] = Wrapped(SumOver(InBucket(k), lat))
EvOK(d, ev) ==
    /\ d.total = Wrapped(SumOver(GSItem, ev))
    /\ \A r \in GSRow, c \in GSCol : d.matrix[r][c] = Wrapped(SumOver(InColumn(r, c), ev))

\* A register is the largest of the values of its items.
Rhos(uniq, i) == {GSRegister[x][2] : x \in {y \in uniq : GSRegister[y][1] = i}}
RegOK(d, uniq) ==
    \A i \in GSRegisters : d.regs[i] \in Rhos(uniq, i) \cup {0} /\ \A n \in Rhos(uniq, i) : n <= d.regs[i]

\* The inductive invariant.
GSInv ==
    /\ GSTyped
    /\ \A s \in GSSketch : /\ s \notin gsNan => LatOK(gs[s], gsTrue[s].lat)
                           /\ EvOK(gs[s], gsTrue[s].ev) /\ RegOK(gs[s], gsTrue[s].uniq)

GSSpec == GSInit /\ [][GSNext]_gsVars

\* A wrapped counter is a number below the word size, and what wrapping does
\* to sums.
LEMMA GSWraps ==
    /\ \A n \in Nat : Wrapped(n) \in Nat /\ Wrapped(n) < GSWord
    /\ \A a, b \in Nat : /\ Wrapped(Wrapped(a) + b) = Wrapped(a + b)
                         /\ Wrapped(Wrapped(a) + Wrapped(b)) = Wrapped(a + b)
    /\ \A n \in Nat : n < GSWord => Wrapped(n) = n
    /\ GSWord \in Nat \ {0}
<1>1. GSWord \in Nat \ {0}
  BY GSAssumption
<1>2. \A n \in Nat : n % GSWord \in Nat /\ n % GSWord < GSWord
  BY <1>1, Remainder
<1>3. \A a, b \in Nat : ((a % GSWord) + b) % GSWord = (a + b) % GSWord
  BY <1>1, WrapAdd
<1>4. \A a, b \in Nat : ((a % GSWord) + (b % GSWord)) % GSWord = (a + b) % GSWord
  BY <1>1, WrapBoth
<1>5. \A n \in Nat : n < GSWord => n % GSWord = n
  BY <1>1, WrapSmall
<1> QED BY <1>1, <1>2, <1>3, <1>4, <1>5, Zenon DEF Wrapped

\* The sets that are counted over are finite.
LEMMA GSFinite ==
    /\ IsFiniteSet(GSObserved) /\ IsFiniteSet(GSPositive) /\ IsFiniteSet(GSZero) /\ IsFiniteSet(GSKeys)
    /\ IsFiniteSet(GSItem) /\ IsFiniteSet(GSCol)
    /\ GSObserved \in SUBSET Int /\ GSKeys \in SUBSET Int
    /\ GSPositive \in SUBSET GSObserved /\ GSZero \in SUBSET GSObserved
    /\ GSZero = GSObserved \ GSPositive
    /\ \A v \in GSPositive : GSKey[v] \in GSKeys
    /\ \A k \in GSKeys : InBucket(k) \in SUBSET GSPositive
    /\ \A r \in GSRow, c \in GSCol : InColumn(r, c) \in SUBSET GSItem
<1>1. GSValue \in SUBSET Int /\ IsFiniteSet(GSValue)
  BY GSAssumption
<1>2. GSObserved \in SUBSET GSValue /\ GSPositive \in SUBSET GSValue /\ GSZero \in SUBSET GSValue
  BY DEF GSObserved, GSPositive, GSZero
<1>3. IsFiniteSet(GSObserved) /\ IsFiniteSet(GSPositive) /\ IsFiniteSet(GSZero)
  BY <1>1, <1>2, FS_Subset
<1>4. IsFiniteSet(GSKeys)
  <2> DEFINE K == {GSKey[v] : v \in GSPositive}
             f == [v \in GSPositive |-> GSKey[v]]
  <2>1. f \in Surjection(GSPositive, K)
    BY DEF Surjection
  <2> HIDE DEF f, K
  <2>2. IsFiniteSet(K)
    BY <1>3, <2>1, FS_Surjection
  <2>3. IsFiniteSet(GSNanKeys)
    BY GSAssumption
  <2>4. IsFiniteSet(K \cup GSNanKeys)
    BY <2>2, <2>3, FS_Union
  <2> QED BY <2>4 DEF GSKeys, K
<1>5. GSKeys \in SUBSET Int
  BY GSAssumption DEF GSKeys, GSPositive
<1>6. GSPositive \in SUBSET GSObserved /\ GSZero \in SUBSET GSObserved /\ GSZero = GSObserved \ GSPositive
  <2>1. \A v \in GSValue : v \in Int
    BY <1>1
  <2>2. GSPositive \in SUBSET GSObserved /\ GSZero \in SUBSET GSObserved
    BY <2>1 DEF GSObserved, GSPositive, GSZero
  <2>3. ASSUME NEW v PROVE v \in GSZero <=> v \in GSObserved \ GSPositive
    BY <2>1 DEF GSObserved, GSPositive, GSZero
  <2> QED BY <2>2, <2>3
<1>7. \A v \in GSPositive : GSKey[v] \in GSKeys
  BY DEF GSKeys
<1> QED BY <1>1, <1>2, <1>3, <1>4, <1>5, <1>6, <1>7, GSAssumption DEF InBucket, InColumn

\* What counting n more of x does to a wrapped sum over a part of X.
LEMMA CountMore ==
    ASSUME NEW X, IsFiniteSet(X), NEW S \in SUBSET X, NEW f \in [X -> Nat], NEW x \in X, NEW n \in Nat,
           NEW g, g[x] = f[x] + n, \A y \in X : y # x => g[y] = f[y]
    PROVE  /\ x \in S => Wrapped(SumOver(S, g)) = Wrapped(Wrapped(SumOver(S, f)) + n)
           /\ x \notin S => SumOver(S, g) = SumOver(S, f)
           /\ SumOver(S, f) \in Nat
<1>1. IsFiniteSet(S) /\ CountsOn(S, f) /\ CountsOn(S, g)
  BY FS_Subset DEF CountsOn
<1>2. SumOver(S, f) \in Nat /\ SumOver(S, g) \in Nat
  BY <1>1, SumFinite
<1>3. ASSUME x \in S PROVE Wrapped(SumOver(S, g)) = Wrapped(Wrapped(SumOver(S, f)) + n)
  <2>1. \A y \in S \ {x} : g[y] = f[y]
    OBVIOUS
  <2>2. SumOver(S, g) + f[x] = SumOver(S, f) + g[x]
    <3>1. x \in S
      BY <1>3
    <3> QED BY ONLY <1>1, <2>1, <3>1, SumChange
  <2>3. g[x] = f[x] + n /\ f[x] \in Nat
    OBVIOUS
  <2>4. SumOver(S, g) = SumOver(S, f) + n
    BY <1>2, <2>2, <2>3
  <2> QED BY <1>2, <2>4, GSWraps
<1>4. ASSUME x \notin S PROVE SumOver(S, g) = SumOver(S, f)
  <2>1. \A y \in S : g[y] = f[y]
    BY <1>4
  <2> QED BY <2>1, SumSame
<1> QED BY <1>2, <1>3, <1>4

\* The same of one more.
LEMMA CountOneMore ==
    ASSUME NEW X, IsFiniteSet(X), NEW f \in [X -> Nat], NEW x \in X,
           NEW g, g[x] = f[x] + 1, \A y \in X : y # x => g[y] = f[y]
    PROVE  \A S \in SUBSET X :
             /\ x \in S => Wrapped(SumOver(S, g)) = Wrapped(Wrapped(SumOver(S, f)) + 1)
             /\ x \notin S => SumOver(S, g) = SumOver(S, f)
<1> SUFFICES ASSUME NEW S \in SUBSET X
             PROVE  /\ x \in S => Wrapped(SumOver(S, g)) = Wrapped(Wrapped(SumOver(S, f)) + 1)
                    /\ x \notin S => SumOver(S, g) = SumOver(S, f)
  OBVIOUS
<1>1. PICK n \in Nat : n = 1
  OBVIOUS
<1>2. g[x] = f[x] + n
  BY <1>1
<1>3. /\ x \in S => Wrapped(SumOver(S, g)) = Wrapped(Wrapped(SumOver(S, f)) + n)
      /\ x \notin S => SumOver(S, g) = SumOver(S, f)
  BY <1>2, CountMore
<1> QED BY <1>1, <1>3

\* What adding up the counts of two sketches does to a wrapped sum.
LEMMA CountTogether ==
    ASSUME NEW X, IsFiniteSet(X), NEW S \in SUBSET X, NEW f \in [X -> Nat], NEW g \in [X -> Nat]
    PROVE  /\ Wrapped(SumOver(S, GSAdded(f, g, X))) = Wrapped(Wrapped(SumOver(S, f)) + Wrapped(SumOver(S, g)))
           /\ GSAdded(f, g, X) \in [X -> Nat]
<1> DEFINE h == GSAdded(f, g, X)
<1>1. IsFiniteSet(S) /\ CountsOn(S, f) /\ CountsOn(S, g)
  BY FS_Subset DEF CountsOn
<1>2. (\A y \in S : h[y] = f[y] + g[y]) /\ h \in [X -> Nat]
  BY DEF GSAdded
<1> HIDE DEF h
<1>3. SumOver(S, f) \in Nat /\ SumOver(S, g) \in Nat
  BY <1>1, SumFinite
<1>4. SumOver(S, h) = SumOver(S, f) + SumOver(S, g)
  BY <1>1, <1>2, SumAdd
<1>5. Wrapped(SumOver(S, h)) = Wrapped(Wrapped(SumOver(S, f)) + Wrapped(SumOver(S, g)))
  BY <1>3, <1>4, GSWraps
<1> QED BY <1>2, <1>5 DEF h

\* A new sketch has counted nothing.
LEMMA GSInitial ==
    ASSUME GSInit
    PROVE  GSInv
<1>1. GSEmpty \in GSState /\ GSNone \in GSTruth
  <2>1. GSTop \in Int /\ -1 \in Int /\ 0 \in Nat
    BY GSAssumption
  <2> QED BY <2>1 DEF GSEmpty, GSNone, GSState, GSTruth
<1>2. GSTyped
  BY <1>1 DEF GSInit, GSTyped
<1>3. Wrapped(0) = 0
  <2>1. 0 \in Nat /\ 0 < GSWord
    BY GSAssumption
  <2> QED BY <2>1, GSWraps
<1>4. \A S \in SUBSET GSObserved : SumOver(S, GSNone.lat) = 0
  <2> SUFFICES ASSUME NEW S \in SUBSET GSObserved PROVE SumOver(S, GSNone.lat) = 0
    OBVIOUS
  <2>1. \A x \in S : GSNone.lat[x] = 0
    BY DEF GSNone
  <2> QED BY <2>1, SumNothing
<1>5. \A S \in SUBSET GSItem : SumOver(S, GSNone.ev) = 0
  <2> SUFFICES ASSUME NEW S \in SUBSET GSItem PROVE SumOver(S, GSNone.ev) = 0
    OBVIOUS
  <2>1. \A x \in S : GSNone.ev[x] = 0
    BY DEF GSNone
  <2> QED BY <2>1, SumNothing
<1>6. LatOK(GSEmpty, GSNone.lat)
  <2>1. SumOver(GSObserved, GSNone.lat) = 0 /\ SumOver(GSZero, GSNone.lat) = 0
    BY <1>4, GSFinite
  <2>2. \A k \in GSKeys : SumOver(InBucket(k), GSNone.lat) = 0
    <3> SUFFICES ASSUME NEW k \in GSKeys PROVE SumOver(InBucket(k), GSNone.lat) = 0
      OBVIOUS
    <3>1. InBucket(k) \in SUBSET GSObserved
      BY GSFinite
    <3> QED BY <1>4, <3>1
  <2>3. GSEmpty.count = 0 /\ GSEmpty.zero = 0 /\ \A k \in GSKeys : GSEmpty.buckets[k] = 0
    BY DEF GSEmpty
  <2> QED BY <1>3, <2>1, <2>2, <2>3, Zenon DEF LatOK
<1>7. EvOK(GSEmpty, GSNone.ev)
  <2>1. SumOver(GSItem, GSNone.ev) = 0
    BY <1>5
  <2>2. \A r \in GSRow, c \in GSCol : SumOver(InColumn(r, c), GSNone.ev) = 0
    <3> SUFFICES ASSUME NEW r \in GSRow, NEW c \in GSCol PROVE SumOver(InColumn(r, c), GSNone.ev) = 0
      OBVIOUS
    <3>1. InColumn(r, c) \in SUBSET GSItem
      BY GSFinite
    <3> QED BY <1>5, <3>1
  <2>3. GSEmpty.total = 0 /\ \A r \in GSRow, c \in GSCol : GSEmpty.matrix[r][c] = 0
    BY DEF GSEmpty
  <2> QED BY <1>3, <2>1, <2>2, <2>3, Zenon DEF EvOK
<1>8. RegOK(GSEmpty, GSNone.uniq)
  <2>1. \A i \in GSRegisters : GSEmpty.regs[i] = 0 /\ Rhos(GSNone.uniq, i) = {}
    BY DEF GSEmpty, GSNone, Rhos
  <2> QED BY <2>1 DEF RegOK
<1>9. \A s \in GSSketch : gs[s] = GSEmpty /\ gsTrue[s] = GSNone
  BY DEF GSInit
<1> QED BY <1>2, <1>6, <1>7, <1>8, <1>9, Zenon DEF GSInv

\* One sketch changes.
LEMMA GSOneChanges ==
    ASSUME GSInv, NEW s \in GSSketch, NEW d \in GSState, NEW t \in GSTruth,
           gs' = [gs EXCEPT ![s] = d], gsTrue' = [gsTrue EXCEPT ![s] = t],
           gsNan \subseteq gsNan', s \notin gsNan' => LatOK(d, t.lat), EvOK(d, t.ev), RegOK(d, t.uniq)
    PROVE  GSInv'
<1>1. GSTyped'
  BY DEF GSInv, GSTyped
<1>2. ASSUME NEW x \in GSSketch
      PROVE  /\ x \notin gsNan' => LatOK(gs'[x], gsTrue'[x].lat)
             /\ EvOK(gs'[x], gsTrue'[x].ev) /\ RegOK(gs'[x], gsTrue'[x].uniq)
  <2>1. CASE x = s
    <3>1. gs'[x] = d /\ gsTrue'[x] = t
      BY <2>1 DEF GSInv, GSTyped
    <3> QED BY <2>1, <3>1, Zenon
  <2>2. CASE x # s
    <3>1. gs'[x] = gs[x] /\ gsTrue'[x] = gsTrue[x] /\ (x \notin gsNan' => x \notin gsNan)
      BY <2>2 DEF GSInv, GSTyped
    <3> QED BY <3>1, Zenon DEF GSInv
  <2> QED BY <2>1, <2>2
<1> QED BY <1>1, <1>2, Zenon DEF GSInv

\* The fields that Add of the DDSketch changes.
LEMMA WithKeyFields ==
    ASSUME NEW d \in GSState, NEW k \in GSKeys
    PROVE  /\ WithKey(d, k) \in GSState
           /\ WithKey(d, k).count = Wrapped(d.count + 1) /\ WithKey(d, k).zero = d.zero
           /\ WithKey(d, k).buckets[k] = Wrapped(d.buckets[k] + 1)
           /\ \A j \in GSKeys : j # k => WithKey(d, k).buckets[j] = d.buckets[j]
           /\ WithKey(d, k).matrix = d.matrix /\ WithKey(d, k).total = d.total
           /\ WithKey(d, k).regs = d.regs
<1>1. d.count + 1 \in Nat /\ d.buckets[k] + 1 \in Nat
  BY DEF GSState
<1>2. Wrapped(d.count + 1) \in Nat /\ Wrapped(d.buckets[k] + 1) \in Nat
  BY <1>1, GSWraps
<1> QED BY <1>2 DEF WithKey, GSState

\* The same of a zero.
LEMMA WithZeroFields ==
    ASSUME NEW d \in GSState
    PROVE  /\ WithZero(d) \in GSState
           /\ WithZero(d).count = Wrapped(d.count + 1) /\ WithZero(d).zero = Wrapped(d.zero + 1)
           /\ WithZero(d).buckets = d.buckets /\ WithZero(d).matrix = d.matrix
           /\ WithZero(d).total = d.total /\ WithZero(d).regs = d.regs
<1>1. d.count + 1 \in Nat /\ d.zero + 1 \in Nat
  BY DEF GSState
<1>2. Wrapped(d.count + 1) \in Nat /\ Wrapped(d.zero + 1) \in Nat
  BY <1>1, GSWraps
<1> QED BY <1>2 DEF WithZero, GSState

\* The same of minVal and maxVal.
LEMMA WithExtremaFields ==
    ASSUME NEW d \in GSState, NEW v \in Int
    PROVE  /\ WithExtrema(d, v) \in GSState
           /\ WithExtrema(d, v).count = d.count /\ WithExtrema(d, v).zero = d.zero
           /\ WithExtrema(d, v).buckets = d.buckets /\ WithExtrema(d, v).matrix = d.matrix
           /\ WithExtrema(d, v).total = d.total /\ WithExtrema(d, v).regs = d.regs
  BY DEF WithExtrema, GSState

\* A value is counted where it belongs.
LEMMA AddCounts ==
    ASSUME NEW d \in GSState, NEW v \in GSObserved, NEW lat \in [GSObserved -> Nat], LatOK(d, lat),
           NEW g, g[v] = lat[v] + 1, \A y \in GSObserved : y # v => g[y] = lat[y]
    PROVE  LatOK(WithValue(d, v), g)
<1> DEFINE e == WithExtrema(d, v)
<1>1. v \in Int /\ IsFiniteSet(GSObserved)
  BY GSFinite
<1>2. /\ e \in GSState /\ e.count = d.count /\ e.zero = d.zero /\ e.buckets = d.buckets
  BY <1>1, WithExtremaFields
<1>3. \A S \in SUBSET GSObserved :
         /\ v \in S => Wrapped(SumOver(S, g)) = Wrapped(Wrapped(SumOver(S, lat)) + 1)
         /\ v \notin S => SumOver(S, g) = SumOver(S, lat)
  <2>1. IsFiniteSet(GSObserved)
    BY GSFinite
  <2> QED BY <2>1, CountOneMore
<1>4. Wrapped(SumOver(GSObserved, g)) = Wrapped(d.count + 1)
  BY <1>3 DEF LatOK
<1>5. CASE v = 0
  <2>1. v \in GSZero /\ v \notin GSPositive
    BY <1>5 DEF GSZero, GSPositive
  <2>2. Wrapped(SumOver(GSZero, g)) = Wrapped(d.zero + 1)
    BY <1>3, <2>1, GSFinite DEF LatOK
  <2>3. \A k \in GSKeys : Wrapped(SumOver(InBucket(k), g)) = d.buckets[k]
    <3> SUFFICES ASSUME NEW k \in GSKeys PROVE Wrapped(SumOver(InBucket(k), g)) = d.buckets[k]
      OBVIOUS
    <3>1. InBucket(k) \in SUBSET GSObserved /\ v \notin InBucket(k)
      BY <2>1, GSFinite
    <3>2. SumOver(InBucket(k), g) = SumOver(InBucket(k), lat)
      BY <1>3, <3>1
    <3> QED BY <3>2 DEF LatOK
  <2>4. WithValue(d, v) = WithZero(e)
    BY <1>5 DEF WithValue
  <2>5. /\ WithZero(e).count = Wrapped(e.count + 1) /\ WithZero(e).zero = Wrapped(e.zero + 1)
        /\ WithZero(e).buckets = e.buckets
    BY <1>2, WithZeroFields
  <2> HIDE DEF e
  <2> QED BY <1>2, <1>4, <2>2, <2>3, <2>4, <2>5, Zenon DEF LatOK
<1>6. CASE v # 0
  <2>1. v \notin GSZero /\ v \in GSPositive
    BY <1>6, GSFinite DEF GSZero
  <2>2. Wrapped(SumOver(GSZero, g)) = d.zero
    BY <1>3, <2>1, GSFinite DEF LatOK
  <2> DEFINE h == GSKey[v]
  <2>3. h \in GSKeys
    BY <2>1, GSFinite
  <2>4. ASSUME NEW k \in GSKeys
        PROVE  Wrapped(SumOver(InBucket(k), g)) = IF k = h THEN Wrapped(d.buckets[k] + 1) ELSE d.buckets[k]
    <3>1. InBucket(k) \in SUBSET GSObserved /\ (v \in InBucket(k) <=> k = h)
      BY <2>1, GSFinite DEF InBucket
    <3>2. d.buckets[k] = Wrapped(SumOver(InBucket(k), lat))
      BY DEF LatOK
    <3>3. CASE k = h
      <4>1. Wrapped(SumOver(InBucket(k), g)) = Wrapped(Wrapped(SumOver(InBucket(k), lat)) + 1)
        BY <1>3, <3>1, <3>3
      <4> HIDE DEF h
      <4> QED BY <3>2, <3>3, <4>1
    <3>4. CASE k # h
      <4>1. SumOver(InBucket(k), g) = SumOver(InBucket(k), lat)
        BY <1>3, <3>1, <3>4
      <4> HIDE DEF h
      <4> QED BY <3>2, <3>4, <4>1
    <3> QED BY <3>3, <3>4
  <2>5. WithValue(d, v) = WithKey(e, h)
    BY <1>6 DEF WithValue
  <2> HIDE DEF e, h
  <2>6. /\ WithKey(e, h).count = Wrapped(e.count + 1) /\ WithKey(e, h).zero = e.zero
        /\ WithKey(e, h).buckets[h] = Wrapped(e.buckets[h] + 1)
        /\ \A j \in GSKeys : j # h => WithKey(e, h).buckets[j] = e.buckets[j]
    BY <1>2, <2>3, WithKeyFields
  <2>7. \A k \in GSKeys : WithKey(e, h).buckets[k] = Wrapped(SumOver(InBucket(k), g))
    BY <1>2, <2>4, <2>6
  <2> QED BY <1>2, <1>4, <2>2, <2>5, <2>6, <2>7, Zenon DEF LatOK
<1> QED BY <1>5, <1>6

\* What Add of a value leaves alone.
LEMMA WithValueRest ==
    ASSUME NEW d \in GSState, NEW v \in GSObserved
    PROVE  /\ WithValue(d, v) \in GSState /\ WithValue(d, v).matrix = d.matrix
           /\ WithValue(d, v).total = d.total /\ WithValue(d, v).regs = d.regs
<1> DEFINE e == WithExtrema(d, v)
<1>1. v \in Int
  BY GSFinite
<1>2. e \in GSState /\ e.matrix = d.matrix /\ e.total = d.total /\ e.regs = d.regs
  BY <1>1, WithExtremaFields
<1>3. CASE v = 0
  <2>1. WithValue(d, v) = WithZero(e)
    BY <1>3 DEF WithValue
  <2> HIDE DEF e
  <2> QED BY <1>2, <2>1, WithZeroFields
<1>4. CASE v # 0
  <2>1. WithValue(d, v) = WithKey(e, GSKey[v])
    BY <1>4 DEF WithValue
  <2>2. v \in GSPositive
    BY <1>4, GSFinite DEF GSZero
  <2>3. GSKey[v] \in GSKeys
    BY <2>2, GSFinite
  <2> HIDE DEF e
  <2> QED BY <1>2, <2>1, <2>3, WithKeyFields
<1> QED BY <1>3, <1>4

\* DDSketch.Add of a number.
LEMMA GSAddKeeps ==
    ASSUME GSInv, NEW s \in GSSketch, NEW v \in GSValue, GSAdd(s, v)
    PROVE  GSInv'
<1>1. CASE v < 0
  <2>1. gs' = gs /\ gsTrue' = gsTrue /\ gsNan' = gsNan
    BY <1>1 DEF GSAdd
  <2> QED BY <2>1 DEF GSInv, GSTyped, LatOK, EvOK, RegOK, Rhos
<1>2. CASE ~(v < 0)
  <2> DEFINE d == gs[s]
             lat == gsTrue[s].lat
             t == [gsTrue[s] EXCEPT !.lat[v] = gsTrue[s].lat[v] + 1]
             e == WithValue(d, v)
  <2>1. v \in GSObserved
    BY <1>2, GSAssumption DEF GSObserved
  <2>2. gs' = [gs EXCEPT ![s] = e] /\ gsTrue' = [gsTrue EXCEPT ![s] = t] /\ gsNan' = gsNan
    BY <1>2 DEF GSAdd
  <2>3. d \in GSState /\ gsTrue[s] \in GSTruth /\ lat \in [GSObserved -> Nat]
    BY DEF GSInv, GSTyped, GSTruth
  <2>4. /\ t \in GSTruth /\ t.ev = gsTrue[s].ev /\ t.uniq = gsTrue[s].uniq
        /\ t.lat[v] = lat[v] + 1 /\ \A y \in GSObserved : y # v => t.lat[y] = lat[y]
    BY <2>1, <2>3 DEF GSTruth
  <2> HIDE DEF t, lat, d
  <2>5. /\ e \in GSState /\ e.matrix = d.matrix /\ e.total = d.total /\ e.regs = d.regs
    BY <2>1, <2>3, WithValueRest
  <2>6. ASSUME s \notin gsNan' PROVE LatOK(e, t.lat)
    <3>1. LatOK(d, lat)
      BY <2>2, <2>6 DEF GSInv, d, lat
    <3> QED BY <2>1, <2>3, <2>4, <3>1, AddCounts
  <2> HIDE DEF e
  <2>7. EvOK(e, t.ev) /\ RegOK(e, t.uniq)
    <3>1. EvOK(d, t.ev) /\ RegOK(d, t.uniq)
      BY <2>4 DEF GSInv, d
    <3> QED BY <2>5, <3>1 DEF EvOK, RegOK
  <2> QED BY <2>2, <2>4, <2>5, <2>6, <2>7, GSOneChanges
<1> QED BY <1>1, <1>2

\* DDSketch.Add of a NaN.
LEMMA GSAddNaNKeeps ==
    ASSUME GSInv, NEW s \in GSSketch, NEW k \in GSNanKeys, GSAddNaN(s, k)
    PROVE  GSInv'
<1> DEFINE d == gs[s]
           t == gsTrue[s]
           e == WithKey(d, k)
<1>1. gs' = [gs EXCEPT ![s] = e] /\ gsTrue' = [gsTrue EXCEPT ![s] = t] /\ gsNan' = gsNan \cup {s}
  BY DEF GSAddNaN, GSInv, GSTyped
<1>2. d \in GSState /\ t \in GSTruth /\ k \in GSKeys
  BY DEF GSInv, GSTyped, GSKeys
<1>3. EvOK(d, t.ev) /\ RegOK(d, t.uniq)
  BY DEF GSInv
<1> HIDE DEF d, t
<1>4. /\ e \in GSState /\ e.matrix = d.matrix /\ e.total = d.total /\ e.regs = d.regs
  BY <1>2, WithKeyFields
<1> HIDE DEF e
<1>5. EvOK(e, t.ev) /\ RegOK(e, t.uniq)
  BY <1>3, <1>4 DEF EvOK, RegOK
<1> QED BY <1>1, <1>2, <1>4, <1>5, GSOneChanges

\* CountMinSketch.Add.
LEMMA GSAddEventKeeps ==
    ASSUME GSInv, NEW s \in GSSketch, NEW i \in GSItem, NEW n \in GSDelta, GSAddEvent(s, i, n)
    PROVE  GSInv'
<1> DEFINE d == gs[s]
           ev == gsTrue[s].ev
           t == [gsTrue[s] EXCEPT !.ev[i] = gsTrue[s].ev[i] + n]
           e == WithEvent(d, i, n)
<1>1. gs' = [gs EXCEPT ![s] = e] /\ gsTrue' = [gsTrue EXCEPT ![s] = t] /\ gsNan' = gsNan
  BY DEF GSAddEvent
<1>2. d \in GSState /\ gsTrue[s] \in GSTruth /\ ev \in [GSItem -> Nat] /\ n \in Nat
  BY GSAssumption DEF GSInv, GSTyped, GSTruth
<1>3. /\ t \in GSTruth /\ t.lat = gsTrue[s].lat /\ t.uniq = gsTrue[s].uniq
      /\ t.ev[i] = ev[i] + n /\ \A y \in GSItem : y # i => t.ev[y] = ev[y]
  BY <1>2 DEF GSTruth
<1>4. /\ EvOK(d, ev) /\ RegOK(d, t.uniq)
      /\ s \notin gsNan' => LatOK(d, t.lat)
  BY <1>1, <1>3 DEF GSInv
<1> HIDE DEF d, ev, t
<1>5. \A r \in GSRow : GSColumn[r][i] \in GSCol
  BY GSAssumption
<1>6. \A r \in GSRow, c \in GSCol : d.matrix[r][c] \in Nat /\ Wrapped(d.matrix[r][c] + n) \in Nat
  <2> SUFFICES ASSUME NEW r \in GSRow, NEW c \in GSCol
               PROVE  d.matrix[r][c] \in Nat /\ Wrapped(d.matrix[r][c] + n) \in Nat
    OBVIOUS
  <2>1. d.matrix[r][c] \in Nat
    BY <1>2 DEF GSState
  <2>2. d.matrix[r][c] + n \in Nat
    BY <1>2, <2>1
  <2> QED BY <2>1, <2>2, GSWraps
<1>7. d.total \in Nat /\ Wrapped(d.total + n) \in Nat
  <2>1. d.total \in Nat /\ d.total + n \in Nat
    BY <1>2 DEF GSState
  <2> QED BY <2>1, GSWraps
<1>8. /\ e.count = d.count /\ e.zero = d.zero /\ e.buckets = d.buckets /\ e.regs = d.regs
      /\ e.total = Wrapped(d.total + n)
  BY <1>2 DEF WithEvent, GSState
<1>9. \A r \in GSRow, c \in GSCol : /\ e.matrix[r] \in [GSCol -> Nat]
                                    /\ e.matrix[r][c] = IF c = GSColumn[r][i] THEN Wrapped(d.matrix[r][c] + n)
                                                        ELSE d.matrix[r][c]
  <2> SUFFICES ASSUME NEW r \in GSRow, NEW c \in GSCol
               PROVE  /\ e.matrix[r] \in [GSCol -> Nat]
                      /\ e.matrix[r][c] = IF c = GSColumn[r][i] THEN Wrapped(d.matrix[r][c] + n)
                                          ELSE d.matrix[r][c]
    OBVIOUS
  <2>1. e.matrix[r] = [d.matrix[r] EXCEPT ![GSColumn[r][i]] = Wrapped(d.matrix[r][GSColumn[r][i]] + n)]
    BY <1>2 DEF WithEvent, GSState
  <2>2. d.matrix[r] \in [GSCol -> Nat]
    BY <1>2 DEF GSState
  <2>3. Wrapped(d.matrix[r][GSColumn[r][i]] + n) \in Nat /\ GSColumn[r][i] \in GSCol
    BY <1>5, <1>6
  <2> HIDE DEF e
  <2> QED BY <2>1, <2>2, <2>3
<1>10. e \in GSState
  <2>1. e.matrix \in [GSRow -> [GSCol -> Nat]]
    <3>1. e.matrix = [r \in GSRow |-> [d.matrix[r] EXCEPT ![GSColumn[r][i]] = Wrapped(d.matrix[r][GSColumn[r][i]] + n)]]
      BY <1>2 DEF WithEvent, GSState
    <3>2. ASSUME NEW r \in GSRow
          PROVE  [d.matrix[r] EXCEPT ![GSColumn[r][i]] = Wrapped(d.matrix[r][GSColumn[r][i]] + n)] \in [GSCol -> Nat]
      <4>1. d.matrix[r] \in [GSCol -> Nat]
        BY <1>2 DEF GSState
      <4>2. Wrapped(d.matrix[r][GSColumn[r][i]] + n) \in Nat /\ GSColumn[r][i] \in GSCol
        BY <1>5, <1>6
      <4> QED BY <4>1, <4>2
    <3> HIDE DEF e
    <3> QED BY <3>1, <3>2
  <2>2. e = [d EXCEPT !.total = Wrapped(d.total + n), !.matrix = e.matrix]
    BY <1>2 DEF WithEvent, GSState
  <2> DEFINE m == e.matrix
  <2>3. [d EXCEPT !.total = Wrapped(d.total + n), !.matrix = m] \in GSState
    <3> HIDE DEF m, e
    <3>1. m \in [GSRow -> [GSCol -> Nat]]
      BY <2>1 DEF m
    <3> QED BY <1>2, <1>7, <3>1 DEF GSState
  <2> HIDE DEF e
  <2> QED BY <2>2, <2>3
<1> HIDE DEF e
<1>11. \A S \in SUBSET GSItem :
         /\ i \in S => Wrapped(SumOver(S, t.ev)) = Wrapped(Wrapped(SumOver(S, ev)) + n)
         /\ i \notin S => SumOver(S, t.ev) = SumOver(S, ev)
  <2> SUFFICES ASSUME NEW S \in SUBSET GSItem
               PROVE  /\ i \in S => Wrapped(SumOver(S, t.ev)) = Wrapped(Wrapped(SumOver(S, ev)) + n)
                      /\ i \notin S => SumOver(S, t.ev) = SumOver(S, ev)
    OBVIOUS
  <2>1. IsFiniteSet(GSItem)
    BY GSAssumption
  <2> QED BY <1>2, <1>3, <2>1, CountMore
<1>12. EvOK(e, t.ev)
  <2>1. e.total = Wrapped(SumOver(GSItem, t.ev))
    <3>1. Wrapped(SumOver(GSItem, t.ev)) = Wrapped(Wrapped(SumOver(GSItem, ev)) + n)
      BY <1>11
    <3>2. d.total = Wrapped(SumOver(GSItem, ev))
      BY <1>4 DEF EvOK
    <3> QED BY <1>8, <3>1, <3>2
  <2>2. ASSUME NEW r \in GSRow, NEW c \in GSCol
        PROVE  e.matrix[r][c] = Wrapped(SumOver(InColumn(r, c), t.ev))
    <3>1. InColumn(r, c) \in SUBSET GSItem /\ (i \in InColumn(r, c) <=> c = GSColumn[r][i])
      BY DEF InColumn
    <3>2. d.matrix[r][c] = Wrapped(SumOver(InColumn(r, c), ev))
      BY <1>4 DEF EvOK
    <3>3. CASE c = GSColumn[r][i]
      <4>1. Wrapped(SumOver(InColumn(r, c), t.ev)) = Wrapped(Wrapped(SumOver(InColumn(r, c), ev)) + n)
        BY <1>11, <3>1, <3>3
      <4>2. e.matrix[r][c] = Wrapped(d.matrix[r][c] + n)
        BY <1>9, <3>3
      <4> QED BY <3>2, <4>1, <4>2
    <3>4. CASE c # GSColumn[r][i]
      <4>1. SumOver(InColumn(r, c), t.ev) = SumOver(InColumn(r, c), ev)
        BY <1>11, <3>1, <3>4
      <4>2. e.matrix[r][c] = d.matrix[r][c]
        BY <1>9, <3>4
      <4> QED BY <3>2, <4>1, <4>2
    <3> QED BY <3>3, <3>4
  <2> QED BY <2>1, <2>2 DEF EvOK
<1>13. RegOK(e, t.uniq) /\ (s \notin gsNan' => LatOK(e, t.lat))
  BY <1>4, <1>8 DEF RegOK, LatOK
<1> QED BY <1>1, <1>3, <1>10, <1>12, <1>13, GSOneChanges

\* HyperLogLog.Add.
LEMMA GSAddUniqueKeeps ==
    ASSUME GSInv, NEW s \in GSSketch, NEW i \in GSItem, GSAddUnique(s, i)
    PROVE  GSInv'
<1> DEFINE d == gs[s]
           j == GSRegister[i][1]
           rho == GSRegister[i][2]
           m == GSLarger(rho, d.regs[j])
           t == [gsTrue[s] EXCEPT !.uniq = gsTrue[s].uniq \cup {i}]
           e == [d EXCEPT !.regs[j] = m]
<1>1. gs' = [gs EXCEPT ![s] = e] /\ gsTrue' = [gsTrue EXCEPT ![s] = t] /\ gsNan' = gsNan
  BY DEF GSAddUnique
<1>2. d \in GSState /\ gsTrue[s] \in GSTruth /\ j \in GSRegisters /\ rho \in Nat
  BY GSAssumption DEF GSInv, GSTyped, GSRegisters
<1>3. /\ t \in GSTruth /\ t.lat = gsTrue[s].lat /\ t.ev = gsTrue[s].ev
      /\ t.uniq = gsTrue[s].uniq \cup {i} /\ gsTrue[s].uniq \in SUBSET GSItem
  BY <1>2 DEF GSTruth
<1>4. /\ EvOK(d, t.ev) /\ RegOK(d, gsTrue[s].uniq)
      /\ s \notin gsNan' => LatOK(d, t.lat)
  BY <1>1, <1>3 DEF GSInv
<1>5. d.regs[j] \in Nat
  BY <1>2 DEF GSState
<1>6. m \in Nat /\ m \in {rho, d.regs[j]} /\ rho <= m /\ d.regs[j] <= m
  BY <1>2, <1>5 DEF GSLarger
<1>7. \A x \in GSRegisters : Rhos(t.uniq, x) = IF x = j THEN Rhos(gsTrue[s].uniq, x) \cup {rho}
                                               ELSE Rhos(gsTrue[s].uniq, x)
  BY <1>3 DEF Rhos
<1>8. \A x \in GSRegisters : Rhos(gsTrue[s].uniq, x) \in SUBSET Nat
  BY <1>3, GSAssumption DEF Rhos
<1> DEFINE u == gsTrue[s].uniq
<1> HIDE DEF d, j, rho, m, t, u
<1>9. /\ e \in GSState /\ e.matrix = d.matrix /\ e.total = d.total
      /\ e.count = d.count /\ e.zero = d.zero /\ e.buckets = d.buckets
      /\ e.regs[j] = m /\ \A x \in GSRegisters : x # j => e.regs[x] = d.regs[x]
  BY <1>2, <1>6 DEF GSState
<1> HIDE DEF e
<1>10. RegOK(e, t.uniq)
  <2> SUFFICES ASSUME NEW x \in GSRegisters
               PROVE  e.regs[x] \in Rhos(t.uniq, x) \cup {0} /\ \A n \in Rhos(t.uniq, x) : n <= e.regs[x]
    BY DEF RegOK
  <2>1. d.regs[x] \in Rhos(u, x) \cup {0} /\ \A n \in Rhos(u, x) : n <= d.regs[x]
    BY <1>4 DEF RegOK, u
  <2>2. Rhos(u, x) \in SUBSET Nat
    BY <1>8 DEF u
  <2>3. CASE x = j
    <3>1. Rhos(t.uniq, x) = Rhos(u, x) \cup {rho} /\ e.regs[x] = m
      BY <1>7, <1>9, <2>3 DEF u
    <3>2. m \in Rhos(t.uniq, x) \cup {0}
      BY <1>6, <2>1, <2>3, <3>1
    <3>3. ASSUME NEW n \in Rhos(t.uniq, x) PROVE n <= m
      <4>1. n = rho \/ (n \in Rhos(u, x) /\ n <= d.regs[j])
        BY <2>1, <2>3, <3>1, <3>3
      <4>2. n \in Nat
        BY <1>2, <2>2, <4>1
      <4> QED BY <1>2, <1>5, <1>6, <4>1, <4>2
    <3> QED BY <3>1, <3>2, <3>3
  <2>4. CASE x # j
    <3>1. Rhos(t.uniq, x) = Rhos(u, x) /\ e.regs[x] = d.regs[x]
      BY <1>7, <1>9, <2>4 DEF u
    <3> QED BY <2>1, <3>1
  <2> QED BY <2>3, <2>4
<1>11. EvOK(e, t.ev) /\ (s \notin gsNan' => LatOK(e, t.lat))
  BY <1>4, <1>9 DEF EvOK, LatOK
<1> QED BY <1>1, <1>3, <1>9, <1>10, <1>11, GSOneChanges

\* DDSketch.Merge.
LEMMA GSMergeDDKeeps ==
    ASSUME GSInv, NEW s \in GSSketch, NEW o \in GSSketch, GSMergeDD(s, o)
    PROVE  GSInv'
<1> DEFINE d == gs[s]
           b == gs[o]
           f == gsTrue[s].lat
           g == gsTrue[o].lat
           t == [gsTrue[s] EXCEPT !.lat = GSAdded(f, g, GSObserved)]
           e == MergedDD(d, b)
<1>1. gs' = [gs EXCEPT ![s] = e] /\ gsTrue' = [gsTrue EXCEPT ![s] = t]
  BY DEF GSMergeDD
<1>2. gsNan \subseteq gsNan' /\ (s \notin gsNan' => s \notin gsNan /\ o \notin gsNan)
  BY DEF GSMergeDD
<1>3. d \in GSState /\ b \in GSState /\ gsTrue[s] \in GSTruth /\ f \in [GSObserved -> Nat] /\ g \in [GSObserved -> Nat]
  BY DEF GSInv, GSTyped, GSTruth
<1>4. EvOK(d, gsTrue[s].ev) /\ RegOK(d, gsTrue[s].uniq)
  BY DEF GSInv
<1>5. s \notin gsNan' => LatOK(d, f) /\ LatOK(b, g)
  BY <1>2 DEF GSInv
<1>6. ASSUME NEW S \in SUBSET GSObserved
      PROVE  /\ GSAdded(f, g, GSObserved) \in [GSObserved -> Nat]
             /\ Wrapped(SumOver(S, GSAdded(f, g, GSObserved)))
                  = Wrapped(Wrapped(SumOver(S, f)) + Wrapped(SumOver(S, g)))
  <2> HIDE DEF d, b, f, g, e, t
  <2> QED BY <1>3, GSFinite, CountTogether
<1>7. GSAdded(f, g, GSObserved) \in [GSObserved -> Nat]
  BY <1>6
<1> DEFINE h == GSAdded(f, g, GSObserved)
<1>8. t \in GSTruth /\ t.ev = gsTrue[s].ev /\ t.uniq = gsTrue[s].uniq /\ t.lat = h
  <2> HIDE DEF h
  <2>1. t = [gsTrue[s] EXCEPT !.lat = h]
    BY DEF h
  <2>2. h \in [GSObserved -> Nat]
    BY <1>7 DEF h
  <2> HIDE DEF t
  <2> QED BY <1>3, <2>1, <2>2 DEF GSTruth
<1> HIDE DEF d, b, f, g, t, h
<1>9. /\ d.count + b.count \in Nat /\ d.zero + b.zero \in Nat
      /\ \A k \in GSKeys : d.buckets[k] + b.buckets[k] \in Nat
  BY <1>3 DEF GSState
<1>10. /\ Wrapped(d.count + b.count) \in Nat /\ Wrapped(d.zero + b.zero) \in Nat
       /\ \A k \in GSKeys : Wrapped(d.buckets[k] + b.buckets[k]) \in Nat
  BY <1>9, GSWraps
<1>11. (IF b.min < d.min THEN b.min ELSE d.min) \in Int /\ GSLarger(b.max, d.max) \in Int
  BY <1>3 DEF GSState, GSLarger
<1>12. /\ e \in GSState /\ e.matrix = d.matrix /\ e.total = d.total /\ e.regs = d.regs
       /\ e.count = Wrapped(d.count + b.count) /\ e.zero = Wrapped(d.zero + b.zero)
       /\ \A k \in GSKeys : e.buckets[k] = Wrapped(d.buckets[k] + b.buckets[k])
  BY <1>3, <1>10, <1>11 DEF MergedDD, GSState
<1> HIDE DEF e
<1>13. EvOK(e, t.ev) /\ RegOK(e, t.uniq)
  BY <1>4, <1>8, <1>12 DEF EvOK, RegOK
<1>14. ASSUME s \notin gsNan' PROVE LatOK(e, t.lat)
  <2>1. LatOK(d, f) /\ LatOK(b, g)
    BY <1>5, <1>14
  <2>2. \A S \in SUBSET GSObserved : Wrapped(SumOver(S, h)) = Wrapped(Wrapped(SumOver(S, f)) + Wrapped(SumOver(S, g)))
    BY <1>6 DEF h
  <2>3. e.count = Wrapped(SumOver(GSObserved, h))
    BY <1>12, <2>1, <2>2 DEF LatOK
  <2>4. e.zero = Wrapped(SumOver(GSZero, h))
    BY <1>12, <2>1, <2>2, GSFinite DEF LatOK
  <2>5. ASSUME NEW k \in GSKeys PROVE e.buckets[k] = Wrapped(SumOver(InBucket(k), h))
    <3>1. InBucket(k) \in SUBSET GSObserved
      BY GSFinite
    <3>2. Wrapped(SumOver(InBucket(k), h)) = Wrapped(Wrapped(SumOver(InBucket(k), f)) + Wrapped(SumOver(InBucket(k), g)))
      BY <2>2, <3>1
    <3>3. d.buckets[k] = Wrapped(SumOver(InBucket(k), f)) /\ b.buckets[k] = Wrapped(SumOver(InBucket(k), g))
      BY <2>1 DEF LatOK
    <3> QED BY <1>12, <3>2, <3>3
  <2> QED BY <1>8, <2>3, <2>4, <2>5 DEF LatOK
<1> QED BY <1>1, <1>2, <1>8, <1>12, <1>13, <1>14, GSOneChanges

\* CountMinSketch.Merge.
LEMMA GSMergeCMKeeps ==
    ASSUME GSInv, NEW s \in GSSketch, NEW o \in GSSketch, GSMergeCM(s, o)
    PROVE  GSInv'
<1> DEFINE d == gs[s]
           b == gs[o]
           f == gsTrue[s].ev
           g == gsTrue[o].ev
           t == [gsTrue[s] EXCEPT !.ev = GSAdded(f, g, GSItem)]
           e == MergedCM(d, b)
<1>1. gs' = [gs EXCEPT ![s] = e] /\ gsTrue' = [gsTrue EXCEPT ![s] = t] /\ gsNan' = gsNan
  BY DEF GSMergeCM
<1>2. d \in GSState /\ b \in GSState /\ gsTrue[s] \in GSTruth /\ f \in [GSItem -> Nat] /\ g \in [GSItem -> Nat]
  BY DEF GSInv, GSTyped, GSTruth
<1>3. RegOK(d, gsTrue[s].uniq) /\ (s \notin gsNan' => LatOK(d, gsTrue[s].lat))
  BY <1>1 DEF GSInv
<1>4. EvOK(d, f) /\ EvOK(b, g)
  BY DEF GSInv
<1>5. ASSUME NEW S \in SUBSET GSItem
      PROVE  /\ GSAdded(f, g, GSItem) \in [GSItem -> Nat]
             /\ Wrapped(SumOver(S, GSAdded(f, g, GSItem))) = Wrapped(Wrapped(SumOver(S, f)) + Wrapped(SumOver(S, g)))
  <2> HIDE DEF d, b, f, g, e, t
  <2> QED BY <1>2, GSFinite, CountTogether
<1>6. GSAdded(f, g, GSItem) \in [GSItem -> Nat]
  BY <1>5
<1> DEFINE h == GSAdded(f, g, GSItem)
<1>7. t \in GSTruth /\ t.lat = gsTrue[s].lat /\ t.uniq = gsTrue[s].uniq /\ t.ev = h
  <2> HIDE DEF h
  <2>1. t = [gsTrue[s] EXCEPT !.ev = h]
    BY DEF h
  <2>2. h \in [GSItem -> Nat]
    BY <1>6 DEF h
  <2> HIDE DEF t
  <2> QED BY <1>2, <2>1, <2>2 DEF GSTruth
<1> HIDE DEF d, b, f, g, t, h
<1>8. Wrapped(d.total + b.total) \in Nat
  <2>1. d.total + b.total \in Nat
    BY <1>2 DEF GSState
  <2> QED BY <2>1, GSWraps
<1>9. \A r \in GSRow, c \in GSCol : Wrapped(d.matrix[r][c] + b.matrix[r][c]) \in Nat
  <2> SUFFICES ASSUME NEW r \in GSRow, NEW c \in GSCol PROVE Wrapped(d.matrix[r][c] + b.matrix[r][c]) \in Nat
    OBVIOUS
  <2>1. d.matrix[r][c] \in Nat /\ b.matrix[r][c] \in Nat
    BY <1>2 DEF GSState
  <2>2. d.matrix[r][c] + b.matrix[r][c] \in Nat
    BY <2>1
  <2> QED BY <2>2, GSWraps
<1> DEFINE m == [r \in GSRow |-> [c \in GSCol |-> Wrapped(d.matrix[r][c] + b.matrix[r][c])]]
<1>10. m \in [GSRow -> [GSCol -> Nat]] /\ \A r \in GSRow, c \in GSCol : m[r][c] = Wrapped(d.matrix[r][c] + b.matrix[r][c])
  BY <1>9
<1>11. e = [d EXCEPT !.matrix = m, !.total = Wrapped(d.total + b.total)]
  BY DEF MergedCM
<1> HIDE DEF m, e
<1>12. /\ e \in GSState /\ e.count = d.count /\ e.zero = d.zero /\ e.buckets = d.buckets /\ e.regs = d.regs
       /\ e.total = Wrapped(d.total + b.total) /\ e.matrix = m
  BY <1>2, <1>8, <1>10, <1>11 DEF GSState
<1>13. RegOK(e, t.uniq) /\ (s \notin gsNan' => LatOK(e, t.lat))
  BY <1>3, <1>7, <1>12 DEF LatOK, RegOK
<1>14. EvOK(e, t.ev)
  <2>1. \A S \in SUBSET GSItem : Wrapped(SumOver(S, h)) = Wrapped(Wrapped(SumOver(S, f)) + Wrapped(SumOver(S, g)))
    BY <1>5 DEF h
  <2>2. e.total = Wrapped(SumOver(GSItem, h))
    BY <1>4, <1>12, <2>1 DEF EvOK
  <2>3. ASSUME NEW r \in GSRow, NEW c \in GSCol PROVE e.matrix[r][c] = Wrapped(SumOver(InColumn(r, c), h))
    <3>1. InColumn(r, c) \in SUBSET GSItem
      BY GSFinite
    <3>2. Wrapped(SumOver(InColumn(r, c), h)) = Wrapped(Wrapped(SumOver(InColumn(r, c), f)) + Wrapped(SumOver(InColumn(r, c), g)))
      BY <2>1, <3>1
    <3>3. d.matrix[r][c] = Wrapped(SumOver(InColumn(r, c), f)) /\ b.matrix[r][c] = Wrapped(SumOver(InColumn(r, c), g))
      BY <1>4 DEF EvOK
    <3> QED BY <1>10, <1>12, <3>2, <3>3
  <2> QED BY <1>7, <2>2, <2>3 DEF EvOK
<1> QED BY <1>1, <1>7, <1>12, <1>13, <1>14, GSOneChanges

\* HyperLogLog.Merge.
LEMMA GSMergeHLLKeeps ==
    ASSUME GSInv, NEW s \in GSSketch, NEW o \in GSSketch, GSMergeHLL(s, o)
    PROVE  GSInv'
<1> DEFINE d == gs[s]
           b == gs[o]
           u == gsTrue[s].uniq
           w == gsTrue[o].uniq
           t == [gsTrue[s] EXCEPT !.uniq = u \cup w]
           e == MergedHLL(d, b)
<1>1. gs' = [gs EXCEPT ![s] = e] /\ gsTrue' = [gsTrue EXCEPT ![s] = t] /\ gsNan' = gsNan
  BY DEF GSMergeHLL
<1>2. d \in GSState /\ b \in GSState /\ gsTrue[s] \in GSTruth /\ u \in SUBSET GSItem /\ w \in SUBSET GSItem
  BY DEF GSInv, GSTyped, GSTruth
<1>3. EvOK(d, gsTrue[s].ev) /\ (s \notin gsNan' => LatOK(d, gsTrue[s].lat))
  BY <1>1 DEF GSInv
<1>4. RegOK(d, u) /\ RegOK(b, w)
  BY DEF GSInv
<1>5. t \in GSTruth /\ t.lat = gsTrue[s].lat /\ t.ev = gsTrue[s].ev /\ t.uniq = u \cup w
  BY <1>2 DEF GSTruth
<1> HIDE DEF d, b, u, w, t
<1>6. \A x \in GSRegisters : d.regs[x] \in Nat /\ b.regs[x] \in Nat
  BY <1>2 DEF GSState
<1>7. \A x \in GSRegisters : /\ GSLarger(b.regs[x], d.regs[x]) \in Nat
                             /\ GSLarger(b.regs[x], d.regs[x]) \in {b.regs[x], d.regs[x]}
                             /\ b.regs[x] <= GSLarger(b.regs[x], d.regs[x])
                             /\ d.regs[x] <= GSLarger(b.regs[x], d.regs[x])
  BY <1>6 DEF GSLarger
<1>8. /\ e \in GSState /\ e.matrix = d.matrix /\ e.total = d.total
      /\ e.count = d.count /\ e.zero = d.zero /\ e.buckets = d.buckets
      /\ \A x \in GSRegisters : e.regs[x] = GSLarger(b.regs[x], d.regs[x])
  BY <1>2, <1>7 DEF MergedHLL, GSState
<1> HIDE DEF e
<1>9. RegOK(e, t.uniq)
  <2> SUFFICES ASSUME NEW x \in GSRegisters
               PROVE  e.regs[x] \in Rhos(t.uniq, x) \cup {0} /\ \A n \in Rhos(t.uniq, x) : n <= e.regs[x]
    BY DEF RegOK
  <2>1. /\ d.regs[x] \in Rhos(u, x) \cup {0} /\ \A n \in Rhos(u, x) : n <= d.regs[x]
        /\ b.regs[x] \in Rhos(w, x) \cup {0} /\ \A n \in Rhos(w, x) : n <= b.regs[x]
    BY <1>4 DEF RegOK
  <2>2. Rhos(t.uniq, x) = Rhos(u, x) \cup Rhos(w, x)
    BY <1>5 DEF Rhos
  <2>3. Rhos(t.uniq, x) \in SUBSET Nat
    BY <1>2, <1>5, GSAssumption DEF Rhos
  <2>4. e.regs[x] \in Rhos(t.uniq, x) \cup {0}
    BY <1>7, <1>8, <2>1, <2>2
  <2>5. ASSUME NEW n \in Rhos(t.uniq, x) PROVE n <= e.regs[x]
    <3>1. n \in Nat /\ (n <= d.regs[x] \/ n <= b.regs[x])
      BY <2>1, <2>2, <2>3
    <3> QED BY <1>6, <1>7, <1>8, <3>1
  <2> QED BY <2>4, <2>5
<1>10. EvOK(e, t.ev) /\ (s \notin gsNan' => LatOK(e, t.lat))
  BY <1>3, <1>5, <1>8 DEF EvOK, LatOK
<1> QED BY <1>1, <1>5, <1>8, <1>9, <1>10, GSOneChanges

\* Every step keeps the invariant.
LEMMA GSStep ==
    ASSUME GSInv, [GSNext]_gsVars
    PROVE  GSInv'
<1>1. CASE UNCHANGED gsVars
  BY <1>1 DEF gsVars, GSInv, GSTyped, LatOK, EvOK, RegOK, Rhos
<1>2. CASE GSNext
  <2>1. PICK s \in GSSketch :
            \/ \E v \in GSValue : GSAdd(s, v)
            \/ \E k \in GSNanKeys : GSAddNaN(s, k)
            \/ \E i \in GSItem, n \in GSDelta : GSAddEvent(s, i, n)
            \/ \E i \in GSItem : GSAddUnique(s, i)
            \/ \E t \in GSSketch : GSMergeDD(s, t) \/ GSMergeCM(s, t) \/ GSMergeHLL(s, t)
    BY <1>2 DEF GSNext
  <2> QED BY <2>1, GSAddKeeps, GSAddNaNKeeps, GSAddEventKeeps, GSAddUniqueKeeps,
             GSMergeDDKeeps, GSMergeCMKeeps, GSMergeHLLKeeps
<1> QED BY <1>1, <1>2

\* The registers.
LEMMA GSRegistersHold ==
    ASSUME GSInv
    PROVE  GSRegistersMax
<1> SUFFICES ASSUME NEW s \in GSSketch, NEW i \in GSRegisters
             PROVE  /\ gs[s].regs[i] \in Rhos(gsTrue[s].uniq, i) \cup {0}
                    /\ \A n \in Rhos(gsTrue[s].uniq, i) : n <= gs[s].regs[i]
  BY DEF GSRegistersMax, Rhos
<1>1. RegOK(gs[s], gsTrue[s].uniq)
  BY DEF GSInv
<1> QED BY <1>1 DEF RegOK

\* A row of the matrix sums to the total.
LEMMA RowSums ==
    ASSUME NEW d \in GSState, NEW ev \in [GSItem -> Nat], EvOK(d, ev), NEW r \in GSRow
    PROVE  Wrapped(SumOf(d.matrix[r], GSCol)) = d.total
<1> DEFINE f == [c \in GSCol |-> SumOver(InColumn(r, c), ev)]
           K == [c \in GSCol |-> InColumn(r, c)]
           m == d.matrix[r]
           h == GSColumn[r]
<1>1. IsFiniteSet(GSItem) /\ IsFiniteSet(GSCol) /\ CountsOn(GSItem, ev) /\ GSWord \in Nat \ {0}
  BY GSAssumption DEF CountsOn
<1>2. /\ \A c \in GSCol : f[c] = SumOver(K[c], ev)
      /\ \A c \in GSCol : \A x : x \in K[c] <=> x \in GSItem /\ h[x] = c
  BY DEF InColumn
<1>3. m \in [GSCol -> Nat] /\ CountsOn(GSCol, m)
  BY DEF GSState, CountsOn
<1>4. \A c \in GSCol : m[c] = f[c] % GSWord
  BY DEF EvOK, Wrapped
<1>5. \A x : x \in GSItem <=> x \in GSItem /\ h[x] \in GSCol
  BY GSAssumption
<1> HIDE DEF f, K, m, h
<1>6. SumOver(GSCol, f) = SumOver(GSItem, ev) /\ CountsOn(GSCol, f)
  BY <1>1, <1>2, <1>5, SumByClass
<1>7. SumOver(GSCol, m) % GSWord = SumOver(GSCol, f) % GSWord
  BY <1>1, <1>4, <1>6, SumWrapped
<1>8. SumOf(m, GSCol) = SumOver(GSCol, m)
  BY <1>1, <1>3, SumOfUnits
<1>9. d.total = Wrapped(SumOver(GSItem, ev))
  BY DEF EvOK
<1> QED BY <1>6, <1>7, <1>8, <1>9 DEF Wrapped, m

\* Every entry an item is counted in counts all of it.
LEMMA EntryCounts ==
    ASSUME NEW d \in GSState, NEW ev \in [GSItem -> Nat], EvOK(d, ev), NEW r \in GSRow, NEW i \in GSItem,
           SumOver(GSItem, ev) < GSWord
    PROVE  d.matrix[r][GSColumn[r][i]] \in Nat /\ d.matrix[r][GSColumn[r][i]] >= ev[i]
<1> DEFINE c == GSColumn[r][i]
           S == InColumn(r, c)
<1>1. c \in GSCol /\ IsFiniteSet(GSItem) /\ GSWord \in Nat
  BY GSAssumption
<1>2. S \in SUBSET GSItem /\ i \in S
  BY DEF InColumn
<1>3. d.matrix[r][c] = Wrapped(SumOver(S, ev))
  BY <1>1 DEF EvOK
<1> HIDE DEF S, c
<1>4. CountsOn(GSItem, ev) /\ CountsOn(S, ev) /\ IsFiniteSet(S)
  BY <1>1, <1>2, FS_Subset DEF CountsOn
<1>5. SumOver(S, ev) <= SumOver(GSItem, ev) /\ SumOver(S, ev) \in Nat /\ SumOver(GSItem, ev) \in Nat
  BY <1>1, <1>2, <1>4, SumPart
<1>6. SumOver(S, ev) = ev[i] + SumOver(S \ {i}, ev) /\ SumOver(S \ {i}, ev) \in Nat /\ ev[i] \in Nat
  BY <1>2, <1>4, SumInsert
<1>7. SumOver(S, ev) < GSWord
  BY <1>1, <1>5
<1>8. Wrapped(SumOver(S, ev)) = SumOver(S, ev)
  BY <1>5, <1>7, GSWraps
<1>9. d.matrix[r][c] = SumOver(S, ev)
  BY <1>3, <1>8
<1> QED BY <1>5, <1>6, <1>9 DEF c

\* The event counts.
LEMMA GSCountsHold ==
    ASSUME GSInv
    PROVE  GSCountsUp
<1> SUFFICES ASSUME NEW s \in GSSketch
             PROVE  /\ SumOf(gsTrue[s].ev, GSItem) < GSWord =>
                         \A i \in GSItem : GSCount(gs[s], i) >= gsTrue[s].ev[i]
                    /\ \A r \in GSRow : Wrapped(SumOf(gs[s].matrix[r], GSCol)) = gs[s].total
  BY DEF GSCountsUp
<1> DEFINE d == gs[s]
           ev == gsTrue[s].ev
<1>1. d \in GSState /\ ev \in [GSItem -> Nat] /\ EvOK(d, ev)
  BY DEF GSInv, GSTyped, GSTruth
<1> HIDE DEF d, ev
<1>2. \A r \in GSRow : Wrapped(SumOf(d.matrix[r], GSCol)) = d.total
  BY <1>1, RowSums
<1>3. ASSUME SumOf(ev, GSItem) < GSWord, NEW i \in GSItem PROVE GSCount(d, i) >= ev[i]
  <2>1. IsFiniteSet(GSItem) /\ CountsOn(GSItem, ev)
    BY <1>1, GSAssumption DEF CountsOn
  <2>2. SumOf(ev, GSItem) = SumOver(GSItem, ev)
    BY <2>1, SumOfUnits
  <2>3. SumOver(GSItem, ev) < GSWord
    BY <1>3, <2>2
  <2> DEFINE N == {d.matrix[r][GSColumn[r][i]] : r \in GSRow}
  <2>4. \A r \in GSRow : d.matrix[r][GSColumn[r][i]] \in Nat /\ d.matrix[r][GSColumn[r][i]] >= ev[i]
    BY <1>1, <2>3, EntryCounts
  <2>5. N \in SUBSET Nat /\ N # {} /\ \A n \in N : n >= ev[i]
    BY <2>4, GSAssumption
  <2>6. \E n \in N : \A y \in N : n <= y
    <3> HIDE DEF N
    <3> QED BY <2>5, LeastNumber
  <2>7. \E n \in N : \A r \in GSRow : n <= d.matrix[r][GSColumn[r][i]]
    BY <2>6
  <2>8. GSCount(d, i) \in N
    <3> DEFINE Q(n) == \A r \in GSRow : n <= d.matrix[r][GSColumn[r][i]]
    <3>1. \E n \in N : Q(n)
      BY <2>7
    <3>2. GSCount(d, i) = CHOOSE n \in N : Q(n)
      BY DEF GSCount
    <3> HIDE DEF Q, N
    <3> QED BY <3>1, <3>2
  <2> QED BY <2>5, <2>8
<1> QED BY <1>2, <1>3 DEF d, ev

\* How many values are at most v, and below v.
Upto(lat, v) == SumOver({x \in GSObserved : x <= v}, lat)
Below(lat, v) == SumOver({x \in GSObserved : x < v}, lat)

\* Every rank has its value.
LEMMA RankValue ==
    ASSUME NEW lat \in [GSObserved -> Nat], NEW r \in Nat, r >= 1, r <= SumOver(GSObserved, lat)
    PROVE  \E v \in GSObserved : /\ lat[v] > 0 /\ Below(lat, v) < r /\ r <= Upto(lat, v)
                                 /\ Below(lat, v) \in Nat /\ Upto(lat, v) \in Nat
<1>1. IsFiniteSet(GSObserved) /\ CountsOn(GSObserved, lat) /\ GSObserved \in SUBSET Int
  BY GSFinite DEF CountsOn
<1>2. PICK v \in GSObserved :
        /\ lat[v] > 0 /\ lat[v] \in Nat
        /\ SumOver(LessThan(GSObserved, v), lat) < r /\ r <= SumOver(AtMost(GSObserved, v), lat)
        /\ SumOver(LessThan(GSObserved, v), lat) \in Nat /\ SumOver(AtMost(GSObserved, v), lat) \in Nat
  BY <1>1, RankMember
<1> QED BY <1>2 DEF Upto, Below, LessThan, AtMost

\* The sketch's own sums, as long as nothing has wrapped.
LEMMA SketchSums ==
    ASSUME NEW d \in GSState, NEW lat \in [GSObserved -> Nat], LatOK(d, lat), SumOver(GSObserved, lat) < GSWord
    PROVE  /\ d.count = SumOver(GSObserved, lat) /\ d.zero = SumOver(GSZero, lat)
           /\ \A k \in GSKeys : BucketsUpto(d, k) = SumOver({v \in GSPositive : GSKey[v] <= k}, lat)
<1>1. IsFiniteSet(GSObserved) /\ CountsOn(GSObserved, lat) /\ GSWord \in Nat \ {0}
  BY GSFinite, GSAssumption DEF CountsOn
<1>2. ASSUME NEW S \in SUBSET GSObserved
      PROVE  /\ IsFiniteSet(S) /\ CountsOn(S, lat) /\ SumOver(S, lat) \in Nat
             /\ Wrapped(SumOver(S, lat)) = SumOver(S, lat)
  <2>1. IsFiniteSet(S) /\ CountsOn(S, lat)
    BY <1>1, FS_Subset DEF CountsOn
  <2>2. SumOver(S, lat) <= SumOver(GSObserved, lat) /\ SumOver(S, lat) \in Nat /\ SumOver(GSObserved, lat) \in Nat
    BY <1>1, SumPart
  <2>3. SumOver(S, lat) < GSWord
    BY <1>1, <2>2
  <2> QED BY <2>1, <2>2, <2>3, GSWraps
<1>3. d.count = SumOver(GSObserved, lat) /\ d.zero = SumOver(GSZero, lat)
  BY <1>2, GSFinite DEF LatOK
<1>4. ASSUME NEW k \in GSKeys
      PROVE  BucketsUpto(d, k) = SumOver({v \in GSPositive : GSKey[v] <= k}, lat)
  <2> DEFINE J == {j \in GSKeys : j <= k}
             K == [j \in J |-> InBucket(j)]
             f == [j \in J |-> SumOver(InBucket(j), lat)]
             b == d.buckets
             R == {v \in GSPositive : GSKey[v] <= k}
  <2>1. IsFiniteSet(J) /\ J \in SUBSET GSKeys
    BY GSFinite, FS_Subset
  <2>2. \A j \in J : b[j] = f[j] % GSWord
    BY DEF LatOK, Wrapped
  <2>3. CountsOn(J, b)
    BY DEF GSState, CountsOn
  <2>4. /\ \A j \in J : f[j] = SumOver(K[j], lat)
        /\ \A j \in J : \A x : x \in K[j] <=> x \in GSPositive /\ GSKey[x] = j
    BY DEF InBucket
  <2>5. \A x : x \in R <=> x \in GSPositive /\ GSKey[x] \in J
    BY GSFinite
  <2>6. IsFiniteSet(GSPositive) /\ CountsOn(GSPositive, lat)
    BY <1>2, GSFinite
  <2>7. R \in SUBSET GSObserved
    BY GSFinite
  <2>8. BucketsUpto(d, k) = Wrapped(SumOf(b, J))
    BY DEF BucketsUpto
  <2> HIDE DEF J, K, f, b, R
  <2>9. SumOver(J, f) = SumOver(R, lat) /\ CountsOn(J, f)
    BY <2>1, <2>4, <2>5, <2>6, SumByClass
  <2>10. SumOver(J, b) % GSWord = SumOver(J, f) % GSWord
    BY <1>1, <2>1, <2>2, <2>9, SumWrapped
  <2>11. SumOf(b, J) = SumOver(J, b)
    BY <2>1, <2>3, SumOfUnits
  <2>12. Wrapped(SumOver(R, lat)) = SumOver(R, lat)
    BY <1>2, <2>7
  <2>13. BucketsUpto(d, k) = SumOver(R, lat)
    BY <2>8, <2>9, <2>10, <2>11, <2>12 DEF Wrapped
  <2> QED BY <2>13 DEF R
<1> QED BY <1>3, <1>4

\* The bucket that Quantile finds is that of the value of the rank.
LEMMA QuantileFinds ==
    ASSUME NEW d \in GSState, NEW lat \in [GSObserved -> Nat], LatOK(d, lat), SumOver(GSObserved, lat) < GSWord,
           NEW r \in Nat, r >= 1, NEW v \in GSObserved,
           Below(lat, v) < r, r <= Upto(lat, v), Below(lat, v) \in Nat, Upto(lat, v) \in Nat
    PROVE  QuantileAt(d, r) = GSBucket(v)
<1>1. IsFiniteSet(GSObserved) /\ CountsOn(GSObserved, lat) /\ GSObserved \in SUBSET Int
  BY GSFinite DEF CountsOn
<1>2. \A x \in GSObserved : x \in Int /\ x >= 0
  BY <1>1 DEF GSObserved
<1>3. ASSUME NEW S \in SUBSET GSObserved, NEW T \in SUBSET S
      PROVE  /\ SumOver(T, lat) <= SumOver(S, lat) /\ SumOver(T, lat) \in Nat /\ SumOver(S, lat) \in Nat
             /\ SumOver(S, lat) = SumOver(T, lat) + SumOver(S \ T, lat) /\ SumOver(S \ T, lat) \in Nat
  <2>1. IsFiniteSet(S) /\ CountsOn(S, lat)
    BY <1>1, FS_Subset DEF CountsOn
  <2> QED BY <2>1, SumPart
<1>4. /\ d.zero = SumOver(GSZero, lat)
      /\ \A k \in GSKeys : BucketsUpto(d, k) = SumOver({x \in GSPositive : GSKey[x] <= k}, lat)
  BY SketchSums
<1>5. d.zero \in Nat
  BY DEF GSState
<1>6. CASE v = 0
  <2>1. {x \in GSObserved : x <= v} = GSZero
    <3>1. \A x \in GSObserved : x <= v <=> x = 0
      BY <1>2, <1>6
    <3> QED BY <3>1 DEF GSZero
  <2>2. r <= d.zero
    BY <1>4, <2>1 DEF Upto
  <2> QED BY <1>6, <2>2 DEF QuantileAt, GSBucket
<1>7. CASE v # 0
  <2> DEFINE k == GSKey[v]
             U == {x \in GSObserved : x <= v}
             B == {x \in GSObserved : x < v}
             At(j) == {x \in GSPositive : GSKey[x] <= j}
             reach == {j \in GSKeys : BucketsUpto(d, j) >= r - d.zero}
  <2>1. v \in GSPositive /\ k \in GSKeys /\ v \in Int /\ v > 0
    BY <1>2, <1>7, GSFinite DEF GSZero
  <2>2. U \in SUBSET GSObserved /\ B \in SUBSET GSObserved /\ GSZero \in SUBSET U /\ GSZero \in SUBSET B
    BY <1>2, <2>1 DEF GSZero
  <2>3. GSPositive \in SUBSET GSObserved /\ GSKeys \in SUBSET Int /\ GSZero = GSObserved \ GSPositive
    BY GSFinite
  <2>4. \A x, y \in GSPositive : x <= y => GSKey[x] <= GSKey[y]
    BY GSAssumption DEF GSPositive
  <2>5. \A x \in GSPositive : x \in Int /\ GSKey[x] \in Int
    BY <1>2, <2>3, GSFinite
  <2>6. /\ Upto(lat, v) = d.zero + SumOver(U \ GSZero, lat) /\ SumOver(U \ GSZero, lat) \in Nat
    <3> HIDE DEF U
    <3>1. SumOver(U, lat) = SumOver(GSZero, lat) + SumOver(U \ GSZero, lat) /\ SumOver(U \ GSZero, lat) \in Nat
      BY <1>3, <2>2
    <3> QED BY <1>4, <3>1 DEF Upto, U
  <2>7. /\ Below(lat, v) = d.zero + SumOver(B \ GSZero, lat) /\ SumOver(B \ GSZero, lat) \in Nat
    <3> HIDE DEF B
    <3>1. SumOver(B, lat) = SumOver(GSZero, lat) + SumOver(B \ GSZero, lat) /\ SumOver(B \ GSZero, lat) \in Nat
      BY <1>3, <2>2
    <3> QED BY <1>4, <3>1 DEF Below, B
  <2>8. ~(r <= d.zero)
    BY <1>5, <2>7
  <2>9. BucketsUpto(d, k) >= r - d.zero
    <3>1. U \ GSZero \in SUBSET At(k) /\ At(k) \in SUBSET GSObserved
      BY <2>1, <2>3, <2>4, <2>5
    <3>2. BucketsUpto(d, k) = SumOver(At(k), lat)
      BY <1>4, <2>1
    <3> DEFINE S == At(k)
               T == U \ GSZero
    <3> HIDE DEF At, U, S, T
    <3>3. SumOver(T, lat) <= SumOver(S, lat) /\ SumOver(S, lat) \in Nat
      BY <1>3, <3>1 DEF S, T
    <3> QED BY <1>5, <2>6, <3>2, <3>3 DEF S, T
  <2>10. ASSUME NEW j \in reach PROVE k <= j
    <3> SUFFICES ASSUME ~(k <= j) PROVE FALSE
      OBVIOUS
    <3>1. j \in GSKeys /\ j \in Int /\ k \in Int
      BY <2>1, <2>3
    <3>2. At(j) \in SUBSET (B \ GSZero) /\ B \ GSZero \in SUBSET GSObserved
      <4> SUFFICES ASSUME NEW x \in At(j) PROVE x \in B \ GSZero
        BY <2>2
      <4>1. x \in GSPositive /\ GSKey[x] <= j /\ x \in Int /\ GSKey[x] \in Int /\ x \in GSObserved
        BY <2>3, <2>5
      <4>2. ~(v <= x)
        BY <2>1, <2>4, <3>1, <4>1
      <4>3. x < v /\ x \notin GSZero
        BY <2>1, <2>3, <4>1, <4>2
      <4> QED BY <4>1, <4>3
    <3>3. BucketsUpto(d, j) = SumOver(At(j), lat)
      BY <1>4, <3>1
    <3>4. BucketsUpto(d, j) >= r - d.zero
      BY <2>10
    <3> DEFINE S == B \ GSZero
               T == At(j)
    <3> HIDE DEF At, B, S, T
    <3>5. SumOver(T, lat) <= SumOver(S, lat) /\ SumOver(T, lat) \in Nat
      BY <1>3, <3>2 DEF S, T
    <3>6. SumOver(T, lat) >= r - d.zero
      BY <3>3, <3>4 DEF T
    <3>7. Below(lat, v) = d.zero + SumOver(S, lat) /\ SumOver(S, lat) \in Nat
      BY <2>7 DEF S
    <3> QED BY <1>5, <3>5, <3>6, <3>7
  <2>11. k \in reach
    BY <2>1, <2>9
  <2>12. reach \in SUBSET Int
    BY <2>3
  <2>13. QuantileAt(d, r) = <<1, CHOOSE m \in reach : \A j \in reach : m <= j>>
    BY <2>8, <2>11 DEF QuantileAt
  <2>14. (CHOOSE m \in reach : \A j \in reach : m <= j) = k
    <3> DEFINE c == CHOOSE m \in reach : \A j \in reach : m <= j
    <3> HIDE DEF reach, k
    <3>1. c \in reach /\ \A j \in reach : c <= j
      BY <2>10, <2>11
    <3>2. c \in Int /\ k \in Int /\ c <= k /\ k <= c
      BY <2>10, <2>11, <2>12, <3>1
    <3> HIDE DEF c
    <3>3. c = k
      BY <3>2
    <3> QED BY <3>3 DEF c
  <2> QED BY <1>7, <2>13, <2>14 DEF GSBucket
<1> QED BY <1>6, <1>7

\* The rank is that of one of the n values, and rounds q times n up.
LEMMA RankOf ==
    ASSUME NEW n \in Nat, n > 0, NEW q \in GSQuantiles, NEW k, k = ((q[1] * n) + q[2] - 1) \div q[2]
    PROVE  /\ q[1] \in Nat /\ q[2] \in Nat \ {0} /\ k \in Nat /\ k <= n
           /\ q[1] * n <= q[2] * k /\ (k > 0 => q[2] * (k - 1) < q[1] * n)
<1>1. q[1] \in Nat /\ q[2] \in Nat \ {0} /\ q[1] <= q[2]
  BY GSAssumption
<1>2. PICK x \in Nat, y \in Nat \ {0} : x = q[1] /\ y = q[2] /\ x <= y
  BY <1>1
<1>3. PICK a \in Nat : a = x * n
  BY <1>2
<1>4. k = (a + y - 1) \div y
  BY <1>2, <1>3
<1>5. k \in Nat /\ a <= y * k /\ (k > 0 => y * (k - 1) < a) /\ \A m \in Nat : a <= y * m => k <= m
  BY <1>4, Ceiling
<1>6. x * n <= y * n
  <2>1. PICK e \in Nat : y = x + e
    <3>1. y - x \in Nat /\ y = x + (y - x)
      BY <1>2
    <3> QED BY <3>1
  <2>2. y * n = (x * n) + (e * n) /\ e * n \in Nat /\ x * n \in Nat
    BY <2>1
  <2> QED BY <2>2
<1>7. k <= n
  BY <1>3, <1>5, <1>6
<1> QED BY <1>1, <1>2, <1>3, <1>5, <1>7

\* Quantile, of a sketch that has counted n values, in terms of their ranks.
LEMMA QuantileRank ==
    ASSUME NEW d \in GSState, NEW lat \in [GSObserved -> Nat], LatOK(d, lat),
           NEW n, n = SumOver(GSObserved, lat), n < GSWord, n > 0, NEW q \in GSQuantiles
    PROVE  \E v \in GSObserved :
             /\ lat[v] > 0 /\ GSQuantile(d, q) = GSBucket(v)
             /\ q[2] * Below(lat, v) < q[1] * n \/ \A w \in GSObserved : lat[w] > 0 => v <= w
             /\ q[1] * n <= q[2] * Upto(lat, v)
<1>1. IsFiniteSet(GSObserved) /\ CountsOn(GSObserved, lat) /\ GSObserved \in SUBSET Int
  BY GSFinite DEF CountsOn
<1>2. n \in Nat
  BY <1>1, SumFinite
<1>3. d.count = n
  BY SketchSums
<1> DEFINE k == Rank(d, q)
           r == IF k = 0 THEN 1 ELSE k
<1>4. k = ((q[1] * n) + q[2] - 1) \div q[2]
  BY <1>3 DEF Rank
<1>5. GSQuantile(d, q) = QuantileAt(d, r)
  BY DEF GSQuantile
<1> HIDE DEF k
<1>6. /\ q[1] \in Nat /\ q[2] \in Nat \ {0} /\ k \in Nat /\ k <= n
      /\ q[1] * n <= q[2] * k /\ (k > 0 => q[2] * (k - 1) < q[1] * n)
  BY <1>2, <1>4, RankOf
<1>7. r \in Nat /\ r >= 1 /\ r <= n /\ k <= r
  BY <1>2, <1>6
<1>8. (k = 0 /\ r = 1) \/ (k > 0 /\ r = k)
  BY <1>6
<1> HIDE DEF r
<1>9. PICK v \in GSObserved : /\ lat[v] > 0 /\ Below(lat, v) < r /\ r <= Upto(lat, v)
                              /\ Below(lat, v) \in Nat /\ Upto(lat, v) \in Nat
  BY <1>7, RankValue
<1>10. QuantileAt(d, r) = GSBucket(v)
  BY <1>7, <1>9, QuantileFinds
<1> DEFINE a == Below(lat, v)
           u == Upto(lat, v)
<1>11. a \in Nat /\ u \in Nat /\ a < r /\ r <= u
  BY <1>9
<1>12. PICK x \in Nat, y \in Nat \ {0} : x = q[1] /\ y = q[2]
  BY <1>6
<1>13. x * n <= y * u
  <2> HIDE DEF a, u
  <2>1. PICK e \in Nat : u = k + e
    BY <1>6, <1>7, <1>11
  <2>2. y * u = (y * k) + (y * e) /\ y * e \in Nat /\ y * k \in Nat /\ x * n \in Nat
    BY <1>2, <1>6, <2>1
  <2>3. x * n <= y * k
    BY <1>6, <1>12
  <2> QED BY <2>2, <2>3
<1>14. CASE k > 0
  <2> HIDE DEF a, u
  <2>1. PICK e \in Nat : k - 1 = a + e
    BY <1>6, <1>8, <1>11, <1>14
  <2>2. y * (k - 1) = (y * a) + (y * e) /\ y * e \in Nat /\ y * a \in Nat /\ x * n \in Nat
    BY <1>2, <1>11, <2>1
  <2>3. y * (k - 1) < x * n
    BY <1>6, <1>12, <1>14
  <2>4. y * a < x * n
    BY <2>2, <2>3
  <2>5. q[2] * a < q[1] * n /\ q[1] * n <= q[2] * u
    BY <1>12, <1>13, <2>4
  <2> QED BY <1>5, <1>9, <1>10, <2>5 DEF a, u
<1>15. CASE k = 0
  <2>1. a = 0
    BY <1>6, <1>8, <1>11, <1>15
  <2>2. ASSUME NEW w \in GSObserved, lat[w] > 0 PROVE v <= w
    <3> SUFFICES ASSUME ~(v <= w) PROVE FALSE
      OBVIOUS
    <3> DEFINE B == {x1 \in GSObserved : x1 < v}
    <3>1. w \in B /\ B \in SUBSET GSObserved
      BY <1>1
    <3>2. a = SumOver(B, lat)
      BY DEF Below
    <3> HIDE DEF B
    <3>3. IsFiniteSet(B) /\ CountsOn(B, lat)
      BY <1>1, <3>1, FS_Subset DEF CountsOn
    <3>4. SumOver(B, lat) = lat[w] + SumOver(B \ {w}, lat) /\ SumOver(B \ {w}, lat) \in Nat /\ lat[w] \in Nat
      BY <3>1, <3>3, SumInsert
    <3> HIDE DEF a
    <3> QED BY <2>1, <2>2, <3>2, <3>4
  <2> HIDE DEF a, u
  <2>3. q[1] * n <= q[2] * u
    BY <1>12, <1>13
  <2> QED BY <1>5, <1>9, <1>10, <2>2, <2>3 DEF u
<1> QED BY <1>6, <1>14, <1>15

\* The quantiles.
LEMMA GSQuantilesHold ==
    ASSUME GSInv
    PROVE  GSQuantileRank
<1> SUFFICES ASSUME NEW s \in GSSketch \ gsNan
             PROVE  LET lat == gsTrue[s].lat
                        n == SumOf(lat, GSObserved)
                        upto(b) == SumOf(lat, {v \in GSObserved : v <= b})
                        below(b) == SumOf(lat, {v \in GSObserved : v < b})
                        smallest(v) == \A w \in GSObserved : lat[w] > 0 => v <= w
                    IN  n < GSWord =>
                          /\ gs[s].count = n
                          /\ n > 0 => \A q \in GSQuantiles : \E v \in GSObserved :
                               /\ lat[v] > 0 /\ GSQuantile(gs[s], q) = GSBucket(v)
                               /\ q[2] * below(v) < q[1] * n \/ smallest(v)
                               /\ q[1] * n <= q[2] * upto(v)
  BY DEF GSQuantileRank
<1> DEFINE d == gs[s]
           lat == gsTrue[s].lat
           n == SumOf(lat, GSObserved)
<1>1. d \in GSState /\ lat \in [GSObserved -> Nat] /\ LatOK(d, lat)
  BY DEF GSInv, GSTyped, GSTruth
<1> HIDE DEF d, lat
<1>2. \A S \in SUBSET GSObserved : SumOf(lat, S) = SumOver(S, lat)
  <2> SUFFICES ASSUME NEW S \in SUBSET GSObserved PROVE SumOf(lat, S) = SumOver(S, lat)
    OBVIOUS
  <2>1. IsFiniteSet(S) /\ CountsOn(S, lat)
    BY <1>1, GSFinite, FS_Subset DEF CountsOn
  <2> QED BY <2>1, SumOfUnits
<1>3. n = SumOver(GSObserved, lat)
  BY <1>2
<1> HIDE DEF n
<1>4. ASSUME NEW b PROVE /\ SumOf(lat, {v \in GSObserved : v <= b}) = Upto(lat, b)
                         /\ SumOf(lat, {v \in GSObserved : v < b}) = Below(lat, b)
  BY <1>2 DEF Upto, Below
<1>5. ASSUME n < GSWord PROVE d.count = n
  BY <1>1, <1>3, <1>5, SketchSums
<1>6. ASSUME n < GSWord, n > 0, NEW q \in GSQuantiles
      PROVE  \E v \in GSObserved :
               /\ lat[v] > 0 /\ GSQuantile(d, q) = GSBucket(v)
               /\ \/ q[2] * SumOf(lat, {x \in GSObserved : x < v}) < q[1] * n
                  \/ \A w \in GSObserved : lat[w] > 0 => v <= w
               /\ q[1] * n <= q[2] * SumOf(lat, {x \in GSObserved : x <= v})
  <2>1. PICK v \in GSObserved :
               /\ lat[v] > 0 /\ GSQuantile(d, q) = GSBucket(v)
               /\ q[2] * Below(lat, v) < q[1] * n \/ \A w \in GSObserved : lat[w] > 0 => v <= w
               /\ q[1] * n <= q[2] * Upto(lat, v)
    BY <1>1, <1>3, <1>6, QuantileRank
  <2>2. /\ SumOf(lat, {x \in GSObserved : x <= v}) = Upto(lat, v)
        /\ SumOf(lat, {x \in GSObserved : x < v}) = Below(lat, v)
    BY <1>4
  <2> QED BY <2>1, <2>2, Zenon
<1> QED BY <1>5, <1>6, Zenon DEF d, lat, n

\* Of all sketches of the Go client, whatever is added to them and however
\* they are merged, also into themselves: as long as a counter has not
\* wrapped, a quantile is the bucket of the value of its rank and an event is
\* never undercounted; and registers hold the largest rho of what was added
\* (clients/go/sketch: Add, Merge, Quantile, Count).
THEOREM GoSketchesSafe == GSSpec => []GSSafe
<1>1. GSInit => GSInv
  BY GSInitial
<1>2. GSInv /\ [GSNext]_gsVars => GSInv'
  BY GSStep
<1>3. GSInv => GSSafe
  BY GSQuantilesHold, GSCountsHold, GSRegistersHold DEF GSSafe
<1> QED BY <1>1, <1>2, <1>3, PTL DEF GSSpec

-----------------------------------------------------------------------------
(* The sketches in Python.  A store is a dictionary of counts.              *)

\* A dictionary from members of X to positive counts, and the same as a
\* function on all of X.
IsCounter(b, X) == DOMAIN b \in SUBSET X /\ b \in [DOMAIN b -> Nat \ {0}]
OnAll(b, X) == [i \in X |-> CountOf(b, i)]

\* What a dictionary counts among Z is a sum.
LEMMA AmongSum ==
    ASSUME NEW X, IsFiniteSet(X), NEW b, IsCounter(b, X), NEW Z
    PROVE  /\ Among(b, Z) = SumOver(X \cap Z, OnAll(b, X)) /\ Among(b, Z) \in Nat
           /\ Among(b, Z) = SumOver(DOMAIN b \cap Z, b)
           /\ CountsOn(X, OnAll(b, X))
<1> DEFINE D == DOMAIN b \cap Z
           f == OnAll(b, X)
           Y == X \cap Z
<1>1. CountsOn(X, f) /\ CountsOn(Y, f)
  BY DEF CountsOn, OnAll, CountOf, IsCounter
<1>2. IsFiniteSet(D) /\ CountsOn(D, b) /\ D \in SUBSET Y /\ IsFiniteSet(Y)
  <2>1. D \in SUBSET X /\ Y \in SUBSET X /\ D \in SUBSET Y
    BY DEF IsCounter
  <2>2. IsFiniteSet(D) /\ IsFiniteSet(Y)
    BY <2>1, FS_Subset
  <2> QED BY <2>1, <2>2 DEF CountsOn, IsCounter
<1>3. \A x \in D : b[x] = f[x]
  BY <1>2 DEF OnAll, CountOf
<1>4. \A x \in Y \ D : f[x] = 0
  BY DEF OnAll, CountOf
<1>5. Among(b, Z) = SumOf(b, D)
  BY DEF Among
<1> HIDE DEF D, f, Y
<1>6. SumOf(b, D) = SumOver(D, b) /\ SumOver(D, b) \in Nat
  BY <1>2, SumOfUnits, SumFinite
<1>7. SumOver(D, b) = SumOver(D, f)
  BY <1>3, SumSame
<1>8. SumOver(Y \ D, f) = 0
  BY <1>4, SumNothing
<1>9. SumOver(Y, f) = SumOver(D, f) + SumOver(Y \ D, f)
  BY <1>1, <1>2, SumSplit
<1> QED BY <1>1, <1>5, <1>6, <1>7, <1>8, <1>9 DEF f, Y, D

\* What is counted among two parts, and among a part.
LEMMA AmongSplit ==
    ASSUME NEW X, IsFiniteSet(X), NEW b, IsCounter(b, X), NEW Z, NEW W
    PROVE  /\ Among(b, Z) = Among(b, Z \cap W) + Among(b, Z \ W)
           /\ Among(b, Z) \in Nat /\ Among(b, Z \cap W) \in Nat /\ Among(b, Z \ W) \in Nat
<1> DEFINE f == OnAll(b, X)
           Y == X \cap Z
           V == X \cap (Z \cap W)
           R == X \cap (Z \ W)
<1>1. CountsOn(X, f)
  BY AmongSum
<1>2. Among(b, Z) = SumOver(Y, f) /\ Among(b, Z) \in Nat
  BY AmongSum
<1>3. Among(b, Z \cap W) = SumOver(V, f) /\ Among(b, Z \cap W) \in Nat
  BY AmongSum
<1>4. Among(b, Z \ W) = SumOver(R, f) /\ Among(b, Z \ W) \in Nat
  BY AmongSum
<1>5. V \in SUBSET Y /\ R = Y \ V /\ Y \in SUBSET X
  OBVIOUS
<1> HIDE DEF f, Y, V, R
<1>6. IsFiniteSet(Y) /\ CountsOn(Y, f)
  BY <1>1, <1>5, FS_Subset DEF CountsOn
<1>7. SumOver(Y, f) = SumOver(V, f) + SumOver(Y \ V, f)
  BY <1>5, <1>6, SumSplit
<1> QED BY <1>2, <1>3, <1>4, <1>5, <1>7

\* More is counted among more.
LEMMA AmongPart ==
    ASSUME NEW X, IsFiniteSet(X), NEW b, IsCounter(b, X), NEW Z, NEW W, DOMAIN b \cap W \in SUBSET Z
    PROVE  /\ Among(b, W) <= Among(b, Z) /\ Among(b, W) \in Nat /\ Among(b, Z) \in Nat
           /\ Among(b, Z) = Among(b, W) + Among(b, Z \ W) /\ Among(b, Z \ W) \in Nat
<1>1. /\ Among(b, Z) = Among(b, Z \cap W) + Among(b, Z \ W)
      /\ Among(b, Z) \in Nat /\ Among(b, Z \cap W) \in Nat /\ Among(b, Z \ W) \in Nat
  BY AmongSplit
<1>2. DOMAIN b \cap (Z \cap W) = DOMAIN b \cap W
  OBVIOUS
<1>3. Among(b, Z \cap W) = Among(b, W)
  BY <1>2 DEF Among
<1> QED BY <1>1, <1>3

\* The same is counted among what a dictionary cannot tell apart.
LEMMA AmongSame ==
    ASSUME NEW b, NEW Z, NEW W, DOMAIN b \cap W = DOMAIN b \cap Z
    PROVE  Among(b, W) = Among(b, Z)
BY DEF Among

\* Who is counted contributes.
LEMMA AmongMember ==
    ASSUME NEW X, IsFiniteSet(X), NEW b, IsCounter(b, X), NEW Z, NEW x \in DOMAIN b, x \in Z
    PROVE  Among(b, Z) >= b[x] /\ Among(b, Z) > 0 /\ Among(b, Z) \in Nat /\ b[x] \in Nat \ {0}
<1> DEFINE D == DOMAIN b \cap Z
<1>1. D \in SUBSET X /\ x \in D /\ CountsOn(D, b) /\ b[x] \in Nat \ {0}
  BY DEF IsCounter, CountsOn
<1>2. Among(b, Z) = SumOver(D, b)
  BY AmongSum
<1> HIDE DEF D
<1>3. IsFiniteSet(D)
  BY <1>1, FS_Subset
<1>4. SumOver(D, b) = b[x] + SumOver(D \ {x}, b) /\ SumOver(D \ {x}, b) \in Nat
  BY <1>1, <1>3, SumInsert
<1> QED BY <1>1, <1>2, <1>4

\* Nobody is counted.
LEMMA AmongNone ==
    ASSUME NEW X, IsFiniteSet(X), NEW b, IsCounter(b, X), NEW Z, DOMAIN b \cap Z = {}
    PROVE  Among(b, Z) = 0
<1>1. Among(b, Z) = SumOver(DOMAIN b \cap Z, b)
  BY AmongSum
<1>2. SumOver({}, b) = 0
  BY SumNothing
<1> QED BY <1>1, <1>2

\* All that is counted.
LEMMA SizeAmong ==
    ASSUME NEW b, NEW Z, DOMAIN b \in SUBSET Z
    PROVE  Size(b) = Among(b, Z)
<1>1. DOMAIN b \cap Z = DOMAIN b
  OBVIOUS
<1> QED BY <1>1 DEF Among, Size

\* Two dictionaries added.
LEMMA AddedCounter ==
    ASSUME NEW X, NEW a, IsCounter(a, X), NEW b, IsCounter(b, X)
    PROVE  IsCounter(Added(a, b), X) /\ DOMAIN Added(a, b) = DOMAIN a \cup DOMAIN b
<1> DEFINE c == Added(a, b)
<1>1. DOMAIN c = DOMAIN a \cup DOMAIN b
  BY DEF Added
<1>2. DOMAIN c \in SUBSET X
  BY <1>1 DEF IsCounter
<1>3. ASSUME NEW i \in DOMAIN c PROVE c[i] \in Nat \ {0}
  <2>1. c[i] = CountOf(a, i) + CountOf(b, i)
    BY <1>1 DEF Added
  <2>2. CountOf(a, i) \in Nat /\ CountOf(b, i) \in Nat
    BY DEF CountOf, IsCounter
  <2>3. CountOf(a, i) \in Nat \ {0} \/ CountOf(b, i) \in Nat \ {0}
    BY <1>1 DEF IsCounter, CountOf
  <2> QED BY <2>1, <2>2, <2>3
<1>4. c = [i \in DOMAIN c |-> c[i]]
  BY DEF Added
<1> HIDE DEF c
<1>5. IsCounter(c, X)
  BY <1>2, <1>3, <1>4 DEF IsCounter
<1> QED BY <1>1, <1>5 DEF c

\* Each count is the sum of two.
LEMMA CountAdded ==
    ASSUME NEW X, NEW a, IsCounter(a, X), NEW b, IsCounter(b, X), NEW i
    PROVE  CountOf(Added(a, b), i) = CountOf(a, i) + CountOf(b, i)
<1> DEFINE c == Added(a, b)
<1>1. DOMAIN c = DOMAIN a \cup DOMAIN b
  BY DEF Added
<1>2. CASE i \in DOMAIN a \cup DOMAIN b
  <2>1. CountOf(c, i) = c[i]
    BY <1>1, <1>2 DEF CountOf
  <2>2. c[i] = CountOf(a, i) + CountOf(b, i)
    BY <1>2 DEF Added
  <2> QED BY <2>1, <2>2
<1>3. CASE i \notin DOMAIN a \cup DOMAIN b
  BY <1>1, <1>3 DEF CountOf
<1> QED BY <1>2, <1>3

\* Adding two dictionaries adds what they count.
LEMMA AmongAdded ==
    ASSUME NEW X, IsFiniteSet(X), NEW a, IsCounter(a, X), NEW b, IsCounter(b, X), NEW Z
    PROVE  Among(Added(a, b), Z) = Among(a, Z) + Among(b, Z)
<1> DEFINE c == Added(a, b)
           Y == X \cap Z
           f == OnAll(a, X)
           g == OnAll(b, X)
           h == OnAll(c, X)
<1>1. Among(a, Z) = SumOver(Y, f) /\ CountsOn(X, f)
  BY AmongSum
<1>2. Among(b, Z) = SumOver(Y, g) /\ CountsOn(X, g)
  BY AmongSum
<1>3. IsCounter(c, X)
  BY AddedCounter
<1>4. \A i : CountOf(c, i) = CountOf(a, i) + CountOf(b, i)
  BY CountAdded
<1> HIDE DEF c
<1>5. Among(c, Z) = SumOver(Y, h)
  BY <1>3, AmongSum
<1>6. \A x \in Y : h[x] = f[x] + g[x]
  BY <1>4 DEF OnAll
<1>7. Y \in SUBSET X
  OBVIOUS
<1> HIDE DEF Y, f, g, h
<1>8. IsFiniteSet(Y) /\ CountsOn(Y, f) /\ CountsOn(Y, g)
  BY <1>1, <1>2, <1>7, FS_Subset DEF CountsOn
<1>9. SumOver(Y, h) = SumOver(Y, f) + SumOver(Y, g)
  BY <1>6, <1>8, SumAdd
<1> QED BY <1>1, <1>2, <1>5, <1>9 DEF c

\* A single entry.
LEMMA OneCounter ==
    ASSUME NEW X, NEW x \in X, NEW n \in Nat \ {0}
    PROVE  /\ IsCounter(OneCount(x, n), X) /\ DOMAIN OneCount(x, n) = {x} /\ OneCount(x, n)[x] = n
<1> DEFINE b == OneCount(x, n)
<1>1. DOMAIN b = {x} /\ b[x] = n
  BY DEF OneCount
<1>2. b = [i \in DOMAIN b |-> b[i]]
  BY DEF OneCount
<1> HIDE DEF b
<1>3. IsCounter(b, X)
  BY <1>1, <1>2 DEF IsCounter
<1> QED BY <1>1, <1>3 DEF b

\* It counts once.
LEMMA AmongOne ==
    ASSUME NEW X, IsFiniteSet(X), NEW x \in X, NEW n \in Nat \ {0}, NEW Z
    PROVE  Among(OneCount(x, n), Z) = IF x \in Z THEN n ELSE 0
<1> DEFINE b == OneCount(x, n)
<1>1. IsCounter(b, X) /\ DOMAIN b = {x} /\ b[x] = n
  BY OneCounter
<1> HIDE DEF b
<1>2. Among(b, Z) = SumOver(DOMAIN b \cap Z, b)
  BY <1>1, AmongSum
<1>3. CASE x \in Z
  <2>1. DOMAIN b \cap Z = {x}
    BY <1>1, <1>3
  <2>2. SumOver({x}, b) = b[x]
    <3>1. b[x] \in Nat
      BY <1>1
    <3> QED BY <3>1, UnitsOfOne
  <2> QED BY <1>1, <1>2, <1>3, <2>1, <2>2 DEF b
<1>4. CASE x \notin Z
  <2>1. DOMAIN b \cap Z = {}
    BY <1>1, <1>4
  <2>2. Among(b, Z) = 0
    BY <1>1, <2>1, AmongNone
  <2> QED BY <1>4, <2>2 DEF b
<1> QED BY <1>3, <1>4

\* Nothing added.
LEMMA AmongEmpty ==
    ASSUME NEW X, IsFiniteSet(X)
    PROVE  /\ IsCounter(NoCounts, X) /\ DOMAIN NoCounts = {} /\ Size(NoCounts) = 0
           /\ \A Z : Among(NoCounts, Z) = 0
           /\ \A b : IsCounter(b, X) => (DOMAIN b = {} <=> b = NoCounts)
                                        /\ Added(b, NoCounts) = b /\ Added(NoCounts, b) = b
<1>1. DOMAIN NoCounts = {} /\ IsCounter(NoCounts, X)
  BY DEF NoCounts, IsCounter
<1>2. \A Z : Among(NoCounts, Z) = 0
  <2> SUFFICES ASSUME NEW Z PROVE Among(NoCounts, Z) = 0
    OBVIOUS
  <2>1. DOMAIN NoCounts \cap Z = {}
    BY <1>1
  <2> QED BY <1>1, <2>1, AmongNone
<1>3. Size(NoCounts) = 0
  BY <1>1, <1>2, SizeAmong
<1>4. ASSUME NEW b, IsCounter(b, X) PROVE DOMAIN b = {} <=> b = NoCounts
  BY <1>4 DEF IsCounter, NoCounts
<1>5. ASSUME NEW b, IsCounter(b, X) PROVE Added(b, NoCounts) = b /\ Added(NoCounts, b) = b
  <2>1. \A i \in DOMAIN b : b[i] \in Nat /\ CountOf(b, i) = b[i] /\ CountOf(NoCounts, i) = 0
    BY <1>1, <1>5 DEF IsCounter, CountOf
  <2>2. DOMAIN b \cup DOMAIN NoCounts = DOMAIN b /\ DOMAIN NoCounts \cup DOMAIN b = DOMAIN b
    BY <1>1
  <2>3. b = [i \in DOMAIN b |-> b[i]]
    BY <1>5 DEF IsCounter
  <2>4. Added(b, NoCounts) = [i \in DOMAIN b |-> b[i]]
    BY <2>1, <2>2 DEF Added
  <2>5. Added(NoCounts, b) = [i \in DOMAIN b |-> b[i]]
    BY <2>1, <2>2 DEF Added
  <2> QED BY <2>3, <2>4, <2>5
<1> QED BY <1>1, <1>2, <1>3, <1>4, <1>5

\* The bucket indices.
SKNonzero == SKReal \ {0}
SKKeys == {_key(v) : v \in SKNonzero}

\* The image of a finite set is finite.
LEMMA ImageFinite ==
    ASSUME NEW S, IsFiniteSet(S), NEW g, NEW T, \A y \in T : \E x \in S : y = g[x]
    PROVE  IsFiniteSet(T)
<1> DEFINE R == {x \in S : g[x] \in T}
           h == [x \in R |-> g[x]]
<1>1. h \in Surjection(R, T)
  BY DEF Surjection
<1>2. IsFiniteSet(R)
  BY FS_Subset
<1> QED BY <1>1, <1>2, FS_Surjection

\* What the assumption says of values and their buckets.
LEMMA SKFacts ==
    /\ IsFiniteSet(SKReal) /\ SKReal \in SUBSET Int /\ IsFiniteSet(SKNonzero) /\ SKNonzero \in SUBSET Int
    /\ SKPositive \in SUBSET SKNonzero /\ SKNegative \in SUBSET SKNonzero
    /\ SKNonzero = SKPositive \cup SKNegative /\ SKPositive \cap SKNegative = {}
    /\ IsFiniteSet(SKKeys) /\ SKKeys \in SUBSET Int
    /\ \A v \in SKNonzero : _key(v) \in SKKeys /\ _key(v) \in Int
    /\ \A v, w \in SKPositive : v <= w => _key(v) <= _key(w)
    /\ \A v, w \in SKNegative : v <= w => _key(w) <= _key(v)
<1>1. IsFiniteSet(SKReal) /\ SKReal \in SUBSET Int
  BY SKAssumption
<1>2. SKNonzero \in SUBSET SKReal /\ IsFiniteSet(SKNonzero) /\ SKNonzero \in SUBSET Int
  <2>1. SKNonzero \in SUBSET SKReal /\ SKNonzero \in SUBSET Int
    BY <1>1 DEF SKNonzero
  <2> QED BY <1>1, <2>1, FS_Subset
<1>3. /\ SKPositive \in SUBSET SKNonzero /\ SKNegative \in SUBSET SKNonzero
      /\ SKNonzero = SKPositive \cup SKNegative /\ SKPositive \cap SKNegative = {}
  <2>1. \A v \in SKReal : v \in Int /\ (v # 0 <=> v > 0 \/ v < 0) /\ ~(v > 0 /\ v < 0)
    BY <1>1
  <2> QED BY <2>1 DEF SKPositive, SKNegative, SKNonzero
<1>4. \A v \in SKNonzero : _key(v) \in SKKeys /\ _key(v) \in Int
  <2> SUFFICES ASSUME NEW v \in SKNonzero PROVE _key(v) \in SKKeys /\ _key(v) \in Int
    OBVIOUS
  <2>1. AbsValue(v) \in {AbsValue(w) : w \in SKReal \ {0}}
    BY DEF SKNonzero
  <2>2. SKKey[AbsValue(v)] \in Int
    BY <2>1, SKAssumption
  <2> QED BY <2>2 DEF SKKeys, _key
<1>5. SKKeys \in SUBSET Int
  BY <1>4 DEF SKKeys
<1>6. IsFiniteSet(SKKeys)
  <2> DEFINE g == [v \in SKNonzero |-> _key(v)]
  <2>1. \A k \in SKKeys : \E v \in SKNonzero : k = g[v]
    BY DEF SKKeys
  <2> HIDE DEF g
  <2> QED BY <1>2, <2>1, ImageFinite
<1>7. \A v, w \in SKNonzero : AbsValue(v) <= AbsValue(w) => _key(v) <= _key(w)
  BY SKAssumption DEF SKNonzero, _key
<1>8. \A v, w \in SKPositive : v <= w => _key(v) <= _key(w)
  <2> SUFFICES ASSUME NEW v \in SKPositive, NEW w \in SKPositive, v <= w PROVE _key(v) <= _key(w)
    OBVIOUS
  <2>1. AbsValue(v) <= AbsValue(w)
    BY <1>1 DEF AbsValue, SKPositive
  <2> QED BY <1>3, <1>7, <2>1
<1>9. \A v, w \in SKNegative : v <= w => _key(w) <= _key(v)
  <2> SUFFICES ASSUME NEW v \in SKNegative, NEW w \in SKNegative, v <= w PROVE _key(w) <= _key(v)
    OBVIOUS
  <2>1. AbsValue(w) <= AbsValue(v)
    BY <1>1 DEF AbsValue, SKNegative
  <2> QED BY <1>3, <1>7, <2>1
<1> QED BY <1>1, <1>2, <1>3, <1>4, <1>5, <1>6, <1>8, <1>9

\* A store of buckets is a dictionary that counts in each bucket its values.
LEMMA KeyedCounter ==
    ASSUME NEW b, IsCounter(b, SKReal), NEW S \in SUBSET SKNonzero
    PROVE  /\ IsCounter(Keyed(b, S), SKKeys) /\ DOMAIN Keyed(b, S) = {_key(v) : v \in DOMAIN b \cap S}
           /\ \A k \in DOMAIN Keyed(b, S) : Keyed(b, S)[k] = Among(b, {v \in S : _key(v) = k})
<1> DEFINE c == Keyed(b, S)
<1>1. DOMAIN c = {_key(v) : v \in DOMAIN b \cap S}
  BY DEF Keyed
<1>2. \A k \in DOMAIN c : c[k] = Among(b, {v \in S : _key(v) = k})
  BY DEF Keyed
<1>3. c = [k \in DOMAIN c |-> c[k]]
  BY DEF Keyed
<1> HIDE DEF c
<1>4. DOMAIN c \in SUBSET SKKeys
  BY <1>1, SKFacts
<1>5. ASSUME NEW k \in DOMAIN c PROVE c[k] \in Nat \ {0}
  <2>1. PICK v \in DOMAIN b \cap S : k = _key(v)
    BY <1>1
  <2> DEFINE Z == {w \in S : _key(w) = k}
  <2>2. v \in DOMAIN b /\ v \in Z
    BY <2>1
  <2> HIDE DEF Z
  <2>3. Among(b, Z) > 0 /\ Among(b, Z) \in Nat
    BY <2>2, SKFacts, AmongMember
  <2> QED BY <1>2, <2>3 DEF Z
<1>6. IsCounter(c, SKKeys)
  BY <1>3, <1>4, <1>5 DEF IsCounter
<1> QED BY <1>1, <1>2, <1>6 DEF c

\* Buckets together count their values.
LEMMA AmongKeyed ==
    ASSUME NEW b, IsCounter(b, SKReal), NEW S \in SUBSET SKNonzero, NEW J
    PROVE  Among(Keyed(b, S), J) = Among(b, {v \in S : _key(v) \in J})
<1> DEFINE c == Keyed(b, S)
           D == DOMAIN b \cap S
           C == DOMAIN c \cap J
           h == [v \in D |-> _key(v)]
           K == [k \in C |-> {v \in D : _key(v) = k}]
           Z == {v \in S : _key(v) \in J}
           R == DOMAIN b \cap Z
<1>1. /\ IsCounter(c, SKKeys) /\ DOMAIN c = {_key(v) : v \in D}
      /\ \A k \in DOMAIN c : c[k] = Among(b, {v \in S : _key(v) = k})
  BY KeyedCounter
<1>2. IsFiniteSet(D) /\ CountsOn(D, b)
  <2>1. D \in SUBSET SKReal
    BY DEF IsCounter
  <2>2. IsFiniteSet(D)
    BY <2>1, SKFacts, FS_Subset
  <2> QED BY <2>2 DEF CountsOn, IsCounter
<1>3. IsFiniteSet(C)
  <2>1. C \in SUBSET SKKeys
    BY <1>1 DEF IsCounter
  <2> QED BY <2>1, SKFacts, FS_Subset
<1>4. \A k \in C : \A x : x \in K[k] <=> x \in D /\ h[x] = k
  OBVIOUS
<1>5. \A k \in C : c[k] = SumOver(K[k], b)
  <2> SUFFICES ASSUME NEW k \in C PROVE c[k] = SumOver(K[k], b)
    OBVIOUS
  <2> DEFINE Y == {v \in S : _key(v) = k}
  <2>1. DOMAIN b \cap Y = K[k]
    OBVIOUS
  <2>2. c[k] = Among(b, Y)
    BY <1>1
  <2> HIDE DEF Y, c, K
  <2>3. Among(b, Y) = SumOver(DOMAIN b \cap Y, b)
    BY SKFacts, AmongSum
  <2> QED BY <2>1, <2>2, <2>3
<1>6. \A x : x \in R <=> x \in D /\ h[x] \in C
  BY <1>1
<1>7. Among(b, Z) = SumOver(R, b)
  <2> HIDE DEF Z
  <2> QED BY SKFacts, AmongSum
<1> HIDE DEF c, D, C, h, K, Z, R
<1>8. SumOver(C, c) = SumOver(R, b)
  BY <1>2, <1>3, <1>4, <1>5, <1>6, SumByClass
<1>9. Among(c, J) = SumOver(DOMAIN c \cap J, c)
  BY <1>1, SKFacts, AmongSum
<1> QED BY <1>7, <1>8, <1>9 DEF c, C, Z

\* What a store counts in a bucket, none included.
LEMMA KeyedCounts ==
    ASSUME NEW b, IsCounter(b, SKReal), NEW S \in SUBSET SKNonzero
    PROVE  /\ DOMAIN Keyed(b, S) = {_key(v) : v \in DOMAIN b \cap S}
           /\ \A k : CountOf(Keyed(b, S), k) = Among(b, {v \in S : _key(v) = k})
<1> DEFINE c == Keyed(b, S)
<1>1. DOMAIN c = {_key(v) : v \in DOMAIN b \cap S}
  BY DEF Keyed
<1>2. \A k \in DOMAIN c : c[k] = Among(b, {v \in S : _key(v) = k})
  BY DEF Keyed
<1> HIDE DEF c
<1>3. ASSUME NEW k PROVE CountOf(c, k) = Among(b, {v \in S : _key(v) = k})
  <2>1. CASE k \in DOMAIN c
    BY <1>2, <2>1 DEF CountOf
  <2>2. CASE k \notin DOMAIN c
    <3> DEFINE Z == {v \in S : _key(v) = k}
    <3>1. DOMAIN b \cap Z = {}
      BY <1>1, <2>2
    <3> HIDE DEF Z
    <3>2. Among(b, Z) = 0
      BY <3>1, SKFacts, AmongNone
    <3> QED BY <2>2, <3>2 DEF CountOf, Z
  <2> QED BY <2>1, <2>2
<1> QED BY <1>1, <1>3 DEF c

\* The buckets of all values are those of each part, added.
LEMMA KeyedAdded ==
    ASSUME NEW a, IsCounter(a, SKReal), NEW b, IsCounter(b, SKReal), NEW S \in SUBSET SKNonzero
    PROVE  Keyed(Added(a, b), S) = Added(Keyed(a, S), Keyed(b, S))
<1> DEFINE c == Added(a, b)
           ka == Keyed(a, S)
           kb == Keyed(b, S)
           kc == Keyed(c, S)
           d == Added(ka, kb)
<1>1. /\ IsCounter(c, SKReal) /\ DOMAIN c = DOMAIN a \cup DOMAIN b
      /\ \A Z : Among(c, Z) = Among(a, Z) + Among(b, Z)
  <2>1. IsFiniteSet(SKReal)
    BY SKFacts
  <2>2. IsCounter(c, SKReal) /\ DOMAIN c = DOMAIN a \cup DOMAIN b
    BY AddedCounter
  <2>4. ASSUME NEW Z PROVE Among(c, Z) = Among(a, Z) + Among(b, Z)
    BY <2>1, AmongAdded
  <2> QED BY <2>2, <2>4
<1>2. /\ DOMAIN ka = {_key(v) : v \in DOMAIN a \cap S}
      /\ \A k : CountOf(ka, k) = Among(a, {v \in S : _key(v) = k})
  BY KeyedCounts
<1>3. /\ DOMAIN kb = {_key(v) : v \in DOMAIN b \cap S}
      /\ \A k : CountOf(kb, k) = Among(b, {v \in S : _key(v) = k})
  BY KeyedCounts
<1>4. DOMAIN kc = {_key(v) : v \in DOMAIN c \cap S} /\ kc = [k \in DOMAIN kc |-> kc[k]]
  BY DEF Keyed
<1>5. \A k \in DOMAIN kc : kc[k] = Among(c, {v \in S : _key(v) = k})
  BY DEF Keyed
<1>6. DOMAIN d = DOMAIN ka \cup DOMAIN kb /\ d = [k \in DOMAIN d |-> d[k]]
  BY DEF Added
<1>7. \A k \in DOMAIN d : d[k] = CountOf(ka, k) + CountOf(kb, k)
  BY DEF Added
<1> HIDE DEF c, ka, kb, kc, d
<1>8. DOMAIN kc = DOMAIN d
  BY <1>1, <1>2, <1>3, <1>4, <1>6
<1>9. ASSUME NEW k \in DOMAIN d PROVE kc[k] = d[k]
  BY <1>1, <1>2, <1>3, <1>5, <1>7, <1>8
<1>10. kc = d
  BY <1>4, <1>6, <1>8, <1>9
<1> QED BY <1>10 DEF c, ka, kb, kc, d

\* The bucket of a single value.
LEMMA KeyedOne ==
    ASSUME NEW v \in SKReal, NEW S \in SUBSET SKNonzero
    PROVE  Keyed(OneCount(v, 1), S) = IF v \in S THEN OneCount(_key(v), 1) ELSE NoCounts
<1> DEFINE b == OneCount(v, 1)
           c == Keyed(b, S)
<1>1. /\ DOMAIN b = {v} /\ IsCounter(b, SKReal)
      /\ \A Z : Among(b, Z) = IF v \in Z THEN 1 ELSE 0
  <2>1. IsFiniteSet(SKReal) /\ 1 \in Nat \ {0}
    BY SKFacts
  <2>2. DOMAIN b = {v} /\ IsCounter(b, SKReal)
    BY <2>1, OneCounter
  <2>3. ASSUME NEW Z PROVE Among(b, Z) = IF v \in Z THEN 1 ELSE 0
    BY <2>1, AmongOne
  <2> QED BY <2>2, <2>3
<1>2. DOMAIN c = {_key(w) : w \in DOMAIN b \cap S} /\ c = [k \in DOMAIN c |-> c[k]]
  BY DEF Keyed
<1>3. \A k \in DOMAIN c : c[k] = Among(b, {w \in S : _key(w) = k})
  BY DEF Keyed
<1> HIDE DEF b, c
<1>4. CASE v \in S
  <2>1. DOMAIN c = {_key(v)}
    BY <1>1, <1>2, <1>4
  <2>2. c[_key(v)] = 1
    BY <1>1, <1>3, <1>4, <2>1
  <2>3. c = [k \in {_key(v)} |-> 1]
    BY <1>2, <2>1, <2>2
  <2> QED BY <1>4, <2>3 DEF OneCount, b, c
<1>5. CASE v \notin S
  <2>1. DOMAIN c = {}
    BY <1>1, <1>2, <1>5
  <2>2. c = NoCounts
    BY <1>2, <2>1 DEF NoCounts
  <2> QED BY <1>5, <2>2 DEF b, c
<1> QED BY <1>4, <1>5

\* The least and the greatest of finitely many integers.
LEMMA LeastIn ==
    ASSUME NEW X, IsFiniteSet(X), X \in SUBSET Int, NEW S \in SUBSET X, S # {}
    PROVE  /\ Least(S) \in S /\ Least(S) \in Int /\ \A w \in S : Least(S) <= w
           /\ Greatest(S) \in S /\ Greatest(S) \in Int /\ \A w \in S : w <= Greatest(S)
<1>1. /\ \E m \in S : \A y \in S : m <= y
      /\ \E m \in S : \A y \in S : y <= m
  BY Extremes
<1>2. Least(S) \in S /\ \A w \in S : Least(S) <= w
  BY <1>1 DEF Least
<1>3. Greatest(S) \in S /\ \A w \in S : w <= Greatest(S)
  BY <1>1 DEF Greatest
<1> QED BY <1>2, <1>3

\* There is only one.
LEMMA LeastIs ==
    ASSUME NEW S \in SUBSET Int, NEW m \in S
    PROVE  /\ (\A w \in S : m <= w) => Least(S) = m
           /\ (\A w \in S : w <= m) => Greatest(S) = m
<1>1. ASSUME \A w \in S : m <= w PROVE Least(S) = m
  <2>1. Least(S) \in S /\ \A w \in S : Least(S) <= w
    BY <1>1 DEF Least
  <2>2. Least(S) \in Int /\ m \in Int /\ Least(S) <= m /\ m <= Least(S)
    BY <1>1, <2>1
  <2> QED BY <2>2
<1>2. ASSUME \A w \in S : w <= m PROVE Greatest(S) = m
  <2>1. Greatest(S) \in S /\ \A w \in S : w <= Greatest(S)
    BY <1>2 DEF Greatest
  <2>2. Greatest(S) \in Int /\ m \in Int /\ Greatest(S) <= m /\ m <= Greatest(S)
    BY <1>2, <2>1
  <2> QED BY <2>2
<1> QED BY <1>1, <1>2

\* The fields of the sketch of some values, and when it is empty.
LEMMA BatchFields ==
    ASSUME NEW f, IsCounter(f, SKReal)
    PROVE  LET d == BatchSketch(f)
           IN  /\ d = [pos |-> d.pos, neg |-> d.neg, zero |-> d.zero, count |-> d.count,
                       min |-> d.min, max |-> d.max]
               /\ d.pos = Keyed(f, SKPositive) /\ d.neg = Keyed(f, SKNegative)
               /\ d.zero = CountOf(f, 0) /\ d.zero \in Nat /\ d.count = Size(f) /\ d.count \in Nat
               /\ d.count = 0 <=> f = NoCounts
               /\ f # NoCounts => d.min = Least(DOMAIN f) /\ d.max = Greatest(DOMAIN f) /\ DOMAIN f # {}
<1> DEFINE d == BatchSketch(f)
<1>1. /\ IsFiniteSet(SKReal) /\ SKPositive \in SUBSET SKNonzero /\ SKNegative \in SUBSET SKNonzero
      /\ IsFiniteSet(SKKeys)
  BY SKFacts
<1>2. CountOf(f, 0) \in Nat
  BY DEF CountOf, IsCounter
<1>3. DOMAIN f = {} <=> f = NoCounts
  BY <1>1, AmongEmpty
<1>4. Size(f) = Among(f, SKReal) /\ Among(f, SKReal) \in Nat
  <2>1. DOMAIN f \in SUBSET SKReal
    BY DEF IsCounter
  <2> QED BY <1>1, <2>1, SizeAmong, AmongSum
<1>5. CASE f = NoCounts
  <2>1. DOMAIN f = {} /\ Size(f) = 0
    BY <1>1, <1>5, AmongEmpty
  <2>2. ASSUME NEW S \in SUBSET SKNonzero PROVE Keyed(f, S) = NoCounts
    <3>1. IsCounter(Keyed(f, S), SKKeys) /\ DOMAIN Keyed(f, S) = {_key(v) : v \in DOMAIN f \cap S}
      BY KeyedCounter
    <3>2. DOMAIN Keyed(f, S) = {}
      BY <2>1, <3>1
    <3> QED BY <1>1, <3>1, <3>2, AmongEmpty
  <2>3. CountOf(f, 0) = 0
    BY <2>1 DEF CountOf
  <2>4. d = EmptyDD
    BY <1>5 DEF BatchSketch
  <2> QED BY <1>1, <1>5, <2>1, <2>2, <2>3, <2>4 DEF EmptyDD
<1>6. CASE f # NoCounts
  <2>1. PICK x \in DOMAIN f : x \in SKReal
    BY <1>3, <1>6 DEF IsCounter
  <2>2. Among(f, SKReal) > 0
    BY <1>1, <2>1, AmongMember
  <2>3. d = [pos |-> Keyed(f, SKPositive), neg |-> Keyed(f, SKNegative),
             zero |-> CountOf(f, 0), count |-> Size(f),
             min |-> Least(DOMAIN f), max |-> Greatest(DOMAIN f)]
    BY <1>6 DEF BatchSketch
  <2>4. Size(f) # 0 /\ Size(f) \in Nat
    BY <1>4, <2>2
  <2> HIDE DEF d
  <2> QED BY <1>2, <1>3, <1>6, <2>3, <2>4 DEF d
<1> QED BY <1>5, <1>6

\* The extremes of two sets of values.
LEMMA LeastOfBoth ==
    ASSUME NEW S \in SUBSET SKReal, S # {}, NEW T \in SUBSET SKReal, T # {}
    PROVE  /\ Least(S \cup T) = IF Least(S) < Least(T) THEN Least(S) ELSE Least(T)
           /\ Greatest(S \cup T) = IF Greatest(S) > Greatest(T) THEN Greatest(S) ELSE Greatest(T)
<1> DEFINE U == S \cup T
           a == Least(S)
           b == Least(T)
           c == Greatest(S)
           d == Greatest(T)
<1>1. IsFiniteSet(SKReal) /\ SKReal \in SUBSET Int
  BY SKFacts
<1>2. /\ a \in S /\ a \in Int /\ \A w \in S : a <= w
      /\ c \in S /\ c \in Int /\ \A w \in S : w <= c
  BY <1>1, LeastIn
<1>3. /\ b \in T /\ b \in Int /\ \A w \in T : b <= w
      /\ d \in T /\ d \in Int /\ \A w \in T : w <= d
  BY <1>1, LeastIn
<1>4. U \in SUBSET Int
  BY <1>1
<1>5. \A w \in U : w \in S \/ w \in T
  OBVIOUS
<1> HIDE DEF U, a, b, c, d
<1>6. a \in U /\ b \in U /\ c \in U /\ d \in U
  BY <1>2, <1>3 DEF U
<1>7. Least(U) = IF a < b THEN a ELSE b
  <2>1. CASE a < b
    <3>1. \A w \in U : a <= w
      BY <1>2, <1>3, <1>4, <1>5, <2>1
    <3> QED BY <1>4, <1>6, <2>1, <3>1, LeastIs
  <2>2. CASE ~(a < b)
    <3>1. \A w \in U : b <= w
      BY <1>2, <1>3, <1>4, <1>5, <2>2
    <3> QED BY <1>4, <1>6, <2>2, <3>1, LeastIs
  <2> QED BY <2>1, <2>2
<1>8. Greatest(U) = IF c > d THEN c ELSE d
  <2>1. CASE c > d
    <3>1. \A w \in U : w <= c
      BY <1>2, <1>3, <1>4, <1>5, <2>1
    <3> QED BY <1>4, <1>6, <2>1, <3>1, LeastIs
  <2>2. CASE ~(c > d)
    <3>1. \A w \in U : w <= d
      BY <1>2, <1>3, <1>4, <1>5, <2>2
    <3> QED BY <1>4, <1>6, <2>2, <3>1, LeastIs
  <2> QED BY <2>1, <2>2
<1> QED BY <1>7, <1>8 DEF U, a, b, c, d

\* To commit the sketch of some values to that of others is to sketch them
\* all.
LEMMA BatchAdded ==
    ASSUME NEW a, IsCounter(a, SKReal), NEW b, IsCounter(b, SKReal)
    PROVE  BatchSketch(Added(a, b)) = Commit(BatchSketch(a), BatchSketch(b))
<1> DEFINE c == Added(a, b)
           A == BatchSketch(a)
           B == BatchSketch(b)
           C == BatchSketch(c)
<1>1. /\ IsFiniteSet(SKReal) /\ SKPositive \in SUBSET SKNonzero /\ SKNegative \in SUBSET SKNonzero
      /\ DOMAIN a \in SUBSET SKReal /\ DOMAIN b \in SUBSET SKReal
  BY SKFacts DEF IsCounter
<1>2. /\ IsCounter(c, SKReal) /\ DOMAIN c = DOMAIN a \cup DOMAIN b
      /\ \A i : CountOf(c, i) = CountOf(a, i) + CountOf(b, i)
      /\ \A Z : Among(c, Z) = Among(a, Z) + Among(b, Z)
  <2>1. IsFiniteSet(SKReal)
    BY <1>1
  <2>2. IsCounter(c, SKReal) /\ DOMAIN c = DOMAIN a \cup DOMAIN b
    BY AddedCounter
  <2>3. ASSUME NEW i PROVE CountOf(c, i) = CountOf(a, i) + CountOf(b, i)
    BY CountAdded
  <2>4. ASSUME NEW Z PROVE Among(c, Z) = Among(a, Z) + Among(b, Z)
    BY <2>1, AmongAdded
  <2> QED BY <2>2, <2>3, <2>4
<1>3. /\ A.pos = Keyed(a, SKPositive) /\ A.neg = Keyed(a, SKNegative)
      /\ A.zero = CountOf(a, 0) /\ A.count = Size(a)
      /\ A.count = 0 <=> a = NoCounts
      /\ a # NoCounts => A.min = Least(DOMAIN a) /\ A.max = Greatest(DOMAIN a) /\ DOMAIN a # {}
  BY BatchFields
<1>4. /\ B.pos = Keyed(b, SKPositive) /\ B.neg = Keyed(b, SKNegative)
      /\ B.zero = CountOf(b, 0) /\ B.count = Size(b)
      /\ B.count = 0 <=> b = NoCounts
      /\ b # NoCounts => B.min = Least(DOMAIN b) /\ B.max = Greatest(DOMAIN b) /\ DOMAIN b # {}
  BY BatchFields
<1> HIDE DEF c
<1>5. /\ C = [pos |-> C.pos, neg |-> C.neg, zero |-> C.zero, count |-> C.count,
              min |-> C.min, max |-> C.max]
      /\ C.pos = Keyed(c, SKPositive) /\ C.neg = Keyed(c, SKNegative)
      /\ C.zero = CountOf(c, 0) /\ C.count = Size(c)
      /\ c # NoCounts => C.min = Least(DOMAIN c) /\ C.max = Greatest(DOMAIN c)
  BY <1>2, BatchFields
<1>6. /\ Keyed(c, SKPositive) = Added(Keyed(a, SKPositive), Keyed(b, SKPositive))
      /\ Keyed(c, SKNegative) = Added(Keyed(a, SKNegative), Keyed(b, SKNegative))
  BY <1>1, KeyedAdded DEF c
<1>7. Size(c) = Size(a) + Size(b)
  <2>1. Size(c) = Among(c, SKReal) /\ Size(a) = Among(a, SKReal) /\ Size(b) = Among(b, SKReal)
    <3>1. DOMAIN c \in SUBSET SKReal
      BY <1>1, <1>2
    <3> QED BY <1>1, <3>1, SizeAmong
  <2> QED BY <1>2, <2>1
<1>8. /\ C.pos = Added(A.pos, B.pos) /\ C.neg = Added(A.neg, B.neg)
      /\ C.zero = A.zero + B.zero /\ C.count = A.count + B.count
  BY <1>2, <1>3, <1>4, <1>5, <1>6, <1>7
<1>9. C.min = LowerOf(A, B) /\ C.max = UpperOf(A, B)
  <2>1. CASE a = NoCounts
    <3>1. c = b
      BY <1>1, <2>1, AmongEmpty DEF c
    <3>2. A.count = 0
      BY <1>3, <2>1
    <3> HIDE DEF A
    <3> QED BY <3>1, <3>2 DEF LowerOf, UpperOf
  <2>2. CASE a # NoCounts /\ b = NoCounts
    <3>1. c = a
      BY <1>1, <2>2, AmongEmpty DEF c
    <3>2. A.count # 0 /\ B.count = 0
      BY <1>3, <1>4, <2>2
    <3> HIDE DEF B
    <3> QED BY <3>1, <3>2 DEF LowerOf, UpperOf
  <2>3. CASE a # NoCounts /\ b # NoCounts
    <3>1. c # NoCounts
      <4>1. DOMAIN c # {}
        BY <1>2, <1>3, <2>3
      <4> QED BY <1>1, <1>2, <4>1, AmongEmpty
    <3>2. A.count # 0 /\ B.count # 0
      BY <1>3, <1>4, <2>3
    <3>3. /\ Least(DOMAIN a \cup DOMAIN b) = IF A.min < B.min THEN A.min ELSE B.min
          /\ Greatest(DOMAIN a \cup DOMAIN b) = IF A.max > B.max THEN A.max ELSE B.max
      BY <1>1, <1>3, <1>4, <2>3, LeastOfBoth
    <3>4. C.min = Least(DOMAIN a \cup DOMAIN b) /\ C.max = Greatest(DOMAIN a \cup DOMAIN b)
      BY <1>2, <1>5, <3>1
    <3> HIDE DEF A, B, C
    <3> QED BY <3>2, <3>3, <3>4 DEF LowerOf, UpperOf
  <2> QED BY <2>1, <2>2, <2>3
<1> HIDE DEF A, B, C
<1>10. C = Commit(A, B)
  BY <1>5, <1>8, <1>9 DEF Commit
<1> QED BY <1>10 DEF A, B, C, c

\* The stores and extremes of the sketch of some values.
LEMMA BatchTyped ==
    ASSUME NEW f, IsCounter(f, SKReal)
    PROVE  LET d == BatchSketch(f)
           IN  /\ IsCounter(d.pos, SKKeys) /\ IsCounter(d.neg, SKKeys)
               /\ DOMAIN d.pos = {_key(v) : v \in DOMAIN f \cap SKPositive}
               /\ DOMAIN d.neg = {_key(v) : v \in DOMAIN f \cap SKNegative}
               /\ f # NoCounts => /\ d.min \in DOMAIN f /\ d.min \in Int /\ \A w \in DOMAIN f : d.min <= w
                                  /\ d.max \in DOMAIN f /\ d.max \in Int /\ \A w \in DOMAIN f : w <= d.max
<1> DEFINE d == BatchSketch(f)
<1>1. /\ d.pos = Keyed(f, SKPositive) /\ d.neg = Keyed(f, SKNegative)
      /\ f # NoCounts => d.min = Least(DOMAIN f) /\ d.max = Greatest(DOMAIN f) /\ DOMAIN f # {}
  BY BatchFields
<1>2. /\ SKPositive \in SUBSET SKNonzero /\ SKNegative \in SUBSET SKNonzero
      /\ IsFiniteSet(SKReal) /\ SKReal \in SUBSET Int
  BY SKFacts
<1>3. IsCounter(d.pos, SKKeys) /\ DOMAIN d.pos = {_key(v) : v \in DOMAIN f \cap SKPositive}
  <2>1. SKPositive \in SUBSET SKNonzero
    BY <1>2
  <2>2. IsCounter(Keyed(f, SKPositive), SKKeys) /\ DOMAIN Keyed(f, SKPositive) = {_key(v) : v \in DOMAIN f \cap SKPositive}
    BY <2>1, KeyedCounter
  <2> HIDE DEF d
  <2> QED BY <1>1, <2>2
<1>4. IsCounter(d.neg, SKKeys) /\ DOMAIN d.neg = {_key(v) : v \in DOMAIN f \cap SKNegative}
  <2>1. SKNegative \in SUBSET SKNonzero
    BY <1>2
  <2>2. IsCounter(Keyed(f, SKNegative), SKKeys) /\ DOMAIN Keyed(f, SKNegative) = {_key(v) : v \in DOMAIN f \cap SKNegative}
    BY <2>1, KeyedCounter
  <2> HIDE DEF d
  <2> QED BY <1>1, <2>2
<1>5. ASSUME f # NoCounts
      PROVE  /\ d.min \in DOMAIN f /\ d.min \in Int /\ \A w \in DOMAIN f : d.min <= w
             /\ d.max \in DOMAIN f /\ d.max \in Int /\ \A w \in DOMAIN f : w <= d.max
  <2> DEFINE S == DOMAIN f
  <2>1. S \in SUBSET SKReal /\ S # {}
    BY <1>1, <1>5 DEF IsCounter
  <2> HIDE DEF S
  <2>2. /\ Least(S) \in S /\ Least(S) \in Int /\ \A w \in S : Least(S) <= w
        /\ Greatest(S) \in S /\ Greatest(S) \in Int /\ \A w \in S : w <= Greatest(S)
    BY <1>2, <2>1, LeastIn
  <2> QED BY <1>1, <1>5, <2>2 DEF S
<1> QED BY <1>3, <1>4, <1>5

\* The sketch of one value.
LEMMA BatchOne ==
    ASSUME NEW v \in SKReal
    PROVE  LET t == BatchSketch(OneCount(v, 1))
           IN  /\ t.pos = IF v > 0 THEN OneCount(_key(v), 1) ELSE NoCounts
               /\ t.neg = IF v < 0 THEN OneCount(_key(v), 1) ELSE NoCounts
               /\ t.zero = IF v = 0 THEN 1 ELSE 0
               /\ t.count = 1 /\ t.min = v /\ t.max = v
<1> DEFINE b == OneCount(v, 1)
           t == BatchSketch(b)
<1>1. /\ IsFiniteSet(SKReal) /\ SKReal \in SUBSET Int /\ SKPositive \in SUBSET SKNonzero
      /\ SKNegative \in SUBSET SKNonzero /\ 1 \in Nat \ {0}
  BY SKFacts
<1>2. /\ IsCounter(b, SKReal) /\ DOMAIN b = {v}
      /\ \A i : CountOf(b, i) = IF i = v THEN 1 ELSE 0
      /\ \A Z : Among(b, Z) = IF v \in Z THEN 1 ELSE 0
  <2>1. IsFiniteSet(SKReal) /\ 1 \in Nat \ {0}
    BY <1>1
  <2>2. IsCounter(b, SKReal) /\ DOMAIN b = {v} /\ b[v] = 1
    BY <2>1, OneCounter
  <2>3. ASSUME NEW i PROVE CountOf(b, i) = IF i = v THEN 1 ELSE 0
    <3> HIDE DEF b
    <3> QED BY <2>2 DEF CountOf
  <2>4. ASSUME NEW Z PROVE Among(b, Z) = IF v \in Z THEN 1 ELSE 0
    BY <2>1, AmongOne
  <2> QED BY <2>2, <2>3, <2>4
<1>3. b # NoCounts
  BY <1>1, <1>2, AmongEmpty
<1>4. /\ Keyed(b, SKPositive) = IF v \in SKPositive THEN OneCount(_key(v), 1) ELSE NoCounts
      /\ Keyed(b, SKNegative) = IF v \in SKNegative THEN OneCount(_key(v), 1) ELSE NoCounts
  BY <1>1, KeyedOne
<1>5. (v \in SKPositive <=> v > 0) /\ (v \in SKNegative <=> v < 0)
  BY DEF SKPositive, SKNegative
<1>6. Size(b) = 1
  <2>1. DOMAIN b \in SUBSET SKReal
    BY <1>2
  <2>2. Size(b) = Among(b, SKReal)
    BY <2>1, SizeAmong
  <2> QED BY <1>2, <2>2
<1> HIDE DEF b
<1>7. /\ t.pos = Keyed(b, SKPositive) /\ t.neg = Keyed(b, SKNegative)
      /\ t.zero = CountOf(b, 0) /\ t.count = Size(b)
  BY <1>2, BatchFields
<1>8. t.min \in DOMAIN b /\ t.max \in DOMAIN b
  BY <1>2, <1>3, BatchTyped
<1> HIDE DEF t
<1>9. t.min = v /\ t.max = v
  BY <1>2, <1>8
<1>10. t.zero = IF v = 0 THEN 1 ELSE 0
  BY <1>2, <1>7
<1> QED BY <1>4, <1>5, <1>6, <1>7, <1>9, <1>10 DEF b, t

\* The counters of a sketch are within their limits.
DDLimits(d) ==
    /\ Cardinality(DOMAIN d.pos) <= SKMaxBins /\ Cardinality(DOMAIN d.neg) <= SKMaxBins
    /\ d.count <= SKMaxUint /\ d.zero <= SKMaxInt
    /\ \A k \in DOMAIN d.pos : d.pos[k] <= SKMaxInt
    /\ \A k \in DOMAIN d.neg : d.neg[k] <= SKMaxInt

\* To add a value is to commit the sketch of it.
LEMMA AddCommits ==
    ASSUME NEW a, IsCounter(a, SKReal), NEW v \in SKReal, NEW d, d = BatchSketch(a)
    PROVE  DDSketch_add(d, v) = IF CanAdd(d, v) THEN Commit(d, BatchSketch(OneCount(v, 1))) ELSE d
<1> DEFINE t == BatchSketch(OneCount(v, 1))
<1>1. /\ t.pos = IF v > 0 THEN OneCount(_key(v), 1) ELSE NoCounts
      /\ t.neg = IF v < 0 THEN OneCount(_key(v), 1) ELSE NoCounts
      /\ t.zero = IF v = 0 THEN 1 ELSE 0
      /\ t.count = 1 /\ t.min = v /\ t.max = v
  BY BatchOne
<1>2. /\ IsCounter(d.pos, SKKeys) /\ IsCounter(d.neg, SKKeys)
      /\ a # NoCounts => d.min \in Int /\ d.max \in Int
  BY BatchTyped
<1>3. d.zero \in Nat /\ d.count \in Nat /\ (d.count = 0 <=> a = NoCounts)
  BY BatchFields
<1>4. Added(d.pos, NoCounts) = d.pos /\ Added(d.neg, NoCounts) = d.neg
  <2>1. IsFiniteSet(SKKeys)
    BY SKFacts
  <2> QED BY <1>2, <2>1, AmongEmpty
<1>5. Finite(v) /\ v \in Int
  BY SKAssumption DEF Finite
<1> HIDE DEF t
<1>6. CASE CanAdd(d, v)
  <2>1. /\ Added(d.pos, t.pos) = IF v > 0 THEN Added(d.pos, OneCount(_key(v), 1)) ELSE d.pos
        /\ Added(d.neg, t.neg) = IF v < 0 THEN Added(d.neg, OneCount(_key(v), 1)) ELSE d.neg
    BY <1>1, <1>4
  <2>2. d.zero + t.zero = IF v = 0 THEN d.zero + 1 ELSE d.zero
    BY <1>1, <1>3
  <2>3. /\ LowerOf(d, t) = IF d.count = 0 \/ v < d.min THEN v ELSE d.min
        /\ UpperOf(d, t) = IF d.count = 0 \/ v > d.max THEN v ELSE d.max
    <3>1. CASE d.count = 0
      BY <1>1, <3>1 DEF LowerOf, UpperOf
    <3>2. CASE d.count # 0
      <4>1. d.min \in Int /\ d.max \in Int /\ t.count # 0
        BY <1>1, <1>2, <1>3, <3>2
      <4> QED BY <1>1, <1>5, <3>2, <4>1 DEF LowerOf, UpperOf
    <3> QED BY <3>1, <3>2
  <2>4. d.count + t.count = d.count + 1
    BY <1>1
  <2>5. Commit(d, t) = DDSketch_add(d, v)
    BY <1>5, <1>6, <2>1, <2>2, <2>3, <2>4 DEF Commit, DDSketch_add
  <2> QED BY <1>6, <2>5 DEF t
<1>7. CASE ~CanAdd(d, v)
  BY <1>7 DEF DDSketch_add
<1> QED BY <1>6, <1>7

\* A store with one more.
LEMMA StoreTakes ==
    ASSUME NEW b, IsCounter(b, SKKeys), Cardinality(DOMAIN b) <= SKMaxBins, NEW k \in SKKeys, CanTake(b, k)
    PROVE  /\ Cardinality(DOMAIN b \cup {k}) <= SKMaxBins /\ CountOf(b, k) <= SKMaxInt - 1
<1>1. SKMaxInt \in Nat /\ SKMaxBins \in Nat
  BY SKAssumption
<1>2. CountOf(b, k) \in Nat /\ CountOf(b, k) < SKMaxInt
  BY DEF CountOf, IsCounter, CanTake
<1>3. IsFiniteSet(DOMAIN b)
  BY SKFacts, FS_Subset DEF IsCounter
<1>4. Cardinality(DOMAIN b) \in Nat
  BY <1>3, FS_CardinalityType
<1>5. CASE k \in DOMAIN b
  <2>1. DOMAIN b \cup {k} = DOMAIN b
    BY <1>5
  <2> QED BY <1>1, <1>2, <2>1
<1>6. CASE k \notin DOMAIN b
  <2>1. Cardinality(DOMAIN b \cup {k}) = Cardinality(DOMAIN b) + 1
    BY <1>3, <1>6, FS_AddElement
  <2>2. Cardinality(DOMAIN b) < SKMaxBins
    BY <1>6 DEF CanTake
  <2> QED BY <1>1, <1>2, <1>4, <2>1, <2>2
<1> QED BY <1>5, <1>6

\* The checks of add are those of a commit.
LEMMA AddChecks ==
    ASSUME NEW a, IsCounter(a, SKReal), NEW v \in SKReal, NEW d, d = BatchSketch(a), DDLimits(d), CanAdd(d, v)
    PROVE  CanCommit(d, BatchSketch(OneCount(v, 1)))
<1> DEFINE t == BatchSketch(OneCount(v, 1))
           k == _key(v)
<1>1. /\ t.pos = IF v > 0 THEN OneCount(k, 1) ELSE NoCounts
      /\ t.neg = IF v < 0 THEN OneCount(k, 1) ELSE NoCounts
      /\ t.zero = IF v = 0 THEN 1 ELSE 0
      /\ t.count = 1
  BY BatchOne
<1>2. IsCounter(d.pos, SKKeys) /\ IsCounter(d.neg, SKKeys)
  BY BatchTyped
<1>3. d.zero \in Nat /\ d.count \in Nat /\ SKMaxUint \in Nat /\ SKMaxInt \in Nat
  BY BatchFields, SKAssumption
<1>4. v \in Int /\ (v # 0 => k \in SKKeys)
  BY SKFacts DEF SKNonzero
<1>5. DOMAIN OneCount(k, 1) = {k} /\ OneCount(k, 1)[k] = 1 /\ DOMAIN NoCounts = {}
  BY DEF OneCount, NoCounts
<1> HIDE DEF t, k
<1>6. d.count <= SKMaxUint - t.count /\ d.zero <= SKMaxInt - t.zero
  BY <1>1, <1>3 DEF CanAdd, DDLimits
<1>7. ASSUME NEW b, NEW c, IsCounter(b, SKKeys), Cardinality(DOMAIN b) <= SKMaxBins,
             c = NoCounts \/ (c = OneCount(k, 1) /\ CanTake(b, k) /\ k \in SKKeys)
      PROVE  Cardinality(DOMAIN b \cup DOMAIN c) <= SKMaxBins /\ BinsFit(b, c)
  <2>1. CASE c = NoCounts
    <3>1. DOMAIN b \cup DOMAIN c = DOMAIN b /\ DOMAIN c = {}
      BY <1>5, <2>1
    <3> QED BY <1>7, <3>1 DEF BinsFit
  <2>2. CASE c = OneCount(k, 1) /\ CanTake(b, k) /\ k \in SKKeys
    <3>1. DOMAIN c = {k} /\ c[k] = 1
      BY <1>5, <2>2
    <3>2. Cardinality(DOMAIN b \cup {k}) <= SKMaxBins /\ CountOf(b, k) <= SKMaxInt - 1
      BY <1>7, <2>2, StoreTakes
    <3> QED BY <3>1, <3>2 DEF BinsFit
  <2> QED BY <1>7, <2>1, <2>2
<1>8. Cardinality(DOMAIN d.pos \cup DOMAIN t.pos) <= SKMaxBins /\ BinsFit(d.pos, t.pos)
  <2>1. t.pos = NoCounts \/ (t.pos = OneCount(k, 1) /\ CanTake(d.pos, k) /\ k \in SKKeys)
    BY <1>1, <1>4 DEF CanAdd, k
  <2> QED BY <1>2, <1>7, <2>1 DEF DDLimits
<1>9. Cardinality(DOMAIN d.neg \cup DOMAIN t.neg) <= SKMaxBins /\ BinsFit(d.neg, t.neg)
  <2>1. t.neg = NoCounts \/ (t.neg = OneCount(k, 1) /\ CanTake(d.neg, k) /\ k \in SKKeys)
    BY <1>1, <1>4 DEF CanAdd, k
  <2> QED BY <1>2, <1>7, <2>1 DEF DDLimits
<1>10. CanCommit(d, t)
  BY <1>6, <1>8, <1>9 DEF CanCommit
<1> QED BY <1>10 DEF t

\* A commit keeps the limits.
LEMMA CommitLimits ==
    ASSUME NEW a, IsCounter(a, SKReal), NEW b, IsCounter(b, SKReal),
           NEW d, d = BatchSketch(a), NEW t, t = BatchSketch(b), DDLimits(d), CanCommit(d, t)
    PROVE  DDLimits(Commit(d, t))
<1>1. /\ IsCounter(d.pos, SKKeys) /\ IsCounter(d.neg, SKKeys) /\ d.zero \in Nat /\ d.count \in Nat
  BY BatchTyped, BatchFields
<1>2. /\ IsCounter(t.pos, SKKeys) /\ IsCounter(t.neg, SKKeys) /\ t.zero \in Nat /\ t.count \in Nat
  BY BatchTyped, BatchFields
<1>3. SKMaxUint \in Nat /\ SKMaxInt \in Nat
  BY SKAssumption
<1>4. ASSUME NEW x, NEW y, IsCounter(x, SKKeys), IsCounter(y, SKKeys),
             \A k \in DOMAIN x : x[k] <= SKMaxInt, BinsFit(x, y)
      PROVE  DOMAIN Added(x, y) = DOMAIN x \cup DOMAIN y /\ \A k \in DOMAIN Added(x, y) : Added(x, y)[k] <= SKMaxInt
  <2>1. DOMAIN Added(x, y) = DOMAIN x \cup DOMAIN y
    BY DEF Added
  <2>2. ASSUME NEW k \in DOMAIN x \cup DOMAIN y PROVE Added(x, y)[k] <= SKMaxInt
    <3>1. Added(x, y)[k] = CountOf(x, k) + CountOf(y, k)
      BY DEF Added
    <3>2. CountOf(x, k) \in Nat /\ CountOf(y, k) \in Nat
      BY <1>4 DEF CountOf, IsCounter
    <3>3. CASE k \in DOMAIN y
      <4>1. CountOf(x, k) <= SKMaxInt - y[k] /\ CountOf(y, k) = y[k]
        BY <1>4, <3>3 DEF BinsFit, CountOf
      <4> QED BY <1>3, <3>1, <3>2, <4>1
    <3>4. CASE k \notin DOMAIN y
      <4>1. CountOf(y, k) = 0 /\ CountOf(x, k) = x[k] /\ x[k] <= SKMaxInt
        BY <1>4, <3>4 DEF CountOf
      <4> QED BY <3>1, <3>2, <4>1
    <3> QED BY <3>3, <3>4
  <2> QED BY <2>1, <2>2
<1>5. /\ DOMAIN Added(d.pos, t.pos) = DOMAIN d.pos \cup DOMAIN t.pos
      /\ \A k \in DOMAIN Added(d.pos, t.pos) : Added(d.pos, t.pos)[k] <= SKMaxInt
  BY <1>1, <1>2, <1>4 DEF DDLimits, CanCommit
<1>6. /\ DOMAIN Added(d.neg, t.neg) = DOMAIN d.neg \cup DOMAIN t.neg
      /\ \A k \in DOMAIN Added(d.neg, t.neg) : Added(d.neg, t.neg)[k] <= SKMaxInt
  BY <1>1, <1>2, <1>4 DEF DDLimits, CanCommit
<1>7. d.count + t.count <= SKMaxUint /\ d.zero + t.zero <= SKMaxInt
  BY <1>1, <1>2, <1>3 DEF CanCommit
<1> DEFINE c == Commit(d, t)
<1>8. /\ c.pos = Added(d.pos, t.pos) /\ c.neg = Added(d.neg, t.neg)
      /\ c.zero = d.zero + t.zero /\ c.count = d.count + t.count
  BY DEF Commit
<1> HIDE DEF c
<1>9. /\ Cardinality(DOMAIN c.pos) <= SKMaxBins /\ Cardinality(DOMAIN c.neg) <= SKMaxBins
  BY <1>5, <1>6, <1>8 DEF CanCommit
<1>10. DDLimits(c)
  BY <1>5, <1>6, <1>7, <1>8, <1>9 DEF DDLimits
<1> QED BY <1>10 DEF c

\* What a log stands for.
TruthOK(t) ==
    /\ t = [lat |-> t.lat, ev |-> t.ev, uniq |-> t.uniq]
    /\ IsCounter(t.lat, SKReal) /\ IsCounter(t.ev, SKItem) /\ t.uniq \in SUBSET SKItem

\* A log is the sketch of it, and its counters are within their limits.
Sharing(r, c) == {i \in SKItem : SKColumn[r][i] = c}
TableOf(ev) == [r \in Rows |-> [c \in Columns |-> Among(ev, Sharing(r, c))]]
RegsOK(regs, uniq) ==
    /\ regs \in [Registers -> Nat]
    /\ \A x \in uniq : SKRegister[x][2] <= regs[SKRegister[x][1]]
    /\ \A i \in Registers : regs[i] > 0 => \E x \in uniq : SKRegister[x] = <<i, regs[i]>>
LogOK(log, t) ==
    /\ log = [conf |-> log.conf, dd |-> log.dd, table |-> log.table, events |-> log.events,
              regs |-> log.regs, total |-> log.total]
    /\ log.dd = BatchSketch(t.lat) /\ DDLimits(log.dd)
    /\ log.table = TableOf(t.ev) /\ log.events = Size(t.ev) /\ log.events <= SKMaxInt
    /\ log.total = log.dd.count + log.events /\ log.total <= SKMaxUint
    /\ RegsOK(log.regs, t.uniq)

\* The inductive invariant.
SKInv ==
    /\ DOMAIN skLog = SKLog /\ DOMAIN skTrue = SKLog
    /\ \A l \in SKLog : TruthOK(skTrue[l]) /\ LogOK(skLog[l], skTrue[l])

SKSpec == SKInit /\ [][SKNext]_skVars

\* The numbers of a log.
LEMMA LogNumbers ==
    ASSUME NEW t, TruthOK(t), NEW log, LogOK(log, t)
    PROVE  /\ log.dd.count \in Nat /\ log.dd.zero \in Nat /\ log.events \in Nat /\ log.total \in Nat
           /\ log.dd.count = Size(t.lat) /\ (log.dd.count = 0 <=> t.lat = NoCounts)
           /\ SKMaxInt \in Nat /\ SKMaxUint \in Nat
<1>1. IsCounter(t.lat, SKReal) /\ IsCounter(t.ev, SKItem) /\ log.dd = BatchSketch(t.lat)
  BY DEF TruthOK, LogOK
<1>2. /\ log.dd.count \in Nat /\ log.dd.zero \in Nat /\ log.dd.count = Size(t.lat)
      /\ log.dd.count = 0 <=> t.lat = NoCounts
  BY <1>1, BatchFields
<1>3. IsFiniteSet(SKItem) /\ SKMaxInt \in Nat /\ SKMaxUint \in Nat
  BY SKAssumption
<1>4. Size(t.ev) = Among(t.ev, SKItem) /\ Among(t.ev, SKItem) \in Nat
  <2>1. DOMAIN t.ev \in SUBSET SKItem
    BY <1>1 DEF IsCounter
  <2> QED BY <1>1, <1>3, <2>1, SizeAmong, AmongSum
<1>5. log.events \in Nat /\ log.total = log.dd.count + log.events
  BY <1>4 DEF LogOK
<1> QED BY <1>2, <1>3, <1>5

\* Initially.
LEMMA EmptyLogOK ==
    ASSUME NEW conf
    PROVE  TruthOK(EmptyTruth) /\ LogOK(EmptyLog(conf), EmptyTruth)
<1> DEFINE log == EmptyLog(conf)
<1>1. IsFiniteSet(SKReal) /\ IsFiniteSet(SKItem) /\ SKMaxInt \in Nat /\ SKMaxUint \in Nat /\ SKMaxBins \in Nat
  BY SKFacts, SKAssumption
<1>2. /\ IsCounter(NoCounts, SKReal) /\ IsCounter(NoCounts, SKItem) /\ Size(NoCounts) = 0
      /\ DOMAIN NoCounts = {}
  BY <1>1, AmongEmpty
<1>3. \A Z : Among(NoCounts, Z) = 0
  BY <1>1, AmongEmpty
<1>4. TruthOK(EmptyTruth)
  BY <1>2 DEF TruthOK, EmptyTruth
<1>5. BatchSketch(NoCounts) = EmptyDD
  BY DEF BatchSketch
<1>6. DDLimits(EmptyDD)
  <2>1. Cardinality({}) = 0
    BY FS_EmptySet
  <2> QED BY <1>1, <1>2, <2>1 DEF DDLimits, EmptyDD
<1>7. EmptyTable = TableOf(NoCounts)
  BY <1>3 DEF EmptyTable, TableOf
<1>8. RegsOK([r \in Registers |-> 0], {})
  BY DEF RegsOK
<1>9. /\ log.dd = EmptyDD /\ log.table = EmptyTable /\ log.events = 0 /\ log.total = 0
      /\ log.regs = [r \in Registers |-> 0] /\ log.dd.count = 0
      /\ log = [conf |-> log.conf, dd |-> log.dd, table |-> log.table, events |-> log.events,
                regs |-> log.regs, total |-> log.total]
  BY DEF EmptyLog, EmptyDD
<1>10. EmptyTruth.lat = NoCounts /\ EmptyTruth.ev = NoCounts /\ EmptyTruth.uniq = {}
  BY DEF EmptyTruth
<1> HIDE DEF log
<1>11. LogOK(log, EmptyTruth)
  BY <1>1, <1>2, <1>5, <1>6, <1>7, <1>8, <1>9, <1>10 DEF LogOK
<1> QED BY <1>4, <1>11 DEF log

\* Latencies, one or a batch, that are accepted.
LEMMA LatenciesTaken ==
    ASSUME NEW t, TruthOK(t), NEW log, LogOK(log, t), NEW f, IsCounter(f, SKReal),
           CanCommit(log.dd, BatchSketch(f)), log.total <= SKMaxUint - Size(f)
    PROVE  LET dd == Commit(log.dd, BatchSketch(f))
               u == [t EXCEPT !.lat = Added(t.lat, f)]
           IN  TruthOK(u) /\ LogOK(WithDD(log, dd), u) /\ dd.count = log.dd.count + Size(f)
<1> DEFINE s == BatchSketch(f)
           dd == Commit(log.dd, s)
           u == [t EXCEPT !.lat = Added(t.lat, f)]
           new == WithDD(log, dd)
<1>1. IsCounter(t.lat, SKReal) /\ log.dd = BatchSketch(t.lat) /\ DDLimits(log.dd)
  BY DEF TruthOK, LogOK
<1>2. IsCounter(Added(t.lat, f), SKReal)
  BY <1>1, AddedCounter
<1>3. u.lat = Added(t.lat, f) /\ u.ev = t.ev /\ u.uniq = t.uniq /\ u = [lat |-> u.lat, ev |-> u.ev, uniq |-> u.uniq]
  BY DEF TruthOK
<1> HIDE DEF u
<1>4. TruthOK(u)
  BY <1>2, <1>3 DEF TruthOK
<1>5. dd = BatchSketch(u.lat)
  BY <1>1, <1>3, BatchAdded
<1>6. DDLimits(dd)
  BY <1>1, CommitLimits
<1>7. s.count = Size(f) /\ s.count \in Nat
  BY BatchFields
<1>8. dd.count = log.dd.count + s.count
  BY DEF Commit
<1>9. /\ log.dd.count \in Nat /\ log.total \in Nat /\ log.events \in Nat /\ SKMaxUint \in Nat
  BY LogNumbers
<1>10. /\ new.dd = dd /\ new.total = log.total + (dd.count - log.dd.count) /\ new.conf = log.conf
       /\ new.table = log.table /\ new.events = log.events /\ new.regs = log.regs
       /\ new = [conf |-> new.conf, dd |-> new.dd, table |-> new.table, events |-> new.events,
                 regs |-> new.regs, total |-> new.total]
  <2>1. log = [conf |-> log.conf, dd |-> log.dd, table |-> log.table, events |-> log.events,
               regs |-> log.regs, total |-> log.total]
    BY DEF LogOK
  <2> DEFINE n == log.total + (dd.count - log.dd.count)
  <2>2. new = [log EXCEPT !.dd = dd, !.total = n]
    BY DEF WithDD
  <2> HIDE DEF dd, n, new
  <2>3. new = [conf |-> log.conf, dd |-> dd, table |-> log.table, events |-> log.events,
               regs |-> log.regs, total |-> n]
    BY <2>1, <2>2
  <2> QED BY <2>3 DEF n
<1> HIDE DEF s, dd, new
<1>11. log.total <= SKMaxUint - s.count /\ log.total = log.dd.count + log.events
  BY <1>7 DEF LogOK
<1>12. new.total = dd.count + log.events /\ new.total <= SKMaxUint
  BY <1>7, <1>8, <1>9, <1>10, <1>11
<1>13. log.table = TableOf(u.ev) /\ log.events = Size(u.ev) /\ log.events <= SKMaxInt /\ RegsOK(log.regs, u.uniq)
  BY <1>3 DEF LogOK
<1>14. LogOK(new, u)
  BY <1>5, <1>6, <1>10, <1>12, <1>13 DEF LogOK
<1> QED BY <1>4, <1>7, <1>8, <1>14 DEF s, dd, new, u

\* Nothing changes when the sketch does not.
LEMMA LatenciesRefused ==
    ASSUME NEW t, TruthOK(t), NEW log, LogOK(log, t)
    PROVE  WithDD(log, log.dd) = log
<1>1. log.dd.count \in Nat /\ log.total \in Nat
  BY LogNumbers
<1>2. log.total + (log.dd.count - log.dd.count) = log.total
  BY <1>1
<1>3. log = [conf |-> log.conf, dd |-> log.dd, table |-> log.table, events |-> log.events,
             regs |-> log.regs, total |-> log.total]
  BY DEF LogOK
<1> QED BY <1>2, <1>3 DEF WithDD

\* One log becomes another that is the sketch of what it stands for.
LEMMA LogBecomes ==
    ASSUME SKInv, NEW l \in SKLog, NEW log, NEW t, Becomes(l, log, t), TruthOK(t), LogOK(log, t)
    PROVE  SKInv'
<1>1. skLog' = [skLog EXCEPT ![l] = log] /\ skTrue' = [skTrue EXCEPT ![l] = t]
  BY DEF Becomes
<1>2. DOMAIN skLog' = SKLog /\ DOMAIN skTrue' = SKLog
  BY <1>1 DEF SKInv
<1>3. ASSUME NEW m \in SKLog PROVE TruthOK(skTrue'[m]) /\ LogOK(skLog'[m], skTrue'[m])
  <2>1. CASE m = l
    <3>1. skTrue'[m] = t /\ skLog'[m] = log
      BY <1>1, <2>1 DEF SKInv
    <3> QED BY <3>1
  <2>2. CASE m # l
    <3>1. skTrue'[m] = skTrue[m] /\ skLog'[m] = skLog[m]
      BY <1>1, <2>2 DEF SKInv
    <3> QED BY <3>1 DEF SKInv
  <2> QED BY <2>1, <2>2
<1>4. (SKInv)' <=> /\ DOMAIN skLog' = SKLog /\ DOMAIN skTrue' = SKLog
                   /\ \A m \in SKLog : TruthOK(skTrue'[m]) /\ LogOK(skLog'[m], skTrue'[m])
  BY DEF SKInv, TruthOK, LogOK
<1> QED BY <1>2, <1>3, <1>4

\* A latency.
LEMMA LatencyStep ==
    ASSUME SKInv, NEW l \in SKLog, NEW v \in SKValue \cup {SKNan, SKTiny}, add_latency(l, v)
    PROVE  SKInv'
<1> DEFINE log == skLog[l]
           t == skTrue[l]
           dd == DDSketch_add(log.dd, v)
           u == [t EXCEPT !.lat = Added(t.lat, OneCount(v, 1))]
<1>1. TruthOK(t) /\ LogOK(log, t)
  BY DEF SKInv
<1>2. /\ ~(Finite(v) /\ log.total = SKMaxUint)
      /\ Becomes(l, WithDD(log, dd), IF dd = log.dd THEN t ELSE u)
  BY DEF add_latency
<1>3. log.dd = BatchSketch(t.lat) /\ DDLimits(log.dd) /\ IsCounter(t.lat, SKReal) /\ log.total <= SKMaxUint
  BY <1>1 DEF LogOK, TruthOK
<1> HIDE DEF log, t
<1>4. CASE dd = log.dd
  <2>1. WithDD(log, dd) = log
    BY <1>1, <1>4, LatenciesRefused
  <2>2. Becomes(l, log, t)
    BY <1>2, <1>4, <2>1
  <2> QED BY <1>1, <2>2, LogBecomes
<1>5. CASE dd # log.dd
  <2>1. v \in SKReal /\ Finite(v)
    <3>1. v # SKNan
      BY <1>5 DEF DDSketch_add, Finite
    <3>2. v # SKTiny
      BY <1>5 DEF DDSketch_add, CanAdd
    <3> QED BY <3>1, <3>2, SKAssumption DEF Finite
  <2> DEFINE f == OneCount(v, 1)
             s == BatchSketch(f)
  <2>2. dd = IF CanAdd(log.dd, v) THEN Commit(log.dd, s) ELSE log.dd
    BY <1>3, <2>1, AddCommits
  <2>3. CanAdd(log.dd, v) /\ dd = Commit(log.dd, s)
    BY <1>5, <2>2
  <2>4. CanCommit(log.dd, s)
    BY <1>3, <2>1, <2>3, AddChecks
  <2>5. IsCounter(f, SKReal)
    <3>1. 1 \in Nat \ {0}
      OBVIOUS
    <3> QED BY <2>1, <3>1, OneCounter
  <2>6. s.count = 1 /\ s.count = Size(f)
    <3>1. s.count = 1
      BY <2>1, BatchOne
    <3> HIDE DEF f
    <3>2. s.count = Size(f)
      BY <2>5, BatchFields
    <3> QED BY <3>1, <3>2
  <2>7. log.total <= SKMaxUint - Size(f)
    <3>1. log.total \in Nat /\ SKMaxUint \in Nat
      BY <1>1, LogNumbers
    <3>2. log.total # SKMaxUint /\ log.total <= SKMaxUint /\ Size(f) = 1
      BY <1>2, <1>3, <2>1, <2>6
    <3> QED BY <3>1, <3>2
  <2>8. u = [t EXCEPT !.lat = Added(t.lat, f)]
    OBVIOUS
  <2> HIDE DEF f, s, u, dd
  <2>9. TruthOK(u) /\ LogOK(WithDD(log, dd), u)
    BY <1>1, <2>3, <2>4, <2>5, <2>7, <2>8, LatenciesTaken DEF s
  <2>10. Becomes(l, WithDD(log, dd), u)
    BY <1>2, <1>5
  <2> QED BY <2>9, <2>10, LogBecomes
<1> QED BY <1>4, <1>5

\* A batch.
LEMMA BatchStep ==
    ASSUME SKInv, NEW l \in SKLog, NEW b \in SKBatch, add_batch(l, b)
    PROVE  SKInv'
<1> DEFINE log == skLog[l]
           t == skTrue[l]
           dd == DDSketch_add_batch(log.dd, b)
           f == FinitePart(b)
           s == BatchSketch(f)
           u == [t EXCEPT !.lat = Added(t.lat, f)]
<1>1. TruthOK(t) /\ LogOK(log, t)
  BY DEF SKInv
<1>2. /\ log.total <= SKMaxUint - Size(f)
      /\ Becomes(l, WithDD(log, dd), IF dd = log.dd THEN t ELSE u)
  BY DEF add_batch
<1>3. dd = IF SKTiny \in DOMAIN b \/ ~CanCommit(log.dd, s) THEN log.dd ELSE Commit(log.dd, s)
  BY DEF DDSketch_add_batch
<1> HIDE DEF log, t
<1>4. CASE dd = log.dd
  <2>1. WithDD(log, dd) = log
    BY <1>1, <1>4, LatenciesRefused
  <2>2. Becomes(l, log, t)
    BY <1>2, <1>4, <2>1
  <2> QED BY <1>1, <2>2, LogBecomes
<1>5. CASE dd # log.dd
  <2>1. SKTiny \notin DOMAIN b /\ CanCommit(log.dd, s) /\ dd = Commit(log.dd, s)
    BY <1>3, <1>5
  <2>2. IsCounter(f, SKReal)
    <3>1. DOMAIN b \subseteq SKReal \cup {SKNan, SKTiny} /\ b \in [DOMAIN b -> Nat \ {0}]
      BY SKAssumption
    <3>2. DOMAIN f = {x \in DOMAIN b : x # SKNan} /\ \A x \in DOMAIN f : f[x] = b[x]
      BY DEF FinitePart, Finite
    <3>3. f = [x \in DOMAIN f |-> f[x]]
      BY DEF FinitePart
    <3> HIDE DEF f
    <3>4. DOMAIN f \in SUBSET SKReal
      BY <2>1, <3>1, <3>2
    <3>5. \A x \in DOMAIN f : f[x] \in Nat \ {0}
      BY <3>1, <3>2
    <3> QED BY <3>3, <3>4, <3>5 DEF IsCounter
  <2> HIDE DEF f, s, u, dd
  <2>3. TruthOK(u) /\ LogOK(WithDD(log, dd), u)
    BY <1>1, <1>2, <2>1, <2>2, LatenciesTaken DEF s, u
  <2>4. Becomes(l, WithDD(log, dd), u)
    BY <1>2, <1>5
  <2> QED BY <2>3, <2>4, LogBecomes
<1> QED BY <1>4, <1>5

\* Reset.
LEMMA ResetStep ==
    ASSUME SKInv, NEW l \in SKLog, reset(l)
    PROVE  SKInv'
<1>1. Becomes(l, EmptyLog(skLog[l].conf), EmptyTruth)
  BY DEF reset
<1>2. TruthOK(EmptyTruth) /\ LogOK(EmptyLog(skLog[l].conf), EmptyTruth)
  BY EmptyLogOK
<1> QED BY <1>1, <1>2, LogBecomes

\* The dictionary is read back as it was written.
LEMMA RoundTrip ==
    ASSUME NEW t, TruthOK(t), NEW log, LogOK(log, t)
    PROVE  from_dict(to_dict(log)) = log
<1>1. /\ log = [conf |-> log.conf, dd |-> log.dd, table |-> log.table, events |-> log.events,
                regs |-> log.regs, total |-> log.total]
      /\ log.dd = BatchSketch(t.lat)
  BY DEF LogOK
<1>2. log.dd.count \in Nat /\ (log.dd.count = 0 <=> t.lat = NoCounts)
  BY LogNumbers
<1>3. CASE log.dd.count > 0
  <2>1. to_dict(log) = log
    BY <1>1, <1>3 DEF to_dict
  <2>2. from_dict(log) = log
    BY <1>1, <1>3 DEF from_dict
  <2> QED BY <2>1, <2>2
<1>4. CASE ~(log.dd.count > 0)
  <2>1. log.dd = EmptyDD
    BY <1>1, <1>2, <1>4 DEF BatchSketch
  <2> DEFINE e == [EmptyDD EXCEPT !.min = 0, !.max = 0]
             d == to_dict(log)
  <2>2. d = [log EXCEPT !.dd = e]
    BY <1>4, <2>1 DEF to_dict
  <2>3. e.count = 0
    BY DEF EmptyDD
  <2> HIDE DEF e, d
  <2>4. d.dd = e /\ d = [conf |-> log.conf, dd |-> e, table |-> log.table, events |-> log.events,
                         regs |-> log.regs, total |-> log.total]
    BY <1>1, <2>2
  <2>5. from_dict(d) = [d EXCEPT !.dd = EmptyDD]
    BY <2>3, <2>4 DEF from_dict
  <2>6. [d EXCEPT !.dd = EmptyDD] = log
    BY <1>1, <2>1, <2>4
  <2> QED BY <2>5, <2>6 DEF d
<1> QED BY <1>3, <1>4

\* Save and load.
LEMMA ReloadStep ==
    ASSUME SKInv, NEW l \in SKLog, Reload(l)
    PROVE  SKInv'
<1>1. TruthOK(skTrue[l]) /\ LogOK(skLog[l], skTrue[l])
  BY DEF SKInv
<1>2. from_dict(to_dict(skLog[l])) = skLog[l]
  BY <1>1, RoundTrip
<1>3. Becomes(l, skLog[l], skTrue[l])
  BY <1>2 DEF Reload
<1> QED BY <1>1, <1>3, LogBecomes


\* The table of all events is that of each part, added.
LEMMA TableAdded ==
    ASSUME NEW a, IsCounter(a, SKItem), NEW b, IsCounter(b, SKItem)
    PROVE  TableOf(Added(a, b)) = [r \in Rows |-> [c \in Columns |-> TableOf(a)[r][c] + TableOf(b)[r][c]]]
<1>1. IsFiniteSet(SKItem)
  BY SKAssumption
<1>2. \A Z : Among(Added(a, b), Z) = Among(a, Z) + Among(b, Z)
  BY <1>1, AmongAdded
<1>3. \A r \in Rows, c \in Columns : /\ TableOf(a)[r][c] = Among(a, Sharing(r, c))
                                    /\ TableOf(b)[r][c] = Among(b, Sharing(r, c))
  BY DEF TableOf
<1>4. TableOf(Added(a, b)) = [r \in Rows |-> [c \in Columns |-> Among(Added(a, b), Sharing(r, c))]]
  BY DEF TableOf
<1> QED BY <1>2, <1>3, <1>4

\* An entry of the table counts no more than all events.
LEMMA CellCounts ==
    ASSUME NEW ev, IsCounter(ev, SKItem), NEW r \in Rows, NEW c \in Columns
    PROVE  TableOf(ev)[r][c] = Among(ev, Sharing(r, c)) /\ TableOf(ev)[r][c] \in Nat /\ TableOf(ev)[r][c] <= Size(ev)
<1>1. IsFiniteSet(SKItem) /\ DOMAIN ev \in SUBSET SKItem
  BY SKAssumption DEF IsCounter
<1>2. TableOf(ev)[r][c] = Among(ev, Sharing(r, c))
  BY DEF TableOf
<1>3. Size(ev) = Among(ev, SKItem)
  BY <1>1, SizeAmong
<1>4. DOMAIN ev \cap Sharing(r, c) \in SUBSET SKItem
  BY <1>1
<1>5. Among(ev, Sharing(r, c)) <= Among(ev, SKItem) /\ Among(ev, Sharing(r, c)) \in Nat
  BY <1>1, <1>4, AmongPart
<1> QED BY <1>2, <1>3, <1>5

\* Adding one item adds to its column in every row.
LEMMA TableAddOne ==
    ASSUME NEW ev, IsCounter(ev, SKItem), NEW item \in SKItem, NEW n \in Nat \ {0}
    PROVE  TableAdd(TableOf(ev), item, n) = TableOf(Added(ev, OneCount(item, n)))
<1> DEFINE b == OneCount(item, n)
           t == TableOf(ev)
           u == TableOf(b)
<1>1. IsFiniteSet(SKItem)
  BY SKAssumption
<1>2. IsCounter(b, SKItem)
  BY OneCounter
<1>3. \A Z : Among(b, Z) = IF item \in Z THEN n ELSE 0
  BY <1>1, AmongOne
<1> HIDE DEF b
<1>4. TableOf(Added(ev, b)) = [r \in Rows |-> [c \in Columns |-> t[r][c] + u[r][c]]]
  BY <1>2, TableAdded
<1>5. ASSUME NEW r \in Rows, NEW c \in Columns
      PROVE  t[r][c] \in Nat /\ u[r][c] = IF c = SKColumn[r][item] THEN n ELSE 0
  <2>1. t[r][c] \in Nat
    BY CellCounts
  <2>2. u[r][c] = Among(b, Sharing(r, c))
    BY DEF TableOf
  <2> QED BY <1>3, <2>1, <2>2 DEF Sharing
<1>6. \A r \in Rows : t[r] = [c \in Columns |-> t[r][c]]
  BY DEF TableOf
<1>7. \A r \in Rows : SKColumn[r][item] \in Columns
  BY DEF Columns
<1> HIDE DEF t, u
<1>8. ASSUME NEW r \in Rows
      PROVE  [t[r] EXCEPT ![SKColumn[r][item]] = t[r][SKColumn[r][item]] + n] = [c \in Columns |-> t[r][c] + u[r][c]]
  <2> DEFINE k == SKColumn[r][item]
             e == [t[r] EXCEPT ![k] = t[r][k] + n]
  <2>1. k \in Columns
    BY <1>7
  <2>2. \A c \in Columns : t[r][c] \in Nat /\ u[r][c] = IF c = k THEN n ELSE 0
    BY <1>5
  <2> HIDE DEF k
  <2>3. e = [c \in Columns |-> IF c = k THEN t[r][k] + n ELSE t[r][c]]
    BY <1>6, <2>1
  <2>4. \A c \in Columns : (IF c = k THEN t[r][k] + n ELSE t[r][c]) = t[r][c] + u[r][c]
    BY <2>2
  <2> HIDE DEF e
  <2>5. e = [c \in Columns |-> t[r][c] + u[r][c]]
    BY <2>3, <2>4
  <2> QED BY <2>5 DEF e, k
<1>9. TableAdd(t, item, n) = [r \in Rows |-> [t[r] EXCEPT ![SKColumn[r][item]] = t[r][SKColumn[r][item]] + n]]
  BY DEF TableAdd
<1>10. TableAdd(t, item, n) = TableOf(Added(ev, b))
  BY <1>4, <1>8, <1>9
<1> QED BY <1>10 DEF t, b

\* The number of events added.
LEMMA SizeAdded ==
    ASSUME NEW X, IsFiniteSet(X), NEW a, IsCounter(a, X), NEW b, IsCounter(b, X)
    PROVE  /\ Size(Added(a, b)) = Size(a) + Size(b) /\ Size(a) \in Nat /\ Size(b) \in Nat
           /\ IsCounter(Added(a, b), X)
<1>1. IsCounter(Added(a, b), X)
  BY AddedCounter
<1>2. DOMAIN a \in SUBSET X /\ DOMAIN b \in SUBSET X /\ DOMAIN Added(a, b) \in SUBSET X
  BY <1>1 DEF IsCounter
<1>3. Size(a) = Among(a, X) /\ Size(b) = Among(b, X) /\ Size(Added(a, b)) = Among(Added(a, b), X)
  BY <1>2, SizeAmong
<1>4. Among(Added(a, b), X) = Among(a, X) + Among(b, X)
  BY AmongAdded
<1>5. Among(a, X) \in Nat /\ Among(b, X) \in Nat
  BY AmongSum
<1> QED BY <1>1, <1>3, <1>4, <1>5

\* An event.
LEMMA EventStep ==
    ASSUME SKInv, NEW l \in SKLog, NEW item \in SKItem, NEW n \in 1 .. SKMaxInt, add_event(l, item, n)
    PROVE  SKInv'
<1> DEFINE log == skLog[l]
           t == skTrue[l]
           b == OneCount(item, n)
           new == [log EXCEPT !.table = TableAdd(log.table, item, n), !.events = log.events + n, !.total = log.total + n]
           u == [t EXCEPT !.ev = Added(t.ev, b)]
<1>1. TruthOK(t) /\ LogOK(log, t)
  BY DEF SKInv
<1>2. /\ log.total <= SKMaxUint - n /\ log.events <= SKMaxInt - n
      /\ Becomes(l, new, u)
  BY DEF add_event, CMSCanAdd
<1>3. n \in Nat \ {0} /\ IsFiniteSet(SKItem)
  BY SKAssumption
<1> HIDE DEF log, t
<1>4. IsCounter(t.ev, SKItem) /\ IsCounter(b, SKItem)
  <2>1. IsCounter(b, SKItem)
    BY <1>3, OneCounter
  <2> QED BY <1>1, <2>1 DEF TruthOK
<1>5. Size(b) = n
  <2>1. DOMAIN b \in SUBSET SKItem
    BY <1>4 DEF IsCounter
  <2>2. Size(b) = Among(b, SKItem)
    BY <2>1, SizeAmong
  <2>3. Among(b, SKItem) = IF item \in SKItem THEN n ELSE 0
    BY <1>3, AmongOne
  <2> QED BY <2>2, <2>3
<1>6. TableAdd(log.table, item, n) = TableOf(Added(t.ev, b))
  <2>1. log.table = TableOf(t.ev)
    BY <1>1 DEF LogOK
  <2> QED BY <1>3, <1>4, <2>1, TableAddOne
<1> HIDE DEF b
<1>7. Size(Added(t.ev, b)) = Size(t.ev) + n /\ IsCounter(Added(t.ev, b), SKItem)
  BY <1>3, <1>4, <1>5, SizeAdded
<1>8. /\ log = [conf |-> log.conf, dd |-> log.dd, table |-> log.table, events |-> log.events,
                regs |-> log.regs, total |-> log.total]
      /\ t = [lat |-> t.lat, ev |-> t.ev, uniq |-> t.uniq]
  BY <1>1 DEF LogOK, TruthOK
<1>9. u.lat = t.lat /\ u.ev = Added(t.ev, b) /\ u.uniq = t.uniq /\ u = [lat |-> u.lat, ev |-> u.ev, uniq |-> u.uniq]
  BY <1>8
<1>10. new = [conf |-> log.conf, dd |-> log.dd, table |-> TableAdd(log.table, item, n), events |-> log.events + n,
              regs |-> log.regs, total |-> log.total + n]
  <2> DEFINE tb == TableAdd(log.table, item, n)
             en == log.events + n
             tn == log.total + n
  <2>1. new = [log EXCEPT !.table = tb, !.events = en, !.total = tn]
    OBVIOUS
  <2> HIDE DEF tb, en, tn, new
  <2>2. new = [conf |-> log.conf, dd |-> log.dd, table |-> tb, events |-> en, regs |-> log.regs, total |-> tn]
    BY <1>8, <2>1
  <2> QED BY <2>2 DEF tb, en, tn
<1> HIDE DEF new, u
<1>11. /\ new.conf = log.conf /\ new.dd = log.dd /\ new.table = TableOf(u.ev) /\ new.events = log.events + n
       /\ new.regs = log.regs /\ new.total = log.total + n
       /\ new = [conf |-> new.conf, dd |-> new.dd, table |-> new.table, events |-> new.events,
                 regs |-> new.regs, total |-> new.total]
  BY <1>6, <1>9, <1>10
<1>12. TruthOK(u)
  BY <1>1, <1>7, <1>9 DEF TruthOK
<1>13. /\ log.events \in Nat /\ log.total \in Nat /\ log.dd.count \in Nat /\ SKMaxInt \in Nat /\ SKMaxUint \in Nat
       /\ log.events = Size(t.ev) /\ log.total = log.dd.count + log.events
  BY <1>1, LogNumbers DEF LogOK
<1>14. /\ new.events = Size(u.ev) /\ new.events <= SKMaxInt
       /\ new.total = new.dd.count + new.events /\ new.total <= SKMaxUint
  BY <1>2, <1>3, <1>7, <1>9, <1>11, <1>13
<1>15. new.dd = BatchSketch(u.lat) /\ DDLimits(new.dd) /\ RegsOK(new.regs, u.uniq)
  BY <1>1, <1>9, <1>11 DEF LogOK
<1>16. LogOK(new, u)
  BY <1>11, <1>14, <1>15 DEF LogOK
<1> QED BY <1>2, <1>12, <1>16, LogBecomes

\* A register of the registers.
LEMMA RegisterOf ==
    ASSUME NEW x \in SKItem
    PROVE  /\ SKRegister[x][1] \in Registers /\ SKRegister[x][2] \in Nat
           /\ SKRegister[x] = <<SKRegister[x][1], SKRegister[x][2]>>
<1>1. SKRegister[x] \in Nat \X Nat
  BY SKAssumption
<1> QED BY <1>1 DEF Registers

\* An item raises its register.
LEMMA RegisterAdded ==
    ASSUME NEW regs, NEW uniq \in SUBSET SKItem, RegsOK(regs, uniq), NEW item \in SKItem
    PROVE  RegsOK(RegisterAdd(regs, item), uniq \cup {item})
<1> DEFINE i == SKRegister[item][1]
           rho == SKRegister[item][2]
           new == RegisterAdd(regs, item)
<1>1. i \in Registers /\ rho \in Nat /\ SKRegister[item] = <<i, rho>>
  BY RegisterOf
<1>2. regs \in [Registers -> Nat]
  BY DEF RegsOK
<1>3. new = [regs EXCEPT ![i] = IF rho > regs[i] THEN rho ELSE regs[i]]
  BY DEF RegisterAdd
<1> HIDE DEF i, rho, new
<1>4. /\ new \in [Registers -> Nat] /\ new[i] = (IF rho > regs[i] THEN rho ELSE regs[i])
      /\ \A j \in Registers \ {i} : new[j] = regs[j]
  BY <1>1, <1>2, <1>3
<1>5. ASSUME NEW x \in uniq \cup {item} PROVE SKRegister[x][2] <= new[SKRegister[x][1]]
  <2>1. CASE x \in uniq
    <3>1. SKRegister[x][1] \in Registers /\ SKRegister[x][2] \in Nat
      BY <2>1, RegisterOf
    <3>2. SKRegister[x][2] <= regs[SKRegister[x][1]]
      BY <2>1 DEF RegsOK
    <3> QED BY <1>1, <1>2, <1>4, <3>1, <3>2
  <2>2. CASE x = item
    BY <1>1, <1>2, <1>4, <2>2 DEF i, rho
  <2> QED BY <2>1, <2>2
<1>6. ASSUME NEW j \in Registers, new[j] > 0 PROVE \E x \in uniq \cup {item} : SKRegister[x] = <<j, new[j]>>
  <2>1. CASE new[j] = regs[j]
    <3>1. \E x \in uniq : SKRegister[x] = <<j, regs[j]>>
      BY <1>6, <2>1 DEF RegsOK
    <3> QED BY <2>1, <3>1
  <2>2. CASE new[j] # regs[j]
    <3>1. j = i /\ new[j] = rho
      BY <1>4, <2>2
    <3> QED BY <1>1, <3>1
  <2> QED BY <2>1, <2>2
<1>7. RegsOK(new, uniq \cup {item})
  BY <1>4, <1>5, <1>6 DEF RegsOK
<1> QED BY <1>7 DEF new

\* A unique item.
LEMMA UniqueStep ==
    ASSUME SKInv, NEW l \in SKLog, NEW item \in SKItem, add_unique(l, item)
    PROVE  SKInv'
<1> DEFINE log == skLog[l]
           t == skTrue[l]
           regs == RegisterAdd(log.regs, item)
           uniq == t.uniq \cup {item}
           new == [log EXCEPT !.regs = regs]
           u == [t EXCEPT !.uniq = uniq]
<1>1. TruthOK(t) /\ LogOK(log, t)
  BY DEF SKInv
<1>2. Becomes(l, new, u)
  BY DEF add_unique
<1> HIDE DEF log, t
<1>3. /\ log = [conf |-> log.conf, dd |-> log.dd, table |-> log.table, events |-> log.events,
                regs |-> log.regs, total |-> log.total]
      /\ t = [lat |-> t.lat, ev |-> t.ev, uniq |-> t.uniq] /\ t.uniq \in SUBSET SKItem
      /\ RegsOK(log.regs, t.uniq)
  BY <1>1 DEF LogOK, TruthOK
<1>4. RegsOK(regs, uniq)
  BY <1>3, RegisterAdded
<1>5. uniq \in SUBSET SKItem
  BY <1>3
<1> HIDE DEF regs, uniq
<1>6. u = [lat |-> t.lat, ev |-> t.ev, uniq |-> uniq]
  BY <1>3
<1>7. new = [conf |-> log.conf, dd |-> log.dd, table |-> log.table, events |-> log.events,
             regs |-> regs, total |-> log.total]
  BY <1>3
<1> HIDE DEF u, new
<1>8. TruthOK(u)
  BY <1>1, <1>5, <1>6 DEF TruthOK
<1>9. /\ new.dd = log.dd /\ new.table = log.table /\ new.events = log.events /\ new.total = log.total
      /\ new.regs = regs /\ u.lat = t.lat /\ u.ev = t.ev /\ u.uniq = uniq
      /\ new = [conf |-> new.conf, dd |-> new.dd, table |-> new.table, events |-> new.events,
                regs |-> new.regs, total |-> new.total]
  BY <1>6, <1>7
<1>10. LogOK(new, u)
  BY <1>1, <1>4, <1>9 DEF LogOK
<1> QED BY <1>2, <1>8, <1>10, LogBecomes

\* The higher of two registers.
LEMMA RegistersMerged ==
    ASSUME NEW a, NEW s \in SUBSET SKItem, RegsOK(a, s), NEW b, NEW t \in SUBSET SKItem, RegsOK(b, t)
    PROVE  RegsOK([i \in Registers |-> IF a[i] > b[i] THEN a[i] ELSE b[i]], s \cup t)
<1> DEFINE c == [i \in Registers |-> IF a[i] > b[i] THEN a[i] ELSE b[i]]
<1>1. a \in [Registers -> Nat] /\ b \in [Registers -> Nat]
  BY DEF RegsOK
<1>2. c \in [Registers -> Nat] /\ \A i \in Registers : c[i] >= a[i] /\ c[i] >= b[i] /\ (c[i] = a[i] \/ c[i] = b[i])
  BY <1>1
<1> HIDE DEF c
<1>3. ASSUME NEW x \in s \cup t PROVE SKRegister[x][2] <= c[SKRegister[x][1]]
  <2>1. SKRegister[x][1] \in Registers /\ SKRegister[x][2] \in Nat
    BY RegisterOf
  <2>2. SKRegister[x][2] <= a[SKRegister[x][1]] \/ SKRegister[x][2] <= b[SKRegister[x][1]]
    BY DEF RegsOK
  <2> QED BY <1>1, <1>2, <2>1, <2>2
<1>4. ASSUME NEW j \in Registers, c[j] > 0 PROVE \E x \in s \cup t : SKRegister[x] = <<j, c[j]>>
  <2>1. CASE c[j] = a[j]
    <3>1. \E x \in s : SKRegister[x] = <<j, a[j]>>
      BY <1>4, <2>1 DEF RegsOK
    <3> QED BY <2>1, <3>1
  <2>2. CASE c[j] = b[j]
    <3>1. \E x \in t : SKRegister[x] = <<j, b[j]>>
      BY <1>4, <2>2 DEF RegsOK
    <3> QED BY <2>2, <3>1
  <2> QED BY <1>2, <2>1, <2>2
<1>5. RegsOK(c, s \cup t)
  BY <1>2, <1>3, <1>4 DEF RegsOK
<1> QED BY <1>5 DEF c

\* Two logs merged.
LEMMA LogsMerged ==
    ASSUME NEW s, TruthOK(s), NEW a, LogOK(a, s), NEW t, TruthOK(t), NEW b, LogOK(b, t), CanMerge(a, b)
    PROVE  TruthOK(MergeTruth(s, t)) /\ LogOK(Merged(a, b), MergeTruth(s, t))
<1> DEFINE u == MergeTruth(s, t)
           m == Merged(a, b)
           dd == Commit(a.dd, b.dd)
           table == [r \in Rows |-> [c \in Columns |-> a.table[r][c] + b.table[r][c]]]
           regs == [i \in Registers |-> IF a.regs[i] > b.regs[i] THEN a.regs[i] ELSE b.regs[i]]
<1>1. IsCounter(s.lat, SKReal) /\ IsCounter(t.lat, SKReal) /\ IsCounter(s.ev, SKItem) /\ IsCounter(t.ev, SKItem)
  BY DEF TruthOK
<1>2. s.uniq \in SUBSET SKItem /\ t.uniq \in SUBSET SKItem
  BY DEF TruthOK
<1>3. IsFiniteSet(SKItem) /\ IsFiniteSet(SKReal)
  BY SKAssumption
<1>4. Size(Added(s.ev, t.ev)) = Size(s.ev) + Size(t.ev) /\ IsCounter(Added(s.ev, t.ev), SKItem)
  BY <1>1, <1>3, SizeAdded
<1>5. IsCounter(Added(s.lat, t.lat), SKReal)
  BY <1>1, AddedCounter
<1>6. u = [lat |-> Added(s.lat, t.lat), ev |-> Added(s.ev, t.ev), uniq |-> s.uniq \cup t.uniq]
  BY DEF MergeTruth
<1>7. m = [conf |-> a.conf, dd |-> dd, table |-> table, events |-> a.events + b.events, regs |-> regs,
           total |-> a.total + b.total]
  BY DEF Merged
<1>8. RegsOK(regs, s.uniq \cup t.uniq)
  <2>1. RegsOK(a.regs, s.uniq) /\ RegsOK(b.regs, t.uniq)
    BY DEF LogOK
  <2> QED BY <1>2, <2>1, RegistersMerged
<1>9. table = TableOf(Added(s.ev, t.ev))
  <2>1. a.table = TableOf(s.ev) /\ b.table = TableOf(t.ev)
    BY DEF LogOK
  <2>2. TableOf(Added(s.ev, t.ev)) = [r \in Rows |-> [c \in Columns |-> TableOf(s.ev)[r][c] + TableOf(t.ev)[r][c]]]
    BY <1>1, TableAdded
  <2> QED BY <2>1, <2>2
<1>10. a.dd = BatchSketch(s.lat) /\ b.dd = BatchSketch(t.lat) /\ DDLimits(a.dd)
  BY DEF LogOK
<1>11. /\ CanCommit(a.dd, b.dd) /\ a.total <= SKMaxUint - b.total /\ a.events <= SKMaxInt - b.events
  BY DEF CanMerge
<1>12. dd = BatchSketch(Added(s.lat, t.lat))
  BY <1>1, <1>10, BatchAdded
<1>13. DDLimits(dd)
  BY <1>1, <1>10, <1>11, CommitLimits
<1>14. dd.count = a.dd.count + b.dd.count
  BY DEF Commit
<1> HIDE DEF u, m, dd, table, regs
<1>15. /\ u.lat = Added(s.lat, t.lat) /\ u.ev = Added(s.ev, t.ev) /\ u.uniq = s.uniq \cup t.uniq
       /\ u = [lat |-> u.lat, ev |-> u.ev, uniq |-> u.uniq]
  BY <1>6
<1>16. /\ m.dd = dd /\ m.table = table /\ m.events = a.events + b.events /\ m.regs = regs /\ m.total = a.total + b.total
       /\ m = [conf |-> m.conf, dd |-> m.dd, table |-> m.table, events |-> m.events, regs |-> m.regs, total |-> m.total]
  BY <1>7
<1>17. TruthOK(u)
  <2>1. s.uniq \cup t.uniq \in SUBSET SKItem
    BY <1>2
  <2> QED BY <1>4, <1>5, <1>15, <2>1 DEF TruthOK
<1>18. /\ a.events \in Nat /\ a.total \in Nat /\ a.dd.count \in Nat
       /\ b.events \in Nat /\ b.total \in Nat /\ b.dd.count \in Nat /\ SKMaxInt \in Nat /\ SKMaxUint \in Nat
  BY LogNumbers
<1>19. /\ a.events = Size(s.ev) /\ a.total = a.dd.count + a.events
       /\ b.events = Size(t.ev) /\ b.total = b.dd.count + b.events
  BY DEF LogOK
<1>20. /\ m.events = Size(u.ev) /\ m.events <= SKMaxInt /\ m.total = m.dd.count + m.events /\ m.total <= SKMaxUint
  BY <1>4, <1>11, <1>14, <1>15, <1>16, <1>18, <1>19
<1>21. LogOK(m, u)
  BY <1>8, <1>9, <1>12, <1>13, <1>15, <1>16, <1>20 DEF LogOK
<1> QED BY <1>17, <1>21 DEF m, u

\* A merge, also of a log into itself.
LEMMA MergeStep ==
    ASSUME SKInv, NEW l \in SKLog, NEW k \in SKLog, NEW same \in BOOLEAN, StreamLog_merge(l, k, same)
    PROVE  SKInv'
<1> DEFINE a == skLog[l]
           s == skTrue[l]
           b == skLog[k]
           t == skTrue[k]
<1>1. TruthOK(s) /\ LogOK(a, s) /\ TruthOK(t) /\ LogOK(b, t)
  BY DEF SKInv
<1>2. from_dict(to_dict(b)) = b
  BY <1>1, RoundTrip
<1>3. Becomes(l, merge(a, b), IF CanMerge(a, b) THEN MergeTruth(s, t) ELSE s)
  BY <1>2 DEF StreamLog_merge
<1> HIDE DEF a, b, s, t
<1>4. CASE CanMerge(a, b)
  <2>1. TruthOK(MergeTruth(s, t)) /\ LogOK(Merged(a, b), MergeTruth(s, t))
    BY <1>1, <1>4, LogsMerged
  <2>2. Becomes(l, Merged(a, b), MergeTruth(s, t))
    BY <1>3, <1>4 DEF merge
  <2> QED BY <2>1, <2>2, LogBecomes
<1>5. CASE ~CanMerge(a, b)
  <2>1. Becomes(l, a, s)
    BY <1>3, <1>5 DEF merge
  <2> QED BY <1>1, <2>1, LogBecomes
<1> QED BY <1>4, <1>5

\* The invariant holds always.
LEMMA SKInvariant == SKSpec => []SKInv
<1>1. SKInit => SKInv
  <2> SUFFICES ASSUME SKInit PROVE SKInv
    OBVIOUS
  <2>1. PICK conf \in SKConfs : skLog = [l \in SKLog |-> EmptyLog(conf[l])]
    BY DEF SKInit
  <2>2. DOMAIN skLog = SKLog /\ DOMAIN skTrue = SKLog
    BY <2>1 DEF SKInit
  <2>3. ASSUME NEW l \in SKLog PROVE TruthOK(skTrue[l]) /\ LogOK(skLog[l], skTrue[l])
    <3>1. skTrue[l] = EmptyTruth /\ skLog[l] = EmptyLog(conf[l])
      BY <2>1 DEF SKInit
    <3>2. TruthOK(EmptyTruth) /\ LogOK(EmptyLog(conf[l]), EmptyTruth)
      BY EmptyLogOK
    <3> QED BY <3>1, <3>2
  <2> QED BY <2>2, <2>3 DEF SKInv
<1>2. SKInv /\ [SKNext]_skVars => SKInv'
  <2> SUFFICES ASSUME SKInv, [SKNext]_skVars PROVE SKInv'
    OBVIOUS
  <2>1. CASE SKNext
    <3>1. PICK l \in SKLog :
            \/ \E v \in SKValue \cup {SKNan, SKTiny} : add_latency(l, v)
            \/ \E b \in SKBatch : add_batch(l, b)
            \/ \E i \in SKItem, n \in 1 .. SKMaxInt : add_event(l, i, n)
            \/ \E i \in SKItem : add_unique(l, i)
            \/ \E m \in SKLog, same \in BOOLEAN : StreamLog_merge(l, m, same)
            \/ reset(l) \/ Reload(l)
      BY <2>1 DEF SKNext
    <3> QED BY <3>1, LatencyStep, BatchStep, EventStep, UniqueStep, MergeStep, ResetStep, ReloadStep
  <2>2. CASE UNCHANGED skVars
    BY <2>2 DEF skVars, SKInv, TruthOK, LogOK
  <2> QED BY <2>1, <2>2
<1> QED BY <1>1, <1>2, PTL DEF SKSpec

\* What the parts of a DDSketch count.
LEMMA PartSums ==
    ASSUME NEW f, IsCounter(f, SKReal), NEW d, d = BatchSketch(f)
    PROVE  /\ Size(d.pos) = Among(f, SKPositive) /\ Size(d.neg) = Among(f, SKNegative) /\ d.zero = Among(f, {0})
           /\ d.count = Among(f, SKReal) /\ d.count = Among(f, SKNegative) + Among(f, {0}) + Among(f, SKPositive)
           /\ Among(f, SKPositive) \in Nat /\ Among(f, SKNegative) \in Nat /\ Among(f, {0}) \in Nat /\ d.count \in Nat
<1>1. IsFiniteSet(SKReal) /\ DOMAIN f \in SUBSET SKReal /\ SKReal \in SUBSET Int
  BY SKFacts DEF IsCounter
<1>2. d.pos = Keyed(f, SKPositive) /\ d.neg = Keyed(f, SKNegative) /\ d.zero = CountOf(f, 0) /\ d.count = Size(f)
  BY BatchFields
<1>3. ASSUME NEW S \in SUBSET SKNonzero PROVE Size(Keyed(f, S)) = Among(f, S)
  <2>1. DOMAIN Keyed(f, S) \in SUBSET SKKeys
    <3>1. IsCounter(Keyed(f, S), SKKeys)
      BY KeyedCounter
    <3> QED BY <3>1 DEF IsCounter
  <2>2. Size(Keyed(f, S)) = Among(Keyed(f, S), SKKeys)
    BY <2>1, SizeAmong
  <2>3. Among(Keyed(f, S), SKKeys) = Among(f, {v \in S : _key(v) \in SKKeys})
    BY AmongKeyed
  <2>4. {v \in S : _key(v) \in SKKeys} = S
    BY SKFacts
  <2> QED BY <2>2, <2>3, <2>4
<1>4. SKPositive \in SUBSET SKNonzero /\ SKNegative \in SUBSET SKNonzero
  BY SKFacts
<1>5. Size(d.pos) = Among(f, SKPositive) /\ Size(d.neg) = Among(f, SKNegative)
  BY <1>2, <1>3, <1>4
<1>6. d.zero = Among(f, {0})
  <2>1. CASE 0 \in DOMAIN f
    <3>1. DOMAIN f \cap {0} = {0} /\ f[0] \in Nat
      BY <2>1 DEF IsCounter
    <3>2. Among(f, {0}) = SumOver(DOMAIN f \cap {0}, f)
      BY <1>1, AmongSum
    <3>3. SumOver({0}, f) = f[0]
      BY <3>1, UnitsOfOne
    <3> QED BY <1>2, <2>1, <3>1, <3>2, <3>3 DEF CountOf
  <2>2. CASE 0 \notin DOMAIN f
    <3>1. DOMAIN f \cap {0} = {}
      BY <2>2
    <3>2. Among(f, {0}) = 0
      BY <1>1, <3>1, AmongNone
    <3> QED BY <1>2, <2>2, <3>2 DEF CountOf
  <2> QED BY <2>1, <2>2
<1>7. d.count = Among(f, SKReal)
  BY <1>1, <1>2, SizeAmong
<1>8. /\ Among(f, SKReal) = Among(f, SKReal \cap SKNegative) + Among(f, SKReal \ SKNegative)
      /\ Among(f, SKReal) \in Nat /\ Among(f, SKReal \cap SKNegative) \in Nat /\ Among(f, SKReal \ SKNegative) \in Nat
  BY <1>1, AmongSplit
<1> DEFINE Z == SKReal \ SKNegative
           O == {0}
<1>9. /\ Among(f, Z) = Among(f, Z \cap O) + Among(f, Z \ O)
      /\ Among(f, Z \cap O) \in Nat /\ Among(f, Z \ O) \in Nat
  <2> HIDE DEF Z, O
  <2> QED BY <1>1, AmongSplit
<1>10. Among(f, SKReal \cap SKNegative) = Among(f, SKNegative)
  <2>1. DOMAIN f \cap (SKReal \cap SKNegative) = DOMAIN f \cap SKNegative
    BY DEF SKNegative
  <2> QED BY <2>1, AmongSame
<1>11. Among(f, Z \cap O) = Among(f, O)
  <2>1. DOMAIN f \cap (Z \cap O) = DOMAIN f \cap O
    BY <1>1 DEF SKNegative
  <2> HIDE DEF Z, O
  <2> QED BY <2>1, AmongSame
<1>12. Among(f, Z \ O) = Among(f, SKPositive)
  <2>1. \A x \in DOMAIN f : x \in Z \ O <=> x \in SKPositive
    <3> SUFFICES ASSUME NEW x \in DOMAIN f PROVE x \in Z \ O <=> x \in SKPositive
      OBVIOUS
    <3>1. x \in Int /\ x \in SKReal
      BY <1>1
    <3>2. (x \in Z <=> ~(x < 0)) /\ (x \in O <=> x = 0) /\ (x \in SKPositive <=> x > 0)
      BY <3>1 DEF SKNegative, SKPositive
    <3> HIDE DEF Z, O
    <3> QED BY <3>1, <3>2
  <2> HIDE DEF Z, O
  <2>2. DOMAIN f \cap (Z \ O) = DOMAIN f \cap SKPositive
    BY <2>1
  <2> QED BY <2>2, AmongSame
<1>13. Among(f, SKReal) = Among(f, SKReal \cap SKNegative) + Among(f, Z) /\ Among(f, O) = Among(f, {0})
  BY <1>8
<1> HIDE DEF Z, O
<1> QED BY <1>5, <1>6, <1>7, <1>8, <1>9, <1>10, <1>11, <1>12, <1>13

\* The extremes are in the outermost buckets.
LEMMA ExtremaValid ==
    ASSUME NEW f, IsCounter(f, SKReal), f # NoCounts, NEW d, d = BatchSketch(f)
    PROVE  ValidExtrema(d)
<1>1. /\ IsCounter(d.pos, SKKeys) /\ IsCounter(d.neg, SKKeys)
      /\ DOMAIN d.pos = {_key(v) : v \in DOMAIN f \cap SKPositive}
      /\ DOMAIN d.neg = {_key(v) : v \in DOMAIN f \cap SKNegative}
      /\ d.min \in DOMAIN f /\ d.min \in Int /\ \A w \in DOMAIN f : d.min <= w
      /\ d.max \in DOMAIN f /\ d.max \in Int /\ \A w \in DOMAIN f : w <= d.max
  BY BatchTyped
<1>2. DOMAIN f \in SUBSET SKReal /\ SKReal \in SUBSET Int /\ DOMAIN f \in SUBSET Int /\ f \in [DOMAIN f -> Nat \ {0}]
  BY SKFacts DEF IsCounter
<1>3. IsFiniteSet(SKKeys) /\ SKKeys \in SUBSET Int
  BY SKFacts
<1>4. (DOMAIN d.pos = {} <=> d.pos = NoCounts) /\ (DOMAIN d.neg = {} <=> d.neg = NoCounts)
  BY <1>1, <1>3, AmongEmpty
<1>5. DOMAIN d.pos \in SUBSET Int /\ DOMAIN d.neg \in SUBSET Int
  BY <1>1, <1>3 DEF IsCounter
<1>6. d.zero = CountOf(f, 0)
  BY BatchFields
<1>7. d.zero > 0 <=> 0 \in DOMAIN f
  BY <1>2, <1>6 DEF CountOf
<1>8. \A v, w \in SKPositive : v <= w => _key(v) <= _key(w)
  BY SKFacts
<1>9. \A v, w \in SKNegative : v <= w => _key(w) <= _key(v)
  BY SKFacts
<1>10. d.min <= d.max
  BY <1>1
<1>11. d.pos # NoCounts <=> \E v \in DOMAIN f : v > 0
  BY <1>1, <1>2, <1>4 DEF SKPositive
<1>12. d.neg # NoCounts <=> \E v \in DOMAIN f : v < 0
  BY <1>1, <1>2, <1>4 DEF SKNegative
<1>13. ASSUME d.pos # NoCounts PROVE d.max > 0 /\ _key(d.max) = Greatest(DOMAIN d.pos)
  <2>1. d.max > 0 /\ d.max \in SKPositive
    BY <1>1, <1>2, <1>11, <1>13 DEF SKPositive
  <2>2. _key(d.max) \in DOMAIN d.pos /\ \A k \in DOMAIN d.pos : k <= _key(d.max)
    BY <1>1, <1>8, <2>1
  <2>3. Greatest(DOMAIN d.pos) = _key(d.max)
    <3> DEFINE S == DOMAIN d.pos
               m == _key(d.max)
    <3>1. S \in SUBSET Int /\ m \in S /\ \A w \in S : w <= m
      BY <1>5, <2>2
    <3> HIDE DEF S, m
    <3>2. Greatest(S) = m
      BY <3>1, LeastIs
    <3> QED BY <3>2 DEF S, m
  <2> QED BY <2>1, <2>3
<1>14. ASSUME d.pos # NoCounts, d.min > 0 PROVE _key(d.min) = Least(DOMAIN d.pos)
  <2>1. d.min \in SKPositive
    BY <1>1, <1>2, <1>14 DEF SKPositive
  <2>2. _key(d.min) \in DOMAIN d.pos /\ \A k \in DOMAIN d.pos : _key(d.min) <= k
    BY <1>1, <1>8, <2>1
  <2> DEFINE S == DOMAIN d.pos
             m == _key(d.min)
  <2>3. S \in SUBSET Int /\ m \in S /\ \A w \in S : m <= w
    BY <1>5, <2>2
  <2> HIDE DEF S, m
  <2>4. Least(S) = m
    BY <2>3, LeastIs
  <2> QED BY <2>4 DEF S, m
<1>15. ASSUME d.neg # NoCounts PROVE d.min < 0 /\ _key(d.min) = Greatest(DOMAIN d.neg)
  <2>1. d.min < 0 /\ d.min \in SKNegative
    BY <1>1, <1>2, <1>12, <1>15 DEF SKNegative
  <2>2. _key(d.min) \in DOMAIN d.neg /\ \A k \in DOMAIN d.neg : k <= _key(d.min)
    BY <1>1, <1>9, <2>1
  <2>3. Greatest(DOMAIN d.neg) = _key(d.min)
    <3> DEFINE S == DOMAIN d.neg
               m == _key(d.min)
    <3>1. S \in SUBSET Int /\ m \in S /\ \A w \in S : w <= m
      BY <1>5, <2>2
    <3> HIDE DEF S, m
    <3>2. Greatest(S) = m
      BY <3>1, LeastIs
    <3> QED BY <3>2 DEF S, m
  <2> QED BY <2>1, <2>3
<1>16. ASSUME d.neg # NoCounts, d.max < 0 PROVE _key(d.max) = Least(DOMAIN d.neg)
  <2>1. d.max \in SKNegative
    BY <1>1, <1>2, <1>16 DEF SKNegative
  <2>2. _key(d.max) \in DOMAIN d.neg /\ \A k \in DOMAIN d.neg : _key(d.max) <= k
    BY <1>1, <1>9, <2>1
  <2> DEFINE S == DOMAIN d.neg
             m == _key(d.max)
  <2>3. S \in SUBSET Int /\ m \in S /\ \A w \in S : m <= w
    BY <1>5, <2>2
  <2> HIDE DEF S, m
  <2>4. Least(S) = m
    BY <2>3, LeastIs
  <2> QED BY <2>4 DEF S, m
<1>17. d.zero > 0 => d.min <= 0 /\ d.max >= 0
  BY <1>1, <1>7
<1>18. (d.pos = NoCounts => d.max <= 0) /\ (d.neg = NoCounts => d.min >= 0)
  BY <1>1, <1>11, <1>12
<1>19. (d.max = 0 \/ d.min = 0) => d.zero > 0
  BY <1>1, <1>7
<1> QED BY <1>10, <1>13, <1>14, <1>15, <1>16, <1>17, <1>18, <1>19 DEF ValidExtrema

\* A dictionary within its limit.
LEMMA BinsValid ==
    ASSUME NEW b, IsCounter(b, SKKeys), \A k \in DOMAIN b : b[k] <= SKMaxInt
    PROVE  \A k \in DOMAIN b : b[k] \in 1 .. SKMaxInt
<1>1. SKMaxInt \in Nat
  BY SKAssumption
<1> QED BY <1>1 DEF IsCounter

\* The extremes an empty sketch is written with.
LEMMA ZeroExtrema ==
    ASSUME NEW d, d = [pos |-> d.pos, neg |-> d.neg, zero |-> d.zero, count |-> d.count, min |-> d.min, max |-> d.max]
    PROVE  LET e == [d EXCEPT !.min = 0, !.max = 0]
           IN  /\ e.pos = d.pos /\ e.neg = d.neg /\ e.zero = d.zero /\ e.count = d.count
               /\ e.min = 0 /\ e.max = 0
<1> DEFINE z == 0
           e == [d EXCEPT !.min = z, !.max = z]
<1> HIDE DEF z
<1>1. /\ e.pos = d.pos /\ e.neg = d.neg /\ e.zero = d.zero /\ e.count = d.count
      /\ e.min = z /\ e.max = z
  OBVIOUS
<1> QED BY <1>1 DEF z

\* The validator accepts the DDSketch of any values within the limits.
LEMMA SketchValid ==
    ASSUME NEW f, IsCounter(f, SKReal), NEW d, d = BatchSketch(f), DDLimits(d)
    PROVE  ValidDD(IF d.count > 0 THEN d ELSE [d EXCEPT !.min = 0, !.max = 0])
<1>1. SKMaxInt \in Nat /\ SKMaxUint \in Nat /\ SKMaxBins \in Nat /\ IsFiniteSet(SKReal)
  BY SKAssumption
<1>2. /\ d.count \in Nat /\ d.zero \in Nat /\ d.count = d.zero + Size(d.pos) + Size(d.neg)
      /\ d.count = 0 <=> f = NoCounts
  <2>1. d.zero \in Nat /\ (d.count = 0 <=> f = NoCounts)
    BY BatchFields
  <2>2. /\ Size(d.pos) = Among(f, SKPositive) /\ Size(d.neg) = Among(f, SKNegative) /\ d.zero = Among(f, {0})
        /\ d.count = Among(f, SKNegative) + Among(f, {0}) + Among(f, SKPositive)
        /\ Among(f, SKPositive) \in Nat /\ Among(f, SKNegative) \in Nat /\ Among(f, {0}) \in Nat /\ d.count \in Nat
    BY PartSums
  <2> QED BY <2>1, <2>2
<1>3. CASE d.count > 0
  <2>1. f # NoCounts
    BY <1>2, <1>3
  <2>2. ValidExtrema(d)
    BY <2>1, ExtremaValid
  <2>3. IsCounter(d.pos, SKKeys) /\ IsCounter(d.neg, SKKeys)
    BY BatchTyped
  <2>4. (\A k \in DOMAIN d.pos : d.pos[k] \in 1 .. SKMaxInt) /\ (\A k \in DOMAIN d.neg : d.neg[k] \in 1 .. SKMaxInt)
    <3>1. (\A k \in DOMAIN d.pos : d.pos[k] <= SKMaxInt) /\ (\A k \in DOMAIN d.neg : d.neg[k] <= SKMaxInt)
      BY DEF DDLimits
    <3> QED BY <2>3, <3>1, BinsValid
  <2>5. d.zero \in 0 .. SKMaxInt /\ d.count \in 0 .. SKMaxUint
    BY <1>1, <1>2 DEF DDLimits
  <2>6. Cardinality(DOMAIN d.pos) <= SKMaxBins /\ Cardinality(DOMAIN d.neg) <= SKMaxBins
    BY DEF DDLimits
  <2>7. ValidDD(d)
    BY <1>2, <1>3, <2>2, <2>4, <2>5, <2>6 DEF ValidDD
  <2> QED BY <1>3, <2>7
<1>4. CASE ~(d.count > 0)
  <2>1. d = EmptyDD
    BY <1>2, <1>4 DEF BatchSketch
  <2> DEFINE e == [d EXCEPT !.min = 0, !.max = 0]
  <2>2. d = [pos |-> d.pos, neg |-> d.neg, zero |-> d.zero, count |-> d.count, min |-> d.min, max |-> d.max]
    BY BatchFields
  <2>3. DOMAIN NoCounts = {} /\ Size(NoCounts) = 0
    BY <1>1, AmongEmpty
  <2>4. Cardinality({}) = 0
    BY FS_EmptySet
  <2>5. e.pos = NoCounts /\ e.neg = NoCounts /\ e.zero = 0 /\ e.count = 0 /\ e.min = 0 /\ e.max = 0
    <3>1. d.pos = NoCounts /\ d.neg = NoCounts /\ d.zero = 0 /\ d.count = 0
      BY <2>1 DEF EmptyDD
    <3>2. /\ e.pos = d.pos /\ e.neg = d.neg /\ e.zero = d.zero /\ e.count = d.count
          /\ e.min = 0 /\ e.max = 0
      BY <2>2, ZeroExtrema
    <3> HIDE DEF e
    <3> QED BY <3>1, <3>2
  <2> HIDE DEF e
  <2>6. ValidDD(e)
    BY <1>1, <2>3, <2>4, <2>5 DEF ValidDD
  <2> QED BY <1>4, <2>6 DEF e
<1> QED BY <1>3, <1>4

\* The table has finitely many columns.
LEMMA ColumnsFinite == IsFiniteSet(Columns)
<1> DEFINE S == Rows \X SKItem
           g == [p \in S |-> SKColumn[p[1]][p[2]]]
<1>1. IsFiniteSet(S)
  <2>1. IsFiniteSet(Rows) /\ IsFiniteSet(SKItem)
    BY SKAssumption DEF Rows
  <2> QED BY <2>1, FS_Product
<1>2. ASSUME NEW y \in Columns PROVE \E p \in S : y = g[p]
  <2>1. PICK r \in Rows, i \in SKItem : y = SKColumn[r][i]
    BY DEF Columns
  <2>2. <<r, i>> \in S /\ g[<<r, i>>] = y
    BY <2>1
  <2> QED BY <2>2
<1> HIDE DEF S, g
<1> QED BY <1>1, <1>2, ImageFinite

\* Each row counts all events.
LEMMA RowTotal ==
    ASSUME NEW ev, IsCounter(ev, SKItem), NEW r \in Rows
    PROVE  Size(TableOf(ev)[r]) = Size(ev)
<1> DEFINE m == TableOf(ev)[r]
           D == DOMAIN ev
           h == [i \in SKItem |-> SKColumn[r][i]]
           K == [c \in Columns |-> D \cap Sharing(r, c)]
<1>1. IsFiniteSet(SKItem) /\ IsFiniteSet(Columns) /\ D \in SUBSET SKItem
  BY SKAssumption, ColumnsFinite DEF IsCounter
<1>2. IsFiniteSet(D) /\ CountsOn(D, ev)
  <2>1. CountsOn(D, ev)
    BY DEF IsCounter, CountsOn
  <2> QED BY <1>1, <2>1, FS_Subset
<1>3. DOMAIN m = Columns /\ \A c \in Columns : m[c] = Among(ev, Sharing(r, c))
  BY DEF TableOf
<1>4. \A c \in Columns : \A x : x \in K[c] <=> x \in D /\ h[x] = c
  BY <1>1 DEF Sharing
<1>5. \A c \in Columns : m[c] = SumOver(K[c], ev)
  <2>1. \A c \in Columns : Among(ev, Sharing(r, c)) = SumOver(D \cap Sharing(r, c), ev)
    BY <1>1, AmongSum
  <2> QED BY <1>3, <2>1
<1>6. \A x : x \in D <=> x \in D /\ h[x] \in Columns
  BY <1>1 DEF Columns
<1> HIDE DEF m, h, K
<1>7. SumOver(Columns, m) = SumOver(D, ev) /\ CountsOn(Columns, m)
  BY <1>1, <1>2, <1>4, <1>5, <1>6, SumByClass
<1>8. SumOf(m, Columns) = SumOver(Columns, m) /\ SumOf(ev, D) = SumOver(D, ev)
  BY <1>1, <1>2, <1>7, SumOfUnits
<1> QED BY <1>3, <1>7, <1>8 DEF Size, m

\* Registers are within the highest rank.
LEMMA RegistersValid ==
    ASSUME NEW uniq \in SUBSET SKItem, NEW regs, RegsOK(regs, uniq), NEW i \in Registers
    PROVE  regs[i] \in 0 .. MaxRho
<1> DEFINE N == {SKRegister[x][2] : x \in SKItem}
           g == [x \in SKItem |-> SKRegister[x][2]]
<1>1. IsFiniteSet(SKItem) /\ \A x \in SKItem : SKRegister[x][2] \in Nat
  BY SKAssumption
<1>2. N \in SUBSET Int /\ N \in SUBSET Nat
  BY <1>1
<1>3. IsFiniteSet(N)
  <2>1. \A y \in N : \E x \in SKItem : y = g[x]
    OBVIOUS
  <2> HIDE DEF N, g
  <2> QED BY <1>1, <2>1, ImageFinite
<1>4. N # {}
  BY DEF Registers
<1>5. \E m \in N : \A y \in N : y <= m
  <2> HIDE DEF N
  <2>1. \A T \in SUBSET N : T # {} => \E m \in T : \A y \in T : y <= m
    BY <1>2, <1>3, Extremes
  <2> QED BY <1>4, <2>1
<1>6. MaxRho \in N /\ \A x \in SKItem : SKRegister[x][2] <= MaxRho
  <2> DEFINE Q(n) == \A x \in SKItem : SKRegister[x][2] <= n
  <2>1. \E n \in N : Q(n)
    BY <1>5
  <2>2. MaxRho = CHOOSE n \in N : Q(n)
    BY DEF MaxRho
  <2> HIDE DEF N, Q
  <2>3. MaxRho \in N /\ Q(MaxRho)
    BY <2>1, <2>2
  <2> QED BY <2>3 DEF Q
<1>7. regs[i] \in Nat
  BY DEF RegsOK
<1>8. MaxRho \in Nat
  BY <1>2, <1>6
<1>9. CASE regs[i] > 0
  <2>1. PICK x \in uniq : SKRegister[x] = <<i, regs[i]>>
    BY <1>9 DEF RegsOK
  <2>2. SKRegister[x][2] = regs[i]
    BY <2>1
  <2> QED BY <1>6, <1>7, <1>8, <2>2
<1> QED BY <1>7, <1>8, <1>9

\* The validator accepts every log.
LEMMA LogValid ==
    ASSUME NEW t, TruthOK(t), NEW log, LogOK(log, t)
    PROVE  Valid(to_dict(log))
<1> DEFINE dd == IF log.dd.count > 0 THEN log.dd ELSE [log.dd EXCEPT !.min = 0, !.max = 0]
           d == to_dict(log)
<1>1. IsCounter(t.lat, SKReal) /\ IsCounter(t.ev, SKItem) /\ t.uniq \in SUBSET SKItem
  BY DEF TruthOK
<1>2. /\ log = [conf |-> log.conf, dd |-> log.dd, table |-> log.table, events |-> log.events,
                regs |-> log.regs, total |-> log.total]
      /\ log.dd = BatchSketch(t.lat) /\ DDLimits(log.dd)
      /\ log.table = TableOf(t.ev) /\ log.events = Size(t.ev) /\ log.events <= SKMaxInt
      /\ log.total = log.dd.count + log.events /\ log.total <= SKMaxUint
      /\ RegsOK(log.regs, t.uniq)
  BY DEF LogOK
<1>3. log.events \in Nat /\ log.total \in Nat /\ SKMaxInt \in Nat /\ SKMaxUint \in Nat
  BY LogNumbers
<1>4. ValidDD(dd)
  BY <1>1, <1>2, SketchValid
<1>5. dd.count = log.dd.count
  <2>1. CASE log.dd.count > 0
    BY <2>1
  <2>2. CASE ~(log.dd.count > 0)
    <3> DEFINE s == log.dd
    <3>1. s = [pos |-> s.pos, neg |-> s.neg, zero |-> s.zero, count |-> s.count, min |-> s.min, max |-> s.max]
      BY <1>1, <1>2, BatchFields
    <3>2. dd = [s EXCEPT !.min = 0, !.max = 0]
      BY <2>2
    <3> HIDE DEF dd, s
    <3>3. dd.count = s.count
      BY <3>1, <3>2
    <3> QED BY <3>3 DEF s
  <2> QED BY <2>1, <2>2
<1>6. d = [log EXCEPT !.dd = dd]
  BY DEF to_dict
<1> HIDE DEF d, dd
<1>7. d = [conf |-> log.conf, dd |-> dd, table |-> log.table, events |-> log.events, regs |-> log.regs,
           total |-> log.total]
  BY <1>2, <1>6
<1>8. d.dd = dd /\ d.table = log.table /\ d.events = log.events /\ d.regs = log.regs /\ d.total = log.total
  BY <1>7
<1>9. \A i \in Registers : log.regs[i] \in 0 .. MaxRho
  BY <1>1, <1>2, RegistersValid
<1>10. ASSUME NEW r \in Rows
       PROVE  (\A c \in Columns : log.table[r][c] \in 0 .. SKMaxInt) /\ Size(log.table[r]) = log.events
  <2>1. Size(log.table[r]) = log.events
    BY <1>1, <1>2, RowTotal
  <2>2. \A c \in Columns : log.table[r][c] \in Nat /\ log.table[r][c] <= log.events
    BY <1>1, <1>2, CellCounts
  <2>3. ASSUME NEW n \in Nat, n <= log.events PROVE n \in 0 .. SKMaxInt
    BY <1>2, <1>3, <2>3
  <2> QED BY <2>1, <2>2, <2>3
<1>11. log.total \in 0 .. SKMaxUint /\ log.events \in 0 .. SKMaxInt
  BY <1>2, <1>3
<1>12. log.total = dd.count + log.events
  BY <1>2, <1>5
<1>13. Valid(d)
  BY <1>4, <1>8, <1>9, <1>10, <1>11, <1>12 DEF Valid
<1> QED BY <1>13 DEF d

\* A log can be written and loaded.
LEMMA LoadableHolds ==
    ASSUME SKInv
    PROVE  SKLoadable
<1> SUFFICES ASSUME NEW l \in SKLog PROVE Valid(to_dict(skLog[l])) /\ from_dict(to_dict(skLog[l])) = skLog[l]
  BY DEF SKLoadable
<1>1. TruthOK(skTrue[l]) /\ LogOK(skLog[l], skTrue[l])
  BY DEF SKInv
<1> QED BY <1>1, LogValid, RoundTrip

\* A log is the sketch of what it stands for.
LEMMA FaithfulHolds ==
    ASSUME SKInv
    PROVE  SKFaithful
<1> SUFFICES ASSUME NEW l \in SKLog
             PROVE  /\ skLog[l].dd = BatchSketch(skTrue[l].lat)
                    /\ \A r \in Rows, c \in Columns :
                         skLog[l].table[r][c] = Among(skTrue[l].ev, Sharing(r, c))
                    /\ \A i \in Registers : \A x \in skTrue[l].uniq :
                         SKRegister[x][1] = i => skLog[l].regs[i] >= SKRegister[x][2]
                    /\ \A i \in Registers : skLog[l].regs[i] > 0 =>
                         \E x \in skTrue[l].uniq : SKRegister[x] = <<i, skLog[l].regs[i]>>
                    /\ skLog[l].events = Size(skTrue[l].ev)
                    /\ skLog[l].total = Size(skTrue[l].lat) + Size(skTrue[l].ev)
  BY DEF SKFaithful, Sharing
<1> DEFINE log == skLog[l]
           t == skTrue[l]
<1>1. TruthOK(t) /\ LogOK(log, t)
  BY DEF SKInv
<1> HIDE DEF log, t
<1>2. log.dd = BatchSketch(t.lat) /\ log.events = Size(t.ev) /\ log.total = log.dd.count + log.events
  BY <1>1 DEF LogOK
<1>3. log.dd.count = Size(t.lat)
  BY <1>1, LogNumbers
<1>4. \A r \in Rows, c \in Columns : log.table[r][c] = Among(t.ev, Sharing(r, c))
  BY <1>1 DEF LogOK, TableOf
<1>5. RegsOK(log.regs, t.uniq) /\ t.uniq \in SUBSET SKItem
  BY <1>1 DEF LogOK, TruthOK
<1>6. ASSUME NEW i \in Registers, NEW x \in t.uniq, SKRegister[x][1] = i PROVE log.regs[i] >= SKRegister[x][2]
  <2>1. SKRegister[x][2] \in Nat /\ log.regs[i] \in Nat
    BY <1>5, RegisterOf DEF RegsOK
  <2> QED BY <1>5, <1>6, <2>1 DEF RegsOK
<1>7. \A i \in Registers : log.regs[i] > 0 => \E x \in t.uniq : SKRegister[x] = <<i, log.regs[i]>>
  BY <1>5 DEF RegsOK
<1> QED BY <1>2, <1>3, <1>4, <1>6, <1>7 DEF log, t

\* Two parts counted together.
LEMMA AmongBoth ==
    ASSUME NEW X, IsFiniteSet(X), NEW b, IsCounter(b, X), NEW Z, NEW W, Z \cap W = {}
    PROVE  Among(b, Z \cup W) = Among(b, Z) + Among(b, W) /\ Among(b, Z) \in Nat /\ Among(b, W) \in Nat
<1> DEFINE V == Z \cup W
<1>1. DOMAIN b \cap Z \in SUBSET V /\ V \ Z = W
  OBVIOUS
<1> HIDE DEF V
<1>2. Among(b, V) = Among(b, Z) + Among(b, V \ Z) /\ Among(b, Z) \in Nat /\ Among(b, V \ Z) \in Nat
  BY <1>1, AmongPart
<1> QED BY <1>1, <1>2 DEF V

\* Buckets together count their values.
LEMMA BucketsCount ==
    ASSUME NEW f, IsCounter(f, SKReal), NEW S \in SUBSET SKNonzero, NEW c, c = Keyed(f, S), NEW J,
           NEW T \in SUBSET S, \A w \in DOMAIN f \cap S : _key(w) \in J <=> w \in T
    PROVE  Among(c, J) = Among(f, T)
<1> DEFINE V == {w \in S : _key(w) \in J}
<1>1. Among(c, J) = Among(f, V)
  BY AmongKeyed
<1>2. DOMAIN f \cap V = DOMAIN f \cap T
  OBVIOUS
<1> HIDE DEF V
<1>3. Among(f, V) = Among(f, T)
  BY <1>2, AmongSame
<1> QED BY <1>1, <1>3

\* A count between two others.
LEMMA Bracket ==
    ASSUME NEW f, IsCounter(f, SKReal), NEW A, NEW G, NEW B,
           \A y \in DOMAIN f : y \in A => y \in G, \A y \in DOMAIN f : y \in G /\ y \notin A => y \in B
    PROVE  Among(f, A) <= Among(f, G) /\ Among(f, G) <= Among(f, A) + Among(f, B)
<1>1. IsFiniteSet(SKReal)
  BY SKAssumption
<1>2. DOMAIN f \cap A \in SUBSET G
  OBVIOUS
<1>3. /\ Among(f, A) <= Among(f, G) /\ Among(f, A) \in Nat /\ Among(f, G) \in Nat
      /\ Among(f, G) = Among(f, A) + Among(f, G \ A) /\ Among(f, G \ A) \in Nat
  BY <1>1, <1>2, AmongPart
<1> DEFINE V == G \ A
<1>4. DOMAIN f \cap V \in SUBSET B
  OBVIOUS
<1>5. Among(f, V) <= Among(f, B) /\ Among(f, V) \in Nat /\ Among(f, B) \in Nat
  <2> HIDE DEF V
  <2> QED BY <1>1, <1>4, AmongPart
<1> QED BY <1>3, <1>5

\* The estimate of an item never undercounts.
LEMMA EstimateUp ==
    ASSUME NEW t, TruthOK(t), NEW log, LogOK(log, t), NEW i \in SKItem
    PROVE  CMSEstimate(log, i) >= CountOf(t.ev, i)
<1> DEFINE n == CountOf(t.ev, i)
           E(r) == log.table[r][SKColumn[r][i]]
           N == {log.table[r][SKColumn[r][i]] : r \in Rows}
<1>1. IsCounter(t.ev, SKItem) /\ log.table = TableOf(t.ev) /\ IsFiniteSet(SKItem) /\ Rows # {}
  BY SKAssumption DEF TruthOK, LogOK, Rows
<1>2. n \in Nat
  BY <1>1 DEF CountOf, IsCounter
<1>3. ASSUME NEW r \in Rows PROVE E(r) \in Nat /\ E(r) >= n
  <2> DEFINE c == SKColumn[r][i]
             Z == Sharing(r, c)
  <2>1. c \in Columns /\ i \in Z
    BY DEF Columns, Sharing
  <2> HIDE DEF c
  <2>2. E(r) = Among(t.ev, Z) /\ E(r) \in Nat
    BY <1>1, <2>1, CellCounts DEF c
  <2> HIDE DEF Z, E
  <2>3. CASE i \in DOMAIN t.ev
    <3>1. Among(t.ev, Z) >= t.ev[i]
      BY <1>1, <2>1, <2>3, AmongMember
    <3> QED BY <2>2, <2>3, <3>1 DEF CountOf
  <2>4. CASE i \notin DOMAIN t.ev
    BY <2>2, <2>4 DEF CountOf
  <2> QED BY <2>2, <2>3, <2>4
<1>4. N \in SUBSET Nat /\ N # {} /\ \A m \in N : m >= n
  BY <1>1, <1>3
<1>5. \E m \in N : \A y \in N : m <= y
  <2> HIDE DEF N
  <2> QED BY <1>4, LeastNumber
<1>6. CMSEstimate(log, i) \in N
  <2> DEFINE Q(m) == \A r \in Rows : m <= log.table[r][SKColumn[r][i]]
  <2>1. \E m \in N : Q(m)
    BY <1>5
  <2>2. CMSEstimate(log, i) = CHOOSE m \in N : Q(m)
    BY DEF CMSEstimate
  <2> HIDE DEF Q, N
  <2> QED BY <2>1, <2>2
<1> QED BY <1>4, <1>6

\* Values with the sign and the index of x.
Above(x) == {y \in SKReal : y > x}
Alike(x) == {y \in SKReal : Bucket(y) = Bucket(x)}

\* count_greater_than counts a set that holds all above and only such and those alike.
LEMMA GreaterBetween ==
    ASSUME NEW f, IsCounter(f, SKReal), NEW d, d = BatchSketch(f), NEW x \in SKReal
    PROVE  \E G : /\ count_greater_than(d, x) = Among(f, G)
                  /\ \A y \in DOMAIN f : y \in Above(x) => y \in G
                  /\ \A y \in DOMAIN f : y \in G /\ y \notin Above(x) => y \in Alike(x)
<1> DEFINE got == count_greater_than(d, x)
           Q(G) == /\ got = Among(f, G)
                   /\ \A y \in DOMAIN f : y \in Above(x) => y \in G
                   /\ \A y \in DOMAIN f : y \in G /\ y \notin Above(x) => y \in Alike(x)
<1>1. IsFiniteSet(SKReal) /\ SKReal \in SUBSET Int /\ DOMAIN f \in SUBSET SKReal /\ x \in Int
  BY SKFacts DEF IsCounter
<1>2. /\ d.count \in Nat /\ (d.count = 0 <=> f = NoCounts) /\ d.pos = Keyed(f, SKPositive) /\ d.neg = Keyed(f, SKNegative)
  BY BatchFields
<1>3. /\ DOMAIN d.pos = {_key(v) : v \in DOMAIN f \cap SKPositive}
      /\ DOMAIN d.neg = {_key(v) : v \in DOMAIN f \cap SKNegative}
      /\ f # NoCounts => /\ d.min \in DOMAIN f /\ d.min \in Int /\ \A w \in DOMAIN f : d.min <= w
                         /\ d.max \in DOMAIN f /\ d.max \in Int /\ \A w \in DOMAIN f : w <= d.max
  BY BatchTyped
<1>4. /\ Size(d.pos) = Among(f, SKPositive) /\ d.zero = Among(f, {0}) /\ d.count = Among(f, SKReal)
  BY PartSums
<1>5. DOMAIN NoCounts = {}
  BY <1>1, AmongEmpty
<1>6. /\ \A v, w \in SKPositive : v <= w => _key(v) <= _key(w)
      /\ \A v, w \in SKNegative : v <= w => _key(w) <= _key(v)
  BY SKFacts
<1>7. /\ SKPositive \in SUBSET SKNonzero /\ SKNegative \in SUBSET SKNonzero
      /\ \A v \in SKNonzero : _key(v) \in Int
  BY SKFacts
<1>8. /\ \A y \in SKReal : y \in Above(x) <=> y > x
      /\ \A y \in SKReal : y \in SKPositive <=> y > 0
      /\ \A y \in SKReal : y \in SKNegative <=> y < 0
  BY DEF Above, SKPositive, SKNegative
<1>9. \A y \in SKReal : ((y > 0 /\ x > 0) \/ (y < 0 /\ x < 0)) /\ _key(y) = _key(x) => y \in Alike(x)
  BY <1>1 DEF Alike, Bucket
<1> HIDE DEF got
<1>10. CASE d.count = 0 \/ x >= d.max
  <2>1. got = 0
    BY <1>10 DEF got, count_greater_than
  <2>2. Among(f, {}) = 0
    BY <1>1, AmongNone
  <2>3. \A y \in DOMAIN f : y \notin Above(x)
    BY <1>1, <1>2, <1>3, <1>5, <1>8, <1>10
  <2>4. Q({})
    BY <2>1, <2>2, <2>3
  <2> QED BY <2>4 DEF got
<1>11. CASE ~(d.count = 0 \/ x >= d.max) /\ x < d.min
  <2>1. got = Among(f, SKReal)
    BY <1>4, <1>11 DEF got, count_greater_than
  <2>2. ASSUME NEW y \in DOMAIN f PROVE y \in Above(x)
    <3>1. y \in SKReal /\ y \in Int
      BY <1>1
    <3>2. d.min <= y /\ d.min \in Int
      BY <1>2, <1>3, <1>11
    <3>3. y > x
      BY <1>1, <1>11, <3>1, <3>2
    <3> QED BY <1>8, <3>1, <3>3
  <2>3. Q(SKReal)
    BY <1>1, <2>1, <2>2
  <2> QED BY <2>3 DEF got
<1>12. CASE ~(d.count = 0 \/ x >= d.max) /\ ~(x < d.min) /\ x < 0
  <2> DEFINE J == {i \in DOMAIN d.neg : i <= _key(x)}
             T == {w \in SKNegative : _key(w) <= _key(x)}
             U == T \cup {0}
             G == U \cup SKPositive
  <2>1. got = Among(d.neg, J) + Among(f, {0}) + Among(f, SKPositive)
    BY <1>4, <1>12 DEF got, count_greater_than
  <2>2. Among(d.neg, J) = Among(f, T)
    <3>1. \A w \in DOMAIN f \cap SKNegative : _key(w) \in J <=> w \in T
      BY <1>3
    <3>2. T \in SUBSET SKNegative
      OBVIOUS
    <3> HIDE DEF J, T
    <3> QED BY <1>2, <1>7, <3>1, <3>2, BucketsCount
  <2>3. T \cap {0} = {} /\ U \cap SKPositive = {}
    <3>1. \A w \in SKNegative : w < 0 /\ w \in Int
      BY <1>1 DEF SKNegative
    <3>2. \A w \in SKPositive : w > 0 /\ w \in Int
      BY <1>1 DEF SKPositive
    <3>3. \A w \in T : w < 0 /\ w \in Int
      BY <3>1
    <3>4. \A w \in U : (w < 0 \/ w = 0) /\ w \in Int
      BY <3>3
    <3> HIDE DEF T, U
    <3>5. U \cap SKPositive = {}
      BY <3>2, <3>4
    <3>6. T \cap {0} = {}
      BY <3>3
    <3> QED BY <3>5, <3>6
  <2>4. Among(f, U) = Among(f, T) + Among(f, {0})
    <3> DEFINE O == {0}
    <3>1. T \cap O = {}
      BY <2>3
    <3> HIDE DEF T, O
    <3>2. Among(f, T \cup O) = Among(f, T) + Among(f, O)
      BY <1>1, <3>1, AmongBoth
    <3> QED BY <3>2 DEF O
  <2>5. Among(f, G) = Among(f, U) + Among(f, SKPositive)
    <3> HIDE DEF U
    <3> QED BY <1>1, <2>3, AmongBoth
  <2>6. got = Among(f, G)
    BY <2>1, <2>2, <2>4, <2>5
  <2>7. x \in SKNegative
    BY <1>8, <1>12
  <2>8. ASSUME NEW y \in DOMAIN f, y > x PROVE y \in G
    <3>1. y \in Int /\ y \in SKReal
      BY <1>1
    <3>2. CASE y < 0
      BY <1>1, <1>6, <1>8, <2>7, <2>8, <3>1, <3>2
    <3>3. CASE y = 0
      BY <3>3
    <3>4. CASE y > 0
      BY <1>8, <3>1, <3>4
    <3> QED BY <3>1, <3>2, <3>3, <3>4
  <2>9. ASSUME NEW y \in DOMAIN f, y \in G, ~(y > x) PROVE y \in Alike(x)
    <3>1. y \in Int /\ y \in SKReal /\ y <= x /\ y < 0
      <4>1. y \in SKReal /\ y \in Int /\ x \in Int /\ x < 0 /\ ~(y > x)
        BY <1>1, <1>12, <2>9
      <4> QED BY <4>1
    <3>2. y \in SKNegative /\ y \notin SKPositive /\ y # 0
      BY <1>8, <3>1
    <3>3. _key(y) <= _key(x)
      BY <2>9, <3>2
    <3>4. _key(x) <= _key(y)
      BY <1>6, <2>7, <3>1, <3>2
    <3>5. _key(x) \in Int /\ _key(y) \in Int
      BY <1>7, <2>7, <3>2
    <3>6. _key(x) = _key(y)
      BY <3>3, <3>4, <3>5
    <3> QED BY <1>9, <1>12, <3>1, <3>6
  <2> HIDE DEF G
  <2>10. Q(G)
    BY <1>1, <1>8, <2>6, <2>8, <2>9
  <2> QED BY <2>10 DEF got
<1>13. CASE ~(d.count = 0 \/ x >= d.max) /\ ~(x < d.min) /\ x = 0
  <2>1. got = Among(f, SKPositive)
    BY <1>4, <1>13 DEF got, count_greater_than
  <2>2. \A y \in DOMAIN f : y \in Above(x) <=> y \in SKPositive
    BY <1>1, <1>8, <1>13
  <2>3. Q(SKPositive)
    BY <2>1, <2>2
  <2> QED BY <2>3 DEF got
<1>14. CASE ~(d.count = 0 \/ x >= d.max) /\ ~(x < d.min) /\ x > 0
  <2> DEFINE J == {i \in DOMAIN d.pos : i >= _key(x)}
             T == {w \in SKPositive : _key(w) >= _key(x)}
  <2>1. got = Among(d.pos, J)
    BY <1>1, <1>14 DEF got, count_greater_than
  <2>2. Among(d.pos, J) = Among(f, T)
    <3>1. \A w \in DOMAIN f \cap SKPositive : _key(w) \in J <=> w \in T
      BY <1>3
    <3>2. T \in SUBSET SKPositive
      OBVIOUS
    <3> HIDE DEF J, T
    <3> QED BY <1>2, <1>7, <3>1, <3>2, BucketsCount
  <2>3. x \in SKPositive /\ _key(x) \in Int
    BY <1>7, <1>8, <1>14
  <2>4. ASSUME NEW y \in DOMAIN f, y > x PROVE y \in T
    <3>1. y \in Int /\ y \in SKReal /\ y > 0 /\ x <= y
      <4>1. y \in SKReal /\ y \in Int /\ x \in Int /\ x > 0 /\ y > x
        BY <1>1, <1>14, <2>4
      <4> QED BY <4>1
    <3>2. y \in SKPositive /\ _key(y) \in Int
      BY <1>7, <1>8, <3>1
    <3>3. _key(x) <= _key(y)
      BY <1>6, <2>3, <3>1, <3>2
    <3> QED BY <2>3, <3>2, <3>3
  <2>5. ASSUME NEW y \in DOMAIN f, y \in T, ~(y > x) PROVE y \in Alike(x)
    <3>1. y \in Int /\ y \in SKReal /\ y <= x /\ y \in SKPositive /\ _key(y) >= _key(x)
      <4>1. y \in SKReal /\ y \in Int /\ x \in Int /\ ~(y > x)
        BY <1>1, <2>5
      <4>2. y <= x
        BY <4>1
      <4> QED BY <2>5, <4>1, <4>2
    <3>2. _key(y) <= _key(x) /\ _key(y) \in Int /\ y > 0
      BY <1>6, <1>7, <1>8, <2>3, <3>1
    <3>3. _key(y) = _key(x)
      BY <2>3, <3>1, <3>2
    <3>4. y \in SKReal /\ y > 0 /\ x > 0
      BY <1>14, <3>1, <3>2
    <3>5. x # 0 /\ y # 0 /\ ~(x < 0) /\ ~(y < 0)
      BY <1>1, <3>1, <3>4
    <3>6. Bucket(y) = Bucket(x)
      BY <3>3, <3>5 DEF Bucket
    <3> QED BY <3>4, <3>6 DEF Alike
  <2> HIDE DEF J, T
  <2>6. Q(T)
    BY <1>1, <1>8, <2>1, <2>2, <2>4, <2>5
  <2> QED BY <2>6 DEF got
<1> QED BY <1>1, <1>10, <1>11, <1>12, <1>13, <1>14

\* The upper bounds hold.
LEMMA UpperBoundsHold ==
    ASSUME SKInv
    PROVE  SKUpperBounds
<1> SUFFICES ASSUME NEW l \in SKLog
             PROVE  /\ \A i \in SKItem : CMSEstimate(skLog[l], i) >= CountOf(skTrue[l].ev, i)
                    /\ \A x \in SKReal :
                         /\ Among(skTrue[l].lat, Above(x)) <= count_greater_than(skLog[l].dd, x)
                         /\ count_greater_than(skLog[l].dd, x)
                              <= Among(skTrue[l].lat, Above(x)) + Among(skTrue[l].lat, Alike(x))
  BY DEF SKUpperBounds, Above, Alike
<1> DEFINE log == skLog[l]
           t == skTrue[l]
<1>1. TruthOK(t) /\ LogOK(log, t)
  BY DEF SKInv
<1> HIDE DEF log, t
<1>2. \A i \in SKItem : CMSEstimate(log, i) >= CountOf(t.ev, i)
  BY <1>1, EstimateUp
<1>3. ASSUME NEW x \in SKReal
      PROVE  /\ Among(t.lat, Above(x)) <= count_greater_than(log.dd, x)
             /\ count_greater_than(log.dd, x) <= Among(t.lat, Above(x)) + Among(t.lat, Alike(x))
  <2> DEFINE f == t.lat
             d == log.dd
  <2>1. IsCounter(f, SKReal) /\ d = BatchSketch(f)
    BY <1>1 DEF TruthOK, LogOK
  <2> HIDE DEF f, d
  <2>2. PICK G : /\ count_greater_than(d, x) = Among(f, G)
                 /\ \A y \in DOMAIN f : y \in Above(x) => y \in G
                 /\ \A y \in DOMAIN f : y \in G /\ y \notin Above(x) => y \in Alike(x)
    BY <2>1, GreaterBetween
  <2>3. Among(f, Above(x)) <= Among(f, G) /\ Among(f, G) <= Among(f, Above(x)) + Among(f, Alike(x))
    BY <2>1, <2>2, Bracket
  <2> QED BY <2>2, <2>3 DEF f, d
<1> QED BY <1>2, <1>3 DEF log, t

\* The values that quantile passes, up to a bucket.
PassedBelow(k) == {w \in SKNegative : _key(w) >= k}
PassedToZero == SKNegative \cup {0}
PassedAbove(k) == PassedToZero \cup {w \in SKPositive : _key(w) <= k}

\* quantile stops at the first bucket with which r values are passed.
LEMMA QuantileScan ==
    ASSUME NEW f, IsCounter(f, SKReal), NEW d, d = BatchSketch(f), NEW q \in Int \X Nat, 0 < q[1], q[1] < q[2],
           NEW r \in Nat, \A m \in Nat : q[2] * m >= q[1] * d.count <=> m >= r
    PROVE  LET N == {k \in DOMAIN d.neg : Among(f, PassedBelow(k)) >= r}
               P == {k \in DOMAIN d.pos : Among(f, PassedAbove(k)) >= r}
           IN  quantile(d, q) = IF N # {} THEN <<-1, Greatest(N)>>
                                ELSE IF Among(f, PassedToZero) >= r THEN <<0, 0>>
                                ELSE IF P # {} THEN <<1, Least(P)>> ELSE Bucket(d.max)
<1> DEFINE reached(n) == q[2] * n >= q[1] * d.count
           upToZero == Size(d.neg) + d.zero
           N == {k \in DOMAIN d.neg : Among(f, PassedBelow(k)) >= r}
           P == {k \in DOMAIN d.pos : Among(f, PassedAbove(k)) >= r}
           negative == {k \in DOMAIN d.neg : reached(Among(d.neg, {j \in DOMAIN d.neg : j >= k}))}
           positive == {k \in DOMAIN d.pos : reached(upToZero + Among(d.pos, {j \in DOMAIN d.pos : j <= k}))}
<1>1. quantile(d, q) = IF negative # {} THEN <<-1, Greatest(negative)>>
                       ELSE IF reached(upToZero) THEN <<0, 0>>
                       ELSE IF positive # {} THEN <<1, Least(positive)>> ELSE Bucket(d.max)
  <2>1. ~(q[1] <= 0) /\ ~(q[1] >= q[2])
    OBVIOUS
  <2> QED BY <2>1 DEF quantile
<1>2. \A m \in Nat : reached(m) <=> m >= r
  OBVIOUS
<1> HIDE DEF reached
<1>3. IsFiniteSet(SKReal) /\ SKReal \in SUBSET Int
  BY SKFacts
<1>4. /\ SKPositive \in SUBSET SKNonzero /\ SKNegative \in SUBSET SKNonzero
      /\ d.pos = Keyed(f, SKPositive) /\ d.neg = Keyed(f, SKNegative)
  BY SKFacts, BatchFields
<1>5. /\ DOMAIN d.pos = {_key(v) : v \in DOMAIN f \cap SKPositive}
      /\ DOMAIN d.neg = {_key(v) : v \in DOMAIN f \cap SKNegative}
  BY BatchTyped
<1>6. /\ \A w \in SKNegative : w < 0 /\ w \in Int
      /\ \A w \in SKPositive : w > 0 /\ w \in Int
  BY <1>3 DEF SKNegative, SKPositive
<1>7. upToZero = Among(f, PassedToZero) /\ upToZero \in Nat
  <2> DEFINE O == {0}
  <2>1. upToZero = Among(f, SKNegative) + Among(f, O)
    BY PartSums
  <2>2. SKNegative \cap O = {}
    BY <1>6
  <2> HIDE DEF O
  <2>3. Among(f, SKNegative \cup O) = Among(f, SKNegative) + Among(f, O) /\ Among(f, SKNegative) \in Nat /\ Among(f, O) \in Nat
    BY <1>3, <2>2, AmongBoth
  <2> QED BY <2>1, <2>3 DEF O, PassedToZero
<1> HIDE DEF upToZero
<1>8. ASSUME NEW k \in DOMAIN d.neg
      PROVE  reached(Among(d.neg, {j \in DOMAIN d.neg : j >= k})) <=> Among(f, PassedBelow(k)) >= r
  <2> DEFINE J == {j \in DOMAIN d.neg : j >= k}
             T == PassedBelow(k)
  <2>1. \A w \in DOMAIN f \cap SKNegative : _key(w) \in J <=> w \in T
    BY <1>5 DEF PassedBelow
  <2>2. T \in SUBSET SKNegative
    BY DEF PassedBelow
  <2> HIDE DEF J, T
  <2>3. Among(d.neg, J) = Among(f, T)
    BY <1>4, <2>1, <2>2, BucketsCount
  <2>4. Among(f, T) \in Nat
    BY <1>3, AmongSum
  <2>5. reached(Among(d.neg, J)) <=> Among(f, T) >= r
    BY <1>2, <2>3, <2>4
  <2> QED BY <2>5 DEF J, T
<1>9. ASSUME NEW k \in DOMAIN d.pos
      PROVE  reached(upToZero + Among(d.pos, {j \in DOMAIN d.pos : j <= k})) <=> Among(f, PassedAbove(k)) >= r
  <2> DEFINE J == {j \in DOMAIN d.pos : j <= k}
             T == {w \in SKPositive : _key(w) <= k}
  <2>1. \A w \in DOMAIN f \cap SKPositive : _key(w) \in J <=> w \in T
    BY <1>5
  <2>2. T \in SUBSET SKPositive /\ PassedAbove(k) = PassedToZero \cup T
    BY DEF PassedAbove
  <2> HIDE DEF J, T
  <2>3. Among(d.pos, J) = Among(f, T)
    BY <1>4, <2>1, <2>2, BucketsCount
  <2>4. PassedToZero \cap T = {}
    BY <1>6, <2>2 DEF PassedToZero
  <2>5. Among(f, PassedToZero \cup T) = Among(f, PassedToZero) + Among(f, T) /\ Among(f, T) \in Nat
    BY <1>3, <2>4, AmongBoth
  <2>6. upToZero + Among(d.pos, J) = Among(f, PassedAbove(k)) /\ upToZero + Among(d.pos, J) \in Nat
    BY <1>7, <2>2, <2>3, <2>5
  <2>7. reached(upToZero + Among(d.pos, J)) <=> Among(f, PassedAbove(k)) >= r
    BY <1>2, <2>6
  <2> QED BY <2>7 DEF J
<1>10. reached(upToZero) <=> Among(f, PassedToZero) >= r
  BY <1>2, <1>7
<1>11. negative = N /\ positive = P
  BY <1>8, <1>9
<1> HIDE DEF negative, positive, N, P
<1>12. quantile(d, q) = IF N # {} THEN <<-1, Greatest(N)>>
                        ELSE IF Among(f, PassedToZero) >= r THEN <<0, 0>>
                        ELSE IF P # {} THEN <<1, Least(P)>> ELSE Bucket(d.max)
  BY <1>1, <1>10, <1>11
<1> QED BY <1>12 DEF N, P

\* More of the values.
LEMMA MorePassed ==
    ASSUME NEW f, IsCounter(f, SKReal), NEW Z, NEW W, \A y \in DOMAIN f : y \in W => y \in Z
    PROVE  Among(f, W) <= Among(f, Z) /\ Among(f, W) \in Nat /\ Among(f, Z) \in Nat
<1>1. IsFiniteSet(SKReal) /\ DOMAIN f \cap W \in SUBSET Z
  BY SKAssumption
<1> QED BY <1>1, AmongPart

\* It stops at the bucket of the value of rank r.
LEMMA QuantileBucket ==
    ASSUME NEW f, IsCounter(f, SKReal), NEW d, d = BatchSketch(f), NEW q \in Int \X Nat, 0 < q[1], q[1] < q[2],
           NEW r \in Nat, \A m \in Nat : q[2] * m >= q[1] * d.count <=> m >= r,
           NEW v \in DOMAIN f, Among(f, LessThan(SKReal, v)) < r, r <= Among(f, AtMost(SKReal, v))
    PROVE  quantile(d, q) = Bucket(v)
<1> DEFINE N == {k \in DOMAIN d.neg : Among(f, PassedBelow(k)) >= r}
           P == {k \in DOMAIN d.pos : Among(f, PassedAbove(k)) >= r}
           L == LessThan(SKReal, v)
           M == AtMost(SKReal, v)
<1>1. quantile(d, q) = IF N # {} THEN <<-1, Greatest(N)>>
                       ELSE IF Among(f, PassedToZero) >= r THEN <<0, 0>>
                       ELSE IF P # {} THEN <<1, Least(P)>> ELSE Bucket(d.max)
  BY QuantileScan
<1>2. /\ SKReal \in SUBSET Int /\ DOMAIN f \in SUBSET SKReal /\ v \in SKReal /\ v \in Int
  BY SKFacts DEF IsCounter
<1>3. /\ DOMAIN d.pos = {_key(w) : w \in DOMAIN f \cap SKPositive}
      /\ DOMAIN d.neg = {_key(w) : w \in DOMAIN f \cap SKNegative}
  BY BatchTyped
<1>4. \A w \in SKReal : (w \in SKNegative <=> w < 0) /\ (w \in SKPositive <=> w > 0)
  BY DEF SKNegative, SKPositive
<1>5. \A w \in SKReal : (w \in L <=> w < v) /\ (w \in M <=> w <= v)
  BY DEF LessThan, AtMost
<1>6. /\ \A w, y \in SKPositive : w <= y => _key(w) <= _key(y)
      /\ \A w, y \in SKNegative : w <= y => _key(y) <= _key(w)
      /\ \A w \in SKPositive \cup SKNegative : _key(w) \in Int
  BY SKFacts
<1>7. Among(f, L) < r /\ r <= Among(f, M)
  OBVIOUS
<1> HIDE DEF L, M
<1>8. ASSUME NEW Z, \A y \in DOMAIN f : y \in Z => y < v PROVE ~(Among(f, Z) >= r)
  <2>1. \A y \in DOMAIN f : y \in Z => y \in L
    BY <1>2, <1>5, <1>8
  <2>2. Among(f, Z) <= Among(f, L) /\ Among(f, Z) \in Nat /\ Among(f, L) \in Nat
    BY <2>1, MorePassed
  <2> QED BY <1>7, <2>2
<1>9. ASSUME NEW Z, \A y \in DOMAIN f : y <= v => y \in Z PROVE Among(f, Z) >= r
  <2>1. \A y \in DOMAIN f : y \in M => y \in Z
    BY <1>2, <1>5, <1>9
  <2>2. Among(f, M) <= Among(f, Z) /\ Among(f, M) \in Nat /\ Among(f, Z) \in Nat
    BY <2>1, MorePassed
  <2> QED BY <1>7, <2>2
<1>10. \A k : \A y \in DOMAIN f : y \in PassedBelow(k) => y < 0
  BY <1>2, <1>4 DEF PassedBelow
<1>11. \A y \in DOMAIN f : y \in PassedToZero <=> y <= 0
  <2> SUFFICES ASSUME NEW y \in DOMAIN f PROVE y \in PassedToZero <=> y <= 0
    OBVIOUS
  <2>1. y \in SKReal /\ y \in Int
    BY <1>2
  <2> QED BY <1>4, <2>1 DEF PassedToZero
<1>12. \A k : \A y \in DOMAIN f : y \in PassedAbove(k) <=> y <= 0 \/ (y \in SKPositive /\ _key(y) <= k)
  BY <1>11 DEF PassedAbove
<1>13. CASE v < 0
  <2> DEFINE m == _key(v)
  <2>1. v \in SKNegative /\ m \in DOMAIN d.neg
    BY <1>2, <1>3, <1>4, <1>13
  <2>2. m \in N
    <3>1. ASSUME NEW y \in DOMAIN f, y <= v PROVE y \in PassedBelow(m)
      <4>1. y \in SKReal /\ y \in Int
        BY <1>2
      <4>2. y < 0
        BY <1>2, <1>13, <3>1, <4>1
      <4>3. y \in SKNegative /\ _key(v) <= _key(y) /\ _key(v) \in Int /\ _key(y) \in Int
        BY <1>4, <1>6, <2>1, <3>1, <4>1, <4>2
      <4> QED BY <4>3 DEF PassedBelow
    <3>2. Among(f, PassedBelow(m)) >= r
      <4> DEFINE Z == PassedBelow(m)
      <4>1. \A y \in DOMAIN f : y <= v => y \in Z
        BY <3>1
      <4> HIDE DEF Z
      <4>2. Among(f, Z) >= r
        BY <1>9, <4>1
      <4> QED BY <4>2 DEF Z
    <3> QED BY <2>1, <3>2
  <2>3. N \in SUBSET Int
    BY <1>3, <1>6
  <2>4. ASSUME NEW k \in N PROVE k <= m
    <3> SUFFICES ASSUME k > m PROVE FALSE
      BY <1>6, <2>1, <2>3
    <3>1. ASSUME NEW y \in DOMAIN f, y \in PassedBelow(k) PROVE y < v
      <4>1. y \in SKNegative /\ _key(y) >= k /\ y \in SKReal /\ y \in Int
        BY <1>2, <3>1 DEF PassedBelow
      <4>2. _key(y) \in Int /\ m \in Int /\ k \in Int
        BY <1>6, <2>1, <2>3, <4>1
      <4>3. ~(_key(y) <= m)
        BY <4>1, <4>2
      <4>4. ~(v <= y)
        BY <1>6, <2>1, <4>1, <4>3
      <4> QED BY <1>2, <4>1, <4>4
    <3> DEFINE Z == PassedBelow(k)
    <3>2. \A y \in DOMAIN f : y \in Z => y < v
      BY <3>1
    <3>3. Among(f, Z) >= r
      OBVIOUS
    <3> HIDE DEF Z
    <3>4. ~(Among(f, Z) >= r)
      BY <1>8, <3>2
    <3> QED BY <3>3, <3>4
  <2> HIDE DEF N, m
  <2>5. Greatest(N) = m
    BY <2>2, <2>3, <2>4, LeastIs
  <2>6. quantile(d, q) = <<-1, m>>
    BY <1>1, <2>2, <2>5
  <2>7. Bucket(v) = <<-1, m>>
    BY <1>2, <1>13 DEF Bucket, m
  <2> QED BY <2>6, <2>7
<1>14. ASSUME v >= 0 PROVE N = {}
  <2> SUFFICES ASSUME NEW k \in DOMAIN d.neg PROVE ~(Among(f, PassedBelow(k)) >= r)
    OBVIOUS
  <2> DEFINE Z == PassedBelow(k)
  <2>1. ASSUME NEW y \in DOMAIN f, y \in Z PROVE y < v
    <3>1. y \in Int /\ y < 0
      BY <1>2, <1>10, <2>1
    <3> QED BY <1>2, <1>14, <3>1
  <2> HIDE DEF Z
  <2>2. ~(Among(f, Z) >= r)
    BY <1>8, <2>1
  <2> QED BY <2>2 DEF Z
<1>15. CASE v = 0
  <2>1. \A y \in DOMAIN f : y <= v => y \in PassedToZero
    BY <1>11, <1>15
  <2>2. Among(f, PassedToZero) >= r
    BY <1>9, <2>1
  <2>3. quantile(d, q) = <<0, 0>>
    <3>1. N = {}
      BY <1>14, <1>15
    <3> HIDE DEF N, P
    <3> QED BY <1>1, <2>2, <3>1
  <2> QED BY <1>15, <2>3 DEF Bucket
<1>16. CASE v > 0
  <2> DEFINE m == _key(v)
  <2>1. v \in SKPositive /\ m \in DOMAIN d.pos /\ m \in Int
    BY <1>2, <1>3, <1>4, <1>6, <1>16
  <2>2. ~(Among(f, PassedToZero) >= r)
    <3>1. ASSUME NEW y \in DOMAIN f, y \in PassedToZero PROVE y < v
      <4>1. y \in Int /\ y <= 0
        BY <1>2, <1>11, <3>1
      <4> QED BY <1>2, <1>16, <4>1
    <3> QED BY <1>8, <3>1
  <2>3. m \in P
    <3> DEFINE Z == PassedAbove(m)
    <3>1. ASSUME NEW y \in DOMAIN f, y <= v PROVE y \in Z
      <4>1. y \in SKReal /\ y \in Int
        BY <1>2
      <4>2. CASE y <= 0
        BY <1>12, <4>2
      <4>3. CASE y > 0
        <5>1. y \in SKPositive
          BY <1>4, <4>1, <4>3
        <5>2. _key(y) <= m
          BY <1>6, <2>1, <3>1, <5>1
        <5> QED BY <1>12, <5>1, <5>2
      <4> QED BY <4>1, <4>2, <4>3
    <3> HIDE DEF Z
    <3>2. Among(f, Z) >= r
      BY <1>9, <3>1
    <3> QED BY <2>1, <3>2 DEF Z
  <2>4. P \in SUBSET Int
    BY <1>3, <1>6
  <2>5. ASSUME NEW k \in P PROVE m <= k
    <3> SUFFICES ASSUME k < m PROVE FALSE
      BY <2>1, <2>4
    <3> DEFINE Z == PassedAbove(k)
    <3>1. ASSUME NEW y \in DOMAIN f, y \in Z PROVE y < v
      <4>1. y \in SKReal /\ y \in Int
        BY <1>2
      <4>2. CASE y <= 0
        BY <1>2, <1>16, <4>1, <4>2
      <4>3. CASE y \in SKPositive /\ _key(y) <= k
        <5>1. _key(y) \in Int /\ k \in Int
          BY <1>6, <2>4, <4>3
        <5>2. ~(m <= _key(y))
          BY <2>1, <4>3, <5>1
        <5>3. ~(v <= y)
          BY <1>6, <2>1, <4>3, <5>2
        <5> QED BY <1>2, <4>1, <5>3
      <4> QED BY <1>12, <3>1, <4>2, <4>3
    <3>2. Among(f, Z) >= r
      OBVIOUS
    <3> HIDE DEF Z
    <3>3. ~(Among(f, Z) >= r)
      BY <1>8, <3>1
    <3> QED BY <3>2, <3>3
  <2>6. N = {}
    <3>1. v >= 0
      BY <1>2, <1>16
    <3> QED BY <1>14, <3>1
  <2> HIDE DEF N, P, m
  <2>7. Least(P) = m
    BY <2>3, <2>4, <2>5, LeastIs
  <2>8. quantile(d, q) = <<1, m>>
    BY <1>1, <2>2, <2>3, <2>6, <2>7
  <2>9. Bucket(v) = <<1, m>>
    BY <1>2, <1>16 DEF Bucket, m
  <2> QED BY <2>8, <2>9
<1> QED BY <1>2, <1>13, <1>15, <1>16

\* Every rank has its value.
LEMMA ValueOfRank ==
    ASSUME NEW f, IsCounter(f, SKReal), NEW r \in Nat, r >= 1, r <= Among(f, SKReal)
    PROVE  \E v \in DOMAIN f : /\ Among(f, LessThan(SKReal, v)) < r /\ r <= Among(f, AtMost(SKReal, v))
                               /\ Among(f, LessThan(SKReal, v)) \in Nat /\ Among(f, AtMost(SKReal, v)) \in Nat
<1> DEFINE g == OnAll(f, SKReal)
<1>1. IsFiniteSet(SKReal) /\ SKReal \in SUBSET Int
  BY SKFacts
<1>2. Among(f, SKReal) = SumOver(SKReal \cap SKReal, g) /\ CountsOn(SKReal, g)
  BY <1>1, AmongSum
<1>3. SKReal \cap SKReal = SKReal
  OBVIOUS
<1>4. \A v \in SKReal : g[v] > 0 => v \in DOMAIN f
  BY DEF OnAll, CountOf
<1>5. ASSUME NEW Z \in SUBSET SKReal PROVE Among(f, Z) = SumOver(Z, g)
  <2>1. Among(f, Z) = SumOver(SKReal \cap Z, g)
    BY <1>1, AmongSum
  <2>2. SKReal \cap Z = Z
    OBVIOUS
  <2> QED BY <2>1, <2>2
<1>6. \A v : LessThan(SKReal, v) \in SUBSET SKReal /\ AtMost(SKReal, v) \in SUBSET SKReal
  BY DEF LessThan, AtMost
<1> HIDE DEF g
<1>7. r <= SumOver(SKReal, g)
  BY <1>2, <1>3
<1>8. PICK v \in SKReal : /\ g[v] > 0 /\ g[v] \in Nat
                          /\ SumOver(LessThan(SKReal, v), g) < r /\ r <= SumOver(AtMost(SKReal, v), g)
                          /\ SumOver(LessThan(SKReal, v), g) \in Nat /\ SumOver(AtMost(SKReal, v), g) \in Nat
  BY <1>1, <1>2, <1>7, RankMember
<1> QED BY <1>4, <1>5, <1>6, <1>8

\* The number of values that a quantile asks to pass.
LEMMA RankAsked ==
    ASSUME NEW n \in Nat, n > 0, NEW a \in Int, NEW b \in Nat, 0 < a, a < b
    PROVE  \E r \in Nat : /\ r >= 1 /\ r <= n
                          /\ \A m \in Nat : b * m >= a * n <=> m >= r
<1> DEFINE x == a * n
           r == (x + b - 1) \div b
<1>1. x \in Nat /\ x > 0 /\ b \in Nat \ {0}
  OBVIOUS
<1>2. x <= b * n
  <2>1. b = a + (b - a) /\ b - a \in Nat /\ a \in Nat
    OBVIOUS
  <2> DEFINE c == b - a
  <2>2. b * n = (a * n) + (c * n) /\ c * n \in Nat
    BY <2>1
  <2> QED BY <1>1, <2>2
<1> HIDE DEF x
<1>3. /\ r \in Nat /\ x <= b * r
      /\ \A m \in Nat : x <= b * m => r <= m
  <2> DEFINE c == r
  <2>1. c = (x + b - 1) \div b
    OBVIOUS
  <2> HIDE DEF c, r
  <2>2. /\ c \in Nat /\ x <= b * c
        /\ \A m \in Nat : x <= b * m => c <= m
    BY <1>1, <2>1, Ceiling
  <2> QED BY <2>2 DEF c
<1> HIDE DEF r
<1>4. r >= 1
  <2>1. CASE r = 0
    <3>1. b * r = 0
      BY <1>1, <2>1
    <3> QED BY <1>1, <1>3, <3>1
  <2> QED BY <1>3, <2>1
<1>5. r <= n
  BY <1>2, <1>3
<1>6. ASSUME NEW m \in Nat, m >= r PROVE x <= b * m
  <2> DEFINE e == m - r
  <2>1. e \in Nat /\ m = r + e
    BY <1>3, <1>6
  <2> HIDE DEF e
  <2>2. b * m = (b * r) + (b * e) /\ b * e \in Nat /\ b * r \in Nat
    BY <1>1, <1>3, <2>1
  <2> HIDE DEF e
  <2> QED BY <1>1, <1>3, <2>2
<1>7. \A m \in Nat : b * m >= x <=> m >= r
  <2> SUFFICES ASSUME NEW m \in Nat PROVE b * m >= x <=> m >= r
    OBVIOUS
  <2>1. b * m \in Nat
    OBVIOUS
  <2> DEFINE p == b * m
  <2>2. x <= p <=> p >= x
    BY <1>1, <2>1
  <2>3. x <= p <=> r <= m
    BY <1>3, <1>6
  <2> QED BY <1>3, <2>2, <2>3
<1> QED BY <1>3, <1>4, <1>5, <1>7 DEF x

\* Fewer values are below a value than there are.
LEMMA FewerBelow ==
    ASSUME NEW f, IsCounter(f, SKReal), NEW m \in DOMAIN f
    PROVE  Among(f, LessThan(SKReal, m)) < Among(f, SKReal)
<1> DEFINE L == LessThan(SKReal, m)
           Z == SKReal \ L
<1>1. IsFiniteSet(SKReal) /\ SKReal \in SUBSET Int /\ m \in SKReal /\ m \in Int
  BY SKFacts DEF IsCounter
<1>2. m \in Z /\ DOMAIN f \cap L \in SUBSET SKReal
  BY <1>1 DEF LessThan
<1> HIDE DEF L
<1>3. Among(f, SKReal) = Among(f, L) + Among(f, Z) /\ Among(f, L) \in Nat /\ Among(f, Z) \in Nat
  <2>1. IsFiniteSet(SKReal) /\ DOMAIN f \cap L \in SUBSET SKReal
    BY <1>1, <1>2
  <2>2. /\ Among(f, L) <= Among(f, SKReal) /\ Among(f, L) \in Nat /\ Among(f, SKReal) \in Nat
        /\ Among(f, SKReal) = Among(f, L) + Among(f, SKReal \ L) /\ Among(f, SKReal \ L) \in Nat
    BY <2>1, AmongPart, ZenonT(30)
  <2> QED BY <2>2
<1> HIDE DEF Z
<1>4. Among(f, Z) > 0
  BY <1>1, <1>2, AmongMember
<1>5. Among(f, L) < Among(f, SKReal)
  BY <1>3, <1>4
<1> QED BY <1>5 DEF L

\* A quantile is the bucket of the value of its rank.
LEMMA QuantileOfRank ==
    ASSUME NEW f, IsCounter(f, SKReal), NEW d, d = BatchSketch(f), d.count > 0, NEW q \in SKQuantile
    PROVE  \E v \in DOMAIN f :
                /\ quantile(d, q) = Bucket(v)
                /\ q[2] * Among(f, LessThan(SKReal, v)) < q[1] * d.count \/ v = Least(DOMAIN f)
                /\ q[1] * d.count <= q[2] * Among(f, AtMost(SKReal, v))
<1> DEFINE n == d.count
           a == q[1]
           b == q[2]
           B(v) == Among(f, LessThan(SKReal, v))
           U(v) == Among(f, AtMost(SKReal, v))
<1>1. q \in Int \X Nat /\ a \in Int /\ b \in Nat /\ b > 0 /\ a <= b
  BY SKAssumption
<1>2. n \in Nat /\ n = Among(f, SKReal)
  BY PartSums
<1>3. /\ d.min \in DOMAIN f /\ d.min \in Int /\ d.min = Least(DOMAIN f)
      /\ d.max \in DOMAIN f /\ d.max \in Int /\ \A w \in DOMAIN f : w <= d.max
  <2>1. f # NoCounts
    <3>1. d.count = 0 <=> f = NoCounts
      BY BatchFields
    <3> QED BY <3>1
  <2>2. d.min = Least(DOMAIN f)
    BY <2>1, BatchFields
  <2> QED BY <2>1, <2>2, BatchTyped
<1>4. IsFiniteSet(SKReal) /\ SKReal \in SUBSET Int /\ DOMAIN f \in SUBSET SKReal
  BY SKFacts DEF IsCounter
<1>5. \A v : B(v) \in Nat /\ U(v) \in Nat
  BY <1>4, AmongSum
<1>6. CASE a <= 0
  <2>1. quantile(d, q) = Bucket(d.min)
    BY <1>6 DEF quantile
  <2>2. a * n <= 0
    BY <1>1, <1>2, <1>6
  <2>3. b * U(d.min) >= 0
    <3> DEFINE u == U(d.min)
    <3>1. u \in Nat
      BY <1>5
    <3> HIDE DEF u
    <3>2. b * u >= 0
      BY <1>1, <3>1
    <3> QED BY <3>2 DEF u
  <2>4. a * n <= b * U(d.min)
    <3> DEFINE x == a * n
               u == U(d.min)
               y == b * u
    <3>1. x \in Int /\ u \in Nat
      BY <1>1, <1>2, <1>5
    <3>2. y \in Int
      <4> HIDE DEF u
      <4> QED BY <1>1, <3>1
    <3>3. x <= 0 /\ y >= 0
      BY <2>2, <2>3
    <3> HIDE DEF x, y
    <3>4. x <= y
      BY <3>1, <3>2, <3>3
    <3> QED BY <3>4 DEF x, y, u
  <2> QED BY <1>3, <2>1, <2>4
<1>7. CASE a > 0 /\ a >= b
  <2>1. a = b /\ ~(a <= 0)
    BY <1>1, <1>7
  <2>2. quantile(d, q) = Bucket(d.max)
    BY <1>7, <2>1 DEF quantile
  <2>3. U(d.max) = n
    <3> DEFINE M == AtMost(SKReal, d.max)
    <3>1. DOMAIN f \cap M = DOMAIN f \cap SKReal
      BY <1>3, <1>4 DEF AtMost
    <3> HIDE DEF M
    <3>2. Among(f, M) = Among(f, SKReal)
      BY <3>1, AmongSame
    <3> QED BY <1>2, <3>2 DEF M
  <2>4. B(d.max) < n
    BY <1>2, <1>3, FewerBelow
  <2>5. b * B(d.max) < a * n
    <3> DEFINE x == B(d.max)
    <3>1. x \in Nat /\ x < n
      BY <1>5, <2>4
    <3> HIDE DEF x, n, a, b
    <3>2. b * x < b * n
      <4>1. n - x \in Nat /\ n - x >= 1
        BY <1>2, <3>1
      <4> DEFINE e == n - x
      <4>2. b * n = (b * x) + (b * e) /\ b * e >= b
        <5>1. n = x + e
          BY <1>2, <3>1
        <5>2. e \in Nat /\ e >= 1
          BY <4>1
        <5> HIDE DEF e
        <5>3. b * (x + e) = (b * x) + (b * e)
          BY <1>1, <3>1, <5>2
        <5>4. b * e >= b
          BY <1>1, <5>2
        <5> QED BY <5>1, <5>3, <5>4
      <4>3. b * x \in Nat /\ b * e \in Nat /\ b * n \in Nat
        BY <1>1, <1>2, <3>1, <4>1
      <4> QED BY <1>1, <4>2, <4>3
    <3> QED BY <2>1, <3>2 DEF x
  <2>6. a * n <= b * U(d.max)
    <3>1. b * U(d.max) = b * n
      BY <2>3
    <3>2. b * n \in Nat
      BY <1>1, <1>2
    <3>3. a * n = b * n
      BY <2>1
    <3> QED BY <3>1, <3>2, <3>3
  <2> QED BY <1>3, <2>2, <2>5, <2>6
<1>8. CASE 0 < a /\ a < b
  <2>1. PICK r \in Nat : r >= 1 /\ r <= n /\ \A m \in Nat : b * m >= a * n <=> m >= r
    <3> HIDE DEF n, a, b
    <3>1. n > 0
      BY DEF n
    <3> QED BY <1>1, <1>2, <1>8, <3>1, RankAsked
  <2>2. r <= Among(f, SKReal)
    BY <1>2, <2>1
  <2>3. PICK v \in DOMAIN f : B(v) < r /\ r <= U(v) /\ B(v) \in Nat /\ U(v) \in Nat
    BY <2>1, <2>2, ValueOfRank
  <2>4. quantile(d, q) = Bucket(v)
    BY <1>1, <1>8, <2>1, <2>3, QuantileBucket
  <2> DEFINE x == B(v)
             y == U(v)
  <2>5. ~(b * x >= a * n)
    <3>1. x \in Nat /\ ~(x >= r)
      BY <2>1, <2>3
    <3> HIDE DEF x, n, a, b
    <3> QED BY <2>1, <3>1
  <2>6. b * y >= a * n
    <3>1. y \in Nat /\ y >= r
      BY <2>1, <2>3
    <3> HIDE DEF y, n, a, b
    <3> QED BY <2>1, <3>1
  <2>7. b * x \in Int /\ a * n \in Int /\ b * y \in Int
    <3>1. x \in Nat /\ y \in Nat
      BY <2>3
    <3> HIDE DEF x, y, n, a, b
    <3> QED BY <1>1, <1>2, <3>1
  <2>8. b * x < a * n /\ a * n <= b * y
    <3> DEFINE i == b * x
               j == a * n
               k == b * y
    <3>1. i \in Int /\ j \in Int /\ k \in Int /\ ~(i >= j) /\ k >= j
      BY <2>5, <2>6, <2>7
    <3> HIDE DEF i, j, k
    <3>2. i < j /\ j <= k
      BY <3>1
    <3> QED BY <3>2 DEF i, j, k
  <2> QED BY <2>4, <2>8
<1> QED BY <1>1, <1>6, <1>7, <1>8

\* The quantiles of every log.
LEMMA QuantileRankHolds ==
    ASSUME SKInv
    PROVE  SKQuantileRank
<1> SUFFICES ASSUME NEW l \in SKLog, NEW q \in SKQuantile, Size(skTrue[l].lat) > 0
             PROVE  LET lat == skTrue[l].lat
                        n == Size(lat)
                    IN  \E v \in DOMAIN lat :
                          /\ quantile(skLog[l].dd, q) = Bucket(v)
                          /\ q[2] * Among(lat, LessThan(SKReal, v)) < q[1] * n \/ v = Least(DOMAIN lat)
                          /\ q[1] * n <= q[2] * Among(lat, AtMost(SKReal, v))
  BY DEF SKQuantileRank, LessThan, AtMost
<1> DEFINE f == skTrue[l].lat
           d == skLog[l].dd
<1>1. TruthOK(skTrue[l]) /\ LogOK(skLog[l], skTrue[l])
  BY DEF SKInv
<1>2. IsCounter(f, SKReal) /\ d = BatchSketch(f)
  BY <1>1 DEF TruthOK, LogOK
<1>3. d.count = Size(f)
  BY <1>1, LogNumbers
<1>4. d.count > 0
  BY <1>3
<1> HIDE DEF f, d
<1>5. \E v \in DOMAIN f :
        /\ quantile(d, q) = Bucket(v)
        /\ q[2] * Among(f, LessThan(SKReal, v)) < q[1] * d.count \/ v = Least(DOMAIN f)
        /\ q[1] * d.count <= q[2] * Among(f, AtMost(SKReal, v))
  BY <1>2, <1>4, QuantileOfRank
<1> QED BY <1>3, <1>5 DEF f, d

\* A StreamLog is the sketch of exactly what it accepted, through batches,
\* merges, refusals and reloads; it can be written and loaded; its quantiles
\* have the rank asked for, and its counts are upper bounds.
THEOREM StreamLogSafe == SKSpec => []SKSafe
<1>1. SKInv => SKSafe
  BY FaithfulHolds, LoadableHolds, QuantileRankHolds, UpperBoundsHold DEF SKSafe
<1> QED BY <1>1, SKInvariant, PTL
=============================================================================
