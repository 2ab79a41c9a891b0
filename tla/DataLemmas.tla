------------------------------ MODULE DataLemmas ------------------------------
(***************************************************************************)
(* Facts about data that the proofs of several components rest on: the     *)
(* least element of a set of numbers, which stands in for induction, and   *)
(* sums over finite sets of them.                                          *)
(***************************************************************************)
EXTENDS FiniteSetsExt, FiniteSetTheorems, WellFoundedInduction, TLAPS

\* A nonempty set of naturals has a least element.
LEMMA LeastNatural ==
    ASSUME NEW T, T \subseteq Nat, T # {}
    PROVE  \E n \in T : \A m \in T : n <= m
<1> DEFINE R == OpToRel(<, Nat)
<1>1. IsWellFoundedOn(R, Nat)
    BY NatLessThanWellFounded
<1>2. PICK x \in T : \A y \in T : <<y, x>> \notin R
    <2> HIDE DEF R
    <2> QED BY <1>1, WFMin
<1>3. \A y \in T : ~ (y < x)
    BY <1>2 DEF OpToRel
<1> QED BY <1>3

(***************************************************************************)
(* Sums.  A function on the subsets of S that grows by v[x] with every     *)
(* element x is what a sum over S computes, in whatever order.             *)
(***************************************************************************)
Adds(G, v, S) ==
    /\ G \in [SUBSET S -> Int]
    /\ G[{}] = 0
    /\ \A s \in SUBSET S : \A x \in s : G[s] = v[x] + G[s \ {x}]

\* The equation that defines the sum, its element chosen by CHOOSE.
SumEquation(g, v, S) ==
    g = [s \in SUBSET S |-> IF s = {} THEN 0
                                      ELSE v[CHOOSE x \in s : TRUE] + g[s \ {CHOOSE x \in s : TRUE}]]

\* For numbered values there is such a function.
LEMMA SumsExist ==
    ASSUME NEW n \in Nat, NEW v, \A i \in 1..n : v[i] \in Int
    PROVE  \E G : Adds(G, v, 1..n)
<1> DEFINE Bad == {m \in 0..n : ~ \E G : Adds(G, v, 1..m)}
<1>1. SUFFICES Bad = {}
    OBVIOUS
<1>2. SUFFICES ASSUME Bad # {} PROVE FALSE
    OBVIOUS
<1>3. PICK m \in Bad : \A k \in Bad : m <= k
    <2> Bad \subseteq Nat
        OBVIOUS
    <2> QED BY <1>2, LeastNatural
<1>4. CASE m = 0
    <2> DEFINE Z == [s \in SUBSET {} |-> 0]
    <2>1. Adds(Z, v, {})
        BY DEF Adds
    <2>2. 1..m = {}
        BY <1>4
    <2> QED BY <1>3, <2>1, <2>2
<1>5. CASE m # 0
    <2>1. m - 1 \in 0..n /\ m - 1 \notin Bad /\ m \in 1..n /\ 1..m = (1..(m - 1)) \cup {m}
          /\ m \notin 1..(m - 1)
        BY <1>3, <1>5
    <2>2. PICK G : Adds(G, v, 1..(m - 1))
        BY <2>1
    <2> DEFINE old == 1..(m - 1)
               H   == [s \in SUBSET (old \cup {m}) |->
                         IF m \in s THEN v[m] + G[s \ {m}] ELSE G[s]]
    <2>3. \A s \in SUBSET (old \cup {m}) : s \ {m} \in SUBSET old /\ (m \notin s => s \in SUBSET old)
        OBVIOUS
    <2>4. v[m] \in Int /\ m \notin old
        BY <2>1
    <2> HIDE DEF old
    <2>5. H \in [SUBSET (old \cup {m}) -> Int]
        BY <2>2, <2>3, <2>4 DEF Adds, old
    <2>6. H[{}] = 0
        BY <2>2 DEF Adds, old
    <2>7. ASSUME NEW s \in SUBSET (old \cup {m}), NEW x \in s PROVE H[s] = v[x] + H[s \ {x}]
        <3>1. CASE x = m
            BY <3>1, <2>3
        <3>2. CASE x # m /\ m \notin s
            <4>1. G[s] = v[x] + G[s \ {x}]
                BY <3>2, <2>2, <2>3 DEF Adds, old
            <4> QED BY <4>1, <3>2, <2>3
        <3>3. CASE x # m /\ m \in s
            <4> DEFINE t == s \ {m}
            <4>1. t \in SUBSET old /\ x \in t /\ t \ {x} \in SUBSET old
                BY <3>3, <2>3
            <4>2. G[t] = v[x] + G[t \ {x}] /\ G[t \ {x}] \in Int
                BY <4>1, <2>2 DEF Adds, old
            <4>3. (s \ {x}) \ {m} = t \ {x} /\ m \in s \ {x}
                BY <3>3
            <4>4. H[s] = v[m] + G[t] /\ H[s \ {x}] = v[m] + G[t \ {x}]
                BY <4>3, <3>3
            <4>5. x \in 1..n
                BY <4>1, <2>1 DEF old
            <4> HIDE DEF t, H
            <4> QED BY <4>2, <4>4, <4>5, <2>4
        <3> QED BY <3>1, <3>2, <3>3
    <2>8. Adds(H, v, old \cup {m})
        BY <2>5, <2>6, <2>7 DEF Adds
    <2> QED BY <2>8, <2>1, <1>3 DEF old
<1> QED BY <1>4, <1>5

\* The defining equation has the adding function as a solution, and no other.
LEMMA SumIsUnique ==
    ASSUME NEW S, IsFiniteSet(S), NEW v, NEW G, Adds(G, v, S), NEW g
    PROVE  SumEquation(g, v, S) <=> g = G
<1> DEFINE c(s) == CHOOSE x \in s : TRUE
<1>1. \A s \in SUBSET S : s # {} => c(s) \in s
    OBVIOUS
<1>2. \A s \in SUBSET S : G[s] = IF s = {} THEN 0 ELSE v[c(s)] + G[s \ {c(s)}]
    BY <1>1 DEF Adds
<1>3. SumEquation(G, v, S)
    BY <1>2 DEF SumEquation, Adds
<1>4. ASSUME SumEquation(g, v, S), g # G PROVE FALSE
    <2>1. /\ DOMAIN g = SUBSET S
          /\ g = [s \in SUBSET S |-> g[s]]
          /\ \A s \in SUBSET S : g[s] = IF s = {} THEN 0 ELSE v[c(s)] + g[s \ {c(s)}]
        BY <1>4 DEF SumEquation
    <2>2. G = [s \in SUBSET S |-> G[s]]
        BY DEF Adds
    <2>3. PICK s0 \in SUBSET S : g[s0] # G[s0]
        BY <2>1, <2>2, <1>4
    <2> DEFINE Sizes == {k \in Nat : \E s \in SUBSET S : g[s] # G[s] /\ Cardinality(s) = k}
    <2>4. \A s \in SUBSET S : IsFiniteSet(s) /\ Cardinality(s) \in Nat
        BY FS_Subset, FS_CardinalityType
    <2>5. PICK k \in Sizes : \A j \in Sizes : k <= j
        <3> Sizes \subseteq Nat /\ Sizes # {}
            BY <2>3, <2>4
        <3> HIDE DEF Sizes
        <3> QED BY LeastNatural
    <2>6. PICK s \in SUBSET S : g[s] # G[s] /\ Cardinality(s) = k
        BY <2>5
    <2>7. s # {}
        BY <2>6, <2>1, <1>2
    <2> DEFINE r == s \ {c(s)}
    <2>8. c(s) \in s /\ r \in SUBSET S
        BY <2>7, <1>1
    <2>9. Cardinality(r) = k - 1
        BY <2>8, <2>6, <2>4, FS_RemoveElement
    <2>10. g[r] = G[r]
        BY <2>9, <2>8, <2>5, <2>4
    <2> HIDE DEF c
    <2> QED BY <2>1, <1>2, <2>6, <2>7, <2>8, <2>10
<1> QED BY <1>3, <1>4

(***************************************************************************)
(* Totals over sets of numbers up to n, which need not be all of them.     *)
(***************************************************************************)
Total(v, S) == (CHOOSE g : SumEquation(g, v, S))[S]

LEMMA TotalIs ==
    ASSUME NEW S, IsFiniteSet(S), NEW v, NEW G, Adds(G, v, S) PROVE Total(v, S) = G[S]
<1>1. \A g : SumEquation(g, v, S) <=> g = G
    BY SumIsUnique
<1> QED BY <1>1 DEF Total

\* One adding function gives the totals of all the subsets.
LEMMA TotalOfPart ==
    ASSUME NEW S, IsFiniteSet(S), NEW v, NEW G, Adds(G, v, S), NEW B \in SUBSET S
    PROVE  Total(v, B) = G[B]
<1> DEFINE F == [s \in SUBSET B |-> G[s]]
<1>1. Adds(F, v, B)
    <2>1. F \in [SUBSET B -> Int] /\ F[{}] = 0
        BY DEF Adds
    <2>2. ASSUME NEW s \in SUBSET B, NEW x \in s PROVE F[s] = v[x] + F[s \ {x}]
        BY DEF Adds
    <2> HIDE DEF F
    <2> QED BY <2>1, <2>2 DEF Adds
<1>2. F[B] = G[B]
    OBVIOUS
<1> HIDE DEF F
<1> QED BY <1>1, <1>2, TotalIs, FS_Subset

LEMMA PartsFinite ==
    ASSUME NEW n \in Nat
    PROVE  IsFiniteSet(1..n) /\ \A B \in SUBSET (1..n) : IsFiniteSet(B) /\ Cardinality(B) \in Nat
<1>1. IsFiniteSet(1..n)
    BY FS_Interval
<1> DEFINE all == 1..n
<1> HIDE DEF all
<1>2. IsFiniteSet(all) => \A B \in SUBSET all : IsFiniteSet(B) /\ Cardinality(B) \in Nat
    BY FS_Subset, FS_CardinalityType
<1> QED BY <1>1, <1>2 DEF all

\* The adding function of the numbers up to n.
LEMMA PartsTotal ==
    ASSUME NEW n \in Nat, NEW v, NEW G, Adds(G, v, 1..n)
    PROVE  \A B \in SUBSET (1..n) : Total(v, B) = G[B] /\ G[B] \in Int
<1> DEFINE all == 1..n
<1>1. IsFiniteSet(all) /\ Adds(G, v, all)
    BY PartsFinite
<1> HIDE DEF all
<1>2. \A B \in SUBSET all : Total(v, B) = G[B]
    BY <1>1, TotalOfPart
<1>3. \A B \in SUBSET all : G[B] \in Int
    BY <1>1 DEF Adds
<1> QED BY <1>2, <1>3 DEF all

LEMMA TotalGrows ==
    ASSUME NEW n \in Nat, NEW v, \A i \in 1..n : v[i] \in Nat,
           NEW B \in SUBSET (1..n), NEW x \in (1..n) \ B
    PROVE  Total(v, B \cup {x}) = v[x] + Total(v, B) /\ Total(v, B) \in Int
<1>1. PICK G : Adds(G, v, 1..n)
    BY SumsExist
<1>2. B \cup {x} \in SUBSET (1..n) /\ (B \cup {x}) \ {x} = B
    OBVIOUS
<1>3. Total(v, B \cup {x}) = G[B \cup {x}] /\ Total(v, B) = G[B]
    BY <1>1, <1>2, PartsTotal
<1>4. G[B \cup {x}] = v[x] + G[B] /\ G[B] \in Int
    BY <1>1, <1>2 DEF Adds
<1> QED BY <1>3, <1>4

LEMMA TotalAgrees ==
    ASSUME NEW n \in Nat, NEW v, NEW w, NEW B \in SUBSET (1..n),
           \A i \in B : v[i] = w[i], \A i \in 1..n : v[i] \in Int
    PROVE  Total(v, B) = Total(w, B)
<1>1. PICK G : Adds(G, v, 1..n)
    BY SumsExist
<1> DEFINE F == [s \in SUBSET B |-> G[s]]
<1>2. F \in [SUBSET B -> Int] /\ F[{}] = 0
    BY <1>1 DEF Adds
<1>3. \A s \in SUBSET B : \A x \in s : F[s] = v[x] + F[s \ {x}] /\ v[x] = w[x]
    BY <1>1 DEF Adds
<1> HIDE DEF F
<1>4. Adds(F, v, B) /\ Adds(F, w, B)
    BY <1>2, <1>3 DEF Adds
<1>5. IsFiniteSet(B)
    BY PartsFinite
<1> QED BY <1>4, <1>5, TotalIs

\* More numbers, none negative, do not make a smaller total.
LEMMA TotalMonotone ==
    ASSUME NEW n \in Nat, NEW v, \A i \in 1..n : v[i] \in Nat,
           NEW C \in SUBSET (1..n), NEW B \in SUBSET C
    PROVE  Total(v, B) <= Total(v, C)
<1>1. PICK G : Adds(G, v, 1..n)
    BY SumsExist
<1>2. \A D \in SUBSET (1..n) : IsFiniteSet(D) /\ Cardinality(D) \in Nat
    BY PartsFinite
<1>3. \A D \in SUBSET (1..n) : Total(v, D) = G[D] /\ G[D] \in Int
    BY <1>1, PartsTotal
<1> DEFINE Less(D) == B \subseteq D /\ G[D] < G[B]
           Bad == {k \in Nat : \E D \in SUBSET (1..n) : Less(D) /\ Cardinality(D) = k}
<1>4. SUFFICES ASSUME Less(C) PROVE FALSE
    BY <1>3
<1>5. PICK k \in Bad : \A j \in Bad : k <= j
    <2> Bad \subseteq Nat /\ Bad # {}
        BY <1>2, <1>4
    <2> HIDE DEF Bad
    <2> QED BY LeastNatural
<1>6. PICK D \in SUBSET (1..n) : Less(D) /\ Cardinality(D) = k
    BY <1>5
<1>7. PICK x \in D : x \notin B
    <2>1. G[D] < G[B] /\ G[B] \in Int /\ B \subseteq D
        BY <1>3, <1>6
    <2>2. D # B
        BY <2>1
    <2> QED BY <2>1, <2>2
<1> DEFINE E == D \ {x}
<1>8. E \in SUBSET (1..n) /\ B \subseteq E /\ Cardinality(E) = k - 1
    BY <1>2, <1>6, <1>7, FS_RemoveElement
<1>9. G[D] = v[x] + G[E] /\ v[x] \in Nat
    BY <1>1, <1>6, <1>7 DEF Adds
<1>10. G[E] < G[B]
    BY <1>3, <1>6, <1>8, <1>9
<1>11. k - 1 \in Bad
    BY <1>2, <1>8, <1>10
<1> QED BY <1>5, <1>11

(***************************************************************************)
(* Extremes: what Max and Min choose.                                      *)
(***************************************************************************)
LEMMA MaxIs ==
    ASSUME NEW S \in SUBSET Int, NEW m \in S, \A x \in S : x <= m
    PROVE  Max(S) = m
<1>1. \A x \in S : (\A y \in S : x >= y) => x = m
    OBVIOUS
<1>2. m \in S /\ \A y \in S : m >= y
    OBVIOUS
<1> QED BY <1>1, <1>2 DEF Max

LEMMA MinIs ==
    ASSUME NEW S \in SUBSET Int, NEW m \in S, \A x \in S : m <= x
    PROVE  Min(S) = m
<1>1. \A x \in S : (\A y \in S : x <= y) => x = m
    OBVIOUS
<1>2. m \in S /\ \A y \in S : m <= y
    OBVIOUS
<1> QED BY <1>1, <1>2 DEF Min

LEMMA ExtremesOfTwo ==
    ASSUME NEW a \in Int, NEW b \in Int
    PROVE  /\ Max({a, b}) = IF a >= b THEN a ELSE b
           /\ Min({a, b}) = IF a <= b THEN a ELSE b
<1>1. CASE a >= b
    <2>1. Max({a, b}) = a
        BY <1>1, MaxIs
    <2>2. Min({a, b}) = b
        BY <1>1, MinIs
    <2> QED BY <1>1, <2>1, <2>2
<1>2. CASE a < b
    <2>1. Max({a, b}) = b
        BY <1>2, MaxIs
    <2>2. Min({a, b}) = a
        BY <1>2, MinIs
    <2> QED BY <1>2, <2>1, <2>2
<1> QED BY <1>1, <1>2

==============================================================================
