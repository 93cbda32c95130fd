---- MODULE NumberLemmas ----
(***************************************************************************)
(* Facts about numbers that several proofs need.                           *)
(*                                                                         *)
(* SumFunctionOnSet is the sum of the values of a function over a finite   *)
(* set, which the totals of the pallets are written with: electorates,     *)
(* allowances, settlements, issuance.  The operator adds the values in the *)
(* order in which CHOOSE picks the elements; that the order does not       *)
(* matter, and what follows from it, is proved here by looking at a        *)
(* smallest set for which it would.                                        *)
(*                                                                         *)
(* Quotients and remainders are what the clock and the scalar field are    *)
(* made of; inverses modulo a number, and primes, the seating of           *)
(* participants.                                                           *)
(***************************************************************************)
EXTENDS Integers, FiniteSets, Functions, FiniteSetTheorems, WellFoundedInduction, TLAPS

Pick(s) == CHOOSE x \in s : TRUE

\* g is the table of partial sums that the fold of the library computes.
Sums(f, S, g) ==
    g = [s \in SUBSET S |-> IF s = {} THEN 0 ELSE f[Pick(s)] + g[s \ {Pick(s)}]]

\* A finite set over which f is integer.
Summable(f, S) == IsFiniteSet(S) /\ \A x \in S : f[x] \in Int

\* The definition of the library, with names for its parts.
LEMMA SumIsChosen ==
    ASSUME NEW f, NEW S
    PROVE  SumFunctionOnSet(f, S) = (CHOOSE g : Sums(f, S, g))[S]
BY DEF SumFunctionOnSet, FoldFunctionOnSet, MapThenFoldSet, Pick, Sums

LEMMA PickIn ==
    ASSUME NEW s, s # {}
    PROVE  Pick(s) \in s
BY DEF Pick

\* A set of subsets of a finite set has a smallest member.
LEMMA SmallestSubset ==
    ASSUME NEW S, IsFiniteSet(S), NEW T, T \subseteq SUBSET S, T # {}
    PROVE  \E s \in T : \A t \in T : t \subseteq s => t = s
<1>1. IsWellFoundedOn(StrictSubsetOrdering(S), SUBSET S)
  BY FS_StrictSubsetOrderingWellFounded, FS_FiniteSubsetsOfFinite
<1>2. \E s \in T : \A t \in T : ~ (<<t, s>> \in StrictSubsetOrdering(S))
  BY <1>1, WFMin
<1>3. PICK s \in T : \A t \in T : ~ (<<t, s>> \in StrictSubsetOrdering(S))
  BY <1>2
<1>4. ASSUME NEW t \in T, t \subseteq s, t # s
      PROVE  <<t, s>> \in StrictSubsetOrdering(S)
  BY <1>4 DEF StrictSubsetOrdering
<1>5. \A t \in T : t \subseteq s => t = s
  BY <1>3, <1>4
<1> QED BY <1>5

\* A set of natural numbers has a least one.
LEMMA LeastNumber ==
    ASSUME NEW B, B \subseteq Nat, B # {}
    PROVE  \E n \in B : \A m \in B : n <= m
<1>1. PICK b \in B : TRUE
  OBVIOUS
<1> DEFINE S == 0 .. b
<1> DEFINE T == {s \in SUBSET S : \E k \in B : k <= b /\ s = 0 .. k}
<1>2. 0 .. b \in T
  BY <1>1
<1>3. IsFiniteSet(S)
  BY <1>1, FS_Interval
<1>4. PICK s \in T : \A t \in T : t \subseteq s => t = s
  <2>1. T \subseteq SUBSET S /\ T # {}
    BY <1>2
  <2> HIDE DEF S, T
  <2> QED BY <1>3, <2>1, SmallestSubset
<1>5. PICK n \in B : n <= b /\ s = 0 .. n
  OBVIOUS
<1>6. ASSUME NEW m \in B, ~ (n <= m)
      PROVE  FALSE
  <2>1. m \in Nat /\ n \in Nat /\ m < n /\ m <= b
    BY <1>1, <1>5, <1>6
  <2>2. 0 .. m \in T /\ 0 .. m \subseteq s
    BY <1>1, <1>5, <2>1
  <2>3. 0 .. m = 0 .. n
    BY <2>2, <1>4, <1>5
  <2>4. n \in 0 .. n
    BY <2>1
  <2>5. n \in 0 .. m
    BY <2>3, <2>4
  <2> QED BY <2>1, <2>5
<1> QED BY <1>6

\* Two tables agree where both have an entry.
LEMMA SumsAgree ==
    ASSUME NEW f, NEW A, NEW B, NEW g, NEW h, IsFiniteSet(A), Sums(f, A, g), Sums(f, B, h),
           NEW u, u \subseteq A, u \subseteq B
    PROVE  g[u] = h[u]
<1> DEFINE Bad == {t \in SUBSET A : t \subseteq B /\ g[t] # h[t]}
<1> SUFFICES ASSUME Bad # {} PROVE FALSE
  OBVIOUS
<1>1. PICK s \in Bad : \A t \in Bad : t \subseteq s => t = s
  <2>1. Bad \subseteq SUBSET A
    OBVIOUS
  <2> HIDE DEF Bad
  <2> QED BY <2>1, SmallestSubset
<1>2. s \subseteq A /\ s \subseteq B /\ g[s] # h[s]
  OBVIOUS
<1>3. g[s] = IF s = {} THEN 0 ELSE f[Pick(s)] + g[s \ {Pick(s)}]
  BY <1>2 DEF Sums
<1>4. h[s] = IF s = {} THEN 0 ELSE f[Pick(s)] + h[s \ {Pick(s)}]
  BY <1>2 DEF Sums
<1>5. s # {}
  BY <1>2, <1>3, <1>4
<1>6. g[s \ {Pick(s)}] = h[s \ {Pick(s)}]
  <2>1. Pick(s) \in s
    BY <1>5, PickIn
  <2>2. s \ {Pick(s)} \notin Bad
    BY <2>1, <1>1
  <2> QED BY <2>2, <1>2
<1> QED BY <1>2, <1>3, <1>4, <1>5, <1>6

\* Every summable set has a table, of integers.
LEMMA SumsExist ==
    ASSUME NEW f, NEW S, Summable(f, S)
    PROVE  \E g \in [SUBSET S -> Int] : Sums(f, S, g)
<1> DEFINE Has(s) == \E g \in [SUBSET s -> Int] : Sums(f, s, g)
<1> DEFINE Bad == {s \in SUBSET S : ~ Has(s)}
<1> SUFFICES ASSUME Bad # {} PROVE FALSE
  OBVIOUS
<1>1. PICK s \in Bad : \A t \in Bad : t \subseteq s => t = s
  <2>1. Bad \subseteq SUBSET S /\ IsFiniteSet(S)
    BY DEF Summable
  <2> HIDE DEF Bad
  <2> QED BY <2>1, SmallestSubset
<1>2. s \in SUBSET S /\ ~ Has(s)
  OBVIOUS
<1> DEFINE Below == (SUBSET s) \ {s}
<1> DEFINE Table(t) == CHOOSE g \in [SUBSET t -> Int] : Sums(f, t, g)
<1>3. ASSUME NEW t \in Below
      PROVE  Table(t) \in [SUBSET t -> Int] /\ Sums(f, t, Table(t))
  <2>1. Has(t)
    BY <1>1, <1>2, <1>3
  <2> QED BY <2>1
<1>4. \A t \in SUBSET s : IsFiniteSet(t) /\ (t # {} => Pick(t) \in t /\ f[Pick(t)] \in Int)
  BY <1>2, FS_Subset, PickIn DEF Summable
<1> HIDE DEF Table
<1> DEFINE last == s \ {Pick(s)}
<1> DEFINE top == IF s = {} THEN 0 ELSE f[Pick(s)] + Table(last)[last]
<1> DEFINE new == [t \in SUBSET s |-> IF t = s THEN top ELSE Table(t)[t]]
<1>5. s # {} => last \in Below
  BY <1>4
<1>6. top \in Int
  <2>1. CASE s # {}
    <3>1. Table(last)[last] \in Int
      <4>1. Table(last) \in [SUBSET last -> Int]
        BY <2>1, <1>3, <1>5
      <4> HIDE DEF last
      <4> QED BY <4>1
    <3> QED BY <2>1, <3>1, <1>4
  <2> QED BY <2>1
<1>7. new \in [SUBSET s -> Int]
  BY <1>3, <1>6
<1>8. ASSUME NEW t \in SUBSET s
      PROVE  new[t] = IF t = {} THEN 0 ELSE f[Pick(t)] + new[t \ {Pick(t)}]
  <2>1. CASE t = s
    <3>1. CASE s = {}
      BY <2>1, <3>1
    <3>2. CASE s # {}
      <4>1. last # s /\ last \in SUBSET s
        BY <3>2, <1>5
      <4>2. new[last] = Table(last)[last] /\ new[s] = top
        BY <4>1
      <4> QED BY <2>1, <3>2, <4>2
    <3> QED BY <3>1, <3>2
  <2>2. CASE t # s /\ t = {}
    <3>1. new[t] = Table(t)[t] /\ t \in Below
      BY <2>2
    <3>2. Sums(f, t, Table(t))
      BY <1>3, <3>1
    <3> QED BY <2>2, <3>1, <3>2 DEF Sums
  <2>3. CASE t # s /\ t # {}
    <3> DEFINE r == t \ {Pick(t)}
    <3>1. Pick(t) \in t
      BY <2>3, <1>4
    <3>2. t \in Below /\ r \in Below /\ r # s
      BY <2>3, <3>1
    <3>3. new[t] = Table(t)[t] /\ new[r] = Table(r)[r]
      BY <2>3, <3>2
    <3>4. Sums(f, t, Table(t)) /\ Sums(f, r, Table(r))
      BY <1>3, <3>2
    <3>5. Table(t)[t] = f[Pick(t)] + Table(t)[r]
      BY <2>3, <3>4 DEF Sums
    <3>6. Table(t)[r] = Table(r)[r]
      <4>1. IsFiniteSet(t) /\ r \subseteq t /\ r \subseteq r
        BY <1>4
      <4> HIDE DEF r
      <4> QED BY <4>1, <3>4, SumsAgree
    <3> QED BY <2>3, <3>3, <3>5, <3>6
  <2> QED BY <2>1, <2>2, <2>3
<1> HIDE DEF new
<1>9. Sums(f, s, new)
  <2>1. new = [t \in SUBSET s |-> new[t]]
    BY <1>7
  <2> QED BY <2>1, <1>8 DEF Sums
<1> QED BY <1>2, <1>7, <1>9

\* The sum is the last entry of the table, and an integer.
LEMMA SumTable ==
    ASSUME NEW f, NEW S, Summable(f, S)
    PROVE  /\ SumFunctionOnSet(f, S) \in Int
           /\ \E g : Sums(f, S, g) /\ SumFunctionOnSet(f, S) = g[S]
<1> DEFINE h == CHOOSE g : Sums(f, S, g)
<1>1. PICK g \in [SUBSET S -> Int] : Sums(f, S, g)
  BY SumsExist
<1>2. Sums(f, S, h)
  BY <1>1
<1>3. SumFunctionOnSet(f, S) = h[S]
  BY SumIsChosen
<1> HIDE DEF h
<1>4. h[S] = g[S]
  BY <1>1, <1>2, SumsAgree DEF Summable
<1> QED BY <1>1, <1>2, <1>3, <1>4

-----------------------------------------------------------------------------
(* The facts that other modules use.                                        *)

\* A sum over a finite set is an integer, and nothing adds up to zero.
LEMMA SumType ==
    ASSUME NEW f, NEW S, Summable(f, S)
    PROVE  SumFunctionOnSet(f, S) \in Int
BY SumTable

LEMMA SumEmpty ==
    ASSUME NEW f
    PROVE  SumFunctionOnSet(f, {}) = 0
<1>1. Summable(f, {})
  BY FS_EmptySet DEF Summable
<1>2. PICK g : Sums(f, {}, g) /\ SumFunctionOnSet(f, {}) = g[{}]
  BY <1>1, SumTable
<1> QED BY <1>2 DEF Sums

\* The element that is picked first can be split off.
LEMMA SumPicked ==
    ASSUME NEW f, NEW S, Summable(f, S), S # {}
    PROVE  SumFunctionOnSet(f, S) = f[Pick(S)] + SumFunctionOnSet(f, S \ {Pick(S)})
<1> DEFINE R == S \ {Pick(S)}
<1>1. Pick(S) \in S /\ IsFiniteSet(S)
  BY PickIn DEF Summable
<1>2. Summable(f, R)
  BY <1>1, FS_Subset DEF Summable
<1>3. PICK g : Sums(f, S, g) /\ SumFunctionOnSet(f, S) = g[S]
  BY SumTable
<1> HIDE DEF R
<1>4. PICK h : Sums(f, R, h) /\ SumFunctionOnSet(f, R) = h[R]
  BY <1>2, SumTable
<1>5. g[S] = f[Pick(S)] + g[R]
  BY <1>3 DEF Sums, R
<1>6. g[R] = h[R]
  <2>1. R \subseteq S /\ R \subseteq R
    BY DEF R
  <2> QED BY <1>1, <1>3, <1>4, <2>1, SumsAgree
<1> QED BY <1>3, <1>4, <1>5, <1>6 DEF R

\* So can any other: the order does not matter.
LEMMA SumSplit ==
    ASSUME NEW f, NEW S, Summable(f, S), NEW x \in S
    PROVE  SumFunctionOnSet(f, S) = f[x] + SumFunctionOnSet(f, S \ {x})
<1> DEFINE Sum(s) == SumFunctionOnSet(f, s)
<1> DEFINE Bad == {s \in SUBSET S : \E y \in s : Sum(s) # f[y] + Sum(s \ {y})}
<1>0. \A s \in SUBSET S : Summable(f, s) /\ Sum(s) \in Int
  BY FS_Subset, SumType DEF Summable
<1> HIDE DEF Sum
<1> SUFFICES ASSUME Bad # {} PROVE FALSE
  BY DEF Sum
<1>1. PICK s \in Bad : \A t \in Bad : t \subseteq s => t = s
  <2>1. Bad \subseteq SUBSET S /\ IsFiniteSet(S)
    BY DEF Summable
  <2> HIDE DEF Bad
  <2> QED BY <2>1, SmallestSubset
<1>2. PICK y \in s : Sum(s) # f[y] + Sum(s \ {y})
  OBVIOUS
<1> DEFINE c == Pick(s)
<1>3. s \in SUBSET S /\ s # {}
  BY <1>2
<1>4. c \in s
  BY <1>3, PickIn
<1>5. Sum(s) = f[c] + Sum(s \ {c})
  BY <1>0, <1>3, SumPicked DEF Sum
<1>6. y # c
  BY <1>2, <1>5
<1> HIDE DEF c
<1>7. Sum(s \ {c}) = f[y] + Sum((s \ {c}) \ {y})
  <2>1. s \ {c} \notin Bad
    BY <1>1, <1>4
  <2> QED BY <2>1, <1>2, <1>3, <1>6
<1>8. Sum(s \ {y}) = f[c] + Sum((s \ {y}) \ {c})
  <2>1. s \ {y} \notin Bad
    BY <1>1, <1>2
  <2> QED BY <2>1, <1>3, <1>4, <1>6
<1>9. (s \ {c}) \ {y} = (s \ {y}) \ {c}
  OBVIOUS
<1>10. /\ f[c] \in Int /\ f[y] \in Int /\ Sum(s) \in Int
       /\ Sum((s \ {y}) \ {c}) \in Int /\ Sum(s \ {y}) \in Int
  BY <1>0, <1>2, <1>3, <1>4 DEF Summable
<1> QED BY <1>2, <1>5, <1>7, <1>8, <1>9, <1>10

\* Functions that agree on a set have the same sum over it.
LEMMA SumAgree ==
    ASSUME NEW f, NEW g, NEW S, Summable(f, S), \A x \in S : g[x] = f[x]
    PROVE  SumFunctionOnSet(g, S) = SumFunctionOnSet(f, S)
<1> DEFINE Bad == {s \in SUBSET S : SumFunctionOnSet(g, s) # SumFunctionOnSet(f, s)}
<1> SUFFICES ASSUME Bad # {} PROVE FALSE
  OBVIOUS
<1>1. PICK s \in Bad : \A t \in Bad : t \subseteq s => t = s
  <2>1. Bad \subseteq SUBSET S /\ IsFiniteSet(S)
    BY DEF Summable
  <2> HIDE DEF Bad
  <2> QED BY <2>1, SmallestSubset
<1>2. s \in SUBSET S /\ SumFunctionOnSet(g, s) # SumFunctionOnSet(f, s)
  OBVIOUS
<1>3. s # {}
  BY <1>2, SumEmpty
<1>4. PICK x \in s : TRUE
  BY <1>3
<1>5. Summable(f, s) /\ Summable(g, s)
  BY <1>2, FS_Subset DEF Summable
<1>6. /\ SumFunctionOnSet(f, s) = f[x] + SumFunctionOnSet(f, s \ {x})
      /\ SumFunctionOnSet(g, s) = g[x] + SumFunctionOnSet(g, s \ {x})
  BY <1>4, <1>5, SumSplit
<1>7. s \ {x} \notin Bad
  BY <1>1, <1>4
<1>8. SumFunctionOnSet(g, s \ {x}) = SumFunctionOnSet(f, s \ {x})
  BY <1>7, <1>2
<1> QED BY <1>2, <1>4, <1>6, <1>8

\* A sum of summands that are not larger is not larger.
LEMMA SumMonotone ==
    ASSUME NEW f, NEW g, NEW S, Summable(f, S), Summable(g, S), \A x \in S : f[x] <= g[x]
    PROVE  SumFunctionOnSet(f, S) <= SumFunctionOnSet(g, S)
<1> DEFINE F(s) == SumFunctionOnSet(f, s)
<1> DEFINE G(s) == SumFunctionOnSet(g, s)
<1> DEFINE Bad == {s \in SUBSET S : ~ (F(s) <= G(s))}
<1>0. \A s \in SUBSET S : Summable(f, s) /\ Summable(g, s) /\ F(s) \in Int /\ G(s) \in Int
  BY FS_Subset, SumType DEF Summable
<1>a. F({}) = 0 /\ G({}) = 0
  BY SumEmpty
<1>b. \A s \in SUBSET S : \A x \in s : F(s) = f[x] + F(s \ {x}) /\ G(s) = g[x] + G(s \ {x})
  <2> TAKE s \in SUBSET S
  <2> TAKE x \in s
  <2>1. Summable(f, s) /\ Summable(g, s)
    BY <1>0
  <2> QED BY <2>1, SumSplit
<1> HIDE DEF F, G
<1> SUFFICES ASSUME Bad # {} PROVE FALSE
  BY DEF F, G
<1>1. PICK s \in Bad : \A t \in Bad : t \subseteq s => t = s
  <2>1. Bad \subseteq SUBSET S /\ IsFiniteSet(S)
    BY DEF Summable
  <2> HIDE DEF Bad
  <2> QED BY <2>1, SmallestSubset
<1>2. s \in SUBSET S /\ ~ (F(s) <= G(s))
  OBVIOUS
<1>3. s # {}
  BY <1>2, <1>a
<1>4. PICK x \in s : TRUE
  BY <1>3
<1>5. s \ {x} \in SUBSET S /\ s \ {x} \notin Bad
  BY <1>1, <1>4
<1>6. F(s \ {x}) <= G(s \ {x})
  BY <1>5
<1>7. f[x] \in Int /\ g[x] \in Int /\ f[x] <= g[x]
  BY <1>2, <1>4 DEF Summable
<1>8. /\ F(s) = f[x] + F(s \ {x}) /\ G(s) = g[x] + G(s \ {x})
      /\ F(s \ {x}) \in Int /\ G(s \ {x}) \in Int
  BY <1>0, <1>b, <1>2, <1>4, <1>5
<1> QED BY <1>2, <1>6, <1>7, <1>8

\* Changing one summand changes the sum by as much.
LEMMA SumChange ==
    ASSUME NEW f, NEW g, NEW S, Summable(f, S), NEW x \in S, g[x] \in Int,
           \A y \in S : y # x => g[y] = f[y]
    PROVE  SumFunctionOnSet(g, S) = SumFunctionOnSet(f, S) - f[x] + g[x]
<1> DEFINE R == S \ {x}
<1>1. Summable(f, R) /\ Summable(g, S) /\ Summable(g, R)
  <2>1. IsFiniteSet(S) /\ IsFiniteSet(R)
    BY FS_Subset DEF Summable
  <2>2. \A y \in S : g[y] \in Int
    BY DEF Summable
  <2> QED BY <2>1, <2>2 DEF Summable
<1>2. /\ SumFunctionOnSet(f, S) = f[x] + SumFunctionOnSet(f, R)
      /\ SumFunctionOnSet(g, S) = g[x] + SumFunctionOnSet(g, R)
  BY <1>1, SumSplit
<1>3. SumFunctionOnSet(g, R) = SumFunctionOnSet(f, R)
  <2> HIDE DEF R
  <2>1. \A y \in R : g[y] = f[y]
    BY DEF R
  <2> QED BY <2>1, <1>1, SumAgree
<1>4. SumFunctionOnSet(f, R) \in Int /\ f[x] \in Int
  BY <1>1, SumType DEF Summable
<1> HIDE DEF R
<1> QED BY <1>2, <1>3, <1>4

\* A new summand is added.
LEMMA SumAdd ==
    ASSUME NEW f, NEW S, NEW x, x \notin S, Summable(f, S), f[x] \in Int
    PROVE  /\ Summable(f, S \cup {x})
           /\ SumFunctionOnSet(f, S \cup {x}) = f[x] + SumFunctionOnSet(f, S)
<1>1. Summable(f, S \cup {x})
  BY FS_AddElement DEF Summable
<1>2. (S \cup {x}) \ {x} = S
  OBVIOUS
<1> QED BY <1>1, <1>2, SumSplit

\* A sum of natural numbers is one, and at least as large as each of them.
LEMMA SumNatural ==
    ASSUME NEW f, NEW S, IsFiniteSet(S), \A x \in S : f[x] \in Nat
    PROVE  /\ SumFunctionOnSet(f, S) \in Nat
           /\ \A x \in S : f[x] <= SumFunctionOnSet(f, S)
<1> DEFINE Bad == {s \in SUBSET S : SumFunctionOnSet(f, s) \notin Nat}
<1>1. \A s \in SUBSET S : IsFiniteSet(s) /\ Summable(f, s)
  BY FS_Subset DEF Summable
<1>2. \A s \in SUBSET S : SumFunctionOnSet(f, s) \in Nat
  <2> SUFFICES ASSUME Bad # {} PROVE FALSE
    OBVIOUS
  <2>1. PICK s \in Bad : \A t \in Bad : t \subseteq s => t = s
    <3>1. Bad \subseteq SUBSET S
      OBVIOUS
    <3> HIDE DEF Bad
    <3> QED BY <3>1, SmallestSubset
  <2>2. s \in SUBSET S /\ SumFunctionOnSet(f, s) \notin Nat
    OBVIOUS
  <2>3. s # {}
    BY <2>2, SumEmpty
  <2>4. PICK x \in s : TRUE
    BY <2>3
  <2>5. SumFunctionOnSet(f, s) = f[x] + SumFunctionOnSet(f, s \ {x})
    BY <2>2, <2>4, <1>1, SumSplit
  <2>6. s \ {x} \notin Bad
    BY <2>1, <2>4
  <2>7. SumFunctionOnSet(f, s \ {x}) \in Nat /\ f[x] \in Nat
    BY <2>2, <2>4, <2>6
  <2> QED BY <2>2, <2>5, <2>7
<1>3. ASSUME NEW x \in S
      PROVE  f[x] <= SumFunctionOnSet(f, S)
  <2>1. SumFunctionOnSet(f, S) = f[x] + SumFunctionOnSet(f, S \ {x})
    BY <1>1, SumSplit
  <2>2. SumFunctionOnSet(f, S \ {x}) \in Nat
    BY <1>2
  <2> QED BY <2>1, <2>2
<1> QED BY <1>2, <1>3

\* Zeros may be left out.
LEMMA SumOfNonzero ==
    ASSUME NEW f, NEW S, Summable(f, S), NEW T, T \subseteq S, \A x \in S \ T : f[x] = 0
    PROVE  SumFunctionOnSet(f, T) = SumFunctionOnSet(f, S)
<1> DEFINE F(s) == SumFunctionOnSet(f, s)
<1> DEFINE Bad == {s \in SUBSET S : T \subseteq s /\ F(s) # F(T)}
<1>0. \A s \in SUBSET S : Summable(f, s) /\ F(s) \in Int
  BY FS_Subset, SumType DEF Summable
<1> HIDE DEF F
<1> SUFFICES ASSUME Bad # {} PROVE FALSE
  BY DEF F
<1>1. PICK s \in Bad : \A t \in Bad : t \subseteq s => t = s
  <2>1. Bad \subseteq SUBSET S /\ IsFiniteSet(S)
    BY DEF Summable
  <2> HIDE DEF Bad
  <2> QED BY <2>1, SmallestSubset
<1>2. s \in SUBSET S /\ T \subseteq s /\ F(s) # F(T)
  OBVIOUS
<1>3. PICK x \in s : x \notin T
  BY <1>2
<1>4. F(s) = f[x] + F(s \ {x})
  BY <1>0, <1>2, <1>3, SumSplit DEF F
<1>5. s \ {x} \notin Bad /\ s \ {x} \in SUBSET S /\ T \subseteq s \ {x}
  BY <1>1, <1>2, <1>3
<1>6. F(s \ {x}) = F(T) /\ f[x] = 0 /\ F(T) \in Int
  BY <1>0, <1>2, <1>3, <1>5
<1> QED BY <1>2, <1>4, <1>6

\* A set whose members have keys in K is not larger than the sum of bounds of
\* the sets of members with the same key.
LEMMA SumOfFibers ==
    ASSUME NEW P, NEW K, IsFiniteSet(K), NEW key \in [P -> K], NEW F,
           \A k \in K : /\ F[k] \in Nat
                        /\ IsFiniteSet({v \in P : key[v] = k})
                        /\ Cardinality({v \in P : key[v] = k}) <= F[k]
    PROVE  IsFiniteSet(P) /\ Cardinality(P) <= SumFunctionOnSet(F, K)
<1> DEFINE Part(s) == {v \in P : key[v] \in s}
<1> DEFINE Sum(s) == SumFunctionOnSet(F, s)
<1> DEFINE Fiber(k) == {v \in P : key[v] = k}
<1> DEFINE Bad == {s \in SUBSET K : ~ (IsFiniteSet(Part(s)) /\ Cardinality(Part(s)) <= Sum(s))}
<1>1. Part(K) = P
  OBVIOUS
<1>2. ASSUME NEW s \in SUBSET K
      PROVE  Summable(F, s) /\ Sum(s) \in Nat
  <2>1. IsFiniteSet(s) /\ \A k \in s : F[k] \in Nat
    BY FS_Subset
  <2> QED BY <2>1, SumNatural DEF Summable
<1> SUFFICES ASSUME Bad # {} PROVE FALSE
  BY <1>1
<1>3. PICK s \in Bad : \A t \in Bad : t \subseteq s => t = s
  <2>1. Bad \subseteq SUBSET K
    OBVIOUS
  <2> HIDE DEF Bad
  <2> QED BY <2>1, SmallestSubset
<1>4. s \in SUBSET K /\ ~ (IsFiniteSet(Part(s)) /\ Cardinality(Part(s)) <= Sum(s))
  OBVIOUS
<1>5. s # {}
  <2> SUFFICES ASSUME s = {} PROVE FALSE
    OBVIOUS
  <2>1. Part(s) = {} /\ Sum(s) = 0
    BY SumEmpty
  <2>2. IsFiniteSet({}) /\ Cardinality({}) = 0
    BY FS_EmptySet
  <2> QED BY <1>4, <2>1, <2>2
<1>6. PICK k \in s : TRUE
  BY <1>5
<1> DEFINE t == s \ {k}
<1>7. t \in SUBSET K /\ t \notin Bad
  BY <1>3, <1>4, <1>6
<1>8. IsFiniteSet(Part(t)) /\ Cardinality(Part(t)) <= Sum(t)
  BY <1>7
<1>9. Part(s) = Part(t) \cup Fiber(k)
  BY <1>6
<1>10. /\ IsFiniteSet(Fiber(k)) /\ Cardinality(Fiber(k)) <= F[k] /\ F[k] \in Nat
  BY <1>4, <1>6
<1>11. Sum(s) = F[k] + Sum(t)
  BY <1>2, <1>4, <1>6, SumSplit
<1>12. Sum(t) \in Nat
  BY <1>2, <1>7
<1> HIDE DEF Part, Fiber, Sum, t
<1>13. IsFiniteSet(Part(t) \cup Fiber(k)) /\ Cardinality(Part(t) \cup Fiber(k))
          = Cardinality(Part(t)) + Cardinality(Fiber(k)) - Cardinality(Part(t) \cap Fiber(k))
  BY <1>8, <1>10, FS_Union
<1>14. Cardinality(Part(t) \cap Fiber(k)) \in Nat
  BY <1>8, FS_Intersection, FS_CardinalityType
<1>15. Cardinality(Part(t)) \in Nat /\ Cardinality(Fiber(k)) \in Nat
  BY <1>8, <1>10, FS_CardinalityType
<1>16. IsFiniteSet(Part(s)) /\ Cardinality(Part(s)) <= Sum(s)
  BY <1>8, <1>9, <1>10, <1>11, <1>12, <1>13, <1>14, <1>15
<1> QED BY <1>4, <1>16

-----------------------------------------------------------------------------
(* Quotients and remainders.                                                *)

\* Quotient and remainder.
LEMMA Division ==
    ASSUME NEW n \in Nat, NEW c \in Nat \ {0}
    PROVE  /\ n \div c \in Nat
           /\ n % c \in 0 .. c - 1
           /\ n = c * (n \div c) + (n % c)
BY SMTT(30)

\* A product grows by the other factor at least.
LEMMA TimesGrows ==
    ASSUME NEW c \in Nat \ {0}, NEW m \in Nat, NEW n \in Nat, m < n
    PROVE  c * m + c <= c * n
<1>1. PICK d \in Nat : n = m + 1 + d
  <2>1. n - m - 1 \in Nat /\ n = m + 1 + (n - m - 1)
    OBVIOUS
  <2> QED BY <2>1
<1>2. c * n = c * m + c + c * d
  BY <1>1, SMTT(30)
<1>3. \A x \in Nat : c * x \in Nat
  BY SMTT(30)
<1> DEFINE a == c * d
<1> DEFINE b == c * m
<1> DEFINE e == c * n
<1>4. a \in Nat /\ b \in Nat /\ e = b + c + a
  BY <1>2, <1>3
<1> HIDE DEF a, b, e
<1>5. b + c <= e
  BY <1>4
<1> QED BY <1>5 DEF b, e

\* They are determined by the equation.
LEMMA DivisionUnique ==
    ASSUME NEW c \in Nat \ {0}, NEW q \in Nat, NEW r \in 0 .. c - 1, NEW n \in Nat, n = c * q + r
    PROVE  n \div c = q /\ n % c = r
<1> DEFINE d == n \div c
<1> DEFINE e == n % c
<1>1. d \in Nat /\ e \in 0 .. c - 1 /\ n = c * d + e
  BY Division
<1> HIDE DEF d, e
<1>2. c * d \in Nat /\ c * q \in Nat
  BY <1>1, SMTT(30)
<1>3. ~ (d < q)
  <2> SUFFICES ASSUME d < q PROVE FALSE
    OBVIOUS
  <2>1. c * d + c <= c * q
    BY <1>1, TimesGrows
  <2> QED BY <2>1, <1>1, <1>2
<1>4. ~ (q < d)
  <2> SUFFICES ASSUME q < d PROVE FALSE
    OBVIOUS
  <2>1. c * q + c <= c * d
    BY <1>1, TimesGrows
  <2> QED BY <2>1, <1>1, <1>2
<1>5. d = q
  BY <1>1, <1>3, <1>4
<1>6. e = r
  BY <1>1, <1>2, <1>5
<1> QED BY <1>5, <1>6 DEF d, e

\* A factor may be reduced first.
LEMMA TimesMod ==
    ASSUME NEW a \in Nat, NEW b \in Nat, NEW c \in Nat \ {0}
    PROVE  ((a % c) * b) % c = (a * b) % c /\ (b * (a % c)) % c = (a * b) % c
<1> DEFINE q == a \div c
<1> DEFINE r == a % c
<1>1. q \in Nat /\ r \in Nat /\ a = c * q + r
  BY Division
<1> SUFFICES (r * b) % c = (a * b) % c /\ (b * r) % c = (a * b) % c
  OBVIOUS
<1> HIDE DEF q, r
<1> DEFINE m == r * b
<1>2. m \in Nat /\ b * r = m
  BY <1>1, SMTT(30)
<1> DEFINE k == m \div c
<1> DEFINE s == m % c
<1>3. k \in Nat /\ s \in 0 .. c - 1 /\ m = c * k + s
  BY <1>2, Division
<1> DEFINE n == a * b
<1>4. n = c * (q * b) + m
  BY <1>1, SMTT(30)
<1>5. q * b \in Nat /\ n \in Nat
  BY <1>1, SMTT(30)
<1> DEFINE e == q * b
<1> HIDE DEF m, k, s, n, e
<1>6. c * (e + k) = c * e + c * k
  BY <1>3, <1>5, SMTT(30) DEF e
<1>7. c * e \in Nat /\ c * k \in Nat
  BY <1>3, <1>5, SMTT(30) DEF e
<1>8. n = c * (e + k) + s
  BY <1>3, <1>4, <1>6, <1>7 DEF e
<1>9. e + k \in Nat
  BY <1>3, <1>5 DEF e
<1>10. n % c = s
  BY <1>3, <1>5, <1>8, <1>9, DivisionUnique
<1> QED BY <1>2, <1>10 DEF m, n, s

\* What is smaller than the divisor is its own remainder.
LEMMA SmallMod ==
    ASSUME NEW c \in Nat \ {0}, NEW r \in 0 .. c - 1
    PROVE  r % c = r
<1>1. r = c * 0 + r /\ r \in Nat
  BY SMTT(30)
<1> QED BY <1>1, DivisionUnique

\* An inverse belongs to one number only.
LEMMA InverseUnique ==
    ASSUME NEW c \in Nat \ {0}, NEW x \in 0 .. c - 1, NEW y \in 0 .. c - 1, NEW q \in Nat,
           (x * q) % c = 1, (q * y) % c = 1
    PROVE  x = y
<1> DEFINE m == q * y
<1> DEFINE n == x * q
<1>1. m \in Nat /\ n \in Nat /\ x \in Nat /\ y \in Nat
  BY SMTT(30)
<1>2. m * x = n * y
  BY <1>1, SMTT(30)
<1>3. m % c = 1 /\ n % c = 1
  OBVIOUS
<1> HIDE DEF m, n
<1>0. c \in Nat \ {0}
  OBVIOUS
<1>4. ((m % c) * x) % c = (m * x) % c /\ ((n % c) * y) % c = (n * y) % c
  BY <1>0, <1>1, TimesMod, Zenon
<1>5. 1 * x = x /\ 1 * y = y
  BY <1>1
<1>6. x % c = x /\ y % c = y
  BY SmallMod
<1> QED BY <1>2, <1>3, <1>4, <1>5, <1>6

\* The product modulo c.
ModTimes(c, x, y) == (x * y) % c

\* The products of two numbers and of their inverses are inverses.
LEMMA InverseProduct ==
    ASSUME NEW c \in Nat \ {0}, NEW x \in Nat, NEW q \in Nat, NEW d \in Nat, NEW e \in Nat,
           ModTimes(c, x, q) = 1, ModTimes(c, d, e) = 1
    PROVE  ModTimes(c, ModTimes(c, x, d), ModTimes(c, q, e)) = 1
<1> DEFINE m == x * d
<1> DEFINE n == q * e
<1> DEFINE k == x * q
<1> DEFINE l == d * e
<1>1. m \in Nat /\ n \in Nat /\ k \in Nat /\ l \in Nat
  BY SMTT(30)
<1>2. m * n = k * l
  BY SMTT(30)
<1>3. k % c = 1 /\ l % c = 1
  BY DEF ModTimes
<1> SUFFICES ((m % c) * (n % c)) % c = 1
  BY DEF ModTimes
<1> HIDE DEF m, n, k, l
<1>4. n % c \in Nat
  BY <1>1, Division
<1>0. c \in Nat \ {0}
  OBVIOUS
<1>5. ((m % c) * (n % c)) % c = (m * (n % c)) % c
  <2> DEFINE z == n % c
  <2>1. z \in Nat
    BY <1>4
  <2> HIDE DEF z
  <2>2. \A a, b \in Nat : ((a % c) * b) % c = (a * b) % c
    BY <1>0, TimesMod, Zenon
  <2>3. ((m % c) * z) % c = (m * z) % c
    BY <1>1, <2>1, <2>2, Zenon
  <2> QED BY <2>3 DEF z
<1>6. (m * (n % c)) % c = (n * m) % c
  BY <1>1, TimesMod
<1>7. n * m = m * n
  BY <1>1, SMTT(30)
<1>8. ((k % c) * l) % c = (k * l) % c
  BY <1>0, <1>1, TimesMod, Zenon
<1>9. 1 * l = l
  BY <1>1
<1> QED BY <1>2, <1>3, <1>5, <1>6, <1>7, <1>8, <1>9

-----------------------------------------------------------------------------
(* Quotients.                                                               *)

\* The quotient is the largest number whose product fits.
LEMMA QuotientAtLeast ==
    ASSUME NEW c \in Nat \ {0}, NEW n \in Nat, NEW q \in Nat, c * q <= n
    PROVE  q <= n \div c
<1> DEFINE d == n \div c
<1> DEFINE e == n % c
<1>1. d \in Nat /\ e \in 0 .. c - 1 /\ n = c * d + e
  BY Division
<1> HIDE DEF d, e
<1> SUFFICES ASSUME d < q PROVE FALSE
  BY <1>1 DEF d
<1>2. c * d + c <= c * q
  BY <1>1, TimesGrows
<1>3. c * d \in Nat /\ c * q \in Nat
  BY <1>1, SMTT(30)
<1> QED BY <1>1, <1>2, <1>3

LEMMA QuotientBelow ==
    ASSUME NEW c \in Nat \ {0}, NEW n \in Nat, NEW q \in Nat, n < c * q
    PROVE  n \div c < q
<1> DEFINE d == n \div c
<1> DEFINE e == n % c
<1>1. d \in Nat /\ e \in 0 .. c - 1 /\ n = c * d + e
  BY Division
<1> HIDE DEF d, e
<1> SUFFICES ASSUME ~ (d < q) PROVE FALSE
  BY DEF d
<1>2. c * d \in Nat /\ c * q \in Nat
  BY <1>1, SMTT(30)
<1>3. c * q <= c * d
  <2>1. CASE d = q
    BY <2>1, <1>2
  <2>2. CASE q < d
    <3>1. c * q + c <= c * d
      BY <1>1, <2>2, TimesGrows
    <3> QED BY <3>1, <1>2
  <2> QED BY <1>1, <2>1, <2>2
<1> QED BY <1>1, <1>2, <1>3

\* Its product fits, and the next one does not.
LEMMA QuotientBounds ==
    ASSUME NEW c \in Nat \ {0}, NEW n \in Nat
    PROVE  /\ n \div c \in Nat
           /\ c * (n \div c) \in Nat
           /\ c * (n \div c) <= n
           /\ n < c * (n \div c) + c
<1> DEFINE d == n \div c
<1> DEFINE e == n % c
<1>1. d \in Nat /\ e \in 0 .. c - 1 /\ n = c * d + e
  BY Division
<1> HIDE DEF d, e
<1>2. c * d \in Nat
  BY <1>1, SMTT(30)
<1>3. c * d <= n /\ n < c * d + c
  BY <1>1, <1>2
<1> QED BY <1>1, <1>2, <1>3 DEF d

LEMMA QuotientMonotone ==
    ASSUME NEW c \in Nat \ {0}, NEW m \in Nat, NEW n \in Nat, m <= n
    PROVE  m \div c <= n \div c
<1> DEFINE d == m \div c
<1>1. d \in Nat /\ c * d \in Nat /\ c * d <= m
  BY QuotientBounds
<1> HIDE DEF d
<1>2. c * d <= n
  BY <1>1
<1>3. d <= n \div c
  BY <1>1, <1>2, QuotientAtLeast
<1> QED BY <1>3 DEF d

\* Rounding the parts down loses at least as much as rounding the whole.
LEMMA QuotientOfSum ==
    ASSUME NEW c \in Nat \ {0}, NEW m \in Nat, NEW n \in Nat
    PROVE  m \div c + n \div c <= (m + n) \div c
<1> DEFINE d == m \div c
<1> DEFINE e == n \div c
<1> DEFINE s == m + n
<1>1. /\ d \in Nat /\ c * d \in Nat /\ c * d <= m
      /\ e \in Nat /\ c * e \in Nat /\ c * e <= n
  BY QuotientBounds
<1> HIDE DEF d, e
<1>2. c * (d + e) = c * d + c * e
  BY <1>1, SMTT(30)
<1>3. c * (d + e) <= s /\ s \in Nat /\ d + e \in Nat
  BY <1>1, <1>2
<1> HIDE DEF s
<1>4. d + e <= s \div c
  BY <1>3, QuotientAtLeast
<1> QED BY <1>4 DEF d, e, s

\* An addition adds no more to the quotient.
LEMMA QuotientOfMore ==
    ASSUME NEW c \in Nat \ {0}, NEW m \in Nat, NEW n \in Nat
    PROVE  (m + n) \div c <= (m \div c) + n
<1> DEFINE d == m \div c
<1> DEFINE s == m + n
<1>1. d \in Nat /\ c * d \in Nat /\ m < c * d + c
  BY QuotientBounds
<1> HIDE DEF d
<1>2. c * (d + n + 1) = c * d + c + c * n
  BY <1>1, SMTT(30)
<1>3. c * n \in Nat /\ n <= c * n
  <2>1. CASE n = 0
    BY <2>1
  <2>2. CASE n # 0
    <3>1. c * n = n + (c - 1) * n /\ (c - 1) * n \in Nat
      BY SMTT(30)
    <3> QED BY <3>1, SMTT(30)
  <2> QED BY <2>1, <2>2
<1>4. s < c * (d + n + 1) /\ s \in Nat /\ d + n + 1 \in Nat
  BY <1>1, <1>2, <1>3
<1> HIDE DEF s
<1> DEFINE q == d + n + 1
<1>5. q \in Nat /\ s < c * q
  BY <1>4
<1> HIDE DEF q
<1>6. s \div c < q /\ s \div c \in Nat
  BY <1>4, <1>5, QuotientBelow, QuotientBounds
<1>7. s \div c <= d + n
  <2> DEFINE x == s \div c
  <2>1. x < d + n + 1 /\ x \in Nat
    BY <1>6 DEF q
  <2> HIDE DEF x
  <2>2. x <= d + n
    BY <1>1, <2>1
  <2> QED BY <2>2 DEF x
<1> QED BY <1>7 DEF d, s

\* Dividing twice is dividing by the product.
LEMMA QuotientTwice ==
    ASSUME NEW c \in Nat \ {0}, NEW d \in Nat \ {0}, NEW n \in Nat
    PROVE  /\ c * d \in Nat \ {0}
           /\ (n \div c) \div d = n \div (c * d)
<1> DEFINE p == c * d
<1> DEFINE x == n \div c
<1> DEFINE y == x \div d
<1>1. x \in Nat /\ c * x \in Nat /\ c * x <= n /\ n < c * x + c
  BY QuotientBounds
<1> HIDE DEF x
<1>2. y \in Nat /\ d * y \in Nat /\ d * y <= x /\ x < d * y + d
  BY <1>1, QuotientBounds
<1> HIDE DEF y
<1>3. p \in Nat \ {0}
  BY SMTT(30)
<1>4. p * y <= n
  <2> DEFINE z == d * y
  <2>1. p * y = c * z
    BY <1>2, SMTT(30)
  <2>2. z \in Nat /\ z <= x
    BY <1>2
  <2> HIDE DEF z, p
  <2>3. c * z <= c * x /\ c * z \in Nat
    <3>1. CASE z = x
      BY <3>1, <1>1
    <3>2. CASE z < x
      <4>1. c * z + c <= c * x
        BY <1>1, <2>2, <3>2, TimesGrows
      <4>2. c * z \in Nat
        BY <2>2, SMTT(30)
      <4> QED BY <4>1, <4>2, <1>1
    <3> QED BY <1>1, <2>2, <3>1, <3>2
  <2> QED BY <2>1, <2>3, <1>1
<1>5. n < p * (y + 1)
  <2> DEFINE z == d * y + d
  <2>1. p * (y + 1) = c * z
    BY <1>2, SMTT(30)
  <2>2. z \in Nat /\ x < z
    BY <1>2
  <2> HIDE DEF z, p
  <2>3. c * x + c <= c * z
    BY <1>1, <2>2, TimesGrows
  <2>4. c * z \in Nat
    BY <2>2, SMTT(30)
  <2> QED BY <1>1, <2>1, <2>3, <2>4
<1> HIDE DEF p
<1>6. y <= n \div p
  BY <1>2, <1>3, <1>4, QuotientAtLeast
<1>7. n \div p < y + 1
  <2> DEFINE z == y + 1
  <2>1. z \in Nat /\ n < p * z
    BY <1>2, <1>5
  <2> HIDE DEF z
  <2>2. n \div p < z
    BY <2>1, <1>3, QuotientBelow
  <2> QED BY <2>2 DEF z
<1>8. n \div p \in Nat
  BY <1>3, QuotientBounds
<1>9. n \div p = y
  <2> DEFINE x1 == n \div p
  <2>1. x1 \in Nat /\ y <= x1 /\ x1 < y + 1
    BY <1>6, <1>7, <1>8
  <2> HIDE DEF x1
  <2>2. x1 = y
    BY <1>2, <2>1
  <2> QED BY <2>2 DEF x1
<1> QED BY <1>3, <1>9 DEF p, x, y

-----------------------------------------------------------------------------
(* Integers modulo a number.                                                *)

\* Quotient and remainder of an integer.
LEMMA IntDivision ==
    ASSUME NEW n \in Int, NEW c \in Nat \ {0}
    PROVE  n \div c \in Int /\ n % c \in 0 .. c - 1 /\ n = c * (n \div c) + (n % c)
BY SMTT(30)

\* No multiple of c but zero is closer to zero than c.
LEMMA SmallMultiple ==
    ASSUME NEW c \in Nat \ {0}, NEW k \in Int, - c < c * k, c * k < c
    PROVE  k = 0
<1>1. CASE k >= 1
  <2>1. PICK d \in Nat : k = 1 + d
    <3>1. k - 1 \in Nat /\ k = 1 + (k - 1)
      BY <1>1
    <3> QED BY <3>1
  <2>2. c * k = c + c * d
    BY <2>1, SMTT(30)
  <2>3. c * d \in Nat
    BY SMTT(30)
  <2> DEFINE x == c * d
  <2> HIDE DEF x
  <2>4. x \in Nat /\ c + x < c
    BY <2>2, <2>3 DEF x
  <2> QED BY <2>4
<1>2. CASE k <= - 1
  <2>1. PICK d \in Nat : k = - 1 - d
    <3>1. - 1 - k \in Nat /\ k = - 1 - (- 1 - k)
      BY <1>2
    <3> QED BY <3>1
  <2>2. c * k = - c - c * d
    BY <2>1, SMTT(30)
  <2>3. c * d \in Nat
    BY SMTT(30)
  <2> DEFINE x == c * d
  <2> HIDE DEF x
  <2>4. x \in Nat /\ - c < - c - x
    BY <2>2, <2>3 DEF x
  <2> QED BY <2>4
<1> QED BY <1>1, <1>2

\* The remainder is determined by the equation.
LEMMA RemainderUnique ==
    ASSUME NEW c \in Nat \ {0}, NEW q \in Int, NEW r \in 0 .. c - 1, NEW n \in Int, n = c * q + r
    PROVE  n % c = r
<1> DEFINE d == n \div c
<1> DEFINE e == n % c
<1>1. d \in Int /\ e \in 0 .. c - 1 /\ n = c * d + e
  BY IntDivision
<1> HIDE DEF d, e
<1>2. c * (d - q) = c * d - c * q
  BY <1>1, SMTT(30)
<1> DEFINE u == c * d
<1> DEFINE v == c * q
<1>3. u \in Int /\ v \in Int
  BY <1>1, SMTT(30)
<1>4. u + e = v + r
  BY <1>1
<1> HIDE DEF u, v
<1>5. - c < u - v /\ u - v < c
  BY <1>1, <1>3, <1>4
<1>6. d - q \in Int
  BY <1>1
<1> DEFINE k == d - q
<1>7. k \in Int /\ c * k = u - v
  BY <1>2, <1>6 DEF u, v
<1> HIDE DEF k
<1>8. k = 0
  BY <1>5, <1>7, SmallMultiple
<1>9. c * k = 0
  BY <1>8
<1>10. e = r
  BY <1>1, <1>3, <1>4, <1>7, <1>9
<1> QED BY <1>10 DEF e

\* t is an inverse of s modulo m.
Inverts(t, s, m) == \E z \in Int : s * t = 1 + m * z

\* Multiplying by a number with an inverse and adding keeps numbers apart.
LEMMA MixingInjective ==
    ASSUME NEW m \in Nat \ {0}, NEW s \in Int, NEW t \in Int, Inverts(t, s, m), NEW b \in Int,
           NEW p \in Int, NEW q \in Int, - m < p - q, p - q < m,
           (p * s + b) % m = (q * s + b) % m
    PROVE  p = q
<1>1. PICK z \in Int : s * t = 1 + m * z
  BY DEF Inverts
<1>2. p * s + b \in Int /\ q * s + b \in Int
  BY SMTT(30)
<1> DEFINE u == p * s + b
<1> DEFINE v == q * s + b
<1> DEFINE x == u \div m
<1> DEFINE y == v \div m
<1> DEFINE r == u % m
<1>3. /\ x \in Int /\ r \in 0 .. m - 1 /\ u = m * x + r
      /\ y \in Int /\ v = m * y + r
  <2> HIDE DEF u, v
  <2>1. u \in Int /\ v \in Int /\ u % m = v % m
    BY <1>2 DEF u, v
  <2> QED BY <2>1, IntDivision
<1> HIDE DEF x, y, r
<1> DEFINE g == x - y
<1> DEFINE d == p - q
<1>4. d * s = m * g
  <2>1. p * s - q * s = m * x - m * y
    <3>1. p * s \in Int /\ q * s \in Int /\ m * x \in Int /\ m * y \in Int /\ r \in Int
      BY <1>3, SMTT(30)
    <3>2. p * s + b = m * x + r /\ q * s + b = m * y + r
      BY <1>3
    <3> DEFINE a1 == p * s
    <3> DEFINE a2 == q * s
    <3> DEFINE a3 == m * x
    <3> DEFINE a4 == m * y
    <3> HIDE DEF a1, a2, a3, a4
    <3>3. a1 - a2 = a3 - a4
      BY <3>1, <3>2 DEF a1, a2, a3, a4
    <3> QED BY <3>3 DEF a1, a2, a3, a4
  <2>2. d * s = p * s - q * s
    BY SMTT(30)
  <2>3. m * g = m * x - m * y
    BY <1>3, SMTT(30)
  <2> QED BY <2>1, <2>2, <2>3
<1>5. d \in Int /\ g \in Int
  BY <1>3
<1> HIDE DEF d, g, u, v
<1>6. d = m * (g * t - d * z)
  <2>1. d * (s * t) = (d * s) * t
    BY <1>5, SMTT(30)
  <2>2. d * (s * t) = d + m * (d * z)
    BY <1>1, <1>5, SMTT(30)
  <2>3. (d * s) * t = m * (g * t)
    BY <1>4, <1>5, SMTT(30)
  <2> DEFINE i == g * t
  <2> DEFINE j == d * z
  <2>4. i \in Int /\ j \in Int
    BY <1>5, SMTT(30)
  <2>5. d + m * j = m * i
    BY <2>1, <2>2, <2>3
  <2> HIDE DEF i, j
  <2>6. m * (i - j) = m * i - m * j /\ m * i \in Int /\ m * j \in Int
    BY <2>4, SMTT(30)
  <2>7. d = m * (i - j)
    BY <1>5, <2>5, <2>6
  <2> QED BY <2>7 DEF i, j
<1>7. g * t - d * z \in Int
  BY <1>5, SMTT(30)
<1> DEFINE k == g * t - d * z
<1>8. k \in Int /\ d = m * k
  BY <1>6, <1>7
<1> HIDE DEF k
<1>9. - m < m * k /\ m * k < m
  BY <1>8 DEF d
<1>10. k = 0
  BY <1>8, <1>9, SmallMultiple
<1>11. d = 0
  BY <1>8, <1>10
<1> QED BY <1>11 DEF d

\* Multiplying and adding modulo m, and undoing it with an inverse t.
Mix(p, s, b, m) == (p * s + b) % m

Unmix(r, b, t, m) == (((r - b) % m) * t) % m

\* What is found is a remainder.
LEMMA UnmixType ==
    ASSUME NEW m \in Nat \ {0}, NEW t \in Int, NEW b \in Int, NEW r \in Int
    PROVE  Unmix(r, b, t, m) \in 0 .. m - 1
<1> DEFINE w == (r - b) % m
<1>1. w \in Int
  <2>1. r - b \in Int
    OBVIOUS
  <2> QED BY <2>1, IntDivision
<1> HIDE DEF w
<1> DEFINE n == w * t
<1>2. n \in Int
  BY <1>1, SMTT(30)
<1> HIDE DEF n
<1>3. n % m \in 0 .. m - 1
  BY <1>2, IntDivision
<1> QED BY <1>3 DEF Unmix, n, w

\* p is what the inverse makes of the remainder r.
Unmixes(p, r, s, t, b, m) ==
    /\ m \in Nat \ {0} /\ s \in Int /\ t \in Int /\ b \in Int /\ p \in Int
    /\ Inverts(t, s, m)
    /\ r \in Int /\ 0 <= r /\ r < m
    /\ p = Unmix(r, b, t, m)

\* With the inverse the number that was multiplied is found again.
LEMMA MixingInverse ==
    ASSUME NEW p, NEW r, NEW s, NEW t, NEW b, NEW m, Unmixes(p, r, s, t, b, m)
    PROVE  Mix(p, s, b, m) = r
<1> USE DEF Unmixes
<1>1. PICK z \in Int : s * t = 1 + m * z
  BY DEF Inverts
<1> DEFINE w == (r - b) % m
<1> DEFINE f == (r - b) \div m
<1>2. w \in 0 .. m - 1 /\ f \in Int /\ r - b = m * f + w
  <2>1. r - b \in Int
    OBVIOUS
  <2> QED BY <2>1, IntDivision
<1> HIDE DEF w, f
<1>a. p = (w * t) % m
  BY DEF w, Unmix
<1> DEFINE g == (w * t) \div m
<1>3. p \in 0 .. m - 1 /\ g \in Int /\ w * t = m * g + p
  <2>1. w * t \in Int
    BY <1>2, SMTT(30)
  <2> DEFINE n == w * t
  <2>2. n \in Int
    BY <2>1
  <2> HIDE DEF n
  <2>3. n % m \in 0 .. m - 1 /\ n \div m \in Int /\ n = m * (n \div m) + (n % m)
    BY <2>2, IntDivision
  <2> QED BY <1>a, <2>3 DEF n
<1> HIDE DEF g
<1>4. p * s = w + m * (w * z - g * s)
  <2>1. (w * t) * s = w * (s * t)
    BY <1>2, SMTT(30)
  <2>2. w * (s * t) = w + m * (w * z)
    BY <1>1, <1>2, SMTT(30)
  <2>3. (w * t) * s = m * (g * s) + p * s
    BY <1>3, SMTT(30)
  <2> DEFINE i == w * z
  <2> DEFINE j == g * s
  <2> DEFINE n == p * s
  <2>4. i \in Int /\ j \in Int /\ n \in Int
    BY <1>2, <1>3, SMTT(30)
  <2>5. w + m * i = m * j + n
    BY <2>1, <2>2, <2>3
  <2> HIDE DEF i, j, n
  <2>6. m * (i - j) = m * i - m * j /\ m * i \in Int /\ m * j \in Int
    BY <2>4, SMTT(30)
  <2>7. n = w + m * (i - j)
    BY <1>2, <2>4, <2>5, <2>6
  <2> QED BY <2>7 DEF i, j, n
<1> DEFINE k == w * z - g * s
<1>5. k \in Int /\ p * s = w + m * k
  <2>1. k \in Int
    BY <1>2, <1>3, SMTT(30)
  <2> QED BY <1>4, <2>1
<1> HIDE DEF k
<1>6. p * s + b = m * (k - f) + r
  <2>1. m * (k - f) = m * k - m * f /\ m * k \in Int /\ m * f \in Int
    BY <1>2, <1>5, SMTT(30)
  <2> DEFINE i == m * k
  <2> DEFINE j == m * f
  <2>2. i \in Int /\ j \in Int /\ r - b = j + w /\ p * s = w + i
    BY <1>2, <1>5, <2>1
  <2> HIDE DEF i, j
  <2>3. (w + i) + b = (i - j) + r
    BY <1>2, <2>2
  <2> QED BY <2>1, <2>2, <2>3 DEF i, j
<1>7. (p * s + b) % m = r
  <2> DEFINE n == p * s + b
  <2> DEFINE q == k - f
  <2>1. n \in Int /\ q \in Int /\ n = m * q + r
    <3>1. n \in Int
      BY <1>3, SMTT(30)
    <3> QED BY <1>2, <1>5, <1>6, <3>1
  <2> HIDE DEF n, q
  <2>2. n % m = r
    BY <2>1, RemainderUnique
  <2> QED BY <2>2 DEF n
<1> QED BY <1>7 DEF Mix

\* Numbers a modulus apart stay together.
LEMMA Shifted ==
    ASSUME NEW m \in Nat \ {0}, NEW s \in Int, NEW b \in Int, NEW p \in Int
    PROVE  ((p + m) * s + b) % m = (p * s + b) % m
<1> DEFINE u == p * s + b
<1> DEFINE v == (p + m) * s + b
<1> DEFINE k == u \div m
<1> DEFINE r == u % m
<1>1. u \in Int /\ v \in Int /\ v = u + m * s /\ m * s \in Int
  BY SMTT(30)
<1>2. k \in Int /\ r \in 0 .. m - 1 /\ u = m * k + r
  <2> HIDE DEF u
  <2> QED BY <1>1, IntDivision
<1> HIDE DEF u, v, k, r
<1>3. m * (k + s) = m * k + m * s /\ m * k \in Int
  BY <1>2, SMTT(30)
<1> DEFINE q == k + s
<1>4. q \in Int /\ v = m * q + r
  BY <1>1, <1>2, <1>3
<1> HIDE DEF q
<1>5. v % m = r
  BY <1>1, <1>2, <1>4, RemainderUnique
<1> QED BY <1>5 DEF r, u, v

-----------------------------------------------------------------------------
(* Loops.                                                                   *)

\* l holds the first n states of a loop that starts in s.
Iterates(l, step, s, n) == l[0] = s /\ \A i \in 0 .. n : i # 0 => l[i] = step[l[i - 1]]

\* A loop has first states, which stay where its steps stay.
LEMMA IteratesExist ==
    ASSUME NEW D, NEW step \in [D -> D], NEW s \in D, NEW n \in Nat
    PROVE  \E l \in [0 .. n -> D] : Iterates(l, step, s, n)
<1> DEFINE Bad == {m \in Nat : ~ \E l \in [0 .. m -> D] : Iterates(l, step, s, m)}
<1> SUFFICES ASSUME Bad # {} PROVE FALSE
  OBVIOUS
<1>1. PICK m \in Bad : \A k \in Bad : m <= k
  <2>1. Bad \subseteq Nat
    OBVIOUS
  <2> HIDE DEF Bad
  <2> QED BY <2>1, LeastNumber
<1>2. m \in Nat /\ ~ \E l \in [0 .. m -> D] : Iterates(l, step, s, m)
  OBVIOUS
<1>3. CASE m = 0
  <2> DEFINE l == [i \in 0 .. 0 |-> s]
  <2>1. l \in [0 .. 0 -> D] /\ l[0] = s /\ \A i \in 0 .. 0 : i = 0
    OBVIOUS
  <2> HIDE DEF l
  <2>2. Iterates(l, step, s, 0)
    BY <2>1 DEF Iterates
  <2> QED BY <1>2, <1>3, <2>1, <2>2
<1>4. CASE m # 0
  <2>1. m - 1 \in Nat /\ ~ (m <= m - 1)
    BY <1>2, <1>4
  <2>2. PICK l \in [0 .. m - 1 -> D] : Iterates(l, step, s, m - 1)
    BY <1>1, <2>1
  <2>3. m - 1 \in 0 .. m - 1
    BY <2>1
  <2> DEFINE k == [i \in 0 .. m |-> IF i = m THEN step[l[m - 1]] ELSE l[i]]
  <2>4. ASSUME NEW i \in 0 .. m
        PROVE  /\ k[i] \in D
               /\ i = 0 => k[i] = s
               /\ i # 0 => k[i] = step[k[i - 1]]
    <3>1. CASE i = m
      <4>1. m - 1 \in 0 .. m /\ m - 1 # m
        BY <1>2, <1>4
      <4>2. k[m - 1] = l[m - 1] /\ k[m] = step[l[m - 1]] /\ l[m - 1] \in D
        BY <2>2, <2>3, <4>1
      <4> QED BY <3>1, <4>2, <1>4
    <3>2. CASE i # m
      <4>1. i \in 0 .. m - 1
        BY <1>2, <3>2
      <4>2. k[i] = l[i] /\ l[i] \in D
        BY <2>2, <3>2, <4>1
      <4>3. i = 0 => l[i] = s
        BY <2>2 DEF Iterates
      <4>4. i # 0 => k[i - 1] = l[i - 1]
        <5> SUFFICES ASSUME i # 0 PROVE k[i - 1] = l[i - 1]
          OBVIOUS
        <5>1. i - 1 \in 0 .. m /\ i - 1 # m
          BY <1>2, <4>1
        <5> QED BY <5>1
      <4>5. i # 0 => l[i] = step[l[i - 1]]
        BY <2>2, <4>1 DEF Iterates
      <4> HIDE DEF k
      <4> QED BY <4>2, <4>3, <4>4, <4>5
    <3> QED BY <3>1, <3>2
  <2>5. k = [i \in 0 .. m |-> k[i]]
    OBVIOUS
  <2> HIDE DEF k
  <2>6. k \in [0 .. m -> D]
    BY <2>4, <2>5
  <2>7. Iterates(k, step, s, m)
    <3>1. 0 \in 0 .. m
      BY <1>2
    <3> QED BY <2>4, <3>1 DEF Iterates
  <2> QED BY <1>2, <2>6, <2>7
<1> QED BY <1>3, <1>4

\* Whatever function has the states of a loop: they stay in D, and if every
\* step that changes anything takes a measure down, as many steps as the
\* measure had at the start have brought the loop to its end.
LEMMA IterationEnds ==
    ASSUME NEW D, NEW step \in [D -> D], NEW s \in D, NEW n \in Nat,
           NEW mu \in [D -> Nat], mu[s] <= n,
           \A x \in D : step[x] = x \/ mu[step[x]] < mu[x],
           NEW l, l[0] = s, \A i \in 0 .. n : i # 0 /\ l[i - 1] \in D => l[i] = step[l[i - 1]]
    PROVE  l[n] \in D /\ step[l[n]] = l[n]
<1> DEFINE Good(i) == l[i] \in D /\ (step[l[i]] = l[i] \/ mu[l[i]] + i <= mu[s])
<1> DEFINE Bad == {i \in 0 .. n : ~ Good(i)}
<1>1. Bad = {}
  <2> SUFFICES ASSUME Bad # {} PROVE FALSE
    OBVIOUS
  <2>1. PICK i \in Bad : \A j \in Bad : i <= j
    <3>1. Bad \subseteq Nat
      OBVIOUS
    <3> HIDE DEF Bad
    <3> QED BY <3>1, LeastNumber
  <2>2. i \in 0 .. n /\ ~ Good(i)
    OBVIOUS
  <2>3. i # 0
    <3>1. mu[s] \in Nat
      OBVIOUS
    <3>2. mu[s] + 0 <= mu[s]
      BY <3>1
    <3>3. Good(0)
      BY <3>2
    <3> QED BY <2>2, <3>3
  <2>4. i - 1 \in 0 .. n /\ ~ (i <= i - 1)
    BY <2>2, <2>3
  <2>5. Good(i - 1)
    BY <2>1, <2>4
  <2>6. PICK x : x = l[i - 1]
    OBVIOUS
  <2>7. x \in D /\ (step[x] = x \/ mu[x] + (i - 1) <= mu[s])
    BY <2>5, <2>6
  <2>8. l[i] = step[x]
    BY <2>2, <2>3, <2>6, <2>7
  <2>9. step[x] \in D /\ mu[x] \in Nat /\ mu[step[x]] \in Nat /\ mu[s] \in Nat
    BY <2>7
  <2>10. CASE step[x] = x
    BY <2>2, <2>7, <2>8, <2>10
  <2>11. CASE step[x] # x
    <3>1. mu[step[x]] < mu[x]
      BY <2>7, <2>11
    <3>2. mu[step[x]] + i <= mu[s]
      BY <2>2, <2>7, <2>9, <2>11, <3>1
    <3> QED BY <2>2, <2>8, <2>9, <3>2
  <2> QED BY <2>10, <2>11
<1>2. Good(n)
  <2>1. n \in 0 .. n
    OBVIOUS
  <2> QED BY <1>1, <2>1
<1>3. step[l[n]] = l[n]
  <2> SUFFICES ASSUME step[l[n]] # l[n] PROVE FALSE
    OBVIOUS
  <2>1. PICK x : x = l[n]
    OBVIOUS
  <2>2. x \in D /\ mu[x] + n <= mu[s] /\ step[x] # x
    BY <1>2, <2>1
  <2>3. mu[step[x]] < mu[x] /\ mu[step[x]] \in Nat /\ mu[x] \in Nat /\ mu[s] \in Nat
    BY <2>2
  <2> QED BY <2>2, <2>3
<1> QED BY <1>2, <1>3

-----------------------------------------------------------------------------
(* Combinations, divisors and primes.                                       *)

\* What the Euclidean algorithm makes of two numbers is a combination of them.
Combines(u, a, b) == \E x \in Int, y \in Int : u = x * a + y * b

\* Combinations can be subtracted, also several times.
LEMMA CombineDifference ==
    ASSUME NEW a \in Int, NEW b \in Int, NEW u, NEW v, NEW k \in Int,
           Combines(u, a, b), Combines(v, a, b)
    PROVE  Combines(u - k * v, a, b)
<1>1. PICK x1 \in Int, y1 \in Int : u = x1 * a + y1 * b
  BY DEF Combines
<1>2. PICK x2 \in Int, y2 \in Int : v = x2 * a + y2 * b
  BY DEF Combines
<1> DEFINE x == x1 - k * x2
<1> DEFINE y == y1 - k * y2
<1>3. x \in Int /\ y \in Int
  BY SMTT(30)
<1>4. u - k * v = x * a + y * b
  <2>1. k * v = (k * x2) * a + (k * y2) * b
    BY <1>2, SMTT(30)
  <2>2. x * a = x1 * a - (k * x2) * a /\ y * b = y1 * b - (k * y2) * b
    BY SMTT(30)
  <2>3. /\ x1 * a \in Int /\ y1 * b \in Int /\ (k * x2) * a \in Int /\ (k * y2) * b \in Int
    BY SMTT(30)
  <2> DEFINE c1 == x1 * a
  <2> DEFINE c2 == y1 * b
  <2> DEFINE c3 == (k * x2) * a
  <2> DEFINE c4 == (k * y2) * b
  <2>4. c1 \in Int /\ c2 \in Int /\ c3 \in Int /\ c4 \in Int
    BY <2>3
  <2> HIDE DEF c1, c2, c3, c4
  <2>5. (c1 + c2) - (c3 + c4) = (c1 - c3) + (c2 - c4)
    BY <2>4
  <2> QED BY <1>1, <2>1, <2>2, <2>5 DEF c1, c2, c3, c4
<1> HIDE DEF x, y
<1> QED BY <1>3, <1>4 DEF Combines

\* The numbers themselves are combinations.
LEMMA CombineSelf ==
    ASSUME NEW a \in Int, NEW b \in Int
    PROVE  Combines(a, a, b) /\ Combines(b, a, b)
<1>1. a = 1 * a + 0 * b /\ b = 0 * a + 1 * b
  BY SMTT(30)
<1> QED BY <1>1 DEF Combines

\* d divides n.
Divides(d, n) == \E k \in Int : n = d * k

\* What divides v and the rest of u modulo v divides u.
LEMMA DividesWhole ==
    ASSUME NEW d \in Int, NEW u \in Int, NEW v \in Int, NEW k \in Int,
           Divides(d, v), Divides(d, u - k * v)
    PROVE  Divides(d, u)
<1>1. PICK i \in Int : v = d * i
  BY DEF Divides
<1>2. PICK j \in Int : u - k * v = d * j
  BY DEF Divides
<1>3. k * v = d * (k * i) /\ d * (k * i) \in Int /\ d * j \in Int /\ k * i \in Int
  BY <1>1, SMTT(30)
<1>4. u = d * j + d * (k * i)
  <2> DEFINE c1 == d * j
  <2> DEFINE c2 == d * (k * i)
  <2> DEFINE c3 == k * v
  <2>1. c1 \in Int /\ c2 \in Int /\ c3 = c2 /\ u - c3 = c1
    BY <1>2, <1>3
  <2> HIDE DEF c1, c2, c3
  <2>2. u = c1 + c2
    BY <2>1
  <2> QED BY <2>2 DEF c1, c2
<1> DEFINE c == k * i
<1>5. c \in Int /\ u = d * j + d * c
  BY <1>3, <1>4
<1> HIDE DEF c
<1>6. d * (j + c) = d * j + d * c
  BY <1>5, SMTT(30)
<1>7. j + c \in Int /\ u = d * (j + c)
  BY <1>5, <1>6
<1> QED BY <1>7 DEF Divides

\* Remainders are differences.
LEMMA RemainderDifference ==
    ASSUME NEW u \in Nat, NEW v \in Nat \ {0}
    PROVE  u \div v \in Int /\ u % v = u - (u \div v) * v /\ u % v \in Nat /\ u % v < v
<1> DEFINE k == u \div v
<1> DEFINE r == u % v
<1>1. k \in Nat /\ r \in 0 .. v - 1 /\ u = v * k + r
  BY Division
<1> HIDE DEF k, r
<1>2. v * k = k * v /\ k * v \in Int
  BY <1>1, SMTT(30)
<1>3. r = u - k * v
  BY <1>1, <1>2
<1> QED BY <1>1, <1>3 DEF k, r

\* A prime has no divisors but one and itself.
Prime(n) == n \in Nat /\ n >= 2 /\ \A d \in Nat : Divides(d, n) => d = 1 \/ d = n

\* A divisor leaves no remainder.
LEMMA ModZero ==
    ASSUME NEW c \in Nat \ {0}, NEW n \in Nat
    PROVE  n % c = 0 <=> Divides(c, n)
<1>1. ASSUME n % c = 0
      PROVE  Divides(c, n)
  <2> DEFINE k == n \div c
  <2>1. k \in Int /\ n = c * k + (n % c)
    BY IntDivision
  <2>2. c * k \in Int
    BY <2>1, SMTT(30)
  <2> HIDE DEF k
  <2>3. n = c * k
    BY <1>1, <2>1, <2>2
  <2> QED BY <2>1, <2>3 DEF Divides
<1>2. ASSUME Divides(c, n)
      PROVE  n % c = 0
  <2>1. PICK k \in Int : n = c * k
    BY <1>2 DEF Divides
  <2>2. PICK r \in 0 .. c - 1 : r = 0
    OBVIOUS
  <2>3. n \in Int /\ n = c * k + r
    BY <2>1, <2>2
  <2> QED BY <2>2, <2>3, RemainderUnique
<1> QED BY <1>1, <1>2

\* The other factor of a proper divisor is one too.
LEMMA Cofactor ==
    ASSUME NEW n \in Nat \ {0}, NEW d \in Nat, d >= 2, d < n, Divides(d, n)
    PROVE  \E k \in Nat : k >= 2 /\ k < n /\ n = d * k /\ Divides(k, n)
<1>1. PICK k \in Int : n = d * k
  BY DEF Divides
<1>2. k >= 2
  <2>1. CASE k <= 0
    <3>1. d * k <= 0
      BY <2>1, SMTT(30)
    <3> QED BY <1>1, <3>1
  <2>2. CASE k = 1
    BY <1>1, <2>2
  <2> QED BY <2>1, <2>2
<1>3. k < n
  <2>1. n = k + (d - 1) * k /\ (d - 1) * k \in Nat /\ (d - 1) * k # 0
    BY <1>1, <1>2, SMTT(30)
  <2> DEFINE c == (d - 1) * k
  <2>2. n = k + c /\ c \in Nat /\ c # 0
    BY <2>1
  <2> HIDE DEF c
  <2> QED BY <1>2, <2>2
<1>4. n = k * d
  BY <1>1, SMTT(30)
<1> QED BY <1>1, <1>2, <1>3, <1>4 DEF Divides

\* Squares grow.
LEMMA ProductGrows ==
    ASSUME NEW a \in Nat, NEW b \in Nat, NEW c \in Nat, a <= b
    PROVE  a * a <= b * b /\ c * a <= c * b
<1>1. PICK d \in Nat : b = a + d
  <2>1. b - a \in Nat /\ b = a + (b - a)
    OBVIOUS
  <2> QED BY <2>1
<1>2. b * b = a * a + 2 * (a * d) + d * d /\ c * b = c * a + c * d
  BY <1>1, SMTT(30)
<1>3. a * d \in Nat /\ d * d \in Nat /\ a * a \in Nat /\ c * d \in Nat /\ c * a \in Nat
  BY SMTT(30)
<1> DEFINE x == a * d
<1> DEFINE y == d * d
<1> DEFINE z == a * a
<1> DEFINE w == c * d
<1> DEFINE v == c * a
<1>4. x \in Nat /\ y \in Nat /\ z \in Nat /\ w \in Nat /\ v \in Nat
  BY <1>3
<1> HIDE DEF x, y, z, w, v
<1>5. z <= z + 2 * x + y /\ v <= v + w
  BY <1>4
<1> QED BY <1>2, <1>5 DEF x, y, z, w, v

\* Bertrand's postulate, the theorem of Chebyshev.
Bertrand == \A n \in Nat \ {0} : \E p \in Nat : n < p /\ p <= 2 * n /\ Prime(p)

====
