---- MODULE MoneyProofs ----
(***************************************************************************)
(* What the pallets that keep and move money guarantee for every value of  *)
(* their constants: first module Balances alone, with its decay, its       *)
(* ledger and its fees, then the faucets, treasuries and offline payments  *)
(* of module Payments, which are built on it.                              *)
(***************************************************************************)
EXTENDS Payments, NumberLemmas

-----------------------------------------------------------------------------
(* Halving.                                                                 *)

\* g is the table of the powers of two up to n.
Powers(g, n) ==
    /\ g \in [0 .. n -> Nat]
    /\ g[0] = 1
    /\ \A k \in 1 .. n : g[k] = 2 * g[k - 1]

\* Two tables agree where both have an entry.
LEMMA PowersAgree ==
    ASSUME NEW m \in Nat, NEW n \in Nat, NEW g, NEW h, Powers(g, m), Powers(h, n),
           NEW i \in Nat, i <= m, i <= n
    PROVE  g[i] = h[i]
<1> DEFINE Bad == {k \in Nat : k <= m /\ k <= n /\ g[k] # h[k]}
<1> SUFFICES ASSUME Bad # {} PROVE FALSE
  OBVIOUS
<1>1. PICK k \in Bad : \A l \in Bad : k <= l
  <2>1. Bad \subseteq Nat
    OBVIOUS
  <2> HIDE DEF Bad
  <2> QED BY <2>1, LeastNumber
<1>2. k \in Nat /\ k <= m /\ k <= n /\ g[k] # h[k]
  OBVIOUS
<1>3. k # 0
  BY <1>2 DEF Powers
<1>4. k \in 1 .. m /\ k \in 1 .. n /\ k - 1 \in Nat /\ k - 1 <= m /\ k - 1 <= n
  BY <1>2, <1>3
<1>5. g[k] = 2 * g[k - 1] /\ h[k] = 2 * h[k - 1]
  BY <1>4 DEF Powers
<1>6. k - 1 \notin Bad
  BY <1>1, <1>2
<1>7. g[k - 1] = h[k - 1]
  BY <1>4, <1>6
<1> QED BY <1>2, <1>5, <1>7

\* There is a table of any length.
LEMMA PowersExist == \A n \in Nat : \E g : Powers(g, n)
<1> DEFINE Bad == {n \in Nat : ~ \E g : Powers(g, n)}
<1> SUFFICES ASSUME Bad # {} PROVE FALSE
  OBVIOUS
<1>1. PICK n \in Bad : \A m \in Bad : n <= m
  <2>1. Bad \subseteq Nat
    OBVIOUS
  <2> HIDE DEF Bad
  <2> QED BY <2>1, LeastNumber
<1>2. n \in Nat /\ ~ \E g : Powers(g, n)
  OBVIOUS
<1>3. CASE n = 0
  <2> DEFINE one == [k \in 0 .. 0 |-> 1]
  <2>1. Powers(one, 0)
    BY DEF Powers
  <2> QED BY <1>2, <1>3, <2>1
<1>4. CASE n # 0
  <2>1. n - 1 \in Nat /\ n - 1 \notin Bad
    BY <1>1, <1>2, <1>4
  <2>2. PICK g : Powers(g, n - 1)
    BY <2>1
  <2> DEFINE new == [k \in 0 .. n |-> IF k = n THEN 2 * g[n - 1] ELSE g[k]]
  <2>3. g \in [0 .. n - 1 -> Nat] /\ g[0] = 1 /\ \A k \in 1 .. n - 1 : g[k] = 2 * g[k - 1]
    BY <2>2 DEF Powers
  <2>4. new \in [0 .. n -> Nat] /\ new[0] = 1
    BY <1>2, <1>4, <2>3
  <2>5. ASSUME NEW k \in 1 .. n PROVE new[k] = 2 * new[k - 1]
    BY <1>2, <2>3
  <2>6. Powers(new, n)
    <3> HIDE DEF new
    <3> QED BY <2>4, <2>5 DEF Powers
  <2> QED BY <1>2, <2>6
<1> QED BY <1>3, <1>4

\* The recursive definition of PowerOfTwo defines a function.
LEMMA PowerOfTwoDef ==
    /\ PowerOfTwo \in [Nat -> Nat]
    /\ PowerOfTwo[0] = 1
    /\ \A n \in Nat : PowerOfTwo[n + 1] = 2 * PowerOfTwo[n]
<1> DEFINE Defines(f) == f = [n \in Nat |-> IF n = 0 THEN 1 ELSE 2 * f[n - 1]]
<1> DEFINE Table(n) == CHOOSE g : Powers(g, n)
<1> DEFINE diag == [n \in Nat |-> Table(n)[n]]
<1>1. \A n \in Nat : Powers(Table(n), n)
  BY PowersExist
<1> HIDE DEF Table
<1>2. \A n \in Nat : n # 0 => Table(n)[n] = 2 * Table(n - 1)[n - 1]
  <2> SUFFICES ASSUME NEW n \in Nat, n # 0
               PROVE  Table(n)[n] = 2 * Table(n - 1)[n - 1]
    OBVIOUS
  <2>1. n - 1 \in Nat /\ n \in 1 .. n
    OBVIOUS
  <2>2. Table(n)[n] = 2 * Table(n)[n - 1]
    BY <1>1, <2>1 DEF Powers
  <2>3. Table(n)[n - 1] = Table(n - 1)[n - 1]
    <3> DEFINE m == n - 1
    <3>1. m \in Nat /\ m <= n /\ m <= m
      OBVIOUS
    <3>2. Powers(Table(n), n) /\ Powers(Table(m), m)
      BY <1>1, <3>1
    <3> HIDE DEF m
    <3>3. Table(n)[m] = Table(m)[m]
      BY <3>1, <3>2, PowersAgree
    <3> QED BY <3>3 DEF m
  <2> QED BY <2>2, <2>3
<1>3. Table(0)[0] = 1
  BY <1>1 DEF Powers
<1>4. Defines(diag)
  BY <1>2, <1>3
<1>5. PowerOfTwo = CHOOSE f : Defines(f)
  BY DEF PowerOfTwo
<1> HIDE DEF diag
<1>6. Defines(PowerOfTwo)
  BY <1>4, <1>5
<1>7. /\ PowerOfTwo[0] = 1
      /\ \A n \in Nat : PowerOfTwo[n + 1] = 2 * PowerOfTwo[n]
  <2>1. \A n \in Nat : PowerOfTwo[n] = IF n = 0 THEN 1 ELSE 2 * PowerOfTwo[n - 1]
    BY <1>6
  <2>2. ASSUME NEW n \in Nat PROVE PowerOfTwo[n + 1] = 2 * PowerOfTwo[n]
    <3>1. n + 1 \in Nat /\ n + 1 # 0 /\ (n + 1) - 1 = n
      OBVIOUS
    <3> QED BY <2>1, <3>1
  <2> QED BY <2>1, <2>2
<1>8. ASSUME NEW n \in Nat PROVE PowerOfTwo[n] \in Nat
  <2> DEFINE Bad == {m \in Nat : PowerOfTwo[m] \notin Nat}
  <2> SUFFICES ASSUME Bad # {} PROVE FALSE
    OBVIOUS
  <2>1. PICK k \in Bad : \A l \in Bad : k <= l
    <3>1. Bad \subseteq Nat
      OBVIOUS
    <3> HIDE DEF Bad
    <3> QED BY <3>1, LeastNumber
  <2>2. k \in Nat /\ PowerOfTwo[k] \notin Nat
    OBVIOUS
  <2>3. k # 0
    BY <2>2, <1>7
  <2>4. k - 1 \in Nat /\ k - 1 \notin Bad /\ (k - 1) + 1 = k
    BY <2>1, <2>2, <2>3
  <2>5. PowerOfTwo[k - 1] \in Nat
    BY <2>4
  <2>6. PowerOfTwo[(k - 1) + 1] = 2 * PowerOfTwo[k - 1]
    BY <2>4, <1>7
  <2> QED BY <2>2, <2>4, <2>5, <2>6
<1>9. PowerOfTwo = [n \in Nat |-> PowerOfTwo[n]]
  BY <1>6
<1> QED BY <1>7, <1>8, <1>9

LEMMA PowerPositive == \A n \in Nat : PowerOfTwo[n] \in Nat \ {0}
<1> DEFINE Bad == {m \in Nat : PowerOfTwo[m] \notin Nat \ {0}}
<1> SUFFICES ASSUME Bad # {} PROVE FALSE
  OBVIOUS
<1>1. PICK k \in Bad : \A l \in Bad : k <= l
  <2>1. Bad \subseteq Nat
    OBVIOUS
  <2> HIDE DEF Bad
  <2> QED BY <2>1, LeastNumber
<1>2. k \in Nat /\ PowerOfTwo[k] \notin Nat \ {0}
  OBVIOUS
<1>3. k # 0
  BY <1>2, PowerOfTwoDef
<1>4. k - 1 \in Nat /\ k - 1 \notin Bad /\ (k - 1) + 1 = k
  BY <1>1, <1>2, <1>3
<1>5. PowerOfTwo[k - 1] \in Nat \ {0}
  BY <1>4
<1>6. PowerOfTwo[(k - 1) + 1] = 2 * PowerOfTwo[k - 1]
  BY <1>4, PowerOfTwoDef
<1> QED BY <1>2, <1>4, <1>5, <1>6

LEMMA PowerOfSum ==
    ASSUME NEW m \in Nat, NEW n \in Nat
    PROVE  PowerOfTwo[m + n] = PowerOfTwo[m] * PowerOfTwo[n]
<1> DEFINE Bad == {i \in Nat : PowerOfTwo[m + i] # PowerOfTwo[m] * PowerOfTwo[i]}
<1> SUFFICES ASSUME Bad # {} PROVE FALSE
  OBVIOUS
<1>1. PICK k \in Bad : \A l \in Bad : k <= l
  <2>1. Bad \subseteq Nat
    OBVIOUS
  <2> HIDE DEF Bad
  <2> QED BY <2>1, LeastNumber
<1>2. k \in Nat /\ PowerOfTwo[m + k] # PowerOfTwo[m] * PowerOfTwo[k]
  OBVIOUS
<1>3. k # 0
  <2>1. PowerOfTwo[m] \in Nat /\ PowerOfTwo[0] = 1
    BY PowerOfTwoDef
  <2>2. PowerOfTwo[m] * 1 = PowerOfTwo[m] /\ m + 0 = m
    BY <2>1
  <2> QED BY <1>2, <2>1, <2>2
<1>4. k - 1 \in Nat /\ k - 1 \notin Bad
  BY <1>1, <1>2, <1>3
<1> DEFINE x == PowerOfTwo[m]
<1> DEFINE y == PowerOfTwo[k - 1]
<1>5. PowerOfTwo[m + (k - 1)] = x * y
  BY <1>4
<1>6. /\ (m + (k - 1)) + 1 = m + k /\ (k - 1) + 1 = k
      /\ m + (k - 1) \in Nat
  BY <1>2, <1>4
<1>7. PowerOfTwo[m + k] = 2 * (x * y)
  BY <1>5, <1>6, PowerOfTwoDef
<1>8. PowerOfTwo[k] = 2 * y
  BY <1>4, <1>6, PowerOfTwoDef
<1>9. x \in Nat /\ y \in Nat
  BY <1>4, PowerOfTwoDef
<1>10. PowerOfTwo[m + k] # x * PowerOfTwo[k]
  BY <1>2
<1> HIDE DEF x, y
<1>11. x * (2 * y) = 2 * (x * y)
  BY <1>9, SMTT(30)
<1> QED BY <1>7, <1>8, <1>10, <1>11

-----------------------------------------------------------------------------
(* Decay (apply_demurrage).                                                 *)

LEMMA LeftType ==
    ASSUME NEW x \in Nat, NEW n \in Nat
    PROVE  Left(x, n) \in Nat
<1>1. PowerOfTwo[n] \in Nat \ {0}
  BY PowerPositive
<1> QED BY <1>1, QuotientBounds DEF Left

LEMMA LeftAtOnce ==
    ASSUME NEW x \in Nat
    PROVE  Left(x, 0) = x
<1>1. PowerOfTwo[0] = 1
  BY PowerOfTwoDef
<1>2. x \div 1 = x
  OBVIOUS
<1> QED BY <1>1, <1>2 DEF Left

LEMMA LeftOfNothing ==
    ASSUME NEW n \in Nat
    PROVE  Left(0, n) = 0
<1> DEFINE p == PowerOfTwo[n]
<1>1. p \in Nat \ {0}
  BY PowerPositive
<1> HIDE DEF p
<1>2. 0 \div p = 0
  BY <1>1, SMTT(30)
<1> QED BY <1>2 DEF Left, p

\* Decay in two steps is decay in one: nothing is lost by being late.
LEMMA LeftTwice ==
    ASSUME NEW x \in Nat, NEW m \in Nat, NEW n \in Nat
    PROVE  Left(Left(x, m), n) = Left(x, m + n)
<1> DEFINE p == PowerOfTwo[m]
<1> DEFINE q == PowerOfTwo[n]
<1>1. p \in Nat \ {0} /\ q \in Nat \ {0}
  BY PowerPositive
<1>2. PowerOfTwo[m + n] = p * q
  BY PowerOfSum
<1> HIDE DEF p, q
<1>3. (x \div p) \div q = x \div (p * q)
  BY <1>1, QuotientTwice
<1> QED BY <1>2, <1>3 DEF Left, p, q

LEMMA LeftMonotone ==
    ASSUME NEW x \in Nat, NEW y \in Nat, NEW n \in Nat, x <= y
    PROVE  Left(x, n) <= Left(y, n)
<1>1. PowerOfTwo[n] \in Nat \ {0}
  BY PowerPositive
<1> QED BY <1>1, QuotientMonotone DEF Left

\* Decay takes money and never gives any.
LEMMA LeftDecreases ==
    ASSUME NEW x \in Nat, NEW m \in Nat, NEW n \in Nat, m <= n
    PROVE  Left(x, n) <= Left(x, m)
<1> DEFINE d == n - m
<1> DEFINE y == Left(x, m)
<1> DEFINE p == PowerOfTwo[d]
<1>1. d \in Nat /\ n = m + d
  OBVIOUS
<1>2. Left(x, n) = Left(y, d)
  BY <1>1, LeftTwice
<1>3. y \in Nat
  BY LeftType
<1>4. p \in Nat \ {0}
  BY <1>1, PowerPositive
<1> HIDE DEF d, y, p
<1> DEFINE z == y \div p
<1>5. z \in Nat /\ p * z \in Nat /\ p * z <= y
  BY <1>3, <1>4, QuotientBounds
<1> HIDE DEF z
<1>6. z <= p * z
  <2>1. p * z = z + (p - 1) * z /\ (p - 1) * z \in Nat
    BY <1>4, <1>5, SMTT(30)
  <2> DEFINE w == (p - 1) * z
  <2>2. w \in Nat /\ p * z = z + w
    BY <2>1
  <2> HIDE DEF w
  <2> QED BY <1>5, <2>2
<1>7. z <= y
  BY <1>3, <1>5, <1>6
<1> QED BY <1>2, <1>7 DEF Left, z, p, y

LEMMA LeftOfSum ==
    ASSUME NEW x \in Nat, NEW y \in Nat, NEW n \in Nat
    PROVE  Left(x, n) + Left(y, n) <= Left(x + y, n)
<1>1. PowerOfTwo[n] \in Nat \ {0}
  BY PowerPositive
<1> QED BY <1>1, QuotientOfSum DEF Left

LEMMA LeftOfMore ==
    ASSUME NEW x \in Nat, NEW y \in Nat, NEW n \in Nat
    PROVE  Left(x + y, n) <= Left(x, n) + y
<1>1. PowerOfTwo[n] \in Nat \ {0}
  BY PowerPositive
<1> QED BY <1>1, QuotientOfMore DEF Left

\* The sum of what is left is at most what is left of the sum.
LEMMA LeftOfTotal ==
    ASSUME NEW S, IsFiniteSet(S), NEW f, \A x \in S : f[x] \in Nat, NEW n \in Nat,
           NEW g, \A x \in S : g[x] = Left(f[x], n)
    PROVE  SumFunctionOnSet(g, S) <= Left(SumFunctionOnSet(f, S), n)
<1> DEFINE F(s) == SumFunctionOnSet(f, s)
<1> DEFINE G(s) == SumFunctionOnSet(g, s)
<1> DEFINE Bad == {s \in SUBSET S : ~ (G(s) <= Left(F(s), n))}
<1>0. \A x \in S : g[x] \in Nat
  BY LeftType
<1>1. ASSUME NEW s \in SUBSET S
      PROVE  F(s) \in Nat /\ G(s) \in Nat /\ Left(F(s), n) \in Nat /\ Summable(f, s) /\ Summable(g, s)
  <2>1. IsFiniteSet(s) /\ (\A x \in s : f[x] \in Nat /\ g[x] \in Nat)
    BY <1>0, FS_Subset
  <2>2. F(s) \in Nat /\ G(s) \in Nat
    BY <2>1, SumNatural
  <2>3. Left(F(s), n) \in Nat
    BY <2>2, LeftType
  <2> QED BY <2>1, <2>2, <2>3 DEF Summable
<1>2. \A s \in SUBSET S : \A x \in s : F(s) = f[x] + F(s \ {x}) /\ G(s) = g[x] + G(s \ {x})
  <2> TAKE s \in SUBSET S
  <2> TAKE x \in s
  <2>1. Summable(f, s) /\ Summable(g, s)
    BY <1>1
  <2> QED BY <2>1, SumSplit
<1>3. F({}) = 0 /\ G({}) = 0
  BY SumEmpty
<1> HIDE DEF F, G
<1> SUFFICES ASSUME Bad # {} PROVE FALSE
  BY DEF F, G
<1>4. PICK s \in Bad : \A t \in Bad : t \subseteq s => t = s
  <2>1. Bad \subseteq SUBSET S
    OBVIOUS
  <2> HIDE DEF Bad
  <2> QED BY <2>1, SmallestSubset
<1>5. s \in SUBSET S /\ ~ (G(s) <= Left(F(s), n))
  OBVIOUS
<1>6. s # {}
  <2>1. Left(0, n) = 0
    BY LeftOfNothing
  <2> QED BY <1>3, <1>5, <2>1
<1>7. PICK x \in s : TRUE
  BY <1>6
<1> DEFINE r == s \ {x}
<1>8. r \in SUBSET S /\ r \notin Bad
  BY <1>4, <1>5, <1>7
<1>9. G(r) <= Left(F(r), n)
  BY <1>8
<1>10. F(s) = f[x] + F(r) /\ G(s) = g[x] + G(r)
  BY <1>2, <1>5, <1>7
<1>11. f[x] \in Nat /\ g[x] = Left(f[x], n) /\ g[x] \in Nat
  BY <1>0, <1>5, <1>7
<1>12. F(r) \in Nat /\ G(r) \in Nat /\ Left(F(r), n) \in Nat /\ Left(F(s), n) \in Nat
  BY <1>1, <1>5, <1>8
<1>13. Left(f[x], n) + Left(F(r), n) <= Left(F(s), n)
  BY <1>10, <1>11, <1>12, LeftOfSum
<1> HIDE DEF r
<1> QED BY <1>5, <1>9, <1>10, <1>11, <1>12, <1>13

-----------------------------------------------------------------------------
(* Entries.                                                                 *)

\* f maps members of S to entries that were written up to block b.
Entries(f, S, b) ==
    /\ DOMAIN f \subseteq S
    /\ \A x \in DOMAIN f : f[x].principal \in Nat /\ f[x].last_update \in 0 .. b

\* What an entry of f is worth in block b, at rate r; nothing if there is none.
Value(f, x, r, b) ==
    IF x \in DOMAIN f THEN Left(f[x].principal, r * (b - f[x].last_update)) ELSE 0

LEMMA EntriesInsert ==
    ASSUME NEW f, NEW S, NEW b \in Nat, Entries(f, S, b), NEW x \in S, NEW n \in Nat
    PROVE  Entries(Insert(f, x, [principal |-> n, last_update |-> b]), S, b)
BY DEF Entries, Insert

LEMMA EntriesRemove ==
    ASSUME NEW f, NEW S, NEW b \in Nat, Entries(f, S, b), NEW X
    PROVE  Entries(Remove(f, X), S, b)
BY DEF Entries, Remove

LEMMA EntriesLater ==
    ASSUME NEW f, NEW S, NEW b \in Nat, Entries(f, S, b)
    PROVE  Entries(f, S, b + 1)
BY DEF Entries

LEMMA Halvings ==
    ASSUME NEW r \in Nat, NEW b \in Nat, NEW l \in 0 .. b
    PROVE  r * (b - l) \in Nat
<1> DEFINE d == b - l
<1>1. d \in Nat
  OBVIOUS
<1> HIDE DEF d
<1>2. r * d \in Nat
  BY <1>1, SMTT(30)
<1> QED BY <1>2 DEF d

LEMMA ValueType ==
    ASSUME NEW f, NEW S, NEW b \in Nat, Entries(f, S, b), NEW x, NEW r \in Nat
    PROVE  Value(f, x, r, b) \in Nat
<1>1. CASE x \in DOMAIN f
  <2>1. f[x].principal \in Nat /\ f[x].last_update \in 0 .. b
    BY <1>1 DEF Entries
  <2>2. r * (b - f[x].last_update) \in Nat
    BY <2>1, Halvings
  <2> QED BY <1>1, <2>1, <2>2, LeftType DEF Value
<1> QED BY <1>1 DEF Value

LEMMA ValueInsert ==
    ASSUME NEW f, NEW b \in Nat, NEW x, NEW n \in Nat, NEW r \in Nat, NEW y
    PROVE  Value(Insert(f, x, [principal |-> n, last_update |-> b]), y, r, b)
              = IF y = x THEN n ELSE Value(f, y, r, b)
<1> DEFINE g == Insert(f, x, [principal |-> n, last_update |-> b])
<1>1. CASE y = x
  <2>1. y \in DOMAIN g /\ g[y].principal = n /\ g[y].last_update = b
    BY <1>1 DEF Insert
  <2>2. r * (b - b) = 0
    <3>1. b - b = 0
      OBVIOUS
    <3> QED BY <3>1, SMTT(30)
  <2> HIDE DEF g
  <2>3. Value(g, y, r, b) = Left(n, 0)
    BY <2>1, <2>2 DEF Value
  <2>4. Value(g, y, r, b) = n
    BY <2>3, LeftAtOnce
  <2> QED BY <1>1, <2>4 DEF g
<1>2. CASE y # x
  <2>1. (y \in DOMAIN g <=> y \in DOMAIN f) /\ (y \in DOMAIN f => g[y] = f[y])
    BY <1>2 DEF Insert
  <2> HIDE DEF g
  <2>2. Value(g, y, r, b) = Value(f, y, r, b)
    BY <2>1 DEF Value
  <2> QED BY <1>2, <2>2 DEF g
<1> QED BY <1>1, <1>2

LEMMA ValueRemove ==
    ASSUME NEW f, NEW b, NEW X, NEW r, NEW y
    PROVE  Value(Remove(f, X), y, r, b) = IF y \in X THEN 0 ELSE Value(f, y, r, b)
BY DEF Value, Remove

\* The value of an entry decays with every block.
LEMMA ValueLater ==
    ASSUME NEW f, NEW S, NEW b \in Nat, Entries(f, S, b), NEW x, NEW r \in Nat
    PROVE  Value(f, x, r, b + 1) = Left(Value(f, x, r, b), r)
<1>1. CASE x \in DOMAIN f
  <2> DEFINE p == f[x].principal
  <2> DEFINE d == b - f[x].last_update
  <2>1. p \in Nat /\ d \in Nat /\ (b + 1) - f[x].last_update = d + 1
    BY <1>1 DEF Entries
  <2>2. Value(f, x, r, b) = Left(p, r * d) /\ Value(f, x, r, b + 1) = Left(p, r * (d + 1))
    BY <1>1, <2>1 DEF Value
  <2> HIDE DEF p, d
  <2>3. r * d \in Nat /\ r * (d + 1) = r * d + r
    BY <2>1, SMTT(30)
  <2> DEFINE h == r * d
  <2>4. h \in Nat /\ Value(f, x, r, b) = Left(p, h) /\ Value(f, x, r, b + 1) = Left(p, h + r)
    BY <2>2, <2>3
  <2> HIDE DEF h
  <2> QED BY <2>1, <2>4, LeftTwice
<1>2. CASE x \notin DOMAIN f
  BY <1>2, LeftOfNothing DEF Value
<1> QED BY <1>1, <1>2

\* A higher rate makes it smaller.
LEMMA ValueRate ==
    ASSUME NEW f, NEW S, NEW b \in Nat, Entries(f, S, b), NEW x, NEW r \in Nat, NEW s \in Nat,
           r <= s
    PROVE  Value(f, x, s, b) <= Value(f, x, r, b)
<1>1. CASE x \in DOMAIN f
  <2> DEFINE p == f[x].principal
  <2> DEFINE d == b - f[x].last_update
  <2>1. p \in Nat /\ d \in Nat
    BY <1>1 DEF Entries
  <2>2. Value(f, x, r, b) = Left(p, r * d) /\ Value(f, x, s, b) = Left(p, s * d)
    BY <1>1 DEF Value
  <2> HIDE DEF p, d
  <2>3. r * d \in Nat /\ s * d \in Nat /\ r * d <= s * d
    <3> DEFINE e == s - r
    <3>1. e \in Nat /\ s = r + e
      OBVIOUS
    <3> HIDE DEF e
    <3>2. s * d = r * d + e * d /\ e * d \in Nat /\ r * d \in Nat
      BY <2>1, <3>1, SMTT(30)
    <3> DEFINE u == r * d
    <3> DEFINE v == e * d
    <3> DEFINE w == s * d
    <3>3. u \in Nat /\ v \in Nat /\ w = u + v
      BY <3>2
    <3> HIDE DEF u, v, w
    <3>4. u <= w /\ w \in Nat
      BY <3>3
    <3> QED BY <3>3, <3>4 DEF u, w
  <2> DEFINE u == r * d
  <2> DEFINE w == s * d
  <2>4. u \in Nat /\ w \in Nat /\ u <= w
    BY <2>3
  <2>5. Value(f, x, r, b) = Left(p, u) /\ Value(f, x, s, b) = Left(p, w)
    BY <2>2
  <2> HIDE DEF u, w
  <2> QED BY <2>1, <2>4, <2>5, LeftDecreases
<1>2. CASE x \notin DOMAIN f
  BY <1>2 DEF Value
<1> QED BY <1>1, <1>2

-----------------------------------------------------------------------------
(* The type of the state.                                                   *)

\* Entries are never from the future, there is no money without an issuance,
\* and the community whose currency pays a fee stays while it does.
BalancesInv ==
    /\ block \in Nat /\ block <= MaxBlock
    /\ DOMAIN Balance = Community
    /\ \A c \in Community : Entries(Balance[c], Account, block)
    /\ Entries(TotalIssuance, Community, block)
    /\ \A c \in Community : DOMAIN Balance[c] # {} => c \in DOMAIN TotalIssuance
    /\ DemurragePerBlock \in [Community -> Rates \cup {NoRate}]
    /\ FeeConversionFactor \in Factors
    /\ sufficients \in [Account -> Nat]
    /\ charge.credit \in Nat
    /\ charge # NoCharge => /\ charge.who \in Account
                            /\ charge.cid \in DOMAIN TotalIssuance
                            /\ charge.credit # 0
    /\ settled \in Nat

LEMMA RateType ==
    ASSUME BalancesInv, NEW c \in Community
    PROVE  Demurrage(c) \in Nat
BY BalancesAssumption DEF BalancesInv, Demurrage

\* BalanceOf and IssuanceOf are values of entries.
LEMMA BalanceValue ==
    ASSUME BalancesInv, NEW c \in Community, NEW a \in Account
    PROVE  /\ BalanceOf(c, a) = Value(Balance[c], a, Demurrage(c), block)
           /\ BalanceOf(c, a) \in Nat
<1>1. Demurrage(c) \in Nat
  BY RateType
<1>2. block \in Nat /\ Entries(Balance[c], Account, block)
  BY DEF BalancesInv
<1>3. BalanceOf(c, a) = Value(Balance[c], a, Demurrage(c), block)
  <2>1. CASE HasAccount(c, a)
    BY <2>1 DEF BalanceOf, BalanceEntryUpdated, ApplyDemurrage, HasAccount, Value
  <2>2. CASE ~ HasAccount(c, a)
    <3> DEFINE h == Demurrage(c) * (block - 0)
    <3>1. h \in Nat
      BY <1>1, <1>2, Halvings
    <3>2. BalanceOf(c, a) = Left(0, h)
      BY <2>2 DEF BalanceOf, BalanceEntryUpdated, ApplyDemurrage, HasAccount, NoEntry
    <3> HIDE DEF h
    <3>3. BalanceOf(c, a) = 0
      BY <3>1, <3>2, LeftOfNothing
    <3> QED BY <2>2, <3>3 DEF HasAccount, Value
  <2> QED BY <2>1, <2>2
<1> QED BY <1>1, <1>2, <1>3, ValueType

LEMMA IssuanceValue ==
    ASSUME BalancesInv, NEW c \in Community
    PROVE  /\ IssuanceOf(c) = Value(TotalIssuance, c, Demurrage(c), block)
           /\ IssuanceOf(c) \in Nat
<1>1. Demurrage(c) \in Nat
  BY RateType
<1>2. block \in Nat /\ Entries(TotalIssuance, Community, block)
  BY DEF BalancesInv
<1>3. IssuanceOf(c) = Value(TotalIssuance, c, Demurrage(c), block)
  <2>1. CASE c \in DOMAIN TotalIssuance
    BY <2>1 DEF IssuanceOf, IssuanceEntryUpdated, ApplyDemurrage, Value
  <2>2. CASE c \notin DOMAIN TotalIssuance
    <3> DEFINE h == Demurrage(c) * (block - 0)
    <3>1. h \in Nat
      BY <1>1, <1>2, Halvings
    <3>2. IssuanceOf(c) = Left(0, h)
      BY <2>2 DEF IssuanceOf, IssuanceEntryUpdated, ApplyDemurrage, NoEntry
    <3> HIDE DEF h
    <3>3. IssuanceOf(c) = 0
      BY <3>1, <3>2, LeftOfNothing
    <3> QED BY <2>2, <3>3 DEF Value
  <2> QED BY <2>1, <2>2
<1> QED BY <1>1, <1>2, <1>3, ValueType

\* All of it, in one formula about a state.
ValuesInv ==
    \A c \in Community :
        /\ Demurrage(c) \in Nat
        /\ IssuanceOf(c) = Value(TotalIssuance, c, Demurrage(c), block)
        /\ IssuanceOf(c) \in Nat
        /\ \A a \in Account : /\ BalanceOf(c, a) = Value(Balance[c], a, Demurrage(c), block)
                              /\ BalanceOf(c, a) \in Nat

LEMMA Values == BalancesInv => ValuesInv
BY RateType, BalanceValue, IssuanceValue DEF ValuesInv

\* The same of the next state.
LEMMA NextValues == BalancesInv' => ValuesInv'
BY Values, PTL

LEMMA WroteBalance ==
    ASSUME BalancesInv, NEW c \in Community, NEW f, Entries(f, Account, block),
           Balance' = [Balance EXCEPT ![c] = f], block' = block
    PROVE  /\ DOMAIN Balance' = Community
           /\ Balance'[c] = f
           /\ \A d \in Community \ {c} : Balance'[d] = Balance[d]
           /\ \A d \in Community : Entries(Balance'[d], Account, block')
<1>1. DOMAIN Balance = Community /\ \A d \in Community : Entries(Balance[d], Account, block)
  BY DEF BalancesInv
<1>2. /\ DOMAIN Balance' = Community
      /\ Balance'[c] = f
      /\ \A d \in Community \ {c} : Balance'[d] = Balance[d]
  BY <1>1
<1> QED BY <1>1, <1>2

LEMMA Coins ==
    ASSUME NEW n \in Nat
    PROVE  Fungible(n) \in Nat /\ BalanceType(n) \in Nat
<1>1. Granularity \in Nat \ {0}
  BY BalancesAssumption
<1>2. n * Granularity \in Nat
  BY <1>1, SMTT(30)
<1> QED BY <1>1, <1>2, QuotientBounds DEF Fungible, BalanceType

LEMMA FeeType ==
    ASSUME BalancesInv, NEW native \in NativeFees
    PROVE  AssetFee(native) \in Nat
<1>1. /\ native \in Nat /\ Income \in Nat /\ MaxFungible \in Nat /\ FeeConversionFactor \in Nat
      /\ KiloKsm \in Nat \ {0}
  BY BalancesAssumption DEF BalancesInv
<1> DEFINE x == AtMost(native * Income, MaxFungible)
<1> DEFINE y == AtMost(x * FeeConversionFactor, MaxFungible)
<1>2. native * Income \in Nat
  BY <1>1, SMTT(30)
<1>3. x \in Nat
  BY <1>1, <1>2 DEF AtMost
<1> HIDE DEF x
<1>4. x * FeeConversionFactor \in Nat
  BY <1>1, <1>3, SMTT(30)
<1>5. y \in Nat
  BY <1>1, <1>4 DEF AtMost
<1> HIDE DEF y
<1>6. y \div KiloKsm \in Nat
  BY <1>1, <1>5, QuotientBounds
<1>7. ApplyFeeConversionFactor(native, Income, FeeConversionFactor) \in Nat
  BY <1>6 DEF ApplyFeeConversionFactor, x, y
<1> HIDE DEF x, y
<1> QED BY <1>1, <1>7 DEF AssetFee

LEMMA MovedEntries ==
    ASSUME BalancesInv, NEW c \in Community, NEW source \in Account, NEW dest \in Account,
           NEW amount \in Nat, BalanceOf(c, source) >= amount
    PROVE  Entries(Moved(c, source, dest, amount), Account, block)
<1> DEFINE x == Minus(BalanceOf(c, source), amount)
<1> DEFINE y == AtMost(BalanceOf(c, dest) + amount, MaxBalance)
<1> DEFINE one == Insert(Balance[c], source, Entry(x))
<1> DEFINE both == Insert(one, dest, Entry(y))
<1>1. BalanceOf(c, source) \in Nat /\ BalanceOf(c, dest) \in Nat /\ MaxBalance \in Nat
  BY BalanceValue, BalancesAssumption
<1>2. x \in Nat /\ y \in Nat
  BY <1>1 DEF Minus, AtMost
<1> HIDE DEF x, y
<1>3. block \in Nat /\ Entries(Balance[c], Account, block)
  BY DEF BalancesInv
<1>4. Entries(one, Account, block)
  BY <1>2, <1>3, EntriesInsert DEF Entry
<1> HIDE DEF one
<1>5. Entries(both, Account, block)
  BY <1>2, <1>3, <1>4, EntriesInsert DEF Entry
<1> HIDE DEF both
<1>6. Entries(Remove(both, {source}), Account, block)
  BY <1>3, <1>5, EntriesRemove
<1>7. Moved(c, source, dest, amount)
        = IF Emptied(c, source, amount) THEN Remove(both, {source}) ELSE both
  BY DEF Moved, both, one, x, y
<1> QED BY <1>5, <1>6, <1>7

\* Every step keeps the types.
LEMMA TransferType ==
    ASSUME BalancesInv, NEW c \in Community, NEW source \in Account, NEW dest \in Account,
           NEW amount \in Nat, transfer(c, source, dest, amount)
    PROVE  BalancesInv'
<1>0. /\ DoTransfer(c, source, dest, amount)
      /\ CanTransfer(c, source, dest, amount)
      /\ UNCHANGED <<block, TotalIssuance, DemurragePerBlock, FeeConversionFactor, charge, settled>>
  BY DEF transfer, DoTransfer, history
<1>1. CASE amount = 0
  <2>1. UNCHANGED <<Balance, sufficients>>
    BY <1>0, <1>1 DEF DoTransfer
  <2> QED BY <1>0, <2>1 DEF BalancesInv, NoCharge, Entries
<1>2. CASE amount # 0
  <2>1. HasAccount(c, source) /\ BalanceOf(c, source) >= amount
    BY <1>0, <1>2 DEF CanTransfer
  <2> DEFINE f == IF source = dest THEN Insert(Balance[c], source, BalanceEntryUpdated(c, source))
                  ELSE Moved(c, source, dest, amount)
  <2>2. Balance' = [Balance EXCEPT ![c] = f]
    BY <1>0, <1>2 DEF DoTransfer
  <2>3. Entries(f, Account, block)
    <3>1. CASE source = dest
      <4>1. BalanceOf(c, source) \in Nat
        BY BalanceValue
      <4>2. BalanceEntryUpdated(c, source) = [principal |-> BalanceOf(c, source), last_update |-> block]
        BY DEF BalanceOf, BalanceEntryUpdated, ApplyDemurrage
      <4>3. block \in Nat /\ Entries(Balance[c], Account, block)
        BY DEF BalancesInv
      <4> QED BY <3>1, <4>1, <4>2, <4>3, EntriesInsert
    <3>2. CASE source # dest
      BY <2>1, <3>2, MovedEntries
    <3> QED BY <3>1, <3>2
  <2> HIDE DEF f
  <2>4. /\ DOMAIN Balance' = Community /\ Balance'[c] = f
        /\ \A d \in Community \ {c} : Balance'[d] = Balance[d]
        /\ \A d \in Community : Entries(Balance'[d], Account, block')
    BY <1>0, <2>2, <2>3, WroteBalance
  <2>5. c \in DOMAIN TotalIssuance
    BY <2>1 DEF HasAccount, BalancesInv
  <2>6. sufficients' \in [Account -> Nat]
    <3>1. sufficients \in [Account -> Nat]
      BY DEF BalancesInv
    <3>2. CASE source = dest
      BY <1>0, <3>1, <3>2 DEF DoTransfer
    <3>3. CASE source # dest
      <4> DEFINE s == [sufficients EXCEPT ![dest] = IF HasAccount(c, dest) THEN sufficients[dest]
                                                    ELSE sufficients[dest] + 1]
      <4>1. s \in [Account -> Nat]
        BY <3>1
      <4>2. sufficients' = [s EXCEPT ![source] = Minus(s[source], Released(c, source, amount))]
        BY <1>0, <1>2, <3>3 DEF DoTransfer
      <4> HIDE DEF s
      <4>3. Released(c, source, amount) \in Nat
        BY DEF Released
      <4>4. Minus(s[source], Released(c, source, amount)) \in Nat
        BY <4>1, <4>3 DEF Minus
      <4> QED BY <4>1, <4>2, <4>4
    <3> QED BY <3>2, <3>3
  <2>7. Entries(TotalIssuance', Community, block')
    BY <1>0 DEF BalancesInv
  <2> QED BY <1>0, <2>4, <2>5, <2>6, <2>7 DEF BalancesInv, NoCharge
<1> QED BY <1>1, <1>2

\* An entry of one account and the one of the issuance are written: issue,
\* burn and the settlement of fees.
LEMMA WroteBoth ==
    ASSUME BalancesInv, NEW c \in Community, NEW a \in Account, NEW n \in Nat, NEW m \in Nat,
           Balance' = [Balance EXCEPT ![c] = Insert(Balance[c], a, Entry(n))],
           TotalIssuance' = Insert(TotalIssuance, c, Entry(m)),
           block' = block
    PROVE  /\ DOMAIN Balance' = Community
           /\ Balance'[c] = Insert(Balance[c], a, Entry(n))
           /\ \A d \in Community \ {c} : Balance'[d] = Balance[d]
           /\ \A d \in Community : Entries(Balance'[d], Account, block')
           /\ Entries(TotalIssuance', Community, block')
           /\ \A d \in Community : DOMAIN Balance'[d] # {} => d \in DOMAIN TotalIssuance'
           /\ DOMAIN TotalIssuance \subseteq DOMAIN TotalIssuance'
<1> DEFINE f == Insert(Balance[c], a, Entry(n))
<1>1. /\ block \in Nat /\ Entries(Balance[c], Account, block) /\ Entries(TotalIssuance, Community, block)
      /\ \A d \in Community : DOMAIN Balance[d] # {} => d \in DOMAIN TotalIssuance
  BY DEF BalancesInv
<1>2. Entries(f, Account, block)
  BY <1>1, EntriesInsert DEF Entry
<1>3. Entries(TotalIssuance', Community, block')
  BY <1>1, EntriesInsert DEF Entry
<1>4. DOMAIN TotalIssuance' = DOMAIN TotalIssuance \cup {c}
  BY DEF Insert
<1> HIDE DEF f
<1>5. /\ DOMAIN Balance' = Community /\ Balance'[c] = f
      /\ \A d \in Community \ {c} : Balance'[d] = Balance[d]
      /\ \A d \in Community : Entries(Balance'[d], Account, block')
  BY <1>2, WroteBalance DEF f
<1> QED BY <1>1, <1>3, <1>4, <1>5 DEF f

LEMMA IssueType ==
    ASSUME BalancesInv, NEW c \in Community, NEW who \in Account, NEW amount \in Nat,
           issue(c, who, amount)
    PROVE  BalancesInv'
<1>1. BalanceOf(c, who) \in Nat /\ IssuanceOf(c) \in Nat
  BY BalanceValue, IssuanceValue
<1>2. BalanceOf(c, who) + amount \in Nat /\ IssuanceOf(c) + amount \in Nat
  BY <1>1
<1>3. /\ Balance' = [Balance EXCEPT ![c] = Insert(Balance[c], who, Entry(BalanceOf(c, who) + amount))]
      /\ TotalIssuance' = Insert(TotalIssuance, c, Entry(IssuanceOf(c) + amount))
      /\ UNCHANGED <<block, DemurragePerBlock, FeeConversionFactor, charge, settled>>
  BY DEF issue, Issue, history
<1>4. /\ DOMAIN Balance' = Community
      /\ \A d \in Community : Entries(Balance'[d], Account, block')
      /\ Entries(TotalIssuance', Community, block')
      /\ \A d \in Community : DOMAIN Balance'[d] # {} => d \in DOMAIN TotalIssuance'
      /\ DOMAIN TotalIssuance \subseteq DOMAIN TotalIssuance'
  BY <1>2, <1>3, WroteBoth
<1>5. sufficients' \in [Account -> Nat]
  BY DEF BalancesInv, issue, Issue
<1> QED BY <1>3, <1>4, <1>5 DEF BalancesInv, NoCharge

LEMMA BurnType ==
    ASSUME BalancesInv, NEW c \in Community, NEW who \in Account, NEW amount \in Nat,
           burn(c, who, amount)
    PROVE  BalancesInv'
<1>1. BalanceOf(c, who) \in Nat /\ IssuanceOf(c) \in Nat /\ BalanceOf(c, who) >= amount
  BY BalanceValue, IssuanceValue DEF burn, Burn
<1>2. BalanceOf(c, who) - amount \in Nat /\ Minus(IssuanceOf(c), amount) \in Nat
  BY <1>1 DEF Minus
<1>3. /\ Balance' = [Balance EXCEPT ![c] = Insert(Balance[c], who, Entry(BalanceOf(c, who) - amount))]
      /\ TotalIssuance' = Insert(TotalIssuance, c, Entry(Minus(IssuanceOf(c), amount)))
      /\ UNCHANGED <<block, DemurragePerBlock, FeeConversionFactor, charge, settled, sufficients>>
  BY DEF burn, Burn
<1>4. /\ DOMAIN Balance' = Community
      /\ \A d \in Community : Entries(Balance'[d], Account, block')
      /\ Entries(TotalIssuance', Community, block')
      /\ \A d \in Community : DOMAIN Balance'[d] # {} => d \in DOMAIN TotalIssuance'
      /\ DOMAIN TotalIssuance \subseteq DOMAIN TotalIssuance'
  BY <1>2, <1>3, WroteBoth
<1> QED BY <1>3, <1>4 DEF BalancesInv, NoCharge

LEMMA PurgeType ==
    ASSUME BalancesInv, NEW c \in Community, purge_balances(c)
    PROVE  BalancesInv'
<1> DEFINE f == Remove(Balance[c], DOMAIN Balance[c])
<1>1. /\ Balance' = [Balance EXCEPT ![c] = f]
      /\ TotalIssuance' = Remove(TotalIssuance, {c})
      /\ DemurragePerBlock' = [DemurragePerBlock EXCEPT ![c] = NoRate]
      /\ UNCHANGED <<block, sufficients, FeeConversionFactor, charge, settled>>
      /\ charge = NoCharge
  BY DEF purge_balances, Idle
<1>2. /\ block \in Nat /\ Entries(Balance[c], Account, block) /\ Entries(TotalIssuance, Community, block)
      /\ \A d \in Community : DOMAIN Balance[d] # {} => d \in DOMAIN TotalIssuance
  BY DEF BalancesInv
<1>3. DOMAIN f = {} /\ DOMAIN TotalIssuance' = DOMAIN TotalIssuance \ {c}
  BY <1>1 DEF Remove
<1>4. Entries(f, Account, block) /\ Entries(TotalIssuance', Community, block')
  BY <1>1, <1>2, EntriesRemove
<1> HIDE DEF f
<1>5. /\ DOMAIN Balance' = Community /\ Balance'[c] = f
      /\ \A d \in Community \ {c} : Balance'[d] = Balance[d]
      /\ \A d \in Community : Entries(Balance'[d], Account, block')
  BY <1>1, <1>4, WroteBalance
<1>6. \A d \in Community : DOMAIN Balance'[d] # {} => d \in DOMAIN TotalIssuance'
  BY <1>2, <1>3, <1>5
<1>7. DemurragePerBlock' \in [Community -> Rates \cup {NoRate}]
  BY <1>1 DEF BalancesInv
<1> QED BY <1>1, <1>4, <1>5, <1>6, <1>7 DEF BalancesInv, NoCharge

LEMMA RateStepType ==
    ASSUME BalancesInv, NEW c \in Community, NEW rate \in Rates, set_demurrage(c, rate)
    PROVE  BalancesInv'
BY DEF set_demurrage, BalancesInv, NoCharge, Entries

LEMMA BlockType ==
    ASSUME BalancesInv, NextBlock
    PROVE  BalancesInv'
<1>1. /\ block' = block + 1 /\ block \in Nat /\ block < MaxBlock /\ MaxBlock \in Nat
      /\ UNCHANGED <<Balance, TotalIssuance, DemurragePerBlock, sufficients, FeeConversionFactor,
                     charge, settled>>
  BY BalancesAssumption DEF NextBlock, BalancesInv, stored, history
<1>2. /\ \A d \in Community : Entries(Balance'[d], Account, block')
      /\ Entries(TotalIssuance', Community, block')
  <2>1. /\ \A d \in Community : Entries(Balance[d], Account, block)
        /\ Entries(TotalIssuance, Community, block)
    BY DEF BalancesInv
  <2> QED BY <1>1, <2>1, EntriesLater
<1> QED BY <1>1, <1>2 DEF BalancesInv, NoCharge

LEMMA FactorType ==
    ASSUME BalancesInv, NEW f \in Factors, set_fee_conversion_factor(f)
    PROVE  BalancesInv'
BY DEF set_fee_conversion_factor, BalancesInv, NoCharge, stored, history, Entries

LEMMA WithdrawType ==
    ASSUME BalancesInv, NEW c \in Community, NEW a \in Account, NEW native \in NativeFees,
           WithdrawFee(c, a, native)
    PROVE  BalancesInv'
<1> DEFINE fee == AssetFee(native)
<1> DEFINE rest == FungibleBalance(c, a) - fee
<1>1. /\ fee \in Nat /\ BalanceOf(c, a) \in Nat
  BY FeeType, BalanceValue
<1>2. FungibleBalance(c, a) \in Nat
  BY <1>1, Coins DEF FungibleBalance
<1>3. /\ fee > 0 /\ CanWithdraw(c, a, fee)
      /\ Balance' = [Balance EXCEPT ![c] = Insert(Balance[c], a, Entry(BalanceType(rest)))]
      /\ charge' = [who |-> a, cid |-> c, credit |-> fee]
      /\ UNCHANGED <<block, TotalIssuance, DemurragePerBlock, sufficients, FeeConversionFactor, settled>>
  BY DEF WithdrawFee
<1> HIDE DEF fee
<1>4. c \in DOMAIN TotalIssuance /\ FungibleBalance(c, a) >= fee
  BY <1>1, <1>3 DEF CanWithdraw
<1>5. rest \in Nat
  BY <1>1, <1>2, <1>4
<1> HIDE DEF rest
<1> DEFINE f == Insert(Balance[c], a, Entry(BalanceType(rest)))
<1>6. Entries(f, Account, block)
  <2>1. BalanceType(rest) \in Nat /\ block \in Nat /\ Entries(Balance[c], Account, block)
    BY <1>5, Coins DEF BalancesInv
  <2> QED BY <2>1, EntriesInsert DEF Entry
<1>7. Balance' = [Balance EXCEPT ![c] = f]
  BY <1>3
<1> HIDE DEF f
<1>8. /\ DOMAIN Balance' = Community /\ Balance'[c] = f
      /\ \A d \in Community \ {c} : Balance'[d] = Balance[d]
      /\ \A d \in Community : Entries(Balance'[d], Account, block')
  BY <1>3, <1>6, <1>7, WroteBalance
<1>9. /\ charge'.credit = fee /\ charge'.who = a /\ charge'.cid = c
  BY <1>3
<1>10. Entries(TotalIssuance', Community, block')
  BY <1>3 DEF BalancesInv
<1> QED BY <1>1, <1>3, <1>4, <1>8, <1>9, <1>10 DEF BalancesInv

LEMMA SettleType ==
    ASSUME BalancesInv, NEW refund \in 0 .. charge.credit, SettleFee(refund)
    PROVE  BalancesInv'
<1> DEFINE c == charge.cid
<1> DEFINE a == charge.who
<1> DEFINE fee == charge.credit - refund
<1> DEFINE f == Insert(Balance[c], a, Entry(BalanceType(FungibleBalance(c, a) + refund)))
<1> DEFINE g == Insert(TotalIssuance, c, Entry(BalanceType(Minus(FungibleIssuance(c), fee))))
<1>1. /\ charge # NoCharge /\ charge' = NoCharge /\ settled' = settled + 1
      /\ Balance' = IF refund = 0 THEN Balance ELSE [Balance EXCEPT ![c] = f]
      /\ TotalIssuance' = IF fee = 0 THEN TotalIssuance ELSE g
      /\ UNCHANGED <<block, DemurragePerBlock, sufficients, FeeConversionFactor>>
  BY DEF SettleFee, Idle
<1>2. /\ a \in Account /\ c \in DOMAIN TotalIssuance /\ c \in Community
      /\ fee \in Nat /\ refund \in Nat /\ block \in Nat
      /\ Entries(TotalIssuance, Community, block) /\ Entries(Balance[c], Account, block)
  <2>1. a \in Account /\ c \in DOMAIN TotalIssuance
    BY <1>1 DEF BalancesInv
  <2>2. Entries(TotalIssuance, Community, block) /\ block \in Nat /\ charge.credit \in Nat
    BY DEF BalancesInv
  <2>3. c \in Community
    BY <2>1, <2>2 DEF Entries
  <2> QED BY <2>1, <2>2, <2>3 DEF BalancesInv
<1> HIDE DEF c, a, fee
<1>3. FungibleBalance(c, a) \in Nat /\ FungibleIssuance(c) \in Nat
  BY <1>2, BalanceValue, IssuanceValue, Coins DEF FungibleBalance, FungibleIssuance
<1>4. Entries(f, Account, block) /\ Entries(g, Community, block) /\ DOMAIN g = DOMAIN TotalIssuance
  <2>1. FungibleBalance(c, a) + refund \in Nat /\ Minus(FungibleIssuance(c), fee) \in Nat
    BY <1>2, <1>3 DEF Minus
  <2>2. /\ BalanceType(FungibleBalance(c, a) + refund) \in Nat
        /\ BalanceType(Minus(FungibleIssuance(c), fee)) \in Nat
    BY <2>1, Coins
  <2>3. DOMAIN g = DOMAIN TotalIssuance
    BY <1>2 DEF Insert
  <2> QED BY <1>2, <2>2, <2>3, EntriesInsert DEF Entry
<1> HIDE DEF f, g
<1>5. /\ DOMAIN Balance' = Community
      /\ \A d \in Community \ {c} : Balance'[d] = Balance[d]
      /\ \A d \in Community : Entries(Balance'[d], Account, block')
  <2>1. CASE refund = 0
    BY <1>1, <2>1 DEF BalancesInv
  <2>2. CASE refund # 0
    <3>1. Balance' = [Balance EXCEPT ![c] = f] /\ block' = block
      BY <1>1, <2>2
    <3> QED BY <3>1, <1>2, <1>4, WroteBalance
  <2> QED BY <2>1, <2>2
<1>6. Entries(TotalIssuance', Community, block') /\ DOMAIN TotalIssuance' = DOMAIN TotalIssuance
  BY <1>1, <1>2, <1>4
<1>7. \A d \in Community : DOMAIN Balance'[d] # {} => d \in DOMAIN TotalIssuance'
  BY <1>2, <1>5, <1>6 DEF BalancesInv
<1>8. charge'.credit = 0 /\ settled' \in Nat
  BY <1>1 DEF NoCharge, BalancesInv
<1> QED BY <1>1, <1>5, <1>6, <1>7, <1>8 DEF BalancesInv

LEMMA BalancesInvStep ==
    ASSUME BalancesInv, [BalancesNext]_balanceVars
    PROVE  BalancesInv'
<1>1. CASE UNCHANGED balanceVars
  BY <1>1 DEF balanceVars, stored, history, BalancesInv, NoCharge, Entries
<1>2. CASE NextBlock
  BY <1>2, BlockType
<1>3. ASSUME NEW f \in Factors, set_fee_conversion_factor(f) PROVE BalancesInv'
  BY <1>3, FactorType
<1>4. ASSUME NEW refund \in 0 .. charge.credit, SettleFee(refund) PROVE BalancesInv'
  BY <1>4, SettleType
<1>5. ASSUME NEW c \in Community, purge_balances(c) PROVE BalancesInv'
  BY <1>5, PurgeType
<1>6. ASSUME NEW c \in Community, NEW rate \in Rates, set_demurrage(c, rate) PROVE BalancesInv'
  BY <1>6, RateStepType
<1>7. ASSUME NEW c \in Community, NEW a \in Account, NEW native \in NativeFees, WithdrawFee(c, a, native)
      PROVE  BalancesInv'
  BY <1>7, WithdrawType
<1>8. ASSUME NEW c \in Community, NEW a \in Account, NEW n \in Rewards, issue(c, a, n)
      PROVE  BalancesInv'
  BY <1>8, IssueType, BalancesAssumption
<1>9. ASSUME NEW c \in Community, NEW a \in Account, NEW n \in Amounts, burn(c, a, n)
      PROVE  BalancesInv'
  BY <1>9, BurnType, BalancesAssumption
<1>10. ASSUME NEW c \in Community, NEW a \in Account, NEW b \in Account, transfer_all(c, a, b)
       PROVE  BalancesInv'
  BY <1>10, BalanceValue, TransferType DEF transfer_all
<1>11. ASSUME NEW c \in Community, NEW a \in Account, NEW b \in Account, NEW n \in Amounts,
              transfer(c, a, b, n)
       PROVE  BalancesInv'
  BY <1>11, TransferType, BalancesAssumption
<1> QED BY <1>1, <1>2, <1>3, <1>4, <1>5, <1>6, <1>7, <1>8, <1>9, <1>10, <1>11 DEF BalancesNext

LEMMA BalancesInvInit == BalancesInit => BalancesInv
<1> SUFFICES ASSUME BalancesInit PROVE BalancesInv
  OBVIOUS
<1>1. /\ DOMAIN Balance = Community /\ \A c \in Community : DOMAIN Balance[c] = {}
      /\ DOMAIN TotalIssuance = {}
  BY DEF BalancesInit, Remove
<1>2. /\ block = 0 /\ MaxBlock \in Nat /\ DemurragePerBlock = [c \in Community |-> NoRate]
      /\ FeeConversionFactor \in Factors /\ sufficients = [a \in Account |-> 0]
      /\ charge = NoCharge /\ settled = 0
  BY BalancesAssumption DEF BalancesInit
<1>3. NoCharge.credit = 0
  BY DEF NoCharge
<1> QED BY <1>1, <1>2, <1>3 DEF BalancesInv, Entries

LEMMA BalancesInvHolds == BalancesSpec => []BalancesInv
<1>1. BalancesInv /\ [BalancesNext]_balanceVars => BalancesInv'
  BY BalancesInvStep
<1> QED BY <1>1, BalancesInvInit, PTL DEF BalancesSpec

\* The stored entries keep their types, and none is ever from the future.
THEOREM BalancesTypesHold == BalancesSpec => []BalancesTypeOK
<1>1. BalancesInv => BalancesTypeOK
  BY DEF BalancesInv, Entries, BalancesTypeOK
<1> QED BY <1>1, BalancesInvHolds, PTL

-----------------------------------------------------------------------------
(* Sufficient references.                                                   *)

\* The communities in which an account has an entry, for given entries.
Currencies(B, a) == {c \in Community : a \in DOMAIN B[c]}

LEMMA CurrenciesFinite ==
    ASSUME NEW B, NEW a
    PROVE  IsFiniteSet(Currencies(B, a)) /\ Cardinality(Currencies(B, a)) \in Nat
<1>1. Currencies(B, a) \subseteq Community /\ IsFiniteSet(Community)
  BY BalancesAssumption DEF Currencies
<1> QED BY <1>1, FS_Subset, FS_CardinalityType

\* The number of currencies of an account when the entries of c change.
LEMMA CurrenciesStep ==
    ASSUME NEW B, NEW C, NEW c \in Community, NEW a,
           \A d \in Community \ {c} : DOMAIN C[d] = DOMAIN B[d]
    PROVE  Cardinality(Currencies(C, a)) =
              Cardinality(Currencies(B, a))
              + (IF a \in DOMAIN C[c] THEN 1 ELSE 0) - (IF a \in DOMAIN B[c] THEN 1 ELSE 0)
<1> DEFINE R == Currencies(B, a) \ {c}
<1>1. IsFiniteSet(R) /\ c \notin R /\ Cardinality(R) \in Nat
  BY CurrenciesFinite, FS_Subset, FS_CardinalityType
<1>2. Currencies(B, a) = IF a \in DOMAIN B[c] THEN R \cup {c} ELSE R
  BY DEF Currencies
<1>3. Currencies(C, a) = IF a \in DOMAIN C[c] THEN R \cup {c} ELSE R
  BY DEF Currencies
<1> HIDE DEF R
<1>4. Cardinality(R \cup {c}) = Cardinality(R) + 1
  BY <1>1, FS_AddElement
<1> QED BY <1>1, <1>2, <1>3, <1>4

\* The property, for the values of a state.
Counted(s, B, i) == \A a \in Account \ i : s[a] = Cardinality(Currencies(B, a))

LEMMA CountedIs ==
    /\ SufficientsCountAccounts <=> Counted(sufficients, Balance, irregular)
    /\ SufficientsCountAccounts' <=> Counted(sufficients', Balance', irregular')
BY DEF SufficientsCountAccounts, Counted, Currencies, HasAccount

LEMMA TransferCounts ==
    ASSUME BalancesInv, SufficientsCountAccounts, NEW c \in Community, NEW source \in Account,
           NEW dest \in Account, NEW amount \in Nat, transfer(c, source, dest, amount)
    PROVE  SufficientsCountAccounts'
<1>0. /\ DoTransfer(c, source, dest, amount) /\ CanTransfer(c, source, dest, amount)
      /\ irregular' = irregular
      /\ DOMAIN Balance = Community /\ sufficients \in [Account -> Nat]
  BY DEF transfer, DoTransfer, history, BalancesInv
<1>1. CASE amount = 0
  BY <1>0, <1>1, CountedIs DEF DoTransfer
<1>2. CASE amount # 0 /\ source = dest
  <2>1. Balance' = [Balance EXCEPT ![c] = Insert(Balance[c], source, BalanceEntryUpdated(c, source))]
    BY <1>0, <1>2 DEF DoTransfer
  <2>2. source \in DOMAIN Balance[c] /\ sufficients' = sufficients
    BY <1>0, <1>2 DEF CanTransfer, HasAccount, DoTransfer
  <2>3. \A d \in Community : DOMAIN Balance'[d] = DOMAIN Balance[d]
    BY <1>0, <2>1, <2>2 DEF Insert
  <2>4. \A a : Currencies(Balance', a) = Currencies(Balance, a)
    BY <2>3 DEF Currencies
  <2> QED BY <1>0, <2>2, <2>4, CountedIs DEF Counted
<1>3. CASE amount # 0 /\ source # dest
  <2>1. Balance' = [Balance EXCEPT ![c] = Moved(c, source, dest, amount)]
    BY <1>0, <1>3 DEF DoTransfer
  <2>2. source \in DOMAIN Balance[c]
    BY <1>0, <1>3 DEF CanTransfer, HasAccount
  <2>3. DOMAIN Moved(c, source, dest, amount)
          = IF Emptied(c, source, amount) THEN (DOMAIN Balance[c] \cup {dest}) \ {source}
                                          ELSE DOMAIN Balance[c] \cup {dest}
    BY <1>3, <2>2 DEF Moved, Insert, Remove
  <2>4. /\ DOMAIN Balance'[c] = IF Emptied(c, source, amount)
                                THEN (DOMAIN Balance[c] \cup {dest}) \ {source}
                                ELSE DOMAIN Balance[c] \cup {dest}
        /\ \A d \in Community \ {c} : DOMAIN Balance'[d] = DOMAIN Balance[d]
    BY <1>0, <2>1, <2>3
  <2>5. sufficients' = [sufficients EXCEPT
                          ![dest]   = IF HasAccount(c, dest) THEN sufficients[dest]
                                      ELSE sufficients[dest] + 1,
                          ![source] = Minus(sufficients[source], Released(c, source, amount))]
    BY <1>0, <1>3 DEF DoTransfer
  <2> SUFFICES ASSUME NEW a \in Account \ irregular
               PROVE  sufficients'[a] = Cardinality(Currencies(Balance', a))
    BY <1>0, CountedIs DEF Counted
  <2> DEFINE n == Cardinality(Currencies(Balance, a))
  <2>6. sufficients[a] = n /\ n \in Nat
    BY CountedIs, CurrenciesFinite DEF Counted
  <2>7. Cardinality(Currencies(Balance', a)) =
          n + (IF a \in DOMAIN Balance'[c] THEN 1 ELSE 0) - (IF a \in DOMAIN Balance[c] THEN 1 ELSE 0)
    BY <2>4, CurrenciesStep
  <2> HIDE DEF n
  <2>8. CASE a = source
    <3>1. n # 0
      <4>1. c \in Currencies(Balance, a)
        BY <2>2, <2>8 DEF Currencies
      <4> QED BY <4>1, CurrenciesFinite, FS_EmptySet DEF n
    <3>2. sufficients'[a] = Minus(n, Released(c, source, amount))
      BY <1>0, <1>3, <2>5, <2>6, <2>8
    <3>3. CASE Emptied(c, source, amount)
      <4>1. a \notin DOMAIN Balance'[c] /\ a \in DOMAIN Balance[c]
        BY <2>2, <2>4, <2>8, <3>3
      <4>2. sufficients'[a] = n - 1
        BY <2>6, <3>1, <3>2, <3>3 DEF Minus, Released
      <4> QED BY <2>6, <2>7, <4>1, <4>2
    <3>4. CASE ~ Emptied(c, source, amount)
      <4>1. a \in DOMAIN Balance'[c] /\ a \in DOMAIN Balance[c]
        BY <2>2, <2>4, <2>8, <3>4
      <4>2. sufficients'[a] = n
        BY <2>6, <3>2, <3>4 DEF Minus, Released
      <4> QED BY <2>6, <2>7, <4>1, <4>2
    <3> QED BY <3>3, <3>4
  <2>9. CASE a = dest
    <3>1. a \in DOMAIN Balance'[c]
      BY <1>3, <2>4, <2>9
    <3>2. sufficients'[a] = IF a \in DOMAIN Balance[c] THEN n ELSE n + 1
      BY <1>0, <1>3, <2>5, <2>6, <2>9 DEF HasAccount
    <3> QED BY <2>6, <2>7, <3>1, <3>2
  <2>10. CASE a # source /\ a # dest
    <3>1. sufficients'[a] = n /\ (a \in DOMAIN Balance'[c] <=> a \in DOMAIN Balance[c])
      BY <1>0, <2>4, <2>5, <2>6, <2>10
    <3> QED BY <2>6, <2>7, <3>1
  <2> QED BY <2>8, <2>9, <2>10
<1> QED BY <1>1, <1>2, <1>3

\* A step that writes the entry of one account: it is counted if it is new,
\* or the account is irregular from then on.
LEMMA InsertCounts ==
    ASSUME BalancesInv, SufficientsCountAccounts, NEW c \in Community, NEW who \in Account, NEW e,
           Balance' = [Balance EXCEPT ![c] = Insert(Balance[c], who, e)],
           \/ /\ sufficients' = [sufficients EXCEPT ![who] = IF HasAccount(c, who) THEN sufficients[who]
                                                             ELSE sufficients[who] + 1]
              /\ irregular' = irregular
           \/ /\ sufficients' = sufficients
              /\ irregular' = irregular \cup (IF HasAccount(c, who) THEN {} ELSE {who})
    PROVE  SufficientsCountAccounts'
<1>0. DOMAIN Balance = Community /\ sufficients \in [Account -> Nat]
  BY DEF BalancesInv
<1>1. /\ DOMAIN Balance'[c] = DOMAIN Balance[c] \cup {who}
      /\ \A d \in Community \ {c} : DOMAIN Balance'[d] = DOMAIN Balance[d]
  BY <1>0 DEF Insert
<1> SUFFICES ASSUME NEW a \in Account \ irregular'
             PROVE  sufficients'[a] = Cardinality(Currencies(Balance', a))
  BY CountedIs DEF Counted
<1> DEFINE n == Cardinality(Currencies(Balance, a))
<1>2. a \in Account \ irregular
  OBVIOUS
<1>3. sufficients[a] = n /\ n \in Nat
  BY <1>2, CountedIs, CurrenciesFinite DEF Counted
<1>4. Cardinality(Currencies(Balance', a)) =
        n + (IF a \in DOMAIN Balance'[c] THEN 1 ELSE 0) - (IF a \in DOMAIN Balance[c] THEN 1 ELSE 0)
  <2>1. \A x : Cardinality(Currencies(Balance', x)) =
          Cardinality(Currencies(Balance, x))
          + (IF x \in DOMAIN Balance'[c] THEN 1 ELSE 0) - (IF x \in DOMAIN Balance[c] THEN 1 ELSE 0)
    <3> DEFINE B == Balance
    <3> DEFINE C == Balance'
    <3>1. \A d \in Community \ {c} : DOMAIN C[d] = DOMAIN B[d]
      BY <1>1
    <3>2. \A x : Cardinality(Currencies(C, x)) =
            Cardinality(Currencies(B, x))
            + (IF x \in DOMAIN C[c] THEN 1 ELSE 0) - (IF x \in DOMAIN B[c] THEN 1 ELSE 0)
      <4> HIDE DEF B, C
      <4> QED BY <3>1, CurrenciesStep
    <3> QED BY <3>2
  <2> QED BY <2>1
<1> HIDE DEF n
<1>5. CASE a = who
  <2>1. a \in DOMAIN Balance'[c]
    BY <1>1, <1>5
  <2>2. sufficients'[a] = IF a \in DOMAIN Balance[c] THEN n ELSE n + 1
    BY <1>0, <1>3, <1>5 DEF HasAccount
  <2> QED BY <1>3, <1>4, <2>1, <2>2
<1>6. CASE a # who
  <2>1. sufficients'[a] = n /\ (a \in DOMAIN Balance'[c] <=> a \in DOMAIN Balance[c])
    BY <1>0, <1>1, <1>3, <1>6
  <2> QED BY <1>3, <1>4, <2>1
<1> QED BY <1>5, <1>6

\* A withdrawn fee comes from an account that has an entry.
LEMMA WithdrawnHasAccount ==
    ASSUME BalancesInv, NEW c \in Community, NEW a \in Account, NEW native \in NativeFees,
           WithdrawFee(c, a, native)
    PROVE  HasAccount(c, a)
<1> SUFFICES ASSUME ~ HasAccount(c, a) PROVE FALSE
  OBVIOUS
<1>1. BalanceOf(c, a) = 0
  BY BalanceValue DEF HasAccount, Value
<1>2. FungibleBalance(c, a) = 0
  <2>1. Granularity \in Nat \ {0}
    BY BalancesAssumption
  <2>2. 0 \div Granularity = 0
    BY <2>1, SMTT(30)
  <2> QED BY <1>1, <2>2 DEF FungibleBalance, Fungible
<1>3. AssetFee(native) \in Nat /\ AssetFee(native) > 0 /\ CanWithdraw(c, a, AssetFee(native))
  BY FeeType DEF WithdrawFee
<1> QED BY <1>2, <1>3 DEF CanWithdraw

LEMMA PurgeCounts ==
    ASSUME BalancesInv, SufficientsCountAccounts, NEW c \in Community, purge_balances(c)
    PROVE  SufficientsCountAccounts'
<1>0. DOMAIN Balance = Community
  BY DEF BalancesInv
<1>1. /\ Balance' = [Balance EXCEPT ![c] = Remove(Balance[c], DOMAIN Balance[c])]
      /\ sufficients' = sufficients
      /\ irregular' = irregular \cup DOMAIN Balance[c]
  BY DEF purge_balances
<1>2. /\ \A d \in Community \ {c} : DOMAIN Balance'[d] = DOMAIN Balance[d]
      /\ DOMAIN Balance'[c] = {}
  BY <1>0, <1>1 DEF Remove
<1> SUFFICES ASSUME NEW a \in Account \ irregular'
             PROVE  sufficients'[a] = Cardinality(Currencies(Balance', a))
  BY CountedIs DEF Counted
<1>3. a \in Account \ irregular /\ a \notin DOMAIN Balance[c]
  BY <1>1
<1>4. Currencies(Balance', a) = Currencies(Balance, a)
  BY <1>2, <1>3 DEF Currencies
<1> QED BY <1>1, <1>3, <1>4, CountedIs DEF Counted

LEMMA SettleCounts ==
    ASSUME BalancesInv, SufficientsCountAccounts, NEW refund \in 0 .. charge.credit, SettleFee(refund)
    PROVE  SufficientsCountAccounts'
<1> DEFINE c == charge.cid
<1> DEFINE a == charge.who
<1>1. a \in Account /\ c \in Community
  <2>1. charge # NoCharge
    BY DEF SettleFee, Idle
  <2> QED BY <2>1 DEF BalancesInv, Entries
<1>2. /\ sufficients' = sufficients
      /\ irregular' = irregular \cup (IF refund > 0 /\ ~HasAccount(c, a) THEN {a} ELSE {})
  BY DEF SettleFee
<1>3. CASE refund = 0
  <2>1. Balance' = Balance /\ irregular' = irregular
    BY <1>2, <1>3 DEF SettleFee
  <2> QED BY <1>2, <2>1, CountedIs
<1>4. CASE refund # 0
  <2> DEFINE e == Entry(BalanceType(FungibleBalance(c, a) + refund))
  <2>1. Balance' = [Balance EXCEPT ![c] = Insert(Balance[c], a, e)]
    BY <1>4 DEF SettleFee
  <2>2. refund > 0
    BY <1>4 DEF BalancesInv
  <2>3. irregular' = irregular \cup (IF HasAccount(c, a) THEN {} ELSE {a})
    BY <1>2, <2>2
  <2> HIDE DEF c, a, e
  <2> QED BY <1>1, <1>2, <2>1, <2>3, InsertCounts
<1> QED BY <1>3, <1>4

LEMMA CountsStep ==
    ASSUME BalancesInv, SufficientsCountAccounts, [BalancesNext]_balanceVars
    PROVE  SufficientsCountAccounts'
<1>1. CASE UNCHANGED <<Balance, sufficients, irregular>>
  BY <1>1, CountedIs
<1>2. CASE NextBlock \/ UNCHANGED balanceVars
  BY <1>1, <1>2 DEF NextBlock, balanceVars, stored, history
<1>3. ASSUME NEW f \in Factors, set_fee_conversion_factor(f) PROVE SufficientsCountAccounts'
  BY <1>1, <1>3 DEF set_fee_conversion_factor, stored, history
<1>4. ASSUME NEW refund \in 0 .. charge.credit, SettleFee(refund) PROVE SufficientsCountAccounts'
  BY <1>4, SettleCounts
<1>5. ASSUME NEW c \in Community, purge_balances(c) PROVE SufficientsCountAccounts'
  BY <1>5, PurgeCounts
<1>6. ASSUME NEW c \in Community, NEW rate \in Rates, set_demurrage(c, rate)
      PROVE  SufficientsCountAccounts'
  BY <1>1, <1>6 DEF set_demurrage
<1>7. ASSUME NEW c \in Community, NEW a \in Account, NEW native \in NativeFees, WithdrawFee(c, a, native)
      PROVE  SufficientsCountAccounts'
  <2> DEFINE e == Entry(BalanceType(FungibleBalance(c, a) - AssetFee(native)))
  <2>1. /\ Balance' = [Balance EXCEPT ![c] = Insert(Balance[c], a, e)]
        /\ sufficients' = sufficients /\ irregular' = irregular
    BY <1>7 DEF WithdrawFee
  <2>2. HasAccount(c, a)
    BY <1>7, WithdrawnHasAccount
  <2>3. irregular' = irregular \cup (IF HasAccount(c, a) THEN {} ELSE {a})
    BY <2>1, <2>2
  <2> HIDE DEF e
  <2> QED BY <2>1, <2>3, InsertCounts
<1>8. ASSUME NEW c \in Community, NEW a \in Account, NEW n \in Rewards, issue(c, a, n)
      PROVE  SufficientsCountAccounts'
  <2> DEFINE e == Entry(BalanceOf(c, a) + n)
  <2>1. /\ Balance' = [Balance EXCEPT ![c] = Insert(Balance[c], a, e)]
        /\ sufficients' = [sufficients EXCEPT ![a] = IF HasAccount(c, a) THEN sufficients[a]
                                                     ELSE sufficients[a] + 1]
        /\ irregular' = irregular
    BY <1>8 DEF issue, Issue, history
  <2> HIDE DEF e
  <2> QED BY <2>1, InsertCounts
<1>9. ASSUME NEW c \in Community, NEW a \in Account, NEW n \in Amounts, burn(c, a, n)
      PROVE  SufficientsCountAccounts'
  <2> DEFINE e == Entry(BalanceOf(c, a) - n)
  <2>1. /\ Balance' = [Balance EXCEPT ![c] = Insert(Balance[c], a, e)]
        /\ sufficients' = sufficients
        /\ irregular' = irregular \cup (IF HasAccount(c, a) THEN {} ELSE {a})
    BY <1>9 DEF burn, Burn
  <2> HIDE DEF e
  <2> QED BY <2>1, InsertCounts
<1>10. ASSUME NEW c \in Community, NEW a \in Account, NEW b \in Account, transfer_all(c, a, b)
       PROVE  SufficientsCountAccounts'
  BY <1>10, BalanceValue, TransferCounts DEF transfer_all
<1>11. ASSUME NEW c \in Community, NEW a \in Account, NEW b \in Account, NEW n \in Amounts,
              transfer(c, a, b, n)
       PROVE  SufficientsCountAccounts'
  BY <1>11, TransferCounts, BalancesAssumption
<1> QED BY <1>2, <1>3, <1>4, <1>5, <1>6, <1>7, <1>8, <1>9, <1>10, <1>11 DEF BalancesNext

\* Whatever is transferred, issued, burnt or paid as a fee, in any order, an
\* account has one sufficient reference per currency it holds, but for the
\* irregular ones: none is kept alive for nothing, and none that holds money
\* may be reaped.
THEOREM ReferencesAreCounted == BalancesSpec => []SufficientsCountAccounts
<1>1. BalancesInit => SufficientsCountAccounts
  <2> SUFFICES ASSUME BalancesInit PROVE Counted(sufficients, Balance, irregular)
    BY CountedIs
  <2>1. \A a : Currencies(Balance, a) = {}
    BY DEF BalancesInit, Remove, Currencies
  <2>2. Cardinality({}) = 0
    BY FS_EmptySet
  <2> QED BY <2>1, <2>2 DEF BalancesInit, Counted
<1>2. BalancesInv /\ SufficientsCountAccounts /\ [BalancesNext]_balanceVars => SufficientsCountAccounts'
  BY CountsStep
<1> QED BY <1>1, <1>2, BalancesInvHolds, PTL DEF BalancesSpec

-----------------------------------------------------------------------------
(* What a step does to the money that the accounts can spend.               *)

\* No block passes, and no demurrage changes.
Still == UNCHANGED <<block, DemurragePerBlock>>

LEMMA StillRate ==
    ASSUME Still, NEW c \in Community
    PROVE  Demurrage(c)' = Demurrage(c)
BY DEF Still, Demurrage

LEMMA SameBalance ==
    ASSUME BalancesInv, BalancesInv', Still, NEW c \in Community, Balance'[c] = Balance[c],
           NEW a \in Account
    PROVE  BalanceOf(c, a)' = BalanceOf(c, a)
<1>1. /\ BalanceOf(c, a) = Value(Balance[c], a, Demurrage(c), block)
      /\ BalanceOf(c, a)' = Value(Balance'[c], a, Demurrage(c)', block')
  BY Values, NextValues DEF ValuesInv
<1>2. Demurrage(c)' = Demurrage(c) /\ block' = block
  BY StillRate DEF Still
<1> QED BY <1>1, <1>2

LEMMA SameIssuance ==
    ASSUME BalancesInv, BalancesInv', Still, TotalIssuance' = TotalIssuance, NEW c \in Community
    PROVE  IssuanceOf(c)' = IssuanceOf(c)
<1>1. /\ IssuanceOf(c) = Value(TotalIssuance, c, Demurrage(c), block)
      /\ IssuanceOf(c)' = Value(TotalIssuance', c, Demurrage(c)', block')
  BY Values, NextValues DEF ValuesInv
<1>2. Demurrage(c)' = Demurrage(c) /\ block' = block
  BY StillRate DEF Still
<1> QED BY <1>1, <1>2

LEMMA NewBalance ==
    ASSUME BalancesInv, BalancesInv', Still, NEW c \in Community, NEW a \in Account, NEW n \in Nat,
           Balance'[c] = Insert(Balance[c], a, Entry(n)), NEW x \in Account
    PROVE  BalanceOf(c, x)' = IF x = a THEN n ELSE BalanceOf(c, x)
<1> DEFINE r == Demurrage(c)
<1>1. /\ BalanceOf(c, x) = Value(Balance[c], x, r, block)
      /\ BalanceOf(c, x)' = Value(Balance'[c], x, Demurrage(c)', block')
      /\ r \in Nat
  BY Values, NextValues DEF ValuesInv
<1>2. Demurrage(c)' = r /\ block' = block /\ block \in Nat
  BY StillRate DEF Still, BalancesInv
<1> HIDE DEF r
<1>3. Value(Insert(Balance[c], a, [principal |-> n, last_update |-> block]), x, r, block)
        = IF x = a THEN n ELSE Value(Balance[c], x, r, block)
  BY <1>1, <1>2, ValueInsert
<1> QED BY <1>1, <1>2, <1>3 DEF Entry

LEMMA NewIssuance ==
    ASSUME BalancesInv, BalancesInv', Still, NEW c \in Community, NEW n \in Nat,
           TotalIssuance' = Insert(TotalIssuance, c, Entry(n)), NEW d \in Community
    PROVE  IssuanceOf(d)' = IF d = c THEN n ELSE IssuanceOf(d)
<1> DEFINE r == Demurrage(d)
<1>1. /\ IssuanceOf(d) = Value(TotalIssuance, d, r, block)
      /\ IssuanceOf(d)' = Value(TotalIssuance', d, Demurrage(d)', block')
      /\ r \in Nat
  BY Values, NextValues DEF ValuesInv
<1>2. Demurrage(d)' = r /\ block' = block /\ block \in Nat
  BY StillRate DEF Still, BalancesInv
<1> HIDE DEF r
<1>3. Value(Insert(TotalIssuance, c, [principal |-> n, last_update |-> block]), d, r, block)
        = IF d = c THEN n ELSE Value(TotalIssuance, d, r, block)
  BY <1>1, <1>2, ValueInsert
<1> QED BY <1>1, <1>2, <1>3 DEF Entry

\* A payment between two accounts.
LEMMA MovedBalance ==
    ASSUME BalancesInv, BalancesInv', Still, NEW c \in Community, NEW source \in Account,
           NEW dest \in Account, source # dest, NEW amount \in Nat, BalanceOf(c, source) >= amount,
           Balance'[c] = Moved(c, source, dest, amount), NEW x \in Account
    PROVE  BalanceOf(c, x)' =
              IF x = source
              THEN IF BalanceOf(c, source) - amount < ExistentialDeposit THEN 0
                   ELSE BalanceOf(c, source) - amount
              ELSE IF x = dest THEN AtMost(BalanceOf(c, dest) + amount, MaxBalance)
              ELSE BalanceOf(c, x)
<1> DEFINE r == Demurrage(c)
<1> DEFINE m == Minus(BalanceOf(c, source), amount)
<1> DEFINE n == AtMost(BalanceOf(c, dest) + amount, MaxBalance)
<1> DEFINE one == Insert(Balance[c], source, Entry(m))
<1> DEFINE both == Insert(one, dest, Entry(n))
<1>1. /\ \A y \in Account : BalanceOf(c, y) = Value(Balance[c], y, r, block) /\ BalanceOf(c, y) \in Nat
      /\ BalanceOf(c, x)' = Value(Balance'[c], x, Demurrage(c)', block')
      /\ r \in Nat
  BY Values, NextValues DEF ValuesInv
<1>2. Demurrage(c)' = r /\ block' = block /\ block \in Nat
  BY StillRate DEF Still, BalancesInv
<1>3. m = BalanceOf(c, source) - amount /\ m \in Nat /\ n \in Nat
  <2>1. BalanceOf(c, source) \in Nat /\ BalanceOf(c, dest) \in Nat /\ MaxBalance \in Nat
    BY <1>1, BalancesAssumption
  <2> QED BY <2>1 DEF Minus, AtMost
<1>4. Balance'[c] = IF Emptied(c, source, amount) THEN Remove(both, {source}) ELSE both
  BY DEF Moved
<1>5. Emptied(c, source, amount) <=> m < ExistentialDeposit
  BY <1>3 DEF Emptied
<1> SUFFICES BalanceOf(c, x)' =
                IF x = source THEN IF m < ExistentialDeposit THEN 0 ELSE m
                ELSE IF x = dest THEN n ELSE BalanceOf(c, x)
  BY <1>3
<1> HIDE DEF r, m, n
<1>6. Value(one, x, r, block) = IF x = source THEN m ELSE BalanceOf(c, x)
  BY <1>1, <1>2, <1>3, ValueInsert DEF Entry
<1> HIDE DEF one
<1>7. Value(both, x, r, block) = IF x = dest THEN n ELSE Value(one, x, r, block)
  BY <1>1, <1>2, <1>3, ValueInsert DEF Entry
<1> HIDE DEF both
<1>8. Value(Remove(both, {source}), x, r, block) = IF x = source THEN 0 ELSE Value(both, x, r, block)
  BY ValueRemove
<1> QED BY <1>1, <1>2, <1>4, <1>5, <1>6, <1>7, <1>8

-----------------------------------------------------------------------------
(* Every step is a step of the ledger.                                      *)

\* The ledger's variables.
Money     == [c \in Community |-> [a \in Account |-> BalanceOf(c, a)]]
Supply    == [c \in Community |-> IssuanceOf(c)]
RateNow   == [c \in Community |-> Demurrage(c)]
InTransit == [c \in Community |-> BalanceType(Held(c))]

\* Their values in two states.
LEMMA LedgerValues ==
    /\ \A c \in Community, a \in Account : /\ Money[c][a] = BalanceOf(c, a)
                                           /\ Money'[c][a] = BalanceOf(c, a)'
    /\ \A c \in Community : /\ Supply[c] = IssuanceOf(c) /\ Supply'[c] = IssuanceOf(c)'
                            /\ RateNow[c] = Demurrage(c) /\ RateNow'[c] = Demurrage(c)'
                            /\ InTransit[c] = BalanceType(Held(c)) /\ InTransit'[c] = BalanceType(Held(c)')
BY DEF Money, Supply, RateNow, InTransit, BalanceType

\* Steps that leave a part of the ledger alone.
LEMMA RateUnchanged ==
    ASSUME Still
    PROVE  RateNow' = RateNow
BY StillRate DEF RateNow

LEMMA TransitUnchanged ==
    ASSUME charge' = charge
    PROVE  InTransit' = InTransit
BY DEF InTransit, Held, Idle, BalanceType, NoCharge

LEMMA SupplyUnchanged ==
    ASSUME BalancesInv, BalancesInv', Still, TotalIssuance' = TotalIssuance
    PROVE  Supply' = Supply
BY SameIssuance DEF Supply

LEMMA MoneyUnchanged ==
    ASSUME BalancesInv, BalancesInv', Still,
           \A c \in Community, a \in Account : BalanceOf(c, a)' = BalanceOf(c, a)
    PROVE  Money' = Money
BY DEF Money

LEMMA TransferLedger ==
    ASSUME BalancesInv, BalancesInv', NEW c \in Community, NEW source \in Account,
           NEW dest \in Account, NEW amount \in Nat, transfer(c, source, dest, amount)
    PROVE  Ledger!Pay(c) \/ UNCHANGED <<Money, Supply, RateNow, InTransit>>
<1>0. /\ DoTransfer(c, source, dest, amount) /\ CanTransfer(c, source, dest, amount)
      /\ Still /\ TotalIssuance' = TotalIssuance /\ charge' = charge
      /\ DOMAIN Balance = Community
  BY DEF transfer, DoTransfer, Still, BalancesInv
<1>1. Supply' = Supply /\ RateNow' = RateNow /\ InTransit' = InTransit
  BY <1>0, SupplyUnchanged, RateUnchanged, TransitUnchanged
<1>2. CASE amount = 0
  <2>1. Balance' = Balance
    BY <1>0, <1>2 DEF DoTransfer
  <2>2. Money' = Money
    BY <1>0, <2>1, SameBalance, MoneyUnchanged
  <2> QED BY <1>1, <2>2
<1>3. CASE amount # 0 /\ source = dest
  <2>1. Balance' = [Balance EXCEPT ![c] = Insert(Balance[c], source, BalanceEntryUpdated(c, source))]
    BY <1>0, <1>3 DEF DoTransfer
  <2>2. BalanceEntryUpdated(c, source) = Entry(BalanceOf(c, source))
    BY DEF BalanceOf, BalanceEntryUpdated, ApplyDemurrage, Entry
  <2>3. BalanceOf(c, source) \in Nat
    BY BalanceValue
  <2>4. /\ Balance'[c] = Insert(Balance[c], source, Entry(BalanceOf(c, source)))
        /\ \A d \in Community \ {c} : Balance'[d] = Balance[d]
    BY <1>0, <2>1, <2>2
  <2>5. \A x \in Account : BalanceOf(c, x)' = BalanceOf(c, x)
    BY <1>0, <2>3, <2>4, NewBalance
  <2>6. \A d \in Community \ {c}, x \in Account : BalanceOf(d, x)' = BalanceOf(d, x)
    BY <1>0, <2>4, SameBalance
  <2>7. Money' = Money
    BY <1>0, <2>5, <2>6, MoneyUnchanged
  <2> QED BY <1>1, <2>7
<1>4. CASE amount # 0 /\ source # dest
  <2>1. Balance' = [Balance EXCEPT ![c] = Moved(c, source, dest, amount)]
    BY <1>0, <1>4 DEF DoTransfer
  <2>2. BalanceOf(c, source) \in Nat /\ BalanceOf(c, source) >= amount
    BY <1>0, <1>4, BalanceValue DEF CanTransfer
  <2>3. /\ Balance'[c] = Moved(c, source, dest, amount)
        /\ \A d \in Community \ {c} : Balance'[d] = Balance[d]
    BY <1>0, <2>1
  <2> DEFINE rest == Money[c][source] - amount
  <2> DEFINE sum == Money[c][dest] + amount
  <2> DEFINE left == IF rest < ExistentialDeposit THEN 0 ELSE rest
  <2> DEFINE got == IF sum > MaxBalance THEN MaxBalance ELSE sum
  <2>4. \A x \in Account : BalanceOf(c, x)' = IF x = source THEN left
                                              ELSE IF x = dest THEN got ELSE BalanceOf(c, x)
    BY <1>0, <1>4, <2>2, <2>3, MovedBalance, LedgerValues DEF AtMost
  <2>5. \A d \in Community \ {c}, x \in Account : BalanceOf(d, x)' = BalanceOf(d, x)
    BY <1>0, <2>3, SameBalance
  <2>6. Money' = [Money EXCEPT ![c][source] = left, ![c][dest] = got]
    <3> HIDE DEF left, got
    <3> QED BY <1>4, <2>4, <2>5 DEF Money
  <2>7. amount \in 1 .. Money[c][source]
    BY <1>4, <2>2, LedgerValues
  <2>8. Ledger!Pay(c)
    <3> HIDE DEF left, got
    <3> SUFFICES \E a, b \in Account : \E paid \in 1 .. Money[c][a] :
                   LET rest1 == Money[c][a] - paid
                       sum1  == Money[c][b] + paid
                   IN  /\ a # b
                       /\ Money' = [Money EXCEPT ![c][a] = IF rest1 < ExistentialDeposit THEN 0 ELSE rest1,
                                                 ![c][b] = IF sum1 > MaxBalance THEN MaxBalance ELSE sum1]
                       /\ UNCHANGED <<Supply, RateNow, InTransit>>
      BY DEF Ledger!Pay, Money, Supply, RateNow, InTransit
    <3> WITNESS source \in Account, dest \in Account
    <3> WITNESS amount \in 1 .. Money[c][source]
    <3> QED BY <1>1, <1>4, <2>6 DEF left, got
  <2> QED BY <2>8
<1> QED BY <1>2, <1>3, <1>4

\* A step that writes one account's entry in community c.
LEMMA OneWritten ==
    ASSUME BalancesInv, BalancesInv', Still, NEW c \in Community, NEW a \in Account, NEW n \in Nat,
           Balance' = [Balance EXCEPT ![c] = Insert(Balance[c], a, Entry(n))]
    PROVE  /\ Money'[c][a] = n
           /\ \A x \in Account \ {a} : Money'[c][x] = Money[c][x]
           /\ \A d \in Community \ {c} : Money'[d] = Money[d]
<1>1. /\ Balance'[c] = Insert(Balance[c], a, Entry(n))
      /\ \A d \in Community \ {c} : Balance'[d] = Balance[d]
  BY DEF BalancesInv
<1>2. \A x \in Account : BalanceOf(c, x)' = IF x = a THEN n ELSE BalanceOf(c, x)
  BY <1>1, NewBalance
<1>3. \A d \in Community \ {c}, x \in Account : BalanceOf(d, x)' = BalanceOf(d, x)
  BY <1>1, SameBalance
<1> QED BY <1>2, <1>3 DEF Money

\* A step that writes the issuance of community c.
LEMMA SupplyWritten ==
    ASSUME BalancesInv, BalancesInv', Still, NEW c \in Community, NEW n \in Nat,
           TotalIssuance' = Insert(TotalIssuance, c, Entry(n))
    PROVE  Supply'[c] = n /\ \A d \in Community \ {c} : Supply'[d] = Supply[d]
<1>1. \A d \in Community : IssuanceOf(d)' = IF d = c THEN n ELSE IssuanceOf(d)
  BY NewIssuance
<1> QED BY <1>1, LedgerValues

LEMMA IssueLedger ==
    ASSUME BalancesInv, BalancesInv', NEW c \in Community, NEW who \in Account, NEW amount \in Nat,
           issue(c, who, amount)
    PROVE  Ledger!Mint(c)
<1>1. BalanceOf(c, who) \in Nat /\ IssuanceOf(c) \in Nat
  BY BalanceValue, IssuanceValue
<1> DEFINE n == BalanceOf(c, who) + amount
<1> DEFINE m == IssuanceOf(c) + amount
<1>2. n \in Nat /\ m \in Nat
  BY <1>1
<1>3. /\ Balance' = [Balance EXCEPT ![c] = Insert(Balance[c], who, Entry(n))]
      /\ TotalIssuance' = Insert(TotalIssuance, c, Entry(m))
      /\ Still /\ charge' = charge
  BY DEF issue, Issue, Still
<1>4. n = Money[c][who] + amount /\ m = Supply[c] + amount /\ Money[c][who] \in Nat /\ Supply[c] \in Nat
  BY <1>1, LedgerValues
<1> HIDE DEF n, m
<1>5. /\ Money'[c][who] = n
      /\ \A x \in Account \ {who} : Money'[c][x] = Money[c][x]
      /\ \A d \in Community \ {c} : Money'[d] = Money[d]
  BY <1>2, <1>3, OneWritten
<1>6. Supply'[c] = m /\ \A d \in Community \ {c} : Supply'[d] = Supply[d]
  BY <1>2, <1>3, SupplyWritten
<1>7. RateNow' = RateNow /\ InTransit' = InTransit
  BY <1>3, RateUnchanged, TransitUnchanged
<1> SUFFICES \E a \in Account :
               /\ Money'[c][a] >= Money[c][a]
               /\ Supply'[c] - Supply[c] = Money'[c][a] - Money[c][a]
               /\ \A x \in Account \ {a} : Money'[c][x] = Money[c][x]
               /\ \A d \in Community \ {c} : Money'[d] = Money[d] /\ Supply'[d] = Supply[d]
               /\ UNCHANGED <<RateNow, InTransit>>
  BY DEF Ledger!Mint, Ledger!Others, Ledger!Elsewhere, Money, Supply, RateNow, InTransit
<1> WITNESS who \in Account
<1> QED BY <1>4, <1>5, <1>6, <1>7

LEMMA BurnLedger ==
    ASSUME BalancesInv, BalancesInv', NEW c \in Community, NEW who \in Account, NEW amount \in Nat,
           burn(c, who, amount)
    PROVE  Ledger!Destroy(c)
<1>1. BalanceOf(c, who) \in Nat /\ IssuanceOf(c) \in Nat /\ BalanceOf(c, who) >= amount
  BY BalanceValue, IssuanceValue DEF burn, Burn
<1> DEFINE n == BalanceOf(c, who) - amount
<1> DEFINE m == Minus(IssuanceOf(c), amount)
<1>2. n \in Nat /\ m \in Nat
  BY <1>1 DEF Minus
<1>3. /\ Balance' = [Balance EXCEPT ![c] = Insert(Balance[c], who, Entry(n))]
      /\ TotalIssuance' = Insert(TotalIssuance, c, Entry(m))
      /\ Still /\ charge' = charge
  BY DEF burn, Burn, Still
<1>4. /\ n = Money[c][who] - amount /\ Money[c][who] \in Nat /\ Supply[c] \in Nat
      /\ m = IF amount > Supply[c] THEN 0 ELSE Supply[c] - amount
  BY <1>1, LedgerValues DEF Minus
<1> HIDE DEF n, m
<1>5. /\ Money'[c][who] = n
      /\ \A x \in Account \ {who} : Money'[c][x] = Money[c][x]
      /\ \A d \in Community \ {c} : Money'[d] = Money[d]
  BY <1>2, <1>3, OneWritten
<1>6. Supply'[c] = m /\ \A d \in Community \ {c} : Supply'[d] = Supply[d]
  BY <1>2, <1>3, SupplyWritten
<1>7. RateNow' = RateNow /\ InTransit' = InTransit
  BY <1>3, RateUnchanged, TransitUnchanged
<1>8. Money[c][who] - Money'[c][who] = amount
  BY <1>4, <1>5
<1> SUFFICES \E a \in Account :
               LET lost == Money[c][a] - Money'[c][a]
               IN  /\ lost >= 0
                   /\ Supply'[c] = IF lost > Supply[c] THEN 0 ELSE Supply[c] - lost
                   /\ \A x \in Account \ {a} : Money'[c][x] = Money[c][x]
                   /\ \A d \in Community \ {c} : Money'[d] = Money[d] /\ Supply'[d] = Supply[d]
                   /\ UNCHANGED <<RateNow, InTransit>>
  BY DEF Ledger!Destroy, Ledger!Others, Ledger!Elsewhere, Money, Supply, RateNow, InTransit
<1> WITNESS who \in Account
<1> QED BY <1>4, <1>5, <1>6, <1>7, <1>8

LEMMA PurgeLedger ==
    ASSUME BalancesInv, BalancesInv', NEW c \in Community, purge_balances(c)
    PROVE  Ledger!Abolish(c)
<1>1. /\ Balance' = [Balance EXCEPT ![c] = Remove(Balance[c], DOMAIN Balance[c])]
      /\ TotalIssuance' = Remove(TotalIssuance, {c})
      /\ DemurragePerBlock' = [DemurragePerBlock EXCEPT ![c] = NoRate]
      /\ block' = block /\ charge' = charge
      /\ DOMAIN Balance = Community /\ DemurragePerBlock \in [Community -> Rates \cup {NoRate}]
  BY DEF purge_balances, BalancesInv
<1>2. /\ DOMAIN Balance'[c] = {} /\ \A d \in Community \ {c} : Balance'[d] = Balance[d]
      /\ \A d \in Community \ {c} : DemurragePerBlock'[d] = DemurragePerBlock[d]
  BY <1>1 DEF Remove
<1>3. \A d \in Community \ {c} : Demurrage(d)' = Demurrage(d)
  BY <1>2 DEF Demurrage
<1>4. ASSUME NEW d \in Community, NEW x \in Account
      PROVE  BalanceOf(d, x)' = IF d = c THEN 0 ELSE BalanceOf(d, x)
  <2>1. /\ BalanceOf(d, x) = Value(Balance[d], x, Demurrage(d), block)
        /\ BalanceOf(d, x)' = Value(Balance'[d], x, Demurrage(d)', block')
    BY Values, NextValues DEF ValuesInv
  <2>2. CASE d = c
    BY <1>2, <2>1, <2>2 DEF Value
  <2>3. CASE d # c
    BY <1>1, <1>2, <1>3, <2>1, <2>3
  <2> QED BY <2>2, <2>3
<1>5. ASSUME NEW d \in Community
      PROVE  IssuanceOf(d)' = IF d = c THEN 0 ELSE IssuanceOf(d)
  <2>1. /\ IssuanceOf(d) = Value(TotalIssuance, d, Demurrage(d), block)
        /\ IssuanceOf(d)' = Value(TotalIssuance', d, Demurrage(d)', block')
    BY Values, NextValues DEF ValuesInv
  <2>2. Value(TotalIssuance', d, Demurrage(d)', block')
          = IF d \in {c} THEN 0 ELSE Value(TotalIssuance, d, Demurrage(d)', block)
    BY <1>1, ValueRemove
  <2> QED BY <1>3, <2>1, <2>2
<1>6. InTransit' = InTransit
  BY <1>1, TransitUnchanged
<1>7. \A d \in Community \ {c} : RateNow'[d] = RateNow[d]
  BY <1>3, LedgerValues
<1>8. Money' = [Money EXCEPT ![c] = [a \in Account |-> 0]]
  BY <1>4 DEF Money
<1>9. Supply' = [Supply EXCEPT ![c] = 0]
  BY <1>5 DEF Supply
<1> SUFFICES /\ Money' = [Money EXCEPT ![c] = [a \in Account |-> 0]]
             /\ Supply' = [Supply EXCEPT ![c] = 0]
             /\ \A o \in Community \ {c} : RateNow'[o] = RateNow[o]
             /\ UNCHANGED InTransit
  BY DEF Ledger!Abolish, Money, Supply, RateNow, InTransit
<1> QED BY <1>6, <1>7, <1>8, <1>9

LEMMA RateLedger ==
    ASSUME BalancesInv, BalancesInv', NEW c \in Community, NEW rate \in Rates, set_demurrage(c, rate)
    PROVE  Ledger!Revalue(c)
<1>1. /\ DemurragePerBlock' = [DemurragePerBlock EXCEPT ![c] = rate]
      /\ UNCHANGED <<block, Balance, TotalIssuance, charge>>
      /\ DemurragePerBlock \in [Community -> Rates \cup {NoRate}]
  BY DEF set_demurrage, BalancesInv
<1>2. \A d \in Community \ {c} : Demurrage(d)' = Demurrage(d)
  BY <1>1 DEF Demurrage
<1>3. ASSUME NEW d \in Community \ {c}
      PROVE  /\ IssuanceOf(d)' = IssuanceOf(d)
             /\ \A x \in Account : BalanceOf(d, x)' = BalanceOf(d, x)
  BY <1>1, <1>2, Values, NextValues DEF ValuesInv
<1>4. ASSUME NEW x \in Account
      PROVE  /\ Demurrage(c)' >= Demurrage(c) => BalanceOf(c, x)' <= BalanceOf(c, x)
             /\ Demurrage(c)' <= Demurrage(c) => BalanceOf(c, x)' >= BalanceOf(c, x)
  <2> DEFINE r == Demurrage(c)
  <2> DEFINE s == Demurrage(c)'
  <2>1. /\ BalanceOf(c, x) = Value(Balance[c], x, r, block)
        /\ BalanceOf(c, x)' = Value(Balance[c], x, s, block)
        /\ BalanceOf(c, x) \in Nat /\ BalanceOf(c, x)' \in Nat
        /\ r \in Nat /\ s \in Nat
    BY <1>1, Values, NextValues DEF ValuesInv
  <2>2. block \in Nat /\ Entries(Balance[c], Account, block)
    BY DEF BalancesInv
  <2> SUFFICES (s >= r => BalanceOf(c, x)' <= BalanceOf(c, x))
               /\ (s <= r => BalanceOf(c, x)' >= BalanceOf(c, x))
    OBVIOUS
  <2> HIDE DEF r, s
  <2>3. CASE s >= r
    <3>1. r <= s
      BY <2>1, <2>3
    <3>2. Value(Balance[c], x, s, block) <= Value(Balance[c], x, r, block)
      BY <2>1, <2>2, <3>1, ValueRate
    <3>3. CASE s <= r
      <4>1. s = r
        BY <2>1, <3>1, <3>3
      <4> QED BY <2>1, <4>1
    <3> QED BY <2>1, <3>2, <3>3
  <2>4. CASE s <= r
    <3>1. Value(Balance[c], x, r, block) <= Value(Balance[c], x, s, block)
      BY <2>1, <2>2, <2>4, ValueRate
    <3>2. CASE s >= r
      BY <2>3, <3>2
    <3> QED BY <2>1, <3>1, <3>2
  <2> QED BY <2>1, <2>3, <2>4
<1>5. InTransit' = InTransit
  BY <1>1, TransitUnchanged
<1>6. \A d \in Community \ {c} : Money'[d] = Money[d] /\ Supply'[d] = Supply[d] /\ RateNow'[d] = RateNow[d]
  BY <1>2, <1>3 DEF Money, Supply, RateNow
<1>7. \A a \in Account : /\ RateNow'[c] >= RateNow[c] => Money'[c][a] <= Money[c][a]
                         /\ RateNow'[c] <= RateNow[c] => Money'[c][a] >= Money[c][a]
  BY <1>4, LedgerValues
<1> SUFFICES /\ \A o \in Community \ {c} : RateNow'[o] = RateNow[o]
             /\ \A a \in Account : /\ RateNow'[c] >= RateNow[c] => Money'[c][a] <= Money[c][a]
                                   /\ RateNow'[c] <= RateNow[c] => Money'[c][a] >= Money[c][a]
             /\ \A o \in Community \ {c} : Money'[o] = Money[o] /\ Supply'[o] = Supply[o]
             /\ UNCHANGED InTransit
  BY DEF Ledger!Revalue, Ledger!Elsewhere, Money, Supply, RateNow, InTransit
<1> QED BY <1>5, <1>6, <1>7

\* A block without a transaction in progress.
LEMMA BlockLedger ==
    ASSUME BalancesInv, BalancesInv', NextBlock
    PROVE  Ledger!NextBlock
<1>1. /\ block' = block + 1 /\ block \in Nat
      /\ UNCHANGED <<Balance, TotalIssuance, DemurragePerBlock, charge>>
  BY DEF NextBlock, stored, BalancesInv
<1>2. \A d \in Community : Demurrage(d)' = Demurrage(d)
  BY <1>1 DEF Demurrage
<1>3. ASSUME NEW d \in Community, NEW x \in Account
      PROVE  BalanceOf(d, x)' = Left(BalanceOf(d, x), Demurrage(d))
  <2>1. /\ BalanceOf(d, x) = Value(Balance[d], x, Demurrage(d), block)
        /\ BalanceOf(d, x)' = Value(Balance[d], x, Demurrage(d), block + 1)
        /\ Demurrage(d) \in Nat
    BY <1>1, <1>2, Values, NextValues DEF ValuesInv
  <2>2. Entries(Balance[d], Account, block)
    BY DEF BalancesInv
  <2> QED BY <1>1, <2>1, <2>2, ValueLater
<1>4. ASSUME NEW d \in Community
      PROVE  IssuanceOf(d)' = Left(IssuanceOf(d), Demurrage(d))
  <2>1. /\ IssuanceOf(d) = Value(TotalIssuance, d, Demurrage(d), block)
        /\ IssuanceOf(d)' = Value(TotalIssuance, d, Demurrage(d), block + 1)
        /\ Demurrage(d) \in Nat
    BY <1>1, <1>2, Values, NextValues DEF ValuesInv
  <2>2. Entries(TotalIssuance, Community, block)
    BY DEF BalancesInv
  <2> QED BY <1>1, <2>1, <2>2, ValueLater
<1>5. InTransit' = InTransit /\ RateNow' = RateNow
  BY <1>1, <1>2, TransitUnchanged DEF RateNow
<1>6. Money' = [c \in Community |-> [a \in Account |-> Left(Money[c][a], RateNow[c])]]
  BY <1>3 DEF Money, RateNow
<1>7. Supply' = [c \in Community |-> Left(Supply[c], RateNow[c])]
  BY <1>4 DEF Supply, RateNow
<1>8. Ledger!PowerOfTwo = PowerOfTwo
  BY DEF Ledger!PowerOfTwo, PowerOfTwo
<1>9. \A m, r : Ledger!Left(m, r) = Left(m, r)
  BY <1>8 DEF Ledger!Left, Left
<1> SUFFICES /\ Money' = [c \in Community |-> [a \in Account |-> Ledger!Left(Money[c][a], RateNow[c])]]
             /\ Supply' = [c \in Community |-> Ledger!Left(Supply[c], RateNow[c])]
             /\ UNCHANGED <<RateNow, InTransit>>
  BY DEF Ledger!NextBlock, Money, Supply, RateNow, InTransit
<1> QED BY <1>5, <1>6, <1>7, <1>9

\* Counting in whole fungible units loses less than one of them.
LEMMA WholeUnits ==
    ASSUME NEW x \in Nat
    PROVE  /\ Granularity \in Nat \ {0}
           /\ BalanceType(Fungible(x)) \in Nat
           /\ BalanceType(Fungible(x)) <= x
           /\ x < BalanceType(Fungible(x)) + Granularity
<1>1. Granularity \in Nat \ {0}
  BY BalancesAssumption
<1> DEFINE q == x \div Granularity
<1>2. /\ q \in Nat /\ Granularity * q \in Nat /\ Granularity * q <= x
      /\ x < Granularity * q + Granularity
  BY <1>1, QuotientBounds
<1> HIDE DEF q
<1>3. q * Granularity = Granularity * q
  BY <1>1, <1>2, SMTT(30)
<1>4. BalanceType(Fungible(x)) = q * Granularity
  BY DEF BalanceType, Fungible, q
<1> QED BY <1>1, <1>2, <1>3, <1>4

\* Sums and differences of fungible amounts.
LEMMA UnitsAdd ==
    ASSUME NEW m \in Nat, NEW n \in Nat
    PROVE  /\ BalanceType(m + n) = BalanceType(m) + BalanceType(n)
           /\ n <= m => BalanceType(m - n) = BalanceType(m) - BalanceType(n)
           /\ n <= m <=> BalanceType(n) <= BalanceType(m)
           /\ BalanceType(n) \in Nat /\ BalanceType(m) \in Nat
           /\ BalanceType(n) = 0 <=> n = 0
<1>1. Granularity \in Nat \ {0}
  BY BalancesAssumption
<1>2. BalanceType(n) \in Nat /\ BalanceType(m) \in Nat
  BY Coins
<1>3. BalanceType(m + n) = BalanceType(m) + BalanceType(n)
  BY <1>1, SMTT(30) DEF BalanceType
<1>4. n <= m => BalanceType(m - n) = BalanceType(m) - BalanceType(n)
  BY <1>1, SMTT(30) DEF BalanceType
<1>5. \A i, j \in Nat : i < j => BalanceType(i) < BalanceType(j)
  <2> TAKE i, j \in Nat
  <2> HAVE i < j
  <2>1. Granularity * i + Granularity <= Granularity * j
    BY <1>1, TimesGrows
  <2>2. i * Granularity = Granularity * i /\ j * Granularity = Granularity * j
    BY <1>1, SMTT(30)
  <2>3. BalanceType(i) \in Nat /\ BalanceType(j) \in Nat
    BY Coins
  <2>4. BalanceType(i) + Granularity <= BalanceType(j)
    BY <2>1, <2>2 DEF BalanceType
  <2> QED BY <1>1, <2>3, <2>4
<1>6. n <= m <=> BalanceType(n) <= BalanceType(m)
  <2>1. CASE n = m
    BY <1>2, <2>1
  <2>2. CASE n < m
    BY <1>2, <1>5, <2>2
  <2>3. CASE m < n
    BY <1>2, <1>5, <2>3
  <2> QED BY <2>1, <2>2, <2>3
<1>7. BalanceType(0) = 0
  BY <1>1, SMTT(30) DEF BalanceType
<1>8. n # 0 => 0 < BalanceType(n)
  BY <1>5, <1>7
<1> QED BY <1>2, <1>3, <1>4, <1>6, <1>7, <1>8

LEMMA WithdrawLedger ==
    ASSUME BalancesInv, BalancesInv', NEW c \in Community, NEW a \in Account,
           NEW native \in NativeFees, WithdrawFee(c, a, native)
    PROVE  Ledger!Withhold(c)
<1> DEFINE fee == AssetFee(native)
<1> DEFINE b == BalanceOf(c, a)
<1> DEFINE n == BalanceType(Fungible(b) - fee)
<1>1. fee \in Nat /\ b \in Nat
  BY FeeType, BalanceValue
<1>2. /\ fee > 0 /\ CanWithdraw(c, a, fee)
      /\ Balance' = [Balance EXCEPT ![c] = Insert(Balance[c], a, Entry(n))]
      /\ charge = NoCharge
      /\ charge' = [who |-> a, cid |-> c, credit |-> fee]
      /\ Still /\ TotalIssuance' = TotalIssuance
  BY DEF WithdrawFee, Still, FungibleBalance, Idle
<1>3. Fungible(b) \in Nat /\ Fungible(b) >= fee
  BY <1>1, <1>2, Coins DEF CanWithdraw, FungibleBalance
<1>4. b = Money[c][a]
  BY LedgerValues
<1> HIDE DEF fee, b
<1>5. n = BalanceType(Fungible(b)) - BalanceType(fee) /\ n \in Nat
  <2>1. Fungible(b) - fee \in Nat
    BY <1>1, <1>3
  <2> QED BY <1>1, <1>3, <2>1, UnitsAdd, Coins
<1> HIDE DEF n
<1>6. BalanceType(fee) \in Nat /\ BalanceType(fee) # 0 /\ BalanceType(0) = 0
  BY <1>1, <1>2, UnitsAdd
<1>7. /\ Money'[c][a] = n
      /\ \A x \in Account \ {a} : Money'[c][x] = Money[c][x]
      /\ \A d \in Community \ {c} : Money'[d] = Money[d]
  <2>1. Balance' = [Balance EXCEPT ![c] = Insert(Balance[c], a, Entry(n))] /\ Still /\ n \in Nat
    BY <1>2, <1>5
  <2> QED BY <2>1, OneWritten
<1>8. Supply' = Supply /\ RateNow' = RateNow
  BY <1>2, SupplyUnchanged, RateUnchanged
<1>9. /\ \A d \in Community : Held(d) = 0
      /\ Held(c)' = fee
      /\ \A d \in Community \ {c} : Held(d)' = 0
  <2>1. charge' # NoCharge
    <3>1. DOMAIN charge' # DOMAIN NoCharge
      BY <1>2 DEF NoCharge
    <3> QED BY <3>1
  <2>2. charge'.cid = c /\ charge'.credit = fee
    BY <1>2
  <2> QED BY <1>2, <2>1, <2>2 DEF Held, Idle, NoCharge
<1>10. /\ InTransit[c] = 0 /\ InTransit'[c] = BalanceType(fee)
       /\ \A d \in Community \ {c} : InTransit'[d] = InTransit[d]
  BY <1>6, <1>9, LedgerValues
<1>11. /\ BalanceType(Fungible(b)) \in Nat /\ BalanceType(Fungible(b)) <= b
       /\ b < BalanceType(Fungible(b)) + Granularity /\ Granularity \in Nat
  BY <1>1, WholeUnits
<1>12. /\ (Money[c][a] - InTransit'[c]) - Granularity < Money'[c][a]
       /\ Money'[c][a] <= Money[c][a] - InTransit'[c]
       /\ Money'[c][a] >= 0
       /\ InTransit'[c] > 0
  BY <1>1, <1>4, <1>5, <1>6, <1>7, <1>10, <1>11
<1> SUFFICES \E x \in Account :
               /\ InTransit[c] = 0
               /\ InTransit'[c] > 0
               /\ \A o \in Community \ {c} : InTransit'[o] = InTransit[o]
               /\ (Money[c][x] - InTransit'[c]) - Granularity < Money'[c][x]
               /\ Money'[c][x] <= Money[c][x] - InTransit'[c]
               /\ Money'[c][x] >= 0
               /\ \A y \in Account \ {x} : Money'[c][y] = Money[c][y]
               /\ \A d \in Community \ {c} : Money'[d] = Money[d] /\ Supply'[d] = Supply[d]
               /\ UNCHANGED <<Supply, RateNow>>
  BY DEF Ledger!Withhold, Ledger!Rounded, Ledger!Others, Ledger!Elsewhere,
         Money, Supply, RateNow, InTransit
<1> WITNESS a \in Account
<1> QED BY <1>7, <1>8, <1>10, <1>12

LEMMA SettleLedger ==
    ASSUME BalancesInv, BalancesInv', NEW refund \in 0 .. charge.credit, SettleFee(refund)
    PROVE  Ledger!Settle(charge.cid)
<1> DEFINE c == charge.cid
<1> DEFINE a == charge.who
<1> DEFINE credit == charge.credit
<1> DEFINE fee == credit - refund
<1> DEFINE b == BalanceOf(c, a)
<1> DEFINE s == IssuanceOf(c)
<1> DEFINE n == BalanceType(Fungible(b) + refund)
<1> DEFINE m == BalanceType(Minus(Fungible(s), fee))
<1>1. /\ charge # NoCharge /\ charge' = NoCharge
      /\ Balance' = IF refund = 0 THEN Balance
                    ELSE [Balance EXCEPT ![c] = Insert(Balance[c], a, Entry(n))]
      /\ TotalIssuance' = IF fee = 0 THEN TotalIssuance ELSE Insert(TotalIssuance, c, Entry(m))
      /\ Still
  BY DEF SettleFee, Idle, Still, FungibleBalance, FungibleIssuance
<1>2. /\ a \in Account /\ c \in Community
      /\ credit \in Nat /\ fee \in Nat /\ refund \in Nat /\ refund <= credit
  <2>1. a \in Account /\ c \in DOMAIN TotalIssuance /\ credit \in Nat
    BY <1>1 DEF BalancesInv
  <2>2. c \in Community
    BY <2>1 DEF BalancesInv, Entries
  <2> QED BY <2>1, <2>2
<1>3. \A d \in Community : Held(d) = (IF d = c THEN credit ELSE 0) /\ Held(d)' = 0
  BY <1>1 DEF Held, Idle
<1> HIDE DEF c, a, credit
<1>4. b \in Nat /\ s \in Nat /\ b = Money[c][a] /\ s = Supply[c]
  BY <1>2, BalanceValue, IssuanceValue, LedgerValues
<1> HIDE DEF b, s
<1>5. Fungible(b) \in Nat /\ Fungible(s) \in Nat
  BY <1>4, Coins
<1>6. Fungible(b) + refund \in Nat /\ Minus(Fungible(s), fee) \in Nat
  BY <1>2, <1>5 DEF Minus
<1> DEFINE back == BalanceType(refund)
<1> DEFINE paid == BalanceType(fee)
<1>7. n \in Nat /\ m \in Nat /\ back \in Nat /\ paid \in Nat /\ BalanceType(credit) \in Nat
  BY <1>2, <1>6, Coins
<1>8. /\ n = BalanceType(Fungible(b)) + back
      /\ BalanceType(credit) - back = paid /\ back <= BalanceType(credit)
      /\ (back = 0 <=> refund = 0) /\ (paid = 0 <=> fee = 0)
  <2>1. n = BalanceType(Fungible(b)) + back /\ (back = 0 <=> refund = 0)
    BY <1>2, <1>5, UnitsAdd
  <2>2. BalanceType(credit - refund) = BalanceType(credit) - BalanceType(refund)
        /\ BalanceType(refund) <= BalanceType(credit)
    BY <1>2, UnitsAdd
  <2>3. paid = 0 <=> fee = 0
    <3> HIDE DEF fee
    <3> QED BY <1>2, UnitsAdd
  <2> QED BY <1>7, <2>1, <2>2, <2>3
<1>9. m = IF fee > Fungible(s) THEN 0 ELSE BalanceType(Fungible(s)) - paid
  <2> HIDE DEF fee
  <2>1. CASE fee > Fungible(s)
    <3>1. BalanceType(0) = 0
      BY UnitsAdd
    <3> QED BY <2>1, <3>1 DEF Minus
  <2>2. CASE ~ (fee > Fungible(s))
    <3>1. fee <= Fungible(s)
      BY <1>2, <1>5, <2>2
    <3>2. BalanceType(Fungible(s) - fee) = BalanceType(Fungible(s)) - paid
      BY <1>2, <1>5, <3>1, UnitsAdd
    <3> QED BY <2>2, <3>2 DEF Minus
  <2> QED BY <2>1, <2>2
<1>10. fee > Fungible(s) <=> paid > s
  <2> HIDE DEF fee
  <2> DEFINE q == Fungible(s)
  <2>1. fee <= q <=> paid <= BalanceType(q)
    BY <1>2, <1>5, UnitsAdd
  <2>2. BalanceType(q) \in Nat /\ BalanceType(q) <= s
    BY <1>4, WholeUnits
  <2>3. s < BalanceType(q + 1)
    <3>1. BalanceType(q + 1) = BalanceType(q) + BalanceType(1)
      BY <1>5, UnitsAdd
    <3>2. BalanceType(1) = Granularity /\ s < BalanceType(q) + Granularity
      BY <1>4, WholeUnits DEF BalanceType
    <3> QED BY <3>1, <3>2
  <2>4. q + 1 <= fee <=> BalanceType(q + 1) <= paid
    <3> DEFINE p == q + 1
    <3>1. p \in Nat
      BY <1>5
    <3> HIDE DEF p
    <3>2. p <= fee <=> BalanceType(p) <= paid
      BY <1>2, <3>1, UnitsAdd
    <3> QED BY <3>2 DEF p
  <2>5. BalanceType(q + 1) \in Nat /\ q \in Nat
    BY <1>5, Coins
  <2> HIDE DEF q, paid
  <2>6. CASE fee > q
    <3>1. BalanceType(q + 1) <= paid
      BY <1>2, <2>4, <2>5, <2>6
    <3>2. paid > s
      BY <1>4, <1>7, <2>3, <2>5, <3>1
    <3> QED BY <2>6, <3>2 DEF q
  <2>7. CASE ~ (fee > q)
    <3>1. paid <= BalanceType(q)
      BY <1>2, <2>1, <2>5, <2>7
    <3>2. ~ (paid > s)
      BY <1>4, <1>7, <2>2, <3>1
    <3> QED BY <2>7, <3>2 DEF q
  <2> QED BY <2>6, <2>7
<1> HIDE DEF n, m, back, paid
<1>11. /\ Money'[c][a] = IF refund = 0 THEN b ELSE n
       /\ \A x \in Account \ {a} : Money'[c][x] = Money[c][x]
       /\ \A d \in Community \ {c} : Money'[d] = Money[d]
  <2>1. CASE refund = 0
    <3>1. Balance' = Balance
      BY <1>1, <2>1
    <3>2. Money' = Money
      BY <1>1, <3>1, SameBalance, MoneyUnchanged
    <3> QED BY <1>4, <2>1, <3>2
  <2>2. CASE refund # 0
    <3>1. Balance' = [Balance EXCEPT ![c] = Insert(Balance[c], a, Entry(n))] /\ Still /\ n \in Nat
      BY <1>1, <1>7, <2>2
    <3>2. /\ Money'[c][a] = n
          /\ \A x \in Account \ {a} : Money'[c][x] = Money[c][x]
          /\ \A d \in Community \ {c} : Money'[d] = Money[d]
      BY <1>2, <3>1, OneWritten
    <3> QED BY <2>2, <3>2
  <2> QED BY <2>1, <2>2
<1>12. /\ Supply'[c] = IF fee = 0 THEN s ELSE m
       /\ \A d \in Community \ {c} : Supply'[d] = Supply[d]
  <2>1. CASE fee = 0
    <3>1. TotalIssuance' = TotalIssuance
      BY <1>1, <2>1
    <3>2. Supply' = Supply
      BY <1>1, <3>1, SupplyUnchanged
    <3> QED BY <1>4, <2>1, <3>2
  <2>2. CASE fee # 0
    <3>1. TotalIssuance' = Insert(TotalIssuance, c, Entry(m)) /\ Still /\ m \in Nat
      BY <1>1, <1>7, <2>2
    <3>2. Supply'[c] = m /\ \A d \in Community \ {c} : Supply'[d] = Supply[d]
      BY <1>2, <3>1, SupplyWritten
    <3> QED BY <2>2, <3>2
  <2> QED BY <2>1, <2>2
<1>13. /\ InTransit[c] = BalanceType(credit)
       /\ InTransit' = [InTransit EXCEPT ![c] = 0]
  <2>1. BalanceType(0) = 0
    BY UnitsAdd
  <2> QED BY <1>2, <1>3, <2>1 DEF InTransit, BalanceType
<1>14. RateNow' = RateNow
  BY <1>1, RateUnchanged
<1>15. IF back = 0 THEN Money'[c][a] = Money[c][a]
       ELSE /\ (Money[c][a] + back) - Granularity < Money'[c][a]
            /\ Money'[c][a] <= Money[c][a] + back
  <2>1. /\ BalanceType(Fungible(b)) \in Nat /\ BalanceType(Fungible(b)) <= b
        /\ b < BalanceType(Fungible(b)) + Granularity /\ Granularity \in Nat
    BY <1>4, WholeUnits
  <2>2. CASE back = 0
    BY <1>4, <1>8, <1>11, <2>2
  <2>3. CASE back # 0
    <3>1. Money'[c][a] = BalanceType(Fungible(b)) + back
      BY <1>8, <1>11, <2>3
    <3> QED BY <1>4, <1>7, <2>1, <2>3, <3>1
  <2> QED BY <2>2, <2>3
<1>16. /\ paid = 0 => Supply'[c] = Supply[c]
       /\ paid # 0 /\ paid > Supply[c] => Supply'[c] = 0
       /\ paid # 0 /\ ~ (paid > Supply[c]) => /\ (Supply[c] - paid) - Granularity < Supply'[c]
                                              /\ Supply'[c] <= Supply[c] - paid
  <2>1. /\ BalanceType(Fungible(s)) \in Nat /\ BalanceType(Fungible(s)) <= s
        /\ s < BalanceType(Fungible(s)) + Granularity /\ Granularity \in Nat
    BY <1>4, WholeUnits
  <2>2. paid # 0 => Supply'[c] = IF paid > s THEN 0 ELSE BalanceType(Fungible(s)) - paid
    BY <1>8, <1>9, <1>10, <1>12
  <2>3. paid = 0 => Supply'[c] = s
    BY <1>8, <1>12
  <2> HIDE DEF fee
  <2> QED BY <1>4, <1>7, <2>1, <2>2, <2>3
<1>17. paid = InTransit[c] - back /\ back \in 0 .. InTransit[c] /\ Supply[c] \in Nat
  BY <1>4, <1>7, <1>8, <1>13
<1> HIDE DEF fee
<1> SUFFICES \E x \in Account, y \in 0 .. InTransit[c] :
               LET z == InTransit[c] - y
               IN  /\ InTransit' = [InTransit EXCEPT ![c] = 0]
                   /\ IF y = 0 THEN Money'[c][x] = Money[c][x]
                               ELSE /\ (Money[c][x] + y) - Granularity < Money'[c][x]
                                    /\ Money'[c][x] <= Money[c][x] + y
                   /\ CASE z = 0         -> Supply'[c] = Supply[c]
                        [] z > Supply[c] -> Supply'[c] = 0
                        [] OTHER         -> /\ (Supply[c] - z) - Granularity < Supply'[c]
                                            /\ Supply'[c] <= Supply[c] - z
                   /\ \A o \in Account \ {x} : Money'[c][o] = Money[c][o]
                   /\ \A d \in Community \ {c} : Money'[d] = Money[d] /\ Supply'[d] = Supply[d]
                   /\ UNCHANGED RateNow
  BY DEF Ledger!Settle, Ledger!Rounded, Ledger!Others, Ledger!Elsewhere,
         Money, Supply, RateNow, InTransit, c
<1>18. (CASE paid = 0         -> Supply'[c] = Supply[c]
          [] paid > Supply[c] -> Supply'[c] = 0
          [] OTHER            -> /\ (Supply[c] - paid) - Granularity < Supply'[c]
                                 /\ Supply'[c] <= Supply[c] - paid)
  <2>1. CASE paid = 0
    BY <1>7, <1>16, <1>17, <2>1
  <2>2. CASE paid # 0 /\ paid > Supply[c]
    BY <1>16, <2>2
  <2>3. CASE paid # 0 /\ ~ (paid > Supply[c])
    BY <1>16, <2>3
  <2> QED BY <2>1, <2>2, <2>3
<1> a \in Account /\ back \in 0 .. InTransit[c]
  BY <1>2, <1>17
<1> WITNESS a \in Account, back \in 0 .. InTransit[c]
<1> QED BY <1>11, <1>12, <1>13, <1>14, <1>15, <1>17, <1>18

LEMMA LedgerStep ==
    ASSUME BalancesInv, BalancesInv', [BalancesNext]_balanceVars
    PROVE  [Ledger!Next]_(Ledger!ledger)
<1>0. UNCHANGED <<Money, Supply, RateNow, InTransit>> => UNCHANGED Ledger!ledger
  BY DEF Ledger!ledger, Money, Supply, RateNow, InTransit
<1>1. CASE UNCHANGED <<block, Balance, TotalIssuance, DemurragePerBlock, charge>>
  <2>1. Still
    BY <1>1 DEF Still
  <2>2. Money' = Money
    BY <1>1, <2>1, SameBalance, MoneyUnchanged
  <2>3. Supply' = Supply /\ RateNow' = RateNow /\ InTransit' = InTransit
    BY <1>1, <2>1, SupplyUnchanged, RateUnchanged, TransitUnchanged
  <2> QED BY <1>0, <2>2, <2>3
<1>2. CASE UNCHANGED balanceVars
  BY <1>1, <1>2 DEF balanceVars, stored
<1>3. CASE NextBlock
  BY <1>3, BlockLedger DEF Ledger!Next
<1>4. ASSUME NEW f \in Factors, set_fee_conversion_factor(f)
      PROVE  [Ledger!Next]_(Ledger!ledger)
  BY <1>1, <1>4 DEF set_fee_conversion_factor, stored
<1>5. ASSUME NEW refund \in 0 .. charge.credit, SettleFee(refund)
      PROVE  [Ledger!Next]_(Ledger!ledger)
  <2>1. charge.cid \in Community
    <3>1. charge # NoCharge
      BY <1>5 DEF SettleFee, Idle
    <3> QED BY <3>1 DEF BalancesInv, Entries
  <2>2. Ledger!Settle(charge.cid)
    BY <1>5, SettleLedger
  <2> QED BY <2>1, <2>2 DEF Ledger!Next
<1>6. ASSUME NEW c \in Community, purge_balances(c)
      PROVE  [Ledger!Next]_(Ledger!ledger)
  BY <1>6, PurgeLedger DEF Ledger!Next
<1>7. ASSUME NEW c \in Community, NEW rate \in Rates, set_demurrage(c, rate)
      PROVE  [Ledger!Next]_(Ledger!ledger)
  BY <1>7, RateLedger DEF Ledger!Next
<1>8. ASSUME NEW c \in Community, NEW a \in Account, NEW native \in NativeFees, WithdrawFee(c, a, native)
      PROVE  [Ledger!Next]_(Ledger!ledger)
  BY <1>8, WithdrawLedger DEF Ledger!Next
<1>9. ASSUME NEW c \in Community, NEW a \in Account, NEW n \in Rewards, issue(c, a, n)
      PROVE  [Ledger!Next]_(Ledger!ledger)
  <2>1. Ledger!Mint(c)
    BY <1>9, IssueLedger, BalancesAssumption
  <2> QED BY <2>1 DEF Ledger!Next
<1>10. ASSUME NEW c \in Community, NEW a \in Account, NEW n \in Amounts, burn(c, a, n)
       PROVE  [Ledger!Next]_(Ledger!ledger)
  <2>1. Ledger!Destroy(c)
    BY <1>10, BurnLedger, BalancesAssumption
  <2> QED BY <2>1 DEF Ledger!Next
<1>11. ASSUME NEW c \in Community, NEW a \in Account, NEW b \in Account, NEW n \in Nat,
              transfer(c, a, b, n)
       PROVE  [Ledger!Next]_(Ledger!ledger)
  <2>1. Ledger!Pay(c) \/ UNCHANGED <<Money, Supply, RateNow, InTransit>>
    BY <1>11, TransferLedger
  <2> QED BY <1>0, <2>1 DEF Ledger!Next
<1>12. ASSUME NEW c \in Community, NEW a \in Account, NEW b \in Account, transfer_all(c, a, b)
       PROVE  [Ledger!Next]_(Ledger!ledger)
  BY <1>11, <1>12, BalanceValue DEF transfer_all
<1>13. ASSUME NEW c \in Community, NEW a \in Account, NEW b \in Account, NEW n \in Amounts,
              transfer(c, a, b, n)
       PROVE  [Ledger!Next]_(Ledger!ledger)
  BY <1>11, <1>13, BalancesAssumption
<1> QED BY <1>2, <1>3, <1>4, <1>5, <1>6, <1>7, <1>8, <1>9, <1>10, <1>12, <1>13 DEF BalancesNext

\* The lazily updated entries are a ledger in which all money decays with
\* every block: whatever the order of payments, issues, fees, purges and new
\* demurrages, nobody can tell when an entry was last written.
THEOREM LazyDemurrageIsInvisible == BalancesSpec => ImplementsLedger
<1>1. BalancesInit => Ledger!Init
  <2> SUFFICES ASSUME BalancesInit PROVE Ledger!Init
    OBVIOUS
  <2>1. BalancesInv
    BY BalancesInvInit
  <2>2. DOMAIN TotalIssuance = {} /\ (\A c \in Community : DOMAIN Balance[c] = {}) /\ charge = NoCharge
    BY DEF BalancesInit, Remove
  <2>3. \A c \in Community, a \in Account : BalanceOf(c, a) = 0
    BY <2>1, <2>2, BalanceValue DEF Value
  <2>4. \A c \in Community : IssuanceOf(c) = 0 /\ Demurrage(c) \in Nat
    BY <2>1, <2>2, IssuanceValue, RateType DEF Value
  <2>5. \A c \in Community : BalanceType(Held(c)) = 0
    <3>1. \A c \in Community : Held(c) = 0
      BY <2>2 DEF Held, Idle
    <3>2. BalanceType(0) = 0
      BY UnitsAdd
    <3> QED BY <3>1, <3>2
  <2> QED BY <2>3, <2>4, <2>5 DEF Ledger!Init
<1>2. BalancesInv /\ BalancesInv' /\ [BalancesNext]_balanceVars => [Ledger!Next]_(Ledger!ledger)
  BY LedgerStep
<1> QED BY <1>1, <1>2, BalancesInvHolds, PTL DEF BalancesSpec, ImplementsLedger, Ledger!Spec

-----------------------------------------------------------------------------
(* The issuance covers the money.                                           *)

\* The money of all accounts, and the property for the values of a state: m
\* the money of a community, h its fees in transit, s its supply, n the
\* number of fees that were settled.
Total(m) == SumFunctionOnSet(m, Account)

Covered(m, h, s, n) == Total(m) + h <= s + (Granularity - 1) * n

Covers == ~revalued => \A c \in Community : Covered(Money[c], InTransit[c], Supply[c], settled)

LEMMA TotalType ==
    ASSUME NEW m \in [Account -> Nat]
    PROVE  Total(m) \in Nat /\ Summable(m, Account)
<1>1. IsFiniteSet(Account) /\ \A a \in Account : m[a] \in Nat
  BY BalancesAssumption
<1> QED BY <1>1, SumNatural DEF Total, Summable

LEMMA TotalChange ==
    ASSUME NEW m \in [Account -> Nat], NEW k \in [Account -> Nat], NEW a \in Account,
           \A x \in Account \ {a} : k[x] = m[x]
    PROVE  Total(k) = Total(m) - m[a] + k[a]
<1>1. Summable(m, Account)
  BY TotalType
<1>2. k[a] \in Int /\ \A y \in Account : y # a => k[y] = m[y]
  OBVIOUS
<1> QED BY <1>1, <1>2, SumChange DEF Total

\* The slack that fees leave.
LEMMA Slack ==
    ASSUME NEW n \in Nat
    PROVE  /\ Granularity \in Nat \ {0}
           /\ (Granularity - 1) * n \in Nat
           /\ (Granularity - 1) * (n + 1) = (Granularity - 1) * n + (Granularity - 1)
<1>1. Granularity \in Nat \ {0}
  BY BalancesAssumption
<1> DEFINE g == Granularity - 1
<1>2. g \in Nat
  BY <1>1
<1> HIDE DEF g
<1>3. g * n \in Nat /\ g * (n + 1) = g * n + g
  BY <1>2, SMTT(30)
<1> QED BY <1>1, <1>3 DEF g

\* The values of the ledger in a state.
LedgerType(M, S, R, H) ==
    \A c \in Community : M[c] \in [Account -> Nat] /\ S[c] \in Nat /\ R[c] \in Nat /\ H[c] \in Nat

LEMMA LedgerTyped == BalancesInv => LedgerType(Money, Supply, RateNow, InTransit)
<1> SUFFICES ASSUME BalancesInv, NEW c \in Community
             PROVE  /\ Money[c] \in [Account -> Nat]
                    /\ Supply[c] \in Nat /\ RateNow[c] \in Nat /\ InTransit[c] \in Nat
  BY DEF LedgerType
<1>1. Held(c) \in Nat
  BY DEF Held, BalancesInv
<1>2. BalanceType(Held(c)) \in Nat
  BY <1>1, Coins
<1>3. IssuanceOf(c) \in Nat /\ Demurrage(c) \in Nat /\ \A a \in Account : BalanceOf(c, a) \in Nat
  BY Values DEF ValuesInv
<1> QED BY <1>2, <1>3 DEF Money, Supply, RateNow, InTransit

LEMMA NextLedgerTyped == BalancesInv' => LedgerType(Money', Supply', RateNow', InTransit')
<1>1. (BalancesInv => LedgerType(Money, Supply, RateNow, InTransit))'
  BY LedgerTyped, PTL
<1> QED BY <1>1 DEF LedgerType

\* A step of one account in one community, whose sum is at most compensated
\* by the fees in transit, the supply and the slack.
LEMMA CoversOne ==
    ASSUME NEW m \in [Account -> Nat], NEW k \in [Account -> Nat], NEW a \in Account,
           \A x \in Account \ {a} : k[x] = m[x],
           NEW h \in Nat, NEW i \in Nat, NEW s \in Nat, NEW t \in Nat, NEW n \in Nat, NEW p \in Nat,
           Covered(m, h, s, n),
           p = n \/ p = n + 1,
           k[a] + i - t <= m[a] + h - s + (IF p = n THEN 0 ELSE Granularity - 1)
    PROVE  Covered(k, i, t, p)
<1> DEFINE x == Total(m)
<1> DEFINE y == Total(k)
<1> DEFINE u == (Granularity - 1) * n
<1> DEFINE v == (Granularity - 1) * p
<1>1. x \in Nat /\ y \in Nat /\ y = x - m[a] + k[a]
  BY TotalType, TotalChange
<1>2. Granularity \in Nat \ {0} /\ u \in Nat /\ v = u + (IF p = n THEN 0 ELSE Granularity - 1)
  <2>1. /\ Granularity \in Nat \ {0} /\ u \in Nat
        /\ (Granularity - 1) * (n + 1) = u + (Granularity - 1)
    BY Slack
  <2>2. CASE p = n
    <3>1. v = u
      BY <2>2
    <3> HIDE DEF u, v
    <3> QED BY <2>1, <2>2, <3>1
  <2>3. CASE p # n
    <3>1. v = u + (Granularity - 1)
      BY <2>1, <2>3
    <3> HIDE DEF u, v
    <3> QED BY <2>1, <2>3, <3>1
  <2> QED BY <2>2, <2>3
<1>3. x + h <= s + u
  BY DEF Covered
<1>4. m[a] \in Nat /\ k[a] \in Nat
  OBVIOUS
<1> HIDE DEF x, y, u, v
<1>5. y + i <= t + v
  BY <1>1, <1>2, <1>3, <1>4
<1> QED BY <1>5 DEF Covered, x, y, u, v

\* Nothing that the property is about changes in community c.
LEMMA CoversSame ==
    ASSUME NEW m \in [Account -> Nat], NEW h \in Nat, NEW s \in Nat, NEW n \in Nat, NEW p \in Nat,
           Covered(m, h, s, n), p = n \/ p = n + 1
    PROVE  Covered(m, h, s, p)
<1>1. CASE p = n
  BY <1>1
<1>2. CASE p = n + 1
  <2> DEFINE u == (Granularity - 1) * n
  <2> DEFINE v == (Granularity - 1) * p
  <2> DEFINE x == Total(m)
  <2>1. Granularity \in Nat \ {0} /\ u \in Nat /\ v = u + (Granularity - 1) /\ x \in Nat
    BY <1>2, Slack, TotalType
  <2>2. x + h <= s + u
    BY DEF Covered
  <2> HIDE DEF u, v, x
  <2>3. x + h <= s + v
    BY <2>1, <2>2
  <2> QED BY <2>3 DEF Covered, v, x
<1> QED BY <1>1, <1>2

\* Accounts without money are covered.
LEMMA CoversNothing ==
    ASSUME NEW m \in [Account -> Nat], \A a \in Account : m[a] = 0, NEW s \in Nat, NEW n \in Nat
    PROVE  Covered(m, 0, s, n)
<1> DEFINE zero == [a \in Account |-> 0]
<1> DEFINE u == (Granularity - 1) * n
<1>1. Total(m) = 0
  <2> DEFINE Bad == {t \in SUBSET Account : SumFunctionOnSet(m, t) # 0}
  <2>0. \A t \in SUBSET Account : Summable(m, t)
    BY TotalType, FS_Subset DEF Summable
  <2> SUFFICES ASSUME Bad # {} PROVE FALSE
    BY DEF Total
  <2>1. PICK t \in Bad : \A o \in Bad : o \subseteq t => o = t
    <3>1. Bad \subseteq SUBSET Account /\ IsFiniteSet(Account)
      BY BalancesAssumption
    <3> HIDE DEF Bad
    <3> QED BY <3>1, SmallestSubset
  <2>2. t \in SUBSET Account /\ SumFunctionOnSet(m, t) # 0
    OBVIOUS
  <2>3. t # {}
    BY <2>2, SumEmpty
  <2>4. PICK a \in t : TRUE
    BY <2>3
  <2>5. SumFunctionOnSet(m, t) = m[a] + SumFunctionOnSet(m, t \ {a})
    BY <2>0, <2>2, <2>4, SumSplit
  <2>6. t \ {a} \notin Bad
    BY <2>1, <2>4
  <2> QED BY <2>2, <2>4, <2>5, <2>6
<1>2. u \in Nat
  BY Slack
<1> HIDE DEF u
<1>3. 0 + 0 <= s + u
  BY <1>2
<1> QED BY <1>1, <1>3 DEF Covered, u

LEMMA CoversPay ==
    ASSUME BalancesInv, BalancesInv', NEW c \in Community, Ledger!Pay(c), Covers,
           UNCHANGED <<revalued, settled>>
    PROVE  Covers'
<1> DEFINE PaidOut(a, b, paid) ==
      LET rest == Money[c][a] - paid
          sum  == Money[c][b] + paid
      IN  /\ a # b
          /\ Money' = [Money EXCEPT ![c][a] = IF rest < ExistentialDeposit THEN 0 ELSE rest,
                                    ![c][b] = IF sum > MaxBalance THEN MaxBalance ELSE sum]
          /\ UNCHANGED <<Supply, RateNow, InTransit>>
<1>0. PICK a \in Account, b \in Account : \E paid \in 1 .. Money[c][a] : PaidOut(a, b, paid)
  BY DEF Ledger!Pay, Money, Supply, RateNow, InTransit
<1>1. PICK paid \in 1 .. Money[c][a] : PaidOut(a, b, paid)
  BY <1>0
<1>2. LedgerType(Money, Supply, RateNow, InTransit) /\ LedgerType(Money', Supply', RateNow', InTransit')
  BY LedgerTyped, NextLedgerTyped
<1>3. settled \in Nat
  BY DEF BalancesInv
<1> SUFFICES ASSUME ~ revalued, NEW d \in Community
             PROVE  Covered(Money'[d], InTransit[d], Supply[d], settled)
  BY <1>1 DEF Covers
<1>4. Covered(Money[d], InTransit[d], Supply[d], settled)
  BY DEF Covers
<1>5. CASE d # c
  <2>1. Money'[d] = Money[d]
    BY <1>1, <1>5 DEF Money
  <2> QED BY <1>4, <2>1
<1>6. CASE d = c
  <2> DEFINE m == Money[c]
  <2> DEFINE k == Money'[c]
  <2> DEFINE one == [m EXCEPT ![a] = k[a]]
  <2>1. m \in [Account -> Nat] /\ k \in [Account -> Nat] /\ InTransit[c] \in Nat /\ Supply[c] \in Nat
    BY <1>2 DEF LedgerType
  <2>2. a # b /\ \A x \in Account \ {a, b} : k[x] = m[x]
    <3>1. a # b
      BY <1>1
    <3>2. DOMAIN Money = Community /\ DOMAIN Money[c] = Account
      BY DEF Money
    <3> QED BY <1>1, <3>1, <3>2
  <2>3. k[a] <= m[a] - paid /\ k[b] <= m[b] + paid
    <3>1. /\ k[a] = IF m[a] - paid < ExistentialDeposit THEN 0 ELSE m[a] - paid
          /\ k[b] = IF m[b] + paid > MaxBalance THEN MaxBalance ELSE m[b] + paid
      BY <1>1 DEF Money
    <3>2. m[a] \in Nat /\ m[b] \in Nat /\ paid \in Nat /\ paid <= m[a]
      BY <1>1, <2>1
    <3>3. ExistentialDeposit \in Nat /\ MaxBalance \in Nat
      BY BalancesAssumption
    <3> HIDE DEF m, k
    <3> QED BY <3>1, <3>2, <3>3
  <2>4. one \in [Account -> Nat] /\ one[a] = k[a] /\ one[b] = m[b]
    BY <2>1, <2>2
  <2>5. Total(one) = Total(m) - m[a] + k[a] /\ Total(one) \in Nat /\ Total(m) \in Nat
    <3>1. \A x \in Account \ {a} : one[x] = m[x]
      BY <2>1
    <3> HIDE DEF one, m
    <3> QED BY <2>1, <2>4, <3>1, TotalChange, TotalType
  <2>6. Total(k) = Total(one) - m[b] + k[b] /\ Total(k) \in Nat
    <3>1. \A x \in Account \ {b} : k[x] = one[x]
      BY <2>1, <2>2
    <3> HIDE DEF one, k
    <3> QED BY <2>1, <2>4, <3>1, TotalChange, TotalType
  <2> DEFINE u == (Granularity - 1) * settled
  <2>7. u \in Nat /\ Total(m) + InTransit[c] <= Supply[c] + u
    BY <1>3, <1>4, <1>6, Slack DEF Covered
  <2>8. m[a] \in Nat /\ m[b] \in Nat /\ k[a] \in Nat /\ k[b] \in Nat /\ paid \in Nat
    <3>1. m[a] \in Nat /\ m[b] \in Nat /\ k[a] \in Nat /\ k[b] \in Nat
      BY <2>1
    <3> QED BY <3>1
  <2> HIDE DEF m, k, one, u
  <2>9. Total(k) + InTransit[c] <= Supply[c] + u
    BY <2>1, <2>3, <2>5, <2>6, <2>7, <2>8
  <2> QED BY <1>6, <2>9 DEF Covered, u, k
<1> QED BY <1>5, <1>6

\* A step of one account and one community: minting, burning, fees.
LEMMA CoversLocal ==
    ASSUME BalancesInv, BalancesInv', Covers, revalued' = revalued,
           settled' = settled \/ settled' = settled + 1,
           NEW c \in Community, NEW a \in Account,
           \A x \in Account \ {a} : Money'[c][x] = Money[c][x],
           \A d \in Community \ {c} : /\ Money'[d] = Money[d] /\ Supply'[d] = Supply[d]
                                      /\ InTransit'[d] = InTransit[d],
           Money'[c][a] + InTransit'[c] - Supply'[c]
             <= Money[c][a] + InTransit[c] - Supply[c]
                + (IF settled' = settled THEN 0 ELSE Granularity - 1)
    PROVE  Covers'
<1>1. LedgerType(Money, Supply, RateNow, InTransit) /\ LedgerType(Money', Supply', RateNow', InTransit')
  BY LedgerTyped, NextLedgerTyped
<1>2. settled \in Nat /\ settled' \in Nat
  BY DEF BalancesInv
<1> SUFFICES ASSUME ~ revalued, NEW d \in Community
             PROVE  Covered(Money'[d], InTransit'[d], Supply'[d], settled')
  BY DEF Covers
<1>3. Covered(Money[d], InTransit[d], Supply[d], settled)
  BY DEF Covers
<1>4. /\ Money[d] \in [Account -> Nat] /\ Money'[d] \in [Account -> Nat]
      /\ InTransit[d] \in Nat /\ InTransit'[d] \in Nat /\ Supply[d] \in Nat /\ Supply'[d] \in Nat
  BY <1>1 DEF LedgerType
<1>5. CASE d # c
  <2>1. Covered(Money[d], InTransit[d], Supply[d], settled')
    BY <1>2, <1>3, <1>4, CoversSame
  <2> QED BY <1>5, <2>1
<1>6. CASE d = c
  <2> DEFINE m == Money[c]
  <2> DEFINE k == Money'[c]
  <2> DEFINE h == InTransit[c]
  <2> DEFINE i == InTransit'[c]
  <2> DEFINE s == Supply[c]
  <2> DEFINE t == Supply'[c]
  <2>1. /\ m \in [Account -> Nat] /\ k \in [Account -> Nat]
        /\ h \in Nat /\ i \in Nat /\ s \in Nat /\ t \in Nat
    BY <1>4, <1>6
  <2>2. /\ \A x \in Account \ {a} : k[x] = m[x]
        /\ Covered(m, h, s, settled)
        /\ k[a] + i - t <= m[a] + h - s + (IF settled' = settled THEN 0 ELSE Granularity - 1)
    BY <1>3, <1>6
  <2> HIDE DEF m, k, h, i, s, t
  <2>3. Covered(k, i, t, settled')
    BY <1>2, <2>1, <2>2, CoversOne
  <2> QED BY <1>6, <2>3 DEF k, i, t
<1> QED BY <1>5, <1>6

LEMMA CoversMint ==
    ASSUME BalancesInv, BalancesInv', Covers, UNCHANGED <<revalued, settled>>,
           NEW c \in Community, Ledger!Mint(c)
    PROVE  Covers'
<1>1. PICK a \in Account :
        /\ Supply'[c] - Supply[c] = Money'[c][a] - Money[c][a]
        /\ \A x \in Account \ {a} : Money'[c][x] = Money[c][x]
        /\ \A d \in Community \ {c} : Money'[d] = Money[d] /\ Supply'[d] = Supply[d]
        /\ InTransit' = InTransit
  BY DEF Ledger!Mint, Ledger!Others, Ledger!Elsewhere, Money, Supply, RateNow, InTransit
<1>2. /\ Money[c][a] \in Nat /\ Money'[c][a] \in Nat /\ Supply[c] \in Nat /\ Supply'[c] \in Nat
      /\ InTransit[c] \in Nat
  BY LedgerTyped, NextLedgerTyped DEF LedgerType
<1>3. Money'[c][a] + InTransit'[c] - Supply'[c] <= Money[c][a] + InTransit[c] - Supply[c] + 0
  BY <1>1, <1>2
<1> QED BY <1>1, <1>3, CoversLocal

LEMMA CoversDestroy ==
    ASSUME BalancesInv, BalancesInv', Covers, UNCHANGED <<revalued, settled>>,
           NEW c \in Community, Ledger!Destroy(c)
    PROVE  Covers'
<1>1. PICK a \in Account :
        LET lost == Money[c][a] - Money'[c][a]
        IN  /\ lost >= 0
            /\ Supply'[c] = IF lost > Supply[c] THEN 0 ELSE Supply[c] - lost
            /\ \A x \in Account \ {a} : Money'[c][x] = Money[c][x]
            /\ \A d \in Community \ {c} : Money'[d] = Money[d] /\ Supply'[d] = Supply[d]
            /\ InTransit' = InTransit
  BY DEF Ledger!Destroy, Ledger!Others, Ledger!Elsewhere, Money, Supply, RateNow, InTransit
<1>2. /\ Money[c][a] \in Nat /\ Money'[c][a] \in Nat /\ Supply[c] \in Nat /\ Supply'[c] \in Nat
      /\ InTransit[c] \in Nat
  BY LedgerTyped, NextLedgerTyped DEF LedgerType
<1>3. Money'[c][a] + InTransit'[c] - Supply'[c] <= Money[c][a] + InTransit[c] - Supply[c] + 0
  BY <1>1, <1>2
<1> QED BY <1>1, <1>3, CoversLocal

LEMMA CoversWithhold ==
    ASSUME BalancesInv, BalancesInv', Covers, UNCHANGED <<revalued, settled>>,
           NEW c \in Community, Ledger!Withhold(c)
    PROVE  Covers'
<1>1. PICK a \in Account :
        /\ InTransit[c] = 0
        /\ \A d \in Community \ {c} : InTransit'[d] = InTransit[d]
        /\ Money'[c][a] <= Money[c][a] - InTransit'[c]
        /\ \A x \in Account \ {a} : Money'[c][x] = Money[c][x]
        /\ \A d \in Community \ {c} : Money'[d] = Money[d] /\ Supply'[d] = Supply[d]
        /\ Supply' = Supply
  BY DEF Ledger!Withhold, Ledger!Rounded, Ledger!Others, Ledger!Elsewhere,
         Money, Supply, RateNow, InTransit
<1>2. /\ Money[c][a] \in Nat /\ Money'[c][a] \in Nat /\ Supply[c] \in Nat /\ InTransit'[c] \in Nat
  BY LedgerTyped, NextLedgerTyped DEF LedgerType
<1>3. Money'[c][a] + InTransit'[c] - Supply'[c] <= Money[c][a] + InTransit[c] - Supply[c] + 0
  BY <1>1, <1>2
<1> QED BY <1>1, <1>3, CoversLocal

LEMMA CoversSettle ==
    ASSUME BalancesInv, BalancesInv', Covers, revalued' = revalued, settled' = settled + 1,
           NEW c \in Community, Ledger!Settle(c)
    PROVE  Covers'
<1>1. PICK a \in Account, y \in 0 .. InTransit[c] :
        LET z == InTransit[c] - y
        IN  /\ InTransit' = [InTransit EXCEPT ![c] = 0]
            /\ IF y = 0 THEN Money'[c][a] = Money[c][a]
                        ELSE /\ (Money[c][a] + y) - Granularity < Money'[c][a]
                             /\ Money'[c][a] <= Money[c][a] + y
            /\ CASE z = 0         -> Supply'[c] = Supply[c]
                 [] z > Supply[c] -> Supply'[c] = 0
                 [] OTHER         -> /\ (Supply[c] - z) - Granularity < Supply'[c]
                                     /\ Supply'[c] <= Supply[c] - z
            /\ \A o \in Account \ {a} : Money'[c][o] = Money[c][o]
            /\ \A d \in Community \ {c} : Money'[d] = Money[d] /\ Supply'[d] = Supply[d]
  BY DEF Ledger!Settle, Ledger!Rounded, Ledger!Others, Ledger!Elsewhere,
         Money, Supply, RateNow, InTransit
<1>2. /\ Money[c][a] \in Nat /\ Money'[c][a] \in Nat /\ Supply[c] \in Nat /\ Supply'[c] \in Nat
      /\ InTransit[c] \in Nat /\ Granularity \in Nat \ {0} /\ settled \in Nat
  BY LedgerTyped, NextLedgerTyped, BalancesAssumption DEF LedgerType, BalancesInv
<1> DEFINE z == InTransit[c] - y
<1>3. z \in Nat /\ Money'[c][a] <= Money[c][a] + y /\ y \in Nat
  BY <1>1, <1>2
<1>4. Supply[c] - z - (Granularity - 1) <= Supply'[c]
  <2>1. CASE z = 0
    <3>1. Supply'[c] = Supply[c]
      <4>1. ~ (z > Supply[c])
        BY <1>2, <2>1
      <4> QED BY <1>1, <2>1, <4>1
    <3> HIDE DEF z
    <3> QED BY <1>2, <2>1, <3>1
  <2>2. CASE z # 0 /\ z > Supply[c]
    <3>1. Supply'[c] = 0
      BY <1>1, <2>2
    <3> HIDE DEF z
    <3> QED BY <1>2, <1>3, <2>2, <3>1
  <2>3. CASE z # 0 /\ ~ (z > Supply[c])
    <3>1. (Supply[c] - z) - Granularity < Supply'[c]
      BY <1>1, <2>3
    <3> HIDE DEF z
    <3> QED BY <1>2, <1>3, <3>1
  <2> QED BY <2>1, <2>2, <2>3
<1>5. InTransit'[c] = 0 /\ \A d \in Community \ {c} : InTransit'[d] = InTransit[d]
  BY <1>1 DEF InTransit
<1>6. settled' # settled
  BY <1>2
<1>7. Money'[c][a] + InTransit'[c] - Supply'[c]
        <= Money[c][a] + InTransit[c] - Supply[c] + (Granularity - 1)
  BY <1>2, <1>3, <1>4, <1>5
<1> QED BY <1>1, <1>5, <1>6, <1>7, CoversLocal

\* Rounding down every account loses at least as much as rounding the supply.
LEMMA CoversBlock ==
    ASSUME BalancesInv, BalancesInv', Covers, UNCHANGED <<revalued, settled>>, Idle,
           Ledger!NextBlock
    PROVE  Covers'
<1>0. \A m, r : Ledger!Left(m, r) = Left(m, r)
  <2>1. Ledger!PowerOfTwo = PowerOfTwo
    BY DEF Ledger!PowerOfTwo, PowerOfTwo
  <2> QED BY <2>1 DEF Ledger!Left, Left
<1>1. /\ \A c \in Community, a \in Account : Money'[c][a] = Left(Money[c][a], RateNow[c])
      /\ \A c \in Community : Supply'[c] = Left(Supply[c], RateNow[c])
      /\ InTransit' = InTransit
  BY <1>0 DEF Ledger!NextBlock, Money, Supply, RateNow, InTransit
<1>2. LedgerType(Money, Supply, RateNow, InTransit) /\ LedgerType(Money', Supply', RateNow', InTransit')
  BY LedgerTyped, NextLedgerTyped
<1>3. settled \in Nat
  BY DEF BalancesInv
<1> SUFFICES ASSUME ~ revalued, NEW c \in Community
             PROVE  Covered(Money'[c], InTransit[c], Supply'[c], settled)
  BY <1>1 DEF Covers
<1> DEFINE m == Money[c]
<1> DEFINE k == Money'[c]
<1> DEFINE s == Supply[c]
<1> DEFINE r == RateNow[c]
<1> DEFINE u == (Granularity - 1) * settled
<1>4. /\ m \in [Account -> Nat] /\ k \in [Account -> Nat] /\ s \in Nat /\ r \in Nat
      /\ \A a \in Account : k[a] = Left(m[a], r)
      /\ Supply'[c] = Left(s, r)
  BY <1>1, <1>2 DEF LedgerType
<1>5. InTransit[c] = 0
  <2>1. Held(c) = 0 /\ BalanceType(0) = 0
    BY UnitsAdd DEF Held
  <2> QED BY <2>1, LedgerValues
<1>6. u \in Nat
  BY <1>3, Slack
<1>7. Total(m) + InTransit[c] <= s + u
  BY DEF Covers, Covered
<1> HIDE DEF m, k, s, r, u
<1>8. Total(m) \in Nat /\ Total(k) \in Nat
  BY <1>4, TotalType
<1>9. Total(k) <= Left(Total(m), r)
  <2>1. IsFiniteSet(Account) /\ \A a \in Account : m[a] \in Nat
    BY <1>4, BalancesAssumption
  <2> QED BY <1>4, <2>1, LeftOfTotal DEF Total
<1>10. Left(Total(m), r) <= Left(s + u, r)
  <2>1. Total(m) <= s + u /\ s + u \in Nat
    BY <1>4, <1>5, <1>6, <1>7, <1>8
  <2> QED BY <1>4, <1>8, <2>1, LeftMonotone
<1>11. Left(s + u, r) <= Left(s, r) + u
  BY <1>4, <1>6, LeftOfMore
<1>12. Left(Total(m), r) \in Nat /\ Left(s + u, r) \in Nat /\ Left(s, r) \in Nat
  <2>1. s + u \in Nat
    BY <1>4, <1>6
  <2> QED BY <1>4, <1>8, <2>1, LeftType
<1>13. Total(k) + 0 <= Left(s, r) + u
  BY <1>6, <1>8, <1>9, <1>10, <1>11, <1>12
<1> QED BY <1>4, <1>5, <1>13 DEF Covered, k, u

\* A demurrage that changes revalues, unless there is no money.
LEMMA CoversRate ==
    ASSUME BalancesInv, BalancesInv', Covers, NEW c \in Community, NEW rate \in Rates,
           set_demurrage(c, rate)
    PROVE  Covers'
<1>1. /\ DemurragePerBlock' = [DemurragePerBlock EXCEPT ![c] = rate]
      /\ UNCHANGED <<block, Balance, TotalIssuance, charge, settled>>
      /\ revalued' = (revalued \/ (rate # Demurrage(c) /\ c \in DOMAIN TotalIssuance))
      /\ DemurragePerBlock \in [Community -> Rates \cup {NoRate}]
  BY DEF set_demurrage, BalancesInv
<1> SUFFICES ASSUME ~ revalued, rate = Demurrage(c) \/ c \notin DOMAIN TotalIssuance,
                    NEW d \in Community
             PROVE  Covered(Money'[d], InTransit'[d], Supply'[d], settled)
  BY <1>1 DEF Covers
<1>2. Covered(Money[d], InTransit[d], Supply[d], settled)
  BY DEF Covers
<1>3. InTransit' = InTransit
  BY <1>1, TransitUnchanged
<1>4. Demurrage(c)' = rate /\ \A o \in Community \ {c} : Demurrage(o)' = Demurrage(o)
  BY <1>1, BalancesAssumption DEF Demurrage
<1>5. CASE Demurrage(d)' = Demurrage(d)
  <2>1. /\ IssuanceOf(d)' = IssuanceOf(d)
        /\ \A x \in Account : BalanceOf(d, x)' = BalanceOf(d, x)
    BY <1>1, <1>5, Values, NextValues DEF ValuesInv
  <2>2. Money'[d] = Money[d] /\ Supply'[d] = Supply[d]
    BY <2>1 DEF Money, Supply
  <2> QED BY <1>2, <1>3, <2>2
<1>6. CASE Demurrage(d)' # Demurrage(d)
  <2>1. d = c /\ c \notin DOMAIN TotalIssuance
    BY <1>4, <1>6
  <2>2. DOMAIN Balance[d] = {} /\ d \notin DOMAIN TotalIssuance
    BY <2>1 DEF BalancesInv
  <2>3. /\ IssuanceOf(d)' = 0 /\ IssuanceOf(d) = 0
        /\ \A x \in Account : BalanceOf(d, x)' = 0 /\ BalanceOf(d, x) = 0
    BY <1>1, <2>2, Values, NextValues DEF ValuesInv, Value
  <2>4. Money'[d] = Money[d] /\ Supply'[d] = Supply[d]
    BY <2>3 DEF Money, Supply
  <2> QED BY <1>2, <1>3, <2>4
<1> QED BY <1>5, <1>6

LEMMA CoversAbolish ==
    ASSUME BalancesInv, BalancesInv', Covers, UNCHANGED <<revalued, settled>>, Idle,
           NEW c \in Community, Ledger!Abolish(c)
    PROVE  Covers'
<1>1. /\ Money' = [Money EXCEPT ![c] = [a \in Account |-> 0]]
      /\ Supply' = [Supply EXCEPT ![c] = 0]
      /\ InTransit' = InTransit
  BY DEF Ledger!Abolish, Money, Supply, RateNow, InTransit
<1> SUFFICES ASSUME ~ revalued, NEW d \in Community
             PROVE  Covered(Money'[d], InTransit[d], Supply'[d], settled)
  BY <1>1 DEF Covers
<1>2. Covered(Money[d], InTransit[d], Supply[d], settled)
  BY DEF Covers
<1>3. CASE d # c
  <2>1. Money'[d] = Money[d] /\ Supply'[d] = Supply[d]
    BY <1>1, <1>3 DEF Money, Supply
  <2> QED BY <1>2, <2>1
<1>4. CASE d = c
  <2>1. Money'[d] \in [Account -> Nat] /\ (\A a \in Account : Money'[d][a] = 0) /\ Supply'[d] \in Nat
    BY <1>1, <1>4, NextLedgerTyped DEF Money, LedgerType
  <2>2. Held(d) = 0 /\ BalanceType(0) = 0
    BY UnitsAdd DEF Held
  <2>3. InTransit[d] = 0 /\ settled \in Nat
    BY <2>2, LedgerValues DEF BalancesInv
  <2>4. Covered(Money'[d], 0, Supply'[d], settled)
    BY <2>1, <2>3, CoversNothing
  <2> QED BY <2>3, <2>4
<1> QED BY <1>3, <1>4

LEMMA CoversStep ==
    ASSUME BalancesInv, BalancesInv', Covers, [BalancesNext]_balanceVars
    PROVE  Covers'
<1>0. ASSUME UNCHANGED <<Money, Supply, RateNow, InTransit>>, UNCHANGED <<revalued, settled>>
      PROVE  Covers'
  BY <1>0 DEF Covers
<1>1. CASE UNCHANGED <<block, Balance, TotalIssuance, DemurragePerBlock, charge, revalued, settled>>
  <2>1. Still
    BY <1>1 DEF Still
  <2>2. Money' = Money
    BY <1>1, <2>1, SameBalance, MoneyUnchanged
  <2>3. Supply' = Supply /\ RateNow' = RateNow /\ InTransit' = InTransit
    BY <1>1, <2>1, SupplyUnchanged, RateUnchanged, TransitUnchanged
  <2> QED BY <1>0, <1>1, <2>2, <2>3
<1>2. CASE UNCHANGED balanceVars
  BY <1>1, <1>2 DEF balanceVars, stored, history
<1>3. CASE NextBlock
  <2>1. Ledger!NextBlock
    BY <1>3, BlockLedger
  <2>2. Idle /\ UNCHANGED <<revalued, settled>>
    BY <1>3 DEF NextBlock, history
  <2> QED BY <2>1, <2>2, CoversBlock
<1>4. ASSUME NEW f \in Factors, set_fee_conversion_factor(f)
      PROVE  Covers'
  BY <1>1, <1>4 DEF set_fee_conversion_factor, stored, history
<1>5. ASSUME NEW refund \in 0 .. charge.credit, SettleFee(refund)
      PROVE  Covers'
  <2>1. charge.cid \in Community
    <3>1. charge # NoCharge
      BY <1>5 DEF SettleFee, Idle
    <3> QED BY <3>1 DEF BalancesInv, Entries
  <2>2. Ledger!Settle(charge.cid)
    BY <1>5, SettleLedger
  <2>3. settled' = settled + 1 /\ revalued' = revalued
    BY <1>5 DEF SettleFee
  <2> QED BY <2>1, <2>2, <2>3, CoversSettle
<1>6. ASSUME NEW c \in Community, purge_balances(c)
      PROVE  Covers'
  <2>1. Ledger!Abolish(c)
    BY <1>6, PurgeLedger
  <2>2. Idle /\ UNCHANGED <<revalued, settled>>
    BY <1>6 DEF purge_balances
  <2> QED BY <2>1, <2>2, CoversAbolish
<1>7. ASSUME NEW c \in Community, NEW rate \in Rates, set_demurrage(c, rate)
      PROVE  Covers'
  BY <1>7, CoversRate
<1>8. ASSUME NEW c \in Community, NEW a \in Account, NEW native \in NativeFees, WithdrawFee(c, a, native)
      PROVE  Covers'
  <2>1. Ledger!Withhold(c)
    BY <1>8, WithdrawLedger
  <2>2. UNCHANGED <<revalued, settled>>
    BY <1>8 DEF WithdrawFee
  <2> QED BY <2>1, <2>2, CoversWithhold
<1>9. ASSUME NEW c \in Community, NEW a \in Account, NEW n \in Rewards, issue(c, a, n)
      PROVE  Covers'
  <2>1. Ledger!Mint(c)
    BY <1>9, IssueLedger, BalancesAssumption
  <2>2. UNCHANGED <<revalued, settled>>
    BY <1>9 DEF issue, history
  <2> QED BY <2>1, <2>2, CoversMint
<1>10. ASSUME NEW c \in Community, NEW a \in Account, NEW n \in Amounts, burn(c, a, n)
       PROVE  Covers'
  <2>1. Ledger!Destroy(c)
    BY <1>10, BurnLedger, BalancesAssumption
  <2>2. UNCHANGED <<revalued, settled>>
    BY <1>10 DEF burn
  <2> QED BY <2>1, <2>2, CoversDestroy
<1>11. ASSUME NEW c \in Community, NEW a \in Account, NEW b \in Account, NEW n \in Nat,
              transfer(c, a, b, n)
       PROVE  Covers'
  <2>1. Ledger!Pay(c) \/ UNCHANGED <<Money, Supply, RateNow, InTransit>>
    BY <1>11, TransferLedger
  <2>2. UNCHANGED <<revalued, settled>>
    BY <1>11 DEF transfer, history
  <2>3. CASE Ledger!Pay(c)
    BY <2>2, <2>3, CoversPay
  <2>4. CASE UNCHANGED <<Money, Supply, RateNow, InTransit>>
    BY <1>0, <2>2, <2>4
  <2> QED BY <2>1, <2>3, <2>4
<1>12. ASSUME NEW c \in Community, NEW a \in Account, NEW b \in Account, transfer_all(c, a, b)
       PROVE  Covers'
  BY <1>11, <1>12, BalanceValue DEF transfer_all
<1>13. ASSUME NEW c \in Community, NEW a \in Account, NEW b \in Account, NEW n \in Amounts,
              transfer(c, a, b, n)
       PROVE  Covers'
  BY <1>11, <1>13, BalancesAssumption
<1> QED BY <1>2, <1>3, <1>4, <1>5, <1>6, <1>7, <1>8, <1>9, <1>10, <1>12, <1>13 DEF BalancesNext

\* What the accounts can spend, with the fee in transit, is covered by the
\* issuance, but for less than one fungible unit per fee, as long as no
\* demurrage changes on existing money: every way in which entries decay at
\* different times, round, vanish as dust and are refunded is included.
THEOREM IssuanceCoversMoney == BalancesSpec => []SupplyCoversBalances
<1>1. BalancesInit => Covers
  <2> SUFFICES ASSUME BalancesInit, NEW c \in Community
               PROVE  Covered(Money[c], InTransit[c], Supply[c], settled)
    BY DEF Covers
  <2>1. BalancesInv
    BY BalancesInvInit
  <2>2. (\A d \in Community : DOMAIN Balance[d] = {}) /\ charge = NoCharge
    BY DEF BalancesInit, Remove
  <2>3. \A a \in Account : BalanceOf(c, a) = 0
    BY <2>1, <2>2, BalanceValue DEF Value
  <2>4. Held(c) = 0 /\ BalanceType(0) = 0
    BY <2>2, UnitsAdd DEF Held, Idle
  <2>5. InTransit[c] = 0 /\ (\A a \in Account : Money[c][a] = 0) /\ settled \in Nat
    BY <2>1, <2>3, <2>4, LedgerValues DEF BalancesInv
  <2>6. Money[c] \in [Account -> Nat] /\ Supply[c] \in Nat
    BY <2>1, LedgerTyped DEF LedgerType
  <2>7. Covered(Money[c], 0, Supply[c], settled)
    BY <2>5, <2>6, CoversNothing
  <2> QED BY <2>5, <2>7
<1>2. BalancesInv /\ BalancesInv' /\ Covers /\ [BalancesNext]_balanceVars => Covers'
  BY CoversStep
<1>3. BalancesInv /\ Covers => SupplyCoversBalances
  <2> SUFFICES ASSUME BalancesInv, Covers, ~ revalued, NEW c \in Community
               PROVE  SumFunctionOnSet([a \in Account |-> BalanceOf(c, a)], DOMAIN Balance[c])
                        + BalanceType(Held(c))
                        <= IssuanceOf(c) + (Granularity - 1) * settled
    BY DEF SupplyCoversBalances
  <2>1. Covered(Money[c], InTransit[c], Supply[c], settled)
    BY DEF Covers
  <2> DEFINE m == [a \in Account |-> BalanceOf(c, a)]
  <2> DEFINE D == DOMAIN Balance[c]
  <2>2. Money[c] = m /\ InTransit[c] = BalanceType(Held(c)) /\ Supply[c] = IssuanceOf(c)
    BY LedgerValues DEF Money
  <2>3. D \subseteq Account
    BY DEF BalancesInv, Entries
  <2>4. \A a \in Account \ D : m[a] = 0
    BY BalanceValue DEF Value
  <2>5. m \in [Account -> Nat]
    BY BalanceValue
  <2> HIDE DEF m, D
  <2>6. Summable(m, Account)
    BY <2>5, TotalType
  <2>7. SumFunctionOnSet(m, D) = SumFunctionOnSet(m, Account)
    BY <2>3, <2>4, <2>6, SumOfNonzero
  <2>8. SumFunctionOnSet(m, D) + BalanceType(Held(c)) <= IssuanceOf(c) + (Granularity - 1) * settled
    BY <2>1, <2>2, <2>7 DEF Covered, Total
  <2> QED BY <2>8 DEF m, D
<1> QED BY <1>1, <1>2, <1>3, BalancesInvHolds, PTL DEF BalancesSpec

-----------------------------------------------------------------------------
(* Native currency.                                                         *)

\* No account exists with less than the existential deposit.
Solid(f) ==
    /\ f \in [Holder -> Nat]
    /\ \A h \in Holder : f[h] = 0 \/ f[h] >= MinimumBalance

\* Whoever has a deposit reserved has an account, so that unreserve_all_named
\* does not make one that is too small.
NativeInv ==
    /\ Solid(free)
    /\ reserves \in [FaucetName \X Person -> Nat]
    /\ \A n \in FaucetName, who \in Person : reserves[<<n, who>>] > 0 => free[who] >= MinimumBalance

\* Those who have an account keep it.
Alive(f, g, who) == f[who] >= MinimumBalance => g[who] >= MinimumBalance

\* Currency::transfer leaves no account with less than the existential
\* deposit, and ends at most that of the payer, when it may.
LEMMA PaidSolid ==
    ASSUME NEW f, Solid(f), NEW from \in Holder, NEW to \in Holder, NEW amount \in Nat,
           NEW keep \in BOOLEAN, MayPay(f, from, to, amount, keep)
    PROVE  /\ Solid(Paid(f, from, to, amount))
           /\ \A h \in Holder : keep \/ h # from => Alive(f, Paid(f, from, to, amount), h)
<1> DEFINE g == Paid(f, from, to, amount)
<1>0. MinimumBalance \in Nat \ {0}
  BY NativeAssumption
<1>1. CASE amount = 0 \/ from = to
  <2>1. g = f
    BY <1>1 DEF Paid
  <2> QED BY <2>1 DEF Alive
<1>2. CASE ~ (amount = 0 \/ from = to)
  <2>1. /\ f[from] >= amount
        /\ keep => f[from] - amount >= MinimumBalance
        /\ f[to] + amount >= MinimumBalance
    BY <1>2 DEF MayPay
  <2>2. f \in [Holder -> Nat]
    BY DEF Solid
  <2>3. g = [f EXCEPT ![from] = IF @ - amount < MinimumBalance THEN 0 ELSE @ - amount,
                      ![to]   = @ + amount]
    BY <1>2 DEF Paid
  <2>4. /\ g \in [Holder -> Nat]
        /\ g[to] = f[to] + amount
        /\ g[from] = IF f[from] - amount < MinimumBalance THEN 0 ELSE f[from] - amount
        /\ \A h \in Holder : h # to /\ h # from => g[h] = f[h]
    BY <1>0, <1>2, <2>1, <2>2, <2>3
  <2> HIDE DEF g
  <2>5. \A h \in Holder : g[h] = 0 \/ g[h] >= MinimumBalance
    <3> TAKE h \in Holder
    <3>1. CASE h = to
      BY <3>1, <2>1, <2>4
    <3>2. CASE h = from
      BY <3>2, <1>0, <2>1, <2>2, <2>4
    <3>3. CASE h # to /\ h # from
      BY <3>3, <2>4 DEF Solid
    <3> QED BY <3>1, <3>2, <3>3
  <2>6. \A h \in Holder : keep \/ h # from => Alive(f, g, h)
    BY <1>0, <2>1, <2>2, <2>4 DEF Alive
  <2> QED BY <2>4, <2>5, <2>6 DEF Solid, g
<1> QED BY <1>1, <1>2

\* A payment that keeps the payer alive keeps everything.
LEMMA KeepAlivePayment ==
    ASSUME NativeInv, NEW from \in Holder, NEW to \in Holder, NEW amount \in Nat,
           MayPay(free, from, to, amount, TRUE), free' = Paid(free, from, to, amount),
           UNCHANGED reserves
    PROVE  NativeInv'
<1>1. Solid(free) /\ TRUE \in BOOLEAN
  BY DEF NativeInv
<1>2. Solid(free') /\ \A h \in Holder : Alive(free, free', h)
  BY <1>1, PaidSolid
<1>3. Person \subseteq Holder
  BY FaucetAssumption
<1> QED BY <1>2, <1>3 DEF NativeInv, Alive, Solid

-----------------------------------------------------------------------------
(* Faucets.                                                                 *)

\* Faucets have purposes of their own, and drip more than the existential
\* deposit.
FaucetInv ==
    /\ CurrentPurposeId \in 0 .. MaxPurposes
    /\ ReserveAmount \in Nat
    /\ DOMAIN Faucets \subseteq FaucetName
    /\ \A n \in DOMAIN Faucets :
         /\ Faucets[n].purpose_id \in 0 .. CurrentPurposeId - 1
         /\ Faucets[n].drip_amount \in Nat
         /\ Faucets[n].drip_amount > MinimumBalance
         /\ Faucets[n].creator \in Person
    /\ IsFiniteSet(Commitments)
    /\ drips \in [0 .. MaxPurposes - 1 -> Nat]
    /\ DripsBacked

FaucetsInv == NativeInv /\ FaucetInv

LEMMA FaucetsInit == PaymentsInit => FaucetsInv
<1> SUFFICES ASSUME PaymentsInit PROVE FaucetsInv
  OBVIOUS
<1>1. NativeInv
  BY PaymentsAssumption DEF PaymentsInit, NativeInv, Solid
<1>2. IsFiniteSet({}) /\ Cardinality({}) = 0
  BY FS_EmptySet
<1>3. DOMAIN Faucets = {} /\ Commitments = {} /\ CurrentPurposeId = 0 /\ ReserveAmount \in Nat
      /\ drips = [p \in 0 .. MaxPurposes - 1 |-> 0]
  BY FaucetAssumption DEF PaymentsInit, FaucetInit
<1>4. \A p : {c \in {} : c[1] = p} = {}
  OBVIOUS
<1>5. DripsBacked
  BY <1>2, <1>3, <1>4 DEF DripsBacked
<1>6. FaucetInv
  BY <1>2, <1>3, <1>5, FaucetAssumption DEF FaucetInv
<1> QED BY <1>1, <1>6 DEF FaucetsInv

\* The reputations committed for a purpose.
CommittedFor(C, p) == {c \in C : c[1] = p}

\* One more commitment.
LEMMA CommitOne ==
    ASSUME IsFiniteSet(Commitments), NEW c, c \notin Commitments,
           Commitments' = Commitments \cup {c}
    PROVE  /\ IsFiniteSet(Commitments')
           /\ \A p : Cardinality(CommittedFor(Commitments', p)) =
                       Cardinality(CommittedFor(Commitments, p)) + IF c[1] = p THEN 1 ELSE 0
           /\ \A p : Cardinality(CommittedFor(Commitments, p)) \in Nat
<1>1. IsFiniteSet(Commitments')
  BY FS_AddElement
<1>2. ASSUME NEW p
      PROVE  /\ Cardinality(CommittedFor(Commitments, p)) \in Nat
             /\ Cardinality(CommittedFor(Commitments', p)) =
                  Cardinality(CommittedFor(Commitments, p)) + IF c[1] = p THEN 1 ELSE 0
  <2> DEFINE old == CommittedFor(Commitments, p)
  <2> DEFINE new == CommittedFor(Commitments', p)
  <2>1. IsFiniteSet(old) /\ c \notin old
    <3>1. old \subseteq Commitments
      BY DEF CommittedFor
    <3> QED BY <3>1, FS_Subset
  <2>2. Cardinality(old) \in Nat
    BY <2>1, FS_CardinalityType
  <2>3. CASE c[1] = p
    <3>1. new = old \cup {c}
      BY <2>3 DEF CommittedFor
    <3> HIDE DEF new, old
    <3>2. Cardinality(old \cup {c}) = Cardinality(old) + 1
      BY <2>1, FS_AddElement
    <3> QED BY <2>2, <2>3, <3>1, <3>2 DEF new, old
  <2>4. CASE c[1] # p
    <3>1. new = old
      BY <2>4 DEF CommittedFor
    <3> HIDE DEF new, old
    <3> QED BY <2>2, <2>4, <3>1 DEF new, old
  <2> QED BY <2>2, <2>3, <2>4
<1> QED BY <1>1, <1>2

\* A step that leaves the faucets alone.
LEMMA OtherFaucet ==
    ASSUME FaucetInv, UNCHANGED faucetVars
    PROVE  FaucetInv'
BY DEF FaucetInv, faucetVars, DripsBacked

\* create_faucet reserves the deposit, pays the first funding and takes a
\* purpose that no faucet has.
LEMMA CreateKeeps ==
    ASSUME FaucetsInv, NEW who \in Person, NEW name \in FaucetName, NEW amount \in Fundings,
           NEW wl, NEW d \in DripAmounts, create_faucet(who, name, amount, wl, d)
    PROVE  FaucetsInv'
<1> DEFINE left == [free EXCEPT ![who] = @ - ReserveAmount]
<1>1. /\ DripAmountSuffices(d) /\ name \notin DOMAIN Faucets
      /\ MayReserve(free, who, ReserveAmount) /\ MayPay(left, who, name, amount, TRUE)
      /\ free' = Paid(left, who, name, amount)
      /\ reserves' = [reserves EXCEPT ![<<name, who>>] = @ + ReserveAmount]
      /\ CurrentPurposeId < MaxPurposes
      /\ CurrentPurposeId' = CurrentPurposeId + 1
      /\ Faucets' = [n \in DOMAIN Faucets \cup {name} |->
             IF n = name THEN [purpose_id |-> CurrentPurposeId, whitelist |-> wl,
                               drip_amount |-> d, creator |-> who]
             ELSE Faucets[n]]
      /\ UNCHANGED <<ReserveAmount, Commitments, drips>>
  BY DEF create_faucet
<1>2. /\ who \in Holder /\ name \in Holder /\ amount \in Nat /\ d \in Nat /\ Person \subseteq Holder
      /\ MaxPurposes \in Nat /\ MinimumBalance \in Nat \ {0}
  BY FaucetAssumption, NativeAssumption
<1>3. /\ free \in [Holder -> Nat] /\ ReserveAmount \in Nat /\ CurrentPurposeId \in Nat
      /\ CurrentPurposeId <= MaxPurposes
  BY <1>2 DEF FaucetsInv, NativeInv, Solid, FaucetInv
<1>4. ReserveAmount = 0 \/ free[who] - ReserveAmount >= MinimumBalance
  BY <1>1 DEF MayReserve
<1>5. left \in [Holder -> Nat] /\ left[who] = free[who] - ReserveAmount
      /\ \A h \in Holder : h # who => left[h] = free[h]
  BY <1>2, <1>3, <1>4
<1> HIDE DEF left
<1>6. Solid(left)
  BY <1>2, <1>3, <1>4, <1>5 DEF Solid, FaucetsInv, NativeInv
<1>7. Solid(free') /\ \A h \in Holder : Alive(left, free', h)
  <2>1. TRUE \in BOOLEAN
    OBVIOUS
  <2> QED BY <2>1, <1>1, <1>2, <1>6, PaidSolid
<1>8. reserves' \in [FaucetName \X Person -> Nat]
      /\ \A n \in FaucetName, w \in Person :
           reserves'[<<n, w>>] = reserves[<<n, w>>] + IF n = name /\ w = who THEN ReserveAmount ELSE 0
  <2>1. reserves \in [FaucetName \X Person -> Nat]
    BY DEF FaucetsInv, NativeInv
  <2>2. reserves[<<name, who>>] + ReserveAmount \in Nat
    BY <2>1, <1>3
  <2> QED BY <1>1, <1>3, <2>1, <2>2
<1>9. ASSUME NEW n \in FaucetName, NEW w \in Person, reserves'[<<n, w>>] > 0
      PROVE  free'[w] >= MinimumBalance
  <2>1. reserves[<<n, w>>] \in Nat /\ w \in Holder
    BY <1>2 DEF FaucetsInv, NativeInv
  <2>2. reserves[<<n, w>>] > 0 => free[w] >= MinimumBalance
    BY DEF FaucetsInv, NativeInv
  <2>3. left[w] >= MinimumBalance
    BY <2>1, <2>2, <1>2, <1>3, <1>4, <1>5, <1>8, <1>9
  <2> QED BY <2>1, <2>3, <1>7 DEF Alive
<1>10. NativeInv'
  BY <1>7, <1>8, <1>9 DEF NativeInv, Solid
<1>11. DOMAIN Faucets' = DOMAIN Faucets \cup {name}
       /\ Faucets'[name].purpose_id = CurrentPurposeId
       /\ Faucets'[name].drip_amount = d /\ Faucets'[name].creator = who
       /\ \A n \in DOMAIN Faucets : n # name /\ Faucets'[n] = Faucets[n]
  BY <1>1
<1>12. \A n \in DOMAIN Faucets : Faucets[n].purpose_id \in 0 .. CurrentPurposeId - 1
  BY DEF FaucetsInv, FaucetInv
<1>13. DripsBacked'
  <2>1. \A f, g \in DOMAIN Faucets' : f # g => Faucets'[f].purpose_id # Faucets'[g].purpose_id
    BY <1>3, <1>11, <1>12 DEF FaucetsInv, FaucetInv, DripsBacked
  <2> QED BY <1>1, <2>1 DEF FaucetsInv, FaucetInv, DripsBacked
<1>14. d > MinimumBalance
  BY <1>1 DEF DripAmountSuffices
<1>15. FaucetInv'
  <2>1. \A n \in DOMAIN Faucets' :
         /\ Faucets'[n].purpose_id \in 0 .. CurrentPurposeId' - 1
         /\ Faucets'[n].drip_amount \in Nat
         /\ Faucets'[n].drip_amount > MinimumBalance
         /\ Faucets'[n].creator \in Person
    BY <1>1, <1>2, <1>3, <1>11, <1>14 DEF FaucetsInv, FaucetInv
  <2>2. CurrentPurposeId' \in 0 .. MaxPurposes
    BY <1>1, <1>2, <1>3
  <2>3. DOMAIN Faucets' \subseteq FaucetName
    BY <1>11 DEF FaucetsInv, FaucetInv
  <2>4. ReserveAmount' \in Nat /\ IsFiniteSet(Commitments') /\ drips' \in [0 .. MaxPurposes - 1 -> Nat]
    BY <1>1 DEF FaucetsInv, FaucetInv
  <2> QED BY <1>13, <2>1, <2>2, <2>3, <2>4 DEF FaucetInv
<1> QED BY <1>10, <1>15 DEF FaucetsInv

\* drip commits a reputation that was not committed, and pays.
LEMMA DripKeeps ==
    ASSUME FaucetsInv, NEW r \in Reputation, NEW name \in FaucetName, drip(r[1], name, r[2], r[3])
    PROVE  FaucetsInv'
<1> DEFINE faucet == Faucets[name]
<1> DEFINE p == faucet.purpose_id
<1> DEFINE c == <<p, r[1], r[2], r[3]>>
<1>1. /\ name \in DOMAIN Faucets
      /\ c \notin Commitments
      /\ Commitments' = Commitments \cup {c}
      /\ MayPay(free, name, r[1], faucet.drip_amount, TRUE)
      /\ free' = Paid(free, name, r[1], faucet.drip_amount)
      /\ drips' = [drips EXCEPT ![p] = @ + 1]
      /\ UNCHANGED <<reserves, Faucets, ReserveAmount, CurrentPurposeId>>
  BY DEF drip, MayCommit
<1>2. name \in Holder /\ r[1] \in Holder /\ MaxPurposes \in Nat
  BY FaucetAssumption
<1>3. faucet.drip_amount \in Nat /\ p \in 0 .. CurrentPurposeId - 1 /\ CurrentPurposeId \in 0 .. MaxPurposes
  BY <1>1 DEF FaucetsInv, FaucetInv
<1>4. NativeInv'
  BY <1>1, <1>2, <1>3, KeepAlivePayment DEF FaucetsInv
<1>5. c[1] = p
  OBVIOUS
<1> HIDE DEF c, p
<1>6. /\ IsFiniteSet(Commitments')
      /\ \A q : Cardinality(CommittedFor(Commitments', q)) =
                  Cardinality(CommittedFor(Commitments, q)) + IF p = q THEN 1 ELSE 0
      /\ \A q : Cardinality(CommittedFor(Commitments, q)) \in Nat
  BY <1>1, <1>5, CommitOne DEF FaucetsInv, FaucetInv
<1>7. p \in 0 .. MaxPurposes - 1
  BY <1>2, <1>3
<1>8. /\ drips' \in [0 .. MaxPurposes - 1 -> Nat]
      /\ \A q \in 0 .. MaxPurposes - 1 : drips'[q] = drips[q] + IF p = q THEN 1 ELSE 0
  BY <1>1, <1>7 DEF FaucetsInv, FaucetInv
<1>9. \A q \in 0 .. MaxPurposes - 1 : drips[q] \in Nat /\ drips[q] <= Cardinality(CommittedFor(Commitments, q))
  BY DEF FaucetsInv, FaucetInv, DripsBacked, CommittedFor
<1>10. \A q \in 0 .. MaxPurposes - 1 : drips'[q] <= Cardinality(CommittedFor(Commitments', q))
  BY <1>6, <1>8, <1>9
<1>11. DripsBacked'
  BY <1>1, <1>8, <1>10 DEF FaucetsInv, FaucetInv, DripsBacked, CommittedFor
<1>12. FaucetInv'
  BY <1>1, <1>6, <1>8, <1>11 DEF FaucetsInv, FaucetInv
<1> QED BY <1>4, <1>12 DEF FaucetsInv

\* commit_reputation uses up a reputation without a drip.
LEMMA CommitKeeps ==
    ASSUME FaucetsInv, NEW r \in Reputation, NEW p, commit_reputation(r[1], r[2], r[3], p)
    PROVE  FaucetsInv'
<1> DEFINE c == <<p, r[1], r[2], r[3]>>
<1>1. /\ c \notin Commitments
      /\ Commitments' = Commitments \cup {c}
      /\ UNCHANGED <<free, reserves, Faucets, ReserveAmount, CurrentPurposeId, drips>>
  BY DEF commit_reputation, MayCommit, nativeVars
<1> HIDE DEF c
<1>2. /\ IsFiniteSet(Commitments')
      /\ \A q : Cardinality(CommittedFor(Commitments', q)) =
                  Cardinality(CommittedFor(Commitments, q)) + IF c[1] = q THEN 1 ELSE 0
      /\ \A q : Cardinality(CommittedFor(Commitments, q)) \in Nat
  BY <1>1, CommitOne DEF FaucetsInv, FaucetInv
<1>3. \A q \in DOMAIN drips : drips[q] \in Nat /\ drips[q] <= Cardinality(CommittedFor(Commitments, q))
  BY DEF FaucetsInv, FaucetInv, DripsBacked, CommittedFor
<1>4. \A q \in DOMAIN drips : drips[q] <= Cardinality(CommittedFor(Commitments', q))
  BY <1>2, <1>3
<1>5. DripsBacked'
  BY <1>1, <1>4 DEF FaucetsInv, FaucetInv, DripsBacked, CommittedFor
<1>6. FaucetInv'
  BY <1>1, <1>2, <1>5 DEF FaucetsInv, FaucetInv
<1>7. NativeInv'
  BY <1>1 DEF FaucetsInv, NativeInv, Solid
<1> QED BY <1>6, <1>7 DEF FaucetsInv

\* dissolve_faucet and close_faucet give the deposit back to somebody who has
\* an account, and all that is left to one who has enough with it.
LEMMA EndKeeps ==
    ASSUME FaucetsInv, NEW name \in DOMAIN Faucets, NEW beneficiary \in Holder,
           EndFaucet(name, beneficiary)
    PROVE  FaucetsInv'
<1> DEFINE w == Faucets[name].creator
<1> DEFINE u == reserves[<<name, w>>]
<1> DEFINE given == [free EXCEPT ![w] = @ + u]
<1>1. /\ reserves' = [reserves EXCEPT ![<<name, w>>] = @ - u]
      /\ Faucets' = [n \in DOMAIN Faucets \ {name} |-> Faucets[n]]
      /\ MayPay(given, name, beneficiary, given[name], FALSE)
      /\ free' = Paid(given, name, beneficiary, given[name])
      /\ UNCHANGED <<ReserveAmount, CurrentPurposeId, Commitments, drips>>
  BY DEF EndFaucet, Unreserved
<1>2. w \in Person /\ name \in FaucetName
  BY DEF FaucetsInv, FaucetInv
<1>3. /\ w \in Holder /\ name \in Holder /\ Person \subseteq Holder
      /\ \A x \in Person : x # name
      /\ MinimumBalance \in Nat \ {0}
  BY <1>2, FaucetAssumption, NativeAssumption
<1>4. /\ free \in [Holder -> Nat] /\ reserves \in [FaucetName \X Person -> Nat]
      /\ \A h \in Holder : free[h] = 0 \/ free[h] >= MinimumBalance
      /\ \A n \in FaucetName, x \in Person : reserves[<<n, x>>] > 0 => free[x] >= MinimumBalance
  BY DEF FaucetsInv, NativeInv, Solid
<1> HIDE DEF w
<1>5. u \in Nat /\ (u > 0 => free[w] >= MinimumBalance)
  BY <1>2, <1>4
<1> HIDE DEF u
<1>6. /\ given \in [Holder -> Nat] /\ given[w] = free[w] + u
      /\ \A h \in Holder : h # w => given[h] = free[h]
  BY <1>3, <1>4, <1>5
<1> HIDE DEF given
<1>7. Solid(given) /\ \A h \in Holder : Alive(free, given, h)
  BY <1>3, <1>4, <1>5, <1>6 DEF Solid, Alive
<1>8. Solid(free') /\ \A h \in Holder : h # name => Alive(given, free', h)
  <2>1. FALSE \in BOOLEAN /\ given[name] \in Nat
    BY <1>3, <1>6
  <2> QED BY <2>1, <1>1, <1>3, <1>7, PaidSolid
<1>9. reserves' \in [FaucetName \X Person -> Nat]
      /\ \A n \in FaucetName, x \in Person : reserves'[<<n, x>>] > 0 => reserves[<<n, x>>] > 0
  <2>1. reserves[<<name, w>>] - u = 0
    BY <1>5 DEF u
  <2>2. <<name, w>> \in FaucetName \X Person
    BY <1>2
  <2>3. reserves' = [reserves EXCEPT ![<<name, w>>] = 0]
    BY <1>1, <2>1 DEF u
  <2> QED BY <1>4, <2>2, <2>3
<1>10. NativeInv'
  <2>1. ASSUME NEW n \in FaucetName, NEW x \in Person, reserves'[<<n, x>>] > 0
        PROVE  free'[x] >= MinimumBalance
    BY <2>1, <1>3, <1>4, <1>7, <1>8, <1>9 DEF Alive
  <2> QED BY <2>1, <1>8, <1>9 DEF NativeInv, Solid
<1>11. FaucetInv'
  BY <1>1 DEF FaucetsInv, FaucetInv, DripsBacked
<1> QED BY <1>10, <1>11 DEF FaucetsInv

\* Every step keeps the faucets.
LEMMA FaucetsStep ==
    ASSUME FaucetsInv, [PaymentsNext]_paymentVars
    PROVE  FaucetsInv'
<1>1. ASSUME UNCHANGED <<nativeVars, faucetVars>> PROVE FaucetsInv'
  BY <1>1, OtherFaucet DEF FaucetsInv, NativeInv, Solid, nativeVars
<1>2. ASSUME NEW from \in Holder, NEW to \in Holder, NEW amount \in Nat,
             MayPay(free, from, to, amount, TRUE), free' = Paid(free, from, to, amount),
             UNCHANGED <<reserves, faucetVars>>
      PROVE  FaucetsInv'
  BY <1>2, KeepAlivePayment, OtherFaucet DEF FaucetsInv
<1>3. CASE FaucetStep
  <2>1. ASSUME NEW amount \in ReserveAmounts, set_reserve_amount(amount) PROVE FaucetsInv'
    BY <2>1, FaucetAssumption
    DEF set_reserve_amount, nativeVars, FaucetsInv, NativeInv, Solid, FaucetInv, DripsBacked
  <2>2. ASSUME NEW who \in Person, NEW name \in FaucetName, NEW amount \in Fundings,
               NEW wl \in Whitelists \cup {NoWhitelist}, NEW d \in DripAmounts,
               create_faucet(who, name, amount, wl, d)
        PROVE  FaucetsInv'
    BY <2>2, CreateKeeps
  <2>3. ASSUME NEW who \in Person, NEW name \in FaucetName, dissolve_faucet(name, who) PROVE FaucetsInv'
    BY <2>3, EndKeeps, FaucetAssumption DEF dissolve_faucet
  <2>4. ASSUME NEW who \in Person, NEW name \in FaucetName, close_faucet(who, name) PROVE FaucetsInv'
    BY <2>4, EndKeeps, FaucetAssumption DEF close_faucet
  <2>5. ASSUME NEW r \in Reputation, NEW name \in FaucetName, drip(r[1], name, r[2], r[3])
        PROVE  FaucetsInv'
    BY <2>5, DripKeeps
  <2>6. ASSUME NEW r \in Reputation, NEW p \in 0 .. MaxPurposes - 1,
               commit_reputation(r[1], r[2], r[3], p)
        PROVE  FaucetsInv'
    BY <2>6, CommitKeeps
  <2>7. FaucetNext
    BY <1>3 DEF FaucetStep
  <2> QED BY <2>1, <2>2, <2>3, <2>4, <2>5, <2>6, <2>7 DEF FaucetNext
<1>4. CASE TreasuryStep
  <2>1. UNCHANGED faucetVars /\ TreasuriesNext
    BY <1>4 DEF TreasuryStep
  <2>2. PICK cid \in Community, who \in SwapHolder :
          \/ \E kind \in Kinds, option \in SwapOption : do_issue_swap_option(kind, cid, who, option)
          \/ \E amount \in SwapAmounts : \/ swap_native(cid, who, amount)
                                         \/ swap_asset(cid, who, amount)
                                         \/ spend_native(cid, who, amount)
                                         \/ spend_asset(who, amount)
    BY <2>1 DEF TreasuriesNext
  <2>3. ASSUME NEW amount \in SwapAmounts, SpendNative(cid, who, amount) PROVE FaucetsInv'
    <3>1. TreasuryAccount[cid] \in Holder /\ who \in Holder /\ amount \in Nat
      BY TreasuriesAssumption
    <3> QED BY <2>1, <2>3, <3>1, <1>2 DEF SpendNative
  <2>4. ASSUME NEW kind \in Kinds, NEW option \in SwapOption, do_issue_swap_option(kind, cid, who, option)
        PROVE  FaucetsInv'
    BY <2>4, <2>1, <1>1 DEF do_issue_swap_option
  <2>5. ASSUME NEW amount \in SwapAmounts, swap_asset(cid, who, amount) PROVE FaucetsInv'
    BY <2>5, <2>1, <1>1 DEF swap_asset
  <2>6. ASSUME NEW amount \in SwapAmounts, spend_asset(who, amount) PROVE FaucetsInv'
    BY <2>6, <2>1, <1>1 DEF spend_asset
  <2>7. ASSUME NEW amount \in SwapAmounts, swap_native(cid, who, amount) PROVE FaucetsInv'
    BY <2>7, <2>3 DEF swap_native
  <2>8. ASSUME NEW amount \in SwapAmounts, spend_native(cid, who, amount) PROVE FaucetsInv'
    BY <2>8, <2>3 DEF spend_native
  <2> QED BY <2>2, <2>4, <2>5, <2>6, <2>7, <2>8
<1>5. CASE OfflineStep
  <2>1. UNCHANGED faucetVars /\ (UNCHANGED nativeVars \/ OfflineSubmissions)
    BY <1>5 DEF OfflineStep
  <2>2. CASE OfflineSubmissions
    <3>1. PICK proof \in Proofs, sender \in Payer, to \in Payer, amount \in PayAmounts,
               nullifier \in NullifierBytes :
            \/ \E cid \in Community : submit_offline_payment(proof, sender, to, amount, cid, nullifier)
            \/ submit_native_offline_payment(proof, sender, to, amount, nullifier)
      BY <2>2 DEF OfflineSubmissions
    <3>2. CASE \E cid \in Community : submit_offline_payment(proof, sender, to, amount, cid, nullifier)
      BY <3>2, <2>1, <1>1 DEF submit_offline_payment
    <3>3. CASE submit_native_offline_payment(proof, sender, to, amount, nullifier)
      <4>1. sender \in Holder /\ to \in Holder /\ amount \in Nat
        BY OfflineAssumption
      <4> QED BY <3>3, <4>1, <2>1, <1>2 DEF submit_native_offline_payment
    <3> QED BY <3>1, <3>2, <3>3
  <2> QED BY <2>1, <2>2, <1>1
<1>6. CASE FundingStep
  <2>1. PICK who \in Person, to \in Holder \ Person, amount \in Fundings : native_transfer(who, to, amount)
    BY <1>6 DEF FundingStep
  <2>2. who \in Holder /\ to \in Holder /\ amount \in Nat
    BY FaucetAssumption
  <2> QED BY <1>6, <2>1, <2>2, <1>2 DEF native_transfer, FundingStep
<1>7. CASE SetupStep
  BY <1>7, <1>1 DEF SetupStep
<1>8. CASE UNCHANGED paymentVars
  BY <1>8, <1>1 DEF paymentVars
<1> QED BY <1>3, <1>4, <1>5, <1>6, <1>7, <1>8 DEF PaymentsNext, ChainStep

LEMMA FaucetsHold == PaymentsSpec => []FaucetsInv
BY FaucetsInit, FaucetsStep, PTL DEF PaymentsSpec

\* Every drip of a faucet used up a reputation of its own, committed for a
\* purpose that no other faucet has.
THEOREM EveryDripIsBacked == PaymentsSpec => []DripsBacked
<1>1. FaucetsInv => DripsBacked
  BY DEF FaucetsInv, FaucetInv
<1> QED BY <1>1, FaucetsHold, PTL

\* A faucet can always pay the next drip or be closed by its creator:
\* DripAmountTooSmall leaves no gap between the two, and what is left is
\* either nothing or enough for an account.
THEOREM NoFaucetIsStuck == PaymentsSpec => []FaucetServesOrCloses
<1>1. ASSUME FaucetsInv, NEW n \in DOMAIN Faucets
      PROVE  \/ \A who \in Person : MayPay(free, n, who, Faucets[n].drip_amount, TRUE)
             \/ MayClose(n) /\ MayPay(free, n, CatchBasin, free[n], FALSE)
  <2> DEFINE d == Faucets[n].drip_amount
  <2>1. /\ d \in Nat /\ d > MinimumBalance /\ MinimumBalance \in Nat \ {0}
        /\ n \in Holder /\ CatchBasin \in Holder /\ Person \subseteq Holder
    BY <1>1, FaucetAssumption, NativeAssumption DEF FaucetsInv, FaucetInv
  <2>2. free \in [Holder -> Nat] /\ (free[n] = 0 \/ free[n] >= MinimumBalance)
    BY <1>1, <2>1 DEF FaucetsInv, NativeInv, Solid
  <2>3. CASE free[n] >= d + MinimumBalance
    <3>1. \A who \in Person : MayPay(free, n, who, d, TRUE)
      <4> HIDE DEF d
      <4> QED BY <2>1, <2>2, <2>3 DEF MayPay
    <3> QED BY <3>1
  <2>4. CASE ~ (free[n] >= d + MinimumBalance)
    <3>1. MayClose(n)
      BY <2>1, <2>2, <2>4 DEF MayClose
    <3>2. MayPay(free, n, CatchBasin, free[n], FALSE)
      <4>1. free[n] \in Nat /\ free[CatchBasin] \in Nat
        BY <2>1, <2>2
      <4> QED BY <2>1, <2>2, <4>1 DEF MayPay
    <3> QED BY <3>1, <3>2
  <2> QED BY <2>3, <2>4
<1>2. FaucetsInv => FaucetServesOrCloses
  BY <1>1 DEF FaucetServesOrCloses
<1> QED BY <1>2, FaucetsHold, PTL

-----------------------------------------------------------------------------
(* Treasuries.                                                              *)

\* What the options of a kind still allow.
Open(options) ==
    SumFunctionOnSet([x \in DOMAIN options |-> options[x].allowance], DOMAIN options)

Option == [allowance : Nat, rate : SwapRates \cup {RateUndefined}, do_burn : BOOLEAN]

\* A table of options.
Options(o) == IsFiniteSet(DOMAIN o) /\ \A x \in DOMAIN o : o[x] \in Option

SwapsInv ==
    /\ DOMAIN SwapOptions = Kinds
    /\ \A kind \in Kinds : Options(SwapOptions[kind])
    /\ granted \in [Kinds -> Nat]
    /\ swapped \in [Kinds -> Nat]
    /\ SwapsWithinGrants

\* Inserting an option replaces what an earlier one allowed.
LEMMA OpenInsert ==
    ASSUME NEW o, Options(o), NEW x, NEW e \in Option
    PROVE  /\ Options(Insert(o, x, e))
           /\ Open(o) \in Nat
           /\ x \in DOMAIN o => o[x].allowance \in Nat /\ o[x].allowance <= Open(o)
           /\ Open(Insert(o, x, e)) =
                Open(o) - (IF x \in DOMAIN o THEN o[x].allowance ELSE 0) + e.allowance
<1> DEFINE D == DOMAIN o
<1> DEFINE n == Insert(o, x, e)
<1> DEFINE f == [y \in D |-> o[y].allowance]
<1> DEFINE g == [y \in D \cup {x} |-> n[y].allowance]
<1>1. /\ DOMAIN n = D \cup {x} /\ n[x] = e /\ \A y \in D : y # x => n[y] = o[y]
  BY DEF Insert
<1>2. IsFiniteSet(D) /\ \A y \in D : o[y] \in Option
  BY DEF Options
<1>3. IsFiniteSet(D \cup {x})
  BY <1>2, FS_AddElement
<1>4. Options(n)
  BY <1>1, <1>2, <1>3 DEF Options
<1>5. e.allowance \in Nat /\ \A y \in D : o[y].allowance \in Nat
  BY <1>2 DEF Option
<1>6. \A y \in D : f[y] \in Nat /\ f[y] = o[y].allowance
  BY <1>5
<1>7. g[x] = e.allowance /\ \A y \in D : y # x => g[y] = f[y]
  BY <1>1
<1>8. Open(o) = SumFunctionOnSet(f, D)
  BY DEF Open
<1>9. Open(n) = SumFunctionOnSet(g, D \cup {x})
  BY <1>1 DEF Open
<1> HIDE DEF f, g, D, n
<1>10. Open(o) \in Nat /\ \A y \in D : f[y] <= Open(o)
  BY <1>2, <1>6, <1>8, SumNatural
<1>11. Summable(f, D)
  BY <1>2, <1>6 DEF Summable
<1>12. CASE x \in D
  <2>1. D \cup {x} = D
    BY <1>12
  <2>2. SumFunctionOnSet(g, D) = SumFunctionOnSet(f, D) - f[x] + g[x]
    BY <1>5, <1>7, <1>11, <1>12, SumChange
  <2> QED BY <1>4, <1>6, <1>7, <1>8, <1>9, <1>10, <1>12, <2>1, <2>2 DEF D, n
<1>13. CASE x \notin D
  <2>1. \A y \in D : g[y] = f[y]
    BY <1>7, <1>13
  <2>2. SumFunctionOnSet(g, D) = SumFunctionOnSet(f, D)
    BY <2>1, <1>11, SumAgree
  <2>3. Summable(g, D) /\ g[x] \in Int
    BY <2>1, <1>5, <1>7, <1>11 DEF Summable
  <2>4. SumFunctionOnSet(g, D \cup {x}) = g[x] + SumFunctionOnSet(g, D)
    BY <2>3, <1>13, SumAdd
  <2>5. Open(n) = Open(o) - 0 + e.allowance
    BY <1>5, <1>7, <1>8, <1>9, <1>10, <2>2, <2>4
  <2> QED BY <1>4, <1>10, <1>13, <2>5 DEF D, n
<1> QED BY <1>12, <1>13

\* One option is inserted, and the sums of its kind change with it.
LEMMA SwapsChange ==
    ASSUME SwapsInv, NEW kind \in Kinds, NEW x, NEW e \in Option, NEW s \in Nat, NEW h \in Nat,
           SwapOptions' = [SwapOptions EXCEPT ![kind] = Insert(@, x, e)],
           swapped' = [swapped EXCEPT ![kind] = @ + s],
           granted' = [granted EXCEPT ![kind] = @ + h],
           s + e.allowance <= h + IF x \in DOMAIN SwapOptions[kind] THEN SwapOptions[kind][x].allowance ELSE 0
    PROVE  SwapsInv'
<1> DEFINE o == SwapOptions[kind]
<1> DEFINE n == Insert(o, x, e)
<1> DEFINE a == IF x \in DOMAIN o THEN o[x].allowance ELSE 0
<1>1. /\ Options(n) /\ Open(o) \in Nat /\ a \in Nat
      /\ Open(n) = Open(o) - a + e.allowance
  BY OpenInsert DEF SwapsInv
<1>2. DOMAIN SwapOptions' = Kinds /\ SwapOptions'[kind] = n
      /\ \A k \in Kinds : k # kind => SwapOptions'[k] = SwapOptions[k]
  BY DEF SwapsInv
<1>3. \A k \in Kinds : swapped[k] + Open(SwapOptions[k]) <= granted[k]
  BY DEF SwapsInv, SwapsWithinGrants, Open
<1>4. /\ granted' \in [Kinds -> Nat] /\ swapped' \in [Kinds -> Nat]
      /\ granted'[kind] = granted[kind] + h /\ swapped'[kind] = swapped[kind] + s
      /\ \A k \in Kinds : k # kind => granted'[k] = granted[k] /\ swapped'[k] = swapped[k]
      /\ granted[kind] \in Nat /\ swapped[kind] \in Nat
  BY DEF SwapsInv
<1>5. e.allowance \in Nat /\ s + e.allowance <= h + a
  BY DEF Option
<1>6. swapped[kind] + Open(o) <= granted[kind]
  BY <1>3
<1> HIDE DEF a, n, o
<1>7. swapped'[kind] + Open(n) <= granted'[kind]
  BY <1>1, <1>4, <1>5, <1>6
<1>8. \A k \in Kinds : Options(SwapOptions'[k])
  BY <1>1, <1>2 DEF SwapsInv
<1>9. SwapsWithinGrants'
  <2>1. \A k \in Kinds : swapped'[k] + Open(SwapOptions'[k]) <= granted'[k]
    BY <1>2, <1>3, <1>4, <1>7
  <2> QED BY <2>1 DEF SwapsWithinGrants, Open
<1> QED BY <1>2, <1>4, <1>8, <1>9 DEF SwapsInv, Options

\* swap_native and swap_asset take what they pay from the allowance.
LEMMA SwapKeeps ==
    ASSUME SwapsInv, NEW kind \in Kinds, NEW cid \in Community, NEW who \in SwapHolder,
           NEW amount \in SwapAmounts, Swap(kind, cid, who, amount)
    PROVE  SwapsInv'
<1> DEFINE x == <<cid, who>>
<1> DEFINE option == SwapOptions[kind][x]
<1> DEFINE e == UsedUp(option, amount)
<1>1. /\ x \in DOMAIN SwapOptions[kind]
      /\ option.allowance >= amount
      /\ SwapOptions' = [SwapOptions EXCEPT ![kind] = Insert(@, x, e)]
      /\ swapped' = [swapped EXCEPT ![kind] = @ + amount]
      /\ granted' = granted
  BY DEF Swap, HasOption
<1>2. option \in Option /\ amount \in Nat
  BY <1>1, TreasuriesAssumption DEF SwapsInv, Options
<1>3. e \in Option /\ e.allowance = option.allowance - amount /\ option.allowance \in Nat
  BY <1>1, <1>2 DEF UsedUp, Option
<1>4. granted' = [granted EXCEPT ![kind] = @ + 0]
  BY <1>1 DEF SwapsInv
<1> HIDE DEF e, option, x
<1>5. amount + e.allowance <= 0 + option.allowance
  BY <1>2, <1>3
<1>6. amount + e.allowance <=
        0 + IF x \in DOMAIN SwapOptions[kind] THEN SwapOptions[kind][x].allowance ELSE 0
  BY <1>1, <1>5 DEF option
<1>7. 0 \in Nat
  OBVIOUS
<1> QED BY <1>1, <1>2, <1>3, <1>4, <1>6, <1>7, SwapsChange

\* Every step keeps the swaps within the grants.
LEMMA SwapsStep ==
    ASSUME SwapsInv, [PaymentsNext]_paymentVars
    PROVE  SwapsInv'
<1>1. ASSUME UNCHANGED <<SwapOptions, granted, swapped>> PROVE SwapsInv'
  BY <1>1 DEF SwapsInv, SwapsWithinGrants, Options
<1>2. CASE TreasuryStep
  <2>1. PICK cid \in Community, who \in SwapHolder :
          \/ \E kind \in Kinds, option \in SwapOption : do_issue_swap_option(kind, cid, who, option)
          \/ \E amount \in SwapAmounts : \/ swap_native(cid, who, amount)
                                         \/ swap_asset(cid, who, amount)
                                         \/ spend_native(cid, who, amount)
                                         \/ spend_asset(who, amount)
    BY <1>2 DEF TreasuryStep, TreasuriesNext
  <2>2. ASSUME NEW kind \in Kinds, NEW option \in SwapOption, do_issue_swap_option(kind, cid, who, option)
        PROVE  SwapsInv'
    <3> DEFINE x == <<cid, who>>
    <3>1. /\ SwapOptions' = [SwapOptions EXCEPT ![kind] = Insert(@, x, option)]
          /\ granted' = [granted EXCEPT ![kind] = @ + option.allowance]
          /\ swapped' = swapped
      BY <2>2 DEF do_issue_swap_option
    <3>2. option \in Option /\ option.allowance \in Nat
      BY TreasuriesAssumption DEF SwapOption, Option
    <3>3. swapped' = [swapped EXCEPT ![kind] = @ + 0]
      BY <3>1 DEF SwapsInv
    <3>4. x \in DOMAIN SwapOptions[kind] => SwapOptions[kind][x].allowance \in Nat
      BY DEF SwapsInv, Options, Option
    <3> HIDE DEF x
    <3>5. 0 + option.allowance <= option.allowance +
            IF x \in DOMAIN SwapOptions[kind] THEN SwapOptions[kind][x].allowance ELSE 0
      BY <3>2, <3>4
    <3>6. 0 \in Nat
      OBVIOUS
    <3> QED BY <3>1, <3>2, <3>3, <3>5, <3>6, SwapsChange
  <2>3. ASSUME NEW amount \in SwapAmounts,
               swap_native(cid, who, amount) \/ swap_asset(cid, who, amount)
        PROVE  SwapsInv'
    <3>1. "native" \in Kinds /\ "asset" \in Kinds
      BY TreasuriesAssumption
    <3> QED BY <2>3, <3>1, SwapKeeps DEF swap_native, swap_asset
  <2>4. ASSUME NEW amount \in SwapAmounts,
               spend_native(cid, who, amount) \/ spend_asset(who, amount)
        PROVE  SwapsInv'
    BY <2>4, <1>1 DEF spend_native, spend_asset, treasuryVars
  <2> QED BY <2>1, <2>2, <2>3, <2>4
<1>3. CASE FaucetStep \/ OfflineStep \/ FundingStep \/ SetupStep \/ UNCHANGED paymentVars
  BY <1>3, <1>1 DEF FaucetStep, OfflineStep, FundingStep, SetupStep, paymentVars, treasuryVars
<1> QED BY <1>2, <1>3 DEF PaymentsNext, ChainStep

\* Everything swapped so far, and all that the options still allow, was
\* granted: in parts, after a replacement, and by several holders.
THEOREM SwapsStayWithinGrants == PaymentsSpec => []SwapsWithinGrants
<1>1. PaymentsInit => SwapsInv
  <2> SUFFICES ASSUME PaymentsInit PROVE SwapsInv
    OBVIOUS
  <2>1. /\ DOMAIN SwapOptions = Kinds /\ \A kind \in Kinds : DOMAIN SwapOptions[kind] = {}
        /\ granted = [k \in Kinds |-> 0] /\ swapped = [k \in Kinds |-> 0]
    BY DEF PaymentsInit, TreasuriesInit
  <2>2. \A kind \in Kinds : Options(SwapOptions[kind])
    BY <2>1, FS_EmptySet DEF Options
  <2>3. \A kind \in Kinds : Open(SwapOptions[kind]) = 0
    BY <2>1, SumEmpty DEF Open
  <2>4. SwapsWithinGrants
    BY <2>1, <2>3 DEF SwapsWithinGrants, Open
  <2> QED BY <2>1, <2>2, <2>4 DEF SwapsInv
<1>2. SwapsInv => SwapsWithinGrants
  BY DEF SwapsInv
<1> QED BY <1>1, <1>2, SwapsStep, PTL DEF PaymentsSpec

-----------------------------------------------------------------------------
(* Offline payments.                                                        *)

SettledInv ==
    /\ IsFiniteSet(DOMAIN settlements)
    /\ \A x \in DOMAIN settlements : settlements[x] \in Nat \ {0}
    /\ IsFiniteSet(UsedNullifiers)
    /\ SettledPerEncoding

\* Settle after Accepted: what is settled with the element grows by one, and
\* so do its encodings, since these bytes were not used.
LEMMA SettleKeeps ==
    ASSUME SettledInv, NEW proof, NEW sender, NEW bytes,
           proof.inputs.nullifier = BytesToField(bytes), bytes \notin UsedNullifiers,
           Settle(proof, sender, bytes)
    PROVE  SettledInv'
<1> DEFINE x0 == <<sender, proof>>
<1> DEFINE D == DOMAIN settlements
<1> DEFINE v == IF x0 \in D THEN settlements[x0] + 1 ELSE 1
<1>1. UsedNullifiers' = UsedNullifiers \cup {bytes} /\ settlements' = Insert(settlements, x0, v)
  BY DEF Settle
<1>2. /\ DOMAIN settlements' = D \cup {x0} /\ settlements'[x0] = v
      /\ \A x \in D : x # x0 => settlements'[x] = settlements[x]
  BY <1>1 DEF Insert
<1>3. /\ IsFiniteSet(D) /\ \A x \in D : settlements[x] \in Nat \ {0}
      /\ IsFiniteSet(UsedNullifiers)
  BY DEF SettledInv
<1>4. IsFiniteSet(D \cup {x0}) /\ IsFiniteSet(UsedNullifiers')
  BY <1>1, <1>3, FS_AddElement
<1>5. x0[2].inputs.nullifier = BytesToField(bytes)
  OBVIOUS
<1> HIDE DEF x0
<1>6. v \in Nat \ {0} /\ \A x \in DOMAIN settlements' : settlements'[x] \in Nat \ {0}
  BY <1>2, <1>3
<1>7. ASSUME NEW s \in Secret, NEW n \in Nonce
      PROVE  SumFunctionOnSet(settlements, SettledWith(Nullifier(s, n)))' =
               Cardinality(EncodingsUsed(Nullifier(s, n)))'
  <2> DEFINE mu == Nullifier(s, n)
  <2> DEFINE S == SettledWith(mu)
  <2> DEFINE T == {x \in DOMAIN settlements' : x[2].inputs.nullifier = mu}
  <2> DEFINE E == EncodingsUsed(mu)
  <2> DEFINE F == {b \in UsedNullifiers' : BytesToField(b) = mu}
  <2>1. SumFunctionOnSet(settlements, S) = Cardinality(E)
    BY DEF SettledInv, SettledPerEncoding
  <2>2. /\ SumFunctionOnSet(settlements, SettledWith(Nullifier(s, n)))' = SumFunctionOnSet(settlements', T)
        /\ Cardinality(EncodingsUsed(Nullifier(s, n)))' = Cardinality(F)
    BY DEF SettledWith, EncodingsUsed, Nullifier, BytesToField
  <2>3. Summable(settlements, S) /\ S \subseteq D
    <3>1. S \subseteq D
      BY DEF SettledWith
    <3> QED BY <3>1, <1>3, FS_Subset DEF Summable
  <2>4. IsFiniteSet(E) /\ bytes \notin E
    <3>1. E \subseteq UsedNullifiers
      BY DEF EncodingsUsed
    <3> QED BY <3>1, <1>3, FS_Subset
  <2> HIDE DEF mu
  <2>5. CASE mu = BytesToField(bytes)
    <3>1. T = S \cup {x0}
      BY <2>5, <1>2, <1>5 DEF SettledWith
    <3>2. F = E \cup {bytes}
      BY <2>5, <1>1 DEF EncodingsUsed
    <3>3. Cardinality(F) = Cardinality(E) + 1
      BY <3>2, <2>4, FS_AddElement
    <3> HIDE DEF T, E, F
    <3>4. CASE x0 \in D
      <4>1. x0 \in S
        BY <3>4, <2>5, <1>5 DEF SettledWith
      <4>2. settlements'[x0] = settlements[x0] + 1 /\ settlements[x0] \in Int /\ settlements'[x0] \in Int
        BY <3>4, <1>2, <1>3
      <4>3. \A y \in S : y # x0 => settlements'[y] = settlements[y]
        BY <2>3, <1>2
      <4> HIDE DEF S
      <4>4. SumFunctionOnSet(settlements', S)
              = SumFunctionOnSet(settlements, S) - settlements[x0] + settlements'[x0]
        BY <4>1, <4>2, <4>3, <2>3, SumChange
      <4>5. SumFunctionOnSet(settlements, S) \in Int /\ T = S
        BY <2>3, <3>1, <4>1, SumType
      <4> QED BY <4>2, <4>4, <4>5, <2>1, <2>2, <3>3 DEF mu
    <3>5. CASE x0 \notin D
      <4>1. settlements'[x0] = 1 /\ x0 \notin S
        BY <3>5, <1>2, <2>3
      <4>2. \A x \in S : settlements'[x] = settlements[x]
        BY <3>5, <1>2, <2>3
      <4> HIDE DEF S
      <4>3. SumFunctionOnSet(settlements', S) = SumFunctionOnSet(settlements, S)
        BY <4>2, <2>3, SumAgree
      <4>4. Summable(settlements', S)
        BY <4>2, <2>3 DEF Summable
      <4>5. SumFunctionOnSet(settlements', S \cup {x0}) = 1 + SumFunctionOnSet(settlements', S)
        BY <4>1, <4>4, SumAdd
      <4>6. SumFunctionOnSet(settlements, S) \in Int
        BY <2>3, SumType
      <4> QED BY <3>1, <4>3, <4>5, <4>6, <2>1, <2>2, <3>3 DEF mu
    <3> QED BY <3>4, <3>5
  <2>6. CASE mu # BytesToField(bytes)
    <3>1. T = S /\ F = E
      BY <2>6, <1>1, <1>2, <1>5 DEF SettledWith, EncodingsUsed
    <3>2. \A x \in S : settlements'[x] = settlements[x]
      <4>1. x0 \notin S
        BY <2>6, <1>5 DEF SettledWith
      <4> QED BY <4>1, <2>3, <1>2
    <3> HIDE DEF S, T, E, F
    <3>3. SumFunctionOnSet(settlements', S) = SumFunctionOnSet(settlements, S)
      BY <3>2, <2>3, SumAgree
    <3> QED BY <3>1, <3>3, <2>1, <2>2 DEF mu
  <2> QED BY <2>5, <2>6
<1>8. SettledPerEncoding'
  BY <1>7 DEF SettledPerEncoding, Nullifier
<1> QED BY <1>2, <1>4, <1>6, <1>8 DEF SettledInv

\* Every step settles once for an encoding, or leaves both alone.
LEMMA SettledStep ==
    ASSUME SettledInv, [PaymentsNext]_paymentVars
    PROVE  SettledInv'
<1>1. ASSUME UNCHANGED <<settlements, UsedNullifiers>> PROVE SettledInv'
  BY <1>1 DEF SettledInv, SettledPerEncoding, SettledWith, EncodingsUsed, Nullifier, BytesToField
<1>2. CASE OfflineStep
  <2>1. CASE OfflineSubmissions
    <3>1. PICK proof \in Proofs, sender \in Payer, to \in Payer, amount \in PayAmounts,
               nullifier \in NullifierBytes :
            \/ \E cid \in Community : submit_offline_payment(proof, sender, to, amount, cid, nullifier)
            \/ submit_native_offline_payment(proof, sender, to, amount, nullifier)
      BY <2>1 DEF OfflineSubmissions
    <3>2. PICK asset : /\ Accepted(proof, sender, to, amount, asset, nullifier)
                       /\ Settle(proof, sender, nullifier)
      BY <3>1 DEF submit_offline_payment, submit_native_offline_payment
    <3>3. nullifier \notin UsedNullifiers /\ proof.inputs.nullifier = BytesToField(nullifier)
      BY <3>2 DEF Accepted, Verify, PublicInputs
    <3> QED BY <3>2, <3>3, SettleKeeps
  <2>2. CASE OfflineSetup
    BY <2>2, <1>1 DEF OfflineSetup, register_offline_identity, set_verification_key
  <2> QED BY <1>2, <2>1, <2>2 DEF OfflineStep
<1>3. CASE FaucetStep \/ TreasuryStep \/ FundingStep \/ UNCHANGED paymentVars
  BY <1>3, <1>1 DEF FaucetStep, TreasuryStep, FundingStep, paymentVars, offlineVars
<1>4. CASE SetupStep
  BY <1>4, <1>1 DEF SetupStep, ceremony_contribute
<1> QED BY <1>2, <1>3, <1>4 DEF PaymentsNext, ChainStep

LEMMA SettledStart == PaymentsInit => SettledInv
<1> SUFFICES ASSUME PaymentsInit PROVE SettledInv
  OBVIOUS
<1>1. DOMAIN settlements = {} /\ UsedNullifiers = {}
  BY DEF PaymentsInit, OfflineInit
<1>2. SettledPerEncoding
  <2>1. \A nu : SettledWith(nu) = {} /\ EncodingsUsed(nu) = {}
    BY <1>1 DEF SettledWith, EncodingsUsed
  <2> QED BY <2>1, SumEmpty, FS_EmptySet DEF SettledPerEncoding
<1> QED BY <1>1, <1>2, FS_EmptySet DEF SettledInv

\* With a nullifier, as many payments are settled as encodings of it are used,
\* however often, by whomever, in which encodings and under which key proofs
\* are submitted.
THEOREM PaymentsSettlePerEncoding == PaymentsSpec => []SettledPerEncoding
<1>1. SettledInv => SettledPerEncoding
  BY DEF SettledInv
<1> QED BY <1>1, SettledStart, SettledStep, PTL DEF PaymentsSpec

\* The comment of UsedNullifiers holds of a nullifier that nobody submits in
\* another encoding than the one the prover writes: however often and by
\* whomever the proofs made with it are submitted, one of them is settled, once.
THEOREM WrittenAsProvedSettlesOnce ==
    PaymentsSpec =>
      [](\A secret \in Secret, nonce \in Nonce :
           LET nullifier == Nullifier(secret, nonce)
           IN  EncodingsUsed(nullifier) \subseteq {Bytes(nullifier, 0)}
                 => \A x, y \in SettledWith(nullifier) : settlements[x] = 1 /\ x = y)
<1> DEFINE Once == \A secret \in Secret, nonce \in Nonce :
                     EncodingsUsed(Nullifier(secret, nonce)) \subseteq {Bytes(Nullifier(secret, nonce), 0)}
                       => \A x, y \in SettledWith(Nullifier(secret, nonce)) : settlements[x] = 1 /\ x = y
<1>1. SettledInv => Once
  <2> SUFFICES ASSUME SettledInv, NEW secret \in Secret, NEW nonce \in Nonce,
                      EncodingsUsed(Nullifier(secret, nonce)) \subseteq {Bytes(Nullifier(secret, nonce), 0)},
                      NEW x \in SettledWith(Nullifier(secret, nonce)),
                      NEW y \in SettledWith(Nullifier(secret, nonce))
               PROVE  settlements[x] = 1 /\ x = y
    OBVIOUS
  <2> DEFINE S == SettledWith(Nullifier(secret, nonce))
  <2> DEFINE E == EncodingsUsed(Nullifier(secret, nonce))
  <2> DEFINE b == Bytes(Nullifier(secret, nonce), 0)
  <2>1. SumFunctionOnSet(settlements, S) = Cardinality(E)
    BY DEF SettledInv, SettledPerEncoding
  <2>2. /\ S \subseteq DOMAIN settlements /\ IsFiniteSet(S)
        /\ \A z \in S : settlements[z] \in Nat \ {0}
    <3>1. S \subseteq DOMAIN settlements
      BY DEF SettledWith
    <3> QED BY <3>1, FS_Subset DEF SettledInv
  <2>3. x \in S /\ y \in S /\ E \subseteq {b}
    OBVIOUS
  <2> HIDE DEF S, E, b
  <2>4. Cardinality(E) \in 0 .. 1
    <3>1. IsFiniteSet({b}) /\ Cardinality({b}) = 1
      BY FS_Singleton
    <3> QED BY <2>3, <3>1, FS_Subset, FS_CardinalityType
  <2>5. Summable(settlements, S)
    BY <2>2 DEF Summable
  <2>6. settlements[x] = 1
    BY <2>1, <2>2, <2>3, <2>4, SumNatural
  <2>7. SumFunctionOnSet(settlements, S) = settlements[x] + SumFunctionOnSet(settlements, S \ {x})
    BY <2>3, <2>5, SumSplit
  <2>8. CASE x # y
    <3>1. y \in S \ {x} /\ IsFiniteSet(S \ {x}) /\ \A z \in S \ {x} : settlements[z] \in Nat
      BY <2>2, <2>3, <2>8, FS_Subset
    <3>2. /\ SumFunctionOnSet(settlements, S \ {x}) \in Nat
          /\ settlements[y] <= SumFunctionOnSet(settlements, S \ {x})
      BY <3>1, SumNatural
    <3> QED BY <2>1, <2>2, <2>3, <2>4, <2>6, <2>7, <3>2
  <2> QED BY <2>6, <2>8
<1> QED BY <1>1, SettledStart, SettledStep, PTL DEF PaymentsSpec

-----------------------------------------------------------------------------
(* The trusted setup.                                                       *)

Unit == 1 .. Order - 1
Key == [delta : Unit, query : Unit]

\* The scalars of a key are inverses.
Fits(pk) == pk \in Key /\ (pk.delta * pk.query) % Order = 1

\* Every state of the setup is a key whose parts fit, with a receipt for each
\* contribution.
SetupInv ==
    /\ setup \in Seq(Key)
    /\ receipts \in Seq([d : Unit, old_delta : Unit, new_delta : Unit])
    /\ Len(setup) = Len(receipts) + 1
    /\ \A i \in 1 .. Len(setup) : Fits(setup[i])
    /\ \A i \in 1 .. Len(receipts) :
         /\ VerifyContribution(receipts[i])
         /\ receipts[i].old_delta = setup[i].delta
         /\ receipts[i].new_delta = setup[i + 1].delta

\* Field::inverse
LEMMA InverseType ==
    ASSUME NEW d \in Unit
    PROVE  FieldInverse(d) \in Unit /\ (d * FieldInverse(d)) % Order = 1
<1>1. \E x \in Unit : (d * x) % Order = 1
  BY OfflineAssumption DEF Unit
<1> QED BY <1>1 DEF FieldInverse, Unit

\* What has an inverse is not zero.
LEMMA UnitProduct ==
    ASSUME NEW x \in 0 .. Order - 1, NEW y \in 0 .. Order - 1, (x * y) % Order = 1
    PROVE  x \in Unit /\ y \in Unit
<1>1. Order \in Nat \ {0, 1} /\ x \in Nat /\ y \in Nat
  BY OfflineAssumption
<1>2. 0 % Order = 0
  BY <1>1, SmallMod
<1>3. x # 0
  <2> SUFFICES ASSUME x = 0 PROVE FALSE
    OBVIOUS
  <2>1. x * y = 0
    BY <1>1
  <2> QED BY <1>2, <2>1
<1>4. y # 0
  <2> SUFFICES ASSUME y = 0 PROVE FALSE
    OBVIOUS
  <2>1. x * y = 0
    BY <1>1
  <2> QED BY <1>2, <2>1
<1> QED BY <1>1, <1>3, <1>4 DEF Unit

\* The parts of a key still fit after a contribution.
LEMMA RerandomizedFits ==
    ASSUME NEW pk, Fits(pk), NEW d \in Unit
    PROVE  Fits(Rerandomized(pk, d))
<1> DEFINE x == pk.delta
<1> DEFINE q == pk.query
<1> DEFINE e == FieldInverse(d)
<1>1. x \in Unit /\ q \in Unit /\ (x * q) % Order = 1
  BY DEF Fits, Key
<1>2. e \in Unit /\ (d * e) % Order = 1
  BY InverseType
<1>3. Order \in Nat \ {0, 1}
  BY OfflineAssumption
<1> DEFINE y == (x * d) % Order
<1> DEFINE p == (q * e) % Order
<1>4. Rerandomized(pk, d) = [delta |-> y, query |-> p]
  BY DEF Rerandomized
<1> HIDE DEF x, q, e
<1>5. x \in Nat /\ q \in Nat /\ d \in Nat /\ e \in Nat
  BY <1>1, <1>2, <1>3 DEF Unit
<1>6. (y * p) % Order = 1
  <2>1. ModTimes(Order, x, q) = 1 /\ ModTimes(Order, d, e) = 1 /\ Order \in Nat \ {0}
    BY <1>1, <1>2, <1>3 DEF ModTimes
  <2>2. ModTimes(Order, ModTimes(Order, x, d), ModTimes(Order, q, e)) = 1
    BY <1>5, <2>1, InverseProduct
  <2> QED BY <2>2 DEF ModTimes
<1>7. y \in 0 .. Order - 1 /\ p \in 0 .. Order - 1
  <2>1. x * d \in Nat /\ q * e \in Nat
    BY <1>5, SMTT(30)
  <2> QED BY <1>3, <2>1, Division
<1> HIDE DEF y, p
<1>8. y \in Unit /\ p \in Unit
  BY <1>6, <1>7, UnitProduct
<1> QED BY <1>4, <1>6, <1>8 DEF Fits, Key

LEMMA SetupStart == PaymentsInit => SetupInv
<1> SUFFICES ASSUME PaymentsInit PROVE SetupInv
  OBVIOUS
<1>1. PICK delta \in InitialDeltas : setup = <<InitialKey(delta)>>
  BY DEF PaymentsInit, OfflineInit
<1>2. receipts = <<>>
  BY DEF PaymentsInit, OfflineInit
<1> DEFINE e == FieldInverse(delta)
<1>3. delta \in Unit /\ e \in Unit /\ (delta * e) % Order = 1
  BY OfflineAssumption, InverseType DEF Unit
<1>4. InitialKey(delta) = [delta |-> delta, query |-> e]
  BY DEF InitialKey
<1> HIDE DEF e
<1>5. Fits(InitialKey(delta))
  BY <1>3, <1>4 DEF Fits, Key
<1>6. setup \in Seq(Key) /\ Len(setup) = 1 /\ setup[1] = InitialKey(delta)
  BY <1>1, <1>5 DEF Fits
<1>7. Len(receipts) = 0 /\ receipts \in Seq([d : Unit, old_delta : Unit, new_delta : Unit])
  BY <1>2
<1> QED BY <1>5, <1>6, <1>7 DEF SetupInv

\* ceremony_contribute extends the chain of keys and receipts.
LEMMA ContributionKeeps ==
    ASSUME SetupInv, NEW d \in Scalars, ceremony_contribute(d)
    PROVE  SetupInv'
<1> DEFINE n == Len(receipts)
<1> DEFINE pk == setup[Len(setup)]
<1> DEFINE new == Rerandomized(pk, d)
<1> DEFINE r == ContributionReceipt(d, pk, new)
<1> DEFINE Receipt == [d : Unit, old_delta : Unit, new_delta : Unit]
<1>1. setup' = Append(setup, new) /\ receipts' = Append(receipts, r)
  BY DEF ceremony_contribute
<1>2. /\ setup \in Seq(Key) /\ receipts \in Seq(Receipt) /\ Len(setup) = n + 1 /\ n \in Nat
  BY DEF SetupInv
<1>3. Len(setup) \in 1 .. Len(setup) /\ d \in Unit
  BY <1>2, OfflineAssumption DEF Unit
<1>4. Fits(pk)
  BY <1>3 DEF SetupInv
<1>5. Fits(new)
  BY <1>3, <1>4, RerandomizedFits
<1>6. pk.delta \in Unit /\ new.delta \in Unit /\ pk \in Key /\ new \in Key
  BY <1>4, <1>5 DEF Fits, Key
<1>7. /\ r \in Receipt /\ r.old_delta = pk.delta /\ r.new_delta = new.delta /\ r.d = d
  BY <1>3, <1>6 DEF ContributionReceipt
<1>8. VerifyContribution(r)
  <2>1. new.delta = (pk.delta * d) % Order
    BY DEF Rerandomized
  <2>2. pk.delta * d = d * pk.delta
    <3>1. pk.delta \in Int /\ d \in Int
      BY <1>3, <1>6 DEF Unit
    <3> HIDE DEF pk
    <3> QED BY <3>1, SMTT(30)
  <2> HIDE DEF new, pk, r
  <2> QED BY <1>7, <2>1, <2>2 DEF VerifyContribution
<1>9. pk = setup[n + 1]
  BY <1>2
<1> HIDE DEF pk, new, r
<1>10. /\ setup' \in Seq(Key) /\ Len(setup') = n + 2 /\ setup'[n + 2] = new
       /\ \A i \in 1 .. n + 1 : setup'[i] = setup[i]
  BY <1>1, <1>2, <1>6
<1>11. /\ receipts' \in Seq(Receipt) /\ Len(receipts') = n + 1 /\ receipts'[n + 1] = r
       /\ \A i \in 1 .. n : receipts'[i] = receipts[i]
  BY <1>1, <1>2, <1>7
<1> HIDE DEF n
<1>12. \A i \in 1 .. Len(setup') : Fits(setup'[i])
  <2> TAKE i \in 1 .. Len(setup')
  <2>1. CASE i = n + 2
    BY <2>1, <1>5, <1>10
  <2>2. CASE i # n + 2
    <3>1. i \in 1 .. n + 1
      BY <2>2, <1>2, <1>10
    <3> QED BY <3>1, <1>2, <1>10 DEF SetupInv
  <2> QED BY <2>1, <2>2
<1>13. ASSUME NEW i \in 1 .. Len(receipts')
       PROVE  /\ VerifyContribution(receipts'[i])
              /\ receipts'[i].old_delta = setup'[i].delta
              /\ receipts'[i].new_delta = setup'[i + 1].delta
  <2>1. CASE i = n + 1
    <3>1. setup'[i] = pk /\ setup'[i + 1] = new /\ receipts'[i] = r
      <4>1. n + 1 \in 1 .. n + 1 /\ (n + 1) + 1 = n + 2
        BY <1>2
      <4> QED BY <2>1, <4>1, <1>9, <1>10, <1>11
    <3> QED BY <3>1, <1>7, <1>8
  <2>2. CASE i # n + 1
    <3>1. i \in 1 .. n /\ i \in 1 .. n + 1 /\ i + 1 \in 1 .. n + 1
      BY <2>2, <1>2, <1>11
    <3>2. setup'[i] = setup[i] /\ setup'[i + 1] = setup[i + 1] /\ receipts'[i] = receipts[i]
      BY <3>1, <1>10, <1>11
    <3> QED BY <3>1, <3>2 DEF SetupInv, n
  <2> QED BY <2>1, <2>2
<1>14. Len(setup') = Len(receipts') + 1
  BY <1>2, <1>10, <1>11
<1> QED BY <1>10, <1>11, <1>12, <1>13, <1>14 DEF SetupInv, Fits, VerifyContribution

LEMMA SetupHolds == PaymentsSpec => []SetupInv
<1>1. ASSUME SetupInv, [PaymentsNext]_paymentVars PROVE SetupInv'
  <2>1. ASSUME UNCHANGED setupVars PROVE SetupInv'
    BY <1>1, <2>1 DEF SetupInv, setupVars, Fits, VerifyContribution
  <2>2. CASE SetupStep
    BY <1>1, <2>2, ContributionKeeps DEF SetupStep
  <2>3. CASE OfflineStep
    <3>1. CASE OfflineSetup
      BY <3>1, <2>1 DEF OfflineSetup, register_offline_identity, set_verification_key
    <3>2. CASE OfflineSubmissions
      <4>1. PICK proof, sender, nullifier : Settle(proof, sender, nullifier)
        <5>1. PICK proof \in Proofs, sender \in Payer, to \in Payer, amount \in PayAmounts,
                   nullifier \in NullifierBytes :
                \/ \E cid \in Community : submit_offline_payment(proof, sender, to, amount, cid, nullifier)
                \/ submit_native_offline_payment(proof, sender, to, amount, nullifier)
          BY <3>2 DEF OfflineSubmissions
        <5>2. Settle(proof, sender, nullifier)
          BY <5>1 DEF submit_offline_payment, submit_native_offline_payment
        <5> QED BY <5>2
      <4> QED BY <4>1, <2>1 DEF Settle
    <3> QED BY <2>3, <3>1, <3>2 DEF OfflineStep
  <2>4. CASE FaucetStep \/ TreasuryStep \/ FundingStep \/ UNCHANGED paymentVars
    BY <2>4, <2>1 DEF FaucetStep, TreasuryStep, FundingStep, paymentVars, offlineVars
  <2> QED BY <1>1, <2>2, <2>3, <2>4 DEF PaymentsNext, ChainStep
<1> QED BY <1>1, SetupStart, PTL DEF PaymentsSpec

\* Whatever the contributions, the chain accepts the proofs of a proving key
\* exactly under the verifying keys with the same delta, and the receipts lead
\* from each state of the setup to the next.
THEOREM SetupStaysUsable == PaymentsSpec => []SetupUsable
<1>1. ASSUME SetupInv PROVE SetupUsable
  <2>1. DOMAIN setup = 1 .. Len(setup) /\ DOMAIN receipts = 1 .. Len(receipts)
    BY <1>1 DEF SetupInv
  <2>2. ASSUME NEW i \in DOMAIN setup, NEW j \in DOMAIN setup
        PROVE  (setup[j].query * setup[i].delta) % Order = 1 <=> setup[i].delta = setup[j].delta
    <3> DEFINE x == setup[i].delta
    <3> DEFINE y == setup[j].delta
    <3> DEFINE q == setup[j].query
    <3>1. x \in Unit /\ y \in Unit /\ q \in Unit /\ (y * q) % Order = 1
      BY <1>1, <2>1 DEF SetupInv, Fits, Key
    <3>2. Order \in Nat \ {0, 1}
      BY OfflineAssumption
    <3> HIDE DEF x, y, q
    <3>3. x \in 0 .. Order - 1 /\ y \in 0 .. Order - 1 /\ q \in Nat
      BY <3>1, <3>2 DEF Unit
    <3>4. q * y = y * q
      BY <3>3, SMTT(30)
    <3>5. (q * x) % Order = 1 => x = y
      <4> SUFFICES ASSUME (q * x) % Order = 1 PROVE y = x
        OBVIOUS
      <4> QED BY <3>1, <3>2, <3>3, InverseUnique
    <3>6. x = y => (q * x) % Order = 1
      BY <3>1, <3>4
    <3> QED BY <3>5, <3>6 DEF x, y, q
  <2>3. ASSUME NEW i \in DOMAIN setup, NEW j \in DOMAIN setup, NEW secret \in Secret, NEW nonce \in Nonce,
               NEW to \in Payer, NEW amount \in PayAmounts, NEW asset \in Asset
        PROVE  Verify(setup[i].delta, GenerateProof(setup[j], secret, nonce, to, amount, asset),
                      Circuit(secret, nonce, to, amount, asset))
               <=> setup[i].delta = setup[j].delta
    <3>1. Verify(setup[i].delta, GenerateProof(setup[j], secret, nonce, to, amount, asset),
                 Circuit(secret, nonce, to, amount, asset))
          <=> (setup[j].query * setup[i].delta) % Order = 1
      BY DEF Verify, GenerateProof
    <3> QED BY <2>2, <3>1
  <2>4. \A i \in DOMAIN receipts : /\ VerifyContribution(receipts[i])
                                   /\ receipts[i].old_delta = setup[i].delta
                                   /\ receipts[i].new_delta = setup[i + 1].delta
    BY <1>1, <2>1 DEF SetupInv
  <2> QED BY <2>3, <2>4, Zenon DEF SetupUsable
<1> QED BY <1>1, SetupHolds, PTL

====
