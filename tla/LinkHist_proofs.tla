-------------------------- MODULE LinkHist_proofs --------------------------
(***************************************************************************)
(* Proofs about LinkHist, for every size of the circular array that        *)
(* divides SIZE_MAX + 1, every weight and every history.                   *)
(***************************************************************************)
EXTENDS LinkHist, Extrema

-----------------------------------------------------------------------------
(***************************************************************************)
(* Sums.                                                                   *)
(***************************************************************************)
\* s is the table of the partial sums of d up to n.
Partials(s, d, n) == s = [k \in 0 .. n |-> IF k = 0 THEN 0 ELSE s[k - 1] + d[k]]

\* Such a table exists: the recursion of Sum is well-founded.
LEMMA PartialsExist ==
  ASSUME NEW d
  PROVE  \A n \in Nat : \E s : Partials(s, d, n)
<1> DEFINE S == {n \in Nat : \E s : Partials(s, d, n)}
<1>1. 0 \in S
  <2>1. Partials([k \in 0 .. 0 |-> 0], d, 0)
    BY DEF Partials
  <2> QED  BY <2>1
<1>2. ASSUME NEW n \in Nat, n \in S PROVE n + 1 \in S
  <2>1. PICK s : Partials(s, d, n)
    BY <1>2
  <2> DEFINE t == [k \in 0 .. n + 1 |-> IF k = n + 1 THEN s[n] + d[n + 1] ELSE s[k]]
  <2>2. Partials(t, d, n + 1)
    <3>1. ASSUME NEW k \in 0 .. n + 1 PROVE t[k] = IF k = 0 THEN 0 ELSE t[k - 1] + d[k]
      <4>1. CASE k = n + 1
        BY <4>1
      <4>2. CASE k # n + 1
        <5>1. k \in 0 .. n /\ t[k] = s[k] /\ (k # 0 => t[k - 1] = s[k - 1])
          BY <4>2
        <5>2. s[k] = IF k = 0 THEN 0 ELSE s[k - 1] + d[k]
          BY <2>1, <5>1 DEF Partials
        <5> QED  BY <5>1, <5>2
      <4> QED  BY <4>1, <4>2
    <3>2. DOMAIN t = 0 .. n + 1
      OBVIOUS
    <3>3. t = [k \in 0 .. n + 1 |-> t[k]]
      OBVIOUS
    <3> HIDE DEF t
    <3>4. [k \in 0 .. n + 1 |-> t[k]] = [k \in 0 .. n + 1 |-> IF k = 0 THEN 0 ELSE t[k - 1] + d[k]]
      BY <3>1
    <3> QED  BY <3>3, <3>4 DEF Partials
  <2> HIDE DEF t
  <2> QED  BY <2>2
<1> HIDE DEF S
<1>3. Nat \subseteq S
  BY <1>1, <1>2, SetInduction
<1> QED  BY <1>3 DEF S

\* Two tables agree where both are defined.
LEMMA PartialsAgree ==
  ASSUME NEW d, NEW m \in Nat, NEW n \in Nat, NEW s, NEW t,
         Partials(s, d, m), Partials(t, d, n)
  PROVE  \A k \in Nat : k <= m /\ k <= n => s[k] = t[k]
<1> DEFINE S == {k \in Nat : k <= m /\ k <= n => s[k] = t[k]}
<1>0. /\ \A k \in 0 .. m : s[k] = IF k = 0 THEN 0 ELSE s[k - 1] + d[k]
      /\ \A k \in 0 .. n : t[k] = IF k = 0 THEN 0 ELSE t[k - 1] + d[k]
  BY DEF Partials
<1>1. 0 \in S
  BY <1>0
<1>2. ASSUME NEW k \in Nat, k \in S PROVE k + 1 \in S
  <2> SUFFICES ASSUME k + 1 <= m, k + 1 <= n PROVE s[k + 1] = t[k + 1]
    OBVIOUS
  <2>1. k + 1 \in 0 .. m /\ k + 1 \in 0 .. n /\ k + 1 # 0 /\ (k + 1) - 1 = k
    OBVIOUS
  <2>2. s[k] = t[k]
    BY <1>2
  <2>3. s[k + 1] = s[k] + d[k + 1] /\ t[k + 1] = t[k] + d[k + 1]
    BY <1>0, <2>1
  <2> QED  BY <2>2, <2>3
<1> HIDE DEF S
<1>3. Nat \subseteq S
  BY <1>1, <1>2, SetInduction
<1> QED  BY <1>3 DEF S

\* What Sum is: nothing for no summand, and one more summand at each step.
LEMMA SumUnfolds ==
  ASSUME NEW d, NEW n \in Nat
  PROVE  /\ Sum(d, 0) = 0
         /\ Sum(d, n + 1) = Sum(d, n) + d[n + 1]
<1> DEFINE T(m) == CHOOSE s : Partials(s, d, m)
<1>1. \A m \in Nat : Sum(d, m) = T(m)[m]
  BY DEF Sum, Partials
<1>2. \A m \in Nat : Partials(T(m), d, m)
  BY PartialsExist
<1> HIDE DEF T
<1>3. T(0)[0] = 0
  BY <1>2 DEF Partials
<1>4. T(n + 1)[n + 1] = T(n + 1)[n] + d[n + 1]
  <2>1. Partials(T(n + 1), d, n + 1)
    BY <1>2
  <2> QED  BY <2>1 DEF Partials
<1>5. T(n + 1)[n] = T(n)[n]
  BY <1>2, PartialsAgree
<1> QED  BY <1>1, <1>3, <1>4, <1>5

\* A sum of integers is an integer, and one of natural numbers is not negative.
LEMMA SumType ==
  ASSUME NEW d, NEW n \in Nat, \A i \in 1 .. n : d[i] \in Int
  PROVE  /\ Sum(d, n) \in Int
         /\ (\A i \in 1 .. n : d[i] >= 0) => Sum(d, n) >= 0
<1> DEFINE S == {k \in Nat : k <= n => /\ Sum(d, k) \in Int
                                       /\ (\A i \in 1 .. k : d[i] >= 0) => Sum(d, k) >= 0}
<1>1. 0 \in S
  BY SumUnfolds
<1>2. ASSUME NEW k \in Nat, k \in S PROVE k + 1 \in S
  <2> SUFFICES ASSUME k + 1 <= n
               PROVE  /\ Sum(d, k + 1) \in Int
                      /\ (\A i \in 1 .. k + 1 : d[i] >= 0) => Sum(d, k + 1) >= 0
    OBVIOUS
  <2>1. k <= n /\ k + 1 \in 1 .. n /\ k + 1 \in 1 .. k + 1
    OBVIOUS
  <2>2. Sum(d, k + 1) = Sum(d, k) + d[k + 1]
    BY SumUnfolds
  <2>3. Sum(d, k) \in Int /\ ((\A i \in 1 .. k : d[i] >= 0) => Sum(d, k) >= 0)
    BY <1>2, <2>1
  <2>4. d[k + 1] \in Int
    BY <2>1
  <2> QED  BY <2>1, <2>2, <2>3, <2>4
<1> HIDE DEF S
<1>3. Nat \subseteq S
  BY <1>1, <1>2, SetInduction
<1> QED  BY <1>3 DEF S

\* The summands of d from a + 1 to b add up to a difference of u.
Telescopes(d, u, a, b) == Sum(d, b) - Sum(d, a) = u[b] - u[a]

\* Summands that are differences of a function telescope.
LEMMA SumTelescopes ==
  ASSUME NEW d, NEW u, NEW a \in Nat, NEW b \in Nat, a <= b,
         \A i \in 1 .. b : d[i] \in Int, \A i \in a .. b : u[i] \in Int,
         \A i \in a + 1 .. b : d[i] = u[i] - u[i - 1]
  PROVE  Telescopes(d, u, a, b)
<1> DEFINE S == {k \in Nat : a + k <= b => Sum(d, a + k) - Sum(d, a) = u[a + k] - u[a]}
<1>0. \A k \in 0 .. b : Sum(d, k) \in Int
  BY SumType
<1>1. 0 \in S
  BY <1>0
<1>2. ASSUME NEW k \in Nat, k \in S PROVE k + 1 \in S
  <2> SUFFICES ASSUME a + (k + 1) <= b
               PROVE  Sum(d, a + (k + 1)) - Sum(d, a) = u[a + (k + 1)] - u[a]
    OBVIOUS
  <2> DEFINE m == a + k
  <2>1. m \in 0 .. b /\ m + 1 \in a + 1 .. b /\ a + (k + 1) = m + 1 /\ (m + 1) - 1 = m /\ m \in Nat
        /\ m \in a .. b /\ m + 1 \in a .. b /\ a \in a .. b /\ a \in 0 .. b
    OBVIOUS
  <2>2. Sum(d, m) - Sum(d, a) = u[m] - u[a]
    BY <1>2, <2>1
  <2> HIDE DEF m
  <2>3. Sum(d, m + 1) = Sum(d, m) + d[m + 1]
    BY <2>1, SumUnfolds
  <2>4. d[m + 1] = u[m + 1] - u[m]
    BY <2>1
  <2>5. u[m] \in Int /\ u[m + 1] \in Int /\ u[a] \in Int /\ Sum(d, m) \in Int /\ Sum(d, a) \in Int
    BY <1>0, <2>1
  <2>6. Sum(d, m + 1) - Sum(d, a) = u[m + 1] - u[a]
    BY <2>2, <2>3, <2>4, <2>5
  <2> QED  BY <2>1, <2>6
<1> HIDE DEF S
<1>3. b - a \in S
  <2>1. Nat \subseteq S
    BY <1>1, <1>2, SetInduction
  <2> QED  BY <2>1
<1> QED  BY <1>3 DEF S, Telescopes

\* Summands that are zero add nothing.
LEMMA SumOfZeros ==
  ASSUME NEW d, NEW a \in Nat, NEW b \in Nat, a <= b,
         \A i \in 1 .. b : d[i] \in Int, \A i \in a + 1 .. b : d[i] = 0
  PROVE  Sum(d, b) = Sum(d, a)
<1> DEFINE S == {k \in Nat : a + k <= b => Sum(d, a + k) = Sum(d, a)}
<1>1. 0 \in S
  BY SumType
<1>2. ASSUME NEW k \in Nat, k \in S PROVE k + 1 \in S
  <2> SUFFICES ASSUME a + (k + 1) <= b PROVE Sum(d, a + (k + 1)) = Sum(d, a)
    OBVIOUS
  <2> DEFINE m == a + k
  <2>1. m \in Nat /\ m + 1 \in a + 1 .. b /\ a + (k + 1) = m + 1 /\ m \in 0 .. b
    OBVIOUS
  <2>2. Sum(d, m) = Sum(d, a)
    BY <1>2, <2>1
  <2> HIDE DEF m
  <2>3. Sum(d, m + 1) = Sum(d, m) + d[m + 1] /\ d[m + 1] = 0 /\ Sum(d, m) \in Int
    BY <2>1, SumUnfolds, SumType
  <2> QED  BY <2>1, <2>2, <2>3
<1> HIDE DEF S
<1>3. b - a \in S
  <2>1. Nat \subseteq S
    BY <1>1, <1>2, SetInduction
  <2> QED  BY <2>1
<1> QED  BY <1>3 DEF S

\* Two sums that split a third.
LEMMA SumSplits ==
  ASSUME NEW d, NEW e, NEW f, NEW n \in Nat,
         \A i \in 1 .. n : /\ d[i] \in Int /\ e[i] \in Int
                           /\ f[i] = d[i] + e[i]
  PROVE  Sum(f, n) = Sum(d, n) + Sum(e, n)
<1> DEFINE S == {k \in Nat : k <= n => Sum(f, k) = Sum(d, k) + Sum(e, k)}
<1>1. 0 \in S
  BY SumUnfolds
<1>2. ASSUME NEW k \in Nat, k \in S PROVE k + 1 \in S
  <2> SUFFICES ASSUME k + 1 <= n PROVE Sum(f, k + 1) = Sum(d, k + 1) + Sum(e, k + 1)
    OBVIOUS
  <2>1. k + 1 \in 1 .. n /\ k <= n
    OBVIOUS
  <2>2. /\ Sum(f, k + 1) = Sum(f, k) + f[k + 1]
        /\ Sum(d, k + 1) = Sum(d, k) + d[k + 1]
        /\ Sum(e, k + 1) = Sum(e, k) + e[k + 1]
    BY SumUnfolds
  <2>3. Sum(f, k) = Sum(d, k) + Sum(e, k)
    BY <1>2, <2>1
  <2>4. f[k + 1] = d[k + 1] + e[k + 1] /\ d[k + 1] \in Int /\ e[k + 1] \in Int
    BY <2>1
  <2>5. Sum(d, k) \in Int /\ Sum(e, k) \in Int
    BY <2>1, SumType
  <2> QED  BY <2>2, <2>3, <2>4, <2>5
<1> HIDE DEF S
<1>3. Nat \subseteq S
  BY <1>1, <1>2, SetInduction
<1> QED  BY <1>3 DEF S

-----------------------------------------------------------------------------
(***************************************************************************)
(* Remainders: the indices of the circular array.                          *)
(***************************************************************************)
\* Division with remainder.
LEMMA ModDef ==
  ASSUME NEW a \in Int, NEW b \in Nat \ {0}
  PROVE  \E q, r \in Int : r = a % b /\ r \in 0 .. b - 1 /\ a = q * b + r
<1>1. a = b * (a \div b) + (a % b)
  OBVIOUS
<1>2. a % b \in 0 .. b - 1 /\ a \div b \in Int
  OBVIOUS
<1>3. PICK q \in Int, r \in 0 .. b - 1 : r = a % b /\ a = b * q + r
  BY <1>1, <1>2
<1>4. a = q * b + r /\ r \in Int
  BY <1>3
<1> WITNESS q \in Int, r \in Int
<1> QED  BY <1>3, <1>4

\* A product of natural numbers is one.
LEMMA ProductNatural ==
  ASSUME NEW x \in Nat, NEW b \in Nat
  PROVE  x * b \in Nat
OBVIOUS

\* There is only one remainder.
LEMMA ModUnique ==
  ASSUME NEW q \in Int, NEW b \in Nat \ {0}, NEW r \in 0 .. b - 1
  PROVE  (q * b + r) % b = r
<1> DEFINE a == q * b + r
<1>0. a \in Int
  OBVIOUS
<1>1. PICK p \in Int, s \in 0 .. b - 1 : a = p * b + s /\ s = a % b
  <2> HIDE DEF a
  <2> QED  BY <1>0, ModDef
<1>2. (q - p) * b = s - r
  BY <1>1
<1>3. q - p < 1
  <2> SUFFICES ASSUME q - p >= 1 PROVE FALSE
    BY <1>1
  <2>1. (q - p - 1) * b \in Nat
    BY <1>1, ProductNatural
  <2>2. (q - p) * b = (q - p - 1) * b + b
    BY <1>1
  <2> QED  BY <1>1, <1>2, <2>1, <2>2
<1>4. q - p > -1
  <2> SUFFICES ASSUME p - q >= 1 PROVE FALSE
    BY <1>1
  <2>1. (p - q - 1) * b \in Nat
    BY <1>1, ProductNatural
  <2>2. (p - q) * b = (p - q - 1) * b + b /\ (p - q) * b = r - s
    BY <1>1, <1>2
  <2> QED  BY <1>1, <1>2, <2>1, <2>2
<1>5. q = p
  BY <1>1, <1>3, <1>4
<1> QED  BY <1>1, <1>5

\* Multiples of the divisor do not count.
LEMMA ModShift ==
  ASSUME NEW a \in Int, NEW k \in Int, NEW b \in Nat \ {0}
  PROVE  (a + k * b) % b = a % b
<1>1. PICK q \in Int, r \in 0 .. b - 1 : a = q * b + r /\ r = a % b
  BY ModDef
<1>2. a + k * b = (q + k) * b + r /\ q + k \in Int
  BY <1>1
<1> QED  BY <1>1, <1>2, ModUnique

\* Two indices less than a turn apart are different cells.
LEMMA ModApart ==
  ASSUME NEW a \in Int, NEW j \in Nat, NEW b \in Nat \ {0}, 0 < j, j < b
  PROVE  a % b # (a + j) % b
<1>1. PICK q \in Int, r \in 0 .. b - 1 : a = q * b + r /\ r = a % b
  BY ModDef
<1>2. CASE r + j < b
  <2>1. r + j \in 0 .. b - 1 /\ a + j = q * b + (r + j)
    BY <1>1, <1>2
  <2>2. (a + j) % b = r + j
    BY <2>1, ModUnique
  <2> QED  BY <1>1, <2>2
<1>3. CASE r + j >= b
  <2>1. r + j - b \in 0 .. b - 1 /\ a + j = (q + 1) * b + (r + j - b) /\ q + 1 \in Int
    BY <1>1, <1>3
  <2>2. (a + j) % b = r + j - b
    BY <2>1, ModUnique
  <2> QED  BY <1>1, <2>2
<1> QED  BY <1>1, <1>2, <1>3

\* The next index, as ts_toggle_state computes it.
LEMMA ModNext ==
  ASSUME NEW a \in Int, NEW b \in Nat \ {0}
  PROVE  (a + 1) % b = IF (a % b) + 1 = b THEN 0 ELSE (a % b) + 1
<1>1. PICK q \in Int, r \in 0 .. b - 1 : a = q * b + r /\ r = a % b
  BY ModDef
<1>2. CASE r + 1 = b
  <2>1. a + 1 = (q + 1) * b + 0 /\ q + 1 \in Int /\ 0 \in 0 .. b - 1
    BY <1>1, <1>2
  <2>2. (a + 1) % b = 0
    BY <2>1, ModUnique
  <2> QED  BY <1>1, <1>2, <2>2
<1>3. CASE r + 1 # b
  <2>1. a + 1 = q * b + (r + 1) /\ r + 1 \in 0 .. b - 1
    BY <1>1, <1>3
  <2>2. (a + 1) % b = r + 1
    BY <2>1, ModUnique
  <2> QED  BY <1>1, <1>3, <2>2
<1> QED  BY <1>2, <1>3

\* An index smaller than the divisor is its own remainder.
LEMMA ModSmall ==
  ASSUME NEW b \in Nat \ {0}, NEW r \in 0 .. b - 1
  PROVE  r % b = r
<1>1. (0 * b + r) % b = r
  BY ModUnique
<1> QED  BY <1>1

\* Equal remainders differ by a multiple of the divisor.
LEMMA ModEqual ==
  ASSUME NEW a \in Int, NEW c \in Int, NEW b \in Nat \ {0}, a % b = c % b
  PROVE  \E k \in Int : a = c + k * b
<1>1. PICK p \in Int, r \in Int : r = a % b /\ a = p * b + r
  BY ModDef
<1>2. PICK n \in Int, s \in Int : s = c % b /\ c = n * b + s
  BY ModDef
<1>3. a = c + (p - n) * b /\ p - n \in Int
  BY <1>1, <1>2
<1> QED  BY <1>3

\* A number without remainder is a multiple.
LEMMA ModZero ==
  ASSUME NEW a \in Int, NEW b \in Nat \ {0}, a % b = 0
  PROVE  \E k \in Int : a = k * b
<1>1. PICK p \in Int, r \in Int : r = a % b /\ a = p * b + r
  BY ModDef
<1>2. a = p * b
  BY <1>1
<1> QED  BY <1>2

\* Equal remainders stay equal when the same is taken off both sides.
LEMMA ModMinus ==
  ASSUME NEW a \in Int, NEW c \in Int, NEW d \in Int, NEW b \in Nat \ {0}, a % b = c % b
  PROVE  (a - d) % b = (c - d) % b
<1>1. PICK k \in Int : a = c + k * b
  BY ModEqual
<1>2. a - d = (c - d) + k * b /\ c - d \in Int
  BY <1>1
<1>3. ((c - d) + k * b) % b = (c - d) % b
  BY <1>2, ModShift
<1> QED  BY <1>2, <1>3

\* A remainder of a multiple of b has the same remainder as the whole.
LEMMA ModOfMod ==
  ASSUME NEW a \in Int, NEW b \in Nat \ {0}, NEW M \in Nat \ {0}, NEW k \in Int, M = k * b
  PROVE  (a % M) % b = a % b
<1>1. PICK q \in Int, r \in Int : r = a % M /\ a = q * M + r
  BY ModDef
<1>2. a = r + (q * k) * b /\ q * k \in Int
  BY <1>1
<1>3. (r + (q * k) * b) % b = r % b
  BY <1>1, <1>2, ModShift
<1> QED  BY <1>1, <1>2, <1>3

\* Taking size_t arithmetic modulo TS_SIZE: what wraps at SIZE_MAX + 1 does
\* not show, because TS_SIZE divides it.
LEMMA SizeArithmetic ==
  ASSUME NEW a \in Int, NEW c \in Int, a % TS_SIZE = c % TS_SIZE, NEW d \in Int
  PROVE  Add(a, SIZE_MAX1 - d) % TS_SIZE = (c - d) % TS_SIZE
<1>0. TS_SIZE \in Nat \ {0} /\ SIZE_MAX1 \in Nat \ {0} /\ SIZE_MAX1 \in Int
  BY HistoryAssumption DEF HistoryAssumption
<1>1. PICK k \in Int : SIZE_MAX1 = k * TS_SIZE
  <2>1. SIZE_MAX1 % TS_SIZE = 0
    BY HistoryAssumption DEF HistoryAssumption
  <2> QED  BY <1>0, <2>1, ModZero
<1>2. a + (SIZE_MAX1 - d) = (a - d) + k * TS_SIZE /\ a - d \in Int /\ a + (SIZE_MAX1 - d) \in Int
  BY <1>0, <1>1
<1>3. ((a - d) + k * TS_SIZE) % TS_SIZE = (a - d) % TS_SIZE
  BY <1>0, <1>2, ModShift
<1>4. (a - d) % TS_SIZE = (c - d) % TS_SIZE
  <2>1. \A b \in Nat \ {0} : a % b = c % b => (a - d) % b = (c - d) % b
    BY ModMinus
  <2> QED  BY <1>0, <2>1, Zenon
<1>5. ((a + (SIZE_MAX1 - d)) % SIZE_MAX1) % TS_SIZE = (a + (SIZE_MAX1 - d)) % TS_SIZE
  <2> DEFINE x == a + (SIZE_MAX1 - d)
  <2>1. x \in Int
    BY <1>2
  <2>2. (x % SIZE_MAX1) % TS_SIZE = x % TS_SIZE
    <3> HIDE DEF x
    <3> QED  BY <1>0, <1>1, <2>1, ModOfMod
  <2> QED  BY <2>2
<1> QED  BY <1>2, <1>3, <1>4, <1>5 DEF Add

-----------------------------------------------------------------------------
(***************************************************************************)
(* The inductive invariant.                                                *)
(***************************************************************************)
\* ts_init establishes it.
LEMMA InductiveInit == Init => Inductive
<1> SUFFICES ASSUME Init PROVE Inductive
  OBVIOUS
<1>0. TS_SIZE \in Nat \ {0} /\ MaxClock \in Nat
  BY HistoryAssumption DEF HistoryAssumption
<1>1. TypeOK
  BY <1>0 DEF Init, TypeOK
<1>2. changes = <<0>> /\ Len(changes) = 1 /\ changes[1] = 0 /\ now = 0 /\ changes \in Seq(Nat)
  BY DEF Init
<1>3. ChangesInOrder
  BY <1>2 DEF ChangesInOrder, End
<1>4. 1 % TS_SIZE = IF TS_SIZE = 1 THEN 0 ELSE 1
  <2>1. CASE TS_SIZE = 1
    BY <2>1
  <2>2. CASE TS_SIZE # 1
    <3>1. 1 \in 0 .. TS_SIZE - 1
      BY <1>0, <2>2
    <3> QED  BY <1>0, <2>2, <3>1, ModSmall
  <2> QED  BY <2>1, <2>2
<1>5. (1 - 1) % TS_SIZE \in 0 .. TS_SIZE - 1
  BY <1>0
<1>6. RingHoldsLast
  <2>1. /\ \A c \in 0 .. TS_SIZE - 1 : timestamps[c] = 0
        /\ front = (IF TS_SIZE = 1 THEN 0 ELSE 1) /\ n_states = 1 /\ (full <=> TS_SIZE = 1)
    BY DEF Init
  <2>2. \A i \in 1 .. Len(changes) : timestamps[(i - 1) % TS_SIZE] = changes[i]
    BY <1>2, <1>5, <2>1
  <2> QED  BY <1>0, <1>2, <1>4, <2>1, <2>2 DEF RingHoldsLast
<1>7. LogAlternates
  BY <1>2 DEF Init, LogAlternates, StateOf, End
<1> QED  BY <1>1, <1>3, <1>6, <1>7 DEF Inductive

\* Time passing lengthens the log by the present state.
LEMMA InductiveTick == Inductive /\ Tick => Inductive'
<1> SUFFICES ASSUME Inductive, Tick PROVE Inductive'
  OBVIOUS
<1>0. TS_SIZE \in Nat \ {0} /\ MaxClock \in Nat
  BY HistoryAssumption DEF HistoryAssumption
<1>1. /\ now \in Nat /\ now < MaxClock /\ now' = now + 1
      /\ log' = Append(log, curr_link_state) /\ log \in Seq({"UP", "DOWN"})
      /\ Len(log) = now /\ curr_link_state \in {"UP", "DOWN"}
      /\ changes' = changes /\ UNCHANGED <<timestamps, front, n_states, full, curr_link_state>>
      /\ changes \in Seq(Nat) /\ Len(changes) \in Nat \ {0}
  BY <1>0 DEF Inductive, TypeOK, ChangesInOrder, LogAlternates, Tick, ts
<1>2. /\ log' \in Seq({"UP", "DOWN"}) /\ Len(log') = now + 1
      /\ \A t \in 1 .. now : log'[t] = log[t]
      /\ log'[now + 1] = curr_link_state
  <2>1. /\ log \in Seq({"UP", "DOWN"}) /\ Len(log) = now /\ curr_link_state \in {"UP", "DOWN"}
        /\ log' = Append(log, curr_link_state) /\ now \in Nat
    BY <1>1
  <2> QED  BY <2>1
<1>3. TypeOK'
  BY <1>0, <1>1, <1>2 DEF Inductive, TypeOK
<1>4. \A i \in 1 .. Len(changes) :
        /\ End(i)' = IF i = Len(changes) THEN now + 1 ELSE End(i)
        /\ i = Len(changes) => End(i) = now
        /\ changes[i] \in Nat /\ End(i) \in Nat /\ changes[i] <= End(i) /\ End(i) <= now
  BY <1>1 DEF End, Inductive, ChangesInOrder
<1>5. ChangesInOrder'
  BY <1>1, <1>4 DEF Inductive, ChangesInOrder
<1>6. RingHoldsLast'
  BY <1>1 DEF Inductive, RingHoldsLast
<1>7. ASSUME NEW i \in 1 .. Len(changes), NEW t \in changes[i] + 1 .. End(i)'
      PROVE  log'[t] = StateOf(i)
  <2>1. CASE t <= now
    <3>1. t \in changes[i] + 1 .. End(i) /\ t \in 1 .. now
      BY <1>1, <1>4, <2>1
    <3> QED  BY <1>2, <3>1 DEF Inductive, LogAlternates
  <2>2. CASE t > now
    <3>1. t = now + 1 /\ i = Len(changes)
      BY <1>1, <1>4, <2>2
    <3> QED  BY <1>2, <3>1 DEF Inductive, LogAlternates
  <2> QED  BY <1>1, <1>4, <2>1, <2>2
<1>8. LogAlternates'
  BY <1>1, <1>2, <1>7 DEF Inductive, LogAlternates, StateOf
<1> QED  BY <1>3, <1>5, <1>6, <1>8 DEF Inductive

\* ts_toggle_state puts a change into the oldest cell and flips the state.
LEMMA InductiveToggle == Inductive /\ Toggle => Inductive'
<1> SUFFICES ASSUME Inductive, Toggle, NEW L, L = Len(changes) PROVE Inductive'
  OBVIOUS
<1>0. TS_SIZE \in Nat \ {0} /\ MaxClock \in Nat
  BY HistoryAssumption DEF HistoryAssumption
<1>1. /\ now \in Nat /\ now <= MaxClock /\ now' = now /\ log' = log
      /\ changes' = Append(changes, now) /\ changes \in Seq(Nat) /\ L \in Nat \ {0}
      /\ curr_link_state' = Toggled(curr_link_state) /\ curr_link_state = StateOf(L)
      /\ timestamps' = [timestamps EXCEPT ![front] = now]
      /\ timestamps \in [0 .. TS_SIZE - 1 -> 0 .. MaxClock]
      /\ front \in 0 .. TS_SIZE - 1 /\ front = L % TS_SIZE
      /\ n_states = (IF L < TS_SIZE THEN L ELSE TS_SIZE) /\ (full <=> L >= TS_SIZE)
      /\ log \in Seq({"UP", "DOWN"}) /\ Len(log) = now
  BY <1>0 DEF Inductive, TypeOK, ChangesInOrder, RingHoldsLast, LogAlternates, Toggle
<1>2. /\ changes' \in Seq(Nat) /\ Len(changes') = L + 1 /\ changes'[L + 1] = now
      /\ \A i \in 1 .. L : changes'[i] = changes[i] /\ changes[i] \in Nat
      /\ changes[1] = 0
  BY <1>1 DEF Inductive, ChangesInOrder
<1>2a. /\ \A i \in 1 .. L : End(i) = IF i = L THEN now ELSE changes[i + 1]
       /\ \A i \in 1 .. L : changes[i] <= End(i) /\ End(i) <= now
       /\ \A i \in 1 .. L : i > L - TS_SIZE => timestamps[(i - 1) % TS_SIZE] = changes[i]
       /\ \A i \in 1 .. L : \A t \in changes[i] + 1 .. End(i) : log[t] = StateOf(i)
  BY DEF Inductive, End, ChangesInOrder, RingHoldsLast, LogAlternates
<1>2b. \A i : End(i)' = IF i = L + 1 THEN now ELSE changes'[i + 1]
  BY <1>1, <1>2 DEF End
<1>2c. \A i : StateOf(i)' = StateOf(i)
  BY DEF StateOf
<1>2d. L \in Int /\ L >= 1 /\ now \in Nat /\ now' = now /\ log' = log /\ Len(log) = now
  BY <1>1
<1>3. front' = (L + 1) % TS_SIZE
  <2>1. front' = IF front + 1 = TS_SIZE THEN 0 ELSE front + 1
    BY DEF Toggle
  <2>2. \A b \in Nat \ {0} : (L + 1) % b = IF (L % b) + 1 = b THEN 0 ELSE (L % b) + 1
    BY <1>2d, ModNext
  <2>3. (L + 1) % TS_SIZE = IF (L % TS_SIZE) + 1 = TS_SIZE THEN 0 ELSE (L % TS_SIZE) + 1
    BY <1>0, <2>2, Zenon
  <2> QED  BY <1>1, <2>1, <2>3
<1>4. L < TS_SIZE => front = L
  <2> SUFFICES ASSUME L < TS_SIZE PROVE front = L
    OBVIOUS
  <2>1. L \in 0 .. TS_SIZE - 1
    BY <1>0, <1>1
  <2>2. L % TS_SIZE = L
    BY <1>0, <2>1, ModSmall
  <2> QED  BY <1>1, <2>2
<1>5. full' <=> L + 1 >= TS_SIZE
  <2>1. full' <=> full \/ front + 1 = TS_SIZE
    BY DEF Toggle
  <2>2. (full <=> L >= TS_SIZE) /\ front \in 0 .. TS_SIZE - 1
    BY <1>1
  <2>3. CASE L >= TS_SIZE
    BY <1>0, <1>2d, <2>1, <2>2, <2>3
  <2>4. CASE L < TS_SIZE
    <3>1. full' <=> L + 1 = TS_SIZE
      BY <1>0, <1>2d, <1>4, <2>1, <2>2, <2>4
    <3> QED  BY <1>0, <1>2d, <2>4, <3>1
  <2> QED  BY <1>0, <1>2d, <2>3, <2>4
<1>6. n_states' = IF L + 1 < TS_SIZE THEN L + 1 ELSE TS_SIZE
  <2>1. n_states' = IF full THEN n_states ELSE n_states + 1
    BY DEF Toggle
  <2> QED  BY <1>0, <1>1, <2>1
<1>7. full' \in BOOLEAN
  BY DEF Toggle, Inductive, TypeOK
<1>8. front' \in 0 .. TS_SIZE - 1
  BY <1>0, <1>1, <1>3
<1>9. TypeOK'
  <2>1. timestamps' \in [0 .. TS_SIZE - 1 -> 0 .. MaxClock]
    BY <1>0, <1>1
  <2>2. n_states' \in 1 .. TS_SIZE
    BY <1>0, <1>1, <1>6
  <2>3. curr_link_state' \in {"UP", "DOWN"}
    BY <1>1 DEF Toggled
  <2> QED  BY <1>0, <1>1, <1>7, <1>8, <2>1, <2>2, <2>3 DEF TypeOK
<1>10. /\ End(L + 1)' = now
       /\ \A i \in 1 .. L : End(i)' = End(i)
  <2>1. ASSUME NEW i \in 1 .. L PROVE End(i)' = End(i)
    <3>1. i # L + 1 /\ i \in Int
      BY <1>2d
    <3>2. End(i)' = changes'[i + 1]
      BY <1>2b, <3>1
    <3>3. CASE i = L
      <4>1. End(i) = now
        BY <1>2a, <3>3
      <4> QED  BY <1>2, <3>2, <3>3, <4>1
    <3>4. CASE i # L
      <4>1. i + 1 \in 1 .. L
        BY <1>2d, <3>4
      <4>2. End(i) = changes[i + 1]
        BY <1>2a, <3>4
      <4> QED  BY <1>2, <3>2, <4>1, <4>2
    <3> QED  BY <3>3, <3>4
  <2>2. End(L + 1)' = now
    BY <1>2b
  <2> QED  BY <2>1, <2>2
<1>10a. \A i \in 1 .. L + 1 : i = L + 1 \/ i \in 1 .. L
  BY <1>2d
<1>11. ChangesInOrder'
  <2>1. \A i \in 1 .. L + 1 : changes'[i] <= End(i)' /\ End(i)' <= now'
    <3> SUFFICES ASSUME NEW i \in 1 .. L + 1 PROVE changes'[i] <= End(i)' /\ End(i)' <= now'
      OBVIOUS
    <3>1. CASE i = L + 1
      BY <1>2, <1>2d, <1>10, <3>1
    <3>2. CASE i \in 1 .. L
      <4>1. changes'[i] = changes[i] /\ End(i)' = End(i)
        BY <1>2, <1>10, <3>2
      <4>2. changes[i] <= End(i) /\ End(i) <= now
        BY <1>2a, <3>2
      <4> QED  BY <1>2d, <4>1, <4>2
    <3> QED  BY <1>10a, <3>1, <3>2
  <2>2. changes'[1] = 0 /\ changes' # <<>>
    <3>1. 1 \in 1 .. L /\ L + 1 # 0
      BY <1>2d
    <3>2. changes'[1] = 0
      BY <1>2, <3>1
    <3>3. Len(changes') # 0
      BY <1>2, <3>1
    <3> QED  BY <1>2, <3>2, <3>3
  <2> QED  BY <1>2, <2>1, <2>2 DEF ChangesInOrder
<1>12. ASSUME NEW i \in 1 .. L + 1, i > L + 1 - TS_SIZE
       PROVE  timestamps'[(i - 1) % TS_SIZE] = changes'[i]
  <2>1. CASE i = L + 1
    <3>1. (i - 1) % TS_SIZE = front
      BY <1>1, <2>1
    <3> QED  BY <1>1, <1>2, <2>1, <3>1
  <2>2. CASE i # L + 1
    <3> DEFINE j == L - (i - 1)  k == i - 1
    <3>1. k \in Int /\ j \in Nat /\ 0 < j /\ j < TS_SIZE /\ L = k + j /\ i \in 1 .. L
          /\ i > L - TS_SIZE
      BY <1>0, <1>2d, <1>12, <2>2
    <3>2. k % TS_SIZE # L % TS_SIZE
      <4> HIDE DEF j, k
      <4>1. k % TS_SIZE # (k + j) % TS_SIZE
        BY <1>0, <3>1, ModApart
      <4> QED  BY <3>1, <4>1
    <3>3. k % TS_SIZE \in 0 .. TS_SIZE - 1
      BY <1>0, <3>1
    <3>4. timestamps[k % TS_SIZE] = changes[i]
      BY <1>2a, <3>1
    <3>5. timestamps'[k % TS_SIZE] = timestamps[k % TS_SIZE]
      <4> HIDE DEF k
      <4> QED  BY <1>1, <3>2, <3>3
    <3> QED  BY <1>2, <3>1, <3>4, <3>5
  <2> QED  BY <2>1, <2>2
<1>13. RingHoldsLast'
  <2>1. \A i \in 1 .. L + 1 : i > L + 1 - TS_SIZE => timestamps'[(i - 1) % TS_SIZE] = changes'[i]
    BY <1>12
  <2>2. Len(changes)' = L + 1
    BY <1>2
  <2>3. \A i \in 1 .. Len(changes)' :
          i > Len(changes)' - TS_SIZE => timestamps'[(i - 1) % TS_SIZE] = changes'[i]
    <3> SUFFICES ASSUME NEW i \in 1 .. Len(changes)', i > Len(changes)' - TS_SIZE
                 PROVE  timestamps'[(i - 1) % TS_SIZE] = changes'[i]
      OBVIOUS
    <3>1. i \in 1 .. L + 1 /\ i > L + 1 - TS_SIZE
      BY <1>0, <1>2d, <2>2
    <3> QED  BY <1>12, <3>1
  <2>4. n_states' = IF Len(changes)' < TS_SIZE THEN Len(changes)' ELSE TS_SIZE
    BY <1>6, <2>2, Zenon
  <2>5. (full' <=> Len(changes)' >= TS_SIZE) /\ front' = Len(changes)' % TS_SIZE
    BY <1>3, <1>5, <2>2, Zenon
  <2> QED  BY <2>3, <2>4, <2>5, Zenon DEF RingHoldsLast
<1>14. StateOf(L + 1) = Toggled(StateOf(L))
  <2>1. L % 2 = 1 <=> (L + 1) % 2 # 1
    BY <1>2d
  <2> QED  BY <2>1 DEF StateOf, Toggled
<1>15. \A i \in 1 .. L + 1 : \A t \in changes'[i] + 1 .. End(i)' : log'[t] = StateOf(i)
  <2> SUFFICES ASSUME NEW i \in 1 .. L + 1, NEW t \in changes'[i] + 1 .. End(i)'
               PROVE  log'[t] = StateOf(i)
    OBVIOUS
  <2>1. CASE i = L + 1
    <3>1. changes'[i] = now /\ End(i)' = now
      BY <1>2, <1>10, <2>1
    <3>2. t \in now + 1 .. now
      BY <3>1
    <3> QED  BY <1>2d, <3>2
  <2>2. CASE i \in 1 .. L
    <3>1. changes'[i] = changes[i] /\ End(i)' = End(i)
      BY <1>2, <1>10, <2>2
    <3>2. t \in changes[i] + 1 .. End(i)
      BY <3>1
    <3> QED  BY <1>2a, <1>2d, <2>2, <3>2
  <2> QED  BY <1>10a, <2>1, <2>2
<1>16. LogAlternates'
  BY <1>1, <1>2, <1>2c, <1>14, <1>15 DEF LogAlternates
<1> QED  BY <1>9, <1>11, <1>13, <1>16 DEF Inductive

\* Every step keeps it.
LEMMA InductiveNext == Inductive /\ [Next]_vars => Inductive'
<1>1. Inductive /\ UNCHANGED vars => Inductive'
  BY DEF vars, ts, Inductive, TypeOK, ChangesInOrder, RingHoldsLast, LogAlternates, End, StateOf
<1> QED
  BY <1>1, InductiveTick, InductiveToggle DEF Next, ComputeMetric

\* ts_init and ts_toggle_state keep the array, the log and the changes in step.
THEOREM InductiveInvariant == Spec => []Inductive
<1> QED  BY InductiveInit, InductiveNext, PTL DEF Spec

\* Every variable keeps to its type.
THEOREM TypeCorrect == Spec => []TypeOK
<1>1. Inductive => TypeOK
  BY DEF Inductive
<1> QED  BY <1>1, InductiveInvariant, PTL

-----------------------------------------------------------------------------
(***************************************************************************)
(* What the invariant says of the history.                                 *)
(***************************************************************************)
\* A weight grows with the time.
LEMMA WeightsGrow ==
  ASSUME NEW w \in Weight, NEW a \in 0 .. MaxClock, NEW b \in 0 .. MaxClock, a <= b
  PROVE  w[a] \in Int /\ w[b] \in Int /\ w[a] <= w[b]
<1>0. /\ MaxClock \in Nat
      /\ \A t \in 0 .. MaxClock : w[t] \in Int
      /\ \A t \in 1 .. MaxClock : w[t - 1] <= w[t]
  BY HistoryAssumption DEF HistoryAssumption
<1> DEFINE S == {k \in Nat : a + k <= MaxClock => w[a] <= w[a + k]}
<1>1. 0 \in S
  BY <1>0
<1>2. ASSUME NEW k \in Nat, k \in S PROVE k + 1 \in S
  <2> SUFFICES ASSUME a + (k + 1) <= MaxClock PROVE w[a] <= w[a + (k + 1)]
    OBVIOUS
  <2> DEFINE m == a + (k + 1)
  <2>1. m \in 1 .. MaxClock /\ m - 1 = a + k /\ a + k \in 0 .. MaxClock /\ m \in 0 .. MaxClock
    BY <1>0
  <2>2. w[a] <= w[a + k]
    BY <1>2, <2>1
  <2> HIDE DEF m
  <2>3. w[m - 1] <= w[m]
    BY <1>0, <2>1
  <2>4. w[a] <= w[m]
    BY <1>0, <2>1, <2>2, <2>3
  <2> QED  BY <2>4 DEF m
<1> HIDE DEF S
<1>3. b - a \in S
  <2>1. Nat \subseteq S
    BY <1>1, <1>2, SetInduction
  <2> QED  BY <2>1
<1>4. w[a] <= w[b]
  BY <1>3 DEF S
<1> QED  BY <1>0, <1>4

\* The numbers the proofs below speak of: L changes so far, the oldest one in
\* the array has the number o.
LEMMA Numbers ==
  ASSUME Inductive, NEW L, L = Len(changes), NEW o, o = L - n_states + 1
  PROVE  /\ TS_SIZE \in Nat \ {0} /\ L \in Nat \ {0} /\ now \in 0 .. MaxClock
         /\ n_states \in Nat \ {0} /\ o \in 1 .. L /\ o > L - TS_SIZE
         /\ n_states = L - o + 1
         /\ curr_link_state = StateOf(L)
         /\ \A i \in 1 .. L : changes[i] \in Nat
         /\ Oldest = changes[o]
<1>0. TS_SIZE \in Nat \ {0} /\ MaxClock \in Nat
  BY HistoryAssumption DEF HistoryAssumption
<1>1. /\ changes \in Seq(Nat) /\ L \in Nat \ {0} /\ now \in 0 .. MaxClock
      /\ curr_link_state = StateOf(L)
      /\ \A i \in 1 .. L : changes[i] \in Nat
  BY DEF Inductive, ChangesInOrder, LogAlternates, TypeOK
<1>2. n_states = IF L < TS_SIZE THEN L ELSE TS_SIZE
  BY DEF Inductive, RingHoldsLast
<1>2a. L \in Nat \ {0}
  BY <1>1
<1>3. n_states \in Nat \ {0} /\ o \in 1 .. L /\ o > L - TS_SIZE /\ n_states = L - o + 1
  <2>1. CASE L < TS_SIZE
    <3>1. n_states = L
      BY <1>2, <2>1
    <3> QED  BY <1>0, <1>2a, <2>1, <3>1
  <2>2. CASE ~(L < TS_SIZE)
    <3>1. n_states = TS_SIZE
      BY <1>2, <2>2
    <3> QED  BY <1>0, <1>2a, <2>2, <3>1
  <2> QED  BY <2>1, <2>2
<1>4. o = IF L > TS_SIZE THEN L - TS_SIZE + 1 ELSE 1
  <2>1. L < TS_SIZE => n_states = L
    BY <1>2
  <2>2. ~(L < TS_SIZE) => n_states = TS_SIZE
    BY <1>2
  <2> QED  BY <1>0, <1>2a, <2>1, <2>2
<1>5. Oldest = changes[o]
  BY <1>4 DEF Oldest
<1> QED  BY <1>0, <1>1, <1>3, <1>5

\* The changes are in the order of the clock.
LEMMA Ordered ==
  ASSUME Inductive, NEW L, L = Len(changes),
         NEW i \in 1 .. L, NEW j \in 1 .. L, i <= j
  PROVE  changes[i] <= changes[j] /\ changes[j] \in 0 .. now
<1>0. /\ changes \in Seq(Nat) /\ changes # <<>>
      /\ MaxClock \in Nat /\ now \in 0 .. MaxClock
  BY HistoryAssumption DEF Inductive, ChangesInOrder, TypeOK, HistoryAssumption
<1>1. /\ L \in Nat \ {0} /\ now \in Nat /\ \A k \in 1 .. L : changes[k] \in Nat
  BY <1>0
<1>2. \A k \in 1 .. L : changes[k] <= End(k) /\ End(k) <= now
  BY DEF Inductive, ChangesInOrder
<1>3. \A k \in 1 .. L : k # L => End(k) = changes[k + 1]
  BY DEF End
<1>4. \A k \in 1 .. L : changes[k] \in 0 .. now
  <2> SUFFICES ASSUME NEW k \in 1 .. L PROVE changes[k] \in 0 .. now
    OBVIOUS
  <2>1. CASE k = L
    <3>1. End(k) = now
      BY <2>1 DEF End
    <3> QED  BY <1>1, <1>2, <3>1
  <2>2. CASE k # L
    <3>1. k + 1 \in 1 .. L /\ End(k) = changes[k + 1]
      BY <1>1, <1>3, <2>2
    <3> QED  BY <1>1, <1>2, <3>1
  <2> QED  BY <2>1, <2>2
<1> DEFINE S == {k \in Nat : i + k <= L => changes[i] <= changes[i + k]}
<1>5. 0 \in S
  BY <1>1
<1>6. ASSUME NEW k \in Nat, k \in S PROVE k + 1 \in S
  <2> SUFFICES ASSUME i + (k + 1) <= L PROVE changes[i] <= changes[i + (k + 1)]
    OBVIOUS
  <2> DEFINE m == i + k
  <2>1. m \in 1 .. L /\ m + 1 \in 1 .. L /\ m # L /\ m + 1 = i + (k + 1)
    BY <1>1
  <2>2. changes[i] <= changes[m]
    BY <1>6, <2>1
  <2> HIDE DEF m
  <2>3. changes[m] <= changes[m + 1]
    BY <1>2, <1>3, <2>1
  <2>4. changes[i] <= changes[m + 1]
    BY <1>1, <2>1, <2>2, <2>3
  <2> QED  BY <2>1, <2>4
<1> HIDE DEF S
<1>7. j - i \in S
  <2>1. Nat \subseteq S
    BY <1>5, <1>6, SetInduction
  <2> QED  BY <1>1, <2>1
<1>8. changes[i] <= changes[j]
  BY <1>1, <1>7 DEF S
<1> QED  BY <1>4, <1>8

\* FirstIdx is the cell of the last change.
LEMMA FirstCell ==
  ASSUME Inductive, NEW L, L = Len(changes)
  PROVE  /\ FirstIdx \in Int
         /\ FirstIdx % TS_SIZE = (L - 1) % TS_SIZE
         /\ timestamps[FirstIdx] = changes[L]
<1>0. TS_SIZE \in Nat \ {0} /\ L \in Nat \ {0}
  BY Numbers
<1>1. front \in Int /\ front % TS_SIZE = L % TS_SIZE
  <2>1. front \in 0 .. TS_SIZE - 1 /\ front = L % TS_SIZE
    BY DEF Inductive, TypeOK, RingHoldsLast
  <2>2. front % TS_SIZE = front
    BY <1>0, <2>1, ModSmall
  <2> QED  BY <1>0, <2>1, <2>2
<1>2. FirstIdx = (L - 1) % TS_SIZE
  <2>1. \A a, c \in Int : a % TS_SIZE = c % TS_SIZE
                            => Add(a, SIZE_MAX1 - 1) % TS_SIZE = (c - 1) % TS_SIZE
    BY SizeArithmetic
  <2>2. L \in Int
    BY <1>0
  <2> QED  BY <1>1, <2>1, <2>2, Zenon DEF FirstIdx
<1>3. (L - 1) % TS_SIZE \in 0 .. TS_SIZE - 1
  BY <1>0
<1>4. ((L - 1) % TS_SIZE) % TS_SIZE = (L - 1) % TS_SIZE
  <2>1. \A b \in Nat \ {0} : \A r \in 0 .. b - 1 : r % b = r
    BY ModSmall
  <2> QED  BY <1>0, <1>3, <2>1, Zenon
<1>5. timestamps[(L - 1) % TS_SIZE] = changes[L]
  <2>1. \A i \in 1 .. L : i > L - TS_SIZE => timestamps[(i - 1) % TS_SIZE] = changes[i]
    BY DEF Inductive, RingHoldsLast
  <2>2. L \in 1 .. L /\ L > L - TS_SIZE
    BY <1>0
  <2> QED  BY <2>1, <2>2, Zenon
<1>6. FirstIdx \in Int
  BY <1>2, <1>3
<1> QED  BY <1>2, <1>4, <1>5, <1>6

\* The cells the loop of ts_average_uptime reads are those of the changes
\* before, two for each turn.
LEMMA LoopCells ==
  ASSUME Inductive, NEW L, L = Len(changes), NEW o, o = L - n_states + 1,
         NEW k \in Nat, NEW d \in Nat, L - 2 * k - d >= o
  PROVE  timestamps[Back(k, d)] = changes[L - 2 * k - d]
<1>0. TS_SIZE \in Nat \ {0} /\ L \in Nat \ {0} /\ o \in 1 .. L /\ o > L - TS_SIZE
  BY Numbers
<1>1. SIZE_MAX1 \in Int
  BY HistoryAssumption DEF HistoryAssumption
<1> DEFINE e == 2 * k + d
<1>2. /\ e \in Nat /\ SIZE_MAX1 - 2 * k - d = SIZE_MAX1 - e /\ L - 2 * k - d = L - e
      /\ L - 1 \in Int /\ L - 1 - e = L - e - 1
  BY <1>0, <1>1
<1>3. Back(k, d) = (L - e - 1) % TS_SIZE
  <2>1. \A a, c \in Int : \A x \in Nat : a % TS_SIZE = c % TS_SIZE
                            => Add(a, SIZE_MAX1 - x) % TS_SIZE = (c - x) % TS_SIZE
    BY SizeArithmetic
  <2>2. FirstIdx \in Int /\ FirstIdx % TS_SIZE = (L - 1) % TS_SIZE
    BY FirstCell
  <2> HIDE DEF e
  <2>3. Add(FirstIdx, SIZE_MAX1 - e) % TS_SIZE = (L - 1 - e) % TS_SIZE
    BY <1>2, <2>1, <2>2, Zenon
  <2> QED  BY <1>2, <2>3, Zenon DEF Back
<1>4. L - e \in 1 .. L /\ L - e > L - TS_SIZE
  BY <1>0, <1>2
<1>5. timestamps[(L - e - 1) % TS_SIZE] = changes[L - e]
  <2>1. \A i \in 1 .. L : i > L - TS_SIZE => timestamps[(i - 1) % TS_SIZE] = changes[i]
    BY DEF Inductive, RingHoldsLast
  <2> HIDE DEF e
  <2> QED  BY <1>4, <2>1, Zenon
<1> QED  BY <1>2, <1>3, <1>5, Zenon

\* LastIdx is the cell of the oldest change the array holds.
LEMMA LastCell ==
  ASSUME Inductive
  PROVE  timestamps[LastIdx] = Oldest
<1> SUFFICES ASSUME NEW L, L = Len(changes), NEW o, o = L - n_states + 1
             PROVE  timestamps[LastIdx] = Oldest
  OBVIOUS
<1>0. /\ TS_SIZE \in Nat \ {0} /\ L \in Nat \ {0} /\ o \in 1 .. L /\ o > L - TS_SIZE
      /\ Oldest = changes[o]
  BY Numbers
<1>1. /\ n_states = (IF L < TS_SIZE THEN L ELSE TS_SIZE) /\ (full <=> L >= TS_SIZE)
      /\ front = L % TS_SIZE
  BY DEF Inductive, RingHoldsLast
<1>2. timestamps[(o - 1) % TS_SIZE] = changes[o]
  BY <1>0 DEF Inductive, RingHoldsLast
<1>3. LastIdx = (o - 1) % TS_SIZE
  <2>1. CASE L < TS_SIZE
    <3>1. o = 1 /\ ~full
      BY <1>0, <1>1, <2>1
    <3>2. 0 \in 0 .. TS_SIZE - 1
      BY <1>0
    <3>3. 0 % TS_SIZE = 0
      BY <1>0, <3>2, ModSmall
    <3> QED  BY <3>1, <3>3 DEF LastIdx
  <2>2. CASE L >= TS_SIZE
    <3>1. o - 1 = L - TS_SIZE /\ full
      <4>1. n_states = TS_SIZE /\ full
        <5>1. ~(L < TS_SIZE)
          BY <1>0, <2>2
        <5> QED  BY <1>1, <2>2, <5>1
      <4> QED  BY <1>0, <4>1
    <3>2. (L - TS_SIZE) % TS_SIZE = L % TS_SIZE
      <4>1. L - TS_SIZE \in Int /\ 1 \in Int /\ L - TS_SIZE + 1 * TS_SIZE = L
        BY <1>0
      <4>2. \A a, j \in Int : \A b \in Nat \ {0} : (a + j * b) % b = a % b
        BY ModShift
      <4>3. (L - TS_SIZE + 1 * TS_SIZE) % TS_SIZE = (L - TS_SIZE) % TS_SIZE
        BY <1>0, <4>1, <4>2, Zenon
      <4> QED  BY <4>1, <4>3
    <3>3. (L % TS_SIZE) % TS_SIZE = L % TS_SIZE
      <4>1. \A b \in Nat \ {0} : \A r \in 0 .. b - 1 : r % b = r
        BY ModSmall
      <4>2. L % TS_SIZE \in 0 .. TS_SIZE - 1
        BY <1>0
      <4> QED  BY <1>0, <4>1, <4>2, Zenon
    <3> QED  BY <1>1, <3>1, <3>2, <3>3, Zenon DEF LastIdx
  <2> QED  BY <1>0, <2>1, <2>2
<1> QED  BY <1>0, <1>2, <1>3

\* Between two changes the link had one state: the log adds the whole
\* interval to the time spent in that state, and nothing to the other.
LEMMA IntervalAdds ==
  ASSUME Inductive, NEW L, L = Len(changes), NEW o, o = L - n_states + 1,
         NEW w \in Weight, NEW st, NEW g, g = Gained(w, st), NEW i \in o .. L
  PROVE  /\ changes[i] - Oldest \in Nat /\ End(i) - Oldest \in Nat
         /\ changes[i] - Oldest <= End(i) - Oldest /\ End(i) <= now
         /\ Sum(g, changes[i] - Oldest) \in Int /\ Sum(g, End(i) - Oldest) \in Int
         /\ StateOf(i) = st => Sum(g, End(i) - Oldest) - Sum(g, changes[i] - Oldest)
                                 = w[End(i)] - w[changes[i]]
         /\ StateOf(i) # st => Sum(g, End(i) - Oldest) = Sum(g, changes[i] - Oldest)
<1>0. /\ L \in Nat \ {0} /\ o \in 1 .. L /\ Oldest = changes[o] /\ now \in 0 .. MaxClock
      /\ MaxClock \in Nat
  BY Numbers, HistoryAssumption DEF HistoryAssumption
<1> DEFINE A == Oldest  p == changes[i] - A  q == End(i) - A  T == now - A
<1>1. i \in 1 .. L /\ o <= i
  BY <1>0
<1>2. A \in Nat /\ changes[i] \in Nat /\ A <= changes[i] /\ A <= now
  BY <1>0, <1>1, Ordered
<1>3. changes[i] <= End(i) /\ End(i) <= now
  BY <1>1 DEF Inductive, ChangesInOrder
<1>4. End(i) \in Nat
  <2>1. CASE i = L
    BY <1>0, <2>1 DEF End
  <2>2. CASE i # L
    <3>1. End(i) = changes[i + 1] /\ i + 1 \in 1 .. L
      BY <1>0, <1>1, <2>2 DEF End
    <3> QED  BY <3>1, Numbers
  <2> QED  BY <2>1, <2>2
<1>5. p \in Nat /\ q \in Nat /\ T \in Nat /\ p <= q /\ q <= T
  BY <1>0, <1>2, <1>3, <1>4
<1>6. \A t \in changes[i] + 1 .. End(i) : log[t] = StateOf(i)
  BY <1>1 DEF Inductive, LogAlternates
<1> DEFINE u == [t \in 0 .. T |-> w[A + t]]
<1>7. \A t \in 0 .. T : A + t \in 0 .. MaxClock /\ u[t] = w[A + t] /\ u[t] \in Int
  <2>1. \A t \in 0 .. T : A + t \in 0 .. MaxClock
    BY <1>0, <1>2
  <2>2. \A x \in 0 .. MaxClock : w[x] \in Int
    BY HistoryAssumption DEF HistoryAssumption
  <2> QED  BY <2>1, <2>2
<1>8. \A t \in 1 .. T : g[t] = IF log[A + t] = st THEN u[t] - u[t - 1] ELSE 0
  <2> SUFFICES ASSUME NEW t \in 1 .. T
               PROVE  g[t] = IF log[A + t] = st THEN u[t] - u[t - 1] ELSE 0
    OBVIOUS
  <2>1. g[t] = IF log[A + t] = st THEN w[A + t] - w[A + t - 1] ELSE 0
    BY DEF Gained
  <2>2. t \in 0 .. T /\ t - 1 \in 0 .. T /\ A + (t - 1) = A + t - 1
    BY <1>2, <1>5
  <2>3. u[t] = w[A + t] /\ u[t - 1] = w[A + t - 1]
    BY <1>7, <2>2
  <2> QED  BY <2>1, <2>3
<1> HIDE DEF u
<1>9. \A t \in 1 .. T : g[t] \in Int
  <2> SUFFICES ASSUME NEW t \in 1 .. T PROVE g[t] \in Int
    OBVIOUS
  <2>1. t \in 0 .. T /\ t - 1 \in 0 .. T
    BY <1>5
  <2> QED  BY <1>7, <1>8, <2>1
<1>10. \A t \in p + 1 .. q : t \in 1 .. T /\ log[A + t] = StateOf(i)
  <2> SUFFICES ASSUME NEW t \in p + 1 .. q PROVE t \in 1 .. T /\ log[A + t] = StateOf(i)
    OBVIOUS
  <2>1. t \in 1 .. T /\ A + t \in changes[i] + 1 .. End(i)
    <3>1. A + p = changes[i] /\ A + q = End(i)
      BY <1>2, <1>4
    <3> HIDE DEF A, p, q, T
    <3>2. t \in 1 .. T /\ A + t \in (A + p) + 1 .. A + q
      BY <1>2, <1>5
    <3> QED  BY <3>1, <3>2
  <2> QED  BY <1>6, <2>1
<1>11. u[p] = w[changes[i]] /\ u[q] = w[End(i)]
  <2>1. p \in 0 .. T /\ q \in 0 .. T /\ A + p = changes[i] /\ A + q = End(i)
    BY <1>2, <1>4, <1>5
  <2> QED  BY <1>7, <2>1
<1> HIDE DEF A, p, q, T
<1>12. (\A t \in 1 .. p : g[t] \in Int) /\ (\A t \in 1 .. q : g[t] \in Int)
  BY <1>5, <1>9
<1>13. Sum(g, p) \in Int /\ Sum(g, q) \in Int
  BY <1>5, <1>12, SumType
<1>14. ASSUME StateOf(i) = st PROVE Sum(g, q) - Sum(g, p) = u[q] - u[p]
  <2>1. \A t \in p + 1 .. q : g[t] = u[t] - u[t - 1]
    BY <1>8, <1>10, <1>14
  <2>2. \A t \in p .. q : u[t] \in Int
    BY <1>5, <1>7
  <2>3. \A t \in 1 .. q : g[t] \in Int
    BY <1>12
  <2>4. p \in Nat /\ q \in Nat /\ p <= q
    BY <1>5
  <2>5. Telescopes(g, u, p, q)
    BY <2>1, <2>2, <2>3, <2>4, SumTelescopes, Zenon
  <2> QED  BY <2>5 DEF Telescopes
<1>15. ASSUME StateOf(i) # st PROVE Sum(g, q) = Sum(g, p)
  <2>1. \A t \in p + 1 .. q : g[t] = 0
    BY <1>8, <1>10, <1>15
  <2> QED  BY <1>5, <1>12, <2>1, SumOfZeros
<1> QED  BY <1>3, <1>5, <1>11, <1>13, <1>14, <1>15 DEF A, p, q, T

\* Every second change left the link in the state it is in now.
LEMMA EverySecond ==
  ASSUME NEW L \in Int, NEW k \in Int
  PROVE  /\ StateOf(L - 2 * k) = StateOf(L)
         /\ StateOf(L - 2 * k - 1) # StateOf(L)
<1>1. (L - 2 * k) % 2 = L % 2
  OBVIOUS
<1>2. (L - 2 * k - 1) % 2 = 1 <=> L % 2 # 1
  OBVIOUS
<1> QED  BY <1>1, <1>2 DEF StateOf

\* Each turn of the loop adds what the log says of the two intervals between
\* the cells it reads and those of the turn before.
LEMMA RoundAdds ==
  ASSUME Inductive, NEW L, L = Len(changes), NEW o, o = L - n_states + 1,
         NEW w \in Weight, NEW g, g = Gained(w, curr_link_state),
         NEW k \in Nat, k + 1 <= Rounds
  PROVE  /\ Round(w)[k + 1] \in Int
         /\ Sum(g, changes[L - 2 * k] - Oldest) \in Int
         /\ Sum(g, changes[L - 2 * (k + 1)] - Oldest) \in Int
         /\ Round(w)[k + 1] = Sum(g, changes[L - 2 * k] - Oldest)
                                - Sum(g, changes[L - 2 * (k + 1)] - Oldest)
<1>0. /\ L \in Nat \ {0} /\ o \in 1 .. L /\ n_states \in Nat \ {0} /\ n_states = L - o + 1
      /\ curr_link_state = StateOf(L) /\ now \in 0 .. MaxClock /\ MaxClock \in Nat
  BY Numbers, HistoryAssumption DEF HistoryAssumption
<1> DEFINE i == L - 2 * (k + 1)  j == L - 2 * k - 1
<1>1. 2 * (k + 1) <= n_states - 1
  <2>1. Rounds * 2 <= n_states - 1 /\ Rounds \in Nat
    BY <1>0 DEF Rounds
  <2> QED  BY <1>0, <2>1
<1>2. /\ i \in o .. L /\ j \in o .. L /\ i \in Int /\ i # L /\ j # L
      /\ i + 1 = j /\ j + 1 = L - 2 * k
      /\ L - 2 * k - 1 = j /\ L - 2 * k - 2 = i
  BY <1>0, <1>1
<1>3. End(i) = changes[j] /\ End(j) = changes[L - 2 * k]
  BY <1>2 DEF End
<1>4. StateOf(i) = curr_link_state /\ StateOf(j) # curr_link_state
  <2>1. k \in Int /\ k + 1 \in Int /\ L \in Int
    BY <1>0
  <2>2. StateOf(L - 2 * (k + 1)) = StateOf(L) /\ StateOf(L - 2 * k - 1) # StateOf(L)
    BY <2>1, EverySecond
  <2> QED  BY <1>0, <2>2
<1>5. Round(w)[k + 1] = w[changes[j]] - w[changes[i]]
  <2>1. k + 1 \in 1 .. Rounds /\ (k + 1) - 1 = k
    BY <1>0 DEF Rounds
  <2>2. Round(w)[k + 1] = w[timestamps[Back(k, 1)]] - w[timestamps[Back(k, 2)]]
    BY <2>1 DEF Round
  <2>3. timestamps[Back(k, 1)] = changes[L - 2 * k - 1]
    <3>1. 1 \in Nat /\ L - 2 * k - 1 >= o
      BY <1>0, <1>2
    <3> QED  BY <3>1, LoopCells
  <2>4. timestamps[Back(k, 2)] = changes[L - 2 * k - 2]
    <3>1. 2 \in Nat /\ L - 2 * k - 2 >= o
      BY <1>0, <1>2
    <3> QED  BY <3>1, LoopCells
  <2> QED  BY <1>2, <2>2, <2>3, <2>4
<1> HIDE DEF i, j
<1>6. /\ Sum(g, changes[i] - Oldest) \in Int /\ Sum(g, changes[j] - Oldest) \in Int
      /\ Sum(g, changes[j] - Oldest) - Sum(g, changes[i] - Oldest) = w[changes[j]] - w[changes[i]]
  <2>1. /\ Sum(g, changes[i] - Oldest) \in Int /\ Sum(g, End(i) - Oldest) \in Int
        /\ Sum(g, End(i) - Oldest) - Sum(g, changes[i] - Oldest) = w[End(i)] - w[changes[i]]
    BY <1>2, <1>4, IntervalAdds
  <2> QED  BY <1>3, <2>1
<1>7. /\ Sum(g, changes[L - 2 * k] - Oldest) = Sum(g, changes[j] - Oldest)
  BY <1>2, <1>3, <1>4, IntervalAdds
<1>8. w[changes[j]] \in Int /\ w[changes[i]] \in Int
  <2>1. \A x \in o .. L : changes[x] \in 0 .. MaxClock
    <3> SUFFICES ASSUME NEW x \in o .. L PROVE changes[x] \in 0 .. MaxClock
      OBVIOUS
    <3>1. x \in 1 .. L /\ x <= x
      BY <1>0
    <3>2. changes[x] \in 0 .. now
      BY <3>1, Ordered
    <3> QED  BY <1>0, <3>2
  <2>2. \A x \in 0 .. MaxClock : w[x] \in Int
    BY HistoryAssumption DEF HistoryAssumption
  <2> QED  BY <1>2, <2>1, <2>2
<1>9. changes[L - 2 * (k + 1)] = changes[i]
  BY DEF i
<1> QED  BY <1>5, <1>6, <1>7, <1>8, <1>9

\* The sum ts_average_uptime forms is the time the log tells in the present
\* state since the oldest change of the array.
LEMMA SameFollowsLog ==
  ASSUME Inductive, NEW w \in Weight
  PROVE  /\ Same(w) = Sum(Gained(w, curr_link_state), now - Oldest)
         /\ Same(w) \in Int
         /\ \A k \in 1 .. Rounds : Round(w)[k] \in Int
<1> SUFFICES ASSUME NEW L, L = Len(changes), NEW o, o = L - n_states + 1,
                    NEW g, g = Gained(w, curr_link_state)
             PROVE  /\ Same(w) = Sum(g, now - Oldest) /\ Same(w) \in Int
                    /\ \A k \in 1 .. Rounds : Round(w)[k] \in Int
  OBVIOUS
<1>0. /\ L \in Nat \ {0} /\ o \in 1 .. L /\ n_states \in Nat \ {0} /\ n_states = L - o + 1
      /\ curr_link_state = StateOf(L) /\ Oldest = changes[o]
  BY Numbers
<1>1. Rounds \in Nat /\ (2 * Rounds = n_states - 1 \/ 2 * Rounds = n_states - 2)
  BY <1>0 DEF Rounds
<1>2. L \in o .. L /\ End(L) = now
  BY <1>0 DEF End
<1> DEFINE F == w[now] - w[timestamps[FirstIdx]]  R == Round(w)
           top == Sum(g, now - Oldest)  at(i) == Sum(g, changes[i] - Oldest)
<1>3. /\ top \in Int /\ at(L) \in Int /\ top - at(L) = F
  <2>1. timestamps[FirstIdx] = changes[L]
    BY FirstCell
  <2>2. /\ Sum(g, changes[L] - Oldest) \in Int /\ Sum(g, End(L) - Oldest) \in Int
        /\ Sum(g, End(L) - Oldest) - Sum(g, changes[L] - Oldest) = w[End(L)] - w[changes[L]]
    BY <1>0, <1>2, IntervalAdds
  <2> QED  BY <1>2, <2>1, <2>2
<1>4. \A k \in Nat : k + 1 <= Rounds =>
        /\ R[k + 1] \in Int /\ at(L - 2 * k) \in Int /\ at(L - 2 * (k + 1)) \in Int
        /\ R[k + 1] = at(L - 2 * k) - at(L - 2 * (k + 1))
  BY RoundAdds
<1>5. \A k \in 1 .. Rounds : R[k] \in Int
  <2> SUFFICES ASSUME NEW k \in 1 .. Rounds PROVE R[k] \in Int
    OBVIOUS
  <2>1. k - 1 \in Nat /\ (k - 1) + 1 = k /\ (k - 1) + 1 <= Rounds
    BY <1>1
  <2>2. R[(k - 1) + 1] \in Int
    BY <1>4, <2>1
  <2> HIDE DEF R
  <2> QED  BY <2>1, <2>2
<1> HIDE DEF F, R, top, at
<1> DEFINE S == {k \in Nat : k <= Rounds => /\ at(L - 2 * k) \in Int /\ Sum(R, k) \in Int
                                            /\ F + Sum(R, k) = top - at(L - 2 * k)}
<1>6. 0 \in S
  <2>1. L - 2 * 0 = L /\ Sum(R, 0) = 0
    BY <1>0, SumUnfolds
  <2>2. F + 0 = top - at(L)
    BY <1>3
  <2> QED  BY <1>3, <2>1, <2>2
<1>7. ASSUME NEW k \in Nat, k \in S PROVE k + 1 \in S
  <2> SUFFICES ASSUME k + 1 <= Rounds
               PROVE  /\ at(L - 2 * (k + 1)) \in Int /\ Sum(R, k + 1) \in Int
                      /\ F + Sum(R, k + 1) = top - at(L - 2 * (k + 1))
    OBVIOUS
  <2>1. at(L - 2 * k) \in Int /\ Sum(R, k) \in Int /\ F + Sum(R, k) = top - at(L - 2 * k)
    BY <1>1, <1>7
  <2>2. Sum(R, k + 1) = Sum(R, k) + R[k + 1]
    BY SumUnfolds
  <2>3. /\ R[k + 1] \in Int /\ at(L - 2 * (k + 1)) \in Int
        /\ R[k + 1] = at(L - 2 * k) - at(L - 2 * (k + 1))
    BY <1>4
  <2>4. F \in Int
    BY <1>3
  <2>5. top \in Int
    BY <1>3
  <2>6. Sum(R, k + 1) \in Int
    BY <2>1, <2>2, <2>3
  <2>7. F + Sum(R, k + 1) = top - at(L - 2 * (k + 1))
    <3> DEFINE s0 == Sum(R, k)  s1 == Sum(R, k + 1)  x == R[k + 1]
               a0 == at(L - 2 * k)  a1 == at(L - 2 * (k + 1))
    <3>1. /\ s0 \in Int /\ x \in Int /\ a0 \in Int /\ a1 \in Int
          /\ F + s0 = top - a0 /\ s1 = s0 + x /\ x = a0 - a1
      BY <2>1, <2>2, <2>3
    <3> HIDE DEF s0, s1, x, a0, a1
    <3>2. F + s1 = top - a1
      BY <2>4, <2>5, <3>1
    <3> QED  BY <3>2 DEF s1, a1
  <2> QED  BY <2>3, <2>6, <2>7
<1> HIDE DEF S
<1>8. Rounds \in S
  <2>1. Nat \subseteq S
    BY <1>6, <1>7, SetInduction
  <2> QED  BY <1>1, <2>1
<1>9. /\ at(L - 2 * Rounds) \in Int /\ Sum(R, Rounds) \in Int
      /\ F + Sum(R, Rounds) = top - at(L - 2 * Rounds)
  BY <1>1, <1>8 DEF S
<1>10. at(o) = 0
  <2>1. changes[o] - Oldest = 0
    <3>1. changes[o] \in Int
      BY <1>0, Numbers
    <3> QED  BY <1>0, <3>1
  <2> QED  BY <2>1, SumUnfolds DEF at
<1>11. at(L - 2 * Rounds) = 0
  <2>1. CASE 2 * Rounds = n_states - 1
    <3>1. L - 2 * Rounds = o
      BY <1>0, <1>1, <2>1
    <3> QED  BY <1>10, <3>1
  <2>2. CASE 2 * Rounds = n_states - 2
    <3>1. L - 2 * Rounds = o + 1 /\ o + 1 \in 1 .. L /\ o \in o .. L /\ o # L
          /\ L - 2 * Rounds - 1 = o
      BY <1>0, <1>1, <2>2
    <3>2. End(o) = changes[o + 1]
      BY <3>1 DEF End
    <3>3. StateOf(o) # curr_link_state
      <4>1. L \in Int /\ Rounds \in Int
        BY <1>0, <1>1
      <4>2. StateOf(L - 2 * Rounds - 1) # StateOf(L)
        BY <4>1, EverySecond
      <4> QED  BY <1>0, <3>1, <4>2
    <3>4. Sum(g, End(o) - Oldest) = Sum(g, changes[o] - Oldest)
      BY <3>1, <3>3, IntervalAdds
    <3>5. at(o + 1) = at(o)
      BY <3>2, <3>4 DEF at
    <3> QED  BY <1>10, <3>1, <3>5
  <2> QED  BY <1>1, <2>1, <2>2
<1>12. Same(w) = F + Sum(R, Rounds)
  BY DEF Same, F, R
<1>13. Same(w) = top /\ top \in Int
  BY <1>3, <1>9, <1>11, <1>12
<1> QED  BY <1>5, <1>13 DEF R, top

\* With the DOWN time turned into UP time, the numerator is the time the log
\* tells the link was UP, and it is not negative.
LEMMA SummationFollowsLog ==
  ASSUME Inductive, NEW w \in Weight
  PROVE  /\ Summation(w) = UpTime(w) /\ Summation(w) \in Int /\ Summation(w) >= 0
         /\ Total(w) = w[now] - w[Oldest]
<1> DEFINE A == Oldest  T == now - A  c == curr_link_state
           up == Gained(w, "UP")  dn == Gained(w, "DOWN")
           u == [t \in 0 .. T |-> w[A + t]]
           all == [t \in 1 .. T |-> u[t] - u[t - 1]]
<1>0. c \in {"UP", "DOWN"} /\ now \in 0 .. MaxClock /\ MaxClock \in Nat /\ log \in Seq({"UP", "DOWN"})
      /\ Len(log) = now
  BY HistoryAssumption DEF HistoryAssumption, Inductive, TypeOK, LogAlternates
<1>1. A \in 0 .. now
  <2> SUFFICES ASSUME NEW L, L = Len(changes), NEW o, o = L - n_states + 1 PROVE A \in 0 .. now
    OBVIOUS
  <2>1. o \in 1 .. L /\ A = changes[o] /\ o <= o
    BY Numbers
  <2>2. changes[o] \in 0 .. now
    BY <2>1, Ordered
  <2> QED  BY <2>1, <2>2
<1>2. T \in Nat /\ A \in Nat /\ A + T = now
  BY <1>0, <1>1
<1>3. Same(w) = Sum(Gained(w, c), T) /\ Same(w) \in Int
  BY SameFollowsLog
<1>4. Total(w) = w[now] - w[A]
  BY LastCell DEF Total
<1>5. /\ \A t \in 0 .. T : u[t] = w[A + t] /\ u[t] \in Int
      /\ \A t \in 1 .. T : u[t] - u[t - 1] >= 0
  <2>1. \A x \in 0 .. MaxClock : w[x] \in Int
    BY HistoryAssumption DEF HistoryAssumption
  <2>2. \A x \in 1 .. MaxClock : w[x - 1] <= w[x]
    BY HistoryAssumption DEF HistoryAssumption
  <2>3. \A t \in 0 .. T : u[t] = w[A + t] /\ u[t] \in Int
    <3>1. \A t \in 0 .. T : A + t \in 0 .. MaxClock
      BY <1>0, <1>2
    <3> QED  BY <2>1, <3>1
  <2>4. ASSUME NEW t \in 1 .. T PROVE u[t] - u[t - 1] >= 0
    <3>1. t \in 0 .. T /\ t - 1 \in 0 .. T /\ A + t \in 1 .. MaxClock /\ A + (t - 1) = A + t - 1
      BY <1>0, <1>2
    <3>2. u[t] = w[A + t] /\ u[t - 1] = w[A + t - 1] /\ u[t] \in Int /\ u[t - 1] \in Int
      BY <2>3, <3>1
    <3>3. w[A + t - 1] <= w[A + t]
      <4> DEFINE x == A + t
      <4>1. x \in 1 .. MaxClock /\ x - 1 = A + t - 1
        BY <1>0, <1>2, <3>1
      <4>2. w[x - 1] <= w[x]
        <5> HIDE DEF x
        <5> QED  BY <2>2, <4>1
      <4> QED  BY <4>1, <4>2, Zenon
    <3> QED  BY <3>2, <3>3
  <2> QED  BY <2>3, <2>4
<1>6. \A t \in 1 .. T : /\ up[t] = IF log[A + t] = "UP" THEN u[t] - u[t - 1] ELSE 0
                        /\ dn[t] = IF log[A + t] = "DOWN" THEN u[t] - u[t - 1] ELSE 0
                        /\ log[A + t] \in {"UP", "DOWN"}
  <2> SUFFICES ASSUME NEW t \in 1 .. T
               PROVE  /\ up[t] = IF log[A + t] = "UP" THEN u[t] - u[t - 1] ELSE 0
                      /\ dn[t] = IF log[A + t] = "DOWN" THEN u[t] - u[t - 1] ELSE 0
                      /\ log[A + t] \in {"UP", "DOWN"}
    OBVIOUS
  <2>1. /\ up[t] = IF log[A + t] = "UP" THEN w[A + t] - w[A + t - 1] ELSE 0
        /\ dn[t] = IF log[A + t] = "DOWN" THEN w[A + t] - w[A + t - 1] ELSE 0
    BY DEF Gained
  <2>2. t \in 0 .. T /\ t - 1 \in 0 .. T /\ A + (t - 1) = A + t - 1 /\ A + t \in 1 .. now
    BY <1>0, <1>2
  <2>3. u[t] = w[A + t] /\ u[t - 1] = w[A + t - 1]
    BY <1>5, <2>2
  <2>4. log[A + t] \in {"UP", "DOWN"}
    BY <1>0, <2>2
  <2> QED  BY <2>1, <2>3, <2>4
<1>7. \A t \in 1 .. T : all[t] = u[t] - u[t - 1]
  OBVIOUS
<1> HIDE DEF A, T, c, up, dn, u, all
<1>8. \A t \in 1 .. T : /\ up[t] \in Int /\ up[t] >= 0 /\ dn[t] \in Int /\ all[t] \in Int
                        /\ all[t] = up[t] + dn[t]
  <2> SUFFICES ASSUME NEW t \in 1 .. T
               PROVE  /\ up[t] \in Int /\ up[t] >= 0 /\ dn[t] \in Int /\ all[t] \in Int
                      /\ all[t] = up[t] + dn[t]
    OBVIOUS
  <2>1. t \in 0 .. T /\ t - 1 \in 0 .. T
    BY <1>2
  <2>2. u[t] \in Int /\ u[t - 1] \in Int /\ u[t] - u[t - 1] >= 0
    BY <1>5, <2>1
  <2>3. CASE log[A + t] = "UP"
    BY <1>6, <1>7, <2>2, <2>3
  <2>4. CASE log[A + t] = "DOWN"
    BY <1>6, <1>7, <2>2, <2>4
  <2> QED  BY <1>6, <2>3, <2>4
<1>9. Sum(all, T) = Sum(up, T) + Sum(dn, T)
  BY <1>2, <1>8, SumSplits
<1>10. Sum(all, T) = w[now] - w[A]
  <2>1. \A t \in 0 .. T : u[t] \in Int
    BY <1>5
  <2>2. \A t \in 0 + 1 .. T : all[t] = u[t] - u[t - 1]
    BY <1>7
  <2>3. \A t \in 1 .. T : all[t] \in Int
    BY <1>8
  <2>4. T \in Nat /\ 0 \in Nat /\ 0 <= T
    BY <1>2
  <2>5. Sum(all, T) - Sum(all, 0) = u[T] - u[0]
    <3>1. ASSUME NEW a \in Nat, a <= 0 PROVE Telescopes(all, u, a, T)
      <4>1. (\A t \in a .. T : u[t] \in Int) /\ \A t \in a + 1 .. T : all[t] = u[t] - u[t - 1]
        BY <2>1, <2>2
      <4>2. a <= T
        BY <2>4, <3>1
      <4> QED  BY <2>3, <2>4, <4>1, <4>2, SumTelescopes, Zenon
    <3> QED  BY <3>1 DEF Telescopes
  <2>6. Sum(all, 0) = 0 /\ Sum(all, T) \in Int
    BY <1>2, <2>3, SumUnfolds, SumType
  <2>7. u[T] = w[now] /\ u[0] = w[A] /\ u[T] \in Int /\ u[0] \in Int
    <3>1. T \in 0 .. T /\ 0 \in 0 .. T /\ A + 0 = A
      BY <1>2
    <3> QED  BY <1>2, <1>5, <3>1
  <2> QED  BY <2>5, <2>6, <2>7
<1>11. /\ Sum(up, T) \in Int /\ Sum(up, T) >= 0 /\ Sum(dn, T) \in Int
  BY <1>2, <1>8, SumType
<1>12. Summation(w) = Sum(up, T)
  <2>1. CASE c = "UP"
    <3>1. Same(w) = Sum(up, T)
      BY <1>3, <2>1 DEF up
    <3> QED  BY <2>1, <3>1 DEF Summation, c
  <2>2. CASE c = "DOWN"
    <3>1. Same(w) = Sum(dn, T)
      BY <1>3, <2>2 DEF dn
    <3>2. Summation(w) = Total(w) - Same(w)
      BY <2>2 DEF Summation, c
    <3> QED  BY <1>4, <1>9, <1>10, <1>11, <3>1, <3>2
  <2> QED  BY <1>0, <2>1, <2>2 DEF c
<1>13. UpTime(w) = Sum(up, T)
  BY DEF UpTime, up, T, A
<1> QED  BY <1>4, <1>11, <1>12, <1>13 DEF A

\* The whole length of the history in the array is a number.
LEMMA TotalType ==
  ASSUME Inductive, NEW w \in Weight
  PROVE  Total(w) \in Int
<1> SUFFICES ASSUME NEW L, L = Len(changes), NEW o, o = L - n_states + 1 PROVE Total(w) \in Int
  OBVIOUS
<1>1. o \in 1 .. L /\ Oldest = changes[o] /\ now \in 0 .. MaxClock /\ o <= o
  BY Numbers
<1>2. changes[o] \in 0 .. now
  BY <1>1, Ordered
<1>3. Oldest \in 0 .. MaxClock
  BY <1>1, <1>2, HistoryAssumption DEF HistoryAssumption
<1>4. w[now] \in Int /\ w[Oldest] \in Int
  BY <1>1, <1>3, HistoryAssumption DEF HistoryAssumption
<1> QED  BY <1>4, SummationFollowsLog

\* The average uptime is what the log of the link says of the time since the
\* oldest change the array holds: for every size of the array, every weight
\* and every history, before and after the array has wrapped.
THEOREM UptimeFollows == Spec => []UptimeFollowsHistory
<1>1. Inductive => UptimeFollowsHistory
  BY SummationFollowsLog DEF UptimeFollowsHistory, Uptime
<1> QED  BY <1>1, InductiveInvariant, PTL

\* Time alone never raises the uptime of a link that is DOWN.
LEMMA TimeLowersUptime ==
  ASSUME Inductive, Tick, curr_link_state = "DOWN", NEW w \in Weight
  PROVE  Uptime(w)'.num * Uptime(w).den <= Uptime(w).num * Uptime(w)'.den
<1>0. /\ now \in 0 .. MaxClock /\ now + 1 \in 0 .. MaxClock /\ MaxClock \in Nat
      /\ now' = now + 1 /\ now <= now + 1
      /\ UNCHANGED ts
  BY HistoryAssumption DEF HistoryAssumption, Inductive, TypeOK, Tick
<1>1. CASE n_states = 1
  <2>1. Uptime(w) = [num |-> 0, den |-> 1]
    BY <1>1 DEF Uptime
  <2>2. Uptime(w)' = [num |-> 0, den |-> 1]
    BY <1>0, <1>1 DEF Uptime, ts
  <2> QED  BY <2>1, <2>2
<1>2. CASE n_states # 1
  <2> DEFINE F == timestamps[FirstIdx]  O == timestamps[LastIdx]  x == Sum(Round(w), Rounds)
             n == Summation(w)
  <2>1. /\ Summation(w) = Total(w) - Same(w) /\ Total(w) = w[now] - w[O]
        /\ Same(w) = (w[now] - w[F]) + x
    BY DEF Summation, Total, Same
  <2>2. /\ Summation(w)' = Total(w)' - Same(w)' /\ Total(w)' = w[now + 1] - w[O]
        /\ Same(w)' = (w[now + 1] - w[F]) + x
    BY <1>0 DEF Summation, Total, Same, ts, FirstIdx, LastIdx, Round, Rounds, Back
  <2>3. w[now] \in Int /\ w[now + 1] \in Int /\ w[now] <= w[now + 1]
    BY <1>0, WeightsGrow
  <2>4. w[O] \in Int /\ w[F] \in Int /\ x \in Int
    <3> SUFFICES ASSUME NEW L, L = Len(changes), NEW o, o = L - n_states + 1
                 PROVE  w[O] \in Int /\ w[F] \in Int /\ x \in Int
      OBVIOUS
    <3>1. L \in Nat \ {0} /\ o \in 1 .. L /\ O = changes[o] /\ F = changes[L]
      BY Numbers, FirstCell, LastCell
    <3>2. \A i \in 1 .. L : changes[i] \in 0 .. MaxClock
      <4> SUFFICES ASSUME NEW i \in 1 .. L PROVE changes[i] \in 0 .. MaxClock
        OBVIOUS
      <4>1. i <= i
        BY <3>1
      <4>2. changes[i] \in 0 .. now
        BY <4>1, Ordered
      <4> QED  BY <1>0, <4>2
    <3>3. \A t \in 0 .. MaxClock : w[t] \in Int
      BY HistoryAssumption DEF HistoryAssumption
    <3>4. L \in 1 .. L
      BY <3>1
    <3>5. x \in Int
      <4>1. Rounds \in Nat
        <5>1. n_states \in Nat \ {0}
          BY Numbers
        <5> QED  BY <5>1 DEF Rounds
      <4>2. \A k \in 1 .. Rounds : Round(w)[k] \in Int
        BY SameFollowsLog
      <4> QED  BY <4>1, <4>2, SumType
    <3> HIDE DEF O, F, x
    <3> QED  BY <3>1, <3>2, <3>3, <3>4, <3>5
  <2>5. n \in Int /\ n >= 0
    BY SummationFollowsLog
  <2> HIDE DEF F, O, x
  <2>6. Summation(w)' = n
    BY <2>1, <2>2, <2>3, <2>4
  <2>7. Uptime(w) = [num |-> n, den |-> Total(w)]
    BY <1>2 DEF Uptime
  <2>8. Uptime(w)' = [num |-> n, den |-> Total(w)']
    <3>1. Uptime(w)' = [num |-> Summation(w)', den |-> Total(w)']
      BY <1>0, <1>2 DEF Uptime, ts
    <3> QED  BY <2>6, <3>1
  <2>9. n * Total(w) <= n * Total(w)'
    <3> DEFINE a == Total(w)  b == Total(w)'
    <3>1. a \in Int /\ b \in Int /\ a <= b
      BY <2>1, <2>2, <2>3, <2>4
    <3> HIDE DEF a, b, n
    <3>2. n * (b - a) \in Nat
      <4>1. n \in Nat /\ b - a \in Nat
        BY <2>5, <3>1
      <4> QED  BY <4>1, ProductNatural
    <3>3. n * b = n * a + n * (b - a) /\ n * a \in Int
      BY <2>5, <3>1
    <3>4. n * a <= n * b
      BY <2>5, <3>1, <3>2, <3>3
    <3> QED  BY <3>4 DEF a, b
  <2> QED  BY <2>7, <2>8, <2>9
<1> QED  BY <1>1, <1>2

\* While a link stays DOWN its uptime never rises, whatever the history that
\* led there.
THEOREM DownWorsens == Spec => DownOnlyGetsWorse
<1>1. ASSUME Inductive, Next, curr_link_state = "DOWN", UNCHANGED ts, NEW w \in Weight
      PROVE  Uptime(w)'.num * Uptime(w).den <= Uptime(w).num * Uptime(w)'.den
  <2>1. CASE Tick
    BY <1>1, <2>1, TimeLowersUptime
  <2>2. CASE Toggle
    BY <1>1, <2>2 DEF Toggle, Toggled, ts
  <2>3. CASE ComputeMetric
    <3>1. Uptime(w)' = Uptime(w)
      BY <2>3 DEF ComputeMetric, vars, ts, Uptime, Summation, Total, Same, Round, Rounds,
                  FirstIdx, LastIdx, Back
    <3>2. Uptime(w).num \in Int /\ Uptime(w).den \in Int
      <4>1. Summation(w) \in Int /\ Total(w) \in Int
        BY <1>1, SummationFollowsLog, TotalType
      <4> QED  BY <4>1 DEF Uptime
    <3> QED  BY <3>1, <3>2
  <2> QED  BY <1>1, <2>1, <2>2, <2>3 DEF Next
<1>2. Inductive /\ [Next]_vars
        => [curr_link_state = "DOWN" /\ UNCHANGED ts
              => \A w \in Weight :
                   Uptime(w)'.num * Uptime(w).den <= Uptime(w).num * Uptime(w)'.den]_vars
  BY <1>1
<1> QED  BY <1>2, InductiveInvariant, PTL DEF Spec, DownOnlyGetsWorse
=============================================================================
