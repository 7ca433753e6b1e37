-------------------------- MODULE ShareSearchProofs --------------------------
(***************************************************************************)
(* Theorems about ShareSearch, for every width of bytes, numbers, blobs    *)
(* and hashes: those of the code (256, 4, 39, 76 and 32) are out of reach  *)
(* of an enumeration.                                                      *)
(*                                                                         *)
(* Powers and the number a byte string spells are recursive functions.     *)
(* What they compute is proved by induction on sets of numbers (Induction) *)
(* from the well-foundedness of finite sets.                               *)
(***************************************************************************)
EXTENDS ShareSearch, FiniteSetTheorems, SequenceTheorems, WellFoundedInduction, TLAPS

-----------------------------------------------------------------------------
(* Induction and recursion                                                 *)

\* Every nonempty set of naturals has a smallest member.
LEMMA SmallestOf ==
  ASSUME NEW S, S \subseteq Nat, S # {}
  PROVE  \E x \in S : \A y \in S : x <= y
<1> DEFINE Below == {0 .. x : x \in S}
<1>1. Below # {}
  OBVIOUS
<1>2. Below \subseteq FiniteSubsetsOf(Nat)
  <2>1. ASSUME NEW x \in S PROVE 0 .. x \in FiniteSubsetsOf(Nat)
    <3>1. IsFiniteSet(0 .. x)
      BY FS_Interval
    <3> QED
      BY <3>1 DEF FiniteSubsetsOf
  <2> QED
    BY <2>1
<1> HIDE DEF Below
<1>3. PICK B \in Below : \A D \in Below : ~(<<D, B>> \in StrictSubsetOrdering(Nat))
  BY <1>1, <1>2, FS_StrictSubsetOrderingWellFounded, WFMin
<1>4. PICK x \in S : B = 0 .. x
  BY <1>3 DEF Below
<1>5. ASSUME NEW y \in S PROVE x <= y
  <2>1. 0 .. y \in Below
    BY DEF Below
  <2>2. ~(<<0 .. y, 0 .. x>> \in StrictSubsetOrdering(Nat))
    BY <1>3, <1>4, <2>1
  <2>3. ~(0 .. y \subseteq 0 .. x /\ 0 .. x # 0 .. y)
    BY <2>2 DEF StrictSubsetOrdering
  <2> SUFFICES ASSUME y < x PROVE FALSE
    BY <1>4
  <2>4. 0 .. y \subseteq 0 .. x /\ x \in 0 .. x /\ x \notin 0 .. y
    BY <1>4
  <2> QED
    BY <2>3, <2>4
<1> QED
  BY <1>5

\* A set with zero in it and with n + 1 for every n in it has every number.
LEMMA Induction ==
  ASSUME NEW S, 0 \in S, \A n \in Nat : n \in S => n + 1 \in S
  PROVE  \A n \in Nat : n \in S
<1> SUFFICES ASSUME Nat \ S # {} PROVE FALSE
  OBVIOUS
<1>1. PICK x \in Nat \ S : \A y \in Nat \ S : x <= y
  <2>1. Nat \ S \subseteq Nat
    OBVIOUS
  <2> QED
    BY <2>1, SmallestOf, Zenon
<1>2. x # 0
  BY <1>1
<1>3. x - 1 \in Nat /\ (x - 1) + 1 = x /\ ~(x <= x - 1)
  BY <1>2
<1>4. x - 1 \in S
  BY <1>1, <1>3, Zenon
<1> QED
  BY <1>1, <1>3, <1>4

\* f starts with a and takes the steps one after the other.
Iterates(f, V, a, step) ==
  /\ f \in [Nat -> V]
  /\ f[0] = a
  /\ \A n \in Nat : f[n + 1] = step[n][f[n]]

\* There is such a function: recursion over the numbers defines one.
LEMMA Iteration ==
  ASSUME NEW V, NEW a \in V, NEW step \in [Nat -> [V -> V]]
  PROVE  \E f : Iterates(f, V, a, step)
<1> DEFINE Starts(k) == {h \in [0 .. k -> V] :
                           /\ h[0] = a
                           /\ \A n \in 0 .. k - 1 : h[n + 1] = step[n][h[n]]}
           Long == {k \in Nat : Starts(k) # {}}
           Same == {n \in Nat : \A k, l \in Nat : \A h \in Starts(k), g \in Starts(l) :
                      n <= k /\ n <= l => h[n] = g[n]}
<1>1. ASSUME NEW k \in Nat PROVE Starts(k) # {}
  <2>1. 0 \in Long
    <3>1. [n \in 0 .. 0 |-> a] \in Starts(0)
      OBVIOUS
    <3> QED
      BY <3>1
  <2>2. ASSUME NEW n \in Nat, n \in Long PROVE n + 1 \in Long
    <3>1. PICK h \in [0 .. n -> V] : /\ h[0] = a
                                     /\ \A i \in 0 .. n - 1 : h[i + 1] = step[i][h[i]]
      BY <2>2
    <3> DEFINE g == [i \in 0 .. n + 1 |-> IF i = n + 1 THEN step[n][h[n]] ELSE h[i]]
    <3>2. h[n] \in V /\ step[n][h[n]] \in V
      OBVIOUS
    <3>3. g \in [0 .. n + 1 -> V]
      BY <3>2
    <3>4. g[0] = a
      BY <3>1
    <3>5. ASSUME NEW i \in 0 .. (n + 1) - 1 PROVE g[i + 1] = step[i][g[i]]
      <4>1. CASE i = n
        BY <4>1
      <4>2. CASE i # n
        <5>1. i \in 0 .. n - 1 /\ i + 1 \in 0 .. n /\ i + 1 # n + 1
          BY <4>2
        <5>2. g[i + 1] = h[i + 1] /\ g[i] = h[i]
          BY <5>1
        <5> QED
          BY <3>1, <5>1, <5>2
      <4> QED
        BY <4>1, <4>2
    <3> HIDE DEF g
    <3>6. g \in Starts(n + 1)
      BY <3>3, <3>4, <3>5
    <3> QED
      BY <3>6
  <2> HIDE DEF Long
  <2>3. k \in Long
    BY <2>1, <2>2, Induction
  <2> QED
    BY <2>3 DEF Long
<1>2. ASSUME NEW n \in Nat PROVE n \in Same
  <2>1. 0 \in Same
    OBVIOUS
  <2>2. ASSUME NEW m \in Nat, m \in Same PROVE m + 1 \in Same
    <3> SUFFICES ASSUME NEW k \in Nat, NEW l \in Nat, NEW h \in Starts(k), NEW g \in Starts(l),
                        m + 1 <= k, m + 1 <= l
                 PROVE  h[m + 1] = g[m + 1]
      <4>1. m + 1 \in Nat
        OBVIOUS
      <4> HIDE DEF Starts
      <4> QED
        BY <4>1, Zenon
    <3>1. m <= k /\ m <= l /\ m \in 0 .. k - 1 /\ m \in 0 .. l - 1
      OBVIOUS
    <3>2. h[m] = g[m]
      BY <2>2, <3>1
    <3>3. h[m + 1] = step[m][h[m]] /\ g[m + 1] = step[m][g[m]]
      BY <3>1
    <3> QED
      BY <3>2, <3>3
  <2> HIDE DEF Same
  <2> QED
    BY <2>1, <2>2, Induction
<1> DEFINE F(k) == CHOOSE h : h \in Starts(k)
           f == [k \in Nat |-> F(k)[k]]
<1>3. ASSUME NEW k \in Nat PROVE F(k) \in Starts(k)
  <2> HIDE DEF Starts
  <2> QED
    BY <1>1
<1> HIDE DEF F
<1>4. f \in [Nat -> V]
  BY <1>3
<1>5. f[0] = a
  BY <1>3
<1>6. ASSUME NEW n \in Nat PROVE f[n + 1] = step[n][f[n]]
  <2>1. F(n) \in Starts(n) /\ F(n + 1) \in Starts(n + 1) /\ n + 1 \in Nat
    BY <1>3
  <2>2. F(n + 1)[n + 1] = step[n][F(n + 1)[n]]
    BY <2>1
  <2>3. F(n + 1)[n] = F(n)[n]
    <3>1. n <= n /\ n <= n + 1
      OBVIOUS
    <3> HIDE DEF Starts
    <3>2. n \in Same
      BY <1>2
    <3> QED
      BY <2>1, <3>1, <3>2
  <2> QED
    BY <2>1, <2>2, <2>3
<1> HIDE DEF f
<1> QED
  BY <1>4, <1>5, <1>6 DEF Iterates


-----------------------------------------------------------------------------
(* Numbers and their bytes                                                 *)

\* Power is the recursive function it is written as.
LEMMA PowerSteps ==
  /\ Power[0] = 1
  /\ \A n \in Nat : /\ Power[n] \in Nat \ {0}
                    /\ Power[n + 1] = Byte * Power[n]
<1> DEFINE IsPower(g) == g = [k \in Nat |-> IF k = 0 THEN 1 ELSE Byte * g[k - 1]]
           P == Nat \ {0}
           step == [n \in Nat |-> [p \in P |-> Byte * p]]
<1>1. \A p \in P : Byte * p \in P
  BY SearchAssumption
<1>2. step \in [Nat -> [P -> P]] /\ 1 \in P
  BY <1>1
<1>3. PICK f : Iterates(f, P, 1, step)
  <2> HIDE DEF P, step
  <2> QED
    BY <1>2, Iteration, Zenon
<1>4. /\ f \in [Nat -> P] /\ f[0] = 1
      /\ \A n \in Nat : f[n + 1] = Byte * f[n]
  BY <1>3 DEF Iterates
<1>5. ASSUME NEW k \in Nat PROVE f[k] = IF k = 0 THEN 1 ELSE Byte * f[k - 1]
  <2>1. CASE k = 0
    BY <2>1, <1>4
  <2>2. CASE k # 0
    <3>1. k - 1 \in Nat /\ (k - 1) + 1 = k
      BY <2>2
    <3>2. f[(k - 1) + 1] = Byte * f[k - 1]
      BY <3>1, <1>4
    <3> QED
      BY <2>2, <3>1, <3>2
  <2> QED
    BY <2>1, <2>2
<1>6. IsPower(f)
  BY <1>4, <1>5
<1>7. IsPower(Power)
  <2>1. Power = CHOOSE g : IsPower(g)
    BY DEF Power
  <2> HIDE DEF IsPower
  <2> QED
    BY <1>6, <2>1
<1>8. \A k \in Nat : Power[k] = IF k = 0 THEN 1 ELSE Byte * Power[k - 1]
  BY <1>7, Zenon
<1>9. Power[0] = 1
  BY <1>8
<1>10. ASSUME NEW n \in Nat PROVE Power[n + 1] = Byte * Power[n]
  <2>1. n + 1 \in Nat /\ n + 1 # 0 /\ (n + 1) - 1 = n
    OBVIOUS
  <2>2. Power[n + 1] = Byte * Power[(n + 1) - 1]
    BY <1>8, <2>1, Zenon
  <2> QED
    BY <2>1, <2>2
<1> DEFINE S == {n \in Nat : Power[n] \in P}
<1>11. 0 \in S
  BY <1>9
<1>12. ASSUME NEW n \in Nat, n \in S PROVE n + 1 \in S
  BY <1>1, <1>10, <1>12
<1> HIDE DEF S
<1>13. \A n \in Nat : n \in S
  BY <1>11, <1>12, Induction
<1> QED
  BY <1>9, <1>10, <1>13 DEF S

\* The first n of a number of bytes.
LowPart(bytes, n) == [k \in 1 .. n |-> bytes[k]]

\* What the local function of Little computes.
IsSum(sum, bytes, n) ==
  /\ sum \in [0 .. n -> Nat]
  /\ sum[0] = 0
  /\ \A k \in 1 .. n : sum[k] = sum[k - 1] + bytes[k] * Power[k - 1]

\* The sums exist.
LEMMA SumExists ==
  ASSUME NEW n \in Nat, NEW bytes \in Bytes(n)
  PROVE  \E sum : IsSum(sum, bytes, n)
<1> DEFINE term(k) == IF k + 1 <= n THEN bytes[k + 1] * Power[k] ELSE 0
           step == [k \in Nat |-> [s \in Nat |-> s + term(k)]]
<1>1. ASSUME NEW k \in Nat PROVE term(k) \in Nat
  <2>1. CASE k + 1 <= n
    <3>1. bytes[k + 1] \in Nat
      BY <2>1, SearchAssumption DEF Bytes
    <3>2. Power[k] \in Nat
      BY PowerSteps
    <3>3. bytes[k + 1] * Power[k] \in Nat
      BY <3>1, <3>2
    <3> QED
      BY <2>1, <3>3
  <2> QED
    BY <2>1
<1> HIDE DEF term
<1>2. step \in [Nat -> [Nat -> Nat]]
  BY <1>1
<1> HIDE DEF step
<1>3. PICK f : Iterates(f, Nat, 0, step)
  <2>1. 0 \in Nat
    OBVIOUS
  <2> QED
    BY <1>2, <2>1, Iteration, Zenon
<1> DEFINE sum == [k \in 0 .. n |-> f[k]]
<1>4. ASSUME NEW k \in 1 .. n PROVE sum[k] = sum[k - 1] + bytes[k] * Power[k - 1]
  <2>1. k - 1 \in Nat /\ (k - 1) + 1 = k /\ k \in 0 .. n /\ k - 1 \in 0 .. n /\ k <= n
    OBVIOUS
  <2>2. f[k] = f[k - 1] + term(k - 1)
    BY <1>3, <2>1 DEF step, Iterates
  <2>3. term(k - 1) = bytes[k] * Power[k - 1]
    BY <2>1 DEF term
  <2> QED
    BY <2>1, <2>2, <2>3
<1>5. IsSum(sum, bytes, n)
  <2>1. sum \in [0 .. n -> Nat] /\ sum[0] = 0
    BY <1>3 DEF Iterates
  <2> HIDE DEF sum
  <2> QED
    BY <2>1, <1>4 DEF IsSum
<1> QED
  BY <1>5, Zenon

\* Little computes the last of them.
LEMMA LittleIsSum ==
  ASSUME NEW n \in Nat, NEW bytes \in Bytes(n)
  PROVE  \E sum : IsSum(sum, bytes, n) /\ Little(bytes) = sum[n]
<1> DEFINE Is(g) == g = [k \in 0 .. n |-> IF k = 0 THEN 0 ELSE g[k - 1] + bytes[k] * Power[k - 1]]
           sum == CHOOSE g : Is(g)
<1>1. Len(bytes) = n
  BY DEF Bytes
<1>2. PICK f : IsSum(f, bytes, n)
  BY SumExists
<1>3. Is(f)
  BY <1>2 DEF IsSum
<1>4. Is(sum)
  <2> HIDE DEF Is
  <2> QED
    BY <1>3
<1>5. Little(bytes) = sum[n]
  BY <1>1 DEF Little
<1> HIDE DEF sum
<1>6. sum[0] = 0 /\ \A k \in 1 .. n : sum[k] = sum[k - 1] + bytes[k] * Power[k - 1]
  BY <1>4
<1> DEFINE S == {k \in Nat : k <= n => sum[k] \in Nat}
<1>7. 0 \in S
  BY <1>6
<1>8. ASSUME NEW k \in Nat, k \in S PROVE k + 1 \in S
  <2> SUFFICES ASSUME k + 1 <= n PROVE sum[k + 1] \in Nat
    OBVIOUS
  <2>1. sum[k] \in Nat /\ k + 1 \in 1 .. n /\ (k + 1) - 1 = k
    BY <1>8
  <2>2. sum[k + 1] = sum[k] + bytes[k + 1] * Power[k]
    BY <1>6, <2>1
  <2>3. bytes[k + 1] \in Nat /\ Power[k] \in Nat
    <3>1. bytes[k + 1] \in 0 .. Byte - 1
      BY <2>1 DEF Bytes
    <3> QED
      BY <3>1, PowerSteps, SearchAssumption
  <2>4. bytes[k + 1] * Power[k] \in Nat
    BY <2>3
  <2> QED
    BY <2>1, <2>2, <2>4
<1> HIDE DEF S
<1>9. \A k \in Nat : k \in S
  BY <1>7, <1>8, Induction
<1>10. \A k \in 0 .. n : sum[k] \in Nat
  BY <1>9 DEF S
<1>11. sum = [k \in 0 .. n |-> sum[k]]
  BY <1>4
<1>12. sum \in [0 .. n -> Nat]
  BY <1>10, <1>11
<1> QED
  BY <1>5, <1>6, <1>12 DEF IsSum

\* The number no bytes spell, and what one byte more adds to the number.
LEMMA LittleEmpty ==
  ASSUME NEW bytes \in Bytes(0)
  PROVE  Little(bytes) = 0
  BY LittleIsSum DEF IsSum

LEMMA LittleStep ==
  ASSUME NEW n \in Nat, NEW bytes \in Bytes(n + 1)
  PROVE  /\ LowPart(bytes, n) \in Bytes(n)
         /\ bytes[n + 1] \in 0 .. Byte - 1
         /\ Little(bytes) = Little(LowPart(bytes, n)) + bytes[n + 1] * Power[n]
<1>1. LowPart(bytes, n) \in Bytes(n) /\ bytes[n + 1] \in 0 .. Byte - 1
  BY DEF LowPart, Bytes
<1>2. PICK total : IsSum(total, bytes, n + 1) /\ Little(bytes) = total[n + 1]
  <2>1. n + 1 \in Nat
    OBVIOUS
  <2> QED
    BY <2>1, LittleIsSum, Zenon
<1>3. PICK sum : IsSum(sum, LowPart(bytes, n), n) /\ Little(LowPart(bytes, n)) = sum[n]
  BY <1>1, LittleIsSum, Zenon
<1> DEFINE S == {k \in Nat : k <= n => sum[k] = total[k]}
<1>4. sum[n] = total[n]
  <2>1. 0 \in S
    BY <1>2, <1>3 DEF IsSum
  <2>2. ASSUME NEW k \in Nat, k \in S PROVE k + 1 \in S
    <3> SUFFICES ASSUME k + 1 <= n PROVE sum[k + 1] = total[k + 1]
      OBVIOUS
    <3>1. sum[k] = total[k] /\ k + 1 \in 1 .. n /\ k + 1 \in 1 .. n + 1 /\ (k + 1) - 1 = k
      BY <2>2
    <3>2. sum[k + 1] = sum[k] + bytes[k + 1] * Power[k]
      BY <1>3, <3>1 DEF IsSum, LowPart
    <3>3. total[k + 1] = total[k] + bytes[k + 1] * Power[k]
      BY <1>2, <3>1 DEF IsSum
    <3> QED
      BY <3>1, <3>2, <3>3
  <2> HIDE DEF S
  <2>3. n \in S
    BY <2>1, <2>2, Induction
  <2> QED
    BY <2>3 DEF S
<1>5. total[n + 1] = total[n] + bytes[n + 1] * Power[n]
  <2>1. n + 1 \in 1 .. n + 1 /\ (n + 1) - 1 = n
    OBVIOUS
  <2> QED
    BY <1>2, <2>1 DEF IsSum
<1> QED
  BY <1>1, <1>2, <1>3, <1>4, <1>5

\* Powers multiply and grow.
LEMMA PowerAdds ==
  ASSUME NEW m \in Nat, NEW n \in Nat
  PROVE  Power[m + n] = Power[m] * Power[n]
<1> DEFINE S == {k \in Nat : Power[m + k] = Power[m] * Power[k]}
<1>1. 0 \in S
  BY PowerSteps
<1>2. ASSUME NEW k \in Nat, k \in S PROVE k + 1 \in S
  <2>1. m + k \in Nat /\ m + (k + 1) = (m + k) + 1
    OBVIOUS
  <2>2. Power[m + (k + 1)] = Byte * Power[m + k] /\ Power[k + 1] = Byte * Power[k]
    BY <2>1, PowerSteps
  <2>3. Power[m + k] = Power[m] * Power[k]
    BY <1>2
  <2>4. ASSUME NEW a \in Nat, NEW b \in Nat PROVE Byte * (a * b) = a * (Byte * b)
    BY SearchAssumption
  <2>5. Power[m] \in Nat /\ Power[k] \in Nat
    BY PowerSteps
  <2>6. Byte * (Power[m] * Power[k]) = Power[m] * (Byte * Power[k])
    BY <2>4, <2>5
  <2> QED
    BY <2>2, <2>3, <2>6
<1> HIDE DEF S
<1>3. n \in S
  BY <1>1, <1>2, Induction
<1> QED
  BY <1>3 DEF S

\* Facts of arithmetic.
LEMMA Products ==
  ASSUME NEW a \in Nat, NEW b \in Nat
  PROVE  /\ a * b \in Nat
         /\ \A c \in Nat : a <= c => a * b <= c * b /\ b * a <= b * c
         /\ \A c \in Nat : a + 1 <= c => a * b + b <= c * b
  OBVIOUS

LEMMA Quotients ==
  ASSUME NEW n \in Nat, NEW d \in Nat \ {0}
  PROVE  /\ n \div d \in Nat
         /\ n % d \in 0 .. d - 1
         /\ n = d * (n \div d) + (n % d)
         /\ d * (n \div d) <= n
         /\ n < d * (n \div d) + d
         /\ \A q \in Nat : d * q <= n /\ n < d * q + d => q = n \div d
<1>1. n \div d \in Nat /\ n % d \in 0 .. d - 1
  OBVIOUS
<1>2. d * (n \div d) <= n /\ n < d * (n \div d) + d
  OBVIOUS
<1>3. n - d * (n \div d) = n % d
  OBVIOUS
<1>4. PICK p \in Nat, r \in Nat : p = d * (n \div d) /\ r = n % d
  BY <1>1
<1>5. n = d * (n \div d) + (n % d)
  <2>1. n - p = r
    BY <1>3, <1>4
  <2>2. n = p + r
    BY <2>1
  <2> QED
    BY <1>4, <2>2, Zenon
<1>6. ASSUME NEW q \in Nat, d * q <= n, n < d * q + d PROVE q = n \div d
  BY <1>6
<1> QED
  BY <1>1, <1>2, <1>5, <1>6

\* Bytes spell numbers below the power of their length.
LEMMA LittleBounds ==
  ASSUME NEW n \in Nat, NEW bytes \in Bytes(n)
  PROVE  Little(bytes) \in Nat /\ Little(bytes) < Power[n]
<1> DEFINE S == {k \in Nat : \A b \in Bytes(k) : Little(b) \in Nat /\ Little(b) < Power[k]}
<1>1. 0 \in S
  BY LittleEmpty, PowerSteps
<1>2. ASSUME NEW k \in Nat, k \in S PROVE k + 1 \in S
  <2> SUFFICES ASSUME NEW b \in Bytes(k + 1)
               PROVE  Little(b) \in Nat /\ Little(b) < Power[k + 1]
    OBVIOUS
  <2>1. /\ LowPart(b, k) \in Bytes(k) /\ b[k + 1] \in 0 .. Byte - 1
        /\ Little(b) = Little(LowPart(b, k)) + b[k + 1] * Power[k]
    BY LittleStep
  <2>2. Little(LowPart(b, k)) \in Nat /\ Little(LowPart(b, k)) < Power[k]
    BY <1>2, <2>1
  <2>3. Power[k] \in Nat /\ Power[k + 1] = Byte * Power[k]
    BY PowerSteps
  <2>4. b[k + 1] \in Nat /\ Byte \in Nat /\ b[k + 1] + 1 <= Byte
    BY <2>1, SearchAssumption
  <2>5. b[k + 1] * Power[k] \in Nat /\ b[k + 1] * Power[k] + Power[k] <= Byte * Power[k]
    BY <2>3, <2>4, Products
  <2>6. Byte * Power[k] \in Nat
    BY <2>3, <2>4, Products
  <2>7. PICK x \in Nat, y \in Nat, p \in Nat, u \in Nat :
          x = Little(LowPart(b, k)) /\ y = b[k + 1] * Power[k] /\ p = Power[k] /\ u = Byte * Power[k]
    BY <2>2, <2>3, <2>5, <2>6, Zenon
  <2>8. x < p /\ y + p <= u
    BY <2>2, <2>5, <2>7
  <2>9. x + y \in Nat /\ x + y < u
    BY <2>8
  <2> QED
    BY <2>1, <2>3, <2>7, <2>9, Zenon
<1> HIDE DEF S
<1>3. n \in S
  BY <1>1, <1>2, Induction
<1> QED
  BY <1>3 DEF S

\* The bytes after the first m, n of them.
HighPart(bytes, m, n) == [k \in 1 .. n |-> bytes[m + k]]

\* What the first m and the last n bytes contribute to the number.
LEMMA LittleSplit ==
  ASSUME NEW m \in Nat, NEW n \in Nat, NEW bytes \in Bytes(m + n)
  PROVE  /\ LowPart(bytes, m) \in Bytes(m)
         /\ HighPart(bytes, m, n) \in Bytes(n)
         /\ Little(bytes) = Little(LowPart(bytes, m)) + Power[m] * Little(HighPart(bytes, m, n))
<1> DEFINE P(k) == \A b \in Bytes(m + k) :
                     Little(b) = Little(LowPart(b, m)) + Power[m] * Little(HighPart(b, m, k))
           S == {k \in Nat : P(k)}
<1>0. ASSUME NEW k \in Nat, NEW b \in Bytes(m + k)
      PROVE  LowPart(b, m) \in Bytes(m) /\ HighPart(b, m, k) \in Bytes(k)
  BY DEF LowPart, HighPart, Bytes
<1>1. 0 \in S
  <2> SUFFICES ASSUME NEW b \in Bytes(m + 0)
               PROVE  Little(b) = Little(LowPart(b, m)) + Power[m] * Little(HighPart(b, m, 0))
    OBVIOUS
  <2>1. b \in Bytes(m) /\ LowPart(b, m) = b
    BY DEF LowPart, Bytes
  <2>2. Little(HighPart(b, m, 0)) = 0
    BY <1>0, LittleEmpty
  <2>3. Power[m] \in Nat /\ Little(b) \in Nat
    BY <2>1, PowerSteps, LittleBounds
  <2> QED
    BY <2>1, <2>2, <2>3
<1>2. ASSUME NEW k \in Nat, k \in S PROVE k + 1 \in S
  <2> SUFFICES ASSUME NEW b \in Bytes(m + (k + 1))
               PROVE  Little(b) = Little(LowPart(b, m)) + Power[m] * Little(HighPart(b, m, k + 1))
    OBVIOUS
  <2>1. m + k \in Nat /\ m + (k + 1) = (m + k) + 1 /\ k + 1 \in Nat
    OBVIOUS
  <2>2. b \in Bytes((m + k) + 1)
    BY <2>1
  <2> DEFINE c == LowPart(b, m + k)
             e == HighPart(b, m, k + 1)
  <2>3. /\ c \in Bytes(m + k) /\ b[(m + k) + 1] \in 0 .. Byte - 1
        /\ Little(b) = Little(c) + b[(m + k) + 1] * Power[m + k]
    BY <2>1, <2>2, LittleStep
  <2>4. e \in Bytes(k + 1)
    BY <1>0, <2>1
  <2>5. Little(e) = Little(LowPart(e, k)) + e[k + 1] * Power[k]
    BY <2>4, LittleStep
  <2>6. /\ LowPart(c, m) = LowPart(b, m)
        /\ LowPart(e, k) = HighPart(c, m, k)
        /\ e[k + 1] = b[(m + k) + 1]
    BY <2>1 DEF LowPart, HighPart
  <2> HIDE DEF c, e
  <2>7. Little(c) = Little(LowPart(b, m)) + Power[m] * Little(HighPart(c, m, k))
    BY <1>2, <2>3, <2>6
  <2>8. Power[m + k] = Power[m] * Power[k]
    BY PowerAdds
  <2>9. /\ Power[m] \in Nat /\ Power[k] \in Nat /\ e[k + 1] \in Nat
        /\ Little(HighPart(c, m, k)) \in Nat /\ Little(LowPart(b, m)) \in Nat
    <3>1. HighPart(c, m, k) \in Bytes(k) /\ LowPart(b, m) \in Bytes(m)
      BY <1>0, <2>3, <2>6
    <3> QED
      BY <2>3, <2>6, <3>1, PowerSteps, LittleBounds
  <2>10. ASSUME NEW x \in Nat, NEW y \in Nat, NEW z \in Nat, NEW w \in Nat
         PROVE  y * (w * z) = w * (y * z) /\ w * (x + y * z) = w * x + w * (y * z)
    OBVIOUS
  <2>11. /\ e[k + 1] * (Power[m] * Power[k]) = Power[m] * (e[k + 1] * Power[k])
         /\ Power[m] * (Little(HighPart(c, m, k)) + e[k + 1] * Power[k])
              = Power[m] * Little(HighPart(c, m, k)) + Power[m] * (e[k + 1] * Power[k])
    BY <2>9, <2>10
  <2>12. /\ Power[m] * Little(HighPart(c, m, k)) \in Nat
         /\ Power[m] * (e[k + 1] * Power[k]) \in Nat
    BY <2>9, Products
  <2>13. PICK f \in Nat, x \in Nat, y \in Nat :
           /\ f = Little(LowPart(b, m))
           /\ x = Power[m] * Little(HighPart(c, m, k))
           /\ y = Power[m] * (e[k + 1] * Power[k])
    BY <2>9, <2>12, Zenon
  <2>14. Power[m] * Little(e) = x + y
    BY <2>5, <2>6, <2>11, <2>13, Zenon
  <2>15. Little(b) = (f + x) + y
    BY <2>3, <2>6, <2>7, <2>8, <2>11, <2>13, Zenon
  <2>16. (f + x) + y = f + (x + y)
    OBVIOUS
  <2> QED
    BY <2>13, <2>14, <2>15, <2>16, Zenon DEF e
<1> HIDE DEF S
<1>3. n \in S
  BY <1>1, <1>2, Induction
<1> QED
  BY <1>0, <1>3 DEF S

\* Different bytes of the same number spell different numbers.
LEMMA LittleInjective ==
  ASSUME NEW n \in Nat, NEW b \in Bytes(n), NEW c \in Bytes(n), Little(b) = Little(c)
  PROVE  b = c
<1> DEFINE S == {k \in Nat : \A x, y \in Bytes(k) : Little(x) = Little(y) => x = y}
<1>1. 0 \in S
  BY DEF Bytes
<1>2. ASSUME NEW k \in Nat, k \in S PROVE k + 1 \in S
  <2> SUFFICES ASSUME NEW x \in Bytes(k + 1), NEW y \in Bytes(k + 1), Little(x) = Little(y)
               PROVE  x = y
    OBVIOUS
  <2>1. /\ LowPart(x, k) \in Bytes(k) /\ x[k + 1] \in 0 .. Byte - 1
        /\ Little(x) = Little(LowPart(x, k)) + x[k + 1] * Power[k]
    BY LittleStep
  <2>2. /\ LowPart(y, k) \in Bytes(k) /\ y[k + 1] \in 0 .. Byte - 1
        /\ Little(y) = Little(LowPart(y, k)) + y[k + 1] * Power[k]
    BY LittleStep
  <2>3. /\ Little(LowPart(x, k)) \in Nat /\ Little(LowPart(x, k)) < Power[k]
        /\ Little(LowPart(y, k)) \in Nat /\ Little(LowPart(y, k)) < Power[k]
    BY <2>1, <2>2, LittleBounds
  <2>4. Power[k] \in Nat \ {0} /\ x[k + 1] \in Nat /\ y[k + 1] \in Nat
    BY <2>1, <2>2, PowerSteps, SearchAssumption
  <2>5. ASSUME NEW a \in Nat, NEW d \in Nat, NEW p \in Nat, NEW q \in Nat, NEW P \in Nat \ {0},
               a < P, d < P, a + p * P = d + q * P
        PROVE  p = q
    <3>1. ASSUME p + 1 <= q PROVE FALSE
      <4>1. p * P \in Nat /\ q * P \in Nat /\ p * P + P <= q * P
        BY <3>1, Products
      <4> QED
        BY <2>5, <4>1
    <3>2. ASSUME q + 1 <= p PROVE FALSE
      <4>1. p * P \in Nat /\ q * P \in Nat /\ q * P + P <= p * P
        BY <3>2, Products
      <4> QED
        BY <2>5, <4>1
    <3> QED
      BY <3>1, <3>2
  <2>6. x[k + 1] = y[k + 1]
    BY <2>1, <2>2, <2>3, <2>4, <2>5
  <2>7. y[k + 1] * Power[k] \in Nat
    BY <2>4, Products
  <2>8. LowPart(x, k) = LowPart(y, k)
    <3>1. PICK a \in Nat, d \in Nat, t \in Nat :
            a = Little(LowPart(x, k)) /\ d = Little(LowPart(y, k)) /\ t = y[k + 1] * Power[k]
      BY <2>3, <2>7, Zenon
    <3>2. a + t = d + t
      BY <2>1, <2>2, <2>6, <3>1, Zenon
    <3>3. a = d
      BY <3>2
    <3> QED
      BY <1>2, <2>1, <2>2, <3>1, <3>3
  <2>9. ASSUME NEW i \in 1 .. k + 1 PROVE x[i] = y[i]
    <3>1. CASE i = k + 1
      BY <2>6, <3>1
    <3>2. CASE i # k + 1
      <4>1. i \in 1 .. k
        BY <3>2
      <4>2. LowPart(x, k)[i] = x[i] /\ LowPart(y, k)[i] = y[i]
        BY <4>1 DEF LowPart
      <4> QED
        BY <2>8, <4>2
    <3> QED
      BY <3>1, <3>2
  <2> QED
    BY <2>9 DEF Bytes
<1> HIDE DEF S
<1>3. n \in S
  BY <1>1, <1>2, Induction
<1> QED
  BY <1>3 DEF S

\* Writing a number as w bytes and reading it again loses what w bytes cannot
\* hold, and nothing else.
LEMMA WrittenAndRead ==
  ASSUME NEW v \in Nat, NEW w \in Nat
  PROVE  /\ ToLittle(v, w) \in Bytes(w)
         /\ v = Little(ToLittle(v, w)) + Power[w] * (v \div Power[w])
<1>0. ASSUME NEW k \in Nat PROVE ToLittle(v, k) \in Bytes(k)
  <2>1. ASSUME NEW i \in 1 .. k PROVE (v \div Power[i - 1]) % Byte \in 0 .. Byte - 1
    <3>1. i - 1 \in Nat
      OBVIOUS
    <3>2. v \div Power[i - 1] \in Nat
      BY <3>1, PowerSteps, Quotients
    <3> QED
      BY <3>2, Quotients, SearchAssumption
  <2> QED
    BY <2>1 DEF ToLittle, Bytes
<1> DEFINE S == {k \in Nat : v = Little(ToLittle(v, k)) + Power[k] * (v \div Power[k])}
<1>1. 0 \in S
  <2>1. Little(ToLittle(v, 0)) = 0
    BY <1>0, LittleEmpty
  <2>2. v \div 1 = v
    OBVIOUS
  <2> QED
    BY <2>1, <2>2, PowerSteps
<1>2. ASSUME NEW k \in Nat, k \in S PROVE k + 1 \in S
  <2>1. Power[k] \in Nat \ {0} /\ Power[k + 1] \in Nat \ {0} /\ Power[k + 1] = Byte * Power[k]
    BY PowerSteps
  <2>2. PICK b : b = ToLittle(v, k + 1)
    OBVIOUS
  <2>3. k + 1 \in Nat /\ b \in Bytes(k + 1)
    BY <1>0, <2>2
  <2>4. b[k + 1] = (v \div Power[k]) % Byte
    BY <2>2 DEF ToLittle
  <2>5. LowPart(b, k) = ToLittle(v, k)
    BY <2>2 DEF ToLittle, LowPart
  <2>6. Little(b) = Little(ToLittle(v, k)) + b[k + 1] * Power[k]
    BY <2>3, <2>5, LittleStep
  <2>7. PICK q \in Nat : q = v \div Power[k]
    BY <2>1, Quotients
  <2>8. Byte \in Nat \ {0}
    BY SearchAssumption
  <2>9. /\ q \div Byte \in Nat /\ q % Byte \in Nat
        /\ q = Byte * (q \div Byte) + (q % Byte)
    BY <2>8, Quotients
  <2>10. PICK h \in Nat, r \in Nat, l \in Nat, p \in Nat :
           h = q \div Byte /\ r = q % Byte /\ l = Little(ToLittle(v, k)) /\ p = Power[k]
    <3>1. Little(ToLittle(v, k)) \in Nat
      BY <1>0, LittleBounds
    <3> QED
      BY <2>1, <2>9, <3>1
  <2>11. v = l + p * (Byte * h + r)
    <3>1. v = Little(ToLittle(v, k)) + Power[k] * (v \div Power[k])
      BY <1>2
    <3>2. v = l + p * q
      BY <2>7, <2>10, <3>1, Zenon
    <3>3. q = Byte * h + r
      BY <2>9, <2>10, Zenon
    <3> QED
      BY <3>2, <3>3, Zenon
  <2>12. ASSUME NEW x \in Nat, NEW y \in Nat
         PROVE  x * (Byte * h + r) = x * (Byte * h) + r * x /\ x * (Byte * h) = (Byte * x) * h
    BY <2>8
  <2>13. PICK s \in Nat, t \in Nat : s = r * p /\ t = (Byte * p) * h
    <3>1. Byte * p \in Nat
      BY <2>8, Products
    <3> QED
      BY <3>1, Products
  <2>14. v = l + (t + s)
    BY <2>11, <2>12, <2>13, Zenon
  <2>15. v = (l + s) + t
    BY <2>14
  <2>16. Little(b) = l + s
    BY <2>4, <2>6, <2>7, <2>10, <2>13, Zenon
  <2>17. Power[k + 1] * h = t
    BY <2>1, <2>10, <2>13, Zenon
  <2>18. PICK u \in Nat, P \in Nat \ {0} : u = l + s /\ P = Power[k + 1]
    <3>1. l + s \in Nat
      OBVIOUS
    <3> QED
      BY <2>1, <3>1, Zenon
  <2>19. u < P
    BY <2>3, <2>16, <2>18, LittleBounds
  <2>20. P * h <= v /\ v < P * h + P
    BY <2>15, <2>17, <2>18, <2>19
  <2>21. h = v \div P
    BY <2>20, Quotients
  <2>22. v = Little(b) + Power[k + 1] * (v \div Power[k + 1])
    BY <2>15, <2>16, <2>17, <2>18, <2>21, Zenon
  <2> QED
    BY <2>2, <2>3, <2>22
<1> HIDE DEF S
<1>3. w \in S
  BY <1>1, <1>2, Induction
<1> QED
  BY <1>0, <1>3 DEF S

\* What fits is read back.
LEMMA ReadBack ==
  ASSUME NEW w \in Nat, NEW v \in Nat, v < Power[w]
  PROVE  Little(ToLittle(v, w)) = v
<1>1. Power[w] \in Nat \ {0}
  BY PowerSteps
<1>2. v \div Power[w] = 0
  BY <1>1
<1>3. Little(ToLittle(v, w)) \in Nat
  BY WrittenAndRead, LittleBounds
<1>4. v = Little(ToLittle(v, w)) + Power[w] * 0
  BY <1>2, WrittenAndRead
<1> QED
  BY <1>1, <1>3, <1>4

LEMMA WrittenBack ==
  ASSUME NEW w \in Nat, NEW bytes \in Bytes(w)
  PROVE  ToLittle(Little(bytes), w) = bytes
<1>1. Little(bytes) \in Nat /\ Little(bytes) < Power[w]
  BY LittleBounds
<1>2. Little(ToLittle(Little(bytes), w)) = Little(bytes)
  BY <1>1, ReadBack
<1>3. ToLittle(Little(bytes), w) \in Bytes(w)
  BY <1>1, WrittenAndRead
<1> QED
  BY <1>2, <1>3, LittleInjective

\* Reversing twice restores.
LEMMA Reversed ==
  ASSUME NEW w \in Nat, NEW bytes \in Bytes(w)
  PROVE  Reverse(bytes) \in Bytes(w) /\ Reverse(Reverse(bytes)) = bytes
<1>1. Len(bytes) = w
  BY DEF Bytes
<1>2. Reverse(bytes) = [i \in 1 .. w |-> bytes[(w - i) + 1]]
  BY <1>1 DEF Reverse
<1>3. ASSUME NEW i \in 1 .. w PROVE (w - i) + 1 \in 1 .. w /\ (w - ((w - i) + 1)) + 1 = i
  OBVIOUS
<1>4. PICK r : r = Reverse(bytes)
  OBVIOUS
<1>5. r \in Bytes(w)
  BY <1>2, <1>3, <1>4 DEF Bytes
<1>6. Len(r) = w
  BY <1>5 DEF Bytes
<1>7. Reverse(r) = [i \in 1 .. w |-> r[(w - i) + 1]]
  BY <1>6 DEF Reverse
<1>8. ASSUME NEW i \in 1 .. w PROVE r[(w - i) + 1] = bytes[i]
  <2>1. r[(w - i) + 1] = bytes[(w - ((w - i) + 1)) + 1]
    BY <1>2, <1>3, <1>4
  <2> QED
    BY <1>3, <2>1
<1>9. bytes = [i \in 1 .. w |-> bytes[i]]
  BY DEF Bytes
<1>10. Reverse(r) = bytes
  BY <1>7, <1>8, <1>9
<1> QED
  BY <1>4, <1>5, <1>10

\* A part of a byte string, position by position.
LEMMA Part ==
  ASSUME NEW w \in Nat, NEW bytes \in Bytes(w), NEW m \in 1 .. w + 1, NEW n \in m - 1 .. w
  PROVE  /\ SubSeq(bytes, m, n) = [i \in 1 .. (n - m) + 1 |-> bytes[(m - 1) + i]]
         /\ SubSeq(bytes, m, n) \in Bytes((n - m) + 1)
         /\ SubSeq(bytes, m, n) \in Seq(0 .. Byte - 1)
         /\ Len(SubSeq(bytes, m, n)) = (n - m) + 1
<1> DEFINE S == 0 .. Byte - 1
<1>1. \A i \in m .. n : bytes[i] \in S
  BY DEF Bytes
<1>2. PICK s : s = SubSeq(bytes, m, n)
  OBVIOUS
<1>3. m \in Int /\ n \in Int
  OBVIOUS
<1> HIDE DEF S
<1>4. /\ s \in Seq(S)
      /\ Len(s) = IF m <= n THEN n - m + 1 ELSE 0
      /\ \A i \in 1 .. n - m + 1 : s[i] = bytes[m + i - 1]
  <2>1. /\ SubSeq(bytes, m, n) \in Seq(S)
        /\ Len(SubSeq(bytes, m, n)) = IF m <= n THEN n - m + 1 ELSE 0
        /\ \A i \in 1 .. n - m + 1 : SubSeq(bytes, m, n)[i] = bytes[m + i - 1]
    BY <1>1, <1>3, SubSeqProperties
  <2> QED
    BY <1>2, <2>1, Zenon
<1>5. Len(s) = (n - m) + 1
  BY <1>4
<1>6. s \in [1 .. Len(s) -> S]
  BY <1>4, LenProperties, Zenon
<1>7. \A i \in 1 .. (n - m) + 1 : s[i] = bytes[(m - 1) + i]
  <2> SUFFICES ASSUME NEW i \in 1 .. (n - m) + 1 PROVE s[i] = bytes[(m - 1) + i]
    OBVIOUS
  <2>1. i \in 1 .. n - m + 1 /\ m + i - 1 = (m - 1) + i
    OBVIOUS
  <2> QED
    BY <1>4, <2>1
<1>8. s \in [1 .. (n - m) + 1 -> S]
  BY <1>5, <1>6
<1>9. s = [i \in 1 .. (n - m) + 1 |-> bytes[(m - 1) + i]]
  BY <1>7, <1>8
<1>10. s \in Bytes((n - m) + 1)
  BY <1>8 DEF Bytes, S
<1> QED
  BY <1>2, <1>4, <1>5, <1>9, <1>10 DEF S

LEMMA PartIsSequence ==
  ASSUME NEW w \in Nat, NEW bytes \in Bytes(w), NEW m \in 1 .. w + 1, NEW n \in m - 1 .. w
  PROVE  /\ SubSeq(bytes, m, n) \in Seq(0 .. Byte - 1)
         /\ Len(SubSeq(bytes, m, n)) = (n - m) + 1
  BY Part

\* Byte strings are sequences.
LEMMA BytesAreSequences ==
  ASSUME NEW w \in Nat, NEW bytes \in Bytes(w)
  PROVE  bytes \in Seq(0 .. Byte - 1) /\ Len(bytes) = w /\ SubSeq(bytes, 1, w) = bytes
<1>1. 1 \in 1 .. w + 1 /\ w \in 1 - 1 .. w /\ (w - 1) + 1 = w
  OBVIOUS
<1>2. /\ SubSeq(bytes, 1, w) = [i \in 1 .. (w - 1) + 1 |-> bytes[(1 - 1) + i]]
      /\ SubSeq(bytes, 1, w) \in Seq(0 .. Byte - 1)
  BY <1>1, Part, Zenon
<1>3. SubSeq(bytes, 1, w) = bytes
  BY <1>2 DEF Bytes
<1>4. Len(bytes) = w
  BY DEF Bytes
<1> QED
  BY <1>2, <1>3, <1>4

\* The first n of no more than n bytes, and of more.
LEMMA FirstAre ==
  ASSUME NEW w \in Nat, NEW bytes \in Bytes(w), NEW n \in Nat
  PROVE  /\ w <= n => FirstBytes(bytes, n) = bytes
         /\ n <= w => FirstBytes(bytes, n) = LowPart(bytes, n)
<1>1. Len(bytes) = w /\ SubSeq(bytes, 1, w) = bytes
  BY BytesAreSequences
<1>2. ASSUME w <= n PROVE Min({n, w}) = w
  <2>1. w \in {n, w} /\ \A y \in {n, w} : w <= y
    BY <1>2
  <2>2. \A x \in {n, w} : (\A y \in {n, w} : x <= y) => x = w
    BY <1>2
  <2> QED
    BY <2>1, <2>2 DEF Min
<1>3. ASSUME n <= w PROVE Min({n, w}) = n
  <2>1. n \in {n, w} /\ \A y \in {n, w} : n <= y
    BY <1>3
  <2>2. \A x \in {n, w} : (\A y \in {n, w} : x <= y) => x = n
    BY <1>3
  <2> QED
    BY <2>1, <2>2 DEF Min
<1>4. ASSUME n <= w PROVE SubSeq(bytes, 1, n) = LowPart(bytes, n)
  <2>1. 1 \in 1 .. w + 1 /\ n \in 1 - 1 .. w /\ (n - 1) + 1 = n
    BY <1>4
  <2>2. SubSeq(bytes, 1, n) = [i \in 1 .. (n - 1) + 1 |-> bytes[(1 - 1) + i]]
    BY <2>1, Part, Zenon
  <2> QED
    BY <2>1, <2>2 DEF LowPart
<1> QED
  BY <1>1, <1>2, <1>3, <1>4 DEF FirstBytes

-----------------------------------------------------------------------------
(* Types                                                                   *)

\* The bounds of the two integer types.
LEMMA Maxima ==
  /\ Max32 \in Nat /\ Max32 + 1 = Power[Half]
  /\ Max64 \in Nat /\ Max64 + 1 = Power[2 * Half]
  /\ Half \in Nat /\ 2 * Half \in Nat
<1>1. Half \in Nat /\ 2 * Half \in Nat
  BY SearchAssumption
<1>2. Power[Half] \in Nat \ {0} /\ Power[2 * Half] \in Nat \ {0}
  BY <1>1, PowerSteps
<1> QED
  BY <1>1, <1>2 DEF Max32, Max64

\* Every target the pool sends is a string of at most twice Half bytes.
LEMMA TargetsAreBytes ==
  ASSUME NEW bytes \in JobTargets
  PROVE  \E n \in 0 .. 2 * Half : bytes \in Bytes(n)
<1>1. CASE \E n \in 0 .. Half : bytes \in Bytes(n)
  <2>1. PICK n \in 0 .. Half : bytes \in Bytes(n)
    BY <1>1
  <2>2. n \in 0 .. 2 * Half
    BY SearchAssumption
  <2> QED
    BY <2>1, <2>2
<1>2. CASE \E t \in LongTargets, width \in Half + 1 .. 2 * Half : bytes = ToLittle(t, width)
  <2>1. PICK t \in LongTargets, width \in Half + 1 .. 2 * Half : bytes = ToLittle(t, width)
    BY <1>2
  <2>2. width \in 0 .. 2 * Half /\ width \in Nat /\ t \in Nat
    BY SearchAssumption
  <2>3. bytes \in Bytes(width)
    BY <2>1, <2>2, WrittenAndRead
  <2> QED
    BY <2>2, <2>3
<1>3. \/ bytes \in UNION {Bytes(n) : n \in 0 .. Half}
      \/ bytes \in {ToLittle(t, width) : t \in LongTargets, width \in Half + 1 .. 2 * Half}
  BY DEF JobTargets
<1>4. bytes \in UNION {Bytes(n) : n \in 0 .. Half} => \E n \in 0 .. Half : bytes \in Bytes(n)
  BY Zenon
<1> QED
  BY <1>1, <1>2, <1>3, <1>4

\* What target_to_uint64 makes of them.
LEMMA TargetValues ==
  ASSUME NEW n \in 0 .. 2 * Half, NEW bytes \in Bytes(n)
  PROVE  /\ Len(bytes) = n
         /\ n > Half => TargetToUint64(bytes) = Little(bytes)
         /\ n <= Half => TargetToUint64(bytes)
                           = IF Little(bytes) = 0 THEN Max64 ELSE Max64 \div Little(bytes)
         /\ TargetToUint64(bytes) \in 0 .. Max64
<1>1. n \in Nat /\ 2 * Half \in Nat /\ n <= 2 * Half
  BY Maxima
<1>2. Len(bytes) = n
  BY <1>1, BytesAreSequences
<1>3. FirstBytes(bytes, 2 * Half) = bytes
  BY <1>1, FirstAre
<1>4. n > Half => TargetToUint64(bytes) = Little(bytes)
  BY <1>2, <1>3 DEF TargetToUint64
<1>5. n <= Half => TargetToUint64(bytes)
                     = IF Little(bytes) = 0 THEN Max64 ELSE Max64 \div Little(bytes)
  BY <1>1, <1>2, SearchAssumption DEF TargetToUint64
<1>6. Little(bytes) \in Nat /\ Little(bytes) < Power[n]
  BY <1>1, LittleBounds
<1>7. Power[n] <= Power[2 * Half]
  <2>1. PICK k \in Nat : 2 * Half = n + k
    <3>1. 2 * Half - n \in Nat /\ 2 * Half = n + (2 * Half - n)
      BY <1>1
    <3> QED
      BY <3>1, Zenon
  <2>2. Power[2 * Half] = Power[n] * Power[k]
    BY <1>1, <2>1, PowerAdds
  <2>3. Power[n] \in Nat /\ Power[k] \in Nat /\ 1 <= Power[k] /\ 1 \in Nat
    BY <1>1, PowerSteps
  <2>4. Power[n] * 1 <= Power[n] * Power[k]
    BY <2>3, Products
  <2> QED
    BY <2>2, <2>3, <2>4
<1>8. Little(bytes) \in 0 .. Max64
  <2>1. Power[n] \in Nat /\ Power[2 * Half] \in Nat
    BY <1>1, PowerSteps
  <2> QED
    BY <1>6, <1>7, <2>1, Maxima
<1>9. ASSUME NEW d \in Nat \ {0} PROVE Max64 \div d \in 0 .. Max64
  <2>1. PICK q \in Nat : q = Max64 \div d
    BY Maxima, Quotients
  <2>2. d * q <= Max64
    BY <2>1, Maxima, Quotients
  <2>3. 1 * q <= d * q
    <3>1. 1 \in Nat /\ d \in Nat /\ 1 <= d
      OBVIOUS
    <3> QED
      BY <3>1, Products
  <2>4. d * q \in Nat
    BY Products
  <2>5. q \in 0 .. Max64
    BY <2>2, <2>3, <2>4, Maxima
  <2> QED
    BY <2>1, <2>5
<1>10. TargetToUint64(bytes) \in 0 .. Max64
  <2>1. CASE n > Half
    BY <1>4, <1>8, <2>1
  <2>2. CASE n <= Half /\ Little(bytes) = 0
    BY <1>5, <2>2, Maxima
  <2>3. CASE n <= Half /\ Little(bytes) # 0
    BY <1>5, <1>6, <1>9, <2>3
  <2> QED
    BY <1>1, <2>1, <2>2, <2>3, Maxima
<1> QED
  BY <1>2, <1>4, <1>5, <1>10

\* The next nonce is a uint32_t again.
LEMMA NextNonceType ==
  ASSUME NEW n \in Nonces
  PROVE  /\ NextNonce(n) \in Nonces
         /\ n # Max32 => NextNonce(n) = n + 1
         /\ n = Max32 => NextNonce(n) = 0
<1>1. PICK m \in Nat : m = Max32
  BY Maxima
<1>2. n \in 0 .. m
  BY <1>1 DEF Nonces
<1>3. n # m => (n + 1) % (m + 1) = n + 1
  BY <1>2
<1>4. (m + 1) % (m + 1) = 0
  OBVIOUS
<1>5. NextNonce(n) = (n + 1) % (m + 1)
  BY <1>1 DEF NextNonce
<1>6. NextNonce(n) \in 0 .. m
  BY <1>2, <1>3, <1>4, <1>5
<1> QED
  BY <1>1, <1>3, <1>4, <1>5, <1>6 DEF Nonces

\* The target is the one of the job the thread works on.
TargetKept == id # 0 => target = TargetToUint64(sent[id])

\* What Next does, case by case, for TypeOK and TargetKept.
LEMMA TypeStep ==
  ASSUME TypeOK, TargetKept, [Next]_vars
  PROVE  TypeOK' /\ TargetKept'
<1>0. Len(sent) \in Nat /\ id \in 0 .. Len(sent)
  BY LenProperties DEF TypeOK
<1>1. ASSUME NEW bytes \in JobTargets, NewJob(bytes)
      PROVE  TypeOK' /\ TargetKept'
  <2>1. /\ sent' = Append(sent, bytes)
        /\ UNCHANGED <<id, target, nonce, walked>>
    BY <1>1 DEF NewJob
  <2>2. /\ sent' \in Seq(JobTargets) /\ Len(sent') = Len(sent) + 1
        /\ \A i \in 1 .. Len(sent) : sent'[i] = sent[i]
    BY <2>1, AppendProperties DEF TypeOK
  <2>3. TypeOK'
    BY <1>0, <2>1, <2>2 DEF TypeOK
  <2>4. id # 0 => id \in 1 .. Len(sent)
    BY <1>0
  <2> QED
    BY <2>1, <2>2, <2>3, <2>4 DEF TargetKept
<1>2. CASE CopyJob
  <2>1. /\ sent # <<>> /\ id' = Len(sent) /\ target' = TargetToUint64(Last(sent))
        /\ walked' \in {walked, {}} /\ UNCHANGED <<sent, nonce>>
    BY <1>2 DEF CopyJob
  <2>2. Len(sent) # 0
    BY <2>1, EmptySeq DEF TypeOK
  <2>3. sent[Len(sent)] \in JobTargets
    BY <1>0, <2>2, ElementOfSeq DEF TypeOK
  <2>4. target' \in 0 .. Max64
    BY <2>1, <2>3, TargetsAreBytes, TargetValues DEF Last
  <2>5. id' \in 0 .. Len(sent')
    BY <1>0, <2>1
  <2>6. walked' \subseteq Nonces
    BY <2>1 DEF TypeOK
  <2>7. TypeOK'
    BY <2>1, <2>4, <2>5, <2>6 DEF TypeOK
  <2> QED
    BY <2>1, <2>7 DEF TargetKept, Last
<1>3. CASE Miss
  BY <1>3, NextNonceType DEF Miss, TypeOK, TargetKept
<1>4. CASE Found
  BY <1>4 DEF Found, TypeOK, TargetKept
<1>5. CASE UNCHANGED vars
  BY <1>5 DEF vars, TypeOK, TargetKept
<1> QED
  BY <1>1, <1>2, <1>3, <1>4, <1>5 DEF Next

LEMMA TypeInit == Init => TypeOK /\ TargetKept
<1> SUFFICES ASSUME Init PROVE TypeOK /\ TargetKept
  OBVIOUS
<1>1. sent \in Seq(JobTargets) /\ Len(sent) = 0
  BY EmptySeq DEF Init
<1> QED
  BY <1>1, Maxima DEF Init, TypeOK, TargetKept

\* Every variable keeps its type, whatever the widths: neither the quotient of
\* a short target nor the nonce after the last leaves its integer type.
THEOREM TypeCorrect == Spec => []TypeOK
<1>1. TypeOK /\ TargetKept /\ [Next]_vars => (TypeOK /\ TargetKept)'
  BY TypeStep
<1> QED
  BY TypeInit, <1>1, PTL DEF Spec

-----------------------------------------------------------------------------
(* The walk through the nonces                                             *)

\* The nonces walked so far are a run that ends before the one to hash next:
\* each is followed by another one walked, or by the current one.
Walk == \A m \in walked : NextNonce(m) \in walked \/ NextNonce(m) = nonce

\* A set of nonces that has the next one of each of its own has them all.
LEMMA ClosedIsAll ==
  ASSUME NEW W, W \subseteq Nonces, W # {}, \A m \in W : NextNonce(m) \in W
  PROVE  W = Nonces
<1>1. PICK top \in Nat : top = Max32
  BY Maxima
<1>2. Nonces = 0 .. top
  BY <1>1 DEF Nonces
<1>3. \A m \in W : (m # top => m + 1 \in W) /\ (m = top => 0 \in W)
  BY <1>1, NextNonceType
<1>4. PICK w \in W : TRUE
  OBVIOUS
<1>5. top \in W
  <2> DEFINE S == {k \in Nat : w + k <= top => w + k \in W}
  <2>1. w \in Nat /\ w <= top
    BY <1>2
  <2>2. 0 \in S
    BY <1>4, <2>1
  <2>3. ASSUME NEW k \in Nat, k \in S PROVE k + 1 \in S
    BY <1>3, <2>1, <2>3
  <2> HIDE DEF S
  <2>4. top - w \in S
    BY <2>1, <2>2, <2>3, Induction
  <2> QED
    BY <2>1, <2>4 DEF S
<1>6. 0 \in W
  BY <1>3, <1>5
<1> DEFINE S == {k \in Nat : k <= top => k \in W}
<1>7. ASSUME NEW k \in Nat, k \in S PROVE k + 1 \in S
  <2> SUFFICES ASSUME k + 1 <= top PROVE k + 1 \in W
    OBVIOUS
  <2>1. k \in W /\ k # top
    BY <1>7
  <2> QED
    BY <1>3, <2>1
<1>8. 0 \in S
  BY <1>6
<1> HIDE DEF S
<1>9. \A k \in Nat : k \in S
  BY <1>7, <1>8, Induction
<1>10. Nonces \subseteq W
  BY <1>2, <1>9 DEF S
<1> QED
  BY <1>10

LEMMA WalkStep ==
  ASSUME TypeOK, Walk, [Next]_vars
  PROVE  Walk'
<1>1. ASSUME NEW bytes \in JobTargets, NewJob(bytes) PROVE Walk'
  BY <1>1 DEF NewJob, Walk
<1>2. CASE CopyJob
  <2>1. walked' \in {walked, {}} /\ nonce' = nonce
    BY <1>2 DEF CopyJob
  <2> QED
    BY <2>1 DEF Walk
<1>3. CASE Miss
  <2>1. walked' = walked \cup {nonce} /\ nonce' = NextNonce(nonce)
    BY <1>3 DEF Miss
  <2> QED
    BY <2>1, Zenon DEF Walk
<1>4. CASE Found
  BY <1>4 DEF Found, Walk
<1>5. CASE UNCHANGED vars
  BY <1>5 DEF vars, Walk
<1> QED
  BY <1>1, <1>2, <1>3, <1>4, <1>5 DEF Next

\* A thread that hashes a nonce a second time for one job has hashed all 2^32
\* of them since its last draw: wrapping round is the only way back.
THEOREM NoncesAreFresh == Spec => []NoncesFresh
<1>1. TypeOK /\ Walk => NoncesFresh
  <2> SUFFICES ASSUME TypeOK, Walk, nonce \in walked PROVE walked = Nonces
    BY DEF NoncesFresh
  <2>1. \A m \in walked : NextNonce(m) \in walked
    BY DEF Walk
  <2> QED
    BY <2>1, ClosedIsAll DEF TypeOK
<1>2. Init => Walk
  BY DEF Init, Walk
<1>3. TypeOK /\ Walk /\ [Next]_vars => Walk'
  BY WalkStep
<1> QED
  BY <1>1, <1>2, <1>3, TypeCorrect, PTL DEF Spec

-----------------------------------------------------------------------------
(* Targets                                                                 *)

\* Two numbers compare as they do with anything smaller than the weight in
\* front of the first.
LEMMA Weighted ==
  ASSUME NEW P \in Nat, NEW f \in Nat, NEW v \in Nat, NEW t \in Nat, f < P
  PROVE  v < t <=> f + P * v < P * t
<1>1. P * v \in Nat /\ P * t \in Nat
  BY Products
<1>2. ASSUME v < t PROVE f + P * v < P * t
  <2>1. v + 1 <= t /\ v + 1 \in Nat
    BY <1>2
  <2>2. P * (v + 1) <= P * t
    BY <2>1, Products
  <2>3. P * (v + 1) = P * v + P
    OBVIOUS
  <2> QED
    BY <1>1, <2>2, <2>3
<1>3. ASSUME t <= v PROVE ~(f + P * v < P * t)
  <2>1. P * t <= P * v
    BY <1>3, Products
  <2> QED
    BY <1>1, <2>1
<1> QED
  BY <1>2, <1>3

\* The last eight bytes of a hash decide as all of it does.
LEMMA HashesCompared ==
  ASSUME NEW hash \in Bytes(HashLen), NEW t \in Nat
  PROVE  MeetsTarget(HashValue(hash), t)
           <=> Little(hash) < Power[HashLen - 2 * Half] * t
<1>1. PICK m \in Nat, n \in Nat : n = 2 * Half /\ m = HashLen - 2 * Half
  <2>1. 2 * Half \in Nat /\ HashLen - 2 * Half \in Nat
    BY SearchAssumption
  <2> QED
    BY <2>1
<1>2. HashLen = m + n
  BY <1>1, SearchAssumption
<1>3. hash \in Bytes(m + n) /\ m + n \in Nat
  BY <1>2
<1>4. Len(hash) = m + n
  BY <1>3, BytesAreSequences
<1>5. SubSeq(hash, (m + n) - n + 1, m + n) = HighPart(hash, m, n)
  <2>1. /\ m + 1 \in 1 .. (m + n) + 1 /\ m + n \in (m + 1) - 1 .. m + n
        /\ ((m + n) - (m + 1)) + 1 = n /\ (m + 1) - 1 = m /\ (m + n) - n + 1 = m + 1
    OBVIOUS
  <2>2. SubSeq(hash, m + 1, m + n)
          = [i \in 1 .. ((m + n) - (m + 1)) + 1 |-> hash[((m + 1) - 1) + i]]
    BY <1>3, <2>1, Part, Zenon
  <2> QED
    BY <2>1, <2>2 DEF HighPart
<1>6. HashValue(hash) = Little(HighPart(hash, m, n))
  BY <1>1, <1>4, <1>5 DEF HashValue
<1>7. /\ LowPart(hash, m) \in Bytes(m) /\ HighPart(hash, m, n) \in Bytes(n)
      /\ Little(hash) = Little(LowPart(hash, m)) + Power[m] * Little(HighPart(hash, m, n))
  BY <1>3, LittleSplit
<1>8. PICK f \in Nat, v \in Nat, P \in Nat :
        f = Little(LowPart(hash, m)) /\ v = Little(HighPart(hash, m, n)) /\ P = Power[m]
  BY <1>7, LittleBounds, PowerSteps
<1>9. f < P
  BY <1>7, <1>8, LittleBounds
<1>10. v < t <=> f + P * v < P * t
  BY <1>9, Weighted
<1> QED
  BY <1>1, <1>6, <1>7, <1>8, <1>10, Zenon DEF MeetsTarget

\* The helpers read back what they have written.
LEMMA HelpersReadBack ==
  ASSUME NEW t \in 0 .. Max64
  PROVE  /\ CompactToUint64(Uint64ToCompact(t)) = t
         /\ TargetToUint64(Reverse(Uint64ToCompact(t))) = t
<1>1. PICK n \in Nat : n = 2 * Half
  BY Maxima
<1>2. t \in Nat /\ t < Power[n]
  BY <1>1, Maxima
<1>3. PICK b : b = ToLittle(t, n)
  OBVIOUS
<1>4. b \in Bytes(n) /\ Little(b) = t
  BY <1>2, <1>3, WrittenAndRead, ReadBack
<1>5. Reverse(b) \in Bytes(n) /\ Reverse(Reverse(b)) = b
  BY <1>4, Reversed
<1>6. Uint64ToCompact(t) = Reverse(b)
  BY <1>1, <1>3 DEF Uint64ToCompact, ToBig
<1>7. FirstBytes(Reverse(b), n) = Reverse(b)
  <2>1. n <= n
    OBVIOUS
  <2> QED
    BY <1>5, <2>1, FirstAre
<1>8. CompactToUint64(Uint64ToCompact(t)) = t
  BY <1>1, <1>4, <1>5, <1>6, <1>7 DEF CompactToUint64, Big
<1>9. n \in 0 .. 2 * Half /\ n > Half
  BY <1>1, SearchAssumption
<1>10. TargetToUint64(b) = t
  BY <1>4, <1>9, TargetValues
<1> QED
  BY <1>5, <1>6, <1>8, <1>10

\* What the invariant says of the current target.
LEMMA TargetKnown ==
  ASSUME TypeOK, TargetKept, id # 0
  PROVE  \E n \in 0 .. 2 * Half :
           sent[id] \in Bytes(n) /\ target = TargetToUint64(sent[id])
<1>1. id \in 1 .. Len(sent)
  BY LenProperties DEF TypeOK
<1>2. sent[id] \in JobTargets
  BY <1>1, ElementOfSeq DEF TypeOK
<1>3. PICK n \in 0 .. 2 * Half : sent[id] \in Bytes(n)
  BY <1>2, TargetsAreBytes
<1> QED
  BY <1>3 DEF TargetKept

LEMMA LongExact ==
  ASSUME TypeOK, TargetKept
  PROVE  LongTargetsExact
<1>1. ASSUME id # 0, Len(sent[id]) > Half, NEW hash \in Bytes(HashLen)
      PROVE  MeetsTarget(HashValue(hash), target)
               <=> Little(hash) < Power[HashLen - 2 * Half] * Little(sent[id])
  <2>1. PICK n \in 0 .. 2 * Half : /\ sent[id] \in Bytes(n)
                                   /\ target = TargetToUint64(sent[id])
    BY <1>1, TargetKnown
  <2>2. target = Little(sent[id])
    BY <1>1, <2>1, TargetValues
  <2>3. target \in Nat
    BY Maxima DEF TypeOK
  <2> QED
    BY <2>2, <2>3, HashesCompared
<1>2. /\ CompactToUint64(Uint64ToCompact(target)) = target
      /\ TargetToUint64(Reverse(Uint64ToCompact(target))) = target
  BY HelpersReadBack DEF TypeOK
<1> QED
  BY <1>1, <1>2 DEF LongTargetsExact

-----------------------------------------------------------------------------
(* Blobs                                                                   *)

\* The bytes of a blob that holds a nonce.
LEMMA FilledBytes ==
  ASSUME NEW w \in Nat, w >= NonceAt + Half, NEW blob \in Bytes(w), NEW v \in Nat
  PROVE  /\ WithNonce(blob, v) \in Bytes(w)
         /\ SubSeq(WithNonce(blob, v), NonceAt + 1, NonceAt + Half) = ToLittle(v, Half)
         /\ \A k \in 1 .. w : WithNonce(blob, v)[k]
              = IF k > NonceAt /\ k <= NonceAt + Half THEN ToLittle(v, Half)[k - NonceAt] ELSE blob[k]
<1>1. PICK a \in Nat, h \in Nat : a = NonceAt /\ h = Half
  BY SearchAssumption
<1>2. PICK b \in Bytes(h) : b = ToLittle(v, h)
  BY WrittenAndRead
<1>3. PICK f : f = WithNonce(blob, v)
  OBVIOUS
<1>4. DOMAIN blob = 1 .. w
  BY DEF Bytes
<1>5. f = [k \in 1 .. w |-> IF k > a /\ k <= a + h THEN b[k - a] ELSE blob[k]]
  BY <1>1, <1>2, <1>3, <1>4 DEF WithNonce
<1>6. ASSUME NEW k \in 1 .. w
      PROVE  (IF k > a /\ k <= a + h THEN b[k - a] ELSE blob[k]) \in 0 .. Byte - 1
  <2>1. CASE k > a /\ k <= a + h
    <3>1. k - a \in 1 .. h
      BY <2>1
    <3> QED
      BY <2>1, <3>1 DEF Bytes
  <2>2. CASE ~(k > a /\ k <= a + h)
    BY <2>2 DEF Bytes
  <2> QED
    BY <2>1, <2>2
<1>7. f \in Bytes(w)
  BY <1>5, <1>6 DEF Bytes
<1>8. SubSeq(f, a + 1, a + h) = b
  <2>1. /\ a + 1 \in 1 .. w + 1 /\ a + h \in (a + 1) - 1 .. w
        /\ ((a + h) - (a + 1)) + 1 = h /\ (a + 1) - 1 = a
    BY <1>1
  <2>2. SubSeq(f, a + 1, a + h) = [i \in 1 .. ((a + h) - (a + 1)) + 1 |-> f[((a + 1) - 1) + i]]
    BY <1>7, <2>1, Part, Zenon
  <2>3. SubSeq(f, a + 1, a + h) = [i \in 1 .. h |-> f[a + i]]
    BY <2>1, <2>2
  <2>4. ASSUME NEW i \in 1 .. h PROVE f[a + i] = b[i]
    <3>1. a + i \in 1 .. w /\ a + i > a /\ a + i <= a + h /\ (a + i) - a = i
      BY <1>1
    <3> QED
      BY <1>5, <3>1
  <2>5. b = [i \in 1 .. h |-> b[i]]
    BY DEF Bytes
  <2> QED
    BY <2>3, <2>4, <2>5
<1> QED
  BY <1>1, <1>2, <1>3, <1>5, <1>7, <1>8

\* A nonce is read back, and putting the old one back restores the blob.
LEMMA NonceReadBack ==
  ASSUME NEW w \in Nat, w >= NonceAt + Half, NEW blob \in Bytes(w), NEW v \in Nonces
  PROVE  /\ ExtractNonce(WithNonce(blob, v)) = v
         /\ WithNonce(WithNonce(blob, v), ExtractNonce(blob)) = blob
<1>1. v \in Nat /\ v < Power[Half] /\ Half \in Nat /\ NonceAt \in Nat
  BY Maxima, SearchAssumption DEF Nonces
<1>2. PICK f \in Bytes(w) : f = WithNonce(blob, v)
  BY <1>1, FilledBytes
<1>3. SubSeq(f, NonceAt + 1, NonceAt + Half) = ToLittle(v, Half)
  BY <1>1, <1>2, FilledBytes
<1>4. ExtractNonce(f) = v
  BY <1>1, <1>3, ReadBack DEF ExtractNonce
<1>5. PICK part : part = SubSeq(blob, NonceAt + 1, NonceAt + Half)
  OBVIOUS
<1>6. part \in Bytes(Half) /\ part = [i \in 1 .. Half |-> blob[NonceAt + i]]
  <2>1. /\ NonceAt + 1 \in 1 .. w + 1 /\ NonceAt + Half \in (NonceAt + 1) - 1 .. w
        /\ ((NonceAt + Half) - (NonceAt + 1)) + 1 = Half /\ (NonceAt + 1) - 1 = NonceAt
    BY <1>1
  <2>2. /\ SubSeq(blob, NonceAt + 1, NonceAt + Half)
             = [i \in 1 .. ((NonceAt + Half) - (NonceAt + 1)) + 1 |-> blob[((NonceAt + 1) - 1) + i]]
        /\ SubSeq(blob, NonceAt + 1, NonceAt + Half)
             \in Bytes(((NonceAt + Half) - (NonceAt + 1)) + 1)
    BY <2>1, Part, Zenon
  <2> QED
    BY <1>5, <2>1, <2>2
<1>7. PICK u \in Nat : u = ExtractNonce(blob)
  BY <1>1, <1>5, <1>6, LittleBounds DEF ExtractNonce
<1>8. ToLittle(u, Half) = part
  BY <1>1, <1>5, <1>6, <1>7, WrittenBack DEF ExtractNonce
<1>9. PICK g \in Bytes(w) : g = WithNonce(f, u)
  BY <1>1, FilledBytes
<1>10. ASSUME NEW k \in 1 .. w PROVE g[k] = blob[k]
  <2>1. g[k] = IF k > NonceAt /\ k <= NonceAt + Half THEN ToLittle(u, Half)[k - NonceAt] ELSE f[k]
    BY <1>9, FilledBytes
  <2>2. f[k] = IF k > NonceAt /\ k <= NonceAt + Half THEN ToLittle(v, Half)[k - NonceAt] ELSE blob[k]
    BY <1>1, <1>2, FilledBytes
  <2>3. CASE k > NonceAt /\ k <= NonceAt + Half
    <3>1. k - NonceAt \in 1 .. Half /\ NonceAt + (k - NonceAt) = k
      BY <1>1, <2>3
    <3>2. part[k - NonceAt] = blob[k]
      BY <1>6, <3>1
    <3> QED
      BY <1>8, <2>1, <2>3, <3>2
  <2>4. CASE ~(k > NonceAt /\ k <= NonceAt + Half)
    BY <2>1, <2>2, <2>4
  <2> QED
    BY <2>3, <2>4
<1>11. g = blob
  <2>1. g = [k \in 1 .. w |-> g[k]] /\ blob = [k \in 1 .. w |-> blob[k]]
    BY DEF Bytes
  <2> QED
    BY <1>10, <2>1
<1> QED
  BY <1>2, <1>4, <1>7, <1>9, <1>11

\* What stands where in a sequence that is s, t and u one behind the other.
Composed(whole, s, t, u) ==
  /\ \A i, j \in 1 .. Len(s) : SubSeq(whole, i, j) = SubSeq(s, i, j)
  /\ SubSeq(whole, Len(s) + 1, Len(whole)) = t \o u

LEMMA ThreeParts ==
  ASSUME NEW S, NEW s \in Seq(S), NEW t \in Seq(S), NEW u \in Seq(S), Len(t) # 0
  PROVE  Composed((s \o t) \o u, s, t, u)
<1>1. PICK r \in Seq(S) : r = t \o u /\ Len(r) = Len(t) + Len(u)
  <2>1. t \o u \in Seq(S) /\ Len(t \o u) = Len(t) + Len(u)
    BY ConcatProperties
  <2> QED
    BY <2>1
<1>2. (s \o t) \o u = s \o r
  BY <1>1, ConcatAssociative
<1>3. Len(s \o r) = Len(s) + Len(r)
  BY ConcatProperties
<1>4. \A i, j \in 1 .. Len(s) : SubSeq(s \o r, i, j) = SubSeq(s, i, j)
  BY SubSeqOfConcat1
<1>5. Len(s) \in Nat /\ Len(r) \in Nat \ {0}
  <2>1. Len(s) \in Nat /\ Len(t) \in Nat /\ Len(u) \in Nat
    BY LenProperties
  <2> QED
    BY <1>1, <2>1
<1>6. /\ Len(s) + 1 \in Len(s) + 1 .. Len(s) + Len(r)
      /\ Len(s) + Len(r) \in Len(s) + 1 .. Len(s) + Len(r)
      /\ (Len(s) + 1) - Len(s) = 1 /\ (Len(s) + Len(r)) - Len(s) = Len(r)
  BY <1>5
<1>7. SubSeq(s \o r, Len(s) + 1, Len(s) + Len(r))
        = SubSeq(r, (Len(s) + 1) - Len(s), (Len(s) + Len(r)) - Len(s))
  BY <1>6, SubSeqOfConcat2
<1>8. SubSeq(r, 1, Len(r)) = r
  BY SubSeqFull
<1> QED
  BY <1>1, <1>2, <1>3, <1>4, <1>6, <1>7, <1>8 DEF Composed

\* An extra nonce goes in behind the nonce and leaves all before it.
LEMMA ExtraBehind ==
  ASSUME NEW w \in Nat, w >= NonceAt + Half, NEW f \in Bytes(w),
         NEW x \in Nat \ {0}, NEW extra \in Bytes(x)
  PROVE  /\ ExtractNonce(InsertExtraNonce(f, extra)) = ExtractNonce(f)
         /\ ExtractExtraNonce(InsertExtraNonce(f, extra)) = extra \o ExtractExtraNonce(f)
<1> DEFINE S == 0 .. Byte - 1
<1>1. PICK a \in Nat, n \in Nat : a = NonceAt /\ n = NonceAt + Half /\ a + 1 <= n /\ n <= w
  <2>1. NonceAt \in Nat /\ NonceAt + Half \in Nat /\ NonceAt + 1 <= NonceAt + Half
    BY SearchAssumption
  <2> QED
    BY <2>1
<1>2. f \in Seq(S) /\ Len(f) = w /\ extra \in Seq(S) /\ Len(extra) = x
  BY BytesAreSequences
<1>3. PICK head \in Seq(S) : head = SubSeq(f, 1, n) /\ Len(head) = n
  <2>1. 1 \in 1 .. w + 1 /\ n \in 1 - 1 .. w /\ (n - 1) + 1 = n
    BY <1>1
  <2>2. SubSeq(f, 1, n) \in Seq(S) /\ Len(SubSeq(f, 1, n)) = (n - 1) + 1
    BY <2>1, PartIsSequence, Zenon
  <2> QED
    BY <2>1, <2>2
<1>4. PICK tail \in Seq(S) : tail = SubSeq(f, n + 1, w) /\ Len(tail) = w - n
  <2>1. n + 1 \in 1 .. w + 1 /\ w \in (n + 1) - 1 .. w /\ (w - (n + 1)) + 1 = w - n
    BY <1>1
  <2>2. SubSeq(f, n + 1, w) \in Seq(S) /\ Len(SubSeq(f, n + 1, w)) = (w - (n + 1)) + 1
    BY <2>1, PartIsSequence, Zenon
  <2> QED
    BY <2>1, <2>2
<1> HIDE DEF S
<1>5. PICK longer : longer = (head \o extra) \o tail /\ longer = InsertExtraNonce(f, extra)
  BY <1>1, <1>2, <1>3, <1>4 DEF InsertExtraNonce
<1>6. Len(extra) # 0
  BY <1>2
<1>7. /\ \A i, j \in 1 .. Len(head) : SubSeq(longer, i, j) = SubSeq(head, i, j)
      /\ SubSeq(longer, Len(head) + 1, Len(longer)) = extra \o tail
  <2>1. head \in Seq(S) /\ extra \in Seq(S) /\ tail \in Seq(S)
    BY <1>2, <1>3, <1>4
  <2>2. Composed((head \o extra) \o tail, head, extra, tail)
    BY <1>6, <2>1, ThreeParts, Zenon
  <2> QED
    BY <1>5, <2>2, Zenon DEF Composed
<1>8. SubSeq(longer, a + 1, n) = SubSeq(head, a + 1, n)
  <2>1. a + 1 \in 1 .. Len(head) /\ n \in 1 .. Len(head)
    BY <1>1, <1>3
  <2> QED
    BY <1>7, <2>1
<1>9. SubSeq(head, a + 1, n) = SubSeq(f, a + 1, n)
  <2>1. /\ 1 \in 1 .. Len(f) /\ n \in 1 .. Len(f)
        /\ a + 1 \in 1 .. n - 1 + 1 /\ n \in 1 .. n - 1 + 1
        /\ 1 + (a + 1) - 1 = a + 1 /\ 1 + n - 1 = n
    BY <1>1, <1>2
  <2>2. SubSeq(SubSeq(f, 1, n), a + 1, n) = SubSeq(f, 1 + (a + 1) - 1, 1 + n - 1)
    BY <1>2, <2>1, SubSeqOfSubSeq
  <2> QED
    BY <1>3, <2>1, <2>2
<1>10. SubSeq(longer, n + 1, Len(longer)) = extra \o tail
  BY <1>3, <1>7
<1>11. ExtractNonce(longer) = ExtractNonce(f)
  BY <1>1, <1>8, <1>9 DEF ExtractNonce
<1>12. ExtractExtraNonce(longer) = extra \o tail /\ ExtractExtraNonce(f) = tail
  BY <1>1, <1>2, <1>4, <1>10 DEF ExtractExtraNonce
<1> QED
  BY <1>5, <1>11, <1>12

\* A nonce changes nothing behind itself.
LEMMA BehindKept ==
  ASSUME NEW w \in Nat, w >= NonceAt + Half, NEW blob \in Bytes(w), NEW v \in Nat
  PROVE  ExtractExtraNonce(WithNonce(blob, v)) = ExtractExtraNonce(blob)
<1>1. PICK n \in Nat : n = NonceAt + Half /\ n <= w
  <2>1. NonceAt + Half \in Nat
    BY SearchAssumption
  <2> QED
    BY <2>1
<1>2. PICK f \in Bytes(w) : f = WithNonce(blob, v)
  BY FilledBytes
<1>3. n + 1 \in 1 .. w + 1 /\ w \in (n + 1) - 1 .. w /\ (n + 1) - 1 = n
  BY <1>1
<1>4. SubSeq(f, n + 1, w) = [i \in 1 .. (w - (n + 1)) + 1 |-> f[((n + 1) - 1) + i]]
  BY <1>3, Part, Zenon
<1>5. SubSeq(blob, n + 1, w) = [i \in 1 .. (w - (n + 1)) + 1 |-> blob[((n + 1) - 1) + i]]
  BY <1>3, Part, Zenon
<1>6. ASSUME NEW i \in 1 .. (w - (n + 1)) + 1
      PROVE  f[((n + 1) - 1) + i] = blob[((n + 1) - 1) + i]
  <2>1. PICK k \in 1 .. w : k = ((n + 1) - 1) + i /\ k > n
    BY <1>1
  <2>2. f[k] = IF k > NonceAt /\ k <= NonceAt + Half THEN ToLittle(v, Half)[k - NonceAt]
              ELSE blob[k]
    BY <1>2, FilledBytes
  <2>3. ~(k > NonceAt /\ k <= NonceAt + Half)
    BY <1>1, <2>1
  <2>4. f[k] = blob[k]
    BY <2>2, <2>3
  <2> QED
    BY <2>1, <2>4
<1>7. SubSeq(f, n + 1, w) = SubSeq(blob, n + 1, w)
  BY <1>4, <1>5, <1>6
<1>8. Len(f) = w /\ Len(blob) = w
  BY BytesAreSequences
<1> QED
  BY <1>1, <1>2, <1>7, <1>8 DEF ExtractExtraNonce

LEMMA BlobsSound ==
  ASSUME TypeOK
  PROVE  BlobsKept
<1> SUFFICES ASSUME NEW blob \in Bytes(MinBlob)
             PROVE  LET filled == WithNonce(blob, nonce)
                        longer == InsertExtraNonce(filled, <<1>>)
                    IN  /\ BlobValid(filled)
                        /\ ExtractNonce(filled) = nonce
                        /\ WithNonce(filled, ExtractNonce(blob)) = blob
                        /\ ExtractNonce(longer) = nonce
                        /\ ExtractExtraNonce(longer) = <<1>> \o ExtractExtraNonce(blob)
  BY DEF BlobsKept
<1>1. MinBlob \in Nat /\ MinBlob >= NonceAt + Half
  BY SearchAssumption
<1>2. nonce \in Nonces /\ nonce \in Nat
  BY Maxima DEF TypeOK, Nonces
<1>3. PICK filled \in Bytes(MinBlob) : filled = WithNonce(blob, nonce)
  BY <1>1, <1>2, FilledBytes
<1>4. Len(filled) = MinBlob
  BY <1>1, BytesAreSequences
<1>5. BlobValid(filled)
  BY <1>1, <1>4 DEF BlobValid
<1>6. /\ ExtractNonce(filled) = nonce
      /\ WithNonce(filled, ExtractNonce(blob)) = blob
  BY <1>1, <1>2, <1>3, NonceReadBack
<1>7. PICK extra \in Bytes(1) : extra = <<1>>
  <2>1. <<1>> \in [1 .. 1 -> 0 .. Byte - 1]
    BY SearchAssumption
  <2> QED
    BY <2>1 DEF Bytes
<1>8. PICK longer : longer = InsertExtraNonce(filled, extra)
  OBVIOUS
<1>9. /\ ExtractNonce(longer) = ExtractNonce(filled)
      /\ ExtractExtraNonce(longer) = extra \o ExtractExtraNonce(filled)
  <2>1. 1 \in Nat \ {0}
    OBVIOUS
  <2> QED
    BY <1>1, <1>8, <2>1, ExtraBehind
<1>10. ExtractExtraNonce(filled) = ExtractExtraNonce(blob)
  BY <1>1, <1>2, <1>3, BehindKept
<1> QED
  BY <1>3, <1>5, <1>6, <1>7, <1>8, <1>9, <1>10

\* For every long target, nonce, blob and hash of the real widths: the eight
\* bytes decide as the whole hash would, and what is written is read back.  Of
\* short targets it says nothing.
THEOREM ConversionsAreExact == Spec => []ConversionsExact
<1>1. TypeOK /\ TargetKept => ConversionsExact
  BY LongExact, BlobsSound DEF ConversionsExact
<1>2. TypeOK /\ TargetKept /\ [Next]_vars => (TypeOK /\ TargetKept)'
  BY TypeStep
<1> QED
  BY TypeInit, <1>1, <1>2, PTL DEF Spec

=============================================================================
