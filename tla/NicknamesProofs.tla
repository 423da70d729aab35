---------------------------- MODULE NicknamesProofs ----------------------------
(***************************************************************************)
(* What holds of Nicknames for pools of any size and any number of         *)
(* members and requests: that the walk over the pairs is complete, and     *)
(* that neither recommendations nor suffixes are given twice.              *)
(***************************************************************************)
EXTENDS Nicknames, FiniteSetTheorems, WellFoundedInduction, TLAPS

-------------------------------------------------------------------------------
(* Arithmetic: division with remainder, and what it is determined by.      *)
LEMMA Least ==
    ASSUME NEW S \in SUBSET Nat, S # {}
    PROVE  \E n \in S : \A k \in S : n <= k
<1> DEFINE R == OpToRel(<, Nat)
<1>1. IsWellFoundedOn(R, Nat)
  BY NatLessThanWellFounded
<1>2. \A x, y \in Nat : y < x => <<y, x>> \in R
  BY DEF OpToRel
<1> HIDE DEF R
<1>3. PICK n \in S : \A k \in S : <<k, n>> \notin R
  BY <1>1, WFMin
<1>4. \A k \in S : ~(k < n)
  BY <1>2, <1>3
<1> QED
  BY <1>3, <1>4

LEMMA Division ==
    ASSUME NEW a \in Nat, NEW b \in Nat \ {0}
    PROVE  /\ a \div b \in Nat /\ a % b \in 0 .. b - 1
           /\ a = (a \div b) * b + (a % b)
OBVIOUS

LEMMA NoMultiple ==
    ASSUME NEW b \in Nat \ {0}, NEW p \in Nat, NEW q \in Nat, NEW r \in 0 .. b - 1,
           NEW s \in 0 .. b - 1, p * b + r = q * b + s
    PROVE  p = q /\ r = s
<1>1. ASSUME NEW x \in Nat, NEW y \in Nat, x < y PROVE x * b + b <= y * b
  <2>1. (y - x - 1) * b >= 0
    BY <1>1
  <2> QED
    BY <2>1
<1>2. ~(p < q)
  BY <1>1
<1>3. ~(q < p)
  BY <1>1
<1> QED
  BY <1>2, <1>3

LEMMA Remainder ==
    ASSUME NEW b \in Nat \ {0}, NEW q \in Nat, NEW r \in 0 .. b - 1
    PROVE  (q * b + r) \div b = q /\ (q * b + r) % b = r
<1> DEFINE a == q * b + r
<1>1. a \in Nat
  OBVIOUS
<1>2. /\ a \div b \in Nat /\ a % b \in 0 .. b - 1
      /\ a = (a \div b) * b + (a % b)
  BY <1>1, Division
<1> HIDE DEF a
<1>3. a \div b = q /\ a % b = r
  <2>1. a = q * b + r
    BY DEF a
  <2>2. (a \div b) * b + (a % b) = q * b + r
    BY <1>2, <2>1
  <2> QED
    BY <1>2, <2>2, NoMultiple
<1> QED
  BY <1>3 DEF a

(* d divides a when a is a multiple of it.                                 *)
LEMMA Multiples ==
    ASSUME NEW a \in Nat, NEW d \in Nat \ {0}
    PROVE  Divides(d, a) <=> \E q \in Nat : a = q * d
<1>1. ASSUME Divides(d, a) PROVE \E q \in Nat : a = q * d
  <2>1. a = (a \div d) * d + 0 /\ a \div d \in Nat
    BY <1>1, Division DEF Divides
  <2> QED
    BY <2>1
<1>2. ASSUME NEW q \in Nat, a = q * d PROVE Divides(d, a)
  <2>1. (q * d + 0) % d = 0 /\ q * d + 0 = q * d
    BY Remainder
  <2> QED
    BY <1>2, <2>1 DEF Divides
<1> QED
  BY <1>1, <1>2

-------------------------------------------------------------------------------
(* Two numbers are coprime when only 1 divides both; the loop of gcd       *)
(* answers 1 for no others.                                                *)
Coprime(a, b) == \A d \in 1 .. b : Divides(d, a) /\ Divides(d, b) => d = 1

LEMMA GreatestExists ==
    ASSUME NEW b \in Nat \ {0}, NEW S \in SUBSET (1 .. b), S # {}
    PROVE  \E d \in S : \A c \in d + 1 .. b : c \notin S
<1> DEFINE Above == {n \in Nat : \A l \in S : l <= n}
<1>1. b \in Above /\ Above \in SUBSET Nat
  OBVIOUS
<1>2. PICK n \in Above : \A k \in Above : n <= k
  BY <1>1, Least
<1>3. n \in Nat /\ \A l \in S : l <= n /\ l \in 1 .. b
  BY <1>2
<1>0. n >= 1
  <2>1. PICK l \in S : TRUE
    OBVIOUS
  <2> QED
    BY <1>3, <2>1
<1>4. n \in S
  <2> SUFFICES ASSUME n \notin S PROVE FALSE
    OBVIOUS
  <2>1. \A l \in S : l <= n - 1
    BY <1>3
  <2>2. n - 1 \in Nat
    BY <1>0, <1>3
  <2>3. n - 1 \in Above
    BY <2>1, <2>2
  <2> QED
    BY <1>2, <1>3, <2>3
<1> QED
  BY <1>3, <1>4

LEMMA GcdIsOne ==
    ASSUME NEW a \in Nat, NEW b \in Nat \ {0}
    PROVE  Gcd(a, b) = 1 <=> Coprime(a, b)
<1> DEFINE S == {d \in 1 .. b : Divides(d, a) /\ Divides(d, b)}
           Greatest(d) == d \in S /\ \A c \in d + 1 .. b : c \notin S
<1>1. 1 \in S
  <2>1. a = a * 1 /\ b = b * 1
    OBVIOUS
  <2> QED
    BY <2>1, Multiples
<1>2. PICK d \in S : \A c \in d + 1 .. b : c \notin S
  BY <1>1, GreatestExists
<1>3. Gcd(a, b) = CHOOSE e \in 1 .. b : Greatest(e)
  BY DEF Gcd
<1>4. Gcd(a, b) \in 1 .. b /\ Greatest(Gcd(a, b))
  <2>1. d \in 1 .. b /\ Greatest(d)
    BY <1>2
  <2> HIDE DEF Greatest
  <2> QED
    BY <1>3, <2>1
<1>5. Coprime(a, b) <=> \A e \in S : e = 1
  BY DEF Coprime
<1> HIDE DEF S
<1>6. S \subseteq 1 .. b
  BY DEF S
<1> QED
  BY <1>1, <1>4, <1>5, <1>6

(* The search goes round all the numbers, so it comes to 1 at the latest.  *)
LEMMA StepIsCoprime ==
    ASSUME NEW total \in Nat \ {0}
    PROVE  PickCoprimeStep(total) \in Nat \ {0} /\ Coprime(PickCoprimeStep(total), total)
<1> DEFINE start == IF 97 % total = 0 THEN 1 ELSE 97 % total
           nth(k) == IF start + k < total THEN start + k ELSE start + k - total + 1
           Found == {k \in 0 .. total : Gcd(nth(k), total) = 1}
           First(k) == /\ Gcd(nth(k), total) = 1
                       /\ \A j \in 0 .. k - 1 : Gcd(nth(j), total) # 1
           k0 == CHOOSE k \in 0 .. total : First(k)
<1>1. start \in 1 .. total
  BY Division
<1> HIDE DEF start
<1>2. \A k \in 0 .. total : nth(k) \in Nat \ {0}
  BY <1>1
<1>3. \E k \in 0 .. total : nth(k) = 1
  <2>1. total - start \in 0 .. total /\ nth(total - start) = 1
    BY <1>1
  <2> QED
    BY <2>1
<1>4. Gcd(1, total) = 1
  <2>1. ASSUME NEW d \in 1 .. total, Divides(d, 1) PROVE d = 1
    <3>1. PICK q \in Nat : 1 = q * d
      BY <2>1, Multiples
    <3>2. q # 0
      BY <3>1
    <3> QED
      BY <3>1, <3>2
  <2> QED
    BY <2>1, GcdIsOne DEF Coprime
<1> HIDE DEF nth
<1>5. Found # {} /\ Found \in SUBSET Nat
  BY <1>3, <1>4
<1>6. PICK n \in Found : \A k \in Found : n <= k
  BY <1>5, Least
<1>7. n \in 0 .. total /\ First(n)
  BY <1>6
<1>8. k0 \in 0 .. total /\ First(k0)
  <2> HIDE DEF First
  <2> QED
    BY <1>7
<1>9. PickCoprimeStep(total) = nth(k0)
  BY DEF PickCoprimeStep, start, nth
<1>10. Gcd(nth(k0), total) = 1 /\ nth(k0) \in Nat \ {0}
  BY <1>2, <1>8
<1> QED
  BY <1>9, <1>10, GcdIsOne

(* Of the multiples of a that n divides, the least but 0 divides them all, *)
(* a times n among them, so if it is less than a times n then a and n have *)
(* a divisor in common.                                                    *)
LEMMA DividesFactor ==
    ASSUME NEW a \in Nat \ {0}, NEW n \in Nat \ {0}, Coprime(a, n),
           NEW k \in Nat, NEW c \in Nat, k * a = c * n
    PROVE  \E q \in Nat : k = q * n
<1> DEFINE S == {j \in Nat \ {0} : \E e \in Nat : j * a = e * n}
<1>1. n \in S
  <2>1. n * a = a * n
    OBVIOUS
  <2> QED
    BY <2>1
<1>2. PICK m \in S : \A j \in S : m <= j
  BY <1>1, Least
<1>3. PICK e \in Nat : m * a = e * n
  BY <1>2
<1>4. m \in Nat \ {0}
  BY <1>2
<1>5. ASSUME NEW j \in Nat, NEW f \in Nat, j * a = f * n
      PROVE  \E q \in Nat : j = q * m
  <2> DEFINE q == j \div m
             r == j % m
  <2>1. q \in Nat /\ r \in 0 .. m - 1 /\ j = q * m + r
    BY <1>4, Division
  <2> HIDE DEF q, r
  <2>2. r * a = (f - q * e) * n
    <3>1. j * a = q * (m * a) + r * a
      BY <1>4, <2>1
    <3>2. f * n = q * (e * n) + r * a
      BY <1>3, <1>5, <3>1
    <3> QED
      BY <2>1, <3>2
  <2>3. f - q * e \in Nat
    <3>1. r * a >= 0
      BY <2>1
    <3>2. (f - q * e) * n >= 0
      BY <2>2, <3>1
    <3> QED
      BY <2>1, <3>2
  <2>4. r = 0
    <3>1. r # 0 => r \in S
      BY <1>4, <2>1, <2>2, <2>3
    <3> QED
      BY <1>2, <1>4, <2>1, <3>1
  <2> QED
    BY <1>4, <2>1, <2>4
<1>6. PICK d \in Nat : n = d * m
  <2>1. n * a = a * n
    OBVIOUS
  <2> QED
    BY <1>5, <2>1
<1> HIDE DEF S
<1>7. a = d * e
  <2>1. m * a = m * (d * e)
    <3>1. e * n = e * (d * m)
      BY <1>6
    <3> QED
      BY <1>3, <1>4, <3>1
  <2> QED
    BY <1>4, <2>1
<1>8. d = 1
  <2>1. d \in 1 .. n
    BY <1>4, <1>6
  <2>2. Divides(d, a) /\ Divides(d, n)
    <3>1. a = e * d /\ n = m * d
      BY <1>4, <1>6, <1>7
    <3>2. d \in Nat \ {0} /\ a \in Nat /\ n \in Nat
      BY <2>1
    <3>3. Divides(d, a) <=> \E q \in Nat : a = q * d
      BY <3>2, Multiples
    <3>4. Divides(d, n) <=> \E q \in Nat : n = q * d
      BY <3>2, Multiples
    <3> QED
      BY <1>4, <3>1, <3>3, <3>4
  <2> QED
    BY <2>1, <2>2 DEF Coprime
<1>9. n = m
  BY <1>4, <1>6, <1>8
<1> QED
  BY <1>5, <1>9

-------------------------------------------------------------------------------
(* The walk: two places of one round differ, and so they are all there is. *)
LEMMA StepsDiffer ==
    ASSUME NEW total \in Nat \ {0}, NEW step \in Nat \ {0}, Coprime(step, total),
           NEW m \in Nat, NEW n \in Nat, m <= n, n < m + total,
           (17 + m * step) % total = (17 + n * step) % total
    PROVE  m = n
<1> DEFINE a == 17 + m * step
           b == 17 + n * step
           p == a \div total
           q == b \div total
<1>1. a \in Nat /\ b \in Nat /\ a <= b
  <2>1. m * step \in Nat /\ n * step \in Nat
    OBVIOUS
  <2>2. (n - m) * step >= 0
    OBVIOUS
  <2> QED
    BY <2>1, <2>2
<1>2. b - a = (n - m) * step /\ n - m \in Nat
  OBVIOUS
<1>3. a % total = b % total
  OBVIOUS
<1> HIDE DEF a, b
<1>4. /\ p \in Nat /\ q \in Nat
      /\ a = p * total + (a % total)
      /\ b = q * total + (b % total)
  BY <1>1, Division
<1> HIDE DEF p, q
<1>5. b - a = (q - p) * total
  <2>1. a % total \in Int
    BY <1>1, Division
  <2> QED
    BY <1>3, <1>4, <2>1
<1>6. q - p \in Nat
  <2>1. (q - p) * total >= 0
    BY <1>1, <1>5
  <2> QED
    BY <1>4, <2>1
<1>7. PICK k \in Nat : n - m = k * total
  <2>1. (n - m) * step = (q - p) * total
    BY <1>2, <1>5
  <2>2. \A h, c \in Nat : h * step = c * total => \E k \in Nat : h = k * total
    BY DividesFactor
  <2> QED
    BY <1>2, <1>6, <2>1, <2>2
<1> QED
  BY <1>7

LEMMA WalkPlaces ==
    ASSUME NEW total \in Nat \ {0}, NEW step \in Nat \ {0}
    PROVE  \A n \in 0 .. total - 1 : (17 + n * step) % total \in 0 .. total - 1
<1> SUFFICES ASSUME NEW n \in 0 .. total - 1
             PROVE  (17 + n * step) % total \in 0 .. total - 1
  OBVIOUS
<1>1. 17 + n * step \in Nat
  OBVIOUS
<1> QED
  BY <1>1, Division

LEMMA WalkReaches ==
    ASSUME NEW total \in Nat \ {0}, NEW step \in Nat \ {0}, Coprime(step, total),
           NEW i \in 0 .. total - 1
    PROVE  \E n \in 0 .. total - 1 : (17 + n * step) % total = i
<1> DEFINE S == 0 .. total - 1
           f == [n \in S |-> (17 + n * step) % total]
<1>1. \A n \in S : 17 + n * step \in Nat
  OBVIOUS
<1>2. f \in [S -> S]
  BY <1>1, Division
<1>3. ASSUME NEW m \in S, NEW n \in S, f[m] = f[n] PROVE m = n
  <2>1. m \in Nat /\ n \in Nat /\ m < n + total /\ n < m + total
    OBVIOUS
  <2>2. (17 + m * step) % total = (17 + n * step) % total
    BY <1>3
  <2>3. m <= n \/ n <= m
    BY <2>1
  <2> QED
    BY <2>1, <2>2, <2>3, StepsDiffer
<1>4. IsFiniteSet(S)
  BY FS_Interval
<1>5. f \in Injection(S, S)
  BY <1>2, <1>3 DEF Injection, IsInjective
<1>6. f \in Surjection(S, S)
  BY <1>4, <1>5, FS_Injection
<1>7. i \in S
  OBVIOUS
<1>8. PICK n \in S : f[n] = i
  BY <1>6, <1>7 DEF Surjection
<1> QED
  BY <1>8

(* A number below the product is the place of one pair.                    *)
LEMMA Pairs ==
    ASSUME NEW size \in (Nat \ {0}) \X (Nat \ {0}), NEW i \in 0 .. size[1] * size[2] - 1
    PROVE  /\ MapIndexToPair(i, size) \in (0 .. size[1] - 1) \X (0 .. size[2] - 1)
           /\ i = MapIndexToPair(i, size)[1] * size[2] + MapIndexToPair(i, size)[2]
<1> DEFINE a == size[1]
           b == size[2]
           x == i \div b
           y == i % b
<1>1. a \in Nat \ {0} /\ b \in Nat \ {0} /\ i \in Nat /\ i < a * b
  OBVIOUS
<1>2. MapIndexToPair(i, size) = <<x, y>>
  BY DEF MapIndexToPair
<1> HIDE DEF a, b
<1>3. x \in Nat /\ y \in 0 .. b - 1 /\ i = x * b + y
  BY <1>1, Division
<1> HIDE DEF x, y
<1>4. x < a
  <2> SUFFICES ASSUME x >= a PROVE FALSE
    BY <1>1, <1>3
  <2>1. (x - a) * b >= 0
    BY <1>1, <1>3
  <2> QED
    BY <1>1, <1>3, <2>1
<1> QED
  BY <1>1, <1>2, <1>3, <1>4 DEF a, b

(* For a pool of any size the walk visits every pair, and places less than *)
(* a round apart are different pairs.                                      *)
LEMMA WalkSteps ==
    ASSUME NEW size \in Pools
    PROVE  \E step \in Nat \ {0} :
              /\ Coprime(step, size[1] * size[2])
              /\ Walk[size] = [n \in 0 .. size[1] * size[2] - 1 |->
                     MapIndexToPair((17 + n * step) % (size[1] * size[2]), size)]
<1> DEFINE total == size[1] * size[2]
           step == PickCoprimeStep(total)
<1>1. total \in Nat \ {0}
  BY NicknamesAssumption
<1>2. step \in Nat \ {0} /\ Coprime(step, total)
  BY <1>1, StepIsCoprime
<1>3. Walk[size] = [n \in 0 .. total - 1 |-> MapIndexToPair((17 + n * step) % total, size)]
  BY DEF Walk
<1> HIDE DEF step
<1> QED
  BY <1>2, <1>3

LEMMA WalkIsComplete ==
    ASSUME NEW size \in Pools
    PROVE  /\ DOMAIN Walk[size] = 0 .. size[1] * size[2] - 1
           /\ {Walk[size][n] : n \in DOMAIN Walk[size]} = (0 .. size[1] - 1) \X (0 .. size[2] - 1)
<1> DEFINE total == size[1] * size[2]
           pairs == (0 .. size[1] - 1) \X (0 .. size[2] - 1)
<1>1. size \in (Nat \ {0}) \X (Nat \ {0})
  BY NicknamesAssumption
<1>2. total \in Nat \ {0}
  BY <1>1
<1>3. PICK step \in Nat \ {0} :
         /\ Coprime(step, total)
         /\ Walk[size] = [n \in 0 .. total - 1 |-> MapIndexToPair((17 + n * step) % total, size)]
  BY WalkSteps
<1> DEFINE at(n) == (17 + n * step) % total
<1>4. \A n \in 0 .. total - 1 : at(n) \in 0 .. total - 1
  BY <1>2, WalkPlaces
<1>5. \A n \in 0 .. total - 1 : Walk[size][n] \in pairs
  <2>1. \A i \in 0 .. total - 1 : MapIndexToPair(i, size) \in pairs
    BY <1>1, Pairs
  <2> QED
    BY <1>3, <1>4, <2>1
<1>6. ASSUME NEW x \in 0 .. size[1] - 1, NEW y \in 0 .. size[2] - 1
      PROVE  \E n \in 0 .. total - 1 : Walk[size][n] = <<x, y>>
  <2> DEFINE i == x * size[2] + y
  <2>1. i \in Nat /\ i < total
    <3>1. (size[1] - 1 - x) * size[2] >= 0 /\ x * size[2] >= 0
      BY <1>1
    <3> QED
      BY <1>1, <3>1
  <2>2. i \div size[2] = x /\ i % size[2] = y
    <3>1. x \in Nat /\ size[2] \in Nat \ {0}
      BY <1>1
    <3>2. \A b \in Nat \ {0} : \A q \in Nat : \A r \in 0 .. b - 1 :
             (q * b + r) \div b = q /\ (q * b + r) % b = r
      <4> HIDE DEF total, pairs, at, i
      <4> QED
        BY Remainder
    <3> QED
      BY <3>1, <3>2
  <2> HIDE DEF i
  <2>3. PICK n \in 0 .. total - 1 : at(n) = i
    <3>1. i \in 0 .. total - 1
      BY <1>2, <2>1
    <3> QED
      BY <1>2, <1>3, <3>1, WalkReaches
  <2>4. Walk[size][n] = MapIndexToPair(i, size)
    BY <1>3, <2>3
  <2> QED
    BY <2>2, <2>4 DEF MapIndexToPair
<1>7. DOMAIN Walk[size] = 0 .. total - 1
  BY <1>3
<1> HIDE DEF total
<1>8. \A z \in pairs : \E n \in 0 .. total - 1 : Walk[size][n] = z
  BY <1>6
<1> QED
  BY <1>5, <1>7, <1>8 DEF total

LEMMA WalkDiffers ==
    ASSUME NEW size \in Pools, NEW x \in Nat, NEW y \in Nat,
           x < y, y < x + size[1] * size[2]
    PROVE  Walk[size][x % (size[1] * size[2])] # Walk[size][y % (size[1] * size[2])]
<1> DEFINE total == size[1] * size[2]
<1>1. size \in (Nat \ {0}) \X (Nat \ {0})
  BY NicknamesAssumption
<1>2. total \in Nat \ {0}
  BY <1>1
<1>3. PICK step \in Nat \ {0} :
         /\ Coprime(step, total)
         /\ Walk[size] = [n \in 0 .. total - 1 |-> MapIndexToPair((17 + n * step) % total, size)]
  BY WalkSteps
<1> DEFINE at(n) == (17 + n * step) % total
           m == x % total
           k == y % total
<1>4. \A n \in 0 .. total - 1 : at(n) \in 0 .. total - 1
  BY <1>2, WalkPlaces
<1>5. m \in 0 .. total - 1 /\ k \in 0 .. total - 1
  BY <1>2, Division
<1>6. m # k
  <2> SUFFICES ASSUME m = k PROVE FALSE
    OBVIOUS
  <2> DEFINE p == x \div total
             q == y \div total
  <2>1. p \in Nat /\ q \in Nat /\ x = p * total + m /\ y = q * total + k
    BY <1>2, Division
  <2> HIDE DEF p, q, m, k, total
  <2>2. y - x = (q - p) * total
    BY <1>2, <1>5, <2>1
  <2>3. 0 < (q - p) * total /\ (q - p) * total < total
    BY <1>2, <2>2 DEF total
  <2>4. q - p >= 1
    BY <1>2, <2>1, <2>3
  <2>5. (q - p - 1) * total >= 0
    BY <1>2, <2>1, <2>4
  <2> QED
    BY <1>2, <2>1, <2>3, <2>5
<1> HIDE DEF m, k, total
<1>7. at(m) # at(k)
  <2>1. m \in Nat /\ k \in Nat /\ m < k + total /\ k < m + total
    BY <1>2, <1>5
  <2>2. m <= k \/ k <= m
    BY <2>1
  <2> QED
    BY <1>2, <1>3, <1>6, <2>1, <2>2, StepsDiffer
<1>8. MapIndexToPair(at(m), size) # MapIndexToPair(at(k), size)
  <2>1. \A i \in 0 .. total - 1 :
           i = MapIndexToPair(i, size)[1] * size[2] + MapIndexToPair(i, size)[2]
    BY <1>1, Pairs DEF total
  <2> HIDE DEF at
  <2>2. at(m) \in 0 .. total - 1 /\ at(k) \in 0 .. total - 1
    BY <1>4, <1>5
  <2> QED
    BY <1>7, <2>1, <2>2
<1>9. Walk[size][m] = MapIndexToPair(at(m), size) /\ Walk[size][k] = MapIndexToPair(at(k), size)
  BY <1>3, <1>5
<1> QED
  BY <1>8, <1>9 DEF m, k, total

-------------------------------------------------------------------------------
(* What a request goes by: the words it began with, alone or with one      *)
(* number; of a recommendation they are those of its place in the walk, of *)
(* two requests with a number each its own, below the base's counter.      *)
Named(base, name) == name = base \/ \E k \in Nat : name = Append(base, k)

ByPlace ==
    \A r \in Requests : req[r] # None =>
        /\ req[r].at = "look" => req[r].user = None
        /\ req[r].at \in {"check", "write"} => req[r].user # None

TypeInv == TypeOK /\ ByPlace

Fits(q) == Named(q.base, q.name) /\ (q.user = None => q.base = GenerateBaseNickname(q.seq))

Recommending ==
    /\ \A r \in Requests : req[r] # None => Fits(req[r])
    /\ \A x \in issued : Named(GenerateBaseNickname(x.seq), x.name)

Counted ==
    \A r \in Requests : Suffixed(r) =>
        \A k \in Nat : req[r].name = Append(req[r].base, k) =>
            req[r].base \in DOMAIN nextSuffix /\ k < nextSuffix[req[r].base]

IInv == TypeInv /\ Recommending /\ Counted /\ SuffixesDiffer

USE NicknamesAssumption, NoneIsNoRequest

LEMMA PoolStays == [Next]_vars => pool' = pool
BY DEF Next, Step, Issue, Look, AllocateSuffix, Allocate, Claim, Check, Write, Withdraw, Fail,
   dbVars, vars

LEMMA BaseIsPair ==
    ASSUME pool \in Pools, NEW seq \in Nat
    PROVE  \E x, y \in Nat : GenerateBaseNickname(seq) = <<x, y>>
<1> DEFINE total == pool[1] * pool[2]
           n == seq % total
<1>1. total \in Nat \ {0}
  OBVIOUS
<1>2. n \in 0 .. total - 1
  BY <1>1, Division
<1> HIDE DEF n
<1>3. Walk[pool][n] \in (0 .. pool[1] - 1) \X (0 .. pool[2] - 1)
  BY <1>2, WalkIsComplete
<1>4. GenerateBaseNickname(seq) = Walk[pool][n]
  BY DEF GenerateBaseNickname, n
<1> QED
  BY <1>3, <1>4

(* One number appended tells a name from the name without it, from other   *)
(* numbers, and leaves two words what they were.                           *)
LEMMA Appended ==
    ASSUME NEW base \in Name, NEW j \in Nat, NEW k \in Nat
    PROVE  /\ Append(base, j) \in Name /\ Append(base, j) # base
           /\ Append(base, j) = Append(base, k) => j = k
<1>1. /\ Append(base, j) \in Seq(Nat) /\ Append(base, k) \in Seq(Nat)
      /\ Len(Append(base, j)) = Len(base) + 1 /\ Len(base) \in Nat
      /\ Append(base, j)[Len(base) + 1] = j /\ Append(base, k)[Len(base) + 1] = k
  BY DEF Name
<1> QED
  BY <1>1 DEF Name

LEMMA SamePair ==
    ASSUME NEW x \in Nat, NEW y \in Nat, NEW v \in Nat, NEW w \in Nat, NEW name,
           Named(<<x, y>>, name), Named(<<v, w>>, name)
    PROVE  x = v /\ y = w
<1>1. ASSUME NEW a \in Nat, NEW b \in Nat, Named(<<a, b>>, name) PROVE name[1] = a /\ name[2] = b
  <2>1. <<a, b>> \in Seq(Nat) /\ Len(<<a, b>>) = 2
    OBVIOUS
  <2>2. \A s \in Seq(Nat) : \A k \in Nat : \A i \in 1 .. Len(s) : Append(s, k)[i] = s[i]
    OBVIOUS
  <2>3. \A k \in Nat : Append(<<a, b>>, k)[1] = a /\ Append(<<a, b>>, k)[2] = b
    BY <2>1, <2>2
  <2> QED
    BY <1>1, <2>3 DEF Named
<1>2. name[1] = x /\ name[2] = y
  BY <1>1
<1>3. name[1] = v /\ name[2] = w
  BY <1>1
<1> QED
  BY <1>2, <1>3

LEMMA RequestAt ==
    ASSUME TypeOK, NEW r \in Requests, req[r] # None
    PROVE  /\ req[r] \in RequestType
           /\ req[r].at \in {"look", "suffix", "check", "write"}
           /\ req[r].user \in Users \cup {None} /\ req[r].seq \in Nat
           /\ req[r].base \in Name /\ req[r].name \in Name
BY DEF TypeOK, RequestType

LEMMA BaseIsName ==
    ASSUME pool \in Pools, NEW seq \in Nat
    PROVE  GenerateBaseNickname(seq) \in Name
<1>1. PICK x, y \in Nat : GenerateBaseNickname(seq) = <<x, y>>
  BY BaseIsPair
<1> QED
  BY <1>1 DEF Name

(* What the upsert of a suffix does.                                       *)
Suffix(r) == SuffixOf(req[r].base)
NewName(r) == Append(req[r].base, Suffix(r))

LEMMA Allocated ==
    ASSUME NEW r \in Requests, AllocateSuffix(r), TypeOK
    PROVE  /\ req[r] # None /\ req[r].at = "suffix"
           /\ req[r].base \in Name /\ Suffix(r) \in Nat \ {0, 1} /\ NewName(r) \in Name
           /\ nextSuffix' = [b \in DOMAIN nextSuffix \cup {req[r].base} |->
                                IF b = req[r].base THEN Suffix(r) + 1 ELSE nextSuffix[b]]
           /\ \/ req' = [req EXCEPT ![r] = None]
              \/ req' = [req EXCEPT ![r] = [req[r] EXCEPT !.name = NewName(r),
                            !.at = IF req[r].user = None THEN "look" ELSE "check"]]
           /\ UNCHANGED <<pool, comboSeq, nickname, active, opened, issued, answers>>
<1>1. req[r] # None /\ req[r].at = "suffix"
  BY DEF AllocateSuffix, At
<1>2. req[r].base \in Name
  BY <1>1, RequestAt
<1>3. Suffix(r) \in Nat \ {0, 1}
  BY DEF Suffix, SuffixOf, TypeOK
<1>4. NewName(r) \in Name
  BY <1>2, <1>3, Appended DEF NewName
<1>5. Allocate(r, Suffix(r) + 1)
  BY DEF AllocateSuffix, Suffix
<1> QED
  BY <1>1, <1>2, <1>3, <1>4, <1>5 DEF Allocate, Suffix, NewName, TypeOK

LEMMA TypesKept == TypeInv /\ [Next]_vars => TypeInv'
<1> SUFFICES ASSUME TypeInv, [Next]_vars PROVE TypeInv'
  OBVIOUS
<1>0. /\ pool \in Pools
      /\ comboSeq \in Nat /\ opened \in 0 .. MaxRequests
      /\ \A b \in DOMAIN nextSuffix : b \in Name /\ nextSuffix[b] \in Nat \ {0, 1}
      /\ nickname \in [Users -> Name \cup {None}]
      /\ active \subseteq Users
      /\ req \in [Requests -> RequestType \cup {None}]
      /\ issued \subseteq [seq : Nat, name : Name]
      /\ answers \subseteq [name : Name, held : Name \cup {None}]
      /\ TypeOK /\ ByPlace
  BY DEF TypeInv, TypeOK
<1> DEFINE Records(f) == /\ f \in [Requests -> RequestType \cup {None}]
                        /\ \A r \in Requests : f[r] # None =>
                              /\ f[r].at = "look" => f[r].user = None
                              /\ f[r].at \in {"check", "write"} => f[r].user # None
<1>t. Records(req)
  BY <1>0 DEF ByPlace
<1>1. ASSUME NEW r \in Requests, NEW new \in RequestType \cup {None},
             req' = [req EXCEPT ![r] = new],
             new # None =>
                /\ new.at = "look" => new.user = None
                /\ new.at \in {"check", "write"} => new.user # None
      PROVE  Records(req')
  <2>1. req' \in [Requests -> RequestType \cup {None}]
    BY <1>0, <1>1
  <2>2. \A q \in Requests : req'[q] = IF q = r THEN new ELSE req[q]
    BY <1>0, <1>1
  <2> QED
    BY <1>1, <1>t, <2>1, <2>2
<1>2. ASSUME NEW r \in Requests, NEW place \in {"look", "suffix", "check", "write"},
             req[r] # None, Go(r, place),
             place = "look" => req[r].user = None,
             place \in {"check", "write"} => req[r].user # None
      PROVE  Records(req') /\ opened' = opened
  <2> DEFINE new == [req[r] EXCEPT !.at = place]
  <2>1. new \in RequestType /\ new.at = place /\ new.user = req[r].user
    BY <1>0, <1>2 DEF RequestType
  <2>2. req' = [req EXCEPT ![r] = new]
    BY <1>0, <1>2 DEF Go
  <2> HIDE DEF new
  <2>3. Records(req')
    <3> HIDE DEF Records
    <3> QED
      BY <1>1, <1>2, <2>1, <2>2
  <2> QED
    BY <1>2, <2>3 DEF Go
<1>3. ASSUME NEW r \in Requests, End(r) PROVE Records(req') /\ opened' = opened
  <2> HIDE DEF Records
  <2> QED
    BY <1>1, <1>3 DEF End
<1>o. ASSUME NEW r \in Requests, NEW new \in RequestType, Open(r, new),
             new.at = "look" => new.user = None,
             new.at \in {"check", "write"} => new.user # None
      PROVE  Records(req') /\ opened' \in 0 .. MaxRequests
  <2>1. req' = [req EXCEPT ![r] = new] /\ opened < MaxRequests /\ opened' = opened + 1
    BY <1>o DEF Open
  <2>2. opened' \in 0 .. MaxRequests
    BY <1>0, <2>1
  <2> HIDE DEF Records
  <2> QED
    BY <1>1, <1>o, <2>1, <2>2
<1>r. ASSUME NEW r \in Requests, req[r] # None
      PROVE  /\ req[r] \in RequestType /\ req[r].user \in Users \cup {None}
             /\ req[r].base \in Name /\ req[r].name \in Name /\ req[r].seq \in Nat
             /\ req[r].at = "look" => req[r].user = None
             /\ req[r].at \in {"check", "write"} => req[r].user # None
  BY <1>0, <1>r, RequestAt DEF ByPlace
<1>c. ASSUME Records(req'), UNCHANGED pool, comboSeq' \in Nat, opened' \in 0 .. MaxRequests,
             \A b \in DOMAIN nextSuffix' : b \in Name /\ nextSuffix'[b] \in Nat \ {0, 1},
             nickname' \in [Users -> Name \cup {None}], active' \subseteq Users,
             issued' \subseteq [seq : Nat, name : Name],
             answers' \subseteq [name : Name, held : Name \cup {None}]
      PROVE  TypeInv'
  BY <1>0, <1>c DEF TypeInv, TypeOK, ByPlace
<1> HIDE DEF Records
<1> USE DEF dbVars
<1>4. ASSUME NEW r \in Requests, Issue(r) PROVE TypeInv'
  <2> DEFINE base == GenerateBaseNickname(comboSeq + 1)
             new == [at |-> "look", user |-> None, base |-> base, name |-> base,
                     seq |-> comboSeq + 1]
  <2>1. base \in Name
    <3>1. \A seq \in Nat : GenerateBaseNickname(seq) \in Name
      BY <1>0, BaseIsName
    <3> QED
      BY <1>0, <3>1
  <2>2. Open(r, new)
    BY <1>4 DEF Issue
  <2> HIDE DEF base
  <2>3. new \in RequestType /\ new.at = "look" /\ new.user = None
    BY <1>0, <2>1 DEF RequestType
  <2> HIDE DEF new
  <2>4. Records(req') /\ opened' \in 0 .. MaxRequests
    BY <1>o, <2>2, <2>3
  <2> QED
    BY <1>0, <1>4, <1>c, <2>4 DEF Issue
<1>5. ASSUME NEW r \in Requests, Look(r) PROVE TypeInv'
  <2>1. req[r] # None
    BY <1>5 DEF Look, At
  <2>2. Records(req') /\ opened' = opened
    BY <1>2, <1>3, <1>5, <2>1 DEF Look
  <2>3. issued' \subseteq [seq : Nat, name : Name]
    BY <1>0, <1>5, <1>r, <2>1 DEF Look
  <2> QED
    BY <1>0, <1>5, <1>c, <2>2, <2>3 DEF Look
<1>6. ASSUME NEW r \in Requests, AllocateSuffix(r) PROVE TypeInv'
  <2> DEFINE new == [req[r] EXCEPT !.name = NewName(r),
                        !.at = IF req[r].user = None THEN "look" ELSE "check"]
  <2>1. /\ req[r] # None
        /\ req[r].base \in Name /\ Suffix(r) \in Nat \ {0, 1} /\ NewName(r) \in Name
        /\ nextSuffix' = [b \in DOMAIN nextSuffix \cup {req[r].base} |->
                             IF b = req[r].base THEN Suffix(r) + 1 ELSE nextSuffix[b]]
        /\ req' = [req EXCEPT ![r] = None] \/ req' = [req EXCEPT ![r] = new]
        /\ UNCHANGED <<pool, comboSeq, nickname, active, opened, issued, answers>>
    BY <1>0, <1>6, Allocated
  <2>2. /\ new \in RequestType /\ new.user = req[r].user
        /\ new.at = IF req[r].user = None THEN "look" ELSE "check"
    BY <1>r, <2>1 DEF RequestType
  <2> HIDE DEF new
  <2>3. Records(req')
    BY <1>1, <2>1, <2>2
  <2>4. \A b \in DOMAIN nextSuffix' : b \in Name /\ nextSuffix'[b] \in Nat \ {0, 1}
    BY <1>0, <2>1
  <2> QED
    BY <1>0, <1>c, <2>1, <2>3, <2>4
<1>7. ASSUME NEW r \in Requests, NEW u \in Users, NEW name \in Typed, Claim(r, u, name)
      PROVE  TypeInv'
  <2> DEFINE new == [at |-> "check", user |-> u, base |-> name, name |-> name, seq |-> 0]
  <2>1. new \in RequestType /\ new.at = "check" /\ new.user # None
    BY DEF RequestType
  <2>2. Open(r, new)
    BY <1>7 DEF Claim
  <2> HIDE DEF new
  <2>3. Records(req') /\ opened' \in 0 .. MaxRequests
    BY <1>o, <2>1, <2>2
  <2> QED
    BY <1>0, <1>7, <1>c, <2>3 DEF Claim
<1>8. ASSUME NEW r \in Requests, Check(r) PROVE TypeInv'
  <2>1. req[r] # None /\ req[r].at = "check" /\ req[r].user \in Users
    BY <1>8, <1>r DEF Check, At
  <2>2. Records(req') /\ opened' = opened
    BY <1>2, <1>3, <1>8, <2>1 DEF Check
  <2>3. answers' \subseteq [name : Name, held : Name \cup {None}]
    BY <1>0, <1>8, <1>r, <2>1 DEF Check, Answer
  <2> QED
    BY <1>0, <1>8, <1>c, <2>2, <2>3 DEF Check
<1>9. ASSUME NEW r \in Requests, Write(r) PROVE TypeInv'
  <2>1. req[r] # None
    BY <1>9 DEF Write, At
  <2>2. Records(req') /\ opened' = opened
    BY <1>2, <1>3, <1>9, <2>1 DEF Write
  <2>3. answers' \subseteq [name : Name, held : Name \cup {None}]
    BY <1>0, <1>9, <1>r, <2>1 DEF Write, Answer
  <2>4. nickname' \in [Users -> Name \cup {None}]
    BY <1>0, <1>9, <1>r, <2>1 DEF Write
  <2> QED
    BY <1>0, <1>9, <1>c, <2>2, <2>3, <2>4 DEF Write
<1>10. ASSUME NEW u \in Users, Withdraw(u) PROVE TypeInv'
  BY <1>0, <1>10, <1>t, <1>c DEF Withdraw
<1>11. ASSUME NEW r \in Requests, Fail(r) PROVE TypeInv'
  BY <1>0, <1>3, <1>11, <1>c DEF Fail
<1>12. CASE UNCHANGED vars
  BY <1>0, <1>12, <1>t, <1>c DEF vars
<1> QED
  BY <1>4, <1>5, <1>6, <1>7, <1>8, <1>9, <1>10, <1>11, <1>12 DEF Next, Step

-------------------------------------------------------------------------------
(* How a step leaves a request: as it was but for its place, with a new    *)
(* number, or just begun.                                                  *)
Same(q) ==
    /\ req[q] # None
    /\ req'[q].base = req[q].base /\ req'[q].name = req[q].name
    /\ req'[q].user = req[q].user /\ req'[q].seq = req[q].seq
    /\ req[q].at = "suffix" => req'[q].at = "suffix"

Numbered(q) ==
    /\ AllocateSuffix(q)
    /\ req'[q].base = req[q].base /\ req'[q].name = NewName(q)
    /\ req'[q].user = req[q].user /\ req'[q].seq = req[q].seq
    /\ \A r \in Requests \ {q} : req'[r] = req[r]

Begun(q) ==
    /\ req'[q].name = req'[q].base
    /\ req'[q].user = None => req'[q].base = GenerateBaseNickname(req'[q].seq)

LEMMA Movement ==
    ASSUME TypeInv, [Next]_vars, NEW q \in Requests, req'[q] # None
    PROVE  Same(q) \/ Numbered(q) \/ Begun(q)
<1>0. req \in [Requests -> RequestType \cup {None}] /\ TypeOK
  BY DEF TypeInv, TypeOK
<1>1. ASSUME req'[q] = req[q] PROVE Same(q)
  BY <1>1 DEF Same
<1>2. ASSUME NEW place, req[q] # None, req[q].at # "suffix", Go(q, place) PROVE Same(q)
  BY <1>0, <1>2 DEF Go, Same, RequestType
<1>3. ~End(q)
  BY <1>0 DEF End
<1>4. ASSUME NEW r \in Requests \ {q},
             (\E new : Open(r, new)) \/ (\E place : Go(r, place)) \/ End(r)
      PROVE  Same(q)
  BY <1>0, <1>1, <1>4 DEF Open, Go, End
<1>5. ASSUME NEW r \in Requests, Issue(r) PROVE Same(q) \/ Begun(q)
  <2>1. CASE r = q
    BY <1>0, <1>5, <2>1 DEF Issue, Open, Begun
  <2> QED
    BY <1>4, <1>5, <2>1 DEF Issue
<1>6. ASSUME NEW r \in Requests, NEW u \in Users, NEW name \in Typed, Claim(r, u, name)
      PROVE  Same(q) \/ Begun(q)
  <2>1. CASE r = q
    BY <1>0, <1>6, <2>1 DEF Claim, Open, Begun
  <2> QED
    BY <1>4, <1>6, <2>1 DEF Claim
<1>7. ASSUME NEW r \in Requests, Look(r) \/ Check(r) \/ Write(r) PROVE Same(q)
  <2>1. CASE r = q
    BY <1>2, <1>3, <1>7, <2>1 DEF Look, Check, Write, At
  <2> QED
    BY <1>4, <1>7, <2>1 DEF Look, Check, Write
<1>8. ASSUME NEW r \in Requests, AllocateSuffix(r) PROVE Same(q) \/ Numbered(q)
  <2> DEFINE new == [req[r] EXCEPT !.name = NewName(r),
                        !.at = IF req[r].user = None THEN "look" ELSE "check"]
  <2>1. req[r] # None /\ (req' = [req EXCEPT ![r] = None] \/ req' = [req EXCEPT ![r] = new])
    BY <1>0, <1>8, Allocated
  <2>2. /\ new.base = req[r].base /\ new.name = NewName(r)
        /\ new.user = req[r].user /\ new.seq = req[r].seq
    BY <1>0, <2>1 DEF RequestType
  <2> HIDE DEF new
  <2>3. \A p \in Requests \ {r} : req'[p] = req[p]
    BY <1>0, <2>1
  <2>4. CASE r = q
    <3>1. req'[q] = new
      BY <1>0, <2>1, <2>4
    <3> QED
      BY <1>8, <2>2, <2>3, <2>4, <3>1 DEF Numbered
  <2> QED
    BY <1>1, <2>3, <2>4
<1>9. ASSUME NEW r \in Requests, Fail(r) PROVE Same(q)
  BY <1>3, <1>4, <1>9 DEF Fail
<1>10. CASE UNCHANGED req
  BY <1>1, <1>10
<1> QED
  BY <1>5, <1>6, <1>7, <1>8, <1>9, <1>10 DEF Next, Step, Withdraw, vars

LEMMA RecommendingKept == TypeInv /\ Recommending /\ [Next]_vars => Recommending'
<1> SUFFICES ASSUME TypeInv, Recommending, [Next]_vars PROVE Recommending'
  OBVIOUS
<1>1. \A s : GenerateBaseNickname(s)' = GenerateBaseNickname(s)
  BY PoolStays DEF GenerateBaseNickname
<1>2. ASSUME NEW q \in Requests, req'[q] # None
      PROVE  /\ Named(req'[q].base, req'[q].name)
             /\ req'[q].user = None => req'[q].base = GenerateBaseNickname(req'[q].seq)
  <2>1. CASE Same(q)
    BY <2>1 DEF Same, Recommending, Fits
  <2>2. CASE Numbered(q)
    <3>1. /\ Suffix(q) \in Nat /\ NewName(q) = Append(req[q].base, Suffix(q))
          /\ req[q] # None
      BY <2>2, Allocated DEF Numbered, NewName, TypeInv
    <3> QED
      BY <2>2, <3>1 DEF Numbered, Recommending, Fits, Named
  <2>3. CASE Begun(q)
    BY <2>3 DEF Begun, Named
  <2> QED
    BY <1>2, <2>1, <2>2, <2>3, Movement
<1>3. ASSUME NEW x \in issued' PROVE Named(GenerateBaseNickname(x.seq), x.name)
  <2>1. CASE x \in issued
    BY <2>1 DEF Recommending
  <2>2. CASE x \notin issued
    <3>1. PICK r \in Requests : Look(r)
      BY <2>2 DEF Next, Step, Issue, AllocateSuffix, Allocate, Claim, Check, Write, Withdraw, Fail,
         vars
    <3>2. req[r] # None /\ req[r].at = "look" /\ x = [seq |-> req[r].seq, name |-> req[r].name]
      BY <2>2, <3>1 DEF Look, At
    <3>3. Fits(req[r]) /\ req[r].user = None
      BY <3>2 DEF Recommending, TypeInv, ByPlace
    <3> QED
      BY <3>2, <3>3 DEF Fits
  <2> QED
    BY <2>1, <2>2
<1> QED
  BY <1>1, <1>2, <1>3 DEF Recommending, Fits

(* The counter of a base only grows, when it gives a number out.           *)
LEMMA CountersGrow ==
    ASSUME TypeInv, [Next]_vars, NEW b \in DOMAIN nextSuffix
    PROVE  b \in DOMAIN nextSuffix' /\ nextSuffix[b] \in Nat /\ nextSuffix'[b] \in Nat
           /\ nextSuffix[b] <= nextSuffix'[b]
<1>0. nextSuffix[b] \in Nat
  BY DEF TypeInv, TypeOK
<1>1. ASSUME NEW r \in Requests, AllocateSuffix(r)
      PROVE  b \in DOMAIN nextSuffix' /\ nextSuffix'[b] \in {nextSuffix[b], nextSuffix[b] + 1}
  <2>1. nextSuffix' = [c \in DOMAIN nextSuffix \cup {req[r].base} |->
                          IF c = req[r].base THEN Suffix(r) + 1 ELSE nextSuffix[c]]
    BY <1>1, Allocated DEF TypeInv
  <2>2. req[r].base = b => Suffix(r) = nextSuffix[b]
    BY DEF Suffix, SuffixOf
  <2> QED
    BY <2>1, <2>2
<1>2. (\A r \in Requests : ~AllocateSuffix(r)) => nextSuffix' = nextSuffix
  BY DEF Next, Step, Issue, Look, Claim, Check, Write, Withdraw, Fail, dbVars, vars
<1> QED
  BY <1>0, <1>1, <1>2

LEMMA CountedKept ==
    ASSUME TypeInv, Recommending, Counted, SuffixesDiffer, [Next]_vars
    PROVE  Counted' /\ SuffixesDiffer'
<1>0. TypeInv' /\ TypeOK'
  BY TypesKept DEF TypeInv
<1>1. ASSUME NEW q \in Requests, Suffixed(q)' PROVE (Same(q) /\ Suffixed(q)) \/ Numbered(q)
  <2>1. req'[q] # None /\ req'[q].at # "suffix" /\ req'[q].name # req'[q].base
    BY <1>1 DEF Suffixed
  <2>2. ~Begun(q)
    BY <2>1 DEF Begun
  <2>3. Same(q) => Suffixed(q)
    BY <2>1 DEF Same, Suffixed
  <2> QED
    BY <2>1, <2>2, <2>3, Movement
<1>2. ASSUME NEW q \in Requests, Suffixed(q)
      PROVE  /\ req[q].base \in Name
             /\ \E k \in Nat : /\ req[q].name = Append(req[q].base, k)
                               /\ req[q].base \in DOMAIN nextSuffix
                               /\ k < nextSuffix[req[q].base]
  <2>1. req[q] # None /\ req[q].name # req[q].base
    BY <1>2 DEF Suffixed
  <2>2. Named(req[q].base, req[q].name) /\ req[q].base \in Name
    BY <2>1, RequestAt DEF Recommending, Fits, TypeInv
  <2> QED
    BY <1>2, <2>1, <2>2 DEF Named, Counted
<1>3. ASSUME NEW q \in Requests, Numbered(q)
      PROVE  /\ req[q] # None /\ req[q].at = "suffix"
             /\ req[q].base \in Name /\ Suffix(q) \in Nat
             /\ req'[q].name = Append(req[q].base, Suffix(q)) /\ req'[q].base = req[q].base
             /\ req[q].base \in DOMAIN nextSuffix' /\ nextSuffix'[req[q].base] = Suffix(q) + 1
  BY <1>3, Allocated DEF Numbered, NewName, TypeInv
<1>4. Counted'
  <2> SUFFICES ASSUME NEW q \in Requests, Suffixed(q)', NEW k \in Nat,
                      req'[q].name = Append(req'[q].base, k)
               PROVE  req'[q].base \in DOMAIN nextSuffix' /\ k < nextSuffix'[req'[q].base]
    BY DEF Counted
  <2>1. CASE Same(q) /\ Suffixed(q)
    <3>1. req'[q].base = req[q].base /\ req[q].base \in DOMAIN nextSuffix /\ k < nextSuffix[req[q].base]
      BY <2>1 DEF Same, Counted
    <3> QED
      BY <3>1, CountersGrow
  <2>2. CASE Numbered(q)
    <3>1. k = Suffix(q)
      BY <1>3, <2>2, Appended
    <3> QED
      BY <1>3, <2>2, <3>1
  <2> QED
    BY <1>1, <2>1, <2>2
<1>5. ASSUME NEW q \in Requests, NEW r \in Requests, q # r, Suffixed(q)', Numbered(r),
             req'[q].base = req'[r].base
      PROVE  req'[q].name # req'[r].name
  <2>1. req'[q] = req[q]
    BY <1>5 DEF Numbered
  <2>2. Suffixed(q)
    BY <1>5, <2>1 DEF Suffixed
  <2>3. PICK k \in Nat : /\ req[q].name = Append(req[q].base, k)
                         /\ req[q].base \in DOMAIN nextSuffix
                         /\ k < nextSuffix[req[q].base]
    BY <1>2, <2>2
  <2>4. req[q].base = req[r].base
    BY <1>3, <1>5, <2>1
  <2>5. Suffix(r) = nextSuffix[req[q].base]
    BY <2>3, <2>4 DEF Suffix, SuffixOf
  <2>6. k # Suffix(r)
    BY <1>3, <1>5, <2>3, <2>5
  <2> QED
    BY <1>3, <1>5, <2>1, <2>3, <2>4, <2>6, Appended
<1>6. ASSUME NEW q \in Requests, NEW r \in Requests, q # r, Suffixed(q)', Suffixed(r)',
             req'[q].base = req'[r].base
      PROVE  req'[q].name # req'[r].name
  <2>1. CASE Numbered(q) \/ Numbered(r)
    BY <1>5, <1>6, <2>1
  <2>2. CASE Same(q) /\ Suffixed(q) /\ Same(r) /\ Suffixed(r)
    BY <1>6, <2>2 DEF Same, SuffixesDiffer
  <2> QED
    BY <1>1, <1>6, <2>1, <2>2
<1> QED
  BY <1>0, <1>4, <1>6 DEF SuffixesDiffer

LEMMA NicknamesInit == Init => IInv
<1> SUFFICES ASSUME Init PROVE IInv
  OBVIOUS
<1>1. TypeInv
  BY DEF Init, TypeInv, TypeOK, ByPlace
<1> QED
  BY <1>1 DEF Init, IInv, TypeInv, Recommending, Counted, SuffixesDiffer, Suffixed

LEMMA NicknamesInductive == IInv /\ [Next]_vars => IInv'
<1> SUFFICES ASSUME IInv, [Next]_vars PROVE IInv'
  OBVIOUS
<1>1. TypeInv /\ Recommending /\ Counted /\ SuffixesDiffer
  BY DEF IInv
<1> QED
  BY <1>1, TypesKept, RecommendingKept, CountedKept DEF IInv

(* For every pair of pool sizes the walk visits each pair of words before  *)
(* it comes back to the first.                                             *)
THEOREM WalkIsWhole == Spec => []WalkCoversPool
<1>1. IInv => WalkCoversPool
  BY WalkIsComplete DEF IInv, TypeInv, TypeOK, WalkCoversPool
<1> QED
  BY <1>1, NicknamesInit, NicknamesInductive, PTL DEF Spec

(* No recommendation is repeated within a round of the walk, whatever      *)
(* numbers were appended meanwhile.                                        *)
THEOREM RecommendedOnce == Spec => []IssuedDiffer
<1>1. IInv => IssuedDiffer
  <2> SUFFICES ASSUME IInv, NEW x \in issued, NEW y \in issued,
                      x.seq < y.seq, y.seq < x.seq + pool[1] * pool[2], x.name = y.name
               PROVE  FALSE
    BY DEF IssuedDiffer
  <2>1. pool \in Pools /\ x.seq \in Nat /\ y.seq \in Nat
    BY DEF IInv, TypeInv, TypeOK
  <2>2. GenerateBaseNickname(x.seq) # GenerateBaseNickname(y.seq)
    BY <2>1, WalkDiffers DEF GenerateBaseNickname
  <2>3. PICK a, b \in Nat : GenerateBaseNickname(x.seq) = <<a, b>>
    BY <2>1, BaseIsPair
  <2>4. PICK c, d \in Nat : GenerateBaseNickname(y.seq) = <<c, d>>
    BY <2>1, BaseIsPair
  <2>5. Named(<<a, b>>, x.name) /\ Named(<<c, d>>, x.name)
    BY <2>3, <2>4 DEF IInv, Recommending
  <2>6. a = c /\ b = d
    BY <2>5, SamePair
  <2> QED
    BY <2>2, <2>3, <2>4, <2>6
<1> QED
  BY <1>1, NicknamesInit, NicknamesInductive, PTL DEF Spec

(* The state is well typed, and no two requests ever try the same number   *)
(* for one base.                                                           *)
THEOREM SuffixedOnce == Spec => []SuffixesDiffer
<1>1. IInv => SuffixesDiffer
  BY DEF IInv
<1> QED
  BY <1>1, NicknamesInit, NicknamesInductive, PTL DEF Spec

===============================================================================
