---------------------------- MODULE ModArithmetic ----------------------------
(***************************************************************************)
(* Facts about % on the naturals that the ring buffers rest on: indices a  *)
(* ring length apart share a node, nearer ones do not, and a counter that  *)
(* wraps at a multiple of the ring length keeps its node, wherever it      *)
(* starts.                                                                 *)
(***************************************************************************)
EXTENDS Integers, TLAPS

LEMMA DivMod ==
  ASSUME NEW a \in Nat, NEW B \in Nat \ {0}
  PROVE  /\ (a % B) \in 0 .. B - 1
         /\ (a \div B) \in Nat
         /\ a = B * (a \div B) + (a % B)
  OBVIOUS

LEMMA MulGE ==
  ASSUME NEW x \in Int, NEW B \in Nat \ {0}, x >= 1
  PROVE  B * x >= B
  OBVIOUS

\* Division with remainder is unique.
LEMMA DivUnique ==
  ASSUME NEW B \in Nat \ {0}, NEW q \in Int, NEW r \in 0 .. B - 1,
         NEW p \in Int, NEW s \in 0 .. B - 1, B * q + r = B * p + s
  PROVE  r = s
<1>1. B * (q - p) = s - r  OBVIOUS
<1>2. CASE q - p >= 1
  <2>1. B * (q - p) >= B  BY <1>2, MulGE
  <2>2. QED  BY <1>1, <2>1
<1>3. CASE p - q >= 1
  <2>1. B * (p - q) >= B  BY <1>3, MulGE
  <2>2. B * (p - q) = r - s  BY <1>1
  <2>3. QED  BY <2>1, <2>2
<1>4. QED  BY <1>1, <1>2, <1>3

\* The remainder is whatever completes a multiple of B.
LEMMA ModIs ==
  ASSUME NEW n \in Nat, NEW B \in Nat \ {0}, NEW q \in Int,
         NEW r \in 0 .. B - 1, n = B * q + r
  PROVE  n % B = r
<1>1. n = B * (n \div B) + (n % B)  BY DivMod
<1>2. n % B \in 0 .. B - 1 /\ n \div B \in Int  BY DivMod
<1>3. QED  BY <1>1, <1>2, DivUnique

\* A counter a full ring ahead is at the same node.
LEMMA ModPlusRing ==
  ASSUME NEW a \in Nat, NEW B \in Nat \ {0}
  PROVE  (a + B) % B = a % B
<1> DEFINE q == a \div B
           r == a % B
<1>1. q \in Nat /\ r \in 0 .. B - 1 /\ a = B * q + r  BY DivMod
<1> HIDE DEF q, r
<1>2. a + B = B * (q + 1) + r /\ a + B \in Nat /\ q + 1 \in Int  BY <1>1
<1>3. (a + B) % B = r  BY <1>1, <1>2, ModIs
<1>4. QED  BY <1>3 DEF r

\* Counters less than a ring apart are at different nodes.
LEMMA ModDistinct ==
  ASSUME NEW a \in Nat, NEW b \in Nat, NEW B \in Nat \ {0}, a < b, b < a + B
  PROVE  a % B # b % B
<1> SUFFICES ASSUME a % B = b % B PROVE FALSE
  OBVIOUS
<1>1. b - a = B * ((b \div B) - (a \div B))  BY DivMod
<1>2. (b \div B) - (a \div B) \in Int  BY DivMod
<1>3. CASE (b \div B) - (a \div B) >= 1  BY <1>1, <1>2, <1>3, MulGE
<1>4. CASE (b \div B) - (a \div B) <= 0  BY <1>1, <1>2, <1>4
<1>5. QED  BY <1>2, <1>3, <1>4

\* Counting modulo U.
LEMMA ModSucc ==
  ASSUME NEW a \in Nat, NEW U \in Nat \ {0}
  PROVE  ((a % U) + 1) % U = (a + 1) % U
<1> DEFINE q == a \div U
           r == a % U
           p == (r + 1) \div U
           s == (r + 1) % U
<1>1. q \in Nat /\ r \in 0 .. U - 1 /\ a = U * q + r  BY DivMod
<1> HIDE DEF q, r
<1>2. r + 1 \in Nat  BY <1>1
<1>3. p \in Nat /\ s \in 0 .. U - 1 /\ r + 1 = U * p + s  BY <1>2, DivMod
<1> HIDE DEF p, s
<1>4. a + 1 = U * (q + p) + s  BY <1>1, <1>3
<1>5. (a + 1) % U = s  BY <1>1, <1>3, <1>4, ModIs
<1>6. QED  BY <1>5 DEF s, r

LEMMA MulAssoc ==
  ASSUME NEW x \in Int, NEW y \in Int, NEW z \in Int
  PROVE  (x * y) * z = x * (y * z)
  OBVIOUS

\* A counter that wraps at U, a multiple of B, stays at its node.
LEMMA ModMod ==
  ASSUME NEW a \in Nat, NEW U \in Nat \ {0}, NEW B \in Nat \ {0}, U % B = 0
  PROVE  (a % U) % B = a % B
<1> DEFINE q == a \div U
           r == a % U
           m == U \div B
           p == r \div B
           s == r % B
<1>1. q \in Nat /\ r \in 0 .. U - 1 /\ a = U * q + r  BY DivMod
<1>2. m \in Nat /\ U = B * m  BY DivMod
<1> HIDE DEF q, r, m
<1>3. r \in Nat  BY <1>1
<1>4. p \in Nat /\ s \in 0 .. B - 1 /\ r = B * p + s  BY <1>3, DivMod
<1> HIDE DEF p, s
<1>5. U * q = B * (m * q)  BY <1>1, <1>2, MulAssoc
<1>6. m * q \in Int  BY <1>1, <1>2
<1> DEFINE k == m * q
<1>7. k \in Int /\ U * q = B * k  BY <1>5, <1>6
<1> HIDE DEF k
<1>8. B * (k + p) = B * k + B * p  BY <1>7, <1>4
<1>9. a = B * (k + p) + s /\ k + p \in Int  BY <1>1, <1>4, <1>7, <1>8
<1>10. a % B = s  BY <1>4, <1>9, ModIs
<1>11. QED  BY <1>10 DEF s, r

\* Whole rings do not count, for a negative number either.
LEMMA ModShift ==
  ASSUME NEW n \in Int, NEW B \in Nat \ {0}, NEW k \in Int
  PROVE  (n + B * k) % B = n % B
<1> DEFINE m == n + B * k
           q == n \div B
           r == n % B
           p == m \div B
           s == m % B
<1>1. m \in Int  OBVIOUS
<1>2. q \in Int /\ r \in 0 .. B - 1 /\ n = B * q + r  OBVIOUS
<1>3. p \in Int /\ s \in 0 .. B - 1 /\ m = B * p + s  BY <1>1
<1>4. m = n + B * k  OBVIOUS
<1> HIDE DEF m, q, r, p, s
<1>5. B * (q + k) = B * q + B * k  BY <1>2
<1>6. B * (q + k) + r = B * p + s /\ q + k \in Int  BY <1>2, <1>3, <1>4, <1>5
<1>7. r = s  BY <1>2, <1>3, <1>6, DivUnique
<1>8. QED  BY <1>7 DEF m, r, s

\* The start of a counter that wraps at U, a multiple of B, can be told from its value.
LEMMA ModStart ==
  ASSUME NEW U \in Nat \ {0}, NEW B \in Nat \ {0}, U % B = 0
  PROVE  \A a, n, c \in Nat : c = (a + n) % U => (c - n) % B = a % B
<1> SUFFICES ASSUME NEW a \in Nat, NEW n \in Nat, NEW c \in Nat, c = (a + n) % U
             PROVE  (c - n) % B = a % B
  OBVIOUS
<1> DEFINE q == (a + n) \div U
           r == (a + n) % U
           m == U \div B
<1>1. q \in Nat /\ r \in Nat /\ a + n = U * q + r  BY DivMod
<1>2. m \in Nat /\ U = B * m  BY DivMod
<1> HIDE DEF q, r, m
<1>3. U * q = B * (m * q) /\ m * q \in Int  BY <1>1, <1>2, MulAssoc
<1> DEFINE k == m * q
<1>4. k \in Int /\ U * q = B * k  BY <1>3
<1> HIDE DEF k
<1>5. r - n \in Int /\ a = (r - n) + B * k  BY <1>1, <1>4
<1>6. (r - n) % B = a % B  BY <1>4, <1>5, ModShift
<1>7. QED  BY <1>6 DEF r

\* Counters that start at the same node stay together.
LEMMA ModTogether ==
  ASSUME NEW B \in Nat \ {0}
  PROVE  \A a, b, n \in Nat : a % B = b % B => (a + n) % B = (b + n) % B
<1> SUFFICES ASSUME NEW a \in Nat, NEW b \in Nat, NEW n \in Nat, a % B = b % B
             PROVE  (a + n) % B = (b + n) % B
  OBVIOUS
<1> DEFINE p == a \div B
           q == b \div B
           r == a % B
           m == b + n
           k == p - q
<1>1. p \in Nat /\ r \in 0 .. B - 1 /\ a = B * p + r  BY DivMod
<1>2. q \in Nat /\ b = B * q + (b % B)  BY DivMod
<1>3. b % B = r /\ m = b + n /\ k = p - q  OBVIOUS
<1> HIDE DEF p, q, r, m, k
<1>4. B * k = B * p - B * q  BY <1>1, <1>2, <1>3
<1>5. a + n = m + B * k /\ k \in Int /\ m \in Int  BY <1>1, <1>2, <1>3, <1>4
<1>6. (m + B * k) % B = m % B  BY <1>5, ModShift
<1>7. QED  BY <1>5, <1>6 DEF m

\* A remainder can be taken at once or after a further addition.
LEMMA ModAdd ==
  ASSUME NEW x \in Int, NEW y \in Int, NEW B \in Nat \ {0}
  PROVE  ((x % B) + y) % B = (x + y) % B
<1> DEFINE q == x \div B
           r == x % B
<1>1. q \in Int /\ r \in Int /\ x = B * q + r  OBVIOUS
<1> HIDE DEF q, r
<1>2. -q \in Int /\ B * (-q) = -(B * q)  BY <1>1
<1>3. r + y = (x + y) + B * (-q) /\ x + y \in Int  BY <1>1, <1>2
<1>4. ((x + y) + B * (-q)) % B = (x + y) % B  BY <1>2, <1>3, ModShift
<1>5. QED  BY <1>3, <1>4 DEF r
=============================================================================
