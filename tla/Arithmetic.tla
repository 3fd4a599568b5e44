----------------------------- MODULE Arithmetic -----------------------------
(***************************************************************************)
(* Lemmas about products and quotients: packets of P pieces, steps of a    *)
(* register, the rounding of a frequency; about least elements and what    *)
(* follows from them: steps that are repeated.                             *)
(***************************************************************************)
EXTENDS Integers, WellFoundedInduction, TLAPS

\* Quotient and remainder.
LEMMA DivFacts ==
  ASSUME NEW P \in Nat \ {0}, NEW n \in Nat
  PROVE  \E q \in Nat, r \in 0..(P - 1) : n \div P = q /\ n % P = r /\ n = P * q + r
  OBVIOUS

\* Fewer whole packets.
LEMMA CancelFactor ==
  ASSUME NEW P \in Nat \ {0}, NEW i \in Int, NEW k \in Int, P * i < P * k + P
  PROVE  i <= k
<1> SUFFICES ASSUME i >= k + 1 PROVE FALSE
  OBVIOUS
<1> P * i >= P * (k + 1)
  OBVIOUS
<1> P * (k + 1) = P * k + P
  OBVIOUS
<1> QED OBVIOUS

\* More packets have more pieces.
LEMMA Times ==
  ASSUME NEW P \in Nat \ {0}, NEW i \in Nat, NEW k \in Nat, i <= k
  PROVE  P * i <= P * k
  OBVIOUS

\* The packet that ends at piece n is one that was begun.
LEMMA DivWithin ==
  ASSUME NEW P \in Nat \ {0}, NEW n \in Nat, NEW k \in Nat, P <= n, n <= P * k
  PROVE  n \div P \in 1..k
<1>1. PICK q \in Nat, r \in 0..(P - 1) : n \div P = q /\ n = P * q + r
  BY DivFacts
<1>2. P * q < P * k + P /\ P * 1 < P * q + P
  BY <1>1
<1>3. q <= k
  BY <1>2, CancelFactor
<1>4. 1 <= q
  BY <1>2, CancelFactor
<1>5. QED BY <1>1, <1>3, <1>4

\* The pieces of k packets are k packets.
LEMMA DivOf ==
  ASSUME NEW P \in Nat \ {0}, NEW n \in Nat, NEW k \in Nat, n = P * k
  PROVE  n \div P = k /\ n % P = 0
<1>1. PICK q \in Nat, r \in 0..(P - 1) : n \div P = q /\ n % P = r /\ n = P * q + r
  BY DivFacts
<1>2. P * q < P * k + P /\ P * k < P * q + P
  BY <1>1
<1>3. q <= k
  BY <1>2, CancelFactor
<1>4. k <= q
  BY <1>2, CancelFactor
<1>5. q = k
  BY <1>3, <1>4
<1>6. QED BY <1>1, <1>5

\* A request is complete when its last piece is a whole one.
LEMMA LastPiece ==
  ASSUME NEW P \in Nat \ {0}, NEW n \in Nat, NEW k \in Nat, n <= P * k, P * k < n + P
  PROVE  n % P = 0 <=> n = P * k
<1>1. ASSUME n % P = 0 PROVE n = P * k
  <2>1. PICK q \in Nat, r \in 0..(P - 1) : n \div P = q /\ n % P = r /\ n = P * q + r
    BY DivFacts
  <2>2. n = P * q
    BY <1>1, <2>1
  <2>3. q <= k
    BY <2>2, CancelFactor
  <2>4. k <= q
    BY <2>2, CancelFactor
  <2>5. q = k
    BY <2>3, <2>4
  <2>6. QED BY <2>2, <2>5
<1>2. QED BY <1>1, DivOf

\* A packet that has been read is one that was sent.
LEMMA Within ==
  ASSUME NEW P \in Nat \ {0}, NEW i \in Nat, NEW n \in Nat, NEW k \in Nat,
         P * i <= n, n <= P * k
  PROVE  i <= k
<1>1. P * i < P * k + P
  OBVIOUS
<1>2. QED
  BY <1>1, CancelFactor

\* One more piece, of the last packet or of the next.
LEMMA OneMore ==
  ASSUME NEW P \in Nat \ {0}, NEW n \in Nat, NEW k \in Nat, n <= P * k, P * k < n + P
  PROVE  /\ n % P = 0 => n + 1 <= P * (k + 1) /\ P * (k + 1) < (n + 1) + P
         /\ n % P # 0 => n + 1 <= P * k /\ P * k < (n + 1) + P
<1>1. P * (k + 1) = P * k + P
  OBVIOUS
<1>2. n % P = 0 <=> n = P * k
  BY LastPiece
<1>3. QED
  BY <1>1, <1>2
\* A quotient is the number of whole parts.
LEMMA Quotient ==
  ASSUME NEW P \in Nat \ {0}, NEW n \in Nat, NEW k \in Nat, P * k <= n, n < P * k + P
  PROVE  n \div P = k
<1>1. PICK q \in Nat, r \in 0..(P - 1) : n \div P = q /\ n = P * q + r
  BY DivFacts
<1>2. q <= k
  <2>1. P * q < P * k + P
    BY <1>1
  <2> QED BY <2>1, CancelFactor
<1>3. k <= q
  <2>1. P * k < P * q + P
    BY <1>1
  <2> QED BY <2>1, CancelFactor
<1> QED BY <1>1, <1>2, <1>3

\* A quotient grows with the number divided.
LEMMA DivMonotone ==
  ASSUME NEW P \in Nat \ {0}, NEW m \in Nat, NEW n \in Nat, m <= n
  PROVE  m \div P \in 0..n \div P
<1>1. PICK q \in Nat, r \in 0..(P - 1) : m \div P = q /\ m = P * q + r
  BY DivFacts
<1>2. PICK k \in Nat, t \in 0..(P - 1) : n \div P = k /\ n = P * k + t
  BY DivFacts
<1>3. P * q < P * k + P
  BY <1>1, <1>2
<1>4. QED BY <1>1, <1>2, <1>3, CancelFactor
\* Rounding to the nearest: (2T + h) / 2h is within half a step of T / h.
LEMMA RoundFacts ==
  ASSUME NEW h \in Nat \ {0}, NEW T \in Nat
  PROVE  \E n \in Nat : /\ (2 * T + h) \div (2 * h) = n
                       /\ 2 * (n * h) <= 2 * T + h /\ 2 * T < 2 * (n * h) + h
<1>1. PICK P \in Nat \ {0} : P = 2 * h
  OBVIOUS
<1>2. PICK n \in Nat, r \in 0..(P - 1) : (2 * T + h) \div P = n /\ 2 * T + h = P * n + r
  BY DivFacts
<1>3. P * n = 2 * (n * h)
  BY <1>1
<1>4. QED BY <1>1, <1>2, <1>3

\* What is rounded to the nearest lies as near to T as any other multiple of h.
LEMMA NearestMultiple ==
  ASSUME NEW h \in Nat \ {0}, NEW T \in Nat, NEW n \in Nat, NEW i \in Nat,
         2 * (n * h) <= 2 * T + h, 2 * T < 2 * (n * h) + h
  PROVE  /\ i < n => i * h <= n * h - h /\ 2 * (i * h) <= 2 * T - h
         /\ n < i => n * h + h <= i * h /\ 2 * T < 2 * (i * h) - h
<1>1. ASSUME i < n PROVE i * h <= n * h - h
  <2>1. h * (i + 1) <= h * n
    BY <1>1, Times
  <2>2. h * (i + 1) = i * h + h /\ h * n = n * h
    OBVIOUS
  <2>3. QED BY <2>1, <2>2
<1>2. ASSUME n < i PROVE n * h + h <= i * h
  <2>1. h * (n + 1) <= h * i
    BY <1>2, Times
  <2>2. h * (n + 1) = n * h + h /\ h * i = i * h
    OBVIOUS
  <2>3. QED BY <2>1, <2>2
<1>3. PICK a \in Nat, b \in Nat : a = n * h /\ b = i * h
  OBVIOUS
<1>4. QED BY <1>1, <1>2, <1>3

-----------------------------------------------------------------------------
(* What a loop that stops at the first of several finds. *)

\* The order that a recursion on numbers descends.
LEMMA LessThanIsWellFounded == IsWellFoundedOn({p \in Nat \X Nat : p[1] < p[2]}, Nat)
  BY NatLessThanWellFounded DEF OpToRel

\* A set of numbers has a least one.
LEMMA Least ==
  ASSUME NEW S \in SUBSET Nat, S # {}
  PROVE  \E m \in S : \A x \in S : m <= x
<1>1. PICK m \in S : \A x \in S : ~ (<<x, m>> \in {p \in Nat \X Nat : p[1] < p[2]})
  BY WFMin, LessThanIsWellFounded
<1>2. ASSUME NEW x \in S
      PROVE  m <= x
  <2>1. ~ (x < m)
    BY <1>1
  <2> QED BY <2>1
<1> QED BY <1>2

\* The values on the way when step k takes F[k].
Iterates(f, F, x0, n) == f[0] = x0 /\ \A k \in 1..n : f[k] = F[k][f[k - 1]]

\* A step repeated n times has its intermediate values: there is a function of them.
LEMMA Iteration ==
  ASSUME NEW X, NEW x0 \in X, NEW n \in Nat, NEW F \in [1..n -> [X -> X]]
  PROVE  \E f \in [0..n -> X] : Iterates(f, F, x0, n)
<1> DEFINE Made(m) == \E f \in [0..m -> X] : f[0] = x0 /\ \A k \in 1..m : f[k] = F[k][f[k - 1]]
           S == {m \in 0..n : ~Made(m)}
<1>1. Made(0)
  <2> DEFINE f == [j \in 0..0 |-> x0]
  <2>1. f \in [0..0 -> X] /\ f[0] = x0 /\ 1..0 = {}
    OBVIOUS
  <2> QED BY <2>1
<1>2. ASSUME NEW m \in 1..n, Made(m - 1)
      PROVE  Made(m)
  <2>1. PICK f \in [0..(m - 1) -> X] : f[0] = x0 /\ \A k \in 1..(m - 1) : f[k] = F[k][f[k - 1]]
    BY <1>2
  <2>2. f[m - 1] \in X
    BY <2>1
  <2>3. F[m] \in [X -> X]
    OBVIOUS
  <2>4. F[m][f[m - 1]] \in X
    BY <2>2, <2>3
  <2> DEFINE g == [j \in 0..m |-> IF j = m THEN F[m][f[m - 1]] ELSE f[j]]
  <2>5. g \in [0..m -> X]
    <3>1. ASSUME NEW j \in 0..m, j # m PROVE f[j] \in X
      BY <3>1
    <3> QED BY <2>4, <3>1
  <2>6. g[0] = x0
    BY <2>1
  <2>7. ASSUME NEW k \in 1..m PROVE g[k] = F[k][g[k - 1]]
    <3>1. CASE k = m
      <4>1. g[m] = F[m][f[m - 1]] /\ g[m - 1] = f[m - 1]
        OBVIOUS
      <4> QED BY <3>1, <4>1
    <3>2. CASE k # m
      <4>1. k \in 1..(m - 1)
        BY <3>2
      <4>2. g[k] = f[k] /\ g[k - 1] = f[k - 1]
        BY <4>1
      <4> QED BY <2>1, <4>1, <4>2
    <3> QED BY <3>1, <3>2
  <2> HIDE DEF g
  <2> QED BY <2>5, <2>6, <2>7
<1>3. S = {}
  <2> SUFFICES ASSUME S # {} PROVE FALSE
    OBVIOUS
  <2>1. S \in SUBSET Nat
    OBVIOUS
  <2> HIDE DEF Made
  <2>2. PICK m \in S : \A x \in S : m <= x
    BY <2>1, Least
  <2>3. m \in 1..n /\ ~Made(m)
    BY <1>1, <2>2
  <2>4. m - 1 \in 0..n /\ ~(m <= m - 1)
    BY <2>3
  <2>5. Made(m - 1)
    BY <2>2, <2>4
  <2> QED BY <1>2, <2>3, <2>5
<1>4. n \in 0..n
  OBVIOUS
<1> HIDE DEF Made
<1>5. Made(n)
  BY <1>3, <1>4
<1> QED BY <1>5 DEF Made, Iterates

\* What holds first and is kept by each step holds of all of them.
LEMMA Induction ==
  ASSUME NEW n \in Nat, NEW G, 0 \in G, \A k \in 1..n : k - 1 \in G => k \in G
  PROVE  \A k \in 0..n : k \in G
<1> DEFINE S == {k \in 0..n : k \notin G}
<1> SUFFICES ASSUME S # {} PROVE FALSE
  OBVIOUS
<1>1. S \in SUBSET Nat
  OBVIOUS
<1>2. PICK m \in S : \A x \in S : m <= x
  BY <1>1, Least
<1>3. m \in 1..n /\ m \notin G /\ m - 1 \in 0..n /\ ~(m <= m - 1)
  BY <1>2
<1> QED BY <1>2, <1>3
=============================================================================
