------------------------- MODULE PaymentDataProofs -------------------------
(* What holds of stored rows and repeated requests for any limits and any  *)
(* requests: no arithmetic on amounts is needed for it.                    *)
EXTENDS PaymentData, WellFoundedInduction, TLAPS

-----------------------------------------------------------------------------
(* Recursive functions.  The library's theorems about them take operators  *)
(* as parameters; here everything is a set or a function.                  *)

LEMMA Least ==
  ASSUME NEW S \in SUBSET Nat, S # {}
  PROVE  \E m \in S : \A n \in S : m <= n
  <1>1. PICK m \in S : \A n \in S : ~ (<<n, m>> \in OpToRel(<, Nat))
    BY WFMin, NatLessThanWellFounded
  <1>2. ASSUME NEW n \in S PROVE m <= n
    <2>1. ~ (n < m)
      BY <1>1 DEF OpToRel
    <2> QED
      BY <2>1
  <1> QED
    BY <1>2

\* The value that is due at n, given the function below n.
Due(D, prev, base, step, f, n) == IF n \in D THEN step[f[prev[n]]] ELSE base[n]

Upto(T, D, prev, base, step, m) ==
  {f \in [0 .. m -> T] : \A n \in 0 .. m : f[n] = Due(D, prev, base, step, f, n)}

\* Where D is reached, the function goes back to a smaller argument.
GoesBack(T, D, prev, base, step) ==
  /\ prev \in [Nat -> Nat] /\ \A n \in D : prev[n] < n
  /\ D \subseteq Nat /\ base \in [Nat -> T] /\ step \in [T -> T]

LEMMA UptoExists ==
  ASSUME NEW T, NEW D, NEW prev, NEW base, NEW step, GoesBack(T, D, prev, base, step),
         NEW k \in Nat
  PROVE  Upto(T, D, prev, base, step, k) # {}
  <1> DEFINE U(m) == Upto(T, D, prev, base, step, m)
             Bad == {m \in Nat : U(m) = {}}
  <1> SUFFICES ASSUME Bad # {} PROVE FALSE
    OBVIOUS
  <1>1. PICK m \in Bad : \A n \in Bad : m <= n
    BY Least
  <1>2. CASE m = 0
    <2> DEFINE f == [n \in 0 .. 0 |-> base[0]]
    <2>1. 0 \notin D
      BY DEF GoesBack
    <2>2. f \in [0 .. 0 -> T]
      BY DEF GoesBack
    <2>3. f \in U(0)
      BY <2>1, <2>2 DEF Upto, Due
    <2> QED
      BY <1>2, <2>3
  <1>3. CASE m # 0
    <2>1. m \in Nat /\ m - 1 \in Nat
      BY <1>3
    <2>2. m - 1 \notin Bad
      BY <1>1, <2>1
    <2>3. PICK f : f \in U(m - 1)
      BY <2>1, <2>2
    <2> DEFINE g == [n \in 0 .. m |-> IF n = m THEN Due(D, prev, base, step, f, m) ELSE f[n]]
    <2>4. f \in [0 .. m - 1 -> T] /\ \A n \in 0 .. m - 1 : f[n] = Due(D, prev, base, step, f, n)
      BY <2>3 DEF Upto
    <2>5. ASSUME NEW n \in 0 .. m, n \in D
          PROVE  prev[n] \in 0 .. m - 1 /\ g[prev[n]] = f[prev[n]]
      <3>1. prev[n] \in Nat /\ prev[n] < n
        BY <2>5 DEF GoesBack
      <3>2. prev[n] \in 0 .. m - 1 /\ prev[n] \in 0 .. m /\ prev[n] # m
        BY <2>1, <3>1
      <3> QED
        BY <3>2
    <2>6. Due(D, prev, base, step, f, m) \in T
      BY SMTT(60), <2>1, <2>4, <2>5 DEF GoesBack, Due
    <2>7. g \in [0 .. m -> T]
      BY <2>1, <2>4, <2>6
    <2>8. \A n \in 0 .. m : Due(D, prev, base, step, g, n) = Due(D, prev, base, step, f, n)
      BY <2>5 DEF Due
    <2>9. ASSUME NEW n \in 0 .. m PROVE g[n] = Due(D, prev, base, step, g, n)
      <3>1. CASE n = m
        BY <3>1, <2>8
      <3>2. CASE n # m
        <4>1. n \in 0 .. m - 1 /\ g[n] = f[n]
          BY <3>2, <2>1
        <4> QED
          BY <4>1, <2>4, <2>8
      <3> QED
        BY <3>1, <3>2
    <2>10. g \in U(m)
      BY <2>7, <2>9 DEF Upto
    <2> QED
      BY <2>10
  <1> QED
    BY <1>2, <1>3

LEMMA UptoAgree ==
  ASSUME NEW T, NEW D, NEW prev, NEW base, NEW step, GoesBack(T, D, prev, base, step),
         NEW i \in Nat, NEW j \in Nat,
         NEW f \in Upto(T, D, prev, base, step, i), NEW g \in Upto(T, D, prev, base, step, j),
         NEW k \in Nat, k <= i, k <= j
  PROVE  f[k] = g[k]
  <1> DEFINE Bad == {n \in Nat : n <= i /\ n <= j /\ f[n] # g[n]}
  <1> SUFFICES ASSUME Bad # {} PROVE FALSE
    OBVIOUS
  <1>1. PICK m \in Bad : \A n \in Bad : m <= n
    BY Least
  <1>2. m \in 0 .. i /\ m \in 0 .. j /\ m \in Nat
    OBVIOUS
  <1>3. f[m] = Due(D, prev, base, step, f, m) /\ g[m] = Due(D, prev, base, step, g, m)
    BY <1>2 DEF Upto
  <1>4. m \in D => f[prev[m]] = g[prev[m]]
    <2> SUFFICES ASSUME m \in D PROVE f[prev[m]] = g[prev[m]]
      OBVIOUS
    <2>1. prev[m] \in Nat /\ prev[m] < m
      BY DEF GoesBack
    <2>2. prev[m] \notin Bad
      BY <1>1, <2>1
    <2> QED
      BY <2>1, <2>2
  <1> QED
    BY <1>3, <1>4 DEF Due

\* There is a function that goes back to smaller arguments as told.
LEMMA Recursion ==
  ASSUME NEW T, NEW D, NEW prev, NEW base, NEW step, GoesBack(T, D, prev, base, step)
  PROVE  \E f \in [Nat -> T] : f = [n \in Nat |-> Due(D, prev, base, step, f, n)]
  <1> DEFINE U(m) == Upto(T, D, prev, base, step, m)
  <1>1. \A m \in Nat : \E f : f \in U(m)
    BY UptoExists
  <1>2. \E A : \A m \in Nat : A[m] \in U(m)
    <2> DEFINE chosen == [m \in Nat |-> CHOOSE f : f \in U(m)]
    <2>1. \A m \in Nat : chosen[m] \in U(m)
      BY <1>1
    <2> QED
      BY <2>1
  <1> PICK A : \A m \in Nat : A[m] \in U(m)
    BY <1>2
  <1> DEFINE F == [n \in Nat |-> A[n][n]]
  <1>5. ASSUME NEW m \in Nat
        PROVE  A[m][m] \in T /\ A[m][m] = Due(D, prev, base, step, A[m], m)
    <2>1. A[m] \in Upto(T, D, prev, base, step, m)
      OBVIOUS
    <2> QED
      BY <2>1 DEF Upto
  <1>3. ASSUME NEW n \in Nat PROVE F[n] = Due(D, prev, base, step, F, n)
    <2>1. F[n] = Due(D, prev, base, step, A[n], n)
      BY <1>5
    <2>2. n \in D => F[prev[n]] = A[n][prev[n]]
      <3> SUFFICES ASSUME n \in D PROVE F[prev[n]] = A[n][prev[n]]
        OBVIOUS
      <3>1. prev[n] \in Nat /\ prev[n] < n
        BY DEF GoesBack
      <3>2. /\ A[prev[n]] \in Upto(T, D, prev, base, step, prev[n])
            /\ A[n] \in Upto(T, D, prev, base, step, n)
            /\ prev[n] <= prev[n] /\ prev[n] <= n
        BY <3>1
      <3>3. A[prev[n]][prev[n]] = A[n][prev[n]]
        BY <3>1, <3>2, UptoAgree
      <3> QED
        BY <3>1, <3>3
    <2> QED
      BY <2>1, <2>2 DEF Due
  <1>4. F \in [Nat -> T] /\ F = [n \in Nat |-> Due(D, prev, base, step, F, n)]
    BY <1>3, <1>5
  <1> QED
    BY <1>4

-----------------------------------------------------------------------------
(* Powers of ten, digits and trailing zeros.                               *)

\* Quotient and remainder by a positive number.
LEMMA Division ==
  ASSUME NEW a \in Nat, NEW b \in Nat \ {0}
  PROVE  /\ a \div b \in Nat /\ a % b \in 0 .. b - 1
         /\ a = b * (a \div b) + (a % b)
  OBVIOUS

LEMMA ByTen ==
  ASSUME NEW a \in Nat
  PROVE  /\ a \div 10 \in Nat /\ a % 10 \in 0 .. 9 /\ a = 10 * (a \div 10) + (a % 10)
         /\ a > 0 => a \div 10 < a
         /\ (10 * a) \div 10 = a /\ (10 * a) % 10 = 0
  OBVIOUS

LEMMA TenDefined == Ten = [n \in Nat |-> IF n = 0 THEN 1 ELSE 10 * Ten[n - 1]]
  <1> DEFINE D == Nat \ {0}
             prev == [n \in Nat |-> IF n = 0 THEN 0 ELSE n - 1]
             base == [n \in Nat |-> 1]
             step == [x \in Nat |-> 10 * x]
  <1>1. GoesBack(Nat, D, prev, base, step)
    BY DEF GoesBack
  <1>2. PICK f \in [Nat -> Nat] : f = [n \in Nat |-> Due(D, prev, base, step, f, n)]
    <2> HIDE DEF D, prev, base, step
    <2> QED
      BY <1>1, Recursion
  <1>3. \A n \in Nat : Due(D, prev, base, step, f, n) = IF n = 0 THEN 1 ELSE 10 * f[n - 1]
    BY DEF Due
  <1>4. f = [n \in Nat |-> IF n = 0 THEN 1 ELSE 10 * f[n - 1]]
    BY <1>2, <1>3
  <1> QED
    BY <1>4 DEF Ten

LEMMA LengthDefined == Length = [c \in Nat |-> IF c < 10 THEN 1 ELSE 1 + Length[c \div 10]]
  <1> DEFINE D == {c \in Nat : c >= 10}
             prev == [c \in Nat |-> c \div 10]
             base == [c \in Nat |-> 1]
             step == [x \in Nat |-> 1 + x]
  <1>1. GoesBack(Nat, D, prev, base, step)
    BY ByTen DEF GoesBack
  <1>2. PICK f \in [Nat -> Nat] : f = [c \in Nat |-> Due(D, prev, base, step, f, c)]
    <2> HIDE DEF D, prev, base, step
    <2> QED
      BY <1>1, Recursion
  <1>3. \A c \in Nat : Due(D, prev, base, step, f, c) = IF c < 10 THEN 1 ELSE 1 + f[c \div 10]
    BY ByTen DEF Due
  <1>4. f = [c \in Nat |-> IF c < 10 THEN 1 ELSE 1 + f[c \div 10]]
    BY <1>2, <1>3
  <1> QED
    BY <1>4 DEF Length

LEMMA ZerosDefined ==
  Zeros = [c \in Nat |-> IF c = 0 \/ c % 10 # 0 THEN 0 ELSE 1 + Zeros[c \div 10]]
  <1> DEFINE D == {c \in Nat : ~(c = 0 \/ c % 10 # 0)}
             prev == [c \in Nat |-> c \div 10]
             base == [c \in Nat |-> 0]
             step == [x \in Nat |-> 1 + x]
  <1>1. GoesBack(Nat, D, prev, base, step)
    BY ByTen DEF GoesBack
  <1>2. PICK f \in [Nat -> Nat] : f = [c \in Nat |-> Due(D, prev, base, step, f, c)]
    <2> HIDE DEF D, prev, base, step
    <2> QED
      BY <1>1, Recursion
  <1>3. \A c \in Nat : Due(D, prev, base, step, f, c) =
                         IF c = 0 \/ c % 10 # 0 THEN 0 ELSE 1 + f[c \div 10]
    BY ByTen DEF Due
  <1>4. f = [c \in Nat |-> IF c = 0 \/ c % 10 # 0 THEN 0 ELSE 1 + f[c \div 10]]
    BY <1>2, <1>3
  <1> QED
    BY <1>4 DEF Zeros

LEMMA TenStep ==
  ASSUME NEW n \in Nat
  PROVE  Ten[0] = 1 /\ Ten[n + 1] = 10 * Ten[n] /\ Ten[n] \in Nat \ {0}
  <1> DEFINE Bad == {m \in Nat : Ten[m] \notin Nat \ {0}}
  <1>1. Ten[0] = 1 /\ \A m \in Nat : Ten[m + 1] = 10 * Ten[m]
    BY TenDefined
  <1>2. ASSUME Bad # {} PROVE FALSE
    <2>1. PICK m \in Bad : \A k \in Bad : m <= k
      BY <1>2, Least
    <2>2. m - 1 \in Nat /\ m - 1 \notin Bad
      BY <2>1, <1>1
    <2>3. Ten[m - 1] \in Nat \ {0} /\ Ten[(m - 1) + 1] = 10 * Ten[m - 1] /\ (m - 1) + 1 = m
      BY <2>2, <1>1
    <2> QED
      BY <2>3
  <1> QED
    BY <1>1, <1>2

LEMMA TenSum ==
  ASSUME NEW a \in Nat, NEW b \in Nat
  PROVE  Ten[a + b] = Ten[a] * Ten[b]
  <1> DEFINE Bad == {n \in Nat : Ten[a + n] # Ten[a] * Ten[n]}
  <1>1. ASSUME Bad # {} PROVE FALSE
    <2>1. PICK m \in Bad : \A k \in Bad : m <= k
      BY <1>1, Least
    <2>2. 0 \notin Bad
      <3>1. Ten[a] \in Nat /\ Ten[0] = 1 /\ a + 0 = a
        BY TenStep
      <3> QED
        BY <3>1
    <2> DEFINE n == m - 1
    <2>3. n \in Nat /\ n + 1 = m /\ a + n \in Nat /\ a + m = (a + n) + 1
      BY <2>1, <2>2
    <2>4. n \notin Bad
      BY <2>1, <2>3
    <2> DEFINE x == Ten[a]
               y == Ten[n]
    <2>5. /\ Ten[a + m] = 10 * Ten[a + n] /\ Ten[m] = 10 * y
          /\ Ten[a + n] = x * y /\ x \in Nat /\ y \in Nat
      BY <2>3, <2>4, TenStep
    <2>6. 10 * (x * y) = x * (10 * y)
      <3> HIDE DEF x, y
      <3> QED
        BY <2>5
    <2> QED
      BY <2>5, <2>6
  <1> QED
    BY <1>1

LEMMA TenOrder ==
  ASSUME NEW a \in Nat, NEW b \in Nat, a <= b
  PROVE  Ten[a] <= Ten[b]
  <1> DEFINE x == Ten[a]
             y == Ten[b - a]
  <1>1. b - a \in Nat /\ a + (b - a) = b
    OBVIOUS
  <1>2. Ten[a + (b - a)] = x * y
    BY <1>1, TenSum
  <1>4. x \in Nat /\ y \in Nat \ {0}
    BY <1>1, TenStep
  <1>3. x <= x * y
    <2> HIDE DEF x, y
    <2> QED
      BY <1>4
  <1> QED
    BY <1>1, <1>2, <1>3

\* A number lies between the powers of ten that its length names.
LEMMA LengthBounds ==
  ASSUME NEW c \in Nat \ {0}
  PROVE  /\ Length[c] \in Nat \ {0}
         /\ Ten[Length[c] - 1] <= c /\ c < Ten[Length[c]]
  <1> DEFINE Good(d) == /\ Length[d] \in Nat \ {0}
                        /\ Ten[Length[d] - 1] <= d /\ d < Ten[Length[d]]
             Bad == {d \in Nat \ {0} : ~Good(d)}
  <1>1. ASSUME Bad # {} PROVE FALSE
    <2>1. PICK m \in Bad : \A k \in Bad : m <= k
      BY <1>1, Least
    <2>2. CASE m < 10
      <3>1. Length[m] = 1 /\ Ten[0] = 1 /\ Ten[0 + 1] = 10
        BY <2>2, LengthDefined, TenStep
      <3> QED
        BY <2>2, <3>1
    <2>3. CASE ~(m < 10)
      <3> DEFINE q == m \div 10
                 n == Length[q]
      <3>1. q \in Nat \ {0} /\ q < m /\ 10 * q <= m /\ m < 10 * (q + 1) /\ Length[m] = 1 + n
        BY <2>3, LengthDefined, ByTen
      <3>2. Good(q)
        BY <3>1, <2>1
      <3>3. n \in Nat \ {0} /\ n - 1 \in Nat
        BY <3>2
      <3>4. Ten[n] = 10 * Ten[n - 1] /\ Ten[n + 1] = 10 * Ten[n]
        BY <3>3, TenStep
      <3>5. Ten[n - 1] \in Nat /\ Ten[n] \in Nat
        BY <3>3, TenStep
      <3>6. Ten[n] <= m /\ m < Ten[n + 1]
        BY <3>1, <3>2, <3>4, <3>5
      <3>7. Length[m] - 1 = n /\ Length[m] = n + 1 /\ Length[m] \in Nat \ {0}
        BY <3>1, <3>3
      <3> QED
        BY <3>6, <3>7
    <2> QED
      BY <2>2, <2>3
  <1> QED
    BY <1>1

\* What is left without the trailing zeros.
LEMMA ZerosDivide ==
  ASSUME NEW c \in Nat \ {0}
  PROVE  /\ Zeros[c] \in Nat
         /\ \E q \in Nat \ {0} : c = q * Ten[Zeros[c]]
  <1> DEFINE Good(d) == /\ Zeros[d] \in Nat
                        /\ \E q \in Nat \ {0} : d = q * Ten[Zeros[d]]
             Bad == {d \in Nat \ {0} : ~Good(d)}
  <1>1. ASSUME Bad # {} PROVE FALSE
    <2>1. PICK m \in Bad : \A k \in Bad : m <= k
      BY <1>1, Least
    <2>2. CASE m % 10 # 0
      <3>1. Zeros[m] = 0 /\ Ten[0] = 1
        BY <2>2, ZerosDefined, TenStep
      <3> QED
        BY <3>1
    <2>3. CASE m % 10 = 0
      <3> DEFINE h == m \div 10
                 z == Zeros[h]
      <3>1. h \in Nat \ {0} /\ h < m /\ m = 10 * h /\ Zeros[m] = 1 + z
        BY <2>3, ZerosDefined, ByTen
      <3>2. Good(h)
        BY <3>1, <2>1
      <3>3. z \in Nat /\ Zeros[m] = z + 1
        BY <3>1, <3>2
      <3>4. PICK q \in Nat \ {0} : h = q * Ten[z]
        BY <3>2
      <3>5. Ten[z + 1] = 10 * Ten[z] /\ Ten[z] \in Nat
        BY <3>3, TenStep
      <3>6. m = q * Ten[z + 1]
        BY <3>1, <3>4, <3>5
      <3> QED
        BY <3>3, <3>6
    <2> QED
      BY <2>2, <2>3
  <1> QED
    BY <1>1

LEMMA Times ==
  ASSUME NEW a \in Nat, NEW b \in Nat, NEW t \in Nat \ {0}
  PROVE  /\ a * t \in Nat /\ (a * t) \div t = a
         /\ a < b => a * t < b * t
         /\ a <= b => a * t <= b * t
  <1>1. a * t \in Nat /\ (a * t) \div t = a
    OBVIOUS
  <1>2. a < b => a * t < b * t
    OBVIOUS
  <1>3. a <= b => a * t <= b * t
    OBVIOUS
  <1> QED
    BY <1>1, <1>2, <1>3

LEMMA StrippedForm ==
  ASSUME NEW d, d.c \in Nat \ {0}, d.e \in Int
  PROVE  \E q \in Nat \ {0} : /\ Zeros[d.c] \in Nat
                              /\ d.c = q * Ten[Zeros[d.c]]
                              /\ Stripped(d) = [c |-> q, e |-> d.e + Zeros[d.c]]
  <1> DEFINE z == Zeros[d.c]
             t == Ten[z]
  <1>1. PICK q \in Nat \ {0} : z \in Nat /\ d.c = q * t
    BY ZerosDivide
  <1>2. t \in Nat \ {0}
    BY <1>1, TenStep
  <1>3. (q * t) \div t = q
    <2> HIDE DEF t
    <2> QED
      BY <1>2, Times
  <1>4. Stripped(d) = [c |-> d.c \div t, e |-> d.e + z]
    BY DEF Stripped
  <1> QED
    BY <1>1, <1>3, <1>4

\* Moving the point by writing zeros does not change the number.
LEMMA StrippedTen ==
  ASSUME NEW x \in Nat \ {0}, NEW y \in Int
  PROVE  Stripped([c |-> 10 * x, e |-> y - 1]) = Stripped([c |-> x, e |-> y])
  <1> DEFINE d == [c |-> x, e |-> y]
             s == [c |-> 10 * x, e |-> y - 1]
             z == Zeros[x]
  <1>1. PICK q \in Nat \ {0} : z \in Nat /\ x = q * Ten[z] /\ Stripped(d) = [c |-> q, e |-> y + z]
    <2>1. d.c = x /\ d.e = y
      OBVIOUS
    <2> HIDE DEF d
    <2> QED
      BY <2>1, StrippedForm
  <1>2. Zeros[10 * x] = z + 1
    BY <1>1, ZerosDefined, ByTen
  <1>3. PICK p \in Nat \ {0} : /\ 10 * x = p * Ten[z + 1]
                               /\ Stripped(s) = [c |-> p, e |-> (y - 1) + (z + 1)]
    <2>1. s.c = 10 * x /\ s.e = y - 1 /\ s.c \in Nat \ {0} /\ s.e \in Int
      OBVIOUS
    <2> HIDE DEF s
    <2> QED
      BY <2>1, <1>2, StrippedForm
  <1>4. Ten[z + 1] = 10 * Ten[z] /\ Ten[z] \in Nat \ {0}
    BY <1>1, TenStep
  <1>5. q = p
    <2> DEFINE t == Ten[z]
    <2>1. t \in Nat \ {0} /\ 10 * (q * t) = p * (10 * t)
      BY <1>1, <1>3, <1>4
    <2>2. q * t = p * t
      <3> HIDE DEF t
      <3>1. p * (10 * t) = 10 * (p * t) /\ q * t \in Nat /\ p * t \in Nat
        BY <2>1
      <3> QED
        BY <2>1, <3>1
    <2>3. (q * t) \div t = q /\ (p * t) \div t = p
      <3> HIDE DEF t
      <3> QED
        BY <2>1, Times
    <2> QED
      BY <2>2, <2>3
  <1>6. (y - 1) + (z + 1) = y + z
    BY <1>1
  <1> QED
    BY <1>1, <1>3, <1>5, <1>6

LEMMA StrippedScaled ==
  ASSUME NEW x \in Nat \ {0}, NEW y \in Int, NEW n \in Nat
  PROVE  Stripped([c |-> x * Ten[n], e |-> y - n]) = Stripped([c |-> x, e |-> y])
  <1> DEFINE Moved(k) == Stripped([c |-> x * Ten[k], e |-> y - k])
             Bad == {k \in Nat : Moved(k) # Stripped([c |-> x, e |-> y])}
  <1>1. ASSUME Bad # {} PROVE FALSE
    <2>1. PICK m \in Bad : \A k \in Bad : m <= k
      BY <1>1, Least
    <2>2. 0 \notin Bad
      <3>1. x * Ten[0] = x /\ y - 0 = y
        BY TenStep
      <3> QED
        BY <3>1
    <2> DEFINE k == m - 1
               t == Ten[k]
    <2>3. k \in Nat /\ k + 1 = m
      BY <2>1, <2>2
    <2>4. k \notin Bad
      BY <2>1, <2>3
    <2>5. Ten[m] = 10 * t /\ t \in Nat \ {0}
      BY <2>3, TenStep
    <2>6. x * (10 * t) = 10 * (x * t) /\ x * t \in Nat \ {0}
      <3> HIDE DEF t
      <3> QED
        BY <2>5
    <2>7. y - m = (y - k) - 1 /\ y - k \in Int
      BY <2>3
    <2>8. Stripped([c |-> 10 * (x * t), e |-> (y - k) - 1]) = Moved(k)
      <3> HIDE DEF t
      <3>1. Stripped([c |-> 10 * (x * t), e |-> (y - k) - 1]) = Stripped([c |-> x * t, e |-> y - k])
        BY <2>6, <2>7, StrippedTen
      <3> QED
        BY <3>1 DEF t
    <2>9. Moved(m) = Moved(k)
      BY <2>5, <2>6, <2>7, <2>8
    <2> QED
      BY <2>1, <2>4, <2>9, <2>3
  <1> QED
    BY <1>1

\* A column of enough places keeps the number.
LEMMA NumericKeeps ==
  ASSUME NEW d, d.c \in Nat \ {0}, d.e \in Int, Amount(d)
  PROVE  /\ Numeric(d) = [c |-> d.c * Ten[d.e + Places], e |-> -Places]
         /\ Stripped(Numeric(d)) = Stripped(d)
  <1> DEFINE n == d.e + Places
  <1>1. n \in Nat /\ d.e - n = -Places
    BY DataAssumption DEF Amount
  <1>2. Numeric(d) = [c |-> d.c * Ten[n], e |-> -Places]
    BY <1>1 DEF Numeric
  <1>3. Stripped([c |-> d.c * Ten[n], e |-> d.e - n]) = Stripped([c |-> d.c, e |-> d.e])
    BY <1>1, StrippedScaled
  <1>4. Stripped([c |-> d.c, e |-> d.e]) = Stripped(d)
    BY DEF Stripped
  <1> QED
    BY <1>1, <1>2, <1>3, <1>4

-----------------------------------------------------------------------------
(* What fits the schema fits the column.                                   *)

\* Digits before the point bound a number, as it is written...
LEMMA WholeBounds ==
  ASSUME NEW d, d.c \in Nat \ {0}, d.e \in Int
  PROVE  /\ Length[d.c] \in Nat \ {0} /\ d.c < Ten[Length[d.c]]
         /\ Length[d.c] + d.e <= Digits(d) - Decimals(d)
  <1>1. Length[d.c] \in Nat \ {0} /\ d.c < Ten[Length[d.c]]
    BY LengthBounds
  <1> QED
    BY <1>1 DEF Digits, Decimals, Greater

\* ... and normalized: rounding adds to the quotient or leaves it, so the
\* number is below the power of ten that bounds the rounded one.
LEMMA NormalizedBounds ==
  ASSUME NEW d, d.c \in Nat \ {0}, d.e \in Int
  PROVE  /\ Normalized(d).c \in Nat \ {0} /\ Normalized(d).e \in Int
         /\ \E w \in Nat : /\ w + d.e = Length[Normalized(d).c] + Normalized(d).e
                           /\ d.c < Ten[w]
  <1> DEFINE L == Length[d.c]
             n == Greater(0, L - Precision)
             t == Ten[n]
             q == d.c \div t
             r == 2 * (d.c % t)
             up == r > t \/ (r = t /\ q % 2 = 1)
             rounded == [c |-> IF n > 0 /\ up THEN q + 1 ELSE q, e |-> d.e + n]
             s == rounded.c
  <1>0. t = Ten[n]
    OBVIOUS
  <1>1. L \in Nat \ {0} /\ Ten[L - 1] <= d.c
    BY LengthBounds
  <1>2. n \in Nat /\ n <= L - 1 /\ L - 1 \in Nat
    BY <1>1, DataAssumption DEF Greater
  <1>3. t \in Nat \ {0} /\ t <= d.c
    <2>1. Ten[n] <= Ten[L - 1] /\ Ten[n] \in Nat \ {0} /\ Ten[L - 1] \in Nat
      BY <1>2, TenOrder, TenStep
    <2> QED
      BY <2>1, <1>1
  <1>4. q \in Nat \ {0} /\ d.c < (q + 1) * t
    <2>1. q \in Nat /\ d.c % t \in 0 .. t - 1 /\ d.c = t * q + (d.c % t)
      <3> HIDE DEF t
      <3> QED
        BY <1>3, Division
    <2>2. d.c < (q + 1) * t
      <3>1. (q + 1) * t = t * q + t
        <4> HIDE DEF t, q
        <4> QED
          BY <1>3, <2>1
      <3> HIDE DEF t, q
      <3> QED
        BY <1>3, <2>1, <3>1
    <2>3. q # 0
      <3> SUFFICES ASSUME q = 0 PROVE FALSE
        OBVIOUS
      <3>1. t * q = 0
        BY <1>3
      <3> HIDE DEF t, q
      <3> QED
        BY <1>3, <2>1, <3>1
    <2> QED
      BY <2>1, <2>2, <2>3
  <1>5. /\ rounded.e = d.e + n /\ rounded.e \in Int
        /\ rounded.c = s /\ s \in Nat \ {0} /\ q <= s
    <2>1. s = q \/ s = q + 1
      OBVIOUS
    <2>2. rounded.e = d.e + n
      OBVIOUS
    <2> HIDE DEF q, n, rounded
    <2> QED
      BY <1>2, <1>4, <2>1, <2>2
  <1>6. Normalized(d) = Stripped(rounded)
    BY DEF Normalized
  <1> HIDE DEF L, n, t, q, r, up, rounded, s
  <1>7. PICK p \in Nat \ {0} : /\ Zeros[s] \in Nat /\ s = p * Ten[Zeros[s]]
                               /\ Stripped(rounded) = [c |-> p, e |-> rounded.e + Zeros[s]]
    BY <1>5, StrippedForm
  <1> DEFINE z == Zeros[s]
             l == Length[p]
             w == (l + z) + n
  <1>8. l \in Nat \ {0} /\ p < Ten[l] /\ z \in Nat
    BY <1>7, LengthBounds
  <1>9. s < Ten[l + z]
    <2> DEFINE a == Ten[l]
               b == Ten[z]
    <2>1. a \in Nat /\ b \in Nat \ {0} /\ Ten[l + z] = a * b /\ p < a /\ s = p * b
      BY <1>7, <1>8, TenSum, TenStep
    <2> HIDE DEF a, b
    <2>2. p * b < a * b
      BY <2>1, Times
    <2> QED
      BY <2>1, <2>2
  <1>10. d.c < Ten[w]
    <2> DEFINE a == Ten[l + z]
    <2>1. l + z \in Nat /\ a \in Nat /\ s < a
      BY <1>8, <1>9, TenStep
    <2>2. Ten[w] = a * t
      BY <1>0, <1>2, <2>1, TenSum
    <2> HIDE DEF a, w
    <2>3. q + 1 \in Nat /\ q + 1 <= a
      BY <1>4, <1>5, <2>1
    <2>4. (q + 1) * t <= a * t /\ (q + 1) * t \in Nat /\ a * t \in Nat
      BY <1>3, <2>1, <2>3, Times
    <2> QED
      BY <1>4, <2>2, <2>4
  <1>11. Normalized(d).c = p /\ Normalized(d).e = (d.e + n) + z
    BY <1>5, <1>6, <1>7
  <1>12. w \in Nat /\ w + d.e = Length[p] + Normalized(d).e
    <2> HIDE DEF z
    <2> QED
      BY <1>2, <1>8, <1>11
  <1>13. Normalized(d).e \in Int
    BY <1>2, <1>8, <1>11
  <1> HIDE DEF w
  <1> QED
    BY <1>7, <1>10, <1>11, <1>12, <1>13

\* Either way the column has room for it.
LEMMA FitsColumn ==
  ASSUME NEW d, d.c \in Nat \ {0}, d.e \in Int, Amount(d), FitsDigits(d)
  PROVE  Numeric(d).c \in Nat /\ Numeric(d).c < Ten[MaxDigits]
  <1>1. PICK w \in Nat : d.c < Ten[w] /\ w + d.e <= MaxDigits - Places
    <2>1. \/ Digits(d) - Decimals(d) <= MaxDigits - Places
          \/ Digits(Normalized(d)) - Decimals(Normalized(d)) <= MaxDigits - Places
      BY DEF FitsDigits
    <2>2. CASE Digits(d) - Decimals(d) <= MaxDigits - Places
      <3>1. Digits(d) - Decimals(d) \in Int
        BY WholeBounds DEF Digits, Decimals, Greater
      <3> QED
        BY <2>2, <3>1, WholeBounds, DataAssumption
    <2>3. CASE Digits(Normalized(d)) - Decimals(Normalized(d)) <= MaxDigits - Places
      <3> DEFINE m == Normalized(d)
      <3>1. m.c \in Nat \ {0} /\ m.e \in Int
        BY NormalizedBounds
      <3>2. PICK w \in Nat : w + d.e = Length[m.c] + m.e /\ d.c < Ten[w]
        BY NormalizedBounds
      <3>3. Length[m.c] \in Nat /\ Length[m.c] + m.e <= Digits(m) - Decimals(m)
        <4> HIDE DEF m
        <4> QED
          BY <3>1, WholeBounds
      <3>4. Digits(m) - Decimals(m) \in Int
        <4> HIDE DEF m
        <4> QED
          BY <3>1, <3>3 DEF Digits, Decimals, Greater
      <3>5. w + d.e <= MaxDigits - Places
        <4> HIDE DEF m
        <4> QED
          BY <3>1, <3>2, <3>3, <3>4, <2>3, DataAssumption DEF m
      <3> QED
        BY <3>2, <3>5
    <2> QED
      BY <2>1, <2>2, <2>3
  <1> DEFINE n == d.e + Places
             t == Ten[n]
  <1>2. n \in Nat /\ w + n \in Nat /\ w + n <= MaxDigits
    BY <1>1, DataAssumption DEF Amount
  <1>3. t \in Nat \ {0} /\ Ten[w] \in Nat /\ Ten[w + n] = Ten[w] * t
    BY <1>2, TenSum, TenStep
  <1>4. d.c * t \in Nat /\ d.c * t < Ten[w] * t
    <2> DEFINE x == Ten[w]
    <2>1. x \in Nat /\ d.c < x
      BY <1>1, <1>3
    <2> HIDE DEF t, x
    <2>2. d.c * t < x * t /\ d.c * t \in Nat
      BY <1>3, <2>1, Times
    <2> QED
      BY <2>2 DEF x
  <1>5. Ten[w + n] <= Ten[MaxDigits] /\ Ten[w + n] \in Nat /\ Ten[MaxDigits] \in Nat
    BY <1>2, TenOrder, TenStep, DataAssumption
  <1>6. Numeric(d).c = d.c * t
    BY NumericKeeps
  <1> HIDE DEF t, n
  <1> QED
    BY <1>3, <1>4, <1>5, <1>6

-----------------------------------------------------------------------------
(* Stored rows and answers.                                                *)

Columns ==
  {"key", "amount", "currency", "description", "metadata", "url", "hash", "status",
   "processed_at"}

\* A row holds what a request asks for.
Holds(row, r) ==
  /\ Amount(r.amount) /\ row.amount = Numeric(r.amount)
  /\ row.currency = r.currency /\ row.description = r.description
  /\ row.metadata = Dumped(r.metadata) /\ row.url = Canonical(r.url)

\* A row was created from a request the schema accepts, whose hash it keeps,
\* and every column has been through its value object and its constraint.
Sound(row, k, r) ==
  /\ row = [c \in Columns |-> row[c]]
  /\ r \in Hashed /\ r.key = k /\ Holds(row, r)
  /\ row.hash = Hash(r)
  /\ row.key = k /\ IdempotencyKey(k) /\ Http(row.url)
  /\ TableAccepts(row)

RowInv ==
  /\ rows = [k \in Key |-> rows[k]] /\ origin = [k \in Key |-> origin[k]]
  /\ \A k \in Key : rows[k] # NULL => Sound(rows[k], k, origin[k])

\* A repeat of the request that the row was created from is answered 202.
RepeatInv ==
  last.code # 0 =>
    /\ last.request \in Request
    /\ rows[last.request.key] # NULL /\ SameBody(last.request, origin[last.request.key])
         => last.code = 202

\* A 202 was given for a row that holds what the request asks for.
ReplayInv ==
  last.code = 202 =>
    last.request \in Accepted /\ Holds(rows[last.request.key], last.request)

CodeInv ==
  /\ last.code \in {0, 202, 409, 422, 500}
  /\ last.code = 500 => Unstorable(last.request)
  /\ broken = FALSE

DataInv == RowInv /\ RepeatInv /\ ReplayInv /\ CodeInv

LEMMA InitData == Init => DataInv
  BY DEF Init, DataInv, RowInv, RepeatInv, ReplayInv, CodeInv

\* A canonical URL is its own canonical form.
LEMMA CanonicalTwice == ASSUME NEW url, Http(url) PROVE Http(Canonical(url))
  BY DEF Http, Canonical

LEMMA AcceptedAmount ==
  ASSUME NEW r \in Accepted
  PROVE  /\ r \in Request /\ r.key \in Key /\ SchemaAccepts(r)
         /\ r.amount.c \in Nat \ {0} /\ r.amount.e \in Int /\ FitsDigits(r.amount)
  BY DataAssumption DEF Accepted, SchemaAccepts, Key

LEMMA NewRowForm ==
  ASSUME NEW r
  PROVE  /\ NewRow(r) = [c \in Columns |-> NewRow(r)[c]]
         /\ NewRow(r).key = r.key /\ NewRow(r).amount = Numeric(r.amount)
         /\ NewRow(r).currency = r.currency /\ NewRow(r).description = r.description
         /\ NewRow(r).metadata = r.metadata
         /\ NewRow(r).url = Canonical(r.url) /\ NewRow(r).hash = Hash(r)
         /\ NewRow(r).status = "pending" /\ NewRow(r).processed_at = NULL
  BY DEF NewRow, Columns

\* The table takes what schema and value objects let through, but for what no
\* column of its type can hold.
LEMMA NewRowAccepted ==
  ASSUME NEW r \in Accepted, Amount(r.amount), ~Unstorable(r)
  PROVE  TableAccepts(NewRow(r))
  <1>1. r.amount.c \in Nat \ {0} /\ r.amount.e \in Int /\ FitsDigits(r.amount)
    BY AcceptedAmount
  <1>2. Numeric(r.amount).c \in Nat /\ Numeric(r.amount).c < Ten[MaxDigits]
    BY <1>1, FitsColumn
  <1>3. r.currency \in Currency /\ r.key <= MaxKey
    BY AcceptedAmount DEF SchemaAccepts
  <1> QED
    BY <1>2, <1>3, NewRowForm DEF TableAccepts, Status, Unstorable

LEMMA NewRowSound ==
  ASSUME NEW r \in Hashed, Amount(r.amount), IdempotencyKey(r.key), TableAccepts(NewRow(r))
  PROVE  Sound(NewRow(r), r.key, r)
  <1>1. Http(NewRow(r).url)
    BY CanonicalTwice, NewRowForm DEF Hashed, Accepted, SchemaAccepts
  <1>2. Holds(NewRow(r), r)
    BY NewRowForm DEF Holds, Dumped, TableAccepts, Jsonb
  <1> QED
    BY <1>1, <1>2, NewRowForm DEF Sound

LEMMA TransitionForm ==
  ASSUME NEW row, NEW status, row = [c \in Columns |-> row[c]]
  PROVE  /\ Transition(row, status) = [c \in Columns |-> Transition(row, status)[c]]
         /\ Transition(row, status).status = status
         /\ Transition(row, status).processed_at = "now"
         /\ \A c \in Columns \ {"status", "processed_at"} : Transition(row, status)[c] = row[c]
  BY DEF Transition, Columns

\* A decision keeps the row sound, and the table does not refuse it.
LEMMA TransitionSound ==
  ASSUME NEW row, NEW k, NEW r, NEW status \in Status, Sound(row, k, r), status # "pending"
  PROVE  Sound(Transition(row, status), k, r)
  <1> DEFINE next == Transition(row, status)
  <1>1. /\ next = [c \in Columns |-> next[c]]
        /\ next.status = status /\ next.processed_at = "now"
        /\ \A c \in Columns \ {"status", "processed_at"} : next[c] = row[c]
    BY TransitionForm DEF Sound
  <1> HIDE DEF next
  <1>2. /\ next.hash = row.hash /\ next.key = row.key /\ next.url = row.url
        /\ next.amount = row.amount /\ next.currency = row.currency
        /\ next.description = row.description /\ next.metadata = row.metadata
    BY <1>1 DEF Columns
  <1>3. Holds(next, r)
    BY <1>2 DEF Sound, Holds
  <1>4. TableAccepts(next)
    BY <1>1, <1>2, DataAssumption DEF Sound, TableAccepts
  <1>5. Sound(next, k, r)
    BY <1>1, <1>2, <1>3, <1>4 DEF Sound
  <1> QED
    BY <1>5 DEF next

\* Two bodies with one hash ask for the same.
LEMMA SameHash ==
  ASSUME NEW row, NEW r, NEW s, Hash(r) = Hash(s), Holds(row, r)
  PROVE  Holds(row, s)
  <1>1. /\ r.amount = s.amount /\ r.currency = s.currency
        /\ r.description = s.description /\ Dumped(r.metadata) = Dumped(s.metadata)
        /\ Canonical(r.url) = Canonical(s.url)
    BY DEF Hash
  <1> QED
    BY <1>1 DEF Holds

\* A row's amount, as the column keeps it.
LEMMA HeldAmount ==
  ASSUME NEW row, NEW r \in Accepted, Holds(row, r)
  PROVE  /\ row.amount = [c |-> r.amount.c * Ten[r.amount.e + Places], e |-> -Places]
         /\ row.amount.e = -Places
  <1>1. r.amount.c \in Nat \ {0} /\ r.amount.e \in Int
    BY AcceptedAmount
  <1> QED
    BY <1>1, NumericKeeps DEF Holds

LEMMA HeldNumber ==
  ASSUME NEW row, NEW r \in Accepted, Holds(row, r)
  PROVE  Stripped(row.amount) = Stripped(r.amount)
  <1>1. r.amount.c \in Nat \ {0} /\ r.amount.e \in Int
    BY AcceptedAmount
  <1>2. Stripped(Numeric(r.amount)) = Stripped(r.amount)
    BY <1>1, NumericKeeps DEF Holds
  <1> QED
    BY <1>2 DEF Holds

\* What is stored passes the value objects again and has the column's scale.
LEMMA SoundLoadable ==
  ASSUME NEW row, NEW k, NEW r, Sound(row, k, r)
  PROVE  Loadable(row) /\ Decimals(row.amount) = Places
  <1>1. row.amount.e = -Places
    BY HeldAmount DEF Sound, Hashed
  <1>2. row.amount.c >= 0
    BY DEF Sound, TableAccepts
  <1>3. Amount(row.amount) /\ Decimals(row.amount) = Places
    BY <1>1, <1>2, DataAssumption DEF Amount, Decimals, Greater
  <1> QED
    BY <1>3 DEF Sound, Loadable, WebhookUrl

\* A repeat is accepted as the first request was, and has its hash.
LEMMA RepeatAccepted ==
  ASSUME NEW r \in Request, NEW s \in Hashed, r.key = s.key, SameBody(r, s)
  PROVE  r \in Hashed /\ Hash(r) = Hash(s)
  <1>1. /\ r.amount = s.amount /\ r.currency = s.currency /\ r.description = s.description
        /\ r.metadata = s.metadata /\ Canonical(r.url) = Canonical(s.url)
    BY DEF SameBody
  <1>2. r.url.scheme = s.url.scheme /\ r.url.host = s.url.host
    <2>1. \A u : Canonical(u).scheme = u.scheme /\ Canonical(u).host = u.host
      BY DEF Canonical
    <2> QED
      BY <1>1, <2>1
  <1>3. SchemaAccepts(s) /\ Hashable(s)
    BY DEF Hashed, Accepted
  <1>4. SchemaAccepts(r)
    BY <1>1, <1>2, <1>3 DEF SchemaAccepts, Http
  <1> QED
    BY <1>1, <1>3, <1>4 DEF Hashed, Accepted, Hashable, Hash

LEMMA NextData == DataInv /\ [Next]_vars => DataInv'
  <1> SUFFICES ASSUME DataInv, [Next]_vars PROVE DataInv'
    OBVIOUS
  <1> USE DEF DataInv
  <1>1. CASE UNCHANGED vars
    BY <1>1 DEF vars, RowInv, RepeatInv, ReplayInv, CodeInv
  <1>1a. ASSUME NEW r \in Request, rows[r.key] # NULL, SameBody(r, origin[r.key])
         PROVE  /\ r \in Hashed /\ Loadable(rows[r.key])
                /\ rows[r.key].hash = Hash(r)
    <2>1. r.key \in Key
      BY DataAssumption DEF Key
    <2>2. Sound(rows[r.key], r.key, origin[r.key])
      BY <1>1a, <2>1 DEF RowInv
    <2>3. /\ origin[r.key] \in Hashed /\ origin[r.key].key = r.key
          /\ rows[r.key].hash = Hash(origin[r.key])
      BY <2>2 DEF Sound
    <2>4. r \in Hashed /\ Hash(r) = Hash(origin[r.key])
      BY <1>1a, <2>3, RepeatAccepted
    <2> QED
      BY <2>2, <2>3, <2>4, SoundLoadable
  <1>2. ASSUME NEW r \in Request, Refuse(r) PROVE DataInv'
    <2>1. UNCHANGED <<rows, origin, broken>> /\ last' = [request |-> r, code |-> 422]
      BY <1>2 DEF Refuse, Answer
    <2>2. ~(rows[r.key] # NULL /\ SameBody(r, origin[r.key]))
      BY <1>1a, <1>2 DEF Refuse, Hashed
    <2>3. RepeatInv'
      BY <2>1, <2>2 DEF RepeatInv
    <2> QED
      BY <2>1, <2>3 DEF RowInv, ReplayInv, CodeInv
  <1>2a. ASSUME NEW r \in Request, HashFails(r) PROVE DataInv'
    <2>1. UNCHANGED <<rows, origin, broken>> /\ last' = [request |-> r, code |-> 500]
      BY <1>2a DEF HashFails, Answer
    <2>2. ~(rows[r.key] # NULL /\ SameBody(r, origin[r.key]))
      BY <1>1a, <1>2a DEF HashFails
    <2>3. RepeatInv'
      BY <2>1, <2>2 DEF RepeatInv
    <2>4. Unstorable(r)
      BY <1>2a DEF HashFails, Hashed, Hashable, Unstorable, Jsonb
    <2> QED
      BY <2>1, <2>3, <2>4 DEF RowInv, ReplayInv, CodeInv
  <1>3. ASSUME NEW r \in Request, Replay(r) PROVE DataInv'
    <2>1. r.key \in Key /\ r \in Accepted
      BY <1>3, AcceptedAmount DEF Replay, Hashed
    <2>2. Sound(rows[r.key], r.key, origin[r.key])
      BY <1>3, <2>1 DEF Replay, RowInv
    <2>3. UNCHANGED <<rows, origin, broken>> /\ last'.request = r /\ last'.code \in {202, 409}
      BY <1>3 DEF Replay, Answer
    <2>4. last'.code = 202 <=> rows[r.key].hash = Hash(r)
      BY <1>3 DEF Replay, Answer
    <2>5. RowInv' /\ CodeInv'
      BY <2>3 DEF RowInv, CodeInv
    <2>6. rows[r.key].hash = Hash(origin[r.key])
      BY <2>2 DEF Sound
    <2>7. RepeatInv'
      BY <1>1a, <2>3, <2>4 DEF RepeatInv
    <2>8. ReplayInv'
      <3>1. last'.code = 202 => Holds(rows[r.key], r)
        BY <2>2, <2>4, <2>6, SameHash DEF Sound
      <3> QED
        BY <2>1, <2>3, <3>1 DEF ReplayInv
    <2> QED
      BY <2>5, <2>7, <2>8
  <1>4. ASSUME NEW r \in Request, Create(r) PROVE DataInv'
    <2>1. /\ r \in Hashed /\ r \in Accepted /\ r.key \in Key /\ rows[r.key] = NULL
          /\ Amount(r.amount) /\ IdempotencyKey(r.key)
      BY <1>4, AcceptedAmount DEF Create, Hashed
    <2>2. CASE TableAccepts(NewRow(r))
      <3>1. /\ rows' = [rows EXCEPT ![r.key] = NewRow(r)]
            /\ origin' = [origin EXCEPT ![r.key] = r]
            /\ last' = [request |-> r, code |-> 202] /\ UNCHANGED broken
        BY <1>4, <2>2 DEF Create, Answer
      <3>2. Sound(NewRow(r), r.key, r)
        BY <2>1, <2>2, NewRowSound
      <3>3. /\ rows' = [k \in Key |-> rows'[k]] /\ origin' = [k \in Key |-> origin'[k]]
            /\ rows'[r.key] = NewRow(r) /\ origin'[r.key] = r
            /\ \A k \in Key : k # r.key => rows'[k] = rows[k] /\ origin'[k] = origin[k]
        BY <2>1, <3>1 DEF RowInv
      <3>4. RowInv'
        BY <3>2, <3>3 DEF RowInv
      <3>5. RepeatInv' /\ CodeInv'
        BY <3>1 DEF RepeatInv, CodeInv
      <3>6. ReplayInv'
        BY <2>1, <3>1, <3>2, <3>3 DEF ReplayInv, Sound
      <3> QED
        BY <3>4, <3>5, <3>6
    <2>3. CASE ~TableAccepts(NewRow(r))
      <3>1. UNCHANGED <<rows, origin, broken>> /\ last' = [request |-> r, code |-> 500]
        BY <1>4, <2>3 DEF Create, Answer
      <3>2. Unstorable(r)
        BY <2>1, <2>3, NewRowAccepted
      <3> QED
        BY <2>1, <3>1, <3>2 DEF RowInv, RepeatInv, ReplayInv, CodeInv
    <2> QED
      BY <2>2, <2>3
  <1>5. ASSUME NEW k \in Key, NEW status \in Status, Decide(k, status) PROVE DataInv'
    <2>1. /\ rows[k] # NULL /\ UNCHANGED <<origin, last>> /\ Sound(rows[k], k, origin[k])
          /\ status # "pending"
      BY <1>5 DEF Decide, RowInv
    <2>2. Sound(Transition(rows[k], status), k, origin[k])
      BY <2>1, TransitionSound
    <2>3. rows' = [rows EXCEPT ![k] = Transition(rows[k], status)] /\ UNCHANGED broken
      BY <1>5, <2>2 DEF Decide, Sound
    <2>4. /\ rows' = [j \in Key |-> rows'[j]] /\ rows'[k] = Transition(rows[k], status)
          /\ \A j \in Key : j # k => rows'[j] = rows[j]
      BY <2>3 DEF RowInv
    <2>5. RowInv'
      BY <2>1, <2>2, <2>4 DEF RowInv
    <2>6. RepeatInv' /\ CodeInv'
      <3>1. last.code # 0 => last.request.key \in Key
        BY DataAssumption DEF RepeatInv, Key
      <3>2. \A j \in Key : rows'[j] # NULL => rows[j] # NULL
        BY <2>1, <2>4
      <3> QED
        BY <2>1, <2>3, <3>1, <3>2 DEF RepeatInv, CodeInv
    <2>7. ReplayInv'
      <3> SUFFICES ASSUME last.code = 202
                   PROVE  /\ last.request \in Accepted
                          /\ Holds(rows'[last.request.key], last.request)
        BY <2>1 DEF ReplayInv
      <3>1. last.request \in Accepted /\ Holds(rows[last.request.key], last.request)
        BY DEF ReplayInv
      <3>2. last.request.key \in Key
        BY <3>1, AcceptedAmount
      <3>3. ASSUME last.request.key = k PROVE Holds(rows'[k], last.request)
        <4>1. \A c \in Columns \ {"status", "processed_at"} : rows'[k][c] = rows[k][c]
          BY <2>1, <2>4, TransitionForm DEF Sound
        <4>2. /\ rows'[k].amount = rows[k].amount /\ rows'[k].currency = rows[k].currency
              /\ rows'[k].description = rows[k].description
              /\ rows'[k].metadata = rows[k].metadata /\ rows'[k].url = rows[k].url
          BY <4>1 DEF Columns
        <4> QED
          BY <3>1, <3>3, <4>2 DEF Holds
      <3> QED
        BY <3>1, <3>2, <3>3, <2>4
    <2> QED
      BY <2>5, <2>6, <2>7
  <1> QED
    BY <1>1, <1>2, <1>2a, <1>3, <1>4, <1>5 DEF Next

LEMMA DataCorrect == Spec => []DataInv
  BY InitData, NextData, PTL DEF Spec

LEMMA StoredSound ==
  ASSUME DataInv, NEW k \in Stored
  PROVE  Sound(rows[k], k, origin[k]) /\ origin[k] \in Accepted /\ Holds(rows[k], origin[k])
  BY DEF DataInv, RowInv, Stored, Sound, Hashed

LEMMA ShownAmount ==
  ASSUME NEW row, row = [c \in Columns |-> row[c]]
  PROVE  Shown(row).amount = row.amount
  BY DEF Shown, Columns

\* Every column keeps its type and satisfies its constraint, and every stored
\* amount has the column's scale.
THEOREM TypeCorrect == Spec => []TypeOK
  <1>1. DataInv => TypeOK
    <2> SUFFICES ASSUME DataInv PROVE TypeOK
      OBVIOUS
    <2>1. ASSUME NEW k \in Stored
          PROVE  /\ rows[k].amount \in [c : 0 .. Ten[MaxDigits] - 1, e : {-Places}]
                 /\ TableAccepts(rows[k]) /\ origin[k] \in Request
      <3>1. TableAccepts(rows[k]) /\ origin[k] \in Request
        BY StoredSound, AcceptedAmount DEF Sound
      <3> DEFINE n == origin[k].amount.e + Places
                 x == origin[k].amount.c
      <3>2. rows[k].amount = [c |-> x * Ten[n], e |-> -Places]
        BY StoredSound, HeldAmount
      <3>3. n \in Nat /\ x \in Nat
        BY StoredSound, AcceptedAmount, DataAssumption DEF Holds, Amount
      <3>4. Ten[n] \in Nat /\ Ten[MaxDigits] \in Nat
        BY <3>3, TenStep, DataAssumption
      <3>5. x * Ten[n] \in Nat /\ x * Ten[n] < Ten[MaxDigits]
        <4>1. rows[k].amount.c = x * Ten[n]
          BY <3>2
        <4>2. x * Ten[n] \in Nat
          BY <3>3, <3>4
        <4> QED
          BY <4>1, <4>2, <3>1 DEF TableAccepts
      <3> HIDE DEF n, x
      <3> QED
        BY <3>1, <3>2, <3>4, <3>5
    <2> QED
      BY <2>1 DEF TypeOK, DataInv, CodeInv
  <1> QED
    BY <1>1, DataCorrect, PTL

\* What schema and value objects let through the table takes, also an amount
\* that only fits when it is rounded first, and so it does every decision of
\* the consumer: a 500 means a text or metadata that no column can hold.
THEOREM LayersAgree == Spec => []OnlyUnstorableFails
  <1>1. DataInv => OnlyUnstorableFails
    BY DEF DataInv, CodeInv, OnlyUnstorableFails
  <1> QED
    BY <1>1, DataCorrect, PTL

\* No layer rounds an amount: what is stored, charged and shown is the number
\* that was requested, however it was written.
THEOREM AmountsKept == Spec => []AmountKept
  <1>1. DataInv => AmountKept
    <2> SUFFICES ASSUME DataInv, NEW k \in Stored
                 PROVE  Stripped(Shown(rows[k]).amount) = Stripped(origin[k].amount)
      BY DEF AmountKept
    <2>1. Shown(rows[k]).amount = rows[k].amount
      BY StoredSound, ShownAmount DEF Sound
    <2>2. origin[k] \in Accepted /\ Holds(rows[k], origin[k])
      BY StoredSound
    <2>3. Stripped(rows[k].amount) = Stripped(origin[k].amount)
      BY <2>2, HeldNumber
    <2> QED
      BY <2>1, <2>3
  <1> QED
    BY <1>1, DataCorrect, PTL

\* A repeated key is answered 202 only for the order that is stored.
THEOREM ReplaysFaithful == Spec => []ReplayMeansSameOrder
  <1>1. DataInv => ReplayMeansSameOrder
    <2> SUFFICES ASSUME DataInv, last.code = 202
                 PROVE  LET row == rows[last.request.key]
                        IN /\ Stripped(row.amount) = Stripped(last.request.amount)
                           /\ row.currency = last.request.currency
                           /\ row.description = last.request.description
                           /\ row.metadata = Dumped(last.request.metadata)
                           /\ row.url = Canonical(last.request.url)
      BY DEF ReplayMeansSameOrder
    <2>1. last.request \in Accepted /\ Holds(rows[last.request.key], last.request)
      BY DEF DataInv, ReplayInv
    <2>2. Stripped(rows[last.request.key].amount) = Stripped(last.request.amount)
      <3> DEFINE row == rows[last.request.key]
                 r == last.request
      <3>1. r \in Accepted /\ Holds(row, r)
        BY <2>1
      <3> HIDE DEF row, r
      <3>2. Stripped(row.amount) = Stripped(r.amount)
        BY <3>1, HeldNumber
      <3> QED
        BY <3>2 DEF row, r
    <2> QED
      BY <2>1, <2>2 DEF Holds
  <1> QED
    BY <1>1, DataCorrect, PTL

\* What has been stored can be loaded by a lookup, a repeated request and the
\* consumer, and shows two decimal places.
THEOREM StoredIsLoadable == Spec => []RowsLoadable
  <1>1. DataInv => RowsLoadable
    <2> SUFFICES ASSUME DataInv, NEW k \in Stored
                 PROVE  Loadable(rows[k]) /\ Decimals(Shown(rows[k]).amount) = Places
      BY DEF RowsLoadable
    <2>1. Sound(rows[k], k, origin[k])
      BY StoredSound
    <2>2. Shown(rows[k]).amount = rows[k].amount
      BY <2>1, ShownAmount DEF Sound
    <2> QED
      BY <2>1, <2>2, SoundLoadable
  <1> QED
    BY <1>1, DataCorrect, PTL

\* A client that repeats the request its payment was created from is answered
\* 202 for ever, for any requests and limits: a conflict, a refusal or an error
\* means another order.
THEOREM RepeatsAccepted == Spec => []RepeatIsAnswered
  <1>1. DataInv => RepeatIsAnswered
    BY DEF DataInv, RepeatInv, RepeatIsAnswered
  <1> QED
    BY <1>1, DataCorrect, PTL
=============================================================================
