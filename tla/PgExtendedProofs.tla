--------------------------- MODULE PgExtendedProofs ---------------------------
(***************************************************************************)
(* Proof about PgExtended for every range of values, any number of         *)
(* parameters and any zone: what PostgresValue writes the backend can      *)
(* read, and the accessors of PostgresCell give it back. Texts of any      *)
(* length are handled by induction over their characters.                  *)
(***************************************************************************)
EXTENDS PgExtended, SequenceTheorems, WellFoundedInduction, TLAPS

---------------------------------------------------------------------------
\* Induction and recursion over the natural numbers.

\* A set that holds 0 and with every number the next holds them all.
LEMMA Induction ==
    ASSUME NEW T, 0 \in T, \A n \in Nat : n \in T => n + 1 \in T
    PROVE  Nat \subseteq T
<1> DEFINE R == OpToRel(<, Nat)
           U == Nat \ T
<1>1. IsWellFoundedOn(R, Nat)
  BY NatLessThanWellFounded
<1>2. SUFFICES ASSUME U # {} PROVE FALSE
  OBVIOUS
<1>3. PICK x \in U : \A y \in U : ~ (<<y, x>> \in R)
  <2> HIDE DEF R
  <2>1. U \subseteq Nat
    OBVIOUS
  <2> HIDE DEF U
  <2> QED BY <1>1, <1>2, <2>1, WFMin
<1>4. x # 0 /\ x \in Nat
  OBVIOUS
<1>5. x - 1 \in Nat /\ x - 1 \notin T
  <2>1. x - 1 \in Nat
    BY <1>4
  <2>2. CASE x - 1 \in T
    <3>1. (x - 1) + 1 \in T
      BY <2>1, <2>2
    <3> QED BY <3>1, <1>4
  <2> QED BY <2>1, <2>2
<1>6. ~ (<<x - 1, x>> \in OpToRel(<, Nat))
  BY <1>3, <1>5
<1>7. ~ (x - 1 < x)
  BY <1>4, <1>5, <1>6 DEF OpToRel
<1> QED BY <1>4, <1>7

\* f, defined on 0..N, has the value b at 0, and F makes of every value the next.
Iterates(f, N, S, b, F) ==
    f \in [0..N -> S] /\ f[0] = b /\ \A k \in 1..N : f[k] = F[<<k, f[k - 1]>>]

\* There is such a function.
LEMMA Recursion ==
    ASSUME NEW S, NEW b \in S, NEW F \in [Nat \X S -> S], NEW N \in Nat
    PROVE  \E f : Iterates(f, N, S, b, F)
<1> DEFINE Good(f, n) == f[0] = b /\ \A k \in 1..n : f[k] = F[<<k, f[k - 1]>>]
           T == {n \in Nat : \E f \in [0..n -> S] : Good(f, n)}
<1>1. 0 \in T
  <2> DEFINE f == [k \in 0..0 |-> b]
  <2>1. f \in [0..0 -> S] /\ f[0] = b
    OBVIOUS
  <2>2. Good(f, 0)
    BY <2>1
  <2> HIDE DEF f, Good
  <2> QED BY <2>1, <2>2
<1>2. ASSUME NEW n \in Nat, n \in T PROVE n + 1 \in T
  <2>1. PICK f \in [0..n -> S] : Good(f, n)
    BY <1>2
  <2> DEFINE g == [k \in 0..(n + 1) |-> IF k = n + 1 THEN F[<<n + 1, f[n]>>] ELSE f[k]]
  <2>2. f[n] \in S /\ F[<<n + 1, f[n]>>] \in S
    OBVIOUS
  <2>3. g \in [0..(n + 1) -> S]
    BY <2>2
  <2>4. g[0] = b
    BY <2>1
  <2>5. ASSUME NEW k \in 1..(n + 1) PROVE g[k] = F[<<k, g[k - 1]>>]
    <3>1. CASE k = n + 1
      <4>1. g[n + 1] = F[<<n + 1, f[n]>>] /\ g[n] = f[n]
        OBVIOUS
      <4>2. k - 1 = n
        BY <3>1
      <4> HIDE DEF g
      <4> QED BY <3>1, <4>1, <4>2
    <3>2. CASE k \in 1..n
      <4>1. f[k] = F[<<k, f[k - 1]>>]
        BY <2>1, <3>2
      <4>2. g[k] = f[k] /\ g[k - 1] = f[k - 1]
        BY <3>2
      <4> QED BY <4>1, <4>2
    <3> QED BY <3>1, <3>2
  <2>6. Good(g, n + 1)
    BY <2>4, <2>5
  <2>7. n + 1 \in Nat
    OBVIOUS
  <2> HIDE DEF g, Good
  <2> QED BY <2>3, <2>6, <2>7
<1>3. N \in T
  <2> HIDE DEF T
  <2> QED BY <1>1, <1>2, Induction
<1> QED BY <1>3 DEF Iterates

---------------------------------------------------------------------------
\* Powers of ten.
LEMMA ScaleDef ==
    /\ Scale = [n \in 0..FractionDigits |-> IF n = 0 THEN 1 ELSE 10 * Scale[n - 1]]
    /\ \A n \in 0..FractionDigits : Scale[n] \in Nat \ {0}
<1> DEFINE N == FractionDigits
           F == [x \in Nat \X Nat |-> 10 * x[2]]
<1>0. N \in Nat
  BY ValuesAssumption DEF ValuesAssumption
<1>1. F \in [Nat \X Nat -> Nat]
  OBVIOUS
<1>2. PICK f : Iterates(f, N, Nat, 1, F)
  <2> HIDE DEF F, N
  <2> QED BY <1>0, <1>1, Recursion
<1>3. ASSUME NEW k \in 1..N PROVE f[k] = 10 * f[k - 1]
  <2>1. f[k - 1] \in Nat /\ k \in Nat
    BY <1>0, <1>2 DEF Iterates
  <2>2. <<k, f[k - 1]>> \in Nat \X Nat
    BY <2>1
  <2> QED BY <1>2, <2>2 DEF Iterates
<1>4. f = [n \in 0..N |-> IF n = 0 THEN 1 ELSE 10 * f[n - 1]]
  BY <1>2, <1>3 DEF Iterates
<1>5. Scale = [n \in 0..N |-> IF n = 0 THEN 1 ELSE 10 * Scale[n - 1]]
  BY <1>4 DEF Scale
<1> DEFINE T == {n \in Nat : n <= N => Scale[n] \in Nat \ {0}}
<1>6. 0 \in T
  BY <1>5
<1>7. ASSUME NEW n \in Nat, n \in T PROVE n + 1 \in T
  <2>1. CASE n + 1 <= N
    <3>1. Scale[n] \in Nat \ {0}
      BY <1>0, <1>7, <2>1
    <3>2. Scale[n + 1] = 10 * Scale[n]
      BY <1>0, <1>5, <2>1
    <3> QED BY <3>1, <3>2
  <2> QED BY <2>1
<1>8. Nat \subseteq T
  <2> HIDE DEF T
  <2> QED BY <1>6, <1>7, Induction
<1>9. ASSUME NEW n \in 0..N PROVE Scale[n] \in Nat \ {0}
  BY <1>0, <1>8
<1> QED BY <1>5, <1>9

---------------------------------------------------------------------------
\* Division.
LEMMA DivMod ==
    ASSUME NEW x \in Int, NEW m \in Nat \ {0}
    PROVE  x \div m \in Int /\ x % m \in 0..(m - 1) /\ x = m * (x \div m) + (x % m)
OBVIOUS

\* A number put together from a quotient and a remainder has these.
LEMMA Quotient ==
    ASSUME NEW a \in Int, NEW m \in Nat \ {0}, NEW f \in 0..(m - 1)
    PROVE  (m * a + f) \div m = a /\ (m * a + f) % m = f
OBVIOUS

\* The digit of x that counts s is what its remainder modulo 10 * s has more than the one
\* modulo s.
LEMMA Digit ==
    ASSUME NEW x \in Int, NEW s \in Nat \ {0}
    PROVE  x % (10 * s) = ((x \div s) % 10) * s + (x % s)
<1> DEFINE q == x \div s
           r == x % s
           d == q % 10
<1>1. q \in Int /\ r \in 0..(s - 1) /\ x = s * q + r
  BY DivMod
<1> HIDE DEF q, r
<1>2. q \div 10 \in Int /\ d \in 0..9 /\ q = 10 * (q \div 10) + d
  BY <1>1
<1> DEFINE t == q \div 10
<1> HIDE DEF d, t
<1>3. t \in Int /\ d \in 0..9 /\ q = 10 * t + d
  BY <1>2 DEF t
<1>4. d * s \in Nat /\ d * s <= 9 * s
  BY <1>3
<1>5. d * s + r \in 0..(10 * s - 1)
  BY <1>1, <1>4
<1>6. s * q = (10 * s) * t + d * s
  <2>1. s * (10 * t + d) = (10 * s) * t + d * s
    BY <1>3
  <2> QED BY <1>3, <2>1
<1>7. x = (10 * s) * t + (d * s + r)
  <2> DEFINE a == s * q
             b == (10 * s) * t
             c == d * s
  <2>1. a = b + c /\ x = a + r /\ b \in Int /\ c \in Int /\ a \in Int
    BY <1>1, <1>3, <1>6
  <2> HIDE DEF a, b, c
  <2>2. x = b + (c + r)
    BY <1>1, <2>1
  <2> QED BY <2>2 DEF b, c
<1>8. x % (10 * s) = d * s + r
  <2> DEFINE m == 10 * s
             f == d * s + r
  <2>1. m \in Nat \ {0} /\ f \in 0..(m - 1)
    BY <1>5
  <2>2. x = m * t + f
    BY <1>7
  <2> HIDE DEF m, f
  <2>3. x % m = f
    BY <1>3, <2>1, <2>2, Quotient
  <2> QED BY <2>3 DEF m, f
<1> QED BY <1>8 DEF d, q, r

---------------------------------------------------------------------------
\* Fractions of a second.

\* The digit loop, by its steps.
LEMMA ParsedFractionDef ==
    ASSUME NEW digits, \A k \in DOMAIN digits : digits[k] \in Int
    PROVE  \E usec \in [0..FractionDigits -> Int] :
              /\ usec[0] = 0
              /\ \A k \in 1..FractionDigits :
                    usec[k] = usec[k - 1] + IF k \in DOMAIN digits
                                            THEN digits[k] * Scale[FractionDigits - k] ELSE 0
              /\ ParsedFraction(digits) = usec[FractionDigits]
<1> DEFINE N == FractionDigits
           add(k) == IF k \in DOMAIN digits THEN digits[k] * Scale[N - k] ELSE 0
           F == [x \in Nat \X Int |-> IF x[1] \in 1..N THEN x[2] + add(x[1]) ELSE 0]
<1>0. N \in Nat
  BY ValuesAssumption DEF ValuesAssumption
<1>1. ASSUME NEW k \in 1..N PROVE add(k) \in Int
  <2>1. N - k \in 0..N
    BY <1>0
  <2>2. Scale[N - k] \in Nat
    BY <2>1, ScaleDef
  <2> QED BY <2>2
<1>2. F \in [Nat \X Int -> Int]
  <2> HIDE DEF add
  <2> QED BY <1>1
<1>3. PICK f : Iterates(f, N, Int, 0, F)
  <2> HIDE DEF F, N
  <2> QED BY <1>0, <1>2, Recursion
<1>4. f \in [0..N -> Int] /\ f[0] = 0
  BY <1>3 DEF Iterates
<1>5. ASSUME NEW k \in 1..N PROVE f[k] = f[k - 1] + add(k)
  <2>1. f[k - 1] \in Int /\ k \in Nat
    BY <1>0, <1>4
  <2>2. <<k, f[k - 1]>> \in Nat \X Int
    BY <2>1
  <2> HIDE DEF add
  <2> QED BY <1>3, <2>2 DEF Iterates
<1> DEFINE G(g) == [k \in 0..N |-> IF k = 0 THEN 0 ELSE g[k - 1] + add(k)]
           usec == CHOOSE g : g = G(g)
<1>6. f = G(f)
  BY <1>4, <1>5
<1>7. usec = G(usec)
  <2> HIDE DEF G
  <2> QED BY <1>6
<1>8. ParsedFraction(digits) = usec[N]
  BY DEF ParsedFraction
<1> HIDE DEF usec
<1> DEFINE T == {k \in Nat : k <= N => usec[k] \in Int}
<1>9. Nat \subseteq T
  <2>1. 0 \in T
    BY <1>0, <1>7
  <2>2. ASSUME NEW k \in Nat, k \in T PROVE k + 1 \in T
    <3>1. CASE k + 1 <= N
      <4>1. usec[k] \in Int /\ add(k + 1) \in Int
        BY <1>0, <1>1, <2>2, <3>1
      <4>2. usec[k + 1] = usec[k] + add(k + 1)
        BY <1>0, <1>7, <3>1
      <4> QED BY <4>1, <4>2
    <3> QED BY <3>1
  <2> HIDE DEF T
  <2> QED BY <2>1, <2>2, Induction
<1>10. usec \in [0..N -> Int] /\ usec[0] = 0 /\ \A k \in 1..N : usec[k] = usec[k - 1] + add(k)
  <2>1. \A k \in 0..N : usec[k] \in Int
    BY <1>0, <1>9
  <2>2. usec \in [0..N -> Int]
    BY <1>7, <2>1
  <2> QED BY <1>0, <1>7, <2>2
<1> QED BY <1>8, <1>10

\* The digits of a fraction, read again, are the fraction.
LEMMA FractionReads ==
    ASSUME NEW micros \in 0..(MicrosPerSecond - 1)
    PROVE  ParsedFraction(Fraction(micros)) = micros
<1> DEFINE N == FractionDigits
           digit(i) == (micros \div Scale[N - i]) % 10
           digits == Fraction(micros)
<1>0. /\ N \in Nat /\ MicrosPerSecond = Scale[N]
      /\ \A n \in 0..N : Scale[n] \in Nat \ {0}
      /\ \A n \in 0..N : n # 0 => Scale[n] = 10 * Scale[n - 1]
      /\ Scale[0] = 1
  BY ValuesAssumption, ScaleDef DEF ValuesAssumption
<1>1. /\ DOMAIN digits \subseteq 1..N
      /\ \A k \in DOMAIN digits : digits[k] = digit(k)
      /\ \A k \in 1..N : digit(k) # 0 => k \in DOMAIN digits
  <2> DEFINE shown == {i \in 1..N : \E j \in i..N : digit(j) # 0}
  <2>1. digits = [i \in shown |-> digit(i)]
    BY DEF Fraction
  <2>2. \A k \in 1..N : digit(k) # 0 => k \in shown
    BY <1>0
  <2> HIDE DEF digit, digits
  <2> QED BY <2>1, <2>2
<1>2. ASSUME NEW k \in 1..N PROVE digit(k) \in Int
  <2>1. N - k \in 0..N /\ micros \in Int
    BY <1>0
  <2>2. Scale[N - k] \in Nat \ {0}
    BY <1>0, <2>1
  <2> QED BY <2>1, <2>2
<1> HIDE DEF digits
<1>3. PICK usec \in [0..N -> Int] :
        /\ usec[0] = 0
        /\ \A k \in 1..N :
              usec[k] = usec[k - 1] + IF k \in DOMAIN digits
                                      THEN digits[k] * Scale[N - k] ELSE 0
        /\ ParsedFraction(digits) = usec[N]
  <2>1. \A k \in DOMAIN digits : digits[k] \in Int
    BY <1>1, <1>2
  <2> QED BY <2>1, ParsedFractionDef
<1> DEFINE T == {k \in Nat : k <= N => usec[k] = micros - (micros % Scale[N - k])}
<1>4. 0 \in T
  <2>1. micros % Scale[N] = micros
    <3> DEFINE s == Scale[N]
    <3>1. s \in Nat \ {0} /\ micros \in 0..(s - 1)
      BY <1>0
    <3> HIDE DEF s
    <3>2. micros % s = micros
      BY <3>1
    <3> QED BY <3>2 DEF s
  <2>2. micros \in Int
    BY <1>0
  <2> QED BY <1>0, <1>3, <2>1, <2>2
<1>5. ASSUME NEW n \in Nat, n \in T PROVE n + 1 \in T
  <2>1. CASE n + 1 <= N
    <3> DEFINE k == n + 1
               s == Scale[N - k]
    <3>1. k \in 1..N /\ N - k \in 0..N /\ micros \in Int /\ k - 1 = n /\ k \in Nat
      BY <1>0, <2>1
    <3>2. s \in Nat \ {0}
      BY <1>0, <3>1
    <3>3. Scale[N - n] = 10 * s
      <4>1. N - n \in 0..N /\ N - n # 0 /\ (N - n) - 1 = N - k
        BY <1>0, <2>1
      <4> QED BY <1>0, <4>1
    <3>4. usec[k] = usec[n] + digit(k) * s
      <4>1. CASE k \in DOMAIN digits
        BY <1>1, <1>3, <3>1, <4>1
      <4>2. CASE k \notin DOMAIN digits
        <5>1. digit(k) = 0
          BY <1>1, <3>1, <4>2
        <5>2. usec[k] = usec[n] + 0
          BY <1>3, <3>1, <4>2
        <5> QED BY <3>2, <5>1, <5>2
      <4> QED BY <4>1, <4>2
    <3>5. usec[n] = micros - (micros % (10 * s))
      BY <1>5, <2>1, <3>3, <1>0
    <3>6. micros % (10 * s) = digit(k) * s + (micros % s)
      <4> HIDE DEF s
      <4>1. digit(k) = (micros \div s) % 10
        BY DEF s
      <4> QED BY <3>1, <3>2, <4>1, Digit
    <3>7. usec[k] = micros - (micros % s)
      <4> DEFINE a == digit(k) * s
                 b == micros % s
      <4>1. a \in Int /\ b \in Int
        <5>1. digit(k) \in Int
          BY <1>2, <3>1
        <5> HIDE DEF digit, s
        <5> QED BY <3>1, <3>2, <5>1
      <4>2. usec[k] = usec[n] + a /\ usec[n] = micros - (a + b)
        BY <3>4, <3>5, <3>6
      <4> HIDE DEF a, b
      <4>3. usec[k] = micros - b
        BY <3>1, <4>1, <4>2
      <4> QED BY <4>3 DEF b
    <3> QED BY <3>1, <3>7
  <2> QED BY <2>1, <1>0
<1>6. Nat \subseteq T
  <2> HIDE DEF T
  <2> QED BY <1>4, <1>5, Induction
<1>7. usec[N] = micros - (micros % Scale[N - N])
  BY <1>0, <1>6
<1>8. Scale[N - N] = 1
  BY <1>0
<1>9. micros % 1 = 0 /\ micros \in Int
  BY <1>0
<1> QED BY <1>3, <1>7, <1>8, <1>9 DEF digits

---------------------------------------------------------------------------
\* Arrays in text.

\* FlattenSeq, one sequence after the other.
Flattens(f, S, seqs) ==
    /\ f \in [0..Len(seqs) -> Seq(S)] /\ f[0] = <<>>
    /\ \A k \in 1..Len(seqs) : f[k] = f[k - 1] \o seqs[k]
    /\ FlattenSeq(seqs) = f[Len(seqs)]

\* FlattenSeq of the community modules is such a run over its argument.
LEMMA FlattenDef ==
    ASSUME NEW S, NEW seqs \in Seq(Seq(S))
    PROVE  \E f : Flattens(f, S, seqs)
<1> DEFINE N == Len(seqs)
           F == [x \in Nat \X Seq(S) |-> IF x[1] \in 1..N THEN x[2] \o seqs[x[1]] ELSE <<>>]
<1>0. N \in Nat /\ \A k \in 1..N : seqs[k] \in Seq(S)
  OBVIOUS
<1>1. CASE N = 0
  <2>1. seqs = <<>> /\ FlattenSeq(seqs) = <<>>
    BY <1>1 DEF FlattenSeq
  <2> DEFINE f == [k \in 0..N |-> <<>>]
  <2>2. f \in [0..N -> Seq(S)] /\ f[0] = <<>> /\ f[N] = <<>> /\ 1..N = {}
    BY <1>1
  <2> HIDE DEF f, N
  <2> QED BY <2>1, <2>2 DEF N, Flattens
<1> HIDE DEF N
<1>2. CASE N # 0
  <2>1. F \in [Nat \X Seq(S) -> Seq(S)] /\ <<>> \in Seq(S)
    BY <1>0
  <2>2. PICK f : Iterates(f, N, Seq(S), <<>>, F)
    <3> HIDE DEF F, N
    <3> QED BY <1>0, <2>1, Recursion
  <2>3. f \in [0..N -> Seq(S)] /\ f[0] = <<>>
    BY <2>2 DEF Iterates
  <2>4. ASSUME NEW k \in 1..N PROVE f[k] = f[k - 1] \o seqs[k]
    <3>1. f[k - 1] \in Seq(S) /\ k \in Nat
      <4>1. k - 1 \in 0..N /\ k \in Nat
        BY <1>0
      <4> QED BY <2>3, <4>1
    <3>2. <<k, f[k - 1]>> \in Nat \X Seq(S)
      BY <3>1
    <3> QED BY <2>2, <3>2 DEF Iterates
  <2> DEFINE G(g) == [i \in 1..N |-> IF i = 1 THEN seqs[i] ELSE g[i - 1] \o seqs[i]]
             flatten == CHOOSE g : g = G(g)
             h == [i \in 1..N |-> f[i]]
  <2>5. h = G(h)
    <3>1. f[1] = seqs[1]
      <4>1. f[1] = f[0] \o seqs[1]
        <5>1. 1 \in 1..N /\ 1 - 1 = 0
          BY <1>0, <1>2
        <5> QED BY <2>4, <5>1
      <4> QED BY <1>0, <1>2, <2>3, <4>1
    <3>2. \A i \in 1..N : i # 1 => h[i - 1] = f[i - 1]
      BY <1>0
    <3>3. \A i \in 1..N : i # 1 => h[i] = h[i - 1] \o seqs[i]
      BY <2>4, <3>2
    <3>4. \A i \in 1..N : i = 1 => h[i] = seqs[i]
      BY <3>1
    <3> HIDE DEF N
    <3> QED BY <3>3, <3>4
  <2>6. flatten = G(flatten)
    <3> HIDE DEF G, h
    <3> QED BY <2>5
  <2>7. FlattenSeq(seqs) = flatten[N]
    BY <1>2 DEF FlattenSeq, N
  <2> HIDE DEF flatten
  <2> DEFINE e == [k \in 0..N |-> IF k = 0 THEN <<>> ELSE flatten[k]]
             T == {k \in Nat : k <= N => e[k] \in Seq(S)}
  <2>8. \A k \in 1..N : e[k] = e[k - 1] \o seqs[k]
    <3>1. ASSUME NEW k \in 1..N, k = 1 PROVE e[k] = e[k - 1] \o seqs[k]
      <4>1. e[k] = seqs[k] /\ e[k - 1] = <<>>
        BY <1>0, <2>6, <3>1
      <4> HIDE DEF e
      <4> QED BY <1>0, <4>1
    <3>2. ASSUME NEW k \in 1..N, k # 1 PROVE e[k] = e[k - 1] \o seqs[k]
      <4>1. e[k] = flatten[k] /\ e[k - 1] = flatten[k - 1]
        BY <1>0, <3>2
      <4> HIDE DEF e
      <4> QED BY <2>6, <3>2, <4>1
    <3> QED BY <3>1, <3>2
  <2>9. e[0] = <<>> /\ e[N] = flatten[N] /\ DOMAIN e = 0..N /\ e = [k \in 0..N |-> e[k]]
    BY <1>0, <1>2
  <2> HIDE DEF e
  <2>10. Nat \subseteq T
    <3>1. 0 \in T
      <4>1. e[0] \in Seq(S)
        BY <2>9
      <4> QED BY <4>1
    <3>2. ASSUME NEW k \in Nat, k \in T PROVE k + 1 \in T
      <4>1. CASE k + 1 <= N
        <5>1. e[k] \in Seq(S) /\ seqs[k + 1] \in Seq(S)
          BY <1>0, <3>2, <4>1
        <5>2. e[k + 1] = e[k] \o seqs[k + 1]
          <6>1. k + 1 \in 1..N /\ (k + 1) - 1 = k
            BY <1>0, <4>1
          <6> QED BY <2>8, <6>1
        <5>3. e[k + 1] \in Seq(S)
          BY <5>1, <5>2
        <5> QED BY <5>3
      <4> QED BY <4>1
    <3> HIDE DEF T
    <3> QED BY <3>1, <3>2, Induction
  <2>11. e \in [0..N -> Seq(S)]
    <3>1. \A k \in 0..N : e[k] \in Seq(S)
      BY <1>0, <2>10
    <3> QED BY <2>9, <3>1
  <2> QED BY <2>7, <2>8, <2>9, <2>11 DEF N, Flattens
<1> QED BY <1>1, <1>2

\* Where array_in can be.
States == {"start", "elem", "in", "escape", "after", "end", "bad"}
Positions(C) == [at : States, elem : Seq(C), elems : Seq(Seq(C))]

\* A step of array_in leaves it somewhere in its automaton.
LEMMA ArrayStepType ==
    ASSUME NEW C, NEW p \in Positions(C), NEW ch \in C
    PROVE  ArrayStep(p, ch) \in Positions(C)
<1>1. ArrayAt(p.at, ch) \in States
  BY DEF ArrayAt, States
<1>2. p.elem \in Seq(C) /\ p.elems \in Seq(Seq(C))
  BY DEF Positions
<1>3. Append(p.elem, ch) \in Seq(C) /\ Append(p.elems, p.elem) \in Seq(Seq(C)) /\ <<>> \in Seq(C)
  BY <1>2
<1> QED BY <1>1, <1>2, <1>3 DEF ArrayStep, Positions

\* array_in, one character after the other.
Steps(run, text, N) == \A k \in 1..N : run[k] = ArrayStep(run[k - 1], text[k])

Runs(run, C, p, text) ==
    /\ run \in [0..Len(text) -> Positions(C)] /\ run[0] = p
    /\ Steps(run, text, Len(text))
    /\ ArrayRun(p, text) = run[Len(text)]

\* ArrayRun is a run of the automaton of array_in over the whole text.
LEMMA ArrayRunDef ==
    ASSUME NEW C, NEW p \in Positions(C), NEW text \in Seq(C)
    PROVE  \E run : Runs(run, C, p, text)
<1> DEFINE N == Len(text)
           P == Positions(C)
           F == [x \in Nat \X P |-> IF x[1] \in 1..N THEN ArrayStep(x[2], text[x[1]]) ELSE p]
<1>0. N \in Nat /\ \A k \in 1..N : text[k] \in C
  OBVIOUS
<1> HIDE DEF N
<1>1. F \in [Nat \X P -> P]
  <2> HIDE DEF P
  <2>1. \A q \in P, ch \in C : ArrayStep(q, ch) \in P
    BY ArrayStepType DEF P
  <2> QED BY <1>0, <2>1 DEF P
<1>2. PICK f : Iterates(f, N, P, p, F)
  <2> HIDE DEF F
  <2>1. p \in P
    OBVIOUS
  <2> HIDE DEF P
  <2> QED BY <1>0, <1>1, <2>1, Recursion
<1> HIDE DEF P
<1>3. f \in [0..N -> P] /\ f[0] = p
  BY <1>2 DEF Iterates
<1>4. ASSUME NEW k \in 1..N PROVE f[k] = ArrayStep(f[k - 1], text[k])
  <2>1. f[k - 1] \in P /\ k \in Nat
    BY <1>0, <1>3
  <2>2. <<k, f[k - 1]>> \in Nat \X P
    BY <2>1
  <2> QED BY <1>2, <2>2 DEF Iterates
<1> DEFINE G(g) == [k \in 0..N |-> IF k = 0 THEN p ELSE ArrayStep(g[k - 1], text[k])]
           run == CHOOSE g : g = G(g)
<1>5. f = G(f)
  BY <1>3, <1>4
<1>6. run = G(run)
  <2> HIDE DEF G
  <2> QED BY <1>5
<1>7. ArrayRun(p, text) = run[N]
  BY DEF ArrayRun, N
<1> HIDE DEF run
<1> DEFINE T == {k \in Nat : k <= N => run[k] \in P}
<1>8. Nat \subseteq T
  <2>1. 0 \in T
    <3>1. run[0] = p
      BY <1>0, <1>6
    <3> QED BY <3>1 DEF P
  <2>2. ASSUME NEW k \in Nat, k \in T PROVE k + 1 \in T
    <3>1. CASE k + 1 <= N
      <4>1. run[k] \in P /\ text[k + 1] \in C
        BY <1>0, <2>2, <3>1
      <4>2. run[k + 1] = ArrayStep(run[k], text[k + 1])
        BY <1>0, <1>6, <3>1
      <4>3. run[k + 1] \in P
        BY <4>1, <4>2, ArrayStepType DEF P
      <4> QED BY <4>3
    <3> QED BY <3>1
  <2> HIDE DEF T
  <2> QED BY <2>1, <2>2, Induction
<1>9. run \in [0..N -> P]
  <2>1. \A k \in 0..N : run[k] \in P
    BY <1>0, <1>8
  <2> QED BY <1>6, <2>1
<1>10. run[0] = p /\ \A k \in 1..N : run[k] = ArrayStep(run[k - 1], text[k])
  BY <1>0, <1>6
<1> QED BY <1>7, <1>9, <1>10 DEF N, P, Runs, Steps

\* Two runs over the same characters from the same place are the same.
LEMMA RunUnique ==
    ASSUME NEW text, NEW N \in Nat, NEW f, NEW g, f[0] = g[0],
           Steps(f, text, N), Steps(g, text, N)
    PROVE  \A k \in 0..N : f[k] = g[k]
<1> DEFINE T == {k \in Nat : k <= N => f[k] = g[k]}
<1>1. 0 \in T
  OBVIOUS
<1>2. ASSUME NEW k \in Nat, k \in T PROVE k + 1 \in T
  <2>1. CASE k + 1 <= N
    <3>1. k + 1 \in 1..N /\ (k + 1) - 1 = k /\ f[k] = g[k]
      BY <1>2, <2>1
    <3> QED BY <3>1 DEF Steps
  <2> QED BY <2>1
<1>3. Nat \subseteq T
  <2> HIDE DEF T
  <2> QED BY <1>1, <1>2, Induction
<1> QED BY <1>3

\* array_in of a text and another goes on with the other where the first has ended.
LEMMA RunConcat ==
    ASSUME NEW C, NEW p \in Positions(C), NEW a \in Seq(C), NEW b \in Seq(C)
    PROVE  /\ ArrayRun(p, a) \in Positions(C)
           /\ ArrayRun(p, a \o b) = ArrayRun(ArrayRun(p, a), b)
<1> DEFINE M == Len(a)
           N == Len(b)
           c == a \o b
<1>0. /\ M \in Nat /\ N \in Nat /\ c \in Seq(C) /\ Len(c) = M + N
      /\ \A k \in 1..M : c[k] = a[k]
      /\ \A k \in 1..N : c[M + k] = b[k]
  OBVIOUS
<1>1. PICK f : Runs(f, C, p, a)
  BY ArrayRunDef
<1>2. f[M] \in Positions(C)
  BY <1>0, <1>1 DEF Runs
<1>3. PICK g : Runs(g, C, f[M], b)
  BY <1>2, ArrayRunDef
<1> HIDE DEF c
<1>4. PICK h : Runs(h, C, p, c)
  BY <1>0, ArrayRunDef
<1>5. /\ f[0] = p /\ Steps(f, a, M) /\ ArrayRun(p, a) = f[M]
      /\ g[0] = f[M] /\ Steps(g, b, N) /\ ArrayRun(f[M], b) = g[N]
      /\ h[0] = p /\ Steps(h, c, M + N) /\ ArrayRun(p, c) = h[M + N]
  BY <1>0, <1>1, <1>3, <1>4 DEF Runs
<1> HIDE DEF M, N
<1>6. h[M] = f[M]
  <2>1. Steps(h, a, M)
    BY <1>0, <1>5 DEF Steps
  <2>2. Steps(f, a, M) /\ h[0] = f[0]
    BY <1>5
  <2>3. \A k \in 0..M : h[k] = f[k]
    BY <1>0, <2>1, <2>2, RunUnique
  <2> QED BY <1>0, <2>3
<1>7. h[M + N] = g[N]
  <2> DEFINE e == [k \in 0..N |-> h[M + k]]
  <2>1. Steps(e, b, N)
    <3>1. ASSUME NEW k \in 1..N PROVE e[k] = ArrayStep(e[k - 1], b[k])
      <4>1. M + k \in 1..(M + N) /\ c[M + k] = b[k] /\ (M + k) - 1 = M + (k - 1)
            /\ k - 1 \in 0..N /\ k \in 0..N
        BY <1>0
      <4>2. h[M + k] = ArrayStep(h[M + (k - 1)], b[k])
        BY <1>5, <4>1 DEF Steps
      <4> QED BY <4>1, <4>2
    <3> HIDE DEF e
    <3> QED BY <3>1 DEF Steps
  <2>2. e[0] = g[0]
    BY <1>0, <1>5, <1>6
  <2>3. e[N] = h[M + N]
    BY <1>0
  <2> HIDE DEF e
  <2>4. \A k \in 0..N : e[k] = g[k]
    BY <1>0, <1>5, <2>1, <2>2, RunUnique
  <2> QED BY <1>0, <2>3, <2>4
<1> QED BY <1>2, <1>5, <1>7 DEF c

\* On a text of one character array_in makes one step.
LEMMA RunOne ==
    ASSUME NEW C, NEW p \in Positions(C), NEW ch \in C
    PROVE  ArrayRun(p, <<ch>>) = ArrayStep(p, ch)
<1> DEFINE text == <<ch>>
<1>1. text \in Seq(C) /\ Len(text) = 1 /\ text[1] = ch
  OBVIOUS
<1> HIDE DEF text
<1>2. PICK f : Runs(f, C, p, text)
  BY <1>1, ArrayRunDef
<1>3. f[1] = ArrayStep(f[0], text[1]) /\ f[0] = p /\ ArrayRun(p, text) = f[1]
  <2>1. Steps(f, text, 1) /\ f[0] = p /\ ArrayRun(p, text) = f[1]
    BY <1>1, <1>2 DEF Runs
  <2> QED BY <2>1 DEF Steps
<1> QED BY <1>1, <1>3 DEF text

\* A function on 1..N with values in S is a sequence over S of length N.
LEMMA IsSequence ==
    ASSUME NEW S, NEW N \in Nat, NEW s, s = [i \in 1..N |-> s[i]], \A i \in 1..N : s[i] \in S
    PROVE  s \in Seq(S) /\ Len(s) = N /\ DOMAIN s = 1..N
OBVIOUS

\* So is every member of a set of such functions.
LEMMA FunctionIsSequence ==
    ASSUME NEW S, NEW N \in Nat, NEW s \in [1..N -> S]
    PROVE  s \in Seq(S)
OBVIOUS

\* What is in front of an element can be taken off.
Splits(c, q, e) == c \o q \o e \o q = c \o (q \o e \o q)

\* Concatenation of the four parts of an element is associative.
LEMMA CommaQuoted ==
    ASSUME NEW C, NEW c \in Seq(C), NEW q \in Seq(C), NEW e \in Seq(C)
    PROVE  Splits(c, q, e)
<1> DEFINE qe == q \o e
<1>1. (c \o q) \o e = c \o qe
  BY ConcatAssociative
<1>2. qe \in Seq(C)
  OBVIOUS
<1>3. (c \o qe) \o q = c \o (qe \o q)
  <2> HIDE DEF qe
  <2> QED BY <1>2, ConcatAssociative
<1> QED BY <1>1, <1>3 DEF Splits

\* The characters array_in looks for.
Marks == {"q", "b", ",", "{", "}"}

\* array_in in an element, after the escaped characters of a string, has the string.
LEMMA EscapedRuns ==
    ASSUME NEW C, Marks \subseteq C, NEW p \in Positions(C), p.at = "in", NEW string \in Seq(C)
    PROVE  /\ Escaped(string) \in Seq(C)
           /\ ArrayRun(p, Escaped(string)) =
                 [at |-> "in", elem |-> p.elem \o string, elems |-> p.elems]
<1> DEFINE seqs == [j \in DOMAIN string |->
                       IF string[j] \in {"q", "b"} THEN <<"b", string[j]>> ELSE <<string[j]>>]
           N == Len(string)
           Then(k) == [at |-> "in", elem |-> p.elem \o SubSeq(string, 1, k), elems |-> p.elems]
<1>1. N \in Nat /\ \A j \in 1..N : string[j] \in C
  OBVIOUS
<1>2. seqs \in Seq(Seq(C)) /\ Len(seqs) = N
  <2>1. ASSUME NEW j \in 1..N PROVE seqs[j] \in Seq(C)
    <3>1. "b" \in C
      BY DEF Marks
    <3>2. string[j] \in C /\ j \in DOMAIN string
      OBVIOUS
    <3>3. <<"b", string[j]>> \in Seq(C) /\ <<string[j]>> \in Seq(C)
      BY <3>1, <3>2
    <3> QED BY <3>2, <3>3
  <2>2. seqs = [j \in 1..N |-> seqs[j]]
    OBVIOUS
  <2> HIDE DEF seqs, N
  <2> QED BY <1>1, <2>1, <2>2
<1>3. PICK f : Flattens(f, C, seqs)
  <2> HIDE DEF seqs
  <2> QED BY <1>2, FlattenDef
<1>4. /\ f \in [0..N -> Seq(C)] /\ f[0] = <<>>
      /\ \A k \in 1..N : f[k] = f[k - 1] \o seqs[k]
      /\ Escaped(string) = f[N]
  <2>1. Escaped(string) = FlattenSeq(seqs)
    BY DEF Escaped
  <2> HIDE DEF seqs
  <2> QED BY <1>2, <1>3, <2>1 DEF Flattens
<1>5. p.elem \in Seq(C) /\ p.elems \in Seq(Seq(C))
      /\ p = [at |-> p.at, elem |-> p.elem, elems |-> p.elems]
  BY DEF Positions
<1>6. ASSUME NEW k \in 0..N PROVE Then(k) \in Positions(C)
  <2>1. SubSeq(string, 1, k) \in Seq(C)
    BY <1>1
  <2>2. p.elem \o SubSeq(string, 1, k) \in Seq(C)
    BY <1>5, <2>1
  <2> QED BY <1>5, <2>2 DEF Positions, States
<1> DEFINE T == {k \in Nat : k <= N => ArrayRun(p, f[k]) = Then(k)}
<1>7. 0 \in T
  <2>1. PICK run : Runs(run, C, p, <<>>)
    <3>1. <<>> \in Seq(C)
      OBVIOUS
    <3> QED BY <3>1, ArrayRunDef
  <2>2. ArrayRun(p, <<>>) = p
    BY <2>1 DEF Runs
  <2>3. p.elem \o SubSeq(string, 1, 0) = p.elem
    BY <1>5
  <2>4. Then(0) = p
    BY <1>5, <2>3
  <2>5. ArrayRun(p, f[0]) = Then(0)
    BY <1>4, <2>2, <2>4
  <2> HIDE DEF Then
  <2> QED BY <2>5
<1>8. ASSUME NEW k \in Nat, k \in T PROVE k + 1 \in T
  <2>1. CASE k + 1 <= N
    <3> DEFINE x == Then(k)
               ch == string[k + 1]
    <3>1. k \in 0..N /\ k + 1 \in 1..N /\ (k + 1) - 1 = k
      BY <1>1, <2>1
    <3>2. ArrayRun(p, f[k]) = x /\ f[k + 1] = f[k] \o seqs[k + 1] /\ f[k] \in Seq(C)
      <4>1. ArrayRun(p, f[k]) = Then(k)
        <5> HIDE DEF Then
        <5> QED BY <1>8, <3>1
      <4> HIDE DEF seqs, Then
      <4> QED BY <1>4, <3>1, <4>1
    <3>3. seqs[k + 1] \in Seq(C) /\ ch \in C
      <4> HIDE DEF seqs
      <4> QED BY <1>1, <1>2, <3>1
    <3>4. ArrayRun(p, f[k + 1]) = ArrayRun(x, seqs[k + 1])
      <4> HIDE DEF x, seqs
      <4> QED BY <3>2, <3>3, RunConcat
    <3>5. x \in Positions(C) /\ x.at = "in" /\ x.elems = p.elems
      BY <1>6, <3>1
    <3>6. Append(x.elem, ch) = p.elem \o SubSeq(string, 1, k + 1)
      <4> DEFINE a == SubSeq(string, 1, k)
                 b == SubSeq(string, 1, k + 1)
      <4>1. a \in Seq(C) /\ b = Append(a, ch)
        BY <1>1, <3>1
      <4>2. x.elem = p.elem \o a
        OBVIOUS
      <4> DEFINE e == p.elem
      <4>3. a \in Seq(C) /\ ch \in C /\ e \in Seq(C)
        BY <1>5, <3>3, <4>1
      <4> HIDE DEF a, b, x, ch, e
      <4>4. Append(e \o a, ch) = e \o Append(a, ch)
        <5> DEFINE one == <<ch>>
        <5>1. one \in Seq(C) /\ e \o a \in Seq(C)
          BY <4>3
        <5>2. Append(e \o a, ch) = (e \o a) \o one /\ Append(a, ch) = a \o one
          BY <4>3, <5>1, AppendIsConcat
        <5>3. (e \o a) \o one = e \o (a \o one)
          <6> HIDE DEF one
          <6> QED BY <4>3, <5>1, ConcatAssociative
        <5> QED BY <5>2, <5>3
      <4> QED BY <4>1, <4>2, <4>4 DEF b, e
    <3>7. Then(k + 1) = [at |-> "in", elem |-> Append(x.elem, ch), elems |-> x.elems]
      BY <3>5, <3>6
    <3> HIDE DEF x
    <3>8. CASE ch \in {"q", "b"}
      <4> DEFINE y == ArrayStep(x, "b")
      <4>1. "b" \in C /\ ch \in C
        BY <3>3 DEF Marks
      <4>2. seqs[k + 1] = <<"b">> \o <<ch>>
        BY <1>2, <3>1, <3>8
      <4>3. ArrayRun(x, <<"b">>) = y /\ y \in Positions(C)
        BY <3>5, <4>1, RunOne, ArrayStepType
      <4>4. ArrayRun(y, <<ch>>) = ArrayStep(y, ch)
        <5> HIDE DEF y, ch
        <5> QED BY <4>1, <4>3, RunOne
      <4>5. y = [at |-> "escape", elem |-> x.elem, elems |-> x.elems]
        BY <3>5 DEF ArrayStep, ArrayAt
      <4>6. ArrayStep(y, ch) = [at |-> "in", elem |-> Append(x.elem, ch), elems |-> x.elems]
        BY <4>5 DEF ArrayStep, ArrayAt
      <4>7. ArrayRun(x, <<"b">> \o <<ch>>) = ArrayRun(y, <<ch>>)
        <5>1. <<"b">> \in Seq(C) /\ <<ch>> \in Seq(C)
          BY <4>1
        <5> DEFINE a == <<"b">>
                   b == <<ch>>
        <5>5. a \in Seq(C) /\ b \in Seq(C)
          BY <5>1
        <5> HIDE DEF y, ch, a, b
        <5>2. ArrayRun(x, a \o b) = ArrayRun(ArrayRun(x, a), b)
          BY <3>5, <5>5, RunConcat
        <5>3. ArrayRun(x, a) = y
          BY <4>3 DEF a
        <5>4. ArrayRun(x, a \o b) = ArrayRun(y, b)
          BY <5>2, <5>3
        <5> QED BY <5>4 DEF a, b
      <4>8. ArrayRun(p, f[k + 1]) = Then(k + 1)
        <5> HIDE DEF y, ch, seqs, Then
        <5> QED BY <3>4, <3>7, <4>2, <4>4, <4>6, <4>7
      <4> HIDE DEF Then
      <4> QED BY <4>8, <3>1
    <3>9. CASE ch \notin {"q", "b"}
      <4>1. seqs[k + 1] = <<ch>>
        BY <1>2, <3>1, <3>9
      <4>2. ArrayRun(x, <<ch>>) = ArrayStep(x, ch)
        <5> HIDE DEF ch
        <5> QED BY <3>3, <3>5, RunOne
      <4>3. ArrayStep(x, ch) = [at |-> "in", elem |-> Append(x.elem, ch), elems |-> x.elems]
        BY <3>5, <3>9 DEF ArrayStep, ArrayAt
      <4>4. ArrayRun(p, f[k + 1]) = Then(k + 1)
        <5> HIDE DEF ch, seqs, Then
        <5> QED BY <3>4, <3>7, <4>1, <4>2, <4>3
      <4> HIDE DEF Then
      <4> QED BY <4>4, <3>1
    <3> QED BY <3>8, <3>9
  <2> QED BY <2>1, <1>1
<1>9. Nat \subseteq T
  <2> HIDE DEF T
  <2> QED BY <1>7, <1>8, Induction
<1>10. ArrayRun(p, f[N]) = Then(N)
  <2> HIDE DEF Then
  <2> QED BY <1>1, <1>9
<1>11. SubSeq(string, 1, N) = string
  OBVIOUS
<1>12. f[N] \in Seq(C)
  BY <1>1, <1>4
<1> QED BY <1>4, <1>10, <1>11, <1>12

\* array_in, where an element may begin, after a string between quotes, has the string as
\* one element more.
LEMMA QuotedRuns ==
    ASSUME NEW C, Marks \subseteq C, NEW p \in Positions(C), p.at = "elem",
           NEW string \in Seq(C)
    PROVE  /\ <<"q">> \o Escaped(string) \o <<"q">> \in Seq(C)
           /\ ArrayRun(p, <<"q">> \o Escaped(string) \o <<"q">>) =
                 [at |-> "after", elem |-> string, elems |-> Append(p.elems, string)]
<1> DEFINE quote == <<"q">>
           text == Escaped(string)
           in == [at |-> "in", elem |-> <<>>, elems |-> p.elems]
           out == [at |-> "in", elem |-> string, elems |-> p.elems]
<1>1. "q" \in C
  BY DEF Marks
<1>2. quote \in Seq(C)
  BY <1>1
<1>3. p.elems \in Seq(Seq(C)) /\ <<>> \in Seq(C)
  BY DEF Positions
<1>4. in \in Positions(C) /\ out \in Positions(C)
  BY <1>3 DEF Positions, States
<1>5. ArrayStep(p, "q") = in
  BY DEF ArrayStep, ArrayAt
<1>6. ArrayRun(p, quote) = in
  BY <1>1, <1>5, RunOne
<1>7. text \in Seq(C) /\ ArrayRun(in, text) = out
  <2>1. in.at = "in" /\ in.elem = <<>> /\ in.elems = p.elems /\ <<>> \o string = string
    OBVIOUS
  <2> HIDE DEF in
  <2>2. text \in Seq(C) /\
        ArrayRun(in, text) = [at |-> "in", elem |-> in.elem \o string, elems |-> in.elems]
    BY <1>4, <2>1, EscapedRuns
  <2> QED BY <2>1, <2>2
<1>8. ArrayRun(out, quote) =
         [at |-> "after", elem |-> string, elems |-> Append(p.elems, string)]
  <2>1. ArrayStep(out, "q") =
           [at |-> "after", elem |-> string, elems |-> Append(p.elems, string)]
    BY DEF ArrayStep, ArrayAt
  <2>2. ArrayRun(out, quote) = ArrayStep(out, "q")
    <3> HIDE DEF out
    <3> QED BY <1>1, <1>4, RunOne
  <2> QED BY <2>1, <2>2
<1> HIDE DEF quote, text, in, out
<1>9. quote \o text \in Seq(C) /\ quote \o text \o quote \in Seq(C)
  BY <1>2, <1>7
<1>10. ArrayRun(p, quote \o text) = out
  BY <1>2, <1>6, <1>7, RunConcat
<1>11. ArrayRun(p, quote \o text \o quote) = ArrayRun(out, quote)
  <2> DEFINE most == quote \o text
  <2>1. most \in Seq(C) /\ ArrayRun(p, most) = out
    BY <1>9, <1>10
  <2> HIDE DEF most
  <2>2. ArrayRun(p, most \o quote) = ArrayRun(ArrayRun(p, most), quote)
    BY <1>2, <2>1, RunConcat
  <2>3. ArrayRun(p, most \o quote) = ArrayRun(out, quote)
    BY <2>1, <2>2
  <2> QED BY <2>3 DEF most
<1> QED BY <1>8, <1>9, <1>11 DEF quote, text

\* array_in takes the text of an array of strings apart again.
LEMMA ArrayReads ==
    ASSUME NEW S, NEW strings \in Seq(Seq(S))
    PROVE  ArrayIn(ArrayText(strings)) = [ok |-> TRUE, datum |-> strings]
<1> DEFINE C == S \cup Marks
           N == Len(strings)
           quote == <<"q">>
           comma == <<",">>
           open == <<"{">>
           close == <<"}">>
           start == [at |-> "start", elem |-> <<>>, elems |-> <<>>]
           first == [at |-> "elem", elem |-> <<>>, elems |-> <<>>]
           Then(k) == [at |-> IF k = 0 THEN "elem" ELSE "after",
                       elem |-> IF k = 0 THEN <<>> ELSE strings[k],
                       elems |-> SubSeq(strings, 1, k)]
<1>1. N \in Nat /\ DOMAIN strings = 1..N /\ \A i \in 1..N : strings[i] \in Seq(C)
  <2>1. \A i \in 1..N : strings[i] \in Seq(S)
    OBVIOUS
  <2>2. \A t \in Seq(S) : t \in Seq(C)
    OBVIOUS
  <2> QED BY <2>1, <2>2
<1>2. Marks \subseteq C /\ "," \in C /\ "{" \in C /\ "}" \in C /\ "q" \in C
  BY DEF Marks
<1> HIDE DEF C
<1>3. /\ <<>> \in Seq(C) /\ <<>> \in Seq(Seq(C)) /\ quote \in Seq(C) /\ comma \in Seq(C)
      /\ open \in Seq(C) /\ close \in Seq(C)
  <2>1. \A ch \in C : <<ch>> \in Seq(C)
    OBVIOUS
  <2>2. <<>> \in Seq(C) /\ <<>> \in Seq(Seq(C))
    OBVIOUS
  <2> QED BY <1>2, <2>1, <2>2
<1>4. strings \in Seq(Seq(C))
  <2>1. strings = [i \in 1..N |-> strings[i]]
    OBVIOUS
  <2> HIDE DEF N
  <2> QED BY <1>1, <2>1, IsSequence
<1>5. start \in Positions(C) /\ first \in Positions(C)
  BY <1>3 DEF Positions, States
<1>6. ASSUME NEW k \in 0..N PROVE Then(k) \in Positions(C)
  <2>1. SubSeq(strings, 1, k) \in Seq(Seq(C))
    BY <1>4
  <2>2. k # 0 => strings[k] \in Seq(C)
    BY <1>1
  <2> QED BY <1>3, <2>1, <2>2 DEF Positions, States
<1> DEFINE Quoted == [i \in 1..N |-> quote \o Escaped(strings[i]) \o quote]
           seqs == [i \in DOMAIN strings |->
                       (IF i > 1 THEN comma ELSE <<>>) \o quote \o Escaped(strings[i])
                       \o quote]
<1>7. ASSUME NEW i \in 1..N PROVE Escaped(strings[i]) \in Seq(C) /\ Quoted[i] \in Seq(C)
  <2> DEFINE in == [at |-> "in", elem |-> <<>>, elems |-> <<>>]
  <2>1. in \in Positions(C) /\ in.at = "in"
    BY <1>3 DEF Positions, States
  <2> HIDE DEF in
  <2>2. Escaped(strings[i]) \in Seq(C)
    BY <1>1, <1>2, <2>1, EscapedRuns
  <2>3. first.at = "elem"
    OBVIOUS
  <2> HIDE DEF first
  <2>4. Quoted[i] \in Seq(C)
    BY <1>1, <1>2, <1>5, <2>3, QuotedRuns
  <2> QED BY <2>2, <2>4
<1>8. ASSUME NEW i \in 1..N
      PROVE  /\ seqs[i] \in Seq(C)
             /\ i = 1 => seqs[i] = Quoted[i]
             /\ i # 1 => seqs[i] = comma \o Quoted[i]
  <2> DEFINE e == Escaped(strings[i])
             qe == quote \o e
             q == qe \o quote
  <2> HIDE DEF quote, comma
  <2>1. e \in Seq(C) /\ quote \in Seq(C) /\ comma \in Seq(C)
    BY <1>3, <1>7
  <2>2. Quoted[i] = q
    OBVIOUS
  <2> DEFINE head == IF i > 1 THEN comma ELSE <<>>
  <2>8. seqs[i] = head \o quote \o e \o quote
    BY <1>1
  <2>9. (i = 1 => head = <<>>) /\ (i # 1 => head = comma)
    OBVIOUS
  <2> HIDE DEF head, e, seqs
  <2>3. i = 1 => seqs[i] = <<>> \o quote \o e \o quote
    BY <2>8, <2>9
  <2>4. i # 1 => seqs[i] = comma \o quote \o e \o quote
    BY <2>8, <2>9
  <2> HIDE DEF e, seqs, Quoted
  <2>5. qe \in Seq(C) /\ q \in Seq(C) /\ comma \o q \in Seq(C)
    BY <2>1
  <2>6. <<>> \o quote \o e \o quote = q
    <3>1. <<>> \o quote = quote
      BY <2>1
    <3> QED BY <3>1
  <2>7. comma \o quote \o e \o quote = comma \o q
    <3>1. Splits(comma, quote, e)
      BY <2>1, CommaQuoted
    <3> QED BY ONLY <3>1 DEF Splits
  <2> HIDE DEF q
  <2> QED BY <2>2, <2>3, <2>4, <2>5, <2>6, <2>7
<1>9. seqs \in Seq(Seq(C)) /\ Len(seqs) = N /\ DOMAIN seqs = 1..N
  <2>1. seqs = [i \in 1..N |-> seqs[i]]
    BY <1>1
  <2> HIDE DEF seqs, N
  <2>2. \A i \in 1..N : seqs[i] \in Seq(C)
    BY <1>8
  <2> QED BY <1>1, <2>1, <2>2, IsSequence
<1>10. PICK f : Flattens(f, C, seqs)
  <2> HIDE DEF seqs
  <2> QED BY <1>9, FlattenDef
<1>11. /\ f \in [0..N -> Seq(C)] /\ f[0] = <<>>
       /\ \A k \in 1..N : f[k] = f[k - 1] \o seqs[k]
       /\ Elements(strings) = f[N]
  <2>1. Elements(strings) = FlattenSeq(seqs)
    BY DEF Elements, quote, comma
  <2> HIDE DEF seqs
  <2> QED BY <1>9, <1>10, <2>1 DEF Flattens
<1>99. \A i \in 1..N : Quoted[i] = quote \o Escaped(strings[i]) \o quote
  OBVIOUS
<1> HIDE DEF N, Quoted, seqs
<1> DEFINE T == {k \in Nat : k <= N => ArrayRun(first, f[k]) = Then(k)}
<1>12. 0 \in T
  <2>1. PICK run : Runs(run, C, first, <<>>)
    <3> HIDE DEF first
    <3> QED BY <1>3, <1>5, ArrayRunDef
  <2>2. ArrayRun(first, <<>>) = first
    BY <2>1 DEF Runs
  <2>3. Then(0) = first
    OBVIOUS
  <2>4. ArrayRun(first, f[0]) = Then(0)
    BY <1>11, <2>2, <2>3
  <2> HIDE DEF Then, first
  <2> QED BY <2>4
<1>13. ASSUME NEW k \in Nat, k \in T PROVE k + 1 \in T
  <2>1. CASE k + 1 <= N
    <3> DEFINE x == Then(k)
               y == [at |-> "elem", elem |-> x.elem, elems |-> x.elems]
    <3>1. k \in 0..N /\ k + 1 \in 1..N /\ (k + 1) - 1 = k /\ k + 1 # 0
      BY <1>1, <2>1
    <3>2. ArrayRun(first, f[k]) = x /\ f[k] \in Seq(C) /\ f[k + 1] = f[k] \o seqs[k + 1]
      <4>1. ArrayRun(first, f[k]) = Then(k)
        <5> HIDE DEF Then, first
        <5> QED BY <1>13, <3>1
      <4> HIDE DEF Then, first
      <4> QED BY <1>11, <3>1, <4>1
    <3>3. x \in Positions(C) /\ x.elems = SubSeq(strings, 1, k)
          /\ x.at = IF k = 0 THEN "elem" ELSE "after"
      BY <1>6, <3>1
    <3>4. Then(k + 1) = [at |-> "after", elem |-> strings[k + 1],
                         elems |-> Append(x.elems, strings[k + 1])]
      <4>1. SubSeq(strings, 1, k + 1) = Append(SubSeq(strings, 1, k), strings[k + 1])
        BY <1>1, <1>4, <3>1 DEF N
      <4> QED BY <3>1, <3>3, <4>1
    <3>5. ArrayRun(first, f[k + 1]) = ArrayRun(x, seqs[k + 1])
      <4>1. seqs[k + 1] \in Seq(C)
        BY <1>8, <3>1
      <4> HIDE DEF x, first
      <4> QED BY <1>5, <3>2, <4>1, RunConcat
    <3>6. strings[k + 1] \in Seq(C)
      BY <1>1, <3>1
    <3> HIDE DEF x
    <3>7. y \in Positions(C) /\ y.at = "elem" /\ y.elems = x.elems
      BY <3>3 DEF Positions, States
    <3>8. ArrayRun(x, seqs[k + 1]) = ArrayRun(y, Quoted[k + 1])
      <4>1. CASE k = 0
        <5>1. x.at = "elem" /\ x = [at |-> x.at, elem |-> x.elem, elems |-> x.elems]
          BY <3>3, <4>1 DEF Positions
        <5>2. seqs[k + 1] = Quoted[k + 1]
          <6> DEFINE i == k + 1
          <6>1. i \in 1..N /\ i = 1
            BY <3>1, <4>1
          <6> HIDE DEF i
          <6>2. seqs[i] = Quoted[i]
            BY <1>8, <6>1
          <6> QED BY <6>2 DEF i
        <5> QED BY <5>1, <5>2
      <4>2. CASE k # 0
        <5>1. x.at = "after"
          BY <3>3, <4>2
        <5>2. ArrayStep(x, ",") = y
          <6>1. ArrayAt(x.at, ",") = "elem"
            BY <5>1 DEF ArrayAt
          <6> QED BY <5>1, <6>1 DEF ArrayStep
        <5>3. ArrayRun(x, comma) = y
          <6> HIDE DEF y
          <6> QED BY <1>2, <3>3, <5>2, RunOne
        <5>4. seqs[k + 1] = comma \o Quoted[k + 1]
          <6> DEFINE i == k + 1
          <6>1. i \in 1..N /\ i # 1
            BY <3>1, <4>2
          <6> HIDE DEF i
          <6>2. seqs[i] = comma \o Quoted[i]
            BY <1>8, <6>1
          <6> QED BY <6>2 DEF i
        <5>5. comma \in Seq(C) /\ Quoted[k + 1] \in Seq(C)
          BY <1>3, <1>7, <3>1
        <5> HIDE DEF comma, y
        <5>6. ArrayRun(x, comma \o Quoted[k + 1]) = ArrayRun(ArrayRun(x, comma), Quoted[k + 1])
          BY <3>3, <5>5, RunConcat
        <5> QED BY <5>3, <5>4, <5>6
      <4> QED BY <4>1, <4>2
    <3>9. ArrayRun(y, Quoted[k + 1]) = [at |-> "after", elem |-> strings[k + 1],
                                        elems |-> Append(y.elems, strings[k + 1])]
      <4>1. Quoted[k + 1] = quote \o Escaped(strings[k + 1]) \o quote
        BY <1>99, <3>1
      <4> HIDE DEF y
      <4> QED BY <1>2, <3>6, <3>7, <4>1, QuotedRuns
    <3>10. ArrayRun(first, f[k + 1]) = Then(k + 1)
      <4> HIDE DEF y, first, Then
      <4> QED BY <3>4, <3>5, <3>7, <3>8, <3>9
    <3> HIDE DEF Then, first
    <3> QED BY <3>1, <3>10
  <2> QED BY <1>1, <2>1
<1>14. ArrayRun(first, f[N]) = Then(N) /\ f[N] \in Seq(C)
  <2>1. Nat \subseteq T
    <3> HIDE DEF T
    <3> QED BY <1>12, <1>13, Induction
  <2> HIDE DEF Then, first
  <2> QED BY <1>1, <1>11, <2>1
<1> DEFINE elements == f[N]
<1>15. ArrayRun(start, open) = first
  <2>1. ArrayStep(start, "{") = first
    BY DEF ArrayStep, ArrayAt
  <2>2. ArrayRun(start, open) = ArrayStep(start, "{")
    <3> HIDE DEF start
    <3> QED BY <1>2, <1>5, RunOne
  <2> QED BY <2>1, <2>2
<1>16. ArrayRun(Then(N), close).at = "end" /\ ArrayRun(Then(N), close).elems = strings
  <2> DEFINE x == Then(N)
  <2>1. x.at \in {"elem", "after"} /\ x.elems = SubSeq(strings, 1, N)
    OBVIOUS
  <2>2. SubSeq(strings, 1, N) = strings
    BY <1>4 DEF N
  <2>3. x \in Positions(C)
    BY <1>1, <1>6
  <2> HIDE DEF x
  <2>4. ArrayStep(x, "}").at = "end" /\ ArrayStep(x, "}").elems = x.elems
    BY <2>1 DEF ArrayStep, ArrayAt
  <2>5. ArrayRun(x, close) = ArrayStep(x, "}")
    BY <1>2, <2>3, RunOne
  <2>6. ArrayRun(x, close).at = "end" /\ ArrayRun(x, close).elems = strings
    BY <2>1, <2>2, <2>4, <2>5
  <2> QED BY <2>6 DEF x
<1>17. open \in Seq(C) /\ close \in Seq(C) /\ elements \in Seq(C)
  BY <1>3, <1>14
<1>18. ArrayText(strings) = open \o elements \o close
  BY <1>11 DEF ArrayText
<1> HIDE DEF open, close, elements, first, start, Then
<1>19. ArrayRun(start, open \o elements) = Then(N)
  <2>1. ArrayRun(start, open \o elements) = ArrayRun(ArrayRun(start, open), elements)
    BY <1>5, <1>17, RunConcat
  <2> QED BY <1>14, <1>15, <2>1 DEF elements
<1>20. ArrayRun(start, ArrayText(strings)) = ArrayRun(Then(N), close)
  <2> DEFINE most == open \o elements
  <2>1. most \in Seq(C) /\ ArrayRun(start, most) = Then(N)
    BY <1>17, <1>19
  <2>2. ArrayText(strings) = most \o close
    BY <1>18
  <2> HIDE DEF most
  <2>3. ArrayRun(start, most \o close) = ArrayRun(ArrayRun(start, most), close)
    BY <1>5, <1>17, <2>1, RunConcat
  <2> QED BY <2>1, <2>2, <2>3
<1>21. ArrayIn(ArrayText(strings)) =
          [ok |-> ArrayRun(start, ArrayText(strings)).at = "end",
           datum |-> ArrayRun(start, ArrayText(strings)).elems]
  BY DEF ArrayIn, start
<1> QED BY <1>16, <1>20, <1>21

---------------------------------------------------------------------------
\* Bytes.
LEMMA Bases ==
    /\ HexBase \in Nat \ {0} /\ ByteBase = HexBase * HexBase /\ ByteBase \in Nat /\ ByteBase >= 4
    /\ MicrosPerSecond \in Nat \ {0} /\ Epoch2000 \in Int /\ SecondsPerMinute \in Nat \ {0}
<1>1. HexBase \in Nat /\ HexBase >= 2
  BY ValuesAssumption DEF ValuesAssumption
<1>2. HexBase * HexBase >= 4 /\ HexBase * HexBase \in Nat
  BY <1>1
<1>3. MicrosPerSecond \in Nat \ {0}
  BY ValuesAssumption, ScaleDef DEF ValuesAssumption
<1> QED BY <1>1, <1>2, <1>3, ValuesAssumption DEF ValuesAssumption, ByteBase

\* Two sequences, one behind the other.
Joined(ab, a, b, S) ==
    /\ ab \in Seq(S) /\ Len(ab) = Len(a) + Len(b)
    /\ \A k \in 1..Len(a) : ab[k] = a[k]
    /\ \A k \in 1..Len(b) : ab[k + Len(a)] = b[k]

\* The places of a concatenation are those of its parts.
LEMMA Joining ==
    ASSUME NEW S, NEW a \in Seq(S), NEW b \in Seq(S), NEW ab, ab = a \o b
    PROVE  Joined(ab, a, b, S)
<1>1. ab \in Seq(S) /\ Len(ab) = Len(a) + Len(b)
  OBVIOUS
<1>2. ASSUME NEW k \in 1..Len(b) PROVE ab[k + Len(a)] = b[k]
  OBVIOUS
<1>3. ASSUME NEW k \in 1..Len(a) PROVE ab[k] = a[k]
  OBVIOUS
<1> QED BY <1>1, <1>2, <1>3 DEF Joined

\* The hexadecimal digits of bytes, taken in pairs, are the bytes.
LEMMA HexReads ==
    ASSUME NEW bytes \in Seq(0..(ByteBase - 1))
    PROVE  /\ HexText(bytes) \in Seq(Int \cup {"b", "x"})
           /\ Len(HexText(bytes)) = 2 + 2 * Len(bytes)
           /\ ByteaIn(HexText(bytes)) = bytes
<1> DEFINE N == Len(bytes)
           H == HexBase
           digits == [k \in 1..2 * N |->
                        IF k % 2 = 1 THEN bytes[(k + 1) \div 2] \div H ELSE bytes[k \div 2] % H]
           mark == <<"b", "x">>
           text == HexText(bytes)
           S == Int \cup {"b", "x"}
<1>1. N \in Nat /\ \A i \in 1..N : bytes[i] \in Int
  BY Bases
<1>2. bytes = [i \in 1..N |-> bytes[i]]
  OBVIOUS
<1>3. text = mark \o digits
  BY DEF HexText
<1>4. ASSUME NEW k \in 1..2 * N PROVE digits[k] \in S
  <2>1. CASE k % 2 = 1
    <3>1. (k + 1) \div 2 \in 1..N
      BY <1>1, <2>1
    <3>2. bytes[(k + 1) \div 2] \div H \in Int
      BY <1>1, <3>1, Bases
    <3> QED BY <2>1, <3>2
  <2>2. CASE k % 2 # 1
    <3>1. k \div 2 \in 1..N
      BY <1>1, <2>2
    <3>2. bytes[k \div 2] % H \in Int
      BY <1>1, <3>1, Bases
    <3> QED BY <2>2, <3>2
  <2> QED BY <2>1, <2>2
<1>5. digits \in Seq(S) /\ Len(digits) = 2 * N
  <2>1. 2 * N \in Nat /\ digits = [k \in 1..2 * N |-> digits[k]]
    BY <1>1
  <2> HIDE DEF digits, S, N
  <2> QED BY <1>4, <2>1, IsSequence
<1>6. mark \in Seq(S) /\ Len(mark) = 2
  OBVIOUS
<1> HIDE DEF digits, mark, S, text
<1>7. text \in Seq(S) /\ Len(text) = 2 + 2 * N /\ \A k \in 1..2 * N : text[k + 2] = digits[k]
  <2>1. Joined(text, mark, digits, S)
    BY <1>3, <1>5, <1>6, Joining
  <2> QED BY ONLY <1>5, <1>6, <2>1 DEF Joined
<1>8. ASSUME NEW i \in 1..N PROVE text[2 * i + 1] * H + text[2 * i + 2] = bytes[i]
  <2>1. /\ 2 * i - 1 \in 1..2 * N /\ 2 * i \in 1..2 * N
        /\ (2 * i - 1) + 2 = 2 * i + 1 /\ (2 * i - 1) % 2 = 1 /\ (2 * i) % 2 # 1
        /\ ((2 * i - 1) + 1) \div 2 = i /\ (2 * i) \div 2 = i
    BY <1>1
  <2>2. text[2 * i + 1] = digits[2 * i - 1] /\ text[2 * i + 2] = digits[2 * i]
    BY <1>7, <2>1
  <2>3. digits[2 * i - 1] = bytes[i] \div H /\ digits[2 * i] = bytes[i] % H
    BY <2>1 DEF digits
  <2>4. bytes[i] = H * (bytes[i] \div H) + (bytes[i] % H)
        /\ bytes[i] \div H \in Int /\ bytes[i] % H \in Int
    <3> DEFINE x == bytes[i]
    <3>1. x \in Int /\ H \in Nat \ {0}
      BY <1>1, Bases
    <3> HIDE DEF x, H
    <3>2. x = H * (x \div H) + (x % H) /\ x \div H \in Int /\ x % H \in Int
      BY <3>1
    <3> QED BY <3>2 DEF x
  <2>5. (bytes[i] \div H) * H = H * (bytes[i] \div H)
    BY <2>4, Bases
  <2> QED BY <2>2, <2>3, <2>4, <2>5
<1>9. (Len(text) - 2) \div 2 = N
  BY <1>1, <1>7
<1>10. ByteaIn(text) = [i \in 1..N |-> text[2 * i + 1] * H + text[2 * i + 2]]
  <2> HIDE DEF N
  <2> QED BY <1>9 DEF ByteaIn
<1>11. ByteaIn(text) = bytes
  <2> HIDE DEF N
  <2> QED BY <1>2, <1>8, <1>10
<1> QED BY <1>7, <1>11 DEF text, S

---------------------------------------------------------------------------
\* Integers.
LEMMA Capacities ==
    /\ \A w \in {2, 4, 8} : Capacity(w) \in Nat /\ Capacity(w) >= 16
    /\ 2 * Capacity(2) < Capacity(4) /\ 2 * Capacity(4) < Capacity(8)
    /\ Capacity(2) < Capacity(8)
<1> DEFINE two == Capacity(2)
           four == Capacity(4)
           eight == Capacity(8)
<1>1. two = ByteBase * ByteBase /\ four = two * two /\ eight = four * four
  BY DEF Capacity
<1> HIDE DEF two, four, eight
<1>2. two \in Nat /\ two >= 16
  BY <1>1, Bases
<1>3. four \in Nat /\ four >= 16 * two
  BY <1>1, <1>2
<1>4. eight \in Nat /\ eight >= 16 * four
  BY <1>1, <1>2, <1>3
<1> QED BY <1>2, <1>3, <1>4 DEF two, four, eight

\* An integer of a range, written in as many bytes, is read as itself.
LEMMA SignedReads ==
    ASSUME NEW w \in {2, 4, 8}, NEW n \in SignedRange(w)
    PROVE  /\ n \in Int /\ Signed(Unsigned(n, w), w) = n /\ Fits(n, w)
           /\ n >= 0 => Unsigned(n, w) = n
<1> DEFINE C == Capacity(w)
           h == C \div 2
<1>1. C \in Nat \ {0}
  BY Capacities
<1>2. n \in -h..(h - 1)
  BY DEF SignedRange
<1>3. Unsigned(n, w) = n % C
  BY DEF Unsigned
<1> HIDE DEF C
<1>4. h \in Nat /\ 2 * h <= C
  BY <1>1
<1> HIDE DEF h
<1>5. n \in Int
  BY <1>2, <1>4
<1>6. CASE n >= 0
  <2>1. n \in 0..(C - 1)
    BY <1>1, <1>2, <1>4, <1>6
  <2>2. n % C = n
    BY <1>1, <2>1
  <2>3. 2 * n < C
    BY <1>1, <1>2, <1>4
  <2> QED BY <1>3, <1>5, <1>6, <2>2, <2>3 DEF Signed, Fits, C
<1>7. CASE n < 0
  <2>1. n + C \in 0..(C - 1) /\ n = C * (-1) + (n + C) /\ -1 \in Int
    BY <1>1, <1>2, <1>4, <1>5, <1>7
  <2>2. n % C = n + C
    <3> DEFINE f == n + C
    <3> HIDE DEF f
    <3>1. f \in 0..(C - 1) /\ n = C * (-1) + f
      BY <2>1 DEF f
    <3>2. (C * (-1) + f) % C = f
      BY <1>1, <2>1, <3>1, Quotient
    <3> QED BY <3>1, <3>2 DEF f
  <2>3. ~(2 * (n + C) < C)
    BY <1>1, <1>2, <1>4, <1>5
  <2> QED BY <1>1, <1>3, <1>5, <1>7, <2>2, <2>3 DEF Signed, Fits, C
<1> QED BY <1>5, <1>6, <1>7

\* An integer that is not negative and fits half the range is in the range.
LEMMA InRange ==
    ASSUME NEW w \in {2, 4, 8}, NEW n \in Nat, 2 * n + 1 < Capacity(w)
    PROVE  n \in SignedRange(w)
<1> DEFINE C == Capacity(w)
<1>1. C \in Nat
  BY Capacities
<1> HIDE DEF C
<1>2. 2 * n + 1 < C
  BY DEF C
<1>3. n \in -(C \div 2)..(C \div 2 - 1)
  BY <1>1, <1>2
<1> QED BY <1>1, <1>2, <1>3 DEF SignedRange, C

\* strtoll gives a number back or sets errno.
LEMMA StrtollReads ==
    ASSUME NEW n \in Int
    PROVE  Strtoll(n).errno \/ Strtoll(n).v = n
BY DEF Strtoll, Read, Fail

---------------------------------------------------------------------------
\* Times.

\* Division that truncates toward zero.
LEMMA Truncates ==
    ASSUME NEW a \in Int, NEW m \in Nat \ {0}
    PROVE  /\ Quot(a, m) \in Int /\ Rest(a, m) \in Int
           /\ a = m * Quot(a, m) + Rest(a, m)
           /\ -m < Rest(a, m) /\ Rest(a, m) < m
<1>1. CASE a < 0
  <2> DEFINE b == -a
             q == b \div m
             r == b % m
  <2>1. b \in Int /\ q \in Int /\ r \in 0..(m - 1) /\ b = m * q + r
    <3> HIDE DEF b
    <3>1. b \in Int
      BY DEF b
    <3> QED BY <3>1, DivMod
  <2>2. Quot(a, m) = -q
    BY <1>1 DEF Quot
  <2> HIDE DEF q, r
  <2>3. m * (-q) = -(m * q) /\ m * q \in Int
    BY <2>1
  <2>4. a = -(m * q) - r
    BY <2>1, <2>3
  <2>5. Rest(a, m) = -r
    BY <2>1, <2>2, <2>3, <2>4 DEF Rest
  <2> QED BY <2>1, <2>2, <2>3, <2>4, <2>5
<1>2. CASE a >= 0
  <2> DEFINE q == a \div m
             r == a % m
  <2>1. q \in Int /\ r \in 0..(m - 1) /\ a = m * q + r
    BY DivMod
  <2>2. Quot(a, m) = q
    BY <1>2 DEF Quot
  <2> HIDE DEF q, r
  <2>3. m * q \in Int
    BY <2>1
  <2>4. Rest(a, m) = r
    BY <2>1, <2>2, <2>3 DEF Rest
  <2> QED BY <2>1, <2>2, <2>4
<1> QED BY <1>1, <1>2

\* A number of microseconds split into seconds and a fraction that is not negative, the
\* way the time_point constructor and as_datetime split it.
LEMMA Splitting ==
    ASSUME NEW a \in Int
    PROVE  LET q == Quot(a, MicrosPerSecond)
               r == Rest(a, MicrosPerSecond)
               sec == IF r < 0 THEN q - 1 ELSE q
               usec == IF r < 0 THEN r + MicrosPerSecond ELSE r
           IN  /\ sec \in Int /\ usec \in 0..(MicrosPerSecond - 1)
               /\ sec * MicrosPerSecond + usec = a
<1> DEFINE M == MicrosPerSecond
           q == Quot(a, M)
           r == Rest(a, M)
<1>1. M \in Nat \ {0}
  BY Bases
<1>2. q \in Int /\ r \in Int /\ a = M * q + r /\ -M < r /\ r < M
  BY <1>1, Truncates
<1> HIDE DEF q, r, M
<1>3. q * M = M * q /\ (q - 1) * M = M * q - M /\ M * q \in Int
  BY <1>1, <1>2
<1>4. CASE r < 0
  <2>1. r + M \in 0..(M - 1) /\ q - 1 \in Int /\ (q - 1) * M + (r + M) = a
    BY <1>1, <1>2, <1>3, <1>4
  <2> QED BY <1>4, <2>1 DEF q, r, M
<1>5. CASE ~(r < 0)
  <2>1. r \in 0..(M - 1) /\ q * M + r = a
    BY <1>1, <1>2, <1>3, <1>5
  <2> QED BY <1>2, <1>5, <2>1 DEF q, r, M
<1> QED BY <1>4, <1>5

\* The backend has the instant that the time_point stands for.
LEMMA TimeIn ==
    ASSUME NEW micros \in Int
    PROVE  LET in == In("TIMESTAMPTZ", TimeText(micros))
           IN  in.ok /\ in.datum \in Int /\ in.datum = micros - Epoch2000 * MicrosPerSecond
<1> DEFINE M == MicrosPerSecond
           E == Epoch2000
           q == Quot(micros, M)
           r == Rest(micros, M)
           sec == IF r < 0 THEN q - 1 ELSE q
           usec == IF r < 0 THEN r + M ELSE r
           text == TimeText(micros)
<1>1. M \in Nat \ {0} /\ E \in Int
  BY Bases
<1>2. sec \in Int /\ usec \in 0..(M - 1) /\ sec * M + usec = micros
  BY Splitting
<1>3. text.sec = sec /\ text.fraction = usec /\ text.offset = 0
  BY DEF TimeText
<1> HIDE DEF sec, usec, text, M, E
<1>4. /\ In("TIMESTAMPTZ", text).ok = (text.fraction \in 0..(M - 1))
      /\ In("TIMESTAMPTZ", text).datum = (text.sec - text.offset - E) * M + text.fraction
  BY DEF In, M, E
<1>5. (sec - 0 - E) * M + usec = micros - E * M /\ micros - E * M \in Int
  <2>1. (sec - 0 - E) * M = sec * M - E * M /\ sec * M \in Int /\ E * M \in Int
    BY <1>1, <1>2
  <2> QED BY <1>1, <1>2, <2>1
<1> QED BY <1>2, <1>3, <1>4, <1>5 DEF text, M, E

\* What as_datetime makes of a timestamptz.
LEMMA DatetimeReads ==
    ASSUME NEW datum \in Int, NEW format \in {"text", "binary"}, NEW z \in Int
    PROVE  LET cell == Cell("TIMESTAMPTZ", datum, format, z)
               tm == AsDatetime(cell)
           IN  \/ tm.errno
               \/ format = "text" /\ cell.data.sec = -1
               \/ /\ tm.v.sec \in Int
                  /\ tm.v.usec \in 0..(MicrosPerSecond - 1)
                  /\ tm.v.sec * MicrosPerSecond + tm.v.usec
                        = datum + Epoch2000 * MicrosPerSecond
<1> DEFINE M == MicrosPerSecond
           E == Epoch2000
           cell == Cell("TIMESTAMPTZ", datum, format, z)
           tm == AsDatetime(cell)
<1>1. M \in Nat \ {0} /\ E \in Int
  BY Bases
<1>2. CASE format = "binary"
  <2> DEFINE q == Quot(datum, M)
             r == Rest(datum, M)
             sec == IF r < 0 THEN q - 1 ELSE q
             usec == IF r < 0 THEN r + M ELSE r
  <2>1. sec \in Int /\ usec \in 0..(M - 1) /\ sec * M + usec = datum
    BY Splitting
  <2>2. cell.format = "binary" /\ cell.data = datum
    BY <1>2 DEF Cell, BinaryOut
  <2> HIDE DEF cell
  <2>3. q \in Int
    BY <1>1, Truncates
  <2>4. tm.v.sec = sec + E /\ tm.v.usec = usec
    <3>1. tm = IF r < 0 THEN Read([sec |-> (q + E) - 1, usec |-> r + M])
               ELSE Read([sec |-> q + E, usec |-> r])
      BY <2>2 DEF AsDatetime
    <3> HIDE DEF tm, q, r
    <3> QED BY <1>1, <2>3, <3>1 DEF Read
  <2> HIDE DEF sec, usec, M, E, tm
  <2>5. (sec + E) * M + usec = datum + E * M
    <3>1. (sec + E) * M = sec * M + E * M /\ sec * M \in Int /\ E * M \in Int
      BY <1>1, <2>1
    <3> QED BY <1>1, <2>1, <3>1
  <2>6. tm.v.sec \in Int /\ tm.v.usec \in 0..(M - 1) /\ tm.v.sec * M + tm.v.usec = datum + E * M
    BY <1>1, <2>1, <2>4, <2>5
  <2> QED BY <2>6 DEF M, E, tm, cell
<1>3. CASE format = "text"
  <2> DEFINE q == datum \div M
             r == datum % M
  <2>1. q \in Int /\ r \in 0..(M - 1) /\ datum = M * q + r
    BY <1>1, DivMod
  <2>2. ParsedFraction(Fraction(r)) = r
    BY <2>1, FractionReads
  <2>3. /\ cell.format = "text" /\ cell.data.sec = q + E + z
        /\ cell.data.fraction = Fraction(r) /\ cell.data.offset = z
    BY <1>3 DEF Cell, TextOut
  <2> HIDE DEF cell, q, r
  <2>4. CASE ~OffsetParses(z)
    <3>1. tm = Fail([sec |-> 0, usec |-> 0])
      BY <2>3, <2>4 DEF AsDatetime
    <3>2. tm.errno
      <4> HIDE DEF tm
      <4> QED BY <3>1 DEF Fail
    <3> QED BY <3>2 DEF cell
  <2>5. CASE OffsetParses(z) /\ cell.data.sec # -1
    <3>1. tm = Read([sec |-> cell.data.sec - cell.data.offset,
                     usec |-> ParsedFraction(cell.data.fraction)])
      BY <2>3, <2>5 DEF AsDatetime
    <3> HIDE DEF tm
    <3>2. tm.v.sec = q + E /\ tm.v.usec = r
      <4>1. (q + E + z) - z = q + E
        BY <1>1, <2>1
      <4> QED BY <2>2, <2>3, <3>1, <4>1 DEF Read
    <3> HIDE DEF M, E
    <3>3. (q + E) * M + r = datum + E * M
      <4>1. (q + E) * M = M * q + E * M /\ M * q \in Int /\ E * M \in Int
        BY <1>1, <2>1
      <4> QED BY <1>1, <2>1, <4>1
    <3>4. tm.v.sec \in Int /\ tm.v.usec \in 0..(M - 1)
          /\ tm.v.sec * M + tm.v.usec = datum + E * M
      BY <1>1, <2>1, <3>2, <3>3
    <3> QED BY <3>4 DEF M, E, tm, cell
  <2> QED BY <1>3, <2>4, <2>5 DEF cell
<1> QED BY <1>2, <1>3

---------------------------------------------------------------------------
\* A value through PostgresValue, the backend and the accessor of its type.

\* The cell that the row has for a value.
Answered(value, format, z) ==
    Cell(Oid(value.type), In(Oid(value.type), Parameter(value).data).datum, format, z)

\* The value is well formed for the backend, and comes back unless that is known or told.
Survives(value, format, z) ==
    /\ ~Parameter(value).is_null /\ Parameter(value).oid = Oid(value.type)
    /\ Oid(value.type) \notin {"none", "UNSPECIFIED"}
    /\ In(Oid(value.type), Parameter(value).data).ok
    /\ \/ KnownLoss(value, format)
       \/ Access(value.type, Answered(value, format, z)).errno
       \/ Access(value.type, Answered(value, format, z)).v = value.v

Formats == {"text", "binary"}

\* The signed integers, and the unsigned ones that are sent as the next wider type.
Narrow == [int16 |-> 2, int32 |-> 4, int64 |-> 8, uint16 |-> 4, uint32 |-> 8]

\* Every integer of a type comes back from the integer type it is sent as.
LEMMA NarrowSurvives ==
    ASSUME NEW type \in {"int16", "int32", "int64", "uint16", "uint32"},
           NEW n \in SignedRange(Narrow[type]), NEW format \in Formats, NEW z
    PROVE  Survives([type |-> type, v |-> n], format, z)
<1> DEFINE value == [type |-> type, v |-> n]
           oid == Oid(type)
           w == Narrow[type]
           cell == Answered(value, format, z)
<1>1. /\ w \in {2, 4, 8} /\ oid \in {"INT2", "INT4", "INT8"} /\ Width(oid) = w
      /\ type \in Ints /\ (w = 2 <=> type = "int16")
  BY DEF Narrow, Oid, Width, Ints
<1>2. n \in Int /\ Signed(Unsigned(n, w), w) = n /\ Fits(n, w) /\ (n >= 0 => Unsigned(n, w) = n)
  BY <1>1, SignedReads
<1>3. Parameter(value) = [is_null |-> FALSE, oid |-> oid, data |-> n]
  BY <1>1 DEF Parameter
<1> HIDE DEF w, oid
<1>4. In(oid, n) = [ok |-> TRUE, datum |-> n]
  BY <1>1, <1>2 DEF In
<1>5. cell = Cell(oid, n, format, z)
  BY <1>3, <1>4 DEF Answered, oid
<1>6. CASE format = "text"
  <2>1. cell.data = n /\ cell.format = "text" /\ ~cell.is_null
    BY <1>1, <1>5, <1>6 DEF Cell, TextOut
  <2> HIDE DEF cell
  <2>2. Access(type, cell) = Strtoll(n)
    BY <1>1, <2>1 DEF Access, AsInt
  <2>3. Access(type, cell).errno \/ Access(type, cell).v = n
    BY <1>2, <2>2, StrtollReads
  <2> QED BY <1>1, <1>3, <1>4, <2>3 DEF Survives, cell, oid
<1>7. CASE format = "binary"
  <2>1. cell.data = Unsigned(n, w) /\ cell.len = w /\ cell.format = "binary" /\ ~cell.is_null
    BY <1>1, <1>5, <1>7 DEF Cell, BinaryOut
  <2> HIDE DEF cell
  <2>2. CASE w = 2
    <3>1. Access(type, cell) = Read(Unsigned(n, w))
      BY <1>1, <2>1, <2>2 DEF Access, AsInt
    <3>2. CASE n >= 0
      <4>1. Access(type, cell).v = n
        BY <1>2, <3>1, <3>2 DEF Read
      <4> QED BY <1>1, <1>3, <1>4, <4>1 DEF Survives, cell, oid
    <3>3. CASE n < 0
      <4>1. KnownLoss(value, format)
        BY <1>1, <1>7, <2>2, <3>3 DEF KnownLoss
      <4> QED BY <1>1, <1>3, <1>4, <4>1 DEF Survives, oid
    <3> QED BY <1>2, <3>2, <3>3
  <2>3. CASE w # 2
    <3>1. Access(type, cell) = Read(n)
      BY <1>1, <1>2, <2>1, <2>3 DEF Access, AsInt
    <3>2. Access(type, cell).v = n
      BY <3>1 DEF Read
    <3> QED BY <1>1, <1>3, <1>4, <3>2 DEF Survives, cell, oid
  <2> QED BY <2>2, <2>3
<1> QED BY <1>6, <1>7 DEF Formats

\* An uint64 is sent as a numeric.
LEMMA WideSurvives ==
    ASSUME NEW n \in Nat, NEW format \in Formats, NEW z
    PROVE  Survives([type |-> "uint64", v |-> n], format, z)
<1> DEFINE value == [type |-> "uint64", v |-> n]
           cell == Answered(value, format, z)
<1>1. Oid("uint64") = "NUMERIC" /\ "uint64" \in Ints
  BY DEF Oid, Ints
<1>2. Parameter(value) = [is_null |-> FALSE, oid |-> "NUMERIC", data |-> n]
  BY <1>1 DEF Parameter
<1>3. In("NUMERIC", n) = [ok |-> TRUE, datum |-> n]
  BY DEF In
<1>4. cell = Cell("NUMERIC", n, format, z)
  BY <1>1, <1>2, <1>3 DEF Answered
<1>5. Access("uint64", cell).errno \/ Access("uint64", cell).v = n
  <2>1. CASE format = "text"
    <3>1. cell.data = n /\ cell.format = "text" /\ ~cell.is_null
      BY <1>4, <2>1 DEF Cell, TextOut
    <3> HIDE DEF cell
    <3>2. Access("uint64", cell) = Strtoll(n)
      BY <1>1, <3>1 DEF Access, AsInt
    <3> QED BY <3>2, StrtollReads
  <2>2. CASE format = "binary"
    <3>1. cell.data = 0 /\ cell.format = "binary" /\ ~cell.is_null
          /\ cell.len = IF n = 0 THEN 8 ELSE 10
      BY <1>4, <2>2 DEF Cell, BinaryOut
    <3> HIDE DEF cell
    <3>2. CASE n = 0
      <4>1. Access("uint64", cell) = Read(Signed(0, 8))
        BY <1>1, <3>1, <3>2 DEF Access, AsInt
      <4>2. Capacity(8) \in Nat /\ Capacity(8) >= 16
        BY Capacities
      <4>3. Signed(0, 8) = 0
        BY <4>2 DEF Signed
      <4> QED BY <3>2, <4>1, <4>3 DEF Read
    <3>3. CASE n # 0
      <4>1. Access("uint64", cell) = Fail(0)
        BY <1>1, <3>1, <3>3 DEF Access, AsInt
      <4> QED BY <4>1 DEF Fail
    <3> QED BY <3>2, <3>3
  <2> QED BY <2>1, <2>2 DEF Formats
<1> QED BY <1>1, <1>2, <1>3, <1>5 DEF Survives

\* Both truth values come back (as_bool).
LEMMA BoolSurvives ==
    ASSUME NEW b \in BOOLEAN, NEW format \in Formats, NEW z
    PROVE  Survives([type |-> "bool", v |-> b], format, z)
<1> DEFINE value == [type |-> "bool", v |-> b]
           t == IF b THEN "t" ELSE "f"
           cell == Answered(value, format, z)
<1>1. Oid("bool") = "BOOL" /\ "bool" \notin Ints
  BY DEF Oid, Ints
<1>2. Parameter(value) = [is_null |-> FALSE, oid |-> "BOOL", data |-> t]
  BY <1>1 DEF Parameter
<1> HIDE DEF t
<1>3. In("BOOL", t) = [ok |-> TRUE, datum |-> t]
  BY DEF In
<1>4. cell = Cell("BOOL", t, format, z)
  BY <1>1, <1>2, <1>3 DEF Answered
<1>5. (t = "t") = b
  BY DEF t
<1>6. Access("bool", cell).v = b
  <2>1. Access("bool", cell) = AsBool(cell)
    BY <1>1 DEF Access
  <2>2. CASE format = "text"
    <3>1. cell.data = t /\ cell.format = "text" /\ ~cell.is_null /\ cell.len = 2
      BY <1>4, <2>2 DEF Cell, TextOut
    <3> HIDE DEF cell
    <3>2. AsBool(cell).v = (t = "t")
      BY <3>1 DEF AsBool, Read
    <3> QED BY <1>5, <2>1, <3>2
  <2>3. CASE format = "binary"
    <3>1. cell.data = (IF t = "t" THEN 1 ELSE 0) /\ cell.format = "binary" /\ ~cell.is_null
          /\ cell.len = 1
      BY <1>4, <2>3 DEF Cell, BinaryOut
    <3> HIDE DEF cell
    <3>2. AsBool(cell).v = (cell.data # 0)
      BY <3>1 DEF AsBool, Read
    <3>3. (cell.data # 0) = (t = "t")
      BY <3>1
    <3> QED BY <1>5, <2>1, <3>2, <3>3
  <2> QED BY <2>2, <2>3 DEF Formats
<1> QED BY <1>1, <1>2, <1>3, <1>6 DEF Survives

\* Every string comes back (as_string).
LEMMA StringSurvives ==
    ASSUME NEW string, NEW format \in Formats, NEW z
    PROVE  Survives([type |-> "string", v |-> string], format, z)
<1> DEFINE value == [type |-> "string", v |-> string]
           cell == Answered(value, format, z)
<1>1. Oid("string") = "TEXT" /\ "string" \notin Ints
  BY DEF Oid, Ints
<1>2. Parameter(value) = [is_null |-> FALSE, oid |-> "TEXT", data |-> string]
  BY <1>1 DEF Parameter
<1>3. In("TEXT", string) = [ok |-> TRUE, datum |-> string]
  BY DEF In
<1>4. cell = Cell("TEXT", string, format, z)
  BY <1>1, <1>2, <1>3 DEF Answered
<1>5. cell.data = string /\ ~cell.is_null
  BY <1>4 DEF Cell, TextOut, BinaryOut, Formats
<1> HIDE DEF cell
<1>6. Access("string", cell).v = string
  BY <1>1, <1>5 DEF Access, Read
<1> QED BY <1>1, <1>2, <1>3, <1>6 DEF Survives, cell

\* Every string of bytes comes back through its hexadecimal digits (as_bytea).
LEMMA BytesSurvive ==
    ASSUME NEW bytes \in Seq(0..(ByteBase - 1)), NEW format \in Formats, NEW z
    PROVE  Survives([type |-> "bytes", v |-> bytes], format, z)
<1> DEFINE value == [type |-> "bytes", v |-> bytes]
           text == HexText(bytes)
           cell == Answered(value, format, z)
<1>1. Oid("bytes") = "BYTEA" /\ "bytes" \notin Ints
  BY DEF Oid, Ints
<1>2. Parameter(value) = [is_null |-> FALSE, oid |-> "BYTEA", data |-> text]
  BY <1>1 DEF Parameter
<1>3. ByteaIn(text) = bytes /\ Len(bytes) \in Nat /\ (Len(bytes) = 0 => bytes = <<>>)
  BY HexReads
<1>4. In("BYTEA", text) = [ok |-> TRUE, datum |-> bytes]
  BY <1>3 DEF In
<1>5. cell = Cell("BYTEA", bytes, format, z)
  BY <1>1, <1>2, <1>4 DEF Answered
<1>6. Access("bytes", cell).v = bytes
  <2>1. Access("bytes", cell) = AsBytea(cell)
    BY <1>1 DEF Access
  <2>2. CASE format = "text"
    <3>1. cell.data = text /\ cell.format = "text" /\ ~cell.is_null /\ cell.len = 2
      BY <1>5, <2>2 DEF Cell, TextOut
    <3> HIDE DEF cell, text
    <3>2. AsBytea(cell) = Read(ByteaIn(text))
      BY <3>1 DEF AsBytea, ByteaIn
    <3> QED BY <1>3, <2>1, <3>2 DEF Read
  <2>3. CASE format = "binary"
    <3>1. cell.data = bytes /\ cell.format = "binary" /\ ~cell.is_null
          /\ cell.len = Len(bytes)
      BY <1>5, <2>3 DEF Cell, BinaryOut
    <3> HIDE DEF cell, text
    <3>2. AsBytea(cell) = Read(bytes)
      BY <1>3, <3>1 DEF AsBytea
    <3> QED BY <2>1, <3>2 DEF Read
  <2> QED BY <2>2, <2>3 DEF Formats
<1> QED BY <1>1, <1>2, <1>4, <1>6 DEF Survives

\* Every point in time comes back, or is told not to (as_time_point).
LEMMA TimeSurvives ==
    ASSUME NEW micros \in Int, NEW format \in Formats, NEW z \in Int
    PROVE  Survives([type |-> "time", v |-> micros], format, z)
<1> DEFINE value == [type |-> "time", v |-> micros]
           text == TimeText(micros)
           M == MicrosPerSecond
           E == Epoch2000
           datum == micros - E * M
           cell == Answered(value, format, z)
           tm == AsDatetime(cell)
<1>0. M \in Nat \ {0} /\ E \in Int /\ datum \in Int
  BY Bases
<1>1. Oid("time") = "TIMESTAMPTZ" /\ "time" \notin Ints
  BY DEF Oid, Ints
<1>2. Parameter(value) = [is_null |-> FALSE, oid |-> "TIMESTAMPTZ", data |-> text]
  BY <1>1 DEF Parameter
<1>3. In("TIMESTAMPTZ", text).ok /\ In("TIMESTAMPTZ", text).datum = datum
  BY TimeIn
<1>4. cell = Cell("TIMESTAMPTZ", datum, format, z)
  BY <1>1, <1>2, <1>3 DEF Answered
<1>5. Access("time", cell) = AsTimePoint(cell)
  BY <1>1 DEF Access
<1>6. datum + E * M = micros
  BY <1>0
<1>7. AsTimePoint(cell).errno \/ AsTimePoint(cell).v = micros
  <2>1. CASE format = "binary"
    <3>1. cell.format = "binary" /\ cell.data = datum
      BY <1>4, <2>1 DEF Cell, BinaryOut
    <3> HIDE DEF cell
    <3>2. AsTimePoint(cell) = Read(datum + E * M)
      BY <3>1 DEF AsTimePoint
    <3> HIDE DEF datum
    <3> QED BY <1>6, <3>2 DEF Read
  <2>2. CASE format = "text"
    <3>1. cell.format = "text"
      BY <1>4, <2>2 DEF Cell
    <3>2. \/ tm.errno
          \/ cell.data.sec = -1
          \/ tm.v.sec * M + tm.v.usec = micros
      <4> HIDE DEF datum
      <4>1. format \in {"text", "binary"}
        BY DEF Formats
      <4>2. \/ tm.errno
            \/ cell.data.sec = -1
            \/ tm.v.sec * M + tm.v.usec = datum + E * M
        <5> HIDE DEF cell
        <5> QED BY <1>0, <1>4, <4>1, DatetimeReads
      <4> QED BY <1>6, <4>2
    <3>3. cell.data.sec = -1 => tm.errno \/ tm.v.sec = -1
      <4> HIDE DEF cell
      <4> QED BY <3>1 DEF AsDatetime, Read, Fail
    <3>4. AsTimePoint(cell) = IF tm.errno \/ tm.v.sec = -1 THEN Fail(0)
                              ELSE Read(tm.v.sec * M + tm.v.usec)
      <4> HIDE DEF cell
      <4> QED BY <3>1 DEF AsTimePoint
    <3> HIDE DEF tm, cell, datum
    <3> QED BY <3>2, <3>3, <3>4 DEF Read, Fail
  <2> QED BY <2>1, <2>2 DEF Formats
<1> QED BY <1>1, <1>2, <1>3, <1>5, <1>7 DEF Survives

\* The cell of an array in binary has its elements.
LEMMA ArrayCell ==
    ASSUME NEW oid \in {"TEXT_ARRAY", "INT4_ARRAY", "INT8_ARRAY"}, NEW S, NEW v \in Seq(S), NEW z
    PROVE  LET cell == Cell(oid, v, "binary", z)
           IN  AsArray(cell) = v /\ cell.data.width = IF oid = "INT8_ARRAY" THEN 8 ELSE 4
<1> DEFINE cell == Cell(oid, v, "binary", z)
<1>1. /\ cell.format = "binary"
      /\ cell.data = [ndim |-> IF v = <<>> THEN 0 ELSE 1, elements |-> v,
                      width |-> IF oid = "INT8_ARRAY" THEN 8 ELSE 4]
      /\ cell.len = 12 + (IF v = <<>> THEN 0 ELSE 8 + 4 * Len(v))
  BY DEF Cell, BinaryOut
<1>2. Len(v) \in Nat
  OBVIOUS
<1> HIDE DEF cell
<1>3. AsArray(cell) = v
  <2>1. CASE v = <<>>
    BY <1>1, <2>1 DEF AsArray
  <2>2. CASE v # <<>>
    <3>1. cell.len >= 12 /\ cell.data.ndim # 0 /\ cell.data.elements = v
      BY <1>1, <1>2, <2>2
    <3> QED BY <1>1, <3>1 DEF AsArray
  <2> QED BY <2>1, <2>2
<1>4. cell.data.width = IF oid = "INT8_ARRAY" THEN 8 ELSE 4
  BY <1>1
<1> QED BY <1>3, <1>4 DEF cell

\* Every array of strings comes back in binary, whatever its strings have to have escaped.
LEMMA StringsSurvive ==
    ASSUME NEW S, NEW strings \in Seq(Seq(S)), NEW format \in Formats, NEW z
    PROVE  Survives([type |-> "strings", v |-> strings], format, z)
<1> DEFINE value == [type |-> "strings", v |-> strings]
           text == ArrayText(strings)
           cell == Answered(value, format, z)
<1>1. Oid("strings") = "TEXT_ARRAY" /\ "strings" \notin Ints
  BY DEF Oid, Ints
<1>2. Parameter(value) = [is_null |-> FALSE, oid |-> "TEXT_ARRAY", data |-> text]
  BY <1>1 DEF Parameter
<1>3. In("TEXT_ARRAY", text) = [ok |-> TRUE, datum |-> strings]
  <2>1. In("TEXT_ARRAY", text) = ArrayIn(text)
    BY DEF In
  <2> QED BY <2>1, ArrayReads
<1>4. cell = Cell("TEXT_ARRAY", strings, format, z)
  BY <1>1, <1>2, <1>3 DEF Answered
<1>5. KnownLoss(value, format) \/ Access("strings", cell).v = strings
  <2>1. CASE format = "text"
    BY <2>1 DEF KnownLoss
  <2>2. CASE format = "binary"
    <3>1. AsArray(cell) = strings
      <4> HIDE DEF cell
      <4> QED BY <1>4, <2>2, ArrayCell
    <3> HIDE DEF cell
    <3>2. Access("strings", cell) = Read(strings)
      BY <1>1, <3>1 DEF Access, AsStrings
    <3> QED BY <3>2 DEF Read
  <2> QED BY <2>1, <2>2 DEF Formats
<1> QED BY <1>1, <1>2, <1>3, <1>5 DEF Survives

\* Every array of integers comes back in binary, or is told not to (as_bigint_array).
LEMMA IntegersSurvive ==
    ASSUME NEW type \in {"int32s", "int64s"}, NEW S, NEW ints \in Seq(S),
           NEW format \in Formats, NEW z
    PROVE  Survives([type |-> type, v |-> ints], format, z)
<1> DEFINE value == [type |-> type, v |-> ints]
           oid == Oid(type)
           cell == Answered(value, format, z)
<1>1. oid \in {"INT4_ARRAY", "INT8_ARRAY"} /\ type \notin Ints
  BY DEF Oid, Ints
<1>2. Parameter(value) = [is_null |-> FALSE, oid |-> oid, data |-> ints]
  BY DEF Parameter
<1> HIDE DEF oid
<1>3. In(oid, ints) = [ok |-> TRUE, datum |-> ints]
  BY <1>1 DEF In
<1>4. cell = Cell(oid, ints, format, z)
  BY <1>2, <1>3 DEF Answered, oid
<1>5. \/ KnownLoss(value, format) \/ Access(type, cell).errno
      \/ Access(type, cell).v = ints
  <2>1. CASE format = "text"
    BY <2>1 DEF KnownLoss
  <2>2. CASE format = "binary"
    <3>1. AsArray(cell) = ints
      <4> HIDE DEF cell
      <4> QED BY <1>1, <1>4, <2>2, ArrayCell
    <3> HIDE DEF cell
    <3>2. Access(type, cell) = AsBigints(cell)
      BY <1>1 DEF Access, Ints
    <3> QED BY <3>1, <3>2 DEF AsBigints, Read, Fail
  <2> QED BY <2>1, <2>2 DEF Formats
<1> QED BY <1>1, <1>2, <1>3, <1>5 DEF Survives, oid

\* Bytes, strings and arrays are sequences, whatever the bound of their length.
LEMMA LimitedIsSeq ==
    ASSUME NEW S, NEW v \in Limited(S)
    PROVE  v \in Seq(S)
<1>1. PICK k \in 0..MaxLength : v \in [1..k -> S]
  BY DEF Limited
<1>2. k \in Nat
  BY ExtendedAssumption DEF ExtendedAssumption
<1> QED BY <1>1, <1>2, FunctionIsSequence

\* A value of any type.
LEMMA ValueSurvives ==
    ASSUME NEW value \in Values, NEW format \in Formats, NEW z \in Int
    PROVE  Survives(value, format, z)
<1>0. /\ Int16s \subseteq SignedRange(2) /\ Int32s \subseteq SignedRange(4)
      /\ Int64s \subseteq SignedRange(8) /\ Micros \subseteq Int
      /\ Narrow["int16"] = 2 /\ Narrow["int32"] = 4 /\ Narrow["int64"] = 8
      /\ Narrow["uint16"] = 4 /\ Narrow["uint32"] = 8
  BY ExtendedAssumption DEF ExtendedAssumption, Narrow
<1>1. ASSUME NEW n \in Int16s PROVE Survives([type |-> "int16", v |-> n], format, z)
  BY <1>0, NarrowSurvives
<1>2. ASSUME NEW n \in Int32s PROVE Survives([type |-> "int32", v |-> n], format, z)
  BY <1>0, NarrowSurvives
<1>3. ASSUME NEW n \in Int64s PROVE Survives([type |-> "int64", v |-> n], format, z)
  BY <1>0, NarrowSurvives
<1>4. ASSUME NEW n \in 0..(Capacity(2) - 1)
      PROVE Survives([type |-> "uint16", v |-> n], format, z)
  <2>1. n \in Nat /\ 2 * n + 1 < Capacity(4)
    BY Capacities
  <2>2. n \in SignedRange(4)
    BY <2>1, InRange
  <2> QED BY <1>0, <2>2, NarrowSurvives
<1>5. ASSUME NEW n \in 0..(Capacity(4) - 1)
      PROVE Survives([type |-> "uint32", v |-> n], format, z)
  <2>1. n \in Nat /\ 2 * n + 1 < Capacity(8)
    BY Capacities
  <2>2. n \in SignedRange(8)
    BY <2>1, InRange
  <2> QED BY <1>0, <2>2, NarrowSurvives
<1>6. ASSUME NEW n \in {m \in Int64s : m >= 0} \cup {Capacity(8) - 1}
      PROVE Survives([type |-> "uint64", v |-> n], format, z)
  <2>1. CASE n \in Int64s /\ n >= 0
    <3>1. n \in Int
      BY <1>0, <2>1, SignedReads
    <3>2. n \in Nat
      BY <2>1, <3>1
    <3> QED BY <3>2, WideSurvives
  <2>2. CASE n = Capacity(8) - 1
    <3>1. n \in Nat
      BY <2>2, Capacities
    <3> QED BY <3>1, WideSurvives
  <2> QED BY <2>1, <2>2
<1>7. ASSUME NEW n \in Micros PROVE Survives([type |-> "time", v |-> n], format, z)
  BY <1>0, TimeSurvives
<1>8. ASSUME NEW v \in Limited(0..(ByteBase - 1))
      PROVE Survives([type |-> "bytes", v |-> v], format, z)
  <2> DEFINE S == 0..(ByteBase - 1)
  <2> HIDE DEF S
  <2>1. v \in Seq(S)
    BY LimitedIsSeq DEF S
  <2> QED BY <2>1, BytesSurvive DEF S
<1>9. ASSUME NEW v \in Limited(Limited(Chars))
      PROVE Survives([type |-> "strings", v |-> v], format, z)
  <2>1. v \in Seq(Limited(Chars))
    BY LimitedIsSeq
  <2>2. \A t \in Limited(Chars) : t \in Seq(Chars)
    BY LimitedIsSeq
  <2>3. v \in Seq(Seq(Chars))
    BY <2>1, <2>2
  <2> QED BY <2>3, StringsSurvive
<1>10. ASSUME NEW v \in Limited(Int32s)
       PROVE Survives([type |-> "int32s", v |-> v], format, z)
  <2>1. v \in Seq(Int32s)
    BY LimitedIsSeq
  <2> QED BY <2>1, IntegersSurvive
<1>11. ASSUME NEW v \in Limited(Int64s)
       PROVE Survives([type |-> "int64s", v |-> v], format, z)
  <2>1. v \in Seq(Int64s)
    BY LimitedIsSeq
  <2> QED BY <2>1, IntegersSurvive
<1>12. \A b \in BOOLEAN : Survives([type |-> "bool", v |-> b], format, z)
  BY BoolSurvives
<1>13. \A t : Survives([type |-> "string", v |-> t], format, z)
  BY StringSurvives
<1>14. \/ \E n \in Int16s : value = [type |-> "int16", v |-> n]
       \/ \E n \in Int32s : value = [type |-> "int32", v |-> n]
       \/ \E n \in Int64s : value = [type |-> "int64", v |-> n]
       \/ \E n \in 0..(Capacity(2) - 1) : value = [type |-> "uint16", v |-> n]
       \/ \E n \in 0..(Capacity(4) - 1) : value = [type |-> "uint32", v |-> n]
       \/ \E n \in {m \in Int64s : m >= 0} \cup {Capacity(8) - 1} :
             value = [type |-> "uint64", v |-> n]
       \/ \E b \in BOOLEAN : value = [type |-> "bool", v |-> b]
       \/ \E n \in Micros : value = [type |-> "time", v |-> n]
       \/ \E t \in Limited(0..(ByteBase - 1)) : value = [type |-> "bytes", v |-> t]
       \/ \E t : value = [type |-> "string", v |-> t]
       \/ \E t \in Limited(Int32s) : value = [type |-> "int32s", v |-> t]
       \/ \E t \in Limited(Int64s) : value = [type |-> "int64s", v |-> t]
       \/ \E t \in Limited(Limited(Chars)) : value = [type |-> "strings", v |-> t]
  BY DEF Values
<1> QED BY <1>1, <1>2, <1>3, <1>4, <1>5, <1>6, <1>7, <1>8, <1>9, <1>10, <1>11, <1>12,
          <1>13, <1>14

---------------------------------------------------------------------------
\* The messages of a request.

\* A count that fits its field is read back; one that does not reads as a smaller one.
LEMMA Counts ==
    ASSUME NEW n \in Nat
    PROVE  /\ Word(n) = [field |-> "word", n |-> n % Words]
           /\ n % Words \in Nat
           /\ n < Words => n % Words = n
           /\ n >= Words => n % Words < n
<1>1. Words \in Nat \ {0}
  BY ExtendedAssumption DEF ExtendedAssumption
<1>2. n % Words \in 0..(Words - 1) /\ (n < Words => n % Words = n)
  BY <1>1
<1> QED BY <1>1, <1>2 DEF Word

\* A Parse message is accepted if its count fits its field, and then declares the types.
LEMMA ParseReads ==
    ASSUME NEW S, NEW params \in Seq(S)
    PROVE  LET fields == ParseFields(params)
               n == Len(params)
           IN  /\ Len(fields) = 1 + n
               /\ (Len(fields) = 1 + fields[1].n) = (n < Words)
               /\ n < Words => Types(fields) =
                     [i \in 1..n |-> IF params[i].oid = "UNSPECIFIED" THEN "TEXT"
                                     ELSE params[i].oid]
<1> DEFINE n == Len(params)
           head == <<Word(n)>>
           rest == [i \in DOMAIN params |-> Value(params[i].oid)]
           fields == ParseFields(params)
           Fields == {Word(n)} \cup {Value(params[i].oid) : i \in 1..n}
<1>1. n \in Nat /\ DOMAIN params = 1..n
  OBVIOUS
<1> HIDE DEF n
<1>2. head \in Seq(Fields) /\ Len(head) = 1 /\ head[1] = Word(n)
  OBVIOUS
<1>3. rest \in Seq(Fields) /\ Len(rest) = n /\ \A i \in 1..n : rest[i] = Value(params[i].oid)
  <2>1. rest = [i \in 1..n |-> rest[i]]
    BY <1>1
  <2>2. \A i \in 1..n : rest[i] = Value(params[i].oid)
    BY <1>1
  <2>3. \A i \in 1..n : rest[i] \in Fields
    BY <2>2
  <2> HIDE DEF rest, Fields
  <2> QED BY <1>1, <2>1, <2>2, <2>3, IsSequence
<1>4. fields = head \o rest
  BY DEF ParseFields, n
<1> HIDE DEF head, rest, fields, Fields
<1>5. Joined(fields, head, rest, Fields)
  BY <1>2, <1>3, <1>4, Joining
<1>6. Len(fields) = 1 + n /\ fields[1] = Word(n)
      /\ \A i \in 1..n : fields[i + 1] = Value(params[i].oid)
  <2>1. Len(fields) = 1 + n /\ \A i \in 1..n : fields[i + 1] = Value(params[i].oid)
    BY <1>2, <1>3, <1>5 DEF Joined
  <2>2. fields[1] = head[1]
    BY <1>2, <1>5 DEF Joined
  <2> QED BY <1>2, <2>1, <2>2
<1>7. fields[1].n = n % Words /\ n % Words \in Nat
      /\ (n < Words => n % Words = n) /\ (n >= Words => n % Words < n)
      /\ Words \in Nat
  <2>1. /\ Word(n) = [field |-> "word", n |-> n % Words] /\ n % Words \in Nat
        /\ (n < Words => n % Words = n) /\ (n >= Words => n % Words < n)
    BY <1>1, Counts
  <2>2. fields[1].n = n % Words
    BY <1>6, <2>1
  <2>3. Words \in Nat
    BY ExtendedAssumption DEF ExtendedAssumption
  <2> QED BY <2>1, <2>2, <2>3
<1>8. (Len(fields) = 1 + fields[1].n) = (n < Words)
  <2> DEFINE m == n % Words
  <2>1. m \in Nat /\ (n < Words => m = n) /\ (n >= Words => m < n)
    BY <1>7
  <2> HIDE DEF m
  <2>2. (1 + n = 1 + m) = (n < Words)
    BY <1>1, <1>7, <2>1
  <2> QED BY <1>6, <1>7, <2>2 DEF m
<1>9. ASSUME n < Words
      PROVE  Types(fields) = [i \in 1..n |-> IF params[i].oid = "UNSPECIFIED" THEN "TEXT"
                                             ELSE params[i].oid]
  <2>1. fields[1].n = n
    BY <1>7, <1>9
  <2>2. ASSUME NEW i \in 1..n PROVE fields[i + 1].p = params[i].oid
    <3>1. fields[i + 1] = Value(params[i].oid)
      BY <1>6
    <3> QED BY <3>1 DEF Value
  <2> QED BY <2>1, <2>2 DEF Types
<1> QED BY <1>6, <1>8, <1>9 DEF fields, n

\* Where the fields of a Bind message are.
LEMMA BindPlaces ==
    ASSUME NEW S, NEW params \in Seq(S), NEW format
    PROVE  LET fields == BindFields(params, format)
               n == Len(params)
           IN  /\ Len(fields) = 4 + 2 * n
               /\ fields[1] = Word(n)
               /\ \A i \in 1..n : fields[1 + i] = Word(0)
               /\ fields[2 + n] = Word(n)
               /\ \A i \in 1..n : fields[2 + n + i] = Value(params[i])
<1> DEFINE n == Len(params)
           counted == <<Word(n)>>
           texts == [i \in DOMAIN params |-> Word(0)]
           values == [i \in DOMAIN params |-> Value(params[i])]
           result == <<Word(1), Word(format)>>
           fields == BindFields(params, format)
           Fields == {Word(n), Word(0), Word(1), Word(format)} \cup {Value(params[i]) : i \in 1..n}
           two == counted \o texts
           three == two \o counted
           four == three \o values
<1>1. n \in Nat /\ DOMAIN params = 1..n
  OBVIOUS
<1> HIDE DEF n
<1>2. counted \in Seq(Fields) /\ Len(counted) = 1 /\ counted[1] = Word(n)
  OBVIOUS
<1>3. result \in Seq(Fields) /\ Len(result) = 2
  OBVIOUS
<1>4. texts \in Seq(Fields) /\ Len(texts) = n /\ \A i \in 1..n : texts[i] = Word(0)
  <2>1. texts = [i \in 1..n |-> texts[i]] /\ \A i \in 1..n : texts[i] = Word(0)
    BY <1>1
  <2>2. \A i \in 1..n : texts[i] \in Fields
    BY <2>1
  <2> HIDE DEF texts, Fields
  <2> QED BY <1>1, <2>1, <2>2, IsSequence
<1>5. values \in Seq(Fields) /\ Len(values) = n /\ \A i \in 1..n : values[i] = Value(params[i])
  <2>1. values = [i \in 1..n |-> values[i]] /\ \A i \in 1..n : values[i] = Value(params[i])
    BY <1>1
  <2>2. \A i \in 1..n : values[i] \in Fields
    BY <2>1
  <2> HIDE DEF values, Fields
  <2> QED BY <1>1, <2>1, <2>2, IsSequence
<1>6. fields = four \o result /\ four = three \o values /\ three = two \o counted
      /\ two = counted \o texts
  BY DEF BindFields, n
<1> HIDE DEF counted, texts, values, result, fields, Fields, two, three, four
<1>7. Joined(two, counted, texts, Fields)
  BY <1>2, <1>4, <1>6, Joining
<1>8. /\ two \in Seq(Fields) /\ Len(two) = 1 + n /\ two[1] = Word(n)
      /\ \A i \in 1..n : two[1 + i] = Word(0)
  <2>1. two \in Seq(Fields) /\ Len(two) = 1 + n /\ two[1] = counted[1]
    BY <1>1, <1>2, <1>4, <1>7 DEF Joined
  <2>2. ASSUME NEW i \in 1..n PROVE two[1 + i] = Word(0)
    <3>1. two[i + Len(counted)] = texts[i] /\ i + Len(counted) = 1 + i
      BY <1>1, <1>2, <1>4, <1>7 DEF Joined
    <3> QED BY <1>4, <3>1
  <2> QED BY <1>2, <2>1, <2>2
<1>9. Joined(three, two, counted, Fields)
  BY <1>2, <1>6, <1>8, Joining
<1>10. /\ three \in Seq(Fields) /\ Len(three) = 2 + n /\ three[2 + n] = Word(n)
       /\ \A i \in 1..(1 + n) : three[i] = two[i]
  <2>1. three \in Seq(Fields) /\ Len(three) = 2 + n
        /\ \A i \in 1..(1 + n) : three[i] = two[i]
    BY <1>1, <1>2, <1>8, <1>9 DEF Joined
  <2>2. three[2 + n] = counted[1]
    <3>1. three[1 + Len(two)] = counted[1] /\ 1 + Len(two) = 2 + n
      BY <1>1, <1>2, <1>8, <1>9 DEF Joined
    <3> QED BY <3>1
  <2> QED BY <1>2, <2>1, <2>2
<1>11. Joined(four, three, values, Fields)
  BY <1>5, <1>6, <1>10, Joining
<1>12. /\ four \in Seq(Fields) /\ Len(four) = 2 + n + n
       /\ \A i \in 1..(2 + n) : four[i] = three[i]
       /\ \A i \in 1..n : four[2 + n + i] = Value(params[i])
  <2>1. four \in Seq(Fields) /\ Len(four) = 2 + n + n
        /\ \A i \in 1..(2 + n) : four[i] = three[i]
    BY <1>1, <1>5, <1>10, <1>11 DEF Joined
  <2>2. ASSUME NEW i \in 1..n PROVE four[2 + n + i] = Value(params[i])
    <3>1. four[i + Len(three)] = values[i] /\ i + Len(three) = 2 + n + i
      BY <1>1, <1>5, <1>10, <1>11 DEF Joined
    <3> QED BY <1>5, <3>1
  <2> QED BY <2>1, <2>2
<1>13. Joined(fields, four, result, Fields)
  BY <1>3, <1>6, <1>12, Joining
<1>14. Len(fields) = 4 + 2 * n /\ \A i \in 1..(2 + n + n) : fields[i] = four[i]
  BY <1>1, <1>3, <1>12, <1>13 DEF Joined
<1>15. \A i \in 1..(2 + n) : fields[i] = three[i]
  BY <1>1, <1>12, <1>14
<1>16. \A i \in 1..(1 + n) : fields[i] = two[i]
  BY <1>1, <1>10, <1>15
<1>17. fields[1] = Word(n) /\ fields[2 + n] = Word(n)
  BY <1>1, <1>8, <1>10, <1>15, <1>16
<1>18. ASSUME NEW i \in 1..n
       PROVE  fields[1 + i] = Word(0) /\ fields[2 + n + i] = Value(params[i])
  <2>1. 1 + i \in 1..(1 + n) /\ 2 + n + i \in 1..(2 + n + n)
    BY <1>1
  <2> QED BY <1>8, <1>12, <1>14, <1>16, <2>1
<1> QED BY <1>14, <1>17, <1>18 DEF fields, n

\* A Bind message is well formed exactly if the count of the parameters fits its field,
\* and then has the parameters, the NULLs among them.
LEMMA BindReads ==
    ASSUME NEW S, NEW params \in Seq(S), NEW format
    PROVE  LET bind == Bound(BindFields(params, format))
           IN  /\ bind.ok = (Len(params) < Words)
               /\ Len(params) < Words => bind.params = params
<1> DEFINE n == Len(params)
           fields == BindFields(params, format)
           m == n % Words
           found == fields[2 + m].n
           whole == /\ 2 + m <= Len(fields) /\ fields[2 + m].field = "word"
                    /\ Len(fields) = 4 + m + found
                    /\ \A i \in 3 + m .. 2 + m + found : fields[i].field = "value"
           bind == Bound(fields)
<1>1. n \in Nat /\ params = [i \in 1..n |-> params[i]]
  OBVIOUS
<1>2. /\ Len(fields) = 4 + 2 * n /\ fields[1] = Word(n)
      /\ \A i \in 1..n : fields[1 + i] = Word(0)
      /\ fields[2 + n] = Word(n)
      /\ \A i \in 1..n : fields[2 + n + i] = Value(params[i])
  BY BindPlaces
<1> HIDE DEF fields, n
<1>3. fields[1].n = m /\ m \in Nat /\ (n < Words => m = n) /\ (n >= Words => m < n)
      /\ Words \in Nat \ {0}
  <2>1. /\ Word(n) = [field |-> "word", n |-> m] /\ m \in Nat
        /\ (n < Words => m = n) /\ (n >= Words => m < n)
    BY <1>1, Counts
  <2>2. fields[1].n = m
    BY <1>2, <2>1
  <2>3. Words \in Nat \ {0}
    BY ExtendedAssumption DEF ExtendedAssumption
  <2> QED BY <2>1, <2>2, <2>3
<1> HIDE DEF m
<1>4. bind = IF whole THEN [ok |-> TRUE, params |-> [i \in 1..found |-> fields[2 + m + i].p]]
             ELSE [ok |-> FALSE, params |-> <<>>]
  BY <1>3 DEF Bound
<1> HIDE DEF whole, bind
<1>5. CASE n < Words
  <2>1. m = n /\ found = n /\ fields[2 + m].field = "word"
    <3>1. m = n
      BY <1>3, <1>5
    <3>2. fields[2 + m] = [field |-> "word", n |-> m]
      <4>1. Word(n) = [field |-> "word", n |-> n % Words] /\ n % Words = n
        BY <1>1, <1>5, Counts
      <4> QED BY <1>2, <3>1, <4>1
    <3> QED BY <3>1, <3>2
  <2> HIDE DEF found
  <2>2. ASSUME NEW i \in 1..n
        PROVE  fields[2 + m + i].field = "value" /\ fields[2 + m + i].p = params[i]
    <3>1. fields[2 + n + i] = Value(params[i])
      BY <1>2
    <3> QED BY <2>1, <3>1 DEF Value
  <2>3. ASSUME NEW i \in 3 + m .. 2 + m + found PROVE fields[i].field = "value"
    <3> DEFINE j == i - (2 + m)
    <3>1. j \in 1..n /\ i = 2 + m + j
      <4>1. i \in 3 + n .. 2 + n + n
        BY <2>1
      <4>2. n \in Nat /\ m = n
        BY <1>1, <2>1
      <4> QED BY <4>1, <4>2
    <3> HIDE DEF j
    <3>2. fields[2 + m + j].field = "value"
      BY <2>2, <3>1
    <3> QED BY <3>1, <3>2
  <2>4. 2 + m <= Len(fields) /\ Len(fields) = 4 + m + found
    BY <1>1, <1>2, <2>1
  <2>5. whole
    BY <2>1, <2>3, <2>4 DEF whole
  <2>6. bind.ok /\ bind.params = [i \in 1..found |-> fields[2 + m + i].p]
    BY <1>4, <2>5
  <2>7. bind.params = params
    BY <1>1, <2>1, <2>2, <2>6
  <2> QED BY <1>5, <2>6, <2>7 DEF bind, fields, n
<1>6. CASE ~(n < Words)
  <2>1. m < n
    BY <1>1, <1>3, <1>6
  <2>2. fields[2 + m] = Word(0)
    <3>1. m + 1 \in 1..n /\ 1 + (m + 1) = 2 + m
      BY <1>1, <1>3, <2>1
    <3> QED BY <1>2, <3>1
  <2>3. found = 0
    <3>1. 0 % Words = 0
      BY <1>3
    <3> QED BY <2>2, <3>1 DEF Word
  <2>4. ~whole
    BY <1>1, <1>2, <1>3, <2>1, <2>3 DEF whole
  <2>5. bind.ok = FALSE
    BY <1>4, <2>4
  <2>6. (n < Words) = FALSE
    BY <1>6
  <2>7. bind.ok = (n < Words) /\ (n < Words => bind.params = params)
    BY <2>5, <2>6
  <2> QED BY <2>7 DEF bind, fields, n
<1> QED BY <1>5, <1>6

---------------------------------------------------------------------------
\* The invariant.

Null == [type |-> "null"]

\* A request is one that an application sets.
Sent ==
    /\ req.given \in Given /\ req.format \in Formats
    /\ req.params = Params(req.given)

\* The reply to a request has a cell for each of its parameters, of the type it has in the
\* statement: for one that was not prepared before, the type of the value.
Served ==
    LET given == req.given.params IN
    /\ reply.tag = Tag(req.given.stmt, 1)
    /\ reply.row = Row(reply.oids, req.params, req.format)
    /\ req.given.name = "" =>
          \A i \in DOMAIN given :
             given[i].type # "null" => reply.oids[i] = Oid(given[i].type)

\* Prepared statements have parameters of the types of the values that named requests
\* have; what a request and its reply are made of.
SessionInv ==
    /\ zone \in Int
    /\ prepared \in [Names -> Seq({"BOOL", "TEXT"}) \cup {Unprepared}]
    /\ pc \in {"idle", "sent", "read"}
    /\ pc \in {"sent", "read"} => Sent
    /\ pc = "read" => reply.error \in BOOLEAN /\ (Ok => Served)

\* What a request that an application sets is like.
LEMMA GivenFacts ==
    ASSUME NEW g \in Given
    PROVE  /\ g.params \in Seq(Values \cup {Null})
           /\ g.name \in Names \cup {""} /\ g.skip \in BOOLEAN
           /\ g.stmt \in {"SELECT", "INSERT", "CREATE"}
           /\ g.skip => g.name # ""
           /\ g.name # "" => \A i \in DOMAIN g.params : g.params[i] \in {Null, Bool}
<1> DEFINE S == Values \cup {Null}
<1>0. Bool \in Values
  BY DEF Bool, Values
<1>1. \/ \E v \in Values :
            g = [params |-> <<v>>, name |-> "", skip |-> FALSE, stmt |-> "SELECT"]
      \/ /\ \E n \in 0..MaxParams, k \in 0..MaxParams :
               g.params = List(n, k)
         /\ g.name \in Names \cup {""} /\ g.skip \in BOOLEAN
         /\ g.stmt \in {"SELECT", "INSERT", "CREATE"}
         /\ g.skip => g.name # ""
  <2>1. \/ \E v \in Values :
              g = [params |-> <<v>>, name |-> "", skip |-> FALSE, stmt |-> "SELECT"]
        \/ /\ g.params \in Lists
           /\ g.name \in Names \cup {""} /\ g.skip \in BOOLEAN
           /\ g.stmt \in {"SELECT", "INSERT", "CREATE"}
           /\ g.skip => g.name # ""
    BY DEF Given
  <2> QED BY <2>1 DEF Lists
<1>2. CASE \E v \in Values :
             g = [params |-> <<v>>, name |-> "", skip |-> FALSE, stmt |-> "SELECT"]
  <2>1. PICK v \in Values :
           g = [params |-> <<v>>, name |-> "", skip |-> FALSE, stmt |-> "SELECT"]
    BY <1>2
  <2>2. g.params = <<v>> /\ g.name = "" /\ g.skip = FALSE /\ g.stmt = "SELECT"
    BY <2>1
  <2>3. <<v>> \in Seq(S)
    OBVIOUS
  <2> QED BY <2>2, <2>3
<1>3. CASE /\ \E n \in 0..MaxParams, k \in 0..MaxParams :
                g.params = List(n, k)
           /\ g.name \in Names \cup {""} /\ g.skip \in BOOLEAN
           /\ g.stmt \in {"SELECT", "INSERT", "CREATE"}
           /\ g.skip => g.name # ""
  <2>1. PICK n \in 0..MaxParams, k \in 0..MaxParams : g.params = List(n, k)
    BY <1>3
  <2>2. n \in Nat
    BY ExtendedAssumption DEF ExtendedAssumption
  <2> DEFINE ps == g.params
  <2>3. ps = [i \in 1..n |-> ps[i]] /\ \A i \in 1..n : ps[i] \in {Null, Bool}
    BY <2>1 DEF Null, List
  <2> HIDE DEF ps
  <2>4. \A i \in 1..n : ps[i] \in S
    BY <1>0, <2>3
  <2> HIDE DEF S
  <2>5. ps \in Seq(S) /\ DOMAIN ps = 1..n
    BY <2>2, <2>3, <2>4, IsSequence
  <2>6. g.params \in Seq(S) /\ \A i \in DOMAIN g.params : g.params[i] \in {Null, Bool}
    BY <2>3, <2>5 DEF ps
  <2> QED BY <1>3, <2>6 DEF S
<1> QED BY <1>1, <1>2, <1>3

\* What params_ has for a value.
LEMMA ParameterFacts ==
    ASSUME NEW v \in Values \cup {Null}
    PROVE  IF v.type = "null"
           THEN Parameter(v).is_null /\ Parameter(v).oid = "UNSPECIFIED"
           ELSE /\ v \in Values /\ ~Parameter(v).is_null
                /\ Parameter(v).oid = Oid(v.type) /\ Oid(v.type) \notin {"none", "UNSPECIFIED"}
                /\ In(Oid(v.type), Parameter(v).data).ok
<1>1. CASE v = Null
  <2>1. v.type = "null"
    BY <1>1 DEF Null
  <2>2. Parameter(v) = [is_null |-> TRUE, oid |-> "UNSPECIFIED", data |-> 0]
    <3>1. v.type \notin Ints \cup {"int32s", "int64s"}
      BY <2>1 DEF Ints
    <3> QED BY <2>1, <3>1 DEF Parameter
  <2> QED BY <2>1, <2>2
<1>2. CASE v \in Values
  <2>1. "text" \in Formats /\ 0 \in Int
    BY DEF Formats
  <2>2. Survives(v, "text", 0)
    BY <1>2, <2>1, ValueSurvives
  <2>3. v.type # "null"
    BY <1>2 DEF Values
  <2> QED BY <1>2, <2>2, <2>3 DEF Survives
<1> QED BY <1>1, <1>2

\* params_ of a request.
LEMMA ParamsFacts ==
    ASSUME NEW g \in Given
    PROVE  LET given == g.params
               params == Params(g)
               n == Len(given)
           IN  /\ n \in Nat /\ DOMAIN given = 1..n /\ DOMAIN params = 1..n /\ Len(params) = n
               /\ \E S : params \in Seq(S)
               /\ \A i \in 1..n : given[i] \in Values \cup {Null}
                                  /\ params[i] = Parameter(given[i])
<1> DEFINE given == g.params
           params == Params(g)
           n == Len(given)
           S == {Parameter(v) : v \in Values \cup {Null}}
<1>1. n \in Nat /\ DOMAIN given = 1..n /\ \A i \in 1..n : given[i] \in Values \cup {Null}
  <2>1. given \in Seq(Values \cup {Null})
    BY GivenFacts
  <2> HIDE DEF given
  <2> QED BY <2>1
<1>2. params = [i \in 1..n |-> Parameter(given[i])]
  BY <1>1 DEF Params
<1> HIDE DEF given, params, n
<1>3. params = [i \in 1..n |-> params[i]] /\ \A i \in 1..n : params[i] \in S
  BY <1>1, <1>2
<1> HIDE DEF S
<1>4. params \in Seq(S) /\ Len(params) = n /\ DOMAIN params = 1..n
  BY <1>1, <1>3, IsSequence
<1>5. \A i \in 1..n : params[i] = Parameter(given[i])
  BY <1>2
<1> QED BY <1>1, <1>4, <1>5 DEF given, params, n

\* Bool and Null are declared as BOOL, or left open.
LEMMA NamedTypes ==
    ASSUME NEW v \in {Null, Bool}
    PROVE  (IF Parameter(v).oid = "UNSPECIFIED" THEN "TEXT" ELSE Parameter(v).oid)
              \in {"BOOL", "TEXT"}
<1>1. Null \in Values \cup {Null} /\ Bool \in Values \cup {Null}
      /\ Null.type = "null" /\ Bool.type = "bool"
  BY DEF Null, Bool, Values
<1>2. Parameter(Null).oid = "UNSPECIFIED"
  BY <1>1, ParameterFacts
<1>3. Parameter(Bool).oid = "BOOL"
  <2>1. Parameter(Bool).oid = Oid("bool")
    BY <1>1, ParameterFacts
  <2> QED BY <2>1 DEF Oid
<1> QED BY <1>2, <1>3

\* What the backend makes of the messages of a request: it takes the Bind, and a Parse
\* with a free name, if the count of the parameters fits its field; the Parse then
\* declares the type of each value that is not NULL, a type that can take its text.
LEMMA RequestFacts ==
    ASSUME NEW g \in Given, NEW format
    PROVE  LET n == Len(g.params)
               params == Params(g)
               parse == ParseFields(params)
               bind == Bound(BindFields(params, format))
           IN  /\ bind.ok = (n < Words)
               /\ n < Words => bind.params = params
               /\ ParseOk(parse, g.name) =
                     (n < Words /\ (g.name = "" \/ prepared[g.name] = Unprepared))
               /\ n < Words =>
                     /\ DOMAIN Types(parse) = 1..n /\ Len(Types(parse)) = n
                     /\ Types(parse) # Unprepared
                     /\ \A i \in 1..n :
                           \/ params[i].is_null
                           \/ /\ Types(parse)[i] = Oid(g.params[i].type)
                              /\ In(Types(parse)[i], params[i].data).ok
                     /\ g.name # "" => Types(parse) \in Seq({"BOOL", "TEXT"})
<1> DEFINE n == Len(g.params)
           params == Params(g)
           parse == ParseFields(params)
           bind == Bound(BindFields(params, format))
           types == Types(parse)
           type(i) == IF params[i].oid = "UNSPECIFIED" THEN "TEXT" ELSE params[i].oid
<1>1. /\ n \in Nat /\ DOMAIN g.params = 1..n /\ DOMAIN params = 1..n /\ Len(params) = n
      /\ \E S : params \in Seq(S)
      /\ \A i \in 1..n : g.params[i] \in Values \cup {Null} /\ params[i] = Parameter(g.params[i])
  BY ParamsFacts
<1> HIDE DEF n, params
<1>2. PICK S : params \in Seq(S)
  BY <1>1
<1>3. bind.ok = (n < Words) /\ (n < Words => bind.params = params)
  BY <1>1, <1>2, BindReads
<1>4. /\ Len(parse) = 1 + n /\ (Len(parse) = 1 + parse[1].n) = (n < Words)
      /\ n < Words => types = [i \in 1..n |-> type(i)]
  BY <1>1, <1>2, ParseReads
<1> HIDE DEF parse, bind, types
<1>5. ParseOk(parse, g.name)
      = (n < Words /\ (g.name = "" \/ prepared[g.name] = Unprepared))
  BY <1>4 DEF ParseOk
<1>6. ASSUME n < Words
      PROVE  /\ DOMAIN types = 1..n /\ Len(types) = n /\ types # Unprepared
             /\ \A i \in 1..n :
                   \/ params[i].is_null
                   \/ types[i] = Oid(g.params[i].type) /\ In(types[i], params[i].data).ok
             /\ g.name # "" => types \in Seq({"BOOL", "TEXT"})
  <2>1. types = [i \in 1..n |-> types[i]] /\ DOMAIN types = 1..n
        /\ \A i \in 1..n : types[i] = type(i)
    BY <1>4, <1>6
  <2> DEFINE T == {types[i] : i \in 1..n}
  <2>2. types \in Seq(T) /\ Len(types) = n
    <3>1. \A i \in 1..n : types[i] \in T
      OBVIOUS
    <3> HIDE DEF T
    <3> QED BY <1>1, <2>1, <3>1, IsSequence
  <2>3. ASSUME NEW i \in 1..n
        PROVE  /\ types[i] # "none"
               /\ \/ params[i].is_null
                  \/ types[i] = Oid(g.params[i].type) /\ In(types[i], params[i].data).ok
    <3> DEFINE v == g.params[i]
    <3>1. v \in Values \cup {Null} /\ params[i] = Parameter(v) /\ types[i] = type(i)
      BY <1>1, <2>1
    <3> HIDE DEF v
    <3>2. CASE v.type = "null"
      <4>1. Parameter(v).is_null /\ Parameter(v).oid = "UNSPECIFIED"
        BY <3>1, <3>2, ParameterFacts
      <4> QED BY <3>1, <4>1
    <3>3. CASE v.type # "null"
      <4>1. /\ Parameter(v).oid = Oid(v.type) /\ Oid(v.type) \notin {"none", "UNSPECIFIED"}
            /\ In(Oid(v.type), Parameter(v).data).ok
        BY <3>1, <3>3, ParameterFacts
      <4>2. types[i] = Oid(v.type)
        BY <3>1, <4>1
      <4> QED BY <3>1, <4>1, <4>2 DEF v
    <3> QED BY <3>2, <3>3
  <2>4. types # Unprepared
    <3>1. ASSUME types = Unprepared PROVE FALSE
      <4>1. DOMAIN types = 1..1 /\ types[1] = "none"
        BY <3>1 DEF Unprepared
      <4>2. 1 \in 1..n
        BY <2>1, <4>1
      <4> QED BY <2>3, <4>1, <4>2
    <3> QED BY <3>1
  <2>5. ASSUME g.name # "" PROVE types \in Seq({"BOOL", "TEXT"})
    <3>1. ASSUME NEW i \in 1..n PROVE types[i] \in {"BOOL", "TEXT"}
      <4>1. g.params[i] \in {Null, Bool}
        BY <1>1, <2>5, GivenFacts
      <4>2. type(i) \in {"BOOL", "TEXT"}
        BY <1>1, <4>1, NamedTypes
      <4> QED BY <2>1, <4>2
    <3> QED BY <1>1, <2>1, <3>1, IsSequence
  <2> QED BY <2>1, <2>2, <2>3, <2>4, <2>5
<1> QED BY <1>3, <1>5, <1>6 DEF n, params, parse, bind, types

---------------------------------------------------------------------------
\* The steps.

\* Why a request may be refused.
Cause(g) ==
    \/ Len(g.params) >= Words
    \/ ~g.skip /\ g.name # "" /\ prepared[g.name] # Unprepared
    \/ g.skip /\ (prepared[g.name] = Unprepared \/ Len(prepared[g.name]) # Len(g.params))

\* A request is refused for a cause, or served; the names it prepares have the types of
\* named requests.
LEMMA ServeFacts ==
    ASSUME SessionInv, Serve
    PROVE  /\ reply'.error \in BOOLEAN
           /\ reply'.error => Cause(req.given)
           /\ ~reply'.error => Served'
           /\ prepared' \in [Names -> Seq({"BOOL", "TEXT"}) \cup {Unprepared}]
<1> DEFINE g == req.given
           n == Len(g.params)
           params == Params(g)
           parse == ParseFields(params)
           bind == Bound(BindFields(params, IF req.format = "binary" THEN 1 ELSE 0))
           types == Types(parse)
           parsed == g.skip \/ ParseOk(parse, g.name)
           oids == IF g.skip THEN prepared[g.name] ELSE types
           runs == /\ parsed /\ bind.ok /\ oids # Unprepared /\ Len(oids) = Len(bind.params)
                   /\ \A i \in DOMAIN oids :
                         bind.params[i].is_null \/ In(oids[i], bind.params[i].data).ok
           served == [error |-> FALSE, oids |-> oids,
                      row |-> Row(oids, bind.params, req.format), tag |-> Tag(g.stmt, 1)]
           Stmts == Seq({"BOOL", "TEXT"})
<1>1. /\ pc = "sent" /\ g \in Given /\ req.params = params
      /\ prepared \in [Names -> Stmts \cup {Unprepared}]
  BY DEF Serve, SessionInv, Sent
<1>2. /\ prepared' = IF parsed /\ ~g.skip /\ g.name # ""
                     THEN [prepared EXCEPT ![g.name] = oids] ELSE prepared
      /\ reply' = IF runs THEN served ELSE [error |-> TRUE]
      /\ zone' = zone /\ req' = req
  BY <1>1 DEF Serve
<1>3. /\ bind.ok = (n < Words)
      /\ n < Words => bind.params = params
      /\ ParseOk(parse, g.name) = (n < Words /\ (g.name = "" \/ prepared[g.name] = Unprepared))
      /\ n < Words =>
            /\ DOMAIN types = 1..n /\ Len(types) = n /\ types # Unprepared
            /\ \A i \in 1..n :
                  \/ params[i].is_null
                  \/ types[i] = Oid(g.params[i].type) /\ In(types[i], params[i].data).ok
            /\ g.name # "" => types \in Stmts
  BY <1>1, RequestFacts
<1>4. /\ n \in Nat /\ DOMAIN g.params = 1..n /\ DOMAIN params = 1..n /\ Len(params) = n
      /\ \A i \in 1..n : g.params[i] \in Values \cup {Null} /\ params[i] = Parameter(g.params[i])
  BY <1>1, ParamsFacts
<1>5. /\ g.name \in Names \cup {""} /\ g.skip \in BOOLEAN
      /\ (g.skip => g.name # "")
  BY <1>1, GivenFacts
<1>6. Words \in Nat \ {0}
  BY ExtendedAssumption DEF ExtendedAssumption
<1> HIDE DEF params, parse, bind, types, n, Stmts
<1>7. reply'.error = ~runs
  <2> HIDE DEF runs, served
  <2>1. CASE runs
    BY <1>2, <2>1 DEF served
  <2>2. CASE ~runs
    BY <1>2, <2>2
  <2> QED BY <2>1, <2>2
<1>8. ASSUME ~runs PROVE Cause(g)
  <2>1. SUFFICES ASSUME ~Cause(g) PROVE runs
    BY <1>8
  <2>2. /\ n < Words
        /\ (~g.skip /\ g.name # "" => prepared[g.name] = Unprepared)
        /\ (g.skip => prepared[g.name] # Unprepared /\ Len(prepared[g.name]) = n)
    <3>1. ~(n >= Words)
      BY <2>1 DEF Cause, n
    <3>2. n < Words
      BY <1>4, <1>6, <3>1
    <3> QED BY <1>5, <2>1, <3>2 DEF Cause, n
  <2>3. parsed /\ bind.ok /\ bind.params = params /\ Len(bind.params) = n
    BY <1>3, <1>4, <1>5, <2>2
  <2>4. CASE g.skip
    <3>1. oids \in Stmts /\ oids # Unprepared /\ Len(oids) = n
      BY <1>1, <1>5, <2>2, <2>4
    <3>2. ASSUME NEW i \in DOMAIN oids PROVE In(oids[i], bind.params[i].data).ok
      <4>1. oids[i] \in {"BOOL", "TEXT"}
        BY <3>1 DEF Stmts
      <4> QED BY <4>1 DEF In
    <3> QED BY <2>3, <3>1, <3>2
  <2>5. CASE ~g.skip
    <3>1. oids = types
      BY <2>5
    <3> QED BY <1>3, <2>2, <2>3, <3>1
  <2> QED BY <2>4, <2>5
<1>9. ASSUME runs PROVE Served'
  <2>1. reply' = served /\ n < Words /\ bind.params = params
    BY <1>2, <1>3, <1>9
  <2>2. reply'.oids = oids /\ reply'.row = Row(oids, params, req.format)
        /\ reply'.tag = Tag(g.stmt, 1)
    <3> HIDE DEF oids
    <3> QED BY <2>1
  <2>3. ASSUME g.name = "", NEW i \in DOMAIN g.params, g.params[i].type # "null"
        PROVE  oids[i] = Oid(g.params[i].type)
    <3>1. oids = types /\ i \in 1..n
      BY <1>4, <1>5, <2>3
    <3>2. ~params[i].is_null
      BY <1>4, <2>3, <3>1, ParameterFacts
    <3> QED BY <1>3, <2>1, <3>1, <3>2
  <2>4. reply'.row = [i \in DOMAIN params |->
                        IF params[i].is_null THEN NullCell(req.format)
                        ELSE Cell(oids[i], In(oids[i], params[i].data).datum, req.format, zone)]
    BY <2>2 DEF Row
  <2> HIDE DEF oids
  <2>5. reply'.row = Row(reply.oids, req.params, req.format)'
    BY <1>1, <1>2, <2>2, <2>4 DEF Row
  <2>6. (reply.tag = Tag(req.given.stmt, 1))'
    BY <1>2, <2>2 DEF Tag
  <2> QED BY <1>2, <2>2, <2>3, <2>5, <2>6 DEF Served
<1>10. prepared' \in [Names -> Stmts \cup {Unprepared}]
  <2>1. CASE parsed /\ ~g.skip /\ g.name # ""
    <3>1. g.name \in Names /\ oids \in Stmts
      BY <1>3, <1>5, <2>1
    <3> HIDE DEF oids
    <3> QED BY <1>1, <1>2, <2>1, <3>1
  <2>2. CASE ~(parsed /\ ~g.skip /\ g.name # "")
    BY <1>1, <1>2, <2>2
  <2> QED BY <2>1, <2>2
<1> QED BY <1>7, <1>8, <1>9, <1>10 DEF Stmts

\* The invariant of a session: what its prepared statements, its request and its reply
\* are made of (set_query, encode_extended_query and the backend's answer).
THEOREM SessionInvHolds == Spec => []SessionInv
<1>1. Init => SessionInv
  BY ExtendedAssumption DEF Init, SessionInv, ExtendedAssumption
<1>2. SessionInv /\ [Next]_vars => SessionInv'
  <2> SUFFICES ASSUME SessionInv, [Next]_vars PROVE SessionInv'
    OBVIOUS
  <2>1. CASE SetQuery
    <3>1. pc' = "sent" /\ zone' = zone /\ prepared' = prepared
      BY <2>1 DEF SetQuery
    <3>2. PICK g \in Given, f \in Formats :
             req' = [given |-> g, format |-> f, params |-> Params(g)]
      BY <2>1 DEF SetQuery, Formats
    <3>3. req'.given = g /\ req'.format = f /\ req'.params = Params(g)
      BY <3>2
    <3>4. Sent'
      <4>1. Params(req'.given) = Params(req.given)'
        BY DEF Params
      <4>2. req'.given \in Given' /\ req'.format \in Formats'
        BY <3>3
      <4> QED BY <3>3, <4>1, <4>2 DEF Sent
    <3> QED BY <3>1, <3>4 DEF SessionInv
  <2>2. CASE Serve
    <3>1. pc = "sent" /\ pc' = "read" /\ zone' = zone /\ req' = req
      BY <2>2 DEF Serve
    <3>2. /\ reply'.error \in BOOLEAN /\ (~reply'.error => Served')
          /\ prepared' \in [Names -> Seq({"BOOL", "TEXT"}) \cup {Unprepared}]
      BY <2>2, ServeFacts
    <3>3. Sent'
      BY <3>1 DEF SessionInv, Sent, Params
    <3> QED BY <3>1, <3>2, <3>3 DEF SessionInv, Ok
  <2>3. CASE Done
    BY <2>3 DEF Done, SessionInv
  <2>4. CASE UNCHANGED vars
    BY <2>4 DEF vars, SessionInv, Sent, Served, Params, Row, Ok
  <2> QED BY <2>1, <2>2, <2>3, <2>4 DEF Next
<1> QED BY <1>1, <1>2, PTL DEF Spec

\* What the cells of a reply are.
LEMMA RowFacts ==
    ASSUME SessionInv, pc = "read", Ok
    PROVE  LET n == Len(req.given.params) IN
           /\ n \in Nat /\ DOMAIN req.given.params = 1..n /\ Len(reply.row) = n
           /\ req.given \in Given /\ req.format \in Formats /\ zone \in Int
           /\ \A i \in 1..n :
                 LET value == req.given.params[i] IN
                 IF value.type = "null" THEN reply.row[i] = NullCell(req.format)
                 ELSE /\ value \in Values /\ req.params[i].oid = Oid(value.type)
                      /\ reply.oids[i] = Oid(value.type) =>
                            reply.row[i] = Answered(value, req.format, zone)
<1> DEFINE g == req.given
           n == Len(g.params)
           params == req.params
           cell(i) == IF params[i].is_null THEN NullCell(req.format)
                      ELSE Cell(reply.oids[i], In(reply.oids[i], params[i].data).datum,
                                req.format, zone)
           row == reply.row
<1>1. g \in Given /\ req.format \in Formats /\ zone \in Int /\ params = Params(g) /\ Served
  BY DEF SessionInv, Sent
<1>2. /\ n \in Nat /\ DOMAIN g.params = 1..n /\ DOMAIN params = 1..n
      /\ \A i \in 1..n : g.params[i] \in Values \cup {Null} /\ params[i] = Parameter(g.params[i])
  BY <1>1, ParamsFacts
<1> HIDE DEF n, params
<1>3. row = [i \in 1..n |-> cell(i)]
  BY <1>1, <1>2 DEF Served, Row, params
<1>4. Len(row) = n
  <2> DEFINE T == {cell(i) : i \in 1..n}
  <2>1. row = [i \in 1..n |-> row[i]] /\ \A i \in 1..n : row[i] \in T
    BY <1>3
  <2> HIDE DEF row, T
  <2> QED BY <1>2, <2>1, IsSequence
<1>5. ASSUME NEW i \in 1..n
      PROVE  LET value == g.params[i] IN
             IF value.type = "null" THEN row[i] = NullCell(req.format)
             ELSE /\ value \in Values /\ params[i].oid = Oid(value.type)
                  /\ reply.oids[i] = Oid(value.type) =>
                        row[i] = Answered(value, req.format, zone)
  <2> DEFINE value == g.params[i]
  <2>1. value \in Values \cup {Null} /\ params[i] = Parameter(value) /\ row[i] = cell(i)
    BY <1>2, <1>3
  <2> HIDE DEF value, row
  <2>2. CASE value.type = "null"
    <3>1. Parameter(value).is_null
      BY <2>1, <2>2, ParameterFacts
    <3> QED BY <2>1, <2>2, <3>1 DEF value
  <2>3. CASE value.type # "null"
    <3>1. value \in Values /\ ~Parameter(value).is_null /\ Parameter(value).oid = Oid(value.type)
      BY <2>1, <2>3, ParameterFacts
    <3>2. reply.oids[i] = Oid(value.type) => row[i] = Answered(value, req.format, zone)
      BY <2>1, <3>1 DEF Answered
    <3> QED BY <2>1, <2>3, <3>1, <3>2 DEF value
  <2> QED BY <2>2, <2>3
<1> QED BY <1>1, <1>2, <1>4, <1>5 DEF n, params

\* A value that goes through PostgresValue, the backend and the accessor of its type is
\* the value that was given, or errno is set, or the loss is a known one; a statement
\* that runs has all its parameters.
THEOREM ReadsWhatWasGivenHolds == Spec => []ReadsWhatWasGiven
<1>1. SessionInv => ReadsWhatWasGiven
  <2> SUFFICES ASSUME SessionInv, pc = "read", Ok
               PROVE  /\ Len(reply.row) = Len(req.given.params)
                      /\ \A i \in DOMAIN req.given.params :
                            LET value == req.given.params[i] IN
                            IF value.type = "null" THEN reply.row[i].is_null
                            ELSE \/ reply.oids[i] # req.params[i].oid
                                 \/ KnownLoss(value, req.format)
                                 \/ Reads(i).errno
                                 \/ Reads(i).v = value.v
    BY DEF ReadsWhatWasGiven
  <2>1. Len(reply.row) = Len(req.given.params)
    BY RowFacts
  <2>2. ASSUME NEW i \in DOMAIN req.given.params
        PROVE  LET value == req.given.params[i] IN
               IF value.type = "null" THEN reply.row[i].is_null
               ELSE \/ reply.oids[i] # req.params[i].oid
                    \/ KnownLoss(value, req.format)
                    \/ Reads(i).errno
                    \/ Reads(i).v = value.v
    <3> DEFINE value == req.given.params[i]
    <3>1. /\ req.format \in Formats /\ zone \in Int
          /\ IF value.type = "null" THEN reply.row[i] = NullCell(req.format)
             ELSE /\ value \in Values /\ req.params[i].oid = Oid(value.type)
                  /\ reply.oids[i] = Oid(value.type) =>
                        reply.row[i] = Answered(value, req.format, zone)
      BY RowFacts
    <3>2. CASE value.type = "null"
      <4>1. NullCell(req.format).is_null
        BY DEF NullCell
      <4> QED BY <3>1, <3>2, <4>1
    <3>3. CASE value.type # "null" /\ reply.oids[i] = req.params[i].oid
      <4>1. Survives(value, req.format, zone)
        BY <3>1, <3>3, ValueSurvives
      <4>2. Reads(i) = Access(value.type, Answered(value, req.format, zone))
        BY <3>1, <3>3 DEF Reads
      <4> HIDE DEF value
      <4>3. \/ KnownLoss(value, req.format)
            \/ Reads(i).errno
            \/ Reads(i).v = value.v
        BY <4>1, <4>2 DEF Survives
      <4> QED BY <3>3, <4>3 DEF value
    <3>4. CASE value.type # "null" /\ reply.oids[i] # req.params[i].oid
      BY <3>4
    <3> QED BY <3>2, <3>3, <3>4
  <2> QED BY <2>1, <2>2
<1> QED BY <1>1, SessionInvHolds, PTL

\* as_datetime gives the instant that was given, in UTC, whatever the format and the time
\* zone of the session, but one second before 1970.
THEOREM DatetimeIsUtcHolds == Spec => []DatetimeIsUtc
<1>1. SessionInv => DatetimeIsUtc
  <2> SUFFICES ASSUME SessionInv, pc = "read", Ok, NEW i \in DOMAIN req.given.params,
                      req.given.params[i].type = "time"
               PROVE  LET value == req.given.params[i]
                          tm == AsDatetime(reply.row[i])
                      IN  \/ tm.errno
                          \/ req.format = "text" /\ reply.row[i].data.sec = -1
                          \/ /\ tm.v.usec \in 0..(MicrosPerSecond - 1)
                             /\ tm.v.sec * MicrosPerSecond + tm.v.usec = value.v
    BY DEF DatetimeIsUtc
  <2> DEFINE value == req.given.params[i]
             in == In("TIMESTAMPTZ", TimeText(value.v))
             cell == Cell("TIMESTAMPTZ", in.datum, req.format, zone)
             tm == AsDatetime(cell)
             M == MicrosPerSecond
  <2>1. /\ req.given \in Given /\ req.format \in Formats /\ zone \in Int /\ value \in Values
        /\ reply.oids[i] = Oid("time") => reply.row[i] = Answered(value, req.format, zone)
    BY RowFacts
  <2>2. value.v \in Int
    <3>1. value.v \in Micros
      BY <2>1 DEF Values
    <3> QED BY <3>1, ExtendedAssumption DEF ExtendedAssumption
  <2>3. reply.oids[i] = Oid("time")
    <3>1. req.given.name = ""
      <4>1. value \notin {Null, Bool}
        BY DEF Null, Bool
      <4> QED BY <2>1, <4>1, GivenFacts
    <3> QED BY <3>1 DEF SessionInv, Served
  <2>4. reply.row[i] = cell
    <3>1. Oid("time") = "TIMESTAMPTZ"
      BY DEF Oid
    <3>2. Parameter(value).data = TimeText(value.v)
      <4>1. value.type \notin Ints \cup {"int32s", "int64s", "bool", "null", "string", "bytes"}
        BY DEF Ints
      <4> HIDE DEF value
      <4>2. value.type = "time"
        BY DEF value
      <4>3. Parameter(value)
            = [is_null |-> FALSE, oid |-> "TIMESTAMPTZ", data |-> TimeText(value.v)]
        BY <4>1, <4>2 DEF Parameter
      <4> QED BY <4>3
    <3> HIDE DEF value
    <3>3. value.type = "time"
      BY DEF value
    <3> QED BY <2>1, <2>3, <3>1, <3>2, <3>3 DEF Answered
  <2>5. in.datum \in Int /\ in.datum = value.v - Epoch2000 * M
    BY <2>2, TimeIn
  <2>6. M \in Int /\ Epoch2000 \in Int
    BY Bases
  <2> HIDE DEF in
  <2>7. \/ tm.errno
        \/ req.format = "text" /\ cell.data.sec = -1
        \/ /\ tm.v.sec \in Int /\ tm.v.usec \in 0..(M - 1)
           /\ tm.v.sec * M + tm.v.usec = in.datum + Epoch2000 * M
    BY <2>1, <2>5, DatetimeReads DEF Formats
  <2> HIDE DEF tm, cell
  <2>8. in.datum + Epoch2000 * M = value.v
    <3> DEFINE E == Epoch2000 * M
    <3>1. E \in Int
      BY <2>6
    <3> HIDE DEF E
    <3>2. in.datum = value.v - E
      BY <2>5 DEF E
    <3>3. in.datum + E = value.v
      BY <2>2, <3>1, <3>2
    <3> QED BY <3>3 DEF E
  <2>9. AsDatetime(reply.row[i]) = tm
    BY <2>4 DEF tm
  <2> QED BY <2>4, <2>7, <2>8, <2>9
<1> QED BY <1>1, SessionInvHolds, PTL

\* get_affected_rows is the number of rows of the statement, whatever words its tag has.
THEOREM TagTellsHolds == Spec => []TagTells
<1>1. SessionInv => TagTells
  <2> SUFFICES ASSUME SessionInv, pc = "read", Ok
               PROVE  AffectedRows(reply.tag) = (IF req.given.stmt = "CREATE" THEN 0 ELSE 1)
    BY DEF TagTells
  <2>1. req.given \in Given /\ reply.tag = Tag(req.given.stmt, 1)
    BY DEF SessionInv, Sent, Served
  <2>2. req.given.stmt \in {"SELECT", "INSERT", "CREATE"}
    BY <2>1, GivenFacts
  <2>0. Number(1).word = "" /\ Number(1).n = 1 /\ Name("TABLE").word # ""
    BY DEF Name, Number
  <2>3. CASE req.given.stmt = "SELECT"
    <3>1. reply.tag = <<Name("SELECT"), Number(1)>>
      BY <2>1, <2>3 DEF Tag
    <3>2. Len(reply.tag) = 2 /\ reply.tag[2] = Number(1)
      BY <3>1
    <3> QED BY <2>0, <2>3, <3>2 DEF AffectedRows
  <2>4. CASE req.given.stmt = "INSERT"
    <3>1. reply.tag = <<Name("INSERT"), Number(0), Number(1)>>
      BY <2>1, <2>4 DEF Tag
    <3>2. Len(reply.tag) = 3 /\ reply.tag[3] = Number(1)
      BY <3>1
    <3> QED BY <2>0, <2>4, <3>2 DEF AffectedRows
  <2>5. CASE req.given.stmt = "CREATE"
    <3>1. reply.tag = <<Name("CREATE"), Name("TABLE")>>
      BY <2>1, <2>5 DEF Tag
    <3>2. Len(reply.tag) = 2 /\ reply.tag[2] = Name("TABLE")
      BY <3>1
    <3> QED BY <2>0, <2>5, <3>2 DEF AffectedRows
  <2> QED BY <2>2, <2>3, <2>4, <2>5
<1> QED BY <1>1, SessionInvHolds, PTL

\* What PostgresValue and encode() make of any value is well formed: a request is refused
\* only for its count of parameters, a name in use, or a statement not prepared for it.
THEOREM FailsWithCauseHolds == Spec => FailsWithCause
<1>1. SessionInv => [Serve /\ reply'.error =>
          LET g == req.given IN
          \/ Len(g.params) >= Words
          \/ ~g.skip /\ g.name # "" /\ prepared[g.name] # Unprepared
          \/ g.skip /\ (prepared[g.name] = Unprepared \/ Len(prepared[g.name]) # Len(g.params))
      ]_vars
  BY ServeFacts DEF Cause
<1> QED BY <1>1, SessionInvHolds, PTL DEF FailsWithCause
=============================================================================
