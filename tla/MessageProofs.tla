---------------------------- MODULE MessageProofs ----------------------------
(***************************************************************************)
(* The numbers and messages of Database.tla, for all numbers and every     *)
(* width of the int: what readNumberFromChars computes for the digits that *)
(* numberToString wrote, what it makes of a message that TCP cut, and      *)
(* which token of the worker's message is at which position.               *)
(*                                                                         *)
(* DigitsOf and the loop in ValueOf are recursive functions.  That each    *)
(* satisfies its equation, and what it computes, is shown by induction,    *)
(* here from a least counterexample (LeastElement).                        *)
(***************************************************************************)
EXTENDS Database, SequenceTheorems, WellFoundedInduction, TLAPS

-----------------------------------------------------------------------------
(***************************************************************************)
(* Induction                                                               *)
(***************************************************************************)

\* A nonempty set of naturals has a least element, which is its Min.
LEMMA LeastElement ==
  ASSUME NEW S \in SUBSET Nat, S # {}
  PROVE  /\ Min(S) \in S
         /\ \A j \in S : Min(S) <= j
<1> DEFINE R == {ss \in Nat \X Nat : ss[1] < ss[2]}
<1>1. IsWellFoundedOn(R, Nat)
  BY NatLessThanWellFounded DEF OpToRel
<1>2. \E x \in S : \A y \in S : ~ (<<y, x>> \in R)
  <2> HIDE DEF R
  <2> QED
    BY <1>1, WFMin
<1>3. PICK x \in S : \A y \in S : ~ (<<y, x>> \in R)
  BY <1>2
<1>4. ASSUME NEW y \in S
      PROVE  x <= y
  <2>1. ~ (<<y, x>> \in R)
    BY <1>3
  <2>2. x \in Nat /\ y \in Nat
    OBVIOUS
  <2>3. QED
    BY <2>1, <2>2 DEF R
<1>5. QED
  BY <1>4 DEF Min

\* Course-of-values induction, over the naturals with a property.
LEMMA Induction ==
  ASSUME NEW S \in SUBSET Nat,
         \A n \in Nat : (\A m \in 0 .. n - 1 : m \in S) => n \in S
  PROVE  S = Nat
<1> SUFFICES ASSUME Nat \ S # {} PROVE FALSE
  OBVIOUS
<1> DEFINE n == Min(Nat \ S)
<1>1. n \in Nat \ S /\ \A j \in Nat \ S : n <= j
  <2> HIDE DEF n
  <2>1. Nat \ S \in SUBSET Nat
    OBVIOUS
  <2>2. QED
    BY <2>1, LeastElement DEF n
<1> HIDE DEF n
<1>2. \A m \in 0 .. n - 1 : m \in S
  BY <1>1
<1>3. QED
  BY <1>1, <1>2

-----------------------------------------------------------------------------
(***************************************************************************)
(* The database's int                                                      *)
(***************************************************************************)

\* An int wraps around to the one number of its range that differs by a
\* multiple of the number of its values.
LEMMA WrapDiffers ==
  ASSUME NEW n \in Int
  PROVE  /\ Wrap(n) \in -(IntValues \div 2) .. IntValues - 1 - IntValues \div 2
         /\ \E k \in Int : Wrap(n) = n + k * IntValues
<1> DEFINE H == IntValues \div 2
           a == n + H
<1>1. IntValues \in Nat \ {0} /\ H \in Nat
  BY DatabaseAssumption
<1> HIDE DEF H
<1>2. a \in Int
  BY <1>1
<1>3. Wrap(n) = (a % IntValues) - H
  BY DEF Wrap, H
<1> HIDE DEF a
<1>4. /\ a \div IntValues \in Int
      /\ a % IntValues \in 0 .. IntValues - 1
      /\ a = (a \div IntValues) * IntValues + (a % IntValues)
  BY <1>1, <1>2
<1>5. Wrap(n) \in -H .. IntValues - 1 - H
  BY <1>1, <1>3, <1>4
<1>6. Wrap(n) = n + (-(a \div IntValues)) * IntValues
  BY <1>1, <1>2, <1>3, <1>4 DEF a
<1>7. QED
  BY <1>4, <1>5, <1>6 DEF H

\* A multiple of N that is smaller than N is zero.
LEMMA SmallMultiple ==
  ASSUME NEW k \in Int, NEW N \in Nat \ {0}, -N < k * N, k * N < N
  PROVE  k = 0
<1>1. CASE k > 0
  <2>1. PICK j \in Nat : k = j + 1
    BY <1>1
  <2>2. k * N = j * N + N /\ j * N >= 0
    BY <2>1
  <2>3. QED
    BY <2>2
<1>2. CASE k < 0
  <2>1. PICK j \in Nat : k = -j - 1
    BY <1>2
  <2>2. k * N = -(j * N) - N /\ j * N >= 0
    BY <2>1
  <2>3. QED
    BY <2>2
<1>3. QED
  BY <1>1, <1>2

\* Numbers that differ by a multiple of the int's number of values wrap alike.
LEMMA WrapSame ==
  ASSUME NEW m \in Int, NEW n \in Int, NEW k \in Int, m = n + k * IntValues
  PROVE  Wrap(m) = Wrap(n)
<1> DEFINE H == IntValues \div 2
<1>1. IntValues \in Nat \ {0} /\ H \in Nat
  BY DatabaseAssumption
<1>2. /\ Wrap(m) \in -H .. IntValues - 1 - H
      /\ Wrap(n) \in -H .. IntValues - 1 - H
  BY WrapDiffers
<1> HIDE DEF H
<1>3. PICK i \in Int : Wrap(m) = m + i * IntValues
  BY WrapDiffers
<1>4. PICK j \in Int : Wrap(n) = n + j * IntValues
  BY WrapDiffers
<1>5. Wrap(m) - Wrap(n) = (k + i - j) * IntValues
  BY <1>1, <1>3, <1>4
<1>6. k + i - j = 0
  <2>1. /\ -IntValues < (k + i - j) * IntValues
        /\ (k + i - j) * IntValues < IntValues
    BY <1>1, <1>2, <1>5
  <2>2. k + i - j \in Int
    OBVIOUS
  <2> DEFINE q == k + i - j
  <2> HIDE DEF q
  <2>3. q = 0
    BY <2>1, <2>2, <1>1, SmallMultiple DEF q
  <2>4. QED
    BY <2>3 DEF q
<1>7. QED
  BY <1>1, <1>2, <1>5, <1>6

\* A number of the range of an int is not changed.
LEMMA WrapKeeps ==
  ASSUME NEW n \in Int, -(IntValues \div 2) <= n, n < IntValues \div 2
  PROVE  Wrap(n) = n
<1> DEFINE H == IntValues \div 2
<1>1. IntValues \in Nat \ {0} /\ H \in Nat /\ 2 * H <= IntValues
  BY DatabaseAssumption
<1>2. Wrap(n) \in -H .. IntValues - 1 - H
  BY WrapDiffers
<1>3. -H <= n /\ n < H
  OBVIOUS
<1> HIDE DEF H
<1>4. PICK i \in Int : Wrap(n) = n + i * IntValues
  BY WrapDiffers
<1>5. -IntValues < i * IntValues /\ i * IntValues < IntValues
  BY <1>1, <1>2, <1>3, <1>4
<1>6. i = 0
  BY <1>1, <1>5, SmallMultiple
<1>7. QED
  BY <1>1, <1>4, <1>6

\* What wraps is an integer again.
LEMMA WrapInt ==
  ASSUME NEW n \in Int
  PROVE  Wrap(n) \in Int
  BY WrapDiffers, DatabaseAssumption

\* Wrapping on the way does not change what is wrapped in the end.
LEMMA WrapOfSum ==
  ASSUME NEW a \in Int, NEW b \in Int
  PROVE  Wrap(a + Wrap(b)) = Wrap(a + b)
<1>1. PICK k \in Int : Wrap(b) = b + k * IntValues
  BY WrapDiffers
<1>2. IntValues \in Nat
  BY DatabaseAssumption
<1>3. a + Wrap(b) \in Int /\ a + b \in Int /\ a + Wrap(b) = (a + b) + k * IntValues
  BY <1>1, <1>2
<1>4. QED
  BY <1>3, WrapSame

\* The sign may be applied before or after wrapping.
LEMMA WrapOfNegative ==
  ASSUME NEW b \in Int
  PROVE  Wrap(-Wrap(b)) = Wrap(-b)
<1>1. PICK k \in Int : Wrap(b) = b + k * IntValues
  BY WrapDiffers
<1>2. IntValues \in Nat
  BY DatabaseAssumption
<1>3. -Wrap(b) \in Int /\ -b \in Int /\ -k \in Int /\ -Wrap(b) = -b + (-k) * IntValues
  BY <1>1, <1>2
<1>4. QED
  BY <1>3, WrapSame

\* The next digit may be appended before or after wrapping.
LEMMA WrapOfNextDigit ==
  ASSUME NEW b \in Int, NEW d \in Int
  PROVE  Wrap(10 * Wrap(b) + d) = Wrap(10 * b + d)
<1>1. PICK k \in Int : Wrap(b) = b + k * IntValues
  BY WrapDiffers
<1>2. IntValues \in Nat
  BY DatabaseAssumption
<1>3. /\ 10 * Wrap(b) + d \in Int /\ 10 * b + d \in Int /\ 10 * k \in Int
      /\ 10 * Wrap(b) + d = 10 * b + d + (10 * k) * IntValues
  BY <1>1, <1>2
<1>4. QED
  BY <1>3, WrapSame

-----------------------------------------------------------------------------
(***************************************************************************)
(* Numbers as digits                                                       *)
(***************************************************************************)

\* A digit character and its value determine each other.
LEMMA DigitFacts ==
  /\ Digits = {"0", "1", "2", "3", "4", "5", "6", "7", "8", "9"}
  /\ \A d \in 0 .. 9 : DigitChars[d + 1] \in Digits /\ DigitValue(DigitChars[d + 1]) = d
  /\ \A c \in Digits : DigitValue(c) \in 0 .. 9
<1>1. \A i, j \in 1 .. 10 : DigitChars[i] = DigitChars[j] => i = j
  BY DEF DigitChars
<1>2. ASSUME NEW d \in 0 .. 9
      PROVE  DigitChars[d + 1] \in Digits /\ DigitValue(DigitChars[d + 1]) = d
  <2>1. d + 1 \in 1 .. 10
    OBVIOUS
  <2> DEFINE c == DigitChars[d + 1]
             v == CHOOSE i \in 1 .. 10 : DigitChars[i] = c
  <2>2. v \in 1 .. 10 /\ DigitChars[v] = c
    BY <2>1
  <2>3. DigitValue(c) = v - 1
    BY DEF DigitValue
  <2> HIDE DEF v
  <2>5. v = d + 1
    BY <1>1, <2>1, <2>2
  <2>6. DigitValue(DigitChars[d + 1]) = d
    BY <2>3, <2>5
  <2>4. DigitChars[d + 1] \in Digits
    BY <2>1 DEF Digits
  <2>7. QED
    BY <2>4, <2>6
<1>3. Digits = {"0", "1", "2", "3", "4", "5", "6", "7", "8", "9"}
  <2>1. 1 .. 10 = {1, 2, 3, 4, 5, 6, 7, 8, 9, 10}
    OBVIOUS
  <2>2. Digits = {DigitChars[1], DigitChars[2], DigitChars[3], DigitChars[4], DigitChars[5],
                  DigitChars[6], DigitChars[7], DigitChars[8], DigitChars[9], DigitChars[10]}
    BY <2>1 DEF Digits
  <2>3. QED
    BY <2>2 DEF DigitChars
<1>4. ASSUME NEW c \in Digits
      PROVE  DigitValue(c) \in 0 .. 9
  <2>1. PICK i \in 1 .. 10 : c = DigitChars[i]
    BY DEF Digits
  <2>2. i - 1 \in 0 .. 9 /\ c = DigitChars[(i - 1) + 1]
    BY <2>1
  <2> DEFINE d == i - 1
  <2>3. d \in 0 .. 9 /\ c = DigitChars[d + 1]
    BY <2>2
  <2> HIDE DEF d
  <2>4. QED
    BY <2>3, <1>2
<1>5. QED
  BY <1>2, <1>3, <1>4

\* The recursive definition of a number's digits has a solution, so that it
\* defines what it says.
LEMMA DigitsOfEquation ==
  /\ DigitsOf \in [Nat -> Seq(Digits)]
  /\ \A n \in Nat :
       DigitsOf[n] = IF n < 10 THEN <<DigitChars[n + 1]>>
                     ELSE Append(DigitsOf[n \div 10], DigitChars[(n % 10) + 1])
<1> DEFINE Step(f, n) == IF n < 10 THEN <<DigitChars[n + 1]>>
                         ELSE Append(f[n \div 10], DigitChars[(n % 10) + 1])
           Partial(N) == {f \in [0 .. N -> Seq(Digits)] : \A n \in 0 .. N : f[n] = Step(f, n)}
<1>1. ASSUME NEW n \in Nat
      PROVE  /\ n < 10 => n \in 0 .. 9
             /\ n % 10 \in 0 .. 9
             /\ n >= 10 => n \div 10 \in 0 .. n - 1
             /\ n = 10 * (n \div 10) + (n % 10)
  OBVIOUS
<1>2. ASSUME NEW n \in Nat, NEW N \in Nat, NEW f \in [0 .. N -> Seq(Digits)], n <= N + 1
      PROVE  Step(f, n) \in Seq(Digits)
  <2>1. CASE n < 10
    <3>1. DigitChars[n + 1] \in Digits
      BY <2>1, <1>1, DigitFacts
    <3>2. QED
      BY <2>1, <3>1
  <2>2. CASE n >= 10
    <3> DEFINE d == n % 10
               m == n \div 10
    <3>1. d \in 0 .. 9 /\ m \in 0 .. N
      BY <2>2, <1>1
    <3> HIDE DEF d, m
    <3>2. DigitChars[d + 1] \in Digits /\ f[m] \in Seq(Digits)
      BY <3>1, DigitFacts
    <3>3. Append(f[m], DigitChars[d + 1]) \in Seq(Digits)
      BY <3>2
    <3>4. Step(f, n) = Append(f[m], DigitChars[d + 1])
      BY <2>2 DEF d, m
    <3>5. QED
      BY <3>3, <3>4
  <2>3. QED
    BY <2>1, <2>2
<1>3. \A N \in Nat : Partial(N) # {}
  <2> DEFINE S == {N \in Nat : Partial(N) # {}}
  <2>1. ASSUME NEW N \in Nat, \A m \in 0 .. N - 1 : m \in S
        PROVE  N \in S
    <3>1. CASE N = 0
      <4> DEFINE g == [i \in 0 .. 0 |-> <<DigitChars[1]>>]
      <4>1. DigitChars[1] \in Digits
        BY DigitFacts
      <4>2. g \in Partial(0)
        BY <4>1
      <4>3. QED
        BY <3>1, <4>2
    <3>2. CASE N > 0
      <4>1. N - 1 \in 0 .. N - 1
        BY <3>2
      <4>2. PICK f : f \in Partial(N - 1)
        BY <4>1, <2>1
      <4> DEFINE g == [i \in 0 .. N |-> IF i = N THEN Step(f, N) ELSE f[i]]
      <4>3. Step(f, N) \in Seq(Digits)
        BY <4>1, <4>2, <1>2
      <4>4. g \in [0 .. N -> Seq(Digits)]
        BY <4>2, <4>3
      <4>5. ASSUME NEW n \in 0 .. N
            PROVE  g[n] = Step(g, n)
        <5>1. n >= 10 => g[n \div 10] = f[n \div 10]
          BY <1>1
        <5>2. Step(g, n) = Step(f, n)
          BY <5>1
        <5>3. g[n] = Step(f, n)
          <6>1. CASE n = N
            BY <6>1
          <6>2. CASE n # N
            <7>1. n \in 0 .. N - 1 /\ g[n] = f[n]
              BY <6>2
            <7>2. QED
              BY <7>1, <4>2
          <6>3. QED
            BY <6>1, <6>2
        <5>4. QED
          BY <5>2, <5>3
      <4>6. QED
        BY <4>4, <4>5
    <3>3. QED
      BY <3>1, <3>2
  <2>2. S = Nat
    <3> HIDE DEF S
    <3>1. S \in SUBSET Nat
      BY DEF S
    <3>2. QED
      BY <3>1, <2>1, Induction
  <2>3. QED
    BY <2>2
<1>4. ASSUME NEW M \in Nat, NEW N \in Nat, NEW f \in Partial(M), NEW g \in Partial(N),
             NEW n \in Nat, n <= M, n <= N
      PROVE  f[n] = g[n]
  <2> DEFINE S == {i \in Nat : i <= M /\ i <= N => f[i] = g[i]}
  <2>1. ASSUME NEW i \in Nat, \A m \in 0 .. i - 1 : m \in S
        PROVE  i \in S
    <3> SUFFICES ASSUME i <= M, i <= N PROVE f[i] = g[i]
      OBVIOUS
    <3>1. ASSUME i >= 10
          PROVE  f[i \div 10] = g[i \div 10]
      <4> DEFINE m == i \div 10
      <4>1. m \in 0 .. i - 1
        BY <1>1, <3>1
      <4> HIDE DEF m
      <4>2. m \in S
        BY <4>1, <2>1
      <4>3. f[m] = g[m]
        BY <4>1, <4>2
      <4>4. QED
        BY <4>3 DEF m
    <3>2. f[i] = Step(f, i) /\ g[i] = Step(g, i)
      <4>1. i \in 0 .. M /\ i \in 0 .. N
        OBVIOUS
      <4>2. /\ \A k \in 0 .. M : f[k] = Step(f, k)
            /\ \A k \in 0 .. N : g[k] = Step(g, k)
        OBVIOUS
      <4> HIDE DEF Step
      <4>3. QED
        BY <4>1, <4>2
    <3>3. QED
      BY <3>1, <3>2
  <2>2. S = Nat
    <3> HIDE DEF S
    <3>1. S \in SUBSET Nat
      BY DEF S
    <3>2. QED
      BY <3>1, <2>1, Induction
  <2>3. n \in S
    BY <2>2
  <2>4. QED
    <3> HIDE DEF Partial
    <3>1. QED
      BY <2>3, <1>4
<1> DEFINE Chosen(n) == CHOOSE f : f \in Partial(n)
           G == [n \in Nat |-> Chosen(n)[n]]
<1>5. \A n \in Nat : Chosen(n) \in Partial(n)
  BY <1>3
<1>6. ASSUME NEW n \in Nat
      PROVE  G[n] = Step(G, n) /\ G[n] \in Seq(Digits)
  <2>1. Chosen(n) \in Partial(n)
    BY <1>5
  <2>2. n >= 10 => G[n \div 10] = Chosen(n)[n \div 10]
    <3> SUFFICES ASSUME n >= 10 PROVE G[n \div 10] = Chosen(n)[n \div 10]
      OBVIOUS
    <3> DEFINE m == n \div 10
    <3>1. m \in Nat /\ m <= n
      BY <1>1
    <3>2. Chosen(m) \in Partial(m)
      BY <3>1, <1>5
    <3> HIDE DEF m
    <3>3. Chosen(m)[m] = Chosen(n)[m]
      <4> HIDE DEF Chosen, Partial
      <4>1. QED
        BY <3>1, <3>2, <2>1, <1>4
    <3>4. QED
      BY <3>1, <3>3 DEF m
  <2>3. Chosen(n)[n] = Step(Chosen(n), n) /\ Chosen(n)[n] \in Seq(Digits)
    <3> HIDE DEF Chosen
    <3>1. QED
      BY <2>1
  <2>4. G[n] = Chosen(n)[n]
    OBVIOUS
  <2>5. Step(G, n) = Step(Chosen(n), n)
    <3> HIDE DEF G
    <3>1. QED
      BY <2>2
  <2>6. QED
    <3> HIDE DEF G, Step, Chosen
    <3>1. QED
      BY <2>3, <2>4, <2>5
<1>7. G = [n \in Nat |-> Step(G, n)]
  <2> HIDE DEF Chosen
  <2>1. QED
    BY <1>6
<1>8. DigitsOf = [n \in Nat |-> Step(DigitsOf, n)]
  <2> HIDE DEF G
  <2>1. QED
    BY <1>7 DEF DigitsOf
<1>9. DigitsOf \in [Nat -> Seq(Digits)]
  <2> DEFINE S == {n \in Nat : DigitsOf[n] \in Seq(Digits)}
  <2>1. ASSUME NEW n \in Nat, \A m \in 0 .. n - 1 : m \in S
        PROVE  n \in S
    <3>1. CASE n < 10
      <4>1. DigitChars[n + 1] \in Digits /\ DigitsOf[n] = <<DigitChars[n + 1]>>
        BY <3>1, <1>1, <1>8, DigitFacts
      <4>2. <<DigitChars[n + 1]>> \in Seq(Digits)
        BY <4>1
      <4>3. DigitsOf[n] \in Seq(Digits)
        BY <4>1, <4>2
      <4>4. QED
        BY <4>3
    <3>2. CASE n >= 10
      <4> DEFINE d == n % 10
                 m == n \div 10
      <4>1. d \in 0 .. 9 /\ m \in 0 .. n - 1
        BY <3>2, <1>1
      <4>2. DigitsOf[n] = Append(DigitsOf[m], DigitChars[d + 1])
        <5>1. DigitsOf[n] = Step(DigitsOf, n)
          <6> HIDE DEF Step
          <6>1. QED
            BY <1>8
        <5>2. QED
          BY <5>1, <3>2
      <4> HIDE DEF d, m
      <4>3. DigitChars[d + 1] \in Digits /\ DigitsOf[m] \in Seq(Digits)
        BY <4>1, <2>1, DigitFacts
      <4>4. Append(DigitsOf[m], DigitChars[d + 1]) \in Seq(Digits)
        BY <4>3
      <4>5. DigitsOf[n] \in Seq(Digits)
        BY <4>2, <4>4
      <4>6. QED
        BY <4>5
    <3>3. QED
      BY <3>1, <3>2
  <2>2. S = Nat
    <3> HIDE DEF S
    <3>1. S \in SUBSET Nat
      BY DEF S
    <3>2. QED
      BY <3>1, <2>1, Induction
  <2>3. \A n \in Nat : DigitsOf[n] \in Seq(Digits)
    <3>1. \A n \in S : DigitsOf[n] \in Seq(Digits)
      OBVIOUS
    <3>2. QED
      BY <2>2, <3>1
  <2>4. QED
    <3> DEFINE h == [n \in Nat |-> Step(DigitsOf, n)]
    <3>1. DOMAIN h = Nat /\ h = [n \in Nat |-> h[n]]
      OBVIOUS
    <3> HIDE DEF h
    <3>2. h = DigitsOf
      BY <1>8 DEF h
    <3>3. QED
      BY <2>3, <3>1, <3>2
<1>10. QED
  BY <1>8, <1>9

\* Number is what the loop of readNumberFromChars computes for the digits.
Computes(number, digits) ==
  number = [i \in 0 .. Len(digits) |->
              IF i = 0 THEN 0 ELSE Wrap(10 * number[i - 1] + DigitValue(digits[i]))]

\* The loop stays within the integers and does at each digit what it says.
LEMMA ComputesStep ==
  ASSUME NEW digits \in Seq(Digits), NEW number, Computes(number, digits)
  PROVE  /\ number \in [0 .. Len(digits) -> Int]
         /\ number[0] = 0
         /\ \A i \in 1 .. Len(digits) :
              number[i] = Wrap(10 * number[i - 1] + DigitValue(digits[i]))
<1> DEFINE N == Len(digits)
<1>1. N \in Nat /\ \A i \in 1 .. N : DigitValue(digits[i]) \in Int
  BY DigitFacts
<1> HIDE DEF N
<1>2. number = [i \in 0 .. N |->
                  IF i = 0 THEN 0 ELSE Wrap(10 * number[i - 1] + DigitValue(digits[i]))]
  BY DEF Computes, N
<1>3. number[0] = 0
  BY <1>1, <1>2
<1>4. \A i \in 1 .. N : number[i] = Wrap(10 * number[i - 1] + DigitValue(digits[i]))
  BY <1>1, <1>2
<1> DEFINE S == {i \in Nat : i <= N => number[i] \in Int}
<1>5. ASSUME NEW i \in Nat, \A m \in 0 .. i - 1 : m \in S
      PROVE  i \in S
  <2> SUFFICES ASSUME i <= N PROVE number[i] \in Int
    OBVIOUS
  <2>1. CASE i = 0
    BY <2>1, <1>3
  <2>2. CASE i > 0
    <3>1. i - 1 \in S
      BY <1>5, <2>2
    <3>2. number[i - 1] \in Int /\ DigitValue(digits[i]) \in Int
      BY <3>1, <2>2, <1>1
    <3>3. 10 * number[i - 1] + DigitValue(digits[i]) \in Int
      BY <3>2
    <3>4. i \in 1 .. N
      BY <2>2
    <3>5. number[i] = Wrap(10 * number[i - 1] + DigitValue(digits[i]))
      BY <3>4, <1>4
    <3>6. QED
      BY <3>3, <3>5, WrapInt
  <2>3. QED
    BY <2>1, <2>2
<1>6. S = Nat
  <2> HIDE DEF S
  <2>1. S \in SUBSET Nat
    BY DEF S
  <2>2. QED
    BY <2>1, <1>5, Induction
<1>7. \A i \in 0 .. N : number[i] \in Int
  <2>1. \A i \in S : i <= N => number[i] \in Int
    OBVIOUS
  <2>2. QED
    BY <2>1, <1>6
<1>8. number \in [0 .. N -> Int]
  <2> DEFINE h == [i \in 0 .. N |->
                     IF i = 0 THEN 0 ELSE Wrap(10 * number[i - 1] + DigitValue(digits[i]))]
  <2>1. DOMAIN h = 0 .. N /\ h = [i \in 0 .. N |-> h[i]]
    OBVIOUS
  <2>2. h = number
    BY <1>2
  <2> HIDE DEF h
  <2>3. QED
    BY <1>7, <2>1, <2>2
<1>9. QED
  BY <1>3, <1>4, <1>8 DEF N

\* There is such a function, and it is unique on a prefix of the digits.
LEMMA SomeNumberComputes ==
  ASSUME NEW digits \in Seq(Digits)
  PROVE  \E number : Computes(number, digits)
<1> DEFINE N == Len(digits)
           Step(f, i) == IF i = 0 THEN 0 ELSE Wrap(10 * f[i - 1] + DigitValue(digits[i]))
           S == {n \in Nat : n <= N => \E f : f = [i \in 0 .. n |-> Step(f, i)]}
<1>1. ASSUME NEW n \in Nat, \A m \in 0 .. n - 1 : m \in S
      PROVE  n \in S
  <2> SUFFICES ASSUME n <= N PROVE \E f : f = [i \in 0 .. n |-> Step(f, i)]
    OBVIOUS
  <2>1. CASE n = 0
    <3> DEFINE g == [i \in 0 .. 0 |-> 0]
    <3>1. g = [i \in 0 .. 0 |-> Step(g, i)]
      OBVIOUS
    <3>2. QED
      BY <2>1, <3>1
  <2>2. CASE n > 0
    <3>1. n - 1 \in 0 .. n - 1 /\ n - 1 <= N
      BY <2>2
    <3>2. n - 1 \in S
      BY <3>1, <1>1
    <3>3. PICK f : f = [i \in 0 .. n - 1 |-> Step(f, i)]
      BY <3>1, <3>2
    <3> DEFINE g == [i \in 0 .. n |-> IF i = n THEN Step(f, n) ELSE f[i]]
    <3>4. ASSUME NEW i \in 0 .. n
          PROVE  g[i] = Step(g, i)
      <4>1. i # 0 => g[i - 1] = f[i - 1]
        BY <2>2
      <4>2. Step(g, i) = Step(f, i)
        <5> HIDE DEF g
        <5>1. QED
          BY <4>1
      <4>3. g[i] = Step(f, i)
        <5> HIDE DEF Step
        <5>1. CASE i = n
          BY <5>1
        <5>2. CASE i # n
          <6>1. i \in 0 .. n - 1 /\ g[i] = f[i]
            BY <5>2
          <6>2. QED
            BY <6>1, <3>3
        <5>3. QED
          BY <5>1, <5>2
      <4>4. QED
        BY <4>2, <4>3
    <3>5. g = [i \in 0 .. n |-> Step(g, i)]
      <4> HIDE DEF Step
      <4>1. QED
        BY <3>4
    <3>6. QED
      BY <3>5
  <2>3. QED
    BY <2>1, <2>2
<1>2. S = Nat
  <2> HIDE DEF S
  <2>1. S \in SUBSET Nat
    BY DEF S
  <2>2. QED
    BY <2>1, <1>1, Induction
<1>3. N \in S
  BY <1>2
<1>4. QED
  BY <1>3 DEF Computes

\* ValueOf is the result of such a loop.
LEMMA ValueOfComputed ==
  ASSUME NEW digits \in Seq(Digits)
  PROVE  \E number : Computes(number, digits) /\ ValueOf(digits) = number[Len(digits)]
<1> DEFINE chosen == CHOOSE number : Computes(number, digits)
<1>1. Computes(chosen, digits)
  BY SomeNumberComputes
<1>2. ValueOf(digits) = chosen[Len(digits)]
  BY DEF ValueOf, Computes
<1> HIDE DEF chosen
<1>3. QED
  BY <1>1, <1>2

\* The value of a sequence of digits is an integer.
LEMMA ValueOfInt ==
  ASSUME NEW digits \in Seq(Digits)
  PROVE  ValueOf(digits) \in Int
<1>1. PICK number : Computes(number, digits) /\ ValueOf(digits) = number[Len(digits)]
  BY ValueOfComputed
<1>2. Len(digits) \in 0 .. Len(digits)
  OBVIOUS
<1>3. QED
  BY <1>1, <1>2, ComputesStep

\* Without digits the number stays zero.
LEMMA ValueOfEmpty == ValueOf(<<>>) = 0
<1>1. <<>> \in Seq(Digits) /\ Len(<<>>) = 0
  OBVIOUS
<1>2. PICK number : Computes(number, <<>>) /\ ValueOf(<<>>) = number[0]
  BY <1>1, ValueOfComputed
<1>3. QED
  BY <1>1, <1>2, ComputesStep

\* One more digit is one more round of the loop.
LEMMA ValueOfAppend ==
  ASSUME NEW s \in Seq(Digits), NEW c \in Digits
  PROVE  ValueOf(Append(s, c)) = Wrap(10 * ValueOf(s) + DigitValue(c))
<1> DEFINE t == Append(s, c)
           N == Len(s)
<1>1. /\ t \in Seq(Digits) /\ N \in Nat /\ Len(t) = N + 1 /\ t[N + 1] = c
      /\ \A i \in 1 .. N : t[i] = s[i]
  OBVIOUS
<1>2. PICK f : Computes(f, s) /\ ValueOf(s) = f[N]
  BY ValueOfComputed
<1> HIDE DEF t, N
<1>3. PICK g : Computes(g, t) /\ ValueOf(t) = g[N + 1]
  BY <1>1, ValueOfComputed
<1>4. /\ f[0] = 0
      /\ \A i \in 1 .. N : f[i] = Wrap(10 * f[i - 1] + DigitValue(s[i]))
  BY <1>2, ComputesStep DEF N
<1>5. /\ g[0] = 0
      /\ \A i \in 1 .. N + 1 : g[i] = Wrap(10 * g[i - 1] + DigitValue(t[i]))
  <2>1. /\ g[0] = 0
        /\ \A i \in 1 .. Len(t) : g[i] = Wrap(10 * g[i - 1] + DigitValue(t[i]))
    BY <1>1, <1>3, ComputesStep
  <2>2. QED
    BY <1>1, <2>1
<1> DEFINE S == {i \in Nat : i <= N => f[i] = g[i]}
<1>6. ASSUME NEW i \in Nat, \A m \in 0 .. i - 1 : m \in S
      PROVE  i \in S
  <2> SUFFICES ASSUME i <= N PROVE f[i] = g[i]
    OBVIOUS
  <2>1. CASE i = 0
    BY <2>1, <1>4, <1>5
  <2>2. CASE i > 0
    <3>1. i - 1 \in S /\ i \in 1 .. N /\ i \in 1 .. N + 1
      BY <1>1, <1>6, <2>2
    <3>2. f[i - 1] = g[i - 1] /\ s[i] = t[i]
      BY <1>1, <3>1
    <3>3. QED
      BY <1>4, <1>5, <3>1, <3>2
  <2>3. QED
    BY <2>1, <2>2
<1>7. S = Nat
  <2> HIDE DEF S
  <2>1. S \in SUBSET Nat
    BY DEF S
  <2>2. QED
    BY <2>1, <1>6, Induction
<1>8. N \in S
  BY <1>1, <1>7
<1>9. f[N] = g[N]
  BY <1>1, <1>8
<1>10. N + 1 \in 1 .. N + 1 /\ N + 1 - 1 = N
  BY <1>1
<1>11. g[N + 1] = Wrap(10 * g[N] + DigitValue(c))
  BY <1>1, <1>5, <1>10
<1>12. QED
  BY <1>2, <1>3, <1>9, <1>11 DEF t

\* What readNumberFromChars computes for the digits of a number is the number,
\* as far as an int holds it.
LEMMA ValueOfDigitsOf ==
  ASSUME NEW n \in Nat
  PROVE  /\ DigitsOf[n] \in Seq(Digits) /\ Len(DigitsOf[n]) > 0
         /\ ValueOf(DigitsOf[n]) = Wrap(n)
<1> DEFINE S == {i \in Nat : ValueOf(DigitsOf[i]) = Wrap(i)}
<1>1. ASSUME NEW i \in Nat
      PROVE  /\ DigitsOf[i] \in Seq(Digits)
             /\ i < 10 => DigitsOf[i] = <<DigitChars[i + 1]>>
             /\ i >= 10 => DigitsOf[i] = Append(DigitsOf[i \div 10], DigitChars[(i % 10) + 1])
  <2>1. DigitsOf[i] = IF i < 10 THEN <<DigitChars[i + 1]>>
                      ELSE Append(DigitsOf[i \div 10], DigitChars[(i % 10) + 1])
    BY DigitsOfEquation
  <2>2. DigitsOf[i] \in Seq(Digits)
    BY DigitsOfEquation
  <2>3. CASE i < 10
    BY <2>1, <2>2, <2>3
  <2>4. CASE i >= 10
    BY <2>1, <2>2, <2>4
  <2>5. QED
    BY <2>3, <2>4
<1>2. ASSUME NEW i \in Nat, i >= 10
      PROVE  /\ i \div 10 \in 0 .. i - 1
             /\ i % 10 \in 0 .. 9
             /\ i = 10 * (i \div 10) + (i % 10)
  BY <1>2
<1>3. ASSUME NEW i \in Nat, \A m \in 0 .. i - 1 : m \in S
      PROVE  i \in S
  <2>1. CASE i < 10
    <3> DEFINE c == DigitChars[i + 1]
    <3>1. c \in Digits /\ DigitValue(c) = i
      BY <2>1, DigitFacts
    <3>2. DigitsOf[i] = <<c>>
      BY <1>1, <2>1
    <3> HIDE DEF c
    <3>3. /\ <<c>> = Append(<<>>, c) /\ <<>> \in Seq(Digits)
      OBVIOUS
    <3>4. ValueOf(<<c>>) = Wrap(10 * 0 + DigitValue(c))
      BY <3>1, <3>3, ValueOfAppend, ValueOfEmpty
    <3>5. 10 * 0 + DigitValue(c) = i
      BY <3>1
    <3>6. ValueOf(DigitsOf[i]) = Wrap(i)
      BY <3>2, <3>4, <3>5
    <3>7. QED
      BY <3>6
  <2>2. CASE i >= 10
    <3> DEFINE d == i % 10
               m == i \div 10
               c == DigitChars[d + 1]
    <3>1. d \in 0 .. 9 /\ m \in 0 .. i - 1 /\ i = 10 * m + d
      BY <2>2, <1>2
    <3>2. DigitsOf[i] = Append(DigitsOf[m], c)
      BY <1>1, <2>2
    <3> HIDE DEF d, m
    <3>3. c \in Digits /\ DigitValue(c) = d
      BY <3>1, DigitFacts
    <3> HIDE DEF c
    <3>4. m \in Nat /\ m \in S
      BY <3>1, <1>3
    <3>5. ValueOf(DigitsOf[m]) = Wrap(m) /\ DigitsOf[m] \in Seq(Digits)
      BY <3>4, <1>1
    <3>6. ValueOf(DigitsOf[i]) = Wrap(10 * Wrap(m) + d)
      BY <3>2, <3>3, <3>5, ValueOfAppend
    <3>7. Wrap(10 * Wrap(m) + d) = Wrap(10 * m + d)
      BY <3>1, <3>4, WrapOfNextDigit
    <3>8. ValueOf(DigitsOf[i]) = Wrap(i)
      BY <3>1, <3>6, <3>7
    <3>9. QED
      BY <3>8
  <2>3. QED
    BY <2>1, <2>2
<1>4. S = Nat
  <2> HIDE DEF S
  <2>1. S \in SUBSET Nat
    BY DEF S
  <2>2. QED
    BY <2>1, <1>3, Induction
<1>5. n \in S
  BY <1>4
<1>6. ValueOf(DigitsOf[n]) = Wrap(n)
  BY <1>5
<1>7. Len(DigitsOf[n]) > 0
  <2>1. CASE n < 10
    <3>1. DigitsOf[n] = <<DigitChars[n + 1]>>
      BY <1>1, <2>1
    <3>2. Len(<<DigitChars[n + 1]>>) = 1
      OBVIOUS
    <3>3. QED
      BY <3>1, <3>2
  <2>2. CASE n >= 10
    <3> DEFINE m == n \div 10
               c == DigitChars[(n % 10) + 1]
    <3>1. m \in Nat /\ DigitsOf[n] = Append(DigitsOf[m], c)
      BY <1>1, <1>2, <2>2
    <3> HIDE DEF m, c
    <3>2. DigitsOf[m] \in Seq(Digits)
      BY <3>1, <1>1
    <3>3. QED
      BY <3>1, <3>2
  <2>3. QED
    BY <2>1, <2>2
<1>8. QED
  BY <1>1, <1>6, <1>7

\* A number is written as its digits, with a sign in front of negative ones.
LEMMA NumberToStringFacts ==
  ASSUME NEW v \in Int
  PROVE  /\ numberToString(v) \in Seq(Digits \cup {"-"}) /\ Len(numberToString(v)) > 0
         /\ v >= 0 => numberToString(v) = DigitsOf[v]
         /\ v < 0 => -v \in Nat /\ numberToString(v) = <<"-">> \o DigitsOf[-v]
<1>1. CASE v >= 0
  <2>1. DigitsOf[v] \in Seq(Digits) /\ Len(DigitsOf[v]) > 0 /\ numberToString(v) = DigitsOf[v]
    BY <1>1, ValueOfDigitsOf DEF numberToString
  <2>2. QED
    BY <1>1, <2>1
<1>2. CASE v < 0
  <2> DEFINE s == DigitsOf[-v]
  <2>1. -v \in Nat /\ s \in Seq(Digits) /\ Len(s) > 0
    BY <1>2, ValueOfDigitsOf
  <2>2. numberToString(v) = <<"-">> \o s
    BY <1>2 DEF numberToString
  <2> HIDE DEF s
  <2>3. <<"-">> \o s \in Seq(Digits \cup {"-"}) /\ Len(<<"-">> \o s) > 0
    BY <2>1
  <2>4. QED
    BY <1>2, <2>1, <2>2, <2>3 DEF s
<1>3. QED
  BY <1>1, <1>2

-----------------------------------------------------------------------------
(***************************************************************************)
(* Numbers in the buffer                                                   *)
(***************************************************************************)

\* What messages are made of, and what recv fills the buffer with.
MessageTokens ==
  Digits \cup {"-", "GET /", "POST /", " HTTP/", "1.1", CRLF, "Host: ", "database", "Row: ",
              "Column: ", "Last-Chunk: ", "TRUE", "FALSE", "Content-Length: "}
Tokens == MessageTokens \cup {FRAGMENT}

\* The parser's loop stops at a sign, at a fragment and behind the message.
LEMMA NotDigits == "-" \notin Digits /\ NUL \notin Digits /\ FRAGMENT \notin Digits
                   /\ CRLF \notin Digits
  BY DigitFacts DEF NUL, FRAGMENT, CRLF

\* The first position behind an optional sign.
First(i) == IF Token(i) = "-" THEN i + 1 ELSE i

\* A number ends at the first character behind its sign that is no digit.
LEMMA NumberLengthFacts ==
  ASSUME buf_TCP \in Seq(Tokens), NEW i \in 1 .. Len(buf_TCP) + 1
  PROVE  /\ NumberLength(i) \in Nat
         /\ First(i) <= i + NumberLength(i)
         /\ i + NumberLength(i) <= Len(buf_TCP) + 1
         /\ Token(i + NumberLength(i)) \notin Digits
         /\ \A j \in First(i) .. i + NumberLength(i) - 1 : Token(j) \in Digits
<1> DEFINE N == Len(buf_TCP)
           ends == {j \in First(i) .. N + 1 : Token(j) \notin Digits}
<1>1. N \in Nat /\ i \in 1 .. N + 1 /\ DOMAIN buf_TCP = 1 .. N
  OBVIOUS
<1>2. Token(N + 1) = NUL /\ Token(N + 1) \notin Digits
  BY <1>1, NotDigits DEF Token
<1>3. First(i) \in i .. i + 1 /\ First(i) <= N + 1
  BY <1>1, <1>2 DEF First, NUL
<1>4. ends \in SUBSET Nat /\ N + 1 \in ends
  BY <1>1, <1>2, <1>3
<1>5. NumberLength(i) = Min(ends) - i
  BY DEF NumberLength, First
<1>6. Min(ends) \in ends /\ \A j \in ends : Min(ends) <= j
  <2> HIDE DEF ends
  <2>1. QED
    BY <1>4, LeastElement
<1> DEFINE e == Min(ends)
<1>7. e \in First(i) .. N + 1 /\ Token(e) \notin Digits
  BY <1>6
<1>8. \A j \in First(i) .. N + 1 : Token(j) \notin Digits => e <= j
  BY <1>6
<1> HIDE DEF e
<1>9. NumberLength(i) = e - i
  BY <1>5 DEF e
<1> HIDE DEF ends
<1>10. i + NumberLength(i) = e
  BY <1>1, <1>3, <1>7, <1>9
<1>11. NumberLength(i) \in Nat /\ First(i) <= e /\ e <= N + 1
  BY <1>1, <1>3, <1>7, <1>9
<1>12. \A j \in First(i) .. e - 1 : Token(j) \in Digits
  BY <1>3, <1>7, <1>8
<1>13. QED
  BY <1>7, <1>10, <1>11, <1>12

\* The length of a number is where the digits end.
LEMMA NumberLengthIs ==
  ASSUME buf_TCP \in Seq(Tokens), NEW i \in 1 .. Len(buf_TCP) + 1, NEW n \in Nat,
         First(i) <= i + n, Token(i + n) \notin Digits,
         \A j \in First(i) .. i + n - 1 : Token(j) \in Digits
  PROVE  NumberLength(i) = n
<1>1. First(i) \in {i, i + 1}
  BY DEF First
<1>2. CASE NumberLength(i) < n
  <2>1. i + NumberLength(i) \in First(i) .. i + n - 1
    BY <1>1, <1>2, NumberLengthFacts
  <2>2. QED
    BY <2>1, NumberLengthFacts
<1>3. CASE NumberLength(i) > n
  <2>1. i + n \in First(i) .. i + NumberLength(i) - 1
    BY <1>1, <1>3, NumberLengthFacts
  <2>2. QED
    BY <2>1, NumberLengthFacts
<1>4. QED
  BY <1>2, <1>3, NumberLengthFacts

\* The sequence m holds s from position i on.
Holds(m, i, s) ==
  /\ i + Len(s) - 1 <= Len(m)
  /\ \A j \in 1 .. Len(s) : m[i + j - 1] = s[j]

\* A number that the buffer holds, and that does not go on behind it, is read
\* as what an int keeps of it.
THEOREM NumberAtHeld ==
  ASSUME buf_TCP \in Seq(Tokens), NEW i \in Nat \ {0}, NEW v \in Int,
         Holds(buf_TCP, i, numberToString(v)),
         Token(i + Len(numberToString(v))) \notin Digits
  PROVE  /\ NumberLength(i) = Len(numberToString(v))
         /\ NumberAt(i) = Wrap(v)
<1> DEFINE s == numberToString(v)
           n == Len(s)
           N == Len(buf_TCP)
<1>1. s \in Seq(Digits \cup {"-"}) /\ n \in Nat /\ n > 0 /\ N \in Nat
  <2>1. s \in Seq(Digits \cup {"-"}) /\ Len(s) > 0
    BY NumberToStringFacts
  <2> HIDE DEF s
  <2>2. QED
    BY <2>1
<1>2. i + n - 1 <= N /\ Token(i + n) \notin Digits
  BY DEF Holds
<1> HIDE DEF n, N
<1>3. i \in 1 .. N + 1
  BY <1>1, <1>2
<1>4. \A k \in 1 .. n : i + k - 1 \in 1 .. N /\ Token(i + k - 1) = s[k] /\ buf_TCP[i + k - 1] = s[k]
  <2> SUFFICES ASSUME NEW k \in 1 .. n
               PROVE  i + k - 1 \in 1 .. N /\ Token(i + k - 1) = s[k] /\ buf_TCP[i + k - 1] = s[k]
    OBVIOUS
  <2>1. i + k - 1 \in 1 .. N
    BY <1>1, <1>2
  <2>2. buf_TCP[i + k - 1] = s[k]
    BY DEF Holds, n
  <2>3. QED
    BY <2>1, <2>2 DEF Token, N
<1>5. CASE v >= 0
  <2>1. s = DigitsOf[v] /\ v \in Nat
    BY <1>5, NumberToStringFacts
  <2>2. s \in Seq(Digits) /\ ValueOf(s) = Wrap(v)
    BY <2>1, ValueOfDigitsOf
  <2> HIDE DEF s
  <2>3. \A k \in 1 .. n : s[k] \in Digits
    BY <2>2 DEF n
  <2>4. Token(i) \in Digits
    <3>1. 1 \in 1 .. n /\ i + 1 - 1 = i
      BY <1>1
    <3>2. QED
      BY <1>4, <2>3, <3>1
  <2>5. Token(i) # "-" /\ First(i) = i
    BY <2>4, NotDigits DEF First
  <2>6. \A j \in First(i) .. i + n - 1 : Token(j) \in Digits
    <3> SUFFICES ASSUME NEW j \in i .. i + n - 1 PROVE Token(j) \in Digits
      BY <2>5
    <3>1. j - i + 1 \in 1 .. n /\ i + (j - i + 1) - 1 = j
      BY <1>1
    <3>2. QED
      BY <1>4, <2>3, <3>1
  <2>7. NumberLength(i) = n
    BY <1>1, <1>2, <1>3, <2>5, <2>6, NumberLengthIs DEF N
  <2>8. SubSeq(buf_TCP, i, i + n - 1) = s
    <3>1. /\ SubSeq(buf_TCP, i, i + n - 1) \in Seq(Tokens)
          /\ Len(SubSeq(buf_TCP, i, i + n - 1)) = n
          /\ \A k \in 1 .. n : SubSeq(buf_TCP, i, i + n - 1)[k] = buf_TCP[i + k - 1]
      BY <1>1, <1>2 DEF N
    <3>2. QED
      <4> DEFINE u == SubSeq(buf_TCP, i, i + n - 1)
      <4>1. Digits \subseteq Tokens
        BY DEF Tokens, MessageTokens
      <4>2. s \in Seq(Tokens) /\ Len(s) = n
        BY <2>2, <4>1, SeqMonotonic DEF n
      <4>3. \A k \in 1 .. n : u[k] = s[k]
        BY <3>1, <1>4
      <4> HIDE DEF u
      <4>4. u \in Seq(Tokens) /\ Len(u) = n
        BY <3>1 DEF u
      <4>5. u = s
        BY <4>2, <4>3, <4>4, SeqEqual
      <4>6. QED
        BY <4>5 DEF u
  <2>9. NumberAt(i) = Wrap(v)
    BY <2>2, <2>5, <2>7, <2>8 DEF NumberAt
  <2>10. QED
    BY <2>7, <2>9 DEF n, s
<1>6. CASE v < 0
  <2> DEFINE t == DigitsOf[-v]
  <2>1. -v \in Nat /\ s = <<"-">> \o t
    BY <1>6, NumberToStringFacts
  <2>2. t \in Seq(Digits) /\ ValueOf(t) = Wrap(-v)
    BY <2>1, ValueOfDigitsOf
  <2> HIDE DEF s, t
  <2>3. /\ n = Len(t) + 1 /\ s[1] = "-"
        /\ \A k \in 1 .. Len(t) : s[k + 1] = t[k] /\ t[k] \in Digits
    BY <2>1, <2>2 DEF n
  <2>4. Token(i) = "-"
    <3>1. 1 \in 1 .. n /\ i + 1 - 1 = i
      BY <1>1
    <3>2. QED
      BY <1>4, <2>3, <3>1
  <2>5. First(i) = i + 1
    BY <2>4 DEF First
  <2>6. \A k \in 1 .. Len(t) : Token(i + k) = t[k] /\ buf_TCP[i + k] = t[k] /\ t[k] \in Digits
    <3> SUFFICES ASSUME NEW k \in 1 .. Len(t)
                 PROVE  Token(i + k) = t[k] /\ buf_TCP[i + k] = t[k] /\ t[k] \in Digits
      OBVIOUS
    <3>1. k + 1 \in 1 .. n /\ i + (k + 1) - 1 = i + k
      BY <1>1, <2>3, <2>2
    <3>2. QED
      BY <1>4, <2>3, <3>1
  <2>7. \A j \in First(i) .. i + n - 1 : Token(j) \in Digits
    <3> SUFFICES ASSUME NEW j \in i + 1 .. i + n - 1 PROVE Token(j) \in Digits
      BY <2>5
    <3>1. j - i \in 1 .. Len(t) /\ i + (j - i) = j
      BY <1>1, <2>3, <2>2
    <3>2. QED
      BY <2>6, <3>1
  <2>8. NumberLength(i) = n
    BY <1>1, <1>2, <1>3, <2>5, <2>7, NumberLengthIs DEF N
  <2>9. SubSeq(buf_TCP, i + 1, i + n - 1) = t
    <3>1. /\ SubSeq(buf_TCP, i + 1, i + n - 1) \in Seq(Tokens)
          /\ Len(SubSeq(buf_TCP, i + 1, i + n - 1)) = Len(t)
          /\ \A k \in 1 .. Len(t) : SubSeq(buf_TCP, i + 1, i + n - 1)[k] = buf_TCP[i + k]
      <4>1. i + 1 \in Int /\ i + n - 1 \in Int /\ Len(t) \in Nat
            /\ Len(t) = (i + n - 1) - (i + 1) + 1 /\ i + 1 > 0 /\ i + n - 1 <= N
        BY <1>1, <1>2, <2>2, <2>3
      <4>2. /\ SubSeq(buf_TCP, i + 1, i + n - 1) \in Seq(Tokens)
            /\ Len(SubSeq(buf_TCP, i + 1, i + n - 1)) = Len(t)
            /\ \A k \in 1 .. Len(t) :
                 SubSeq(buf_TCP, i + 1, i + n - 1)[k] = buf_TCP[(i + 1) + k - 1]
        BY <4>1 DEF N
      <4>3. \A k \in 1 .. Len(t) : (i + 1) + k - 1 = i + k
        OBVIOUS
      <4>4. QED
        BY <4>2, <4>3
    <3>2. QED
      <4> DEFINE u == SubSeq(buf_TCP, i + 1, i + n - 1)
      <4>1. Digits \subseteq Tokens
        BY DEF Tokens, MessageTokens
      <4>2. t \in Seq(Tokens)
        BY <2>2, <4>1, SeqMonotonic
      <4>3. \A k \in 1 .. Len(t) : u[k] = t[k]
        BY <3>1, <2>6
      <4> HIDE DEF u
      <4>4. u \in Seq(Tokens) /\ Len(u) = Len(t)
        BY <3>1 DEF u
      <4>5. u = t
        BY <4>2, <4>3, <4>4, SeqEqual
      <4>6. QED
        BY <4>5 DEF u
  <2>10. NumberAt(i) = Wrap(-ValueOf(t))
    BY <2>4, <2>8, <2>9 DEF NumberAt
  <2>11. Wrap(-Wrap(-v)) = Wrap(-(-v)) /\ -(-v) = v
    BY WrapOfNegative
  <2>12. NumberAt(i) = Wrap(v)
    BY <2>2, <2>10, <2>11
  <2>13. QED
    BY <2>8, <2>12 DEF n, s
<1>7. QED
  BY <1>5, <1>6

-----------------------------------------------------------------------------
(***************************************************************************)
(* Cuts                                                                    *)
(***************************************************************************)

\* A buffer b with what one recv returned of the message m.
IsCut(b, m) ==
  /\ Len(b) <= Len(m)
  /\ \A j \in 1 .. Len(b) :
       b[j] = m[j] \/ (j = Len(b) /\ b[j] = FRAGMENT /\ m[j] \notin Digits \cup {"-"})

\* A fragment is no token of a message, and the end of the buffer no token.
LEMMA NoFragment == FRAGMENT \notin MessageTokens /\ NUL \notin Tokens
  BY DigitFacts DEF MessageTokens, Tokens, FRAGMENT, CRLF, NUL

\* What recv returns of a message is a cut of it.
LEMMA ReceivedIsCut ==
  ASSUME NEW m \in Seq(MessageTokens), NEW b \in Received(m)
  PROVE  b \in Seq(Tokens) /\ IsCut(b, m)
<1>1. m \in Seq(Tokens) /\ Len(m) \in Nat
  BY SeqMonotonic DEF Tokens
<1>2. CASE b \in Prefixes(m)
  <2>1. PICK k \in 0 .. Len(m) : b = SubSeq(m, 1, k)
    BY <1>2 DEF Prefixes
  <2>2. /\ SubSeq(m, 1, k) \in Seq(Tokens)
        /\ Len(SubSeq(m, 1, k)) = k
        /\ \A j \in 1 .. k : SubSeq(m, 1, k)[j] = m[j]
    BY <1>1, <2>1
  <2>3. QED
    BY <1>1, <2>1, <2>2 DEF IsCut
<1>3. CASE b \notin Prefixes(m)
  <2>1. PICK k \in 1 .. Len(m) : /\ m[k] \notin Digits \cup {"-"}
                                 /\ b = Append(SubSeq(m, 1, k - 1), FRAGMENT)
    BY <1>3 DEF Received
  <2> DEFINE s == SubSeq(m, 1, k - 1)
  <2>2. /\ s \in Seq(Tokens)
        /\ Len(s) = k - 1
        /\ \A j \in 1 .. k - 1 : s[j] = m[j]
    BY <1>1, <2>1
  <2> HIDE DEF s
  <2>3. FRAGMENT \in Tokens
    BY DEF Tokens
  <2>4. b = Append(s, FRAGMENT)
    BY <2>1 DEF s
  <2>5. /\ b \in Seq(Tokens) /\ Len(b) = k /\ b[k] = FRAGMENT
        /\ \A j \in 1 .. k - 1 : b[j] = m[j]
    BY <2>2, <2>3, <2>4
  <2>6. QED
    BY <1>1, <2>1, <2>5 DEF IsCut
<1>4. QED
  BY <1>2, <1>3

\* In front of a token that was received whole, the message was received whole.
LEMMA CutToken ==
  ASSUME NEW m \in Seq(MessageTokens), buf_TCP \in Seq(Tokens), IsCut(buf_TCP, m),
         NEW i \in Nat \ {0}, Token(i) # NUL, Token(i) # FRAGMENT
  PROVE  /\ i <= Len(buf_TCP) /\ i <= Len(m)
         /\ \A j \in 1 .. i : j \in DOMAIN buf_TCP /\ Token(j) = m[j] /\ buf_TCP[j] = m[j]
<1>1. i \in 1 .. Len(buf_TCP) /\ Token(i) = buf_TCP[i]
  BY DEF Token
<1>2. Len(buf_TCP) <= Len(m) /\ Len(buf_TCP) \in Nat /\ Len(m) \in Nat
  BY DEF IsCut
<1>3. \A j \in 1 .. i : buf_TCP[j] = m[j]
  BY <1>1, <1>2 DEF IsCut
<1>4. QED
  BY <1>1, <1>2, <1>3 DEF Token

\* What the buffer holds at a position is the message's token, a fragment, or
\* nothing.
LEMMA CutTokens ==
  ASSUME NEW m \in Seq(MessageTokens), buf_TCP \in Seq(Tokens), IsCut(buf_TCP, m),
         NEW i \in Nat \ {0}
  PROVE  Token(i) \in {NUL, FRAGMENT} \/ (i <= Len(m) /\ Token(i) = m[i])
  BY CutToken

\* A number of the header is read whole, or what follows is not received whole.
THEOREM HeaderNumber ==
  ASSUME NEW m \in Seq(MessageTokens), buf_TCP \in Seq(Tokens), IsCut(buf_TCP, m),
         NEW i \in 1 .. Len(buf_TCP) + 1, NEW v \in Nat,
         Holds(m, i, numberToString(v)),
         i + Len(numberToString(v)) <= Len(m),
         m[i + Len(numberToString(v))] \notin Digits,
         Token(i + NumberLength(i)) \notin {NUL, FRAGMENT}
  PROVE  /\ NumberLength(i) = Len(numberToString(v))
         /\ NumberAt(i) = Wrap(v)
         /\ Token(i + Len(numberToString(v))) = m[i + Len(numberToString(v))]
         /\ i + Len(numberToString(v)) <= Len(buf_TCP)
<1> DEFINE s == numberToString(v)
           n == Len(s)
           e == i + NumberLength(i)
<1>1. s \in Seq(Digits) /\ n \in Nat /\ n > 0
  <2>1. s = DigitsOf[v]
    BY NumberToStringFacts
  <2>2. DigitsOf[v] \in Seq(Digits) /\ Len(DigitsOf[v]) > 0
    BY ValueOfDigitsOf
  <2>3. s \in Seq(Digits) /\ Len(s) > 0
    BY <2>1, <2>2
  <2> HIDE DEF s
  <2>4. QED
    BY <2>3
<1>2. \A k \in 1 .. n : m[i + k - 1] = s[k] /\ s[k] \in Digits
  BY <1>1 DEF Holds
<1>3. NumberLength(i) \in Nat /\ First(i) <= e /\ e <= Len(buf_TCP) + 1 /\ Token(e) \notin Digits
      /\ \A j \in First(i) .. e - 1 : Token(j) \in Digits
  BY NumberLengthFacts
<1>4. i + n <= Len(m) /\ m[i + n] \notin Digits
  OBVIOUS
<1>5. Token(e) # NUL /\ Token(e) # FRAGMENT
  OBVIOUS
<1>6. First(i) \in i .. i + 1
  BY DEF First
<1> HIDE DEF s, n, e
<1>7. e \in Nat \ {0}
  BY <1>3 DEF e
<1>8. /\ e <= Len(buf_TCP) /\ e <= Len(m)
      /\ \A j \in 1 .. e : j \in DOMAIN buf_TCP /\ Token(j) = m[j] /\ buf_TCP[j] = m[j]
  BY <1>5, <1>7, CutToken
<1>9. i <= e
  BY <1>3 DEF e
<1>10. e >= i + n
  <2> SUFFICES ASSUME e < i + n PROVE FALSE
    BY <1>1, <1>7
  <2>1. e - i + 1 \in 1 .. n /\ i + (e - i + 1) - 1 = e
    BY <1>1, <1>7, <1>9
  <2>2. m[e] \in Digits
    BY <1>2, <2>1
  <2>3. Token(e) = m[e]
    BY <1>7, <1>8
  <2>4. QED
    BY <1>3, <2>2, <2>3
<1>11. e <= i + n
  <2> SUFFICES ASSUME e > i + n PROVE FALSE
    BY <1>1, <1>7
  <2>1. i + n \in First(i) .. e - 1 /\ i + n \in 1 .. e
    BY <1>1, <1>6, <1>7
  <2>2. Token(i + n) \in Digits /\ Token(i + n) = m[i + n]
    BY <1>3, <1>8, <2>1
  <2>3. QED
    BY <1>4, <2>2
<1>12. e = i + n
  BY <1>1, <1>7, <1>10, <1>11
<1>13. NumberLength(i) = n
  BY <1>1, <1>3, <1>12 DEF e
<1>14. Holds(buf_TCP, i, s)
  <2>1. i + n - 1 <= Len(buf_TCP)
    BY <1>1, <1>8, <1>12
  <2>2. ASSUME NEW k \in 1 .. n
        PROVE  buf_TCP[i + k - 1] = s[k]
    <3>1. i + k - 1 \in 1 .. e
      BY <1>1, <1>12
    <3>2. QED
      BY <1>2, <1>8, <3>1
  <2>3. QED
    BY <2>1, <2>2 DEF Holds, n
<1>15. NumberAt(i) = Wrap(v)
  <2>1. Token(i + Len(s)) \notin Digits /\ i \in Nat \ {0} /\ v \in Int
    BY <1>3, <1>12 DEF n
  <2>2. QED
    BY <1>14, <2>1, NumberAtHeld DEF s
<1>16. Token(i + n) = m[i + n] /\ i + n <= Len(buf_TCP)
  BY <1>7, <1>8, <1>12
<1>17. QED
  BY <1>13, <1>15, <1>16 DEF n, s

\* The number at the end of the message is read whole if it has the length of
\* the whole number.
LEMMA BodyNumber ==
  ASSUME NEW m \in Seq(MessageTokens), buf_TCP \in Seq(Tokens), IsCut(buf_TCP, m),
         NEW i \in 1 .. Len(buf_TCP) + 1, NEW v \in Int,
         Holds(m, i, numberToString(v)),
         i + Len(numberToString(v)) - 1 = Len(m),
         NumberLength(i) = Len(numberToString(v))
  PROVE  NumberAt(i) = Wrap(v)
<1> DEFINE s == numberToString(v)
           n == Len(s)
<1>1. s \in Seq(Digits \cup {"-"}) /\ n > 0
  BY NumberToStringFacts
<1>2. \A k \in 1 .. n : m[i + k - 1] = s[k]
  BY DEF Holds
<1>3. i + n <= Len(buf_TCP) + 1 /\ Token(i + n) \notin Digits
  BY NumberLengthFacts
<1>4. i + n - 1 = Len(m)
  OBVIOUS
<1> HIDE DEF s
<1>5. n \in Nat /\ \A k \in 1 .. n : s[k] \in Digits \cup {"-"}
  BY <1>1
<1> HIDE DEF n
<1>6. ASSUME NEW k \in 1 .. n
      PROVE  buf_TCP[i + k - 1] = s[k]
  <2>1. i + k - 1 \in 1 .. Len(buf_TCP)
    BY <1>3, <1>5
  <2>2. m[i + k - 1] \in Digits \cup {"-"}
    BY <1>2, <1>5
  <2>3. buf_TCP[i + k - 1] = m[i + k - 1]
    BY <2>1, <2>2 DEF IsCut
  <2>4. QED
    BY <1>2, <2>3
<1>7. Holds(buf_TCP, i, s)
  BY <1>3, <1>5, <1>6 DEF Holds, n
<1>8. QED
  BY <1>3, <1>7, NumberAtHeld DEF n, s

-----------------------------------------------------------------------------
(***************************************************************************)
(* The worker's message                                                    *)
(***************************************************************************)

\* Where the lines of the message begin, and where its body does.
FieldLength(t, i) == Len(numberToString(t.field[i]))
ValueLength(t) == Len(numberToString(t.value))
RowAt(t) == 5 + FieldLength(t, 1)
ColumnAt(t) == RowAt(t) + FieldLength(t, 2) + 2
LastChunkAt(t) == ColumnAt(t) + FieldLength(t, 3) + 2
LengthAt(t) == LastChunkAt(t) + 3
BlankAt(t) == LengthAt(t) + Len(numberToString(ValueLength(t))) + 2
ValueAt(t) == BlankAt(t) + 2

Flag(last_chunk) == IF last_chunk THEN "TRUE" ELSE "FALSE"

\* What a concatenation holds.
LEMMA Joined ==
  ASSUME NEW S, NEW s \in Seq(S), NEW t \in Seq(S)
  PROVE  /\ s \o t \in Seq(S) /\ Len(s \o t) = Len(s) + Len(t)
         /\ \A i \in 1 .. Len(s) : (s \o t)[i] = s[i]
         /\ \A i \in 1 .. Len(t) : (s \o t)[Len(s) + i] = t[i]
  OBVIOUS

\* Short sequences.
LEMMA Singleton ==
  ASSUME NEW S, NEW x \in S
  PROVE  <<x>> \in Seq(S) /\ Len(<<x>>) = 1 /\ <<x>>[1] = x
  OBVIOUS

LEMMA Pair ==
  ASSUME NEW S, NEW x \in S, NEW y \in S
  PROVE  <<x, y>> \in Seq(S) /\ Len(<<x, y>>) = 2
  OBVIOUS

LEMMA Triple ==
  ASSUME NEW S, NEW x \in S, NEW y \in S, NEW z \in S
  PROVE  <<x, y, z>> \in Seq(S) /\ Len(<<x, y, z>>) = 3
  OBVIOUS

\* A sequence that is followed by another one keeps what it holds.
LEMMA HoldsJoined ==
  ASSUME NEW S, NEW s \in Seq(S), NEW t \in Seq(S)
  PROVE  /\ Holds(s \o t, Len(s) + 1, t)
         /\ \A i \in Nat \ {0}, u \in Seq(S) : Holds(s, i, u) => Holds(s \o t, i, u)
<1>1. /\ s \o t \in Seq(S) /\ Len(s \o t) = Len(s) + Len(t)
      /\ \A i \in 1 .. Len(s) : (s \o t)[i] = s[i]
      /\ \A i \in 1 .. Len(t) : (s \o t)[Len(s) + i] = t[i]
  BY Joined
<1> DEFINE j == s \o t
<1> HIDE DEF j
<1>2. Len(s) \in Nat /\ Len(t) \in Nat
  OBVIOUS
<1>3. Holds(j, Len(s) + 1, t)
  <2>1. (Len(s) + 1) + Len(t) - 1 <= Len(j)
    BY <1>1, <1>2 DEF j
  <2>2. ASSUME NEW k \in 1 .. Len(t)
        PROVE  j[(Len(s) + 1) + k - 1] = t[k]
    <3>1. (Len(s) + 1) + k - 1 = Len(s) + k
      BY <1>2
    <3>2. QED
      BY <1>1, <3>1 DEF j
  <2>3. QED
    BY <2>1, <2>2 DEF Holds
<1>4. ASSUME NEW i \in Nat \ {0}, NEW u \in Seq(S), Holds(s, i, u)
      PROVE  Holds(j, i, u)
  <2>1. i + Len(u) - 1 <= Len(j)
    BY <1>1, <1>2, <1>4 DEF j, Holds
  <2>2. ASSUME NEW k \in 1 .. Len(u)
        PROVE  j[i + k - 1] = u[k]
    <3>1. i + k - 1 \in 1 .. Len(s) /\ s[i + k - 1] = u[k]
      BY <1>4 DEF Holds
    <3>2. QED
      BY <1>1, <3>1 DEF j
  <2>3. QED
    BY <2>1, <2>2 DEF Holds
<1>5. QED
  BY <1>3, <1>4 DEF j

\* A line of the header: its name, its value, and its end.
LEMMA LineHolds ==
  ASSUME NEW name \in MessageTokens, NEW s \in Seq(MessageTokens)
  PROVE  /\ Line(name, s) \in Seq(MessageTokens) /\ Len(Line(name, s)) = Len(s) + 2
         /\ Line(name, s)[1] = name /\ Line(name, s)[Len(s) + 2] = CRLF
         /\ Holds(Line(name, s), 2, s)
<1>1. CRLF \in MessageTokens
  BY DEF MessageTokens
<1>2. /\ <<name>> \in Seq(MessageTokens) /\ Len(<<name>>) = 1 /\ <<name>>[1] = name
      /\ <<CRLF>> \in Seq(MessageTokens) /\ Len(<<CRLF>>) = 1 /\ <<CRLF>>[1] = CRLF
  BY <1>1
<1> DEFINE p == <<name>> \o s
<1>3. /\ p \in Seq(MessageTokens) /\ Len(p) = Len(s) + 1 /\ p[1] = name
      /\ Holds(p, 2, s)
  <2> DEFINE u == <<name>>
  <2>1. u \in Seq(MessageTokens) /\ Len(u) = 1 /\ u[1] = name
    BY <1>2
  <2> HIDE DEF u
  <2>2. /\ u \o s \in Seq(MessageTokens) /\ Len(u \o s) = Len(u) + Len(s)
        /\ \A i \in 1 .. Len(u) : (u \o s)[i] = u[i]
    BY <2>1, Joined
  <2>3. Holds(u \o s, Len(u) + 1, s)
    BY <2>1, HoldsJoined
  <2>4. p = u \o s
    BY DEF u
  <2>5. 1 \in 1 .. Len(u) /\ Len(u) + 1 = 2 /\ Len(u) + Len(s) = Len(s) + 1
    BY <2>1
  <2>6. QED
    BY <2>1, <2>2, <2>3, <2>4, <2>5
<1> HIDE DEF p
<1>4. Line(name, s) = p \o <<CRLF>>
  BY DEF Line, p
<1> DEFINE q == <<CRLF>>
<1>5. q \in Seq(MessageTokens) /\ Len(q) = 1 /\ q[1] = CRLF
  BY <1>2
<1> HIDE DEF q
<1>6. /\ p \o q \in Seq(MessageTokens) /\ Len(p \o q) = Len(p) + Len(q)
      /\ \A i \in 1 .. Len(p) : (p \o q)[i] = p[i]
      /\ \A i \in 1 .. Len(q) : (p \o q)[Len(p) + i] = q[i]
  <2>1. p \in Seq(MessageTokens) /\ q \in Seq(MessageTokens)
    BY <1>3, <1>5
  <2>2. p \o q \in Seq(MessageTokens) /\ Len(p \o q) = Len(p) + Len(q)
    BY <2>1, Joined
  <2>3. \A i \in 1 .. Len(p) : (p \o q)[i] = p[i]
    BY <2>1, Joined
  <2>4. \A i \in 1 .. Len(q) : (p \o q)[Len(p) + i] = q[i]
    BY <2>1, Joined
  <2>5. QED
    BY <2>2, <2>3, <2>4
<1>7. Holds(p \o q, 2, s)
  BY <1>3, <1>5, HoldsJoined
<1>8. 1 \in 1 .. Len(p) /\ 1 \in 1 .. Len(q) /\ Len(p) + 1 = Len(s) + 2
  BY <1>3, <1>5
<1>9. (p \o q)[1] = name /\ (p \o q)[Len(s) + 2] = CRLF
  BY <1>3, <1>5, <1>6, <1>8
<1>10. QED
  BY <1>3, <1>4, <1>5, <1>6, <1>7, <1>8, <1>9 DEF q

\* Where a part of a part of a message is.
LEMMA HoldsPart ==
  ASSUME NEW m, NEW i \in Nat \ {0}, NEW S, NEW u \in Seq(S), Holds(m, i, u),
         NEW j \in Nat \ {0}, NEW T, NEW w \in Seq(T), Holds(u, j, w), Len(m) \in Nat
  PROVE  Holds(m, i + j - 1, w)
<1>1. (i + j - 1) + Len(w) - 1 <= Len(m)
  BY DEF Holds
<1>2. ASSUME NEW k \in 1 .. Len(w)
      PROVE  m[(i + j - 1) + k - 1] = w[k]
  <2>1. j + k - 1 \in 1 .. Len(u) /\ u[j + k - 1] = w[k]
    BY DEF Holds
  <2>2. m[i + (j + k - 1) - 1] = u[j + k - 1]
    BY <2>1 DEF Holds
  <2>3. i + (j + k - 1) - 1 = (i + j - 1) + k - 1
    OBVIOUS
  <2>4. QED
    BY <2>1, <2>2, <2>3
<1>3. QED
  BY <1>1, <1>2 DEF Holds

Has(m, i, u) == i \in Nat \ {0} /\ u \in Seq(MessageTokens) /\ Holds(m, i, u)

\* What is added behind a message leaves its parts where they are.
LEMMA HasJoined ==
  ASSUME NEW a \in Seq(MessageTokens), NEW u \in Seq(MessageTokens)
  PROVE  /\ a \o u \in Seq(MessageTokens) /\ Len(a \o u) = Len(a) + Len(u)
         /\ Has(a \o u, Len(a) + 1, u)
         /\ \A i, w : Has(a, i, w) => Has(a \o u, i, w)
<1>1. a \o u \in Seq(MessageTokens) /\ Len(a \o u) = Len(a) + Len(u) /\ Len(a) + 1 \in Nat \ {0}
  OBVIOUS
<1>2. Holds(a \o u, Len(a) + 1, u)
  BY HoldsJoined
<1>3. \A i \in Nat \ {0}, w \in Seq(MessageTokens) : Holds(a, i, w) => Holds(a \o u, i, w)
  BY HoldsJoined
<1>4. QED
  BY <1>1, <1>2, <1>3 DEF Has

\* The parts of the message, one behind the other.
LEMMA PostMessageParts ==
  ASSUME NEW t \in Tasks, NEW last_chunk \in BOOLEAN
  PROVE  LET m == PostMessage(t, last_chunk)
             n == FieldLength(t, 1)
         IN /\ m \in Seq(MessageTokens)
            /\ Holds(m, 1, <<"POST /">>)
            /\ Holds(m, 2, numberToString(t.field[1]))
            /\ Holds(m, n + 2, <<" HTTP/", "1.1", CRLF>>)
            /\ Holds(m, RowAt(t), Line("Row: ", numberToString(t.field[2])))
            /\ Holds(m, ColumnAt(t), Line("Column: ", numberToString(t.field[3])))
            /\ Holds(m, LastChunkAt(t), Line("Last-Chunk: ", <<Flag(last_chunk)>>))
            /\ Holds(m, LengthAt(t), Line("Content-Length: ", numberToString(ValueLength(t))))
            /\ Holds(m, BlankAt(t), <<CRLF, CRLF>>)
            /\ Holds(m, ValueAt(t), numberToString(t.value))
            /\ Len(m) = ValueAt(t) + ValueLength(t) - 1
<1> DEFINE d1 == numberToString(t.field[1])
           d2 == numberToString(t.field[2])
           d3 == numberToString(t.field[3])
           d4 == numberToString(ValueLength(t))
           dv == numberToString(t.value)
           a0 == <<"POST /">>
           s1 == <<" HTTP/", "1.1", CRLF>>
           l1 == Line("Row: ", d2)
           l2 == Line("Column: ", d3)
           l3 == Line("Last-Chunk: ", <<Flag(last_chunk)>>)
           l4 == Line("Content-Length: ", d4)
           s2 == <<CRLF, CRLF>>
           a1 == a0 \o d1
           a2 == a1 \o s1
           a3 == a2 \o l1
           a4 == a3 \o l2
           a5 == a4 \o l3
           a6 == a5 \o l4
           a7 == a6 \o s2
           a8 == a7 \o dv
<1>1. /\ t.field[1] \in Nat /\ t.field[2] \in Nat /\ t.field[3] \in Nat /\ t.value \in Int
      /\ ValueLength(t) \in Nat
  <2>1. t.field \in Nat \X Nat \X Nat /\ t.value \in Int
    BY DatabaseAssumption
  <2>2. dv \in Seq(Digits \cup {"-"})
    BY <2>1, NumberToStringFacts
  <2>3. Len(dv) \in Nat
    <3> HIDE DEF dv
    <3>1. QED
      BY <2>2
  <2>4. QED
    BY <2>1, <2>3 DEF ValueLength
<1>2. /\ d1 \in Seq(MessageTokens) /\ d2 \in Seq(MessageTokens) /\ d3 \in Seq(MessageTokens)
      /\ d4 \in Seq(MessageTokens) /\ dv \in Seq(MessageTokens)
  <2>1. ASSUME NEW v \in Int
        PROVE  numberToString(v) \in Seq(MessageTokens)
    <3>1. Digits \cup {"-"} \subseteq MessageTokens
      BY DEF MessageTokens
    <3>2. QED
      BY <3>1, NumberToStringFacts, SeqMonotonic
  <2> HIDE DEF d1, d2, d3, d4, dv
  <2>2. \A v \in Nat : v \in Int
    OBVIOUS
  <2>3. QED
    BY <1>1, <2>1, <2>2, Zenon DEF d1, d2, d3, d4, dv
<1>3. /\ PostMessage(t, last_chunk) = a8
      /\ FieldLength(t, 1) = Len(d1) /\ FieldLength(t, 2) = Len(d2) /\ FieldLength(t, 3) = Len(d3)
      /\ ValueLength(t) = Len(dv)
  BY DEF PostMessage, Flag, FieldLength, ValueLength
<1>4. /\ a0 \in Seq(MessageTokens) /\ Len(a0) = 1
      /\ s1 \in Seq(MessageTokens) /\ Len(s1) = 3
      /\ s2 \in Seq(MessageTokens) /\ Len(s2) = 2
  <2>1. /\ "POST /" \in MessageTokens /\ " HTTP/" \in MessageTokens /\ "1.1" \in MessageTokens
        /\ CRLF \in MessageTokens
    BY DEF MessageTokens
  <2>2. <<"POST /">> \in Seq(MessageTokens) /\ Len(<<"POST /">>) = 1
    BY <2>1, Singleton
  <2>3. <<" HTTP/", "1.1", CRLF>> \in Seq(MessageTokens) /\ Len(<<" HTTP/", "1.1", CRLF>>) = 3
    BY <2>1, Triple
  <2>4. <<CRLF, CRLF>> \in Seq(MessageTokens) /\ Len(<<CRLF, CRLF>>) = 2
    BY <2>1, Pair
  <2>5. QED
    BY <2>2, <2>3, <2>4
<1>5. /\ l1 \in Seq(MessageTokens) /\ Len(l1) = Len(d2) + 2
      /\ l2 \in Seq(MessageTokens) /\ Len(l2) = Len(d3) + 2
      /\ l3 \in Seq(MessageTokens) /\ Len(l3) = 3
      /\ l4 \in Seq(MessageTokens) /\ Len(l4) = Len(d4) + 2
  <2>1. /\ "Row: " \in MessageTokens /\ "Column: " \in MessageTokens
        /\ "Last-Chunk: " \in MessageTokens /\ "Content-Length: " \in MessageTokens
        /\ Flag(last_chunk) \in MessageTokens
    BY DEF MessageTokens, Flag
  <2> HIDE DEF d2, d3, d4
  <2>2. /\ l1 \in Seq(MessageTokens) /\ Len(l1) = Len(d2) + 2
        /\ l2 \in Seq(MessageTokens) /\ Len(l2) = Len(d3) + 2
        /\ l4 \in Seq(MessageTokens) /\ Len(l4) = Len(d4) + 2
    <3> HIDE DEF l1, l2, l4
    <3>1. l1 \in Seq(MessageTokens) /\ Len(l1) = Len(d2) + 2
      BY <1>2, <2>1, LineHolds DEF l1
    <3>2. l2 \in Seq(MessageTokens) /\ Len(l2) = Len(d3) + 2
      BY <1>2, <2>1, LineHolds DEF l2
    <3>3. l4 \in Seq(MessageTokens) /\ Len(l4) = Len(d4) + 2
      BY <1>2, <2>1, LineHolds DEF l4
    <3>4. QED
      BY <3>1, <3>2, <3>3
  <2>3. <<Flag(last_chunk)>> \in Seq(MessageTokens) /\ Len(<<Flag(last_chunk)>>) = 1
    BY <2>1, Singleton
  <2>4. l3 \in Seq(MessageTokens) /\ Len(l3) = 3
    <3> DEFINE f == <<Flag(last_chunk)>>
    <3>1. f \in Seq(MessageTokens) /\ Len(f) = 1 /\ l3 = Line("Last-Chunk: ", f)
      BY <2>3
    <3> HIDE DEF f
    <3>2. Line("Last-Chunk: ", f) \in Seq(MessageTokens) /\ Len(Line("Last-Chunk: ", f)) = Len(f) + 2
      BY <2>1, <3>1, LineHolds
    <3> HIDE DEF l3
    <3>3. l3 \in Seq(MessageTokens)
      BY <3>1, <3>2
    <3>4. Len(l3) = Len(f) + 2
      BY <3>1, <3>2
    <3>5. Len(f) = 1
      BY <3>1
    <3>6. Len(l3) = 3
      BY <3>4, <3>5
    <3>7. QED
      BY <3>3, <3>6
  <2>5. QED
    BY <2>2, <2>4
<1> HIDE DEF d1, d2, d3, dv, a0, s1, l1, l2, l3, l4, s2
<1>6. /\ Len(d1) \in Nat /\ Len(d2) \in Nat /\ Len(d3) \in Nat /\ Len(d4) \in Nat /\ Len(dv) \in Nat
      /\ d4 = numberToString(ValueLength(t))
  <2> HIDE DEF d4
  <2>1. Len(d1) \in Nat /\ Len(d2) \in Nat /\ Len(d3) \in Nat /\ Len(d4) \in Nat /\ Len(dv) \in Nat
    BY <1>2
  <2>2. QED
    BY <2>1 DEF d4
<1> HIDE DEF d4
<1>7. /\ RowAt(t) = 5 + Len(d1) /\ ColumnAt(t) = RowAt(t) + Len(d2) + 2
      /\ LastChunkAt(t) = ColumnAt(t) + Len(d3) + 2 /\ LengthAt(t) = LastChunkAt(t) + 3
      /\ BlankAt(t) = LengthAt(t) + Len(d4) + 2 /\ ValueAt(t) = BlankAt(t) + 2
  BY <1>3, <1>6 DEF RowAt, ColumnAt, LastChunkAt, LengthAt, BlankAt, ValueAt
<1>8. /\ RowAt(t) \in Nat \ {0} /\ ColumnAt(t) \in Nat \ {0} /\ LastChunkAt(t) \in Nat \ {0}
      /\ LengthAt(t) \in Nat \ {0} /\ BlankAt(t) \in Nat \ {0} /\ ValueAt(t) \in Nat \ {0}
  BY <1>6, <1>7
<1> HIDE DEF a1, a2, a3, a4, a5, a6, a7, a8
<1>9. /\ a0 \in Seq(MessageTokens) /\ Len(a0) = 1
      /\ Has(a0, 1, a0)
  BY <1>4 DEF Has, Holds
<1>10. /\ a1 \in Seq(MessageTokens) /\ Len(a1) = Len(d1) + 1
       /\ Has(a1, 1, a0) /\ Has(a1, 2, d1)
  <2>1. /\ a1 \in Seq(MessageTokens) /\ Len(a1) = Len(a0) + Len(d1)
        /\ Has(a1, Len(a0) + 1, d1)
        /\ \A i, w : Has(a0, i, w) => Has(a1, i, w)
    BY <1>2, <1>9, HasJoined DEF a1
  <2>2. Len(a0) + 1 = 2 /\ Len(a0) + Len(d1) = Len(d1) + 1
    BY <1>4, <1>5, <1>6, <1>7, <1>8, <1>9
  <2>3. Has(a1, 2, d1) /\ Len(a1) = Len(d1) + 1
    BY <2>1, <2>2
  <2>4. QED
    BY <1>9, <2>1, <2>3, Zenon
<1>11. /\ a2 \in Seq(MessageTokens) /\ Len(a2) = RowAt(t) - 1
       /\ Has(a2, 1, a0) /\ Has(a2, 2, d1) /\ Has(a2, Len(d1) + 2, s1)
  <2>1. /\ a2 \in Seq(MessageTokens) /\ Len(a2) = Len(a1) + Len(s1)
        /\ Has(a2, Len(a1) + 1, s1)
        /\ \A i, w : Has(a1, i, w) => Has(a2, i, w)
    BY <1>4, <1>10, HasJoined DEF a2
  <2>2. Len(a1) + 1 = Len(d1) + 2 /\ Len(a1) + Len(s1) = RowAt(t) - 1
    BY <1>4, <1>5, <1>6, <1>7, <1>8, <1>10
  <2>3. Has(a2, Len(d1) + 2, s1) /\ Len(a2) = RowAt(t) - 1
    BY <2>1, <2>2
  <2>4. QED
    BY <1>10, <2>1, <2>3, Zenon
<1>12. /\ a3 \in Seq(MessageTokens) /\ Len(a3) = ColumnAt(t) - 1
       /\ Has(a3, 1, a0) /\ Has(a3, 2, d1) /\ Has(a3, Len(d1) + 2, s1)
       /\ Has(a3, RowAt(t), l1)
  <2>1. /\ a3 \in Seq(MessageTokens) /\ Len(a3) = Len(a2) + Len(l1)
        /\ Has(a3, Len(a2) + 1, l1)
        /\ \A i, w : Has(a2, i, w) => Has(a3, i, w)
    BY <1>5, <1>11, HasJoined DEF a3
  <2>2. Len(a2) + 1 = RowAt(t) /\ Len(a2) + Len(l1) = ColumnAt(t) - 1
    BY <1>4, <1>5, <1>6, <1>7, <1>8, <1>11
  <2>3. Has(a3, RowAt(t), l1) /\ Len(a3) = ColumnAt(t) - 1
    BY <2>1, <2>2
  <2>4. QED
    BY <1>11, <2>1, <2>3, Zenon
<1>13. /\ a4 \in Seq(MessageTokens) /\ Len(a4) = LastChunkAt(t) - 1
       /\ Has(a4, 1, a0) /\ Has(a4, 2, d1) /\ Has(a4, Len(d1) + 2, s1)
       /\ Has(a4, RowAt(t), l1) /\ Has(a4, ColumnAt(t), l2)
  <2>1. /\ a4 \in Seq(MessageTokens) /\ Len(a4) = Len(a3) + Len(l2)
        /\ Has(a4, Len(a3) + 1, l2)
        /\ \A i, w : Has(a3, i, w) => Has(a4, i, w)
    BY <1>5, <1>12, HasJoined DEF a4
  <2>2. Len(a3) + 1 = ColumnAt(t) /\ Len(a3) + Len(l2) = LastChunkAt(t) - 1
    BY <1>4, <1>5, <1>6, <1>7, <1>8, <1>12
  <2>3. Has(a4, ColumnAt(t), l2) /\ Len(a4) = LastChunkAt(t) - 1
    BY <2>1, <2>2
  <2>4. QED
    BY <1>12, <2>1, <2>3, Zenon
<1>14. /\ a5 \in Seq(MessageTokens) /\ Len(a5) = LengthAt(t) - 1
       /\ Has(a5, 1, a0) /\ Has(a5, 2, d1) /\ Has(a5, Len(d1) + 2, s1)
       /\ Has(a5, RowAt(t), l1) /\ Has(a5, ColumnAt(t), l2) /\ Has(a5, LastChunkAt(t), l3)
  <2>1. /\ a5 \in Seq(MessageTokens) /\ Len(a5) = Len(a4) + Len(l3)
        /\ Has(a5, Len(a4) + 1, l3)
        /\ \A i, w : Has(a4, i, w) => Has(a5, i, w)
    BY <1>5, <1>13, HasJoined DEF a5
  <2>2. Len(a4) + 1 = LastChunkAt(t) /\ Len(a4) + Len(l3) = LengthAt(t) - 1
    BY <1>4, <1>5, <1>6, <1>7, <1>8, <1>13
  <2>3. Has(a5, LastChunkAt(t), l3) /\ Len(a5) = LengthAt(t) - 1
    BY <2>1, <2>2
  <2>4. QED
    BY <1>13, <2>1, <2>3, Zenon
<1>15. /\ a6 \in Seq(MessageTokens) /\ Len(a6) = BlankAt(t) - 1
       /\ Has(a6, 1, a0) /\ Has(a6, 2, d1) /\ Has(a6, Len(d1) + 2, s1)
       /\ Has(a6, RowAt(t), l1) /\ Has(a6, ColumnAt(t), l2) /\ Has(a6, LastChunkAt(t), l3)
       /\ Has(a6, LengthAt(t), l4)
  <2>1. /\ a6 \in Seq(MessageTokens) /\ Len(a6) = Len(a5) + Len(l4)
        /\ Has(a6, Len(a5) + 1, l4)
        /\ \A i, w : Has(a5, i, w) => Has(a6, i, w)
    BY <1>5, <1>14, HasJoined DEF a6
  <2>2. Len(a5) + 1 = LengthAt(t) /\ Len(a5) + Len(l4) = BlankAt(t) - 1
    BY <1>4, <1>5, <1>6, <1>7, <1>8, <1>14
  <2>3. Has(a6, LengthAt(t), l4) /\ Len(a6) = BlankAt(t) - 1
    BY <2>1, <2>2
  <2>4. QED
    BY <1>14, <2>1, <2>3, Zenon
<1>16. /\ a7 \in Seq(MessageTokens) /\ Len(a7) = ValueAt(t) - 1
       /\ Has(a7, 1, a0) /\ Has(a7, 2, d1) /\ Has(a7, Len(d1) + 2, s1)
       /\ Has(a7, RowAt(t), l1) /\ Has(a7, ColumnAt(t), l2) /\ Has(a7, LastChunkAt(t), l3)
       /\ Has(a7, LengthAt(t), l4) /\ Has(a7, BlankAt(t), s2)
  <2>1. /\ a7 \in Seq(MessageTokens) /\ Len(a7) = Len(a6) + Len(s2)
        /\ Has(a7, Len(a6) + 1, s2)
        /\ \A i, w : Has(a6, i, w) => Has(a7, i, w)
    BY <1>4, <1>15, HasJoined DEF a7
  <2>2. Len(a6) + 1 = BlankAt(t) /\ Len(a6) + Len(s2) = ValueAt(t) - 1
    BY <1>4, <1>5, <1>6, <1>7, <1>8, <1>15
  <2>3. Has(a7, BlankAt(t), s2) /\ Len(a7) = ValueAt(t) - 1
    BY <2>1, <2>2
  <2>4. QED
    BY <1>15, <2>1, <2>3, Zenon
<1>17. /\ a8 \in Seq(MessageTokens) /\ Len(a8) = ValueAt(t) + Len(dv) - 1
       /\ Has(a8, 1, a0) /\ Has(a8, 2, d1) /\ Has(a8, Len(d1) + 2, s1)
       /\ Has(a8, RowAt(t), l1) /\ Has(a8, ColumnAt(t), l2) /\ Has(a8, LastChunkAt(t), l3)
       /\ Has(a8, LengthAt(t), l4) /\ Has(a8, BlankAt(t), s2) /\ Has(a8, ValueAt(t), dv)
  <2>1. /\ a8 \in Seq(MessageTokens) /\ Len(a8) = Len(a7) + Len(dv)
        /\ Has(a8, Len(a7) + 1, dv)
        /\ \A i, w : Has(a7, i, w) => Has(a8, i, w)
    BY <1>2, <1>16, HasJoined DEF a8
  <2>2. Len(a7) + 1 = ValueAt(t) /\ Len(a7) + Len(dv) = ValueAt(t) + Len(dv) - 1
    BY <1>4, <1>5, <1>6, <1>7, <1>8, <1>16
  <2>3. Has(a8, ValueAt(t), dv) /\ Len(a8) = ValueAt(t) + Len(dv) - 1
    BY <2>1, <2>2
  <2>4. QED
    BY <1>16, <2>1, <2>3, Zenon
<1>18. QED
  BY <1>3, <1>17, Zenon DEF Has, a0, d1, d2, d3, d4, dv, s1, s2, l1, l2, l3, l4

\* The positions of the message's parts are positive, and so are their lengths.
LEMMA PositionsAreNat ==
  ASSUME NEW t \in Tasks
  PROVE  /\ \A i \in 1 .. 3 : t.field[i] \in Nat /\ FieldLength(t, i) \in Nat \ {0}
         /\ t.value \in Int /\ ValueLength(t) \in Nat \ {0}
         /\ Len(numberToString(ValueLength(t))) \in Nat \ {0}
         /\ RowAt(t) \in Nat \ {0} /\ ColumnAt(t) \in Nat \ {0} /\ LastChunkAt(t) \in Nat \ {0}
         /\ LengthAt(t) \in Nat \ {0} /\ BlankAt(t) \in Nat \ {0} /\ ValueAt(t) \in Nat \ {0}
<1>1. t.field \in Nat \X Nat \X Nat /\ t.value \in Int
  BY DatabaseAssumption
<1>2. ASSUME NEW v \in Int
      PROVE  Len(numberToString(v)) \in Nat \ {0}
  <2> DEFINE s == numberToString(v)
  <2>1. s \in Seq(Digits \cup {"-"}) /\ Len(s) > 0
    BY NumberToStringFacts
  <2> HIDE DEF s
  <2>2. Len(s) \in Nat \ {0}
    BY <2>1
  <2>3. QED
    BY <2>2 DEF s
<1>3. ASSUME NEW i \in 1 .. 3
      PROVE  t.field[i] \in Nat /\ FieldLength(t, i) \in Nat \ {0}
  <2>1. t.field[i] \in Nat
    BY <1>1
  <2>2. t.field[i] \in Int
    BY <2>1
  <2>3. Len(numberToString(t.field[i])) \in Nat \ {0}
    BY <1>2, <2>2, Zenon
  <2>4. QED
    BY <2>1, <2>3 DEF FieldLength
<1>4. ValueLength(t) \in Nat \ {0}
  BY <1>1, <1>2 DEF ValueLength
<1>5. Len(numberToString(ValueLength(t))) \in Nat \ {0}
  BY <1>2, <1>4
<1>6. RowAt(t) \in Nat \ {0}
  BY <1>3 DEF RowAt
<1>7. ColumnAt(t) \in Nat \ {0}
  BY <1>3, <1>6 DEF ColumnAt
<1>8. LastChunkAt(t) \in Nat \ {0}
  BY <1>3, <1>7 DEF LastChunkAt
<1>9. LengthAt(t) \in Nat \ {0}
  BY <1>8 DEF LengthAt
<1>10. BlankAt(t) \in Nat \ {0}
  BY <1>5, <1>9 DEF BlankAt
<1>11. ValueAt(t) \in Nat \ {0}
  BY <1>10 DEF ValueAt
<1>12. QED
  BY <1>1, <1>3, <1>4, <1>5, <1>6, <1>7, <1>8, <1>9, <1>10, <1>11

\* What a line of the message is made of.
LEMMA HoldsLine ==
  ASSUME NEW m \in Seq(MessageTokens), NEW i \in Nat \ {0}, NEW name \in MessageTokens,
         NEW s \in Seq(MessageTokens), Holds(m, i, Line(name, s))
  PROVE  /\ m[i] = name /\ Holds(m, i + 1, s) /\ m[i + Len(s) + 1] = CRLF
         /\ i + Len(s) + 1 <= Len(m)
<1> DEFINE l == Line(name, s)
<1>1. /\ l \in Seq(MessageTokens) /\ Len(l) = Len(s) + 2
      /\ l[1] = name /\ l[Len(s) + 2] = CRLF /\ Holds(l, 2, s)
  BY LineHolds
<1>2. Holds(m, i, l)
  OBVIOUS
<1> HIDE DEF l
<1>3. Len(s) \in Nat /\ Len(m) \in Nat
  OBVIOUS
<1>4. i + Len(l) - 1 <= Len(m) /\ \A k \in 1 .. Len(l) : m[i + k - 1] = l[k]
  BY <1>2 DEF Holds
<1>5. 1 \in 1 .. Len(l) /\ Len(s) + 2 \in 1 .. Len(l) /\ i + 1 - 1 = i
      /\ i + (Len(s) + 2) - 1 = i + Len(s) + 1 /\ i + 2 - 1 = i + 1
  BY <1>1, <1>3
<1>6. m[i] = name /\ m[i + Len(s) + 1] = CRLF
  BY <1>1, <1>4, <1>5
<1>7. Holds(m, i + 2 - 1, s)
  BY <1>1, <1>2, <1>3, HoldsPart
<1>8. QED
  BY <1>1, <1>3, <1>4, <1>5, <1>6, <1>7

\* Numbers are tokens of a message.
LEMMA NumberIsTokens ==
  ASSUME NEW v \in Int
  PROVE  numberToString(v) \in Seq(MessageTokens)
<1>1. Digits \cup {"-"} \subseteq MessageTokens
  BY DEF MessageTokens
<1>2. QED
  BY <1>1, NumberToStringFacts, SeqMonotonic

\* What a line with a number is made of.
LEMMA HoldsNumberLine ==
  ASSUME NEW m \in Seq(MessageTokens), NEW i \in Nat \ {0}, NEW name \in MessageTokens,
         NEW v \in Int, Holds(m, i, Line(name, numberToString(v)))
  PROVE  /\ m[i] = name /\ Holds(m, i + 1, numberToString(v))
         /\ m[i + Len(numberToString(v)) + 1] = CRLF
<1> DEFINE s == numberToString(v)
<1>1. s \in Seq(MessageTokens) /\ Holds(m, i, Line(name, s))
  BY NumberIsTokens
<1> HIDE DEF s
<1>2. m[i] = name /\ Holds(m, i + 1, s) /\ m[i + Len(s) + 1] = CRLF
  BY <1>1, HoldsLine
<1>3. QED
  BY <1>2 DEF s

\* What a message holds at the tokens of a short part.
LEMMA HoldsSingle ==
  ASSUME NEW m, NEW i \in Nat \ {0}, NEW x, Holds(m, i, <<x>>)
  PROVE  m[i] = x
<1>1. 1 \in 1 .. Len(<<x>>) /\ <<x>>[1] = x /\ i + 1 - 1 = i
  OBVIOUS
<1>2. QED
  BY <1>1 DEF Holds

LEMMA HoldsPair ==
  ASSUME NEW m, NEW i \in Nat \ {0}, NEW x, NEW y, Holds(m, i, <<x, y>>)
  PROVE  m[i] = x /\ m[i + 1] = y
<1>1. 1 \in 1 .. Len(<<x, y>>) /\ 2 \in 1 .. Len(<<x, y>>) /\ i + 1 - 1 = i /\ i + 2 - 1 = i + 1
  OBVIOUS
<1>2. <<x, y>>[1] = x /\ <<x, y>>[2] = y
  OBVIOUS
<1>3. m[i + 1 - 1] = <<x, y>>[1] /\ m[i + 2 - 1] = <<x, y>>[2]
  BY <1>1 DEF Holds
<1>4. QED
  BY <1>1, <1>2, <1>3

LEMMA HoldsTriple ==
  ASSUME NEW m, NEW i \in Nat \ {0}, NEW x, NEW y, NEW z, Holds(m, i, <<x, y, z>>)
  PROVE  m[i] = x /\ m[i + 1] = y /\ m[i + 2] = z
<1>1. /\ 1 \in 1 .. Len(<<x, y, z>>) /\ 2 \in 1 .. Len(<<x, y, z>>) /\ 3 \in 1 .. Len(<<x, y, z>>)
      /\ i + 1 - 1 = i /\ i + 2 - 1 = i + 1 /\ i + 3 - 1 = i + 2
  OBVIOUS
<1>2. <<x, y, z>>[1] = x /\ <<x, y, z>>[2] = y /\ <<x, y, z>>[3] = z
  OBVIOUS
<1>3. /\ m[i + 1 - 1] = <<x, y, z>>[1] /\ m[i + 2 - 1] = <<x, y, z>>[2]
      /\ m[i + 3 - 1] = <<x, y, z>>[3]
  BY <1>1 DEF Holds
<1>4. QED
  BY <1>1, <1>2, <1>3

\* The tokens of the worker's message at the positions the parser looks at.
PostLines(m, t, last_chunk) ==
  /\ m \in Seq(MessageTokens)
  /\ m[1] = "POST /" /\ Holds(m, 2, numberToString(t.field[1]))
  /\ m[FieldLength(t, 1) + 2] = " HTTP/" /\ m[FieldLength(t, 1) + 3] = "1.1"
  /\ m[FieldLength(t, 1) + 4] = CRLF
  /\ m[RowAt(t)] = "Row: " /\ Holds(m, RowAt(t) + 1, numberToString(t.field[2]))
  /\ m[ColumnAt(t) - 1] = CRLF
  /\ m[ColumnAt(t)] = "Column: " /\ Holds(m, ColumnAt(t) + 1, numberToString(t.field[3]))
  /\ m[LastChunkAt(t) - 1] = CRLF
  /\ m[LastChunkAt(t)] = "Last-Chunk: " /\ m[LastChunkAt(t) + 1] = Flag(last_chunk)
  /\ m[LastChunkAt(t) + 2] = CRLF
  /\ m[LengthAt(t)] = "Content-Length: "
  /\ Holds(m, LengthAt(t) + 1, numberToString(ValueLength(t)))
  /\ m[BlankAt(t) - 1] = CRLF /\ m[BlankAt(t)] = CRLF /\ m[BlankAt(t) + 1] = CRLF
  /\ Holds(m, ValueAt(t), numberToString(t.value))
  /\ Len(m) = ValueAt(t) + ValueLength(t) - 1

\* The worker's message has these tokens.
LEMMA PostMessageTokens ==
  ASSUME NEW t \in Tasks, NEW last_chunk \in BOOLEAN
  PROVE  PostLines(PostMessage(t, last_chunk), t, last_chunk)
<1> DEFINE m == PostMessage(t, last_chunk)
           n == FieldLength(t, 1)
<1>1. /\ m \in Seq(MessageTokens)
      /\ Holds(m, 1, <<"POST /">>)
      /\ Holds(m, 2, numberToString(t.field[1]))
      /\ Holds(m, n + 2, <<" HTTP/", "1.1", CRLF>>)
      /\ Holds(m, RowAt(t), Line("Row: ", numberToString(t.field[2])))
      /\ Holds(m, ColumnAt(t), Line("Column: ", numberToString(t.field[3])))
      /\ Holds(m, LastChunkAt(t), Line("Last-Chunk: ", <<Flag(last_chunk)>>))
      /\ Holds(m, LengthAt(t), Line("Content-Length: ", numberToString(ValueLength(t))))
      /\ Holds(m, BlankAt(t), <<CRLF, CRLF>>)
      /\ Holds(m, ValueAt(t), numberToString(t.value))
      /\ Len(m) = ValueAt(t) + ValueLength(t) - 1
  BY PostMessageParts
<1> HIDE DEF m
<1>2. /\ t.field[1] \in Int /\ t.field[2] \in Int /\ t.field[3] \in Int /\ ValueLength(t) \in Int
      /\ n \in Nat
      /\ Len(numberToString(t.field[2])) \in Nat /\ Len(numberToString(t.field[3])) \in Nat
      /\ Len(numberToString(ValueLength(t))) \in Nat
  <2>1. /\ \A i \in 1 .. 3 : t.field[i] \in Nat /\ FieldLength(t, i) \in Nat \ {0}
        /\ ValueLength(t) \in Nat \ {0} /\ Len(numberToString(ValueLength(t))) \in Nat \ {0}
    BY PositionsAreNat
  <2>2. 1 \in 1 .. 3 /\ 2 \in 1 .. 3 /\ 3 \in 1 .. 3
    OBVIOUS
  <2>3. /\ t.field[1] \in Nat /\ t.field[2] \in Nat /\ t.field[3] \in Nat
        /\ FieldLength(t, 1) \in Nat \ {0} /\ FieldLength(t, 2) \in Nat \ {0}
        /\ FieldLength(t, 3) \in Nat \ {0}
    BY <2>1, <2>2
  <2>4. /\ FieldLength(t, 2) = Len(numberToString(t.field[2]))
        /\ FieldLength(t, 3) = Len(numberToString(t.field[3]))
    BY DEF FieldLength
  <2>5. QED
    BY <2>1, <2>3, <2>4
<1>3. /\ RowAt(t) \in Nat \ {0} /\ ColumnAt(t) \in Nat \ {0} /\ LastChunkAt(t) \in Nat \ {0}
      /\ LengthAt(t) \in Nat \ {0} /\ BlankAt(t) \in Nat \ {0} /\ ValueAt(t) \in Nat \ {0}
  BY PositionsAreNat
<1> HIDE DEF n
<1>4. m[1] = "POST /"
  <2> DEFINE x == "POST /"
  <2>1. Holds(m, 1, <<x>>)
    BY <1>1
  <2> HIDE DEF x
  <2>2. m[1] = x
    BY <2>1, HoldsSingle
  <2>3. QED
    BY <2>2 DEF x
<1>5. m[n + 2] = " HTTP/" /\ m[n + 3] = "1.1" /\ m[n + 4] = CRLF
  <2>1. n + 2 \in Nat \ {0} /\ (n + 2) + 1 = n + 3 /\ (n + 2) + 2 = n + 4
    BY <1>2
  <2>2. m[n + 2] = " HTTP/" /\ m[(n + 2) + 1] = "1.1" /\ m[(n + 2) + 2] = CRLF
    <3> DEFINE x == " HTTP/"
               y == "1.1"
    <3>1. Holds(m, n + 2, <<x, y, CRLF>>)
      BY <1>1
    <3> HIDE DEF x, y
    <3>2. m[n + 2] = x /\ m[(n + 2) + 1] = y /\ m[(n + 2) + 2] = CRLF
      BY <2>1, <3>1, HoldsTriple
    <3>3. QED
      BY <3>2 DEF x, y
  <2>3. QED
    BY <2>1, <2>2
<1>6. /\ m[RowAt(t)] = "Row: " /\ Holds(m, RowAt(t) + 1, numberToString(t.field[2]))
      /\ m[ColumnAt(t) - 1] = CRLF
  <2>1. "Row: " \in MessageTokens
    BY DEF MessageTokens
  <2>2. /\ m[RowAt(t)] = "Row: " /\ Holds(m, RowAt(t) + 1, numberToString(t.field[2]))
        /\ m[RowAt(t) + Len(numberToString(t.field[2])) + 1] = CRLF
    <3> DEFINE x == "Row: "
               i == RowAt(t)
               v == t.field[2]
    <3>1. x \in MessageTokens /\ i \in Nat \ {0} /\ v \in Int
      BY <1>2, <1>3, <2>1
    <3>2. m \in Seq(MessageTokens) /\ Holds(m, i, Line(x, numberToString(v)))
      BY <1>1
    <3> HIDE DEF x, i, v
    <3>3. m[i] = x /\ Holds(m, i + 1, numberToString(v)) /\ m[i + Len(numberToString(v)) + 1] = CRLF
      BY <3>1, <3>2, HoldsNumberLine
    <3>4. QED
      BY <3>3 DEF x, i, v
  <2>3. ColumnAt(t) = RowAt(t) + Len(numberToString(t.field[2])) + 2
    BY DEF ColumnAt, FieldLength
  <2>4. ColumnAt(t) - 1 = RowAt(t) + Len(numberToString(t.field[2])) + 1
    BY <1>2, <1>3, <2>3
  <2>5. QED
    BY <2>2, <2>4
<1>7. /\ m[ColumnAt(t)] = "Column: " /\ Holds(m, ColumnAt(t) + 1, numberToString(t.field[3]))
      /\ m[LastChunkAt(t) - 1] = CRLF
  <2>1. "Column: " \in MessageTokens
    BY DEF MessageTokens
  <2>2. /\ m[ColumnAt(t)] = "Column: " /\ Holds(m, ColumnAt(t) + 1, numberToString(t.field[3]))
        /\ m[ColumnAt(t) + Len(numberToString(t.field[3])) + 1] = CRLF
    <3> DEFINE x == "Column: "
               i == ColumnAt(t)
               v == t.field[3]
    <3>1. x \in MessageTokens /\ i \in Nat \ {0} /\ v \in Int
      BY <1>2, <1>3, <2>1
    <3>2. m \in Seq(MessageTokens) /\ Holds(m, i, Line(x, numberToString(v)))
      BY <1>1
    <3> HIDE DEF x, i, v
    <3>3. m[i] = x /\ Holds(m, i + 1, numberToString(v)) /\ m[i + Len(numberToString(v)) + 1] = CRLF
      BY <3>1, <3>2, HoldsNumberLine
    <3>4. QED
      BY <3>3 DEF x, i, v
  <2>3. LastChunkAt(t) = ColumnAt(t) + Len(numberToString(t.field[3])) + 2
    BY DEF LastChunkAt, FieldLength
  <2>4. LastChunkAt(t) - 1 = ColumnAt(t) + Len(numberToString(t.field[3])) + 1
    BY <1>2, <1>3, <2>3
  <2>5. QED
    BY <2>2, <2>4
<1>8. /\ m[LastChunkAt(t)] = "Last-Chunk: " /\ m[LastChunkAt(t) + 1] = Flag(last_chunk)
      /\ m[LastChunkAt(t) + 2] = CRLF
  <2> DEFINE s == <<Flag(last_chunk)>>
  <2>1. "Last-Chunk: " \in MessageTokens /\ Flag(last_chunk) \in MessageTokens
    BY DEF MessageTokens, Flag
  <2>2. s \in Seq(MessageTokens) /\ Len(s) = 1 /\ s[1] = Flag(last_chunk)
    BY <2>1, Singleton
  <2>3. Holds(m, LastChunkAt(t), Line("Last-Chunk: ", s))
    BY <1>1
  <2> HIDE DEF s
  <2>4. /\ m[LastChunkAt(t)] = "Last-Chunk: " /\ Holds(m, LastChunkAt(t) + 1, s)
        /\ m[LastChunkAt(t) + Len(s) + 1] = CRLF
    <3> DEFINE x == "Last-Chunk: "
               i == LastChunkAt(t)
    <3>1. x \in MessageTokens /\ m \in Seq(MessageTokens) /\ i \in Nat \ {0}
      BY <1>1, <1>3, <2>1
    <3>2. s \in Seq(MessageTokens) /\ Holds(m, i, Line(x, s))
      BY <2>2, <2>3
    <3> HIDE DEF x, i
    <3>3. m[i] = x /\ Holds(m, i + 1, s) /\ m[i + Len(s) + 1] = CRLF
      BY <3>1, <3>2, HoldsLine
    <3>4. QED
      BY <3>3 DEF x, i
  <2>5. LastChunkAt(t) + Len(s) + 1 = LastChunkAt(t) + 2 /\ LastChunkAt(t) + 1 \in Nat \ {0}
    <3>1. Len(s) = 1
      BY <2>2
    <3>2. QED
      BY <1>3, <3>1
  <2>6. m[LastChunkAt(t) + 1] = Flag(last_chunk)
    BY <2>4, <2>5, HoldsSingle DEF s
  <2>7. QED
    BY <2>4, <2>5, <2>6
<1>9. /\ m[LengthAt(t)] = "Content-Length: " /\ Holds(m, LengthAt(t) + 1, numberToString(ValueLength(t)))
      /\ m[BlankAt(t) - 1] = CRLF
  <2>1. "Content-Length: " \in MessageTokens
    BY DEF MessageTokens
  <2>2. /\ m[LengthAt(t)] = "Content-Length: " /\ Holds(m, LengthAt(t) + 1, numberToString(ValueLength(t)))
        /\ m[LengthAt(t) + Len(numberToString(ValueLength(t))) + 1] = CRLF
    <3> DEFINE x == "Content-Length: "
               i == LengthAt(t)
               v == ValueLength(t)
    <3>1. x \in MessageTokens /\ i \in Nat \ {0} /\ v \in Int
      BY <1>2, <1>3, <2>1
    <3>2. m \in Seq(MessageTokens) /\ Holds(m, i, Line(x, numberToString(v)))
      BY <1>1
    <3> HIDE DEF x, i, v
    <3>3. m[i] = x /\ Holds(m, i + 1, numberToString(v)) /\ m[i + Len(numberToString(v)) + 1] = CRLF
      BY <3>1, <3>2, HoldsNumberLine
    <3>4. QED
      BY <3>3 DEF x, i, v
  <2>3. BlankAt(t) = LengthAt(t) + Len(numberToString(ValueLength(t))) + 2
    BY DEF BlankAt
  <2>4. BlankAt(t) - 1 = LengthAt(t) + Len(numberToString(ValueLength(t))) + 1
    BY <1>2, <1>3, <2>3
  <2>5. QED
    BY <2>2, <2>4
<1>10. m[BlankAt(t)] = CRLF /\ m[BlankAt(t) + 1] = CRLF
  <2>1. Holds(m, BlankAt(t), <<CRLF, CRLF>>)
    BY <1>1
  <2>2. QED
    BY <1>3, <2>1, HoldsPair
<1>11. QED
  BY <1>1, <1>4, <1>5, <1>6, <1>7, <1>8, <1>9, <1>10, Zenon DEF PostLines, m, n

=============================================================================
