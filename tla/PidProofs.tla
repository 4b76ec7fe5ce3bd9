---- MODULE PidProofs ----
(***************************************************************************)
(* Proofs about PidCore for any widths, samples and requests: what a call  *)
(* that reports success has put in force, that the integral term fits its  *)
(* bits, and that the output is the sum of the terms.                      *)
(***************************************************************************)
EXTENDS PidCore, FiniteSetTheorems, TLAPS

----------------------------------------------------------------------------
(* The invariant. *)

\* The words of a call, in their order.
WordOf(n) == [field |-> Order[n], payload |-> Fixed(asked)[Order[n]]]
Written == Len(Order) - Len(todo)

\* What a set of coefficients keeps within its width.
Limited(c) ==
  /\ c.kp \in Signed(B) /\ c.kd \in Signed(B) /\ c.ki \in Signed(B)
  /\ c.sp \in Signed(DAC) /\ c.bias \in Signed(DAC)
  /\ c.sat \in Nat /\ c.alpha \in Nat

IType ==
  /\ asked \in Requests /\ ok \in BOOLEAN /\ dat \in Samples
  /\ reg \in [Fields -> Int] /\ coeffs \in [DOMAIN ResetCoeffs -> Int]
  /\ Limited(reg) /\ Limited(coeffs)
  /\ sum \in Int /\ yk \in Int /\ err \in Int /\ p \in Int /\ d \in Int /\ i \in Int

\* What is left is the end of the call.
IWords ==
  /\ todo \in Seq([field : Fields, payload : Int]) /\ Len(todo) <= Len(Order)
  /\ \A k \in 1 .. Len(todo) : todo[k] = WordOf(Written + k)

\* As long as no echo was wrong, every register written holds what was asked.
IWritten ==
  ok => \A n \in 1 .. Written :
          /\ reg[Order[n]] = Kept(Order[n], Fixed(asked)[Order[n]])
          /\ Echo(Order[n], reg[Order[n]]) = Fixed(asked)[Order[n]]

\* The sum is within the limit in force, and the integral within that of the sum.
ISum == ~lowered => sum \in 1 - Threshold .. Threshold - 1
IIntegral ==
  ~lowered => i \in -(2 ^ (B - 1) * (Threshold - 1)) .. 2 ^ (B - 1) * (Threshold - 1)

\* As long as no error has left half its range, no product needs more than twice the bits
\* of its factors, the controller without widths is where this one is, and both keep room
\* for the difference of two errors.
Product == 2 ^ (B - 1) * (2 ^ (B - 1) - 1)
IIdeal ==
  ~strained =>
    /\ ideal = [err |-> err, yk |-> yk, p |-> p, d |-> d]
    /\ err \in Signed(B - 1) /\ yk \in Signed(B - 1)
    /\ p \in -Product .. Product /\ d \in -Product .. Product

IInv == IType /\ IWords /\ IWritten /\ ISum /\ IIntegral /\ IIdeal

----------------------------------------------------------------------------
(* Powers of two, as numbers of subsets. *)

\* 2 ^ n counts the subsets of 1 .. n.
LEMMA PowerCounts ==
  ASSUME NEW n \in Nat
  PROVE  IsFiniteSet(SUBSET (1 .. n)) /\ Cardinality(SUBSET (1 .. n)) = 2 ^ n /\ 2 ^ n \in Nat
<1>1. IsFiniteSet(1 .. n) /\ Cardinality(1 .. n) = n
  BY FS_Interval
<1>2. IsFiniteSet(SUBSET (1 .. n)) /\ Cardinality(SUBSET (1 .. n)) = 2 ^ n
  BY <1>1, FS_SUBSET
<1>3. Cardinality(SUBSET (1 .. n)) \in Nat
  BY <1>2, FS_CardinalityType
<1> QED BY <1>2, <1>3

\* A power grows with its exponent.
LEMMA PowerGrows ==
  ASSUME NEW m \in Nat, NEW n \in Nat, m <= n
  PROVE  2 ^ m <= 2 ^ n
<1>1. SUBSET (1 .. m) \in SUBSET (SUBSET (1 .. n))
  BY SMT
<1>2. Cardinality(SUBSET (1 .. m)) <= Cardinality(SUBSET (1 .. n))
  BY <1>1, PowerCounts, FS_Subset
<1> QED BY <1>2, PowerCounts

\* A power of two is positive.
LEMMA PowerPositive ==
  ASSUME NEW n \in Nat
  PROVE  2 ^ n \in Nat \ {0}
<1>1. 2 ^ 0 = 1
  OBVIOUS
<1>2. 2 ^ 0 <= 2 ^ n
  <2>1. 0 \in Nat /\ 0 <= n
    OBVIOUS
  <2> QED BY <2>1, PowerGrows
<1> QED BY <1>1, <1>2, PowerCounts

\* One more bit is twice as much.
LEMMA PowerDoubles ==
  ASSUME NEW n \in Nat
  PROVE  2 ^ (n + 1) = 2 * 2 ^ n
<1>0. PICK m \in Nat : m = n + 1
  OBVIOUS
<1>1. PICK A : A = SUBSET (1 .. n)
  OBVIOUS
<1>2. PICK C : C = {S \cup {m} : S \in A}
  OBVIOUS
<1>3. PICK D : D = SUBSET (1 .. m)
  OBVIOUS
<1>4. /\ IsFiniteSet(A) /\ Cardinality(A) = 2 ^ n /\ IsFiniteSet(D) /\ Cardinality(D) = 2 ^ m
      /\ 2 ^ n \in Nat /\ 2 ^ m \in Nat
  BY <1>1, <1>3, PowerCounts
<1>5. 1 .. m = 1 .. n \cup {m} /\ m \notin 1 .. n
  BY <1>0
<1>6. D = A \cup C
  <2>1. ASSUME NEW S \in D
        PROVE  S \in A \cup C
    <3>1. CASE m \in S
      <4>1. S \ {m} \in A
        BY <1>1, <1>3, <1>5
      <4>2. S = (S \ {m}) \cup {m}
        BY <3>1
      <4> QED BY <1>2, <4>1, <4>2
    <3>2. CASE m \notin S
      BY <1>1, <1>3, <1>5, <3>2
    <3> QED BY <3>1, <3>2
  <2>2. A \subseteq D /\ C \subseteq D
    BY <1>1, <1>2, <1>3, <1>5
  <2> QED BY <2>1, <2>2
<1>7. A \cap C = {}
  BY <1>1, <1>2, <1>5
<1>8. ExistsBijection(A, C)
  <2>1. PICK f : f = [S \in A |-> S \cup {m}]
    OBVIOUS
  <2>2. f \in [A -> C]
    BY <1>2, <2>1
  <2>3. ASSUME NEW S \in A, NEW T \in A, f[S] = f[T]
        PROVE  S = T
    <3>1. S \cup {m} = T \cup {m}
      BY <2>1, <2>3
    <3>2. m \notin S /\ m \notin T
      BY <1>1, <1>5
    <3>3. ASSUME NEW x
          PROVE  x \in S <=> x \in T
      BY <3>1, <3>2
    <3> QED BY <1>1, <3>3
  <2>4. \A y \in C : \E S \in A : f[S] = y
    BY <1>2, <2>1
  <2>5. f \in Bijection(A, C)
    <3>1. f \in Injection(A, C)
      BY <2>2, <2>3, Zenon DEF Injection, IsInjective
    <3>2. f \in Surjection(A, C)
      BY <2>2, <2>4, Zenon DEF Surjection
    <3> QED BY <3>1, <3>2, Zenon DEF Bijection
  <2> QED BY <2>5 DEF ExistsBijection
<1>9. IsFiniteSet(C) /\ Cardinality(C) = 2 ^ n
  BY <1>4, <1>8, FS_Bijection
<1>10. Cardinality(A \cap C) = 0
  BY <1>7, FS_EmptySet
<1>11. Cardinality(A \cup C) = 2 ^ n + 2 ^ n - 0
  BY <1>4, <1>9, <1>10, FS_Union
<1> QED BY <1>0, <1>4, <1>6, <1>11

----------------------------------------------------------------------------
(* Numbers of a width. *)

\* What a remainder is.
LEMMA Remainder ==
  ASSUME NEW m \in Nat \ {0}, NEW x \in Int
  PROVE  x % m \in 0 .. m - 1 /\ (x \in 0 .. m - 1 => x % m = x)
  OBVIOUS

\* A number truncated to a width has the width, and one that has it is kept.
LEMMA SignedFits ==
  ASSUME NEW w \in Nat \ {0}, NEW x \in Int
  PROVE  ToSigned(x, w) \in Signed(w) /\ (x \in Signed(w) => ToSigned(x, w) = x)
<1>1. PICK h \in Nat \ {0} : h = 2 ^ (w - 1) /\ 2 ^ w = 2 * h
  <2>1. w - 1 \in Nat /\ (w - 1) + 1 = w
    OBVIOUS
  <2>2. 2 ^ ((w - 1) + 1) = 2 * 2 ^ (w - 1) /\ 2 ^ (w - 1) \in Nat \ {0}
    BY <2>1, PowerDoubles, PowerPositive
  <2> QED BY <2>1, <2>2
<1>2. PICK m \in Nat \ {0} : m = 2 * h
  OBVIOUS
<1>3. PICK y \in Int : y = x + h
  OBVIOUS
<1>4. y % m \in 0 .. m - 1 /\ (y \in 0 .. m - 1 => y % m = y)
  BY Remainder
<1>5. ToSigned(x, w) = (y % m) - h
  BY <1>1, <1>2, <1>3 DEF ToSigned
<1>6. Signed(w) = -h .. h - 1
  BY <1>1 DEF Signed, Low, High
<1> QED BY <1>2, <1>3, <1>4, <1>5, <1>6

\* A number limited to a range is in it, and one that is in it is kept.
LEMMA RangeFits ==
  ASSUME NEW x \in Int, NEW lo \in Int, NEW hi \in Int, lo <= hi
  PROVE  ToRange(x, lo, hi) \in lo .. hi /\ (x \in lo .. hi => ToRange(x, lo, hi) = x)
  BY DEF ToRange

\* A product grows with its factor.
LEMMA ProductGrows ==
  ASSUME NEW h \in Nat, NEW m \in Nat, NEW n \in Nat, m <= n
  PROVE  h * m \in Nat /\ h * n \in Nat /\ h * m <= h * n
<1>1. PICK k \in Nat : n = m + k
  <2>1. n - m \in Nat /\ n = m + (n - m)
    OBVIOUS
  <2> QED BY <2>1
<1>2. h * k \in Nat /\ h * m \in Nat
  OBVIOUS
<1>3. h * (m + k) = h * m + h * k
  OBVIOUS
<1> QED BY <1>1, <1>2, <1>3

\* A product of two numbers within limits is within the product of the limits.
LEMMA ProductFits ==
  ASSUME NEW h \in Nat, NEW m \in Nat, NEW a \in -h .. h, NEW x \in -m .. m
  PROVE  a * x \in -(h * m) .. h * m
<1>1. ASSUME NEW c \in 0 .. h, NEW y \in 0 .. m
      PROVE  c * y \in 0 .. h * m
  <2>1. c * y \in Nat /\ c * y <= c * m
    BY ProductGrows
  <2>2. m * c <= m * h
    BY ProductGrows
  <2>3. m * c = c * m /\ m * h = h * m
    OBVIOUS
  <2>4. c * m \in Nat /\ h * m \in Nat
    OBVIOUS
  <2> QED BY <2>1, <2>2, <2>3, <2>4
<1>2. PICK b \in Nat : b = h * m
  OBVIOUS
<1>3. CASE a >= 0 /\ x >= 0
  <2>1. a * x \in 0 .. b
    BY <1>1, <1>2, <1>3
  <2> QED BY <1>2, <2>1
<1>4. CASE a >= 0 /\ x < 0
  <2>1. a * (-x) \in 0 .. b /\ a * (-x) = -(a * x)
    BY <1>1, <1>2, <1>4
  <2>2. a * x \in Int
    OBVIOUS
  <2> QED BY <1>2, <2>1, <2>2
<1>5. CASE a < 0 /\ x >= 0
  <2>1. (-a) * x \in 0 .. b /\ (-a) * x = -(a * x)
    BY <1>1, <1>2, <1>5
  <2>2. a * x \in Int
    OBVIOUS
  <2> QED BY <1>2, <2>1, <2>2
<1>6. CASE a < 0 /\ x < 0
  <2>1. (-a) * (-x) \in 0 .. b /\ (-a) * (-x) = a * x
    BY <1>1, <1>2, <1>6
  <2> QED BY <1>2, <2>1
<1> QED BY <1>3, <1>4, <1>5, <1>6

\* A quotient of a number below a product is below the other factor.
LEMMA QuotientFits ==
  ASSUME NEW h \in Nat, NEW t \in Nat \ {0}, NEW x \in Int, -(h * t) <= x, x < h * t
  PROVE  x \div t \in -h .. h - 1
<1>1. PICK q \in Int : q = x \div t
  OBVIOUS
<1>2. q * t <= x /\ x < q * t + t
  BY <1>1
<1>3. h * t \in Int /\ q * t \in Int
  OBVIOUS
<1>4. ASSUME q >= h
      PROVE  FALSE
  <2>1. PICK k \in Nat : q = h + k
    <3>1. q - h \in Nat /\ q = h + (q - h)
      BY <1>4
    <3> QED BY <3>1
  <2>2. q * t = h * t + k * t /\ k * t \in Nat
    BY <2>1
  <2> QED BY <1>2, <1>3, <2>2
<1>5. ASSUME q < -h
      PROVE  FALSE
  <2>1. PICK k \in Nat : q = -h - 1 - k
    <3>1. -h - 1 - q \in Nat /\ q = -h - 1 - (-h - 1 - q)
      BY <1>5
    <3> QED BY <3>1
  <2>2. q * t = -(h * t) - t - k * t /\ k * t \in Nat
    BY <2>1
  <2> QED BY <1>2, <1>3, <2>2
<1> QED BY <1>1, <1>4, <1>5

\* The widths in numbers.
LEMMA Widths ==
  /\ B \in Nat \ {0} /\ DAC \in Nat \ {0} /\ Q \in Nat /\ MAX_SAT \in Nat /\ MAX_DEC \in Nat \ {0}
  /\ 2 ^ (B - 1) \in Nat \ {0} /\ 2 ^ B = 2 * 2 ^ (B - 1)
  /\ 2 ^ (DAC - 1) \in Nat \ {0} /\ 2 ^ DAC = 2 * 2 ^ (DAC - 1)
  /\ 2 ^ DAC <= 2 ^ (B - 1) /\ One \in Nat \ {0}
  /\ Low(B) = -(2 ^ (B - 1)) /\ High(B) = 2 ^ (B - 1) - 1
  /\ Low(DAC) = -(2 ^ (DAC - 1)) /\ High(DAC) = 2 ^ (DAC - 1) - 1
<1>1. /\ B \in Nat /\ DAC \in Nat /\ Q \in Nat /\ MAX_SAT \in Nat /\ MAX_DEC \in Nat \ {0}
      /\ DAC > 1 /\ B > DAC
  BY PidAssumption
<1>2. B - 1 \in Nat /\ (B - 1) + 1 = B /\ DAC - 1 \in Nat /\ (DAC - 1) + 1 = DAC /\ DAC <= B - 1
  BY <1>1
<1>3. 2 ^ ((B - 1) + 1) = 2 * 2 ^ (B - 1) /\ 2 ^ ((DAC - 1) + 1) = 2 * 2 ^ (DAC - 1)
  BY <1>2, PowerDoubles
<1>4. 2 ^ (B - 1) \in Nat \ {0} /\ 2 ^ (DAC - 1) \in Nat \ {0} /\ 2 ^ Q \in Nat \ {0}
  BY <1>1, <1>2, PowerPositive
<1>5. 2 ^ DAC <= 2 ^ (B - 1)
  BY <1>1, <1>2, PowerGrows
<1> QED BY <1>1, <1>2, <1>3, <1>4, <1>5 DEF One, Low, High

----------------------------------------------------------------------------
(* What the registers keep of a request. *)

\* The names of the registers.
LEMMA Names ==
  /\ Len(Order) = 11 /\ Fields = {Order[n] : n \in 1 .. 11}
  /\ Fields = {"kp", "kd", "ki", "dec", "sp", "alpha", "sat", "en", "gain", "bias", "egain"}
  /\ DOMAIN ResetCoeffs = Fields \ {"en"}
  /\ \A n \in 1 .. 11 : Order[n] \in Fields
<1>1. Len(Order) = 11
  BY DEF Order
<1>2. Fields = {Order[n] : n \in 1 .. 11}
  BY <1>1 DEF Fields
<1>3. /\ Order[1] = "kp" /\ Order[2] = "kd" /\ Order[3] = "ki" /\ Order[4] = "dec" /\ Order[5] = "sp"
      /\ Order[6] = "alpha" /\ Order[7] = "sat" /\ Order[8] = "en" /\ Order[9] = "gain"
      /\ Order[10] = "bias" /\ Order[11] = "egain"
  BY DEF Order
<1>4. 1 .. 11 = {1, 2, 3, 4, 5, 6, 7, 8, 9, 10, 11}
  OBVIOUS
<1>5. Fields = {"kp", "kd", "ki", "dec", "sp", "alpha", "sat", "en", "gain", "bias", "egain"}
  BY <1>2, <1>3, <1>4
<1>6. DOMAIN ResetCoeffs = Fields \ {"en"}
  BY <1>5 DEF ResetCoeffs
<1> QED BY <1>1, <1>2, <1>5, <1>6

\* A request in fixed point is within what the registers hold, the enable apart.
LEMMA FixedFits ==
  ASSUME NEW r \in [Fields -> Int]
  PROVE  /\ \A f \in Fields : Fixed(r)[f] \in Int
         /\ Fixed(r).kp \in Signed(B) /\ Fixed(r).kd \in Signed(B) /\ Fixed(r).ki \in Signed(B)
         /\ Fixed(r).sp \in Signed(DAC) /\ Fixed(r).sat \in Nat /\ Fixed(r).alpha \in Nat
         /\ Fixed(r).en = r.en
         /\ Fixed(r).bias = ToRange(r.bias, -Mid, Mid) /\ Fixed(r).bias \in -Mid .. Mid
<1>1. \A f \in Fields : r[f] \in Int
  OBVIOUS
<1>2. /\ r.kp \in Int /\ r.kd \in Int /\ r.ki \in Int /\ r.dec \in Int /\ r.sp \in Int /\ r.alpha \in Int
      /\ r.sat \in Int /\ r.en \in Int /\ r.gain \in Int /\ r.bias \in Int /\ r.egain \in Int
  BY <1>1, Names
<1>3. PICK h \in Nat \ {0} : h = 2 ^ (B - 1) /\ Low(B) = -h /\ High(B) = h - 1
  BY Widths
<1>4. PICK g \in Nat \ {0} : g = 2 ^ (DAC - 1) /\ Low(DAC) = -g /\ High(DAC) = g - 1 /\ Mid = g - 1
  BY Widths DEF Mid
<1>5. /\ ToRange(r.kp, -h, h - 1) \in -h .. h - 1 /\ ToRange(r.kd, -h, h - 1) \in -h .. h - 1
      /\ ToRange(r.ki, -h, h - 1) \in -h .. h - 1 /\ ToRange(r.gain, -h, h - 1) \in -h .. h - 1
      /\ ToRange(r.egain, -h, h - 1) \in -h .. h - 1 /\ ToRange(r.sp, -g, g - 1) \in -g .. g - 1
      /\ ToRange(r.bias, -(g - 1), g - 1) \in -(g - 1) .. g - 1
  BY <1>2 DEF ToRange
<1>6. /\ ToRange(r.dec, 0, MAX_DEC) \in Nat /\ ToRange(r.sat, 0, MAX_SAT) \in Nat
      /\ ToRange(r.alpha, 0, B - 1) \in Nat
  BY <1>2, Widths DEF ToRange
<1>7. /\ Fixed(r).kp = ToRange(r.kp, -h, h - 1) /\ Fixed(r).kd = ToRange(r.kd, -h, h - 1)
      /\ Fixed(r).ki = ToRange(r.ki, -h, h - 1) /\ Fixed(r).gain = ToRange(r.gain, -h, h - 1)
      /\ Fixed(r).egain = ToRange(r.egain, -h, h - 1) /\ Fixed(r).sp = ToRange(r.sp, -g, g - 1)
      /\ Fixed(r).bias = ToRange(r.bias, -(g - 1), g - 1) /\ Fixed(r).en = r.en
      /\ Fixed(r).dec = ToRange(r.dec, 0, MAX_DEC) /\ Fixed(r).sat = ToRange(r.sat, 0, MAX_SAT)
      /\ Fixed(r).alpha = ToRange(r.alpha, 0, B - 1)
  BY <1>3, <1>4 DEF Fixed, LimitBias
<1>8. \A f \in Fields : Fixed(r)[f] \in Int
  <2>1. PICK v : v = Fixed(r)
    OBVIOUS
  <2>2. v.kp \in Int /\ v.kd \in Int /\ v.ki \in Int /\ v.gain \in Int /\ v.egain \in Int
    BY <1>5, <1>7, <2>1
  <2>3. v.sp \in Int /\ v.bias \in Int /\ v.en \in Int
    BY <1>2, <1>5, <1>7, <2>1
  <2>4. v.dec \in Int /\ v.sat \in Int /\ v.alpha \in Int
    BY <1>6, <1>7, <2>1
  <2>5. \A f \in Fields : v[f] \in Int
    BY <2>2, <2>3, <2>4, Names
  <2> QED BY <2>1, <2>5
<1>9. /\ Fixed(r).kp \in Signed(B) /\ Fixed(r).kd \in Signed(B) /\ Fixed(r).ki \in Signed(B)
      /\ Fixed(r).sp \in Signed(DAC)
  BY <1>3, <1>4, <1>5, <1>7 DEF Signed
<1> QED BY <1>4, <1>5, <1>6, <1>7, <1>8, <1>9

\* A register keeps what it is written with, the bias negated and the enable but for its
\* lowest bit; and its echo is the word, but for an enable that is not 0 or 1.
LEMMA KeptFits ==
  ASSUME NEW r \in [Fields -> Int], NEW f \in Fields
  PROVE  LET v == Fixed(r)[f]
             held == Kept(f, v)
         IN  /\ held \in Int
             /\ f \in {"kp", "kd", "ki"} => held \in Signed(B)
             /\ f = "sp" => held \in Signed(DAC)
             /\ f = "bias" => held \in Signed(DAC) /\ held = -v
             /\ f \in {"sat", "alpha"} => held \in Nat
             /\ f \notin {"bias", "en"} => held = v
             /\ f = "en" => held = v % 2 /\ Echo(f, held) = held
<1>1. PICK v \in Int : v = Fixed(r)[f]
  BY FixedFits
<1>2. PICK held : held = Kept(f, v)
  OBVIOUS
<1>3. CASE f = "bias"
  <2>1. held = ToSigned(-v, DAC)
    BY <1>2, <1>3 DEF Kept
  <2>2. v \in -Mid .. Mid
    BY <1>1, <1>3, FixedFits
  <2>3. -v \in Signed(DAC)
    BY <2>2, Widths DEF Mid, Signed
  <2>4. held = -v
    BY <2>1, <2>3, SignedFits, Widths
  <2> QED BY <1>1, <1>2, <1>3, <2>3, <2>4
<1>4. CASE f = "en"
  <2>1. held = v % 2
    BY <1>2, <1>4 DEF Kept
  <2> QED BY <1>1, <1>2, <1>4, <2>1 DEF Echo
<1>5. CASE f \notin {"bias", "en"}
  <2>1. held = v
    BY <1>2, <1>5 DEF Kept
  <2>2. (f \in {"kp", "kd", "ki"} => v \in Signed(B)) /\ (f = "sp" => v \in Signed(DAC))
    BY <1>1, FixedFits
  <2>3. f \in {"sat", "alpha"} => v \in Nat
    BY <1>1, FixedFits
  <2> QED BY <1>1, <1>2, <1>5, <2>1, <2>2, <2>3
<1> QED BY <1>3, <1>4, <1>5

----------------------------------------------------------------------------
(* Steps of the core. *)

\* The word at the head of what is left, and the register it goes to.
LEMMA HeadWord ==
  ASSUME IType, IWords, todo /= <<>>
  PROVE  /\ Written + 1 \in 1 .. 11 /\ Len(todo) \in 1 .. 11 /\ Written \in 0 .. 10 /\ asked \in [Fields -> Int]
         /\ Head(todo) = WordOf(Written + 1) /\ Order[Written + 1] \in Fields
         /\ Head(todo).field = Order[Written + 1]
         /\ Head(todo).payload = Fixed(asked)[Order[Written + 1]]
<1>1. Len(todo) \in Nat \ {0} /\ Len(todo) <= 11 /\ Head(todo) = todo[1]
  BY Names DEF IWords
<1>2. PICK m \in 1 .. 11 : m = Len(todo)
  <2>1. ASSUME NEW m \in Nat \ {0}, m <= 11
        PROVE  m \in 1 .. 11
    BY <2>1
  <2>2. Len(todo) \in 1 .. 11
    BY <1>1, <2>1
  <2> QED BY <2>2
<1>3. Written = 11 - m
  BY <1>2, Names DEF Written
<1>4. todo[1] = WordOf(Written + 1)
  <2>1. 1 \in 1 .. Len(todo)
    BY <1>2
  <2> QED BY <2>1 DEF IWords
<1>5. Written + 1 \in 1 .. 11
  BY <1>3
<1>6. Order[Written + 1] \in Fields
  BY <1>5, Names
<1>7. asked \in [Fields -> Int]
  BY PidAssumption DEF IType
<1>8. Head(todo) = WordOf(Written + 1)
  BY <1>1, <1>4
<1>9. WordOf(Written + 1).field = Order[Written + 1] /\ WordOf(Written + 1).payload = Fixed(asked)[Order[Written + 1]]
  BY DEF WordOf
<1>10. Len(todo) \in 1 .. 11 /\ Written \in 0 .. 10
  <2>1. 11 - m \in 0 .. 10
    OBVIOUS
  <2> QED BY <1>2, <1>3, <2>1
<1> QED BY <1>5, <1>6, <1>7, <1>8, <1>9, <1>10

\* The coefficients in force are copies of the registers.
LEMMA CopiedFits ==
  ASSUME IType
  PROVE  /\ Copied \in [DOMAIN ResetCoeffs -> Int] /\ Limited(Copied)
         /\ Copied.sat >= MIN_SAT /\ Copied.dec >= 1
         /\ \A f \in DOMAIN ResetCoeffs \ {"dec", "sat"} : Copied[f] = reg[f]
<1>1. \A f \in Fields : reg[f] \in Int
  BY DEF IType
<1>2. PICK S : S = DOMAIN ResetCoeffs
  OBVIOUS
<1>3. S = {"kp", "kd", "ki", "dec", "sp", "alpha", "sat", "gain", "bias", "egain"} /\ S \subseteq Fields
  BY <1>2, Names
<1>4. \A f \in S \ {"dec", "sat"} : Copied[f] = reg[f]
  BY <1>2 DEF Copied
<1>5. /\ Copied["sat"] = (IF reg.sat >= MIN_SAT THEN reg.sat ELSE MAX_SAT)
      /\ Copied["dec"] = (IF reg.dec < 1 THEN 1 ELSE reg.dec)
  BY <1>2, <1>3 DEF Copied
<1>6. reg.sat \in Nat /\ reg.dec \in Int /\ MIN_SAT \in Nat /\ MAX_SAT \in Nat /\ MIN_SAT <= MAX_SAT
  BY <1>1, <1>3, PidAssumption DEF IType, Limited
<1>7. Copied.sat \in Nat /\ Copied.sat >= MIN_SAT /\ Copied.dec \in Int /\ Copied.dec >= 1
  BY <1>5, <1>6
<1>8. \A f \in S : Copied[f] \in Int
  BY <1>1, <1>3, <1>4, <1>7
<1>9. Copied \in [S -> Int]
  BY <1>2, <1>8 DEF Copied
<1>10. Limited(Copied)
  BY <1>3, <1>4, <1>7 DEF Limited, IType
<1> QED BY <1>2, <1>4, <1>7, <1>9, <1>10

\* The numbers of one update, for any coefficients in force.
LEMMA Update ==
  ASSUME IType
  PROVE  /\ ErrorGained \in Int /\ Gap \in Int /\ NextAverage \in Int
         /\ Threshold \in Nat \ {0} /\ NextSum \in Int
         /\ NextSum = sum \/ (tick1 /\ NextSum \in 1 - Threshold .. Threshold - 1)
<1>1. \A f \in DOMAIN ResetCoeffs : coeffs[f] \in Int
  BY DEF IType
<1>2. coeffs.sp \in Int /\ coeffs.egain \in Int /\ coeffs.alpha \in Nat /\ coeffs.sat \in Nat
  BY <1>1, Names DEF IType, Limited
<1>3. \A w \in Nat \ {0} : \A x \in Signed(w) : x \in Int
  <2>1. ASSUME NEW w \in Nat \ {0}, NEW x \in Signed(w)
        PROVE  x \in Int
    BY PowerPositive DEF Signed, Low, High
  <2> QED BY <2>1
<1>4. \A x \in Int : ToSigned(x, B) \in Int
  BY <1>3, SignedFits, Widths
<1>5. dat \in Int
  BY <1>3, Widths, PidAssumption DEF IType
<1>6. Error \in Int
  <2>1. dat - coeffs.sp \in Int
    BY <1>2, <1>5
  <2> QED BY <1>4, <2>1 DEF Error
<1>7. ErrorGained \in Int
  <2>1. PICK x \in Int : x = Error * coeffs.egain
    BY <1>2, <1>6
  <2>2. PICK o \in Nat \ {0} : o = One
    BY Widths
  <2>3. x \div o \in Int
    OBVIOUS
  <2>4. Low(B) \in Int /\ High(B) \in Int
    BY Widths
  <2>5. ErrorGained = ToRange(x \div o, Low(B), High(B))
    BY <2>1, <2>2 DEF ErrorGained
  <2> QED BY <2>3, <2>4, <2>5 DEF ToRange
<1>8. Gap \in Int
  <2>1. ErrorGained - yk \in Int
    BY <1>7 DEF IType
  <2> QED BY <1>4, <2>1 DEF Gap
<1>9. NextAverage \in Int
  <2>1. PICK a \in Nat \ {0} : a = 2 ^ coeffs.alpha
    BY <1>2, PowerPositive
  <2>2. Gap \div a \in Int
    BY <1>8
  <2>3. (Gap \div a) + yk \in Int
    BY <2>2 DEF IType
  <2>4. ToSigned((Gap \div a) + yk, B) \in Int
    BY <1>4, <2>3
  <2>5. yk \in Int
    BY DEF IType
  <2>6. NextAverage = IF tick1 THEN ToSigned((Gap \div a) + yk, B) ELSE yk
    BY <2>1 DEF NextAverage
  <2> QED BY <2>4, <2>5, <2>6
<1>10. PICK t \in Nat \ {0} : t = Threshold
  BY <1>2, PowerPositive DEF Threshold
<1>11. PICK s1 : s1 = apply_satwidth_truncation(sum + ErrorGained)
  OBVIOUS
<1>12. s1 \in 1 - t .. t - 1
  <2>1. PICK x \in Int : x = sum + ErrorGained
    BY <1>7 DEF IType
  <2>2. s1 = IF x >= t THEN t - 1 ELSE IF x <= -t THEN -t + 1 ELSE x
    BY <1>10, <1>11, <2>1 DEF apply_satwidth_truncation
  <2> QED BY <2>1, <2>2
<1>13. NextSum = sum \/ (tick1 /\ NextSum = s1)
  BY <1>11, Zenon DEF NextSum
<1>14. NextSum \in Int /\ (NextSum = sum \/ (tick1 /\ NextSum \in 1 - Threshold .. Threshold - 1))
  BY <1>10, <1>12, <1>13 DEF IType
<1> QED BY <1>7, <1>8, <1>9, <1>10, <1>14

\* Half the range of an error, in numbers.
LEMMA Halves ==
  /\ 2 ^ (B - 1 - 1) \in Nat \ {0} /\ 2 ^ (B - 1) = 2 * 2 ^ (B - 1 - 1)
  /\ Signed(B - 1) = -(2 ^ (B - 1 - 1)) .. 2 ^ (B - 1 - 1) - 1
<1>1. PICK b \in Nat : b = B - 1 - 1 /\ b + 1 = B - 1
  <2>1. B - 1 - 1 \in Nat /\ (B - 1 - 1) + 1 = B - 1
    BY PidAssumption
  <2> QED BY <2>1
<1>2. 2 ^ b \in Nat \ {0} /\ 2 ^ (b + 1) = 2 * 2 ^ b
  BY PowerPositive, PowerDoubles
<1> QED BY <1>1, <1>2 DEF Signed, Low, High

\* Zero is within every limit.
LEMMA ZeroFits == 0 \in Signed(B - 1) /\ 0 \in -Product .. Product
<1>1. PICK h \in Nat \ {0} : h = 2 ^ (B - 1)
  BY Widths
<1>2. h * (h - 1) \in Nat
  OBVIOUS
<1>3. PICK m \in Nat : m = Product
  BY <1>1, <1>2 DEF Product
<1>4. 0 \in Signed(B - 1)
  BY Halves
<1> QED BY <1>3, <1>4

\* The difference of two numbers of the converter's width fits that of an error, so that
\* the error is that of the controller without widths.
LEMMA ErrorFits ==
  ASSUME IType
  PROVE  ErrorGained = IdealError
<1>1. PICK g \in Nat \ {0}, h \in Nat \ {0} :
        Signed(DAC) = -g .. g - 1 /\ Signed(B) = -h .. h - 1 /\ 2 * g <= h
  BY Widths DEF Signed
<1>2. dat \in -g .. g - 1 /\ coeffs.sp \in -g .. g - 1
  BY <1>1, PidAssumption DEF IType, Limited
<1>3. PICK x \in Int : x = dat - coeffs.sp
  BY <1>2
<1>4. x \in Signed(B)
  BY <1>1, <1>2, <1>3
<1>5. Error = x
  BY <1>3, <1>4, SignedFits, Widths DEF Error
<1> QED BY <1>3, <1>5 DEF ErrorGained, IdealError

\* A part of the way from one number to another ends between them.
LEMMA Between ==
  ASSUME NEW a \in Nat \ {0}, NEW x \in Int, NEW y \in Int
  PROVE  LET z == ((y - x) \div a) + x IN z \in Int /\ ((x <= z /\ z <= y) \/ (y <= z /\ z <= x))
<1>1. PICK gap \in Int : gap = y - x
  OBVIOUS
<1>2. PICK q \in Int : q = gap \div a
  OBVIOUS
<1>3. q * a <= gap /\ gap < q * a + a
  BY <1>2
<1>4. CASE gap >= 0
  <2>1. q >= 0
    <3>1. q < 0 => FALSE
      <4>1. ASSUME q < 0
            PROVE  q * a + a <= 0
        <5>1. PICK k \in Nat : q = -1 - k
          <6>1. -1 - q \in Nat /\ q = -1 - (-1 - q)
            BY <4>1
          <6> QED BY <6>1
        <5>2. q * a = -a - k * a /\ k * a \in Nat
          BY <5>1
        <5> QED BY <5>2
      <4>2. q * a \in Int
        OBVIOUS
      <4> QED BY <1>3, <1>4, <4>1, <4>2
    <3> QED BY <3>1
  <2>2. q <= gap
    <3>1. q <= q * a
      <4>1. PICK k \in Nat : a = k + 1
        <5>1. a - 1 \in Nat /\ a = (a - 1) + 1
          OBVIOUS
        <5> QED BY <5>1
      <4>2. q \in Nat
        BY <2>1
      <4>3. q * a = q * k + q /\ q * k \in Nat
        BY <4>1, <4>2
      <4> QED BY <4>3
    <3>2. q * a \in Int
      OBVIOUS
    <3> QED BY <1>3, <3>1, <3>2
  <2> QED BY <1>1, <1>2, <2>1, <2>2
<1>5. CASE gap < 0
  <2>1. q < 0
    <3>1. q >= 0 => q * a >= 0
      <4>1. ASSUME q >= 0
            PROVE  q * a >= 0
        <5>1. PICK n \in Nat : n = q
          BY <4>1
        <5>2. n * a \in Nat
          OBVIOUS
        <5> QED BY <5>1, <5>2
      <4> QED BY <4>1
    <3>2. q * a \in Int
      OBVIOUS
    <3> QED BY <1>3, <1>5, <3>1, <3>2
  <2>2. gap <= q
    <3>1. PICK k \in Nat : a = k + 1
      <4>1. a - 1 \in Nat /\ a = (a - 1) + 1
        OBVIOUS
      <4> QED BY <4>1
    <3>2. PICK m \in Nat : q = -1 - m
      <4>1. -1 - q \in Nat /\ q = -1 - (-1 - q)
        BY <2>1
      <4> QED BY <4>1
    <3>3. q * a + a = -(m * k) - m /\ m * k \in Nat
      BY <3>1, <3>2
    <3> QED BY <1>3, <3>2, <3>3
  <2> QED BY <1>1, <1>2, <2>1, <2>2
<1> QED BY <1>4, <1>5

\* An edge of the core leaves numbers, and coefficients within their widths.
LEMMA CoreType ==
  ASSUME IType, Core
  PROVE  /\ coeffs' \in [DOMAIN ResetCoeffs -> Int] /\ Limited(coeffs')
         /\ sum' \in Int /\ yk' \in Int /\ err' \in Int /\ p' \in Int /\ d' \in Int /\ i' \in Int
         /\ dat' = dat
<1>1. CASE Disabled
  BY <1>1 DEF Core, Disabled, Cleared, IType
<1>2. CASE Enabled
  <2>1. coeffs' \in [DOMAIN ResetCoeffs -> Int] /\ Limited(coeffs')
    BY <1>2, CopiedFits DEF Enabled
  <2>2. sum' \in Int /\ yk' \in Int /\ err' \in Int
    BY <1>2, Update DEF Enabled
  <2>3. coeffs.kp \in Int /\ coeffs.kd \in Int /\ coeffs.ki \in Int
    BY Names DEF IType
  <2>4. /\ p' = (IF tick2 THEN coeffs.kp * err ELSE p) /\ d' = (IF tick2 THEN coeffs.kd * Gap ELSE d)
        /\ i' = (IF tick2 THEN coeffs.ki * sum ELSE i)
    BY <1>2 DEF Enabled
  <2>5. p' \in Int /\ d' \in Int /\ i' \in Int
    BY <2>3, <2>4, Update DEF IType
  <2> QED BY <2>1, <2>2, <2>5 DEF Core
<1> QED BY <1>1, <1>2 DEF Core

\* The core leaves every limit in force around the sum and the integral.
LEMMA CoreLimits ==
  ASSUME IType, ISum, IIntegral, Core, ~lowered'
  PROVE  /\ sum' \in 1 - Threshold' .. Threshold' - 1
         /\ i' \in -(2 ^ (B - 1) * (Threshold' - 1)) .. 2 ^ (B - 1) * (Threshold' - 1)
<1>1. PICK h \in Nat \ {0} : h = 2 ^ (B - 1)
  BY Widths
<1>2. PICK t \in Nat \ {0} : t = Threshold
  BY Update
<1>3. PICK u \in Nat \ {0} : u = Threshold'
  <2>1. coeffs'.sat \in Nat
    BY CoreType DEF Limited
  <2> QED BY <2>1, PowerPositive DEF Threshold
<1>4. 0 \in 1 - u .. u - 1 /\ 0 \in -(h * (u - 1)) .. h * (u - 1)
  <2>1. h * (u - 1) \in Nat
    OBVIOUS
  <2> QED BY <2>1
<1>5. CASE Disabled
  <2>1. sum' = 0 /\ i' = 0
    BY <1>5 DEF Disabled, Cleared
  <2> QED BY <1>1, <1>3, <1>4, <2>1
<1>6. CASE Enabled
  <2>1. ~lowered /\ ~(Copied.sat < coeffs.sat /\ ~AtRest) /\ coeffs' = Copied
    BY <1>6 DEF Enabled
  <2>2. /\ sum' = NextSum /\ i' = (IF tick2 THEN coeffs.ki * sum ELSE i)
    BY <1>6 DEF Enabled
  <2>3. coeffs.ki \in -h .. h - 1
    BY <1>1, Widths DEF IType, Limited, Signed
  <2>4. CASE AtRest
    <3>1. sum = 0 /\ i = 0 /\ ~tick1
      BY <2>4 DEF AtRest
    <3>2. sum' = 0
      BY <2>2, <3>1, Update
    <3>3. coeffs.ki * 0 = 0
      BY <2>3
    <3>4. i' = 0
      BY <2>2, <3>1, <3>3
    <3> QED BY <1>1, <1>3, <1>4, <3>2, <3>4
  <2>5. CASE ~AtRest
    <3>1. Copied.sat \in Nat /\ coeffs.sat \in Nat /\ coeffs.sat <= Copied.sat
      BY <2>1, <2>5, CopiedFits DEF Limited, IType
    <3>2. t <= u
      BY <1>2, <1>3, <2>1, <3>1, PowerGrows DEF Threshold
    <3>3. sum \in 1 - t .. t - 1 /\ i \in -(h * (t - 1)) .. h * (t - 1)
      BY <1>1, <1>2, <2>1 DEF ISum, IIntegral
    <3>4. sum' \in 1 - u .. u - 1
      <4>1. sum' \in 1 - t .. t - 1
        BY <1>2, <2>2, <3>3, Update
      <4> QED BY <3>2, <4>1
    <3>5. ASSUME NEW a \in -h .. h - 1, NEW x \in 1 - t .. t - 1
          PROVE  a * x \in -(h * (t - 1)) .. h * (t - 1)
      <4>1. t - 1 \in Nat /\ a \in -h .. h /\ x \in -(t - 1) .. t - 1
        OBVIOUS
      <4> QED BY <4>1, ProductFits
    <3>6. i' \in -(h * (t - 1)) .. h * (t - 1)
      BY <2>2, <2>3, <3>3, <3>5
    <3>7. h * (t - 1) \in Nat /\ h * (u - 1) \in Nat /\ h * (t - 1) <= h * (u - 1)
      <4>1. t - 1 \in Nat /\ u - 1 \in Nat /\ t - 1 <= u - 1
        BY <3>2
      <4> QED BY <4>1, ProductGrows
    <3>8. i' \in -(h * (u - 1)) .. h * (u - 1)
      BY <3>6, <3>7
    <3> QED BY <1>1, <1>3, <3>4, <3>8
  <2> QED BY <2>4, <2>5
<1> QED BY <1>5, <1>6 DEF Core

\* As long as no error leaves half its range, the core moves as the controller without
\* widths does: the difference of error and average fits, the average stays between the
\* two, and the products are of numbers within limits.
LEMMA CoreIdeal ==
  ASSUME IType, IIdeal, Core
  PROVE  IIdeal'
<1>1. CASE Disabled
  <2>1. err' = 0 /\ yk' = 0 /\ p' = 0 /\ d' = 0 /\ ideal' = Zeros
    BY <1>1 DEF Disabled, Cleared
  <2> QED BY <2>1, ZeroFits DEF IIdeal, Zeros
<1>2. ASSUME Enabled, ~strained'
      PROVE  /\ ideal' = [err |-> err', yk |-> yk', p |-> p', d |-> d']
             /\ err' \in Signed(B - 1) /\ yk' \in Signed(B - 1)
             /\ p' \in -Product .. Product /\ d' \in -Product .. Product
  <2>1. ~strained /\ ~Straining /\ ideal' = IdealUpdate
    BY <1>2 DEF Enabled
  <2>2. /\ ideal = [err |-> err, yk |-> yk, p |-> p, d |-> d]
        /\ err \in Signed(B - 1) /\ yk \in Signed(B - 1)
        /\ p \in -Product .. Product /\ d \in -Product .. Product
    BY <2>1 DEF IIdeal
  <2>3. PICK hh \in Nat \ {0}, h \in Nat \ {0} :
          /\ hh = 2 ^ (B - 1 - 1) /\ h = 2 ^ (B - 1) /\ h = 2 * hh
          /\ Signed(B - 1) = -hh .. hh - 1 /\ Signed(B) = -h .. h - 1
          /\ Low(B - 1) .. High(B - 1) = Signed(B - 1)
    BY Halves, Widths DEF Signed
  <2>a. h = 2 * hh
    BY <2>3
  <2>b. Signed(B) = -h .. h - 1
    BY <2>3
  <2>4. PICK e \in -hh .. hh - 1 : e = IdealError
    BY <2>1, <2>3 DEF Straining
  <2>5. ErrorGained = e
    BY <2>4, ErrorFits
  <2>6. PICK y \in -hh .. hh - 1 : y = yk
    BY <2>2, <2>3
  <2>7. PICK gap \in -(h - 1) .. h - 1 : gap = e - y
    <3>1. e - y \in -(h - 1) .. h - 1
      BY <2>a
    <3> QED BY <3>1
  <2>8. Gap = gap /\ IdealGap = gap
    <3>1. gap \in Signed(B) /\ gap \in Int
      BY <2>b
    <3>2. ToSigned(gap, B) = gap
      BY <3>1, SignedFits, Widths
    <3>3. ideal.yk = y
      BY <2>2, <2>6
    <3> QED BY <2>4, <2>5, <2>6, <2>7, <3>2, <3>3 DEF Gap, IdealGap
  <2>9. PICK a \in Nat \ {0} : a = 2 ^ coeffs.alpha
    BY PowerPositive DEF IType, Limited
  <2>10. PICK z \in -hh .. hh - 1 : z = (gap \div a) + y
    <3>1. ((e - y) \div a) + y \in -hh .. hh - 1
      BY Between
    <3> QED BY <2>7, <3>1
  <2>11. yk' = IF tick1 THEN z ELSE y
    <3>1. z \in Signed(B) /\ z \in Int
      <4>1. z \in -h .. h - 1
        BY <2>a
      <4> QED BY <2>b, <4>1
    <3>2. ToSigned(z, B) = z
      BY <3>1, SignedFits, Widths
    <3>3. NextAverage = IF tick1 THEN z ELSE y
      BY <2>6, <2>8, <2>9, <2>10, <3>2 DEF NextAverage
    <3> QED BY <1>2, <3>3 DEF Enabled
  <2>12. PICK m \in Nat : m = Product /\ m = h * (h - 1)
    <3>1. h * (h - 1) \in Nat
      OBVIOUS
    <3> QED BY <2>3, <3>1 DEF Product
  <2>13. PICK x \in -hh .. hh - 1 : x = err
    BY <2>2, <2>3
  <2>14. PICK kp \in -h .. h, kd \in -h .. h : kp = coeffs.kp /\ kd = coeffs.kd
    <3>1. coeffs.kp \in -h .. h - 1 /\ coeffs.kd \in -h .. h - 1
      BY <2>b DEF IType, Limited
    <3> QED BY <3>1
  <2>15. kp * x \in -m .. m /\ kd * gap \in -m .. m
    <3>1. h - 1 \in Nat /\ x \in -(h - 1) .. h - 1
      BY <2>a
    <3> QED BY <2>12, <3>1, ProductFits
  <2>16. PICK pn \in -m .. m : pn = IF tick2 THEN kp * x ELSE p
    BY <2>2, <2>12, <2>15
  <2>17. PICK dn \in -m .. m : dn = IF tick2 THEN kd * gap ELSE d
    BY <2>2, <2>12, <2>15
  <2>18. p' = pn /\ d' = dn /\ err' = e
    BY <1>2, <2>5, <2>8, <2>13, <2>14, <2>16, <2>17 DEF Enabled
  <2>19. IdealUpdate = [err |-> e, yk |-> IF tick1 THEN z ELSE y, p |-> pn, d |-> dn]
    <3>1. ideal.err = x /\ ideal.yk = y /\ ideal.p = p /\ ideal.d = d
      BY <2>2, <2>6, <2>13
    <3>2. (IF tick1 THEN ideal.yk + (IdealGap \div (2 ^ coeffs.alpha)) ELSE ideal.yk)
            = IF tick1 THEN z ELSE y
      BY <2>8, <2>9, <2>10, <3>1
    <3>3. (IF tick2 THEN coeffs.kp * ideal.err ELSE ideal.p) = pn
      BY <2>14, <2>16, <3>1
    <3>4. (IF tick2 THEN coeffs.kd * IdealGap ELSE ideal.d) = dn
      BY <2>8, <2>14, <2>17, <3>1
    <3> QED BY <2>4, <3>2, <3>3, <3>4 DEF IdealUpdate
  <2>20. yk' \in -hh .. hh - 1
    BY <2>11
  <2>21. ideal' = [err |-> err', yk |-> yk', p |-> p', d |-> d']
    BY <2>1, <2>11, <2>18, <2>19
  <2> QED BY <2>3, <2>12, <2>18, <2>20, <2>21
<1> QED BY <1>1, <1>2 DEF Core, IIdeal

----------------------------------------------------------------------------
(* The invariant, step by step. *)

\* The registers and the copies after reset.
LEMMA ResetFits ==
  /\ ResetReg \in [Fields -> Int] /\ Limited(ResetReg)
  /\ ResetCoeffs \in [DOMAIN ResetCoeffs -> Int] /\ Limited(ResetCoeffs)
<1>1. PICK o \in Int : o = One
  BY Widths
<1>2. MAX_SAT \in Nat /\ ALPHA_INIT \in Nat
  BY PidAssumption
<1>3. 0 \in Signed(B) /\ 0 \in Signed(DAC)
  BY Widths DEF Signed
<1>4. Limited(ResetReg) /\ Limited(ResetCoeffs)
  BY <1>2, <1>3 DEF Limited, ResetReg, ResetCoeffs
<1>5. DOMAIN ResetReg = Fields
  BY Names DEF ResetReg
<1>6. \A f \in Fields : ResetReg[f] \in Int
  BY <1>1, <1>2, Names DEF ResetReg
<1>7. \A f \in DOMAIN ResetCoeffs : ResetCoeffs[f] \in Int
  BY <1>1, <1>2, Names DEF ResetCoeffs
<1>8. ResetReg = [f \in Fields |-> ResetReg[f]]
  BY <1>5 DEF ResetReg
<1>9. ResetCoeffs = [f \in DOMAIN ResetCoeffs |-> ResetCoeffs[f]]
  BY DEF ResetCoeffs
<1> QED BY <1>4, <1>6, <1>7, <1>8, <1>9

\* The invariant holds after reset.
LEMMA InitInv == Init => IInv
<1> SUFFICES ASSUME Init
             PROVE  IInv
  OBVIOUS
<1>1. IType
  <2>1. reg \in [Fields -> Int] /\ Limited(reg)
    BY ResetFits DEF Init
  <2>2. coeffs \in [DOMAIN ResetCoeffs -> Int] /\ Limited(coeffs)
    BY ResetFits DEF Init
  <2>3. sum \in Int /\ yk \in Int /\ err \in Int /\ p \in Int /\ d \in Int /\ i \in Int
    BY DEF Init
  <2>4. asked \in Requests /\ ok \in BOOLEAN /\ dat \in Samples
    BY DEF Init
  <2> QED BY <2>1, <2>2, <2>3, <2>4 DEF IType
<1>2. IWords
  BY Names DEF Init, IWords
<1>3. IWritten
  BY DEF Init, IWritten
<1>4. Threshold \in Nat \ {0} /\ 2 ^ (B - 1) \in Nat \ {0}
  BY <1>1, Update, Widths
<1>5. ISum
  BY <1>4 DEF Init, ISum
<1>6. IIntegral
  <2>1. 0 \in -(2 ^ (B - 1) * (Threshold - 1)) .. 2 ^ (B - 1) * (Threshold - 1)
    <3>1. ASSUME NEW h \in Nat, NEW t \in Nat \ {0}
          PROVE  0 \in -(h * (t - 1)) .. h * (t - 1)
      <4>1. h * (t - 1) \in Nat
        OBVIOUS
      <4> QED BY <4>1
    <3> QED BY <1>4, <3>1
  <2> QED BY <2>1 DEF Init, IIntegral
<1>7. IIdeal
  BY ZeroFits DEF Init, IIdeal, Zeros
<1> QED BY <1>1, <1>2, <1>3, <1>5, <1>6, <1>7 DEF IInv

\* A word that is written to its register.
LEMMA WordStep ==
  ASSUME IType, IWords, IWritten, Coefficient
  PROVE  /\ reg' \in [Fields -> Int] /\ Limited(reg') /\ ok' \in BOOLEAN
         /\ IWords' /\ IWritten'
<1>1. /\ todo /= <<>> /\ todo' = Tail(todo) /\ asked' = asked
      /\ reg' = [reg EXCEPT ![Head(todo).field] = Kept(Head(todo).field, Head(todo).payload)]
      /\ ok' = (ok /\ Echo(Head(todo).field, Kept(Head(todo).field, Head(todo).payload)) = Head(todo).payload)
  BY DEF Coefficient
<1>2. PICK n \in 1 .. 11 : n = Written + 1
  BY <1>1, HeadWord
<1>3. PICK f \in Fields : f = Order[n]
  BY <1>2, Names
<1>4. PICK v : v = Fixed(asked)[f]
  OBVIOUS
<1>5. PICK held : held = Kept(f, v)
  OBVIOUS
<1>6. Head(todo).field = f /\ Head(todo).payload = v /\ asked \in [Fields -> Int]
  BY <1>1, <1>2, <1>3, <1>4, HeadWord
<1>7. reg' = [reg EXCEPT ![f] = held] /\ ok' = (ok /\ Echo(f, held) = v)
  BY <1>1, <1>5, <1>6
<1>8. /\ held \in Int /\ (f \in {"kp", "kd", "ki"} => held \in Signed(B))
      /\ (f = "sp" => held \in Signed(DAC)) /\ (f = "bias" => held \in Signed(DAC))
      /\ (f \in {"sat", "alpha"} => held \in Nat)
  BY <1>4, <1>5, <1>6, KeptFits
<1>9. reg \in [Fields -> Int] /\ Limited(reg)
  BY DEF IType
<1>10. reg' \in [Fields -> Int] /\ reg'[f] = held /\ \A g \in Fields : g /= f => reg'[g] = reg[g]
  BY <1>7, <1>8, <1>9
<1>11. Limited(reg')
  BY <1>8, <1>9, <1>10, Names DEF Limited
<1>12. PICK m \in 1 .. 11 : m = Len(todo) /\ Written = 11 - m /\ n = 12 - m
  <2>1. Len(todo) \in 1 .. 11 /\ Written = 11 - Len(todo)
    BY <1>1, HeadWord, Names DEF Written
  <2>2. PICK m \in 1 .. 11 : m = Len(todo)
    BY <2>1
  <2>3. n = 11 - m + 1
    BY <1>2, <2>1, <2>2
  <2>4. n = 12 - m
    BY <2>3
  <2> QED BY <2>1, <2>2, <2>4
<1>13. todo \in Seq([field : Fields, payload : Int]) /\ Len(todo') = m - 1 /\ Written' = n /\ Written = n - 1
  <2>1. todo \in Seq([field : Fields, payload : Int])
    BY DEF IWords
  <2>2. Len(todo') = m - 1
    BY <1>1, <1>12, <2>1
  <2>3. Written' = 11 - (m - 1) /\ Written = 11 - m
    BY <1>12, <2>2, Names DEF Written
  <2> QED BY <1>12, <2>1, <2>2, <2>3
<1>14. IWords'
  <2>1. todo' \in Seq([field : Fields, payload : Int])
    BY <1>1, <1>13
  <2>2. ASSUME NEW k \in 1 .. m - 1
        PROVE  todo'[k] = WordOf(n + k)
    <3>1. PICK j \in 1 .. m : j = k + 1
      BY <1>12
    <3>2. todo[j] = WordOf(Written + j)
      BY <1>12 DEF IWords
    <3>3. todo'[k] = todo[k + 1]
      BY <1>1, <1>12, <1>13
    <3>4. Written + j = n + k
      BY <1>13, <3>1
    <3> QED BY <3>1, <3>2, <3>3, <3>4
  <2>3. \A k \in 1 .. m - 1 : (todo'[k] = WordOf(n + k)')
    BY <1>1, <2>2 DEF WordOf
  <2>4. Len(todo') <= Len(Order)
    <3>1. m - 1 <= 11
      BY <1>12
    <3> QED BY <1>13, <3>1, Names
  <2> QED BY <1>13, <2>1, <2>3, <2>4 DEF IWords, WordOf
<1>15. IWritten'
  <2> SUFFICES ASSUME ok', NEW k \in 1 .. n
               PROVE  /\ reg'[Order[k]] = Kept(Order[k], Fixed(asked)[Order[k]])
                      /\ Echo(Order[k], reg'[Order[k]]) = Fixed(asked)[Order[k]]
    BY <1>1, <1>13 DEF IWritten
  <2>1. ok /\ Echo(f, held) = v
    BY <1>7
  <2>2. CASE Order[k] = f
    BY <1>4, <1>5, <1>10, <2>1, <2>2
  <2>3. CASE Order[k] /= f
    <3>1. k /= n
      BY <1>3, <2>3
    <3>2. k \in 1 .. n - 1 /\ k \in 1 .. 11
      BY <3>1
    <3>3. /\ reg[Order[k]] = Kept(Order[k], Fixed(asked)[Order[k]])
          /\ Echo(Order[k], reg[Order[k]]) = Fixed(asked)[Order[k]]
      BY <1>13, <2>1, <3>2 DEF IWritten
    <3>4. reg'[Order[k]] = reg[Order[k]]
      BY <1>10, <2>3, <3>2, Names
    <3> QED BY <3>3, <3>4
  <2> QED BY <2>2, <2>3
<1> QED BY <1>1, <1>7, <1>10, <1>11, <1>14, <1>15

\* The limits around the sum and the integral, after an edge.
LEMMA LimitStep ==
  ASSUME IType, ISum, IIntegral, Core
  PROVE  ISum' /\ IIntegral'
<1>1. ISum'
  BY CoreLimits DEF ISum
<1>2. IIntegral'
  BY CoreLimits DEF IIntegral
<1> QED BY <1>1, <1>2

\* Every step keeps the invariant.
LEMMA Step ==
  ASSUME IInv, [Next]_vars
  PROVE  IInv'
<1> USE DEF IInv
<1>1. CASE Sample
  <2>1. /\ UNCHANGED <<todo, asked, ok, reg, coeffs, sum, yk, err, p, d, i, lowered, ideal, strained>>
        /\ dat' \in Samples
    BY <1>1 DEF Sample, server, core, datapath, history
  <2>2. IType'
    BY <2>1 DEF IType
  <2>3. IWords' /\ IWritten'
    BY <2>1 DEF IWords, IWritten, WordOf, Written
  <2>4. ISum' /\ IIntegral' /\ IIdeal'
    BY <2>1 DEF ISum, IIntegral, IIdeal, Threshold
  <2> QED BY <2>2, <2>3, <2>4
<1>2. CASE Clk
  <2>1. UNCHANGED <<todo, asked, ok, reg>> /\ Core
    BY <1>2 DEF Clk, server
  <2>2. IType'
    BY <2>1, CoreType DEF IType
  <2>3. IWords' /\ IWritten'
    BY <2>1 DEF IWords, IWritten, WordOf, Written
  <2> QED BY <2>1, <2>2, <2>3, LimitStep, CoreIdeal
<1>3. CASE Coefficient
  <2>1. Core /\ asked' = asked
    BY <1>3 DEF Coefficient
  <2>2. reg' \in [Fields -> Int] /\ Limited(reg') /\ ok' \in BOOLEAN /\ IWords' /\ IWritten'
    BY <1>3, WordStep
  <2>3. IType'
    BY <2>1, <2>2, CoreType DEF IType
  <2> QED BY <2>1, <2>2, <2>3, LimitStep, CoreIdeal
<1>4. CASE ResetFpga
  <2>1. /\ todo = <<>> /\ coeffs' = ResetCoeffs /\ reg' = ResetReg /\ ok' = FALSE
        /\ UNCHANGED <<todo, asked, dat>> /\ sum' = 0 /\ yk' = 0 /\ err' = 0
        /\ p' = 0 /\ d' = 0 /\ i' = 0 /\ ideal' = Zeros
    BY <1>4 DEF ResetFpga, Cleared
  <2>2. IType'
    <3>1. reg' \in [Fields -> Int] /\ Limited(reg') /\ coeffs' \in [DOMAIN ResetCoeffs -> Int] /\ Limited(coeffs')
      BY <2>1, ResetFits
    <3>2. sum' \in Int /\ yk' \in Int /\ err' \in Int /\ p' \in Int /\ d' \in Int /\ i' \in Int
      BY <2>1
    <3>3. asked' \in Requests /\ ok' \in BOOLEAN /\ dat' \in Samples
      BY <2>1 DEF IType
    <3> QED BY <3>1, <3>2, <3>3 DEF IType
  <2>3. IWords' /\ IWritten'
    BY <2>1, Names DEF IWords, IWritten
  <2>4. Threshold' \in Nat \ {0}
    <3>1. coeffs'.sat \in Nat
      BY <2>2 DEF IType, Limited
    <3> QED BY <3>1, PowerPositive DEF Threshold
  <2>5. ISum'
    <3>1. \A t \in Nat \ {0} : 0 \in 1 - t .. t - 1
      OBVIOUS
    <3> QED BY <2>1, <2>4, <3>1 DEF ISum
  <2>6. IIntegral'
    <3>1. ASSUME NEW h \in Nat, NEW t \in Nat \ {0}
          PROVE  0 \in -(h * (t - 1)) .. h * (t - 1)
      <4>1. h * (t - 1) \in Nat
        OBVIOUS
      <4> QED BY <4>1
    <3>2. 0 \in -(2 ^ (B - 1) * (Threshold' - 1)) .. 2 ^ (B - 1) * (Threshold' - 1)
      BY <2>4, <3>1, Widths
    <3> QED BY <2>1, <3>2 DEF IIntegral
  <2>7. IIdeal'
    BY <2>1, ZeroFits DEF IIdeal, Zeros
  <2> QED BY <2>2, <2>3, <2>5, <2>6, <2>7
<1>5. ASSUME NEW r \in Requests, SetPid(r)
      PROVE  IInv'
  <2>1. /\ asked' = r
        /\ todo' = [n \in 1 .. Len(Order) |-> [field |-> Order[n], payload |-> Fixed(r)[Order[n]]]]
        /\ ok' = TRUE /\ UNCHANGED <<reg, coeffs, dat, sum, yk, err, p, d, i, lowered, ideal, strained>>
    BY <1>5 DEF SetPid, core, datapath, history
  <2>2. r \in [Fields -> Int]
    BY PidAssumption
  <2>3. \A n \in 1 .. 11 : [field |-> Order[n], payload |-> Fixed(r)[Order[n]]] \in [field : Fields, payload : Int]
    BY <2>2, FixedFits, Names
  <2>4. todo' = [n \in 1 .. 11 |-> [field |-> Order[n], payload |-> Fixed(r)[Order[n]]]]
    BY <2>1, Names
  <2>5. todo' \in [1 .. 11 -> [field : Fields, payload : Int]]
    BY <2>3, <2>4
  <2>6. todo' \in Seq([field : Fields, payload : Int]) /\ Len(todo') = 11
    <3>1. PICK n \in Nat : n = 11
      OBVIOUS
    <3>2. PICK R : R = [field : Fields, payload : Int]
      OBVIOUS
    <3>3. todo' \in [1 .. n -> R]
      BY <2>5, <3>1, <3>2
    <3>4. todo' \in Seq(R) /\ Len(todo') = n
      BY <3>3
    <3> QED BY <3>1, <3>2, <3>4
  <2>7. Written' = 0
    BY <2>6, Names DEF Written
  <2>8. \A k \in 1 .. 11 : (todo'[k] = WordOf(0 + k)')
    BY <2>1, <2>4 DEF WordOf
  <2>9. IWords'
    BY <2>6, <2>7, <2>8, Names DEF IWords, WordOf
  <2>10. IWritten'
    BY <2>7 DEF IWritten
  <2>11. IType'
    BY <2>1 DEF IType
  <2>12. ISum' /\ IIntegral' /\ IIdeal'
    BY <2>1 DEF ISum, IIntegral, IIdeal, Threshold
  <2> QED BY <2>9, <2>10, <2>11, <2>12
<1>6. CASE UNCHANGED vars
  <2>1. UNCHANGED <<todo, asked, ok, reg, coeffs, sum, yk, err, p, d, i, lowered, ideal, strained, dat>>
    BY <1>6 DEF vars, server, core, datapath, history
  <2>2. IType'
    BY <2>1 DEF IType
  <2>3. IWords' /\ IWritten'
    BY <2>1 DEF IWords, IWritten, WordOf, Written
  <2>4. ISum' /\ IIntegral' /\ IIdeal'
    BY <2>1 DEF ISum, IIntegral, IIdeal, Threshold
  <2> QED BY <2>2, <2>3, <2>4
<1> QED BY <1>1, <1>2, <1>3, <1>4, <1>5, <1>6 DEF Next

\* The invariant holds in every behaviour.
LEMMA Invariance == Spec => []IInv
BY InitInv, Step, PTL DEF Spec

----------------------------------------------------------------------------
(* What the controller promises. *)

\* For any widths and requests, a call that reports success with the controller on has its
\* coefficients in the core, the bias subtracted, shifts and decimations within bounds, and
\* was no call with an enable other than 1 (cmd_set_pid of control.c, the registers of
\* pdh_core.sv and their copies in pid_core.sv).
THEOREM InForce == Spec => []OkMeansInForce
<1>1. IInv => OkMeansInForce
  <2> SUFFICES ASSUME IInv, todo = <<>>, ok, asked.en /= 0, coeffs = Copied
               PROVE  /\ asked.en = 1 /\ reg.en = 1
                      /\ \A f \in {"kp", "kd", "ki", "sp", "alpha", "gain", "egain"} :
                           coeffs[f] = Fixed(asked)[f]
                      /\ coeffs.bias = -ToRange(asked.bias, -Mid, Mid)
                      /\ coeffs.sat >= MIN_SAT /\ coeffs.dec >= 1
    BY DEF OkMeansInForce
  <2> USE DEF IInv
  <2>1. asked \in [Fields -> Int]
    BY PidAssumption DEF IType
  <2>2. Written = 11
    BY Names DEF Written
  <2>3. \A f \in Fields : reg[f] = Kept(f, Fixed(asked)[f]) /\ Echo(f, reg[f]) = Fixed(asked)[f]
    BY <2>2, Names DEF IWritten
  <2>4. coeffs.sat >= MIN_SAT /\ coeffs.dec >= 1 /\ \A f \in DOMAIN ResetCoeffs \ {"dec", "sat"} : coeffs[f] = reg[f]
    BY CopiedFits
  <2>5. asked.en = 1 /\ reg.en = 1
    <3>1. "en" \in Fields
      BY Names
    <3>2. reg.en = Fixed(asked).en % 2 /\ Echo("en", reg.en) = reg.en
      BY <2>1, <2>3, <3>1, KeptFits
    <3>3. Fixed(asked).en = asked.en /\ asked.en \in Int
      BY <2>1, <3>1, FixedFits
    <3>4. reg.en = asked.en
      BY <2>3, <3>1, <3>2, <3>3
    <3> QED BY <3>2, <3>3, <3>4
  <2>6. ASSUME NEW f \in {"kp", "kd", "ki", "sp", "alpha", "gain", "egain"}
        PROVE  coeffs[f] = Fixed(asked)[f]
    <3>1. f \in Fields /\ f \in DOMAIN ResetCoeffs \ {"dec", "sat"} /\ f \notin {"bias", "en"}
      BY Names
    <3>2. Kept(f, Fixed(asked)[f]) = Fixed(asked)[f]
      BY <2>1, <3>1, KeptFits
    <3> QED BY <2>3, <2>4, <3>1, <3>2
  <2>7. coeffs.bias = -ToRange(asked.bias, -Mid, Mid)
    <3>1. "bias" \in Fields /\ "bias" \in DOMAIN ResetCoeffs \ {"dec", "sat"}
      BY Names
    <3>2. Kept("bias", Fixed(asked)["bias"]) = -(Fixed(asked)["bias"])
      BY <2>1, <3>1, KeptFits
    <3>3. Fixed(asked).bias = ToRange(asked.bias, -Mid, Mid)
      BY <2>1, FixedFits
    <3> QED BY <2>3, <2>4, <3>1, <3>2, <3>3
  <2> QED BY <2>4, <2>5, <2>6, <2>7
<1> QED BY Invariance, <1>1, PTL

\* The limits around the sum and the integral keep its quotient within its bits.
LEMMA IntegralRoom ==
  ASSUME IInv, ~lowered
  PROVE  i \div (2 ^ coeffs.sat) \in Signed(B)
<1>1. PICK h \in Nat \ {0} : h = 2 ^ (B - 1) /\ Signed(B) = -h .. h - 1
  BY Widths DEF Signed
<1>2. PICK t \in Nat \ {0} : t = 2 ^ coeffs.sat /\ t = Threshold
  BY Update DEF IInv, Threshold
<1>3. i \in -(h * (t - 1)) .. h * (t - 1) /\ i \in Int
  BY <1>1, <1>2 DEF IInv, IType, IIntegral
<1>4. h * (t - 1) = h * t - h /\ h * t \in Nat
  OBVIOUS
<1>5. -(h * t) <= i /\ i < h * t
  BY <1>3, <1>4
<1>6. i \div t \in -h .. h - 1
  BY <1>3, <1>5, QuotientFits
<1> QED BY <1>1, <1>2, <1>6

\* For any widths and samples the integral term, a product of two registers shifted by a
\* third, fits its bits as long as the shift has not been lowered under a running
\* controller (apply_satwidth_truncation and i_error_r of pid_core.sv).
THEOREM IntegralInBits == Spec => []IntegralFits
<1>1. IInv => IntegralFits
  BY IntegralRoom DEF IntegralFits
<1> QED BY Invariance, <1>1, PTL

\* The sum of the terms has room for a gain of 5.0, in the bits above B.
LEMMA Room ==
  ASSUME GUARD >= 4
  PROVE  /\ Wide \in Nat \ {0} /\ 2 ^ (Wide - 1) \in Nat \ {0} /\ 16 * 2 ^ (B - 1) <= 2 ^ (Wide - 1)
         /\ Low(Wide) = -(2 ^ (Wide - 1)) /\ High(Wide) = 2 ^ (Wide - 1) - 1
<1>1. B \in Nat \ {0} /\ GUARD \in Nat
  BY Widths, PidAssumption
<1>2. PICK b \in Nat : b = B - 1
  BY <1>1
<1>3. 2 ^ (b + 1) = 2 * 2 ^ b
  BY PowerDoubles
<1>4. 2 ^ (b + 1 + 1) = 2 * 2 ^ (b + 1)
  <2>1. b + 1 \in Nat
    OBVIOUS
  <2> QED BY <2>1, PowerDoubles
<1>5. 2 ^ (b + 1 + 1 + 1) = 2 * 2 ^ (b + 1 + 1)
  <2>1. b + 1 + 1 \in Nat
    OBVIOUS
  <2> QED BY <2>1, PowerDoubles
<1>6. 2 ^ (b + 1 + 1 + 1 + 1) = 2 * 2 ^ (b + 1 + 1 + 1)
  <2>1. b + 1 + 1 + 1 \in Nat
    OBVIOUS
  <2> QED BY <2>1, PowerDoubles
<1>7. PICK c \in Nat : c = b + 1 + 1 + 1 + 1
  OBVIOUS
<1>8. 2 ^ c = 16 * 2 ^ b
  <2>1. 2 ^ b \in Nat
    BY PowerPositive
  <2> QED BY <1>3, <1>4, <1>5, <1>6, <1>7, <2>1
<1>9. PICK w \in Nat : w = Wide - 1 /\ c <= w
  <2>1. Wide - 1 \in Nat /\ c <= Wide - 1
    BY <1>1, <1>2, <1>7 DEF Wide
  <2> QED BY <2>1
<1>10. 2 ^ c <= 2 ^ w /\ 2 ^ w \in Nat \ {0}
  BY <1>9, PowerGrows, PowerPositive
<1>11. Wide \in Nat \ {0}
  BY <1>1 DEF Wide
<1> QED BY <1>2, <1>8, <1>9, <1>10, <1>11 DEF Low, High

\* As long as no error has left half its range and no shift has been lowered, no term is
\* cut by its width: their sum is that of the controller without widths, and less than
\* three numbers of B bits.
LEMMA Terms ==
  ASSUME IInv, ~lowered, ~strained
  PROVE  Total = IdealTotal /\ Total \in -(3 * 2 ^ (B - 1)) .. 3 * 2 ^ (B - 1)
<1>1. PICK h \in Nat \ {0} : h = 2 ^ (B - 1) /\ Signed(B) = -h .. h - 1
  BY Widths DEF Signed
<1>2. PICK m \in Nat : m = Product /\ m = h * h - h /\ h * h \in Nat
  <2>1. h * (h - 1) = h * h - h /\ h * (h - 1) \in Nat /\ h * h \in Nat
    OBVIOUS
  <2> QED BY <1>1, <2>1 DEF Product
<1>3. p \in -m .. m /\ d \in -m .. m /\ ideal.p = p /\ ideal.d = d
  BY <1>2 DEF IInv, IIdeal
<1>4. ASSUME NEW x \in -m .. m
      PROVE  x \div h \in -h .. h - 1
  <2>1. -(h * h) <= x /\ x < h * h
    BY <1>2
  <2>2. PICK y \in Int, n \in Nat : y = x /\ n = h
    OBVIOUS
  <2>3. y \div h \in -n .. n - 1
    BY <2>1, <2>2, QuotientFits
  <2> QED BY <2>2, <2>3
<1>5. i \div (2 ^ coeffs.sat) \in -h .. h - 1
  BY <1>1, IntegralRoom
<1>6. \A x \in -h .. h - 1 : ToSigned(x, B) = x
  <2>1. \A x \in -h .. h - 1 : x \in Int
    OBVIOUS
  <2> QED BY <1>1, <2>1, SignedFits, Widths
<1>7. PICK pt \in -h .. h - 1 : pt = p \div h
  BY <1>3, <1>4
<1>8. PICK dt \in -h .. h - 1 : dt = d \div h
  BY <1>3, <1>4
<1>9. PICK it \in -h .. h - 1 : it = i \div (2 ^ coeffs.sat)
  BY <1>5
<1>10. PTerm = pt
  BY <1>1, <1>6, <1>7 DEF PTerm
<1>11. DTerm = dt
  BY <1>1, <1>6, <1>8 DEF DTerm
<1>12. ITerm = it
  BY <1>6, <1>9 DEF ITerm
<1>13. IdealTotal = pt + dt + it
  BY <1>1, <1>3, <1>7, <1>8, <1>9 DEF IdealTotal
<1>14. Total = pt + dt + it
  BY <1>10, <1>11, <1>12 DEF Total
<1> QED BY <1>1, <1>13, <1>14

\* For any widths, samples and requests, with the four bits the code keeps above the terms,
\* an output gain of at most 5.0 gives the output of a controller computed without widths,
\* as long as no shift has been lowered under it and no error has left half its range:
\* nothing from the sample to the converter but the saturation of the error and that of the
\* output itself saturates or wraps (error_pipe1_r to pid_out of pid_core.sv).
THEOREM OutputIsSum ==
  ASSUME GUARD >= 4
  PROVE  Spec => []OutputFaithful
<1>1. IInv => OutputFaithful
  <2> SUFFICES ASSUME IInv, coeffs.gain \in SafeGain, ~lowered, ~strained
               PROVE  pid_out = IdealOut
    BY DEF OutputFaithful
  <2>1. PICK h \in Nat \ {0} : h = 2 ^ (B - 1)
    BY Widths
  <2>2. PICK o \in Nat \ {0} : o = One
    BY Widths
  <2>3. PICK g \in Nat \ {0} : Mid = g - 1 /\ Signed(DAC) = -g .. g - 1 /\ 2 * g <= h
    BY <2>1, Widths DEF Mid, Signed
  <2>4. PICK w \in Nat \ {0} : Low(Wide) = -w /\ High(Wide) = w - 1 /\ Signed(Wide) = -w .. w - 1 /\ 16 * h <= w
    BY <2>1, Room DEF Signed
  <2>5. PICK a \in -(3 * h) .. 3 * h : a = Total /\ a = IdealTotal
    BY <2>1, Terms
  <2>6. PICK x \in -(5 * o) .. 5 * o : x = coeffs.gain
    BY <2>2 DEF SafeGain
  <2>7. PICK bias \in -g .. g - 1 : bias = coeffs.bias
    BY <2>3 DEF IInv, IType, Limited
  <2>8. a * x \in -((3 * h) * (5 * o)) .. (3 * h) * (5 * o)
    <3>1. 3 * h \in Nat /\ 5 * o \in Nat
      OBVIOUS
    <3> QED BY <3>1, ProductFits
  <2>9. (3 * h) * (5 * o) = 15 * (h * o) /\ (15 * h + 1) * o = 15 * (h * o) + o /\ h * o \in Nat
    OBVIOUS
  <2>10. PICK q \in -(15 * h + 1) .. 15 * h : q = (a * x) \div o
    <3>1. 15 * h + 1 \in Nat /\ a * x \in Int /\ -((15 * h + 1) * o) <= a * x /\ a * x < (15 * h + 1) * o
      BY <2>8, <2>9
    <3>2. (a * x) \div o \in -(15 * h + 1) .. (15 * h + 1) - 1
      BY <3>1, QuotientFits
    <3> QED BY <3>2
  <2>11. Gained = q
    <3>1. Gained = ToRange(q, -w, w - 1)
      BY <2>2, <2>4, <2>5, <2>6, <2>10 DEF Gained
    <3>2. q \in -w .. w - 1
      BY <2>4
    <3> QED BY <3>1, <3>2 DEF ToRange
  <2>12. ToSigned(Gained + Mid + coeffs.bias, Wide) = Gained + Mid + coeffs.bias
    <3>1. PICK s \in Int : s = q + (g - 1) + bias
      OBVIOUS
    <3>2. s \in -w .. w - 1
      BY <2>3, <2>4, <3>1
    <3>3. ToSigned(s, Wide) = s
      BY <2>4, <3>2, SignedFits, Room
    <3> QED BY <2>3, <2>7, <2>11, <3>1, <3>3
  <2>13. IdealOut = ToRange(q + Mid + coeffs.bias, 0, MaxOut)
    BY <2>2, <2>5, <2>6, <2>10 DEF IdealOut
  <2>14. pid_out = ToRange(q + Mid + coeffs.bias, 0, MaxOut)
    BY <2>11, <2>12 DEF pid_out
  <2> QED BY <2>13, <2>14
<1> QED BY Invariance, <1>1, PTL

----------------------------------------------------------------------------
(* Input gains of at most 1.0. *)

\* The input gains of the registers and of their copies, and what follows of them.
ICalm == reg.egain \in -One .. One /\ coeffs.egain \in -One .. One /\ ~strained

\* With two bits between a sample and a coefficient an input gain of at most 1.0 leaves
\* every error within half its range.
LEMMA SmallErrors ==
  ASSUME IType, DAC + 2 <= B, coeffs.egain \in -One .. One
  PROVE  ~Straining
<1>1. PICK g \in Nat \ {0} : Signed(DAC) = -g .. g - 1 /\ 2 ^ DAC = 2 * g
  BY Widths DEF Signed
<1>2. PICK hh \in Nat \ {0}, h \in Nat \ {0} :
        /\ h = 2 * hh /\ Low(B) = -h /\ High(B) = h - 1 /\ 2 * g <= hh
        /\ Low(B - 1) .. High(B - 1) = -hh .. hh - 1
  <2>1. DAC \in Nat /\ B - 1 - 1 \in Nat /\ DAC <= B - 1 - 1
    BY Widths, PidAssumption
  <2>2. 2 ^ DAC <= 2 ^ (B - 1 - 1)
    BY <2>1, PowerGrows
  <2>3. Low(B - 1) .. High(B - 1) = Signed(B - 1)
    BY DEF Signed
  <2> QED BY <1>1, <2>2, <2>3, Halves, Widths
<1>3. PICK o \in Nat \ {0} : o = One
  BY Widths
<1>4. dat \in -g .. g - 1 /\ coeffs.sp \in -g .. g - 1
  BY <1>1, PidAssumption DEF IType, Limited
<1>5. PICK k \in Nat : k = 2 * g
  OBVIOUS
<1>6. PICK x \in -k .. k : x = dat - coeffs.sp /\ x /= -k /\ x /= k
  <2>1. dat - coeffs.sp \in -k .. k /\ dat - coeffs.sp /= -k /\ dat - coeffs.sp /= k
    BY <1>4, <1>5
  <2> QED BY <2>1
<1>7. PICK m \in Nat : k = m + 1 /\ x \in -m .. m
  <2>1. k - 1 \in Nat /\ k = (k - 1) + 1 /\ x \in -(k - 1) .. k - 1
    BY <1>5, <1>6
  <2> QED BY <2>1
<1>8. PICK e \in -o .. o : e = coeffs.egain
  BY <1>3
<1>9. x * e \in -(m * o) .. m * o
  BY <1>7, ProductFits
<1>10. PICK y \in Int : y = x * e /\ -(k * o) <= y /\ y < k * o
  <2>1. k * o = m * o + o /\ m * o \in Nat
    BY <1>7
  <2> QED BY <1>9, <2>1
<1>11. y \div o \in -k .. k - 1
  BY <1>10, QuotientFits
<1>12. PICK q \in -k .. k - 1 : q = y \div o
  BY <1>11
<1>13. q \in -hh .. hh - 1 /\ ToRange(q, -h, h - 1) = q
  <2>1. k <= hh /\ hh <= h
    BY <1>2, <1>5
  <2> QED BY <2>1 DEF ToRange
<1>14. IdealError = q
  BY <1>2, <1>3, <1>6, <1>8, <1>10, <1>12, <1>13 DEF IdealError
<1> QED BY <1>2, <1>13, <1>14 DEF Straining

\* Every step leaves the input gains at most 1.0.
LEMMA CalmStep ==
  ASSUME DAC + 2 <= B, \A r \in Requests : r.egain \in -One .. One, IInv, ICalm, [Next]_vars
  PROVE  ICalm'
<1> PICK R : R = -One .. One
  OBVIOUS
<1>0. reg.egain \in R /\ coeffs.egain \in R /\ ~strained /\ ~Straining /\ IType
  BY SmallErrors DEF ICalm, IInv
<1>1. ASSUME Core
      PROVE  coeffs'.egain \in R /\ ~strained'
  <2>1. CASE Disabled
    BY <1>0, <2>1 DEF Disabled, Cleared
  <2>2. CASE Enabled
    <3>1. Copied.egain = reg.egain
      BY <1>0, CopiedFits, Names
    <3> QED BY <1>0, <2>2, <3>1 DEF Enabled
  <2> QED BY <1>1, <2>1, <2>2 DEF Core
<1>2. CASE Sample
  BY <1>2 DEF Sample, core, history, ICalm
<1>3. CASE Clk
  BY <1>0, <1>1, <1>3 DEF Clk, ICalm
<1>4. CASE Coefficient
  <2>1. Core /\ todo /= <<>> /\ reg' = [reg EXCEPT ![Head(todo).field] = Kept(Head(todo).field, Head(todo).payload)]
    BY <1>4 DEF Coefficient
  <2>2. PICK f \in Fields : f = Order[Written + 1]
    BY <1>0, <2>1, HeadWord DEF IInv
  <2>3. PICK held : held = Kept(f, Fixed(asked)[f])
    OBVIOUS
  <2>4. reg' = [reg EXCEPT ![f] = held] /\ asked \in [Fields -> Int]
    BY <1>0, <2>1, <2>2, <2>3, HeadWord DEF IInv
  <2>5. f = "egain" => held \in R
    <3> SUFFICES ASSUME f = "egain"
                 PROVE  held \in R
      OBVIOUS
    <3>1. held = Fixed(asked).egain
      BY <2>3, <2>4, KeptFits
    <3>2. PICK h \in Nat \ {0}, o \in Nat \ {0} : Low(B) = -h /\ High(B) = h - 1 /\ o = One
      BY Widths
    <3>3. PICK x \in -o .. o : x = asked.egain
      BY <1>0, <3>2 DEF IType
    <3>4. held = ToRange(x, -h, h - 1)
      BY <3>1, <3>2, <3>3 DEF Fixed
    <3>5. ToRange(x, -h, h - 1) \in -o .. o
      BY DEF ToRange
    <3> QED BY <3>2, <3>4, <3>5
  <2>6. reg'.egain \in R
    <3>1. reg \in [Fields -> Int] /\ "egain" \in Fields
      BY <1>0, Names DEF IType
    <3> QED BY <1>0, <2>4, <2>5, <3>1
  <2> QED BY <1>1, <2>1, <2>6 DEF ICalm
<1>5. CASE ResetFpga
  <2>1. coeffs' = ResetCoeffs /\ reg' = ResetReg /\ strained' = FALSE
    BY <1>5 DEF ResetFpga, Cleared
  <2>2. PICK o \in Nat : o = One
    BY Widths
  <2>3. One \in -One .. One
    BY <2>2
  <2> QED BY <2>1, <2>3 DEF ResetCoeffs, ResetReg, ICalm
<1>6. ASSUME NEW r \in Requests, SetPid(r)
      PROVE  ICalm'
  BY <1>6 DEF SetPid, core, history, ICalm
<1>7. CASE UNCHANGED vars
  BY <1>7 DEF vars, core, history, ICalm
<1> QED BY <1>2, <1>3, <1>4, <1>5, <1>6, <1>7 DEF Next

\* For any widths with two bits between a sample and a coefficient, as the code has, and
\* any requests whose input gain is at most 1.0, no error ever leaves half its range: up to
\* an output gain of 5.0 the output is that of the controller without widths at every edge
\* but those after a shift lowered under it (error_pipe1_r to pid_out of pid_core.sv).
THEOREM OutputIsSumUpToOne ==
  ASSUME GUARD >= 4, DAC + 2 <= B, \A r \in Requests : r.egain \in -One .. One
  PROVE  Spec => [](OutputFaithful /\ ~strained)
<1>1. Init => ICalm
  <2> SUFFICES ASSUME Init
               PROVE  ICalm
    OBVIOUS
  <2>1. PICK o \in Nat : o = One
    BY Widths
  <2>2. One \in -One .. One
    BY <2>1
  <2> QED BY <2>2 DEF Init, ResetCoeffs, ResetReg, ICalm
<1>2. IInv /\ ICalm /\ [Next]_vars => ICalm'
  BY CalmStep
<1>3. ICalm => ~strained
  BY DEF ICalm
<1>4. Spec => []OutputFaithful
  BY OutputIsSum
<1> QED BY Invariance, <1>1, <1>2, <1>3, <1>4, PTL DEF Spec

====
