---- MODULE FirProofs ----
(***************************************************************************)
(* Proofs about FirLoad for any number of taps and any list of             *)
(* coefficients: what a load that reports success has done, and that the   *)
(* first load after a reset is atomic.                                     *)
(***************************************************************************)
EXTENDS FirLoad, SequenceTheorems, TLAPS

----------------------------------------------------------------------------
(* How far a load has come, in words: read back (Checked), latched, in the *)
(* registers, and in the memory.                                           *)

Size == Len(asked)
Checked == IF asked = <<>> THEN 0 ELSE 2 * Size + 3 - Len(todo)
Latched == IF waiting /\ port = <<>> THEN Checked + 1 ELSE Checked
InReg == IF edges = 0 THEN Latched - 1 ELSE Latched
InMemory == IF edges = 2 THEN Latched ELSE Latched - 1

Words == [sel : Selects, payload : Int]

IType ==
  /\ asked = <<>> \/ asked \in Lists
  /\ todo \in Seq(Words) /\ cmd \in Words /\ edges \in 0 .. 2
  /\ ok \in BOOLEAN /\ waiting \in BOOLEAN /\ live \in BOOLEAN
  /\ reg \in [addr : Taps, coeff : Int, mem_write_en : {0, 1}, chain_write_en : {0, 1}]
  /\ tap_coeffs \in [Taps -> Int] /\ coeff_r \in [Taps -> Int] /\ before \in [Taps -> Int]

\* What is left is the end of the program; a word is in the port or latched while its
\* callback is awaited, and anything else has settled.
ITodo ==
  /\ asked = <<>> => todo = <<>>
  /\ asked /= <<>> => /\ Len(todo) <= 2 * Size + 3
                     /\ \A k \in 1 .. Len(todo) : todo[k] = Program(asked)[Checked + k]
  /\ waiting => todo /= <<>> /\ (port = <<Head(todo)>> \/ (port = <<>> /\ cmd = Head(todo)))
  /\ ~waiting => port = <<>>
  /\ edges < 2 => waiting /\ port = <<>>

\* The registers: each word that has reached them, and no other, is in them.
IReg ==
  /\ edges > 0 => NextReg = reg
  /\ edges = 2 => callback_r = Echo
  /\ reg.mem_write_en = (IF InReg \in 1 .. 2 * Size + 1 THEN 1 ELSE 0)
  /\ asked /= <<>> /\ InReg = 2 * Size + 3 => reg.chain_write_en = 1
  /\ reg.chain_write_en = 1 => live \/ (asked /= <<>> /\ InReg = 2 * Size + 3)
  /\ \A t \in 0 .. Size - 1 :
       /\ InReg = 2 * t + 2 => reg.addr = t % NTAPS
       /\ InReg = 2 * t + 3 => reg.addr = t % NTAPS /\ reg.coeff = asked[t + 1]

\* The memory: the coefficients that have come are in it, those above them are as
\* before, and the address left in the register is harmless to the next load.
IMemory ==
  /\ asked /= <<>> /\ Size <= NTAPS =>
       /\ \A t \in 0 .. Size - 1 : 2 * t + 3 <= InMemory => tap_coeffs[t] = asked[t + 1]
       /\ \A t \in Taps : t >= Size => tap_coeffs[t] = before[t]
  /\ InReg < 2 \/ InMemory >= 2 * Size + 1 => reg.addr = 0 \/ tap_coeffs[reg.addr] = reg.coeff
  /\ asked /= <<>> /\ InMemory = 2 * Size + 3 => coeff_r = tap_coeffs /\ live

\* An address past the taps wraps around, and its echo fails the call.
IFail == asked /= <<>> /\ Size > NTAPS /\ Checked >= 2 * NTAPS + 2 => ~ok

IInv == IType /\ ITodo /\ IReg /\ IMemory /\ IFail

----------------------------------------------------------------------------
(* The program of a load. *)

\* A tap's address is kept whole, and the first one too many wraps around to 0.
LEMMA Wraps == (\A t \in Taps : t % NTAPS = t) /\ NTAPS % NTAPS = 0 /\ (\A x \in Int : x % NTAPS \in Taps)
  BY FirAssumption DEF Taps

\* What a list of coefficients is.
LEMMA ListType ==
  ASSUME NEW c \in Lists
  PROVE  c \in Seq(Coeffs) /\ Len(c) \in Nat \ {0} /\ c /= <<>> /\ \A t \in 0 .. Len(c) - 1 : c[t + 1] \in Int
<1>1. PICK n \in 1 .. MAX_COEFFS : c \in [1 .. n -> Coeffs]
  BY DEF Lists
<1>2. n \in Nat \ {0}
  BY <1>1, FirAssumption
<1>3. c \in Seq(Coeffs) /\ Len(c) = n
  BY <1>1, <1>2
<1>4. c /= <<>>
  BY <1>2, <1>3
<1>5. ASSUME NEW t \in 0 .. n - 1
      PROVE  c[t + 1] \in Int
  <2>1. PICK i : i = t + 1
    OBVIOUS
  <2>2. i \in 1 .. n
    BY <1>2, <2>1
  <2>3. c[i] \in Coeffs
    BY <1>1, <2>2
  <2> QED BY <2>1, <2>3, FirAssumption
<1> QED BY <1>2, <1>3, <1>4, <1>5

\* What a concatenation holds.
LEMMA Concat ==
  ASSUME NEW S, NEW s \in Seq(S), NEW m \in Seq(S), NEW t, t = s \o m
  PROVE  /\ t \in Seq(S) /\ Len(t) = Len(s) + Len(m)
         /\ (\A i \in 1 .. Len(s) : t[i] = s[i])
         /\ (\A i \in 1 .. Len(m) : t[Len(s) + i] = m[i])
  BY ConcatProperties

\* The words a load is made of, one by one.
LEMMA ProgramWords ==
  ASSUME NEW c \in Lists
  PROVE  LET n == Len(c)
             w == Program(c)
         IN  /\ w \in Seq(Words) /\ Len(w) = 2 * n + 3
             /\ w[1] = Word("MEM_WRITE_EN", 1)
             /\ \A t \in 0 .. n - 1 : w[2 * t + 2] = Word("ADDR", t) /\ w[2 * t + 3] = Word("COEFF", c[t + 1])
             /\ w[2 * n + 2] = Word("MEM_WRITE_EN", 0) /\ w[2 * n + 3] = Word("CHAIN_WRITE_EN", 1)
<1>0. PICK n \in Nat \ {0} : n = Len(c) /\ \A t \in 0 .. n - 1 : c[t + 1] \in Int
  BY ListType
<1>1. PICK a : a = <<Word("MEM_WRITE_EN", 1)>>
  OBVIOUS
<1>2. PICK b : b = [i \in 1 .. 2 * Len(c) |->
                      IF i % 2 = 1 THEN Word("ADDR", i \div 2) ELSE Word("COEFF", c[i \div 2])]
  OBVIOUS
<1>3. PICK d : d = <<Word("MEM_WRITE_EN", 0), Word("CHAIN_WRITE_EN", 1)>>
  OBVIOUS
<1>4. PICK ab : ab = a \o b
  OBVIOUS
<1>5. PICK w : w = ab \o d
  OBVIOUS
<1>6. Program(c) = w
  BY <1>1, <1>2, <1>3, <1>4, <1>5 DEF Program
<1>7. a \in Seq(Words) /\ Len(a) = 1 /\ a[1] = Word("MEM_WRITE_EN", 1)
  <2>1. Word("MEM_WRITE_EN", 1) \in Words
    BY DEF Word, Words, Selects
  <2> QED BY <1>1, <2>1
<1>8. /\ d \in Seq(Words) /\ Len(d) = 2 /\ d[1] = Word("MEM_WRITE_EN", 0)
      /\ d[2] = Word("CHAIN_WRITE_EN", 1)
  <2>1. Word("MEM_WRITE_EN", 0) \in Words /\ Word("CHAIN_WRITE_EN", 1) \in Words
    BY DEF Word, Words, Selects
  <2> QED BY <1>3, <2>1
<1>9. ASSUME NEW t \in 0 .. n - 1
      PROVE  /\ 2 * t + 1 \in 1 .. 2 * n /\ (2 * t + 1) % 2 = 1 /\ (2 * t + 1) \div 2 = t
             /\ 2 * t + 2 \in 1 .. 2 * n /\ (2 * t + 2) % 2 = 0 /\ (2 * t + 2) \div 2 = t + 1
  BY <1>0
<1>10. ASSUME NEW i \in 1 .. 2 * n
       PROVE  \E t \in 0 .. n - 1 : i = 2 * t + 1 \/ i = 2 * t + 2
  <2>1. (i - 1) \div 2 \in 0 .. n - 1
    BY <1>0
  <2>2. i = 2 * ((i - 1) \div 2) + 1 \/ i = 2 * ((i - 1) \div 2) + 2
    BY <1>0
  <2> QED BY <2>1, <2>2
<1>11. ASSUME NEW t \in 0 .. n - 1
       PROVE  b[2 * t + 1] = Word("ADDR", t) /\ b[2 * t + 2] = Word("COEFF", c[t + 1])
  BY <1>0, <1>2, <1>9
<1>12. ASSUME NEW t \in 0 .. n - 1
       PROVE  Word("ADDR", t) \in Words /\ Word("COEFF", c[t + 1]) \in Words
  <2>1. c[t + 1] \in Int /\ t \in Int
    BY <1>0
  <2> QED BY <2>1 DEF Word, Words, Selects
<1>13. b \in Seq(Words) /\ Len(b) = 2 * n
  <2>1. ASSUME NEW i \in 1 .. 2 * n
        PROVE  b[i] \in Words
    <3>1. PICK t \in 0 .. n - 1 : i = 2 * t + 1 \/ i = 2 * t + 2
      BY <1>10
    <3> QED BY <1>11, <1>12, <3>1
  <2>2. b \in [1 .. 2 * n -> Words]
    BY <1>0, <1>2, <2>1
  <2> QED BY <1>0, <2>2
<1> DEFINE Join(x, y, z) == /\ z \in Seq(Words) /\ Len(z) = Len(x) + Len(y)
                            /\ (\A i \in 1 .. Len(x) : z[i] = x[i])
                            /\ (\A i \in 1 .. Len(y) : z[Len(x) + i] = y[i])
<1>14. \A x, y, z : x \in Seq(Words) /\ y \in Seq(Words) /\ z = x \o y => Join(x, y, z)
  <2> SUFFICES ASSUME NEW x, NEW y, NEW z, x \in Seq(Words), y \in Seq(Words), z = x \o y
               PROVE  Join(x, y, z)
    OBVIOUS
  <2> QED BY Concat
<1> HIDE DEF Join
<1>15. /\ ab \in Seq(Words) /\ Len(ab) = 1 + 2 * n /\ ab[1] = a[1]
       /\ \A i \in 1 .. 2 * n : ab[1 + i] = b[i]
  <2>1. Join(a, b, ab)
    BY <1>4, <1>7, <1>13, <1>14
  <2>2. /\ ab \in Seq(Words) /\ Len(ab) = Len(a) + Len(b) /\ (\A i \in 1 .. Len(a) : ab[i] = a[i])
        /\ \A i \in 1 .. Len(b) : ab[Len(a) + i] = b[i]
    BY <2>1 DEF Join
  <2> QED BY <1>7, <1>13, <2>2
<1>16. /\ w \in Seq(Words) /\ Len(w) = 2 * n + 3 /\ (\A i \in 1 .. 1 + 2 * n : w[i] = ab[i])
       /\ w[1 + 2 * n + 1] = d[1] /\ w[1 + 2 * n + 2] = d[2]
  <2>1. Join(ab, d, w)
    BY <1>5, <1>8, <1>14, <1>15
  <2>2. /\ w \in Seq(Words) /\ Len(w) = Len(ab) + Len(d) /\ (\A i \in 1 .. Len(ab) : w[i] = ab[i])
        /\ \A i \in 1 .. Len(d) : w[Len(ab) + i] = d[i]
    BY <2>1 DEF Join
  <2>3. \A i \in 1 .. 2 : w[1 + 2 * n + i] = d[i]
    BY <1>8, <1>15, <2>2
  <2> QED BY <1>0, <1>8, <1>15, <2>2, <2>3
<1>17. w[1] = Word("MEM_WRITE_EN", 1)
  BY <1>0, <1>7, <1>15, <1>16
<1>18. ASSUME NEW t \in 0 .. n - 1
       PROVE  w[2 * t + 2] = Word("ADDR", t) /\ w[2 * t + 3] = Word("COEFF", c[t + 1])
  <2>1. w[1 + (2 * t + 1)] = b[2 * t + 1] /\ w[1 + (2 * t + 2)] = b[2 * t + 2]
    <3>1. PICK i \in 1 .. 2 * n, j \in 1 .. 2 * n : i = 2 * t + 1 /\ j = 2 * t + 2
      BY <1>9
    <3>2. ab[1 + i] = b[i] /\ ab[1 + j] = b[j]
      BY <1>15
    <3>3. 1 + i \in 1 .. 1 + 2 * n /\ 1 + j \in 1 .. 1 + 2 * n
      BY <1>0
    <3>4. w[1 + i] = ab[1 + i] /\ w[1 + j] = ab[1 + j]
      BY <1>16, <3>3
    <3> QED BY <3>1, <3>2, <3>4
  <2>2. 1 + (2 * t + 1) = 2 * t + 2 /\ 1 + (2 * t + 2) = 2 * t + 3
    BY <1>0
  <2> QED BY <1>11, <2>1, <2>2
<1>19. w[2 * n + 2] = Word("MEM_WRITE_EN", 0) /\ w[2 * n + 3] = Word("CHAIN_WRITE_EN", 1)
  <2>1. 1 + 2 * n + 1 = 2 * n + 2 /\ 1 + 2 * n + 2 = 2 * n + 3
    BY <1>0
  <2> QED BY <1>8, <1>16, <2>1
<1> QED BY <1>0, <1>6, <1>16, <1>17, <1>18, <1>19

\* Where a word of the program is: the ends, or at the address or the coefficient of a tap.
LEMMA Places ==
  ASSUME NEW n \in Nat, NEW k \in 1 .. 2 * n + 3
  PROVE  k = 1 \/ (\E t \in 0 .. n - 1 : k = 2 * t + 2 \/ k = 2 * t + 3) \/ k = 2 * n + 2 \/ k = 2 * n + 3
<1>1. CASE k \in 2 .. 2 * n + 1
  <2>1. (k - 2) \div 2 \in 0 .. n - 1
    BY <1>1
  <2>2. k = 2 * ((k - 2) \div 2) + 2 \/ k = 2 * ((k - 2) \div 2) + 3
    BY <1>1
  <2> QED BY <2>1, <2>2
<1> QED BY <1>1

----------------------------------------------------------------------------
(* The counts of the words. *)

\* What the counts are, and what a list in force says of the program.
LEMMA Counts ==
  ASSUME IType, ITodo
  PROVE  /\ Size \in Nat /\ Checked \in 0 .. 2 * Size + 3
         /\ asked = <<>> => Checked = 0 /\ Latched = 0 /\ InReg = 0 /\ InMemory = 0 /\ Size = 0
         /\ Latched \in 0 .. 2 * Size + 3 /\ InReg \in 0 .. 2 * Size + 3 /\ InMemory \in 0 .. 2 * Size + 3
         /\ ~waiting => InReg = Checked /\ InMemory = Checked
         /\ port /= <<>> => InReg = Checked /\ InMemory = Checked /\ waiting /\ edges = 2
         /\ waiting => asked /= <<>> /\ Checked + 1 \in 1 .. 2 * Size + 3 /\ Head(todo) = Program(asked)[Checked + 1]
         /\ waiting /\ port = <<>> => Latched = Checked + 1 /\ cmd = Program(asked)[Checked + 1]
         /\ edges = 0 => InReg = Checked /\ InMemory = Checked
         /\ edges = 1 => InReg = Checked + 1 /\ InMemory = Checked
         /\ asked /= <<>> => asked \in Lists
         /\ todo = <<>> /\ asked /= <<>> => Checked = 2 * Size + 3
<1>1. CASE asked = <<>>
  <2>1. todo = <<>> /\ ~waiting /\ port = <<>> /\ edges = 2
    BY <1>1 DEF ITodo, IType
  <2>2. Size = 0 /\ Checked = 0
    BY <1>1 DEF Size, Checked
  <2>3. Latched = 0
    BY <2>1, <2>2 DEF Latched
  <2>4. InReg = 0 /\ InMemory = 0
    BY <2>1, <2>3 DEF InReg, InMemory
  <2> QED BY <1>1, <2>1, <2>2, <2>3, <2>4
<1>2. CASE asked /= <<>>
  <2>1. asked \in Lists /\ Size \in Nat \ {0}
    BY <1>2, ListType DEF IType, Size
  <2>2. PICK n \in Nat \ {0}, m \in Nat : n = Size /\ m = Len(todo) /\ m <= 2 * n + 3
    <3>1. todo \in Seq(Words) /\ Len(todo) <= 2 * Size + 3
      BY <1>2 DEF ITodo, IType
    <3>2. Len(todo) \in Nat
      BY <3>1
    <3> QED BY <2>1, <3>1, <3>2
  <2>3. PICK k \in 0 .. 2 * n + 3 : k = Checked /\ k = 2 * n + 3 - m
    BY <1>2, <2>2 DEF Checked
  <2>4. waiting => k + 1 \in 1 .. 2 * n + 3 /\ Head(todo) = Program(asked)[k + 1]
    <3> SUFFICES ASSUME waiting
                 PROVE  k + 1 \in 1 .. 2 * n + 3 /\ Head(todo) = Program(asked)[k + 1]
      OBVIOUS
    <3>1. todo /= <<>> /\ todo \in Seq(Words)
      BY DEF ITodo, IType
    <3>2. m > 0 /\ Head(todo) = todo[1]
      BY <2>2, <3>1
    <3>3. 1 \in 1 .. Len(todo)
      BY <2>2, <3>2
    <3>4. todo[1] = Program(asked)[Checked + 1]
      BY <1>2, <3>3 DEF ITodo
    <3> QED BY <2>2, <2>3, <3>2, <3>4
  <2>5. Latched = IF waiting /\ port = <<>> THEN k + 1 ELSE k
    BY <2>3 DEF Latched
  <2>6. edges = 2 \/ (edges \in {0, 1} /\ waiting /\ port = <<>>)
    BY DEF ITodo, IType
  <2>7. InReg = IF edges = 0 THEN k ELSE Latched
    BY <2>3, <2>5, <2>6 DEF InReg
  <2>8. InMemory = IF edges = 2 THEN Latched ELSE k
    BY <2>3, <2>5, <2>6 DEF InMemory
  <2>9. Latched \in 0 .. 2 * n + 3 /\ InReg \in 0 .. 2 * n + 3 /\ InMemory \in 0 .. 2 * n + 3
    BY <2>2, <2>3, <2>4, <2>5, <2>7, <2>8
  <2>10. ~waiting => InReg = k /\ InMemory = k
    BY <2>5, <2>6, <2>7, <2>8
  <2>11. port /= <<>> => InReg = k /\ InMemory = k /\ waiting /\ edges = 2
    BY <2>5, <2>6, <2>7, <2>8 DEF ITodo
  <2>12. waiting /\ port = <<>> => Latched = k + 1 /\ cmd = Program(asked)[k + 1]
    BY <2>4, <2>5 DEF ITodo
  <2>13. edges = 0 => InReg = k /\ InMemory = k
    BY <2>7, <2>8
  <2>14. edges = 1 => InReg = k + 1 /\ InMemory = k
    BY <2>5, <2>6, <2>7, <2>8
  <2>15. todo = <<>> => k = 2 * n + 3
    <3>1. todo = <<>> => m = 0
      BY <2>2
    <3> QED BY <2>2, <2>3, <3>1
  <2> QED BY <1>2, <2>1, <2>2, <2>3, <2>4, <2>9, <2>10, <2>11, <2>12, <2>13, <2>14, <2>15
<1> QED BY <1>1, <1>2

\* An edge of clk: a word reaches the registers, or the memory, or all has settled and
\* the next word may be latched.
LEMMA ClkCounts ==
  ASSUME IType, ITodo, NEW e \in BOOLEAN, Clk(e)
  PROVE  /\ Size' = Size /\ asked' = asked /\ Checked' = Checked /\ todo' = todo /\ waiting' = waiting
         /\ \/ /\ edges = 0 /\ edges' = 1 /\ asked /= <<>> /\ port' = port /\ cmd' = cmd
               /\ InReg' = InReg + 1 /\ InMemory' = InMemory /\ InMemory = InReg
               /\ InReg + 1 \in 1 .. 2 * Size + 3 /\ cmd = Program(asked)[InReg + 1]
            \/ /\ edges = 1 /\ edges' = 2 /\ asked /= <<>> /\ port' = port /\ cmd' = cmd
               /\ InReg' = InReg /\ InMemory' = InReg /\ InReg = InMemory + 1
            \/ /\ edges = 2 /\ InReg' = InReg /\ InMemory' = InMemory /\ InReg = InMemory
               /\ \/ edges' = 2 /\ port' = port /\ cmd' = cmd
                  \/ edges' = 0 /\ waiting /\ port' = <<>> /\ cmd' = Head(todo)
<1>1. /\ Size \in Nat /\ Checked \in 0 .. 2 * Size + 3
      /\ port /= <<>> => InReg = Checked /\ InMemory = Checked /\ waiting /\ edges = 2
      /\ waiting => asked /= <<>> /\ Checked + 1 \in 1 .. 2 * Size + 3 /\ Head(todo) = Program(asked)[Checked + 1]
      /\ waiting /\ port = <<>> => Latched = Checked + 1 /\ cmd = Program(asked)[Checked + 1]
      /\ edges = 0 => InReg = Checked /\ InMemory = Checked
      /\ edges = 1 => InReg = Checked + 1 /\ InMemory = Checked
  BY Counts
<1>2. edges \in 0 .. 2 /\ (edges < 2 => waiting /\ port = <<>>)
  BY DEF IType, ITodo
<1>3. /\ asked' = asked /\ todo' = todo /\ waiting' = waiting /\ Size' = Size
  BY DEF Clk, server, Size
<1>4. Checked' = Checked
  BY <1>3 DEF Checked
<1>5. CASE e
  <2>1. port /= <<>> /\ cmd' = Head(port) /\ port' = Tail(port) /\ edges' = 0
    BY <1>5 DEF Clk, Port!Latch
  <2>2. edges = 2 /\ waiting /\ InReg = Checked /\ InMemory = Checked
    BY <1>1, <2>1
  <2>3. port = <<Head(todo)>>
    BY <2>1, <2>2 DEF ITodo
  <2>4. port' = <<>> /\ cmd' = Head(todo)
    BY <2>1, <2>3
  <2>5. Latched' = Checked + 1
    BY <1>3, <1>4, <2>2, <2>4 DEF Latched
  <2>6. InReg' = Checked /\ InMemory' = Checked
    BY <1>1, <2>1, <2>5 DEF InReg, InMemory
  <2> QED BY <1>3, <1>4, <2>1, <2>2, <2>4, <2>6
<1>6. CASE ~e
  <2>1. port' = port /\ cmd' = cmd /\ edges' = IF edges < 2 THEN edges + 1 ELSE 2
    BY <1>6 DEF Clk
  <2>2. Latched' = Latched
    BY <1>3, <1>4, <2>1 DEF Latched
  <2>3. CASE edges = 0
    <3>1. waiting /\ port = <<>> /\ Latched = Checked + 1 /\ edges' = 1
      BY <1>1, <1>2, <2>1, <2>3
    <3>2. InReg' = Checked + 1 /\ InMemory' = Checked
      BY <1>1, <2>2, <3>1 DEF InReg, InMemory
    <3> QED BY <1>1, <1>3, <1>4, <2>1, <2>3, <3>1, <3>2
  <2>4. CASE edges = 1
    <3>1. waiting /\ port = <<>> /\ Latched = Checked + 1 /\ edges' = 2
      BY <1>1, <1>2, <2>1, <2>4
    <3>2. InReg' = Checked + 1 /\ InMemory' = Checked + 1
      BY <1>1, <2>2, <3>1 DEF InReg, InMemory
    <3> QED BY <1>1, <1>3, <1>4, <2>1, <2>4, <3>1, <3>2
  <2>5. CASE edges = 2
    <3>1. edges' = 2
      BY <2>1, <2>5
    <3>2. InReg' = Latched /\ InMemory' = Latched /\ InReg = Latched /\ InMemory = Latched
      BY <2>2, <2>5, <3>1 DEF InReg, InMemory
    <3> QED BY <1>3, <1>4, <2>1, <2>5, <3>1, <3>2
  <2> QED BY <1>2, <2>3, <2>4, <2>5
<1> QED BY <1>5, <1>6

\* The steps of the server leave the registers and the memory where they are.
LEMMA ServerCounts ==
  ASSUME IType, ITodo, Execute \/ Validate
  PROVE  /\ UNCHANGED <<asked, before, cmd, edges, reg, callback_r, tap_coeffs, coeff_r, live>>
         /\ asked \in Lists /\ Size' = Size /\ InReg' = InReg /\ InMemory' = InMemory
         /\ Execute => /\ Checked' = Checked /\ todo' = todo /\ ok' = ok /\ waiting' = TRUE /\ todo /= <<>>
                       /\ port' = <<Head(todo)>> /\ edges = 2
         /\ Validate => /\ Checked' = Checked + 1 /\ InReg = Checked + 1 /\ todo' = Tail(todo) /\ todo /= <<>>
                        /\ Checked + 1 \in 1 .. 2 * Size + 3 /\ Head(todo) = Program(asked)[Checked + 1]
                        /\ waiting' = FALSE /\ port' = <<>> /\ cmd = Head(todo) /\ edges = 2
                        /\ Len(todo') = Len(todo) - 1 /\ Len(todo) \in 1 .. 2 * Size + 3
                        /\ ok' = (ok /\ callback_r = Head(todo).payload)
<1>1. /\ Size \in Nat /\ Checked \in 0 .. 2 * Size + 3
      /\ ~waiting => InReg = Checked /\ InMemory = Checked
      /\ waiting => asked /= <<>> /\ Checked + 1 \in 1 .. 2 * Size + 3 /\ Head(todo) = Program(asked)[Checked + 1]
      /\ waiting /\ port = <<>> => Latched = Checked + 1
      /\ asked /= <<>> => asked \in Lists
  BY Counts
<1>2. UNCHANGED <<asked, before, cmd, edges, reg, callback_r, tap_coeffs, coeff_r, live>> /\ Size' = Size
  BY DEF Execute, Validate, Port!Strobe, fpga, Size
<1>3. todo /= <<>> /\ todo \in Seq(Words) /\ asked /= <<>>
  BY <1>1 DEF Execute, Validate, Answered, IType, ITodo
<1>4. PICK n \in Nat : n = Size
  BY <1>1
<1>7. PICK m \in 1 .. 2 * n + 3 : m = Len(todo)
  <2>1. Len(todo) \in Nat \ {0} /\ Len(todo) <= 2 * Size + 3
    BY <1>3 DEF ITodo
  <2> QED BY <1>4, <2>1
<1>5. CASE Execute
  <2>1. ~waiting /\ waiting' = TRUE /\ todo' = todo /\ ok' = ok /\ port' = Append(port, Head(todo))
    BY <1>5 DEF Execute, Port!Strobe
  <2>2. port = <<>> /\ edges = 2
    BY <2>1 DEF ITodo, IType
  <2>3. port' = <<Head(todo)>>
    BY <2>1, <2>2
  <2>4. Checked' = Checked
    BY <1>2, <2>1 DEF Checked
  <2>5. Latched' = Checked /\ Latched = Checked
    BY <2>1, <2>3, <2>4 DEF Latched
  <2>6. InReg' = InReg /\ InMemory' = InMemory
    BY <1>2, <2>2, <2>5 DEF InReg, InMemory
  <2>7. ~Validate
    BY <2>1 DEF Validate, Answered
  <2> QED BY <1>1, <1>2, <1>3, <2>1, <2>2, <2>3, <2>4, <2>6, <2>7
<1>6. CASE Validate
  <2>1. /\ waiting /\ port = <<>> /\ port' = <<>> /\ edges = 2 /\ waiting' = FALSE /\ todo' = Tail(todo)
        /\ ok' = (ok /\ callback_r = Head(todo).payload)
    BY <1>6 DEF Validate, Answered
  <2>2. cmd = Head(todo)
    BY <2>1 DEF ITodo
  <2>3. Len(todo') = m - 1
    BY <1>3, <1>7, <2>1
  <2>4. Checked = 2 * n + 3 - m /\ Checked' = 2 * n + 3 - (m - 1)
    BY <1>2, <1>3, <1>4, <1>7, <2>3 DEF Checked
  <2>5. Checked' = Checked + 1
    BY <1>4, <1>7, <2>4
  <2>6. Latched' = Checked + 1 /\ Latched = Checked + 1
    BY <1>1, <2>1, <2>5 DEF Latched
  <2>7. InReg = Checked + 1 /\ InReg' = InReg /\ InMemory' = InMemory
    BY <1>2, <2>1, <2>6 DEF InReg, InMemory
  <2>8. ~Execute
    BY <2>1 DEF Execute
  <2> QED BY <1>1, <1>2, <1>3, <1>4, <1>7, <2>1, <2>2, <2>3, <2>5, <2>7, <2>8
<1> QED BY <1>5, <1>6

\* A new load begins with nothing done, and a reset leaves nothing to do.
LEMMA FreshCounts ==
  ASSUME IType, ITodo, ResetFpga \/ \E coeffs \in Lists : SetFir(coeffs)
  PROVE  /\ todo = <<>> /\ waiting' = FALSE /\ ~waiting /\ port' = <<>> /\ edges' = 2 /\ edges = 2
         /\ Checked' = 0 /\ InReg' = 0 /\ InMemory' = 0 /\ Size' \in Nat
         /\ asked = <<>> => InReg = 0 /\ InMemory = 0
         /\ asked /= <<>> => InReg = 2 * Size + 3 /\ InMemory = 2 * Size + 3
<1>1. todo = <<>>
  BY DEF ResetFpga, SetFir
<1>2. ~waiting /\ waiting \in BOOLEAN /\ port = <<>> /\ edges = 2
  BY <1>1 DEF ITodo, IType
<1>3. waiting' = FALSE /\ port' = <<>> /\ edges' = 2
  BY <1>2 DEF ResetFpga, SetFir, fpga
<1>4. Checked' = 0 /\ Size' \in Nat
  <2>1. CASE ResetFpga
    BY <2>1 DEF ResetFpga, Checked, Size
  <2>2. ASSUME NEW coeffs \in Lists, SetFir(coeffs)
        PROVE  Checked' = 0 /\ Size' \in Nat
    <3>1. asked' = coeffs /\ todo' = Program(coeffs)
      BY <2>2 DEF SetFir
    <3>2. coeffs /= <<>> /\ Len(coeffs) \in Nat /\ Len(Program(coeffs)) = 2 * Len(coeffs) + 3
      BY ListType, ProgramWords
    <3> QED BY <3>1, <3>2 DEF Checked, Size
  <2> QED BY <2>1, <2>2
<1>5. InReg' = 0 /\ InMemory' = 0
  <2>1. Latched' = 0
    BY <1>3, <1>4 DEF Latched
  <2> QED BY <1>3, <2>1 DEF InReg, InMemory
<1>6. /\ asked = <<>> => InReg = 0 /\ InMemory = 0
      /\ asked /= <<>> => InReg = 2 * Size + 3 /\ InMemory = 2 * Size + 3
  BY <1>1, <1>2, Counts
<1> QED BY <1>1, <1>2, <1>3, <1>4, <1>5, <1>6

----------------------------------------------------------------------------
(* One edge of clk. *)

\* The word that reaches the registers changes its own field, and no other.
LEMMA NewReg ==
  ASSUME IType, ITodo, edges = 0
  PROVE  /\ asked \in Lists /\ InReg + 1 \in 1 .. 2 * Size + 3
         /\ InReg + 1 = 1 => NextReg = [reg EXCEPT !.mem_write_en = 1]
         /\ \A t \in 0 .. Size - 1 :
              /\ InReg + 1 = 2 * t + 2 => NextReg = [reg EXCEPT !.addr = t % NTAPS]
              /\ InReg + 1 = 2 * t + 3 => NextReg = [reg EXCEPT !.coeff = asked[t + 1]]
         /\ InReg + 1 = 2 * Size + 2 => NextReg = [reg EXCEPT !.mem_write_en = 0]
         /\ InReg + 1 = 2 * Size + 3 => NextReg = [reg EXCEPT !.chain_write_en = 1]
<1>1. waiting /\ port = <<>>
  BY DEF ITodo
<1>2. /\ asked \in Lists /\ InReg = Checked /\ InReg + 1 \in 1 .. 2 * Size + 3
      /\ cmd = Program(asked)[InReg + 1]
  BY <1>1, Counts
<1>3. PICK n \in Nat : n = Size /\ n = Len(asked)
  BY Counts DEF Size
<1>4. PICK w : w = Program(asked)
  OBVIOUS
<1>5. /\ w[1] = Word("MEM_WRITE_EN", 1)
      /\ \A t \in 0 .. n - 1 : w[2 * t + 2] = Word("ADDR", t) /\ w[2 * t + 3] = Word("COEFF", asked[t + 1])
      /\ w[2 * n + 2] = Word("MEM_WRITE_EN", 0) /\ w[2 * n + 3] = Word("CHAIN_WRITE_EN", 1)
  BY <1>2, <1>3, <1>4, ProgramWords
<1>6. InReg + 1 = 1 => NextReg = [reg EXCEPT !.mem_write_en = 1]
  BY <1>2, <1>4, <1>5 DEF NextReg, Word
<1>7. ASSUME NEW t \in 0 .. n - 1
      PROVE  /\ InReg + 1 = 2 * t + 2 => NextReg = [reg EXCEPT !.addr = t % NTAPS]
             /\ InReg + 1 = 2 * t + 3 => NextReg = [reg EXCEPT !.coeff = asked[t + 1]]
  <2>1. InReg + 1 = 2 * t + 2 => cmd = Word("ADDR", t)
    BY <1>2, <1>4, <1>5
  <2>2. InReg + 1 = 2 * t + 3 => cmd = Word("COEFF", asked[t + 1])
    BY <1>2, <1>4, <1>5
  <2> QED BY <2>1, <2>2 DEF NextReg, Word
<1>8. InReg + 1 = 2 * n + 2 => NextReg = [reg EXCEPT !.mem_write_en = 0]
  BY <1>2, <1>4, <1>5 DEF NextReg, Word
<1>9. InReg + 1 = 2 * n + 3 => NextReg = [reg EXCEPT !.chain_write_en = 1]
  BY <1>2, <1>4, <1>5 DEF NextReg, Word
<1> QED BY <1>2, <1>3, <1>6, <1>7, <1>8, <1>9

\* The registers after an edge have the type of registers.
LEMMA RegType ==
  ASSUME IType, ITodo, IReg
  PROVE  NextReg \in [addr : Taps, coeff : Int, mem_write_en : {0, 1}, chain_write_en : {0, 1}]
<1>0. reg \in [addr : Taps, coeff : Int, mem_write_en : {0, 1}, chain_write_en : {0, 1}] /\ edges \in 0 .. 2
  BY DEF IType
<1>1. CASE edges > 0
  BY <1>0, <1>1 DEF IReg
<1>2. CASE edges = 0
  <2>1. PICK n \in Nat : n = Size /\ n = Len(asked)
    BY Counts DEF Size
  <2>2. PICK k \in 1 .. 2 * n + 3 : k = InReg + 1
    BY <1>2, <2>1, NewReg
  <2>3. CASE \E t \in 0 .. n - 1 : k = 2 * t + 2 \/ k = 2 * t + 3
    <3>1. PICK t \in 0 .. n - 1 : k = 2 * t + 2 \/ k = 2 * t + 3
      BY <2>3
    <3>2. NextReg = [reg EXCEPT !.addr = t % NTAPS] \/ NextReg = [reg EXCEPT !.coeff = asked[t + 1]]
      BY <1>2, <2>1, <2>2, <3>1, NewReg
    <3>3. t % NTAPS \in Taps
      BY Wraps
    <3>4. asked[t + 1] \in Int
      BY <1>2, <2>1, NewReg, ListType
    <3> QED BY <1>0, <3>2, <3>3, <3>4
  <2>4. CASE k = 1 \/ k = 2 * n + 2 \/ k = 2 * n + 3
    BY <1>0, <1>2, <2>1, <2>2, <2>4, NewReg
  <2> QED BY <2>2, <2>3, <2>4, Places
<1> QED BY <1>0, <1>1, <1>2

\* The memory after an edge: what has reached the registers is in it.
LEMMA Written ==
  ASSUME IType, ITodo, IReg, IMemory, WriteMemory
  PROVE  /\ tap_coeffs' \in [Taps -> Int]
         /\ InReg \in 1 .. 2 * Size + 1 => tap_coeffs'[reg.addr] = reg.coeff
         /\ InReg \notin 1 .. 2 * Size + 1 => tap_coeffs' = tap_coeffs
         /\ asked /= <<>> /\ Size <= NTAPS =>
              /\ \A t \in 0 .. Size - 1 : 2 * t + 3 <= InReg => tap_coeffs'[t] = asked[t + 1]
              /\ \A t \in Taps : t >= Size => tap_coeffs'[t] = before[t]
         /\ InReg < 2 \/ InReg >= 2 * Size + 1 => reg.addr = 0 \/ tap_coeffs'[reg.addr] = reg.coeff
<1>0. /\ tap_coeffs \in [Taps -> Int] /\ reg.addr \in Taps /\ reg.coeff \in Int /\ NTAPS \in Nat \ {0}
      /\ reg.mem_write_en = (IF InReg \in 1 .. 2 * Size + 1 THEN 1 ELSE 0)
  BY FirAssumption DEF IType, IReg
<1>1. PICK n \in Nat : n = Size /\ n = Len(asked)
  BY Counts DEF Size
<1>2. PICK r \in 0 .. 2 * n + 3 : r = InReg
  BY <1>1, Counts
<1>3. PICK m \in 0 .. 2 * n + 3 : m = InMemory /\ (m = r \/ m = r - 1)
  <2>1. InMemory \in 0 .. 2 * Size + 3 /\ (InMemory = InReg \/ InMemory = InReg - 1)
    BY Counts DEF InMemory, InReg, IType
  <2> QED BY <1>1, <1>2, <2>1
<1>4. PICK a \in Taps : a = reg.addr
  BY <1>0
<1>5. PICK c \in Int : c = reg.coeff
  BY <1>0
<1>6. r \in 1 .. 2 * n + 1 => tap_coeffs' = [tap_coeffs EXCEPT ![a] = c]
  BY <1>0, <1>1, <1>2, <1>4, <1>5 DEF WriteMemory
<1>7. r \notin 1 .. 2 * n + 1 => tap_coeffs' = tap_coeffs
  BY <1>0, <1>1, <1>2 DEF WriteMemory
<1>8. tap_coeffs' \in [Taps -> Int]
  BY <1>0, <1>6, <1>7
<1>9. r \in 1 .. 2 * n + 1 => tap_coeffs'[a] = c
  BY <1>0, <1>6
<1>10. r < 2 \/ m >= 2 * n + 1 => a = 0 \/ tap_coeffs[a] = c
  BY <1>1, <1>2, <1>3, <1>4, <1>5 DEF IMemory
<1>11. r < 2 \/ r >= 2 * n + 1 => a = 0 \/ tap_coeffs'[a] = c
  <2>1. CASE r \in 1 .. 2 * n + 1
    BY <1>9, <2>1
  <2>2. CASE r \notin 1 .. 2 * n + 1
    <3>1. r < 2 \/ r >= 2 * n + 1 => r < 2 \/ m >= 2 * n + 1
      BY <1>3, <2>2
    <3> QED BY <1>7, <1>10, <2>2, <3>1
  <2> QED BY <2>1, <2>2
<1>12. ASSUME asked /= <<>>, n <= NTAPS
       PROVE  /\ \A t \in 0 .. n - 1 : 2 * t + 3 <= r => tap_coeffs'[t] = asked[t + 1]
              /\ \A t \in Taps : t >= n => tap_coeffs'[t] = before[t]
  <2>1. n \in Nat \ {0}
    BY <1>1, <1>12, Counts, ListType
  <2>2. /\ \A t \in 0 .. n - 1 : 2 * t + 3 <= m => tap_coeffs[t] = asked[t + 1]
        /\ \A t \in Taps : t >= n => tap_coeffs[t] = before[t]
    BY <1>1, <1>3, <1>12 DEF IMemory
  <2>3. \A t \in 0 .. n - 1 : t \in Taps /\ t % NTAPS = t
    <3>1. \A t \in 0 .. n - 1 : t \in Taps
      BY <1>0, <1>12 DEF Taps
    <3> QED BY <3>1, Wraps
  <2>4. \A t \in 0 .. n - 1 : (r = 2 * t + 2 => a = t) /\ (r = 2 * t + 3 => a = t /\ c = asked[t + 1])
    BY <1>1, <1>2, <1>4, <1>5, <2>3 DEF IReg
  <2>5. CASE r \notin 1 .. 2 * n + 1
    <3>1. \A t \in 0 .. n - 1 : 2 * t + 3 <= r => 2 * t + 3 <= m
      BY <1>3, <2>5
    <3> QED BY <1>7, <2>2, <2>5, <3>1
  <2>6. CASE r = 1
    <3>1. tap_coeffs' = [tap_coeffs EXCEPT ![a] = c] /\ (a = 0 \/ tap_coeffs[a] = c)
      BY <1>6, <1>10, <2>6
    <3>2. ASSUME NEW t \in Taps, t >= n
          PROVE  tap_coeffs'[t] = before[t]
      <4>1. t /= 0
        BY <2>1, <3>2 DEF Taps
      <4>2. tap_coeffs'[t] = tap_coeffs[t]
        BY <1>0, <3>1, <4>1
      <4> QED BY <2>2, <3>2, <4>2
    <3> QED BY <2>6, <3>2
  <2>7. ASSUME NEW s \in 0 .. n - 1, r = 2 * s + 2 \/ r = 2 * s + 3
        PROVE  /\ \A t \in 0 .. n - 1 : 2 * t + 3 <= r => tap_coeffs'[t] = asked[t + 1]
               /\ \A t \in Taps : t >= n => tap_coeffs'[t] = before[t]
    <3>1. a = s /\ (r = 2 * s + 3 => c = asked[s + 1])
      BY <2>4, <2>7
    <3>2. tap_coeffs' = [tap_coeffs EXCEPT ![s] = c] /\ s \in Taps
      BY <1>6, <2>3, <2>7, <3>1
    <3>3. ASSUME NEW t \in 0 .. n - 1, 2 * t + 3 <= r
          PROVE  tap_coeffs'[t] = asked[t + 1]
      <4>1. CASE t = s
        <5>1. r = 2 * s + 3
          BY <2>7, <3>3, <4>1
        <5> QED BY <1>0, <3>1, <3>2, <4>1, <5>1
      <4>2. CASE t /= s
        <5>1. 2 * t + 3 <= m
          BY <1>3, <2>7, <3>3, <4>2
        <5>2. tap_coeffs'[t] = tap_coeffs[t]
          BY <1>0, <2>3, <3>2, <4>2
        <5> QED BY <2>2, <5>1, <5>2
      <4> QED BY <4>1, <4>2
    <3>4. ASSUME NEW t \in Taps, t >= n
          PROVE  tap_coeffs'[t] = before[t]
      <4>1. t /= s /\ tap_coeffs'[t] = tap_coeffs[t]
        BY <1>0, <2>1, <3>2, <3>4 DEF Taps
      <4> QED BY <2>2, <3>4, <4>1
    <3> QED BY <3>3, <3>4
  <2>8. CASE r \in 2 .. 2 * n + 1
    <3>1. r \in 1 .. 2 * n + 3 /\ r /= 1 /\ r /= 2 * n + 2 /\ r /= 2 * n + 3
      BY <2>8
    <3>2. \E t \in 0 .. n - 1 : r = 2 * t + 2 \/ r = 2 * t + 3
      BY <3>1, Places
    <3> QED BY <2>7, <3>2
  <2> QED BY <1>2, <2>5, <2>6, <2>8
<1> QED BY <1>1, <1>2, <1>4, <1>5, <1>7, <1>8, <1>9, <1>11, <1>12

----------------------------------------------------------------------------
(* The invariant. *)

\* The invariant holds when nothing has been asked.
LEMMA InitInv == Init => IInv
<1> SUFFICES ASSUME Init
             PROVE  IInv
  OBVIOUS
<1>1. 0 \in Taps /\ Zeros \in [Taps -> Int]
  BY FirAssumption DEF Taps, Zeros
<1>2. Size = 0 /\ Checked = 0 /\ InReg = 0 /\ InMemory = 0
  BY DEF Init, Size, Checked, Latched, InReg, InMemory
<1>3. IType
  <2>1. todo \in Seq(Words) /\ cmd \in Words /\ edges \in 0 .. 2
    BY DEF Init, IdleWord, Word, Words, Selects
  <2>2. reg \in [addr : Taps, coeff : Int, mem_write_en : {0, 1}, chain_write_en : {0, 1}]
    BY <1>1 DEF Init, ResetReg
  <2> QED BY <1>1, <2>1, <2>2 DEF Init, IType
<1>4. ITodo
  BY DEF Init, ITodo
<1>5. IReg
  BY <1>2 DEF Init, IReg, NextReg, Echo, IdleWord, ResetReg, Word
<1>6. IMemory
  BY <1>2 DEF Init, IMemory, ResetReg
<1>7. IFail
  BY DEF Init, IFail
<1> QED BY <1>3, <1>4, <1>5, <1>6, <1>7 DEF IInv

\* One step keeps every variable in its type.
LEMMA TypeStep ==
  ASSUME IType, ITodo, IReg, IMemory, [Next]_vars
  PROVE  IType'
<1>1. ASSUME NEW e \in BOOLEAN, Clk(e)
      PROVE  IType'
  <2>1. reg' \in [addr : Taps, coeff : Int, mem_write_en : {0, 1}, chain_write_en : {0, 1}]
    BY <1>1, RegType DEF Clk
  <2>2. tap_coeffs' \in [Taps -> Int]
    BY <1>1, Written DEF Clk
  <2>3. coeff_r' \in [Taps -> Int] /\ live' \in BOOLEAN
    BY <1>1 DEF Clk, LoadTaps, IType
  <2>4. edges' \in 0 .. 2
    BY <1>1, ClkCounts
  <2>5. cmd' \in Words
    <3>1. cmd' = cmd \/ (waiting /\ cmd' = Head(todo))
      BY <1>1, ClkCounts
    <3>2. waiting => Head(todo) \in Words
      BY DEF IType, ITodo
    <3> QED BY <3>1, <3>2 DEF IType
  <2>6. UNCHANGED <<asked, todo, ok, waiting, before>>
    BY <1>1 DEF Clk, server
  <2> QED BY <2>1, <2>2, <2>3, <2>4, <2>5, <2>6 DEF IType
<1>2. ASSUME NEW coeffs \in Lists, SetFir(coeffs)
      PROVE  IType'
  <2>1. todo' \in Seq(Words)
    BY <1>2, ProgramWords DEF SetFir
  <2>2. asked' \in Lists /\ ok' \in BOOLEAN /\ before' = tap_coeffs /\ UNCHANGED <<waiting, fpga>>
    BY <1>2 DEF SetFir
  <2> QED BY <2>1, <2>2 DEF IType, fpga
<1>3. CASE Execute
  BY <1>3 DEF Execute, Port!Strobe, IType
<1>4. CASE Validate
  <2>1. todo' \in Seq(Words)
    BY <1>4 DEF Validate, Answered, IType, ITodo
  <2>2. ok' \in BOOLEAN /\ waiting' \in BOOLEAN /\ UNCHANGED <<asked, before, fpga>>
    BY <1>4 DEF Validate, IType
  <2> QED BY <2>1, <2>2 DEF IType, fpga
<1>5. CASE ResetFpga
  <2>1. cmd' \in Words /\ edges' \in 0 .. 2
    BY <1>5 DEF ResetFpga, IdleWord, Word, Words, Selects
  <2>2. reg' \in [addr : Taps, coeff : Int, mem_write_en : {0, 1}, chain_write_en : {0, 1}]
    BY <1>5, FirAssumption DEF ResetFpga, ResetReg, Taps
  <2>3. coeff_r' \in [Taps -> Int]
    BY <1>5 DEF ResetFpga, Zeros
  <2>4. asked' = <<>> /\ live' = FALSE /\ UNCHANGED <<todo, ok, waiting, before, tap_coeffs>>
    BY <1>5 DEF ResetFpga
  <2> QED BY <2>1, <2>2, <2>3, <2>4 DEF IType
<1>6. CASE UNCHANGED vars
  BY <1>6 DEF vars, server, fpga, IType
<1> QED BY <1>1, <1>2, <1>3, <1>4, <1>5, <1>6 DEF Next

\* One step keeps what is left to execute the end of the program.
LEMMA TodoStep ==
  ASSUME IType, ITodo, [Next]_vars
  PROVE  ITodo'
<1>1. ASSUME NEW e \in BOOLEAN, Clk(e)
      PROVE  ITodo'
  <2>1. /\ asked' = asked /\ todo' = todo /\ waiting' = waiting /\ Checked' = Checked /\ Size' = Size
        /\ edges \in 0 .. 2
        /\ \/ port' = port /\ cmd' = cmd /\ edges' \in {1, 2} /\ (edges' = 1 => edges = 0)
           \/ port' = <<>> /\ cmd' = Head(todo) /\ waiting /\ edges' = 0
    BY <1>1, ClkCounts DEF IType
  <2> QED BY <2>1 DEF ITodo
<1>2. ASSUME NEW coeffs \in Lists, SetFir(coeffs)
      PROVE  ITodo'
  <2>1. asked' = coeffs /\ coeffs /= <<>> /\ todo' = Program(coeffs) /\ Len(todo') = 2 * Len(coeffs) + 3
    BY <1>2, ListType, ProgramWords DEF SetFir
  <2>2. waiting' = FALSE /\ port' = <<>> /\ edges' = 2 /\ Checked' = 0
    BY <1>2, FreshCounts
  <2>3. Len(coeffs) \in Nat
    BY ListType
  <2>4. Size' = Len(coeffs)
    BY <2>1 DEF Size
  <2>5. \A k \in 1 .. Len(todo') : todo'[k] = Program(asked')[Checked' + k]
    BY <2>1, <2>2, <2>3
  <2> QED BY <2>1, <2>2, <2>3, <2>4, <2>5 DEF ITodo
<1>3. CASE Execute
  <2>1. /\ asked' = asked /\ todo' = todo /\ waiting' = TRUE /\ Checked' = Checked /\ Size' = Size
        /\ todo /= <<>> /\ port' = <<Head(todo)>> /\ edges' = 2
    BY <1>3, ServerCounts
  <2> QED BY <2>1 DEF ITodo
<1>4. CASE Validate
  <2>1. /\ asked' = asked /\ asked \in Lists /\ todo' = Tail(todo) /\ todo /= <<>> /\ Size' = Size
        /\ Checked' = Checked + 1 /\ Len(todo') = Len(todo) - 1 /\ Len(todo) \in 1 .. 2 * Size + 3
        /\ waiting' = FALSE /\ port' = <<>> /\ edges' = 2 /\ Size \in Nat /\ Checked \in Int
    BY <1>4, ServerCounts, Counts
  <2>2. PICK n \in Nat : n = Size
    BY <2>1
  <2>3. PICK m \in 1 .. 2 * n + 3 : m = Len(todo)
    BY <2>1, <2>2
  <2>4. asked /= <<>> /\ todo \in Seq(Words)
    BY <2>1, ListType DEF IType
  <2>5. ASSUME NEW k \in 1 .. m - 1
        PROVE  Tail(todo)[k] = Program(asked)[Checked + 1 + k]
    <3>1. PICK j \in 1 .. m : j = k + 1
      BY <2>3
    <3>2. todo[j] = Program(asked)[Checked + j]
      BY <2>3, <2>4, <3>1 DEF ITodo
    <3>3. Tail(todo)[k] = todo[k + 1]
      BY <2>1, <2>3, <2>4
    <3>4. Checked + j = Checked + 1 + k
      BY <2>1, <3>1
    <3> QED BY <3>1, <3>2, <3>3, <3>4
  <2>6. \A k \in 1 .. Len(todo') : todo'[k] = Program(asked')[Checked' + k]
    BY <2>1, <2>3, <2>5
  <2>7. Len(todo') <= 2 * Size' + 3
    BY <2>1, <2>2, <2>3
  <2> QED BY <2>1, <2>4, <2>6, <2>7 DEF ITodo
<1>5. CASE ResetFpga
  <2>1. asked' = <<>> /\ todo' = <<>> /\ waiting' = FALSE /\ port' = <<>> /\ edges' = 2
    BY <1>5, FreshCounts DEF ResetFpga
  <2> QED BY <2>1 DEF ITodo
<1>6. CASE UNCHANGED vars
  <2>1. UNCHANGED <<asked, todo, waiting, port, cmd, edges>>
    BY <1>6 DEF vars, server, fpga
  <2>2. Checked' = Checked /\ Size' = Size
    BY <2>1 DEF Checked, Size
  <2> QED BY <2>1, <2>2 DEF ITodo
<1> QED BY <1>1, <1>2, <1>3, <1>4, <1>5, <1>6 DEF Next

\* One step keeps in the registers the words that have reached them.
LEMMA RegStep ==
  ASSUME IType, ITodo, IReg, IMemory, [Next]_vars
  PROVE  IReg'
<1>0. /\ reg \in [addr : Taps, coeff : Int, mem_write_en : {0, 1}, chain_write_en : {0, 1}]
      /\ cmd \in Words /\ edges \in 0 .. 2
  BY DEF IType
<1>1. ASSUME NEW e \in BOOLEAN, Clk(e)
      PROVE  IReg'
  <2>0. /\ reg' = NextReg /\ callback_r' = Echo /\ live' = (live \/ reg.chain_write_en = 1)
    BY <1>1 DEF Clk, LoadTaps
  <2>1. CASE edges = 0
    <3>1. PICK n \in Nat : n = Size /\ n = Len(asked)
      BY Counts DEF Size
    <3>2. PICK k \in 1 .. 2 * n + 3 : k = InReg + 1
      BY <2>1, <3>1, NewReg
    <3>3. InReg = k - 1 /\ InReg' = k /\ Size' = n /\ asked' = asked /\ edges' = 1 /\ cmd' = cmd /\ asked /= <<>>
      <4>1. InReg' = InReg + 1 /\ Size' = Size /\ asked' = asked /\ edges' = 1 /\ cmd' = cmd /\ asked /= <<>>
        BY <1>1, <2>1, ClkCounts
      <4>2. InReg \in Int
        BY Counts
      <4>3. InReg = k - 1 /\ InReg' = k
        BY <3>2, <4>1, <4>2
      <4> QED BY <3>1, <4>1, <4>3
    <3>4. /\ k = 1 => NextReg = [reg EXCEPT !.mem_write_en = 1]
          /\ \A t \in 0 .. n - 1 :
               /\ k = 2 * t + 2 => NextReg = [reg EXCEPT !.addr = t % NTAPS]
               /\ k = 2 * t + 3 => NextReg = [reg EXCEPT !.coeff = asked[t + 1]]
          /\ k = 2 * n + 2 => NextReg = [reg EXCEPT !.mem_write_en = 0]
          /\ k = 2 * n + 3 => NextReg = [reg EXCEPT !.chain_write_en = 1]
      BY <2>1, <3>1, <3>2, NewReg
    <3>5. NextReg' = reg'
      BY <1>0, <2>0, <3>3 DEF NextReg, Words, Selects
    <3>6. /\ reg.mem_write_en = (IF k - 1 \in 1 .. 2 * n + 1 THEN 1 ELSE 0)
          /\ reg.chain_write_en = 1 => live \/ (asked /= <<>> /\ k - 1 = 2 * n + 3)
          /\ \A t \in 0 .. n - 1 : k - 1 = 2 * t + 2 => reg.addr = t % NTAPS
      BY <3>1, <3>3 DEF IReg
    <3>7. /\ reg'.mem_write_en = (IF k \in 1 .. 2 * n + 1 THEN 1 ELSE 0)
          /\ k = 2 * n + 3 => reg'.chain_write_en = 1
          /\ reg'.chain_write_en = 1 => live \/ k = 2 * n + 3
          /\ \A t \in 0 .. n - 1 :
               /\ k = 2 * t + 2 => reg'.addr = t % NTAPS
               /\ k = 2 * t + 3 => reg'.addr = t % NTAPS /\ reg'.coeff = asked[t + 1]
      <4>1. CASE k = 1
        BY <1>0, <2>0, <3>4, <3>6, <4>1
      <4>2. ASSUME NEW s \in 0 .. n - 1, k = 2 * s + 2
            PROVE  <3>7!:
        <5>1. reg' = [reg EXCEPT !.addr = s % NTAPS]
          BY <2>0, <3>4, <4>2
        <5>2. reg'.addr = s % NTAPS /\ reg'.mem_write_en = reg.mem_write_en /\ reg'.chain_write_en = reg.chain_write_en
          BY <1>0, <5>1
        <5>3. \A t \in 0 .. n - 1 : (k = 2 * t + 2 => t = s) /\ k /= 2 * t + 3
          BY <4>2
        <5> QED BY <3>6, <4>2, <5>2, <5>3
      <4>3. ASSUME NEW s \in 0 .. n - 1, k = 2 * s + 3
            PROVE  <3>7!:
        <5>1. reg' = [reg EXCEPT !.coeff = asked[s + 1]]
          BY <2>0, <3>4, <4>3
        <5>2. /\ reg'.coeff = asked[s + 1] /\ reg'.mem_write_en = reg.mem_write_en
              /\ reg'.chain_write_en = reg.chain_write_en /\ reg'.addr = reg.addr
          BY <1>0, <5>1
        <5>3. \A t \in 0 .. n - 1 : (k = 2 * t + 3 => t = s) /\ k /= 2 * t + 2
          BY <4>3
        <5>4. reg.addr = s % NTAPS
          BY <3>6, <4>3
        <5> QED BY <3>6, <4>3, <5>2, <5>3, <5>4
      <4>4. CASE k = 2 * n + 2
        BY <1>0, <2>0, <3>4, <3>6, <4>4
      <4>5. CASE k = 2 * n + 3
        BY <1>0, <2>0, <3>4, <3>6, <4>5
      <4> QED BY <3>2, <4>1, <4>2, <4>3, <4>4, <4>5, Places
    <3>8. edges' > 0 => NextReg' = reg'
      BY <3>5
    <3>9. edges' /= 2
      BY <3>3
    <3>10. reg'.chain_write_en = 1 => live' \/ (asked' /= <<>> /\ InReg' = 2 * Size' + 3)
      BY <2>0, <3>3, <3>7
    <3> QED BY <3>3, <3>7, <3>8, <3>9, <3>10 DEF IReg
  <2>2. CASE edges > 0
    <3>1. reg' = reg
      BY <2>0, <2>2 DEF IReg
    <3>2. /\ InReg' = InReg /\ Size' = Size /\ asked' = asked /\ edges' \in {0, 2}
          /\ edges' = 2 => cmd' = cmd
      BY <1>0, <1>1, <2>2, ClkCounts
    <3>3. edges' = 2 => NextReg' = NextReg /\ Echo' = Echo
      BY <3>1, <3>2 DEF NextReg, Echo
    <3>4. (edges' > 0 => NextReg' = reg') /\ (edges' = 2 => callback_r' = Echo')
      BY <2>0, <3>1, <3>2, <3>3
    <3>5. /\ reg.mem_write_en = (IF InReg \in 1 .. 2 * Size + 1 THEN 1 ELSE 0)
          /\ asked /= <<>> /\ InReg = 2 * Size + 3 => reg.chain_write_en = 1
          /\ reg.chain_write_en = 1 => live \/ (asked /= <<>> /\ InReg = 2 * Size + 3)
          /\ \A t \in 0 .. Size - 1 :
               /\ InReg = 2 * t + 2 => reg.addr = t % NTAPS
               /\ InReg = 2 * t + 3 => reg.addr = t % NTAPS /\ reg.coeff = asked[t + 1]
      BY DEF IReg
    <3>6. reg'.chain_write_en = 1 => live' \/ (asked' /= <<>> /\ InReg' = 2 * Size' + 3)
      BY <2>0, <3>1, <3>2, <3>5
    <3> QED BY <3>1, <3>2, <3>4, <3>5, <3>6 DEF IReg
  <2> QED BY <1>0, <2>1, <2>2
<1>2. ASSUME NEW coeffs \in Lists, SetFir(coeffs)
      PROVE  IReg'
  <2>1. UNCHANGED <<cmd, reg, callback_r, live>> /\ asked' = coeffs
    BY <1>2 DEF SetFir, fpga
  <2>2. /\ InReg' = 0 /\ Size' \in Nat /\ edges' = 2 /\ edges = 2
        /\ asked = <<>> => InReg = 0
        /\ asked /= <<>> => InReg = 2 * Size + 3 /\ InMemory = 2 * Size + 3
    BY <1>2, FreshCounts
  <2>3. Size \in Nat
    BY Counts
  <2>4. reg.mem_write_en = 0
    BY <2>2, <2>3 DEF IReg
  <2>5. reg.chain_write_en = 1 => live
    BY <2>2, <2>3 DEF IReg, IMemory
  <2>6. NextReg' = NextReg /\ Echo' = Echo
    BY <2>1 DEF NextReg, Echo
  <2>7. NextReg = reg /\ callback_r = Echo
    BY <2>2 DEF IReg
  <2>8. /\ reg'.mem_write_en = (IF InReg' \in 1 .. 2 * Size' + 1 THEN 1 ELSE 0)
        /\ InReg' /= 2 * Size' + 3
        /\ \A t \in 0 .. Size' - 1 : InReg' /= 2 * t + 2 /\ InReg' /= 2 * t + 3
    <3>1. reg' = reg /\ InReg' = 0
      BY <2>1, <2>2
    <3>2. PICK m \in Nat : m = Size'
      BY <2>2
    <3>3. 0 \notin 1 .. 2 * m + 1 /\ 0 /= 2 * m + 3 /\ \A t \in 0 .. m - 1 : 0 /= 2 * t + 2 /\ 0 /= 2 * t + 3
      OBVIOUS
    <3> QED BY <2>4, <3>1, <3>2, <3>3
  <2>9. (edges' > 0 => NextReg' = reg') /\ (edges' = 2 => callback_r' = Echo') /\ (reg'.chain_write_en = 1 => live')
    BY <2>1, <2>5, <2>6, <2>7
  <2> QED BY <2>8, <2>9 DEF IReg
<1>3. CASE Execute \/ Validate
  <2>1. UNCHANGED <<asked, cmd, edges, reg, callback_r, live>> /\ Size' = Size /\ InReg' = InReg
    BY <1>3, ServerCounts
  <2>2. NextReg' = NextReg /\ Echo' = Echo
    BY <2>1 DEF NextReg, Echo
  <2> QED BY <2>1, <2>2 DEF IReg
<1>4. CASE ResetFpga
  <2>1. cmd' = IdleWord /\ reg' = ResetReg /\ callback_r' = 0 /\ asked' = <<>>
    BY <1>4 DEF ResetFpga
  <2>2. InReg' = 0
    BY <1>4, FreshCounts
  <2>3. NextReg' = reg' /\ Echo' = callback_r'
    BY <2>1 DEF NextReg, Echo, IdleWord, Word
  <2>4. Size' = 0
    BY <2>1 DEF Size
  <2> QED BY <2>1, <2>2, <2>3, <2>4 DEF IReg, ResetReg
<1>5. CASE UNCHANGED vars
  <2>1. UNCHANGED <<asked, todo, waiting, port, cmd, edges, reg, callback_r, live>>
    BY <1>5 DEF vars, server, fpga
  <2>2. Checked' = Checked /\ Size' = Size
    BY <2>1 DEF Checked, Size
  <2>3. Latched' = Latched
    BY <2>1, <2>2 DEF Latched
  <2>4. InReg' = InReg
    BY <2>1, <2>3 DEF InReg
  <2>5. NextReg' = NextReg /\ Echo' = Echo
    BY <2>1 DEF NextReg, Echo
  <2> QED BY <2>1, <2>2, <2>4, <2>5 DEF IReg
<1> QED BY <1>1, <1>2, <1>3, <1>4, <1>5 DEF Next

\* One step keeps the memory as the count of its coefficients says.
LEMMA MemoryStep ==
  ASSUME IType, ITodo, IReg, IMemory, [Next]_vars
  PROVE  IMemory'
<1>0. /\ reg \in [addr : Taps, coeff : Int, mem_write_en : {0, 1}, chain_write_en : {0, 1}]
      /\ edges \in 0 .. 2 /\ InReg \in Int /\ InMemory \in Int
      /\ asked = <<>> => InReg = 0
  BY Counts DEF IType
<1>1. ASSUME NEW e \in BOOLEAN, Clk(e)
      PROVE  IMemory'
  <2>1. PICK n \in Nat : n = Size /\ n = Len(asked)
    BY Counts DEF Size
  <2>2. PICK r \in 0 .. 2 * n + 3 : r = InReg
    BY <2>1, Counts
  <2>3. /\ asked' = asked /\ Size' = n /\ before' = before /\ reg' = NextReg
        /\ coeff_r' = (IF reg.chain_write_en = 1 THEN tap_coeffs ELSE coeff_r)
        /\ live' = (live \/ reg.chain_write_en = 1)
    <3>1. Size' = Size /\ asked' = asked
      BY <1>1, ClkCounts
    <3> QED BY <1>1, <2>1, <3>1 DEF Clk, LoadTaps, server
  <2>4. /\ r \in 1 .. 2 * n + 1 => tap_coeffs'[reg.addr] = reg.coeff
        /\ r \notin 1 .. 2 * n + 1 => tap_coeffs' = tap_coeffs
        /\ asked /= <<>> /\ n <= NTAPS =>
             /\ \A t \in 0 .. n - 1 : 2 * t + 3 <= r => tap_coeffs'[t] = asked[t + 1]
             /\ \A t \in Taps : t >= n => tap_coeffs'[t] = before[t]
        /\ r < 2 \/ r >= 2 * n + 1 => reg.addr = 0 \/ tap_coeffs'[reg.addr] = reg.coeff
    BY <1>1, <2>1, <2>2, Written DEF Clk
  <2>5. asked /= <<>> /\ r = 2 * n + 3 => reg.chain_write_en = 1
    BY <2>1, <2>2 DEF IReg
  <2>6. CASE edges = 0
    <3>1. /\ InReg' = r + 1 /\ InMemory' = r /\ r + 1 \in 1 .. 2 * n + 3
      BY <1>1, <2>1, <2>2, <2>6, ClkCounts
    <3>2. /\ r + 1 = 1 => NextReg = [reg EXCEPT !.mem_write_en = 1]
          /\ r + 1 = 2 * n + 2 => NextReg = [reg EXCEPT !.mem_write_en = 0]
          /\ r + 1 = 2 * n + 3 => NextReg = [reg EXCEPT !.chain_write_en = 1]
      BY <2>1, <2>2, <2>6, NewReg
    <3>3. r + 1 = 1 \/ r >= 2 * n + 1 => reg'.addr = reg.addr /\ reg'.coeff = reg.coeff
      <4>1. r + 1 = 1 => reg'.addr = reg.addr /\ reg'.coeff = reg.coeff
        BY <1>0, <2>3, <3>2
      <4>2. r + 1 = 2 * n + 2 => reg'.addr = reg.addr /\ reg'.coeff = reg.coeff
        BY <1>0, <2>3, <3>2
      <4>3. r + 1 = 2 * n + 3 => reg'.addr = reg.addr /\ reg'.coeff = reg.coeff
        BY <1>0, <2>3, <3>2
      <4> QED BY <3>1, <4>1, <4>2, <4>3
    <3>4. InReg' < 2 \/ InMemory' >= 2 * n + 1 => reg'.addr = 0 \/ tap_coeffs'[reg'.addr] = reg'.coeff
      <4>1. InReg' < 2 \/ InMemory' >= 2 * n + 1 => r + 1 = 1 \/ r >= 2 * n + 1
        BY <2>2, <3>1
      <4>2. r + 1 = 1 => r < 2
        OBVIOUS
      <4> QED BY <2>4, <3>3, <4>1, <4>2
    <3>5. InMemory' /= 2 * n + 3
      BY <3>1
    <3> QED BY <2>3, <2>4, <3>1, <3>4, <3>5 DEF IMemory
  <2>7. CASE edges > 0
    <3>1. InReg' = r /\ InMemory' = r
      BY <1>0, <1>1, <2>2, <2>7, ClkCounts
    <3>2. reg' = reg
      BY <2>3, <2>7 DEF IReg
    <3>3. asked /= <<>> /\ r = 2 * n + 3 => coeff_r' = tap_coeffs' /\ live'
      <4>1. r = 2 * n + 3 => r \notin 1 .. 2 * n + 1
        OBVIOUS
      <4>2. asked /= <<>> /\ r = 2 * n + 3 => coeff_r' = tap_coeffs'
        BY <2>3, <2>4, <2>5, <4>1
      <4> QED BY <2>3, <2>5, <4>2
    <3> QED BY <2>3, <2>4, <3>1, <3>2, <3>3 DEF IMemory
  <2> QED BY <1>0, <2>6, <2>7
<1>2. ASSUME NEW coeffs \in Lists, SetFir(coeffs)
      PROVE  IMemory'
  <2>1. UNCHANGED <<reg, tap_coeffs, coeff_r, live>> /\ asked' = coeffs /\ before' = tap_coeffs
    BY <1>2 DEF SetFir, fpga
  <2>2. /\ InReg' = 0 /\ InMemory' = 0 /\ Size' \in Nat
        /\ asked = <<>> => InReg = 0
        /\ asked /= <<>> => InMemory = 2 * Size + 3
    BY <1>2, FreshCounts
  <2>3. reg.addr = 0 \/ tap_coeffs[reg.addr] = reg.coeff
    <3>1. Size \in Nat
      BY Counts
    <3>2. InReg < 2 \/ InMemory >= 2 * Size + 1
      BY <2>2, <3>1
    <3> QED BY <3>2 DEF IMemory
  <2>4. \A t \in 0 .. Size' - 1 : ~(2 * t + 3 <= InMemory')
    <3>1. PICK m \in Nat : m = Size'
      BY <2>2
    <3>2. \A t \in 0 .. m - 1 : ~(2 * t + 3 <= 0)
      OBVIOUS
    <3> QED BY <2>2, <3>1, <3>2
  <2>5. InMemory' /= 2 * Size' + 3
    <3>1. PICK m \in Nat : m = Size'
      BY <2>2
    <3>2. 0 /= 2 * m + 3
      OBVIOUS
    <3> QED BY <2>2, <3>1, <3>2
  <2> QED BY <2>1, <2>3, <2>4, <2>5 DEF IMemory
<1>3. CASE Execute \/ Validate
  <2>1. /\ UNCHANGED <<asked, before, reg, tap_coeffs, coeff_r, live>>
        /\ Size' = Size /\ InReg' = InReg /\ InMemory' = InMemory
    BY <1>3, ServerCounts
  <2> QED BY <2>1 DEF IMemory
<1>4. CASE ResetFpga
  <2>1. reg'.addr = 0 /\ asked' = <<>>
    BY <1>4 DEF ResetFpga, ResetReg
  <2> QED BY <2>1 DEF IMemory
<1>5. CASE UNCHANGED vars
  <2>1. UNCHANGED <<asked, todo, waiting, port, cmd, edges, reg, tap_coeffs, coeff_r, live, before>>
    BY <1>5 DEF vars, server, fpga
  <2>2. Checked' = Checked /\ Size' = Size
    BY <2>1 DEF Checked, Size
  <2>3. Latched' = Latched
    BY <2>1, <2>2 DEF Latched
  <2>4. InReg' = InReg /\ InMemory' = InMemory
    BY <2>1, <2>3 DEF InReg, InMemory
  <2> QED BY <2>1, <2>2, <2>4 DEF IMemory
<1> QED BY <1>1, <1>2, <1>3, <1>4, <1>5 DEF Next

\* One step keeps a load with an address past the taps a failed one.
LEMMA FailStep ==
  ASSUME IType, ITodo, IReg, IFail, [Next]_vars
  PROVE  IFail'
<1>1. ASSUME NEW e \in BOOLEAN, Clk(e)
      PROVE  IFail'
  <2>1. asked' = asked /\ Size' = Size /\ Checked' = Checked /\ ok' = ok
    BY <1>1, ClkCounts DEF Clk, server
  <2> QED BY <2>1 DEF IFail
<1>2. CASE ResetFpga \/ \E coeffs \in Lists : SetFir(coeffs)
  <2>1. Checked' = 0
    BY <1>2, FreshCounts
  <2>2. ~(0 >= 2 * NTAPS + 2)
    BY FirAssumption
  <2> QED BY <2>1, <2>2 DEF IFail
<1>3. CASE Execute
  <2>1. asked' = asked /\ Size' = Size /\ Checked' = Checked /\ ok' = ok
    BY <1>3, ServerCounts
  <2> QED BY <2>1 DEF IFail
<1>4. CASE Validate
  <2> SUFFICES ASSUME Size > NTAPS, Checked' >= 2 * NTAPS + 2
               PROVE  ~ok'
    BY <1>4, ServerCounts DEF IFail
  <2>1. /\ asked \in Lists /\ Checked' = Checked + 1 /\ InReg = Checked + 1 /\ edges = 2
        /\ Head(todo) = Program(asked)[Checked + 1] /\ cmd = Head(todo)
        /\ ok' = (ok /\ callback_r = Head(todo).payload) /\ Size \in Nat /\ Checked \in Int
    BY <1>4, ServerCounts, Counts
  <2>2. asked /= <<>> /\ NTAPS \in Nat \ {0}
    BY <2>1, ListType, FirAssumption
  <2>3. CASE Checked >= 2 * NTAPS + 2
    BY <2>1, <2>2, <2>3 DEF IFail
  <2>4. CASE Checked + 1 = 2 * NTAPS + 2
    <3>1. NTAPS \in 0 .. Size - 1 /\ Size = Len(asked)
      BY <2>1, <2>2 DEF Size
    <3>2. Head(todo) = Word("ADDR", NTAPS)
      <4>1. Program(asked)[2 * NTAPS + 2] = Word("ADDR", NTAPS)
        BY <2>1, <3>1, ProgramWords
      <4> QED BY <2>1, <2>4, <4>1
    <3>3. reg.addr = 0
      <4>1. reg.addr = NTAPS % NTAPS
        BY <2>1, <2>4, <3>1 DEF IReg
      <4> QED BY <4>1, Wraps
    <3>4. callback_r = 0
      <4>1. callback_r = Echo
        BY <2>1 DEF IReg
      <4> QED BY <2>1, <3>2, <3>3, <4>1 DEF Echo, Word
    <3>5. Head(todo).payload = NTAPS
      BY <3>2 DEF Word
    <3> QED BY <2>1, <2>2, <3>4, <3>5
  <2> QED BY <2>1, <2>2, <2>3, <2>4
<1>5. CASE UNCHANGED vars
  <2>1. UNCHANGED <<asked, todo, ok>>
    BY <1>5 DEF vars, server
  <2>2. Checked' = Checked /\ Size' = Size
    BY <2>1 DEF Checked, Size
  <2> QED BY <2>1, <2>2 DEF IFail
<1> QED BY <1>1, <1>2, <1>3, <1>4, <1>5 DEF Next

\* The invariant holds in every behaviour.
LEMMA Invariance == Spec => []IInv
<1>1. IInv /\ [Next]_vars => IInv'
  BY TypeStep, TodoStep, RegStep, MemoryStep, FailStep DEF IInv
<1> QED BY InitInv, <1>1, PTL DEF Spec

----------------------------------------------------------------------------
(* What a load means. *)

\* Once all the coefficients have come, the memory is the set asked for.
LEMMA MemoryWanted ==
  ASSUME IType, ITodo, IMemory, asked /= <<>>, Size <= NTAPS, InMemory >= 2 * Size + 2
  PROVE  tap_coeffs = Wanted
<1>1. PICK n \in Nat : n = Size /\ n = Len(asked)
  BY Counts DEF Size
<1>2. /\ \A t \in 0 .. n - 1 : 2 * t + 3 <= InMemory => tap_coeffs[t] = asked[t + 1]
      /\ \A t \in Taps : t >= n => tap_coeffs[t] = before[t]
  BY <1>1 DEF IMemory
<1>3. InMemory \in Int /\ InMemory >= 2 * n + 2
  BY <1>1, Counts
<1>4. ASSUME NEW t \in Taps
      PROVE  tap_coeffs[t] = IF t < n THEN asked[t + 1] ELSE before[t]
  <2>1. t \in Int /\ t >= 0
    BY FirAssumption DEF Taps
  <2>2. CASE t < n
    <3>1. t \in 0 .. n - 1 /\ 2 * t + 3 <= InMemory
      BY <1>3, <2>1, <2>2
    <3> QED BY <1>2, <2>2, <3>1
  <2>3. CASE ~(t < n)
    BY <1>2, <2>1, <2>3
  <2> QED BY <2>2, <2>3
<1>5. tap_coeffs \in [Taps -> Int]
  BY DEF IType
<1> QED BY <1>1, <1>4, <1>5 DEF Wanted

\* For any number of taps and any list, a load that reports success has put every
\* coefficient under its own tap, left the taps above them alone, and was no longer than
\* the filter (cmd_set_fir of control.c, tap_coeffs of fir.sv).
THEOREM Loaded == Spec => []OkMeansLoaded
<1>1. IInv => OkMeansLoaded
  <2> SUFFICES ASSUME IInv, todo = <<>>, asked /= <<>>, ok
               PROVE  Size <= NTAPS /\ tap_coeffs = Wanted /\ coeff_r = Wanted
    BY DEF OkMeansLoaded, Size
  <2> USE DEF IInv
  <2>1. PICK n \in Nat : n = Size
    BY Counts
  <2>2. ~waiting
    BY DEF ITodo
  <2>3. Checked = 2 * n + 3 /\ InMemory = 2 * n + 3
    BY <2>1, <2>2, Counts
  <2>4. n <= NTAPS
    <3>1. NTAPS \in Nat
      BY FirAssumption
    <3>2. ~(n > NTAPS /\ 2 * n + 3 >= 2 * NTAPS + 2)
      BY <2>1, <2>3 DEF IFail
    <3> QED BY <3>1, <3>2
  <2>5. coeff_r = tap_coeffs
    BY <2>1, <2>3 DEF IMemory
  <2>6. InMemory >= 2 * Size + 2
    BY <2>1, <2>3
  <2> QED BY <2>1, <2>4, <2>5, <2>6, MemoryWanted
<1> QED BY Invariance, <1>1, PTL

\* The first load after a reset, of no more coefficients than taps, goes to the taps whole:
\* they are opened when the last coefficient is in the memory (CHAIN_WRITE_EN is the last
\* word of cmd_set_fir, and coeff_r of fir_tap copies all the memory at one edge).
THEOREM AtomicLoad == Spec => FirstLoadAtomic
<1>1. IInv /\ [Next]_vars => [~live /\ live' /\ Len(asked) <= NTAPS => coeff_r' = Wanted]_vars
  <2> SUFFICES ASSUME IInv, Next, ~live, live', Len(asked) <= NTAPS
               PROVE  coeff_r' = Wanted
    OBVIOUS
  <2>1. PICK e \in BOOLEAN : Clk(e)
    <3>1. ~Execute /\ ~Validate
      BY ServerCounts DEF IInv
    <3>2. ~ResetFpga
      BY DEF ResetFpga
    <3>3. ASSUME NEW coeffs \in Lists, SetFir(coeffs)
          PROVE  FALSE
      BY <3>3 DEF SetFir, fpga
    <3> QED BY <3>1, <3>2, <3>3 DEF Next
  <2>2. reg.chain_write_en = 1 /\ coeff_r' = tap_coeffs
    BY <2>1 DEF Clk, LoadTaps
  <2>3. asked /= <<>> /\ InReg = 2 * Size + 3
    BY <2>2 DEF IInv, IReg
  <2>4. Size \in Nat /\ InMemory \in Int /\ (InMemory = InReg \/ InMemory = InReg - 1)
    <3>1. Size \in Nat /\ InReg \in Int /\ InMemory \in Int
      BY Counts DEF IInv
    <3> QED BY <3>1 DEF InReg, InMemory, IInv, IType
  <2>5. Size <= NTAPS /\ InMemory >= 2 * Size + 2
    BY <2>3, <2>4 DEF Size
  <2> QED BY <2>2, <2>3, <2>5, MemoryWanted DEF IInv
<1> QED BY Invariance, <1>1, PTL DEF Spec, FirstLoadAtomic

====
