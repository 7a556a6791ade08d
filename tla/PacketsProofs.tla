--------------------------- MODULE PacketsProofs ---------------------------
(***************************************************************************)
(* Theorems about Packets: what a reader makes of the bytes of its builder, *)
(* for any base and widths of the fields and texts of any length.          *)
(***************************************************************************)
EXTENDS Packets, SequenceTheorems, WellFoundedInduction, TLAPS

-----------------------------------------------------------------------------
\* Concatenation is associative, as an operator the provers match whole.
Associates(a, b, c) == (a \o b) \o c = a \o (b \o c)

LEMMA Association ==
  ASSUME NEW S, NEW a \in Seq(S), NEW b \in Seq(S), NEW c \in Seq(S)
  PROVE  Associates(a, b, c)
<1>1. (a \o b) \o c = a \o (b \o c)
  BY ConcatAssociative, SMTT(60)
<1> QED
  BY <1>1, Zenon DEF Associates

\* The length of a concatenation, in the same form.
Adds(a, b) == Len(a \o b) = Len(a) + Len(b)

LEMMA LengthsAdd ==
  ASSUME NEW S, NEW a \in Seq(S), NEW b \in Seq(S)
  PROVE  Adds(a, b)
BY ConcatProperties DEF Adds

LEMMA FunctionIsSeq ==
  ASSUME NEW S, NEW n \in Nat, NEW f \in [1 .. n -> S]
  PROVE  f \in Seq(S)
BY SeqDef

-----------------------------------------------------------------------------
(* Induction and recursion, in a form that talks of sets and functions.    *)

LEMMA SetInduction ==
  ASSUME NEW S, 0 \in S, \A n \in Nat : n \in S => n + 1 \in S
  PROVE  \A n \in Nat : n \in S
<1> SUFFICES ASSUME Nat \ S # {} PROVE FALSE
  OBVIOUS
<1>1. PICK m \in Nat \ S : \A n \in Nat \ S : ~(<<n, m>> \in OpToRel(<, Nat))
  BY NatLessThanWellFounded, WFMin, Zenon
<1>2. m # 0 /\ m - 1 \in Nat /\ m = (m - 1) + 1
  OBVIOUS
<1>3. m - 1 \notin S
  BY <1>1, <1>2
<1>4. <<m - 1, m>> \in OpToRel(<, Nat)
  BY <1>2 DEF OpToRel
<1> QED
  BY <1>1, <1>2, <1>3, <1>4

\* Up to a bound.
LEMMA BoundedInduction ==
  ASSUME NEW S, NEW m \in Nat, 0 \in S, \A n \in 0 .. m - 1 : n \in S => n + 1 \in S
  PROVE  \A n \in 0 .. m : n \in S
<1> DEFINE T == {n \in Nat : n <= m => n \in S}
<1>1. 0 \in T
  OBVIOUS
<1>2. \A n \in Nat : n \in T => n + 1 \in T
  OBVIOUS
<1> HIDE DEF T
<1>3. \A n \in Nat : n \in T
  BY <1>1, <1>2, SetInduction
<1> QED
  BY <1>3 DEF T

\* A value for 0, and one step after the other.
Iterates(f, S, m, first, step) ==
  f \in [0 .. m -> S] /\ f[0] = first /\ \A i \in 1 .. m : f[i] = step[i][f[i - 1]]

LEMMA Recursion ==
  ASSUME NEW S, NEW m \in Nat, NEW first \in S, NEW step \in [1 .. m -> [S -> S]]
  PROVE  \E f : Iterates(f, S, m, first, step)
<1> DEFINE Solves(f, n) == f[0] = first /\ \A i \in 1 .. n : f[i] = step[i][f[i - 1]]
           T == {n \in 0 .. m : \E f \in [0 .. n -> S] : Solves(f, n)}
<1>1. 0 \in T
  <2>1. [i \in 0 .. 0 |-> first] \in [0 .. 0 -> S] /\ Solves([i \in 0 .. 0 |-> first], 0)
    OBVIOUS
  <2>2. 0 \in 0 .. m
    OBVIOUS
  <2> HIDE DEF Solves
  <2> QED
    BY <2>1, <2>2
<1>2. ASSUME NEW n \in 0 .. m - 1, n \in T PROVE n + 1 \in T
  <2>1. PICK f \in [0 .. n -> S] : Solves(f, n)
    BY <1>2
  <2> DEFINE g == [i \in 0 .. n + 1 |-> IF i = n + 1 THEN step[n + 1][f[n]] ELSE f[i]]
  <2>2. f[n] \in S /\ n + 1 \in 1 .. m
    OBVIOUS
  <2>3. step[n + 1][f[n]] \in S
    BY <2>2
  <2>4. g \in [0 .. n + 1 -> S]
    BY <2>3
  <2>5. g[n + 1] = step[n + 1][f[n]] /\ \A i \in 0 .. n : g[i] = f[i]
    OBVIOUS
  <2>6. Solves(g, n + 1)
    <3> HIDE DEF g
    <3>1. g[0] = first
      BY <2>1, <2>5
    <3>2. ASSUME NEW i \in 1 .. n + 1 PROVE g[i] = step[i][g[i - 1]]
      <4>1. CASE i = n + 1
        BY <2>5, <4>1
      <4>2. CASE i \in 1 .. n
        BY <2>1, <2>5, <4>2
      <4> QED
        BY <4>1, <4>2
    <3> QED
      BY <3>1, <3>2
  <2>7. n + 1 \in 0 .. m
    OBVIOUS
  <2> HIDE DEF g, Solves
  <2> QED
    BY <2>4, <2>6, <2>7
<1> HIDE DEF T
<1>3. \A n \in 0 .. m : n \in T
  <2>1. \A n \in 0 .. m - 1 : n \in T => n + 1 \in T
    BY <1>2
  <2> QED
    BY <1>1, <2>1, BoundedInduction
<1>4. m \in T
  BY <1>3
<1> QED
  BY <1>4 DEF T, Iterates

LEMMA RecursionOnNat ==
  ASSUME NEW S, NEW first \in S, NEW step \in [Nat -> [S -> S]]
  PROVE  \E f \in [Nat -> S] : f[0] = first /\ \A n \in Nat : f[n + 1] = step[n + 1][f[n]]
<1> DEFINE Solves(f, m) ==
             f \in [0 .. m -> S] /\ f[0] = first /\ \A i \in 1 .. m : f[i] = step[i][f[i - 1]]
           upTo(m) == CHOOSE f : Solves(f, m)
           F == [n \in Nat |-> upTo(n)[n]]
<1>1. ASSUME NEW m \in Nat PROVE Solves(upTo(m), m)
  <2> DEFINE steps == [i \in 1 .. m |-> step[i]]
  <2>0. steps \in [1 .. m -> [S -> S]]
    OBVIOUS
  <2>1. \A i \in 1 .. m : steps[i] = step[i]
    OBVIOUS
  <2> HIDE DEF steps, upTo, F, Solves
  <2>2. PICK f : Iterates(f, S, m, first, steps)
    BY <2>0, Recursion
  <2>3. Solves(f, m)
    BY <2>1, <2>2 DEF Solves, Iterates
  <2> QED
    BY <2>3 DEF upTo
<1> HIDE DEF upTo
<1>2. ASSUME NEW m \in Nat PROVE upTo(m)[m] = upTo(m + 1)[m]
  <2> DEFINE f == upTo(m)
             g == upTo(m + 1)
             Same == {i \in 0 .. m : f[i] = g[i]}
  <2>1. Solves(f, m) /\ Solves(g, m + 1)
    BY <1>1
  <2> HIDE DEF f, g
  <2>2. 0 \in Same
    BY <2>1
  <2>3. ASSUME NEW i \in 0 .. m - 1, f[i] = g[i] PROVE f[i + 1] = g[i + 1]
    BY <2>1, <2>3
  <2>4. \A i \in 0 .. m - 1 : i \in Same => i + 1 \in Same
    BY <2>3
  <2> HIDE DEF Same
  <2>5. \A i \in 0 .. m : i \in Same
    BY <2>2, <2>4, BoundedInduction
  <2>6. m \in Same
    BY <2>5
  <2> QED
    BY <2>6 DEF Same, f, g
<1>3. F \in [Nat -> S]
  BY <1>1
<1>4. F[0] = first
  BY <1>1
<1>5. ASSUME NEW n \in Nat PROVE F[n + 1] = step[n + 1][F[n]]
  <2>1. upTo(n + 1)[n + 1] = step[n + 1][upTo(n + 1)[n]]
    BY <1>1
  <2> QED
    BY <1>2, <2>1
<1> HIDE DEF F
<1> QED
  BY <1>3, <1>4, <1>5

LEMMA PowerIs ==
  /\ Power \in [Nat -> Nat \ {0}] /\ Power[0] = 1
  /\ \A n \in Nat : Power[n + 1] = Base * Power[n]
<1> DEFINE Solves(f) == f = [n \in Nat |-> IF n = 0 THEN 1 ELSE Base * f[n - 1]]
           P == Nat \ {0}
           step == [n \in Nat |-> [v \in P |-> Base * v]]
<1>1. PICK f \in [Nat -> P] : f[0] = 1 /\ \A n \in Nat : f[n + 1] = Base * f[n]
  <2>1. 1 \in P /\ \A v \in P : Base * v \in P
    BY PacketsAssumption
  <2>2. step \in [Nat -> [P -> P]]
    BY <2>1
  <2>3. \A n \in Nat, v \in P : step[n + 1][v] = Base * v
    OBVIOUS
  <2> HIDE DEF step, P
  <2>4. PICK f \in [Nat -> P] : f[0] = 1 /\ \A n \in Nat : f[n + 1] = step[n + 1][f[n]]
    BY <2>1, <2>2, RecursionOnNat, SMTT(30)
  <2> QED
    BY <2>3, <2>4
<1>2. Solves(f)
  <2>1. \A n \in Nat : f[n] = IF n = 0 THEN 1 ELSE Base * f[n - 1]
    <3> SUFFICES ASSUME NEW n \in Nat, n # 0 PROVE f[n] = Base * f[n - 1]
      BY <1>1
    <3>1. n - 1 \in Nat /\ (n - 1) + 1 = n
      OBVIOUS
    <3> QED
      BY <1>1, <3>1
  <2> QED
    BY <2>1
<1>3. Solves(Power)
  BY <1>2, Zenon DEF Power
<1>4. DOMAIN Power = Nat /\ Power[0] = 1 /\ \A n \in Nat : Power[n + 1] = Base * Power[n]
  BY <1>3
<1>5. \A n \in Nat : Power[n] \in Nat \ {0}
  <2> DEFINE T == {n \in Nat : Power[n] \in Nat \ {0}}
  <2>1. 0 \in T /\ \A n \in Nat : n \in T => n + 1 \in T
    BY <1>4, PacketsAssumption
  <2> HIDE DEF T
  <2>2. \A n \in Nat : n \in T
    BY <2>1, SetInduction
  <2> QED
    BY <2>2 DEF T
<1>6. Power = [n \in Nat |-> Power[n]]
  BY <1>3
<1> QED
  BY <1>4, <1>5, <1>6
-----------------------------------------------------------------------------
(* Numbers                                                                 *)

LEMMA DivMod ==
  ASSUME NEW n \in Nat, NEW m \in Nat \ {0}
  PROVE  n \div m \in Nat /\ n % m \in 0 .. m - 1 /\ n = m * (n \div m) + (n % m)
  OBVIOUS

LEMMA SmallMod ==
  ASSUME NEW m \in Nat \ {0}, NEW n \in Nat, n < m
  PROVE  n % m = n
OBVIOUS

LEMMA DivDiv ==
  ASSUME NEW n \in Nat, NEW m \in Nat \ {0}, NEW k \in Nat \ {0}
  PROVE  (n \div m) \div k = n \div (m * k)
  OBVIOUS

\* Taking one more digit.
LEMMA DigitStep ==
  ASSUME NEW n \in Nat, NEW k \in Nat
  PROVE  n \div Power[k] = (n \div Power[k + 1]) * Base + ((n \div Power[k]) % Base)
<1> DEFINE m == Power[k]
           q == n \div m
<1>1. m \in Nat \ {0} /\ Power[k + 1] = Base * m /\ Base \in Nat \ {0}
  BY PowerIs, PacketsAssumption
<1> HIDE DEF m
<1>2. q \in Nat
  BY <1>1, DivMod
<1>3. q \div Base = n \div (m * Base) /\ m * Base = Base * m
  <2>1. (n \div m) \div Base = n \div (m * Base)
    BY <1>1, DivDiv, Zenon
  <2>2. m * Base = Base * m
    BY <1>1
  <2> QED
    BY <2>1, <2>2
<1> HIDE DEF q
<1>4. q = Base * (q \div Base) + (q % Base) /\ q \div Base \in Nat
  BY <1>1, <1>2, DivMod
<1> QED
  BY <1>1, <1>3, <1>4 DEF q, m

DigitBytes == {"digit"} \X Nat

\* A text of digits is read from left to right.
LEMMA ReadDigits ==
  ASSUME NEW s \in Seq(DigitBytes)
  PROVE  \E f : /\ f[0] = 0 /\ \A i \in 1 .. Len(s) : f[i] = f[i - 1] * Base + s[i][2]
               /\ stoul(s) = f[Len(s)]
<1> DEFINE m == Len(s)
           step == [i \in 1 .. m |-> [v \in Nat |-> v * Base + s[i][2]]]
           Solves(g) == g = [i \in 0 .. m |-> IF i = 0 THEN 0 ELSE g[i - 1] * Base + s[i][2]]
<1>1. m \in Nat /\ DOMAIN s = 1 .. m
  BY LenProperties
<1>2. \A i \in 1 .. m : s[i] \in DigitBytes
  BY ElementOfSeq
<1>3. \A i \in 1 .. m : s[i][1] = "digit" /\ s[i][2] \in Nat
  BY <1>2 DEF DigitBytes
<1> HIDE DEF m
<1>4. PICK f : Solves(f)
  <2>1. ASSUME NEW i \in 1 .. m, NEW v \in Nat PROVE v * Base + s[i][2] \in Nat
    <3>1. PICK d \in Nat : d = s[i][2]
      BY <1>3
    <3>2. v * Base \in Nat
      BY PacketsAssumption
    <3> HIDE DEF step, Solves
    <3> QED
      BY <3>1, <3>2
  <2>2. step \in [1 .. m -> [Nat -> Nat]]
    BY <2>1
  <2>3. \A i \in 1 .. m, v \in Nat : step[i][v] = v * Base + s[i][2]
    OBVIOUS
  <2> HIDE DEF step
  <2>4. PICK f : Iterates(f, Nat, m, 0, step)
    BY <1>1, <2>2, Recursion
  <2>5. f \in [0 .. m -> Nat] /\ f[0] = 0 /\ \A i \in 1 .. m : f[i] = step[i][f[i - 1]]
    BY <2>4 DEF Iterates
  <2>6. \A i \in 0 .. m : f[i] = IF i = 0 THEN 0 ELSE f[i - 1] * Base + s[i][2]
    <3> SUFFICES ASSUME NEW i \in 1 .. m PROVE f[i] = f[i - 1] * Base + s[i][2]
      BY <1>1, <2>5
    <3>1. i - 1 \in 0 .. m
      BY <1>1
    <3>2. f[i - 1] \in Nat
      BY <2>5, <3>1
    <3> QED
      BY <2>3, <2>5, <3>2
  <2>7. Solves(f)
    BY <2>5, <2>6
  <2> HIDE DEF Solves
  <2> QED
    BY <2>7
<1> DEFINE value == CHOOSE g : Solves(g)
<1>5. Solves(value)
  <2> HIDE DEF Solves
  <2> QED
    BY <1>4
<1>6. stoul(s) = value[m]
  BY <1>1, <1>3, Zenon DEF stoul, m
<1> HIDE DEF value
<1>7. value[0] = 0 /\ \A i \in 1 .. m : value[i] = value[i - 1] * Base + s[i][2]
  BY <1>1, <1>5
<1> QED
  BY <1>6, <1>7 DEF m

\* std::stoul undoes fixedLength, for numbers that the field is wide enough for.
THEOREM NumberIsRead ==
  ASSUME NEW n \in Nat, NEW digits \in Nat, n < Power[digits]
  PROVE  /\ fixedLength(n, digits) \in Seq(DigitBytes) /\ Len(fixedLength(n, digits)) = digits
         /\ stoul(fixedLength(n, digits)) = n
<1> DEFINE s == fixedLength(n, digits)
<1>1. s = [i \in 1 .. digits |-> Digit(n, digits - i)]
  BY DEF fixedLength
<1>2. \A k \in Nat : Digit(n, k) \in DigitBytes /\ Digit(n, k)[2] = (n \div Power[k]) % Base
  <2> SUFFICES ASSUME NEW k \in Nat PROVE (n \div Power[k]) % Base \in Nat
    BY DEF Digit, DigitBytes
  <2>1. n \div Power[k] \in Nat /\ Base \in Nat \ {0}
    BY PowerIs, DivMod, PacketsAssumption
  <2> QED
    BY <2>1, DivMod
<1>3. s \in [1 .. digits -> DigitBytes]
  BY <1>1, <1>2
<1>4. s \in Seq(DigitBytes) /\ Len(s) = digits
  <2> HIDE DEF s
  <2>1. s \in Seq(DigitBytes)
    BY <1>3, SeqDef
  <2> QED
    BY <1>3, <2>1, LenProperties
<1>5. \A i \in 1 .. digits : s[i][2] = (n \div Power[digits - i]) % Base
  BY <1>1, <1>2
<1> HIDE DEF s
<1>6. PICK f : /\ f[0] = 0 /\ \A i \in 1 .. Len(s) : f[i] = f[i - 1] * Base + s[i][2]
               /\ stoul(s) = f[Len(s)]
  BY <1>4, ReadDigits
<1> DEFINE Right == {i \in 0 .. digits : f[i] = n \div Power[digits - i]}
<1>7. 0 \in Right
  <2>1. Power[digits] \in Nat \ {0}
    BY PowerIs
  <2>2. n \div Power[digits] = 0
    BY <2>1
  <2> QED
    BY <1>6, <2>2
<1>8. ASSUME NEW i \in 0 .. digits - 1, i \in Right PROVE i + 1 \in Right
  <2> DEFINE k == digits - (i + 1)
  <2>1. k \in Nat /\ k + 1 = digits - i /\ i + 1 \in 1 .. digits /\ (i + 1) - 1 = i
    OBVIOUS
  <2>2. f[i + 1] = f[i] * Base + ((n \div Power[k]) % Base)
    BY <1>4, <1>5, <1>6, <2>1
  <2>3. f[i] = n \div Power[k + 1]
    BY <1>8, <2>1
  <2>4. n \div Power[k] = (n \div Power[k + 1]) * Base + ((n \div Power[k]) % Base)
    BY <2>1, DigitStep
  <2>5. f[i + 1] = n \div Power[k]
    BY <2>2, <2>3, <2>4
  <2> QED
    BY <2>1, <2>5
<1>9. \A i \in 0 .. digits : i \in Right
  <2>1. \A i \in 0 .. digits - 1 : i \in Right => i + 1 \in Right
    BY <1>8
  <2> HIDE DEF Right
  <2> QED
    BY <1>7, <2>1, BoundedInduction
<1>10. f[digits] = n \div Power[0] /\ Power[0] = 1
  <2>1. digits \in Right /\ digits - digits = 0
    BY <1>9
  <2> QED
    BY <2>1, PowerIs
<1>11. stoul(s) = n
  BY <1>4, <1>6, <1>10
<1> QED
  BY <1>4, <1>11 DEF s
-----------------------------------------------------------------------------
(* Encryption                                                              *)

\* The place of a byte in its block.
LEMMA BlockAtIs ==
  ASSUME NEW i \in Nat \ {0}
  PROVE  /\ BlockAt(i) \in Nat /\ i - BlockAt(i) \in 1 .. Block
         /\ \A q \in Nat : i <= Block * q => BlockAt(i) + Block <= Block * q
<1> DEFINE d == (i - 1) \div Block
<1>1. Block \in Nat \ {0} /\ i - 1 \in Nat
  BY PacketsAssumption
<1>2. d \in Nat /\ (i - 1) % Block \in 0 .. Block - 1 /\ i - 1 = Block * d + ((i - 1) % Block)
  BY <1>1, DivMod
<1>3. BlockAt(i) = Block * d
  BY <1>1, <1>2 DEF BlockAt
<1> HIDE DEF d
<1>4. Block * d \in Nat
  BY <1>1, <1>2
<1>5. i - BlockAt(i) \in 1 .. Block
  BY <1>1, <1>2, <1>3, <1>4
<1>6. ASSUME NEW q \in Nat, i <= Block * q PROVE Block * d + Block <= Block * q
  <2>1. Block * q \in Nat /\ Block * d < Block * q
    BY <1>1, <1>2, <1>4, <1>6
  <2>2. d < q
    BY <1>1, <1>2, <2>1
  <2>3. d + 1 <= q
    BY <1>2, <2>2
  <2>4. Block * (d + 1) <= Block * q /\ Block * (d + 1) = Block * d + Block
    BY <1>1, <1>2, <2>3
  <2> QED
    BY <2>4
<1> QED
  BY <1>3, <1>4, <1>5, <1>6

LEMMA WholeBlocks ==
  ASSUME NEW m \in Nat \ {0}, NEW q \in Nat
  PROVE  (m * q) % m = 0
OBVIOUS

AesBytes(S) == {"aes"} \X Seq(S) \X Nat

\* The cipher of whole blocks.
LEMMA CipherIs ==
  ASSUME NEW S, NEW text \in Seq(S), NEW q \in Nat, Len(text) = Block * q
  PROVE  /\ Cipher(text) \in Seq(AesBytes(S)) /\ Len(Cipher(text)) = Len(text)
         /\ \A i \in 1 .. Len(text) :
              Cipher(text)[i][1] = "aes" /\ Cipher(text)[i][2][i - BlockAt(i)] = text[i]
<1> DEFINE m == Len(text)
           c == Cipher(text)
           block(i) == SubSeq(text, BlockAt(i) + 1, BlockAt(i) + Block)
<1>1. m \in Nat /\ DOMAIN text = 1 .. m
  BY LenProperties
<1>2. c = [i \in 1 .. m |-> <<"aes", block(i), i - BlockAt(i)>>]
  BY <1>1 DEF Cipher
<1>3. ASSUME NEW i \in 1 .. m
      PROVE  /\ block(i) \in Seq(S) /\ i - BlockAt(i) \in Nat
             /\ block(i)[i - BlockAt(i)] = text[i]
  <2> DEFINE at == BlockAt(i)
  <2>1. i \in Nat \ {0} /\ i <= Block * q
    BY <1>1
  <2>2. at \in Nat /\ i - at \in 1 .. Block /\ at + Block <= m
    BY <2>1, BlockAtIs
  <2>3. \A k \in at + 1 .. at + Block : text[k] \in S
    <3> SUFFICES ASSUME NEW k \in at + 1 .. at + Block PROVE text[k] \in S
      OBVIOUS
    <3>1. k \in 1 .. Len(text)
      BY <1>1, <2>2, PacketsAssumption
    <3> QED
      BY <3>1, ElementOfSeq
  <2> HIDE DEF at
  <2>4. at + 1 \in Int /\ at + Block \in Int /\ (at + Block) - (at + 1) + 1 = Block
    BY <2>2, PacketsAssumption
  <2>5. /\ SubSeq(text, at + 1, at + Block) \in Seq(S)
        /\ \A k \in 1 .. (at + Block) - (at + 1) + 1 :
             SubSeq(text, at + 1, at + Block)[k] = text[(at + 1) + k - 1]
    BY <2>3, <2>4, SubSeqProperties, SMTT(30)
  <2>6. (at + 1) + (i - at) - 1 = i /\ i - at \in Nat
    BY <2>1, <2>2
  <2>7. SubSeq(text, at + 1, at + Block)[i - at] = text[i]
    BY <2>2, <2>4, <2>5, <2>6
  <2> QED
    BY <2>5, <2>6, <2>7, Zenon DEF at
<1> HIDE DEF block, m
<1>4. c \in [1 .. m -> AesBytes(S)]
  <2>1. \A i \in 1 .. m : <<"aes", block(i), i - BlockAt(i)>> \in AesBytes(S)
    BY <1>3 DEF AesBytes
  <2> QED
    BY <1>2, <2>1
<1>5. c \in Seq(AesBytes(S)) /\ Len(c) = m
  <2> HIDE DEF c
  <2>1. c \in Seq(AesBytes(S))
    BY <1>1, <1>4, SeqDef
  <2> QED
    BY <1>1, <1>4, <2>1, LenProperties
<1>6. \A i \in 1 .. m : c[i][1] = "aes" /\ c[i][2][i - BlockAt(i)] = text[i]
  BY <1>2, <1>3
<1> QED
  BY <1>5, <1>6 DEF m

Chars == {"char"} \X Nat

LEMMA PaddedIs ==
  ASSUME NEW S, NEW text \in Seq(S), Chars \subseteq S
  PROVE  \E n \in 1 .. Block :
           /\ Padded(text) \in Seq(S) /\ Len(Padded(text)) = Len(text) + n
           /\ Last(Padded(text)) = Char(n)
           /\ SubSeq(Padded(text), 1, Len(text)) = text
           /\ \E q \in Nat : Len(Padded(text)) = Block * q
<1> DEFINE m == Len(text)
           n == Block - (m % Block)
           pad == [i \in 1 .. n |-> Char(n)]
<1>1. m \in Nat /\ Block \in Nat \ {0} /\ DOMAIN text = 1 .. m
  BY LenProperties, PacketsAssumption
<1>2. m \div Block \in Nat /\ m % Block \in 0 .. Block - 1 /\ m = Block * (m \div Block) + (m % Block)
  <2> HIDE DEF m
  <2> QED
    BY <1>1, DivMod
<1>3. n \in 1 .. Block
  <2>1. \A r \in 0 .. Block - 1 : Block - r \in 1 .. Block
    BY <1>1
  <2> QED
    BY <1>2, <2>1
<1>4. pad \in Seq(S) /\ Len(pad) = n /\ pad[n] = Char(n)
  <2>1. Char(n) \in S
    BY <1>3 DEF Char, Chars
  <2>2. pad \in [1 .. n -> S]
    BY <2>1
  <2>3. pad[n] = Char(n)
    BY <1>3
  <2> HIDE DEF n, pad
  <2>4. pad \in Seq(S)
    BY <1>3, <2>2, SeqDef
  <2> QED
    BY <1>3, <2>2, <2>3, <2>4, LenProperties
<1>5. Padded(text) = text \o pad
  BY DEF Padded
<1> HIDE DEF pad, n, m
<1>6. /\ Padded(text) \in Seq(S) /\ Len(Padded(text)) = m + n
      /\ Padded(text)[m + n] = Char(n)
  <2>1. /\ text \o pad \in Seq(S) /\ Len(text \o pad) = m + n
        /\ \A i \in 1 .. m + n : (text \o pad)[i] = IF i <= m THEN text[i] ELSE pad[i - m]
    BY <1>4, ConcatProperties DEF m
  <2>2. m + n \in 1 .. m + n /\ ~(m + n <= m) /\ (m + n) - m = n
    BY <1>1, <1>3
  <2> QED
    BY <1>4, <1>5, <2>1, <2>2
<1>7. Last(Padded(text)) = Char(n)
  BY <1>6 DEF Last
<1>8. SubSeq(Padded(text), 1, m) = text
  <2>1. CASE m = 0
    <3>1. text = << >>
      BY <2>1, EmptySeq DEF m
    <3>2. SubSeq(Padded(text), 1, 0) = << >>
      BY SubSeqEmpty
    <3> QED
      BY <2>1, <3>1, <3>2
  <2>2. CASE m # 0
    <3>1. 1 \in 1 .. Len(text) /\ m \in 1 .. Len(text)
      BY <1>1, <2>2 DEF m
    <3>2. SubSeq(text \o pad, 1, m) = SubSeq(text, 1, m)
      BY <1>4, <3>1, SubSeqOfConcat1
    <3>3. SubSeq(text, 1, m) = text
      BY SubSeqFull DEF m
    <3> QED
      BY <1>5, <3>2, <3>3
  <2> QED
    BY <2>1, <2>2
<1>9. m + n = Block * (m \div Block + 1) /\ m \div Block + 1 \in Nat
  <2>1. m + n = Block * (m \div Block) + Block
    BY <1>1, <1>2 DEF n
  <2> QED
    BY <1>1, <1>2, <2>1
<1> QED
  BY <1>3, <1>6, <1>7, <1>8, <1>9 DEF m

\* decrypt gives the text back, with the NUL that was encrypted after it.
THEOREM DecryptsEncrypted ==
  ASSUME NEW S, NEW plain \in Seq(S), Chars \subseteq S
  PROVE  /\ decrypt(encrypt(plain)) = Append(plain, NUL)
         /\ encrypt(plain) \in Seq(AesBytes(S))
         /\ Len(encrypt(plain)) \in Len(plain) + 2 .. Len(plain) + 1 + Block
<1> DEFINE text == Append(plain, NUL)
           t == Padded(text)
           c == Cipher(t)
<1>1. text \in Seq(S) /\ Len(text) = Len(plain) + 1 /\ Len(plain) \in Nat
  <2>1. NUL \in S
    BY DEF NUL, Char, Chars
  <2> QED
    BY <2>1, AppendProperties, LenProperties
<1> HIDE DEF text
<1>2. PICK n \in 1 .. Block :
           /\ t \in Seq(S) /\ Len(t) = Len(text) + n
           /\ Last(t) = Char(n)
           /\ SubSeq(t, 1, Len(text)) = text
           /\ \E q \in Nat : Len(t) = Block * q
  BY <1>1, PaddedIs
<1> HIDE DEF t
<1>3. PICK q \in Nat : Len(t) = Block * q
  BY <1>2
<1>4. Len(t) \in Nat /\ DOMAIN t = 1 .. Len(t) /\ Len(t) > 0 /\ Block \in Nat \ {0}
  BY <1>1, <1>2, LenProperties, PacketsAssumption
<1>5. /\ c \in Seq(AesBytes(S)) /\ Len(c) = Len(t)
      /\ \A i \in 1 .. Len(t) : c[i][1] = "aes" /\ c[i][2][i - BlockAt(i)] = t[i]
  BY <1>2, <1>3, CipherIs
<1>6. encrypt(plain) = c
  BY DEF encrypt, text, t
<1>7. DOMAIN c = 1 .. Len(t) /\ c # << >>
  BY <1>4, <1>5, LenProperties, EmptySeq
<1>8. [i \in DOMAIN c |-> c[i][2][i - BlockAt(i)]] = t
  <2>1. t = [i \in 1 .. Len(t) |-> t[i]]
    BY <1>2, LenProperties
  <2> HIDE DEF c
  <2> QED
    BY <1>5, <1>7, <2>1
<1>9. Len(c) % Block = 0
  <2>1. (Block * q) % Block = 0
    BY <1>4, WholeBlocks, Zenon
  <2> QED
    BY <1>3, <1>5, <2>1, Zenon
<1>10. Len(t) - Last(t)[2] = Len(text)
  BY <1>1, <1>2 DEF Char
<1>11. decrypt(c) = SubSeq(t, 1, Len(t) - Last(t)[2])
  <2>1. c = Cipher(t)
    OBVIOUS
  <2> HIDE DEF c
  <2> QED
    BY <1>5, <1>7, <1>8, <1>9, <2>1 DEF decrypt
<1>12. Len(c) \in Len(plain) + 2 .. Len(plain) + 1 + Block
  BY <1>1, <1>2, <1>5, PacketsAssumption
<1> QED
  BY <1>2, <1>5, <1>6, <1>10, <1>11, <1>12 DEF text
-----------------------------------------------------------------------------
(* Texts and their parts                                                   *)

\* A range that lies in the first part of a text.
LEMMA SubstrPrefix ==
  ASSUME NEW S, NEW a \in Seq(S), NEW b \in Seq(S), NEW at \in Nat, NEW n \in Nat,
         at + n <= Len(a)
  PROVE  substr(a \o b, at, n) = substr(a, at, n)
<1>1. /\ Len(a) \in Nat /\ Len(b) \in Nat /\ a \o b \in Seq(S)
      /\ Len(a \o b) = Len(a) + Len(b)
      /\ \A i \in 1 .. Len(a) : (a \o b)[i] = a[i]
  BY LenProperties, ConcatProperties
<1> DEFINE s == substr(a \o b, at, n)
           t == substr(a, at, n)
<1>2. s = SubSeq(a \o b, at + 1, at + n) /\ t = SubSeq(a, at + 1, at + n)
  BY <1>1 DEF substr
<1>3. \A i \in at + 1 .. at + n : a[i] \in S /\ (a \o b)[i] = a[i]
  BY <1>1, ElementOfSeq
<1> HIDE DEF s, t
<1>4. /\ s \in Seq(S) /\ t \in Seq(S) /\ Len(s) = n /\ Len(t) = n
      /\ \A i \in 1 .. n : s[i] = a[at + i] /\ t[i] = a[at + i]
  <2>1. at + 1 \in Int /\ at + n \in Int
    OBVIOUS
  <2>2. \A i \in at + 1 .. at + n : (a \o b)[i] \in S
    BY <1>3
  <2>3. /\ s \in Seq(S) /\ Len(s) = (IF at + 1 <= at + n THEN (at + n) - (at + 1) + 1 ELSE 0)
        /\ \A i \in 1 .. (at + n) - (at + 1) + 1 : s[i] = (a \o b)[(at + 1) + i - 1]
    BY <1>2, <2>1, <2>2, SubSeqProperties
  <2>4. /\ t \in Seq(S) /\ Len(t) = (IF at + 1 <= at + n THEN (at + n) - (at + 1) + 1 ELSE 0)
        /\ \A i \in 1 .. (at + n) - (at + 1) + 1 : t[i] = a[(at + 1) + i - 1]
    BY <1>2, <1>3, <2>1, SubSeqProperties
  <2>5. \A i \in 1 .. n : (at + 1) + i - 1 = at + i /\ at + i \in at + 1 .. at + n
    OBVIOUS
  <2>6. /\ (at + n) - (at + 1) + 1 = n
        /\ (IF at + 1 <= at + n THEN (at + n) - (at + 1) + 1 ELSE 0) = n
    OBVIOUS
  <2> QED
    BY <1>3, <2>3, <2>4, <2>5, <2>6
<1>5. s = t
  BY <1>4, SeqEqual
<1> QED
  BY <1>5 DEF s, t

\* The last part, or what is left of it.
LEMMA SubstrLast ==
  ASSUME NEW S, NEW a \in Seq(S), NEW b \in Seq(S), NEW n \in Nat, n >= Len(b)
  PROVE  substr(a \o b, Len(a), n) = b
<1>1. /\ Len(a) \in Nat /\ Len(b) \in Nat /\ a \o b \in Seq(S)
      /\ Len(a \o b) = Len(a) + Len(b)
      /\ \A i \in 1 .. Len(a) + Len(b) :
           (a \o b)[i] = IF i <= Len(a) THEN a[i] ELSE b[i - Len(a)]
  BY LenProperties, ConcatProperties
<1> DEFINE la == Len(a)
           lb == Len(b)
           s == substr(a \o b, la, n)
           w == a \o b
<1>2. s = SubSeq(a \o b, la + 1, la + lb)
  BY <1>1, SMTT(30) DEF substr
<1>3. \A i \in la + 1 .. la + lb : (a \o b)[i] = b[i - la] /\ (a \o b)[i] \in S
  <2>1. \A i \in la + 1 .. la + lb : (a \o b)[i] = b[i - la] /\ i - la \in 1 .. lb
    BY <1>1
  <2> QED
    BY <2>1, ElementOfSeq
<1> HIDE DEF s, la, lb
<1>4. s \in Seq(S) /\ Len(s) = lb /\ \A i \in 1 .. lb : s[i] = b[i]
  <2>0. la \in Nat /\ lb \in Nat
    BY <1>1 DEF la, lb
  <2>1. la + 1 \in Int /\ la + lb \in Int
    BY <2>0
  <2>2. s = SubSeq(w, la + 1, la + lb) /\ \A i \in la + 1 .. la + lb : w[i] \in S /\ w[i] = b[i - la]
    BY <1>2, <1>3
  <2> HIDE DEF w
  <2>3. /\ s \in Seq(S) /\ Len(s) = (IF la + 1 <= la + lb THEN (la + lb) - (la + 1) + 1 ELSE 0)
        /\ \A i \in 1 .. (la + lb) - (la + 1) + 1 : s[i] = w[(la + 1) + i - 1]
    BY <2>1, <2>2, SubSeqProperties
  <2>4. \A i \in 1 .. lb : (la + 1) + i - 1 = la + i /\ la + i \in la + 1 .. la + lb /\ (la + i) - la = i
    BY <2>0
  <2>5. /\ (la + lb) - (la + 1) + 1 = lb
        /\ (IF la + 1 <= la + lb THEN (la + lb) - (la + 1) + 1 ELSE 0) = lb
    BY <2>0
  <2> QED
    BY <2>2, <2>3, <2>4, <2>5
<1>5. s = b
  BY <1>4, SeqEqual DEF lb
<1> QED
  BY <1>5 DEF s, la

LEMMA SubstrAll ==
  ASSUME NEW S, NEW a \in Seq(S) PROVE substr(a, 0, Len(a)) = a
<1>1. Len(a) \in Nat /\ Len(a) >= Len(a) /\ << >> \in Seq(S) /\ Len(<< >>) = 0
  BY LenProperties, EmptySeq
<1>2. substr(<< >> \o a, 0, Len(a)) = a
  BY <1>1, SubstrLast
<1> QED
  BY <1>2, ConcatEmptySeq

LEMMA SubstrFirst ==
  ASSUME NEW S, NEW a \in Seq(S), NEW b \in Seq(S) PROVE substr(a \o b, 0, Len(a)) = a
<1>1. Len(a) \in Nat /\ 0 \in Nat /\ 0 + Len(a) <= Len(a)
  BY LenProperties
<1>2. substr(a \o b, 0, Len(a)) = substr(a, 0, Len(a))
  BY <1>1, SubstrPrefix, Zenon
<1> QED
  BY <1>2, SubstrAll

\* Three fields and the rest, as in the packets of a negotiation.
Fields(S, d, a, b, c, e) ==
  /\ d \in Seq(S) /\ Len(d) = Len(a) + Len(b) + Len(c) + Len(e)
  /\ substr(d, 0, Len(a)) = a
  /\ substr(d, Len(a), Len(b)) = b
  /\ substr(d, Len(a) + Len(b), Len(c)) = c
  /\ \A n \in Nat : n >= Len(e) => substr(d, Len(a) + Len(b) + Len(c), n) = e

LEMMA FourFields ==
  ASSUME NEW S, NEW a \in Seq(S), NEW b \in Seq(S), NEW c \in Seq(S), NEW e \in Seq(S)
  PROVE  Fields(S, ((a \o b) \o c) \o e, a, b, c, e)
<1> DEFINE ab == a \o b
           abc == ab \o c
           d == abc \o e
<1>1. Len(a) \in Nat /\ Len(b) \in Nat /\ Len(c) \in Nat /\ Len(e) \in Nat
  BY LenProperties
<1>2. ab \in Seq(S) /\ Len(ab) = Len(a) + Len(b)
  BY ConcatProperties
<1> HIDE DEF ab
<1>3. abc \in Seq(S) /\ Len(abc) = Len(ab) + Len(c)
  BY <1>2, ConcatProperties
<1> HIDE DEF abc
<1>4. d \in Seq(S) /\ Len(d) = Len(abc) + Len(e)
  BY <1>3, ConcatProperties
<1>5. /\ substr(d, 0, Len(a)) = substr(abc, 0, Len(a))
      /\ substr(d, Len(a), Len(b)) = substr(abc, Len(a), Len(b))
      /\ substr(d, Len(ab), Len(c)) = substr(abc, Len(ab), Len(c))
  <2>1. 0 + Len(a) <= Len(abc) /\ Len(a) + Len(b) <= Len(abc) /\ Len(ab) + Len(c) <= Len(abc)
        /\ Len(ab) \in Nat
    BY <1>1, <1>2, <1>3
  <2> QED
    BY <1>1, <1>3, <2>1, SubstrPrefix
<1>6. /\ substr(abc, 0, Len(a)) = substr(ab, 0, Len(a))
      /\ substr(abc, Len(a), Len(b)) = substr(ab, Len(a), Len(b))
  <2>1. 0 + Len(a) <= Len(ab) /\ Len(a) + Len(b) <= Len(ab)
    BY <1>1, <1>2
  <2> QED
    BY <1>1, <1>2, <2>1, SubstrPrefix DEF abc
<1>7. substr(ab, 0, Len(a)) = a
  <2>1. 0 + Len(a) <= Len(a)
    BY <1>1
  <2>2. substr(ab, 0, Len(a)) = substr(a, 0, Len(a))
    BY <1>1, <2>1, SubstrPrefix DEF ab
  <2> QED
    BY <2>2, SubstrAll
<1>8. substr(ab, Len(a), Len(b)) = b /\ substr(abc, Len(ab), Len(c)) = c
  <2>1. Len(b) >= Len(b) /\ Len(c) >= Len(c)
    BY <1>1
  <2>2. substr(a \o b, Len(a), Len(b)) = b
    BY <1>1, <2>1, SubstrLast
  <2>3. substr(ab \o c, Len(ab), Len(c)) = c
    BY <1>1, <1>2, <2>1, SubstrLast
  <2> QED
    BY <2>2, <2>3 DEF ab, abc
<1>9. \A n \in Nat : n >= Len(e) => substr(d, Len(abc), n) = e
  BY <1>3, SubstrLast
<1> QED
  BY <1>1, <1>2, <1>3, <1>4, <1>5, <1>6, <1>7, <1>8, <1>9 DEF ab, abc, Fields

\* A text and one byte more, as in the replies.
LEMMA TextAndByte ==
  ASSUME NEW S, NEW a \in Seq(S), NEW b \in S, NEW z \in S
  PROVE  /\ Append(Append(a, b), z) \in Seq(S) /\ Append(Append(a, b), z)[Len(a) + 1] = b
         /\ \A at, n \in Nat :
              at + n <= Len(a) => substr(Append(Append(a, b), z), at, n) = substr(a, at, n)
<1> DEFINE ab == Append(a, b)
           d == Append(ab, z)
<1>1. Len(a) \in Nat /\ ab \in Seq(S) /\ Len(ab) = Len(a) + 1 /\ ab[Len(a) + 1] = b
  BY AppendProperties, LenProperties
<1>2. ab = a \o <<b>> /\ <<b>> \in Seq(S) /\ d = ab \o <<z>> /\ <<z>> \in Seq(S)
  <2>1. ab = a \o <<b>>
    BY AppendIsConcat
  <2> HIDE DEF ab
  <2>2. d = ab \o <<z>>
    BY <1>1, AppendIsConcat
  <2> QED
    BY <2>1, <2>2
<1> HIDE DEF ab
<1>3. d \in Seq(S) /\ d[Len(a) + 1] = b
  <2>1. Len(a) + 1 \in 1 .. Len(ab)
    BY <1>1
  <2> QED
    BY <1>1, <2>1, AppendProperties
<1>4. ASSUME NEW at \in Nat, NEW n \in Nat, at + n <= Len(a)
      PROVE  substr(d, at, n) = substr(a, at, n)
  <2>1. at + n <= Len(ab)
    BY <1>1, <1>4
  <2>2. substr(ab \o <<z>>, at, n) = substr(ab, at, n)
    <3>1. ab \in Seq(S) /\ <<z>> \in Seq(S)
      BY <1>1, <1>2
    <3> HIDE DEF d
    <3> QED
      BY <2>1, <3>1, SubstrPrefix, Zenon
  <2>3. substr(a \o <<b>>, at, n) = substr(a, at, n)
    BY <1>2, <1>4, SubstrPrefix
  <2> QED
    BY <1>2, <2>2, <2>3
<1> QED
  BY <1>3, <1>4 DEF ab
-----------------------------------------------------------------------------
(* The packets.  S holds the bytes that texts are made of.                 *)

Alphabet == Chars \cup DigitBytes \cup {MAGIC_HEADER[1], MAGIC_HEADER[2], <<"text", " ">>}

\* The bytes of messages.
Bytes(S) == S \cup AesBytes(S)

LEMMA CharIs ==
  /\ \A n \in Nat : Char(n) \in Alphabet /\ Char(n)[1] = "char" /\ Char(n)[2] = n
  /\ NUL \in Alphabet
<1>1. ASSUME NEW n \in Nat PROVE Char(n) \in Alphabet /\ Char(n)[1] = "char" /\ Char(n)[2] = n
  <2>1. Char(n) \in Chars
    BY DEF Char, Chars
  <2> QED
    BY <2>1 DEF Char, Alphabet
<1> QED
  BY <1>1 DEF NUL

\* What a builder makes and the reader decrypts.
Encrypts(S, plain) ==
  /\ plain \in Seq(S) /\ <<NUL>> \in Seq(S)
  /\ encrypt(plain) \in Seq(Bytes(S))
  /\ Len(encrypt(plain)) \in 1 .. Len(plain) + 1 + Block
  /\ decrypt(encrypt(plain)) = Append(plain, NUL)
  /\ decrypt(encrypt(plain)) = plain \o <<NUL>>

LEMMA Encrypted ==
  ASSUME NEW S, NEW plain \in Seq(S), Alphabet \subseteq S
  PROVE  Encrypts(S, plain)
<1>1. Chars \subseteq S /\ NUL \in S
  BY DEF Alphabet, NUL, Char, Chars
<1>2. /\ decrypt(encrypt(plain)) = Append(plain, NUL)
      /\ encrypt(plain) \in Seq(AesBytes(S))
      /\ Len(encrypt(plain)) \in Len(plain) + 2 .. Len(plain) + 1 + Block
  BY <1>1, DecryptsEncrypted
<1>3. encrypt(plain) \in Seq(Bytes(S))
  BY <1>2, SeqMonotonic DEF Bytes
<1>4. Append(plain, NUL) = plain \o <<NUL>>
  BY <1>1, AppendIsConcat
<1>5. <<NUL>> \in Seq(S)
  BY <1>1
<1>6. Len(encrypt(plain)) \in 1 .. Len(plain) + 1 + Block
  BY <1>2, LenProperties, PacketsAssumption
<1> QED
  BY <1>2, <1>3, <1>4, <1>5, <1>6 DEF Encrypts

LEMMA ThreeFields ==
  ASSUME NEW S, NEW a \in Seq(S), NEW b \in Seq(S), NEW e \in Seq(S)
  PROVE  LET d == (a \o b) \o e
         IN substr(d, 0, Len(a)) = a /\ substr(d, Len(a), Len(b)) = b
<1>1. << >> \in Seq(S) /\ a \o b \in Seq(S)
  BY EmptySeq, ConcatProperties
<1>2. (a \o b) \o << >> = a \o b
  BY <1>1, ConcatEmptySeq
<1>3. PICK c \in Seq(S) : c = << >>
  BY <1>1
<1> DEFINE d == ((a \o b) \o c) \o e
<1>4. Fields(S, d, a, b, c, e)
  BY FourFields
<1>5. d = (a \o b) \o e
  BY <1>2, <1>3, Zenon
<1> HIDE DEF d
<1> QED
  BY <1>4, <1>5 DEF Fields

\* The hello of a client of this version, and of another.
LEMMA HelloIsRead ==
  ASSUME NEW S, Alphabet \subseteq S, NEW version \in {VERSION, OTHER_VERSION}
  PROVE  /\ server_hello_build(version) \in Seq(Bytes(S))
         /\ Len(server_hello_build(version)) \in 1 .. 4 + Block
         /\ server_hello_verify(server_hello_build(version)) =
              IF version = VERSION THEN 0 ELSE 2
<1> DEFINE plain == MAGIC_HEADER \o version
           d == plain \o <<NUL>>
<1>1. /\ MAGIC_HEADER \in Seq(S) /\ Len(MAGIC_HEADER) = 2 /\ version \in Seq(S)
      /\ Len(version) = 1 /\ Len(VERSION) = 1 /\ VERSION # OTHER_VERSION
  <2>1. <<"text", "T">> \in S /\ <<"text", "Y">> \in S
    BY DEF Alphabet, MAGIC_HEADER
  <2>2. Char(1) \in S /\ Char(2) \in S /\ Char(1) # Char(2)
    BY CharIs
  <2> QED
    BY <2>1, <2>2 DEF MAGIC_HEADER, VERSION, OTHER_VERSION
<1>2. plain \in Seq(S) /\ Len(plain) = 3
  <2>1. plain \in Seq(S) /\ Len(plain) = Len(MAGIC_HEADER) + Len(version)
    BY <1>1, ConcatProperties
  <2> QED
    BY <1>1, <2>1
<1> HIDE DEF plain
<1>3. Encrypts(S, plain)
  BY <1>2, Encrypted
<1>4. decrypt(encrypt(plain)) = d /\ <<NUL>> \in Seq(S)
  BY <1>3 DEF Encrypts
<1>5. substr(d, 0, Len(MAGIC_HEADER)) = MAGIC_HEADER /\ substr(d, Len(MAGIC_HEADER), Len(version)) = version
  BY <1>1, <1>4, ThreeFields DEF plain
<1>6. server_hello_build(version) = encrypt(plain)
  BY DEF server_hello_build, plain
<1> HIDE DEF d
<1>7. server_hello_verify(encrypt(plain)) = IF version = VERSION THEN 0 ELSE 2
  BY <1>1, <1>4, <1>5 DEF server_hello_verify
<1> QED
  BY <1>2, <1>3, <1>6, <1>7 DEF Encrypts

\* The reply to it, for the two states that the server sends.
LEMMA ClientHelloIsRead ==
  ASSUME NEW S, Alphabet \subseteq S, NEW sess \in Seq(S), Len(sess) = SessionBytes,
         NEW status \in 0 .. 2
  PROVE  /\ client_hello_build(status, sess) \in Seq(Bytes(S))
         /\ Len(client_hello_build(status, sess)) \in 1 .. SessionBytes + 2 + Block
         /\ status # 2 => client_hello_verify(client_hello_build(status, sess)) =
                            [kind |-> "client_hello", status |-> status,
                             session |-> IF status = 0 THEN sess ELSE << >>]
<1>0. SessionBytes \in Nat \ {0} /\ Block \in Nat \ {0} /\ Len(sess) \in Nat
  BY PacketsAssumption, LenProperties
<1>1. /\ Char(0) \in Bytes(S) /\ Char(1) \in Bytes(S) /\ Char(0) # Char(1)
      /\ Char(0)[2] = 0 /\ Char(1)[2] = 1 /\ VERSION \in Seq(S) /\ Len(VERSION) = 1
  <2>1. Char(0) \in S /\ Char(1) \in S
    BY CharIs
  <2> QED
    BY <2>1, CharIs DEF Bytes, VERSION
<1>2. CASE status = 0
  <2> DEFINE c == encrypt(sess)
             msg == <<Char(0)>> \o c
  <2>1. Encrypts(S, sess)
    BY Encrypted
  <2>2. /\ c \in Seq(Bytes(S)) /\ Len(c) \in 1 .. SessionBytes + 1 + Block
        /\ decrypt(c) = sess \o <<NUL>> /\ <<NUL>> \in Seq(S)
    BY <2>1 DEF Encrypts
  <2> HIDE DEF c
  <2>3. client_hello_build(status, sess) = msg
    BY <1>2 DEF client_hello_build, c
  <2>4. <<Char(0)>> \in Seq(Bytes(S)) /\ Len(<<Char(0)>>) = 1 /\ <<Char(0)>>[1] = Char(0)
    BY <1>1
  <2>5. msg \in Seq(Bytes(S)) /\ Len(msg) = 1 + Len(c) /\ msg[1] = Char(0)
    <3>1. Len(c) \in Nat /\ 1 \in 1 .. 1 + Len(c) /\ 1 <= 1
      BY <2>2, LenProperties
    <3> QED
      BY <2>2, <2>4, <3>1, ConcatProperties
  <2>6. Tail(msg) = c
    <3>1. msg # << >>
      BY <2>2, <2>5, EmptySeq
    <3>2. /\ Tail(msg) \in Seq(Bytes(S)) /\ Len(Tail(msg)) = Len(c)
          /\ \A i \in 1 .. Len(c) : Tail(msg)[i] = msg[i + 1]
      <4> HIDE DEF msg
      <4> QED
        BY <2>2, <2>5, <3>1, HeadTailProperties
    <3>3. \A i \in 1 .. Len(c) : msg[i + 1] = c[i]
      <4>1. /\ \A i \in 1 .. Len(c) : i + 1 \in 1 .. 1 + Len(c) /\ ~(i + 1 <= 1) /\ (i + 1) - 1 = i
        BY <2>2
      <4>2. \A k \in 1 .. 1 + Len(c) :
              msg[k] = IF k <= 1 THEN <<Char(0)>>[k] ELSE c[k - 1]
        BY <2>2, <2>4, ConcatProperties
      <4> HIDE DEF msg
      <4> QED
        BY <4>1, <4>2
    <3> HIDE DEF msg
    <3> QED
      BY <2>2, <3>2, <3>3, SeqEqual
  <2>7. substr(decrypt(c), 0, SessionBytes) = sess
    <3>1. substr(sess \o <<NUL>>, 0, Len(sess)) = sess
      BY <2>2, SubstrFirst, Zenon
    <3> QED
      BY <2>2, <3>1
  <2> HIDE DEF msg
  <2>8. client_hello_verify(msg) = [kind |-> "client_hello", status |-> 0, session |-> sess]
    BY <1>1, <2>5, <2>6, <2>7 DEF client_hello_verify
  <2>9. Len(msg) \in 1 .. SessionBytes + 2 + Block
    BY <1>0, <2>2, <2>5
  <2> QED
    BY <1>2, <2>3, <2>5, <2>8, <2>9
<1>3. CASE status = 1
  <2> DEFINE msg == <<Char(1)>>
  <2>1. client_hello_build(status, sess) = msg
    BY <1>3 DEF client_hello_build
  <2>2. msg \in Seq(Bytes(S)) /\ Len(msg) = 1 /\ msg[1] = Char(1)
    BY <1>1
  <2> HIDE DEF msg
  <2>3. client_hello_verify(msg) = [kind |-> "client_hello", status |-> 1, session |-> << >>]
    BY <1>1, <2>2 DEF client_hello_verify
  <2>4. Len(msg) \in 1 .. SessionBytes + 2 + Block
    BY <1>0, <2>2
  <2> QED
    BY <1>3, <2>1, <2>2, <2>3, <2>4
<1>4. CASE status = 2
  <2>1. client_hello_build(status, sess) = encrypt(VERSION)
    BY <1>4 DEF client_hello_build
  <2>2. Encrypts(S, VERSION)
    BY <1>1, Encrypted
  <2>3. encrypt(VERSION) \in Seq(Bytes(S)) /\ Len(encrypt(VERSION)) \in 1 .. 2 + Block
    BY <1>1, <2>2 DEF Encrypts
  <2> QED
    BY <1>0, <1>4, <2>1, <2>3
<1> QED
  BY <1>2, <1>3, <1>4

\* open() gets the path back from its bytes and the NUL after them.
LEMMA PathIsRead ==
  ASSUME NEW S, NEW path \in Seq(S), NUL \in S, \A i \in 1 .. Len(path) : path[i] # NUL
  PROVE  c_str(path \o <<NUL>>) = path
<1> DEFINE s == path \o <<NUL>>
           m == Len(path)
           I == {i \in 1 .. Len(s) : s[i] = NUL}
<1>1. m \in Nat /\ <<NUL>> \in Seq(S) /\ Len(<<NUL>>) = 1 /\ <<NUL>>[1] = NUL
  BY LenProperties
<1>2. /\ s \in Seq(S) /\ Len(s) = m + 1
      /\ \A i \in 1 .. m + 1 : s[i] = IF i <= m THEN path[i] ELSE <<NUL>>[i - m]
  BY <1>1, ConcatProperties
<1> HIDE DEF s, m
<1>3. I = {m + 1}
  <2>1. \A i \in 1 .. m + 1 : i <= m => s[i] # NUL
    BY <1>1, <1>2 DEF m
  <2>2. s[m + 1] = NUL
    <3>1. m + 1 \in 1 .. m + 1 /\ ~(m + 1 <= m) /\ (m + 1) - m = 1
      BY <1>1
    <3> QED
      BY <1>1, <1>2, <3>1
  <2>3. \A i \in 1 .. m + 1 : i <= m \/ i = m + 1
    BY <1>1
  <2>4. m + 1 \in 1 .. m + 1 /\ Len(s) = m + 1
    BY <1>1, <1>2
  <2> QED
    BY <2>1, <2>2, <2>3, <2>4
<1> HIDE DEF I
<1>4. Min(I) = m + 1
  BY <1>1, <1>3 DEF Min
<1>5. (m + 1) - 1 = m
  BY <1>1
<1>6. c_str(s) = SubSeq(s, 1, m)
  BY <1>3, <1>4, <1>5 DEF c_str, SelectInSeq, I
<1>7. SubSeq(s, 1, m) = substr(s, 0, m)
  BY <1>1, <1>2 DEF substr
<1>8. substr(s, 0, m) = path
  BY <1>1, SubstrFirst DEF s, m
<1> QED
  BY <1>6, <1>7, <1>8 DEF s

NegotiationReads(S, sess, piece_size, file_length, path) ==
  LET body == file_negotiation_build(sess, piece_size, file_length, path)
  IN /\ body \in Seq(Bytes(S))
     /\ Len(body) \in 1 .. SessionBytes + 3 * Digits + Len(path) + 1 + Block
     /\ file_negotiation_verify(body, sess) =
          [kind |-> "negotiation", piece_size |-> piece_size,
           file_length |-> file_length, path |-> path]

LEMMA NegotiationIsRead ==
  ASSUME NEW S, Alphabet \subseteq S, NEW sess \in Seq(S), Len(sess) = SessionBytes,
         NEW piece_size \in Nat, piece_size < Power[Digits],
         NEW file_length \in Nat, file_length < Power[2 * Digits],
         NEW path \in Seq(S), \A i \in 1 .. Len(path) : path[i] # NUL
  PROVE  NegotiationReads(S, sess, piece_size, file_length, path)
<1> DEFINE size == fixedLength(piece_size, Digits)
           len == fixedLength(file_length, 2 * Digits)
           plain == ((sess \o size) \o len) \o path
           rest == path \o <<NUL>>
           d == ((sess \o size) \o len) \o rest
           body == encrypt(plain)
<1>1. /\ Digits \in Nat /\ 2 * Digits \in Nat /\ SessionBytes \in Nat /\ Block \in Nat
      /\ Len(path) \in Nat /\ NUL \in S /\ <<NUL>> \in Seq(S) /\ Len(<<NUL>>) = 1
  BY PacketsAssumption, LenProperties, CharIs
<1>2. size \in Seq(S) /\ Len(size) = Digits /\ stoul(size) = piece_size
  <2>1. size \in Seq(DigitBytes) /\ Len(size) = Digits /\ stoul(size) = piece_size
    BY <1>1, NumberIsRead
  <2> HIDE DEF size
  <2> QED
    BY <2>1, SeqMonotonic DEF Alphabet
<1>3. len \in Seq(S) /\ Len(len) = 2 * Digits /\ stoul(len) = file_length
  <2>1. len \in Seq(DigitBytes) /\ Len(len) = 2 * Digits /\ stoul(len) = file_length
    BY <1>1, NumberIsRead
  <2> HIDE DEF len
  <2> QED
    BY <2>1, SeqMonotonic DEF Alphabet
<1>4. file_negotiation_build(sess, piece_size, file_length, path) = body
  <2>1. ToUint32(piece_size) = piece_size
    <3>1. Power[Digits] \in Nat \ {0}
      BY <1>1, PowerIs
    <3> QED
      BY <3>1, SMTT(30) DEF ToUint32
  <2> QED
    BY <2>1 DEF file_negotiation_build
<1> HIDE DEF size, len
<1>5. Fields(S, plain, sess, size, len, path)
  BY <1>2, <1>3, FourFields
<1>6. rest \in Seq(S) /\ Len(rest) = Len(path) + 1
  <2>1. rest \in Seq(S) /\ Len(rest) = Len(path) + Len(<<NUL>>)
    BY <1>1, ConcatProperties
  <2> QED
    BY <1>1, <2>1
<1> DEFINE head == (sess \o size) \o len
<1>7. head \in Seq(S)
  BY <1>2, <1>3, ConcatProperties
<1>8. plain \o <<NUL>> = d
  <2> HIDE DEF head
  <2>1. Associates(head, path, <<NUL>>)
    BY <1>1, <1>7, Association
  <2>2. (head \o path) \o <<NUL>> = head \o (path \o <<NUL>>)
    BY <2>1, Zenon DEF Associates
  <2> QED
    BY <2>2 DEF head
<1> HIDE DEF rest, head
<1>9. Fields(S, d, sess, size, len, rest)
  BY <1>2, <1>3, <1>6, FourFields
<1>10. plain \in Seq(S) /\ Len(plain) = SessionBytes + 3 * Digits + Len(path)
  BY <1>1, <1>2, <1>3, <1>5 DEF Fields
<1> HIDE DEF plain, d
<1>11. Encrypts(S, plain)
  BY <1>10, Encrypted
<1>12. /\ body \in Seq(Bytes(S)) /\ Len(body) \in 1 .. Len(plain) + 1 + Block
       /\ decrypt(body) = d
  BY <1>8, <1>11 DEF Encrypts
<1> HIDE DEF body
<1>13. /\ substr(d, 0, SessionBytes) = sess /\ substr(d, SessionBytes, Digits) = size
       /\ substr(d, SessionBytes + Digits, 2 * Digits) = len
       /\ substr(d, SessionBytes + 3 * Digits, Len(d)) = rest
  <2>1. Len(d) \in Nat /\ Len(d) >= Len(rest)
    BY <1>1, <1>2, <1>3, <1>6, <1>9 DEF Fields
  <2>2. substr(d, SessionBytes + Digits + 2 * Digits, Len(d)) = rest
    BY <1>2, <1>3, <1>9, <2>1 DEF Fields
  <2>3. SessionBytes + Digits + 2 * Digits = SessionBytes + 3 * Digits
    BY <1>1
  <2> QED
    BY <1>2, <1>3, <1>9, <2>2, <2>3 DEF Fields
<1>14. c_str(rest) = path
  BY <1>1, PathIsRead DEF rest
<1>15. file_negotiation_verify(body, sess) =
         [kind |-> "negotiation", piece_size |-> piece_size,
          file_length |-> file_length, path |-> path]
  BY <1>2, <1>3, <1>12, <1>13, <1>14 DEF file_negotiation_verify
<1> QED
  BY <1>4, <1>10, <1>12, <1>15 DEF NegotiationReads

LEMMA ReplyIsRead ==
  ASSUME NEW S, Alphabet \subseteq S, NEW sess \in Seq(S), Len(sess) = SessionBytes,
         NEW status \in Nat
  PROVE  LET body == file_negotiation_reply(sess, status)
         IN /\ body \in Seq(Bytes(S)) /\ Len(body) \in 1 .. SessionBytes + 2 + Block
            /\ file_negotiation_finish(body, sess) = [kind |-> "reply", status |-> status]
<1> DEFINE plain == Append(sess, Char(status))
           d == Append(plain, NUL)
           body == encrypt(plain)
<1>1. NUL \in S /\ Char(status) \in S /\ Char(status)[2] = status
  BY CharIs
<1>2. SessionBytes \in Nat /\ Block \in Nat /\ 0 \in Nat /\ 0 + SessionBytes <= SessionBytes
  BY PacketsAssumption
<1>3. plain \in Seq(S) /\ Len(plain) = SessionBytes + 1
  BY <1>1, AppendProperties
<1>4. d[SessionBytes + 1] = Char(status) /\ substr(d, 0, SessionBytes) = substr(sess, 0, SessionBytes)
  BY <1>1, <1>2, TextAndByte
<1> HIDE DEF plain
<1>5. Encrypts(S, plain)
  BY <1>3, Encrypted
<1>6. body \in Seq(Bytes(S)) /\ Len(body) \in 1 .. SessionBytes + 2 + Block /\ decrypt(body) = d
  BY <1>2, <1>3, <1>5 DEF Encrypts
<1>7. substr(sess, 0, SessionBytes) = sess
  BY SubstrAll
<1>8. file_negotiation_reply(sess, status) = body
  BY DEF file_negotiation_reply, plain
<1> HIDE DEF body, d
<1>9. file_negotiation_finish(body, sess) = [kind |-> "reply", status |-> status]
  BY <1>1, <1>4, <1>6, <1>7 DEF file_negotiation_finish
<1> QED
  BY <1>6, <1>8, <1>9

LEMMA InitIsRead ==
  ASSUME NEW S, Alphabet \subseteq S, NEW sess \in Seq(S), Len(sess) = SessionBytes
  PROVE  LET body == file_transfer_init(sess)
         IN /\ body \in Seq(Bytes(S)) /\ Len(body) \in 1 .. SessionBytes + 1 + Block
            /\ file_transfer_init_read(body) = sess
<1> DEFINE body == encrypt(sess)
<1>1. Encrypts(S, sess)
  BY Encrypted
<1>2. /\ body \in Seq(Bytes(S)) /\ Len(body) \in 1 .. SessionBytes + 1 + Block
      /\ decrypt(body) = sess \o <<NUL>> /\ <<NUL>> \in Seq(S)
  BY <1>1 DEF Encrypts
<1>3. substr(sess \o <<NUL>>, 0, SessionBytes) = sess
  BY <1>2, SubstrFirst
<1> QED
  BY <1>2, <1>3 DEF file_transfer_init, file_transfer_init_read

LEMMA DummyHeadIs ==
  ASSUME NEW S, Alphabet \subseteq S
  PROVE  DummyHead \in Seq(S) /\ Len(DummyHead) = Block /\ Block \in Nat
<1>1. Block \in Nat /\ Char(255) \in S
  BY PacketsAssumption, CharIs
<1>2. DummyHead \in [1 .. Block -> S]
  BY <1>1 DEF DummyHead
<1>3. DummyHead \in Seq(S)
  BY <1>1, <1>2, SeqDef
<1> QED
  BY <1>1, <1>2, <1>3, LenProperties

LEMMA InitReplyIsRead ==
  ASSUME NEW S, Alphabet \subseteq S, NEW status \in Nat
  PROVE  LET body == file_transfer_init_reply(status)
         IN /\ body \in Seq(Bytes(S)) /\ Len(body) \in 1 .. 2 * Block + 2
            /\ file_transfer_init_confirm(body) = status
<1> DEFINE plain == Append(DummyHead, Char(status))
           d == Append(plain, NUL)
           body == encrypt(plain)
<1>1. /\ NUL \in S /\ Char(status) \in S /\ Char(status)[2] = status
      /\ DummyHead \in Seq(S) /\ Len(DummyHead) = Block /\ Block \in Nat
  BY CharIs, DummyHeadIs
<1>2. plain \in Seq(S) /\ Len(plain) = Block + 1
  BY <1>1, AppendProperties
<1>3. d[Block + 1] = Char(status)
  BY <1>1, TextAndByte
<1> HIDE DEF plain
<1>4. Encrypts(S, plain)
  BY <1>2, Encrypted
<1>5. body \in Seq(Bytes(S)) /\ Len(body) \in 1 .. 2 * Block + 2 /\ decrypt(body) = d
  BY <1>1, <1>2, <1>4 DEF Encrypts
<1>6. file_transfer_init_reply(status) = body
  BY DEF file_transfer_init_reply, plain
<1> HIDE DEF body, d
<1>7. file_transfer_init_confirm(body) = status
  BY <1>1, <1>3, <1>5 DEF file_transfer_init_confirm
<1> QED
  BY <1>5, <1>6, <1>7

LEMMA ReceiveIsRead ==
  ASSUME NEW S, Alphabet \subseteq S, NEW sess \in Seq(S), Len(sess) = SessionBytes,
         NEW status \in Nat
  PROVE  LET body == file_transfer_receive(sess, status)
         IN /\ body \in Seq(Bytes(S)) /\ Len(body) \in 1 .. 2 * Block + SessionBytes + 2
            /\ file_transfer_confirm(body, sess) = [kind |-> "receive", status |-> status]
<1> DEFINE text == DummyHead \o sess
           plain == Append(text, Char(status))
           d == Append(plain, NUL)
           body == encrypt(plain)
<1>1. /\ NUL \in S /\ Char(status) \in S /\ Char(status)[2] = status
      /\ DummyHead \in Seq(S) /\ Len(DummyHead) = Block /\ Block \in Nat /\ SessionBytes \in Nat
  BY CharIs, DummyHeadIs, PacketsAssumption
<1>2. text \in Seq(S) /\ Len(text) = Block + SessionBytes
  BY <1>1, ConcatProperties
<1>3. substr(text, Block, SessionBytes) = sess
  <2>1. SessionBytes >= Len(sess)
    BY <1>1
  <2> QED
    BY <1>1, <2>1, SubstrLast
<1> HIDE DEF text
<1>4. plain \in Seq(S) /\ Len(plain) = Block + SessionBytes + 1
  BY <1>1, <1>2, AppendProperties
<1>5. /\ d[Block + SessionBytes + 1] = Char(status)
      /\ substr(d, Block, SessionBytes) = substr(text, Block, SessionBytes)
  <2>1. Block + SessionBytes <= Len(text)
    BY <1>1, <1>2
  <2>2. /\ d[Len(text) + 1] = Char(status)
        /\ \A at, n \in Nat : at + n <= Len(text) => substr(d, at, n) = substr(text, at, n)
    <3>1. text \in Seq(S) /\ Char(status) \in S /\ NUL \in S
      BY <1>1, <1>2
    <3> QED
      BY <3>1, TextAndByte
  <2> HIDE DEF d
  <2> QED
    BY <1>1, <1>2, <2>1, <2>2
<1> HIDE DEF plain
<1>6. Encrypts(S, plain)
  BY <1>4, Encrypted
<1>7. body \in Seq(Bytes(S)) /\ Len(body) \in 1 .. 2 * Block + SessionBytes + 2 /\ decrypt(body) = d
  BY <1>1, <1>4, <1>6 DEF Encrypts
<1>8. file_transfer_receive(sess, status) = body
  BY DEF file_transfer_receive, plain, text
<1> HIDE DEF body, d
<1>9. file_transfer_confirm(body, sess) = [kind |-> "receive", status |-> status]
  BY <1>1, <1>3, <1>5, <1>7 DEF file_transfer_confirm
<1> QED
  BY <1>7, <1>8, <1>9

Regroups(a, b, c, e) == (a \o (b \o c)) \o e = (a \o b) \o (c \o e)

LEMMA Regroup ==
  ASSUME NEW S, NEW a \in Seq(S), NEW b \in Seq(S), NEW c \in Seq(S), NEW e \in Seq(S)
  PROVE  Regroups(a, b, c, e)
<1>1. a \o b \in Seq(S)
  BY ConcatProperties
<1>2. Associates(a, b, c) /\ Associates(a \o b, c, e)
  BY <1>1, Association
<1> QED
  BY <1>2, Zenon DEF Associates, Regroups

\* A piece is bytes and what the buffer holds behind them.
DataReads(S, sess, order, bytes, blank) ==
  LET body == file_transfer_build(sess, order, Len(bytes), bytes \o blank)
  IN /\ body \in Seq(Bytes(S))
     /\ Len(body) \in 1 .. SessionBytes + 2 * Digits + Len(bytes) + Len(blank) + 1 + Block
     /\ file_transfer_read(body, sess) =
          [kind |-> "data", order |-> ToUint32(order), bytes |-> bytes]

LEMMA DataIsRead ==
  ASSUME NEW S, Alphabet \subseteq S, NEW sess \in Seq(S), Len(sess) = SessionBytes,
         NEW order \in Nat, NEW bytes \in Seq(S), Len(bytes) < Power[Digits],
         NEW blank \in Seq(S)
  PROVE  DataReads(S, sess, order, bytes, blank)
<1> DEFINE first == fixedLength(ToUint32(order), Digits)
           size == fixedLength(Len(bytes), Digits)
           head == (sess \o first) \o size
           piece == bytes \o blank
           plain == head \o piece
           body == encrypt(plain)
           tail == blank \o <<NUL>>
           text == head \o bytes
           d == text \o tail
<1>1. /\ Digits \in Nat /\ SessionBytes \in Nat /\ Block \in Nat
      /\ Len(bytes) \in Nat /\ Len(blank) \in Nat /\ Power[Digits] \in Nat \ {0}
      /\ NUL \in S /\ <<NUL>> \in Seq(S) /\ Len(<<NUL>>) = 1
  BY PacketsAssumption, LenProperties, CharIs, PowerIs, SMTT(30)
<1>2. /\ ToUint32(order) \in Nat /\ ToUint32(order) < Power[Digits]
      /\ ToUint32(Len(bytes)) = Len(bytes)
  <2>1. order % Power[Digits] \in 0 .. Power[Digits] - 1
    BY <1>1, DivMod
  <2>2. \A r \in 0 .. Power[Digits] - 1 : r \in Nat /\ r < Power[Digits]
    BY <1>1
  <2>3. Len(bytes) % Power[Digits] = Len(bytes)
    BY <1>1, SmallMod, Zenon
  <2> QED
    BY <2>1, <2>2, <2>3 DEF ToUint32
<1>3. first \in Seq(S) /\ Len(first) = Digits /\ stoul(first) = ToUint32(order)
  <2>1. first \in Seq(DigitBytes) /\ Len(first) = Digits /\ stoul(first) = ToUint32(order)
    BY <1>1, <1>2, NumberIsRead
  <2> HIDE DEF first
  <2> QED
    BY <2>1, SeqMonotonic DEF Alphabet
<1>4. size \in Seq(S) /\ Len(size) = Digits /\ stoul(size) = Len(bytes)
  <2>1. size \in Seq(DigitBytes) /\ Len(size) = Digits /\ stoul(size) = Len(bytes)
    BY <1>1, NumberIsRead
  <2> HIDE DEF size
  <2> QED
    BY <2>1, SeqMonotonic DEF Alphabet
<1>5. file_transfer_build(sess, order, Len(bytes), piece) = body
  BY <1>2 DEF file_transfer_build
<1> HIDE DEF first, size
<1>6. head \in Seq(S) /\ Len(head) = SessionBytes + 2 * Digits
  <2>1. sess \o first \in Seq(S) /\ Len(sess \o first) = SessionBytes + Digits
    BY <1>3, ConcatProperties
  <2>2. size \in Seq(S)
    BY <1>4
  <2>3. head \in Seq(S) /\ Len(head) = Len(sess \o first) + Len(size)
    BY <2>1, <2>2, ConcatProperties, Zenon
  <2> QED
    BY <1>1, <1>4, <2>1, <2>3
<1>7. Fields(S, text, sess, first, size, bytes)
  BY <1>3, <1>4, FourFields
<1> HIDE DEF head
<1>8. /\ piece \in Seq(S) /\ Len(piece) = Len(bytes) + Len(blank)
      /\ tail \in Seq(S) /\ text \in Seq(S) /\ Len(text) = Len(head) + Len(bytes)
  BY <1>1, <1>6, ConcatProperties
<1>9. plain \in Seq(S) /\ Len(plain) = SessionBytes + 2 * Digits + Len(bytes) + Len(blank)
  <2> HIDE DEF piece
  <2>1. plain \in Seq(S) /\ Len(plain) = Len(head) + Len(piece)
    BY <1>6, <1>8, ConcatProperties
  <2> QED
    BY <1>1, <1>6, <1>8, <2>1
<1>10. plain \o <<NUL>> = d
  <2>1. head \in Seq(S) /\ <<NUL>> \in Seq(S)
    BY <1>1, <1>6
  <2>2. Regroups(head, bytes, blank, <<NUL>>)
    BY <2>1, Regroup
  <2> QED
    BY <2>2, Zenon DEF Regroups
<1> HIDE DEF plain
<1>11. Encrypts(S, plain)
  BY <1>9, Encrypted
<1>12. /\ body \in Seq(Bytes(S)) /\ decrypt(body) = d
       /\ Len(body) \in 1 .. SessionBytes + 2 * Digits + Len(bytes) + Len(blank) + 1 + Block
  BY <1>9, <1>10, <1>11 DEF Encrypts
<1> HIDE DEF text, tail, body
<1>13. ASSUME NEW at \in Nat, NEW n \in Nat, at + n <= Len(text)
       PROVE  substr(d, at, n) = substr(text, at, n)
  BY <1>8, <1>13, SubstrPrefix, Zenon
<1> HIDE DEF d
<1>14. /\ substr(d, 0, SessionBytes) = sess /\ substr(d, SessionBytes, Digits) = first
       /\ substr(d, SessionBytes + Digits, Digits) = size
       /\ substr(d, SessionBytes + 2 * Digits, Len(bytes)) = bytes
  <2>1. /\ substr(text, 0, SessionBytes) = sess /\ substr(text, SessionBytes, Digits) = first
        /\ substr(text, SessionBytes + Digits, Digits) = size
        /\ substr(text, SessionBytes + Digits + Digits, Len(bytes)) = bytes
    <3>1. Len(bytes) >= Len(bytes)
      BY <1>1
    <3> QED
      BY <1>1, <1>3, <1>4, <1>7, <3>1 DEF Fields
  <2>2. /\ 0 + SessionBytes <= Len(text) /\ SessionBytes + Digits <= Len(text)
        /\ (SessionBytes + Digits) + Digits <= Len(text)
        /\ (SessionBytes + 2 * Digits) + Len(bytes) <= Len(text)
        /\ SessionBytes + Digits \in Nat /\ SessionBytes + 2 * Digits \in Nat
        /\ SessionBytes + Digits + Digits = SessionBytes + 2 * Digits
    BY <1>1, <1>6, <1>8
  <2> QED
    BY <1>1, <1>13, <2>1, <2>2
<1>15. file_transfer_read(body, sess) =
         [kind |-> "data", order |-> ToUint32(order), bytes |-> bytes]
  BY <1>3, <1>4, <1>12, <1>14 DEF file_transfer_read
<1> QED
  BY <1>5, <1>12, <1>15 DEF DataReads
=============================================================================
