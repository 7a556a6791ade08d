--------------------------- MODULE FramingProofs ---------------------------
(***************************************************************************)
(* Theorems about Framing: readers stay in step with their builders, and a *)
(* stream of bytes is a connection of module Network, for texts and fields *)
(* of any size and any number of messages.                                 *)
(***************************************************************************)
EXTENDS Framing, PacketsProofs

-----------------------------------------------------------------------------
(* Texts one after the other                                               *)

\* f[i] is the first i texts.
Flattens(f, W, ms) ==
  /\ f \in [0 .. Len(ms) -> Seq(W)] /\ f[0] = << >>
  /\ \A i \in 1 .. Len(ms) : f[i] = f[i - 1] \o ms[i]

LEMMA Flattened ==
  ASSUME NEW W, NEW ms \in Seq(Seq(W))
  PROVE  \E f : Flattens(f, W, ms) /\ FlattenSeq(ms) = f[Len(ms)]
<1> DEFINE m == Len(ms)
           step == [i \in 1 .. m |-> [s \in Seq(W) |-> s \o ms[i]]]
           Solves(g) == g = [i \in 1 .. m |-> IF i = 1 THEN ms[i] ELSE g[i - 1] \o ms[i]]
<1>1. m \in Nat /\ << >> \in Seq(W) /\ \A i \in 1 .. m : ms[i] \in Seq(W)
  BY LenProperties, EmptySeq, ElementOfSeq
<1> HIDE DEF m
<1>2. PICK f : Flattens(f, W, ms)
  <2>1. \A i \in 1 .. m, s \in Seq(W) : s \o ms[i] \in Seq(W)
    BY <1>1, ConcatProperties
  <2>2. step \in [1 .. m -> [Seq(W) -> Seq(W)]]
    BY <2>1
  <2>3. \A i \in 1 .. m, s \in Seq(W) : step[i][s] = s \o ms[i]
    OBVIOUS
  <2> HIDE DEF step
  <2>4. PICK f : Iterates(f, Seq(W), m, << >>, step)
    BY <1>1, <2>2, Recursion
  <2>5. f \in [0 .. m -> Seq(W)] /\ f[0] = << >> /\ \A i \in 1 .. m : f[i] = step[i][f[i - 1]]
    BY <2>4 DEF Iterates
  <2>6. \A i \in 1 .. m : f[i] = f[i - 1] \o ms[i]
    <3> SUFFICES ASSUME NEW i \in 1 .. m PROVE f[i] = f[i - 1] \o ms[i]
      OBVIOUS
    <3>1. i - 1 \in 0 .. m
      BY <1>1
    <3>2. f[i - 1] \in Seq(W)
      BY <2>5, <3>1
    <3> QED
      BY <2>3, <2>5, <3>2
  <2> QED
    BY <2>5, <2>6 DEF Flattens, m
<1>3. /\ f \in [0 .. m -> Seq(W)] /\ f[0] = << >>
      /\ \A i \in 1 .. m : f[i] = f[i - 1] \o ms[i]
  BY <1>2 DEF Flattens, m
<1>4. CASE m = 0
  <2>1. ms = << >>
    BY <1>4, EmptySeq DEF m
  <2> QED
    BY <1>2, <1>3, <1>4, <2>1 DEF FlattenSeq, m
<1>5. CASE m # 0
  <2> DEFINE all == CHOOSE g : Solves(g)
  <2>0. f[1] = ms[1]
    <3>1. 1 \in 1 .. m /\ 1 - 1 = 0
      BY <1>1, <1>5
    <3>2. f[1] = f[0] \o ms[1] /\ ms[1] \in Seq(W)
      BY <1>1, <1>3, <3>1
    <3> QED
      BY <1>3, <3>2, ConcatEmptySeq
  <2>1. \E g : Solves(g)
    <3> DEFINE g == [i \in 1 .. m |-> f[i]]
    <3>1. \A i \in 1 .. m : g[i] = IF i = 1 THEN ms[i] ELSE g[i - 1] \o ms[i]
      <4> SUFFICES ASSUME NEW i \in 1 .. m PROVE f[i] = IF i = 1 THEN ms[i] ELSE g[i - 1] \o ms[i]
        OBVIOUS
      <4>1. CASE i = 1
        BY <2>0, <4>1
      <4>2. CASE i # 1
        <5>1. i - 1 \in 1 .. m
          BY <1>1, <4>2
        <5>2. g[i - 1] = f[i - 1]
          BY <5>1
        <5> QED
          BY <1>3, <4>2, <5>2
      <4> QED
        BY <4>1, <4>2
    <3>2. Solves(g)
      <4>1. DOMAIN g = 1 .. m
        OBVIOUS
      <4>2. g = [i \in 1 .. m |-> g[i]]
        OBVIOUS
      <4> HIDE DEF g
      <4> QED
        BY <3>1, <4>2
    <3> HIDE DEF Solves, g
    <3> QED
      BY <3>2
  <2>2. Solves(all)
    <3> HIDE DEF Solves
    <3> QED
      BY <2>1
  <2>3. FlattenSeq(ms) = all[m]
    BY <1>5, Zenon DEF FlattenSeq, m
  <2> HIDE DEF all
  <2>4. \A i \in 1 .. m : all[i] = IF i = 1 THEN ms[i] ELSE all[i - 1] \o ms[i]
    BY <2>2
  <2> DEFINE Same == {i \in 0 .. m : i = 0 \/ all[i] = f[i]}
  <2>5. 0 \in Same
    BY <1>1
  <2>6. ASSUME NEW i \in 0 .. m - 1, i \in Same PROVE i + 1 \in Same
    <3>1. i + 1 \in 1 .. m /\ (i + 1) - 1 = i
      BY <1>1
    <3>2. f[i + 1] = f[i] \o ms[i + 1]
      BY <1>3, <3>1
    <3>3. CASE i = 0
      <4>1. 1 \in 1 .. m /\ i + 1 = 1 /\ i + 1 \in 0 .. m
        BY <1>1, <3>1, <3>3
      <4>2. all[1] = ms[1]
        BY <2>4, <4>1
      <4> QED
        BY <2>0, <4>1, <4>2
    <3>4. CASE i # 0
      <4>1. i + 1 # 1 /\ all[i] = f[i] /\ i + 1 \in 0 .. m
        BY <1>1, <2>6, <3>4
      <4>2. all[i + 1] = all[i] \o ms[i + 1]
        BY <2>4, <3>1, <4>1
      <4>3. all[i + 1] = f[i + 1]
        BY <3>2, <4>1, <4>2
      <4> QED
        BY <4>1, <4>3
    <3> QED
      BY <3>3, <3>4
  <2>7. \A i \in 0 .. m : i \in Same
    <3>1. \A i \in 0 .. m - 1 : i \in Same => i + 1 \in Same
      BY <2>6
    <3> HIDE DEF Same
    <3> QED
      BY <1>1, <2>5, <3>1, BoundedInduction
  <2>8. all[m] = f[m]
    BY <1>1, <1>5, <2>7
  <2> QED
    BY <1>2, <2>3, <2>8 DEF m
<1> QED
  BY <1>4, <1>5

LEMMA FlattenType ==
  ASSUME NEW W, NEW ms \in Seq(Seq(W)) PROVE FlattenSeq(ms) \in Seq(W)
<1>1. PICK f : Flattens(f, W, ms) /\ FlattenSeq(ms) = f[Len(ms)]
  BY Flattened
<1>2. Len(ms) \in 0 .. Len(ms)
  BY LenProperties
<1> QED
  BY <1>1, <1>2 DEF Flattens

LEMMA FlattenEmpty ==
  FlattenSeq(<< >>) = << >>
BY DEF FlattenSeq

LEMMA FlattenAppend ==
  ASSUME NEW W, NEW ms \in Seq(Seq(W)), NEW text \in Seq(W)
  PROVE  FlattenSeq(Append(ms, text)) = FlattenSeq(ms) \o text
<1> DEFINE m == Len(ms)
           more == Append(ms, text)
<1>1. /\ m \in Nat /\ more \in Seq(Seq(W)) /\ Len(more) = m + 1
      /\ (\A i \in 1 .. m : more[i] = ms[i]) /\ more[m + 1] = text
  BY LenProperties, AppendProperties
<1> HIDE DEF more, m
<1>2. PICK f : Flattens(f, W, ms) /\ FlattenSeq(ms) = f[Len(ms)]
  BY Flattened
<1>3. PICK g : Flattens(g, W, more) /\ FlattenSeq(more) = g[Len(more)]
  BY <1>1, Flattened
<1>4. f[0] = << >> /\ \A i \in 1 .. m : f[i] = f[i - 1] \o ms[i]
  BY <1>2 DEF Flattens, m
<1>5. g[0] = << >> /\ \A i \in 1 .. m + 1 : g[i] = g[i - 1] \o more[i]
  BY <1>1, <1>3 DEF Flattens
<1> DEFINE Same == {i \in 0 .. m : f[i] = g[i]}
<1>6. 0 \in Same
  BY <1>1, <1>4, <1>5
<1>7. ASSUME NEW i \in 0 .. m - 1, i \in Same PROVE i + 1 \in Same
  <2>1. i + 1 \in 1 .. m /\ i + 1 \in 1 .. m + 1 /\ i + 1 \in 0 .. m /\ (i + 1) - 1 = i
    BY <1>1
  <2>2. f[i + 1] = f[i] \o ms[i + 1] /\ g[i + 1] = g[i] \o more[i + 1]
    BY <1>4, <1>5, <2>1
  <2>3. f[i] = g[i] /\ more[i + 1] = ms[i + 1]
    BY <1>1, <1>7, <2>1
  <2>4. f[i + 1] = g[i + 1]
    BY <2>2, <2>3
  <2> QED
    BY <2>1, <2>4
<1>8. \A i \in 0 .. m : i \in Same
  <2>1. \A i \in 0 .. m - 1 : i \in Same => i + 1 \in Same
    BY <1>7
  <2> HIDE DEF Same
  <2> QED
    BY <1>1, <1>6, <2>1, BoundedInduction
<1>9. g[m + 1] = g[m] \o text
  <2>1. m + 1 \in 1 .. m + 1 /\ (m + 1) - 1 = m
    BY <1>1
  <2> QED
    BY <1>1, <1>5, <2>1
<1>10. f[m] = g[m]
  BY <1>1, <1>8
<1>11. FlattenSeq(more) = g[m + 1] /\ FlattenSeq(ms) = f[m]
  BY <1>1, <1>2, <1>3 DEF m
<1> QED
  BY <1>9, <1>10, <1>11 DEF more

LEMMA FlattenHead ==
  ASSUME NEW W, NEW ms \in Seq(Seq(W)), ms # << >>
  PROVE  FlattenSeq(ms) = Head(ms) \o FlattenSeq(Tail(ms))
<1> DEFINE m == Len(Tail(ms))
           rest == Tail(ms)
           h == Head(ms)
<1>1. /\ m \in Nat /\ rest \in Seq(Seq(W)) /\ Len(ms) = m + 1 /\ h \in Seq(W)
      /\ h = ms[1] /\ \A i \in 1 .. m : rest[i] = ms[i + 1] /\ rest[i] \in Seq(W)
  <2>1. /\ rest \in Seq(Seq(W)) /\ Len(rest) = Len(ms) - 1 /\ h \in Seq(W)
        /\ \A i \in 1 .. Len(rest) : rest[i] = ms[i + 1]
    BY HeadTailProperties
  <2>2. Len(ms) \in Nat \ {0}
    BY EmptySeq
  <2>3. \A i \in 1 .. m : rest[i] \in Seq(W)
    <3> HIDE DEF rest
    <3> QED
      BY <2>1, ElementOfSeq DEF rest
  <2>4. h = ms[1]
    OBVIOUS
  <2> HIDE DEF rest, h
  <2>5. Len(rest) \in Nat /\ Len(ms) = Len(rest) + 1
    BY <2>1, <2>2
  <2> QED
    BY <2>1, <2>3, <2>4, <2>5 DEF rest
<1>2. PICK f : Flattens(f, W, ms) /\ FlattenSeq(ms) = f[Len(ms)]
  BY Flattened
<1>3. PICK g : Flattens(g, W, rest) /\ FlattenSeq(rest) = g[Len(rest)]
  BY <1>1, Flattened
<1>4. f[0] = << >> /\ \A i \in 1 .. m + 1 : f[i] = f[i - 1] \o ms[i]
  BY <1>1, <1>2 DEF Flattens
<1>5. g \in [0 .. m -> Seq(W)] /\ g[0] = << >> /\ \A i \in 1 .. m : g[i] = g[i - 1] \o rest[i]
  BY <1>3 DEF Flattens
<1> HIDE DEF m, rest, h
<1> DEFINE Same == {i \in 0 .. m : f[i + 1] = h \o g[i]}
<1>6. 0 \in Same
  <2>1. 1 \in 1 .. m + 1 /\ 1 - 1 = 0 /\ 0 \in 0 .. m /\ 0 + 1 = 1
    BY <1>1
  <2>2. f[1] = << >> \o h /\ << >> \o h = h /\ h \o << >> = h
    <3>1. f[1] = << >> \o h
      BY <1>1, <1>4, <2>1
    <3> QED
      BY <1>1, <3>1, ConcatEmptySeq
  <2> QED
    BY <1>5, <2>1, <2>2
<1>7. ASSUME NEW i \in 0 .. m - 1, i \in Same PROVE i + 1 \in Same
  <2> DEFINE j == i + 1
  <2>1. /\ j \in 1 .. m /\ j \in 0 .. m /\ j + 1 \in 1 .. m + 1 /\ (j + 1) - 1 = j
        /\ j - 1 = i /\ i \in 0 .. m
    BY <1>1
  <2>2. f[j] = h \o g[i]
    BY <1>7
  <2> HIDE DEF j
  <2>3. f[j + 1] = f[j] \o ms[j + 1] /\ g[j] = g[i] \o rest[j] /\ ms[j + 1] = rest[j]
    BY <1>1, <1>4, <1>5, <2>1
  <2>4. PICK u \in Seq(W) : u = g[i]
    BY <1>5, <2>1
  <2>5. PICK t \in Seq(W) : t = rest[j]
    BY <1>1, <2>1
  <2>6. PICK w \in Seq(W) : w = h
    BY <1>1
  <2>7. (w \o u) \o t = w \o (u \o t)
    <3>1. Associates(w, u, t)
      BY Association
    <3> QED
      BY <3>1, Zenon DEF Associates
  <2>8. f[j + 1] = h \o g[j]
    BY <2>2, <2>3, <2>4, <2>5, <2>6, <2>7
  <2> QED
    BY <2>1, <2>8 DEF j
<1>8. \A i \in 0 .. m : i \in Same
  <2>1. \A i \in 0 .. m - 1 : i \in Same => i + 1 \in Same
    BY <1>7
  <2> HIDE DEF Same
  <2> QED
    BY <1>1, <1>6, <2>1, BoundedInduction
<1>9. f[m + 1] = h \o g[m]
  <2>1. m \in 0 .. m
    BY <1>1
  <2>2. m \in Same
    BY <1>8, <2>1
  <2> QED
    BY <2>2
<1>10. FlattenSeq(ms) = f[m + 1] /\ FlattenSeq(rest) = g[m]
  BY <1>1, <1>2, <1>3 DEF m, rest
<1> QED
  BY <1>9, <1>10 DEF rest, h
-----------------------------------------------------------------------------
(* What is on the stream, w, and what has still to be read, e: a cut may   *)
(* take the end of it away.                                                *)

Carries(W, w, e, l) ==
  \E lost \in Seq(W) : e = w \o lost /\ (l # "cut" => lost = << >>)

LEMMA CarriesAll ==
  ASSUME NEW W, NEW w \in Seq(W), NEW e, NEW l, l # "cut"
  PROVE  Carries(W, w, e, l) <=> w = e
<1>1. << >> \in Seq(W) /\ w \o << >> = w
  BY ConcatEmptySeq, EmptySeq
<1> QED
  BY <1>1 DEF Carries

LEMMA CarriesLength ==
  ASSUME NEW W, NEW w \in Seq(W), NEW e, NEW l, Carries(W, w, e, l)
  PROVE  Len(w) <= Len(e)
<1>1. PICK lost \in Seq(W) : e = w \o lost
  BY DEF Carries
<1>2. Len(w) \in Nat /\ Len(lost) \in Nat /\ Len(w \o lost) = Len(w) + Len(lost)
  BY LenProperties, ConcatProperties
<1> QED
  BY <1>1, <1>2

\* The first n bytes of the stream and the rest.
Splits(w, n, a, b) ==
  /\ a = SubSeq(w, 1, n) /\ b = SubSeq(w, n + 1, Len(w)) /\ a \o b = w
  /\ Len(a) = n /\ Len(b) = Len(w) - n

LEMMA Split ==
  ASSUME NEW W, NEW w \in Seq(W), NEW n \in 0 .. Len(w)
  PROVE  \E a, b \in Seq(W) : Splits(w, n, a, b)
<1> DEFINE m == Len(w)
           a == SubSeq(w, 1, n)
           b == SubSeq(w, n + 1, m)
<1>1. m \in Nat /\ n \in Nat /\ n <= m /\ \A i \in 1 .. m : w[i] \in W
  BY LenProperties, ElementOfSeq
<1> HIDE DEF m
<1>2. a \in Seq(W) /\ Len(a) = n
  <2>1. 1 \in Int /\ n \in Int /\ \A i \in 1 .. n : w[i] \in W
    BY <1>1
  <2>2. a \in Seq(W) /\ Len(a) = IF 1 <= n THEN n - 1 + 1 ELSE 0
    BY <2>1, SubSeqProperties
  <2> HIDE DEF a
  <2> QED
    BY <1>1, <2>2
<1>3. b \in Seq(W) /\ Len(b) = m - n
  <2>1. n + 1 \in Int /\ m \in Int /\ \A i \in n + 1 .. m : w[i] \in W
    BY <1>1
  <2>2. b \in Seq(W) /\ Len(b) = IF n + 1 <= m THEN m - (n + 1) + 1 ELSE 0
    BY <2>1, SubSeqProperties
  <2> HIDE DEF b
  <2> QED
    BY <1>1, <2>2
<1>4. a \o b = w
  <2>1. /\ 1 \in 1 .. Len(w) + 1 /\ n \in 1 - 1 .. Len(w) /\ m \in n .. Len(w)
    BY <1>1 DEF m
  <2>2. a \o b = SubSeq(w, 1, m)
    BY <2>1, ConcatAdjacentSubSeq
  <2> QED
    BY <2>2, SubSeqFull DEF m
<1>5. Splits(w, n, a, b)
  BY <1>2, <1>3, <1>4 DEF Splits, m
<1> HIDE DEF a, b
<1> QED
  BY <1>2, <1>3, <1>5

LEMMA CarriesMore ==
  ASSUME NEW W, NEW w \in Seq(W), NEW e \in Seq(W), Carries(W, w, e, "open"),
         NEW text \in Seq(W)
  PROVE  Carries(W, w \o text, e \o text, "open")
<1>1. w = e
  BY CarriesAll
<1>2. w \o text \in Seq(W)
  BY ConcatProperties
<1> QED
  BY <1>1, <1>2, CarriesAll

LEMMA CarriesCut ==
  ASSUME NEW W, NEW w \in Seq(W), NEW e, NEW l, Carries(W, w, e, l), NEW n \in 0 .. Len(w)
  PROVE  Carries(W, SubSeq(w, 1, n), e, "cut")
<1>1. PICK lost \in Seq(W) : e = w \o lost
  BY DEF Carries
<1>2. PICK a, b \in Seq(W) : Splits(w, n, a, b)
  BY Split
<1>3. (a \o b) \o lost = a \o (b \o lost) /\ b \o lost \in Seq(W)
  <2>1. Associates(a, b, lost) /\ b \o lost \in Seq(W)
    BY Association, ConcatProperties
  <2> QED
    BY <2>1, Zenon DEF Associates
<1>4. e = a \o (b \o lost)
  BY <1>1, <1>2, <1>3 DEF Splits
<1> QED
  BY <1>2, <1>3, <1>4 DEF Carries, Splits

\* A read of exactly the bytes that come next.
Reads(W, w, n, first, rest, l) ==
  /\ SubSeq(w, 1, n) = first
  /\ SubSeq(w, n + 1, Len(w)) \in Seq(W)
  /\ Len(SubSeq(w, n + 1, Len(w))) = Len(w) - n
  /\ Carries(W, SubSeq(w, n + 1, Len(w)), rest, l)

LEMMA CarriesRead ==
  ASSUME NEW W, NEW w \in Seq(W), NEW l, NEW first \in Seq(W), NEW rest \in Seq(W),
         Carries(W, w, first \o rest, l), NEW n \in 0 .. Len(w), Len(first) = n
  PROVE  Reads(W, w, n, first, rest, l)
<1>1. PICK lost \in Seq(W) : first \o rest = w \o lost /\ (l # "cut" => lost = << >>)
  BY DEF Carries
<1>2. PICK a, b \in Seq(W) : Splits(w, n, a, b)
  BY Split
<1>3. (a \o b) \o lost = a \o (b \o lost) /\ b \o lost \in Seq(W)
  <2>1. Associates(a, b, lost) /\ b \o lost \in Seq(W)
    BY Association, ConcatProperties
  <2> QED
    BY <2>1, Zenon DEF Associates
<1>4. first \o rest = a \o (b \o lost)
  BY <1>1, <1>2, <1>3 DEF Splits
<1> DEFINE c == b \o lost
<1> HIDE DEF c
<1>5. first = a
  <2>1. substr(first \o rest, 0, Len(first)) = first
    BY SubstrFirst
  <2>2. c \in Seq(W)
    BY <1>3 DEF c
  <2>3. substr(a \o c, 0, Len(a)) = a
    BY <2>2, SubstrFirst
  <2> QED
    BY <1>2, <1>4, <2>1, <2>3 DEF c, Splits
<1>6. rest = c
  <2>1. first \o rest = first \o c /\ c \in Seq(W)
    BY <1>3, <1>4, <1>5 DEF c
  <2> QED
    BY <2>1, ConcatSimplifications
<1>7. Carries(W, b, rest, l)
  BY <1>1, <1>6 DEF Carries, c
<1> QED
  BY <1>2, <1>5, <1>7 DEF Splits, Reads
-----------------------------------------------------------------------------
(* The bodies of messages                                                  *)

\* The bytes that texts are made of, and those of messages.
Plain == Alphabet \cup UNION {Range(text) : text \in Contents \cup Paths}
OnWire == Bytes(Plain)

(* Every body is shorter than the length field can tell, and the size of a *)
(* file is an uint64_t.  For the program: bodies of less than 4 GiB.       *)
MessagesFit ==
  /\ 2 * Block + SessionBytes + 2 < Power[Digits]
  /\ SessionBytes + 2 * Digits + PieceSize + 1 + Block < Power[Digits]
  /\ \A path \in Paths : SessionBytes + 3 * Digits + Len(path) + 1 + Block < Power[Digits]
  /\ \A n \in Lengths : n < Power[2 * Digits]

LEMMA PowersOf16 ==
  ASSUME Base = 16
  PROVE  Power[8] = 65536 * 65536 /\ Power[16] = 65536 * (65536 * (65536 * 65536))
<1>1. ASSUME NEW n \in Nat PROVE Power[n + 1] = 16 * Power[n] /\ Power[n] \in Nat
  <2>1. Power[n + 1] = Base * Power[n] /\ Power[n] \in Nat
    BY PowerIs
  <2> QED
    BY <2>1, Zenon
<1>2. ASSUME NEW n \in Nat PROVE Power[n + 2] = 256 * Power[n]
  <2>1. n + 1 \in Nat /\ (n + 1) + 1 = n + 2
    OBVIOUS
  <2>2. Power[n + 1] = 16 * Power[n] /\ Power[(n + 1) + 1] = 16 * Power[n + 1] /\ Power[n] \in Nat
    BY <1>1, <2>1
  <2> QED
    BY <2>1, <2>2
<1>3. ASSUME NEW n \in Nat PROVE Power[n + 4] = 65536 * Power[n]
  <2>1. n + 2 \in Nat /\ (n + 2) + 2 = n + 4
    OBVIOUS
  <2>2. Power[n + 2] = 256 * Power[n] /\ Power[(n + 2) + 2] = 256 * Power[n + 2] /\ Power[n] \in Nat
    BY <1>1, <1>2, <2>1
  <2> QED
    BY <2>1, <2>2, SMT
<1>4. \A n, m \in Nat : m = n + 4 => Power[m] = 65536 * Power[n]
  BY <1>3, SMT
<1>5. Power[4] = 65536 * Power[0] /\ Power[8] = 65536 * Power[4]
  BY <1>4, SMT
<1>6. Power[12] = 65536 * Power[8] /\ Power[16] = 65536 * Power[12]
  BY <1>4, SMT
<1>7. Power[0] = 1
  BY PowerIs
<1>8. Power[4] = 65536
  BY <1>5, <1>7, SMT
<1>9. Power[8] = 65536 * 65536
  BY <1>5, <1>8, SMT
<1>10. Power[12] = 65536 * (65536 * 65536)
  BY <1>6, <1>9, SMT
<1> QED
  BY <1>6, <1>9, <1>10, SMT

(* It holds of the program, whose -s is an int, whose file sizes are of 64 *)
(* bits, and whose paths are shorter than any limit of the length field.   *)
LEMMA ProgramFits ==
  ASSUME Base = 16, Digits = 8, SessionBytes = 32, Block = 16,
         PieceSize < 32768 * 65536, \A path \in Paths : Len(path) < 65536,
         Lengths \subseteq 0 .. 65536 * (65536 * (65536 * 65536)) - 1
  PROVE  MessagesFit
<1>1. Power[8] = 65536 * 65536 /\ Power[16] = 65536 * (65536 * (65536 * 65536))
  BY PowersOf16, SMT
<1>2. \A path \in Paths : SessionBytes + 3 * Digits + Len(path) + 1 + Block < Power[Digits]
  <2>1. \A path \in Paths : Len(path) \in Nat
    BY FramingAssumption, LenProperties, SMT
  <2> QED
    BY <1>1, <2>1, SMT
<1>3. \A n \in Lengths : n < Power[2 * Digits]
  <2>1. 2 * Digits = 16
    BY SMT
  <2>2. \A n \in Lengths : n < 65536 * (65536 * (65536 * 65536))
    BY SMT
  <2> QED
    BY <1>1, <2>1, <2>2, SMT
<1>4. PieceSize \in Nat
  BY FramingAssumption, SMT
<1> QED
  BY <1>1, <1>2, <1>3, <1>4, SMT DEF MessagesFit

Fits(s, p) == Body(s, p) \in Seq(OnWire) /\ Len(Body(s, p)) \in 1 .. Power[Digits] - 1

LEMMA SessionIs ==
  ASSUME NEW s \in session(SessionBytes)
  PROVE  s \in Seq(Plain) /\ Len(s) = SessionBytes
<1>1. SessionBytes \in Nat /\ NUL \in Plain /\ Char(7) \in Plain
  BY PacketsAssumption, CharIs DEF Plain
<1>2. s \in [1 .. SessionBytes -> Plain]
  BY <1>1 DEF session
<1>3. s \in Seq(Plain)
  BY <1>1, <1>2, SeqDef
<1> QED
  BY <1>1, <1>2, <1>3, LenProperties

LEMMA NumbersAre ==
  /\ SessionBytes \in Nat \ {0} /\ Digits \in Nat \ {0} /\ Block \in Nat \ {0}
  /\ PieceSize \in Nat \ {0} /\ Power[Digits] \in Nat \ {0} /\ Alphabet \subseteq Plain
BY PacketsAssumption, FramingAssumption, PowerIs DEF Plain

LEMMA Singleton ==
  ASSUME NEW S, NEW b \in S PROVE <<b>> \in Seq(S) /\ Len(<<b>>) = 1
OBVIOUS

LEMMA HelloBody ==
  ASSUME MessagesFit, NEW s \in session(SessionBytes), NEW p \in First(s).negotiation
  PROVE  Fits(s, p) /\ p = [kind |-> "hello", status |-> server_hello_verify(Body(s, p))]
<1>1. /\ p.kind = "hello" /\ p.status \in {0, 2}
      /\ p = [kind |-> "hello", status |-> p.status]
  BY DEF First
<1> DEFINE version == IF p.status = 0 THEN VERSION ELSE OTHER_VERSION
<1>2. Body(s, p) = server_hello_build(version)
  BY <1>1 DEF Body
<1>3. /\ VERSION # OTHER_VERSION /\ version \in {VERSION, OTHER_VERSION}
      /\ (IF version = VERSION THEN 0 ELSE 2) = p.status
  <2>1. VERSION # OTHER_VERSION
    BY CharIs DEF VERSION, OTHER_VERSION
  <2> QED
    BY <1>1, <2>1
<1> HIDE DEF version
<1>4. /\ server_hello_build(version) \in Seq(OnWire)
      /\ Len(server_hello_build(version)) \in 1 .. 4 + Block
      /\ server_hello_verify(server_hello_build(version)) = IF version = VERSION THEN 0 ELSE 2
  BY <1>3, NumbersAre, HelloIsRead DEF OnWire
<1>5. Len(Body(s, p)) \in 1 .. Power[Digits] - 1
  BY <1>2, <1>4, NumbersAre DEF MessagesFit
<1> QED
  BY <1>1, <1>2, <1>3, <1>4, <1>5 DEF Fits

LEMMA InitBody ==
  ASSUME MessagesFit, NEW s \in session(SessionBytes), NEW p \in First(s).transfer
  PROVE  Fits(s, p) /\ p = [kind |-> "init", session |-> file_transfer_init_read(Body(s, p))]
<1>1. p.kind = "init" /\ p = [kind |-> "init", session |-> s]
  BY DEF First
<1>2. Body(s, p) = file_transfer_init(s)
  BY <1>1 DEF Body
<1>3. /\ file_transfer_init(s) \in Seq(OnWire)
      /\ Len(file_transfer_init(s)) \in 1 .. SessionBytes + 1 + Block
      /\ file_transfer_init_read(file_transfer_init(s)) = s
  BY NumbersAre, SessionIs, InitIsRead DEF OnWire
<1>4. Len(Body(s, p)) \in 1 .. Power[Digits] - 1
  BY <1>2, <1>3, NumbersAre, SMTT(30) DEF MessagesFit
<1> QED
  BY <1>1, <1>2, <1>3, <1>4 DEF Fits

LEMMA ClientHelloBody ==
  ASSUME MessagesFit, NEW s \in session(SessionBytes), NEW p \in First(s).reply
  PROVE  /\ Fits(s, p) /\ p.kind = "client_hello" /\ p.status \in Statuses
         /\ p.status = 0 => p.session = s
         /\ p.status # 2 => p = client_hello_verify(Body(s, p))
<1>1. /\ p.kind = "client_hello" /\ p.status \in Statuses /\ p.status \in 0 .. 2
      /\ p = [kind |-> "client_hello", status |-> p.status,
              session |-> IF p.status = 0 THEN s ELSE << >>]
  BY FramingAssumption DEF First
<1>2. Body(s, p) = client_hello_build(p.status, s)
  BY <1>1 DEF Body
<1>3. /\ client_hello_build(p.status, s) \in Seq(OnWire)
      /\ Len(client_hello_build(p.status, s)) \in 1 .. SessionBytes + 2 + Block
      /\ p.status # 2 => client_hello_verify(client_hello_build(p.status, s)) =
                            [kind |-> "client_hello", status |-> p.status,
                             session |-> IF p.status = 0 THEN s ELSE << >>]
  BY <1>1, NumbersAre, SessionIs, ClientHelloIsRead DEF OnWire
<1>4. Len(Body(s, p)) \in 1 .. Power[Digits] - 1
  BY <1>2, <1>3, NumbersAre DEF MessagesFit
<1> QED
  BY <1>1, <1>2, <1>3, <1>4 DEF Fits

LEMMA InitReplyBody ==
  ASSUME MessagesFit, NEW s \in session(SessionBytes), NEW p \in First(s).ack
  PROVE  /\ Fits(s, p)
         /\ p = [kind |-> "init_reply", status |-> file_transfer_init_confirm(Body(s, p))]
<1>1. /\ p.kind = "init_reply" /\ p.status \in Nat
      /\ p = [kind |-> "init_reply", status |-> p.status]
  BY DEF First
<1>2. Body(s, p) = file_transfer_init_reply(p.status)
  BY <1>1 DEF Body
<1>3. /\ file_transfer_init_reply(p.status) \in Seq(OnWire)
      /\ Len(file_transfer_init_reply(p.status)) \in 1 .. 2 * Block + 2
      /\ file_transfer_init_confirm(file_transfer_init_reply(p.status)) = p.status
  BY <1>1, NumbersAre, InitReplyIsRead DEF OnWire
<1>4. Len(Body(s, p)) \in 1 .. Power[Digits] - 1
  BY <1>2, <1>3, NumbersAre DEF MessagesFit
<1> QED
  BY <1>1, <1>2, <1>3, <1>4 DEF Fits

LEMMA NegotiationBody ==
  ASSUME MessagesFit, NEW s \in session(SessionBytes), NEW p \in Later.negotiation
  PROVE  Fits(s, p) /\ p = file_negotiation_verify(Body(s, p), s)
<1>1. /\ p.kind = "negotiation" /\ p.piece_size = PieceSize /\ p.file_length \in Lengths
      /\ p.path \in Paths
      /\ p = [kind |-> "negotiation", piece_size |-> PieceSize,
              file_length |-> p.file_length, path |-> p.path]
  BY DEF Later
<1> DEFINE n == p.file_length
           path == p.path
<1>2. n \in Nat /\ n < Power[2 * Digits] /\ PieceSize < Power[Digits] /\ PieceSize \in Nat
  <2>1. n \in Nat /\ n < Power[2 * Digits]
    BY <1>1, FramingAssumption DEF MessagesFit
  <2>2. PieceSize < Power[Digits]
    BY NumbersAre DEF MessagesFit
  <2> QED
    BY <2>1, <2>2, NumbersAre
<1>3. path \in Seq(Range(path)) /\ Range(path) \subseteq Plain /\ NUL \notin Range(path)
  BY <1>1, FramingAssumption DEF Plain
<1>4. path \in Seq(Plain) /\ \A i \in 1 .. Len(path) : path[i] # NUL
  <2> HIDE DEF path
  <2>1. path \in Seq(Plain)
    BY <1>3, SeqMonotonic
  <2>2. \A i \in 1 .. Len(path) : path[i] \in Range(path)
    BY <1>3, ElementOfSeq
  <2> QED
    BY <1>3, <2>1, <2>2
<1>5. Body(s, p) = file_negotiation_build(s, PieceSize, n, path)
  BY <1>1 DEF Body
<1> HIDE DEF n, path
<1>6. NegotiationReads(Plain, s, PieceSize, n, path)
  BY <1>2, <1>4, NumbersAre, SessionIs, NegotiationIsRead
<1>7. Len(Body(s, p)) \in 1 .. Power[Digits] - 1
  <2>1. SessionBytes + 3 * Digits + Len(path) + 1 + Block < Power[Digits]
    BY <1>1 DEF MessagesFit, path
  <2>2. Len(path) \in Nat
    BY <1>4, LenProperties
  <2> QED
    BY <1>5, <1>6, <2>1, <2>2, NumbersAre DEF NegotiationReads
<1> QED
  BY <1>1, <1>5, <1>6, <1>7 DEF Fits, NegotiationReads, OnWire, n, path

LEMMA ReplyBody ==
  ASSUME MessagesFit, NEW s \in session(SessionBytes), NEW p \in Later.reply
  PROVE  Fits(s, p) /\ p = file_negotiation_finish(Body(s, p), s)
<1>1. /\ p.kind = "reply" /\ p.status \in Nat /\ p = [kind |-> "reply", status |-> p.status]
  BY DEF Later
<1>2. Body(s, p) = file_negotiation_reply(s, p.status)
  BY <1>1 DEF Body
<1>3. /\ file_negotiation_reply(s, p.status) \in Seq(OnWire)
      /\ Len(file_negotiation_reply(s, p.status)) \in 1 .. SessionBytes + 2 + Block
      /\ file_negotiation_finish(file_negotiation_reply(s, p.status), s) =
           [kind |-> "reply", status |-> p.status]
  BY <1>1, NumbersAre, SessionIs, ReplyIsRead DEF OnWire
<1>4. Len(Body(s, p)) \in 1 .. Power[Digits] - 1
  BY <1>2, <1>3, NumbersAre DEF MessagesFit
<1> QED
  BY <1>1, <1>2, <1>3, <1>4 DEF Fits

LEMMA ReceiveBody ==
  ASSUME MessagesFit, NEW s \in session(SessionBytes), NEW p \in Later.ack
  PROVE  Fits(s, p) /\ p = file_transfer_confirm(Body(s, p), s)
<1>1. /\ p.kind = "receive" /\ p.status \in Nat /\ p = [kind |-> "receive", status |-> p.status]
  BY DEF Later
<1>2. Body(s, p) = file_transfer_receive(s, p.status)
  BY <1>1 DEF Body
<1>3. /\ file_transfer_receive(s, p.status) \in Seq(OnWire)
      /\ Len(file_transfer_receive(s, p.status)) \in 1 .. 2 * Block + SessionBytes + 2
      /\ file_transfer_confirm(file_transfer_receive(s, p.status), s) =
           [kind |-> "receive", status |-> p.status]
  BY <1>1, NumbersAre, SessionIs, ReceiveIsRead DEF OnWire
<1>4. Len(Body(s, p)) \in 1 .. Power[Digits] - 1
  BY <1>2, <1>3, NumbersAre DEF MessagesFit
<1> QED
  BY <1>1, <1>2, <1>3, <1>4 DEF Fits

LEMMA DataBody ==
  ASSUME MessagesFit, NEW s \in session(SessionBytes), NEW p \in Later.transfer
  PROVE  /\ Fits(s, p) /\ p.kind = "data" /\ p.order \in Orders \cup {0}
         /\ p.order < Power[Digits] => p = file_transfer_read(Body(s, p), s)
<1> DEFINE bytes == p.bytes
           order == p.order
<1>1. /\ p.kind = "data" /\ order \in Orders \cup {0} /\ bytes \in Contents \cup {<< >>}
      /\ p = [kind |-> "data", order |-> order, bytes |-> bytes]
  BY DEF Later, Data, Finish
<1>2. order \in Nat /\ bytes \in Seq(Plain) /\ Len(bytes) \in 0 .. PieceSize
  <2>1. CASE bytes = << >>
    BY <1>1, <2>1, FramingAssumption, EmptySeq, NumbersAre
  <2>2. CASE bytes \in Contents
    <3>1. bytes \in Seq(Range(bytes)) /\ Range(bytes) \subseteq Plain /\ Len(bytes) \in 1 .. PieceSize
      BY <2>2, FramingAssumption DEF Plain
    <3>2. bytes \in Seq(Plain)
      BY <3>1, SeqMonotonic
    <3> QED
      BY <1>1, <3>1, <3>2, FramingAssumption, NumbersAre
  <2> QED
    BY <1>1, <2>1, <2>2
<1> DEFINE n == PieceSize - Len(bytes)
           blank == IF p = Finish THEN << <<"text", " ">> >> ELSE [i \in 1 .. n |-> NUL]
<1>3. /\ blank \in Seq(Plain) /\ Len(blank) \in Nat /\ Len(bytes) + Len(blank) <= PieceSize
      /\ Piece(p) = bytes \o blank
  <2>1. CASE p = Finish
    <3>1. bytes = << >> /\ Len(bytes) = 0
      BY <2>1 DEF Finish
    <3>2. <<"text", " ">> \in Plain
      BY NumbersAre DEF Alphabet
    <3>3. PICK space : space = << <<"text", " ">> >>
      OBVIOUS
    <3>4. space \in Seq(Plain) /\ Len(space) = 1
      BY <3>2, <3>3, Singleton
    <3>5. Piece(p) = space /\ blank = space
      BY <2>1, <3>3 DEF Piece
    <3>6. << >> \o space = space
      BY <3>4, ConcatEmptySeq
    <3> HIDE DEF blank, bytes, n
    <3>7. Piece(p) = bytes \o blank
      BY <3>1, <3>5, <3>6
    <3>8. Len(bytes) + Len(blank) <= PieceSize /\ Len(blank) \in Nat
      <4>1. Len(blank) = 1 /\ Len(bytes) = 0
        BY <3>1, <3>4, <3>5
      <4>2. 0 + 1 <= PieceSize
        BY NumbersAre
      <4> QED
        BY <4>1, <4>2
    <3> QED
      BY <3>4, <3>5, <3>7, <3>8
  <2>2. CASE p # Finish
    <3>1. blank = [i \in 1 .. n |-> NUL] /\ n \in Nat /\ NUL \in Plain
      BY <1>2, <2>2, NumbersAre, CharIs
    <3>2. blank \in [1 .. n -> Plain]
      BY <3>1
    <3>3. Piece(p) = bytes \o blank
      BY <2>2 DEF Piece
    <3> HIDE DEF blank
    <3>4. blank \in Seq(Plain)
      BY <3>1, <3>2, SeqDef
    <3>5. Len(blank) = n
      BY <3>1, <3>2, <3>4, LenProperties
    <3> QED
      BY <1>2, <3>1, <3>3, <3>4, <3>5, NumbersAre
  <2> QED
    BY <2>1, <2>2
<1>4. Body(s, p) = file_transfer_build(s, order, Len(bytes), bytes \o blank)
  BY <1>1, <1>3 DEF Body
<1> HIDE DEF bytes, order, blank
<1>5. Len(bytes) < Power[Digits]
  BY <1>2, NumbersAre DEF MessagesFit
<1>6. DataReads(Plain, s, order, bytes, blank)
  BY <1>2, <1>3, <1>5, NumbersAre, SessionIs, DataIsRead
<1>7. Len(Body(s, p)) \in 1 .. Power[Digits] - 1
  BY <1>2, <1>3, <1>4, <1>6, NumbersAre DEF MessagesFit, DataReads
<1>8. order < Power[Digits] => ToUint32(order) = order
  BY <1>2, NumbersAre, SmallMod DEF ToUint32
<1> QED
  BY <1>1, <1>4, <1>6, <1>7, <1>8 DEF Fits, DataReads, OnWire, order, bytes
-----------------------------------------------------------------------------
(* The inductive invariant                                                 *)

Msg(c, s, p) == build_msg(Header[c], Body(s, p))

\* The bytes of messages q.
Flow(c, s, q) == FlattenSeq([i \in DOMAIN q |-> Msg(c, s, q[i])])

\* What a reader that waits for r has still to read.
Ahead(c, s, r, q) ==
  CASE r = "length" ->
         fixedLength(Len(Body(s, Head(q))), Digits) \o (Body(s, Head(q)) \o Flow(c, s, Tail(q)))
    [] r = "body" -> Body(s, Head(q)) \o Flow(c, s, Tail(q))
    [] OTHER -> Flow(c, s, q)

Sendable(c, s) == First(s)[c] \cup Later[c]

FramingTypeOK ==
  /\ conn \in Kinds /\ sess \in session(SessionBytes)
  /\ sent \in Seq(Sendable(conn, sess))
  /\ wire \in Seq(OnWire) /\ arrived \in 0 .. Len(wire)
  /\ link \in {"open", "shut", "cut"}
  /\ reader \in {"magic", "length", "head", "body", "done", "failed"}
  /\ want \in Nat
  /\ got \in Seq(Range(got)) /\ Len(got) <= Len(sent)

(* The reader is at the byte where the next field of the next message      *)
(* begins, and knows the length of a body before it reads it.              *)
Aligned ==
  /\ reader \in {"length", "body"} => Unread # << >>
  /\ reader = "body" => want = Len(Body(sess, Head(Unread)))
  /\ Waiting => Carries(OnWire, wire, Ahead(conn, sess, reader, Unread), link)

Framed == FramingTypeOK /\ Aligned

SentInOrder ==
  /\ sent # << >> => sent[1] \in First(sess)[conn]
  /\ \A i \in 2 .. Len(sent) : sent[i] \in Later[conn]
  /\ conn = "reply" /\ Len(sent) >= 2 => sent[1].status = 0

Recognized ==
  sees # conn => sees = "unknown" /\ conn \in FromClient /\ reader \in {"magic", "failed"}

GotIsSent == \A i \in 1 .. Len(got) : got[i] = sent[i]

Received == SentInOrder /\ Recognized /\ GotIsSent
-----------------------------------------------------------------------------
(* Messages and flows of them                                              *)

KindOfConnection == {"negotiation", "transfer", "reply", "ack"}

LEMMA BodyFits ==
  ASSUME MessagesFit, NEW c \in Kinds, NEW s \in session(SessionBytes), NEW p \in Sendable(c, s)
  PROVE  Fits(s, p)
<1>1. c \in KindOfConnection
  BY FramingAssumption DEF KindOfConnection
<1>2. CASE c = "negotiation"
  BY <1>2, HelloBody, NegotiationBody DEF Sendable
<1>3. CASE c = "transfer"
  BY <1>3, InitBody, DataBody DEF Sendable
<1>4. CASE c = "reply"
  BY <1>4, ClientHelloBody, ReplyBody DEF Sendable
<1>5. CASE c = "ack"
  BY <1>5, InitReplyBody, ReceiveBody DEF Sendable
<1> QED
  BY <1>1, <1>2, <1>3, <1>4, <1>5 DEF KindOfConnection

LengthField(s, p) == fixedLength(Len(Body(s, p)), Digits)

\* The parts of a message, as the reader takes them.
Parts(c, s, p) ==
  /\ Header[c] \in Seq(OnWire) /\ Len(Header[c]) = 2
  /\ LengthField(s, p) \in Seq(OnWire) /\ Len(LengthField(s, p)) = Digits
  /\ stoul(LengthField(s, p)) = Len(Body(s, p))
  /\ Body(s, p) \in Seq(OnWire) /\ Len(Body(s, p)) \in Nat
  /\ Msg(c, s, p) = (Header[c] \o LengthField(s, p)) \o Body(s, p)
  /\ Msg(c, s, p) \in Seq(OnWire)

LEMMA HeaderIs ==
  ASSUME NEW c \in Kinds
  PROVE  /\ Header[c] \in Seq(OnWire) /\ Len(Header[c]) = 2
         /\ Header[c] = IF c \in {"negotiation", "reply"} THEN MAGIC_HEADER
                        ELSE MAGIC_HEADER_TRANSFER
<1>1. c \in KindOfConnection
  BY FramingAssumption DEF KindOfConnection
<1>2. /\ MAGIC_HEADER[1] \in OnWire /\ MAGIC_HEADER[2] \in OnWire
  BY NumbersAre DEF Alphabet, OnWire, Bytes
<1>3. MAGIC_HEADER \in Seq(OnWire) /\ Len(MAGIC_HEADER) = 2
  BY <1>2 DEF MAGIC_HEADER
<1>4. MAGIC_HEADER_TRANSFER \in Seq(OnWire) /\ Len(MAGIC_HEADER_TRANSFER) = 2
  BY <1>2 DEF MAGIC_HEADER, MAGIC_HEADER_TRANSFER
<1>5. Header[c] = IF c \in {"negotiation", "reply"} THEN MAGIC_HEADER ELSE MAGIC_HEADER_TRANSFER
  BY <1>1 DEF Header, KindOfConnection
<1> QED
  BY <1>3, <1>4, <1>5

LEMMA MessageParts ==
  ASSUME MessagesFit, NEW c \in Kinds, NEW s \in session(SessionBytes), NEW p \in Sendable(c, s)
  PROVE  Parts(c, s, p)
<1> DEFINE body == Body(s, p)
           field == LengthField(s, p)
           header == Header[c]
<1>1. body \in Seq(OnWire) /\ Len(body) \in Nat /\ Len(body) < Power[Digits]
  <2>1. body \in Seq(OnWire) /\ Len(body) \in 1 .. Power[Digits] - 1
    BY BodyFits DEF Fits
  <2> QED
    BY <2>1, NumbersAre
<1>2. field \in Seq(OnWire) /\ Len(field) = Digits /\ stoul(field) = Len(body)
  <2>1. field \in Seq(DigitBytes) /\ Len(field) = Digits /\ stoul(field) = Len(body)
    BY <1>1, NumbersAre, NumberIsRead DEF LengthField
  <2>2. DigitBytes \subseteq OnWire
    BY NumbersAre DEF Alphabet, OnWire, Bytes
  <2> HIDE DEF field
  <2> QED
    BY <2>1, <2>2, SeqMonotonic
<1>3. header \in Seq(OnWire) /\ Len(header) = 2
  BY HeaderIs
<1>4. Msg(c, s, p) = (header \o field) \o body
  BY DEF Msg, build_msg, LengthField
<1> HIDE DEF header, field, body
<1>5. (header \o field) \o body \in Seq(OnWire)
  <2>1. header \o field \in Seq(OnWire)
    BY <1>2, <1>3, ConcatProperties
  <2> QED
    BY <1>1, <2>1, ConcatProperties
<1> QED
  BY <1>1, <1>2, <1>3, <1>4, <1>5 DEF Parts, header, field, body

\* The messages of q.
Msgs(c, s, q) == [i \in DOMAIN q |-> Msg(c, s, q[i])]

LEMMA MessagesAre ==
  ASSUME MessagesFit, NEW c \in Kinds, NEW s \in session(SessionBytes),
         NEW q \in Seq(Sendable(c, s))
  PROVE  /\ Msgs(c, s, q) \in Seq(Seq(OnWire)) /\ Len(Msgs(c, s, q)) = Len(q)
         /\ \A i \in 1 .. Len(q) : Msgs(c, s, q)[i] = Msg(c, s, q[i])
<1> DEFINE ms == Msgs(c, s, q)
<1>1. DOMAIN q = 1 .. Len(q) /\ Len(q) \in Nat /\ \A i \in 1 .. Len(q) : q[i] \in Sendable(c, s)
  BY LenProperties, ElementOfSeq
<1>2. \A i \in 1 .. Len(q) : Msg(c, s, q[i]) \in Seq(OnWire)
  BY <1>1, MessageParts DEF Parts
<1>3. ms \in [1 .. Len(q) -> Seq(OnWire)]
  BY <1>1, <1>2 DEF Msgs
<1>4. \A i \in 1 .. Len(q) : ms[i] = Msg(c, s, q[i])
  BY <1>1 DEF Msgs
<1> HIDE DEF ms
<1>5. ms \in Seq(Seq(OnWire))
  BY <1>1, <1>3, SeqDef
<1>6. Len(ms) = Len(q)
  BY <1>1, <1>3, <1>5, LenProperties
<1> QED
  BY <1>4, <1>5, <1>6 DEF ms

LEMMA FlowType ==
  ASSUME MessagesFit, NEW c \in Kinds, NEW s \in session(SessionBytes),
         NEW q \in Seq(Sendable(c, s))
  PROVE  Flow(c, s, q) \in Seq(OnWire)
<1>1. Flow(c, s, q) = FlattenSeq(Msgs(c, s, q))
  BY DEF Flow, Msgs
<1> QED
  BY <1>1, MessagesAre, FlattenType

LEMMA FlowEmpty ==
  ASSUME NEW c, NEW s PROVE Flow(c, s, << >>) = << >>
<1>1. [i \in DOMAIN << >> |-> Msg(c, s, << >>[i])] = << >>
  OBVIOUS
<1> QED
  BY <1>1, FlattenEmpty DEF Flow

LEMMA FlowAppend ==
  ASSUME MessagesFit, NEW c \in Kinds, NEW s \in session(SessionBytes),
         NEW q \in Seq(Sendable(c, s)), NEW p \in Sendable(c, s)
  PROVE  Flow(c, s, Append(q, p)) = Flow(c, s, q) \o Msg(c, s, p)
<1> DEFINE more == Append(q, p)
           ms == Msgs(c, s, q)
           m == Msg(c, s, p)
<1>1. /\ more \in Seq(Sendable(c, s)) /\ Len(more) = Len(q) + 1 /\ Len(q) \in Nat
      /\ (\A i \in 1 .. Len(q) : more[i] = q[i]) /\ more[Len(q) + 1] = p
  BY AppendProperties, LenProperties
<1> HIDE DEF more
<1>2. /\ ms \in Seq(Seq(OnWire)) /\ Len(ms) = Len(q)
      /\ \A i \in 1 .. Len(q) : ms[i] = Msg(c, s, q[i])
  BY MessagesAre
<1>3. /\ Msgs(c, s, more) \in Seq(Seq(OnWire)) /\ Len(Msgs(c, s, more)) = Len(q) + 1
      /\ \A i \in 1 .. Len(q) + 1 : Msgs(c, s, more)[i] = Msg(c, s, more[i])
  <2>1. /\ Msgs(c, s, more) \in Seq(Seq(OnWire)) /\ Len(Msgs(c, s, more)) = Len(more)
        /\ \A i \in 1 .. Len(more) : Msgs(c, s, more)[i] = Msg(c, s, more[i])
    BY <1>1, MessagesAre
  <2> QED
    BY <1>1, <2>1
<1>4. m \in Seq(OnWire)
  BY MessageParts DEF Parts
<1> HIDE DEF ms, m
<1>5. Msgs(c, s, more) = Append(ms, m)
  <2>1. /\ Append(ms, m) \in Seq(Seq(OnWire)) /\ Len(Append(ms, m)) = Len(q) + 1
        /\ (\A i \in 1 .. Len(q) : Append(ms, m)[i] = ms[i]) /\ Append(ms, m)[Len(q) + 1] = m
    BY <1>2, <1>4, AppendProperties
  <2>2. \A i \in 1 .. Len(q) + 1 : Msgs(c, s, more)[i] = Append(ms, m)[i]
    <3> SUFFICES ASSUME NEW i \in 1 .. Len(q) + 1
                 PROVE  Msgs(c, s, more)[i] = Append(ms, m)[i]
      OBVIOUS
    <3>1. CASE i = Len(q) + 1
      BY <1>1, <1>3, <2>1, <3>1 DEF m
    <3>2. CASE i \in 1 .. Len(q)
      BY <1>1, <1>2, <1>3, <2>1, <3>2
    <3>3. i = Len(q) + 1 \/ i \in 1 .. Len(q)
      BY <1>1
    <3> QED
      BY <3>1, <3>2, <3>3
  <2> QED
    BY <1>3, <2>1, <2>2, SeqEqual
<1>6. FlattenSeq(Append(ms, m)) = FlattenSeq(ms) \o m
  BY <1>2, <1>4, FlattenAppend
<1> QED
  BY <1>5, <1>6 DEF Flow, Msgs, ms, m, more

LEMMA FlowHead ==
  ASSUME MessagesFit, NEW c \in Kinds, NEW s \in session(SessionBytes),
         NEW q \in Seq(Sendable(c, s)), q # << >>
  PROVE  /\ Head(q) \in Sendable(c, s) /\ Tail(q) \in Seq(Sendable(c, s))
         /\ Flow(c, s, q) = Msg(c, s, Head(q)) \o Flow(c, s, Tail(q))
<1> DEFINE rest == Tail(q)
           h == Head(q)
           ms == Msgs(c, s, q)
<1>1. /\ h \in Sendable(c, s) /\ rest \in Seq(Sendable(c, s)) /\ Len(rest) = Len(q) - 1
      /\ Len(q) \in Nat \ {0} /\ h = q[1] /\ \A i \in 1 .. Len(q) - 1 : rest[i] = q[i + 1]
  <2>1. /\ h \in Sendable(c, s) /\ rest \in Seq(Sendable(c, s)) /\ Len(rest) = Len(q) - 1
        /\ \A i \in 1 .. Len(rest) : rest[i] = q[i + 1]
    BY HeadTailProperties
  <2>2. h = q[1]
    OBVIOUS
  <2> HIDE DEF h, rest
  <2> QED
    BY <2>1, <2>2, EmptySeq
<1> HIDE DEF rest, h
<1>2. /\ ms \in Seq(Seq(OnWire)) /\ Len(ms) = Len(q)
      /\ \A i \in 1 .. Len(q) : ms[i] = Msg(c, s, q[i])
  BY MessagesAre
<1>3. /\ Msgs(c, s, rest) \in Seq(Seq(OnWire)) /\ Len(Msgs(c, s, rest)) = Len(q) - 1
      /\ \A i \in 1 .. Len(q) - 1 : Msgs(c, s, rest)[i] = Msg(c, s, rest[i])
  <2>1. /\ Msgs(c, s, rest) \in Seq(Seq(OnWire)) /\ Len(Msgs(c, s, rest)) = Len(rest)
        /\ \A i \in 1 .. Len(rest) : Msgs(c, s, rest)[i] = Msg(c, s, rest[i])
    BY <1>1, MessagesAre
  <2> QED
    BY <1>1, <2>1
<1> HIDE DEF ms
<1>4. ms # << >> /\ Head(ms) = Msg(c, s, h)
  <2>1. ms # << >>
    BY <1>1, <1>2, EmptySeq
  <2>2. Head(ms) = ms[1] /\ 1 \in 1 .. Len(q)
    BY <1>1
  <2> QED
    BY <1>1, <1>2, <2>1, <2>2
<1>5. Tail(ms) = Msgs(c, s, rest)
  <2>1. /\ Tail(ms) \in Seq(Seq(OnWire)) /\ Len(Tail(ms)) = Len(q) - 1
        /\ \A i \in 1 .. Len(q) - 1 : Tail(ms)[i] = ms[i + 1]
    BY <1>2, <1>4, HeadTailProperties
  <2>2. \A i \in 1 .. Len(q) - 1 : i + 1 \in 1 .. Len(q)
    BY <1>1
  <2>3. \A i \in 1 .. Len(q) - 1 : Tail(ms)[i] = Msgs(c, s, rest)[i]
    BY <1>1, <1>2, <1>3, <2>1, <2>2
  <2> QED
    BY <1>3, <2>1, <2>3, SeqEqual
<1>6. FlattenSeq(ms) = Head(ms) \o FlattenSeq(Tail(ms))
  BY <1>2, <1>4, FlattenHead
<1>7. Flow(c, s, q) = FlattenSeq(ms) /\ Flow(c, s, rest) = FlattenSeq(Msgs(c, s, rest))
  BY DEF Flow, Msgs, ms
<1> QED
  BY <1>1, <1>4, <1>5, <1>6, <1>7 DEF rest, h

\* How the reader takes the first message of q.
Takes(c, s, q) ==
  LET h == Head(q)
      field == Ahead(c, s, "length", q)
      body == Ahead(c, s, "body", q)
  IN /\ Parts(c, s, h) /\ h \in Sendable(c, s) /\ Tail(q) \in Seq(Sendable(c, s))
     /\ field \in Seq(OnWire) /\ body \in Seq(OnWire) /\ Flow(c, s, Tail(q)) \in Seq(OnWire)
     /\ Header[c] \o LengthField(s, h) \in Seq(OnWire)
     /\ Len(Header[c] \o LengthField(s, h)) = 2 + Digits
     /\ Flow(c, s, q) = Header[c] \o field
     /\ Flow(c, s, q) = (Header[c] \o LengthField(s, h)) \o body
     /\ field = LengthField(s, h) \o body
     /\ body = Body(s, h) \o Flow(c, s, Tail(q))

LEMMA TakesMessage ==
  ASSUME MessagesFit, NEW c \in Kinds, NEW s \in session(SessionBytes),
         NEW q \in Seq(Sendable(c, s)), q # << >>
  PROVE  Takes(c, s, q)
<1> DEFINE h == Head(q)
           b == Body(s, h)
           f == LengthField(s, h)
           rest == Flow(c, s, Tail(q))
           head == Header[c]
<1>1. /\ h \in Sendable(c, s) /\ Tail(q) \in Seq(Sendable(c, s))
      /\ Flow(c, s, q) = Msg(c, s, h) \o rest
  BY FlowHead
<1> HIDE DEF h
<1>2. Parts(c, s, h) /\ rest \in Seq(OnWire)
  BY <1>1, MessageParts, FlowType
<1>3. /\ b \in Seq(OnWire) /\ f \in Seq(OnWire) /\ head \in Seq(OnWire)
      /\ Msg(c, s, h) = (head \o f) \o b /\ Len(head) = 2 /\ Len(f) = Digits
  BY <1>2 DEF Parts
<1>4. Ahead(c, s, "length", q) = f \o (b \o rest) /\ Ahead(c, s, "body", q) = b \o rest
  BY DEF Ahead, LengthField, h
<1> HIDE DEF b, f, rest, head
<1> DEFINE br == b \o rest
           hf == head \o f
<1>5. br \in Seq(OnWire) /\ hf \in Seq(OnWire) /\ Len(hf) = Len(head) + Len(f)
  BY <1>2, <1>3, ConcatProperties
<1>6. f \o br \in Seq(OnWire)
  <2> HIDE DEF br
  <2> QED
    BY <1>3, <1>5, ConcatProperties
<1>7. Regroups(head, f, b, rest) /\ (head \o f) \o b = head \o (f \o b)
  <2>1. Regroups(head, f, b, rest)
    BY <1>2, <1>3, Regroup
  <2>2. Associates(head, f, b)
    BY <1>3, Association
  <2> QED
    BY <2>1, <2>2, Zenon DEF Associates
<1>8. Flow(c, s, q) = (head \o f) \o (b \o rest)
  BY <1>1, <1>3, <1>7, Zenon DEF Regroups
<1>9. (head \o f) \o (b \o rest) = head \o (f \o (b \o rest))
  <2> HIDE DEF br
  <2>1. Associates(head, f, br)
    BY <1>3, <1>5, Association
  <2>2. (head \o f) \o br = head \o (f \o br)
    BY <2>1, Zenon DEF Associates
  <2> QED
    BY <2>2 DEF br
<1>10. Len(hf) = 2 + Digits
  BY <1>3, <1>5
<1> QED
  BY <1>1, <1>2, <1>4, <1>5, <1>6, <1>8, <1>9, <1>10, Zenon DEF Takes, h, b, f, rest, head

LEMMA AheadType ==
  ASSUME MessagesFit, NEW c \in Kinds, NEW s \in session(SessionBytes),
         NEW q \in Seq(Sendable(c, s)), NEW r, r \in {"length", "body"} => q # << >>
  PROVE  Ahead(c, s, r, q) \in Seq(OnWire)
<1>1. CASE r \in {"length", "body"}
  BY <1>1, TakesMessage DEF Takes
<1>2. CASE r \notin {"length", "body"}
  BY <1>2, FlowType DEF Ahead
<1> QED
  BY <1>1, <1>2

\* A message more.
LEMMA AheadMore ==
  ASSUME MessagesFit, NEW c \in Kinds, NEW s \in session(SessionBytes),
         NEW q \in Seq(Sendable(c, s)), NEW r, r \in {"length", "body"} => q # << >>,
         NEW p \in Sendable(c, s)
  PROVE  Ahead(c, s, r, Append(q, p)) = Ahead(c, s, r, q) \o Msg(c, s, p)
<1> DEFINE more == Append(q, p)
           m == Msg(c, s, p)
<1>1. m \in Seq(OnWire)
  BY MessageParts DEF Parts
<1>2. CASE r \notin {"length", "body"}
  BY <1>2, FlowAppend DEF Ahead
<1>3. CASE r \in {"length", "body"}
  <2>1. Head(more) = Head(q) /\ Tail(more) = Append(Tail(q), p)
    BY <1>3, HeadTailAppend
  <2>2. Takes(c, s, q)
    BY <1>3, TakesMessage
  <2> DEFINE b == Body(s, Head(q))
             f == LengthField(s, Head(q))
             rest == Flow(c, s, Tail(q))
  <2>3. Tail(q) \in Seq(Sendable(c, s)) /\ rest \in Seq(OnWire) /\ b \in Seq(OnWire) /\ f \in Seq(OnWire)
    BY <2>2 DEF Takes, Parts
  <2>4. Flow(c, s, Append(Tail(q), p)) = rest \o m
    BY <2>3, FlowAppend
  <2>5. /\ r = "body" => Ahead(c, s, r, more) = b \o (rest \o m) /\ Ahead(c, s, r, q) = b \o rest
        /\ r = "length" => /\ Ahead(c, s, r, more) = f \o (b \o (rest \o m))
                           /\ Ahead(c, s, r, q) = f \o (b \o rest)
    BY <2>1, <2>4 DEF Ahead, LengthField
  <2> HIDE DEF more, b, f, rest, m
  <2>6. (b \o rest) \o m = b \o (rest \o m) /\ b \o rest \in Seq(OnWire)
    <3>1. Associates(b, rest, m)
      BY <1>1, <2>3, Association
    <3>2. b \o rest \in Seq(OnWire)
      BY <2>3, ConcatProperties
    <3> QED
      BY <3>1, <3>2, Zenon DEF Associates
  <2> DEFINE br == b \o rest
  <2>7. (f \o br) \o m = f \o (br \o m)
    <3>1. br \in Seq(OnWire)
      BY <2>6
    <3> HIDE DEF br
    <3>2. Associates(f, br, m)
      BY <1>1, <2>3, <3>1, Association
    <3> QED
      BY <3>2, Zenon DEF Associates
  <2>8. (f \o (b \o rest)) \o m = f \o (b \o (rest \o m))
    BY <2>6, <2>7, Zenon DEF br
  <2> QED
    BY <1>3, <2>5, <2>6, <2>8 DEF more, m
<1> QED
  BY <1>2, <1>3
-----------------------------------------------------------------------------
(* What is left of a sequence after n elements                             *)

Rest(q, n) == SubSeq(q, n + 1, Len(q))

LEMMA RestIs ==
  ASSUME NEW P, NEW q \in Seq(P), NEW n \in 0 .. Len(q)
  PROVE  /\ Rest(q, n) \in Seq(P) /\ Len(Rest(q, n)) = Len(q) - n
         /\ \A i \in 1 .. Len(q) - n : Rest(q, n)[i] = q[n + i]
         /\ Rest(q, n) = << >> <=> n = Len(q)
<1> DEFINE m == Len(q)
           r == Rest(q, n)
<1>1. m \in Nat /\ n \in Nat /\ n <= m /\ \A i \in 1 .. m : q[i] \in P
  BY LenProperties, ElementOfSeq
<1>2. r = SubSeq(q, n + 1, m)
  BY DEF Rest
<1> HIDE DEF r, m
<1>3. n + 1 \in Int /\ m \in Int /\ \A i \in n + 1 .. m : q[i] \in P
  BY <1>1
<1>4. /\ r \in Seq(P) /\ Len(r) = (IF n + 1 <= m THEN m - (n + 1) + 1 ELSE 0)
      /\ \A i \in 1 .. m - (n + 1) + 1 : r[i] = q[n + 1 + i - 1]
  BY <1>2, <1>3, SubSeqProperties
<1>5. Len(r) = m - n
  BY <1>1, <1>4
<1>6. \A i \in 1 .. m - n : r[i] = q[n + i]
  <2>1. m - (n + 1) + 1 = m - n /\ \A i \in 1 .. m - n : n + 1 + i - 1 = n + i
    BY <1>1
  <2> QED
    BY <1>4, <2>1
<1>7. r = << >> <=> n = m
  BY <1>1, <1>4, <1>5, EmptySeq
<1> QED
  BY <1>4, <1>5, <1>6, <1>7 DEF r, m

LEMMA RestAppend ==
  ASSUME NEW P, NEW q \in Seq(P), NEW n \in 0 .. Len(q), NEW p \in P
  PROVE  Rest(Append(q, p), n) = Append(Rest(q, n), p)
<1> DEFINE m == Len(q)
           more == Append(q, p)
           r == Rest(q, n)
           t == Rest(more, n)
<1>1. /\ m \in Nat /\ n \in Nat /\ n <= m
      /\ more \in Seq(P) /\ Len(more) = m + 1 /\ (\A i \in 1 .. m : more[i] = q[i]) /\ more[m + 1] = p
  BY LenProperties, AppendProperties
<1>2. r \in Seq(P) /\ Len(r) = m - n /\ \A i \in 1 .. m - n : r[i] = q[n + i]
  BY RestIs
<1> HIDE DEF more, m
<1>3. n \in 0 .. Len(more) /\ more \in Seq(P)
  BY <1>1
<1>4. t \in Seq(P) /\ Len(t) = m + 1 - n /\ \A i \in 1 .. m + 1 - n : t[i] = more[n + i]
  <2>1. t \in Seq(P) /\ Len(t) = Len(more) - n /\ \A i \in 1 .. Len(more) - n : t[i] = more[n + i]
    BY <1>3, RestIs
  <2> QED
    BY <1>1, <2>1
<1> HIDE DEF r, t
<1>5. /\ Append(r, p) \in Seq(P) /\ Len(Append(r, p)) = m - n + 1
      /\ (\A i \in 1 .. m - n : Append(r, p)[i] = r[i]) /\ Append(r, p)[m - n + 1] = p
  BY <1>2, AppendProperties
<1>6. ASSUME NEW i \in 1 .. m + 1 - n PROVE t[i] = Append(r, p)[i]
  <2>1. CASE i = m - n + 1
    <3>1. n + i = m + 1
      BY <1>1, <2>1
    <3> QED
      BY <1>1, <1>4, <1>5, <2>1, <3>1
  <2>2. CASE i \in 1 .. m - n
    <3>1. n + i \in 1 .. m
      BY <1>1, <2>2
    <3> QED
      BY <1>1, <1>2, <1>4, <1>5, <2>2, <3>1
  <2>3. i = m - n + 1 \/ i \in 1 .. m - n
    BY <1>1
  <2> QED
    BY <2>1, <2>2, <2>3
<1>7. Len(t) = Len(Append(r, p)) /\ Len(t) = m + 1 - n
  BY <1>1, <1>4, <1>5
<1>8. t = Append(r, p)
  BY <1>4, <1>5, <1>6, <1>7, SeqEqual
<1> QED
  BY <1>8 DEF t, r, more

LEMMA RestNext ==
  ASSUME NEW P, NEW q \in Seq(P), NEW n \in 0 .. Len(q), Rest(q, n) # << >>
  PROVE  /\ n + 1 \in 0 .. Len(q) /\ n + 1 \in 1 .. Len(q)
         /\ Head(Rest(q, n)) = q[n + 1] /\ Tail(Rest(q, n)) = Rest(q, n + 1)
<1> DEFINE m == Len(q)
           r == Rest(q, n)
           t == Rest(q, n + 1)
<1>1. m \in Nat /\ n \in Nat /\ n <= m
  BY LenProperties
<1>2. /\ r \in Seq(P) /\ Len(r) = m - n /\ (\A i \in 1 .. m - n : r[i] = q[n + i]) /\ n # m
  BY RestIs
<1> HIDE DEF m
<1>3. n + 1 \in 0 .. m /\ n + 1 \in 1 .. m
  BY <1>1, <1>2
<1>4. t \in Seq(P) /\ Len(t) = m - (n + 1) /\ \A i \in 1 .. m - (n + 1) : t[i] = q[n + 1 + i]
  BY <1>3, RestIs DEF m
<1> HIDE DEF t
<1>5. Head(r) = q[n + 1]
  <2>1. Head(r) = r[1] /\ 1 \in 1 .. m - n
    BY <1>1, <1>2
  <2> QED
    BY <1>2, <2>1
<1> HIDE DEF r
<1>6. /\ Tail(r) \in Seq(P) /\ Len(Tail(r)) = m - n - 1
      /\ \A i \in 1 .. m - n - 1 : Tail(r)[i] = r[i + 1]
  <2>1. r # << >>
    BY DEF r
  <2> QED
    BY <1>2, <2>1, HeadTailProperties
<1>7. \A i \in 1 .. m - n - 1 : Tail(r)[i] = t[i]
  <2>1. \A i \in 1 .. m - n - 1 : /\ i + 1 \in 1 .. m - n /\ n + (i + 1) = n + 1 + i
                                  /\ i \in 1 .. m - (n + 1)
    BY <1>1
  <2> QED
    BY <1>2, <1>4, <1>6, <2>1, SMTT(30)
<1>8. m - n - 1 = m - (n + 1)
  BY <1>1
<1>9. Tail(r) = t
  BY <1>4, <1>6, <1>7, <1>8, SeqEqual
<1> QED
  BY <1>3, <1>5, <1>9 DEF m, r, t
-----------------------------------------------------------------------------
(* Readers stay in step                                                    *)

\* The parts of the invariant, by the values they depend on.
AlignedAt(c, s, r, n, q, w, l) ==
  /\ r \in {"length", "body"} => q # << >>
  /\ r = "body" => n = Len(Body(s, Head(q)))
  /\ r \in {"magic", "length", "head", "body"} => Carries(OnWire, w, Ahead(c, s, r, q), l)

LEMMA AlignedIs ==
  /\ Aligned = AlignedAt(conn, sess, reader, want, Unread, wire, link)
  /\ Unread = Rest(sent, Len(got))
BY DEF Aligned, AlignedAt, Waiting, Unread, Rest

LEMMA FramedInit ==
  ASSUME MessagesFit, Init PROVE Framed
<1>1. /\ conn \in Kinds /\ sess \in session(SessionBytes) /\ sent = << >> /\ wire = << >>
      /\ arrived = 0 /\ link = "open" /\ reader = "magic" /\ want = 0 /\ got = << >>
  BY DEF Init
<1>2. Len(<< >>) = 0 /\ << >> \in Seq(OnWire) /\ << >> \in Seq(Sendable(conn, sess))
      /\ << >> \in Seq(Range(<< >>))
  BY EmptySeq
<1>3. FramingTypeOK
  BY <1>1, <1>2 DEF FramingTypeOK
<1>4. Unread = << >>
  <2>1. Unread = Rest(sent, Len(got)) /\ Len(got) = Len(sent) /\ Len(got) \in 0 .. Len(sent)
    BY <1>1, <1>2, AlignedIs
  <2> QED
    BY <1>1, <1>2, <2>1, RestIs
<1>5. Ahead(conn, sess, reader, Unread) = << >>
  BY <1>1, <1>4, FlowEmpty DEF Ahead
<1>6. Carries(OnWire, wire, Ahead(conn, sess, reader, Unread), link)
  BY <1>1, <1>2, <1>5, CarriesAll
<1> QED
  BY <1>1, <1>3, <1>6 DEF Framed, Aligned

\* What an action finds.
LEMMA FramedIs ==
  ASSUME MessagesFit, Framed
  PROVE  /\ conn \in Kinds /\ sess \in session(SessionBytes)
         /\ sent \in Seq(Sendable(conn, sess)) /\ Len(got) \in 0 .. Len(sent)
         /\ Len(got) \in Nat /\ Len(sent) \in Nat /\ got \in Seq(Range(got))
         /\ Unread \in Seq(Sendable(conn, sess)) /\ Unread = Rest(sent, Len(got))
         /\ wire \in Seq(OnWire) /\ Len(wire) \in Nat /\ arrived \in 0 .. Len(wire)
         /\ AlignedAt(conn, sess, reader, want, Unread, wire, link)
<1>1. FramingTypeOK /\ Aligned
  BY DEF Framed
<1>2. /\ Len(got) \in Nat /\ Len(sent) \in Nat /\ Len(wire) \in Nat
      /\ Len(got) <= Len(sent)
  BY <1>1, LenProperties DEF FramingTypeOK
<1>3. Len(got) \in 0 .. Len(sent) /\ sent \in Seq(Sendable(conn, sess))
  BY <1>1, <1>2 DEF FramingTypeOK
<1>4. Unread \in Seq(Sendable(conn, sess)) /\ Unread = Rest(sent, Len(got))
  BY <1>3, AlignedIs, RestIs
<1> QED
  BY <1>1, <1>2, <1>3, <1>4, AlignedIs DEF FramingTypeOK

LEMMA FramedWrite ==
  ASSUME MessagesFit, Framed, Write PROVE Framed'
<1>1. PICK p \in First(sess)[conn] \cup Later[conn] :
        sent' = Append(sent, p) /\ wire' = wire \o Message(p)
  BY DEF Write
<1>2. /\ link = "open" /\ UNCHANGED <<conn, sess, arrived, link, sees, reader, want, got>>
  BY DEF Write
<1> DEFINE q == Unread
           m == Msg(conn, sess, p)
<1>3. p \in Sendable(conn, sess) /\ Message(p) = m
  BY DEF Sendable, Message, Msg
<1>4. Unread' = Append(q, p)
  <2>1. Unread' = Rest(sent', Len(got)')
    BY DEF Unread, Rest
  <2>2. Rest(Append(sent, p), Len(got)) = Append(Rest(sent, Len(got)), p)
    BY <1>3, FramedIs, RestAppend
  <2> QED
    BY <1>1, <1>2, <2>1, <2>2, FramedIs
<1> HIDE DEF q, m
<1>5. sent' \in Seq(Sendable(conn, sess)) /\ Len(sent') = Len(sent) + 1
  BY <1>1, <1>3, FramedIs, AppendProperties
<1>6. m \in Seq(OnWire)
  BY <1>3, FramedIs, MessageParts DEF Parts, m
<1>7. wire' \in Seq(OnWire) /\ Len(wire') >= Len(wire)
  <2>1. wire \o m \in Seq(OnWire) /\ Len(wire \o m) = Len(wire) + Len(m)
    BY <1>6, FramedIs, ConcatProperties
  <2> QED
    BY <1>1, <1>3, <1>6, <2>1, FramedIs, LenProperties
<1>8. FramingTypeOK'
  <2>1. FramingTypeOK /\ Len(got) <= Len(sent) + 1 /\ arrived \in 0 .. Len(wire')
    BY <1>7, FramedIs, LenProperties DEF Framed
  <2> QED
    BY <1>2, <1>5, <1>7, <2>1 DEF FramingTypeOK
<1>9. AlignedAt(conn, sess, reader, want, Append(q, p), wire \o m, link)
  <2>1. AlignedAt(conn, sess, reader, want, q, wire, link) /\ q \in Seq(Sendable(conn, sess))
    BY FramedIs DEF q
  <2>2. Append(q, p) # << >> /\ (q # << >> => Head(Append(q, p)) = Head(q))
    BY <1>3, <2>1, AppendProperties, HeadTailAppend
  <2>3. ASSUME reader \in {"magic", "length", "head", "body"}
        PROVE  Carries(OnWire, wire \o m, Ahead(conn, sess, reader, Append(q, p)), link)
    <3>1. /\ Carries(OnWire, wire, Ahead(conn, sess, reader, q), link)
          /\ reader \in {"length", "body"} => q # << >>
      BY <2>1, <2>3 DEF AlignedAt
    <3>2. Ahead(conn, sess, reader, q) \in Seq(OnWire)
      BY <2>1, <3>1, FramedIs, AheadType
    <3>3. Ahead(conn, sess, reader, Append(q, p)) = Ahead(conn, sess, reader, q) \o m
      BY <1>3, <2>1, <3>1, FramedIs, AheadMore DEF m
    <3> QED
      BY <1>2, <1>6, <3>1, <3>2, <3>3, FramedIs, CarriesMore
  <2> QED
    BY <2>1, <2>2, <2>3 DEF AlignedAt
<1>10. Aligned'
  <2>1. AlignedAt(conn', sess', reader', want', Unread', wire', link')
    BY <1>1, <1>2, <1>3, <1>4, <1>9
  <2> QED
    BY <2>1 DEF Aligned, AlignedAt, Waiting
<1> QED
  BY <1>8, <1>10 DEF Framed

\* Nothing is written, and no message read to its end.
LEMMA FramedStep ==
  ASSUME MessagesFit, Framed, UNCHANGED <<conn, sess, sent, got>>,
         wire' \in Seq(OnWire), arrived' \in 0 .. Len(wire'),
         link' \in {"open", "shut", "cut"}, want' \in Nat,
         reader' \in {"magic", "length", "head", "body", "done", "failed"},
         AlignedAt(conn, sess, reader', want', Unread, wire', link')
  PROVE  Framed'
<1>1. FramingTypeOK
  BY DEF Framed
<1>2. FramingTypeOK'
  BY <1>1 DEF FramingTypeOK
<1>3. Unread' = Unread
  BY DEF Unread
<1>4. AlignedAt(conn', sess', reader', want', Unread', wire', link')
  BY <1>3
<1>5. Aligned'
  BY <1>4 DEF Aligned, AlignedAt, Waiting
<1> QED
  BY <1>2, <1>5 DEF Framed

LEMMA FramedArrive ==
  ASSUME MessagesFit, Framed, Arrive PROVE Framed'
<1>1. /\ UNCHANGED <<conn, sess, sent, wire, link, sees, reader, want, got>>
      /\ arrived < Len(wire) /\ arrived' = arrived + 1
  BY DEF Arrive
<1>2. arrived' \in 0 .. Len(wire)
  BY <1>1, FramedIs
<1>3. FramingTypeOK /\ AlignedAt(conn, sess, reader, want, Unread, wire, link)
  BY FramedIs DEF Framed
<1> QED
  BY <1>1, <1>2, <1>3, FramedStep DEF FramingTypeOK

LEMMA FramedShut ==
  ASSUME MessagesFit, Framed, Shut PROVE Framed'
<1>1. /\ UNCHANGED <<conn, sess, sent, wire, arrived, sees, reader, want, got>>
      /\ link = "open" /\ link' = "shut"
  BY DEF Shut
<1>2. FramingTypeOK /\ AlignedAt(conn, sess, reader, want, Unread, wire, link)
  BY FramedIs DEF Framed
<1>3. AlignedAt(conn, sess, reader, want, Unread, wire, "shut")
  BY <1>1, <1>2 DEF AlignedAt, Carries
<1> QED
  BY <1>1, <1>2, <1>3, FramedStep DEF FramingTypeOK

LEMMA FramedCut ==
  ASSUME MessagesFit, Framed, Cut PROVE Framed'
<1>1. /\ UNCHANGED <<conn, sess, sent, sees, reader, want, got>>
      /\ link = "open" /\ link' = "cut" /\ arrived' \in {0, arrived}
      /\ wire' = SubSeq(wire, 1, arrived')
  BY DEF Cut
<1>2. FramingTypeOK /\ AlignedAt(conn, sess, reader, want, Unread, wire, link)
  BY FramedIs DEF Framed
<1>3. wire \in Seq(OnWire) /\ arrived' \in 0 .. Len(wire) /\ arrived' \in Nat
  BY <1>1, FramedIs
<1>4. wire' \in Seq(OnWire) /\ Len(wire') = arrived'
  <2>1. PICK a, b \in Seq(OnWire) : Splits(wire, arrived', a, b)
    BY <1>3, Split
  <2> QED
    BY <1>1, <2>1 DEF Splits
<1>5. AlignedAt(conn, sess, reader, want, Unread, wire', "cut")
  <2>1. ASSUME Carries(OnWire, wire, Ahead(conn, sess, reader, Unread), link)
        PROVE  Carries(OnWire, wire', Ahead(conn, sess, reader, Unread), "cut")
    BY <1>1, <1>3, <2>1, CarriesCut
  <2> QED
    BY <1>2, <2>1 DEF AlignedAt
<1>6. arrived' \in 0 .. Len(wire')
  BY <1>3, <1>4
<1> QED
  BY <1>1, <1>2, <1>4, <1>5, <1>6, FramedStep DEF FramingTypeOK

LEMMA FramedReadError ==
  ASSUME MessagesFit, Framed, ReadError PROVE Framed'
<1>1. UNCHANGED <<conn, sess, sent, wire, arrived, link, sees, want, got>> /\ reader' = "failed"
  BY DEF ReadError
<1>2. AlignedAt(conn, sess, "failed", want, Unread, wire, link) /\ FramingTypeOK
  BY DEF AlignedAt, Framed
<1> QED
  BY <1>1, <1>2, FramedStep DEF FramingTypeOK

LEMMA FramedUnchanged ==
  ASSUME MessagesFit, Framed, UNCHANGED vars PROVE Framed'
<1>1. FramingTypeOK /\ AlignedAt(conn, sess, reader, want, Unread, wire, link)
  BY FramedIs DEF Framed
<1> QED
  BY <1>1, FramedStep DEF FramingTypeOK, vars

\* Bytes that a reader waits for are of a message.
LEMMA SomethingAhead ==
  ASSUME MessagesFit, NEW c \in Kinds, NEW s \in session(SessionBytes),
         NEW q \in Seq(Sendable(c, s)), NEW r \in {"magic", "length", "head", "body"},
         NEW w \in Seq(OnWire), NEW l, r \in {"length", "body"} => q # << >>,
         Carries(OnWire, w, Ahead(c, s, r, q), l), Len(w) > 0
  PROVE  q # << >> /\ Takes(c, s, q)
<1>1. Len(w) <= Len(Ahead(c, s, r, q)) /\ Len(w) \in Nat
  BY CarriesLength, LenProperties
<1>2. ASSUME q = << >> PROVE FALSE
  <2>1. Ahead(c, s, r, q) = << >>
    BY <1>2, FlowEmpty DEF Ahead
  <2>2. Len(<< >>) = 0
    OBVIOUS
  <2> QED
    BY <1>1, <2>1, <2>2
<1> QED
  BY <1>2, TakesMessage

LEMMA FramedReadMagic ==
  ASSUME MessagesFit, Framed, ReadMagic PROVE Framed'
<1>1. /\ UNCHANGED <<conn, sess, sent, link, want, got>> /\ reader' \in {"length", "failed"}
      /\ reader = "magic" /\ arrived >= 2 /\ arrived' = arrived - 2
      /\ wire' = SubSeq(wire, 2 + 1, Len(wire))
  BY DEF ReadMagic, Consume
<1>2. /\ AlignedAt(conn, sess, reader, want, Unread, wire, link)
      /\ Unread \in Seq(Sendable(conn, sess)) /\ wire \in Seq(OnWire) /\ 2 \in 0 .. Len(wire)
      /\ arrived \in 0 .. Len(wire) /\ Len(wire) \in Nat
      /\ conn \in Kinds /\ sess \in session(SessionBytes)
  BY <1>1, FramedIs
<1> DEFINE q == Unread
           first == Header[conn]
           rest == Ahead(conn, sess, "length", q)
<1>3. Carries(OnWire, wire, Flow(conn, sess, q), link)
  BY <1>1, <1>2 DEF AlignedAt, Ahead
<1>4. q # << >> /\ Takes(conn, sess, q)
  <2>1. Ahead(conn, sess, "magic", q) = Flow(conn, sess, q)
    BY DEF Ahead
  <2>2. Len(wire) > 0
    BY <1>2
  <2> HIDE DEF q
  <2> QED
    BY <1>2, <1>3, <2>1, <2>2, SomethingAhead DEF q
<1>5. /\ Flow(conn, sess, q) = first \o rest /\ first \in Seq(OnWire) /\ rest \in Seq(OnWire)
      /\ Len(first) = 2
  BY <1>2, <1>4, HeaderIs DEF Takes
<1> HIDE DEF q, first, rest
<1>6. /\ wire' \in Seq(OnWire) /\ Len(wire') = Len(wire) - 2
      /\ Carries(OnWire, wire', rest, link)
  <2>1. Carries(OnWire, wire, first \o rest, link)
    BY <1>3, <1>5
  <2>2. Reads(OnWire, wire, 2, first, rest, link)
    BY <1>2, <1>5, <2>1, CarriesRead
  <2> QED
    BY <1>1, <2>2 DEF Reads
<1>7. AlignedAt(conn, sess, reader', want, Unread, wire', link)
  BY <1>1, <1>4, <1>6 DEF AlignedAt, rest, q
<1>8. arrived' \in 0 .. Len(wire')
  BY <1>1, <1>2, <1>6
<1>9. FramingTypeOK
  BY DEF Framed
<1> QED
  BY <1>1, <1>6, <1>7, <1>8, <1>9, FramedStep DEF FramingTypeOK

LEMMA FramedReadLength ==
  ASSUME MessagesFit, Framed, ReadLength PROVE Framed'
<1>1. /\ UNCHANGED <<conn, sess, sent, link, sees, got>> /\ reader = "length" /\ reader' = "body"
      /\ arrived >= Digits /\ arrived' = arrived - Digits
      /\ wire' = SubSeq(wire, Digits + 1, Len(wire)) /\ want' = stoul(SubSeq(wire, 1, Digits))
  BY DEF ReadLength, Consume
<1>2. /\ AlignedAt(conn, sess, reader, want, Unread, wire, link)
      /\ Unread \in Seq(Sendable(conn, sess)) /\ wire \in Seq(OnWire) /\ Digits \in 0 .. Len(wire)
      /\ arrived \in 0 .. Len(wire) /\ Len(wire) \in Nat
      /\ conn \in Kinds /\ sess \in session(SessionBytes)
  BY <1>1, FramedIs, NumbersAre
<1> DEFINE q == Unread
           first == LengthField(sess, Head(q))
           rest == Ahead(conn, sess, "body", q)
<1>3. Carries(OnWire, wire, Ahead(conn, sess, "length", q), link) /\ q # << >>
  BY <1>1, <1>2 DEF AlignedAt
<1>4. Takes(conn, sess, q)
  <2> HIDE DEF q
  <2> QED
    BY <1>2, <1>3, TakesMessage DEF q
<1>5. /\ Ahead(conn, sess, "length", q) = first \o rest
      /\ first \in Seq(OnWire) /\ rest \in Seq(OnWire) /\ Len(first) = Digits
      /\ stoul(first) = Len(Body(sess, Head(q))) /\ Len(Body(sess, Head(q))) \in Nat
  BY <1>4 DEF Takes, Parts
<1> HIDE DEF q, first, rest
<1>6. /\ SubSeq(wire, 1, Digits) = first
      /\ wire' \in Seq(OnWire) /\ Len(wire') = Len(wire) - Digits
      /\ Carries(OnWire, wire', rest, link)
  <2>1. Carries(OnWire, wire, first \o rest, link)
    BY <1>3, <1>5
  <2>2. Reads(OnWire, wire, Digits, first, rest, link)
    BY <1>2, <1>5, <2>1, CarriesRead
  <2> QED
    BY <1>1, <2>2 DEF Reads
<1>7. want' = Len(Body(sess, Head(q))) /\ want' \in Nat
  BY <1>1, <1>5, <1>6
<1>8. AlignedAt(conn, sess, reader', want', Unread, wire', link)
  BY <1>1, <1>3, <1>6, <1>7 DEF AlignedAt, rest, q
<1>9. arrived' \in 0 .. Len(wire')
  BY <1>1, <1>2, <1>6, NumbersAre
<1>10. FramingTypeOK
  BY DEF Framed
<1> QED
  BY <1>1, <1>6, <1>7, <1>8, <1>9, <1>10, FramedStep DEF FramingTypeOK

\* The second of the two fields at the beginning of a stream.
LEMMA SecondField ==
  ASSUME NEW W, NEW w \in Seq(W), NEW a \in Seq(W), NEW f \in Seq(W),
         NEW n \in 0 .. Len(w), n = Len(a) + Len(f), SubSeq(w, 1, n) = a \o f
  PROVE  SubSeq(w, Len(a) + 1, n) = f
<1>1. PICK c, b \in Seq(W) : Splits(w, n, c, b)
  BY Split
<1>2. Len(a) \in Nat /\ Len(f) \in Nat /\ Len(w) \in Nat
  BY LenProperties
<1>3. c = a \o f /\ c \o b = w /\ Len(c) = n
  BY <1>1 DEF Splits
<1>4. substr(c \o b, Len(a), Len(f)) = substr(c, Len(a), Len(f))
  <2>1. Len(a) + Len(f) <= Len(c)
    BY <1>2, <1>3
  <2> QED
    BY <1>2, <2>1, SubstrPrefix, Zenon, SMTT(30)
<1>5. substr(a \o f, Len(a), Len(f)) = f
  BY <1>2, SubstrLast
<1>6. substr(w, Len(a), Len(f)) = SubSeq(w, Len(a) + 1, n)
  <2>1. (IF Len(a) + Len(f) < Len(w) THEN Len(a) + Len(f) ELSE Len(w)) = n
    BY <1>2
  <2> QED
    BY <2>1, Zenon DEF substr
<1> QED
  BY <1>3, <1>4, <1>5, <1>6

LEMMA FramedReadHead ==
  ASSUME MessagesFit, Framed, ReadHead PROVE Framed'
<1> DEFINE n == 2 + Digits
<1>1. /\ UNCHANGED <<conn, sess, sent, link, sees, got>> /\ reader = "head"
      /\ arrived >= n /\ arrived' = arrived - n /\ wire' = SubSeq(wire, n + 1, Len(wire))
      /\ \/ reader' = "failed" /\ want' = want
         \/ reader' = "body" /\ want' = stoul(SubSeq(wire, 3, n))
  BY DEF ReadHead, Consume
<1>2. /\ AlignedAt(conn, sess, reader, want, Unread, wire, link)
      /\ Unread \in Seq(Sendable(conn, sess)) /\ wire \in Seq(OnWire) /\ n \in 0 .. Len(wire)
      /\ arrived \in 0 .. Len(wire) /\ Len(wire) \in Nat /\ Len(wire) > 0
      /\ conn \in Kinds /\ sess \in session(SessionBytes)
  BY <1>1, FramedIs, NumbersAre
<1> DEFINE q == Unread
           field == LengthField(sess, Head(q))
           head == Header[conn]
           first == head \o field
           rest == Ahead(conn, sess, "body", q)
<1>3. Carries(OnWire, wire, Flow(conn, sess, q), link)
  BY <1>1, <1>2 DEF AlignedAt, Ahead
<1>4. q # << >> /\ Takes(conn, sess, q)
  <2>1. Ahead(conn, sess, "magic", q) = Flow(conn, sess, q)
    BY DEF Ahead
  <2> HIDE DEF q
  <2> QED
    BY <1>2, <1>3, <2>1, SomethingAhead DEF q
<1>5. /\ Flow(conn, sess, q) = first \o rest
      /\ first \in Seq(OnWire) /\ rest \in Seq(OnWire) /\ Len(first) = n
      /\ head \in Seq(OnWire) /\ Len(head) = 2 /\ field \in Seq(OnWire) /\ Len(field) = Digits
      /\ stoul(field) = Len(Body(sess, Head(q))) /\ Len(Body(sess, Head(q))) \in Nat
  BY <1>4 DEF Takes, Parts
<1> HIDE DEF q, first, rest, field, head, n
<1>6. /\ SubSeq(wire, 1, n) = first
      /\ wire' \in Seq(OnWire) /\ Len(wire') = Len(wire) - n
      /\ Carries(OnWire, wire', rest, link)
  <2>1. Carries(OnWire, wire, first \o rest, link)
    BY <1>3, <1>5
  <2>2. Reads(OnWire, wire, n, first, rest, link)
    BY <1>2, <1>5, <2>1, CarriesRead
  <2> QED
    BY <1>1, <2>2 DEF Reads
<1>7. SubSeq(wire, 3, n) = field
  <2>1. n = Len(head) + Len(field) /\ SubSeq(wire, 1, n) = head \o field
    BY <1>5, <1>6 DEF n, first
  <2>2. SubSeq(wire, Len(head) + 1, n) = field
    <3>1. /\ wire \in Seq(OnWire) /\ n \in 0 .. Len(wire)
          /\ head \in Seq(OnWire) /\ field \in Seq(OnWire)
      BY <1>2, <1>5
    <3> QED
      BY <2>1, <3>1, SecondField
  <2>3. Len(head) + 1 = 3
    BY <1>5
  <2> QED
    BY <2>2, <2>3
<1>8. want' \in Nat /\ (reader' = "body" => want' = Len(Body(sess, Head(q))))
  <2>1. want \in Nat
    BY DEF Framed, FramingTypeOK
  <2> QED
    BY <1>1, <1>5, <1>7, <2>1
<1>9. AlignedAt(conn, sess, reader', want', Unread, wire', link)
  BY <1>1, <1>4, <1>6, <1>8 DEF AlignedAt, rest, q
<1>10. arrived' \in 0 .. Len(wire')
  BY <1>1, <1>2, <1>6, NumbersAre DEF n
<1>11. FramingTypeOK
  BY DEF Framed
<1> QED
  BY <1>1, <1>6, <1>8, <1>9, <1>10, <1>11, FramedStep DEF FramingTypeOK

\* What a read of a body finds.
BodyRead(q) ==
  /\ q # << >> /\ Takes(conn, sess, q)
  /\ SubSeq(wire, 1, want) = Body(sess, Head(q))
  /\ wire' \in Seq(OnWire) /\ Len(wire') = Len(wire) - want
  /\ want \in Nat /\ arrived' \in 0 .. Len(wire')
  /\ Carries(OnWire, wire', Flow(conn, sess, Tail(q)), link)

LEMMA BodyIsRead ==
  ASSUME MessagesFit, Framed, Consume("body", want) PROVE BodyRead(Unread)
<1>1. /\ reader = "body" /\ arrived >= want /\ arrived' = arrived - want
      /\ wire' = SubSeq(wire, want + 1, Len(wire))
  BY DEF Consume
<1>2. want \in Nat
  BY DEF Framed, FramingTypeOK
<1>3. /\ AlignedAt(conn, sess, reader, want, Unread, wire, link)
      /\ Unread \in Seq(Sendable(conn, sess)) /\ wire \in Seq(OnWire) /\ want \in 0 .. Len(wire)
      /\ arrived \in 0 .. Len(wire) /\ Len(wire) \in Nat
      /\ conn \in Kinds /\ sess \in session(SessionBytes)
  BY <1>1, <1>2, FramedIs
<1> DEFINE q == Unread
           first == Body(sess, Head(q))
           rest == Flow(conn, sess, Tail(q))
<1>4. Carries(OnWire, wire, Ahead(conn, sess, "body", q), link) /\ q # << >> /\ want = Len(first)
  BY <1>1, <1>3 DEF AlignedAt
<1>5. Takes(conn, sess, q)
  <2> HIDE DEF q
  <2> QED
    BY <1>3, <1>4, TakesMessage DEF q
<1>6. Ahead(conn, sess, "body", q) = first \o rest /\ first \in Seq(OnWire) /\ rest \in Seq(OnWire)
  BY <1>5 DEF Takes, Parts
<1> HIDE DEF q, first, rest
<1>7. Reads(OnWire, wire, want, first, rest, link)
  <2>1. Carries(OnWire, wire, first \o rest, link)
    BY <1>4, <1>6
  <2> QED
    BY <1>3, <1>4, <1>6, <2>1, CarriesRead
<1>8. /\ SubSeq(wire, 1, want) = first /\ wire' \in Seq(OnWire)
      /\ Len(wire') = Len(wire) - want /\ Carries(OnWire, wire', rest, link)
  BY <1>1, <1>7 DEF Reads
<1>9. arrived' \in 0 .. Len(wire')
  BY <1>1, <1>2, <1>3, <1>8
<1> QED
  BY <1>2, <1>4, <1>5, <1>8, <1>9 DEF BodyRead, q, first, rest

\* A message less.
LEMMA UnreadNext ==
  ASSUME MessagesFit, Framed, Unread # << >>, NEW x, sent' = sent, got' = Append(got, x)
  PROVE  /\ got' \in Seq(Range(got')) /\ Len(got') = Len(got) + 1 /\ Len(got') <= Len(sent)
         /\ (\A i \in 1 .. Len(got) : got'[i] = got[i]) /\ got'[Len(got) + 1] = x
         /\ Head(Unread) = sent[Len(got) + 1] /\ Unread' = Tail(Unread)
<1>1. /\ Len(got) \in 0 .. Len(sent) /\ sent \in Seq(Sendable(conn, sess))
      /\ Unread = Rest(sent, Len(got)) /\ got \in Seq(Range(got))
      /\ Len(got) \in Nat /\ Len(sent) \in Nat
  BY FramedIs
<1> DEFINE S == Range(got) \cup {x}
<1>2. got \in Seq(S) /\ x \in S
  <2>1. Range(got) \subseteq S
    OBVIOUS
  <2> HIDE DEF S
  <2>2. got \in Seq(S)
    BY <1>1, <2>1, SeqMonotonic
  <2> QED
    BY <2>2 DEF S
<1> HIDE DEF S
<1>3. /\ got' \in Seq(S) /\ Len(got') = Len(got) + 1
      /\ (\A i \in 1 .. Len(got) : got'[i] = got[i]) /\ got'[Len(got) + 1] = x
  BY <1>2, AppendProperties
<1>4. got' \in Seq(Range(got'))
  <2>1. got' \in [1 .. Len(got') -> Range(got')] /\ Len(got') \in Nat
    <3>1. DOMAIN got' = 1 .. Len(got') /\ Len(got') \in Nat /\ got' \in [1 .. Len(got') -> S]
      BY <1>3, LenProperties
    <3> QED
      BY <3>1 DEF Range
  <2> QED
    BY <2>1, FunctionIsSeq
<1>5. /\ Len(got) + 1 \in 1 .. Len(sent) /\ Head(Rest(sent, Len(got))) = sent[Len(got) + 1]
      /\ Tail(Rest(sent, Len(got))) = Rest(sent, Len(got) + 1)
  BY <1>1, RestNext
<1>6. Unread' = Tail(Unread)
  <2>1. Unread' = Rest(sent', Len(got'))
    BY DEF Unread, Rest
  <2> QED
    BY <1>1, <1>3, <1>5, <2>1
<1> QED
  BY <1>1, <1>3, <1>4, <1>5, <1>6

LEMMA FramedReadBody ==
  ASSUME MessagesFit, Framed, ReadBody PROVE Framed'
<1>1. PICK x : got' = Append(got, x)
  BY DEF ReadBody
<1>2. /\ UNCHANGED <<conn, sess, sent, link, sees, want>> /\ Consume("body", want)
      /\ reader' \in {"failed", "done", "head", "magic"}
  BY DEF ReadBody
<1>3. BodyRead(Unread)
  BY <1>2, BodyIsRead
<1>4. Unread # << >>
  BY <1>3 DEF BodyRead
<1>5. got' \in Seq(Range(got')) /\ Len(got') <= Len(sent) /\ Unread' = Tail(Unread)
  BY <1>1, <1>2, <1>4, UnreadNext
<1>6. FramingTypeOK'
  <2>1. FramingTypeOK
    BY DEF Framed
  <2> QED
    BY <1>2, <1>3, <1>5, <2>1 DEF FramingTypeOK, BodyRead
<1>7. AlignedAt(conn, sess, reader', want, Tail(Unread), wire', link)
  <2>1. reader' \in {"head", "magic"} =>
          Ahead(conn, sess, reader', Tail(Unread)) = Flow(conn, sess, Tail(Unread))
    BY DEF Ahead
  <2>2. Carries(OnWire, wire', Flow(conn, sess, Tail(Unread)), link)
    BY <1>3 DEF BodyRead
  <2> QED
    BY <1>2, <2>1, <2>2 DEF AlignedAt
<1>8. Aligned'
  <2>1. AlignedAt(conn', sess', reader', want', Unread', wire', link')
    BY <1>2, <1>5, <1>7
  <2> QED
    BY <2>1 DEF Aligned, AlignedAt, Waiting
<1> QED
  BY <1>6, <1>8 DEF Framed

LEMMA FramedNext ==
  ASSUME MessagesFit, Framed, [Next]_vars PROVE Framed'
<1>1. CASE Write
  BY <1>1, FramedWrite
<1>2. CASE Arrive
  BY <1>2, FramedArrive
<1>3. CASE Shut
  BY <1>3, FramedShut
<1>4. CASE Cut
  BY <1>4, FramedCut
<1>5. CASE Read
  BY <1>5, FramedReadMagic, FramedReadLength, FramedReadHead, FramedReadBody, FramedReadError
     DEF Read
<1>6. CASE Idle \/ UNCHANGED vars
  BY <1>6, FramedUnchanged DEF Idle
<1> QED
  BY <1>1, <1>2, <1>3, <1>4, <1>5, <1>6 DEF Next

LEMMA AlwaysFramed ==
  MessagesFit => (Spec => []Framed)
<1> SUFFICES ASSUME MessagesFit PROVE Spec => []Framed
  OBVIOUS
<1>1. Init => Framed
  BY FramedInit
<1>2. Framed /\ [Next]_vars => Framed'
  BY FramedNext
<1> QED
  BY <1>1, <1>2, PTL DEF Spec

LEMMA FramedInStep ==
  ASSUME MessagesFit, Framed PROVE InStep
<1> SUFFICES ASSUME reader \in {"magic", "head"}, link # "cut"
             PROVE  wire = FlattenSeq([i \in DOMAIN Unread |-> Message(Unread[i])])
  BY DEF InStep
<1>1. /\ AlignedAt(conn, sess, reader, want, Unread, wire, link) /\ wire \in Seq(OnWire)
  BY FramedIs
<1>2. Carries(OnWire, wire, Flow(conn, sess, Unread), link)
  BY <1>1 DEF AlignedAt, Ahead
<1>3. wire = Flow(conn, sess, Unread)
  BY <1>1, <1>2, CarriesAll
<1> QED
  BY <1>3 DEF Flow, Msg, Message

(* Between two messages the bytes on the stream are those of the messages  *)
(* that were written and not read, for texts of any bytes and any number   *)
(* of messages: what a reader takes after the length field of build_msg is *)
(* what the builder put there.                                             *)
THEOREM ReadersStayInStep ==
  MessagesFit => (Spec => []InStep)
<1> SUFFICES ASSUME MessagesFit PROVE Spec => []InStep
  OBVIOUS
<1>1. Spec => []Framed
  BY AlwaysFramed
<1>2. Framed => InStep
  BY FramedInStep
<1> QED
  BY <1>1, <1>2, PTL
-----------------------------------------------------------------------------
(* A stream is a connection of module Network                              *)

(* And every order is an uint32_t, as file_transfer_build takes it, and no *)
(* hello is answered with the version, which client_hello_verify would not *)
(* understand.                                                             *)
FieldsFit ==
  /\ MessagesFit
  /\ Orders \subseteq 0 .. Power[Digits] - 1
  /\ Statuses \subseteq {0, 1}

\* The next packet is one of its connection.
LEMMA NextIsSent ==
  ASSUME MessagesFit, Framed, Received, Unread # << >>
  PROVE  /\ Head(Unread) = sent[Len(got) + 1] /\ Len(got) \in Nat
         /\ got = << >> => Head(Unread) \in First(sess)[conn]
         /\ got # << >> => Head(Unread) \in Later[conn] /\ got[1] = sent[1]
                           /\ sent[1] \in First(sess)[conn]
                           /\ (conn = "reply" => sent[1].status = 0)
<1>1. /\ Len(got) \in 0 .. Len(sent) /\ sent \in Seq(Sendable(conn, sess))
      /\ Unread = Rest(sent, Len(got)) /\ got \in Seq(Range(got))
      /\ Len(got) \in Nat /\ Len(sent) \in Nat
  BY FramedIs
<1>2. Len(got) + 1 \in 1 .. Len(sent) /\ Head(Unread) = sent[Len(got) + 1]
  BY <1>1, RestNext
<1>3. SentInOrder /\ GotIsSent
  BY DEF Received
<1>4. sent # << >> /\ sent[1] \in First(sess)[conn]
  <2>1. sent # << >>
    BY <1>1, <1>2, EmptySeq
  <2> QED
    BY <1>3, <2>1 DEF SentInOrder
<1>5. CASE got = << >>
  <2>1. Len(got) = 0
    BY <1>5
  <2> QED
    BY <1>1, <1>2, <1>4, <1>5, <2>1
<1>6. CASE got # << >>
  <2>1. Len(got) >= 1
    BY <1>1, <1>6, EmptySeq
  <2>2. Head(Unread) \in Later[conn]
    BY <1>1, <1>2, <1>3, <2>1 DEF SentInOrder
  <2>3. got[1] = sent[1]
    BY <1>1, <1>3, <2>1 DEF GotIsSent
  <2>4. conn = "reply" => sent[1].status = 0
    BY <1>1, <1>2, <1>3, <2>1 DEF SentInOrder
  <2> QED
    BY <1>1, <1>2, <1>4, <1>6, <2>2, <2>3, <2>4
<1> QED
  BY <1>5, <1>6

\* The packet that a reader makes of a body is the one it was built from.
LEMMA PacketIsRead ==
  ASSUME FieldsFit, Framed, Received, Unread # << >>, sees = conn
  PROVE  Packet(Body(sess, Head(Unread))) = Head(Unread)
<1> DEFINE p == Head(Unread)
           body == Body(sess, p)
<1>0. MessagesFit
  BY DEF FieldsFit
<1>1. /\ conn \in Kinds /\ sess \in session(SessionBytes)
      /\ conn \in {"negotiation", "transfer", "reply", "ack"}
  BY <1>0, FramedIs, FramingAssumption
<1>2. /\ got = << >> => p \in First(sess)[conn]
      /\ got # << >> => p \in Later[conn] /\ got[1] = sent[1] /\ sent[1] \in First(sess)[conn]
                        /\ (conn = "reply" => sent[1].status = 0)
  BY <1>0, NextIsSent
<1> HIDE DEF p
<1>3. CASE got = << >>
  <2>1. CASE conn = "negotiation"
    <3>1. p = [kind |-> "hello", status |-> server_hello_verify(body)]
      BY <1>0, <1>1, <1>2, <1>3, <2>1, HelloBody
    <3>2. Packet(body) = [kind |-> "hello", status |-> server_hello_verify(body)]
      BY <1>3, <2>1, Zenon DEF Packet
    <3> QED
      BY <3>1, <3>2, Zenon DEF p
  <2>2. CASE conn = "transfer"
    <3>1. p = [kind |-> "init", session |-> file_transfer_init_read(body)]
      BY <1>0, <1>1, <1>2, <1>3, <2>2, InitBody
    <3>2. Packet(body) = [kind |-> "init", session |-> file_transfer_init_read(body)]
      BY <1>3, <2>2 DEF Packet
    <3> QED
      BY <3>1, <3>2, Zenon DEF p
  <2>3. CASE conn = "reply"
    <3>1. p = client_hello_verify(body)
      <4>1. p.status \in Statuses /\ (p.status # 2 => p = client_hello_verify(body))
        BY <1>0, <1>1, <1>2, <1>3, <2>3, ClientHelloBody
      <4> QED
        BY <4>1 DEF FieldsFit
    <3>2. Packet(body) = client_hello_verify(body)
      BY <1>3, <2>3 DEF Packet
    <3> QED
      BY <3>1, <3>2, Zenon DEF p
  <2>4. CASE conn = "ack"
    <3>1. p = [kind |-> "init_reply", status |-> file_transfer_init_confirm(body)]
      BY <1>0, <1>1, <1>2, <1>3, <2>4, InitReplyBody
    <3>2. Packet(body) = [kind |-> "init_reply", status |-> file_transfer_init_confirm(body)]
      BY <1>3, <2>4 DEF Packet
    <3> QED
      BY <3>1, <3>2, Zenon DEF p
  <2> QED
    BY <1>1, <2>1, <2>2, <2>3, <2>4
<1>4. CASE got # << >>
  <2>1. CASE conn = "negotiation"
    <3>1. p = file_negotiation_verify(body, sess)
      BY <1>0, <1>1, <1>2, <1>4, <2>1, NegotiationBody
    <3>2. Packet(body) = file_negotiation_verify(body, sess)
      BY <1>4, <2>1 DEF Packet
    <3> QED
      BY <3>1, <3>2, Zenon DEF p
  <2>2. CASE conn = "transfer"
    <3>1. p = file_transfer_read(body, sess)
      <4>1. p.order \in Orders \cup {0} /\ (p.order < Power[Digits] => p = file_transfer_read(body, sess))
        BY <1>0, <1>1, <1>2, <1>4, <2>2, DataBody
      <4> DEFINE o == p.order
      <4>2. o \in Orders \cup {0}
        BY <4>1
      <4> HIDE DEF o
      <4>3. o \in 0 .. Power[Digits] - 1 /\ Power[Digits] \in Nat
        BY <4>2, NumbersAre DEF FieldsFit
      <4>4. o < Power[Digits]
        BY <4>3
      <4> QED
        BY <4>1, <4>4, Zenon DEF o
    <3>2. Packet(body) = file_transfer_read(body, sess)
      BY <1>4, <2>2 DEF Packet
    <3> QED
      BY <3>1, <3>2, Zenon DEF p
  <2>3. CASE conn = "reply"
    <3>1. p = file_negotiation_finish(body, sess)
      BY <1>0, <1>1, <1>2, <1>4, <2>3, ReplyBody
    <3>2. got[1].session = sess
      BY <1>0, <1>1, <1>2, <1>4, <2>3, ClientHelloBody
    <3>3. Packet(body) = file_negotiation_finish(body, got[1].session)
      BY <1>4, <2>3 DEF Packet
    <3> QED
      BY <3>1, <3>2, <3>3, Zenon DEF p
  <2>4. CASE conn = "ack"
    <3>1. p = file_transfer_confirm(body, sess)
      BY <1>0, <1>1, <1>2, <1>4, <2>4, ReceiveBody
    <3>2. Packet(body) = file_transfer_confirm(body, sess)
      BY <1>4, <2>4 DEF Packet
    <3> QED
      BY <3>1, <3>2, Zenon DEF p
  <2> QED
    BY <1>1, <2>1, <2>2, <2>3, <2>4
<1> QED
  BY <1>3, <1>4

(* What the invariant says of the reader's knowledge.                      *)
Known == Framed /\ Received

LEMMA KnownInit ==
  ASSUME FieldsFit, Init PROVE Known
<1>1. Framed
  BY FramedInit DEF FieldsFit
<1>2. /\ sent = << >> /\ got = << >> /\ reader = "magic"
      /\ sees = IF conn \in FromClient THEN "unknown" ELSE conn
  BY DEF Init
<1>3. Received
  BY <1>2 DEF Received, SentInOrder, Recognized, GotIsSent
<1> QED
  BY <1>1, <1>3 DEF Known

\* The reader's own steps change neither what was sent nor what was read.
LEMMA ReceivedStays ==
  ASSUME Received, UNCHANGED <<conn, sess, sent, got>>,
         \/ sees' = conn
         \/ sees' = sees /\ reader' \in {reader, "failed"}
  PROVE  Received'
BY DEF Received, SentInOrder, Recognized, GotIsSent

LEMMA ReceivedWrite ==
  ASSUME FieldsFit, Known, Write PROVE Received'
<1>1. PICK p \in First(sess)[conn] \cup Later[conn] : Follows(p) /\ sent' = Append(sent, p)
  BY DEF Write
<1>2. UNCHANGED <<conn, sess, sees, reader, got>>
  BY DEF Write
<1>3. /\ Len(sent) \in Nat /\ Len(got) \in 0 .. Len(sent)
      /\ sent \in Seq(Sendable(conn, sess)) /\ p \in Sendable(conn, sess)
  BY FramedIs DEF Known, FieldsFit, Sendable
<1>4. /\ Len(sent') = Len(sent) + 1 /\ (\A i \in 1 .. Len(sent) : sent'[i] = sent[i])
      /\ sent'[Len(sent) + 1] = p
  BY <1>1, <1>3, AppendProperties
<1>5. SentInOrder /\ Recognized /\ GotIsSent
  BY DEF Known, Received
<1>6. SentInOrder'
  <2>1. CASE sent = << >>
    <3>1. Len(sent) = 0 /\ p \in First(sess)[conn]
      BY <1>1, <2>1 DEF Follows
    <3>2. Len(sent') = 1 /\ sent'[1] = p
      BY <1>4, <3>1
    <3> QED
      BY <1>2, <3>1, <3>2 DEF SentInOrder
  <2>2. CASE sent # << >>
    <3>1. Len(sent) >= 1 /\ sent'[1] = sent[1]
      BY <1>3, <1>4, <2>2, EmptySeq
    <3>2. p \in Later[conn] /\ (conn = "reply" => sent[1].status = 0)
      BY <1>1, <2>2 DEF Follows
    <3>3. ASSUME NEW i \in 2 .. Len(sent') PROVE sent'[i] \in Later[conn]
      <4>1. i = Len(sent) + 1 \/ i \in 2 .. Len(sent)
        BY <1>3, <1>4
      <4>2. CASE i = Len(sent) + 1
        BY <1>4, <3>2, <4>2
      <4>3. CASE i \in 2 .. Len(sent)
        <5>1. i \in 1 .. Len(sent)
          BY <4>3
        <5> QED
          BY <1>4, <1>5, <4>3, <5>1 DEF SentInOrder
      <4> QED
        BY <4>1, <4>2, <4>3
    <3> QED
      BY <1>2, <1>5, <2>2, <3>1, <3>2, <3>3 DEF SentInOrder
  <2> QED
    BY <2>1, <2>2
<1>7. GotIsSent'
  <2>1. \A i \in 1 .. Len(got) : i \in 1 .. Len(sent)
    BY <1>3
  <2> QED
    BY <1>2, <1>4, <1>5, <2>1 DEF GotIsSent
<1>8. Recognized'
  BY <1>2, <1>5 DEF Recognized
<1> QED
  BY <1>6, <1>7, <1>8 DEF Received

\* The next two bytes are the header of the connection.
LEMMA HeaderIsNext ==
  ASSUME MessagesFit, Framed, reader \in {"magic", "head"}, arrived >= 2
  PROVE  SubSeq(wire, 1, 2) = Header[conn]
<1>1. /\ AlignedAt(conn, sess, reader, want, Unread, wire, link)
      /\ Unread \in Seq(Sendable(conn, sess)) /\ wire \in Seq(OnWire) /\ 2 \in 0 .. Len(wire)
      /\ arrived \in 0 .. Len(wire) /\ Len(wire) \in Nat /\ Len(wire) > 0
      /\ conn \in Kinds /\ sess \in session(SessionBytes)
  BY FramedIs
<1> DEFINE q == Unread
           first == Header[conn]
           rest == Ahead(conn, sess, "length", q)
<1>2. Carries(OnWire, wire, Flow(conn, sess, q), link)
  BY <1>1 DEF AlignedAt, Ahead
<1>3. q # << >> /\ Takes(conn, sess, q)
  <2>1. Ahead(conn, sess, "magic", q) = Flow(conn, sess, q)
    BY DEF Ahead
  <2> HIDE DEF q
  <2> QED
    BY <1>1, <1>2, <2>1, SomethingAhead DEF q
<1>4. /\ Flow(conn, sess, q) = first \o rest /\ first \in Seq(OnWire) /\ rest \in Seq(OnWire)
      /\ Len(first) = 2
  BY <1>1, <1>3, HeaderIs DEF Takes
<1> HIDE DEF q, first, rest
<1>5. Carries(OnWire, wire, first \o rest, link)
  BY <1>2, <1>4
<1>6. Reads(OnWire, wire, 2, first, rest, link)
  BY <1>1, <1>4, <1>5, CarriesRead
<1> QED
  BY <1>6 DEF Reads, first

\* The header tells the two kinds of connection of a client apart.
LEMMA MagicIsRead ==
  ASSUME FieldsFit, Known, ReadMagic PROVE reader' = "length" /\ sees' = conn
<1>0. MessagesFit /\ Framed /\ Received
  BY DEF FieldsFit, Known
<1>1. reader = "magic" /\ arrived >= 2
  BY DEF ReadMagic, Consume
<1>2. conn \in Kinds
  BY <1>0, <1>1, FramedIs
<1>3. SubSeq(wire, 1, 2) = Header[conn]
  BY <1>0, <1>1, HeaderIsNext
<1> DEFINE kinds == {k \in IF sees = "unknown" THEN FromClient ELSE {sees} :
                       Header[k] = SubSeq(wire, 1, 2)}
<1>4. kinds = {conn}
  <2>1. CASE sees = conn
    <3>1. conn # "unknown"
      BY <1>2, FramingAssumption
    <3> QED
      BY <1>3, <2>1, <3>1
  <2>2. CASE sees # conn
    <3>1. sees = "unknown" /\ conn \in FromClient
      BY <1>0, <2>2 DEF Received, Recognized
    <3>2. MAGIC_HEADER # MAGIC_HEADER_TRANSFER
      BY DEF MAGIC_HEADER, MAGIC_HEADER_TRANSFER
    <3>3. /\ Header["negotiation"] = MAGIC_HEADER
          /\ Header["transfer"] = MAGIC_HEADER_TRANSFER
      BY DEF Header
    <3>4. \A k \in FromClient : Header[k] = Header[conn] => k = conn
      BY <3>1, <3>2, <3>3 DEF FromClient
    <3> QED
      BY <1>3, <3>1, <3>4
  <2> QED
    BY <2>1, <2>2
<1>5. IF kinds = {} THEN reader' = "failed" /\ UNCHANGED sees
      ELSE reader' = "length" /\ sees' \in kinds
  BY DEF ReadMagic
<1> QED
  BY <1>4, <1>5

\* The reader knows what it reads.
LEMMA Knows ==
  ASSUME Known, reader \in {"length", "head", "body"} PROVE sees = conn
BY DEF Known, Received, Recognized

LEMMA HeadIsRead ==
  ASSUME FieldsFit, Known, ReadHead PROVE reader' = "body"
<1>1. /\ reader = "head" /\ arrived >= 2 + Digits
      /\ SubSeq(wire, 1, 2) = Header[sees] => reader' = "body"
  BY DEF ReadHead, Consume
<1>2. arrived >= 2
  <2>1. arrived \in Nat
    BY FramedIs DEF FieldsFit, Known
  <2> QED
    BY <1>1, <2>1, NumbersAre
<1>3. SubSeq(wire, 1, 2) = Header[conn]
  BY <1>1, <1>2, HeaderIsNext DEF FieldsFit, Known
<1> QED
  BY <1>1, <1>3, Knows

LEMMA PacketTaken ==
  ASSUME FieldsFit, Known, ReadBody
  PROVE  /\ Unread # << >> /\ got' = Append(got, Head(Unread)) /\ Unread' = Tail(Unread)
         /\ Head(Unread) = sent[Len(got) + 1] /\ Len(got) \in Nat /\ Len(got') = Len(got) + 1
         /\ (\A i \in 1 .. Len(got) : got'[i] = got[i]) /\ got'[Len(got) + 1] = Head(Unread)
<1>0. MessagesFit /\ Framed /\ Received
  BY DEF FieldsFit, Known
<1>1. Consume("body", want) /\ got' = Append(got, Packet(SubSeq(wire, 1, want))) /\ sent' = sent
  BY DEF ReadBody
<1>2. BodyRead(Unread)
  BY <1>0, <1>1, BodyIsRead
<1>3. Unread # << >> /\ SubSeq(wire, 1, want) = Body(sess, Head(Unread))
  BY <1>2 DEF BodyRead
<1>4. sees = conn
  BY <1>1, Knows DEF Consume
<1>5. Packet(Body(sess, Head(Unread))) = Head(Unread)
  BY <1>0, <1>3, <1>4, PacketIsRead
<1>6. got' = Append(got, Head(Unread))
  BY <1>1, <1>3, <1>5
<1>7. PICK x : x = Head(Unread)
  OBVIOUS
<1>8. /\ Len(got') = Len(got) + 1 /\ (\A i \in 1 .. Len(got) : got'[i] = got[i])
      /\ got'[Len(got) + 1] = x /\ Head(Unread) = sent[Len(got) + 1] /\ Unread' = Tail(Unread)
  BY <1>0, <1>1, <1>3, <1>6, <1>7, UnreadNext
<1>9. Len(got) \in Nat
  BY <1>0, FramedIs
<1> QED
  BY <1>3, <1>6, <1>7, <1>8, <1>9

LEMMA ReceivedReadBody ==
  ASSUME FieldsFit, Known, ReadBody PROVE Received'
<1>1. UNCHANGED <<conn, sess, sent, sees>> /\ reader = "body"
  BY DEF ReadBody, Consume
<1>2. sees = conn
  BY <1>1, Knows
<1>3. SentInOrder' /\ Recognized'
  BY <1>1, <1>2 DEF Known, Received, SentInOrder, Recognized
<1>4. GotIsSent'
  <2>1. /\ Len(got) \in Nat /\ Len(got') = Len(got) + 1
        /\ (\A i \in 1 .. Len(got) : got'[i] = got[i]) /\ got'[Len(got) + 1] = sent[Len(got) + 1]
    BY PacketTaken
  <2>2. \A i \in 1 .. Len(got) : got[i] = sent[i]
    BY DEF Known, Received, GotIsSent
  <2> SUFFICES ASSUME NEW i \in 1 .. Len(got') PROVE got'[i] = sent[i]
    BY <1>1 DEF GotIsSent
  <2>3. i = Len(got) + 1 \/ i \in 1 .. Len(got)
    BY <2>1
  <2> QED
    BY <2>1, <2>2, <2>3
<1> QED
  BY <1>3, <1>4 DEF Received

LEMMA KnownNext ==
  ASSUME FieldsFit, Known, [Next]_vars PROVE Known'
<1>1. Framed'
  BY FramedNext DEF FieldsFit, Known
<1>2. Received
  BY DEF Known
<1>3. CASE Write
  BY <1>1, <1>3, ReceivedWrite DEF Known
<1>4. CASE Arrive \/ Shut \/ Cut \/ ReadError \/ Idle \/ UNCHANGED vars
  BY <1>1, <1>2, <1>4, ReceivedStays DEF Known, Arrive, Shut, Cut, ReadError, Idle, vars
<1>5. CASE ReadMagic
  <2>1. UNCHANGED <<conn, sess, sent, got>>
    BY <1>5 DEF ReadMagic
  <2> QED
    BY <1>1, <1>2, <1>5, <2>1, MagicIsRead, ReceivedStays DEF Known
<1>6. CASE ReadLength \/ ReadHead
  <2>1. UNCHANGED <<conn, sess, sent, got, sees>> /\ reader \in {"length", "head"}
    BY <1>6 DEF ReadLength, ReadHead, Consume
  <2> QED
    BY <1>1, <1>2, <2>1, Knows, ReceivedStays DEF Known
<1>7. CASE ReadBody
  BY <1>1, <1>7, ReceivedReadBody DEF Known
<1> QED
  BY <1>3, <1>4, <1>5, <1>6, <1>7 DEF Next, Read

LEMMA AlwaysKnown ==
  FieldsFit => (Spec => []Known)
<1> SUFFICES ASSUME FieldsFit PROVE Spec => []Known
  OBVIOUS
<1>1. Init => Known
  BY KnownInit
<1>2. Known /\ [Next]_vars => Known'
  BY KnownNext
<1> QED
  BY <1>1, <1>2, PTL DEF Spec

\* Whoever waits for bytes that were written has them once they all arrived.
LEMMA EnoughArrived ==
  ASSUME MessagesFit, Framed, Waiting, link # "cut", arrived = Len(wire), arrived < Needed
  PROVE  Unread = << >>
<1> SUFFICES ASSUME Unread # << >> PROVE FALSE
  OBVIOUS
<1> DEFINE q == Unread
           e == Ahead(conn, sess, reader, q)
<1>1. /\ AlignedAt(conn, sess, reader, want, Unread, wire, link)
      /\ Unread \in Seq(Sendable(conn, sess)) /\ wire \in Seq(OnWire)
      /\ conn \in Kinds /\ sess \in session(SessionBytes)
  BY FramedIs
<1>2. wire = e
  <2>1. Carries(OnWire, wire, e, link)
    BY <1>1 DEF AlignedAt, Waiting
  <2> HIDE DEF e
  <2> QED
    BY <1>1, <2>1, CarriesAll
<1>3. Takes(conn, sess, q)
  BY <1>1, TakesMessage
<1>4. reader = "body" => want = Len(Body(sess, Head(q)))
  BY <1>1 DEF AlignedAt
<1> HIDE DEF q
<1> DEFINE head == Header[conn]
           field == LengthField(sess, Head(q))
           length == Ahead(conn, sess, "length", q)
           body == Ahead(conn, sess, "body", q)
           text == Body(sess, Head(q))
           later == Flow(conn, sess, Tail(q))
<1>5. /\ length \in Seq(OnWire) /\ body \in Seq(OnWire) /\ later \in Seq(OnWire)
      /\ head \in Seq(OnWire) /\ Len(head) = 2 /\ field \in Seq(OnWire) /\ Len(field) = Digits
      /\ text \in Seq(OnWire)
      /\ Flow(conn, sess, q) = head \o length /\ length = field \o body /\ body = text \o later
  BY <1>3 DEF Takes, Parts
<1>6. /\ reader = "body" => e = body
      /\ reader = "length" => e = length
      /\ reader \in {"magic", "head"} => e = Flow(conn, sess, q)
  BY DEF Ahead, q
<1>7. /\ reader = "body" => Needed = Len(text)
      /\ reader = "length" => Needed = Digits
      /\ reader = "magic" => Needed = 2
      /\ reader = "head" => Needed = 2 + Digits
  BY <1>4 DEF Needed
<1> HIDE DEF head, field, length, body, text, later, e
<1>8. /\ Len(body) = Len(text) + Len(later) /\ Len(length) = Digits + Len(body)
      /\ Len(head \o length) = 2 + Len(length)
      /\ Len(text) \in Nat /\ Len(later) \in Nat /\ Len(body) \in Nat /\ Len(length) \in Nat
      /\ Digits \in Nat
  <2>1. Adds(text, later) /\ Adds(field, body) /\ Adds(head, length)
    BY <1>5, LengthsAdd
  <2>2. /\ Len(text \o later) = Len(text) + Len(later)
        /\ Len(field \o body) = Len(field) + Len(body)
        /\ Len(head \o length) = Len(head) + Len(length)
    BY <2>1, Zenon DEF Adds
  <2> QED
    BY <1>5, <2>2, LenProperties, NumbersAre
<1>9. /\ reader = "body" => Len(e) >= Needed
      /\ reader = "length" => Len(e) >= Needed
      /\ reader = "magic" => Len(e) >= Needed
      /\ reader = "head" => Len(e) >= Needed
  BY <1>5, <1>6, <1>7, <1>8
<1>10. Len(e) >= Needed /\ Len(e) < Needed
  BY <1>2, <1>9 DEF Waiting
<1>11. Needed \in Nat /\ Len(e) \in Nat
  <2>1. Needed \in Nat
    BY <1>7, <1>8, NumbersAre DEF Waiting
  <2> QED
    BY <1>1, <1>2, <2>1, LenProperties
<1> QED
  BY <1>10, <1>11

LEMMA WriteIsWrite ==
  ASSUME FieldsFit, Known, Write PROVE Stream!Write
<1>1. PICK p \in First(sess)[conn] \cup Later[conn] : sent' = Append(sent, p)
  BY DEF Write
<1>2. link = "open" /\ UNCHANGED <<conn, sess, link, reader, got>>
  BY DEF Write
<1>3. /\ Len(got) \in 0 .. Len(sent) /\ sent \in Seq(Sendable(conn, sess))
      /\ Unread \in Seq(Sendable(conn, sess)) /\ Unread = Rest(sent, Len(got))
      /\ p \in Sendable(conn, sess)
  BY FramedIs DEF FieldsFit, Known, Sendable
<1>4. Unread' = Append(Unread, p)
  <2>1. Unread' = Rest(sent', Len(got)')
    BY DEF Unread, Rest
  <2>2. Rest(Append(sent, p), Len(got)) = Append(Rest(sent, Len(got)), p)
    BY <1>3, RestAppend
  <2> QED
    BY <1>1, <1>2, <1>3, <2>1, <2>2
<1>5. Len(Append(Unread, p)) = Len(Unread) + 1
  BY <1>3, AppendProperties
<1>6. SubSeq(Append(Unread, p), 1, Len(Unread)) = Unread
  <2> DEFINE q == Unread
  <2>1. q \in Seq(Sendable(conn, sess)) /\ Append(q, p) = q \o <<p>> /\ <<p>> \in Seq(Sendable(conn, sess))
    BY <1>3, AppendIsConcat
  <2> HIDE DEF q
  <2>2. substr(q \o <<p>>, 0, Len(q)) = q
    BY <2>1, SubstrFirst
  <2>3. Len(q \o <<p>>) = Len(q) + 1 /\ Len(q) \in Nat
    <3>1. Len(q \o <<p>>) = Len(q) + Len(<<p>>) /\ Len(<<p>>) = 1
      BY <2>1, ConcatProperties
    <3> QED
      BY <2>1, <3>1, LenProperties
  <2>4. substr(q \o <<p>>, 0, Len(q)) = SubSeq(q \o <<p>>, 1, Len(q))
    BY <2>3 DEF substr
  <2> QED
    BY <2>1, <2>2, <2>4 DEF q
<1>7. Waiting' = Waiting
  BY <1>2 DEF Waiting
<1> QED
  BY <1>2, <1>4, <1>5, <1>6, <1>7 DEF Stream!Write

LEMMA BodyIsMessage ==
  ASSUME FieldsFit, Known, ReadBody PROVE Stream!Read
<1>1. Unread # << >> /\ got' = Append(got, Head(Unread)) /\ Unread' = Tail(Unread)
  BY PacketTaken
<1>2. UNCHANGED link /\ reader = "body"
  BY DEF ReadBody, Consume
<1>3. Waiting /\ Waiting' \in BOOLEAN
  BY <1>2 DEF Waiting
<1> QED
  BY <1>1, <1>2, <1>3 DEF Stream!Read

LEMMA StepIsStep ==
  ASSUME FieldsFit, Known, [Next]_vars PROVE [Stream!Next]_(Stream!vars)
<1>1. CASE Write
  BY <1>1, WriteIsWrite DEF Stream!Next
<1>2. CASE Arrive \/ Idle \/ UNCHANGED vars
  BY <1>2 DEF Arrive, Idle, vars, Stream!vars, Unread, Waiting
<1>3. CASE Shut \/ Cut
  <2>1. UNCHANGED <<sent, got, reader>> /\ link = "open" /\ link' \in {"shut", "cut"}
    BY <1>3 DEF Shut, Cut
  <2>2. Unread' = Unread /\ Waiting' = Waiting
    BY <2>1 DEF Unread, Waiting
  <2> QED
    BY <2>1, <2>2 DEF Stream!Break, Stream!Next
<1>4. CASE ReadMagic \/ ReadLength \/ ReadHead
  <2>1. /\ UNCHANGED <<sent, got, link>> /\ reader \in {"magic", "length", "head"}
        /\ reader' \in {"length", "body"}
    BY <1>4, MagicIsRead, HeadIsRead DEF ReadMagic, ReadLength, ReadHead, Consume
  <2>2. Unread' = Unread /\ Waiting' = Waiting
    BY <2>1 DEF Unread, Waiting
  <2> QED
    BY <2>1, <2>2 DEF Stream!vars
<1>5. CASE ReadBody
  BY <1>5, BodyIsMessage DEF Stream!Next
<1>6. CASE ReadError
  <2>1. /\ UNCHANGED <<sent, got, link>> /\ Waiting /\ reader' = "failed"
        /\ link # "open" /\ arrived = Len(wire) /\ arrived < Needed
    BY <1>6 DEF ReadError
  <2>2. link = "cut" \/ (link = "shut" /\ Unread = << >>)
    <3>1. link \in {"open", "shut", "cut"}
      BY DEF Known, Framed, FramingTypeOK
    <3>2. link # "cut" => Unread = << >>
      BY <2>1, EnoughArrived DEF FieldsFit, Known
    <3> QED
      BY <2>1, <3>1, <3>2
  <2>3. Unread' = Unread /\ Waiting' = FALSE
    BY <2>1 DEF Unread, Waiting
  <2> QED
    BY <2>1, <2>2, <2>3 DEF Stream!Fail, Stream!Next
<1> QED
  BY <1>1, <1>2, <1>3, <1>4, <1>5, <1>6 DEF Next, Read

(* The stream is a connection of module Network: packets arrive whole, in  *)
(* order and with the fields they were built from, and a read fails only   *)
(* at the end or when the connection is lost, however the bytes arrive.    *)
THEOREM StreamIsConnection ==
  FieldsFit => (Spec => WholeMessages)
<1> SUFFICES ASSUME FieldsFit PROVE Spec => WholeMessages
  OBVIOUS
<1>1. Init => Stream!Init
  <2> SUFFICES ASSUME Init PROVE Stream!Init
    OBVIOUS
  <2>1. sent = << >> /\ got = << >> /\ link = "open" /\ reader = "magic"
    BY DEF Init
  <2>2. Unread = << >>
    <3>1. Unread = Rest(sent, Len(got))
      BY AlignedIs
    <3>2. sent \in Seq({}) /\ Len(got) \in 0 .. Len(sent) /\ Len(got) = Len(sent)
      BY <2>1
    <3> QED
      BY <2>1, <3>1, <3>2, RestIs
  <2>3. Waiting = TRUE
    BY <2>1 DEF Waiting
  <2> QED
    BY <2>1, <2>2, <2>3 DEF Stream!Init
<1>2. Known /\ [Next]_vars => [Stream!Next]_(Stream!vars)
  BY StepIsStep
<1>3. Spec => []Known
  BY AlwaysKnown
<1> QED
  BY <1>1, <1>2, <1>3, PTL DEF Spec, WholeMessages, Stream!Spec

(* What order_wrap.cfg and hello_status.cfg refute of all fields holds of  *)
(* those that fit: the order of every piece arrives (file_transfer_read),  *)
(* and the status of every hello reply (client_hello_verify).              *)
THEOREM FieldsArrive ==
  FieldsFit => (Spec => [](OrderArrives /\ StatusArrives))
<1> SUFFICES ASSUME FieldsFit PROVE Spec => [](OrderArrives /\ StatusArrives)
  OBVIOUS
<1>1. Spec => []Known
  BY AlwaysKnown
<1>2. Known => OrderArrives /\ StatusArrives
  <2> SUFFICES ASSUME Known PROVE OrderArrives /\ StatusArrives
    OBVIOUS
  <2>1. got \in Seq(Range(got)) /\ \A i \in 1 .. Len(got) : got[i] = sent[i]
    BY DEF Known, Framed, FramingTypeOK, Received, GotIsSent
  <2>2. \A i \in DOMAIN got : got[i] = sent[i]
    BY <2>1
  <2> QED
    BY <2>2 DEF OrderArrives, StatusArrives
<1> QED
  BY <1>1, <1>2, PTL
=============================================================================
