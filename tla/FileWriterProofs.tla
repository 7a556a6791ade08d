-------------------------- MODULE FileWriterProofs --------------------------
(***************************************************************************)
(* Theorems about FileWriter, for any number of uploads and paths, any     *)
(* sizes of files, pieces and file systems, any orders of empty packets.   *)
(***************************************************************************)
EXTENDS FileWriter, SequenceTheorems, FiniteSetTheorems, TLAPS

\* The greatest of some numbers.
LEMMA MaxIs ==
  ASSUME NEW S \in SUBSET Int, NEW m \in S, \A n \in S : n <= m
  PROVE  Max(S) = m
<1> DEFINE x == CHOOSE k \in S : \A n \in S : k >= n
<1>1. \A n \in S : m >= n
  OBVIOUS
<1>2. x \in S /\ \A n \in S : x >= n
  BY <1>1
<1> HIDE DEF x
<1>3. x = m
  BY <1>1, <1>2
<1> QED
  BY <1>3 DEF Max, x

LEMMA MaxOfTwo ==
  ASSUME NEW m \in Nat, NEW n \in Nat
  PROVE  Max({m, n}) = IF n > m THEN n ELSE m
<1>1. CASE n > m
  BY <1>1, MaxIs
<1>2. CASE ~(n > m)
  BY <1>2, MaxIs
<1> QED
  BY <1>1, <1>2

\* Of bounded numbers there is a greatest: the least of the intervals from
\* one of them to the bound begins there.
LEMMA MaxOfBounded ==
  ASSUME NEW S \in SUBSET Nat, S # {}, NEW bound \in Nat, \A n \in S : n <= bound
  PROVE  Max(S) \in S /\ \A n \in S : n <= Max(S)
<1> DEFINE Above == {n .. bound : n \in S}
<1>1. Above # {} /\ Above \subseteq FiniteSubsetsOf(Nat)
  <2>1. ASSUME NEW n \in S PROVE IsFiniteSet(n .. bound) /\ n .. bound \in SUBSET Nat
    <3>1. n \in Int /\ bound \in Int
      OBVIOUS
    <3>2. IsFiniteSet(n .. bound)
      BY <3>1, FS_Interval, Zenon
    <3>3. n .. bound \subseteq Nat
      OBVIOUS
    <3> QED
      BY <3>2, <3>3, Zenon
  <2> QED
    BY <2>1 DEF FiniteSubsetsOf
<1>2. PICK least \in Above : \A other \in Above : <<other, least>> \notin StrictSubsetOrdering(Nat)
  BY <1>1, FS_StrictSubsetOrderingWellFounded, WFMin
<1>3. PICK m \in S : least = m .. bound
  OBVIOUS
<1>4. ASSUME NEW n \in S, ~(n <= m) PROVE FALSE
  <2>1. n .. bound \subseteq m .. bound /\ m \in m .. bound /\ m \notin n .. bound
    BY <1>4
  <2>2. n .. bound \in SUBSET Nat /\ m .. bound \in SUBSET Nat
    OBVIOUS
  <2>3. <<n .. bound, m .. bound>> \in StrictSubsetOrdering(Nat)
    BY <2>1, <2>2 DEF StrictSubsetOrdering
  <2> QED
    BY <1>2, <1>3, <2>3
<1>5. Max(S) = m
  BY <1>4, MaxIs
<1> QED
  BY <1>4, <1>5

-----------------------------------------------------------------------------
Bytes == Writers \X Nat
Cell == Bytes \cup {Hole}
Disks == [Paths -> Seq(Cell)]

\* A sequence given by its elements.
LEMMA LenOfList ==
  ASSUME NEW S, NEW n \in Nat, NEW s \in [1 .. n -> S]
  PROVE  s \in Seq(S) /\ Len(s) = n
<1>1. s \in Seq(S)
  BY SeqDef
<1> QED
  BY <1>1, LenProperties

\* g is the file f after n of the bytes were written at a position.
Wrote(f, g, at, bytes, n) ==
  /\ Len(g) = IF n > 0 /\ at + n > Len(f) THEN at + n ELSE Len(f)
  /\ \A i \in 1 .. Len(g) :
       g[i] = IF at < i /\ i <= at + n THEN bytes[i - at]
              ELSE IF i <= Len(f) THEN f[i] ELSE Hole

LEMMA PutIs ==
  ASSUME NEW f \in Seq(Cell), NEW at \in Nat, NEW bytes \in Seq(Cell)
  PROVE  /\ Put(f, at, bytes) \in Seq(Cell)
         /\ Len(Put(f, at, bytes)) =
              IF at + Len(bytes) > Len(f) THEN at + Len(bytes) ELSE Len(f)
         /\ \A i \in 1 .. Len(Put(f, at, bytes)) :
              Put(f, at, bytes)[i] =
                IF at < i /\ i <= at + Len(bytes) THEN bytes[i - at]
                ELSE IF i <= Len(f) THEN f[i] ELSE Hole
<1> DEFINE m == Len(bytes)
           l == Len(f)
           top == IF at + m > l THEN at + m ELSE l
           e(i) == IF at < i /\ i <= at + m THEN bytes[i - at]
                   ELSE IF i <= l THEN f[i] ELSE Hole
<1>1. m \in Nat /\ l \in Nat /\ top \in Nat
  BY LenProperties
<1>2. Max({l, at + m}) = top
  <2>1. l \in Nat /\ at + m \in Nat
    BY <1>1
  <2> HIDE DEF l, m
  <2> QED
    BY <2>1, MaxOfTwo
<1>3. \A i \in 1 .. top : e(i) \in Cell
  <2> SUFFICES ASSUME NEW i \in 1 .. top PROVE e(i) \in Cell
    OBVIOUS
  <2>1. at < i /\ i <= at + m => i - at \in 1 .. Len(bytes)
    BY <1>1
  <2>2. i <= l => i \in 1 .. Len(f)
    BY <1>1
  <2> QED
    BY <2>1, <2>2, ElementOfSeq DEF Cell
<1>4. Put(f, at, bytes) = [i \in 1 .. top |-> e(i)]
  <2>1. \A i \in 1 .. top : i \in at + 1 .. at + m <=> at < i /\ i <= at + m
    BY <1>1
  <2> QED
    BY <1>2, <2>1 DEF Put
<1>5. Put(f, at, bytes) \in [1 .. top -> Cell]
  BY <1>3, <1>4
<1>6. Put(f, at, bytes) \in Seq(Cell) /\ Len(Put(f, at, bytes)) = top
  BY <1>1, <1>5, LenOfList
<1> QED
  BY <1>4, <1>6

\* The disk after the first n of the bytes were put into the file p.
After(d, p, at, bytes, n) == [d EXCEPT ![p] = Put(@, at, SubSeq(bytes, 1, n))]

LEMMA AfterIs ==
  ASSUME NEW d \in Disks, NEW p \in Paths, NEW at \in Nat, NEW bytes \in Seq(Bytes),
         NEW n \in 0 .. Len(bytes)
  PROVE  /\ After(d, p, at, bytes, n) \in Disks
         /\ \A q \in Paths \ {p} : After(d, p, at, bytes, n)[q] = d[q]
         /\ n > 0 => Wrote(d[p], After(d, p, at, bytes, n)[p], at, bytes, n)
<1> DEFINE some == SubSeq(bytes, 1, n)
<1>1. n \in Nat /\ d[p] \in Seq(Cell) /\ Len(bytes) \in Nat
  BY LenProperties DEF Disks
<1>2. \A i \in 1 .. n : bytes[i] \in Cell
  BY <1>1, ElementOfSeq DEF Cell
<1>3. some \in Seq(Cell) /\ Len(some) = n /\ \A i \in 1 .. n : some[i] = bytes[i]
  <2>1. /\ some \in Seq(Cell) /\ Len(some) = IF 1 <= n THEN n - 1 + 1 ELSE 0
        /\ \A i \in 1 .. n - 1 + 1 : some[i] = bytes[1 + i - 1]
    BY <1>1, <1>2, SubSeqProperties
  <2> HIDE DEF some
  <2> QED
    BY <1>1, <2>1
<1> DEFINE g == Put(d[p], at, some)
<1>4. After(d, p, at, bytes, n) = [d EXCEPT ![p] = g]
  BY DEF After
<1> HIDE DEF some
<1>5. /\ g \in Seq(Cell) /\ Len(g) = IF at + n > Len(d[p]) THEN at + n ELSE Len(d[p])
      /\ \A i \in 1 .. Len(g) :
           g[i] = IF at < i /\ i <= at + n THEN some[i - at]
                  ELSE IF i <= Len(d[p]) THEN d[p][i] ELSE Hole
  <2>1. some \in Seq(Cell) /\ d[p] \in Seq(Cell)
    BY <1>1, <1>3
  <2>2. /\ g \in Seq(Cell)
        /\ Len(g) = IF at + Len(some) > Len(d[p]) THEN at + Len(some) ELSE Len(d[p])
        /\ \A i \in 1 .. Len(g) :
             g[i] = IF at < i /\ i <= at + Len(some) THEN some[i - at]
                    ELSE IF i <= Len(d[p]) THEN d[p][i] ELSE Hole
    BY <2>1, PutIs
  <2> HIDE DEF g
  <2> QED
    BY <1>3, <2>2
<1> HIDE DEF g
<1>6. n > 0 => Wrote(d[p], g, at, bytes, n)
  <2>1. Len(g) \in Nat
    BY <1>5, LenProperties
  <2>2. \A i \in 1 .. Len(g) : at < i /\ i <= at + n => some[i - at] = bytes[i - at]
    BY <1>1, <1>3, <2>1
  <2> QED
    BY <1>5, <2>2 DEF Wrote
<1> QED
  BY <1>4, <1>5, <1>6 DEF Disks

LEMMA UsedIsFinite ==
  ASSUME NEW d \in Disks, NEW s
  PROVE  IsFiniteSet(Used(d, s)) /\ Cardinality(Used(d, s)) \in Nat
<1> DEFINE Here == {q \in Paths : On(q) = s}
           In(p) == {p} \X Stored(d[p])
           f == [p \in Here |-> In(p)]
           T == {In(p) : p \in Here}
<1>1. \A S \in T : IsFiniteSet(S)
  <2> SUFFICES ASSUME NEW p \in Here PROVE IsFiniteSet(In(p))
    OBVIOUS
  <2>1. d[p] \in Seq(Cell)
    BY DEF Disks
  <2>2. Len(d[p]) \in Int /\ 1 \in Int /\ DOMAIN d[p] = 1 .. Len(d[p])
    BY <2>1, LenProperties
  <2>3. IsFiniteSet(1 .. Len(d[p]))
    BY <2>2, FS_Interval, Zenon
  <2>4. IsFiniteSet(Stored(d[p]))
    BY <2>2, <2>3, FS_Subset DEF Stored
  <2> QED
    BY <2>4, FS_Singleton, FS_Product
<1>2. f \in Surjection(Here, T)
  BY DEF Surjection
<1>3. IsFiniteSet(Here)
  BY WriterAssumption, FS_Subset
<1>4. IsFiniteSet(T)
  BY <1>2, <1>3, FS_Surjection
<1>5. IsFiniteSet(UNION T)
  BY <1>1, <1>4, FS_UNION
<1>6. Used(d, s) = UNION T
  BY DEF Used
<1> QED
  BY <1>5, <1>6, FS_CardinalityType

\* The files and the other programs never take more than there is.
Roomy(d) == \A s \in FileSystems : Free(d, s) >= 0

\* A write concerns the file system of its file only.
LEMMA ElsewhereAsBefore ==
  ASSUME NEW d, NEW e, NEW p \in Paths, \A q \in Paths \ {p} : e[q] = d[q], NEW s, s # On(p)
  PROVE  Free(e, s) = Free(d, s)
<1>1. \A q \in Paths : On(q) = s => e[q] = d[q]
  OBVIOUS
<1>2. Used(e, s) = Used(d, s)
  BY <1>1 DEF Used
<1> QED
  BY <1>2 DEF Free

\* The file system takes as much as fits on it.
LEMMA TakenIs ==
  ASSUME NEW d \in Disks, NEW p \in Paths, NEW at \in Nat, NEW bytes \in Seq(Bytes)
  PROVE  /\ Taken(d, p, at, bytes) \in 0 .. Len(bytes)
         /\ \/ Taken(d, p, at, bytes) = 0
            \/ Fits(d, p, at, bytes, Taken(d, p, at, bytes))
         /\ \A n \in 0 .. Len(bytes) :
              Fits(d, p, at, bytes, n) => n <= Taken(d, p, at, bytes)
<1> DEFINE Parts == {n \in 0 .. Len(bytes) : n = 0 \/ Fits(d, p, at, bytes, n)}
<1>1. Len(bytes) \in Nat
  BY LenProperties
<1>2. 0 \in Parts
  BY <1>1
<1>3. Parts \in SUBSET Nat /\ \A n \in Parts : n <= Len(bytes)
  BY <1>1
<1>4. Taken(d, p, at, bytes) = Max(Parts)
  BY DEF Taken
<1>5. Max(Parts) \in Parts /\ \A n \in Parts : n <= Max(Parts)
  BY <1>1, <1>2, <1>3, MaxOfBounded
<1> QED
  BY <1>4, <1>5

\* ::write put the first n of the bytes into the file of w, as many as fit.
Moved(d, e, w, at, bytes, n) ==
  /\ e \in Disks /\ Roomy(e)
  /\ \A q \in Paths \ {path[w]} : e[q] = d[q]
  /\ Wrote(d[path[w]], e[path[w]], at, bytes, n)
  /\ \A m \in 0 .. Len(bytes) : Fits(d, path[w], at, bytes, m) => m <= n

LEMMA KernelMoves ==
  ASSUME NEW d \in Disks, NEW w \in Writers, path[w] \in Paths, NEW at \in Nat,
         NEW bytes \in Seq(Bytes), Roomy(d)
  PROVE  /\ Taken(d, path[w], at, bytes) \in 0 .. Len(bytes)
         /\ Moved(d, Kernel(d, w, at, bytes), w, at, bytes, Taken(d, path[w], at, bytes))
<1> DEFINE n == Taken(d, path[w], at, bytes)
           e == Kernel(d, w, at, bytes)
           p == path[w]
<1>1. /\ n \in 0 .. Len(bytes) /\ (n = 0 \/ Fits(d, p, at, bytes, n))
      /\ \A m \in 0 .. Len(bytes) : Fits(d, p, at, bytes, m) => m <= n
  BY TakenIs
<1>2. e = IF n = 0 THEN d ELSE After(d, p, at, bytes, n)
  BY DEF Kernel, After
<1>3. Len(bytes) \in Nat
  BY LenProperties
<1> HIDE DEF n
<1>4. CASE n = 0
  <2>1. Len(d[p]) \in Nat
    BY LenProperties DEF Disks
  <2>2. Wrote(d[p], d[p], at, bytes, 0)
    BY <2>1 DEF Wrote
  <2>3. e = d
    BY <1>2, <1>4
  <2>4. Moved(d, e, w, at, bytes, 0)
    BY <1>1, <1>4, <2>2, <2>3 DEF Moved
  <2> QED
    BY <1>1, <1>4, <2>4 DEF n
<1>5. CASE n # 0
  <2>1. n > 0
    BY <1>1, <1>3, <1>5
  <2>2. e = After(d, p, at, bytes, n)
    BY <1>2, <1>5
  <2>3. /\ e \in Disks /\ \A q \in Paths \ {p} : e[q] = d[q]
        /\ Wrote(d[p], e[p], at, bytes, n)
    BY <1>1, <2>1, <2>2, AfterIs
  <2>4. Free(e, On(p)) >= 0
    BY <1>1, <1>5, <2>2 DEF Fits, After
  <2>5. ASSUME NEW s \in FileSystems PROVE Free(e, s) >= 0
    <3>1. CASE s = On(p)
      BY <2>4, <3>1
    <3>2. CASE s # On(p)
      <4>1. Free(e, s) = Free(d, s)
        BY <2>3, <3>2, ElsewhereAsBefore
      <4> QED
        BY <4>1 DEF Roomy
    <3> QED
      BY <3>1, <3>2
  <2>6. Roomy(e)
    BY <2>5 DEF Roomy
  <2>7. Moved(d, e, w, at, bytes, n)
    BY <1>1, <2>3, <2>6 DEF Moved
  <2> QED
    BY <1>1, <2>7 DEF n
<1> QED
  BY <1>4, <1>5

\* Where the bytes of the file g come from, and what of f is still there.
LEMMA WroteCells ==
  ASSUME NEW f \in Seq(Cell), NEW g \in Seq(Cell), NEW at \in Nat,
         NEW bytes \in Seq(Bytes), NEW n \in 0 .. Len(bytes), Wrote(f, g, at, bytes, n)
  PROVE  /\ \A i \in Stored(g) :
              \/ i \in Stored(f) /\ g[i] = f[i]
              \/ \E k \in 1 .. Len(bytes) : i = at + k /\ g[i] = bytes[k]
         /\ Stored(f) \subseteq Stored(g)
         /\ \A k \in 1 .. n : at + k \in Stored(g)
         /\ Len(g) <= Len(f) \/ Len(g) <= at + n
         /\ ((Len(f) = 0 \/ Len(f) \in Stored(f)) => (Len(g) = 0 \/ Len(g) \in Stored(g)))
<1> DEFINE lf == Len(f)
           lg == Len(g)
           lb == Len(bytes)
<1>1. lf \in Nat /\ lg \in Nat /\ lb \in Nat
  BY LenProperties
<1>2. \A i : /\ i \in Stored(f) <=> i \in Nat /\ 1 <= i /\ i <= lf /\ f[i] # Hole
             /\ i \in Stored(g) <=> i \in Nat /\ 1 <= i /\ i <= lg /\ g[i] # Hole
  <2>1. DOMAIN f = 1 .. lf /\ DOMAIN g = 1 .. lg
    BY LenProperties
  <2> HIDE DEF lf, lg
  <2> QED
    BY <1>1, <2>1 DEF Stored
<1>3. \A k \in 1 .. lb : bytes[k] # Hole
  BY WriterAssumption, ElementOfSeq DEF Bytes
<1>4. lg = IF n > 0 /\ at + n > lf THEN at + n ELSE lf
  BY DEF Wrote
<1>5. ASSUME NEW i \in Nat, 1 <= i, i <= lg
      PROVE  g[i] = IF at < i /\ i <= at + n THEN bytes[i - at]
                    ELSE IF i <= lf THEN f[i] ELSE Hole
  BY <1>1, <1>5 DEF Wrote
<1>6. n \in Nat /\ n <= lb
  BY <1>1
<1> HIDE DEF lf, lg, lb
<1>7. ASSUME NEW i \in Nat, 1 <= i, i <= lg, at < i, i <= at + n
      PROVE  \E k \in 1 .. lb : k <= n /\ i = at + k /\ g[i] = bytes[k]
  <2>1. i - at \in 1 .. lb /\ i - at <= n /\ i = at + (i - at)
    BY <1>1, <1>6, <1>7
  <2>2. g[i] = bytes[i - at]
    BY <1>5, <1>7
  <2> QED
    BY <2>1, <2>2
<1>8. ASSUME NEW i \in Stored(g)
      PROVE  \/ i \in Stored(f) /\ g[i] = f[i]
             \/ \E k \in 1 .. lb : i = at + k /\ g[i] = bytes[k]
  <2>1. i \in Nat /\ 1 <= i /\ i <= lg /\ g[i] # Hole
    BY <1>2
  <2>2. CASE at < i /\ i <= at + n
    BY <1>7, <2>1, <2>2
  <2>3. CASE ~(at < i /\ i <= at + n)
    <3>1. g[i] = IF i <= lf THEN f[i] ELSE Hole
      BY <1>5, <2>1, <2>3
    <3> QED
      BY <1>2, <2>1, <3>1
  <2> QED
    BY <2>2, <2>3
<1>9. ASSUME NEW i \in Stored(f) PROVE i \in Stored(g)
  <2>1. i \in Nat /\ 1 <= i /\ i <= lf /\ f[i] # Hole
    BY <1>2
  <2>2. i <= lg
    BY <1>1, <1>4, <1>6, <2>1
  <2>3. CASE at < i /\ i <= at + n
    <3>1. PICK k \in 1 .. lb : g[i] = bytes[k]
      BY <1>7, <2>1, <2>2, <2>3
    <3> QED
      BY <1>2, <1>3, <2>1, <2>2, <3>1
  <2>4. CASE ~(at < i /\ i <= at + n)
    <3>1. g[i] = f[i]
      BY <1>5, <2>1, <2>2, <2>4
    <3> QED
      BY <1>2, <2>1, <2>2, <3>1
  <2> QED
    BY <2>3, <2>4
<1>10. ASSUME NEW k \in 1 .. n PROVE at + k \in Stored(g)
  <2>0. k \in Nat /\ 1 <= k /\ k <= n
    BY <1>6
  <2>1. at + k \in Nat /\ 1 <= at + k /\ at + k <= lg /\ at < at + k /\ at + k <= at + n
    BY <1>1, <1>4, <1>6, <2>0
  <2>2. PICK j \in 1 .. lb : g[at + k] = bytes[j]
    BY <1>7, <2>1
  <2> QED
    BY <1>2, <1>3, <2>1, <2>2
<1>11. lg = lf \/ (n \in 1 .. n /\ lg = at + n)
  BY <1>1, <1>4, <1>6
<1>12. lg <= lf \/ lg <= at + n
  BY <1>1, <1>6, <1>11
<1>13. (lf = 0 \/ lf \in Stored(f)) => (lg = 0 \/ lg \in Stored(g))
  BY <1>9, <1>10, <1>11
<1> QED
  BY <1>8, <1>9, <1>10, <1>12, <1>13 DEF lf, lg, lb

\* Every byte of the disk was there or is one of those.
Came(d, e, p, at, bytes) ==
  \A q \in Paths : \A i \in Stored(e[q]) :
    \/ i \in Stored(d[q]) /\ e[q][i] = d[q][i]
    \/ q = p /\ \E k \in 1 .. Len(bytes) : i = at + k /\ e[q][i] = bytes[k]

Stays(d, e) == \A q \in Paths : Stored(d[q]) \subseteq Stored(e[q])

\* Holes are inside of a file, not at its end.
Topped(d) == \A q \in Paths : Len(d[q]) = 0 \/ Len(d[q]) \in Stored(d[q])

LEMMA MovedCells ==
  ASSUME NEW d \in Disks, NEW e, NEW w \in Writers, path[w] \in Paths, NEW at \in Nat,
         NEW bytes \in Seq(Bytes), NEW n \in 0 .. Len(bytes), Moved(d, e, w, at, bytes, n)
  PROVE  /\ Came(d, e, path[w], at, bytes) /\ Stays(d, e) /\ (Topped(d) => Topped(e))
         /\ \A k \in 1 .. n : at + k \in Stored(e[path[w]])
         /\ Len(e[path[w]]) <= Len(d[path[w]]) \/ Len(e[path[w]]) <= at + n
<1> DEFINE p == path[w]
<1>1. d[p] \in Seq(Cell) /\ e[p] \in Seq(Cell)
  BY DEF Moved, Disks
<1>2. \A q \in Paths \ {p} : e[q] = d[q]
  BY DEF Moved
<1>3. Wrote(d[p], e[p], at, bytes, n)
  BY DEF Moved
<1>4. /\ \A i \in Stored(e[p]) :
           \/ i \in Stored(d[p]) /\ e[p][i] = d[p][i]
           \/ \E k \in 1 .. Len(bytes) : i = at + k /\ e[p][i] = bytes[k]
      /\ Stored(d[p]) \subseteq Stored(e[p])
      /\ \A k \in 1 .. n : at + k \in Stored(e[p])
      /\ Len(e[p]) <= Len(d[p]) \/ Len(e[p]) <= at + n
      /\ ((Len(d[p]) = 0 \/ Len(d[p]) \in Stored(d[p]))
            => (Len(e[p]) = 0 \/ Len(e[p]) \in Stored(e[p])))
  BY <1>1, <1>3, WroteCells
<1> HIDE DEF p
<1>5. Came(d, e, p, at, bytes)
  BY <1>2, <1>4 DEF Came
<1>6. Stays(d, e)
  BY <1>2, <1>4 DEF Stays
<1>7. Topped(d) => Topped(e)
  BY <1>2, <1>4 DEF Topped
<1> QED
  BY <1>4, <1>5, <1>6, <1>7 DEF p

-----------------------------------------------------------------------------
StreamStates == {"none", "refused", "good", "full", "failed", "closed", "lost", "dropped"}

Typed ==
  /\ path \in [Writers -> Paths] /\ length \in [Writers -> Nat]
  /\ piece_size \in [Writers -> Nat \ {0}]
  /\ disk \in Disks /\ opener \in [Paths -> Writers \cup {Nobody}] 
  /\ others \in [FileSystems -> Nat] /\ stream \in [Writers -> StreamStates]
  /\ buf \in [Writers -> Seq(Bytes)] /\ fd \in [Writers -> Nat]
  /\ written \in [Writers -> SUBSET Nat]

Room == Roomy(disk)

\* Byte b of the source of w is in piece i.
InPiece(w, i, b) ==
  i * piece_size[w] <= b /\ b < i * piece_size[w] + piece_size[w] /\ b < length[w]

LEMMA PieceIs ==
  ASSUME Typed, NEW w \in Writers, NEW i \in Pieces(w)
  PROVE  /\ i \in Nat /\ i * piece_size[w] \in Nat
         /\ Piece(w, i) \in Seq(Bytes) /\ Len(Piece(w, i)) \in Nat \ {0}
         /\ \A k \in 1 .. Len(Piece(w, i)) :
              /\ Piece(w, i)[k] = <<w, i * piece_size[w] + k - 1>>
              /\ i * piece_size[w] + k - 1 \in Nat
              /\ InPiece(w, i, i * piece_size[w] + k - 1)
         /\ \A b \in Nat : InPiece(w, i, b) =>
              i * piece_size[w] <= b /\ b < i * piece_size[w] + Len(Piece(w, i))
         /\ i * piece_size[w] + Len(Piece(w, i)) <= length[w]
<1>1. length[w] \in Nat /\ piece_size[w] \in Nat /\ piece_size[w] > 0
  BY DEF Typed
<1>2. i \in Nat /\ i * piece_size[w] < length[w]
  BY <1>1 DEF Pieces
<1>3. i * piece_size[w] \in Nat
  BY <1>1, <1>2
<1> DEFINE at == i * piece_size[w]
           left == length[w] - at
           n == IF left < piece_size[w] THEN left ELSE piece_size[w]
           s == [k \in 1 .. n |-> <<w, at + k - 1>>]
<1>4. Piece(w, i) = s
  BY DEF Piece
<1>5. at \in Nat /\ at < length[w]
  BY <1>2, <1>3
<1> HIDE DEF at
<1>6. n \in Nat \ {0} /\ n <= piece_size[w] /\ at + n <= length[w]
      /\ (n = piece_size[w] \/ at + n = length[w])
  BY <1>1, <1>5
<1> HIDE DEF n
<1>7. \A k \in 1 .. n : at + k - 1 \in Nat /\ at <= at + k - 1 /\ at + k - 1 < at + n
  BY <1>5, <1>6
<1>8. s \in [1 .. n -> Bytes]
  BY <1>7 DEF Bytes
<1>9. s \in Seq(Bytes) /\ Len(s) = n
  BY <1>6, <1>8, LenOfList
<1>10. \A k \in 1 .. n : s[k] = <<w, at + k - 1>>
  OBVIOUS
<1> HIDE DEF s
<1>11. \A b \in Nat : at <= b /\ b < at + n => b < at + piece_size[w] /\ b < length[w]
  BY <1>1, <1>5, <1>6
<1>12. \A b \in Nat : at <= b /\ b < at + piece_size[w] /\ b < length[w] => b < at + n
  BY <1>1, <1>5, <1>6
<1>13. \A b \in Nat : InPiece(w, i, b) <=> at <= b /\ b < at + n
  BY <1>11, <1>12 DEF InPiece, at
<1> QED
  BY <1>2, <1>4, <1>5, <1>6, <1>7, <1>9, <1>10, <1>13 DEF at

\* The steps of SeekAndWrite: the buffer is flushed in part, and that is all, or
\* it is flushed and then the seek is refused, or the bytes are buffered or
\* written.
FlushFails(w) ==
  \E n \in 0 .. Len(buf[w]) :
    /\ n < Len(buf[w]) /\ Moved(disk, disk', w, fd[w], buf[w], n)
    /\ fd' = [fd EXCEPT ![w] = @ + n] /\ stream' = [stream EXCEPT ![w] = "full"]
    /\ buf' = buf

SeekRefused(w) ==
  /\ Moved(disk, disk', w, fd[w], buf[w], Len(buf[w]))
  /\ fd' = [fd EXCEPT ![w] = @ + Len(buf[w])] /\ stream' = [stream EXCEPT ![w] = "failed"]
  /\ buf' = [buf EXCEPT ![w] = << >>]

Buffered(w, at, bytes) ==
  /\ Moved(disk, disk', w, fd[w], buf[w], Len(buf[w]))
  /\ fd' = [fd EXCEPT ![w] = at] /\ stream' = stream
  /\ buf' = [buf EXCEPT ![w] = bytes]

Direct(w, at, bytes) ==
  \E d \in Disks : \E n \in 0 .. Len(bytes) :
    /\ Moved(disk, d, w, fd[w], buf[w], Len(buf[w])) /\ Moved(d, disk', w, at, bytes, n)
    /\ fd' = [fd EXCEPT ![w] = at + n]
    /\ stream' = [stream EXCEPT ![w] = IF n < Len(bytes) THEN "full" ELSE "good"]
    /\ buf' = [buf EXCEPT ![w] = << >>]

LEMMA WriteMoves ==
  ASSUME Typed, Room, NEW w \in Writers, NEW at \in Nat, NEW bytes \in Seq(Bytes),
         SeekAndWrite(w, at, bytes)
  PROVE  /\ stream[w] = "good"
         /\ FlushFails(w) \/ SeekRefused(w) \/ Buffered(w, at, bytes) \/ Direct(w, at, bytes)
<1> DEFINE direct == IF Len(bytes) < BufferBytes THEN << >> ELSE bytes
           d == Kernel(disk, w, fd[w], buf[w])
           flushed == Taken(disk, path[w], fd[w], buf[w])
           n == Taken(d, path[w], at, direct)
<1>1. /\ disk \in Disks /\ path[w] \in Paths /\ fd[w] \in Nat /\ buf[w] \in Seq(Bytes)
  BY DEF Typed
<1>s. fd \in [Writers -> Nat] /\ stream = [stream EXCEPT ![w] = stream[w]]
  BY DEF Typed
<1>4. direct \in Seq(Bytes) /\ Len(buf[w]) \in Nat /\ Len(bytes) \in Nat
  BY <1>1, EmptySeq, LenProperties
<1>5. flushed \in 0 .. Len(buf[w]) /\ Moved(disk, d, w, fd[w], buf[w], flushed)
  BY <1>1, KernelMoves DEF Room
<1>6. d \in Disks /\ Roomy(d)
  BY <1>5 DEF Moved
<1>e. stream[w] = "good"
  BY DEF SeekAndWrite
<1>f. \/ /\ flushed < Len(buf[w])
         /\ disk' = d
         /\ fd' = [fd EXCEPT ![w] = @ + flushed]
         /\ stream' = [stream EXCEPT ![w] = "full"]
         /\ UNCHANGED buf
      \/ /\ flushed = Len(buf[w])
         /\ disk' = d
         /\ fd' = [fd EXCEPT ![w] = @ + flushed]
         /\ stream' = [stream EXCEPT ![w] = "failed"]
         /\ buf' = [buf EXCEPT ![w] = << >>]
      \/ /\ flushed = Len(buf[w])
         /\ disk' = Kernel(d, w, at, direct)
         /\ fd' = [fd EXCEPT ![w] = at + n]
         /\ buf' = [buf EXCEPT ![w] = IF direct = << >> THEN bytes ELSE << >>]
         /\ stream' = [stream EXCEPT ![w] = IF n < Len(direct) THEN "full" ELSE "good"]
  BY DEF SeekAndWrite
<1> HIDE DEF flushed, d
<1>7. n \in 0 .. Len(direct) /\ Moved(d, Kernel(d, w, at, direct), w, at, direct, n)
  BY <1>1, <1>4, <1>6, KernelMoves
<1> HIDE DEF n
<1>8. CASE flushed < Len(buf[w])
  <2>1. FlushFails(w)
    BY <1>4, <1>5, <1>8, <1>f DEF FlushFails
  <2> QED
    BY <1>e, <2>1
<1>9. CASE flushed = Len(buf[w])
  <2>2. Moved(disk, d, w, fd[w], buf[w], Len(buf[w]))
    BY <1>5, <1>9
  <2>a. CASE /\ disk' = d
             /\ fd' = [fd EXCEPT ![w] = @ + flushed]
             /\ stream' = [stream EXCEPT ![w] = "failed"]
             /\ buf' = [buf EXCEPT ![w] = << >>]
    BY <1>e, <1>9, <2>2, <2>a DEF SeekRefused
  <2>b. CASE /\ disk' = Kernel(d, w, at, direct)
             /\ fd' = [fd EXCEPT ![w] = at + n]
             /\ buf' = [buf EXCEPT ![w] = IF direct = << >> THEN bytes ELSE << >>]
             /\ stream' = [stream EXCEPT ![w] = IF n < Len(direct) THEN "full" ELSE "good"]
    <3>a. CASE Len(bytes) < BufferBytes
      <4>1. direct = << >> /\ n = 0
        BY <1>7, <3>a
      <4>2. Kernel(d, w, at, << >>) = d
        BY <4>1 DEF Kernel, n
      <4>3. disk' = d
        BY <2>b, <4>1, <4>2
      <4>4. fd' = [fd EXCEPT ![w] = at]
        BY <2>b, <4>1
      <4>5. stream' = stream
        BY <1>s, <1>e, <2>b, <4>1
      <4>6. buf' = [buf EXCEPT ![w] = bytes]
        BY <2>b, <4>1
      <4> QED
        BY <1>e, <2>2, <4>3, <4>4, <4>5, <4>6 DEF Buffered
    <3>b. CASE ~(Len(bytes) < BufferBytes)
      <4>1. direct = bytes
        BY <3>b
      <4>2. buf' = [buf EXCEPT ![w] = << >>]
        BY <2>b, <4>1
      <4>3. /\ n \in 0 .. Len(bytes) /\ Moved(d, disk', w, at, bytes, n)
            /\ fd' = [fd EXCEPT ![w] = at + n]
            /\ stream' = [stream EXCEPT ![w] = IF n < Len(bytes) THEN "full" ELSE "good"]
        BY <1>7, <2>b, <4>1
      <4> QED
        BY <1>6, <1>e, <2>2, <4>2, <4>3 DEF Direct
    <3> QED
      BY <3>a, <3>b
  <2> QED
    BY <1>4, <1>9, <1>f, <2>a, <2>b
<1> QED
  BY <1>f, <1>8, <1>9

\* What write() is given: bytes that the source has from the position on, of
\* pieces of which all bytes are given or were before.
Given(w, at, bytes) ==
  /\ at \in Nat /\ bytes \in Seq(Bytes)
  /\ written' \in [Writers -> SUBSET Nat]
  /\ \A v \in Writers \ {w} : written'[v] = written[v]
  /\ written[w] \subseteq written'[w] /\ written'[w] \subseteq Pieces(w)
  /\ \A k \in 1 .. Len(bytes) :
       /\ bytes[k] = <<w, at + k - 1>> /\ at + k - 1 \in Nat
       /\ \E j \in written'[w] : InPiece(w, j, at + k - 1)
  /\ \A j \in written'[w], b \in Nat :
       InPiece(w, j, b) => j \in written[w] \/ (at <= b /\ b < at + Len(bytes))
  /\ Len(bytes) = 0 \/ at + Len(bytes) <= length[w]

LEMMA PieceGiven ==
  ASSUME Typed, NEW w \in Writers, NEW i \in Pieces(w), WriteGood(w, i),
         written[w] \subseteq Pieces(w)
  PROVE  Given(w, i * piece_size[w], Piece(w, i))
<1> DEFINE at == i * piece_size[w]
           piece == Piece(w, i)
<1>p. /\ i \in Nat /\ at \in Nat /\ piece \in Seq(Bytes)
      /\ \A k \in 1 .. Len(piece) :
           piece[k] = <<w, at + k - 1>> /\ at + k - 1 \in Nat /\ InPiece(w, i, at + k - 1)
      /\ \A b \in Nat : InPiece(w, i, b) => at <= b /\ b < at + Len(piece)
      /\ at + Len(piece) <= length[w]
  BY PieceIs
<1>g. written' = [written EXCEPT ![w] = @ \cup {i}]
  BY DEF WriteGood
<1> HIDE DEF at, piece
<1>1. /\ written' \in [Writers -> SUBSET Nat] /\ written'[w] = written[w] \cup {i}
      /\ \A v \in Writers \ {w} : written'[v] = written[v]
  BY <1>p, <1>g DEF Typed
<1>2. Given(w, at, piece)
  BY <1>p, <1>1 DEF Given
<1> QED
  BY <1>2 DEF at, piece

LEMMA NothingGiven ==
  ASSUME Typed, NEW w \in Writers, NEW order \in EmptyOrders, WriteEmpty(w, order),
         written[w] \subseteq Pieces(w)
  PROVE  Given(w, order * piece_size[w], << >>)
<1>1. order \in Nat /\ piece_size[w] \in Nat
  BY WriterAssumption DEF Typed
<1>2. order * piece_size[w] \in Nat
  BY <1>1
<1>3. << >> \in Seq(Bytes) /\ Len(<< >>) = 0
  BY EmptySeq
<1>4. written' = written
  BY DEF WriteEmpty
<1> QED
  BY <1>2, <1>3, <1>4 DEF Given, Typed

\* A step of write() on a stream that had no error.
Writes(w, at, bytes) == SeekAndWrite(w, at, bytes) /\ Given(w, at, bytes)

LEMMA WriteIs ==
  ASSUME Typed, NEW w \in Writers, written[w] \subseteq Pieces(w),
         \/ \E i \in Pieces(w) : WriteGood(w, i)
         \/ \E order \in EmptyOrders : WriteEmpty(w, order)
  PROVE  \E at, bytes : Writes(w, at, bytes)
<1>1. ASSUME NEW i \in Pieces(w), WriteGood(w, i)
      PROVE  Writes(w, i * piece_size[w], Piece(w, i))
  BY <1>1, PieceGiven DEF Writes, WriteGood
<1>2. ASSUME NEW order \in EmptyOrders, WriteEmpty(w, order)
      PROVE  Writes(w, order * piece_size[w], << >>)
  BY <1>2, NothingGiven DEF Writes, WriteEmpty
<1> QED
  BY <1>1, <1>2

LEMMA CloseMoves ==
  ASSUME Typed, Room, NEW w \in Writers, Close(w)
  PROVE  \E n \in 0 .. Len(buf[w]) :
           /\ Moved(disk, disk', w, fd[w], buf[w], n)
           /\ stream[w] \in {"good", "full", "failed"}
           /\ stream' = [stream EXCEPT ![w] = CloseState(w, n)]
           /\ buf' = [buf EXCEPT ![w] = << >>]
<1> DEFINE n == Taken(disk, path[w], fd[w], buf[w])
<1>1. disk \in Disks /\ path[w] \in Paths /\ fd[w] \in Nat /\ buf[w] \in Seq(Bytes)
  BY DEF Typed
<1>2. /\ n \in 0 .. Len(buf[w])
      /\ Moved(disk, Kernel(disk, w, fd[w], buf[w]), w, fd[w], buf[w], n)
  BY <1>1, KernelMoves DEF Room
<1> QED
  BY <1>2 DEF Close

-----------------------------------------------------------------------------
Broken(w) == stream[w] \in {"full", "lost"}

\* An upload without a file has written nothing, a closed one and one whose seek
\* was refused have nothing buffered.
Fresh ==
  \A w \in Writers :
    /\ ~Opened(w) => buf[w] = << >> /\ fd[w] = 0 /\ written[w] = {}
    /\ stream[w] \in {"closed", "lost", "failed", "dropped"} => buf[w] = << >>
    /\ written[w] \subseteq Pieces(w)

\* c is of a piece that its upload was given, and i is where it belongs, unless
\* the disk did not take all that its upload wrote.
Placed(i, c) ==
  /\ Opened(c[1]) /\ \E j \in written[c[1]] : InPiece(c[1], j, c[2])
  /\ c[2] = i - 1 \/ Broken(c[1])

Cells ==
  \A p \in Paths, i \in Nat, c \in Bytes :
    i \in Stored(disk[p]) /\ disk[p][i] = c => path[c[1]] = p /\ Placed(i, c)

Buffers ==
  \A w \in Writers, k \in Nat, i \in Nat, c \in Bytes :
    k \in 1 .. Len(buf[w]) /\ buf[w][k] = c /\ i = fd[w] + k => c[1] = w /\ Placed(i, c)

PlaceInv == Typed /\ Room /\ Fresh /\ Cells /\ Buffers

\* What every step leaves as it is.
Onward ==
  /\ UNCHANGED negotiated
  /\ \A w \in Writers : /\ Opened(w) => Opened(w)'
                        /\ Broken(w) => Broken(w)'
                        /\ written[w] \subseteq written'[w]

LEMMA PlacedStays ==
  ASSUME Onward, NEW i, NEW c \in Bytes, Placed(i, c)
  PROVE  Placed(i, c)'
<1>1. c[1] \in Writers
  BY DEF Bytes
<1> QED
  BY <1>1 DEF Onward, Placed, InPiece, negotiated

\* A step that writes nothing to the disk.
LEMMA QuietPlaces ==
  ASSUME PlaceInv, Typed', Room', Fresh', Onward, UNCHANGED <<buf, fd>>,
         \A p \in Paths : disk'[p] = disk[p] \/ disk'[p] = << >>
  PROVE  PlaceInv'
<1>1. ASSUME NEW p \in Paths, NEW i \in Nat, NEW c \in Bytes, i \in Stored(disk'[p]), disk'[p][i] = c
      PROVE  path'[c[1]] = p /\ Placed(i, c)'
  <2>1. i \in Stored(disk[p]) /\ disk[p][i] = c
    BY <1>1 DEF Stored
  <2>2. path[c[1]] = p /\ Placed(i, c)
    BY <2>1 DEF PlaceInv, Cells
  <2> QED
    BY <2>2, PlacedStays DEF Onward, negotiated
<1>2. Cells'
  BY <1>1 DEF Cells
<1>3. ASSUME NEW w \in Writers, NEW k \in Nat, NEW i \in Nat, NEW c \in Bytes,
             k \in 1 .. Len(buf[w]), buf[w][k] = c, i = fd[w] + k
      PROVE  c[1] = w /\ Placed(i, c)'
  BY <1>3, PlacedStays DEF PlaceInv, Buffers
<1>4. Buffers'
  BY <1>3 DEF Buffers
<1> QED
  BY <1>2, <1>4 DEF PlaceInv

LEMMA OtherProgramsPlaces ==
  ASSUME PlaceInv, NEW s \in FileSystems, OtherPrograms(s)
  PROVE  PlaceInv'
<1>1. disk \in Disks /\ others \in [FileSystems -> Nat]
      /\ Capacity \in Nat /\ CapacityElsewhere \in Nat
  BY WriterAssumption DEF PlaceInv, Typed
<1>2. \A r \in FileSystems : Cardinality(Used(disk, r)) \in Nat
  BY <1>1, UsedIsFinite
<1>3. UNCHANGED <<negotiated, disk, opener, stream, buf, fd, written>>
      /\ others' = [others EXCEPT ![s] = @ + 1] /\ Free(disk, s) > 0
  BY DEF OtherPrograms
<1>4. Room'
  <2> SUFFICES ASSUME NEW r \in FileSystems PROVE Free(disk, r)' >= 0
    BY DEF Room, Roomy
  <2> DEFINE c == IF r = "current" THEN Capacity ELSE CapacityElsewhere
             u == Cardinality(Used(disk, r))
  <2>1. Free(disk, r) = c - others[r] - u
    BY DEF Free
  <2>2. Used(disk, r)' = Used(disk, r)
    BY <1>3 DEF Used, On
  <2>3. Free(disk, r)' = c - others'[r] - u
    BY <2>2 DEF Free
  <2>4. c \in Nat /\ u \in Nat /\ others[r] \in Nat
    BY <1>1, <1>2
  <2>5. Free(disk, r) >= 0
    BY DEF PlaceInv, Room, Roomy
  <2> HIDE DEF c, u
  <2>6. CASE r = s
    BY <1>1, <1>3, <2>1, <2>3, <2>4, <2>6
  <2>7. CASE r # s
    BY <1>1, <1>3, <2>1, <2>3, <2>4, <2>5, <2>7
  <2> QED
    BY <2>6, <2>7
<1>5. Typed'
  BY <1>1, <1>3 DEF PlaceInv, Typed, negotiated
<1>6. Fresh' /\ Onward
  BY <1>3 DEF PlaceInv, Fresh, Opened, Onward, Broken, Pieces, negotiated
<1> QED
  BY <1>3, <1>4, <1>5, <1>6, QuietPlaces

\* Room is there in a step that changes neither the files nor what others took.
LEMMA RoomStays ==
  ASSUME Room, UNCHANGED <<disk, others>>
  PROVE  Room'
  BY DEF Room, Roomy, Free, Used, On

LEMMA RefusePlaces ==
  ASSUME PlaceInv, NEW w \in Writers, Refuse(w) \/ OpenFails(w)
  PROVE  PlaceInv'
<1>1. /\ UNCHANGED <<negotiated, disk, opener, others, buf, fd, written>>
      /\ stream[w] = "none" /\ stream' = [stream EXCEPT ![w] = "refused"]
  BY DEF Refuse, OpenFails
<1>2. Room' /\ Typed'
  BY <1>1, RoomStays DEF PlaceInv, Typed, StreamStates, negotiated
<1>3. \A v \in Writers :
        /\ Opened(v) <=> Opened(v)'
        /\ Broken(v) <=> Broken(v)'
        /\ stream'[v] \in {"closed", "lost", "failed", "dropped"} => stream[v] = stream'[v]
  BY <1>1 DEF PlaceInv, Typed, Opened, Broken
<1>4. Fresh' /\ Onward
  BY <1>1, <1>3 DEF PlaceInv, Fresh, Onward, Pieces, negotiated
<1> QED
  BY <1>1, <1>2, <1>4, QuietPlaces

LEMMA WriteBadPlaces ==
  ASSUME PlaceInv, NEW w \in Writers, NEW i \in Pieces(w), WriteBad(w, i)
  PROVE  PlaceInv'
<1>1. /\ UNCHANGED <<negotiated, disk, opener, others, stream, buf, fd>>
      /\ stream[w] \in {"full", "failed"} /\ written' = [written EXCEPT ![w] = @ \cup {i}]
  BY DEF WriteBad
<1>2. i \in Nat
  BY PieceIs DEF PlaceInv
<1>3. Room' /\ Typed'
  BY <1>1, <1>2, RoomStays DEF PlaceInv, Typed, negotiated
<1>4. Fresh' /\ Onward
  BY <1>1 DEF PlaceInv, Typed, Fresh, Opened, Onward, Broken, Pieces, negotiated
<1> QED
  BY <1>1, <1>3, <1>4, QuietPlaces

\* Truncating a file frees what it took.
LEMMA OpenPlaces ==
  ASSUME PlaceInv, NEW w \in Writers, Open(w)
  PROVE  PlaceInv'
<1>1. /\ UNCHANGED <<negotiated, others, buf, fd, written>>
      /\ stream[w] = "none" /\ stream' = [stream EXCEPT ![w] = "good"]
      /\ disk' = [disk EXCEPT ![path[w]] = << >>]
      /\ opener' = [opener EXCEPT ![path[w]] = w]
  BY DEF Open
<1>t. disk \in Disks /\ path[w] \in Paths /\ others \in [FileSystems -> Nat]
      /\ Capacity \in Nat /\ CapacityElsewhere \in Nat
  BY WriterAssumption DEF PlaceInv, Typed
<1>2. disk' \in Disks /\ \A p \in Paths : disk'[p] = disk[p] \/ disk'[p] = << >>
  <2>1. << >> \in Seq(Cell)
    BY EmptySeq
  <2> QED
    BY <1>1, <1>t, <2>1 DEF Disks
<1>3. Typed'
  BY <1>1, <1>2 DEF PlaceInv, Typed, StreamStates, negotiated
<1>4. Room'
  <2> SUFFICES ASSUME NEW r \in FileSystems PROVE Free(disk, r)' >= 0
    BY DEF Room, Roomy
  <2> DEFINE c == IF r = "current" THEN Capacity ELSE CapacityElsewhere
             a == Cardinality(Used(disk, r))
             b == Cardinality(Used(disk', r))
  <2>1. \A p \in Paths : Stored(disk'[p]) \subseteq Stored(disk[p])
    BY <1>2 DEF Stored
  <2>2. Used(disk', r) \subseteq Used(disk, r)
    BY <2>1 DEF Used
  <2>3. IsFiniteSet(Used(disk, r)) /\ a \in Nat /\ b \in Nat
    BY <1>2, <1>t, UsedIsFinite
  <2>4. b <= a
    BY <2>2, <2>3, FS_Subset
  <2>5. c - others[r] - a >= 0 /\ Free(disk, r)' = c - others[r] - b
    <3>1. Used(disk, r)' = Used(disk', r)
      BY DEF Used, On
    <3> QED
      BY <1>1, <3>1 DEF PlaceInv, Room, Roomy, Free
  <2>6. c \in Nat /\ others[r] \in Nat
    BY <1>t
  <2> HIDE DEF a, b, c
  <2> QED
    BY <2>3, <2>4, <2>5, <2>6
<1>5. \A v \in Writers : (Opened(v) => Opened(v)') /\ (Broken(v) => Broken(v)')
                         /\ (stream'[v] \in {"closed", "lost", "failed", "dropped"}
                               => stream[v] = stream'[v])
  BY <1>1 DEF PlaceInv, Typed, Opened, Broken
<1>6. Fresh' /\ Onward
  BY <1>1, <1>5 DEF PlaceInv, Fresh, Onward, Pieces, negotiated
<1> QED
  BY <1>1, <1>2, <1>3, <1>4, <1>6, QuietPlaces

\* The cells of a disk onto which what was buffered, or a part of it, went.
LEMMA FlushedCells ==
  ASSUME PlaceInv, NEW w \in Writers, NEW n \in 0 .. Len(buf[w]),
         NEW d, Moved(disk, d, w, fd[w], buf[w], n)
  PROVE  /\ d \in Disks
         /\ \A p \in Paths, i \in Nat, c \in Bytes :
              i \in Stored(d[p]) /\ d[p][i] = c => path[c[1]] = p /\ Placed(i, c)
<1>1. disk \in Disks /\ path[w] \in Paths /\ fd[w] \in Nat /\ buf[w] \in Seq(Bytes)
  BY DEF PlaceInv, Typed
<1>2. d \in Disks /\ Came(disk, d, path[w], fd[w], buf[w])
  BY <1>1, MovedCells DEF Moved
<1>3. ASSUME NEW p \in Paths, NEW i \in Nat, NEW c \in Bytes, i \in Stored(d[p]), d[p][i] = c
      PROVE  path[c[1]] = p /\ Placed(i, c)
  <2>1. CASE i \in Stored(disk[p]) /\ disk[p][i] = c
    BY <2>1 DEF PlaceInv, Cells
  <2>2. CASE p = path[w] /\ \E k \in 1 .. Len(buf[w]) : i = fd[w] + k /\ c = buf[w][k]
    <3>1. PICK k \in 1 .. Len(buf[w]) : i = fd[w] + k /\ c = buf[w][k]
      BY <2>2
    <3>2. k \in Nat
      BY <1>1, LenProperties
    <3>3. c[1] = w /\ Placed(i, c)
      BY <3>1, <3>2 DEF PlaceInv, Buffers
    <3> QED
      BY <2>2, <3>3
  <2> QED
    BY <1>2, <1>3, <2>1, <2>2 DEF Came
<1> QED
  BY <1>2, <1>3

LEMMA WritePlaces ==
  ASSUME PlaceInv, NEW w \in Writers, NEW at, NEW bytes, Writes(w, at, bytes)
  PROVE  PlaceInv'
<1>t. /\ disk \in Disks /\ path[w] \in Paths /\ path \in [Writers -> Paths]
      /\ fd[w] \in Nat /\ buf[w] \in Seq(Bytes)
      /\ Len(buf[w]) \in Nat /\ Len(buf[w]) \in 0 .. Len(buf[w])
  BY LenProperties DEF PlaceInv, Typed
<1>p. /\ at \in Nat /\ bytes \in Seq(Bytes) /\ Len(bytes) \in Nat
      /\ \A k \in 1 .. Len(bytes) :
           /\ bytes[k] = <<w, at + k - 1>> /\ at + k - 1 \in Nat
           /\ \E j \in written'[w] : InPiece(w, j, at + k - 1)
  BY LenProperties DEF Writes, Given
<1>g. /\ UNCHANGED <<negotiated, opener, others>>
      /\ written' \in [Writers -> SUBSET Nat]
      /\ \A v \in Writers \ {w} : written'[v] = written[v]
      /\ written[w] \subseteq written'[w] /\ written'[w] \subseteq Pieces(w)
  BY DEF Writes, Given, SeekAndWrite
<1>m. /\ stream[w] = "good"
      /\ FlushFails(w) \/ SeekRefused(w) \/ Buffered(w, at, bytes) \/ Direct(w, at, bytes)
  BY <1>p, WriteMoves DEF PlaceInv, Writes
<1>1. /\ stream' \in [Writers -> StreamStates]
      /\ stream'[w] \in {"good", "full", "failed"}
      /\ \A v \in Writers \ {w} : stream'[v] = stream[v]
  BY <1>m DEF FlushFails, SeekRefused, Buffered, Direct, PlaceInv, Typed, StreamStates
<1>2. /\ buf' \in [Writers -> Seq(Bytes)] /\ fd' \in [Writers -> Nat]
      /\ \A v \in Writers \ {w} : buf'[v] = buf[v] /\ fd'[v] = fd[v]
      /\ stream'[w] = "failed" => buf'[w] = << >>
  <2>0. << >> \in Seq(Bytes)
    BY EmptySeq
  <2>1. CASE FlushFails(w)
    BY <1>t, <2>1 DEF FlushFails, PlaceInv, Typed
  <2>2. CASE SeekRefused(w)
    BY <1>t, <2>0, <2>2 DEF SeekRefused, PlaceInv, Typed
  <2>3. CASE Buffered(w, at, bytes)
    BY <1>p, <1>m, <2>3 DEF Buffered, PlaceInv, Typed
  <2>4. CASE Direct(w, at, bytes)
    <3>1. PICK n \in 0 .. Len(bytes) :
            fd' = [fd EXCEPT ![w] = at + n] /\ buf' = [buf EXCEPT ![w] = << >>]
      BY <2>4 DEF Direct
    <3>2. at + n \in Nat
      BY <1>p
    <3> QED
      BY <2>0, <3>1, <3>2 DEF PlaceInv, Typed
  <2> QED
    BY <1>m, <2>1, <2>2, <2>3, <2>4
<1>3. disk' \in Disks /\ Roomy(disk')
  BY <1>m DEF FlushFails, SeekRefused, Buffered, Direct, Moved
<1>4. Typed'
  BY <1>1, <1>2, <1>3, <1>g DEF PlaceInv, Typed, negotiated
<1>5. Room'
  BY <1>3, <1>g DEF Room, Roomy, Free, Used, On
<1>6. Opened(w) /\ ~Broken(w) /\ Opened(w)'
  BY <1>1, <1>m DEF Opened, Broken
<1>7. Fresh' /\ Onward
  <2>1. \A v \in Writers : Opened(v)' <=> Opened(v)
    BY <1>1, <1>6 DEF Opened
  <2>2. \A v \in Writers : Broken(v) => Broken(v)'
    BY <1>1, <1>6 DEF Broken
  <2>3. \A v \in Writers : written[v] \subseteq written'[v] /\ written'[v] \subseteq Pieces(v)
    BY <1>g DEF PlaceInv, Typed, Fresh
  <2>4. Onward
    BY <1>g, <2>1, <2>2, <2>3 DEF Onward
  <2>5. \A v \in Writers : Pieces(v)' = Pieces(v)
    BY <1>g DEF Pieces, negotiated
  <2>6. ASSUME NEW v \in Writers
        PROVE  /\ ~Opened(v)' => buf'[v] = << >> /\ fd'[v] = 0 /\ written'[v] = {}
               /\ stream'[v] \in {"closed", "lost", "failed", "dropped"} => buf'[v] = << >>
    <3>1. CASE v = w
      BY <1>1, <1>2, <1>6, <3>1
    <3>2. CASE v # w
      <4>1. buf'[v] = buf[v] /\ fd'[v] = fd[v] /\ written'[v] = written[v]
            /\ stream'[v] = stream[v]
        BY <1>1, <1>2, <1>g, <3>2
      <4> QED
        BY <2>1, <4>1 DEF PlaceInv, Fresh
    <3> QED
      BY <3>1, <3>2
  <2>7. Fresh'
    BY <2>3, <2>5, <2>6 DEF Fresh
  <2> QED
    BY <2>4, <2>7
\* The bytes are given, and in place from at on.
<1>8. ASSUME NEW n \in Nat, NEW c \in Bytes, NEW k \in 1 .. Len(bytes), n = at + k, c = bytes[k]
      PROVE  c[1] = w /\ Placed(n, c)'
  <2>1. PICK j \in written'[w] : c = <<w, at + k - 1>> /\ InPiece(w, j, at + k - 1)
    BY <1>p, <1>8
  <2>2. at + k - 1 = n - 1
    BY <1>8, <1>p
  <2>3. c[1] = w /\ c[2] = n - 1 /\ InPiece(w, j, c[2])
    BY <2>1, <2>2
  <2>5. InPiece(w, j, c[2])'
    BY <2>3, <1>g DEF InPiece, negotiated
  <2> QED
    BY <1>6, <2>3, <2>5 DEF Placed
<1>9. ASSUME NEW p \in Paths, NEW n \in Nat, NEW c \in Bytes, n \in Stored(disk'[p]), disk'[p][n] = c
      PROVE  path'[c[1]] = p /\ Placed(n, c)'
  <2>1. ASSUME NEW d \in Disks, NEW m \in 0 .. Len(buf[w]), Moved(disk, d, w, fd[w], buf[w], m),
               n \in Stored(d[p]), d[p][n] = c
        PROVE  path'[c[1]] = p /\ Placed(n, c)'
    <3>1. path[c[1]] = p /\ Placed(n, c)
      BY <2>1, FlushedCells
    <3> QED
      BY <1>7, <1>g, <3>1, PlacedStays DEF negotiated
  <2>2. CASE FlushFails(w)
    <3>1. PICK m \in 0 .. Len(buf[w]) : Moved(disk, disk', w, fd[w], buf[w], m)
      BY <2>2 DEF FlushFails
    <3> QED
      BY <1>3, <1>9, <2>1, <3>1
  <2>3. CASE SeekRefused(w) \/ Buffered(w, at, bytes)
    <3>1. Moved(disk, disk', w, fd[w], buf[w], Len(buf[w]))
      BY <2>3 DEF SeekRefused, Buffered
    <3> QED
      BY <1>t, <1>3, <1>9, <2>1, <3>1
  <2>4. CASE Direct(w, at, bytes)
    <3>1. PICK d \in Disks, m \in 0 .. Len(bytes) :
            Moved(disk, d, w, fd[w], buf[w], Len(buf[w])) /\ Moved(d, disk', w, at, bytes, m)
      BY <2>4 DEF Direct
    <3>2. Came(d, disk', path[w], at, bytes)
      BY <1>t, <1>p, <3>1, MovedCells
    <3>3. CASE n \in Stored(d[p]) /\ d[p][n] = c
      BY <1>t, <2>1, <3>1, <3>3
    <3>4. CASE p = path[w] /\ \E k \in 1 .. Len(bytes) : n = at + k /\ c = bytes[k]
      <4>1. c[1] = w /\ Placed(n, c)'
        BY <1>8, <3>4
      <4> QED
        BY <1>g, <3>4, <4>1 DEF negotiated
    <3> QED
      BY <1>9, <3>2, <3>3, <3>4 DEF Came
  <2> QED
    BY <1>m, <2>2, <2>3, <2>4
<1>10. Cells'
  BY <1>9 DEF Cells
<1>11. ASSUME NEW v \in Writers, NEW k \in Nat, NEW n \in Nat, NEW c \in Bytes,
              k \in 1 .. Len(buf'[v]), buf'[v][k] = c, n = fd'[v] + k
       PROVE  c[1] = v /\ Placed(n, c)'
  <2>1. CASE v # w
    <3>1. buf'[v] = buf[v] /\ fd'[v] = fd[v]
      BY <1>2, <2>1
    <3>2. k \in 1 .. Len(buf[v]) /\ buf[v][k] = c /\ n = fd[v] + k
      BY <1>11, <3>1
    <3>3. c[1] = v /\ Placed(n, c)
      BY <3>2 DEF PlaceInv, Buffers
    <3> QED
      BY <1>7, <3>3, PlacedStays
  <2>2. CASE v = w /\ FlushFails(w)
    <3>1. buf'[w] = buf[w] /\ Broken(w)'
      BY <2>2 DEF FlushFails, Broken, PlaceInv, Typed
    <3>2. PICK m \in Nat : m = fd[w] + k
      BY <1>t
    <3>3. c[1] = w /\ Placed(m, c)
      BY <1>11, <2>2, <3>1, <3>2 DEF PlaceInv, Buffers
    <3>4. Placed(m, c)'
      BY <1>7, <3>3, PlacedStays
    <3> QED
      BY <2>2, <3>1, <3>3, <3>4 DEF Placed
  <2>3. CASE v = w /\ Buffered(w, at, bytes)
    <3>1. buf'[w] = bytes /\ fd'[w] = at
      BY <2>3 DEF Buffered, PlaceInv, Typed
    <3> QED
      BY <1>8, <1>11, <2>3, <3>1
  <2>4. CASE v = w /\ (Direct(w, at, bytes) \/ SeekRefused(w))
    <3>1. buf'[w] = << >>
      BY <2>4 DEF Direct, SeekRefused, PlaceInv, Typed
    <3> QED
      BY <1>11, <2>4, <3>1, EmptySeq
  <2> QED
    BY <1>m, <2>1, <2>2, <2>3, <2>4
<1>12. Buffers'
  BY <1>11 DEF Buffers
<1> QED
  BY <1>4, <1>5, <1>7, <1>10, <1>12 DEF PlaceInv

LEMMA ClosePlaces ==
  ASSUME PlaceInv, NEW w \in Writers, Close(w)
  PROVE  PlaceInv'
<1>g. UNCHANGED <<negotiated, opener, others, fd, written>>
  BY DEF Close
<1>m. PICK n \in 0 .. Len(buf[w]) :
        /\ Moved(disk, disk', w, fd[w], buf[w], n)
        /\ stream[w] \in {"good", "full", "failed"}
        /\ stream' = [stream EXCEPT ![w] = CloseState(w, n)]
        /\ buf' = [buf EXCEPT ![w] = << >>]
  BY CloseMoves DEF PlaceInv
<1>1. /\ stream' \in [Writers -> StreamStates]
      /\ stream'[w] \in {"closed", "lost", "dropped"}
      /\ stream[w] = "full" => stream'[w] = "lost"
      /\ \A v \in Writers \ {w} : stream'[v] = stream[v]
  BY <1>m DEF CloseState, StreamStates, PlaceInv, Typed
<1>2. /\ buf' \in [Writers -> Seq(Bytes)] /\ buf'[w] = << >>
      /\ \A v \in Writers \ {w} : buf'[v] = buf[v]
  BY <1>m, EmptySeq DEF PlaceInv, Typed
<1>3. disk' \in Disks /\ Roomy(disk')
  BY <1>m DEF Moved
<1>4. Typed' /\ Room'
  BY <1>1, <1>2, <1>3, <1>g DEF PlaceInv, Typed, negotiated, Room, Roomy, Free, Used, On
<1>5. Fresh' /\ Onward
  <2>1. \A v \in Writers : (Opened(v)' <=> Opened(v)) /\ (Broken(v) => Broken(v)')
    BY <1>1, <1>m DEF Opened, Broken
  <2> QED
    BY <1>1, <1>2, <1>g, <2>1 DEF PlaceInv, Fresh, Onward, Pieces, negotiated
<1>6. ASSUME NEW p \in Paths, NEW i \in Nat, NEW c \in Bytes, i \in Stored(disk'[p]), disk'[p][i] = c
      PROVE  path'[c[1]] = p /\ Placed(i, c)'
  <2>1. path[c[1]] = p /\ Placed(i, c)
    BY <1>m, <1>6, FlushedCells
  <2> QED
    BY <1>5, <1>g, <2>1, PlacedStays DEF negotiated
<1>7. Cells'
  BY <1>6 DEF Cells
<1>8. ASSUME NEW v \in Writers, NEW k \in Nat, NEW i \in Nat, NEW c \in Bytes,
             k \in 1 .. Len(buf'[v]), buf'[v][k] = c, i = fd'[v] + k
      PROVE  c[1] = v /\ Placed(i, c)'
  <2>1. v # w
    BY <1>2, <1>8, EmptySeq
  <2>2. c[1] = v /\ Placed(i, c)
    BY <1>2, <1>8, <1>g, <2>1 DEF PlaceInv, Buffers
  <2> QED
    BY <1>5, <2>2, PlacedStays
<1>9. Buffers'
  BY <1>8 DEF Buffers
<1> QED
  BY <1>4, <1>5, <1>7, <1>9 DEF PlaceInv

LEMMA InitPlaces == Init => PlaceInv
<1> SUFFICES ASSUME Init PROVE PlaceInv
  OBVIOUS
<1>1. << >> \in Seq(Cell) /\ << >> \in Seq(Bytes) /\ Len(<< >>) = 0
  BY EmptySeq
<1>2. Typed
  BY <1>1, WriterAssumption DEF Init, Typed, StreamStates, Disks
<1>3. \A p \in Paths : Stored(disk[p]) = {}
  BY DEF Init, Stored
<1>4. \A s : Used(disk, s) = {}
  BY <1>3 DEF Used
<1>5. /\ \A s \in FileSystems : Cardinality(Used(disk, s)) = 0 /\ others[s] = 0
      /\ Capacity \in Nat /\ CapacityElsewhere \in Nat
  BY <1>4, WriterAssumption, FS_EmptySet DEF Init
<1>6. Room
  BY <1>5 DEF Room, Roomy, Free
<1>7. Fresh
  BY DEF Init, Fresh
<1>8. Cells
  BY <1>3 DEF Cells
<1>9. \A w \in Writers : Len(buf[w]) = 0
  BY <1>1 DEF Init
<1>10. Buffers
  BY <1>9 DEF Buffers
<1> QED
  BY <1>2, <1>6, <1>7, <1>8, <1>10 DEF PlaceInv

LEMMA StutterPlaces ==
  ASSUME PlaceInv, UNCHANGED vars
  PROVE  PlaceInv'
<1>1. Typed' /\ Fresh' /\ Onward
  BY DEF vars, negotiated, PlaceInv, Typed, Fresh, Opened, Pieces, Onward, Broken
<1>2. Room'
  BY RoomStays DEF vars, PlaceInv
<1> QED
  BY <1>1, <1>2, QuietPlaces DEF vars

LEMMA NextPlaces ==
  ASSUME PlaceInv, [Next]_vars
  PROVE  PlaceInv'
<1>1. ASSUME NEW w \in Writers, Write(w) PROVE PlaceInv'
  <2>1. Typed /\ written[w] \subseteq Pieces(w)
    BY DEF PlaceInv, Fresh
  <2>2. CASE (\E i \in Pieces(w) : WriteGood(w, i)) \/ \E order \in EmptyOrders : WriteEmpty(w, order)
    BY <2>1, <2>2, WriteIs, WritePlaces
  <2> QED
    BY <1>1, <2>2, WriteBadPlaces, StutterPlaces DEF Write, WriteClosed
<1> QED
  BY <1>1, OtherProgramsPlaces, RefusePlaces, OpenPlaces, ClosePlaces, StutterPlaces DEF Next, Idle

LEMMA PlaceInvariant == Spec => []PlaceInv
  BY InitPlaces, NextPlaces, PTL DEF Spec

(* Whatever uploads share a disk or a path, however often the disk fills   *)
(* up under them, a byte that file_writer puts into a file is at its place *)
(* in the source it is from, as long as the disk took all that its own     *)
(* writer wrote: the buffer of the stream goes out at the position it was  *)
(* filled for, by the seek of the next piece or of an empty packet, be it  *)
(* refused, as well as by close.                                           *)
THEOREM WriterBytesInPlace == Spec => []BytesInPlace
<1>1. PlaceInv => BytesInPlace
  <2> SUFFICES ASSUME PlaceInv, NEW p \in Paths, NEW i \in DOMAIN disk[p], disk[p][i] # Hole
               PROVE  disk[p][i][2] = i - 1 \/ stream[disk[p][i][1]] \in {"full", "lost"}
    BY DEF BytesInPlace
  <2>1. disk[p] \in Seq(Cell)
    BY DEF PlaceInv, Typed, Disks
  <2>2. i \in 1 .. Len(disk[p]) /\ Len(disk[p]) \in Nat
    BY <2>1, LenProperties
  <2>3. i \in Nat /\ i \in Stored(disk[p]) /\ disk[p][i] \in Bytes
    BY <2>1, <2>2, ElementOfSeq DEF Stored, Cell
  <2>4. Placed(i, disk[p][i])
    BY <2>3 DEF PlaceInv, Cells
  <2> QED
    BY <2>4 DEF Placed, Broken
<1> QED
  BY <1>1, PlaceInvariant, PTL

-----------------------------------------------------------------------------
\* Byte b of the source of w is in the file or in the buffer.
Held(w, b) ==
  b + 1 \in Stored(disk[path[w]]) \/ (fd[w] <= b /\ b < fd[w] + Len(buf[w]))

Openers ==
  /\ \A p \in Paths : opener[p] # Nobody => Opened(opener[p]) /\ path[opener[p]] = p
  /\ \A w \in Writers : Opened(w) => opener[path[w]] # Nobody

\* What the last one that truncated the file was given is not lost.
Kept ==
  \A w \in Writers, i \in Nat, b \in Nat :
    /\ stream[w] \in {"good", "closed"} /\ opener[path[w]] = w
    /\ i \in written[w] /\ InPiece(w, i, b)
    => Held(w, b)

KeepInv == PlaceInv /\ Openers /\ Kept /\ Topped(disk)

\* A flush that succeeds puts all of the buffer into the file.
LEMMA FlushHolds ==
  ASSUME PlaceInv, NEW w \in Writers, NEW d, NEW b \in Nat, Held(w, b),
         Moved(disk, d, w, fd[w], buf[w], Len(buf[w]))
  PROVE  b + 1 \in Stored(d[path[w]])
<1>1. /\ disk \in Disks /\ path[w] \in Paths /\ fd[w] \in Nat /\ buf[w] \in Seq(Bytes)
      /\ Len(buf[w]) \in Nat
  BY LenProperties DEF PlaceInv, Typed
<1>2. Len(buf[w]) \in 0 .. Len(buf[w])
  BY <1>1
<1>3. /\ Stays(disk, d)
      /\ \A k \in 1 .. Len(buf[w]) : fd[w] + k \in Stored(d[path[w]])
  BY <1>1, <1>2, MovedCells
<1>4. CASE b + 1 \in Stored(disk[path[w]])
  BY <1>1, <1>3, <1>4 DEF Stays
<1>5. CASE fd[w] <= b /\ b < fd[w] + Len(buf[w])
  <2> DEFINE m == fd[w]
             l == Len(buf[w])
             k == b + 1 - m
  <2>1. m \in Nat /\ l \in Nat /\ m <= b /\ b < m + l
    BY <1>1, <1>5
  <2> HIDE DEF m, l
  <2>2. k \in 1 .. l /\ m + k = b + 1
    BY <2>1
  <2> QED
    BY <1>3, <2>2 DEF m, l
<1> QED
  BY <1>4, <1>5 DEF Held

\* An upload that a step does not concern keeps what it has.
LEMMA OthersKeep ==
  ASSUME KeepInv, Stays(disk, disk'), NEW v \in Writers, path'[v] = path[v],
         length'[v] = length[v], piece_size'[v] = piece_size[v], stream'[v] = stream[v],
         buf'[v] = buf[v], fd'[v] = fd[v], written'[v] = written[v],
         opener'[path[v]] = opener[path[v]],
         NEW i \in Nat, NEW b \in Nat, stream'[v] \in {"good", "closed"},
         opener'[path'[v]] = v, i \in written'[v], InPiece(v, i, b)'
  PROVE  Held(v, b)'
<1>1. path[v] \in Paths
  BY DEF KeepInv, PlaceInv, Typed
<1>2. InPiece(v, i, b)
  BY DEF InPiece
<1>3. Held(v, b)
  BY <1>2 DEF KeepInv, Kept
<1> QED
  BY <1>1, <1>3 DEF Held, Stays

LEMMA OpenKeeps ==
  ASSUME KeepInv, NEW w \in Writers, Open(w)
  PROVE  KeepInv'
<1>1. /\ UNCHANGED <<negotiated, others, buf, fd, written>>
      /\ stream[w] = "none" /\ stream' = [stream EXCEPT ![w] = "good"]
      /\ disk' = [disk EXCEPT ![path[w]] = << >>]
      /\ opener' = [opener EXCEPT ![path[w]] = w]
  BY DEF Open
<1>t. /\ disk \in Disks /\ path \in [Writers -> Paths] /\ path[w] \in Paths
      /\ opener \in [Paths -> Writers \cup {Nobody}] /\ Nobody \notin Writers
  BY WriterAssumption DEF KeepInv, PlaceInv, Typed
<1>2. PlaceInv'
  BY OpenPlaces DEF KeepInv
<1>3. /\ stream'[w] = "good" /\ \A v \in Writers \ {w} : stream'[v] = stream[v]
      /\ opener'[path[w]] = w /\ \A p \in Paths \ {path[w]} : opener'[p] = opener[p]
      /\ disk'[path[w]] = << >> /\ \A p \in Paths \ {path[w]} : disk'[p] = disk[p]
      /\ path' = path /\ length' = length /\ piece_size' = piece_size
  BY <1>1, <1>t DEF KeepInv, PlaceInv, Typed, Disks, negotiated
<1>4. written'[w] = {}
  BY <1>1 DEF KeepInv, PlaceInv, Fresh, Opened
<1>5. \A v \in Writers : Opened(v) => Opened(v)'
  BY <1>3 DEF Opened
<1>6. Opened(w)'
  BY <1>3 DEF Opened
<1>7. Openers'
  <2>1. ASSUME NEW p \in Paths, opener'[p] # Nobody
        PROVE  Opened(opener[p])' /\ path'[opener'[p]] = p
    <3>1. CASE p = path[w]
      BY <1>3, <3>1 DEF Opened
    <3>2. CASE p # path[w]
      <4>1. opener'[p] = opener[p] /\ Opened(opener[p]) /\ path[opener[p]] = p
            /\ opener[p] \in Writers
        BY <1>3, <1>t, <2>1, <3>2 DEF KeepInv, Openers
      <4>2. stream'[opener[p]] \notin {"none", "refused"}
        BY <1>3, <4>1 DEF Opened
      <4> QED
        BY <1>3, <4>1, <4>2 DEF Opened
    <3> QED
      BY <3>1, <3>2
  <2>2. ASSUME NEW v \in Writers, Opened(v)' PROVE opener'[path'[v]] # Nobody
    <3>1. CASE path[v] = path[w]
      BY <1>3, <1>t, <3>1
    <3>2. CASE path[v] # path[w]
      <4>1. v # w /\ path[v] \in Paths
        BY <1>t, <3>2
      <4>2. Opened(v)
        BY <1>3, <2>2, <4>1 DEF Opened
      <4> QED
        BY <1>3, <3>2, <4>1, <4>2 DEF KeepInv, Openers
    <3> QED
      BY <3>1, <3>2
  <2> QED
    BY <2>1, <2>2 DEF Openers
<1>8. ASSUME NEW v \in Writers, NEW i \in Nat, NEW b \in Nat, stream'[v] \in {"good", "closed"},
             opener'[path'[v]] = v, i \in written'[v], InPiece(v, i, b)'
      PROVE  Held(v, b)'
  <2>1. v # w
    BY <1>4, <1>8
  <2>2. path[v] # path[w] /\ path[v] \in Paths
    BY <1>3, <1>8, <1>t, <2>1
  <2>3. InPiece(v, i, b)
    BY <1>3, <1>8 DEF InPiece
  <2>4. Held(v, b)
    BY <1>1, <1>3, <1>8, <2>1, <2>2, <2>3 DEF KeepInv, Kept
  <2> QED
    BY <1>1, <1>3, <2>2, <2>4 DEF Held
<1>9. Kept'
  BY <1>8 DEF Kept
<1>10. Topped(disk')
  <2>1. Len(<< >>) = 0
    BY EmptySeq
  <2> QED
    BY <1>3, <2>1 DEF KeepInv, Topped
<1> QED
  BY <1>2, <1>7, <1>9, <1>10 DEF KeepInv, Topped, Stored

\* A step of w that opens no file and takes away nothing from the disk.
LEMMA WriterKeeps ==
  ASSUME KeepInv, PlaceInv', NEW w \in Writers, UNCHANGED <<negotiated, opener>>,
         \A v \in Writers : Opened(v)' <=> Opened(v),
         \A v \in Writers \ {w} : /\ stream'[v] = stream[v] /\ buf'[v] = buf[v]
                                  /\ fd'[v] = fd[v] /\ written'[v] = written[v],
         Stays(disk, disk'), Topped(disk'),
         \A i \in Nat, b \in Nat :
           stream'[w] \in {"good", "closed"} /\ opener[path[w]] = w /\ i \in written'[w]
             /\ InPiece(w, i, b) => Held(w, b)'
  PROVE  KeepInv'
<1>1. path' = path /\ length' = length /\ piece_size' = piece_size /\ opener' = opener
  BY DEF negotiated
<1>t. opener \in [Paths -> Writers \cup {Nobody}]
  BY DEF KeepInv, PlaceInv, Typed
<1>2. ASSUME NEW v \in Writers, NEW i \in Nat, NEW b \in Nat, stream'[v] \in {"good", "closed"},
             opener'[path'[v]] = v, i \in written'[v], InPiece(v, i, b)'
      PROVE  Held(v, b)'
  <2>1. CASE v = w
    <3>1. InPiece(w, i, b)
      BY <1>1, <1>2, <2>1 DEF InPiece
    <3> QED
      BY <1>1, <1>2, <2>1, <3>1
  <2>2. CASE v # w
    BY <1>1, <1>2, <2>2, OthersKeep
  <2> QED
    BY <2>1, <2>2
<1>3. Kept'
  BY <1>2 DEF Kept
<1>4. Openers'
  <2>1. \A p \in Paths : opener[p] # Nobody =>
          opener[p] \in Writers /\ Opened(opener[p]) /\ path[opener[p]] = p
    BY <1>t DEF KeepInv, Openers
  <2>2. \A v \in Writers : Opened(v)' => Opened(v)
    OBVIOUS
  <2>3. \A v \in Writers : Opened(v) => stream'[v] \notin {"none", "refused"}
    BY DEF Opened
  <2>4. \A p \in Paths : opener'[p] # Nobody => Opened(opener[p])' /\ path'[opener'[p]] = p
    BY <1>1, <2>1, <2>3 DEF Opened
  <2>5. \A v \in Writers : Opened(v)' => opener'[path'[v]] # Nobody
    BY <1>1, <2>2 DEF KeepInv, Openers
  <2> QED
    BY <2>4, <2>5 DEF Openers
<1> QED
  BY <1>3, <1>4 DEF KeepInv, Topped, Stored

LEMMA WriteKeeps ==
  ASSUME KeepInv, NEW w \in Writers, NEW at, NEW bytes, Writes(w, at, bytes)
  PROVE  KeepInv'
<1>t. /\ disk \in Disks /\ path[w] \in Paths
      /\ fd[w] \in Nat /\ buf[w] \in Seq(Bytes)
      /\ Len(buf[w]) \in Nat /\ Len(buf[w]) \in 0 .. Len(buf[w])
  BY LenProperties DEF KeepInv, PlaceInv, Typed
<1>p. /\ at \in Nat /\ bytes \in Seq(Bytes) /\ Len(bytes) \in Nat
      /\ \A j \in written'[w], b \in Nat :
           InPiece(w, j, b) => j \in written[w] \/ (at <= b /\ b < at + Len(bytes))
  BY LenProperties DEF Writes, Given
<1>g. /\ UNCHANGED <<negotiated, opener, others>>
      /\ \A v \in Writers \ {w} : written'[v] = written[v]
  BY DEF Writes, Given, SeekAndWrite
<1>m. /\ stream[w] = "good"
      /\ FlushFails(w) \/ SeekRefused(w) \/ Buffered(w, at, bytes) \/ Direct(w, at, bytes)
  BY <1>p, WriteMoves DEF KeepInv, PlaceInv, Writes
<1>1. PlaceInv'
  BY WritePlaces DEF KeepInv
<1>2. /\ \A v \in Writers \ {w} : stream'[v] = stream[v] /\ buf'[v] = buf[v] /\ fd'[v] = fd[v]
      /\ stream'[w] \in {"good", "full", "failed"}
  BY <1>m DEF FlushFails, SeekRefused, Buffered, Direct, KeepInv, PlaceInv, Typed
<1>3. \A v \in Writers : Opened(v)' <=> Opened(v)
  BY <1>2, <1>m DEF Opened
<1>p1. path'[w] = path[w]
  BY <1>g DEF negotiated
<1>4. /\ Stays(disk, disk') /\ Topped(disk')
      /\ \A j \in Nat, b \in Nat :
           stream'[w] \in {"good", "closed"} /\ opener[path[w]] = w /\ j \in written'[w]
             /\ InPiece(w, j, b) => Held(w, b)'
  <2>1. CASE FlushFails(w) \/ SeekRefused(w)
    <3>1. PICK n \in 0 .. Len(buf[w]) : Moved(disk, disk', w, fd[w], buf[w], n)
      BY <1>t, <2>1 DEF FlushFails, SeekRefused
    <3>2. Stays(disk, disk') /\ Topped(disk')
      BY <1>t, <3>1, MovedCells DEF KeepInv
    <3>3. stream'[w] \in {"full", "failed"}
      BY <2>1 DEF FlushFails, SeekRefused, KeepInv, PlaceInv, Typed
    <3> QED
      BY <3>2, <3>3
  <2>2. CASE Buffered(w, at, bytes)
    <3>1. Moved(disk, disk', w, fd[w], buf[w], Len(buf[w]))
      BY <2>2 DEF Buffered
    <3>2. Stays(disk, disk') /\ Topped(disk')
      BY <1>t, <3>1, MovedCells DEF KeepInv
    <3>3. buf'[w] = bytes /\ fd'[w] = at
      BY <2>2 DEF Buffered, KeepInv, PlaceInv, Typed
    <3>4. ASSUME NEW j \in Nat, NEW b \in Nat, opener[path[w]] = w, j \in written'[w],
                 InPiece(w, j, b)
          PROVE  Held(w, b)'
      <4>1. CASE j \in written[w]
        <5>1. Held(w, b)
          BY <1>m, <3>4, <4>1 DEF KeepInv, Kept
        <5>2. b + 1 \in Stored(disk'[path[w]])
          BY <3>1, <5>1, FlushHolds DEF KeepInv
        <5> QED
          BY <1>p1, <5>2 DEF Held
      <4>2. CASE j \notin written[w]
        <5>1. at <= b /\ b < at + Len(bytes)
          BY <1>p, <3>4, <4>2
        <5> QED
          BY <3>3, <5>1 DEF Held
      <4> QED
        BY <4>1, <4>2
    <3> QED
      BY <3>2, <3>4
  <2>3. CASE Direct(w, at, bytes)
    <3>1. PICK d \in Disks, n \in 0 .. Len(bytes) :
            /\ Moved(disk, d, w, fd[w], buf[w], Len(buf[w])) /\ Moved(d, disk', w, at, bytes, n)
            /\ stream' = [stream EXCEPT ![w] = IF n < Len(bytes) THEN "full" ELSE "good"]
      BY <2>3 DEF Direct
    <3>2. Stays(disk, d) /\ Topped(d)
      BY <1>t, <3>1, MovedCells DEF KeepInv
    <3>3. /\ Stays(d, disk') /\ Topped(disk')
          /\ \A k \in 1 .. n : at + k \in Stored(disk'[path[w]])
      BY <1>t, <1>p, <3>1, <3>2, MovedCells
    <3>4. Stays(disk, disk')
      BY <3>2, <3>3 DEF Stays
    <3>5. ASSUME NEW j \in Nat, NEW b \in Nat, stream'[w] \in {"good", "closed"},
                 opener[path[w]] = w, j \in written'[w], InPiece(w, j, b)
          PROVE  Held(w, b)'
      <4>1. CASE j \in written[w]
        <5>1. Held(w, b)
          BY <1>m, <3>5, <4>1 DEF KeepInv, Kept
        <5>2. b + 1 \in Stored(d[path[w]])
          BY <3>1, <5>1, FlushHolds DEF KeepInv
        <5>3. b + 1 \in Stored(disk'[path[w]])
          BY <1>t, <3>3, <5>2 DEF Stays
        <5> QED
          BY <1>p1, <5>3 DEF Held
      <4>2. CASE j \notin written[w]
        <5>1. ~(n < Len(bytes))
          BY <3>1, <3>5 DEF KeepInv, PlaceInv, Typed
        <5> DEFINE l == Len(bytes)
        <5>2. l \in Nat /\ n = l
          BY <1>p, <5>1
        <5>3. at <= b /\ b < at + l
          BY <1>p, <3>5, <4>2
        <5> HIDE DEF l
        <5>4. b + 1 - at \in 1 .. n /\ at + (b + 1 - at) = b + 1
          BY <1>p, <5>2, <5>3
        <5>5. b + 1 \in Stored(disk'[path[w]])
          BY <3>3, <5>4
        <5> QED
          BY <1>p1, <5>5 DEF Held
      <4> QED
        BY <4>1, <4>2
    <3> QED
      BY <3>3, <3>4, <3>5
  <2> QED
    BY <1>m, <2>1, <2>2, <2>3
<1> QED
  BY <1>1, <1>2, <1>3, <1>4, <1>g, WriterKeeps

LEMMA CloseKeeps ==
  ASSUME KeepInv, NEW w \in Writers, Close(w)
  PROVE  KeepInv'
<1>g. UNCHANGED <<negotiated, opener, others, fd, written>>
  BY DEF Close
<1>t. /\ disk \in Disks /\ path[w] \in Paths /\ fd[w] \in Nat /\ buf[w] \in Seq(Bytes)
  BY DEF KeepInv, PlaceInv, Typed
<1>m. PICK n \in 0 .. Len(buf[w]) :
        /\ Moved(disk, disk', w, fd[w], buf[w], n)
        /\ stream[w] \in {"good", "full", "failed"}
        /\ stream' = [stream EXCEPT ![w] = CloseState(w, n)]
        /\ buf' = [buf EXCEPT ![w] = << >>]
  BY CloseMoves DEF KeepInv, PlaceInv
<1>1. PlaceInv'
  BY ClosePlaces DEF KeepInv
<1>2. /\ \A v \in Writers \ {w} : /\ stream'[v] = stream[v] /\ buf'[v] = buf[v]
                                  /\ fd'[v] = fd[v] /\ written'[v] = written[v]
      /\ stream'[w] \in {"closed", "lost", "dropped"}
      /\ stream'[w] = "closed" => stream[w] = "good" /\ n = Len(buf[w])
      /\ written'[w] = written[w] /\ path'[w] = path[w]
  BY <1>g, <1>m DEF CloseState, KeepInv, PlaceInv, Typed, negotiated
<1>3. \A v \in Writers : Opened(v)' <=> Opened(v)
  BY <1>2, <1>m DEF Opened
<1>4. Stays(disk, disk') /\ Topped(disk')
  BY <1>t, <1>m, MovedCells DEF KeepInv
<1>5. ASSUME NEW j \in Nat, NEW b \in Nat, stream'[w] \in {"good", "closed"},
             opener[path[w]] = w, j \in written'[w], InPiece(w, j, b)
      PROVE  Held(w, b)'
  <2>1. stream[w] = "good" /\ n = Len(buf[w])
    BY <1>2, <1>5
  <2>2. Held(w, b)
    BY <1>2, <1>5, <2>1 DEF KeepInv, Kept
  <2>3. b + 1 \in Stored(disk'[path[w]])
    BY <1>m, <2>1, <2>2, FlushHolds DEF KeepInv
  <2> QED
    BY <1>2, <2>3 DEF Held
<1> QED
  BY <1>1, <1>2, <1>3, <1>4, <1>5, <1>g, WriterKeeps

LEMMA WriteBadKeeps ==
  ASSUME KeepInv, NEW w \in Writers, NEW i \in Pieces(w), WriteBad(w, i)
  PROVE  KeepInv'
<1>1. /\ UNCHANGED <<negotiated, disk, opener, others, stream, buf, fd>>
      /\ stream[w] \in {"full", "failed"} /\ written' = [written EXCEPT ![w] = @ \cup {i}]
  BY DEF WriteBad
<1>2. PlaceInv'
  BY WriteBadPlaces DEF KeepInv
<1>3. /\ \A v \in Writers : Opened(v)' <=> Opened(v)
      /\ \A v \in Writers \ {w} : written'[v] = written[v]
      /\ Stays(disk, disk') /\ Topped(disk') /\ stream'[w] \in {"full", "failed"}
  BY <1>1 DEF Opened, Stays, KeepInv, PlaceInv, Typed
<1> QED
  BY <1>1, <1>2, <1>3, WriterKeeps

LEMMA RefuseKeeps ==
  ASSUME KeepInv, NEW w \in Writers, Refuse(w) \/ OpenFails(w)
  PROVE  KeepInv'
<1>1. /\ UNCHANGED <<negotiated, disk, opener, others, buf, fd, written>>
      /\ stream[w] = "none" /\ stream' = [stream EXCEPT ![w] = "refused"]
  BY DEF Refuse, OpenFails
<1>2. PlaceInv'
  BY RefusePlaces DEF KeepInv
<1>3. stream'[w] = "refused" /\ \A v \in Writers \ {w} : stream'[v] = stream[v]
  BY <1>1 DEF KeepInv, PlaceInv, Typed
<1>4. /\ \A v \in Writers : Opened(v)' <=> Opened(v)
      /\ Stays(disk, disk') /\ Topped(disk')
  BY <1>1, <1>3 DEF Opened, Stays, KeepInv
<1> QED
  BY <1>1, <1>2, <1>3, <1>4, WriterKeeps

LEMMA UntouchedKeeps ==
  ASSUME KeepInv, PlaceInv', UNCHANGED <<negotiated, disk, opener, stream, buf, fd, written>>
  PROVE  KeepInv'
  BY DEF KeepInv, Openers, Opened, Kept, InPiece, Held, Topped, Stored, negotiated

LEMMA NextKeeps ==
  ASSUME KeepInv, [Next]_vars
  PROVE  KeepInv'
<1>1. CASE \E s \in FileSystems : OtherPrograms(s)
  BY <1>1, OtherProgramsPlaces, UntouchedKeeps DEF KeepInv, OtherPrograms
<1>2. CASE UNCHANGED vars
  BY <1>2, StutterPlaces, UntouchedKeeps DEF KeepInv, vars
<1>3. ASSUME NEW w \in Writers, Write(w) PROVE KeepInv'
  <2>1. Typed /\ written[w] \subseteq Pieces(w)
    BY DEF KeepInv, PlaceInv, Fresh
  <2>2. CASE (\E i \in Pieces(w) : WriteGood(w, i)) \/ \E order \in EmptyOrders : WriteEmpty(w, order)
    BY <2>1, <2>2, WriteIs, WriteKeeps
  <2> QED
    BY <1>2, <1>3, <2>2, WriteBadKeeps DEF Write, WriteClosed
<1> QED
  BY <1>1, <1>2, <1>3, RefuseKeeps, OpenKeeps, CloseKeeps DEF Next, Idle

LEMMA KeepInvariant == Spec => []KeepInv
<1>1. Init => KeepInv
  <2> SUFFICES ASSUME Init PROVE KeepInv
    OBVIOUS
  <2>1. PlaceInv
    BY InitPlaces
  <2>2. \A w \in Writers : ~Opened(w)
    BY DEF Init, Opened
  <2>3. Openers /\ Kept
    BY <2>2 DEF Init, Openers, Kept
  <2>4. Topped(disk)
    BY EmptySeq DEF Init, Topped
  <2> QED
    BY <2>1, <2>3, <2>4 DEF KeepInv
<1> QED
  BY <1>1, NextKeeps, PTL DEF Spec

LEMMA Divided ==
  ASSUME NEW b \in Nat, NEW n \in Nat, n > 0
  PROVE  \E i \in Nat : i * n <= b /\ b < i * n + n /\ i <= b
<1> DEFINE i == b \div n
<1>1. i \in Nat
  OBVIOUS
<1>2. i * n <= b /\ b < i * n + n
  OBVIOUS
<1>3. i <= i * n
  BY <1>1
<1>4. i * n \in Nat
  BY <1>1
<1> HIDE DEF i
<1>5. i <= b
  BY <1>1, <1>2, <1>3, <1>4
<1> QED
  BY <1>1, <1>2, <1>5

\* The pieces make up the whole of the source.
LEMMA PiecesCover ==
  ASSUME Typed, NEW w \in Writers, NEW b \in Nat, b < length[w]
  PROVE  \E i \in Pieces(w) : i \in Nat /\ InPiece(w, i, b)
<1>1. length[w] \in Nat /\ piece_size[w] \in Nat /\ piece_size[w] > 0
  BY DEF Typed
<1>2. PICK i \in Nat : i * piece_size[w] <= b /\ b < i * piece_size[w] + piece_size[w] /\ i <= b
  BY <1>1, Divided
<1>3. i * piece_size[w] \in Nat
  BY <1>1
<1> DEFINE at == i * piece_size[w]
<1>4. at \in Nat /\ at <= b /\ b < at + piece_size[w]
  BY <1>2, <1>3
<1> HIDE DEF at
<1>5. i \in 0 .. length[w] /\ at < length[w]
  BY <1>1, <1>2, <1>4
<1> QED
  BY <1>4, <1>5 DEF Pieces, InPiece, at

(* Two uploads to one path: the one that opened the file last and was      *)
(* given all of its pieces leaves a file that is as long as its source and *)
(* has no hole in it, whatever the other one, which may still have the     *)
(* file open, wrote before, between and after.                             *)
THEOREM WriterLeavesNoHole == Spec => []LastOpenerHasNoHole
<1>1. KeepInv => LastOpenerHasNoHole
  <2> SUFFICES ASSUME KeepInv, NEW w \in Writers, stream[w] = "closed",
                      opener[path[w]] = w, written[w] = Pieces(w)
               PROVE  /\ Len(disk[path[w]]) >= length[w]
                      /\ \A i \in 1 .. length[w] : disk[path[w]][i] # Hole
    BY DEF LastOpenerHasNoHole
  <2> DEFINE f == disk[path[w]]
  <2>1. length[w] \in Nat /\ f \in Seq(Cell) /\ fd[w] \in Nat
    BY DEF KeepInv, PlaceInv, Typed, Disks
  <2>2. Len(f) \in Nat /\ DOMAIN f = 1 .. Len(f)
    BY <2>1, LenProperties
  <2>3. buf[w] = << >>
    BY DEF KeepInv, PlaceInv, Fresh
  <2>4. ASSUME NEW b \in Nat, b < length[w] PROVE b + 1 \in Stored(f)
    <3>1. PICK i \in Pieces(w) : i \in Nat /\ InPiece(w, i, b)
      BY <2>4, PiecesCover DEF KeepInv, PlaceInv
    <3>2. Held(w, b)
      BY <3>1 DEF KeepInv, Kept
    <3>3. ~(fd[w] <= b /\ b < fd[w] + Len(buf[w]))
      <4>1. Len(buf[w]) = 0
        BY <2>3, EmptySeq
      <4> QED
        BY <2>1, <4>1
    <3> QED
      BY <3>2, <3>3 DEF Held
  <2>5. ASSUME NEW i \in 1 .. length[w] PROVE i \in Stored(f)
    <3>1. i - 1 \in Nat /\ i - 1 < length[w] /\ (i - 1) + 1 = i
      BY <2>1
    <3> QED
      BY <2>4, <3>1
  <2> HIDE DEF f
  <2>6. Len(f) >= length[w]
    <3>1. CASE length[w] = 0
      BY <2>2, <3>1
    <3>2. CASE length[w] # 0
      <4>1. length[w] \in 1 .. length[w]
        BY <2>1, <3>2
      <4>2. length[w] \in 1 .. Len(f)
        BY <2>2, <2>5, <4>1 DEF Stored
      <4> QED
        BY <2>1, <2>2, <4>2
    <3> QED
      BY <3>1, <3>2
  <2> QED
    BY <2>5, <2>6 DEF Stored, f
<1> QED
  BY <1>1, KeepInvariant, PTL
-----------------------------------------------------------------------------
\* The bytes that Source puts together.
SourceBytes(w) ==
  UNION {{Piece(w, i)[k] : k \in DOMAIN Piece(w, i)} : i \in written[w]}

LEMMA SourceBytesAre ==
  ASSUME PlaceInv, NEW w \in Writers
  PROVE  /\ SourceBytes(w) \subseteq {w} \X Nat
         /\ \A b \in Nat : <<w, b>> \in SourceBytes(w) <=>
              \E i \in written[w] : i \in Nat /\ InPiece(w, i, b)
<1>1. written[w] \subseteq Pieces(w)
  BY DEF PlaceInv, Fresh
<1>2. ASSUME NEW c \in SourceBytes(w)
      PROVE  c \in {w} \X Nat /\ \E i \in written[w] : i \in Nat /\ InPiece(w, i, c[2])
  <2>1. PICK i \in written[w] : c \in {Piece(w, i)[k] : k \in DOMAIN Piece(w, i)}
    BY <1>2 DEF SourceBytes
  <2>2. i \in Pieces(w)
    BY <1>1
  <2>3. /\ i \in Nat /\ Piece(w, i) \in Seq(Bytes)
        /\ \A k \in 1 .. Len(Piece(w, i)) :
             /\ Piece(w, i)[k] = <<w, i * piece_size[w] + k - 1>>
             /\ i * piece_size[w] + k - 1 \in Nat
             /\ InPiece(w, i, i * piece_size[w] + k - 1)
    BY <2>2, PieceIs DEF PlaceInv
  <2>4. PICK k \in 1 .. Len(Piece(w, i)) : c = Piece(w, i)[k]
    BY <2>1, <2>3, LenProperties
  <2>5. PICK b \in Nat : c = <<w, b>> /\ InPiece(w, i, b)
    BY <2>3, <2>4
  <2>6. c \in {w} \X Nat /\ c[2] = b
    BY <2>5
  <2> QED
    BY <2>3, <2>5, <2>6
<1>3. ASSUME NEW b \in Nat, NEW i \in written[w], InPiece(w, i, b)
      PROVE  <<w, b>> \in SourceBytes(w)
  <2>1. i \in Pieces(w)
    BY <1>1
  <2> DEFINE at == i * piece_size[w]
             l == Len(Piece(w, i))
             k == b + 1 - at
  <2>2. /\ at \in Nat /\ Piece(w, i) \in Seq(Bytes) /\ l \in Nat
        /\ \A j \in 1 .. l : Piece(w, i)[j] = <<w, at + j - 1>>
        /\ at <= b /\ b < at + l
    BY <1>3, <2>1, PieceIs DEF PlaceInv
  <2>3. DOMAIN Piece(w, i) = 1 .. l
    BY <2>2, LenProperties
  <2> HIDE DEF at, l
  <2>4. k \in 1 .. l /\ at + k - 1 = b
    BY <2>2
  <2>5. Piece(w, i)[k] = <<w, b>>
    BY <2>2, <2>4
  <2> HIDE DEF k
  <2>6. <<w, b>> \in {Piece(w, i)[j] : j \in DOMAIN Piece(w, i)}
    BY <2>3, <2>4, <2>5
  <2> QED
    BY <2>6 DEF SourceBytes
<1> QED
  BY <1>2, <1>3

\* The path of an upload that is alone on it was truncated by this upload, and
\* all that is in the file is from its pieces.
LEMMA AloneOnPath ==
  ASSUME KeepInv, NEW w \in Writers, stream[w] = "closed",
         \A v \in Writers \ {w} : path[v] = path[w] => ~Opened(v)
  PROVE  \A b \in Nat :
           /\ b + 1 \in Stored(disk[path[w]]) <=> <<w, b>> \in SourceBytes(w)
           /\ b + 1 \in Stored(disk[path[w]]) => disk[path[w]][b + 1] = <<w, b>>
<1> DEFINE f == disk[path[w]]
<1>t. /\ path \in [Writers -> Paths] /\ path[w] \in Paths /\ f \in Seq(Cell)
      /\ opener \in [Paths -> Writers \cup {Nobody}] /\ fd[w] \in Nat
  BY DEF KeepInv, PlaceInv, Typed, Disks
<1>1. opener[path[w]] = w
  <2>1. Opened(w)
    BY DEF Opened
  <2>2. opener[path[w]] \in Writers /\ Opened(opener[path[w]])
        /\ path[opener[path[w]]] = path[w]
    BY <1>t, <2>1 DEF KeepInv, Openers
  <2> QED
    BY <2>2
<1>2. Len(buf[w]) = 0
  BY EmptySeq DEF KeepInv, PlaceInv, Fresh
<1>3. ASSUME NEW b \in Nat, b + 1 \in Stored(f)
      PROVE  f[b + 1] = <<w, b>> /\ <<w, b>> \in SourceBytes(w)
  <2>1. f[b + 1] # Hole /\ b + 1 \in 1 .. Len(f)
    BY <1>3, <1>t, LenProperties DEF Stored
  <2>2. PICK c \in Bytes : f[b + 1] = c
    BY <1>t, <2>1, ElementOfSeq DEF Cell
  <2>3. b + 1 \in Nat
    OBVIOUS
  <2>4. path[c[1]] = path[w] /\ Placed(b + 1, c)
    BY <1>3, <1>t, <2>2, <2>3 DEF KeepInv, PlaceInv, Cells
  <2>5. c[1] = w
    BY <2>4 DEF Placed, Bytes
  <2>6. c[2] = b + 1 - 1
    BY <2>4, <2>5 DEF Placed, Broken
  <2>7. c[2] = b
    BY <2>6
  <2>8. c = <<w, b>>
    BY <2>5, <2>7 DEF Bytes
  <2>9. PICK i \in written[w] : InPiece(w, i, b)
    BY <2>4, <2>5, <2>7 DEF Placed
  <2>10. i \in Nat
    BY DEF KeepInv, PlaceInv, Typed
  <2> QED
    BY <2>2, <2>8, <2>9, <2>10, SourceBytesAre DEF KeepInv
<1>4. ASSUME NEW b \in Nat, <<w, b>> \in SourceBytes(w)
      PROVE  b + 1 \in Stored(f)
  <2>1. PICK i \in written[w] : i \in Nat /\ InPiece(w, i, b)
    BY <1>4, SourceBytesAre DEF KeepInv
  <2>2. Held(w, b)
    BY <1>1, <2>1 DEF KeepInv, Kept
  <2>3. ~(fd[w] <= b /\ b < fd[w] + Len(buf[w]))
    BY <1>t, <1>2
  <2> QED
    BY <2>2, <2>3 DEF Held
<1> QED
  BY <1>3, <1>4

(* A file that one upload opened, and closed without an error, holds       *)
(* exactly the pieces it was given: in whatever order they came, whichever *)
(* of them went through the buffer of the stream, and to the last byte of  *)
(* the length of the file.                                                 *)
THEOREM WriterHoldsWritten == Spec => []ClosedHoldsWritten
<1>1. KeepInv => ClosedHoldsWritten
  <2> SUFFICES ASSUME KeepInv, NEW w \in Writers, stream[w] = "closed",
                      \A v \in Writers \ {w} : path[v] = path[w] => ~Opened(v)
               PROVE  disk[path[w]] = Source(w)
    BY DEF ClosedHoldsWritten
  <2> DEFINE f == disk[path[w]]
             bytes == SourceBytes(w)
             ends == {0} \cup {b[2] + 1 : b \in bytes}
  <2>1. f \in Seq(Cell) /\ path[w] \in Paths
    BY DEF KeepInv, PlaceInv, Typed, Disks
  <2>2. Len(f) \in Nat /\ DOMAIN f = 1 .. Len(f) /\ f \in [1 .. Len(f) -> Cell]
    BY <2>1, LenProperties
  <2>3. Len(f) = 0 \/ Len(f) \in Stored(f)
    BY <2>1 DEF KeepInv, Topped
  <2>4. \A b \in Nat : /\ b + 1 \in Stored(f) <=> <<w, b>> \in bytes
                       /\ b + 1 \in Stored(f) => f[b + 1] = <<w, b>>
    BY AloneOnPath
  <2>5. bytes \subseteq {w} \X Nat
    BY SourceBytesAre DEF KeepInv
  <2>s. Source(w) = [i \in 1 .. Max(ends) |-> IF <<w, i - 1>> \in bytes THEN <<w, i - 1>> ELSE Hole]
    BY DEF Source, SourceBytes
  <2> HIDE DEF f, bytes
  <2>6. ASSUME NEW i \in 1 .. Len(f)
        PROVE  f[i] = IF <<w, i - 1>> \in bytes THEN <<w, i - 1>> ELSE Hole
    <3>1. PICK b \in Nat : i = b + 1 /\ b = i - 1
      BY <2>2
    <3>2. b + 1 \in Stored(f) <=> f[i] # Hole
      BY <2>2, <3>1 DEF Stored
    <3> QED
      BY <2>4, <3>1, <3>2
  <2>7. ASSUME NEW b \in bytes PROVE b[2] + 1 \in Int /\ b[2] + 1 <= Len(f)
    <3>1. b = <<w, b[2]>> /\ b[2] \in Nat
      BY <2>5
    <3>2. b[2] + 1 \in Stored(f)
      BY <2>4, <3>1
    <3>3. b[2] + 1 \in 1 .. Len(f)
      BY <2>2, <3>2 DEF Stored
    <3> QED
      BY <2>2, <3>3
  <2>8. Len(f) \in ends
    <3>1. CASE Len(f) = 0
      BY <3>1
    <3>2. CASE Len(f) # 0
      <4>1. PICK b \in Nat : b + 1 = Len(f)
        <5> DEFINE b == Len(f) - 1
        <5>1. b \in Nat /\ b + 1 = Len(f)
          BY <2>2, <3>2
        <5> HIDE DEF b
        <5> QED
          BY <5>1, Zenon
      <4>2. <<w, b>> \in bytes
        BY <2>3, <2>4, <3>2, <4>1
      <4>3. <<w, b>>[2] + 1 = Len(f)
        BY <4>1
      <4> QED
        BY <4>2, <4>3
    <3> QED
      BY <3>1, <3>2
  <2>9. ends \in SUBSET Int /\ \A n \in ends : n <= Len(f)
    BY <2>2, <2>7
  <2> HIDE DEF ends
  <2>10. Max(ends) = Len(f)
    BY <2>8, <2>9, MaxIs
  <2>11. f = [i \in 1 .. Len(f) |-> f[i]]
    BY <2>2
  <2>12. f = Source(w)
    BY <2>s, <2>6, <2>10, <2>11
  <2> QED
    BY <2>12 DEF f
<1> QED
  BY <1>1, KeepInvariant, PTL
-----------------------------------------------------------------------------
\* No upload but w has opened a file, no other program took space, and the file
\* system that was looked at is the one of its file, which is not too long.
AloneOnDisk(w) ==
  /\ path[w] \notin Elsewhere /\ length[w] <= LargestFile
  /\ others["current"] = 0 /\ \A v \in Writers \ {w} : ~Opened(v)

Lone ==
  \A w \in Writers : Opened(w) /\ AloneOnDisk(w) =>
    /\ length[w] <= Capacity /\ Len(disk[path[w]]) <= length[w]
    /\ Len(buf[w]) = 0 \/ fd[w] + Len(buf[w]) <= length[w]
    /\ ~Broken(w)

\* A disk with one file has room for it if it is not longer than the disk.
LEMMA RoomForOne ==
  ASSUME NEW d \in Disks, NEW p \in Paths \ Elsewhere, others["current"] = 0, NEW n \in Nat,
         n <= Capacity, Len(d[p]) <= n, \A q \in Paths \ {p} : Len(d[q]) = 0
  PROVE  Free(d, On(p)) >= 0
<1>1. \A q \in Paths : Len(d[q]) \in Nat /\ DOMAIN d[q] = 1 .. Len(d[q])
  BY LenProperties DEF Disks
<1>2. ASSUME NEW q \in Paths \ {p} PROVE Stored(d[q]) = {}
  BY <1>1, <1>2 DEF Stored
<1>3. Stored(d[p]) \subseteq 1 .. n
  <2>1. \A i \in 1 .. Len(d[p]) : i \in 1 .. n
    BY <1>1
  <2> QED
    BY <1>1, <2>1 DEF Stored
<1>4. Used(d, "current") \subseteq {p} \X (1 .. n)
  BY <1>2, <1>3 DEF Used
<1>5. IsFiniteSet(1 .. n) /\ Cardinality(1 .. n) = n
  <2>1. 1 \in Int /\ n \in Int
    OBVIOUS
  <2>2. IsFiniteSet(1 .. n) /\ Cardinality(1 .. n) = IF 1 > n THEN 0 ELSE n - 1 + 1
    BY <2>1, FS_Interval, Zenon
  <2> QED
    BY <2>2
<1>6. IsFiniteSet({p}) /\ Cardinality({p}) = 1
  BY FS_Singleton
<1>7. IsFiniteSet({p} \X (1 .. n)) /\ Cardinality({p} \X (1 .. n)) = n
  <2>1. /\ IsFiniteSet({p} \X (1 .. n))
        /\ Cardinality({p} \X (1 .. n)) = Cardinality({p}) * Cardinality(1 .. n)
    BY <1>5, <1>6, FS_Product, Zenon
  <2> QED
    BY <1>5, <1>6, <2>1
<1>8. Cardinality(Used(d, "current")) <= n
  BY <1>4, <1>7, FS_Subset
<1>9. Cardinality(Used(d, "current")) \in Nat /\ Capacity \in Nat
  BY UsedIsFinite, WriterAssumption
<1> QED
  BY <1>8, <1>9 DEF Free, On

\* bytes, put at a place of the only file of the disk, make it no longer than
\* l, which the disk and a file can hold.
RoomFor(d, w, at, bytes, l) ==
  /\ d \in Disks /\ w \in Writers /\ path[w] \in Paths \ Elsewhere
  /\ at \in Nat /\ bytes \in Seq(Bytes)
  /\ others["current"] = 0 /\ l \in Nat /\ l <= Capacity /\ l <= LargestFile
  /\ Len(d[path[w]]) <= l /\ (Len(bytes) = 0 \/ at + Len(bytes) <= l)
  /\ \A q \in Paths \ {path[w]} : Len(d[q]) = 0

\* Such a file takes what is written into it.
LEMMA MovedFits ==
  ASSUME NEW d, NEW e, NEW w, NEW at, NEW bytes, NEW n \in 0 .. Len(bytes), NEW l,
         RoomFor(d, w, at, bytes, l), Moved(d, e, w, at, bytes, n)
  PROVE  /\ n = Len(bytes) /\ Len(e[path[w]]) <= l
         /\ \A q \in Paths \ {path[w]} : Len(e[q]) = 0
<1>a. /\ d \in Disks /\ w \in Writers /\ path[w] \in Paths \ Elsewhere
      /\ at \in Nat /\ bytes \in Seq(Bytes)
      /\ others["current"] = 0 /\ l \in Nat /\ l <= Capacity /\ l <= LargestFile
      /\ Len(d[path[w]]) <= l /\ (Len(bytes) = 0 \/ at + Len(bytes) <= l)
      /\ \A q \in Paths \ {path[w]} : Len(d[q]) = 0
  BY DEF RoomFor
<1> DEFINE p == path[w]
           m == Len(bytes)
           x == After(d, p, at, bytes, m)
<1>1. m \in Nat /\ m \in 0 .. m /\ LargestFile \in Nat
  BY <1>a, LenProperties, WriterAssumption
<1>2. n = m
  <2>1. CASE m = 0
    BY <2>1
  <2>2. CASE m # 0
    <3>1. m > 0
      BY <1>1, <2>2
    <3>2. /\ x \in Disks /\ \A q \in Paths \ {p} : x[q] = d[q]
          /\ Wrote(d[p], x[p], at, bytes, m)
      <4>1. p \in Paths /\ m \in 0 .. Len(bytes)
        BY <1>1, <1>a
      <4> HIDE DEF p, m
      <4> QED
        BY <1>a, <3>1, <4>1, AfterIs
    <3>3. Len(x[p]) <= l
      BY <1>a, <2>2, <3>2 DEF Wrote
    <3>4. Free(x, On(p)) >= 0
      BY <1>a, <3>2, <3>3, RoomForOne
    <3>f. at + m <= LargestFile
      BY <1>1, <1>a, <2>2
    <3>5. m <= n
      <4>1. Fits(d, p, at, bytes, m)
        BY <3>4, <3>f DEF Fits, After
      <4> QED
        BY <1>1, <4>1 DEF Moved
    <3> QED
      BY <1>1, <3>5
  <2> QED
    BY <2>1, <2>2
<1>3. Len(e[p]) <= l
  <2>1. Wrote(d[p], e[p], at, bytes, m)
    BY <1>2 DEF Moved
  <2>2. Len(e[p]) = IF m > 0 /\ at + m > Len(d[p]) THEN at + m ELSE Len(d[p])
    BY <2>1 DEF Wrote
  <2> HIDE DEF m, p
  <2> QED
    BY <1>a, <2>2 DEF m, p
<1>4. \A q \in Paths \ {p} : Len(e[q]) = 0
  BY <1>a DEF Moved
<1> QED
  BY <1>2, <1>3, <1>4

LEMMA EmptyIfUnopened ==
  ASSUME KeepInv, NEW p \in Paths, \A v \in Writers : Opened(v) => path[v] # p
  PROVE  Len(disk[p]) = 0
<1>1. disk[p] \in Seq(Cell)
  BY DEF KeepInv, PlaceInv, Typed, Disks
<1>2. SUFFICES ASSUME Len(disk[p]) # 0 PROVE FALSE
  OBVIOUS
<1>3. Len(disk[p]) \in Stored(disk[p])
  BY <1>2 DEF KeepInv, Topped
<1>4. Len(disk[p]) \in 1 .. Len(disk[p]) /\ disk[p][Len(disk[p])] # Hole /\ Len(disk[p]) \in Nat
  BY <1>1, <1>3, LenProperties DEF Stored
<1>5. PICK c \in Bytes : c = disk[p][Len(disk[p])]
  BY <1>1, <1>4, ElementOfSeq DEF Cell
<1>6. path[c[1]] = p /\ Placed(Len(disk[p]), c)
  BY <1>3, <1>4, <1>5 DEF KeepInv, PlaceInv, Cells
<1> QED
  BY <1>6 DEF Placed, Bytes

LEMMA OpenFits ==
  ASSUME KeepInv, NEW w \in Writers, Open(w), AloneOnDisk(w)'
  PROVE  /\ length[w] <= Capacity /\ Len(disk'[path'[w]]) <= length[w]
         /\ Len(buf'[w]) = 0 /\ ~Broken(w)'
<1>1. /\ UNCHANGED <<negotiated, others, buf, fd, written>>
      /\ stream[w] = "none" /\ stream' = [stream EXCEPT ![w] = "good"]
      /\ disk' = [disk EXCEPT ![path[w]] = << >>] /\ Free(disk, "current") >= length[w]
  BY DEF Open
<1>t. /\ disk \in Disks /\ path[w] \in Paths /\ length[w] \in Nat /\ Capacity \in Nat
      /\ Len(<< >>) = 0
  BY EmptySeq, WriterAssumption DEF KeepInv, PlaceInv, Typed
<1>2. \A v \in Writers : ~Opened(v)
  <2>1. stream'[w] = "good" /\ \A v \in Writers \ {w} : stream'[v] = stream[v]
    BY <1>1 DEF KeepInv, PlaceInv, Typed
  <2> QED
    BY <1>1, <2>1 DEF AloneOnDisk, Opened
<1>3. \A p \in Paths : Len(disk[p]) = 0
  BY <1>2, EmptyIfUnopened
<1>4. \A p \in Paths : Stored(disk[p]) = {}
  BY <1>t, <1>3, LenProperties DEF Stored, Disks
<1>5. Used(disk, "current") = {}
  BY <1>4 DEF Used
<1>6. Free(disk, "current") = Capacity
  <2>1. others["current"] = 0
    BY <1>1 DEF AloneOnDisk
  <2>2. Cardinality(Used(disk, "current")) = 0
    BY <1>5, FS_EmptySet
  <2> QED
    BY <1>t, <2>1, <2>2 DEF Free
<1>7. buf[w] = << >>
  BY <1>2 DEF KeepInv, PlaceInv, Fresh
<1>8. disk'[path'[w]] = << >> /\ stream'[w] = "good"
  BY <1>1, <1>t DEF Disks, KeepInv, PlaceInv, Typed, negotiated
<1>9. Len(buf'[w]) = 0
  BY <1>1, <1>t, <1>7
<1> QED
  BY <1>1, <1>6, <1>8, <1>9, <1>t DEF Broken

LEMMA WriteFits ==
  ASSUME KeepInv, Lone, NEW w \in Writers, NEW at, NEW bytes, Writes(w, at, bytes), AloneOnDisk(w)
  PROVE  /\ length[w] <= Capacity /\ Len(disk'[path[w]]) <= length[w]
         /\ Len(buf'[w]) = 0 \/ fd'[w] + Len(buf'[w]) <= length[w]
         /\ stream'[w] \in {"good", "failed"}
<1>t. /\ disk \in Disks /\ path[w] \in Paths /\ length[w] \in Nat
      /\ fd[w] \in Nat /\ buf[w] \in Seq(Bytes)
      /\ Len(buf[w]) \in Nat /\ Len(buf[w]) \in 0 .. Len(buf[w])
      /\ fd \in [Writers -> Nat] /\ buf \in [Writers -> Seq(Bytes)]
  BY LenProperties DEF KeepInv, PlaceInv, Typed
<1>p. /\ at \in Nat /\ bytes \in Seq(Bytes) /\ Len(bytes) \in Nat
      /\ Len(bytes) = 0 \/ at + Len(bytes) <= length[w]
  BY LenProperties DEF Writes, Given
<1>m. /\ stream[w] = "good"
      /\ FlushFails(w) \/ SeekRefused(w) \/ Buffered(w, at, bytes) \/ Direct(w, at, bytes)
  BY <1>p, WriteMoves DEF KeepInv, PlaceInv, Writes
<1>1. /\ length[w] <= Capacity /\ Len(disk[path[w]]) <= length[w]
      /\ Len(buf[w]) = 0 \/ fd[w] + Len(buf[w]) <= length[w]
  BY <1>m DEF Lone, Opened
<1>a. path[w] \notin Elsewhere /\ length[w] <= LargestFile /\ others["current"] = 0
  BY DEF AloneOnDisk
<1>2. \A q \in Paths \ {path[w]} : Len(disk[q]) = 0
  BY EmptyIfUnopened DEF AloneOnDisk
<1>e. Len(<< >>) = 0
  BY EmptySeq
<1>3. ASSUME NEW d, NEW n \in 0 .. Len(buf[w]), Moved(disk, d, w, fd[w], buf[w], n)
      PROVE  /\ n = Len(buf[w]) /\ Len(d[path[w]]) <= length[w] /\ d \in Disks
             /\ \A q \in Paths \ {path[w]} : Len(d[q]) = 0
  <2>1. d \in Disks
    BY <1>3 DEF Moved
  <2>2. RoomFor(disk, w, fd[w], buf[w], length[w])
    BY <1>t, <1>1, <1>2, <1>a DEF RoomFor
  <2> QED
    BY <1>3, <2>1, <2>2, MovedFits
<1>4. CASE FlushFails(w)
  <2>1. PICK n \in 0 .. Len(buf[w]) : n < Len(buf[w]) /\ Moved(disk, disk', w, fd[w], buf[w], n)
    BY <1>4 DEF FlushFails
  <2>2. n = Len(buf[w])
    BY <1>3, <2>1
  <2> QED
    BY <1>t, <2>1, <2>2
<1>s. CASE SeekRefused(w)
  <2>1. /\ Moved(disk, disk', w, fd[w], buf[w], Len(buf[w]))
        /\ stream'[w] = "failed" /\ buf'[w] = << >>
    BY <1>t, <1>s DEF SeekRefused, KeepInv, PlaceInv, Typed
  <2>2. Len(disk'[path[w]]) <= length[w]
    BY <1>t, <1>3, <2>1
  <2> QED
    BY <1>1, <1>e, <2>1, <2>2
<1>5. CASE Buffered(w, at, bytes)
  <2>1. /\ Moved(disk, disk', w, fd[w], buf[w], Len(buf[w])) /\ stream' = stream
        /\ fd'[w] = at /\ buf'[w] = bytes
    BY <1>t, <1>5 DEF Buffered
  <2>2. Len(disk'[path[w]]) <= length[w]
    BY <1>t, <1>3, <2>1
  <2> QED
    BY <1>p, <1>m, <1>1, <2>1, <2>2
<1>6. CASE Direct(w, at, bytes)
  <2>1. PICK d \in Disks, n \in 0 .. Len(bytes) :
          /\ Moved(disk, d, w, fd[w], buf[w], Len(buf[w])) /\ Moved(d, disk', w, at, bytes, n)
          /\ stream' = [stream EXCEPT ![w] = IF n < Len(bytes) THEN "full" ELSE "good"]
          /\ buf' = [buf EXCEPT ![w] = << >>]
    BY <1>6 DEF Direct
  <2>2. Len(d[path[w]]) <= length[w] /\ \A q \in Paths \ {path[w]} : Len(d[q]) = 0
    BY <1>t, <1>3, <2>1
  <2>3. n = Len(bytes) /\ Len(disk'[path[w]]) <= length[w]
    <3>1. RoomFor(d, w, at, bytes, length[w])
      BY <1>t, <1>p, <1>1, <1>a, <2>2 DEF RoomFor
    <3> QED
      BY <2>1, <3>1, MovedFits
  <2>4. stream'[w] = "good"
    BY <1>p, <2>1, <2>3 DEF KeepInv, PlaceInv, Typed
  <2>5. buf'[w] = << >>
    BY <1>t, <2>1
  <2> QED
    BY <1>1, <1>e, <2>3, <2>4, <2>5
<1> QED
  BY <1>m, <1>4, <1>s, <1>5, <1>6

LEMMA CloseFits ==
  ASSUME KeepInv, Lone, NEW w \in Writers, Close(w), AloneOnDisk(w)
  PROVE  /\ length[w] <= Capacity /\ Len(disk'[path[w]]) <= length[w]
         /\ Len(buf'[w]) = 0 /\ stream'[w] \in {"closed", "dropped"}
<1>t. /\ disk \in Disks /\ path[w] \in Paths /\ length[w] \in Nat
      /\ fd[w] \in Nat /\ buf[w] \in Seq(Bytes) /\ Len(buf[w]) \in Nat
  BY LenProperties DEF KeepInv, PlaceInv, Typed
<1>m. PICK n \in 0 .. Len(buf[w]) :
        /\ Moved(disk, disk', w, fd[w], buf[w], n)
        /\ stream[w] \in {"good", "full", "failed"}
        /\ stream' = [stream EXCEPT ![w] = CloseState(w, n)]
        /\ buf' = [buf EXCEPT ![w] = << >>]
  BY CloseMoves DEF KeepInv, PlaceInv
<1>1. /\ length[w] <= Capacity /\ Len(disk[path[w]]) <= length[w]
      /\ Len(buf[w]) = 0 \/ fd[w] + Len(buf[w]) <= length[w]
      /\ stream[w] \in {"good", "failed"}
  BY <1>m DEF Lone, Opened, Broken
<1>a. path[w] \notin Elsewhere /\ length[w] <= LargestFile /\ others["current"] = 0
  BY DEF AloneOnDisk
<1>2. \A q \in Paths \ {path[w]} : Len(disk[q]) = 0
  BY EmptyIfUnopened DEF AloneOnDisk
<1>3. n = Len(buf[w]) /\ Len(disk'[path[w]]) <= length[w]
  <2>1. PICK d : d = disk' /\ Moved(disk, d, w, fd[w], buf[w], n)
    BY <1>m
  <2>2. RoomFor(disk, w, fd[w], buf[w], length[w])
    BY <1>t, <1>1, <1>2, <1>a DEF RoomFor
  <2>3. n = Len(buf[w]) /\ Len(d[path[w]]) <= length[w]
    BY <2>1, <2>2, MovedFits
  <2> QED
    BY <2>1, <2>3
<1>4. stream'[w] \in {"closed", "dropped"}
  BY <1>m, <1>1, <1>3 DEF CloseState, KeepInv, PlaceInv, Typed
<1>5. buf'[w] = << >> /\ Len(<< >>) = 0
  BY <1>m, EmptySeq DEF KeepInv, PlaceInv, Typed
<1> QED
  BY <1>1, <1>3, <1>4, <1>5

\* A step that leaves it open which uploads have a file.
LEMMA NextLone ==
  ASSUME KeepInv, Lone, [Next]_vars
  PROVE  Lone'
<1> SUFFICES ASSUME NEW v \in Writers, Opened(v)', AloneOnDisk(v)'
             PROVE  /\ length'[v] <= Capacity /\ Len(disk'[path'[v]]) <= length'[v]
                    /\ Len(buf'[v]) = 0 \/ fd'[v] + Len(buf'[v]) <= length'[v]
                    /\ ~Broken(v)'
  BY DEF Lone
<1>1. CASE \E s \in FileSystems : OtherPrograms(s)
  <2>1. PICK s \in FileSystems : OtherPrograms(s)
    BY <1>1
  <2>2. /\ others[s] \in Nat /\ others' = [others EXCEPT ![s] = @ + 1]
        /\ UNCHANGED <<negotiated, disk, stream, buf, fd>>
        /\ others \in [FileSystems -> Nat]
    BY <2>1 DEF OtherPrograms, KeepInv, PlaceInv, Typed
  <2>3. s # "current" /\ others'["current"] = others["current"]
    BY <2>2 DEF AloneOnDisk, FileSystems
  <2> QED
    BY <2>2, <2>3 DEF Lone, AloneOnDisk, Opened, Broken, negotiated
<1>2. CASE UNCHANGED vars
  BY <1>2 DEF vars, negotiated, Lone, AloneOnDisk, Opened, Broken
<1>3. CASE \E w \in Writers : Refuse(w) \/ OpenFails(w)
  <2>1. PICK w \in Writers : Refuse(w) \/ OpenFails(w)
    BY <1>3
  <2>2. /\ UNCHANGED <<negotiated, disk, others, buf, fd>> /\ stream[w] = "none"
        /\ stream'[w] = "refused" /\ \A u \in Writers \ {w} : stream'[u] = stream[u]
    BY <2>1 DEF Refuse, OpenFails, KeepInv, PlaceInv, Typed
  <2>3. \A u \in Writers : (Opened(u)' <=> Opened(u)) /\ (Broken(u)' <=> Broken(u))
    BY <2>2 DEF Opened, Broken
  <2> QED
    BY <2>2, <2>3 DEF Lone, AloneOnDisk, negotiated
<1>4. CASE \E w \in Writers : Open(w)
  <2>1. PICK w \in Writers : Open(w)
    BY <1>4
  <2>2. stream'[w] = "good" /\ length' = length
    BY <2>1 DEF Open, negotiated, KeepInv, PlaceInv, Typed
  <2>3. v = w
    BY <2>2 DEF AloneOnDisk, Opened
  <2> QED
    BY <2>1, <2>2, <2>3, OpenFits
<1>5. ASSUME NEW w \in Writers, NEW at, NEW bytes, Writes(w, at, bytes)
      PROVE  /\ length'[v] <= Capacity /\ Len(disk'[path'[v]]) <= length'[v]
             /\ Len(buf'[v]) = 0 \/ fd'[v] + Len(buf'[v]) <= length'[v]
             /\ ~Broken(v)'
  <2>1. at \in Nat /\ bytes \in Seq(Bytes) /\ SeekAndWrite(w, at, bytes)
    BY <1>5 DEF Writes, Given
  <2>3. /\ UNCHANGED <<negotiated, others>> /\ stream[w] = "good"
        /\ stream'[w] # "none" /\ stream'[w] # "refused"
        /\ \A u \in Writers \ {w} : stream'[u] = stream[u]
    <3>1. FlushFails(w) \/ SeekRefused(w) \/ Buffered(w, at, bytes) \/ Direct(w, at, bytes)
      BY <2>1, WriteMoves DEF KeepInv, PlaceInv
    <3> QED
      BY <2>1, <3>1
         DEF SeekAndWrite, FlushFails, SeekRefused, Buffered, Direct, KeepInv, PlaceInv, Typed
  <2>4. v = w /\ AloneOnDisk(w)
    BY <2>3 DEF AloneOnDisk, Opened, negotiated
  <2>5. /\ length[w] <= Capacity /\ Len(disk'[path[w]]) <= length[w]
        /\ Len(buf'[w]) = 0 \/ fd'[w] + Len(buf'[w]) <= length[w]
        /\ stream'[w] \in {"good", "failed"}
    BY <1>5, <2>4, WriteFits
  <2> QED
    BY <2>3, <2>4, <2>5 DEF Broken, negotiated
<1>6. CASE \E w \in Writers : \E i \in Pieces(w) : WriteBad(w, i)
  <2>1. UNCHANGED <<negotiated, disk, opener, others, stream, buf, fd>>
    BY <1>6 DEF WriteBad
  <2> QED
    BY <2>1 DEF Lone, AloneOnDisk, Opened, Broken, negotiated
<1>7. CASE \E w \in Writers : Close(w)
  <2>1. PICK w \in Writers : Close(w)
    BY <1>7
  <2>2. /\ UNCHANGED <<negotiated, others>> /\ stream[w] \in {"good", "full", "failed"}
        /\ stream'[w] \in {"closed", "lost", "dropped"}
        /\ \A u \in Writers \ {w} : stream'[u] = stream[u]
    BY <2>1 DEF Close, CloseState, KeepInv, PlaceInv, Typed
  <2>3. v = w /\ AloneOnDisk(w)
    BY <2>2 DEF AloneOnDisk, Opened, negotiated
  <2>4. /\ length[w] <= Capacity /\ Len(disk'[path[w]]) <= length[w]
        /\ Len(buf'[w]) = 0 /\ stream'[w] \in {"closed", "dropped"}
    BY <2>1, <2>3, CloseFits
  <2> QED
    BY <2>2, <2>3, <2>4 DEF Broken, negotiated
<1>8. CASE \E w \in Writers : Write(w)
  <2>1. PICK w \in Writers : Write(w)
    BY <1>8
  <2>2. Typed /\ written[w] \subseteq Pieces(w)
    BY DEF KeepInv, PlaceInv, Fresh
  <2>3. CASE (\E i \in Pieces(w) : WriteGood(w, i)) \/ \E order \in EmptyOrders : WriteEmpty(w, order)
    BY <1>5, <2>2, <2>3, WriteIs
  <2> QED
    BY <1>2, <1>6, <2>1, <2>3 DEF Write, WriteClosed
<1> QED
  BY <1>1, <1>2, <1>3, <1>4, <1>7, <1>8 DEF Next, Idle

(* For an upload to the file system of the current directory, of a file    *)
(* that is not too long for it, when no other upload opened a file and no  *)
(* other program takes space there, the check of the available space in    *)
(* the constructor is enough: until close, every write and flush of its    *)
(* file_writer is taken whole, wherever empty packets seek to in between.  *)
(* Their seek may be refused, which makes the stream drop what follows.    *)
(* The space it looks at is the space before the file is truncated, and    *)
(* truncating only adds to it.                                             *)
THEOREM WriterSpaceIsEnough == Spec => []CheckedSpaceIsEnough
<1>1. Init => Lone
  BY DEF Init, Lone, Opened
<1>2. KeepInv /\ Lone /\ [Next]_vars => Lone'
  BY NextLone
<1>3. KeepInv /\ Lone => CheckedSpaceIsEnough
  <2> SUFFICES ASSUME KeepInv, Lone, NEW w \in Writers, stream[w] \in {"full", "lost"},
                      path[w] \notin Elsewhere, ~(length[w] > LargestFile),
                      ~(others["current"] > 0), \A v \in Writers \ {w} : ~Opened(v)
               PROVE  FALSE
    BY DEF CheckedSpaceIsEnough
  <2>1. others["current"] = 0 /\ length[w] <= LargestFile
    BY WriterAssumption DEF KeepInv, PlaceInv, Typed, FileSystems
  <2> QED
    BY <2>1 DEF Lone, AloneOnDisk, Opened, Broken
<1>4. Spec => []KeepInv
  BY KeepInvariant
<1> QED
  BY <1>1, <1>2, <1>3, <1>4, PTL DEF Spec
=============================================================================
