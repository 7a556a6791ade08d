------------------------ MODULE ChangingSourceProofs ------------------------
(***************************************************************************)
(* Theorems about ChangingSource, for any number of threads, sizes and     *)
(* changes of the file and any size of a piece.                            *)
(***************************************************************************)
EXTENDS ChangingSource, TLAPS

USE SourceAssumption

\* offset counts the pieces, also when the last of them is not whole; the
\* stream is not behind its own buffer.
Positions ==
  /\ size \in Nat /\ measured \in Nat /\ file_size \in Nat
  /\ pos \in Nat /\ ahead \in Nat /\ offset \in Nat
  /\ eof \in BOOLEAN /\ ok \in BOOLEAN
  /\ pos <= ahead
  /\ ~eof => pos = offset * buff_s
  /\ ~ok => eof

\* A packet with bytes is of a piece before offset.
Packet == [at : Nat, size : Nat, from : Nat, len : Nat]
Counted(p) == p.size > 0 => p.from = p.at /\ p.at + p.size <= offset * buff_s
Apart(p, q) ==
  p.size > 0 /\ q.size > 0 /\ p # q => p.at + p.size <= q.at \/ q.at + q.size <= p.at

Packets ==
  /\ sent \subseteq Packet
  /\ \A p \in sent : Counted(p)
  /\ \A p, q \in sent : Apart(p, q)

PlaceInv == Positions /\ Packets

LEMMA NextPiece ==
  ASSUME NEW n \in Nat
  PROVE  /\ n * buff_s \in Nat /\ (n + 1) * buff_s \in Nat
         /\ (n + 1) * buff_s = n * buff_s + buff_s
  OBVIOUS

LEMMA LessIsBoolean ==
  ASSUME NEW m \in Nat, NEW n \in Nat
  PROVE  (m < n) \in BOOLEAN
  OBVIOUS

LEMMA LessAfter ==
  ASSUME NEW k \in Nat, NEW m \in Nat, NEW n \in Nat, k <= m, m < n
  PROVE  m >= k /\ m - k < n - k
  OBVIOUS

\* What _file.read does to the stream.
LEMMA ReadMoves ==
  ASSUME Positions, ReadFile
  PROVE  /\ End \in Nat /\ Len \in 0 .. buff_s /\ pos' = pos + Len /\ pos' \in Nat
         /\ ahead' \in Nat /\ pos' <= ahead' /\ eof' \in BOOLEAN
         /\ ~eof' => pos' = pos + buff_s
         /\ eof' => pos' = End /\ End = IF size < ahead THEN ahead ELSE size
<1>t. /\ size \in Nat /\ pos \in Nat /\ ahead \in Nat /\ pos <= ahead
      /\ buff_s \in Nat /\ buff_s > 0
  BY DEF Positions
<1>1. End \in Nat /\ pos <= End /\ ahead <= End
  BY <1>t DEF End
<1>2. Len \in 0 .. buff_s /\ Len <= End - pos /\ (Len < buff_s => Len = End - pos)
  BY <1>t, <1>1 DEF Len
<1>3. pos' = pos + Len /\ eof' = (Len < buff_s) /\ pos' <= End /\ pos' \in Nat
  BY <1>t, <1>1, <1>2 DEF ReadFile
<1>4. ahead' \in Nat /\ pos' <= ahead'
  BY <1>t, <1>1, <1>3 DEF ReadFile
<1>5. Len < buff_s => pos + Len = End /\ End = IF size < ahead THEN ahead ELSE size
  <2>1. Len < buff_s => pos + Len = End
    BY <1>t, <1>1, <1>2
  <2>2. Len < buff_s => ~(pos + buff_s <= ahead)
    BY <1>t, <1>1, <1>2 DEF End
  <2> QED
    BY <2>1, <2>2 DEF End
<1>6. ~(Len < buff_s) => pos + Len = pos + buff_s
  BY <1>t, <1>2
<1>7. eof' \in BOOLEAN /\ (eof' => Len < buff_s) /\ (~eof' => ~(Len < buff_s))
  <2>1. eof' <=> Len < buff_s
    BY <1>3
  <2>2. (Len < buff_s) \in BOOLEAN
    BY <1>t, <1>2, LessIsBoolean
  <2>3. eof' \in BOOLEAN
    BY <1>3, <2>2, Zenon
  <2> QED
    BY <2>1, <2>3, Zenon
<1>8. ~eof' => pos' = pos + buff_s
  BY <1>3, <1>6, <1>7, Zenon
<1>9. eof' => pos' = End /\ End = IF size < ahead THEN ahead ELSE size
  BY <1>3, <1>5, <1>7, Zenon
<1> QED
  BY <1>1, <1>2, <1>3, <1>4, <1>7, <1>8, <1>9, Zenon

\* The packet that a call of read returns.
Returned(at, n) == [at |-> at, size |-> n, from |-> pos, len |-> pos' - pos]

\* A read of the file and the packet it answers with.
LEMMA PieceKeeps ==
  ASSUME PlaceInv, ~eof, ReadFile, offset' = offset + 1, UNCHANGED <<size, measured, ok>>,
         NEW n \in 0 .. buff_s, sent' = sent \cup {Returned(offset * buff_s, n)},
         file_size' \in Nat
  PROVE  PlaceInv'
<1>t. /\ offset \in Nat /\ pos \in Nat /\ pos = offset * buff_s /\ offset' \in Nat
      /\ size' \in Nat /\ measured' \in Nat /\ ok' \in BOOLEAN /\ ok' = ok /\ ok
  BY DEF PlaceInv, Positions
<1>n. /\ offset * buff_s \in Nat /\ offset' * buff_s \in Nat
      /\ offset' * buff_s = offset * buff_s + buff_s
  BY <1>t, NextPiece
<1>1. Positions'
  BY <1>t, <1>n, ReadMoves DEF PlaceInv, Positions
<1> DEFINE new == Returned(offset * buff_s, n)
           at == offset * buff_s
           top == offset' * buff_s
<1>2. /\ new \in Packet /\ new.at = at /\ new.size = n /\ new.from = at
  <2>1. pos' - pos \in Nat
    BY <1>t, ReadMoves DEF PlaceInv
  <2> QED
    BY <1>n, <1>t, <2>1 DEF Packet, Returned
<1>3. /\ sent' = sent \cup {new}
      /\ \A p \in sent : p \in Packet /\ (p.size > 0 => p.from = p.at /\ p.at + p.size <= at)
      /\ \A p, q \in sent : Apart(p, q)
  BY DEF PlaceInv, Packets, Counted
<1> HIDE DEF new, at, top
<1>4. at \in Nat /\ top \in Nat /\ top = at + buff_s
  BY <1>n DEF at, top
<1>5. \A p \in sent' : p \in Packet /\ (p.size > 0 => p.from = p.at /\ p.at + p.size <= top)
  <2>1. new.size > 0 => new.from = new.at /\ new.at + new.size <= top
    BY <1>2, <1>4
  <2>2. ASSUME NEW p \in sent, p.size > 0 PROVE p.from = p.at /\ p.at + p.size <= top
    <3>1. p.at \in Nat /\ p.size \in Nat
      BY <1>3 DEF Packet
    <3> QED
      BY <1>3, <1>4, <2>2, <3>1
  <2> QED
    BY <1>2, <1>3, <2>1, <2>2
<1>6. \A p, q \in sent' : Apart(p, q)
  <2>1. \A p \in sent : Apart(p, new) /\ Apart(new, p)
    BY <1>2, <1>3 DEF Apart
  <2> QED
    BY <1>3, <2>1 DEF Apart
<1> QED
  BY <1>1, <1>5, <1>6 DEF PlaceInv, Packets, Counted, top

LEMMA AtEndKeepsPlace ==
  ASSUME PlaceInv, NEW r \in Readers, AtEnd(r)
  PROVE  PlaceInv'
<1>1. PICK garbage \in Garbage : Return(r, garbage, 0)
  BY DEF AtEnd
<1>2. /\ UNCHANGED <<size, measured, file_size, pos, ahead, offset, eof>>
      /\ ok' = FALSE /\ eof /\ pos \in Nat
  BY DEF AtEnd, sourceVars, PlaceInv, Positions
<1> DEFINE new == Returned(garbage, 0)
<1>3. sent' = sent \cup {new} /\ new \in Packet /\ new.size = 0
  BY <1>1, <1>2 DEF Return, Returned, Packet
<1>4. Positions'
  BY <1>2 DEF PlaceInv, Positions
<1> HIDE DEF new
<1>5. Packets'
  BY <1>2, <1>3 DEF PlaceInv, Packets, Counted, Apart
<1> QED
  BY <1>4, <1>5 DEF PlaceInv

LEMMA ReadKeepsPlace ==
  ASSUME PlaceInv, NEW r \in Readers, ReadLast(r) \/ ReadWhole(r)
  PROVE  PlaceInv'
<1>t. file_size \in Nat /\ buff_s \in Nat
  BY DEF PlaceInv, Positions
<1>1. CASE ReadLast(r)
  <2>1. /\ ~eof /\ ReadFile /\ offset' = offset + 1 /\ UNCHANGED <<size, measured, ok>>
        /\ file_size \in 0 .. buff_s /\ file_size' \in Nat
        /\ sent' = sent \cup {Returned(offset * buff_s, file_size)}
    BY <1>1, <1>t DEF ReadLast, Return, Returned, sourceVars
  <2> QED
    BY <2>1, PieceKeeps
<1>2. CASE ReadWhole(r)
  <2>1. /\ ~eof /\ ReadFile /\ offset' = offset + 1 /\ UNCHANGED <<size, measured, ok>>
        /\ buff_s \in 0 .. buff_s /\ file_size' \in Nat
        /\ sent' = sent \cup {Returned(offset * buff_s, buff_s)}
    BY <1>2, <1>t DEF ReadWhole, Return, Returned, sourceVars
  <2> QED
    BY <2>1, PieceKeeps
<1> QED
  BY <1>1, <1>2

LEMMA NextPlace ==
  ASSUME PlaceInv, [Next]_vars
  PROVE  PlaceInv'
<1>1. CASE Change
  BY <1>1 DEF Change, PlaceInv, Positions, Packets, Counted, Apart
<1>2. CASE UNCHANGED vars
  BY <1>2 DEF vars, sourceVars, PlaceInv, Positions, Packets, Counted, Apart
<1> QED
  BY <1>1, <1>2, AtEndKeepsPlace, ReadKeepsPlace DEF Next, Read, Finished

LEMMA PlaceInit == Init => PlaceInv
<1> SUFFICES ASSUME Init PROVE PlaceInv
  OBVIOUS
<1>1. 0 * buff_s = 0
  OBVIOUS
<1>2. /\ size \in Nat /\ measured \in Nat /\ file_size \in Nat
      /\ pos = 0 /\ ahead = 0 /\ offset = 0
  BY DEF Init
<1>3. eof = FALSE /\ ok = TRUE
  BY DEF Init
<1>4. pos <= ahead /\ pos = offset * buff_s
  BY <1>1, <1>2
<1>5. pos \in Nat /\ ahead \in Nat /\ offset \in Nat
  BY <1>2
<1>6. Positions
  BY <1>2, <1>3, <1>4, <1>5, Zenon DEF Positions
<1> QED
  BY <1>6 DEF Init, PlaceInv, Packets

LEMMA PlaceInvariant == Spec => []PlaceInv
  BY PlaceInit, NextPlace, PTL DEF Spec

(* However the workers take their turns and whatever happens to the file,  *)
(* what file_reader::read puts into a packet belongs where the packet says *)
(* it does, and no two packets are written over one another: a late change *)
(* of the file can damage no byte but those that changed.                  *)
THEOREM SourceBytesInPlace == Spec => []BytesInPlace
<1>1. PlaceInv => BytesInPlace
  BY DEF PlaceInv, Packets, Packet, Counted, Apart, BytesInPlace
<1> QED
  BY <1>1, PlaceInvariant, PTL
-----------------------------------------------------------------------------
\* As long as the stream has not ended, what was measured is either still
\* counted by file_size or read.
Unread ==
  ~eof => \/ file_size + offset * buff_s = measured
          \/ file_size < buff_s /\ measured <= offset * buff_s

\* Everything measured that is before the position of the stream has arrived.
Covered == \A b \in 0 .. measured - 1 : b < pos => Arrived(b)

\* Neither the end of the stream nor an answer of size 0 comes before the end
\* of what was measured, unless the file was cut off.
Behind == (eof \/ running # Readers) /\ ~shrunk => measured <= pos

ArriveInv ==
  /\ PlaceInv
  /\ shrunk \in BOOLEAN /\ (~shrunk => measured <= size)
  /\ Unread /\ Covered /\ Behind

\* The size that read() returns with a piece of the file.
Announced == IF file_size < buff_s THEN file_size ELSE buff_s

\* A read of the file, with the packet it answers with and the worker that
\* leaves its loop when the size in it is 0.
LEMMA PieceArrives ==
  ASSUME ArriveInv, ~eof, ReadFile, offset' = offset + 1,
         UNCHANGED <<size, measured, ok, shrunk>>,
         file_size' = IF file_size < buff_s THEN file_size ELSE file_size - buff_s,
         sent' = sent \cup {Returned(offset * buff_s, Announced)},
         Announced # 0 => running' = running
  PROVE  ArriveInv'
<1>t. /\ buff_s \in Nat /\ buff_s > 0 /\ offset \in Nat /\ pos \in Nat /\ file_size \in Nat
      /\ pos = offset * buff_s /\ measured \in Nat /\ size \in Nat /\ ahead \in Nat
  BY DEF ArriveInv, PlaceInv, Positions
<1>a. Announced \in 0 .. buff_s /\ file_size' \in Nat
  BY <1>t DEF Announced
<1>1. PlaceInv'
  BY <1>a, PieceKeeps DEF ArriveInv
<1>n. offset' * buff_s \in Nat /\ offset' * buff_s = pos + buff_s
  BY <1>t, NextPiece
<1>m. /\ End \in Nat /\ pos' \in Nat /\ pos <= pos' /\ pos' <= pos + buff_s
      /\ eof' => pos' = End /\ End = IF size < ahead THEN ahead ELSE size
  BY <1>t, ReadMoves DEF ArriveInv, PlaceInv
<1>u. \/ file_size + pos = measured
      \/ file_size < buff_s /\ measured <= pos
  BY <1>t DEF ArriveInv, Unread
<1>2. Unread'
  <2>1. \/ file_size' + (pos + buff_s) = measured
        \/ file_size' < buff_s /\ measured <= pos + buff_s
    BY <1>t, <1>u
  <2> QED
    BY <2>1, <1>n DEF Unread
<1>3. Covered'
  <2> SUFFICES ASSUME NEW b \in 0 .. measured - 1, b < pos' PROVE Arrived(b)'
    BY DEF Covered
  <2>b. b \in Nat /\ b < measured
    BY <1>t
  <2>1. CASE b < pos
    <3>1. Arrived(b)
      BY <2>1 DEF ArriveInv, Covered
    <3> QED
      BY <3>1 DEF Arrived
  <2>2. CASE ~(b < pos)
    <3> DEFINE new == Returned(pos, Announced)
    <3>1. new.at = pos /\ new.from = pos /\ new.size = Announced /\ new.len = pos' - pos
      BY DEF Returned
    <3>2. new \in sent'
      BY <1>t
    <3>3. b < pos + Announced
      BY <1>t, <1>u, <1>m, <2>b, <2>2 DEF Announced
    <3> HIDE DEF new
    <3>4. pos \in Nat /\ pos' \in Nat /\ pos <= b /\ b < pos'
      BY <1>t, <1>m, <2>b, <2>2
    <3>5. b >= pos /\ b - pos < pos' - pos
      BY <2>b, <3>4, LessAfter
    <3> QED
      BY <3>1, <3>2, <3>3, <3>5 DEF Arrived
  <2> QED
    BY <2>1, <2>2
<1>4. Behind'
  <2> SUFFICES ASSUME ~shrunk, eof' \/ running' # Readers PROVE measured <= pos'
    BY DEF Behind
  <2>s. measured <= size
    BY DEF ArriveInv
  <2>1. CASE eof'
    BY <2>1, <2>s, <1>t, <1>m
  <2>2. CASE running # Readers
    BY <2>2, <1>t, <1>m DEF ArriveInv, Behind
  <2>3. CASE running' # running
    <3>1. file_size = 0
      BY <2>3, <1>t DEF Announced
    <3> QED
      BY <3>1, <1>t, <1>u, <1>m
  <2> QED
    BY <2>1, <2>2, <2>3
<1> QED
  BY <1>1, <1>2, <1>3, <1>4 DEF ArriveInv

LEMMA ReadArrives ==
  ASSUME ArriveInv, NEW r \in Readers, ReadLast(r) \/ ReadWhole(r)
  PROVE  ArriveInv'
<1>t. file_size \in Nat /\ buff_s \in Nat /\ buff_s > 0
  BY DEF ArriveInv, PlaceInv, Positions
<1>1. CASE ReadLast(r)
  <2>1. /\ ~eof /\ ReadFile /\ offset' = offset + 1 /\ UNCHANGED <<size, measured, ok, shrunk>>
        /\ file_size < buff_s /\ file_size' = file_size
        /\ sent' = sent \cup {Returned(offset * buff_s, file_size)}
        /\ file_size # 0 => running' = running
    BY <1>1 DEF ReadLast, Return, Returned, sourceVars
  <2>2. Announced = file_size
    BY <2>1 DEF Announced
  <2> QED
    BY <2>1, <2>2, PieceArrives
<1>2. CASE ReadWhole(r)
  <2>1. /\ ~eof /\ ReadFile /\ offset' = offset + 1 /\ UNCHANGED <<size, measured, ok, shrunk>>
        /\ ~(file_size < buff_s) /\ file_size' = file_size - buff_s
        /\ sent' = sent \cup {Returned(offset * buff_s, buff_s)}
        /\ running' = running
    BY <1>2, <1>t DEF ReadWhole, Return, Returned, sourceVars
  <2>2. Announced = buff_s
    BY <2>1 DEF Announced
  <2> QED
    BY <2>1, <2>2, PieceArrives
<1> QED
  BY <1>1, <1>2

LEMMA AtEndArrives ==
  ASSUME ArriveInv, NEW r \in Readers, AtEnd(r)
  PROVE  ArriveInv'
<1>1. PICK garbage \in Garbage : Return(r, garbage, 0)
  BY DEF AtEnd
<1>2. /\ UNCHANGED <<size, measured, shrunk, file_size, pos, ahead, offset, eof>> /\ eof
  BY DEF AtEnd, sourceVars, ArriveInv, PlaceInv, Positions
<1>3. sent \subseteq sent'
  BY <1>1 DEF Return
<1>4. PlaceInv'
  BY AtEndKeepsPlace DEF ArriveInv
<1> QED
  BY <1>2, <1>3, <1>4 DEF ArriveInv, Unread, Covered, Behind, Arrived

LEMMA ChangeArrives ==
  ASSUME ArriveInv, Change
  PROVE  ArriveInv'
<1>1. PlaceInv'
  BY NextPlace DEF ArriveInv, Next
<1>2. /\ UNCHANGED <<measured, file_size, eof, pos, offset, sent, running>>
      /\ size' \in Nat /\ shrunk' = (shrunk \/ size' < size)
  BY DEF Change
<1>3. size \in Nat /\ measured \in Nat
  BY DEF ArriveInv, PlaceInv, Positions
<1>4. (size' < size) \in BOOLEAN
  BY <1>2, <1>3, LessIsBoolean
<1>5. shrunk' \in BOOLEAN
  BY <1>2, <1>4, Zenon DEF ArriveInv
<1>6. ~shrunk' => ~shrunk /\ ~(size' < size)
  BY <1>2, Zenon
<1>7. ~shrunk' => measured <= size'
  BY <1>2, <1>3, <1>6 DEF ArriveInv
<1> QED
  BY <1>1, <1>2, <1>5, <1>6, <1>7 DEF ArriveInv, Unread, Covered, Behind, Arrived

LEMMA NextArrives ==
  ASSUME ArriveInv, [Next]_vars
  PROVE  ArriveInv'
<1>1. CASE UNCHANGED vars
  <2>1. PlaceInv'
    BY <1>1, NextPlace DEF ArriveInv
  <2> QED
    BY <1>1, <2>1 DEF vars, sourceVars, ArriveInv, Unread, Covered, Behind, Arrived
<1> QED
  BY <1>1, AtEndArrives, ReadArrives, ChangeArrives DEF Next, Read, Finished

LEMMA ArriveInvariant == Spec => []ArriveInv
<1>1. Init => ArriveInv
  <2> SUFFICES ASSUME Init PROVE ArriveInv
    OBVIOUS
  <2>1. PlaceInv
    BY PlaceInit
  <2>2. /\ size \in Nat /\ measured = size /\ file_size = size /\ pos = 0 /\ offset = 0
        /\ shrunk = FALSE /\ eof = FALSE /\ running = Readers
    BY DEF Init
  <2>3. file_size + offset * buff_s = measured
    BY <2>2
  <2>4. Covered /\ measured <= size
    BY <2>2 DEF Covered
  <2> QED
    BY <2>1, <2>2, <2>3, <2>4, Zenon DEF ArriveInv, Unread, Behind
<1> QED
  BY <1>1, NextArrives, PTL DEF Spec

(* Among any number of threads, every byte that the file had when the file *)
(* negotiation announced its length is sent at its place, however much was *)
(* appended in the meantime: a size of 0 that file_reader::read returns    *)
(* before the stream has ended sends away one worker, not data.  It takes  *)
(* one worker to read at all: with -t 0 the client measures and sends none. *)
THEOREM MeasuredIsSent ==
  ASSUME Readers # {}
  PROVE  Spec => []MeasuredArrives
<1>1. ArriveInv => MeasuredArrives
  <2> SUFFICES ASSUME ArriveInv, running = {}, ~shrunk, NEW b \in 0 .. measured - 1
               PROVE  Arrived(b)
    BY DEF MeasuredArrives
  <2>1. measured <= pos /\ measured \in Nat /\ pos \in Nat
    BY DEF ArriveInv, Behind, PlaceInv, Positions
  <2>2. b < pos
    BY <2>1
  <2> QED
    BY <2>2 DEF ArriveInv, Covered
<1> QED
  BY <1>1, ArriveInvariant, PTL
=============================================================================
