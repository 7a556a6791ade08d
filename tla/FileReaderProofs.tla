-------------------------- MODULE FileReaderProofs --------------------------
(***************************************************************************)
(* Theorems about FileReader, for every number of threads, every size of   *)
(* the file and every size of a piece.                                     *)
(***************************************************************************)
EXTENDS FileReader, TLAPS

-----------------------------------------------------------------------------
(* The inductive invariant                                                 *)

\* The thread that is between the statements of read owns the mutex.
Exclusion == \A r \in Readers : pc[r] \in Inside <=> lock = r

\* A file that is not at its end was read up to the next piece, and
\* file_size is what is left of it.
Between ==
  /\ eof => pos = Size
  /\ ~eof => pos = offset * buff_s /\ pos + file_size = Size

\* What the owner of the lock knows before each statement.
Progress(r) ==
  /\ pc[r] = "check" => Between
  /\ pc[r] \in {"last_offset", "last_count"} =>
       ~eof /\ Between /\ file_size < buff_s
  /\ pc[r] \in {"last_count", "last_read"} => offset_[r] = pos
  /\ pc[r] = "last_read" => ~eof /\ pos + file_size = Size /\ file_size < buff_s
  /\ pc[r] = "read" => ~eof /\ Between /\ file_size >= buff_s
  /\ pc[r] \in {"offset", "count", "shrink"} =>
       /\ ~eof /\ file_size >= buff_s
       /\ data[r].len = buff_s
       /\ pos = data[r].from + buff_s /\ data[r].from + file_size = Size
  /\ pc[r] \in {"offset", "count"} => data[r].from = offset * buff_s
  /\ pc[r] \in {"count", "shrink"} => offset_[r] = data[r].from
  /\ pc[r] = "shrink" => pos = offset * buff_s

IInv ==
  /\ ReaderTypeOK
  /\ Exclusion
  /\ lock = Nobody => Between
  /\ \A r \in Readers : Progress(r)
  /\ ~ok => eof
  /\ PacketMatchesBytes
  /\ EndMeansAllRead

USE ReaderAssumption

LEMMA NextOffset ==
  ASSUME NEW n \in Nat
  PROVE  /\ n * buff_s \in Nat
         /\ (n + 1) * buff_s = n * buff_s + buff_s
  OBVIOUS

LEMMA InitIInv == Init => IInv
<1> SUFFICES ASSUME Init PROVE IInv
  OBVIOUS
<1>1. ReaderTypeOK
  <2>1. [from |-> 0, len |-> 0] \in Bytes
    BY DEF Bytes
  <2>2. \A r \in Readers : data[r] = [from |-> 0, len |-> 0]
    BY DEF Init
  <2>3. data \in [Readers -> Bytes]
    BY <2>1 DEF Init
  <2>4. packet \in [Readers -> [at : Nat, size : 0 .. buff_s, bytes : Bytes]]
    BY <2>1, <2>2 DEF Init
  <2> QED
    <3>1. ok \in BOOLEAN /\ eof \in BOOLEAN
      BY DEF Init
    <3>2. pos \in 0 .. Size /\ file_size \in 0 .. Size /\ offset \in Nat
      BY DEF Init
    <3>3. /\ lock \in Readers \cup {Nobody}
          /\ pc \in [Readers -> {"loop", "lock", "done"} \cup Inside]
          /\ offset_ \in [Readers -> Nat]
      BY DEF Init
    <3> QED
      BY <2>3, <2>4, <3>1, <3>2, <3>3 DEF ReaderTypeOK
<1>2. 0 * buff_s = 0
  OBVIOUS
<1>3. Between
  BY <1>2 DEF Init, Between
<1> QED
  BY <1>1, <1>3 DEF Init, IInv, Exclusion, Progress, Inside, PacketMatchesBytes, EndMeansAllRead

\* A step of the owner of the lock is judged by what it leaves to the owner:
\* no other thread is between the statements of read.
LEMMA OwnerProgress ==
  ASSUME IInv, NEW r \in Readers, pc[r] \in Inside,
         \A s \in Readers : s # r => pc'[s] = pc[s], Progress(r)'
  PROVE  \A s \in Readers : Progress(s)'
<1>1. ASSUME NEW s \in Readers, s # r PROVE Progress(s)'
  <2>1. pc'[s] \notin Inside
    BY <1>1 DEF IInv, Exclusion
  <2> QED
    BY <2>1 DEF Progress, Inside
<1> QED
  BY <1>1

\* What pc is after a step of r from one statement to another.
LEMMA Moved ==
  ASSUME ReaderTypeOK, NEW r \in Readers, NEW from, NEW to, Goto(r, from, to)
  PROVE  /\ pc[r] = from /\ pc'[r] = to
         /\ \A s \in Readers : s # r => pc'[s] = pc[s]
  BY DEF Goto, ReaderTypeOK

LEMMA CallKeeps ==
  ASSUME IInv, NEW r \in Readers, Call(r)
  PROVE  IInv'
<1>1. /\ pc[r] = "loop" /\ pc'[r] = "lock"
      /\ \A s \in Readers : s # r => pc'[s] = pc[s]
  BY Moved DEF Call, IInv
<1>2. PICK garbage \in Garbage : offset_' = [offset_ EXCEPT ![r] = garbage]
  BY DEF Call
<1>3. UNCHANGED <<lock, ok, eof, pos, file_size, offset, data, packet>>
  BY DEF Call, fileVars
<1>4. ReaderTypeOK'
  BY <1>2, <1>3 DEF Call, Goto, IInv, ReaderTypeOK
<1>5. Exclusion'
  BY <1>1, <1>3 DEF IInv, Exclusion, Inside
<1>6. ASSUME NEW s \in Readers PROVE Progress(s)'
  <2>1. CASE s = r
    BY <1>1, <2>1 DEF Progress
  <2>2. CASE s # r
    <3>1. offset_'[s] = offset_[s] /\ pc'[s] = pc[s]
      BY <1>1, <1>2, <2>2 DEF IInv, ReaderTypeOK
    <3> QED
      BY <1>3, <3>1 DEF IInv, Progress, Between
  <2> QED
    BY <2>1, <2>2
<1>7. PacketMatchesBytes' /\ EndMeansAllRead'
  BY <1>1, <1>3 DEF IInv, PacketMatchesBytes, EndMeansAllRead
<1> QED
  BY <1>3, <1>4, <1>5, <1>6, <1>7 DEF IInv, Between

LEMMA LockKeeps ==
  ASSUME IInv, NEW r \in Readers, Lock(r)
  PROVE  IInv'
<1>1. /\ pc[r] = "lock" /\ pc'[r] = "check" /\ lock = Nobody /\ lock' = r
      /\ \A s \in Readers : s # r => pc'[s] = pc[s]
  BY Moved DEF Lock, IInv
<1>2. UNCHANGED <<ok, eof, pos, file_size, offset, data, offset_, packet>>
  BY DEF Lock, fileVars
<1>3. ReaderTypeOK'
  BY <1>1, <1>2 DEF Lock, Goto, IInv, ReaderTypeOK, Inside
<1>4. Exclusion'
  BY <1>1 DEF IInv, Exclusion, Inside
<1>5. ASSUME NEW s \in Readers PROVE Progress(s)'
  <2>1. CASE s = r
    BY <1>1, <1>2, <2>1 DEF IInv, Progress, Between
  <2>2. CASE s # r
    <3>1. pc'[s] \notin Inside
      BY <1>1, <2>2 DEF IInv, Exclusion
    <3> QED
      BY <3>1 DEF Progress, Inside
  <2> QED
    BY <2>1, <2>2
<1>6. PacketMatchesBytes' /\ EndMeansAllRead'
  BY <1>1, <1>2 DEF IInv, PacketMatchesBytes, EndMeansAllRead
<1> QED
  BY <1>1, <1>2, <1>3, <1>4, <1>5, <1>6 DEF IInv

\* Steps of the owner inside read that do not return.
LEMMA InsideKeeps ==
  ASSUME IInv, NEW r \in Readers,
         ChooseBranch(r) \/ SetOffset(r) \/ Count(r) \/ ReadWhole(r)
  PROVE  IInv'
<1> USE DEF fileVars
<1>1. /\ pc[r] \in Inside /\ pc'[r] \in Inside /\ UNCHANGED <<lock, ok, packet>>
      /\ pc' = [pc EXCEPT ![r] = pc'[r]]
      /\ \A s \in Readers : s # r => pc'[s] = pc[s]
  BY DEF IInv, ReaderTypeOK, Inside, ChooseBranch, SetOffset, Count, ReadWhole, Goto
<1>2. Exclusion' /\ lock' = r /\ lock' # Nobody
  BY <1>1 DEF IInv, Exclusion
<1>d. \A s \in Readers : pc'[s] = "done" => pc[s] = "done"
  BY <1>1 DEF Inside
<1>q. ASSUME ReaderTypeOK', Progress(r)', \A s \in Readers : pc[s] = "done" => pos' = Size /\ eof',
             eof => eof'
      PROVE  IInv'
  <2>1. \A s \in Readers : Progress(s)'
    BY <1>1, <1>q, OwnerProgress
  <2>2. PacketMatchesBytes' /\ EndMeansAllRead' /\ (~ok' => eof')
    BY <1>1, <1>d, <1>q DEF IInv, PacketMatchesBytes, EndMeansAllRead
  <2> QED
    BY <1>2, <1>q, <2>1, <2>2 DEF IInv
<1>t. /\ pos \in 0 .. Size /\ file_size \in 0 .. Size /\ offset \in Nat
      /\ offset_ \in [Readers -> Nat] /\ data \in [Readers -> Bytes]
      /\ Progress(r)
  BY DEF IInv, ReaderTypeOK
<1>3. CASE ChooseBranch(r)
  <2>1. ReaderTypeOK'
    BY <1>1, <1>3 DEF ChooseBranch, IInv, ReaderTypeOK
  <2>2. Progress(r)'
    BY <1>1, <1>3, <1>t DEF ChooseBranch, Goto, Progress, Between
  <2> QED
    BY <1>3, <1>q, <2>1, <2>2 DEF ChooseBranch, IInv, EndMeansAllRead
<1>4. CASE SetOffset(r)
  <2>1. offset * buff_s \in Nat
    BY <1>t, NextOffset
  <2>2. offset_' = [offset_ EXCEPT ![r] = offset * buff_s] /\ UNCHANGED <<eof, pos, file_size, offset, data>>
    BY <1>4 DEF SetOffset
  <2>3. offset_' \in [Readers -> Nat] /\ offset_'[r] = offset * buff_s
    BY <1>t, <2>1, <2>2, Zenon
  <2>4. ReaderTypeOK'
    BY <1>1, <2>2, <2>3 DEF IInv, ReaderTypeOK
  <2>5. Progress(r)'
    <3>1. \/ pc[r] = "last_offset" /\ pc'[r] = "last_count"
          \/ pc[r] = "offset" /\ pc'[r] = "count"
      BY <1>4, Moved DEF SetOffset, IInv
    <3> QED
      BY <1>t, <2>2, <2>3, <3>1 DEF Progress, Between
  <2> QED
    BY <1>q, <2>2, <2>4, <2>5 DEF IInv, EndMeansAllRead
<1>5. CASE Count(r)
  <2>1. offset' = offset + 1 /\ UNCHANGED <<eof, pos, file_size, offset_, data>>
    BY <1>5 DEF Count
  <2>2. offset' * buff_s = offset * buff_s + buff_s
    BY <1>t, <2>1, NextOffset
  <2>3. ReaderTypeOK'
    BY <1>1, <1>t, <2>1 DEF IInv, ReaderTypeOK
  <2>4. Progress(r)'
    <3>1. \/ pc[r] = "last_count" /\ pc'[r] = "last_read"
          \/ pc[r] = "count" /\ pc'[r] = "shrink"
      BY <1>5, Moved DEF Count, IInv
    <3> QED
      BY <1>t, <2>1, <2>2, <3>1 DEF Progress, Between
  <2> QED
    BY <1>q, <2>1, <2>3, <2>4 DEF IInv, EndMeansAllRead
<1>6. CASE ReadWhole(r)
  <2>1. /\ pc[r] = "read" /\ pc'[r] = "offset" /\ ~eof /\ file_size >= buff_s
        /\ pos = offset * buff_s /\ pos + file_size = Size
    BY <1>6, <1>t, Moved DEF ReadWhole, Progress, Between, IInv
  <2>2. /\ data' = [data EXCEPT ![r] = [from |-> pos, len |-> buff_s]]
        /\ pos' = pos + buff_s /\ eof' = FALSE
        /\ UNCHANGED <<file_size, offset, offset_>>
    <3>1. Size - pos >= buff_s
      BY <1>t, <2>1
    <3>2. ~(Size - pos < buff_s)
      BY <1>t, <3>1
    <3>3. /\ data' = [data EXCEPT ![r] = [from |-> pos, len |-> buff_s]]
          /\ pos' = pos + buff_s /\ eof' = (Size - pos < buff_s)
      BY <1>6, <3>2 DEF ReadWhole, ReadFile
    <3>4. eof' = FALSE
      <4>1. (Size - pos < buff_s) = FALSE
        BY <3>2
      <4> QED
        BY <3>3, <4>1, Zenon
    <3> QED
      BY <1>6, <3>2, <3>3, <3>4 DEF ReadWhole
  <2>3. [from |-> pos, len |-> buff_s] \in Bytes
    BY <1>t DEF Bytes
  <2>4. data' \in [Readers -> Bytes] /\ data'[r] = [from |-> pos, len |-> buff_s]
    BY <1>t, <2>2, <2>3
  <2>5. pos' \in 0 .. Size
    BY <1>t, <2>1, <2>2
  <2>6. ReaderTypeOK'
    BY <1>1, <2>2, <2>4, <2>5 DEF IInv, ReaderTypeOK
  <2>7. Progress(r)'
    BY <2>1, <2>2, <2>4 DEF Progress
  <2> QED
    BY <1>q, <2>1, <2>6, <2>7 DEF IInv, EndMeansAllRead
<1> QED
  BY <1>3, <1>4, <1>5, <1>6

\* A return frees the lock and leaves no thread between the statements.
LEMMA ReturnEffect ==
  ASSUME IInv, NEW r \in Readers, NEW from \in Inside, NEW result \in 0 .. buff_s,
         Return(r, from, result), data' \in [Readers -> Bytes]
  PROVE  /\ pc[r] = from /\ lock = r /\ lock' = Nobody
         /\ pc' \in [Readers -> {"loop", "lock", "done"} \cup Inside]
         /\ offset_' \in [Readers -> Nat]
         /\ packet' \in [Readers -> [at : Nat, size : 0 .. buff_s, bytes : Bytes]]
         /\ packet'[r] = [at |-> offset_[r], size |-> result, bytes |-> data'[r]]
         /\ \A s \in Readers : s # r => pc'[s] = pc[s] /\ packet'[s] = packet[s]
         /\ pc'[r] = "done" => result = 0
         /\ Exclusion'
         /\ \A s \in Readers : Progress(s)'
<1>1. /\ pc[r] = from /\ pc'[r] = IF result = 0 THEN "done" ELSE "loop"
      /\ pc' = [pc EXCEPT ![r] = IF result = 0 THEN "done" ELSE "loop"]
      /\ \A s \in Readers : s # r => pc'[s] = pc[s]
  BY DEF Return, Goto, IInv, ReaderTypeOK
<1>2. lock = r /\ lock' = Nobody
  BY <1>1 DEF Return, IInv, Exclusion
<1>3. pc' \in [Readers -> {"loop", "lock", "done"} \cup Inside]
  BY <1>1 DEF IInv, ReaderTypeOK
<1>4. \A s \in Readers : pc'[s] \notin Inside
  BY <1>1, <1>2 DEF IInv, Exclusion, Inside
<1>5. Exclusion' /\ \A s \in Readers : Progress(s)'
  BY <1>2, <1>4 DEF Exclusion, Progress, Inside
<1>6. offset_' \in [Readers -> Nat]
  BY DEF Return, IInv, ReaderTypeOK
<1>7. /\ packet' \in [Readers -> [at : Nat, size : 0 .. buff_s, bytes : Bytes]]
      /\ packet'[r] = [at |-> offset_[r], size |-> result, bytes |-> data'[r]]
      /\ \A s \in Readers : s # r => packet'[s] = packet[s]
  <2>1. [at |-> offset_[r], size |-> result, bytes |-> data'[r]]
          \in [at : Nat, size : 0 .. buff_s, bytes : Bytes]
    BY DEF IInv, ReaderTypeOK
  <2>2. packet \in [Readers -> [at : Nat, size : 0 .. buff_s, bytes : Bytes]]
    BY DEF IInv, ReaderTypeOK
  <2> QED
    BY <2>1, <2>2 DEF Return
<1> QED
  BY <1>1, <1>2, <1>3, <1>5, <1>6, <1>7

\* What is left to show of a return, after ReturnEffect.
LEMMA ReturnKeeps ==
  ASSUME IInv, NEW r \in Readers, NEW from \in Inside, NEW result \in 0 .. buff_s,
         Return(r, from, result), data' \in [Readers -> Bytes],
         ok' \in BOOLEAN, eof' \in BOOLEAN, pos' \in 0 .. Size, file_size' \in 0 .. Size,
         offset' \in Nat, ~ok' => eof', Between', eof => eof',
         result # 0 => data'[r] = [from |-> offset_[r], len |-> result],
         result = 0 => eof'
  PROVE  IInv'
<1>1. /\ lock' = Nobody
      /\ pc' \in [Readers -> {"loop", "lock", "done"} \cup Inside]
      /\ offset_' \in [Readers -> Nat]
      /\ packet' \in [Readers -> [at : Nat, size : 0 .. buff_s, bytes : Bytes]]
      /\ packet'[r] = [at |-> offset_[r], size |-> result, bytes |-> data'[r]]
      /\ \A s \in Readers : s # r => pc'[s] = pc[s] /\ packet'[s] = packet[s]
      /\ pc'[r] = "done" => result = 0
      /\ Exclusion'
      /\ \A s \in Readers : Progress(s)'
  BY ReturnEffect
<1>2. ReaderTypeOK'
  BY <1>1 DEF ReaderTypeOK
<1>3. PacketMatchesBytes'
  <2>1. ASSUME NEW s \in Readers, packet'[s].size # 0
        PROVE  packet'[s].bytes = [from |-> packet'[s].at, len |-> packet'[s].size]
    <3>1. CASE s = r
      BY <1>1, <2>1, <3>1
    <3>2. CASE s # r
      BY <1>1, <2>1, <3>2 DEF IInv, PacketMatchesBytes
    <3> QED
      BY <3>1, <3>2
  <2> QED
    BY <2>1 DEF PacketMatchesBytes
<1>4. EndMeansAllRead'
  <2>1. ASSUME NEW s \in Readers, pc'[s] = "done" PROVE eof'
    <3>1. CASE s = r
      BY <1>1, <2>1, <3>1
    <3>2. CASE s # r
      BY <1>1, <2>1, <3>2 DEF IInv, EndMeansAllRead
    <3> QED
      BY <3>1, <3>2
  <2> QED
    BY <2>1 DEF EndMeansAllRead, Between
<1> QED
  BY <1>1, <1>2, <1>3, <1>4 DEF IInv

LEMMA ReturnsKeep ==
  ASSUME IInv, NEW r \in Readers,
         NotOk(r) \/ AtEof(r) \/ ReadLast(r) \/ Shrink(r)
  PROVE  IInv'
<1>t. /\ pos \in 0 .. Size /\ file_size \in 0 .. Size /\ offset \in Nat
      /\ ok \in BOOLEAN /\ eof \in BOOLEAN
      /\ offset_ \in [Readers -> Nat] /\ data \in [Readers -> Bytes]
      /\ Progress(r) /\ Size \in Nat /\ buff_s \in Nat \ {0}
      /\ 0 \in 0 .. buff_s
  BY DEF IInv, ReaderTypeOK
<1>1. CASE NotOk(r)
  <2>1. Return(r, "check", 0) /\ UNCHANGED <<ok, eof, pos, file_size, offset, data>> /\ ~ok
    BY <1>1 DEF NotOk, fileVars
  <2>2. pc[r] = "check" /\ "check" \in Inside
    BY <2>1 DEF Return, Goto, Inside
  <2>3. Between' /\ eof'
    BY <1>t, <2>1, <2>2 DEF Progress, Between, IInv
  <2> QED
    BY <1>t, <2>1, <2>2, <2>3, ReturnKeeps
<1>2. CASE AtEof(r)
  <2>1. /\ Return(r, "check", 0) /\ UNCHANGED <<eof, pos, file_size, offset, data>>
        /\ eof /\ ok' = FALSE
    BY <1>2 DEF AtEof
  <2>2. pc[r] = "check" /\ "check" \in Inside
    BY <2>1 DEF Return, Goto, Inside
  <2>3. Between' /\ eof'
    BY <1>t, <2>1, <2>2 DEF Progress, Between
  <2> QED
    BY <1>t, <2>1, <2>2, <2>3, ReturnKeeps
<1>3. CASE ReadLast(r)
  <2>1. /\ Return(r, "last_read", file_size) /\ ReadFile(r)
        /\ UNCHANGED <<ok, file_size, offset>>
    BY <1>3 DEF ReadLast
  <2>2. pc[r] = "last_read" /\ "last_read" \in Inside
    BY <2>1 DEF Return, Goto, Inside
  <2>3. file_size < buff_s /\ pos + file_size = Size /\ offset_[r] = pos
    BY <1>t, <2>2 DEF Progress
  <2>4. Size - pos = file_size /\ file_size \in 0 .. buff_s /\ (Size - pos < buff_s) = TRUE
    BY <1>t, <2>3
  <2>5. /\ data' = [data EXCEPT ![r] = [from |-> pos, len |-> file_size]]
        /\ pos' = pos + file_size /\ eof' = (Size - pos < buff_s)
    BY <2>1, <2>4 DEF ReadFile
  <2>6. eof' = TRUE
    BY <2>4, <2>5, Zenon
  <2>7. pos' = Size /\ pos' \in 0 .. Size
    BY <1>t, <2>3, <2>5
  <2>8. [from |-> pos, len |-> file_size] \in Bytes
    BY <1>t, <2>4 DEF Bytes
  <2>9. data' \in [Readers -> Bytes] /\ data'[r] = [from |-> offset_[r], len |-> file_size]
    BY <1>t, <2>3, <2>5, <2>8
  <2>10. Between'
    BY <2>6, <2>7 DEF Between
  <2> QED
    BY <1>t, <2>1, <2>2, <2>4, <2>6, <2>7, <2>9, <2>10, ReturnKeeps
<1>4. CASE Shrink(r)
  <2>1. /\ Return(r, "shrink", buff_s) /\ UNCHANGED <<ok, eof, pos, offset, data>>
        /\ file_size' = file_size - buff_s
    BY <1>4 DEF Shrink
  <2>2. pc[r] = "shrink" /\ "shrink" \in Inside
    BY <2>1 DEF Return, Goto, Inside
  <2>3. /\ ~eof /\ file_size >= buff_s /\ data[r].len = buff_s
        /\ pos = data[r].from + buff_s /\ data[r].from + file_size = Size
        /\ offset_[r] = data[r].from /\ pos = offset * buff_s
    BY <1>t, <2>2 DEF Progress
  <2>4. data[r].from \in 0 .. Size /\ data[r] = [from |-> data[r].from, len |-> data[r].len]
    BY <1>t DEF Bytes
  <2>5. file_size' \in 0 .. Size /\ pos + file_size' = Size /\ buff_s \in 0 .. buff_s
    BY <1>t, <2>1, <2>3, <2>4
  <2>6. Between'
    BY <2>1, <2>3, <2>5 DEF Between
  <2>7. data'[r] = [from |-> offset_[r], len |-> buff_s]
    BY <2>1, <2>3, <2>4
  <2> QED
    BY <1>t, <2>1, <2>2, <2>3, <2>5, <2>6, <2>7, ReturnKeeps DEF IInv
<1> QED
  BY <1>1, <1>2, <1>3, <1>4

LEMMA NextKeeps ==
  ASSUME IInv, [Next]_vars
  PROVE  IInv'
<1>1. ASSUME NEW r \in Readers, Step(r) PROVE IInv'
  BY <1>1, CallKeeps, LockKeeps, InsideKeeps, ReturnsKeep DEF Step
<1>2. CASE UNCHANGED vars
  BY <1>2 DEF vars, fileVars, readerVars, IInv, ReaderTypeOK, Exclusion, Between, Progress,
              PacketMatchesBytes, EndMeansAllRead
<1> QED
  BY <1>1, <1>2 DEF Next, Finished

LEMMA InductiveInvariant == Spec => []IInv
  BY InitIInv, NextKeeps, PTL DEF Spec
-----------------------------------------------------------------------------
(* What follows from it                                                    *)

(* file_size never goes below 0 or above what is left, the stream is never *)
(* asked to be past the end: the branches of read keep their variables in  *)
(* range for every size of the file and of a piece.                        *)
THEOREM ReaderTypeCorrect == Spec => []ReaderTypeOK
  BY InductiveInvariant, PTL DEF IInv

(* Under the lock of read, the offset that is counted and the position of  *)
(* the stream agree: a packet carries the offset and the length of the     *)
(* bytes in it, for any number of threads.                                 *)
THEOREM PacketsCorrect == Spec => []PacketMatchesBytes
  BY InductiveInvariant, PTL DEF IInv

(* No worker thread leaves its loop before every byte was handed out,      *)
(* whether the last piece is short, whole or missing.                      *)
THEOREM EndCorrect == Spec => []EndMeansAllRead
  BY InductiveInvariant, PTL DEF IInv
-----------------------------------------------------------------------------
(* The refinement of PieceSource                                           *)

\* The bytes handed out so far and the last answers, as the instance has them.
taken == IF lock # Nobody /\ pc[lock] \in {"offset", "count", "shrink"}
           THEN data[lock].from ELSE pos
got == [r \in Readers |-> [at |-> packet[r].at, size |-> packet[r].size]]

\* The statements of read before a return are steps of nobody else.
LEMMA SilentSteps ==
  ASSUME IInv, NEW r \in Readers,
         Call(r) \/ Lock(r) \/ ChooseBranch(r) \/ SetOffset(r) \/ Count(r) \/ ReadWhole(r)
  PROVE  taken' = taken /\ got' = got
<1> USE DEF fileVars
<1>1. packet' = packet
  BY DEF Call, Lock, ChooseBranch, SetOffset, Count, ReadWhole
<1>2. got' = got
  BY <1>1 DEF got
<1>3. CASE Call(r)
  <2>1. pc[r] = "loop" /\ pc'[r] = "lock" /\ (\A s \in Readers : s # r => pc'[s] = pc[s])
    BY <1>3, Moved DEF Call, IInv
  <2>2. lock # r /\ lock \in Readers \cup {Nobody}
    BY <2>1 DEF IInv, ReaderTypeOK, Exclusion, Inside
  <2>3. UNCHANGED <<lock, pos, data>> /\ (lock # Nobody => pc'[lock] = pc[lock])
    BY <1>3, <2>1, <2>2 DEF Call
  <2> QED
    BY <1>2, <2>3 DEF taken
<1>4. CASE Lock(r)
  <2>1. lock = Nobody /\ lock' = r /\ pc'[r] = "check" /\ pos' = pos
    BY <1>4, Moved DEF Lock, IInv
  <2> QED
    BY <1>2, <2>1 DEF taken
<1>5. CASE ChooseBranch(r) \/ SetOffset(r) \/ Count(r)
  <2>1. /\ pc[r] \in Inside
        /\ pc[r] \in {"offset", "count", "shrink"} <=> pc'[r] \in {"offset", "count", "shrink"}
    BY <1>5 DEF ChooseBranch, SetOffset, Count, Goto, Inside, IInv, ReaderTypeOK
  <2>2. UNCHANGED <<lock, pos, data>>
    BY <1>5 DEF ChooseBranch, SetOffset, Count
  <2>3. lock = r
    BY <2>1 DEF IInv, Exclusion
  <2> QED
    BY <1>2, <2>1, <2>2, <2>3 DEF taken
<1>6. CASE ReadWhole(r)
  <2>1. pc[r] = "read" /\ pc'[r] = "offset" /\ lock' = lock
    BY <1>6, Moved DEF ReadWhole, IInv
  <2>2. lock = r /\ lock # Nobody
    BY <2>1 DEF IInv, Exclusion, Inside
  <2>3. data'[r].from = pos
    BY <1>6 DEF ReadWhole, ReadFile, IInv, ReaderTypeOK
  <2> QED
    BY <1>2, <2>1, <2>2, <2>3 DEF taken
<1> QED
  BY <1>3, <1>4, <1>5, <1>6

\* A return changes one answer.
LEMMA ReturnAnswers ==
  ASSUME IInv, NEW r \in Readers, NEW from \in Inside, NEW result \in 0 .. buff_s,
         Return(r, from, result)
  PROVE  /\ got' = [got EXCEPT ![r] = [at |-> offset_[r], size |-> result]]
         /\ lock = r /\ lock # Nobody /\ taken' = pos'
<1>1. packet' = [packet EXCEPT ![r] = [at |-> offset_[r], size |-> result, bytes |-> data'[r]]]
  BY DEF Return
<1>2. got' = [got EXCEPT ![r] = [at |-> offset_[r], size |-> result]]
  BY <1>1 DEF got, IInv, ReaderTypeOK
<1>3. lock = r /\ lock' = Nobody
  BY DEF Return, Goto, IInv, Exclusion
<1> QED
  BY <1>2, <1>3 DEF taken

\* Every return is one step of the abstract source.
LEMMA ReturnSteps ==
  ASSUME IInv, NEW r \in Readers,
         NotOk(r) \/ AtEof(r) \/ ReadLast(r) \/ Shrink(r)
  PROVE  Source!Hand(r) \/ Source!End(r)
<1>t. /\ pos \in 0 .. Size /\ file_size \in 0 .. Size /\ offset \in Nat
      /\ offset_ \in [Readers -> Nat] /\ data \in [Readers -> Bytes]
      /\ Progress(r) /\ Size \in Nat /\ buff_s \in Nat \ {0}
      /\ got \in [Readers -> [at : Nat, size : 0 .. buff_s]]
  BY DEF IInv, ReaderTypeOK, got
<1>e. ASSUME got' = [got EXCEPT ![r] = [at |-> offset_[r], size |-> 0]],
             taken = Size, taken' = taken
      PROVE  Source!End(r)
  <2>1. got'[r].at = offset_[r]
    BY <1>t, <1>e
  <2> QED
    BY <1>e, <2>1 DEF Source!End, Source!Answer, taken, got
<1>h. ASSUME NEW size \in 0 .. buff_s,
             got' = [got EXCEPT ![r] = [at |-> taken, size |-> size]],
             taken < Size, taken' = taken + size,
             size = IF Size - taken < buff_s THEN Size - taken ELSE buff_s
      PROVE  Source!Hand(r)
  BY <1>h DEF Source!Hand, Source!Answer, taken, got
<1>1. CASE NotOk(r) \/ AtEof(r)
  <2>1. Return(r, "check", 0) /\ pos' = pos /\ eof
    BY <1>1 DEF NotOk, AtEof, fileVars, IInv
  <2>2. pc[r] = "check" /\ "check" \in Inside
    BY <2>1 DEF Return, Goto, Inside
  <2>3. /\ got' = [got EXCEPT ![r] = [at |-> offset_[r], size |-> 0]]
        /\ lock = r /\ taken' = pos'
    BY <1>t, <2>1, <2>2, ReturnAnswers
  <2>4. taken = pos /\ pos = Size
    BY <1>t, <2>1, <2>2, <2>3 DEF taken, Progress, Between
  <2> QED
    BY <1>e, <2>1, <2>3, <2>4
<1>2. CASE ReadLast(r)
  <2>1. Return(r, "last_read", file_size) /\ ReadFile(r)
    BY <1>2 DEF ReadLast
  <2>2. pc[r] = "last_read" /\ "last_read" \in Inside
    BY <2>1 DEF Return, Goto, Inside
  <2>3. file_size < buff_s /\ pos + file_size = Size /\ offset_[r] = pos
    BY <1>t, <2>2 DEF Progress
  <2>4. Size - pos = file_size /\ file_size \in 0 .. buff_s
    BY <1>t, <2>3
  <2>5. /\ got' = [got EXCEPT ![r] = [at |-> pos, size |-> file_size]]
        /\ lock = r /\ taken' = pos'
    BY <2>1, <2>2, <2>3, <2>4, ReturnAnswers
  <2>6. taken = pos
    BY <2>2, <2>5 DEF taken
  <2>7. taken' = taken + file_size
    BY <2>1, <2>3, <2>4, <2>5, <2>6 DEF ReadFile
  <2>8. CASE file_size = 0
    BY <1>t, <1>e, <2>3, <2>5, <2>6, <2>7, <2>8
  <2>9. CASE file_size # 0
    <3>1. taken < Size
      BY <1>t, <2>3, <2>6, <2>9
    <3> QED
      BY <1>h, <2>3, <2>4, <2>5, <2>6, <2>7, <3>1
  <2> QED
    BY <2>8, <2>9
<1>3. CASE Shrink(r)
  <2>1. Return(r, "shrink", buff_s) /\ pos' = pos
    BY <1>3 DEF Shrink
  <2>2. pc[r] = "shrink" /\ "shrink" \in Inside
    BY <2>1 DEF Return, Goto, Inside
  <2>3. /\ file_size >= buff_s /\ pos = data[r].from + buff_s
        /\ data[r].from + file_size = Size /\ offset_[r] = data[r].from
    BY <1>t, <2>2 DEF Progress
  <2>4. data[r].from \in 0 .. Size /\ buff_s \in 0 .. buff_s
    BY <1>t DEF Bytes
  <2>5. /\ got' = [got EXCEPT ![r] = [at |-> offset_[r], size |-> buff_s]]
        /\ lock = r /\ lock # Nobody /\ taken' = pos'
    BY <2>1, <2>2, <2>4, ReturnAnswers
  <2>6. taken = data[r].from
    BY <2>2, <2>5 DEF taken
  <2>7. /\ taken < Size /\ taken' = taken + buff_s
        /\ ~(Size - taken < buff_s)
    BY <1>t, <2>1, <2>3, <2>4, <2>5, <2>6
  <2> QED
    BY <1>h, <2>3, <2>4, <2>5, <2>6, <2>7
<1> QED
  BY <1>1, <1>2, <1>3

LEMMA SourceStep ==
  ASSUME IInv, [Next]_vars
  PROVE  [Source!Next]_(Source!vars)
<1>1. ASSUME NEW r \in Readers, Step(r) PROVE Source!Next \/ UNCHANGED Source!vars
  <2>1. CASE Call(r) \/ Lock(r) \/ ChooseBranch(r) \/ SetOffset(r) \/ Count(r) \/ ReadWhole(r)
    BY <2>1, SilentSteps DEF Source!vars, taken, got
  <2>2. CASE NotOk(r) \/ AtEof(r) \/ ReadLast(r) \/ Shrink(r)
    BY <2>2, ReturnSteps DEF Source!Next
  <2> QED
    BY <1>1, <2>1, <2>2 DEF Step
<1>2. CASE UNCHANGED vars
  BY <1>2 DEF vars, fileVars, readerVars, Source!vars
<1> QED
  BY <1>1, <1>2 DEF Next, Finished

(* The statements of read under its lock, run by any number of threads,    *)
(* answer like an atomic source of pieces: each byte goes to one caller,   *)
(* in the order of the file, and answers are empty only after the last.    *)
THEOREM ReadIsAtomic == Spec => AnswersAreAtomic
<1>1. Init => Source!Init
  BY DEF Init, Source!Init
<1>2. IInv /\ [Next]_vars => [Source!Next]_(Source!vars)
  BY SourceStep
<1> QED
  BY <1>1, <1>2, InductiveInvariant, PTL DEF Spec, AnswersAreAtomic, Source!Spec
=============================================================================
