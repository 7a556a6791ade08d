----------------------------- MODULE FileReader -----------------------------
(***************************************************************************)
(* file_reader of file.cpp, statement by statement, called by the worker   *)
(* threads of a client in the loop of transfer().  Positions and sizes are *)
(* bytes; the bytes of a buffer are known by where they are in the file.   *)
(***************************************************************************)
EXTENDS Naturals

CONSTANTS
  Readers,  \* worker threads that share the file_reader
  Nobody,   \* owner of the mutex when it is free
  Size,     \* size of the file, and file_size when it was opened
  buff_s,   \* the -s option
  Garbage   \* what an uninitialized std::uintmax_t may hold

ASSUME ReaderAssumption ==
  /\ Nobody \notin Readers
  /\ Size \in Nat
  /\ buff_s \in Nat \ {0}
  /\ Garbage \subseteq Nat
  /\ Garbage # {}

VARIABLES
  lock,      \* owner of the mutex _lock
  ok,
  eof,       \* eofbit of _file
  pos,       \* read position of _file
  file_size,
  offset,
  pc,        \* pc[r]: the next statement of thread r
  data,      \* data[r]: the bytes in its buffer, from and len
  offset_,   \* offset_[r]: its local _offset, which read() gets a reference to
  packet     \* packet[r]: the packet it made of the last answer

fileVars == <<ok, eof, pos, file_size, offset>>
readerVars == <<pc, data, offset_, packet>>
vars == <<lock, fileVars, readerVars>>

\* The statements before which a thread that holds the mutex can be.
Inside == {"check", "last_offset", "last_count", "last_read", "read", "offset", "count", "shrink"}

Bytes == [from : 0 .. Size, len : 0 .. buff_s]

ReaderTypeOK ==
  /\ lock \in Readers \cup {Nobody}
  /\ ok \in BOOLEAN
  /\ eof \in BOOLEAN
  /\ pos \in 0 .. Size
  /\ file_size \in 0 .. Size
  /\ offset \in Nat
  /\ pc \in [Readers -> {"loop", "lock", "done"} \cup Inside]
  /\ data \in [Readers -> Bytes]
  /\ offset_ \in [Readers -> Nat]
  /\ packet \in [Readers -> [at : Nat, size : 0 .. buff_s, bytes : Bytes]]

Init ==
  /\ lock = Nobody
  /\ ok = TRUE
  /\ eof = FALSE
  /\ pos = 0
  /\ file_size = Size
  /\ offset = 0
  /\ pc = [r \in Readers |-> "loop"]
  /\ data = [r \in Readers |-> [from |-> 0, len |-> 0]]
  /\ offset_ = [r \in Readers |-> 0]
  /\ packet = [r \in Readers |-> [at |-> 0, size |-> 0, bytes |-> data[r]]]

Goto(r, from, to) == pc[r] = from /\ pc' = [pc EXCEPT ![r] = to]

\* do { uintmax_t _offset; the rest of the loop body works on locals.
Call(r) ==
  /\ Goto(r, "loop", "lock")
  /\ \E garbage \in Garbage : offset_' = [offset_ EXCEPT ![r] = garbage]
  /\ UNCHANGED <<lock, fileVars, data, packet>>

\* A bug: no mutual exclusion.
Lock_Always(r) ==
  /\ Goto(r, "lock", "check")
  /\ lock' = r
  /\ UNCHANGED <<fileVars, data, offset_, packet>>

Lock(r) ==
  /\ Goto(r, "lock", "check")
  /\ lock = Nobody
  /\ lock' = r
  /\ UNCHANGED <<fileVars, data, offset_, packet>>

\* A bug: an early return does not unlock.
Return_KeepsLock(r, from, result) ==
  /\ Goto(r, from, IF result = 0 THEN "done" ELSE "loop")
  /\ lock' = IF from = "check" THEN lock ELSE Nobody
  /\ packet' = [packet EXCEPT
       ![r] = [at |-> offset_[r], size |-> result, bytes |-> data'[r]]]
  /\ UNCHANGED offset_

\* return: the lock_guard unlocks, and the caller packs offset, size and
\* buffer; after an empty answer it leaves the loop.
Return(r, from, result) ==
  /\ Goto(r, from, IF result = 0 THEN "done" ELSE "loop")
  /\ lock' = Nobody
  /\ packet' = [packet EXCEPT
       ![r] = [at |-> offset_[r], size |-> result, bytes |-> data'[r]]]
  /\ UNCHANGED offset_

\* A bug: less than a piece counts as the end of the file.
NotOk_ShortIsEnd(r) ==
  /\ ~ok \/ file_size < buff_s
  /\ UNCHANGED <<fileVars, data>>
  /\ Return(r, "check", 0)

NotOk(r) ==
  /\ ~ok
  /\ UNCHANGED <<fileVars, data>>
  /\ Return(r, "check", 0)

AtEof(r) ==
  /\ ok /\ eof
  /\ ok' = FALSE
  /\ UNCHANGED <<eof, pos, file_size, offset, data>>
  /\ Return(r, "check", 0)

\* A bug: the last branch is taken one byte too late.
ChooseBranch_OffByOne(r) ==
  /\ ok /\ ~eof
  /\ Goto(r, "check", IF file_size + 1 < buff_s THEN "last_offset" ELSE "read")
  /\ UNCHANGED <<lock, fileVars, data, offset_, packet>>

ChooseBranch(r) ==
  /\ ok /\ ~eof
  /\ Goto(r, "check", IF file_size < buff_s THEN "last_offset" ELSE "read")
  /\ UNCHANGED <<lock, fileVars, data, offset_, packet>>

SetOffset(r) ==
  /\ \/ Goto(r, "last_offset", "last_count")
     \/ Goto(r, "offset", "count")
  /\ offset_' = [offset_ EXCEPT ![r] = offset * buff_s]
  /\ UNCHANGED <<lock, fileVars, data, packet>>

Count(r) ==
  /\ \/ Goto(r, "last_count", "last_read")
     \/ Goto(r, "count", "shrink")
  /\ offset' = offset + 1
  /\ UNCHANGED <<lock, ok, eof, pos, file_size, data, offset_, packet>>

\* _file.read(buffer, buff_s): a read past the end sets the eofbit.
ReadFile(r) ==
  LET left == Size - pos
      len == IF left < buff_s THEN left ELSE buff_s
  IN /\ data' = [data EXCEPT ![r] = [from |-> pos, len |-> len]]
     /\ pos' = pos + len
     /\ eof' = (left < buff_s)

ReadLast(r) ==
  /\ ReadFile(r)
  /\ Return(r, "last_read", file_size)
  /\ UNCHANGED <<ok, file_size, offset>>

ReadWhole(r) ==
  /\ Goto(r, "read", "offset")
  /\ ReadFile(r)
  /\ UNCHANGED <<lock, ok, file_size, offset, offset_, packet>>

\* A bug: file_size is not decreased.
Shrink_Not(r) ==
  /\ UNCHANGED <<ok, eof, pos, offset, file_size, data>>
  /\ Return(r, "shrink", buff_s)

Shrink(r) ==
  /\ file_size' = file_size - buff_s
  /\ UNCHANGED <<ok, eof, pos, offset, data>>
  /\ Return(r, "shrink", buff_s)

\* Every worker thread left the loop.
Finished == (\A r \in Readers : pc[r] = "done") /\ UNCHANGED vars

Step(r) ==
  \/ Call(r) \/ Lock(r) \/ NotOk(r) \/ AtEof(r) \/ ChooseBranch(r)
  \/ SetOffset(r) \/ Count(r) \/ ReadLast(r) \/ ReadWhole(r) \/ Shrink(r)

Next == (\E r \in Readers : Step(r)) \/ Finished

Spec == Init /\ [][Next]_vars

\* The operating system runs every thread, and a thread that waits for the
\* mutex gets it in the end.
FairSpec ==
  Spec /\ \A r \in Readers : WF_vars(Step(r)) /\ SF_vars(Lock(r))
-----------------------------------------------------------------------------
(* Safety                                                                  *)

(* The lock keeps the piece order: the offset and the length of a packet   *)
(* are those of the bytes in it.                                           *)
PacketMatchesBytes ==
  \A r \in Readers : packet[r].size # 0 =>
    packet[r].bytes = [from |-> packet[r].at, len |-> packet[r].size]

(* A thread is told that the file ended only when all of it was read.      *)
EndMeansAllRead == \A r \in Readers : pc[r] = "done" => pos = Size /\ eof

(* The answers of concurrent calls are those of an atomic piece source.    *)
Source == INSTANCE PieceSource WITH
  Callers <- Readers,
  FileBytes <- Size,
  AnswerBytes <- buff_s,
  taken <- IF lock # Nobody /\ pc[lock] \in {"offset", "count", "shrink"}
             THEN data[lock].from ELSE pos,
  got <- [r \in Readers |-> [at |-> packet[r].at, size |-> packet[r].size]]

AnswersAreAtomic == Source!Spec

(* read() stores the start byte of the piece in offset_, as file.h says of *)
(* it: at the end of the file that is the size of the file.                *)
OffsetIsStored ==
  \A r \in Readers : pc[r] = "done" => packet[r].at = Size

(* Liveness: every worker thread leaves its loop.                          *)
EveryoneDone == <>(\A r \in Readers : pc[r] = "done")
=============================================================================
