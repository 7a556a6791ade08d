----------------------------- MODULE FileWriter -----------------------------
(***************************************************************************)
(* file_writer of file.cpp, byte by byte: uploads next to other programs,  *)
(* whose paths may be the same and may be on another file system than the  *)
(* current directory.  Byte i of the source of upload w is <<w, i>>.       *)
(* Writes are serialised by the mutex and by the io_context, so each call  *)
(* is one action.                                                          *)
(***************************************************************************)
EXTENDS Naturals, Sequences, FiniteSets, FiniteSetsExt

CONSTANTS
  Writers,     \* uploads, each with a session and its file_writer
  Paths,       \* paths they may name
  Elsewhere,   \* those that are not on the file system of the current directory
  Hole,        \* a byte that nobody wrote
  Nobody,      \* opened no file
  FileSizes,   \* file lengths and
  PieceSizes,  \* piece sizes of the file negotiations
  BufferBytes, \* pieces of this size or more bypass the buffer of the ofstream
  EmptyOrders, \* orders of the packets without bytes, never initialised
  LargestFile, \* a position after it is refused
  Capacity, CapacityElsewhere, \* bytes of the two file systems
  MaxOthers    \* bound: bytes that other programs take of each

ASSUME WriterAssumption ==
  /\ FileSizes \subseteq Nat /\ PieceSizes \subseteq Nat \ {0}
  /\ EmptyOrders \subseteq Nat \ {0}
  /\ {BufferBytes, LargestFile, Capacity, CapacityElsewhere, MaxOthers} \subseteq Nat
  /\ IsFiniteSet(Paths) /\ Elsewhere \subseteq Paths
  /\ Nobody \notin Writers /\ Hole \notin Writers \X Nat

VARIABLES
  path, length, piece_size, \* what the client of w negotiated
  disk,    \* disk[p]: the bytes of the file p
  opener,  \* opener[p]: who opened p last
  others,  \* bytes that other programs took of each file system
  stream,  \* state of _file: after a write that the disk did not take whole
           \* "full", closed "lost"; after a refused seek "failed", "dropped"
  buf,     \* buf[w]: the bytes in its buffer
  fd,      \* fd[w]: position of its file descriptor
  written  \* written[w]: orders of the pieces given to write()

negotiated == <<path, length, piece_size>>
vars == <<negotiated, disk, opener, others, stream, buf, fd, written>>

Pieces(w) == {i \in 0 .. length[w] : i * piece_size[w] < length[w]}

\* The bytes of piece i, the last of which may be short.
Piece(w, i) ==
  LET at == i * piece_size[w]
      left == length[w] - at
  IN [k \in 1 .. IF left < piece_size[w] THEN left ELSE piece_size[w] |-> <<w, at + k - 1>>]

FileSystems == {"current", "other"}

On(p) == IF p \in Elsewhere THEN "other" ELSE "current"

Init ==
  /\ path \in [Writers -> Paths]
  /\ length \in [Writers -> FileSizes]
  /\ piece_size \in [Writers -> PieceSizes]
  /\ disk = [p \in Paths |-> << >>]
  /\ opener = [p \in Paths |-> Nobody]
  /\ others = [s \in FileSystems |-> 0]
  /\ stream = [w \in Writers |-> "none"]
  /\ buf = [w \in Writers |-> << >>]
  /\ fd = [w \in Writers |-> 0]
  /\ written = [w \in Writers |-> {}]

\* The bytes of a file system that its files take: a hole takes none.
Stored(file) == {i \in DOMAIN file : file[i] # Hole}
Used(d, s) == UNION {{p} \X Stored(d[p]) : p \in {q \in Paths : On(q) = s}}

\* What fs::space says of a file system.
Free(d, s) ==
  (IF s = "current" THEN Capacity ELSE CapacityElsewhere) - others[s] - Cardinality(Used(d, s))

\* The file after bytes were put at a position; a gap before it is a hole.
Put(file, at, bytes) ==
  [i \in 1 .. Max({Len(file), at + Len(bytes)}) |->
     IF i \in at + 1 .. at + Len(bytes) THEN bytes[i - at]
     ELSE IF i <= Len(file) THEN file[i] ELSE Hole]

\* Room for the first n bytes at the position.
Fits(d, p, at, bytes, n) ==
  /\ at + n <= LargestFile
  /\ Free([d EXCEPT ![p] = Put(@, at, SubSeq(bytes, 1, n))], On(p)) >= 0

\* How many of the bytes the file system of p takes.
Taken(d, p, at, bytes) ==
  Max({n \in 0 .. Len(bytes) : n = 0 \/ Fits(d, p, at, bytes, n)})

\* ::write on the descriptor of w: the disk afterwards.
Kernel(d, w, at, bytes) ==
  LET n == Taken(d, path[w], at, bytes)
  IN IF n = 0 THEN d ELSE [d EXCEPT ![path[w]] = Put(@, at, SubSeq(bytes, 1, n))]

OtherPrograms(s) ==
  /\ others[s] < MaxOthers /\ Free(disk, s) > 0
  /\ others' = [others EXCEPT ![s] = @ + 1]
  /\ UNCHANGED <<negotiated, disk, opener, stream, buf, fd, written>>

\* The space that is looked at is that of the current directory.
Refuse(w) ==
  /\ stream[w] = "none"
  /\ Free(disk, "current") < length[w]
  /\ stream' = [stream EXCEPT ![w] = "refused"]
  /\ UNCHANGED <<negotiated, disk, opener, others, buf, fd, written>>

\* The constructor's open failed: ok stays false.
OpenFails(w) ==
  /\ stream[w] = "none"
  /\ Free(disk, "current") >= length[w]
  /\ stream' = [stream EXCEPT ![w] = "refused"]
  /\ UNCHANGED <<negotiated, disk, opener, others, buf, fd, written>>

\* A bug: a piece less than the file is enough.
Open_OnePieceLess(w) ==
  /\ stream[w] = "none"
  /\ Free(disk, "current") + piece_size[w] >= length[w]
  /\ stream' = [stream EXCEPT ![w] = "good"]
  /\ disk' = [disk EXCEPT ![path[w]] = << >>]
  /\ opener' = [opener EXCEPT ![path[w]] = w]
  /\ UNCHANGED <<negotiated, others, buf, fd, written>>

\* The constructor: the space is looked at before the file is truncated.
Open(w) ==
  /\ stream[w] = "none"
  /\ Free(disk, "current") >= length[w]
  /\ stream' = [stream EXCEPT ![w] = "good"]
  /\ disk' = [disk EXCEPT ![path[w]] = << >>]
  /\ opener' = [opener EXCEPT ![path[w]] = w]
  /\ UNCHANGED <<negotiated, others, buf, fd, written>>

\* A bug: the next piece replaces the buffer before the seek flushes it.
WriteGood_NoFlush(w, i) ==
  LET piece == Piece(w, i)
  IN /\ stream[w] = "good"
     /\ buf' = [buf EXCEPT ![w] = piece]
     /\ fd' = [fd EXCEPT ![w] = i * piece_size[w]]
     /\ written' = [written EXCEPT ![w] = @ \cup {i}]
     /\ UNCHANGED <<negotiated, disk, opener, others, stream>>

\* A bug: the buffer is flushed after the seek.
WriteGood_LateFlush(w, i) ==
  LET at == i * piece_size[w]
      disk1 == Kernel(disk, w, at, buf[w])
  IN /\ stream[w] = "good"
     /\ disk' = disk1
     /\ buf' = [buf EXCEPT ![w] = Piece(w, i)]
     /\ fd' = [fd EXCEPT ![w] = at]
     /\ written' = [written EXCEPT ![w] = @ \cup {i}]
     /\ UNCHANGED <<negotiated, opener, others, stream>>

\* seekp hands the buffer to the kernel and moves the descriptor, then the
\* bytes go to the buffer or to the kernel.  What the kernel does not take is
\* an error of the stream: the buffer keeps all its bytes, the descriptor has
\* moved.  A refused position is one too, after the flush.
SeekAndWrite(w, at, bytes) ==
  LET flushed == Taken(disk, path[w], fd[w], buf[w])
      disk1 == Kernel(disk, w, fd[w], buf[w])
      direct == IF Len(bytes) < BufferBytes THEN << >> ELSE bytes
      taken == Taken(disk1, path[w], at, direct)
  IN /\ stream[w] = "good"
     /\ \/ /\ flushed < Len(buf[w])
           /\ disk' = disk1
           /\ fd' = [fd EXCEPT ![w] = @ + flushed]
           /\ stream' = [stream EXCEPT ![w] = "full"]
           /\ UNCHANGED buf
        \/ /\ flushed = Len(buf[w]) /\ at > LargestFile
           /\ disk' = disk1
           /\ fd' = [fd EXCEPT ![w] = @ + flushed]
           /\ stream' = [stream EXCEPT ![w] = "failed"]
           /\ buf' = [buf EXCEPT ![w] = << >>]
        \/ /\ flushed = Len(buf[w]) /\ at <= LargestFile
           /\ disk' = Kernel(disk1, w, at, direct)
           /\ fd' = [fd EXCEPT ![w] = at + taken]
           /\ buf' = [buf EXCEPT ![w] = IF direct = << >> THEN bytes ELSE << >>]
           /\ stream' = [stream EXCEPT ![w] = IF taken < Len(direct) THEN "full" ELSE "good"]
     /\ UNCHANGED <<negotiated, opener, others>>

\* write() of a piece.
WriteGood(w, i) ==
  /\ SeekAndWrite(w, i * piece_size[w], Piece(w, i))
  /\ written' = [written EXCEPT ![w] = @ \cup {i}]

\* write() of no byte: the packet of a read that found nothing left, whose
\* order is not 0.  The seek is made all the same.
WriteEmpty(w, order) ==
  /\ SeekAndWrite(w, order * piece_size[w], << >>)
  /\ UNCHANGED written

\* After an error write() does nothing and returns len all the same.
WriteBad(w, i) ==
  /\ stream[w] \in {"full", "failed"}
  /\ written' = [written EXCEPT ![w] = @ \cup {i}]
  /\ UNCHANGED <<negotiated, disk, opener, others, stream, buf, fd>>

\* "File not open".
WriteClosed(w) == stream[w] \in {"closed", "lost", "dropped"} /\ UNCHANGED vars

\* The state of a stream that is closed, by what the last flush took.
CloseState(w, flushed) ==
  CASE stream[w] = "good" /\ flushed = Len(buf[w]) -> "closed"
    [] stream[w] = "failed" -> "dropped"
    [] OTHER -> "lost"

\* A bug: what is buffered is dropped.
Close_NoFlush(w) ==
  /\ stream[w] \in {"good", "full", "failed"}
  /\ stream' = [stream EXCEPT ![w] = CloseState(w, Len(buf[w]))]
  /\ buf' = [buf EXCEPT ![w] = << >>]
  /\ UNCHANGED <<negotiated, disk, opener, others, fd, written>>

\* close, after which the destructor finds nothing open: flush tries the
\* buffer again, from its first byte on.
Close(w) ==
  /\ stream[w] \in {"good", "full", "failed"}
  /\ disk' = Kernel(disk, w, fd[w], buf[w])
  /\ stream' = [stream EXCEPT ![w] = CloseState(w, Taken(disk, path[w], fd[w], buf[w]))]
  /\ buf' = [buf EXCEPT ![w] = << >>]
  /\ UNCHANGED <<negotiated, opener, others, fd, written>>

Write(w) ==
  \/ \E i \in Pieces(w) \ written[w] : WriteGood(w, i) \/ WriteBad(w, i)
  \/ \E order \in EmptyOrders : WriteEmpty(w, order)
  \/ WriteClosed(w)

\* No upload got a file.
Idle == (\A w \in Writers : stream[w] = "refused") /\ UNCHANGED vars

Next ==
  \/ \E s \in FileSystems : OtherPrograms(s)
  \/ \E w \in Writers : Refuse(w) \/ OpenFails(w) \/ Open(w) \/ Write(w) \/ Close(w)
  \/ Idle

Spec == Init /\ [][Next]_vars
-----------------------------------------------------------------------------
Opened(w) == stream[w] \notin {"none", "refused"}

(* No byte ends up at the place of another one, unless the disk did not    *)
(* take all that its writer put there (seekp, write, and the flush of what *)
(* was buffered, by the next seekp or by close): a refused seek and the    *)
(* seek of an empty packet misplace nothing.                               *)
BytesInPlace ==
  \A p \in Paths : \A i \in DOMAIN disk[p] :
    \/ disk[p][i] = Hole
    \/ disk[p][i][2] = i - 1
    \/ stream[disk[p][i][1]] \in {"full", "lost"}

\* The bytes that the pieces given to write() make, each at its place.
Source(w) ==
  LET bytes == UNION {{Piece(w, i)[k] : k \in DOMAIN Piece(w, i)} : i \in written[w]}
  IN [i \in 1 .. Max({0} \cup {b[2] + 1 : b \in bytes}) |->
        IF <<w, i - 1>> \in bytes THEN <<w, i - 1>> ELSE Hole]

(* A file that one upload opened and closed without an error holds exactly *)
(* the pieces it was given, in whatever order they came and whether or not *)
(* they went through the buffer.                                           *)
ClosedHoldsWritten ==
  \A w \in Writers :
    stream[w] = "closed" /\ (\A v \in Writers \ {w} : path[v] = path[w] => ~Opened(v))
      => disk[path[w]] = Source(w)

(* When two uploads name the same path, the one that opened the file last  *)
(* truncated it; once it wrote all its pieces, none of its bytes is        *)
(* missing: each is its own or was overwritten by the other.               *)
LastOpenerHasNoHole ==
  \A w \in Writers :
    stream[w] = "closed" /\ opener[path[w]] = w /\ written[w] = Pieces(w)
      => /\ Len(disk[path[w]]) >= length[w]
         /\ \A i \in 1 .. length[w] : disk[path[w]][i] # Hole

(* The check of the available space is enough for an upload to the file    *)
(* system that is looked at, when no other upload opened a file: only      *)
(* "other write perform to the file system", or a file too long for it,    *)
(* makes a write or a flush lose bytes.                                    *)
CheckedSpaceIsEnough ==
  \A w \in Writers :
    stream[w] \in {"full", "lost"} =>
      \/ path[w] \in Elsewhere
      \/ length[w] > LargestFile
      \/ others["current"] > 0
      \/ \E v \in Writers \ {w} : Opened(v)

(* "multi instance should never control the same file": a closed file has  *)
(* the bytes of its own upload only.                                       *)
ClosedIsOwn ==
  \A w \in Writers : stream[w] = "closed" =>
    \A i \in DOMAIN disk[path[w]] : disk[path[w]][i] \in {Hole, <<w, i - 1>>}
=============================================================================
