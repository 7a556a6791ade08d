--------------------------- MODULE ChangingSource ---------------------------
(***************************************************************************)
(* A source file that other programs append to or truncate while it is     *)
(* uploaded.  file_reader measures it once, in its constructor.  A call of *)
(* read() is one action: it holds the lock throughout, which FileReader    *)
(* shows to be atomic, and touches the file in one statement.  The bytes of *)
(* the file are known by where they are.                                   *)
(***************************************************************************)
EXTENDS Naturals

CONSTANTS
  Readers,    \* worker threads that share the file_reader
  StartSizes, \* sizes of the file when the client starts
  Sizes,      \* sizes it can change to
  MaxChanges, \* bound: changes of the size
  buff_s,     \* the -s option
  Garbage     \* what an uninitialized std::uintmax_t may hold

ASSUME SourceAssumption ==
  /\ StartSizes \subseteq Nat /\ Sizes \subseteq Nat /\ MaxChanges \in Nat
  /\ buff_s \in Nat \ {0}
  /\ Garbage \subseteq Nat /\ Garbage # {}

VARIABLES
  size,      \* size of the file
  changes,   \* how often it changed
  shrunk,    \* was it ever truncated after it was measured?
  measured,  \* file_length of the file negotiation
  file_size, \* what is left of it
  ok, eof,
  pos,       \* read position of the stream
  ahead,     \* end of what the stream has in its buffer
  offset,
  answer,    \* answer[r]: the last packet of worker r
  sent,      \* all packets
  running    \* workers in their loop

sourceVars == <<size, changes, shrunk>>
vars == <<sourceVars, measured, file_size, ok, eof, pos, ahead, offset, answer, sent, running>>

\* A packet: offset and size as read() returned them, and the len bytes from
\* `from' on that it put into the buffer.
NoPacket == [at |-> 0, size |-> 0, from |-> 0, len |-> 0]

Init ==
  /\ size \in StartSizes /\ changes = 0 /\ shrunk = FALSE
  /\ measured = size /\ file_size = size
  /\ ok = TRUE /\ eof = FALSE
  /\ pos = 0 /\ ahead = 0 /\ offset = 0
  /\ answer = [r \in Readers |-> NoPacket]
  /\ sent = {}
  /\ running = Readers

Change ==
  /\ changes < MaxChanges
  /\ size' \in Sizes \ {size}
  /\ changes' = changes + 1
  /\ shrunk' = (shrunk \/ size' < size)
  /\ UNCHANGED <<measured, file_size, ok, eof, pos, ahead, offset, answer, sent, running>>

\* _file.read(buffer, buff_s): from the buffer of the stream as far as that
\* goes, and from the file.  The stream may fill its buffer beyond the piece.
End == IF pos + buff_s <= ahead \/ size < ahead THEN ahead ELSE size
Len == IF End - pos < buff_s THEN End - pos ELSE buff_s

ReadFile ==
  /\ pos' = pos + Len
  /\ eof' = (Len < buff_s)
  /\ ahead' \in pos' .. End
  /\ (pos' <= ahead) => ahead' = ahead

\* A bug: the position is that of the stream after the read.
Return_Tell(r, at, n) ==
  LET packet == [at |-> IF n = 0 THEN at ELSE pos', size |-> n,
                 from |-> pos, len |-> pos' - pos]
  IN /\ answer' = [answer EXCEPT ![r] = packet]
     /\ sent' = sent \cup {packet}
     /\ running' = IF n = 0 THEN running \ {r} ELSE running

Return(r, at, n) ==
  LET packet == [at |-> at, size |-> n, from |-> pos, len |-> pos' - pos]
  IN /\ answer' = [answer EXCEPT ![r] = packet]
     /\ sent' = sent \cup {packet}
     /\ running' = IF n = 0 THEN running \ {r} ELSE running

\* A bug: less than a piece counts as the end.
AtEnd_ShortIsEnd(r) ==
  /\ ~ok \/ eof \/ file_size < buff_s
  /\ ok' = FALSE
  /\ UNCHANGED <<sourceVars, measured, file_size, eof, pos, ahead, offset>>
  /\ Return(r, 0, 0)

\* A bug: the answer at the end is not empty.
AtEnd_Repeats(r) ==
  /\ ~ok \/ eof
  /\ ok' = FALSE
  /\ UNCHANGED <<sourceVars, measured, file_size, eof, pos, ahead, offset>>
  /\ Return(r, 0, file_size)

AtEnd(r) ==
  /\ ~ok \/ eof
  /\ ok' = FALSE
  /\ UNCHANGED <<sourceVars, measured, file_size, eof, pos, ahead, offset>>
  /\ \E garbage \in Garbage : Return(r, garbage, 0)

\* file_size stays: if the file goes on behind the last piece, the next call
\* comes here again.
ReadLast(r) ==
  /\ ok /\ ~eof /\ file_size < buff_s
  /\ ReadFile
  /\ offset' = offset + 1
  /\ Return(r, offset * buff_s, file_size)
  /\ UNCHANGED <<sourceVars, measured, ok, file_size>>

ReadWhole(r) ==
  /\ ok /\ ~eof /\ file_size >= buff_s
  /\ ReadFile
  /\ offset' = offset + 1
  /\ file_size' = file_size - buff_s
  /\ Return(r, offset * buff_s, buff_s)
  /\ UNCHANGED <<sourceVars, measured, ok>>

Read(r) == r \in running /\ (AtEnd(r) \/ ReadLast(r) \/ ReadWhole(r))

Finished == running = {} /\ UNCHANGED vars

Next == Change \/ (\E r \in Readers : Read(r)) \/ Finished

Spec == Init /\ [][Next]_vars

FairSpec == Spec /\ \A r \in Readers : WF_vars(Read(r))
-----------------------------------------------------------------------------
(* Whatever happens to the file, no byte is sent as another one: what a    *)
(* packet holds is from the offset it says, and no two packets overlap.    *)
BytesInPlace ==
  \A p \in sent :
    /\ p.len > 0 /\ p.size > 0 => p.from = p.at
    /\ \A q \in sent : p.size > 0 /\ q.size > 0 /\ p # q =>
         p.at + p.size <= q.at \/ q.at + q.size <= p.at

\* Byte b of the file is in a packet that is written at its place.
Arrived(b) ==
  \E p \in sent : b >= p.at /\ b < p.at + p.size /\ b - p.at < p.len /\ p.from = p.at

(* If nothing was cut off, everything that was in the file when it was     *)
(* measured is sent, although workers may be told too early, by a size of  *)
(* 0, that the file ended.                                                 *)
MeasuredArrives ==
  running = {} /\ ~shrunk => \A b \in 0 .. measured - 1 : Arrived(b)

(* Every worker comes to an end once the file stops to change: file_size   *)
(* is not what ends the loop, the end of the stream is.                    *)
EveryoneEnds == <>(running = {})

(* read() returns "real read bytes for last piece": the size in a packet   *)
(* is the number of bytes that were read.                                  *)
SizeIsRead ==
  \A r \in Readers : answer[r].size # 0 => answer[r].size = answer[r].len
=============================================================================
