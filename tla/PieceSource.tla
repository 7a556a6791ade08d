---------------------------- MODULE PieceSource ----------------------------
(***************************************************************************)
(* What file.h promises of file_reader, "the instance is thread safe":     *)
(* calls of read hand out the file from its first byte to its last, every  *)
(* byte to one caller, in answers of buff_s bytes except for the last; then *)
(* every answer is empty.                                                  *)
(***************************************************************************)
EXTENDS Naturals

CONSTANTS
  Callers,
  FileBytes,  \* size of the file
  AnswerBytes \* size of an answer, buff_s

VARIABLES
  taken, \* bytes handed out so far
  got    \* got[r]: the last answer to r: its first byte and its length

vars == <<taken, got>>

Init ==
  /\ taken = 0
  /\ got = [r \in Callers |-> [at |-> 0, size |-> 0]]

Answer(r, at, size) == got' = [got EXCEPT ![r] = [at |-> at, size |-> size]]

Hand(r) ==
  LET left == FileBytes - taken
      size == IF left < AnswerBytes THEN left ELSE AnswerBytes
  IN /\ taken < FileBytes
     /\ Answer(r, taken, size)
     /\ taken' = taken + size

\* At the end the position of the empty answer means nothing.
End(r) ==
  /\ taken = FileBytes
  /\ Answer(r, got'[r].at, 0)
  /\ UNCHANGED taken

Next == \E r \in Callers : Hand(r) \/ End(r)

Spec == Init /\ [][Next]_vars
=============================================================================
