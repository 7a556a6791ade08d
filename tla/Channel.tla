------------------------------ MODULE Channel ------------------------------
(***************************************************************************)
(* What module Network takes a connection to be: messages arrive whole and *)
(* in order.  A read fails when the connection is lost, or when it was shut *)
(* and every message on it was read.                                       *)
(***************************************************************************)
EXTENDS Naturals, Sequences

VARIABLES
  queue,  \* messages written and not yet read
  got,    \* messages read so far
  link,   \* "open", "shut" by the writer or "cut"
  reading \* does the reader go on?

vars == <<queue, got, link, reading>>

Init == queue = << >> /\ got = << >> /\ link = "open" /\ reading = TRUE

Write ==
  /\ link = "open"
  /\ Len(queue') = Len(queue) + 1
  /\ SubSeq(queue', 1, Len(queue)) = queue
  /\ UNCHANGED <<got, link, reading>>

\* The reader may want no more after a message.
Read ==
  /\ reading /\ queue # << >>
  /\ got' = Append(got, Head(queue))
  /\ queue' = Tail(queue)
  /\ reading' \in BOOLEAN
  /\ UNCHANGED link

Break ==
  /\ link = "open"
  /\ link' \in {"shut", "cut"}
  /\ UNCHANGED <<queue, got, reading>>

Fail ==
  /\ reading
  /\ link = "cut" \/ (link = "shut" /\ queue = << >>)
  /\ reading' = FALSE
  /\ UNCHANGED <<queue, got, link>>

Next == Write \/ Read \/ Break \/ Fail

Spec == Init /\ [][Next]_vars
=============================================================================
