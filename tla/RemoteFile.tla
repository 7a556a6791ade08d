----------------------------- MODULE RemoteFile -----------------------------
(***************************************************************************)
(* What an upload promises about the file on the server, whatever happens  *)
(* to processes and connections: it holds only pieces that were read from  *)
(* the source, each of them is written once, in any order, and nothing     *)
(* changes once the file is closed.  A piece that was read and is not      *)
(* written yet is pending; it can get lost, and then it stays lost.        *)
(*                                                                         *)
(* When a write to the disk fails, the place of its piece and the next two *)
(* may get damaged, no others, and nothing is stored after that.           *)
(***************************************************************************)
EXTENDS Naturals

CONSTANTS
  Uploads,   \* one upload of one file for each client
  PieceCount, \* pieces of a source file
  DiskFails  \* may a write to the disk fail?

VARIABLES
  taken,    \* taken[u]: how many pieces were read, in order
  pending,  \* pending[u]: pieces on their way
  stored,   \* stored[u]: pieces in the file, whole and in place
  damaged,  \* damaged[u]: places in the file with other bytes
  closed    \* closed[u]: is the file closed?

vars == <<taken, pending, stored, damaged, closed>>

Init ==
  /\ taken = [u \in Uploads |-> 0]
  /\ pending = [u \in Uploads |-> {}]
  /\ stored = [u \in Uploads |-> {}]
  /\ damaged = [u \in Uploads |-> {}]
  /\ closed = [u \in Uploads |-> FALSE]

Take(u) ==
  /\ taken[u] < PieceCount
  /\ taken' = [taken EXCEPT ![u] = @ + 1]
  /\ pending' = [pending EXCEPT ![u] = @ \cup {taken[u]}]
  /\ UNCHANGED <<stored, damaged, closed>>

\* The pieces L are on their way no longer: those of S reach the file, the
\* others are lost.  The file may be closed after that.
Write(u, S, L) ==
  /\ ~closed[u]
  /\ S # {} => damaged[u] = {}
  /\ stored' = [stored EXCEPT ![u] = @ \cup S]
  /\ pending' = [pending EXCEPT ![u] = @ \ L]
  /\ closed' \in {closed, [closed EXCEPT ![u] = TRUE]}
  /\ UNCHANGED <<taken, damaged>>

\* Places that a failing write of the piece p may damage.
Near(p) == {p, p + 1, p + 2}

\* The write of the pending piece p fails: bytes of it got to the places D.
\* The pieces L are on their way no longer.  There is one such p at most.
Damage(u, p, D, L) ==
  /\ DiskFails /\ ~closed[u]
  /\ damaged[u] \cup D \subseteq Near(p)
  /\ damaged' = [damaged EXCEPT ![u] = @ \cup D]
  /\ stored' = [stored EXCEPT ![u] = @ \ D]
  /\ pending' = [pending EXCEPT ![u] = @ \ L]
  /\ closed' \in {closed, [closed EXCEPT ![u] = TRUE]}
  /\ UNCHANGED taken

\* A lost connection, a crash, a full disk or a closed file drops pieces.
Lose ==
  /\ \A u \in Uploads : pending'[u] \subseteq pending[u]
  /\ pending' = [u \in Uploads |-> pending'[u]]
  /\ UNCHANGED <<taken, stored, damaged, closed>>

Next ==
  \/ \E u \in Uploads : Take(u)
  \/ \E u \in Uploads : \E L \in SUBSET pending[u] : \E S \in SUBSET L : Write(u, S, L)
  \/ \E u \in Uploads : \E p \in pending[u] : \E D \in SUBSET Near(p) :
       \E L \in SUBSET pending[u] : Damage(u, p, D, L)
  \/ Lose

Spec == Init /\ [][Next]_vars
=============================================================================
