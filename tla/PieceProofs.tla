---------------------------- MODULE PieceProofs ----------------------------
(***************************************************************************)
(* Theorems about the pieces of Upload: where each of them is, and that    *)
(* the remote file keeps the promise of RemoteFile, for any clients,       *)
(* threads, source files and faults.                                       *)
(***************************************************************************)
EXTENDS UploadProofs

Index == Nat \ {0}

\* Worker t of client c is about to send piece p; message i on its connection
\* is piece p.
Holds(c, t, p) == wk[<<c, t>>] = "sending" /\ hold[<<c, t>>] = [order |-> p, size |-> 1]
On(c, t, i, p) == i \in DOMAIN up[<<c, t>>] /\ up[<<c, t>>][i] = DataMsg(c, p, 1)

\* A piece that was not read yet is nowhere.
Fresh(c, p) ==
  p >= next[c] =>
    /\ \A t \in Threads : ~Holds(c, t, p) /\ \A i \in Index : ~On(c, t, i, p)
    /\ p \notin buf[c] \cup disk[c]

\* A piece is on the client's side once at most.
Alone(c, p) ==
  /\ \A t, u \in Threads : Holds(c, t, p) /\ Holds(c, u, p) => t = u
  /\ \A t, u \in Threads, i \in Index : ~(Holds(c, t, p) /\ On(c, u, i, p))
  /\ \A t, u \in Threads, i, j \in Index :
       On(c, t, i, p) /\ On(c, u, j, p) => t = u /\ i = j

\* And then it is not on the server's.
Away(c, p) ==
  /\ \A t \in Threads : Holds(c, t, p) => p \notin buf[c] \cup disk[c]
  /\ \A t \in Threads, i \in Index : On(c, t, i, p) => p \notin buf[c] \cup disk[c]
  /\ ~(p \in buf[c] /\ p \in disk[c])

One(c, p) == Fresh(c, p) /\ Alone(c, p) /\ Away(c, p)

\* A step that reads at most the first message of connection v, and may hand
\* the piece in it and those in the buffer on.
Passes(c, p, v) ==
  /\ next[c] \in Nat /\ next'[c] \in Nat /\ next'[c] >= next[c]
  /\ \A t \in Threads : Holds(c, t, p)' => Holds(c, t, p)
  /\ \A t \in Threads, i \in Index :
       On(c, t, i, p)' => On(c, t, IF <<c, t>> = v THEN i + 1 ELSE i, p)
  /\ p \in buf'[c] => p \in buf[c] \/ \E t \in Threads : <<c, t>> = v /\ On(c, t, 1, p)
  /\ p \in disk'[c] =>
       p \in disk[c] \cup buf[c] \/ \E t \in Threads : <<c, t>> = v /\ On(c, t, 1, p)
  /\ ~(p \in buf'[c] /\ p \in disk'[c])

LEMMA PassesKeepsOne ==
  ASSUME NEW c \in Clients, NEW p \in Nat, NEW v, One(c, p), Passes(c, p, v)
  PROVE  One(c, p)'
<1>i. 1 \in Index /\ \A i \in Index : i + 1 \in Index /\ i + 1 # 1
  BY DEF Index
<1>s. \A t \in Threads, i \in Index :
        On(c, t, i, p)' => \E j \in Index : On(c, t, j, p) /\ (<<c, t>> = v => j # 1 /\ j = i + 1)
                                             /\ (<<c, t>> # v => j = i)
  BY <1>i DEF Passes
<1>1. Fresh(c, p)'
  <2> SUFFICES ASSUME p >= next'[c]
               PROVE  /\ \A t \in Threads : ~Holds(c, t, p)' /\ \A i \in Index : ~On(c, t, i, p)'
                      /\ p \notin buf'[c] \cup disk'[c]
    BY DEF Fresh
  <2>1. p >= next[c]
    BY DEF Passes
  <2>2. /\ \A t \in Threads : ~Holds(c, t, p) /\ \A i \in Index : ~On(c, t, i, p)
        /\ p \notin buf[c] \cup disk[c]
    BY <2>1 DEF One, Fresh
  <2>3. \A t \in Threads : ~Holds(c, t, p)' /\ \A i \in Index : ~On(c, t, i, p)'
    BY <1>s, <2>2 DEF Passes
  <2>4. p \notin buf'[c] \cup disk'[c]
    BY <1>i, <2>2 DEF Passes
  <2> QED
    BY <2>3, <2>4
<1>2. Alone(c, p)'
  <2>1. \A t, u \in Threads : Holds(c, t, p)' /\ Holds(c, u, p)' => t = u
    BY DEF One, Alone, Passes
  <2>2. \A t, u \in Threads, i \in Index : ~(Holds(c, t, p)' /\ On(c, u, i, p)')
    BY <1>s DEF One, Alone, Passes
  <2>3. ASSUME NEW t \in Threads, NEW u \in Threads, NEW i \in Index, NEW j \in Index,
               On(c, t, i, p)', On(c, u, j, p)'
        PROVE  t = u /\ i = j
    <3>1. PICK k \in Index : On(c, t, k, p) /\ (<<c, t>> = v => k = i + 1)
                              /\ (<<c, t>> # v => k = i)
      BY <2>3, <1>s
    <3>2. PICK l \in Index : On(c, u, l, p) /\ (<<c, u>> = v => l = j + 1)
                              /\ (<<c, u>> # v => l = j)
      BY <2>3, <1>s
    <3>3. t = u /\ k = l
      BY <3>1, <3>2 DEF One, Alone
    <3> QED
      BY <3>1, <3>2, <3>3 DEF Index
  <2> QED
    BY <2>1, <2>2, <2>3 DEF Alone
<1>3. Away(c, p)'
  <2>1. ASSUME NEW t \in Threads, Holds(c, t, p)' PROVE p \notin buf'[c] \cup disk'[c]
    <3>1. Holds(c, t, p)
      BY <2>1 DEF Passes
    <3>2. p \notin buf[c] \cup disk[c] /\ \A u \in Threads : ~On(c, u, 1, p)
      BY <3>1, <1>i DEF One, Alone, Away
    <3> QED
      BY <3>2 DEF Passes
  <2>2. ASSUME NEW t \in Threads, NEW i \in Index, On(c, t, i, p)'
        PROVE  p \notin buf'[c] \cup disk'[c]
    <3>1. PICK j \in Index : On(c, t, j, p) /\ (<<c, t>> = v => j # 1)
      BY <2>2, <1>s
    <3>2. \A u \in Threads : <<c, u>> = v => ~On(c, u, 1, p)
      BY <3>1, <1>i DEF One, Alone
    <3> QED
      BY <3>1, <3>2 DEF One, Away, Passes
  <2> QED
    BY <2>1, <2>2 DEF Away, Passes
<1> QED
  BY <1>1, <1>2, <1>3 DEF One
-----------------------------------------------------------------------------
(* Messages that are read, or lost                                         *)

\* Of the connections of workers, at most v is read from, others may be lost.
Drained(v) ==
  \A w \in Workers : up'[w] \in {<< >>, IF w = v THEN Tail(up[w]) ELSE up[w]}

LEMMA TailEntries ==
  ASSUME Typed, NEW w \in Workers, NEW i \in DOMAIN Tail(up[w])
  PROVE  up[w] # << >> => i + 1 \in DOMAIN up[w] /\ Tail(up[w])[i] = up[w][i + 1]
<1>1. up[w] \in Seq(Messages)
  BY WorkerIsConn DEF Typed, TypeOK, NetTypeOK
<1> QED
  BY <1>1

LEMMA DrainedOn ==
  ASSUME Typed, NEW v, Drained(v), v \in Workers => up[v] # << >>,
         NEW c \in Clients, NEW t \in Threads, NEW i \in Index, NEW p, On(c, t, i, p)'
  PROVE  On(c, t, IF <<c, t>> = v THEN i + 1 ELSE i, p)
<1>w. <<c, t>> \in Workers
  BY DEF Workers
<1>1. CASE up'[<<c, t>>] = << >>
  BY <1>1 DEF On
<1>2. CASE <<c, t>> # v /\ up'[<<c, t>>] = up[<<c, t>>]
  BY <1>2 DEF On
<1>3. CASE <<c, t>> = v /\ up'[<<c, t>>] = Tail(up[<<c, t>>])
  <2>1. i \in DOMAIN Tail(up[<<c, t>>]) /\ Tail(up[<<c, t>>])[i] = DataMsg(c, p, 1)
    BY <1>3 DEF On
  <2> QED
    BY <1>3, <1>w, <2>1, TailEntries DEF On
<1> QED
  BY <1>w, <1>1, <1>2, <1>3 DEF Drained

\* The data packets on a connection are the client's own.
OwnPieces(w) ==
  \A i \in DOMAIN up[w] : up[w][i].type = "data" =>
    up[w][i].session = w[1] /\ (up[w][i].size = 1 => up[w][i].order \in Pieces)

LEMMA DrainedOwn ==
  ASSUME Typed, NEW v, Drained(v), v \in Workers => up[v] # << >>,
         NEW w \in Workers, OwnPieces(w)
  PROVE  OwnPieces(w)'
<1>1. CASE up'[w] \in {<< >>, up[w]}
  BY <1>1 DEF OwnPieces
<1>2. CASE w = v /\ up'[w] = Tail(up[w])
  <2>1. ASSUME NEW i \in DOMAIN up'[w]
        PROVE  i + 1 \in DOMAIN up[w] /\ up'[w][i] = up[w][i + 1]
    BY <1>2, <2>1, TailEntries
  <2> QED
    BY <2>1 DEF OwnPieces
<1> QED
  BY <1>1, <1>2 DEF Drained

\* The packet a Thread reads.
LEMMA HeadIsOwn ==
  ASSUME Typed, NEW w \in Workers, OwnPieces(w), thread[w] # "none", up[w] # << >>
  PROVE  /\ Head(up[w]) = DataMsg(w[1], Head(up[w]).order, Head(up[w]).size)
         /\ Head(up[w]).order \in Nat /\ Head(up[w]).size \in {0, 1}
         /\ Head(up[w]).size = 1 =>
              Head(up[w]).order \in Pieces /\ On(w[1], w[2], 1, Head(up[w]).order)
<1>1. up[w] \in Seq(Messages)
  BY WorkerIsConn DEF Typed, TypeOK, NetTypeOK
<1>2. 1 \in DOMAIN up[w] /\ up[w][1] = Head(up[w]) /\ Head(up[w]) \in Messages
  BY <1>1
<1>3. up[w][1].type = "data"
  BY <1>2 DEF Typed, ChannelsInOrder, WorkerInOrder
<1>4. Head(up[w]) \in [type : {"data"}, session : Clients, order : Nat, size : {0, 1}]
  BY <1>2, <1>3 DEF Messages
<1>5. Head(up[w]).session = w[1] /\ (Head(up[w]).size = 1 => Head(up[w]).order \in Pieces)
  BY <1>2, <1>3 DEF OwnPieces
<1>6. Head(up[w]) = DataMsg(w[1], Head(up[w]).order, Head(up[w]).size)
  BY <1>4, <1>5 DEF DataMsg
<1> QED
  BY <1>2, <1>4, <1>5, <1>6, WorkerIsConn DEF On

LEMMA NoneIsNoWorker == None \notin Workers
  BY NoneAssumption DEF Conns, Workers

LEMMA MainStepDrains ==
  ASSUME Typed, \/ \E c \in Clients : ClientStep(c)
                \/ ClientFault
  PROVE  Drained(None) /\ UNCHANGED <<hold, next, eof>>
<1>1. UNCHANGED <<hold, next, eof>>
  BY DEF ClientStep, ClientConnect, ConnectRefused, SendHello, WriteThrows, SendNegotiation,
         StartTransfer, GiveUp, JoinThreads, ClientFault, SourceMissing, SourceUnreadable,
         Kill, Cut, Silence, clientVars
<1>t. up \in [Conns -> Seq(Messages)]
  BY DEF Typed, TypeOK, NetTypeOK
<1>2. ASSUME NEW w \in Workers PROVE up'[w] \in {<< >>, up[w]}
  <2>w. w \in Conns /\ \A c \in Clients : w # <<c, Main>>
    BY WorkerIsConn
  <2>1. ASSUME NEW c \in Clients, NEW m \in Messages, Transmit(<<c, Main>>, m)
        PROVE  up'[w] = up[w]
    BY <2>1, <2>w, MainIsConn, TransmitEffect DEF Typed
  <2>2. ASSUME NEW c \in Clients, ClientStep(c) PROVE up'[w] = up[w]
    <3>1. UNCHANGED up \/ \E m \in Messages : Transmit(<<c, Main>>, m)
      BY <2>2, MessageTypes
         DEF ClientStep, ClientConnect, ConnectRefused, SendHello, WriteThrows,
             SendNegotiation, StartTransfer, GiveUp, JoinThreads, netVars
    <3> QED
      BY <2>1, <3>1
  <2>3. CASE ClientFault
    BY <2>3, <2>w, <1>t DEF ClientFault, SourceMissing, SourceUnreadable, Kill, Cut, Silence, netVars
  <2> QED
    BY <2>2, <2>3
<1> QED
  BY <1>1, <1>2, NoneIsNoWorker DEF Drained

LEMMA AcceptDrains ==
  ASSUME Typed, AcceptStep \/ AcceptError
  PROVE  \E v : /\ Drained(v) /\ (v \in Workers => up[v] # << >>)
                /\ UNCHANGED <<file, disk, damaged>>
                /\ \A c \in Clients : buf'[c] \in {buf[c], {}}
<1>t. up \in [Conns -> Seq(Messages)] /\ \A w \in Workers : w \in Conns
  BY WorkerIsConn DEF Typed, TypeOK, NetTypeOK
<1>1. ASSUME NEW S, CloseSockets(S, up) PROVE Drained(None)
  BY <1>1, <1>t, NoneIsNoWorker DEF CloseSockets, Drained
<1>2. ASSUME NEW S, CloseSockets(S, Unread(accepting)) PROVE Drained(accepting)
  BY <1>2, <1>t DEF CloseSockets, Unread, Drained
<1>3. CASE AcceptConnection
  <2>1. Drained(None) /\ UNCHANGED fileVars
    BY <1>3, NoneIsNoWorker DEF AcceptConnection, Drained
  <2> QED
    BY <2>1, NoneIsNoWorker DEF fileVars
<1>4. CASE AcceptError \/ AcceptNothing \/ RejectThread
  <2>1. Drained(None) /\ UNCHANGED fileVars
    BY <1>1, <1>4 DEF AcceptError, AcceptNothing, RejectThread, Clean
  <2> QED
    BY <2>1, NoneIsNoWorker DEF fileVars
<1>5. CASE AttachThread
  <2>1. Drained(accepting) /\ UNCHANGED fileVars /\ up[accepting] # << >>
    BY <1>2, <1>5 DEF AttachThread, Clean, Incoming, Readable
  <2> QED
    BY <2>1 DEF fileVars
<1>6. CASE OpenSession
  <2>1. CASE Terminate
    <3>1. Drained(None) /\ UNCHANGED <<file, disk, damaged>> /\ buf' = [c \in Clients |-> {}]
      BY <1>t, <2>1 DEF Terminate, Drained
    <3> QED
      BY <3>1, NoneIsNoWorker
  <2>2. CASE ~Terminate
    <3>1. Drained(accepting) /\ UNCHANGED fileVars /\ up[accepting] # << >>
      BY <1>2, <1>6, <2>2 DEF OpenSession, Clean, Incoming, Readable
    <3> QED
      BY <3>1 DEF fileVars
  <2> QED
    BY <2>1, <2>2
<1> QED
  BY <1>3, <1>4, <1>5, <1>6 DEF AcceptStep

LEMMA SessionDrains ==
  ASSUME Typed, NEW c \in Clients, SessionStep(c)
  PROVE  /\ Drained(None) /\ UNCHANGED <<damaged, buf>>
         /\ IF OpenFile(c) THEN disk' = [disk EXCEPT ![c] = {}] ELSE UNCHANGED <<file, disk>>
<1>t. /\ up \in [Conns -> Seq(Messages)] /\ \A w \in Workers : w \in Conns /\ w # <<c, Main>>
  BY WorkerIsConn DEF Typed, TypeOK, NetTypeOK
<1>1. CASE OpenFile(c)
  BY <1>1, <1>t, NoneIsNoWorker DEF OpenFile, Unread, Drained
<1>2. CASE ~OpenFile(c)
  BY <1>2, NoneIsNoWorker
     DEF SessionStep, HelloSent, ReadNegotiationHead, NegotiationSent, SessionReadError,
         netVars, fileVars, Drained
<1> QED
  BY <1>1, <1>2

\* Steps of a Thread that leave the file alone.
LEMMA ThreadWaits ==
  ASSUME Typed, NEW w \in Workers, ThreadStep(w), ~WriteFile(w), ~FinishThread(w)
  PROVE  /\ Drained(None) /\ UNCHANGED <<file, disk, damaged>>
         /\ \A c \in Clients : buf'[c] \in {buf[c], {}}
<1>1. CASE FinishOrphan(w)
  BY <1>1, WorkerIsConn DEF FinishOrphan, Terminate, Drained
<1>2. CASE ReadHead(w) \/ ThreadReadError(w)
  BY <1>2, NoneIsNoWorker DEF ReadHead, ThreadReadError, netVars, fileVars, Drained
<1> QED
  BY <1>1, <1>2 DEF ThreadStep

\* Steps that read a packet: the piece in it, if it is one.
PieceOf(m) == IF m.size = 0 THEN {} ELSE {m.order}

LEMMA ThreadReads ==
  ASSUME Typed, NEW w \in Workers, OwnPieces(w), WriteFile(w) \/ FinishThread(w)
  PROVE  /\ Drained(w) /\ up[w] # << >> /\ up'[w] = Tail(up[w])
         /\ \A x \in PieceOf(Head(up[w])) : x \in Pieces /\ On(w[1], w[2], 1, x)
         /\ WriteFile(w) => IF file[w[1]] = "good" THEN Store(w[1], Head(up[w]))
                                                   ELSE UNCHANGED fileVars
         /\ FinishThread(w) => CloseFile(w[1]) \/ UNCHANGED fileVars
<1>1. up[w] # << >> /\ up' = Unread(w) /\ thread[w] # "none"
  BY DEF WriteFile, FinishThread, Readable, Advance
<1>2. Drained(w) /\ up'[w] = Tail(up[w])
  BY <1>1, WorkerIsConn DEF Unread, Drained, Typed, TypeOK, NetTypeOK
<1>3. \A x \in PieceOf(Head(up[w])) : x \in Pieces /\ On(w[1], w[2], 1, x)
  BY <1>1, HeadIsOwn DEF PieceOf
<1>4. FinishThread(w) => CloseFile(w[1]) \/ UNCHANGED fileVars
  BY DEF FinishThread
<1> QED
  BY <1>1, <1>2, <1>3, <1>4 DEF WriteFile

LEMMA StoreEffect ==
  ASSUME Typed, NEW c \in Clients, NEW m, Store(c, m)
  PROVE  /\ disk[c] \subseteq disk'[c]
         /\ disk'[c] \subseteq disk[c] \cup buf[c] \cup PieceOf(m)
         /\ buf'[c] \subseteq buf[c] \cup PieceOf(m)
         /\ \A x \in buf'[c] \cap disk'[c] :
              x \in buf[c] \cap disk[c] \/ x \in PieceOf(m) \cap (buf[c] \cup disk[c])
         /\ file[c] = "good" => file'[c] \in {"good", "bad"}
         /\ \A d \in Clients \ {c} :
              disk'[d] = disk[d] /\ buf'[d] = buf[d] /\ file'[d] = file[d]
<1>t. /\ disk \in [Clients -> SUBSET Nat] /\ buf \in [Clients -> SUBSET Nat]
      /\ file \in [Clients -> {"none", "good", "bad", "closed"}]
  BY DEF Typed, TypeOK, ServerTypeOK
<1> DEFINE piece == PieceOf(m)
<1>1. CASE /\ disk' = [disk EXCEPT ![c] = @ \cup buf[c] \cup (IF c \in Buffered THEN {} ELSE piece)]
           /\ buf' = [buf EXCEPT ![c] = IF c \in Buffered THEN piece ELSE {}]
           /\ UNCHANGED file
  <2>1. /\ disk'[c] = disk[c] \cup buf[c] \cup (IF c \in Buffered THEN {} ELSE piece)
        /\ buf'[c] = (IF c \in Buffered THEN piece ELSE {}) /\ file'[c] = file[c]
        /\ \A d \in Clients \ {c} : disk'[d] = disk[d] /\ buf'[d] = buf[d] /\ file'[d] = file[d]
    BY <1>1, <1>t
  <2> HIDE DEF piece
  <2> QED
    BY <2>1 DEF piece
<1>2. CASE /\ disk' = [disk EXCEPT ![c] = @ \cup buf[c]]
           /\ buf' = [buf EXCEPT ![c] = {}]
           /\ file' = [file EXCEPT ![c] = "bad"]
  <2>1. /\ disk'[c] = disk[c] \cup buf[c] /\ buf'[c] = {} /\ file'[c] = "bad"
        /\ \A d \in Clients \ {c} : disk'[d] = disk[d] /\ buf'[d] = buf[d] /\ file'[d] = file[d]
    BY <1>2, <1>t
  <2> QED
    BY <2>1
<1>3. CASE file' = [file EXCEPT ![c] = "bad"] /\ UNCHANGED <<disk, buf>>
  BY <1>3, <1>t
<1> QED
  BY <1>1, <1>2, <1>3 DEF Store, PieceOf

\* The write of the piece p fails.
Refuses(c, p) ==
  /\ "disk" \in ServerFaults /\ UNCHANGED <<disk, buf>> /\ file'[c] = "bad"
  /\ damaged' \in {damaged, [damaged EXCEPT ![c] = @ \cup {p}]}

Single(S) == \A x, y \in S : x = y

\* What a write does to the places of other bytes.
LEMMA StoreDamage ==
  ASSUME Typed, NEW c \in Clients, NEW m, Store(c, m), Single(buf[c]),
         c \notin Buffered => buf[c] = {}
  PROVE  /\ Single(buf'[c]) /\ (c \notin Buffered => buf'[c] = {})
         /\ \/ UNCHANGED damaged
            \/ \E p : /\ Refuses(c, p)
                      /\ IF c \in Buffered THEN p \in buf[c] ELSE p \in PieceOf(m)
<1>t. buf \in [Clients -> SUBSET Nat]
  BY DEF Typed, TypeOK, ServerTypeOK
<1>p. Single(PieceOf(m)) /\ Single({})
  BY DEF Single, PieceOf
<1>1. CASE /\ UNCHANGED damaged
           /\ \/ buf' = [buf EXCEPT ![c] = IF c \in Buffered THEN PieceOf(m) ELSE {}]
              \/ buf' = [buf EXCEPT ![c] = {}]
  <2>1. buf'[c] = {} \/ (c \in Buffered /\ buf'[c] = PieceOf(m))
    BY <1>1, <1>t
  <2> QED
    BY <1>1, <1>p, <2>1
<1>2. ASSUME NEW refused, refused = IF c \in Buffered THEN buf[c] ELSE PieceOf(m),
             refused # {}, "disk" \in ServerFaults, UNCHANGED <<disk, buf>>,
             damaged' \in {damaged, [damaged EXCEPT ![c] = @ \cup refused]},
             file' = [file EXCEPT ![c] = "bad"]
      PROVE  \E p : /\ Refuses(c, p)
                    /\ IF c \in Buffered THEN p \in buf[c] ELSE p \in PieceOf(m)
  <2>1. PICK p : p \in refused
    BY <1>2
  <2>2. refused = {p}
    BY <1>2, <1>p, <2>1 DEF Single
  <2>3. file'[c] = "bad"
    BY <1>2 DEF Typed, TypeOK, ServerTypeOK
  <2>4. Refuses(c, p)
    BY <1>2, <2>2, <2>3 DEF Refuses
  <2> QED
    BY <1>2, <2>1, <2>4
<1>3. CASE /\ "disk" \in ServerFaults /\ UNCHANGED <<disk, buf>>
           /\ LET refused == IF c \in Buffered THEN buf[c] ELSE PieceOf(m) IN
                refused # {} /\ damaged' \in {damaged, [damaged EXCEPT ![c] = @ \cup refused]}
           /\ file' = [file EXCEPT ![c] = "bad"]
  BY <1>2, <1>3
<1> QED
  BY <1>1, <1>3 DEF Store, PieceOf

LEMMA CloseEffect ==
  ASSUME Typed, NEW c \in Clients, CloseFile(c)
  PROVE  /\ disk'[c] \subseteq disk[c] \cup buf[c]
         /\ buf'[c] = {} /\ file'[c] = "closed"
         /\ \A d \in Clients \ {c} :
              /\ disk'[d] = disk[d] /\ buf'[d] = buf[d] /\ file'[d] = file[d]
              /\ damaged'[d] = damaged[d]
  BY DEF CloseFile, Typed, TypeOK, ServerTypeOK
-----------------------------------------------------------------------------
(* The orders of pieces, and the stream of a session                       *)

\* What a worker is about to send is a piece of the file, or nothing.
Orders ==
  /\ \A c \in Clients : ~eof[c] => next[c] <= FullPieces
  /\ \A w \in Workers : wk[w] = "sending" /\ hold[w].size = 1 => hold[w].order \in Pieces

\* A session without a file has no piece; a closed stream buffers nothing, an
\* open one a piece at most.  Nothing is damaged before a write failed, and
\* then only the piece that is still in the buffer, if there is one.
StreamOf(c) ==
  /\ file[c] = "none" => disk[c] = {} /\ buf[c] = {}
  /\ file[c] = "closed" => buf[c] = {}
  /\ buf[c] \cup disk[c] \subseteq Pieces
  /\ Single(buf[c]) /\ (c \notin Buffered => buf[c] = {})
  /\ file[c] \in {"none", "good"} => damaged[c] = {}
  /\ buf[c] # {} => damaged[c] \subseteq buf[c]

Streams == \A c \in Clients : StreamOf(c)

Sources == Orders /\ (\A w \in Workers : OwnPieces(w)) /\ Streams

LEMMA PieceCounts ==
  /\ NumPieces \in Nat /\ Pieces \subseteq Nat
  /\ \A n \in Nat : n \in Pieces <=> n < NumPieces
  /\ \A n \in Nat : n < FullPieces => n \in Pieces
  /\ ShortPiece => FullPieces \in Pieces
  BY ClientAssumption DEF NumPieces, Pieces

LEMMA InitSources == Init => Sources
<1> SUFFICES ASSUME Init PROVE Sources
  OBVIOUS
<1>1. Orders
  BY ClientAssumption DEF Init, ClientInit, Orders
<1>2. ASSUME NEW w \in Workers PROVE OwnPieces(w)
  BY WorkerIsConn DEF Init, NetInit, OwnPieces
<1>3. Streams
  BY DEF Init, ServerInit, Streams, StreamOf, Single
<1> QED
  BY <1>1, <1>2, <1>3 DEF Sources

\* What a worker's step is to the pieces.
Takes(w) == ReadFull(w) \/ ReadRest(w)
Takes1(w, order, size) ==
  LET c == w[1] IN
  /\ Take(w, order, size)
  /\ order = next[c] /\ size \in {0, 1} /\ (size = 1 => order \in Pieces)
  /\ wk[w] = "reading" /\ next' = [next EXCEPT ![c] = @ + 1]
  /\ \/ eof' = [eof EXCEPT ![c] = TRUE] /\ (size = 0 => next[c] >= NumPieces)
     \/ UNCHANGED eof /\ size = 1 /\ next[c] < FullPieces

LEMMA TakesEffect ==
  ASSUME Typed, Orders, NEW w \in Workers, Takes(w)
  PROVE  \E order \in Nat, size \in {0, 1} : Takes1(w, order, size)
<1>w. w[1] \in Clients /\ next[w[1]] \in Nat
  BY WorkerIsConn DEF Typed, TypeOK, ClientTypeOK
<1>1. CASE ReadFull(w)
  <2>1. Takes1(w, next[w[1]], 1)
    BY <1>1, <1>w, PieceCounts DEF ReadFull, Takes1, Running
  <2> QED
    BY <1>w, <2>1
<1>2. CASE ReadRest(w)
  <2>1. next[w[1]] = FullPieces
    BY <1>2, <1>w, ClientAssumption DEF ReadRest, Orders
  <2>2. Takes1(w, next[w[1]], IF ShortPiece THEN 1 ELSE 0)
    BY <1>2, <1>w, <2>1, PieceCounts, ClientAssumption DEF ReadRest, Takes1, Running, NumPieces
  <2> QED
    BY <1>w, <2>2
<1> QED
  BY <1>1, <1>2 DEF Takes

\* A message that is not a piece is sent, or none.
LEMMA WorkerSends ==
  ASSUME Typed, NEW w \in Workers, WorkerStep(w), ~Takes(w)
  PROVE  /\ UNCHANGED <<next, eof>>
         /\ wk' = [wk EXCEPT ![w] = wk'[w]]
         /\ \/ \E order \in GarbageOrders :
                 /\ UNCHANGED up
                 /\ hold' = [hold EXCEPT ![w] = [order |-> order, size |-> 0]]
            \/ /\ UNCHANGED hold /\ wk'[w] # "sending"
               /\ \/ UNCHANGED up
                  \/ \E m \in {InitMsg(w[1]), FinishMsg(w[1])} : Transmit(w, m)
                  \/ wk[w] = "sending" /\ Transmit(w, DataMsg(w[1], hold[w].order, hold[w].size))
<1>t. wk \in [Workers -> WorkerStates]
  BY DEF Typed, TypeOK, ClientTypeOK
<1>1. CASE ReadAtEnd(w)
  BY <1>1, <1>t DEF ReadAtEnd, Take, netVars
<1>2. CASE WorkerConnect(w)
  BY <1>2, <1>t DEF WorkerConnect
<1>3. CASE SendInit(w)
  BY <1>3, <1>t DEF SendInit
<1>4. CASE SendPiece(w)
  BY <1>4, <1>t DEF SendPiece, Running
<1>5. CASE SendFinish(w)
  BY <1>5, <1>t DEF SendFinish
<1> QED
  BY <1>1, <1>2, <1>3, <1>4, <1>5 DEF WorkerStep, Takes

LEMMA NextOrders ==
  ASSUME Typed, Orders, [Next]_vars
  PROVE  Orders'
<1>t. /\ next \in [Clients -> Nat] /\ eof \in [Clients -> BOOLEAN]
      /\ wk \in [Workers -> WorkerStates] /\ hold \in [Workers -> [order : Nat, size : {0, 1}]]
  BY DEF Typed, TypeOK, ClientTypeOK
<1>1. CASE UNCHANGED <<next, eof, hold, wk>>
  BY <1>1 DEF Orders
<1>2. ASSUME NEW c \in Clients, ClientStep(c) PROVE Orders'
  <2>1. UNCHANGED <<next, eof, hold>>
    BY <1>2, MainStepDrains
  <2>2. \A w \in Workers : wk'[w] \in {wk[w], "start"}
    BY <1>2, <1>t DEF ClientStep, ClientConnect, ConnectRefused, SendHello, WriteThrows,
         SendNegotiation, StartTransfer, GiveUp, JoinThreads
  <2> QED
    BY <2>1, <2>2 DEF Orders
<1>3. ASSUME NEW w \in Workers, WorkerStep(w), ~Takes(w) PROVE Orders'
  <2>1. UNCHANGED <<next, eof>>
    BY <1>3, WorkerSends
  <2>2. ASSUME NEW v \in Workers, wk'[v] = "sending", hold'[v].size = 1
        PROVE  wk[v] = "sending" /\ hold'[v] = hold[v]
    BY <1>3, <1>t, <2>2, WorkerSends
  <2> QED
    BY <2>1, <2>2 DEF Orders
<1>4. ASSUME NEW w \in Workers, Takes(w) PROVE Orders'
  <2>1. PICK order \in Nat, size \in {0, 1} : Takes1(w, order, size)
    BY <1>4, TakesEffect
  <2>2. ASSUME NEW c \in Clients, ~eof'[c] PROVE next'[c] <= FullPieces
    <3>1. CASE c = w[1]
      BY <1>t, <2>1, <2>2, <3>1, ClientAssumption DEF Takes1
    <3>2. CASE c # w[1]
      BY <1>t, <2>1, <2>2, <3>2 DEF Takes1, Orders
    <3> QED
      BY <3>1, <3>2
  <2>3. ASSUME NEW v \in Workers, wk'[v] = "sending", hold'[v].size = 1
        PROVE  hold'[v].order \in Pieces
    BY <1>t, <2>1, <2>3 DEF Takes1, Take, Orders
  <2> QED
    BY <2>2, <2>3 DEF Orders
<1>5. CASE ClientFault
  <2>1. UNCHANGED <<next, eof, hold, wk>>
    BY <1>5, MainStepDrains DEF ClientFault, SourceMissing, SourceUnreadable, Kill, Cut, Silence, clientVars
  <2> QED
    BY <1>1, <2>1
<1> QED
  BY <1>1, <1>2, <1>3, <1>4, <1>5 DEF Next, ClientNext, ServerNext, Idle, vars, clientVars

\* What every step of the server is to the connections of the workers.
LEMMA ServerDrains ==
  ASSUME Typed, \A w \in Workers : OwnPieces(w), ServerNext
  PROVE  \E v : Drained(v) /\ (v \in Workers => up[v] # << >>)
<1>1. ASSUME NEW c \in Clients, SessionStep(c) PROVE Drained(None) /\ None \notin Workers
  BY <1>1, SessionDrains, NoneIsNoWorker
<1>2. ASSUME NEW w \in Workers, ThreadStep(w)
      PROVE  \E v : Drained(v) /\ (v \in Workers => up[v] # << >>)
  <2>1. CASE WriteFile(w) \/ FinishThread(w)
    BY <2>1, ThreadReads
  <2>2. CASE ~WriteFile(w) /\ ~FinishThread(w)
    BY <1>2, <2>2, ThreadWaits, NoneIsNoWorker
  <2> QED
    BY <2>1, <2>2
<1> QED
  BY <1>1, <1>2, AcceptDrains DEF ServerNext

LEMMA TransmitOwn ==
  ASSUME Typed, NEW w \in Workers, NEW m \in Messages, Transmit(w, m),
         m.type = "data" => m.session = w[1] /\ (m.size = 1 => m.order \in Pieces),
         \A v \in Workers : OwnPieces(v)
  PROVE  \A v \in Workers : OwnPieces(v)'
<1> SUFFICES ASSUME NEW v \in Workers, NEW i \in DOMAIN up'[v], up'[v][i].type = "data"
             PROVE  up'[v][i].session = v[1] /\ (up'[v][i].size = 1 => up'[v][i].order \in Pieces)
  BY DEF OwnPieces
<1>w. v \in Conns /\ w \in Conns
  BY WorkerIsConn
<1>1. CASE up'[v] = up[v]
  BY <1>1 DEF OwnPieces
<1>2. CASE v = w /\ link[w] = "open"
  <2>1. \/ i \in DOMAIN up[w] /\ up'[w][i] = up[w][i]
        \/ up'[w][i] = m
    <3>1. /\ DOMAIN up'[w] = 1 .. Len(up[w]) + 1 /\ DOMAIN up[w] = 1 .. Len(up[w])
          /\ \A j \in DOMAIN up[w] : up'[w][j] = up[w][j]
          /\ up'[w][Len(up[w]) + 1] = m /\ Len(up[w]) \in Nat
      BY <1>2, <1>w, TransmitEffect DEF Typed
    <3>2. i \in 1 .. Len(up[w]) \/ i = Len(up[w]) + 1
      BY <1>2, <3>1
    <3> QED
      BY <3>1, <3>2
  <2> QED
    BY <1>2, <2>1 DEF OwnPieces
<1> QED
  BY <1>1, <1>2, <1>w, TransmitEffect DEF Typed

LEMMA NextOwn ==
  ASSUME Typed, Orders, \A w \in Workers : OwnPieces(w), [Next]_vars
  PROVE  \A w \in Workers : OwnPieces(w)'
<1>1. ASSUME NEW v, Drained(v), v \in Workers => up[v] # << >>
      PROVE  \A w \in Workers : OwnPieces(w)'
  BY <1>1, DrainedOwn
<1>2. CASE ServerNext
  BY <1>1, <1>2, ServerDrains
<1>3. ASSUME (\E c \in Clients : ClientStep(c)) \/ ClientFault
      PROVE  \A w \in Workers : OwnPieces(w)'
  BY <1>1, <1>3, MainStepDrains, NoneIsNoWorker
<1>4. CASE UNCHANGED up
  BY <1>4 DEF OwnPieces
<1>5. ASSUME NEW w \in Workers, WorkerStep(w) PROVE \A v \in Workers : OwnPieces(v)'
  <2>w. w[1] \in Clients /\ hold[w].order \in Nat /\ hold[w].size \in {0, 1}
    BY WorkerIsConn DEF Typed, TypeOK, ClientTypeOK
  <2>1. CASE Takes(w)
    BY <2>1, <1>4 DEF Takes, ReadFull, ReadRest, Take, netVars
  <2>2. CASE \E m \in {InitMsg(w[1]), FinishMsg(w[1])} : Transmit(w, m)
    <3>1. PICK m \in {InitMsg(w[1]), FinishMsg(w[1])} : Transmit(w, m)
      BY <2>2
    <3>2. m.type = "data" => m.session = w[1] /\ m.size = 0
      BY DEF InitMsg, FinishMsg, DataMsg
    <3> QED
      BY <2>w, <3>1, <3>2, MessageTypes, TransmitOwn
  <2>3. CASE wk[w] = "sending" /\ Transmit(w, DataMsg(w[1], hold[w].order, hold[w].size))
    <3> DEFINE m == DataMsg(w[1], hold[w].order, hold[w].size)
    <3>1. m.session = w[1] /\ (m.size = 1 => m.order \in Pieces)
      BY <2>3 DEF Orders, DataMsg
    <3>2. m \in Messages
      BY <2>w, MessageTypes
    <3> HIDE DEF m
    <3>3. Transmit(w, m)
      BY <2>3 DEF m
    <3> QED
      BY <3>1, <3>2, <3>3, TransmitOwn
  <2> QED
    BY <1>4, <1>5, <2>1, <2>2, <2>3, WorkerSends
<1> QED
  BY <1>2, <1>3, <1>4, <1>5 DEF Next, ClientNext, Idle, vars, netVars

LEMMA NextStreams ==
  ASSUME Typed, Negotiations, Streams, \A w \in Workers : OwnPieces(w), [Next]_vars
  PROVE  Streams'
<1>t. /\ disk \in [Clients -> SUBSET Nat] /\ buf \in [Clients -> SUBSET Nat]
      /\ damaged \in [Clients -> SUBSET Nat]
      /\ file \in [Clients -> {"none", "good", "bad", "closed"}]
  BY DEF Typed, TypeOK, ServerTypeOK
<1>1. ASSUME UNCHANGED <<file, disk, damaged>>, \A c \in Clients : buf'[c] \in {buf[c], {}}
      PROVE  Streams'
  BY <1>1 DEF Streams, StreamOf, Single
<1>2. CASE UNCHANGED fileVars
  BY <1>2 DEF fileVars, Streams, StreamOf
<1>3. CASE AcceptStep \/ AcceptError
  BY <1>1, <1>3, AcceptDrains
<1>4. ASSUME NEW c \in Clients, SessionStep(c) PROVE Streams'
  <2>1. CASE ~OpenFile(c)
    BY <1>1, <1>4, <2>1, SessionDrains
  <2>2. CASE OpenFile(c)
    <3>1. file[c] = "none"
      BY <2>2 DEF OpenFile, Handle, Negotiations, Negotiation, Unopened, Waits
    <3>2. file'[c] \in {"good", "none"} /\ \A d \in Clients \ {c} : file'[d] = file[d]
      BY <2>2, <1>t DEF OpenFile
    <3>3. UNCHANGED <<damaged, buf>> /\ disk'[c] = {} /\ \A d \in Clients \ {c} : disk'[d] = disk[d]
      BY <1>4, <2>2, <1>t, SessionDrains
    <3> QED
      BY <3>1, <3>2, <3>3 DEF Streams, StreamOf, Single
  <2> QED
    BY <2>1, <2>2
<1>5. ASSUME NEW w \in Workers, ThreadStep(w) PROVE Streams'
  <2>c. w[1] \in Clients
    BY WorkerIsConn
  <2>1. CASE ~WriteFile(w) /\ ~FinishThread(w)
    BY <1>1, <1>5, <2>1, ThreadWaits
  <2>2. CASE WriteFile(w) /\ file[w[1]] = "good"
    <3>1. Store(w[1], Head(up[w])) /\ PieceOf(Head(up[w])) \subseteq Pieces
      BY <2>2, ThreadReads
    <3>2. /\ disk'[w[1]] \cup buf'[w[1]] \subseteq Pieces /\ file'[w[1]] \in {"good", "bad"}
          /\ \A d \in Clients \ {w[1]} :
               disk'[d] = disk[d] /\ buf'[d] = buf[d] /\ file'[d] = file[d]
      <4>1. disk[w[1]] \cup buf[w[1]] \subseteq Pieces
        BY <2>c DEF Streams, StreamOf
      <4> QED
        BY <2>c, <2>2, <3>1, <4>1, StoreEffect
    <3>3. Single(buf[w[1]]) /\ (w[1] \notin Buffered => buf[w[1]] = {}) /\ damaged[w[1]] = {}
      BY <2>c, <2>2 DEF Streams, StreamOf
    <3>4. /\ Single(buf'[w[1]]) /\ (w[1] \notin Buffered => buf'[w[1]] = {})
          /\ \/ UNCHANGED damaged
             \/ \E p : /\ Refuses(w[1], p)
                       /\ w[1] \in Buffered => p \in buf[w[1]]
      BY <2>c, <3>1, <3>3, StoreDamage
    <3>5. CASE UNCHANGED damaged
      BY <2>c, <3>2, <3>3, <3>4, <3>5 DEF Streams, StreamOf
    <3>6. ASSUME NEW p, Refuses(w[1], p), w[1] \in Buffered => p \in buf[w[1]] PROVE Streams'
      <4>1. /\ damaged'[w[1]] \subseteq {p}
            /\ \A d \in Clients \ {w[1]} : damaged'[d] = damaged[d]
        BY <1>t, <2>c, <3>3, <3>6 DEF Refuses
      <4>2. file'[w[1]] = "bad" /\ buf' = buf
        BY <3>6 DEF Refuses
      <4>3. buf'[w[1]] # {} => damaged'[w[1]] \subseteq buf'[w[1]]
        <5>1. w[1] \in Buffered => {p} \subseteq buf'[w[1]]
          BY <3>6, <4>2
        <5> QED
          BY <3>4, <4>1, <5>1
      <4>4. ASSUME NEW d \in Clients PROVE StreamOf(d)'
        <5>1. CASE d = w[1]
          BY <3>2, <3>4, <4>2, <4>3, <5>1 DEF StreamOf
        <5>2. CASE d # w[1]
          BY <3>2, <4>1, <5>2 DEF Streams, StreamOf
        <5> QED
          BY <5>1, <5>2
      <4> QED
        BY <4>4 DEF Streams
    <3> QED
      BY <3>4, <3>5, <3>6
  <2>3. CASE WriteFile(w) /\ file[w[1]] # "good"
    BY <1>2, <2>3, ThreadReads
  <2>4. CASE FinishThread(w)
    <3>1. CASE CloseFile(w[1])
      BY <2>c, <3>1, CloseEffect DEF Streams, StreamOf, Single
    <3> QED
      BY <1>2, <2>4, <3>1, ThreadReads
  <2> QED
    BY <2>1, <2>2, <2>3, <2>4
<1> QED
  BY <1>2, <1>3, <1>4, <1>5 DEF Next, ClientNext, ServerNext, Idle, vars, serverVars

LEMMA SourcesInvariant == Spec => [](Typed /\ Negotiations /\ Sources)
<1>1. Typed /\ Negotiations /\ Sources /\ [Next]_vars => Sources'
  BY NextOrders, NextOwn, NextStreams DEF Sources
<1> QED
  BY <1>1, InitSources, NegotiationInvariant, PTL DEF Spec
-----------------------------------------------------------------------------
(* A piece is in one place                                                 *)

Ones == \A c \in Clients, p \in Pieces : One(c, p)

LEMMA InitOnes == Init => Ones
<1> SUFFICES ASSUME Init, NEW c \in Clients, NEW p \in Pieces PROVE One(c, p)
  BY DEF Ones
<1>1. \A t \in Threads : ~Holds(c, t, p) /\ \A i \in Index : ~On(c, t, i, p)
  BY DEF Init, ClientInit, NetInit, Holds, On, Conns, Workers
<1>2. p \notin buf[c] \cup disk[c]
  BY DEF Init, ServerInit
<1> QED
  BY <1>1, <1>2 DEF One, Fresh, Alone, Away

\* A step after which no worker holds p that did not before, and p is on the
\* server only if it was there or at the head of connection v.
LEMMA DrainedPasses ==
  ASSUME Typed, NEW c \in Clients, NEW p \in Pieces, NEW v,
         Drained(v), v \in Workers => up[v] # << >>, UNCHANGED next,
         \A t \in Threads : Holds(c, t, p)' => Holds(c, t, p),
         p \in buf'[c] => p \in buf[c] \/ \E t \in Threads : <<c, t>> = v /\ On(c, t, 1, p),
         p \in disk'[c] =>
           p \in disk[c] \cup buf[c] \/ \E t \in Threads : <<c, t>> = v /\ On(c, t, 1, p),
         ~(p \in buf'[c] /\ p \in disk'[c])
  PROVE  Passes(c, p, v)
<1>1. next[c] \in Nat /\ next'[c] = next[c]
  BY DEF Typed, TypeOK, ClientTypeOK
<1>2. \A t \in Threads, i \in Index :
        On(c, t, i, p)' => On(c, t, IF <<c, t>> = v THEN i + 1 ELSE i, p)
  BY DrainedOn
<1> QED
  BY <1>1, <1>2 DEF Passes

LEMMA ServerPasses ==
  ASSUME Typed, \A w \in Workers : OwnPieces(w), ServerNext,
         NEW c \in Clients, NEW p \in Pieces, One(c, p)
  PROVE  \E v : Passes(c, p, v)
<1>n. UNCHANGED next /\ \A t \in Threads : Holds(c, t, p)' => Holds(c, t, p)
  BY DEF ServerNext, clientVars, Holds
<1>a. ~(p \in buf[c] /\ p \in disk[c])
  BY DEF One, Away
<1>t. disk \in [Clients -> SUBSET Nat]
  BY DEF Typed, TypeOK, ServerTypeOK
<1>1. CASE AcceptStep \/ AcceptError
  <2>1. PICK v : /\ Drained(v) /\ (v \in Workers => up[v] # << >>)
                 /\ disk'[c] = disk[c] /\ buf'[c] \in {buf[c], {}}
    BY <1>1, AcceptDrains
  <2> QED
    BY <1>n, <1>a, <2>1, DrainedPasses
<1>2. ASSUME NEW d \in Clients, SessionStep(d) PROVE \E v : Passes(c, p, v)
  <2>1. Drained(None) /\ buf'[c] = buf[c] /\ disk'[c] \in {disk[c], {}}
    BY <1>2, <1>t, SessionDrains
  <2> QED
    BY <1>n, <1>a, <2>1, DrainedPasses, NoneIsNoWorker
<1>3. ASSUME NEW w \in Workers, ThreadStep(w) PROVE \E v : Passes(c, p, v)
  <2>w. w[1] \in Clients /\ w[2] \in Threads /\ w = <<w[1], w[2]>>
    BY DEF Workers
  <2>1. CASE ~WriteFile(w) /\ ~FinishThread(w)
    <3>1. Drained(None) /\ disk'[c] = disk[c] /\ buf'[c] \in {buf[c], {}}
      BY <1>3, <2>1, ThreadWaits
    <3> QED
      BY <1>n, <1>a, <3>1, DrainedPasses, NoneIsNoWorker
  <2>2. CASE WriteFile(w) \/ FinishThread(w)
    <3> DEFINE m == Head(up[w])
    <3>1. /\ Drained(w) /\ up[w] # << >>
          /\ \A x \in PieceOf(m) : On(w[1], w[2], 1, x)
          /\ Store(w[1], m) \/ CloseFile(w[1]) \/ UNCHANGED fileVars
      BY <2>2, ThreadReads
    <3> HIDE DEF m
    <3>2. CASE c # w[1] \/ UNCHANGED fileVars
      <4>1. disk'[c] = disk[c] /\ buf'[c] = buf[c]
        BY <2>w, <3>1, <3>2, StoreEffect, CloseEffect DEF fileVars
      <4> QED
        BY <1>n, <1>a, <3>1, <4>1, DrainedPasses
    <3>3. CASE c = w[1] /\ CloseFile(c)
      <4>1. disk'[c] \subseteq disk[c] \cup buf[c] /\ buf'[c] = {}
        BY <3>3, CloseEffect
      <4> QED
        BY <1>n, <3>1, <4>1, DrainedPasses
    <3>4. CASE c = w[1] /\ Store(c, m)
      <4>1. /\ disk'[c] \subseteq disk[c] \cup buf[c] \cup PieceOf(m)
            /\ buf'[c] \subseteq buf[c] \cup PieceOf(m)
            /\ \A x \in buf'[c] \cap disk'[c] :
                 x \in buf[c] \cap disk[c] \/ x \in PieceOf(m) \cap (buf[c] \cup disk[c])
        BY <3>4, StoreEffect
      <4>2. p \in PieceOf(m) => On(c, w[2], 1, p) /\ p \notin buf[c] \cup disk[c]
        BY <2>w, <3>1, <3>4 DEF One, Away, Index
      <4>3. p \in PieceOf(m) => \E t \in Threads : <<c, t>> = w /\ On(c, t, 1, p)
        BY <2>w, <3>4, <4>2
      <4>4. ~(p \in buf'[c] /\ p \in disk'[c])
        BY <1>a, <4>1, <4>2
      <4> QED
        BY <1>n, <3>1, <4>1, <4>3, <4>4, DrainedPasses
    <3> QED
      BY <3>1, <3>2, <3>3, <3>4
  <2> QED
    BY <2>1, <2>2
<1> QED
  BY <1>1, <1>2, <1>3 DEF ServerNext

LEMMA MainPasses ==
  ASSUME Typed, \/ \E d \in Clients : ClientStep(d)
                \/ ClientFault,
         UNCHANGED serverVars, NEW c \in Clients, NEW p \in Pieces, One(c, p)
  PROVE  Passes(c, p, None)
<1>1. Drained(None) /\ UNCHANGED <<hold, next>>
  BY MainStepDrains
<1>2. \A w \in Workers : wk'[w] \in {wk[w], "start"}
  BY DEF ClientStep, ClientConnect, ConnectRefused, SendHello, WriteThrows,
         SendNegotiation, StartTransfer, GiveUp, JoinThreads, ClientFault, SourceMissing,
         SourceUnreadable, Kill, Cut, Silence, clientVars
<1>3. \A t \in Threads : Holds(c, t, p)' => Holds(c, t, p)
  BY <1>1, <1>2 DEF Holds, Workers
<1>4. UNCHANGED <<disk, buf>>
  BY DEF serverVars, fileVars
<1> QED
  BY <1>1, <1>3, <1>4, DrainedPasses, NoneIsNoWorker DEF One, Away

\* What a worker sends that is not a piece leaves every piece where it is.
LEMMA OtherMessage ==
  ASSUME Typed, NEW w \in Workers, NEW m \in Messages, Transmit(w, m),
         NEW c \in Clients, NEW t \in Threads, NEW i \in Index, NEW p, On(c, t, i, p)'
  PROVE  \/ On(c, t, i, p)
         \/ <<c, t>> = w /\ i = Len(up[w]) + 1 /\ m = DataMsg(c, p, 1)
<1>w. <<c, t>> \in Conns /\ w \in Conns /\ <<c, t>> \in Workers
  BY WorkerIsConn DEF Workers, Conns
<1>1. CASE up'[<<c, t>>] = up[<<c, t>>]
  BY <1>1 DEF On
<1>2. CASE <<c, t>> = w /\ link[w] = "open"
  <2>1. \/ i \in DOMAIN up[w] /\ up'[w][i] = up[w][i]
        \/ i = Len(up[w]) + 1 /\ up'[w][i] = m
    <3>1. i \in DOMAIN up'[w]
      BY <1>2 DEF On
    <3>2. /\ DOMAIN up'[w] = 1 .. Len(up[w]) + 1 /\ DOMAIN up[w] = 1 .. Len(up[w])
          /\ \A j \in DOMAIN up[w] : up'[w][j] = up[w][j]
          /\ up'[w][Len(up[w]) + 1] = m /\ Len(up[w]) \in Nat
      BY <1>2, <1>w, TransmitEffect DEF Typed
    <3>3. i \in 1 .. Len(up[w]) \/ i = Len(up[w]) + 1
      BY <3>1, <3>2
    <3> QED
      BY <3>2, <3>3
  <2> QED
    BY <1>2, <2>1 DEF On
<1> QED
  BY <1>1, <1>2, <1>w, TransmitEffect DEF Typed

LEMMA SendKeepsOne ==
  ASSUME Typed, NEW w \in Workers, wk[w] = "sending", wk'[w] # "sending",
         wk' = [wk EXCEPT ![w] = wk'[w]], UNCHANGED <<hold, next, disk, buf>>,
         Transmit(w, DataMsg(w[1], hold[w].order, hold[w].size)),
         NEW c \in Clients, NEW p \in Pieces, One(c, p)
  PROVE  One(c, p)'
<1>t. /\ hold[w] \in [order : Nat, size : {0, 1}] /\ w[1] \in Clients
      /\ wk \in [Workers -> WorkerStates] /\ \A t \in Threads : <<c, t>> \in Workers
  BY WorkerIsConn DEF Typed, TypeOK, ClientTypeOK, Workers
<1>1. ASSUME NEW t \in Threads, Holds(c, t, p)' PROVE Holds(c, t, p) /\ <<c, t>> # w
  <2>1. wk'[<<c, t>>] = "sending" /\ <<c, t>> # w
    BY <1>1 DEF Holds
  <2>2. wk'[<<c, t>>] = wk[<<c, t>>]
    BY <1>t, <2>1
  <2> QED
    BY <1>1, <2>1, <2>2 DEF Holds
<1>2. ASSUME NEW t \in Threads, NEW i \in Index, On(c, t, i, p)'
      PROVE  On(c, t, i, p) \/ (<<c, t>> = w /\ i = Len(up[w]) + 1 /\ Holds(c, t, p))
  <2> DEFINE m == DataMsg(w[1], hold[w].order, hold[w].size)
  <2>1. m \in Messages
    BY <1>t, MessageTypes
  <2>2. m = DataMsg(c, p, 1) => hold[w] = [order |-> p, size |-> 1]
    BY <1>t DEF DataMsg
  <2> HIDE DEF m
  <2>3. Transmit(w, m)
    BY DEF m
  <2>4. On(c, t, i, p) \/ (<<c, t>> = w /\ i = Len(up[w]) + 1 /\ m = DataMsg(c, p, 1))
    BY <1>2, <2>1, <2>3, OtherMessage
  <2> QED
    BY <2>2, <2>4 DEF Holds
<1>3. Fresh(c, p)'
  BY <1>1, <1>2 DEF One, Fresh
<1>4. Alone(c, p)'
  <2>1. ASSUME NEW t \in Threads, NEW u \in Threads, NEW i \in Index, NEW j \in Index,
               On(c, t, i, p)', On(c, u, j, p)'
        PROVE  t = u /\ i = j
    BY <1>2, <2>1 DEF One, Alone
  <2>2. ASSUME NEW t \in Threads, NEW u \in Threads, NEW i \in Index,
               Holds(c, t, p)', On(c, u, i, p)'
        PROVE  FALSE
    BY <1>1, <1>2, <2>2 DEF One, Alone
  <2>3. ASSUME NEW t \in Threads, NEW u \in Threads, Holds(c, t, p)', Holds(c, u, p)'
        PROVE  t = u
    BY <1>1, <2>3 DEF One, Alone
  <2> QED
    BY <2>1, <2>2, <2>3 DEF Alone
<1>5. Away(c, p)'
  BY <1>1, <1>2 DEF One, Away
<1> QED
  BY <1>3, <1>4, <1>5 DEF One

LEMMA TakeKeepsOne ==
  ASSUME Typed, NEW w \in Workers, NEW order \in Nat, NEW size \in {0, 1},
         Takes1(w, order, size), UNCHANGED serverVars,
         NEW c \in Clients, NEW p \in Pieces, One(c, p)
  PROVE  One(c, p)'
<1>t. /\ next \in [Clients -> Nat] /\ w[1] \in Clients /\ p \in Nat
      /\ wk \in [Workers -> WorkerStates] /\ hold \in [Workers -> [order : Nat, size : {0, 1}]]
  BY WorkerIsConn, PieceCounts DEF Typed, TypeOK, ClientTypeOK
<1>1. UNCHANGED <<up, disk, buf>>
  BY DEF Takes1, Take, netVars, serverVars, fileVars
<1>2. ASSUME NEW t \in Threads, Holds(c, t, p)'
      PROVE  Holds(c, t, p) \/ (<<c, t>> = w /\ c = w[1] /\ p = next[c])
  <2>w. <<c, t>> \in Workers /\ hold' = [hold EXCEPT ![w] = [order |-> order, size |-> size]]
        /\ wk' = [wk EXCEPT ![w] = "sending"] /\ order = next[w[1]]
    BY DEF Workers, Takes1, Take
  <2>1. CASE <<c, t>> = w
    <3>1. hold'[w] = [order |-> order, size |-> size] /\ c = w[1]
      BY <1>t, <2>w, <2>1
    <3>2. p = order
      BY <1>2, <2>1, <3>1 DEF Holds
    <3> QED
      BY <2>w, <2>1, <3>1, <3>2
  <2>2. CASE <<c, t>> # w
    <3>1. wk'[<<c, t>>] = wk[<<c, t>>] /\ hold'[<<c, t>>] = hold[<<c, t>>]
      BY <1>t, <2>w, <2>2
    <3> QED
      BY <1>2, <3>1 DEF Holds
  <2> QED
    BY <2>1, <2>2
<1>3. next'[c] >= next[c] /\ (c = w[1] => next'[c] = next[c] + 1)
  BY <1>t DEF Takes1
<1>4. \A t \in Threads, i \in Index : On(c, t, i, p)' <=> On(c, t, i, p)
  BY <1>1 DEF On
<1>5. p = next[c] => /\ \A t \in Threads : ~Holds(c, t, p) /\ \A i \in Index : ~On(c, t, i, p)
                     /\ p \notin buf[c] \cup disk[c]
  BY <1>t DEF One, Fresh
<1>6. Fresh(c, p)'
  <2> SUFFICES ASSUME p >= next'[c]
               PROVE  /\ \A t \in Threads : ~Holds(c, t, p)' /\ \A i \in Index : ~On(c, t, i, p)'
                      /\ p \notin buf'[c] \cup disk'[c]
    BY DEF Fresh
  <2>1. p >= next[c] /\ ~(c = w[1] /\ p = next[c])
    BY <1>t, <1>3 DEF Takes1
  <2> QED
    BY <1>1, <1>2, <1>4, <2>1 DEF One, Fresh
<1>7. Alone(c, p)'
  BY <1>2, <1>4, <1>5 DEF One, Alone
<1>8. Away(c, p)'
  BY <1>1, <1>2, <1>4, <1>5 DEF One, Away
<1> QED
  BY <1>6, <1>7, <1>8 DEF One

LEMMA WorkerKeepsOne ==
  ASSUME Typed, Orders, NEW w \in Workers, WorkerStep(w), UNCHANGED serverVars,
         NEW c \in Clients, NEW p \in Pieces, One(c, p)
  PROVE  One(c, p)'
<1>w. w[1] \in Clients /\ UNCHANGED <<disk, buf>>
  BY WorkerIsConn DEF serverVars, fileVars
<1>1. CASE Takes(w)
  BY <1>1, TakesEffect, TakeKeepsOne
<1>2. CASE ~Takes(w) /\ wk[w] = "sending"
           /\ Transmit(w, DataMsg(w[1], hold[w].order, hold[w].size))
           /\ UNCHANGED hold /\ wk'[w] # "sending"
  <2>1. UNCHANGED next /\ wk' = [wk EXCEPT ![w] = wk'[w]]
    BY <1>2, WorkerSends
  <2> QED
    BY <1>2, <1>w, <2>1, SendKeepsOne
<1>3. ASSUME ~Takes(w), \A t \in Threads, i \in Index : On(c, t, i, p)' => On(c, t, i, p),
             wk'[w] = "sending" => hold'[w].size = 0,
             \A v \in Workers \ {w} : hold'[v] = hold[v]
      PROVE  One(c, p)'
  <2>1. UNCHANGED next /\ wk' = [wk EXCEPT ![w] = wk'[w]]
    BY <1>3, WorkerSends
  <2>2. \A t \in Threads : Holds(c, t, p)' => Holds(c, t, p)
    <3> SUFFICES ASSUME NEW t \in Threads, Holds(c, t, p)' PROVE Holds(c, t, p)
      OBVIOUS
    <3>1. wk \in [Workers -> WorkerStates] /\ <<c, t>> \in Workers
      BY DEF Typed, TypeOK, ClientTypeOK, Workers
    <3>2. <<c, t>> # w
      BY <1>3 DEF Holds
    <3>3. wk'[<<c, t>>] = wk[<<c, t>>] /\ hold'[<<c, t>>] = hold[<<c, t>>]
      BY <1>3, <2>1, <3>1, <3>2
    <3> QED
      BY <3>3 DEF Holds
  <2>3. next[c] \in Nat /\ next'[c] = next[c]
    BY <2>1 DEF Typed, TypeOK, ClientTypeOK
  <2>4. \A t \in Threads : <<c, t>> # None
    BY NoneIsNoWorker DEF Workers
  <2>5. Passes(c, p, None)
    BY <1>3, <1>w, <2>2, <2>3, <2>4 DEF Passes, One, Away
  <2> QED
    BY <2>5, PassesKeepsOne, PieceCounts
<1>4. CASE ~Takes(w) /\ UNCHANGED up /\ \E order \in GarbageOrders :
             hold' = [hold EXCEPT ![w] = [order |-> order, size |-> 0]]
  <2>1. hold'[w].size = 0 /\ \A v \in Workers \ {w} : hold'[v] = hold[v]
    BY <1>4 DEF Typed, TypeOK, ClientTypeOK
  <2> QED
    BY <1>3, <1>4, <2>1 DEF On
<1>5. CASE ~Takes(w) /\ UNCHANGED <<up, hold>> /\ wk'[w] # "sending"
  BY <1>3, <1>5 DEF On
<1>6. CASE /\ ~Takes(w) /\ UNCHANGED hold /\ wk'[w] # "sending"
           /\ \E m \in {InitMsg(w[1]), FinishMsg(w[1])} : Transmit(w, m)
  <2>1. PICK m \in {InitMsg(w[1]), FinishMsg(w[1])} : Transmit(w, m)
    BY <1>6
  <2>2. m \in Messages /\ m # DataMsg(c, p, 1)
    <3>1. FinishMsg(w[1]).size = 0 /\ DataMsg(c, p, 1).size = 1
      BY DEF FinishMsg, DataMsg
    <3>2. InitMsg(w[1]).type = "init" /\ DataMsg(c, p, 1).type = "data"
      BY DEF InitMsg, DataMsg
    <3> QED
      BY <1>w, <3>1, <3>2, MessageTypes
  <2>3. \A t \in Threads, i \in Index : On(c, t, i, p)' => On(c, t, i, p)
    BY <2>1, <2>2, OtherMessage
  <2> QED
    BY <1>3, <1>6, <2>3
<1> QED
  BY <1>1, <1>2, <1>4, <1>5, <1>6, WorkerSends

LEMMA NextOnes ==
  ASSUME Typed, Sources, Ones, [Next]_vars
  PROVE  Ones'
<1> SUFFICES ASSUME NEW c \in Clients, NEW p \in Pieces PROVE One(c, p)'
  BY DEF Ones
<1>o. One(c, p)
  BY DEF Ones
<1>1. CASE ServerNext
  BY <1>1, <1>o, ServerPasses, PassesKeepsOne, PieceCounts DEF Sources
<1>2. CASE ((\E d \in Clients : ClientStep(d)) \/ ClientFault) /\ UNCHANGED serverVars
  BY <1>2, <1>o, MainPasses, PassesKeepsOne, PieceCounts
<1>3. CASE (\E w \in Workers : WorkerStep(w)) /\ UNCHANGED serverVars
  BY <1>3, <1>o, WorkerKeepsOne DEF Sources
<1>4. CASE UNCHANGED vars
  BY <1>4, <1>o DEF vars, netVars, clientVars, serverVars, fileVars, One, Fresh, Alone, Away,
       Holds, On
<1> QED
  BY <1>1, <1>2, <1>3, <1>4 DEF Next, ClientNext, Idle

LEMMA PieceInvariant == Spec => [](Typed /\ Negotiations /\ Sources /\ Ones)
  BY InitOnes, NextOnes, SourcesInvariant, PTL DEF Spec

LEMMA PlaceIs ==
  ASSUME Typed, NEW c \in Clients, NEW p \in Pieces, NEW x \in Places(c, p)
  PROVE  \/ \E t \in Threads : Holds(c, t, p) /\ x = <<"held", t>>
         \/ \E t \in Threads, i \in Index : On(c, t, i, p) /\ x = <<"sent", t, i>>
         \/ p \in buf[c] /\ x = <<"buffer", p>>
         \/ p \in disk[c] /\ x = <<"disk", p>>
<1>1. CASE x \in HeldPlaces(c, p)
  BY <1>1 DEF HeldPlaces, Holds
<1>2. CASE \E t \in Threads : x \in SentPlaces(c, t, p)
  <2>1. PICK t \in Threads : x \in SentPlaces(c, t, p)
    BY <1>2
  <2>2. PICK i \in DOMAIN up[<<c, t>>] : On(c, t, i, p) /\ x = <<"sent", t, i>>
    BY <2>1 DEF SentPlaces, On
  <2>3. up[<<c, t>>] \in Seq(Messages)
    BY DEF Typed, TypeOK, NetTypeOK, Conns
  <2>4. i \in Index
    BY <2>2, <2>3 DEF Index
  <2> QED
    BY <2>2, <2>4
<1>3. CASE x \in StoredPlaces(c, p)
  BY <1>3 DEF StoredPlaces
<1>4. x \in HeldPlaces(c, p) \/ x \in StoredPlaces(c, p) \/ \E t \in Threads : x \in SentPlaces(c, t, p)
  BY Zenon DEF Places
<1> QED
  BY <1>1, <1>2, <1>3, <1>4

(* However many threads a client has and however they interleave between   *)
(* file_reader::read, the socket and file_writer::write, no piece is in    *)
(* two places, and a piece that was not read is nowhere.                   *)
THEOREM OnePlaceCorrect == Spec => []OnePlace
<1>1. Typed /\ Ones => OnePlace
  <2> SUFFICES ASSUME Typed, Ones, NEW c \in Clients, NEW p \in Pieces
               PROVE  Cardinality(Places(c, p)) <= (IF p < next[c] THEN 1 ELSE 0)
    BY DEF OnePlace
  <2>o. One(c, p)
    BY DEF Ones
  <2>1. ASSUME NEW x \in Places(c, p), NEW y \in Places(c, p) PROVE x = y
    BY <2>o, PlaceIs DEF One, Alone, Away
  <2>2. CASE Places(c, p) = {}
    BY <2>2, FS_EmptySet
  <2>3. CASE Places(c, p) # {}
    <3>1. PICK x : x \in Places(c, p)
      BY <2>3
    <3>2. Places(c, p) = {x}
      BY <2>1, <3>1
    <3>3. ~(p >= next[c])
      BY <2>o, <3>1, PlaceIs DEF One, Fresh
    <3>4. p \in Nat /\ next[c] \in Nat
      BY PieceCounts DEF Typed, TypeOK, ClientTypeOK
    <3> QED
      BY <3>2, <3>3, <3>4, FS_Singleton
  <2> QED
    BY <2>2, <2>3
<1> QED
  BY <1>1, PieceInvariant, PTL
-----------------------------------------------------------------------------
(* The refinement of RemoteFile                                            *)

IsPending(c, p) ==
  \/ p \in Pieces /\ \E t \in Threads : Holds(c, t, p) \/ \E i \in Index : On(c, t, i, p)
  \/ p \in buf[c]

LEMMA PendingIs ==
  ASSUME up \in [Conns -> Seq(Messages)], NEW c \in Clients, NEW p
  PROVE  p \in Pending(c) <=> IsPending(c, p)
<1>1. ASSUME NEW t \in Threads PROVE DOMAIN up[<<c, t>>] \subseteq Index
  BY DEF Conns, Index
<1>2. ASSUME NEW t \in Threads
      PROVE  (\E i \in DOMAIN up[<<c, t>>] : up[<<c, t>>][i] = DataMsg(c, p, 1))
               <=> \E i \in Index : On(c, t, i, p)
  BY <1>1 DEF On
<1> QED
  BY <1>2 DEF Pending, IsPending, Holds

LEMMA PendingIsPrimed ==
  ASSUME Typed', NEW c \in Clients, NEW p
  PROVE  p \in Pending(c)' <=> IsPending(c, p)'
<1>1. ASSUME NEW t \in Threads PROVE DOMAIN up'[<<c, t>>] \subseteq Index
  BY DEF Conns, Index, Typed, TypeOK, NetTypeOK
<1>2. ASSUME NEW t \in Threads
      PROVE  (\E i \in DOMAIN up'[<<c, t>>] : up'[<<c, t>>][i] = DataMsg(c, p, 1))
               <=> \E i \in Index : On(c, t, i, p)'
  BY <1>1 DEF On
<1> QED
  BY <1>2 DEF Pending, IsPending, Holds

\* Nothing new is pending, and what reaches the disk was.
Shrinks(c) ==
  /\ Pending(c)' \subseteq Pending(c)
  /\ disk'[c] \subseteq disk[c] \cup Pending(c)

LEMMA PassesShrinks ==
  ASSUME Typed, Streams, Typed', Streams', NEW c \in Clients,
         \A p \in Pieces : \E v : Passes(c, p, v)
  PROVE  Shrinks(c)
<1>i. 1 \in Index /\ \A i \in Index : i + 1 \in Index
  BY DEF Index
<1>t. up \in [Conns -> Seq(Messages)]
  BY DEF Typed, TypeOK, NetTypeOK
<1>1. ASSUME NEW p \in Pieces, IsPending(c, p)' PROVE IsPending(c, p)
  <2>1. PICK v : Passes(c, p, v)
    OBVIOUS
  <2> QED
    BY <1>1, <1>i, <2>1 DEF IsPending, Passes
<1>2. ASSUME NEW p \in Pieces, p \in disk'[c] PROVE p \in disk[c] \/ IsPending(c, p)
  <2>1. PICK v : Passes(c, p, v)
    OBVIOUS
  <2> QED
    BY <1>2, <1>i, <2>1 DEF IsPending, Passes
<1>3. \A p : IsPending(c, p)' => p \in Pieces
  BY DEF IsPending, Streams, StreamOf
<1>4. disk'[c] \subseteq Pieces
  BY DEF Streams, StreamOf
<1> QED
  BY <1>t, <1>1, <1>2, <1>3, <1>4, PendingIs, PendingIsPrimed DEF Shrinks

Refined == Typed /\ Negotiations /\ Sources /\ Ones

LEMMA ServerShrinks ==
  ASSUME Refined, Refined', ServerNext, NEW c \in Clients
  PROVE  Shrinks(c)
<1>1. \A p \in Pieces : \E v : Passes(c, p, v)
  BY ServerPasses DEF Refined, Sources, Ones
<1> QED
  BY <1>1, PassesShrinks DEF Refined, Sources

LEMMA MainShrinks ==
  ASSUME Refined, Refined', (\E d \in Clients : ClientStep(d)) \/ ClientFault,
         UNCHANGED serverVars, NEW c \in Clients
  PROVE  Shrinks(c)
<1>1. \A p \in Pieces : \E v : Passes(c, p, v)
  BY MainPasses DEF Refined, Ones
<1> QED
  BY <1>1, PassesShrinks DEF Refined, Sources

\* The steps that change nothing on disk.
LEMMA LosesOnly ==
  ASSUME UNCHANGED <<next, disk, damaged>>, \A c \in Clients : Pending(c)' \subseteq Pending(c),
         \A c \in Clients : file'[c] = "closed" <=> file[c] = "closed"
  PROVE  File!Next
<1>1. File!Lose
  BY DEF File!Lose, Taken
<1> QED
  BY <1>1 DEF File!Next

\* A step on the file of c.
LEMMA Writes ==
  ASSUME Refined, Refined', UNCHANGED next, NEW c \in Clients, Shrinks(c),
         file[c] # "closed", disk[c] \subseteq disk'[c],
         UNCHANGED damaged, disk'[c] # disk[c] => damaged[c] = {},
         \A d \in Clients \ {c} : /\ disk'[d] = disk[d] /\ Pending(d)' = Pending(d)
                                  /\ file'[d] = file[d]
  PROVE  File!Next
<1>s. PICK S : S = disk'[c] \ disk[c]
  OBVIOUS
<1>l. PICK L : L = Pending(c) \ Pending(c)'
  OBVIOUS
<1>t. disk \in [Clients -> SUBSET Nat] /\ disk' \in [Clients -> SUBSET Nat]
  BY DEF Refined, Typed, TypeOK, ServerTypeOK
<1>1. ASSUME NEW p \in S PROVE p \in L
  <2>1. p \in Pieces /\ One(c, p)'
    BY <1>s, <1>1 DEF Refined, Sources, Streams, StreamOf, Ones
  <2>2. ~IsPending(c, p)'
    BY <1>s, <1>1, <2>1 DEF One, Away, IsPending
  <2>3. p \notin Pending(c)'
    BY <2>2, PendingIsPrimed DEF Refined
  <2> QED
    BY <1>s, <1>l, <2>3 DEF Shrinks
<1>2. L \in SUBSET Pending(c) /\ S \in SUBSET L
  BY <1>l, <1>1
<1>3. disk' = [disk EXCEPT ![c] = @ \cup S]
  BY <1>t, <1>s
<1>4. [d \in Clients |-> Pending(d)]' = [[d \in Clients |-> Pending(d)] EXCEPT ![c] = @ \ L]
  BY <1>l DEF Shrinks
<1>5. [d \in Clients |-> file[d] = "closed"]' \in
        {[d \in Clients |-> file[d] = "closed"],
         [[d \in Clients |-> file[d] = "closed"] EXCEPT ![c] = TRUE]}
  OBVIOUS
<1>6. [d \in Clients |-> Taken(d)]' = [d \in Clients |-> Taken(d)]
  BY DEF Taken
<1>7. File!Write(c, S, L)
  <2>1. S # {} => damaged[c] = {}
    BY <1>s
  <2> QED
    BY <1>3, <1>4, <1>5, <1>6, <2>1 DEF File!Write
<1>8. L \in SUBSET [d \in Clients |-> Pending(d)][c]
  BY <1>2
<1> QED
  BY <1>2, <1>7, <1>8 DEF File!Next

\* A write to the file of c that fails: bytes of p got to the places D.
LEMMA DamagesOnly ==
  ASSUME Refined, Refined', UNCHANGED next, NEW c \in Clients, Shrinks(c),
         "disk" \in ServerFaults, file[c] # "closed",
         NEW p \in Pending(c), NEW D \in SUBSET File!Near(p), damaged[c] \subseteq File!Near(p),
         disk' = [disk EXCEPT ![c] = @ \ D],
         damaged' = [damaged EXCEPT ![c] = @ \cup D],
         \A d \in Clients \ {c} : Pending(d)' = Pending(d) /\ file'[d] = file[d]
  PROVE  File!Next
<1>l. PICK L : L = Pending(c) \ Pending(c)'
  OBVIOUS
<1>1. L \in SUBSET Pending(c)
  BY <1>l
<1>2. [d \in Clients |-> Pending(d)]' = [[d \in Clients |-> Pending(d)] EXCEPT ![c] = @ \ L]
  BY <1>l DEF Shrinks
<1>3. [d \in Clients |-> file[d] = "closed"]' \in
        {[d \in Clients |-> file[d] = "closed"],
         [[d \in Clients |-> file[d] = "closed"] EXCEPT ![c] = TRUE]}
  OBVIOUS
<1>4. [d \in Clients |-> Taken(d)]' = [d \in Clients |-> Taken(d)]
  BY DEF Taken
<1>5. damaged[c] \cup D \subseteq File!Near(p)
  OBVIOUS
<1>6. File!Damage(c, p, D, L)
  BY <1>2, <1>3, <1>4, <1>5 DEF File!Damage
<1>7. /\ L \in SUBSET [d \in Clients |-> Pending(d)][c]
      /\ p \in [d \in Clients |-> Pending(d)][c]
  BY <1>1
<1> QED
  BY <1>6, <1>7 DEF File!Next

\* A Thread's step is nothing to the pieces of other clients.
LEMMA OthersPending ==
  ASSUME Refined, Refined', UNCHANGED clientVars, NEW w \in Workers, ThreadStep(w),
         WriteFile(w) \/ FinishThread(w), NEW d \in Clients, d # w[1], buf'[d] = buf[d]
  PROVE  Pending(d)' = Pending(d)
<1>1. up' = [up EXCEPT ![w] = Tail(@)]
  BY DEF WriteFile, FinishThread, Unread
<1>2. up \in [Conns -> Seq(Messages)]
  BY DEF Refined, Typed, TypeOK, NetTypeOK
<1>3. \A t \in Threads : up'[<<d, t>>] = up[<<d, t>>]
  BY <1>1, <1>2 DEF Conns
<1>4. \A p : IsPending(d, p)' <=> IsPending(d, p)
  BY <1>3 DEF IsPending, Holds, On, clientVars
<1>5. \A p : p \in Pending(d)' <=> p \in Pending(d)
  BY <1>2, <1>4, PendingIs, PendingIsPrimed DEF Refined
<1> QED
  BY <1>5

LEMMA ServerRefines ==
  ASSUME Refined, Refined', ServerNext
  PROVE  File!Next
<1>n. UNCHANGED next /\ \A c \in Clients : Shrinks(c) /\ Pending(c)' \subseteq Pending(c)
  BY ServerShrinks DEF ServerNext, clientVars, Shrinks
<1>t. /\ disk \in [Clients -> SUBSET Nat] /\ disk' \in [Clients -> SUBSET Nat]
      /\ file \in [Clients -> {"none", "good", "bad", "closed"}]
      /\ file' \in [Clients -> {"none", "good", "bad", "closed"}]
  BY DEF Refined, Typed, TypeOK, ServerTypeOK
<1>l. ASSUME UNCHANGED <<file, disk, damaged>> PROVE File!Next
  BY <1>l, <1>n, LosesOnly
<1>1. CASE AcceptStep \/ AcceptError
  BY <1>1, <1>l, AcceptDrains DEF Refined
<1>2. ASSUME NEW c \in Clients, SessionStep(c) PROVE File!Next
  <2>1. CASE ~OpenFile(c)
    BY <1>2, <1>l, <2>1, SessionDrains DEF Refined
  <2>2. CASE OpenFile(c)
    <3>1. file[c] = "none"
      BY <2>2 DEF OpenFile, Handle, Refined, Negotiations, Negotiation, Unopened, Waits
    <3>2. file'[c] \in {"good", "none"} /\ \A d \in Clients \ {c} : file'[d] = file[d]
      BY <2>2, <1>t DEF OpenFile
    <3>3. disk' = [disk EXCEPT ![c] = {}] /\ disk[c] = {}
      BY <1>2, <2>2, <3>1, SessionDrains DEF Refined, Sources, Streams, StreamOf
    <3>4. disk' = disk /\ UNCHANGED damaged
      BY <1>2, <1>t, <3>3, SessionDrains DEF Refined
    <3>5. \A d \in Clients : file'[d] = "closed" <=> file[d] = "closed"
      BY <3>1, <3>2
    <3> QED
      BY <1>n, <3>4, <3>5, LosesOnly
  <2> QED
    BY <2>1, <2>2
<1>3. ASSUME NEW w \in Workers, ThreadStep(w) PROVE File!Next
  <2>w. w[1] \in Clients /\ UNCHANGED clientVars
    BY WorkerIsConn DEF ServerNext
  <2>1. CASE ~WriteFile(w) /\ ~FinishThread(w)
    BY <1>3, <1>l, <2>1, ThreadWaits DEF Refined
  <2>2. CASE (WriteFile(w) \/ FinishThread(w)) /\ UNCHANGED fileVars
    BY <1>l, <2>2 DEF fileVars
  <2>3. ASSUME WriteFile(w) \/ FinishThread(w), file[w[1]] # "closed",
               disk[w[1]] \subseteq disk'[w[1]],
               UNCHANGED damaged, disk'[w[1]] # disk[w[1]] => damaged[w[1]] = {},
               \A d \in Clients \ {w[1]} :
                 disk'[d] = disk[d] /\ buf'[d] = buf[d] /\ file'[d] = file[d]
        PROVE  File!Next
    <3>1. \A d \in Clients \ {w[1]} : Pending(d)' = Pending(d)
      BY <1>3, <2>w, <2>3, OthersPending
    <3> QED
      BY <1>n, <2>w, <2>3, <3>1, Writes
  <2>4. CASE WriteFile(w) /\ file[w[1]] = "good"
    <3> DEFINE m == Head(up[w])
    <3>1. /\ Store(w[1], m) /\ \A x \in PieceOf(m) : x \in Pieces /\ On(w[1], w[2], 1, x)
      BY <2>4, ThreadReads DEF Refined, Sources
    <3> HIDE DEF m
    <3>2. /\ Single(buf[w[1]]) /\ (w[1] \notin Buffered => buf[w[1]] = {})
          /\ damaged[w[1]] = {}
      BY <2>w, <2>4 DEF Refined, Sources, Streams, StreamOf
    <3>3. /\ disk[w[1]] \subseteq disk'[w[1]]
          /\ \A d \in Clients \ {w[1]} :
               disk'[d] = disk[d] /\ buf'[d] = buf[d] /\ file'[d] = file[d]
      BY <2>w, <3>1, StoreEffect DEF Refined
    <3>4. CASE UNCHANGED damaged
      BY <2>3, <2>4, <3>2, <3>3, <3>4
    <3>5. ASSUME NEW p, Refuses(w[1], p),
                 IF w[1] \in Buffered THEN p \in buf[w[1]] ELSE p \in PieceOf(m)
          PROVE  File!Next
      <4>1. p \in Pieces /\ p \in Pending(w[1]) /\ p \notin disk[w[1]]
        <5>1. 1 \in Index /\ w[2] \in Threads
          BY <2>w DEF Index, Workers
        <5>2. p \in Pieces /\ IsPending(w[1], p)
          BY <2>w, <3>1, <3>5, <5>1 DEF IsPending, Refined, Sources, Streams, StreamOf
        <5>3. p \notin disk[w[1]]
          BY <2>w, <3>1, <3>5, <5>1, <5>2 DEF Refined, Ones, One, Away
        <5>4. up \in [Conns -> Seq(Messages)]
          BY DEF Refined, Typed, TypeOK, NetTypeOK
        <5> QED
          BY <2>w, <5>2, <5>3, <5>4, PendingIs
      <4>2. PICK D \in {{}, {p}} : damaged' = [damaged EXCEPT ![w[1]] = @ \cup D]
        <5>1. damaged = [damaged EXCEPT ![w[1]] = @ \cup {}]
          BY DEF Refined, Typed, TypeOK, ServerTypeOK
        <5> QED
          BY <3>5, <5>1 DEF Refuses
      <4>3. disk' = [disk EXCEPT ![w[1]] = @ \ D]
        <5>1. disk[w[1]] \ D = disk[w[1]]
          BY <4>1, <4>2
        <5> QED
          BY <1>t, <2>w, <3>5, <5>1 DEF Refuses
      <4>4. \A d \in Clients \ {w[1]} : Pending(d)' = Pending(d) /\ file'[d] = file[d]
        BY <1>3, <2>w, <2>4, <3>3, OthersPending
      <4>5. D \in SUBSET File!Near(p) /\ damaged[w[1]] \subseteq File!Near(p)
        BY <3>2, <4>2 DEF File!Near
      <4>6. "disk" \in ServerFaults /\ file[w[1]] # "closed"
        BY <2>4, <3>5 DEF Refuses
      <4> QED
        BY <1>n, <2>w, <4>1, <4>2, <4>3, <4>4, <4>5, <4>6, DamagesOnly
    <3> QED
      BY <2>w, <3>1, <3>2, <3>4, <3>5, StoreDamage DEF Refined
  <2>5. CASE FinishThread(w) /\ CloseFile(w[1])
    <3> DEFINE c == w[1]
    <3>1. /\ disk'[c] \subseteq disk[c] \cup buf[c] /\ file'[c] = "closed"
          /\ \A d \in Clients \ {c} :
               disk'[d] = disk[d] /\ buf'[d] = buf[d] /\ file'[d] = file[d]
      BY <2>w, <2>5, CloseEffect DEF Refined
    <3>2. /\ c \in Clients /\ Single(buf[c]) /\ (buf[c] # {} => damaged[c] \subseteq buf[c])
          /\ (file[c] = "closed" => buf[c] = {})
      BY <2>w DEF Refined, Sources, Streams, StreamOf
    <3>3. \A d \in Clients \ {c} : Pending(d)' = Pending(d) /\ file'[d] = file[d]
      BY <1>3, <2>w, <2>5, <3>1, OthersPending
    <3>4. \/ disk' = [disk EXCEPT ![c] = @ \cup buf[c]] /\ ~Moved(c) /\ UNCHANGED damaged
          \/ /\ "disk" \in ServerFaults
             /\ \E D \in Misplaced(c) :
                  /\ disk' = [disk EXCEPT ![c] = @ \ D]
                  /\ damaged' = [damaged EXCEPT ![c] = @ \cup D]
      BY <2>5 DEF CloseFile
    <3>5. FinishThread(w)
      BY <2>5
    <3> HIDE DEF c
    <3>6. CASE buf[c] = {}
      <4>1. disk' = disk /\ UNCHANGED damaged
        <5>1. Misplaced(c) = {{}}
          BY <3>6 DEF Misplaced, Astray
        <5>2. damaged = [damaged EXCEPT ![c] = @ \cup {}] /\ disk = [disk EXCEPT ![c] = @ \cup {}]
              /\ disk = [disk EXCEPT ![c] = @ \ {}]
          BY <1>t, <3>2 DEF Refined, Typed, TypeOK, ServerTypeOK
        <5> QED
          BY <3>4, <3>6, <5>1, <5>2
      <4>2. CASE file[c] = "closed"
        <5>1. \A d \in Clients : file'[d] = "closed" <=> file[d] = "closed"
          BY <3>1, <4>2
        <5> QED
          BY <1>n, <4>1, <5>1, LosesOnly
      <4>3. CASE file[c] # "closed"
        BY <2>3, <3>1, <3>5, <4>1, <4>3 DEF c
      <4> QED
        BY <4>2, <4>3
    <3>7. CASE buf[c] # {} /\ disk' = [disk EXCEPT ![c] = @ \cup buf[c]] /\ ~Moved(c)
               /\ UNCHANGED damaged
      <4>1. damaged[c] = {}
        BY <3>2, <3>7 DEF Moved
      <4>2. disk[c] \subseteq disk'[c]
        BY <1>t, <3>2, <3>7
      <4>3. file[c] # "closed"
        BY <3>2, <3>7
      <4> QED
        BY <2>3, <3>1, <3>5, <3>7, <4>1, <4>2, <4>3 DEF c
    <3>8. ASSUME buf[c] # {}, "disk" \in ServerFaults, NEW D \in Misplaced(c),
                 disk' = [disk EXCEPT ![c] = @ \ D], damaged' = [damaged EXCEPT ![c] = @ \cup D]
          PROVE  File!Next
      <4>1. PICK p : p \in buf[c]
        BY <3>8
      <4>2. buf[c] = {p}
        BY <3>2, <4>1 DEF Single
      <4>3. D \in SUBSET File!Near(p) /\ damaged[c] \subseteq File!Near(p)
        <5>1. Astray({p}) = {p, p + 1}
          BY DEF Astray
        <5>2. p \in Nat
          BY <3>2, <4>1 DEF Refined, Typed, TypeOK, ServerTypeOK
        <5>3. Astray({p, p + 1}) = {p, p + 1, p + 2}
          BY <5>2 DEF Astray
        <5> QED
          BY <3>2, <3>8, <4>2, <5>1, <5>3 DEF Misplaced, File!Near
      <4>4. p \in Pending(c)
        BY <4>1 DEF Pending
      <4>5. file[c] # "closed"
        BY <3>2, <3>8
      <4> QED
        BY <1>n, <3>2, <3>3, <3>8, <4>3, <4>4, <4>5, DamagesOnly
    <3> QED
      BY <3>4, <3>6, <3>7, <3>8
  <2> QED
    BY <1>3, <2>1, <2>2, <2>4, <2>5, ThreadReads DEF Refined, Sources
<1> QED
  BY <1>1, <1>2, <1>3 DEF ServerNext

LEMMA WorkerMoves ==
  ASSUME Typed, NEW w \in Workers, WorkerStep(w), ~Takes(w),
         NEW c \in Clients, NEW t \in Threads, NEW p \in Pieces
  PROVE  /\ Holds(c, t, p)' => Holds(c, t, p)
         /\ \A i \in Index : On(c, t, i, p)' => On(c, t, i, p) \/ Holds(c, t, p)
<1>t. /\ wk \in [Workers -> WorkerStates] /\ hold \in [Workers -> [order : Nat, size : {0, 1}]]
      /\ <<c, t>> \in Workers /\ w[1] \in Clients
  BY WorkerIsConn DEF Typed, TypeOK, ClientTypeOK, Workers
<1>1. Holds(c, t, p)' => Holds(c, t, p)
  <2>1. CASE <<c, t>> # w
    <3>1. wk'[<<c, t>>] = wk[<<c, t>>] /\ hold'[<<c, t>>] = hold[<<c, t>>]
      BY <1>t, <2>1, WorkerSends
    <3> QED
      BY <3>1 DEF Holds
  <2>2. CASE <<c, t>> = w
    <3>1. wk'[w] # "sending" \/ hold'[w].size = 0
      BY <1>t, WorkerSends
    <3> QED
      BY <2>2, <3>1 DEF Holds
  <2> QED
    BY <2>1, <2>2
<1>2. ASSUME NEW m \in Messages, Transmit(w, m), NEW i \in Index, On(c, t, i, p)'
      PROVE  On(c, t, i, p) \/ (<<c, t>> = w /\ m = DataMsg(c, p, 1))
  BY <1>2, OtherMessage
<1>3. CASE UNCHANGED up
  BY <1>1, <1>3 DEF On
<1>4. CASE \E m \in {InitMsg(w[1]), FinishMsg(w[1])} : Transmit(w, m)
  <2>1. PICK m \in {InitMsg(w[1]), FinishMsg(w[1])} : Transmit(w, m)
    BY <1>4
  <2>2. FinishMsg(w[1]).size = 0 /\ DataMsg(c, p, 1).size = 1
    BY DEF FinishMsg, DataMsg
  <2>3. InitMsg(w[1]).type = "init" /\ DataMsg(c, p, 1).type = "data"
    BY DEF InitMsg, DataMsg
  <2> QED
    BY <1>t, <1>1, <1>2, <2>1, <2>2, <2>3, MessageTypes
<1>5. CASE wk[w] = "sending" /\ Transmit(w, DataMsg(w[1], hold[w].order, hold[w].size))
  <2>1. PICK m : m = DataMsg(w[1], hold[w].order, hold[w].size)
    OBVIOUS
  <2>2. m \in Messages /\ Transmit(w, m)
    BY <1>t, <1>5, <2>1, MessageTypes
  <2>3. m = DataMsg(c, p, 1) => hold[w] = [order |-> p, size |-> 1]
    BY <1>t, <2>1 DEF DataMsg
  <2> QED
    BY <1>1, <1>2, <1>5, <2>2, <2>3 DEF Holds
<1> QED
  BY <1>3, <1>4, <1>5, WorkerSends

LEMMA WorkerRefines ==
  ASSUME Refined, Refined', NEW w \in Workers, WorkerStep(w), ~Takes(w), UNCHANGED serverVars
  PROVE  File!Next
<1>1. UNCHANGED <<next, disk, damaged, buf, file>>
  BY WorkerSends DEF Refined, serverVars, fileVars
<1>2. ASSUME NEW c \in Clients, NEW p, IsPending(c, p)' PROVE IsPending(c, p)
  BY <1>1, <1>2, WorkerMoves DEF IsPending, Refined
<1>3. up \in [Conns -> Seq(Messages)]
  BY DEF Refined, Typed, TypeOK, NetTypeOK
<1>4. \A c \in Clients : Pending(c)' \subseteq Pending(c)
  BY <1>2, <1>3, PendingIs, PendingIsPrimed DEF Refined
<1> QED
  BY <1>1, <1>4, LosesOnly

LEMMA TakeRefines ==
  ASSUME Refined, Refined', NEW w \in Workers, NEW order \in Nat, NEW size \in {0, 1},
         Takes1(w, order, size), UNCHANGED serverVars
  PROVE  File!Next
<1> DEFINE c == w[1]
<1>t. /\ next \in [Clients -> Nat] /\ c \in Clients /\ w[2] \in Threads /\ w = <<c, w[2]>>
      /\ wk \in [Workers -> WorkerStates] /\ hold \in [Workers -> [order : Nat, size : {0, 1}]]
      /\ up \in [Conns -> Seq(Messages)] /\ NumPieces \in Nat
  BY WorkerIsConn, PieceCounts DEF Refined, Typed, TypeOK, ClientTypeOK, NetTypeOK
<1>n. /\ order = next[c] /\ wk[w] = "reading" /\ next' = [next EXCEPT ![c] = @ + 1]
      /\ wk' = [wk EXCEPT ![w] = "sending"]
      /\ hold' = [hold EXCEPT ![w] = [order |-> order, size |-> size]]
  BY DEF Takes1, Take
<1>1. UNCHANGED <<up, disk, damaged, buf, file>>
  BY DEF Takes1, Take, netVars, serverVars, fileVars
<1> HIDE DEF c
<1>2. ASSUME NEW d \in Clients, NEW p, IsPending(d, p)'
      PROVE  IsPending(d, p) \/ (d = c /\ size = 1 /\ p = order)
  <2>1. ASSUME NEW t \in Threads, Holds(d, t, p)'
        PROVE  Holds(d, t, p) \/ (d = c /\ size = 1 /\ p = order)
    <3>1. CASE <<d, t>> = w
      BY <1>t, <1>n, <2>1, <3>1 DEF Holds
    <3>2. CASE <<d, t>> # w
      <4>1. <<d, t>> \in Workers
        BY DEF Workers
      <4>2. wk'[<<d, t>>] = wk[<<d, t>>] /\ hold'[<<d, t>>] = hold[<<d, t>>]
        BY <1>t, <1>n, <3>2, <4>1
      <4> QED
        BY <2>1, <4>2 DEF Holds
    <3> QED
      BY <3>1, <3>2
  <2> QED
    BY <1>1, <1>2, <2>1 DEF IsPending, On
<1>3. ASSUME NEW d \in Clients, NEW p, IsPending(d, p) PROVE IsPending(d, p)'
  <2>1. ASSUME NEW t \in Threads, Holds(d, t, p) PROVE Holds(d, t, p)'
    <3>1. <<d, t>> # w /\ <<d, t>> \in Workers
      BY <1>n, <2>1 DEF Holds, Workers
    <3>2. wk'[<<d, t>>] = wk[<<d, t>>] /\ hold'[<<d, t>>] = hold[<<d, t>>]
      BY <1>t, <1>n, <3>1
    <3> QED
      BY <2>1, <3>2 DEF Holds
  <2> QED
    BY <1>1, <1>3, <2>1 DEF IsPending, On
<1>4. CASE size = 0
  <2>1. next[c] >= NumPieces
    BY <1>4 DEF Takes1, c
  <2>2. \A d \in Clients : Taken(d)' = Taken(d)
    BY <1>t, <1>n, <2>1 DEF Taken
  <2>3. \A d \in Clients : Pending(d)' \subseteq Pending(d)
    BY <1>t, <1>2, <1>4, PendingIs, PendingIsPrimed DEF Refined
  <2>4. File!Lose
    BY <1>1, <2>2, <2>3 DEF File!Lose
  <2> QED
    BY <2>4 DEF File!Next
<1>5. CASE size = 1
  <2>1. order \in Pieces /\ next[c] < NumPieces
    BY <1>t, <1>n, <1>5, PieceCounts DEF Takes1
  <2>2. Holds(c, w[2], order)'
    BY <1>t, <1>n, <1>5 DEF Holds
  <2>3. IsPending(c, order)'
    BY <1>t, <2>1, <2>2 DEF IsPending
  <2>4. \A d \in Clients : Pending(d)' = IF d = c THEN Pending(c) \cup {order} ELSE Pending(d)
    BY <1>t, <1>2, <1>3, <2>3, PendingIs, PendingIsPrimed DEF Refined
  <2>5. \A d \in Clients : Taken(d)' = IF d = c THEN order + 1 ELSE Taken(d)
    BY <1>t, <1>n, <2>1 DEF Taken
  <2>6. Taken(c) = order /\ order < NumPieces
    BY <1>n, <2>1 DEF Taken
  <2>7. File!Take(c)
    <3>1. [d \in Clients |-> Taken(d)]' = [[d \in Clients |-> Taken(d)] EXCEPT ![c] = @ + 1]
      BY <1>t, <2>5, <2>6
    <3>2. [d \in Clients |-> Pending(d)]' =
            [[d \in Clients |-> Pending(d)] EXCEPT ![c] = @ \cup {[d \in Clients |-> Taken(d)][c]}]
      BY <1>t, <2>4, <2>6
    <3> QED
      BY <1>t, <1>1, <2>6, <3>1, <3>2 DEF File!Take
  <2> QED
    BY <1>t, <2>7 DEF File!Next
<1> QED
  BY <1>4, <1>5

LEMMA FileStep ==
  ASSUME Refined, Refined', [Next]_vars
  PROVE  [File!Next]_(File!vars)
<1>1. CASE ServerNext
  BY <1>1, ServerRefines
<1>2. CASE ((\E d \in Clients : ClientStep(d)) \/ ClientFault) /\ UNCHANGED serverVars
  <2>1. UNCHANGED <<next, disk, damaged, file>> /\ \A c \in Clients : Pending(c)' \subseteq Pending(c)
    BY <1>2, MainShrinks, MainStepDrains DEF serverVars, fileVars, Shrinks, Refined
  <2> QED
    BY <2>1, LosesOnly
<1>3. ASSUME NEW w \in Workers, WorkerStep(w), UNCHANGED serverVars PROVE File!Next
  <2>1. CASE Takes(w)
    BY <1>3, <2>1, TakesEffect, TakeRefines DEF Refined, Sources
  <2> QED
    BY <1>3, <2>1, WorkerRefines
<1>4. CASE UNCHANGED vars
  BY <1>4 DEF vars, netVars, clientVars, serverVars, fileVars, File!vars, Taken, Pending
<1> QED
  BY <1>1, <1>2, <1>3, <1>4 DEF Next, ClientNext, Idle

(* The uploader implements RemoteFile: whatever processes and connections  *)
(* do, the file on the server gets only pieces that were read from the     *)
(* source, each once, and is left alone once it is closed.  A write that   *)
(* fails damages the place of its piece and the next two at most, and      *)
(* nothing is stored any more after it.                                    *)
THEOREM PromiseKept == Spec => KeepsPromise
<1>1. Init => File!Init
  <2> SUFFICES ASSUME Init PROVE File!Init
    OBVIOUS
  <2>1. \A c \in Clients : Taken(c) = 0
    BY PieceCounts DEF Init, ClientInit, Taken
  <2>2. ASSUME NEW c \in Clients PROVE Pending(c) = {}
    <3>1. buf[c] = {} /\ \A t \in Threads : wk[<<c, t>>] = "off"
      BY DEF Init, ClientInit, ServerInit, Holds, Workers
    <3>2. \A t \in Threads : up[<<c, t>>] = << >>
      BY DEF Init, NetInit, Conns
    <3>3. ASSUME NEW p PROVE ~IsPending(c, p)
      <4>1. \A t \in Threads : ~Holds(c, t, p)
        BY <3>1 DEF Holds
      <4>2. \A t \in Threads, i \in Index : ~On(c, t, i, p)
        BY <3>2 DEF On
      <4> QED
        BY <3>1, <4>1, <4>2 DEF IsPending
    <3>4. up \in [Conns -> Seq(Messages)]
      BY DEF Init, NetInit
    <3> QED
      BY <3>3, <3>4, PendingIs
  <2>3. (\A c \in Clients : (file[c] = "closed") = FALSE) /\ disk = [d \in Clients |-> {}]
        /\ damaged = [d \in Clients |-> {}]
    BY DEF Init, ServerInit
  <2>4. [c \in Clients |-> Taken(c)] = [c \in Clients |-> 0]
    BY <2>1
  <2>5. [c \in Clients |-> Pending(c)] = [c \in Clients |-> {}]
    BY <2>2
  <2>6. [c \in Clients |-> file[c] = "closed"] = [c \in Clients |-> FALSE]
    BY <2>3
  <2> QED
    BY <2>3, <2>4, <2>5, <2>6 DEF File!Init
<1>2. Refined /\ Refined' /\ [Next]_vars => [File!Next]_(File!vars)
  BY FileStep
<1>3. Spec => []Refined
  BY PieceInvariant, PTL DEF Refined
<1> QED
  BY <1>1, <1>2, <1>3, PTL DEF Spec, KeepsPromise, File!Spec
=============================================================================
