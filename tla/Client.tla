------------------------------- MODULE Client -------------------------------
(***************************************************************************)
(* client.cpp: the Uploader (handshake, file negotiation, thread pool) and *)
(* its transfer() worker threads, with the shared file_reader they take    *)
(* their pieces from.                                                      *)
(*                                                                         *)
(* The source file is FullPieces pieces of -s bytes, and a shorter last    *)
(* piece if ShortPiece; a piece is known by its order.  One call of        *)
(* file_reader::read is one action: it holds a mutex from its first to its *)
(* last statement (module FileReader opens it up).                         *)
(***************************************************************************)
EXTENDS Network

CONSTANTS
  FullPieces,     \* whole pieces in the source file
  ShortPiece,     \* is there a shorter piece after them?
  GarbageOrders,  \* orders a packet gets from the uninitialized _offset
  ClientFaults,   \* subset of {"kill", "cut", "silence", "source", "unreadable"}
  Faulty          \* the clients these faults may hit

ASSUME ClientAssumption ==
  /\ FullPieces \in Nat
  /\ ShortPiece \in BOOLEAN
  /\ GarbageOrders \subseteq Nat
  /\ GarbageOrders # {}
  /\ ClientFaults \subseteq {"kill", "cut", "silence", "source", "unreadable"}
  /\ Faulty \subseteq Clients

NumPieces == FullPieces + (IF ShortPiece THEN 1 ELSE 0)
Pieces == 0 .. NumPieces - 1

VARIABLES
  cl,     \* cl[c]: where the main thread of client c is
  wk,     \* wk[w]: where worker thread w is
  hold,   \* hold[w]: the packet w is about to send, as [order, size]
  next,   \* next[c]: file_reader::offset, counted in pieces
  eof,    \* eof[c]: the eofbit of file_reader::_file
  ok      \* ok[c]: file_reader::ok, and its stream is open

clientVars == <<cl, wk, hold, next, eof, ok>>

Ended == {"done", "exit1", "aborted", "killed"}
ClientStates ==
  {"start", "connected", "hello", "negotiating", "transfer"} \cup Ended
WorkerStates ==
  {"off", "start", "connected", "reading", "sending", "finishing", "done"}

ClientTypeOK ==
  /\ cl \in [Clients -> ClientStates]
  /\ wk \in [Workers -> WorkerStates]
  /\ hold \in [Workers -> [order : Nat, size : {0, 1}]]
  /\ next \in [Clients -> Nat]
  /\ eof \in [Clients -> BOOLEAN]
  /\ ok \in [Clients -> BOOLEAN]

ClientInit ==
  /\ cl = [c \in Clients |-> "start"]
  /\ wk = [w \in Workers |-> "off"]
  /\ hold = [w \in Workers |-> [order |-> 0, size |-> 0]]
  /\ next = [c \in Clients |-> 0]
  /\ eof = [c \in Clients |-> FALSE]
  /\ ok = [c \in Clients |-> TRUE]

-----------------------------------------------------------------------------
(* main(), Uploader::handshake, Uploader::file_negotiation                 *)

ClientConnect(c) ==
  /\ cl[c] = "start"
  /\ Connect(<<c, Main>>)
  /\ cl' = [cl EXCEPT ![c] = "connected"]
  /\ UNCHANGED <<listening, up, down, wk, hold, next, eof, ok>>

\* connect() throws and nobody catches it, in main() or in a worker thread:
\* the whole process terminates.
ConnectRefused(c) ==
  /\ ~listening
  /\ \/ cl[c] = "start"
     \/ cl[c] = "transfer" /\ \E t \in Threads : wk[<<c, t>>] = "start"
  /\ cl' = [cl EXCEPT ![c] = "aborted"]
  /\ UNCHANGED <<netVars, wk, hold, next, eof, ok>>

\* The constructor of file_reader cannot read the source file: exit(1).
SourceMissing(c) ==
  /\ "source" \in ClientFaults
  /\ cl[c] = "connected"
  /\ cl' = [cl EXCEPT ![c] = "exit1"]
  /\ Shut({<<c, Main>>})
  /\ UNCHANGED <<listening, backlog, up, down, wk, hold, next, eof, ok>>

\* The constructor knows the size of the file but cannot open it, and sets
\* ok all the same: every read then returns as it does at the end.
SourceUnreadable(c) ==
  /\ "unreadable" \in ClientFaults
  /\ cl[c] = "connected"
  /\ ok' = [ok EXCEPT ![c] = FALSE]
  /\ UNCHANGED <<netVars, cl, wk, hold, next, eof>>

SendHello(c) ==
  /\ cl[c] = "connected"
  /\ Transmit(<<c, Main>>, HelloMsg(c))
  /\ cl' = [cl EXCEPT ![c] = "hello"]
  /\ UNCHANGED <<listening, backlog, link, down, wk, hold, next, eof, ok>>

\* The server's hello carries status 0: go on with the file negotiation.
SendNegotiation(c) ==
  /\ cl[c] = "hello"
  /\ down[c] # << >> /\ Head(down[c]) = 0
  /\ down' = [down EXCEPT ![c] = Tail(@)]
  /\ Transmit(<<c, Main>>, NegotiationMsg(c))
  /\ cl' = [cl EXCEPT ![c] = "negotiating"]
  /\ UNCHANGED <<listening, backlog, link, wk, hold, next, eof, ok>>

\* write_some, of either message, finds the connection dead: it throws, and
\* nobody catches it.
WriteThrows(c) ==
  /\ \/ cl[c] = "connected"
     \/ cl[c] = "hello" /\ down[c] # << >> /\ Head(down[c]) = 0
  /\ link[<<c, Main>>] \in {"reset", "cut"}
  /\ cl' = [cl EXCEPT ![c] = "aborted"]
  /\ UNCHANGED <<netVars, wk, hold, next, eof, ok>>

\* The server can write the file: start every worker thread.
StartTransfer(c) ==
  /\ cl[c] = "negotiating"
  /\ down[c] # << >> /\ Head(down[c]) = 0
  /\ down' = [down EXCEPT ![c] = Tail(@)]
  /\ cl' = [cl EXCEPT ![c] = "transfer"]
  /\ wk' = [w \in Workers |-> IF w[1] = c THEN "start" ELSE wk[w]]
  /\ UNCHANGED <<listening, backlog, link, up, hold, next, eof, ok>>

\* A bug: a read that fails is tried again.
GiveUp_OnStatus(c) ==
  /\ cl[c] \in {"hello", "negotiating"}
  /\ \/ /\ down[c] # << >> /\ Head(down[c]) # 0
        /\ cl' = [cl EXCEPT ![c] = "exit1"]
        /\ Shut({<<c, Main>>})
        /\ UNCHANGED <<listening, backlog, up, down, wk, hold, next, eof, ok>>
     \/ /\ down[c] = << >> /\ link[<<c, Main>>] \in {"reset", "cut"}
        /\ UNCHANGED <<netVars, clientVars>>

\* Another status, or a read that fails: exit(1).
GiveUp(c) ==
  /\ cl[c] \in {"hello", "negotiating"}
  /\ IF down[c] # << >> THEN Head(down[c]) # 0
                        ELSE link[<<c, Main>>] \in {"reset", "cut"}
  /\ cl' = [cl EXCEPT ![c] = "exit1"]
  /\ Shut({<<c, Main>>})
  /\ UNCHANGED <<listening, backlog, up, down, wk, hold, next, eof, ok>>

\* Every worker has been joined: main() returns.
JoinThreads(c) ==
  /\ cl[c] = "transfer"
  /\ \A t \in Threads : wk[<<c, t>>] = "done"
  /\ cl' = [cl EXCEPT ![c] = "done"]
  /\ Shut({<<c, Main>>})
  /\ UNCHANGED <<listening, backlog, up, down, wk, hold, next, eof, ok>>
-----------------------------------------------------------------------------
(* transfer(), one worker thread w = <<c, t>>                              *)

Running(w, state) == cl[w[1]] = "transfer" /\ wk[w] = state

WorkerConnect(w) ==
  /\ Running(w, "start")
  /\ Connect(w)
  /\ wk' = [wk EXCEPT ![w] = "connected"]
  /\ UNCHANGED <<listening, up, down, cl, hold, next, eof, ok>>

SendInit(w) ==
  /\ Running(w, "connected")
  /\ Transmit(w, InitMsg(w[1]))
  /\ wk' = [wk EXCEPT ![w] = "reading"]
  /\ UNCHANGED <<listening, backlog, link, down, cl, hold, next, eof, ok>>

\* file_reader::read hands w the packet [order, size].
Take(w, order, size) ==
  /\ hold' = [hold EXCEPT ![w] = [order |-> order, size |-> size]]
  /\ wk' = [wk EXCEPT ![w] = "sending"]
  /\ UNCHANGED <<netVars, cl>>

\* A bug: offset is not increased.
ReadFull_NoCount(w) ==
  LET c == w[1] IN
  /\ Running(w, "reading") /\ ok[c] /\ ~eof[c]
  /\ next[c] < FullPieces
  /\ Take(w, next[c], 1)
  /\ UNCHANGED <<next, eof, ok>>

ReadFull(w) ==
  LET c == w[1] IN
  /\ Running(w, "reading") /\ ok[c] /\ ~eof[c]
  /\ next[c] < FullPieces
  /\ Take(w, next[c], 1)
  /\ next' = [next EXCEPT ![c] = @ + 1]
  /\ UNCHANGED <<eof, ok>>

\* Less than a piece is left: what is left, possibly nothing, is the last.
ReadRest(w) ==
  LET c == w[1] IN
  /\ Running(w, "reading") /\ ok[c] /\ ~eof[c]
  /\ next[c] >= FullPieces
  /\ Take(w, next[c], IF ShortPiece THEN 1 ELSE 0)
  /\ next' = [next EXCEPT ![c] = @ + 1]
  /\ eof' = [eof EXCEPT ![c] = TRUE]
  /\ UNCHANGED ok

\* A bug: the end of the file is not an empty answer.
ReadAtEnd_Minus(w) ==
  LET c == w[1] IN
  /\ Running(w, "reading") /\ (eof[c] \/ ~ok[c])
  /\ \E order \in GarbageOrders : Take(w, order, 2)
  /\ ok' = [ok EXCEPT ![c] = FALSE]
  /\ UNCHANGED <<next, eof>>

\* The early returns leave offset_ alone, which the caller did not initialize.
ReadAtEnd(w) ==
  LET c == w[1] IN
  /\ Running(w, "reading") /\ (eof[c] \/ ~ok[c])
  /\ \E order \in GarbageOrders : Take(w, order, 0)
  /\ ok' = [ok EXCEPT ![c] = FALSE]
  /\ UNCHANGED <<next, eof>>

SendPiece(w) ==
  /\ Running(w, "sending")
  /\ CanWrite(w)
  /\ Transmit(w, DataMsg(w[1], hold[w].order, hold[w].size))
  /\ wk' = [wk EXCEPT ![w] = IF hold[w].size # 0 THEN "reading" ELSE "finishing"]
  /\ UNCHANGED <<listening, backlog, link, down, cl, hold, next, eof, ok>>

\* A bug: the thread returns without the finish packet.
SendFinish_NotSent(w) ==
  /\ Running(w, "finishing")
  /\ Shut({w})
  /\ wk' = [wk EXCEPT ![w] = "done"]
  /\ UNCHANGED <<listening, backlog, up, down, cl, hold, next, eof, ok>>

\* The finish packet; the socket closes when the thread function returns.
SendFinish(w) ==
  /\ Running(w, "finishing")
  /\ CanWrite(w)
  /\ Transmit(w, FinishMsg(w[1]))
  /\ Shut({w})
  /\ wk' = [wk EXCEPT ![w] = "done"]
  /\ UNCHANGED <<listening, backlog, down, cl, hold, next, eof, ok>>
-----------------------------------------------------------------------------
(* Faults around the client                                                *)

\* The client process is killed; its kernel still delivers what was sent.
Kill(c) ==
  /\ "kill" \in ClientFaults
  /\ cl[c] \notin Ended \cup {"start"}
  /\ cl' = [cl EXCEPT ![c] = "killed"]
  /\ Shut({k \in Conns : k[1] = c})
  /\ UNCHANGED <<listening, backlog, up, down, wk, hold, next, eof, ok>>

\* The network loses a connection with what is in flight to the server.
Cut(k) ==
  /\ "cut" \in ClientFaults
  /\ link[k] \in {"open", "shut", "silent"}
  /\ link' = [link EXCEPT ![k] = "cut"]
  /\ up' = [up EXCEPT ![k] = << >>]
  /\ UNCHANGED <<listening, backlog, down, clientVars>>

\* Nothing gets through any more on a connection, and nobody is told: what is
\* written later vanishes, also the end of the stream.
Silence(k) ==
  /\ "silence" \in ClientFaults
  /\ link[k] = "open"
  /\ link' = [link EXCEPT ![k] = "silent"]
  /\ UNCHANGED <<listening, backlog, up, down, clientVars>>
-----------------------------------------------------------------------------
ClientStep(c) ==
  \/ ClientConnect(c) \/ ConnectRefused(c) \/ SendHello(c) \/ WriteThrows(c)
  \/ SendNegotiation(c) \/ StartTransfer(c) \/ GiveUp(c) \/ JoinThreads(c)

WorkerStep(w) ==
  \/ WorkerConnect(w) \/ SendInit(w)
  \/ ReadFull(w) \/ ReadRest(w) \/ ReadAtEnd(w)
  \/ SendPiece(w) \/ SendFinish(w)

ClientFault ==
  \/ \E c \in Faulty : SourceMissing(c) \/ SourceUnreadable(c) \/ Kill(c)
  \/ \E k \in Conns : k[1] \in Faulty /\ (Cut(k) \/ Silence(k))
=============================================================================
