------------------------------- MODULE Server -------------------------------
(***************************************************************************)
(* server.cpp: the Acceptor, one Session for each client and one Thread    *)
(* for each of its transfer connections, on one io_context that a single   *)
(* thread runs.  An action is one completion handler, run to its end.  The *)
(* accept handler is split where it blocks: it reads the first message of  *)
(* the new connection synchronously, and until that message is there no    *)
(* other handler runs.                                                     *)
(*                                                                         *)
(* Session ids are 32 random bytes; two clients never get the same one and *)
(* no two clients write to the same path, so a client stands for both.     *)
(***************************************************************************)
EXTENDS Network, Integers

CONSTANTS
  SeekLimit,    \* first order whose byte offset the file system refuses
  Buffered,     \* clients whose pieces fit the buffer of an ofstream
  ServerFaults  \* subset of {"disk", "accept"}

ASSUME ServerAssumption ==
  /\ SeekLimit \in Nat
  /\ Buffered \subseteq Clients
  /\ ServerFaults \subseteq {"disk", "accept"}

VARIABLES
  accepting, \* the connection whose first message the server blocks on
  children,  \* Acceptor::children, the sessions new threads can attach to
  s_list,    \* Acceptor::s_list, the sessions to look at when cleaning
  status,    \* status[c]: Session::status
  handler,   \* handler[c]: the completion handler the session waits for
  number,    \* number[c]: Session::number
  thread,    \* thread[w]: the completion handler the Thread waits for
  id,        \* id[w]: Thread::number
  file,      \* file[c]: the ofstream of the session's file_writer
  disk,      \* disk[c]: pieces that are whole and in place in the file
  damaged,   \* damaged[c]: places where a failed write left other bytes
  buf        \* buf[c]: pieces still in the buffer of the ofstream

sessionVars == <<status, handler, number>>
threadVars == <<thread, id>>
fileVars == <<file, disk, damaged, buf>>
registryVars == <<children, s_list>>
serverVars == <<accepting, registryVars, sessionVars, threadVars, fileVars>>

ServerTypeOK ==
  /\ accepting \in Conns \cup {None}
  /\ children \subseteq Clients
  /\ s_list \subseteq Clients
  /\ status \in [Clients -> {"NOTSET", "NEGOTIATED", "FINISHED"}]
  /\ handler \in [Clients ->
       {"none", "helloSent", "head", "body", "replied", "idle", "dead"}]
  /\ number \in [Clients -> Int]
  /\ thread \in [Workers -> {"none", "head", "body", "done", "dead"}]
  /\ id \in [Workers -> Int]
  /\ file \in [Clients -> {"none", "good", "bad", "closed"}]
  /\ disk \in [Clients -> SUBSET Nat]
  /\ damaged \in [Clients -> SUBSET Nat]
  /\ buf \in [Clients -> SUBSET Nat]

ServerInit ==
  /\ accepting = None
  /\ children = {}
  /\ s_list = {}
  /\ status = [c \in Clients |-> "NOTSET"]
  /\ handler = [c \in Clients |-> "none"]
  /\ number = [c \in Clients |-> 0]
  /\ thread = [w \in Workers |-> "none"]
  /\ id = [w \in Workers |-> 0]
  /\ file = [c \in Clients |-> "none"]
  /\ disk = [c \in Clients |-> {}]
  /\ damaged = [c \in Clients |-> {}]
  /\ buf = [c \in Clients |-> {}]

\* The one thread of the io_context is free to run a handler.
Free == listening /\ accepting = None

\* An exception leaves io_context::run and main(): the process terminates.
\* What the streams had not handed to the kernel is lost.
Terminate ==
  /\ listening' = FALSE
  /\ accepting' = None
  /\ backlog' = << >>
  /\ link' = [k \in Conns |-> IF link[k] \in {"open", "shut"} THEN "reset" ELSE link[k]]
  /\ up' = [k \in Conns |-> << >>]
  /\ buf' = [c \in Clients |-> {}]
  /\ UNCHANGED <<down, registryVars, sessionVars, threadVars, file, disk, damaged>>

\* The server closes its end of the connections S: what nobody read (queue
\* is what the handler leaves unread) is gone.
CloseSockets(S, queue) ==
  /\ link' = [k \in Conns |->
       IF k \in S /\ link[k] \in {"open", "shut"} THEN "reset" ELSE link[k]]
  /\ up' = [k \in Conns |-> IF k \in S THEN << >> ELSE queue[k]]
-----------------------------------------------------------------------------
(* Acceptor::do_accept and its accept handler                              *)

\* Sockets that go away with session c: its own, and those of its threads
\* that no longer wait for data (a waiting Thread keeps itself alive).
SocketsOf(c) ==
  {<<c, Main>>} \cup {w \in Workers : w[1] = c /\ thread[w] \in {"done", "dead"}}

\* A bug: every session that got past its negotiation is erased.
Clean_Negotiated(ch, sl, st, shut, queue) ==
  LET finished == {c \in sl : st[c] # "NOTSET"} IN
  /\ children' = ch \ finished
  /\ s_list' = sl \ finished
  /\ CloseSockets(shut \cup UNION {SocketsOf(c) : c \in finished}, queue)
  /\ accepting' = None

\* A bug: s_list is not replaced by the list without the finished sessions.
Clean_KeepsList(ch, sl, st, shut, queue) ==
  LET finished == {c \in sl : st[c] = "FINISHED"} IN
  /\ children' = ch \ finished
  /\ s_list' = sl
  /\ CloseSockets(shut \cup UNION {SocketsOf(c) : c \in finished}, queue)
  /\ accepting' = None

\* do_accept() first erases the FINISHED sessions.  ch, sl and st are the
\* registry and the statuses the handler leaves behind, shut the sockets it
\* closed itself, queue what is left unread.
Clean(ch, sl, st, shut, queue) ==
  LET finished == {c \in sl : st[c] = "FINISHED"} IN
  /\ children' = ch \ finished
  /\ s_list' = sl \ finished
  /\ CloseSockets(shut \cup UNION {SocketsOf(c) : c \in finished}, queue)
  /\ accepting' = None

Unread(k) == [up EXCEPT ![k] = Tail(@)]

\* The completion of the negotiation reply was queued before the client
\* could know the reply and open a transfer connection: it runs first.
AcceptConnection ==
  /\ Free
  /\ backlog # << >>
  /\ handler[Head(backlog)[1]] # "replied"
  /\ accepting' = Head(backlog)
  /\ backlog' = Tail(backlog)
  /\ UNCHANGED <<listening, link, up, down, registryVars, sessionVars,
                 threadVars, fileVars>>

\* async_accept reports an error, out of file descriptors for one.
AcceptError ==
  /\ "accept" \in ServerFaults
  /\ Free
  /\ Clean(children, s_list, status, {}, up)
  /\ UNCHANGED <<listening, backlog, down, sessionVars, threadVars, fileVars>>

\* A bug: at the end of the stream the handler tries to read again.
AcceptNothing_Retries ==
  /\ listening /\ accepting # None
  /\ link[accepting] = "cut"
  /\ Clean(children, s_list, status, {accepting}, up)
  /\ UNCHANGED <<listening, backlog, down, sessionVars, threadVars, fileVars>>

\* read_msg_guess cannot read a message: type -1.
AcceptNothing ==
  /\ listening /\ accepting # None
  /\ Broken(accepting)
  /\ Clean(children, s_list, status, {accepting}, up)
  /\ UNCHANGED <<listening, backlog, down, sessionVars, threadVars, fileVars>>

Incoming(type) ==
  listening /\ accepting # None /\ Readable(accepting)
    /\ Head(up[accepting]).type = type

\* server_hello_verify: decrypting with another key nearly always throws;
\* when the garbage passes for a message, its header is wrong.
Thrown == 3
\* A bug: the version is not compared.
HelloVerify_AnyVersion(m) == IF ~m.sameKey THEN {Thrown, 1} ELSE {0}

HelloVerify(m) ==
  IF ~m.sameKey THEN {Thrown, 1} ELSE IF ~m.sameVersion THEN {2} ELSE {0}

\* Session::Session and Session::step1.
OpenSession ==
  LET c == accepting[1] IN
  /\ Incoming("hello")
  /\ \E result \in HelloVerify(Head(up[accepting])) :
       \/ result = Thrown /\ Terminate
       \/ /\ result = 0
          /\ Clean(children \cup {c}, s_list \cup {c}, status, {}, Unread(accepting))
          /\ down' = IF link[accepting] = "open"
                       THEN [down EXCEPT ![c] = Append(@, 0)] ELSE down
          /\ handler' = [handler EXCEPT ![c] = "helloSent"]
          /\ UNCHANGED <<listening, backlog, status, number, threadVars, fileVars>>
       \/ /\ result \in {1, 2}
          /\ status' = [status EXCEPT ![c] = "FINISHED"]
          /\ Clean(children \cup {c}, s_list \cup {c}, status', {}, Unread(accepting))
          /\ UNCHANGED <<listening, backlog, down, handler, number, threadVars, fileVars>>

\* A bug: the new thread is not counted.
AttachThread_NoCount ==
  LET c == accepting[1] IN
  /\ Incoming("init")
  /\ c \in children
  /\ thread' = [thread EXCEPT ![accepting] = "head"]
  /\ id' = [id EXCEPT ![accepting] = number[c]]
  /\ Clean(children, s_list, status, {}, Unread(accepting))
  /\ UNCHANGED <<listening, backlog, down, sessionVars, fileVars>>

\* A bug: the init message stays on the connection.
AttachThread_KeepsInit ==
  LET c == accepting[1] IN
  /\ Incoming("init")
  /\ c \in children
  /\ thread' = [thread EXCEPT ![accepting] = "head"]
  /\ id' = [id EXCEPT ![accepting] = number[c]]
  /\ number' = [number EXCEPT ![c] = @ + 1]
  /\ Clean(children, s_list, status, {}, up)
  /\ UNCHANGED <<listening, backlog, down, status, handler, fileVars>>

\* Session::attach_thread.
AttachThread ==
  LET c == accepting[1] IN
  /\ Incoming("init")
  /\ c \in children
  /\ thread' = [thread EXCEPT ![accepting] = "head"]
  /\ id' = [id EXCEPT ![accepting] = number[c]]
  /\ number' = [number EXCEPT ![c] = @ + 1]
  /\ Clean(children, s_list, status, {}, Unread(accepting))
  /\ UNCHANGED <<listening, backlog, down, status, handler, fileVars>>

\* The session is not known (any more).
RejectThread ==
  /\ Incoming("init")
  /\ accepting[1] \notin children
  /\ Clean(children, s_list, status, {accepting}, up)
  /\ UNCHANGED <<listening, backlog, down, sessionVars, threadVars, fileVars>>
-----------------------------------------------------------------------------
(* Session::step2, step3, step4 of session c                               *)

Handle(c, from, to) ==
  /\ Free /\ handler[c] = from
  /\ handler' = [handler EXCEPT ![c] = to]

\* The client hello is written (or is not): step2.
HelloSent(c) ==
  /\ \/ Handle(c, "helloSent", "head")
     \/ Handle(c, "helloSent", "dead") /\ link[<<c, Main>>] = "cut"
  /\ UNCHANGED <<netVars, accepting, registryVars, status, number, threadVars, fileVars>>

\* The head of the file negotiation is read: step3.
ReadNegotiationHead(c) ==
  /\ Handle(c, "head", "body")
  /\ Readable(<<c, Main>>)
  /\ UNCHANGED <<netVars, accepting, registryVars, status, number, threadVars, fileVars>>

\* A bug: the reply is sent before the result of opening the file is known.
OpenFile_SaysOk(c) ==
  /\ Handle(c, "body", "replied")
  /\ Readable(<<c, Main>>)
  /\ \E result \in {0} \cup (IF "disk" \in ServerFaults THEN {1} ELSE {}) :
       /\ file' = [file EXCEPT ![c] = IF result = 0 THEN "good" ELSE "none"]
       /\ status' = [status EXCEPT ![c] = IF result = 0 THEN @ ELSE "FINISHED"]
       /\ down' = IF link[<<c, Main>>] = "open"
                    THEN [down EXCEPT ![c] = Append(@, 0)] ELSE down
  /\ disk' = [disk EXCEPT ![c] = {}]
  /\ up' = Unread(<<c, Main>>)
  /\ UNCHANGED <<listening, backlog, link, accepting, registryVars, number,
                 threadVars, damaged, buf>>

\* Its body is read: step4 opens (and truncates) the file and replies.
OpenFile(c) ==
  /\ Handle(c, "body", "replied")
  /\ Readable(<<c, Main>>)
  /\ \E result \in {0} \cup (IF "disk" \in ServerFaults THEN {1} ELSE {}) :
       /\ file' = [file EXCEPT ![c] = IF result = 0 THEN "good" ELSE "none"]
       /\ status' = [status EXCEPT ![c] = IF result = 0 THEN @ ELSE "FINISHED"]
       /\ down' = IF link[<<c, Main>>] = "open"
                    THEN [down EXCEPT ![c] = Append(@, result)] ELSE down
  /\ disk' = [disk EXCEPT ![c] = {}]
  /\ up' = Unread(<<c, Main>>)
  /\ UNCHANGED <<listening, backlog, link, accepting, registryVars, number,
                 threadVars, damaged, buf>>

\* The reply is written.  The handler holds no reference to the session: if
\* an accept erased it meanwhile this is a write to freed memory.
NegotiationSent(c) ==
  /\ Handle(c, "replied", "idle")
  /\ \/ status' = [status EXCEPT ![c] = "NEGOTIATED"]
     \/ link[<<c, Main>>] = "cut" /\ UNCHANGED status
  /\ UNCHANGED <<netVars, accepting, registryVars, number, threadVars, fileVars>>

\* A read of the session fails: nothing is done, the session stays.
SessionReadError(c) ==
  /\ Handle(c, "head", "dead") \/ Handle(c, "body", "dead")
  /\ Broken(<<c, Main>>)
  /\ UNCHANGED <<netVars, accepting, registryVars, status, number, threadVars, fileVars>>
-----------------------------------------------------------------------------
(* Thread::_read_head, _read_body, _write_file of thread w                 *)

Advance(w, from, to) ==
  /\ Free /\ thread[w] = from
  /\ thread' = [thread EXCEPT ![w] = to]

ReadHead(w) ==
  /\ Advance(w, "head", "body")
  /\ Readable(w)
  /\ UNCHANGED <<netVars, accepting, registryVars, sessionVars, id, fileVars>>

Marker(m) == m.order = 0 /\ m.size = 0

\* A bug: the buffered piece is not flushed before the seek.
Store_NoFlush(c, m) ==
  /\ UNCHANGED damaged
  /\ disk' = [disk EXCEPT ![c] = @ \cup (IF c \in Buffered \/ m.size = 0 THEN {} ELSE {m.order})]
  /\ buf' = [buf EXCEPT ![c] = IF c \in Buffered /\ m.size # 0 THEN {m.order} ELSE {}]
  /\ file' = [file EXCEPT ![c] = IF m.order < SeekLimit THEN "good" ELSE "bad"]

\* file_writer::write on an open and healthy stream: seekp, which hands the
\* buffered piece to the kernel first, then write.  A seek or write that
\* fails is noticed by nobody and makes the stream ignore every later call.
\* The kernel may have taken a part of the piece it refused; the buffer keeps
\* all of it, although the descriptor has moved then.
Store(c, m) ==
  LET piece == IF m.size = 0 THEN {} ELSE {m.order} IN
  \/ /\ m.order < SeekLimit
     /\ disk' = [disk EXCEPT ![c] = @ \cup buf[c] \cup (IF c \in Buffered THEN {} ELSE piece)]
     /\ buf' = [buf EXCEPT ![c] = IF c \in Buffered THEN piece ELSE {}]
     /\ UNCHANGED <<file, damaged>>
  \/ /\ m.order >= SeekLimit
     /\ disk' = [disk EXCEPT ![c] = @ \cup buf[c]]
     /\ buf' = [buf EXCEPT ![c] = {}]
     /\ file' = [file EXCEPT ![c] = "bad"]
     /\ UNCHANGED damaged
  \/ /\ "disk" \in ServerFaults
     /\ LET refused == IF c \in Buffered THEN buf[c] ELSE piece IN
          /\ refused # {}
          /\ damaged' \in {damaged, [damaged EXCEPT ![c] = @ \cup refused]}
     /\ file' = [file EXCEPT ![c] = "bad"]
     /\ UNCHANGED <<disk, buf>>

\* A bug: is_open() is not asked.
WriteFile_EvenClosed(w) ==
  LET c == w[1] IN
  /\ Advance(w, "body", "head")
  /\ Readable(w) /\ ~Marker(Head(up[w]))
  /\ up' = Unread(w)
  /\ IF file[c] # "bad" THEN Store(c, Head(up[w])) ELSE UNCHANGED fileVars
  /\ UNCHANGED <<listening, backlog, link, down, accepting, registryVars, sessionVars, id>>

\* A bug: nothing is read any more after a write that failed.
WriteFile_Stops(w) ==
  LET c == w[1] IN
  /\ thread[w] = "body"
  /\ Readable(w) /\ ~Marker(Head(up[w]))
  /\ up' = Unread(w)
  /\ IF file[c] = "good" THEN Store(c, Head(up[w])) ELSE UNCHANGED fileVars
  /\ Advance(w, "body", IF file'[c] = "bad" THEN "done" ELSE "head")
  /\ UNCHANGED <<listening, backlog, link, down, accepting, registryVars, sessionVars, id>>

WriteFile(w) ==
  LET c == w[1] IN
  /\ Advance(w, "body", "head")
  /\ Readable(w) /\ ~Marker(Head(up[w]))
  /\ up' = Unread(w)
  /\ IF file[c] = "good" THEN Store(c, Head(up[w])) ELSE UNCHANGED fileVars
  /\ UNCHANGED <<listening, backlog, link, down, accepting, registryVars, sessionVars, id>>

\* A bug: close without flush.
CloseFile_NoFlush(c) ==
  /\ file' = [file EXCEPT ![c] = "closed"]
  /\ buf' = [buf EXCEPT ![c] = {}]
  /\ UNCHANGED <<disk, damaged>>

\* A part of the buffered piece is in the file, so the descriptor is behind it.
Moved(c) == buf[c] \cap damaged[c] # {}

\* Where the bytes of the places S end up when the descriptor has moved by less
\* than a piece: at the rest of their places and the start of the next ones.
Astray(S) == S \cup {p + 1 : p \in S}

\* Places that the flush of close may damage.  It is tried twice, by flush() and
\* by close(), each time with the whole buffer and behind what the one before
\* got written of it.
Misplaced(c) ==
  {{}, buf[c], Astray(buf[c])} \cup (IF Moved(c) THEN {Astray(Astray(buf[c]))} ELSE {})

\* file_writer::close: flush, then close, whatever the stream's state is.
CloseFile(c) ==
  /\ file' = [file EXCEPT ![c] = "closed"]
  /\ buf' = [buf EXCEPT ![c] = {}]
  /\ \/ /\ ~Moved(c)
        /\ disk' = [disk EXCEPT ![c] = @ \cup buf[c]]
        /\ UNCHANGED damaged
     \/ /\ "disk" \in ServerFaults
        /\ \E D \in Misplaced(c) :
             /\ disk' = [disk EXCEPT ![c] = @ \ D]
             /\ damaged' = [damaged EXCEPT ![c] = @ \cup D]

\* The session of a Thread's weak_ptr lives as long as it is registered.
Expired(w) == w[1] \notin children

\* A bug: the count is compared before it is decreased, and off by one.
FinishThread_OneEarly(w) ==
  LET c == w[1] IN
  /\ Advance(w, "body", "done")
  /\ Readable(w) /\ Marker(Head(up[w])) /\ ~Expired(w)
  /\ up' = Unread(w)
  /\ number' = [number EXCEPT ![c] = @ - 1]
  /\ IF number[c] <= 2
       THEN status' = [status EXCEPT ![c] = "FINISHED"] /\ CloseFile(c)
       ELSE UNCHANGED <<status, fileVars>>
  /\ UNCHANGED <<listening, backlog, link, down, accepting, registryVars, handler, id>>

\* Session::finish_thread.
FinishThread(w) ==
  LET c == w[1] IN
  /\ Advance(w, "body", "done")
  /\ Readable(w) /\ Marker(Head(up[w])) /\ ~Expired(w)
  /\ up' = Unread(w)
  /\ number' = [number EXCEPT ![c] = @ - 1]
  /\ IF number[c] = 1
       THEN status' = [status EXCEPT ![c] = "FINISHED"] /\ CloseFile(c)
       ELSE UNCHANGED <<status, fileVars>>
  /\ UNCHANGED <<listening, backlog, link, down, accepting, registryVars, handler, id>>

\* The shared_ptr of an expired weak_ptr: bad_weak_ptr is thrown.
FinishOrphan(w) ==
  /\ Free /\ thread[w] = "body"
  /\ Readable(w) /\ Marker(Head(up[w])) /\ Expired(w)
  /\ Terminate

\* A read of the thread fails: the session is not told.
ThreadReadError(w) ==
  /\ Advance(w, "head", "dead") \/ Advance(w, "body", "dead")
  /\ Broken(w)
  /\ UNCHANGED <<netVars, accepting, registryVars, sessionVars, id, fileVars>>
-----------------------------------------------------------------------------
AcceptStep ==
  \/ AcceptConnection \/ AcceptNothing
  \/ OpenSession \/ AttachThread \/ RejectThread

SessionStep(c) ==
  \/ HelloSent(c) \/ ReadNegotiationHead(c) \/ OpenFile(c)
  \/ NegotiationSent(c) \/ SessionReadError(c)

ThreadStep(w) ==
  \/ ReadHead(w) \/ WriteFile(w)
  \/ FinishThread(w) \/ FinishOrphan(w) \/ ThreadReadError(w)
=============================================================================
