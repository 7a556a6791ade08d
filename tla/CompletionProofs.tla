-------------------------- MODULE CompletionProofs --------------------------
(***************************************************************************)
(* The theorem that says what the uploader is for: when the last of all    *)
(* the workers of a client finishes, the file on the server is the whole   *)
(* source file, for any clients, threads, files and interleavings; and     *)
(* theorems about uploads with one worker thread (-t 1), for any number of *)
(* clients: the session is there when its only thread finishes, and a      *)
(* session that is FINISHED has the whole file.  With more threads neither *)
(* of these holds: the first thread to finish may close the session on the *)
(* others.                                                                 *)
(***************************************************************************)
EXTENDS PieceProofs

\* A worker that sent, or is about to send, an empty packet.
Left == {"finishing", "done"}
Leaving(w) == wk[w] \in Left \/ (wk[w] = "sending" /\ hold[w].size = 0)

\* Workers leave at the end of the source, which is after its last piece.
AtEnd(c) ==
  /\ ~ok[c] => eof[c]
  /\ eof[c] => next[c] >= NumPieces
  /\ \A t \in Threads : Leaving(<<c, t>>) => eof[c]

\* Nothing but empty packets follows an empty packet, or the finish packet
\* that the Thread read.
Empty(m) == m.type = "data" /\ m.size = 0
Ends(w) ==
  /\ \A i \in DOMAIN up[w] : Empty(up[w][i]) =>
       wk[w] \in Left /\ \A j \in DOMAIN up[w] : j >= i => Empty(up[w][j])
  /\ thread[w] = "done" => wk[w] \in Left /\ \A i \in DOMAIN up[w] : Empty(up[w][i])

\* A connection with messages is not lost; that of a worker which is not
\* done yet is closed by the server or the network only.
Linked(w) ==
  /\ up[w] # << >> => link[w] \in {"open", "shut", "silent"}
  /\ wk[w] \in {"off", "start"} => link[w] = "idle"
  /\ (wk[w] \in {"connected", "reading", "sending", "finishing"} /\ cl[w[1]] = "transfer")
       => link[w] \in {"open", "reset", "cut", "silent"}

\* The server gets nothing more from w, or only what w sent before its last
\* piece.
Gone(w) ==
  \/ link[w] \in {"reset", "cut"}
  \/ link[w] = "silent" /\ \A i \in DOMAIN up[w] : ~Empty(up[w][i])

\* The upload of c cannot be completed any more.
Lost(c) ==
  \/ ~listening
  \/ file[c] \in {"bad", "closed"}
  \/ \E t \in Threads : Gone(<<c, t>>) /\ thread[<<c, t>>] # "done"

\* A piece that was read is on its way or on the server, or c is lost.
Somewhere(c, p) ==
  \/ \E t \in Threads : Holds(c, t, p) \/ \E i \in Index : On(c, t, i, p)
  \/ p \in buf[c] \cup disk[c]
Kept(c) == \A p \in Pieces : p < next[c] => Lost(c) \/ Somewhere(c, p)

Unbuffered == \A c \in Clients \ Buffered : buf[c] = {}

Flows ==
  /\ \A c \in Clients : AtEnd(c)
  /\ \A w \in Workers : Ends(w) /\ Linked(w)
-----------------------------------------------------------------------------
(* What the server does to the connection of a worker                      *)

\* Messages of w stay; or are gone with the connection; or the first is read.
Untouched(w) == up'[w] = up[w] /\ link'[w] = link[w]
Dropped(w) ==
  /\ up'[w] = << >>
  /\ link'[w] = IF link[w] \in {"open", "shut"} THEN "reset" ELSE link[w]
Shifted(w) == up[w] # << >> /\ up'[w] = Tail(up[w]) /\ link'[w] = link[w]

LEMMA CloseSocketsOn ==
  ASSUME Typed, NEW S, NEW queue \in [Conns -> Seq(Messages)], CloseSockets(S, queue),
         NEW w \in Workers
  PROVE  Dropped(w) \/ (up'[w] = queue[w] /\ link'[w] = link[w])
  BY WorkerIsConn DEF CloseSockets, Dropped

LEMMA AcceptOnWorker ==
  ASSUME Typed, AcceptStep \/ AcceptError, NEW w \in Workers
  PROVE  /\ \/ Untouched(w) \/ Dropped(w)
            \/ Shifted(w) /\ Head(up[w]).type = "init"
         /\ thread'[w] = "done" => thread[w] = "done"
<1>t. /\ up \in [Conns -> Seq(Messages)] /\ link \in [Conns -> LinkStates] /\ w \in Conns
      /\ thread \in [Workers -> {"none", "head", "body", "done", "dead"}]
  BY WorkerIsConn DEF Typed, TypeOK, NetTypeOK, ServerTypeOK
<1>1. CASE AcceptConnection
  BY <1>1 DEF AcceptConnection, Untouched, threadVars
<1>2. CASE AcceptError \/ AcceptNothing \/ RejectThread
  <2>1. \E S : CloseSockets(S, up)
    BY <1>2 DEF AcceptError, AcceptNothing, RejectThread, Clean
  <2>2. UNCHANGED thread
    BY <1>2 DEF AcceptError, AcceptNothing, RejectThread, threadVars
  <2> QED
    BY <1>t, <2>1, <2>2, CloseSocketsOn DEF Untouched
<1>3. CASE AttachThread
  <2>1. PICK S : CloseSockets(S, Unread(accepting))
    BY <1>3 DEF AttachThread, Clean
  <2>2. accepting \in Workers /\ up[accepting] # << >> /\ Head(up[accepting]).type = "init"
    BY <1>3, IncomingKind, WorkerIsConn DEF AttachThread, Typed, Incoming, Workers, Conns
  <2>3. Readable(accepting) /\ accepting \in Conns
    BY <1>3, <2>2, WorkerIsConn DEF AttachThread, Incoming
  <2>4. Unread(accepting) \in [Conns -> Seq(Messages)]
    BY <2>3, UnreadType DEF Typed, TypeOK
  <2>5. Unread(accepting)[w] = IF w = accepting THEN Tail(up[w]) ELSE up[w]
    BY <1>t, <2>3 DEF Unread
  <2>6. thread'[w] = "done" => thread[w] = "done"
    BY <1>3, <1>t DEF AttachThread
  <2>7. Dropped(w) \/ (up'[w] = Unread(accepting)[w] /\ link'[w] = link[w])
    BY <2>1, <2>4, CloseSocketsOn
  <2> QED
    BY <2>2, <2>5, <2>6, <2>7 DEF Untouched, Shifted
<1>4. CASE OpenSession
  <2>t. UNCHANGED thread
    BY <1>4 DEF OpenSession, Terminate, threadVars
  <2>1. CASE Terminate
    BY <1>t, <2>1, <2>t DEF Terminate, Dropped
  <2>2. CASE ~Terminate
    <3>1. PICK S : CloseSockets(S, Unread(accepting))
      BY <1>4, <2>2 DEF OpenSession, Clean
    <3>2. accepting \in Conns /\ accepting \notin Workers /\ Readable(accepting)
      BY <1>4, IncomingKind DEF OpenSession, Typed, Incoming
    <3>3. Unread(accepting) \in [Conns -> Seq(Messages)] /\ Unread(accepting)[w] = up[w]
      BY <1>t, <3>2, UnreadType DEF Typed, TypeOK, Unread
    <3> QED
      BY <2>t, <3>1, <3>3, CloseSocketsOn DEF Untouched
  <2> QED
    BY <2>1, <2>2
<1> QED
  BY <1>1, <1>2, <1>3, <1>4 DEF AcceptStep

LEMMA ThreadOnWorker ==
  ASSUME Typed, NEW v \in Workers, ThreadStep(v), NEW w \in Workers
  PROVE  /\ \/ (Untouched(w) \/ Dropped(w)) /\ (thread'[w] = "done" => thread[w] = "done")
            \/ Shifted(w) /\ v = w /\ (WriteFile(w) \/ FinishThread(w))
         /\ thread'[w] = "done" => thread[w] = "done" \/ (v = w /\ FinishThread(w))
<1>t. /\ up \in [Conns -> Seq(Messages)] /\ link \in [Conns -> LinkStates]
      /\ w \in Conns /\ v \in Conns
      /\ thread \in [Workers -> {"none", "head", "body", "done", "dead"}]
  BY WorkerIsConn DEF Typed, TypeOK, NetTypeOK, ServerTypeOK
<1>1. CASE ReadHead(v) \/ ThreadReadError(v)
  BY <1>1, <1>t DEF ReadHead, ThreadReadError, Advance, netVars, Untouched
<1>2. CASE FinishOrphan(v)
  BY <1>2, <1>t DEF FinishOrphan, Terminate, threadVars, Dropped
<1>3. CASE WriteFile(v)
  BY <1>3, <1>t DEF WriteFile, Advance, Unread, Readable, Untouched, Shifted
<1>4. CASE FinishThread(v)
  BY <1>4, <1>t DEF FinishThread, Advance, Unread, Readable, Untouched, Shifted
<1> QED
  BY <1>1, <1>2, <1>3, <1>4 DEF ThreadStep

LEMMA SessionOnWorker ==
  ASSUME Typed, NEW c \in Clients, SessionStep(c), NEW w \in Workers
  PROVE  Untouched(w) /\ UNCHANGED thread
<1>t. /\ up \in [Conns -> Seq(Messages)] /\ w \in Conns /\ w # <<c, Main>>
  BY WorkerIsConn DEF Typed, TypeOK, NetTypeOK
<1> QED
  BY <1>t DEF SessionStep, HelloSent, ReadNegotiationHead, OpenFile, NegotiationSent,
       SessionReadError, netVars, threadVars, Unread, Untouched

LEMMA ServerOnWorker ==
  ASSUME Typed, ServerNext, NEW w \in Workers
  PROVE  /\ \/ (Untouched(w) \/ Dropped(w)) /\ (thread'[w] = "done" => thread[w] = "done")
            \/ Shifted(w) /\ (WriteFile(w) \/ FinishThread(w) \/ Head(up[w]).type = "init")
         /\ thread'[w] = "done" => thread[w] = "done" \/ FinishThread(w)
<1>1. CASE AcceptStep \/ AcceptError
  BY <1>1, AcceptOnWorker
<1>2. CASE \E c \in Clients : SessionStep(c)
  BY <1>2, SessionOnWorker
<1>3. CASE \E v \in Workers : ThreadStep(v)
  BY <1>3, ThreadOnWorker
<1> QED
  BY <1>1, <1>2, <1>3 DEF ServerNext
-----------------------------------------------------------------------------
(* Empty packets and connections under steps of the server                 *)

\* The packet that finish_thread was called for.
LEMMA FinishReadsEmpty ==
  ASSUME Typed, \A v \in Workers : OwnPieces(v), NEW w \in Workers, FinishThread(w)
  PROVE  1 \in DOMAIN up[w] /\ Empty(up[w][1]) /\ up[w] # << >> /\ Head(up[w]) = up[w][1]
<1>1. Readable(w) /\ Marker(Head(up[w])) /\ thread[w] # "none" /\ up[w] # << >>
  BY DEF FinishThread, Advance, Readable
<1>2. Head(up[w]) = DataMsg(w[1], Head(up[w]).order, Head(up[w]).size)
  BY <1>1, HeadIsOwn
<1>3. Head(up[w]).type = "data" /\ Head(up[w]).size = 0
  BY <1>1, <1>2 DEF Marker, DataMsg
<1>4. up[w] \in Seq(Messages)
  BY WorkerIsConn DEF Typed, TypeOK, NetTypeOK
<1>5. 1 \in DOMAIN up[w] /\ Head(up[w]) = up[w][1]
  BY <1>1, <1>4
<1> QED
  BY <1>1, <1>3, <1>5 DEF Empty

LEMMA ServerKeepsEnds ==
  ASSUME Typed, \A v \in Workers : OwnPieces(v), ServerNext, NEW w \in Workers, Ends(w)
  PROVE  Ends(w)'
<1>u. wk' = wk
  BY DEF ServerNext, clientVars
<1>d. up[w] \in Seq(Messages) /\ \A i \in DOMAIN up[w] : i \in Nat /\ i >= 1
  BY WorkerIsConn DEF Typed, TypeOK, NetTypeOK
<1>1. CASE thread'[w] = "done" => thread[w] = "done"
  <2>1. CASE up'[w] \in {up[w], << >>}
    BY <1>1, <1>u, <2>1 DEF Ends
  <2>2. CASE Shifted(w)
    <3>1. \A i \in DOMAIN up'[w] : i \in Nat /\ i + 1 \in DOMAIN up[w] /\ up'[w][i] = up[w][i + 1]
      BY <1>d, <2>2, TailEntries DEF Shifted
    <3>2. ASSUME NEW i \in DOMAIN up'[w], Empty(up'[w][i])
          PROVE  wk[w] \in Left /\ \A j \in DOMAIN up'[w] : j >= i => Empty(up'[w][j])
      <4>1. i + 1 \in DOMAIN up[w] /\ Empty(up[w][i + 1])
        BY <3>1, <3>2
      <4>2. wk[w] \in Left /\ \A j \in DOMAIN up[w] : j >= i + 1 => Empty(up[w][j])
        BY <4>1 DEF Ends
      <4>3. \A j \in DOMAIN up'[w] : j >= i => j + 1 >= i + 1
        BY <3>1
      <4> QED
        BY <3>1, <4>2, <4>3
    <3>3. thread[w] = "done" => \A i \in DOMAIN up'[w] : Empty(up'[w][i])
      BY <3>1 DEF Ends
    <3> QED
      BY <1>1, <1>u, <3>2, <3>3 DEF Ends
  <2> QED
    BY <2>1, <2>2, ServerOnWorker DEF Untouched, Dropped
<1>2. CASE FinishThread(w)
  <2>1. 1 \in DOMAIN up[w] /\ Empty(up[w][1]) /\ up[w] # << >>
    BY <1>2, FinishReadsEmpty
  <2>2. wk[w] \in Left /\ \A i \in DOMAIN up[w] : Empty(up[w][i])
    BY <1>d, <2>1 DEF Ends
  <2>3. up'[w] = Tail(up[w])
    BY <1>2, ThreadReads
  <2>4. \A i \in DOMAIN up'[w] : i + 1 \in DOMAIN up[w] /\ up'[w][i] = up[w][i + 1]
    BY <2>1, <2>3, TailEntries
  <2> QED
    BY <1>u, <2>2, <2>4 DEF Ends
<1> QED
  BY <1>1, <1>2, ServerOnWorker

LEMMA ServerKeepsLinked ==
  ASSUME Typed, ServerNext, NEW w \in Workers, Linked(w)
  PROVE  Linked(w)'
<1>1. wk' = wk /\ cl' = cl
  BY DEF ServerNext, clientVars
<1>2. Untouched(w) \/ Dropped(w) \/ Shifted(w)
  BY ServerOnWorker
<1> QED
  BY <1>1, <1>2 DEF Linked, Untouched, Dropped, Shifted
-----------------------------------------------------------------------------
(* Steps of the client                                                     *)

LEMMA MainOnWorker ==
  ASSUME Typed, \/ \E c \in Clients : ClientStep(c)
                \/ ClientFault,
         NEW w \in Workers
  PROVE  /\ wk'[w] = wk[w] \/ (wk[w] = "off" /\ wk'[w] = "start")
         /\ \/ up'[w] = up[w] /\ (link'[w] = link[w] \/ (link[w] = "open" /\ link'[w] \in {"shut", "silent"}))
            \/ up'[w] = << >> /\ link'[w] = "cut" /\ link[w] \in {"open", "shut", "silent"}
         /\ link'[w] = "shut" => link[w] = "shut" \/ cl'[w[1]] # "transfer"
         /\ cl'[w[1]] = "transfer" => cl[w[1]] = "transfer" \/ wk'[w] = "start"
<1>t. /\ up \in [Conns -> Seq(Messages)] /\ link \in [Conns -> LinkStates] /\ w \in Conns
      /\ cl \in [Clients -> ClientStates] /\ wk \in [Workers -> WorkerStates]
      /\ w[1] \in Clients /\ \A c \in Clients : <<c, Main>> \in Conns /\ w # <<c, Main>>
  BY WorkerIsConn, MainIsConn DEF Typed, TypeOK, NetTypeOK, ClientTypeOK
<1>s. ASSUME NEW S, Shut(S), w \notin S PROVE link'[w] = link[w]
  BY <1>t, <1>s DEF Shut
<1>n. "cut" # "shut" /\ "transfer" \notin Ended
  BY DEF Ended
<1>1. ASSUME NEW c \in Clients, ClientStep(c)
      PROVE  /\ up'[w] = up[w] /\ link'[w] = link[w]
             /\ wk'[w] = wk[w] \/ (wk[w] = "off" /\ wk'[w] = "start")
             /\ cl'[w[1]] = "transfer" => cl[w[1]] = "transfer" \/ wk'[w] = "start"
  <2>1. CASE ClientConnect(c)
    BY <1>t, <2>1 DEF ClientConnect, Connect
  <2>2. CASE ConnectRefused(c) \/ WriteThrows(c)
    BY <1>t, <2>2 DEF ConnectRefused, WriteThrows, netVars
  <2>3. CASE SendHello(c) \/ SendNegotiation(c)
    <3>1. PICK m \in Messages : Transmit(<<c, Main>>, m)
      BY <2>3, MessageTypes DEF SendHello, SendNegotiation
    <3>2. up'[w] = up[w]
      BY <1>t, <3>1, TransmitEffect DEF Typed
    <3> QED
      BY <1>t, <2>3, <3>2 DEF SendHello, SendNegotiation
  <2>4. CASE StartTransfer(c)
    <3>1. /\ cl[c] = "negotiating" /\ cl' = [cl EXCEPT ![c] = "transfer"]
          /\ wk' = [v \in Workers |-> IF v[1] = c THEN "start" ELSE wk[v]]
          /\ UNCHANGED <<up, link>>
      BY <2>4 DEF StartTransfer
    <3>2. w[1] = c => wk[w] = "off"
      BY <3>1 DEF Typed, WorkersWait, Started, Ended
    <3> QED
      BY <1>t, <3>1, <3>2
  <2>5. CASE GiveUp(c) \/ JoinThreads(c)
    BY <1>t, <1>s, <2>5 DEF GiveUp, JoinThreads
  <2> QED
    BY <1>1, <2>1, <2>2, <2>3, <2>4, <2>5 DEF ClientStep
<1>2. ASSUME NEW c \in Clients, SourceMissing(c) \/ SourceUnreadable(c)
      PROVE  /\ up'[w] = up[w] /\ link'[w] = link[w] /\ wk' = wk
             /\ cl'[w[1]] = "transfer" => cl[w[1]] = "transfer"
  BY <1>t, <1>s, <1>2 DEF SourceMissing, SourceUnreadable, netVars
<1>3. ASSUME NEW c \in Clients, Kill(c)
      PROVE  /\ up'[w] = up[w] /\ wk' = wk
             /\ link'[w] = link[w] \/ (link[w] = "open" /\ link'[w] = "shut" /\ cl'[w[1]] = "killed")
             /\ cl'[w[1]] = "transfer" => cl[w[1]] = "transfer"
  BY <1>t, <1>3 DEF Kill, Shut
<1>4. ASSUME NEW k \in Conns, Cut(k) \/ Silence(k)
      PROVE  /\ wk' = wk /\ cl' = cl
             /\ \/ up'[w] = up[w] /\ link'[w] = link[w]
                \/ up'[w] = up[w] /\ link[w] = "open" /\ link'[w] = "silent"
                \/ up'[w] = << >> /\ link'[w] = "cut" /\ link[w] \in {"open", "shut", "silent"}
  BY <1>t, <1>4 DEF Cut, Silence, clientVars
<1>5. CASE \E c \in Clients : ClientStep(c)
  BY <1>1, <1>5
<1>6. CASE ClientFault
  <2>1. \/ \E c \in Clients : SourceMissing(c) \/ SourceUnreadable(c)
        \/ \E c \in Clients : Kill(c)
        \/ \E k \in Conns : Cut(k) \/ Silence(k)
    BY <1>6, ClientAssumption DEF ClientFault
  <2> QED
    BY <1>2, <1>3, <1>4, <1>n, <2>1
<1> QED
  BY <1>5, <1>6

\* What a step of worker w is to its own connection and state.
LEMMA WorkerOnWorker ==
  ASSUME Typed, NEW w \in Workers, WorkerStep(w)
  PROVE  /\ UNCHANGED cl /\ cl[w[1]] = "transfer" /\ UNCHANGED listening
         /\ \A v \in Workers : v # w => up'[v] = up[v] /\ link'[v] = link[v] /\ wk'[v] = wk[v]
         /\ WorkerConnect(w) =>
              UNCHANGED up /\ link'[w] = "open" /\ wk[w] = "start" /\ wk'[w] = "connected"
         /\ SendInit(w) => UNCHANGED link /\ wk[w] = "connected" /\ wk'[w] = "reading"
         /\ Takes(w) \/ ReadAtEnd(w) =>
              UNCHANGED <<up, link>> /\ wk[w] = "reading" /\ wk'[w] = "sending"
         /\ SendPiece(w) =>
              /\ UNCHANGED link /\ wk[w] = "sending"
              /\ wk'[w] = IF hold[w].size # 0 THEN "reading" ELSE "finishing"
         /\ SendFinish(w) =>
              /\ link'[w] = (IF link[w] = "open" THEN "shut" ELSE link[w])
              /\ wk[w] = "finishing" /\ wk'[w] = "done"
<1>t. /\ up \in [Conns -> Seq(Messages)] /\ link \in [Conns -> LinkStates] /\ w \in Conns
      /\ wk \in [Workers -> WorkerStates] /\ w[1] \in Clients
      /\ \A v \in Workers : v \in Conns
      /\ hold \in [Workers -> [order : Nat, size : {0, 1}]]
  BY WorkerIsConn DEF Typed, TypeOK, NetTypeOK, ClientTypeOK
<1>x. ASSUME NEW m \in Messages, Transmit(w, m), NEW v \in Workers, v # w PROVE up'[v] = up[v]
  BY <1>x, <1>t, TransmitEffect DEF Typed
<1> DEFINE frame ==
  /\ UNCHANGED cl /\ cl[w[1]] = "transfer" /\ UNCHANGED listening
  /\ \A v \in Workers : v # w => up'[v] = up[v] /\ link'[v] = link[v] /\ wk'[v] = wk[v]
<1>1. ASSUME WorkerConnect(w)
      PROVE  /\ frame
             /\ UNCHANGED up /\ link'[w] = "open" /\ wk[w] = "start" /\ wk'[w] = "connected"
  BY <1>1, <1>t DEF WorkerConnect, Connect, Running
<1>2. ASSUME SendInit(w)
      PROVE  frame /\ UNCHANGED link /\ wk[w] = "connected" /\ wk'[w] = "reading"
  <2>1. InitMsg(w[1]) \in Messages
    BY <1>t, MessageTypes
  <2> QED
    BY <1>2, <1>t, <1>x, <2>1 DEF SendInit, Running
<1>3. ASSUME Takes(w) \/ ReadAtEnd(w)
      PROVE  frame /\ UNCHANGED <<up, link>> /\ wk[w] = "reading" /\ wk'[w] = "sending"
  BY <1>3, <1>t DEF Takes, ReadFull, ReadRest, ReadAtEnd, Take, Running, netVars
<1>4. ASSUME SendPiece(w)
      PROVE  /\ frame /\ UNCHANGED link /\ wk[w] = "sending"
             /\ wk'[w] = IF hold[w].size # 0 THEN "reading" ELSE "finishing"
  <2>1. DataMsg(w[1], hold[w].order, hold[w].size) \in Messages
    BY <1>t, MessageTypes
  <2> QED
    BY <1>4, <1>t, <1>x, <2>1 DEF SendPiece, Running
<1>5. ASSUME SendFinish(w)
      PROVE  /\ frame /\ link'[w] = (IF link[w] = "open" THEN "shut" ELSE link[w])
             /\ wk[w] = "finishing" /\ wk'[w] = "done"
  <2>1. FinishMsg(w[1]) \in Messages
    BY <1>t, MessageTypes
  <2> QED
    BY <1>5, <1>t, <1>x, <2>1 DEF SendFinish, Running, Shut
<1>6. frame
  BY <1>1, <1>2, <1>3, <1>4, <1>5 DEF WorkerStep, Takes
<1> HIDE DEF frame
<1> QED
  BY <1>1, <1>2, <1>3, <1>4, <1>5, <1>6 DEF frame

\* A worker that sends: what was on its connection stays, the message follows.
LEMMA Appended ==
  ASSUME Typed, NEW w \in Workers, NEW m \in Messages, Transmit(w, m)
  PROVE  /\ \A i \in DOMAIN up[w] : i \in DOMAIN up'[w] /\ up'[w][i] = up[w][i]
         /\ \A i \in DOMAIN up'[w] : i \in DOMAIN up[w] \/
              (up'[w][i] = m /\ \A j \in DOMAIN up'[w] : j >= i => j = i)
         /\ link[w] = "open" => \E i \in DOMAIN up'[w] : i \in Index /\ up'[w][i] = m
         /\ up'[w] # up[w] => link[w] = "open"
<1>1. /\ link[w] # "open" => up'[w] = up[w]
      /\ link[w] = "open" =>
           /\ DOMAIN up'[w] = 1 .. Len(up[w]) + 1
           /\ \A i \in DOMAIN up[w] : up'[w][i] = up[w][i]
           /\ up'[w][Len(up[w]) + 1] = m
      /\ DOMAIN up[w] = 1 .. Len(up[w]) /\ Len(up[w]) \in Nat
  BY WorkerIsConn, TransmitEffect DEF Typed
<1> QED
  BY <1>1 DEF Index

LEMMA SendKeepsEnds ==
  ASSUME Typed, NEW w \in Workers, NEW m \in Messages, Transmit(w, m), UNCHANGED thread,
         Ends(w), wk[w] \in {"sending", "finishing"},
         wk[w] = "finishing" => wk'[w] \in Left,
         wk'[w] \in Left => Empty(m),
         Empty(m) => wk'[w] \in Left
  PROVE  Ends(w)'
<1>1. wk[w] = "sending" => thread[w] # "done" /\ \A i \in DOMAIN up[w] : ~Empty(up[w][i])
  BY DEF Ends, Left
<1>2. ASSUME NEW i \in DOMAIN up'[w], Empty(up'[w][i])
      PROVE  wk'[w] \in Left /\ \A j \in DOMAIN up'[w] : j >= i => Empty(up'[w][j])
  <2>1. CASE i \in DOMAIN up[w]
    BY <1>1, <1>2, <2>1, Appended DEF Ends
  <2>2. CASE i \notin DOMAIN up[w]
    BY <1>2, <2>2, Appended
  <2> QED
    BY <2>1, <2>2
<1>3. ASSUME thread'[w] = "done"
      PROVE  wk'[w] \in Left /\ \A i \in DOMAIN up'[w] : Empty(up'[w][i])
  BY <1>1, <1>3, Appended DEF Ends
<1> QED
  BY <1>2, <1>3 DEF Ends

LEMMA WorkerKeepsEnds ==
  ASSUME Typed, NEW w \in Workers, WorkerStep(w), UNCHANGED thread, NEW v \in Workers, Ends(v)
  PROVE  Ends(v)'
<1>t. w[1] \in Clients /\ hold[w].order \in Nat /\ hold[w].size \in {0, 1}
  BY WorkerIsConn DEF Typed, TypeOK, ClientTypeOK
<1>n. Left = {"finishing", "done"}
  BY DEF Left
<1>1. CASE v # w
  <2>1. up'[v] = up[v] /\ wk'[v] = wk[v]
    BY <1>1, WorkerOnWorker
  <2> QED
    BY <2>1 DEF Ends
<1>2. CASE v = w
  <2>1. CASE WorkerConnect(w) \/ Takes(w) \/ ReadAtEnd(w)
    <3>1. /\ wk[w] \in {"start", "reading"} /\ UNCHANGED up
      BY <2>1 DEF WorkerConnect, Takes, ReadFull, ReadRest, ReadAtEnd, Take, Running, netVars
    <3> QED
      BY <1>2, <1>n, <3>1 DEF Ends
  <2>2. CASE SendInit(w)
    <3>1. up[w] = << >> /\ thread[w] = "none"
      BY <2>2 DEF SendInit, Running, Typed, ChannelsInOrder, WorkerInOrder, Early
    <3>2. Transmit(w, InitMsg(w[1])) /\ InitMsg(w[1]) \in Messages
      BY <1>t, <2>2, MessageTypes DEF SendInit
    <3>3. \A i \in DOMAIN up'[w] : up'[w][i] = InitMsg(w[1])
      BY <3>1, <3>2, Appended
    <3>4. ~Empty(InitMsg(w[1]))
      BY DEF Empty, InitMsg
    <3> QED
      BY <1>2, <3>1, <3>3, <3>4 DEF Ends
  <2>3. CASE SendPiece(w)
    <3> DEFINE m == DataMsg(w[1], hold[w].order, hold[w].size)
    <3>1. /\ Transmit(w, m) /\ m \in Messages /\ wk[w] = "sending"
          /\ wk'[w] = IF hold[w].size # 0 THEN "reading" ELSE "finishing"
      BY <1>t, <2>3, MessageTypes, WorkerOnWorker DEF SendPiece, Running, Typed, TypeOK, ClientTypeOK
    <3>2. Empty(m) <=> hold[w].size = 0
      BY DEF Empty, DataMsg
    <3> HIDE DEF m
    <3> QED
      BY <1>2, <1>n, <3>1, <3>2, SendKeepsEnds
  <2>4. CASE SendFinish(w)
    <3>1. /\ Transmit(w, FinishMsg(w[1])) /\ FinishMsg(w[1]) \in Messages
          /\ wk[w] = "finishing" /\ wk'[w] = "done"
      BY <1>t, <2>4, MessageTypes DEF SendFinish, Running, Typed, TypeOK, ClientTypeOK
    <3>2. Empty(FinishMsg(w[1]))
      BY DEF Empty, FinishMsg, DataMsg
    <3> QED
      BY <1>2, <1>n, <3>1, <3>2, SendKeepsEnds
  <2> QED
    BY <2>1, <2>2, <2>3, <2>4 DEF WorkerStep, Takes
<1> QED
  BY <1>1, <1>2

LEMMA WorkerKeepsLinked ==
  ASSUME Typed, NEW w \in Workers, WorkerStep(w), NEW v \in Workers, Linked(v)
  PROVE  Linked(v)'
<1>1. CASE v # w
  BY <1>1, WorkerOnWorker DEF Linked
<1>2. CASE v = w
  <2>1. CASE WorkerConnect(w) \/ Takes(w) \/ ReadAtEnd(w)
    <3>1. /\ up'[w] = up[w] /\ wk'[w] \notin {"off", "start"}
          /\ wk[w] \in {"connected", "reading"} => link'[w] = link[w]
          /\ wk[w] \notin {"connected", "reading"} => link'[w] = "open"
          /\ cl[w[1]] = "transfer"
      BY <2>1, WorkerOnWorker
    <3> QED
      BY <1>2, <3>1 DEF Linked
  <2>2. CASE SendInit(w) \/ SendPiece(w)
    <3>1. /\ \E m \in Messages : Transmit(w, m)
          /\ UNCHANGED link /\ wk[w] \in {"connected", "sending"} /\ cl[w[1]] = "transfer"
          /\ wk'[w] \in {"reading", "finishing"}
      BY <2>2, MessageTypes, WorkerIsConn, WorkerOnWorker
         DEF SendInit, SendPiece, Running, Typed, TypeOK, ClientTypeOK
    <3>2. up'[w] # up[w] => link[w] = "open"
      BY <3>1, Appended
    <3> QED
      BY <1>2, <3>1, <3>2 DEF Linked
  <2>3. CASE SendFinish(w)
    <3>1. /\ \E m \in Messages : Transmit(w, m)
          /\ link'[w] = (IF link[w] = "open" THEN "shut" ELSE link[w]) /\ wk'[w] = "done"
      BY <2>3, MessageTypes, WorkerIsConn, WorkerOnWorker DEF SendFinish
    <3>2. up'[w] # up[w] => link[w] = "open"
      BY <3>1, Appended
    <3> QED
      BY <1>2, <3>1, <3>2 DEF Linked
  <2> QED
    BY <2>1, <2>2, <2>3 DEF WorkerStep, Takes
<1> QED
  BY <1>1, <1>2

\* Here the source can be read: ok only fails at the end of the file.
LEMMA WorkerKeepsAtEnd ==
  ASSUME Typed, Orders, NEW w \in Workers, WorkerStep(w), NEW c \in Clients, AtEnd(c)
  PROVE  AtEnd(c)'
<1>t. /\ next \in [Clients -> Nat] /\ eof \in [Clients -> BOOLEAN] /\ ok \in [Clients -> BOOLEAN]
      /\ wk \in [Workers -> WorkerStates] /\ hold \in [Workers -> [order : Nat, size : {0, 1}]]
      /\ w[1] \in Clients /\ w = <<w[1], w[2]>> /\ w[2] \in Threads
      /\ \A t \in Threads : <<c, t>> \in Workers
  BY WorkerIsConn DEF Typed, TypeOK, ClientTypeOK, Workers
<1>n. NumPieces \in Nat
  BY PieceCounts
<1>1. CASE Takes(w)
  <2>1. PICK order \in Nat, size \in {0, 1} : Takes1(w, order, size)
    BY <1>1, TakesEffect
  <2>2. /\ ok' = ok /\ next' = [next EXCEPT ![w[1]] = @ + 1]
        /\ wk' = [wk EXCEPT ![w] = "sending"]
        /\ hold' = [hold EXCEPT ![w] = [order |-> order, size |-> size]]
        /\ \/ eof' = [eof EXCEPT ![w[1]] = TRUE]
           \/ UNCHANGED eof /\ size = 1
    BY <1>1, <2>1 DEF Takes, ReadFull, ReadRest, Takes1, Take
  <2>3. ASSUME ~eof[w[1]], eof'[w[1]] PROVE next'[w[1]] >= NumPieces
    <3>1. next[w[1]] >= FullPieces
      BY <1>1, <1>t, <2>3 DEF Takes, ReadFull, ReadRest
    <3> QED
      BY <1>t, <2>2, <3>1, ClientAssumption DEF NumPieces
  <2>4. next'[c] \in Nat /\ next'[c] >= next[c] /\ (eof[c] => eof'[c])
    BY <1>t, <2>2
  <2>5. eof'[c] => next'[c] >= NumPieces
    BY <1>t, <1>n, <2>2, <2>3, <2>4 DEF AtEnd
  <2>6. ASSUME NEW t \in Threads, Leaving(<<c, t>>)' PROVE eof'[c]
    <3>1. CASE <<c, t>> = w
      BY <1>t, <2>2, <2>6, <3>1 DEF Leaving, Left
    <3>2. CASE <<c, t>> # w
      <4>1. Leaving(<<c, t>>)
        BY <1>t, <2>2, <2>6, <3>2 DEF Leaving
      <4> QED
        BY <2>4, <4>1 DEF AtEnd
    <3> QED
      BY <3>1, <3>2
  <2> QED
    BY <2>2, <2>4, <2>5, <2>6 DEF AtEnd
<1>2. CASE ~Takes(w)
  <2>1. /\ UNCHANGED <<next, eof>> /\ wk' = [wk EXCEPT ![w] = wk'[w]]
        /\ \/ ReadAtEnd(w)
           \/ UNCHANGED <<hold, ok>> /\ wk'[w] # "sending" /\ (Leaving(w)' => Leaving(w))
    <3>1. \/ ReadAtEnd(w)
          \/ UNCHANGED <<hold, ok>> /\ wk'[w] # "sending" /\ (Leaving(w)' => Leaving(w))
      BY <1>2, <1>t
         DEF WorkerStep, Takes, WorkerConnect, SendInit, SendPiece, SendFinish, Running, Leaving, Left
    <3> QED
      BY <1>2, <3>1, WorkerSends
  <2>2. ReadAtEnd(w) => (c = w[1] => eof[c]) /\ ok' = [ok EXCEPT ![w[1]] = FALSE]
                          /\ hold' = [hold EXCEPT ![w] = hold'[w]]
    <3>1. ReadAtEnd(w) => (eof[w[1]] \/ ~ok[w[1]]) /\ ok' = [ok EXCEPT ![w[1]] = FALSE]
                          /\ hold' = [hold EXCEPT ![w] = hold'[w]]
      BY <1>t DEF ReadAtEnd, Take
    <3>2. c = w[1] => (~ok[w[1]] => eof[w[1]])
      BY DEF AtEnd
    <3> QED
      BY <3>1, <3>2
  <2>3. ~ok'[c] => eof'[c]
    BY <1>t, <2>1, <2>2 DEF AtEnd
  <2>4. ASSUME NEW t \in Threads, Leaving(<<c, t>>)' PROVE eof'[c]
    <3>1. CASE <<c, t>> # w
      <4>1. wk'[<<c, t>>] = wk[<<c, t>>] /\ hold'[<<c, t>>] = hold[<<c, t>>]
        BY <1>t, <2>1, <2>2, <3>1
      <4>2. Leaving(<<c, t>>)
        BY <2>4, <4>1 DEF Leaving
      <4> QED
        BY <2>1, <4>2 DEF AtEnd
    <3>2. CASE <<c, t>> = w /\ ReadAtEnd(w)
      BY <2>1, <2>2, <3>2
    <3>3. CASE <<c, t>> = w /\ ~ReadAtEnd(w)
      BY <2>1, <2>4, <3>3 DEF AtEnd
    <3> QED
      BY <3>1, <3>2, <3>3
  <2> QED
    BY <2>1, <2>3, <2>4 DEF AtEnd
<1> QED
  BY <1>1, <1>2

LEMMA MainKeepsAtEnd ==
  ASSUME Typed, "unreadable" \notin ClientFaults,
         \/ \E c \in Clients : ClientStep(c)
         \/ ClientFault,
         NEW c \in Clients, AtEnd(c)
  PROVE  AtEnd(c)'
<1>1. UNCHANGED <<hold, next, eof>>
  BY MainStepDrains
<1>2. UNCHANGED ok
  BY DEF ClientStep, ClientConnect, ConnectRefused, SendHello, WriteThrows, SendNegotiation,
         StartTransfer, GiveUp, JoinThreads, ClientFault, SourceMissing, SourceUnreadable,
         Kill, Cut, Silence, clientVars
<1>3. ASSUME NEW t \in Threads, Leaving(<<c, t>>)' PROVE Leaving(<<c, t>>)
  <2>1. wk'[<<c, t>>] = wk[<<c, t>>] \/ wk'[<<c, t>>] = "start"
    BY MainOnWorker DEF Workers
  <2> QED
    BY <1>1, <1>3, <2>1 DEF Leaving, Left
<1> QED
  BY <1>1, <1>2, <1>3 DEF AtEnd

LEMMA MainKeepsConnections ==
  ASSUME Typed, \/ \E c \in Clients : ClientStep(c)
                \/ ClientFault,
         UNCHANGED thread, NEW w \in Workers, Ends(w), Linked(w)
  PROVE  Ends(w)' /\ Linked(w)'
<1>1. Ends(w)'
  <2>1. wk[w] \in Left => wk'[w] \in Left
    BY MainOnWorker DEF Left
  <2>2. up'[w] \in {up[w], << >>}
    BY MainOnWorker
  <2> QED
    BY <2>1, <2>2 DEF Ends
<1>2. Linked(w)'
  BY MainOnWorker DEF Linked
<1> QED
  BY <1>1, <1>2

LEMMA InitFlows == Init => Flows
<1> SUFFICES ASSUME Init PROVE Flows
  OBVIOUS
<1>1. ASSUME NEW c \in Clients PROVE AtEnd(c)
  BY DEF Init, ClientInit, AtEnd, Leaving, Left, Workers
<1>2. ASSUME NEW w \in Workers PROVE Ends(w) /\ Linked(w)
  BY WorkerIsConn DEF Init, NetInit, ClientInit, ServerInit, Ends, Linked
<1> QED
  BY <1>1, <1>2 DEF Flows

LEMMA NextFlows ==
  ASSUME Typed, Sources, Flows, "unreadable" \notin ClientFaults, [Next]_vars
  PROVE  Flows'
<1>a. Orders /\ (\A w \in Workers : OwnPieces(w))
  BY DEF Sources
<1>f. (\A c \in Clients : AtEnd(c)) /\ (\A w \in Workers : Ends(w) /\ Linked(w))
  BY DEF Flows
<1>1. CASE ServerNext
  <2>1. ASSUME NEW c \in Clients PROVE AtEnd(c)'
    BY <1>1, <1>f DEF ServerNext, clientVars, AtEnd, Leaving
  <2> QED
    BY <1>1, <1>a, <1>f, <2>1, ServerKeepsEnds, ServerKeepsLinked DEF Flows
<1>2. CASE UNCHANGED serverVars /\ ((\E c \in Clients : ClientStep(c)) \/ ClientFault)
  BY <1>2, <1>f, MainKeepsAtEnd, MainKeepsConnections DEF Flows, serverVars, threadVars
<1>3. CASE UNCHANGED serverVars /\ \E w \in Workers : WorkerStep(w)
  BY <1>3, <1>a, <1>f, WorkerKeepsAtEnd, WorkerKeepsEnds, WorkerKeepsLinked
     DEF Flows, serverVars, threadVars
<1>4. CASE UNCHANGED vars
  <2>1. ASSUME NEW c \in Clients PROVE AtEnd(c)'
    BY <1>4, <1>f DEF vars, clientVars, AtEnd, Leaving
  <2>2. ASSUME NEW w \in Workers PROVE Ends(w)' /\ Linked(w)'
    BY <1>4, <1>f DEF vars, netVars, clientVars, serverVars, threadVars, Ends, Linked
  <2> QED
    BY <2>1, <2>2 DEF Flows
<1> QED
  BY <1>1, <1>2, <1>3, <1>4 DEF Next, ClientNext, Idle
-----------------------------------------------------------------------------
(* A piece that was read is not forgotten                                  *)

LEMMA ServerRuns ==
  ASSUME ServerNext
  PROVE  listening
  BY DEF ServerNext, AcceptStep, AcceptConnection, AcceptNothing, AcceptError, OpenSession,
         AttachThread, RejectThread, Incoming, SessionStep, HelloSent, ReadNegotiationHead,
         OpenFile, NegotiationSent, SessionReadError, Handle, ThreadStep, ReadHead, WriteFile,
         FinishThread, FinishOrphan, ThreadReadError, Advance, Free

\* What a step of the server is to the file of c.
FileStays(c) ==
  /\ file'[c] = file[c]
  /\ ~listening' \/ buf[c] \cup disk[c] \subseteq buf'[c] \cup disk'[c]
FileOpens(c) ==
  file[c] = "none" /\ file'[c] \in {"none", "good"} /\ buf[c] \cup disk[c] = {}
FileBreaks(c) ==
  /\ file[c] = "good" /\ file'[c] = "bad"
  /\ \E t \in Threads : WriteFile(<<c, t>>) /\ Store(c, Head(up[<<c, t>>]))
FileCloses(c) == file'[c] = "closed" /\ \E t \in Threads : FinishThread(<<c, t>>) /\ CloseFile(c)

LEMMA WriteStores ==
  ASSUME Typed, NEW c \in Clients, NEW m, Store(c, m), file[c] = "good"
  PROVE  \/ file'[c] = "bad"
         \/ FileStays(c) /\ PieceOf(m) \subseteq buf'[c] \cup disk'[c]
<1>t. /\ disk \in [Clients -> SUBSET Nat] /\ buf \in [Clients -> SUBSET Nat]
      /\ file \in [Clients -> {"none", "good", "bad", "closed"}]
  BY DEF Typed, TypeOK, ServerTypeOK
<1> DEFINE piece == PieceOf(m)
<1>1. CASE file' = [file EXCEPT ![c] = "bad"]
  BY <1>1, <1>t
<1>2. CASE /\ disk' = [disk EXCEPT ![c] = @ \cup buf[c] \cup (IF c \in Buffered THEN {} ELSE piece)]
           /\ buf' = [buf EXCEPT ![c] = IF c \in Buffered THEN piece ELSE {}]
           /\ UNCHANGED file
  <2>1. /\ disk'[c] = disk[c] \cup buf[c] \cup (IF c \in Buffered THEN {} ELSE piece)
        /\ buf'[c] = (IF c \in Buffered THEN piece ELSE {}) /\ file'[c] = file[c]
    BY <1>2, <1>t
  <2> HIDE DEF piece
  <2>2. buf[c] \cup disk[c] \subseteq buf'[c] \cup disk'[c] /\ piece \subseteq buf'[c] \cup disk'[c]
    BY <2>1
  <2> QED
    BY <2>1, <2>2 DEF FileStays, piece
<1> QED
  BY <1>1, <1>2 DEF Store, PieceOf

LEMMA ServerOnFile ==
  ASSUME Typed, Negotiations, Streams, \A w \in Workers : OwnPieces(w), ServerNext,
         NEW c \in Clients
  PROVE  FileStays(c) \/ FileOpens(c) \/ FileBreaks(c) \/ FileCloses(c)
<1>1. CASE AcceptStep \/ AcceptError
  <2>1. UNCHANGED fileVars \/ (~listening' /\ UNCHANGED file)
    BY <1>1 DEF AcceptStep, AcceptError, AcceptConnection, AcceptNothing, OpenSession,
                AttachThread, RejectThread, Terminate, fileVars
  <2> QED
    BY <2>1 DEF fileVars, FileStays
<1>2. ASSUME NEW d \in Clients, SessionStep(d)
      PROVE  FileStays(c) \/ FileOpens(c)
  <2>1. CASE OpenFile(d) /\ d = c
    <3>1. file[c] = "none"
      BY <2>1 DEF OpenFile, Handle, Negotiations, Negotiation, Unopened, Waits
    <3>2. file'[c] \in {"none", "good"}
      BY <2>1 DEF OpenFile, Typed, TypeOK, ServerTypeOK
    <3> QED
      BY <3>1, <3>2 DEF Streams, StreamOf, FileOpens
  <2>2. CASE OpenFile(d) /\ d # c
    BY <2>2 DEF OpenFile, FileStays, Typed, TypeOK, ServerTypeOK
  <2>3. CASE ~OpenFile(d)
    BY <1>2, <2>3
       DEF SessionStep, HelloSent, ReadNegotiationHead, NegotiationSent, SessionReadError,
           fileVars, FileStays
  <2> QED
    BY <2>1, <2>2, <2>3
<1>3. ASSUME NEW w \in Workers, ThreadStep(w)
      PROVE  FileStays(c) \/ FileBreaks(c) \/ FileCloses(c)
  <2>w. w[1] \in Clients /\ w[2] \in Threads /\ w = <<w[1], w[2]>>
    BY WorkerIsConn
  <2>1. CASE ReadHead(w) \/ ThreadReadError(w) \/ FinishOrphan(w)
    BY <2>1 DEF ReadHead, ThreadReadError, FinishOrphan, Terminate, fileVars, FileStays
  <2>2. CASE (WriteFile(w) \/ FinishThread(w)) /\ UNCHANGED fileVars
    BY <2>2 DEF fileVars, FileStays
  <2>3. CASE WriteFile(w) /\ file[w[1]] = "good" /\ Store(w[1], Head(up[w]))
    BY <2>w, <2>3, WriteStores, StoreEffect DEF FileStays, FileBreaks
  <2>4. CASE FinishThread(w) /\ CloseFile(w[1])
    <3>1. CASE w[1] = c
      BY <2>w, <2>4, <3>1, CloseEffect DEF FileCloses
    <3>2. CASE w[1] # c
      BY <2>w, <2>4, <3>2, CloseEffect DEF FileStays
    <3> QED
      BY <3>1, <3>2
  <2> QED
    BY <1>3, <2>1, <2>2, <2>3, <2>4, ThreadReads DEF ThreadStep
<1> QED
  BY <1>1, <1>2, <1>3 DEF ServerNext

LEMMA ServerKeepsLost ==
  ASSUME Typed, Negotiations, Streams, \A w \in Workers : OwnPieces(w), ServerNext,
         NEW c \in Clients, Lost(c)
  PROVE  Lost(c)'
<1>1. CASE file[c] \in {"bad", "closed"}
  <2>1. file'[c] \in {"bad", "closed"}
    BY <1>1, ServerOnFile DEF FileStays, FileOpens, FileBreaks, FileCloses
  <2> QED
    BY <2>1 DEF Lost
<1>2. ASSUME NEW t \in Threads, Gone(<<c, t>>), thread[<<c, t>>] # "done"
      PROVE  Gone(<<c, t>>)' /\ thread'[<<c, t>>] # "done"
  <2> DEFINE w == <<c, t>>
  <2>w. w \in Workers
    BY DEF Workers
  <2>g. Gone(w) /\ thread[w] # "done" /\ (Gone(<<c, t>>)' <=> Gone(w)')
    BY <1>2
  <2> HIDE DEF w
  <2>1. link[w] \in {"reset", "cut", "silent"}
    BY <2>g DEF Gone
  <2>2. link'[w] = link[w]
    BY <2>1, <2>w, ServerOnWorker DEF Untouched, Dropped, Shifted
  <2>3. ~FinishThread(w)
    <3>1. link[w] \in {"reset", "cut"} => ~Readable(w)
      BY DEF Readable
    <3> QED
      BY <2>g, <2>w, <3>1, FinishReadsEmpty DEF FinishThread, Gone
  <2>4. ASSUME \A i \in DOMAIN up[w] : ~Empty(up[w][i]), NEW i \in DOMAIN up'[w]
        PROVE  ~Empty(up'[w][i])
    <3>1. CASE up'[w] \in {up[w], << >>}
      BY <2>4, <3>1
    <3>2. CASE Shifted(w)
      <4>1. up[w] # << >> /\ up'[w] = Tail(up[w])
        BY <3>2 DEF Shifted
      <4> QED
        BY <2>4, <2>w, <4>1, TailEntries
    <3> QED
      BY <2>w, <3>1, <3>2, ServerOnWorker DEF Untouched, Dropped
  <2>5. Gone(w)'
    BY <2>g, <2>2, <2>4 DEF Gone
  <2>6. thread'[w] # "done"
    BY <2>g, <2>w, <2>3, ServerOnWorker
  <2> QED
    BY <2>g, <2>5, <2>6 DEF w
<1> QED
  BY <1>1, <1>2, ServerRuns DEF Lost

LEMMA ServerKeepsPieces ==
  ASSUME Typed, Negotiations, Streams, \A w \in Workers : OwnPieces(w) /\ Ends(w) /\ Linked(w),
         ServerNext, NEW c \in Clients, Kept(c)
  PROVE  Kept(c)'
<1> SUFFICES ASSUME NEW p \in Pieces, p < next'[c]
             PROVE  Lost(c)' \/ Somewhere(c, p)'
  BY DEF Kept
<1>u. UNCHANGED <<wk, hold, next>>
  BY DEF ServerNext, clientVars
<1>w. \A t \in Threads : <<c, t>> \in Workers
  BY DEF Workers
<1>1. CASE Lost(c)
  BY <1>1, ServerKeepsLost
<1>2. ASSUME NEW t \in Threads, Holds(c, t, p) PROVE Somewhere(c, p)'
  BY <1>2, <1>u DEF Holds, Somewhere
<1>3. ASSUME p \in buf[c] \cup disk[c] PROVE Lost(c)' \/ Somewhere(c, p)'
  BY <1>3, ServerOnFile DEF FileStays, FileOpens, FileBreaks, FileCloses, Lost, Somewhere
<1>4. ASSUME NEW t \in Threads, NEW i \in Index, On(c, t, i, p)
      PROVE  Lost(c)' \/ Somewhere(c, p)'
  <2> DEFINE w == <<c, t>>
  <2>0. w \in Workers
    BY <1>w
  <2>1. /\ i \in DOMAIN up[w] /\ up[w][i] = DataMsg(c, p, 1) /\ up[w] # << >>
        /\ ~Empty(up[w][i]) /\ up[w][i].type = "data" /\ up[w][i].size = 1
        /\ up[w][i].order = p
    BY <1>4 DEF On, DataMsg, Empty
  <2>2. link[w] \in {"open", "shut", "silent"} /\ thread[w] # "done"
    BY <2>0, <2>1 DEF Linked, Ends
  <2>3. CASE Untouched(w)
    BY <1>4, <2>3 DEF Untouched, On, Somewhere
  <2>4. CASE Dropped(w) /\ (thread'[w] = "done" => thread[w] = "done")
    <3>1. Gone(w)' /\ thread'[w] # "done"
      BY <2>2, <2>4 DEF Dropped, Gone
    <3> QED
      BY <3>1 DEF Lost
  <2>5. CASE Shifted(w) /\ (WriteFile(w) \/ FinishThread(w) \/ Head(up[w]).type = "init")
    <3>1. up[w] \in Seq(Messages)
      BY <2>0, WorkerIsConn DEF Typed, TypeOK, NetTypeOK
    <3>2. CASE i # 1
      <4>1. i - 1 \in Index /\ i - 1 \in DOMAIN Tail(up[w]) /\ Tail(up[w])[i - 1] = up[w][i]
        BY <2>1, <3>1, <3>2 DEF Index
      <4>2. On(c, t, i - 1, p)'
        BY <2>1, <2>5, <4>1 DEF Shifted, On
      <4> QED
        BY <4>1, <4>2 DEF Somewhere
    <3>3. CASE i = 1
      <4>1. Head(up[w]) = up[w][1]
        BY <2>1, <3>1, <3>3
      <4>2. Head(up[w]).type = "data" /\ PieceOf(Head(up[w])) = {p}
        BY <2>1, <3>3, <4>1 DEF PieceOf
      <4>3. ~FinishThread(w)
        BY <2>0, <2>1, <3>3, FinishReadsEmpty
      <4>4. WriteFile(w)
        BY <2>5, <4>2, <4>3
      <4>5. IF file[c] = "good" THEN Store(c, Head(up[w])) ELSE UNCHANGED fileVars
        BY <4>4 DEF WriteFile
      <4>6. CASE file[c] = "good"
        BY <4>2, <4>5, <4>6, WriteStores DEF Lost, Somewhere
      <4>7. CASE file[c] # "good"
        <5>1. thread[w] # "none"
          BY <4>4 DEF WriteFile, Advance
        <5>2. file[c] # "none"
          BY <2>0, <5>1, ThreadHasFile DEF Negotiations
        <5>3. file[c] \in {"bad", "closed"}
          BY <4>7, <5>2 DEF Typed, TypeOK, ServerTypeOK
        <5> QED
          BY <1>1, <5>3 DEF Lost
      <4> QED
        BY <4>6, <4>7
    <3> QED
      BY <3>2, <3>3
  <2> HIDE DEF w
  <2> QED
    BY <2>0, <2>3, <2>4, <2>5, ServerOnWorker
<1> QED
  BY <1>1, <1>2, <1>3, <1>4, <1>u DEF Kept, Somewhere

\* A step that neither opens a connection again nor touches the server.
LEMMA ClientKeepsLost ==
  ASSUME NEW c \in Clients, Lost(c), UNCHANGED <<listening, serverVars>>,
         \A t \in Threads : Gone(<<c, t>>) => Gone(<<c, t>>)'
  PROVE  Lost(c)'
  BY DEF Lost, serverVars, fileVars, threadVars

LEMMA MainKeepsPieces ==
  ASSUME Typed, \A w \in Workers : Ends(w), NEW c \in Clients, Kept(c),
         \/ \E d \in Clients : ClientStep(d)
         \/ ClientFault,
         UNCHANGED serverVars
  PROVE  Kept(c)'
<1> SUFFICES ASSUME NEW p \in Pieces, p < next'[c]
             PROVE  Lost(c)' \/ Somewhere(c, p)'
  BY DEF Kept
<1>u. UNCHANGED <<hold, next, buf, disk, thread>>
  BY MainStepDrains DEF serverVars, fileVars, threadVars
<1>l. UNCHANGED listening
  BY DEF ClientStep, ClientConnect, ConnectRefused, SendHello, WriteThrows, SendNegotiation,
         StartTransfer, GiveUp, JoinThreads, ClientFault, SourceMissing, SourceUnreadable,
         Kill, Cut, Silence, netVars
<1>w. \A t \in Threads : <<c, t>> \in Workers
  BY DEF Workers
<1>g. ASSUME NEW w \in Workers, Gone(w) PROVE Gone(w)'
  BY <1>g, MainOnWorker DEF Gone
<1>1. CASE Lost(c)
  BY <1>1, <1>g, <1>l, <1>w, ClientKeepsLost
<1>2. ASSUME NEW t \in Threads, Holds(c, t, p) PROVE Somewhere(c, p)'
  <2>1. wk'[<<c, t>>] = "sending"
    BY <1>2, <1>w, MainOnWorker DEF Holds
  <2> QED
    BY <1>2, <1>u, <2>1 DEF Holds, Somewhere
<1>3. ASSUME NEW t \in Threads, NEW i \in Index, On(c, t, i, p)
      PROVE  Lost(c)' \/ Somewhere(c, p)'
  <2>1. thread[<<c, t>>] # "done"
    BY <1>3, <1>w DEF On, Ends, Empty, DataMsg
  <2>2. up'[<<c, t>>] = up[<<c, t>>] \/ link'[<<c, t>>] = "cut"
    BY <1>w, MainOnWorker
  <2> QED
    BY <1>3, <1>u, <2>1, <2>2 DEF On, Somewhere, Lost, Gone
<1> QED
  BY <1>1, <1>2, <1>3, <1>u DEF Kept, Somewhere

LEMMA WorkerKeepsPieces ==
  ASSUME Typed, Orders, \A v \in Workers : Ends(v) /\ Linked(v), NEW w \in Workers, WorkerStep(w),
         UNCHANGED serverVars, NEW c \in Clients, Kept(c)
  PROVE  Kept(c)'
<1> SUFFICES ASSUME NEW p \in Pieces, p < next'[c]
             PROVE  Lost(c)' \/ Somewhere(c, p)'
  BY DEF Kept
<1>t. /\ w[1] \in Clients /\ w[2] \in Threads /\ w = <<w[1], w[2]>>
      /\ \A t \in Threads : <<c, t>> \in Workers
      /\ wk \in [Workers -> WorkerStates] /\ hold \in [Workers -> [order : Nat, size : {0, 1}]]
      /\ next \in [Clients -> Nat] /\ p \in Nat /\ NumPieces \in Nat
      /\ p < NumPieces /\ hold[w].order \in Nat /\ hold[w].size \in {0, 1}
  BY WorkerIsConn, PieceCounts DEF Typed, TypeOK, ClientTypeOK, Workers
<1>u. UNCHANGED <<buf, disk, thread>>
  BY DEF serverVars, fileVars, threadVars
<1>1. CASE Lost(c)
  <2>1. ASSUME NEW t \in Threads, Gone(<<c, t>>) PROVE Gone(<<c, t>>)'
    <3>1. CASE <<c, t>> # w
      <4>1. up'[<<c, t>>] = up[<<c, t>>] /\ link'[<<c, t>>] = link[<<c, t>>]
        BY <1>t, <3>1, WorkerOnWorker
      <4> QED
        BY <2>1, <4>1 DEF Gone
    <3>2. CASE <<c, t>> = w
      <4>1. wk[w] # "start" /\ link[w] \in {"reset", "cut", "silent"}
        BY <2>1, <3>2 DEF Linked, Gone
      <4>2. link'[w] = link[w]
        BY <4>1, WorkerOnWorker DEF WorkerStep, Takes
      <4>3. up'[w] = up[w]
        <5>1. CASE SendInit(w) \/ SendPiece(w) \/ SendFinish(w)
          <6>1. \E m \in Messages : Transmit(w, m)
            BY <1>t, <5>1, MessageTypes DEF SendInit, SendPiece, SendFinish
          <6> QED
            BY <4>1, <6>1, Appended
        <5>2. CASE WorkerConnect(w) \/ Takes(w) \/ ReadAtEnd(w)
          BY <5>2, WorkerOnWorker
        <5> QED
          BY <5>1, <5>2 DEF WorkerStep, Takes
      <4> QED
        BY <2>1, <3>2, <4>2, <4>3 DEF Gone
    <3> QED
      BY <3>1, <3>2
  <2> QED
    BY <1>1, <2>1, WorkerOnWorker, ClientKeepsLost
<1>2. ASSUME NEW t \in Threads, NEW i \in Index, On(c, t, i, p)
      PROVE  Somewhere(c, p)'
  <2>1. up'[<<c, t>>] = up[<<c, t>>] \/ \E m \in Messages : <<c, t>> = w /\ Transmit(w, m)
    <3>1. CASE <<c, t>> # w
      BY <1>t, <3>1, WorkerOnWorker
    <3>2. CASE SendInit(w) \/ SendPiece(w) \/ SendFinish(w)
      <4>1. \E m \in Messages : Transmit(w, m)
        BY <1>t, <3>2, MessageTypes DEF SendInit, SendPiece, SendFinish
      <4> QED
        BY <3>1, <4>1
    <3>3. CASE WorkerConnect(w) \/ Takes(w) \/ ReadAtEnd(w)
      BY <3>3, WorkerOnWorker
    <3> QED
      BY <3>2, <3>3 DEF WorkerStep, Takes
  <2>2. On(c, t, i, p)'
    BY <1>2, <2>1, Appended DEF On
  <2> QED
    BY <2>2 DEF Somewhere
<1>3. ASSUME NEW t \in Threads, Holds(c, t, p)
      PROVE  Lost(c)' \/ Somewhere(c, p)'
  <2>1. CASE <<c, t>> # w
    <3>1. Holds(c, t, p)'
      <4>1. wk'[<<c, t>>] = wk[<<c, t>>]
        BY <1>t, <2>1, WorkerOnWorker
      <4>2. hold'[<<c, t>>] = hold[<<c, t>>]
        BY <1>t, <2>1
           DEF WorkerStep, WorkerConnect, SendInit, ReadFull, ReadRest, ReadAtEnd, Take,
               SendPiece, SendFinish
      <4> QED
        BY <1>3, <4>1, <4>2 DEF Holds
    <3> QED
      BY <3>1 DEF Somewhere
  <2>2. CASE <<c, t>> = w
    <3>1. wk[w] = "sending" /\ hold[w] = [order |-> p, size |-> 1] /\ w[1] = c
      BY <1>3, <1>t, <2>2 DEF Holds
    <3>2. SendPiece(w)
      BY <3>1, WorkerOnWorker DEF WorkerStep, Takes
    <3>3. Transmit(w, DataMsg(c, p, 1)) /\ DataMsg(c, p, 1) \in Messages
      BY <1>t, <3>1, <3>2, MessageTypes DEF SendPiece
    <3>4. CASE link[w] = "open"
      <4>1. \E i \in Index : On(c, t, i, p)'
        BY <2>2, <3>3, <3>4, Appended DEF On
      <4> QED
        BY <4>1 DEF Somewhere
    <3>5. CASE link[w] # "open"
      <4>1. link'[w] = link[w] /\ link[w] \in {"reset", "cut", "silent"}
        BY <3>1, <3>2, <3>5, WorkerOnWorker DEF Linked
      <4>2. thread'[w] # "done" /\ \A i \in DOMAIN up[w] : ~Empty(up[w][i])
        BY <1>u, <3>1 DEF Ends, Left
      <4>3. up'[w] = up[w]
        BY <3>3, <3>5, Appended
      <4>4. Gone(w)'
        BY <4>1, <4>2, <4>3 DEF Gone
      <4> QED
        BY <2>2, <4>2, <4>4 DEF Lost
    <3> QED
      BY <3>4, <3>5
  <2> QED
    BY <2>1, <2>2
<1>4. CASE p >= next[c]
  <2>1. Takes(w)
    BY <1>4, <1>t, WorkerSends
  <2>2. PICK order \in Nat, size \in {0, 1} : Takes1(w, order, size)
    BY <2>1, TakesEffect
  <2>3. /\ next' = [next EXCEPT ![w[1]] = @ + 1] /\ order = next[w[1]]
        /\ hold' = [hold EXCEPT ![w] = [order |-> order, size |-> size]]
        /\ wk' = [wk EXCEPT ![w] = "sending"]
        /\ size = 0 => next[w[1]] >= NumPieces
    BY <2>2 DEF Takes1, Take
  <2>4. c = w[1] /\ p = next[c]
    <3>1. next[c] \in Nat /\ next'[c] = IF c = w[1] THEN next[c] + 1 ELSE next[c]
      BY <1>t, <2>3
    <3> QED
      BY <1>4, <1>t, <3>1
  <2>5. size = 1
    BY <1>t, <2>3, <2>4
  <2>6. Holds(c, w[2], p)'
    BY <1>t, <2>3, <2>4, <2>5 DEF Holds
  <2> QED
    BY <1>t, <2>6 DEF Somewhere
<1>5. CASE p < next[c]
  <2>1. Lost(c) \/ Somewhere(c, p)
    BY <1>5 DEF Kept
  <2> QED
    BY <1>1, <1>2, <1>3, <1>u, <2>1 DEF Somewhere
<1> QED
  BY <1>4, <1>5, <1>t

AllKept == \A c \in Clients : Kept(c)

LEMMA NextKept ==
  ASSUME Typed, Negotiations, Sources, Flows, AllKept, [Next]_vars
  PROVE  AllKept'
<1>a. /\ Orders /\ Streams
      /\ \A w \in Workers : OwnPieces(w) /\ Ends(w) /\ Linked(w)
      /\ \A c \in Clients : Kept(c)
  BY DEF Sources, Flows, AllKept
<1>1. CASE ServerNext
  BY <1>1, <1>a, ServerKeepsPieces DEF AllKept
<1>2. CASE UNCHANGED serverVars /\ ((\E c \in Clients : ClientStep(c)) \/ ClientFault)
  BY <1>2, <1>a, MainKeepsPieces DEF AllKept
<1>3. CASE UNCHANGED serverVars /\ \E w \in Workers : WorkerStep(w)
  BY <1>3, <1>a, WorkerKeepsPieces DEF AllKept
<1>4. CASE UNCHANGED vars
  BY <1>4, <1>a
     DEF AllKept, vars, netVars, clientVars, serverVars, fileVars, threadVars, Kept, Lost, Gone,
         Somewhere, Holds, On
<1> QED
  BY <1>1, <1>2, <1>3, <1>4 DEF Next, ClientNext, Idle

LEMMA NextUnbuffered ==
  ASSUME Typed, Unbuffered, \A w \in Workers : OwnPieces(w), [Next]_vars
  PROVE  Unbuffered'
<1>t. buf \in [Clients -> SUBSET Nat]
  BY DEF Typed, TypeOK, ServerTypeOK
<1>1. CASE UNCHANGED buf
  BY <1>1 DEF Unbuffered
<1>2. CASE AcceptStep \/ AcceptError
  BY <1>2, AcceptDrains DEF Unbuffered
<1>3. CASE \E w \in Workers : ThreadStep(w)
  <2>1. PICK w \in Workers : ThreadStep(w)
    BY <1>3
  <2>2. ASSUME NEW c \in Clients, NEW m, Store(c, m) PROVE Unbuffered'
    BY <1>t, <2>2 DEF Store, Unbuffered
  <2>3. ASSUME NEW c \in Clients, CloseFile(c) PROVE Unbuffered'
    BY <1>t, <2>3 DEF CloseFile, Unbuffered
  <2>4. CASE ~WriteFile(w) /\ ~FinishThread(w)
    BY <2>1, <2>4, ThreadWaits DEF Unbuffered
  <2>5. CASE WriteFile(w) \/ FinishThread(w)
    BY <1>1, <2>2, <2>3, <2>5, ThreadReads, WorkerIsConn DEF fileVars
  <2> QED
    BY <2>4, <2>5
<1> QED
  BY <1>1, <1>2, <1>3, SessionDrains
     DEF Next, ClientNext, ServerNext, Idle, vars, serverVars, fileVars

Completion == Typed /\ Negotiations /\ Sources /\ Flows /\ AllKept /\ Unbuffered

LEMMA CompletionInvariant ==
  ASSUME "unreadable" \notin ClientFaults
  PROVE  Spec => []Completion
<1>1. Init => Flows /\ AllKept /\ Unbuffered
  <2>1. Init => AllKept
    BY PieceCounts DEF Init, ClientInit, AllKept, Kept
  <2>2. Init => Unbuffered
    BY DEF Init, ServerInit, Unbuffered
  <2> QED
    BY <2>1, <2>2, InitFlows
<1>2. (Typed /\ Negotiations /\ Sources) /\ (Flows /\ AllKept /\ Unbuffered) /\ [Next]_vars
        => (Flows /\ AllKept /\ Unbuffered)'
  <2> SUFFICES ASSUME Typed, Negotiations, Sources, Flows, AllKept, Unbuffered, [Next]_vars
               PROVE  (Flows /\ AllKept /\ Unbuffered)'
    OBVIOUS
  <2>1. \A w \in Workers : OwnPieces(w)
    BY DEF Sources
  <2> QED
    BY <2>1, NextFlows, NextKept, NextUnbuffered
<1>3. Completion <=> (Typed /\ Negotiations /\ Sources) /\ (Flows /\ AllKept /\ Unbuffered)
  BY DEF Completion
<1> QED
  BY <1>1, <1>2, <1>3, SourcesInvariant, PTL DEF Spec
-----------------------------------------------------------------------------
\* The finish packet that closes the file is the last message of the upload.
LEMMA LastFinish ==
  ASSUME Completion, Streams', "disk" \in ServerFaults => Buffered = {}, NEW c \in Clients,
         NEW t \in Threads, FinishThread(<<c, t>>), CloseFile(c), file[c] = "good",
         \A u \in Threads : thread'[<<c, u>>] = "done"
  PROVE  disk'[c] = Pieces
<1> DEFINE w == <<c, t>>
<1>0. w \in Workers /\ \A u \in Threads : <<c, u>> \in Workers
  BY DEF Workers
<1>t. /\ thread \in [Workers -> {"none", "head", "body", "done", "dead"}]
      /\ next \in [Clients -> Nat] /\ Pieces \subseteq Nat /\ NumPieces \in Nat
      /\ \A p \in Pieces : p < NumPieces
  BY PieceCounts DEF Completion, Typed, TypeOK, ServerTypeOK, ClientTypeOK
<1>1. /\ listening /\ link[w] \in {"open", "shut", "silent"} /\ thread' = [thread EXCEPT ![w] = "done"]
  BY DEF FinishThread, Advance, Free, Readable
<1>2. ASSUME NEW u \in Threads
      PROVE  wk[<<c, u>>] \in Left /\ \A i \in DOMAIN up[<<c, u>>] : Empty(up[<<c, u>>][i])
  <2>1. CASE <<c, u>> = w
    <3>1. 1 \in DOMAIN up[w] /\ Empty(up[w][1])
      BY <1>0, FinishReadsEmpty DEF Completion, Sources
    <3>2. up[w] \in Seq(Messages) /\ \A i \in DOMAIN up[w] : i >= 1
      BY <1>0, WorkerIsConn DEF Completion, Typed, TypeOK, NetTypeOK
    <3> QED
      BY <1>0, <2>1, <3>1, <3>2 DEF Completion, Flows, Ends
  <2>2. CASE <<c, u>> # w
    <3>1. thread[<<c, u>>] = "done"
      BY <1>0, <1>1, <1>t, <2>2
    <3> QED
      BY <1>0, <3>1 DEF Completion, Flows, Ends
  <2> QED
    BY <2>1, <2>2
<1>3. next[c] >= NumPieces
  <2>1. Leaving(w)
    BY <1>2 DEF Leaving
  <2> QED
    BY <2>1 DEF Completion, Flows, AtEnd
<1>4. ~Lost(c)
  <2>1. ASSUME NEW u \in Threads, thread[<<c, u>>] # "done" PROVE <<c, u>> = w
    BY <1>0, <1>1, <1>t, <2>1
  <2>2. 1 \in DOMAIN up[w] /\ Empty(up[w][1])
    BY <1>0, FinishReadsEmpty DEF Completion, Sources
  <2>3. ~Gone(w)
    BY <1>1, <2>2 DEF Gone
  <2> QED
    BY <1>1, <2>1, <2>3 DEF Lost
<1>5. ASSUME NEW p \in Pieces PROVE p \in buf[c] \cup disk[c]
  <2>1. Somewhere(c, p)
    BY <1>3, <1>4, <1>t DEF Completion, AllKept, Kept
  <2>2. ASSUME NEW u \in Threads PROVE ~Holds(c, u, p) /\ \A i \in Index : ~On(c, u, i, p)
    BY <1>2 DEF Holds, On, Left, Empty, DataMsg
  <2> QED
    BY <2>1, <2>2 DEF Somewhere
<1>6. disk'[c] = disk[c] \cup buf[c] \/ (disk'[c] = disk[c] /\ buf[c] = {})
  <2>1. disk[c] \in SUBSET Nat /\ DOMAIN disk = Clients
    BY DEF Completion, Typed, TypeOK, ServerTypeOK
  <2>2. CASE disk' = [disk EXCEPT ![c] = @ \cup buf[c]]
    BY <2>1, <2>2
  <2>3. CASE /\ "disk" \in ServerFaults
             /\ \E D \in Misplaced(c) : disk' = [disk EXCEPT ![c] = @ \ D]
    <3>1. buf[c] = {} /\ Astray({}) = {}
      BY <2>3 DEF Completion, Unbuffered, Astray
    <3>2. Misplaced(c) = {{}}
      BY <3>1 DEF Misplaced
    <3> QED
      BY <2>1, <2>3, <3>1, <3>2
  <2> QED
    BY <2>2, <2>3 DEF CloseFile
<1>7. disk'[c] \subseteq Pieces
  BY DEF Streams, StreamOf
<1> QED
  BY <1>5, <1>6, <1>7

(* Whatever the interleaving of the workers, the Threads and the handlers   *)
(* of other sessions, whatever connections are lost or refused and whatever *)
(* client is killed: if the file is closed after all the workers of its     *)
(* client finished, with no seek or write refused, every piece of the       *)
(* source is in it.  The source has to be readable, and a disk that can     *)
(* fail must not fail on the flush of close, which nobody looks at: that is *)
(* where write errors of a buffered stream show (file_writer::close).       *)
THEOREM CompleteCorrect ==
  ASSUME "unreadable" \notin ClientFaults, "disk" \in ServerFaults => Buffered = {}
  PROVE  Spec => CompleteWhenAllFinish
<1>1. Completion /\ Completion' /\ [Next]_vars =>
        [\A c \in Clients :
           (file[c] = "good" /\ file'[c] = "closed" /\ \A t \in Threads : thread'[<<c, t>>] = "done")
             => disk'[c] = Pieces]_vars
  <2> SUFFICES ASSUME Completion, Completion', Next, NEW c \in Clients, file[c] = "good",
                      file'[c] = "closed", \A t \in Threads : thread'[<<c, t>>] = "done"
               PROVE  disk'[c] = Pieces
    OBVIOUS
  <2>1. ServerNext
    BY DEF Next, ClientNext, Idle, vars, serverVars, fileVars
  <2>2. FileCloses(c)
    BY <2>1, ServerOnFile DEF Completion, Sources, FileStays, FileOpens, FileBreaks
  <2>3. Streams'
    BY DEF Completion, Sources
  <2> QED
    BY <2>2, <2>3, LastFinish DEF FileCloses
<1>2. Spec => []Completion
  BY CompletionInvariant
<1> QED
  BY <1>1, <1>2, PTL DEF Spec, CompleteWhenAllFinish
-----------------------------------------------------------------------------
(* Uploads with one worker thread                                          *)

OneWorker == \A t, u \in Threads : t = u

\* The session of a Thread that did not finish is registered and unfinished.
Attached == {"head", "body", "dead"}
Registered(w) == thread[w] \in Attached => w[1] \in children /\ status[w[1]] # "FINISHED"

\* A session is finished by a rejected hello, by a file that could not be
\* opened, or by its thread.
FinishedWhy(c) ==
  status[c] = "FINISHED" =>
    /\ file[c] = "none" \/ \E t \in Threads : thread[<<c, t>>] = "done"
    /\ c \in Rejected \/ handler[c] \notin Waits \cup {"none"}

Sessions ==
  /\ \A w \in Workers : Registered(w)
  /\ \A c \in Clients : FinishedWhy(c)

\* Without a file there is no thread and nothing on its connection.
LEMMA NoThreadYet ==
  ASSUME Typed, NEW w \in Workers, Negotiation(w[1]), file[w[1]] = "none"
  PROVE  thread[w] = "none" /\ up[w] = << >>
<1>1. wk[w] = "off"
  BY WorkerIsConn DEF Negotiation, NoFile
<1> QED
  BY <1>1 DEF Typed, ChannelsInOrder, WorkerInOrder, Early

LEMMA WhyStays ==
  ASSUME NEW c \in Clients, FinishedWhy(c), status'[c] = "FINISHED" => status[c] = "FINISHED",
         file[c] = "none" => file'[c] = "none" \/ status[c] # "FINISHED",
         \A t \in Threads : thread[<<c, t>>] = "done" => thread'[<<c, t>>] = "done",
         handler'[c] \in Waits \cup {"none"} => handler[c] \in Waits \cup {"none"}
  PROVE  FinishedWhy(c)'
  BY DEF FinishedWhy

LEMMA RegisteredStays ==
  ASSUME NEW w \in Workers, Registered(w), thread'[w] \in Attached => thread[w] \in Attached,
         status'[w[1]] = status[w[1]] \/ thread[w] \notin Attached,
         status[w[1]] # "FINISHED" /\ w[1] \in children => w[1] \in children' \/ thread[w] \notin Attached
  PROVE  Registered(w)'
  BY DEF Registered

LEMMA CleanKeepsSession ==
  ASSUME NEW ch, NEW sl, NEW st, NEW shut, NEW queue, Clean(ch, sl, st, shut, queue),
         NEW c \in ch, st[c] # "FINISHED"
  PROVE  c \in children'
  BY DEF Clean

\* Steps of the server that leave every status, file and thread as they are,
\* or go on in a thread that is attached already.
LEMMA CleaningKeepsSessions ==
  ASSUME Sessions, UNCHANGED <<status, file, thread, handler>>,
         \A c \in children : status[c] # "FINISHED" => c \in children'
  PROVE  Sessions'
<1>1. ASSUME NEW w \in Workers PROVE Registered(w)'
  BY RegisteredStays DEF Sessions
<1>2. ASSUME NEW c \in Clients PROVE FinishedWhy(c)'
  BY WhyStays DEF Sessions
<1> QED
  BY <1>1, <1>2 DEF Sessions

LEMMA OpenSessionKeepsSessions ==
  ASSUME Typed, Negotiations, NeverAnswered, Sessions, OpenSession
  PROVE  Sessions'
<1> DEFINE c == accepting[1]
<1>1. /\ accepting \in Conns /\ accepting \notin Workers
      /\ up[accepting] # << >> /\ Head(up[accepting]).type = "hello"
  BY IncomingKind DEF OpenSession, Typed, Incoming
<1>2. c \in Clients /\ accepting = <<c, Main>>
  BY <1>1 DEF Conns, Workers
<1>3. Head(up[accepting]) = HelloMsg(c) /\ handler[c] = "none"
  <2>1. up[accepting] \in Seq(Messages)
    BY <1>1 DEF Typed, TypeOK, NetTypeOK
  <2>2. 1 \in DOMAIN up[accepting] /\ Head(up[accepting]) = up[accepting][1]
    BY <1>1, <2>1
  <2>3. up[accepting] = <<HelloMsg(c)>> /\ handler[c] = "none"
    BY <1>1, <1>2, <2>2 DEF Negotiations, Negotiation, HelloFirst
  <2> QED
    BY <2>2, <2>3
<1>4. file[c] = "none" /\ \A t \in Threads : thread[<<c, t>>] = "none"
  <2>1. file[c] = "none"
    BY <1>2, <1>3 DEF Negotiations, Negotiation, Unopened
  <2> QED
    BY <1>2, <2>1, NoThreadYet DEF Negotiations, Workers
<1>5. \A w \in Workers : thread[w] \in Attached => w[1] # c
  BY <1>4, WorkerIsConn DEF Attached
<1>6. CASE Terminate
  BY <1>6, CleaningKeepsSessions DEF Terminate, registryVars, sessionVars, threadVars
<1>7. CASE ~Terminate
  <2>1. PICK result \in HelloVerify(HelloMsg(c)) :
          \/ /\ result = 0 /\ handler' = [handler EXCEPT ![c] = "helloSent"]
             /\ Clean(children \cup {c}, s_list \cup {c}, status, {}, Unread(accepting))
             /\ UNCHANGED <<status, thread, file>>
          \/ /\ result \in {1, 2} /\ status' = [status EXCEPT ![c] = "FINISHED"]
             /\ Clean(children \cup {c}, s_list \cup {c}, status', {}, Unread(accepting))
             /\ UNCHANGED <<handler, thread, file>>
    BY <1>3, <1>7 DEF OpenSession, threadVars, fileVars
  <2>2. result \in {1, 2} => c \in Rejected
    <3>1. result \in {1, 2} => ~HelloMsg(c).sameKey \/ ~HelloMsg(c).sameVersion
      BY <2>1 DEF HelloVerify
    <3>2. (HelloMsg(c).sameKey <=> c \notin OtherKey)
            /\ (HelloMsg(c).sameVersion <=> c \notin OtherVersion)
      BY DEF HelloMsg
    <3> QED
      BY <3>1, <3>2 DEF Rejected
  <2>t. /\ status \in [Clients -> {"NOTSET", "NEGOTIATED", "FINISHED"}]
        /\ handler \in [Clients -> {"none", "helloSent", "head", "body", "replied", "idle", "dead"}]
    BY DEF Typed, TypeOK, ServerTypeOK
  <2>3. \A d \in Clients \ {c} : status'[d] = status[d] /\ handler'[d] = handler[d]
    BY <2>1, <2>t
  <2>4. ASSUME NEW w \in Workers PROVE Registered(w)'
    <3>1. CASE thread[w] \notin Attached
      BY <2>1, <3>1 DEF Registered
    <3>2. CASE thread[w] \in Attached
      <4>1. w[1] # c /\ w[1] \in children /\ status[w[1]] # "FINISHED" /\ w[1] \in Clients
        BY <1>5, <3>2, WorkerIsConn DEF Sessions, Registered
      <4>2. status'[w[1]] # "FINISHED"
        BY <2>3, <4>1
      <4>3. w[1] \in children'
        BY <2>1, <4>1, <4>2, CleanKeepsSession
      <4> QED
        BY <4>2, <4>3 DEF Registered
    <3> QED
      BY <3>1, <3>2
  <2>5. ASSUME NEW d \in Clients PROVE FinishedWhy(d)'
    <3>1. CASE d # c
      BY <2>1, <2>3, <3>1, WhyStays DEF Sessions
    <3>2. CASE d = c /\ result = 0
      <4>1. handler[c] = "none" /\ UNCHANGED <<status, thread, file>>
        BY <1>3, <2>1, <3>2
      <4> QED
        BY <3>2, <4>1, WhyStays DEF Sessions
    <3>3. CASE d = c /\ result # 0
      BY <1>4, <2>1, <2>2, <3>3 DEF FinishedWhy
    <3> QED
      BY <3>1, <3>2, <3>3
  <2> QED
    BY <2>4, <2>5 DEF Sessions
<1> QED
  BY <1>6, <1>7

LEMMA AttachKeepsSessions ==
  ASSUME OneWorker, Typed, Negotiations, Sessions, AttachThread
  PROVE  Sessions'
<1>t. thread \in [Workers -> {"none", "head", "body", "done", "dead"}]
  BY DEF Typed, TypeOK, ServerTypeOK
<1> DEFINE c == accepting[1]
<1>1. accepting \in Workers /\ up[accepting] # << >> /\ Head(up[accepting]).type = "init"
  BY IncomingKind, WorkerIsConn DEF AttachThread, Typed, Incoming, Workers, Conns
<1>2. c \in Clients /\ \A w \in Workers : w[1] = c => w = accepting
  BY <1>1, WorkerIsConn DEF OneWorker
<1>3. thread[accepting] = "none"
  <2>1. up[accepting] \in Seq(Messages)
    BY <1>1, WorkerIsConn DEF Typed, TypeOK, NetTypeOK
  <2>2. 1 \in DOMAIN up[accepting] /\ Head(up[accepting]) = up[accepting][1]
    BY <1>1, <2>1
  <2> QED
    BY <1>1, <2>2 DEF Typed, ChannelsInOrder, WorkerInOrder
<1>4. status[c] # "FINISHED"
  <2>1. file[c] # "none"
    BY <1>1, <1>2, NoThreadYet DEF Negotiations
  <2>2. \A t \in Threads : <<c, t>> \in Workers /\ <<c, t>>[1] = c
    BY <1>2 DEF Workers
  <2>3. \A t \in Threads : thread[<<c, t>>] = "none"
    BY <1>2, <1>3, <2>2
  <2> QED
    BY <1>2, <2>1, <2>3 DEF Sessions, FinishedWhy
<1>5. /\ thread' = [thread EXCEPT ![accepting] = "head"] /\ c \in children
      /\ Clean(children, s_list, status, {}, Unread(accepting))
      /\ UNCHANGED <<status, handler, file>>
  BY DEF AttachThread, fileVars
<1>6. ASSUME NEW w \in Workers PROVE Registered(w)'
  <2>1. CASE w = accepting
    BY <1>4, <1>5, <2>1, CleanKeepsSession DEF Registered
  <2>2. CASE w # accepting
    <3>1. thread'[w] = thread[w]
      BY <1>5, <1>t, <2>2
    <3> QED
      BY <1>5, <3>1, CleanKeepsSession DEF Sessions, Registered
  <2> QED
    BY <2>1, <2>2
<1>7. ASSUME NEW d \in Clients PROVE FinishedWhy(d)'
  <2>1. \A t \in Threads : thread[<<d, t>>] = "done" => thread'[<<d, t>>] = "done"
    BY <1>3, <1>5, <1>t DEF Workers
  <2> QED
    BY <1>5, <2>1, WhyStays DEF Sessions
<1> QED
  BY <1>6, <1>7 DEF Sessions

LEMMA AcceptKeepsSessions ==
  ASSUME OneWorker, Typed, Negotiations, NeverAnswered, Sessions, AcceptStep \/ AcceptError
  PROVE  Sessions'
<1>1. CASE AcceptConnection
  BY <1>1, CleaningKeepsSessions
     DEF AcceptConnection, registryVars, sessionVars, threadVars, fileVars
<1>2. CASE AcceptError \/ AcceptNothing \/ RejectThread
  <2>1. UNCHANGED <<status, file, thread, handler>>
    BY <1>2 DEF AcceptError, AcceptNothing, RejectThread, sessionVars, threadVars, fileVars
  <2>2. \E shut : Clean(children, s_list, status, shut, up)
    BY <1>2 DEF AcceptError, AcceptNothing, RejectThread
  <2> QED
    BY <2>1, <2>2, CleaningKeepsSessions, CleanKeepsSession
<1> QED
  BY <1>1, <1>2, OpenSessionKeepsSessions, AttachKeepsSessions DEF AcceptStep

LEMMA SessionStepKeepsSessions ==
  ASSUME Typed, Negotiations, NeverAnswered, Sessions, NEW c \in Clients, SessionStep(c)
  PROVE  Sessions'
<1>t. /\ handler \in [Clients -> {"none", "helloSent", "head", "body", "replied", "idle", "dead"}]
      /\ status \in [Clients -> {"NOTSET", "NEGOTIATED", "FINISHED"}]
      /\ file \in [Clients -> {"none", "good", "bad", "closed"}]
  BY DEF Typed, TypeOK, ServerTypeOK
<1>w. Waits = {"helloSent", "head", "body"}
  BY DEF Waits
<1>u. UNCHANGED <<children, thread>>
  BY DEF SessionStep, HelloSent, ReadNegotiationHead, OpenFile, NegotiationSent,
         SessionReadError, registryVars, threadVars
<1>1. CASE OpenFile(c)
  <2>1. handler[c] = "body" /\ handler' = [handler EXCEPT ![c] = "replied"]
    BY <1>1 DEF OpenFile, Handle
  <2>2. file[c] = "none"
    BY <2>1, <1>w DEF Negotiations, Negotiation, Unopened
  <2>3. \A t \in Threads : thread[<<c, t>>] = "none"
    BY <2>2, NoThreadYet DEF Negotiations, Workers
  <2>4. status[c] # "FINISHED"
    BY <1>w, <2>1 DEF Sessions, FinishedWhy, NeverAnswered
  <2>5. /\ status'[c] = "FINISHED" => file'[c] = "none"
        /\ \A d \in Clients \ {c} : status'[d] = status[d] /\ file'[d] = file[d]
    BY <1>1, <1>t, <2>4 DEF OpenFile
  <2>6. ASSUME NEW w \in Workers PROVE Registered(w)'
    <3>1. CASE w[1] = c
      <4>1. thread[w] = "none"
        BY <2>3, <3>1, WorkerIsConn
      <4> QED
        BY <1>u, <4>1 DEF Registered, Attached
    <3>2. CASE w[1] # c
      BY <1>u, <2>5, <3>2, WorkerIsConn, RegisteredStays DEF Sessions
    <3> QED
      BY <3>1, <3>2
  <2>7. ASSUME NEW d \in Clients PROVE FinishedWhy(d)'
    <3>1. CASE d = c
      BY <1>t, <1>w, <2>1, <2>5, <3>1 DEF FinishedWhy
    <3>2. CASE d # c
      BY <1>u, <1>t, <2>1, <2>5, <3>2, WhyStays DEF Sessions
    <3> QED
      BY <3>1, <3>2
  <2> QED
    BY <2>6, <2>7 DEF Sessions
<1>2. CASE ~OpenFile(c)
  <2>1. /\ \E to \in {"head", "body", "idle", "dead"} : handler' = [handler EXCEPT ![c] = to]
        /\ UNCHANGED file
        /\ handler[c] \in Waits \/ handler'[c] = "idle"
        /\ UNCHANGED status \/ status' = [status EXCEPT ![c] = "NEGOTIATED"]
    BY <1>2, <1>t, <1>w
       DEF SessionStep, HelloSent, ReadNegotiationHead, NegotiationSent, SessionReadError,
           Handle, fileVars
  <2>2. ASSUME NEW w \in Workers PROVE Registered(w)'
    BY <1>t, <1>u, <2>1, WorkerIsConn DEF Sessions, Registered
  <2>3. ASSUME NEW d \in Clients PROVE FinishedWhy(d)'
    <3>1. handler'[d] \in Waits \cup {"none"} => handler[d] \in Waits \cup {"none"}
      BY <1>t, <1>w, <2>1
    <3>2. status'[d] = "FINISHED" => status[d] = "FINISHED"
      BY <1>t, <2>1
    <3> QED
      BY <1>u, <2>1, <3>1, <3>2, WhyStays DEF Sessions
  <2> QED
    BY <2>2, <2>3 DEF Sessions
<1> QED
  BY <1>1, <1>2

LEMMA ThreadStepKeepsSessions ==
  ASSUME OneWorker, Typed, Negotiations, Sessions, NEW w \in Workers, ThreadStep(w)
  PROVE  Sessions'
<1>t. /\ thread \in [Workers -> {"none", "head", "body", "done", "dead"}]
      /\ status \in [Clients -> {"NOTSET", "NEGOTIATED", "FINISHED"}]
      /\ file \in [Clients -> {"none", "good", "bad", "closed"}]
      /\ w[1] \in Clients /\ w[2] \in Threads /\ w = <<w[1], w[2]>>
  BY WorkerIsConn DEF Typed, TypeOK, ServerTypeOK
<1>a. Attached = {"head", "body", "dead"}
  BY DEF Attached
<1>1. CASE FinishOrphan(w)
  BY <1>1, CleaningKeepsSessions
     DEF FinishOrphan, Terminate, registryVars, sessionVars, threadVars
<1>2. CASE ReadHead(w) \/ WriteFile(w) \/ ThreadReadError(w)
  <2>1. /\ thread[w] \in Attached /\ \E to \in Attached : thread' = [thread EXCEPT ![w] = to]
        /\ UNCHANGED <<children, status, handler>>
    BY <1>2, <1>a
       DEF ReadHead, WriteFile, ThreadReadError, Advance, registryVars, sessionVars
  <2>2. \A d \in Clients : file[d] = "none" => file'[d] = "none"
    <3>1. UNCHANGED file \/ (file[w[1]] = "good" /\ file' = [file EXCEPT ![w[1]] = "bad"])
      BY <1>2 DEF ReadHead, WriteFile, ThreadReadError, Store, fileVars
    <3> QED
      BY <1>t, <3>1
  <2>3. ASSUME NEW v \in Workers PROVE Registered(v)'
    BY <1>t, <2>1, RegisteredStays DEF Sessions
  <2>4. ASSUME NEW d \in Clients PROVE FinishedWhy(d)'
    <3>1. \A t \in Threads : thread[<<d, t>>] = "done" => thread'[<<d, t>>] = "done"
      BY <1>a, <1>t, <2>1 DEF Workers
    <3> QED
      BY <2>1, <2>2, <3>1, WhyStays DEF Sessions
  <2> QED
    BY <2>3, <2>4 DEF Sessions
<1>3. CASE FinishThread(w)
  <2> DEFINE c == w[1]
  <2>1. /\ thread[w] = "body" /\ thread' = [thread EXCEPT ![w] = "done"]
        /\ UNCHANGED <<children, handler>>
        /\ \A d \in Clients \ {c} : status'[d] = status[d] /\ file'[d] = file[d]
    BY <1>3, <1>t DEF FinishThread, Advance, registryVars, CloseFile, fileVars
  <2>2. handler[c] \notin Waits \cup {"none"}
    BY <1>t, <2>1, ThreadHasFile DEF Negotiations, Negotiation, Unopened
  <2>3. ASSUME NEW v \in Workers PROVE Registered(v)'
    <3>1. CASE v[1] = c
      <4>1. v = w
        BY <3>1, WorkerIsConn DEF OneWorker
      <4> QED
        BY <1>a, <1>t, <2>1, <4>1 DEF Registered
    <3>2. CASE v[1] # c
      BY <1>t, <2>1, <3>2, WorkerIsConn, RegisteredStays DEF Sessions
    <3> QED
      BY <3>1, <3>2
  <2>4. ASSUME NEW d \in Clients PROVE FinishedWhy(d)'
    <3>1. CASE d = c
      BY <1>t, <2>1, <2>2, <3>1 DEF FinishedWhy
    <3>2. CASE d # c
      <4>1. \A t \in Threads : thread[<<d, t>>] = "done" => thread'[<<d, t>>] = "done"
        BY <1>t, <2>1 DEF Workers
      <4> QED
        BY <2>1, <3>2, <4>1, WhyStays DEF Sessions
    <3> QED
      BY <3>1, <3>2
  <2> QED
    BY <2>3, <2>4 DEF Sessions
<1> QED
  BY <1>1, <1>2, <1>3 DEF ThreadStep

LEMMA NextSessions ==
  ASSUME OneWorker, Typed, Negotiations, NeverAnswered, Sessions, [Next]_vars
  PROVE  Sessions'
<1>1. CASE ServerNext
  BY <1>1, AcceptKeepsSessions, SessionStepKeepsSessions, ThreadStepKeepsSessions DEF ServerNext
<1>2. CASE UNCHANGED serverVars
  BY <1>2, CleaningKeepsSessions DEF serverVars, registryVars, sessionVars, threadVars, fileVars
<1> QED
  BY <1>1, <1>2 DEF Next, ClientNext, Idle, vars

LEMMA SessionInvariant ==
  ASSUME OneWorker
  PROVE  Spec => [](Typed /\ Negotiations /\ NeverAnswered /\ Sessions)
<1>1. Init => NeverAnswered /\ Sessions
  BY NetworkAssumption, WorkerIsConn
     DEF Init, ServerInit, NeverAnswered, Rejected, Sessions, Registered, FinishedWhy, Attached
<1>2. (Typed /\ Negotiations) /\ (NeverAnswered /\ Sessions) /\ [Next]_vars
        => (NeverAnswered /\ Sessions)'
  BY NextNeverAnswered, NextSessions
<1> QED
  BY <1>1, <1>2, NegotiationInvariant, PTL DEF Spec

(* With one worker thread the io_context never ends in bad_weak_ptr: the    *)
(* session is registered until its thread has finished, and the cleaning   *)
(* that other clients' connections cause leaves it alone.                  *)
THEOREM SessionFound ==
  ASSUME OneWorker
  PROVE  Spec => []FinishFindsSession
<1>1. Sessions => FinishFindsSession
  BY DEF Sessions, Registered, Attached, FinishFindsSession, Expired
<1>2. Spec => [](Typed /\ Negotiations /\ NeverAnswered /\ Sessions)
  BY SessionInvariant
<1> QED
  BY <1>1, <1>2, PTL
-----------------------------------------------------------------------------
(* The file of a finished session                                          *)

\* No write fails, and no piece is beyond what a seek reaches.
SoundDisk == "disk" \notin ServerFaults /\ NumPieces <= SeekLimit

\* A stream that takes no more pieces has them all; a finished thread closed it.
Whole(c) == file[c] \in {"bad", "closed"} => disk[c] = Pieces
DoneCloses(w) == thread[w] = "done" => file[w[1]] = "closed"

Wholes ==
  /\ \A c \in Clients : Whole(c)
  /\ \A w \in Workers : DoneCloses(w)

\* When the only worker of c sent an empty packet, all the pieces are there.
LEMMA EmptyIsLast ==
  ASSUME OneWorker, Completion, NEW w \in Workers, file[w[1]] = "good", listening,
         thread[w] = "body", Readable(w), Head(up[w]).size = 0
  PROVE  Pieces \subseteq buf[w[1]] \cup disk[w[1]]
<1> DEFINE c == w[1]
<1>w. /\ c \in Clients /\ \A t \in Threads : <<c, t>> = w
      /\ w[2] \in Threads /\ w = <<c, w[2]>>
  BY WorkerIsConn DEF OneWorker
<1>t. /\ next[c] \in Nat /\ Pieces \subseteq Nat /\ NumPieces \in Nat
      /\ \A p \in Pieces : p < NumPieces
  BY <1>w, PieceCounts DEF Completion, Typed, TypeOK, ClientTypeOK
<1>1. link[w] \in {"open", "shut", "silent"} /\ up[w] # << >> /\ up[w] \in Seq(Messages)
  BY WorkerIsConn DEF Readable, Completion, Typed, TypeOK, NetTypeOK
<1>2. 1 \in DOMAIN up[w] /\ up[w][1] = Head(up[w]) /\ \A i \in DOMAIN up[w] : i >= 1
  BY <1>1
<1>3. Empty(up[w][1])
  <2>1. Head(up[w]) = DataMsg(c, Head(up[w]).order, Head(up[w]).size)
    BY <1>1, HeadIsOwn DEF Completion, Sources
  <2> QED
    BY <1>2, <2>1 DEF Empty, DataMsg
<1>4. wk[w] \in Left /\ \A i \in DOMAIN up[w] : Empty(up[w][i])
  BY <1>2, <1>3 DEF Completion, Flows, Ends
<1>5. next[c] >= NumPieces
  <2>1. Leaving(<<c, w[2]>>)
    BY <1>4, <1>w DEF Leaving
  <2> QED
    BY <1>w, <2>1 DEF Completion, Flows, AtEnd
<1>6. ~Lost(c)
  <2>1. ~Gone(w)
    BY <1>1, <1>2, <1>3 DEF Gone
  <2> QED
    BY <1>1, <1>w, <2>1 DEF Lost
<1>7. ASSUME NEW p \in Pieces PROVE p \in buf[c] \cup disk[c]
  <2>1. Somewhere(c, p)
    BY <1>5, <1>6, <1>t, <1>w DEF Completion, AllKept, Kept
  <2>2. ASSUME NEW t \in Threads PROVE ~Holds(c, t, p) /\ \A i \in Index : ~On(c, t, i, p)
    BY <1>4, <1>w DEF Holds, On, Left, Empty, DataMsg
  <2> QED
    BY <2>1, <2>2 DEF Somewhere
<1> QED
  BY <1>7

\* Nothing is ever taken from the file of a session, if the disk does not fail.
LEMMA DiskGrows ==
  ASSUME SoundDisk, Typed, Negotiations, \A w \in Workers : OwnPieces(w), ServerNext,
         NEW c \in Clients, file[c] # "none"
  PROVE  disk[c] \subseteq disk'[c]
<1>t. disk \in [Clients -> SUBSET Nat]
  BY DEF Typed, TypeOK, ServerTypeOK
<1>1. CASE AcceptStep \/ AcceptError
  BY <1>1, AcceptDrains
<1>2. ASSUME NEW d \in Clients, SessionStep(d) PROVE disk[c] \subseteq disk'[c]
  <2>1. OpenFile(d) => d # c
    BY DEF OpenFile, Handle, Negotiations, Negotiation, Unopened, Waits
  <2> QED
    BY <1>2, <1>t, <2>1, SessionDrains
<1>3. ASSUME NEW w \in Workers, ThreadStep(w) PROVE disk[c] \subseteq disk'[c]
  <2>1. CASE WriteFile(w) \/ FinishThread(w)
    <3>1. \/ UNCHANGED fileVars
          \/ Store(w[1], Head(up[w]))
          \/ CloseFile(w[1])
      BY <2>1 DEF WriteFile, FinishThread
    <3>2. ASSUME NEW d \in Clients, CloseFile(d) PROVE disk[c] \subseteq disk'[c]
      BY <1>t, <3>2 DEF CloseFile, SoundDisk
    <3> QED
      BY <3>1, <3>2, WorkerIsConn, StoreEffect DEF fileVars
  <2>2. CASE ~WriteFile(w) /\ ~FinishThread(w)
    BY <1>3, <2>2, ThreadWaits
  <2> QED
    BY <2>1, <2>2
<1> QED
  BY <1>1, <1>2, <1>3 DEF ServerNext

LEMMA ServerKeepsWhole ==
  ASSUME OneWorker, SoundDisk, Completion, Streams', ServerNext, NEW c \in Clients, Whole(c)
  PROVE  Whole(c)'
<1>a. /\ Typed /\ Negotiations /\ Streams /\ \A w \in Workers : OwnPieces(w)
      /\ listening /\ disk'[c] \subseteq Pieces
      /\ disk \in [Clients -> SUBSET Nat]
  BY ServerRuns DEF Completion, Sources, Streams, StreamOf, Typed, TypeOK, ServerTypeOK
<1>w. \A t \in Threads : <<c, t>> \in Workers /\ <<c, t>>[1] = c
  BY DEF Workers
<1>1. CASE file[c] \in {"bad", "closed"}
  <2>1. disk[c] \subseteq disk'[c]
    BY <1>1, <1>a, DiskGrows
  <2> QED
    BY <1>1, <1>a, <2>1 DEF Whole
<1>2. CASE FileBreaks(c)
  <2>1. PICK t \in Threads : WriteFile(<<c, t>>) /\ Store(c, Head(up[<<c, t>>]))
    BY <1>2 DEF FileBreaks
  <2> DEFINE w == <<c, t>>
  <2>2. thread[w] = "body" /\ Readable(w) /\ up[w] # << >>
    BY <2>1 DEF WriteFile, Advance, Readable
  <2>3. /\ Head(up[w]).order >= SeekLimit
        /\ disk' = [disk EXCEPT ![c] = @ \cup buf[c]]
    BY <1>2, <2>1 DEF FileBreaks, Store, SoundDisk
  <2>4. Head(up[w]).size = 0
    <3> DEFINE order == Head(up[w]).order
    <3>1. Head(up[w]).size \in {0, 1} /\ order \in Nat
      BY <1>a, <1>w, <2>2, HeadIsOwn
    <3>2. Head(up[w]).size = 1 => order < NumPieces
      BY <1>a, <1>w, <2>2, <3>1, HeadIsOwn, PieceCounts
    <3>3. order >= SeekLimit /\ NumPieces <= SeekLimit /\ SeekLimit \in Nat /\ NumPieces \in Nat
      BY <2>3, PieceCounts, ServerAssumption DEF SoundDisk
    <3> HIDE DEF order
    <3> QED
      BY <3>1, <3>2, <3>3
  <2>5. Pieces \subseteq buf[c] \cup disk[c]
    BY <1>2, <1>a, <1>w, <2>2, <2>4, EmptyIsLast DEF FileBreaks
  <2> QED
    BY <1>a, <2>3, <2>5 DEF Whole
<1>3. CASE FileCloses(c) /\ file[c] = "good"
  <2>1. PICK t \in Threads : FinishThread(<<c, t>>) /\ CloseFile(c)
    BY <1>3 DEF FileCloses
  <2>2. /\ thread[<<c, t>>] = "body" /\ Readable(<<c, t>>) /\ Head(up[<<c, t>>]).size = 0
    BY <2>1 DEF FinishThread, Advance, Marker
  <2>3. Pieces \subseteq buf[c] \cup disk[c]
    BY <1>3, <1>a, <1>w, <2>2, EmptyIsLast
  <2>4. disk'[c] = disk[c] \cup buf[c]
    BY <1>a, <2>1 DEF CloseFile, SoundDisk
  <2> QED
    BY <1>a, <2>3, <2>4 DEF Whole
<1>4. CASE FileStays(c) /\ file[c] \notin {"bad", "closed"}
  BY <1>4 DEF FileStays, Whole
<1>5. CASE FileOpens(c)
  BY <1>5 DEF FileOpens, Whole
<1>6. ASSUME FileCloses(c) PROVE file[c] # "none"
  <2>1. PICK t \in Threads : thread[<<c, t>>] = "body"
    BY <1>6 DEF FileCloses, FinishThread, Advance
  <2> QED
    BY <1>a, <1>w, <2>1, NoThreadYet DEF Negotiations
<1>7. file[c] \in {"none", "good", "bad", "closed"}
  BY DEF Completion, Typed, TypeOK, ServerTypeOK
<1> QED
  BY <1>a, <1>1, <1>2, <1>3, <1>4, <1>5, <1>6, <1>7, ServerOnFile

\* The count is 1 while the only thread has not finished.
LEMMA OneIsCounted ==
  ASSUME OneWorker, NumberIsUnfinished, NEW w \in Workers, thread[w] = "body"
  PROVE  number[w[1]] = 1
<1>1. w[1] \in Clients /\ w[2] \in Threads /\ w = <<w[1], w[2]>>
  BY WorkerIsConn
<1>2. Unfinished(w[1]) = {w[2]}
  BY <1>1 DEF Unfinished, OneWorker
<1> QED
  BY <1>1, <1>2, FS_Singleton DEF NumberIsUnfinished

LEMMA ServerKeepsDone ==
  ASSUME OneWorker, Completion, NumberIsUnfinished, ServerNext, NEW w \in Workers, DoneCloses(w)
  PROVE  DoneCloses(w)'
<1>a. /\ Typed /\ Negotiations /\ Streams /\ (\A v \in Workers : OwnPieces(v))
      /\ w[1] \in Clients
  BY WorkerIsConn DEF Completion, Sources
<1>1. CASE thread[w] = "done"
  <2>1. file[w[1]] = "closed"
    BY <1>1 DEF DoneCloses
  <2>2. file'[w[1]] = "closed"
    BY <1>a, <2>1, ServerOnFile DEF FileStays, FileOpens, FileBreaks, FileCloses
  <2> QED
    BY <2>2 DEF DoneCloses
<1>2. CASE FinishThread(w)
  <2>1. thread[w] = "body"
    BY <1>2 DEF FinishThread, Advance
  <2>2. CloseFile(w[1])
    BY <1>2, <2>1, OneIsCounted DEF FinishThread
  <2> QED
    BY <1>a, <2>2, CloseEffect DEF DoneCloses
<1>3. CASE thread'[w] # "done"
  BY <1>3 DEF DoneCloses
<1> QED
  BY <1>1, <1>2, <1>3, <1>a, ServerOnWorker

LEMMA NextWholes ==
  ASSUME OneWorker, SoundDisk, Completion, Streams', NumberIsUnfinished, Wholes, [Next]_vars
  PROVE  Wholes'
<1>1. CASE ServerNext
  BY <1>1, ServerKeepsWhole, ServerKeepsDone DEF Wholes
<1>2. CASE UNCHANGED serverVars
  BY <1>2 DEF serverVars, fileVars, threadVars, Wholes, Whole, DoneCloses
<1> QED
  BY <1>1, <1>2 DEF Next, ClientNext, Idle, vars

(* With one worker thread a FINISHED session whose file was opened has all  *)
(* the pieces of the source on disk, whatever connections are lost and      *)
(* clients killed: FINISHED comes from the finish packet of the only thread *)
(* and never from a client that died before it.  The source has to be      *)
(* readable, the disk to take what it gets, and the file to be within what *)
(* a seek reaches: file_writer reports none of these.                      *)
THEOREM FinishedComplete ==
  ASSUME OneWorker, SoundDisk, "unreadable" \notin ClientFaults
  PROVE  Spec => []FinishedIsComplete
<1>1. Init => Wholes
  BY WorkerIsConn DEF Init, ServerInit, Wholes, Whole, DoneCloses
<1>2. Completion /\ Completion' /\ NumberIsUnfinished /\ Wholes /\ [Next]_vars => Wholes'
  BY NextWholes DEF Completion, Sources
<1>3. Sessions /\ Wholes => FinishedIsComplete
  <2> SUFFICES ASSUME Sessions, Wholes, NEW c \in Clients, status[c] = "FINISHED",
                      file[c] # "none"
               PROVE  disk[c] = Pieces
    BY DEF FinishedIsComplete
  <2>1. PICK t \in Threads : thread[<<c, t>>] = "done"
    BY DEF Sessions, FinishedWhy
  <2>2. file[c] = "closed"
    BY <2>1 DEF Wholes, DoneCloses, Workers
  <2> QED
    BY <2>2 DEF Wholes, Whole
<1>4. Spec => []Completion
  BY CompletionInvariant
<1>5. Spec => [](Typed /\ Negotiations /\ NeverAnswered /\ Sessions)
  BY SessionInvariant
<1> QED
  BY <1>1, <1>2, <1>3, <1>4, <1>5, CountInvariant, PTL DEF Spec
=============================================================================
