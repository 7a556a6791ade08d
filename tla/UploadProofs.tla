---------------------------- MODULE UploadProofs ----------------------------
(***************************************************************************)
(* Theorems about Upload, for any clients, threads, files and faults: the  *)
(* types, the sessions and their threads, and the negotiation, in which a  *)
(* client learns the status of its session.                                *)
(***************************************************************************)
EXTENDS Upload, FiniteSetTheorems, TLAPS

-----------------------------------------------------------------------------
(* Connections and messages                                                *)

LEMMA WorkerIsConn ==
  ASSUME NEW w \in Workers
  PROVE  /\ w \in Conns /\ w[1] \in Clients /\ w[2] \in Threads /\ w = <<w[1], w[2]>>
         /\ \A c \in Clients : w # <<c, Main>>
  BY NetworkAssumption DEF Workers, Conns

LEMMA MainIsConn ==
  ASSUME NEW c \in Clients
  PROVE  <<c, Main>> \in Conns
  BY DEF Conns

LEMMA MessageTypes ==
  ASSUME NEW c \in Clients
  PROVE  /\ HelloMsg(c) \in Messages
         /\ NegotiationMsg(c) \in Messages
         /\ InitMsg(c) \in Messages
         /\ \A order \in Nat, size \in {0, 1} : DataMsg(c, order, size) \in Messages
         /\ FinishMsg(c) \in Messages
  BY DEF HelloMsg, NegotiationMsg, InitMsg, DataMsg, FinishMsg, Messages

LEMMA TransmitType ==
  ASSUME NetTypeOK, NEW k \in Conns, NEW m \in Messages, Transmit(k, m)
  PROVE  up' \in [Conns -> Seq(Messages)]
<1>1. Append(up[k], m) \in Seq(Messages)
  BY DEF NetTypeOK
<1> QED
  BY <1>1 DEF NetTypeOK, Transmit

LEMMA ConnectType ==
  ASSUME NetTypeOK, NEW k \in Conns, Connect(k)
  PROVE  link' \in [Conns -> LinkStates] /\ backlog' \in Seq(Conns)
  BY DEF NetTypeOK, Connect, LinkStates

LEMMA ShutType ==
  ASSUME NetTypeOK, NEW S, Shut(S)
  PROVE  link' \in [Conns -> LinkStates]
  BY DEF NetTypeOK, Shut, LinkStates

LEMMA UnreadType ==
  ASSUME NetTypeOK, NEW k \in Conns, Readable(k)
  PROVE  /\ Head(up[k]) \in Messages
         /\ Unread(k) \in [Conns -> Seq(Messages)]
<1>1. up[k] \in Seq(Messages) /\ up[k] # << >>
  BY DEF NetTypeOK, Readable
<1>2. Head(up[k]) \in Messages /\ Tail(up[k]) \in Seq(Messages)
  BY <1>1
<1> QED
  BY <1>2 DEF NetTypeOK, Unread

LEMMA ReplyType ==
  ASSUME NetTypeOK, NEW c \in Clients, NEW b \in {0, 1}
  PROVE  [down EXCEPT ![c] = Append(@, b)] \in [Clients -> Seq({0, 1})]
<1>1. Append(down[c], b) \in Seq({0, 1})
  BY DEF NetTypeOK
<1> QED
  BY <1>1 DEF NetTypeOK

LEMMA ReplyReadType ==
  ASSUME NetTypeOK, NEW c \in Clients, down[c] # << >>
  PROVE  [down EXCEPT ![c] = Tail(@)] \in [Clients -> Seq({0, 1})]
<1>1. Tail(down[c]) \in Seq({0, 1})
  BY DEF NetTypeOK
<1> QED
  BY <1>1 DEF NetTypeOK

LEMMA CloseSocketsType ==
  ASSUME NetTypeOK, NEW S, NEW queue \in [Conns -> Seq(Messages)], CloseSockets(S, queue)
  PROVE  link' \in [Conns -> LinkStates] /\ up' \in [Conns -> Seq(Messages)]
<1>1. << >> \in Seq(Messages)
  OBVIOUS
<1> QED
  BY <1>1 DEF NetTypeOK, CloseSockets, LinkStates
-----------------------------------------------------------------------------
(* Type correctness                                                        *)

LEMMA InitType == Init => TypeOK
<1> SUFFICES ASSUME Init PROVE TypeOK
  OBVIOUS
<1>1. NetTypeOK
  BY DEF Init, NetInit, NetTypeOK, LinkStates
<1>2. ClientTypeOK
  BY DEF Init, ClientInit, ClientTypeOK, ClientStates, WorkerStates
<1>3. ServerTypeOK
  BY DEF Init, ServerInit, ServerTypeOK
<1> QED
  BY <1>1, <1>2, <1>3 DEF TypeOK

LEMMA ClientStepType ==
  ASSUME TypeOK, NEW c \in Clients, ClientStep(c)
  PROVE  NetTypeOK' /\ ClientTypeOK'
<1> USE DEF TypeOK, ClientTypeOK, ClientStates, WorkerStates, Ended
<1>1. CASE ClientConnect(c)
  <2>1. NetTypeOK'
    BY <1>1, MainIsConn, ConnectType DEF ClientConnect, NetTypeOK
  <2>2. ClientTypeOK'
    BY <1>1 DEF ClientConnect
  <2> QED
    BY <2>1, <2>2
<1>2. CASE ConnectRefused(c)
  BY <1>2 DEF ConnectRefused, netVars, NetTypeOK
<1>8. CASE WriteThrows(c)
  BY <1>8 DEF WriteThrows, netVars, NetTypeOK
<1>3. CASE SendHello(c)
  <2>1. NetTypeOK'
    BY <1>3, MainIsConn, MessageTypes, TransmitType DEF SendHello, NetTypeOK
  <2>2. ClientTypeOK'
    BY <1>3 DEF SendHello
  <2> QED
    BY <2>1, <2>2
<1>4. CASE SendNegotiation(c)
  <2>1. NetTypeOK'
    BY <1>4, MainIsConn, MessageTypes, TransmitType, ReplyReadType DEF SendNegotiation, NetTypeOK
  <2>2. ClientTypeOK'
    BY <1>4 DEF SendNegotiation
  <2> QED
    BY <2>1, <2>2
<1>5. CASE StartTransfer(c)
  <2>1. NetTypeOK'
    BY <1>5, ReplyReadType DEF StartTransfer, NetTypeOK
  <2>2. ClientTypeOK'
    BY <1>5 DEF StartTransfer
  <2> QED
    BY <2>1, <2>2
<1>6. CASE GiveUp(c)
  <2>1. NetTypeOK'
    BY <1>6, ShutType DEF GiveUp, NetTypeOK
  <2>2. ClientTypeOK'
    BY <1>6 DEF GiveUp
  <2> QED
    BY <2>1, <2>2
<1>7. CASE JoinThreads(c)
  <2>1. NetTypeOK'
    BY <1>7, ShutType DEF JoinThreads, NetTypeOK
  <2>2. ClientTypeOK'
    BY <1>7 DEF JoinThreads
  <2> QED
    BY <2>1, <2>2
<1> QED
  BY <1>1, <1>2, <1>3, <1>4, <1>5, <1>6, <1>7, <1>8 DEF ClientStep

LEMMA TakeType ==
  ASSUME TypeOK, NEW w \in Workers, NEW order \in Nat, NEW size \in {0, 1}, Take(w, order, size)
  PROVE  /\ NetTypeOK'
         /\ hold' \in [Workers -> [order : Nat, size : {0, 1}]]
         /\ wk' \in [Workers -> WorkerStates]
         /\ cl' = cl
<1>1. NetTypeOK'
  BY DEF Take, netVars, TypeOK, NetTypeOK
<1>2. [order |-> order, size |-> size] \in [order : Nat, size : {0, 1}]
  OBVIOUS
<1> QED
  BY <1>1, <1>2 DEF Take, TypeOK, ClientTypeOK, WorkerStates

LEMMA WorkerStepType ==
  ASSUME TypeOK, NEW w \in Workers, WorkerStep(w)
  PROVE  NetTypeOK' /\ ClientTypeOK'
<1> USE DEF TypeOK
<1>w. w \in Conns /\ w[1] \in Clients
  BY WorkerIsConn
<1>h. hold[w].order \in Nat /\ hold[w].size \in {0, 1}
  BY DEF ClientTypeOK
<1>1. CASE WorkerConnect(w)
  BY <1>1, <1>w, ConnectType DEF WorkerConnect, NetTypeOK, ClientTypeOK, WorkerStates
<1>2. CASE SendInit(w)
  <2>1. NetTypeOK'
    BY <1>2, <1>w, MessageTypes, TransmitType DEF SendInit, NetTypeOK
  <2> QED
    BY <1>2, <2>1 DEF SendInit, ClientTypeOK, WorkerStates
<1>3. CASE ReadFull(w)
  <2>1. next[w[1]] \in Nat
    BY <1>w DEF ClientTypeOK
  <2> QED
    BY <1>3, <1>w, <2>1, TakeType DEF ReadFull, ClientTypeOK
<1>4. CASE ReadRest(w)
  <2>1. next[w[1]] \in Nat
    BY <1>w DEF ClientTypeOK
  <2>2. Take(w, next[w[1]], IF ShortPiece THEN 1 ELSE 0)
    BY <1>4 DEF ReadRest
  <2> QED
    BY <1>4, <1>w, <2>1, <2>2, TakeType DEF ReadRest, ClientTypeOK
<1>5. CASE ReadAtEnd(w)
  <2>1. PICK order \in GarbageOrders : Take(w, order, 0)
    BY <1>5 DEF ReadAtEnd
  <2> QED
    BY <1>5, <2>1, <1>w, TakeType, ClientAssumption DEF ReadAtEnd, ClientTypeOK
<1>6. CASE SendPiece(w)
  <2>1. NetTypeOK'
    BY <1>6, <1>w, <1>h, MessageTypes, TransmitType DEF SendPiece, NetTypeOK
  <2> QED
    BY <1>6, <2>1 DEF SendPiece, ClientTypeOK, WorkerStates
<1>7. CASE SendFinish(w)
  <2>1. NetTypeOK'
    BY <1>7, <1>w, MessageTypes, TransmitType, ShutType DEF SendFinish, NetTypeOK
  <2> QED
    BY <1>7, <2>1 DEF SendFinish, ClientTypeOK, WorkerStates
<1> QED
  BY <1>1, <1>2, <1>3, <1>4, <1>5, <1>6, <1>7 DEF WorkerStep

LEMMA ClientFaultType ==
  ASSUME TypeOK, ClientFault
  PROVE  NetTypeOK' /\ ClientTypeOK'
<1> USE DEF TypeOK, ClientTypeOK, ClientStates, Ended
<1>f. Faulty \subseteq Clients
  BY ClientAssumption
<1>1. CASE \E c \in Faulty : SourceMissing(c)
  BY <1>1, <1>f, ShutType DEF SourceMissing, NetTypeOK
<1>4. CASE \E c \in Faulty : SourceUnreadable(c)
  BY <1>4, <1>f DEF SourceUnreadable, netVars, NetTypeOK
<1>2. CASE \E c \in Faulty : Kill(c)
  <2>1. PICK c \in Clients : Kill(c)
    BY <1>2, <1>f
  <2>2. NetTypeOK'
    BY <2>1, ShutType DEF Kill, NetTypeOK
  <2> QED
    BY <2>1, <2>2 DEF Kill
<1>3. CASE \E k \in Conns : Cut(k)
  BY <1>3 DEF Cut, NetTypeOK, LinkStates, clientVars
<1>5. CASE \E k \in Conns : Silence(k)
  BY <1>5 DEF Silence, NetTypeOK, LinkStates, clientVars
<1> QED
  BY <1>1, <1>2, <1>3, <1>4, <1>5 DEF ClientFault

LEMMA CleanType ==
  ASSUME TypeOK, NEW ch \in SUBSET Clients, NEW sl \in SUBSET Clients, NEW st, NEW shut,
         NEW queue \in [Conns -> Seq(Messages)], Clean(ch, sl, st, shut, queue)
  PROVE  /\ accepting' \in Conns \cup {None}
         /\ children' \subseteq Clients /\ s_list' \subseteq Clients
         /\ link' \in [Conns -> LinkStates] /\ up' \in [Conns -> Seq(Messages)]
BY CloseSocketsType DEF Clean, TypeOK

LEMMA TerminateType ==
  ASSUME TypeOK, Terminate
  PROVE  NetTypeOK' /\ ServerTypeOK'
<1>1. << >> \in Seq(Messages) /\ << >> \in Seq(Conns)
  OBVIOUS
<1>2. NetTypeOK'
  BY <1>1 DEF Terminate, TypeOK, NetTypeOK, LinkStates
<1>3. ServerTypeOK'
  BY DEF Terminate, TypeOK, ServerTypeOK, registryVars, sessionVars, threadVars
<1> QED
  BY <1>2, <1>3

LEMMA OpenSessionType ==
  ASSUME TypeOK, OpenSession
  PROVE  NetTypeOK' /\ ServerTypeOK'
<1> DEFINE c == accepting[1]
<1>1. accepting \in Conns /\ c \in Clients /\ Readable(accepting) /\ listening
  BY DEF OpenSession, Incoming, TypeOK, ServerTypeOK, Conns
<1>2. Unread(accepting) \in [Conns -> Seq(Messages)]
  BY <1>1, UnreadType DEF TypeOK
<1>3. children \cup {c} \in SUBSET Clients /\ s_list \cup {c} \in SUBSET Clients
  BY <1>1 DEF TypeOK, ServerTypeOK
<1>4. PICK result : result \in HelloVerify(Head(up[accepting])) /\
        (\/ result = Thrown /\ Terminate
         \/ /\ result = 0
            /\ Clean(children \cup {c}, s_list \cup {c}, status, {}, Unread(accepting))
            /\ down' = IF link[accepting] = "open"
                         THEN [down EXCEPT ![c] = Append(@, 0)] ELSE down
            /\ handler' = [handler EXCEPT ![c] = "helloSent"]
            /\ UNCHANGED <<listening, backlog, status, number, threadVars, fileVars>>
         \/ /\ result \in {1, 2}
            /\ status' = [status EXCEPT ![c] = "FINISHED"]
            /\ Clean(children \cup {c}, s_list \cup {c}, status', {}, Unread(accepting))
            /\ UNCHANGED <<listening, backlog, down, handler, number, threadVars, fileVars>>)
  BY DEF OpenSession
<1>5. CASE Terminate
  BY <1>5, TerminateType
<1>6. CASE Clean(children \cup {c}, s_list \cup {c}, status, {}, Unread(accepting))
           /\ down' = (IF link[accepting] = "open"
                         THEN [down EXCEPT ![c] = Append(@, 0)] ELSE down)
           /\ handler' = [handler EXCEPT ![c] = "helloSent"]
           /\ UNCHANGED <<listening, backlog, status, number, threadVars, fileVars>>
  <2>1. down' \in [Clients -> Seq({0, 1})]
    BY <1>1, <1>6, ReplyType DEF TypeOK, NetTypeOK
  <2>2. NetTypeOK'
    BY <1>2, <1>3, <1>6, <2>1, CleanType DEF TypeOK, NetTypeOK
  <2>3. ServerTypeOK'
    BY <1>2, <1>3, <1>6, CleanType DEF TypeOK, ServerTypeOK, threadVars, fileVars
  <2> QED
    BY <2>2, <2>3
<1>7. CASE /\ status' = [status EXCEPT ![c] = "FINISHED"]
           /\ Clean(children \cup {c}, s_list \cup {c}, status', {}, Unread(accepting))
           /\ UNCHANGED <<listening, backlog, down, handler, number, threadVars, fileVars>>
  <2>2. NetTypeOK'
    BY <1>2, <1>3, <1>7, CleanType DEF TypeOK, NetTypeOK
  <2>3. ServerTypeOK'
    BY <1>2, <1>3, <1>7, CleanType DEF TypeOK, ServerTypeOK, threadVars, fileVars
  <2> QED
    BY <2>2, <2>3
<1> QED
  BY <1>4, <1>5, <1>6, <1>7

LEMMA AcceptType ==
  ASSUME TypeOK, AcceptStep \/ AcceptError
  PROVE  NetTypeOK' /\ ServerTypeOK'
<1> USE DEF TypeOK, registryVars, sessionVars, threadVars, fileVars
<1>q. up \in [Conns -> Seq(Messages)] /\ children \in SUBSET Clients /\ s_list \in SUBSET Clients
  BY DEF NetTypeOK, ServerTypeOK
<1>1. CASE AcceptConnection
  <2>1. backlog \in Seq(Conns) /\ backlog # << >>
    BY <1>1 DEF AcceptConnection, NetTypeOK
  <2>2. Head(backlog) \in Conns /\ Tail(backlog) \in Seq(Conns)
    BY <2>1
  <2> QED
    BY <1>1, <2>2 DEF AcceptConnection, NetTypeOK, ServerTypeOK
<1>2. CASE AcceptError
  BY <1>2, <1>q, CleanType DEF AcceptError, NetTypeOK, ServerTypeOK
<1>3. CASE AcceptNothing
  BY <1>3, <1>q, CleanType DEF AcceptNothing, NetTypeOK, ServerTypeOK
<1>4. CASE OpenSession
  BY <1>4, OpenSessionType
<1>5. CASE AttachThread
  <2>1. accepting \in Conns /\ accepting[1] \in Clients /\ Readable(accepting)
    BY <1>5 DEF AttachThread, Incoming, ServerTypeOK, Conns
  <2>2. Unread(accepting) \in [Conns -> Seq(Messages)]
    BY <2>1, UnreadType
  <2>3. Clean(children, s_list, status, {}, Unread(accepting))
    BY <1>5 DEF AttachThread
  <2>4. NetTypeOK'
    BY <1>5, <1>q, <2>2, <2>3, CleanType DEF AttachThread, NetTypeOK
  <2>5. number[accepting[1]] \in Int
    BY <2>1 DEF ServerTypeOK
  <2>6. /\ thread' \in [Workers -> {"none", "head", "body", "done", "dead"}]
        /\ id' \in [Workers -> Int]
        /\ number' \in [Clients -> Int]
    <3>1. /\ thread' = [thread EXCEPT ![accepting] = "head"]
          /\ id' = [id EXCEPT ![accepting] = number[accepting[1]]]
          /\ number' = [number EXCEPT ![accepting[1]] = number[accepting[1]] + 1]
      BY <1>5 DEF AttachThread
    <3>2. /\ thread \in [Workers -> {"none", "head", "body", "done", "dead"}]
          /\ id \in [Workers -> Int]
          /\ number \in [Clients -> Int]
      BY DEF ServerTypeOK
    <3> HIDE DEF TypeOK
    <3>3. thread' \in [Workers -> {"none", "head", "body", "done", "dead"}]
      BY <3>1, <3>2
    <3>4. id' \in [Workers -> Int]
      BY <3>1, <3>2, <2>5
    <3>c. number[accepting[1]] + 1 \in Int
      BY <2>5
    <3>5. number' \in [Clients -> Int]
      BY <3>1, <3>2, <3>c, Zenon
    <3> QED
      BY <3>3, <3>4, <3>5
  <2>7. /\ accepting' \in Conns \cup {None}
        /\ children' \subseteq Clients /\ s_list' \subseteq Clients
    BY <1>q, <2>2, <2>3, CleanType
  <2>8. ServerTypeOK'
    BY <1>5, <2>6, <2>7 DEF AttachThread, ServerTypeOK
  <2> QED
    BY <2>4, <2>8
<1>6. CASE RejectThread
  BY <1>6, <1>q, CleanType DEF RejectThread, NetTypeOK, ServerTypeOK
<1> QED
  BY <1>1, <1>2, <1>3, <1>4, <1>5, <1>6 DEF AcceptStep

LEMMA SessionStepType ==
  ASSUME TypeOK, NEW c \in Clients, SessionStep(c)
  PROVE  NetTypeOK' /\ ServerTypeOK'
<1> USE DEF TypeOK, ServerTypeOK, Handle, registryVars, sessionVars, threadVars, fileVars
<1>1. CASE HelloSent(c)
  BY <1>1 DEF HelloSent, netVars, NetTypeOK
<1>2. CASE ReadNegotiationHead(c)
  BY <1>2 DEF ReadNegotiationHead, netVars, NetTypeOK
<1>3. CASE OpenFile(c)
  <2>1. PICK result \in {0, 1} :
          /\ file' = [file EXCEPT ![c] = IF result = 0 THEN "good" ELSE "none"]
          /\ status' = [status EXCEPT ![c] = IF result = 0 THEN @ ELSE "FINISHED"]
          /\ down' = IF link[<<c, Main>>] = "open"
                       THEN [down EXCEPT ![c] = Append(@, result)] ELSE down
    BY <1>3 DEF OpenFile
  <2>2. down' \in [Clients -> Seq({0, 1})]
    BY <2>1, ReplyType DEF NetTypeOK
  <2>3. up' \in [Conns -> Seq(Messages)]
    BY <1>3, MainIsConn, UnreadType DEF OpenFile
  <2>4. NetTypeOK'
    BY <1>3, <2>2, <2>3 DEF OpenFile, NetTypeOK
  <2>5. ServerTypeOK'
    BY <1>3, <2>1 DEF OpenFile
  <2> QED
    BY <2>4, <2>5
<1>4. CASE NegotiationSent(c)
  BY <1>4 DEF NegotiationSent, netVars, NetTypeOK
<1>5. CASE SessionReadError(c)
  BY <1>5 DEF SessionReadError, netVars, NetTypeOK
<1> QED
  BY <1>1, <1>2, <1>3, <1>4, <1>5 DEF SessionStep

LEMMA StoreType ==
  ASSUME TypeOK, NEW c \in Clients, NEW m \in Messages, m.type = "data",
         Store(c, m)
  PROVE  /\ file' \in [Clients -> {"none", "good", "bad", "closed"}]
         /\ disk' \in [Clients -> SUBSET Nat]
         /\ damaged' \in [Clients -> SUBSET Nat]
         /\ buf' \in [Clients -> SUBSET Nat]
<1>1. m.order \in Nat
  BY DEF Messages
<1> QED
  BY <1>1 DEF Store, TypeOK, ServerTypeOK

LEMMA CloseType ==
  ASSUME TypeOK, NEW c \in Clients, CloseFile(c)
  PROVE  /\ file' \in [Clients -> {"none", "good", "bad", "closed"}]
         /\ disk' \in [Clients -> SUBSET Nat]
         /\ damaged' \in [Clients -> SUBSET Nat]
         /\ buf' \in [Clients -> SUBSET Nat]
<1>t. /\ file \in [Clients -> {"none", "good", "bad", "closed"}]
      /\ disk \in [Clients -> SUBSET Nat]
      /\ damaged \in [Clients -> SUBSET Nat]
      /\ buf \in [Clients -> SUBSET Nat]
  BY DEF TypeOK, ServerTypeOK
<1>1. Astray(buf[c]) \subseteq Nat /\ Astray(Astray(buf[c])) \subseteq Nat
  BY <1>t DEF Astray
<1>2. CASE disk' = [disk EXCEPT ![c] = @ \cup buf[c]] /\ UNCHANGED damaged
  BY <1>t, <1>2 DEF CloseFile
<1>3. ASSUME NEW D \in Misplaced(c),
             disk' = [disk EXCEPT ![c] = @ \ D], damaged' = [damaged EXCEPT ![c] = @ \cup D]
      PROVE  disk' \in [Clients -> SUBSET Nat] /\ damaged' \in [Clients -> SUBSET Nat]
  <2>1. D \subseteq Nat
    BY <1>t, <1>1, <1>3 DEF Misplaced
  <2> QED
    BY <1>t, <1>3, <2>1
<1>4. /\ file' \in [Clients -> {"none", "good", "bad", "closed"}]
      /\ buf' \in [Clients -> SUBSET Nat]
  BY <1>t DEF CloseFile
<1> QED
  BY <1>2, <1>3, <1>4 DEF CloseFile

\* A Thread's handler reads data packets only: the init message is taken by
\* the accept handler, and every other message is one.
LEMMA HeadIsData ==
  ASSUME TypeOK, ChannelsInOrder, NEW w \in Workers, Readable(w), thread[w] # "none"
  PROVE  Head(up[w]) \in Messages /\ Head(up[w]).type = "data"
<1>1. w \in Conns
  BY WorkerIsConn
<1>2. Head(up[w]) \in Messages
  BY <1>1, UnreadType DEF TypeOK
<1>3. up[w] \in Seq(Messages) /\ up[w] # << >>
  BY <1>1 DEF TypeOK, NetTypeOK, Readable
<1>4. 1 \in DOMAIN up[w] /\ Head(up[w]) = up[w][1]
  BY <1>3
<1> QED
  BY <1>2, <1>4 DEF ChannelsInOrder, WorkerInOrder

LEMMA ThreadStepType ==
  ASSUME TypeOK, ChannelsInOrder, NEW w \in Workers, ThreadStep(w)
  PROVE  NetTypeOK' /\ ServerTypeOK'
<1> USE DEF TypeOK, Advance, registryVars, sessionVars, threadVars, fileVars
<1>w. w \in Conns /\ w[1] \in Clients
  BY WorkerIsConn
<1>1. CASE ReadHead(w)
  BY <1>1 DEF ReadHead, netVars, NetTypeOK, ServerTypeOK
<1>2. CASE WriteFile(w)
  <2>1. Unread(w) \in [Conns -> Seq(Messages)]
    BY <1>2, <1>w, UnreadType DEF WriteFile
  <2>2. NetTypeOK'
    BY <1>2, <2>1 DEF WriteFile, NetTypeOK
  <2>3. /\ file' \in [Clients -> {"none", "good", "bad", "closed"}]
        /\ disk' \in [Clients -> SUBSET Nat]
        /\ damaged' \in [Clients -> SUBSET Nat]
        /\ buf' \in [Clients -> SUBSET Nat]
    <3>1. CASE UNCHANGED fileVars
      BY <3>1 DEF ServerTypeOK
    <3>2. CASE Store(w[1], Head(up[w]))
      BY <1>2, <1>w, <3>2, HeadIsData, StoreType DEF WriteFile
    <3> QED
      BY <1>2, <3>1, <3>2 DEF WriteFile
  <2>4. ServerTypeOK'
    BY <1>2, <2>3 DEF WriteFile, ServerTypeOK
  <2> QED
    BY <2>2, <2>4
<1>3. CASE FinishThread(w)
  <2>1. Unread(w) \in [Conns -> Seq(Messages)]
    BY <1>3, <1>w, UnreadType DEF FinishThread
  <2>2. NetTypeOK'
    BY <1>3, <2>1 DEF FinishThread, NetTypeOK
  <2>3. /\ file' \in [Clients -> {"none", "good", "bad", "closed"}]
        /\ disk' \in [Clients -> SUBSET Nat]
        /\ damaged' \in [Clients -> SUBSET Nat]
        /\ buf' \in [Clients -> SUBSET Nat]
        /\ status' \in [Clients -> {"NOTSET", "NEGOTIATED", "FINISHED"}]
    <3>1. CASE UNCHANGED <<status, fileVars>>
      BY <3>1 DEF ServerTypeOK
    <3>2. CASE status' = [status EXCEPT ![w[1]] = "FINISHED"] /\ CloseFile(w[1])
      BY <1>w, <3>2, CloseType DEF ServerTypeOK
    <3> QED
      BY <1>3, <3>1, <3>2 DEF FinishThread
  <2>4. number[w[1]] - 1 \in Int
    BY <1>w DEF ServerTypeOK
  <2>5. number' = [number EXCEPT ![w[1]] = number[w[1]] - 1] /\ number \in [Clients -> Int]
    BY <1>3 DEF FinishThread, ServerTypeOK
  <2>6. number' \in [Clients -> Int]
    BY <2>4, <2>5, Zenon
  <2>7. ServerTypeOK'
    BY <1>3, <2>3, <2>6 DEF FinishThread, ServerTypeOK
  <2> QED
    BY <2>2, <2>7
<1>4. CASE FinishOrphan(w)
  BY <1>4, TerminateType DEF FinishOrphan
<1>5. CASE ThreadReadError(w)
  BY <1>5 DEF ThreadReadError, netVars, NetTypeOK, ServerTypeOK
<1> QED
  BY <1>1, <1>2, <1>3, <1>4, <1>5 DEF ThreadStep

LEMMA NextType ==
  ASSUME TypeOK, ChannelsInOrder, [Next]_vars
  PROVE  TypeOK'
<1>1. CASE ClientNext
  <2>1. NetTypeOK' /\ ClientTypeOK'
    BY <1>1, ClientStepType, WorkerStepType, ClientFaultType DEF ClientNext
  <2>2. ServerTypeOK'
    BY <1>1 DEF ClientNext, TypeOK, ServerTypeOK, serverVars, registryVars, sessionVars,
                threadVars, fileVars
  <2> QED
    BY <2>1, <2>2 DEF TypeOK
<1>2. CASE ServerNext
  <2>1. NetTypeOK' /\ ServerTypeOK'
    BY <1>2, AcceptType, SessionStepType, ThreadStepType DEF ServerNext
  <2>2. ClientTypeOK'
    BY <1>2 DEF ServerNext, TypeOK, ClientTypeOK, clientVars
  <2> QED
    BY <2>1, <2>2 DEF TypeOK
<1>3. CASE UNCHANGED vars
  BY <1>3 DEF vars, netVars, clientVars, serverVars, registryVars, sessionVars, threadVars,
              fileVars, TypeOK, NetTypeOK, ClientTypeOK, ServerTypeOK
<1> QED
  BY <1>1, <1>2, <1>3 DEF Next, Idle
-----------------------------------------------------------------------------
(* The order of the messages on each connection                            *)

\* The worker threads of a client start after its negotiation.
Started == {"transfer"} \cup Ended
WorkersWait == \A w \in Workers : wk[w] # "off" => cl[w[1]] \in Started

LEMMA InitWait == Init => WorkersWait
  BY DEF Init, ClientInit, WorkersWait

LEMMA NextWait ==
  ASSUME TypeOK, WorkersWait, [Next]_vars
  PROVE  WorkersWait'
<1> USE DEF WorkersWait, Started, Ended
<1>1. CASE UNCHANGED <<cl, wk>>
  BY <1>1
<1>2. ASSUME NEW c \in Clients, cl' = [cl EXCEPT ![c] = cl'[c]], cl'[c] \in Started, UNCHANGED wk
      PROVE  WorkersWait'
  BY <1>2, WorkerIsConn DEF TypeOK, ClientTypeOK
<1>3. ASSUME NEW c \in Clients, cl' = [cl EXCEPT ![c] = cl'[c]], cl[c] \notin Started, UNCHANGED wk
      PROVE  WorkersWait'
  BY <1>3, WorkerIsConn DEF TypeOK, ClientTypeOK
<1>4. ASSUME NEW w \in Workers, Running(w, wk[w]), UNCHANGED cl, wk' = [wk EXCEPT ![w] = wk'[w]]
      PROVE  WorkersWait'
  BY <1>4, WorkerIsConn DEF TypeOK, ClientTypeOK, Running
<1>5. ASSUME NEW c \in Clients, ClientStep(c) PROVE WorkersWait'
  <2>1. CASE ClientConnect(c)
    BY <2>1, <1>3 DEF ClientConnect, TypeOK, ClientTypeOK
  <2>2. CASE ConnectRefused(c)
    BY <2>2, <1>2 DEF ConnectRefused, TypeOK, ClientTypeOK
  <2>8. CASE WriteThrows(c)
    BY <2>8, <1>2 DEF WriteThrows, TypeOK, ClientTypeOK
  <2>3. CASE SendHello(c)
    BY <2>3, <1>3 DEF SendHello, TypeOK, ClientTypeOK
  <2>4. CASE SendNegotiation(c)
    BY <2>4, <1>3 DEF SendNegotiation, TypeOK, ClientTypeOK
  <2>5. CASE StartTransfer(c)
    BY <2>5, WorkerIsConn DEF StartTransfer, TypeOK, ClientTypeOK
  <2>6. CASE GiveUp(c)
    BY <2>6, <1>2 DEF GiveUp, TypeOK, ClientTypeOK
  <2>7. CASE JoinThreads(c)
    BY <2>7, <1>2 DEF JoinThreads, TypeOK, ClientTypeOK
  <2> QED
    BY <1>5, <2>1, <2>2, <2>3, <2>4, <2>5, <2>6, <2>7, <2>8 DEF ClientStep
<1>6. ASSUME NEW w \in Workers, WorkerStep(w) PROVE WorkersWait'
  <2>1. wk' = [wk EXCEPT ![w] = wk'[w]] /\ UNCHANGED cl /\ Running(w, wk[w])
    BY <1>6 DEF WorkerStep, WorkerConnect, SendInit, ReadFull, ReadRest, ReadAtEnd, Take,
                SendPiece, SendFinish, Running, TypeOK, ClientTypeOK
  <2> QED
    BY <2>1, <1>4
<1>7. ASSUME ClientFault PROVE WorkersWait'
  <2>1. CASE \E c \in Clients : SourceMissing(c)
    BY <2>1, <1>2 DEF SourceMissing, TypeOK, ClientTypeOK
  <2>4. CASE \E c \in Clients : SourceUnreadable(c)
    BY <2>4 DEF SourceUnreadable
  <2>2. CASE \E c \in Clients : Kill(c)
    BY <2>2, <1>2 DEF Kill, TypeOK, ClientTypeOK
  <2>3. CASE \E k \in Conns : Cut(k) \/ Silence(k)
    BY <2>3, <1>1 DEF Cut, Silence, clientVars
  <2> QED
    BY <1>7, <2>1, <2>2, <2>3, <2>4, ClientAssumption DEF ClientFault
<1> QED
  BY <1>1, <1>5, <1>6, <1>7 DEF Next, ClientNext, ServerNext, Idle, vars, clientVars

LEMMA InitInOrder == Init => ChannelsInOrder
  BY DEF Init, NetInit, ClientInit, ServerInit, ChannelsInOrder, MainInOrder, WorkerInOrder,
         Early, Conns, Workers

\* Nothing new is sent, no connection opens, no thread is attached.
Quiet ==
  /\ \A k \in Conns : \/ up'[k] = up[k] /\ (link'[k] = "open" => link[k] = "open")
                      \/ up'[k] = << >> /\ link'[k] # "open"
  /\ \A w \in Workers : /\ thread'[w] = "none" <=> thread[w] = "none"
                        /\ wk'[w] \in Early <=> wk[w] \in Early

LEMMA QuietInOrder ==
  ASSUME ChannelsInOrder, Quiet
  PROVE  ChannelsInOrder'
<1>1. ASSUME NEW c \in Clients PROVE MainInOrder(c)'
  <2>1. up'[<<c, Main>>] \in {up[<<c, Main>>], << >>}
    BY MainIsConn DEF Quiet
  <2> QED
    BY <2>1 DEF ChannelsInOrder, MainInOrder
<1>2. ASSUME NEW w \in Workers PROVE WorkerInOrder(w)'
  <2>1. w \in Conns /\ WorkerInOrder(w)
    BY WorkerIsConn DEF ChannelsInOrder
  <2> QED
    BY <2>1 DEF Quiet, WorkerInOrder
<1> QED
  BY <1>1, <1>2 DEF ChannelsInOrder

LEMMA ShutIsQuiet ==
  ASSUME TypeOK, NEW S, Shut(S), UNCHANGED <<up, thread, wk>>
  PROVE  Quiet
  BY DEF Shut, Quiet, TypeOK, NetTypeOK

LEMMA CloseSocketsIsQuiet ==
  ASSUME TypeOK, NEW S, CloseSockets(S, up), UNCHANGED <<thread, wk>>
  PROVE  Quiet
  BY DEF CloseSockets, Quiet, TypeOK, NetTypeOK

LEMMA TerminateIsQuiet ==
  ASSUME TypeOK, Terminate, UNCHANGED wk
  PROVE  Quiet
  BY DEF Terminate, Quiet, TypeOK, NetTypeOK, threadVars

LEMMA TransmitEffect ==
  ASSUME TypeOK, NEW k \in Conns, NEW m \in Messages, Transmit(k, m)
  PROVE  /\ \A j \in Conns : j # k => up'[j] = up[j]
         /\ link[k] # "open" => up'[k] = up[k]
         /\ link[k] = "open" =>
              /\ DOMAIN up'[k] = 1 .. Len(up[k]) + 1
              /\ \A i \in DOMAIN up[k] : up'[k][i] = up[k][i]
              /\ up'[k][Len(up[k]) + 1] = m
         /\ DOMAIN up[k] = 1 .. Len(up[k]) /\ Len(up[k]) \in Nat
         /\ Len(up[k]) = 0 => up[k] = << >>
<1>1. up \in [Conns -> Seq(Messages)] /\ up[k] \in Seq(Messages)
  BY DEF TypeOK, NetTypeOK
<1>2. CASE link[k] = "open"
  <2>1. up' = [up EXCEPT ![k] = Append(up[k], m)]
    BY <1>2 DEF Transmit
  <2>2. up'[k] = Append(up[k], m)
    BY <1>1, <2>1
  <2> QED
    BY <1>1, <1>2, <2>1, <2>2
<1> QED
  BY <1>1, <1>2 DEF Transmit

LEMMA MainSendInOrder ==
  ASSUME TypeOK, ChannelsInOrder, NEW c \in Clients, NEW m \in Messages,
         m.type \in {"hello", "negotiation"}, Transmit(<<c, Main>>, m),
         UNCHANGED <<link, wk, thread>>
  PROVE  ChannelsInOrder'
<1>1. ASSUME NEW d \in Clients PROVE MainInOrder(d)'
  <2>1. MainInOrder(d) /\ <<d, Main>> \in Conns /\ <<c, Main>> \in Conns
    BY MainIsConn DEF ChannelsInOrder
  <2>2. CASE d # c \/ link[<<c, Main>>] # "open"
    BY <2>1, <2>2, TransmitEffect DEF MainInOrder
  <2>3. CASE d = c /\ link[<<c, Main>>] = "open"
    BY <2>1, <2>3, TransmitEffect DEF MainInOrder
  <2> QED
    BY <2>2, <2>3
<1>2. ASSUME NEW w \in Workers PROVE WorkerInOrder(w)'
  <2>1. up'[w] = up[w] /\ WorkerInOrder(w)
    BY MainIsConn, WorkerIsConn, TransmitEffect DEF ChannelsInOrder
  <2> QED
    BY <2>1 DEF WorkerInOrder
<1> QED
  BY <1>1, <1>2 DEF ChannelsInOrder

\* Worker w sends m: as its first message, or a data packet after the first.
LEMMA WorkerSendInOrder ==
  ASSUME TypeOK, ChannelsInOrder, NEW w \in Workers, NEW m \in Messages, Transmit(w, m),
         \/ wk[w] \in Early /\ m.type = "init"
         \/ wk[w] \notin Early /\ m.type = "data",
         wk'[w] \notin Early, \A v \in Workers : v # w => wk'[v] = wk[v],
         \A k \in Conns : link'[k] = "open" => link[k] = "open",
         UNCHANGED thread
  PROVE  ChannelsInOrder'
<1>w. w \in Conns /\ \A c \in Clients : w # <<c, Main>>
  BY WorkerIsConn
<1>1. ASSUME NEW c \in Clients PROVE MainInOrder(c)'
  BY <1>w, MainIsConn, TransmitEffect DEF ChannelsInOrder, MainInOrder
<1>2. ASSUME NEW v \in Workers, v # w PROVE WorkerInOrder(v)'
  <2>1. v \in Conns /\ up'[v] = up[v] /\ wk'[v] = wk[v] /\ WorkerInOrder(v)
    BY <1>2, <1>w, WorkerIsConn, TransmitEffect DEF ChannelsInOrder
  <2> QED
    BY <2>1 DEF WorkerInOrder
<1>3. WorkerInOrder(w)'
  <2>1. WorkerInOrder(w)
    BY DEF ChannelsInOrder
  <2>2. CASE link[w] # "open"
    <3>1. up'[w] = up[w] /\ link'[w] # "open"
      BY <2>2, <1>w, TransmitEffect
    <3>2. wk[w] \in Early => up[w] = << >> /\ thread[w] = "none"
      BY <2>1 DEF WorkerInOrder
    <3> QED
      BY <2>1, <3>1, <3>2 DEF WorkerInOrder
  <2>3. CASE link[w] = "open"
    <3>1. /\ DOMAIN up'[w] = 1 .. Len(up[w]) + 1
          /\ \A i \in DOMAIN up[w] : up'[w][i] = up[w][i]
          /\ up'[w][Len(up[w]) + 1] = m
          /\ DOMAIN up[w] = 1 .. Len(up[w]) /\ Len(up[w]) \in Nat
          /\ Len(up[w]) = 0 => up[w] = << >>
      BY <2>3, <1>w, TransmitEffect
    <3>2. up'[w] # << >>
      BY <3>1
    <3>3. m.type = IF Len(up[w]) + 1 = 1 /\ thread[w] = "none" THEN "init" ELSE "data"
      <4>1. CASE wk[w] \in Early
        BY <4>1, <2>1 DEF WorkerInOrder
      <4>2. CASE wk[w] \notin Early
        BY <4>2, <2>1, <2>3, <3>1 DEF WorkerInOrder
      <4> QED
        BY <4>1, <4>2
    <3>4. ASSUME NEW i \in DOMAIN up'[w]
          PROVE  up'[w][i].type = IF i = 1 /\ thread[w] = "none" THEN "init" ELSE "data"
      <4>1. CASE i \in DOMAIN up[w]
        BY <4>1, <2>1, <3>1 DEF WorkerInOrder
      <4>2. CASE i = Len(up[w]) + 1
        BY <4>2, <3>1, <3>3
      <4> QED
        BY <3>1, <4>1, <4>2
    <3> QED
      BY <3>2, <3>4 DEF WorkerInOrder
  <2> QED
    BY <2>2, <2>3
<1> QED
  BY <1>1, <1>2, <1>3 DEF ChannelsInOrder

LEMMA ClientNextInOrder ==
  ASSUME TypeOK, WorkersWait, ChannelsInOrder, ClientNext
  PROVE  ChannelsInOrder'
<1>t. UNCHANGED thread
  BY DEF ClientNext, serverVars, threadVars
<1>1. ASSUME NEW c \in Clients, ClientStep(c) PROVE ChannelsInOrder'
  <2>1. CASE ClientConnect(c)
    <3>1. ASSUME NEW w \in Workers PROVE link'[w] = link[w]
      BY <2>1, WorkerIsConn DEF ClientConnect, Connect, TypeOK, NetTypeOK
    <3> QED
      BY <2>1, <3>1, <1>t DEF ClientConnect, ChannelsInOrder, MainInOrder, WorkerInOrder
  <2>2. CASE ConnectRefused(c)
    BY <2>2, <1>t, QuietInOrder DEF ConnectRefused, netVars, Quiet
  <2>8. CASE WriteThrows(c)
    BY <2>8, <1>t, QuietInOrder DEF WriteThrows, netVars, Quiet
  <2>3. CASE SendHello(c)
    <3>1. HelloMsg(c).type = "hello"
      BY DEF HelloMsg
    <3> QED
      BY <2>3, <3>1, <1>t, MessageTypes, MainSendInOrder DEF SendHello
  <2>4. CASE SendNegotiation(c)
    <3>1. NegotiationMsg(c).type = "negotiation"
      BY DEF NegotiationMsg
    <3> QED
      BY <2>4, <3>1, <1>t, MessageTypes, MainSendInOrder DEF SendNegotiation
  <2>5. CASE StartTransfer(c)
    <3>1. ASSUME NEW w \in Workers PROVE wk'[w] \in Early <=> wk[w] \in Early
      BY <2>5, WorkerIsConn DEF StartTransfer, TypeOK, ClientTypeOK, WorkersWait, Started, Ended, Early
    <3> QED
      BY <2>5, <3>1, <1>t, QuietInOrder DEF StartTransfer, Quiet
  <2>6. CASE GiveUp(c)
    BY <2>6, <1>t, ShutIsQuiet, QuietInOrder DEF GiveUp
  <2>7. CASE JoinThreads(c)
    BY <2>7, <1>t, ShutIsQuiet, QuietInOrder DEF JoinThreads
  <2> QED
    BY <1>1, <2>1, <2>2, <2>3, <2>4, <2>5, <2>6, <2>7, <2>8 DEF ClientStep
<1>2. ASSUME NEW w \in Workers, WorkerStep(w) PROVE ChannelsInOrder'
  <2>w. /\ w \in Conns /\ wk \in [Workers -> WorkerStates] /\ link \in [Conns -> LinkStates]
        /\ hold[w].order \in Nat /\ hold[w].size \in {0, 1} /\ w[1] \in Clients
    BY WorkerIsConn DEF TypeOK, NetTypeOK, ClientTypeOK
  <2>1. CASE WorkerConnect(w)
    <3>1. /\ up' = up /\ wk' = [wk EXCEPT ![w] = "connected"] /\ wk[w] = "start"
          /\ \A k \in Conns : k # w => link'[k] = link[k]
      BY <2>1, <2>w DEF WorkerConnect, Connect, Running
    <3>2. \A c \in Clients : MainInOrder(c)'
      BY <3>1 DEF ChannelsInOrder, MainInOrder
    <3>3. ASSUME NEW v \in Workers, v # w PROVE WorkerInOrder(v)'
      BY <3>1, <3>3, <2>w, <1>t, WorkerIsConn DEF ChannelsInOrder, WorkerInOrder
    <3>4. WorkerInOrder(w)'
      BY <3>1, <2>w, <1>t DEF ChannelsInOrder, WorkerInOrder, Early
    <3> QED
      BY <3>2, <3>3, <3>4 DEF ChannelsInOrder
  <2>2. CASE SendInit(w)
    <3>1. InitMsg(w[1]).type = "init" /\ InitMsg(w[1]) \in Messages
      BY <2>w, MessageTypes DEF InitMsg
    <3> QED
      BY <2>2, <2>w, <3>1, <1>t, WorkerSendInOrder DEF SendInit, Running, Early
  <2>3. CASE ReadFull(w) \/ ReadRest(w) \/ ReadAtEnd(w)
    <3>1. wk' = [wk EXCEPT ![w] = "sending"] /\ wk[w] = "reading" /\ UNCHANGED netVars
      BY <2>3 DEF ReadFull, ReadRest, ReadAtEnd, Take, Running
    <3>2. Quiet
      BY <3>1, <2>w, <1>t DEF Quiet, Early, netVars
    <3> QED
      BY <3>2, QuietInOrder
  <2>4. CASE SendPiece(w)
    <3>1. DataMsg(w[1], hold[w].order, hold[w].size).type = "data"
      BY DEF DataMsg
    <3> QED
      BY <2>4, <2>w, <3>1, <1>t, MessageTypes, WorkerSendInOrder DEF SendPiece, Running, Early
  <2>5. CASE SendFinish(w)
    <3>1. FinishMsg(w[1]).type = "data" /\ FinishMsg(w[1]) \in Messages
      BY <2>w, MessageTypes DEF FinishMsg, DataMsg
    <3>2. \A k \in Conns : link'[k] = "open" => link[k] = "open"
      BY <2>5, <2>w DEF SendFinish, Shut
    <3> QED
      BY <2>5, <2>w, <3>1, <3>2, <1>t, WorkerSendInOrder DEF SendFinish, Running, Early
  <2> QED
    BY <1>2, <2>1, <2>2, <2>3, <2>4, <2>5 DEF WorkerStep
<1>3. ASSUME ClientFault PROVE ChannelsInOrder'
  <2>1. CASE \E c \in Faulty : SourceMissing(c)
    BY <2>1, <1>t, ShutIsQuiet, QuietInOrder DEF SourceMissing
  <2>4. CASE \E c \in Faulty : SourceUnreadable(c)
    BY <2>4, <1>t, QuietInOrder DEF SourceUnreadable, netVars, Quiet
  <2>2. CASE \E c \in Faulty : Kill(c)
    BY <2>2, <1>t, ShutIsQuiet, QuietInOrder DEF Kill
  <2>3. CASE \E k \in Conns : Cut(k) \/ Silence(k)
    <3>1. Quiet
      BY <2>3, <1>t DEF Cut, Silence, Quiet, TypeOK, NetTypeOK, clientVars
    <3> QED
      BY <3>1, QuietInOrder
  <2> QED
    BY <1>3, <2>1, <2>2, <2>3, <2>4 DEF ClientFault
<1> QED
  BY <1>1, <1>2, <1>3 DEF ClientNext

\* Message Head(up[k]) is read from k, and connections may be closed.
Reading(k) ==
  \A j \in Conns : \/ /\ up'[j] = IF j = k THEN Tail(up[k]) ELSE up[j]
                      /\ link'[j] = "open" => link[j] = "open"
                   \/ up'[j] = << >> /\ link'[j] # "open"

LEMMA UnreadIsReading ==
  ASSUME TypeOK, NEW k \in Conns, up' = Unread(k), UNCHANGED link
  PROVE  Reading(k)
  BY DEF Unread, Reading, TypeOK, NetTypeOK

LEMMA CloseSocketsIsReading ==
  ASSUME TypeOK, NEW S, NEW k \in Conns, CloseSockets(S, Unread(k))
  PROVE  Reading(k)
  BY DEF CloseSockets, Unread, Reading, TypeOK, NetTypeOK

LEMMA ReadInOrder ==
  ASSUME TypeOK, ChannelsInOrder, NEW k \in Conns, up[k] # << >>, Reading(k),
         UNCHANGED wk,
         \A w \in Workers : w # k => (thread'[w] = "none" <=> thread[w] = "none"),
         k \in Workers => thread'[k] # "none"
  PROVE  ChannelsInOrder'
<1>1. /\ DOMAIN Tail(up[k]) = 1 .. Len(up[k]) - 1
      /\ DOMAIN up[k] = 1 .. Len(up[k])
      /\ \A i \in DOMAIN Tail(up[k]) : i + 1 \in DOMAIN up[k] /\ Tail(up[k])[i] = up[k][i + 1]
      /\ \A i \in DOMAIN Tail(up[k]) : i + 1 # 1
  <2>1. up[k] \in Seq(Messages)
    BY DEF TypeOK, NetTypeOK
  <2> QED
    BY <2>1
<1>2. ASSUME NEW c \in Clients PROVE MainInOrder(c)'
  <2>1. MainInOrder(c) /\ <<c, Main>> \in Conns
    BY MainIsConn DEF ChannelsInOrder
  <2>2. up'[<<c, Main>>] \in {up[<<c, Main>>], << >>}
          \/ (<<c, Main>> = k /\ up'[k] = Tail(up[k]))
    BY <2>1 DEF Reading
  <2>3. CASE up'[<<c, Main>>] \in {up[<<c, Main>>], << >>}
    BY <2>1, <2>3 DEF MainInOrder
  <2>4. CASE <<c, Main>> = k /\ up'[k] = Tail(up[k])
    <3>1. \A i \in DOMAIN up[k] : up[k][i].type \in {"hello", "negotiation"}
      BY <2>1, <2>4 DEF MainInOrder
    <3>2. \A i \in DOMAIN up'[k] : up'[k][i].type \in {"hello", "negotiation"}
      BY <1>1, <2>4, <3>1
    <3> QED
      BY <2>4, <3>2 DEF MainInOrder
  <2> QED
    BY <2>2, <2>3, <2>4
<1>3. ASSUME NEW w \in Workers PROVE WorkerInOrder(w)'
  <2>1. WorkerInOrder(w) /\ w \in Conns
    BY WorkerIsConn DEF ChannelsInOrder
  <2>2. CASE w # k
    BY <2>1, <2>2 DEF Reading, WorkerInOrder
  <2>3. CASE w = k
    <3>1. thread'[w] # "none" /\ wk'[w] \notin Early
      BY <2>1, <2>3 DEF WorkerInOrder
    <3>2. up'[w] = Tail(up[w]) \/ up'[w] = << >>
      BY <2>1, <2>3 DEF Reading
    <3>3. \A i \in DOMAIN up[k] : i # 1 => up[k][i].type = "data"
      BY <2>1, <2>3 DEF WorkerInOrder
    <3>4. ASSUME NEW i \in DOMAIN Tail(up[k]) PROVE Tail(up[k])[i].type = "data"
      <4>1. i + 1 \in DOMAIN up[k] /\ i + 1 # 1 /\ Tail(up[k])[i] = up[k][i + 1]
        BY <1>1
      <4> QED
        BY <3>3, <4>1, Zenon
    <3>5. \A i \in DOMAIN up'[w] : up'[w][i].type = "data"
      <4>1. CASE up'[w] = << >>
        BY <4>1
      <4>2. CASE up'[w] = Tail(up[w])
        BY <2>3, <3>4, <4>2, Zenon
      <4> QED
        BY <3>2, <4>1, <4>2
    <3> QED
      BY <3>1, <3>5 DEF WorkerInOrder
  <2> QED
    BY <2>2, <2>3
<1> QED
  BY <1>2, <1>3 DEF ChannelsInOrder

\* The first message of an accepted connection tells which kind it is.
LEMMA IncomingKind ==
  ASSUME TypeOK, ChannelsInOrder, NEW type, Incoming(type)
  PROVE  /\ accepting \in Conns /\ up[accepting] # << >>
         /\ type = "hello" => accepting \notin Workers
         /\ type = "init" => accepting \in Workers
<1>1. accepting \in Conns /\ up[accepting] # << >>
  BY DEF Incoming, Readable, TypeOK, ServerTypeOK
<1>2. up[accepting] \in Seq(Messages)
  BY <1>1 DEF TypeOK, NetTypeOK
<1>3. 1 \in DOMAIN up[accepting] /\ up[accepting][1].type = type
  BY <1>1, <1>2 DEF Incoming
<1>4. CASE type = "hello"
  BY <1>1, <1>3, <1>4 DEF ChannelsInOrder, WorkerInOrder
<1>5. CASE type = "init"
  <2>1. \A c \in Clients : accepting # <<c, Main>>
    BY <1>3, <1>5 DEF ChannelsInOrder, MainInOrder
  <2> QED
    BY <1>1, <1>5, <2>1 DEF Conns, Workers
<1> QED
  BY <1>1, <1>4, <1>5

LEMMA AcceptInOrder ==
  ASSUME TypeOK, ChannelsInOrder, AcceptStep \/ AcceptError, UNCHANGED clientVars
  PROVE  ChannelsInOrder'
<1>w. UNCHANGED wk
  BY DEF clientVars
<1>1. CASE AcceptConnection
  BY <1>1, <1>w, QuietInOrder DEF AcceptConnection, Quiet, threadVars
<1>2. CASE AcceptError
  BY <1>2, <1>w, CloseSocketsIsQuiet, QuietInOrder DEF AcceptError, Clean, threadVars
<1>3. CASE AcceptNothing
  BY <1>3, <1>w, CloseSocketsIsQuiet, QuietInOrder DEF AcceptNothing, Clean, threadVars
<1>4. CASE OpenSession
  <2>1. accepting \in Conns /\ up[accepting] # << >> /\ accepting \notin Workers
    BY <1>4, IncomingKind DEF OpenSession
  <2>2. CASE Terminate
    BY <2>2, <1>w, TerminateIsQuiet, QuietInOrder
  <2>3. CASE UNCHANGED thread /\ \E S : CloseSockets(S, Unread(accepting))
    <3>1. Reading(accepting)
      BY <2>1, <2>3, CloseSocketsIsReading
    <3> QED
      BY <2>1, <2>3, <3>1, <1>w, ReadInOrder
  <2> QED
    BY <1>4, <2>2, <2>3 DEF OpenSession, Clean, threadVars
<1>5. CASE AttachThread
  <2>1. accepting \in Workers /\ accepting \in Conns /\ up[accepting] # << >>
    BY <1>5, IncomingKind DEF AttachThread
  <2>2. Reading(accepting)
    BY <1>5, <2>1, CloseSocketsIsReading DEF AttachThread, Clean
  <2>3. /\ thread'[accepting] # "none"
        /\ \A w \in Workers : w # accepting => thread'[w] = thread[w]
    BY <1>5, <2>1 DEF AttachThread, TypeOK, ServerTypeOK
  <2> QED
    BY <2>1, <2>2, <2>3, <1>w, ReadInOrder
<1>6. CASE RejectThread
  BY <1>6, <1>w, CloseSocketsIsQuiet, QuietInOrder DEF RejectThread, Clean, threadVars
<1> QED
  BY <1>1, <1>2, <1>3, <1>4, <1>5, <1>6 DEF AcceptStep

LEMMA SessionStepInOrder ==
  ASSUME TypeOK, ChannelsInOrder, NEW c \in Clients, SessionStep(c), UNCHANGED clientVars
  PROVE  ChannelsInOrder'
<1>w. UNCHANGED <<wk, thread>>
  BY DEF clientVars, SessionStep, HelloSent, ReadNegotiationHead, OpenFile, NegotiationSent,
         SessionReadError, threadVars
<1>1. CASE OpenFile(c)
  <2>1. <<c, Main>> \in Conns /\ <<c, Main>> \notin Workers
    BY MainIsConn, WorkerIsConn
  <2>2. up[<<c, Main>>] # << >> /\ up' = Unread(<<c, Main>>) /\ UNCHANGED link
    BY <1>1 DEF OpenFile, Readable
  <2>3. Reading(<<c, Main>>)
    BY <2>1, <2>2, UnreadIsReading
  <2> QED
    BY <2>1, <2>2, <2>3, <1>w, ReadInOrder
<1>2. CASE HelloSent(c) \/ ReadNegotiationHead(c) \/ NegotiationSent(c) \/ SessionReadError(c)
  <2>1. UNCHANGED netVars
    BY <1>2 DEF HelloSent, ReadNegotiationHead, NegotiationSent, SessionReadError
  <2> QED
    BY <2>1, <1>w, QuietInOrder DEF netVars, Quiet
<1> QED
  BY <1>1, <1>2 DEF SessionStep

LEMMA ThreadStepInOrder ==
  ASSUME TypeOK, ChannelsInOrder, NEW w \in Workers, ThreadStep(w), UNCHANGED clientVars
  PROVE  ChannelsInOrder'
<1>w. UNCHANGED wk /\ w \in Conns /\ w[1] \in Clients
  BY WorkerIsConn DEF clientVars
<1>1. CASE FinishOrphan(w)
  BY <1>1, <1>w, TerminateIsQuiet, QuietInOrder DEF FinishOrphan
<1>2. ASSUME NEW from \in {"head", "body"}, NEW to \in {"head", "body", "done", "dead"},
             Advance(w, from, to)
      PROVE  \A v \in Workers : thread'[v] = "none" <=> thread[v] = "none"
  BY <1>2 DEF Advance, TypeOK, ServerTypeOK
<1>3. CASE ReadHead(w) \/ ThreadReadError(w)
  BY <1>2, <1>3, <1>w, QuietInOrder DEF ReadHead, ThreadReadError, netVars, Quiet
<1>4. CASE WriteFile(w) \/ FinishThread(w)
  <2>1. /\ up[w] # << >> /\ up' = Unread(w) /\ UNCHANGED link
        /\ \A v \in Workers : thread'[v] = "none" <=> thread[v] = "none"
        /\ thread[w] # "none"
    BY <1>2, <1>4 DEF WriteFile, FinishThread, Readable, Advance
  <2>2. Reading(w)
    BY <2>1, <1>w, UnreadIsReading
  <2> QED
    BY <2>1, <2>2, <1>w, ReadInOrder
<1> QED
  BY <1>1, <1>3, <1>4 DEF ThreadStep

LEMMA NextInOrder ==
  ASSUME TypeOK, WorkersWait, ChannelsInOrder, [Next]_vars
  PROVE  ChannelsInOrder'
<1>1. CASE ClientNext
  BY <1>1, ClientNextInOrder
<1>2. CASE ServerNext
  BY <1>2, AcceptInOrder, SessionStepInOrder, ThreadStepInOrder DEF ServerNext
<1>3. CASE UNCHANGED vars
  BY <1>3 DEF vars, netVars, clientVars, serverVars, threadVars, ChannelsInOrder, MainInOrder,
              WorkerInOrder
<1> QED
  BY <1>1, <1>2, <1>3 DEF Next, Idle

\* The three are inductive together: the handlers' types rest on the order
\* of the messages, and that on when a worker thread starts.
Typed == TypeOK /\ WorkersWait /\ ChannelsInOrder

LEMMA TypedInvariant == Spec => []Typed
<1>1. Init => Typed
  BY InitType, InitWait, InitInOrder DEF Typed
<1>2. Typed /\ [Next]_vars => Typed'
  BY NextType, NextWait, NextInOrder DEF Typed
<1> QED
  BY <1>1, <1>2, PTL DEF Spec

(* Every variable has its type, whatever the number of clients, threads    *)
(* and pieces: in particular the server's handlers find the fields they    *)
(* read in the message they read.                                          *)
THEOREM TypeCorrect == Spec => []TypeOK
<1>1. Typed => TypeOK
  BY DEF Typed
<1> QED
  BY <1>1, TypedInvariant, PTL

(* However client threads and server handlers interleave, and whatever is  *)
(* lost, a negotiation connection carries hello and negotiation only, and  *)
(* a transfer connection one init, taken by the accept handler, and then   *)
(* data packets: no read of server.cpp meets a message it does not expect. *)
THEOREM InOrder == Spec => []ChannelsInOrder
<1>1. Typed => ChannelsInOrder
  BY DEF Typed
<1> QED
  BY <1>1, TypedInvariant, PTL
-----------------------------------------------------------------------------
(* Counting the threads of a session                                       *)

LEMMA UnfinishedIsFinite ==
  ASSUME NEW c
  PROVE  /\ IsFiniteSet(Unfinished(c)) /\ IsFiniteSet(Unfinished(c)')
         /\ Unfinished(c) \subseteq Threads /\ Unfinished(c)' \subseteq Threads
  BY NetworkAssumption, FS_Subset DEF Unfinished

LEMMA InitNumber == Init => NumberIsUnfinished
<1>1. ASSUME Init, NEW c \in Clients PROVE number[c] = Cardinality(Unfinished(c))
  <2>1. \A t \in Threads : thread[<<c, t>>] = "none"
    BY <1>1 DEF Init, ServerInit, Workers
  <2>2. Unfinished(c) = {}
    BY <2>1 DEF Unfinished
  <2>3. number[c] = 0
    BY <1>1 DEF Init, ServerInit
  <2> QED
    BY <2>2, <2>3, FS_EmptySet
<1> QED
  BY <1>1 DEF NumberIsUnfinished

\* Only one thread changes its handler in a step, and only to or from the
\* handlers that do not count when the number changes with it.
LEMMA SameCount ==
  ASSUME NumberIsUnfinished, UNCHANGED number,
         \A w \in Workers : thread'[w] \in {"head", "body", "dead"}
                              <=> thread[w] \in {"head", "body", "dead"}
  PROVE  NumberIsUnfinished'
<1>1. ASSUME NEW c \in Clients PROVE Unfinished(c)' = Unfinished(c)
  <2>1. \A t \in Threads : <<c, t>> \in Workers
    BY DEF Workers
  <2> QED
    BY <2>1 DEF Unfinished
<1> QED
  BY <1>1 DEF NumberIsUnfinished

LEMMA AttachCounts ==
  ASSUME TypeOK, ChannelsInOrder, NumberIsUnfinished, AttachThread
  PROVE  NumberIsUnfinished'
<1>1. PICK c \in Clients, t \in Threads : accepting = <<c, t>>
  BY IncomingKind DEF AttachThread, Workers
<1>2. accepting \in Workers /\ thread[accepting] = "none"
  <2>1. accepting \in Workers /\ up[accepting] # << >> /\ accepting \in Conns
    BY IncomingKind DEF AttachThread
  <2>2. up[accepting] \in Seq(Messages)
    BY <2>1 DEF TypeOK, NetTypeOK
  <2>3. 1 \in DOMAIN up[accepting] /\ up[accepting][1].type = "init"
    BY <2>1, <2>2 DEF AttachThread, Incoming
  <2> QED
    BY <2>1, <2>3 DEF ChannelsInOrder, WorkerInOrder
<1>3. /\ thread' = [thread EXCEPT ![accepting] = "head"]
      /\ number' = [number EXCEPT ![c] = number[c] + 1]
      /\ thread \in [Workers -> {"none", "head", "body", "done", "dead"}]
      /\ number \in [Clients -> Int]
  BY <1>1 DEF AttachThread, TypeOK, ServerTypeOK
<1>4. ASSUME NEW d \in Clients, d # c
      PROVE  number'[d] = Cardinality(Unfinished(d)')
  <2>1. Unfinished(d)' = Unfinished(d)
    BY <1>1, <1>2, <1>3, <1>4 DEF Unfinished, Workers
  <2>2. number'[d] = number[d]
    BY <1>3, <1>4
  <2> QED
    BY <2>1, <2>2 DEF NumberIsUnfinished
<1>5. number'[c] = Cardinality(Unfinished(c)')
  <2>1. t \notin Unfinished(c)
    BY <1>1, <1>2 DEF Unfinished
  <2>2. Unfinished(c)' = Unfinished(c) \cup {t}
    BY <1>1, <1>2, <1>3 DEF Unfinished, Workers
  <2>3. Cardinality(Unfinished(c)') = Cardinality(Unfinished(c)) + 1
    BY <2>1, <2>2, UnfinishedIsFinite, FS_AddElement
  <2>4. number'[c] = number[c] + 1 /\ number[c] = Cardinality(Unfinished(c))
    BY <1>3 DEF NumberIsUnfinished
  <2> QED
    BY <2>3, <2>4
<1> QED
  BY <1>4, <1>5 DEF NumberIsUnfinished

LEMMA FinishCounts ==
  ASSUME TypeOK, NumberIsUnfinished, NEW w \in Workers, FinishThread(w)
  PROVE  NumberIsUnfinished'
<1>1. PICK c \in Clients, t \in Threads : w = <<c, t>>
  BY DEF Workers
<1>2. /\ thread[w] = "body" /\ thread' = [thread EXCEPT ![w] = "done"]
      /\ number' = [number EXCEPT ![c] = number[c] - 1]
      /\ thread \in [Workers -> {"none", "head", "body", "done", "dead"}]
      /\ number \in [Clients -> Int]
  BY <1>1 DEF FinishThread, Advance, TypeOK, ServerTypeOK
<1>3. ASSUME NEW d \in Clients, d # c
      PROVE  number'[d] = Cardinality(Unfinished(d)')
  <2>1. Unfinished(d)' = Unfinished(d)
    BY <1>1, <1>2, <1>3 DEF Unfinished, Workers
  <2>2. number'[d] = number[d]
    BY <1>2, <1>3
  <2> QED
    BY <2>1, <2>2 DEF NumberIsUnfinished
<1>4. number'[c] = Cardinality(Unfinished(c)')
  <2>1. t \in Unfinished(c)
    BY <1>1, <1>2 DEF Unfinished
  <2>2. Unfinished(c)' = Unfinished(c) \ {t}
    BY <1>1, <1>2 DEF Unfinished, Workers
  <2>3. Cardinality(Unfinished(c)') = Cardinality(Unfinished(c)) - 1
    BY <2>1, <2>2, UnfinishedIsFinite, FS_RemoveElement
  <2>4. number'[c] = number[c] - 1 /\ number[c] = Cardinality(Unfinished(c))
    BY <1>2 DEF NumberIsUnfinished
  <2> QED
    BY <2>3, <2>4
<1> QED
  BY <1>3, <1>4 DEF NumberIsUnfinished

LEMMA NextNumber ==
  ASSUME TypeOK, ChannelsInOrder, NumberIsUnfinished, [Next]_vars
  PROVE  NumberIsUnfinished'
<1>1. CASE UNCHANGED <<thread, number>>
  BY <1>1, SameCount
<1>2. CASE AttachThread
  BY <1>2, AttachCounts
<1>3. ASSUME NEW w \in Workers, ThreadStep(w)
      PROVE  NumberIsUnfinished'
  <2>1. CASE FinishThread(w)
    BY <2>1, FinishCounts
  <2>2. CASE FinishOrphan(w)
    BY <2>2, <1>1 DEF FinishOrphan, Terminate, threadVars, sessionVars
  <2>3. CASE ReadHead(w) \/ WriteFile(w) \/ ThreadReadError(w)
    <3>1. /\ UNCHANGED number /\ thread[w] \in {"head", "body"}
          /\ \E to \in {"head", "body", "dead"} : thread' = [thread EXCEPT ![w] = to]
      BY <2>3 DEF ReadHead, WriteFile, ThreadReadError, Advance, sessionVars
    <3>2. \A v \in Workers : thread'[v] \in {"head", "body", "dead"}
                               <=> thread[v] \in {"head", "body", "dead"}
      BY <3>1 DEF TypeOK, ServerTypeOK
    <3> QED
      BY <3>1, <3>2, SameCount
  <2> QED
    BY <1>3, <2>1, <2>2, <2>3 DEF ThreadStep
<1>4. CASE AcceptStep \/ AcceptError
  <2>1. CASE OpenSession
    BY <2>1, <1>1 DEF OpenSession, Terminate, threadVars, sessionVars
  <2>2. CASE AcceptConnection \/ AcceptNothing \/ RejectThread \/ AcceptError
    BY <2>2, <1>1 DEF AcceptConnection, AcceptNothing, RejectThread, AcceptError,
                      threadVars, sessionVars
  <2> QED
    BY <1>2, <1>4, <2>1, <2>2 DEF AcceptStep
<1>5. ASSUME NEW c \in Clients, SessionStep(c)
      PROVE  NumberIsUnfinished'
  BY <1>1, <1>5 DEF SessionStep, HelloSent, ReadNegotiationHead, OpenFile, NegotiationSent,
                    SessionReadError, threadVars
<1> QED
  BY <1>1, <1>3, <1>4, <1>5 DEF Next, ClientNext, ServerNext, Idle, vars, serverVars,
                                sessionVars, threadVars

LEMMA CountInvariant == Spec => [](Typed /\ NumberIsUnfinished)
<1>1. Typed /\ NumberIsUnfinished /\ [Next]_vars => NumberIsUnfinished'
  BY NextNumber DEF Typed
<1> QED
  BY <1>1, InitNumber, TypedInvariant, PTL DEF Spec

(* Session::number is the number of attached threads that did not report   *)
(* that they finished, for every number of clients and threads and         *)
(* whatever fails: attach_thread is never run twice for one connection,    *)
(* finish_thread never for a thread that was not counted.                  *)
THEOREM NumberCorrect == Spec => []NumberIsUnfinished
  BY CountInvariant, PTL

\* The only handler that closes a file is that of the last finish packet.
LEMMA ClosingIsFinishing ==
  ASSUME TypeOK, NEW c \in Clients, file[c] # "closed", file'[c] = "closed", [Next]_vars
  PROVE  number'[c] = 0
<1>1. PICK w \in Workers : ThreadStep(w)
  <2>1. file' # file
    OBVIOUS
  <2>2. ~(\E d \in Clients : SessionStep(d))
    <3>1. ASSUME NEW d \in Clients, OpenFile(d) PROVE FALSE
      <4>1. \E f \in {"good", "none"} : file' = [file EXCEPT ![d] = f]
        BY <3>1 DEF OpenFile
      <4> QED
        BY <4>1 DEF TypeOK, ServerTypeOK
    <3> QED
      BY <2>1, <3>1 DEF SessionStep, HelloSent, ReadNegotiationHead, NegotiationSent,
                        SessionReadError, fileVars
  <2>3. ~(AcceptStep \/ AcceptError)
    BY <2>1 DEF AcceptStep, AcceptError, AcceptConnection, AcceptNothing, OpenSession,
                AttachThread, RejectThread, Terminate, fileVars
  <2> QED
    BY <2>1, <2>2, <2>3 DEF Next, ClientNext, ServerNext, Idle, vars, serverVars, fileVars
<1>2. file \in [Clients -> {"none", "good", "bad", "closed"}] /\ number \in [Clients -> Int]
      /\ w[1] \in Clients
  BY WorkerIsConn DEF TypeOK, ServerTypeOK
<1>3. ~WriteFile(w)
  <2>1. SUFFICES ASSUME Store(w[1], Head(up[w])) PROVE FALSE
    BY DEF WriteFile, fileVars
  <2> QED
    BY <1>2, <2>1 DEF Store
<1>4. FinishThread(w)
  BY <1>1, <1>3 DEF ThreadStep, ReadHead, ThreadReadError, FinishOrphan, Terminate, fileVars
<1>5. w[1] = c /\ number[c] = 1
  BY <1>2, <1>4 DEF FinishThread, CloseFile, fileVars
<1>6. number' = [number EXCEPT ![c] = number[c] - 1]
  BY <1>4, <1>5 DEF FinishThread
<1> QED
  BY <1>2, <1>5, <1>6

(* However the threads of a session are attached, finish and fail, its     *)
(* file is closed only by the finish packet that leaves no attached thread *)
(* unfinished: no piece of an attached thread finds the file closed.       *)
THEOREM ClosedByLastCorrect == Spec => ClosedByLast
<1>1. ASSUME Typed, NumberIsUnfinished', [Next]_vars
      PROVE  [\A c \in Clients :
                file[c] # "closed" /\ file'[c] = "closed" => Unfinished(c)' = {}]_vars
  <2>1. ASSUME NEW c \in Clients, file[c] # "closed", file'[c] = "closed"
        PROVE  Unfinished(c)' = {}
    <3>1. number'[c] = 0
      BY <1>1, <2>1, ClosingIsFinishing DEF Typed
    <3>2. Cardinality(Unfinished(c)') = 0
      BY <1>1, <3>1 DEF NumberIsUnfinished
    <3> QED
      BY <3>2, UnfinishedIsFinite, FS_EmptySet
  <2> QED
    BY <2>1
<1> QED
  BY <1>1, CountInvariant, PTL DEF Spec, ClosedByLast
-----------------------------------------------------------------------------
(* The registry                                                            *)

LEMMA CleanKeepsSync ==
  ASSUME NEW ch, NEW st, NEW shut, NEW queue, Clean(ch, ch, st, shut, queue)
  PROVE  RegistryInSync'
  BY DEF Clean, RegistryInSync

(* do_accept and step1 keep Acceptor::children and Acceptor::s_list equal, *)
(* whatever sessions finish, fail or are rejected meanwhile: cleaning      *)
(* always finds the session it looks up.                                   *)
THEOREM RegistryCorrect == Spec => []RegistryInSync
<1>1. Init => RegistryInSync
  BY DEF Init, ServerInit, RegistryInSync
<1>2. RegistryInSync /\ [Next]_vars => RegistryInSync'
  <2> SUFFICES ASSUME RegistryInSync, [Next]_vars PROVE RegistryInSync'
    OBVIOUS
  <2> USE DEF RegistryInSync, registryVars
  <2>1. CASE ClientNext \/ Idle \/ UNCHANGED vars
    BY <2>1 DEF ClientNext, Idle, vars, serverVars
  <2>2. CASE AcceptStep \/ AcceptError
    <3>1. CASE OpenSession
      BY <3>1, CleanKeepsSync DEF OpenSession, Terminate
    <3>2. CASE AcceptConnection
      BY <3>2 DEF AcceptConnection
    <3>3. CASE AttachThread \/ RejectThread \/ AcceptNothing \/ AcceptError
      BY <3>3, CleanKeepsSync DEF AttachThread, RejectThread, AcceptNothing, AcceptError
    <3> QED
      BY <2>2, <3>1, <3>2, <3>3 DEF AcceptStep
  <2>3. CASE \E c \in Clients : SessionStep(c)
    BY <2>3 DEF SessionStep, HelloSent, ReadNegotiationHead, OpenFile, NegotiationSent,
                SessionReadError
  <2>4. CASE \E w \in Workers : ThreadStep(w)
    BY <2>4 DEF ThreadStep, ReadHead, WriteFile, FinishThread, FinishOrphan,
                ThreadReadError, Terminate
  <2> QED
    BY <2>1, <2>2, <2>3, <2>4 DEF Next, ServerNext
<1> QED
  BY <1>1, <1>2, PTL DEF Spec
-----------------------------------------------------------------------------
(* The negotiation                                                         *)

Waits == {"helloSent", "head", "body"}

\* No reply before the hello, no hello before the client is connected, and
\* the hello is off the connection when it is answered.
Answered(c) ==
  /\ handler[c] = "none" =>
       down[c] = << >> /\ cl[c] \notin {"negotiating", "transfer", "done"}
  /\ cl[c] \in {"start", "connected"} => up[<<c, Main>>] = << >> /\ handler[c] = "none"
  /\ cl[c] = "hello" /\ handler[c] # "none" => up[<<c, Main>>] = << >>

\* A hello is the client's own and all there is on the connection.
HelloFirst(c) ==
  \A i \in DOMAIN up[<<c, Main>>] :
    up[<<c, Main>>][i].type = "hello" =>
      up[<<c, Main>>] = <<HelloMsg(c)>> /\ handler[c] = "none"

\* Until the session replies to the negotiation it has no file.
Unopened(c) ==
  handler[c] \in Waits \cup {"none"} =>
    /\ file[c] = "none"
    /\ cl[c] = "negotiating" => down[c] = << >>

\* Without a file the client was not told to start its workers.
NoFile(c) ==
  file[c] = "none" =>
    /\ cl[c] \notin {"transfer", "done"}
    /\ cl[c] = "hello" => down[c] \in {<< >>, <<0>>}
    /\ cl[c] = "negotiating" => down[c] \in {<< >>, <<1>>}
    /\ \A t \in Threads : wk[<<c, t>>] = "off"

Negotiation(c) == Answered(c) /\ HelloFirst(c) /\ Unopened(c) /\ NoFile(c)

LEMMA InitNegotiation ==
  ASSUME Init, NEW c \in Clients
  PROVE  Negotiation(c)
<1>1. up[<<c, Main>>] = << >>
  BY MainIsConn DEF Init, NetInit
<1>2. \A t \in Threads : wk[<<c, t>>] = "off"
  BY DEF Init, ClientInit, Workers
<1> QED
  BY <1>1, <1>2 DEF Init, NetInit, ClientInit, ServerInit, Negotiation, Answered, HelloFirst,
                   Unopened, NoFile, Waits

\* A step that tells client c and its session nothing new.
Undisturbed(c) ==
  /\ up'[<<c, Main>>] \in {up[<<c, Main>>], << >>}
  /\ down'[c] = down[c]
  /\ handler'[c] = "none" <=> handler[c] = "none"
  /\ handler'[c] \in Waits => handler[c] \in Waits
  /\ file'[c] = "none" <=> file[c] = "none"
  /\ \/ cl'[c] = cl[c]
     \/ cl[c] = "start" /\ cl'[c] = "connected"
     \/ cl'[c] \in {"exit1", "aborted", "killed"}
     \/ cl[c] = "transfer" /\ cl'[c] = "done"
  /\ \A t \in Threads : wk'[<<c, t>>] = "off" <=> wk[<<c, t>>] = "off"

LEMMA UndisturbedKeeps ==
  ASSUME NEW c \in Clients, Negotiation(c), Undisturbed(c)
  PROVE  Negotiation(c)'
<1> USE DEF Negotiation, Undisturbed
<1>1. Answered(c)'
  BY DEF Answered, NoFile, Unopened
<1>2. HelloFirst(c)'
  BY DEF HelloFirst
<1>3. Unopened(c)'
  BY DEF Unopened
<1>4. NoFile(c)'
  BY DEF NoFile
<1> QED
  BY <1>1, <1>2, <1>3, <1>4

LEMMA ClientStepKeeps ==
  ASSUME Typed, NEW c \in Clients, NEW d \in Clients, Negotiation(d), ClientStep(c),
         UNCHANGED serverVars
  PROVE  Negotiation(d)'
<1>s. UNCHANGED <<handler, file>>
  BY DEF serverVars, sessionVars, fileVars
<1>t. /\ cl \in [Clients -> ClientStates] /\ wk \in [Workers -> WorkerStates]
      /\ up \in [Conns -> Seq(Messages)] /\ down \in [Clients -> Seq({0, 1})]
      /\ <<c, Main>> \in Conns /\ <<d, Main>> \in Conns
      /\ \A t \in Threads : <<d, t>> \in Workers /\ <<d, t>>[1] = d
  BY MainIsConn DEF Typed, TypeOK, NetTypeOK, ClientTypeOK, Workers
<1>o. ASSUME NEW m \in Messages, Transmit(<<c, Main>>, m), c # d
      PROVE  up'[<<d, Main>>] = up[<<d, Main>>]
  BY <1>o, <1>t, TransmitEffect DEF Typed
<1>1. CASE ClientConnect(c) \/ ConnectRefused(c) \/ WriteThrows(c) \/ GiveUp(c) \/ JoinThreads(c)
  <2>1. Undisturbed(d)
    BY <1>1, <1>s, <1>t DEF ClientConnect, ConnectRefused, WriteThrows, GiveUp, JoinThreads,
                            Undisturbed, netVars
  <2> QED
    BY <2>1, UndisturbedKeeps
<1>2. CASE SendHello(c)
  <2>1. CASE c # d
    <3>1. Undisturbed(d)
      BY <1>2, <1>s, <1>t, <1>o, <2>1, MessageTypes DEF SendHello, Undisturbed
    <3> QED
      BY <3>1, UndisturbedKeeps
  <2>2. CASE c = d
    <3>1. up[<<d, Main>>] = << >> /\ handler[d] = "none" /\ cl'[d] = "hello"
      BY <1>2, <1>t, <2>2 DEF SendHello, Negotiation, Answered
    <3>2. up'[<<d, Main>>] \in {<< >>, <<HelloMsg(d)>>}
      BY <1>2, <1>t, <2>2, <3>1 DEF SendHello, Transmit
    <3>3. UNCHANGED <<down, wk>> /\ down[d] = << >> /\ file[d] = "none"
      BY <1>2, <3>1 DEF SendHello, Negotiation, Answered, Unopened
    <3> QED
      BY <1>s, <3>1, <3>2, <3>3 DEF Negotiation, Answered, HelloFirst, Unopened, NoFile
  <2> QED
    BY <2>1, <2>2
<1>3. CASE SendNegotiation(c)
  <2>1. CASE c # d
    <3>1. Undisturbed(d)
      BY <1>3, <1>s, <1>t, <1>o, <2>1, MessageTypes DEF SendNegotiation, Undisturbed
    <3> QED
      BY <3>1, UndisturbedKeeps
  <2>2. CASE c = d
    <3>1. /\ cl[d] = "hello" /\ cl'[d] = "negotiating"
          /\ down[d] # << >> /\ down'[d] = Tail(down[d]) /\ UNCHANGED wk
      BY <1>3, <1>t, <2>2 DEF SendNegotiation
    <3>2. handler[d] # "none" /\ up[<<d, Main>>] = << >>
      BY <3>1 DEF Negotiation, Answered
    <3>3. up'[<<d, Main>>] \in {<< >>, <<NegotiationMsg(d)>>}
      BY <1>3, <1>t, <2>2, <3>2 DEF SendNegotiation, Transmit
    <3>4. HelloFirst(d)'
      BY <3>3 DEF HelloFirst, NegotiationMsg
    <3>5. file[d] = "none" => down'[d] = << >>
      <4>1. file[d] = "none" => down[d] = <<0>>
        BY <3>1, Zenon DEF Negotiation, NoFile
      <4>2. Tail(<<0>>) = << >>
        OBVIOUS
      <4> QED
        BY <3>1, <4>1, <4>2
    <3>6. Answered(d)' /\ Unopened(d)'
      BY <1>s, <3>1, <3>2, <3>5 DEF Negotiation, Answered, Unopened, Waits
    <3>7. NoFile(d)'
      BY <1>s, <3>1, <3>5 DEF Negotiation, NoFile
    <3> QED
      BY <3>4, <3>6, <3>7 DEF Negotiation
  <2> QED
    BY <2>1, <2>2
<1>4. CASE StartTransfer(c)
  <2>1. CASE c # d
    <3>1. Undisturbed(d)
      BY <1>4, <1>s, <1>t, <2>1 DEF StartTransfer, Undisturbed
    <3> QED
      BY <3>1, UndisturbedKeeps
  <2>2. CASE c = d
    <3>1. cl[d] = "negotiating" /\ down[d] # << >> /\ Head(down[d]) = 0
      BY <1>4, <2>2 DEF StartTransfer
    <3>2. file[d] # "none" /\ handler[d] \notin Waits \cup {"none"}
      BY <3>1 DEF Negotiation, Unopened, NoFile
    <3>3. cl'[d] = "transfer" /\ UNCHANGED up
      BY <1>4, <1>t, <2>2 DEF StartTransfer
    <3> QED
      BY <1>s, <3>2, <3>3 DEF Negotiation, Answered, HelloFirst, Unopened, NoFile
  <2> QED
    BY <2>1, <2>2
<1> QED
  BY <1>1, <1>2, <1>3, <1>4 DEF ClientStep

LEMMA WorkerStepKeeps ==
  ASSUME Typed, NEW w \in Workers, NEW d \in Clients, Negotiation(d), WorkerStep(w),
         UNCHANGED serverVars
  PROVE  Negotiation(d)'
<1>s. UNCHANGED <<handler, file>>
  BY DEF serverVars, sessionVars, fileVars
<1>t. /\ wk \in [Workers -> WorkerStates] /\ <<d, Main>> \in Conns /\ w \in Conns
      /\ w # <<d, Main>> /\ \A t \in Threads : <<d, t>> \in Workers
  BY MainIsConn, WorkerIsConn DEF Typed, TypeOK, ClientTypeOK, Workers
<1>1. /\ wk' = [wk EXCEPT ![w] = wk'[w]] /\ wk[w] # "off" /\ wk'[w] # "off"
      /\ UNCHANGED <<cl, down>>
  BY <1>t DEF WorkerStep, WorkerConnect, SendInit, ReadFull, ReadRest, ReadAtEnd, Take,
              SendPiece, SendFinish, Running, netVars
<1>2. UNCHANGED up \/ \E m \in Messages : Transmit(w, m)
  <2>1. hold[w].order \in Nat /\ hold[w].size \in {0, 1} /\ w[1] \in Clients
    BY WorkerIsConn DEF Typed, TypeOK, ClientTypeOK
  <2> QED
    BY <2>1, MessageTypes
       DEF WorkerStep, WorkerConnect, SendInit, ReadFull, ReadRest, ReadAtEnd, Take,
           SendPiece, SendFinish, netVars
<1>3. up'[<<d, Main>>] = up[<<d, Main>>]
  BY <1>2, <1>t, TransmitEffect DEF Typed
<1>4. Undisturbed(d)
  BY <1>s, <1>t, <1>1, <1>3 DEF Undisturbed
<1> QED
  BY <1>4, UndisturbedKeeps

LEMMA ClientFaultKeeps ==
  ASSUME Typed, NEW d \in Clients, Negotiation(d), ClientFault, UNCHANGED serverVars
  PROVE  Negotiation(d)'
<1>s. UNCHANGED <<handler, file>>
  BY DEF serverVars, sessionVars, fileVars
<1>t. /\ cl \in [Clients -> ClientStates] /\ up \in [Conns -> Seq(Messages)]
      /\ <<d, Main>> \in Conns
  BY MainIsConn DEF Typed, TypeOK, NetTypeOK, ClientTypeOK
<1>1. UNCHANGED <<down, wk>>
  BY DEF ClientFault, SourceMissing, SourceUnreadable, Kill, Cut, Silence, netVars, clientVars
<1>2. cl'[d] \in {cl[d], "exit1", "killed"}
  BY <1>t DEF ClientFault, SourceMissing, SourceUnreadable, Kill, Cut, Silence, clientVars
<1>3. up'[<<d, Main>>] \in {up[<<d, Main>>], << >>}
  BY <1>t DEF ClientFault, SourceMissing, SourceUnreadable, Kill, Cut, Silence, netVars
<1>4. Undisturbed(d)
  BY <1>s, <1>1, <1>2, <1>3 DEF Undisturbed
<1> QED
  BY <1>4, UndisturbedKeeps

LEMMA OpenSessionKeeps ==
  ASSUME Typed, NEW d \in Clients, Negotiation(d), OpenSession, UNCHANGED clientVars
  PROVE  Negotiation(d)'
<1> DEFINE c == accepting[1]
<1>c. UNCHANGED <<cl, wk>>
  BY DEF clientVars
<1>1. accepting \in Conns /\ accepting \notin Workers /\ up[accepting] # << >>
  BY IncomingKind DEF OpenSession, Typed
<1>2. c \in Clients /\ accepting = <<c, Main>> /\ <<d, Main>> \in Conns
  BY <1>1, MainIsConn DEF Conns, Workers
<1>t. /\ up \in [Conns -> Seq(Messages)] /\ down \in [Clients -> Seq({0, 1})]
      /\ handler \in [Clients -> {"none", "helloSent", "head", "body", "replied", "idle", "dead"}]
  BY DEF Typed, TypeOK, NetTypeOK, ServerTypeOK
<1>3. UNCHANGED file
  BY DEF OpenSession, Terminate, fileVars
<1>4. CASE UNCHANGED <<handler, down>> /\ (up'[<<d, Main>>] = << >> \/ UNCHANGED up)
  <2>1. Undisturbed(d)
    BY <1>4, <1>c, <1>3 DEF Undisturbed
  <2> QED
    BY <2>1, UndisturbedKeeps
<1>5. ASSUME NEW S, CloseSockets(S, Unread(accepting)), d # c
      PROVE  up'[<<d, Main>>] \in {up[<<d, Main>>], << >>}
  BY <1>5, <1>2, <1>t DEF CloseSockets, Unread
<1>6. CASE Terminate
  BY <1>6, <1>2, <1>4 DEF Terminate, sessionVars
<1>7. CASE c # d /\ ~Terminate
  <2>1. \E S : CloseSockets(S, Unread(accepting))
    BY <1>7 DEF OpenSession, Clean
  <2>2. handler'[d] = handler[d] /\ down'[d] = down[d]
    BY <1>7, <1>2, <1>t DEF OpenSession
  <2>3. Undisturbed(d)
    BY <2>1, <2>2, <1>5, <1>7, <1>c, <1>3 DEF Undisturbed
  <2> QED
    BY <2>3, UndisturbedKeeps
<1>8. CASE c = d /\ ~Terminate
  <2>1. up[accepting] = <<HelloMsg(d)>> /\ handler[d] = "none"
    <3>1. up[accepting] \in Seq(Messages) /\ Head(up[accepting]).type = "hello"
      BY <1>1, <1>t DEF OpenSession, Incoming
    <3>2. 1 \in DOMAIN up[accepting] /\ up[accepting][1].type = "hello"
      BY <1>1, <3>1
    <3> QED
      BY <1>2, <1>8, <3>2 DEF Negotiation, HelloFirst
  <2>2. up'[<<d, Main>>] = << >>
    <3>1. \E S : CloseSockets(S, Unread(accepting))
      BY <1>8 DEF OpenSession, Clean
    <3>2. Tail(up[accepting]) = << >>
      BY <2>1
    <3> QED
      BY <1>1, <1>2, <1>8, <1>t, <3>1, <3>2 DEF CloseSockets, Unread
  <2>3. CASE UNCHANGED <<handler, down>>
    BY <2>2, <2>3, <1>4
  <2>4. CASE /\ handler' = [handler EXCEPT ![c] = "helloSent"]
             /\ down' = IF link[accepting] = "open"
                          THEN [down EXCEPT ![c] = Append(@, 0)] ELSE down
    <3>1. down[d] = << >> /\ cl[d] \notin {"start", "connected", "negotiating", "transfer", "done"}
      BY <2>1, <1>2, <1>8 DEF Negotiation, Answered
    <3>2. down'[d] \in {<< >>, <<0>>}
      <4>1. Append(<< >>, 0) = <<0>>
        OBVIOUS
      <4> QED
        BY <1>8, <1>t, <2>4, <3>1, <4>1
    <3>3. handler'[d] = "helloSent" /\ file[d] = "none"
      BY <1>8, <1>t, <2>1, <2>4 DEF Negotiation, Unopened
    <3>4. Answered(d)' /\ HelloFirst(d)' /\ Unopened(d)'
      BY <1>c, <1>3, <2>2, <3>1, <3>3 DEF Answered, HelloFirst, Unopened
    <3>5. NoFile(d)'
      BY <1>c, <1>3, <3>1, <3>2, <3>3 DEF Negotiation, NoFile
    <3> QED
      BY <3>4, <3>5 DEF Negotiation
  <2> QED
    BY <1>8, <2>3, <2>4 DEF OpenSession
<1> QED
  BY <1>6, <1>7, <1>8

LEMMA AcceptKeeps ==
  ASSUME Typed, NEW d \in Clients, Negotiation(d), AcceptStep \/ AcceptError,
         UNCHANGED clientVars
  PROVE  Negotiation(d)'
<1>1. CASE OpenSession
  BY <1>1, OpenSessionKeeps
<1>2. CASE ~OpenSession
  <2>1. UNCHANGED <<handler, down, file, cl, wk>>
    BY <1>2 DEF AcceptStep, AcceptConnection, AcceptError, AcceptNothing, AttachThread,
                RejectThread, sessionVars, fileVars, clientVars
  <2>2. up'[<<d, Main>>] \in {up[<<d, Main>>], << >>}
    <3>1. up \in [Conns -> Seq(Messages)] /\ <<d, Main>> \in Conns
      BY MainIsConn DEF Typed, TypeOK, NetTypeOK
    <3>2. CASE AttachThread
      <4>1. accepting \in Conns /\ accepting # <<d, Main>>
        BY <3>2, IncomingKind, WorkerIsConn DEF AttachThread, Typed
      <4> QED
        BY <3>1, <3>2, <4>1 DEF AttachThread, Clean, CloseSockets, Unread
    <3>3. CASE AcceptConnection
      BY <3>3 DEF AcceptConnection
    <3>4. CASE AcceptError \/ AcceptNothing \/ RejectThread
      BY <3>1, <3>4 DEF AcceptError, AcceptNothing, RejectThread, Clean, CloseSockets
    <3> QED
      BY <1>2, <3>2, <3>3, <3>4 DEF AcceptStep
  <2>3. Undisturbed(d)
    BY <2>1, <2>2 DEF Undisturbed
  <2> QED
    BY <2>3, UndisturbedKeeps
<1> QED
  BY <1>1, <1>2

LEMMA SessionStepKeeps ==
  ASSUME Typed, NEW c \in Clients, NEW d \in Clients, Negotiation(d), SessionStep(c),
         UNCHANGED clientVars
  PROVE  Negotiation(d)'
<1>c. UNCHANGED <<cl, wk>>
  BY DEF clientVars
<1>t. /\ up \in [Conns -> Seq(Messages)] /\ down \in [Clients -> Seq({0, 1})]
      /\ handler \in [Clients -> {"none", "helloSent", "head", "body", "replied", "idle", "dead"}]
      /\ file \in [Clients -> {"none", "good", "bad", "closed"}]
      /\ <<d, Main>> \in Conns /\ <<c, Main>> \in Conns
  BY MainIsConn DEF Typed, TypeOK, NetTypeOK, ServerTypeOK
<1>1. CASE ~OpenFile(c)
  <2>1. UNCHANGED <<up, down, file>>
    BY <1>1 DEF SessionStep, HelloSent, ReadNegotiationHead, NegotiationSent, SessionReadError,
                netVars, fileVars
  <2>2. \E from \in {"helloSent", "head", "body", "replied"},
           to \in {"head", "body", "idle", "dead"} :
          /\ Handle(c, from, to)
          /\ to \in Waits => from \in Waits
    BY <1>1 DEF SessionStep, HelloSent, ReadNegotiationHead, NegotiationSent, SessionReadError,
                Waits
  <2>3. /\ handler'[d] = "none" <=> handler[d] = "none"
        /\ handler'[d] \in Waits => handler[d] \in Waits
    BY <2>2, <1>t DEF Handle
  <2>4. Undisturbed(d)
    BY <1>c, <2>1, <2>3 DEF Undisturbed
  <2> QED
    BY <2>4, UndisturbedKeeps
<1>2. CASE OpenFile(c) /\ c # d
  <2>1. Undisturbed(d)
    BY <1>2, <1>c, <1>t DEF OpenFile, Handle, Unread, Undisturbed
  <2> QED
    BY <2>1, UndisturbedKeeps
<1>3. CASE OpenFile(c) /\ c = d
  <2>1. handler[d] = "body" /\ handler'[d] = "replied" /\ up[<<d, Main>>] # << >>
    BY <1>3, <1>t DEF OpenFile, Handle, Readable
  <2>2. up'[<<d, Main>>] = Tail(up[<<d, Main>>])
    BY <1>3, <1>t DEF OpenFile, Unread
  <2>3. HelloFirst(d)'
    <3>1. up[<<d, Main>>] \in Seq(Messages)
      BY <1>t
    <3>2. ASSUME NEW i \in DOMAIN Tail(up[<<d, Main>>])
          PROVE  i + 1 \in DOMAIN up[<<d, Main>>]
                   /\ Tail(up[<<d, Main>>])[i] = up[<<d, Main>>][i + 1]
      BY <2>1, <3>1
    <3>3. \A i \in DOMAIN up[<<d, Main>>] : up[<<d, Main>>][i].type # "hello"
      BY <2>1 DEF Negotiation, HelloFirst
    <3>4. \A i \in DOMAIN Tail(up[<<d, Main>>]) : Tail(up[<<d, Main>>])[i].type # "hello"
      BY <3>2, <3>3
    <3> QED
      BY <2>2, <3>4 DEF HelloFirst
  <2>4. /\ cl[d] \notin {"start", "connected", "hello", "transfer", "done"}
        /\ file[d] = "none"
        /\ cl[d] = "negotiating" => down[d] = << >>
    BY <2>1 DEF Negotiation, Answered, Unopened, NoFile, Waits
  <2>5. Answered(d)' /\ Unopened(d)'
    BY <1>c, <2>1, <2>4 DEF Answered, Unopened, Waits
  <2>6. file'[d] = "none" => down'[d] \in {down[d], Append(down[d], 1)}
    BY <1>3, <1>t DEF OpenFile
  <2>7. NoFile(d)'
    <3>1. Append(<< >>, 1) = <<1>>
      OBVIOUS
    <3> QED
      BY <1>c, <2>4, <2>6, <3>1 DEF Negotiation, NoFile
  <2> QED
    BY <2>3, <2>5, <2>7 DEF Negotiation
<1> QED
  BY <1>1, <1>2, <1>3

\* A Thread was attached for a worker that was started.
LEMMA ThreadHasFile ==
  ASSUME Typed, NEW w \in Workers, Negotiation(w[1]), thread[w] # "none"
  PROVE  file[w[1]] # "none"
<1>1. w[2] \in Threads /\ w = <<w[1], w[2]>>
  BY WorkerIsConn
<1>2. wk[w] # "off"
  BY DEF Typed, ChannelsInOrder, WorkerInOrder, Early
<1> QED
  BY <1>1, <1>2 DEF Negotiation, NoFile

LEMMA ThreadStepKeeps ==
  ASSUME Typed, NEW w \in Workers, NEW d \in Clients, Negotiation(w[1]), Negotiation(d),
         ThreadStep(w), UNCHANGED clientVars
  PROVE  Negotiation(d)'
<1>c. UNCHANGED <<cl, wk>>
  BY DEF clientVars
<1>t. /\ up \in [Conns -> Seq(Messages)] /\ w \in Conns /\ w # <<d, Main>>
      /\ <<d, Main>> \in Conns /\ w[1] \in Clients
      /\ file \in [Clients -> {"none", "good", "bad", "closed"}]
  BY MainIsConn, WorkerIsConn DEF Typed, TypeOK, NetTypeOK, ServerTypeOK
<1>1. UNCHANGED <<handler, down>>
  BY DEF ThreadStep, ReadHead, WriteFile, FinishThread, FinishOrphan, ThreadReadError,
         Terminate, netVars, sessionVars
<1>2. up'[<<d, Main>>] \in {up[<<d, Main>>], << >>}
  BY <1>t DEF ThreadStep, ReadHead, WriteFile, FinishThread, FinishOrphan, ThreadReadError,
              Terminate, netVars, Unread
<1>3. file[w[1]] # "none"
  <2>1. thread[w] # "none"
    BY DEF ThreadStep, ReadHead, WriteFile, FinishThread, FinishOrphan, ThreadReadError, Advance
  <2> QED
    BY <2>1, ThreadHasFile
<1>4. UNCHANGED file \/ \E to \in {"good", "bad", "closed"} : file' = [file EXCEPT ![w[1]] = to]
  BY DEF ThreadStep, ReadHead, WriteFile, FinishThread, FinishOrphan, ThreadReadError,
         Terminate, Store, CloseFile, fileVars
<1>5. file'[d] = "none" <=> file[d] = "none"
  BY <1>t, <1>3, <1>4
<1>6. Undisturbed(d)
  BY <1>c, <1>1, <1>2, <1>5 DEF Undisturbed
<1> QED
  BY <1>6, UndisturbedKeeps

Negotiations == \A c \in Clients : Negotiation(c)

LEMMA NextNegotiation ==
  ASSUME Typed, Negotiations, [Next]_vars
  PROVE  Negotiations'
<1> SUFFICES ASSUME NEW d \in Clients PROVE Negotiation(d)'
  BY DEF Negotiations
<1>1. Negotiation(d)
  BY DEF Negotiations
<1>2. CASE ClientNext
  BY <1>1, <1>2, ClientStepKeeps, WorkerStepKeeps, ClientFaultKeeps DEF ClientNext
<1>3. CASE ServerNext
  <2>1. ASSUME NEW w \in Workers PROVE Negotiation(w[1])
    BY WorkerIsConn DEF Negotiations
  <2> QED
    BY <1>1, <1>3, <2>1, AcceptKeeps, SessionStepKeeps, ThreadStepKeeps DEF ServerNext
<1>4. CASE UNCHANGED vars
  <2>1. Undisturbed(d)
    BY <1>4 DEF vars, netVars, clientVars, serverVars, sessionVars, fileVars, Undisturbed
  <2> QED
    BY <1>1, <2>1, UndisturbedKeeps
<1> QED
  BY <1>2, <1>3, <1>4 DEF Next, Idle

LEMMA NegotiationInvariant == Spec => [](Typed /\ Negotiations)
<1>1. Init => Negotiations
  BY InitNegotiation DEF Negotiations
<1>2. Typed /\ Negotiations /\ [Next]_vars => Negotiations'
  BY NextNegotiation
<1> QED
  BY <1>1, <1>2, TypedInvariant, PTL DEF Spec

(* The pointer that a Thread copied from its session at attach_thread is   *)
(* never null: a client opens a transfer connection only after it was told *)
(* that its file is open, and a file that was opened is never forgotten.   *)
THEOREM NoNullFileCorrect == Spec => []NoNullFile
<1>1. Typed /\ Negotiations => NoNullFile
  <2> SUFFICES ASSUME Typed, Negotiations, NEW w \in Workers, thread[w] \in {"head", "body"}
               PROVE  file[w[1]] # "none"
    BY DEF NoNullFile
  <2>1. Negotiation(w[1])
    BY WorkerIsConn DEF Negotiations
  <2> QED
    BY <2>1, ThreadHasFile
<1> QED
  BY <1>1, NegotiationInvariant, PTL
-----------------------------------------------------------------------------
(* Clients that the hello rejects                                          *)

Rejected == OtherKey \cup OtherVersion
NeverAnswered == \A c \in Rejected : handler[c] = "none"

LEMMA NextNeverAnswered ==
  ASSUME Typed, Negotiations, NeverAnswered, [Next]_vars
  PROVE  NeverAnswered'
<1>r. Rejected \subseteq Clients
  BY NetworkAssumption DEF Rejected
<1>t. handler \in [Clients -> {"none", "helloSent", "head", "body", "replied", "idle", "dead"}]
  BY DEF Typed, TypeOK, ServerTypeOK
<1>1. CASE UNCHANGED handler
  BY <1>1 DEF NeverAnswered
<1>2. ASSUME NEW c \in Clients, SessionStep(c) PROVE NeverAnswered'
  <2>1. /\ handler[c] # "none"
        /\ \E to \in {"head", "body", "replied", "idle", "dead"} :
             handler' = [handler EXCEPT ![c] = to]
    BY <1>2 DEF SessionStep, HelloSent, ReadNegotiationHead, OpenFile, NegotiationSent,
                SessionReadError, Handle
  <2> QED
    BY <1>r, <1>t, <2>1 DEF NeverAnswered
<1>3. CASE OpenSession
  <2>1. CASE UNCHANGED handler
    BY <2>1, <1>1
  <2>2. CASE /\ 0 \in HelloVerify(Head(up[accepting]))
             /\ handler' = [handler EXCEPT ![accepting[1]] = "helloSent"]
    <3>1. accepting \in Conns /\ accepting \notin Workers /\ up[accepting] # << >>
      BY <1>3, IncomingKind DEF OpenSession, Typed
    <3>2. PICK c \in Clients : accepting = <<c, Main>>
      BY <3>1 DEF Conns, Workers
    <3>3. up[accepting] \in Seq(Messages) /\ Head(up[accepting]).type = "hello"
      BY <1>3, <3>1 DEF OpenSession, Incoming, Typed, TypeOK, NetTypeOK
    <3>4. 1 \in DOMAIN up[accepting] /\ up[accepting][1].type = "hello"
      BY <3>1, <3>3
    <3>5. up[accepting] = <<HelloMsg(c)>>
      BY <3>2, <3>4 DEF Negotiations, Negotiation, HelloFirst
    <3>6. 0 \in HelloVerify(HelloMsg(c))
      BY <2>2, <3>5
    <3>7. c \notin Rejected
      <4>1. HelloMsg(c).sameKey /\ HelloMsg(c).sameVersion
        BY <3>6 DEF HelloVerify, Thrown
      <4>2. (HelloMsg(c).sameKey <=> c \notin OtherKey)
              /\ (HelloMsg(c).sameVersion <=> c \notin OtherVersion)
        BY DEF HelloMsg
      <4> QED
        BY <4>1, <4>2 DEF Rejected
    <3> QED
      BY <1>r, <1>t, <2>2, <3>2, <3>7 DEF NeverAnswered
  <2> QED
    BY <1>3, <2>1, <2>2 DEF OpenSession, Terminate, sessionVars
<1>4. ASSUME ~OpenSession, ~(\E c \in Clients : SessionStep(c)) PROVE UNCHANGED handler
  BY <1>4 DEF Next, ClientNext, ServerNext, Idle, vars, serverVars, sessionVars, AcceptStep,
              AcceptConnection, AcceptError, AcceptNothing, AttachThread, RejectThread,
              ThreadStep, ReadHead, WriteFile, FinishThread, FinishOrphan, ThreadReadError,
              Terminate
<1> QED
  BY <1>1, <1>2, <1>3, <1>4

(* server_hello_verify alone keeps clients of another key or version out:  *)
(* such a client never gets a file or starts a worker, and its session     *)
(* waits for nothing.                                                      *)
THEOREM MismatchCorrect == Spec => []MismatchNeverTransfers
<1>1. Init => NeverAnswered
  BY NetworkAssumption DEF Init, ServerInit, NeverAnswered, Rejected
<1>2. Typed /\ Negotiations /\ NeverAnswered /\ [Next]_vars => NeverAnswered'
  BY NextNeverAnswered
<1>3. Negotiations /\ NeverAnswered => MismatchNeverTransfers
  BY NetworkAssumption DEF Negotiations, Negotiation, Answered, Unopened, NeverAnswered,
                           Rejected, MismatchNeverTransfers
<1> QED
  BY <1>1, <1>2, <1>3, NegotiationInvariant, PTL DEF Spec
=============================================================================
