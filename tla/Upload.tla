------------------------------- MODULE Upload -------------------------------
(***************************************************************************)
(* The file uploader: the client processes and the server, composed over   *)
(* the connections of module Network.                                      *)
(***************************************************************************)
EXTENDS Client, Server

vars == <<netVars, clientVars, serverVars>>

Init == NetInit /\ ClientInit /\ ServerInit

\* The server waits for the first message of a peer that fell silent.
Held == listening /\ accepting # None /\ link[accepting] = "silent" /\ up[accepting] = << >>

\* The client waits for a reply on a connection that fell silent.
NoAnswer(c) ==
  cl[c] \in {"hello", "negotiating"} /\ down[c] = << >> /\ link[<<c, Main>>] = "silent"

\* The server waits for connections forever once no client is left that hears
\* it, or for one that it does not hear.
Idle ==
  /\ \/ Held
     \/ /\ \A c \in Clients : cl[c] \in Ended \/ NoAnswer(c)
        /\ accepting = None /\ backlog = << >>
  /\ UNCHANGED vars

ClientNext ==
  /\ \/ \E c \in Clients : ClientStep(c)
     \/ \E w \in Workers : WorkerStep(w)
     \/ ClientFault
  /\ UNCHANGED serverVars

ServerNext ==
  /\ \/ AcceptStep \/ AcceptError
     \/ \E c \in Clients : SessionStep(c)
     \/ \E w \in Workers : ThreadStep(w)
  /\ UNCHANGED clientVars

Next == ClientNext \/ ServerNext \/ Idle

Spec == Init /\ [][Next]_vars

(* The operating systems schedule the main thread and every worker thread  *)
(* of a client; the io_context runs its ready handlers in the order they   *)
(* became ready, so none of them waits forever.  Faults need not happen.   *)
Fairness ==
  /\ \A c \in Clients : WF_vars(ClientStep(c) /\ UNCHANGED serverVars)
  /\ \A w \in Workers : WF_vars(WorkerStep(w) /\ UNCHANGED serverVars)
  /\ WF_vars(AcceptStep /\ UNCHANGED clientVars)
  /\ \A c \in Clients : WF_vars(SessionStep(c) /\ UNCHANGED clientVars)
  /\ \A w \in Workers : WF_vars(ThreadStep(w) /\ UNCHANGED clientVars)

FairSpec == Spec /\ Fairness

TypeOK == NetTypeOK /\ ClientTypeOK /\ ServerTypeOK
-----------------------------------------------------------------------------
(* Safety                                                                  *)

\* A negotiation connection never carries transfer messages.
MainInOrder(c) ==
  \A i \in DOMAIN up[<<c, Main>>] : up[<<c, Main>>][i].type \in {"hello", "negotiation"}

\* States of a worker thread before it wrote its first message.
Early == {"off", "start", "connected"}

\* A transfer connection carries one init message before its data packets;
\* the init message is there from the worker's first write to the accept.
WorkerInOrder(w) ==
  /\ \A i \in DOMAIN up[w] :
       up[w][i].type = IF i = 1 /\ thread[w] = "none" THEN "init" ELSE "data"
  /\ wk[w] \in Early => up[w] = << >> /\ thread[w] = "none"
  /\ (link[w] = "open" /\ thread[w] = "none" /\ wk[w] \notin Early) => up[w] # << >>

(* What an endpoint reads next is what it expects: the steps of a Session  *)
(* read hello and negotiation, the accept handler a hello or an init, and  *)
(* the Thread it makes of the connection only data packets.                *)
ChannelsInOrder ==
  (\A c \in Clients : MainInOrder(c)) /\ (\A w \in Workers : WorkerInOrder(w))

\* Threads of c that were attached and did not report that they finished.
Unfinished(c) == {t \in Threads : thread[<<c, t>>] \in {"head", "body", "dead"}}

(* Session::number counts the attached threads that have not finished: it  *)
(* reaches 0, and the file is closed, when the last of them finishes and   *)
(* never while a thread lost its connection (finish_thread, attach_thread, *)
(* the error branches of Thread's reads).                                  *)
NumberIsUnfinished == \A c \in Clients : number[c] = Cardinality(Unfinished(c))

\* Where piece p of client c is, apart from the source file.
HeldPlaces(c, p) ==
  {<<"held", t>> : t \in {u \in Threads : wk[<<c, u>>] = "sending"
                                            /\ hold[<<c, u>>] = [order |-> p, size |-> 1]}}
SentPlaces(c, t, p) ==
  {<<"sent", t, i>> : i \in {j \in DOMAIN up[<<c, t>>] : up[<<c, t>>][j] = DataMsg(c, p, 1)}}
StoredPlaces(c, p) ==
  {<<"buffer", x>> : x \in buf[c] \cap {p}} \cup {<<"disk", x>> : x \in disk[c] \cap {p}}
Places(c, p) ==
  HeldPlaces(c, p) \cup (UNION {SentPlaces(c, t, p) : t \in Threads}) \cup StoredPlaces(c, p)

(* However the worker threads interleave between file_reader::read, the    *)
(* socket and file_writer::write, a piece is in one place at most: held by *)
(* one worker, on one connection, in the stream buffer or whole on disk.   *)
(* And it is nowhere before it was read.                                   *)
OnePlace ==
  \A c \in Clients : \A p \in Pieces :
    Cardinality(Places(c, p)) <= (IF p < next[c] THEN 1 ELSE 0)

(* A Thread that waits for data has a file_writer to write it to: the      *)
(* pointer it got from its session is never null (attach_thread does not   *)
(* look at the status of the session, step4 may leave _f null).            *)
NoNullFile ==
  \A w \in Workers : thread[w] \in {"head", "body"} => file[w[1]] # "none"

(* do_accept looks every session of s_list up in children and follows the  *)
(* pointer: a session that is in one and not in the other is a null        *)
(* pointer, or never cleaned.                                              *)
RegistryInSync == children = s_list

(* FINISHED: the session "has finished its task and can be deleted".  A    *)
(* finished session whose file was opened has the whole source file.       *)
FinishedIsComplete ==
  \A c \in Clients :
    status[c] = "FINISHED" /\ file[c] # "none" => disk[c] = Pieces

(* finish_thread "will be called once" by each thread that finished: when  *)
(* its finish packet is there, its session still is.                       *)
FinishFindsSession ==
  \A w \in Workers :
    (thread[w] = "body" /\ Readable(w) /\ Marker(Head(up[w]))) => ~Expired(w)

(* Session::number is a "counter to compute thread id", without duplicates *)
(* among the threads that have not finished.                               *)
ThreadIdsUnique ==
  \A c \in Clients : \A t, u \in Unfinished(c) :
    t # u => id[<<c, t>>] # id[<<c, u>>]

(* A session that do_accept deleted has no completion handler left to run: *)
(* it would write to the status of an object that is gone.                 *)
DeletedHasNoHandler ==
  \A c \in Clients : handler[c] = "replied" => c \in children

(* NEGOTIATED: "this Session is ready to receive transfer thread".  A       *)
(* session whose file could not be opened is not (step4 and the completion *)
(* of its reply).                                                          *)
NegotiatedIsReady ==
  \A c \in Clients : status[c] = "NEGOTIATED" => file[c] # "none"

(* A client that the hello rejects never gets to a file, or to a worker    *)
(* thread (server_hello_verify, step1, the exit(1) of handshake()).        *)
MismatchNeverTransfers ==
  \A c \in OtherKey \cup OtherVersion :
    cl[c] # "transfer" /\ file[c] = "none" /\ handler[c] = "none"

-----------------------------------------------------------------------------
(* Action properties                                                       *)

(* If the file is closed after all the workers of the client were attached *)
(* and finished, the source could be read and no seek failed, then every   *)
(* piece is in it: nothing is left behind on a connection, in a worker or  *)
(* in the buffer.                                                          *)
CompleteWhenAllFinish ==
  [][\A c \in Clients :
       (file[c] = "good" /\ file'[c] = "closed"
          /\ \A t \in Threads : thread'[<<c, t>>] = "done")
         => disk'[c] = Pieces]_vars

(* A file is closed only when no attached thread still has pieces to write *)
(* or lost its connection before it said that it finished.                 *)
ClosedByLast ==
  [][\A c \in Clients :
       file[c] # "closed" /\ file'[c] = "closed" => Unfinished(c)' = {}]_vars

(* A hello under another key or from another version is answered with the *)
(* status that says so; a step that takes it from the connection sends it. *)
RejectionIsAnswered ==
  [][\A c \in OtherKey \cup OtherVersion :
       accepting = <<c, Main>> /\ Readable(accepting) /\ accepting' = None
         => Len(down'[c]) = Len(down[c]) + 1]_vars
-----------------------------------------------------------------------------
(* Refinement: the composed system keeps the promise of RemoteFile.        *)

Pending(c) ==
  {p \in Pieces : \E t \in Threads :
     \/ wk[<<c, t>>] = "sending" /\ hold[<<c, t>>] = [order |-> p, size |-> 1]
     \/ \E i \in DOMAIN up[<<c, t>>] : up[<<c, t>>][i] = DataMsg(c, p, 1)}
  \cup buf[c]

Taken(c) == IF next[c] < NumPieces THEN next[c] ELSE NumPieces

File == INSTANCE RemoteFile WITH
  Uploads <- Clients,
  PieceCount <- NumPieces,
  DiskFails <- "disk" \in ServerFaults,
  taken <- [c \in Clients |-> Taken(c)],
  pending <- [c \in Clients |-> Pending(c)],
  stored <- disk,
  closed <- [c \in Clients |-> file[c] = "closed"]

(* The file on the server only ever gets pieces that were read from the    *)
(* source, each once, and is left alone once it is closed.  Of a disk that *)
(* fails it gets bytes in a wrong place: the buffer of the stream keeps    *)
(* what was written of it, and close writes it again behind that, twice    *)
(* (the seekp of write, the flush of close).  Then the place of its piece  *)
(* and the next two are damaged at most, and no piece is stored any more.  *)
KeepsPromise == File!Spec
-----------------------------------------------------------------------------
(* Liveness                                                                *)

(* Every client process comes to an end: no write, join or read of a reply *)
(* waits forever, whatever the server does with its sessions.  There are   *)
(* two exceptions, since no read has a timeout (Uploader::_read and        *)
(* Acceptor::_read): its own negotiation connection fell silent, or the    *)
(* server waits for a peer that did, which may be another client's.        *)
ClientsEnd == \A c \in Clients : []<>(cl[c] \in Ended \/ NoAnswer(c) \/ Held)

(* The one read on which the whole server waits, for the first message of  *)
(* an accepted connection, comes to an end, unless its peer says nothing   *)
(* and does not close the connection either (_read and the accept handler  *)
(* of Acceptor).                                                           *)
AcceptorReturns == []<>(accepting = None \/ Held)

Healthy == Clients \ (Faulty \cup OtherKey \cup OtherVersion)

(* With one worker thread, an upload that no fault hits is complete in the *)
(* end.  What the faults of other clients can do to it is keep the server  *)
(* waiting (Held); a client of another key can end the server, so there is *)
(* none here.                                                              *)
HealthyUploadsComplete ==
  OtherKey = {} =>
    \A c \in Healthy :
      []<>(\/ cl[c] = "done" /\ file[c] = "closed" /\ disk[c] = Pieces
           \/ Held)
=============================================================================
