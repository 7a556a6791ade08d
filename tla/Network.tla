------------------------------ MODULE Network ------------------------------
(***************************************************************************)
(* The TCP connections between the upload clients and the server, and the  *)
(* messages of protocol.cpp that travel on them.                           *)
(*                                                                         *)
(* Every client process opens one negotiation connection, <<c, Main>>, and *)
(* one transfer connection <<c, t>> for each of its worker threads.  A     *)
(* connection delivers the client's messages in order; it can be shut by   *)
(* the client (what was sent stays readable), reset by the server (what    *)
(* was not read is gone), cut by the network, which both ends get to know, *)
(* or fall silent, which neither does: no socket has a timeout or a        *)
(* keepalive.  Silent is also how the server sees a client that is         *)
(* stopped, or whose host is gone.                                         *)
(*                                                                         *)
(* A message is a record; its encryption, its length prefix and its text   *)
(* are abstracted to what the receiver can tell from it.                   *)
(***************************************************************************)
EXTENDS Naturals, Sequences, FiniteSets

CONSTANTS
  Clients,       \* client processes; also names the session of each client
  Threads,       \* worker threads of a client: the -t option
  Main,          \* marks the negotiation connection of a client
  None,          \* no connection
  Window,        \* messages a socket buffers before a blocking write waits
  OtherKey,      \* clients started with another -k than the server
  OtherVersion   \* clients built with another VERSION than the server

ASSUME NetworkAssumption ==
  /\ IsFiniteSet(Threads)
  /\ Main \notin Threads
  /\ Window \in Nat \ {0}
  /\ OtherKey \subseteq Clients
  /\ OtherVersion \subseteq Clients

Workers == Clients \X Threads
Conns == Clients \X (Threads \cup {Main})

ASSUME NoneAssumption == None \notin Conns

(* Packets, tagged by MAGIC_HEADER / MAGIC_HEADER_TRANSFER and contents.   *)
(* A data packet's size is only "empty" (0) or "a piece" (1).              *)
HelloMsg(c) == [type |-> "hello", sameKey |-> c \notin OtherKey,
                sameVersion |-> c \notin OtherVersion]
NegotiationMsg(c) == [type |-> "negotiation", session |-> c]
InitMsg(c) == [type |-> "init", session |-> c]
DataMsg(c, order, size) ==
  [type |-> "data", session |-> c, order |-> order, size |-> size]
FinishMsg(c) == DataMsg(c, 0, 0)

Messages ==
  [type : {"hello"}, sameKey : BOOLEAN, sameVersion : BOOLEAN]
    \cup [type : {"negotiation", "init"}, session : Clients]
    \cup [type : {"data"}, session : Clients, order : Nat, size : {0, 1}]

VARIABLES
  listening, \* does the server process (still) own its port?
  backlog,   \* connections established by the kernel and not yet accepted
  link,      \* link[k]: what happened to connection k so far
  up,        \* up[k]: messages the client wrote on k, not yet read
  down       \* down[c]: status bytes sent to c, not yet read

netVars == <<listening, backlog, link, up, down>>

LinkStates == {"idle", "open", "shut", "reset", "cut", "silent"}

NetTypeOK ==
  /\ listening \in BOOLEAN
  /\ backlog \in Seq(Conns)
  /\ link \in [Conns -> LinkStates]
  /\ up \in [Conns -> Seq(Messages)]
  /\ down \in [Clients -> Seq({0, 1})]

NetInit ==
  /\ listening = TRUE
  /\ backlog = << >>
  /\ link = [k \in Conns |-> "idle"]
  /\ up = [k \in Conns |-> << >>]
  /\ down = [c \in Clients |-> << >>]

\* A read of the next message succeeds.
Readable(k) == link[k] \in {"open", "shut", "silent"} /\ up[k] # << >>

\* A read reports an error: end of stream or a lost connection.  On a silent
\* connection it waits.
Broken(k) == link[k] = "cut" \/ (link[k] = "shut" /\ up[k] = << >>)

\* The blocking write of asio returns: there is room, or it fails, at once or
\* when the kernel has sent in vain for long enough.
CanWrite(k) == link[k] = "open" => Len(up[k]) < Window

\* connect(): the kernel queues the connection for the acceptor.
Connect(k) ==
  /\ listening
  /\ link' = [link EXCEPT ![k] = "open"]
  /\ backlog' = Append(backlog, k)

\* write(): on a dead connection the bytes vanish.
Transmit(k, m) ==
  up' = IF link[k] = "open" THEN [up EXCEPT ![k] = Append(@, m)] ELSE up

\* The client's end of the connections S is closed.
Shut(S) ==
  link' = [k \in Conns |-> IF k \in S /\ link[k] = "open" THEN "shut" ELSE link[k]]
=============================================================================
