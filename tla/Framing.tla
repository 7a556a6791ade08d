------------------------------ MODULE Framing ------------------------------
(***************************************************************************)
(* One direction of one connection, byte by byte: messages of Packets are  *)
(* written into a stream, the stream arrives in portions of any size, and  *)
(* the reader asks it for a header, a length and a body.  There are four   *)
(* kinds: the client's negotiation and transfer connections, the server's  *)
(* replies, and the acknowledgements of transfers, which protocol.cpp can  *)
(* build and read and the programs do not use.                             *)
(***************************************************************************)
EXTENDS Packets

CONSTANTS
  Kinds,      \* the kinds of connection to look at
  PieceSize,  \* the -s option
  Contents,   \* what pieces of the source file may hold
  Orders,     \* orders of pieces, and of the empty packet
  Lengths,    \* sizes of source files
  Paths,
  Statuses,   \* status bytes of the hello reply
  MaxMessages \* bound: messages on a connection

ASSUME FramingAssumption ==
  /\ PieceSize \in Nat \ {0}
  /\ Kinds \subseteq {"negotiation", "transfer", "reply", "ack"}
  /\ Orders \cup Lengths \subseteq Nat /\ Statuses \subseteq 0 .. 2
  /\ \A text \in Contents \cup Paths : text \in Seq(Range(text))
  /\ \A bytes \in Contents : Len(bytes) \in 1 .. PieceSize
  \* An argument of the program is a C string.
  /\ \A path \in Paths : NUL \notin Range(path)

VARIABLES
  conn,    \* the kind of the connection
  sess,    \* the session id of the upload
  sent,    \* packets written so far
  wire,    \* bytes written and not yet read
  arrived, \* how many of them the reader's socket has
  link,    \* "open", "shut" by the writer or "cut"
  sees,    \* the kind of connection the reader takes it for
  reader,  \* what it waits for, or "done" or "failed"
  want,    \* the length of the body
  got      \* packets read so far

vars == <<conn, sess, sent, wire, arrived, link, sees, reader, want, got>>

Header == [negotiation |-> MAGIC_HEADER, transfer |-> MAGIC_HEADER_TRANSFER,
           reply |-> MAGIC_HEADER, ack |-> MAGIC_HEADER_TRANSFER]

(* The packets on a connection of a session: first one, then the others.   *)
First(s) ==
  [negotiation |-> [kind : {"hello"}, status : {0, 2}],
   transfer |-> [kind : {"init"}, session : {s}],
   reply |-> {[kind |-> "client_hello", status |-> status,
               session |-> IF status = 0 THEN s ELSE << >>] : status \in Statuses},
   ack |-> [kind : {"init_reply"}, status : {0, 1}]]

Data(orders, contents) == [kind : {"data"}, order : orders, bytes : contents]
Finish == [kind |-> "data", order |-> 0, bytes |-> << >>]

Later ==
  [negotiation |-> [kind : {"negotiation"}, piece_size : {PieceSize},
                    file_length : Lengths, path : Paths],
   transfer |-> Data(Orders, Contents \cup {<< >>}) \cup {Finish},
   reply |-> [kind : {"reply"}, status : {0, 1}],
   ack |-> [kind : {"receive"}, status : {0, 1}]]

\* Pieces, the empty packet, the finish packet.
Empty == {i \in DOMAIN sent : sent[i].kind = "data" /\ sent[i].bytes = << >>}

Follows(p) ==
  IF sent = << >> THEN p \in First(sess)[conn]
  ELSE /\ p \in Later[conn]
       /\ conn \in {"negotiation", "reply"} => Len(sent) = 1 /\ sent[1].status = 0
       /\ conn = "transfer" => Empty = {} \/ (Cardinality(Empty) = 1 /\ p = Finish)

\* The piece is the whole buffer, whatever its size; in a finish packet a blank.
Piece(p) ==
  IF p = Finish THEN << <<"text", " ">> >>
  ELSE p.bytes \o [i \in 1 .. PieceSize - Len(p.bytes) |-> NUL]

Body(s, p) ==
  CASE p.kind = "hello" ->
         server_hello_build(IF p.status = 0 THEN VERSION ELSE OTHER_VERSION)
    [] p.kind = "client_hello" -> client_hello_build(p.status, s)
    [] p.kind = "negotiation" ->
         file_negotiation_build(s, p.piece_size, p.file_length, p.path)
    [] p.kind = "reply" -> file_negotiation_reply(s, p.status)
    [] p.kind = "init" -> file_transfer_init(s)
    [] p.kind = "data" -> file_transfer_build(s, p.order, Len(p.bytes), Piece(p))
    [] p.kind = "init_reply" -> file_transfer_init_reply(p.status)
    [] p.kind = "receive" -> file_transfer_receive(s, p.status)

Message(p) == build_msg(Header[conn], Body(sess, p))

Packet(body) ==
  IF got = << >> THEN
    CASE sees = "negotiation" -> [kind |-> "hello", status |-> server_hello_verify(body)]
      [] sees = "transfer" -> [kind |-> "init", session |-> file_transfer_init_read(body)]
      [] sees = "reply" -> client_hello_verify(body)
      [] sees = "ack" -> [kind |-> "init_reply", status |-> file_transfer_init_confirm(body)]
  ELSE
    CASE sees = "negotiation" -> file_negotiation_verify(body, sess)
      [] sees = "transfer" -> file_transfer_read(body, sess)
      [] sees = "reply" -> file_negotiation_finish(body, got[1].session)
      [] sees = "ack" -> file_transfer_confirm(body, sess)

\* The server guesses what a new connection is.
FromClient == {"negotiation", "transfer"}

Init ==
  /\ conn \in Kinds
  /\ sess \in session(SessionBytes)
  /\ sent = << >> /\ wire = << >> /\ arrived = 0 /\ link = "open"
  /\ sees = IF conn \in FromClient THEN "unknown" ELSE conn
  /\ reader = "magic" /\ want = 0 /\ got = << >>

Write ==
  /\ link = "open"
  /\ Len(sent) < MaxMessages
  /\ \E p \in First(sess)[conn] \cup Later[conn] :
       /\ Follows(p)
       /\ sent' = Append(sent, p)
       /\ wire' = wire \o Message(p)
  /\ UNCHANGED <<conn, sess, arrived, link, sees, reader, want, got>>

\* A portion of n bytes arrives in n steps.
Arrive ==
  /\ arrived < Len(wire)
  /\ arrived' = arrived + 1
  /\ UNCHANGED <<conn, sess, sent, wire, link, sees, reader, want, got>>

\* The writer ends: what it wrote still arrives.
Shut ==
  /\ link = "open"
  /\ link' = "shut"
  /\ UNCHANGED <<conn, sess, sent, wire, arrived, sees, reader, want, got>>

\* The connection is lost: what did not arrive is gone, the rest may be.
Cut ==
  /\ link = "open"
  /\ link' = "cut"
  /\ arrived' \in {0, arrived}
  /\ wire' = SubSeq(wire, 1, arrived')
  /\ UNCHANGED <<conn, sess, sent, sees, reader, want, got>>

Needed ==
  CASE reader = "magic" -> 2
    [] reader = "length" -> Digits
    [] reader = "head" -> 2 + Digits
    [] reader = "body" -> want

Waiting == reader \in {"magic", "length", "head", "body"}

\* A read of exactly n bytes completes.
Consume(at, n) ==
  /\ reader = at
  /\ arrived >= n
  /\ wire' = SubSeq(wire, n + 1, Len(wire))
  /\ arrived' = arrived - n

\* The first two reads of read_msg, read_msg_transfer and read_msg_guess.
ReadMagic ==
  LET magic == SubSeq(wire, 1, 2)
      kinds == {k \in IF sees = "unknown" THEN FromClient ELSE {sees} : Header[k] = magic}
  IN /\ Consume("magic", 2)
     /\ IF kinds = {} THEN reader' = "failed" /\ UNCHANGED sees
        ELSE reader' = "length" /\ sees' \in kinds
     /\ UNCHANGED <<conn, sess, sent, link, want, got>>

ReadLength ==
  /\ Consume("length", Digits)
  /\ want' = stoul(SubSeq(wire, 1, Digits))
  /\ reader' = "body"
  /\ UNCHANGED <<conn, sess, sent, link, sees, got>>

\* The asynchronous read of a head, then read_msg_len or read_msg_transfer_len.
ReadHead ==
  /\ Consume("head", 2 + Digits)
  /\ IF SubSeq(wire, 1, 2) # Header[sees] THEN reader' = "failed" /\ UNCHANGED want
     ELSE reader' = "body" /\ want' = stoul(SubSeq(wire, 3, 2 + Digits))
  /\ UNCHANGED <<conn, sess, sent, link, sees, got>>

\* Nothing more is read after the negotiation, its reply, a finish packet or
\* a hello that went wrong.
Enough(packet) ==
  \/ packet.kind \in {"negotiation", "reply"}
  \/ packet.kind \in {"hello", "client_hello"} /\ packet.status # 0
  \/ packet = Finish

\* A bug: the read takes all there is, and the surplus is dropped.
ReadBody_TakesAll ==
  /\ reader = "body" /\ arrived >= want
  /\ wire' = SubSeq(wire, arrived + 1, Len(wire)) /\ arrived' = 0
  /\ got' = Append(got, Packet(SubSeq(wire, 1, want)))
  /\ reader' = IF sees \in FromClient THEN "head" ELSE "magic"
  /\ UNCHANGED <<conn, sess, sent, link, sees, want>>

ReadBody ==
  /\ Consume("body", want)
  /\ \E packet \in {Packet(SubSeq(wire, 1, want))} :
     /\ got' = Append(got, packet)
     /\ reader' = IF packet = Malformed THEN "failed"
                  ELSE IF Enough(packet) THEN "done"
                  ELSE IF sees \in FromClient THEN "head" ELSE "magic"
  /\ UNCHANGED <<conn, sess, sent, link, sees, want>>

\* End of stream or a lost connection in the middle of a read.
ReadError ==
  /\ Waiting
  /\ link # "open" /\ arrived = Len(wire) /\ arrived < Needed
  /\ reader' = "failed"
  /\ UNCHANGED <<conn, sess, sent, wire, arrived, link, sees, want, got>>

Read == ReadMagic \/ ReadLength \/ ReadHead \/ ReadBody \/ ReadError

\* The reader left.
Idle == ~Waiting /\ UNCHANGED vars

Next == Write \/ Arrive \/ Shut \/ Cut \/ Read \/ Idle

Spec == Init /\ [][Next]_vars

(* What was written arrives, and the reader's thread or io_context runs.   *)
FairSpec == Spec /\ WF_vars(Arrive) /\ WF_vars(Read)
-----------------------------------------------------------------------------
Unread == SubSeq(sent, Len(got) + 1, Len(sent))

(* Between two messages the bytes on the stream are those of the messages  *)
(* that were written and not read: every reader takes exactly what its     *)
(* builder wrote, however the bytes arrive (build_msg, read_msg_len).      *)
InStep ==
  (reader \in {"magic", "head"} /\ link # "cut") =>
    wire = FlattenSeq([i \in DOMAIN Unread |-> Message(Unread[i])])

(* The connection is one of module Network: packets arrive whole, in order *)
(* and with the fields they were built from, and a read fails only at the  *)
(* end or when the connection is lost.                                     *)
Stream == INSTANCE Channel WITH
  queue <- Unread,
  reading <- Waiting

WholeMessages == Stream!Spec

(* Liveness: in the end all that was written is read, unless the           *)
(* connection is lost or the reader wants no more; it never waits for       *)
(* bytes that nobody wrote.                                                *)
WrittenIsRead == <>[](Len(got) = Len(sent) \/ link = "cut" \/ reader = "done")

(* The order of the piece that was sent is the one that is received.       *)
OrderArrives ==
  \A i \in DOMAIN got : sent[i].kind = "data" => got[i].order = sent[i].order

(* Each status of client_hello_build is understood by client_hello_verify. *)
StatusArrives ==
  \A i \in DOMAIN got : sent[i].kind = "client_hello" => got[i] = sent[i]

(* "true for valid message": is_ourmsg of what was sent.                   *)
OursIsOurs == \A i \in DOMAIN sent : is_ourmsg(Header[conn], Message(sent[i]))
=============================================================================
