# FileUploader in TLA+

FileUploader copies one file from a client to a server over several TCP
connections at once. This directory holds TLA+ modules of the two programs,
configurations that check them with TLC on small instances, and theorems about
them that TLAPS proves for all instances.

## 1. Inventory of the system

| Component | Source | State | Operations |
|---|---|---|---|
| `Acceptor` | `server.cpp:406-501` | `children` (session id to `Session`), `s_list`, the listening socket | `do_accept`: clean FINISHED sessions, wait for a connection; its handler reads the first message synchronously and opens a session, attaches a thread or drops the connection |
| `Session` | `server.cpp:203-373` | `status`, `number`, `_f`, `children`, its socket, the pending completion handler | `step1` .. `step4`, `attach_thread`, `finish_thread` |
| `Thread` | `server.cpp:64-167, 376-389` | its id, socket, `_f`, a weak pointer to its session | `_read_head`, `_read_body`, `_write_file` |
| `Uploader` | `client.cpp:59-223` | socket, session id, the shared `file_reader` | `handshake`, `file_negotiation`, `file_transfer` |
| `transfer()` | `client.cpp:227-320` | a socket, a buffer, `_offset` | connect, init message, loop of read and write, finish packet |
| `file_reader` | `file.cpp:11-102` | stream, remaining `file_size`, `offset`, `ok`, a mutex | `read`, `read_all` (debug) |
| `file_writer` | `file.cpp:104-186` | stream and its buffer, a mutex | constructor, `write`, `close`, destructor |
| wire protocol | `protocol.cpp`, `protocol.h` | none | build, verify and read one packet of each kind |
| `Randomsession` | `protocol.cpp:42-50` | random device | `session` |
| `AESEncrypter`, `AESDecrypter` | `encrypt.cpp` | keys | `encrypt`, `decrypt` |
| `main`, options, logging | `client.cpp:322-371`, `server.cpp:503-556` | globals | read options, set up loggers |

How they interact. A client process opens a negotiation connection and does
hello and file negotiation on it, one blocking call after the other. On success
it starts `-t` worker threads. Each opens a transfer connection, sends an init
message with the session id, and then sends the pieces that it takes from the
shared `file_reader`, an empty packet and a finish packet. Nothing is
acknowledged on transfer connections. The server runs every completion handler
on one thread. The accept handler reads the first message of a connection
synchronously and makes it a `Session` or a `Thread` of a known session. Threads
write to the session's `file_writer`; the finish packet calls `finish_thread`,
which closes the file when the count of attached threads is back at 0. Sessions
are deleted by the next `do_accept`.

What is hard here:

- connections are accepted in an order that is independent of what other
  threads of the client have already sent and finished;
- handlers keep references (a weak pointer, a bare `this`) to sessions that the
  accept of an unrelated connection deletes;
- errors of a socket end one object and tell nobody else;
- write errors, of sockets and of streams, are ignored;
- the stream of the remote file buffers small pieces and passes large ones on,
  so a byte reaches the file in a later call, or never on a full disk;
- bytes arrive in arbitrary portions and packets hold NUL bytes;
- the source file and the disk of the server change under the program;
- one exception ends the server for every client;
- the accept handler blocks the whole server, and no read has a timeout: a peer
  that says nothing, and is not known to be gone, is waited for without a limit.

What makes each component correct:

- `file_reader`: concurrent calls hand out the file piece by piece, each once,
  with the offset that belongs to the bytes; every caller gets the end.
- `file_writer`: pieces in any order end up in the file, each at its place,
  whatever else is written to the disk or to the same path, as long as the disk
  takes what it is given; nothing after `close`.
- wire protocol: what a builder wrote is what its reader gets, whole and in order.
- `Thread`: it only meets data packets; it has a writer to write to.
- `Session`: the count is that of the unfinished threads, the file is closed by
  the last of them, FINISHED means finished.
- `Acceptor`: the registry is consistent, and nothing but a silent peer holds
  the blocking read.
- `Uploader` and `transfer()`: every process ends, if its own connection and the
  server do not fall silent; a rejected one starts nothing.
- together: the remote file holds pieces of the source only, unless a write to
  the disk failed, and all of them when every worker was attached before the last
  one finished.

`PROJECT.json` lists the hazards line by line with the properties that cover them.

## 2. Modules

| Module | Models | Used by |
|---|---|---|
| `Network` | TCP connections and the packets on them | `Client`, `Server` |
| `Client` | `Uploader` and `transfer()`; one `file_reader::read` is one action | `Upload` |
| `Server` | `Acceptor`, `Session`, `Thread`, `file_writer` by pieces | `Upload` |
| `Upload` | the two composed, with the properties | `MCUpload`, the proofs |
| `RemoteFile` | abstract: what an upload promises about the remote file | `Upload`, as `KeepsPromise` |
| `Packets` | `protocol.cpp` and `encrypt.cpp`: every builder and reader, on bytes | `Framing` |
| `Framing` | one direction of one connection, byte by byte | `MCFraming` |
| `Channel` | abstract: a connection on which messages arrive whole, as `Network` has it | `Framing`, as `WholeMessages` |
| `FileReader` | `file_reader::read` statement by statement, called by many threads | `FileReaderProofs` |
| `PieceSource` | abstract: an atomic source of pieces | `FileReader`, as `AnswersAreAtomic` |
| `ChangingSource` | `file_reader` on a file that grows or is truncated meanwhile | |
| `FileWriter` | `file_writer` by bytes: several uploads, on one path or several, on two file systems | `MCFileWriter`, the proofs |
| `MCUpload`, `MCFraming`, `MCFileWriter` | symmetry and constant texts, for TLC | the configurations |
| `UploadProofs`, `PieceProofs`, `CompletionProofs` | theorems about `Upload`, each module on top of the one before | |
| `PacketsProofs`, `FramingProofs` | theorems about `Packets`, and on top of them about `Framing` | |
| `FileReaderProofs`, `ChangingSourceProofs`, `FileWriterProofs` | theorems about the module each is named after | |

The same code is at two levels in three places, and each time the detailed
module shows what the coarse one takes for granted: `Framing` that messages
arrive whole (`Network`), `FileReader` that a `read` is one step (`Client`,
`ChangingSource`), `FileWriter` that a piece given to a good stream is in the
file after `close` (`Server`).

### State and code

`Network`: `link[k]` is the fate of connection `k`; `up[k]` the messages its
client wrote that nobody read; `down[c]` the status bytes sent to client `c`;
`backlog` the connections that wait for `async_accept`. `<<c, Main>>` is the
negotiation connection of client `c`, `<<c, t>>` the transfer connection of its
worker `t`. `shut` is an orderly close by the client, `reset` a close by the
server, `cut` a loss that both ends get to know, and `silent` one that neither
does: what was sent before may still be read, what is written later vanishes, and
a read waits (neither program sets a timeout or a keepalive). That is how the
server sees a stopped client, a vanished host, and a stranger that connects and
says nothing.

`Client`: `cl[c]` and `wk[w]` are program counters between blocking calls.
`hold[w]` is the piece in `_read_buf`. `next`, `eof` and `ok` are the
`file_reader`, with `next` counted in pieces.

`Server`: `accepting` is the connection whose first message the accept handler
waits for. While it is set no other handler runs (`Free`). `handler[c]` and
`thread[w]` name the completion handler a `Session` or `Thread` waits for, with
`dead` for an object whose read failed. `file[c]` is the stream: no writer (or
one that did not open), good, bad (failbit) or closed. `buf[c]` is what the
stream has buffered, `disk[c]` the pieces that are whole and in place in the file,
`damaged[c]` the places where a write that failed half way left other bytes. `number`, `id`, `status`,
`children` and `s_list` are the members of the same names.

An action of `Server` is one completion handler run to its end; every return to
`do_accept` includes its cleaning (`Clean`). The accept handler is split in two,
at its blocking read.

`Packets`: every function of `protocol.h` that builds or reads a packet, under
its own name. A byte is a tuple that says what it is (`Char`, `text`, `digit`,
`aes`), so that two different fields never look alike by accident.

`Framing`: `wire` are the bytes written and not read, the first `arrived` of
which are in the reader's socket; `reader` is the read that the reader waits in
(`async_read` or `read` of exactly `Needed` bytes) and `sees` the kind of
connection that `read_msg_guess` took it for. `sent` and `got` are the packets of
both ends. `Follows` is the order in which the programs write them.

`ChangingSource`: `file_size`, `ok` and `offset` are the members of `file_reader`,
`pos`, `ahead` and `eof` the position, the buffered end and the eofbit of the
stream. `sent` collects the packets.

`FileWriter`: `stream[w]` is the state of `_file`: `full` after a write that the
disk did not take whole, `failed` after a refused seek, and closed in the states
`closed`, `lost` and `dropped` that follow from these. `buf[w]` and `fd[w]` are
its buffer and the position of its descriptor, `disk[p]` the bytes of a file, each
known by the upload and the place in the source that it came from. There are two
file systems, since the constructor looks at the space of the current directory
(`file.cpp:107`) and opens a path that the client names (`file.cpp:122`): `On(p)`
is the one of `p`, and `Refuse` and `Open` ask `Free` of the current one. A hole
takes no space (`Stored`, `Used`); `Taken` is the largest part of a write that fits
the file system and `LargestFile`, beyond which a seek is refused. `SeekAndWrite` is
`write`, of a piece (`WriteGood`) or of the empty packet, whose order was never
set (`WriteEmpty`): it writes nothing but its seek flushes the buffer, moves the
descriptor, and may be refused, after which no later piece is written.

`Server` has the same errors by pieces. A write that fails leaves the stream bad
with its buffer as it was, and possibly a part of the piece in the file
(`damaged`). `close` then tries the whole buffer again, twice, from its first byte
on, but at the descriptor (`Moved`), and puts it behind its place: over the rest of
the piece and the start of the next one, and the second try, if the first got
written a part of it, possibly over the one after that (`Astray`, `Misplaced`).

### Abstractions

- In `Upload` a piece is known by its order, and a session id and a path by the
  client. What the receiver of a packet compares is kept. Decryption with another
  key throws or yields a wrong header (`HelloVerify`). Ids are 32 random bytes,
  which repeat with negligible probability; two uploads to one path are in
  `FileWriter`.
- In `Upload` a message arrives as a whole. The model reads the 10 byte head of a
  message without consuming it (`ReadHead`) and consumes message and head in the
  handler of the body, since the head alone decides nothing. A half arrived
  message is like none: both leave the reader waiting. `Framing` has the bytes.
- In `Packets` the widths of the fields and the base of the numbers are
  parameters, so that a number at the limit of its field is small. The cipher of
  a block stands for the block; the padding and the NUL that `encrypt` adds are
  there, the key derivation and AES are not.
- `Framing` lets bytes arrive one by one: any portion is several such steps. The
  kernel accepts a whole message at once.
- `FileReader` and `ChangingSource` are about a source that could be opened. In
  `Client`, `SourceUnreadable` is the one that could not.
- The bytes of `ChangingSource` are known by their position: a truncated and
  rewritten file has other bytes there, which are as good. Only the size changes.
- In `Server` a client's pieces all fit the buffer of the stream (`Buffered`) or
  none does; `FileWriter` mixes the two in one file (the last piece is shorter).
- `FileWriter` gives each piece to `write` once, in any order, which is what
  `OnePlace` of `Upload` says. Its destructor does what `Close` does.
- A `Thread` whose entry in `Session::children` was overwritten keeps its socket
  in the model until its session goes; nothing reads or writes that socket.
- `HelloSent` fails only if the connection was cut: a write to a closed peer
  succeeds at first, and then the next read fails.
- After an accept error the socket, which has no connection, is dropped.
- A connection of some other program on the port is not modelled as such. One that
  sends something else, or closes, ends in the branch of `AcceptNothing`; one that
  says nothing is to the server like a client's connection that falls silent
  before its first message.
- `Kill` shuts the connections of a client: its kernel is still there. A client
  that goes with its host is one whose connections fall silent.
- A silent connection stays so, or is found to be cut; it does not recover.
- In `Packets`, a file negotiation of another session is read as nothing
  (`nothing_read`): `file_negotiation_verify` returns 1 and leaves its results
  alone, and `step4` does not look at the return value (`server.cpp:312`). No client
  sends one, because each writes its own id on its own connection.

## 3. Runs

All bounds are in the configurations. `Window = 1` is the smallest buffer of a
socket and makes writers wait most often. `SeekLimit = 9` is larger than any
piece order: only the garbage order 9 of an empty packet reaches it.

| Run | Instance | Checks |
|---|---|---|
| `single` | 2 clients with 1 worker, 3 pieces; one client may be killed, cut, silent or have no source; accept errors | `FinishFindsSession`, `FinishedIsComplete`, `HealthyUploadsComplete`, `AcceptorReturns`, `ClientsEnd` |
| `parallel` | 1 client with 3 workers, 3 pieces; garbage orders 0 (looks like a finish packet) and 9 (seek fails) | `TypeOK`, `ChannelsInOrder`, `OnePlace`, `CompleteWhenAllFinish` |
| `faults` | 1 client with 2 workers, 2 pieces; kill, cut, unreadable source, disk errors | `NumberIsUnfinished`, `ClosedByLast`, `KeepsPromise`, `ClientsEnd` |
| `rejects` | 3 clients with 2 workers: one of another key, which may end the server, one of another version, a healthy one; 1 piece, which is buffered; opening a file and writing to it may fail | `NoNullFile`, `RegistryInSync`, `MismatchNeverTransfers`, `ClientsEnd`, `KeepsPromise` |
| `reader` | 3 threads, a file of 5 bytes, pieces of 2 | `ReaderTypeOK`, `PacketMatchesBytes`, `EndMeansAllRead`, `AnswersAreAtomic`, `EveryoneDone` |
| `framing` | each of the 4 kinds of connection, up to 4 messages; numbers to base 4 with 2 digits, ids of 1 byte, blocks of 4, pieces of 2 | `InStep`, `WholeMessages`, `WrittenIsRead` |
| `source` | 2 workers, a file of 0, 4 or 5 bytes that changes twice to any of 7 sizes up to 9, pieces of 2 | `BytesInPlace`, `MeasuredArrives`, `EveryoneEnds` |
| `writers` | 2 uploads of 5 or 6 bytes in pieces of 2 or 3, on one path or two; file systems of 5 bytes (the one looked at) and 4, one byte of each others may take; positions up to 6; empty packets of order 1 and 9; a stream buffer of 3 | `BytesInPlace`, `ClosedHoldsWritten`, `LastOpenerHasNoHole`, `CheckedSpaceIsEnough` |

Why these bounds are enough. Two clients are needed for one to block or clean up
after the other, two workers for one to finish before the other is accepted, and
three for one to finish between the accepts of two others. Two full pieces
and a short one take every branch of `file_reader::read`, with an answer in each
worker's hand while another is on the way. A worker never has more than two
messages of interest on its connection: a piece and the one that ends the loop.

In `framing` four messages are every packet of a negotiation and, on a transfer
connection, init, piece, empty packet and finish packet: each state of the
reader meets each packet. Ids and pieces may be NUL, pieces may end in NUL and
be shorter than the buffer, the file length 200 needs more digits than an order
has, order 9 is no first piece, and every message is several blocks or one. In
`source` the sizes are below, at and above each piece boundary of the measured
file, and two changes are a shrink and a growth in either order. In `writers` a
piece of 2 is buffered and one of 3 is not; three pieces are enough for a
buffered one between two that are not. The file system that is looked at has room
for the shorter file, not for it and what others take, nor for the longer one, which
the check refuses; the other one has no room for either, although the check passes.
That a file may be too long for a file system with room for it is in the theorems
only. Of the empty packets, order 1 seeks into the file, 9
where the seek is refused. The source of `reader` has a short last piece;
`reader_multiple.cfg` and `reader_empty.cfg` check the same on a file of two whole
pieces and on an empty one, and the theorems of section 4 hold for every size.

In `single` the silence of one connection may come at any message of it, the
first one included, which is what holds the server. The number of clients that
can fall silent makes no difference to that. In `rejects` the exception comes at
any point of the upload of another client. Properties that these faults could
break are checked in the run that has them, and only there: no run but `faults`
has a source that cannot be opened, for one, and `FinishedIsComplete` is false
with it (`unreadable_source` below).

`FinishFindsSession` and `FinishedIsComplete` hold with one worker per client
(`single`) and fail with two (below). `CompleteWhenAllFinish` is what remains
true with several: if all workers were attached before the last one finished,
the file is complete.

### Disagreements between the code and its comments

Each of these runs has one property, taken from a comment, that the code
violates.

| Run | Comment | What happens |
|---|---|---|
| `early_close` | FINISHED: "has finished its task" (`server.cpp:179`) | `FinishedIsComplete`: the file is closed while a worker that is not accepted yet holds a piece; its later writes are dropped |
| `orphan_thread` | `finish_thread` is called once by each thread (`server.cpp:363`) | `FinishFindsSession`: the session is gone, `bad_weak_ptr` ends the server |
| `deleted_session` | FINISHED: "can be deleted" (`server.cpp:179`) | `DeletedHasNoHandler`: the completion handler of the reply writes to the deleted session |
| `rejected_hello` | replies 1 and 2 to a hello (`protocol.h:42-45`) | `RejectionIsAnswered`: no reply is ever sent; another key can end the server |

Smaller ones have a configuration too, which is not among the runs of
`PROJECT.json`: `tlc -config X.cfg M` shows each.

| Configuration, module | Property | Comment | What happens |
|---|---|---|---|
| `thread_ids`, `MCUpload` | `ThreadIdsUnique` | no duplicate count (`server.cpp:199-200`) | the counter goes down again, and the id of an unfinished thread is given twice |
| `unreadable_source`, `MCUpload` | `FinishedIsComplete` | "file opened successfully" (`file.cpp:39`) | a source that cannot be opened is uploaded as an empty file, and everyone says finished |
| `refused_file`, `MCUpload` | `NegotiatedIsReady` | NEGOTIATED: "ready to receive transfer thread" (`server.cpp:178`) | the completion of the refusal sets NEGOTIATED over FINISHED (`server.cpp:334`) |
| `reader_offset`, `FileReader` | `OffsetIsStored` | `offset_` stores the start of the piece (`file.h:77`) | unset at the end of the file, garbage in the empty packet |
| `growing_source`, `ChangingSource` | `SizeIsRead` | "real read bytes for last piece" (`file.h:78-80`) | the size of the last piece is the measured rest, not what was read (`file.cpp:81`) |
| `shared_path`, `FileWriter` | `ClosedIsOwn` | "multi instance should never control the same file" (`file.h:122-124`) | two sessions may name one path, and the file gets pieces of both |
| `order_wrap`, `MCFraming` | `OrderArrives` | the order of a piece (`protocol.h:351`) | cut to 32 bits (`client.cpp:287`): later pieces overwrite the first |
| `hello_status`, `MCFraming` | `StatusArrives` | the three replies to a hello (`protocol.h:42-45`) | the third is built without its status byte (`protocol.cpp:241`) and refused (`protocol.cpp:262`) |
| `our_message`, `MCFraming` | `OursIsOurs` | "true for valid message" (`protocol.h:140`) | compares all but the header with the header (`protocol.cpp:86`); deprecated, and nothing calls it |

### Fairness

`FairSpec` of `Upload` assumes weak fairness of the main thread and of every
worker of a client (the operating system schedules them), of the accept handler,
and of the handlers of each session and each thread (the `io_context` is a queue
of ready handlers). Weak fairness is enough although the accept handler disables
the others while it waits: `AcceptConnection` of a stream of new connections
could postpone them, but there are finitely many connections, and
`AcceptorReturns` is checked. Faults are never fair, and neither is their end: a
connection that fell silent may stay so.

So fairness says nothing of silent peers, and the liveness properties of `Upload`
name them. `Held` is the state in which the accept handler waits for one. While
it lasts the server runs nothing, for any client: that is what the code does, and
`AcceptorReturns`, `ClientsEnd` and `HealthyUploadsComplete` say that nothing else
keeps the acceptor, a client or an upload waiting. `NoAnswer(c)` is a client whose
own negotiation connection fell silent. `HealthyUploadsComplete` further needs
that no client has another key, whose hello may end the server
(`rejected_hello`); what then becomes of the other clients is in `rejects`. `FairSpec` of `FileReader`
adds strong fairness of the lock: a thread that waits for a mutex gets it.
`FairSpec` of `Framing` says that bytes that were written arrive unless the
connection is lost, and that the reader runs; the writer may stop anywhere.
`FairSpec` of `ChangingSource` has weak fairness of each worker; the file changes
at most `MaxChanges` times, and without a bound a file that grows forever is read
forever.

`CHECK_DEADLOCK` is on in every run. `Idle` and `Finished` are the states in
which the programs really stop: the server waits for connections, or every
reader is done.

## 4. Proofs

### The protocol

`UploadProofs`, `PieceProofs` and `CompletionProofs` prove the following for
every set of clients, every finite set of threads and every value of the other
constants, all faults included, under `NetworkAssumption`, `NoneAssumption`,
`ClientAssumption` and `ServerAssumption`, which TLC evaluates in every run of
`MCUpload`. What a theorem assumes beyond that is in its row.

| Theorem | Module | Statement |
|---|---|---|
| `TypeCorrect` | `UploadProofs` | `Spec => []TypeOK` |
| `InOrder` | `UploadProofs` | `Spec => []ChannelsInOrder` |
| `NumberCorrect` | `UploadProofs` | `Spec => []NumberIsUnfinished` |
| `ClosedByLastCorrect` | `UploadProofs` | `Spec => ClosedByLast` |
| `RegistryCorrect` | `UploadProofs` | `Spec => []RegistryInSync` |
| `NoNullFileCorrect` | `UploadProofs` | `Spec => []NoNullFile` |
| `MismatchCorrect` | `UploadProofs` | `Spec => []MismatchNeverTransfers` |
| `OnePlaceCorrect` | `PieceProofs` | `Spec => []OnePlace` |
| `PromiseKept` | `PieceProofs` | `Spec => KeepsPromise` |
| `CompleteCorrect` | `CompletionProofs` | `Spec => CompleteWhenAllFinish`, for a readable source; if the disk can fail, for unbuffered pieces |
| `SessionFound` | `CompletionProofs` | `Spec => []FinishFindsSession`, for one worker per client |
| `FinishedComplete` | `CompletionProofs` | `Spec => []FinishedIsComplete`, for one worker per client, a readable source, a disk that takes what it is given and a file that a seek can reach |

`UploadProofs`. `TypeOK` is not inductive alone: a handler of a `Thread` reads the
`order` of the message it takes, so the message has to be a data packet. That is
`ChannelsInOrder`: an init message is on a connection exactly until its `Thread`
exists, because the worker sends it first and the accept handler takes it. A
worker that starts over would send a second one, so the proof also needs
`WorkersWait`: workers start only with the transfer. `Typed`, the conjunction of
the three, is inductive. The cases of the proof are grouped by what a step does
to the connections: nothing is sent (`Quiet`), a message is sent
(`TransmitEffect`), one is read (`Reading`).

`NumberIsUnfinished` is inductive relative to `Typed`. `attach_thread` adds a
thread that was not counted, because an unread init message means that there is
no `Thread` yet; `finish_thread` removes one that was counted. `ClosedByLast`
follows: only `FinishThread` closes a file, it leaves the count at 0, and a
finite set of 0 threads is empty. `RegistryInSync` is inductive by itself.

`UploadProofs` again, for the negotiation. That a `Thread` has a file is a fact
about the order of messages between two processes: the worker exists because its
client was told success, which the session says only after it opened the file.
`Negotiation(c)` says it in four parts: no reply comes before the hello, and
none while the hello is unread (`Answered`, `HelloFirst`); until the session
replies to the negotiation it has no file (`Unopened`); and without a file the
client was not told success and none of its workers runs (`NoFile`). Most steps
leave all of a client's part alone (`Undisturbed`), so each lemma is about one
client. `MismatchCorrect` adds `NeverAnswered`: the session of a rejected client
has no completion handler.

`PieceProofs`. `OnePlace` counts places, and a count is awkward to induct over;
`One(c, p)` says the same with quantifiers: a piece that was not read is nowhere
(`Fresh`), on the client's side it is in one place at most (`Alone`), and then
it is not on the server's (`Away`). Every step of the server, and every fault,
reads the first message of at most one connection and hands its piece on
(`Passes`, from `Drained`: of the other connections, nothing is left or all is
as it was); only the worker's steps take and send (`TakeKeepsOne`,
`SendKeepsOne`). They need `Sources`: what a worker is about to send is a piece
of the file or nothing (`Orders`), connections carry pieces of their own client
(`OwnPieces`), a session without a file has no piece and a closed stream buffers
nothing (`Streams`). For `PromiseKept` the pieces taken are those below `next`,
those pending are held, sent or buffered; each step loses pending pieces
(`LosesOnly`), stores some of them (`Writes`), or takes the next one
(`TakeRefines`), and what it stores was pending because a piece is in one place.
A write that the disk refuses is a step of its own, `Damage` of `RemoteFile`
(`StoreDamage`, `DamagesOnly`). That it reaches three places and no more is again in
`Streams`: nothing is damaged while the stream is good, and a bad one has damaged
only the piece that is still in its buffer (`StreamOf`), so `close` starts within
that piece.

`CompletionProofs`. That nothing is in two places does not say that nothing is
missing. `Kept` does: a piece that was read is with a worker, on a connection or
on the server, or the upload is `Lost`: the server is down, the stream failed or
is closed, or a connection is `Gone` before its `Thread` was done: broken, or
silent without the packet that ends a worker's part. So it has to be
shown that a step which drops a piece leaves one of these marks, for good. At
the close of the file all threads are done; then no worker holds anything and no
connection has a piece, because behind an empty packet there are only empty
packets (`Ends`) and a worker sends one only after the end of the source
(`AtEnd`); and since the stream is good and every connection was finished, the
upload is not lost. Two hypotheses remain, and the code needs both.
`file_reader` does not report a source that it cannot open: everyone finishes
and the file is empty (`unreadable_source` in section 3). And `close` does not
look at the result of its flush, which is the only write a buffered piece gets:
with a disk that fails there, `Buffered` has to be empty (`Unbuffered`).

`CompletionProofs` again. With one worker per client what fails in
`orphan_thread` and `early_close` holds. `Registered` says that the session of a
`Thread` that has not finished is in the registry and not FINISHED. It survives
the cleaning of any accept handler, since only FINISHED sessions are cleaned,
and `FinishedWhy` lists what makes a session FINISHED: a rejected hello, a
refused file, or its one thread. For `FinishedComplete`, `Wholes` says that a
closed file is whole, by `CompleteCorrect`'s step, and that a thread which is
done has closed the file. `SoundDisk` assumes away what `file_writer` does not
report: a write that the disk refuses, and a place in the file that a seek does
not reach.

### The source file

`FileReaderProofs` proves the following for every number of threads, every file
size and every piece size, under `ReaderAssumption`.

| Theorem | Statement |
|---|---|
| `ReaderTypeCorrect` | `Spec => []ReaderTypeOK` |
| `PacketsCorrect` | `Spec => []PacketMatchesBytes` |
| `EndCorrect` | `Spec => []EndMeansAllRead` |
| `ReadIsAtomic` | `Spec => AnswersAreAtomic` |

The argument. While the mutex is free and the file is not at its end,
`pos = offset * buff_s` and `pos + file_size = Size` (`Between`). The statements
of `read` break these equations one after the other and `Progress` says, for
each program counter, which of them hold and what the local `_offset` and the
buffer are; it says nothing of threads outside the lock. `Exclusion` ties the
program counters to the owner of the mutex, so that a step has to restore only
its own thread's part (`OwnerProgress`). At a return the equations are back
(`ReturnKeeps`), which gives the packet its offset, and the end of the file its
meaning. For `ReadIsAtomic` the bytes handed out are `pos`, except between the
read of a whole piece and its return, where they are the start of that piece;
then all steps but the returns stutter (`SilentSteps`) and each return is one
step of `PieceSource` (`ReturnSteps`).

`ChangingSourceProofs` proves two theorems for every number of threads, every
size of file and piece and every change of the file, under `SourceAssumption`.

| Theorem | Statement |
|---|---|
| `SourceBytesInPlace` | `Spec => []BytesInPlace` |
| `MeasuredIsSent` | `Spec => []MeasuredArrives`, for at least one worker |

The argument. Until a read meets the end of the file, `pos = offset * buff_s`
(`Positions`), however the size changes in between; a packet's place is computed
from `offset` and its bytes are from `pos`, so they agree, and the packets are
of pieces before `offset` (`Counted`), so they do not overlap (`Apart`). The
only read that breaks the equation is a short one, which sets eofbit, after
which nothing is read. For `MeasuredIsSent`, every measured byte before `pos`
has been sent (`Covered`), and the rest is still counted by `file_size` until
only the last piece is left (`Unread`). When a file grows, a read can return the
size 0 before the stream ends, which sends the caller away; it does so only once
all that was measured is read. So no worker leaves and no stream ends before
that, unless the file shrank (`Behind`). With `-t 0` nobody reads, hence the
hypothesis.

### The file that is written

`FileWriterProofs` proves four theorems for every number of uploads, any finite
set of paths and all sizes of files, pieces, stream buffer and disk, under
`WriterAssumption`.

| Theorem | Statement |
|---|---|
| `WriterBytesInPlace` | `Spec => []BytesInPlace` |
| `WriterHoldsWritten` | `Spec => []ClosedHoldsWritten` |
| `WriterLeavesNoHole` | `Spec => []LastOpenerHasNoHole` |
| `WriterSpaceIsEnough` | `Spec => []CheckedSpaceIsEnough` |

The argument. First what the operators do, in terms a step can use. `PutIs`,
`AfterIs`: the bytes of a file after a write. `UsedIsFinite`, `TakenIs`: the file
system takes some part of a write, and the largest that fits; the other one is as
before (`ElsewhereAsBefore`). `KernelMoves` puts these together in `Moved`, which is
what the rest of the proof knows of the kernel: of the bytes, the first `n` are in
the file at their place, all else is as it was, and a longer part had no room.
`WriteMoves` and `CloseMoves` reduce `write` and `close` to such moves: the flush
failed, the seek was refused after it, or the bytes went to the buffer or to the
kernel. A piece and an empty packet are the same for all of this: `Given` says what
is needed of the bytes, that they belong where they are written and lie within the
file, which no byte does trivially (`PieceGiven`, `NothingGiven`, `WriteIs`).

`PlaceInv` then says that every byte on disk, and every byte in a buffer counted
from the position of the descriptor, is at its place (`Cells`, `Buffers`). The
exception for a writer whose write was not taken whole is needed: after a failed
flush the buffer keeps all its bytes although the descriptor has moved, and `close`
writes them again in the wrong place. A refused seek needs none, since it comes
after the flush. `KeepInv` adds that what the last opener of a file was given is on
disk or in its buffer (`Kept`, for the bytes of a piece one by one), that the opener
of a file is known (`Openers`), and that no file ends in a hole (`Topped`), which
fixes the length of a file that one upload wrote. `Lone` says of an upload that is
alone (`AloneOnDisk`: no other upload opened a file, its path is on the file system
that was looked at and its file is not too long for it) that its file and its
buffer stay within `length`, which fitted when it was opened; a write into the only
file of the disk that ends within that length is taken whole (`MovedFits`).

`WriterSpaceIsEnough` promises no more than that. For a path on another file system
the check of the constructor says nothing, and the seek of an empty packet can be
refused on an empty disk, after which the stream drops every piece that follows:
then nothing is misplaced (`BytesInPlace`), and the file lacks them.

### The bytes

`PacketsProofs` proves for every base and every width of the fields, and for
texts of any bytes and any length, under `PacketsAssumption`:

| Theorem | Statement |
|---|---|
| `NumberIsRead` | `stoul` undoes `fixedLength`, for a number that fits its field |
| `DecryptsEncrypted` | `decrypt` of `encrypt` is the text and the NUL that `encrypt` adds |

and a lemma of the same kind for each of the eight packets (`HelloIsRead` ..
`DataIsRead`): what its reader makes of the bytes of its builder. `FramingProofs`
proves for every number of messages and all their contents, and for bytes that
arrive in any portions, under `FramingAssumption` as well:

| Theorem | Statement |
|---|---|
| `ReadersStayInStep` | `MessagesFit => (Spec => []InStep)` |
| `StreamIsConnection` | `FieldsFit => (Spec => WholeMessages)` |
| `FieldsArrive` | `FieldsFit => (Spec => [](OrderArrives /\ StatusArrives))` |

`MessagesFit` says that bodies are shorter than a length field can tell and that
the size of a file is one of 64 bits. `ProgramFits` shows it for the widths of
the program, any `-s` that is an `int`, and paths below 64 KiB. `FieldsFit` adds
that orders are of 32 bits, and that no hello is answered with the version. Both
are limits of the code, which does not check them: the configurations
`order_wrap` and `hello_status` show what becomes of an order and of a reply
beyond them. The instance of the run `framing` satisfies `FieldsFit`.

The argument begins with induction. The induction theorems of the library take an
operator, which the provers cannot instantiate; `SetInduction` says it with a set,
from the well-foundedness of `<`. `Recursion` derives from it that a function
given by its first value and its steps exists, and that is what shows `Power`,
the accumulated value of `stoul` and `FlattenSeq` to be what their definitions
say (`PowerIs`, `ReadDigits`, `Flattened`). `NumberIsRead` follows digit by digit
(`DigitStep`). For `DecryptsEncrypted`, the padding fills whole blocks and ends
in its own length (`PaddedIs`), and a byte of a block tells the byte of the text
at its place (`CipherIs`), which also makes the comparison in `decrypt` true. The
packets are then fields one after the other (`FourFields`), cut out by `substr`.

For the stream, `Ahead` is what a reader has still to read: all unread messages,
or what is left of the first one after its header or its length. The invariant
`Framed` says that the stream `Carries` just that, of which a cut may have taken
the end, and that a reader which waits for a body knows its length. Each read
takes the first of two parts (`CarriesRead`), and `TakesMessage` says what the
parts of a message are; a reader that finds enough bytes finds an unread message
(`SomethingAhead`). `Framed` does not need to know what packets say, only where
they end. For `StreamIsConnection` it has to be known what they say: `Received`
adds that what was read is what was sent (`GotIsSent`), which at the body of a
message is the lemma about its kind (`PacketIsRead`). The kind is right because
the server, which guesses it from the first header, guesses right (`MagicIsRead`).
Then writes and the reads of bodies are the steps of `Channel`, all other reads
stutter, and a read that fails at the end of a stream that was shut had no
message left to read (`EnoughArrived`).

### Model-checked only

- All liveness (`HealthyUploadsComplete`, `ClientsEnd`, `AcceptorReturns`,
  `EveryoneDone`, `EveryoneEnds`, `WrittenIsRead`): temporal reasoning with
  fairness and `ENABLED` is out of the prover's reach.
- What the code violates (section 3): the runs show the counterexamples.

Every invariant, action property and refinement that a passing run checks is
also a theorem.

## 5. Not modelled

- Uniqueness of session ids (`Randomsession`): a matter of probability.
- The key derivation and the cipher (Crypto++).
- `main`, option parsing, logging, timing: no state of the protocol. `-s 0`, which
  divides by 0, and `-t 0`, which starts no worker, make no upload.
- A `write_some` that writes less than a message, and the two replies whose
  buffers are gone if `async_write` does not complete at once: both take messages
  of some tens to hundreds of bytes on an empty socket buffer.
- Debug programs (`read_all` among their helpers), build and design files.

## 6. Plan

Done: the protocol (`Network`, `Client`, `Server`, `Upload`), the bytes below it
(`Packets`, `Framing`, `FileReader`, `FileWriter`, `ChangingSource`), the three
abstract specifications, and the theorems above, which are all the safety
properties that the passing runs check.

What could follow is in the hazards that `PROJECT.json` lists without a property
(section 5): a `write_some` that writes less than a message would be a new action
of `Framing`, after which `WholeMessages` no longer holds for a message that is
larger than the socket's buffer.
