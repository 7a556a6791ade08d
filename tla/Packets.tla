------------------------------ MODULE Packets ------------------------------
(***************************************************************************)
(* The byte layout of protocol.cpp: what each builder writes and what its  *)
(* reader makes of it.  A byte is a tuple: <<"char", n>> is a byte n, and   *)
(* <<"text", c>> one with a meaning of its own, <<"digit", d>> is a         *)
(* hexadecimal digit and <<"aes", block, i>> the i-th byte of the cipher of *)
(* a block.  Field widths are parameters, so that numbers at the limit of  *)
(* their field are small.                                                  *)
(***************************************************************************)
EXTENDS Naturals, Sequences, SequencesExt

CONSTANTS
  Base,         \* of std::hex: 16
  Digits,       \* digits of an uint32_t: 8, and half those of an uint64_t
  SessionBytes, \* length of a session id: 32
  Block         \* AES::BLOCKSIZE and the dummy head of two packets: 16

ASSUME PacketsAssumption ==
  /\ Base \in Nat \ {0, 1}
  /\ {Digits, SessionBytes, Block} \subseteq Nat \ {0}

Char(n) == <<"char", n>>
NUL == Char(0)
MAGIC_HEADER == << <<"text", "T">>, <<"text", "Y">> >>
MAGIC_HEADER_TRANSFER == << <<"text", "Y">>, <<"text", "T">> >>
VERSION == <<Char(1)>>
OTHER_VERSION == <<Char(2)>>

Power[n \in Nat] == IF n = 0 THEN 1 ELSE Base * Power[n - 1]

\* The argument of an uint32_t parameter.
ToUint32(n) == n % Power[Digits]

substr(s, at, n) == SubSeq(s, at + 1, IF at + n < Len(s) THEN at + n ELSE Len(s))

\* The digit of n at place i, counted from the right.
Digit(n, i) == <<"digit", (n \div Power[i]) % Base>>

\* setw is a minimum: a larger number makes the text longer.
fixedLength(value, digits) ==
  LET width == IF value < Power[digits] THEN digits
               ELSE CHOOSE n \in digits .. digits + value :
                      value < Power[n] /\ value >= Power[n - 1]
  IN [i \in 1 .. width |-> Digit(value, width - i)]

\* value[i] is the number that the first i digits make.  0 stands for the
\* exception at a text that is not a number.
stoul(s) ==
  LET value[i \in 0 .. Len(s)] == IF i = 0 THEN 0 ELSE value[i - 1] * Base + s[i][2]
  IN IF \E i \in DOMAIN s : s[i][1] # "digit" THEN 0 ELSE value[Len(s)]

\* Randomsession::session: any bytes, NUL included.
session(length) == [1 .. length -> {NUL, Char(7)}]

\* AES-ECB: each byte of the cipher is one of the cipher of a block.
BlockAt(i) == ((i - 1) \div Block) * Block
Cipher(text) ==
  [i \in DOMAIN text |->
     <<"aes", SubSeq(text, BlockAt(i) + 1, BlockAt(i) + Block), i - BlockAt(i)>>]

\* The padding of Crypto++ fills up the last block, or is a block.
Padded(text) ==
  LET n == Block - (Len(text) % Block) IN text \o [i \in 1 .. n |-> Char(n)]

\* A bug: the text ends at its first NUL, like a C string.
encrypt_CString(plain) ==
  LET text == Append(plain, NUL)
  IN Cipher(Padded(SubSeq(text, 1, SelectInSeq(text, LAMBDA b : b = NUL))))

\* plain.length() + 1 bytes: the terminating NUL, too.
encrypt(plain) == Cipher(Padded(Append(plain, NUL)))

\* The text comes back with its NUL.  << >> stands for the exception at what
\* is no cipher.
decrypt(cipher) ==
  LET text == [i \in DOMAIN cipher |-> cipher[i][2][i - BlockAt(i)]]
  IN IF cipher # << >> /\ Len(cipher) % Block = 0
          /\ (\A i \in DOMAIN cipher : cipher[i][1] = "aes") /\ cipher = Cipher(text)
       THEN SubSeq(text, 1, Len(text) - Last(text)[2])
       ELSE << >>

\* A bug: the length is that of the whole message.
build_msg_WithHeader(header, raw_msg) ==
  header \o fixedLength(Len(raw_msg) + 2 + Digits, Digits) \o raw_msg

\* build_msg and build_msg_transfer.
build_msg(header, raw_msg) ==
  header \o fixedLength(Len(raw_msg), Digits) \o raw_msg
-----------------------------------------------------------------------------
(* Builders, named as in protocol.h.                                       *)

server_hello_build(version) == encrypt(MAGIC_HEADER \o version)

client_hello_build(status, sess) ==
  CASE status = 0 -> <<Char(0)>> \o encrypt(sess)
    [] status = 1 -> <<Char(1)>>
    [] status = 2 -> encrypt(VERSION)

file_negotiation_build(sess, piece_size, file_length, file_path) ==
  encrypt(sess \o fixedLength(ToUint32(piece_size), Digits)
               \o fixedLength(file_length, 2 * Digits) \o file_path)

file_negotiation_reply(sess, status) == encrypt(Append(sess, Char(status)))

file_transfer_init(sess) == encrypt(sess)

DummyHead == [i \in 1 .. Block |-> Char(255)]

file_transfer_init_reply(status) == encrypt(Append(DummyHead, Char(status)))

file_transfer_build(sess, order, size, piece) ==
  encrypt(sess \o fixedLength(ToUint32(order), Digits)
               \o fixedLength(ToUint32(size), Digits) \o piece)

file_transfer_receive(sess, status) == encrypt(Append(DummyHead \o sess, Char(status)))
-----------------------------------------------------------------------------
(* Readers.  A message that one of them refuses is Malformed.              *)

Malformed == [kind |-> "malformed"]

server_hello_verify(msg) ==
  LET dec_str == decrypt(msg)
  IN IF substr(dec_str, 0, 2) # MAGIC_HEADER THEN 1
     ELSE IF substr(dec_str, 2, Len(VERSION)) # VERSION THEN 2
     ELSE 0

client_hello_verify(msg) ==
  IF msg[1] \in {Char(0), Char(1), Char(2)}
    THEN [kind |-> "client_hello", status |-> msg[1][2],
          session |-> IF msg[1] = Char(0)
                        THEN substr(decrypt(Tail(msg)), 0, SessionBytes) ELSE << >>]
    ELSE Malformed

\* What open() makes of a path: a C string.
c_str(s) == SubSeq(s, 1, SelectInSeq(s, LAMBDA b : b = NUL) - 1)

\* Another session is no error here: the 1 that is returned, step4 ignores.
file_negotiation_verify(msg, sess) ==
  LET dec_str == decrypt(msg)
  IN IF substr(dec_str, 0, SessionBytes) # sess THEN [kind |-> "nothing_read"]
     ELSE [kind |-> "negotiation",
           piece_size |-> stoul(substr(dec_str, SessionBytes, Digits)),
           file_length |-> stoul(substr(dec_str, SessionBytes + Digits, 2 * Digits)),
           path |-> c_str(substr(dec_str, SessionBytes + 3 * Digits, Len(dec_str)))]

file_negotiation_finish(msg, sess) ==
  LET dec_str == decrypt(msg)
  IN IF substr(dec_str, 0, SessionBytes) # sess THEN Malformed
     ELSE [kind |-> "reply", status |-> dec_str[SessionBytes + 1][2]]

file_transfer_init_read(msg) == substr(decrypt(msg), 0, SessionBytes)

file_transfer_init_confirm(msg) == decrypt(msg)[Block + 1][2]

\* bytes: the part of the piece that is then written to the file.
file_transfer_read(msg, sess) ==
  LET dec_str == decrypt(msg)
      size == stoul(substr(dec_str, SessionBytes + Digits, Digits))
  IN IF substr(dec_str, 0, SessionBytes) # sess THEN Malformed
     ELSE [kind |-> "data",
           order |-> stoul(substr(dec_str, SessionBytes, Digits)),
           bytes |-> substr(dec_str, SessionBytes + 2 * Digits, size)]

file_transfer_confirm(msg, sess) ==
  LET dec_str == decrypt(msg)
  IN IF substr(dec_str, Block, SessionBytes) # sess THEN Malformed
     ELSE [kind |-> "receive", status |-> dec_str[Block + SessionBytes + 1][2]]

\* is_ourmsg and is_ourmsg_tansfer: substr with one argument is the rest.
is_ourmsg(header, msg) == substr(msg, 2, Len(msg)) = header
=============================================================================
