------------------------------- MODULE Framing -------------------------------
(***************************************************************************)
(* The message with a length in front, as client_1.cpp sends it with       *)
(* MySend and server_1.cpp receives it with two calls of MyRecv (the       *)
(* directory whose name means "packing and unpacking"), and as client_2    *)
(* and server_2.cpp send and receive a structure with the same functions   *)
(* in define.h.                                                            *)
(*                                                                         *)
(* TCP delivers the bytes in order and in pieces of any size, and it may   *)
(* break.  A byte is modelled by its place in pBuff, so that the wire and  *)
(* the server's buffer show which byte went where.  A call interrupted by  *)
(* a signal is made again and changes nothing, hence it is no step.        *)
(***************************************************************************)
EXTENDS Integers, Sequences

CONSTANTS
  HEADER,      \* sizeof(int)
  Padding,     \* the bytes of sizeof(Pkg) that no field of Pkg holds (3 as compiled)
  Lengths,     \* the lengths of the messages
  BufSize,     \* the size of recvMsg (10 in the code)
  Unwritten,   \* what is in a byte of recvMsg before it is written
  Wild         \* the lengths read from a header that is not complete

ASSUME SizesAssumption == HEADER \in Nat \ {0} /\ Lengths \subseteq 1 .. BufSize
ASSUME PaddingAssumption == Padding \in Nat
ASSUME BufAssumption == BufSize \in Nat /\ HEADER <= BufSize
ASSUME WildAssumption == Wild \subseteq Int /\ Unwritten \notin Nat

VARIABLES
  program,     \* which pair runs: "text" or "structure"
  acceptfd,    \* what the server reads: the "connection", the "terminal", or nothing,
               \* the descriptor being "invalid"
  tLen,        \* the bytes of the client's message
  iSended,     \* MySend: the number of bytes sent
  client,      \* "send" in MySend, "closed" after close()
  wire,        \* the bytes under way
  broken,      \* the connection was reset
  server,      \* "header" and "body" in the calls of MyRecv, "printed" or "failed"
  recvMsg,
  tBytesRead,  \* MyRecv: the number of bytes read in this call
  len,         \* the length the server found in the header
  got          \* history: all the bytes read, in order

pair == <<program, acceptfd, tLen>>
vars == <<pair, iSended, client, wire, broken, server, recvMsg, tBytesRead, len, got>>

\* The length in the header: sizeof(mypkg), although its fields are sent packed.
Announced == IF program = "structure" THEN tLen + Padding ELSE tLen

\* server_2.cpp gives the result of accept() to ret and reads from an acceptfd that it
\* never assigned: any descriptor, the right one too.
Accepted == IF program = "structure" THEN {"connection", "terminal", "invalid"}
                                     ELSE {"connection"}

iLen == HEADER + tLen
Bytes == 0 .. HEADER + BufSize - 1

\* The bytes the present call of MyRecv asks for.  len becomes a size_t there, so that
\* a negative one asks for more than there ever is.
tCount == IF server = "header" THEN HEADER ELSE IF len < 0 THEN iLen + 1 ELSE len

TypeOK ==
  /\ program \in {"text", "structure"} /\ acceptfd \in Accepted
  /\ tLen \in Lengths
  /\ iSended \in 0 .. iLen
  /\ client \in {"send", "closed"}
  /\ wire \in Seq(Bytes) /\ got \in Seq(Bytes)
  /\ broken \in BOOLEAN
  /\ server \in {"header", "body", "printed", "failed"}
  /\ recvMsg \in [0 .. BufSize - 1 -> Bytes \cup {Unwritten}]
  /\ tBytesRead \in Nat /\ (server = "failed" \/ tBytesRead <= tCount)
  /\ len \in Int

Init ==
  /\ program \in {"text", "structure"} /\ acceptfd \in Accepted
  /\ tLen \in Lengths
  /\ iSended = 0 /\ client = "send"
  /\ wire = <<>> /\ broken = FALSE
  /\ server = "header"
  /\ recvMsg = [k \in 0 .. BufSize - 1 |-> Unwritten]
  /\ tBytesRead = 0 /\ len = 0 /\ got = <<>>

-----------------------------------------------------------------------------
\* The n bytes that the next send() takes.
Piece(n) == [k \in 1 .. n |-> iSended + k - 1]

\* MySend: one send(), of any part of what is left.
MySend ==
  /\ client = "send" /\ iSended < iLen /\ ~broken
  /\ \E n \in 1 .. iLen - iSended :
       /\ wire' = wire \o Piece(n)
       /\ iSended' = iSended + n
  /\ UNCHANGED <<pair, client, broken, server, recvMsg, tBytesRead, len, got>>

\* MySend returns when all is sent or a send() fails; either way main() closes.
ClientCloses ==
  /\ client = "send"
  /\ iSended = iLen \/ broken
  /\ client' = "closed"
  /\ UNCHANGED <<pair, iSended, wire, broken, server, recvMsg, tBytesRead, len, got>>

\* The client is killed: the kernel closes the connection behind what was sent.
ClientDies ==
  /\ client = "send"
  /\ client' = "closed"
  /\ UNCHANGED <<pair, iSended, wire, broken, server, recvMsg, tBytesRead, len, got>>

\* The connection is reset: what is under way is lost.
Break ==
  /\ ~broken /\ client = "send"
  /\ broken' = TRUE
  /\ wire' = <<>>
  /\ UNCHANGED <<pair, iSended, client, server, recvMsg, tBytesRead, len, got>>

\* Mutant of Wanted: every read() asks for the whole count.
WantedAll == tCount

\* The most that the next read() may return.
Wanted == tCount - tBytesRead

\* Mutant of At: read() fills the buffer from its start.
AtStart(k) == k - 1

\* Where the k-th byte of this read() goes.
At(k) == tBytesRead + k - 1

\* MyRecv: one read(), of any part of what is there and is wanted.
MyRecv ==
  /\ server \in {"header", "body"} /\ acceptfd = "connection" /\ tBytesRead < tCount
  /\ \E n \in 1 .. Len(wire) :
       /\ n <= Wanted
       /\ recvMsg' = [j \in DOMAIN recvMsg |->
                        IF \E k \in 1 .. n : At(k) = j
                        THEN wire[CHOOSE k \in 1 .. n : At(k) = j] ELSE recvMsg[j]]
       /\ got' = got \o SubSeq(wire, 1, n)
       /\ wire' = SubSeq(wire, n + 1, Len(wire))
       /\ tBytesRead' = tBytesRead + n
  /\ UNCHANGED <<pair, iSended, client, broken, server, len>>

\* MyRecv returns: all is read, or read() finds the end of the stream.  After a full
\* read the code has no return statement; as compiled, without optimisation or as in
\* the a.out beside the sources, the count comes back all the same.
Returns ==
  /\ server \in {"header", "body"} /\ acceptfd = "connection"
  /\ tBytesRead = tCount \/ (wire = <<>> /\ client = "closed" /\ ~broken)

\* The length in recvMsg: the announced one if the header's bytes are in their places.
LengthRead ==
  IF \A k \in 0 .. HEADER - 1 : recvMsg[k] = k THEN {Announced} ELSE Wild

\* Whether the first call read the whole header is not looked at.
HeaderRead ==
  /\ server = "header" /\ Returns
  /\ server' = "body"
  /\ len' \in LengthRead
  /\ tBytesRead' = 0
  /\ UNCHANGED <<pair, iSended, client, wire, broken, recvMsg, got>>

\* Nor whether the second read the whole message: it is printed.
BodyRead ==
  /\ server = "body" /\ Returns
  /\ server' = "printed"
  /\ UNCHANGED <<pair, iSended, client, wire, broken, recvMsg, tBytesRead, len, got>>

\* read() fails: the connection was reset, or there is none.
ReadError == acceptfd = "invalid" \/ (acceptfd = "connection" /\ broken)

\* Mutant of ReadFails: the error is not noticed.
ReadFailsNot ==
  /\ server \in {"header", "body"} /\ ReadError /\ tBytesRead < tCount
  /\ UNCHANGED vars

\* read() reports the error, and main() gives up.
ReadFails ==
  /\ server \in {"header", "body"} /\ ReadError /\ tBytesRead < tCount
  /\ server' = "failed"
  /\ UNCHANGED <<pair, iSended, client, wire, broken, recvMsg, tBytesRead, len, got>>

Client == MySend \/ ClientCloses
Server == MyRecv \/ HeaderRead \/ BodyRead \/ ReadFails

Next == Client \/ Server \/ ClientDies \/ Break

Spec == Init /\ [][Next]_vars

\* Both processes are scheduled, and TCP delivers what was sent or breaks.
FairSpec == Spec /\ WF_vars(Client) /\ WF_vars(Server)

-----------------------------------------------------------------------------
\* The bytes the server has read are the first bytes of the client's buffer, each once
\* and in order, whatever the pieces they were sent and read in.  And if the client got
\* all its bytes out, a message that is printed is the one it sent, whole and from the
\* start of recvMsg: a reset is not taken for the end of the stream, no byte of the
\* header is left in the message, pieces do not overwrite each other, and a structure
\* that is shorter than announced loses nothing by it.
PrintsTheMessage ==
  /\ \A k \in 1 .. Len(got) : got[k] = k - 1
  /\ server = "printed" /\ iSended = iLen => /\ len = Announced /\ tBytesRead = tLen
                                             /\ \A k \in 0 .. tLen - 1 : recvMsg[k] = HEADER + k

\* The server ends, with the message or with an error, unless it waits for somebody to
\* type something.
ServerEnds == acceptfd # "terminal" => <>(server \in {"printed", "failed"})
=============================================================================
