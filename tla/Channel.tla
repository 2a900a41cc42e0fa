------------------------------- MODULE Channel -------------------------------
(* A connection from the message a program sends to the one it receives:   *)
(* netio.c, buffer-static.h, token.c and the output queue of core-client.c.*)
(* The network keeps the order of bytes and loses none, but takes and      *)
(* gives them in any pieces; the TLS library exchanges flights of its own  *)
(* among them, first to start and later when it pleases, and says of each  *)
(* call whether it did the work or waits, for reading or for writing.      *)
EXTENDS Integers, SequencesExt

CONSTANTS
    Size,        \* bytes of a buffer of netio, 16384
    Unit,        \* ALIGN_SIZE
    Header,      \* bytes of the size of a token, 4
    Wire,        \* bytes the network holds in one direction
    Script,      \* the messages each peer sends, in order
    MaxExchange  \* bound on the handshakes after the first

Peer == {"client", "server"}
Other(p) == CHOOSE q \in Peer : q # p

(* A fixed message is read at once; a token has its size in front, and its *)
(* data is read as it comes.  The first byte names the command.            *)
Length(m) == IF m.kind = "fixed" THEN m.size ELSE 1 + Header + m.size

(* Half of a buffer holds the longest thing that must be read at once.     *)
ASSUME ChannelAssumption ==
    /\ {Size, Unit, Header, Wire} \subseteq Nat \ {0} /\ MaxExchange \in Nat
    /\ \A p \in Peer : Script[p] \in Seq([kind : {"fixed", "token"}, size : Nat \ {0}])
    /\ \A p \in Peer : \A i \in 1 .. Len(Script[p]) :
         Script[p][i].kind = "fixed" => 2 * Script[p][i].size + 3 * Unit <= Size + 4
    /\ 2 * Header + 3 * Unit <= Size + 4

(* Byte k of the message i of a peer.                                      *)
Bytes(p, i) == [k \in 1 .. Length(Script[p][i]) |-> <<i, k>>]
Flight == <<0, 0>>

VARIABLES
    phase,      \* of each netio: none, new, started, ready or closed
    readWaits,  \* NETIO_READ_WANT_WRITE
    writeWaits, \* NETIO_WRITE_WANT_READ
    tls,        \* the TLS library: has a flight to send, waits for one, or neither
    queue,      \* core->buffers; of the server, what token_send has still to write
    output,     \* netio.output: bytes, and where in the buffer they begin
    input,      \* netio.input
    wire,       \* what a peer's library has written and the other's not read
    reading,    \* what has been read of the message under way
    given,      \* the messages a peer has sent
    arrived,    \* those of them the other has received
    exchanges   \* handshakes after the first

vars == <<phase, readWaits, writeWaits, tls, queue, output, input, wire,
          reading, given, arrived, exchanges>>

Closed == phase["client"] = "closed" \/ phase["server"] = "closed"

-----------------------------------------------------------------------------
(* buffer-static.h.                                                        *)

Empty == [at |-> 0, bytes |-> <<>>]
Room(b) == Size - b.at - Len(b.bytes)
Put(b, s) == [b EXCEPT !.bytes = @ \o s]
Drop(b, n) == [at |-> b.at + n, bytes |-> SubSeq(b.bytes, n + 1, Len(b.bytes))]

(* The unread bytes move to the front, by whole units, if they do not      *)
(* overlap their new place.                                                *)
Aligned(n) == n - (n % Unit)
Shift(b) ==
    LET from == Aligned(b.at)
        size == Aligned(b.at + Len(b.bytes) - from + Unit - 1)
    IN  IF b.bytes = <<>> THEN Empty
        ELSE IF size < from THEN [b EXCEPT !.at = @ - from] ELSE b

-----------------------------------------------------------------------------
Init ==
    /\ phase = [p \in Peer |-> "none"]
    /\ readWaits = [p \in Peer |-> FALSE]
    /\ writeWaits = [p \in Peer |-> FALSE]
    /\ tls = [p \in Peer |-> IF p = "client" THEN "send" ELSE "new"]
    /\ queue = [p \in Peer |-> <<>>]
    /\ output = [p \in Peer |-> Empty]
    /\ input = [p \in Peer |-> Empty]
    /\ wire = [p \in Peer |-> <<>>]
    /\ reading = [p \in Peer |-> <<>>]
    /\ given = [p \in Peer |-> <<>>]
    /\ arrived = [p \in Peer |-> <<>>]
    /\ exchanges = 0

(* netio_create: the first address whose connect does not fail at once.    *)
Create(ok) ==
    /\ phase["client"] = "none"
    /\ phase' = [phase EXCEPT !["client"] = IF ok THEN "new" ELSE "closed"]
    /\ UNCHANGED <<readWaits, writeWaits, tls, queue, output, input, wire,
                   reading, given, arrived, exchanges>>

(* netio_start of the client: the socket becomes writable, with or without *)
(* an error.                                                               *)
Connect(ok) ==
    /\ phase["client"] = "new"
    /\ phase' = [phase EXCEPT !["client"] = IF ok THEN "started" ELSE "closed"]
    /\ UNCHANGED <<readWaits, writeWaits, tls, queue, output, input, wire,
                   reading, given, arrived, exchanges>>

(* netio_accept; NETIO_ACCEPT stands for the socket being connected.       *)
Accept ==
    /\ phase["server"] = "none" /\ phase["client"] = "started"
    /\ phase' = [phase EXCEPT !["server"] = "started"]
    /\ UNCHANGED <<readWaits, writeWaits, tls, queue, output, input, wire,
                   reading, given, arrived, exchanges>>

(* netio_start once SSL_do_handshake is through.                           *)
Start(p) ==
    /\ phase[p] = "started" /\ tls[p] = "done"
    /\ phase' = [phase EXCEPT ![p] = "ready"]
    /\ output' = [output EXCEPT ![p] = Empty]
    /\ input' = [input EXCEPT ![p] = Empty]
    /\ UNCHANGED <<readWaits, writeWaits, tls, queue, wire, reading, given,
                   arrived, exchanges>>

(* netio_delete, after any call that answered 0.  What was not written is  *)
(* gone; what was is still there for the other to read.                    *)
Delete(p) ==
    /\ phase' = [phase EXCEPT ![p] = "closed"]
    /\ queue' = [queue EXCEPT ![p] = <<>>]
    /\ output' = [output EXCEPT ![p] = Empty]
    /\ input' = [input EXCEPT ![p] = Empty]
    /\ reading' = [reading EXCEPT ![p] = <<>>]
    /\ readWaits' = [readWaits EXCEPT ![p] = FALSE]
    /\ writeWaits' = [writeWaits EXCEPT ![p] = FALSE]
    /\ tls' = [tls EXCEPT ![p] = "done"]
    /\ wire' = [wire EXCEPT ![Other(p)] = <<>>]
    /\ UNCHANGED <<given, arrived, exchanges>>

(* Any call may fail, netio_start and netio_stop included; a peer learns   *)
(* of the end of the other once it has read what is left on the wire.      *)
Fail(p) == phase[p] \in {"started", "ready"} /\ Delete(p)
HangUp(p) ==
    /\ phase[p] \in {"started", "ready"} /\ phase[Other(p)] = "closed"
    /\ wire[Other(p)] = <<>>
    /\ Delete(p)

-----------------------------------------------------------------------------
(* The TLS library, inside the calls of netio_start, netio_read and        *)
(* netio_write.  A flag of netio forbids the other direction until the     *)
(* call that set it has been made again.                                   *)

CanRead(p) == phase[p] = "ready" /\ ~writeWaits[p] /\ Room(Shift(input[p])) > 0
CanWrite(p) == phase[p] = "ready" /\ ~readWaits[p] /\ output[p].bytes # <<>>

InCall(p, call) ==
    \/ call = "start" /\ phase[p] = "started" /\ UNCHANGED <<readWaits, writeWaits>>
    \/ /\ call = "read" /\ CanRead(p)
       /\ readWaits' = [readWaits EXCEPT ![p] = FALSE]
       /\ UNCHANGED writeWaits
    \/ /\ call = "write" /\ CanWrite(p)
       /\ writeWaits' = [writeWaits EXCEPT ![p] = FALSE]
       /\ UNCHANGED readWaits

Full(p) == Len(wire[p]) >= Wire \/ phase[Other(p)] = "closed"
FlightAtHead(p) == wire[Other(p)] # <<>> /\ Head(wire[Other(p)]) = Flight
BytesAtHead(p) == wire[Other(p)] # <<>> /\ Head(wire[Other(p)]) # Flight

(* Its flight goes out: it waits for the answer, unless this is one.       *)
SendFlight(p, call) ==
    /\ InCall(p, call) /\ tls[p] = "send" /\ ~Full(p)
    /\ wire' = [wire EXCEPT ![p] = Append(@, Flight)]
    /\ tls' = [tls EXCEPT ![p] = IF tls[Other(p)] = "wait" THEN "done" ELSE "wait"]
    /\ UNCHANGED <<phase, queue, output, input, reading, given, arrived, exchanges>>

ReceiveFlight(p, call) ==
    /\ InCall(p, call) /\ FlightAtHead(p)
    /\ \/ tls[p] \in {"new", "wait"}
       \/ tls[p] = "done" /\ call = "read"
    /\ wire' = [wire EXCEPT ![Other(p)] = Tail(@)]
    /\ tls' = [tls EXCEPT ![p] = IF @ = "wait" THEN "done" ELSE "send"]
    /\ UNCHANGED <<phase, queue, output, input, reading, given, arrived, exchanges>>

(* A library starts a new exchange; both never at once.                    *)
Renegotiate(p) ==
    /\ phase[p] = "ready" /\ \A q \in Peer : tls[q] = "done" /\ Flight \notin ToSet(wire[q])
    /\ exchanges < MaxExchange /\ exchanges' = exchanges + 1
    /\ tls' = [tls EXCEPT ![p] = "send"]
    /\ UNCHANGED <<phase, readWaits, writeWaits, queue, output, input, wire,
                   reading, given, arrived>>

-----------------------------------------------------------------------------
(* What the parser takes now: of a message not yet begun the command, of a *)
(* fixed one the rest at once, of a token the size, then whatever is there. *)
Least(a, b) == IF a < b THEN a ELSE b
Chunk(p) ==
    LET read == reading[p]
        there == Len(input[p].bytes)
        m == Script[Other(p)][read[1][1]]
        left == Length(m) - Len(read)
        take(n) == IF there < n THEN 0 ELSE n
    IN  IF read = <<>> THEN take(1)
        ELSE IF m.kind = "fixed" THEN take(left)
        ELSE IF Len(read) = 1 THEN take(Header)
        ELSE Least(there, left)

(* netio_read, called when the parser asks for more.                       *)
Read(p, n) ==
    /\ CanRead(p) /\ Chunk(p) = 0 /\ tls[p] # "send" /\ BytesAtHead(p)
    /\ n <= Room(Shift(input[p])) /\ n <= Len(wire[Other(p)])
    /\ \A k \in 1 .. n : wire[Other(p)][k] # Flight
    /\ readWaits' = [readWaits EXCEPT ![p] = FALSE]
    /\ input' = [input EXCEPT ![p] = Put(Shift(@), SubSeq(wire[Other(p)], 1, n))]
    /\ wire' = [wire EXCEPT ![Other(p)] = SubSeq(@, n + 1, Len(@))]
    /\ UNCHANGED <<phase, writeWaits, tls, queue, output, reading, given,
                   arrived, exchanges>>

(* Of a read that cannot go on only the want to write is kept.             *)
WantsEither(p) == TRUE
WantsToWrite(p) == tls[p] = "send"
ReadBlocks(p) ==
    /\ CanRead(p) /\ Chunk(p) = 0
    /\ IF tls[p] = "send" THEN Full(p) ELSE wire[Other(p)] = <<>>
    /\ readWaits' = [readWaits EXCEPT ![p] = WantsToWrite(p)]
    /\ input' = [input EXCEPT ![p] = Shift(@)]
    /\ UNCHANGED <<phase, writeWaits, tls, queue, output, wire, reading, given,
                   arrived, exchanges>>

(* netio_write: some of the output is taken and the rest moved.            *)
Write(p, n) ==
    /\ CanWrite(p) /\ tls[p] = "done"
    /\ n <= Len(output[p].bytes) /\ Len(wire[p]) + n <= Wire /\ phase[Other(p)] # "closed"
    /\ writeWaits' = [writeWaits EXCEPT ![p] = FALSE]
    /\ output' = [output EXCEPT ![p] = Shift(Drop(@, n))]
    /\ wire' = [wire EXCEPT ![p] = @ \o SubSeq(output[p].bytes, 1, n)]
    /\ UNCHANGED <<phase, readWaits, tls, queue, input, reading, given,
                   arrived, exchanges>>

WriteBlocks(p) ==
    /\ CanWrite(p)
    /\ \/ /\ tls[p] = "wait" /\ wire[Other(p)] = <<>>
          /\ writeWaits' = [writeWaits EXCEPT ![p] = TRUE]
       \/ /\ tls[p] \in {"send", "done"} /\ Full(p)
          /\ writeWaits' = [writeWaits EXCEPT ![p] = FALSE]
    /\ UNCHANGED <<phase, readWaits, tls, queue, output, input, wire, reading,
                   given, arrived, exchanges>>

(* A write that finds a message where it wants a flight is an error.       *)
WriteFails(p) == CanWrite(p) /\ tls[p] = "wait" /\ BytesAtHead(p) /\ Delete(p)

-----------------------------------------------------------------------------
(* Sending.  A message is built whole; what the output has no room for     *)
(* stays in the queue, and goes before anything younger.                   *)

Gives(p) == given[p] # Script[p]
Building(p) == Bytes(p, Len(given[p]) + 1)
Giving(p) == given' = [given EXCEPT ![p] = Append(@, Script[p][Len(@) + 1])]

(* core_send_*: get_buffer and the copy of core_send_all.  The queue holds *)
(* the bytes of core->buffers.                                             *)
GetBuffer(s) == queue["client"] \o s
SendAll(s) ==
    LET n == Least(Room(output["client"]), Len(s))
    IN  /\ output' = [output EXCEPT !["client"] = Put(@, SubSeq(s, 1, n))]
        /\ queue' = [queue EXCEPT !["client"] = SubSeq(s, n + 1, Len(s))]
        /\ UNCHANGED <<phase, readWaits, writeWaits, tls, input, wire, reading,
                       arrived, exchanges>>

Send ==
    /\ phase["client"] = "ready" /\ Gives("client") /\ Giving("client")
    /\ SendAll(GetBuffer(Building("client")))

Flush ==
    /\ phase["client"] = "ready" /\ queue["client"] # <<>>
    /\ SendAll(queue["client"]) /\ UNCHANGED given

(* The server's loop writes the command, then the rest: what is fixed at   *)
(* once, a token by token_send, whose first call knows itself by the data  *)
(* being whole.                                                            *)
Answer ==
    /\ phase["server"] = "ready" /\ queue["server"] = <<>> /\ Gives("server")
    /\ Room(output["server"]) >= 1 /\ Giving("server")
    /\ LET m == Building("server")
           rest == IF Script["server"][Len(given["server"]) + 1].kind = "token"
                     THEN 2 + Header ELSE 2
       IN  /\ output' = [output EXCEPT !["server"] = Put(@, SubSeq(m, 1, 1))]
           /\ queue' = [queue EXCEPT !["server"] = SubSeq(m, rest, Len(m))]
    /\ UNCHANGED <<phase, readWaits, writeWaits, tls, input, wire, reading,
                   arrived, exchanges>>

NoSpareByte == Header
RoomToBegin == Header + 1

Rest ==
    /\ phase["server"] = "ready" /\ queue["server"] # <<>>
    /\ LET i == Len(given["server"])
           m == Script["server"][i]
           data == queue["server"]
           room == Room(output["server"])
           whole == m.kind = "token" /\ Len(data) = m.size
           size == IF whole THEN SubSeq(Bytes("server", i), 2, 1 + Header) ELSE <<>>
           n == Least(room - Len(size), Len(data))
       IN  /\ IF m.kind = "fixed" THEN room >= Len(data)
              ELSE IF whole THEN room >= RoomToBegin ELSE room > 0
           /\ output' = [output EXCEPT !["server"] = Put(@, size \o SubSeq(data, 1, n))]
           /\ queue' = [queue EXCEPT !["server"] = SubSeq(@, n + 1, Len(@))]
    /\ UNCHANGED <<phase, readWaits, writeWaits, tls, input, wire, reading,
                   given, arrived, exchanges>>

-----------------------------------------------------------------------------
(* Receiving: token_recv, and the tests of the size there before a message *)
(* is read.  What does not spell a message of the peer arrives as none.    *)
Spelt(p, read) ==
    LET i == read[1][1]
    IN  IF read = Bytes(p, i) THEN Script[p][i] ELSE [kind |-> "none", size |-> 0]

Parse(p) ==
    /\ phase[p] = "ready" /\ Chunk(p) > 0
    /\ LET read == reading[p] \o SubSeq(input[p].bytes, 1, Chunk(p))
       IN  IF Len(read) = Length(Script[Other(p)][read[1][1]])
             THEN /\ reading' = [reading EXCEPT ![p] = <<>>]
                  /\ arrived' = [arrived EXCEPT ![Other(p)] = Append(@, Spelt(Other(p), read))]
             ELSE reading' = [reading EXCEPT ![p] = read] /\ UNCHANGED arrived
    /\ input' = [input EXCEPT ![p] = Drop(@, Chunk(p))]
    /\ UNCHANGED <<phase, readWaits, writeWaits, tls, queue, output, wire,
                   given, exchanges>>

-----------------------------------------------------------------------------
Handshake(p) ==
    \E call \in {"start", "read", "write"} : SendFlight(p, call) \/ ReceiveFlight(p, call)
Receive(p) ==
    \/ \E n \in 1 .. Wire : Read(p, n)
    \/ ReadBlocks(p)
Deliver(p) ==
    \/ \E n \in 1 .. Wire : Write(p, n)
    \/ WriteBlocks(p)
    \/ WriteFails(p)

Next ==
    \/ \E ok \in BOOLEAN : Create(ok) \/ Connect(ok)
    \/ Accept
    \/ \E p \in Peer : Start(p) \/ Fail(p) \/ HangUp(p) \/ Handshake(p) \/ Renegotiate(p)
                       \/ Receive(p) \/ Deliver(p) \/ Parse(p)
    \/ Send \/ Flush \/ Answer \/ Rest

Spec == Init /\ [][Next]_vars

(* Both loops come round again, and each makes whatever call it may: the   *)
(* steps of a peer that wants nothing new of its user.                     *)
Loop(p) ==
    \/ Start(p) \/ Handshake(p) \/ Receive(p) \/ Deliver(p) \/ Parse(p)
    \/ p = "client" /\ Flush
    \/ p = "server" /\ (Accept \/ Rest)

FairSpec == Spec /\ WF_vars(Loop("client")) /\ WF_vars(Loop("server"))

-----------------------------------------------------------------------------
(* What arrives is what was sent, message by message, whatever the pieces  *)
(* in which netio and the buffers passed it: no step of either peer does   *)
(* anything the pipe does not.                                             *)
Messages == UNION {ToSet(Script[p]) : p \in Peer}
ThePipe == INSTANCE Pipe WITH Message <- Messages
PipeSpec == ThePipe!PipeSpec

(* What was sent arrives or the connection ends: no pair of flags, no full *)
(* buffer and no exchange of the libraries stops both loops for good.      *)
Arrives == []<>(arrived = given \/ Closed)
=============================================================================
