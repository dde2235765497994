---------------------------- MODULE AsioSession ----------------------------
(***************************************************************************)
(* The read side of asioSession (remoting/inc/asioSession.hpp) with        *)
(* KitePacket::parseFrom and asioKiteIOClient::handle_read_pkg: a chain of *)
(* two asynchronous reads, first the four bytes of the length, then so     *)
(* many bytes into the streambuf read_buffer_, from which one packet is    *)
(* parsed into readPkg and handled.                                        *)
(*                                                                         *)
(* Bytes are not modelled one by one.  read_buffer_ is the interval from   *)
(* consumed to committed of all the bytes ever committed to it; at[i] is   *)
(* where the bytes of frame i begin.  The session outlives a connection,   *)
(* and so do read_buffer_ and readPkg.                                     *)
(***************************************************************************)
EXTENDS Integers, Sequences, FiniteSetsExt, Functions

CONSTANTS
    Lengths,        \* the frame lengths a server may send
    MaxPacketBytes, \* Protocol::MAX_PACKET_BYTES
    MaxSent         \* bound: frames sent

ASSUME ConstantsAssumption ==
    /\ Lengths \subseteq Nat \ {0}     \* a frame has a header
    /\ MaxPacketBytes \in Nat
    /\ MaxSent \in Nat

VARIABLES
    sent,           \* the frames sent over all connections: length, and
                    \* whether parseFrom knows the command
    wire,           \* those the current connection has yet to deliver
    rd,             \* the chain: none, waiting for len or for data, or the
                    \* worker has aborted
    cur,            \* the frame whose length has been read
    want,           \* the length async_read_pkglen has computed
    committed, consumed, at,    \* read_buffer_
    readPkg,        \* the frame readPkg was parsed from
    handled,        \* history: what readPkg was at each call of handle_read_pkg
    readDone        \* history: the frames whose data has been read

chainVars == <<rd, cur, want>>
bufferVars == <<committed, consumed, at>>
vars == <<sent, wire, chainVars, bufferVars, readPkg, handled, readDone>>

Indices == 1..MaxSent
Nothing == 0        \* no frame; the empty packet of the constructor
Garbage == -1       \* a packet parsed from the middle of a frame

Init ==
    /\ sent = <<>>
    /\ wire = <<>>
    /\ rd = "none"
    /\ cur = Nothing
    /\ want = 0
    /\ committed = 0
    /\ consumed = 0
    /\ at = [i \in Indices |-> -1]
    /\ readPkg = Nothing
    /\ handled = <<>>
    /\ readDone = <<>>

-----------------------------------------------------------------------------
(* Faulty forms of the definitions below.  No specification uses them: each *)
(* is a bug the code could have had, and breaks one of the properties.      *)

\* A packet that cannot be parsed stays in the buffer.
Unparsed_Keep ==
    /\ committed' = committed + want
    /\ at' = [at EXCEPT ![cur] = committed]
    /\ UNCHANGED <<consumed, readPkg, handled>>

\* A packet that has been handled is not consumed.
Parsed_Keep(i) ==
    /\ committed' = committed + want
    /\ at' = [at EXCEPT ![cur] = committed]
    /\ readPkg' = i
    /\ handled' = Append(handled, i)
    /\ UNCHANGED consumed

\* What has been read is consumed without having been committed.
Parsed_Uncommitted(i) ==
    /\ consumed' = consumed + want
    /\ at' = [at EXCEPT ![cur] = committed]
    /\ readPkg' = i
    /\ handled' = Append(handled, i)
    /\ UNCHANGED committed

-----------------------------------------------------------------------------
(* The server and the connection.                                          *)

Send ==
    /\ rd \in {"len", "data"}
    /\ Len(sent) < MaxSent
    /\ \E n \in Lengths, k \in BOOLEAN : sent' = Append(sent, [len |-> n, known |-> k])
    /\ wire' = Append(wire, Len(sent'))
    /\ UNCHANGED <<chainVars, bufferVars, readPkg, handled, readDone>>

\* handle_connect starts the chain.
Connect ==
    /\ rd = "none"
    /\ rd' = "len"
    /\ UNCHANGED <<sent, wire, cur, want, bufferVars, readPkg, handled, readDone>>

\* Either read fails: the handler is called with the error and ends the chain.
\* What was read of a frame is not committed.
ReadError ==
    /\ rd \in {"len", "data"}
    /\ rd' = "none"
    /\ wire' = <<>>
    /\ cur' = Nothing
    /\ UNCHANGED <<sent, want, bufferVars, readPkg, handled, readDone>>

-----------------------------------------------------------------------------
(* The chain.                                                              *)

\* pkglen[0]<<24 | pkglen[1]<<16 | pkglen[2]<<8 | pkglen[3] of signed chars: the
\* lowest byte of 128 or more turns every bit above it on.
decodeLength(n) ==
    LET weight == <<1, 256, 65536, 16777216>>
        byte(k) == (n \div weight[k]) % 256
        high == {k \in 1..4 : byte(k) >= 128}
    IN  IF high = {} THEN n
        ELSE LET k == Min(high)
             IN  ((byte(k) - 256) * weight[k]) + (n % weight[k])

\* async_read_pkglen: a negative length becomes a huge size, prepare() throws out
\* of the worker thread, and that ends the process.
async_read_pkglen ==
    /\ rd = "len"
    /\ wire # <<>>
    /\ cur' = Head(wire)
    /\ wire' = Tail(wire)
    /\ want' = decodeLength(sent[Head(wire)].len)
    /\ rd' = IF want' < 0 THEN "aborted" ELSE "data"
    /\ UNCHANGED <<sent, bufferVars, readPkg, handled, readDone>>

\* The frame is too long: handled without being parsed or consumed.
Oversize ==
    /\ committed' = committed + want
    /\ at' = [at EXCEPT ![cur] = committed]
    /\ handled' = Append(handled, readPkg)
    /\ UNCHANGED <<consumed, readPkg>>

\* parseFrom succeeds on what is at the front of the buffer.
Parsed(i) ==
    /\ committed' = committed + want
    /\ consumed' = consumed + want
    /\ at' = [at EXCEPT ![cur] = committed]
    /\ readPkg' = i
    /\ handled' = Append(handled, i)

\* parseFrom fails: skipped.
Unparsed ==
    /\ committed' = committed + want
    /\ consumed' = consumed + want
    /\ at' = [at EXCEPT ![cur] = committed]
    /\ UNCHANGED <<readPkg, handled>>

\* The frames that begin where the unread part of the buffer does: the one just
\* read or, with bytes left over, an older one or none.
Front ==
    {i \in Indices : at[i] = consumed} \cup (IF committed = consumed THEN {cur} ELSE {})

\* parseFrom wants a known command and the whole body within the length.
Parses(i) == sent[i].known /\ sent[i].len <= want

\* async_read_pkgdata, with the next async_read that the handler, or the failed
\* parse, sets up.  Bytes out of the middle of a frame may parse as anything.
async_read_pkgdata ==
    /\ rd = "data"
    /\ \/ want >= MaxPacketBytes /\ Oversize
       \/ /\ want < MaxPacketBytes
          /\ \/ \E i \in Front : IF Parses(i) THEN Parsed(i) ELSE Unparsed
             \/ Front = {} /\ (Parsed(Garbage) \/ Unparsed)
    /\ readDone' = Append(readDone, cur)
    /\ rd' = "len"
    /\ cur' = Nothing
    /\ UNCHANGED <<sent, wire, want>>

Next == Send \/ Connect \/ ReadError \/ async_read_pkglen \/ async_read_pkgdata

Spec == Init /\ [][Next]_vars

-----------------------------------------------------------------------------
TypeOK ==
    /\ sent \in Seq([len : Lengths, known : BOOLEAN])
    /\ wire \in Seq(Indices)
    /\ rd \in {"none", "len", "data", "aborted"}
    /\ cur \in 0..Len(sent)
    /\ want \in Int
    /\ committed \in Nat
    /\ consumed \in 0..committed
    /\ at \in [Indices -> {-1} \cup Nat]
    /\ readPkg \in -1..Len(sent)
    /\ handled \in Seq(-1..Len(sent))
    /\ readDone \in Seq(1..Len(sent))

Long(i) == sent[i].len >= MaxPacketBytes

\* asioSession.hpp:151-172: as long as no frame is too long, the packets handled
\* are exactly the frames read whose command is known, each once and in the order
\* in which the server sent them, over all the connections of the session.
InOrder ==
    (\A j \in DOMAIN readDone : ~Long(readDone[j]))
        => /\ \A i, j \in DOMAIN handled : i < j => handled[i] < handled[j]
           /\ Range(handled) = {i \in Range(readDone) : sent[i].known}

\* The bytes of the long ones of the first n frames read.
LongBytes[n \in 0..Len(readDone)] ==
    IF n = 0 THEN 0
    ELSE LongBytes[n - 1] + (IF Long(readDone[n]) THEN sent[readDone[n]].len ELSE 0)

\* asioSession.hpp:157: the bytes of a frame that is too long are never taken out
\* of the buffer; later frames, also those of later connections, are parsed so
\* many bytes late.
BacklogStays == committed - consumed = LongBytes[Len(readDone)]

\* asioSession.hpp:103: the four bytes are read to get the length of the packet.
LengthIsRead == rd \in {"data", "aborted"} => want = sent[cur].len

\* asioSession.hpp:141: what is handled when the data of a message has been read
\* is that message, and not what readPkg held before: the packet of an earlier frame,
\* or the empty one that it begins as.
HandlesWhatItRead ==
    [][handled' # handled => handled'[Len(handled')] = cur]_vars
=============================================================================
