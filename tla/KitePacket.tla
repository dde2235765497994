----------------------------- MODULE KitePacket -----------------------------
(***************************************************************************)
(* How a message becomes a packet, a packet bytes and bytes a packet:      *)
(* KitePacket::toByteBuf and parseFrom (protocol/KitePacket.cpp) over the  *)
(* conversions of ByteBuf and the generated message classes.               *)
(*                                                                         *)
(* The application calls the functions of a message, and of a second one   *)
(* of its class, and the message is written into a frame: the bytes of the *)
(* header and the tokens of the body.  A frame of the server is written by *)
(* other software, which may order the fields otherwise, know more fields  *)
(* or other types for them, or cut a body short.  The frame is parsed into *)
(* readPkg, with its length, or with a shorter one, which asioSession      *)
(* passes when its buffer holds older bytes.                               *)
(***************************************************************************)
EXTENDS PacketHeader, MessageLite

CONSTANTS
    Headers,        \* the headers that packets have
    Values,         \* the values that fields of a kind are set to
    MaxCalls        \* bound on the calls the application makes

ASSUME CodecAssumption ==
    /\ Headers \subseteq Header64
    /\ \A kind \in {"string", "bool", "int32", "int64"} : Values[kind] \subseteq Int
    /\ MaxCalls \in Nat

\* Protocol::CMD_HEARTBEAT .. CMD_STRING_MESSAGE: the class of the message.
Cmds == 1..6 \cup {17, 18}
ClassOf ==
    [c \in Cmds |->
        CASE c = 1 -> "HeartBeat" [] c = 2 -> "ConnMeta" [] c = 3 -> "ConnAuthAck"
          [] c = 4 -> "MessageStoreAck" [] c = 5 -> "DeliverAck" [] c = 6 -> "TxACKPacket"
          [] c = 17 -> "BytesMessage" [] c = 18 -> "StringMessage"]
KnownCmds == {1, 3, 4, 6, 17, 18}           \* those that parseFrom knows

\* A message with all of its fields set, no two strings of it alike, or with the
\* last one only, which in a Header is optional.
Sampled(t, all, inside) ==
    LET given == {f \in Fields(t) : all \/ f = Len(Classes[t].field) \/ Kind(t, f) = "Header"}
    IN  [has |-> {Bit(t, f) : f \in given} \ {NoBit},
         val |-> [f \in Fields(t) |->
                    CASE f \notin given -> Classes[t].ctor[f]
                      [] f \in given /\ IsMessage(t, f) -> <<inside[f]>>
                      [] f \in given /\ Kind(t, f) = "string" -> f
                      [] f \in given /\ Kind(t, f) = "bool" -> 1 - Classes[t].ctor[f]
                      [] OTHER -> -f],
         unknown |-> <<>>]

SampleFlat(t, all) == Sampled(t, all, NULL)
SampleHeader(t, all) == Sampled(t, all, [f \in Messages(t) |-> SampleFlat(Kind(t, f), all)])
Sample(t, all) == Sampled(t, all, [f \in Messages(t) |-> SampleHeader(Kind(t, f), all)])

Full(t) == Sample(t, TRUE)
Sparse(t) == Sample(t, FALSE)

VARIABLES
    cmd,        \* what the packet is to be, which gives the class of its message
    msg,        \* the message the application makes
    other,      \* another of its class
    calls,      \* how many calls it has made
    pkg,        \* the packet that was written, once it was
    how,        \* by whom: "client", or what the server made of the fields
    out,        \* its bytes
    pkglen,     \* the length the bytes are parsed with
    readPkg,    \* asioKiteIOClient::readPkg
    accepted    \* what ParseFromArray said, which parseFrom does not look at

appVars == <<cmd, msg, other, calls>>
vars == <<appVars, pkg, how, out, pkglen, readPkg, accepted>>

type == ClassOf[cmd]
NoBytes == [head |-> <<>>, body |-> <<>>]
NoPacket ==
    [opaque |-> 0, cmdType |-> 0, version |-> 0, extension |-> [hi |-> 0, lo |-> 0],
     message |-> NULL]

Init ==
    /\ cmd \in Cmds
    /\ msg \in {New(type), Full(type)}
    /\ other \in {New(type), Full(type), Sparse(type)}
    /\ calls = 0
    /\ pkg = NoPacket
    /\ how = "none"
    /\ out = NoBytes
    /\ pkglen = 0
    /\ readPkg = NoPacket
    /\ accepted = FALSE

-----------------------------------------------------------------------------
(* The calls of the application.                                           *)

\* The message after a call of one accessor, its own or, through mutable_ or
\* add_, one of a message inside it.
AccessedBy(t, m, inside) ==
    UNION {
        {clear_(t, m, f)}
        \cup IF ~IsMessage(t, f) THEN {set_(t, m, f, v) : v \in Values[Kind(t, f)]}
             ELSE {Replaced(t, m, f, n) : n \in inside[f]}
                  \cup {Ready(t, m, f)}
                  \cup IF Repeated(t, f) THEN {} ELSE {release_(t, m, f)}
        : f \in Fields(t)}

AccessedFlat(t, m) == AccessedBy(t, m, NULL)
AccessedHeader(t, m) ==
    AccessedBy(t, m, [f \in Messages(t) |-> AccessedFlat(Kind(t, f), Current(t, m, f))])
Accessed(t, m) ==
    AccessedBy(t, m, [f \in Messages(t) |-> AccessedHeader(Kind(t, f), Current(t, m, f))])

Call ==
    /\ how = "none"
    /\ calls < MaxCalls
    /\ calls' = calls + 1
    /\ UNCHANGED <<cmd, pkg, how, out, pkglen, readPkg, accepted>>

CallAccessor ==
    /\ Call
    /\ msg' \in Accessed(type, msg)
    /\ UNCHANGED other

CallClear ==
    /\ Call
    /\ msg' = Clear(type, msg)
    /\ UNCHANGED other

CallMergeFrom ==
    /\ Call
    /\ msg' = MergeFrom(type, msg, other)
    /\ UNCHANGED other

CallCopyFrom ==
    /\ Call
    /\ msg' = CopyFrom(type, msg, other)
    /\ UNCHANGED other

CallSwap ==
    /\ Call
    /\ msg' = Swapped(type, msg, other)
    /\ other' = Swapped(type, other, msg)

-----------------------------------------------------------------------------
(* KitePacket.                                                             *)

toByteBuf(p) ==
    LET t == ClassOf[p.cmdType]
        m == p.message[1]
    IN  Frame(p, ByteSize(t, m), Serialize(t, m))

\* The packets that parseFrom may make of buf, none if it fails.
parseFrom(buf, n) ==
    LET good == {h \in headersOf(buf) : n - HeaderLen >= h.size /\ h.cmdType \in KnownCmds}
    IN  {[opaque |-> h.opaque, cmdType |-> h.cmdType, version |-> h.version,
          extension |-> h.extension,
          message |-> <<ParseFromArray(ClassOf[h.cmdType], buf.body).msg>>] : h \in good}

-----------------------------------------------------------------------------
(* What a server that is not this program may make of a message.           *)

Unknown == Token(120, 7, <<>>)              \* a field 15, which no class has

\* What is left of bytes that end early: before a token or inside of it, where
\* they make a shorter string or another number.
TruncatedBy(bytes, inside) ==
    LET Cut(k) == [k EXCEPT !.cut = TRUE]
        In(i) ==
            LET k == bytes[i]
            IN  IF k.sub # <<>> THEN {Cut(k)} \cup {[k EXCEPT !.sub = s] : s \in inside[i]}
                ELSE {[Cut(k) EXCEPT !.val = IF k.tag % 8 = 2 /\ @ = 0 THEN @ ELSE @ - 1]}
    IN  UNION {{SubSeq(bytes, 1, i - 1)} \cup {Append(SubSeq(bytes, 1, i - 1), k) : k \in In(i)}
               : i \in DOMAIN bytes}

TruncatedFlat(bytes) == TruncatedBy(bytes, NULL)
TruncatedHeader(bytes) ==
    TruncatedBy(bytes, [i \in DOMAIN bytes |-> TruncatedFlat(bytes[i].sub)])
Truncated(bytes) ==
    TruncatedBy(bytes, [i \in DOMAIN bytes |-> TruncatedHeader(bytes[i].sub)])

\* The same fields with another wire type, as strings or as numbers.
Retyped(bytes) ==
    [i \in DOMAIN bytes |->
        Token(IF bytes[i].tag % 8 = 0 THEN bytes[i].tag + 2 ELSE bytes[i].tag - 2, i, <<>>)]

\* The bodies a server may write for the fields.
Bodies ==
    LET bytes == Serialize(type, msg)
    IN  {<<"reordered", Reverse(bytes)>>,
         <<"newer", <<Unknown>> \o bytes \o <<Unknown>>>>,
         <<"retyped", Retyped(bytes)>>,
         <<"ended", bytes \o <<Token(124, 0, <<>>)>>>>}     \* by the end of a group
        \cup {<<"cut", b>> : b \in Truncated(bytes)}

-----------------------------------------------------------------------------
write ==
    /\ how = "none"
    /\ \E h \in Headers :
        pkg' = [opaque |-> h.opaque, cmdType |-> cmd, version |-> h.version,
                extension |-> h.extension, message |-> <<msg>>]
    /\ \/ /\ how' = "client"
          /\ out' = toByteBuf(pkg')
       \/ /\ calls = 0
          /\ \E b \in Bodies :
                /\ how' = b[1]
                /\ out' = Frame(pkg', WireSize(b[2]), b[2])
    /\ pkglen' \in {readInt(out'.head), readInt(out'.head) - 1}
    /\ UNCHANGED <<appVars, readPkg, accepted>>

read ==
    LET Take(packets) ==
            \/ /\ packets = {}
               /\ accepted' = FALSE
               /\ UNCHANGED readPkg
            \/ /\ readPkg' \in packets
               /\ accepted' = ParseFromArray(type, out.body).ok
    IN  /\ out # NoBytes
        /\ Take(parseFrom(out, pkglen))
        /\ out' = NoBytes
        /\ UNCHANGED <<appVars, pkg, how, pkglen>>

Next ==
    \/ CallAccessor \/ CallClear \/ CallMergeFrom \/ CallCopyFrom \/ CallSwap
    \/ write \/ read

Spec == Init /\ [][Next]_vars

-----------------------------------------------------------------------------
TypeOK ==
    /\ cmd \in Cmds
    /\ \A m \in {msg, other} : m.has \subseteq {Bit(type, f) : f \in Fields(type)}
    /\ calls \in 0..MaxCalls
    /\ pkg.cmdType \in {0, cmd}
    /\ how \in {"none", "client", "reordered", "newer", "retyped", "ended", "cut"}
    /\ out.head \in Seq(Char)
    /\ pkglen \in Int
    /\ readPkg.opaque \in Int32 /\ readPkg.version \in Short /\ readPkg.extension \in Long
    /\ accepted \in BOOLEAN

\* What a reader of a message sees: which fields are set, and what they hold.
SeenBy(t, m, inside) ==
    [f \in Fields(t) |->
        IF ~IsMessage(t, f) THEN <<has_(t, m, f), m.val[f]>>
        ELSE IF Repeated(t, f) \/ has_(t, m, f) THEN inside[f] ELSE NULL]

SeenFlat(t, m) == SeenBy(t, m, NULL)
SeenHeader(t, m) == SeenBy(t, m, Inside(t, m, SeenFlat))
Seen(t, m) == SeenBy(t, m, Inside(t, m, SeenHeader))

\* Something holds of every message inside m.
Every(t, m, P(_, _)) ==
    \A f \in Messages(t) : \A i \in DOMAIN m.val[f] : P(Kind(t, f), m.val[f][i])

\* The fields not set hold their defaults, in the message and those inside it; a
\* message not set has no field set.
DefaultedHere(t, m) ==
    \A f \in Fields(t) :
        IF IsMessage(t, f)
        THEN Repeated(t, f) \/ has_(t, m, f) \/ \A i \in DOMAIN m.val[f] : m.val[f][i].has = {}
        ELSE has_(t, m, f) \/ m.val[f] = Classes[t].ctor[f]

DefaultedHeader(t, m) == DefaultedHere(t, m) /\ Every(t, m, DefaultedHere)
Defaulted(t, m) == DefaultedHere(t, m) /\ Every(t, m, DefaultedHeader)

\* kite_remoting.pb.cc, Clear and MergePartialFromCodedStream of every class: a
\* field that is not set reads as its default, after any calls and after a parse
\* that failed.  Clear resets what its masks say was set, and no more.
UnsetIsDefault ==
    /\ Defaulted(type, msg)
    /\ Defaulted(type, other)
    /\ readPkg.message # NULL => Defaulted(ClassOf[readPkg.cmdType], readPkg.message[1])

\* KitePacket.cpp:63, 78-87: ByteSize, by which the frame is laid out and which has
\* a path of its own for complete messages, is the number of bytes written.
SizeIsExact == ByteSize(type, msg) = WireSize(Serialize(type, msg))

\* kite_remoting.pb.cc, CopyFrom of every class: a copy reads as the original,
\* whatever was in the message before, inside of it too.
CopyIsEqual == [][CallCopyFrom => Seen(type, msg') = Seen(type, other)]_vars

\* kite_remoting.pb.cc, MergeFrom and MergePartialFromCodedStream of every class:
\* to merge two messages is to read the bytes of one after those of the other.
MergeIsConcatenation ==
    [][CallMergeFrom =>
        LET bytes == Serialize(type, msg) \o Serialize(type, other)
        IN  Seen(type, msg') = Seen(type, ParseFromArray(type, bytes).msg)]_vars

Received == out # NoBytes /\ out' = NoBytes
WholeFrame == pkglen = readInt(out.head)

\* KitePacket.cpp:61-159: the bytes of a packet a client can receive, parsed with
\* the length that precedes them, are that packet again, whatever the signs of its
\* fields, the calls that made its message, the order of the fields and whatever
\* fields a newer server adds, save for an extension of more than 32 bits.  Other
\* bytes are refused and leave the packet parsed before them as it was.
RoundTrip ==
    [][Received =>
        IF WholeFrame /\ cmd \in KnownCmds
        THEN /\ [readPkg' EXCEPT !.extension = pkg.extension, !.message = pkg.message] = pkg
             /\ pkg.extension.hi = 0 => readPkg'.extension = pkg.extension
             /\ how \notin {"cut", "retyped"} =>
                    Seen(type, readPkg'.message[1]) = Seen(type, msg)
        ELSE readPkg' = readPkg]_vars

\* The fields the schema (kite_remoting.proto) calls required.
Required(t) == Fields(t) \ IF t = "ConnMeta" THEN {3}
                           ELSE IF t = "DeliverAck" THEN {6}
                           ELSE IF t = "Header" THEN {9, 10} ELSE {}

CompleteFlat(t, m) == \A f \in Required(t) : has_(t, m, f)
CompleteHeader(t, m) == CompleteFlat(t, m) /\ Every(t, m, CompleteFlat)
Complete(t, m) == CompleteFlat(t, m) /\ Every(t, m, CompleteHeader)

\* KitePacket.cpp:124-149: ParseFromArray says true of the whole of a message with
\* all of its required fields, in those inside it too, in any order and with fields
\* of a newer schema around them.  It says false if one of them is missing, and of a
\* whole message that was then cut short, retyped or ended by a group.
OnlyWholeAccepted ==
    [][Received /\ readPkg' # readPkg =>
        accepted' = (how \in {"client", "reordered", "newer"} /\ Complete(type, msg))]_vars

\* Every field set in p is one that m has, with its value, or with the beginning
\* of it if it is a string.
PartBy(t, p, m, P(_, _, _)) ==
    \A f \in Fields(t) :
        CASE IsMessage(t, f) ->
                \A i \in DOMAIN p.val[f] :
                    i \in DOMAIN m.val[f] /\ P(Kind(t, f), p.val[f][i], m.val[f][i])
          [] Kind(t, f) = "string" -> has_(t, p, f) => has_(t, m, f) /\ p.val[f] <= m.val[f]
          [] OTHER -> has_(t, p, f) => has_(t, m, f) /\ p.val[f] = m.val[f]

PartFlat(t, p, m) == PartBy(t, p, m, LAMBDA k, q, n : FALSE)
PartHeader(t, p, m) == PartBy(t, p, m, PartFlat)
Part(t, p, m) == PartBy(t, p, m, PartHeader)

\* KitePacket.cpp:124-149: the result of ParseFromArray is ignored, so what it made
\* of a body that ends early, or has other types, is handled.  No field of it is
\* made up: those that are set are as they were sent.
NothingInvented ==
    [][Received /\ readPkg' # readPkg => Part(type, readPkg'.message[1], msg)]_vars

\* asioKiteIOClient.cpp:283-298: the client takes an answer whose status() is true
\* for the server's consent, and status is a required field.
ConsentWasGiven ==
    readPkg.cmdType = 3 /\ readPkg.message[1].val[1] = 1 =>
        has_("ConnAuthAck", readPkg.message[1], 1)
=============================================================================
