---------------------------- MODULE PacketHeader ----------------------------
(***************************************************************************)
(* The layout of a frame (protocol/KitePacket.cpp): what toByteBuf writes  *)
(* before the body and what parseFrom reads of it.  The body is what its   *)
(* writer made of the message, and is not looked into.                     *)
(***************************************************************************)
EXTENDS ByteBuf

\* The header of a packet, without the command.
Header64 == [opaque : Int32, version : Short, extension : Long]

HeaderLen == 19

-----------------------------------------------------------------------------
\* The frame: the length of the rest, the header, the body.
Frame(p, size, body) ==
    [head |-> writeInt(HeaderLen + size) \o writeInt(p.opaque) \o <<char(p.cmdType)>>
                \o writeShort(p.version) \o writeLong(p.extension) \o writeInt(size),
     body |-> body]

\* The n bytes at an offset of what follows the length.
Bytes(buf, offset, n) == SubSeq(buf.head, offset + 5, offset + n + 4)

\* What parseFrom reads before it looks at any of it.
headersOf(buf) ==
    {[opaque |-> readInt(Bytes(buf, 0, 4)),
      cmdType |-> buf.head[9],
      version |-> readShort(Bytes(buf, 5, 2)),
      extension |-> ext,
      size |-> readInt(Bytes(buf, 15, 4))] : ext \in readLong(Bytes(buf, 7, 8))}
=============================================================================
