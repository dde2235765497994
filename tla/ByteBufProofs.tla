---------------------------- MODULE ByteBufProofs ----------------------------
(***************************************************************************)
(* Proofs about the conversions of ByteBuf and the layout of the frame:    *)
(* what writeShort, writeInt and toByteBuf write, readShort, readInt and   *)
(* parseFrom read back, for every value of the type and so for every sign  *)
(* of every byte.                                                          *)
(***************************************************************************)
EXTENDS PacketHeader, TLAPS

\* A byte is a signed char, and masking it with 0xFF gives the byte back.
LEMMA CharType ==
    ASSUME NEW i \in Int
    PROVE  char(i) \in Char /\ unsigned(char(i)) = i % 256
  BY SMTT(30) DEF char, unsigned, Char

\* ByteBuf.hpp:39-44, 84-91: a version is read as it was written.
THEOREM ShortsReadBack ==
    ASSUME NEW i \in Short
    PROVE  readShort(writeShort(i)) = i
  BY SMTT(30) DEF readShort, writeShort, unsigned, char, Short

\* ByteBuf.hpp:45-52, 92-103: an opaque id or a length is read as it was written.
\* The first byte carries the sign; each shift takes a byte from the one before.
THEOREM IntsReadBack ==
    ASSUME NEW i \in Int32
    PROVE  readInt(writeInt(i)) = i
  <1> DEFINE a == i \div 256
             b == i \div 65536
             c == i \div 16777216
  <1>1. i \in Int /\ a \in Int /\ b \in Int /\ c \in -128..127
    <2>1. i \in Int /\ -2147483648 <= i /\ i <= 2147483647
      BY SMT DEF Int32
    <2>2. a \in Int /\ b \in Int /\ c \in Int
      BY <2>1, SMT
    <2>3. /\ i = c * 16777216 + (i % 16777216)
          /\ 0 <= i % 16777216 /\ i % 16777216 < 16777216
          /\ i % 16777216 \in Int
      BY <2>1, SMT
    <2>4. -128 <= c /\ c <= 127
      <3> HIDE DEF c
      <3> QED
        BY <2>1, <2>2, <2>3, SMT
    <2> QED
      BY <2>1, <2>2, <2>4, SMT
  <1>2. i = a * 256 + (i % 256)
    BY <1>1, SMTT(30)
  <1>3. a = b * 256 + (a % 256)
    BY <1>1, SMTT(30)
  <1>4. b = c * 256 + (b % 256)
    BY <1>1, SMTT(30)
  <1>5. char(c) = c
    BY <1>1, SMTT(30) DEF char, unsigned
  <1>6. /\ unsigned(char(i)) = i % 256
        /\ unsigned(char(a)) = a % 256
        /\ unsigned(char(b)) = b % 256
    BY <1>1, CharType
  <1>7. readInt(writeInt(i))
            = char(c) * 16777216 + unsigned(char(b)) * 65536
              + unsigned(char(a)) * 256 + unsigned(char(i))
    BY SMTT(30) DEF readInt, writeInt
  <1> HIDE DEF a, b, c
  <1> QED
    BY <1>1, <1>2, <1>3, <1>4, <1>5, <1>6, <1>7, SMTT(30)

-----------------------------------------------------------------------------
(* Bits.                                                                   *)

\* A byte is the sum of its bits.
LEMMA BitsSumUp ==
    ASSUME NEW d \in Char
    PROVE  d % 256 = (d % 2) + 2 * ((d \div 2) % 2) + 4 * ((d \div 4) % 2)
                     + 8 * ((d \div 8) % 2) + 16 * ((d \div 16) % 2) + 32 * ((d \div 32) % 2)
                     + 64 * ((d \div 64) % 2) + 128 * ((d \div 128) % 2)
  BY SMTT(60) DEF Char

\* ByteBuf.hpp:63: or-ing a byte with one of zero leaves it.
LEMMA OrWithZero ==
    ASSUME NEW d \in Char
    PROVE  Or(0, d) = d
  <1> DEFINE on(w) == IF (0 \div w) % 2 = 1 \/ (d \div w) % 2 = 1 THEN w ELSE 0
  <1>1. ASSUME NEW w \in {1, 2, 4, 8, 16, 32, 64, 128}
        PROVE  on(w) = w * ((d \div w) % 2)
    <2>1. 0 \div w = 0
      BY SMTT(30)
    <2>2. d \div w \in Int /\ (d \div w) % 2 \in {0, 1}
      BY SMTT(30) DEF Char
    <2> QED
      BY <2>1, <2>2, SMTT(30)
  <1>2. on(1) = 1 * ((d \div 1) % 2) /\ on(2) = 2 * ((d \div 2) % 2) /\ on(4) = 4 * ((d \div 4) % 2)
        /\ on(8) = 8 * ((d \div 8) % 2) /\ on(16) = 16 * ((d \div 16) % 2)
        /\ on(32) = 32 * ((d \div 32) % 2) /\ on(64) = 64 * ((d \div 64) % 2)
        /\ on(128) = 128 * ((d \div 128) % 2)
    <2> HIDE DEF on
    <2> QED
      BY <1>1
  <1>3. Or(0, d) = char(on(1) + on(2) + on(4) + on(8) + on(16) + on(32) + on(64) + on(128))
    BY Zenon DEF Or
  <1> HIDE DEF on
  <1>4. on(1) + on(2) + on(4) + on(8) + on(16) + on(32) + on(64) + on(128) = d % 256
    <2>1. 1 * ((d \div 1) % 2) = d % 2
      BY DEF Char
    <2>2. on(1) = d % 2
      BY <1>2, <2>1, Zenon
    <2> QED
      BY <1>2, <2>2, BitsSumUp, ZenonT(30)
  <1>5. char(d % 256) = d
    BY SMTT(30) DEF char, unsigned, Char
  <1> QED
    BY <1>3, <1>4, <1>5

-----------------------------------------------------------------------------
(* The layout of the frame.                                                *)

\* What is written is bytes, as many as the type has.
LEMMA WrittenBytes ==
    /\ \A i \in Int : writeInt(i) \in Seq(Char) /\ Len(writeInt(i)) = 4
    /\ \A i \in Int : writeShort(i) \in Seq(Char) /\ Len(writeShort(i)) = 2
  <1>1. ASSUME NEW i \in Int
        PROVE  /\ i \div 16777216 \in Int /\ i \div 65536 \in Int /\ i \div 256 \in Int
    BY SMT
  <1>2. ASSUME NEW i \in Int
        PROVE  /\ char(i \div 16777216) \in Char /\ char(i \div 65536) \in Char
               /\ char(i \div 256) \in Char /\ char(i) \in Char
    BY <1>1, CharType, SMT
  <1> QED
    BY <1>2, SMT DEF writeInt, writeShort

\* The bytes of a concatenation.
LEMMA JoinedBytes ==
    ASSUME NEW s \in Seq(Char), NEW t \in Seq(Char)
    PROVE  /\ s \o t \in Seq(Char) /\ Len(s \o t) = Len(s) + Len(t)
           /\ \A i \in 1..Len(s) : (s \o t)[i] = s[i]
           /\ \A i \in 1..Len(t) : (s \o t)[Len(s) + i] = t[i]
  OBVIOUS

\* A byte of a sequence of bytes.
LEMMA ByteOf ==
    ASSUME NEW s \in Seq(Char), NEW i \in 1..Len(s)
    PROVE  s[i] \in Char
  OBVIOUS

\* The n bytes after the first o.
LEMMA Excerpt ==
    ASSUME NEW s \in Seq(Char), NEW o \in Nat, NEW n \in Nat, o + n <= Len(s)
    PROVE  /\ SubSeq(s, o + 1, o + n) \in Seq(Char) /\ Len(SubSeq(s, o + 1, o + n)) = n
           /\ \A k \in 1..n : SubSeq(s, o + 1, o + n)[k] = s[o + k]
  OBVIOUS

\* A number is read from its bytes, wherever they are.
LEMMA IntFromBytes ==
    ASSUME NEW b, NEW i \in Int32, \A k \in 1..4 : b[k] = writeInt(i)[k]
    PROVE  readInt(b) = i
  <1>1. 1 \in 1..4 /\ 2 \in 1..4 /\ 3 \in 1..4 /\ 4 \in 1..4
    OBVIOUS
  <1>2. readInt(b) = readInt(writeInt(i))
    BY <1>1, SMT DEF readInt
  <1> QED
    BY <1>2, IntsReadBack

\* readShort of bytes that writeShort wrote.
LEMMA ShortFromBytes ==
    ASSUME NEW b, NEW i \in Short, \A k \in 1..2 : b[k] = writeShort(i)[k]
    PROVE  readShort(b) = i
  <1>1. 1 \in 1..2 /\ 2 \in 1..2
    OBVIOUS
  <1>2. readShort(b) = readShort(writeShort(i))
    BY <1>1, Zenon DEF readShort
  <1> QED
    BY <1>2, ShortsReadBack

\* Zero is written as zeros.
LEMMA ZeroBytes ==
    \A k \in 1..4 : writeInt(0)[k] = 0
  <1>1. char(0) = 0 /\ 0 \div 16777216 = 0 /\ 0 \div 65536 = 0 /\ 0 \div 256 = 0
    BY SMT DEF char, unsigned
  <1>2. writeInt(0) = <<0, 0, 0, 0>>
    BY <1>1, SMT DEF writeInt
  <1> QED
    BY <1>2

\* ByteBuf.hpp:53-64: whichever way the processor shifts, a long below 2^32 is read
\* as it was written.
LEMMA LongFromBytes ==
    ASSUME NEW b \in Seq(Char), Len(b) = 8, NEW i \in Int32,
           \A k \in 1..4 : b[k] = 0, \A k \in 1..4 : b[4 + k] = writeInt(i)[k]
    PROVE  readLong(b) = {[hi |-> 0, lo |-> i]}
  <1>1. readInt(SubSeq(b, 5, 8)) = i
    <2>1. \A k \in 1..4 : SubSeq(b, 5, 8)[k] = b[4 + k]
      OBVIOUS
    <2>2. \A k \in 1..4 : SubSeq(b, 5, 8)[k] = writeInt(i)[k]
      BY <2>1, Zenon
    <2> QED
      BY <2>2, IntFromBytes
  <1>2. readInt([k \in 1..4 |-> Or(b[k], b[k + 4])]) = i
    <2> DEFINE c == [k \in 1..4 |-> Or(b[k], b[k + 4])]
    <2>1. ASSUME NEW k \in 1..4
          PROVE  c[k] = writeInt(i)[k]
      <3>1. b[k + 4] = writeInt(i)[k] /\ b[k + 4] \in Char /\ b[k] = 0
        <4>1. k + 4 = 4 + k /\ k + 4 \in 1..Len(b)
          OBVIOUS
        <4>2. b[k + 4] \in Char
          BY <4>1, ByteOf, Zenon
        <4> QED
          BY <4>1, <4>2, Zenon
      <3>2. c[k] = Or(0, b[k + 4])
        BY <3>1, Zenon
      <3> QED
        BY <3>1, <3>2, OrWithZero
    <2> HIDE DEF c
    <2>2. readInt(c) = i
      BY <2>1, IntFromBytes
    <2> QED
      BY <2>2 DEF c
  <1> QED
    BY <1>1, <1>2, Zenon DEF readLong

\* A packet with a body of size bytes that toByteBuf can be asked to write: the
\* length in front of it is an int.
Packet == [opaque : Int32, cmdType : Char, version : Short, extension : Long]
Size == {n \in Nat : HeaderLen + n \in Int32}

\* Where toByteBuf puts what.
LaidOut(h, p, n) ==
    /\ h \in Seq(Char) /\ Len(h) = 23
    /\ \A k \in 1..4 : h[k] = writeInt(HeaderLen + n)[k]
    /\ \A k \in 1..4 : h[4 + k] = writeInt(p.opaque)[k]
    /\ h[9] = p.cmdType
    /\ \A k \in 1..2 : h[9 + k] = writeShort(p.version)[k]
    /\ \A k \in 1..4 : h[11 + k] = writeInt(p.extension.hi)[k]
    /\ \A k \in 1..4 : h[15 + k] = writeInt(p.extension.lo)[k]
    /\ \A k \in 1..4 : h[19 + k] = writeInt(n)[k]

\* Where in the frame each field of the header is.
LEMMA Layout ==
    ASSUME NEW p \in Packet, NEW n \in Size, NEW body, NEW h, h = Frame(p, n, body).head
    PROVE  LaidOut(h, p, n)
  <1> DEFINE a == writeInt(HeaderLen + n)
             b == writeInt(p.opaque)
             c == <<char(p.cmdType)>>
             d == writeShort(p.version)
             e == writeInt(p.extension.hi)
             f == writeInt(p.extension.lo)
             g == writeInt(n)
             ab == a \o b
             abc == ab \o c
             abcd == abc \o d
             ef == e \o f
             abcdef == abcd \o ef
  <1>1. /\ HeaderLen + n \in Int /\ p.opaque \in Int /\ p.version \in Int /\ n \in Int
        /\ p.extension.hi \in Int /\ p.extension.lo \in Int
        /\ p.cmdType \in Char
    <2>1. /\ p.opaque \in Int32 /\ p.version \in Short /\ p.extension \in Long
          /\ p.cmdType \in Char /\ n \in Nat
      BY SMT DEF Packet, Size
    <2>2. p.extension.hi \in Int32 /\ p.extension.lo \in Int32
      BY <2>1, SMT DEF Long
    <2>3. (\A i \in Int32 : i \in Int) /\ (\A i \in Short : i \in Int)
      BY SMT DEF Int32, Short
    <2> QED
      BY <2>1, <2>2, <2>3, SMT DEF HeaderLen
  <1>2. /\ a \in Seq(Char) /\ Len(a) = 4 /\ b \in Seq(Char) /\ Len(b) = 4
        /\ d \in Seq(Char) /\ Len(d) = 2 /\ e \in Seq(Char) /\ Len(e) = 4
        /\ f \in Seq(Char) /\ Len(f) = 4 /\ g \in Seq(Char) /\ Len(g) = 4
    BY <1>1, WrittenBytes, Zenon
  <1>3. c \in Seq(Char) /\ Len(c) = 1 /\ c[1] = p.cmdType
    <2>1. char(p.cmdType) = p.cmdType
      BY <1>1, SMT DEF char, unsigned, Char
    <2> QED
      BY <1>1, <2>1
  <1>4. h = abcdef \o g
    BY Zenon DEF Frame, writeLong
  <1> HIDE DEF a, b, c, d, e, f, g
  <1>5. /\ ab \in Seq(Char) /\ Len(ab) = 8
        /\ \A k \in 1..4 : ab[k] = a[k] /\ ab[4 + k] = b[k]
    <2>1. 4 + 4 = 8
      OBVIOUS
    <2>2. /\ a \o b \in Seq(Char) /\ Len(a \o b) = Len(a) + Len(b)
          /\ \A k \in 1..Len(a) : (a \o b)[k] = a[k]
          /\ \A k \in 1..Len(b) : (a \o b)[Len(a) + k] = b[k]
      BY <1>2, JoinedBytes, Zenon
    <2> QED
      BY <1>2, <2>1, <2>2, Zenon
  <1> HIDE DEF ab
  <1>6. /\ abc \in Seq(Char) /\ Len(abc) = 9
        /\ \A k \in 1..8 : abc[k] = ab[k]
        /\ abc[9] = c[1]
    <2>1. 8 + 1 = 9 /\ 1 \in 1..1
      OBVIOUS
    <2>2. /\ ab \o c \in Seq(Char) /\ Len(ab \o c) = Len(ab) + Len(c)
          /\ \A k \in 1..Len(ab) : (ab \o c)[k] = ab[k]
          /\ \A k \in 1..Len(c) : (ab \o c)[Len(ab) + k] = c[k]
      BY <1>3, <1>5, JoinedBytes, Zenon
    <2>3. /\ abc \in Seq(Char) /\ Len(abc) = 8 + 1
          /\ \A k \in 1..8 : abc[k] = ab[k]
          /\ \A k \in 1..1 : abc[8 + k] = c[k]
      BY <1>3, <1>5, <2>2, Zenon
    <2> HIDE DEF abc
    <2>4. abc[8 + 1] = c[1]
      BY <2>1, <2>3, Zenon
    <2> QED
      BY <2>1, <2>3, <2>4, Zenon
  <1> HIDE DEF abc
  <1>7. /\ abcd \in Seq(Char) /\ Len(abcd) = 11
        /\ \A k \in 1..9 : abcd[k] = abc[k]
        /\ \A k \in 1..2 : abcd[9 + k] = d[k]
    <2>1. 9 + 2 = 11
      OBVIOUS
    <2>2. /\ abc \o d \in Seq(Char) /\ Len(abc \o d) = Len(abc) + Len(d)
          /\ \A k \in 1..Len(abc) : (abc \o d)[k] = abc[k]
          /\ \A k \in 1..Len(d) : (abc \o d)[Len(abc) + k] = d[k]
      BY <1>2, <1>6, JoinedBytes, Zenon
    <2> QED
      BY <1>2, <1>6, <2>1, <2>2, Zenon
  <1> HIDE DEF abcd
  <1>8. /\ ef \in Seq(Char) /\ Len(ef) = 8
        /\ \A k \in 1..4 : ef[k] = e[k] /\ ef[4 + k] = f[k]
    <2>1. 4 + 4 = 8
      OBVIOUS
    <2>2. /\ e \o f \in Seq(Char) /\ Len(e \o f) = Len(e) + Len(f)
          /\ \A k \in 1..Len(e) : (e \o f)[k] = e[k]
          /\ \A k \in 1..Len(f) : (e \o f)[Len(e) + k] = f[k]
      BY <1>2, JoinedBytes, Zenon
    <2> QED
      BY <1>2, <2>1, <2>2, Zenon
  <1> HIDE DEF ef
  <1>9. /\ abcdef \in Seq(Char) /\ Len(abcdef) = 19
        /\ \A k \in 1..11 : abcdef[k] = abcd[k]
        /\ \A k \in 1..8 : abcdef[11 + k] = ef[k]
    <2>1. 11 + 8 = 19
      OBVIOUS
    <2>2. /\ abcd \o ef \in Seq(Char) /\ Len(abcd \o ef) = Len(abcd) + Len(ef)
          /\ \A k \in 1..Len(abcd) : (abcd \o ef)[k] = abcd[k]
          /\ \A k \in 1..Len(ef) : (abcd \o ef)[Len(abcd) + k] = ef[k]
      BY <1>7, <1>8, JoinedBytes, Zenon
    <2> QED
      BY <1>7, <1>8, <2>1, <2>2, Zenon
  <1> HIDE DEF abcdef
  <1>10. /\ h \in Seq(Char) /\ Len(h) = 23
         /\ \A k \in 1..19 : h[k] = abcdef[k]
         /\ \A k \in 1..4 : h[19 + k] = g[k]
    <2>1. 19 + 4 = 23
      OBVIOUS
    <2>2. /\ abcdef \o g \in Seq(Char) /\ Len(abcdef \o g) = Len(abcdef) + Len(g)
          /\ \A k \in 1..Len(abcdef) : (abcdef \o g)[k] = abcdef[k]
          /\ \A k \in 1..Len(g) : (abcdef \o g)[Len(abcdef) + k] = g[k]
      BY <1>2, <1>9, JoinedBytes, Zenon
    <2> QED
      BY <1>2, <1>4, <1>9, <2>1, <2>2, Zenon
  <1>11. ASSUME NEW k \in 1..4
         PROVE  /\ h[k] = a[k] /\ h[4 + k] = b[k] /\ h[11 + k] = e[k]
                /\ h[15 + k] = f[k] /\ h[19 + k] = g[k]
    <2>1. h[k] = a[k]
      <3>1. k \in 1..19 /\ k \in 1..11 /\ k \in 1..9 /\ k \in 1..8
        OBVIOUS
      <3>2. h[k] = abcdef[k] /\ abcdef[k] = abcd[k]
        BY <1>9, <1>10, <3>1, Zenon
      <3>3. abcd[k] = abc[k] /\ abc[k] = ab[k]
        BY <1>6, <1>7, <3>1, Zenon
      <3> QED
        BY <1>5, <3>2, <3>3, Zenon
    <2>2. h[4 + k] = b[k]
      <3>1. 4 + k \in 1..19 /\ 4 + k \in 1..11 /\ 4 + k \in 1..9 /\ 4 + k \in 1..8
        OBVIOUS
      <3>2. h[4 + k] = abcdef[4 + k] /\ abcdef[4 + k] = abcd[4 + k]
        BY <1>9, <1>10, <3>1, Zenon
      <3>3. abcd[4 + k] = abc[4 + k] /\ abc[4 + k] = ab[4 + k]
        BY <1>6, <1>7, <3>1, Zenon
      <3> QED
        BY <1>5, <3>2, <3>3, Zenon
    <2>3. h[11 + k] = e[k]
      <3>1. 11 + k \in 1..19 /\ k \in 1..8
        OBVIOUS
      <3> QED
        BY <1>8, <1>9, <1>10, <3>1, Zenon
    <2>4. h[15 + k] = f[k]
      <3>1. 15 + k \in 1..19 /\ 15 + k = 11 + (4 + k) /\ 4 + k \in 1..8
        OBVIOUS
      <3>2. h[15 + k] = abcdef[15 + k] /\ abcdef[11 + (4 + k)] = ef[4 + k]
        BY <1>9, <1>10, <3>1, Zenon
      <3> QED
        BY <1>8, <3>1, <3>2, Zenon
    <2> QED
      BY <1>10, <2>1, <2>2, <2>3, <2>4, Zenon
  <1>12. ASSUME NEW k \in 1..2
         PROVE  h[9 + k] = d[k]
    <2>1. 9 + k \in 1..11 /\ 9 + k \in 1..19
      OBVIOUS
    <2> QED
      BY <1>7, <1>9, <1>10, <2>1, Zenon
  <1>13. h[9] = p.cmdType
    <2>1. 9 \in 1..9 /\ 9 \in 1..11 /\ 9 \in 1..19
      OBVIOUS
    <2> QED
      BY <1>3, <1>6, <1>7, <1>9, <1>10, <2>1, Zenon
  <1> QED
    BY <1>10, <1>11, <1>12, <1>13, Zenon DEF LaidOut, a, b, c, d, e, f, g

\* KitePacket.cpp:61-75, 113-121: the length in front of a frame is that of the
\* rest, and every field of the header is read as it was written, whatever its sign,
\* save for an extension of more than 32 bits.
THEOREM HeaderReadsBack ==
    ASSUME NEW p \in Packet, NEW n \in Size, NEW body
    PROVE  /\ readInt(Frame(p, n, body).head) = HeaderLen + n
           /\ \A h \in headersOf(Frame(p, n, body)) :
                /\ h.opaque = p.opaque /\ h.cmdType = p.cmdType
                /\ h.version = p.version /\ h.size = n
                /\ p.extension.hi = 0 => h.extension = p.extension
  <1>0. PICK F, h : F = Frame(p, n, body) /\ h = F.head
    OBVIOUS
  <1>1. /\ h \in Seq(Char) /\ Len(h) = 23
        /\ \A k \in 1..4 : h[k] = writeInt(HeaderLen + n)[k]
        /\ \A k \in 1..4 : h[4 + k] = writeInt(p.opaque)[k]
        /\ h[9] = p.cmdType
        /\ \A k \in 1..2 : h[9 + k] = writeShort(p.version)[k]
        /\ \A k \in 1..4 : h[11 + k] = writeInt(p.extension.hi)[k]
        /\ \A k \in 1..4 : h[15 + k] = writeInt(p.extension.lo)[k]
        /\ \A k \in 1..4 : h[19 + k] = writeInt(n)[k]
    <2>1. h = Frame(p, n, body).head
      BY <1>0
    <2>2. LaidOut(h, p, n)
      BY <2>1, Layout, Zenon
    <2> QED
      BY <2>2, Zenon DEF LaidOut
  <1>2. /\ HeaderLen + n \in Int32 /\ n \in Int32 /\ p.opaque \in Int32 /\ p.version \in Short
        /\ p.extension \in [hi : Int32, lo : Int32] /\ p.extension.lo \in Int32
    BY SMT DEF Packet, Size, HeaderLen, Int32, Long
  <1>3. /\ \A k \in 1..4 : Bytes(F, 0, 4)[k] = h[4 + k]
        /\ \A k \in 1..2 : Bytes(F, 5, 2)[k] = h[9 + k]
        /\ \A k \in 1..8 : Bytes(F, 7, 8)[k] = h[11 + k]
        /\ \A k \in 1..4 : Bytes(F, 15, 4)[k] = h[19 + k]
        /\ Bytes(F, 7, 8) \in Seq(Char) /\ Len(Bytes(F, 7, 8)) = 8
    <2>1. ASSUME NEW o \in Nat, NEW m \in Nat, o + 4 + m <= 23
          PROVE  /\ Bytes(F, o, m) \in Seq(Char) /\ Len(Bytes(F, o, m)) = m
                 /\ \A k \in 1..m : Bytes(F, o, m)[k] = h[o + 4 + k]
      <3>1. o + 4 \in Nat /\ o + 5 = o + 4 + 1 /\ o + m + 4 = o + 4 + m
        OBVIOUS
      <3>2. Bytes(F, o, m) = SubSeq(h, o + 4 + 1, o + 4 + m)
        BY <1>0, <3>1, Zenon DEF Bytes
      <3>3. h \in Seq(Char) /\ o + 4 + m <= Len(h)
        BY <1>1, <2>1, Zenon
      <3> QED
        BY <3>1, <3>2, <3>3, Excerpt
    <2>2. /\ 0 \in Nat /\ 4 \in Nat /\ 0 + 4 + 4 <= 23 /\ \A k \in 1..4 : 0 + 4 + k = 4 + k
          /\ 5 \in Nat /\ 2 \in Nat /\ 5 + 4 + 2 <= 23 /\ \A k \in 1..2 : 5 + 4 + k = 9 + k
          /\ 7 \in Nat /\ 8 \in Nat /\ 7 + 4 + 8 <= 23 /\ \A k \in 1..8 : 7 + 4 + k = 11 + k
          /\ 15 \in Nat /\ 15 + 4 + 4 <= 23 /\ \A k \in 1..4 : 15 + 4 + k = 19 + k
      OBVIOUS
    <2>3. /\ \A k \in 1..4 : Bytes(F, 0, 4)[k] = h[0 + 4 + k]
          /\ \A k \in 1..2 : Bytes(F, 5, 2)[k] = h[5 + 4 + k]
          /\ \A k \in 1..8 : Bytes(F, 7, 8)[k] = h[7 + 4 + k]
          /\ \A k \in 1..4 : Bytes(F, 15, 4)[k] = h[15 + 4 + k]
          /\ Bytes(F, 7, 8) \in Seq(Char) /\ Len(Bytes(F, 7, 8)) = 8
      BY <2>1, <2>2, Zenon
    <2> QED
      BY <2>2, <2>3, Zenon
  <1>4. /\ readInt(h) = HeaderLen + n
        /\ readInt(Bytes(F, 0, 4)) = p.opaque /\ readInt(Bytes(F, 15, 4)) = n
    <2>1. \A k \in 1..4 : /\ Bytes(F, 0, 4)[k] = writeInt(p.opaque)[k]
                          /\ Bytes(F, 15, 4)[k] = writeInt(n)[k]
      BY <1>1, <1>3, Zenon
    <2>2. readInt(h) = HeaderLen + n
      <3>1. \A k \in 1..4 : h[k] = writeInt(HeaderLen + n)[k]
        BY <1>1
      <3> QED
        BY <1>2, <3>1, IntFromBytes, Zenon
    <2>3. readInt(Bytes(F, 0, 4)) = p.opaque /\ readInt(Bytes(F, 15, 4)) = n
      BY <1>2, <2>1, IntFromBytes, Zenon
    <2> QED
      BY <2>2, <2>3
  <1>5. readShort(Bytes(F, 5, 2)) = p.version
    <2>1. \A k \in 1..2 : Bytes(F, 5, 2)[k] = writeShort(p.version)[k]
      BY <1>1, <1>3, Zenon
    <2> QED
      BY <1>2, <2>1, ShortFromBytes
  <1>6. ASSUME p.extension.hi = 0
        PROVE  readLong(Bytes(F, 7, 8)) = {p.extension}
    <2>1. ASSUME NEW k \in 1..4
          PROVE  Bytes(F, 7, 8)[k] = 0 /\ Bytes(F, 7, 8)[4 + k] = writeInt(p.extension.lo)[k]
      <3>1. k \in 1..8 /\ 4 + k \in 1..8 /\ 11 + (4 + k) = 15 + k
        OBVIOUS
      <3>2. Bytes(F, 7, 8)[k] = h[11 + k] /\ Bytes(F, 7, 8)[4 + k] = h[15 + k]
        BY <1>3, <3>1, Zenon
      <3>3. writeInt(p.extension.hi)[k] = 0
        BY <1>6, ZeroBytes, Zenon
      <3> QED
        BY <1>1, <3>2, <3>3, Zenon
    <2>2. readLong(Bytes(F, 7, 8)) = {[hi |-> 0, lo |-> p.extension.lo]}
      <3>1. /\ Bytes(F, 7, 8) \in Seq(Char) /\ Len(Bytes(F, 7, 8)) = 8
            /\ p.extension.lo \in Int32
        BY <1>2, <1>3
      <3> QED
        BY <2>1, <3>1, LongFromBytes, Zenon
    <2>3. p.extension = [hi |-> 0, lo |-> p.extension.lo]
      BY <1>2, <1>6
    <2> QED
      BY <2>2, <2>3
  <1>7. ASSUME NEW x \in headersOf(F)
        PROVE  /\ x.opaque = p.opaque /\ x.cmdType = p.cmdType
               /\ x.version = p.version /\ x.size = n
               /\ p.extension.hi = 0 => x.extension = p.extension
    <2>1. PICK ext \in readLong(Bytes(F, 7, 8)) :
            x = [opaque |-> p.opaque, cmdType |-> p.cmdType, version |-> p.version,
                 extension |-> ext, size |-> n]
      <3>1. PICK ext \in readLong(Bytes(F, 7, 8)) :
                x = [opaque |-> readInt(Bytes(F, 0, 4)), cmdType |-> F.head[9],
                     version |-> readShort(Bytes(F, 5, 2)), extension |-> ext,
                     size |-> readInt(Bytes(F, 15, 4))]
        BY <1>7, Zenon DEF headersOf
      <3>2. F.head[9] = p.cmdType
        BY <1>0, <1>1, Zenon
      <3> QED
        BY <1>4, <1>5, <3>1, <3>2, Zenon
    <2> QED
      BY <1>6, <2>1
  <1> QED
    BY <1>0, <1>4, <1>7, Zenon
-----------------------------------------------------------------------------
(* The types of what is written and read.                                  *)

\* The first four bytes make an int, whatever they are.
LEMMA IntType ==
    ASSUME NEW b, \A k \in 1..4 : b[k] \in Char
    PROVE  readInt(b) \in Int32
  <1>1. b[1] \in Char /\ b[2] \in Char /\ b[3] \in Char /\ b[4] \in Char
    OBVIOUS
  <1>2. \A c \in Char : unsigned(c) \in 0..255
    BY SMTT(30) DEF unsigned, Char
  <1> DEFINE w == b[1]
             x == unsigned(b[2])
             y == unsigned(b[3])
             z == unsigned(b[4])
  <1>3. w \in -128..127 /\ x \in 0..255 /\ y \in 0..255 /\ z \in 0..255
    BY <1>1, <1>2 DEF Char
  <1>4. readInt(b) = w * 16777216 + x * 65536 + y * 256 + z
    BY DEF readInt
  <1> HIDE DEF w, x, y, z
  <1> QED
    BY <1>3, <1>4, SMTT(30) DEF Int32

\* Two bytes make a short.
LEMMA ShortType ==
    ASSUME NEW b, b[1] \in Char, b[2] \in Char
    PROVE  readShort(b) \in Short
  <1>1. unsigned(b[2]) \in 0..255
    BY SMTT(30) DEF unsigned, Char
  <1> DEFINE w == b[1]
             x == unsigned(b[2])
  <1>2. w \in -128..127 /\ x \in 0..255
    BY <1>1 DEF Char
  <1>3. readShort(b) = w * 256 + x
    BY DEF readShort
  <1> HIDE DEF w, x
  <1>4. -128 <= w /\ w <= 127 /\ w \in Int /\ 0 <= x /\ x <= 255 /\ x \in Int
    BY <1>2
  <1> DEFINE v == w * 256 + x
             lo == -32768
             hi == 32767
  <1>5. v \in Int /\ lo \in Int /\ hi \in Int /\ lo <= v /\ v <= hi
    BY <1>4, SMTT(30)
  <1>6. Short = lo..hi
    BY DEF Short
  <1> HIDE DEF v, lo, hi
  <1>7. v \in lo..hi
    BY <1>5
  <1> QED
    BY <1>3, <1>6, <1>7, Zenon DEF v

\* A packet that was never read has fields of these types.
LEMMA ZeroType == 0 \in Int32 /\ 0 \in Short /\ [hi |-> 0, lo |-> 0] \in Long
  <1>1. 0 \in Int32
    BY DEF Int32
  <1>2. 0 \in Short
    BY DEF Short
  <1> QED
    BY <1>1, <1>2 DEF Long

\* The or of two bytes is a byte.
LEMMA OrType == \A c, d : Or(c, d) \in Char
  <1> TAKE c, d
  <1> DEFINE on(w) == IF (c \div w) % 2 = 1 \/ (d \div w) % 2 = 1 THEN w ELSE 0
  <1>1. \A w \in Int : on(w) \in Int
    OBVIOUS
  <1> HIDE DEF on
  <1>2. on(1) + on(2) + on(4) + on(8) + on(16) + on(32) + on(64) + on(128) \in Int
    BY <1>1
  <1> QED
    BY <1>2, CharType DEF Or, on

\* Eight bytes make a long, on every processor.
LEMMA LongType ==
    ASSUME NEW b \in Seq(Char), Len(b) = 8
    PROVE  readLong(b) \subseteq Long
  <1>1. readInt(SubSeq(b, 5, 8)) \in Int32
    <2>1. 4 \in Nat /\ 4 + 4 <= Len(b) /\ 4 + 1 = 5 /\ 4 + 4 = 8
      OBVIOUS
    <2>2. SubSeq(b, 4 + 1, 4 + 4) \in Seq(Char) /\ Len(SubSeq(b, 4 + 1, 4 + 4)) = 4
      BY <2>1, Excerpt, Zenon
    <2>3. \A k \in 1..4 : SubSeq(b, 5, 8)[k] \in Char
      BY <2>1, <2>2, ByteOf, Zenon
    <2> QED
      BY <2>3, IntType
  <1>2. readInt([k \in 1..4 |-> Or(b[k], b[k + 4])]) \in Int32
    <2> DEFINE c == [k \in 1..4 |-> Or(b[k], b[k + 4])]
    <2>1. \A k \in 1..4 : c[k] \in Char
      BY OrType
    <2> HIDE DEF c
    <2>2. readInt(c) \in Int32
      BY <2>1, IntType
    <2> QED
      BY <2>2 DEF c
  <1>3. 0 \in Int32
    BY DEF Int32
  <1> QED
    BY <1>1, <1>2, <1>3 DEF readLong, Long

\* The head of a frame is 23 bytes, though its size may not fit in an int.
LEMMA FrameType ==
    ASSUME NEW p, NEW n \in Int, NEW body, p.opaque \in Int, p.cmdType \in Int,
           p.version \in Int, p.extension.hi \in Int, p.extension.lo \in Int
    PROVE  Frame(p, n, body).head \in Seq(Char) /\ Len(Frame(p, n, body).head) = 23
  <1> DEFINE a == writeInt(HeaderLen + n)
             b == writeInt(p.opaque)
             c == <<char(p.cmdType)>>
             d == writeShort(p.version)
             e == writeInt(p.extension.hi)
             f == writeInt(p.extension.lo)
             g == writeInt(n)
             Bytewise(s, l) == s \in Seq(Char) /\ Len(s) = l
  <1>1. HeaderLen + n \in Int /\ char(p.cmdType) \in Char
    BY CharType DEF HeaderLen
  <1>2. /\ Bytewise(a, 4) /\ Bytewise(b, 4) /\ Bytewise(d, 2) /\ Bytewise(e, 4)
        /\ Bytewise(f, 4) /\ Bytewise(g, 4)
    BY <1>1, WrittenBytes, Zenon
  <1>3. Bytewise(c, 1)
    BY <1>1
  <1>4. Frame(p, n, body).head = a \o b \o c \o d \o (e \o f) \o g
    BY Zenon DEF Frame, writeLong
  <1> HIDE DEF a, b, c, d, e, f, g
  <1>5. ASSUME NEW s, NEW l, NEW r, NEW k, Bytewise(s, l), Bytewise(r, k)
        PROVE  Bytewise(s \o r, l + k)
    BY <1>5, JoinedBytes, Zenon
  <1> HIDE DEF Bytewise
  <1>6. Bytewise(a \o b, 4 + 4) /\ Bytewise(e \o f, 4 + 4)
    BY <1>2, <1>5, Zenon
  <1>7. Bytewise(a \o b \o c, (4 + 4) + 1)
    BY <1>3, <1>5, <1>6, Zenon
  <1>8. Bytewise(a \o b \o c \o d, ((4 + 4) + 1) + 2)
    BY <1>2, <1>5, <1>7, Zenon
  <1>9. Bytewise(a \o b \o c \o d \o (e \o f), (((4 + 4) + 1) + 2) + (4 + 4))
    BY <1>5, <1>6, <1>8, Zenon
  <1>10. Bytewise(a \o b \o c \o d \o (e \o f) \o g, ((((4 + 4) + 1) + 2) + (4 + 4)) + 4)
    BY <1>2, <1>5, <1>9, Zenon
  <1>11. ((((4 + 4) + 1) + 2) + (4 + 4)) + 4 = 23
    OBVIOUS
  <1> QED
    BY <1>4, <1>10, <1>11, Zenon DEF Bytewise

\* Whatever 23 bytes there are in front of a body, each field read of them has its type.
LEMMA HeaderType ==
    ASSUME NEW buf, buf.head \in Seq(Char), Len(buf.head) = 23, NEW h \in headersOf(buf)
    PROVE  /\ readInt(buf.head) \in Int32
           /\ h.opaque \in Int32 /\ h.version \in Short /\ h.extension \in Long
           /\ h.size \in Int32
  <1> DEFINE s == buf.head
  <1>0. s \in Seq(Char) /\ Len(s) = 23
    OBVIOUS
  <1> HIDE DEF s
  <1>1. \A k \in 1..4 : s[k] \in Char
    <2>1. \A k \in 1..4 : k \in 1..23
      OBVIOUS
    <2> QED
      BY <1>0, <2>1, ByteOf, Zenon
  <1>2. ASSUME NEW o \in Nat, NEW n \in Nat, (o + 4) + n <= 23
        PROVE  /\ Bytes(buf, o, n) \in Seq(Char) /\ Len(Bytes(buf, o, n)) = n
               /\ \A k \in 1..n : Bytes(buf, o, n)[k] \in Char
    <2> DEFINE x == SubSeq(s, (o + 4) + 1, (o + 4) + n)
    <2>1. o + 4 \in Nat /\ o + 5 = (o + 4) + 1 /\ o + n + 4 = (o + 4) + n
      OBVIOUS
    <2>2. x \in Seq(Char) /\ Len(x) = n
      BY <1>0, <1>2, <2>1, Excerpt, Zenon
    <2>3. Bytes(buf, o, n) = x
      BY <2>1, Zenon DEF Bytes, s
    <2> HIDE DEF x
    <2>4. \A k \in 1..n : x[k] \in Char
      BY <2>2, ByteOf, Zenon
    <2> QED
      BY <2>2, <2>3, <2>4, Zenon
  <1>3. readInt(buf.head) \in Int32
    BY <1>1, IntType, Zenon DEF s
  <1>4. /\ 0 \in Nat /\ 4 \in Nat /\ 5 \in Nat /\ 2 \in Nat /\ 7 \in Nat /\ 8 \in Nat /\ 15 \in Nat
        /\ (0 + 4) + 4 <= 23 /\ (5 + 4) + 2 <= 23 /\ (7 + 4) + 8 <= 23 /\ (15 + 4) + 4 <= 23
        /\ 1 \in 1..2 /\ 2 \in 1..2
    OBVIOUS
  <1>5. readInt(Bytes(buf, 0, 4)) \in Int32 /\ readInt(Bytes(buf, 15, 4)) \in Int32
    BY <1>2, <1>4, IntType, Zenon
  <1>6. readShort(Bytes(buf, 5, 2)) \in Short
    BY <1>2, <1>4, ShortType, Zenon
  <1>7. readLong(Bytes(buf, 7, 8)) \subseteq Long
    BY <1>2, <1>4, LongType, Zenon
  <1> QED
    BY <1>3, <1>5, <1>6, <1>7 DEF headersOf

=============================================================================
