------------------------------- MODULE ByteBuf -------------------------------
(***************************************************************************)
(* The conversions of commons/ByteBuf.hpp between numbers and bytes.  A    *)
(* byte is a signed char, -128..127, and an int, a short or a half of a    *)
(* long the signed integer of its width.                                   *)
(***************************************************************************)
EXTENDS Integers, Sequences

Char == -128..127
Short == -32768..32767
Int32 == {i \in Int : -2147483647 - 1 <= i /\ i <= 2147483647}
Long == [hi : Int32, lo : Int32]        \* 2^32 * hi + (lo as unsigned)

-----------------------------------------------------------------------------
(* Faulty forms of the definitions below, used by no specification: each is *)
(* a bug the code could have had, and breaks one of the properties.         *)

\* The low bytes of an int are sign-extended, as in asioSession.hpp:134.
readInt_Signed(b) == b[1] * 16777216 + b[2] * 65536 + b[3] * 256 + b[4]

-----------------------------------------------------------------------------
unsigned(c) == c % 256

char(i) == LET u == unsigned(i) IN IF u < 128 THEN u ELSE u - 256

writeShort(i) == <<char(i \div 256), char(i)>>

writeInt(i) ==
    <<char(i \div 16777216), char(i \div 65536), char(i \div 256), char(i)>>

writeLong(l) == writeInt(l.hi) \o writeInt(l.lo)

readShort(b) == b[1] * 256 + unsigned(b[2])

readInt(b) ==
    b[1] * 16777216 + unsigned(b[2]) * 65536 + unsigned(b[3]) * 256 + unsigned(b[4])

Or(c, d) ==
    LET on(w) == IF (c \div w) % 2 = 1 \/ (d \div w) % 2 = 1 THEN w ELSE 0
    IN  char(on(1) + on(2) + on(4) + on(8) + on(16) + on(32) + on(64) + on(128))

\* readLong computes in 32-bit unsigned ints.  A shift of one by 32 or more is
\* undefined: the first four bytes are lost, or, where the processor takes the
\* count modulo 32, land on the last four.
readLong(b) ==
    {[hi |-> 0, lo |-> readInt(SubSeq(b, 5, 8))],
     [hi |-> 0, lo |-> readInt([k \in 1..4 |-> Or(b[k], b[k + 4])])]}
=============================================================================
