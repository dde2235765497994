----------------------------- MODULE MessageLite -----------------------------
(***************************************************************************)
(* What the functions of a generated message class do with the tables of   *)
(* module KiteRemoting.  The functions of the ten classes have one shape;  *)
(* an operator here is that shape, and its first argument the class.       *)
(*                                                                         *)
(* A message is [has, val, unknown]: the bits of _has_bits_[0] that are    *)
(* set, the members by field number, and the unknown fields.  On the wire  *)
(* a field is a token [tag, val, sub, cut]: its tag, a number or the       *)
(* length of a string, the tokens of a message, and whether the bytes end  *)
(* inside the token.  Numbers are those TLC has, 32 bits wide.             *)
(*                                                                         *)
(* Messages are three deep: some hold a Header, and a Header holds         *)
(* entries.  A function of a class calls that of the classes inside, so    *)
(* each comes in three forms: for a flat class, for Header, and for any.   *)
(***************************************************************************)
EXTENDS KiteRemoting, Sequences, SequencesExt, FiniteSetsExt

Fields(t) == DOMAIN Classes[t].field
Bit(t, f) == Classes[t].field[f].bit
Kind(t, f) == Classes[t].field[f].kind
IsMessage(t, f) == Kind(t, f) \in DOMAIN Classes
Repeated(t, f) == Bit(t, f) = NoBit
Messages(t) == {f \in Fields(t) : IsMessage(t, f)}

New(t) == [has |-> {}, val |-> Classes[t].ctor, unknown |-> <<>>]

\* What a function makes of each of the messages inside m.
Inside(t, m, Op(_, _)) ==
    [f \in Messages(t) |-> [i \in DOMAIN m.val[f] |-> Op(Kind(t, f), m.val[f][i])]]

-----------------------------------------------------------------------------
(* Clear, MergeFrom, CopyFrom, Swap, IsInitialized.                        *)

has_(t, m, f) == Bit(t, f) \in m.has

\* A string is emptied and a message inside cleared only if its bit is set; the
\* message stays allocated.
Cleared(t, m, inside) ==
    LET c == Classes[t].clear
        Reset(f) ==
            CASE IsMessage(t, f) -> IF has_(t, m, f) THEN inside[f] ELSE m.val[f]
              [] Kind(t, f) = "string" -> IF has_(t, m, f) THEN c.reset[f] ELSE m.val[f]
              [] OTHER -> c.reset[f]
    IN  [has |-> {},
         val |-> [f \in Fields(t) |->
                    IF f \in DOMAIN c.always THEN c.always[f]
                    ELSE IF f \in DOMAIN c.reset /\ c.mask \cap m.has # {} THEN Reset(f)
                    ELSE m.val[f]],
         unknown |-> <<>>]

ClearFlat(t, m) == Cleared(t, m, NULL)
ClearHeader(t, m) == Cleared(t, m, Inside(t, m, ClearFlat))
Clear(t, m) == Cleared(t, m, Inside(t, m, ClearHeader))

\* A member is assigned to, and bits are set or not.
Assign(m, bits, f, v) ==
    [has |-> bits, val |-> [m.val EXCEPT ![f] = v], unknown |-> m.unknown]

\* mutable_f() of a message inside: allocated if it is not, and its bit set.
mutable_(t, m, f) ==
    Assign(m, m.has \cup {Bit(t, f)}, f,
           IF m.val[f] = NULL THEN <<New(Kind(t, f))>> ELSE m.val[f])

Merged(t, m, from, inside) ==
    LET looked == UNION {g[2] : g \in {g \in Classes[t].merge.groups : g[1] \cap from.has # {}}}
        given == {f \in looked : has_(t, from, f)}
    IN  [has |-> m.has \cup {Bit(t, f) : f \in given},
         val |-> [f \in Fields(t) |->
                    IF f \in given THEN IF IsMessage(t, f) THEN inside[f] ELSE from.val[f]
                    ELSE IF f \in Classes[t].merge.repeated THEN m.val[f] \o inside[f]
                    ELSE m.val[f]],
         unknown |-> m.unknown \o from.unknown]

\* What a merge makes of each of the messages inside: those of a repeated field are
\* merged into new ones.
MergedInside(t, m, from, Op(_, _, _)) ==
    [f \in Messages(t) |-> [i \in DOMAIN from.val[f] |->
        Op(Kind(t, f),
           IF Repeated(t, f) THEN New(Kind(t, f)) ELSE mutable_(t, m, f).val[f][1],
           from.val[f][i])]]

MergeFromFlat(t, m, from) == Merged(t, m, from, NULL)
MergeFromHeader(t, m, from) == Merged(t, m, from, MergedInside(t, m, from, MergeFromFlat))
MergeFrom(t, m, from) == Merged(t, m, from, MergedInside(t, m, from, MergeFromHeader))

CopyFrom(t, m, from) == MergeFrom(t, Clear(t, m), from)

\* What InternalSwap leaves in the first of two messages.
Swapped(t, m, other) ==
    [other EXCEPT !.val = [f \in Fields(t) |->
        IF f \in Classes[t].swap THEN other.val[f] ELSE m.val[f]]]

RequiredAreSet(t, m, inside) ==
    /\ Classes[t].init.mask \subseteq m.has
    /\ \A f \in Classes[t].init.subs :
        Repeated(t, f) \/ has_(t, m, f) => \A i \in DOMAIN m.val[f] : inside[f][i]

IsInitializedFlat(t, m) == RequiredAreSet(t, m, NULL)
IsInitializedHeader(t, m) == RequiredAreSet(t, m, Inside(t, m, IsInitializedFlat))
IsInitialized(t, m) == RequiredAreSet(t, m, Inside(t, m, IsInitializedHeader))

-----------------------------------------------------------------------------
(* The accessors of single fields.                                         *)

\* Faulty form of the next definition, used by no specification: the bit is taken
\* for the number of the field, which counts from 1.
set_Number(t, m, f, v) == Assign(m, m.has \cup {f}, f, v)

set_(t, m, f, v) == Assign(m, m.has \cup {Bit(t, f)}, f, v)

clear_(t, m, f) ==
    Assign(m, m.has \ {Bit(t, f)}, f,
           IF IsMessage(t, f) /\ ~Repeated(t, f)
           THEN [i \in DOMAIN m.val[f] |-> Clear(Kind(t, f), m.val[f][i])]
           ELSE Classes[t].field[f].default)

\* release_f() and set_allocated_f(NULL), of a message inside.
release_(t, m, f) == Assign(m, m.has \ {Bit(t, f)}, f, NULL)

add_(t, m, f) == Assign(m, m.has, f, Append(m.val[f], New(Kind(t, f))))

\* A message inside, made ready to be written to: a new one of many, or the only one.
Ready(t, m, f) == IF Repeated(t, f) THEN add_(t, m, f) ELSE mutable_(t, m, f)

\* The message inside that is ready, and the message with another in its place.
Current(t, m, f) == Last(Ready(t, m, f).val[f])
Replaced(t, m, f, n) ==
    LET Put(r) == Assign(r, r.has, f, [r.val[f] EXCEPT ![Len(r.val[f])] = n])
    IN  Put(Ready(t, m, f))

-----------------------------------------------------------------------------
(* ByteSize and SerializeWithCachedSizes.                                  *)

\* The bytes of a varint; a negative int32 is written as 64 bits.
VarintSize(n) ==
    IF n < 0 THEN 10 ELSE 1 + Cardinality({k \in {7, 14, 21, 28} : n >= 2^k})

Delimited(n) == VarintSize(n) + n

Sum(s) ==
    LET sum[i \in Nat] == IF i \in DOMAIN s THEN sum[i - 1] + s[i] ELSE 0
    IN  sum[Len(s)]

TokenSizes(bytes, inside) ==
    [i \in DOMAIN bytes |->
        1 + IF bytes[i].tag % 8 = 0 THEN VarintSize(bytes[i].val)
            ELSE Delimited(bytes[i].val + inside[i])]

WireSizeFlat(bytes) == Sum(TokenSizes(bytes, [i \in DOMAIN bytes |-> 0]))
WireSizeHeader(bytes) ==
    Sum(TokenSizes(bytes, [i \in DOMAIN bytes |-> WireSizeFlat(bytes[i].sub)]))
WireSize(bytes) ==
    Sum(TokenSizes(bytes, [i \in DOMAIN bytes |-> WireSizeHeader(bytes[i].sub)]))

Sized(t, m, inside) ==
    LET z == Classes[t].size
        FieldSize(f) ==
            CASE IsMessage(t, f) -> Sum([i \in DOMAIN m.val[f] |-> 1 + Delimited(inside[f][i])])
              [] Kind(t, f) = "string" -> 1 + Delimited(m.val[f])
              [] OTHER -> 1 + VarintSize(m.val[f])
        present(S) == {f \in S : Repeated(t, f) \/ has_(t, m, f)}
        required == IF z.mask \subseteq m.has THEN z.required ELSE present(z.required)
        Total(S) == Sum([f \in Fields(t) |-> IF f \in S THEN FieldSize(f) ELSE 0])
    IN  Total(required) + Total(present(z.rest)) + WireSize(m.unknown)

ByteSizeFlat(t, m) == Sized(t, m, NULL)
ByteSizeHeader(t, m) == Sized(t, m, Inside(t, m, ByteSizeFlat))
ByteSize(t, m) == Sized(t, m, Inside(t, m, ByteSizeHeader))

Token(tag, val, sub) == [tag |-> tag, val |-> val, sub |-> sub, cut |-> FALSE]

\* What is written of field f.
Written(t, m, f, inside) ==
    LET kind == Classes[t].write[f]
    IN  IF ~Repeated(t, f) /\ ~has_(t, m, f) THEN <<>>
        ELSE IF kind \in DOMAIN Classes
        THEN [i \in DOMAIN m.val[f] |-> Token(8 * f + 2, 0, inside[f][i])]
        ELSE <<Token(IF kind = "string" THEN 8 * f + 2 ELSE 8 * f, m.val[f], <<>>)>>

Serialized(t, m, inside) ==
    FlattenSeq([f \in DOMAIN Classes[t].write |-> Written(t, m, f, inside)]) \o m.unknown

SerializeFlat(t, m) == Serialized(t, m, NULL)
SerializeHeader(t, m) == Serialized(t, m, Inside(t, m, SerializeFlat))
Serialize(t, m) == Serialized(t, m, Inside(t, m, SerializeHeader))

-----------------------------------------------------------------------------
(* MergePartialFromCodedStream.                                            *)

\* Faulty form of the next definition, used by no specification: a number that
\* the bytes end in is stored all the same.
ReadPrimitive_Unchecked(t, m, f, k) == set_(t, m, f, k.val)

\* ReadPrimitive<>() and the set_has_f() that follows it unless it fails.
ReadPrimitive(t, m, f, k) == IF k.cut THEN m ELSE set_(t, m, f, k.val)

NoLabel == 0

\* The loop between two tokens: the message so far, the label that ExpectTag has
\* found, and whether it goes on.  It stops when it fails, and also, with success,
\* at the end of a group, which is a failure to every caller.
Reading(msg, label, going) == [msg |-> msg, label |-> label, going |-> going]

\* The field whose case reads the token.
FieldAt(label, k) == IF label = NoLabel THEN k.tag \div 8 ELSE label

\* The tag is one that the case of field f accepts; at a label, ExpectTag has read it.
Known(t, f, k, label) ==
    label # NoLabel \/ (f \in Fields(t) /\ k.tag = Classes[t].parse[f].tag)

\* The label that ExpectTag jumps to after field f, read from the i-th token.
Jump(t, f, input, i) ==
    LET to == {e[2] : e \in {e \in Classes[t].parse[f].expect :
                                i < Len(input) /\ e[1] = input[i + 1].tag}}
    IN  IF to = {} THEN NoLabel ELSE CHOOSE g \in to : TRUE

\* handle_unusual: zero and the end of a group end the message.
EndsMessage(k) == k.tag = 0 \/ k.tag % 8 = 4

\* A field that is known.  A message inside and a string are made ready before they
\* are read; a string keeps what there is of it.
ReadField(t, m, f, k, inner) ==
    CASE IsMessage(t, f) -> IF k.cut THEN Ready(t, m, f) ELSE Replaced(t, m, f, inner.msg)
      [] Kind(t, f) = "string" -> set_(t, m, f, k.val)
      [] OTHER -> ReadPrimitive(t, m, f, k)

\* One turn of the loop; inner is what reading a message inside leads to, which must be
\* read to its end.
ReadToken(t, s, input, i, inner) ==
    LET k == input[i]
        f == FieldAt(s.label, k)
    IN  IF ~s.going THEN s
        ELSE IF Known(t, f, k, s.label)
        THEN Reading(ReadField(t, s.msg, f, k, inner), Jump(t, f, input, i),
                     ~k.cut /\ (IsMessage(t, f) => inner.going))
        ELSE IF EndsMessage(k) \/ k.cut THEN Reading(s.msg, NoLabel, FALSE)
        ELSE Reading([s.msg EXCEPT !.unknown = Append(@, k)], NoLabel, TRUE)

\* The same, with the function that reads a message inside.
TurnBy(t, s, input, i, Op(_, _, _)) ==
    LET f == FieldAt(s.label, input[i])
    IN  ReadToken(t, s, input, i, Op(Kind(t, f), Current(t, s.msg, f), input[i].sub))

\* Where the loop gets to.
MergePartialFlat(t, m, input) ==
    LET at[i \in 0..Len(input)] ==
            IF i = 0 THEN Reading(m, NoLabel, TRUE) ELSE ReadToken(t, at[i - 1], input, i, NULL)
    IN  at[Len(input)]

MergePartialHeader(t, m, input) ==
    LET at[i \in 0..Len(input)] ==
            IF i = 0 THEN Reading(m, NoLabel, TRUE)
            ELSE TurnBy(t, at[i - 1], input, i, MergePartialFlat)
    IN  at[Len(input)]

MergePartialFromCodedStream(t, m, input) ==
    LET at[i \in 0..Len(input)] ==
            IF i = 0 THEN Reading(m, NoLabel, TRUE)
            ELSE TurnBy(t, at[i - 1], input, i, MergePartialHeader)
    IN  at[Len(input)]

\* MessageLite::ParseFromArray, of a message just made.  What was read before it
\* failed is kept.
ParseFromArray(t, bytes) ==
    LET Parsed(p) == [ok |-> p.going /\ IsInitialized(t, p.msg), msg |-> p.msg]
    IN  Parsed(MergePartialFromCodedStream(t, New(t), bytes))
=============================================================================
