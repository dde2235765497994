-------------------------- MODULE KitePacketProofs --------------------------
(***************************************************************************)
(* Proofs about the generated message classes and their use by KitePacket. *)
(*                                                                         *)
(* The tables that the functions of a class are built from agree with one  *)
(* another, for each of the ten classes.  From that, whatever calls made   *)
(* it, a message is one of a set, Good: a field that is not set holds its  *)
(* default, and a message inside that is not set is blank.  Of good        *)
(* messages it is then shown that what is not set reads as the default,    *)
(* that a copy reads as the original, that ByteSize counts the bytes that  *)
(* Serialize writes, that what is read of a frame has its types, that the  *)
(* bytes of two messages in a row are read as the two merged, and that     *)
(* what is written is what is read.                                        *)
(***************************************************************************)
EXTENDS KitePacket, ByteBufProofs, FiniteSetTheorems, WellFoundedInduction, TLAPS

-----------------------------------------------------------------------------
(* Induction and recursion.                                                *)

\* Induction on the numbers from 0 to n, with the numbers shown as a set.
LEMMA Induction ==
    ASSUME NEW n \in Nat, NEW T, 0 \in T, \A i \in 1..n : i - 1 \in T => i \in T
    PROVE  \A i \in 0..n : i \in T
  <1> DEFINE B == {i \in 0..n : i \notin T}
  <1>1. SUFFICES ASSUME B # {}
                 PROVE  FALSE
    OBVIOUS
  <1>2. B \subseteq Nat
    OBVIOUS
  <1>3. PICK x \in B : \A y \in B : ~(<<y, x>> \in OpToRel(<, Nat))
    <2> HIDE DEF B
    <2> QED
      BY <1>1, <1>2, WFMin, NatLessThanWellFounded
  <1>4. x \in 1..n /\ x - 1 \in 0..n
    OBVIOUS
  <1>5. x - 1 \notin B
    <2>1. x - 1 \in Nat /\ x \in Nat /\ x - 1 < x
      BY <1>4
    <2>2. <<x - 1, x>> \in OpToRel(<, Nat)
      BY <2>1 DEF OpToRel
    <2> QED
      BY <1>3, <2>2
  <1> QED
    BY <1>4, <1>5

\* The function that starts with x and goes on by D.
Iterates(S, x, D, g) ==
    g \in [Nat -> S] /\ g[0] = x /\ \A i \in Nat \ {0} : g[i] = D[<<i, g[i - 1]>>]

\* A recursive definition on the numbers, with values in a set, defines a function.
LEMMA Recursion ==
    ASSUME NEW S, NEW x \in S, NEW D \in [Nat \X S -> S]
    PROVE  \E g : Iterates(S, x, D, g)
  <1> DEFINE Ok(h, n) == h \in [0..n -> S] /\ h[0] = x /\ \A i \in 1..n : h[i] = D[<<i, h[i - 1]>>]
  <1>1. \A n \in Nat : \E h : Ok(h, n)
    <2> DEFINE T == {n \in Nat : \E h : Ok(h, n)}
    <2>1. 0 \in T
      <3>1. Ok([i \in 0..0 |-> x], 0)
        OBVIOUS
      <3> QED
        BY <3>1
    <2>2. ASSUME NEW n \in Nat, n \in T
          PROVE  n + 1 \in T
      <3>1. PICK h : Ok(h, n)
        BY <2>2
      <3> DEFINE k == [i \in 0..(n + 1) |-> IF i = n + 1 THEN D[<<n + 1, h[n]>>] ELSE h[i]]
      <3>2. h[n] \in S /\ D[<<n + 1, h[n]>>] \in S
        BY <3>1
      <3>3. k \in [0..(n + 1) -> S] /\ k[0] = x
        BY <3>1, <3>2
      <3>4. \A i \in 1..(n + 1) : k[i] = D[<<i, k[i - 1]>>]
        <4>1. TAKE i \in 1..(n + 1)
        <4>2. CASE i = n + 1
          <5>1. k[i - 1] = h[n] /\ k[n + 1] = D[<<n + 1, h[n]>>]
            BY <4>2
          <5> HIDE DEF k
          <5> QED
            BY <4>2, <5>1, Zenon
        <4>3. CASE i # n + 1
          <5>1. i \in 1..n /\ k[i] = h[i] /\ k[i - 1] = h[i - 1]
            BY <4>3
          <5> QED
            BY <5>1, <3>1
        <4> QED
          BY <4>2, <4>3
      <3> HIDE DEF k
      <3> QED
        BY <3>3, <3>4
    <2>3. \A n \in Nat : \A i \in 0..n : i \in T
      <3>1. TAKE n \in Nat
      <3>2. \A i \in 1..n : i - 1 \in T => i \in T
        <4> HIDE DEF T
        <4>1. TAKE i \in 1..n
        <4>2. i - 1 \in Nat /\ (i - 1) + 1 = i
          OBVIOUS
        <4> QED
          BY <2>2, <4>2
      <3> HIDE DEF T
      <3> QED
        BY <2>1, <3>2, Induction
    <2> QED
      <3>1. TAKE n \in Nat
      <3>2. n \in 0..n
        OBVIOUS
      <3>3. n \in T
        BY <2>3, <3>2, Zenon
      <3> QED
        BY <3>3, Zenon
  <1>2. \A n, m \in Nat : \A h, k : n <= m /\ Ok(h, n) /\ Ok(k, m) => h[n] = k[n]
    <2> SUFFICES ASSUME NEW n \in Nat, NEW m \in Nat, NEW h, NEW k, n <= m, Ok(h, n), Ok(k, m)
                 PROVE  h[n] = k[n]
      OBVIOUS
    <2> DEFINE T == {i \in 0..n : h[i] = k[i]}
    <2>1. 0 \in T
      OBVIOUS
    <2>2. ASSUME NEW i \in 1..n, i - 1 \in T
          PROVE  i \in T
      <3>1. i - 1 \in 0..n /\ i \in 0..n /\ i \in 1..m /\ h[i - 1] = k[i - 1]
        BY <2>2
      <3>2. h[i] = D[<<i, h[i - 1]>>] /\ k[i] = D[<<i, k[i - 1]>>]
        BY <3>1, Zenon
      <3> QED
        BY <3>1, <3>2, Zenon
    <2>3. \A i \in 0..n : i \in T
      <3> HIDE DEF T, Ok
      <3> QED
        BY <2>1, <2>2, Induction
    <2> QED
      BY <2>3
  <1> DEFINE H(n) == CHOOSE h : Ok(h, n)
             g == [n \in Nat |-> H(n)[n]]
  <1>3. \A n \in Nat : Ok(H(n), n)
    BY <1>1
  <1>4. g \in [Nat -> S]
    <2>1. \A n \in Nat : H(n)[n] \in S
      <3> HIDE DEF H
      <3> QED
        BY <1>3
    <2> QED
      BY <2>1
  <1>5. g[0] = x
    <2> HIDE DEF H
    <2> QED
      BY <1>3
  <1>6. ASSUME NEW i \in Nat \ {0}
        PROVE  g[i] = D[<<i, g[i - 1]>>]
    <2>1. i - 1 \in Nat /\ i \in Nat /\ i \in 1..i /\ i - 1 <= i
      OBVIOUS
    <2> HIDE DEF H
    <2>2. g[i] = H(i)[i] /\ g[i - 1] = H(i - 1)[i - 1]
      BY <2>1
    <2>3. H(i)[i] = D[<<i, H(i)[i - 1]>>]
      BY <1>3, <2>1
    <2>4. Ok(H(i - 1), i - 1) /\ Ok(H(i), i)
      BY <1>3, <2>1
    <2>5. H(i - 1)[i - 1] = H(i)[i - 1]
      <3> HIDE DEF Ok
      <3> QED
        BY <1>2, <2>1, <2>4
    <2> QED
      BY <2>2, <2>3, <2>5
  <1> HIDE DEF g
  <1> QED
    BY <1>4, <1>5, <1>6 DEF Iterates

-----------------------------------------------------------------------------
(* The tables.                                                             *)

\* The classes with a Header inside, those with no messages inside, and what is inside.
Holders == {"TxACKPacket", "BytesMessage", "StringMessage"}
Flats == {"HeartBeat", "ConnMeta", "ConnAuthAck", "MessageStoreAck", "DeliverAck", "Entry"}
InnerKind(t) == IF t = "Header" THEN "Entry" ELSE "Header"

\* Each field has a bit of its own, a kind, and in the constructor the default it is read as.
FieldsAgree(t) ==
    /\ Fields(t) = 1..Len(Classes[t].field)
    /\ Len(Classes[t].field) \in Nat \ {0}
    /\ \A f \in Fields(t) :
         /\ Bit(t, f) \in Int
         /\ IF IsMessage(t, f)
            THEN /\ t \notin Flats
                 /\ Kind(t, f) = InnerKind(t)
                 /\ Repeated(t, f) <=> t = "Header"
                 /\ Classes[t].ctor[f] = NULL
                 /\ Classes[t].field[f].default = NULL
            ELSE /\ ~Repeated(t, f)
                 /\ Kind(t, f) \in {"string", "bool", "int32", "int64"}
                 /\ Classes[t].ctor[f] \in Int
                 /\ Classes[t].field[f].default = Classes[t].ctor[f]
    /\ \A f, g \in Fields(t) : Bit(t, f) = Bit(t, g) => f = g

\* Clear resets every field to what the constructor gives it, under a mask that has its bit.
ClearAgrees(t) ==
    LET c == Classes[t].clear
    IN  \A f \in Fields(t) :
            IF f \in DOMAIN c.always
            THEN c.always[f] = Classes[t].ctor[f] /\ (IsMessage(t, f) => Repeated(t, f))
            ELSE /\ f \in DOMAIN c.reset
                 /\ c.reset[f] = Classes[t].ctor[f]
                 /\ Bit(t, f) \in c.mask
                 /\ ~Repeated(t, f)

\* MergeFrom looks at every field, under a mask that has its bit, repeated ones apart.
MergeAgrees(t) ==
    LET g == Classes[t].merge
    IN  /\ g.repeated = {f \in Fields(t) : Repeated(t, f)}
        /\ \A x \in g.groups : x[2] \subseteq Fields(t) \ g.repeated
        /\ \A f \in Fields(t) \ g.repeated : \E x \in g.groups : f \in x[2] /\ Bit(t, f) \in x[1]

\* The constructor, InternalSwap, the labels of the parser and Serialize know the same fields.
OthersAgree(t) ==
    /\ DOMAIN Classes[t].ctor = Fields(t)
    /\ Classes[t].ctor = [f \in Fields(t) |-> Classes[t].ctor[f]]
    /\ Classes[t].swap = Fields(t)
    /\ \A f \in Fields(t) : \A e \in Classes[t].parse[f].expect : e[2] \in Fields(t)
    /\ DOMAIN Classes[t].write = Fields(t)
    /\ \A f \in Fields(t) : Classes[t].write[f] = Kind(t, f)

\* ByteSize counts each field once.
SizeAgrees(t) ==
    LET z == Classes[t].size
    IN  /\ z.required \cup z.rest = Fields(t)
        /\ z.required \cap z.rest = {}
        /\ \A f \in z.required : Bit(t, f) \in z.mask

\* The functions of a class agree about its fields.
TablesAgree(t) == FieldsAgree(t) /\ ClearAgrees(t) /\ MergeAgrees(t) /\ OthersAgree(t) /\ SizeAgrees(t)

\* The ten classes of kite_remoting.pb.h.
LEMMA ClassNames == DOMAIN Classes = Flats \cup Holders \cup {"Header"}
    BY DEF Classes, Flats, Holders

\* A class with at most eight fields, none of them repeated.
LEMMA OneGroup ==
    ASSUME NEW t, \A f \in Fields(t) : Bit(t, f) \in 0..7,
           Classes[t].merge.groups = {<<0..7, Fields(t)>>}, Classes[t].merge.repeated = {}
    PROVE  MergeAgrees(t)
  <1> DEFINE g == <<0..7, Fields(t)>>
  <1>1. g \in Classes[t].merge.groups /\ g[1] = 0..7 /\ g[2] = Fields(t)
    OBVIOUS
  <1>2. \A f \in Fields(t) : ~Repeated(t, f)
    BY DEF Repeated, NoBit
  <1>3. \A f \in Fields(t) : f \in g[2] /\ Bit(t, f) \in g[1]
    BY <1>1
  <1>4. \A x \in Classes[t].merge.groups : x[2] = Fields(t)
    BY <1>1
  <1> HIDE DEF g
  <1> QED
    BY <1>1, <1>2, <1>3, <1>4 DEF MergeAgrees

\* The tables of class HeartBeat.
LEMMA HeartBeatAgrees == TablesAgree("HeartBeat")
  <1>1. Classes["HeartBeat"] =
            Class(HeartBeat_accessors, HeartBeat_SharedCtor, HeartBeat_Clear,
                  HeartBeat_MergePartialFromCodedStream, HeartBeat_SerializeWithCachedSizes,
                  HeartBeat_ByteSize, HeartBeat_MergeFrom, HeartBeat_IsInitialized,
                  HeartBeat_InternalSwap)
    BY DEF Classes
  <1>2. FieldsAgree("HeartBeat")
    BY <1>1, ClassNames
    DEF FieldsAgree, InnerKind, Class, Fields, Bit, Kind, IsMessage, Repeated, Flats, Holders,
        NoBit, NULL, Field, HeartBeat_accessors, HeartBeat_SharedCtor
  <1>3. ClearAgrees("HeartBeat")
    BY <1>1, ClassNames
    DEF ClearAgrees, Class, Fields, Bit, Kind, IsMessage, Repeated, Flats, Holders, NoBit, NULL,
        Field, HeartBeat_accessors, HeartBeat_SharedCtor, HeartBeat_Clear, Clearing
  <1>4. MergeAgrees("HeartBeat")
    <2>1. Fields("HeartBeat") = 1..1 /\ \A f \in 1..1 : Bit("HeartBeat", f) \in 0..7
      BY <1>1 DEF Class, Fields, Bit, Field, HeartBeat_accessors
    <2>2. /\ Classes["HeartBeat"].merge.groups = {<<0..7, 1..1>>}
          /\ Classes["HeartBeat"].merge.repeated = {}
      BY <1>1 DEF Class, HeartBeat_MergeFrom, Merging
    <2> QED
      BY <2>1, <2>2, OneGroup, Zenon
  <1>5. OthersAgree("HeartBeat")
    BY <1>1
    DEF OthersAgree, Class, Fields, Bit, Kind, NULL, Field, Case, HeartBeat_accessors,
        HeartBeat_SharedCtor, HeartBeat_InternalSwap, HeartBeat_SerializeWithCachedSizes,
        HeartBeat_MergePartialFromCodedStream
  <1>6. SizeAgrees("HeartBeat")
    BY <1>1 DEF SizeAgrees, Fields, Bit, Field, Class, HeartBeat_accessors, HeartBeat_ByteSize,
                Sizing
  <1> QED
    BY <1>2, <1>3, <1>4, <1>5, <1>6 DEF TablesAgree

\* The tables of class ConnMeta.
LEMMA ConnMetaAgrees == TablesAgree("ConnMeta")
  <1>1. Classes["ConnMeta"] =
            Class(ConnMeta_accessors, ConnMeta_SharedCtor, ConnMeta_Clear,
                  ConnMeta_MergePartialFromCodedStream, ConnMeta_SerializeWithCachedSizes,
                  ConnMeta_ByteSize, ConnMeta_MergeFrom, ConnMeta_IsInitialized,
                  ConnMeta_InternalSwap)
    BY DEF Classes
  <1>2. FieldsAgree("ConnMeta")
    BY <1>1, ClassNames
    DEF FieldsAgree, InnerKind, Class, Fields, Bit, Kind, IsMessage, Repeated, Flats, Holders,
        NoBit, NULL, Field, ConnMeta_accessors, ConnMeta_SharedCtor
  <1>3. ClearAgrees("ConnMeta")
    BY <1>1, ClassNames
    DEF ClearAgrees, Class, Fields, Bit, Kind, IsMessage, Repeated, Flats, Holders, NoBit, NULL,
        Field, ConnMeta_accessors, ConnMeta_SharedCtor, ConnMeta_Clear, Clearing
  <1>4. MergeAgrees("ConnMeta")
    <2>1. Fields("ConnMeta") = 1..3 /\ \A f \in 1..3 : Bit("ConnMeta", f) \in 0..7
      BY <1>1 DEF Class, Fields, Bit, Field, ConnMeta_accessors
    <2>2. /\ Classes["ConnMeta"].merge.groups = {<<0..7, 1..3>>}
          /\ Classes["ConnMeta"].merge.repeated = {}
      BY <1>1 DEF Class, ConnMeta_MergeFrom, Merging
    <2> QED
      BY <2>1, <2>2, OneGroup, Zenon
  <1>5. OthersAgree("ConnMeta")
    BY <1>1
    DEF OthersAgree, Class, Fields, Bit, Kind, NULL, Field, Case, ConnMeta_accessors,
        ConnMeta_SharedCtor, ConnMeta_InternalSwap, ConnMeta_SerializeWithCachedSizes,
        ConnMeta_MergePartialFromCodedStream
  <1>6. SizeAgrees("ConnMeta")
    BY <1>1 DEF SizeAgrees, Fields, Bit, Field, Class, ConnMeta_accessors, ConnMeta_ByteSize, Sizing
  <1> QED
    BY <1>2, <1>3, <1>4, <1>5, <1>6 DEF TablesAgree

\* The tables of class ConnAuthAck.
LEMMA ConnAuthAckAgrees == TablesAgree("ConnAuthAck")
  <1>1. Classes["ConnAuthAck"] =
            Class(ConnAuthAck_accessors, ConnAuthAck_SharedCtor, ConnAuthAck_Clear,
                  ConnAuthAck_MergePartialFromCodedStream, ConnAuthAck_SerializeWithCachedSizes,
                  ConnAuthAck_ByteSize, ConnAuthAck_MergeFrom, ConnAuthAck_IsInitialized,
                  ConnAuthAck_InternalSwap)
    BY DEF Classes
  <1>2. FieldsAgree("ConnAuthAck")
    BY <1>1, ClassNames
    DEF FieldsAgree, InnerKind, Class, Fields, Bit, Kind, IsMessage, Repeated, Flats, Holders,
        NoBit, NULL, Field, ConnAuthAck_accessors, ConnAuthAck_SharedCtor
  <1>3. ClearAgrees("ConnAuthAck")
    BY <1>1, ClassNames
    DEF ClearAgrees, Class, Fields, Bit, Kind, IsMessage, Repeated, Flats, Holders, NoBit, NULL,
        Field, ConnAuthAck_accessors, ConnAuthAck_SharedCtor, ConnAuthAck_Clear, Clearing
  <1>4. MergeAgrees("ConnAuthAck")
    <2>1. Fields("ConnAuthAck") = 1..2 /\ \A f \in 1..2 : Bit("ConnAuthAck", f) \in 0..7
      BY <1>1 DEF Class, Fields, Bit, Field, ConnAuthAck_accessors
    <2>2. /\ Classes["ConnAuthAck"].merge.groups = {<<0..7, 1..2>>}
          /\ Classes["ConnAuthAck"].merge.repeated = {}
      BY <1>1 DEF Class, ConnAuthAck_MergeFrom, Merging
    <2> QED
      BY <2>1, <2>2, OneGroup, Zenon
  <1>5. OthersAgree("ConnAuthAck")
    BY <1>1
    DEF OthersAgree, Class, Fields, Bit, Kind, NULL, Field, Case, ConnAuthAck_accessors,
        ConnAuthAck_SharedCtor, ConnAuthAck_InternalSwap, ConnAuthAck_SerializeWithCachedSizes,
        ConnAuthAck_MergePartialFromCodedStream
  <1>6. SizeAgrees("ConnAuthAck")
    BY <1>1 DEF SizeAgrees, Fields, Bit, Field, Class, ConnAuthAck_accessors, ConnAuthAck_ByteSize,
                Sizing
  <1> QED
    BY <1>2, <1>3, <1>4, <1>5, <1>6 DEF TablesAgree

\* The tables of class MessageStoreAck.
LEMMA MessageStoreAckAgrees == TablesAgree("MessageStoreAck")
  <1>1. Classes["MessageStoreAck"] =
            Class(MessageStoreAck_accessors, MessageStoreAck_SharedCtor, MessageStoreAck_Clear,
                  MessageStoreAck_MergePartialFromCodedStream, MessageStoreAck_SerializeWithCachedSizes,
                  MessageStoreAck_ByteSize, MessageStoreAck_MergeFrom, MessageStoreAck_IsInitialized,
                  MessageStoreAck_InternalSwap)
    BY DEF Classes
  <1>2. FieldsAgree("MessageStoreAck")
    BY <1>1, ClassNames
    DEF FieldsAgree, InnerKind, Class, Fields, Bit, Kind, IsMessage, Repeated, Flats, Holders,
        NoBit, NULL, Field, MessageStoreAck_accessors, MessageStoreAck_SharedCtor
  <1>3. ClearAgrees("MessageStoreAck")
    BY <1>1, ClassNames
    DEF ClearAgrees, Class, Fields, Bit, Kind, IsMessage, Repeated, Flats, Holders, NoBit, NULL,
        Field, MessageStoreAck_accessors, MessageStoreAck_SharedCtor, MessageStoreAck_Clear,
        Clearing
  <1>4. MergeAgrees("MessageStoreAck")
    <2>1. Fields("MessageStoreAck") = 1..3 /\ \A f \in 1..3 : Bit("MessageStoreAck", f) \in 0..7
      BY <1>1 DEF Class, Fields, Bit, Field, MessageStoreAck_accessors
    <2>2. /\ Classes["MessageStoreAck"].merge.groups = {<<0..7, 1..3>>}
          /\ Classes["MessageStoreAck"].merge.repeated = {}
      BY <1>1 DEF Class, MessageStoreAck_MergeFrom, Merging
    <2> QED
      BY <2>1, <2>2, OneGroup, Zenon
  <1>5. OthersAgree("MessageStoreAck")
    BY <1>1
    DEF OthersAgree, Class, Fields, Bit, Kind, NULL, Field, Case, MessageStoreAck_accessors,
        MessageStoreAck_SharedCtor, MessageStoreAck_InternalSwap,
        MessageStoreAck_SerializeWithCachedSizes, MessageStoreAck_MergePartialFromCodedStream
  <1>6. SizeAgrees("MessageStoreAck")
    BY <1>1 DEF SizeAgrees, Fields, Bit, Field, Class, MessageStoreAck_accessors,
                MessageStoreAck_ByteSize, Sizing
  <1> QED
    BY <1>2, <1>3, <1>4, <1>5, <1>6 DEF TablesAgree

\* The tables of class DeliverAck.
LEMMA DeliverAckAgrees == TablesAgree("DeliverAck")
  <1>1. Classes["DeliverAck"] =
            Class(DeliverAck_accessors, DeliverAck_SharedCtor, DeliverAck_Clear,
                  DeliverAck_MergePartialFromCodedStream, DeliverAck_SerializeWithCachedSizes,
                  DeliverAck_ByteSize, DeliverAck_MergeFrom, DeliverAck_IsInitialized,
                  DeliverAck_InternalSwap)
    BY DEF Classes
  <1>2. FieldsAgree("DeliverAck")
    BY <1>1, ClassNames
    DEF FieldsAgree, InnerKind, Class, Fields, Bit, Kind, IsMessage, Repeated, Flats, Holders,
        NoBit, NULL, Field, DeliverAck_accessors, DeliverAck_SharedCtor
  <1>3. ClearAgrees("DeliverAck")
    BY <1>1, ClassNames
    DEF ClearAgrees, Class, Fields, Bit, Kind, IsMessage, Repeated, Flats, Holders, NoBit, NULL,
        Field, DeliverAck_accessors, DeliverAck_SharedCtor, DeliverAck_Clear, Clearing
  <1>4. MergeAgrees("DeliverAck")
    <2>1. Fields("DeliverAck") = 1..6 /\ \A f \in 1..6 : Bit("DeliverAck", f) \in 0..7
      BY <1>1 DEF Class, Fields, Bit, Field, DeliverAck_accessors
    <2>2. /\ Classes["DeliverAck"].merge.groups = {<<0..7, 1..6>>}
          /\ Classes["DeliverAck"].merge.repeated = {}
      BY <1>1 DEF Class, DeliverAck_MergeFrom, Merging
    <2> QED
      BY <2>1, <2>2, OneGroup, Zenon
  <1>5. OthersAgree("DeliverAck")
    BY <1>1
    DEF OthersAgree, Class, Fields, Bit, Kind, NULL, Field, Case, DeliverAck_accessors,
        DeliverAck_SharedCtor, DeliverAck_InternalSwap, DeliverAck_SerializeWithCachedSizes,
        DeliverAck_MergePartialFromCodedStream
  <1>6. SizeAgrees("DeliverAck")
    BY <1>1 DEF SizeAgrees, Fields, Bit, Field, Class, DeliverAck_accessors, DeliverAck_ByteSize,
                Sizing
  <1> QED
    BY <1>2, <1>3, <1>4, <1>5, <1>6 DEF TablesAgree

\* The tables of class TxACKPacket.
LEMMA TxACKPacketAgrees == TablesAgree("TxACKPacket")
  <1>1. Classes["TxACKPacket"] =
            Class(TxACKPacket_accessors, TxACKPacket_SharedCtor, TxACKPacket_Clear,
                  TxACKPacket_MergePartialFromCodedStream, TxACKPacket_SerializeWithCachedSizes,
                  TxACKPacket_ByteSize, TxACKPacket_MergeFrom, TxACKPacket_IsInitialized,
                  TxACKPacket_InternalSwap)
    BY DEF Classes
  <1>2. FieldsAgree("TxACKPacket")
    BY <1>1, ClassNames
    DEF FieldsAgree, InnerKind, Class, Fields, Bit, Kind, IsMessage, Repeated, Flats, Holders,
        NoBit, NULL, Field, TxACKPacket_accessors, TxACKPacket_SharedCtor
  <1>3. ClearAgrees("TxACKPacket")
    BY <1>1, ClassNames
    DEF ClearAgrees, Class, Fields, Bit, Kind, IsMessage, Repeated, Flats, Holders, NoBit, NULL,
        Field, TxACKPacket_accessors, TxACKPacket_SharedCtor, TxACKPacket_Clear, Clearing
  <1>4. MergeAgrees("TxACKPacket")
    <2>1. Fields("TxACKPacket") = 1..3 /\ \A f \in 1..3 : Bit("TxACKPacket", f) \in 0..7
      BY <1>1 DEF Class, Fields, Bit, Field, TxACKPacket_accessors
    <2>2. /\ Classes["TxACKPacket"].merge.groups = {<<0..7, 1..3>>}
          /\ Classes["TxACKPacket"].merge.repeated = {}
      BY <1>1 DEF Class, TxACKPacket_MergeFrom, Merging
    <2> QED
      BY <2>1, <2>2, OneGroup, Zenon
  <1>5. OthersAgree("TxACKPacket")
    BY <1>1
    DEF OthersAgree, Class, Fields, Bit, Kind, NULL, Field, Case, TxACKPacket_accessors,
        TxACKPacket_SharedCtor, TxACKPacket_InternalSwap, TxACKPacket_SerializeWithCachedSizes,
        TxACKPacket_MergePartialFromCodedStream
  <1>6. SizeAgrees("TxACKPacket")
    BY <1>1 DEF SizeAgrees, Fields, Bit, Field, Class, TxACKPacket_accessors, TxACKPacket_ByteSize,
                Sizing
  <1> QED
    BY <1>2, <1>3, <1>4, <1>5, <1>6 DEF TablesAgree

\* The tables of class Entry.
LEMMA EntryAgrees == TablesAgree("Entry")
  <1>1. Classes["Entry"] =
            Class(Entry_accessors, Entry_SharedCtor, Entry_Clear,
                  Entry_MergePartialFromCodedStream, Entry_SerializeWithCachedSizes,
                  Entry_ByteSize, Entry_MergeFrom, Entry_IsInitialized,
                  Entry_InternalSwap)
    BY DEF Classes
  <1>2. FieldsAgree("Entry")
    BY <1>1, ClassNames
    DEF FieldsAgree, InnerKind, Class, Fields, Bit, Kind, IsMessage, Repeated, Flats, Holders,
        NoBit, NULL, Field, Entry_accessors, Entry_SharedCtor
  <1>3. ClearAgrees("Entry")
    BY <1>1, ClassNames
    DEF ClearAgrees, Class, Fields, Bit, Kind, IsMessage, Repeated, Flats, Holders, NoBit, NULL,
        Field, Entry_accessors, Entry_SharedCtor, Entry_Clear, Clearing
  <1>4. MergeAgrees("Entry")
    <2>1. Fields("Entry") = 1..2 /\ \A f \in 1..2 : Bit("Entry", f) \in 0..7
      BY <1>1 DEF Class, Fields, Bit, Field, Entry_accessors
    <2>2. /\ Classes["Entry"].merge.groups = {<<0..7, 1..2>>}
          /\ Classes["Entry"].merge.repeated = {}
      BY <1>1 DEF Class, Entry_MergeFrom, Merging
    <2> QED
      BY <2>1, <2>2, OneGroup, Zenon
  <1>5. OthersAgree("Entry")
    BY <1>1
    DEF OthersAgree, Class, Fields, Bit, Kind, NULL, Field, Case, Entry_accessors, Entry_SharedCtor,
        Entry_InternalSwap, Entry_SerializeWithCachedSizes, Entry_MergePartialFromCodedStream
  <1>6. SizeAgrees("Entry")
    BY <1>1 DEF SizeAgrees, Fields, Bit, Field, Class, Entry_accessors, Entry_ByteSize, Sizing
  <1> QED
    BY <1>2, <1>3, <1>4, <1>5, <1>6 DEF TablesAgree

\* The tables of class BytesMessage.
LEMMA BytesMessageAgrees == TablesAgree("BytesMessage")
  <1>1. Classes["BytesMessage"] =
            Class(BytesMessage_accessors, BytesMessage_SharedCtor, BytesMessage_Clear,
                  BytesMessage_MergePartialFromCodedStream, BytesMessage_SerializeWithCachedSizes,
                  BytesMessage_ByteSize, BytesMessage_MergeFrom, BytesMessage_IsInitialized,
                  BytesMessage_InternalSwap)
    BY DEF Classes
  <1>2. FieldsAgree("BytesMessage")
    BY <1>1, ClassNames
    DEF FieldsAgree, InnerKind, Class, Fields, Bit, Kind, IsMessage, Repeated, Flats, Holders,
        NoBit, NULL, Field, BytesMessage_accessors, BytesMessage_SharedCtor
  <1>3. ClearAgrees("BytesMessage")
    BY <1>1, ClassNames
    DEF ClearAgrees, Class, Fields, Bit, Kind, IsMessage, Repeated, Flats, Holders, NoBit, NULL,
        Field, BytesMessage_accessors, BytesMessage_SharedCtor, BytesMessage_Clear, Clearing
  <1>4. MergeAgrees("BytesMessage")
    <2>1. Fields("BytesMessage") = 1..2 /\ \A f \in 1..2 : Bit("BytesMessage", f) \in 0..7
      BY <1>1 DEF Class, Fields, Bit, Field, BytesMessage_accessors
    <2>2. /\ Classes["BytesMessage"].merge.groups = {<<0..7, 1..2>>}
          /\ Classes["BytesMessage"].merge.repeated = {}
      BY <1>1 DEF Class, BytesMessage_MergeFrom, Merging
    <2> QED
      BY <2>1, <2>2, OneGroup, Zenon
  <1>5. OthersAgree("BytesMessage")
    BY <1>1
    DEF OthersAgree, Class, Fields, Bit, Kind, NULL, Field, Case, BytesMessage_accessors,
        BytesMessage_SharedCtor, BytesMessage_InternalSwap, BytesMessage_SerializeWithCachedSizes,
        BytesMessage_MergePartialFromCodedStream
  <1>6. SizeAgrees("BytesMessage")
    BY <1>1 DEF SizeAgrees, Fields, Bit, Field, Class, BytesMessage_accessors,
                BytesMessage_ByteSize, Sizing
  <1> QED
    BY <1>2, <1>3, <1>4, <1>5, <1>6 DEF TablesAgree

\* The tables of class StringMessage.
LEMMA StringMessageAgrees == TablesAgree("StringMessage")
  <1>1. Classes["StringMessage"] =
            Class(StringMessage_accessors, StringMessage_SharedCtor, StringMessage_Clear,
                  StringMessage_MergePartialFromCodedStream, StringMessage_SerializeWithCachedSizes,
                  StringMessage_ByteSize, StringMessage_MergeFrom, StringMessage_IsInitialized,
                  StringMessage_InternalSwap)
    BY DEF Classes
  <1>2. FieldsAgree("StringMessage")
    BY <1>1, ClassNames
    DEF FieldsAgree, InnerKind, Class, Fields, Bit, Kind, IsMessage, Repeated, Flats, Holders,
        NoBit, NULL, Field, StringMessage_accessors, StringMessage_SharedCtor
  <1>3. ClearAgrees("StringMessage")
    BY <1>1, ClassNames
    DEF ClearAgrees, Class, Fields, Bit, Kind, IsMessage, Repeated, Flats, Holders, NoBit, NULL,
        Field, StringMessage_accessors, StringMessage_SharedCtor, StringMessage_Clear, Clearing
  <1>4. MergeAgrees("StringMessage")
    <2>1. Fields("StringMessage") = 1..2 /\ \A f \in 1..2 : Bit("StringMessage", f) \in 0..7
      BY <1>1 DEF Class, Fields, Bit, Field, StringMessage_accessors
    <2>2. /\ Classes["StringMessage"].merge.groups = {<<0..7, 1..2>>}
          /\ Classes["StringMessage"].merge.repeated = {}
      BY <1>1 DEF Class, StringMessage_MergeFrom, Merging
    <2> QED
      BY <2>1, <2>2, OneGroup, Zenon
  <1>5. OthersAgree("StringMessage")
    BY <1>1
    DEF OthersAgree, Class, Fields, Bit, Kind, NULL, Field, Case, StringMessage_accessors,
        StringMessage_SharedCtor, StringMessage_InternalSwap,
        StringMessage_SerializeWithCachedSizes, StringMessage_MergePartialFromCodedStream
  <1>6. SizeAgrees("StringMessage")
    BY <1>1 DEF SizeAgrees, Fields, Bit, Field, Class, StringMessage_accessors,
                StringMessage_ByteSize, Sizing
  <1> QED
    BY <1>2, <1>3, <1>4, <1>5, <1>6 DEF TablesAgree

\* The tables of class Header.
LEMMA HeaderAgrees == TablesAgree("Header")
  <1>1. Classes["Header"] =
            Class(Header_accessors, Header_SharedCtor, Header_Clear,
                  Header_MergePartialFromCodedStream, Header_SerializeWithCachedSizes,
                  Header_ByteSize, Header_MergeFrom, Header_IsInitialized,
                  Header_InternalSwap)
    BY DEF Classes
  <1>2. /\ Fields("Header") = 1..10
        /\ \A f \in 1..10 : Bit("Header", f) = IF f = 9 THEN NoBit ELSE f - 1
    BY <1>1 DEF Class, Fields, Bit, Field, Header_accessors, NoBit
  <1>3. \A f \in 1..10 : Repeated("Header", f) <=> f = 9
    BY <1>2 DEF Repeated, NoBit
  <1>4. FieldsAgree("Header")
    <2>1. \A f, g \in 1..10 : Bit("Header", f) = Bit("Header", g) => f = g
      BY <1>2 DEF NoBit
    <2>2. \A f \in 1..10 :
            /\ f # 9 => /\ Kind("Header", f) \in {"string", "bool", "int32", "int64"}
                        /\ Classes["Header"].ctor[f] \in Int
            /\ Classes["Header"].field[f].default = Classes["Header"].ctor[f]
      BY <1>1 DEF Class, Kind, Field, Header_accessors, Header_SharedCtor, NULL
    <2>3. /\ Kind("Header", 9) = "Entry" /\ Classes["Header"].ctor[9] = NULL
          /\ Len(Classes["Header"].field) = 10
      BY <1>1 DEF Class, Kind, Field, Header_accessors, Header_SharedCtor
    <2>4. \A f \in 1..10 : IsMessage("Header", f) <=> f = 9
      BY <2>2, <2>3, ClassNames DEF IsMessage, Flats, Holders
    <2> QED
      BY <1>2, <1>3, <2>1, <2>2, <2>3, <2>4 DEF FieldsAgree, Flats, NoBit, InnerKind
  <1>5. ClearAgrees("Header")
    BY <1>1, ClassNames
    DEF ClearAgrees, Class, Fields, Bit, Kind, IsMessage, Repeated, Flats, Holders, NoBit, NULL,
        Field, Header_accessors, Header_SharedCtor, Header_Clear, Clearing
  <1>6. MergeAgrees("Header")
    <2> DEFINE g == <<0..7, 1..8>>
               h == <<9..16, {10}>>
               G == Classes["Header"].merge
    <2>1. G.repeated = {9} /\ G.groups = {g, h}
      BY <1>1 DEF Class, Header_MergeFrom, Merging
    <2>2. g[1] = 0..7 /\ g[2] = 1..8 /\ h[1] = 9..16 /\ h[2] = {10}
      OBVIOUS
    <2> HIDE DEF g, h, G
    <2>3. \A f \in (1..10) \ {9} : \E x \in G.groups : f \in x[2] /\ Bit("Header", f) \in x[1]
      BY <1>2, <2>1, <2>2
    <2>4. \A x \in G.groups : x[2] \subseteq (1..10) \ {9}
      BY <2>1, <2>2
    <2>5. {9} = {f \in 1..10 : Repeated("Header", f)}
      BY <1>3
    <2> QED
      BY <1>2, <2>1, <2>3, <2>4, <2>5 DEF MergeAgrees, G
  <1>7. OthersAgree("Header")
    <2>1. /\ Classes["Header"].ctor = [f \in 1..10 |-> Classes["Header"].ctor[f]]
          /\ DOMAIN Classes["Header"].ctor = 1..10
      BY <1>1 DEF Class, Header_SharedCtor
    <2>2. \A f \in 1..10 : \A e \in Classes["Header"].parse[f].expect : e[2] \in 1..10
      BY <1>1 DEF Class, Header_MergePartialFromCodedStream, Case
    <2>3. /\ DOMAIN Classes["Header"].write = 1..10
          /\ \A f \in 1..10 : Classes["Header"].write[f] = Kind("Header", f)
      BY <1>1 DEF Class, Kind, Header_accessors, Header_SerializeWithCachedSizes, Field
    <2>4. Classes["Header"].swap = 1..10
      BY <1>1 DEF Class, Header_InternalSwap
    <2> QED
      BY <1>2, <2>1, <2>2, <2>3, <2>4 DEF OthersAgree
  <1>8. SizeAgrees("Header")
    BY <1>1 DEF SizeAgrees, Fields, Bit, Field, Class, Header_accessors, Header_ByteSize, Sizing,
                NoBit
  <1> QED
    BY <1>4, <1>5, <1>6, <1>7, <1>8 DEF TablesAgree

\* kite_remoting.pb.cc: the functions of each of the ten classes, which repeat the
\* bits, masks, defaults and labels of the fields, agree about them.
THEOREM ClassesAgree == \A t \in DOMAIN Classes : TablesAgree(t)
  BY ClassNames, HeartBeatAgrees, ConnMetaAgrees, ConnAuthAckAgrees, MessageStoreAckAgrees,
     DeliverAckAgrees, TxACKPacketAgrees, EntryAgrees, HeaderAgrees, BytesMessageAgrees,
     StringMessageAgrees DEF Flats, Holders

-----------------------------------------------------------------------------
(* The messages there can be.                                              *)

\* The bits of _has_bits_ that a class uses.
Bits(t) == {Bit(t, f) : f \in Fields(t)}

\* No field is set and no repeated one has messages.
Blank(t, m) == m.has = {} /\ \A f \in Fields(t) : Repeated(t, f) => m.val[f] = NULL

\* A member may hold x while the bits set are h: a message that is set is there, one
\* that is not is blank, and any other field that is not set holds its default.
MayHold(t, h, f, x, G) ==
    IF IsMessage(t, f)
    THEN /\ x \in Seq(G)
         /\ ~Repeated(t, f) =>
                /\ Len(x) <= 1
                /\ Bit(t, f) \in h => Len(x) = 1
                /\ Bit(t, f) \notin h => \A i \in DOMAIN x : Blank(Kind(t, f), x[i])
    ELSE x \in Int /\ (Bit(t, f) \in h \/ x = Classes[t].ctor[f])

\* The messages of class t whose messages inside are in G and unknown fields in W.
MessageSet(t, G, W) ==
    {m \in [has : SUBSET Bits(t), val : [Fields(t) -> Int \cup Seq(G)], unknown : Seq(W)] :
        \A f \in Fields(t) : MayHold(t, m.has, f, m.val[f], G)}

\* The messages with tokens of W unknown to them, level by level.
Entries(W) == MessageSet("Entry", {}, W)
HeaderMessages(W) == MessageSet("Header", Entries(W), W)
InnerSet(t, W) ==
    IF t = "Header" THEN Entries(W) ELSE IF t \in Holders THEN HeaderMessages(W) ELSE {}
Good(t, W) == MessageSet(t, InnerSet(t, W), W)

\* A function that is [i \in 1..n |-> ...] is a sequence.
LEMMA IsSequence ==
    ASSUME NEW s, NEW n \in Nat, NEW G, s = [i \in 1..n |-> s[i]], \A i \in 1..n : s[i] \in G
    PROVE  s \in Seq(G) /\ Len(s) = n /\ DOMAIN s = 1..n
  <1>1. s \in [1..n -> G]
    OBVIOUS
  <1> QED
    BY <1>1

\* What makes a message one of MessageSet.
LEMMA Build ==
    ASSUME NEW t, NEW W, NEW G, NEW h \in SUBSET Bits(t), NEW v, NEW u \in Seq(W),
           v = [f \in Fields(t) |-> v[f]],
           \A f \in Fields(t) : MayHold(t, h, f, v[f], G)
    PROVE  [has |-> h, val |-> v, unknown |-> u] \in MessageSet(t, G, W)
  <1>1. \A f \in Fields(t) : v[f] \in Int \cup Seq(G)
    BY DEF MayHold
  <1>2. v \in [Fields(t) -> Int \cup Seq(G)]
    BY <1>1
  <1> QED
    BY <1>2 DEF MessageSet

\* A message of MessageSet, by its members.
LEMMA Parts ==
    ASSUME NEW t, NEW W, NEW G, NEW m \in MessageSet(t, G, W)
    PROVE  /\ m = [has |-> m.has, val |-> m.val, unknown |-> m.unknown]
           /\ m.has \in SUBSET Bits(t)
           /\ m.val = [f \in Fields(t) |-> m.val[f]]
           /\ DOMAIN m.val = Fields(t)
           /\ m.unknown \in Seq(W)
           /\ \A f \in Fields(t) : MayHold(t, m.has, f, m.val[f], G)
  BY DEF MessageSet

\* One member is assigned to, and only the bit of that member may change.
LEMMA Assigned ==
    ASSUME NEW t, NEW W, NEW G, NEW m \in MessageSet(t, G, W), NEW f \in Fields(t), NEW x,
           NEW h \in SUBSET Bits(t),
           \A g \in Fields(t) \ {f} : Bit(t, g) \in h <=> Bit(t, g) \in m.has,
           MayHold(t, h, f, x, G)
    PROVE  /\ Assign(m, h, f, x) \in MessageSet(t, G, W)
           /\ Assign(m, h, f, x).has = h
           /\ Assign(m, h, f, x).val[f] = x
           /\ Assign(m, h, f, x).unknown = m.unknown
  <1> DEFINE v == [m.val EXCEPT ![f] = x]
  <1>1. v = [g \in Fields(t) |-> v[g]] /\ v[f] = x /\ \A g \in Fields(t) \ {f} : v[g] = m.val[g]
    BY Parts
  <1>2. \A g \in Fields(t) \ {f} : MayHold(t, h, g, m.val[g], G)
    <2>1. TAKE g \in Fields(t) \ {f}
    <2>2. MayHold(t, m.has, g, m.val[g], G) /\ (Bit(t, g) \in h <=> Bit(t, g) \in m.has)
      BY Parts
    <2> QED
      BY <2>2, Zenon DEF MayHold
  <1> HIDE DEF v
  <1>3. \A g \in Fields(t) : MayHold(t, h, g, v[g], G)
    BY <1>1, <1>2
  <1> QED
    BY <1>1, <1>3, Build, Parts DEF v, Assign

\* The messages inside are messages of their class.
LEMMA InnerIsGood ==
    ASSUME NEW t \in DOMAIN Classes, NEW W, NEW f \in Fields(t), IsMessage(t, f)
    PROVE  /\ InnerSet(t, W) = Good(Kind(t, f), W)
           /\ Kind(t, f) \in DOMAIN Classes
           /\ t = "Header" => Kind(t, f) = "Entry" /\ Repeated(t, f)
           /\ t # "Header" => t \in Holders /\ Kind(t, f) = "Header" /\ ~Repeated(t, f)
  <1>1. t \notin Flats /\ Kind(t, f) = InnerKind(t) /\ (Repeated(t, f) <=> t = "Header")
    BY ClassesAgree DEF TablesAgree, FieldsAgree
  <1>2. t = "Header" \/ (t \in Holders /\ t # "Header")
    BY <1>1, ClassNames DEF Holders, Flats
  <1>3. Good("Entry", W) = Entries(W) /\ Good("Header", W) = HeaderMessages(W)
    BY DEF Good, Entries, HeaderMessages, InnerSet, Holders
  <1> QED
    BY <1>1, <1>2, <1>3, ClassNames DEF InnerSet, InnerKind, Flats

\* SharedCtor: a message that is made is good and blank.
LEMMA NewIsGood ==
    ASSUME NEW t \in DOMAIN Classes, NEW W
    PROVE  New(t) \in Good(t, W) /\ Blank(t, New(t))
  <1>1. TablesAgree(t)
    BY ClassesAgree
  <1>2. ASSUME NEW f \in Fields(t)
        PROVE  MayHold(t, {}, f, Classes[t].ctor[f], InnerSet(t, W))
    <2>1. CASE IsMessage(t, f)
      <3>1. Classes[t].ctor[f] = <<>>
        BY <1>1, <2>1 DEF TablesAgree, FieldsAgree, NULL
      <3> QED
        BY <2>1, <3>1 DEF MayHold
    <2>2. CASE ~IsMessage(t, f)
      BY <1>1, <2>2 DEF TablesAgree, FieldsAgree, MayHold
    <2> QED
      BY <2>1, <2>2
  <1>3. Classes[t].ctor = [f \in Fields(t) |-> Classes[t].ctor[f]] /\ <<>> \in Seq(W)
    BY <1>1 DEF TablesAgree, OthersAgree
  <1>4. \A f \in Fields(t) : Repeated(t, f) => Classes[t].ctor[f] = NULL
    BY <1>1 DEF TablesAgree, FieldsAgree
  <1>5. {} \in SUBSET Bits(t)
    OBVIOUS
  <1>6. New(t) \in Good(t, W)
    BY <1>2, <1>3, <1>5, Build DEF New, Good
  <1> QED
    BY <1>4, <1>6 DEF New, Blank

-----------------------------------------------------------------------------
(* Clear.                                                                  *)

\* What Clear is given for a message inside that is not repeated.
ClearedInside(t, m, inside, W) ==
    \A f \in Messages(t) : ~Repeated(t, f) =>
        /\ inside[f] \in Seq(InnerSet(t, W))
        /\ Len(inside[f]) = Len(m.val[f])
        /\ \A i \in DOMAIN inside[f] : Blank(Kind(t, f), inside[f][i])

\* Clear, if what it does inside clears the messages there: the message is blank after it.
LEMMA ClearedIsGood ==
    ASSUME NEW t \in DOMAIN Classes, NEW W, NEW m \in Good(t, W), NEW inside,
           ClearedInside(t, m, inside, W)
    PROVE  Cleared(t, m, inside) \in Good(t, W) /\ Blank(t, Cleared(t, m, inside))
  <1> DEFINE n == Cleared(t, m, inside)
             G == InnerSet(t, W)
             c == Classes[t].clear
             v == [f \in Fields(t) |->
                    IF f \in DOMAIN c.always THEN c.always[f]
                    ELSE IF f \in DOMAIN c.reset /\ c.mask \cap m.has # {}
                    THEN CASE IsMessage(t, f) -> IF has_(t, m, f) THEN inside[f] ELSE m.val[f]
                           [] Kind(t, f) = "string" ->
                                IF has_(t, m, f) THEN c.reset[f] ELSE m.val[f]
                           [] OTHER -> c.reset[f]
                    ELSE m.val[f]]
  <1>1. n = [has |-> {}, val |-> v, unknown |-> <<>>]
    BY DEF Cleared
  <1>2. TablesAgree(t)
    BY ClassesAgree
  <1>3. \A f \in Fields(t) : MayHold(t, m.has, f, m.val[f], G)
    BY Parts DEF Good
  <1>4. ASSUME NEW f \in Fields(t), f \in DOMAIN c.always
        PROVE  /\ v[f] = Classes[t].ctor[f]
               /\ IsMessage(t, f) => Repeated(t, f) /\ Classes[t].ctor[f] = NULL
               /\ ~IsMessage(t, f) => Classes[t].ctor[f] \in Int /\ ~Repeated(t, f)
    BY <1>2, <1>4 DEF TablesAgree, ClearAgrees, FieldsAgree
  <1>5. ASSUME NEW f \in Fields(t), f \notin DOMAIN c.always
        PROVE  /\ f \in DOMAIN c.reset /\ c.reset[f] = Classes[t].ctor[f] /\ ~Repeated(t, f)
               /\ has_(t, m, f) => c.mask \cap m.has # {}
    BY <1>2, <1>5 DEF TablesAgree, ClearAgrees, has_
  <1>6. ASSUME NEW f \in Fields(t), f \notin DOMAIN c.always, ~IsMessage(t, f)
        PROVE  v[f] = Classes[t].ctor[f] /\ Classes[t].ctor[f] \in Int
    <2>1. has_(t, m, f) \/ m.val[f] = Classes[t].ctor[f]
      BY <1>3, <1>6 DEF MayHold, has_
    <2>2. Classes[t].ctor[f] \in Int
      BY <1>2, <1>6 DEF TablesAgree, FieldsAgree
    <2> QED
      BY <1>5, <1>6, <2>1, <2>2
  <1>7. ASSUME NEW f \in Fields(t), f \notin DOMAIN c.always, IsMessage(t, f)
        PROVE  /\ v[f] \in Seq(G) /\ Len(v[f]) <= 1 /\ ~Repeated(t, f)
               /\ \A i \in DOMAIN v[f] : Blank(Kind(t, f), v[f][i])
    <2>1. ~Repeated(t, f) /\ f \in Messages(t)
      BY <1>5, <1>7 DEF Messages
    <2>2. CASE has_(t, m, f)
      <3>0. f \in DOMAIN c.reset /\ c.mask \cap m.has # {} /\ Kind(t, f) # "string"
        <4>1. f \in DOMAIN c.reset /\ c.mask \cap m.has # {}
          BY <1>5, <1>7, <2>2
        <4>2. Kind(t, f) # "string"
          BY <1>7, ClassNames DEF IsMessage, Flats, Holders
        <4> QED
          BY <4>1, <4>2
      <3>1. v[f] = inside[f]
        BY <1>7, <2>2, <3>0
      <3>2. Len(m.val[f]) <= 1
        BY <1>3, <1>7, <2>1 DEF MayHold
      <3> HIDE DEF v
      <3> QED
        BY <2>1, <3>1, <3>2 DEF ClearedInside
    <2>3. CASE ~has_(t, m, f)
      <3>1. v[f] = m.val[f]
        BY <1>7, <2>3
      <3> HIDE DEF v
      <3> QED
        BY <1>3, <1>7, <2>1, <2>3, <3>1 DEF MayHold, has_
    <2> QED
      BY <2>2, <2>3
  <1>8. v = [f \in Fields(t) |-> v[f]]
    OBVIOUS
  <1> HIDE DEF v, c, G
  <1>9. ASSUME NEW f \in Fields(t)
        PROVE  MayHold(t, {}, f, v[f], G)
    <2>1. CASE f \in DOMAIN c.always /\ IsMessage(t, f)
      <3>1. v[f] = <<>> /\ Repeated(t, f)
        BY <1>4, <2>1 DEF NULL
      <3> QED
        BY <2>1, <3>1 DEF MayHold
    <2>2. CASE f \in DOMAIN c.always /\ ~IsMessage(t, f)
      BY <1>4, <2>2 DEF MayHold
    <2>3. CASE f \notin DOMAIN c.always
      BY <1>6, <1>7, <2>3 DEF MayHold
    <2> QED
      BY <2>1, <2>2, <2>3
  <1>10. {} \in SUBSET Bits(t) /\ <<>> \in Seq(W)
    OBVIOUS
  <1>11. n \in Good(t, W)
    BY <1>1, <1>8, <1>9, <1>10, Build DEF Good, G
  <1>12. \A f \in Fields(t) : Repeated(t, f) => v[f] = NULL
    BY <1>4, <1>5
  <1>13. n.has = {} /\ n.val = v
    BY <1>1
  <1> QED
    BY <1>11, <1>12, <1>13 DEF Blank

\* Clear, as each class has it.
LEMMA ClearFlatIsGood ==
    ASSUME NEW t \in Flats, NEW W, NEW m \in Good(t, W)
    PROVE  ClearFlat(t, m) \in Good(t, W) /\ Blank(t, ClearFlat(t, m))
  <1>1. t \in DOMAIN Classes /\ Messages(t) = {}
    BY ClassesAgree, ClassNames DEF TablesAgree, FieldsAgree, Messages
  <1> QED
    BY <1>1, ClearedIsGood DEF ClearFlat, ClearedInside

\* Header::Clear, and Clear of the classes with no messages inside.
LEMMA ClearHeaderIsGood ==
    ASSUME NEW t \in Flats \cup {"Header"}, NEW W, NEW m \in Good(t, W)
    PROVE  ClearHeader(t, m) \in Good(t, W) /\ Blank(t, ClearHeader(t, m))
  <1>1. t \in DOMAIN Classes
    BY ClassNames
  <1>2. \A f \in Messages(t) : Repeated(t, f)
    BY <1>1, ClassesAgree DEF TablesAgree, FieldsAgree, Messages
  <1>3. \A inside : ClearedInside(t, m, inside, W)
    BY <1>2 DEF ClearedInside
  <1> QED
    BY <1>1, <1>3, ClearedIsGood DEF ClearHeader

\* Clear of every class.
LEMMA ClearIsGood ==
    ASSUME NEW t \in DOMAIN Classes, NEW W, NEW m \in Good(t, W)
    PROVE  Clear(t, m) \in Good(t, W) /\ Blank(t, Clear(t, m))
  <1> DEFINE inside == [f \in Messages(t) |-> [i \in DOMAIN m.val[f] |->
                            ClearHeader(Kind(t, f), m.val[f][i])]]
  <1>1. ASSUME NEW f \in Messages(t), ~Repeated(t, f)
        PROVE  /\ inside[f] \in Seq(InnerSet(t, W))
               /\ Len(inside[f]) = Len(m.val[f])
               /\ \A i \in DOMAIN inside[f] : Blank(Kind(t, f), inside[f][i])
    <2>1. f \in Fields(t) /\ IsMessage(t, f)
      BY DEF Messages
    <2>2. InnerSet(t, W) = Good("Header", W) /\ Kind(t, f) = "Header"
      BY <1>1, <2>1, InnerIsGood
    <2>3. m.val[f] \in Seq(Good("Header", W))
      BY <2>1, <2>2, Parts DEF Good, MayHold
    <2>4. \A i \in DOMAIN m.val[f] : m.val[f][i] \in Good("Header", W)
      BY <2>3
    <2>5. \A i \in DOMAIN m.val[f] :
            /\ ClearHeader("Header", m.val[f][i]) \in Good("Header", W)
            /\ Blank("Header", ClearHeader("Header", m.val[f][i]))
      BY <2>4, ClearHeaderIsGood
    <2>6. inside[f] = [i \in 1..Len(m.val[f]) |-> ClearHeader("Header", m.val[f][i])]
      BY <2>2, <2>3
    <2>7. DOMAIN m.val[f] = 1..Len(m.val[f]) /\ Len(m.val[f]) \in Nat
      BY <2>3
    <2> HIDE DEF inside
    <2> QED
      BY <2>2, <2>5, <2>6, <2>7
  <1>2. ClearedInside(t, m, inside, W)
    <2> HIDE DEF inside
    <2> QED
      BY <1>1 DEF ClearedInside
  <1>3. Clear(t, m) = Cleared(t, m, inside)
    BY DEF Clear, Inside
  <1> HIDE DEF inside
  <1> QED
    BY <1>2, <1>3, ClearedIsGood

-----------------------------------------------------------------------------
(* The accessors.                                                          *)

\* A bit is that of one field.
LEMMA BitsDiffer ==
    ASSUME NEW t \in DOMAIN Classes, NEW f \in Fields(t), NEW W, NEW m \in Good(t, W)
    PROVE  /\ m.has \cup {Bit(t, f)} \in SUBSET Bits(t)
           /\ m.has \ {Bit(t, f)} \in SUBSET Bits(t)
           /\ \A g \in Fields(t) \ {f} : Bit(t, g) # Bit(t, f)
  <1>1. m.has \in SUBSET Bits(t)
    BY Parts DEF Good
  <1>2. Bit(t, f) \in Bits(t)
    BY DEF Bits
  <1>3. \A g \in Fields(t) \ {f} : Bit(t, g) # Bit(t, f)
    BY ClassesAgree DEF TablesAgree, FieldsAgree
  <1> QED
    BY <1>1, <1>2, <1>3

\* set_<field>.
LEMMA SetIsGood ==
    ASSUME NEW t \in DOMAIN Classes, NEW f \in Fields(t), NEW W, NEW m \in Good(t, W),
           NEW v \in Int, ~IsMessage(t, f)
    PROVE  set_(t, m, f, v) \in Good(t, W)
  <1> DEFINE h == m.has \cup {Bit(t, f)}
  <1>1. set_(t, m, f, v) = Assign(m, h, f, v)
    BY DEF set_
  <1>2. /\ h \in SUBSET Bits(t)
        /\ \A g \in Fields(t) \ {f} : Bit(t, g) \in h <=> Bit(t, g) \in m.has
    BY BitsDiffer
  <1>3. MayHold(t, h, f, v, InnerSet(t, W))
    BY DEF MayHold
  <1> HIDE DEF h
  <1> QED
    BY <1>1, <1>2, <1>3, Assigned DEF Good

\* A message inside is there and set.
LEMMA MutableIsGood ==
    ASSUME NEW t \in DOMAIN Classes, NEW f \in Fields(t), NEW W, NEW m \in Good(t, W),
           IsMessage(t, f), ~Repeated(t, f)
    PROVE  /\ mutable_(t, m, f) \in Good(t, W)
           /\ has_(t, mutable_(t, m, f), f)
           /\ Len(mutable_(t, m, f).val[f]) = 1
           /\ mutable_(t, m, f).val[f][1] \in InnerSet(t, W)
           /\ m.val[f] # NULL => mutable_(t, m, f).val[f] = m.val[f]
           /\ m.val[f] = NULL => mutable_(t, m, f).val[f] = <<New(Kind(t, f))>>
  <1> DEFINE h == m.has \cup {Bit(t, f)}
             x == IF m.val[f] = NULL THEN <<New(Kind(t, f))>> ELSE m.val[f]
             r == Assign(m, h, f, x)
  <1>1. mutable_(t, m, f) = r
    BY DEF mutable_
  <1>2. /\ h \in SUBSET Bits(t)
        /\ \A g \in Fields(t) \ {f} : Bit(t, g) \in h <=> Bit(t, g) \in m.has
    BY BitsDiffer
  <1>3. New(Kind(t, f)) \in InnerSet(t, W)
    BY NewIsGood, InnerIsGood
  <1>4. m.val[f] \in Seq(InnerSet(t, W)) /\ Len(m.val[f]) <= 1
    BY Parts DEF MayHold, Good
  <1>5. x \in Seq(InnerSet(t, W)) /\ Len(x) = 1
    <2>1. CASE m.val[f] = NULL
      BY <1>3, <2>1
    <2>2. CASE m.val[f] # NULL
      <3>1. x = m.val[f] /\ m.val[f] # <<>>
        BY <2>2 DEF NULL
      <3>2. Len(m.val[f]) = 1
        BY <1>4, <3>1
      <3> HIDE DEF x
      <3> QED
        BY <1>4, <3>1, <3>2, Zenon
    <2> QED
      BY <2>1, <2>2
  <1>7. Bit(t, f) \in h
    OBVIOUS
  <1>8. m.val[f] # NULL => x = m.val[f]
    OBVIOUS
  <1>9. m.val[f] = NULL => x = <<New(Kind(t, f))>>
    OBVIOUS
  <1> HIDE DEF h, x
  <1>10. MayHold(t, h, f, x, InnerSet(t, W))
    BY <1>5, <1>7 DEF MayHold
  <1>11. r \in Good(t, W) /\ r.val[f] = x /\ r.has = h
    BY <1>2, <1>10, Assigned DEF Good
  <1>12. x[1] \in InnerSet(t, W)
    BY <1>5
  <1> HIDE DEF r
  <1> QED
    BY <1>1, <1>5, <1>7, <1>8, <1>9, <1>11, <1>12 DEF has_

\* clear_<field>.
LEMMA ClearFieldIsGood ==
    ASSUME NEW t \in DOMAIN Classes, NEW f \in Fields(t), NEW W, NEW m \in Good(t, W)
    PROVE  clear_(t, m, f) \in Good(t, W)
  <1> DEFINE h == m.has \ {Bit(t, f)}
             x == IF IsMessage(t, f) /\ ~Repeated(t, f)
                  THEN [i \in DOMAIN m.val[f] |-> Clear(Kind(t, f), m.val[f][i])]
                  ELSE Classes[t].field[f].default
  <1>1. clear_(t, m, f) = Assign(m, h, f, x)
    BY DEF clear_
  <1>2. /\ h \in SUBSET Bits(t)
        /\ \A g \in Fields(t) \ {f} : Bit(t, g) \in h <=> Bit(t, g) \in m.has
    BY BitsDiffer
  <1>3. Bit(t, f) \notin h
    OBVIOUS
  <1>4. TablesAgree(t)
    BY ClassesAgree
  <1>5. CASE ~IsMessage(t, f)
    <2>1. x = Classes[t].ctor[f] /\ x \in Int
      BY <1>4, <1>5 DEF TablesAgree, FieldsAgree
    <2> HIDE DEF h, x
    <2>2. MayHold(t, h, f, x, InnerSet(t, W))
      BY <1>5, <2>1 DEF MayHold
    <2> QED
      BY <1>1, <1>2, <2>2, Assigned DEF Good
  <1>6. CASE IsMessage(t, f) /\ Repeated(t, f)
    <2>1. x = <<>>
      BY <1>4, <1>6 DEF TablesAgree, FieldsAgree, NULL
    <2> HIDE DEF h, x
    <2>2. MayHold(t, h, f, x, InnerSet(t, W))
      BY <1>6, <2>1 DEF MayHold
    <2> QED
      BY <1>1, <1>2, <2>2, Assigned DEF Good
  <1>7. CASE IsMessage(t, f) /\ ~Repeated(t, f)
    <2>1. InnerSet(t, W) = Good(Kind(t, f), W) /\ Kind(t, f) \in DOMAIN Classes
      BY <1>7, InnerIsGood
    <2>2. m.val[f] \in Seq(Good(Kind(t, f), W)) /\ Len(m.val[f]) <= 1
      BY <1>7, <2>1, Parts DEF MayHold, Good
    <2>3. \A i \in DOMAIN m.val[f] : m.val[f][i] \in Good(Kind(t, f), W)
      BY <2>2
    <2>4. \A i \in DOMAIN m.val[f] :
            /\ Clear(Kind(t, f), m.val[f][i]) \in Good(Kind(t, f), W)
            /\ Blank(Kind(t, f), Clear(Kind(t, f), m.val[f][i]))
      BY <2>1, <2>3, ClearIsGood
    <2>5. x = [i \in 1..Len(m.val[f]) |-> Clear(Kind(t, f), m.val[f][i])]
      BY <1>7, <2>2
    <2>6. DOMAIN m.val[f] = 1..Len(m.val[f]) /\ Len(m.val[f]) \in Nat
      BY <2>2
    <2> HIDE DEF x, h
    <2>7. /\ x \in Seq(InnerSet(t, W)) /\ Len(x) <= 1
          /\ \A i \in DOMAIN x : Blank(Kind(t, f), x[i])
      BY <2>1, <2>2, <2>4, <2>5, <2>6
    <2>8. MayHold(t, h, f, x, InnerSet(t, W))
      BY <1>3, <1>7, <2>7 DEF MayHold
    <2> QED
      BY <1>1, <1>2, <2>8, Assigned DEF Good
  <1> QED
    BY <1>5, <1>6, <1>7

\* release_<field>: the message is no longer there, and its bit is reset.
LEMMA ReleaseIsGood ==
    ASSUME NEW t \in DOMAIN Classes, NEW f \in Fields(t), NEW W, NEW m \in Good(t, W),
           IsMessage(t, f)
    PROVE  release_(t, m, f) \in Good(t, W)
  <1> DEFINE h == m.has \ {Bit(t, f)}
  <1>1. release_(t, m, f) = Assign(m, h, f, <<>>)
    BY DEF release_, NULL
  <1>2. /\ h \in SUBSET Bits(t)
        /\ \A g \in Fields(t) \ {f} : Bit(t, g) \in h <=> Bit(t, g) \in m.has
    BY BitsDiffer
  <1>3. Bit(t, f) \notin h
    OBVIOUS
  <1> HIDE DEF h
  <1>4. MayHold(t, h, f, <<>>, InnerSet(t, W))
    BY <1>3 DEF MayHold
  <1> QED
    BY <1>1, <1>2, <1>4, Assigned DEF Good

\* A message inside, made ready, is good, and so is the message with another instead.
LEMMA ReadyIsGood ==
    ASSUME NEW t \in DOMAIN Classes, NEW f \in Fields(t), NEW W, NEW m \in Good(t, W),
           IsMessage(t, f)
    PROVE  /\ Ready(t, m, f) \in Good(t, W)
           /\ Ready(t, m, f).unknown = m.unknown
           /\ Current(t, m, f) \in InnerSet(t, W)
           /\ \A n \in InnerSet(t, W) : Replaced(t, m, f, n) \in Good(t, W)
  <1> DEFINE r == Ready(t, m, f)
             G == InnerSet(t, W)
             s == r.val[f]
  <1>1. New(Kind(t, f)) \in G
    BY NewIsGood, InnerIsGood
  <1>2. m.val[f] \in Seq(G) /\ m.has \in SUBSET Bits(t)
    BY Parts DEF MayHold, Good
  <1>3. /\ r \in Good(t, W) /\ s \in Seq(G) /\ Len(s) >= 1
        /\ ~Repeated(t, f) => Len(s) = 1 /\ has_(t, r, f)
        /\ r.unknown = m.unknown
    <2>1. CASE Repeated(t, f)
      <3> DEFINE x == Append(m.val[f], New(Kind(t, f)))
      <3>1. r = Assign(m, m.has, f, x)
        BY <2>1 DEF Ready, add_
      <3>2. x \in Seq(G) /\ Len(x) >= 1
        BY <1>1, <1>2
      <3>3. \A g \in Fields(t) \ {f} : Bit(t, g) \in m.has <=> Bit(t, g) \in m.has
        OBVIOUS
      <3> HIDE DEF x, r, G
      <3>4. MayHold(t, m.has, f, x, G)
        BY <2>1, <3>2 DEF MayHold
      <3>5. r \in Good(t, W) /\ r.val[f] = x /\ r.unknown = m.unknown
        BY <1>2, <3>1, <3>3, <3>4, Assigned DEF Good, G
      <3> QED
        BY <2>1, <3>2, <3>5
    <2>2. CASE ~Repeated(t, f)
      <3>1. r = mutable_(t, m, f)
        BY <2>2 DEF Ready
      <3>2. r \in Good(t, W) /\ has_(t, r, f) /\ Len(s) = 1
        BY <2>2, <3>1, MutableIsGood
      <3>3. s \in Seq(G)
        BY <3>2, Parts DEF MayHold, Good
      <3>4. r.unknown = m.unknown
        BY <3>1 DEF mutable_, Assign
      <3> HIDE DEF r, s, G
      <3> QED
        BY <3>2, <3>3, <3>4
    <2> QED
      BY <2>1, <2>2
  <1>4. Current(t, m, f) = s[Len(s)]
    BY DEF Current, Last
  <1>5. ASSUME NEW n \in G
        PROVE  Replaced(t, m, f, n) \in Good(t, W)
    <2> DEFINE x == [s EXCEPT ![Len(s)] = n]
    <2>1. Replaced(t, m, f, n) = Assign(r, r.has, f, x)
      BY DEF Replaced
    <2> HIDE DEF r, s, G
    <2>2. x \in Seq(G) /\ Len(x) = Len(s)
      BY <1>3
    <2> HIDE DEF x
    <2>3. MayHold(t, r.has, f, x, G)
      BY <1>3, <2>2 DEF MayHold, has_
    <2>4. r.has \in SUBSET Bits(t)
      BY <1>3, Parts DEF Good
    <2>5. \A g \in Fields(t) \ {f} : Bit(t, g) \in r.has <=> Bit(t, g) \in r.has
      OBVIOUS
    <2> QED
      BY <1>3, <2>1, <2>3, <2>4, <2>5, Assigned DEF Good, G
  <1>6. s[Len(s)] \in G
    <2> HIDE DEF r, s, G
    <2> QED
      BY <1>3
  <1> HIDE DEF r, s
  <1> QED
    BY <1>3, <1>4, <1>5, <1>6 DEF r

-----------------------------------------------------------------------------
(* MergeFrom, CopyFrom, Swap.                                              *)

\* What a merge is given for the messages inside.
MergesInside(t, from, inside, W) ==
    \A f \in Messages(t) :
        inside[f] \in Seq(InnerSet(t, W)) /\ Len(inside[f]) = Len(from.val[f])

\* The members that a merge assigns to are those that are set, save repeated ones.
Given(t, from) == {f \in Fields(t) : ~Repeated(t, f) /\ has_(t, from, f)}

\* MergeFrom, by the members of what it makes.
LEMMA MergedParts ==
    ASSUME NEW t \in DOMAIN Classes, NEW m, NEW from, NEW inside
    PROVE  Merged(t, m, from, inside) =
             [has |-> m.has \cup {Bit(t, f) : f \in Given(t, from)},
              val |-> [f \in Fields(t) |->
                        IF f \in Given(t, from)
                        THEN IF IsMessage(t, f) THEN inside[f] ELSE from.val[f]
                        ELSE IF Repeated(t, f) THEN m.val[f] \o inside[f]
                        ELSE m.val[f]],
              unknown |-> m.unknown \o from.unknown]
  <1> DEFINE g == Classes[t].merge
             looked == UNION {x[2] : x \in {x \in g.groups : x[1] \cap from.has # {}}}
             given == {f \in looked : has_(t, from, f)}
  <1>1. MergeAgrees(t)
    BY ClassesAgree DEF TablesAgree
  <1>2. \A f \in looked : f \in Fields(t) /\ ~Repeated(t, f)
    BY <1>1 DEF MergeAgrees
  <1>3. ASSUME NEW f \in Fields(t), ~Repeated(t, f), has_(t, from, f)
        PROVE  f \in looked
    <2>1. PICK x \in g.groups : f \in x[2] /\ Bit(t, f) \in x[1]
      BY <1>1, <1>3 DEF MergeAgrees
    <2>2. x[1] \cap from.has # {}
      BY <1>3, <2>1 DEF has_
    <2> QED
      BY <2>1, <2>2
  <1>4. given = Given(t, from)
    <2> HIDE DEF looked
    <2> QED
      BY <1>2, <1>3 DEF Given
  <1>5. \A f \in Fields(t) : f \in g.repeated <=> Repeated(t, f)
    BY <1>1 DEF MergeAgrees
  <1>6. Merged(t, m, from, inside) =
             [has |-> m.has \cup {Bit(t, f) : f \in given},
              val |-> [f \in Fields(t) |->
                        IF f \in given
                        THEN IF IsMessage(t, f) THEN inside[f] ELSE from.val[f]
                        ELSE IF f \in g.repeated THEN m.val[f] \o inside[f]
                        ELSE m.val[f]],
              unknown |-> m.unknown \o from.unknown]
    BY DEF Merged
  <1> HIDE DEF given, g
  <1> QED
    BY <1>4, <1>5, <1>6

\* MergeFrom, if what it does inside keeps to good messages.
LEMMA MergedIsGood ==
    ASSUME NEW t \in DOMAIN Classes, NEW W, NEW m \in Good(t, W), NEW from \in Good(t, W),
           NEW inside, MergesInside(t, from, inside, W)
    PROVE  Merged(t, m, from, inside) \in Good(t, W)
  <1> DEFINE h == m.has \cup {Bit(t, f) : f \in Given(t, from)}
             v == [f \in Fields(t) |->
                    IF f \in Given(t, from)
                    THEN IF IsMessage(t, f) THEN inside[f] ELSE from.val[f]
                    ELSE IF Repeated(t, f) THEN m.val[f] \o inside[f]
                    ELSE m.val[f]]
             G == InnerSet(t, W)
  <1>1. Merged(t, m, from, inside) = [has |-> h, val |-> v, unknown |-> m.unknown \o from.unknown]
    BY MergedParts
  <1>2. /\ m.has \in SUBSET Bits(t) /\ m.unknown \in Seq(W) /\ from.unknown \in Seq(W)
        /\ \A f \in Fields(t) :
            MayHold(t, m.has, f, m.val[f], G) /\ MayHold(t, from.has, f, from.val[f], G)
    BY Parts DEF Good
  <1>3. h \in SUBSET Bits(t) /\ m.unknown \o from.unknown \in Seq(W)
    BY <1>2 DEF Bits, Given
  <1>4. \A f \in Fields(t) : Bit(t, f) \in h <=> Bit(t, f) \in m.has \/ f \in Given(t, from)
    BY ClassesAgree DEF TablesAgree, FieldsAgree, Given
  <1>5. v = [f \in Fields(t) |-> v[f]]
    OBVIOUS
  <1>6. ASSUME NEW f \in Fields(t)
        PROVE  MayHold(t, h, f, v[f], G)
    <2>1. CASE f \in Given(t, from) /\ IsMessage(t, f)
      <3>1. v[f] = inside[f] /\ Bit(t, f) \in h /\ f \in Messages(t)
        BY <1>4, <2>1 DEF Messages
      <3>2. Len(from.val[f]) = 1
        BY <1>2, <2>1 DEF Given, MayHold, has_
      <3>3. v[f] \in Seq(G) /\ Len(v[f]) = 1
        <4> HIDE DEF v
        <4> QED
          BY <3>1, <3>2 DEF MergesInside
      <3> HIDE DEF h, v, G
      <3> QED
        BY <2>1, <3>1, <3>3 DEF MayHold
    <2>2. CASE f \in Given(t, from) /\ ~IsMessage(t, f)
      <3>1. v[f] = from.val[f] /\ Bit(t, f) \in h
        BY <1>4, <2>2
      <3> HIDE DEF h, v, G
      <3> QED
        BY <1>2, <2>2, <3>1 DEF MayHold
    <2>3. CASE f \notin Given(t, from) /\ Repeated(t, f)
      <3>1. IsMessage(t, f) /\ f \in Messages(t)
        BY <2>3, ClassesAgree DEF TablesAgree, FieldsAgree, Messages
      <3>2. v[f] = m.val[f] \o inside[f]
        BY <2>3
      <3>3. m.val[f] \in Seq(G) /\ inside[f] \in Seq(G)
        BY <1>2, <3>1 DEF MayHold, MergesInside
      <3> HIDE DEF h, v, G
      <3> QED
        BY <2>3, <3>1, <3>2, <3>3 DEF MayHold
    <2>4. CASE f \notin Given(t, from) /\ ~Repeated(t, f)
      <3>1. v[f] = m.val[f] /\ (Bit(t, f) \in h <=> Bit(t, f) \in m.has)
        BY <1>4, <2>4
      <3> HIDE DEF h, v, G
      <3> QED
        BY <1>2, <3>1, Zenon DEF MayHold
    <2> QED
      BY <2>1, <2>2, <2>3, <2>4
  <1> HIDE DEF h, v, G
  <1> QED
    BY <1>1, <1>3, <1>5, <1>6, Build DEF Good, G

\* What a merge makes of the messages inside, given that it makes good ones.
LEMMA MergesInsideIsGood ==
    ASSUME NEW t \in DOMAIN Classes, NEW W, NEW m \in Good(t, W), NEW from \in Good(t, W),
           NEW inside,
           \A f \in Messages(t) :
                /\ inside[f] = [i \in DOMAIN from.val[f] |-> inside[f][i]]
                /\ \A i \in DOMAIN from.val[f] : inside[f][i] \in InnerSet(t, W)
    PROVE  MergesInside(t, from, inside, W)
  <1> SUFFICES ASSUME NEW f \in Messages(t)
               PROVE  inside[f] \in Seq(InnerSet(t, W)) /\ Len(inside[f]) = Len(from.val[f])
    BY DEF MergesInside
  <1>1. f \in Fields(t) /\ IsMessage(t, f)
    BY DEF Messages
  <1>2. from.val[f] \in Seq(InnerSet(t, W))
    BY <1>1, Parts DEF Good, MayHold
  <1>3. Len(from.val[f]) \in Nat /\ DOMAIN from.val[f] = 1..Len(from.val[f])
    BY <1>2
  <1> QED
    BY <1>3, IsSequence

\* The messages that are merged into those inside are good.
LEMMA TargetsAreGood ==
    ASSUME NEW t \in DOMAIN Classes, NEW W, NEW m \in Good(t, W), NEW from \in Good(t, W),
           NEW f \in Messages(t), NEW i \in DOMAIN from.val[f]
    PROVE  /\ (IF Repeated(t, f) THEN New(Kind(t, f)) ELSE mutable_(t, m, f).val[f][1])
                    \in Good(Kind(t, f), W)
           /\ from.val[f][i] \in Good(Kind(t, f), W)
           /\ InnerSet(t, W) = Good(Kind(t, f), W)
           /\ t = "Header" => Kind(t, f) = "Entry"
           /\ t # "Header" => t \in Holders /\ Kind(t, f) = "Header"
  <1>1. f \in Fields(t) /\ IsMessage(t, f)
    BY DEF Messages
  <1>2. /\ InnerSet(t, W) = Good(Kind(t, f), W) /\ Kind(t, f) \in DOMAIN Classes
        /\ t = "Header" => Kind(t, f) = "Entry"
        /\ t # "Header" => t \in Holders /\ Kind(t, f) = "Header"
    BY <1>1, InnerIsGood
  <1>3. from.val[f] \in Seq(InnerSet(t, W))
    BY <1>1, Parts DEF Good, MayHold
  <1>4. from.val[f][i] \in Good(Kind(t, f), W)
    BY <1>2, <1>3
  <1>5. CASE Repeated(t, f)
    BY <1>2, <1>4, <1>5, NewIsGood
  <1>6. CASE ~Repeated(t, f)
    <2>1. mutable_(t, m, f).val[f][1] \in Good(Kind(t, f), W)
      BY <1>1, <1>2, <1>6, MutableIsGood
    <2> QED
      BY <1>2, <1>4, <1>6, <2>1
  <1> QED
    BY <1>5, <1>6

\* MergeFrom of the classes with no messages inside.
LEMMA MergeFromFlatIsGood ==
    ASSUME NEW t \in Flats, NEW W, NEW m \in Good(t, W), NEW from \in Good(t, W)
    PROVE  MergeFromFlat(t, m, from) \in Good(t, W)
  <1>1. t \in DOMAIN Classes /\ Messages(t) = {}
    BY ClassesAgree, ClassNames DEF TablesAgree, FieldsAgree, Messages
  <1>2. MergesInside(t, from, NULL, W)
    BY <1>1 DEF MergesInside
  <1> QED
    BY <1>1, <1>2, MergedIsGood DEF MergeFromFlat

\* Header::MergeFrom, whose entries are appended.
LEMMA MergeFromHeaderIsGood ==
    ASSUME NEW t \in Flats \cup {"Header"}, NEW W, NEW m \in Good(t, W), NEW from \in Good(t, W)
    PROVE  MergeFromHeader(t, m, from) \in Good(t, W)
  <1> DEFINE to(f) == IF Repeated(t, f) THEN New(Kind(t, f)) ELSE mutable_(t, m, f).val[f][1]
             inside == [f \in Messages(t) |-> [i \in DOMAIN from.val[f] |->
                            MergeFromFlat(Kind(t, f), to(f), from.val[f][i])]]
  <1>1. t \in DOMAIN Classes
    BY ClassNames
  <1>2. MergeFromHeader(t, m, from) = Merged(t, m, from, inside)
    BY DEF MergeFromHeader, MergedInside
  <1>3. ASSUME NEW f \in Messages(t), NEW i \in DOMAIN from.val[f]
        PROVE  MergeFromFlat(Kind(t, f), to(f), from.val[f][i]) \in InnerSet(t, W)
    <2>1. /\ to(f) \in Good(Kind(t, f), W) /\ from.val[f][i] \in Good(Kind(t, f), W)
          /\ InnerSet(t, W) = Good(Kind(t, f), W)
      BY <1>1, TargetsAreGood
    <2>2. Kind(t, f) \in Flats
      <3>1. /\ t = "Header" => Kind(t, f) = "Entry"
            /\ t # "Header" => t \in Holders
        BY <1>1, TargetsAreGood
      <3> QED
        BY <3>1 DEF Flats, Holders
    <2> HIDE DEF to
    <2> QED
      BY <2>1, <2>2, MergeFromFlatIsGood
  <1> HIDE DEF to
  <1>4. \A f \in Messages(t) :
            /\ inside[f] = [i \in DOMAIN from.val[f] |-> inside[f][i]]
            /\ \A i \in DOMAIN from.val[f] : inside[f][i] \in InnerSet(t, W)
    BY <1>3
  <1> HIDE DEF inside
  <1> QED
    BY <1>1, <1>2, <1>4, MergesInsideIsGood, MergedIsGood

\* MergeFrom of every class.
LEMMA MergeFromIsGood ==
    ASSUME NEW t \in DOMAIN Classes, NEW W, NEW m \in Good(t, W), NEW from \in Good(t, W)
    PROVE  MergeFrom(t, m, from) \in Good(t, W)
  <1> DEFINE to(f) == IF Repeated(t, f) THEN New(Kind(t, f)) ELSE mutable_(t, m, f).val[f][1]
             inside == [f \in Messages(t) |-> [i \in DOMAIN from.val[f] |->
                            MergeFromHeader(Kind(t, f), to(f), from.val[f][i])]]
  <1>1. MergeFrom(t, m, from) = Merged(t, m, from, inside)
    BY DEF MergeFrom, MergedInside
  <1>2. ASSUME NEW f \in Messages(t), NEW i \in DOMAIN from.val[f]
        PROVE  MergeFromHeader(Kind(t, f), to(f), from.val[f][i]) \in InnerSet(t, W)
    <2>1. /\ to(f) \in Good(Kind(t, f), W) /\ from.val[f][i] \in Good(Kind(t, f), W)
          /\ InnerSet(t, W) = Good(Kind(t, f), W)
      BY TargetsAreGood
    <2>2. Kind(t, f) \in Flats \cup {"Header"}
      BY TargetsAreGood DEF Flats
    <2> HIDE DEF to
    <2> QED
      BY <2>1, <2>2, MergeFromHeaderIsGood
  <1> HIDE DEF to
  <1>3. \A f \in Messages(t) :
            /\ inside[f] = [i \in DOMAIN from.val[f] |-> inside[f][i]]
            /\ \A i \in DOMAIN from.val[f] : inside[f][i] \in InnerSet(t, W)
    BY <1>2
  <1> HIDE DEF inside
  <1> QED
    BY <1>1, <1>3, MergesInsideIsGood, MergedIsGood

\* InternalSwap: each of the two messages becomes the whole of the other.
LEMMA SwappedIsGood ==
    ASSUME NEW t \in DOMAIN Classes, NEW W, NEW m, NEW n \in Good(t, W)
    PROVE  Swapped(t, m, n) = n
  <1>1. Classes[t].swap = Fields(t)
    BY ClassesAgree DEF TablesAgree, OthersAgree
  <1>2. /\ n = [has |-> n.has, val |-> n.val, unknown |-> n.unknown]
        /\ n.val = [f \in Fields(t) |-> n.val[f]]
    BY Parts DEF Good
  <1>3. [f \in Fields(t) |-> IF f \in Classes[t].swap THEN n.val[f] ELSE m.val[f]] = n.val
    BY <1>1, <1>2
  <1> QED
    BY <1>2, <1>3 DEF Swapped

-----------------------------------------------------------------------------
(* MergePartialFromCodedStream.                                            *)

\* A set of tokens that holds those inside its members.
Tokens(W) == \A k \in W : k.tag \in Int /\ k.val \in Int /\ k.sub \in Seq(W)

\* The states of the loop.
Readings(t, W) == [msg : Good(t, W), label : {NoLabel} \cup Fields(t), going : BOOLEAN]

\* A tag that the parser takes for a known field is that of a field.
LEMMA KnownIsField ==
    ASSUME NEW t, NEW k, NEW label \in {NoLabel} \cup Fields(t),
           Known(t, FieldAt(label, k), k, label)
    PROVE  FieldAt(label, k) \in Fields(t)
  BY DEF Known, FieldAt

\* ExpectTag and its goto lead to the label of a field of the class.
LEMMA JumpIsLabel ==
    ASSUME NEW t \in DOMAIN Classes, NEW f \in Fields(t), NEW input, NEW i
    PROVE  Jump(t, f, input, i) \in {NoLabel} \cup Fields(t)
  <1> DEFINE to == {e[2] : e \in {e \in Classes[t].parse[f].expect :
                                    i < Len(input) /\ e[1] = input[i + 1].tag}}
  <1>1. to \subseteq Fields(t)
    BY ClassesAgree DEF TablesAgree, OthersAgree
  <1>2. Jump(t, f, input, i) = IF to = {} THEN NoLabel ELSE CHOOSE g \in to : TRUE
    BY DEF Jump
  <1> HIDE DEF to
  <1> QED
    BY <1>1, <1>2

\* One case of the switch: a field read is set.
LEMMA ReadFieldIsGood ==
    ASSUME NEW t \in DOMAIN Classes, NEW W, Tokens(W), NEW m \in Good(t, W),
           NEW f \in Fields(t), NEW k \in W, NEW inner,
           IsMessage(t, f) => inner.msg \in InnerSet(t, W)
    PROVE  ReadField(t, m, f, k, inner) \in Good(t, W)
  <1>1. k.val \in Int
    BY DEF Tokens
  <1>2. CASE IsMessage(t, f)
    <2>1. Kind(t, f) # "string"
      BY <1>2, ClassNames DEF IsMessage, Flats, Holders
    <2>2. ReadField(t, m, f, k, inner) =
            IF k.cut THEN Ready(t, m, f) ELSE Replaced(t, m, f, inner.msg)
      BY <1>2, <2>1 DEF ReadField
    <2> QED
      BY <1>2, <2>2, ReadyIsGood
  <1>3. CASE ~IsMessage(t, f)
    <2>1. \/ ReadField(t, m, f, k, inner) = set_(t, m, f, k.val)
          \/ ReadField(t, m, f, k, inner) = m
      BY <1>3 DEF ReadField, ReadPrimitive
    <2> QED
      BY <1>1, <1>3, <2>1, SetIsGood
  <1> QED
    BY <1>2, <1>3

\* WireFormat::SkipField changes the unknown fields only.
LEMMA UnknownAdded ==
    ASSUME NEW t, NEW G, NEW W, NEW m \in MessageSet(t, G, W), NEW u
    PROVE  [m EXCEPT !.unknown = u] = [has |-> m.has, val |-> m.val, unknown |-> u]
  <1>1. m = [has |-> m.has, val |-> m.val, unknown |-> m.unknown]
    BY DEF MessageSet
  <1> QED
    BY <1>1

\* One turn of the loop.
LEMMA ReadTokenIsGood ==
    ASSUME NEW t \in DOMAIN Classes, NEW W, Tokens(W), NEW s \in Readings(t, W),
           NEW input \in Seq(W), NEW i \in 1..Len(input), NEW inner,
           FieldAt(s.label, input[i]) \in Fields(t) /\ IsMessage(t, FieldAt(s.label, input[i]))
                => inner.msg \in InnerSet(t, W)
    PROVE  ReadToken(t, s, input, i, inner) \in Readings(t, W)
  <1> DEFINE k == input[i]
             f == FieldAt(s.label, k)
  <1>1. k \in W /\ s.msg \in Good(t, W) /\ s.label \in {NoLabel} \cup Fields(t)
    BY DEF Readings
  <1>2. CASE ~s.going
    BY <1>2 DEF ReadToken
  <1>3. CASE s.going /\ Known(t, f, k, s.label)
    <2>1. f \in Fields(t)
      BY <1>1, <1>3, KnownIsField
    <2>2. ReadToken(t, s, input, i, inner) =
            Reading(ReadField(t, s.msg, f, k, inner), Jump(t, f, input, i),
                    ~k.cut /\ (IsMessage(t, f) => inner.going))
      BY <1>3 DEF ReadToken
    <2>3. ReadField(t, s.msg, f, k, inner) \in Good(t, W)
      BY <1>1, <2>1, ReadFieldIsGood
    <2>4. Jump(t, f, input, i) \in {NoLabel} \cup Fields(t)
      BY <2>1, JumpIsLabel
    <2>5. (~k.cut /\ (IsMessage(t, f) => inner.going)) \in BOOLEAN
      OBVIOUS
    <2> QED
      BY <2>2, <2>3, <2>4, <2>5 DEF Reading, Readings
  <1>4. CASE s.going /\ ~Known(t, f, k, s.label) /\ (EndsMessage(k) \/ k.cut)
    <2>1. ReadToken(t, s, input, i, inner) = Reading(s.msg, NoLabel, FALSE)
      BY <1>4 DEF ReadToken
    <2> QED
      BY <1>1, <2>1 DEF Reading, Readings
  <1>5. CASE s.going /\ ~Known(t, f, k, s.label) /\ ~(EndsMessage(k) \/ k.cut)
    <2> DEFINE m == s.msg
               n == [m EXCEPT !.unknown = Append(@, k)]
    <2>1. ReadToken(t, s, input, i, inner) = Reading(n, NoLabel, TRUE)
      BY <1>5 DEF ReadToken
    <2>2. n = [has |-> m.has, val |-> m.val, unknown |-> Append(m.unknown, k)]
      BY <1>1, UnknownAdded DEF Good
    <2>3. /\ m.has \in SUBSET Bits(t) /\ m.val = [g \in Fields(t) |-> m.val[g]]
          /\ Append(m.unknown, k) \in Seq(W)
          /\ \A g \in Fields(t) : MayHold(t, m.has, g, m.val[g], InnerSet(t, W))
      BY <1>1, Parts DEF Good
    <2>4. n \in Good(t, W)
      <3> HIDE DEF m, n, k
      <3> QED
        BY <2>2, <2>3, Build DEF Good
    <2> QED
      BY <2>1, <2>4 DEF Reading, Readings
  <1> QED
    BY <1>2, <1>3, <1>4, <1>5

\* a is a loop of n turns that stays in a set.
Loops(S, x, n, D, a) ==
    /\ a = [i \in 0..n |-> IF i = 0 THEN x ELSE D[<<i, a[i - 1]>>]]
    /\ \A i \in 0..n : a[i] \in S

\* There is such a loop.
LEMMA LoopExists ==
    ASSUME NEW S, NEW x \in S, NEW n \in Nat, NEW D \in [(1..n) \X S -> S]
    PROVE  \E a : Loops(S, x, n, D, a)
  <1> DEFINE E == [p \in Nat \X S |-> IF p[1] \in 1..n THEN D[p] ELSE p[2]]
  <1>1. E \in [Nat \X S -> S]
    OBVIOUS
  <1>2. \A i \in 1..n : \A y \in S : E[<<i, y>>] = D[<<i, y>>]
    OBVIOUS
  <1> HIDE DEF E
  <1>2a. PICK g : Iterates(S, x, E, g)
    BY <1>1, Recursion
  <1>3. g \in [Nat -> S] /\ g[0] = x /\ \A i \in Nat \ {0} : g[i] = E[<<i, g[i - 1]>>]
    BY <1>2a DEF Iterates
  <1> DEFINE a == [i \in 0..n |-> g[i]]
  <1>4. \A i \in 0..n : a[i] \in S /\ a[i] = g[i]
    BY <1>3
  <1>5. \A i \in 1..n : g[i] = D[<<i, a[i - 1]>>]
    <2>1. TAKE i \in 1..n
    <2>2. i \in Nat \ {0} /\ i - 1 \in Nat /\ i - 1 \in 0..n
      OBVIOUS
    <2>3. g[i] = E[<<i, g[i - 1]>>] /\ g[i - 1] \in S
      BY <1>3, <2>2
    <2> QED
      BY <1>2, <1>4, <2>2, <2>3
  <1>6. a = [i \in 0..n |-> IF i = 0 THEN x ELSE D[<<i, a[i - 1]>>]]
    <2> DEFINE b == [i \in 0..n |-> IF i = 0 THEN x ELSE D[<<i, a[i - 1]>>]]
    <2>1. \A i \in 0..n : b[i] = g[i]
      <3> HIDE DEF a
      <3>1. TAKE i \in 0..n
      <3>2. CASE i = 0
        BY <1>3, <3>2
      <3>3. CASE i # 0
        BY <1>5, <3>3
      <3> QED
        BY <3>2, <3>3
    <2> QED
      BY <2>1
  <1> HIDE DEF a
  <1> QED
    BY <1>4, <1>6 DEF Loops

\* A loop stays in a set that no turn leaves.
LEMMA LoopStays ==
    ASSUME NEW S, NEW n \in Nat, NEW a, a[0] \in S, \A i \in 1..n : a[i - 1] \in S => a[i] \in S
    PROVE  \A i \in 0..n : a[i] \in S
  <1> DEFINE T == {i \in 0..n : a[i] \in S}
  <1>1. 0 \in T
    OBVIOUS
  <1>2. \A i \in 1..n : i - 1 \in T => i \in T
    OBVIOUS
  <1>3. \A i \in 0..n : i \in T
    <2> HIDE DEF T
    <2> QED
      BY <1>1, <1>2, Induction
  <1> QED
    BY <1>3

\* a holds the states of the loop, inner what the messages inside are read as.
Runs(t, W, m, b, inner, a) ==
    /\ \A i \in 0..Len(b) : a[i] \in Readings(t, W)
    /\ a[0] = Reading(m, NoLabel, TRUE)
    /\ \A i \in 1..Len(b) : a[i] = ReadToken(t, a[i - 1], b, i, inner[i])

\* The loop over the tokens, in a class with no messages inside.
LEMMA MergePartialFlatRuns ==
    ASSUME NEW t \in Flats, NEW W, Tokens(W), NEW m \in Good(t, W), NEW input \in Seq(W)
    PROVE  \E a : /\ Runs(t, W, m, input, [i \in 1..Len(input) |-> NULL], a)
                  /\ MergePartialFlat(t, m, input) = a[Len(input)]
  <1> DEFINE S == Readings(t, W)
             n == Len(input)
             x == Reading(m, NoLabel, TRUE)
             step(s, i) == ReadToken(t, s, input, i, NULL)
             Is(a) == a = [i \in 0..n |-> IF i = 0 THEN x ELSE step(a[i - 1], i)]
             D == [p \in (1..n) \X S |-> step(p[2], p[1])]
             at == CHOOSE a : Is(a)
  <1>1. t \in DOMAIN Classes /\ \A f \in Fields(t) : ~IsMessage(t, f)
    BY ClassesAgree, ClassNames DEF TablesAgree, FieldsAgree
  <1>2. \A i \in 1..n : \A s \in S : step(s, i) \in S
    BY <1>1, ReadTokenIsGood
  <1>3. x \in S /\ n \in Nat
    BY DEF Reading, Readings
  <1>4. MergePartialFlat(t, m, input) = at[n]
    BY DEF MergePartialFlat
  <1> HIDE DEF S, x, n, step
  <1>5. D \in [(1..n) \X S -> S] /\ \A i \in 1..n : \A s \in S : D[<<i, s>>] = step(s, i)
    BY <1>2
  <1> HIDE DEF D
  <1>6. \E a : Is(a)
    <2>1. PICK a : Loops(S, x, n, D, a)
      BY <1>3, <1>5, LoopExists
    <2>2. \A i \in 1..n : D[<<i, a[i - 1]>>] = step(a[i - 1], i)
      <3>1. TAKE i \in 1..n
      <3>2. i - 1 \in 0..n
        BY <1>3
      <3>3. a[i - 1] \in S
        BY <2>1, <3>2 DEF Loops
      <3> QED
        BY <1>5, <3>3
    <2>3. a = [i \in 0..n |-> IF i = 0 THEN x ELSE step(a[i - 1], i)]
      BY <2>1, <2>2 DEF Loops
    <2> QED
      BY <2>3
  <1>7. Is(at)
    BY <1>6
  <1> HIDE DEF at
  <1>7a. at[0] = x
    BY <1>3, <1>7
  <1>8. at[0] \in S /\ \A i \in 1..n : at[i - 1] \in S => at[i] \in S
    BY <1>2, <1>3, <1>7
  <1>9. \A i \in 0..n : at[i] \in S
    <2> HIDE DEF Is
    <2> QED
      BY <1>3, <1>8, LoopStays
  <1>10. Runs(t, W, m, input, [i \in 1..Len(input) |-> NULL], at)
    <2>1. \A i \in 1..n : at[i] = ReadToken(t, at[i - 1], input, i, [j \in 1..n |-> NULL][i])
      BY <1>3, <1>7 DEF step
    <2> HIDE DEF Is
    <2> QED
      BY <1>3, <1>7a, <1>9, <2>1 DEF Runs, S, n, x
  <1> QED
    BY <1>4, <1>10 DEF n

\* The loop leads to a good message.
LEMMA MergePartialFlatIsGood ==
    ASSUME NEW t \in Flats, NEW W, Tokens(W), NEW m \in Good(t, W), NEW input \in Seq(W)
    PROVE  MergePartialFlat(t, m, input) \in Readings(t, W)
  <1>1. Len(input) \in 0..Len(input)
    OBVIOUS
  <1>2. PICK a : Runs(t, W, m, input, [i \in 1..Len(input) |-> NULL], a) /\ MergePartialFlat(t, m, input) = a[Len(input)]
    BY MergePartialFlatRuns, Zenon
  <1> QED
    BY <1>1, <1>2 DEF Runs

\* What the messages inside are read as, those of a Header and those of other classes.
FlatInside(t, b, a, in) ==
    \A i \in 1..Len(b) : \A f : f = FieldAt(a[i - 1].label, b[i]) =>
        in[i] = MergePartialFlat(Kind(t, f), Current(t, a[i - 1].msg, f), b[i].sub)
HeaderInside(t, b, a, in) ==
    \A i \in 1..Len(b) : \A f : f = FieldAt(a[i - 1].label, b[i]) =>
        in[i] = MergePartialHeader(Kind(t, f), Current(t, a[i - 1].msg, f), b[i].sub)

\* The same, of a Header.
LEMMA MergePartialHeaderRuns ==
    ASSUME NEW t \in Flats \cup {"Header"}, NEW W, Tokens(W), NEW m \in Good(t, W), NEW input \in Seq(W)
    PROVE  \E a, in :
             /\ Runs(t, W, m, input, in, a)
             /\ FlatInside(t, input, a, in)
             /\ MergePartialHeader(t, m, input) = a[Len(input)]
  <1> DEFINE S == Readings(t, W)
             n == Len(input)
             x == Reading(m, NoLabel, TRUE)
             field(s, i) == FieldAt(s.label, input[i])
             inner(s, i) == MergePartialFlat(Kind(t, field(s, i)), Current(t, s.msg, field(s, i)),
                                             input[i].sub)
             step(s, i) == ReadToken(t, s, input, i, inner(s, i))
             Is(a) == a = [i \in 0..n |-> IF i = 0 THEN x ELSE step(a[i - 1], i)]
             D == [p \in (1..n) \X S |-> step(p[2], p[1])]
             at == CHOOSE a : Is(a)
  <1>1. t \in DOMAIN Classes
    BY ClassNames
  <1>2. ASSUME NEW i \in 1..n, NEW s \in S
        PROVE  step(s, i) \in S
    <2>1. ASSUME field(s, i) \in Fields(t), IsMessage(t, field(s, i))
          PROVE  inner(s, i).msg \in InnerSet(t, W)
      <3>1. s.msg \in Good(t, W)
        BY DEF Readings
      <3>2. Current(t, s.msg, field(s, i)) \in InnerSet(t, W)
        BY <1>1, <2>1, <3>1, ReadyIsGood
      <3>3. InnerSet(t, W) = Good(Kind(t, field(s, i)), W)
        BY <1>1, <2>1, InnerIsGood
      <3>4. Kind(t, field(s, i)) \in Flats
        BY <1>1, <2>1, InnerIsGood DEF Flats, Holders
      <3>5. input[i].sub \in Seq(W)
        BY DEF Tokens
      <3>6. inner(s, i) \in Readings(Kind(t, field(s, i)), W)
        <4> HIDE DEF field
        <4> QED
          BY <3>2, <3>3, <3>4, <3>5, MergePartialFlatIsGood
      <3> QED
        BY <3>3, <3>6 DEF Readings
    <2> HIDE DEF inner
    <2> QED
      BY <1>1, <2>1, ReadTokenIsGood
  <1>3. x \in S /\ n \in Nat
    BY DEF Reading, Readings
  <1>4. MergePartialHeader(t, m, input) = at[n]
    BY DEF MergePartialHeader, TurnBy
  <1> HIDE DEF S, x, n, step
  <1>5. D \in [(1..n) \X S -> S] /\ \A i \in 1..n : \A s \in S : D[<<i, s>>] = step(s, i)
    BY <1>2
  <1> HIDE DEF D
  <1>6. \E a : Is(a)
    <2>1. PICK a : Loops(S, x, n, D, a)
      BY <1>3, <1>5, LoopExists
    <2>2. \A i \in 1..n : D[<<i, a[i - 1]>>] = step(a[i - 1], i)
      <3>1. TAKE i \in 1..n
      <3>2. i - 1 \in 0..n
        BY <1>3
      <3>3. a[i - 1] \in S
        BY <2>1, <3>2 DEF Loops
      <3> QED
        BY <1>5, <3>3
    <2>3. a = [i \in 0..n |-> IF i = 0 THEN x ELSE step(a[i - 1], i)]
      BY <2>1, <2>2 DEF Loops
    <2> QED
      BY <2>3
  <1>7. Is(at)
    BY <1>6
  <1> HIDE DEF at
  <1>7a. at[0] = x
    BY <1>3, <1>7
  <1>8. at[0] \in S /\ \A i \in 1..n : at[i - 1] \in S => at[i] \in S
    BY <1>2, <1>3, <1>7
  <1>9. \A i \in 0..n : at[i] \in S
    <2> HIDE DEF Is
    <2> QED
      BY <1>3, <1>8, LoopStays
  <1> DEFINE in == [i \in 1..n |-> inner(at[i - 1], i)]
  <1>10. Runs(t, W, m, input, in, at)
    <2>1. \A i \in 1..n : at[i] = step(at[i - 1], i)
      BY <1>3, <1>7
    <2>2. \A i \in 1..n : in[i] = inner(at[i - 1], i)
      OBVIOUS
    <2> HIDE DEF Is, in, inner
    <2>3. \A i \in 1..n : at[i] = ReadToken(t, at[i - 1], input, i, in[i])
      BY <2>1, <2>2 DEF step
    <2> QED
      BY <1>3, <1>7a, <1>9, <2>3 DEF Runs, S, n, x
  <1>11. FlatInside(t, input, at, in)
    BY DEF n, FlatInside
  <1> HIDE DEF in, Is
  <1> QED
    BY <1>4, <1>10, <1>11 DEF n

\* So does that of a Header.
LEMMA MergePartialHeaderIsGood ==
    ASSUME NEW t \in Flats \cup {"Header"}, NEW W, Tokens(W), NEW m \in Good(t, W), NEW input \in Seq(W)
    PROVE  MergePartialHeader(t, m, input) \in Readings(t, W)
  <1>1. Len(input) \in 0..Len(input)
    OBVIOUS
  <1>2. PICK a, in :
             /\ Runs(t, W, m, input, in, a)
             /\ FlatInside(t, input, a, in)
             /\ MergePartialHeader(t, m, input) = a[Len(input)]
    BY MergePartialHeaderRuns
  <1> QED
    BY <1>1, <1>2 DEF Runs

\* The same, of any class.
LEMMA MergePartialFromCodedStreamRuns ==
    ASSUME NEW t \in DOMAIN Classes, NEW W, Tokens(W), NEW m \in Good(t, W), NEW input \in Seq(W)
    PROVE  \E a, in :
             /\ Runs(t, W, m, input, in, a)
             /\ HeaderInside(t, input, a, in)
             /\ MergePartialFromCodedStream(t, m, input) = a[Len(input)]
  <1> DEFINE S == Readings(t, W)
             n == Len(input)
             x == Reading(m, NoLabel, TRUE)
             field(s, i) == FieldAt(s.label, input[i])
             inner(s, i) == MergePartialHeader(Kind(t, field(s, i)), Current(t, s.msg, field(s, i)),
                                             input[i].sub)
             step(s, i) == ReadToken(t, s, input, i, inner(s, i))
             Is(a) == a = [i \in 0..n |-> IF i = 0 THEN x ELSE step(a[i - 1], i)]
             D == [p \in (1..n) \X S |-> step(p[2], p[1])]
             at == CHOOSE a : Is(a)
  <1>1. t \in DOMAIN Classes
    OBVIOUS
  <1>2. ASSUME NEW i \in 1..n, NEW s \in S
        PROVE  step(s, i) \in S
    <2>1. ASSUME field(s, i) \in Fields(t), IsMessage(t, field(s, i))
          PROVE  inner(s, i).msg \in InnerSet(t, W)
      <3>1. s.msg \in Good(t, W)
        BY DEF Readings
      <3>2. Current(t, s.msg, field(s, i)) \in InnerSet(t, W)
        BY <1>1, <2>1, <3>1, ReadyIsGood
      <3>3. InnerSet(t, W) = Good(Kind(t, field(s, i)), W)
        BY <1>1, <2>1, InnerIsGood
      <3>4. Kind(t, field(s, i)) \in Flats \cup {"Header"}
        BY <1>1, <2>1, InnerIsGood DEF Flats, Holders
      <3>5. input[i].sub \in Seq(W)
        BY DEF Tokens
      <3>6. inner(s, i) \in Readings(Kind(t, field(s, i)), W)
        <4> HIDE DEF field
        <4> QED
          BY <3>2, <3>3, <3>4, <3>5, MergePartialHeaderIsGood
      <3> QED
        BY <3>3, <3>6 DEF Readings
    <2> HIDE DEF inner
    <2> QED
      BY <1>1, <2>1, ReadTokenIsGood
  <1>3. x \in S /\ n \in Nat
    BY DEF Reading, Readings
  <1>4. MergePartialFromCodedStream(t, m, input) = at[n]
    BY DEF MergePartialFromCodedStream, TurnBy
  <1> HIDE DEF S, x, n, step
  <1>5. D \in [(1..n) \X S -> S] /\ \A i \in 1..n : \A s \in S : D[<<i, s>>] = step(s, i)
    BY <1>2
  <1> HIDE DEF D
  <1>6. \E a : Is(a)
    <2>1. PICK a : Loops(S, x, n, D, a)
      BY <1>3, <1>5, LoopExists
    <2>2. \A i \in 1..n : D[<<i, a[i - 1]>>] = step(a[i - 1], i)
      <3>1. TAKE i \in 1..n
      <3>2. i - 1 \in 0..n
        BY <1>3
      <3>3. a[i - 1] \in S
        BY <2>1, <3>2 DEF Loops
      <3> QED
        BY <1>5, <3>3
    <2>3. a = [i \in 0..n |-> IF i = 0 THEN x ELSE step(a[i - 1], i)]
      BY <2>1, <2>2 DEF Loops
    <2> QED
      BY <2>3
  <1>7. Is(at)
    BY <1>6
  <1> HIDE DEF at
  <1>7a. at[0] = x
    BY <1>3, <1>7
  <1>8. at[0] \in S /\ \A i \in 1..n : at[i - 1] \in S => at[i] \in S
    BY <1>2, <1>3, <1>7
  <1>9. \A i \in 0..n : at[i] \in S
    <2> HIDE DEF Is
    <2> QED
      BY <1>3, <1>8, LoopStays
  <1> DEFINE in == [i \in 1..n |-> inner(at[i - 1], i)]
  <1>10. Runs(t, W, m, input, in, at)
    <2>1. \A i \in 1..n : at[i] = step(at[i - 1], i)
      BY <1>3, <1>7
    <2>2. \A i \in 1..n : in[i] = inner(at[i - 1], i)
      OBVIOUS
    <2> HIDE DEF Is, in, inner
    <2>3. \A i \in 1..n : at[i] = ReadToken(t, at[i - 1], input, i, in[i])
      BY <2>1, <2>2 DEF step
    <2> QED
      BY <1>3, <1>7a, <1>9, <2>3 DEF Runs, S, n, x
  <1>11. HeaderInside(t, input, at, in)
    BY DEF n, HeaderInside
  <1> HIDE DEF in, Is
  <1> QED
    BY <1>4, <1>10, <1>11 DEF n

\* So does that of any class.
LEMMA MergePartialFromCodedStreamIsGood ==
    ASSUME NEW t \in DOMAIN Classes, NEW W, Tokens(W), NEW m \in Good(t, W), NEW input \in Seq(W)
    PROVE  MergePartialFromCodedStream(t, m, input) \in Readings(t, W)
  <1>1. Len(input) \in 0..Len(input)
    OBVIOUS
  <1>2. PICK a, in : Runs(t, W, m, input, in, a) /\ MergePartialFromCodedStream(t, m, input) = a[Len(input)]
    BY MergePartialFromCodedStreamRuns, Zenon
  <1> QED
    BY <1>1, <1>2 DEF Runs

\* Whatever the bytes, ParseFromArray leaves a good message, one it rejects included.
LEMMA ParseIsGood ==
    ASSUME NEW t \in DOMAIN Classes, NEW W, Tokens(W), NEW bytes \in Seq(W)
    PROVE  ParseFromArray(t, bytes).msg \in Good(t, W)
  <1>1. MergePartialFromCodedStream(t, New(t), bytes).msg \in Good(t, W)
    BY NewIsGood, MergePartialFromCodedStreamIsGood DEF Readings
  <1> QED
    BY <1>1 DEF ParseFromArray

-----------------------------------------------------------------------------
(* Fields not set hold their defaults.                                     *)

\* A good message reads the default for each of its own fields that is not set.
LEMMA GoodIsDefaultedHere ==
    ASSUME NEW t \in DOMAIN Classes, NEW W, NEW m \in Good(t, W)
    PROVE  DefaultedHere(t, m)
  <1> SUFFICES ASSUME NEW f \in Fields(t)
               PROVE  IF IsMessage(t, f)
                      THEN \/ Repeated(t, f)
                           \/ has_(t, m, f)
                           \/ \A i \in DOMAIN m.val[f] : m.val[f][i].has = {}
                      ELSE has_(t, m, f) \/ m.val[f] = Classes[t].ctor[f]
    BY DEF DefaultedHere
  <1>1. MayHold(t, m.has, f, m.val[f], InnerSet(t, W))
    BY Parts DEF Good
  <1>2. CASE IsMessage(t, f)
    <2>1. ~Repeated(t, f) /\ ~has_(t, m, f) =>
            \A i \in DOMAIN m.val[f] : Blank(Kind(t, f), m.val[f][i])
      BY <1>1, <1>2, Zenon DEF MayHold, has_
    <2> QED
      BY <1>2, <2>1, Zenon DEF Blank
  <1>3. CASE ~IsMessage(t, f)
    BY <1>1, <1>3 DEF MayHold, has_
  <1> QED
    BY <1>2, <1>3

\* The messages inside a good message are good.
LEMMA InsideIsGood ==
    ASSUME NEW t \in DOMAIN Classes, NEW W, NEW m \in Good(t, W), NEW f \in Messages(t),
           NEW i \in DOMAIN m.val[f]
    PROVE  /\ m.val[f][i] \in Good(Kind(t, f), W)
           /\ Kind(t, f) \in DOMAIN Classes
           /\ t = "Header" => Kind(t, f) = "Entry"
           /\ t # "Header" => t \in Holders /\ Kind(t, f) = "Header"
  <1>1. f \in Fields(t) /\ IsMessage(t, f)
    BY DEF Messages
  <1>2. m.val[f] \in Seq(InnerSet(t, W))
    BY <1>1, Parts DEF Good, MayHold
  <1>3. m.val[f][i] \in InnerSet(t, W)
    BY <1>2
  <1> QED
    BY <1>1, <1>3, InnerIsGood

\* A good message reads the defaults for what is not set, the messages inside included.
LEMMA GoodIsDefaulted ==
    ASSUME NEW t \in DOMAIN Classes, NEW W, NEW m \in Good(t, W)
    PROVE  Defaulted(t, m)
  <1>1. ASSUME NEW u \in DOMAIN Classes, NEW n \in Good(u, W)
        PROVE  DefaultedHeader(u, n)
    <2>1. \A f \in Messages(u) : \A i \in DOMAIN n.val[f] :
            DefaultedHere(Kind(u, f), n.val[f][i])
      BY InsideIsGood, GoodIsDefaultedHere
    <2> QED
      BY <2>1, GoodIsDefaultedHere DEF DefaultedHeader, Every
  <1>2. \A f \in Messages(t) : \A i \in DOMAIN m.val[f] :
            DefaultedHeader(Kind(t, f), m.val[f][i])
    BY <1>1, InsideIsGood
  <1> QED
    BY <1>2, GoodIsDefaultedHere DEF Defaulted, Every

-----------------------------------------------------------------------------
(* The messages the application has.                                       *)

\* A sample is good if the samples inside it are.
LEMMA SampledIsGood ==
    ASSUME NEW t \in DOMAIN Classes, NEW W, NEW all \in BOOLEAN, NEW inside,
           \A f \in Messages(t) : inside[f] \in InnerSet(t, W)
    PROVE  Sampled(t, all, inside) \in Good(t, W)
  <1> DEFINE given == {f \in Fields(t) : \/ all
                                         \/ f = Len(Classes[t].field)
                                         \/ Kind(t, f) = "Header"}
             h == {Bit(t, f) : f \in given} \ {NoBit}
             v == [f \in Fields(t) |->
                    CASE f \notin given -> Classes[t].ctor[f]
                      [] f \in given /\ IsMessage(t, f) -> <<inside[f]>>
                      [] f \in given /\ Kind(t, f) = "string" -> f
                      [] f \in given /\ Kind(t, f) = "bool" -> 1 - Classes[t].ctor[f]
                      [] OTHER -> -f]
  <1>1. Sampled(t, all, inside) = [has |-> h, val |-> v, unknown |-> <<>>]
    BY DEF Sampled
  <1>2. /\ Fields(t) \subseteq Nat
        /\ \A f, g \in Fields(t) : Bit(t, f) = Bit(t, g) => f = g
        /\ \A f \in Fields(t) :
            IF IsMessage(t, f) THEN Classes[t].ctor[f] = NULL
            ELSE ~Repeated(t, f) /\ Classes[t].ctor[f] \in Int
    BY ClassesAgree DEF TablesAgree, FieldsAgree
  <1>3. v = [f \in Fields(t) |-> v[f]]
    OBVIOUS
  <1>4. given \subseteq Fields(t)
    OBVIOUS
  <1>5. \A f \in Fields(t) : f \notin given => v[f] = Classes[t].ctor[f]
    OBVIOUS
  <1>6. \A f \in Fields(t) : f \in given /\ IsMessage(t, f) => v[f] = <<inside[f]>>
    <2>1. \A f \in Fields(t) : IsMessage(t, f) => Kind(t, f) \notin {"string", "bool"}
      BY ClassNames DEF IsMessage, Flats, Holders
    <2> HIDE DEF given
    <2> QED
      BY <2>1
  <1>7. \A f \in Fields(t) : f \in given /\ ~IsMessage(t, f) => v[f] \in Int
    <2> HIDE DEF given
    <2> QED
      BY <1>2
  <1> HIDE DEF given, v
  <1>8. h \in SUBSET Bits(t)
    BY <1>4 DEF Bits
  <1>9. \A f \in Fields(t) : ~Repeated(t, f) => (Bit(t, f) \in h <=> f \in given)
    BY <1>2, <1>4 DEF Repeated
  <1> HIDE DEF h
  <1>10. ASSUME NEW f \in Fields(t)
         PROVE  MayHold(t, h, f, v[f], InnerSet(t, W))
    <2>1. CASE IsMessage(t, f) /\ f \in given
      <3>1. v[f] = <<inside[f]>> /\ inside[f] \in InnerSet(t, W)
        BY <1>6, <2>1 DEF Messages
      <3>2. v[f] \in Seq(InnerSet(t, W)) /\ Len(v[f]) = 1
        BY <3>1
      <3> QED
        BY <1>9, <2>1, <3>2 DEF MayHold
    <2>2. CASE IsMessage(t, f) /\ f \notin given
      <3>1. v[f] = <<>>
        BY <1>2, <1>5, <2>2 DEF NULL
      <3> QED
        BY <1>9, <2>2, <3>1 DEF MayHold
    <2>3. CASE ~IsMessage(t, f)
      BY <1>2, <1>5, <1>7, <1>9, <2>3 DEF MayHold
    <2> QED
      BY <2>1, <2>2, <2>3
  <1>11. <<>> \in Seq(W)
    OBVIOUS
  <1> QED
    BY <1>1, <1>3, <1>8, <1>10, <1>11, Build DEF Good

\* The messages that the application starts from are good.
LEMMA SampleIsGood ==
    ASSUME NEW t \in DOMAIN Classes, NEW W, NEW all \in BOOLEAN
    PROVE  Sample(t, all) \in Good(t, W)
  <1>1. ASSUME NEW u \in Flats
        PROVE  SampleFlat(u, all) \in Good(u, W)
    <2>1. u \in DOMAIN Classes /\ Messages(u) = {}
      BY ClassesAgree, ClassNames DEF TablesAgree, FieldsAgree, Messages
    <2> QED
      BY <2>1, SampledIsGood DEF SampleFlat
  <1>2. ASSUME NEW u \in Flats \cup {"Header"}
        PROVE  SampleHeader(u, all) \in Good(u, W)
    <2> DEFINE inside == [f \in Messages(u) |-> SampleFlat(Kind(u, f), all)]
    <2>1. u \in DOMAIN Classes
      BY ClassNames
    <2>2. \A f \in Messages(u) :
            f \in Fields(u) /\ IsMessage(u, f) /\ InnerSet(u, W) = Good(Kind(u, f), W)
      BY <2>1, InnerIsGood DEF Messages
    <2>3. \A f \in Messages(u) : Kind(u, f) \in Flats
      BY <2>1, <2>2, InnerIsGood DEF Flats, Holders
    <2>4. \A f \in Messages(u) : inside[f] \in InnerSet(u, W)
      BY <1>1, <2>2, <2>3
    <2> HIDE DEF inside
    <2>5. Sampled(u, all, inside) \in Good(u, W)
      BY <2>1, <2>4, SampledIsGood
    <2> QED
      BY <2>5 DEF SampleHeader, inside
  <1> DEFINE inside == [f \in Messages(t) |-> SampleHeader(Kind(t, f), all)]
  <1>3. \A f \in Messages(t) :
            f \in Fields(t) /\ IsMessage(t, f) /\ InnerSet(t, W) = Good(Kind(t, f), W)
    BY InnerIsGood DEF Messages
  <1>4. \A f \in Messages(t) : Kind(t, f) \in Flats \cup {"Header"}
    BY <1>3, InnerIsGood DEF Flats
  <1>5. \A f \in Messages(t) : inside[f] \in InnerSet(t, W)
    BY <1>2, <1>3, <1>4
  <1> HIDE DEF inside
  <1>6. Sampled(t, all, inside) \in Good(t, W)
    BY <1>5, SampledIsGood
  <1> QED
    BY <1>6 DEF Sample, inside

\* Whatever an accessor does, given what one does to the messages inside.
LEMMA AccessedByIsGood ==
    ASSUME NEW t \in DOMAIN Classes, NEW W, NEW m \in Good(t, W), NEW inside,
           \A f \in Messages(t) : inside[f] \subseteq InnerSet(t, W)
    PROVE  AccessedBy(t, m, inside) \subseteq Good(t, W)
  <1> SUFFICES ASSUME NEW n \in AccessedBy(t, m, inside)
               PROVE  n \in Good(t, W)
    OBVIOUS
  <1>1. PICK f \in Fields(t) :
            \/ n = clear_(t, m, f)
            \/ ~IsMessage(t, f) /\ \E v \in Values[Kind(t, f)] : n = set_(t, m, f, v)
            \/ IsMessage(t, f) /\ \E k \in inside[f] : n = Replaced(t, m, f, k)
            \/ IsMessage(t, f) /\ n = Ready(t, m, f)
            \/ IsMessage(t, f) /\ n = release_(t, m, f)
    BY Zenon DEF AccessedBy
  <1>2. CASE n = clear_(t, m, f)
    BY <1>2, ClearFieldIsGood
  <1>3. CASE ~IsMessage(t, f) /\ \E v \in Values[Kind(t, f)] : n = set_(t, m, f, v)
    <2>1. Kind(t, f) \in {"string", "bool", "int32", "int64"}
      BY <1>3, ClassesAgree DEF TablesAgree, FieldsAgree
    <2>2. Values[Kind(t, f)] \subseteq Int
      BY <2>1, CodecAssumption
    <2> QED
      BY <1>3, <2>2, SetIsGood
  <1>4. CASE IsMessage(t, f) /\ \E k \in inside[f] : n = Replaced(t, m, f, k)
    <2>1. PICK k \in inside[f] : n = Replaced(t, m, f, k)
      BY <1>4
    <2>2. f \in Messages(t)
      BY <1>4 DEF Messages
    <2>3. k \in InnerSet(t, W)
      BY <2>2
    <2> QED
      BY <1>4, <2>1, <2>3, ReadyIsGood
  <1>5. CASE IsMessage(t, f) /\ n = Ready(t, m, f)
    BY <1>5, ReadyIsGood
  <1>6. CASE IsMessage(t, f) /\ n = release_(t, m, f)
    BY <1>6, ReleaseIsGood
  <1> QED
    BY <1>1, <1>2, <1>3, <1>4, <1>5, <1>6

\* One call of an accessor, on the message or on one inside it.
LEMMA AccessedIsGood ==
    ASSUME NEW t \in DOMAIN Classes, NEW W, NEW m \in Good(t, W)
    PROVE  Accessed(t, m) \subseteq Good(t, W)
  <1>1. ASSUME NEW u \in Flats, NEW n \in Good(u, W)
        PROVE  AccessedFlat(u, n) \subseteq Good(u, W)
    <2>1. u \in DOMAIN Classes /\ Messages(u) = {}
      BY ClassesAgree, ClassNames DEF TablesAgree, FieldsAgree, Messages
    <2> QED
      BY <2>1, AccessedByIsGood DEF AccessedFlat
  <1>2. ASSUME NEW u \in DOMAIN Classes, NEW n \in Good(u, W), NEW f \in Messages(u)
        PROVE  /\ Current(u, n, f) \in Good(Kind(u, f), W)
               /\ InnerSet(u, W) = Good(Kind(u, f), W)
               /\ u = "Header" => Kind(u, f) = "Entry"
               /\ u # "Header" => u \in Holders /\ Kind(u, f) = "Header"
    <2>1. f \in Fields(u) /\ IsMessage(u, f)
      BY DEF Messages
    <2>2. Current(u, n, f) \in InnerSet(u, W)
      BY <2>1, ReadyIsGood
    <2> QED
      BY <2>1, <2>2, InnerIsGood
  <1>3. ASSUME NEW u \in Flats \cup {"Header"}, NEW n \in Good(u, W)
        PROVE  AccessedHeader(u, n) \subseteq Good(u, W)
    <2> DEFINE inside == [f \in Messages(u) |-> AccessedFlat(Kind(u, f), Current(u, n, f))]
    <2>1. u \in DOMAIN Classes
      BY ClassNames
    <2>2. \A f \in Messages(u) : Kind(u, f) \in Flats
      BY <1>2, <2>1 DEF Flats, Holders
    <2>3. \A f \in Messages(u) : inside[f] \subseteq InnerSet(u, W)
      BY <1>1, <1>2, <2>1, <2>2
    <2> HIDE DEF inside
    <2>4. AccessedBy(u, n, inside) \subseteq Good(u, W)
      BY <2>1, <2>3, AccessedByIsGood
    <2> QED
      BY <2>4 DEF AccessedHeader, inside
  <1> DEFINE inside == [f \in Messages(t) |-> AccessedHeader(Kind(t, f), Current(t, m, f))]
  <1>4. \A f \in Messages(t) : Kind(t, f) \in Flats \cup {"Header"}
    BY <1>2 DEF Flats
  <1>5. \A f \in Messages(t) : inside[f] \subseteq InnerSet(t, W)
    BY <1>2, <1>3, <1>4
  <1> HIDE DEF inside
  <1>6. AccessedBy(t, m, inside) \subseteq Good(t, W)
    BY <1>5, AccessedByIsGood
  <1> QED
    BY <1>6 DEF Accessed, inside

-----------------------------------------------------------------------------
(* What is written.                                                        *)

\* The tokens that hold those of a set, down to messages three deep.
TokenSet(S) == [tag : Int, val : Int, sub : S, cut : BOOLEAN]
FlatTokens == TokenSet({<<>>})
HeaderTokens == TokenSet(Seq(FlatTokens))
AllTokens == TokenSet(Seq(HeaderTokens))

\* What a class with no messages inside writes can stand inside what the others write.
LEMMA TokensInside ==
    /\ FlatTokens \subseteq HeaderTokens
    /\ HeaderTokens \subseteq AllTokens
    /\ Tokens(AllTokens)
  <1>1. ASSUME NEW S, NEW T, S \subseteq T
        PROVE  TokenSet(S) \subseteq TokenSet(T)
    BY <1>1 DEF TokenSet
  <1>2. ASSUME NEW S, NEW T, S \subseteq T
        PROVE  Seq(S) \subseteq Seq(T)
    BY <1>2
  <1>3. {<<>>} \subseteq Seq(FlatTokens)
    OBVIOUS
  <1>4. FlatTokens \subseteq HeaderTokens
    BY <1>1, <1>3 DEF FlatTokens, HeaderTokens
  <1>5. HeaderTokens \subseteq AllTokens
    BY <1>1, <1>2, <1>4 DEF HeaderTokens, AllTokens
  <1>6. Seq(HeaderTokens) \subseteq Seq(AllTokens)
    BY <1>2, <1>5
  <1>7. \A k \in AllTokens : k.tag \in Int /\ k.val \in Int /\ k.sub \in Seq(HeaderTokens)
    BY DEF AllTokens, TokenSet
  <1> QED
    BY <1>4, <1>5, <1>6, <1>7 DEF Tokens

\* The sequences so far, joined.
Joins(ss, W, a) ==
    /\ a = [i \in 1..Len(ss) |-> IF i = 1 THEN ss[i] ELSE a[i - 1] \o ss[i]]
    /\ \A i \in 1..Len(ss) : a[i] \in Seq(W)

\* FlattenSeq, by its partial results.
LEMMA Flattened ==
    ASSUME NEW W, NEW ss \in Seq(Seq(W)), Len(ss) # 0
    PROVE  \E a : Joins(ss, W, a) /\ FlattenSeq(ss) = a[Len(ss)]
  <1> DEFINE n == Len(ss)
             S == Seq(W)
             cat(x, i) == x \o ss[i]
             D == [p \in Nat \X S |-> IF p[1] \in 1..n
                                      THEN IF p[1] = 1 THEN ss[1] ELSE cat(p[2], p[1])
                                      ELSE p[2]]
             Is(a) == a = [i \in 1..n |-> IF i = 1 THEN ss[i] ELSE cat(a[i - 1], i)]
             at == CHOOSE a : Is(a)
  <1>1. FlattenSeq(ss) = at[n]
    BY DEF FlattenSeq
  <1>2. n \in Nat \ {0} /\ \A i \in 1..n : ss[i] \in S
    OBVIOUS
  <1>3. \A x \in S : \A i \in 1..n : cat(x, i) \in S
    OBVIOUS
  <1>4. <<>> \in S
    OBVIOUS
  <1> HIDE DEF S, n, cat
  <1>5. D \in [Nat \X S -> S]
    BY <1>2, <1>3
  <1>6. /\ \A x \in S : D[<<1, x>>] = ss[1]
        /\ \A i \in 2..n : \A x \in S : D[<<i, x>>] = cat(x, i)
    BY <1>2
  <1> HIDE DEF D
  <1>7. PICK g : Iterates(S, <<>>, D, g)
    BY <1>4, <1>5, Recursion
  <1>8. /\ \A i \in Nat : g[i] \in S
        /\ g[1] = ss[1]
        /\ \A i \in 2..n : g[i] = cat(g[i - 1], i)
    <2>1. /\ \A i \in Nat : g[i] \in S
          /\ \A i \in Nat \ {0} : g[i] = D[<<i, g[i - 1]>>]
      BY <1>7 DEF Iterates
    <2>2. g[1] = D[<<1, g[0]>>] /\ g[0] \in S
      BY <2>1
    <2>3. \A i \in 2..n : i \in Nat \ {0} /\ i - 1 \in Nat
      BY <1>2
    <2> QED
      BY <1>6, <2>1, <2>2, <2>3
  <1>9. \E a : Is(a)
    <2> DEFINE a == [i \in 1..n |-> g[i]]
    <2>1. \A i \in 2..n : a[i - 1] = g[i - 1]
      BY <1>2
    <2>2. a = [i \in 1..n |-> IF i = 1 THEN ss[i] ELSE cat(a[i - 1], i)]
      <3> DEFINE b == [i \in 1..n |-> IF i = 1 THEN ss[i] ELSE cat(a[i - 1], i)]
      <3>1. \A i \in 1..n : b[i] = g[i]
        <4> HIDE DEF a
        <4>1. TAKE i \in 1..n
        <4>2. CASE i = 1
          BY <1>8, <4>2
        <4>3. CASE i # 1
          <5>1. i \in 2..n
            BY <1>2, <4>3
          <5> QED
            BY <1>8, <2>1, <4>3, <5>1
        <4> QED
          BY <4>2, <4>3
      <3> QED
        BY <3>1
    <2> HIDE DEF a
    <2> QED
      BY <2>2
  <1>10. Is(at)
    BY <1>9
  <1> HIDE DEF at
  <1>11. \A i \in 1..n : at[i] \in S
    <2> DEFINE b == [i \in 0..(n - 1) |-> at[i + 1]]
    <2>1. b[0] \in S
      BY <1>2, <1>10
    <2>2. \A i \in 1..(n - 1) : b[i - 1] \in S => b[i] \in S
      <3>1. TAKE i \in 1..(n - 1)
      <3>2. /\ i \in 0..(n - 1) /\ i - 1 \in 0..(n - 1) /\ (i - 1) + 1 = i
            /\ i + 1 \in 1..n /\ i + 1 # 1 /\ (i + 1) - 1 = i
        BY <1>2
      <3>3. b[i] = at[i + 1] /\ b[i - 1] = at[i]
        BY <3>2
      <3>4. at[i + 1] = cat(at[i], i + 1)
        BY <1>10, <3>2
      <3> HIDE DEF b
      <3> QED
        BY <1>3, <3>2, <3>3, <3>4
    <2>3. \A i \in 0..(n - 1) : b[i] \in S
      <3>1. n - 1 \in Nat
        BY <1>2
      <3> HIDE DEF b, Is
      <3> QED
        BY <2>1, <2>2, <3>1, LoopStays
    <2>4. TAKE i \in 1..n
    <2>5. i - 1 \in 0..(n - 1) /\ b[i - 1] = at[i]
      BY <1>2
    <2> HIDE DEF b
    <2> QED
      BY <2>3, <2>5
  <1>12. Joins(ss, W, at)
    BY <1>10, <1>11 DEF Joins, S, n, cat
  <1> QED
    BY <1>1, <1>12 DEF n

\* There are no unknown fields in what the application makes.
LEMMA NothingUnknown ==
    ASSUME NEW t, NEW m \in Good(t, {})
    PROVE  m.unknown = <<>>
  <1>1. m.unknown \in Seq({})
    BY Parts DEF Good
  <1> QED
    BY <1>1

\* What SerializeWithCachedSizes writes of one field are tokens.
LEMMA WrittenIsTokens ==
    ASSUME NEW t \in DOMAIN Classes, NEW m \in Good(t, {}), NEW S, <<>> \in S, NEW inside,
           \A f \in Messages(t) : \A i \in DOMAIN m.val[f] : inside[f][i] \in S,
           NEW f \in Fields(t)
    PROVE  Written(t, m, f, inside) \in Seq(TokenSet(S))
  <1>0. Fields(t) = 1..Len(Classes[t].field) /\ Len(Classes[t].field) \in Nat
    BY ClassesAgree DEF TablesAgree, FieldsAgree
  <1>a. f \in Int
    BY <1>0
  <1>b. Classes[t].write[f] = Kind(t, f)
    BY ClassesAgree DEF TablesAgree, OthersAgree
  <1>1. Classes[t].write[f] = Kind(t, f) /\ f \in Int
    BY <1>a, <1>b
  <1>2. MayHold(t, m.has, f, m.val[f], InnerSet(t, {}))
    BY Parts DEF Good
  <1>3. CASE ~Repeated(t, f) /\ ~has_(t, m, f)
    BY <1>3 DEF Written
  <1>4. CASE ~(~Repeated(t, f) /\ ~has_(t, m, f)) /\ IsMessage(t, f)
    <2> DEFINE w == [i \in DOMAIN m.val[f] |-> Token(8 * f + 2, 0, inside[f][i])]
    <2>1. Written(t, m, f, inside) = w
      BY <1>1, <1>4 DEF Written, IsMessage
    <2>2. m.val[f] \in Seq(InnerSet(t, {})) /\ f \in Messages(t)
      BY <1>2, <1>4 DEF MayHold, Messages
    <2>3. Len(m.val[f]) \in Nat /\ DOMAIN m.val[f] = 1..Len(m.val[f])
      BY <2>2
    <2>4. \A i \in 1..Len(m.val[f]) : w[i] \in TokenSet(S)
      BY <1>1, <2>2, <2>3 DEF Token, TokenSet
    <2>5. w = [i \in 1..Len(m.val[f]) |-> w[i]]
      BY <2>3
    <2> HIDE DEF w
    <2> QED
      BY <2>1, <2>3, <2>4, <2>5, IsSequence
  <1>5. CASE ~(~Repeated(t, f) /\ ~has_(t, m, f)) /\ ~IsMessage(t, f)
    <2> DEFINE tag == IF Kind(t, f) = "string" THEN 8 * f + 2 ELSE 8 * f
    <2>1. Written(t, m, f, inside) = <<Token(tag, m.val[f], <<>>)>>
      BY <1>1, <1>5 DEF Written, IsMessage
    <2>2. tag \in Int /\ m.val[f] \in Int
      BY <1>1, <1>2, <1>5 DEF MayHold
    <2> HIDE DEF tag
    <2>3. Token(tag, m.val[f], <<>>) \in TokenSet(S)
      BY <2>2 DEF Token, TokenSet
    <2> QED
      BY <2>1, <2>3
  <1> QED
    BY <1>3, <1>4, <1>5

\* The sequence of what is written of each field.
Pieces(t, m, inside) == [f \in DOMAIN Classes[t].write |-> Written(t, m, f, inside)]

\* What SerializeWithCachedSizes writes are tokens, field after field.
LEMMA PiecesAreTokens ==
    ASSUME NEW t \in DOMAIN Classes, NEW m \in Good(t, {}), NEW S, <<>> \in S, NEW inside,
           \A f \in Messages(t) : \A i \in DOMAIN m.val[f] : inside[f][i] \in S
    PROVE  /\ Pieces(t, m, inside) \in Seq(Seq(TokenSet(S)))
           /\ Len(Pieces(t, m, inside)) = Len(Classes[t].field)
           /\ Len(Classes[t].field) \in Nat \ {0}
           /\ Fields(t) = 1..Len(Classes[t].field)
           /\ \A f \in Fields(t) : Pieces(t, m, inside)[f] = Written(t, m, f, inside)
           /\ Serialized(t, m, inside) = FlattenSeq(Pieces(t, m, inside))
           /\ Serialized(t, m, inside) \in Seq(TokenSet(S))
  <1> DEFINE n == Len(Classes[t].field)
             w == Pieces(t, m, inside)
  <1>1. n \in Nat /\ Fields(t) = 1..n /\ DOMAIN Classes[t].write = Fields(t)
    BY ClassesAgree DEF TablesAgree, FieldsAgree, OthersAgree
  <1>2. n # 0
    BY ClassesAgree DEF TablesAgree, FieldsAgree
  <1>3. w = [f \in 1..n |-> Written(t, m, f, inside)]
    BY <1>1 DEF Pieces
  <1>4. \A f \in 1..n : Written(t, m, f, inside) \in Seq(TokenSet(S))
    BY <1>1, WrittenIsTokens
  <1>5. \A f \in 1..n : w[f] = Written(t, m, f, inside)
    BY <1>3
  <1>6. w = [f \in 1..n |-> w[f]]
    BY <1>3
  <1> HIDE DEF w, n
  <1>7. w \in Seq(Seq(TokenSet(S))) /\ Len(w) = n
    BY <1>1, <1>4, <1>5, <1>6, IsSequence
  <1>8. PICK a : Joins(w, TokenSet(S), a) /\ FlattenSeq(w) = a[Len(w)]
    BY <1>2, <1>7, Flattened
  <1>9. FlattenSeq(w) \in Seq(TokenSet(S))
    BY <1>1, <1>2, <1>7, <1>8 DEF Joins
  <1>10. Serialized(t, m, inside) = FlattenSeq(w) \o <<>>
    BY NothingUnknown DEF Serialized, Pieces, w
  <1>11. FlattenSeq(w) \o <<>> = FlattenSeq(w)
    BY <1>9
  <1> QED
    BY <1>1, <1>2, <1>5, <1>7, <1>9, <1>10, <1>11 DEF w, n

\* SerializeWithCachedSizes of the classes with no messages inside.
LEMMA SerializeFlatIsTokens ==
    ASSUME NEW t \in Flats, NEW m \in Good(t, {})
    PROVE  SerializeFlat(t, m) \in Seq(FlatTokens)
  <1>1. t \in DOMAIN Classes /\ Messages(t) = {}
    BY ClassesAgree, ClassNames DEF TablesAgree, FieldsAgree, Messages
  <1> QED
    BY <1>1, PiecesAreTokens DEF SerializeFlat, FlatTokens

\* Header::SerializeWithCachedSizes.
LEMMA SerializeHeaderIsTokens ==
    ASSUME NEW t \in Flats \cup {"Header"}, NEW m \in Good(t, {})
    PROVE  SerializeHeader(t, m) \in Seq(HeaderTokens)
  <1> DEFINE inside == [f \in Messages(t) |-> [i \in DOMAIN m.val[f] |->
                          SerializeFlat(Kind(t, f), m.val[f][i])]]
  <1>1. t \in DOMAIN Classes /\ <<>> \in Seq(FlatTokens)
    BY ClassNames
  <1>2. \A f \in Messages(t) : \A i \in DOMAIN m.val[f] :
          Kind(t, f) \in Flats /\ m.val[f][i] \in Good(Kind(t, f), {})
    BY <1>1, InsideIsGood DEF Flats, Holders
  <1>3. \A f \in Messages(t) : \A i \in DOMAIN m.val[f] : inside[f][i] \in Seq(FlatTokens)
    BY <1>2, SerializeFlatIsTokens
  <1>4. SerializeHeader(t, m) = Serialized(t, m, inside)
    BY DEF SerializeHeader, Inside
  <1> HIDE DEF inside
  <1>5. Serialized(t, m, inside) \in Seq(TokenSet(Seq(FlatTokens)))
    BY <1>1, <1>3, PiecesAreTokens, Zenon
  <1> QED
    BY <1>4, <1>5, Zenon DEF HeaderTokens

\* SerializeWithCachedSizes of every class.
LEMMA SerializeIsTokens ==
    ASSUME NEW t \in DOMAIN Classes, NEW m \in Good(t, {})
    PROVE  Serialize(t, m) \in Seq(AllTokens)
  <1> DEFINE inside == [f \in Messages(t) |-> [i \in DOMAIN m.val[f] |->
                            SerializeHeader(Kind(t, f), m.val[f][i])]]
  <1>1. \A f \in Messages(t) : \A i \in DOMAIN m.val[f] :
            Kind(t, f) \in Flats \cup {"Header"} /\ m.val[f][i] \in Good(Kind(t, f), {})
    BY InsideIsGood DEF Flats
  <1>2. \A f \in Messages(t) : \A i \in DOMAIN m.val[f] : inside[f][i] \in Seq(HeaderTokens)
    BY <1>1, SerializeHeaderIsTokens
  <1>3. Serialize(t, m) = Serialized(t, m, inside) /\ <<>> \in Seq(HeaderTokens)
    BY DEF Serialize, Inside
  <1> HIDE DEF inside
  <1>4. Serialized(t, m, inside) \in Seq(TokenSet(Seq(HeaderTokens)))
    BY <1>2, <1>3, PiecesAreTokens, Zenon
  <1> QED
    BY <1>3, <1>4, Zenon DEF AllTokens

\* The tokens left of a body that ends early.
LEMMA TruncatedByIsTokens ==
    ASSUME NEW S, NEW bytes \in Seq(TokenSet(S)), NEW inside,
           \A i \in DOMAIN bytes : bytes[i].sub # <<>> => inside[i] \subseteq S
    PROVE  TruncatedBy(bytes, inside) \subseteq Seq(TokenSet(S))
  <1> DEFINE Cut(k) == [k EXCEPT !.cut = TRUE]
             In(i) ==
                LET k == bytes[i]
                IN  IF k.sub # <<>> THEN {Cut(k)} \cup {[k EXCEPT !.sub = s] : s \in inside[i]}
                    ELSE {[Cut(k) EXCEPT !.val = IF k.tag % 8 = 2 /\ @ = 0 THEN @ ELSE @ - 1]}
  <1>1. ASSUME NEW k \in TokenSet(S)
        PROVE  Cut(k) \in TokenSet(S) /\ Cut(k).val = k.val
    BY DEF TokenSet
  <1>2. ASSUME NEW k \in TokenSet(S), NEW s \in S
        PROVE  [k EXCEPT !.sub = s] \in TokenSet(S)
    BY DEF TokenSet
  <1>3. ASSUME NEW k \in TokenSet(S), NEW v \in Int
        PROVE  [k EXCEPT !.val = v] \in TokenSet(S)
    BY DEF TokenSet
  <1>4. ASSUME NEW i \in DOMAIN bytes
        PROVE  In(i) \subseteq TokenSet(S)
    <2>0. bytes[i] \in TokenSet(S)
      OBVIOUS
    <2>1. bytes[i] \in TokenSet(S) /\ bytes[i].val \in Int
      BY <2>0 DEF TokenSet
    <2>2. CASE bytes[i].sub # <<>>
      <3> HIDE DEF Cut
      <3> QED
        BY <1>1, <1>2, <2>1, <2>2
    <2>3. CASE bytes[i].sub = <<>>
      <3> DEFINE c == Cut(bytes[i])
                 v == IF bytes[i].tag % 8 = 2 /\ c.val = 0 THEN c.val ELSE c.val - 1
      <3>1. In(i) = {[c EXCEPT !.val = v]}
        BY <2>3
      <3>2. c \in TokenSet(S) /\ c.val \in Int
        BY <1>1, <2>1
      <3> HIDE DEF c
      <3>3. v \in Int
        BY <3>2
      <3> HIDE DEF v, In
      <3> QED
        BY <1>3, <3>1, <3>2, <3>3
    <2> QED
      BY <2>2, <2>3
  <1>5. TruncatedBy(bytes, inside) =
            UNION {{SubSeq(bytes, 1, i - 1)}
                   \cup {Append(SubSeq(bytes, 1, i - 1), k) : k \in In(i)} : i \in DOMAIN bytes}
    BY DEF TruncatedBy
  <1> HIDE DEF In
  <1>6. \A i \in DOMAIN bytes : SubSeq(bytes, 1, i - 1) \in Seq(TokenSet(S))
    <2> HIDE DEF TokenSet
    <2> QED
      OBVIOUS
  <1>7. \A i \in DOMAIN bytes : \A k \in In(i) :
            Append(SubSeq(bytes, 1, i - 1), k) \in Seq(TokenSet(S))
    BY <1>4, <1>6
  <1> SUFFICES ASSUME NEW b \in TruncatedBy(bytes, inside)
               PROVE  b \in Seq(TokenSet(S))
    OBVIOUS
  <1>8. PICK i \in DOMAIN bytes :
            b \in {SubSeq(bytes, 1, i - 1)}
                   \cup {Append(SubSeq(bytes, 1, i - 1), k) : k \in In(i)}
    BY <1>5, Zenon
  <1>9. b = SubSeq(bytes, 1, i - 1) \/ \E k \in In(i) : b = Append(SubSeq(bytes, 1, i - 1), k)
    BY <1>8, Zenon
  <1> QED
    BY <1>6, <1>7, <1>9, Zenon

\* A body that is cut short, on any level, is made of tokens.
LEMMA TruncatedIsTokens ==
    ASSUME NEW bytes \in Seq(AllTokens)
    PROVE  Truncated(bytes) \subseteq Seq(AllTokens)
  <1>1. ASSUME NEW b \in Seq(FlatTokens)
        PROVE  TruncatedFlat(b) \subseteq Seq(FlatTokens)
    <2>0. \A i \in DOMAIN b : b[i] \in FlatTokens
      OBVIOUS
    <2>1. \A i \in DOMAIN b : b[i].sub = <<>>
      BY <2>0 DEF FlatTokens, TokenSet
    <2> QED
      BY <2>1, TruncatedByIsTokens DEF TruncatedFlat, FlatTokens
  <1>2. ASSUME NEW b \in Seq(HeaderTokens)
        PROVE  TruncatedHeader(b) \subseteq Seq(HeaderTokens)
    <2> DEFINE inside == [i \in DOMAIN b |-> TruncatedFlat(b[i].sub)]
    <2>0. \A i \in DOMAIN b : b[i] \in HeaderTokens
      OBVIOUS
    <2>1. \A i \in DOMAIN b : b[i].sub \in Seq(FlatTokens)
      BY <2>0 DEF HeaderTokens, TokenSet
    <2>2. \A i \in DOMAIN b : inside[i] \subseteq Seq(FlatTokens)
      BY <1>1, <2>1
    <2>3. TruncatedHeader(b) = TruncatedBy(b, inside)
      BY DEF TruncatedHeader
    <2> HIDE DEF inside
    <2> QED
      BY <2>2, <2>3, TruncatedByIsTokens DEF HeaderTokens
  <1> DEFINE inside == [i \in DOMAIN bytes |-> TruncatedHeader(bytes[i].sub)]
  <1>0. \A i \in DOMAIN bytes : bytes[i] \in AllTokens
    OBVIOUS
  <1>3. \A i \in DOMAIN bytes : bytes[i].sub \in Seq(HeaderTokens)
    BY <1>0 DEF AllTokens, TokenSet
  <1>4. \A i \in DOMAIN bytes : inside[i] \subseteq Seq(HeaderTokens)
    BY <1>2, <1>3
  <1>5. Truncated(bytes) = TruncatedBy(bytes, inside)
    BY DEF Truncated
  <1> HIDE DEF inside
  <1> QED
    BY <1>4, <1>5, TruncatedByIsTokens DEF AllTokens

-----------------------------------------------------------------------------
(* The specification keeps to good messages.                               *)

\* A body, whoever wrote it, is a sequence of tokens.
LEMMA BodiesAreTokens ==
    ASSUME NEW bytes \in Seq(AllTokens)
    PROVE  /\ Reverse(bytes) \in Seq(AllTokens)
           /\ <<Unknown>> \o bytes \o <<Unknown>> \in Seq(AllTokens)
           /\ Retyped(bytes) \in Seq(AllTokens)
           /\ bytes \o <<Token(124, 0, <<>>)>> \in Seq(AllTokens)
  <1> DEFINE n == Len(bytes)
  <1>1. n \in Nat /\ DOMAIN bytes = 1..n
    OBVIOUS
  <1>2. \A i \in 1..n : bytes[i] \in AllTokens
    OBVIOUS
  <1>3. ASSUME NEW tag \in Int, NEW val \in Int
        PROVE  Token(tag, val, <<>>) \in AllTokens
    BY DEF Token, AllTokens, TokenSet
  <1>4. Reverse(bytes) \in Seq(AllTokens)
    <2> DEFINE s == [i \in 1..n |-> bytes[n - i + 1]]
    <2>1. \A i \in 1..n : n - i + 1 \in 1..n
      BY <1>1
    <2>2. \A i \in 1..n : s[i] \in AllTokens
      BY <1>2, <2>1
    <2>3. Reverse(bytes) = s
      BY DEF Reverse
    <2>4. s = [i \in 1..n |-> s[i]]
      OBVIOUS
    <2> HIDE DEF s, n
    <2> QED
      BY <1>1, <2>2, <2>3, <2>4, IsSequence
  <1>5. Retyped(bytes) \in Seq(AllTokens)
    <2> DEFINE tag(i) == IF bytes[i].tag % 8 = 0 THEN bytes[i].tag + 2 ELSE bytes[i].tag - 2
               s == [i \in 1..n |-> Token(tag(i), i, <<>>)]
    <2>1. \A i \in 1..n : bytes[i].tag \in Int
      BY <1>2 DEF AllTokens, TokenSet
    <2>2. \A i \in 1..n : tag(i) \in Int /\ i \in Int
      BY <1>1, <2>1
    <2>3. Retyped(bytes) = s
      BY <1>1 DEF Retyped
    <2>4. \A i \in 1..n : s[i] = Token(tag(i), i, <<>>)
      OBVIOUS
    <2>5. s = [i \in 1..n |-> s[i]]
      OBVIOUS
    <2> HIDE DEF s, n, tag
    <2>6. \A i \in 1..n : s[i] \in AllTokens
      BY <1>3, <2>2, <2>4
    <2> QED
      BY <1>1, <2>3, <2>5, <2>6, IsSequence
  <1>6. Unknown \in AllTokens /\ Token(124, 0, <<>>) \in AllTokens
    BY <1>3 DEF Unknown
  <1>7. ASSUME NEW k \in AllTokens, NEW s \in Seq(AllTokens)
        PROVE  <<k>> \o s \in Seq(AllTokens) /\ s \o <<k>> \in Seq(AllTokens)
    OBVIOUS
  <1> HIDE DEF n
  <1> QED
    BY <1>4, <1>5, <1>6, <1>7

\* The messages are good, so is the one that was parsed, and bodies are tokens.
CodecInv ==
    /\ cmd \in Cmds
    /\ msg \in Good(type, {})
    /\ other \in Good(type, {})
    /\ out.body \in Seq(AllTokens)
    /\ readPkg.message # NULL =>
            /\ readPkg.cmdType \in KnownCmds
            /\ readPkg.message[1] \in Good(ClassOf[readPkg.cmdType], AllTokens)

\* Every command has a class.
LEMMA ClassOfCmd ==
    /\ \A c \in Cmds : ClassOf[c] \in DOMAIN Classes
    /\ \A c \in KnownCmds : c \in Cmds
  BY ClassNames DEF ClassOf, Cmds, KnownCmds, Flats, Holders

\* The messages are good at first.
LEMMA InitIsGood == Init => CodecInv
  <1> SUFFICES ASSUME Init PROVE CodecInv
    OBVIOUS
  <1>1. cmd \in Cmds /\ type \in DOMAIN Classes
    BY ClassOfCmd DEF Init, type
  <1>2. \A m \in {New(type), Full(type), Sparse(type)} : m \in Good(type, {})
    BY <1>1, NewIsGood, SampleIsGood DEF Full, Sparse
  <1>3. msg \in Good(type, {}) /\ other \in Good(type, {})
    BY <1>2, Zenon DEF Init
  <1>4. out.body = <<>> /\ readPkg.message = NULL
    BY DEF Init, NoBytes, NoPacket
  <1> QED
    BY <1>1, <1>3, <1>4 DEF CodecInv

\* A call leaves good messages.
LEMMA CallsAreGood ==
    ASSUME CodecInv,
           CallAccessor \/ CallClear \/ CallMergeFrom \/ CallCopyFrom \/ CallSwap
    PROVE  CodecInv'
  <1>1. type \in DOMAIN Classes /\ msg \in Good(type, {}) /\ other \in Good(type, {})
    BY ClassOfCmd DEF CodecInv, type
  <1>2. cmd' = cmd /\ type' = type /\ out' = out /\ readPkg' = readPkg
    BY DEF CallAccessor, CallClear, CallMergeFrom, CallCopyFrom, CallSwap, Call, type
  <1>3. msg' \in Good(type, {}) /\ other' \in Good(type, {})
    <2>1. CASE CallAccessor
      BY <1>1, <2>1, AccessedIsGood, Zenon DEF CallAccessor
    <2>2. CASE CallClear
      BY <1>1, <2>2, ClearIsGood DEF CallClear
    <2>3. CASE CallMergeFrom
      BY <1>1, <2>3, MergeFromIsGood DEF CallMergeFrom
    <2>4. CASE CallCopyFrom
      BY <1>1, <2>4, ClearIsGood, MergeFromIsGood DEF CallCopyFrom, CopyFrom
    <2>5. CASE CallSwap
      BY <1>1, <2>5, SwappedIsGood DEF CallSwap
    <2> QED
      BY <2>1, <2>2, <2>3, <2>4, <2>5
  <1> QED
    BY <1>2, <1>3 DEF CodecInv

\* Writing a packet leaves the messages good, and its body is made of tokens.
LEMMA WriteIsGood ==
    ASSUME CodecInv, write
    PROVE  CodecInv'
  <1>1. type \in DOMAIN Classes /\ msg \in Good(type, {})
    BY ClassOfCmd DEF CodecInv, type
  <1>2. cmd' = cmd /\ type' = type /\ msg' = msg /\ other' = other /\ readPkg' = readPkg
    BY DEF write, appVars, type
  <1>3. PICK h \in Headers :
            pkg' = [opaque |-> h.opaque, cmdType |-> cmd, version |-> h.version,
                    extension |-> h.extension, message |-> <<msg>>]
    BY Zenon DEF write
  <1>4. pkg'.cmdType = cmd /\ pkg'.message[1] = msg
    BY <1>3
  <1>5. Serialize(type, msg) \in Seq(AllTokens)
    BY <1>1, SerializeIsTokens
  <1>6. out'.body \in Seq(AllTokens)
    <2>1. CASE out' = toByteBuf(pkg')
      <3>1. out'.body = Serialize(ClassOf[pkg'.cmdType], pkg'.message[1])
        BY <2>1 DEF toByteBuf, Frame
      <3> QED
        BY <1>4, <1>5, <3>1 DEF type
    <2>2. CASE \E b \in Bodies : out' = Frame(pkg', WireSize(b[2]), b[2])
      <3>1. PICK b \in Bodies : out' = Frame(pkg', WireSize(b[2]), b[2])
        BY <2>2
      <3> DEFINE bytes == Serialize(type, msg)
      <3>2. out'.body = b[2]
        BY <3>1 DEF Frame
      <3>3. \/ b[2] \in {Reverse(bytes), <<Unknown>> \o bytes \o <<Unknown>>, Retyped(bytes),
                         bytes \o <<Token(124, 0, <<>>)>>}
            \/ b[2] \in Truncated(bytes)
        <4> HIDE DEF bytes
        <4> QED
          BY DEF Bodies, bytes
      <3> HIDE DEF bytes
      <3> QED
        BY <1>5, <3>2, <3>3, BodiesAreTokens, TruncatedIsTokens DEF bytes
    <2> QED
      BY <2>1, <2>2 DEF write
  <1> QED
    BY <1>2, <1>6 DEF CodecInv

\* The packet that parseFrom makes has a good message.
LEMMA ReadIsGood ==
    ASSUME CodecInv, read
    PROVE  CodecInv'
  <1>1. cmd' = cmd /\ type' = type /\ msg' = msg /\ other' = other
    BY DEF read, appVars, type
  <1>2. out'.body = <<>>
    BY DEF read, NoBytes
  <1>3. out.body \in Seq(AllTokens)
    BY DEF CodecInv
  <1>4. CASE readPkg' = readPkg
    BY <1>1, <1>2, <1>4 DEF CodecInv
  <1>5. CASE readPkg' \in parseFrom(out, pkglen)
    <2>1. PICK h : /\ h.cmdType \in KnownCmds
                   /\ readPkg'.cmdType = h.cmdType
                   /\ readPkg'.message = <<ParseFromArray(ClassOf[h.cmdType], out.body).msg>>
      BY <1>5 DEF parseFrom
    <2>2. ClassOf[h.cmdType] \in DOMAIN Classes
      BY <2>1, ClassOfCmd
    <2>3. ParseFromArray(ClassOf[h.cmdType], out.body).msg \in Good(ClassOf[h.cmdType], AllTokens)
      BY <1>3, <2>2, ParseIsGood, TokensInside
    <2>4. readPkg'.message[1] \in Good(ClassOf[readPkg'.cmdType], AllTokens)
      BY <2>1, <2>3
    <2> QED
      BY <1>1, <1>2, <2>1, <2>4 DEF CodecInv
  <1> QED
    BY <1>4, <1>5 DEF read

\* Whatever calls the application makes, and whatever is read, messages are good.
THEOREM MessagesStayGood == Spec => []CodecInv
  <1>1. CodecInv /\ [Next]_vars => CodecInv'
    <2> SUFFICES ASSUME CodecInv, [Next]_vars PROVE CodecInv'
      OBVIOUS
    <2>1. CASE UNCHANGED vars
      BY <2>1 DEF CodecInv, vars, appVars, type
    <2>2. CASE Next
      BY <2>2, CallsAreGood, WriteIsGood, ReadIsGood DEF Next
    <2> QED
      BY <2>1, <2>2
  <1> QED
    BY <1>1, InitIsGood, PTL DEF Spec

\* kite_remoting.pb.cc, Clear and MergePartialFromCodedStream of every class: a field
\* that is not set reads as its default, after any calls, whatever the values, and
\* after the parse of any bytes.
THEOREM UnsetReadsAsDefault == Spec => []UnsetIsDefault
  <1>1. CodecInv => UnsetIsDefault
    <2> SUFFICES ASSUME CodecInv PROVE UnsetIsDefault
      OBVIOUS
    <2>1. type \in DOMAIN Classes /\ msg \in Good(type, {}) /\ other \in Good(type, {})
      BY ClassOfCmd DEF CodecInv, type
    <2>2. Defaulted(type, msg) /\ Defaulted(type, other)
      BY <2>1, GoodIsDefaulted
    <2>3. ASSUME readPkg.message # NULL
          PROVE  Defaulted(ClassOf[readPkg.cmdType], readPkg.message[1])
      <3>1. /\ readPkg.cmdType \in KnownCmds
            /\ readPkg.message[1] \in Good(ClassOf[readPkg.cmdType], AllTokens)
        BY <2>3 DEF CodecInv
      <3>2. ClassOf[readPkg.cmdType] \in DOMAIN Classes
        BY <3>1, ClassOfCmd
      <3> QED
        BY <3>1, <3>2, GoodIsDefaulted
    <2> QED
      BY <2>2, <2>3 DEF UnsetIsDefault
  <1> QED
    BY <1>1, MessagesStayGood, PTL

-----------------------------------------------------------------------------
(* A copy reads as the original.                                           *)

\* What a merge into a blank message leaves: the fields of the other one.
LEMMA MergedIntoBlank ==
    ASSUME NEW t \in DOMAIN Classes, NEW W, NEW m \in Good(t, W), Blank(t, m),
           NEW from \in Good(t, W), NEW inside, MergesInside(t, from, inside, W),
           NEW r, r = Merged(t, m, from, inside), NEW f \in Fields(t)
    PROVE  /\ ~Repeated(t, f) => (has_(t, r, f) <=> has_(t, from, f))
           /\ IsMessage(t, f) /\ (Repeated(t, f) \/ has_(t, r, f)) => r.val[f] = inside[f]
           /\ ~IsMessage(t, f) => ~Repeated(t, f) /\ r.val[f] = from.val[f]
  <1> DEFINE v == [g \in Fields(t) |->
                    IF g \in Given(t, from)
                    THEN IF IsMessage(t, g) THEN inside[g] ELSE from.val[g]
                    ELSE IF Repeated(t, g) THEN m.val[g] \o inside[g]
                    ELSE m.val[g]]
             h == m.has \cup {Bit(t, g) : g \in Given(t, from)}
             u == m.unknown \o from.unknown
  <1>1. r = [has |-> h, val |-> v, unknown |-> u]
    BY MergedParts
  <1> HIDE DEF h, v, u
  <1>2. r.has = h /\ r.val = v
    BY <1>1
  <1>3. m.has = {} /\ \A g \in Fields(t) : Repeated(t, g) => m.val[g] = NULL
    BY DEF Blank
  <1>4. \A g \in Fields(t) : Bit(t, f) = Bit(t, g) => f = g
    BY ClassesAgree DEF TablesAgree, FieldsAgree
  <1>5. ASSUME ~Repeated(t, f)
        PROVE  has_(t, r, f) <=> has_(t, from, f)
    BY <1>2, <1>3, <1>4, <1>5 DEF h, Given, has_
  <1>6. v[f] = IF f \in Given(t, from)
               THEN IF IsMessage(t, f) THEN inside[f] ELSE from.val[f]
               ELSE IF Repeated(t, f) THEN m.val[f] \o inside[f]
               ELSE m.val[f]
    BY DEF v
  <1>7. ASSUME IsMessage(t, f), Repeated(t, f) \/ has_(t, r, f)
        PROVE  r.val[f] = inside[f]
    <2>1. CASE Repeated(t, f)
      <3>1. f \in Messages(t)
        BY <1>7 DEF Messages
      <3>2. inside[f] \in Seq(InnerSet(t, W))
        BY <3>1 DEF MergesInside
      <3>3. m.val[f] = <<>> /\ f \notin Given(t, from)
        BY <1>3, <2>1 DEF NULL, Given
      <3>4. <<>> \o inside[f] = inside[f]
        BY <3>2
      <3> QED
        BY <1>2, <1>6, <2>1, <3>3, <3>4
    <2>2. CASE ~Repeated(t, f)
      <3>1. f \in Given(t, from)
        BY <1>5, <1>7, <2>2 DEF Given
      <3> QED
        BY <1>2, <1>6, <1>7, <3>1
    <2> QED
      BY <2>1, <2>2
  <1>8. ASSUME ~IsMessage(t, f)
        PROVE  ~Repeated(t, f) /\ r.val[f] = from.val[f]
    <2>1. ~Repeated(t, f)
      BY <1>8, ClassesAgree DEF TablesAgree, FieldsAgree
    <2>2. CASE f \in Given(t, from)
      BY <1>2, <1>6, <1>8, <2>1, <2>2
    <2>3. CASE f \notin Given(t, from)
      <3>1. Bit(t, f) \notin from.has /\ Bit(t, f) \notin m.has
        BY <1>3, <2>1, <2>3 DEF Given, has_
      <3>a. MayHold(t, m.has, f, m.val[f], InnerSet(t, W))
        BY Parts DEF Good
      <3>b. MayHold(t, from.has, f, from.val[f], InnerSet(t, W))
        BY Parts DEF Good
      <3>2. m.val[f] = Classes[t].ctor[f] /\ from.val[f] = Classes[t].ctor[f]
        BY <1>8, <3>1, <3>a, <3>b DEF MayHold
      <3> QED
        BY <1>2, <1>6, <2>1, <2>3, <3>2
    <2> QED
      BY <2>1, <2>2, <2>3
  <1> QED
    BY <1>5, <1>7, <1>8

\* Two messages read alike if they have the same fields and messages inside that do.
LEMMA ReadAlike ==
    ASSUME NEW t, NEW r, NEW m, NEW ri, NEW mi,
           \A f \in Fields(t) :
             /\ ~Repeated(t, f) => (has_(t, r, f) <=> has_(t, m, f))
             /\ IsMessage(t, f) /\ (Repeated(t, f) \/ has_(t, r, f)) => ri[f] = mi[f]
             /\ ~IsMessage(t, f) => ~Repeated(t, f) /\ r.val[f] = m.val[f]
    PROVE  SeenBy(t, r, ri) = SeenBy(t, m, mi)
  <1> SUFFICES ASSUME NEW f \in Fields(t)
               PROVE  (IF ~IsMessage(t, f) THEN <<has_(t, r, f), r.val[f]>>
                       ELSE IF Repeated(t, f) \/ has_(t, r, f) THEN ri[f] ELSE NULL)
                      = (IF ~IsMessage(t, f) THEN <<has_(t, m, f), m.val[f]>>
                         ELSE IF Repeated(t, f) \/ has_(t, m, f) THEN mi[f] ELSE NULL)
    BY Zenon DEF SeenBy
  <1>1. CASE ~IsMessage(t, f)
    <2>1. has_(t, r, f) = has_(t, m, f)
      BY <1>1 DEF has_
    <2> QED
      BY <1>1, <2>1
  <1>2. CASE IsMessage(t, f)
    BY <1>2
  <1> QED
    BY <1>1, <1>2

\* What is merged into inside a blank message is blank.
LEMMA TargetsAreBlank ==
    ASSUME NEW t \in DOMAIN Classes, NEW W, NEW m \in Good(t, W), Blank(t, m),
           NEW f \in Messages(t)
    PROVE  Blank(Kind(t, f),
                 IF Repeated(t, f) THEN New(Kind(t, f)) ELSE mutable_(t, m, f).val[f][1])
  <1>1. f \in Fields(t) /\ IsMessage(t, f)
    BY DEF Messages
  <1>2. Kind(t, f) \in DOMAIN Classes
    BY <1>1, InnerIsGood
  <1>3. Blank(Kind(t, f), New(Kind(t, f)))
    BY <1>2, NewIsGood
  <1>4. CASE ~Repeated(t, f) /\ m.val[f] = NULL
    <2>1. mutable_(t, m, f).val[f] = <<New(Kind(t, f))>>
      BY <1>1, <1>4, MutableIsGood
    <2> QED
      BY <1>3, <1>4, <2>1
  <1>5. CASE ~Repeated(t, f) /\ m.val[f] # NULL
    <2>1. mutable_(t, m, f).val[f] = m.val[f] /\ Len(mutable_(t, m, f).val[f]) = 1
      BY <1>1, <1>5, MutableIsGood
    <2>2. MayHold(t, m.has, f, m.val[f], InnerSet(t, W))
      BY <1>1, Parts DEF Good
    <2>3. Bit(t, f) \notin m.has
      BY DEF Blank
    <2>4. m.val[f] \in Seq(InnerSet(t, W)) /\ \A i \in DOMAIN m.val[f] : Blank(Kind(t, f), m.val[f][i])
      BY <1>1, <1>5, <2>2, <2>3 DEF MayHold
    <2>5. 1 \in DOMAIN m.val[f]
      BY <2>1, <2>4
    <2> QED
      BY <1>5, <2>1, <2>4, <2>5
  <1> QED
    BY <1>3, <1>4, <1>5

\* To merge into a blank message is to copy.
LEMMA FlatCopyReadsAlike ==
    ASSUME NEW t \in Flats, NEW W, NEW m \in Good(t, W), Blank(t, m), NEW from \in Good(t, W)
    PROVE  SeenFlat(t, MergeFromFlat(t, m, from)) = SeenFlat(t, from)
  <1> DEFINE r == MergeFromFlat(t, m, from)
  <1>1. t \in DOMAIN Classes /\ Messages(t) = {}
    BY ClassesAgree, ClassNames DEF TablesAgree, FieldsAgree, Messages
  <1>2. MergesInside(t, from, NULL, W)
    BY <1>1 DEF MergesInside
  <1>3. r = Merged(t, m, from, NULL)
    BY DEF MergeFromFlat
  <1> HIDE DEF r
  <1>4. \A f \in Fields(t) :
             /\ ~Repeated(t, f) => (has_(t, r, f) <=> has_(t, from, f))
             /\ IsMessage(t, f) /\ (Repeated(t, f) \/ has_(t, r, f)) => NULL[f] = NULL[f]
             /\ ~IsMessage(t, f) => ~Repeated(t, f) /\ r.val[f] = from.val[f]
    BY <1>1, <1>2, <1>3, MergedIntoBlank
  <1>5. SeenBy(t, r, NULL) = SeenBy(t, from, NULL)
    BY <1>4, ReadAlike
  <1> QED
    BY <1>5 DEF SeenFlat, r

\* Merging into a blank Header, or a class with no messages inside, copies what is seen.
LEMMA HeaderCopyReadsAlike ==
    ASSUME NEW t \in Flats \cup {"Header"}, NEW W, NEW m \in Good(t, W), Blank(t, m),
           NEW from \in Good(t, W)
    PROVE  SeenHeader(t, MergeFromHeader(t, m, from)) = SeenHeader(t, from)
  <1> DEFINE to(f) == IF Repeated(t, f) THEN New(Kind(t, f)) ELSE mutable_(t, m, f).val[f][1]
             inside == [f \in Messages(t) |-> [i \in DOMAIN from.val[f] |->
                            MergeFromFlat(Kind(t, f), to(f), from.val[f][i])]]
             r == MergeFromHeader(t, m, from)
             ri == [f \in Messages(t) |-> [i \in DOMAIN r.val[f] |->
                            SeenFlat(Kind(t, f), r.val[f][i])]]
             mi == [f \in Messages(t) |-> [i \in DOMAIN from.val[f] |->
                            SeenFlat(Kind(t, f), from.val[f][i])]]
  <1>1. t \in DOMAIN Classes
    BY ClassNames
  <1>2. r = Merged(t, m, from, inside)
    BY DEF MergeFromHeader, MergedInside
  <1>3. ASSUME NEW f \in Messages(t), NEW i \in DOMAIN from.val[f]
        PROVE  /\ MergeFromFlat(Kind(t, f), to(f), from.val[f][i]) \in InnerSet(t, W)
               /\ SeenFlat(Kind(t, f), MergeFromFlat(Kind(t, f), to(f), from.val[f][i]))
                        = SeenFlat(Kind(t, f), from.val[f][i])
    <2>1. /\ to(f) \in Good(Kind(t, f), W) /\ from.val[f][i] \in Good(Kind(t, f), W)
          /\ InnerSet(t, W) = Good(Kind(t, f), W)
      BY <1>1, TargetsAreGood
    <2>2. Kind(t, f) \in Flats
      <3>1. /\ t = "Header" => Kind(t, f) = "Entry"
            /\ t # "Header" => t \in Holders
        BY <1>1, TargetsAreGood
      <3> QED
        BY <3>1 DEF Flats, Holders
    <2>3. Blank(Kind(t, f), to(f))
      BY <1>1, TargetsAreBlank
    <2> HIDE DEF to
    <2> QED
      BY <2>1, <2>2, <2>3, MergeFromFlatIsGood, FlatCopyReadsAlike
  <1> HIDE DEF to
  <1>4. \A f \in Messages(t) :
            /\ inside[f] = [i \in DOMAIN from.val[f] |-> inside[f][i]]
            /\ \A i \in DOMAIN from.val[f] : inside[f][i] \in InnerSet(t, W)
    BY <1>3
  <1>5. \A f \in Messages(t) :
            /\ DOMAIN inside[f] = DOMAIN from.val[f]
            /\ \A i \in DOMAIN from.val[f] :
                 SeenFlat(Kind(t, f), inside[f][i]) = SeenFlat(Kind(t, f), from.val[f][i])
    BY <1>3
  <1> HIDE DEF inside, r
  <1>6. MergesInside(t, from, inside, W)
    BY <1>1, <1>4, MergesInsideIsGood
  <1>7. \A f \in Fields(t) :
             /\ ~Repeated(t, f) => (has_(t, r, f) <=> has_(t, from, f))
             /\ IsMessage(t, f) /\ (Repeated(t, f) \/ has_(t, r, f)) => r.val[f] = inside[f]
             /\ ~IsMessage(t, f) => ~Repeated(t, f) /\ r.val[f] = from.val[f]
    BY <1>1, <1>2, <1>6, MergedIntoBlank
  <1>8. ASSUME NEW f \in Fields(t), IsMessage(t, f), r.val[f] = inside[f]
        PROVE  ri[f] = mi[f]
    <2>1. f \in Messages(t)
      BY <1>8 DEF Messages
    <2>2. /\ ri[f] = [i \in DOMAIN r.val[f] |-> SeenFlat(Kind(t, f), r.val[f][i])]
          /\ mi[f] = [i \in DOMAIN from.val[f] |-> SeenFlat(Kind(t, f), from.val[f][i])]
      BY <2>1
    <2> HIDE DEF ri, mi
    <2> QED
      BY <1>5, <1>8, <2>1, <2>2
  <1>9. SeenHeader(t, r) = SeenBy(t, r, ri) /\ SeenHeader(t, from) = SeenBy(t, from, mi)
    BY DEF SeenHeader, Inside
  <1> HIDE DEF ri, mi
  <1>10. SeenBy(t, r, ri) = SeenBy(t, from, mi)
    BY <1>7, <1>8, ReadAlike
  <1> QED
    BY <1>9, <1>10 DEF r

\* Merging into a blank message copies what is seen of it.
LEMMA CopyReadsAlike ==
    ASSUME NEW t \in DOMAIN Classes, NEW W, NEW m \in Good(t, W), Blank(t, m),
           NEW from \in Good(t, W)
    PROVE  Seen(t, MergeFrom(t, m, from)) = Seen(t, from)
  <1> DEFINE to(f) == IF Repeated(t, f) THEN New(Kind(t, f)) ELSE mutable_(t, m, f).val[f][1]
             inside == [f \in Messages(t) |-> [i \in DOMAIN from.val[f] |->
                            MergeFromHeader(Kind(t, f), to(f), from.val[f][i])]]
             r == MergeFrom(t, m, from)
             ri == [f \in Messages(t) |-> [i \in DOMAIN r.val[f] |->
                            SeenHeader(Kind(t, f), r.val[f][i])]]
             mi == [f \in Messages(t) |-> [i \in DOMAIN from.val[f] |->
                            SeenHeader(Kind(t, f), from.val[f][i])]]
  <1>2. r = Merged(t, m, from, inside)
    BY DEF MergeFrom, MergedInside
  <1>3. ASSUME NEW f \in Messages(t), NEW i \in DOMAIN from.val[f]
        PROVE  /\ MergeFromHeader(Kind(t, f), to(f), from.val[f][i]) \in InnerSet(t, W)
               /\ SeenHeader(Kind(t, f), MergeFromHeader(Kind(t, f), to(f), from.val[f][i]))
                        = SeenHeader(Kind(t, f), from.val[f][i])
    <2>1. /\ to(f) \in Good(Kind(t, f), W) /\ from.val[f][i] \in Good(Kind(t, f), W)
          /\ InnerSet(t, W) = Good(Kind(t, f), W)
      BY TargetsAreGood
    <2>2. Kind(t, f) \in Flats \cup {"Header"}
      BY TargetsAreGood DEF Flats
    <2>3. Blank(Kind(t, f), to(f))
      BY TargetsAreBlank
    <2> HIDE DEF to
    <2> QED
      BY <2>1, <2>2, <2>3, MergeFromHeaderIsGood, HeaderCopyReadsAlike
  <1> HIDE DEF to
  <1>4. \A f \in Messages(t) :
            /\ inside[f] = [i \in DOMAIN from.val[f] |-> inside[f][i]]
            /\ \A i \in DOMAIN from.val[f] : inside[f][i] \in InnerSet(t, W)
    BY <1>3
  <1>5. \A f \in Messages(t) :
            /\ DOMAIN inside[f] = DOMAIN from.val[f]
            /\ \A i \in DOMAIN from.val[f] :
                 SeenHeader(Kind(t, f), inside[f][i]) = SeenHeader(Kind(t, f), from.val[f][i])
    BY <1>3
  <1> HIDE DEF inside, r
  <1>6. MergesInside(t, from, inside, W)
    BY <1>4, MergesInsideIsGood
  <1>7. \A f \in Fields(t) :
             /\ ~Repeated(t, f) => (has_(t, r, f) <=> has_(t, from, f))
             /\ IsMessage(t, f) /\ (Repeated(t, f) \/ has_(t, r, f)) => r.val[f] = inside[f]
             /\ ~IsMessage(t, f) => ~Repeated(t, f) /\ r.val[f] = from.val[f]
    BY <1>2, <1>6, MergedIntoBlank
  <1>8. ASSUME NEW f \in Fields(t), IsMessage(t, f), r.val[f] = inside[f]
        PROVE  ri[f] = mi[f]
    <2>1. f \in Messages(t)
      BY <1>8 DEF Messages
    <2>2. /\ ri[f] = [i \in DOMAIN r.val[f] |-> SeenHeader(Kind(t, f), r.val[f][i])]
          /\ mi[f] = [i \in DOMAIN from.val[f] |-> SeenHeader(Kind(t, f), from.val[f][i])]
      BY <2>1
    <2> HIDE DEF ri, mi
    <2> QED
      BY <1>5, <1>8, <2>1, <2>2
  <1>9. Seen(t, r) = SeenBy(t, r, ri) /\ Seen(t, from) = SeenBy(t, from, mi)
    BY DEF Seen, Inside
  <1> HIDE DEF ri, mi
  <1>10. SeenBy(t, r, ri) = SeenBy(t, from, mi)
    BY <1>7, <1>8, ReadAlike
  <1> QED
    BY <1>9, <1>10 DEF r

\* kite_remoting.pb.cc, CopyFrom of every class: a copy reads as the original, in the
\* messages inside too, whatever the calls before it left in the message.
THEOREM CopiesAreEqual == Spec => CopyIsEqual
  <1>1. CodecInv /\ CodecInv' /\ [Next]_vars =>
            [CallCopyFrom => Seen(type, msg') = Seen(type, other)]_vars
    <2> SUFFICES ASSUME CodecInv, CallCopyFrom
                 PROVE  Seen(type, msg') = Seen(type, other)
      OBVIOUS
    <2>1. type \in DOMAIN Classes /\ msg \in Good(type, {}) /\ other \in Good(type, {})
      BY ClassOfCmd DEF CodecInv, type
    <2>2. Clear(type, msg) \in Good(type, {}) /\ Blank(type, Clear(type, msg))
      BY <2>1, ClearIsGood
    <2>3. msg' = MergeFrom(type, Clear(type, msg), other)
      BY DEF CallCopyFrom, CopyFrom
    <2> QED
      BY <2>1, <2>2, <2>3, CopyReadsAlike
  <1> QED
    BY <1>1, MessagesStayGood, PTL DEF Spec, CopyIsEqual

-----------------------------------------------------------------------------
(* Sums.                                                                   *)

\* CodedOutputStream::VarintSize32 and its kin return a number.
LEMMA VarintSizeType == \A n : VarintSize(n) \in Int
  <1> SUFFICES ASSUME NEW n PROVE VarintSize(n) \in Int
    OBVIOUS
  <1> DEFINE S == {7, 14, 21, 28}
             T == {k \in S : n >= 2^k}
  <1>1. IsFiniteSet(S)
    <2>1. IsFiniteSet({7}) /\ IsFiniteSet({14}) /\ IsFiniteSet({21}) /\ IsFiniteSet({28})
      BY FS_Singleton
    <2>2. IsFiniteSet({7} \cup {14}) /\ IsFiniteSet({21} \cup {28})
      BY <2>1, FS_Union
    <2>3. IsFiniteSet(({7} \cup {14}) \cup ({21} \cup {28}))
      BY <2>2, FS_Union
    <2>4. S = ({7} \cup {14}) \cup ({21} \cup {28})
      OBVIOUS
    <2> QED
      BY <2>3, <2>4
  <1>2. T \subseteq S
    OBVIOUS
  <1>3. IsFiniteSet(T)
    <2> HIDE DEF S, T
    <2> QED
      BY <1>1, <1>2, FS_Subset
  <1>4. Cardinality(T) \in Nat
    <2> HIDE DEF T
    <2> QED
      BY <1>3, FS_CardinalityType
  <1>5. VarintSize(n) = IF n < 0 THEN 10 ELSE 1 + Cardinality(T)
    BY DEF VarintSize
  <1> HIDE DEF T
  <1> QED
    BY <1>4, <1>5

\* The sums of the first numbers.
Adds(s, a) ==
    a[0] = 0 /\ \A i \in 1..Len(s) : a[i - 1] \in Int /\ a[i] \in Int /\ a[i] = a[i - 1] + s[i]

\* Sum, by its partial results.
LEMMA SumAdds ==
    ASSUME NEW s \in Seq(Int)
    PROVE  (\E a : Adds(s, a) /\ Sum(s) = a[Len(s)]) /\ Sum(s) \in Int
  <1> DEFINE n == Len(s)
             D == [p \in Nat \X Int |-> IF p[1] \in 1..n THEN p[2] + s[p[1]] ELSE 0]
             Is(a) == a = [i \in Nat |-> IF i \in DOMAIN s THEN a[i - 1] + s[i] ELSE 0]
             at == CHOOSE a : Is(a)
  <1>1. n \in Nat /\ DOMAIN s = 1..n /\ \A i \in 1..n : s[i] \in Int
    OBVIOUS
  <1>2. Sum(s) = at[n]
    BY DEF Sum
  <1> HIDE DEF n
  <1>3. D \in [Nat \X Int -> Int]
    BY <1>1
  <1>4. \A i \in Nat : \A x \in Int : D[<<i, x>>] = IF i \in 1..n THEN x + s[i] ELSE 0
    BY <1>1
  <1> HIDE DEF D
  <1>5. PICK g : Iterates(Int, 0, D, g)
    <2> DEFINE S == Int
    <2>1. 0 \in S /\ D \in [Nat \X S -> S]
      BY <1>3
    <2> HIDE DEF S
    <2>2. \E g : Iterates(S, 0, D, g)
      BY <2>1, Recursion
    <2> QED
      BY <2>2 DEF S
  <1>6. /\ g \in [Nat -> Int] /\ g[0] = 0
        /\ \A i \in Nat \ {0} : g[i] = D[<<i, g[i - 1]>>]
    BY <1>5 DEF Iterates
  <1>7. \A i \in Nat : g[i] = IF i \in DOMAIN s THEN g[i - 1] + s[i] ELSE 0
    <2>1. TAKE i \in Nat
    <2>2. CASE i = 0
      BY <1>1, <1>6, <2>2
    <2>3. CASE i # 0
      <3>1. i - 1 \in Nat /\ g[i - 1] \in Int
        BY <1>6, <2>3
      <3>2. g[i] = D[<<i, g[i - 1]>>]
        BY <1>6, <2>3
      <3> QED
        BY <1>1, <1>4, <3>1, <3>2
    <2> QED
      BY <2>2, <2>3
  <1>8. g = [i \in Nat |-> IF i \in DOMAIN s THEN g[i - 1] + s[i] ELSE 0]
    BY <1>6, <1>7
  <1>9. \E a : Is(a)
    BY <1>8
  <1>10. Is(at)
    BY <1>9
  <1> HIDE DEF at
  <1>11. at[0] = 0 /\ \A i \in 1..n : at[i] = at[i - 1] + s[i]
    BY <1>1, <1>10
  <1> HIDE DEF Is
  <1>12. \A i \in 0..n : at[i] \in Int
    <2>1. \A i \in 1..n : at[i - 1] \in Int => at[i] \in Int
      BY <1>1, <1>11
    <2> DEFINE S == Int
    <2>2. at[0] \in S /\ \A i \in 1..n : at[i - 1] \in S => at[i] \in S
      BY <1>11, <2>1
    <2> HIDE DEF S
    <2>3. \A i \in 0..n : at[i] \in S
      BY <1>1, <2>2, LoopStays
    <2> QED
      BY <2>3 DEF S
  <1>13. \A i \in 1..n : i - 1 \in 0..n /\ i \in 0..n
    BY <1>1
  <1>14. Adds(s, at)
    BY <1>11, <1>12, <1>13 DEF Adds, n
  <1>15. n \in 0..n
    BY <1>1
  <1> QED
    BY <1>2, <1>12, <1>14, <1>15 DEF n

\* The sum is the last of any such sums.
LEMMA SumIsLast ==
    ASSUME NEW s \in Seq(Int), NEW a, Adds(s, a)
    PROVE  Sum(s) = a[Len(s)]
  <1> DEFINE n == Len(s)
  <1>1. PICK b : Adds(s, b) /\ Sum(s) = b[n]
    BY SumAdds
  <1> DEFINE T == {i \in 0..n : a[i] = b[i]}
  <1>2. n \in Nat
    OBVIOUS
  <1>3. 0 \in T
    BY <1>1, <1>2 DEF Adds
  <1>4. \A i \in 1..n : i - 1 \in T => i \in T
    BY <1>1, <1>2 DEF Adds
  <1>5. n \in 0..n
    BY <1>2
  <1> HIDE DEF n
  <1>6. n \in T
    <2> HIDE DEF T
    <2> QED
      BY <1>2, <1>3, <1>4, <1>5, Induction
  <1> QED
    BY <1>1, <1>6 DEF n

\* The sum of nothing and of one number.
LEMMA SumOfFew == Sum(<<>>) = 0 /\ \A x \in Int : Sum(<<x>>) = x
  <1>1. Adds(<<>>, [i \in {0} |-> 0]) /\ <<>> \in Seq(Int) /\ Len(<<>>) = 0
    BY DEF Adds
  <1>2. Sum(<<>>) = 0
    BY <1>1, SumIsLast
  <1>3. ASSUME NEW x \in Int
        PROVE  Sum(<<x>>) = x
    <2> DEFINE a == [i \in {0, 1} |-> IF i = 0 THEN 0 ELSE x]
    <2>1. <<x>> \in Seq(Int) /\ Len(<<x>>) = 1 /\ <<x>>[1] = x
      OBVIOUS
    <2>2. Adds(<<x>>, a) /\ a[1] = x
      BY DEF Adds
    <2> HIDE DEF a
    <2> QED
      BY <2>1, <2>2, SumIsLast
  <1> QED
    BY <1>2, <1>3

\* The sum of two sequences, one after the other.
LEMMA SumJoins ==
    ASSUME NEW s \in Seq(Int), NEW r \in Seq(Int)
    PROVE  Sum(s \o r) = Sum(s) + Sum(r)
  <1> DEFINE m == Len(s)
             n == Len(r)
             j == s \o r
  <1>1. /\ m \in Nat /\ n \in Nat /\ j \in Seq(Int) /\ Len(j) = m + n
    OBVIOUS
  <1>2. \A i \in 1..n : j[m + i] = r[i]
    OBVIOUS
  <1>3. \A i \in 1..m : j[i] = s[i]
    OBVIOUS
  <1> HIDE DEF m, n, j
  <1>4. PICK a : Adds(s, a) /\ Sum(s) = a[m]
    BY SumAdds DEF m
  <1>5. PICK b : Adds(r, b) /\ Sum(r) = b[n]
    BY SumAdds DEF n
  <1>6. PICK c : Adds(j, c) /\ Sum(j) = c[m + n]
    BY <1>1, SumAdds
  <1>7. /\ c[0] = 0
        /\ \A i \in 1..(m + n) : c[i] = c[i - 1] + j[i]
    BY <1>1, <1>6 DEF Adds
  <1>8. c[m] = a[m]
    <2> DEFINE T == {i \in 0..m : c[i] = a[i]}
    <2>1. 0 \in T
      BY <1>1, <1>4, <1>7 DEF Adds
    <2>2. \A i \in 1..m : i - 1 \in T => i \in T
      <3>1. \A i \in 1..m : a[i] = a[i - 1] + s[i]
        BY <1>4 DEF Adds, m
      <3>2. \A i \in 1..m : c[i] = c[i - 1] + s[i]
        BY <1>1, <1>3, <1>7
      <3> QED
        BY <1>1, <3>1, <3>2
    <2>3. m \in 0..m
      BY <1>1
    <2> HIDE DEF T
    <2>4. m \in T
      BY <1>1, <2>1, <2>2, <2>3, Induction
    <2> QED
      BY <2>4 DEF T
  <1>9. c[m + n] = a[m] + b[n]
    <2> DEFINE T == {i \in 0..n : c[m + i] = a[m] + b[i]}
    <2>0. a[m] \in Int
      BY <1>4, SumAdds
    <2>1. 0 \in T
      <3>1. b[0] = 0 /\ m + 0 = m /\ a[m] + 0 = a[m]
        BY <1>1, <1>5, <2>0 DEF Adds
      <3> QED
        BY <1>1, <1>8, <3>1
    <2>2. \A i \in 1..n : i - 1 \in T => i \in T
      <3>1. ASSUME NEW i \in 1..n, c[m + (i - 1)] = a[m] + b[i - 1]
            PROVE  c[m + i] = a[m] + b[i]
        <4>1. b[i] = b[i - 1] + r[i] /\ b[i - 1] \in Int /\ r[i] \in Int
          <5>1. r[i] \in Int
            BY DEF n
          <5> QED
            BY <1>5, <5>1 DEF Adds, n
        <4>2. m + i \in 1..(m + n) /\ (m + i) - 1 = m + (i - 1)
          BY <1>1
        <4>3. c[m + i] = c[m + (i - 1)] + r[i]
          BY <1>2, <1>7, <4>2
        <4> QED
          BY <2>0, <3>1, <4>1, <4>3
      <3>2. \A i \in 1..n : i \in 0..n /\ i - 1 \in 0..n
        BY <1>1
      <3> QED
        BY <3>1, <3>2
    <2>3. n \in 0..n
      BY <1>1
    <2> HIDE DEF T
    <2>4. n \in T
      BY <1>1, <2>1, <2>2, <2>3, Induction
    <2> QED
      BY <2>4 DEF T
  <1> QED
    BY <1>4, <1>5, <1>6, <1>9 DEF j

\* The sum of two sequences, number by number.
LEMMA SumAddsUp ==
    ASSUME NEW n \in Nat, NEW s \in Seq(Int), NEW r \in Seq(Int), NEW q \in Seq(Int),
           Len(s) = n, Len(r) = n, Len(q) = n, \A i \in 1..n : q[i] = s[i] + r[i]
    PROVE  Sum(q) = Sum(s) + Sum(r)
  <1>1. PICK a : Adds(s, a) /\ Sum(s) = a[n]
    BY SumAdds
  <1>2. PICK b : Adds(r, b) /\ Sum(r) = b[n]
    BY SumAdds
  <1> DEFINE c == [i \in 0..n |-> a[i] + b[i]]
  <1>3. /\ a[0] = 0 /\ b[0] = 0
        /\ \A i \in 1..n : /\ a[i - 1] \in Int /\ a[i] \in Int /\ a[i] = a[i - 1] + s[i]
                           /\ b[i - 1] \in Int /\ b[i] \in Int /\ b[i] = b[i - 1] + r[i]
    BY <1>1, <1>2 DEF Adds
  <1>4. \A i \in 1..n : s[i] \in Int /\ r[i] \in Int
    OBVIOUS
  <1>5. \A i \in 0..n : c[i] = a[i] + b[i]
    OBVIOUS
  <1>6. \A i \in 1..n : i \in 0..n /\ i - 1 \in 0..n
    OBVIOUS
  <1>7. c[0] = 0
    BY <1>3, <1>5
  <1> HIDE DEF c
  <1>8. \A i \in 1..n : c[i - 1] \in Int /\ c[i] \in Int /\ c[i] = c[i - 1] + q[i]
    <2>1. TAKE i \in 1..n
    <2>2. c[i] = a[i] + b[i] /\ c[i - 1] = a[i - 1] + b[i - 1]
      BY <1>5, <1>6
    <2>3. q[i] = s[i] + r[i] /\ s[i] \in Int /\ r[i] \in Int
      BY <1>4
    <2>4. /\ a[i - 1] \in Int /\ a[i] \in Int /\ a[i] = a[i - 1] + s[i]
          /\ b[i - 1] \in Int /\ b[i] \in Int /\ b[i] = b[i - 1] + r[i]
      BY <1>3
    <2>0. \A x, y \in Int : x + y \in Int
      OBVIOUS
    <2>5. c[i - 1] \in Int /\ c[i] \in Int
      BY <2>0, <2>2, <2>4, Zenon
    <2>7. c[i] = (a[i - 1] + s[i]) + (b[i - 1] + r[i])
      BY <2>2, <2>4, Zenon
    <2>8. (a[i - 1] + s[i]) + (b[i - 1] + r[i]) = (a[i - 1] + b[i - 1]) + (s[i] + r[i])
      <3> DEFINE x == a[i - 1]
                 y == b[i - 1]
                 u == s[i]
                 v == r[i]
      <3>1. x \in Int /\ y \in Int /\ u \in Int /\ v \in Int
        BY <2>3, <2>4, Zenon
      <3> HIDE DEF x, y, u, v
      <3>2. (x + u) + (y + v) = (x + y) + (u + v)
        BY <3>1
      <3> QED
        BY <3>2, Zenon DEF x, y, u, v
    <2> QED
      BY <2>2, <2>3, <2>5, <2>7, <2>8, Zenon
  <1>9. Adds(q, c)
    BY <1>7, <1>8 DEF Adds
  <1>10. Sum(q) = c[n]
    BY <1>9, SumIsLast
  <1> QED
    BY <1>1, <1>2, <1>5, <1>10

-----------------------------------------------------------------------------
(* ByteSize is the number of bytes written.                                *)

\* What F gives each member of a sequence.
Weigh(b, F) == [i \in DOMAIN b |-> F[b[i]]]

\* The weights of a sequence are numbers, one for each member.
LEMMA WeighType ==
    ASSUME NEW W, NEW b \in Seq(W), NEW F \in [W -> Int]
    PROVE  /\ Weigh(b, F) \in Seq(Int)
           /\ Len(Weigh(b, F)) = Len(b)
           /\ \A i \in 1..Len(b) : Weigh(b, F)[i] = F[b[i]]
           /\ Sum(Weigh(b, F)) \in Int
  <1> DEFINE n == Len(b)
             w == Weigh(b, F)
  <1>1. n \in Nat /\ DOMAIN b = 1..n /\ \A i \in 1..n : b[i] \in W
    OBVIOUS
  <1>2. w = [i \in 1..n |-> F[b[i]]]
    BY <1>1 DEF Weigh
  <1>3. \A i \in 1..n : w[i] = F[b[i]]
    BY <1>2
  <1>4. w = [i \in 1..n |-> w[i]] /\ \A i \in 1..n : w[i] \in Int
    BY <1>1, <1>2, <1>3
  <1> HIDE DEF n, w
  <1>5. w \in Seq(Int) /\ Len(w) = n
    <2> DEFINE S == Int
    <2>1. \A i \in 1..n : w[i] \in S
      BY <1>4
    <2> HIDE DEF S
    <2>2. w \in Seq(S) /\ Len(w) = n
      BY <1>1, <1>4, <2>1, IsSequence
    <2> QED
      BY <2>2 DEF S
  <1>6. Sum(w) \in Int
    BY <1>5, SumAdds
  <1> QED
    BY <1>3, <1>5, <1>6 DEF n, w

\* One sequence after another, member by member.
LEMMA Joined ==
    ASSUME NEW S, NEW x \in Seq(S), NEW y \in Seq(S)
    PROVE  /\ x \o y \in Seq(S)
           /\ Len(x \o y) = Len(x) + Len(y)
           /\ \A i \in 1..(Len(x) + Len(y)) :
                 (x \o y)[i] = IF i <= Len(x) THEN x[i] ELSE y[i - Len(x)]
  OBVIOUS

\* Two sequences of one length with the same members are the same.
LEMMA SameSequence ==
    ASSUME NEW S, NEW x \in Seq(S), NEW y \in Seq(S), Len(x) = Len(y),
           \A i \in 1..Len(x) : x[i] = y[i]
    PROVE  x = y
  OBVIOUS

\* The weight of two sequences one after the other.
LEMMA WeighJoins ==
    ASSUME NEW W, NEW b \in Seq(W), NEW c \in Seq(W), NEW F \in [W -> Int]
    PROVE  Sum(Weigh(b \o c, F)) = Sum(Weigh(b, F)) + Sum(Weigh(c, F))
  <1> DEFINE j == b \o c
             x == Weigh(b, F)
             y == Weigh(c, F)
             z == Weigh(j, F)
             m == Len(b)
             n == Len(c)
  <1>1. /\ m \in Nat /\ n \in Nat /\ j \in Seq(W) /\ Len(j) = m + n
        /\ \A i \in 1..(m + n) : j[i] = IF i <= m THEN b[i] ELSE c[i - m]
    OBVIOUS
  <1>2. x \in Seq(Int) /\ Len(x) = m /\ \A i \in 1..m : x[i] = F[b[i]]
    BY WeighType
  <1>3. y \in Seq(Int) /\ Len(y) = n /\ \A i \in 1..n : y[i] = F[c[i]]
    BY WeighType
  <1> HIDE DEF j, m, n
  <1>4. z \in Seq(Int) /\ Len(z) = m + n /\ \A i \in 1..(m + n) : z[i] = F[j[i]]
    <2>1. z \in Seq(Int) /\ Len(z) = Len(j) /\ \A i \in 1..Len(j) : z[i] = F[j[i]]
      BY <1>1, WeighType, Zenon
    <2> QED
      BY <1>1, <2>1, Zenon
  <1> HIDE DEF x, y, z
  <1>5. /\ x \o y \in Seq(Int) /\ Len(x \o y) = m + n
        /\ \A i \in 1..(m + n) : (x \o y)[i] = IF i <= m THEN x[i] ELSE y[i - m]
    <2>1. /\ x \o y \in Seq(Int) /\ Len(x \o y) = Len(x) + Len(y)
          /\ \A i \in 1..(Len(x) + Len(y)) :
                 (x \o y)[i] = IF i <= Len(x) THEN x[i] ELSE y[i - Len(x)]
      <3> DEFINE S == Int
      <3>1. x \in Seq(S) /\ y \in Seq(S)
        BY <1>2, <1>3
      <3> HIDE DEF S
      <3>2. /\ x \o y \in Seq(S) /\ Len(x \o y) = Len(x) + Len(y)
            /\ \A i \in 1..(Len(x) + Len(y)) :
                   (x \o y)[i] = IF i <= Len(x) THEN x[i] ELSE y[i - Len(x)]
        BY <3>1, Joined
      <3> QED
        BY <3>2, Zenon DEF S
    <2>2. Len(x) = m /\ Len(y) = n
      BY <1>2, <1>3
    <2> QED
      BY <2>1, <2>2
  <1>6. \A i \in 1..(m + n) : (x \o y)[i] = z[i]
    <2>1. TAKE i \in 1..(m + n)
    <2>2. CASE i <= m
      <3>1. i \in 1..m
        BY <1>1, <2>2
      <3>2. (x \o y)[i] = x[i]
        BY <1>5, <2>2, Zenon
      <3>3. z[i] = F[b[i]]
        BY <1>1, <1>4, <2>2, Zenon
      <3> QED
        BY <1>2, <3>1, <3>2, <3>3, Zenon
    <2>3. CASE ~(i <= m)
      <3>1. i - m \in 1..n
        BY <1>1, <2>3
      <3>2. (x \o y)[i] = y[i - m]
        BY <1>5, <2>3, Zenon
      <3>3. z[i] = F[c[i - m]]
        BY <1>1, <1>4, <2>3, Zenon
      <3> QED
        BY <1>3, <3>1, <3>2, <3>3, Zenon
    <2> QED
      BY <2>2, <2>3
  <1>7. x \o y = z
    BY <1>4, <1>5, <1>6, SameSequence, Zenon
  <1> QED
    BY <1>2, <1>3, <1>7, SumJoins DEF x, y, z, j

\* What F gives each of some sequences, in sum.
Weighed(ss, F, w) == Len(w) = Len(ss) /\ \A i \in 1..Len(ss) : w[i] = Sum(Weigh(ss[i], F))

\* The weight of pieces that are joined is the sum of their weights.
LEMMA WeighFlattened ==
    ASSUME NEW W, NEW ss \in Seq(Seq(W)), Len(ss) # 0, NEW F \in [W -> Int],
           NEW w \in Seq(Int), Weighed(ss, F, w)
    PROVE  Sum(Weigh(FlattenSeq(ss), F)) = Sum(w)
  <1> DEFINE n == Len(ss)
  <1>0. Len(w) = n /\ \A i \in 1..n : w[i] = Sum(Weigh(ss[i], F))
    BY DEF Weighed
  <1>1. n \in Nat \ {0} /\ \A i \in 1..n : ss[i] \in Seq(W)
    OBVIOUS
  <1>2. PICK a : Joins(ss, W, a) /\ FlattenSeq(ss) = a[n]
    BY Flattened
  <1>a. /\ a = [i \in 1..n |-> IF i = 1 THEN ss[i] ELSE a[i - 1] \o ss[i]]
        /\ \A i \in 1..n : a[i] \in Seq(W)
    BY <1>2, Zenon DEF Joins
  <1> HIDE DEF n
  <1>b. \A i \in 1..n : a[i] = IF i = 1 THEN ss[i] ELSE a[i - 1] \o ss[i]
    BY <1>a, Zenon
  <1>c. 1 \in 1..n /\ \A i \in 2..n : i \in 1..n /\ i # 1
    BY <1>1
  <1>3. /\ a[1] = ss[1]
        /\ \A i \in 2..n : a[i] = a[i - 1] \o ss[i]
        /\ \A i \in 1..n : a[i] \in Seq(W)
    BY <1>a, <1>b, <1>c, Zenon
  <1> DEFINE c == [i \in 0..n |-> IF i = 0 THEN 0 ELSE Sum(Weigh(a[i], F))]
  <1>4. c[0] = 0 /\ \A i \in 1..n : c[i] = Sum(Weigh(a[i], F))
    BY <1>1
  <1> HIDE DEF c
  <1>5. \A i \in 1..n : c[i] \in Int /\ w[i] \in Int
    <2>1. ASSUME NEW i \in 1..n
          PROVE  c[i] \in Int
      <3>1. a[i] \in Seq(W)
        BY <1>3, Zenon
      <3>2. Sum(Weigh(a[i], F)) \in Int
        BY <3>1, WeighType, Zenon
      <3> QED
        BY <1>4, <3>2, Zenon
    <2>2. \A i \in 1..n : w[i] \in Int
      BY <1>0
    <2> QED
      BY <2>1, <2>2
  <1>6. \A i \in 1..n : c[i - 1] \in Int /\ c[i] \in Int /\ c[i] = c[i - 1] + w[i]
    <2>1. TAKE i \in 1..n
    <2>2. CASE i = 1
      <3>1. c[i - 1] = 0 /\ c[i] = w[i]
        BY <1>0, <1>3, <1>4, <2>2
      <3> QED
        BY <1>5, <3>1
    <2>3. CASE i # 1
      <3>1. i \in 2..n /\ i - 1 \in 1..n
        BY <1>1, <2>3
      <3>2. Sum(Weigh(a[i - 1] \o ss[i], F)) = Sum(Weigh(a[i - 1], F)) + Sum(Weigh(ss[i], F))
        <4>1. a[i - 1] \in Seq(W) /\ ss[i] \in Seq(W)
          BY <1>1, <1>3, <3>1, Zenon
        <4> QED
          BY <4>1, WeighJoins, Zenon
      <3>3. c[i] = c[i - 1] + w[i]
        BY <1>0, <1>3, <1>4, <3>1, <3>2, Zenon
      <3> QED
        BY <1>5, <3>1, <3>3
    <2> QED
      BY <2>2, <2>3
  <1>7. Adds(w, c)
    BY <1>0, <1>4, <1>6 DEF Adds
  <1>8. Sum(w) = c[n]
    BY <1>0, <1>7, SumIsLast
  <1>9. n \in 1..n
    BY <1>1
  <1> QED
    BY <1>2, <1>4, <1>8, <1>9 DEF n

\* The bytes of a token whose message inside takes x.
SizeOf(k, x) == 1 + IF k.tag % 8 = 0 THEN VarintSize(k.val) ELSE Delimited(k.val + x)

\* The bytes of tokens, where X says those of what is inside them.
Sizes(S, X) == [k \in TokenSet(S) |-> SizeOf(k, X[k.sub])]

\* The bytes of a token are a number.
LEMMA SizesType ==
    ASSUME NEW S, NEW X \in [S -> Int]
    PROVE  Sizes(S, X) \in [TokenSet(S) -> Int]
  <1>1. ASSUME NEW k \in TokenSet(S)
        PROVE  SizeOf(k, X[k.sub]) \in Int
    <2>1. k.val \in Int /\ X[k.sub] \in Int
      BY DEF TokenSet
    <2>2. VarintSize(k.val) \in Int /\ VarintSize(k.val + X[k.sub]) \in Int
      BY VarintSizeType
    <2> QED
      BY <2>1, <2>2 DEF SizeOf, Delimited
  <1> QED
    BY <1>1 DEF Sizes

\* Nothing that is written has no bytes.
LEMMA NothingWeighsNothing ==
    ASSUME NEW F
    PROVE  Sum(Weigh(<<>>, F)) = 0
  <1>1. Weigh(<<>>, F) = <<>>
    BY DEF Weigh
  <1> QED
    BY <1>1, SumOfFew

\* The bytes of a body, as the weights of its tokens.
LEMMA TokenSizesAreWeights ==
    ASSUME NEW S, NEW X \in [S -> Int], NEW b \in Seq(TokenSet(S)), NEW inside,
           \A i \in DOMAIN b : inside[i] = X[b[i].sub]
    PROVE  /\ Sum(TokenSizes(b, inside)) = Sum(Weigh(b, Sizes(S, X)))
           /\ Sum(TokenSizes(b, inside)) \in Int
  <1>1. Sizes(S, X) \in [TokenSet(S) -> Int]
    BY SizesType
  <1>2. \A i \in DOMAIN b : b[i] \in TokenSet(S)
    OBVIOUS
  <1>3. \A i \in DOMAIN b : Sizes(S, X)[b[i]] = SizeOf(b[i], inside[i])
    BY <1>2, Zenon DEF Sizes
  <1>4. TokenSizes(b, inside) = [i \in DOMAIN b |-> SizeOf(b[i], inside[i])]
    BY DEF TokenSizes, SizeOf
  <1>5. TokenSizes(b, inside) = Weigh(b, Sizes(S, X))
    BY <1>3, <1>4, Zenon DEF Weigh
  <1>6. Sum(Weigh(b, Sizes(S, X))) \in Int
    BY <1>1, WeighType, Zenon
  <1> QED
    BY <1>5, <1>6, Zenon

\* The bytes of what is inside the tokens of a flat message, of a Header, of any.
NoWire == [s \in {<<>>} |-> 0]
FlatWire == [s \in Seq(FlatTokens) |-> WireSizeFlat(s)]
HeaderWire == [s \in Seq(HeaderTokens) |-> WireSizeHeader(s)]

\* The bytes of a body with no messages inside.
LEMMA FlatWireSize ==
    /\ NoWire \in [{<<>>} -> Int] /\ NoWire[<<>>] = 0
    /\ \A b \in Seq(FlatTokens) : /\ WireSizeFlat(b) = Sum(Weigh(b, Sizes({<<>>}, NoWire)))
                                  /\ WireSizeFlat(b) \in Int
    /\ FlatWire \in [Seq(FlatTokens) -> Int] /\ FlatWire[<<>>] = 0
  <1>1. NoWire \in [{<<>>} -> Int] /\ NoWire[<<>>] = 0
    BY DEF NoWire
  <1>2. ASSUME NEW b \in Seq(FlatTokens)
        PROVE  /\ WireSizeFlat(b) = Sum(Weigh(b, Sizes({<<>>}, NoWire)))
               /\ WireSizeFlat(b) \in Int
    <2> DEFINE inside == [i \in DOMAIN b |-> 0]
    <2>1. \A i \in DOMAIN b : b[i] \in FlatTokens
      OBVIOUS
    <2>2. \A i \in DOMAIN b : b[i].sub = <<>>
      BY <2>1 DEF FlatTokens, TokenSet
    <2>3. \A i \in DOMAIN b : inside[i] = NoWire[b[i].sub]
      BY <1>1, <2>2
    <2>4. WireSizeFlat(b) = Sum(TokenSizes(b, inside))
      BY DEF WireSizeFlat
    <2>5. b \in Seq(TokenSet({<<>>}))
      BY Zenon DEF FlatTokens
    <2> HIDE DEF inside
    <2>6. /\ Sum(TokenSizes(b, inside)) = Sum(Weigh(b, Sizes({<<>>}, NoWire)))
          /\ Sum(TokenSizes(b, inside)) \in Int
      BY <1>1, <2>3, <2>5, TokenSizesAreWeights, Zenon
    <2> QED
      BY <2>4, <2>6, Zenon
  <1>3. FlatWire \in [Seq(FlatTokens) -> Int]
    BY <1>2 DEF FlatWire
  <1>4. <<>> \in Seq(FlatTokens)
    OBVIOUS
  <1>5. WireSizeFlat(<<>>) = 0
    BY <1>2, <1>4, NothingWeighsNothing, Zenon
  <1>6. FlatWire[<<>>] = 0
    BY <1>4, <1>5, Zenon DEF FlatWire
  <1> QED
    BY <1>1, <1>2, <1>3, <1>6

\* The bytes of a body with one level of messages inside.
LEMMA HeaderWireSize ==
    /\ \A b \in Seq(HeaderTokens) : /\ WireSizeHeader(b) = Sum(Weigh(b, Sizes(Seq(FlatTokens), FlatWire)))
                                    /\ WireSizeHeader(b) \in Int
    /\ HeaderWire \in [Seq(HeaderTokens) -> Int] /\ HeaderWire[<<>>] = 0
  <1>2. ASSUME NEW b \in Seq(HeaderTokens)
        PROVE  /\ WireSizeHeader(b) = Sum(Weigh(b, Sizes(Seq(FlatTokens), FlatWire)))
               /\ WireSizeHeader(b) \in Int
    <2> DEFINE inside == [i \in DOMAIN b |-> WireSizeFlat(b[i].sub)]
    <2>1. \A i \in DOMAIN b : b[i] \in HeaderTokens
      OBVIOUS
    <2>2. \A i \in DOMAIN b : b[i].sub \in Seq(FlatTokens)
      BY <2>1 DEF HeaderTokens, TokenSet
    <2>3. \A i \in DOMAIN b : inside[i] = FlatWire[b[i].sub]
      BY <2>2, Zenon DEF FlatWire
    <2>4. WireSizeHeader(b) = Sum(TokenSizes(b, inside))
      BY DEF WireSizeHeader
    <2>5. b \in Seq(TokenSet(Seq(FlatTokens)))
      BY Zenon DEF HeaderTokens
    <2> HIDE DEF inside
    <2>6. /\ Sum(TokenSizes(b, inside)) = Sum(Weigh(b, Sizes(Seq(FlatTokens), FlatWire)))
          /\ Sum(TokenSizes(b, inside)) \in Int
      BY <2>3, <2>5, FlatWireSize, TokenSizesAreWeights, Zenon
    <2> QED
      BY <2>4, <2>6, Zenon
  <1>3. HeaderWire \in [Seq(HeaderTokens) -> Int]
    BY <1>2 DEF HeaderWire
  <1>4. <<>> \in Seq(HeaderTokens)
    OBVIOUS
  <1>5. WireSizeHeader(<<>>) = 0
    BY <1>2, <1>4, NothingWeighsNothing, Zenon
  <1>6. HeaderWire[<<>>] = 0
    BY <1>4, <1>5, Zenon DEF HeaderWire
  <1> QED
    BY <1>2, <1>3, <1>6

\* The bytes of the body of a packet.
LEMMA AllWireSize ==
    /\ \A b \in Seq(AllTokens) : /\ WireSize(b) = Sum(Weigh(b, Sizes(Seq(HeaderTokens), HeaderWire)))
                                 /\ WireSize(b) \in Int
    /\ WireSize(<<>>) = 0
  <1>2. ASSUME NEW b \in Seq(AllTokens)
        PROVE  /\ WireSize(b) = Sum(Weigh(b, Sizes(Seq(HeaderTokens), HeaderWire)))
               /\ WireSize(b) \in Int
    <2> DEFINE inside == [i \in DOMAIN b |-> WireSizeHeader(b[i].sub)]
    <2>1. \A i \in DOMAIN b : b[i] \in AllTokens
      OBVIOUS
    <2>2. \A i \in DOMAIN b : b[i].sub \in Seq(HeaderTokens)
      BY <2>1 DEF AllTokens, TokenSet
    <2>3. \A i \in DOMAIN b : inside[i] = HeaderWire[b[i].sub]
      BY <2>2, Zenon DEF HeaderWire
    <2>4. WireSize(b) = Sum(TokenSizes(b, inside))
      BY DEF WireSize
    <2>5. b \in Seq(TokenSet(Seq(HeaderTokens)))
      BY Zenon DEF AllTokens
    <2> HIDE DEF inside
    <2>6. /\ Sum(TokenSizes(b, inside)) = Sum(Weigh(b, Sizes(Seq(HeaderTokens), HeaderWire)))
          /\ Sum(TokenSizes(b, inside)) \in Int
      BY <2>3, <2>5, HeaderWireSize, TokenSizesAreWeights, Zenon
    <2> QED
      BY <2>4, <2>6, Zenon
  <1>4. <<>> \in Seq(AllTokens)
    OBVIOUS
  <1>5. WireSize(<<>>) = 0
    BY <1>2, <1>4, NothingWeighsNothing, Zenon
  <1> QED
    BY <1>2, <1>5

\* The bytes that ByteSize counts of a field, which is counted if it is there.
FieldSize(t, m, f, sizes) ==
    IF IsMessage(t, f) THEN Sum([i \in DOMAIN m.val[f] |-> 1 + Delimited(sizes[f][i])])
    ELSE IF Kind(t, f) = "string" THEN 1 + Delimited(m.val[f])
    ELSE 1 + VarintSize(m.val[f])
Present(t, m, f) == Repeated(t, f) \/ has_(t, m, f)
Weight(t, m, f, sizes) == IF Present(t, m, f) THEN FieldSize(t, m, f, sizes) ELSE 0

\* What is inside is written to members of S, and takes the bytes that X says.
Fits(t, m, S, X, inside, sizes) ==
    \A f \in Messages(t) : \A i \in DOMAIN m.val[f] :
        inside[f][i] \in S /\ sizes[f][i] = X[inside[f][i]]

\* What ByteSize counts for a field is what Serialize writes of it.
LEMMA WrittenSize ==
    ASSUME NEW t \in DOMAIN Classes, NEW m \in Good(t, {}), NEW S, <<>> \in S,
           NEW X \in [S -> Int], X[<<>>] = 0, NEW inside, NEW sizes,
           Fits(t, m, S, X, inside, sizes), NEW f \in Fields(t)
    PROVE  /\ FieldSize(t, m, f, sizes) \in Int
           /\ Sum(Weigh(Written(t, m, f, inside), Sizes(S, X))) = Weight(t, m, f, sizes)
  <1>a. f \in Int
    <2>1. Fields(t) = 1..Len(Classes[t].field) /\ Len(Classes[t].field) \in Nat
      BY ClassesAgree DEF TablesAgree, FieldsAgree
    <2> QED
      BY <2>1
  <1>b. Classes[t].write[f] = Kind(t, f)
    BY ClassesAgree DEF TablesAgree, OthersAgree
  <1>c. MayHold(t, m.has, f, m.val[f], InnerSet(t, {}))
    BY Parts DEF Good
  <1>d. Sizes(S, X) \in [TokenSet(S) -> Int]
    BY SizesType
  <1>e. \A k \in TokenSet(S) : Sizes(S, X)[k] = SizeOf(k, X[k.sub])
    BY Zenon DEF Sizes
  <1>f. \A v \in Int : 1 + VarintSize(v) \in Int /\ 1 + Delimited(v) \in Int
    <2>1. TAKE v \in Int
    <2>2. VarintSize(v) \in Int
      BY VarintSizeType
    <2> QED
      BY <2>2 DEF Delimited
  <1>1. CASE IsMessage(t, f)
    <2> DEFINE n == Len(m.val[f])
               w == [i \in DOMAIN m.val[f] |-> Token(8 * f + 2, 0, inside[f][i])]
               z == [i \in DOMAIN m.val[f] |-> 1 + Delimited(sizes[f][i])]
    <2>1. m.val[f] \in Seq(InnerSet(t, {})) /\ f \in Messages(t)
      BY <1>1, <1>c DEF MayHold, Messages
    <2>2. n \in Nat /\ DOMAIN m.val[f] = 1..n
      BY <2>1
    <2>3. \A i \in 1..n : inside[f][i] \in S /\ sizes[f][i] = X[inside[f][i]] /\ X[inside[f][i]] \in Int
      BY <2>1, <2>2 DEF Fits
    <2> HIDE DEF n
    <2>4. ASSUME NEW i \in 1..n
          PROVE  /\ w[i] \in TokenSet(S)
                 /\ Sizes(S, X)[w[i]] = z[i]
                 /\ z[i] \in Int
      <3> DEFINE k == Token(8 * f + 2, 0, inside[f][i])
      <3>1. w[i] = k /\ z[i] = 1 + Delimited(sizes[f][i])
        BY <2>2
      <3>2. k \in TokenSet(S) /\ k.tag = 8 * f + 2 /\ k.val = 0 /\ k.sub = inside[f][i]
        BY <1>a, <2>3 DEF Token, TokenSet
      <3>3. (8 * f + 2) % 8 # 0
        BY <1>a
      <3> HIDE DEF k, w, z
      <3>4. SizeOf(k, X[k.sub]) = 1 + Delimited(0 + X[inside[f][i]])
        BY <3>2, <3>3 DEF SizeOf
      <3>5. 0 + X[inside[f][i]] = sizes[f][i] /\ sizes[f][i] \in Int
        BY <2>3
      <3>6. Sizes(S, X)[k] = 1 + Delimited(sizes[f][i])
        BY <1>e, <3>2, <3>4, <3>5, Zenon
      <3>7. 1 + Delimited(sizes[f][i]) \in Int
        BY <1>f, <3>5, Zenon
      <3> QED
        BY <3>1, <3>2, <3>6, <3>7
    <2>5. w = [i \in 1..n |-> w[i]] /\ z = [i \in 1..n |-> z[i]]
      BY <2>2
    <2>6. FieldSize(t, m, f, sizes) = Sum(z)
      BY <1>1 DEF FieldSize
    <2>7. Written(t, m, f, inside) = IF Present(t, m, f) THEN w ELSE <<>>
      BY <1>1, <1>b DEF Written, Present, IsMessage
    <2> HIDE DEF w, z
    <2>8. w \in Seq(TokenSet(S)) /\ DOMAIN w = 1..n
      BY <2>2, <2>4, <2>5, IsSequence
    <2>9. Weigh(w, Sizes(S, X)) = z
      <3>1. Weigh(w, Sizes(S, X)) = [i \in 1..n |-> Sizes(S, X)[w[i]]]
        BY <2>8 DEF Weigh
      <3> QED
        BY <2>4, <2>5, <3>1
    <2>10. Sum(Weigh(w, Sizes(S, X))) \in Int
      BY <1>d, <2>8, WeighType, Zenon
    <2> QED
      BY <2>6, <2>7, <2>9, <2>10, NothingWeighsNothing, Zenon DEF Weight
  <1>2. CASE ~IsMessage(t, f)
    <2> DEFINE tag == IF Kind(t, f) = "string" THEN 8 * f + 2 ELSE 8 * f
               k == Token(tag, m.val[f], <<>>)
               x == IF Kind(t, f) = "string" THEN 1 + Delimited(m.val[f]) ELSE 1 + VarintSize(m.val[f])
    <2>1. m.val[f] \in Int
      BY <1>2, <1>c DEF MayHold
    <2>2. Written(t, m, f, inside) = IF Present(t, m, f) THEN <<k>> ELSE <<>>
      BY <1>2, <1>b DEF Written, Present, IsMessage
    <2>3. FieldSize(t, m, f, sizes) = x
      BY <1>2 DEF FieldSize
    <2>4. tag \in Int /\ (tag % 8 = 0 <=> Kind(t, f) # "string")
      BY <1>a
    <2>5. x \in Int
      BY <1>f, <2>1, Zenon
    <2> HIDE DEF tag
    <2>6. k \in TokenSet(S) /\ k.tag = tag /\ k.val = m.val[f] /\ k.sub = <<>>
      BY <2>1, <2>4 DEF Token, TokenSet
    <2> HIDE DEF k
    <2>7. SizeOf(k, X[k.sub]) = x
      <3>1. k.val + X[k.sub] = m.val[f]
        BY <2>1, <2>6
      <3> QED
        BY <2>4, <2>6, <3>1 DEF SizeOf
    <2> HIDE DEF x
    <2>8. Sizes(S, X)[k] = x
      BY <1>e, <2>6, <2>7, Zenon
    <2>9. Weigh(<<k>>, Sizes(S, X)) = <<x>>
      BY <2>8 DEF Weigh
    <2>10. Sum(Weigh(<<k>>, Sizes(S, X))) = x
      BY <2>5, <2>9, SumOfFew, Zenon
    <2> QED
      BY <2>2, <2>3, <2>5, <2>10, NothingWeighsNothing, Zenon DEF Weight
  <1> QED
    BY <1>1, <1>2

\* ByteSize, which adds the required fields first when all are set, counts what is
\* written in the order of the numbers.
LEMMA SerializedSize ==
    ASSUME NEW t \in DOMAIN Classes, NEW m \in Good(t, {}), NEW S, <<>> \in S,
           NEW X \in [S -> Int], X[<<>>] = 0, NEW inside, NEW sizes,
           Fits(t, m, S, X, inside, sizes)
    PROVE  Sized(t, m, sizes) = Sum(Weigh(Serialized(t, m, inside), Sizes(S, X)))
  <1> DEFINE n == Len(Classes[t].field)
             p == Pieces(t, m, inside)
             F == Sizes(S, X)
             z == Classes[t].size
             present(A) == {f \in A : Present(t, m, f)}
             required == IF z.mask \subseteq m.has THEN z.required ELSE present(z.required)
             q == [f \in 1..n |-> Weight(t, m, f, sizes)]
             s == [f \in 1..n |-> IF f \in required THEN FieldSize(t, m, f, sizes) ELSE 0]
             r == [f \in 1..n |-> IF f \in present(z.rest) THEN FieldSize(t, m, f, sizes) ELSE 0]
  <1>1. /\ p \in Seq(Seq(TokenSet(S))) /\ Len(p) = n /\ n \in Nat \ {0} /\ Fields(t) = 1..n
        /\ \A f \in 1..n : p[f] = Written(t, m, f, inside)
        /\ Serialized(t, m, inside) = FlattenSeq(p)
    <2>1. \A f \in Messages(t) : \A i \in DOMAIN m.val[f] : inside[f][i] \in S
      BY DEF Fits
    <2> QED
      BY <2>1, PiecesAreTokens
  <1>2. F \in [TokenSet(S) -> Int]
    BY SizesType
  <1>3. \A f \in 1..n : FieldSize(t, m, f, sizes) \in Int
    BY <1>1, WrittenSize
  <1>4. \A f \in 1..n : Sum(Weigh(p[f], F)) = Weight(t, m, f, sizes)
    BY <1>1, WrittenSize
  <1>5. /\ z.required \cup z.rest = 1..n /\ z.required \cap z.rest = {}
        /\ z.mask \subseteq m.has => \A f \in z.required : Present(t, m, f)
    <2>1. SizeAgrees(t)
      BY ClassesAgree DEF TablesAgree
    <2> QED
      BY <1>1, <2>1 DEF SizeAgrees, Present, has_
  <1>6. required = present(z.required)
    BY <1>5
  <1>7. Sized(t, m, sizes) = Sum(s) + Sum(r) + WireSize(m.unknown)
    <2> DEFINE FS(f) ==
                CASE IsMessage(t, f) ->
                        Sum([i \in DOMAIN m.val[f] |-> 1 + Delimited(sizes[f][i])])
                  [] Kind(t, f) = "string" -> 1 + Delimited(m.val[f])
                  [] OTHER -> 1 + VarintSize(m.val[f])
    <2>1. Sized(t, m, sizes) =
            Sum([f \in Fields(t) |-> IF f \in required THEN FS(f) ELSE 0])
            + Sum([f \in Fields(t) |-> IF f \in present(z.rest) THEN FS(f) ELSE 0])
            + WireSize(m.unknown)
      BY Zenon DEF Sized, Present
    <2>2. \A f : IsMessage(t, f) => Kind(t, f) # "string"
      BY ClassNames DEF IsMessage, Flats, Holders
    <2>3. \A f : FS(f) = FieldSize(t, m, f, sizes)
      BY <2>2 DEF FieldSize
    <2> HIDE DEF FS, required, present
    <2> QED
      BY <1>1, <2>1, <2>3, Zenon
  <1>8. m.unknown = <<>> /\ WireSize(<<>>) = 0
    BY NothingUnknown, AllWireSize
  <1> HIDE DEF n, p, F
  <1>9. \A f \in 1..n : /\ q[f] = Weight(t, m, f, sizes) /\ q[f] \in Int
                        /\ s[f] \in Int /\ r[f] \in Int
                        /\ q[f] = s[f] + r[f]
    <2>1. TAKE f \in 1..n
    <2>2. /\ q[f] = IF Present(t, m, f) THEN FieldSize(t, m, f, sizes) ELSE 0
          /\ s[f] = IF f \in required THEN FieldSize(t, m, f, sizes) ELSE 0
          /\ r[f] = IF f \in present(z.rest) THEN FieldSize(t, m, f, sizes) ELSE 0
      BY DEF Weight
    <2>3. /\ f \in required \/ f \in present(z.rest) <=> Present(t, m, f)
          /\ ~(f \in required /\ f \in present(z.rest))
      BY <1>5, <1>6
    <2>4. FieldSize(t, m, f, sizes) \in Int /\ q[f] = Weight(t, m, f, sizes)
      BY <1>3
    <2> HIDE DEF q, s, r, required, present
    <2> QED
      BY <2>2, <2>3, <2>4
  <1>10. q = [f \in 1..n |-> q[f]] /\ s = [f \in 1..n |-> s[f]] /\ r = [f \in 1..n |-> r[f]]
    OBVIOUS
  <1> HIDE DEF q, s, r, required, present
  <1>11. /\ q \in Seq(Int) /\ Len(q) = n
         /\ s \in Seq(Int) /\ Len(s) = n
         /\ r \in Seq(Int) /\ Len(r) = n
    <2> DEFINE I == Int
    <2>1. \A f \in 1..n : q[f] \in I /\ s[f] \in I /\ r[f] \in I
      BY <1>9
    <2> HIDE DEF I
    <2>2. /\ q \in Seq(I) /\ Len(q) = n
          /\ s \in Seq(I) /\ Len(s) = n
          /\ r \in Seq(I) /\ Len(r) = n
      BY <1>1, <1>10, <2>1, IsSequence
    <2> QED
      BY <2>2 DEF I
  <1>12. Sum(q) = Sum(s) + Sum(r)
    <2>1. n \in Nat /\ \A f \in 1..n : q[f] = s[f] + r[f]
      BY <1>1, <1>9
    <2> QED
      BY <1>11, <2>1, SumAddsUp, Zenon
  <1>13. Sum(Weigh(FlattenSeq(p), F)) = Sum(q)
    <2>1. \A f \in 1..Len(p) : q[f] = Sum(Weigh(p[f], F))
      BY <1>1, <1>4, <1>9
    <2>2. Len(p) # 0 /\ Len(q) = Len(p)
      BY <1>1, <1>11
    <2>3. Weighed(p, F, q)
      BY <2>1, <2>2, Zenon DEF Weighed
    <2> QED
      <3> DEFINE W == TokenSet(S)
      <3>1. p \in Seq(Seq(W)) /\ F \in [W -> Int] /\ q \in Seq(Int)
        BY <1>1, <1>2, <1>11, Zenon
      <3> HIDE DEF W
      <3> QED
        BY <2>2, <2>3, <3>1, WeighFlattened
  <1>14. Sum(s) \in Int /\ Sum(r) \in Int
    BY <1>11, SumAdds
  <1>15. Sum(s) + Sum(r) + 0 = Sum(s) + Sum(r)
    BY <1>14
  <1> QED
    BY <1>1, <1>7, <1>8, <1>12, <1>13, <1>15, Zenon DEF F

\* ByteSize of the classes with no messages inside.
LEMMA FlatSizeIsExact ==
    ASSUME NEW t \in Flats, NEW m \in Good(t, {})
    PROVE  ByteSizeFlat(t, m) = WireSizeFlat(SerializeFlat(t, m))
  <1>1. t \in DOMAIN Classes /\ Messages(t) = {}
    BY ClassesAgree, ClassNames DEF TablesAgree, FieldsAgree, Messages
  <1>2. Fits(t, m, {<<>>}, NoWire, NULL, NULL)
    BY <1>1 DEF Fits
  <1>3. Sized(t, m, NULL) = Sum(Weigh(Serialized(t, m, NULL), Sizes({<<>>}, NoWire)))
    <2> DEFINE S == {<<>>}
    <2>1. <<>> \in S /\ NoWire \in [S -> Int] /\ NoWire[<<>>] = 0 /\ Fits(t, m, S, NoWire, NULL, NULL)
      BY <1>2, FlatWireSize
    <2> HIDE DEF S
    <2>2. Sized(t, m, NULL) = Sum(Weigh(Serialized(t, m, NULL), Sizes(S, NoWire)))
      BY <1>1, <2>1, SerializedSize
    <2> QED
      BY <2>2, Zenon DEF S
  <1> QED
    BY <1>3, SerializeFlatIsTokens, FlatWireSize, Zenon DEF ByteSizeFlat, SerializeFlat

\* Header::ByteSize.
LEMMA HeaderSizeIsExact ==
    ASSUME NEW t \in Flats \cup {"Header"}, NEW m \in Good(t, {})
    PROVE  ByteSizeHeader(t, m) = WireSizeHeader(SerializeHeader(t, m))
  <1> DEFINE inside == [f \in Messages(t) |-> [i \in DOMAIN m.val[f] |->
                          SerializeFlat(Kind(t, f), m.val[f][i])]]
             sizes == [f \in Messages(t) |-> [i \in DOMAIN m.val[f] |->
                          ByteSizeFlat(Kind(t, f), m.val[f][i])]]
  <1>1. t \in DOMAIN Classes /\ <<>> \in Seq(FlatTokens)
    BY ClassNames
  <1>2. Fits(t, m, Seq(FlatTokens), FlatWire, inside, sizes)
    <2> SUFFICES ASSUME NEW f \in Messages(t), NEW i \in DOMAIN m.val[f]
                 PROVE  inside[f][i] \in Seq(FlatTokens) /\ sizes[f][i] = FlatWire[inside[f][i]]
      BY DEF Fits
    <2>1. Kind(t, f) \in Flats /\ m.val[f][i] \in Good(Kind(t, f), {})
      BY <1>1, InsideIsGood DEF Flats, Holders
    <2>2. SerializeFlat(Kind(t, f), m.val[f][i]) \in Seq(FlatTokens)
      BY <2>1, SerializeFlatIsTokens
    <2>3. ByteSizeFlat(Kind(t, f), m.val[f][i]) = FlatWire[SerializeFlat(Kind(t, f), m.val[f][i])]
      BY <2>1, <2>2, FlatSizeIsExact, Zenon DEF FlatWire
    <2> QED
      BY <2>2, <2>3
  <1>3. ByteSizeHeader(t, m) = Sized(t, m, sizes) /\ SerializeHeader(t, m) = Serialized(t, m, inside)
    BY DEF ByteSizeHeader, SerializeHeader, Inside
  <1> HIDE DEF inside, sizes
  <1>4. Sized(t, m, sizes) = Sum(Weigh(Serialized(t, m, inside), Sizes(Seq(FlatTokens), FlatWire)))
    <2> DEFINE S == Seq(FlatTokens)
    <2>1. <<>> \in S /\ FlatWire \in [S -> Int] /\ FlatWire[<<>>] = 0
      BY <1>1, FlatWireSize, Zenon
    <2>2. Fits(t, m, S, FlatWire, inside, sizes)
      BY <1>2, Zenon
    <2> HIDE DEF S
    <2>3. Sized(t, m, sizes) = Sum(Weigh(Serialized(t, m, inside), Sizes(S, FlatWire)))
      BY <1>1, <2>1, <2>2, SerializedSize
    <2> QED
      BY <2>3, Zenon DEF S
  <1> QED
    BY <1>3, <1>4, SerializeHeaderIsTokens, HeaderWireSize, Zenon

\* ByteSize of every class.
LEMMA ByteSizeIsExact ==
    ASSUME NEW t \in DOMAIN Classes, NEW m \in Good(t, {})
    PROVE  ByteSize(t, m) = WireSize(Serialize(t, m)) /\ ByteSize(t, m) \in Int
  <1> DEFINE inside == [f \in Messages(t) |-> [i \in DOMAIN m.val[f] |->
                          SerializeHeader(Kind(t, f), m.val[f][i])]]
             sizes == [f \in Messages(t) |-> [i \in DOMAIN m.val[f] |->
                          ByteSizeHeader(Kind(t, f), m.val[f][i])]]
  <1>1. <<>> \in Seq(HeaderTokens)
    OBVIOUS
  <1>2. Fits(t, m, Seq(HeaderTokens), HeaderWire, inside, sizes)
    <2> SUFFICES ASSUME NEW f \in Messages(t), NEW i \in DOMAIN m.val[f]
                 PROVE  inside[f][i] \in Seq(HeaderTokens) /\ sizes[f][i] = HeaderWire[inside[f][i]]
      BY DEF Fits
    <2>1. Kind(t, f) \in Flats \cup {"Header"} /\ m.val[f][i] \in Good(Kind(t, f), {})
      BY InsideIsGood DEF Flats
    <2>2. SerializeHeader(Kind(t, f), m.val[f][i]) \in Seq(HeaderTokens)
      BY <2>1, SerializeHeaderIsTokens
    <2>3. ByteSizeHeader(Kind(t, f), m.val[f][i]) = HeaderWire[SerializeHeader(Kind(t, f), m.val[f][i])]
      BY <2>1, <2>2, HeaderSizeIsExact, Zenon DEF HeaderWire
    <2> QED
      BY <2>2, <2>3
  <1>3. ByteSize(t, m) = Sized(t, m, sizes) /\ Serialize(t, m) = Serialized(t, m, inside)
    BY DEF ByteSize, Serialize, Inside
  <1> HIDE DEF inside, sizes
  <1>4. Sized(t, m, sizes) = Sum(Weigh(Serialized(t, m, inside), Sizes(Seq(HeaderTokens), HeaderWire)))
    <2> DEFINE S == Seq(HeaderTokens)
    <2>1. <<>> \in S /\ HeaderWire \in [S -> Int] /\ HeaderWire[<<>>] = 0
      BY <1>1, HeaderWireSize, Zenon
    <2>2. Fits(t, m, S, HeaderWire, inside, sizes)
      BY <1>2, Zenon
    <2> HIDE DEF S
    <2>3. Sized(t, m, sizes) = Sum(Weigh(Serialized(t, m, inside), Sizes(S, HeaderWire)))
      BY <2>1, <2>2, SerializedSize
    <2> QED
      BY <2>3, Zenon DEF S
  <1>5. Serialize(t, m) \in Seq(AllTokens)
    BY SerializeIsTokens
  <1> QED
    BY <1>3, <1>4, <1>5, AllWireSize, Zenon

\* KitePacket.cpp:63, 78-87: ByteSize, by which the frame is laid out, is the number of
\* bytes written, by its fast path for complete messages and by the other, whatever
\* calls made the message and whatever its values.
THEOREM SizesAreExact == Spec => []SizeIsExact
  <1>1. CodecInv => SizeIsExact
    <2> SUFFICES ASSUME CodecInv PROVE SizeIsExact
      OBVIOUS
    <2>1. type \in DOMAIN Classes /\ msg \in Good(type, {})
      BY ClassOfCmd DEF CodecInv, type
    <2> QED
      BY <2>1, ByteSizeIsExact DEF SizeIsExact
  <1> QED
    BY <1>1, MessagesStayGood, PTL

-----------------------------------------------------------------------------
(* Types.                                                                  *)

\* The bytes of a frame are there, or have been read.
CodecTypeInv == CodecInv /\ TypeOK /\ (out = NoBytes \/ Len(out.head) = 23)

\* The part of the types that follows from the messages being good.
LEMMA BitsAreBits ==
    ASSUME CodecInv
    PROVE  cmd \in Cmds /\ \A m \in {msg, other} : m.has \subseteq {Bit(type, f) : f \in Fields(type)}
  <1>1. cmd \in Cmds /\ msg \in Good(type, {}) /\ other \in Good(type, {})
    BY DEF CodecInv
  <1>2. msg.has \in SUBSET Bits(type) /\ other.has \in SUBSET Bits(type)
    BY <1>1, Parts DEF Good
  <1> QED
    BY <1>1, <1>2 DEF Bits

\* The variables have their types at first.
LEMMA InitHasTypes == Init => CodecTypeInv
  <1> SUFFICES ASSUME Init PROVE CodecTypeInv
    OBVIOUS
  <1>1. CodecInv
    BY InitIsGood
  <1>2. out = NoBytes /\ out.head = <<>>
    BY DEF Init, NoBytes
  <1>3. out.head \in Seq(Char)
    BY <1>2
  <1>4. readPkg.opaque \in Int32 /\ readPkg.version \in Short /\ readPkg.extension \in Long
    BY ZeroType DEF Init, NoPacket
  <1>5. calls \in 0..MaxCalls /\ pkg.cmdType = 0 /\ how = "none" /\ pkglen \in Int /\ accepted \in BOOLEAN
    <2>1. calls = 0 /\ pkg.cmdType = 0 /\ how = "none" /\ pkglen = 0
      BY DEF Init, NoPacket
    <2>2. 0 \in 0..MaxCalls
      <3>1. MaxCalls \in Nat
        BY CodecAssumption
      <3> QED
        BY <3>1
    <2>3. accepted \in BOOLEAN
      BY Zenon DEF Init
    <2>4. pkglen \in Int
      BY <2>1
    <2> QED
      BY <2>1, <2>2, <2>3, <2>4, Zenon
  <1> QED
    BY <1>1, <1>2, <1>3, <1>4, <1>5, BitsAreBits DEF CodecTypeInv, TypeOK

\* The calls of the application change the messages and count themselves.
LEMMA CallsHaveTypes ==
    ASSUME CodecTypeInv,
           CallAccessor \/ CallClear \/ CallMergeFrom \/ CallCopyFrom \/ CallSwap
    PROVE  CodecTypeInv'
  <1>1. CodecInv'
    BY CallsAreGood DEF CodecTypeInv
  <1>2. (cmd \in Cmds /\ \A m \in {msg, other} : m.has \subseteq {Bit(type, f) : f \in Fields(type)})'
    BY <1>1, BitsAreBits, PTL
  <1>3. /\ calls < MaxCalls /\ calls' = calls + 1
        /\ cmd' = cmd /\ pkg' = pkg /\ how' = how /\ out' = out /\ pkglen' = pkglen
        /\ readPkg' = readPkg /\ accepted' = accepted
    BY DEF CallAccessor, CallClear, CallMergeFrom, CallCopyFrom, CallSwap, Call
  <1>4. calls' \in 0..MaxCalls
    BY <1>3, CodecAssumption DEF CodecTypeInv, TypeOK
  <1> QED
    BY <1>1, <1>2, <1>3, <1>4 DEF CodecTypeInv, TypeOK

\* toByteBuf, and the frames of the server: 23 bytes of header, and a length read of them.
LEMMA WriteHasTypes ==
    ASSUME CodecTypeInv, write
    PROVE  CodecTypeInv'
  <1>1. CodecInv' /\ CodecInv
    BY WriteIsGood DEF CodecTypeInv
  <1>2. (cmd \in Cmds /\ \A m \in {msg, other} : m.has \subseteq {Bit(type, f) : f \in Fields(type)})'
    BY <1>1, BitsAreBits, PTL
  <1>3. cmd' = cmd /\ calls' = calls /\ readPkg' = readPkg /\ accepted' = accepted
    BY DEF write, appVars
  <1>4. type \in DOMAIN Classes /\ msg \in Good(type, {})
    BY <1>1, ClassOfCmd DEF CodecInv, type
  <1>5. PICK h \in Headers :
            pkg' = [opaque |-> h.opaque, cmdType |-> cmd, version |-> h.version,
                    extension |-> h.extension, message |-> <<msg>>]
    BY Zenon DEF write
  <1>6. h.opaque \in Int32 /\ h.version \in Short /\ h.extension \in Long
    <2>1. h \in Header64
      BY CodecAssumption
    <2> QED
      BY <2>1 DEF Header64
  <1>7. /\ pkg'.opaque \in Int /\ pkg'.cmdType \in Int /\ pkg'.version \in Int
        /\ pkg'.extension.hi \in Int /\ pkg'.extension.lo \in Int
        /\ pkg'.cmdType = cmd /\ pkg'.message[1] = msg
    <2>1. h.extension.hi \in Int32 /\ h.extension.lo \in Int32
      BY <1>6 DEF Long
    <2>2. \A i \in Int32 : i \in Int
      BY DEF Int32
    <2>3. \A i \in Short : i \in Int
      BY DEF Short
    <2>4. cmd \in Int
      BY <1>1 DEF CodecInv, Cmds
    <2> QED
      BY <1>5, <1>6, <2>1, <2>2, <2>3, <2>4
  <1>8. /\ how' \in {"client", "reordered", "newer", "retyped", "ended", "cut"}
        /\ \E n \in Int : \E body : out' = Frame(pkg', n, body)
    <2>1. CASE how' = "client" /\ out' = toByteBuf(pkg')
      <3>1. out' = Frame(pkg', ByteSize(type, msg), Serialize(type, msg))
        BY <1>7, <2>1 DEF toByteBuf, type
      <3> QED
        BY <1>4, <2>1, <3>1, ByteSizeIsExact
    <2>2. CASE \E b \in Bodies : how' = b[1] /\ out' = Frame(pkg', WireSize(b[2]), b[2])
      <3> DEFINE bytes == Serialize(type, msg)
      <3>1. PICK b \in Bodies : how' = b[1] /\ out' = Frame(pkg', WireSize(b[2]), b[2])
        BY <2>2
      <3>2. bytes \in Seq(AllTokens)
        BY <1>4, SerializeIsTokens
      <3>3. /\ b[1] \in {"reordered", "newer", "retyped", "ended", "cut"}
            /\ \/ b[2] \in {Reverse(bytes), <<Unknown>> \o bytes \o <<Unknown>>, Retyped(bytes),
                            bytes \o <<Token(124, 0, <<>>)>>}
               \/ b[2] \in Truncated(bytes)
        <4> HIDE DEF bytes
        <4> QED
          BY DEF Bodies, bytes
      <3> HIDE DEF bytes
      <3>4. b[2] \in Seq(AllTokens)
        BY <3>2, <3>3, BodiesAreTokens, TruncatedIsTokens
      <3>5. WireSize(b[2]) \in Int
        BY <3>4, AllWireSize
      <3> QED
        BY <3>1, <3>3, <3>5
    <2> QED
      BY <2>1, <2>2 DEF write
  <1>9. \E n \in Int : \E body : out' = Frame(pkg', n, body)
    BY <1>8
  <1>10. out'.head \in Seq(Char) /\ Len(out'.head) = 23
    <2>1. PICK n \in Int : \E body : out' = Frame(pkg', n, body)
      BY <1>9
    <2>2. PICK body : out' = Frame(pkg', n, body)
      BY <2>1
    <2> QED
      BY <1>7, <2>2, FrameType
  <1>11. pkglen' \in Int
    <2>1. \A k \in 1..4 : out'.head[k] \in Char
      <3> DEFINE s == out'.head
      <3>1. s \in Seq(Char) /\ Len(s) = 23 /\ \A k \in 1..4 : k \in 1..23
        BY <1>10
      <3> HIDE DEF s
      <3>2. \A k \in 1..4 : s[k] \in Char
        BY <3>1, ByteOf, Zenon
      <3> QED
        BY <3>2 DEF s
    <2>2. readInt(out'.head) \in Int32
      BY <2>1, IntType
    <2>3. readInt(out'.head) \in Int /\ readInt(out'.head) - 1 \in Int
      BY <2>2 DEF Int32
    <2>4. pkglen' = readInt(out'.head) \/ pkglen' = readInt(out'.head) - 1
      BY DEF write
    <2> QED
      BY <2>3, <2>4
  <1> QED
    BY <1>1, <1>2, <1>3, <1>7, <1>8, <1>10, <1>11 DEF CodecTypeInv, TypeOK

\* parseFrom: the fields read of the 23 bytes have the types of the members.
LEMMA ReadHasTypes ==
    ASSUME CodecTypeInv, read
    PROVE  CodecTypeInv'
  <1>1. CodecInv'
    BY ReadIsGood DEF CodecTypeInv
  <1>2. (cmd \in Cmds /\ \A m \in {msg, other} : m.has \subseteq {Bit(type, f) : f \in Fields(type)})'
    BY <1>1, BitsAreBits, PTL
  <1>3. /\ cmd' = cmd /\ calls' = calls /\ pkg' = pkg /\ how' = how /\ pkglen' = pkglen
        /\ out' = NoBytes
    BY DEF read, appVars
  <1>4. out'.head \in Seq(Char)
    <2>1. out'.head = <<>>
      BY <1>3 DEF NoBytes
    <2> QED
      BY <2>1
  <1>5. accepted' \in BOOLEAN
    <2>1. ParseFromArray(type, out.body).ok \in BOOLEAN
      BY DEF ParseFromArray
    <2> QED
      BY <2>1 DEF read
  <1>6. readPkg'.opaque \in Int32 /\ readPkg'.version \in Short /\ readPkg'.extension \in Long
    <2>1. CASE readPkg' = readPkg
      BY <2>1 DEF CodecTypeInv, TypeOK
    <2>2. CASE readPkg' \in parseFrom(out, pkglen)
      <3>1. PICK h \in headersOf(out) :
                /\ readPkg'.opaque = h.opaque /\ readPkg'.version = h.version
                /\ readPkg'.extension = h.extension
        BY <2>2 DEF parseFrom
      <3>2. out.head \in Seq(Char) /\ Len(out.head) = 23
        BY DEF CodecTypeInv, TypeOK, read
      <3>3. h.opaque \in Int32 /\ h.version \in Short /\ h.extension \in Long
        BY <3>2, HeaderType
      <3> QED
        BY <3>1, <3>3
    <2> QED
      BY <2>1, <2>2 DEF read
  <1> QED
    BY <1>1, <1>2, <1>3, <1>4, <1>5, <1>6 DEF CodecTypeInv, TypeOK

\* KitePacket.cpp:61-159, ByteBuf.hpp: what is written are bytes, and the fields that
\* are read of them have the types of the members they are assigned to.
THEOREM CodecTypes == Spec => []TypeOK
  <1>1. CodecTypeInv /\ [Next]_vars => CodecTypeInv'
    <2> SUFFICES ASSUME CodecTypeInv, [Next]_vars PROVE CodecTypeInv'
      OBVIOUS
    <2>1. CASE UNCHANGED vars
      <3>1. /\ cmd' = cmd /\ msg' = msg /\ other' = other /\ calls' = calls /\ pkg' = pkg
            /\ how' = how /\ out' = out /\ pkglen' = pkglen /\ readPkg' = readPkg
            /\ accepted' = accepted /\ type' = type
        BY <2>1 DEF vars, appVars, type
      <3> QED
        BY <3>1 DEF CodecTypeInv, CodecInv, TypeOK
    <2>2. CASE Next
      BY <2>2, CallsHaveTypes, WriteHasTypes, ReadHasTypes DEF Next
    <2> QED
      BY <2>1, <2>2
  <1>2. CodecTypeInv => TypeOK
    BY DEF CodecTypeInv
  <1> QED
    BY <1>1, <1>2, InitHasTypes, PTL DEF Spec

-----------------------------------------------------------------------------
(* What is written is what is read.                                        *)

\* The parser and Serialize agree about the tag of each field, and the labels that
\* the parser jumps to read the tags that lead there.
TagsAgree(t) ==
    /\ \A f \in Fields(t) :
         /\ f \in 1..14
         /\ Classes[t].parse[f].tag =
                IF IsMessage(t, f) \/ Kind(t, f) = "string" THEN 8 * f + 2 ELSE 8 * f
         /\ \A e \in Classes[t].parse[f].expect :
                e[2] \in Fields(t) /\ e[1] = Classes[t].parse[e[2]].tag

\* The tags of class HeartBeat.
LEMMA HeartBeatTags == TagsAgree("HeartBeat")
  <1>1. Classes["HeartBeat"] =
            Class(HeartBeat_accessors, HeartBeat_SharedCtor, HeartBeat_Clear,
                  HeartBeat_MergePartialFromCodedStream,
                  HeartBeat_SerializeWithCachedSizes, HeartBeat_ByteSize,
                  HeartBeat_MergeFrom, HeartBeat_IsInitialized, HeartBeat_InternalSwap)
    BY DEF Classes
  <1> QED
    BY <1>1, ClassNames
    DEF TagsAgree, Class, Fields, Kind, IsMessage, Flats, Holders, Field, Case,
        HeartBeat_accessors, HeartBeat_MergePartialFromCodedStream

\* The tags of class ConnMeta.
LEMMA ConnMetaTags == TagsAgree("ConnMeta")
  <1>1. Classes["ConnMeta"] =
            Class(ConnMeta_accessors, ConnMeta_SharedCtor, ConnMeta_Clear,
                  ConnMeta_MergePartialFromCodedStream,
                  ConnMeta_SerializeWithCachedSizes, ConnMeta_ByteSize,
                  ConnMeta_MergeFrom, ConnMeta_IsInitialized, ConnMeta_InternalSwap)
    BY DEF Classes
  <1> QED
    BY <1>1, ClassNames
    DEF TagsAgree, Class, Fields, Kind, IsMessage, Flats, Holders, Field, Case,
        ConnMeta_accessors, ConnMeta_MergePartialFromCodedStream

\* The tags of class ConnAuthAck.
LEMMA ConnAuthAckTags == TagsAgree("ConnAuthAck")
  <1>1. Classes["ConnAuthAck"] =
            Class(ConnAuthAck_accessors, ConnAuthAck_SharedCtor, ConnAuthAck_Clear,
                  ConnAuthAck_MergePartialFromCodedStream,
                  ConnAuthAck_SerializeWithCachedSizes, ConnAuthAck_ByteSize,
                  ConnAuthAck_MergeFrom, ConnAuthAck_IsInitialized, ConnAuthAck_InternalSwap)
    BY DEF Classes
  <1> QED
    BY <1>1, ClassNames
    DEF TagsAgree, Class, Fields, Kind, IsMessage, Flats, Holders, Field, Case,
        ConnAuthAck_accessors, ConnAuthAck_MergePartialFromCodedStream

\* The tags of class MessageStoreAck.
LEMMA MessageStoreAckTags == TagsAgree("MessageStoreAck")
  <1>1. Classes["MessageStoreAck"] =
            Class(MessageStoreAck_accessors, MessageStoreAck_SharedCtor, MessageStoreAck_Clear,
                  MessageStoreAck_MergePartialFromCodedStream,
                  MessageStoreAck_SerializeWithCachedSizes, MessageStoreAck_ByteSize,
                  MessageStoreAck_MergeFrom, MessageStoreAck_IsInitialized, MessageStoreAck_InternalSwap)
    BY DEF Classes
  <1> QED
    BY <1>1, ClassNames
    DEF TagsAgree, Class, Fields, Kind, IsMessage, Flats, Holders, Field, Case,
        MessageStoreAck_accessors, MessageStoreAck_MergePartialFromCodedStream

\* The tags of class DeliverAck.
LEMMA DeliverAckTags == TagsAgree("DeliverAck")
  <1>1. Classes["DeliverAck"] =
            Class(DeliverAck_accessors, DeliverAck_SharedCtor, DeliverAck_Clear,
                  DeliverAck_MergePartialFromCodedStream,
                  DeliverAck_SerializeWithCachedSizes, DeliverAck_ByteSize,
                  DeliverAck_MergeFrom, DeliverAck_IsInitialized, DeliverAck_InternalSwap)
    BY DEF Classes
  <1> QED
    BY <1>1, ClassNames
    DEF TagsAgree, Class, Fields, Kind, IsMessage, Flats, Holders, Field, Case,
        DeliverAck_accessors, DeliverAck_MergePartialFromCodedStream

\* The tags of class TxACKPacket.
LEMMA TxACKPacketTags == TagsAgree("TxACKPacket")
  <1>1. Classes["TxACKPacket"] =
            Class(TxACKPacket_accessors, TxACKPacket_SharedCtor, TxACKPacket_Clear,
                  TxACKPacket_MergePartialFromCodedStream,
                  TxACKPacket_SerializeWithCachedSizes, TxACKPacket_ByteSize,
                  TxACKPacket_MergeFrom, TxACKPacket_IsInitialized, TxACKPacket_InternalSwap)
    BY DEF Classes
  <1> QED
    BY <1>1, ClassNames
    DEF TagsAgree, Class, Fields, Kind, IsMessage, Flats, Holders, Field, Case,
        TxACKPacket_accessors, TxACKPacket_MergePartialFromCodedStream

\* The tags of class Entry.
LEMMA EntryTags == TagsAgree("Entry")
  <1>1. Classes["Entry"] =
            Class(Entry_accessors, Entry_SharedCtor, Entry_Clear,
                  Entry_MergePartialFromCodedStream,
                  Entry_SerializeWithCachedSizes, Entry_ByteSize,
                  Entry_MergeFrom, Entry_IsInitialized, Entry_InternalSwap)
    BY DEF Classes
  <1> QED
    BY <1>1, ClassNames
    DEF TagsAgree, Class, Fields, Kind, IsMessage, Flats, Holders, Field, Case,
        Entry_accessors, Entry_MergePartialFromCodedStream

\* The tags of class BytesMessage.
LEMMA BytesMessageTags == TagsAgree("BytesMessage")
  <1>1. Classes["BytesMessage"] =
            Class(BytesMessage_accessors, BytesMessage_SharedCtor, BytesMessage_Clear,
                  BytesMessage_MergePartialFromCodedStream,
                  BytesMessage_SerializeWithCachedSizes, BytesMessage_ByteSize,
                  BytesMessage_MergeFrom, BytesMessage_IsInitialized, BytesMessage_InternalSwap)
    BY DEF Classes
  <1> QED
    BY <1>1, ClassNames
    DEF TagsAgree, Class, Fields, Kind, IsMessage, Flats, Holders, Field, Case,
        BytesMessage_accessors, BytesMessage_MergePartialFromCodedStream

\* The tags of class StringMessage.
LEMMA StringMessageTags == TagsAgree("StringMessage")
  <1>1. Classes["StringMessage"] =
            Class(StringMessage_accessors, StringMessage_SharedCtor, StringMessage_Clear,
                  StringMessage_MergePartialFromCodedStream,
                  StringMessage_SerializeWithCachedSizes, StringMessage_ByteSize,
                  StringMessage_MergeFrom, StringMessage_IsInitialized, StringMessage_InternalSwap)
    BY DEF Classes
  <1> QED
    BY <1>1, ClassNames
    DEF TagsAgree, Class, Fields, Kind, IsMessage, Flats, Holders, Field, Case,
        StringMessage_accessors, StringMessage_MergePartialFromCodedStream

\* The tags of class Header.
LEMMA HeaderTags == TagsAgree("Header")
  <1>1. Classes["Header"] =
            Class(Header_accessors, Header_SharedCtor, Header_Clear,
                  Header_MergePartialFromCodedStream,
                  Header_SerializeWithCachedSizes, Header_ByteSize,
                  Header_MergeFrom, Header_IsInitialized, Header_InternalSwap)
    BY DEF Classes
  <1> QED
    BY <1>1, ClassNames
    DEF TagsAgree, Class, Fields, Kind, IsMessage, Flats, Holders, Field, Case,
        Header_accessors, Header_MergePartialFromCodedStream

\* kite_remoting.pb.cc, MergePartialFromCodedStream and SerializeWithCachedSizes: the ten
\* classes read the tags they write, and jump only to labels that belong to what comes.
THEOREM TagsOfClassesAgree == \A t \in DOMAIN Classes : TagsAgree(t)
  BY ClassNames, HeartBeatTags, ConnMetaTags, ConnAuthAckTags, MessageStoreAckTags,
     DeliverAckTags, TxACKPacketTags, EntryTags, HeaderTags, BytesMessageTags,
     StringMessageTags DEF Flats, Holders

\* Where in the first n pieces of ss, joined as s, what is: each place of s is of one
\* piece and is one of its members, and all are in order.
Placed(s, ss, n, piece, at) ==
    /\ piece \in [1..Len(s) -> 1..n] /\ at \in [1..Len(s) -> Nat]
    /\ \A j \in 1..Len(s) : at[j] \in 1..Len(ss[piece[j]]) /\ s[j] = ss[piece[j]][at[j]]
    /\ \A j, k \in 1..Len(s) : j < k /\ piece[j] = piece[k] => at[j] < at[k]
    /\ \A j, k \in 1..Len(s) : j < k => piece[j] <= piece[k]
    /\ \A p \in 1..n : \A i \in 1..Len(ss[p]) : \E j \in 1..Len(s) : piece[j] = p /\ at[j] = i

\* One more piece.
LEMMA PlacedNext ==
    ASSUME NEW W, NEW ss \in Seq(Seq(W)), NEW n \in Nat, n < Len(ss), NEW s \in Seq(W),
           NEW piece, NEW at, Placed(s, ss, n, piece, at)
    PROVE  \E q, r : Placed(s \o ss[n + 1], ss, n + 1, q, r)
  <1> DEFINE b == ss[n + 1]
             c == s \o b
             m == Len(s)
             q == [j \in 1..Len(c) |-> IF j <= m THEN piece[j] ELSE n + 1]
             r == [j \in 1..Len(c) |-> IF j <= m THEN at[j] ELSE j - m]
  <1>1. b \in Seq(W)
    OBVIOUS
  <1>2. /\ Len(c) = m + Len(b) /\ m \in Nat /\ Len(b) \in Nat
        /\ \A j \in 1..m : c[j] = s[j]
        /\ \A i \in 1..Len(b) : c[m + i] = b[i]
    BY <1>1
  <1>3. /\ \A j \in 1..m : j \in 1..Len(c) /\ q[j] = piece[j] /\ r[j] = at[j] /\ piece[j] \in 1..n
                           /\ at[j] \in Nat
        /\ \A j \in 1..Len(c) : j \notin 1..m =>
              j - m \in 1..Len(b) /\ q[j] = n + 1 /\ r[j] = j - m /\ c[j] = b[j - m]
    <2> HIDE DEF b, c, m
    <2>1. /\ \A j \in 1..m : j \in 1..Len(c) /\ q[j] = piece[j] /\ r[j] = at[j]
          /\ \A j \in 1..Len(c) : j \notin 1..m =>
              j - m \in 1..Len(b) /\ q[j] = n + 1 /\ r[j] = j - m
      BY <1>2
    <2>2. \A j \in 1..m : piece[j] \in 1..n /\ at[j] \in Nat
      BY DEF Placed, m
    <2>3. ASSUME NEW j \in 1..Len(c), j \notin 1..m
          PROVE  c[j] = b[j - m]
      <3>1. j - m \in 1..Len(b) /\ m + (j - m) = j
        BY <1>2, <2>3
      <3> QED
        BY <1>2, <3>1
    <2> QED
      BY <2>1, <2>2, <2>3
  <1>4. \A j \in 1..m : at[j] \in 1..Len(ss[piece[j]]) /\ s[j] = ss[piece[j]][at[j]]
    BY DEF Placed
  <1>5. \A j, k \in 1..m : j < k /\ piece[j] = piece[k] => at[j] < at[k]
    BY DEF Placed
  <1>6. \A p \in 1..n : \A i \in 1..Len(ss[p]) : \E j \in 1..m : piece[j] = p /\ at[j] = i
    BY DEF Placed
  <1>7. q = [j \in 1..Len(c) |-> q[j]] /\ r = [j \in 1..Len(c) |-> r[j]] /\ b = ss[n + 1]
    OBVIOUS
  <1>8. c = s \o ss[n + 1]
    OBVIOUS
  <1> HIDE DEF b, c, m, q, r
  <1>9. \A j \in 1..Len(c) : q[j] \in 1..n + 1 /\ r[j] \in Nat
    <2>1. TAKE j \in 1..Len(c)
    <2>2. CASE j \in 1..m
      <3>1. q[j] \in 1..n /\ r[j] \in Nat
        BY <1>3, <2>2
      <3> QED
        BY <3>1
    <2>3. CASE j \notin 1..m
      <3>1. q[j] = n + 1 /\ r[j] \in 1..Len(b)
        BY <1>3, <2>3
      <3> QED
        BY <1>2, <3>1
    <2> QED
      BY <2>2, <2>3
  <1>10. q \in [1..Len(c) -> 1..n + 1] /\ r \in [1..Len(c) -> Nat]
    BY <1>7, <1>9
  <1>11. \A j \in 1..Len(c) : r[j] \in 1..Len(ss[q[j]]) /\ c[j] = ss[q[j]][r[j]]
    <2>1. TAKE j \in 1..Len(c)
    <2>2. CASE j \in 1..m
      BY <1>2, <1>3, <1>4, <2>2
    <2>3. CASE j \notin 1..m
      BY <1>2, <1>3, <1>7, <2>3
    <2> QED
      BY <2>2, <2>3
  <1>12. \A j, k \in 1..Len(c) : j < k /\ q[j] = q[k] => r[j] < r[k]
    <2>1. SUFFICES ASSUME NEW j \in 1..Len(c), NEW k \in 1..Len(c), j < k, q[j] = q[k]
                   PROVE  r[j] < r[k]
      OBVIOUS
    <2>2. CASE k \in 1..m
      <3>1. j \in 1..m
        BY <1>2, <2>1, <2>2
      <3>2. piece[j] = piece[k]
        BY <1>3, <2>1, <2>2, <3>1
      <3> QED
        BY <1>3, <1>5, <2>1, <2>2, <3>1, <3>2
    <2>3. CASE k \notin 1..m
      <3>1. j \notin 1..m
        <4>1. q[k] = n + 1
          BY <1>3, <2>3
        <4>2. n + 1 \notin 1..n
          OBVIOUS
        <4> QED
          BY <1>3, <2>1, <4>1, <4>2
      <3>2. r[j] = j - m /\ r[k] = k - m
        BY <1>3, <2>3, <3>1
      <3> QED
        BY <1>2, <2>1, <3>2
    <2> QED
      BY <2>2, <2>3
  <1>13. \A p \in 1..n + 1 : \A i \in 1..Len(ss[p]) : \E j \in 1..Len(c) : q[j] = p /\ r[j] = i
    <2>1. TAKE p \in 1..n + 1
    <2>2. TAKE i \in 1..Len(ss[p])
    <2>3. CASE p \in 1..n
      <3>1. PICK j \in 1..m : piece[j] = p /\ at[j] = i
        BY <1>6, <2>3
      <3> QED
        BY <1>3, <3>1
    <2>4. CASE p \notin 1..n
      <3>1. p = n + 1 /\ i \in 1..Len(b)
        BY <1>7, <2>4
      <3>2. m + i \in 1..Len(c) /\ m + i \notin 1..m /\ (m + i) - m = i
        BY <1>2, <3>1
      <3> QED
        BY <1>3, <3>1, <3>2
    <2> QED
      BY <2>3, <2>4
  <1>14. \A j, k \in 1..Len(c) : j < k => q[j] <= q[k]
    <2>1. SUFFICES ASSUME NEW j \in 1..Len(c), NEW k \in 1..Len(c), j < k
                   PROVE  q[j] <= q[k]
      OBVIOUS
    <2>2. \A x, y \in 1..m : x < y => piece[x] <= piece[y]
      BY DEF Placed, m
    <2>3. CASE k \in 1..m
      <3>1. j \in 1..m
        BY <1>2, <2>1, <2>3
      <3> QED
        BY <1>3, <2>1, <2>2, <2>3, <3>1
    <2>4. CASE k \notin 1..m
      <3>1. q[k] = n + 1 /\ q[j] \in 1..n + 1
        BY <1>3, <1>9, <2>4
      <3> QED
        BY <3>1
    <2> QED
      BY <2>3, <2>4
  <1>15. Placed(c, ss, n + 1, q, r)
    BY <1>10, <1>11, <1>12, <1>13, <1>14 DEF Placed
  <1> QED
    BY <1>8, <1>15

\* All of the pieces.
LEMMA PlacesExist ==
    ASSUME NEW W, NEW ss \in Seq(Seq(W)), Len(ss) # 0
    PROVE  \E q, r : Placed(FlattenSeq(ss), ss, Len(ss), q, r)
  <1> DEFINE N == Len(ss)
  <1>1. PICK a : Joins(ss, W, a) /\ FlattenSeq(ss) = a[N]
    BY Flattened
  <1> DEFINE T == {i \in 0..N : i = 0 \/ \E q, r : Placed(a[i], ss, i, q, r)}
  <1>2. N \in Nat /\ N # 0
    OBVIOUS
  <1>3. \A i \in 1..N : a[i] \in Seq(W) /\ a[i] = IF i = 1 THEN ss[i] ELSE a[i - 1] \o ss[i]
    BY <1>1 DEF Joins
  <1>4. 0 \in T
    BY <1>2
  <1>5. ASSUME NEW i \in 1..N, i - 1 \in T
        PROVE  i \in T
    <2>1. CASE i = 1
      <3> DEFINE none == [j \in 1..0 |-> 0]
      <3>1. Len(<<>>) = 0 /\ 1..0 = {}
        OBVIOUS
      <3>2. Placed(<<>>, ss, 0, none, none)
        BY <3>1 DEF Placed
      <3>3. \E q, r : Placed(<<>> \o ss[0 + 1], ss, 0 + 1, q, r)
        <4>1. <<>> \in Seq(W) /\ 0 \in Nat /\ 0 < Len(ss)
          BY <1>2
        <4> HIDE DEF none
        <4> QED
          BY <3>2, <4>1, PlacedNext
      <3>4. <<>> \o ss[1] = ss[1] /\ 0 + 1 = 1
        BY <1>2
      <3> QED
        BY <1>3, <2>1, <3>3, <3>4
    <2>2. CASE i # 1
      <3>1. i - 1 \in 1..N /\ i - 1 # 0 /\ i - 1 \in Nat /\ i - 1 < Len(ss) /\ (i - 1) + 1 = i
        BY <1>2, <2>2
      <3>2. PICK q, r : Placed(a[i - 1], ss, i - 1, q, r)
        BY <1>5, <3>1
      <3>3. a[i - 1] \in Seq(W)
        BY <1>3, <3>1
      <3>4. \E g, h : Placed(a[i - 1] \o ss[(i - 1) + 1], ss, (i - 1) + 1, g, h)
        <4> HIDE DEF N
        <4> QED
          BY <3>1, <3>2, <3>3, PlacedNext
      <3> QED
        BY <1>3, <2>2, <3>1, <3>4
    <2> QED
      BY <2>1, <2>2
  <1>6. N \in T
    <2>1. \A i \in 0..N : i \in T
      <3> HIDE DEF T, N
      <3> QED
        BY <1>2, <1>4, <1>5, Induction
    <2> QED
      BY <1>2, <2>1
  <1> QED
    BY <1>1, <1>2, <1>6

\* How many tokens of field f are written.
Count(t, m, f) ==
    IF ~Repeated(t, f) /\ ~has_(t, m, f) THEN 0 ELSE IF IsMessage(t, f) THEN Len(m.val[f]) ELSE 1

\* Token k is the i-th of field f; inside holds the tokens of the messages inside.
Says(t, m, k, f, i, inside) ==
    /\ k.tag = Classes[t].parse[f].tag /\ k.cut = FALSE
    /\ IF IsMessage(t, f) THEN k.sub = inside[f][i] ELSE k.val = m.val[f]

\* The first n tokens of b are the first ones of fields of m, those of one field in order,
\* and fields of number 15: of[j] is the field of the j-th, and at[j] its place there.
Begins(t, m, b, n, of, at, inside) ==
    /\ n \in Nat /\ n <= Len(b)
    /\ of \in [1..n -> Nat] /\ at \in [1..n -> Nat]
    /\ \A j \in 1..n :
         IF of[j] = 0 THEN b[j] = Unknown
         ELSE /\ of[j] \in Fields(t) /\ at[j] \in 1..Count(t, m, of[j])
              /\ Says(t, m, b[j], of[j], at[j], inside)
    /\ \A j, k \in 1..n : j < k /\ of[j] = of[k] /\ of[j] # 0 => at[j] < at[k]
    /\ \A j \in 1..n : of[j] # 0 =>
         \A i \in 1..at[j] : \E k \in 1..n : of[k] = of[j] /\ at[k] = i

\* They are all of the tokens of these fields.
Tells(t, m, b, n, of, at, inside) ==
    /\ Begins(t, m, b, n, of, at, inside)
    /\ \A f \in Fields(t) : \A i \in 1..Count(t, m, f) : \E j \in 1..n : of[j] = f /\ at[j] = i

\* How many tokens there are of a field.
LEMMA CountType ==
    ASSUME NEW t \in DOMAIN Classes, NEW W, NEW m \in Good(t, W), NEW f \in Fields(t)
    PROVE  /\ Count(t, m, f) \in Nat
           /\ ~Repeated(t, f) => Count(t, m, f) = IF has_(t, m, f) THEN 1 ELSE 0
           /\ Repeated(t, f) => Count(t, m, f) = Len(m.val[f])
  <1>1. FieldsAgree(t)
    BY ClassesAgree DEF TablesAgree
  <1>2. MayHold(t, m.has, f, m.val[f], InnerSet(t, W))
    BY Parts DEF Good
  <1>3. Repeated(t, f) => IsMessage(t, f)
    BY <1>1 DEF FieldsAgree
  <1>4. IsMessage(t, f) => Len(m.val[f]) \in Nat
    BY <1>2 DEF MayHold
  <1>5. IsMessage(t, f) /\ ~Repeated(t, f) /\ has_(t, m, f) => Len(m.val[f]) = 1
    BY <1>2 DEF MayHold, has_
  <1> QED
    BY <1>3, <1>4, <1>5 DEF Count

\* What is told is begun, if all of its tokens are there.
LEMMA AllIsBegun ==
    ASSUME NEW t \in DOMAIN Classes, NEW W, NEW m \in Good(t, W), NEW b, NEW n \in Nat,
           n <= Len(b), NEW of \in [1..n -> Nat], NEW at \in [1..n -> Nat], NEW inside,
           \A j \in 1..n :
             IF of[j] = 0 THEN b[j] = Unknown
             ELSE /\ of[j] \in Fields(t) /\ at[j] \in 1..Count(t, m, of[j])
                  /\ Says(t, m, b[j], of[j], at[j], inside),
           \A j, k \in 1..n : j < k /\ of[j] = of[k] /\ of[j] # 0 => at[j] < at[k],
           \A f \in Fields(t) : \A i \in 1..Count(t, m, f) : \E j \in 1..n : of[j] = f /\ at[j] = i
    PROVE  Tells(t, m, b, n, of, at, inside)
  <1>1. ASSUME NEW j \in 1..n, of[j] # 0, NEW i \in 1..at[j]
        PROVE  \E k \in 1..n : of[k] = of[j] /\ at[k] = i
    <2>1. of[j] \in Fields(t) /\ at[j] \in 1..Count(t, m, of[j])
      BY <1>1
    <2>2. Count(t, m, of[j]) \in Nat
      BY <2>1, CountType
    <2>3. i \in 1..Count(t, m, of[j])
      BY <2>1, <2>2
    <2> QED
      BY <2>1, <2>3
  <1> QED
    BY <1>1 DEF Tells, Begins

\* What SerializeWithCachedSizes writes of one field.
LEMMA WrittenSays ==
    ASSUME NEW t \in DOMAIN Classes, NEW m \in Good(t, {}), NEW inside, NEW f \in Fields(t)
    PROVE  /\ Len(Written(t, m, f, inside)) = Count(t, m, f)
           /\ \A i \in 1..Count(t, m, f) : Says(t, m, Written(t, m, f, inside)[i], f, i, inside)
  <1>1. /\ Classes[t].write[f] = Kind(t, f)
        /\ Classes[t].parse[f].tag = IF IsMessage(t, f) \/ Kind(t, f) = "string" THEN 8 * f + 2
                                     ELSE 8 * f
    BY ClassesAgree, TagsOfClassesAgree DEF TablesAgree, OthersAgree, TagsAgree
  <1>2. MayHold(t, m.has, f, m.val[f], InnerSet(t, {}))
    BY Parts DEF Good
  <1>3. CASE ~Repeated(t, f) /\ ~has_(t, m, f)
    <2>1. Written(t, m, f, inside) = <<>> /\ Count(t, m, f) = 0
      BY <1>3 DEF Written, Count
    <2> QED
      BY <2>1
  <1>4. CASE ~(~Repeated(t, f) /\ ~has_(t, m, f)) /\ IsMessage(t, f)
    <2>1. Written(t, m, f, inside) = [i \in DOMAIN m.val[f] |-> Token(8 * f + 2, 0, inside[f][i])]
      BY <1>1, <1>4 DEF Written, IsMessage
    <2>2. m.val[f] \in Seq(InnerSet(t, {})) /\ Count(t, m, f) = Len(m.val[f])
      BY <1>2, <1>4 DEF MayHold, Count
    <2>3. DOMAIN m.val[f] = 1..Len(m.val[f]) /\ Len(m.val[f]) \in Nat
      BY <2>2
    <2>4. Written(t, m, f, inside) = [i \in 1..Count(t, m, f) |-> Token(8 * f + 2, 0, inside[f][i])]
      BY <2>1, <2>2, <2>3
    <2>5. Len(Written(t, m, f, inside)) = Count(t, m, f)
      BY <2>2, <2>3, <2>4
    <2>6. \A i \in 1..Count(t, m, f) :
             Written(t, m, f, inside)[i] = Token(8 * f + 2, 0, inside[f][i])
      BY <2>4
    <2> QED
      BY <1>1, <1>4, <2>5, <2>6 DEF Says, Token
  <1>5. CASE ~(~Repeated(t, f) /\ ~has_(t, m, f)) /\ ~IsMessage(t, f)
    <2> DEFINE k == Token(IF Kind(t, f) = "string" THEN 8 * f + 2 ELSE 8 * f, m.val[f], <<>>)
    <2>1. Written(t, m, f, inside) = <<k>> /\ Count(t, m, f) = 1
      BY <1>1, <1>5 DEF Written, Count, IsMessage
    <2>2. Says(t, m, k, f, 1, inside)
      BY <1>1, <1>5 DEF Says, Token
    <2> HIDE DEF k
    <2>3. Len(<<k>>) = 1 /\ <<k>>[1] = k /\ 1..1 = {1}
      OBVIOUS
    <2> QED
      BY <2>1, <2>2, <2>3
  <1> QED
    BY <1>3, <1>4, <1>5

\* What SerializeWithCachedSizes writes tells of the message, field after field.
LEMMA SerializedTells ==
    ASSUME NEW t \in DOMAIN Classes, NEW m \in Good(t, {}), NEW S, <<>> \in S, NEW inside,
           \A f \in Messages(t) : \A i \in DOMAIN m.val[f] : inside[f][i] \in S
    PROVE  \E of, at :
              LET n == Len(Serialized(t, m, inside))
              IN  /\ Tells(t, m, Serialized(t, m, inside), n, of, at, inside)
                  /\ \A j \in 1..n : of[j] # 0
                  /\ \A j, k \in 1..n : j < k => of[j] <= of[k]
  <1> DEFINE b == Serialized(t, m, inside)
             ss == Pieces(t, m, inside)
             W == TokenSet(S)
             N == Len(ss)
  <1>1. /\ ss \in Seq(Seq(W)) /\ N \in Nat \ {0} /\ Fields(t) = 1..N
        /\ \A f \in Fields(t) : ss[f] = Written(t, m, f, inside)
        /\ b = FlattenSeq(ss) /\ b \in Seq(W)
    BY PiecesAreTokens
  <1> HIDE DEF b, ss, W, N
  <1>2. PICK of, at : Placed(b, ss, N, of, at)
    BY <1>1, PlacesExist DEF N
  <1>3. \A f \in Fields(t) :
            /\ Len(ss[f]) = Count(t, m, f)
            /\ \A i \in 1..Count(t, m, f) : Says(t, m, ss[f][i], f, i, inside)
    BY <1>1, WrittenSays
  <1>4. Len(b) \in Nat /\ Len(b) <= Len(b)
    BY <1>1
  <1>5. \A j \in 1..Len(b) : of[j] \in Fields(t) /\ of[j] # 0 /\ of[j] \in Nat
    <2>1. \A j \in 1..Len(b) : of[j] \in 1..N
      BY <1>2 DEF Placed
    <2>2. \A x \in 1..N : x \in Fields(t) /\ x # 0 /\ x \in Nat
      BY <1>1
    <2> QED
      BY <2>1, <2>2
  <1>6. of \in [1..Len(b) -> Nat] /\ at \in [1..Len(b) -> Nat]
    BY <1>2, <1>5 DEF Placed
  <1>7. \A j \in 1..Len(b) :
            at[j] \in 1..Count(t, m, of[j]) /\ Says(t, m, b[j], of[j], at[j], inside)
    <2>1. TAKE j \in 1..Len(b)
    <2>2. at[j] \in 1..Len(ss[of[j]]) /\ b[j] = ss[of[j]][at[j]]
      BY <1>2 DEF Placed
    <2> QED
      BY <1>3, <1>5, <2>2
  <1>8. \A j, k \in 1..Len(b) : j < k /\ of[j] = of[k] => at[j] < at[k]
    BY <1>2 DEF Placed
  <1>9. \A f \in Fields(t) : \A i \in 1..Count(t, m, f) : \E j \in 1..Len(b) : of[j] = f /\ at[j] = i
    BY <1>1, <1>2, <1>3 DEF Placed
  <1>10. Tells(t, m, b, Len(b), of, at, inside)
    BY <1>4, <1>5, <1>6, <1>7, <1>8, <1>9, AllIsBegun
  <1>11. \A j, k \in 1..Len(b) : j < k => of[j] <= of[k]
    BY <1>2 DEF Placed
  <1> QED
    BY <1>5, <1>10, <1>11 DEF b

\* Of field f, the first c tokens are among the first j, and no others.
Reached(of, at, j, f, c) ==
    /\ c \in Nat
    /\ \A k \in 1..j : of[k] = f => at[k] <= c
    /\ c = 0 \/ \E k \in 1..j : of[k] = f /\ at[k] = c

\* The tokens of a field come in order and none is left out.
LEMMA NextPlace ==
    ASSUME NEW t \in DOMAIN Classes, NEW m \in Good(t, {}), NEW b, NEW n, NEW of, NEW at,
           NEW inside, Begins(t, m, b, n, of, at, inside), NEW j \in 1..n, NEW c,
           of[j] \in Fields(t), Reached(of, at, j - 1, of[j], c)
    PROVE  /\ at[j] = c + 1
           /\ Reached(of, at, j, of[j], c + 1)
  <1>1. n \in Nat /\ c \in Nat /\ of[j] \in Fields(t) /\ j \in Nat /\ j >= 1
    BY DEF Begins, Reached
  <1>2. of[j] # 0
    <2>1. \A f \in Fields(t) : f \in 1..14
      BY TagsOfClassesAgree DEF TagsAgree
    <2> QED
      BY <1>1, <2>1
  <1>3. Count(t, m, of[j]) \in Nat /\ at[j] \in 1..Count(t, m, of[j])
    BY <1>1, <1>2, CountType DEF Begins
  <1> DEFINE f == of[j]
             N == Count(t, m, f)
  <1>4. /\ \A k \in 1..n : at[k] \in Nat
        /\ \A k, l \in 1..n : k < l /\ of[k] = of[l] /\ of[k] # 0 => at[k] < at[l]
        /\ \A i \in 1..at[j] : \E k \in 1..n : of[k] = f /\ at[k] = i
    BY <1>1, <1>2 DEF Begins
  <1>5. at[j] >= c + 1
    <2>1. CASE c = 0
      BY <1>3, <2>1
    <2>2. CASE c # 0
      <3>1. PICK k \in 1..j - 1 : of[k] = f /\ at[k] = c
        BY <2>2 DEF Reached
      <3>2. k \in 1..n /\ k < j
        BY <1>1
      <3>3. at[k] < at[j]
        BY <1>2, <1>4, <3>1, <3>2
      <3> QED
        BY <1>1, <1>3, <3>1, <3>3
    <2> QED
      BY <2>1, <2>2
  <1>6. ~(at[j] > c + 1)
    <2>1. SUFFICES ASSUME at[j] > c + 1
                   PROVE  FALSE
      OBVIOUS
    <2>2. c + 1 \in 1..at[j]
      BY <1>1, <1>3, <2>1
    <2>3. PICK k \in 1..n : of[k] = f /\ at[k] = c + 1
      BY <1>4, <2>2
    <2>4. CASE k < j
      <3>1. k \in 1..j - 1
        BY <1>1, <2>4
      <3>2. at[k] <= c
        BY <2>3, <3>1 DEF Reached
      <3> QED
        BY <1>1, <2>3, <3>2
    <2>5. CASE k = j
      BY <1>1, <2>1, <2>3, <2>5
    <2>6. CASE k > j
      <3>1. at[j] < at[k]
        BY <1>1, <1>2, <1>4, <2>3, <2>6
      <3> QED
        BY <1>1, <1>3, <2>1, <2>3, <3>1
    <2> QED
      BY <1>1, <2>4, <2>5, <2>6
  <1>7. at[j] = c + 1
    BY <1>1, <1>3, <1>5, <1>6
  <1>8. Reached(of, at, j, f, c + 1)
    <2>1. c + 1 \in Nat /\ j \in 1..j
      BY <1>1
    <2>2. ASSUME NEW k \in 1..j, of[k] = f
          PROVE  at[k] <= c + 1
      <3>1. CASE k = j
        BY <1>1, <1>7, <3>1
      <3>2. CASE k # j
        <4>1. k \in 1..j - 1 /\ k \in 1..n
          BY <1>1, <3>2
        <4>2. at[k] <= c /\ at[k] \in Nat
          BY <1>4, <2>2, <4>1 DEF Reached
        <4> QED
          BY <1>1, <4>2
      <3> QED
        BY <3>1, <3>2
    <2> QED
      BY <1>7, <2>1, <2>2 DEF Reached
  <1> QED
    BY <1>7, <1>8

\* In the end all are.
LEMMA AllReached ==
    ASSUME NEW t \in DOMAIN Classes, NEW m \in Good(t, {}), NEW b, NEW n, NEW of, NEW at,
           NEW inside, Tells(t, m, b, n, of, at, inside), NEW f \in Fields(t), NEW c,
           Reached(of, at, n, f, c)
    PROVE  c = Count(t, m, f)
  <1> DEFINE N == Count(t, m, f)
  <1>1. N \in Nat /\ c \in Nat
    BY CountType DEF Reached
  <1>2. f # 0
    <2>1. \A g \in Fields(t) : g \in 1..14
      BY TagsOfClassesAgree DEF TagsAgree
    <2> QED
      BY <2>1
  <1>3. c <= N
    <2>1. CASE c = 0
      BY <1>1, <2>1
    <2>2. CASE c # 0
      <3>1. PICK k \in 1..n : of[k] = f /\ at[k] = c
        BY <2>2 DEF Reached
      <3>2. at[k] \in 1..N
        BY <1>2, <3>1 DEF Tells, Begins
      <3> QED
        BY <1>1, <3>1, <3>2
    <2> QED
      BY <2>1, <2>2
  <1>4. N <= c
    <2>1. CASE N = 0
      BY <1>1, <2>1
    <2>2. CASE N # 0
      <3>1. N \in 1..N
        BY <1>1, <2>2
      <3>2. PICK k \in 1..n : of[k] = f /\ at[k] = N
        BY <3>1 DEF Tells, Begins
      <3>3. at[k] <= c
        BY <3>2 DEF Reached
      <3> QED
        BY <3>2, <3>3
    <2> QED
      BY <2>1, <2>2
  <1> QED
    BY <1>1, <1>3, <1>4

\* The message that a token of field f is read into, if u is the one before any is read.
Base(t, u, f) == IF Repeated(t, f) THEN New(Kind(t, f)) ELSE Current(t, u, f)

\* What r has of field f once c of its tokens are read, which u has not: a message read
\* into c0 as x, and told by y, makes a triple <<c0, x, y>> of R.
Got(t, u, m, r, f, c, R) ==
    IF Repeated(t, f)
    THEN /\ Len(r.val[f]) = Len(u.val[f]) + c
         /\ \A i \in 1..Len(u.val[f]) : r.val[f][i] = u.val[f][i]
         /\ \A i \in 1..c : <<Base(t, u, f), r.val[f][Len(u.val[f]) + i], m.val[f][i]>> \in R
    ELSE /\ has_(t, r, f) <=> c # 0 \/ has_(t, u, f)
         /\ c = 0 => r.val[f] = u.val[f]
         /\ c # 0 => IF IsMessage(t, f)
                     THEN Len(r.val[f]) = 1 /\ <<Base(t, u, f), r.val[f][1], m.val[f][1]>> \in R
                     ELSE r.val[f] = m.val[f]

\* The state of the loop after j of the tokens b, which began with message u.
Reads(t, u, m, s, b, j, of, at, R) ==
    /\ s.going
    /\ s.label # NoLabel => j < Len(b) /\ b[j + 1].tag = Classes[t].parse[s.label].tag
    /\ \A f \in Fields(t) :
          \E c \in Nat : Reached(of, at, j, f, c) /\ Got(t, u, m, s.msg, f, c, R)

\* No two fields have one tag, none has a tag of another field.
LEMMA TagsDiffer ==
    ASSUME NEW t \in DOMAIN Classes, NEW f \in Fields(t)
    PROVE  /\ f \in 1..14
           /\ Classes[t].parse[f].tag \div 8 = f
           /\ Classes[t].parse[f].tag # 120 /\ Classes[t].parse[f].tag # 124
           /\ \A g \in Fields(t) : Classes[t].parse[f].tag = Classes[t].parse[g].tag => f = g
  <1>1. \A g \in Fields(t) : /\ g \in 1..14
                             /\ \/ Classes[t].parse[g].tag = 8 * g + 2
                                \/ Classes[t].parse[g].tag = 8 * g
    BY TagsOfClassesAgree DEF TagsAgree
  <1> DEFINE T(g) == Classes[t].parse[g].tag
  <1> HIDE DEF T
  <1>2. \A g \in Fields(t) : g \in 1..14 /\ (T(g) = 8 * g + 2 \/ T(g) = 8 * g)
    BY <1>1 DEF T
  <1>3. \A g \in Fields(t) : T(g) \div 8 = g /\ T(g) # 120 /\ T(g) # 124
    BY <1>2
  <1> QED
    BY <1>2, <1>3 DEF T

\* Where ExpectTag jumps to, the tag that is next leads.
LEMMA JumpIsRight ==
    ASSUME NEW t \in DOMAIN Classes, NEW f \in Fields(t), NEW b, NEW j,
           Jump(t, f, b, j) # NoLabel
    PROVE  j < Len(b) /\ b[j + 1].tag = Classes[t].parse[Jump(t, f, b, j)].tag
  <1> DEFINE E == {e \in Classes[t].parse[f].expect : j < Len(b) /\ e[1] = b[j + 1].tag}
             to == {e[2] : e \in E}
  <1>1. Jump(t, f, b, j) = IF to = {} THEN NoLabel ELSE CHOOSE g \in to : TRUE
    BY DEF Jump
  <1>2. \A g \in to : j < Len(b) /\ b[j + 1].tag = Classes[t].parse[g].tag
    BY TagsOfClassesAgree DEF TagsAgree
  <1> HIDE DEF to
  <1> QED
    BY <1>1, <1>2

\* A message inside that is one of many is added at the end.
LEMMA ReadyAppends ==
    ASSUME NEW t \in DOMAIN Classes, NEW W, NEW r \in Good(t, W), NEW f \in Fields(t),
           IsMessage(t, f), Repeated(t, f)
    PROVE  /\ Current(t, r, f) = New(Kind(t, f))
           /\ \A n \in InnerSet(t, W) : Replaced(t, r, f, n) =
                  Assign(r, r.has, f, Append(r.val[f], n))
  <1> DEFINE v == r.val[f]
             x == New(Kind(t, f))
             G == InnerSet(t, W)
  <1>1. v \in Seq(G) /\ DOMAIN r.val = Fields(t) /\ x \in G
    <2>1. v \in Seq(G) /\ DOMAIN r.val = Fields(t)
      BY Parts DEF MayHold, Good
    <2>2. x \in G
      BY NewIsGood, InnerIsGood
    <2> QED
      BY <2>1, <2>2
  <1>2. Ready(t, r, f) = Assign(r, r.has, f, Append(v, x))
    BY DEF Ready, add_
  <1>3. Ready(t, r, f).val = [r.val EXCEPT ![f] = Append(v, x)] /\ Ready(t, r, f).has = r.has
        /\ Ready(t, r, f).unknown = r.unknown
    BY <1>2 DEF Assign
  <1>4. Ready(t, r, f).val[f] = Append(v, x)
    BY <1>1, <1>3
  <1> HIDE DEF v, x, G
  <1>5. Len(Append(v, x)) = Len(v) + 1 /\ Append(v, x)[Len(v) + 1] = x
    BY <1>1
  <1>6. Current(t, r, f) = x
    BY <1>4, <1>5 DEF Current, Last
  <1>7. ASSUME NEW n \in G
        PROVE  Replaced(t, r, f, n) = Assign(r, r.has, f, Append(v, n))
    <2> DEFINE y == [Append(v, x) EXCEPT ![Len(v) + 1] = n]
    <2>1. Replaced(t, r, f, n) = Assign(Ready(t, r, f), r.has, f, y)
      BY <1>3, <1>4, <1>5 DEF Replaced
    <2>2. y = Append(v, n)
      <3>1. /\ Append(v, x) \in Seq(G) /\ Append(v, n) \in Seq(G) /\ Len(v) \in Nat
            /\ Len(Append(v, n)) = Len(v) + 1 /\ Append(v, n)[Len(v) + 1] = n
            /\ \A i \in 1..Len(v) : Append(v, x)[i] = v[i] /\ Append(v, n)[i] = v[i]
        BY <1>1
      <3>2. y \in Seq(G) /\ Len(y) = Len(v) + 1
        BY <1>5, <3>1
      <3>3. \A i \in 1..(Len(v) + 1) : y[i] = IF i = Len(v) + 1 THEN n ELSE Append(v, x)[i]
        <4>1. DOMAIN Append(v, x) = 1..(Len(v) + 1)
          BY <1>5, <3>1
        <4>2. ASSUME NEW s, NEW N, NEW i \in 1..(N + 1), DOMAIN s = 1..(N + 1)
              PROVE  [s EXCEPT ![N + 1] = n][i] = IF i = N + 1 THEN n ELSE s[i]
          BY <4>2
        <4> QED
          BY <4>1, <4>2
      <3>4. \A i \in 1..(Len(v) + 1) : i = Len(v) + 1 \/ i \in 1..Len(v)
        BY <3>1
      <3>5. \A i \in 1..(Len(v) + 1) : y[i] = Append(v, n)[i]
        BY <3>1, <3>3, <3>4
      <3> HIDE DEF y
      <3> QED
        BY <3>1, <3>2, <3>5, SameSequence
    <2>3. [[r.val EXCEPT ![f] = Append(v, x)] EXCEPT ![f] = y] = [r.val EXCEPT ![f] = y]
      BY <1>1
    <2> HIDE DEF y
    <2>4. Assign(Ready(t, r, f), r.has, f, y) = Assign(r, r.has, f, y)
      BY <1>3, <2>3 DEF Assign
    <2> QED
      BY <2>1, <2>2, <2>4
  <1> QED
    BY <1>6, <1>7 DEF v, x, G

\* The only message inside is the one that was there, or a new one.
LEMMA ReadyReplaces ==
    ASSUME NEW t \in DOMAIN Classes, NEW W, NEW r \in Good(t, W), NEW f \in Fields(t),
           IsMessage(t, f), ~Repeated(t, f)
    PROVE  /\ Current(t, r, f) = IF r.val[f] = NULL THEN New(Kind(t, f)) ELSE r.val[f][1]
           /\ Current(t, r, f) = mutable_(t, r, f).val[f][1]
           /\ \A n \in InnerSet(t, W) : Replaced(t, r, f, n) =
                  Assign(r, r.has \cup {Bit(t, f)}, f, <<n>>)
  <1> DEFINE q == mutable_(t, r, f)
             h == r.has \cup {Bit(t, f)}
             z == IF r.val[f] = NULL THEN <<New(Kind(t, f))>> ELSE r.val[f]
             G == InnerSet(t, W)
  <1>1. q = Assign(r, h, f, z) /\ Ready(t, r, f) = q
    BY DEF mutable_, Ready
  <1>2. DOMAIN r.val = Fields(t)
    BY Parts DEF Good
  <1>3. q.val = [r.val EXCEPT ![f] = z] /\ q.has = h /\ q.unknown = r.unknown
    BY <1>1 DEF Assign
  <1>4. q.val[f] = z
    BY <1>2, <1>3
  <1>5. Len(z) = 1 /\ q.val[f] \in Seq(G) /\ z[1] \in G
    <2>1. Len(q.val[f]) = 1 /\ q.val[f][1] \in G /\ q \in Good(t, W)
      BY MutableIsGood
    <2>2. q.val[f] \in Seq(G)
      BY <2>1, Parts DEF MayHold, Good
    <2> QED
      BY <1>4, <2>1, <2>2
  <1>6. Current(t, r, f) = z[1]
    BY <1>1, <1>4, <1>5 DEF Current, Last
  <1>7. z[1] = IF r.val[f] = NULL THEN New(Kind(t, f)) ELSE r.val[f][1]
    OBVIOUS
  <1> HIDE DEF z, q, h
  <1>8. ASSUME NEW n \in G
        PROVE  Replaced(t, r, f, n) = Assign(r, h, f, <<n>>)
    <2> DEFINE y == [z EXCEPT ![1] = n]
    <2>1. Replaced(t, r, f, n) = Assign(q, h, f, y)
      BY <1>1, <1>3, <1>4, <1>5 DEF Replaced
    <2>2. y = <<n>>
      <3>1. z \in Seq(G) /\ Len(z) = 1
        BY <1>4, <1>5
      <3>2. y \in Seq(G) /\ Len(y) = 1 /\ y[1] = n
        <4>1. DOMAIN z = 1..1 /\ z = [i \in 1..1 |-> z[i]]
          BY <3>1
        <4>2. y = [i \in 1..1 |-> y[i]] /\ y[1] = n
          BY <4>1
        <4>3. \A i \in 1..1 : y[i] \in G
          BY <4>2
        <4> HIDE DEF y
        <4>4. 1 \in Nat
          OBVIOUS
        <4> QED
          BY <4>2, <4>3, <4>4, IsSequence
      <3>3. <<n>> \in Seq(G) /\ Len(<<n>>) = 1 /\ <<n>>[1] = n /\ 1..1 = {1}
        OBVIOUS
      <3> HIDE DEF y
      <3> QED
        BY <3>2, <3>3, SameSequence
    <2>3. [[r.val EXCEPT ![f] = z] EXCEPT ![f] = y] = [r.val EXCEPT ![f] = y]
      BY <1>2
    <2> HIDE DEF y
    <2>4. Assign(q, h, f, y) = Assign(r, h, f, y)
      BY <1>3, <2>3 DEF Assign
    <2> QED
      BY <2>1, <2>2, <2>4
  <1> QED
    BY <1>4, <1>6, <1>7, <1>8 DEF h, q

\* What one assignment changes.
LEMMA AssignReads ==
    ASSUME NEW t \in DOMAIN Classes, NEW W, NEW r \in Good(t, W), NEW f \in Fields(t), NEW x,
           NEW h, h = r.has \/ h = r.has \cup {Bit(t, f)}
    PROVE  /\ Assign(r, h, f, x).val[f] = x
           /\ Assign(r, h, f, x).has = h
           /\ \A g \in Fields(t) \ {f} : /\ Assign(r, h, f, x).val[g] = r.val[g]
                                         /\ has_(t, Assign(r, h, f, x), g) <=> has_(t, r, g)
  <1>1. DOMAIN r.val = Fields(t)
    BY Parts DEF Good
  <1>2. \A g \in Fields(t) \ {f} : Bit(t, g) # Bit(t, f)
    BY BitsDiffer
  <1> QED
    BY <1>1, <1>2 DEF Assign, has_

\* The case of a field reads the next of what there is of it, and changes no other field.
LEMMA FieldRead ==
    ASSUME NEW t \in DOMAIN Classes, NEW W, NEW u \in Good(t, W), NEW r \in Good(t, W),
           NEW f \in Fields(t), NEW m \in Good(t, {}), NEW c \in Nat, c + 1 <= Count(t, m, f),
           NEW R, NEW inside, NEW k, Says(t, m, k, f, c + 1, inside), Got(t, u, m, r, f, c, R),
           NEW inner,
           IsMessage(t, f) =>
                inner.msg \in InnerSet(t, W) /\ <<Base(t, u, f), inner.msg, m.val[f][c + 1]>> \in R,
           NEW q, q = ReadField(t, r, f, k, inner)
    PROVE  /\ Got(t, u, m, q, f, c + 1, R)
           /\ \A g \in Fields(t) \ {f} : /\ q.val[g] = r.val[g]
                                         /\ has_(t, q, g) <=> has_(t, r, g)
  <1>1. k.cut = FALSE /\ c + 1 # 0
    BY DEF Says
  <1>2. Repeated(t, f) => IsMessage(t, f)
    BY ClassesAgree DEF TablesAgree, FieldsAgree
  <1>3. CASE ~IsMessage(t, f)
    <2> DEFINE h == r.has \cup {Bit(t, f)}
    <2>1. q = Assign(r, h, f, m.val[f])
      BY <1>1, <1>3 DEF ReadField, ReadPrimitive, set_, Says
    <2>2. q.val[f] = m.val[f] /\ q.has = h
      BY <2>1, AssignReads
    <2>3. \A g \in Fields(t) \ {f} : q.val[g] = r.val[g] /\ (has_(t, q, g) <=> has_(t, r, g))
      BY <2>1, AssignReads
    <2>4. has_(t, q, f)
      BY <2>2 DEF has_
    <2> QED
      BY <1>1, <1>2, <1>3, <2>2, <2>3, <2>4 DEF Got
  <1>4. ASSUME IsMessage(t, f)
        PROVE  q = Replaced(t, r, f, inner.msg)
    <2>1. Kind(t, f) # "string"
      BY <1>4, ClassNames DEF IsMessage, Flats, Holders
    <2> QED
      BY <1>1, <1>4, <2>1 DEF ReadField
  <1>5. CASE IsMessage(t, f) /\ ~Repeated(t, f)
    <2> DEFINE h == r.has \cup {Bit(t, f)}
               x == inner.msg
    <2>1. c = 0
      <3>1. Count(t, m, f) \in {0, 1}
        BY <1>5, CountType
      <3> QED
        BY <3>1
    <2>2. q = Assign(r, h, f, <<x>>)
      BY <1>4, <1>5, ReadyReplaces
    <2> HIDE DEF x
    <2>3. /\ q.val[f] = <<x>> /\ q.has = h
          /\ \A g \in Fields(t) \ {f} : q.val[g] = r.val[g] /\ (has_(t, q, g) <=> has_(t, r, g))
      BY <2>2, AssignReads
    <2>4. has_(t, q, f)
      BY <2>3 DEF has_
    <2>5. Len(<<x>>) = 1 /\ <<x>>[1] = x /\ <<Base(t, u, f), x, m.val[f][1]>> \in R
      BY <1>5, <2>1 DEF x
    <2> QED
      BY <1>1, <1>5, <2>3, <2>4, <2>5 DEF Got
  <1>6. CASE IsMessage(t, f) /\ Repeated(t, f)
    <2> DEFINE v == r.val[f]
               x == inner.msg
               G == InnerSet(t, W)
               n == Len(u.val[f])
               b == Base(t, u, f)
    <2>1. q = Assign(r, r.has, f, Append(v, x))
      BY <1>4, <1>6, ReadyAppends
    <2>2. /\ v \in Seq(G) /\ Len(v) = n + c /\ n \in Nat
          /\ \A i \in 1..n : v[i] = u.val[f][i]
          /\ \A i \in 1..c : <<b, v[n + i], m.val[f][i]>> \in R
      <3>1. v \in Seq(G) /\ u.val[f] \in Seq(G)
        BY <1>6, Parts DEF MayHold, Good
      <3> QED
        BY <1>6, <3>1 DEF Got
    <2>3. /\ q.val[f] = Append(v, x)
          /\ \A g \in Fields(t) \ {f} : q.val[g] = r.val[g] /\ (has_(t, q, g) <=> has_(t, r, g))
      <3> DEFINE y == Append(v, x)
      <3>1. q = Assign(r, r.has, f, y)
        BY <2>1
      <3> HIDE DEF y
      <3>2. /\ q.val[f] = y
            /\ \A g \in Fields(t) \ {f} : /\ q.val[g] = r.val[g]
                                          /\ has_(t, q, g) <=> has_(t, r, g)
        BY <3>1, AssignReads
      <3> QED
        BY <3>2 DEF y
    <2>4. x \in G /\ <<b, x, m.val[f][c + 1]>> \in R
      BY <1>6
    <2> HIDE DEF v, x, G, n, b
    <2>5. /\ Len(Append(v, x)) = n + (c + 1)
          /\ \A i \in 1..n : Append(v, x)[i] = u.val[f][i]
          /\ \A i \in 1..(c + 1) : <<b, Append(v, x)[n + i], m.val[f][i]>> \in R
      <3>1. /\ Len(Append(v, x)) = n + (c + 1)
            /\ \A i \in 1..(n + c) : Append(v, x)[i] = v[i]
            /\ Append(v, x)[n + (c + 1)] = x
        BY <2>2, <2>4
      <3>2. \A i \in 1..n : i \in 1..(n + c)
        BY <2>2
      <3>3. \A i \in 1..(c + 1) : i = c + 1 \/ (i \in 1..c /\ n + i \in 1..(n + c))
        BY <2>2
      <3>4. ASSUME NEW i \in 1..(c + 1)
            PROVE  <<b, Append(v, x)[n + i], m.val[f][i]>> \in R
        <4>1. CASE i = c + 1
          BY <2>4, <3>1, <4>1
        <4>2. CASE i \in 1..c /\ n + i \in 1..(n + c)
          BY <2>2, <3>1, <4>2
        <4> QED
          BY <3>3, <4>1, <4>2
      <3> QED
        BY <2>2, <3>1, <3>2, <3>4
    <2> QED
      BY <1>6, <2>3, <2>5 DEF Got, b, n
  <1> QED
    BY <1>3, <1>5, <1>6

\* What the next token is read as.
NextRead(t, W, u, m, s, b, j, of, at, R, inner) ==
    of[j] # 0 /\ IsMessage(t, of[j])
        /\ FieldAt(s.label, b[j]) = of[j] /\ Current(t, s.msg, of[j]) = Base(t, u, of[j]) =>
            /\ inner.going
            /\ inner.msg \in InnerSet(t, W)
            /\ <<Base(t, u, of[j]), inner.msg, m.val[of[j]][at[j]]>> \in R

\* A token with the tag of a field is read by the case of that field.
LEMMA TokenIsKnown ==
    ASSUME NEW t \in DOMAIN Classes, NEW f \in Fields(t), NEW k,
           k.tag = Classes[t].parse[f].tag, NEW label \in {NoLabel} \cup Fields(t),
           label # NoLabel => k.tag = Classes[t].parse[label].tag
    PROVE  FieldAt(label, k) = f /\ Known(t, f, k, label)
  <1>1. label = NoLabel \/ label = f
    BY TagsDiffer
  <1>2. k.tag \div 8 = f
    BY TagsDiffer
  <1> QED
    BY <1>1, <1>2 DEF FieldAt, Known

\* The message that the next token of a field is read into.
LEMMA ReadInto ==
    ASSUME NEW t \in DOMAIN Classes, NEW W, NEW u \in Good(t, W), NEW r \in Good(t, W),
           NEW f \in Fields(t), IsMessage(t, f), NEW m, NEW R, NEW c,
           Got(t, u, m, r, f, c, R), Repeated(t, f) \/ c = 0
    PROVE  Current(t, r, f) = Base(t, u, f)
  <1>1. CASE Repeated(t, f)
    BY <1>1, ReadyAppends DEF Base
  <1>2. CASE ~Repeated(t, f)
    <2>1. r.val[f] = u.val[f]
      BY <1>2 DEF Got
    <2>2. Current(t, r, f) = IF r.val[f] = NULL THEN New(Kind(t, f)) ELSE r.val[f][1]
      BY <1>2, ReadyReplaces
    <2>3. Current(t, u, f) = IF u.val[f] = NULL THEN New(Kind(t, f)) ELSE u.val[f][1]
      BY <1>2, ReadyReplaces
    <2> QED
      BY <1>2, <2>1, <2>2, <2>3 DEF Base
  <1> QED
    BY <1>1, <1>2

\* One token of a field that the class has.
LEMMA FieldTokenRead ==
    ASSUME NEW t \in DOMAIN Classes, NEW W, NEW u \in Good(t, W), NEW m \in Good(t, {}),
           NEW b, NEW n, NEW of, NEW at,
           NEW inside, Begins(t, m, b, n, of, at, inside), NEW j \in 1..n, of[j] # 0,
           NEW s \in Readings(t, W), NEW R, Reads(t, u, m, s, b, j - 1, of, at, R), NEW inner,
           NextRead(t, W, u, m, s, b, j, of, at, R, inner)
    PROVE  Reads(t, u, m, ReadToken(t, s, b, j, inner), b, j, of, at, R)
  <1> DEFINE k == b[j]
             f == of[j]
             q == ReadField(t, s.msg, f, k, inner)
  <1>1. /\ n \in Nat /\ j \in Nat /\ (j - 1) + 1 = j
        /\ f \in Fields(t) /\ at[j] \in 1..Count(t, m, f) /\ Says(t, m, k, f, at[j], inside)
    BY DEF Begins
  <1>2. s.msg \in Good(t, W) /\ s.label \in {NoLabel} \cup Fields(t)
    BY DEF Readings
  <1>3. k.tag = Classes[t].parse[f].tag /\ k.cut = FALSE
    BY <1>1 DEF Says
  <1>4. s.label # NoLabel => k.tag = Classes[t].parse[s.label].tag
    BY <1>1 DEF Reads
  <1>5. FieldAt(s.label, k) = f /\ Known(t, f, k, s.label)
    <2> HIDE DEF k, f
    <2> QED
      BY <1>1, <1>2, <1>3, <1>4, TokenIsKnown
  <1>7. PICK c \in Nat : Reached(of, at, j - 1, f, c) /\ Got(t, u, m, s.msg, f, c, R)
    BY <1>1 DEF Reads
  <1>8. at[j] = c + 1 /\ Reached(of, at, j, f, c + 1)
    BY <1>1, <1>7, NextPlace
  <1>9. c + 1 <= Count(t, m, f) /\ Count(t, m, f) \in Nat
    BY <1>1, <1>8, CountType
  <1>10. ASSUME IsMessage(t, f)
         PROVE  /\ inner.going /\ inner.msg \in InnerSet(t, W)
                /\ <<Base(t, u, f), inner.msg, m.val[f][c + 1]>> \in R
    <2>1. Repeated(t, f) \/ c = 0
      <3>1. ~Repeated(t, f) => Count(t, m, f) \in {0, 1}
        BY <1>1, CountType
      <3> QED
        BY <1>9, <3>1
    <2>2. Current(t, s.msg, f) = Base(t, u, f)
      BY <1>1, <1>2, <1>7, <1>10, <2>1, ReadInto
    <2> QED
      BY <1>5, <1>8, <1>10, <2>2 DEF NextRead
  <1>11. ReadToken(t, s, b, j, inner) = Reading(q, Jump(t, f, b, j), TRUE)
    <2>1. s.going
      BY DEF Reads
    <2>2. ReadToken(t, s, b, j, inner) =
            Reading(q, Jump(t, f, b, j), ~k.cut /\ (IsMessage(t, f) => inner.going))
      BY <1>5, <2>1 DEF ReadToken
    <2>3. (~k.cut /\ (IsMessage(t, f) => inner.going)) = TRUE
      BY <1>3, <1>10
    <2> QED
      BY <2>2, <2>3
  <1>12. /\ Got(t, u, m, q, f, c + 1, R)
         /\ \A g \in Fields(t) \ {f} : /\ q.val[g] = s.msg.val[g]
                                       /\ has_(t, q, g) <=> has_(t, s.msg, g)
    <2>1. q = ReadField(t, s.msg, f, k, inner) /\ Says(t, m, k, f, c + 1, inside)
      BY <1>1, <1>8
    <2> HIDE DEF q, f, k
    <2> QED
      BY <1>1, <1>2, <1>7, <1>9, <1>10, <2>1, FieldRead
  <1> HIDE DEF q
  <1>13. ASSUME NEW g \in Fields(t)
         PROVE  \E d \in Nat : Reached(of, at, j, g, d) /\ Got(t, u, m, q, g, d, R)
    <2>1. CASE g = f
      BY <1>8, <1>12, <2>1
    <2>2. CASE g # f
      <3>1. PICK d \in Nat : Reached(of, at, j - 1, g, d) /\ Got(t, u, m, s.msg, g, d, R)
        BY DEF Reads
      <3>2. Got(t, u, m, q, g, d, R)
        BY <1>12, <2>2, <3>1 DEF Got
      <3>3. \A i \in 1..j : i \in 1..j - 1 \/ i = j
        BY <1>1
      <3>4. \A i \in 1..j - 1 : i \in 1..j
        BY <1>1
      <3>5. Reached(of, at, j, g, d)
        BY <2>2, <3>1, <3>3, <3>4 DEF Reached
      <3> QED
        BY <3>2, <3>5
    <2> QED
      BY <2>1, <2>2
  <1>14. Jump(t, f, b, j) # NoLabel =>
            j < Len(b) /\ b[j + 1].tag = Classes[t].parse[Jump(t, f, b, j)].tag
    BY <1>1, JumpIsRight
  <1> QED
    BY <1>11, <1>13, <1>14 DEF Reads, Reading

\* One token of a field that the class has not.
LEMMA UnknownTokenRead ==
    ASSUME NEW t \in DOMAIN Classes, NEW W, NEW u \in Good(t, W), NEW m \in Good(t, {}),
           NEW b, NEW n, NEW of, NEW at,
           NEW inside, Begins(t, m, b, n, of, at, inside), NEW j \in 1..n, of[j] = 0,
           NEW s \in Readings(t, W), NEW R, Reads(t, u, m, s, b, j - 1, of, at, R), NEW inner
    PROVE  Reads(t, u, m, ReadToken(t, s, b, j, inner), b, j, of, at, R)
  <1> DEFINE k == b[j]
             q == [s.msg EXCEPT !.unknown = Append(@, k)]
  <1>1. n \in Nat /\ j \in Nat /\ (j - 1) + 1 = j /\ k = Unknown
    BY DEF Begins
  <1>2. k.tag = 120 /\ k.cut = FALSE
    BY <1>1 DEF Unknown, Token
  <1>3. s.label = NoLabel
    <2>1. s.label # NoLabel => k.tag = Classes[t].parse[s.label].tag
      BY <1>1 DEF Reads
    <2>2. s.label \in {NoLabel} \cup Fields(t)
      BY DEF Readings
    <2> QED
      BY <1>2, <2>1, <2>2, TagsDiffer
  <1>4. FieldAt(s.label, k) = 15
    BY <1>2, <1>3 DEF FieldAt
  <1>5. ~Known(t, 15, k, s.label)
    BY <1>2, <1>3, TagsDiffer DEF Known
  <1>6. ~EndsMessage(k)
    BY <1>2 DEF EndsMessage
  <1>7. ReadToken(t, s, b, j, inner) = Reading(q, NoLabel, TRUE)
    <2>1. s.going
      BY DEF Reads
    <2> QED
      BY <1>2, <1>4, <1>5, <1>6, <2>1 DEF ReadToken
  <1>8. q.val = s.msg.val /\ q.has = s.msg.has
    <2>1. q = [has |-> s.msg.has, val |-> s.msg.val, unknown |-> Append(s.msg.unknown, k)]
      <3>1. s.msg \in MessageSet(t, InnerSet(t, W), W)
        BY DEF Good, Readings
      <3> QED
        BY <3>1, UnknownAdded
    <2> QED
      BY <2>1
  <1> HIDE DEF q
  <1>9. ASSUME NEW g \in Fields(t)
        PROVE  \E d \in Nat : Reached(of, at, j, g, d) /\ Got(t, u, m, q, g, d, R)
    <2>1. PICK d \in Nat : Reached(of, at, j - 1, g, d) /\ Got(t, u, m, s.msg, g, d, R)
      BY DEF Reads
    <2>2. Got(t, u, m, q, g, d, R)
      BY <1>8, <2>1 DEF Got, has_
    <2>3. \A i \in 1..j : i \in 1..j - 1 \/ i = j
      BY <1>1
    <2>4. \A i \in 1..j - 1 : i \in 1..j
      BY <1>1
    <2>5. g # 0
      BY TagsDiffer
    <2>6. Reached(of, at, j, g, d)
      BY <2>1, <2>3, <2>4, <2>5 DEF Reached
    <2> QED
      BY <2>2, <2>6
  <1> QED
    BY <1>7, <1>9 DEF Reads, Reading

\* Nothing is read at first.
LEMMA NothingRead ==
    ASSUME NEW t \in DOMAIN Classes, NEW W, NEW u \in Good(t, W), NEW m, NEW b, NEW of, NEW at,
           NEW R
    PROVE  Reads(t, u, m, Reading(u, NoLabel, TRUE), b, 0, of, at, R)
  <1> DEFINE s == Reading(u, NoLabel, TRUE)
  <1>1. s.going /\ s.label = NoLabel /\ s.msg = u
    BY DEF Reading
  <1> HIDE DEF s
  <1>2. ASSUME NEW f \in Fields(t)
        PROVE  Reached(of, at, 0, f, 0) /\ Got(t, u, m, u, f, 0, R)
    <2>1. 1..0 = {} /\ 0 \in Nat
      OBVIOUS
    <2>2. Reached(of, at, 0, f, 0)
      BY <2>1 DEF Reached
    <2>3. Repeated(t, f) => Len(u.val[f]) \in Nat
      <3>1. Repeated(t, f) => IsMessage(t, f)
        BY ClassesAgree DEF TablesAgree, FieldsAgree
      <3> QED
        BY <3>1, Parts DEF MayHold, Good
    <2>4. Repeated(t, f) => Len(u.val[f]) = Len(u.val[f]) + 0
      BY <2>3
    <2>5. Got(t, u, m, u, f, 0, R)
      BY <2>1, <2>4 DEF Got
    <2> QED
      BY <2>2, <2>5
  <1>3. Reads(t, u, m, s, b, 0, of, at, R)
    BY <1>1, <1>2 DEF Reads
  <1> QED
    BY <1>3 DEF s

\* The loop reads the first tokens, of what begins to tell of m.
LEMMA LoopReads ==
    ASSUME NEW t \in DOMAIN Classes, NEW W, NEW u \in Good(t, W), NEW m \in Good(t, {}),
           NEW b \in Seq(W), NEW n,
           NEW of, NEW at, NEW inside, Begins(t, m, b, n, of, at, inside), NEW R,
           NEW inner, NEW a, Runs(t, W, u, b, inner, a),
           \A j \in 1..n : NextRead(t, W, u, m, a[j - 1], b, j, of, at, R, inner[j])
    PROVE  Reads(t, u, m, a[n], b, n, of, at, R)
  <1> DEFINE T == {j \in 0..n : Reads(t, u, m, a[j], b, j, of, at, R)}
  <1>1. n \in Nat /\ Len(b) \in Nat /\ n <= Len(b)
    BY DEF Begins
  <1>2. 0 \in T
    <2>1. a[0] = Reading(u, NoLabel, TRUE)
      BY DEF Runs
    <2>2. Reads(t, u, m, a[0], b, 0, of, at, R)
      BY <2>1, NothingRead
    <2>3. 0 \in 0..n
      BY <1>1
    <2> QED
      BY <2>2, <2>3
  <1>3. ASSUME NEW j \in 1..n, j - 1 \in T
        PROVE  j \in T
    <2>1. j \in 1..Len(b) /\ j - 1 \in 0..Len(b) /\ j \in 0..n
      BY <1>1
    <2>2. a[j] = ReadToken(t, a[j - 1], b, j, inner[j]) /\ a[j - 1] \in Readings(t, W)
      BY <2>1 DEF Runs
    <2>3. Reads(t, u, m, a[j - 1], b, j - 1, of, at, R)
      BY <1>3
    <2>4. NextRead(t, W, u, m, a[j - 1], b, j, of, at, R, inner[j])
      OBVIOUS
    <2>5. Reads(t, u, m, a[j], b, j, of, at, R)
      <3>1. CASE of[j] = 0
        BY <2>2, <2>3, <3>1, UnknownTokenRead
      <3>2. CASE of[j] # 0
        BY <2>2, <2>3, <2>4, <3>2, FieldTokenRead
      <3> QED
        BY <3>1, <3>2
    <2> QED
      BY <2>1, <2>5
  <1>4. \A j \in 0..n : j \in T
    <2> HIDE DEF T
    <2> QED
      BY <1>1, <1>2, <1>3, Induction
  <1> QED
    BY <1>1, <1>4

\* All of m has been read into u, and r is the result.
Added(t, u, m, r, R) == \A f \in Fields(t) : Got(t, u, m, r, f, Count(t, m, f), R)

\* When all tokens are read, all of the message they tell of is.
LEMMA AllRead ==
    ASSUME NEW t \in DOMAIN Classes, NEW u, NEW m \in Good(t, {}), NEW b, NEW n, NEW of, NEW at,
           NEW inside, Tells(t, m, b, n, of, at, inside), NEW R, NEW s,
           Reads(t, u, m, s, b, n, of, at, R)
    PROVE  Added(t, u, m, s.msg, R)
  <1>1. ASSUME NEW f \in Fields(t)
        PROVE  Got(t, u, m, s.msg, f, Count(t, m, f), R)
    <2>1. PICK c \in Nat : Reached(of, at, n, f, c) /\ Got(t, u, m, s.msg, f, c, R)
      BY DEF Reads
    <2>2. c = Count(t, m, f)
      BY <2>1, AllReached
    <2> QED
      BY <2>1, <2>2
  <1> QED
    BY <1>1 DEF Added

\* A token of a message tells of one that is there.
LEMMA InsideTold ==
    ASSUME NEW t \in DOMAIN Classes, NEW m \in Good(t, {}), NEW b, NEW n, NEW of, NEW at,
           NEW inside, Begins(t, m, b, n, of, at, inside), NEW j \in 1..n, of[j] # 0,
           IsMessage(t, of[j])
    PROVE  /\ of[j] \in Messages(t)
           /\ at[j] \in DOMAIN m.val[of[j]]
           /\ b[j].sub = inside[of[j]][at[j]]
  <1> DEFINE f == of[j]
  <1>1. f \in Fields(t) /\ at[j] \in 1..Count(t, m, f) /\ Says(t, m, b[j], f, at[j], inside)
    BY DEF Begins
  <1>2. f \in Messages(t)
    BY <1>1 DEF Messages
  <1>3. m.val[f] \in Seq(InnerSet(t, {}))
    BY <1>1, Parts DEF MayHold, Good
  <1>4. Count(t, m, f) = 0 \/ Count(t, m, f) = Len(m.val[f])
    BY DEF Count
  <1>5. at[j] \in 1..Len(m.val[f])
    BY <1>1, <1>4
  <1>6. at[j] \in DOMAIN m.val[f]
    BY <1>3, <1>5
  <1>7. b[j].sub = inside[f][at[j]]
    BY <1>1 DEF Says
  <1> QED
    BY <1>2, <1>6, <1>7

\* A message without unknown fields is one that may have them.
LEMMA MessageSetGrows ==
    ASSUME NEW t, NEW G, NEW H, G \subseteq H, NEW W, NEW m \in MessageSet(t, G, {})
    PROVE  m \in MessageSet(t, H, W)
  <1>1. /\ m = [has |-> m.has, val |-> m.val, unknown |-> m.unknown]
        /\ m.has \in SUBSET Bits(t) /\ m.val = [f \in Fields(t) |-> m.val[f]]
        /\ m.unknown \in Seq({})
        /\ \A f \in Fields(t) : MayHold(t, m.has, f, m.val[f], G)
    BY Parts
  <1>2. \A s : s \in Seq(G) => s \in Seq(H)
    <2>1. ASSUME NEW s \in Seq(G)
          PROVE  s \in Seq(H)
      <3>1. Len(s) \in Nat /\ s = [i \in 1..Len(s) |-> s[i]] /\ \A i \in 1..Len(s) : s[i] \in H
        OBVIOUS
      <3> QED
        BY <3>1, IsSequence
    <2> QED
      BY <2>1
  <1>3. \A f \in Fields(t) : MayHold(t, m.has, f, m.val[f], H)
    BY <1>1, <1>2 DEF MayHold
  <1>4. m.unknown \in Seq(W)
    <2>1. m.unknown = <<>>
      BY <1>1
    <2> QED
      BY <2>1
  <1> QED
    BY <1>1, <1>3, <1>4, Build

LEMMA GoodGrows ==
    ASSUME NEW t \in DOMAIN Classes, NEW W
    PROVE  Good(t, {}) \subseteq Good(t, W)
  <1>1. Entries({}) \subseteq Entries(W)
    BY MessageSetGrows DEF Entries
  <1>2. HeaderMessages({}) \subseteq HeaderMessages(W)
    BY <1>1, MessageSetGrows DEF HeaderMessages
  <1>3. InnerSet(t, {}) \subseteq InnerSet(t, W)
    BY <1>1, <1>2 DEF InnerSet
  <1> QED
    BY <1>3, MessageSetGrows DEF Good

\* What is seen of the messages inside m.
Sees(t, m, sees, mi) ==
    \A f \in Messages(t) : mi[f] = [i \in DOMAIN m.val[f] |-> sees[m.val[f][i]]]

\* Two messages read alike only if their fields do.
LEMMA SeenApart ==
    ASSUME NEW t \in DOMAIN Classes, NEW W, NEW u \in Good(t, W), NEW v \in Good(t, W), NEW sees,
           NEW ui, NEW vi, Sees(t, u, sees, ui), Sees(t, v, sees, vi),
           SeenBy(t, u, ui) = SeenBy(t, v, vi), NEW f \in Fields(t)
    PROVE  /\ ~Repeated(t, f) => (has_(t, u, f) <=> has_(t, v, f))
           /\ ~IsMessage(t, f) => u.val[f] = v.val[f]
           /\ IsMessage(t, f) /\ (Repeated(t, f) \/ has_(t, u, f)) =>
                /\ ui[f] = vi[f]
                /\ Len(u.val[f]) = Len(v.val[f])
                /\ \A i \in 1..Len(u.val[f]) : sees[u.val[f][i]] = sees[v.val[f][i]]
  <1> DEFINE S(x, xi) == IF ~IsMessage(t, f) THEN <<has_(t, x, f), x.val[f]>>
                         ELSE IF Repeated(t, f) \/ has_(t, x, f) THEN xi[f] ELSE NULL
  <1>1. SeenBy(t, u, ui)[f] = S(u, ui) /\ SeenBy(t, v, vi)[f] = S(v, vi)
    BY DEF SeenBy
  <1>2. S(u, ui) = S(v, vi)
    BY <1>1
  <1>3. CASE ~IsMessage(t, f)
    BY <1>2, <1>3
  <1>4. CASE IsMessage(t, f)
    <2>1. f \in Messages(t)
      BY <1>4 DEF Messages
    <2>2. /\ ui[f] = [i \in DOMAIN u.val[f] |-> sees[u.val[f][i]]]
          /\ vi[f] = [i \in DOMAIN v.val[f] |-> sees[v.val[f][i]]]
      BY <2>1 DEF Sees
    <2>3. /\ u.val[f] \in Seq(InnerSet(t, W)) /\ v.val[f] \in Seq(InnerSet(t, W))
          /\ ~Repeated(t, f) /\ has_(t, u, f) => Len(u.val[f]) = 1
          /\ ~Repeated(t, f) /\ has_(t, v, f) => Len(v.val[f]) = 1
      <3>1. MayHold(t, u.has, f, u.val[f], InnerSet(t, W))
        BY Parts DEF Good
      <3>2. MayHold(t, v.has, f, v.val[f], InnerSet(t, W))
        BY Parts DEF Good
      <3> QED
        BY <1>4, <3>1, <3>2 DEF MayHold, has_
    <2>4. DOMAIN u.val[f] = 1..Len(u.val[f]) /\ DOMAIN v.val[f] = 1..Len(v.val[f])
      BY <2>3
    <2>5. ~Repeated(t, f) /\ has_(t, u, f) => ui[f] # NULL
      <3>1. SUFFICES ASSUME ~Repeated(t, f), has_(t, u, f), ui[f] = NULL
                     PROVE  FALSE
        OBVIOUS
      <3>2. DOMAIN ui[f] = 1..1
        BY <2>2, <2>3, <2>4, <3>1
      <3>3. DOMAIN NULL = 1..0
        BY DEF NULL
      <3> QED
        BY <3>1, <3>2, <3>3
    <2>6. ~Repeated(t, f) /\ has_(t, v, f) => vi[f] # NULL
      <3>1. SUFFICES ASSUME ~Repeated(t, f), has_(t, v, f), vi[f] = NULL
                     PROVE  FALSE
        OBVIOUS
      <3>2. DOMAIN vi[f] = 1..1
        BY <2>2, <2>3, <2>4, <3>1
      <3>3. DOMAIN NULL = 1..0
        BY DEF NULL
      <3> QED
        BY <3>1, <3>2, <3>3
    <2>7. ~Repeated(t, f) => (has_(t, u, f) <=> has_(t, v, f))
      BY <1>2, <1>4, <2>5, <2>6
    <2>8. ASSUME Repeated(t, f) \/ has_(t, u, f)
          PROVE  /\ ui[f] = vi[f] /\ Len(u.val[f]) = Len(v.val[f])
                 /\ \A i \in 1..Len(u.val[f]) : sees[u.val[f][i]] = sees[v.val[f][i]]
      <3>1. ui[f] = vi[f]
        BY <1>2, <1>4, <2>7, <2>8
      <3>2. DOMAIN ui[f] = 1..Len(u.val[f]) /\ DOMAIN vi[f] = 1..Len(v.val[f])
        BY <2>2, <2>4
      <3>3. Len(u.val[f]) \in Nat /\ Len(v.val[f]) \in Nat
        BY <2>3
      <3>4. Len(u.val[f]) = Len(v.val[f])
        BY <3>1, <3>2, <3>3
      <3>5. \A i \in 1..Len(u.val[f]) : ui[f][i] = sees[u.val[f][i]] /\ vi[f][i] = sees[v.val[f][i]]
        BY <2>2, <2>4, <3>4
      <3> QED
        BY <3>1, <3>4, <3>5
    <2> QED
      BY <1>4, <2>7, <2>8
  <1> QED
    BY <1>3, <1>4

\* The result of a merge, field by field.
LEMMA MergedFields ==
    ASSUME NEW t \in DOMAIN Classes, NEW v, NEW m, NEW mi, NEW x, x = Merged(t, v, m, mi)
    PROVE  /\ x.has = v.has \cup {Bit(t, g) : g \in Given(t, m)}
           /\ \A f \in Fields(t) :
                x.val[f] = IF f \in Given(t, m) THEN IF IsMessage(t, f) THEN mi[f] ELSE m.val[f]
                           ELSE IF Repeated(t, f) THEN v.val[f] \o mi[f]
                           ELSE v.val[f]
  <1> DEFINE z == [g \in Fields(t) |->
                    IF g \in Given(t, m)
                    THEN IF IsMessage(t, g) THEN mi[g] ELSE m.val[g]
                    ELSE IF Repeated(t, g) THEN v.val[g] \o mi[g]
                    ELSE v.val[g]]
             h == v.has \cup {Bit(t, g) : g \in Given(t, m)}
             s == v.unknown \o m.unknown
  <1>1. x = [has |-> h, val |-> z, unknown |-> s]
    BY MergedParts
  <1>2. \A g \in Fields(t) :
           z[g] = IF g \in Given(t, m) THEN IF IsMessage(t, g) THEN mi[g] ELSE m.val[g]
                  ELSE IF Repeated(t, g) THEN v.val[g] \o mi[g]
                  ELSE v.val[g]
    OBVIOUS
  <1> HIDE DEF z, h, s
  <1>3. x.has = h /\ x.val = z
    BY <1>1
  <1> QED
    BY <1>2, <1>3 DEF h

\* The only message inside, as a merge finds it.
LEMMA BaseIsMutable ==
    ASSUME NEW t \in DOMAIN Classes, NEW W, NEW u \in Good(t, W), NEW f \in Fields(t),
           IsMessage(t, f), ~Repeated(t, f)
    PROVE  Base(t, u, f) = mutable_(t, u, f).val[f][1]
  BY ReadyReplaces DEF Base

\* A message inside that is set is there.
LEMMA SetIsThere ==
    ASSUME NEW t \in DOMAIN Classes, NEW W, NEW u \in Good(t, W), NEW f \in Fields(t),
           IsMessage(t, f), ~Repeated(t, f), has_(t, u, f)
    PROVE  Len(u.val[f]) = 1 /\ u.val[f] # NULL
  <1>1. MayHold(t, u.has, f, u.val[f], InnerSet(t, W))
    BY Parts DEF Good
  <1>2. Bit(t, f) \in u.has
    BY DEF has_
  <1>3. Len(u.val[f]) = 1
    BY <1>1, <1>2 DEF MayHold
  <1>4. Len(NULL) = 0
    BY DEF NULL
  <1>5. Len(u.val[f]) # Len(NULL)
    BY <1>3, <1>4
  <1>6. u.val[f] # NULL
    BY <1>5
  <1> QED
    BY <1>3, <1>6

\* What may be said of a message x that was read into c0 and told by y: it reads like y
\* merged into any message that reads like c0.
MergesAlike(G, sees, merges, R) ==
    \A p \in R : \A w \in G : sees[w] = sees[p[1]] => sees[p[2]] = sees[merges[<<w, p[3]>>]]

\* What is made of the messages inside m when m is merged into v, and that blank messages
\* inside read alike.
MergesBy(t, v, m, merges, mi) ==
    \A f \in Messages(t) : mi[f] = [i \in DOMAIN m.val[f] |->
        merges[<<IF Repeated(t, f) THEN New(Kind(t, f)) ELSE mutable_(t, v, f).val[f][1],
                 m.val[f][i]>>]]
BlanksAlike(t, W, sees) ==
    \A f \in Messages(t) : \A x, y \in InnerSet(t, W) :
        Blank(Kind(t, f), x) /\ Blank(Kind(t, f), y) => sees[x] = sees[y]

\* Reading m into u is like merging m into a message v that reads like u.
LEMMA AddedIsMerged ==
    ASSUME NEW t \in DOMAIN Classes, NEW W, NEW u \in Good(t, W), NEW v \in Good(t, W),
           NEW r \in Good(t, W), NEW m \in Good(t, {}), NEW sees, NEW merges, NEW R,
           MergesAlike(InnerSet(t, W), sees, merges, R), Added(t, u, m, r, R),
           BlanksAlike(t, W, sees),
           NEW ui, NEW vi, NEW ri, NEW mi, NEW xi, NEW x, x = Merged(t, v, m, mi),
           Sees(t, u, sees, ui), Sees(t, v, sees, vi), Sees(t, r, sees, ri), Sees(t, x, sees, xi),
           SeenBy(t, u, ui) = SeenBy(t, v, vi), MergesInside(t, m, mi, W),
           MergesBy(t, v, m, merges, mi)
    PROVE  SeenBy(t, r, ri) = SeenBy(t, x, xi)
  <1> DEFINE G == InnerSet(t, W)
  <1>1. m \in Good(t, W)
    BY GoodGrows
  <1>2. /\ x \in Good(t, W)
        /\ x.has = v.has \cup {Bit(t, g) : g \in Given(t, m)}
        /\ \A f \in Fields(t) :
             x.val[f] = IF f \in Given(t, m) THEN IF IsMessage(t, f) THEN mi[f] ELSE m.val[f]
                        ELSE IF Repeated(t, f) THEN v.val[f] \o mi[f]
                        ELSE v.val[f]
    <2>1. x \in Good(t, W)
      BY <1>1, MergedIsGood
    <2> QED
      BY <2>1, MergedFields
  <1>3. SUFFICES ASSUME NEW f \in Fields(t)
                 PROVE  /\ ~Repeated(t, f) => (has_(t, r, f) <=> has_(t, x, f))
                        /\ IsMessage(t, f) /\ (Repeated(t, f) \/ has_(t, r, f)) => ri[f] = xi[f]
                        /\ ~IsMessage(t, f) => ~Repeated(t, f) /\ r.val[f] = x.val[f]
    BY ReadAlike
  <1>4. /\ ~Repeated(t, f) => (has_(t, u, f) <=> has_(t, v, f))
        /\ ~IsMessage(t, f) => u.val[f] = v.val[f]
        /\ IsMessage(t, f) /\ (Repeated(t, f) \/ has_(t, u, f)) =>
             /\ ui[f] = vi[f]
             /\ Len(u.val[f]) = Len(v.val[f])
             /\ \A i \in 1..Len(u.val[f]) : sees[u.val[f][i]] = sees[v.val[f][i]]
    BY SeenApart
  <1> DEFINE c == Count(t, m, f)
  <1>5. /\ Got(t, u, m, r, f, c, R) /\ c \in Nat
        /\ ~Repeated(t, f) => c = IF has_(t, m, f) THEN 1 ELSE 0
        /\ Repeated(t, f) => c = Len(m.val[f])
    BY CountType DEF Added
  <1>6. ~Repeated(t, f) => (f \in Given(t, m) <=> has_(t, m, f))
    BY DEF Given
  <1>7. Repeated(t, f) => IsMessage(t, f) /\ f \notin Given(t, m)
    BY ClassesAgree DEF TablesAgree, FieldsAgree, Given
  <1>8. ~Repeated(t, f) => (has_(t, r, f) <=> has_(t, x, f))
    <2>1. \A g \in Fields(t) : Bit(t, g) = Bit(t, f) => g = f
      BY ClassesAgree DEF TablesAgree, FieldsAgree
    <2>2. Bit(t, f) \in {Bit(t, g) : g \in Given(t, m)} <=> f \in Given(t, m)
      BY <2>1 DEF Given
    <2>3. has_(t, x, f) <=> has_(t, v, f) \/ f \in Given(t, m)
      BY <1>2, <2>2 DEF has_
    <2> QED
      BY <1>4, <1>5, <1>6, <2>3 DEF Got
  <1>9. ~IsMessage(t, f) => ~Repeated(t, f) /\ r.val[f] = x.val[f]
    BY <1>2, <1>4, <1>5, <1>6, <1>7 DEF Got
  <1>10. IsMessage(t, f) =>
            /\ f \in Messages(t)
            /\ u.val[f] \in Seq(G) /\ v.val[f] \in Seq(G) /\ r.val[f] \in Seq(G)
            /\ x.val[f] \in Seq(G) /\ m.val[f] \in Seq(G)
    <2>1. \A y \in Good(t, W) : MayHold(t, y.has, f, y.val[f], G)
      BY Parts DEF Good
    <2> QED
      BY <1>1, <1>2, <2>1 DEF MayHold, Messages
  <1>11. IsMessage(t, f) =>
            /\ ri[f] = [i \in DOMAIN r.val[f] |-> sees[r.val[f][i]]]
            /\ xi[f] = [i \in DOMAIN x.val[f] |-> sees[x.val[f][i]]]
            /\ mi[f] \in Seq(G) /\ Len(mi[f]) = Len(m.val[f])
    BY <1>10 DEF Sees, MergesInside
  <1>12. ASSUME IsMessage(t, f), NEW n \in Nat, Len(r.val[f]) = n, Len(x.val[f]) = n,
                \A i \in 1..n : sees[r.val[f][i]] = sees[x.val[f][i]]
         PROVE  ri[f] = xi[f]
    <2>1. DOMAIN r.val[f] = 1..n /\ DOMAIN x.val[f] = 1..n
      BY <1>10, <1>12
    <2>2. ri[f] = [i \in 1..n |-> sees[r.val[f][i]]] /\ xi[f] = [i \in 1..n |-> sees[x.val[f][i]]]
      BY <1>11, <1>12, <2>1
    <2> QED
      BY <1>12, <2>2
  <1>13. ASSUME IsMessage(t, f), ~Repeated(t, f), has_(t, r, f), has_(t, m, f)
         PROVE  ri[f] = xi[f]
    <2> DEFINE w == mutable_(t, v, f).val[f][1]
               b == Base(t, u, f)
               y == m.val[f][1]
    <2>1. Len(r.val[f]) = 1 /\ <<b, r.val[f][1], y>> \in R
      BY <1>5, <1>13 DEF Got
    <2>2. x.val[f] = mi[f]
      BY <1>2, <1>6, <1>13
    <2>3. Len(m.val[f]) = 1
      BY <1>1, <1>13, SetIsThere
    <2>4. mi[f] = [i \in DOMAIN m.val[f] |-> merges[<<w, m.val[f][i]>>]] /\ 1 \in DOMAIN m.val[f]
      <3>1. f \in Messages(t)
        BY <1>10, <1>13
      <3>2. mi[f] = [i \in DOMAIN m.val[f] |->
                merges[<<IF Repeated(t, f) THEN New(Kind(t, f)) ELSE w, m.val[f][i]>>]]
        BY <3>1 DEF MergesBy
      <3>3. 1 \in DOMAIN m.val[f]
        BY <1>10, <1>13, <2>3
      <3> HIDE DEF w
      <3> QED
        BY <1>13, <3>2, <3>3
    <2>5. mi[f][1] = merges[<<w, y>>]
      BY <2>4
    <2>6. w \in G /\ b \in G /\ sees[w] = sees[b]
      <3>1. w \in G
        BY <1>13, MutableIsGood
      <3>2. b = mutable_(t, u, f).val[f][1]
        BY <1>13, BaseIsMutable
      <3>3. b \in G
        BY <1>13, <3>2, MutableIsGood
      <3>4. CASE has_(t, u, f)
        <4>1. Len(u.val[f]) = 1 /\ u.val[f] # NULL
          BY <1>13, <3>4, SetIsThere
        <4>2. v.val[f] # NULL
          BY <1>4, <1>13, <3>4, SetIsThere
        <4>3. w = v.val[f][1] /\ b = u.val[f][1]
          BY <1>13, <3>2, <4>1, <4>2, MutableIsGood
        <4> QED
          BY <1>4, <1>13, <3>1, <3>3, <3>4, <4>1, <4>2, <4>3
      <3>5. CASE ~has_(t, u, f)
        <4>1. ASSUME NEW z \in Good(t, W), ~has_(t, z, f)
              PROVE  Blank(Kind(t, f), mutable_(t, z, f).val[f][1])
          <5>1. MayHold(t, z.has, f, z.val[f], G)
            BY Parts DEF Good
          <5>2. CASE z.val[f] = NULL
            <6>1. mutable_(t, z, f).val[f] = <<New(Kind(t, f))>>
              BY <1>13, <5>2, MutableIsGood
            <6>2. Blank(Kind(t, f), New(Kind(t, f)))
              BY <1>13, InnerIsGood, NewIsGood
            <6> QED
              BY <6>1, <6>2
          <5>3. CASE z.val[f] # NULL
            <6>1. mutable_(t, z, f).val[f] = z.val[f] /\ Len(mutable_(t, z, f).val[f]) = 1
              BY <1>13, <5>3, MutableIsGood
            <6>2. z.val[f] \in Seq(G) /\ Len(z.val[f]) = 1
              BY <1>13, <5>1, <6>1 DEF MayHold
            <6>3. 1 \in DOMAIN z.val[f]
              BY <6>2
            <6> QED
              BY <1>13, <4>1, <5>1, <6>1, <6>3 DEF MayHold, has_
          <5> QED
            BY <5>2, <5>3
        <4>2. Blank(Kind(t, f), w) /\ Blank(Kind(t, f), b)
          BY <1>4, <1>13, <3>2, <3>5, <4>1
        <4> QED
          BY <1>10, <1>13, <3>1, <3>3, <4>2 DEF BlanksAlike
      <3> QED
        BY <3>4, <3>5
    <2> HIDE DEF w, b, y
    <2>7. sees[r.val[f][1]] = sees[merges[<<w, y>>]]
      <3> DEFINE p == <<b, r.val[f][1], y>>
      <3>1. p \in R /\ p[1] = b /\ p[2] = r.val[f][1] /\ p[3] = y
        BY <2>1
      <3> HIDE DEF p
      <3> QED
        BY <2>6, <3>1 DEF MergesAlike
    <2>8. Len(x.val[f]) = 1 /\ x.val[f][1] = merges[<<w, y>>]
      BY <1>11, <1>13, <2>2, <2>3, <2>5
    <2>9. \A i \in 1..1 : sees[r.val[f][i]] = sees[x.val[f][i]]
      BY <2>7, <2>8
    <2> QED
      BY <1>12, <1>13, <2>1, <2>8, <2>9
  <1>14. ASSUME IsMessage(t, f), ~Repeated(t, f), has_(t, r, f), ~has_(t, m, f)
         PROVE  ri[f] = xi[f]
    <2>1. r.val[f] = u.val[f] /\ x.val[f] = v.val[f] /\ has_(t, u, f)
      BY <1>2, <1>5, <1>6, <1>14 DEF Got
    <2>2. /\ Len(u.val[f]) = Len(v.val[f]) /\ Len(u.val[f]) \in Nat
          /\ \A i \in 1..Len(u.val[f]) : sees[u.val[f][i]] = sees[v.val[f][i]]
      BY <1>4, <1>10, <1>14, <2>1
    <2> QED
      BY <1>12, <1>14, <2>1, <2>2
  <1>15. ASSUME IsMessage(t, f), Repeated(t, f)
         PROVE  ri[f] = xi[f]
    <2> DEFINE n == Len(u.val[f])
               e == New(Kind(t, f))
    <2>1. /\ Len(r.val[f]) = n + c /\ n \in Nat /\ c = Len(m.val[f])
          /\ \A i \in 1..n : r.val[f][i] = u.val[f][i]
          /\ \A i \in 1..c : <<e, r.val[f][n + i], m.val[f][i]>> \in R
      BY <1>5, <1>10, <1>15 DEF Got, Base
    <2>2. /\ Len(v.val[f]) = n
          /\ \A i \in 1..n : sees[u.val[f][i]] = sees[v.val[f][i]]
      BY <1>4, <1>15
    <2>3. x.val[f] = v.val[f] \o mi[f]
      BY <1>2, <1>7, <1>15
    <2>4. /\ mi[f] \in Seq(G) /\ Len(mi[f]) = c
          /\ \A i \in 1..c : mi[f][i] = merges[<<e, m.val[f][i]>>]
      <3>1. mi[f] = [i \in DOMAIN m.val[f] |-> merges[<<e, m.val[f][i]>>]]
        BY <1>10, <1>15 DEF MergesBy
      <3>2. DOMAIN m.val[f] = 1..c
        BY <1>10, <1>15, <2>1
      <3> QED
        BY <1>11, <1>15, <2>1, <3>1, <3>2
    <2>5. e \in G
      BY <1>15, InnerIsGood, NewIsGood
    <2> HIDE DEF c, n, e
    <2>6. /\ Len(x.val[f]) = n + c
          /\ \A i \in 1..(n + c) : x.val[f][i] = IF i <= n THEN v.val[f][i] ELSE mi[f][i - n]
      <3> DEFINE p == v.val[f]
                 q == mi[f]
      <3>1. p \in Seq(G) /\ q \in Seq(G) /\ Len(p) = n /\ Len(q) = c
        BY <1>10, <1>15, <2>2, <2>4
      <3>2. x.val[f] = p \o q
        BY <2>3
      <3> HIDE DEF p, q, G
      <3>3. /\ Len(p \o q) = Len(p) + Len(q)
            /\ \A i \in 1..(Len(p) + Len(q)) :
                  (p \o q)[i] = IF i <= Len(p) THEN p[i] ELSE q[i - Len(p)]
        BY <3>1, Joined
      <3> QED
        BY <3>1, <3>2, <3>3 DEF p, q
    <2>7. ASSUME NEW i \in 1..(n + c)
          PROVE  sees[r.val[f][i]] = sees[x.val[f][i]]
      <3>1. CASE i <= n
        <4>1. i \in 1..n
          BY <2>1, <3>1
        <4> QED
          BY <2>1, <2>2, <2>6, <3>1, <4>1
      <3>2. CASE ~(i <= n)
        <4>1. i - n \in 1..c /\ n + (i - n) = i
          BY <1>5, <2>1, <3>2 DEF c
        <4> DEFINE k == i - n
                   p == <<e, r.val[f][i], m.val[f][k]>>
        <4>2. p \in R /\ p[1] = e /\ p[2] = r.val[f][i] /\ p[3] = m.val[f][k]
          <5>1. <<e, r.val[f][n + k], m.val[f][k]>> \in R
            BY <2>1, <4>1
          <5> QED
            BY <4>1, <5>1
        <4>3. x.val[f][i] = merges[<<e, m.val[f][k]>>]
          BY <2>4, <2>6, <3>2, <4>1
        <4> HIDE DEF p, k
        <4> QED
          BY <2>5, <4>2, <4>3 DEF MergesAlike
      <3> QED
        BY <3>1, <3>2
    <2>8. n + c \in Nat
      BY <1>5, <2>1 DEF c
    <2> QED
      BY <1>12, <1>15, <2>1, <2>6, <2>7, <2>8
  <1> QED
    BY <1>8, <1>9, <1>13, <1>14, <1>15

\* Two blank messages of a class read alike.
LEMMA BlanksReadAlike ==
    ASSUME NEW t \in DOMAIN Classes, NEW W, NEW x \in Good(t, W), NEW y \in Good(t, W),
           Blank(t, x), Blank(t, y), NEW sees, NEW xi, NEW yi,
           Sees(t, x, sees, xi), Sees(t, y, sees, yi)
    PROVE  SeenBy(t, x, xi) = SeenBy(t, y, yi)
  <1>1. SUFFICES ASSUME NEW f \in Fields(t)
                 PROVE  /\ ~Repeated(t, f) => (has_(t, x, f) <=> has_(t, y, f))
                        /\ IsMessage(t, f) /\ (Repeated(t, f) \/ has_(t, x, f)) => xi[f] = yi[f]
                        /\ ~IsMessage(t, f) => ~Repeated(t, f) /\ x.val[f] = y.val[f]
    BY ReadAlike
  <1>2. ~has_(t, x, f) /\ ~has_(t, y, f)
    BY DEF Blank, has_
  <1>3. ASSUME IsMessage(t, f), Repeated(t, f)
        PROVE  xi[f] = yi[f]
    <2>1. f \in Messages(t) /\ x.val[f] = NULL /\ y.val[f] = NULL
      BY <1>3 DEF Messages, Blank
    <2>2. /\ xi[f] = [i \in DOMAIN x.val[f] |-> sees[x.val[f][i]]]
          /\ yi[f] = [i \in DOMAIN y.val[f] |-> sees[y.val[f][i]]]
      BY <2>1 DEF Sees
    <2> QED
      BY <2>1, <2>2
  <1>4. ~IsMessage(t, f) => ~Repeated(t, f) /\ x.val[f] = y.val[f]
    <2>1. \A z \in Good(t, W) : MayHold(t, z.has, f, z.val[f], InnerSet(t, W))
      BY Parts DEF Good
    <2>2. ~IsMessage(t, f) => ~Repeated(t, f)
      BY ClassesAgree DEF TablesAgree, FieldsAgree
    <2> QED
      BY <1>2, <2>1, <2>2 DEF MayHold, has_
  <1> QED
    BY <1>2, <1>3, <1>4

\* Reading what is written of m, in a class with no messages inside, is merging it.
LEMMA FlatAdds ==
    ASSUME NEW t \in Flats, NEW u \in Good(t, AllTokens), NEW v \in Good(t, AllTokens),
           SeenFlat(t, u) = SeenFlat(t, v), NEW m \in Good(t, {}), NEW p,
           p = MergePartialFlat(t, u, SerializeFlat(t, m))
    PROVE  /\ p.going /\ p.msg \in Good(t, AllTokens)
           /\ SeenFlat(t, p.msg) = SeenFlat(t, MergeFromFlat(t, v, m))
  <1> DEFINE b == SerializeFlat(t, m)
             n == Len(b)
             R == {}
             x == MergeFromFlat(t, v, m)
  <1>1. t \in DOMAIN Classes /\ (\A f \in Fields(t) : ~IsMessage(t, f)) /\ Messages(t) = {}
    BY ClassesAgree, ClassNames DEF TablesAgree, FieldsAgree, Messages
  <1>2. b \in Seq(AllTokens) /\ Tokens(AllTokens)
    BY SerializeFlatIsTokens, TokensInside
  <1>3. PICK of, at : Tells(t, m, b, n, of, at, NULL)
    <2>1. \A f \in Messages(t) : \A i \in DOMAIN m.val[f] : NULL[f][i] \in {<<>>}
      BY <1>1
    <2> QED
      BY <1>1, <2>1, SerializedTells DEF SerializeFlat
  <1> DEFINE in == [i \in 1..n |-> NULL]
  <1>4. PICK a : Runs(t, AllTokens, u, b, in, a) /\ p = a[n]
    BY <1>2, MergePartialFlatRuns
  <1>5. x = Merged(t, v, m, NULL)
    BY DEF MergeFromFlat
  <1> HIDE DEF b, n, R, in, x
  <1>6. Begins(t, m, b, n, of, at, NULL)
    BY <1>3 DEF Tells
  <1>7. \A j \in 1..n : NextRead(t, AllTokens, u, m, a[j - 1], b, j, of, at, R, in[j])
    BY <1>1, <1>6 DEF NextRead, Begins
  <1>8. Reads(t, u, m, p, b, n, of, at, R)
    BY <1>1, <1>2, <1>4, <1>6, <1>7, LoopReads
  <1>9. p \in Readings(t, AllTokens)
    BY <1>2, <1>4 DEF Runs, n
  <1>10. Added(t, u, m, p.msg, R)
    BY <1>1, <1>3, <1>8, AllRead
  <1>11. p.msg \in Good(t, AllTokens) /\ p.going
    BY <1>8, <1>9 DEF Readings, Reads
  <1>12. SeenBy(t, p.msg, NULL) = SeenBy(t, x, NULL)
    <2>1. MergesAlike(InnerSet(t, AllTokens), NULL, NULL, R)
      BY DEF MergesAlike, R
    <2>2. \A y : Sees(t, y, NULL, NULL)
      BY <1>1 DEF Sees
    <2>3. MergesInside(t, m, NULL, AllTokens)
      BY <1>1 DEF MergesInside
    <2>4. SeenBy(t, u, NULL) = SeenBy(t, v, NULL)
      BY DEF SeenFlat
    <2>5. BlanksAlike(t, AllTokens, NULL) /\ MergesBy(t, v, m, NULL, NULL)
      BY <1>1 DEF BlanksAlike, MergesBy
    <2> QED
      BY <1>1, <1>5, <1>10, <1>11, <2>1, <2>2, <2>3, <2>4, <2>5, AddedIsMerged
  <1> QED
    BY <1>11, <1>12 DEF SeenFlat, x

\* A message c0 of class k, one read into it, and the one it was told by: the second reads
\* like the third merged into any that reads like c0.
FlatMerges(k) ==
    {p \in Good(k, AllTokens) \X Good(k, AllTokens) \X Good(k, {}) :
        \A w \in Good(k, AllTokens) : SeenFlat(k, w) = SeenFlat(k, p[1]) =>
            SeenFlat(k, p[2]) = SeenFlat(k, MergeFromFlat(k, w, p[3]))}
HeaderMerges(k) ==
    {p \in Good(k, AllTokens) \X Good(k, AllTokens) \X Good(k, {}) :
        \A w \in Good(k, AllTokens) : SeenHeader(k, w) = SeenHeader(k, p[1]) =>
            SeenHeader(k, p[2]) = SeenHeader(k, MergeFromHeader(k, w, p[3]))}

\* What a reader sees of messages of class k, and of two of them merged.
FlatSees(k) == [x \in Good(k, AllTokens) |-> SeenFlat(k, x)]
FlatMerged(k) == [q \in Good(k, AllTokens) \X Good(k, AllTokens) |-> MergeFromFlat(k, q[1], q[2])]
HeaderSees(k) == [x \in Good(k, AllTokens) |-> SeenHeader(k, x)]
HeaderMerged(k) ==
    [q \in Good(k, AllTokens) \X Good(k, AllTokens) |-> MergeFromHeader(k, q[1], q[2])]

LEMMA FlatMergesAlike ==
    ASSUME NEW k \in Flats
    PROVE  MergesAlike(Good(k, AllTokens), FlatSees(k), FlatMerged(k), FlatMerges(k))
  <1> DEFINE G == Good(k, AllTokens)
             F == Good(k, {})
  <1>1. k \in DOMAIN Classes
    BY ClassNames
  <1>2. F \subseteq G
    BY <1>1, GoodGrows
  <1>3. \A w, y \in G : MergeFromFlat(k, w, y) \in G
    BY MergeFromFlatIsGood
  <1> HIDE DEF G, F
  <1>4. ASSUME NEW p \in FlatMerges(k), NEW w \in G, FlatSees(k)[w] = FlatSees(k)[p[1]]
        PROVE  FlatSees(k)[p[2]] = FlatSees(k)[FlatMerged(k)[<<w, p[3]>>]]
    <2>1. /\ p[1] \in G /\ p[2] \in G /\ p[3] \in G
          /\ SeenFlat(k, w) = SeenFlat(k, p[1]) =>
                SeenFlat(k, p[2]) = SeenFlat(k, MergeFromFlat(k, w, p[3]))
      BY <1>2 DEF FlatMerges, G, F
    <2>2. \A y \in G : FlatSees(k)[y] = SeenFlat(k, y)
      BY DEF FlatSees, G
    <2>3. FlatMerged(k)[<<w, p[3]>>] = MergeFromFlat(k, w, p[3])
      BY <2>1 DEF FlatMerged, G
    <2> QED
      BY <1>3, <1>4, <2>1, <2>2, <2>3
  <1> QED
    BY <1>4 DEF MergesAlike, G

LEMMA HeaderMergesAlike ==
    ASSUME NEW k, k = "Header"
    PROVE  MergesAlike(Good(k, AllTokens), HeaderSees(k), HeaderMerged(k), HeaderMerges(k))
  <1> DEFINE G == Good(k, AllTokens)
             F == Good(k, {})
  <1>1. k \in DOMAIN Classes /\ k \in Flats \cup {"Header"}
    BY ClassNames
  <1>2. F \subseteq G
    BY <1>1, GoodGrows
  <1>3. \A w, y \in G : MergeFromHeader(k, w, y) \in G
    BY <1>1, MergeFromHeaderIsGood
  <1> HIDE DEF G, F
  <1>4. ASSUME NEW p \in HeaderMerges(k), NEW w \in G, HeaderSees(k)[w] = HeaderSees(k)[p[1]]
        PROVE  HeaderSees(k)[p[2]] = HeaderSees(k)[HeaderMerged(k)[<<w, p[3]>>]]
    <2>1. /\ p[1] \in G /\ p[2] \in G /\ p[3] \in G
          /\ SeenHeader(k, w) = SeenHeader(k, p[1]) =>
                SeenHeader(k, p[2]) = SeenHeader(k, MergeFromHeader(k, w, p[3]))
      BY <1>2 DEF HeaderMerges, G, F
    <2>2. \A y \in G : HeaderSees(k)[y] = SeenHeader(k, y)
      BY DEF HeaderSees, G
    <2>3. HeaderMerged(k)[<<w, p[3]>>] = MergeFromHeader(k, w, p[3])
      BY <2>1 DEF HeaderMerged, G
    <2> QED
      BY <1>3, <1>4, <2>1, <2>2, <2>3
  <1> QED
    BY <1>4 DEF MergesAlike, G

\* What is seen of the messages inside is seen by one function.
LEMMA HeaderSeesInside ==
    ASSUME NEW t, t = "Header", NEW y \in Good(t, AllTokens)
    PROVE  Sees(t, y, FlatSees("Entry"), Inside(t, y, SeenFlat))
  <1>1. SUFFICES ASSUME NEW f \in Messages(t)
                 PROVE  Inside(t, y, SeenFlat)[f] =
                            [i \in DOMAIN y.val[f] |-> FlatSees("Entry")[y.val[f][i]]]
    BY DEF Sees
  <1>2. t \in DOMAIN Classes
    BY ClassNames
  <1>3. \A i \in DOMAIN y.val[f] :
            /\ Kind(t, f) = "Entry"
            /\ SeenFlat(Kind(t, f), y.val[f][i]) = FlatSees("Entry")[y.val[f][i]]
    BY <1>2, InsideIsGood DEF FlatSees
  <1>4. Inside(t, y, SeenFlat)[f] = [i \in DOMAIN y.val[f] |-> SeenFlat(Kind(t, f), y.val[f][i])]
    BY DEF Inside
  <1> QED
    BY <1>3, <1>4

LEMMA BodySeesInside ==
    ASSUME NEW t \in Flats \cup Holders, NEW y \in Good(t, AllTokens)
    PROVE  Sees(t, y, HeaderSees("Header"), Inside(t, y, SeenHeader))
  <1>1. SUFFICES ASSUME NEW f \in Messages(t)
                 PROVE  Inside(t, y, SeenHeader)[f] =
                            [i \in DOMAIN y.val[f] |-> HeaderSees("Header")[y.val[f][i]]]
    BY DEF Sees
  <1>2. t \in DOMAIN Classes /\ t # "Header"
    BY ClassNames DEF Flats, Holders
  <1>3. \A i \in DOMAIN y.val[f] :
            /\ Kind(t, f) = "Header"
            /\ SeenHeader(Kind(t, f), y.val[f][i]) = HeaderSees("Header")[y.val[f][i]]
    BY <1>2, InsideIsGood DEF HeaderSees
  <1>4. Inside(t, y, SeenHeader)[f] = [i \in DOMAIN y.val[f] |-> SeenHeader(Kind(t, f), y.val[f][i])]
    BY DEF Inside
  <1> QED
    BY <1>3, <1>4

\* Two blank messages inside a Header read alike, and so do two Headers.
LEMMA BlankEntriesReadAlike ==
    ASSUME NEW x \in Good("Entry", AllTokens), NEW y \in Good("Entry", AllTokens),
           Blank("Entry", x), Blank("Entry", y)
    PROVE  FlatSees("Entry")[x] = FlatSees("Entry")[y]
  <1>1. "Entry" \in DOMAIN Classes /\ Messages("Entry") = {}
    <2>1. "Entry" \in Flats
      BY DEF Flats
    <2> QED
      BY <2>1, ClassesAgree, ClassNames DEF TablesAgree, FieldsAgree, Messages
  <1>2. SeenBy("Entry", x, NULL) = SeenBy("Entry", y, NULL)
    <2>1. \A z : Sees("Entry", z, NULL, NULL)
      BY <1>1 DEF Sees
    <2> QED
      BY <1>1, <2>1, BlanksReadAlike
  <1> QED
    BY <1>2 DEF FlatSees, SeenFlat

LEMMA BlankHeadersReadAlike ==
    ASSUME NEW x \in Good("Header", AllTokens), NEW y \in Good("Header", AllTokens),
           Blank("Header", x), Blank("Header", y)
    PROVE  HeaderSees("Header")[x] = HeaderSees("Header")[y]
  <1>1. "Header" \in DOMAIN Classes
    BY ClassNames
  <1>2. SeenBy("Header", x, Inside("Header", x, SeenFlat)) =
            SeenBy("Header", y, Inside("Header", y, SeenFlat))
    BY <1>1, HeaderSeesInside, BlanksReadAlike
  <1> QED
    BY <1>2 DEF HeaderSees, SeenHeader

\* What a merge makes of the messages inside, in a Header and in the other classes.
LEMMA HeaderMergesInside ==
    ASSUME NEW t, t = "Header", NEW v \in Good(t, AllTokens), NEW m \in Good(t, {}), NEW mi,
           mi = MergedInside(t, v, m, MergeFromFlat)
    PROVE  /\ MergesInside(t, m, mi, AllTokens)
           /\ \A f \in Messages(t) : mi[f] = [i \in DOMAIN m.val[f] |->
                FlatMerged("Entry")[<<IF Repeated(t, f) THEN New(Kind(t, f))
                                      ELSE mutable_(t, v, f).val[f][1], m.val[f][i]>>]]
  <1> DEFINE to(f) == IF Repeated(t, f) THEN New(Kind(t, f)) ELSE mutable_(t, v, f).val[f][1]
             G == Good("Entry", AllTokens)
  <1>1. t \in DOMAIN Classes /\ "Entry" \in Flats /\ m \in Good(t, AllTokens)
    <2>1. t \in DOMAIN Classes /\ "Entry" \in Flats
      BY ClassNames DEF Flats
    <2> QED
      BY <2>1, GoodGrows
  <1>2. \A f \in Messages(t) : mi[f] = [i \in DOMAIN m.val[f] |->
            MergeFromFlat(Kind(t, f), to(f), m.val[f][i])]
    BY DEF MergedInside
  <1>3. ASSUME NEW f \in Messages(t), NEW i \in DOMAIN m.val[f]
        PROVE  /\ to(f) \in G /\ m.val[f][i] \in G
               /\ InnerSet(t, AllTokens) = G /\ Kind(t, f) = "Entry"
    BY <1>1, TargetsAreGood
  <1> HIDE DEF to, G
  <1>4. ASSUME NEW f \in Messages(t), NEW i \in DOMAIN m.val[f]
        PROVE  /\ MergeFromFlat(Kind(t, f), to(f), m.val[f][i]) =
                        FlatMerged("Entry")[<<to(f), m.val[f][i]>>]
               /\ MergeFromFlat(Kind(t, f), to(f), m.val[f][i]) \in InnerSet(t, AllTokens)
    BY <1>1, <1>3, MergeFromFlatIsGood DEF FlatMerged, G
  <1>5. MergesInside(t, m, mi, AllTokens)
    <2>1. \A f \in Messages(t) :
            /\ mi[f] = [i \in DOMAIN m.val[f] |-> mi[f][i]]
            /\ \A i \in DOMAIN m.val[f] : mi[f][i] \in InnerSet(t, AllTokens)
      <3>1. TAKE f \in Messages(t)
      <3> DEFINE e(i) == MergeFromFlat(Kind(t, f), to(f), m.val[f][i])
                 H == InnerSet(t, AllTokens)
      <3>2. mi[f] = [i \in DOMAIN m.val[f] |-> e(i)]
        BY <1>2
      <3>3. \A i \in DOMAIN m.val[f] : e(i) \in H
        BY <1>4
      <3> HIDE DEF e, H
      <3> QED
        BY <3>2, <3>3 DEF H
    <2> QED
      BY <1>1, <2>1, MergesInsideIsGood
  <1>6. \A f \in Messages(t) : mi[f] = [i \in DOMAIN m.val[f] |->
            FlatMerged("Entry")[<<to(f), m.val[f][i]>>]]
    BY <1>2, <1>4
  <1> QED
    BY <1>5, <1>6 DEF to

LEMMA BodyMergesInside ==
    ASSUME NEW t \in Flats \cup Holders, NEW v \in Good(t, AllTokens), NEW m \in Good(t, {}),
           NEW mi, mi = MergedInside(t, v, m, MergeFromHeader)
    PROVE  /\ MergesInside(t, m, mi, AllTokens)
           /\ \A f \in Messages(t) : mi[f] = [i \in DOMAIN m.val[f] |->
                HeaderMerged("Header")[<<IF Repeated(t, f) THEN New(Kind(t, f))
                                         ELSE mutable_(t, v, f).val[f][1], m.val[f][i]>>]]
  <1> DEFINE to(f) == IF Repeated(t, f) THEN New(Kind(t, f)) ELSE mutable_(t, v, f).val[f][1]
             G == Good("Header", AllTokens)
  <1>1. t \in DOMAIN Classes /\ t # "Header" /\ m \in Good(t, AllTokens)
    <2>1. t \in DOMAIN Classes /\ t # "Header"
      BY ClassNames DEF Flats, Holders
    <2> QED
      BY <2>1, GoodGrows
  <1>2. \A f \in Messages(t) : mi[f] = [i \in DOMAIN m.val[f] |->
            MergeFromHeader(Kind(t, f), to(f), m.val[f][i])]
    BY DEF MergedInside
  <1>3. ASSUME NEW f \in Messages(t), NEW i \in DOMAIN m.val[f]
        PROVE  /\ to(f) \in G /\ m.val[f][i] \in G
               /\ InnerSet(t, AllTokens) = G /\ Kind(t, f) = "Header"
    BY <1>1, TargetsAreGood
  <1> HIDE DEF to, G
  <1>4. ASSUME NEW f \in Messages(t), NEW i \in DOMAIN m.val[f]
        PROVE  /\ MergeFromHeader(Kind(t, f), to(f), m.val[f][i]) =
                        HeaderMerged("Header")[<<to(f), m.val[f][i]>>]
               /\ MergeFromHeader(Kind(t, f), to(f), m.val[f][i]) \in InnerSet(t, AllTokens)
    BY <1>1, <1>3, MergeFromHeaderIsGood DEF HeaderMerged, G
  <1>5. MergesInside(t, m, mi, AllTokens)
    <2>1. \A f \in Messages(t) :
            /\ mi[f] = [i \in DOMAIN m.val[f] |-> mi[f][i]]
            /\ \A i \in DOMAIN m.val[f] : mi[f][i] \in InnerSet(t, AllTokens)
      <3>1. TAKE f \in Messages(t)
      <3> DEFINE e(i) == MergeFromHeader(Kind(t, f), to(f), m.val[f][i])
                 H == InnerSet(t, AllTokens)
      <3>2. mi[f] = [i \in DOMAIN m.val[f] |-> e(i)]
        BY <1>2
      <3>3. \A i \in DOMAIN m.val[f] : e(i) \in H
        BY <1>4
      <3> HIDE DEF e, H
      <3> QED
        BY <3>2, <3>3 DEF H
    <2> QED
      BY <1>1, <2>1, MergesInsideIsGood
  <1>6. \A f \in Messages(t) : mi[f] = [i \in DOMAIN m.val[f] |->
            HeaderMerged("Header")[<<to(f), m.val[f][i]>>]]
    BY <1>2, <1>4
  <1> QED
    BY <1>5, <1>6 DEF to

\* A message inside is read into a good one.
LEMMA BaseIsGood ==
    ASSUME NEW t \in DOMAIN Classes, NEW W, NEW u \in Good(t, W), NEW f \in Fields(t),
           IsMessage(t, f)
    PROVE  Base(t, u, f) \in Good(Kind(t, f), W) /\ InnerSet(t, W) = Good(Kind(t, f), W)
  <1>1. InnerSet(t, W) = Good(Kind(t, f), W) /\ Kind(t, f) \in DOMAIN Classes
    BY InnerIsGood
  <1>2. Current(t, u, f) \in InnerSet(t, W)
    BY ReadyIsGood
  <1>3. New(Kind(t, f)) \in Good(Kind(t, f), W)
    BY <1>1, NewIsGood
  <1> QED
    BY <1>1, <1>2, <1>3 DEF Base

\* The messages inside a Header are read as FlatMerges says.
LEMMA HeaderInsideRead ==
    ASSUME NEW t, t = "Header", NEW u \in Good(t, AllTokens), NEW m \in Good(t, {}),
           NEW b \in Seq(AllTokens), NEW n, NEW of, NEW at, NEW inside,
           inside = Inside(t, m, SerializeFlat), Begins(t, m, b, n, of, at, inside),
           NEW a, NEW in, FlatInside(t, b, a, in), NEW j \in 1..n
    PROVE  NextRead(t, AllTokens, u, m, a[j - 1], b, j, of, at, FlatMerges("Entry"), in[j])
  <1> DEFINE f == of[j]
             q == in[j]
             c == m.val[f][at[j]]
             R == FlatMerges("Entry")
             e == Base(t, u, f)
  <1>1. SUFFICES ASSUME f # 0, IsMessage(t, f), FieldAt(a[j - 1].label, b[j]) = f,
                        Current(t, a[j - 1].msg, f) = e
                 PROVE  q.going /\ q.msg \in InnerSet(t, AllTokens) /\ <<e, q.msg, c>> \in R
    BY DEF NextRead
  <1>2. t \in DOMAIN Classes /\ "Entry" \in Flats
    BY ClassNames DEF Flats
  <1>3. f \in Messages(t) /\ at[j] \in DOMAIN m.val[f] /\ b[j].sub = inside[f][at[j]]
    BY <1>1, <1>2, InsideTold
  <1>4. Kind(t, f) = "Entry" /\ c \in Good("Entry", {})
    BY <1>2, <1>3, InsideIsGood
  <1>5. inside[f][at[j]] = SerializeFlat("Entry", c)
    BY <1>3, <1>4 DEF Inside
  <1>6. e \in Good("Entry", AllTokens) /\ InnerSet(t, AllTokens) = Good("Entry", AllTokens)
    BY <1>2, <1>3, <1>4, BaseIsGood DEF Messages
  <1>7. q = MergePartialFlat("Entry", e, SerializeFlat("Entry", c))
    <2>1. j \in 1..Len(b)
      BY DEF Begins
    <2> QED
      BY <1>1, <1>3, <1>4, <1>5, <2>1 DEF FlatInside
  <1> HIDE DEF q, c, e, f
  <1>8. ASSUME NEW w \in Good("Entry", AllTokens), SeenFlat("Entry", w) = SeenFlat("Entry", e)
        PROVE  /\ q.going /\ q.msg \in Good("Entry", AllTokens)
               /\ SeenFlat("Entry", q.msg) = SeenFlat("Entry", MergeFromFlat("Entry", w, c))
    BY <1>2, <1>4, <1>6, <1>7, <1>8, FlatAdds
  <1>9. q.going /\ q.msg \in Good("Entry", AllTokens)
    BY <1>6, <1>8
  <1>10. <<e, q.msg, c>> \in R
    BY <1>4, <1>6, <1>8, <1>9 DEF FlatMerges
  <1> QED
    BY <1>6, <1>9, <1>10

\* Reading what is written of a Header is merging it.
LEMMA HeaderAdds ==
    ASSUME NEW t, t = "Header", NEW u \in Good(t, AllTokens), NEW v \in Good(t, AllTokens),
           SeenHeader(t, u) = SeenHeader(t, v), NEW m \in Good(t, {}), NEW p,
           p = MergePartialHeader(t, u, SerializeHeader(t, m))
    PROVE  /\ p.going /\ p.msg \in Good(t, AllTokens)
           /\ SeenHeader(t, p.msg) = SeenHeader(t, MergeFromHeader(t, v, m))
  <1> DEFINE b == SerializeHeader(t, m)
             n == Len(b)
             R == FlatMerges("Entry")
             inside == Inside(t, m, SerializeFlat)
             mi == MergedInside(t, v, m, MergeFromFlat)
             x == MergeFromHeader(t, v, m)
  <1>1. t \in DOMAIN Classes /\ "Entry" \in Flats /\ t \in Flats \cup {"Header"}
    BY ClassNames DEF Flats
  <1>2. b \in Seq(AllTokens) /\ Tokens(AllTokens)
    BY SerializeHeaderIsTokens, TokensInside
  <1>3. ASSUME NEW f \in Messages(t), NEW i \in DOMAIN m.val[f]
        PROVE  inside[f][i] \in Seq(FlatTokens)
    <2>1. Kind(t, f) = "Entry" /\ m.val[f][i] \in Good("Entry", {})
      BY <1>1, InsideIsGood
    <2>2. inside[f][i] = SerializeFlat(Kind(t, f), m.val[f][i])
      BY DEF Inside
    <2> QED
      BY <1>1, <2>1, <2>2, SerializeFlatIsTokens
  <1>4. PICK of, at : Tells(t, m, b, n, of, at, inside)
    <2>1. b = Serialized(t, m, inside)
      BY DEF SerializeHeader
    <2>2. <<>> \in Seq(FlatTokens)
      OBVIOUS
    <2> HIDE DEF b, inside
    <2> QED
      BY <1>1, <1>3, <2>1, <2>2, SerializedTells
  <1>5. PICK a, in :
             /\ Runs(t, AllTokens, u, b, in, a)
             /\ FlatInside(t, b, a, in)
             /\ p = a[n]
    <2>1. p = MergePartialHeader(t, u, b)
      OBVIOUS
    <2> HIDE DEF b, R, inside
    <2> QED
      BY <1>1, <1>2, <2>1, MergePartialHeaderRuns
  <1>6. x = Merged(t, v, m, mi)
    BY DEF MergeFromHeader
  <1>7. MergesInside(t, m, mi, AllTokens) /\ \A f \in Messages(t) :
            mi[f] = [i \in DOMAIN m.val[f] |->
                FlatMerged("Entry")[<<IF Repeated(t, f) THEN New(Kind(t, f))
                                      ELSE mutable_(t, v, f).val[f][1], m.val[f][i]>>]]
    BY HeaderMergesInside
  <1>8. Begins(t, m, b, n, of, at, inside)
    BY <1>4 DEF Tells
  <1>9. x \in Good(t, AllTokens)
    <2>1. m \in Good(t, AllTokens)
      BY <1>1, GoodGrows
    <2> QED
      BY <1>1, <2>1, MergeFromHeaderIsGood
  <1>10. \A j \in 1..n : NextRead(t, AllTokens, u, m, a[j - 1], b, j, of, at, R, in[j])
    <2> HIDE DEF b, n, inside, mi, x
    <2> QED
      BY <1>2, <1>5, <1>8, HeaderInsideRead DEF inside
  <1> HIDE DEF b, n, R, inside, mi, x
  <1>11. Reads(t, u, m, p, b, n, of, at, R)
    BY <1>1, <1>2, <1>5, <1>8, <1>10, LoopReads
  <1>12. p \in Readings(t, AllTokens)
    BY <1>2, <1>5 DEF Runs, n
  <1>13. Added(t, u, m, p.msg, R)
    BY <1>1, <1>4, <1>11, AllRead
  <1>14. p.msg \in Good(t, AllTokens) /\ p.going
    BY <1>11, <1>12 DEF Readings, Reads
  <1>15. SeenHeader(t, p.msg) = SeenHeader(t, x)
    <2> DEFINE sees == FlatSees("Entry")
               merges == FlatMerged("Entry")
               seen(y) == Inside(t, y, SeenFlat)
               G == InnerSet(t, AllTokens)
    <2>1. \A f \in Messages(t) : Kind(t, f) = "Entry" /\ G = Good("Entry", AllTokens)
      BY <1>1, InnerIsGood DEF Messages
    <2>2. G = Good("Entry", AllTokens)
      <3>1. "Entry" # "Header" /\ "Entry" \notin Holders
        BY DEF Holders
      <3> QED
        BY <3>1 DEF InnerSet, Good, Entries
    <2>3. MergesAlike(G, sees, merges, R)
      BY <1>1, <2>2, FlatMergesAlike DEF R
    <2>4. BlanksAlike(t, AllTokens, sees)
      BY <2>1, BlankEntriesReadAlike DEF BlanksAlike
    <2>5. /\ Sees(t, u, sees, seen(u)) /\ Sees(t, v, sees, seen(v))
          /\ Sees(t, p.msg, sees, seen(p.msg)) /\ Sees(t, x, sees, seen(x))
      BY <1>9, <1>14, HeaderSeesInside
    <2>6. \A y : SeenHeader(t, y) = SeenBy(t, y, seen(y))
      BY DEF SeenHeader
    <2>7. SeenBy(t, u, seen(u)) = SeenBy(t, v, seen(v))
      BY <2>6
    <2>8. MergesBy(t, v, m, merges, mi)
      BY <1>7 DEF MergesBy
    <2> DEFINE r == p.msg
               ui == seen(u)
               vi == seen(v)
               ri == seen(r)
               xi == seen(x)
    <2>9. /\ Sees(t, u, sees, ui) /\ Sees(t, v, sees, vi)
          /\ Sees(t, r, sees, ri) /\ Sees(t, x, sees, xi)
          /\ SeenBy(t, u, ui) = SeenBy(t, v, vi)
          /\ r \in Good(t, AllTokens) /\ Added(t, u, m, r, R)
      BY <1>13, <1>14, <2>5, <2>7
    <2> HIDE DEF sees, merges, r, ui, vi, ri, xi
    <2>10. SeenBy(t, r, ri) = SeenBy(t, x, xi)
      BY <1>1, <1>6, <1>7, <1>9, <2>3, <2>4, <2>8, <2>9, AddedIsMerged
    <2> QED
      BY <2>6, <2>10 DEF r, ri, xi
  <1> QED
    BY <1>14, <1>15 DEF x

\* The messages inside the other classes are read as HeaderMerges says.
LEMMA BodyInsideRead ==
    ASSUME NEW t \in Flats \cup Holders, NEW u \in Good(t, AllTokens), NEW m \in Good(t, {}),
           NEW b \in Seq(AllTokens), NEW n, NEW of, NEW at, NEW inside,
           inside = Inside(t, m, SerializeHeader), Begins(t, m, b, n, of, at, inside),
           NEW a, NEW in, HeaderInside(t, b, a, in), NEW j \in 1..n
    PROVE  NextRead(t, AllTokens, u, m, a[j - 1], b, j, of, at, HeaderMerges("Header"), in[j])
  <1> DEFINE f == of[j]
             q == in[j]
             c == m.val[f][at[j]]
             R == HeaderMerges("Header")
             e == Base(t, u, f)
  <1>1. SUFFICES ASSUME f # 0, IsMessage(t, f), FieldAt(a[j - 1].label, b[j]) = f,
                        Current(t, a[j - 1].msg, f) = e
                 PROVE  q.going /\ q.msg \in InnerSet(t, AllTokens) /\ <<e, q.msg, c>> \in R
    BY DEF NextRead
  <1>2. t \in DOMAIN Classes /\ t # "Header"
    BY ClassNames DEF Flats, Holders
  <1>3. f \in Messages(t) /\ at[j] \in DOMAIN m.val[f] /\ b[j].sub = inside[f][at[j]]
    BY <1>1, <1>2, InsideTold
  <1>4. Kind(t, f) = "Header" /\ c \in Good("Header", {})
    BY <1>2, <1>3, InsideIsGood
  <1>5. inside[f][at[j]] = SerializeHeader("Header", c)
    BY <1>3, <1>4 DEF Inside
  <1>6. e \in Good("Header", AllTokens) /\ InnerSet(t, AllTokens) = Good("Header", AllTokens)
    BY <1>2, <1>3, <1>4, BaseIsGood DEF Messages
  <1>7. q = MergePartialHeader("Header", e, SerializeHeader("Header", c))
    <2>1. j \in 1..Len(b)
      BY DEF Begins
    <2> QED
      BY <1>1, <1>3, <1>4, <1>5, <2>1 DEF HeaderInside
  <1> HIDE DEF q, c, e, f
  <1>8. ASSUME NEW w \in Good("Header", AllTokens), SeenHeader("Header", w) = SeenHeader("Header", e)
        PROVE  /\ q.going /\ q.msg \in Good("Header", AllTokens)
               /\ SeenHeader("Header", q.msg) = SeenHeader("Header", MergeFromHeader("Header", w, c))
    BY <1>4, <1>6, <1>7, <1>8, HeaderAdds
  <1>9. q.going /\ q.msg \in Good("Header", AllTokens)
    BY <1>6, <1>8
  <1>10. <<e, q.msg, c>> \in R
    BY <1>4, <1>6, <1>8, <1>9 DEF HeaderMerges
  <1> QED
    BY <1>6, <1>9, <1>10

\* After the tokens that tell of m, the message has become what a merge of m makes of it.
LEMMA BodyAdds ==
    ASSUME NEW t \in Flats \cup Holders, NEW u \in Good(t, AllTokens),
           NEW v \in Good(t, AllTokens), Seen(t, u) = Seen(t, v), NEW m \in Good(t, {}),
           NEW b \in Seq(AllTokens), NEW n, NEW of, NEW at, NEW inside,
           inside = Inside(t, m, SerializeHeader), Tells(t, m, b, n, of, at, inside),
           NEW a, NEW in, Runs(t, AllTokens, u, b, in, a), HeaderInside(t, b, a, in)
    PROVE  /\ a[n].going /\ a[n].msg \in Good(t, AllTokens)
           /\ a[n].label # NoLabel => n < Len(b) /\ b[n + 1].tag = Classes[t].parse[a[n].label].tag
           /\ Seen(t, a[n].msg) = Seen(t, MergeFrom(t, v, m))
  <1> DEFINE R == HeaderMerges("Header")
             mi == MergedInside(t, v, m, MergeFromHeader)
             x == MergeFrom(t, v, m)
             p == a[n]
  <1>1. t \in DOMAIN Classes /\ t # "Header" /\ "Header" \in DOMAIN Classes
    BY ClassNames DEF Flats, Holders
  <1>2. x = Merged(t, v, m, mi)
    BY DEF MergeFrom
  <1>3. MergesInside(t, m, mi, AllTokens) /\ MergesBy(t, v, m, HeaderMerged("Header"), mi)
    BY BodyMergesInside DEF MergesBy
  <1>4. Begins(t, m, b, n, of, at, inside)
    BY DEF Tells
  <1>5. x \in Good(t, AllTokens)
    <2>1. m \in Good(t, AllTokens)
      BY <1>1, GoodGrows
    <2> QED
      BY <1>1, <2>1, MergeFromIsGood
  <1>6. \A j \in 1..n : NextRead(t, AllTokens, u, m, a[j - 1], b, j, of, at, R, in[j])
    BY <1>4, BodyInsideRead
  <1> HIDE DEF R, mi, x
  <1>7. Reads(t, u, m, p, b, n, of, at, R)
    BY <1>1, <1>4, <1>6, LoopReads
  <1>8. p \in Readings(t, AllTokens)
    <2>1. n \in 0..Len(b)
      BY <1>4 DEF Begins
    <2> QED
      BY <2>1 DEF Runs
  <1>9. Added(t, u, m, p.msg, R)
    BY <1>1, <1>7, AllRead
  <1>10. /\ p.msg \in Good(t, AllTokens) /\ p.going
         /\ p.label # NoLabel => n < Len(b) /\ b[n + 1].tag = Classes[t].parse[p.label].tag
    BY <1>7, <1>8 DEF Readings, Reads
  <1>11. Seen(t, p.msg) = Seen(t, x)
    <2> DEFINE sees == HeaderSees("Header")
               merges == HeaderMerged("Header")
               seen(y) == Inside(t, y, SeenHeader)
               r == p.msg
               ui == seen(u)
               vi == seen(v)
               ri == seen(r)
               xi == seen(x)
    <2>1. \A f \in Messages(t) : /\ Kind(t, f) = "Header"
                                 /\ InnerSet(t, AllTokens) = Good("Header", AllTokens)
      BY <1>1, InnerIsGood DEF Messages
    <2>2. MergesAlike(InnerSet(t, AllTokens), sees, merges, R)
      <3>1. MergesAlike(Good("Header", AllTokens), sees, merges, R)
        BY HeaderMergesAlike DEF R
      <3>2. InnerSet(t, AllTokens) \subseteq Good("Header", AllTokens)
        <4>1. HeaderMessages(AllTokens) = Good("Header", AllTokens)
          BY DEF Good, HeaderMessages, InnerSet
        <4> QED
          BY <1>1, <4>1 DEF InnerSet
      <3> QED
        BY <3>1, <3>2 DEF MergesAlike
    <2>3. BlanksAlike(t, AllTokens, sees)
      BY <2>1, BlankHeadersReadAlike DEF BlanksAlike
    <2>4. /\ Sees(t, u, sees, ui) /\ Sees(t, v, sees, vi)
          /\ Sees(t, r, sees, ri) /\ Sees(t, x, sees, xi)
      BY <1>5, <1>10, BodySeesInside
    <2>5. \A y : Seen(t, y) = SeenBy(t, y, seen(y))
      BY DEF Seen
    <2>6. /\ SeenBy(t, u, ui) = SeenBy(t, v, vi)
          /\ r \in Good(t, AllTokens) /\ Added(t, u, m, r, R)
      BY <1>9, <1>10, <2>5
    <2>7. MergesBy(t, v, m, merges, mi)
      BY <1>3
    <2> HIDE DEF sees, merges, r, ui, vi, ri, xi
    <2>8. SeenBy(t, r, ri) = SeenBy(t, x, xi)
      BY <1>1, <1>2, <1>3, <1>5, <2>2, <2>3, <2>4, <2>6, <2>7, AddedIsMerged
    <2> QED
      BY <2>5, <2>8 DEF r, ri, xi
  <1> QED
    BY <1>10, <1>11 DEF x

\* What is written of a message tells of it, in the order of its fields.
LEMMA BodyTells ==
    ASSUME NEW t \in Flats \cup Holders, NEW m \in Good(t, {}), NEW b, b = Serialize(t, m),
           NEW inside, inside = Inside(t, m, SerializeHeader)
    PROVE  \E of, at : /\ Tells(t, m, b, Len(b), of, at, inside)
                       /\ \A j \in 1..Len(b) : of[j] # 0
                       /\ \A j, k \in 1..Len(b) : j < k => of[j] <= of[k]
  <1>1. t \in DOMAIN Classes /\ t # "Header"
    BY ClassNames DEF Flats, Holders
  <1>2. ASSUME NEW f \in Messages(t), NEW i \in DOMAIN m.val[f]
        PROVE  inside[f][i] \in Seq(HeaderTokens)
    <2>1. Kind(t, f) = "Header" /\ m.val[f][i] \in Good("Header", {})
      BY <1>1, InsideIsGood
    <2>2. inside[f][i] = SerializeHeader("Header", m.val[f][i])
      BY <2>1 DEF Inside
    <2> QED
      BY <2>1, <2>2, SerializeHeaderIsTokens
  <1>3. b = Serialized(t, m, inside) /\ <<>> \in Seq(HeaderTokens)
    BY DEF Serialize
  <1> DEFINE c == Serialized(t, m, inside)
  <1>4. \E of, at : /\ Tells(t, m, c, Len(c), of, at, inside)
                    /\ \A j \in 1..Len(c) : of[j] # 0
                    /\ \A j, k \in 1..Len(c) : j < k => of[j] <= of[k]
    BY <1>1, <1>2, <1>3, SerializedTells
  <1> QED
    BY <1>3, <1>4

\* Two places with the same token, and the same token after it; two states before the
\* token x that differ by no more than a label that is its tag.
SamePlace(b, i, c, k) ==
    /\ b[i] = c[k]
    /\ i < Len(b) <=> k < Len(c)
    /\ i < Len(b) => b[i + 1] = c[k + 1]
SameBefore(t, s, r, x) ==
    \/ r = s
    \/ /\ s.going /\ r = Reading(s.msg, NoLabel, TRUE)
       /\ s.label # NoLabel => x.tag = Classes[t].parse[s.label].tag

\* A turn of the loop depends on its token and on the one after it, and not on a label
\* that is the tag of the token.
LEMMA SameTurn ==
    ASSUME NEW t \in DOMAIN Classes, NEW W, NEW s \in Readings(t, W), NEW b, NEW i, NEW c, NEW k,
           SamePlace(b, i, c, k), NEW r, SameBefore(t, s, r, b[i]), NEW inner
    PROVE  /\ ReadToken(t, s, b, i, inner) = ReadToken(t, r, c, k, inner)
           /\ FieldAt(s.label, b[i]) = FieldAt(r.label, c[k])
  <1> DEFINE x == b[i]
             f == FieldAt(s.label, x)
             g == FieldAt(r.label, x)
  <1> USE DEF SamePlace, SameBefore
  <1>1. s.label \in {NoLabel} \cup Fields(t)
    BY DEF Readings
  <1>2. r.msg = s.msg /\ (r.going <=> s.going)
    BY DEF Reading
  <1>3. f = g /\ (Known(t, f, x, s.label) <=> Known(t, g, x, r.label))
    <2>1. CASE r.label = s.label
      BY <2>1
    <2>2. CASE r.label = NoLabel /\ s.label # NoLabel
      <3>1. s.label \in Fields(t) /\ x.tag = Classes[t].parse[s.label].tag
        BY <1>1, <2>2
      <3>2. FieldAt(s.label, x) = s.label /\ Known(t, s.label, x, s.label)
        BY <3>1, TokenIsKnown
      <3>3. FieldAt(NoLabel, x) = s.label /\ Known(t, s.label, x, NoLabel)
        BY <3>1, TokenIsKnown
      <3> QED
        BY <2>2, <3>2, <3>3
    <2>3. r.label = s.label \/ r.label = NoLabel
      BY DEF Reading
    <2> QED
      BY <2>1, <2>2, <2>3
  <1>4. Jump(t, f, b, i) = Jump(t, f, c, k)
    <2>1. {e \in Classes[t].parse[f].expect : i < Len(b) /\ e[1] = b[i + 1].tag} =
          {e \in Classes[t].parse[f].expect : k < Len(c) /\ e[1] = c[k + 1].tag}
      OBVIOUS
    <2> QED
      BY <2>1 DEF Jump
  <1> HIDE DEF f, g
  <1>5. ReadToken(t, s, b, i, inner) =
            IF ~s.going THEN s
            ELSE IF Known(t, f, x, s.label)
            THEN Reading(ReadField(t, s.msg, f, x, inner), Jump(t, f, b, i),
                         ~x.cut /\ (IsMessage(t, f) => inner.going))
            ELSE IF EndsMessage(x) \/ x.cut THEN Reading(s.msg, NoLabel, FALSE)
            ELSE Reading([s.msg EXCEPT !.unknown = Append(@, x)], NoLabel, TRUE)
    BY Zenon DEF ReadToken, f
  <1>6. ReadToken(t, r, c, k, inner) =
            IF ~r.going THEN r
            ELSE IF Known(t, g, c[k], r.label)
            THEN Reading(ReadField(t, r.msg, g, c[k], inner), Jump(t, g, c, k),
                         ~c[k].cut /\ (IsMessage(t, g) => inner.going))
            ELSE IF EndsMessage(c[k]) \/ c[k].cut THEN Reading(r.msg, NoLabel, FALSE)
            ELSE Reading([r.msg EXCEPT !.unknown = Append(@, c[k])], NoLabel, TRUE)
    BY Zenon DEF ReadToken, g
  <1>7. ~s.going => r = s
    OBVIOUS
  <1>8. ReadToken(t, s, b, i, inner) = ReadToken(t, r, c, k, inner)
    <2>1. CASE ~s.going
      BY <1>2, <1>5, <1>6, <1>7, <2>1
    <2>2. CASE s.going /\ Known(t, f, x, s.label)
      <3>1. ReadToken(t, s, b, i, inner) =
                Reading(ReadField(t, s.msg, f, x, inner), Jump(t, f, b, i),
                        ~x.cut /\ (IsMessage(t, f) => inner.going))
        BY <1>5, <2>2
      <3>2. ReadToken(t, r, c, k, inner) =
                Reading(ReadField(t, r.msg, g, c[k], inner), Jump(t, g, c, k),
                        ~c[k].cut /\ (IsMessage(t, g) => inner.going))
        BY <1>2, <1>3, <1>6, <2>2
      <3> QED
        BY <1>2, <1>3, <1>4, <3>1, <3>2
    <2>3. CASE s.going /\ ~Known(t, f, x, s.label)
      <3>1. ReadToken(t, s, b, i, inner) =
                IF EndsMessage(x) \/ x.cut THEN Reading(s.msg, NoLabel, FALSE)
                ELSE Reading([s.msg EXCEPT !.unknown = Append(@, x)], NoLabel, TRUE)
        BY <1>5, <2>3
      <3>2. ReadToken(t, r, c, k, inner) =
                IF EndsMessage(c[k]) \/ c[k].cut THEN Reading(r.msg, NoLabel, FALSE)
                ELSE Reading([r.msg EXCEPT !.unknown = Append(@, c[k])], NoLabel, TRUE)
        BY <1>2, <1>3, <1>6, <2>3
      <3> QED
        BY <1>2, <3>1, <3>2
    <2> QED
      BY <2>1, <2>2, <2>3
  <1> QED
    BY <1>3, <1>8 DEF f, g

\* c is what is left of b after n tokens; the label of s is the tag of the next one.
IsRest(b, n, c) == Len(b) = n + Len(c) /\ \A j \in 1..Len(c) : b[n + j] = c[j]
LabelIsNext(t, s, b, n) ==
    s.label # NoLabel => n < Len(b) /\ b[n + 1].tag = Classes[t].parse[s.label].tag

\* Where a loop has got to, another over the tokens left goes on from there.
LEMMA GoesOn ==
    ASSUME NEW t \in DOMAIN Classes, NEW W, NEW u \in Good(t, W), NEW b \in Seq(W),
           NEW c \in Seq(W), NEW n \in Nat, IsRest(b, n, c), NEW a, NEW in,
           Runs(t, W, u, b, in, a), HeaderInside(t, b, a, in), a[n].going,
           LabelIsNext(t, a[n], b, n)
    PROVE  \E a2, in2 : /\ Runs(t, W, a[n].msg, c, in2, a2)
                        /\ HeaderInside(t, c, a2, in2)
                        /\ a2[Len(c)].msg = a[Len(b)].msg
  <1> DEFINE l == Len(c)
             w == Reading(a[n].msg, NoLabel, TRUE)
             A == [j \in 0..l |-> IF j = 0 THEN w ELSE a[n + j]]
             I == [j \in 1..l |-> in[n + j]]
  <1> USE DEF IsRest, LabelIsNext
  <1>1. l \in Nat /\ Len(b) = n + l
    OBVIOUS
  <1>2. \A j \in 0..l : n + j \in 0..Len(b) /\ a[n + j] \in Readings(t, W)
    BY <1>1 DEF Runs
  <1>3. a[n] \in Readings(t, W) /\ w \in Readings(t, W) /\ w.msg = a[n].msg
    <2>1. n + 0 = n
      OBVIOUS
    <2>2. a[n] \in Readings(t, W)
      BY <1>1, <1>2, <2>1
    <2> QED
      BY <2>2 DEF Readings, Reading
  <1> HIDE DEF l, w
  <1>4. A[0] = w /\ \A j \in 1..l : A[j] = a[n + j] /\ I[j] = in[n + j]
    BY <1>1
  <1> HIDE DEF A, I
  <1>5. ASSUME NEW j \in 1..l
        PROVE  /\ A[j] = ReadToken(t, A[j - 1], c, j, I[j])
               /\ FieldAt(A[j - 1].label, c[j]) = FieldAt(a[n + j - 1].label, b[n + j])
    <2> DEFINE s == a[n + j - 1]
               i == n + j
    <2>1. s \in Readings(t, W)
      <3>1. j - 1 \in 0..l /\ n + j - 1 = n + (j - 1)
        BY <1>1
      <3> QED
        BY <1>2, <3>1
    <2>2. b[i] = c[j] /\ (i < Len(b) <=> j < Len(c)) /\ (i < Len(b) => b[i + 1] = c[j + 1])
      <3>1. b[i] = c[j] /\ (i < Len(b) <=> j < Len(c))
        BY <1>1 DEF l
      <3>2. ASSUME i < Len(b) PROVE b[i + 1] = c[j + 1]
        <4>1. j + 1 \in 1..Len(c) /\ i + 1 = n + (j + 1)
          BY <1>1, <3>2 DEF l
        <4> QED
          BY <4>1
      <3> QED
        BY <3>1, <3>2
    <2>3. \/ A[j - 1] = s
          \/ /\ s.going /\ A[j - 1] = Reading(s.msg, NoLabel, TRUE)
             /\ s.label # NoLabel => b[i].tag = Classes[t].parse[s.label].tag
      <3>1. CASE j = 1
        <4>1. s = a[n] /\ i = n + 1 /\ A[j - 1] = w
          BY <1>4, <3>1
        <4> QED
          BY <4>1 DEF w
      <3>2. CASE j # 1
        <4>1. j - 1 \in 1..l /\ n + (j - 1) = n + j - 1
          BY <1>1, <3>2
        <4> QED
          BY <1>4, <4>1
      <3> QED
        BY <3>1, <3>2
    <2>4. a[i] = ReadToken(t, s, b, i, in[i])
      <3>1. i \in 1..Len(b) /\ i - 1 = n + j - 1
        BY <1>1
      <3> QED
        BY <3>1 DEF Runs
    <2>5. A[j] = a[i] /\ I[j] = in[i]
      BY <1>4
    <2> DEFINE r == A[j - 1]
    <2> HIDE DEF s, i, r
    <2>6. /\ ReadToken(t, s, b, i, in[i]) = ReadToken(t, r, c, j, in[i])
          /\ FieldAt(s.label, b[i]) = FieldAt(r.label, c[j])
      <3>1. SamePlace(b, i, c, j)
        BY <2>2 DEF SamePlace
      <3>2. SameBefore(t, s, r, b[i])
        BY <2>3 DEF SameBefore, r
      <3> QED
        BY <2>1, <3>1, <3>2, SameTurn
    <2> QED
      BY <2>4, <2>5, <2>6 DEF s, i, r
  <1>6. \A j \in 0..l : A[j] \in Readings(t, W)
    <2>1. \A j \in 0..l : j = 0 \/ j \in 1..l
      BY <1>1
    <2> QED
      BY <1>2, <1>3, <1>4, <2>1
  <1>7. Runs(t, W, a[n].msg, c, I, A)
    <2>1. A[0] = Reading(a[n].msg, NoLabel, TRUE)
      BY <1>4 DEF w
    <2> QED
      BY <1>5, <1>6, <2>1 DEF Runs, l
  <1>8. HeaderInside(t, c, A, I)
    <2>1. ASSUME NEW j \in 1..l, NEW f, f = FieldAt(A[j - 1].label, c[j])
          PROVE  I[j] = MergePartialHeader(Kind(t, f), Current(t, A[j - 1].msg, f), c[j].sub)
      <3> DEFINE i == n + j
      <3>1. i \in 1..Len(b) /\ i - 1 = n + j - 1
        BY <1>1
      <3>2. f = FieldAt(a[i - 1].label, b[i])
        BY <1>5, <2>1, <3>1
      <3>3. in[i] = MergePartialHeader(Kind(t, f), Current(t, a[i - 1].msg, f), b[i].sub)
        BY <3>1, <3>2 DEF HeaderInside
      <3>4. A[j - 1].msg = a[i - 1].msg
        <4>1. CASE j = 1
          BY <1>3, <1>4, <4>1
        <4>2. CASE j # 1
          <5>1. j - 1 \in 1..l /\ n + (j - 1) = i - 1
            BY <1>1, <4>2
          <5> QED
            BY <1>4, <5>1
        <4> QED
          BY <4>1, <4>2
      <3>5. b[i] = c[j] /\ I[j] = in[i]
        BY <1>4 DEF l
      <3> QED
        BY <3>3, <3>4, <3>5
    <2> QED
      BY <2>1 DEF HeaderInside, l
  <1>9. A[l].msg = a[Len(b)].msg
    <2>1. CASE l = 0
      <3>1. Len(b) = n
        BY <1>1, <2>1
      <3> QED
        BY <1>3, <1>4, <2>1, <3>1
    <2>2. CASE l # 0
      <3>1. l \in 1..l
        BY <1>1, <2>2
      <3> QED
        BY <1>1, <1>4, <3>1
    <2> QED
      BY <2>1, <2>2
  <1> QED
    BY <1>7, <1>8, <1>9 DEF l

\* Bytes that begin alike tell the same.
LEMMA TellsToo ==
    ASSUME NEW t, NEW m, NEW b, NEW n, NEW of, NEW at, NEW inside, NEW c, n <= Len(c),
           \A j \in 1..n : c[j] = b[j]
    PROVE  /\ Begins(t, m, b, n, of, at, inside) => Begins(t, m, c, n, of, at, inside)
           /\ Tells(t, m, b, n, of, at, inside) => Tells(t, m, c, n, of, at, inside)
  <1>1. Begins(t, m, b, n, of, at, inside) => Begins(t, m, c, n, of, at, inside)
    BY DEF Begins
  <1> QED
    BY <1>1 DEF Tells

\* The bytes of one message after those of another are read as the two merged.
LEMMA ConcatenatedIsMerged ==
    ASSUME NEW t \in Flats \cup Holders, NEW m \in Good(t, {}), NEW o \in Good(t, {})
    PROVE  Seen(t, ParseFromArray(t, Serialize(t, m) \o Serialize(t, o)).msg)
                = Seen(t, MergeFrom(t, m, o))
  <1> DEFINE x == Serialize(t, m)
             y == Serialize(t, o)
             b == x \o y
             n == Len(x)
             e == New(t)
             mi == Inside(t, m, SerializeHeader)
             oi == Inside(t, o, SerializeHeader)
             p == MergePartialFromCodedStream(t, e, b)
  <1>1. t \in DOMAIN Classes /\ t # "Header" /\ Tokens(AllTokens)
    BY ClassNames, TokensInside DEF Flats, Holders
  <1>2. x \in Seq(AllTokens) /\ y \in Seq(AllTokens)
    BY <1>1, SerializeIsTokens
  <1>3. m \in Good(t, AllTokens) /\ e \in Good(t, AllTokens) /\ Blank(t, e)
    BY <1>1, GoodGrows, NewIsGood
  <1>4. ParseFromArray(t, b).msg = p.msg
    BY DEF ParseFromArray
  <1>5. PICK of, at : Tells(t, m, x, n, of, at, mi)
    BY BodyTells
  <1>6. PICK g, h : Tells(t, o, y, Len(y), g, h, oi)
    BY BodyTells
  <1> HIDE DEF x, y, p, e
  <1>7. b \in Seq(AllTokens) /\ n \in Nat /\ Len(b) = n + Len(y)
        /\ (\A j \in 1..n : b[j] = x[j]) /\ (\A j \in 1..Len(y) : b[n + j] = y[j])
    <2>1. /\ x \o y \in Seq(AllTokens) /\ Len(x \o y) = Len(x) + Len(y)
          /\ \A i \in 1..(Len(x) + Len(y)) :
                (x \o y)[i] = IF i <= Len(x) THEN x[i] ELSE y[i - Len(x)]
      BY <1>2, Joined
    <2>2. Len(x) \in Nat /\ Len(y) \in Nat
      BY <1>2
    <2>3. \A j \in 1..n : b[j] = x[j]
      BY <2>1, <2>2
    <2>4. ASSUME NEW j \in 1..Len(y)
          PROVE  b[n + j] = y[j]
      <3>1. n + j \in 1..(Len(x) + Len(y)) /\ ~(n + j <= Len(x)) /\ n + j - Len(x) = j
        BY <2>2
      <3> QED
        BY <2>1, <3>1
    <2> QED
      BY <2>1, <2>2, <2>3, <2>4
  <1> HIDE DEF b, n, mi, oi
  <1>8. PICK a, in : /\ Runs(t, AllTokens, e, b, in, a)
                     /\ HeaderInside(t, b, a, in)
                     /\ p = a[Len(b)]
    BY <1>1, <1>3, <1>7, MergePartialFromCodedStreamRuns DEF p
  <1>9. Tells(t, m, b, n, of, at, mi)
    <2>1. Len(y) \in Nat
      BY <1>2
    <2>2. n <= Len(b)
      BY <1>7, <2>1
    <2> QED
      BY <1>5, <1>7, <2>2, TellsToo
  <1>10. /\ a[n].going /\ a[n].msg \in Good(t, AllTokens)
         /\ a[n].label # NoLabel => n < Len(b) /\ b[n + 1].tag = Classes[t].parse[a[n].label].tag
         /\ Seen(t, a[n].msg) = Seen(t, MergeFrom(t, e, m))
    BY <1>3, <1>7, <1>8, <1>9, BodyAdds DEF mi
  <1>11. Seen(t, a[n].msg) = Seen(t, m)
    BY <1>1, <1>3, <1>10, CopyReadsAlike
  <1>12. PICK a2, in2 : /\ Runs(t, AllTokens, a[n].msg, y, in2, a2)
                        /\ HeaderInside(t, y, a2, in2)
                        /\ a2[Len(y)].msg = a[Len(b)].msg
    <2>1. /\ Runs(t, AllTokens, e, b, in, a) /\ HeaderInside(t, b, a, in) /\ a[n].going
          /\ LabelIsNext(t, a[n], b, n)
      BY <1>8, <1>10 DEF LabelIsNext
    <2>2. /\ t \in DOMAIN Classes /\ e \in Good(t, AllTokens)
          /\ b \in Seq(AllTokens) /\ y \in Seq(AllTokens)
      BY <1>1, <1>2, <1>3, <1>7
    <2>3. n \in Nat /\ IsRest(b, n, y)
      BY <1>7 DEF IsRest
    <2> QED
      BY <2>1, <2>2, <2>3, GoesOn
  <1>13. Seen(t, a2[Len(y)].msg) = Seen(t, MergeFrom(t, m, o))
    BY <1>2, <1>3, <1>6, <1>10, <1>11, <1>12, BodyAdds DEF oi
  <1> QED
    BY <1>4, <1>8, <1>12, <1>13 DEF b, x, y

\* kite_remoting.pb.cc, MergeFrom and MergePartialFromCodedStream of every class: to merge
\* two messages is to read the bytes of one after those of the other, whatever calls made
\* them.
THEOREM MergesConcatenate == Spec => MergeIsConcatenation
  <1> DEFINE Kept ==
        LET bytes == Serialize(type, msg) \o Serialize(type, other)
        IN  Seen(type, msg') = Seen(type, ParseFromArray(type, bytes).msg)
  <1>1. CodecInv /\ [Next]_vars => [CallMergeFrom => Kept]_vars
    <2> SUFFICES ASSUME CodecInv, CallMergeFrom
                 PROVE  Kept
      OBVIOUS
    <2>1. type \in Flats \cup Holders
      BY DEF CodecInv, type, ClassOf, Cmds, Flats, Holders
    <2>2. msg \in Good(type, {}) /\ other \in Good(type, {})
      BY DEF CodecInv
    <2>3. msg' = MergeFrom(type, msg, other)
      BY DEF CallMergeFrom
    <2> QED
      BY <2>1, <2>2, <2>3, ConcatenatedIsMerged
  <1> QED
    BY <1>1, MessagesStayGood, PTL DEF Spec, MergeIsConcatenation

-----------------------------------------------------------------------------
(* Bodies from which a message is read whole.                              *)

Ended == Token(124, 0, <<>>)

\* What tells of a message is read as that message, to the end of the bytes or of a group;
\* the loop fails at the end of a group only.
LEMMA BodyIsReadBack ==
    ASSUME NEW t \in Flats \cup Holders, NEW m \in Good(t, {}), NEW b \in Seq(AllTokens),
           NEW n, NEW of, NEW at,
           Tells(t, m, b, n, of, at, Inside(t, m, SerializeHeader)),
           Len(b) = n \/ (Len(b) = n + 1 /\ b[n + 1] = Ended)
    PROVE  /\ Seen(t, ParseFromArray(t, b).msg) = Seen(t, m)
           /\ MergePartialFromCodedStream(t, New(t), b).going <=> Len(b) = n
  <1> DEFINE p == MergePartialFromCodedStream(t, New(t), b)
             inside == Inside(t, m, SerializeHeader)
             e == New(t)
  <1>1. t \in DOMAIN Classes /\ t # "Header" /\ Tokens(AllTokens)
    BY ClassNames, TokensInside DEF Flats, Holders
  <1>2. n \in Nat /\ Len(b) \in Nat /\ n <= Len(b)
    BY DEF Tells, Begins
  <1>3. m \in Good(t, AllTokens) /\ e \in Good(t, AllTokens) /\ Blank(t, e)
    BY <1>1, GoodGrows, NewIsGood
  <1>4. Tells(t, m, b, n, of, at, inside)
    OBVIOUS
  <1>5. ParseFromArray(t, b).msg = p.msg
    BY DEF ParseFromArray
  <1> HIDE DEF e, inside
  <1>6. PICK a, in : /\ Runs(t, AllTokens, e, b, in, a)
                     /\ HeaderInside(t, b, a, in)
                     /\ p = a[Len(b)]
    BY <1>1, <1>3, MergePartialFromCodedStreamRuns DEF e
  <1> HIDE DEF p
  <1>7. /\ a[n].going /\ a[n].msg \in Good(t, AllTokens)
        /\ a[n].label # NoLabel => n < Len(b) /\ b[n + 1].tag = Classes[t].parse[a[n].label].tag
        /\ Seen(t, a[n].msg) = Seen(t, MergeFrom(t, e, m))
    BY <1>3, <1>4, <1>6, BodyAdds DEF inside
  <1>8. Seen(t, a[n].msg) = Seen(t, m)
    BY <1>1, <1>3, <1>7, CopyReadsAlike
  <1>9. p.msg = a[n].msg /\ (p.going <=> Len(b) = n)
    <2>1. CASE Len(b) = n
      BY <1>6, <1>7, <2>1
    <2>2. CASE Len(b) = n + 1 /\ b[n + 1] = Ended
      <3> DEFINE s == a[n]
                 k == b[n + 1]
      <3>1. p = ReadToken(t, s, b, n + 1, in[n + 1])
        <4>1. n + 1 \in 1..Len(b) /\ (n + 1) - 1 = n
          BY <1>2, <2>2
        <4> QED
          BY <1>6, <2>2, <4>1 DEF Runs
      <3>2. k.tag = 124 /\ k.cut = FALSE
        BY <2>2 DEF Ended, Token
      <3>3. s.label = NoLabel
        <4>1. s.label # NoLabel => k.tag = Classes[t].parse[s.label].tag
          BY <1>7
        <4>2. s.label \in {NoLabel} \cup Fields(t)
          BY <1>2, <1>6 DEF Runs, Readings
        <4> QED
          BY <1>1, <3>2, <4>1, <4>2, TagsDiffer
      <3>4. FieldAt(s.label, k) = 15
        BY <3>2, <3>3 DEF FieldAt
      <3>5. ~Known(t, 15, k, s.label)
        BY <1>1, <3>2, <3>3, TagsDiffer DEF Known
      <3>6. EndsMessage(k)
        BY <3>2 DEF EndsMessage
      <3>7. s.going
        BY <1>7
      <3>8. p = Reading(s.msg, NoLabel, FALSE)
        BY <3>1, <3>4, <3>5, <3>6, <3>7 DEF ReadToken
      <3>9. Len(b) # n
        BY <1>2, <2>2
      <3> QED
        BY <3>8, <3>9 DEF Reading
    <2> QED
      BY <2>1, <2>2
  <1> QED
    BY <1>5, <1>8, <1>9 DEF p, e

\* The fields in the reverse order tell of the same message, if none is repeated.
LEMMA ReversedTells ==
    ASSUME NEW t \in DOMAIN Classes, t # "Header", NEW m \in Good(t, {}), NEW W,
           NEW b \in Seq(W), NEW of, NEW at, NEW inside, Tells(t, m, b, Len(b), of, at, inside)
    PROVE  \E g, h : Tells(t, m, Reverse(b), Len(b), g, h, inside)
  <1> DEFINE L == Len(b)
             r == Reverse(b)
             g == [j \in 1..L |-> of[L - j + 1]]
             h == [j \in 1..L |-> at[L - j + 1]]
  <1>1. L \in Nat
    OBVIOUS
  <1>2. /\ Len(r) = L
        /\ \A j \in 1..L : r[j] = b[L - j + 1]
    BY DEF Reverse
  <1>3. /\ of \in [1..L -> Nat] /\ at \in [1..L -> Nat]
        /\ \A j \in 1..L :
             IF of[j] = 0 THEN b[j] = Unknown
             ELSE /\ of[j] \in Fields(t) /\ at[j] \in 1..Count(t, m, of[j])
                  /\ Says(t, m, b[j], of[j], at[j], inside)
        /\ \A j, k \in 1..L : j < k /\ of[j] = of[k] /\ of[j] # 0 => at[j] < at[k]
        /\ \A f \in Fields(t) : \A i \in 1..Count(t, m, f) : \E j \in 1..L : of[j] = f /\ at[j] = i
    BY DEF Tells, Begins
  <1>4. \A f \in Fields(t) : Count(t, m, f) \in {0, 1}
    <2>1. \A f \in Fields(t) : ~Repeated(t, f)
      BY ClassesAgree DEF TablesAgree, FieldsAgree
    <2> QED
      BY <2>1, CountType
  <1> HIDE DEF L, r
  <1>5. \A j \in 1..L : L - j + 1 \in 1..L /\ L - (L - j + 1) + 1 = j
    BY <1>1
  <1>6. \A j \in 1..L : g[j] = of[L - j + 1] /\ h[j] = at[L - j + 1]
    OBVIOUS
  <1>7. g \in [1..L -> Nat] /\ h \in [1..L -> Nat]
    BY <1>3, <1>5
  <1> HIDE DEF g, h
  <1>8. \A j \in 1..L :
             IF g[j] = 0 THEN r[j] = Unknown
             ELSE /\ g[j] \in Fields(t) /\ h[j] \in 1..Count(t, m, g[j])
                  /\ Says(t, m, r[j], g[j], h[j], inside)
    <2>1. TAKE j \in 1..L
    <2>2. PICK i \in 1..L : r[j] = b[i] /\ g[j] = of[i] /\ h[j] = at[i]
      BY <1>2, <1>5, <1>6
    <2> QED
      BY <1>3, <2>2
  <1>9. \A j, k \in 1..L : ~(j < k /\ g[j] = g[k] /\ g[j] # 0)
    <2>1. SUFFICES ASSUME NEW j \in 1..L, NEW k \in 1..L, j < k, g[j] = g[k], g[j] # 0
                   PROVE  FALSE
      OBVIOUS
    <2>2. L - k + 1 < L - j + 1 /\ L - k + 1 \in 1..L /\ L - j + 1 \in 1..L
      BY <1>1, <1>5, <2>1
    <2>3. at[L - k + 1] < at[L - j + 1]
      BY <1>3, <1>6, <2>1, <2>2
    <2>4. h[k] < h[j]
      BY <1>6, <2>3
    <2>5. h[j] \in 1..Count(t, m, g[j]) /\ h[k] \in 1..Count(t, m, g[j]) /\ g[j] \in Fields(t)
      BY <1>8, <2>1
    <2>6. Count(t, m, g[j]) \in {0, 1}
      BY <1>4, <2>5
    <2>7. h[j] = 1 /\ h[k] = 1
      BY <2>5, <2>6
    <2> QED
      BY <2>4, <2>7
  <1>10. \A f \in Fields(t) : \A i \in 1..Count(t, m, f) : \E j \in 1..L : g[j] = f /\ h[j] = i
    <2>1. TAKE f \in Fields(t)
    <2>2. TAKE i \in 1..Count(t, m, f)
    <2>3. PICK j \in 1..L : of[j] = f /\ at[j] = i
      BY <1>3
    <2>4. L - j + 1 \in 1..L /\ g[L - j + 1] = f /\ h[L - j + 1] = i
      BY <1>5, <1>6, <2>3
    <2> QED
      BY <2>4
  <1>11. Tells(t, m, r, L, g, h, inside)
    <2>1. L <= Len(r)
      BY <1>1, <1>2
    <2> QED
      BY <1>1, <1>7, <1>8, <1>9, <1>10, <2>1, AllIsBegun
  <1> QED
    BY <1>11 DEF L, r

\* So do the fields among others that the class does not have.
LEMMA NewerTells ==
    ASSUME NEW t \in DOMAIN Classes, NEW m \in Good(t, {}), NEW W, Unknown \in W,
           NEW b \in Seq(W), NEW of, NEW at, NEW inside, Tells(t, m, b, Len(b), of, at, inside),
           NEW c, c = <<Unknown>> \o b \o <<Unknown>>
    PROVE  \E g, h : Tells(t, m, c, Len(c), g, h, inside)
  <1> DEFINE L == Len(b)
             g == [j \in 1..(L + 2) |-> IF j \in 2..(L + 1) THEN of[j - 1] ELSE 0]
             h == [j \in 1..(L + 2) |-> IF j \in 2..(L + 1) THEN at[j - 1] ELSE 0]
  <1>1. L \in Nat
    OBVIOUS
  <1>2. /\ Len(c) = L + 2 /\ c[1] = Unknown /\ c[L + 2] = Unknown
        /\ \A j \in 1..L : c[j + 1] = b[j]
    <2>1. <<Unknown>> \in Seq(W) /\ Len(<<Unknown>>) = 1 /\ <<Unknown>>[1] = Unknown
      OBVIOUS
    <2> DEFINE u == <<Unknown>>
               d == u \o b
    <2> HIDE DEF u
    <2>2. u \in Seq(W) /\ Len(u) = 1 /\ u[1] = Unknown /\ c = d \o u
      BY <2>1 DEF u
    <2>3. /\ d \in Seq(W) /\ Len(d) = L + 1
          /\ \A i \in 1..(L + 1) : d[i] = IF i <= 1 THEN u[i] ELSE b[i - 1]
      BY <2>2, Joined
    <2> HIDE DEF d
    <2>4. /\ Len(c) = L + 2
          /\ \A i \in 1..(L + 2) : c[i] = IF i <= L + 1 THEN d[i] ELSE u[i - (L + 1)]
      <3>1. /\ Len(d \o u) = Len(d) + Len(u)
            /\ \A i \in 1..(Len(d) + Len(u)) :
                  (d \o u)[i] = IF i <= Len(d) THEN d[i] ELSE u[i - Len(d)]
        BY <2>2, <2>3, Joined
      <3>2. Len(d) + Len(u) = L + 2
        BY <1>1, <2>2, <2>3
      <3> QED
        BY <2>2, <2>3, <3>1, <3>2
    <2> HIDE DEF L
    <2>5. c[1] = Unknown /\ c[L + 2] = Unknown
      <3>1. 1 \in 1..(L + 2) /\ 1 <= L + 1 /\ 1 \in 1..(L + 1) /\ L + 2 \in 1..(L + 2)
            /\ ~(L + 2 <= L + 1) /\ (L + 2) - (L + 1) = 1
        BY <1>1
      <3> QED
        BY <2>2, <2>3, <2>4, <3>1
    <2>6. \A j \in 1..L : c[j + 1] = b[j]
      <3>1. TAKE j \in 1..L
      <3>2. j + 1 \in 1..(L + 2) /\ j + 1 <= L + 1 /\ j + 1 \in 1..(L + 1) /\ ~(j + 1 <= 1)
            /\ (j + 1) - 1 = j
        BY <1>1
      <3> QED
        BY <2>3, <2>4, <3>2
    <2> QED
      BY <2>4, <2>5, <2>6
  <1>3. /\ of \in [1..L -> Nat] /\ at \in [1..L -> Nat]
        /\ \A j \in 1..L :
             IF of[j] = 0 THEN b[j] = Unknown
             ELSE /\ of[j] \in Fields(t) /\ at[j] \in 1..Count(t, m, of[j])
                  /\ Says(t, m, b[j], of[j], at[j], inside)
        /\ \A j, k \in 1..L : j < k /\ of[j] = of[k] /\ of[j] # 0 => at[j] < at[k]
        /\ \A f \in Fields(t) : \A i \in 1..Count(t, m, f) : \E j \in 1..L : of[j] = f /\ at[j] = i
    BY DEF Tells, Begins
  <1> HIDE DEF L
  <1>4. \A j \in 1..(L + 2) :
            \/ \E i \in 1..L : i = j - 1 /\ g[j] = of[i] /\ h[j] = at[i] /\ c[j] = b[i]
            \/ g[j] = 0 /\ h[j] = 0 /\ c[j] = Unknown
    <2>1. TAKE j \in 1..(L + 2)
    <2>2. CASE j \in 2..(L + 1)
      <3>1. j - 1 \in 1..L /\ (j - 1) + 1 = j
        BY <1>1, <2>2
      <3> QED
        BY <1>2, <2>2, <3>1
    <2>3. CASE j \notin 2..(L + 1)
      <3>1. j = 1 \/ j = L + 2
        BY <1>1, <2>3
      <3> QED
        BY <1>2, <2>3, <3>1
    <2> QED
      BY <2>2, <2>3
  <1>5. \A j \in 1..L : j + 1 \in 1..(L + 2) /\ g[j + 1] = of[j] /\ h[j + 1] = at[j]
    BY <1>1
  <1>6. DOMAIN g = 1..(L + 2) /\ DOMAIN h = 1..(L + 2)
        /\ g = [j \in 1..(L + 2) |-> g[j]] /\ h = [j \in 1..(L + 2) |-> h[j]]
    OBVIOUS
  <1> HIDE DEF g, h
  <1>7. g \in [1..(L + 2) -> Nat] /\ h \in [1..(L + 2) -> Nat]
    <2>1. \A j \in 1..(L + 2) : g[j] \in Nat /\ h[j] \in Nat
      <3>1. TAKE j \in 1..(L + 2)
      <3>2. CASE g[j] = 0 /\ h[j] = 0
        BY <3>2
      <3>3. CASE \E i \in 1..L : g[j] = of[i] /\ h[j] = at[i]
        BY <1>3, <3>3
      <3> QED
        BY <1>4, <3>2, <3>3
    <2> QED
      BY <1>6, <2>1
  <1>8. \A j \in 1..(L + 2) :
             IF g[j] = 0 THEN c[j] = Unknown
             ELSE /\ g[j] \in Fields(t) /\ h[j] \in 1..Count(t, m, g[j])
                  /\ Says(t, m, c[j], g[j], h[j], inside)
    <2>1. TAKE j \in 1..(L + 2)
    <2>2. CASE g[j] = 0 /\ c[j] = Unknown
      BY <2>2
    <2>3. CASE \E i \in 1..L : g[j] = of[i] /\ h[j] = at[i] /\ c[j] = b[i]
      BY <1>3, <2>3
    <2> QED
      BY <1>4, <2>2, <2>3
  <1>9. \A j, k \in 1..(L + 2) : j < k /\ g[j] = g[k] /\ g[j] # 0 => h[j] < h[k]
    <2>1. SUFFICES ASSUME NEW j \in 1..(L + 2), NEW k \in 1..(L + 2), j < k, g[j] = g[k], g[j] # 0
                   PROVE  h[j] < h[k]
      OBVIOUS
    <2>2. PICK x \in 1..L : x = j - 1 /\ g[j] = of[x] /\ h[j] = at[x]
      BY <1>4, <2>1
    <2>3. PICK y \in 1..L : y = k - 1 /\ g[k] = of[y] /\ h[k] = at[y]
      BY <1>4, <2>1
    <2>4. x < y
      BY <1>1, <2>1, <2>2, <2>3
    <2>5. of[x] = of[y] /\ of[x] # 0
      BY <2>1, <2>2, <2>3
    <2>6. at[x] < at[y]
      <3>1. \A i, l \in 1..L : i < l /\ of[i] = of[l] /\ of[i] # 0 => at[i] < at[l]
        BY <1>3
      <3> QED
        BY <2>4, <2>5, <3>1
    <2> QED
      BY <2>2, <2>3, <2>6
  <1>10. \A f \in Fields(t) : \A i \in 1..Count(t, m, f) :
            \E j \in 1..(L + 2) : g[j] = f /\ h[j] = i
    <2>1. TAKE f \in Fields(t)
    <2>2. TAKE i \in 1..Count(t, m, f)
    <2>3. PICK j \in 1..L : of[j] = f /\ at[j] = i
      BY <1>3
    <2> QED
      BY <1>5, <2>3
  <1>11. Tells(t, m, c, L + 2, g, h, inside)
    <2>1. L + 2 \in Nat /\ L + 2 <= Len(c)
      BY <1>1, <1>2
    <2> QED
      BY <1>7, <1>8, <1>9, <1>10, <2>1, AllIsBegun
  <1> QED
    BY <1>2, <1>11

\* So do the fields before the end of a group.
LEMMA EndedTells ==
    ASSUME NEW t \in DOMAIN Classes, NEW m, NEW W, Ended \in W, NEW b \in Seq(W), NEW of,
           NEW at, NEW inside, Tells(t, m, b, Len(b), of, at, inside), NEW c, c = b \o <<Ended>>
    PROVE  /\ Tells(t, m, c, Len(b), of, at, inside)
           /\ Len(c) = Len(b) + 1 /\ c[Len(b) + 1] = Ended
  <1> DEFINE L == Len(b)
  <1>1. L \in Nat
    OBVIOUS
  <1>2. Len(c) = L + 1 /\ c[L + 1] = Ended /\ \A j \in 1..L : c[j] = b[j]
    OBVIOUS
  <1>3. L <= Len(c)
    BY <1>1, <1>2
  <1> HIDE DEF L
  <1>4. Tells(t, m, c, L, of, at, inside)
    <2>1. Tells(t, m, b, L, of, at, inside)
      BY DEF L
    <2> QED
      BY <1>2, <1>3, <2>1, TellsToo
  <1> QED
    BY <1>2, <1>4 DEF L

-----------------------------------------------------------------------------
(* RoundTrip.                                                              *)

\* The bodies from which a message is to be read whole.
WholeBodies(bytes) ==
    {bytes, Reverse(bytes), <<Unknown>> \o bytes \o <<Unknown>>, bytes \o <<Ended>>}

\* Each of them is read as the message.
LEMMA WholeIsReadBack ==
    ASSUME NEW t \in Flats \cup Holders, NEW m \in Good(t, {}),
           NEW c \in WholeBodies(Serialize(t, m))
    PROVE  Seen(t, ParseFromArray(t, c).msg) = Seen(t, m)
  <1> DEFINE b == Serialize(t, m)
             inside == Inside(t, m, SerializeHeader)
             L == Len(b)
  <1>1. t \in DOMAIN Classes /\ t # "Header"
    BY ClassNames DEF Flats, Holders
  <1>2. b \in Seq(AllTokens) /\ Unknown \in AllTokens /\ Ended \in AllTokens
    <2>1. ASSUME NEW tag \in Int, NEW val \in Int
          PROVE  Token(tag, val, <<>>) \in AllTokens
      BY DEF Token, AllTokens, TokenSet
    <2>2. Unknown \in AllTokens /\ Ended \in AllTokens
      BY <2>1 DEF Unknown, Ended
    <2>3. b \in Seq(AllTokens)
      BY <1>1, SerializeIsTokens
    <2> QED
      BY <2>2, <2>3
  <1>3. c \in Seq(AllTokens)
    BY <1>2, BodiesAreTokens DEF WholeBodies, Ended
  <1>4. PICK of, at : Tells(t, m, b, L, of, at, inside)
    <2>1. ASSUME NEW f \in Messages(t), NEW i \in DOMAIN m.val[f]
          PROVE  inside[f][i] \in Seq(HeaderTokens)
      <3>1. Kind(t, f) = "Header" /\ m.val[f][i] \in Good("Header", {})
        BY <1>1, InsideIsGood
      <3>2. inside[f][i] = SerializeHeader("Header", m.val[f][i])
        BY <3>1 DEF Inside
      <3> QED
        BY <3>1, <3>2, SerializeHeaderIsTokens
    <2>2. b = Serialized(t, m, inside) /\ <<>> \in Seq(HeaderTokens)
      BY DEF Serialize
    <2> HIDE DEF b, inside
    <2> QED
      BY <1>1, <2>1, <2>2, SerializedTells
  <1> HIDE DEF inside, b
  <1>5. CASE c = b
    BY <1>2, <1>4, <1>5, BodyIsReadBack DEF inside
  <1>6. CASE c = Reverse(b)
    <2>1. PICK g, h : Tells(t, m, c, L, g, h, inside)
      BY <1>1, <1>2, <1>4, <1>6, ReversedTells
    <2>2. Len(c) = L
      BY <1>2, <1>6 DEF Reverse
    <2> QED
      BY <1>3, <2>1, <2>2, BodyIsReadBack DEF inside
  <1>7. CASE c = <<Unknown>> \o b \o <<Unknown>>
    <2>1. PICK g, h : Tells(t, m, c, Len(c), g, h, inside)
      BY <1>1, <1>2, <1>4, <1>7, NewerTells
    <2> HIDE DEF L
    <2> QED
      BY <1>3, <2>1, BodyIsReadBack DEF inside
  <1>8. CASE c = b \o <<Ended>>
    <2>1. Tells(t, m, c, L, of, at, inside) /\ Len(c) = L + 1 /\ c[L + 1] = Ended
      BY <1>1, <1>2, <1>4, <1>8, EndedTells
    <2> HIDE DEF L
    <2> QED
      BY <1>3, <2>1, BodyIsReadBack DEF inside
  <1> QED
    BY <1>5, <1>6, <1>7, <1>8 DEF WholeBodies, b

\* The packet of a message.
Packed(h, c, m) ==
    [opaque |-> h.opaque, cmdType |-> c, version |-> h.version, extension |-> h.extension,
     message |-> <<m>>]

\* The bytes under way are the frame of the packet that was written.
WireInv ==
    /\ how = "none" => out = NoBytes
    /\ out # NoBytes =>
         /\ \E h \in Headers : pkg = Packed(h, cmd, msg)
         /\ out = Frame(pkg, WireSize(out.body), out.body)
         /\ pkglen \in {readInt(out.head), readInt(out.head) - 1}
         /\ how \notin {"cut", "retyped"} => out.body \in WholeBodies(Serialize(type, msg))

\* A frame is no longer than the lengths in it can say.
FrameFits == out # NoBytes => WireSize(out.body) \in Size

\* The frame that is written.
LEMMA WriteFrames ==
    ASSUME CodecInv, write
    PROVE  WireInv'
  <1>1. type \in DOMAIN Classes /\ msg \in Good(type, {})
    BY ClassOfCmd DEF CodecInv, type
  <1>2. cmd' = cmd /\ type' = type /\ msg' = msg
    BY DEF write, appVars, type
  <1>3. PICK h \in Headers : pkg' = Packed(h, cmd, msg)
    BY Zenon DEF write, Packed
  <1>4. pkg'.cmdType = cmd /\ pkg'.message[1] = msg
    BY <1>3 DEF Packed
  <1>5. pkglen' \in {readInt(out'.head), readInt(out'.head) - 1}
    BY DEF write
  <1> DEFINE bytes == Serialize(type, msg)
  <1>6. /\ how' # "none" /\ out' = Frame(pkg', WireSize(out'.body), out'.body)
        /\ how' \notin {"cut", "retyped"} => out'.body \in WholeBodies(bytes)
    <2>1. CASE how' = "client" /\ out' = toByteBuf(pkg')
      <3>1. out' = Frame(pkg', ByteSize(type, msg), bytes)
        BY <1>4, <2>1 DEF toByteBuf, type
      <3>2. ByteSize(type, msg) = WireSize(bytes)
        BY <1>1, ByteSizeIsExact
      <3> HIDE DEF bytes
      <3>3. out'.body = bytes
        BY <3>1 DEF Frame
      <3> QED
        BY <2>1, <3>1, <3>2, <3>3 DEF WholeBodies
    <2>2. CASE \E b \in Bodies : how' = b[1] /\ out' = Frame(pkg', WireSize(b[2]), b[2])
      <3>1. PICK b \in Bodies : how' = b[1] /\ out' = Frame(pkg', WireSize(b[2]), b[2])
        BY <2>2
      <3>2. out'.body = b[2]
        BY <3>1 DEF Frame
      <3>3. b[1] # "none" /\ (b[1] \notin {"cut", "retyped"} => b[2] \in WholeBodies(bytes))
        <4> HIDE DEF bytes
        <4> QED
          BY DEF Bodies, WholeBodies, Ended, bytes
      <3> QED
        BY <3>1, <3>2, <3>3
    <2> QED
      BY <2>1, <2>2 DEF write
  <1> QED
    BY <1>2, <1>3, <1>5, <1>6 DEF WireInv

\* The bytes stay what they are until they are read.
LEMMA FramesStay == Spec => []WireInv
  <1>1. Init => WireInv
    BY DEF Init, WireInv
  <1>2. CodecInv /\ WireInv /\ [Next]_vars => WireInv'
    <2> SUFFICES ASSUME CodecInv, WireInv, [Next]_vars PROVE WireInv'
      OBVIOUS
    <2>1. CASE UNCHANGED vars
      BY <2>1 DEF WireInv, vars, appVars, type
    <2>2. CASE CallAccessor \/ CallClear \/ CallMergeFrom \/ CallCopyFrom \/ CallSwap
      <3>1. how = "none" /\ how' = how /\ out' = out
        BY <2>2 DEF CallAccessor, CallClear, CallMergeFrom, CallCopyFrom, CallSwap, Call
      <3> QED
        BY <3>1 DEF WireInv
    <2>3. CASE write
      BY <2>3, WriteFrames
    <2>4. CASE read
      <3>1. out' = NoBytes
        BY <2>4 DEF read
      <3> QED
        BY <3>1 DEF WireInv
    <2> QED
      BY <2>1, <2>2, <2>3, <2>4 DEF Next
  <1> QED
    BY <1>1, <1>2, MessagesStayGood, PTL DEF Spec

\* The frame of a packet, read with its length or with a shorter one.
LEMMA FrameIsReadBack ==
    ASSUME CodecInv, WireInv, FrameFits, read
    PROVE  IF WholeFrame /\ cmd \in KnownCmds
           THEN /\ [readPkg' EXCEPT !.extension = pkg.extension, !.message = pkg.message] = pkg
                /\ pkg.extension.hi = 0 => readPkg'.extension = pkg.extension
                /\ how \notin {"cut", "retyped"} =>
                       Seen(type, readPkg'.message[1]) = Seen(type, msg)
           ELSE readPkg' = readPkg
  <1> DEFINE n == WireSize(out.body)
             b == out.body
             q == [opaque |-> pkg.opaque, cmdType |-> pkg.cmdType, version |-> pkg.version,
                   extension |-> pkg.extension]
  <1>1. out # NoBytes
    BY DEF read
  <1>2. /\ cmd \in Cmds /\ msg \in Good(type, {}) /\ n \in Size
        /\ out = Frame(pkg, n, b)
        /\ pkglen \in {readInt(out.head), readInt(out.head) - 1}
        /\ how \notin {"cut", "retyped"} => b \in WholeBodies(Serialize(type, msg))
    BY <1>1 DEF CodecInv, WireInv, FrameFits
  <1>3. PICK g \in Headers : pkg = Packed(g, cmd, msg)
    BY <1>1 DEF WireInv
  <1>4. q \in Packet /\ q.opaque = pkg.opaque /\ q.cmdType = cmd /\ pkg.cmdType = cmd
        /\ q.version = pkg.version /\ q.extension = pkg.extension
    <2>1. g \in Header64
      BY CodecAssumption
    <2>2. cmd \in Char
      BY <1>2 DEF Cmds, Char
    <2> QED
      BY <1>3, <2>1, <2>2 DEF Packed, Packet, Header64
  <1>5. out = Frame(q, n, b)
    BY <1>2, <1>4 DEF Frame
  <1> HIDE DEF n, b, q
  <1>6. /\ readInt(out.head) = HeaderLen + n
        /\ \A h \in headersOf(out) :
             /\ h.opaque = pkg.opaque /\ h.cmdType = cmd
             /\ h.version = pkg.version /\ h.size = n
             /\ pkg.extension.hi = 0 => h.extension = pkg.extension
    BY <1>2, <1>4, <1>5, HeaderReadsBack
  <1>7. n \in Nat /\ HeaderLen \in Nat
    BY <1>2 DEF Size, HeaderLen
  <1> DEFINE packets == parseFrom(out, pkglen)
  <1>8. \/ packets = {} /\ readPkg' = readPkg
        \/ readPkg' \in packets
    BY DEF read
  <1>9. CASE WholeFrame /\ cmd \in KnownCmds
    <2>1. headersOf(out) # {}
      BY DEF headersOf, readLong
    <2>2. \A h \in headersOf(out) : pkglen - HeaderLen >= h.size /\ h.cmdType \in KnownCmds
      BY <1>6, <1>7, <1>9 DEF WholeFrame
    <2>3. packets # {}
      BY <2>1, <2>2 DEF parseFrom
    <2>4. PICK h \in headersOf(out) :
            readPkg' = [opaque |-> h.opaque, cmdType |-> h.cmdType, version |-> h.version,
                        extension |-> h.extension,
                        message |-> <<ParseFromArray(ClassOf[h.cmdType], b).msg>>]
      <3>1. readPkg' \in packets
        BY <1>8, <2>3
      <3> QED
        BY <3>1 DEF parseFrom, b
    <2>5. /\ readPkg' = [opaque |-> pkg.opaque, cmdType |-> cmd, version |-> pkg.version,
                         extension |-> h.extension,
                         message |-> <<ParseFromArray(type, b).msg>>]
          /\ pkg.extension.hi = 0 => h.extension = pkg.extension
      BY <1>6, <2>4 DEF type
    <2>6. [readPkg' EXCEPT !.extension = pkg.extension, !.message = pkg.message] = pkg
      <3> DEFINE x == <<ParseFromArray(type, b).msg>>
                 y == <<msg>>
      <3>1. readPkg' = [opaque |-> pkg.opaque, cmdType |-> cmd, version |-> pkg.version,
                        extension |-> h.extension, message |-> x]
        BY <2>5
      <3>2. pkg = [opaque |-> g.opaque, cmdType |-> cmd, version |-> g.version,
                   extension |-> g.extension, message |-> y]
        BY <1>3 DEF Packed
      <3> HIDE DEF x, y
      <3>3. /\ pkg.opaque = g.opaque /\ pkg.version = g.version /\ pkg.extension = g.extension
            /\ pkg.message = y
        BY <3>2
      <3>4. readPkg' = [opaque |-> g.opaque, cmdType |-> cmd, version |-> g.version,
                        extension |-> h.extension, message |-> x]
        BY <3>1, <3>3
      <3>5. [readPkg' EXCEPT !.extension = g.extension] =
              [opaque |-> g.opaque, cmdType |-> cmd, version |-> g.version,
               extension |-> g.extension, message |-> x]
        BY <3>4
      <3>6. [[readPkg' EXCEPT !.extension = g.extension] EXCEPT !.message = y] = pkg
        <4> DEFINE s == [readPkg' EXCEPT !.extension = g.extension]
        <4>1. s = [opaque |-> g.opaque, cmdType |-> cmd, version |-> g.version,
                   extension |-> g.extension, message |-> x]
          BY <3>5
        <4> HIDE DEF s
        <4>2. [s EXCEPT !.message = y] =
                [opaque |-> g.opaque, cmdType |-> cmd, version |-> g.version,
                 extension |-> g.extension, message |-> y]
          BY <4>1
        <4> QED
          BY <3>2, <4>2 DEF s
      <3>7. [readPkg' EXCEPT !.extension = g.extension, !.message = y] =
              [[readPkg' EXCEPT !.extension = g.extension] EXCEPT !.message = y]
        BY <3>4
      <3> QED
        BY <3>3, <3>6, <3>7
    <2>7. ASSUME how \notin {"cut", "retyped"}
          PROVE  Seen(type, readPkg'.message[1]) = Seen(type, msg)
      <3>1. type \in Flats \cup Holders
        BY <1>2 DEF type, ClassOf, Cmds, Flats, Holders
      <3>2. readPkg'.message[1] = ParseFromArray(type, b).msg
        BY <2>5
      <3> QED
        BY <1>2, <2>7, <3>1, <3>2, WholeIsReadBack
    <2> QED
      BY <1>9, <2>5, <2>6, <2>7
  <1>10. CASE ~(WholeFrame /\ cmd \in KnownCmds)
    <2>1. \A h \in headersOf(out) : ~(pkglen - HeaderLen >= h.size /\ h.cmdType \in KnownCmds)
      <3>1. CASE cmd \notin KnownCmds
        BY <1>6, <3>1
      <3>2. CASE ~WholeFrame
        <4>1. pkglen - HeaderLen = n - 1
          BY <1>2, <1>6, <1>7, <3>2 DEF WholeFrame
        <4> QED
          BY <1>6, <1>7, <4>1
      <3> QED
        BY <1>10, <3>1, <3>2
    <2>2. packets = {}
      BY <2>1 DEF parseFrom
    <2> QED
      BY <1>8, <1>10, <2>2
  <1> QED
    BY <1>9, <1>10

\* KitePacket.cpp:61-159: the bytes of a packet a client can receive, parsed with the
\* length that precedes them, are that packet again, for any header, any calls that
\* made its message, and any of the orders and unknown fields a server may write; other
\* bytes leave the packet parsed before as it was.  Frames are no longer than an int says.
THEOREM PacketsReadBack == Spec /\ []FrameFits => RoundTrip
  <1> DEFINE Kept ==
        IF WholeFrame /\ cmd \in KnownCmds
        THEN /\ [readPkg' EXCEPT !.extension = pkg.extension, !.message = pkg.message] = pkg
             /\ pkg.extension.hi = 0 => readPkg'.extension = pkg.extension
             /\ how \notin {"cut", "retyped"} =>
                    Seen(type, readPkg'.message[1]) = Seen(type, msg)
        ELSE readPkg' = readPkg
  <1>1. CodecInv /\ WireInv /\ FrameFits /\ [Next]_vars => [Received => Kept]_vars
    <2> SUFFICES ASSUME CodecInv, WireInv, FrameFits, Next, Received
                 PROVE  Kept
      BY Zenon
    <2>1. read
      <3>1. CASE CallAccessor \/ CallClear \/ CallMergeFrom \/ CallCopyFrom \/ CallSwap
        BY <3>1 DEF CallAccessor, CallClear, CallMergeFrom, CallCopyFrom, CallSwap, Call, Received
      <3>2. CASE write
        BY <3>2 DEF write, WireInv, Received
      <3> QED
        BY <3>1, <3>2 DEF Next
    <2> HIDE DEF Kept
    <2> QED
      BY <2>1, FrameIsReadBack DEF Kept
  <1> QED
    BY <1>1, MessagesStayGood, FramesStay, PTL DEF Spec, RoundTrip

=============================================================================
