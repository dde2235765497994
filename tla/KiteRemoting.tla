---------------------------- MODULE KiteRemoting ----------------------------
(***************************************************************************)
(* The ten message classes of protocol/protobuf/generated/kite_remoting.pb *)
(* as the tables that are hard-wired in their functions.  Every function   *)
(* of a class repeats, in a form of its own, which fields there are: as    *)
(* bits, as masks of bits, as tags, as labels to jump to.  Each table here *)
(* is read off one function of one class, so that two functions that       *)
(* disagree about a field disagree here too; module MessageLite says what  *)
(* the functions do with them.                                             *)
(*                                                                         *)
(* Fields are known by their numbers, which run from 1 in every class.  A  *)
(* bit is its position in _has_bits_[0], a mask the set of its bits.  A    *)
(* string stands for its length and a bool is 0 or 1.  A field that is a   *)
(* message is a sequence of at most one message (header_, a pointer), or   *)
(* of any number (properties_).                                            *)
(***************************************************************************)
EXTENDS Integers

NULL == <<>>
NoBit == -1                     \* a repeated field has none

\* A field as its accessors have it: its bit, what it holds, what clear_ makes it.
Field(bit, kind, default) == [bit |-> bit, kind |-> kind, default |-> default]

\* Clear(): the fields reset if a bit of the mask is set, and those reset always.
Clearing(mask, reset, always) == [mask |-> mask, reset |-> reset, always |-> always]

\* A case of MergePartialFromCodedStream: the tag it accepts, and which tags,
\* found next, send it straight to the label of which field.
Case(tag, expect) == [tag |-> tag, expect |-> expect]

\* ByteSize(): the fields added up unseen if all bits of the mask are set, and
\* one by one by RequiredFieldsByteSizeFallback() if not; and the others.
Sizing(mask, required, rest) == [mask |-> mask, required |-> required, rest |-> rest]

\* MergeFrom(): the fields looked at if a bit of the mask is set, for each mask,
\* and the repeated ones.
Merging(groups, repeated) == [groups |-> groups, repeated |-> repeated]

\* IsInitialized(): the mask of the required fields, the messages inside.
Initialized(mask, subs) == [mask |-> mask, subs |-> subs]

-----------------------------------------------------------------------------
(* Faulty forms of the definitions below, used by no specification: each is *)
(* a bug the generator could have had, and breaks one of the properties.    *)

\* A default that Clear() has got wrong.
MessageStoreAck_Clear_WrongDefault == Clearing(0..2, <<0, 0, 0>>, NULL)

\* The properties are not cleared.
Header_Clear_PropertiesKept == Clearing(0..7, <<0, 0, 0, -1, 100, 0, 0, 0>>, [f \in {10} |-> 0])

\* The fast path counts an optional field as if it were required.
ConnMeta_ByteSize_OptionalCounted == Sizing(0..1, 1..3, {})

\* The mask over the ninth and later bits is that over the first eight.
Header_MergeFrom_WrongMask == Merging({<<0..7, 1..8>>, <<0..7, {10}>>}, {9})

\* The message inside is not asked.
TxACKPacket_IsInitialized_Shallow == Initialized(0..2, {})

-----------------------------------------------------------------------------
HeartBeat_accessors == <<Field(0, "int64", 0)>>
HeartBeat_SharedCtor == <<0>>
HeartBeat_Clear == Clearing({}, NULL, <<0>>)
HeartBeat_MergePartialFromCodedStream == <<Case(8, {})>>
HeartBeat_SerializeWithCachedSizes == <<"int64">>
HeartBeat_ByteSize == Sizing({}, {}, {1})
HeartBeat_MergeFrom == Merging({<<0..7, {1}>>}, {})
HeartBeat_IsInitialized == Initialized({0}, {})
HeartBeat_InternalSwap == {1}

ConnMeta_accessors ==
    <<Field(0, "string", 0), Field(1, "string", 0), Field(2, "int32", 0)>>
ConnMeta_SharedCtor == <<0, 0, 0>>
ConnMeta_Clear == Clearing(0..2, <<0, 0, 0>>, NULL)
ConnMeta_MergePartialFromCodedStream ==
    <<Case(10, {<<18, 2>>}), Case(18, {<<24, 3>>}), Case(24, {})>>
ConnMeta_SerializeWithCachedSizes == <<"string", "string", "int32">>
ConnMeta_ByteSize == Sizing(0..1, 1..2, {3})
ConnMeta_MergeFrom == Merging({<<0..7, 1..3>>}, {})
ConnMeta_IsInitialized == Initialized(0..1, {})
ConnMeta_InternalSwap == 1..3

ConnAuthAck_accessors == <<Field(0, "bool", 1), Field(1, "string", 0)>>
ConnAuthAck_SharedCtor == <<1, 0>>
ConnAuthAck_Clear == Clearing(0..1, <<1, 0>>, NULL)
ConnAuthAck_MergePartialFromCodedStream == <<Case(8, {<<18, 2>>}), Case(18, {})>>
ConnAuthAck_SerializeWithCachedSizes == <<"bool", "string">>
ConnAuthAck_ByteSize == Sizing(0..1, 1..2, {})
ConnAuthAck_MergeFrom == Merging({<<0..7, 1..2>>}, {})
ConnAuthAck_IsInitialized == Initialized(0..1, {})
ConnAuthAck_InternalSwap == 1..2

MessageStoreAck_accessors ==
    <<Field(0, "string", 0), Field(1, "bool", 1), Field(2, "string", 0)>>
MessageStoreAck_SharedCtor == <<0, 1, 0>>
MessageStoreAck_Clear == Clearing(0..2, <<0, 1, 0>>, NULL)
MessageStoreAck_MergePartialFromCodedStream ==
    <<Case(10, {<<16, 2>>}), Case(16, {<<26, 3>>}), Case(26, {})>>
MessageStoreAck_SerializeWithCachedSizes == <<"string", "bool", "string">>
MessageStoreAck_ByteSize == Sizing(0..2, 1..3, {})
MessageStoreAck_MergeFrom == Merging({<<0..7, 1..3>>}, {})
MessageStoreAck_IsInitialized == Initialized(0..2, {})
MessageStoreAck_InternalSwap == 1..3

DeliverAck_accessors ==
    <<Field(0, "string", 0), Field(1, "string", 0), Field(2, "string", 0),
      Field(3, "string", 0), Field(4, "bool", 1), Field(5, "string", 0)>>
DeliverAck_SharedCtor == <<0, 0, 0, 0, 1, 0>>
DeliverAck_Clear == Clearing(0..5, <<0, 0, 0, 0, 1, 0>>, NULL)
DeliverAck_MergePartialFromCodedStream ==
    <<Case(10, {<<18, 2>>}), Case(18, {<<26, 3>>}), Case(26, {<<34, 4>>}),
      Case(34, {<<40, 5>>}), Case(40, {<<50, 6>>}), Case(50, {})>>
DeliverAck_SerializeWithCachedSizes ==
    <<"string", "string", "string", "string", "bool", "string">>
DeliverAck_ByteSize == Sizing(0..4, 1..5, {6})
DeliverAck_MergeFrom == Merging({<<0..7, 1..6>>}, {})
DeliverAck_IsInitialized == Initialized(0..4, {})
DeliverAck_InternalSwap == 1..6

TxACKPacket_accessors ==
    <<Field(0, "Header", NULL), Field(1, "int32", 0), Field(2, "string", 0)>>
TxACKPacket_SharedCtor == <<NULL, 0, 0>>
TxACKPacket_Clear == Clearing(0..2, <<NULL, 0, 0>>, NULL)
TxACKPacket_MergePartialFromCodedStream ==
    <<Case(10, {<<16, 2>>}), Case(16, {<<26, 3>>}), Case(26, {})>>
TxACKPacket_SerializeWithCachedSizes == <<"Header", "int32", "string">>
TxACKPacket_ByteSize == Sizing(0..2, 1..3, {})
TxACKPacket_MergeFrom == Merging({<<0..7, 1..3>>}, {})
TxACKPacket_IsInitialized == Initialized(0..2, {1})
TxACKPacket_InternalSwap == 1..3

Entry_accessors == <<Field(0, "string", 0), Field(1, "string", 0)>>
Entry_SharedCtor == <<0, 0>>
Entry_Clear == Clearing(0..1, <<0, 0>>, NULL)
Entry_MergePartialFromCodedStream == <<Case(10, {<<18, 2>>}), Case(18, {})>>
Entry_SerializeWithCachedSizes == <<"string", "string">>
Entry_ByteSize == Sizing(0..1, 1..2, {})
Entry_MergeFrom == Merging({<<0..7, 1..2>>}, {})
Entry_IsInitialized == Initialized(0..1, {})
Entry_InternalSwap == 1..2

Header_accessors ==
    <<Field(0, "string", 0), Field(1, "string", 0), Field(2, "string", 0),
      Field(3, "int64", -1), Field(4, "int32", 100), Field(5, "string", 0),
      Field(6, "bool", 0), Field(7, "bool", 0), Field(NoBit, "Entry", NULL),
      Field(9, "int64", 0)>>
Header_SharedCtor == <<0, 0, 0, -1, 100, 0, 0, 0, NULL, 0>>
Header_Clear ==
    Clearing(0..7, <<0, 0, 0, -1, 100, 0, 0, 0>>, [f \in 9..10 |-> IF f = 9 THEN NULL ELSE 0])
Header_MergePartialFromCodedStream ==
    <<Case(10, {<<18, 2>>}), Case(18, {<<26, 3>>}), Case(26, {<<32, 4>>}),
      Case(32, {<<40, 5>>}), Case(40, {<<50, 6>>}), Case(50, {<<56, 7>>}),
      Case(56, {<<64, 8>>}), Case(64, {<<74, 9>>}), Case(74, {<<74, 9>>, <<80, 10>>}),
      Case(80, {})>>
Header_SerializeWithCachedSizes ==
    <<"string", "string", "string", "int64", "int32", "string", "bool", "bool",
      "Entry", "int64">>
Header_ByteSize == Sizing(0..7, 1..8, {9, 10})
Header_MergeFrom == Merging({<<0..7, 1..8>>, <<9..16, {10}>>}, {9})
Header_IsInitialized == Initialized(0..7, {9})
Header_InternalSwap == 1..10

BytesMessage_accessors == <<Field(0, "Header", NULL), Field(1, "string", 0)>>
BytesMessage_SharedCtor == <<NULL, 0>>
BytesMessage_Clear == Clearing(0..1, <<NULL, 0>>, NULL)
BytesMessage_MergePartialFromCodedStream == <<Case(10, {<<18, 2>>}), Case(18, {})>>
BytesMessage_SerializeWithCachedSizes == <<"Header", "string">>
BytesMessage_ByteSize == Sizing(0..1, 1..2, {})
BytesMessage_MergeFrom == Merging({<<0..7, 1..2>>}, {})
BytesMessage_IsInitialized == Initialized(0..1, {1})
BytesMessage_InternalSwap == 1..2

StringMessage_accessors == <<Field(0, "Header", NULL), Field(1, "string", 0)>>
StringMessage_SharedCtor == <<NULL, 0>>
StringMessage_Clear == Clearing(0..1, <<NULL, 0>>, NULL)
StringMessage_MergePartialFromCodedStream == <<Case(10, {<<18, 2>>}), Case(18, {})>>
StringMessage_SerializeWithCachedSizes == <<"Header", "string">>
StringMessage_ByteSize == Sizing(0..1, 1..2, {})
StringMessage_MergeFrom == Merging({<<0..7, 1..2>>}, {})
StringMessage_IsInitialized == Initialized(0..1, {1})
StringMessage_InternalSwap == 1..2

-----------------------------------------------------------------------------
Class(field, ctor, clear, parse, write, size, merge, init, swap) ==
    [field |-> field, ctor |-> ctor, clear |-> clear, parse |-> parse,
     write |-> write, size |-> size, merge |-> merge, init |-> init, swap |-> swap]

\* The classes, as the virtual functions of MessageLite tell them apart.
Classes ==
    [HeartBeat |-> Class(HeartBeat_accessors, HeartBeat_SharedCtor, HeartBeat_Clear,
         HeartBeat_MergePartialFromCodedStream, HeartBeat_SerializeWithCachedSizes,
         HeartBeat_ByteSize, HeartBeat_MergeFrom, HeartBeat_IsInitialized,
         HeartBeat_InternalSwap),
     ConnMeta |-> Class(ConnMeta_accessors, ConnMeta_SharedCtor, ConnMeta_Clear,
         ConnMeta_MergePartialFromCodedStream, ConnMeta_SerializeWithCachedSizes,
         ConnMeta_ByteSize, ConnMeta_MergeFrom, ConnMeta_IsInitialized,
         ConnMeta_InternalSwap),
     ConnAuthAck |-> Class(ConnAuthAck_accessors, ConnAuthAck_SharedCtor,
         ConnAuthAck_Clear, ConnAuthAck_MergePartialFromCodedStream,
         ConnAuthAck_SerializeWithCachedSizes, ConnAuthAck_ByteSize,
         ConnAuthAck_MergeFrom, ConnAuthAck_IsInitialized, ConnAuthAck_InternalSwap),
     MessageStoreAck |-> Class(MessageStoreAck_accessors, MessageStoreAck_SharedCtor,
         MessageStoreAck_Clear, MessageStoreAck_MergePartialFromCodedStream,
         MessageStoreAck_SerializeWithCachedSizes, MessageStoreAck_ByteSize,
         MessageStoreAck_MergeFrom, MessageStoreAck_IsInitialized,
         MessageStoreAck_InternalSwap),
     DeliverAck |-> Class(DeliverAck_accessors, DeliverAck_SharedCtor, DeliverAck_Clear,
         DeliverAck_MergePartialFromCodedStream, DeliverAck_SerializeWithCachedSizes,
         DeliverAck_ByteSize, DeliverAck_MergeFrom, DeliverAck_IsInitialized,
         DeliverAck_InternalSwap),
     TxACKPacket |-> Class(TxACKPacket_accessors, TxACKPacket_SharedCtor,
         TxACKPacket_Clear, TxACKPacket_MergePartialFromCodedStream,
         TxACKPacket_SerializeWithCachedSizes, TxACKPacket_ByteSize,
         TxACKPacket_MergeFrom, TxACKPacket_IsInitialized, TxACKPacket_InternalSwap),
     Entry |-> Class(Entry_accessors, Entry_SharedCtor, Entry_Clear,
         Entry_MergePartialFromCodedStream, Entry_SerializeWithCachedSizes,
         Entry_ByteSize, Entry_MergeFrom, Entry_IsInitialized, Entry_InternalSwap),
     Header |-> Class(Header_accessors, Header_SharedCtor, Header_Clear,
         Header_MergePartialFromCodedStream, Header_SerializeWithCachedSizes,
         Header_ByteSize, Header_MergeFrom, Header_IsInitialized, Header_InternalSwap),
     BytesMessage |-> Class(BytesMessage_accessors, BytesMessage_SharedCtor,
         BytesMessage_Clear, BytesMessage_MergePartialFromCodedStream,
         BytesMessage_SerializeWithCachedSizes, BytesMessage_ByteSize,
         BytesMessage_MergeFrom, BytesMessage_IsInitialized, BytesMessage_InternalSwap),
     StringMessage |-> Class(StringMessage_accessors, StringMessage_SharedCtor,
         StringMessage_Clear, StringMessage_MergePartialFromCodedStream,
         StringMessage_SerializeWithCachedSizes, StringMessage_ByteSize,
         StringMessage_MergeFrom, StringMessage_IsInitialized,
         StringMessage_InternalSwap)]
=============================================================================
