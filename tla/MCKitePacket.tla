---------------------------- MODULE MCKitePacket ----------------------------
(***************************************************************************)
(* Packets for TLC: fields at the ends of their ranges and with bytes of   *)
(* 128 or more, which are negative as signed chars; values whose encodings *)
(* differ in length.                                                       *)
(***************************************************************************)
EXTENDS KitePacket

MCHeaders ==
    {[opaque |-> -2147483647 - 1, version |-> -32768, extension |-> [hi |-> 0, lo |-> -256]],
     [opaque |-> 2147450880, version |-> 255, extension |-> [hi |-> 0, lo |-> 0]],
     [opaque |-> -1, version |-> 2, extension |-> [hi |-> 1, lo |-> 2]]}

MCValues == [string |-> {0, 128}, bool |-> {0, 1}, int32 |-> {-1, 300}, int64 |-> {16384}]
=============================================================================
