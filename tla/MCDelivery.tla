----------------------------- MODULE MCDelivery -----------------------------
(***************************************************************************)
(* Three instances: writes that meet each other and a listener, writes on  *)
(* a connection that breaks, and messages that meet changes of the         *)
(* listener.  One send takes the second packet whole, and only half of the *)
(* others; the socket has room for two units.                              *)
(***************************************************************************)
EXTENDS Delivery

CONSTANTS l1, l2

MCPackets == 1..3
MCSize == <<2, 1, 2>>

MCBounds ==
    {[packets |-> {1, 2}, messages |-> 1, listeners |-> {l1}, turn |-> 1, changes |-> 1,
      breaks |-> FALSE],
     [packets |-> {1, 2}, messages |-> 0, listeners |-> {}, turn |-> 0, changes |-> 0,
      breaks |-> TRUE],
     [packets |-> {3}, messages |-> 2, listeners |-> {l1, l2}, turn |-> 2, changes |-> 3,
      breaks |-> FALSE]}
=============================================================================
