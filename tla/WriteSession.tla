---------------------------- MODULE WriteSession ----------------------------
(***************************************************************************)
(* The write side of asioSession (remoting/inc/asioSession.hpp) on one     *)
(* socket, without a strand: any thread may call async_write, and the      *)
(* worker, which runs io_service::run, carries on what a call could not    *)
(* finish.                                                                 *)
(*                                                                         *)
(* boost's asio::async_write is modelled as it works on a reactive socket: *)
(* if no write waits for the socket it tries one send at once, in the      *)
(* calling thread; the send takes what the socket has room for, and no     *)
(* more than a fixed amount; the result is posted to the worker, which     *)
(* tries the rest, or calls the handler.                                   *)
(* The bytes of a packet are a few units, as many as make a difference.    *)
(* They are in the packet's own buffer, which dies with the packet; a unit *)
(* written after that is whatever the memory holds.                        *)
(***************************************************************************)
EXTENDS Integers, Sequences, SequencesExt, FiniteSetsExt

CONSTANTS
    Packets,        \* the packets there are to write
    Size,           \* how many units each has
    Room,           \* the units the socket has room for
    Most            \* the units one send takes at most (64 KB in boost)

ASSUME WriteAssumption ==
    /\ Size \in [Packets -> Nat \ {0}]
    /\ Room \in Nat \ {0}
    /\ Most \in Nat \ {0}

VARIABLES
    wr,             \* what has become of the write of a packet
    sent,           \* how many of its units are written
    alive,          \* the packets whose buffer exists
    queue,          \* the writes that wait for room in the socket
    posted,         \* those that have written something or failed, for the worker
    stream,         \* what has been written to the socket: packet, unit, intact or not
    unread,         \* how much of it the server has not read
    broken,         \* the connection has failed
    writeCounter,   \* KiteStats::writeCounter
    split, waited   \* history: the packets that were not written at once

socketVars == <<queue, posted, stream, unread>>
writeVars == <<wr, sent, alive, socketVars, broken, writeCounter, split, waited>>

WriteInit ==
    /\ wr = [p \in Packets |-> "none"]
    /\ sent = [p \in Packets |-> 0]
    /\ alive = {}
    /\ queue = <<>>
    /\ posted = <<>>
    /\ stream = <<>>
    /\ unread = 0
    /\ broken = FALSE
    /\ writeCounter = 0
    /\ split = {}
    /\ waited = {}

-----------------------------------------------------------------------------
(* Faulty forms of the definitions below, used by no specification: each is *)
(* a bug the code could have had, and breaks one of the properties.         *)

\* The handler does not look at the error.
handle_write_request_Unchecked(p) == writeCounter' = writeCounter + 1

-----------------------------------------------------------------------------
\* The next n units of a packet.
Units(p, n, exists) ==
    [i \in 1..n |-> [packet |-> p, unit |-> sent[p] + i, intact |-> exists]]

\* One send of what is left of the packet, which takes what there is room for and no
\* more than Most; the worker's posts become ready with this one.
Send(p, exists, ready) ==
    LET left == Size[p] - sent[p]
        n == IF broken THEN 0 ELSE Min({left, Min({Most, Room - unread})})
    IN  /\ sent' = [sent EXCEPT ![p] = @ + n]
        /\ stream' = stream \o Units(p, n, exists)
        /\ unread' = unread + n
        /\ wr' = [wr EXCEPT ![p] = "posted"]
        /\ posted' = Append(ready, p)
        /\ split' = IF n < left THEN split \cup {p} ELSE split

\* async_write_some: tried at once if no write waits and there is room, and else
\* left to the reactor.
async_write_some(p, exists, ready) ==
    IF queue = <<>> /\ (broken \/ unread < Room)
    THEN Send(p, exists, ready) /\ UNCHANGED <<queue, waited>>
    ELSE /\ wr' = [wr EXCEPT ![p] = "queued"]
         /\ queue' = Append(queue, p)
         /\ posted' = ready
         /\ waited' = waited \cup {p}
         /\ UNCHANGED <<sent, stream, unread, split>>

\* Faulty form of the next definition, used by no specification: toByteBuf returns
\* the bytes of a buffer of its own, which is gone when they are written.
async_write_LocalBuffer(p, stays) ==
    /\ wr[p] = "none"
    /\ async_write_some(p, FALSE, posted)
    /\ alive' = IF stays THEN alive \cup {p} ELSE alive
    /\ UNCHANGED <<broken, writeCounter>>

\* asioSession::async_write of a packet; stays is false if the packet is destroyed
\* before the worker can do anything.
async_write(p, stays) ==
    /\ wr[p] = "none"
    /\ async_write_some(p, TRUE, posted)
    /\ alive' = IF stays THEN alive \cup {p} ELSE alive
    /\ UNCHANGED <<broken, writeCounter>>

\* The packet, and its buffer with it, is destroyed.
destroy(p) ==
    /\ alive' = alive \ {p}
    /\ UNCHANGED <<wr, sent, socketVars, broken, writeCounter, split, waited>>

-----------------------------------------------------------------------------
(* The worker.                                                             *)

\* The socket has room, or has failed: the first write that waits is tried.
Writable ==
    /\ queue # <<>>
    /\ broken \/ unread < Room
    /\ Send(Head(queue), Head(queue) \in alive, posted)
    /\ queue' = Tail(queue)
    /\ UNCHANGED <<alive, broken, writeCounter, waited>>

\* transfer_at_least: on until the packet is written, or a send has failed.
Carried(p) == sent[p] < Size[p] /\ ~broken

\* async_write_complete and asioKiteIOClient::handle_write_request: a write ends
\* without an error when, and only when, all of the packet is written.
handle_write_request(p) ==
    writeCounter' = IF sent[p] = Size[p] THEN writeCounter + 1 ELSE writeCounter

\* What was posted is taken up: the rest is tried, or the handler called.
Posted ==
    /\ posted # <<>>
    /\ LET p == Head(posted)
       IN  IF Carried(p)
           THEN /\ async_write_some(p, p \in alive, Tail(posted))
                /\ UNCHANGED writeCounter
           ELSE /\ handle_write_request(p)
                /\ wr' = [wr EXCEPT ![p] = "done"]
                /\ posted' = Tail(posted)
                /\ UNCHANGED <<sent, queue, stream, unread, split, waited>>
    /\ UNCHANGED <<alive, broken>>

-----------------------------------------------------------------------------
(* The other end of the connection.                                        *)

ServerReads ==
    /\ unread > 0
    /\ unread' = unread - 1
    /\ UNCHANGED <<wr, sent, alive, queue, posted, stream, broken, writeCounter, split, waited>>

ConnectionBreaks ==
    /\ ~broken
    /\ broken' = TRUE
    /\ UNCHANGED <<wr, sent, alive, socketVars, writeCounter, split, waited>>

-----------------------------------------------------------------------------
WriteTypeOK ==
    /\ wr \in [Packets -> {"none", "queued", "posted", "done"}]
    /\ sent \in [Packets -> Nat] /\ \A p \in Packets : sent[p] <= Size[p]
    /\ alive \in SUBSET Packets
    /\ queue \in Seq(Packets) /\ posted \in Seq(Packets)
    /\ stream \in Seq([packet : Packets, unit : Nat, intact : BOOLEAN])
    /\ unread \in 0..Room
    /\ broken \in BOOLEAN
    /\ writeCounter \in Nat
    /\ split \in SUBSET Packets /\ waited \in SUBSET Packets

\* asioSession.hpp:60-62: whatever writes run at once, the units of a packet are
\* written in order and none of them twice.  Those of a packet that was written
\* at once follow each other and are intact; only a packet that is too long for one
\* send, or that a full socket split or kept waiting, may have others among its
\* units, or ones written after send, sendAck or a call had destroyed it.
StreamSound ==
    /\ \A p \in Packets :
        LET mine == {i \in DOMAIN stream : stream[i].packet = p}
        IN  /\ \A i, j \in mine : i < j => stream[i].unit < stream[j].unit
            /\ {stream[i].unit : i \in mine} = 1..sent[p]
    /\ \A i \in DOMAIN stream :
        LET u == stream[i]
        IN  /\ u.unit > 1 /\ u.packet \notin split =>
                    i > 1 /\ stream[i - 1].packet = u.packet /\ stream[i - 1].unit = u.unit - 1
            /\ ~u.intact => u.packet \in split \cup waited

\* asioKiteIOClient.cpp:327-333: the writes counted are those of whole packets, and
\* all of them once nothing is under way.
CountedIsWritten ==
    LET whole == {p \in Packets : sent[p] = Size[p]}
    IN  /\ writeCounter <= Cardinality(whole)
        /\ queue = <<>> /\ posted = <<>> => writeCounter = Cardinality(whole)
=============================================================================
