------------------------------ MODULE Delivery ------------------------------
(***************************************************************************)
(* One connected client: what the server sends, the worker that hands it   *)
(* to callers and listeners (asioKiteIOClient::handle_read_pkg), and what  *)
(* threads of the application and the listeners themselves write, through  *)
(* the session of module WriteSession.  The listeners are those of module  *)
(* ListenerManager, registered by any client of the same address.          *)
(*                                                                         *)
(* The worker is one thread: a listener is called on it, and while that    *)
(* runs nothing is read and no write is carried on.  A call is answered or *)
(* times out; module ResponseFuture has its details.                       *)
(***************************************************************************)
EXTENDS WriteSession, ListenerManager

CONSTANTS
    Channel,        \* the address of the client's server
    Bounds          \* the bounds of each instance: the packets written, the messages
                    \* the server sends, who may register and how often in a row, the
                    \* changes of the listener, and whether the connection may break

ASSUME DeliveryAssumption ==
    /\ Packets \subseteq Nat
    /\ Channel \in Channels
    /\ Bounds \subseteq [packets : SUBSET Packets, messages : Nat, listeners : SUBSET Listeners,
                         turn : Nat, changes : Nat, breaks : BOOLEAN]

VARIABLES
    bound,          \* the bounds of this instance
    call,           \* how far the call is that writes a packet
    byWorker,       \* history: the packets that listeners write
    inbox,          \* what the server has sent and the worker not yet read
    messages,       \* how many messages the server has sent
    replied,        \* the packets the server has replied to
    worker,         \* what the worker does, with which message, listener, packet
    delivered,      \* history: the messages listeners were called with
    stale           \* history: how many of those calls went to a listener that
                    \* was not, or no longer, the first

callVars == <<call, byWorker>>
readVars == <<inbox, messages, replied, worker, delivered, stale>>
vars == <<bound, writeVars, listenerVars, callVars, readVars>>

NoPacket == 0

Init ==
    /\ bound \in Bounds
    /\ WriteInit
    /\ ListenerInit
    /\ call = [p \in Packets |-> "none"]
    /\ byWorker = {}
    /\ inbox = <<>>
    /\ messages = 0
    /\ replied = {}
    /\ worker = [pc |-> "idle", message |-> 0, listener |-> defaultListener, packet |-> NoPacket]
    /\ delivered = <<>>
    /\ stale = 0

-----------------------------------------------------------------------------
(* Faulty forms of the definitions below, used by no specification: each is *)
(* a bug the code could have had, and breaks one of the properties.         *)

\* Several threads run the io_service.
Free_ManyThreads == TRUE

\* A call waits without a limit.
Ends_Answered(p) == call[p] = "answered"

\* A reply goes to some call that waits, whatever its id.
ReadReply_Any ==
    /\ worker.pc = "idle"
    /\ inbox # <<>> /\ Head(inbox).reply
    /\ LET waiting == {p \in Packets : call[p] = "waiting"}
       IN  call' = IF waiting = {} THEN call
                   ELSE [call EXCEPT ![CHOOSE p \in waiting : TRUE] = "answered"]
    /\ inbox' = Tail(inbox)
    /\ UNCHANGED <<writeVars, listenerVars, byWorker, messages, replied, worker, delivered, stale>>

-----------------------------------------------------------------------------
(* The calls of the application, each on a thread of its own.              *)

Unused == {p \in bound.packets : call[p] = "none"}

Begins(p, as) == call' = [call EXCEPT ![p] = as]

\* A call ends when it has its reply or when its time is up.
Ends(p) == call[p] \in {"waiting", "answered"}
Result(p) == IF call[p] = "answered" THEN "reply" ELSE "null"

send(p) ==
    /\ p \in Unused
    /\ async_write(p, TRUE)
    /\ Begins(p, "sending")
    /\ UNCHANGED <<listenerVars, byWorker, readVars>>

sendReturns(p) ==
    /\ call[p] = "sending"
    /\ destroy(p)
    /\ Begins(p, "returned")
    /\ UNCHANGED <<listenerVars, byWorker, readVars>>

sendMessageAndGet(p) ==
    /\ p \in Unused
    /\ async_write(p, TRUE)
    /\ Begins(p, "waiting")
    /\ UNCHANGED <<listenerVars, byWorker, readVars>>

sendMessageAndGetReturns(p) ==
    /\ p \notin byWorker
    /\ Ends(p)
    /\ destroy(p)
    /\ Begins(p, Result(p))
    /\ UNCHANGED <<listenerVars, byWorker, readVars>>

\* By this client or another one of the same address.
Register ==
    /\ Len(turn[Channel]) < bound.turn
    /\ changes < bound.changes
    /\ \E l \in bound.listeners : registerListener(Channel, l)
    /\ UNCHANGED <<writeVars, callVars, readVars>>

Unregister ==
    /\ changes < bound.changes
    /\ unregisterListener(Channel)
    /\ UNCHANGED <<writeVars, callVars, readVars>>

-----------------------------------------------------------------------------
(* The server.                                                             *)

SendMessage ==
    /\ ~broken
    /\ messages < bound.messages
    /\ messages' = messages + 1
    /\ inbox' = Append(inbox, [reply |-> FALSE, id |-> messages'])
    /\ UNCHANGED <<writeVars, listenerVars, callVars, replied, worker, delivered, stale>>

\* To a request it has read the whole of.
Reply(p) ==
    /\ ~broken
    /\ call[p] \notin {"none", "sending", "returned"} /\ p \notin replied
    /\ Cardinality({i \in 1..(Len(stream) - unread) : stream[i].packet = p /\ stream[i].intact})
           = Size[p]
    /\ replied' = replied \cup {p}
    /\ inbox' = Append(inbox, [reply |-> TRUE, id |-> p])
    /\ UNCHANGED <<writeVars, listenerVars, callVars, messages, worker, delivered, stale>>

-----------------------------------------------------------------------------
(* The worker.                                                             *)

Free == worker.pc = "idle"

CarryOn ==
    /\ Free
    /\ Writable \/ Posted
    /\ UNCHANGED <<listenerVars, callVars, readVars>>

\* handle_read_pkg of a reply: receiveResponse.
ReadReply ==
    /\ Free
    /\ inbox # <<>> /\ Head(inbox).reply
    /\ LET p == Head(inbox).id
       IN  call' = IF call[p] = "waiting" THEN [call EXCEPT ![p] = "answered"] ELSE call
    /\ inbox' = Tail(inbox)
    /\ UNCHANGED <<writeVars, listenerVars, byWorker, messages, replied, worker, delivered, stale>>

\* handle_read_pkg of a message: the listener is looked up ...
ReadMessage ==
    /\ Free
    /\ inbox # <<>> /\ ~Head(inbox).reply
    /\ worker' = [worker EXCEPT !.pc = "found", !.message = Head(inbox).id,
                                !.listener = getListener(Channel)]
    /\ inbox' = Tail(inbox)
    /\ UNCHANGED <<writeVars, listenerVars, callVars, messages, replied, delivered, stale>>

\* ... and then called.  The default one does nothing.
CallListener ==
    /\ worker.pc = "found"
    /\ worker' = [worker EXCEPT !.pc = IF worker.listener = defaultListener THEN "idle"
                                       ELSE "callback"]
    /\ delivered' = Append(delivered, worker.message)
    /\ stale' = IF worker.listener = First(Channel) THEN stale ELSE stale + 1
    /\ UNCHANGED <<writeVars, listenerVars, callVars, inbox, messages, replied>>

ListenerReturns ==
    /\ worker.pc = "callback"
    /\ worker' = [worker EXCEPT !.pc = "idle"]
    /\ UNCHANGED <<writeVars, listenerVars, callVars, inbox, messages, replied, delivered, stale>>

\* The listener writes without waiting; the worker can do nothing before the packet
\* is destroyed.
sendAck(p) ==
    /\ worker.pc = "callback"
    /\ p \in Unused
    /\ async_write(p, FALSE)
    /\ Begins(p, "returned")
    /\ byWorker' = byWorker \cup {p}
    /\ UNCHANGED <<listenerVars, readVars>>

\* The listener makes a synchronous call.
ListenerCalls(p) ==
    /\ worker.pc = "callback"
    /\ p \in Unused
    /\ async_write(p, TRUE)
    /\ Begins(p, "waiting")
    /\ byWorker' = byWorker \cup {p}
    /\ worker' = [worker EXCEPT !.pc = "waiting", !.packet = p]
    /\ UNCHANGED <<listenerVars, inbox, messages, replied, delivered, stale>>

ListenerCallReturns ==
    /\ worker.pc = "waiting"
    /\ Ends(worker.packet)
    /\ destroy(worker.packet)
    /\ Begins(worker.packet, Result(worker.packet))
    /\ worker' = [worker EXCEPT !.pc = "callback"]
    /\ UNCHANGED <<listenerVars, byWorker, inbox, messages, replied, delivered, stale>>

-----------------------------------------------------------------------------
Application ==
    \/ Register \/ Unregister
    \/ \E p \in Packets :
        send(p) \/ sendReturns(p) \/ sendMessageAndGet(p) \/ sendMessageAndGetReturns(p)

Server ==
    \/ SendMessage \/ (\E p \in Packets : Reply(p))
    \/ /\ ServerReads \/ (bound.breaks /\ ConnectionBreaks)
       /\ UNCHANGED <<listenerVars, callVars, readVars>>

Listener ==
    \/ ListenerReturns \/ ListenerCallReturns
    \/ \E p \in Packets : sendAck(p) \/ ListenerCalls(p)

Worker == CarryOn \/ ReadReply \/ ReadMessage \/ CallListener

Next == (Application \/ Server \/ Worker \/ Listener) /\ UNCHANGED bound

\* The worker runs what is ready; a listener that does not call returns, and a call
\* returns when its time is up.  The server reads what it is sent, or the connection
\* breaks.
Fairness ==
    /\ WF_vars(CarryOn /\ UNCHANGED bound)
    /\ WF_vars(ReadReply /\ UNCHANGED bound)
    /\ WF_vars(ReadMessage /\ UNCHANGED bound)
    /\ WF_vars(CallListener /\ UNCHANGED bound)
    /\ WF_vars(ListenerReturns /\ UNCHANGED bound)
    /\ WF_vars(ListenerCallReturns /\ UNCHANGED bound)
    /\ WF_vars(ServerReads /\ UNCHANGED <<bound, listenerVars, callVars, readVars>>)

Spec == Init /\ [][Next]_vars /\ Fairness

-----------------------------------------------------------------------------
TypeOK ==
    /\ bound \in Bounds
    /\ WriteTypeOK
    /\ ListenerTypeOK
    /\ call \in [Packets -> {"none", "sending", "waiting", "answered", "returned", "reply", "null"}]
    /\ byWorker \in SUBSET Packets
    /\ inbox \in Seq([reply : BOOLEAN, id : Nat])
    /\ messages \in 0..bound.messages
    /\ replied \in SUBSET Packets
    /\ worker \in [pc : {"idle", "found", "callback", "waiting"}, message : Nat,
                   listener : Listeners \cup {defaultListener}, packet : Packets \cup {NoPacket}]
    /\ delivered \in Seq(1..messages)
    /\ stale \in Nat

\* asioKiteIOClient.cpp:349-362: listeners are called with every message the worker
\* has read, once, in the order in which the server sent them, and one at a time,
\* whatever they do meanwhile.
DeliveredInOrder ==
    LET read == Len(delivered) + (IF worker.pc = "found" THEN 1 ELSE 0)
        coming == {i \in DOMAIN inbox : ~inbox[i].reply}
    IN  /\ \A i \in DOMAIN delivered : delivered[i] = i
        /\ worker.pc = "found" => worker.message = read
        /\ \A i, j \in coming : i < j => inbox[i].id < inbox[j].id
        /\ {inbox[i].id : i \in coming} = (read + 1)..messages

\* ListenerManager.cpp:22-38, asioKiteIOClient.cpp:352: messages go to the listener
\* registered first for the address, whoever registers after it.  The lookup and the
\* call are two steps, so one message for each change may go to the listener of
\* before, which has been unregistered, or which is the default one and drops it.
StaleOncePerChange == stale <= changes

\* asioKiteIOClient.cpp:347, 358: a call that a listener makes never gets its reply,
\* though the server may send it in time: only the worker could read it.
ListenerCallUnanswered ==
    \A p \in byWorker : call[p] \notin {"answered", "reply"}

\* asioKiteIOClient.cpp:353-362: a listener that calls holds up the worker no longer
\* than its calls take to time out; then the worker goes on to read.
WorkerReturns == worker.pc # "idle" ~> worker.pc = "idle"

\* asioSession.hpp:60: every write ends, split or kept waiting, whatever listeners do
\* meanwhile, as long as the server reads.
WritesEnd == \A p \in Packets : wr[p] \in {"queued", "posted"} ~> wr[p] = "done"

\* A packet written by a synchronous call, as a call of RequestReply.  One that is
\* written without waiting asks for nothing.
AbstractPhase ==
    [p \in Packets |->
        CASE call[p] \in {"none", "sending", "returned"} -> "idle"
          [] call[p] \in {"waiting", "answered"} -> "open"
          [] OTHER -> "closed"]

AbstractOutcome == [p \in Packets |-> IF call[p] \in {"reply", "null"} THEN call[p] ELSE "none"]

RR == INSTANCE RequestReply
        WITH Calls <- Packets, phase <- AbstractPhase, answered <- replied,
             outcome <- AbstractOutcome

\* asioKiteIOClient.cpp:191-265, 347: with writes that wait, split and outlive their
\* packets, with listeners that call on the worker and with messages among the
\* replies, a synchronous call keeps its promise: it returns once, with the
\* server's answer to its own request or empty-handed.
CallsKeepPromise == RR!RRSpec
=============================================================================
