--------------------------- MODULE DeliveryProofs ---------------------------
(***************************************************************************)
(* Proofs about Delivery, for any packets, sizes, room in the socket,      *)
(* listeners, addresses and bounds.                                        *)
(***************************************************************************)
EXTENDS Delivery, WriteSessionProofs

\* What a packet written by a listener is up to: only while the worker waits for
\* it is its call waiting.
ByWorkerInv ==
    /\ ListenerCallUnanswered
    /\ \A p \in byWorker : call[p] # "none"
    /\ \A p \in byWorker : call[p] = "waiting" => worker.pc = "waiting" /\ worker.packet = p
    /\ worker.pc = "waiting" => worker.packet \in byWorker

\* The map holds the first registration; a message that was looked up for a
\* listener that is no longer the first has its change to itself.
ListenerInv ==
    /\ \A c \in Channels : listeners[c] = First(c)
    /\ stale <= changes
    /\ worker.pc = "found" /\ worker.listener # First(Channel) => stale < changes

\* The messages on their way are ones the server has sent.
InboxInv ==
    /\ \A i \in DOMAIN inbox : ~inbox[i].reply => inbox[i].id \in 1..messages
    /\ worker.pc = "found" => worker.message \in 1..messages

WriteInv == StreamSound /\ SplitInv /\ BookInv

IInv == TypeOK /\ ByWorkerInv /\ ListenerInv /\ InboxInv /\ DeliveredInOrder /\ WriteInv

-----------------------------------------------------------------------------
(* The types of the rest.                                                  *)

CallTypeOK ==
    /\ call \in [Packets -> {"none", "sending", "waiting", "answered", "returned", "reply", "null"}]
    /\ byWorker \in SUBSET Packets

WorkerTypeOK ==
    worker \in [pc : {"idle", "found", "callback", "waiting"}, message : Nat,
                listener : Listeners \cup {defaultListener}, packet : Packets \cup {NoPacket}]

InboxTypeOK ==
    /\ inbox \in Seq([reply : BOOLEAN, id : Nat])
    /\ messages \in 0..bound.messages
    /\ replied \in SUBSET Packets

HistoryTypeOK ==
    /\ delivered \in Seq(1..messages)
    /\ stale \in Nat

\* TypeOK in the parts that the steps change one at a time.
LEMMA TypeParts ==
    TypeOK <=> /\ bound \in Bounds /\ WriteTypeOK /\ ListenerTypeOK
               /\ CallTypeOK /\ WorkerTypeOK /\ InboxTypeOK /\ HistoryTypeOK
  BY Zenon DEF TypeOK, CallTypeOK, WorkerTypeOK, InboxTypeOK, HistoryTypeOK

\* Each step of Next, by what it does to the writes.
LEMMA WriteStep ==
    ASSUME Next, TypeOK, ByWorkerInv
    PROVE  [WriteNext]_writeVars
  <1> USE DEF WriteNext
  <1>1. CASE Application
    BY <1>1, Zenon DEF Application, Register, Unregister, send, sendReturns,
                       sendMessageAndGet, sendMessageAndGetReturns
  <1>2. CASE Server
    BY <1>2, Zenon DEF Server, SendMessage, Reply
  <1>3. CASE Worker
    BY <1>3, Zenon DEF Worker, CarryOn, ReadReply, ReadMessage, CallListener
  <1>4. CASE Listener
    <2>1. CASE ListenerCallReturns
      <3>1. worker.packet \in Packets
        BY <2>1, Zenon DEF ListenerCallReturns, ByWorkerInv, TypeOK
      <3> QED
        BY <2>1, <3>1, Zenon DEF ListenerCallReturns
    <2> QED
      BY <1>4, <2>1, Zenon DEF Listener, ListenerReturns, sendAck, ListenerCalls
  <1> QED
    BY <1>1, <1>2, <1>3, <1>4 DEF Next

\* The calls: what the actions set call to.
LEMMA CallTypes ==
    ASSUME Next, TypeOK, ByWorkerInv
    PROVE  CallTypeOK'
  <1> DEFINE CallStates ==
        {"none", "sending", "waiting", "answered", "returned", "reply", "null"}
  <1>0. call \in [Packets -> CallStates] /\ byWorker \in SUBSET Packets
    BY DEF TypeOK
  <1>1. ASSUME NEW p, NEW as \in CallStates, Begins(p, as)
        PROVE  call' \in [Packets -> CallStates]
    BY <1>0, <1>1 DEF Begins
  <1>2. ASSUME NEW p
        PROVE  Result(p) \in CallStates
    BY DEF Result
  <1> HIDE DEF CallStates
  <1>3. {"sending", "waiting", "returned", "answered"} \subseteq CallStates
    BY DEF CallStates
  <1>4. call' \in [Packets -> CallStates]
    <2>1. CASE UNCHANGED call
      BY <1>0, <2>1
    <2>2. CASE ReadReply
      BY <1>0, <1>3, <2>2 DEF ReadReply
    <2> QED
      BY <1>1, <1>2, <1>3, <2>1, <2>2
         DEF Next, Application, Server, Worker, Listener, Register, Unregister, send,
             sendReturns, sendMessageAndGet, sendMessageAndGetReturns, SendMessage, Reply,
             CarryOn, ReadMessage, CallListener, ListenerReturns, sendAck, ListenerCalls,
             ListenerCallReturns, callVars
  <1>5. byWorker' \in SUBSET Packets
    <2>1. byWorker' = byWorker \/ \E p \in Packets : byWorker' = byWorker \cup {p}
      BY Zenon
         DEF Next, Application, Server, Worker, Listener, Register, Unregister, send,
             sendReturns, sendMessageAndGet, sendMessageAndGetReturns, SendMessage, Reply,
             CarryOn, ReadReply, ReadMessage, CallListener, ListenerReturns, sendAck,
             ListenerCalls, ListenerCallReturns, callVars
    <2> QED
      BY <1>0, <2>1
  <1> QED
    BY <1>4, <1>5 DEF CallTypeOK, CallStates

\* The actions that leave alone what the worker reads and does.
Aside ==
    \/ Register \/ Unregister
    \/ \E p \in Packets : \/ send(p) \/ sendReturns(p) \/ sendMessageAndGet(p)
                          \/ sendMessageAndGetReturns(p) \/ sendAck(p)
    \/ (ServerReads \/ ConnectionBreaks) /\ UNCHANGED <<listenerVars, callVars>>
    \/ CarryOn

\* Every step is one of those or one of the others.
LEMMA StepKinds ==
    ASSUME Next
    PROVE  /\ UNCHANGED bound
           /\ \/ Aside /\ UNCHANGED readVars
              \/ SendMessage \/ (\E p \in Packets : Reply(p))
              \/ ReadReply \/ ReadMessage \/ CallListener
              \/ ListenerReturns \/ ListenerCallReturns
              \/ \E p \in Packets : ListenerCalls(p)
  BY Zenon DEF Next, Application, Server, Worker, Listener, Aside, Register, Unregister,
               send, sendReturns, sendMessageAndGet, sendMessageAndGetReturns, sendAck, CarryOn

\* The first of a sequence is one of its elements.
LEMMA HeadIsElement == \A S : \A q \in Seq(S) : q # <<>> => Head(q) \in S
  OBVIOUS

\* What the worker holds.
LEMMA WorkerTypes ==
    ASSUME Next, TypeOK
    PROVE  WorkerTypeOK'
  <1>0. WorkerTypeOK /\ inbox \in Seq([reply : BOOLEAN, id : Nat])
    BY TypeParts DEF InboxTypeOK
  <1>1. CASE UNCHANGED worker
    BY <1>0, <1>1 DEF WorkerTypeOK
  <1>2. CASE ReadMessage
    <2>1. Head(inbox).id \in Nat
      <3>1. inbox # <<>>
        BY <1>2 DEF ReadMessage
      <3>2. Head(inbox) \in [reply : BOOLEAN, id : Nat]
        BY <1>0, <3>1, HeadIsElement
      <3> QED
        BY <3>2
    <2>2. getListener(Channel) \in Listeners \cup {defaultListener}
      BY DeliveryAssumption DEF getListener, TypeOK, ListenerTypeOK
    <2> QED
      BY <1>0, <1>2, <2>1, <2>2 DEF ReadMessage, WorkerTypeOK
  <1>3. CASE CallListener \/ ListenerReturns \/ ListenerCallReturns
    BY <1>0, <1>3 DEF CallListener, ListenerReturns, ListenerCallReturns, WorkerTypeOK
  <1>4. ASSUME NEW p \in Packets, ListenerCalls(p)
        PROVE  WorkerTypeOK'
    BY <1>0, <1>4 DEF ListenerCalls, WorkerTypeOK
  <1> QED
    BY <1>1, <1>2, <1>3, <1>4, StepKinds, Zenon DEF SendMessage, Reply, ReadReply, readVars

\* What is on its way, and that it has been sent.
LEMMA InboxTypes ==
    ASSUME Next, TypeOK, InboxInv
    PROVE  InboxTypeOK' /\ InboxInv'
  <1>0. /\ inbox \in Seq([reply : BOOLEAN, id : Nat]) /\ messages \in Nat
        /\ bound.messages \in Nat /\ messages <= bound.messages /\ bound' = bound
        /\ InboxTypeOK /\ WorkerTypeOK
    BY DeliveryAssumption, TypeParts, StepKinds DEF InboxTypeOK
  <1>1. CASE UNCHANGED <<inbox, messages, replied>> /\ (worker'.pc = "found" => UNCHANGED worker)
    BY <1>0, <1>1 DEF InboxTypeOK, InboxInv
  <1>2. CASE SendMessage
    <2> DEFINE m == [reply |-> FALSE, id |-> messages + 1]
    <2>1. /\ messages' = messages + 1 /\ inbox' = Append(inbox, m)
          /\ messages < bound.messages /\ UNCHANGED <<replied, worker>>
      BY <1>2 DEF SendMessage
    <2>2. m \in [reply : BOOLEAN, id : Nat]
      BY <1>0
    <2>3. InboxTypeOK'
      BY <1>0, <2>1, <2>2 DEF InboxTypeOK
    <2>4. ASSUME NEW i \in DOMAIN inbox', ~inbox'[i].reply
          PROVE  inbox'[i].id \in 1..messages'
      <3>1. CASE i \in DOMAIN inbox
        BY <1>0, <2>1, <2>2, <2>4, <3>1 DEF InboxInv
      <3>2. CASE i \notin DOMAIN inbox
        <4>1. inbox'[i] = m
          BY <1>0, <2>1, <2>2, <3>2
        <4> QED
          BY <1>0, <2>1, <4>1
      <3> QED
        BY <3>1, <3>2
    <2> QED
      BY <1>0, <2>1, <2>3, <2>4 DEF InboxInv
  <1>3. ASSUME NEW p \in Packets, Reply(p)
        PROVE  InboxTypeOK' /\ InboxInv'
    <2> DEFINE m == [reply |-> TRUE, id |-> p]
    <2>1. inbox' = Append(inbox, m) /\ replied' = replied \cup {p}
          /\ UNCHANGED <<messages, worker>>
      BY <1>3 DEF Reply
    <2>2. m \in [reply : BOOLEAN, id : Nat]
      BY DeliveryAssumption
    <2>3. InboxTypeOK'
      BY <1>0, <2>1, <2>2 DEF InboxTypeOK
    <2>4. ASSUME NEW i \in DOMAIN inbox', ~inbox'[i].reply
          PROVE  inbox'[i].id \in 1..messages'
      <3>1. CASE i \in DOMAIN inbox
        BY <1>0, <2>1, <2>2, <2>4, <3>1 DEF InboxInv
      <3>2. CASE i \notin DOMAIN inbox
        <4>1. inbox'[i] = m
          BY <1>0, <2>1, <2>2, <3>2
        <4> QED
          BY <2>4, <4>1
      <3> QED
        BY <3>1, <3>2
    <2> QED
      BY <1>0, <2>1, <2>3, <2>4 DEF InboxInv
  <1>4. CASE ReadReply \/ ReadMessage
    <2>1. /\ inbox # <<>> /\ inbox' = Tail(inbox) /\ UNCHANGED <<messages, replied>>
      BY <1>4 DEF ReadReply, ReadMessage
    <2>2. InboxTypeOK'
      BY <1>0, <2>1 DEF InboxTypeOK
    <2>3. \A i \in DOMAIN inbox' : i + 1 \in DOMAIN inbox /\ inbox'[i] = inbox[i + 1]
      BY <1>0, <2>1
    <2>4. worker'.pc = "found" => worker'.message \in 1..messages
      <3>1. CASE ReadReply
        BY <3>1 DEF ReadReply, InboxInv
      <3>2. CASE ReadMessage
        <4>1. 1 \in DOMAIN inbox /\ ~inbox[1].reply /\ worker'.message = inbox[1].id
          BY <1>0, <2>1, <3>2 DEF ReadMessage, WorkerTypeOK
        <4> QED
          BY <4>1 DEF InboxInv
      <3> QED
        BY <1>4, <3>1, <3>2
    <2> QED
      BY <2>1, <2>2, <2>3, <2>4 DEF InboxInv
  <1>5. CASE CallListener \/ ListenerReturns \/ ListenerCallReturns
    BY <1>0, <1>1, <1>5 DEF CallListener, ListenerReturns, ListenerCallReturns, WorkerTypeOK
  <1>6. ASSUME NEW p \in Packets, ListenerCalls(p)
        PROVE  InboxTypeOK' /\ InboxInv'
    BY <1>0, <1>1, <1>6 DEF ListenerCalls, WorkerTypeOK
  <1> QED
    BY <1>1, <1>2, <1>3, <1>4, <1>5, <1>6, StepKinds, Zenon DEF readVars

\* The messages listeners were called with.
LEMMA HistoryTypes ==
    ASSUME Next, TypeOK, InboxInv
    PROVE  HistoryTypeOK'
  <1>0. delivered \in Seq(1..messages) /\ stale \in Nat /\ messages \in Nat
    BY DeliveryAssumption, TypeParts DEF InboxTypeOK, HistoryTypeOK
  <1>1. CASE UNCHANGED <<delivered, stale>> /\ messages' \in {messages, messages + 1}
    <2>1. delivered \in Seq(1..messages')
      BY <1>0, <1>1
    <2> QED
      BY <1>0, <1>1, <2>1 DEF HistoryTypeOK
  <1>2. CASE CallListener
    BY <1>0, <1>2 DEF CallListener, InboxInv, HistoryTypeOK
  <1> QED
    BY <1>1, <1>2, StepKinds, Zenon
       DEF SendMessage, Reply, ReadReply, ReadMessage, ListenerReturns, ListenerCallReturns,
           ListenerCalls, readVars

-----------------------------------------------------------------------------
(* The listeners.                                                          *)

\* A registration or its end: what is first changes only with the count.
LEMMA ListenerSteps ==
    ASSUME ListenerTypeOK, NEW c \in Channels,
           (\E l \in Listeners : registerListener(c, l)) \/ unregisterListener(c),
           \A d \in Channels : listeners[d] = First(d)
    PROVE  /\ ListenerTypeOK'
           /\ \A d \in Channels : listeners'[d] = First(d)'
           /\ \/ changes' = changes /\ \A d \in Channels : First(d)' = First(d)
              \/ changes' = changes + 1
  <1> USE DEF ListenerTypeOK
  <1>1. ASSUME NEW l \in Listeners, registerListener(c, l)
        PROVE  /\ ListenerTypeOK'
               /\ \A d \in Channels : listeners'[d] = First(d)'
               /\ \/ changes' = changes /\ \A d \in Channels : First(d)' = First(d)
                  \/ changes' = changes + 1
    <2>1. /\ listeners' = [listeners EXCEPT ![c] = Inserted(c, l)]
          /\ turn' = [turn EXCEPT ![c] = Append(@, l)]
          /\ changes' = IF turn[c] = <<>> THEN changes + 1 ELSE changes
      BY <1>1 DEF registerListener
    <2>2. CASE turn[c] = <<>>
      <3>1. Inserted(c, l) = l
        BY <2>2 DEF Inserted, First
      <3>2. Head(Append(turn[c], l)) = l /\ Append(turn[c], l) # <<>>
        BY <2>2
      <3> QED
        BY <2>1, <2>2, <3>1, <3>2 DEF First
    <2>3. CASE turn[c] # <<>>
      <3>1. turn[c] \in Seq(Listeners) /\ Head(turn[c]) \in Listeners
        BY <2>3
      <3>2. Inserted(c, l) = listeners[c]
        BY <2>3, <3>1, ListenerAssumption DEF Inserted, First
      <3>3. Head(Append(turn[c], l)) = Head(turn[c]) /\ Append(turn[c], l) # <<>>
        BY <2>3, <3>1
      <3>4. \A d \in Channels : First(d)' = First(d)
        BY <2>1, <2>3, <3>3 DEF First
      <3> QED
        BY <2>1, <2>3, <3>2, <3>4
    <2> QED
      BY <2>2, <2>3
  <1>2. CASE unregisterListener(c)
    BY <1>2 DEF unregisterListener, First
  <1> QED
    BY <1>1, <1>2

\* The registrations, and the calls of listeners that were looked up before one.
LEMMA ListenerInvStep ==
    ASSUME Next, TypeOK, ListenerInv
    PROVE  ListenerTypeOK' /\ ListenerInv'
  <1>0. /\ ListenerTypeOK /\ WorkerTypeOK
        /\ stale \in Nat /\ changes \in Nat /\ Channel \in Channels
    BY TypeParts, DeliveryAssumption DEF HistoryTypeOK, ListenerTypeOK
  <1>1. CASE Register \/ Unregister
    <2>1. UNCHANGED <<worker, stale>>
      BY <1>1 DEF Register, Unregister, readVars
    <2>2. (\E l \in Listeners : registerListener(Channel, l)) \/ unregisterListener(Channel)
      <3>1. bound.listeners \subseteq Listeners
        BY DeliveryAssumption DEF TypeOK
      <3> QED
        BY <1>1, <3>1 DEF Register, Unregister
    <2>3. /\ ListenerTypeOK'
          /\ \A d \in Channels : listeners'[d] = First(d)'
          /\ \/ changes' = changes /\ \A d \in Channels : First(d)' = First(d)
             \/ changes' = changes + 1
      BY <1>0, <2>2, ListenerSteps DEF ListenerInv
    <2> QED
      BY <1>0, <2>1, <2>3 DEF ListenerInv
  <1>2. CASE UNCHANGED listenerVars /\ UNCHANGED stale
             /\ (worker'.pc = "found" => UNCHANGED worker)
    <2>1. UNCHANGED <<listeners, turn, changes, stale>> /\ \A c : First(c)' = First(c)
      BY <1>2 DEF listenerVars, First
    <2>2. ListenerTypeOK'
      BY <1>0, <2>1 DEF ListenerTypeOK
    <2>3. ListenerInv'
      BY <1>2, <2>1 DEF ListenerInv
    <2> QED
      BY <2>2, <2>3
  <1>3. CASE ReadMessage
    <2>1. /\ UNCHANGED <<listenerVars, stale>>
          /\ worker'.listener = First(Channel)
      BY <1>0, <1>3 DEF ReadMessage, getListener, ListenerInv, WorkerTypeOK
    <2> QED
      BY <1>0, <2>1 DEF ListenerInv, ListenerTypeOK, listenerVars, First
  <1>4. CASE CallListener
    <2>1. /\ UNCHANGED listenerVars /\ worker'.pc # "found" /\ worker.pc = "found"
          /\ stale' = IF worker.listener = First(Channel) THEN stale ELSE stale + 1
      BY <1>0, <1>4 DEF CallListener, WorkerTypeOK
    <2> QED
      BY <1>0, <2>1 DEF ListenerInv, ListenerTypeOK, listenerVars, First
  <1>5. CASE UNCHANGED listenerVars /\ UNCHANGED readVars
    BY <1>2, <1>5 DEF readVars
  <1>6. CASE Aside /\ UNCHANGED readVars
    BY <1>1, <1>5, <1>6, Zenon
       DEF Aside, send, sendReturns, sendMessageAndGet, sendMessageAndGetReturns, sendAck,
           CarryOn
  <1>7. CASE SendMessage \/ ReadReply \/ \E p \in Packets : Reply(p)
    BY <1>2, <1>7, Zenon DEF SendMessage, ReadReply, Reply
  <1>8. CASE ListenerReturns \/ ListenerCallReturns \/ \E p \in Packets : ListenerCalls(p)
    BY <1>0, <1>2, <1>8 DEF ListenerReturns, ListenerCallReturns, ListenerCalls, WorkerTypeOK
  <1> QED
    BY <1>3, <1>4, <1>6, <1>7, <1>8, StepKinds, Zenon

-----------------------------------------------------------------------------
(* The calls of listeners.                                                 *)

\* A step that begins or ends a call of p does not answer it, if the worker has
\* written p.
LEMMA ByWorkerStep ==
    ASSUME Next, TypeOK, ByWorkerInv
    PROVE  ByWorkerInv'
  <1>0. CallTypeOK /\ WorkerTypeOK
    BY TypeParts
  <1> USE DEF ByWorkerInv, ListenerCallUnanswered
  <1>1. CASE /\ UNCHANGED <<call, byWorker>>
             /\ UNCHANGED worker \/ (worker.pc # "waiting" /\ worker'.pc # "waiting")
    BY <1>0, <1>1
  <1>2. ASSUME NEW p \in Packets, NEW as, Begins(p, as), UNCHANGED <<byWorker, worker>>,
               p \notin byWorker \/ as = "returned"
        PROVE  ByWorkerInv'
    BY <1>0, <1>2 DEF Begins, CallTypeOK
  <1>3. ASSUME NEW p \in Packets, send(p) \/ sendMessageAndGet(p)
        PROVE  ByWorkerInv'
    <2>1. p \notin byWorker
      BY <1>3 DEF send, sendMessageAndGet, Unused
    <2> QED
      BY <1>2, <1>3, <2>1 DEF send, sendMessageAndGet, readVars
  <1>4. ASSUME NEW p \in Packets, sendReturns(p) \/ sendMessageAndGetReturns(p)
        PROVE  ByWorkerInv'
    BY <1>2, <1>4 DEF sendReturns, sendMessageAndGetReturns, readVars
  <1>5. ASSUME NEW p \in Packets, sendAck(p)
        PROVE  ByWorkerInv'
    <2>1. /\ Begins(p, "returned") /\ byWorker' = byWorker \cup {p}
          /\ worker.pc = "callback" /\ UNCHANGED worker
      BY <1>5 DEF sendAck, readVars
    <2> QED
      BY <1>0, <2>1 DEF Begins, CallTypeOK
  <1>6. CASE ReadReply
    <2>1. /\ worker.pc = "idle" /\ UNCHANGED <<byWorker, worker>>
          /\ call' \in {call, [call EXCEPT ![Head(inbox).id] = "answered"]}
          /\ call' # call => call[Head(inbox).id] = "waiting"
      BY <1>6 DEF ReadReply, Free
    <2>2. \A p \in byWorker : call'[p] = call[p]
      BY <1>0, <2>1 DEF CallTypeOK
    <2> QED
      BY <1>0, <2>1, <2>2
  <1>7. ASSUME NEW p \in Packets, ListenerCalls(p)
        PROVE  ByWorkerInv'
    <2>1. /\ Begins(p, "waiting") /\ byWorker' = byWorker \cup {p} /\ worker.pc = "callback"
          /\ worker' = [worker EXCEPT !.pc = "waiting", !.packet = p]
      BY <1>7 DEF ListenerCalls
    <2>2. worker'.pc = "waiting" /\ worker'.packet = p
      BY <1>0, <2>1 DEF WorkerTypeOK
    <2> QED
      BY <1>0, <2>1, <2>2 DEF Begins, CallTypeOK
  <1>8. CASE ListenerCallReturns
    <2>1. worker.packet \in byWorker
      BY <1>8 DEF ListenerCallReturns
    <2>2. /\ Begins(worker.packet, Result(worker.packet)) /\ UNCHANGED byWorker
          /\ worker' = [worker EXCEPT !.pc = "callback"]
      BY <1>8 DEF ListenerCallReturns
    <2>3. Result(worker.packet) = "null"
      BY <2>1 DEF Result
    <2>4. worker'.pc = "callback"
      BY <1>0, <2>2 DEF WorkerTypeOK
    <2> QED
      BY <1>0, <2>1, <2>2, <2>3, <2>4 DEF Begins, CallTypeOK
  <1>9. CASE ReadMessage \/ CallListener \/ ListenerReturns
    <2>1. /\ UNCHANGED <<call, byWorker>> /\ worker.pc # "waiting" /\ worker'.pc # "waiting"
      BY <1>0, <1>9
         DEF ReadMessage, CallListener, ListenerReturns, Free, callVars, WorkerTypeOK
    <2> QED
      BY <1>1, <2>1
  <1>10. CASE UNCHANGED callVars /\ UNCHANGED worker
    BY <1>1, <1>10 DEF callVars
  <1>11. CASE Aside /\ UNCHANGED readVars
    BY <1>3, <1>4, <1>5, <1>10, <1>11, Zenon
       DEF Aside, Register, Unregister, CarryOn, readVars
  <1>12. CASE SendMessage \/ \E p \in Packets : Reply(p)
    BY <1>10, <1>12, Zenon DEF SendMessage, Reply
  <1> QED
    BY <1>6, <1>7, <1>8, <1>9, <1>11, <1>12, StepKinds, Zenon

-----------------------------------------------------------------------------
(* The order of the messages.                                              *)

\* Where the messages are in what is on its way, and that they are, in order, those
\* after the first r of m.
Coming(f) == {i \in DOMAIN f : ~f[i].reply}

Ahead(f, r, m) ==
    /\ \A i, j \in Coming(f) : i < j => f[i].id < f[j].id
    /\ {f[i].id : i \in Coming(f)} = (r + 1)..m

\* How many messages the worker has read.
Read == Len(delivered) + (IF worker.pc = "found" THEN 1 ELSE 0)

LEMMA OrderParts ==
    DeliveredInOrder <=> /\ \A i \in DOMAIN delivered : delivered[i] = i
                         /\ worker.pc = "found" => worker.message = Read
                         /\ Ahead(inbox, Read, messages)
  BY Zenon DEF DeliveredInOrder, Ahead, Coming, Read

\* What a frame at the end adds ...
LEMMA ComingAppend ==
    ASSUME NEW S, NEW f \in Seq(S), NEW e \in S
    PROVE  /\ e.reply => Coming(Append(f, e)) = Coming(f)
           /\ ~e.reply => Coming(Append(f, e)) = Coming(f) \cup {Len(f) + 1}
           /\ Coming(f) \subseteq 1..Len(f) /\ Len(f) \in Nat
           /\ Append(f, e)[Len(f) + 1] = e
           /\ \A i \in Coming(f) : Append(f, e)[i] = f[i]
  <1> DEFINE g == Append(f, e)
  <1>1. /\ Len(f) \in Nat /\ DOMAIN f = 1..Len(f) /\ DOMAIN g = 1..(Len(f) + 1)
        /\ g[Len(f) + 1] = e /\ \A i \in 1..Len(f) : g[i] = f[i]
    OBVIOUS
  <1> HIDE DEF g
  <1>2. \A i \in DOMAIN g : i = Len(f) + 1 \/ i \in DOMAIN f
    BY <1>1
  <1>3. Len(f) + 1 \in DOMAIN g /\ Len(f) + 1 \notin DOMAIN f /\ DOMAIN f \subseteq DOMAIN g
    BY <1>1
  <1>4. /\ e.reply => Coming(g) = Coming(f)
        /\ ~e.reply => Coming(g) = Coming(f) \cup {Len(f) + 1}
    <2>1. ASSUME NEW i
          PROVE  i \in Coming(g) <=> i \in Coming(f) \/ (i = Len(f) + 1 /\ ~e.reply)
      BY <1>1, <1>2, <1>3, Zenon DEF Coming
    <2> QED
      BY <2>1, Zenon
  <1> QED
    BY <1>1, <1>4, Zenon DEF Coming, g

\* ... and one at the front takes away.
LEMMA ComingTail ==
    ASSUME NEW S, NEW f \in Seq(S), f # <<>>
    PROVE  /\ Coming(f) \subseteq 1..Len(f) /\ Len(f) \in Nat
           /\ 1 \in Coming(f) <=> ~Head(f).reply
           /\ Head(f) = f[1]
           /\ \A i \in Nat : i \in Coming(Tail(f)) <=> i # 0 /\ i + 1 \in Coming(f)
           /\ \A i \in Coming(Tail(f)) : i \in Nat /\ Tail(f)[i] = f[i + 1]
  <1> DEFINE g == Tail(f)
  <1>1. /\ Len(f) \in Nat /\ DOMAIN f = 1..Len(f) /\ DOMAIN g = 1..(Len(f) - 1)
        /\ 1 \in DOMAIN f /\ Head(f) = f[1] /\ \A i \in 1..(Len(f) - 1) : g[i] = f[i + 1]
    OBVIOUS
  <1> HIDE DEF g
  <1>2. \A i \in Nat : i \in DOMAIN g <=> i # 0 /\ i + 1 \in DOMAIN f
    BY <1>1
  <1>3. \A i \in DOMAIN g : i \in Nat /\ g[i] = f[i + 1]
    BY <1>1
  <1>4. ASSUME NEW i \in Nat
        PROVE  i \in Coming(g) <=> i # 0 /\ i + 1 \in Coming(f)
    BY <1>2, <1>3, Zenon DEF Coming
  <1>5. 1 \in Coming(f) <=> ~Head(f).reply
    BY <1>1, Zenon DEF Coming
  <1>6. Coming(f) \subseteq 1..Len(f) /\ \A i \in Coming(g) : i \in Nat /\ g[i] = f[i + 1]
    BY <1>1, <1>3, Zenon DEF Coming
  <1> QED
    BY <1>1, <1>4, <1>5, <1>6, Zenon DEF g

\* The server sends the next message ...
LEMMA AheadSend ==
    ASSUME NEW S, NEW f \in Seq(S), NEW e \in S, NEW r \in Nat, NEW m \in Nat, r <= m,
           Ahead(f, r, m), ~e.reply, e.id = m + 1
    PROVE  Ahead(Append(f, e), r, m + 1)
  <1> DEFINE g == Append(f, e)
             l == Len(f) + 1
  <1>1. /\ Coming(g) = Coming(f) \cup {l}
        /\ Coming(f) \subseteq 1..Len(f) /\ Len(f) \in Nat
        /\ g[l].id = m + 1 /\ \A i \in Coming(f) : g[i].id = f[i].id
    BY ComingAppend
  <1> HIDE DEF g
  <1>2. \A i \in Coming(f) : f[i].id \in (r + 1)..m /\ i < l
    BY <1>1 DEF Ahead
  <1>3. \A i, j \in Coming(g) : i < j => g[i].id < g[j].id
    BY <1>1, <1>2 DEF Ahead
  <1>4. {g[i].id : i \in Coming(g)} = {f[i].id : i \in Coming(f)} \cup {m + 1}
    BY <1>1, Zenon
  <1>5. (r + 1)..m \cup {m + 1} = (r + 1)..(m + 1)
    OBVIOUS
  <1> QED
    BY <1>3, <1>4, <1>5, Zenon DEF Ahead, g

\* ... or a reply.
LEMMA AheadReply ==
    ASSUME NEW S, NEW f \in Seq(S), NEW e \in S, NEW r \in Nat, NEW m \in Nat,
           Ahead(f, r, m), e.reply
    PROVE  Ahead(Append(f, e), r, m)
  <1> DEFINE g == Append(f, e)
  <1>1. Coming(g) = Coming(f) /\ \A i \in Coming(f) : g[i] = f[i]
    BY ComingAppend
  <1> HIDE DEF g
  <1>2. {g[i].id : i \in Coming(g)} = {f[i].id : i \in Coming(f)}
    BY <1>1
  <1>3. \A i, j \in Coming(g) : i < j => g[i].id < g[j].id
    BY <1>1 DEF Ahead
  <1> QED
    BY <1>2, <1>3, Zenon DEF Ahead, g

\* The worker reads a reply ...
LEMMA AheadSkip ==
    ASSUME NEW S, NEW f \in Seq(S), NEW r \in Nat, NEW m \in Nat,
           f # <<>>, Head(f).reply, Ahead(f, r, m)
    PROVE  Ahead(Tail(f), r, m)
  <1> DEFINE g == Tail(f)
  <1>1. /\ Coming(f) \subseteq 1..Len(f) /\ Len(f) \in Nat /\ 1 \notin Coming(f)
        /\ \A i \in Nat : i \in Coming(g) <=> i # 0 /\ i + 1 \in Coming(f)
        /\ \A i \in Coming(g) : i \in Nat /\ g[i] = f[i + 1]
    BY ComingTail, Zenon
  <1> HIDE DEF g
  <1>2. \A i \in Coming(f) : i - 1 \in Coming(g) /\ g[i - 1] = f[i]
    BY <1>1
  <1>3. \A i \in Coming(g) : i \in Nat /\ i + 1 \in Coming(f) /\ g[i] = f[i + 1]
    BY <1>1
  <1>4. \A i, j \in Coming(g) : i < j => g[i].id < g[j].id
    BY <1>3 DEF Ahead
  <1>5. {g[i].id : i \in Coming(g)} = {f[i].id : i \in Coming(f)}
    BY <1>2, <1>3
  <1> QED
    BY <1>4, <1>5, Zenon DEF Ahead, g

\* ... or the next message.
LEMMA AheadRead ==
    ASSUME NEW S, NEW f \in Seq(S), NEW r \in Nat, NEW m \in Nat,
           f # <<>>, ~Head(f).reply, Ahead(f, r, m)
    PROVE  Head(f).id = r + 1 /\ Ahead(Tail(f), r + 1, m)
  <1> DEFINE g == Tail(f)
  <1>1. /\ Coming(f) \subseteq 1..Len(f) /\ Len(f) \in Nat /\ 1 \in Coming(f) /\ Head(f) = f[1]
        /\ \A i \in Nat : i \in Coming(g) <=> i # 0 /\ i + 1 \in Coming(f)
        /\ \A i \in Coming(g) : i \in Nat /\ g[i] = f[i + 1]
    BY ComingTail, Zenon
  <1> HIDE DEF g
  <1>2. \A i \in Coming(f) : i = 1 \/ (i - 1 \in Coming(g) /\ g[i - 1] = f[i])
    BY <1>1
  <1>3. \A i \in Coming(g) : i \in Nat /\ 1 < i + 1 /\ i + 1 \in Coming(f) /\ g[i] = f[i + 1]
    BY <1>1
  <1>4. \A i \in Coming(f) : f[i].id \in (r + 1)..m /\ (i = 1 \/ f[1].id < f[i].id)
    BY <1>1 DEF Ahead
  <1>5. f[1].id = r + 1
    <2>1. r + 1 \in (r + 1)..m
      BY <1>1, <1>4
    <2>2. PICK i \in Coming(f) : f[i].id = r + 1
      BY <2>1 DEF Ahead
    <2> QED
      BY <1>1, <1>4, <2>2
  <1>6. \A i, j \in Coming(g) : i < j => g[i].id < g[j].id
    BY <1>3 DEF Ahead
  <1>7. {g[i].id : i \in Coming(g)} = {f[i].id : i \in Coming(f)} \ {r + 1}
    <2>1. ASSUME NEW i \in Coming(g)
          PROVE  g[i].id # r + 1 /\ \E j \in Coming(f) : f[j].id = g[i].id
      <3>1. i + 1 \in Coming(f) /\ g[i].id = f[i + 1].id /\ i + 1 # 1
        BY <1>3
      <3>2. f[i + 1].id \in (r + 1)..m /\ f[1].id < f[i + 1].id
        BY <1>4, <3>1
      <3> QED
        BY <1>5, <3>1, <3>2
    <2>2. \A j \in Coming(f) : f[j].id # r + 1 => \E i \in Coming(g) : g[i].id = f[j].id
      BY <1>2, <1>5
    <2> QED
      BY <2>1, <2>2
  <1>8. (r + 1)..m \ {r + 1} = ((r + 1) + 1)..m
    OBVIOUS
  <1> QED
    BY <1>1, <1>5, <1>6, <1>7, <1>8, Zenon DEF Ahead, g

\* Every step keeps the order.
LEMMA OrderStep ==
    ASSUME Next, TypeOK, InboxInv, DeliveredInOrder
    PROVE  DeliveredInOrder'
  <1>0. /\ inbox \in Seq([reply : BOOLEAN, id : Nat]) /\ messages \in Nat
        /\ delivered \in Seq(1..messages) /\ Len(delivered) \in Nat /\ Read \in Nat
        /\ WorkerTypeOK
    BY DeliveryAssumption, TypeParts DEF InboxTypeOK, HistoryTypeOK, Read
  <1>1. CASE /\ UNCHANGED <<inbox, messages, delivered>>
             /\ UNCHANGED worker \/ (worker.pc # "found" /\ worker'.pc # "found")
    BY <1>1, Zenon DEF DeliveredInOrder
  <1>2. /\ \A i \in DOMAIN delivered : delivered[i] = i
        /\ worker.pc = "found" => worker.message = Read
        /\ Ahead(inbox, Read, messages)
    BY OrderParts
  <1>3. CASE SendMessage
    <2> DEFINE e == [reply |-> FALSE, id |-> messages + 1]
    <2>1. /\ messages' = messages + 1 /\ inbox' = Append(inbox, e)
          /\ UNCHANGED <<worker, delivered>>
      BY <1>3 DEF SendMessage
    <2>2. e \in [reply : BOOLEAN, id : Nat] /\ ~e.reply /\ e.id = messages + 1
      BY <1>0
    <2>3. Read <= messages
      <3>1. Len(delivered) <= messages
        <4>1. Len(delivered) \in DOMAIN delivered \/ Len(delivered) = 0
          BY <1>0
        <4> QED
          BY <1>0, <1>2, <4>1
      <3>2. worker.pc = "found" => worker.message \in 1..messages
        BY DEF InboxInv
      <3> QED
        BY <1>0, <1>2, <3>1, <3>2 DEF Read
    <2> HIDE DEF e
    <2>4. Ahead(inbox', Read, messages')
      BY <1>0, <1>2, <2>1, <2>2, <2>3, AheadSend
    <2> QED
      BY <1>2, <2>1, <2>4, OrderParts, Zenon DEF DeliveredInOrder, Ahead, Coming, Read
  <1>4. ASSUME NEW p \in Packets, Reply(p)
        PROVE  DeliveredInOrder'
    <2> DEFINE e == [reply |-> TRUE, id |-> p]
    <2>1. inbox' = Append(inbox, e) /\ UNCHANGED <<messages, worker, delivered>>
      BY <1>4 DEF Reply
    <2>2. e \in [reply : BOOLEAN, id : Nat] /\ e.reply
      BY DeliveryAssumption
    <2> HIDE DEF e
    <2>3. Ahead(inbox', Read, messages')
      BY <1>0, <1>2, <2>1, <2>2, AheadReply
    <2> QED
      BY <1>2, <2>1, <2>3, Zenon DEF DeliveredInOrder, Ahead, Coming, Read
  <1>5. CASE ReadReply
    <2>1. /\ inbox # <<>> /\ Head(inbox).reply /\ inbox' = Tail(inbox)
          /\ UNCHANGED <<messages, worker, delivered>>
      BY <1>5 DEF ReadReply
    <2>2. Ahead(inbox', Read, messages')
      BY <1>0, <1>2, <2>1, AheadSkip
    <2> QED
      BY <1>2, <2>1, <2>2, Zenon DEF DeliveredInOrder, Ahead, Coming, Read
  <1>6. CASE ReadMessage
    <2>1. /\ worker.pc = "idle" /\ inbox # <<>> /\ ~Head(inbox).reply /\ inbox' = Tail(inbox)
          /\ UNCHANGED <<messages, delivered>>
          /\ worker' = [worker EXCEPT !.pc = "found", !.message = Head(inbox).id,
                                      !.listener = getListener(Channel)]
      BY <1>6 DEF ReadMessage, Free
    <2>2. worker'.pc = "found" /\ worker'.message = Head(inbox).id
      BY <1>0, <2>1 DEF WorkerTypeOK
    <2>3. Read = Len(delivered) /\ Len(delivered)' + 1 = Read + 1
      BY <1>0, <2>1 DEF Read
    <2>4. Head(inbox).id = Read + 1 /\ Ahead(inbox', Read + 1, messages')
      BY <1>0, <1>2, <2>1, AheadRead
    <2>5. \A i \in DOMAIN delivered' : delivered'[i] = i
      BY <1>2, <2>1
    <2> QED
      BY <2>2, <2>3, <2>4, <2>5, Zenon DEF DeliveredInOrder, Ahead, Coming
  <1>7. CASE CallListener
    <2>1. /\ worker.pc = "found" /\ delivered' = Append(delivered, worker.message)
          /\ UNCHANGED <<inbox, messages>>
          /\ worker' = [worker EXCEPT !.pc = IF worker.listener = defaultListener THEN "idle"
                                             ELSE "callback"]
      BY <1>7 DEF CallListener
    <2>2. worker'.pc # "found"
      BY <1>0, <2>1 DEF WorkerTypeOK
    <2>3. Read = Len(delivered) + 1 /\ worker.message = Len(delivered) + 1
      BY <1>2, <2>1 DEF Read
    <2>4. Len(delivered)' + 0 = Read /\ \A i \in DOMAIN delivered' : delivered'[i] = i
      BY <1>0, <1>2, <2>1, <2>3
    <2> QED
      BY <1>2, <2>1, <2>2, <2>4, Zenon DEF DeliveredInOrder, Ahead, Coming
  <1>8. CASE ListenerReturns \/ ListenerCallReturns \/ \E p \in Packets : ListenerCalls(p)
    BY <1>0, <1>1, <1>8 DEF ListenerReturns, ListenerCallReturns, ListenerCalls, WorkerTypeOK
  <1> QED
    BY <1>1, <1>3, <1>4, <1>5, <1>6, <1>7, <1>8, StepKinds, Zenon DEF readVars

-----------------------------------------------------------------------------
\* The invariant holds throughout.
LEMMA Invariance == Spec => []IInv
  <1>1. Init => IInv
    <2> SUFFICES ASSUME Init
                 PROVE  IInv
      OBVIOUS
    <2>1. WriteTypeOK
      <3>1. WriteInit
        BY DEF Init
      <3>2. broken \in BOOLEAN
        BY <3>1, Zenon DEF WriteInit
      <3>3. /\ wr \in [Packets -> {"none", "queued", "posted", "done"}]
            /\ sent \in [Packets -> Nat] /\ \A p \in Packets : sent[p] <= Size[p]
            /\ unread \in 0..Room /\ writeCounter \in Nat
        BY <3>1, WriteAssumption DEF WriteInit
      <3> QED
        BY <3>1, <3>2, <3>3 DEF WriteInit, WriteTypeOK
    <2>2. ListenerTypeOK /\ ListenerInv
      BY DeliveryAssumption DEF Init, ListenerInit, ListenerTypeOK, ListenerInv, First
    <2>3. CallTypeOK /\ WorkerTypeOK /\ ByWorkerInv
      BY DEF Init, CallTypeOK, WorkerTypeOK, ByWorkerInv, ListenerCallUnanswered
    <2>4. bound.messages \in Nat
      BY DeliveryAssumption DEF Init
    <2>5. InboxTypeOK /\ HistoryTypeOK /\ InboxInv
      BY <2>4 DEF Init, InboxTypeOK, HistoryTypeOK, InboxInv
    <2>6. bound \in Bounds
      BY DEF Init
    <2>7. DeliveredInOrder
      BY DEF Init, DeliveredInOrder
    <2>8. WriteInv
      BY WriteInitial DEF Init, WriteInv
    <2> QED
      BY <2>1, <2>2, <2>3, <2>5, <2>6, <2>7, <2>8, TypeParts DEF IInv
  <1>2. IInv /\ [Next]_vars => IInv'
    <2>1. ASSUME IInv, Next
          PROVE  IInv'
      <3>1. WriteTypeOK' /\ WriteInv'
        BY <2>1, WriteStep, WriteTypes, WriteSound, WriteBooks DEF IInv, WriteInv, TypeOK
      <3>2. CallTypeOK' /\ WorkerTypeOK' /\ InboxTypeOK' /\ HistoryTypeOK'
        BY <2>1, CallTypes, WorkerTypes, InboxTypes, HistoryTypes DEF IInv
      <3>3. ListenerTypeOK' /\ ListenerInv' /\ InboxInv' /\ ByWorkerInv'
        BY <2>1, ListenerInvStep, InboxTypes, ByWorkerStep DEF IInv
      <3>4. (bound \in Bounds)'
        BY <2>1, StepKinds DEF IInv, TypeOK
      <3>5. TypeOK'
        BY <3>1, <3>2, <3>3, <3>4, Zenon
           DEF TypeOK, CallTypeOK, WorkerTypeOK, InboxTypeOK, HistoryTypeOK
      <3>6. DeliveredInOrder'
        BY <2>1, OrderStep DEF IInv
      <3> QED
        BY <3>1, <3>3, <3>5, <3>6 DEF IInv
    <2>2. ASSUME IInv, UNCHANGED vars
          PROVE  IInv'
      <3>1. UNCHANGED writeVars
        BY <2>2 DEF vars
      <3>2. WriteTypeOK' /\ WriteInv'
        BY <2>2, <3>1, WriteTypes, WriteSound, WriteBooks DEF IInv, WriteInv, TypeOK
      <3>3. UNCHANGED <<bound, listenerVars, callVars, readVars>>
        BY <2>2 DEF vars
      <3>4. ListenerTypeOK' /\ ListenerInv'
        BY <2>2, <3>3, Zenon
           DEF listenerVars, readVars, IInv, TypeOK, ListenerTypeOK, ListenerInv, First
      <3>5. ByWorkerInv' /\ InboxInv' /\ DeliveredInOrder'
        BY <2>2, <3>3, Zenon
           DEF callVars, readVars, IInv, ByWorkerInv, ListenerCallUnanswered, InboxInv,
               DeliveredInOrder
      <3>6. TypeOK'
        BY <2>2, <3>2, <3>3, <3>4, Zenon DEF callVars, readVars, IInv, TypeOK
      <3> QED
        BY <3>2, <3>4, <3>5, <3>6 DEF IInv
    <2> QED
      BY <2>1, <2>2
  <1> QED
    BY <1>1, <1>2, PTL DEF Spec

\* asioSession.hpp:60-62, asioKiteIOClient.cpp:335-364: whatever threads, listeners
\* and the server do, the state is as the declarations say: no packet is written
\* beyond its end, the socket never holds more than it has room for, and what
\* listeners are called with has been sent.
THEOREM TypeCorrect == Spec => []TypeOK
  BY Invariance, PTL DEF IInv

\* asioKiteIOClient.cpp:347, 358: no call that a listener makes is ever answered.
THEOREM ListenersGetNoReply == Spec => []ListenerCallUnanswered
  BY Invariance, PTL DEF IInv, ByWorkerInv

\* ListenerManager.cpp:22-38, asioKiteIOClient.cpp:352: at most one message for each
\* change of the listener goes to one that is not the first registered.
THEOREM OneStaleCallPerChange == Spec => []StaleOncePerChange
  <1>1. IInv => StaleOncePerChange
    BY DEF IInv, ListenerInv, StaleOncePerChange
  <1> QED
    BY <1>1, Invariance, PTL

\* asioKiteIOClient.cpp:349-362: every message is delivered once, in the order sent,
\* for any number of messages, listeners, calls and writes.
THEOREM MessagesInOrder == Spec => []DeliveredInOrder
  BY Invariance, PTL DEF IInv

\* asioSession.hpp:60-62: the units of every packet are written once and in order; a
\* packet that is written at once stays in one piece and intact.
THEOREM WritesAreSound == Spec => []StreamSound
  <1>1. IInv => StreamSound
    BY DEF IInv, WriteInv
  <1> QED
    BY <1>1, Invariance, PTL

\* asioKiteIOClient.cpp:327-333: the counter never exceeds the packets written whole,
\* and is their number once no write is under way.
THEOREM CountIsOfWholePackets == Spec => []CountedIsWritten
  <1>1. IInv => CountedIsWritten
    BY CountIsRight DEF IInv, TypeOK, WriteInv
  <1> QED
    BY <1>1, Invariance, PTL

-----------------------------------------------------------------------------
(* The calls keep the promise of RequestReply.                             *)

\* A call is answered, and a reply on its way, only if the server has replied.
ReplyInv ==
    /\ \A p \in Packets : call[p] \in {"answered", "reply"} => p \in replied
    /\ \A i \in DOMAIN inbox : inbox[i].reply => inbox[i].id \in replied

\* What a step can do to a call.
LEMMA CallSteps ==
    ASSUME Next, TypeOK, ByWorkerInv
    PROVE  \/ UNCHANGED <<call, replied>>
           \/ \E p \in Packets : Reply(p)
           \/ ReadReply
           \/ /\ UNCHANGED replied
              /\ \E p \in Packets :
                    \/ call[p] = "none" /\ \E as \in {"sending", "returned", "waiting"} : Begins(p, as)
                    \/ call[p] = "sending" /\ Begins(p, "returned")
                    \/ Ends(p) /\ Begins(p, Result(p))
  <1>1. CASE ListenerCallReturns
    <2>1. worker.packet \in Packets
      BY <1>1, Zenon DEF ListenerCallReturns, ByWorkerInv, TypeOK
    <2> QED
      BY <1>1, <2>1, Zenon DEF ListenerCallReturns
  <1>2. CASE Aside /\ UNCHANGED readVars
    BY <1>2 DEF Aside, Register, Unregister, send, sendReturns, sendMessageAndGet,
                sendMessageAndGetReturns, sendAck, CarryOn, Unused, callVars, readVars
  <1> QED
    BY <1>1, <1>2, StepKinds, Zenon
       DEF SendMessage, ReadMessage, CallListener, ListenerReturns, ListenerCalls, Unused,
           callVars

\* A reply is read out of what is on its way, and put there by the server only.
LEMMA ReplyStep ==
    ASSUME Next, TypeOK, ByWorkerInv, ReplyInv
    PROVE  ReplyInv'
  <1>0. /\ CallTypeOK /\ inbox \in Seq([reply : BOOLEAN, id : Nat])
        /\ replied \subseteq replied'
    <2>1. replied \subseteq replied'
      BY CallSteps, Zenon DEF Reply, ReadReply
    <2> QED
      BY <2>1, TypeParts DEF InboxTypeOK
  <1>1. \A p \in Packets : call'[p] \in {"answered", "reply"} => p \in replied'
    <2>1. CASE UNCHANGED call
      BY <1>0, <2>1 DEF ReplyInv
    <2>2. CASE ReadReply
      <3>1. inbox # <<>> /\ Head(inbox).reply
        BY <2>2 DEF ReadReply
      <3>2. 1 \in DOMAIN inbox /\ Head(inbox) = inbox[1]
        BY <1>0, <3>1
      <3>3. Head(inbox).id \in replied
        BY <3>1, <3>2, Zenon DEF ReplyInv
      <3>4. call' \in {call, [call EXCEPT ![Head(inbox).id] = "answered"]}
        BY <2>2 DEF ReadReply
      <3> QED
        BY <1>0, <3>3, <3>4 DEF ReplyInv, CallTypeOK
    <2>3. ASSUME NEW p \in Packets, NEW as, Begins(p, as), as # "answered",
                 as = "reply" => call[p] = "answered"
          PROVE  \A q \in Packets : call'[q] \in {"answered", "reply"} => q \in replied'
      BY <1>0, <2>3 DEF Begins, ReplyInv, CallTypeOK
    <2> QED
      BY <2>1, <2>2, <2>3, CallSteps DEF Reply, callVars, Result
  <1>2. \A i \in DOMAIN inbox' : inbox'[i].reply => inbox'[i].id \in replied'
    <2>1. CASE UNCHANGED inbox
      BY <1>0, <2>1 DEF ReplyInv
    <2>2. ASSUME NEW e \in [reply : BOOLEAN, id : Nat], inbox' = Append(inbox, e),
                 e.reply => e.id \in replied'
          PROVE  \A i \in DOMAIN inbox' : inbox'[i].reply => inbox'[i].id \in replied'
      <3>1. \A i \in DOMAIN inbox' : (i \in DOMAIN inbox /\ inbox'[i] = inbox[i]) \/ inbox'[i] = e
        BY <1>0, <2>2
      <3> QED
        BY <1>0, <2>2, <3>1, Zenon DEF ReplyInv
    <2>3. CASE SendMessage
      <3>1. messages' \in Nat
        BY <2>3, DeliveryAssumption, TypeParts DEF SendMessage, InboxTypeOK
      <3> QED
        BY <2>2, <2>3, <3>1 DEF SendMessage
    <2>4. ASSUME NEW p \in Packets, Reply(p)
          PROVE  \A i \in DOMAIN inbox' : inbox'[i].reply => inbox'[i].id \in replied'
      BY <2>2, <2>4, DeliveryAssumption DEF Reply
    <2>5. CASE ReadReply \/ ReadMessage
      <3>1. inbox # <<>> /\ inbox' = Tail(inbox)
        BY <2>5 DEF ReadReply, ReadMessage
      <3>2. \A i \in DOMAIN inbox' : i + 1 \in DOMAIN inbox /\ inbox'[i] = inbox[i + 1]
        BY <1>0, <3>1
      <3> QED
        BY <1>0, <3>2, Zenon DEF ReplyInv
    <2> QED
      BY <2>1, <2>3, <2>4, <2>5, StepKinds, Zenon
         DEF CallListener, ListenerReturns, ListenerCallReturns, ListenerCalls, readVars
  <1> QED
    BY <1>1, <1>2 DEF ReplyInv

LEMMA ReplyInvariance == Spec => []ReplyInv
  <1>1. Init => ReplyInv
    BY DEF Init, ReplyInv
  <1>2. IInv /\ ReplyInv /\ [Next]_vars => ReplyInv'
    <2>1. ASSUME ReplyInv, UNCHANGED vars
          PROVE  ReplyInv'
      BY <2>1, Zenon DEF ReplyInv, vars, callVars, readVars
    <2> QED
      BY <2>1, ReplyStep DEF IInv
  <1> QED
    BY <1>1, <1>2, Invariance, PTL DEF Spec

\* A step is one of RequestReply: a synchronous call opens, the server answers, and
\* the call succeeds or gives up; the rest cannot be seen.
LEMMA StepRefines ==
    ASSUME IInv, ReplyInv, [Next]_vars
    PROVE  [RR!RRNext]_(RR!rrVars)
  <1>0. CallTypeOK
    BY TypeParts DEF IInv
  <1>1. CASE UNCHANGED <<call, replied>>
    BY <1>1 DEF RR!rrVars, AbstractPhase, AbstractOutcome
  <1>2. ASSUME NEW p \in Packets, Reply(p)
        PROVE  RR!Answer(p)
    <2>1. /\ call[p] \notin {"none", "sending", "returned"} /\ UNCHANGED call
          /\ replied' = replied \cup {p}
      BY <1>2 DEF Reply, callVars
    <2> QED
      BY <2>1 DEF RR!Answer, AbstractPhase, AbstractOutcome
  <1>3. CASE ReadReply
    <2>1. UNCHANGED replied
      BY <1>3 DEF ReadReply
    <2>2. \A p \in Packets : \/ call'[p] = call[p]
                             \/ call[p] = "waiting" /\ call'[p] = "answered"
      BY <1>0, <1>3 DEF ReadReply, CallTypeOK
    <2>3. UNCHANGED AbstractPhase /\ UNCHANGED AbstractOutcome
      BY <2>2 DEF AbstractPhase, AbstractOutcome
    <2> QED
      BY <2>1, <2>3 DEF RR!rrVars
  <1>4. ASSUME NEW p \in Packets, UNCHANGED replied,
               \/ call[p] = "none" /\ \E as \in {"sending", "returned"} : Begins(p, as)
               \/ call[p] = "sending" /\ Begins(p, "returned")
        PROVE  UNCHANGED RR!rrVars
    BY <1>0, <1>4 DEF Begins, RR!rrVars, AbstractPhase, AbstractOutcome, CallTypeOK
  <1>5. ASSUME NEW p \in Packets, UNCHANGED replied, call[p] = "none", Begins(p, "waiting")
        PROVE  RR!Open(p)
    <2>1. call' = [call EXCEPT ![p] = "waiting"]
      BY <1>5 DEF Begins
    <2>2. AbstractPhase[p] = "idle" /\ AbstractPhase' = [AbstractPhase EXCEPT ![p] = "open"]
      BY <1>0, <1>5, <2>1 DEF AbstractPhase, CallTypeOK
    <2>3. AbstractOutcome' = AbstractOutcome
      BY <1>0, <1>5, <2>1 DEF AbstractOutcome, CallTypeOK
    <2> QED
      BY <1>5, <2>2, <2>3 DEF RR!Open
  <1>6. ASSUME NEW p \in Packets, UNCHANGED replied, Ends(p), Begins(p, Result(p))
        PROVE  RR!Succeed(p) \/ RR!GiveUp(p)
    <2>1. PICK as \in {"reply", "null"} : /\ call' = [call EXCEPT ![p] = as]
                                          /\ as = "reply" => call[p] = "answered"
      BY <1>6 DEF Begins, Result
    <2>2. AbstractPhase[p] = "open" /\ AbstractPhase' = [AbstractPhase EXCEPT ![p] = "closed"]
      BY <1>0, <1>6, <2>1 DEF Ends, AbstractPhase, CallTypeOK
    <2>3. AbstractOutcome' = [AbstractOutcome EXCEPT ![p] = as]
      BY <1>0, <2>1 DEF AbstractOutcome, CallTypeOK
    <2>4. as = "reply" => p \in replied
      BY <2>1 DEF ReplyInv
    <2> QED
      BY <1>6, <2>1, <2>2, <2>3, <2>4 DEF RR!Succeed, RR!GiveUp
  <1>7. CASE UNCHANGED vars
    BY <1>1, <1>7 DEF vars, callVars, readVars
  <1>8. CASE Next
    BY <1>1, <1>2, <1>3, <1>4, <1>5, <1>6, <1>8, CallSteps DEF IInv, RR!RRNext
  <1> QED
    BY <1>7, <1>8

\* asioKiteIOClient.cpp:191-265, 347: for any packets, listeners and server, a call
\* returns once, with the answer to its own request or empty-handed.
THEOREM CallsImplementRequestReply == Spec => CallsKeepPromise
  <1>1. Init => RR!RRInit
    BY DEF Init, RR!RRInit, AbstractPhase, AbstractOutcome
  <1>2. IInv /\ ReplyInv /\ [Next]_vars => [RR!RRNext]_(RR!rrVars)
    BY StepRefines
  <1> QED
    BY <1>1, <1>2, Invariance, ReplyInvariance, PTL DEF Spec, CallsKeepPromise, RR!RRSpec
=============================================================================
