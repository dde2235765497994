--------------------------- MODULE ResponseFuture ---------------------------
(***************************************************************************)
(* The rendezvous between the threads that make synchronous calls and the  *)
(* io_service worker thread that reads replies                             *)
(* (remoting/ResponseFuture.cpp and its three users in                     *)
(* remoting/asioKiteIOClient.cpp).                                         *)
(*                                                                         *)
(* Every call creates one ResponseFuture, a boost promise, under the       *)
(* opaque id of its request packet, registers it in the static futureMap,  *)
(* writes the packet and waits.  The worker looks the id of each reply up, *)
(* removes the entry and satisfies the promise.  A call is named by an     *)
(* element of Calls, which also names its future object; a reply is named  *)
(* by the call whose request it answers.                                   *)
(*                                                                         *)
(* Each critical section under maplock is one step: none of them blocks or *)
(* takes the lock again.  Time is abstracted: a timed wait may end at any  *)
(* moment, and fairness makes it end.                                      *)
(***************************************************************************)
CONSTANTS
    Calls,          \* the synchronous calls, one ResponseFuture each
    Ids,            \* the values of the opaque field
    Untimed,        \* the calls that wait with getResponse(), with no timeout
    Interruptible,  \* the calls made on the heartbeat thread, which
                    \* Heartbeat::stop interrupts
    IdsRepeat,      \* TRUE: the opaque counter has wrapped, so the id of a
                    \* call that has ended may be given out again
    NoCall,         \* no call: an absent map entry, an unsatisfied promise,
                    \* a null shared_ptr
    NoId            \* the id of a call that has not been constructed

ASSUME ConstantsAssumption ==
    /\ NoCall \notin Calls
    /\ NoId \notin Ids
    /\ Untimed \subseteq Calls
    /\ Interruptible \subseteq Calls
    /\ IdsRepeat \in BOOLEAN

VARIABLES
    pc,             \* pc[c]: where call c is
    requestId,      \* requestId[c]: the id of its packet and future
    futureMap,      \* futureMap[i]: the future registered under id i
    value,          \* value[c]: the reply its promise holds
    result,         \* result[c]: the reply getResponse returned
    replied,        \* the requests the server has answered
    inFlight,       \* the replies sent and not yet read by the worker
    readPkg         \* the reply the client's only packet buffer holds

callVars == <<pc, requestId, result>>
serverVars == <<replied, inFlight>>
vars == <<pc, requestId, futureMap, value, result, replied, inFlight, readPkg>>

PCs == {"new", "built", "used", "waiting", "expired", "done", "interrupted"}

\* The request has been handed to async_write, so the server may have it.
Written(c) == pc[c] \in {"waiting", "expired", "done", "interrupted"}

\* The call has ended: no step of its thread is left.
Ended(c) == pc[c] \in {"done", "interrupted"}

Init ==
    /\ pc = [c \in Calls |-> "new"]
    /\ requestId = [c \in Calls |-> NoId]
    /\ futureMap = [i \in Ids |-> NoCall]
    /\ value = [c \in Calls |-> NoCall]
    /\ result = [c \in Calls |-> NoCall]
    /\ replied = {}
    /\ inFlight = {}
    /\ readPkg = NoCall

-----------------------------------------------------------------------------
(* Faulty forms of the definitions below.  No specification uses them: each *)
(* is a bug the code could have had, and breaks one of the properties.      *)

\* The request leaves before its future is registered.
Write_Early(c) ==
    /\ pc[c] \in {"built", "used"}
    /\ pc' = [pc EXCEPT ![c] = "waiting"]
    /\ UNCHANGED <<requestId, futureMap, value, result, serverVars, readPkg>>

\* getResponse(timeout) waits like getResponse().
TimeOut_Never(c) == FALSE

\* The timeout path returns without erasing the entry.
EraseExpired_Leak(c) ==
    /\ pc[c] = "expired"
    /\ pc' = [pc EXCEPT ![c] = "done"]
    /\ UNCHANGED <<requestId, futureMap, value, result, serverVars, readPkg>>

\* The timeout path erases the entry only if it is its own.
EraseExpired_Own(c) ==
    /\ pc[c] = "expired"
    /\ LET i == requestId[c]
       IN  futureMap' = [futureMap EXCEPT ![i] = IF @ = c THEN NoCall ELSE @]
    /\ pc' = [pc EXCEPT ![c] = "done"]
    /\ UNCHANGED <<requestId, value, result, serverVars, readPkg>>

\* The promise receives the id in place of the reply.
receiveResponse_Id(r) ==
    LET i == requestId[r]
        f == futureMap[i]
    IN  IF f = NoCall
        THEN UNCHANGED <<futureMap, value>>
        ELSE /\ futureMap' = [futureMap EXCEPT ![i] = NoCall]
             /\ value' = [value EXCEPT ![f] = i]

\* The entry stays in the map.
receiveResponse_Keep(r) ==
    LET f == futureMap[requestId[r]]
    IN  /\ value' = IF f = NoCall THEN value ELSE [value EXCEPT ![f] = r]
        /\ UNCHANGED futureMap

\* Replies are matched with some entry of the map whatever their id.
receiveResponse_Any(r) ==
    IF \A i \in Ids : futureMap[i] = NoCall
    THEN UNCHANGED <<futureMap, value>>
    ELSE LET i == CHOOSE j \in Ids : futureMap[j] # NoCall
         IN  /\ futureMap' = [futureMap EXCEPT ![i] = NoCall]
             /\ value' = [value EXCEPT ![futureMap[i]] = r]

-----------------------------------------------------------------------------
(* The calling thread.                                                     *)

\* KitePacketHeader::getPacketId: ids count up; once they wrap, an id comes
\* back, but never while the call that has it is still open.
FreshId(i) ==
    \A c \in Calls : requestId[c] = i => IdsRepeat /\ Ended(c)

\* The request packet draws its id and the future is constructed with it.
Construct(c) ==
    /\ pc[c] = "new"
    /\ \E i \in Ids :
        /\ FreshId(i)
        /\ requestId' = [requestId EXCEPT ![c] = i]
    /\ pc' = [pc EXCEPT ![c] = "built"]
    /\ UNCHANGED <<futureMap, value, result, serverVars, readPkg>>

\* Registers the future unless its id is taken: then the entry stays with its
\* first owner and the call goes on unregistered.
ResponseFutureUsed(c) ==
    /\ pc[c] = "built"
    /\ LET i == requestId[c]
       IN  futureMap' = IF futureMap[i] = NoCall
                        THEN [futureMap EXCEPT ![i] = c]
                        ELSE futureMap
    /\ pc' = [pc EXCEPT ![c] = "used"]
    /\ UNCHANGED <<requestId, value, result, serverVars, readPkg>>

\* session_.async_write of the packet, then get_future and the wait.  The
\* outcome of the write goes to handle_write_request and never to the caller.
Write(c) ==
    /\ pc[c] = "used"
    /\ pc' = [pc EXCEPT ![c] = "waiting"]
    /\ UNCHANGED <<requestId, futureMap, value, result, serverVars, readPkg>>

\* The promise is satisfied: the wait ends, or has_value() is true after it.
Wake(c) ==
    /\ pc[c] = "waiting"
    /\ value[c] # NoCall
    /\ result' = [result EXCEPT ![c] = value[c]]
    /\ pc' = [pc EXCEPT ![c] = "done"]
    /\ UNCHANGED <<requestId, futureMap, value, serverVars, readPkg>>

\* timed_wait ran out and has_value() said no; the entry is still there.
TimeOut(c) ==
    /\ pc[c] = "waiting"
    /\ c \notin Untimed
    /\ value[c] = NoCall
    /\ pc' = [pc EXCEPT ![c] = "expired"]
    /\ UNCHANGED <<requestId, futureMap, value, result, serverVars, readPkg>>

\* futureMap.erase(requestId), whoever the entry belongs to, and null.  The
\* promise is not looked at again: a reply that came in between is dropped.
EraseExpired(c) ==
    /\ pc[c] = "expired"
    /\ futureMap' = [futureMap EXCEPT ![requestId[c]] = NoCall]
    /\ pc' = [pc EXCEPT ![c] = "done"]
    /\ UNCHANGED <<requestId, value, result, serverVars, readPkg>>

\* Heartbeat::stop: the wait of the heartbeat thread throws thread_interrupted,
\* which no handler in the call catches, so the entry stays in the map.
Interrupt(c) ==
    /\ pc[c] = "waiting"
    /\ c \in Interruptible
    /\ value[c] = NoCall
    /\ pc' = [pc EXCEPT ![c] = "interrupted"]
    /\ UNCHANGED <<requestId, futureMap, value, result, serverVars, readPkg>>

\* The steps the calling thread takes on its own once the call has begun.
CallStep(c) ==
    \/ ResponseFutureUsed(c)
    \/ Write(c)
    \/ Wake(c)
    \/ TimeOut(c)
    \/ EraseExpired(c)

-----------------------------------------------------------------------------
(* The worker thread.                                                      *)

\* Finds the future under the reply's id, removes the entry and satisfies the
\* promise, all under maplock; a reply nobody is registered for is dropped.
receiveResponse(r) ==
    LET i == requestId[r]
        f == futureMap[i]
    IN  IF f = NoCall
        THEN UNCHANGED <<futureMap, value>>
        ELSE /\ futureMap' = [futureMap EXCEPT ![i] = NoCall]
             /\ value' = [value EXCEPT ![f] = r]

\* handle_read_pkg for a reply just read into readPkg.
HandleReply(r) ==
    /\ r \in inFlight
    /\ inFlight' = inFlight \ {r}
    /\ readPkg' = r
    /\ receiveResponse(r)
    /\ UNCHANGED <<callVars, replied>>

\* A frame of MAX_PACKET_BYTES or more calls the same handler without parsing
\* anything: the packet still in readPkg is handled a second time.
HandleAgain ==
    /\ readPkg # NoCall
    /\ receiveResponse(readPkg)
    /\ UNCHANGED <<callVars, serverVars, readPkg>>

\* A packet that is no reply replaces the one in readPkg.
HandleOther ==
    /\ readPkg' = NoCall
    /\ UNCHANGED <<callVars, futureMap, value, serverVars>>

-----------------------------------------------------------------------------
(* The server and the connection.                                          *)

\* The server answers a request once, echoing its opaque id.
ServerReply(c) ==
    /\ Written(c)
    /\ c \notin replied
    /\ replied' = replied \cup {c}
    /\ inFlight' = inFlight \cup {c}
    /\ UNCHANGED <<callVars, futureMap, value, readPkg>>

\* The connection breaks with the replies on it.
DropReplies ==
    /\ inFlight # {}
    /\ inFlight' = {}
    /\ UNCHANGED <<callVars, futureMap, value, replied, readPkg>>

Next ==
    \/ \E c \in Calls :
        \/ Construct(c)
        \/ CallStep(c)
        \/ Interrupt(c)
        \/ HandleReply(c)
        \/ ServerReply(c)
    \/ HandleAgain
    \/ HandleOther
    \/ DropReplies

\* Threads keep running and a timed wait ends; nothing is asked of the server,
\* of the connection or of the worker.
Fairness == \A c \in Calls : WF_vars(CallStep(c))

Spec == Init /\ [][Next]_vars /\ Fairness

-----------------------------------------------------------------------------
TypeOK ==
    /\ pc \in [Calls -> PCs]
    /\ requestId \in [Calls -> Ids \cup {NoId}]
    /\ futureMap \in [Ids -> Calls \cup {NoCall}]
    /\ value \in [Calls -> Calls \cup {NoCall}]
    /\ result \in [Calls -> Calls \cup {NoCall}]
    /\ replied \subseteq Calls
    /\ inFlight \subseteq replied
    /\ readPkg \in replied \cup {NoCall}

\* ResponseFuture.cpp:46-48 erases before it sets.  An entry of the map always
\* is the future of a call that still has the entry's id, has not returned
\* (only an interrupted call may leave its entry behind) and whose promise is
\* unsatisfied: set_value on it cannot throw promise_already_satisfied.
EntrySound ==
    \A i \in Ids : \A c \in Calls :
        futureMap[i] = c =>
            /\ requestId[c] = i
            /\ pc[c] \in {"used", "waiting", "expired", "interrupted"}
            /\ value[c] = NoCall

\* ResponseFuture.cpp:52-55: no promise is satisfied twice, however often the
\* worker handles a reply and whichever ids come back.
PromiseSetOnce ==
    [][\A c \in Calls : value[c] # NoCall => value'[c] = value[c]]_vars

\* asioKiteIOClient.cpp:209, 234 and 260 cast the reply to the type that the
\* request called for: while ids do not repeat, a call gets the reply to its
\* own request or none.
OwnReply ==
    ~IdsRepeat => \A c \in Calls : {value[c], result[c]} \subseteq {c, NoCall}

\* The request is written after its future is registered (lines 195 and 197):
\* while ids do not repeat, a call that waits with no reply is the one its id
\* leads to, so the reply cannot arrive too early to find it.
Reachable ==
    ~IdsRepeat =>
        \A c \in Calls :
            pc[c] \in {"used", "waiting"} /\ value[c] = NoCall
                => futureMap[requestId[c]] = c

\* ResponseFuture.cpp:64-74: every call with a timeout ends, whatever happens
\* to its request and its reply.
TimedCallEnds ==
    \A c \in Calls \ Untimed : (pc[c] = "built") ~> Ended(c)

\* An entry left by an interrupted call makes ResponseFutureUsed refuse the
\* next call that draws its id; that call, when it times out, erases the entry
\* (line 71), so it is refused for one call only.
LeftoverGoes ==
    \A l \in Interruptible : \A c \in Calls \ Untimed :
        (/\ pc[l] = "interrupted"
         /\ pc[c] = "used"
         /\ futureMap[requestId[c]] = l) ~> (l \notin {futureMap[i] : i \in Ids})

-----------------------------------------------------------------------------
(* The calls keep the promise of RequestReply while ids do not repeat.     *)

AbstractPhase ==
    [c \in Calls |-> IF pc[c] = "new" THEN "idle"
                     ELSE IF Ended(c) THEN "closed" ELSE "open"]

\* What a call that has returned brought back.
Returned(c) ==
    IF result[c] = NoCall THEN "null"
    ELSE IF result[c] = c THEN "reply" ELSE "foreign"

AbstractOutcome ==
    [c \in Calls |-> IF pc[c] = "interrupted" THEN "interrupted"
                     ELSE IF pc[c] = "done" THEN Returned(c) ELSE "none"]

RR == INSTANCE RequestReply
        WITH phase <- AbstractPhase, answered <- replied,
             outcome <- AbstractOutcome

\* Each call opens once, closes once, and returns only the answer to its own
\* request (asioKiteIOClient.cpp:191-265 on ResponseFuture.cpp).
RefinesRequestReply == RR!RRSpec
=============================================================================
