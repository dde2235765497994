-------------------------- MODULE AsioKiteIOClient --------------------------
(***************************************************************************)
(* The life of one connection to a server (remoting/asioKiteIOClient.cpp): *)
(* the status Counter, the threads that call start, handshake, reconnect   *)
(* and close, the io_service worker that runs the handlers of resolving,   *)
(* connecting and reading, and the heartbeat thread.                       *)
(*                                                                         *)
(* Each access to a Counter is one step, and so is each handler.  A        *)
(* synchronous call (ResponseFuture) is here its request, the reply and    *)
(* the timeout.  A retry loop starts asynchronous work and sleeps: nothing *)
(* but the clock makes an attempt end before the next one begins, which is *)
(* what the constant Timely switches on.  Any thread may call any of the   *)
(* four at any moment, also while another thread is inside one of them.    *)
(***************************************************************************)
EXTENDS Naturals

CONSTANTS
    Threads,        \* the application's threads
    Supervisors,    \* those that start, shake hands and reconnect; any may close
    MaxRetry,       \* attempts in a retry loop (10 in the code)
    DeadAfter,      \* missed heartbeats that make isDead true (5 in the code)
    MaxQueued,      \* bound: resolves, and completed connects, outstanding
    MaxFaults,      \* bound: failed attempts and broken connections
    Timely,         \* TRUE: an attempt ends before the sleep that follows it
    Reliable        \* TRUE: the server lives, accepts handshakes in time, and
                    \* connections break only once they are in use

ASSUME ConstantsAssumption ==
    /\ Supervisors \subseteq Threads
    /\ MaxRetry \in Nat \ {0}
    /\ DeadAfter \in Nat \ {0}
    /\ MaxQueued \in Nat \ {0}
    /\ MaxFaults \in Nat
    /\ Timely \in BOOLEAN
    /\ Reliable \in BOOLEAN

VARIABLES
    status,         \* asioKiteIOClient::status
    pc, op, nretry, \* of each application thread: place, call, attempt number
    orderly,        \* history: nothing else was under way when the worker handled
                    \* the last consent, and no two calls have overlapped since
    gaveUp,         \* history: a reconnect() has failed and left a status other
                    \* than RUNNING and no call under way; no handshake since
    resolves,       \* async_resolves outstanding
    ready,          \* completed async_connects whose handler has not run
    sock,           \* socket_: closed, connecting, connected or failed
    reading,        \* a read is pending on the socket
    accepted,       \* the server has accepted a handshake on this socket
    auth,           \* auth[t]: t's handshake on this socket: none, asked, or
                    \* the reply under way: yes, no
    beat,           \* the heartbeat on this socket: none, asked, answered
    hb,             \* the heartbeat thread
    stopCount,      \* Heartbeat::stopCount, up to DeadAfter
    quiet,          \* history: heartbeats given up since the last reply that
                    \* the worker handled, up to DeadAfter
    interrupted,    \* interrupt_all has found the heartbeat thread
    ioStopped,      \* ioService.stop has been called
    serverDown,     \* the server has stopped answering for good
    faults          \* failed attempts and broken connections so far

threadVars == <<pc, op, nretry, orderly, gaveUp>>
ioVars == <<resolves, ready, sock, reading, ioStopped>>
peerVars == <<accepted, auth, beat>>
hbVars == <<hb, stopCount, quiet, interrupted>>
envVars == <<serverDown, faults>>
vars == <<status, threadVars, ioVars, peerVars, hbVars, envVars>>

States == {"NONE", "PREPARE", "RUNNING", "RECONNECTING", "RECOVERING", "STOP"}

Calls == {"none", "start", "handshake", "reconnect", "close"}

PCs == {"idle", "attempt", "sleep", "test", "handshake", "waitAck", "acked", "refused",
        "setRunning", "close", "stop"}

\* Places inside start, reconnect or handshake.
InCall == PCs \ {"idle", "close", "stop"}

UpTo(n, bound) == IF n < bound THEN n ELSE bound

Goto(t, place) == pc' = [pc EXCEPT ![t] = place]

\* No other thread is inside one of these calls.
Alone(t) == \A u \in Threads \ {t} : pc[u] \notin InCall

NoAuth == [t \in Threads |-> "none"]

Init ==
    /\ status = "NONE"
    /\ pc = [t \in Threads |-> "idle"]
    /\ op = [t \in Threads |-> "none"]
    /\ nretry = [t \in Threads |-> 0]
    /\ orderly = TRUE
    /\ gaveUp = FALSE
    /\ resolves = 0
    /\ ready = 0
    /\ sock = "closed"
    /\ reading = FALSE
    /\ ioStopped = FALSE
    /\ accepted = FALSE
    /\ auth = NoAuth
    /\ beat = "none"
    /\ hb = "off"
    /\ stopCount = 0
    /\ quiet = 0
    /\ interrupted = FALSE
    /\ serverDown = FALSE
    /\ faults = 0

\* Nothing of an attempt is left to happen.
Settled == resolves = 0 /\ ready = 0 /\ sock # "connecting"

isDead == stopCount >= DeadAfter

\* A call begins, ends, or ends with false.
Begin(t, call, place) ==
    /\ op' = [op EXCEPT ![t] = call]
    /\ nretry' = [nretry EXCEPT ![t] = 0]
    /\ orderly' = (orderly /\ Alone(t))
    /\ Goto(t, place)

Return(t) ==
    /\ op' = [op EXCEPT ![t] = "none"]
    /\ nretry' = [nretry EXCEPT ![t] = 0]
    /\ Goto(t, "idle")

Failed(t) ==
    /\ gaveUp' = (gaveUp \/ (op[t] = "reconnect" /\ status # "RUNNING" /\ Alone(t)))
    /\ Return(t)

-----------------------------------------------------------------------------
(* Faulty forms of the definitions below.  No specification uses them: each *)
(* is a bug the code could have had, and breaks one of the properties.      *)

\* Disconnect and connect again without counting the attempts.
reconnect0_NoCount(t) ==
    /\ pc[t] = "attempt"
    /\ resolves' = UpTo(resolves + 1, MaxQueued)
    /\ Goto(t, "sleep")
    /\ UNCHANGED <<status, op, nretry, orderly, gaveUp, ready, sock, reading, ioStopped,
                   peerVars, hbVars, envVars>>

\* One attempt too many.
Retry_Late(t) ==
    /\ pc[t] = "test"
    /\ status # "RECOVERING"
    /\ IF nretry[t] > MaxRetry
       THEN Failed(t)
       ELSE Goto(t, "attempt") /\ UNCHANGED <<op, nretry, gaveUp>>
    /\ UNCHANGED <<status, orderly, ioVars, peerVars, hbVars, envVars>>

\* reconnect() returns as soon as the socket is connected.
ReconnectDone_NoHandshake(t) ==
    /\ pc[t] = "test"
    /\ op[t] = "reconnect"
    /\ status = "RECOVERING"
    /\ stopCount' = 0
    /\ Return(t)
    /\ UNCHANGED <<status, orderly, gaveUp, ioVars, peerVars, hb, quiet,
                   interrupted, envVars>>

\* A failed handshake puts the status back for the next reconnect().
Refused_Running(t) ==
    /\ pc[t] \in {"refused", "waitAck"}
    /\ Failed(t)
    /\ status' = "RUNNING"
    /\ UNCHANGED <<orderly, ioVars, peerVars, hbVars, envVars>>

\* The socket counts as usable before the handshake.
HandleConnect_Running ==
    /\ ready > 0
    /\ ~ioStopped
    /\ ready' = ready - 1
    /\ status' = "RUNNING"
    /\ reading' = (sock # "failed")
    /\ UNCHANGED <<threadVars, resolves, sock, ioStopped, peerVars, hbVars, envVars>>

\* Only the heartbeat thread resets the count.
Reset_None ==
    /\ reading
    /\ ~ioStopped
    /\ quiet' = 0
    /\ UNCHANGED stopCount

\* The wait for the reply is no interruption point.
HbSend_Deaf ==
    /\ hb = "due"
    /\ beat' = IF sock = "connected" THEN "asked" ELSE "none"
    /\ hb' = "sent"
    /\ UNCHANGED <<status, threadVars, ioVars, accepted, auth, stopCount, quiet,
                   interrupted, envVars>>

\* A missed heartbeat is not counted.
HbMissed_NoCount ==
    /\ hb = "missed"
    /\ hb' = "loop"
    /\ UNCHANGED <<status, threadVars, ioVars, peerVars, stopCount, quiet, interrupted,
                   envVars>>

-----------------------------------------------------------------------------
(* The application's threads: start, reconnect and their retry loop.       *)

\* start(): the compare-and-set lets one call through, ever.
Start(t) ==
    /\ pc[t] = "idle"
    /\ status = "NONE"
    /\ status' = "PREPARE"
    /\ Begin(t, "start", "attempt")
    /\ UNCHANGED <<gaveUp, ioVars, peerVars, hbVars, envVars>>

\* reconnect(): refused unless RUNNING.
Reconnect(t) ==
    /\ pc[t] = "idle"
    /\ status = "RUNNING"
    /\ status' = "RECONNECTING"
    /\ Begin(t, "reconnect", "attempt")
    /\ UNCHANGED <<gaveUp, ioVars, peerVars, hbVars, envVars>>

\* reconnect0(++nretry): starts the resolver, then sleeps.
reconnect0(t) ==
    /\ pc[t] = "attempt"
    /\ nretry' = [nretry EXCEPT ![t] = @ + 1]
    /\ resolves' = UpTo(resolves + 1, MaxQueued)
    /\ Goto(t, "sleep")
    /\ UNCHANGED <<status, op, orderly, gaveUp, ready, sock, reading, ioStopped,
                   peerVars, hbVars, envVars>>

\* The end of sleep(nretry).
Awake(t) ==
    /\ pc[t] = "sleep"
    /\ Timely => Settled \/ ioStopped
    /\ Goto(t, "test")
    /\ UNCHANGED <<status, op, nretry, orderly, gaveUp, ioVars, peerVars, hbVars,
                   envVars>>

\* The socket is connected: start() launches the heartbeat, which no earlier
\* close() has interrupted, and returns true.
StartDone(t) ==
    /\ pc[t] = "test"
    /\ op[t] = "start"
    /\ status = "RECOVERING"
    /\ hb' = "loop"
    /\ Return(t)
    /\ UNCHANGED <<status, orderly, gaveUp, ioVars, peerVars, stopCount, quiet,
                   interrupted, envVars>>

\* The socket is connected: reconnect() resets the heartbeat and shakes hands.
ReconnectDone(t) ==
    /\ pc[t] = "test"
    /\ op[t] = "reconnect"
    /\ status = "RECOVERING"
    /\ stopCount' = 0
    /\ Goto(t, "handshake")
    /\ UNCHANGED <<status, op, nretry, orderly, gaveUp, ioVars, peerVars, hb, quiet,
                   interrupted, envVars>>

\* Not connected: the next attempt, or false after the last one.
Retry(t) ==
    /\ pc[t] = "test"
    /\ status # "RECOVERING"
    /\ IF nretry[t] >= MaxRetry \/ status = "STOP"
       THEN Failed(t)
       ELSE Goto(t, "attempt") /\ UNCHANGED <<op, nretry, gaveUp>>
    /\ UNCHANGED <<status, orderly, ioVars, peerVars, hbVars, envVars>>

-----------------------------------------------------------------------------
(* handshake(), called by the application and by reconnect().              *)

Handshake(t) ==
    /\ pc[t] = "idle"
    /\ Begin(t, "handshake", "handshake")
    /\ gaveUp' = FALSE
    /\ UNCHANGED <<status, ioVars, peerVars, hbVars, envVars>>

\* sendConnAndGet writes CONN_META; on a dead socket the write fails unnoticed.
SendConn(t) ==
    /\ pc[t] = "handshake"
    /\ auth' = [auth EXCEPT ![t] = IF sock = "connected" THEN "asked" ELSE "none"]
    /\ Goto(t, "waitAck")
    /\ UNCHANGED <<status, op, nretry, orderly, gaveUp, ioVars, accepted, beat,
                   hbVars, envVars>>

\* The ack has status true: setCount(RUNNING) over whatever the status is now.
Accepted(t) ==
    /\ pc[t] = "acked"
    /\ status' = "RUNNING"
    /\ IF op[t] = "reconnect"
       THEN Goto(t, "setRunning") /\ UNCHANGED <<op, nretry>>
       ELSE Return(t)
    /\ UNCHANGED <<orderly, gaveUp, ioVars, peerVars, hbVars, envVars>>

\* No ack within three seconds, or one with status false: reconnect() leaves
\* its loop and returns false, and the status stays what it is.
Refused(t) ==
    /\ \/ pc[t] = "refused"
       \/ pc[t] = "waitAck" /\ ~(Reliable /\ auth[t] # "none")
    /\ Failed(t)
    /\ UNCHANGED <<status, orderly, ioVars, peerVars, hbVars, envVars>>

\* reconnect() sets RUNNING a second time after handshake() has returned.
SetRunning(t) ==
    /\ pc[t] = "setRunning"
    /\ status' = "RUNNING"
    /\ Return(t)
    /\ UNCHANGED <<orderly, gaveUp, ioVars, peerVars, hbVars, envVars>>

-----------------------------------------------------------------------------
(* close(), by any thread, whatever the others do: three calls, between    *)
(* which the worker still runs.                                            *)

\* What was under way on the socket ends with it.
Disconnect ==
    /\ reading' = FALSE
    /\ accepted' = FALSE
    /\ auth' = NoAuth
    /\ beat' = "none"

CloseSocket(t) ==
    /\ pc[t] = "idle"
    /\ ~Reliable
    /\ sock' = "closed"
    /\ Disconnect
    /\ op' = [op EXCEPT ![t] = "close"]
    /\ Goto(t, "close")
    /\ UNCHANGED <<status, nretry, orderly, gaveUp, resolves, ready, ioStopped, hbVars,
                   envVars>>

StopIo(t) ==
    /\ pc[t] = "close"
    /\ ioStopped' = TRUE
    /\ Goto(t, "stop")
    /\ UNCHANGED <<status, op, nretry, orderly, gaveUp, resolves, ready, sock, reading,
                   peerVars, hbVars, envVars>>

\* interrupt_all reaches the thread only if start() has created it.
StopHeartbeat(t) ==
    /\ pc[t] = "stop"
    /\ interrupted' = (hb # "off")
    /\ Return(t)
    /\ UNCHANGED <<status, orderly, gaveUp, ioVars, peerVars, hb, stopCount,
                   quiet, envVars>>

\* What a thread does once it is inside a call.
ThreadStep(t) ==
    \/ reconnect0(t) \/ Awake(t)
    \/ StartDone(t) \/ ReconnectDone(t) \/ Retry(t)
    \/ SendConn(t) \/ Accepted(t) \/ Refused(t) \/ SetRunning(t)
    \/ StopIo(t) \/ StopHeartbeat(t)

-----------------------------------------------------------------------------
(* The worker thread.                                                      *)

\* handle_resolve: async_connect first closes the socket, whatever it is used
\* for; on an error nothing happens.
HandleResolve ==
    /\ resolves > 0
    /\ ~ioStopped
    /\ resolves' = resolves - 1
    /\ \/ /\ sock' = "connecting"
          /\ Disconnect
          /\ UNCHANGED faults
       \/ /\ faults < MaxFaults
          /\ faults' = faults + 1
          /\ UNCHANGED <<sock, reading, peerVars>>
    /\ UNCHANGED <<status, threadVars, ready, ioStopped, hbVars, serverDown>>

\* handle_connect: RECOVERING over whatever the status is now, and the first
\* read, which may fail if a later attempt has taken the socket.  A connect whose
\* socket has been closed since is reported as aborted.
HandleConnect ==
    /\ ready > 0
    /\ ~ioStopped
    /\ ready' = ready - 1
    /\ IF sock = "closed"
       THEN UNCHANGED <<status, reading>>
       ELSE /\ status' = "RECOVERING"
            /\ reading' \in {sock = "connected", sock # "failed"}
    /\ UNCHANGED <<threadVars, resolves, sock, ioStopped, peerVars, hbVars, envVars>>

\* handle_read_pkg for any kind of reply resets the heartbeat first.
Reset ==
    /\ reading
    /\ ~ioStopped
    /\ stopCount' = 0
    /\ quiet' = 0

\* ... and gives a CONN_AUTH to the thread that waits for it, if it still does.
HandleAuth(t) ==
    /\ auth[t] \in {"yes", "no"}
    /\ Reset
    /\ auth' = [auth EXCEPT ![t] = "none"]
    /\ IF pc[t] = "waitAck"
       THEN /\ Goto(t, IF auth[t] = "yes" THEN "acked" ELSE "refused")
            /\ orderly' = IF auth[t] = "yes" THEN Settled /\ Alone(t) ELSE orderly
       ELSE UNCHANGED <<pc, orderly>>
    /\ UNCHANGED <<status, op, nretry, gaveUp, ioVars, accepted, beat, hb,
                   interrupted, envVars>>

\* ... and a heartbeat's reply to the heartbeat thread.
HandleBeat ==
    /\ beat = "answered"
    /\ Reset
    /\ beat' = "none"
    /\ hb' = IF hb = "sent" THEN "answered" ELSE hb
    /\ UNCHANGED <<status, threadVars, ioVars, accepted, auth, interrupted, envVars>>

\* ... and any other reply to a thread that is not modelled here.
HandleStoreAck ==
    /\ accepted
    /\ ~serverDown
    /\ sock = "connected"
    /\ Reset
    /\ UNCHANGED <<status, threadVars, ioVars, peerVars, hb, interrupted, envVars>>

-----------------------------------------------------------------------------
(* The heartbeat thread.                                                   *)

\* The status is RUNNING and nextHeartbeatTime has passed.
HbDue ==
    /\ hb = "loop"
    /\ status = "RUNNING"
    /\ hb' = "due"
    /\ UNCHANGED <<status, threadVars, ioVars, peerVars, stopCount, quiet, interrupted,
                   envVars>>

\* Writes the heartbeat and waits; an interruption asked for earlier is thrown
\* as the wait begins.
HbSend ==
    /\ hb = "due"
    /\ beat' = IF sock = "connected" THEN "asked" ELSE "none"
    /\ hb' = IF interrupted THEN "stopped" ELSE "sent"
    /\ UNCHANGED <<status, threadVars, ioVars, accepted, auth, stopCount, quiet,
                   interrupted, envVars>>

\* The reply echoes the version, or it does not and counts as missed.
HbAnswered ==
    /\ hb = "answered"
    /\ \/ hb' = "loop" /\ stopCount' = 0
       \/ hb' = "missed" /\ UNCHANGED stopCount
    /\ UNCHANGED <<status, threadVars, ioVars, peerVars, quiet, interrupted, envVars>>

\* The wait runs out after a second.
HbTimeOut ==
    /\ hb = "sent"
    /\ hb' = "missed"
    /\ quiet' = UpTo(quiet + 1, DeadAfter)
    /\ UNCHANGED <<status, threadVars, ioVars, peerVars, stopCount, interrupted, envVars>>

\* stopCount.inc()
HbMissed ==
    /\ hb = "missed"
    /\ hb' = "loop"
    /\ stopCount' = UpTo(stopCount + 1, DeadAfter)
    /\ UNCHANGED <<status, threadVars, ioVars, peerVars, quiet, interrupted, envVars>>

\* thread_interrupted ends the thread; sleep and usleep do not throw it.
HbInterrupted ==
    /\ hb = "sent"
    /\ interrupted
    /\ hb' = "stopped"
    /\ UNCHANGED <<status, threadVars, ioVars, peerVars, stopCount, quiet, interrupted,
                   envVars>>

HbStep == HbSend \/ HbAnswered \/ HbTimeOut \/ HbMissed \/ HbInterrupted

-----------------------------------------------------------------------------
(* The network and the server.                                             *)

ConnectSucceeds ==
    /\ sock = "connecting"
    /\ ~serverDown
    /\ ready < MaxQueued
    /\ sock' = "connected"
    /\ ready' = ready + 1
    /\ UNCHANGED <<status, threadVars, resolves, reading, ioStopped, peerVars, hbVars,
                   envVars>>

\* handle_connect is called with an error and does nothing.
ConnectFails ==
    /\ sock = "connecting"
    /\ serverDown \/ faults < MaxFaults
    /\ sock' = "failed"
    /\ reading' = FALSE
    /\ faults' = IF serverDown THEN faults ELSE faults + 1
    /\ UNCHANGED <<status, threadVars, resolves, ready, ioStopped, peerVars, hbVars,
                   serverDown>>

\* The pending read ends with an error; handle_read_pkg tells nobody.
ConnectionBreaks ==
    /\ sock = "connected"
    /\ faults < MaxFaults
    /\ Reliable => status = "RUNNING" /\ \A t \in Threads : pc[t] = "idle"
    /\ sock' = "failed"
    /\ reading' = FALSE
    /\ auth' = NoAuth
    /\ beat' = "none"
    /\ faults' = faults + 1
    /\ UNCHANGED <<status, threadVars, resolves, ready, ioStopped, accepted, hbVars,
                   serverDown>>

ServerAuth(t) ==
    /\ auth[t] = "asked"
    /\ ~serverDown
    /\ \/ auth' = [auth EXCEPT ![t] = "yes"] /\ accepted' = TRUE
       \/ ~Reliable /\ auth' = [auth EXCEPT ![t] = "no"] /\ UNCHANGED accepted
    /\ UNCHANGED <<status, threadVars, ioVars, beat, hbVars, envVars>>

ServerBeat ==
    /\ beat = "asked"
    /\ ~serverDown
    /\ beat' = "answered"
    /\ UNCHANGED <<status, threadVars, ioVars, accepted, auth, hbVars, envVars>>

ServerStops ==
    /\ ~Reliable
    /\ ~serverDown
    /\ serverDown' = TRUE
    /\ UNCHANGED <<status, threadVars, ioVars, peerVars, hbVars, faults>>

Next ==
    \/ \E t \in Threads :
        \/ t \in Supervisors /\ (Start(t) \/ Handshake(t) \/ Reconnect(t))
        \/ CloseSocket(t) \/ ThreadStep(t)
        \/ HandleAuth(t)
        \/ ServerAuth(t)
    \/ HandleResolve \/ HandleConnect \/ HandleBeat \/ HandleStoreAck
    \/ HbDue \/ HbStep
    \/ ConnectSucceeds \/ ConnectFails \/ ConnectionBreaks
    \/ ServerBeat \/ ServerStops

-----------------------------------------------------------------------------
\* No reply can be handled any more on this socket.
Silent == serverDown \/ ioStopped \/ ~reading

\* The threads keep going; nothing is asked of the worker, the network or the server.
\* A heartbeat becomes due for certain only in silence: every reply to a call puts
\* it off.
Fairness ==
    /\ \A t \in Threads : WF_vars(ThreadStep(t))
    /\ WF_vars(HbStep)
    /\ WF_vars(Silent /\ HbDue)

\* What Recovers asks besides: the worker goes on, connects end, a reliable server
\* answers handshakes, and the caller acts on isDead, whatever else it calls.
RecoveryFairness ==
    /\ WF_vars(HandleResolve)
    /\ WF_vars(HandleConnect)
    /\ WF_vars(ConnectSucceeds \/ ConnectFails)
    /\ \A t \in Supervisors :
        /\ WF_vars(HandleAuth(t))
        /\ WF_vars(ServerAuth(t))
        /\ SF_vars(isDead /\ Reconnect(t))

Spec == Init /\ [][Next]_vars /\ Fairness

RecoverySpec == Spec /\ RecoveryFairness

-----------------------------------------------------------------------------
TypeOK ==
    /\ status \in States
    /\ pc \in [Threads -> PCs]
    /\ op \in [Threads -> Calls]
    /\ nretry \in [Threads -> 0..MaxRetry]
    /\ orderly \in BOOLEAN /\ gaveUp \in BOOLEAN
    /\ resolves \in 0..MaxQueued /\ ready \in 0..MaxQueued
    /\ sock \in {"closed", "connecting", "connected", "failed"}
    /\ reading \in BOOLEAN /\ ioStopped \in BOOLEAN /\ accepted \in BOOLEAN
    /\ auth \in [Threads -> {"none", "asked", "yes", "no"}]
    /\ beat \in {"none", "asked", "answered"}
    /\ hb \in {"off", "loop", "due", "sent", "answered", "missed", "stopped"}
    /\ stopCount \in 0..DeadAfter /\ quiet \in 0..DeadAfter
    /\ interrupted \in BOOLEAN /\ serverDown \in BOOLEAN
    /\ faults \in 0..MaxFaults

\* asioKiteIOClient.cpp:56, 74, 76, 346: a reply that is handled between the
\* timeout of a heartbeat and its inc() leaves the count one too high, and
\* never more: a connection is called dead only after at least DeadAfter - 1
\* heartbeats in a row without any reply, whatever the worker, the heartbeat
\* thread and reconnect() do to the count.
NoFalseDeath == stopCount <= quiet + 1

\* asioKiteIOClient.cpp:152, 168, 296, 323: whatever threads call, and however late
\* attempts end: if the server's consent was handled when no attempt was left over
\* and no other call under way, RUNNING means that the server has accepted the
\* handshake on the very socket in use, until calls overlap or close() is called.
RunningIsAccepted == status = "RUNNING" /\ orderly /\ sock # "closed" => accepted

\* asioKiteIOClient.cpp:141, 155, 158: whatever threads call, and however late
\* attempts end, a failed reconnect() that leaves no other call under way and the
\* status not RUNNING is final: only the application's own handshake() can make
\* the client RUNNING again, and no reconnect().
FailedReconnectIsFinal == [][gaveUp => status' # "RUNNING"]_vars

\* asioKiteIOClient.cpp:139-161: reconnect() returns, after its last attempt or
\* earlier, whatever the network and the worker do, and whatever the other threads
\* call meanwhile, close() included.
ReconnectEnds ==
    \A t \in Threads :
        (op[t] = "reconnect" /\ pc[t] # "idle") ~> (pc[t] = "idle")

\* asioKiteIOClient.cpp:59-88, 336-364: a RUNNING client that can read nothing any
\* more, because its server falls silent, its chain of reads has ended in an error
\* or a late attempt has taken its socket away, is seen to be dead, unless somebody
\* reconnects or closes it first.
DeadIsNoticed ==
    (Silent /\ status = "RUNNING" /\ hb # "off")
        ~> (isDead \/ status # "RUNNING" \/ interrupted)

\* asioKiteIOClient.cpp:59-88, 175-180: close(), while the client is RUNNING, ends its
\* heartbeat thread, which sees the interruption only while it waits for a reply;
\* unless another thread reconnects, after which it may never wait again.
CloseStopsHeartbeat ==
    (interrupted /\ status = "RUNNING") ~> (hb = "stopped" \/ status # "RUNNING")

\* asioKiteIOClient.cpp:59-88, 139-161: with fewer faults than attempts, a client
\* whose connection breaks is RUNNING again on a new, accepted one.
Recovers ==
    (status = "RUNNING" /\ sock = "failed" /\ hb # "off")
        ~> (status = "RUNNING" /\ sock = "connected" /\ accepted)
=============================================================================
