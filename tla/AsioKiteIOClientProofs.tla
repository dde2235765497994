----------------------- MODULE AsioKiteIOClientProofs -----------------------
(***************************************************************************)
(* Proofs about AsioKiteIOClient, for any number of threads that call      *)
(* anything at any moment, attempts that end at any time, and any bounds.  *)
(***************************************************************************)
EXTENDS AsioKiteIOClient, TLAPS

\* A further attempt begins only below the limit.
Counting == \A t \in Threads : pc[t] = "attempt" => nretry[t] < MaxRetry

TypeInv == TypeOK /\ Counting

\* A saturating increment stays within its bound.
LEMMA UpToType ==
    ASSUME NEW bound \in Nat, NEW n \in 0..bound
    PROVE  UpTo(n + 1, bound) \in 0..bound
  BY DEF UpTo

\* Every step keeps the types and the count of the attempts.
LEMMA TypeStep == TypeInv /\ [Next]_vars => TypeInv'
  <1> SUFFICES ASSUME TypeInv, [Next]_vars
               PROVE  TypeInv'
    OBVIOUS
  <1> USE ConstantsAssumption
      DEF TypeInv, Counting, TypeOK, Goto, NoAuth, PCs, States, threadVars, ioVars,
          peerVars, hbVars, envVars, Calls
  <1>a. ASSUME NEW t \in Threads, Return(t)
        PROVE  /\ pc' \in [Threads -> PCs] /\ pc' = [pc EXCEPT ![t] = "idle"]
               /\ op' \in [Threads -> Calls] /\ nretry' \in [Threads -> 0..MaxRetry]
               /\ \A u \in Threads : u # t => nretry'[u] = nretry[u]
    BY <1>a DEF Return, Calls
  <1>1. ASSUME NEW t \in Threads, Start(t)
        PROVE  TypeInv'
    <2>1. orderly' \in BOOLEAN
      BY <1>1 DEF Start, Begin
    <2> QED
      BY <1>1, <2>1 DEF Start, Begin
  <1>2. ASSUME NEW t \in Threads, Reconnect(t)
        PROVE  TypeInv'
    <2>1. orderly' \in BOOLEAN
      BY <1>2 DEF Reconnect, Begin
    <2> QED
      BY <1>2, <2>1 DEF Reconnect, Begin
  <1>3. ASSUME NEW t \in Threads, Handshake(t)
        PROVE  TypeInv'
    <2>1. orderly' \in BOOLEAN /\ gaveUp' \in BOOLEAN
      BY <1>3 DEF Handshake, Begin
    <2>2. /\ op' = [op EXCEPT ![t] = "handshake"]
          /\ nretry' = [nretry EXCEPT ![t] = 0]
          /\ Goto(t, "handshake")
          /\ UNCHANGED <<status, ioVars, peerVars, hbVars, envVars>>
      BY <1>3 DEF Handshake, Begin
    <2> QED
      BY <2>1, <2>2
  <1>4. ASSUME NEW t \in Threads, CloseSocket(t)
        PROVE  TypeInv'
    BY <1>4 DEF CloseSocket, Disconnect
  <1>5. ASSUME NEW t \in Threads, reconnect0(t)
        PROVE  TypeInv'
    BY <1>5, UpToType DEF reconnect0
  <1>6. ASSUME NEW t \in Threads, Awake(t)
        PROVE  TypeInv'
    BY <1>6 DEF Awake
  <1>7. ASSUME NEW t \in Threads, StartDone(t)
        PROVE  TypeInv'
    BY <1>7, <1>a DEF StartDone
  <1>8. ASSUME NEW t \in Threads, ReconnectDone(t)
        PROVE  TypeInv'
    BY <1>8 DEF ReconnectDone
  <1>9. ASSUME NEW t \in Threads, Retry(t)
        PROVE  TypeInv'
    <2>1. /\ gaveUp' \in BOOLEAN
          /\ UNCHANGED <<status, orderly, ioVars, peerVars, hbVars, envVars>>
      BY <1>9 DEF Retry, Failed
    <2>2. CASE Return(t)
      BY <2>1, <2>2, <1>a
    <2>3. CASE /\ ~(nretry[t] >= MaxRetry) /\ Goto(t, "attempt")
               /\ UNCHANGED <<op, nretry>>
      BY <2>1, <2>3
    <2> QED
      BY <1>9, <2>2, <2>3 DEF Retry, Failed
  <1>10. ASSUME NEW t \in Threads, SendConn(t)
        PROVE  TypeInv'
    BY <1>10 DEF SendConn
  <1>11. ASSUME NEW t \in Threads, Accepted(t)
        PROVE  TypeInv'
    BY <1>11, <1>a DEF Accepted
  <1>12. ASSUME NEW t \in Threads, Refused(t)
        PROVE  TypeInv'
    <2>1. gaveUp' \in BOOLEAN
      BY <1>12 DEF Refused, Failed
    <2> QED
      BY <1>12, <2>1, <1>a DEF Refused, Failed
  <1>13. ASSUME NEW t \in Threads, SetRunning(t)
        PROVE  TypeInv'
    BY <1>13, <1>a DEF SetRunning
  <1>14. ASSUME NEW t \in Threads, StopIo(t)
        PROVE  TypeInv'
    BY <1>14 DEF StopIo
  <1>15. ASSUME NEW t \in Threads, StopHeartbeat(t)
        PROVE  TypeInv'
    <2>1. interrupted' \in BOOLEAN
      BY <1>15 DEF StopHeartbeat
    <2> QED
      BY <1>15, <2>1, <1>a DEF StopHeartbeat
  <1>16. ASSUME NEW t \in Threads, HandleAuth(t)
        PROVE  TypeInv'
    <2>1. orderly' \in BOOLEAN
      BY <1>16 DEF HandleAuth
    <2> QED
      BY <1>16, <2>1 DEF HandleAuth, Reset
  <1>17. ASSUME NEW t \in Threads, ServerAuth(t)
        PROVE  TypeInv'
    <2>1. /\ \E a \in {"yes", "no"} : auth' = [auth EXCEPT ![t] = a]
          /\ UNCHANGED <<status, threadVars, ioVars, beat, hbVars, envVars>>
      BY <1>17 DEF ServerAuth
    <2>2. accepted' \in BOOLEAN
      BY <1>17 DEF ServerAuth
    <2> QED
      BY <2>1, <2>2
  <1>18. CASE HandleResolve
    <2>1. /\ resolves > 0 /\ resolves' = resolves - 1
          /\ UNCHANGED <<status, threadVars, ready, ioStopped, hbVars, serverDown>>
      BY <1>18 DEF HandleResolve
    <2>2. CASE sock' = "connecting" /\ Disconnect /\ UNCHANGED faults
      <3>1. /\ reading' \in BOOLEAN /\ accepted' \in BOOLEAN
            /\ auth' = NoAuth /\ beat' = "none"
        BY <2>2 DEF Disconnect
      <3> QED
        BY <2>1, <2>2, <3>1
    <2>3. CASE /\ faults < MaxFaults /\ faults' = faults + 1
               /\ UNCHANGED <<sock, reading, peerVars>>
      BY <2>1, <2>3
    <2> QED
      BY <1>18, <2>2, <2>3 DEF HandleResolve
  <1>19. CASE HandleConnect
    <2>1. /\ ready > 0 /\ ready' = ready - 1
          /\ status' \in {status, "RECOVERING"}
          /\ UNCHANGED <<threadVars, resolves, sock, ioStopped, peerVars, hbVars, envVars>>
      BY <1>19 DEF HandleConnect
    <2>2. reading' \in BOOLEAN
      BY <1>19 DEF HandleConnect
    <2> QED
      BY <2>1, <2>2
  <1>20. CASE HandleBeat
    BY <1>20 DEF HandleBeat, Reset
  <1>21. CASE HandleStoreAck
    BY <1>21 DEF HandleStoreAck, Reset
  <1>22. CASE HbDue
    BY <1>22 DEF HbDue
  <1>23. CASE HbSend
    BY <1>23 DEF HbSend
  <1>24. CASE HbAnswered
    BY <1>24 DEF HbAnswered
  <1>25. CASE HbTimeOut
    BY <1>25 DEF HbTimeOut, UpTo
  <1>26. CASE HbMissed
    BY <1>26 DEF HbMissed, UpTo
  <1>27. CASE HbInterrupted
    BY <1>27 DEF HbInterrupted
  <1>28. CASE ConnectSucceeds
    BY <1>28 DEF ConnectSucceeds
  <1>29. CASE ConnectFails
    <2>1. /\ faults' \in {faults, faults + 1}
          /\ faults' # faults => faults < MaxFaults
      BY <1>29 DEF ConnectFails
    <2>2. /\ sock' = "failed" /\ reading' \in BOOLEAN
          /\ UNCHANGED <<status, threadVars, resolves, ready, ioStopped, peerVars, hbVars,
                         serverDown>>
      BY <1>29 DEF ConnectFails
    <2> QED
      BY <2>1, <2>2
  <1>30. CASE ConnectionBreaks
    <2>1. /\ faults < MaxFaults /\ faults' = faults + 1
          /\ sock' = "failed" /\ reading' \in BOOLEAN /\ auth' = NoAuth /\ beat' = "none"
          /\ UNCHANGED <<status, threadVars, resolves, ready, ioStopped, accepted, hbVars,
                         serverDown>>
      BY <1>30 DEF ConnectionBreaks
    <2> QED
      BY <2>1
  <1>31. CASE ServerBeat
    BY <1>31 DEF ServerBeat
  <1>32. CASE ServerStops
    BY <1>32 DEF ServerStops
  <1>33. CASE UNCHANGED vars
    BY <1>33 DEF vars
  <1> QED
    BY <1>1, <1>2, <1>3, <1>4, <1>5, <1>6, <1>7, <1>8, <1>9, <1>10, <1>11, <1>12, <1>13,
       <1>14, <1>15, <1>16, <1>17, <1>18, <1>19, <1>20, <1>21, <1>22, <1>23, <1>24,
       <1>25, <1>26, <1>27, <1>28, <1>29, <1>30, <1>31, <1>32, <1>33
       DEF Next, ThreadStep, HbStep

-----------------------------------------------------------------------------
\* The invariant behind NoFalseDeath: the count may run ahead of the silence by
\* one, but not while the heartbeat thread is about to count a miss.
Margin ==
    /\ stopCount <= quiet + 1
    /\ hb = "missed" => stopCount <= quiet
    /\ hb = "answered" => stopCount = 0

\* The worker's resets, reconnect()'s reset and the heartbeat thread's inc()
\* keep the margin in any order.
LEMMA MarginStep == TypeInv /\ Margin /\ [Next]_vars => Margin'
  <1> SUFFICES ASSUME TypeInv, Margin, [Next]_vars
               PROVE  Margin'
    OBVIOUS
  <1>1. /\ stopCount \in Nat /\ quiet \in Nat /\ DeadAfter \in Nat
        /\ stopCount <= DeadAfter /\ quiet <= DeadAfter
    BY ConstantsAssumption DEF TypeInv, TypeOK
  <1>2. CASE UNCHANGED <<hb, stopCount, quiet>>
    BY <1>2 DEF Margin
  <1>3. CASE /\ stopCount' = 0 /\ quiet' = 0
    BY <1>3 DEF Margin
  <1>4. CASE /\ stopCount' = 0 /\ quiet' = quiet
    BY <1>1, <1>4 DEF Margin
  <1>5. CASE hb' \in {"loop", "due", "sent", "stopped"} /\ UNCHANGED <<stopCount, quiet>>
    BY <1>5 DEF Margin
  <1>6. CASE HbTimeOut
    BY <1>1, <1>6 DEF HbTimeOut, UpTo, Margin
  <1>7. CASE HbMissed
    BY <1>1, <1>7 DEF HbMissed, UpTo, Margin
  <1>8. CASE HbAnswered
    <2>1. hb = "answered" /\ hb' \in {"loop", "missed"} /\ quiet' = quiet
      BY <1>8 DEF HbAnswered
    <2>2. stopCount = 0 /\ stopCount' = 0
      BY <1>8, <2>1 DEF HbAnswered, Margin
    <2> QED
      BY <1>1, <2>1, <2>2 DEF Margin
  <1>9. ASSUME NEW t \in Threads, StartDone(t)
        PROVE  Margin'
    BY <1>5, <1>9 DEF StartDone
  <1>10. ASSUME NEW t \in Threads, ReconnectDone(t)
         PROVE  Margin'
    BY <1>4, <1>10 DEF ReconnectDone
  <1>11. ASSUME NEW t \in Threads, HandleAuth(t)
         PROVE  Margin'
    BY <1>3, <1>11 DEF HandleAuth, Reset
  <1>12. CASE HandleBeat
    BY <1>3, <1>12 DEF HandleBeat, Reset
  <1>13. CASE HandleStoreAck
    BY <1>3, <1>13 DEF HandleStoreAck, Reset
  <1>14. CASE HbDue \/ HbSend \/ HbInterrupted
    <2>1. hb' \in {"due", "sent", "stopped"} /\ UNCHANGED <<stopCount, quiet>>
      BY <1>14 DEF HbDue, HbSend, HbInterrupted
    <2> QED
      BY <1>5, <2>1
  <1> QED
    BY <1>2, <1>6, <1>7, <1>8, <1>9, <1>10, <1>11, <1>12, <1>13, <1>14
       DEF Next, ThreadStep, HbStep, vars, hbVars, Start, Handshake, Reconnect,
           CloseSocket, reconnect0, Awake, Retry, SendConn, Accepted, Refused,
           SetRunning, StopIo, StopHeartbeat, ServerAuth, HandleResolve, HandleConnect,
           ConnectSucceeds, ConnectFails, ConnectionBreaks, ServerBeat, ServerStops

\* A client that has just been constructed has the types.
LEMMA InitType == Init => TypeInv
  <1> SUFFICES ASSUME Init
               PROVE  TypeInv
    OBVIOUS
  <1>1. /\ orderly \in BOOLEAN /\ gaveUp \in BOOLEAN /\ reading \in BOOLEAN
        /\ ioStopped \in BOOLEAN /\ accepted \in BOOLEAN /\ interrupted \in BOOLEAN
        /\ serverDown \in BOOLEAN
    BY DEF Init
  <1>2. /\ pc = [t \in Threads |-> "idle"]
        /\ op = [t \in Threads |-> "none"]
        /\ nretry = [t \in Threads |-> 0]
        /\ auth = [t \in Threads |-> "none"]
        /\ status = "NONE" /\ sock = "closed" /\ beat = "none" /\ hb = "off"
        /\ resolves = 0 /\ ready = 0 /\ stopCount = 0 /\ quiet = 0 /\ faults = 0
    BY DEF Init, NoAuth
  <1> QED
    BY <1>1, <1>2, ConstantsAssumption DEF TypeInv, TypeOK, Counting, PCs, States, Calls

\* Type correctness, in particular: no retry loop exceeds its attempts
\* (asioKiteIOClient.cpp:131, 158).
THEOREM TypeCorrect == Spec => []TypeOK
  <1> QED
    BY InitType, TypeStep, PTL DEF Spec, TypeInv

\* asioKiteIOClient.cpp:54-84, 346: isDead() needs at least DeadAfter - 1
\* heartbeats in a row that no reply of any kind came after.
THEOREM DeathHasAMargin == Spec => []NoFalseDeath
  <1>1. Init => TypeInv /\ Margin
    BY InitType DEF Init, Margin
  <1>2. TypeInv /\ Margin => NoFalseDeath
    BY DEF Margin, NoFalseDeath
  <1> QED
    BY <1>1, <1>2, TypeStep, MarginStep, PTL DEF Spec

-----------------------------------------------------------------------------
\* Places from which a socket may be replaced, and places with the server's
\* consent in hand.
Looping == {"attempt", "sleep", "test"}

Consented == {"acked", "setRunning"}

\* The socket in use, and no attempt is left that could replace it.
Safe == Settled /\ (accepted \/ sock = "closed")

\* While nothing is out of order, the calls are one at a time, a call has the
\* consent in hand only on a socket that stays, and a client that is RUNNING has
\* no retry loop under way that could take its socket away.
OrderInv ==
    /\ \A t \in Threads : auth[t] = "yes" => accepted
    /\ orderly =>
        /\ \A t, u \in Threads : pc[t] \in InCall /\ pc[u] \in InCall => t = u
        /\ \A t \in Threads : pc[t] \in Consented => Safe
        /\ status = "RUNNING" => Safe /\ \A t \in Threads : pc[t] \notin Looping

\* Every step keeps that order.
LEMMA OrderStep ==
    ASSUME TypeInv, OrderInv, [Next]_vars
    PROVE  OrderInv'
  <1> USE DEF OrderInv, Looping, Consented, Safe, Settled, InCall, PCs, Goto, NoAuth,
              threadVars, ioVars, peerVars, envVars
  <1>0. /\ pc \in [Threads -> PCs] /\ auth \in [Threads -> {"none", "asked", "yes", "no"}]
        /\ resolves \in Nat /\ ready \in Nat
    BY ConstantsAssumption DEF TypeInv, TypeOK
  <1>1. ASSUME NEW t \in Threads, Start(t)
        PROVE  OrderInv'
    <2>1. /\ orderly' => orderly /\ \A u \in Threads \ {t} : pc[u] \notin InCall
          /\ pc' = [pc EXCEPT ![t] = "attempt"] /\ pc[t] = "idle" /\ status' = "PREPARE"
          /\ UNCHANGED <<resolves, ready, sock, accepted, auth>>
      BY <1>1 DEF Start, Begin, Alone
    <2> QED
      BY <1>0, <2>1
  <1>2. ASSUME NEW t \in Threads, Reconnect(t)
        PROVE  OrderInv'
    <2>1. /\ orderly' => orderly /\ \A u \in Threads \ {t} : pc[u] \notin InCall
          /\ pc' = [pc EXCEPT ![t] = "attempt"] /\ pc[t] = "idle" /\ status' = "RECONNECTING"
          /\ UNCHANGED <<resolves, ready, sock, accepted, auth>>
      BY <1>2 DEF Reconnect, Begin, Alone
    <2> QED
      BY <1>0, <2>1
  <1>3. ASSUME NEW t \in Threads, Handshake(t)
        PROVE  OrderInv'
    BY <1>0, <1>3 DEF Handshake, Begin, Alone
  <1>4. ASSUME NEW t \in Threads, CloseSocket(t)
        PROVE  OrderInv'
    BY <1>0, <1>4 DEF CloseSocket, Disconnect
  <1>5. ASSUME NEW t \in Threads, reconnect0(t)
        PROVE  OrderInv'
    BY <1>0, <1>5 DEF reconnect0
  <1>6. ASSUME NEW t \in Threads, Awake(t)
        PROVE  OrderInv'
    BY <1>0, <1>6 DEF Awake
  <1>7. ASSUME NEW t \in Threads, StartDone(t)
        PROVE  OrderInv'
    BY <1>0, <1>7 DEF StartDone, Return
  <1>8. ASSUME NEW t \in Threads, ReconnectDone(t)
        PROVE  OrderInv'
    BY <1>0, <1>8 DEF ReconnectDone
  <1>9. ASSUME NEW t \in Threads, Retry(t)
        PROVE  OrderInv'
    BY <1>0, <1>9 DEF Retry, Failed, Return
  <1>10. ASSUME NEW t \in Threads, SendConn(t)
        PROVE  OrderInv'
    BY <1>0, <1>10 DEF SendConn
  <1>11. ASSUME NEW t \in Threads, Accepted(t)
        PROVE  OrderInv'
    BY <1>0, <1>11 DEF Accepted, Return
  <1>12. ASSUME NEW t \in Threads, Refused(t)
        PROVE  OrderInv'
    BY <1>0, <1>12 DEF Refused, Failed, Return
  <1>13. ASSUME NEW t \in Threads, SetRunning(t)
        PROVE  OrderInv'
    BY <1>0, <1>13 DEF SetRunning, Return
  <1>14. ASSUME NEW t \in Threads, StopIo(t)
        PROVE  OrderInv'
    BY <1>0, <1>14 DEF StopIo
  <1>15. ASSUME NEW t \in Threads, StopHeartbeat(t)
        PROVE  OrderInv'
    BY <1>0, <1>15 DEF StopHeartbeat, Return
  <1>16. ASSUME NEW t \in Threads, HandleAuth(t)
        PROVE  OrderInv'
    <2>1. CASE pc[t] = "waitAck" /\ auth[t] = "yes"
      <3>1. /\ orderly' => Settled /\ \A u \in Threads \ {t} : pc[u] \notin InCall
            /\ pc' = [pc EXCEPT ![t] = "acked"] /\ auth' = [auth EXCEPT ![t] = "none"]
            /\ accepted
            /\ UNCHANGED <<status, resolves, ready, sock, accepted>>
        BY <1>16, <2>1 DEF HandleAuth, Alone
      <3> QED
        BY <1>0, <3>1
    <2>2. CASE pc[t] = "waitAck" /\ auth[t] = "no"
      BY <1>0, <1>16, <2>2 DEF HandleAuth
    <2>3. CASE pc[t] # "waitAck"
      BY <1>0, <1>16, <2>3 DEF HandleAuth
    <2> QED
      BY <1>16, <2>1, <2>2, <2>3 DEF HandleAuth
  <1>17. ASSUME NEW t \in Threads, ServerAuth(t)
        PROVE  OrderInv'
    BY <1>0, <1>17 DEF ServerAuth
  <1>18. CASE HandleResolve
    BY <1>0, <1>18 DEF HandleResolve, Disconnect
  <1>19. CASE HandleConnect
    BY <1>0, <1>19 DEF HandleConnect
  <1>20. CASE ConnectSucceeds
    BY <1>0, <1>20 DEF ConnectSucceeds
  <1>21. CASE ConnectFails
    BY <1>0, <1>21 DEF ConnectFails
  <1>22. CASE ConnectionBreaks
    BY <1>0, <1>22 DEF ConnectionBreaks
  <1>23. CASE UNCHANGED <<status, pc, orderly, resolves, ready, sock, accepted, auth>>
    BY <1>23
  <1>24. CASE \/ HandleBeat \/ HandleStoreAck \/ HbDue \/ HbSend \/ HbAnswered
             \/ HbTimeOut \/ HbMissed \/ HbInterrupted \/ ServerBeat \/ ServerStops
    BY <1>23, <1>24 DEF HandleBeat, HandleStoreAck, HbDue, HbSend, HbAnswered,
       HbTimeOut, HbMissed, HbInterrupted, ServerBeat, ServerStops
  <1>25. CASE UNCHANGED vars
    BY <1>23, <1>25 DEF vars
  <1> QED
    BY <1>1, <1>2, <1>3, <1>4, <1>5, <1>6, <1>7, <1>8, <1>9, <1>10, <1>11, <1>12, <1>13,
       <1>14, <1>15, <1>16, <1>17, <1>18, <1>19, <1>20, <1>21, <1>22, <1>24, <1>25
       DEF Next, ThreadStep, HbStep

\* asioKiteIOClient.cpp:152, 168, 296, 323: for any threads, and however late the
\* attempts: the status is RUNNING only on a socket on which the server accepted
\* the handshake, from a consent handled when nothing else was under way until
\* calls overlap or close() is called.
THEOREM RunningMeansAccepted == Spec => []RunningIsAccepted
  <1>1. Init => OrderInv
    BY DEF Init, OrderInv, InCall, PCs, Consented, NoAuth
  <1>2. OrderInv => RunningIsAccepted
    BY DEF OrderInv, Safe, RunningIsAccepted
  <1> QED
    BY <1>1, <1>2, InitType, TypeStep, OrderStep, PTL DEF Spec

-----------------------------------------------------------------------------
\* A reconnect() begins only on a client that has been started; a client on which
\* one has failed, with nothing else under way, has no call under way since.
FinalInv ==
    /\ \A t \in Threads : op[t] = "reconnect" => status # "NONE"
    /\ gaveUp => /\ status \notin {"NONE", "RUNNING"}
                 /\ \A t \in Threads : pc[t] \notin InCall

\* No step but handshake() gets out of that.
LEMMA FinalStep ==
    ASSUME TypeInv, FinalInv, [Next]_vars
    PROVE  FinalInv'
  <1> USE DEF FinalInv, InCall, PCs, Goto, threadVars
  <1>0. /\ pc \in [Threads -> PCs] /\ op \in [Threads -> Calls]
    BY DEF TypeInv, TypeOK
  <1>1. ASSUME NEW t \in Threads, Start(t)
        PROVE  FinalInv'
    BY <1>0, <1>1 DEF Start, Begin
  <1>2. ASSUME NEW t \in Threads, Reconnect(t)
        PROVE  FinalInv'
    BY <1>0, <1>2 DEF Reconnect, Begin
  <1>3. ASSUME NEW t \in Threads, Handshake(t)
        PROVE  FinalInv'
    BY <1>0, <1>3 DEF Handshake, Begin
  <1>4. ASSUME NEW t \in Threads, CloseSocket(t)
        PROVE  FinalInv'
    BY <1>0, <1>4 DEF CloseSocket
  <1>5. ASSUME NEW t \in Threads, reconnect0(t) \/ Awake(t) \/ ReconnectDone(t) \/ SendConn(t)
        PROVE  FinalInv'
    BY <1>0, <1>5 DEF reconnect0, Awake, ReconnectDone, SendConn
  <1>6. ASSUME NEW t \in Threads, StartDone(t)
        PROVE  FinalInv'
    BY <1>0, <1>6 DEF StartDone, Return
  <1>7. ASSUME NEW t \in Threads, Failed(t), UNCHANGED status, pc[t] \in InCall
        PROVE  FinalInv'
    BY <1>0, <1>7 DEF Failed, Return, Alone
  <1>8. ASSUME NEW t \in Threads, Retry(t)
        PROVE  FinalInv'
    <2>1. CASE Failed(t)
      BY <1>7, <1>8, <2>1 DEF Retry
    <2>2. CASE Goto(t, "attempt") /\ UNCHANGED <<op, nretry, gaveUp>>
      BY <1>0, <1>8, <2>2 DEF Retry
    <2> QED
      BY <1>8, <2>1, <2>2 DEF Retry
  <1>9. ASSUME NEW t \in Threads, Refused(t)
        PROVE  FinalInv'
    BY <1>7, <1>9 DEF Refused
  <1>10. ASSUME NEW t \in Threads, Accepted(t)
        PROVE  FinalInv'
    BY <1>0, <1>10 DEF Accepted, Return
  <1>11. ASSUME NEW t \in Threads, SetRunning(t)
        PROVE  FinalInv'
    BY <1>0, <1>11 DEF SetRunning, Return
  <1>12. ASSUME NEW t \in Threads, StopIo(t)
        PROVE  FinalInv'
    BY <1>0, <1>12 DEF StopIo
  <1>13. ASSUME NEW t \in Threads, StopHeartbeat(t)
        PROVE  FinalInv'
    BY <1>0, <1>13 DEF StopHeartbeat, Return
  <1>14. ASSUME NEW t \in Threads, HandleAuth(t)
        PROVE  FinalInv'
    <2>1. /\ UNCHANGED <<status, op, gaveUp>>
          /\ \A u \in Threads : pc'[u] # pc[u] => pc[u] = "waitAck"
      BY <1>0, <1>14 DEF HandleAuth
    <2> QED
      BY <1>0, <2>1
  <1>15. CASE HandleConnect
    BY <1>0, <1>15 DEF HandleConnect
  <1>16. CASE UNCHANGED <<status, threadVars>>
    BY <1>16
  <1> QED
    BY <1>1, <1>2, <1>3, <1>4, <1>5, <1>6, <1>8, <1>9, <1>10, <1>11, <1>12, <1>13, <1>14,
       <1>15, <1>16
       DEF Next, ThreadStep, HbStep, vars, ServerAuth, HandleResolve, HandleBeat,
           HandleStoreAck, HbDue, HbSend, HbAnswered, HbTimeOut, HbMissed, HbInterrupted,
           ConnectSucceeds, ConnectFails, ConnectionBreaks, ServerBeat, ServerStops

\* Nothing but the application's handshake() takes a failed reconnect() back.
LEMMA GaveUpStays ==
    ASSUME TypeInv, FinalInv, gaveUp, [Next]_vars
    PROVE  status' # "RUNNING"
  <1>1. CASE UNCHANGED status
    BY <1>1 DEF FinalInv
  <1>2. ASSUME NEW t \in Threads, Start(t) \/ Reconnect(t)
        PROVE  status' # "RUNNING"
    BY <1>2 DEF Start, Reconnect
  <1>3. ASSUME NEW t \in Threads, Accepted(t) \/ SetRunning(t)
        PROVE  FALSE
    BY <1>3 DEF Accepted, SetRunning, FinalInv, InCall, PCs
  <1>4. CASE HandleConnect
    BY <1>4 DEF HandleConnect, FinalInv
  <1> QED
    BY <1>1, <1>2, <1>3, <1>4
       DEF Next, ThreadStep, HbStep, vars, Handshake, CloseSocket, reconnect0, Awake,
           StartDone, ReconnectDone, Retry, SendConn, Refused, StopIo, StopHeartbeat,
           HandleAuth, ServerAuth, HandleResolve, HandleBeat, HandleStoreAck, HbDue, HbSend,
           HbAnswered, HbTimeOut, HbMissed, HbInterrupted, ConnectSucceeds, ConnectFails,
           ConnectionBreaks, ServerBeat, ServerStops

\* asioKiteIOClient.cpp:141, 156, 160: for any threads, and however late the
\* attempts: after a reconnect() that has failed with nothing else under way, the
\* client is not RUNNING again unless the application calls handshake().
THEOREM ReconnectFailsOnce == Spec => FailedReconnectIsFinal
  <1>1. Init => FinalInv
    BY DEF Init, FinalInv
  <1>2. TypeInv /\ FinalInv /\ [Next]_vars => [gaveUp => status' # "RUNNING"]_vars
    BY GaveUpStays
  <1>3. TypeInv /\ FinalInv /\ [Next]_vars => FinalInv'
    BY FinalStep
  <1> QED
    BY <1>1, <1>2, <1>3, InitType, TypeStep, PTL DEF Spec, FailedReconnectIsFinal
=============================================================================
