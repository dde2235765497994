------------------------ MODULE ResponseFutureProofs ------------------------
(***************************************************************************)
(* Proofs about ResponseFuture for any number of calls and ids.            *)
(*                                                                         *)
(* The inductive invariant IInv adds to the properties what the code keeps *)
(* up without saying so: a call has an id once it is constructed, a reply  *)
(* exists only for a request that was written, a promise is satisfied only *)
(* after its future was registered and only with a reply of the server,    *)
(* and, while ids do not repeat, no two calls have the same id.            *)
(***************************************************************************)
EXTENDS ResponseFuture, TLAPS

IdDrawn == \A c \in Calls : pc[c] = "new" <=> requestId[c] = NoId

RepliedWritten == \A c \in replied : Written(c)

ValueSound ==
    \A c \in Calls :
        value[c] # NoCall => pc[c] \notin {"new", "built"} /\ value[c] \in replied

ResultSound == \A c \in Calls : result[c] # NoCall => pc[c] = "done"

UniqueIds ==
    ~IdsRepeat =>
        \A c, d \in Calls :
            requestId[c] = requestId[d] /\ requestId[c] # NoId => c = d

IInv ==
    /\ TypeOK
    /\ IdDrawn
    /\ RepliedWritten
    /\ ValueSound
    /\ ResultSound
    /\ UniqueIds
    /\ EntrySound
    /\ OwnReply
    /\ Reachable

-----------------------------------------------------------------------------
\* The lookup of a reply either drops it or moves it from the map into the
\* promise of the one future registered under its id.
LEMMA ReceiveCases ==
    ASSUME NEW r \in Calls, receiveResponse(r), futureMap[requestId[r]] # NoCall
    PROVE  /\ futureMap' = [futureMap EXCEPT ![requestId[r]] = NoCall]
           /\ value' = [value EXCEPT ![futureMap[requestId[r]]] = r]
  BY DEF receiveResponse

\* receiveResponse (ResponseFuture.cpp:38-50) keeps the invariant whichever
\* answered request the packet in hand belongs to, fresh or handled before.
LEMMA ReceiveKeeps ==
    ASSUME IInv, NEW r \in replied, receiveResponse(r),
           UNCHANGED <<pc, requestId, result, replied>>,
           inFlight' \subseteq replied, readPkg' \in replied \cup {NoCall}
    PROVE  IInv'
  <1> DEFINE i == requestId[r]
             f == futureMap[i]
  <1>1. r \in Calls /\ i \in Ids /\ i # NoId /\ f \in Calls \cup {NoCall}
    BY ConstantsAssumption DEF IInv, TypeOK, IdDrawn, RepliedWritten, Written
  <1>2. CASE f = NoCall
    <2>1. UNCHANGED <<futureMap, value>>
      BY <1>2 DEF receiveResponse
    <2> QED
      BY <2>1 DEF IInv, TypeOK, IdDrawn, RepliedWritten, Written, ValueSound,
                  ResultSound, UniqueIds, EntrySound, OwnReply, Reachable
  <1>3. CASE f # NoCall
    <2>1. /\ futureMap' = [futureMap EXCEPT ![i] = NoCall]
          /\ value' = [value EXCEPT ![f] = r]
      BY <1>1, <1>3, ReceiveCases
    <2>2. /\ f \in Calls
          /\ requestId[f] = i
          /\ pc[f] \in {"used", "waiting", "expired", "interrupted"}
          /\ value[f] = NoCall
      BY <1>1, <1>3 DEF IInv, EntrySound
    <2>3. TypeOK'
      BY <1>1, <2>1, <2>2 DEF IInv, TypeOK
    <2>4. IdDrawn' /\ RepliedWritten' /\ ResultSound' /\ UniqueIds'
      BY DEF IInv, IdDrawn, RepliedWritten, Written, ResultSound, UniqueIds
    <2>5. ValueSound'
      BY <2>1, <2>2 DEF IInv, TypeOK, ValueSound
    <2>6. EntrySound'
      BY <1>1, <2>1, <2>2, ConstantsAssumption DEF IInv, TypeOK, EntrySound
    <2>7. OwnReply'
      BY <1>1, <2>1, <2>2 DEF IInv, TypeOK, UniqueIds, OwnReply
    <2>8. Reachable'
      BY <1>1, <2>1, <2>2, ConstantsAssumption
         DEF IInv, TypeOK, IdDrawn, UniqueIds, EntrySound, Reachable
    <2> QED
      BY <2>3, <2>4, <2>5, <2>6, <2>7, <2>8 DEF IInv
  <1> QED
    BY <1>2, <1>3

-----------------------------------------------------------------------------
\* The invariant holds before any call and every step of every thread, of the
\* server and of the connection keeps it.
LEMMA InitInv == Init => IInv
  BY ConstantsAssumption
     DEF Init, IInv, TypeOK, PCs, IdDrawn, RepliedWritten, ValueSound, ResultSound,
         UniqueIds, EntrySound, OwnReply, Reachable

LEMMA NextInv == IInv /\ [Next]_vars => IInv'
  <1> SUFFICES ASSUME IInv, [Next]_vars
               PROVE  IInv'
    OBVIOUS
  <1> USE ConstantsAssumption
  <1>1. ASSUME NEW c \in Calls, Construct(c)
        PROVE  IInv'
    <2>1. PICK i \in Ids : FreshId(i) /\ requestId' = [requestId EXCEPT ![c] = i]
      BY <1>1 DEF Construct
    <2>2. pc[c] = "new" /\ requestId[c] = NoId /\ c \notin replied
      BY <1>1 DEF Construct, IInv, IdDrawn, RepliedWritten, Written
    <2>3. TypeOK' /\ IdDrawn'
      BY <1>1, <2>1 DEF Construct, serverVars, IInv, TypeOK, PCs, IdDrawn
    <2>4. RepliedWritten' /\ ValueSound' /\ ResultSound'
      BY <1>1, <2>2 DEF Construct, serverVars, IInv, TypeOK, RepliedWritten, Written,
                        ValueSound, ResultSound
    <2>5. UniqueIds'
      BY <2>1 DEF FreshId, IInv, TypeOK, UniqueIds
    <2>6. EntrySound' /\ OwnReply' /\ Reachable'
      BY <1>1, <2>1, <2>2 DEF Construct, serverVars, IInv, TypeOK, EntrySound,
                              OwnReply, Reachable
    <2> QED
      BY <2>3, <2>4, <2>5, <2>6 DEF IInv
  <1>2. ASSUME NEW c \in Calls, ResponseFutureUsed(c)
        PROVE  IInv'
    <2> DEFINE i == requestId[c]
    <2>1. pc[c] = "built" /\ i \in Ids /\ value[c] = NoCall /\ c \notin replied
      BY <1>2 DEF ResponseFutureUsed, IInv, TypeOK, IdDrawn, ValueSound,
                  RepliedWritten, Written
    <2>2. TypeOK' /\ IdDrawn'
      BY <1>2, <2>1 DEF ResponseFutureUsed, serverVars, IInv, TypeOK, PCs, IdDrawn
    <2>3. RepliedWritten' /\ ValueSound' /\ ResultSound' /\ UniqueIds' /\ OwnReply'
      BY <1>2, <2>1 DEF ResponseFutureUsed, serverVars, IInv, TypeOK, RepliedWritten,
                        Written, ValueSound, ResultSound, UniqueIds, OwnReply
    <2>4. EntrySound'
      BY <1>2, <2>1 DEF ResponseFutureUsed, serverVars, IInv, TypeOK, EntrySound
    <2>5. ~IdsRepeat => futureMap[i] = NoCall
      BY <2>1 DEF IInv, TypeOK, EntrySound, UniqueIds
    <2>6. Reachable'
      BY <1>2, <2>1, <2>5 DEF ResponseFutureUsed, serverVars, IInv, TypeOK, Reachable
    <2> QED
      BY <2>2, <2>3, <2>4, <2>6 DEF IInv
  <1>3. ASSUME NEW c \in Calls, Write(c)
        PROVE  IInv'
    BY <1>3 DEF Write, serverVars, IInv, TypeOK, PCs, IdDrawn, RepliedWritten, Written,
                ValueSound, ResultSound, UniqueIds, EntrySound, OwnReply, Reachable
  <1>4. ASSUME NEW c \in Calls, Wake(c)
        PROVE  IInv'
    BY <1>4 DEF Wake, serverVars, IInv, TypeOK, PCs, IdDrawn, RepliedWritten, Written,
                ValueSound, ResultSound, UniqueIds, EntrySound, OwnReply, Reachable
  <1>5. ASSUME NEW c \in Calls, TimeOut(c)
        PROVE  IInv'
    BY <1>5 DEF TimeOut, serverVars, IInv, TypeOK, PCs, IdDrawn, RepliedWritten,
                Written, ValueSound, ResultSound, UniqueIds, EntrySound, OwnReply,
                Reachable
  <1>6. ASSUME NEW c \in Calls, EraseExpired(c)
        PROVE  IInv'
    <2>1. pc[c] = "expired" /\ requestId[c] \in Ids
      BY <1>6 DEF EraseExpired, IInv, TypeOK, IdDrawn
    <2>2. TypeOK' /\ IdDrawn' /\ RepliedWritten' /\ ValueSound' /\ ResultSound'
      BY <1>6, <2>1 DEF EraseExpired, serverVars, IInv, TypeOK, PCs, IdDrawn,
                        RepliedWritten, Written, ValueSound, ResultSound
    <2>3. UniqueIds' /\ OwnReply'
      BY <1>6 DEF EraseExpired, IInv, UniqueIds, OwnReply
    <2>4. EntrySound'
      BY <1>6, <2>1 DEF EraseExpired, IInv, TypeOK, EntrySound
    <2>5. Reachable'
      BY <1>6, <2>1 DEF EraseExpired, IInv, TypeOK, IdDrawn, UniqueIds, Reachable
    <2> QED
      BY <2>2, <2>3, <2>4, <2>5 DEF IInv
  <1>7. ASSUME NEW c \in Calls, Interrupt(c)
        PROVE  IInv'
    BY <1>7 DEF Interrupt, serverVars, IInv, TypeOK, PCs, IdDrawn, RepliedWritten,
                Written, ValueSound, ResultSound, UniqueIds, EntrySound, OwnReply,
                Reachable
  <1>8. ASSUME NEW c \in Calls, HandleReply(c)
        PROVE  IInv'
    <2>1. c \in replied /\ inFlight' \subseteq replied /\ readPkg' \in replied
      BY <1>8 DEF HandleReply, IInv, TypeOK
    <2> QED
      BY <1>8, <2>1, ReceiveKeeps DEF HandleReply, callVars
  <1>9. CASE HandleAgain
    <2>1. readPkg \in replied /\ inFlight' \subseteq replied
      BY <1>9 DEF HandleAgain, serverVars, IInv, TypeOK
    <2> QED
      BY <1>9, <2>1, ReceiveKeeps DEF HandleAgain, callVars, serverVars
  <1>10. CASE HandleOther
    BY <1>10 DEF HandleOther, callVars, serverVars, IInv, TypeOK, IdDrawn,
                 RepliedWritten, Written, ValueSound, ResultSound, UniqueIds,
                 EntrySound, OwnReply, Reachable
  <1>11. ASSUME NEW c \in Calls, ServerReply(c)
         PROVE  IInv'
    BY <1>11 DEF ServerReply, callVars, IInv, TypeOK, IdDrawn,
                 RepliedWritten, Written, ValueSound, ResultSound, UniqueIds,
                 EntrySound, OwnReply, Reachable
  <1>12. CASE DropReplies
    BY <1>12 DEF DropReplies, callVars, IInv, TypeOK, IdDrawn,
                 RepliedWritten, Written, ValueSound, ResultSound, UniqueIds,
                 EntrySound, OwnReply, Reachable
  <1>13. CASE UNCHANGED vars
    BY <1>13 DEF vars, IInv, TypeOK, IdDrawn, RepliedWritten, Written, ValueSound,
                 ResultSound, UniqueIds, EntrySound, OwnReply, Reachable
  <1> QED
    BY <1>1, <1>2, <1>3, <1>4, <1>5, <1>6, <1>7, <1>8, <1>9, <1>10, <1>11, <1>12,
       <1>13 DEF Next, CallStep

\* The conjunction of all the invariants is one of the specification.
THEOREM Invariance == Spec => []IInv
  BY InitInv, NextInv, PTL DEF Spec

\* Type correctness: in particular the packet the worker may handle again is
\* always an answer the server really gave.
THEOREM TypeCorrect == Spec => []TypeOK
  BY Invariance, PTL DEF IInv

\* ResponseFuture.cpp:29-50 and 70-72: whatever the ids do, an entry belongs to
\* a call that still has its id and has no reply yet.
THEOREM EntriesAreSound == Spec => []EntrySound
  BY Invariance, PTL DEF IInv

\* asioKiteIOClient.cpp:209, 234, 260: the reply cast to the type of the
\* request is the reply to that request.
THEOREM RepliesAreOwn == Spec => []OwnReply
  BY Invariance, PTL DEF IInv

\* asioKiteIOClient.cpp:194-202: no reply finds its caller unregistered.
THEOREM WaitersAreReachable == Spec => []Reachable
  BY Invariance, PTL DEF IInv

-----------------------------------------------------------------------------
\* ResponseFuture.cpp:46-48: only a registered future is satisfied, and the
\* promise of a registered future is not yet.
LEMMA PromiseStep ==
    IInv /\ [Next]_vars => \A c \in Calls : value[c] # NoCall => value'[c] = value[c]
  <1> SUFFICES ASSUME IInv, [Next]_vars, NEW c \in Calls, value[c] # NoCall
               PROVE  value'[c] = value[c]
    OBVIOUS
  <1>1. ASSUME NEW r \in replied, receiveResponse(r)
        PROVE  value'[c] = value[c]
    <2> DEFINE i == requestId[r]
    <2>1. r \in Calls /\ i \in Ids
      BY <1>1 DEF IInv, TypeOK, IdDrawn, RepliedWritten, Written
    <2>2. CASE futureMap[i] = NoCall
      BY <1>1, <2>2 DEF receiveResponse
    <2>3. CASE futureMap[i] # NoCall
      <3>1. value' = [value EXCEPT ![futureMap[i]] = r]
        BY <1>1, <2>1, <2>3, ReceiveCases
      <3>2. futureMap[i] # c
        BY <2>1 DEF IInv, EntrySound
      <3> QED
        BY <3>1, <3>2 DEF IInv, TypeOK
    <2> QED
      BY <2>2, <2>3
  <1>2. CASE value' = value
    BY <1>2
  <1>3. ASSUME NEW r \in Calls, HandleReply(r)
        PROVE  value'[c] = value[c]
    BY <1>1, <1>3 DEF HandleReply, IInv, TypeOK
  <1>4. CASE HandleAgain
    BY <1>1, <1>4 DEF HandleAgain, IInv, TypeOK
  <1> QED
    BY <1>2, <1>3, <1>4
       DEF Next, vars, CallStep, Construct, ResponseFutureUsed, Write, Wake, TimeOut,
           EraseExpired, Interrupt, HandleOther, ServerReply, DropReplies

\* ResponseFuture.cpp:52-55: set_value never throws promise_already_satisfied.
THEOREM PromisesSetOnce == Spec => PromiseSetOnce
  <1>1. IInv /\ [Next]_vars
            => [\A c \in Calls : value[c] # NoCall => value'[c] = value[c]]_vars
    BY PromiseStep
  <1> QED
    BY <1>1, Invariance, PTL DEF Spec, PromiseSetOnce

-----------------------------------------------------------------------------
\* One step of the calls, of the server or of the connection is one step of
\* RequestReply or none: Construct opens, ServerReply answers, Wake succeeds,
\* EraseExpired and Interrupt give up, and everything else cannot be seen.
LEMMA StepRefines ==
    ASSUME ~IdsRepeat, IInv, [Next]_vars
    PROVE  [RR!RRNext]_(RR!rrVars)
  <1> USE ConstantsAssumption
  <1> DEFINE Unseen == UNCHANGED <<AbstractPhase, AbstractOutcome, replied>>
  <1>1. ASSUME NEW c \in Calls, Construct(c)
        PROVE  RR!Open(c)
    <2>1. pc[c] = "new" /\ pc' = [pc EXCEPT ![c] = "built"] /\ UNCHANGED <<result, replied>>
      BY <1>1 DEF Construct, serverVars
    <2>2. AbstractPhase[c] = "idle"
      BY <2>1 DEF AbstractPhase
    <2>3. AbstractPhase' = [AbstractPhase EXCEPT ![c] = "open"]
      BY <2>1 DEF AbstractPhase, Ended, IInv, TypeOK
    <2>4. AbstractOutcome' = AbstractOutcome
      BY <2>1 DEF AbstractOutcome, Returned, IInv, TypeOK
    <2> QED
      BY <2>1, <2>2, <2>3, <2>4 DEF RR!Open
  <1>2. ASSUME NEW c \in Calls, ResponseFutureUsed(c) \/ Write(c) \/ TimeOut(c)
        PROVE  Unseen
    <2>1. PICK p \in {"used", "waiting", "expired"} :
              /\ pc[c] \in {"built", "used", "waiting"}
              /\ pc' = [pc EXCEPT ![c] = p]
              /\ UNCHANGED <<result, replied>>
      BY <1>2 DEF ResponseFutureUsed, Write, TimeOut, serverVars
    <2> QED
      BY <2>1 DEF AbstractPhase, AbstractOutcome, Returned, Ended, IInv, TypeOK
  <1>3. ASSUME NEW c \in Calls, ServerReply(c)
        PROVE  RR!Answer(c)
    <2>1. AbstractPhase[c] # "idle"
      BY <1>3 DEF ServerReply, Written, AbstractPhase, Ended
    <2>2. replied' = replied \cup {c} /\ UNCHANGED <<pc, result>>
      BY <1>3 DEF ServerReply, callVars
    <2> QED
      BY <2>1, <2>2 DEF RR!Answer, AbstractPhase, AbstractOutcome, Returned, Ended
  <1>4. ASSUME NEW c \in Calls, Wake(c)
        PROVE  RR!Succeed(c)
    <2>1. /\ pc[c] = "waiting"
          /\ pc' = [pc EXCEPT ![c] = "done"]
          /\ value[c] # NoCall
          /\ result' = [result EXCEPT ![c] = value[c]]
          /\ UNCHANGED replied
      BY <1>4 DEF Wake, serverVars
    <2>2. value[c] = c /\ c \in replied
      BY <2>1 DEF IInv, OwnReply, ValueSound
    <2>3. AbstractPhase[c] = "open"
      BY <2>1 DEF AbstractPhase, Ended
    <2>4. AbstractPhase' = [AbstractPhase EXCEPT ![c] = "closed"]
      BY <2>1 DEF AbstractPhase, Ended, IInv, TypeOK
    <2>5. AbstractOutcome' = [AbstractOutcome EXCEPT ![c] = "reply"]
      BY <2>1, <2>2 DEF AbstractOutcome, Returned, IInv, TypeOK
    <2> QED
      BY <2>1, <2>2, <2>3, <2>4, <2>5 DEF RR!Succeed
  <1>5. ASSUME NEW c \in Calls, EraseExpired(c) \/ Interrupt(c)
        PROVE  RR!GiveUp(c)
    <2>1. PICK p \in {"done", "interrupted"} :
              /\ pc[c] \in {"waiting", "expired"}
              /\ pc' = [pc EXCEPT ![c] = p]
              /\ UNCHANGED <<result, replied>>
      BY <1>5 DEF EraseExpired, Interrupt, serverVars
    <2>2. result[c] = NoCall
      BY <2>1 DEF IInv, ResultSound
    <2>3. AbstractPhase[c] = "open"
      BY <2>1 DEF AbstractPhase, Ended
    <2>4. AbstractPhase' = [AbstractPhase EXCEPT ![c] = "closed"]
      BY <2>1 DEF AbstractPhase, Ended, IInv, TypeOK
    <2>5. \E o \in {"null", "interrupted"} :
              AbstractOutcome' = [AbstractOutcome EXCEPT ![c] = o]
      <3>1. CASE p = "done"
        <4>1. AbstractOutcome' = [AbstractOutcome EXCEPT ![c] = "null"]
          BY <2>1, <2>2, <3>1 DEF AbstractOutcome, Returned, IInv, TypeOK
        <4> QED
          BY <4>1
      <3>2. CASE p = "interrupted"
        <4>1. AbstractOutcome' = [AbstractOutcome EXCEPT ![c] = "interrupted"]
          BY <2>1, <2>2, <3>2 DEF AbstractOutcome, Returned, IInv, TypeOK
        <4> QED
          BY <4>1
      <3> QED
        BY <2>1, <3>1, <3>2
    <2> QED
      BY <2>1, <2>3, <2>4, <2>5 DEF RR!GiveUp
  <1>6. ASSUME UNCHANGED <<pc, result, replied>>
        PROVE  Unseen
    BY <1>6 DEF AbstractPhase, AbstractOutcome, Returned, Ended
  <1>7. CASE \E c \in Calls : HandleReply(c)
    BY <1>6, <1>7 DEF HandleReply, callVars, RR!rrVars
  <1>8. CASE HandleAgain \/ HandleOther \/ DropReplies \/ UNCHANGED vars
    BY <1>6, <1>8 DEF HandleAgain, HandleOther, DropReplies, vars, callVars, serverVars,
                      RR!rrVars
  <1> QED
    BY <1>1, <1>2, <1>3, <1>4, <1>5, <1>7, <1>8
       DEF Next, CallStep, RR!RRNext, RR!rrVars

\* asioKiteIOClient.cpp:191-265 on ResponseFuture.cpp: while ids do not repeat,
\* the futures, the map, the worker and the timeouts implement RequestReply.
THEOREM CallsImplementRequestReply ==
    ASSUME ~IdsRepeat
    PROVE  Spec => RefinesRequestReply
  <1>1. Init => RR!RRInit
    BY ConstantsAssumption
       DEF Init, RR!RRInit, AbstractPhase, AbstractOutcome, Returned, Ended
  <1>2. IInv /\ [Next]_vars => [RR!RRNext]_(RR!rrVars)
    BY StepRefines
  <1> QED
    BY <1>1, <1>2, Invariance, PTL DEF Spec, RefinesRequestReply, RR!RRSpec
=============================================================================
