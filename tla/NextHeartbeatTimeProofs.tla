---------------------- MODULE NextHeartbeatTimeProofs ----------------------
(***************************************************************************)
(* Proofs about NextHeartbeatTime for any number of threads and any clock. *)
(***************************************************************************)
EXTENDS NextHeartbeatTime, TLAPS

\* The invariant: a thread reaches its compare-and-set only with a time later
\* than the one it read, so a successful one moves the due time forward.
IInv ==
    /\ TypeOK
    /\ NoCallForgotten
    /\ \A s \in Setters : pc[s] = "set" => time[s] > next[s]

\* Times are natural numbers, which the provers need to know to compare them.
LEMMA TimesAreNat == Times \subseteq Nat
  BY ConstantsAssumption DEF Times

\* Every step of the setters, of the heartbeat thread and of the clock keeps
\* the invariant.
LEMMA NextInv == IInv /\ [Next]_vars => IInv'
  <1> SUFFICES ASSUME IInv, [Next]_vars
               PROVE  IInv'
    OBVIOUS
  <1> USE ConstantsAssumption DEF IInv, TypeOK, NoCallForgotten
  <1>0. /\ nextHeartbeatTime \in Nat
        /\ \A u \in Setters : time[u] \in Nat /\ next[u] \in Nat
    BY TimesAreNat
  <1>1. CASE Tick
    BY <1>1 DEF Tick, setterVars, hbVars
  <1>2. ASSUME NEW s \in Setters, Answered(s)
        PROVE  IInv'
    <2>1. now + Period \in Times
      BY DEF Times
    <2> QED
      BY <1>2, <2>1 DEF Answered, hbVars
  <1>3. ASSUME NEW s \in Setters, GetCount(s)
        PROVE  IInv'
    <2>1. CASE time[s] > nextHeartbeatTime
      BY <1>0, <1>3, <2>1 DEF GetCount, hbVars
    <2>2. CASE ~(time[s] > nextHeartbeatTime)
      BY <1>0, <1>3, <2>2 DEF GetCount, hbVars
    <2> QED
      BY <2>1, <2>2
  <1>4. ASSUME NEW s \in Setters, CompareAndSet(s)
        PROVE  IInv'
    <2>1. CASE nextHeartbeatTime = next[s]
      <3>1. time[s] > nextHeartbeatTime
        BY <1>4, <2>1 DEF CompareAndSet
      <3> QED
        BY <1>0, <1>4, <2>1, <3>1 DEF CompareAndSet, hbVars
    <2>2. CASE nextHeartbeatTime # next[s]
      BY <1>0, <1>4, <2>2 DEF CompareAndSet, hbVars
    <2> QED
      BY <2>1, <2>2
  <1>5. CASE HbClock \/ HbCompare \/ HbBeaten
    BY <1>5 DEF HbClock, HbCompare, HbBeaten, setterVars
  <1>6. CASE UNCHANGED vars
    BY <1>6 DEF vars, setterVars, hbVars
  <1> QED
    BY <1>1, <1>2, <1>3, <1>4, <1>5, <1>6 DEF Next, SetterStep

\* The invariant holds throughout.
LEMMA Invariance == Spec => []IInv
  <1>1. Init => IInv
    BY ConstantsAssumption DEF Init, IInv, TypeOK, NoCallForgotten, Times
  <1> QED
    BY <1>1, NextInv, PTL DEF Spec

\* asioKiteIOClient.cpp:35-47, 69: the due time, what the threads have read of it
\* and the times they bring stay within a Period of the clock.
THEOREM TypeCorrect == Spec => []TypeOK
  BY Invariance, PTL DEF IInv

\* asioKiteIOClient.cpp:40-47: whichever threads race, the due time is at least
\* the time of every call that has ended.
THEOREM NoCallIsForgotten == Spec => []NoCallForgotten
  BY Invariance, PTL DEF IInv

\* asioKiteIOClient.cpp:43: a compare-and-set that succeeds moves it forward.
THEOREM DueTimeIsMonotone == Spec => DueTimeNeverMovesBack
  <1>1. IInv /\ [Next]_vars => [nextHeartbeatTime' >= nextHeartbeatTime]_vars
    <2> SUFFICES ASSUME IInv, Next
                 PROVE  nextHeartbeatTime' >= nextHeartbeatTime
      OBVIOUS
    <2>1. nextHeartbeatTime \in Nat
      BY TimesAreNat DEF IInv, TypeOK
    <2>2. CASE nextHeartbeatTime' = nextHeartbeatTime
      BY <2>1, <2>2
    <2>3. ASSUME NEW s \in Setters, CompareAndSet(s)
          PROVE  nextHeartbeatTime' >= nextHeartbeatTime
      <3>1. time[s] \in Nat /\ (pc[s] = "set" => time[s] > next[s])
        BY TimesAreNat DEF IInv, TypeOK
      <3> QED
        BY <2>1, <2>3, <3>1 DEF CompareAndSet
    <2> QED
      BY <2>2, <2>3 DEF Next, Tick, Answered, SetterStep, GetCount, HbClock, HbCompare,
                        HbBeaten
  <1> QED
    BY <1>1, Invariance, PTL DEF Spec, DueTimeNeverMovesBack

-----------------------------------------------------------------------------
Applied == {s \in Setters : pc[s] = "done"}

\* A getCount that finds a later time, and a compare-and-set that succeeds, are
\* Apply; the arrival of a reply is Request; nothing else can be seen.
LEMMA StepRefines == IInv /\ [Next]_vars => [MR!MRNext]_(MR!mrVars)
  <1> SUFFICES ASSUME IInv, [Next]_vars
               PROVE  [MR!MRNext]_(MR!mrVars)
    OBVIOUS
  <1> USE DEF MR!mrVars
  <1>1. ASSUME NEW s \in Setters, Answered(s)
        PROVE  MR!Request(s)
    <2>1. /\ pc[s] = "waiting" /\ pc' = [pc EXCEPT ![s] = "get"]
          /\ time' = [time EXCEPT ![s] = now + Period]
          /\ UNCHANGED nextHeartbeatTime
      BY <1>1 DEF Answered
    <2>2. Applied' = Applied /\ s \notin Applied
      BY <2>1 DEF Applied, IInv, TypeOK
    <2>3. time' = [time EXCEPT ![s] = time'[s]]
      BY <2>1 DEF IInv, TypeOK
    <2> QED
      BY <2>1, <2>2, <2>3 DEF MR!Request, Applied
  <1>2. ASSUME NEW s \in Setters, SetterStep(s), pc'[s] = "done"
        PROVE  MR!Apply(s)
    <2>1. /\ pc[s] \in {"get", "set"} /\ pc' = [pc EXCEPT ![s] = "done"]
          /\ UNCHANGED time
      BY <1>2 DEF SetterStep, GetCount, CompareAndSet, IInv, TypeOK
    <2>2. Applied' = Applied \cup {s} /\ s \notin Applied
      BY <2>1 DEF Applied, IInv, TypeOK
    <2>3. nextHeartbeatTime' =
            IF time[s] > nextHeartbeatTime THEN time[s] ELSE nextHeartbeatTime
      BY <1>2 DEF SetterStep, GetCount, CompareAndSet, IInv, TypeOK
    <2> QED
      BY <2>1, <2>2, <2>3 DEF MR!Apply, Applied
  <1>3. ASSUME NEW s \in Setters, SetterStep(s), pc'[s] # "done"
        PROVE  UNCHANGED MR!mrVars
    <2>1. /\ \E p \in {"get", "set"} : pc' = [pc EXCEPT ![s] = p]
          /\ pc[s] \in {"get", "set"}
          /\ UNCHANGED <<time, nextHeartbeatTime>>
      BY <1>3 DEF SetterStep, GetCount, CompareAndSet, IInv, TypeOK
    <2>2. Applied' = Applied
      BY <2>1 DEF Applied, IInv, TypeOK
    <2> QED
      BY <2>1, <2>2 DEF Applied
  <1>4. CASE Tick \/ HbClock \/ HbCompare \/ HbBeaten \/ UNCHANGED vars
    BY <1>4 DEF Tick, HbClock, HbCompare, HbBeaten, vars, setterVars
  <1> QED
    BY <1>1, <1>2, <1>3, <1>4 DEF Next, MR!MRNext

\* asioKiteIOClient.cpp:40-47: the compare-and-set loop of any number of threads
\* implements an atomic maximum.
THEOREM LoopIsAtomicMax == Spec => RefinesMaxRegister
  <1>1. Init => MR!MRInit
    BY DEF Init, MR!MRInit
  <1> QED
    BY <1>1, StepRefines, Invariance, PTL DEF Spec, RefinesMaxRegister, MR!MRSpec
=============================================================================
