------------------------- MODULE NextHeartbeatTime -------------------------
(***************************************************************************)
(* When the next heartbeat is due (Heartbeat::setNextHeartbeatTime and     *)
(* hbThread in remoting/asioKiteIOClient.cpp, on commons/Counter.hpp).     *)
(*                                                                         *)
(* Every thread whose synchronous call has been answered moves the due     *)
(* time to three seconds from now with a compare-and-set loop over a       *)
(* Counter; the heartbeat thread reads the clock and then the due time.    *)
(* Each Counter operation is one step: they exclude each other by its      *)
(* shared_mutex.  The clock is the wall clock and may be set back.         *)
(***************************************************************************)
EXTENDS Naturals

CONSTANTS
    Setters,        \* the answered calls, each on a thread of its own
    MaxTime,        \* bound of the clock
    Period          \* 3000 in the code

ASSUME ConstantsAssumption == MaxTime \in Nat /\ Period \in Nat

VARIABLES
    now,                \* the wall clock, in milliseconds
    nextHeartbeatTime,  \* the Counter
    pc,                 \* of each setter
    time,               \* the argument of its setNextHeartbeatTime
    next,               \* the value it has read
    hbPc, hbNow         \* the heartbeat thread and the time it has read

setterVars == <<pc, time, next>>
hbVars == <<hbPc, hbNow>>
vars == <<now, nextHeartbeatTime, setterVars, hbVars>>

Times == 0..MaxTime + Period

Init ==
    /\ now = 0
    /\ nextHeartbeatTime = 0
    /\ pc = [s \in Setters |-> "waiting"]
    /\ time = [s \in Setters |-> 0]
    /\ next = [s \in Setters |-> 0]
    /\ hbPc = "clock"
    /\ hbNow = 0

-----------------------------------------------------------------------------
(* Faulty forms of the definitions below.  No specification uses them: each *)
(* is a bug the code could have had, and breaks one of the properties.      *)

\* Milliseconds taken for microseconds.
Answered_Micros(s) ==
    /\ pc[s] = "waiting"
    /\ time' = [time EXCEPT ![s] = 1000 * now + Period]
    /\ pc' = [pc EXCEPT ![s] = "get"]
    /\ UNCHANGED <<now, nextHeartbeatTime, next, hbVars>>

\* The value is set, not compared and set.
CompareAndSet_Set(s) ==
    /\ pc[s] = "set"
    /\ nextHeartbeatTime' = time[s]
    /\ pc' = [pc EXCEPT ![s] = "done"]
    /\ UNCHANGED <<now, time, next, hbVars>>

\* A failed compare-and-set is not retried.
CompareAndSet_Once(s) ==
    /\ pc[s] = "set"
    /\ nextHeartbeatTime' =
           IF nextHeartbeatTime = next[s] THEN time[s] ELSE nextHeartbeatTime
    /\ pc' = [pc EXCEPT ![s] = "done"]
    /\ UNCHANGED <<now, time, next, hbVars>>

\* The retry compares with the value read before.
CompareAndSet_Stale(s) ==
    /\ pc[s] = "set"
    /\ IF nextHeartbeatTime = next[s]
       THEN /\ nextHeartbeatTime' = time[s]
            /\ pc' = [pc EXCEPT ![s] = "done"]
       ELSE UNCHANGED <<nextHeartbeatTime, pc>>
    /\ UNCHANGED <<now, time, next, hbVars>>

-----------------------------------------------------------------------------
\* The wall clock moves, in either direction.
Tick ==
    /\ now' \in 0..MaxTime
    /\ now' # now
    /\ UNCHANGED <<nextHeartbeatTime, setterVars, hbVars>>

\* The reply is there: time_now + 3000.
Answered(s) ==
    /\ pc[s] = "waiting"
    /\ time' = [time EXCEPT ![s] = now + Period]
    /\ pc' = [pc EXCEPT ![s] = "get"]
    /\ UNCHANGED <<now, nextHeartbeatTime, next, hbVars>>

\* getCount(); an earlier time changes nothing.
GetCount(s) ==
    /\ pc[s] = "get"
    /\ next' = [next EXCEPT ![s] = nextHeartbeatTime]
    /\ pc' = [pc EXCEPT ![s] = IF time[s] > nextHeartbeatTime THEN "set" ELSE "done"]
    /\ UNCHANGED <<now, nextHeartbeatTime, time, hbVars>>

\* compareAndSet(next, time), and all over again when another thread was faster.
CompareAndSet(s) ==
    /\ pc[s] = "set"
    /\ IF nextHeartbeatTime = next[s]
       THEN /\ nextHeartbeatTime' = time[s]
            /\ pc' = [pc EXCEPT ![s] = "done"]
       ELSE /\ pc' = [pc EXCEPT ![s] = "get"]
            /\ UNCHANGED nextHeartbeatTime
    /\ UNCHANGED <<now, time, next, hbVars>>

\* hbThread reads the clock first ...
HbClock ==
    /\ hbPc = "clock"
    /\ hbNow' = now
    /\ hbPc' = "compare"
    /\ UNCHANGED <<now, nextHeartbeatTime, setterVars>>

\* ... then the due time: past it, a heartbeat is sent.
HbCompare ==
    /\ hbPc = "compare"
    /\ hbPc' = IF hbNow > nextHeartbeatTime THEN "beat" ELSE "clock"
    /\ UNCHANGED <<now, nextHeartbeatTime, setterVars, hbNow>>

\* The heartbeat's own call has ended.
HbBeaten ==
    /\ hbPc = "beat"
    /\ hbPc' = "clock"
    /\ UNCHANGED <<now, nextHeartbeatTime, setterVars, hbNow>>

SetterStep(s) == GetCount(s) \/ CompareAndSet(s)

Next ==
    \/ Tick
    \/ \E s \in Setters : Answered(s) \/ SetterStep(s)
    \/ HbClock \/ HbCompare \/ HbBeaten

Spec == Init /\ [][Next]_vars /\ \A s \in Setters : WF_vars(SetterStep(s))

-----------------------------------------------------------------------------
TypeOK ==
    /\ now \in 0..MaxTime
    /\ nextHeartbeatTime \in Times
    /\ pc \in [Setters -> {"waiting", "get", "set", "done"}]
    /\ time \in [Setters -> Times]
    /\ next \in [Setters -> Times]
    /\ hbPc \in {"clock", "compare", "beat"}
    /\ hbNow \in 0..MaxTime

\* asioKiteIOClient.cpp:40-47: the due time never moves back, though several
\* threads set it from a clock that may.
DueTimeNeverMovesBack == [][nextHeartbeatTime' >= nextHeartbeatTime]_vars

\* asioKiteIOClient.cpp:40-47, 69: no answered call is forgotten, so that no
\* heartbeat is sent within Period of the clock time of a call that had ended
\* before the heartbeat thread looked.
NoCallForgotten == \A s \in Setters : pc[s] = "done" => nextHeartbeatTime >= time[s]

\* asioKiteIOClient.cpp:43-44: the recursion ends: a compare-and-set fails only
\* because another one succeeded.
SetterEnds == \A s \in Setters : (pc[s] = "get") ~> (pc[s] = "done")

MR == INSTANCE MaxRegister
        WITH register <- nextHeartbeatTime,
             value <- time,
             applied <- {s \in Setters : pc[s] = "done"}

\* asioKiteIOClient.cpp:40-47: the loop behaves as one atomic maximum for each
\* caller.
RefinesMaxRegister == MR!MRSpec
=============================================================================
