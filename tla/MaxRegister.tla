---------------------------- MODULE MaxRegister ----------------------------
(***************************************************************************)
(* What Heartbeat::setNextHeartbeatTime promises: each caller brings a     *)
(* value, and in one atomic step the register becomes the larger of that   *)
(* value and its own.                                                      *)
(***************************************************************************)
EXTENDS Naturals

CONSTANT Setters

VARIABLES
    register,       \* the largest value applied so far
    value,          \* value[s]: what caller s brings
    applied         \* the callers whose value has been taken into account

mrVars == <<register, value, applied>>

MRInit ==
    /\ register = 0
    /\ value = [s \in Setters |-> 0]
    /\ applied = {}

Request(s) ==
    /\ s \notin applied
    /\ value' = [value EXCEPT ![s] = value'[s]]
    /\ UNCHANGED <<register, applied>>

Apply(s) ==
    /\ s \notin applied
    /\ register' = IF value[s] > register THEN value[s] ELSE register
    /\ applied' = applied \cup {s}
    /\ UNCHANGED value

MRNext == \E s \in Setters : Request(s) \/ Apply(s)

MRSpec == MRInit /\ [][MRNext]_mrVars
=============================================================================
