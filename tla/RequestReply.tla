---------------------------- MODULE RequestReply ----------------------------
(***************************************************************************)
(* What a synchronous call of the client (sendHeartBeatAndGet,             *)
(* sendConnAndGet, sendMessageAndGet) promises its caller, with no future  *)
(* map, no packet ids and no worker thread: a call opens once, the server  *)
(* may answer it, and it closes once, either with the answer to its own    *)
(* request or empty-handed.  A call that closes empty-handed may have been *)
(* answered: the caller cannot tell a lost reply from a late one.          *)
(***************************************************************************)
CONSTANT Calls      \* one element for each synchronous call ever made

VARIABLES
    phase,          \* phase[c]: "idle", then "open", then "closed"
    answered,       \* the calls whose request the server has answered
    outcome         \* outcome[c]: how c ended, "none" while it has not

rrVars == <<phase, answered, outcome>>

Phases == {"idle", "open", "closed"}
Outcomes == {"none", "reply", "null", "interrupted"}

RRInit ==
    /\ phase = [c \in Calls |-> "idle"]
    /\ answered = {}
    /\ outcome = [c \in Calls |-> "none"]

Open(c) ==
    /\ phase[c] = "idle"
    /\ phase' = [phase EXCEPT ![c] = "open"]
    /\ UNCHANGED <<answered, outcome>>

\* The server answers a request it has seen; the caller may be gone by then.
Answer(c) ==
    /\ phase[c] # "idle"
    /\ answered' = answered \cup {c}
    /\ UNCHANGED <<phase, outcome>>

\* The call returns the reply, which must be the answer to this very request.
Succeed(c) ==
    /\ phase[c] = "open"
    /\ c \in answered
    /\ phase' = [phase EXCEPT ![c] = "closed"]
    /\ outcome' = [outcome EXCEPT ![c] = "reply"]
    /\ UNCHANGED answered

\* The call ends without a reply: a null pointer or a thread interruption.
GiveUp(c) ==
    /\ phase[c] = "open"
    /\ phase' = [phase EXCEPT ![c] = "closed"]
    /\ \E o \in {"null", "interrupted"} : outcome' = [outcome EXCEPT ![c] = o]
    /\ UNCHANGED answered

RRNext == \E c \in Calls : Open(c) \/ Answer(c) \/ Succeed(c) \/ GiveUp(c)

RRSpec == RRInit /\ [][RRNext]_rrVars
=============================================================================
