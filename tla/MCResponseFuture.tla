-------------------------- MODULE MCResponseFuture --------------------------
(***************************************************************************)
(* Instances of ResponseFuture for TLC: a producer's call with a timeout,  *)
(* a heartbeat that close() may interrupt, and a call that waits for ever. *)
(***************************************************************************)
EXTENDS ResponseFuture

CONSTANTS send, beat, wait

MCCalls == {send, beat, wait}
MCInterruptible == {beat}
MCUntimed == {wait}

\* After the ids have wrapped: no untimed call, so that every call can end
\* and give its id back.
NoUntimed == {}
=============================================================================
