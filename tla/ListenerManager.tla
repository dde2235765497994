--------------------------- MODULE ListenerManager ---------------------------
(***************************************************************************)
(* The listeners of the process (remoting/ListenerManager.cpp): a static   *)
(* map from the address of a server to the listener for what it sends.     *)
(* All clients of an address share its entry.  Each function holds the     *)
(* lock of the map from beginning to end and is one step.                  *)
(***************************************************************************)
EXTENDS Integers, Sequences

CONSTANTS
    Listeners,          \* what applications register
    defaultListener,    \* ListenerManager::defaultListener, which does nothing
    Channels            \* the addresses

ASSUME ListenerAssumption == defaultListener \notin Listeners

VARIABLES
    listeners,          \* ListenerManager::listeners; defaultListener where none is
    turn,               \* history: the registrations of a channel since it was last
                        \* unregistered
    changes             \* history: how often what getListener returns has changed

listenerVars == <<listeners, turn, changes>>

ListenerInit ==
    /\ listeners = [c \in Channels |-> defaultListener]
    /\ turn = [c \in Channels |-> <<>>]
    /\ changes = 0

-----------------------------------------------------------------------------
(* Faulty forms of the definitions below, used by no specification: each is *)
(* a bug the code could have had, and breaks one of the properties.         *)

\* The last registration replaces the one before, as with operator[].
Inserted_Assigned(c, l) == l

\* A channel without a listener has none.
getListener_NoDefault(c) == IF listeners[c] = defaultListener THEN 0 ELSE listeners[c]

-----------------------------------------------------------------------------
\* map::insert does nothing if the key is there.
Inserted(c, l) == IF listeners[c] = defaultListener THEN l ELSE listeners[c]

registerListener(c, l) ==
    /\ listeners' = [listeners EXCEPT ![c] = Inserted(c, l)]
    /\ turn' = [turn EXCEPT ![c] = Append(@, l)]
    /\ changes' = IF turn[c] = <<>> THEN changes + 1 ELSE changes

unregisterListener(c) ==
    /\ listeners' = [listeners EXCEPT ![c] = defaultListener]
    /\ turn' = [turn EXCEPT ![c] = <<>>]
    /\ changes' = IF turn[c] = <<>> THEN changes ELSE changes + 1

\* The entry or, at the end of the map, defaultListener.
getListener(c) == listeners[c]

\* Who is to hear what arrives: the first to have registered.
First(c) == IF turn[c] = <<>> THEN defaultListener ELSE Head(turn[c])

ListenerTypeOK ==
    /\ listeners \in [Channels -> Listeners \cup {defaultListener}]
    /\ turn \in [Channels -> Seq(Listeners)]
    /\ changes \in Nat
=============================================================================
