------------------------------ MODULE EventBus ------------------------------
(***************************************************************************)
(* What the session layer promises to the rest of the server about events: *)
(* a posted event is handed, recipient after recipient, to a connection    *)
(* owned by that recipient at that moment, at most once each, or it skips  *)
(* the recipient; a connection takes its events in the order they came.    *)
(* Locks, references, the registry and the handlers' steps are gone.       *)
(***************************************************************************)
EXTENDS Naturals, Sequences

CONSTANTS Conns, Users, Events, Targets, QueueCap, None

VARIABLES
    owner,    \* the user a connection acts for, None before and after
    posted,   \* the events that were posted
    pending,  \* the recipients an event has not been through yet
    queue     \* what a connection has still to take

busVars == <<owner, posted, pending, queue>>

Init ==
    /\ owner = [c \in Conns |-> None]
    /\ posted = {}
    /\ pending = [e \in Events |-> <<>>]
    /\ queue = [c \in Conns |-> <<>>]

(* A connection comes to act for a user: a login, or a bind.               *)
Own(c) ==
    /\ \E u \in Users : owner' = [owner EXCEPT ![c] = u]
    /\ UNCHANGED <<posted, pending, queue>>

Disown(c) ==
    /\ owner[c] # None
    /\ owner' = [owner EXCEPT ![c] = None]
    /\ UNCHANGED <<posted, pending, queue>>

(* Only a connection that acts for a user posts, never to that user.       *)
Post(c, e) ==
    /\ owner[c] # None
    /\ e \notin posted
    /\ posted' = posted \cup {e}
    /\ \E us \in Targets : /\ \A i \in DOMAIN us : us[i] # owner[c]
                           /\ pending' = [pending EXCEPT ![e] = us]
    /\ UNCHANGED <<owner, queue>>

Deliver(c, e) ==
    /\ pending[e] # <<>>
    /\ owner[c] = Head(pending[e])
    /\ Len(queue[c]) < QueueCap
    /\ queue' = [queue EXCEPT ![c] = Append(@, [event |-> e, to |-> owner[c]])]
    /\ pending' = [pending EXCEPT ![e] = Tail(@)]
    /\ UNCHANGED <<owner, posted>>

Skip(e) ==
    /\ pending[e] # <<>>
    /\ pending' = [pending EXCEPT ![e] = Tail(@)]
    /\ UNCHANGED <<owner, posted, queue>>

(* The task that carries the event dies with the recipients it had left.   *)
Lose(e) ==
    /\ pending[e] # <<>>
    /\ pending' = [pending EXCEPT ![e] = <<>>]
    /\ UNCHANGED <<owner, posted, queue>>

Take(c) ==
    /\ queue[c] # <<>>
    /\ queue' = [queue EXCEPT ![c] = Tail(@)]
    /\ UNCHANGED <<owner, posted, pending>>

BusNext ==
    \/ \E c \in Conns : Own(c) \/ Disown(c) \/ Take(c)
    \/ \E c \in Conns, e \in Events : Post(c, e) \/ Deliver(c, e)
    \/ \E e \in Events : Skip(e) \/ Lose(e)

BusSpec == Init /\ [][BusNext]_busVars
=============================================================================
