-------------------------------- MODULE Typing --------------------------------
(***************************************************************************)
(* The typing indicator of one user: the handler of its drafts and         *)
(* messages, the channel of events, and the task that shows an indicator   *)
(* to the others and takes it away when no draft follows for a second.     *)
(*                                                                         *)
(* The event of a private chat bears the id of the typist, whoever it goes *)
(* to, so that all private chats look alike to the task.                   *)
(***************************************************************************)
EXTENDS Integers, Sequences

CONSTANTS
    Users,       \* the others
    Chats,       \* chats of the typist
    EventIdOf,   \* chat_id in the events of each chat
    Receivers,   \* users of each chat but the typist
    ShardOf,     \* shard of each user in the registry
    ChannelSize, \* events the channel of the task holds (3 in the code)
    QueueCap,    \* events the channel of a connection holds (10 in the code)
    Plans,       \* what happens in one run
    MaxRequests, \* bound on the requests of the typist
    None

EventIds == {EventIdOf[c] : c \in Chats}
Event == [id: EventIds, typing: BOOLEAN, to: SUBSET Users]

(* chats: those the typist uses; moves: the others come and go; hollow: their
   sessions may stay without connections; debug: built with debug assertions. *)
PlanType == [chats: SUBSET Chats, moves: BOOLEAN, hollow: BOOLEAN, debug: BOOLEAN]

ASSUME TypingAssumption ==
    /\ Receivers \in [Chats -> SUBSET Users]
    /\ Plans \subseteq PlanType
    /\ MaxRequests \in Nat
    /\ ChannelSize \in Nat \ {0} /\ QueueCap \in Nat \ {0}
    /\ None \notin Event \cup Users

VARIABLES
    mode,    \* "up" or "panicked"
    plan,    \* the plan of this run
    left,    \* requests the typist may still make
    closed,  \* its handler is dropped
    offer,   \* the event it waits to put into the channel
    channel,
    phase,   \* where the task is
    event,   \* msg and users of the task
    last,    \* last_chat_id
    todo,    \* users its loop has left
    ref,     \* the one of them whose Ref it holds
    session, \* what the registry has for each of the others
    guard,   \* who holds the lock of that session
    queue,   \* events in the channel of its first connection
    shown    \* the indicators each of the others sees, once its queue is read

typist == <<left, closed, offer>>
task == <<phase, event, last, todo, ref>>
others == <<session, guard, queue, shown>>
vars == <<mode, plan, typist, channel, task, others>>

Phases == {"idle", "first", "wait", "off", "dead", "ended"}

TypeOK ==
    /\ mode \in {"up", "panicked"}
    /\ plan \in Plans
    /\ left \in 0..MaxRequests
    /\ closed \in BOOLEAN
    /\ offer \in Event \cup {None}
    /\ channel \in Seq(Event) /\ Len(channel) <= ChannelSize
    /\ phase \in Phases
    /\ event \in Event \cup {None}
    /\ last \in EventIds \cup {None}
    /\ todo \in SUBSET Users
    /\ ref \in todo \cup {None}
    /\ session \in [Users -> {"online", "offline", "hollow"}]
    /\ guard \in [Users -> {"free", "task", "others", "cleanup"}]
    /\ queue \in [Users -> 0..QueueCap]
    /\ shown \in [Users -> SUBSET EventIds]

Init ==
    /\ mode = "up"
    /\ plan \in Plans
    /\ left = MaxRequests
    /\ closed = FALSE
    /\ offer = None
    /\ channel = <<>>
    /\ phase = "idle"
    /\ event = None
    /\ last = None
    /\ todo = {}
    /\ ref = None
    /\ session \in [Users -> {"online", "offline"}]
    /\ guard = [u \in Users |-> "free"]
    /\ queue = [u \in Users |-> 0]
    /\ shown = [u \in Users |-> {}]

-----------------------------------------------------------------------------
(* The typist: a draft shows the indicator and a message takes it away.     *)

Request ==
    /\ mode = "up" /\ ~closed /\ offer = None /\ left > 0
    /\ \E c \in plan.chats, t \in BOOLEAN :
        offer' = [id |-> EventIdOf[c], typing |-> t, to |-> Receivers[c]]
    /\ left' = left - 1
    /\ UNCHANGED <<mode, plan, closed, channel, task, others>>

Push ==
    /\ mode = "up" /\ offer # None
    /\ phase # "dead" /\ Len(channel) < ChannelSize
    /\ channel' = Append(channel, offer)
    /\ offer' = None
    /\ UNCHANGED <<mode, plan, left, closed, task, others>>

(* The task is gone and its end of the channel with it.                     *)
PushFails ==
    /\ mode = "up" /\ offer # None
    /\ phase = "dead"
    /\ offer' = None
    /\ mode' = IF plan.debug THEN "panicked" ELSE "up"
    /\ UNCHANGED <<plan, left, closed, channel, task, others>>

Leave ==
    /\ mode = "up" /\ ~closed /\ offer = None
    /\ closed' = TRUE
    /\ UNCHANGED <<mode, plan, left, offer, channel, task, others>>

-----------------------------------------------------------------------------
(* The task.                                                               *)

Take(p) ==
    /\ event' = Head(channel)
    /\ channel' = Tail(channel)
    /\ phase' = p

Receive ==
    /\ mode = "up" /\ phase = "idle" /\ channel # <<>>
    /\ Take("first")
    /\ last' = Head(channel).id
    /\ todo' = Head(channel).to
    /\ UNCHANGED <<mode, plan, typist, ref, others>>

(* A round looks each user up.  The Ref it gets keeps the shard of the registry
   while the task waits for the lock of the session, and the Ref and the lock
   are kept while mpsc_send waits for room in the channel.                  *)
Looks(u) == mode = "up" /\ phase \in {"first", "off"} /\ ref = None /\ u \in todo

Skip_Slip(u) ==
    /\ Looks(u) /\ session[u] = "offline"
    /\ UNCHANGED vars

Skip(u) ==
    /\ Looks(u) /\ session[u] = "offline"
    /\ todo' = todo \ {u}
    /\ UNCHANGED <<mode, plan, typist, channel, phase, event, last, ref, others>>

Find(u) ==
    /\ Looks(u) /\ session[u] # "offline"
    /\ ref' = u
    /\ UNCHANGED <<mode, plan, typist, channel, phase, event, last, todo, others>>

Lock(u) ==
    /\ mode = "up" /\ ref = u /\ guard[u] = "free"
    /\ guard' = [guard EXCEPT ![u] = "task"]
    /\ UNCHANGED <<mode, plan, typist, channel, task, session, queue, shown>>

Send(u) ==
    /\ mode = "up" /\ ref = u /\ guard[u] = "task"
    /\ session[u] = "online" /\ queue[u] < QueueCap
    /\ queue' = [queue EXCEPT ![u] = @ + 1]
    /\ shown' = [shown EXCEPT ![u] = IF event.typing THEN @ \cup {event.id} ELSE @ \ {event.id}]
    /\ todo' = todo \ {u}
    /\ ref' = None
    /\ guard' = [guard EXCEPT ![u] = "free"]
    /\ UNCHANGED <<mode, plan, typist, channel, phase, event, last, session>>

(* A session without connections: the task indexes none and panics, which
   lets go of what it holds.                                                *)
Die(u) ==
    /\ mode = "up" /\ ref = u /\ guard[u] = "task" /\ session[u] = "hollow"
    /\ phase' = "dead"
    /\ ref' = None
    /\ guard' = [guard EXCEPT ![u] = "free"]
    /\ UNCHANGED <<mode, plan, typist, channel, event, last, todo, session, queue, shown>>

Delivered ==
    /\ mode = "up" /\ phase \in {"first", "off"}
    /\ todo = {}
    /\ phase' = IF phase = "first" THEN "wait" ELSE "idle"
    /\ UNCHANGED <<mode, plan, typist, channel, event, last, todo, ref, others>>

Timeout_Slip ==
    /\ mode = "up" /\ phase = "wait"
    /\ phase' = "off"
    /\ todo' = event.to
    /\ UNCHANGED <<mode, plan, typist, channel, event, last, ref, others>>

Timeout ==
    /\ mode = "up" /\ phase = "wait"
    /\ phase' = "off"
    /\ event' = [event EXCEPT !.typing = FALSE]
    /\ todo' = event.to
    /\ UNCHANGED <<mode, plan, typist, channel, last, ref, others>>

(* The next event before the second is over.  Another chat, or the end of
   typing: its users are told that nobody types.  Else the timer restarts.  *)
Another_Slip ==
    /\ mode = "up" /\ phase = "wait" /\ channel # <<>>
    /\ Head(channel).id # last \/ ~Head(channel).typing
    /\ event' = [Head(channel) EXCEPT !.typing = FALSE]
    /\ channel' = Tail(channel)
    /\ phase' = "idle"
    /\ UNCHANGED <<mode, plan, typist, last, todo, ref, others>>

Another ==
    /\ mode = "up" /\ phase = "wait" /\ channel # <<>>
    /\ Head(channel).id # last \/ ~Head(channel).typing
    /\ event' = [Head(channel) EXCEPT !.typing = FALSE]
    /\ channel' = Tail(channel)
    /\ phase' = "off"
    /\ todo' = Head(channel).to
    /\ UNCHANGED <<mode, plan, typist, last, ref, others>>

Again ==
    /\ mode = "up" /\ phase = "wait" /\ channel # <<>>
    /\ Head(channel).id = last /\ Head(channel).typing
    /\ Take("wait")
    /\ UNCHANGED <<mode, plan, typist, last, todo, ref, others>>

End ==
    /\ mode = "up" /\ phase = "idle" /\ channel = <<>> /\ closed
    /\ phase' = "ended"
    /\ UNCHANGED <<mode, plan, typist, channel, event, last, todo, ref, others>>

-----------------------------------------------------------------------------
(* The others, with one connection each.  Handlers and event tasks take the
   lock of their session and fill the channel, which the connection empties. *)
Hold(u) ==
    /\ mode = "up" /\ session[u] # "offline" /\ guard[u] = "free"
    /\ guard' = [guard EXCEPT ![u] = "others"]
    /\ UNCHANGED <<mode, plan, typist, channel, task, session, queue, shown>>

Release(u) ==
    /\ mode = "up" /\ guard[u] = "others"
    /\ guard' = [guard EXCEPT ![u] = "free"]
    /\ \/ session[u] = "online" /\ queue[u] < QueueCap /\ queue' = [queue EXCEPT ![u] = @ + 1]
       \/ queue' = queue
    /\ UNCHANGED <<mode, plan, typist, channel, task, session, shown>>

Drain(u) ==
    /\ mode = "up" /\ queue[u] > 0
    /\ queue' = [queue EXCEPT ![u] = @ - 1]
    /\ UNCHANGED <<mode, plan, typist, channel, task, session, guard, shown>>

(* To enter the registry and to leave it takes the shard.                   *)
ShardFree(u) == ref \notin {w \in Users : ShardOf[w] = ShardOf[u]}

Come(u) ==
    /\ mode = "up" /\ plan.moves /\ session[u] = "offline" /\ ShardFree(u)
    /\ session' = [session EXCEPT ![u] = "online"]
    /\ UNCHANGED <<mode, plan, typist, channel, task, guard, queue, shown>>

(* What a client showed goes with its connection.  The cleanup takes the lock
   of the session and keeps it until the entry is removed.                  *)
Disconnect(u) ==
    /\ mode = "up" /\ plan.moves /\ session[u] = "online" /\ guard[u] = "free"
    /\ guard' = [guard EXCEPT ![u] = "cleanup"]
    /\ queue' = [queue EXCEPT ![u] = 0]
    /\ shown' = [shown EXCEPT ![u] = {}]
    /\ UNCHANGED <<mode, plan, typist, channel, task, session>>

Remove(u) ==
    /\ mode = "up" /\ guard[u] = "cleanup" /\ ShardFree(u)
    /\ session' = [session EXCEPT ![u] = "offline"]
    /\ guard' = [guard EXCEPT ![u] = "free"]
    /\ UNCHANGED <<mode, plan, typist, channel, task, queue, shown>>

(* A connection that binds elsewhere leaves its session in the registry
   (Sessions.tla), where another may bind to it.                            *)
Bind(u) ==
    /\ mode = "up" /\ plan.hollow /\ session[u] # "offline" /\ guard[u] = "free"
    /\ session' = [session EXCEPT ![u] = IF @ = "online" THEN "hollow" ELSE "online"]
    /\ queue' = [queue EXCEPT ![u] = 0]
    /\ shown' = [shown EXCEPT ![u] = {}]
    /\ UNCHANGED <<mode, plan, typist, channel, task, guard>>

Task == \/ Receive \/ Delivered \/ Timeout \/ Another \/ Again \/ End
        \/ \E u \in Users : Skip(u) \/ Find(u) \/ Send(u) \/ Die(u)

Other(u) == Hold(u) \/ Release(u) \/ Drain(u) \/ Come(u) \/ Disconnect(u) \/ Remove(u) \/ Bind(u)

Next ==
    \/ Request \/ Push \/ PushFails \/ Leave \/ Task
    \/ \E u \in Users : Lock(u) \/ Other(u)

(* The runtime keeps polling the task and the handler, and a timer fires.  The
   lock is handed out in order, those that take it let go of it, and clients
   read their sockets.  Nothing of this helps where the task and a cleanup
   wait for each other.                                                     *)
Fairness ==
    /\ WF_vars(Task) /\ WF_vars(Push) /\ WF_vars(PushFails)
    /\ \A u \in Users : SF_vars(Lock(u)) /\ WF_vars(Release(u)) /\ WF_vars(Drain(u)) /\ WF_vars(Remove(u))

Spec == Init /\ [][Next]_vars /\ Fairness

-----------------------------------------------------------------------------
OneChat == \E c \in Chats : plan.chats \subseteq {c}
Calm == OneChat /\ ~plan.hollow

(* Whoever sees the indicator is among those the task will take it from, when
   its timer fires or the round it is at ends: no event, and nobody coming or
   going, leaves one behind, if the typist keeps to one chat.  (Typed, too.) *)
ShownIsWatched ==
    TypeOK /\ (Calm => \A u \in Users : shown[u] # {} =>
        /\ shown[u] = {last} /\ u \in event.to
        /\ phase \in {"first", "wait"} \/ (phase = "off" /\ u \in todo))

(* Once the typist stops, or leaves, every indicator goes off, however slow
   its recipients and whoever else sends to them, while nobody enters or leaves
   the registry.                                                            *)
IndicatorsGoOff == \A u \in Users : Calm /\ ~plan.moves /\ shown[u] # {} ~> shown[u] = {}

(* A full channel and slow recipients hold a request up only for a while, if
   nobody enters or leaves the registry and no session is hollow.           *)
DraftsGetThrough == ~plan.hollow /\ ~plan.moves /\ offer # None ~> offer = None

(* docs/basics.md:59, a request that is not processed is answered with `ok:
   false`: none waits for good.                                             *)
RequestsGoOn == offer # None ~> offer = None
=============================================================================
