----------------------------- MODULE TypingProofs -----------------------------
(***************************************************************************)
(* Proofs about Typing: with one chat and no session left hollow, whoever  *)
(* sees the indicator is among those the task will take it from, for every *)
(* set of users, of chats and of requests.                                 *)
(*                                                                         *)
(* EInv says what the events have in common when the typist keeps to one   *)
(* chat, from the handler through the channel to the task; WInv, who sees  *)
(* the indicator at each point of the task.                                *)
(***************************************************************************)
EXTENDS Typing, TLAPS

Busy == phase \in {"first", "wait", "off"}

Of(c, e) == e.id = EventIdOf[c] /\ e.to = Receivers[c]

EventsOf(c) ==
    /\ offer # None => Of(c, offer)
    /\ \A i \in DOMAIN channel : Of(c, channel[i])
    /\ Busy => event \in Event /\ Of(c, event) /\ last = EventIdOf[c]

(* No session is hollow, so that the task does not die.                     *)
EInv ==
    ~plan.hollow =>
        /\ \A u \in Users : session[u] # "hollow"
        /\ phase # "dead"
        /\ \A c \in Chats : plan.chats \subseteq {c} => EventsOf(c)

(* A round leaves the users of its event one by one; the one that takes the
   indicator away shows none.                                               *)
Rounds ==
    /\ Busy => todo \subseteq event.to
    /\ phase = "wait" => todo = {}
    /\ phase = "off" => ~event.typing

WInv ==
    Calm => \A u \in Users : shown[u] # {} =>
        /\ shown[u] = {last} /\ u \in event.to
        /\ phase \in {"first", "wait"} \/ (phase = "off" /\ u \in todo)

-----------------------------------------------------------------------------
(* The types.                                                               *)

LEMMA EventParts ==
    ASSUME NEW e \in Event
    PROVE  /\ e.id \in EventIds /\ e.typing \in BOOLEAN /\ e.to \in SUBSET Users
           /\ [e EXCEPT !.typing = FALSE] \in Event
           /\ [e EXCEPT !.typing = FALSE].id = e.id
           /\ [e EXCEPT !.typing = FALSE].to = e.to
           /\ [e EXCEPT !.typing = FALSE].typing = FALSE
BY DEF Event

(* The head of the channel is an event, and the tail is a channel of the
   events that are left.                                                    *)
LEMMA HeadAndTail ==
    ASSUME TypeOK, channel # <<>>
    PROVE  /\ Head(channel) \in Event /\ Head(channel) = channel[1] /\ 1 \in DOMAIN channel
           /\ Tail(channel) \in Seq(Event) /\ Len(Tail(channel)) <= ChannelSize
           /\ \A i \in DOMAIN Tail(channel) : i + 1 \in DOMAIN channel /\ Tail(channel)[i] = channel[i + 1]
BY TypingAssumption DEF TypeOK

LEMMA Pushed ==
    ASSUME TypeOK, offer # None, Len(channel) < ChannelSize
    PROVE  /\ Append(channel, offer) \in Seq(Event) /\ Len(Append(channel, offer)) <= ChannelSize
           /\ \A i \in DOMAIN Append(channel, offer) :
                Append(channel, offer)[i] = offer
                \/ (i \in DOMAIN channel /\ Append(channel, offer)[i] = channel[i])
BY TypingAssumption DEF TypeOK

(* While the task is at an event, it has one, and it holds a Ref only in a
   round.                                                                   *)
HasEvent ==
    /\ Busy => event \in Event
    /\ ref # None => phase \in {"first", "off"}

LEMMA InitTyped == Init => TypeOK /\ HasEvent
<1> SUFFICES ASSUME Init PROVE TypeOK /\ HasEvent
  OBVIOUS
<1>1. session \in [Users -> {"online", "offline", "hollow"}]
  BY DEF Init
<1>2. channel \in Seq(Event) /\ Len(channel) <= ChannelSize
  BY TypingAssumption DEF Init
<1>3. shown \in [Users -> SUBSET EventIds]
  BY DEF Init
<1>4. left \in 0..MaxRequests
  BY TypingAssumption DEF Init
<1>5. /\ guard \in [Users -> {"free", "task", "others", "cleanup"}]
      /\ queue \in [Users -> 0..QueueCap]
  BY TypingAssumption DEF Init
<1> QED BY <1>1, <1>2, <1>3, <1>4, <1>5, TypingAssumption DEF Init, TypeOK, HasEvent, Busy, Phases

LEMMA TypistTyped ==
    ASSUME TypeOK, HasEvent, Request \/ Push \/ PushFails \/ Leave
    PROVE  TypeOK' /\ HasEvent'
<1>1. CASE Request
  <2>1. PICK c \in plan.chats, t \in BOOLEAN :
            offer' = [id |-> EventIdOf[c], typing |-> t, to |-> Receivers[c]]
    BY <1>1 DEF Request
  <2>2. c \in Chats
    BY TypingAssumption DEF TypeOK, PlanType
  <2>3. offer' \in Event
    BY <2>1, <2>2, TypingAssumption DEF Event, EventIds
  <2> QED BY <1>1, <2>3, TypingAssumption DEF Request, TypeOK, HasEvent, Busy, task, others
<1>2. CASE Push
  BY <1>2, Pushed DEF Push, TypeOK, HasEvent, Busy, task, others
<1>3. CASE PushFails
  BY <1>3 DEF PushFails, TypeOK, HasEvent, Busy, task, others
<1>4. CASE Leave
  BY <1>4 DEF Leave, TypeOK, HasEvent, Busy, task, others
<1> QED BY <1>1, <1>2, <1>3, <1>4

LEMMA TaskTyped ==
    ASSUME TypeOK, HasEvent, Receive \/ Delivered \/ Timeout \/ Another \/ Again \/ End
    PROVE  TypeOK' /\ HasEvent'
<1>1. CASE Receive
  BY <1>1, HeadAndTail, EventParts DEF Receive, Take, TypeOK, HasEvent, Busy, typist, others, Phases
<1>2. CASE Delivered
  BY <1>2 DEF Delivered, TypeOK, HasEvent, Busy, typist, others, Phases
<1>3. CASE Timeout
  BY <1>3, EventParts DEF Timeout, TypeOK, HasEvent, Busy, typist, others, Phases
<1>4. CASE Another
  BY <1>4, HeadAndTail, EventParts DEF Another, TypeOK, HasEvent, Busy, typist, others, Phases
<1>5. CASE Again
  BY <1>5, HeadAndTail DEF Again, Take, TypeOK, HasEvent, Busy, typist, others, Phases
<1>6. CASE End
  BY <1>6 DEF End, TypeOK, HasEvent, Busy, typist, others, Phases
<1> QED BY <1>1, <1>2, <1>3, <1>4, <1>5, <1>6

LEMMA RoundTyped ==
    ASSUME TypeOK, HasEvent, NEW u \in Users, Skip(u) \/ Find(u) \/ Lock(u) \/ Send(u) \/ Die(u)
    PROVE  TypeOK' /\ HasEvent'
<1>1. CASE Skip(u)
  BY <1>1 DEF Skip, Looks, TypeOK, HasEvent, Busy, typist, others
<1>2. CASE Find(u)
  BY <1>2 DEF Find, Looks, TypeOK, HasEvent, Busy, typist, others
<1>3. CASE Lock(u)
  BY <1>3 DEF Lock, TypeOK, HasEvent, Busy, typist, task
<1>4. CASE Send(u)
  <2>1. ref = u /\ ref # None
    BY <1>4, TypingAssumption DEF Send
  <2>2. event \in Event
    BY <2>1 DEF HasEvent, Busy
  <2>3. shown[u] \in SUBSET EventIds /\ queue[u] \in 0..QueueCap
    BY DEF TypeOK
  <2>4. shown' \in [Users -> SUBSET EventIds]
    BY <1>4, <2>2, <2>3, EventParts DEF Send, TypeOK
  <2>5. queue' \in [Users -> 0..QueueCap]
    BY <1>4, <2>3, TypingAssumption DEF Send, TypeOK
  <2> QED BY <1>4, <2>4, <2>5 DEF Send, TypeOK, HasEvent, Busy, typist
<1>5. CASE Die(u)
  BY <1>5 DEF Die, TypeOK, HasEvent, Busy, typist, Phases
<1> QED BY <1>1, <1>2, <1>3, <1>4, <1>5

LEMMA OthersTyped ==
    ASSUME TypeOK, HasEvent, NEW u \in Users, Other(u)
    PROVE  TypeOK' /\ HasEvent'
<1>1. queue[u] \in 0..QueueCap
  BY DEF TypeOK
<1>2. CASE Hold(u)
  BY <1>2 DEF Hold, TypeOK, HasEvent, Busy, typist, task
<1>3. CASE Release(u)
  BY <1>1, <1>3, TypingAssumption DEF Release, TypeOK, HasEvent, Busy, typist, task
<1>4. CASE Drain(u)
  BY <1>1, <1>4, TypingAssumption DEF Drain, TypeOK, HasEvent, Busy, typist, task
<1>5. CASE Come(u)
  BY <1>5 DEF Come, TypeOK, HasEvent, Busy, typist, task
<1>6. CASE Disconnect(u)
  BY <1>6, TypingAssumption DEF Disconnect, TypeOK, HasEvent, Busy, typist, task
<1>7. CASE Remove(u)
  BY <1>7 DEF Remove, TypeOK, HasEvent, Busy, typist, task
<1>8. CASE Bind(u)
  BY <1>8, TypingAssumption DEF Bind, TypeOK, HasEvent, Busy, typist, task
<1> QED BY <1>2, <1>3, <1>4, <1>5, <1>6, <1>7, <1>8 DEF Other

LEMMA StepTyped == TypeOK /\ HasEvent /\ [Next]_vars => TypeOK' /\ HasEvent'
<1> SUFFICES ASSUME TypeOK, HasEvent, [Next]_vars PROVE TypeOK' /\ HasEvent'
  OBVIOUS
<1>1. CASE UNCHANGED vars
  BY <1>1 DEF vars, typist, task, others, TypeOK, HasEvent, Busy
<1>2. CASE Next
  BY <1>2, TypistTyped, TaskTyped, RoundTyped, OthersTyped DEF Next, Task
<1> QED BY <1>1, <1>2

-----------------------------------------------------------------------------
(* The events of one chat.                                                  *)

(* Nobody's plan changes, and under one without hollow sessions none is.    *)
LEMMA PlanStays == [Next]_vars => plan' = plan
BY DEF Next, Task, vars, Request, Push, PushFails, Leave, Receive, Take, Die, Delivered,
       Timeout, Another, Again, End, Skip, Find, Lock, Send, Other, Hold, Release, Drain, Come, Disconnect, Remove, Bind

LEMMA NobodyHollow ==
    ASSUME TypeOK, [Next]_vars, ~plan.hollow,
           \A u \in Users : session[u] # "hollow", phase # "dead"
    PROVE  (\A u \in Users : session[u] # "hollow")' /\ phase' # "dead"
<1>1. ASSUME NEW u \in Users, Other(u)
      PROVE  (\A w \in Users : session[w] # "hollow")' /\ phase' = phase
  BY <1>1 DEF Other, Hold, Release, Drain, Come, Disconnect, Remove, Bind, TypeOK, task
<1>2. ASSUME NEW u \in Users, Die(u) PROVE FALSE
  BY <1>2 DEF Die
<1>3. CASE ~\E u \in Users : Other(u) \/ Die(u)
  BY <1>3 DEF Next, Task, vars, task, others, Request, Push, PushFails, Leave, Receive, Take, Skip, Find, Lock, Send,
              Delivered, Timeout, Another, Again, End
<1> QED BY <1>1, <1>2, <1>3

LEMMA EventsStayOf ==
    ASSUME TypeOK, HasEvent, [Next]_vars, NEW c \in Chats, plan.chats \subseteq {c}, EventsOf(c)
    PROVE  EventsOf(c)'
<1>1. CASE Request
  BY <1>1 DEF Request, EventsOf, Of, Busy, task
<1>2. CASE Push
  BY <1>2, Pushed DEF Push, EventsOf, Of, Busy, task
<1>3. CASE PushFails \/ Leave \/ UNCHANGED vars
  BY <1>3 DEF PushFails, Leave, vars, typist, EventsOf, Of, Busy, task
<1>4. CASE Receive
  BY <1>4, HeadAndTail DEF Receive, Take, EventsOf, Of, Busy, typist
<1>5. CASE Delivered \/ End
  BY <1>5 DEF Delivered, End, EventsOf, Of, Busy, typist
<1>6. CASE Timeout
  BY <1>6, EventParts DEF Timeout, HasEvent, EventsOf, Of, Busy, typist
<1>7. CASE Another
  BY <1>7, HeadAndTail, EventParts DEF Another, EventsOf, Of, Busy, typist
<1>8. CASE Again
  BY <1>8, HeadAndTail DEF Again, Take, EventsOf, Of, Busy, typist
<1>9. ASSUME NEW u \in Users, Skip(u) \/ Find(u) \/ Lock(u) \/ Send(u) \/ Die(u) PROVE EventsOf(c)'
  BY <1>9 DEF Skip, Find, Lock, Send, Die, EventsOf, Of, Busy, typist, task
<1>10. ASSUME NEW u \in Users, Other(u) PROVE EventsOf(c)'
  BY <1>10 DEF Other, Hold, Release, Drain, Come, Disconnect, Remove, Bind, EventsOf, Of, Busy, typist, task
<1> QED BY <1>1, <1>2, <1>3, <1>4, <1>5, <1>6, <1>7, <1>8, <1>9, <1>10 DEF Next, Task

LEMMA StepEvents ==
    TypeOK /\ HasEvent /\ EInv /\ [Next]_vars => EInv'
<1> SUFFICES ASSUME TypeOK, HasEvent, EInv, [Next]_vars, ~plan.hollow PROVE EInv'
  BY PlanStays DEF EInv
<1>1. (\A u \in Users : session[u] # "hollow")' /\ phase' # "dead"
  BY NobodyHollow DEF EInv
<1>2. ASSUME NEW c \in Chats, plan'.chats \subseteq {c} PROVE EventsOf(c)'
  BY <1>2, PlanStays, EventsStayOf DEF EInv
<1> QED BY <1>1, <1>2 DEF EInv

-----------------------------------------------------------------------------
(* Who sees the indicator.                                                  *)

LEMMA StepRounds == TypeOK /\ HasEvent /\ Rounds /\ [Next]_vars => Rounds'
<1> SUFFICES ASSUME TypeOK, HasEvent, Rounds, [Next]_vars PROVE Rounds'
  OBVIOUS
<1>1. CASE Request \/ Push \/ PushFails \/ Leave \/ UNCHANGED vars
  BY <1>1 DEF Request, Push, PushFails, Leave, vars, Rounds, Busy, task
<1>2. CASE Receive
  BY <1>2 DEF Receive, Take, Rounds, Busy
<1>3. CASE Delivered \/ End
  BY <1>3 DEF Delivered, End, Rounds, Busy
<1>4. CASE Timeout
  BY <1>4, EventParts DEF Timeout, HasEvent, Rounds, Busy
<1>5. CASE Another
  BY <1>5, HeadAndTail, EventParts DEF Another, Rounds, Busy
<1>6. CASE Again
  BY <1>6 DEF Again, Take, Rounds, Busy
<1>7. ASSUME NEW u \in Users, Skip(u) \/ Find(u) \/ Lock(u) \/ Send(u) \/ Die(u) PROVE Rounds'
  BY <1>7 DEF Skip, Find, Lock, Send, Die, Rounds, Busy, task
<1>8. ASSUME NEW u \in Users, Other(u) PROVE Rounds'
  BY <1>8 DEF Other, Hold, Release, Drain, Come, Disconnect, Remove, Bind, Rounds, Busy, task
<1> QED BY <1>1, <1>2, <1>3, <1>4, <1>5, <1>6, <1>7, <1>8 DEF Next, Task

(* Who is away shows nothing, so that a round may skip them.                *)
Away(u) == session[u] = "offline" \/ guard[u] = "cleanup" => shown[u] = {}
AInv == \A u \in Users : Away(u)

LEMMA StepAway == TypeOK /\ AInv /\ [Next]_vars => AInv'
<1> SUFFICES ASSUME TypeOK, AInv, [Next]_vars, NEW u \in Users PROVE Away(u)'
  BY DEF AInv
<1>1. Away(u)
  BY DEF AInv
<1>2. CASE UNCHANGED others
  BY <1>1, <1>2 DEF others, Away
<1>3. ASSUME NEW w \in Users, Lock(w) \/ Send(w) \/ Die(w) PROVE Away(u)'
  BY <1>1, <1>3 DEF Lock, Send, Die, Away, TypeOK
<1>4. ASSUME NEW w \in Users, Hold(w) \/ Release(w) \/ Drain(w) \/ Come(w) PROVE Away(u)'
  BY <1>1, <1>4 DEF Hold, Release, Drain, Come, Away, TypeOK
<1>5. ASSUME NEW w \in Users, Disconnect(w) \/ Remove(w) \/ Bind(w) PROVE Away(u)'
  BY <1>1, <1>5 DEF Disconnect, Remove, Bind, Away, TypeOK
<1> QED BY <1>2, <1>3, <1>4, <1>5 DEF Next, Task, Other, vars, Request, Push, PushFails, Leave, Receive, Take, Delivered,
             Timeout, Another, Again, End, Skip, Find

(* WInv under one chat c and without hollow sessions.                       *)
Watched(u) ==
    shown[u] # {} =>
        /\ shown[u] = {last} /\ u \in event.to
        /\ phase \in {"first", "wait"} \/ (phase = "off" /\ u \in todo)

LEMMA StepWatched ==
    ASSUME TypeOK, HasEvent, Rounds, [Next]_vars, NEW u \in Users, Watched(u),
           NEW c \in Chats, EventsOf(c), phase # "dead", phase' # "dead",
           session[u] = "offline" => shown[u] = {}
    PROVE  Watched(u)'
<1>1. CASE Request \/ Push \/ PushFails \/ Leave \/ UNCHANGED vars
  BY <1>1 DEF Request, Push, PushFails, Leave, vars, Watched, task, others
<1>2. ASSUME NEW w \in Users, Other(w) PROVE Watched(u)'
  <2>1. shown'[u] \in {shown[u], {}}
    BY <1>2 DEF Other, Hold, Release, Drain, Come, Disconnect, Remove, Bind, TypeOK
  <2> QED BY <1>2, <2>1 DEF Other, Hold, Release, Drain, Come, Disconnect, Remove, Bind, Watched, task
<1>3. CASE Receive
  BY <1>3 DEF Receive, Watched, others
<1>4. CASE Delivered \/ End
  BY <1>4 DEF Delivered, End, Watched, others
<1>5. CASE Timeout
  BY <1>5, EventParts DEF Timeout, HasEvent, Busy, Watched, others
<1>6. CASE Another
  BY <1>6, HeadAndTail, EventParts DEF Another, EventsOf, Of, Busy, Watched, others
<1>7. CASE Again
  BY <1>7, HeadAndTail DEF Again, Take, EventsOf, Of, Busy, Watched, others
<1>8. ASSUME NEW w \in Users, Send(w) PROVE Watched(u)'
  <2>1. CASE w # u
    <3>1. shown'[u] = shown[u] /\ (u \in todo' <=> u \in todo)
      BY <1>8, <2>1 DEF Send, TypeOK
    <3> QED BY <1>8, <3>1 DEF Send, Watched
  <2>2. CASE w = u
    <3>0. u \in todo /\ phase \in {"first", "off"}
      BY <1>8, <2>2, TypingAssumption DEF Send, TypeOK, HasEvent
    <3>1. shown'[u] = IF event.typing THEN shown[u] \cup {event.id} ELSE shown[u] \ {event.id}
      BY <1>8, <2>2 DEF Send, TypeOK
    <3>2. event.id = last /\ u \in event.to
      BY <3>0 DEF EventsOf, Of, Busy, Rounds
    <3>3. shown'[u] \in SUBSET {last} /\ (shown'[u] # {} => event.typing)
      BY <3>1, <3>2 DEF Watched
    <3>4. phase = "off" => ~event.typing
      BY DEF Rounds
    <3> QED BY <1>8, <3>0, <3>2, <3>3, <3>4 DEF Send, Watched
  <2> QED BY <2>1, <2>2
<1>9. ASSUME NEW w \in Users, Find(w) \/ Lock(w) PROVE Watched(u)'
  BY <1>9 DEF Find, Lock, Watched, others, task
<1>10. ASSUME NEW w \in Users, Skip(w) PROVE Watched(u)'
  <2>1. w = u => shown[u] = {}
    BY <1>10 DEF Skip, Looks
  <2> QED BY <1>10, <2>1 DEF Skip, Watched, others
<1>11. ASSUME NEW w \in Users, Die(w) PROVE Watched(u)'
  BY <1>11 DEF Die
<1> QED BY <1>1, <1>2, <1>3, <1>4, <1>5, <1>6, <1>7, <1>8, <1>9, <1>10, <1>11 DEF Next, Task

LEMMA StepWInv ==
    TypeOK /\ HasEvent /\ EInv /\ Rounds /\ AInv /\ WInv /\ [Next]_vars /\ EInv' => WInv'
<1> SUFFICES ASSUME TypeOK, HasEvent, EInv, Rounds, AInv, WInv, [Next]_vars, EInv', Calm'
             PROVE  \A u \in Users : Watched(u)'
  BY DEF WInv, Watched
<1>1. Calm
  BY PlanStays DEF Calm, OneChat
<1>2. PICK c \in Chats : plan.chats \subseteq {c}
  BY <1>1 DEF Calm, OneChat
<1>3. EventsOf(c) /\ phase # "dead" /\ phase' # "dead"
  BY <1>1, <1>2, PlanStays DEF Calm, EInv
<1> QED BY <1>1, <1>3, StepWatched DEF WInv, Watched, AInv, Away

-----------------------------------------------------------------------------
(* Whoever sees the typing indicator, under one chat and while sessions come
   and go whole, wherever the task waits for them, sees that of the task's last chat and is among the users of
   its event, and the task is before its timeout or will still send to this
   user: no indicator is left that nothing takes away.                      *)
THEOREM ShownStaysWatched == Spec => []ShownIsWatched
<1> DEFINE IInv == TypeOK /\ HasEvent /\ EInv /\ Rounds /\ AInv /\ WInv
<1>1. Init => IInv
  <2> SUFFICES ASSUME Init PROVE IInv
    OBVIOUS
  <2>1. ~Busy /\ \A u \in Users : shown[u] = {} /\ session[u] # "hollow"
    BY DEF Init, Busy
  <2>2. offer = None /\ channel = <<>> /\ phase = "idle"
    BY DEF Init
  <2>3. EInv
    BY <2>1, <2>2 DEF EInv, EventsOf
  <2> QED BY <2>1, <2>2, <2>3, InitTyped DEF Rounds, AInv, Away, WInv
<1>2. IInv /\ [Next]_vars => IInv'
  BY StepTyped, StepEvents, StepRounds, StepAway, StepWInv
<1>3. IInv => ShownIsWatched
  BY DEF WInv, ShownIsWatched
<1> QED BY <1>1, <1>2, <1>3, PTL DEF Spec
=============================================================================
