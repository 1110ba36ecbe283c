------------------------------- MODULE ChatLog -------------------------------
(***************************************************************************)
(* What the messages of one chat promise to its members: a log in which a  *)
(* message gets the id after the latest one, is acknowledged to its sender *)
(* with that id, and keeps its author and the author's words until it is   *)
(* erased; in a group only the author erases.  Messages.tla implements it. *)
(***************************************************************************)
EXTENDS Integers

CONSTANTS Handlers, UserOf, Texts, WriterOf, MaxId, None

VARIABLES isGroup, log, mine, answer

vars == <<isGroup, log, mine, answer>>

Ids == -1..MaxId

Silent == [kind |-> "none", ids |-> {}]
Fine(S) == [kind |-> "ok", ids |-> S]
Refusal == [kind |-> "error", ids |-> {}]

Present == {i \in Ids : log[i] # None}
IsNext(i) == i \in Ids /\ i >= 0 /\ (i = 0 \/ i - 1 \in Present) /\ \A j \in Present : j < i
Words(h) == {None} \cup {t \in Texts : WriterOf[t] = UserOf[h]}
Answer(h, a) == answer' = [answer EXCEPT ![h] = a]

Init ==
    /\ isGroup \in BOOLEAN
    /\ log = [i \in Ids |-> None]
    /\ mine = [h \in Handlers |-> None]
    /\ answer = [h \in Handlers |-> Silent]

Ask(h) == Answer(h, Silent) /\ UNCHANGED <<isGroup, log, mine>>

Post(h) ==
    /\ mine[h] = None
    /\ \E i \in Ids, t \in Words(h) :
        /\ IsNext(i)
        /\ log' = [log EXCEPT ![i] = [from |-> UserOf[h], text |-> t]]
        /\ mine' = [mine EXCEPT ![h] = i]
    /\ UNCHANGED <<isGroup, answer>>

(* The sender learns the id of its own message, and the message is there.   *)
Confirm(h) ==
    /\ mine[h] \in Present
    /\ log[mine[h]].from = UserOf[h]
    /\ Answer(h, Fine({mine[h]}))
    /\ mine' = [mine EXCEPT ![h] = None]
    /\ UNCHANGED <<isGroup, log>>

Amend(h) ==
    /\ \E i \in Present, t \in Words(h) :
        /\ log[i].from = UserOf[h]
        /\ log' = [log EXCEPT ![i] = [from |-> UserOf[h], text |-> t]]
    /\ Answer(h, Fine({}))
    /\ UNCHANGED <<isGroup, mine>>

Erase(h) ==
    /\ \E i \in Ids :
        /\ log[i] # None /\ isGroup => log[i].from = UserOf[h]
        /\ log' = [log EXCEPT ![i] = None]
    /\ answer' = answer \/ Answer(h, Fine({}))
    /\ UNCHANGED <<isGroup, mine>>

Clear(h) ==
    /\ log' = [i \in Ids |-> None]
    /\ Answer(h, Fine({}))
    /\ UNCHANGED <<isGroup, mine>>

(* A fetch answers with a part of the log that has no gap.                  *)
NoGap(S) == \A i, k \in S : \A j \in Present : i <= j /\ j <= k => j \in S

Look(h) ==
    /\ \E S \in SUBSET Present : NoGap(S) /\ Answer(h, Fine(S))
    /\ UNCHANGED <<isGroup, log, mine>>

See(h) == Answer(h, Fine({})) /\ UNCHANGED <<isGroup, log, mine>>

(* A request is refused only to someone who may have named another's message. *)
Refuse(h) ==
    /\ mine[h] = None
    /\ \E i \in Present : log[i].from # UserOf[h]
    /\ Answer(h, Refusal)
    /\ UNCHANGED <<isGroup, log, mine>>

(* The server process ends and starts again: the log is kept.               *)
Restart ==
    /\ mine' = [h \in Handlers |-> None]
    /\ answer' = [h \in Handlers |-> Silent]
    /\ UNCHANGED <<isGroup, log>>

Next ==
    \/ \E h \in Handlers : Ask(h) \/ Post(h) \/ Confirm(h) \/ Amend(h)
                           \/ Erase(h) \/ Clear(h) \/ Look(h) \/ See(h) \/ Refuse(h)
    \/ Restart

Spec == Init /\ [][Next]_vars
=============================================================================
