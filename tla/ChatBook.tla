------------------------------ MODULE ChatBook ------------------------------
(***************************************************************************)
(* What the chats of a server promise to its users: who is linked with     *)
(* whom in a private chat, and who belongs to which group.  Each request   *)
(* takes effect at once, its answer tells the truth, and it is refused     *)
(* only when it cannot be served.  Chats.tla implements it.                *)
(***************************************************************************)
EXTENDS FiniteSets

CONSTANTS Handlers, UserOf, Groups, None

VARIABLES pairs,    \* the private chats, each the set of its two users
          members,  \* the users of each group; no one before it is founded
          open,     \* the groups with an invitation link
          req, answer

vars == <<pairs, members, open, req, answer>>

Users == {UserOf[h] : h \in Handlers}

Silent == [kind |-> "none", shows |-> {}]
Fine(S) == [kind |-> "ok", shows |-> S]
NotFound == [kind |-> "absent", shows |-> {}]
Refusal == [kind |-> "error", shows |-> {}]

Peers(u) == {v \in Users : {u, v} \in pairs}
GroupsOf(u) == {g \in Groups : u \in members[g]}
Knows(u, key) == key \in Peers(u) \cup GroupsOf(u)

Init ==
    /\ pairs = {}
    /\ members = [g \in Groups |-> {}]
    /\ open = {}
    /\ req = [h \in Handlers |-> None]
    /\ answer = [h \in Handlers |-> Silent]

Ask(h, r) ==
    /\ req[h] = None
    /\ req' = [req EXCEPT ![h] = r]
    /\ answer' = [answer EXCEPT ![h] = Silent]
    /\ UNCHANGED <<pairs, members, open>>

Serves(h, ops) == req[h] # None /\ req[h].op \in ops
Key(h) == req[h].key

Reply(h, a) ==
    /\ req' = [req EXCEPT ![h] = None]
    /\ answer' = [answer EXCEPT ![h] = a]

(* A first message links its two users; one to a group reaches its members. *)
Post(h) ==
    /\ Serves(h, {"send"})
    /\ Key(h) \in Users \cup {g \in Groups : members[g] # {}}
    /\ LET me == UserOf[h] IN
       IF Key(h) \in Users
       THEN pairs' = pairs \cup {{me, Key(h)}} /\ Reply(h, Fine({me, Key(h)}))
       ELSE pairs' = pairs /\ Reply(h, Fine(members[Key(h)]))
    /\ UNCHANGED <<members, open>>

Found(h) ==
    /\ Serves(h, {"group"})
    /\ \E g \in Groups :
        /\ members[g] = {}
        /\ members' = [members EXCEPT ![g] = {UserOf[h]}]
        /\ Reply(h, Fine({UserOf[h]}))
    /\ UNCHANGED <<pairs, open>>

Invite(h) ==
    /\ Serves(h, {"link"})
    /\ Key(h) \in GroupsOf(UserOf[h])
    /\ open' = open \cup {Key(h)}
    /\ Reply(h, Fine({}))
    /\ UNCHANGED <<pairs, members>>

Enter(h) ==
    /\ Serves(h, {"join"})
    /\ Key(h) \in open
    /\ UserOf[h] \notin members[Key(h)]
    /\ members' = [members EXCEPT ![Key(h)] = @ \cup {UserOf[h]}]
    /\ Reply(h, Fine(members[Key(h)]))
    /\ UNCHANGED <<pairs, open>>

NoLink(h) ==
    /\ Serves(h, {"join"})
    /\ Key(h) \notin open
    /\ Reply(h, NotFound)
    /\ UNCHANGED <<pairs, members, open>>

(* Who is in the chat one looks at, or whom a change in it is told to.      *)
Look(h) ==
    /\ Serves(h, {"touch", "info"})
    /\ Knows(UserOf[h], Key(h))
    /\ Reply(h, Fine(IF Key(h) \in Users THEN {UserOf[h], Key(h)} ELSE members[Key(h)]))
    /\ UNCHANGED <<pairs, members, open>>

List(h) ==
    /\ Serves(h, {"chats"})
    /\ Reply(h, Fine(Peers(UserOf[h]) \cup GroupsOf(UserOf[h])))
    /\ UNCHANGED <<pairs, members, open>>

Part(h) ==
    /\ Serves(h, {"delete"})
    /\ {UserOf[h], Key(h)} \in pairs
    /\ pairs' = pairs \ {{UserOf[h], Key(h)}}
    /\ Reply(h, Fine({}))
    /\ UNCHANGED <<members, open>>

(* Refused: a chat one is not in, a group that is not there, a second join. *)
Refuse(h) ==
    /\ \/ Serves(h, {"touch", "info", "delete"}) /\ ~Knows(UserOf[h], Key(h))
       \/ Serves(h, {"link"}) /\ Key(h) \notin GroupsOf(UserOf[h])
       \/ Serves(h, {"send"}) /\ Key(h) \in Groups /\ members[Key(h)] = {}
       \/ Serves(h, {"join"}) /\ UserOf[h] \in members[Key(h)]
    /\ Reply(h, Refusal)
    /\ UNCHANGED <<pairs, members, open>>

Next ==
    \E h \in Handlers :
        \/ \E r \in [op : {"send", "group", "link", "join", "touch", "info", "delete", "chats"},
                     key : Users \cup Groups \cup {None}] : Ask(h, r)
        \/ Post(h) \/ Found(h) \/ Invite(h) \/ Enter(h) \/ NoLink(h)
        \/ Look(h) \/ List(h) \/ Part(h) \/ Refuse(h)

Spec == Init /\ [][Next]_vars
=============================================================================
