------------------------------- MODULE MCChats -------------------------------
(* Users u and v; u is connected twice.                                    *)
EXTENDS Chats, TLC

CONSTANTS h1, h2, h3, u, v, c1, c2, g

ThreeUserOf == (h1 :> u) @@ (h2 :> v) @@ (h3 :> u)

Asks(a, b, c) == (h1 :> a) @@ (h2 :> b) @@ (h3 :> c)
Pairs(a, b) == {{x, y} : x \in a, y \in b}
Plan(asks, deletes, apart, crashes, failing) ==
    [asks |-> asks, deletes |-> deletes, apart |-> apart, crashes |-> crashes, failing |-> failing]

Private == {"send", "info", "delete", "chats"}
Grouping == {"group", "link", "join", "touch", "chats"}
Alone == Pairs({"delete"}, Ops)
SendsApart == Pairs({"send"}, {"send"})
JoinsApart == Pairs({"join"}, {"join"})

MCPlans ==
    {Plan(Asks(Ops, Ops, {}), {u, v}, Pairs(Ops, Ops), FALSE, FALSE),
     Plan(Asks(Ops, Ops, {}), {u, v, g}, Pairs(Ops, Ops), TRUE, TRUE),
     Plan(Asks(Private, Private, {}), {u, v}, {}, TRUE, FALSE),
     Plan(Asks(Private, Private, {}), {u, v}, Alone \cup SendsApart, FALSE, FALSE),
     Plan(Asks(Grouping, Grouping, {}), {}, JoinsApart \cup Alone, TRUE, TRUE),
     Plan(Asks(Ops, Ops, {}), {u, v}, Alone, FALSE, FALSE),
     Plan(Asks({"join", "touch"}, {"group", "link", "chats"}, {"join", "chats"}), {}, JoinsApart \cup Alone, TRUE, TRUE),
     Plan(Asks({"group", "send", "delete"}, {"join", "send", "chats"}, {"link", "touch", "join"}), {u, v},
          JoinsApart \cup SendsApart \cup Alone, FALSE, FALSE)}

(* A group is deleted, or a query fails; nothing else.                     *)
GroupDeleted == {Plan(Asks(Ops, Ops, {}), {g}, Pairs(Ops, Ops), FALSE, FALSE)}
QueriesFail  == {Plan(Asks({"send"}, {"send"}, {}), {}, Pairs(Ops, Ops), FALSE, TRUE)}

(* Somebody else founds a group while a private chat is deleted.           *)
FoundsMeanwhile == {Plan(Asks({"send", "delete"}, {"group"}, {}), {v}, {}, FALSE, FALSE)}
=============================================================================
