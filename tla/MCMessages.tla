----------------------------- MODULE MCMessages -----------------------------
(* Two users of one chat, u and v, each with one connection.               *)
EXTENDS Messages, TLC

CONSTANTS h1, h2, u, v, tu, tv

TwoUserOf == (h1 :> u) @@ (h2 :> v)
MCTexts == {tu, tv}
MCWriterOf == (tu :> u) @@ (tv :> v)

Plain == [op |-> "clear", text |-> None, flag |-> "kept", ids |-> <<>>, start |-> 0, end |-> 0]
Send == {[Plain EXCEPT !.op = "send", !.text = t] : t \in MCTexts}
Edit(ids) == {[Plain EXCEPT !.op = "edit", !.text = t, !.flag = f, !.ids = <<i>>] :
                 t \in MCTexts \cup {None}, f \in {"kept", "true"}, i \in ids}
Lists == {<<0>>, <<0, 1>>}
OnLists(op) == {[Plain EXCEPT !.op = op, !.ids = l] : l \in Lists}
Fetch == {[Plain EXCEPT !.op = "fetch", !.start = -1, !.end = e] : e \in {0, -1}}

MCRequests == {Plain} \cup Send \cup Edit({0, 1}) \cup OnLists("mark") \cup OnLists("delete") \cup Fetch

Both(x, y) == (h1 :> x) @@ (h2 :> y)
Keeping == {"send", "edit", "mark", "fetch"}
Plan(x, y, turns, failing) == [asks |-> Both(x, y), turns |-> turns, failing |-> failing]
MCPlans ==
    {Plan(Ops, Ops, "requests", FALSE),
     Plan({"send", "delete"}, {"send", "mark", "edit", "clear"}, "requests", TRUE),
     Plan({"send", "edit", "delete"}, {"send", "mark", "clear"}, "none", FALSE),
     Plan(Keeping, Keeping, "sends", FALSE),
     Plan(Keeping, Keeping, "none", TRUE),
     Plan(Keeping, {"send", "fetch"}, "sends", TRUE)}
(* The window [-1, -n] is the latest message and the n ids before it, [-1, 0]
   the latest alone, and [s, e] the ids from s to e.                        *)
Selected(s, e) == {i \in 0..4 : InRange(i, ValidRange(s, e))}
ASSUME WindowIsLatest ==
    /\ \A l \in 0..4, n \in 0..6 : Selected(l, -n) = {i \in 0..4 : l - n <= i /\ i <= l}
    /\ \A s \in 0..4, e \in 1..4 : Selected(s, e) = s..e

OnePlan == {Plan({"send", "edit"}, {}, "requests", FALSE)}

=============================================================================
