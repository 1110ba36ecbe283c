----------------------------- MODULE MCAccounts -----------------------------
(* Connections a and b, at most two accounts.                              *)
EXTENDS Accounts, TLC

CONSTANTS a, b, n, m, bad, empty, p, q, u, v

MCShape == (n :> "valid") @@ (m :> "valid") @@ (bad :> "invalid") @@ (empty :> "unsliceable")

Plain == [op |-> "edit", name |-> None, password |-> None, user |-> None, session |-> None]
With(op, ns, ps) == {[Plain EXCEPT !.op = op, !.name = x, !.password = y] : x \in ns, y \in ps}
MCRequests ==
    With("register", {n}, {p, q}) \cup With("register", {m, bad, empty}, {p})
    \cup With("login", {n}, {p, q}) \cup With("login", {m}, {p})
    \cup With("check", {n}, {None}) \cup With("edit", {n, bad, None}, {q, None})
    \cup {[Plain EXCEPT !.op = "auth", !.user = x, !.session = s] : x \in {u, v}, s \in 1..MaxSession}

Asks(x, y) == (a :> x) @@ (b :> y)
Plan(asks, apart, renames, failing, crashes) ==
    [asks |-> asks, apart |-> apart, renames |-> renames, failing |-> failing, crashes |-> crashes]
Pairs(x, y) == {{i, j} : i \in x, j \in y}
Stores == {"register", "login"}

MCPlans ==
    {Plan(Asks(Stores \cup {"auth"}, Ops), Pairs({"register"}, {"register"}), FALSE, TRUE, FALSE),
     Plan(Asks(Ops, Ops), Pairs(Stores, Stores), FALSE, FALSE, TRUE),
     Plan(Asks(Stores \cup {"auth"}, Stores \cup {"check"}), {}, FALSE, TRUE, TRUE),
     Plan(Asks(Stores, Ops), Pairs(Stores, Stores), TRUE, FALSE, FALSE)}

(* Only registrations, and nothing fails.                                  *)
Registrations == {Plan(Asks({"register"}, {"register"}), {}, FALSE, FALSE, FALSE)}
InTurn == {Plan(Asks({"register"}, {}), Pairs(Ops, Ops), FALSE, FALSE, FALSE)}
=============================================================================
