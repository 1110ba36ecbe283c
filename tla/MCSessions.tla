---------------------------- MODULE MCSessions ----------------------------
(***************************************************************************)
(* Small instances of Sessions.  Two users, three connections; the         *)
(* workloads differ in what the clients may do.                            *)
(***************************************************************************)
EXTENDS Sessions, FiniteSets

CONSTANTS c1, c2, c3, u1, u2, u3, e1, e2

OneShard  == [u \in Users |-> "s1"]

(* One authenticating connection per user; c3 never logs in and is bound   *)
(* to the session of u1, the use add_connection is documented for.         *)
OneLoginEach  == {<<c1, u1>>, <<c2, u2>>}
OneLogin      == {<<c1, u1>>}
FreshBind     == {<<c3, u1>>}

(* Any connection may log in, log in again, and bind.                      *)
AnyLogin      == {<<c1, u1>>, <<c2, u1>>, <<c2, u2>>}
AnyBind       == {<<c1, u2>>, <<c2, u1>>, <<c3, u1>>}

(* The user of c1 stays and gets the events, that of c2 sends them, shares  *)
(* the shard of u1 and leaves, and u3 is never there.                       *)
StaysOrAway == {<<u1>>, <<u1, u3>>, <<u3, u1>>}
LiveShards  == (u1 :> "s1") @@ (u2 :> "s1") @@ (u3 :> "s2")

(* The recipient leaves.                                                   *)
Leaves      == {<<u2>>}
OwnShards   == (u1 :> "s1") @@ (u2 :> "s2")

(* A third user logs in while the first is sent an event by the second.    *)
LoginOfEach == {<<c1, u1>>, <<c2, u2>>, <<c3, u3>>}
Stays       == {<<u1>>}

Group  == {<<u1>>, <<u2>>}
NoBind == {}

(* On lists without repetition Detach is Vec::retain.                      *)
ASSUME DetachIsRetain ==
    \A n \in 0..3 : \A list \in [1..n -> 1..3] :
        IsInjective(list) => \A x \in 1..3 : Detach(list, x) = Remove(list, x)
=============================================================================
