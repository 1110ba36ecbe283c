------------------------------- MODULE MCTyping -------------------------------
(* The typist has private chats with u and v, and a group with both.       *)
EXTENDS Typing, TLC

CONSTANTS u, v, cu, cv, g, self

MCEventIdOf == (cu :> self) @@ (cv :> self) @@ (g :> g)
MCReceivers == (cu :> {u}) @@ (cv :> {v}) @@ (g :> {u, v})
MCShardOf == (u :> 1) @@ (v :> 2)
Plan(cs, moves, hollow, debug) == [chats |-> cs, moves |-> moves, hollow |-> hollow, debug |-> debug]
MCPlans == {Plan({g}, FALSE, FALSE, TRUE), Plan({g}, TRUE, FALSE, TRUE), Plan({cu, g}, FALSE, FALSE, TRUE),
            Plan({cu, cv}, TRUE, FALSE, TRUE), Plan({cu}, TRUE, TRUE, TRUE), Plan({cu}, FALSE, TRUE, FALSE)}

(* The others leave while the typist writes to them.                        *)
Leaving == {Plan({cu}, TRUE, FALSE, TRUE)}
=============================================================================
