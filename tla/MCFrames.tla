------------------------------- MODULE MCFrames -------------------------------
(* The sizes are scaled down: a buffer of two headers, contents around it.  *)
EXTENDS Frames

CONSTANTS r1, r2

Frames(sizes, ids) == {[size |-> s, id |-> IF s = 0 THEN NoId ELSE i] : s \in sizes, i \in ids}
Plan(frames, n, polite) == [frames |-> frames, count |-> n, polite |-> polite]
MCPlans ==
    {Plan(Frames({1, 7, 9}, {r1, r2}), 3, TRUE),
     Plan(Frames({0, 3, 9}, {r1, NoId, BadId}), 3, TRUE),
     Plan(Frames({0, 2, 9, 11}, {r1}), 2, FALSE)}

(* One frame longer than a segment, two of them, and one that is shorter.    *)
OneFrame   == {Plan(Frames({9}, {r1}), 1, FALSE)}
TwoFrames  == {Plan(Frames({9}, {r1}), 2, FALSE)}
ShortFrame == {Plan(Frames({7}, {r1}), 1, FALSE)}
=============================================================================
