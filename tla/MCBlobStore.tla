----------------------------- MODULE MCBlobStore -----------------------------
(* Three uploads, two of them of one file, and one download.        *)
EXTENDS BlobStore

CONSTANTS u1, u2, u3, file1, file2, d1

Same == [u \in {u1, u2, u3} |-> IF u = u3 THEN file2 ELSE file1]

Plan(first, second, third, thumbnails, mounted, prompt, faulty, n) ==
    [file |-> Same,
     kind |-> [u \in {u1, u2, u3} |-> CASE u = u1 -> first [] u = u2 -> second [] u = u3 -> third],
     thumbnail |-> [x \in {file1, file2} |-> IF x = file1 THEN thumbnails ELSE "made"],
     mounted |-> mounted, prompt |-> prompt, faulty |-> faulty, crashes |-> n]

MCPlans ==
    {Plan(a, b, "document", "made", TRUE, TRUE, FALSE, 0) : a, b \in {"document", "media"}}
    \cup {Plan("media", "document", "dotless", t, m, TRUE, TRUE, 1) : t \in {"none", "error"}, m \in BOOLEAN}
    \cup {Plan("media", "media", "document", "made", FALSE, FALSE, FALSE, 1)}

(* Documents only: the process ends once, or a write is late.              *)
Documents(prompt, n) ==
    {Plan("document", "document", "document", "made", TRUE, prompt, FALSE, n)}
CrashOnce == Documents(TRUE, 1)
LateWrite == Documents(FALSE, 0)
=============================================================================
