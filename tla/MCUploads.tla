------------------------------ MODULE MCUploads ------------------------------
(* Metadata of two bytes, files of some bytes, segments of up to a request.  *)
EXTENDS Uploads

Plan(kinds, sizes, n, patient, whole, failing, debug) ==
    [kinds |-> kinds, sizes |-> sizes, count |-> n, patient |-> patient,
     whole |-> whole, failing |-> failing, debug |-> debug]

MCPlans ==
    {Plan({"upload", "download"}, {1, 5}, 3, TRUE, TRUE, FALSE, TRUE),
     Plan(Kinds, {0, 2, 6}, 2, FALSE, TRUE, TRUE, TRUE),
     Plan({"upload"}, {1}, 2, FALSE, FALSE, FALSE, FALSE),
     Plan({"upload", "download"}, {3}, 2, TRUE, FALSE, TRUE, TRUE)}

(* Two uploads, one after the other without an answer between them.          *)
Pipelined == {Plan({"upload"}, {3}, 2, FALSE, TRUE, FALSE, FALSE)}
=============================================================================
