--------------------------- MODULE BlobStoreProofs ---------------------------
(***************************************************************************)
(* Proofs about BlobStore for any uploads, files, downloads and plans.     *)
(***************************************************************************)
EXTENDS BlobStore, SequenceTheorems, TLAPS

(* A download that still sends has something left to send.                  *)
SendsSomething ==
    \A d \in Downloads : fetch[d] # None /\ fetch[d].pc = "send" => fetch[d].left # <<>>

(* Past the copy, the copy is there.                                        *)
CopyMade == \A u \in Uploads : pc[u] \in {"remove", "thumbnail", "row"} => u \in copied

TInv == TypeOK /\ SendsSomething /\ CopyMade

-----------------------------------------------------------------------------
(* Types.                                                                   *)

LEMMA PlanFields ==
    ASSUME TypeOK
    PROVE  /\ plan \in PlanType
           /\ \A u \in Uploads : File(u) \in Files /\ plan.kind[u] \in Kinds
           /\ \A f \in Files : plan.thumbnail[f] \in Thumbnails
           /\ plan.mounted \in BOOLEAN /\ plan.prompt \in BOOLEAN /\ plan.faulty \in BOOLEAN
           /\ plan.crashes \in Nat
  BY BlobStoreAssumption DEF TypeOK, PlanType, File

LEMMA FetchFields ==
    ASSUME NEW x \in Fetch
    PROVE  /\ x.file \in Files /\ x.mode \in Modes
           /\ x.pc \in {"row", "open", "send", "over"}
           /\ x.left \in Seq(Parts)
           /\ x.result \in {"none", "unknown", "internal", "failed", "whole"}
  BY DEF Fetch

LEMMA SendsParts ==
    ASSUME NEW f \in Files, NEW m \in Modes
    PROVE  Sends(f, m) \in Seq(Parts) /\ Sends(f, m) # <<>>
  <1> DEFINE main == <<<<"main", f>>>>
             preview == <<<<"preview", f>>>>
  <1>1. main \in Seq(Parts) /\ main # <<>> /\ preview \in Seq(Parts) /\ preview # <<>>
    BY DEF Parts
  <1>2. preview \o main \in Seq(Parts) /\ Len(preview \o main) = 2
    BY <1>1, ConcatProperties
  <1>3. preview \o main # <<>>
    BY <1>2, EmptySeq
  <1>4. Sends(f, m) \in {main, preview, preview \o main}
    BY DEF Sends, Modes
  <1> QED BY <1>1, <1>2, <1>3, <1>4

LEMMA TailOfParts ==
    ASSUME NEW s \in Seq(Parts), s # <<>>
    PROVE  Tail(s) \in Seq(Parts)
  BY HeadTailProperties

LEMMA FetchOver ==
    ASSUME NEW x \in Fetch
    PROVE  /\ [x EXCEPT !.pc = "over"] \in Fetch
           /\ [x EXCEPT !.pc = "over"].pc = "over"
           /\ [x EXCEPT !.pc = "over"].file = x.file
           /\ [x EXCEPT !.pc = "over"].result = x.result
  BY DEF Fetch

(* What the end of the process does to types.                               *)
LEMMA DownTypes ==
    ASSUME TInv, Down
    PROVE  /\ mode' \in {"up", "down"}
           /\ crashes' \in Nat
           /\ pc' \in [Uploads -> Pcs]
           /\ fetch' \in [Downloads -> Fetch \cup {None}]
           /\ SendsSomething'
           /\ \A u \in Uploads : pc'[u] \in {"new", "over"}
  <1>1. \A d \in Downloads : fetch'[d] = None \/ (fetch'[d] \in Fetch /\ fetch'[d].pc = "over")
    <2> SUFFICES ASSUME NEW d \in Downloads, fetch'[d] # None
                 PROVE  fetch'[d] \in Fetch /\ fetch'[d].pc = "over"
      OBVIOUS
    <2>1. fetch[d] \in Fetch /\ fetch'[d] = [fetch[d] EXCEPT !.pc = "over"]
      BY Zenon DEF Down, TInv, TypeOK
    <2> QED BY <2>1, FetchOver
  <1>2. fetch' = [d \in Downloads |-> fetch'[d]]
    BY DEF Down
  <1>3. pc' \in [Uploads -> Pcs] /\ mode' = "down" /\ crashes' \in Nat
    BY DEF Down, TInv, TypeOK, Pcs
  <1>4. fetch' \in [Downloads -> Fetch \cup {None}]
    BY <1>1, <1>2
  <1>5. \A u \in Uploads : pc'[u] \in {"new", "over"}
    BY DEF Down
  <1>6. SendsSomething'
    BY <1>1 DEF SendsSomething
  <1> QED BY <1>3, <1>4, <1>5, <1>6

LEMMA InitTypes == Init => TInv
  BY BlobStoreAssumption DEF Init, TInv, TypeOK, SendsSomething, CopyMade, Pcs, PlanType

LEMMA UploadTypes ==
    ASSUME TInv, NEW u \in Uploads, Start(u) \/ Received(u) \/ Leave(u) \/ Finalize(u)
    PROVE  TInv'
  <1> USE DEF TInv, CopyMade, At, Goto, Silent, disk
  <1>1. File(u) \in Files
    BY PlanFields
  <1>2. CASE Start(u) \/ Received(u) \/ Leave(u)
    BY <1>2 DEF Start, Received, Leave, TypeOK, SendsSomething, Pcs
  <1>3. CASE Base(u)
    <2>1. CASE ~Silent
      BY <2>1, <1>3, DownTypes DEF Base, TypeOK
    <2>2. CASE Silent
      BY <2>2, <1>3 DEF Base, TypeOK, SendsSomething, Pcs, Down
    <2> QED BY <2>1, <2>2
  <1>4. CASE MakeBase(u) \/ Exists(u) \/ Drop(u)
    BY <1>4 DEF MakeBase, Exists, Drop, Answer, TypeOK, SendsSomething, Pcs
  <1>5. CASE MakeDir(u)
    BY <1>1, <1>5 DEF MakeDir, Answer, TypeOK, SendsSomething, Pcs
  <1>6. CASE Copy(u) \/ RemoveTemp(u)
    BY <1>6 DEF Copy, RemoveTemp, AfterCopy, TypeOK, SendsSomething, Pcs
  <1>7. CASE Thumbnail(u)
    <2>1. CASE ~Silent
      BY <2>1, <1>7, DownTypes DEF Thumbnail, TypeOK
    <2>2. CASE Silent
      <3>1. previews' \subseteq copied'
        BY <1>7, <2>2 DEF Thumbnail, TypeOK
      <3>2. ~Down
        BY <1>7, <2>2 DEF Thumbnail, Down
      <3> QED BY <3>1, <3>2, <2>2, <1>7 DEF Thumbnail, Outcomes, Thumbnails, Answer, TypeOK, SendsSomething, Pcs
    <2> QED BY <2>1, <2>2
  <1>8. CASE AddRow(u) \/ Fail(u)
    BY <1>1, <1>8 DEF AddRow, Fail, AddHash, Answer, TypeOK, SendsSomething, Pcs
  <1> QED BY <1>2, <1>3, <1>4, <1>5, <1>6, <1>7, <1>8 DEF Finalize

(* A step of a download changes what that download has and nothing else.     *)
FetchStep(d) ==
    /\ fetch[d] # None =>
           /\ fetch'[d].file = fetch[d].file
           /\ fetch[d].pc # "over"
    /\ fetch' = [fetch EXCEPT ![d] = fetch'[d]]
    /\ fetch'[d] \in Fetch
    /\ fetch'[d].pc = "send" => fetch'[d].left # <<>>
    /\ UNCHANGED <<mode, plan, crashes, disk, rows, pc, answer>>

LEMMA AskSteps ==
    ASSUME TInv, NEW d \in Downloads, Ask(d)
    PROVE  FetchStep(d) /\ fetch'[d].pc = "row" /\ fetch'[d].result = "none"
  <1>1. PICK u \in Uploads, m \in Modes :
            fetch' = [fetch EXCEPT ![d] = [file |-> File(u), mode |-> m, pc |-> "row",
                                           left |-> <<>>, result |-> "none"]]
    BY DEF Ask
  <1>2. File(u) \in Files
    BY PlanFields DEF TInv
  <1> QED BY <1>1, <1>2 DEF Ask, FetchStep, TInv, TypeOK, Fetch

LEMMA TurnsSteps ==
    ASSUME TInv, NEW d \in Downloads, fetch[d] # None, fetch[d].pc # "over",
           NEW p \in {"row", "open", "send", "over"}, NEW l \in Seq(Parts), p = "send" => l # <<>>,
           NEW r \in {"none", "unknown", "internal", "failed", "whole"},
           Turns(d, p, l, r)
    PROVE  FetchStep(d) /\ fetch'[d].pc = p /\ fetch'[d].result = r
  <1> DEFINE y == [file |-> fetch[d].file, mode |-> fetch[d].mode, pc |-> p, left |-> l, result |-> r]
  <1>1. fetch[d] \in Fetch
    BY DEF TInv, TypeOK
  <1>2. y \in Fetch
    BY <1>1 DEF Fetch
  <1> QED BY <1>1, <1>2 DEF Turns, FetchStep, TInv, TypeOK

LEMMA LookSteps ==
    ASSUME TInv, NEW d \in Downloads, Look(d)
    PROVE  /\ FetchStep(d) /\ fetch'[d].pc \in {"open", "over"}
           /\ fetch'[d].pc = "open" => Found(fetch[d].file)
           /\ fetch'[d].result \in {"none", "unknown"}
  <1>1. fetch[d] # None /\ fetch[d].pc = "row" /\ <<>> \in Seq(Parts)
    BY DEF Look, Fetching
  <1>2. CASE Found(fetch[d].file) /\ Turns(d, "open", <<>>, "none")
    BY <1>1, <1>2, TurnsSteps
  <1>3. CASE ~Found(fetch[d].file) /\ Turns(d, "over", <<>>, "unknown")
    BY <1>1, <1>3, TurnsSteps
  <1> QED BY <1>2, <1>3 DEF Look

LEMMA OpenSteps ==
    ASSUME TInv, NEW d \in Downloads, Open(d)
    PROVE  /\ FetchStep(d) /\ fetch[d].pc = "open" /\ fetch'[d].pc \in {"send", "over"}
           /\ fetch'[d].result \in {"none", "internal"}
           /\ fetch'[d].result = "internal" => ~Complete(fetch[d].file)
  <1> DEFINE f == fetch[d].file
             l == Sends(f, fetch[d].mode)
  <1>1. fetch[d] # None /\ fetch[d].pc = "open" /\ fetch[d] \in Fetch /\ <<>> \in Seq(Parts)
    BY DEF Open, Fetching, TInv, TypeOK
  <1>2. l \in Seq(Parts) /\ l # <<>>
    BY <1>1, FetchFields, SendsParts
  <1>3. CASE Complete(f) /\ Turns(d, "send", l, "none")
    BY <1>1, <1>2, <1>3, TurnsSteps
  <1>4. CASE ~Complete(f) /\ Turns(d, "over", <<>>, "internal")
    BY <1>1, <1>4, TurnsSteps
  <1> QED BY <1>1, <1>3, <1>4 DEF Open

LEMMA SendPartSteps ==
    ASSUME TInv, NEW d \in Downloads, SendPart(d)
    PROVE  /\ FetchStep(d) /\ fetch[d].pc = "send" /\ fetch'[d].pc \in {"send", "over"}
           /\ fetch'[d].result \in {"none", "whole"}
  <1> DEFINE l == Tail(fetch[d].left)
  <1>1. fetch[d] # None /\ fetch[d].pc = "send" /\ fetch[d] \in Fetch /\ <<>> \in Seq(Parts)
    BY DEF SendPart, Fetching, TInv, TypeOK
  <1>2. l \in Seq(Parts)
    BY <1>1, FetchFields, TailOfParts DEF TInv, SendsSomething
  <1>3. CASE l = <<>> /\ Turns(d, "over", <<>>, "whole")
    BY <1>1, <1>3, TurnsSteps
  <1>4. CASE l # <<>> /\ Turns(d, "send", l, "none")
    BY <1>1, <1>2, <1>4, TurnsSteps
  <1> QED BY <1>1, <1>3, <1>4 DEF SendPart

LEMMA FetchFailsSteps ==
    ASSUME TInv, NEW d \in Downloads, FetchFails(d)
    PROVE  FetchStep(d) /\ fetch'[d].pc = "over" /\ fetch'[d].result = "failed"
  <1>1. fetch[d] # None /\ fetch[d].pc # "over" /\ <<>> \in Seq(Parts)
    BY DEF FetchFails, Fetching
  <1> QED BY <1>1, TurnsSteps DEF FetchFails

LEMMA DownloadTypes ==
    ASSUME TInv, NEW d \in Downloads, FetchStep(d)
    PROVE  TInv'
  BY DEF FetchStep, TInv, SendsSomething, CopyMade, TypeOK, disk

LEMMA DownloadSteps ==
    ASSUME TInv, NEW d \in Downloads, Ask(d) \/ Serve(d)
    PROVE  FetchStep(d)
  BY AskSteps, LookSteps, OpenSteps, SendPartSteps, FetchFailsSteps DEF Serve

LEMMA NextTypes == TInv /\ [Next]_vars => TInv'
  <1> SUFFICES ASSUME TInv, [Next]_vars
               PROVE  TInv'
    OBVIOUS
  <1>1. CASE \E u \in Uploads : Start(u) \/ Received(u) \/ Leave(u) \/ Finalize(u)
    BY <1>1, UploadTypes
  <1>2. CASE \E d \in Downloads : Ask(d) \/ Serve(d)
    BY <1>2, DownloadSteps, DownloadTypes
  <1>3. CASE Crash
    BY <1>3, DownTypes DEF Crash, TInv, TypeOK, CopyMade, disk
  <1>4. CASE Restart \/ Done \/ UNCHANGED vars
    BY <1>4 DEF Restart, Done, TInv, TypeOK, SendsSomething, CopyMade, vars, disk
  <1> QED BY <1>1, <1>2, <1>3, <1>4 DEF Next

(* Every variable keeps its type, and a download never sends from nothing.   *)
THEOREM TypeCorrect == Spec => [](TypeOK /\ SendsSomething)
  <1>1. TInv => TypeOK /\ SendsSomething
    BY DEF TInv
  <1> QED BY <1>1, InitTypes, NextTypes, PTL DEF Spec

-----------------------------------------------------------------------------
(* Founders.  create_dir lets one upload of a file in, and what it does next *)
(* nobody else does for that file: the copy, the preview and the row are its *)
(* own.  A founder that fails or is lost leaves the directory, which keeps    *)
(* all others out.                                                           *)
Shown(u) == u \in previews \/ plan.thumbnail[File(u)] = "none" \/ u \in torn

FoundersAlone ==
    \A u \in Uploads : pc[u] \in Founding =>
        /\ File(u) \in dirs
        /\ rows[File(u)] = None
        /\ \A v \in Uploads : File(v) = File(u) /\ pc[v] \in Founding => u = v

PreviewFirst == \A u \in Uploads : pc[u] = "row" /\ Media(u) => Shown(u)

RowsNameCopies ==
    \A f \in Files : rows[f] # None =>
        /\ f \in dirs
        /\ rows[f] \in copied
        /\ File(rows[f]) = f
        /\ Media(rows[f]) => Shown(rows[f])

FInv == FoundersAlone /\ PreviewFirst /\ RowsNameCopies

LEMMA InitFounders == Init => FInv
  BY DEF Init, FInv, FoundersAlone, PreviewFirst, RowsNameCopies, Founding

LEMMA DownFounders ==
    ASSUME TInv, FInv, Down, UNCHANGED <<plan, disk, rows>>
    PROVE  FInv'
  <1>1. \A u \in Uploads : pc'[u] \in {"new", "over"}
    BY DownTypes
  <1> QED BY <1>1 DEF FInv, FoundersAlone, PreviewFirst, RowsNameCopies, Founding, Shown, disk, File, Media

LEMMA UploadFounders ==
    ASSUME TInv, FInv, NEW u \in Uploads, Start(u) \/ Received(u) \/ Leave(u) \/ Finalize(u)
    PROVE  FInv'
  <1> USE DEF At, Goto, Silent, disk, FoundersAlone, PreviewFirst, RowsNameCopies, Founding, Shown, File, Media
  <1>1. File(u) \in Files /\ u # None
    BY PlanFields, BlobStoreAssumption DEF TInv
  <1>2. CASE Start(u) \/ Received(u) \/ Leave(u)
    BY <1>2 DEF Start, Received, Leave, TInv, TypeOK, FInv
  <1>3. CASE Base(u)
    <2>1. CASE Down /\ UNCHANGED plan
      BY <2>1, <1>3, DownFounders DEF Base
    <2>2. CASE ~(Down /\ UNCHANGED plan)
      BY <2>2, <1>3 DEF Base, TInv, TypeOK, FInv
    <2> QED BY <2>1, <2>2
  <1>4. CASE MakeBase(u) \/ Exists(u) \/ Drop(u)
    BY <1>4 DEF MakeBase, Exists, Drop, Answer, TInv, TypeOK, FInv
  <1>5. CASE MakeDir(u)
    BY <1>1, <1>5 DEF MakeDir, MayMake, Answer, TInv, TypeOK, FInv
  <1>6. CASE Copy(u)
    BY <1>6 DEF Copy, TInv, TypeOK, FInv
  <1>7. CASE RemoveTemp(u)
    BY <1>7 DEF RemoveTemp, AfterCopy, TInv, TypeOK, FInv
  <1>8. CASE Thumbnail(u)
    <2>1. CASE Down /\ UNCHANGED plan
      <3>1. mode = "up" /\ mode' = "down"
        BY <2>1, <1>8 DEF Thumbnail, Down
      <3> QED BY <3>1, <2>1, <1>8, DownFounders DEF Thumbnail
    <2>2. CASE ~(Down /\ UNCHANGED plan)
      <3>1. plan.thumbnail[File(u)] \in Thumbnails
        BY <1>1, PlanFields DEF TInv
      <3> QED BY <3>1, <2>2, <1>8 DEF Thumbnail, Outcomes, Thumbnails, Answer, TInv, TypeOK, FInv
    <2> QED BY <2>1, <2>2
  <1>9. CASE AddRow(u) \/ Fail(u)
    <2>1. CASE UNCHANGED rows
      BY <2>1, <1>9 DEF AddRow, Fail, Answer, TInv, TypeOK, FInv
    <2>2. CASE pc[u] = "row" /\ AddHash(u)
      <3>1. /\ rows' = [rows EXCEPT ![File(u)] = u] /\ pc' = [pc EXCEPT ![u] = "over"]
            /\ UNCHANGED <<plan, dirs, copied, torn, previews>>
        BY <2>2, <1>9 DEF AddRow, Fail, AddHash, Answer
      <3>2. FoundersAlone'
        BY <1>1, <2>2, <3>1 DEF TInv, TypeOK, FInv
      <3>3. PreviewFirst'
        BY <3>1 DEF TInv, TypeOK, FInv
      <3>4. RowsNameCopies'
        BY <1>1, <2>2, <3>1 DEF TInv, CopyMade, TypeOK, FInv
      <3> QED BY <3>2, <3>3, <3>4 DEF FInv
    <2> QED BY <2>1, <2>2, <1>9 DEF AddRow, Fail
  <1> QED BY <1>2, <1>3, <1>4, <1>5, <1>6, <1>7, <1>8, <1>9 DEF Finalize

LEMMA NextFounders == TInv /\ FInv /\ [Next]_vars => FInv'
  <1> SUFFICES ASSUME TInv, FInv, [Next]_vars
               PROVE  FInv'
    OBVIOUS
  <1> USE DEF FInv, FoundersAlone, PreviewFirst, RowsNameCopies, Shown, File, Media, disk
  <1>1. CASE \E u \in Uploads : Start(u) \/ Received(u) \/ Leave(u) \/ Finalize(u)
    BY <1>1, UploadFounders
  <1>2. CASE \E d \in Downloads : Ask(d) \/ Serve(d)
    BY <1>2, DownloadSteps DEF FetchStep
  <1>3. CASE Crash
    BY <1>3, DownFounders DEF Crash
  <1>4. CASE Restart \/ Done \/ UNCHANGED vars
    BY <1>4 DEF Restart, Done, vars
  <1> QED BY <1>1, <1>2, <1>3, <1>4 DEF Next

(* At any time one upload of a file at most is between create_dir and its
   row, and none once there is a row, whatever fails and crashes.           *)
THEOREM OneFounderAlways == Spec => []OneFounder
  <1>1. TInv /\ FInv => OneFounder
    BY DEF TInv, FInv, FoundersAlone, OneFounder
  <1> QED BY <1>1, InitTypes, NextTypes, InitFounders, NextFounders, PTL DEF Spec

-----------------------------------------------------------------------------
(* Downloads.                                                               *)

MayBreak(f) == plan.thumbnail[f] = "none" \/ rows[f] \in torn

FetchesFind ==
    \A d \in Downloads : fetch[d] # None =>
        /\ fetch[d].pc = "open" => Found(fetch[d].file)
        /\ fetch[d].result = "internal" => Found(fetch[d].file) /\ MayBreak(fetch[d].file)

(* Rows stay as they are once they are there, and a torn copy stays torn.    *)
LEMMA RowsStay ==
    ASSUME TInv, FInv, [Next]_vars
    PROVE  /\ plan' = plan
           /\ \A f \in Files : Found(f) => rows'[f] = rows[f]
           /\ torn \subseteq torn'
  <1> USE DEF Found, At, Goto, Silent, disk, Answer
  <1>1. ASSUME NEW u \in Uploads, Start(u) \/ Received(u) \/ Leave(u) \/ Finalize(u)
        PROVE  /\ plan' = plan
               /\ rows' = rows \/ (pc[u] = "row" /\ rows' = [rows EXCEPT ![File(u)] = u])
               /\ torn \subseteq torn'
    BY <1>1 DEF Finalize, Start, Received, Leave, Base, MakeBase, Exists, Drop, MakeDir, Copy,
                RemoveTemp, Thumbnail, AddRow, Fail, AddHash
  <1>2. ASSUME NEW u \in Uploads, Start(u) \/ Received(u) \/ Leave(u) \/ Finalize(u)
        PROVE  /\ plan' = plan
               /\ \A f \in Files : Found(f) => rows'[f] = rows[f]
               /\ torn \subseteq torn'
    BY <1>1, <1>2, PlanFields DEF FInv, FoundersAlone, Founding, TInv, TypeOK
  <1>3. ASSUME NEW d \in Downloads, Ask(d) \/ Serve(d)
        PROVE  UNCHANGED <<plan, rows, disk>>
    BY <1>3, DownloadSteps DEF FetchStep
  <1> QED BY <1>2, <1>3 DEF Next, Crash, Restart, Done, vars

LEMMA UploadsLeaveFetches ==
    ASSUME TInv, NEW u \in Uploads, Start(u) \/ Received(u) \/ Leave(u) \/ Finalize(u)
    PROVE  fetch' = fetch \/ Down
  BY DEF Silent, Finalize, Start, Received, Leave, Base, MakeBase, Exists, Drop, MakeDir, Copy,
         RemoveTemp, Thumbnail, AddRow, Fail

LEMMA DownFetches ==
    ASSUME TInv, Down, NEW d \in Downloads, fetch'[d] # None
    PROVE  /\ fetch[d] # None /\ fetch'[d].file = fetch[d].file
           /\ fetch'[d].pc = "over" /\ fetch'[d].result = fetch[d].result
  <1>1. fetch[d] # None /\ fetch[d] \in Fetch /\ fetch'[d] = [fetch[d] EXCEPT !.pc = "over"]
    BY Zenon DEF Down, TInv, TypeOK
  <1> QED BY <1>1, FetchOver

LEMMA NextFetches == TInv /\ FInv /\ FetchesFind /\ [Next]_vars => FetchesFind'
  <1> SUFFICES ASSUME TInv, FInv, FetchesFind, [Next]_vars
               PROVE  FetchesFind'
    OBVIOUS
  <1>1. ASSUME NEW f \in Files, Found(f)
        PROVE  Found(f)' /\ (MayBreak(f) => MayBreak(f)')
    BY <1>1, RowsStay DEF Found, MayBreak
  <1>2. CASE UNCHANGED fetch
    BY <1>1, <1>2, FetchFields DEF FetchesFind, TInv, TypeOK
  <1>3. CASE Down
    BY <1>1, <1>3, DownFetches, FetchFields DEF FetchesFind, TInv, TypeOK
  <1>4. ASSUME NEW d \in Downloads, Ask(d) \/ Serve(d)
        PROVE  FetchesFind'
    <2>1. FetchStep(d) /\ UNCHANGED <<plan, rows, torn, copied, previews>>
      BY <1>4, DownloadSteps DEF FetchStep, disk
    <2>2. /\ fetch'[d].pc = "open" => fetch[d] # None /\ Found(fetch[d].file)
          /\ fetch'[d].result = "internal" => fetch[d] # None /\ Found(fetch[d].file) /\ MayBreak(fetch[d].file)
      <3>1. CASE Ask(d)
        BY <3>1, AskSteps
      <3>2. CASE Look(d)
        BY <3>2, LookSteps DEF Look, Fetching
      <3>3. CASE Open(d)
        <4>1. fetch[d] # None /\ fetch[d] \in Fetch /\ fetch[d].pc = "open" /\ Found(fetch[d].file)
          BY <3>3 DEF Open, Fetching, FetchesFind, TInv, TypeOK
        <4>2. ~Complete(fetch[d].file) => MayBreak(fetch[d].file)
          BY <4>1, FetchFields DEF FInv, RowsNameCopies, Complete, Found, Previewed, Shown, MayBreak
        <4> QED BY <3>3, <4>1, <4>2, OpenSteps
      <3>4. CASE SendPart(d) \/ FetchFails(d)
        BY <3>4, SendPartSteps, FetchFailsSteps
      <3> QED BY <1>4, <3>1, <3>2, <3>3, <3>4 DEF Serve
    <2>3. \A e \in Downloads : e # d => fetch'[e] = fetch[e]
      BY <2>1 DEF FetchStep, TInv, TypeOK
    <2>4. fetch'[d] # None /\ fetch[d] # None => fetch'[d].file = fetch[d].file
      BY <2>1 DEF FetchStep
    <2> QED BY <2>1, <2>2, <2>3, <2>4 DEF FetchesFind, Found, MayBreak
  <1>5. CASE \E u \in Uploads : Start(u) \/ Received(u) \/ Leave(u) \/ Finalize(u)
    BY <1>2, <1>3, <1>5, UploadsLeaveFetches
  <1> QED BY <1>2, <1>3, <1>4, <1>5 DEF Next, Crash, Restart, Done, vars

(* Every download that found the row of its hash finds the files it names,
   except for media of which nothing was made a preview, and for torn copies. *)
THEOREM NoInternalErrorEver == Spec => []NoInternalError
  <1>1. Init => FetchesFind
    BY DEF Init, FetchesFind
  <1>2. FetchesFind => NoInternalError
    BY DEF FetchesFind, NoInternalError, MayBreak
  <1> QED BY <1>1, <1>2, InitTypes, NextTypes, InitFounders, NextFounders, NextFetches, PTL DEF Spec

-----------------------------------------------------------------------------
(* Answers.  While nothing fails a directory is a promise: its founder is at *)
(* work or has made the file fetchable, and hashes are answered only once    *)
(* there is a directory.                                                     *)
DirsKeepPromise ==
    \A f \in dirs : Fetchable(f) \/ \E v \in Uploads : File(v) = f /\ pc[v] \in Founding

AnswersHaveDirs == \A u \in Uploads : answer[u] = "ok" \/ pc[u] = "drop" => File(u) \in dirs

CInv == Calm => torn = {} /\ based /\ DirsKeepPromise /\ AnswersHaveDirs

LEMMA CalmStays ==
    ASSUME TInv, FInv, Calm', [Next]_vars
    PROVE  Calm /\ plan' = plan
  BY RowsStay DEF Calm, File

LEMMA CalmIsUp ==
    ASSUME TInv, Calm, CInv, NEW u \in Uploads, Base(u) \/ Thumbnail(u) \/ Crash
    PROVE  ~Crash /\ (Base(u) => based /\ Goto(u, "exists") /\ Silent) /\ (Thumbnail(u) => plan.kind[u] = "media")
  BY PlanFields DEF TInv, TypeOK, Calm, CInv, Base, Thumbnail, Crash

LEMMA UploadCalm ==
    ASSUME TInv, FInv, CInv, Calm, NEW u \in Uploads,
           Start(u) \/ Received(u) \/ Leave(u) \/ Finalize(u), plan' = plan
    PROVE  torn' = {} /\ based' /\ DirsKeepPromise' /\ AnswersHaveDirs'
  <1> USE DEF At, Goto, Silent, disk, File, DirsKeepPromise, AnswersHaveDirs, Founding,
              Fetchable, Found, Complete, Previewed, Media, TInv, TypeOK
  <1>1. /\ File(u) \in Files /\ u # None /\ plan.prompt /\ ~plan.faulty
        /\ torn = {} /\ based /\ DirsKeepPromise /\ AnswersHaveDirs
    BY PlanFields, BlobStoreAssumption DEF Calm, CInv
  <1>2. CASE Start(u) \/ Received(u) \/ Leave(u) \/ MakeBase(u) \/ Exists(u) \/ Drop(u)
    <2>1. /\ UNCHANGED <<dirs, copied, torn, previews, rows>> /\ based'
          /\ \A v \in Uploads : pc[v] \in Founding => pc'[v] = pc[v]
      BY ZenonT(30), <1>1, <1>2 DEF Start, Received, Leave, MakeBase, Exists, Drop, Answer
    <2>2. DirsKeepPromise'
      BY <1>1, <2>1
    <2>3. \A v \in Uploads : answer'[v] = "ok" \/ pc'[v] = "drop" =>
              answer[v] = "ok" \/ pc[v] = "drop" \/ (v = u /\ File(u) \in dirs)
      <3>1. CASE Start(u) \/ Received(u) \/ Leave(u)
        BY <3>1 DEF Start, Received, Leave
      <3>2. CASE MakeBase(u) \/ Exists(u) \/ Drop(u)
        BY <3>2 DEF MakeBase, Exists, Known, Drop, Answer
      <3> QED BY <1>2, <3>1, <3>2
    <2>4. AnswersHaveDirs'
      BY <1>1, <2>1, <2>3
    <2> QED BY <1>1, <2>1, <2>2, <2>4
  <1>3. CASE Base(u)
    BY <1>1, <1>3, CalmIsUp DEF Base
  <1>5. CASE MakeDir(u)
    <2>1. /\ dirs' = dirs \cup {File(u)} /\ UNCHANGED <<based, copied, torn, previews, rows>>
          /\ \/ pc' = [pc EXCEPT ![u] = "copy"] /\ answer' = answer
             \/ /\ pc' = [pc EXCEPT ![u] = "over"] /\ answer' = [answer EXCEPT ![u] = "error"]
                /\ File(u) \in dirs
          /\ pc[u] = "mkdir"
      BY <1>5 DEF MakeDir, MayMake, Answer
    <2>2. AnswersHaveDirs'
      BY <1>1, <2>1
    <2>3. File(u) \notin dirs => pc'[u] = "copy"
      BY <2>1
    <2>4. \A v \in Uploads : pc[v] \in Founding => pc'[v] = pc[v]
      BY <2>1
    <2>5. DirsKeepPromise'
      BY <1>1, <2>1, <2>3, <2>4
    <2> QED BY <1>1, <2>1, <2>2, <2>5
  <1>6. CASE Copy(u)
    BY <1>1, <1>6 DEF Copy
  <1>7. CASE RemoveTemp(u)
    BY <1>1, <1>7 DEF RemoveTemp, AfterCopy
  <1>8. CASE Thumbnail(u)
    <2>1. /\ pc[u] = "thumbnail" /\ pc' = [pc EXCEPT ![u] = "row"]
          /\ previews' = previews \cup {u}
          /\ UNCHANGED <<answer, based, dirs, copied, torn, rows>>
      <3>1. plan.kind[u] = "media" /\ plan.thumbnail[File(u)] = "made"
        BY <1>8, CalmIsUp DEF Calm
      <3> QED BY <1>1, <1>8, <3>1 DEF Thumbnail, Outcomes
    <2> QED BY <1>1, <2>1
  <1>9. CASE AddRow(u)
    <2>1. u \in copied /\ File(u) \in dirs
      BY <1>9 DEF AddRow, CopyMade, FInv, FoundersAlone
    <2>2. Media(u) => u \in previews
      BY <1>1, <1>9, PlanFields DEF AddRow, FInv, PreviewFirst, Shown, Calm, Kinds
    <2>3. /\ pc' = [pc EXCEPT ![u] = "over"] /\ rows' = [rows EXCEPT ![File(u)] = u]
          /\ answer' = [answer EXCEPT ![u] = "ok"] /\ UNCHANGED <<based, dirs, copied, torn, previews>>
      BY <1>9 DEF AddRow, AddHash, Answer
    <2>4. Fetchable(File(u))'
      BY <1>1, <2>1, <2>2, <2>3
    <2> QED BY <1>1, <2>1, <2>3, <2>4
  <1> QED BY <1>1, <1>2, <1>3, <1>5, <1>6, <1>7, <1>8, <1>9 DEF Finalize, Fail

LEMMA NextCalm == TInv /\ FInv /\ CInv /\ [Next]_vars => CInv'
  <1> SUFFICES ASSUME TInv, FInv, CInv, [Next]_vars, Calm'
               PROVE  torn' = {} /\ based' /\ DirsKeepPromise' /\ AnswersHaveDirs'
    BY DEF CInv
  <1>1. Calm /\ plan' = plan /\ torn = {} /\ based /\ DirsKeepPromise /\ AnswersHaveDirs
    BY CalmStays DEF CInv
  <1>2. CASE \E u \in Uploads : Start(u) \/ Received(u) \/ Leave(u) \/ Finalize(u)
    BY <1>1, <1>2, UploadCalm
  <1>3. CASE UNCHANGED <<disk, rows, pc, answer>>
    BY <1>1, <1>3 DEF disk, DirsKeepPromise, AnswersHaveDirs, Fetchable, Found, Complete, Previewed, Media, File
  <1>4. CASE \E d \in Downloads : Ask(d) \/ Serve(d)
    BY <1>3, <1>4, DownloadSteps DEF FetchStep
  <1>5. ~Crash
    BY <1>1 DEF Crash, Calm, TInv, TypeOK
  <1> QED BY <1>2, <1>3, <1>4, <1>5 DEF Next, Restart, Done, vars

(* As long as nothing fails, a hash that a client was answered with can be
   fetched, or another upload of the same file is making it so.             *)
THEOREM AnswersAreTrue == Spec => []AnsweredIsThereOrComing
  <1>1. Init => CInv
    BY DEF Init, Calm, CInv, DirsKeepPromise, AnswersHaveDirs
  <1>2. CInv => AnsweredIsThereOrComing
    BY DEF CInv, DirsKeepPromise, AnswersHaveDirs, AnsweredIsThereOrComing
  <1> QED BY <1>1, <1>2, InitTypes, NextTypes, InitFounders, NextFounders, NextCalm, PTL DEF Spec
=============================================================================
