------------------------------ MODULE BlobStore ------------------------------
(***************************************************************************)
(* The store of files: FsUploader of documents and media, the hashes table *)
(* and FileFetcher.  An upload whose bytes have all arrived goes from its  *)
(* temporary file to the directory of its hash, step by step: each step is *)
(* a call that the handlers of other connections, or a crash, may follow.  *)
(* A file stands for its SHA-256 hash; two uploads of it have two names.   *)
(* How the bytes arrive is module Uploads.                                 *)
(***************************************************************************)
EXTENDS Integers, Sequences, FiniteSets

CONSTANTS
    Uploads, Files,
    Downloads,
    Plans,      \* the uploads and the faults of one run
    None

Kinds == {"document", "media", "dotless"}   \* dotless: media named just "mp4"
Thumbnails == {"made", "none", "error"}
Modes == {"preview_only", "media_only", "full"}

(* thumbnail: what generate_thumbnail makes of the file: a preview, an error,
   or nothing when no frame of it decodes.  faulty: calls on files and queries
   may fail.  mounted: FS_BASE exists from the start.  prompt: what is written
   to a temporary file is there when the write returns.                       *)
PlanType == [file: [Uploads -> Files], kind: [Uploads -> Kinds],
             thumbnail: [Files -> Thumbnails],
             mounted: BOOLEAN, prompt: BOOLEAN, faulty: BOOLEAN, crashes: Nat]

ASSUME BlobStoreAssumption ==
    /\ None \notin Uploads
    /\ Plans \subseteq PlanType

VARIABLES
    mode,      \* "up" or "down"
    plan,
    crashes,   \* how often the process ended
    based,     \* does FS_BASE exist?
    dirs,      \* the hashes with a directory
    copied,    \* uploads whose file is in the directory of its hash
    torn,      \* those of them whose last bytes it lacks
    previews,  \* uploads whose preview is there
    temps,     \* uploads whose temporary file is there
    rows,      \* the upload named by the row of a hash, or None
    pc,        \* where each upload is
    answer,    \* what its client was told
    fetch      \* the downloads: what they look for, found, and have sent

disk == <<based, dirs, copied, torn, previews, temps>>
vars == <<mode, plan, crashes, disk, rows, pc, answer, fetch>>

Pcs == {"new", "sending", "base", "mkbase", "exists", "drop", "mkdir",
        "copy", "remove", "thumbnail", "row", "over"}

Founding == {"copy", "remove", "thumbnail", "row"}
Fallible == {"mkbase", "drop", "mkdir", "copy", "remove", "row"}
Parts == {<<"preview", f>> : f \in Files} \cup {<<"main", f>> : f \in Files}

Fetch == [file: Files, mode: Modes, pc: {"row", "open", "send", "over"},
          left: Seq(Parts), result: {"none", "unknown", "internal", "failed", "whole"}]

TypeOK ==
    /\ mode \in {"up", "down"}
    /\ plan \in Plans
    /\ crashes \in Nat
    /\ based \in BOOLEAN
    /\ dirs \subseteq Files
    /\ copied \subseteq Uploads
    /\ torn \subseteq copied /\ previews \subseteq copied
    /\ temps \subseteq Uploads
    /\ rows \in [Files -> Uploads \cup {None}]
    /\ pc \in [Uploads -> Pcs]
    /\ answer \in [Uploads -> {"none", "ok", "error"}]
    /\ fetch \in [Downloads -> Fetch \cup {None}]

Init ==
    /\ mode = "up"
    /\ plan \in Plans
    /\ crashes = 0
    /\ based = plan.mounted
    /\ dirs = {} /\ copied = {} /\ torn = {} /\ previews = {} /\ temps = {}
    /\ rows = [f \in Files |-> None]
    /\ pc = [u \in Uploads |-> "new"]
    /\ answer = [u \in Uploads |-> "none"]
    /\ fetch = [d \in Downloads |-> None]

-----------------------------------------------------------------------------
(* An upload, up to its last byte.                                          *)

File(u) == plan.file[u]
Media(u) == plan.kind[u] # "document"

At(u, where) == mode = "up" /\ pc[u] = where
Goto(u, where) == pc' = [pc EXCEPT ![u] = where]

Answer(u, what) ==
    /\ Goto(u, "over")
    /\ answer' = [answer EXCEPT ![u] = what]

Silent == UNCHANGED <<mode, plan, crashes, fetch>>

Start(u) ==
    /\ At(u, "new")
    /\ temps' = temps \cup {u}
    /\ Goto(u, "sending")
    /\ Silent /\ UNCHANGED <<based, dirs, copied, torn, previews, rows, answer>>

Received(u) ==
    /\ At(u, "sending")
    /\ Goto(u, "base")
    /\ Silent /\ UNCHANGED <<disk, rows, answer>>

(* The client leaves: nothing removes the temporary file.                   *)
Leave(u) ==
    /\ At(u, "sending")
    /\ Goto(u, "over")
    /\ Silent /\ UNCHANGED <<disk, rows, answer>>

-----------------------------------------------------------------------------
(* finalize.                                                                *)

(* The end of the process, with all its tasks.                              *)
Down ==
    /\ mode' = "down"
    /\ crashes' = crashes + 1
    /\ pc' = [u \in Uploads |-> IF pc[u] = "new" THEN "new" ELSE "over"]
    /\ fetch' = [d \in Downloads |-> IF fetch[d] = None THEN None ELSE [fetch[d] EXCEPT !.pc = "over"]]

(* FS_BASE; media resolve its path to make it, which is to panic.           *)
Base(u) ==
    /\ At(u, "base")
    /\ \/ based /\ Goto(u, "exists") /\ Silent
       \/ ~based /\ ~Media(u) /\ Goto(u, "mkbase") /\ Silent
       \/ ~based /\ Media(u) /\ Down /\ UNCHANGED plan
    /\ UNCHANGED <<disk, rows, answer>>

(* create_dir fails if there is one.                                        *)
MakeBase(u) ==
    /\ At(u, "mkbase")
    /\ IF based THEN Answer(u, "error") ELSE Goto(u, "exists") /\ UNCHANGED answer
    /\ based' = TRUE
    /\ Silent /\ UNCHANGED <<dirs, copied, torn, previews, temps, rows>>

Known(u) == File(u) \in dirs

Exists(u) ==
    /\ At(u, "exists")
    /\ Goto(u, IF Known(u) THEN "drop" ELSE "mkdir")
    /\ Silent /\ UNCHANGED <<disk, rows, answer>>

Drop(u) ==
    /\ At(u, "drop")
    /\ temps' = temps \ {u}
    /\ Answer(u, "ok")
    /\ Silent /\ UNCHANGED <<based, dirs, copied, torn, previews, rows>>

MayMake_Slip(u) == TRUE
MayMake(u) == File(u) \notin dirs

MakeDir(u) ==
    /\ At(u, "mkdir")
    /\ IF MayMake(u) THEN Goto(u, "copy") /\ UNCHANGED answer ELSE Answer(u, "error")
    /\ dirs' = dirs \cup {File(u)}
    /\ Silent /\ UNCHANGED <<based, copied, torn, previews, temps, rows>>

(* write_all hands the bytes to a background thread and nothing flushes them:
   the copy may come before the last of them are in the temporary file.      *)
Copy(u) ==
    /\ At(u, "copy")
    /\ copied' = copied \cup {u}
    /\ \/ torn' = torn
       \/ ~plan.prompt /\ torn' = torn \cup {u}
    /\ Goto(u, "remove")
    /\ Silent /\ UNCHANGED <<based, dirs, previews, temps, rows, answer>>

AfterCopy_Slip(u) == "row"
AfterCopy(u) == IF Media(u) THEN "thumbnail" ELSE "row"

RemoveTemp(u) ==
    /\ At(u, "remove")
    /\ temps' = temps \ {u}
    /\ Goto(u, AfterCopy(u))
    /\ Silent /\ UNCHANGED <<based, dirs, copied, torn, previews, rows, answer>>

Outcomes(u) == IF u \in torn THEN Thumbnails ELSE {plan.thumbnail[File(u)]}

(* The preview is named after the part of the name before the dot.          *)
Thumbnail(u) ==
    /\ At(u, "thumbnail")
    /\ \/ plan.kind[u] = "dotless" /\ Down /\ UNCHANGED <<plan, previews, answer>>
       \/ /\ plan.kind[u] = "media"
          /\ \E t \in Outcomes(u) :
              /\ IF t = "error" THEN Answer(u, "error") ELSE Goto(u, "row") /\ UNCHANGED answer
              /\ previews' = IF t = "made" THEN previews \cup {u} ELSE previews
          /\ Silent
    /\ UNCHANGED <<based, dirs, copied, torn, temps, rows>>

AddHash_Slip(u) == UNCHANGED rows
AddHash(u) == rows' = [rows EXCEPT ![File(u)] = u]

AddRow(u) ==
    /\ At(u, "row")
    /\ AddHash(u)
    /\ Answer(u, "ok")
    /\ Silent /\ UNCHANGED disk

(* A call fails; a query that fails may have been carried out.              *)
Fail(u) ==
    /\ mode = "up" /\ plan.faulty
    /\ pc[u] \in Fallible
    /\ Answer(u, "error")
    /\ \/ UNCHANGED rows
       \/ pc[u] = "row" /\ AddHash(u)
    /\ Silent /\ UNCHANGED disk

-----------------------------------------------------------------------------
(* FileFetcher: a client asks for a hash an upload was answered with.       *)

Found(f) == rows[f] # None
Previewed(f) == Media(rows[f])

(* Announced in the metadata, and then sent, in this order.                 *)
Sends(f, m) ==
    LET main == <<<<"main", f>>>>
        preview == <<<<"preview", f>>>> IN
    CASE ~Previewed(f)      -> main
      [] m = "preview_only" -> preview
      [] m = "media_only"   -> main
      [] m = "full"         -> preview \o main

Ask(d) ==
    /\ mode = "up" /\ fetch[d] = None
    /\ \E u \in Uploads, m \in Modes :
        /\ answer[u] = "ok"
        /\ fetch' = [fetch EXCEPT ![d] =
             [file |-> File(u), mode |-> m, pc |-> "row", left |-> <<>>, result |-> "none"]]
    /\ UNCHANGED <<mode, plan, crashes, disk, rows, pc, answer>>

Fetching(d, where) == mode = "up" /\ fetch[d] # None /\ fetch[d].pc = where

Turns(d, where, left, result) ==
    /\ fetch' = [fetch EXCEPT ![d] = [file |-> @.file, mode |-> @.mode,
                                      pc |-> where, left |-> left, result |-> result]]
    /\ UNCHANGED <<mode, plan, crashes, disk, rows, pc, answer>>

Look(d) ==
    /\ Fetching(d, "row")
    /\ IF Found(fetch[d].file) THEN Turns(d, "open", <<>>, "none")
                               ELSE Turns(d, "over", <<>>, "unknown")

(* fetch_hash_metadata looks for both files, whatever the mode.             *)
Complete(f) ==
    /\ rows[f] \in copied
    /\ Previewed(f) => rows[f] \in previews

Open(d) ==
    /\ Fetching(d, "open")
    /\ LET f == fetch[d].file IN
       IF Complete(f) THEN Turns(d, "send", Sends(f, fetch[d].mode), "none")
                      ELSE Turns(d, "over", <<>>, "internal")

(* A file is read to its end before the next is opened.                     *)
SendPart(d) ==
    /\ Fetching(d, "send")
    /\ LET left == Tail(fetch[d].left) IN
       IF left = <<>> THEN Turns(d, "over", <<>>, "whole") ELSE Turns(d, "send", left, "none")

FetchFails(d) ==
    /\ plan.faulty
    /\ Fetching(d, "row") \/ Fetching(d, "open") \/ Fetching(d, "send")
    /\ Turns(d, "over", <<>>, "failed")

-----------------------------------------------------------------------------
Crash ==
    /\ mode = "up" /\ crashes < plan.crashes
    /\ Down
    /\ UNCHANGED <<plan, disk, rows, answer>>

Restart ==
    /\ mode = "down"
    /\ mode' = "up"
    /\ UNCHANGED <<plan, crashes, disk, rows, pc, answer, fetch>>

Finalize(u) ==
    \/ Base(u) \/ MakeBase(u) \/ Exists(u) \/ Drop(u) \/ MakeDir(u)
    \/ Copy(u) \/ RemoveTemp(u) \/ Thumbnail(u) \/ AddRow(u) \/ Fail(u)

Serve(d) == Look(d) \/ Open(d) \/ SendPart(d) \/ FetchFails(d)

Done == mode = "up" /\ (\A u \in Uploads : pc[u] = "over")
                    /\ (\A d \in Downloads : fetch[d] # None => fetch[d].pc = "over")
                    /\ UNCHANGED vars

Next ==
    \/ \E u \in Uploads : Start(u) \/ Received(u) \/ Leave(u) \/ Finalize(u)
    \/ \E d \in Downloads : Ask(d) \/ Serve(d)
    \/ Crash \/ Restart
    \/ Done

Spec == Init /\ [][Next]_vars

-----------------------------------------------------------------------------
(* A file can be served when its row and the files the row names are there,
   whole.                                                                    *)
Fetchable(f) == Found(f) /\ Complete(f) /\ rows[f] \notin torn

(* Nothing fails, and every medium is one.                                  *)
Calm ==
    /\ plan.mounted /\ plan.prompt /\ ~plan.faulty /\ plan.crashes = 0
    /\ \A u \in Uploads :
        /\ plan.kind[u] # "dotless"
        /\ plan.kind[u] = "media" => plan.thumbnail[File(u)] = "made"

(* Of the uploads of one file, whatever their order and whatever fails, one
   at most is between create_dir and its row, and none once there is one:
   two would leave two files where one row names one.  (Typed, too.)        *)
OneFounder ==
    TypeOK /\ \A u, v \in Uploads :
        File(u) = File(v) /\ pc[u] \in Founding =>
            /\ rows[File(u)] = None
            /\ pc[v] \in Founding => u = v

(* A download that found the row finds the files it names, though the upload
   may fail or crash anywhere; a medium no frame of which decodes, one that is
   torn included, is the exception: its row names a preview nobody wrote.    *)
NoInternalError ==
    \A d \in Downloads :
        fetch[d] # None /\ fetch[d].result = "internal" =>
            plan.thumbnail[fetch[d].file] = "none" \/ rows[fetch[d].file] \in torn

(* A hash the server answered with can be fetched, or another upload of the
   same file is about to make it so.                                         *)
AnsweredIsThereOrComing ==
    Calm => \A u \in Uploads : answer[u] = "ok" =>
        \/ Fetchable(File(u))
        \/ \E v \in Uploads : File(v) = File(u) /\ pc[v] \in Founding

(* fs/document.rs:80, "If document already exists, delete the temporary file":
   whoever is answered has the document of that hash in its directory, or on
   its way there, at that moment.                                            *)
AnsweredExists ==
    [][\A u \in Uploads : answer[u] = "none" /\ answer'[u] = "ok" =>
        \E v \in Uploads : File(v) = File(u) /\ (v \in copied \/ pc[v] \in Founding)]_vars

(* fs/mod.rs:14, "Must finalize the upload, giving the binary according full
   SHA256 hash": a row never leads from a hash to other bytes.              *)
HashIsOfBinary == \A f \in Files : Found(f) => rows[f] \notin torn
=============================================================================
