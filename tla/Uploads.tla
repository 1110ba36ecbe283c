------------------------------- MODULE Uploads -------------------------------
(***************************************************************************)
(* A connection of the files port: the client writes the metadata of a     *)
(* request as a frame, and after that of an upload eight bytes of size and *)
(* the file; TCP delivers the bytes cut anywhere, and FilesHandler works   *)
(* on each segment.                                                        *)
(*                                                                         *)
(* Bytes are positions in the stream of the client, so that what an upload *)
(* stores is a sequence of positions.  A size of metadata read where the   *)
(* client wrote none is one of Strays.  Where the file goes is module      *)
(* BlobStore: here the store takes it or fails.                            *)
(***************************************************************************)
EXTENDS Integers, Sequences, FiniteSets

CONSTANTS
    Meta,      \* size of every metadata
    FileSizes,
    Plans,     \* what the client and the network of one run do
    BUFFER,    \* FILES_MESSAGE_ALLOCATION_SIZE
    MAX_SIZE,  \* MAX_MSG_SIZE
    Strays,    \* sizes read where there is none
    None

HEADER == 4
SIZE == 8
Kinds == {"upload", "download", "unsupported"}  \* unsupported: media of no known type

Bytes == Seq(Nat)
Builder == [size: Nat, from: Nat, len: Nat]
Actor == [size: 0..MAX_SIZE, got: Bytes]

(* patient: the client awaits each answer; whole: the first segment of each
   request has all of its metadata; failing: the store may fail; debug: built
   with overflow checks.                                                     *)
PlanType == [kinds: SUBSET Kinds, sizes: SUBSET FileSizes, count: Nat, patient: BOOLEAN,
             whole: BOOLEAN, failing: BOOLEAN, debug: BOOLEAN]

ASSUME UploadsAssumption ==
    /\ Meta \in Nat \ {0} /\ MAX_SIZE \in Nat
    /\ FileSizes \subseteq Nat /\ Strays \subseteq Nat
    /\ BUFFER \in Nat \ {0}
    /\ Plans \subseteq PlanType
    /\ None \notin Actor

VARIABLES
    mode,    \* "up" or "panicked"
    plan,
    sent,    \* the requests the client wrote, each with the position it starts at
    pos,     \* bytes read
    first,   \* is_first
    builder, \* request_builder: the size it read, and where and how long its content is
    actor,   \* the upload: the size it was told, and the bytes in its temporary file
    acc,     \* accumulated_binary_start
    buf,     \* content_buf
    answers  \* the answers: errors, downloads, and uploads with the bytes stored

handler == <<first, builder, actor, acc, buf>>
vars == <<mode, plan, sent, pos, handler, answers>>

Request == [at: Nat, kind: Kinds, size: FileSizes]

TypeOK ==
    /\ mode \in {"up", "panicked"}
    /\ plan \in Plans
    /\ sent \in Seq(Request) /\ Len(sent) <= plan.count
    /\ pos \in Nat
    /\ first \in BOOLEAN
    /\ builder = None \/ builder \in Builder
    /\ actor = None \/ actor \in Actor
    /\ acc \in Bytes /\ Len(acc) < SIZE
    /\ buf \in Bytes
    /\ answers \in Seq([what: {"error", "download", "upload"}, bytes: Bytes])

Fresh_Slip ==
    /\ first' = TRUE
    /\ builder' = None
    /\ actor' = None
    /\ UNCHANGED <<acc, buf>>

Fresh ==
    /\ first' = TRUE
    /\ builder' = None
    /\ actor' = None
    /\ acc' = <<>>
    /\ buf' = <<>>

Init ==
    /\ mode = "up"
    /\ plan \in Plans
    /\ sent = <<>>
    /\ pos = 0
    /\ first = TRUE /\ builder = None /\ actor = None
    /\ acc = <<>> /\ buf = <<>>
    /\ answers = <<>>

-----------------------------------------------------------------------------
(* The client and the network.                                              *)

Span(a, b) == [i \in 1..(b - a) |-> a + i - 1]

SizeAt(k) == sent[k].at + HEADER + Meta
FileAt(k) == SizeAt(k) + SIZE
End(k) == IF sent[k].kind = "download" THEN SizeAt(k) ELSE FileAt(k) + sent[k].size
Written == IF sent = <<>> THEN 0 ELSE End(Len(sent))
Content(k) == Span(FileAt(k), End(k))

Send ==
    /\ mode = "up" /\ Len(sent) < plan.count
    /\ plan.patient => Len(answers) = Len(sent) /\ pos = Written
    /\ \E kind \in plan.kinds, size \in plan.sizes :
        sent' = Append(sent, [at |-> Written, kind |-> kind, size |-> size])
    /\ UNCHANGED <<mode, plan, pos, handler, answers>>

Segment(n) ==
    /\ mode = "up"
    /\ n \in 1..BUFFER /\ pos + n <= Written
    /\ plan.whole => \A k \in DOMAIN sent : sent[k].at = pos => pos + n >= SizeAt(k)
    /\ pos' = pos + n
    /\ UNCHANGED <<plan, sent>>

Answer(what, bytes) == answers' = Append(answers, [what |-> what, bytes |-> bytes])

(* Every error is answered, and resets the handler.                         *)
Refuse ==
    /\ Answer("error", <<>>)
    /\ Fresh
    /\ UNCHANGED mode

Panic ==
    /\ mode' = "panicked"
    /\ UNCHANGED <<handler, answers>>

-----------------------------------------------------------------------------
(* on_uploader, with size and got of the upload and the bytes c at hand: a
   segment that goes beyond the file gives the upload as many bytes as are
   too many.  An upload that has too much never ends.                       *)

Portion(size, got, c) ==
    IF Len(got) <= size /\ Len(c) > size - Len(got)
    THEN SubSeq(c, 1, Len(c) - (size - Len(got)))
    ELSE c

Finalize(all) ==
    \/ Answer("upload", all) /\ Fresh /\ UNCHANGED mode
    \/ plan.failing /\ Refuse

(* The upload of the metadata in b consumes what is at hand.                *)
Consume(b, size, got, c) ==
    LET part == Portion(size, got, c)
        all == got \o part
    IN  \/ c # <<>> /\ Len(got) > size /\ plan.debug /\ Panic
        \/ c # <<>> /\ Len(all) = size /\ Finalize(all)
        \/ /\ c # <<>> => Len(all) # size /\ (Len(got) > size => ~plan.debug)
           /\ actor' = [size |-> size, got |-> all]
           /\ buf' = SubSeq(c, Len(part) + 1, Len(c))
           /\ first' = FALSE /\ acc' = <<>>
           /\ builder' = [b EXCEPT !.size = 0]
           /\ UNCHANGED <<mode, answers>>

-----------------------------------------------------------------------------
(* process_request: the start of a message, parsed as MessageBuilder does.  *)

HeaderAt(p) ==
    IF \E k \in DOMAIN sent : sent[k].at = p THEN {Meta} ELSE Strays

(* The content is sliced out when the segment is longer than its size: not
   all of it may be there.                                                  *)
Sliceable(s, n) == s >= n \/ s + HEADER <= n
Collected(s, n) == IF s < n THEN s ELSE n - HEADER

(* is_first stays: the segment is kept for nothing and the next is parsed.  *)
Unparsed(b, n) ==
    /\ builder' = b
    /\ buf' = buf \o Span(pos, pos + n)
    /\ UNCHANGED <<mode, first, actor, acc, answers>>

ParseShort(n) ==
    /\ Segment(n)
    /\ first /\ n < HEADER
    /\ Unparsed(None, n)

ParsePanics(n) ==
    /\ Segment(n)
    /\ first /\ n >= HEADER
    /\ \E s \in HeaderAt(pos) : ~Sliceable(s, n)
    /\ Panic

ParseIncomplete(n) ==
    /\ Segment(n)
    /\ first /\ n >= HEADER
    /\ \E s \in HeaderAt(pos) :
        /\ Sliceable(s, n) /\ Collected(s, n) < s
        /\ Unparsed([size |-> s, from |-> pos + HEADER, len |-> Collected(s, n)], n)

(* The request whose metadata the content of a builder is, if it is one.    *)
Asked(b) == {k \in DOMAIN sent : sent[k].at + HEADER = b.from /\ b.size = Meta}

Parsed(n, s) ==
    /\ Segment(n)
    /\ first /\ n >= HEADER
    /\ s \in HeaderAt(pos)
    /\ Sliceable(s, n) /\ Collected(s, n) >= s

Opened(s) == [size |-> s, from |-> pos + HEADER, len |-> s]

Malformed(n, s) ==
    /\ Parsed(n, s)
    /\ Asked(Opened(s)) = {}
    /\ Refuse

(* Answered at once; the rest of the segment is dropped.                    *)
Download(n, s) ==
    /\ Parsed(n, s)
    /\ \E k \in Asked(Opened(s)) : sent[k].kind = "download"
    /\ \/ Answer("download", <<>>) /\ Fresh /\ UNCHANGED mode
       \/ plan.failing /\ Refuse

-----------------------------------------------------------------------------
(* The bytes of an upload: rest of the segment after its metadata, or all.  *)

Held(bytes) == acc \o bytes

Start(b, bytes) ==
    LET all == Held(bytes)
        k == CHOOSE j \in Asked(b) : TRUE
        size == sent[k].size
        c == buf \o SubSeq(all, SIZE + 1, Len(all))
    IN  IF Len(all) < SIZE
        THEN /\ acc' = all
             /\ first' = FALSE /\ builder' = b
             /\ UNCHANGED <<mode, actor, buf, answers>>
        ELSE \/ /\ size > MAX_SIZE \/ sent[k].kind = "unsupported"
                /\ Refuse
             \/ /\ size <= MAX_SIZE /\ sent[k].kind = "upload"
                /\ Consume(b, size, <<>>, c)

Uploading(b) == \E k \in Asked(b) : sent[k].kind # "download"

BeginUpload(n, s) ==
    /\ Parsed(n, s)
    /\ Uploading(Opened(s))
    /\ Start(Opened(s), Span(pos + HEADER + s, pos + n))

SizeArrives(n) ==
    /\ Segment(n)
    /\ ~first /\ actor = None
    /\ Start(builder, Span(pos, pos + n))

FileArrives(n) ==
    /\ Segment(n)
    /\ actor # None
    /\ Consume(builder, actor.size, actor.got, buf \o Span(pos, pos + n))

Handle(n) ==
    \/ ParseShort(n) \/ ParsePanics(n) \/ ParseIncomplete(n)
    \/ \E s \in Strays \cup {Meta} : Malformed(n, s) \/ Download(n, s) \/ BeginUpload(n, s)
    \/ SizeArrives(n) \/ FileArrives(n)

Next == Send \/ \E n \in 1..BUFFER : Handle(n)

Spec == Init /\ [][Next]_vars

-----------------------------------------------------------------------------
(* A client that may count on the handler: it awaits each answer, its metadata
   arrives in one piece, its files have a byte at least and are not too large:
   the bytes of a file that was refused are parsed as requests.              *)
Polite ==
    /\ plan.patient /\ plan.whole /\ ~plan.failing
    /\ plan.sizes \subseteq 1..MAX_SIZE /\ "unsupported" \notin plan.kinds

(* However the size and the file are cut, such a client is answered when the
   last byte of its request was read, requests in order, and what is stored
   for an upload is the file it sent: no byte of a size, of another request,
   or twice.  (Typed, too.)                                                  *)
StoredIsSent ==
    TypeOK /\ (Polite =>
        /\ mode = "up"
        /\ \A k \in DOMAIN sent : k \in DOMAIN answers <=> End(k) <= pos
        /\ \A k \in DOMAIN answers :
            /\ k \in DOMAIN sent
            /\ answers[k].what = sent[k].kind
            /\ answers[k].what = "upload" => answers[k].bytes = Content(k))

(* files_handler.rs:234, "after this fragment, it's not a part of current
   binary anymore": what an upload leaves in the buffer is not of its file.  *)
SurplusIsNotOfFile ==
    actor # None =>
        \A k \in DOMAIN sent : sent[k].at + HEADER = builder.from =>
            \A i \in DOMAIN buf : buf[i] \notin FileAt(k)..(End(k) - 1)
=============================================================================
