---------------------------- MODULE UploadsProofs ----------------------------
(***************************************************************************)
(* Proofs about Uploads, for every size of metadata, files and segments:   *)
(* the handler of a polite client stays in step with it, and stores the    *)
(* files it sent.                                                          *)
(*                                                                         *)
(* Laid says where the requests are in the stream; Begun, what the handler *)
(* knows of an upload it is in, whoever the client is; InStep, where the   *)
(* handler of a polite client is in the last request.  Then a segment that *)
(* belongs to an upload goes on with it or ends it (GoesOn and Ends), and  *)
(* what was stored follows from that alone.                                *)
(***************************************************************************)
EXTENDS Uploads, SequenceTheorems, TLAPS

(* An upload that was begun is one the client asked for.                    *)
Begun ==
    /\ IF first THEN actor = None ELSE builder \in Builder
    /\ ~first /\ actor = None => Uploading(builder)

(* One request ends before the next begins, and is one the plan allows.     *)
Laid ==
    /\ pos <= Written
    /\ \A j, k \in DOMAIN sent : j < k => End(j) <= sent[k].at
    /\ \A k \in DOMAIN sent : sent[k].kind \in plan.kinds /\ sent[k].size \in plan.sizes

(* Where the handler may be in request k: before it, among the bytes of its
   size, or in its file.                                                    *)
Idle == first /\ builder = None /\ actor = None /\ acc = <<>> /\ buf = <<>>

AtStart(k) == Idle /\ pos = sent[k].at

InSize(k) ==
    /\ sent[k].kind = "upload" /\ SizeAt(k) <= pos /\ pos < FileAt(k)
    /\ ~first /\ actor = None /\ Asked(builder) = {k}
    /\ acc = Span(SizeAt(k), pos) /\ buf = <<>>

InFile(k) ==
    /\ sent[k].kind = "upload" /\ FileAt(k) <= pos /\ pos < End(k)
    /\ ~first /\ actor = [size |-> sent[k].size, got |-> Span(FileAt(k), pos)]
    /\ acc = <<>> /\ buf = <<>>

(* All requests are answered, or all but the last.                          *)
Answered == Idle /\ Len(answers) = Len(sent) /\ pos = Written

Pending ==
    /\ Len(sent) = Len(answers) + 1
    /\ AtStart(Len(sent)) \/ InSize(Len(sent)) \/ InFile(Len(sent))

InStep == Polite => mode = "up" /\ (Answered \/ Pending)

(* What request k is answered with.                                         *)
Right(k, answer) ==
    /\ answer.what = sent[k].kind
    /\ answer.what = "upload" => answer.bytes = Content(k)

Told == Polite => \A k \in DOMAIN answers : k \in DOMAIN sent /\ Right(k, answers[k])

IInv == TypeOK /\ Begun /\ Laid /\ InStep /\ Told

GoesOn(k) ==
    /\ mode' = mode /\ answers' = answers
    /\ InSize(k)' \/ InFile(k)'

Ends(k) ==
    /\ mode' = mode /\ pos' = End(k)
    /\ Idle'
    /\ \E answer : answers' = Append(answers, answer) /\ Right(k, answer)

-----------------------------------------------------------------------------
(* Spans of the stream.                                                     *)

LEMMA SpanProperties ==
    ASSUME NEW a \in Nat, NEW b \in Nat, a <= b
    PROVE  /\ Span(a, b) \in Seq(Nat) /\ Len(Span(a, b)) = b - a
           /\ \A i \in 1..(b - a) : Span(a, b)[i] = a + i - 1
<1>1. b - a \in Nat /\ \A i \in 1..(b - a) : a + i - 1 \in Nat
  OBVIOUS
<1>2. Span(a, b) \in [1..(b - a) -> Nat]
  BY <1>1 DEF Span
<1>3. Span(a, b) \in Seq(Nat)
  BY <1>1, <1>2, SeqDef
<1>4. Len(Span(a, b)) = b - a
  BY <1>1, <1>2, <1>3, LenProperties
<1> QED BY <1>3, <1>4 DEF Span

LEMMA SpanEmpty == ASSUME NEW a \in Nat PROVE Span(a, a) = <<>>
BY SpanProperties, EmptySeq

(* A span and the next one are one span.                                    *)
LEMMA SpanJoin ==
    ASSUME NEW a \in Nat, NEW b \in Nat, NEW c \in Nat, a <= b, b <= c
    PROVE  Span(a, b) \o Span(b, c) = Span(a, c)
<1> DEFINE s == Span(a, b)
           t == Span(b, c)
           u == Span(a, c)
<1>1. s \in Seq(Nat) /\ Len(s) = b - a /\ \A i \in 1..(b - a) : s[i] = a + i - 1
  BY SpanProperties
<1>2. t \in Seq(Nat) /\ Len(t) = c - b /\ \A i \in 1..(c - b) : t[i] = b + i - 1
  BY SpanProperties
<1>3. u \in Seq(Nat) /\ Len(u) = c - a /\ \A i \in 1..(c - a) : u[i] = a + i - 1
  BY SpanProperties
<1> HIDE DEF s, t, u
<1>4. /\ s \o t \in Seq(Nat) /\ Len(s \o t) = Len(s) + Len(t)
      /\ \A i \in 1..(Len(s) + Len(t)) : (s \o t)[i] = IF i <= Len(s) THEN s[i] ELSE t[i - Len(s)]
  BY <1>1, <1>2, ConcatProperties
<1>5. Len(s) + Len(t) = c - a
  BY <1>1, <1>2
<1>6. ASSUME NEW i \in 1..(c - a) PROVE (s \o t)[i] = u[i]
  <2>1. CASE i <= b - a
    BY <1>1, <1>3, <1>4, <1>5, <2>1
  <2>2. CASE ~(i <= b - a)
    <3>1. i - (b - a) \in 1..(c - b)
      BY <2>2
    <3>2. t[i - (b - a)] = b + (i - (b - a)) - 1
      BY <1>2, <3>1
    <3>3. (s \o t)[i] = t[i - (b - a)]
      BY <1>1, <1>4, <1>5, <2>2
    <3> QED BY <1>3, <3>2, <3>3
  <2> QED BY <2>1, <2>2
<1>7. s \o t = u
  <2>1. Len(s \o t) = Len(u) /\ Len(u) = c - a
    BY <1>3, <1>4, <1>5
  <2> QED BY <1>3, <1>4, <1>6, <2>1, SeqEqual
<1> QED BY <1>7 DEF s, t, u

(* What is left of a span without its first bytes.                          *)
LEMMA SpanTail ==
    ASSUME NEW a \in Nat, NEW b \in Nat, NEW c \in Nat, a <= b, b <= c
    PROVE  SubSeq(Span(a, c), (b - a) + 1, Len(Span(a, c))) = Span(b, c)
<1> DEFINE s == Span(a, c)
           t == Span(b, c)
           m == (b - a) + 1
           n == c - a
           tail == SubSeq(s, m, n)
<1>1. s \in Seq(Nat) /\ Len(s) = n /\ \A i \in 1..n : s[i] = a + i - 1
  BY SpanProperties
<1>2. t \in Seq(Nat) /\ Len(t) = c - b /\ \A i \in 1..(c - b) : t[i] = b + i - 1
  BY SpanProperties
<1> HIDE DEF s, t
<1>3. m \in Int /\ n \in Int /\ m >= 1 /\ n - m + 1 = c - b
  OBVIOUS
<1>4. \A i \in m..n : s[i] \in Nat
  BY <1>1
<1> HIDE DEF m
<1>5. /\ tail \in Seq(Nat)
      /\ Len(tail) = IF m <= n THEN n - m + 1 ELSE 0
      /\ \A i \in 1..(n - m + 1) : tail[i] = s[m + i - 1]
  BY <1>3, <1>4, SubSeqProperties
<1> HIDE DEF tail
<1>6. Len(tail) = c - b
  BY <1>3, <1>5
<1>7. ASSUME NEW i \in 1..(c - b) PROVE tail[i] = t[i]
  <2>1. m + i - 1 \in 1..n /\ m + i - 1 = (b - a) + i
    BY <1>3 DEF m
  <2>2. tail[i] = a + ((b - a) + i) - 1
    BY <1>1, <1>3, <1>5, <2>1
  <2> QED BY <1>2, <2>2
<1>8. tail = t
  BY <1>2, <1>5, <1>6, <1>7, SeqEqual
<1> QED BY <1>1, <1>8 DEF tail, s, t, m

(* What follows all of a sequence is nothing.                               *)
LEMMA SubSeqPastEnd ==
    ASSUME NEW c \in Seq(Nat) PROVE SubSeq(c, Len(c) + 1, Len(c)) = <<>>
BY LenProperties, SubSeqEmpty

LEMMA SubSeqTyped ==
    ASSUME NEW c \in Seq(Nat), NEW i \in Nat \ {0}, NEW j \in Int, j <= Len(c)
    PROVE  SubSeq(c, i, j) \in Seq(Nat)
<1>1. \A k \in i..j : c[k] \in Nat
  BY LenProperties, ElementOfSeq
<1> QED BY <1>1, SubSeqProperties

-----------------------------------------------------------------------------
(* The types, and what was begun.                                           *)

(* The types of what a segment may change beside the position.              *)
HandlerOK ==
    /\ mode \in {"up", "panicked"}
    /\ first \in BOOLEAN
    /\ builder = None \/ builder \in Builder
    /\ actor = None \/ actor \in Actor
    /\ acc \in Bytes /\ Len(acc) < SIZE
    /\ buf \in Bytes
    /\ answers \in Seq([what: {"error", "download", "upload"}, bytes: Bytes])

LEMMA SegmentTyped ==
    ASSUME TypeOK, NEW n \in 1..BUFFER, Segment(n)
    PROVE  /\ n \in Nat /\ n >= 1 /\ pos \in Nat /\ pos' \in Nat /\ pos' = pos + n
           /\ plan' = plan /\ sent' = sent /\ mode = "up"
           /\ Span(pos, pos + n) \in Seq(Nat) /\ Span(pos, pos + n) = Span(pos, pos')
           /\ Len(Span(pos, pos + n)) = n
<1>1. /\ n \in Nat /\ n >= 1 /\ pos \in Nat /\ pos' \in Nat /\ pos' = pos + n
      /\ plan' = plan /\ sent' = sent /\ mode = "up"
  BY UploadsAssumption DEF Segment, TypeOK, UploadsAssumption
<1>2. pos + n \in Nat /\ pos <= pos + n /\ (pos + n) - pos = n
  BY <1>1
<1>3. Span(pos, pos + n) \in Seq(Nat) /\ Len(Span(pos, pos + n)) = (pos + n) - pos
  BY <1>1, <1>2, SpanProperties
<1> QED BY <1>1, <1>2, <1>3

LEMMA PlanTyped ==
    ASSUME TypeOK
    PROVE  /\ plan.kinds \subseteq Kinds /\ plan.sizes \subseteq Nat /\ plan.sizes \subseteq FileSizes
           /\ plan.count \in Nat
BY UploadsAssumption DEF TypeOK, PlanType, UploadsAssumption

LEMMA SentTyped ==
    ASSUME TypeOK, NEW k \in DOMAIN sent
    PROVE  /\ sent[k] \in Request
           /\ sent[k].at \in Nat /\ sent[k].kind \in Kinds /\ sent[k].size \in Nat
           /\ k \in Nat /\ k >= 1 /\ k <= Len(sent) /\ Len(sent) \in Nat
<1>1. /\ sent \in Seq(Request) /\ sent[k] \in Request
      /\ k \in Nat /\ k >= 1 /\ k <= Len(sent) /\ Len(sent) \in Nat
  BY DEF TypeOK
<1> QED BY <1>1, UploadsAssumption DEF Request, UploadsAssumption

(* Where the parts of a request are.                                        *)
LEMMA Layout ==
    ASSUME NEW k \in DOMAIN sent
    PROVE  /\ SizeAt(k) = sent[k].at + 4 + Meta /\ FileAt(k) = SizeAt(k) + 8
           /\ sent[k].kind = "download" => End(k) = SizeAt(k)
           /\ sent[k].kind # "download" => End(k) = FileAt(k) + sent[k].size
BY DEF SizeAt, FileAt, End, HEADER, SIZE

LEMMA Positions ==
    ASSUME TypeOK, NEW k \in DOMAIN sent
    PROVE  /\ sent[k].at \in Nat /\ SizeAt(k) \in Nat /\ FileAt(k) \in Nat /\ End(k) \in Nat
           /\ sent[k].at < SizeAt(k) /\ SizeAt(k) < FileAt(k) /\ SizeAt(k) <= End(k)
           /\ sent[k].at < End(k)
           /\ sent[k].kind # "download" => FileAt(k) <= End(k)
<1>1. sent[k].at \in Nat /\ sent[k].size \in Nat /\ Meta \in Nat
  BY SentTyped, UploadsAssumption DEF UploadsAssumption
<1>2. SizeAt(k) \in Nat /\ FileAt(k) \in Nat /\ sent[k].at < SizeAt(k) /\ SizeAt(k) < FileAt(k)
  BY <1>1, Layout
<1>3. CASE sent[k].kind = "download"
  BY <1>1, <1>2, <1>3, Layout
<1>4. CASE sent[k].kind # "download"
  BY <1>1, <1>2, <1>4, Layout
<1> QED BY <1>1, <1>2, <1>3, <1>4

LEMMA WrittenTyped == TypeOK => Written \in Nat
<1> SUFFICES ASSUME TypeOK, sent # <<>> PROVE Written \in Nat
  BY DEF Written
<1> Len(sent) \in DOMAIN sent
  BY DEF TypeOK
<1> QED BY Positions DEF Written

LEMMA OpenedTyped ==
    ASSUME TypeOK, NEW s \in HeaderAt(pos)
    PROVE  s \in Nat /\ Opened(s) \in Builder
<1>1. s \in Nat
  BY UploadsAssumption DEF HeaderAt, UploadsAssumption
<1> QED BY <1>1 DEF TypeOK, Opened, Builder, HEADER

LEMMA AnswerTyped ==
    ASSUME TypeOK, NEW what \in {"error", "download", "upload"}, NEW bytes \in Seq(Nat),
           Answer(what, bytes)
    PROVE  answers' \in Seq([what: {"error", "download", "upload"}, bytes: Bytes])
BY DEF Answer, TypeOK, Bytes

LEMMA FreshTyped ==
    ASSUME Fresh
    PROVE  /\ first' \in BOOLEAN /\ (builder = None \/ builder \in Builder)'
           /\ (actor = None \/ actor \in Actor)' /\ acc' \in Bytes /\ Len(acc') < SIZE /\ buf' \in Bytes
           /\ Begun'
<1>1. <<>> \in Seq(Nat) /\ Len(<<>>) = 0
  BY EmptySeq
<1> QED BY <1>1 DEF Fresh, Begun, Bytes, SIZE

LEMMA RefuseTyped == ASSUME TypeOK, Refuse PROVE HandlerOK' /\ Begun'
<1>1. <<>> \in Seq(Nat)
  BY EmptySeq
<1> QED BY <1>1, AnswerTyped, FreshTyped DEF Refuse, HandlerOK, TypeOK

LEMMA PanicTyped ==
    ASSUME TypeOK, Begun, Panic, sent' = sent PROVE HandlerOK' /\ Begun'
BY DEF Panic, HandlerOK, TypeOK, Begun, handler, Uploading, Asked

LEMMA PortionTyped ==
    ASSUME NEW size \in Nat, NEW got \in Seq(Nat), NEW c \in Seq(Nat)
    PROVE  Portion(size, got, c) \in Seq(Nat)
<1>1. Len(got) \in Nat /\ Len(c) \in Nat
  BY LenProperties
<1>2. CASE Len(got) <= size /\ Len(c) > size - Len(got)
  <2>1. Len(c) - (size - Len(got)) \in Int /\ Len(c) - (size - Len(got)) <= Len(c)
    BY <1>1, <1>2
  <2>2. SubSeq(c, 1, Len(c) - (size - Len(got))) \in Seq(Nat)
    BY <2>1, SubSeqTyped
  <2> QED BY <1>2, <2>2 DEF Portion
<1> QED BY <1>2 DEF Portion

LEMMA ConsumeTyped ==
    ASSUME TypeOK, Begun, sent' = sent, NEW b \in Builder,
           NEW size \in 0..MAX_SIZE, NEW got \in Seq(Nat), NEW c \in Seq(Nat), Consume(b, size, got, c)
    PROVE  HandlerOK' /\ Begun'
<1> DEFINE part == Portion(size, got, c)
           all == got \o part
<1>1. size \in Nat /\ part \in Seq(Nat) /\ all \in Seq(Nat) /\ Len(part) \in Nat
  <2>1. size \in Nat
    BY UploadsAssumption DEF UploadsAssumption
  <2> HIDE DEF part
  <2>2. part \in Seq(Nat)
    BY <2>1, PortionTyped DEF part
  <2> QED BY <2>1, <2>2, ConcatProperties, LenProperties
<1>2. \/ Panic
      \/ Finalize(all)
      \/ /\ actor' = [size |-> size, got |-> all]
         /\ buf' = SubSeq(c, Len(part) + 1, Len(c))
         /\ first' = FALSE /\ acc' = <<>>
         /\ builder' = [b EXCEPT !.size = 0]
         /\ UNCHANGED <<mode, answers>>
  BY DEF Consume
<1>3. CASE Panic
  BY <1>3, PanicTyped
<1>4. CASE Finalize(all)
  <2>1. CASE Answer("upload", all) /\ Fresh /\ UNCHANGED mode
    <3> HIDE DEF all
    <3> QED BY <1>1, <2>1, AnswerTyped, FreshTyped DEF HandlerOK, TypeOK
  <2> QED BY <1>4, <2>1, RefuseTyped DEF Finalize
<1>5. CASE /\ actor' = [size |-> size, got |-> all]
           /\ buf' = SubSeq(c, Len(part) + 1, Len(c))
           /\ first' = FALSE /\ acc' = <<>>
           /\ builder' = [b EXCEPT !.size = 0]
           /\ UNCHANGED <<mode, answers>>
  <2> HIDE DEF part, all
  <2>1. buf' \in Seq(Nat)
    <3>1. Len(part) + 1 \in Nat \ {0} /\ Len(c) \in Int /\ Len(c) <= Len(c)
      BY <1>1, LenProperties
    <3>2. SubSeq(c, Len(part) + 1, Len(c)) \in Seq(Nat)
      BY <3>1, SubSeqTyped
    <3> QED BY <1>5, <3>2
  <2>2. actor' \in Actor /\ actor' # None
    BY <1>1, <1>5, UploadsAssumption DEF Actor, Bytes, UploadsAssumption
  <2>3. builder' \in Builder
    BY <1>5 DEF Builder
  <2>4. <<>> \in Seq(Nat) /\ Len(<<>>) = 0
    BY EmptySeq
  <2>5. acc' \in Bytes /\ Len(acc') < SIZE /\ buf' \in Bytes
    BY <1>5, <2>1, <2>4 DEF Bytes, SIZE
  <2>6. HandlerOK'
    BY <1>5, <2>2, <2>3, <2>5 DEF HandlerOK, TypeOK
  <2> QED BY <1>5, <2>2, <2>3, <2>6 DEF Begun
<1> QED BY <1>2, <1>3, <1>4, <1>5

LEMMA StartTyped ==
    ASSUME TypeOK, Begun, sent' = sent, NEW b \in Builder, Uploading(b),
           NEW bytes \in Seq(Nat), Start(b, bytes)
    PROVE  HandlerOK' /\ Begun'
<1> DEFINE all == Held(bytes)
           k == CHOOSE j \in Asked(b) : TRUE
           size == sent[k].size
           c == buf \o SubSeq(all, SIZE + 1, Len(all))
<1>1. all \in Seq(Nat) /\ Len(all) \in Nat
  <2>1. acc \o bytes \in Seq(Nat)
    BY ConcatProperties DEF TypeOK, Bytes
  <2> QED BY <2>1, LenProperties DEF Held
<1>2. CASE Len(all) < SIZE
  <2>1. acc' = all /\ first' = FALSE /\ builder' = b /\ UNCHANGED <<mode, actor, buf, answers>>
    BY <1>2 DEF Start
  <2> HIDE DEF all
  <2>2. HandlerOK'
    BY <1>1, <1>2, <2>1 DEF HandlerOK, TypeOK, Bytes
  <2>3. Uploading(builder)'
    BY <2>1 DEF Uploading, Asked
  <2> QED BY <2>1, <2>2, <2>3 DEF Begun
<1>3. CASE ~(Len(all) < SIZE)
  <2>1. Refuse \/ (size <= MAX_SIZE /\ Consume(b, size, <<>>, c))
    BY <1>3 DEF Start
  <2> HIDE DEF all
  <2>2. c \in Seq(Nat) /\ <<>> \in Seq(Nat)
    <3>1. SIZE + 1 \in Nat \ {0} /\ Len(all) \in Int
      BY <1>1 DEF SIZE
    <3>2. SubSeq(all, SIZE + 1, Len(all)) \in Seq(Nat)
      BY <1>1, <3>1, SubSeqTyped
    <3> QED BY <3>2, ConcatProperties, EmptySeq DEF TypeOK, Bytes
  <2> HIDE DEF c
  <2>3. size \in Nat
    <3>1. k \in DOMAIN sent
      BY DEF Uploading, Asked
    <3> QED BY <3>1, SentTyped
  <2> HIDE DEF size
  <2>4. CASE size <= MAX_SIZE /\ Consume(b, size, <<>>, c)
    <3>1. size \in 0..MAX_SIZE
      BY <2>3, <2>4, UploadsAssumption DEF UploadsAssumption
    <3> QED BY <2>2, <2>4, <3>1, ConsumeTyped
  <2> QED BY <2>1, <2>4, RefuseTyped
<1> QED BY <1>2, <1>3

LEMMA HandleTyped ==
    ASSUME TypeOK, Begun, NEW n \in 1..BUFFER, Handle(n)
    PROVE  HandlerOK' /\ Begun'
<1>1. ASSUME NEW b, b = None \/ b \in Builder, Segment(n), first, Unparsed(b, n)
      PROVE  HandlerOK' /\ Begun'
  <2>1. buf \o Span(pos, pos + n) \in Seq(Nat)
    BY <1>1, SegmentTyped, ConcatProperties DEF TypeOK, Bytes
  <2>2. /\ builder' = b /\ buf' = buf \o Span(pos, pos + n)
        /\ mode' = mode /\ first' = first /\ actor' = actor /\ acc' = acc /\ answers' = answers
    BY <1>1 DEF Unparsed
  <2>3. HandlerOK'
    BY <1>1, <2>1, <2>2 DEF HandlerOK, TypeOK, Bytes
  <2> QED BY <1>1, <2>2, <2>3 DEF Begun
<1>2. CASE ParseShort(n)
  BY <1>1, <1>2 DEF ParseShort
<1>3. CASE ParsePanics(n)
  BY <1>3, SegmentTyped, PanicTyped DEF ParsePanics
<1>4. CASE ParseIncomplete(n)
  <2>1. PICK s \in HeaderAt(pos) :
          Unparsed([size |-> s, from |-> pos + HEADER, len |-> Collected(s, n)], n)
    BY <1>4 DEF ParseIncomplete
  <2>2. Segment(n) /\ first /\ n >= HEADER
    BY <1>4 DEF ParseIncomplete
  <2>3. s \in Nat /\ pos \in Nat /\ n \in Nat /\ Collected(s, n) \in Nat
    BY <2>2, OpenedTyped, SegmentTyped DEF Collected, HEADER
  <2>4. [size |-> s, from |-> pos + HEADER, len |-> Collected(s, n)] \in Builder
    BY <2>3 DEF Builder, HEADER
  <2> QED BY <1>1, <2>1, <2>2, <2>4
<1>5. CASE \E s \in Strays \cup {Meta} : Malformed(n, s) \/ Download(n, s) \/ BeginUpload(n, s)
  <2>1. PICK s : Malformed(n, s) \/ Download(n, s) \/ BeginUpload(n, s)
    BY <1>5
  <2>2. CASE Malformed(n, s)
    BY <2>2, RefuseTyped DEF Malformed
  <2>3. CASE Download(n, s)
    <3>1. CASE Answer("download", <<>>) /\ Fresh /\ UNCHANGED mode
      <4>1. <<>> \in Seq(Nat)
        BY EmptySeq
      <4> QED BY <3>1, <4>1, AnswerTyped, FreshTyped DEF HandlerOK, TypeOK
    <3> QED BY <2>3, <3>1, RefuseTyped DEF Download
  <2>4. CASE BeginUpload(n, s)
    <3>1. /\ Segment(n) /\ n >= HEADER /\ s \in HeaderAt(pos) /\ Sliceable(s, n) /\ Collected(s, n) >= s
          /\ Uploading(Opened(s)) /\ Start(Opened(s), Span(pos + HEADER + s, pos + n))
      BY <2>4 DEF BeginUpload, Parsed
    <3>2. s \in Nat /\ Opened(s) \in Builder
      BY <3>1, OpenedTyped
    <3>3. pos + HEADER + s \in Nat /\ pos + n \in Nat
      BY <3>1, <3>2, SegmentTyped DEF HEADER
    <3>4. pos + HEADER + s <= pos + n
      BY <3>1, <3>2, SegmentTyped DEF Sliceable, Collected, HEADER
    <3>5. Span(pos + HEADER + s, pos + n) \in Seq(Nat)
      BY <3>3, <3>4, SpanProperties
    <3> QED BY <3>1, <3>2, <3>5, SegmentTyped, StartTyped
  <2> QED BY <2>1, <2>2, <2>3, <2>4
<1>6. CASE SizeArrives(n)
  BY <1>6, SegmentTyped, StartTyped DEF SizeArrives, Begun
<1>7. CASE FileArrives(n)
  <2>1. Segment(n) /\ actor \in Actor /\ builder \in Builder
    BY <1>7 DEF FileArrives, Begun, TypeOK
  <2>2. actor.size \in 0..MAX_SIZE /\ actor.got \in Seq(Nat)
    BY <2>1 DEF Actor, Bytes
  <2>3. buf \o Span(pos, pos + n) \in Seq(Nat)
    BY <2>1, SegmentTyped, ConcatProperties DEF TypeOK, Bytes
  <2> QED BY <1>7, <2>1, <2>2, <2>3, SegmentTyped, ConsumeTyped DEF FileArrives
<1> QED BY <1>2, <1>3, <1>4, <1>5, <1>6, <1>7 DEF Handle

LEMMA ReadTyped ==
    ASSUME TypeOK, Begun, NEW n \in 1..BUFFER, Handle(n)
    PROVE  TypeOK' /\ Begun' /\ Segment(n)
<1>1. Segment(n)
  BY DEF Handle, ParseShort, ParsePanics, ParseIncomplete, Parsed, Malformed, Download, BeginUpload,
         SizeArrives, FileArrives
<1>2. pos' \in Nat /\ plan' = plan /\ sent' = sent
  BY <1>1, SegmentTyped
<1>3. HandlerOK' /\ Begun'
  BY HandleTyped
<1> QED BY <1>1, <1>2, <1>3 DEF TypeOK, HandlerOK

LEMMA InitTyped == Init => TypeOK /\ Begun
<1> SUFFICES ASSUME Init PROVE TypeOK /\ Begun
  OBVIOUS
<1>1. plan.count \in Nat
  BY UploadsAssumption DEF Init, PlanType, UploadsAssumption
<1>2. sent \in Seq(Request) /\ Len(sent) = 0
  BY DEF Init
<1>3. acc \in Bytes /\ buf \in Bytes /\ Len(acc) = 0
  BY DEF Init, Bytes
<1>4. answers \in Seq([what: {"error", "download", "upload"}, bytes: Bytes])
  BY DEF Init
<1> QED BY <1>1, <1>2, <1>3, <1>4 DEF Init, TypeOK, Begun, SIZE

-----------------------------------------------------------------------------
(* The requests in the stream.                                              *)

(* A client writes a request behind those it wrote.                         *)
LEMMA SendLays ==
    ASSUME TypeOK, Begun, Laid, Send
    PROVE  /\ TypeOK' /\ Begun' /\ Laid'
           /\ Len(sent') = Len(sent) + 1 /\ DOMAIN sent \subseteq DOMAIN sent'
           /\ \A k \in DOMAIN sent : sent'[k] = sent[k]
           /\ sent'[Len(sent')].at = Written
<1>1. PICK kind \in plan.kinds, size \in plan.sizes :
        sent' = Append(sent, [at |-> Written, kind |-> kind, size |-> size])
  BY DEF Send
<1> DEFINE new == Len(sent) + 1
<1>2. /\ kind \in Kinds /\ size \in Nat /\ size \in FileSizes
      /\ [at |-> Written, kind |-> kind, size |-> size] \in Request
  BY PlanTyped, WrittenTyped DEF Request
<1>3. /\ sent' \in Seq(Request) /\ Len(sent') = new /\ Len(sent) \in Nat /\ DOMAIN sent = 1..Len(sent)
      /\ DOMAIN sent' = 1..new
      /\ \A k \in DOMAIN sent : sent'[k] = sent[k]
      /\ sent'[new] = [at |-> Written, kind |-> kind, size |-> size]
  BY <1>1, <1>2 DEF TypeOK
<1>4. sent'[new].at = Written /\ sent'[new].kind = kind /\ sent'[new].size = size
  BY <1>3
<1>5. \A k \in DOMAIN sent' : k \in DOMAIN sent \/ (k = new /\ k \notin DOMAIN sent)
  BY <1>3
<1>6. \A k \in DOMAIN sent : End(k)' = End(k)
  BY <1>3 DEF End, FileAt, SizeAt
<1>7. TypeOK'
  <2>1. Len(sent') <= plan.count
    BY <1>3, PlanTyped DEF Send
  <2> QED BY <1>3, <2>1 DEF Send, TypeOK, handler
<1>8. Begun'
  <2>1. mode' = mode /\ first' = first /\ builder' = builder /\ actor' = actor
    BY DEF Send, handler
  <2>2. Uploading(builder) => Uploading(builder)'
    BY <1>3, <2>1 DEF Uploading, Asked
  <2> QED BY <2>1, <2>2 DEF Begun
<1>9. Written' \in Nat /\ Written <= Written'
  <2>1. Len(sent') \in DOMAIN sent' /\ sent' # <<>>
    BY <1>3
  <2>2. Written' = End(Len(sent))'
    BY <2>1 DEF Written
  <2>3. End(Len(sent))' = IF kind = "download" THEN Written + HEADER + Meta
                                               ELSE Written + HEADER + Meta + SIZE + size
    BY <1>3, <1>4 DEF End, FileAt, SizeAt
  <2>4. Meta \in Nat
    BY UploadsAssumption DEF UploadsAssumption
  <2> QED BY <1>2, <2>2, <2>3, <2>4, WrittenTyped DEF HEADER, SIZE
<1>10. ASSUME NEW j \in DOMAIN sent PROVE End(j) <= Written
  <2>1. Written = End(Len(sent)) /\ Len(sent) \in DOMAIN sent
    BY <1>3 DEF Written
  <2>2. j = Len(sent) \/ End(j) <= sent[Len(sent)].at
    BY <1>3, <2>1 DEF Laid
  <2> QED BY <2>1, <2>2, Positions
<1>11. Laid'
  <2>1. pos' = pos /\ plan' = plan
    BY DEF Send
  <2>2. pos' <= Written'
    BY <1>9, <2>1, WrittenTyped DEF Laid, TypeOK
  <2>3. ASSUME NEW j \in DOMAIN sent', NEW k \in DOMAIN sent', j < k
        PROVE  End(j)' <= sent'[k].at
    <3>1. j \in DOMAIN sent
      BY <1>3, <2>3
    <3> QED BY <1>3, <1>4, <1>5, <1>6, <1>10, <2>3, <3>1 DEF Laid
  <2>4. \A k \in DOMAIN sent' : sent'[k].kind \in plan'.kinds /\ sent'[k].size \in plan'.sizes
    BY <1>3, <1>4, <1>5, <2>1 DEF Laid
  <2> QED BY <2>2, <2>3, <2>4 DEF Laid
<1> QED BY <1>3, <1>4, <1>7, <1>8, <1>11

LEMMA ReadLays ==
    ASSUME TypeOK, Laid, NEW n \in 1..BUFFER, Segment(n) PROVE Laid'
<1>1. pos' = pos + n /\ sent' = sent /\ plan' = plan /\ pos + n <= Written
  BY SegmentTyped DEF Segment
<1>2. Written' = Written /\ \A k : End(k)' = End(k)
  BY <1>1 DEF Written, End, FileAt, SizeAt
<1> QED BY <1>1, <1>2 DEF Laid

(* No two requests start at one position.                                   *)
LEMMA OneRequest ==
    ASSUME TypeOK, Laid, NEW j \in DOMAIN sent, NEW k \in DOMAIN sent, sent[j].at = sent[k].at
    PROVE  j = k
<1>0. /\ sent[j].at \in Nat /\ End(j) \in Nat /\ sent[j].at < End(j)
      /\ sent[k].at \in Nat /\ End(k) \in Nat /\ sent[k].at < End(k)
      /\ j \in Nat /\ k \in Nat
  BY Positions DEF TypeOK
<1>1. CASE j < k
  <2>1. End(j) <= sent[k].at
    BY <1>1 DEF Laid
  <2> QED BY <1>0, <2>1
<1>2. CASE k < j
  <2>1. End(k) <= sent[j].at
    BY <1>2 DEF Laid
  <2> QED BY <1>0, <2>1
<1> QED BY <1>0, <1>1, <1>2

-----------------------------------------------------------------------------
(* What a segment does for a polite client.                                 *)

(* The bytes at hand are the next of the file, and not more than it has.    *)
LEMMA Consumes ==
    ASSUME TypeOK, Polite, NEW k \in DOMAIN sent, sent[k].kind = "upload", sent' = sent,
           NEW p \in Nat, NEW q \in Nat, FileAt(k) <= p, p < End(k), p <= q, q <= End(k), pos' = q, NEW b,
           Consume(b, sent[k].size, Span(FileAt(k), p), Span(p, q))
    PROVE  GoesOn(k) \/ Ends(k)
<1> DEFINE size == sent[k].size
           got == Span(FileAt(k), p)
           c == Span(p, q)
           all == Span(FileAt(k), q)
<1>1. /\ size \in Nat /\ FileAt(k) \in Nat /\ End(k) = FileAt(k) + size /\ FileAt(k) <= q
      /\ FileAt(k)' = FileAt(k) /\ End(k)' = End(k)
  <2>1. size \in Nat /\ FileAt(k) \in Nat /\ End(k) = FileAt(k) + size
    BY SentTyped, Positions, Layout
  <2>2. FileAt(k)' = FileAt(k) /\ End(k)' = End(k)
    BY DEF FileAt, SizeAt, End
  <2> QED BY <2>1, <2>2
<1>2. /\ got \in Seq(Nat) /\ Len(got) = p - FileAt(k)
      /\ c \in Seq(Nat) /\ Len(c) = q - p
      /\ all \in Seq(Nat) /\ Len(all) = q - FileAt(k)
      /\ got \o c = all
  BY <1>1, SpanProperties, SpanJoin
<1> HIDE DEF got, c, all, size
<1>3. Len(got) <= size /\ ~(Len(c) > size - Len(got)) /\ ~(Len(got) > size)
  <2>1. Len(got) \in Nat /\ Len(c) \in Nat
    BY <1>2, LenProperties
  <2>2. Len(got) + Len(c) <= size
    <3>1. Len(got) = p - FileAt(k) /\ Len(c) = q - p
      BY <1>2
    <3> QED BY <1>1, <3>1
  <2> QED BY <1>1, <2>1, <2>2
<1>4. Portion(size, got, c) = c
  BY <1>3 DEF Portion
<1>5. ~plan.failing
  BY DEF Polite
<1>6. \/ /\ Len(all) = size /\ Answer("upload", all) /\ Fresh /\ UNCHANGED mode
      \/ /\ c # <<>> => Len(all) # size
         /\ actor' = [size |-> size, got |-> all]
         /\ buf' = SubSeq(c, Len(c) + 1, Len(c))
         /\ first' = FALSE /\ acc' = <<>>
         /\ UNCHANGED <<mode, answers>>
  <2>1. Consume(b, size, got, c)
    BY DEF size, got, c
  <2> QED BY <1>2, <1>3, <1>4, <1>5, <2>1 DEF Consume, Finalize
<1>7. CASE Len(all) = size /\ Answer("upload", all) /\ Fresh /\ UNCHANGED mode
  <2>1. q = End(k) /\ pos' = End(k)
    BY <1>1, <1>2, <1>7
  <2>2. all = Content(k)
    BY <2>1 DEF all, Content
  <2>3. Right(k, [what |-> "upload", bytes |-> all])
    BY <2>2 DEF Right
  <2>4. Idle'
    BY <1>7 DEF Fresh, Idle
  <2>5. answers' = Append(answers, [what |-> "upload", bytes |-> all])
    BY <1>7 DEF Answer
  <2> QED BY <1>7, <2>1, <2>3, <2>4, <2>5 DEF Ends
<1>8. CASE /\ c # <<>> => Len(all) # size
           /\ actor' = [size |-> size, got |-> all]
           /\ buf' = SubSeq(c, Len(c) + 1, Len(c))
           /\ first' = FALSE /\ acc' = <<>>
           /\ UNCHANGED <<mode, answers>>
  <2>1. q < End(k)
    <3> SUFFICES ASSUME q = End(k) PROVE FALSE
      BY <1>1
    <3>1. Len(all) = size /\ Len(c) # 0
      <4>1. Len(all) = q - FileAt(k) /\ Len(c) = q - p
        BY <1>2
      <4>2. q - FileAt(k) = size /\ q - p # 0
        BY <1>1
      <4> QED BY <4>1, <4>2
    <3>2. c # <<>>
      BY <3>1, EmptySeq
    <3> QED BY <1>8, <3>1, <3>2
  <2>2. buf' = <<>>
    BY <1>2, <1>8, SubSeqPastEnd
  <2>3. all = Span(FileAt(k), pos)'
    BY <1>1 DEF all
  <2>4. /\ sent'[k].kind = "upload" /\ FileAt(k)' <= pos' /\ pos' < End(k)' /\ ~first'
        /\ actor' = [size |-> sent'[k].size, got |-> Span(FileAt(k), pos)']
        /\ acc' = <<>> /\ buf' = <<>>
    BY <1>1, <1>8, <2>1, <2>2, <2>3 DEF size
  <2>5. InFile(k)'
    BY <2>4 DEF InFile
  <2> QED BY <1>8, <2>5 DEF GoesOn
<1> QED BY <1>6, <1>7, <1>8

(* The bytes at hand begin with the rest of the size of the upload.         *)
LEMMA Starts ==
    ASSUME TypeOK, Polite, NEW k \in DOMAIN sent, sent[k].kind = "upload", sent[k].size \in 1..MAX_SIZE,
           sent' = sent,
           NEW p \in Nat, NEW q \in Nat, SizeAt(k) <= p, p < FileAt(k), p <= q, q <= End(k), pos' = q,
           NEW b, Asked(b) = {k}, actor = None, acc = Span(SizeAt(k), p), buf = <<>>,
           Start(b, Span(p, q))
    PROVE  GoesOn(k) \/ Ends(k)
<1> DEFINE all == Span(SizeAt(k), q)
<1>1. /\ SizeAt(k) \in Nat /\ FileAt(k) \in Nat /\ FileAt(k) = SizeAt(k) + SIZE
      /\ sent[k].size \in Nat /\ End(k) = FileAt(k) + sent[k].size
  BY SentTyped, Positions, Layout DEF SIZE
<1>2. all \in Seq(Nat) /\ Len(all) = q - SizeAt(k) /\ Held(Span(p, q)) = all
  <2>1. SizeAt(k) <= q
    BY <1>1
  <2>2. Span(SizeAt(k), p) \o Span(p, q) = all
    BY <1>1, SpanJoin
  <2> QED BY <1>1, <2>1, <2>2, SpanProperties DEF Held
<1>3. (CHOOSE j \in Asked(b) : TRUE) = k
  OBVIOUS
<1> HIDE DEF all
<1>4. CASE Len(all) < SIZE
  <2>1. acc' = all /\ first' = FALSE /\ builder' = b /\ UNCHANGED <<mode, actor, buf, answers>>
    BY <1>2, <1>4 DEF Start
  <2>2. q < FileAt(k) /\ SizeAt(k) <= q
    BY <1>1, <1>2, <1>4 DEF SIZE
  <2>3. SizeAt(k)' = SizeAt(k) /\ FileAt(k)' = FileAt(k) /\ Asked(builder)' = {k}
    BY <2>1 DEF SizeAt, FileAt, Asked
  <2>4. acc' = Span(SizeAt(k), pos)'
    BY <2>1, <2>3 DEF all
  <2>5. InSize(k)'
    BY <2>1, <2>2, <2>3, <2>4 DEF InSize
  <2> QED BY <2>1, <2>5 DEF GoesOn
<1>5. CASE ~(Len(all) < SIZE)
  <2> DEFINE c == Span(FileAt(k), q)
  <2>1. FileAt(k) <= q /\ FileAt(k) - SizeAt(k) = SIZE /\ SizeAt(k) <= FileAt(k)
    BY <1>1, <1>2, <1>5 DEF SIZE
  <2>2. SubSeq(all, SIZE + 1, Len(all)) = c /\ c \in Seq(Nat)
    <3>1. SubSeq(Span(SizeAt(k), q), (FileAt(k) - SizeAt(k)) + 1, Len(Span(SizeAt(k), q))) = c
      BY <1>1, <2>1, SpanTail
    <3>2. c \in Seq(Nat)
      BY <1>1, <2>1, SpanProperties
    <3> QED BY <2>1, <3>1, <3>2 DEF all
  <2>3. buf \o c = c
    BY <2>2, ConcatEmptySeq
  <2>4. Consume(b, sent[k].size, <<>>, buf \o SubSeq(all, SIZE + 1, Len(all)))
    <3>1. ~(sent[k].size > MAX_SIZE) /\ sent[k].kind # "unsupported"
      BY <1>1, UploadsAssumption DEF UploadsAssumption
    <3> QED BY <1>2, <1>3, <1>5, <3>1 DEF Start
  <2>5. Span(FileAt(k), FileAt(k)) = <<>>
    BY <1>1, SpanEmpty
  <2>6. Consume(b, sent[k].size, Span(FileAt(k), FileAt(k)), Span(FileAt(k), q))
    BY <2>2, <2>3, <2>4, <2>5
  <2>7. FileAt(k) <= FileAt(k) /\ FileAt(k) < End(k)
    BY <1>1
  <2> QED BY <1>1, <2>1, <2>6, <2>7, Consumes
<1> QED BY <1>4, <1>5

(* Whatever is read belongs to the last request.                            *)
LEMMA LastRequest ==
    ASSUME IInv, Polite, NEW n \in 1..BUFFER, Segment(n), NEW k, k = Len(sent)
    PROVE  /\ k \in DOMAIN sent /\ Pending
           /\ sent[k].kind \in {"upload", "download"} /\ sent[k].size \in 1..MAX_SIZE
           /\ sent[k].at <= pos /\ pos < pos' /\ pos' <= End(k)
           /\ Written = End(k)
<1>1. pos < pos' /\ pos' <= Written /\ pos \in Nat /\ pos' \in Nat
  BY SegmentTyped DEF IInv, Segment
<1>2. Pending
  BY <1>1 DEF IInv, InStep, Answered
<1>3. sent # <<>> /\ k \in DOMAIN sent
  BY <1>1, <1>2 DEF Written, IInv, Laid, TypeOK
<1>4. Written = End(k)
  BY <1>3 DEF Written
<1>5. sent[k].kind \in {"upload", "download"} /\ sent[k].size \in 1..MAX_SIZE
  BY <1>3, PlanTyped DEF IInv, Laid, Polite, Kinds
<1>6. sent[k].at <= pos
  <2>1. AtStart(k) \/ InSize(k) \/ InFile(k)
    BY <1>2 DEF Pending
  <2>2. /\ sent[k].at <= SizeAt(k) /\ SizeAt(k) <= FileAt(k)
        /\ sent[k].at \in Nat /\ SizeAt(k) \in Nat /\ FileAt(k) \in Nat
    BY <1>3, Positions DEF IInv
  <2> QED BY <1>1, <2>1, <2>2 DEF AtStart, InSize, InFile
<1> QED BY <1>1, <1>2, <1>3, <1>4, <1>5, <1>6

(* The first segment of a request has all of its metadata.                  *)
LEMMA WholeMetadata ==
    ASSUME IInv, Polite, NEW n \in 1..BUFFER, Segment(n), NEW k \in DOMAIN sent, sent[k].at = pos
    PROVE  /\ HeaderAt(pos) = {Meta} /\ n >= HEADER + Meta
           /\ Sliceable(Meta, n) /\ Collected(Meta, n) = Meta
           /\ Asked(Opened(Meta)) = {k}
<1> USE DEF IInv
<1>1. /\ Meta \in Nat /\ n \in Nat /\ pos \in Nat
      /\ pos + n >= SizeAt(k) /\ SizeAt(k) = pos + 4 + Meta
  BY UploadsAssumption, SegmentTyped, Layout DEF Polite, Segment, UploadsAssumption
<1>2. n >= HEADER + Meta
  BY <1>1 DEF HEADER
<1>3. HeaderAt(pos) = {Meta}
  BY DEF HeaderAt
<1>4. Sliceable(Meta, n) /\ Collected(Meta, n) = Meta
  BY <1>1, <1>2 DEF Sliceable, Collected, HEADER
<1>5. Asked(Opened(Meta)) = {k}
  <2>1. ASSUME NEW j \in DOMAIN sent
        PROVE  j \in Asked(Opened(Meta)) <=> sent[j].at + HEADER = pos + HEADER
    <3>1. Opened(Meta).from = pos + HEADER /\ Opened(Meta).size = Meta
      BY DEF Opened
    <3> QED BY <3>1 DEF Asked
  <2>2. ASSUME NEW j \in DOMAIN sent
        PROVE  sent[j].at + HEADER = pos + HEADER <=> sent[j].at = pos
    <3>1. sent[j].at \in Nat
      BY SentTyped
    <3>2. \A x, y \in Nat : x + 4 = y + 4 <=> x = y
      OBVIOUS
    <3> QED BY <1>1, <3>1, <3>2 DEF HEADER
  <2>3. ASSUME NEW j \in DOMAIN sent PROVE sent[j].at = pos <=> j = k
    BY OneRequest
  <2>4. Asked(Opened(Meta)) \subseteq DOMAIN sent
    BY DEF Asked
  <2> QED BY <2>1, <2>2, <2>3, <2>4
<1> QED BY <1>2, <1>3, <1>4, <1>5

(* A segment of a polite client goes on with an upload, or ends a request.  *)
LEMMA PoliteStep ==
    ASSUME IInv, Polite, NEW n \in 1..BUFFER, Handle(n), NEW k, k = Len(sent)
    PROVE  GoesOn(k) \/ Ends(k)
<1> USE DEF IInv
<1>1. /\ Segment(n) /\ sent' = sent /\ pos \in Nat /\ pos' \in Nat /\ pos' = pos + n
      /\ Span(pos, pos + n) = Span(pos, pos')
  BY ReadTyped, SegmentTyped
<1>2. /\ k \in DOMAIN sent /\ Pending
      /\ sent[k].kind \in {"upload", "download"} /\ sent[k].size \in 1..MAX_SIZE
      /\ sent[k].at <= pos /\ pos < pos' /\ pos' <= End(k)
  BY <1>1, LastRequest
<1>3. CASE AtStart(k)
  <2>1. /\ HeaderAt(pos) = {Meta} /\ n >= HEADER + Meta
        /\ Sliceable(Meta, n) /\ Collected(Meta, n) = Meta
        /\ Asked(Opened(Meta)) = {k}
    BY <1>1, <1>2, <1>3, WholeMetadata DEF AtStart
  <2>2. Meta \in Nat /\ n \in Nat
    BY <1>1, SegmentTyped, UploadsAssumption DEF UploadsAssumption
  <2>3. first /\ actor = None /\ acc = <<>> /\ buf = <<>>
    BY <1>3 DEF AtStart, Idle
  <2>4. ~ParseShort(n) /\ ~ParsePanics(n) /\ ~ParseIncomplete(n)
    <3>1. ~(n < HEADER)
      BY <2>1, <2>2 DEF HEADER
    <3>2. ~(Collected(Meta, n) < Meta)
      BY <2>1, <2>2
    <3> QED BY <2>1, <3>1, <3>2 DEF ParseShort, ParsePanics, ParseIncomplete
  <2>5. ~SizeArrives(n) /\ ~FileArrives(n)
    BY <2>3 DEF SizeArrives, FileArrives
  <2>6. PICK s : Malformed(n, s) \/ Download(n, s) \/ BeginUpload(n, s)
    BY <2>4, <2>5 DEF Handle
  <2>7. s = Meta /\ ~Malformed(n, s)
    BY <2>1, <2>6 DEF Malformed, Download, BeginUpload, Parsed
  <2>8. CASE Download(n, s)
    <3>1. sent[k].kind = "download"
      BY <2>1, <2>7, <2>8 DEF Download
    <3>2. Answer("download", <<>>) /\ Fresh /\ UNCHANGED mode
      BY <2>8 DEF Download, Polite
    <3>3. pos' = End(k)
      <4>1. End(k) = sent[k].at + 4 + Meta
        BY <1>2, <3>1, Layout
      <4> QED BY <1>1, <1>2, <1>3, <2>1, <2>2, <4>1 DEF AtStart, HEADER
    <3>4. Right(k, [what |-> "download", bytes |-> <<>>])
      BY <3>1 DEF Right
    <3>5. Idle'
      BY <3>2 DEF Fresh, Idle
    <3>6. answers' = Append(answers, [what |-> "download", bytes |-> <<>>])
      BY <3>2 DEF Answer
    <3> QED BY <3>2, <3>3, <3>4, <3>5, <3>6 DEF Ends
  <2>9. CASE BeginUpload(n, s)
    <3>1. Uploading(Opened(Meta)) /\ Start(Opened(Meta), Span(pos + HEADER + Meta, pos + n))
      BY <2>7, <2>9 DEF BeginUpload
    <3>2. sent[k].kind = "upload"
      BY <1>2, <2>1, <3>1 DEF Uploading
    <3>3. pos + HEADER + Meta = SizeAt(k) /\ pos + n = pos'
      BY <1>1, <1>2, <1>3 DEF AtStart, SizeAt
    <3>4. SizeAt(k) \in Nat /\ SizeAt(k) < FileAt(k) /\ SizeAt(k) <= pos'
      <4>1. SizeAt(k) \in Nat /\ SizeAt(k) < FileAt(k)
        BY <1>2, Positions
      <4>2. pos + HEADER + Meta <= pos + n
        BY <1>1, <2>1, <2>2 DEF HEADER
      <4> QED BY <3>3, <4>1, <4>2
    <3>5. acc = Span(SizeAt(k), SizeAt(k)) /\ SizeAt(k) <= SizeAt(k)
      BY <2>3, <3>4, SpanEmpty
    <3>6. Start(Opened(Meta), Span(SizeAt(k), pos'))
      BY <3>1, <3>3
    <3> QED BY <1>1, <1>2, <2>1, <2>3, <3>2, <3>4, <3>5, <3>6, Starts
  <2> QED BY <2>6, <2>7, <2>8, <2>9
<1>4. CASE InSize(k)
  <2>1. ~first /\ actor = None /\ SizeArrives(n)
    BY <1>4 DEF InSize, Handle, ParseShort, ParsePanics, ParseIncomplete, Malformed, Download, BeginUpload,
                Parsed, FileArrives
  <2>2. Start(builder, Span(pos, pos'))
    BY <1>1, <2>1 DEF SizeArrives
  <2>3. /\ sent[k].kind = "upload" /\ SizeAt(k) <= pos /\ pos < FileAt(k) /\ pos <= pos'
        /\ Asked(builder) = {k} /\ acc = Span(SizeAt(k), pos) /\ buf = <<>>
    BY <1>1, <1>2, <1>4 DEF InSize
  <2> QED BY <1>1, <1>2, <2>1, <2>2, <2>3, Starts
<1>5. CASE InFile(k)
  <2>1. /\ sent[k].kind = "upload" /\ FileAt(k) <= pos /\ pos < End(k) /\ pos <= pos'
        /\ ~first /\ actor.size = sent[k].size /\ actor.got = Span(FileAt(k), pos)
        /\ actor \in Actor /\ buf = <<>>
    <3>1. actor = [size |-> sent[k].size, got |-> Span(FileAt(k), pos)]
      BY <1>5 DEF InFile
    <3>2. sent[k].size \in 0..MAX_SIZE
      BY <1>2, UploadsAssumption DEF UploadsAssumption
    <3>3. Span(FileAt(k), pos) \in Seq(Nat)
      BY <1>1, <1>2, <1>5, Positions, SpanProperties DEF InFile
    <3>4. actor \in Actor
      BY <3>1, <3>2, <3>3 DEF Actor, Bytes
    <3> QED BY <1>1, <1>2, <1>5, <3>1, <3>4 DEF InFile
  <2>2. actor # None
    BY <2>1, UploadsAssumption DEF UploadsAssumption
  <2>3. FileArrives(n)
    BY <2>1, <2>2 DEF Handle, ParseShort, ParsePanics, ParseIncomplete, Malformed, Download, BeginUpload,
                      Parsed, SizeArrives
  <2>4. buf \o Span(pos, pos + n) = Span(pos, pos')
    BY <1>1, <2>1, SegmentTyped, ConcatEmptySeq
  <2>5. Consume(builder, sent[k].size, Span(FileAt(k), pos), Span(pos, pos'))
    BY <2>1, <2>3, <2>4 DEF FileArrives
  <2> QED BY <1>1, <1>2, <2>1, <2>5, Consumes
<1> QED BY <1>2, <1>3, <1>4, <1>5 DEF Pending

-----------------------------------------------------------------------------
(* The inductive invariant.                                                 *)

LEMMA InitEstablishes == Init => IInv
<1> SUFFICES ASSUME Init PROVE IInv
  OBVIOUS
<1>1. sent = <<>> /\ pos = 0 /\ answers = <<>> /\ Len(sent) = 0 /\ Len(answers) = 0
      /\ DOMAIN sent = {} /\ DOMAIN answers = {} /\ Written = 0
  BY DEF Init, Written
<1>2. Laid /\ Told
  BY <1>1 DEF Laid, Told
<1>3. InStep
  BY <1>1 DEF Init, InStep, Answered, Idle
<1> QED BY <1>2, <1>3, InitTyped DEF IInv

(* A polite client writes its next request when it was answered.            *)
LEMMA SendInStep == ASSUME IInv, Send PROVE IInv'
<1> USE DEF IInv
<1>1. /\ TypeOK' /\ Begun' /\ Laid'
      /\ Len(sent') = Len(sent) + 1 /\ DOMAIN sent \subseteq DOMAIN sent'
      /\ \A k \in DOMAIN sent : sent'[k] = sent[k]
      /\ sent'[Len(sent')].at = Written
  BY SendLays
<1>2. /\ mode' = mode /\ plan' = plan /\ pos' = pos /\ answers' = answers
      /\ first' = first /\ builder' = builder /\ actor' = actor /\ acc' = acc /\ buf' = buf
  BY DEF Send, handler
<1>3. Polite' <=> Polite
  BY <1>2 DEF Polite
<1>4. ASSUME Polite PROVE (mode = "up" /\ Pending)'
  <2>1. mode = "up" /\ Len(answers) = Len(sent) /\ pos = Written
    BY <1>4 DEF Send, Polite
  <2>2. ~Pending
    BY <2>1 DEF Pending, TypeOK
  <2>3. Idle
    BY <1>4, <2>2 DEF InStep, Answered
  <2>4. AtStart(Len(sent))'
    BY <1>1, <1>2, <2>1, <2>3 DEF AtStart, Idle
  <2>5. Len(sent') = Len(answers') + 1
    BY <1>1, <1>2, <2>1
  <2> QED BY <1>2, <2>1, <2>4, <2>5 DEF Pending
<1>5. InStep'
  BY <1>3, <1>4 DEF InStep
<1>6. ASSUME Polite, NEW k \in DOMAIN answers PROVE k \in DOMAIN sent' /\ Right(k, answers[k])'
  <2>1. k \in DOMAIN sent /\ Right(k, answers[k])
    BY <1>6 DEF Told
  <2>2. sent'[k] = sent[k] /\ k \in DOMAIN sent'
    BY <1>1, <2>1
  <2>3. Content(k)' = Content(k)
    BY <2>2 DEF Content, End, FileAt, SizeAt
  <2> QED BY <1>2, <2>1, <2>2, <2>3 DEF Right
<1>7. Told'
  BY <1>2, <1>3, <1>6 DEF Told
<1> QED BY <1>1, <1>5, <1>7

(* And the handler answers it when it read its last byte.                   *)
LEMMA HandleInStep == ASSUME IInv, NEW n \in 1..BUFFER, Handle(n) PROVE IInv'
<1> USE DEF IInv
<1>1. TypeOK' /\ Begun' /\ Segment(n)
  BY ReadTyped
<1>2. Laid' /\ sent' = sent /\ plan' = plan
  BY <1>1, ReadLays, SegmentTyped
<1>3. Polite' <=> Polite
  BY <1>2 DEF Polite
<1> SUFFICES ASSUME Polite PROVE InStep' /\ Told'
  BY <1>1, <1>2, <1>3 DEF InStep, Told
<1> DEFINE k == Len(sent)
<1>4. /\ GoesOn(k) \/ Ends(k)
      /\ k \in DOMAIN sent /\ Pending /\ Written = End(k)
  BY <1>1, PoliteStep, LastRequest
<1>5. mode = "up" /\ Len(sent) = Len(answers) + 1
  BY <1>4 DEF InStep, Pending
<1>6. Written' = Written /\ End(k)' = End(k) /\ \A j : Content(j)' = Content(j)
  BY <1>2 DEF Written, Content, End, FileAt, SizeAt
<1>7. \A j, a : Right(j, a)' <=> Right(j, a)
  BY <1>2, <1>6 DEF Right
<1>8. CASE GoesOn(k)
  <2>1. mode' = "up" /\ answers' = answers /\ k = Len(sent')
    BY <1>2, <1>5, <1>8 DEF GoesOn
  <2>2. InSize(Len(sent))' \/ InFile(Len(sent))'
    BY <1>2, <1>8 DEF GoesOn
  <2>3. Pending'
    BY <1>2, <1>5, <2>1, <2>2 DEF Pending
  <2> QED BY <1>2, <1>7, <2>1, <2>3 DEF InStep, Told
<1>9. CASE Ends(k)
  <2>1. PICK answer : answers' = Append(answers, answer) /\ Right(k, answer)
    BY <1>9 DEF Ends
  <2>2. /\ Len(answers') = Len(answers) + 1 /\ DOMAIN answers' = 1..(Len(answers) + 1)
        /\ DOMAIN answers = 1..Len(answers) /\ Len(answers) \in Nat
        /\ \A j \in DOMAIN answers : answers'[j] = answers[j]
        /\ answers'[Len(answers) + 1] = answer
    BY <2>1 DEF TypeOK
  <2>3. Answered'
    BY <1>2, <1>4, <1>5, <1>6, <1>9, <2>2 DEF Answered, Ends
  <2>4. ASSUME NEW j \in DOMAIN answers' PROVE j \in DOMAIN sent' /\ Right(j, answers'[j])
    <3>1. CASE j \in DOMAIN answers
      BY <1>2, <2>2, <3>1 DEF Told
    <3>2. CASE j \notin DOMAIN answers
      <4>1. j = k
        BY <1>5, <2>2, <3>2
      <4> QED BY <1>2, <1>4, <1>5, <2>1, <2>2, <4>1
    <3> QED BY <3>1, <3>2
  <2>5. mode' = "up"
    BY <1>5, <1>9 DEF Ends
  <2> QED BY <1>7, <2>3, <2>4, <2>5 DEF InStep, Told
<1> QED BY <1>4, <1>8, <1>9

LEMMA NextPreserves == IInv /\ [Next]_vars => IInv'
<1>1. IInv /\ UNCHANGED vars => IInv'
  <2> SUFFICES ASSUME IInv, UNCHANGED vars PROVE IInv'
    OBVIOUS
  <2>1. /\ mode' = mode /\ plan' = plan /\ sent' = sent /\ pos' = pos /\ answers' = answers
        /\ first' = first /\ builder' = builder /\ actor' = actor /\ acc' = acc /\ buf' = buf
    BY DEF vars, handler
  <2>2. TypeOK' /\ Begun' /\ Laid'
    BY <2>1 DEF IInv, TypeOK, Begun, Uploading, Asked, Laid, Written, End, FileAt, SizeAt
  <2>3. InStep'
    BY <2>1 DEF IInv, InStep, Polite, Answered, Pending, Idle, AtStart, InSize, InFile, Asked, Written,
                End, FileAt, SizeAt
  <2>4. Told'
    BY <2>1 DEF IInv, Told, Polite, Right, Content, End, FileAt, SizeAt
  <2> QED BY <2>2, <2>3, <2>4 DEF IInv
<1> QED BY <1>1, SendInStep, HandleInStep DEF Next

LEMMA IInvHolds == Spec => []IInv
BY InitEstablishes, NextPreserves, PTL DEF Spec

(* The requests that are answered are those that are read.                  *)
LEMMA AnsweredIsRead ==
    ASSUME IInv, Polite, NEW k \in DOMAIN sent
    PROVE  k \in DOMAIN answers <=> End(k) <= pos
<1> USE DEF IInv
<1> DEFINE last == Len(sent)
<1>1. /\ DOMAIN answers = 1..Len(answers) /\ Len(answers) \in Nat /\ pos \in Nat
      /\ last \in DOMAIN sent /\ Written = End(last) /\ DOMAIN sent = 1..last /\ k \in 1..last
  BY DEF TypeOK, Written
<1>2. /\ End(k) \in Nat /\ End(last) \in Nat
      /\ sent[last].at \in Nat /\ sent[last].at <= End(last)
  BY <1>1, Positions
<1>3. k # last => End(k) <= sent[last].at
  BY <1>1 DEF Laid
<1>4. End(k) <= Written
  <2>1. CASE k = last
    <3>1. End(k) = Written
      BY <1>1, <2>1
    <3> QED BY <1>2, <3>1
  <2>2. CASE k # last
    BY <1>1, <1>2, <1>3, <2>2
  <2> QED BY <2>1, <2>2
<1>5. CASE Answered
  BY <1>1, <1>4, <1>5 DEF Answered
<1>6. CASE Pending
  <2>1. sent[last].at <= pos /\ pos < End(last)
    <3>1. /\ sent[last].at < SizeAt(last) /\ SizeAt(last) < FileAt(last) /\ sent[last].at < End(last)
          /\ SizeAt(last) \in Nat /\ FileAt(last) \in Nat
          /\ sent[last].kind = "upload" => FileAt(last) <= End(last)
      BY <1>1, Positions
    <3>2. CASE AtStart(last)
      BY <1>1, <1>2, <3>1, <3>2 DEF AtStart
    <3>3. CASE InSize(last)
      BY <1>1, <1>2, <3>1, <3>3 DEF InSize
    <3>4. CASE InFile(last)
      BY <1>1, <1>2, <3>1, <3>4 DEF InFile
    <3> QED BY <1>6, <3>2, <3>3, <3>4 DEF Pending
  <2>2. k \in DOMAIN answers <=> k # last
    BY <1>1, <1>6 DEF Pending
  <2>3. CASE k = last
    <3>1. ~(End(last) <= pos)
      BY <1>1, <1>2, <2>1
    <3> QED BY <2>2, <2>3, <3>1
  <2>4. CASE k # last
    <3>1. End(k) <= pos
      BY <1>1, <1>2, <1>3, <2>1, <2>4
    <3> QED BY <2>2, <2>4, <3>1
  <2> QED BY <2>3, <2>4
<1> QED BY <1>5, <1>6 DEF InStep

-----------------------------------------------------------------------------
(* If the client is polite (it awaits each answer, its metadata arrives whole,
   no file is empty or too large, and the store does not fail), then however
   size and file are cut the handler is at a request that is next, in the size
   of the last request or in its file, and holds the bytes of it that were
   read and no other.  Of other clients this says nothing: the code does lose
   step with them (SurplusIsNotOfFile).                                      *)
THEOREM HandlerStaysInStep ==
    Spec => [](Polite => mode = "up" /\ (Answered \/ Pending))
<1>1. IInv => (Polite => mode = "up" /\ (Answered \/ Pending))
  BY DEF IInv, InStep
<1> QED BY <1>1, IInvHolds, PTL

(* A polite client is answered when the last byte of its request was read, and
   what is stored for an upload is the file it sent.                        *)
THEOREM StoredStaysSent == Spec => []StoredIsSent
<1>1. ASSUME IInv PROVE StoredIsSent
  <2> SUFFICES ASSUME Polite
               PROVE  /\ mode = "up"
                      /\ \A k \in DOMAIN sent : k \in DOMAIN answers <=> End(k) <= pos
                      /\ \A k \in DOMAIN answers :
                          /\ k \in DOMAIN sent
                          /\ answers[k].what = sent[k].kind
                          /\ answers[k].what = "upload" => answers[k].bytes = Content(k)
    BY <1>1 DEF IInv, StoredIsSent
  <2>1. mode = "up"
    BY <1>1 DEF IInv, InStep
  <2>2. \A k \in DOMAIN sent : k \in DOMAIN answers <=> End(k) <= pos
    BY <1>1, AnsweredIsRead
  <2> QED BY <1>1, <2>1, <2>2 DEF IInv, Told, Right
<1> QED BY <1>1, IInvHolds, PTL

-----------------------------------------------------------------------------
(* Whoever the client is: what is stored has the size that was named.       *)

Named(size) ==
    size <= MAX_SIZE /\ \E k \in DOMAIN sent : sent[k].kind = "upload" /\ sent[k].size = size

StoredIsWhole ==
    \A j \in DOMAIN answers : answers[j].what = "upload" => Named(Len(answers[j].bytes))

Kept == StoredIsWhole /\ (actor # None => Named(actor.size))

LEMMA AnswerKeeps ==
    ASSUME TypeOK, Kept, sent' = sent, NEW what, NEW bytes, Answer(what, bytes), Fresh,
           what = "upload" => Named(Len(bytes))
    PROVE  Kept'
<1>1. /\ DOMAIN answers' = 1..(Len(answers) + 1) /\ DOMAIN answers = 1..Len(answers) /\ Len(answers) \in Nat
      /\ \A j \in DOMAIN answers : answers'[j] = answers[j]
      /\ answers'[Len(answers) + 1] = [what |-> what, bytes |-> bytes]
  BY DEF Answer, TypeOK
<1>2. \A size : Named(size)' <=> Named(size)
  BY DEF Named
<1>3. ASSUME NEW j \in DOMAIN answers', answers'[j].what = "upload"
      PROVE  Named(Len(answers'[j].bytes))
  <2>1. CASE j \in DOMAIN answers
    BY <1>1, <1>3, <2>1 DEF Kept, StoredIsWhole
  <2>2. CASE j \notin DOMAIN answers
    <3>1. answers'[j] = [what |-> what, bytes |-> bytes]
      BY <1>1, <2>2
    <3> QED BY <1>3, <3>1
  <2> QED BY <2>1, <2>2
<1>4. actor' = None
  BY DEF Fresh
<1> QED BY <1>2, <1>3, <1>4 DEF Kept, StoredIsWhole

(* Only an upload and its answer matter.                                    *)
LEMMA SilenceKeeps ==
    ASSUME Kept, sent' = sent, answers' = answers,
           actor' = actor \/ actor' = None \/ Named(actor'.size)
    PROVE  Kept'
<1>1. \A size : Named(size)' <=> Named(size)
  BY DEF Named
<1>2. StoredIsWhole'
  BY <1>1 DEF Kept, StoredIsWhole
<1>3. actor' # None => Named(actor'.size)
  BY DEF Kept
<1> QED BY <1>1, <1>2, <1>3 DEF Kept

LEMMA RefuseKeeps == ASSUME TypeOK, Kept, sent' = sent, Refuse PROVE Kept'
BY AnswerKeeps DEF Refuse

LEMMA ConsumeKeeps ==
    ASSUME TypeOK, Kept, sent' = sent, NEW b, NEW size, Named(size), NEW got, NEW c, Consume(b, size, got, c)
    PROVE  Kept'
<1> DEFINE all == got \o Portion(size, got, c)
<1>1. \/ Panic
      \/ Len(all) = size /\ Finalize(all)
      \/ actor' = [size |-> size, got |-> all] /\ answers' = answers
  BY DEF Consume
<1> HIDE DEF all
<1>2. CASE Panic
  BY <1>2, SilenceKeeps DEF Panic, handler
<1>3. CASE Len(all) = size /\ Finalize(all)
  BY <1>3, AnswerKeeps, RefuseKeeps DEF Finalize
<1>4. CASE actor' = [size |-> size, got |-> all] /\ answers' = answers
  <2>1. actor'.size = size
    BY <1>4
  <2> QED BY <1>4, <2>1, SilenceKeeps
<1> QED BY <1>1, <1>2, <1>3, <1>4

LEMMA StartKeeps ==
    ASSUME TypeOK, Kept, sent' = sent, NEW b, NEW bytes, Uploading(b), Start(b, bytes)
    PROVE  Kept'
<1> DEFINE k == CHOOSE j \in Asked(b) : TRUE
           size == sent[k].size
           c == buf \o SubSeq(Held(bytes), SIZE + 1, Len(Held(bytes)))
<1>1. k \in DOMAIN sent
  BY DEF Uploading, Asked
<1>2. \/ answers' = answers /\ actor' = actor
      \/ Refuse
      \/ size <= MAX_SIZE /\ sent[k].kind = "upload" /\ Consume(b, size, <<>>, c)
  BY DEF Start
<1> HIDE DEF c
<1>3. CASE size <= MAX_SIZE /\ sent[k].kind = "upload" /\ Consume(b, size, <<>>, c)
  <2>1. Named(size)
    BY <1>1, <1>3 DEF Named
  <2> HIDE DEF size
  <2> QED BY <1>3, <2>1, ConsumeKeeps
<1> QED BY <1>2, <1>3, RefuseKeeps, SilenceKeeps

LEMMA HandleKeeps ==
    ASSUME TypeOK, Begun, Kept, NEW n \in 1..BUFFER, Handle(n) PROVE Kept'
<1>1. sent' = sent
  BY ReadTyped, SegmentTyped
<1>2. CASE ParseShort(n) \/ ParseIncomplete(n) \/ ParsePanics(n)
  <2>1. answers' = answers /\ actor' = actor
    BY <1>2 DEF ParseShort, ParseIncomplete, ParsePanics, Unparsed, Panic, handler
  <2> QED BY <1>1, <2>1, SilenceKeeps
<1>3. ASSUME NEW s, Malformed(n, s) \/ Download(n, s) \/ BeginUpload(n, s) PROVE Kept'
  <2>1. CASE Malformed(n, s)
    BY <1>1, <2>1, RefuseKeeps DEF Malformed
  <2>2. CASE Download(n, s)
    <3>1. Refuse \/ (Answer("download", <<>>) /\ Fresh)
      BY <2>2 DEF Download
    <3> QED BY <1>1, <3>1, RefuseKeeps, AnswerKeeps
  <2>3. CASE BeginUpload(n, s)
    BY <1>1, <2>3, StartKeeps DEF BeginUpload
  <2> QED BY <1>3, <2>1, <2>2, <2>3
<1>4. CASE SizeArrives(n)
  BY <1>1, <1>4, StartKeeps DEF SizeArrives, Begun
<1>5. CASE FileArrives(n)
  <2>1. Named(actor.size) /\ Consume(builder, actor.size, actor.got, buf \o Span(pos, pos + n))
    BY <1>5 DEF FileArrives, Kept
  <2> QED BY <1>1, <2>1, ConsumeKeeps
<1> QED BY <1>2, <1>3, <1>4, <1>5 DEF Handle

LEMMA SendKeeps == ASSUME TypeOK, Begun, Laid, Kept, Send PROVE Kept'
<1>1. DOMAIN sent \subseteq DOMAIN sent' /\ \A k \in DOMAIN sent : sent'[k] = sent[k]
  BY SendLays
<1>2. \A size : Named(size) => Named(size)'
  BY <1>1 DEF Named
<1>3. answers' = answers /\ actor' = actor
  BY DEF Send, handler
<1> QED BY <1>2, <1>3 DEF Kept, StoredIsWhole

(* Whatever a client writes and however it is cut, an upload that is answered
   as stored holds as many bytes as an upload the client asked for, and not
   more than the limit: no file is stored in part.                          *)
THEOREM StoredStaysWhole == Spec => []StoredIsWhole
<1>1. Init => Kept
  BY DEF Init, Kept, StoredIsWhole
<1>2. IInv /\ Kept /\ [Next]_vars => Kept'
  <2>1. ASSUME IInv, Kept, UNCHANGED vars PROVE Kept'
    BY <2>1, SilenceKeeps DEF vars, handler
  <2> QED BY <2>1, HandleKeeps, SendKeeps DEF IInv, Next
<1>3. Kept => StoredIsWhole
  BY DEF Kept
<1> QED BY <1>1, <1>2, <1>3, IInvHolds, PTL DEF Spec
=============================================================================
