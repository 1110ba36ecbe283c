----------------------------- MODULE FramesProofs -----------------------------
(***************************************************************************)
(* Proofs about Frames, for every size of the buffer and of the contents:  *)
(* when the segments are polite the handler stays in step with the client. *)
(*                                                                         *)
(* Laid says where the frames are in the stream; InStep, where the reader  *)
(* is among them.  A polite segment then either goes on with a frame or    *)
(* finishes it (GoesOn and Finishes), and what is handled and answered     *)
(* follows from that alone.                                                *)
(***************************************************************************)
EXTENDS Frames, TLAPS

(* One frame ends before the next begins, and is one the plan allows.       *)
Laid ==
    /\ pos <= Written
    /\ \A j, k \in DOMAIN sent : j < k => End(j) <= sent[k].at
    /\ \A k \in DOMAIN sent : \E f \in plan.frames : sent[k].size = f.size /\ sent[k].id = f.id

(* The builder of frame k, when all before position p is read.              *)
Part(k, p) == [size |-> sent[k].size, from |-> sent[k].at + HEADER, len |-> p - (sent[k].at + HEADER)]

Inside(k) == sent[k].at < pos /\ pos < End(k)

InStep ==
    Polite =>
        /\ mode = "up"
        /\ \/ first /\ builder = None /\ \A k \in DOMAIN sent : ~Inside(k)
           \/ ~first /\ \E k \in DOMAIN sent :
                /\ Inside(k) /\ sent[k].at + HEADER <= pos
                /\ builder = Part(k, pos)

Steady == sent' = sent /\ plan' = plan /\ mode' = mode

GoesOn(k) ==
    /\ Steady
    /\ sent[k].at <= pos /\ pos < pos' /\ sent[k].at + HEADER <= pos' /\ pos' < End(k)
    /\ ~first' /\ builder' = Part(k, pos')
    /\ UNCHANGED <<handled, replies>>

Finishes(k) ==
    /\ Steady
    /\ sent[k].at <= pos /\ pos < pos' /\ pos' = End(k)
    /\ first' /\ builder' = None
    /\ \/ sent[k].size = 0 /\ handled' = handled /\ Reply(lastId, FALSE)
       \/ sent[k].size # 0 /\ handled' = Append(handled, Content(k)) /\ Reply(NewId(k), sent[k].id # BadId)

-----------------------------------------------------------------------------
(* The types.                                                               *)

(* Whoever reads a segment has a complete header in its buffer or not.      *)
LEMMA SegmentTyped ==
    ASSUME TypeOK, NEW n \in 1..BUFFER, Segment(n)
    PROVE  /\ n \in Nat /\ n >= 1 /\ pos' \in Nat /\ pos' = pos + n
           /\ plan' = plan /\ sent' = sent /\ mode = "up"
BY FramesAssumption DEF Segment, TypeOK

LEMMA FrameParts ==
    ASSUME NEW s \in Seq(Frame), NEW k \in DOMAIN s
    PROVE  s[k].at \in Nat /\ s[k].size \in Nat /\ s[k].id \in ReqIds \cup {NoId, BadId}
<1>1. s[k] \in Frame
  OBVIOUS
<1> QED BY <1>1, FramesAssumption DEF Frame

LEMMA SentTyped ==
    ASSUME TypeOK, NEW k \in DOMAIN sent
    PROVE  /\ sent[k] \in Frame
           /\ sent[k].at \in Nat /\ sent[k].size \in Nat /\ sent[k].id \in ReqIds \cup {NoId, BadId}
           /\ k \in Nat /\ k >= 1 /\ k <= Len(sent) /\ Len(sent) \in Nat
           /\ End(k) \in Nat /\ End(k) = sent[k].at + 4 + sent[k].size
           /\ NewId(k) \in Ids
<1>1. sent \in Seq(Frame) /\ sent[k] \in Frame /\ k \in Nat /\ k >= 1 /\ k <= Len(sent) /\ Len(sent) \in Nat
  BY DEF TypeOK
<1>2. sent[k].at \in Nat /\ sent[k].size \in Nat /\ sent[k].id \in ReqIds \cup {NoId, BadId}
  BY <1>1, FrameParts
<1>3. NewId(k) \in Ids
  BY DEF NewId, Ids, TypeOK
<1> QED BY <1>1, <1>2, <1>3 DEF End, HEADER

LEMMA WrittenTyped == TypeOK => Written \in Nat
<1> SUFFICES ASSUME TypeOK, sent # <<>> PROVE Written \in Nat
  BY DEF Written
<1> Len(sent) \in DOMAIN sent
  BY DEF TypeOK
<1> QED BY SentTyped DEF Written

LEMMA HeaderTyped ==
    ASSUME TypeOK, NEW p, NEW s \in HeaderAt(p) PROVE s \in Nat
<1>1. CASE \E k \in DOMAIN sent : sent[k].at = p
  <2>1. PICK k \in DOMAIN sent : s = sent[k].size
    BY <1>1 DEF HeaderAt
  <2> QED BY <2>1, SentTyped
<1>2. CASE ~\E k \in DOMAIN sent : sent[k].at = p
  BY <1>2, FramesAssumption DEF HeaderAt
<1> QED BY <1>1, <1>2

LEMMA HandleTyped ==
    ASSUME TypeOK, NEW c \in [from: Nat, len: Nat], Handle(c)
    PROVE  /\ mode' = mode /\ first' \in BOOLEAN /\ builder' = None /\ lastId' \in Ids
           /\ handled' \in Seq([from: Nat, len: Nat])
           /\ replies' \in Seq([id: Ids, ok: BOOLEAN])
<1>1. ASSUME NEW id \in Ids, NEW ok \in BOOLEAN, Reply(id, ok)
      PROVE  replies' \in Seq([id: Ids, ok: BOOLEAN])
  BY <1>1 DEF Reply, TypeOK
<1>2. handled' \in Seq([from: Nat, len: Nat])
  BY DEF Handle, TypeOK
<1>3. CASE ~\E k \in DOMAIN sent : IsFrame(k, c)
  <2>1. lastId' \in Ids /\ Reply(lastId, FALSE) /\ lastId \in Ids
    BY <1>3 DEF Handle, TypeOK
  <2> QED BY <1>1, <1>2, <2>1 DEF Handle
<1>4. CASE \E k \in DOMAIN sent : IsFrame(k, c)
  <2>1. PICK k \in DOMAIN sent : lastId' = NewId(k) /\ Reply(NewId(k), sent[k].id # BadId)
    BY <1>4 DEF Handle
  <2>2. NewId(k) \in Ids
    BY SentTyped
  <2>3. (sent[k].id # BadId) \in BOOLEAN
    OBVIOUS
  <2>4. replies' \in Seq([id: Ids, ok: BOOLEAN])
    BY <1>1, <2>1, <2>2, <2>3
  <2> QED BY <1>2, <2>1, <2>2, <2>4 DEF Handle
<1> QED BY <1>3, <1>4

LEMMA InitTyped == Init => TypeOK
BY FramesAssumption DEF Init, TypeOK, PlanType, Ids

LEMMA SendTyped == TypeOK /\ Send => TypeOK'
<1> SUFFICES ASSUME TypeOK, Send PROVE TypeOK'
  OBVIOUS
<1>1. PICK f \in plan.frames : sent' = Append(sent, [at |-> Written, size |-> f.size, id |-> f.id])
  BY DEF Send
<1>2. f.size \in Sizes /\ f.id \in ReqIds \cup {NoId, BadId}
  BY FramesAssumption DEF TypeOK, PlanType, Kind
<1>3. [at |-> Written, size |-> f.size, id |-> f.id] \in Frame
  BY <1>2, WrittenTyped DEF Frame
<1>4. sent' \in Seq(Frame) /\ Len(sent') = Len(sent) + 1
  BY <1>1, <1>3 DEF TypeOK
<1>5. plan.count \in Nat /\ Len(sent) \in Nat
  BY FramesAssumption DEF TypeOK, PlanType
<1> QED BY <1>4, <1>5 DEF Send, TypeOK, handler

LEMMA ReadTyped ==
    ASSUME TypeOK, NEW n \in 1..BUFFER,
           Deafen(n) \/ SlicePanics(n) \/ RefuseSize(n) \/ Begin(n) \/ Extend(n) \/ Ignore(n)
    PROVE  TypeOK'
<1>1. CASE Deafen(n)
  BY <1>1, SegmentTyped DEF Deafen, TypeOK
<1>2. CASE SlicePanics(n)
  BY <1>2, SegmentTyped DEF SlicePanics, TypeOK, handler
<1>3. CASE RefuseSize(n)
  <2>1. replies' \in Seq([id: Ids, ok: BOOLEAN])
    BY <1>3 DEF RefuseSize, Reply, TypeOK
  <2> QED BY <1>3, <2>1, SegmentTyped DEF RefuseSize, TypeOK, handler
<1>4. CASE Begin(n)
  <2>1. Segment(n) /\ n >= HEADER
    BY <1>4 DEF Begin
  <2> DEFINE C(s) == [from |-> pos + HEADER, len |-> Collected(s, n)]
  <2>2. PICK s \in HeaderAt(pos) :
            /\ Sliceable(s, n) /\ s \in 1..MAX_SIZE
            /\ \/ Ready(C(s).len, s) /\ Handle(C(s))
               \/ /\ ~Ready(C(s).len, s)
                  /\ builder' = [size |-> s, from |-> C(s).from, len |-> C(s).len]
                  /\ first' = FALSE
                  /\ UNCHANGED <<mode, lastId, handled, replies>>
    BY <1>4 DEF Begin
  <2>3. Collected(s, n) \in Nat /\ pos + HEADER \in Nat
    BY <2>1, <2>2, HeaderTyped, SegmentTyped DEF Collected, HEADER, TypeOK
  <2>4. CASE Ready(C(s).len, s) /\ Handle(C(s))
    BY <2>1, <2>3, <2>4, SegmentTyped, HandleTyped DEF TypeOK
  <2>5. CASE ~Ready(C(s).len, s) /\ builder' = [size |-> s, from |-> pos + HEADER, len |-> Collected(s, n)]
             /\ first' = FALSE /\ UNCHANGED <<mode, lastId, handled, replies>>
    <3>1. Collected(s, n) < s /\ s \in Nat
      BY <2>2, <2>3, <2>5, HeaderTyped DEF Ready
    <3>2. builder' \in Builder /\ builder'.size \in 1..MAX_SIZE /\ builder'.len < builder'.size
      BY <2>2, <2>3, <2>5, <3>1 DEF Builder
    <3> QED BY <2>1, <2>5, <3>2, SegmentTyped DEF TypeOK
  <2> QED BY <2>2, <2>4, <2>5
<1>5. CASE Extend(n)
  <2>1. Segment(n) /\ builder # None
    BY <1>5 DEF Extend
  <2>2. builder \in Builder /\ builder.size \in 1..MAX_SIZE
        /\ builder.size \in Nat /\ builder.from \in Nat /\ builder.len \in Nat
    BY <2>1 DEF TypeOK, Builder
  <2> DEFINE l == builder.len + n
             c == [from |-> builder.from, len |-> l]
  <2>3. l \in Nat /\ c \in [from: Nat, len: Nat]
    BY <2>1, <2>2, SegmentTyped
  <2>4. CASE Handle(c)
    BY <2>1, <2>3, <2>4, SegmentTyped, HandleTyped DEF TypeOK
  <2>5. CASE ~Ready(l, builder.size) /\ builder' = [builder EXCEPT !.len = l]
             /\ UNCHANGED <<mode, first, lastId, handled, replies>>
    <3>1. builder' \in Builder /\ builder'.size = builder.size /\ builder'.len = l
      BY <2>2, <2>3, <2>5 DEF Builder
    <3>2. l < builder.size
      BY <2>2, <2>3, <2>5 DEF Ready
    <3> QED BY <2>1, <2>2, <2>5, <3>1, <3>2, SegmentTyped DEF TypeOK
  <2> QED BY <1>5, <2>4, <2>5 DEF Extend
<1>6. CASE Ignore(n)
  BY <1>6, SegmentTyped DEF Ignore, TypeOK, handler
<1> QED BY <1>1, <1>2, <1>3, <1>4, <1>5, <1>6

LEMMA StepTyped == TypeOK /\ [Next]_vars => TypeOK'
<1>1. TypeOK /\ UNCHANGED vars => TypeOK'
  BY DEF TypeOK, vars, handler
<1> QED BY <1>1, SendTyped, ReadTyped DEF Next

-----------------------------------------------------------------------------
(* The frames in the stream.                                                *)

LEMMA SendLays ==
    ASSUME TypeOK, Laid, Send
    PROVE  /\ Laid'
           /\ Len(sent') = Len(sent) + 1 /\ DOMAIN sent \subseteq DOMAIN sent'
           /\ \A k \in DOMAIN sent : sent'[k] = sent[k]
           /\ \A k \in DOMAIN sent' : k \in DOMAIN sent \/ sent'[k].at = Written
<1>1. PICK f \in plan.frames : sent' = Append(sent, [at |-> Written, size |-> f.size, id |-> f.id])
  BY DEF Send
<1>2. f.size \in Nat
  BY FramesAssumption DEF TypeOK, PlanType, Kind
<1> DEFINE new == Len(sent) + 1
<1>3. /\ Len(sent') = new /\ Len(sent) \in Nat /\ DOMAIN sent = 1..Len(sent)
      /\ DOMAIN sent' = 1..new
      /\ \A k \in DOMAIN sent : sent'[k] = sent[k]
      /\ sent'[new] = [at |-> Written, size |-> f.size, id |-> f.id]
  BY <1>1 DEF TypeOK
<1>4. \A k \in DOMAIN sent' : k \in DOMAIN sent \/ (k = new /\ k \notin DOMAIN sent)
  BY <1>3
<1>5. sent'[new].at = Written /\ sent'[new].size = f.size /\ sent'[new].id = f.id
  BY <1>3
<1>6. Written' = Written + HEADER + f.size
  BY <1>3, <1>5 DEF Written, End
<1>7. (pos <= Written)'
  BY <1>2, <1>6, WrittenTyped DEF Laid, Send, TypeOK, HEADER
<1>8. ASSUME NEW j \in DOMAIN sent PROVE End(j) <= Written
  <2>1. Written = End(Len(sent)) /\ Len(sent) \in DOMAIN sent
    BY <1>3 DEF Written
  <2>2. j = Len(sent) \/ End(j) <= sent[Len(sent)].at
    BY <1>3, <2>1 DEF Laid
  <2> QED BY <2>1, <2>2, SentTyped
<1>9. ASSUME NEW j \in DOMAIN sent', NEW k \in DOMAIN sent', j < k
      PROVE  sent'[j].at + HEADER + sent'[j].size <= sent'[k].at
  <2>1. j \in DOMAIN sent /\ sent'[j] = sent[j]
    BY <1>3, <1>9
  <2> QED BY <1>4, <1>3, <1>5, <1>8, <1>9, <2>1 DEF Laid, End
<1>10. \A k \in DOMAIN sent' : \E g \in plan.frames : sent'[k].size = g.size /\ sent'[k].id = g.id
  BY <1>3, <1>4, <1>5 DEF Laid
<1>11. plan' = plan
  BY DEF Send
<1> QED BY <1>3, <1>4, <1>5, <1>7, <1>9, <1>10, <1>11 DEF Laid, End

LEMMA ReadLays ==
    ASSUME TypeOK, Laid, NEW n \in 1..BUFFER, Segment(n) PROVE Laid'
BY SegmentTyped DEF Laid, Segment, Written, End

(* Two frames do not overlap.                                               *)
LEMMA OneFrame ==
    ASSUME TypeOK, Laid, NEW j \in DOMAIN sent, NEW k \in DOMAIN sent, NEW p \in Nat,
           sent[j].at <= p, p < End(j), sent[k].at <= p, p < End(k)
    PROVE  j = k
<1>1. CASE j < k
  BY <1>1, SentTyped DEF Laid
<1>2. CASE k < j
  BY <1>2, SentTyped DEF Laid
<1> QED BY <1>1, <1>2, SentTyped

LEMMA NotEmpty ==
    ASSUME TypeOK, NEW k \in DOMAIN sent PROVE sent[k].at < End(k) /\ sent[k].at + 4 <= End(k)
BY SentTyped

(* At the end of a frame the reader is in none.                             *)
LEMMA EndIsOutside ==
    ASSUME TypeOK, Laid, NEW k \in DOMAIN sent, NEW j \in DOMAIN sent
    PROVE  End(j) <= End(k) \/ End(k) <= sent[j].at
<1>1. CASE j < k
  BY SMTT(30), <1>1, SentTyped DEF Laid
<1>2. CASE k < j
  BY <1>2, SentTyped DEF Laid
<1> QED BY <1>1, <1>2, SentTyped

(* The frames that end within a polite segment: the one it belongs to, when
   it is read to its end.                                                   *)
LEMMA EndsWithin ==
    ASSUME TypeOK, Laid, NEW k \in DOMAIN sent, NEW j \in DOMAIN sent, NEW q \in Nat,
           sent[k].at <= pos, pos < q, q <= End(k)
    PROVE  End(j) <= q <=> End(j) <= pos \/ (j = k /\ q = End(k))
<1>1. pos \in Nat
  BY DEF TypeOK
<1>2. CASE j < k
  BY <1>1, <1>2, SentTyped DEF Laid
<1>3. CASE k < j
  <2>1. End(k) <= sent[j].at /\ sent[j].at < End(j)
    BY <1>3, NotEmpty DEF Laid
  <2> QED BY <1>1, <1>3, <2>1, SentTyped
<1>4. CASE j = k
  BY <1>1, <1>4, SentTyped
<1> QED BY <1>2, <1>3, <1>4, SentTyped

-----------------------------------------------------------------------------
(* What one polite segment does.                                            *)

(* Its first segment starts at the frame, and has its header.               *)
LEMMA FirstSegment ==
    ASSUME TypeOK, Laid, InStep, Polite, NEW n, NEW k \in DOMAIN sent,
           Within(k, n), n \in Nat, n >= 1, first
    PROVE  /\ sent[k].at = pos /\ n >= HEADER
           /\ n = HEADER + sent[k].size \/ n <= sent[k].size
           /\ HeaderAt(pos) = {sent[k].size}
<1>1. sent[k].at <= pos /\ pos + n <= End(k) /\ pos \in Nat /\ pos < End(k)
  BY SentTyped DEF Within, TypeOK
<1>2. ~Inside(k)
  BY DEF InStep
<1>3. sent[k].at = pos
  BY <1>1, <1>2, SentTyped DEF Inside
<1>4. \A j \in DOMAIN sent : sent[j].at = pos => j = k
  BY <1>1, NotEmpty, OneFrame
<1>5. HeaderAt(pos) = {sent[k].size}
  BY <1>3, <1>4 DEF HeaderAt
<1>6. n >= HEADER /\ (pos + n = End(k) \/ pos + n + HEADER <= End(k))
  BY <1>3 DEF Within
<1> QED BY SMTT(30), <1>1, <1>3, <1>5, <1>6, SentTyped DEF HEADER

LEMMA HandlesFrame ==
    ASSUME TypeOK, Laid, NEW k \in DOMAIN sent, sent[k].size # 0, Handle(Content(k))
    PROVE  /\ first' /\ builder' = None /\ mode' = mode
           /\ handled' = Append(handled, Content(k)) /\ Reply(NewId(k), sent[k].id # BadId)
<1>1. \A j \in DOMAIN sent : IsFrame(j, Content(k)) => j = k
  <2> SUFFICES ASSUME NEW j \in DOMAIN sent, IsFrame(j, Content(k)) PROVE j = k
    OBVIOUS
  <2>1. sent[j].at + HEADER = sent[k].at + HEADER
    BY DEF IsFrame, Content
  <2>2. sent[j].at = sent[k].at
    BY SMTT(30), <2>1, SentTyped DEF HEADER
  <2> QED BY SMTT(30), <2>2, NotEmpty, OneFrame, SentTyped
<1>2. IsFrame(k, Content(k))
  BY DEF IsFrame
<1>3. Reply(NewId(k), sent[k].id # BadId)
  BY <1>1, <1>2 DEF Handle
<1> QED BY <1>3 DEF Handle

LEMMA PoliteFirst ==
    ASSUME TypeOK, Laid, InStep, Polite, NEW n \in 1..BUFFER, first,
           Deafen(n) \/ SlicePanics(n) \/ RefuseSize(n) \/ Begin(n)
    PROVE  \E k \in DOMAIN sent : GoesOn(k) \/ Finishes(k)
<1>1. Segment(n) /\ n \in Nat /\ n >= 1
  <2>1. Segment(n)
    BY DEF Deafen, SlicePanics, RefuseSize, Begin
  <2> QED BY <2>1, SegmentTyped
<1>2. PICK k \in DOMAIN sent : Within(k, n) /\ sent[k].size <= MAX_SIZE
  <2>1. PICK k \in DOMAIN sent : Within(k, n)
    BY <1>1 DEF Segment, Polite
  <2> QED BY <2>1 DEF Laid, Polite
<1> DEFINE s == sent[k].size
<1>3. /\ sent[k].at = pos /\ n >= HEADER /\ HeaderAt(pos) = {s}
      /\ n = HEADER + s \/ n <= s
  BY <1>1, <1>2, FirstSegment
<1>4. s \in Nat /\ pos \in Nat /\ End(k) = pos + 4 + s /\ pos' = pos + n /\ sent' = sent /\ plan' = plan
  BY <1>1, <1>3, SentTyped, SegmentTyped DEF TypeOK
<1> HIDE DEF s
<1>5. Sliceable(s, n)
  BY <1>1, <1>3, <1>4 DEF Sliceable, HEADER
<1>6. ~Deafen(n) /\ ~SlicePanics(n)
  BY <1>1, <1>3, <1>5 DEF Deafen, SlicePanics, HEADER
<1>7. CASE RefuseSize(n)
  <2>1. s \notin 1..MAX_SIZE /\ Reply(lastId, FALSE) /\ UNCHANGED <<mode, first, builder, handled>>
    BY <1>3, <1>7 DEF RefuseSize, handler
  <2>2. s = 0
    BY <1>2, <1>4, <2>1, FramesAssumption DEF s
  <2>3. pos' = End(k)
    BY <1>1, <1>3, <1>4, <2>2 DEF HEADER
  <2>4. builder = None
    BY DEF InStep
  <2>5. sent[k].at <= pos /\ pos < pos'
    BY <1>1, <1>3, <1>4
  <2>6. Steady /\ first' /\ builder' = None /\ handled' = handled /\ sent[k].size = 0
    BY <1>4, <2>1, <2>2, <2>4, <1>1 DEF Segment, RefuseSize, Steady, s
  <2> QED BY <2>1, <2>3, <2>5, <2>6, Zenon DEF Finishes
<1>8. CASE Begin(n)
  <2> DEFINE c == [from |-> pos + HEADER, len |-> Collected(s, n)]
  <2>1. /\ s \in 1..MAX_SIZE
        /\ \/ Ready(c.len, s) /\ Handle(c)
           \/ /\ ~Ready(c.len, s)
              /\ builder' = [size |-> s, from |-> c.from, len |-> c.len]
              /\ first' = FALSE
              /\ UNCHANGED <<mode, lastId, handled, replies>>
    BY <1>3, <1>8 DEF Begin
  <2>2. s # 0
    BY <2>1
  <2>3. CASE n = HEADER + s
    <3>1. Collected(s, n) = s
      BY <1>1, <1>4, <2>3 DEF Collected, HEADER
    <3>2. c = Content(k) /\ Handle(c)
      BY <1>3, <1>4, <2>1, <3>1 DEF Content, Ready, s
    <3>3. pos' = End(k)
      BY <1>4, <2>3 DEF HEADER
    <3>4. sent[k].size # 0 /\ Handle(Content(k))
      BY <2>2, <3>2 DEF s
    <3>5. sent[k].at <= pos /\ pos < pos'
      BY <1>1, <1>3, <1>4
    <3> QED BY <1>4, <3>3, <3>4, <3>5, HandlesFrame, Zenon DEF Finishes, Steady
  <2>4. CASE n # HEADER + s
    <3>1. n <= s
      BY <1>3, <2>4
    <3>2. Collected(s, n) = n - HEADER /\ ~Ready(c.len, s)
      BY <1>1, <1>4, <3>1 DEF Collected, Ready, HEADER
    <3>3. builder' = [size |-> s, from |-> pos + HEADER, len |-> n - HEADER]
          /\ first' = FALSE /\ UNCHANGED <<mode, lastId, handled, replies>>
      BY <2>1, <3>2
    <3>4. pos' < End(k) /\ pos' - (pos + HEADER) = n - HEADER
      BY <1>1, <1>4, <3>1 DEF HEADER
    <3>5. builder' = Part(k, pos')
      BY <1>3, <3>3, <3>4 DEF Part, s
    <3> QED BY <1>1, <1>3, <1>4, <3>3, <3>4, <3>5 DEF GoesOn, Steady, HEADER
  <2> QED BY <2>3, <2>4
<1> QED BY <1>6, <1>7, <1>8

LEMMA PoliteLater ==
    ASSUME TypeOK, Laid, InStep, Polite, NEW n \in 1..BUFFER, ~first, Extend(n) \/ Ignore(n)
    PROVE  \E k \in DOMAIN sent : GoesOn(k) \/ Finishes(k)
<1>1. Segment(n) /\ n \in Nat /\ n >= 1
  <2>1. Segment(n)
    BY DEF Extend, Ignore
  <2> QED BY <2>1, SegmentTyped
<1>2. PICK k \in DOMAIN sent : Inside(k) /\ sent[k].at + HEADER <= pos /\ builder = Part(k, pos)
  BY DEF InStep
<1>3. PICK j \in DOMAIN sent : Within(j, n)
  BY <1>1 DEF Segment, Polite
<1>4. j = k
  <2>1. pos \in Nat /\ sent[j].at <= pos /\ pos + n <= End(j) /\ sent[k].at < pos /\ pos < End(k)
    BY <1>2, <1>3 DEF Within, Inside, TypeOK
  <2>2. sent[k].at <= pos /\ pos < End(j)
    BY <1>1, <2>1, SentTyped
  <2> QED BY <2>1, <2>2, OneFrame
<1> DEFINE s == sent[k].size
           a == sent[k].at
<1>5. /\ s \in Nat /\ a \in Nat /\ pos \in Nat /\ End(k) = a + 4 + s
      /\ pos' = pos + n /\ sent' = sent /\ plan' = plan
  BY <1>1, SentTyped, SegmentTyped DEF TypeOK
<1>6. a < pos /\ pos < End(k) /\ pos + n <= End(k)
  BY <1>2, <1>3, <1>4 DEF Inside, Within
<1> DEFINE l == (pos - (a + HEADER)) + n
           c == [from |-> a + HEADER, len |-> l]
<1>7. builder = [size |-> s, from |-> a + HEADER, len |-> pos - (a + HEADER)] /\ builder # None
  <2>1. pos - (a + HEADER) \in Nat /\ a + HEADER \in Nat
    BY <1>2, <1>5 DEF HEADER
  <2>2. Part(k, pos) \in Builder
    BY <1>5, <2>1 DEF Part, Builder
  <2> QED BY <1>2, <2>2, FramesAssumption DEF Part
<1>8. \/ Ready(l, s) /\ Handle(c)
      \/ ~Ready(l, s) /\ builder' = [builder EXCEPT !.len = l]
         /\ UNCHANGED <<mode, first, lastId, handled, replies>>
  BY <1>7 DEF Extend, Ignore
<1> HIDE DEF s, a
<1>9. l = pos' - (a + HEADER) /\ (Ready(l, s) <=> pos' = End(k)) /\ (pos' = End(k) => l = s)
  BY <1>1, <1>5, <1>6 DEF Ready, HEADER
<1>10. CASE pos' = End(k)
  <2>1. Handle(c) /\ c = Content(k)
    BY <1>8, <1>9, <1>10 DEF Content, a, s
  <2>2. s # 0
    BY <1>7 DEF TypeOK
  <2>3. sent[k].size # 0 /\ Handle(Content(k))
    BY <2>1, <2>2 DEF s
  <2>4. sent[k].at <= pos /\ pos < pos'
    BY <1>1, <1>5, <1>6 DEF a
  <2> QED BY <1>5, <1>10, <2>3, <2>4, HandlesFrame, Zenon DEF Finishes, Steady
<1>11. CASE pos' # End(k)
  <2>1. builder' = [size |-> s, from |-> a + HEADER, len |-> l]
        /\ UNCHANGED <<mode, first, lastId, handled, replies>>
    BY <1>7, <1>8, <1>9, <1>11
  <2>2. builder' = Part(k, pos')
    BY <2>1, <1>9 DEF Part, a, s
  <2>3. sent[k].at <= pos /\ pos < pos' /\ sent[k].at + HEADER <= pos' /\ pos' < End(k)
    BY <1>1, <1>2, <1>5, <1>6, <1>11 DEF a, HEADER
  <2> QED BY <1>5, <2>1, <2>2, <2>3 DEF GoesOn, Steady
<1> QED BY <1>10, <1>11

LEMMA PoliteRead ==
    ASSUME TypeOK, Laid, InStep, Polite, NEW n \in 1..BUFFER,
           Deafen(n) \/ SlicePanics(n) \/ RefuseSize(n) \/ Begin(n) \/ Extend(n) \/ Ignore(n)
    PROVE  \E k \in DOMAIN sent : GoesOn(k) \/ Finishes(k)
<1>1. CASE first
  BY <1>1, PoliteFirst DEF Extend, Ignore
<1>2. CASE ~first
  BY <1>2, PoliteLater DEF Deafen, SlicePanics, RefuseSize, Begin
<1> QED BY <1>1, <1>2

LEMMA PlanStays == [Next]_vars => plan' = plan /\ (Polite' <=> Polite)
<1> SUFFICES ASSUME [Next]_vars PROVE plan' = plan
  BY DEF Polite
<1>1. ASSUME NEW n, Segment(n) PROVE plan' = plan
  BY <1>1 DEF Segment
<1> QED BY <1>1 DEF Next, vars, Send, Deafen, SlicePanics, RefuseSize, Begin, Extend, Ignore

(* The three ways a step of a polite run can go.                            *)
LEMMA PoliteStep ==
    ASSUME TypeOK, Laid, InStep, Polite, [Next]_vars
    PROVE  Send \/ (\E k \in DOMAIN sent : GoesOn(k) \/ Finishes(k)) \/ UNCHANGED vars
BY PoliteRead DEF Next

(* A frame that is sent is still to be read.                                *)
LEMMA SentIsAhead ==
    ASSUME TypeOK, Laid, Send, NEW k \in DOMAIN sent'
    PROVE  \/ k \in DOMAIN sent /\ sent'[k] = sent[k] /\ End(k)' = End(k)
           \/ k \notin DOMAIN sent /\ pos <= sent'[k].at /\ pos < End(k)'
<1>1. CASE k \in DOMAIN sent
  BY <1>1, SendLays DEF End
<1>2. CASE k \notin DOMAIN sent
  <2>1. pos <= sent'[k].at
    BY <1>2, SendLays DEF Laid
  <2>2. TypeOK'
    BY SendTyped
  <2>3. sent'[k].at \in Nat /\ sent'[k].size \in Nat /\ End(k)' = sent'[k].at + 4 + sent'[k].size
    <3>1. sent' \in Seq(Frame)
      BY <2>2 DEF TypeOK
    <3> QED BY <3>1, FrameParts DEF End, HEADER
  <2> QED BY <1>2, <2>1, <2>3 DEF TypeOK
<1> QED BY <1>1, <1>2

(* The frames read after a step: those before it, and the one it finishes.  *)
LEMMA NewlyRead ==
    ASSUME TypeOK, TypeOK', Laid, NEW k \in DOMAIN sent, GoesOn(k) \/ Finishes(k), NEW j \in DOMAIN sent
    PROVE  (End(j) <= pos')  <=>  End(j) <= pos \/ (j = k /\ pos' = End(k))
<1>1. sent[k].at <= pos /\ pos < pos' /\ pos' <= End(k) /\ pos' \in Nat
  <2>1. sent[k].at <= pos /\ pos < pos' /\ (pos' < End(k) \/ pos' = End(k))
    BY Zenon DEF GoesOn, Finishes
  <2>2. pos' \in Nat
    BY DEF TypeOK
  <2> QED BY <2>1, <2>2, SentTyped
<1> QED BY <1>1, EndsWithin

LEMMA StepLaid == TypeOK /\ Laid /\ [Next]_vars => Laid'
<1> SUFFICES ASSUME TypeOK, Laid, [Next]_vars PROVE Laid'
  OBVIOUS
<1>1. CASE UNCHANGED vars
  BY <1>1 DEF Laid, vars, Written, End
<1>2. CASE Send
  BY <1>2, SendLays
<1>3. ASSUME NEW n \in 1..BUFFER,
             Deafen(n) \/ SlicePanics(n) \/ RefuseSize(n) \/ Begin(n) \/ Extend(n) \/ Ignore(n)
      PROVE  Laid'
  BY <1>3, ReadLays DEF Deafen, SlicePanics, RefuseSize, Begin, Extend, Ignore
<1> QED BY <1>1, <1>2, <1>3 DEF Next

LEMMA StepInStep == TypeOK /\ TypeOK' /\ Laid /\ InStep /\ [Next]_vars => InStep'
<1> SUFFICES ASSUME TypeOK, TypeOK', Laid, InStep, [Next]_vars, Polite PROVE InStep'
  BY PlanStays DEF InStep
<1>1. CASE UNCHANGED vars
  BY <1>1 DEF vars, handler, InStep, Polite, Inside, Part, End
<1>2. CASE Send
  <2>1. mode' = mode /\ first' = first /\ builder' = builder /\ pos' = pos
    BY <1>2 DEF Send, handler
  <2>2. CASE first
    <3>1. mode = "up" /\ builder = None /\ \A k \in DOMAIN sent : ~Inside(k)
      BY <2>2 DEF InStep
    <3>2. ASSUME NEW k \in DOMAIN sent' PROVE ~Inside(k)'
      <4>1. pos <= sent'[k].at => ~(sent'[k].at < pos)
        <5>1. sent' \in Seq(Frame) /\ pos \in Nat
          BY DEF TypeOK
        <5> QED BY <5>1, FrameParts
      <4> QED BY <1>2, <2>1, <3>1, <4>1, SentIsAhead DEF Inside
    <3> QED BY <2>1, <2>2, <3>1, <3>2 DEF InStep
  <2>3. CASE ~first
    <3>1. PICK k \in DOMAIN sent : Inside(k) /\ sent[k].at + HEADER <= pos /\ builder = Part(k, pos)
      BY <2>3 DEF InStep
    <3>2. k \in DOMAIN sent' /\ sent'[k] = sent[k]
      BY <1>2, SendLays
    <3>3. (Inside(k) /\ sent[k].at + HEADER <= pos /\ builder = Part(k, pos))'
      BY <2>1, <3>1, <3>2 DEF Inside, Part, End
    <3> QED BY <2>1, <2>3, <3>2, <3>3 DEF InStep
  <2> QED BY <2>2, <2>3
<1>3. ASSUME NEW k \in DOMAIN sent, GoesOn(k) PROVE InStep'
  <2>1. mode' = "up" /\ sent' = sent /\ ~first' /\ builder' = Part(k, pos')
        /\ sent[k].at <= pos /\ pos < pos' /\ sent[k].at + HEADER <= pos' /\ pos' < End(k)
    BY <1>3 DEF GoesOn, Steady, InStep
  <2>2. sent[k].at < pos'
    BY <2>1, SentTyped DEF HEADER, TypeOK
  <2>3. (Inside(k) /\ sent[k].at + HEADER <= pos /\ builder = Part(k, pos))'
    BY <2>1, <2>2 DEF Inside, Part, End
  <2> QED BY <2>1, <2>3 DEF InStep
<1>4. ASSUME NEW k \in DOMAIN sent, Finishes(k) PROVE InStep'
  <2>1. mode' = "up" /\ sent' = sent /\ first' /\ builder' = None /\ pos' = End(k)
    BY <1>4 DEF Finishes, Steady, InStep
  <2>2. ASSUME NEW j \in DOMAIN sent PROVE ~Inside(j)'
    <3>1. End(j)' = End(j)
      BY <2>1 DEF End
    <3> QED BY <2>1, <3>1, EndIsOutside, SentTyped DEF Inside
  <2> QED BY <2>1, <2>2 DEF InStep
<1> QED BY <1>1, <1>2, <1>3, <1>4, PoliteStep

-----------------------------------------------------------------------------
(* What is handled.                                                         *)

HInv ==
    Polite =>
        /\ \A k \in DOMAIN sent : sent[k].size > 0 /\ End(k) <= pos =>
               \E j \in DOMAIN handled : handled[j] = Content(k)
        /\ \A j \in DOMAIN handled : \E k \in DOMAIN sent : handled[j] = Content(k) /\ End(k) <= pos

LEMMA Appended ==
    ASSUME NEW S, NEW s \in Seq(S), NEW x \in S, NEW t, t = Append(s, x)
    PROVE  /\ Len(t) = Len(s) + 1 /\ DOMAIN t = 1..(Len(s) + 1) /\ DOMAIN s = 1..Len(s) /\ Len(s) \in Nat
           /\ DOMAIN s \subseteq DOMAIN t /\ Len(s) + 1 \in DOMAIN t
           /\ \A i \in DOMAIN s : t[i] = s[i]
           /\ t[Len(s) + 1] = x
           /\ \A i \in DOMAIN t : i \in DOMAIN s \/ i = Len(s) + 1
OBVIOUS

LEMMA StepHInv ==
    TypeOK /\ TypeOK' /\ Laid /\ InStep /\ HInv /\ [Next]_vars => HInv'
<1> SUFFICES ASSUME TypeOK, TypeOK', Laid, InStep, HInv, [Next]_vars, Polite PROVE HInv'
  BY PlanStays DEF HInv
<1>1. CASE UNCHANGED vars
  BY <1>1 DEF vars, HInv, Polite, Content, End
<1>2. CASE Send
  <2>1. handled' = handled /\ pos' = pos
    BY <1>2 DEF Send
  <2>2. ASSUME NEW k \in DOMAIN sent', sent'[k].size > 0, (End(k) <= pos)'
        PROVE  \E j \in DOMAIN handled : handled[j] = Content(k)'
    <3>1. k \in DOMAIN sent /\ sent'[k] = sent[k] /\ End(k)' = End(k)
      <4>1. End(k)' \in Nat /\ pos \in Nat
        <5>1. sent' \in Seq(Frame) /\ pos \in Nat
          BY DEF TypeOK
        <5> QED BY <5>1, FrameParts DEF End, HEADER
      <4> QED BY <1>2, <2>1, <2>2, <4>1, SentIsAhead
    <3> QED BY <2>1, <2>2, <3>1 DEF HInv, Content
  <2>3. ASSUME NEW j \in DOMAIN handled
        PROVE  \E k \in DOMAIN sent' : handled[j] = Content(k)' /\ (End(k) <= pos)'
    <3>1. PICK k \in DOMAIN sent : handled[j] = Content(k) /\ End(k) <= pos
      BY DEF HInv
    <3>2. k \in DOMAIN sent' /\ sent'[k] = sent[k]
      BY <1>2, SendLays
    <3> QED BY <2>1, <3>1, <3>2 DEF Content, End
  <2> QED BY <2>1, <2>2, <2>3 DEF HInv
<1>3. ASSUME NEW k \in DOMAIN sent, GoesOn(k) PROVE HInv'
  <2>1. sent' = sent /\ handled' = handled /\ pos' < End(k)
    BY <1>3 DEF GoesOn, Steady
  <2>2. \A j \in DOMAIN sent : End(j) <= pos' <=> End(j) <= pos
    <3> TAKE j \in DOMAIN sent
    <3>1. pos' # End(k)
      BY <2>1, SentTyped DEF TypeOK
    <3> QED BY <1>3, <3>1, NewlyRead
  <2> QED BY <2>1, <2>2 DEF HInv, Content, End
<1>4. ASSUME NEW k \in DOMAIN sent, Finishes(k) PROVE HInv'
  <2>1. sent' = sent /\ pos' = End(k)
    BY <1>4 DEF Finishes, Steady
  <2>2. \A j \in DOMAIN sent : End(j) <= pos' <=> End(j) <= pos \/ j = k
    BY <1>4, <2>1, NewlyRead
  <2>3. \A j \in DOMAIN handled : \E i \in DOMAIN sent : handled[j] = Content(i) /\ End(i) <= pos'
    BY <2>2 DEF HInv
  <2>4. CASE sent[k].size = 0 /\ handled' = handled
    <3>1. ~(sent[k].size > 0)
      BY <2>4
    <3> QED BY <2>1, <2>2, <2>3, <2>4, <3>1 DEF HInv, Content, End
  <2>5. CASE sent[k].size # 0 /\ handled' = Append(handled, Content(k))
    <3>1. Content(k) \in [from: Nat, len: Nat]
      BY SentTyped DEF Content, HEADER
    <3> DEFINE new == Len(handled) + 1
    <3>2. /\ DOMAIN handled \subseteq DOMAIN handled' /\ new \in DOMAIN handled'
          /\ \A i \in DOMAIN handled : handled'[i] = handled[i]
          /\ handled'[new] = Content(k)
          /\ \A i \in DOMAIN handled' : i \in DOMAIN handled \/ i = new
      <4> DEFINE Spans == [from: Nat, len: Nat]
      <4>1. handled \in Seq(Spans)
        BY DEF TypeOK
      <4>2. Content(k) \in Spans /\ handled' = Append(handled, Content(k))
        BY <2>5, <3>1
      <4> HIDE DEF Spans
      <4> QED BY ONLY <4>1, <4>2, Appended
    <3> HIDE DEF new
    <3>3. ASSUME NEW j \in DOMAIN sent, sent[j].size > 0, End(j) <= pos'
          PROVE  \E i \in DOMAIN handled' : handled'[i] = Content(j)
      BY <2>2, <3>2, <3>3 DEF HInv
    <3>4. ASSUME NEW i \in DOMAIN handled'
          PROVE  \E j \in DOMAIN sent : handled'[i] = Content(j) /\ End(j) <= pos'
      BY <2>2, <2>3, <3>2
    <3> QED BY <2>1, <3>3, <3>4 DEF HInv, Content, End
  <2> QED BY <1>4, <2>4, <2>5 DEF Finishes
<1> QED BY <1>1, <1>2, <1>3, <1>4, PoliteStep

-----------------------------------------------------------------------------
(* What is answered.                                                        *)

Identified == \A f \in plan.frames : f.id \in ReqIds

(* The answer to a frame.                                                   *)
Answers(r, f) ==
    /\ r.ok <=> f.size > 0 /\ f.id # BadId
    /\ Identified => r.id = f.id

AInv ==
    Polite =>
        /\ \A k \in DOMAIN sent : k \in DOMAIN replies <=> End(k) <= pos
        /\ \A k \in DOMAIN replies : k \in DOMAIN sent /\ Answers(replies[k], sent[k])

(* The frame in which the reader is, is the next to be answered.            *)
LEMMA NextAnswer ==
    ASSUME TypeOK, Laid, AInv, Polite, NEW k \in DOMAIN sent, sent[k].at <= pos, pos < End(k)
    PROVE  k = Len(replies) + 1
<1> DEFINE L == Len(replies)
<1>1. L \in Nat /\ DOMAIN replies = 1..L /\ DOMAIN sent = 1..Len(sent) /\ Len(sent) \in Nat
      /\ pos \in Nat
  BY DEF TypeOK
<1>2. k \notin DOMAIN replies
  BY <1>1, SentTyped DEF AInv
<1>3. CASE L + 1 < k
  <2>1. L + 1 \in DOMAIN sent /\ L + 1 \notin DOMAIN replies
    BY <1>1, <1>3
  <2>2. End(L + 1) <= sent[k].at
    BY <1>3, <2>1 DEF Laid
  <2>3. End(L + 1) <= pos
    BY <1>1, <2>1, <2>2, SentTyped
  <2> QED BY <2>1, <2>3 DEF AInv
<1> QED BY <1>1, <1>2, <1>3

LEMMA FinishAnswers ==
    ASSUME TypeOK, Laid, NEW k \in DOMAIN sent, Finishes(k)
    PROVE  \E r \in [id: Ids, ok: BOOLEAN] : replies' = Append(replies, r) /\ Answers(r, sent[k])
<1>1. PICK f \in plan.frames : sent[k].size = f.size /\ sent[k].id = f.id
  BY DEF Laid
<1>2. f \in Kind
  BY FramesAssumption DEF TypeOK, PlanType
<1>3. CASE sent[k].size = 0 /\ Reply(lastId, FALSE)
  <2> DEFINE r == [id |-> lastId, ok |-> FALSE]
  <2>1. ~Identified
    BY <1>1, <1>2, <1>3, FramesAssumption DEF Identified, Kind
  <2>2. r.ok = FALSE /\ ~(sent[k].size > 0)
    BY <1>3
  <2>3. r \in [id: Ids, ok: BOOLEAN] /\ replies' = Append(replies, r)
    BY <1>3 DEF Reply, TypeOK
  <2> QED BY <2>1, <2>2, <2>3, Zenon DEF Answers
<1>4. CASE sent[k].size # 0 /\ Reply(NewId(k), sent[k].id # BadId)
  <2> DEFINE r == [id |-> NewId(k), ok |-> sent[k].id # BadId]
  <2>1. sent[k].size > 0
    BY <1>4, SentTyped
  <2>2. (sent[k].id # BadId) \in BOOLEAN
    OBVIOUS
  <2>3. r \in [id: Ids, ok: BOOLEAN] /\ replies' = Append(replies, r)
    BY <1>4, <2>2, SentTyped DEF Reply
  <2>4. r.ok = (sent[k].id # BadId) /\ r.id = NewId(k)
    OBVIOUS
  <2>5. Identified => NewId(k) = sent[k].id
    BY <1>1 DEF Identified, NewId
  <2> HIDE DEF r
  <2> QED BY <2>1, <2>3, <2>4, <2>5, Zenon DEF Answers
<1> QED BY <1>3, <1>4 DEF Finishes

LEMMA StepAInv ==
    TypeOK /\ TypeOK' /\ Laid /\ InStep /\ AInv /\ [Next]_vars => AInv'
<1> SUFFICES ASSUME TypeOK, TypeOK', Laid, InStep, AInv, [Next]_vars, Polite PROVE AInv'
  BY PlanStays DEF AInv
<1>1. CASE UNCHANGED vars
  BY <1>1 DEF vars, AInv, Polite, End, Answers, Identified
<1>2. CASE Send
  <2>1. replies' = replies /\ pos' = pos /\ plan' = plan
    BY <1>2 DEF Send
  <2>2. ASSUME NEW k \in DOMAIN sent' PROVE k \in DOMAIN replies <=> End(k)' <= pos
    <3>1. End(k)' \in Nat /\ pos \in Nat
      <4>1. sent' \in Seq(Frame) /\ pos \in Nat
        BY DEF TypeOK
      <4> QED BY <4>1, FrameParts DEF End, HEADER
    <3> QED BY <1>2, <3>1, SentIsAhead DEF AInv
  <2>3. ASSUME NEW k \in DOMAIN replies PROVE k \in DOMAIN sent' /\ Answers(replies[k], sent[k])'
    <3>1. k \in DOMAIN sent' /\ sent'[k] = sent[k]
      BY <1>2, SendLays DEF AInv
    <3> QED BY <2>1, <3>1 DEF AInv, Answers, Identified
  <2> QED BY <2>1, <2>2, <2>3 DEF AInv
<1>3. ASSUME NEW k \in DOMAIN sent, GoesOn(k) PROVE AInv'
  <2>1. sent' = sent /\ replies' = replies /\ plan' = plan /\ pos' < End(k)
    BY <1>3 DEF GoesOn, Steady
  <2>2. \A j \in DOMAIN sent : End(j) <= pos' <=> End(j) <= pos
    <3> TAKE j \in DOMAIN sent
    <3>1. pos' # End(k)
      BY <2>1, SentTyped DEF TypeOK
    <3> QED BY <1>3, <3>1, NewlyRead
  <2> QED BY <2>1, <2>2 DEF AInv, End, Answers, Identified
<1>4. ASSUME NEW k \in DOMAIN sent, Finishes(k) PROVE AInv'
  <2>1. sent' = sent /\ plan' = plan /\ pos' = End(k) /\ sent[k].at <= pos /\ pos < pos'
    BY <1>4 DEF Finishes, Steady
  <2>2. \A j \in DOMAIN sent : End(j) <= pos' <=> End(j) <= pos \/ j = k
    BY <1>4, <2>1, NewlyRead
  <2>3. k = Len(replies) + 1
    BY <2>1, NextAnswer
  <2>4. PICK r \in [id: Ids, ok: BOOLEAN] : replies' = Append(replies, r) /\ Answers(r, sent[k])
    BY <1>4, FinishAnswers
  <2>5. /\ k \in DOMAIN replies' /\ replies'[k] = r
        /\ \A i \in DOMAIN replies : i \in DOMAIN replies' /\ replies'[i] = replies[i]
        /\ \A i \in DOMAIN replies' : i \in DOMAIN replies \/ i = k
    BY <2>3, <2>4, Appended DEF TypeOK
  <2>6. ASSUME NEW j \in DOMAIN sent PROVE j \in DOMAIN replies' <=> End(j) <= pos'
    BY <2>2, <2>5 DEF AInv
  <2>7. ASSUME NEW j \in DOMAIN replies' PROVE j \in DOMAIN sent /\ Answers(replies'[j], sent[j])
    BY <2>4, <2>5 DEF AInv
  <2>8. ASSUME NEW j \in DOMAIN replies', Answers(replies'[j], sent[j]) PROVE Answers(replies[j], sent[j])'
    BY <2>1, <2>8 DEF Answers, Identified
  <2> QED BY <2>1, <2>6, <2>7, <2>8 DEF AInv, End
<1> QED BY <1>1, <1>2, <1>3, <1>4, PoliteStep

-----------------------------------------------------------------------------
(* The frames lie one after the other in the stream, nothing is read that was
   not written, and while the segments are polite the server is up and reads
   each frame from its first byte.                                          *)
THEOREM StaysInStep == Spec => [](TypeOK /\ Laid /\ InStep)
<1>1. Init => TypeOK /\ Laid /\ InStep
  BY InitTyped DEF Init, Laid, Written, InStep
<1>2. TypeOK /\ Laid /\ InStep /\ [Next]_vars => (TypeOK /\ Laid /\ InStep)'
  BY StepTyped, StepLaid, StepInStep
<1> QED BY <1>1, <1>2, PTL DEF Spec

(* With polite segments exactly the frames whose bytes were all read have
   been handled: none is lost, cut, joined to another or made up.           *)
THEOREM PoliteStaysHandled == Spec => []PoliteIsHandled
<1>1. Init => HInv
  BY DEF Init, HInv
<1>2. TypeOK /\ TypeOK' /\ Laid /\ InStep /\ HInv /\ [Next]_vars => HInv'
  BY StepHInv
<1>3. TypeOK /\ InStep /\ HInv => PoliteIsHandled
  BY DEF InStep, HInv, PoliteIsHandled, ReceivedIsHandled
<1> QED BY <1>1, <1>2, <1>3, StaysInStep, PTL DEF Spec

(* Then the k-th answer is that of the k-th request, tells whether it was one,
   and bears its id if every request has one.                               *)
THEOREM AnswersStayMatched == Spec => []AnswersMatch
<1>1. Init => AInv
  BY DEF Init, AInv
<1>2. TypeOK /\ TypeOK' /\ Laid /\ InStep /\ AInv /\ [Next]_vars => AInv'
  BY StepAInv
<1>3. AInv => AnswersMatch
  BY DEF AInv, AnswersMatch, Answers, Identified
<1> QED BY <1>1, <1>2, <1>3, StaysInStep, PTL DEF Spec
=============================================================================
