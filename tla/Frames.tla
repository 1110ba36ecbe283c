-------------------------------- MODULE Frames --------------------------------
(***************************************************************************)
(* The framing of requests and answers on the JSON port: a client writes   *)
(* frames, four bytes of size and then the content; TCP delivers the bytes *)
(* cut anywhere; the handler parses each segment it reads.  A frame may    *)
(* have a request id, and the answers bear the last one the handler saw.   *)
(*                                                                         *)
(* Bytes are positions in the stream of the client.  A header that is read *)
(* where the client wrote none has one of the sizes Strays, and a content  *)
(* that is not one the client wrote is no request.  What a request does is *)
(* in the other modules: here it is answered once, as each method does.    *)
(***************************************************************************)
EXTENDS Integers, Sequences, FiniteSets

CONSTANTS
    Sizes,      \* sizes of the contents clients send
    ReqIds,
    NoId, BadId,  \* of a frame without req_id, and with one that is no i64
    Plans,      \* what the client and the network of one run do
    BUFFER,     \* JSON_MESSAGE_ALLOCATION_SIZE
    MAX_SIZE,   \* MAX_JSON_MSG_SIZE
    Strays,     \* sizes a header seems to have where there is none
    None

HEADER == 4

(* An empty content has no req_id.                                          *)
Kind == {f \in [size: Sizes, id: ReqIds \cup {NoId, BadId}] : f.size = 0 => f.id = NoId}

Builder == [size: Nat, from: Nat, len: Nat]

(* frames: those the client sends, count of them at most; polite: each segment is part of one frame,
   and the first of a frame has its header and leaves out no 1, 2 or 3 bytes. *)
PlanType == [frames: SUBSET Kind, count: Nat, polite: BOOLEAN]

ASSUME FramesAssumption ==
    /\ Sizes \subseteq Nat /\ Strays \subseteq Nat /\ MAX_SIZE \in Nat
    /\ BUFFER \in Nat /\ BUFFER >= HEADER
    /\ Cardinality({None, NoId, BadId}) = 3 /\ {None, NoId, BadId} \cap ReqIds = {}
    /\ None \notin Builder
    /\ Plans \subseteq PlanType

VARIABLES
    mode,     \* "up" or "panicked"
    plan,     \* the plan of this run
    sent,     \* the frames the client wrote, each with the position it starts at
    pos,      \* bytes read
    first,    \* is_message_first
    builder,  \* the announced size, and where the content starts and how much is there
    lastId,   \* last_req_id
    handled,  \* the contents that were handled
    replies   \* the req_id of each answer, and whether it is an error

handler == <<first, builder, lastId>>
vars == <<mode, plan, sent, pos, handler, handled, replies>>

Frame == [at: Nat, size: Sizes, id: ReqIds \cup {NoId, BadId}]
Ids == ReqIds \cup {None}

TypeOK ==
    /\ mode \in {"up", "panicked"}
    /\ plan \in Plans
    /\ sent \in Seq(Frame) /\ Len(sent) <= plan.count
    /\ pos \in Nat
    /\ first \in BOOLEAN
    /\ builder = None \/ (builder \in Builder /\ builder.size \in 1..MAX_SIZE /\ builder.len < builder.size)
    /\ lastId \in Ids
    /\ handled \in Seq([from: Nat, len: Nat])
    /\ replies \in Seq([id: Ids, ok: BOOLEAN])

Init ==
    /\ mode = "up"
    /\ plan \in Plans
    /\ sent = <<>>
    /\ pos = 0
    /\ first = TRUE
    /\ builder = None
    /\ lastId = None
    /\ handled = <<>>
    /\ replies = <<>>

-----------------------------------------------------------------------------
(* The client, and the segments TCP makes of what it wrote.                 *)

End(k) == sent[k].at + HEADER + sent[k].size
Written == IF sent = <<>> THEN 0 ELSE End(Len(sent))
Content(k) == [from |-> sent[k].at + HEADER, len |-> sent[k].size]

Send ==
    /\ mode = "up" /\ Len(sent) < plan.count
    /\ \E f \in plan.frames :
        sent' = Append(sent, [at |-> Written, size |-> f.size, id |-> f.id])
    /\ UNCHANGED <<mode, plan, pos, handler, handled, replies>>

Within(k, n) ==
    /\ sent[k].at <= pos /\ pos + n <= End(k)
    /\ sent[k].at = pos => n >= HEADER /\ (pos + n = End(k) \/ pos + n + HEADER <= End(k))

Segment(n) ==
    /\ mode = "up"
    /\ n \in 1..BUFFER /\ pos + n <= Written
    /\ plan.polite => \E k \in DOMAIN sent : Within(k, n)
    /\ pos' = pos + n
    /\ UNCHANGED <<plan, sent>>

-----------------------------------------------------------------------------
(* try_handle_json_message and send_message.                               *)

Reply(id, ok) == replies' = Append(replies, [id |-> id, ok |-> ok])

IsFrame(k, c) == Content(k) = c

Ready(len, size) == len >= size

NewId_Slip(k) == IF lastId = None /\ sent[k].id \in ReqIds THEN sent[k].id ELSE lastId
NewId(k) == IF sent[k].id \in ReqIds THEN sent[k].id ELSE lastId

Handle(c) ==
    /\ handled' = Append(handled, c)
    /\ \/ /\ ~\E k \in DOMAIN sent : IsFrame(k, c)
          /\ Reply(lastId, FALSE) /\ UNCHANGED lastId
       \/ \E k \in DOMAIN sent :
            /\ IsFrame(k, c)
            /\ lastId' = NewId(k)
            /\ Reply(NewId(k), sent[k].id # BadId)
    /\ first' = TRUE
    /\ builder' = None
    /\ UNCHANGED mode

-----------------------------------------------------------------------------
(* handle_segmented_frame and parse: the first segment of a message.        *)

HeaderAt(p) ==
    IF \E k \in DOMAIN sent : sent[k].at = p
    THEN {sent[k].size : k \in {j \in DOMAIN sent : sent[j].at = p}}
    ELSE Strays

(* The content is sliced out when the segment is longer than its size: not
   all of it may be there.                                                  *)
Sliceable(s, n) == s >= n \/ s + HEADER <= n
Collected_Slip(s, n) == IF s < n THEN s ELSE n
Collected(s, n) == IF s < n THEN s ELSE n - HEADER

(* Too short to parse: no builder, and yet no longer the first.             *)
Deafen(n) ==
    /\ Segment(n)
    /\ first /\ n < HEADER
    /\ first' = FALSE
    /\ UNCHANGED <<mode, builder, lastId, handled, replies>>

SlicePanics(n) ==
    /\ Segment(n)
    /\ first /\ n >= HEADER
    /\ \E s \in HeaderAt(pos) : ~Sliceable(s, n)
    /\ mode' = "panicked"
    /\ UNCHANGED <<handler, handled, replies>>

RefuseSize(n) ==
    /\ Segment(n)
    /\ first /\ n >= HEADER
    /\ \E s \in HeaderAt(pos) : Sliceable(s, n) /\ s \notin 1..MAX_SIZE
    /\ Reply(lastId, FALSE)
    /\ UNCHANGED <<mode, handler, handled>>

(* What follows a complete content in its segment is dropped.               *)
Begin(n) ==
    /\ Segment(n)
    /\ first /\ n >= HEADER
    /\ \E s \in HeaderAt(pos) :
        /\ Sliceable(s, n) /\ s \in 1..MAX_SIZE
        /\ LET c == [from |-> pos + HEADER, len |-> Collected(s, n)] IN
           \/ Ready(c.len, s) /\ Handle(c)
           \/ /\ ~Ready(c.len, s)
              /\ builder' = [size |-> s, from |-> c.from, len |-> c.len]
              /\ first' = FALSE
              /\ UNCHANGED <<mode, lastId, handled, replies>>

(* A later segment is added whole, what is beyond the content too.          *)
Extend(n) ==
    /\ Segment(n)
    /\ ~first /\ builder # None
    /\ LET c == [from |-> builder.from, len |-> builder.len + n] IN
       \/ Ready(c.len, builder.size) /\ Handle(c)
       \/ /\ ~Ready(c.len, builder.size)
          /\ builder' = [builder EXCEPT !.len = c.len]
          /\ UNCHANGED <<mode, first, lastId, handled, replies>>

Ignore(n) ==
    /\ Segment(n)
    /\ ~first /\ builder = None
    /\ UNCHANGED <<mode, handler, handled, replies>>

Next ==
    \/ Send
    \/ \E n \in 1..BUFFER :
        \/ Deafen(n) \/ SlicePanics(n) \/ RefuseSize(n)
        \/ Begin(n) \/ Extend(n) \/ Ignore(n)

Spec == Init /\ [][Next]_vars

-----------------------------------------------------------------------------
(* The contents a client may count on being handled.                        *)
Polite == plan.polite /\ \A f \in plan.frames : f.size <= MAX_SIZE

(* docs/basics.md:59: a request is answered, with an error if need be; no
   segment ends the server.                                                 *)
StaysUp == mode = "up"

(* server.rs:31, "handled after they are completely received": a frame all
   of whose bytes were read has been handled, and the server is up.         *)
ReceivedIsHandled ==
    /\ mode = "up"
    /\ \A k \in DOMAIN sent : sent[k].size > 0 /\ End(k) <= pos =>
           \E j \in DOMAIN handled : handled[j] = Content(k)

(* It is so, and nothing else is handled, when the segments are polite.
   (Typed, too.)                                                             *)
PoliteIsHandled ==
    TypeOK /\ (Polite =>
              /\ ReceivedIsHandled
              /\ \A j \in DOMAIN handled : \E k \in DOMAIN sent : handled[j] = Content(k) /\ End(k) <= pos)

(* The answers then come in the order of the requests, one for each and each
   with the id of its own request, if every request has one: an answer to one
   without an id bears that of an earlier request.                          *)
AnswersMatch ==
    Polite =>
        /\ \A k \in DOMAIN sent : k \in DOMAIN replies <=> End(k) <= pos
        /\ \A k \in DOMAIN replies :
            /\ k \in DOMAIN sent
            /\ replies[k].ok <=> sent[k].size > 0 /\ sent[k].id # BadId
            /\ (\A f \in plan.frames : f.id \in ReqIds) => replies[k].id = sent[k].id

=============================================================================
