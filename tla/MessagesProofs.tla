--------------------------- MODULE MessagesProofs ---------------------------
(***************************************************************************)
(* Proofs about Messages for any handlers, users, texts, requests, plans   *)
(* and bound on ids.                                                       *)
(***************************************************************************)
EXTENDS Messages, SequenceTheorems, TLAPS

USE DEF Ops, Naming, Turns, AS_LAST_MESSAGE_IDX

(* What the handler of a request keeps to while it works on it.             *)
Asked(h) ==
    Working(h) =>
        /\ req[h] \in Requests
        /\ req[h].op \in plan.asks[h]
        /\ req[h].text # None => WriterOf[req[h].text] = UserOf[h]

OpFitsPc(h) ==
    /\ pc[h] \in {"count", "insert"} => req[h].op = "send"
    /\ pc[h] \in {"latest", "window"} => req[h].op \in {"send", "edit", "delete", "fetch"}
    /\ pc[h] = "update" => req[h].op = "edit" /\ old[h] # None
    /\ pc[h] = "mark" => req[h].op = "mark"
    /\ pc[h] = "erase" => req[h].op = "delete"
    /\ pc[h] = "clear" => req[h].op = "clear"

LoopHasWork(h) ==
    /\ pc[h] \in {"mark", "erase"} => todo[h] # <<>>
    /\ pc[h] \in {"latest", "window"} /\ req[h].op = "delete" => todo[h] # <<>> /\ isGroup
    /\ pc[h] = "insert" => slot[h] >= 0

Shape(h) == Asked(h) /\ OpFitsPc(h) /\ LoopHasWork(h)

TInv == TypeOK /\ \A h \in Handlers : Shape(h)

-----------------------------------------------------------------------------

LEMMA RequestFields ==
    ASSUME NEW r \in Requests
    PROVE  /\ r.op \in Ops
           /\ r.text \in Texts \cup {None}
           /\ r.flag \in {"kept", "true", "false"}
           /\ r.ids \in Seq(Ids)
           /\ r.start \in Int /\ r.end \in Int
           /\ r.op \in Naming => r.ids # <<>> /\ Head(r.ids) \in Ids
           /\ r # None
  BY MessagesAssumption DEF RequestType

LEMMA IdsAreIntegers == Ids \subseteq Int /\ -1 \in Ids /\ 0 \in Ids
  BY MessagesAssumption DEF Ids

LEMMA TailOfIds ==
    ASSUME NEW s \in Seq(Ids), s # <<>>
    PROVE  /\ Head(s) \in Ids
           /\ Tail(s) \in Seq(Ids)
           /\ Len(Tail(s)) = Len(s) - 1
           /\ \A k \in 1..Len(s) - 1 : Tail(s)[k] = s[k + 1]
           /\ Tail(s) = <<>> <=> Len(s) = 1
           /\ Head(s) = s[1]
           /\ Len(s) \in Nat \ {0}
  <1>1. Len(s) \in Nat \ {0} /\ Head(s) = s[1] /\ Head(s) \in Ids
    BY EmptySeq
  <1>2. Tail(s) \in Seq(Ids) /\ Len(Tail(s)) = Len(s) - 1
    BY <1>1, HeadTailProperties
  <1>3. \A k \in 1..Len(s) - 1 : Tail(s)[k] = s[k + 1]
    BY <1>1, HeadTailProperties
  <1>4. Tail(s) = <<>> <=> Len(s) = 1
    BY <1>1, <1>2, EmptySeq
  <1> QED BY <1>1, <1>2, <1>3, <1>4

LEMMA RowFields ==
    ASSUME NEW r \in Row
    PROVE  /\ r.from \in {UserOf[h] : h \in Handlers} \cup {None}
           /\ r.text \in Texts \cup {None}
           /\ r.unread \in BOOLEAN
           /\ r = [from |-> r.from, text |-> r.text, unread |-> r.unread]
           /\ r # None
  BY MessagesAssumption DEF Row

LEMMA ExistingIsRow ==
    ASSUME TypeOK, NEW i \in Ids
    PROVE  Existing(i) \in Row
  BY DEF Existing, Blank, TypeOK, Row

(* A request that ends leaves its handler idle and the others as they are.  *)
LEMMA FinishShape ==
    ASSUME TInv, NEW h \in Handlers, NEW a \in Answers, Finish(h, a),
           rows' \in [Ids -> Row \cup {None}]
    PROVE  TInv'
  <1>1. TypeOK'
    BY IdsAreIntegers DEF TInv, TypeOK, Finish, Pcs
  <1>2. ASSUME NEW g \in Handlers PROVE Shape(g)'
    <2>1. CASE g = h
      BY <2>1 DEF TInv, TypeOK, Finish, Shape, Asked, OpFitsPc, LoopHasWork, Working
    <2>2. CASE g # h
      BY <2>2 DEF TInv, TypeOK, Finish, Shape, Asked, OpFitsPc, LoopHasWork, Working
    <2> QED BY <2>1, <2>2
  <1> QED BY <1>1, <1>2 DEF TInv

(* A step of h leaves the requests of the others alone.                     *)
Own(h) ==
    \A g \in Handlers \ {h} :
        /\ pc'[g] = pc[g] /\ req'[g] = req[g] /\ slot'[g] = slot[g]
        /\ start'[g] = start[g] /\ todo'[g] = todo[g] /\ old'[g] = old[g]

LEMMA OthersShape ==
    ASSUME TInv, NEW h \in Handlers, Own(h), UNCHANGED <<isGroup, plan>>
    PROVE  \A g \in Handlers \ {h} : Shape(g)'
  BY DEF TInv, Own, Shape, Asked, OpFitsPc, LoopHasWork, Working

LEMMA WindowIsIds ==
    ASSUME NEW h \in Handlers
    PROVE  /\ Window(h) \subseteq Present
           /\ Window(h) \subseteq Ids
           /\ Fine(Window(h)) \in Answers
           /\ \A i \in Window(h) : Fine({i}) \in Answers
           /\ Refusal \in Answers /\ Silent \in Answers /\ Fine({}) \in Answers
  BY DEF Window, Present, Fine, Refusal, Silent, Answers

LEMMA FirstTyped ==
    ASSUME NEW r \in Requests
    PROVE  FirstRead(r) \in Int /\ FirstPc(r) \in Pcs \ {"idle", "update", "insert"}
  BY RequestFields, IdsAreIntegers DEF FirstRead, FirstPc, FetchPc, Pcs

LEMMA AskShape ==
    ASSUME TInv, NEW h \in Handlers, Ask(h)
    PROVE  TInv'
  <1>1. PICK r \in Requests :
            /\ r.op \in plan.asks[h]
            /\ r.text # None => WriterOf[r.text] = UserOf[h]
            /\ req' = [req EXCEPT ![h] = r]
            /\ pc' = [pc EXCEPT ![h] = FirstPc(r)]
            /\ start' = [start EXCEPT ![h] = FirstRead(r)]
            /\ todo' = [todo EXCEPT ![h] = r.ids]
    BY DEF Ask
  <1>2. TypeOK'
    BY <1>1, FirstTyped, RequestFields, WindowIsIds DEF TInv, TypeOK, Ask
  <1>3. Shape(h)'
    <2>1. req'[h] = r /\ pc'[h] = FirstPc(r) /\ todo'[h] = r.ids /\ plan' = plan /\ isGroup' = isGroup
      BY <1>1 DEF TInv, TypeOK, Ask
    <2>2. Asked(h)'
      BY <1>1, <2>1 DEF Asked
    <2>3. OpFitsPc(h)' /\ LoopHasWork(h)'
      BY <1>1, <2>1, RequestFields DEF OpFitsPc, LoopHasWork, FirstPc, FetchPc
    <2> QED BY <2>2, <2>3 DEF Shape
  <1>4. \A g \in Handlers \ {h} : Shape(g)'
    BY <1>1, OthersShape DEF Ask, Own, TInv, TypeOK
  <1> QED BY <1>2, <1>3, <1>4 DEF TInv

LEMMA CountNext ==
    ASSUME NEW h \in Handlers, Count(h)
    PROVE  \E k \in Ids :
              /\ slot' = [slot EXCEPT ![h] = k]
              /\ k >= 0
              /\ (k = 0 /\ Present = {}) \/ (k - 1 \in Present /\ IsLatest(k - 1))
  <1>1. CASE Present = {} /\ slot' = [slot EXCEPT ![h] = 0]
    <2> DEFINE k == 0
    <2>1. k \in Ids /\ k >= 0 /\ k = 0
      BY IdsAreIntegers
    <2>2. slot' = [slot EXCEPT ![h] = k]
      BY <1>1
    <2> HIDE DEF k
    <2> QED BY <1>1, <2>1, <2>2
  <1>2. CASE \E i \in Ids : IsLatest(i) /\ i < MaxId /\ slot' = [slot EXCEPT ![h] = i + 1]
    <2>1. PICK i \in Ids : IsLatest(i) /\ i < MaxId /\ slot' = [slot EXCEPT ![h] = i + 1]
      BY <1>2
    <2> DEFINE k == i + 1
    <2>2. k \in Ids /\ k >= 0 /\ k - 1 = i
      BY <2>1, MessagesAssumption DEF Ids
    <2>3. k - 1 \in Present /\ IsLatest(k - 1) /\ slot' = [slot EXCEPT ![h] = k]
      BY <2>1, <2>2 DEF IsLatest
    <2> HIDE DEF k
    <2> QED BY <2>2, <2>3
  <1> QED BY <1>1, <1>2 DEF Count

LEMMA SendShape ==
    ASSUME TInv, NEW h \in Handlers, Count(h) \/ Insert(h) \/ Latest(h)
    PROVE  TInv'
  <1>1. TypeOK'
    <2>1. CASE Count(h)
      <3>1. PICK k \in Ids : slot' = [slot EXCEPT ![h] = k]
        BY <2>1, CountNext
      <3> QED BY <2>1, <3>1 DEF TInv, TypeOK, Count, Pcs
    <2>2. CASE Insert(h)
      <3>1. [from |-> UserOf[h], text |-> req[h].text, unread |-> TRUE] \in Row
        BY <2>2, RequestFields DEF Insert, At, TInv, Shape, Asked, Working, Row
      <3> QED BY <2>2, <3>1 DEF TInv, TypeOK, Insert, At, Pcs
    <2>3. CASE Latest(h)
      BY <2>3, IdsAreIntegers DEF TInv, TypeOK, Latest, At, Pcs
    <2> QED BY <2>1, <2>2, <2>3
  <1>2. Shape(h)'
    <2>1. CASE Count(h)
      BY <2>1, IdsAreIntegers DEF TInv, TypeOK, Count, At, Shape, Asked, Working, OpFitsPc,
                                  LoopHasWork, Ids, IsLatest, Present
    <2>2. CASE Insert(h)
      BY <2>2 DEF TInv, TypeOK, Insert, At, Shape, Asked, Working, OpFitsPc, LoopHasWork
    <2>3. CASE Latest(h)
      BY <2>3 DEF TInv, TypeOK, Latest, At, Shape, Asked, Working, OpFitsPc, LoopHasWork
    <2> QED BY <2>1, <2>2, <2>3
  <1>3. \A g \in Handlers \ {h} : Shape(g)'
    BY OthersShape DEF Count, Insert, Latest, Own, TInv, TypeOK
  <1> QED BY <1>1, <1>2, <1>3 DEF TInv

LEMMA ReadShape ==
    ASSUME TInv, NEW h \in Handlers, ReadOld(h) \/ CheckAuthor(h)
    PROVE  TInv'
  <1>0. /\ At(h, "window") /\ Working(h)
        /\ req[h] \in Requests
        /\ req[h].op = "delete" => todo[h] # <<>> /\ isGroup
    BY DEF ReadOld, CheckAuthor, Reads, At, TInv, Shape, Asked, Working, LoopHasWork
  <1>1. CASE ReadOld(h)
    <2>1. PICK i \in Ids : rows[i] # None /\ old' = [old EXCEPT ![h] = rows[i]]
      BY <1>1, WindowIsIds DEF ReadOld, Present
    <2>2. TypeOK'
      BY <1>1, <2>1 DEF TInv, TypeOK, ReadOld, Pcs
    <2>3. Shape(h)'
      BY <1>0, <1>1, <2>1 DEF TInv, TypeOK, ReadOld, Reads, Shape, Asked, Working, OpFitsPc, LoopHasWork
    <2>4. \A g \in Handlers \ {h} : Shape(g)'
      BY <1>1, OthersShape DEF ReadOld, Own, TInv, TypeOK
    <2> QED BY <2>2, <2>3, <2>4 DEF TInv
  <1>2. CASE CheckAuthor(h)
    <2> DEFINE rest == Tail(todo[h])
    <2>1. /\ req[h].op = "delete" /\ todo[h] \in Seq(Ids) /\ todo[h] # <<>>
          /\ req[h].ids \in Seq(Ids) /\ req[h].ids # <<>>
      BY <1>0, <1>2, RequestFields DEF CheckAuthor, Reads, TInv, TypeOK
    <2>2. rest \in Seq(Ids) /\ (rest # <<>> => Head(rest) \in Ids)
      BY <2>1, TailOfIds
    <2>3. TypeOK'
      BY <1>2, <2>1, <2>2, IdsAreIntegers DEF TInv, TypeOK, CheckAuthor, Pcs, FetchPc
    <2>4. Shape(h)'
      BY <1>0, <1>2, <2>1, <2>2 DEF TInv, TypeOK, CheckAuthor, Shape, Asked, Working, OpFitsPc,
                                    LoopHasWork, FetchPc
    <2>5. \A g \in Handlers \ {h} : Shape(g)'
      BY <1>2, OthersShape DEF CheckAuthor, Own, TInv, TypeOK
    <2> QED BY <2>3, <2>4, <2>5 DEF TInv
  <1> QED BY <1>1, <1>2

(* How a request that writes ends.                                          *)
LEMMA DoneEnds ==
    ASSUME NEW h \in Handlers, Done(h)
    PROVE  \E a \in {Fine({}), Refusal} : Finish(h, a)
  BY DEF Done

LEMMA AnswerShape ==
    ASSUME TInv, NEW h \in Handlers,
           FetchError(h) \/ Confirm(h) \/ Deliver(h) \/ NotAuthor(h) \/ QueryFails(h)
    PROVE  TInv'
  <1>1. PICK a \in Answers : Finish(h, a)
    BY WindowIsIds DEF FetchError, Confirm, Deliver, NotAuthor, QueryFails
  <1>2. UNCHANGED rows
    BY DEF FetchError, Confirm, Deliver, NotAuthor, QueryFails
  <1> QED BY <1>1, <1>2, FinishShape DEF TInv, TypeOK

LEMMA WriteShape ==
    ASSUME TInv, NEW h \in Handlers,
           Update(h) \/ MarkOne(h) \/ EraseOne(h) \/ Clear(h)
    PROVE  TInv'
  <1>0. req[h] \in Requests \/ pc[h] = "idle"
    BY DEF TInv, Shape, Asked, Working
  <1>1. CASE Update(h)
    <2>1. req[h] \in Requests /\ req[h].op = "edit" /\ old[h] \in Row
      BY <1>0, <1>1 DEF Update, At, TInv, TypeOK, Shape, OpFitsPc
    <2>2. PICK i \in Ids : rows' = [rows EXCEPT ![i] =
              [from |-> Existing(i).from, text |-> NewText(h), unread |-> NewUnread(h)]]
      BY <1>1, <2>1, RequestFields DEF Update
    <2>3. [from |-> Existing(i).from, text |-> NewText(h), unread |-> NewUnread(h)] \in Row
      <3>1. Existing(i).from \in {UserOf[g] : g \in Handlers} \cup {None}
        BY ExistingIsRow, RowFields DEF TInv
      <3>2. NewText(h) \in Texts \cup {None}
        BY <2>1, RequestFields, RowFields DEF NewText
      <3>3. NewUnread(h) \in BOOLEAN
        BY <2>1, RowFields DEF NewUnread
      <3> QED BY <3>1, <3>2, <3>3 DEF Row
    <2>4. rows' \in [Ids -> Row \cup {None}]
      BY <2>2, <2>3 DEF TInv, TypeOK
    <2> QED BY <1>1, <2>4, WindowIsIds, DoneEnds, FinishShape DEF Update
  <1>2. ASSUME NEW p \in {"mark", "erase"}, NEW new \in Row \cup {None}, Round(h, p, new)
        PROVE  TInv'
    <2>1. todo[h] \in Seq(Ids) /\ todo[h] # <<>> /\ pc[h] = p
      BY <1>2 DEF Round, At, TInv, TypeOK, Shape, LoopHasWork
    <2>2. rows' \in [Ids -> Row \cup {None}]
      BY <1>2, <2>1, TailOfIds DEF Round, TInv, TypeOK
    <2>3. CASE Done(h)
      BY <2>2, <2>3, WindowIsIds, DoneEnds, FinishShape
    <2>4. CASE /\ Tail(todo[h]) # <<>>
               /\ todo' = [todo EXCEPT ![h] = Tail(todo[h])]
               /\ UNCHANGED <<mode, isGroup, plan, pc, req, slot, start, old, answer>>
      <3>1. TypeOK'
        BY <2>1, <2>2, <2>4, TailOfIds DEF TInv, TypeOK
      <3>2. Shape(h)'
        BY <2>1, <2>4 DEF TInv, TypeOK, Shape, Asked, Working, OpFitsPc, LoopHasWork
      <3>3. \A g \in Handlers \ {h} : Shape(g)'
        BY <2>4, OthersShape DEF Own, TInv, TypeOK
      <3> QED BY <3>1, <3>2, <3>3 DEF TInv
    <2> QED BY <1>2, <2>3, <2>4 DEF Round
  <1>3. CASE MarkOne(h)
    <2>1. Read(Head(todo[h])) \in Row
      <3>1. Head(todo[h]) \in Ids
        BY <1>3, TailOfIds DEF MarkOne, Round, At, TInv, TypeOK, Shape, LoopHasWork
      <3> QED BY <3>1, ExistingIsRow, RowFields DEF Read, Row, TInv
    <2> QED BY <1>2, <1>3, <2>1 DEF MarkOne
  <1>4. CASE EraseOne(h)
    BY <1>2, <1>4 DEF EraseOne
  <1>5. CASE Clear(h)
    <2>1. rows' \in [Ids -> Row \cup {None}]
      BY <1>5 DEF Clear
    <2> QED BY <1>5, <2>1, WindowIsIds, DoneEnds, FinishShape DEF Clear
  <1> QED BY <1>1, <1>3, <1>4, <1>5

LEMMA InitShape == Init => TInv
  BY WindowIsIds, IdsAreIntegers
     DEF Init, TInv, TypeOK, Pcs, Shape, Asked, Working, OpFitsPc, LoopHasWork

LEMMA StepShape == TInv /\ [Next]_vars => TInv'
  <1> SUFFICES ASSUME TInv, [Next]_vars PROVE TInv'
    OBVIOUS
  <1>1. ASSUME NEW h \in Handlers, Panic(h) PROVE TInv'
    BY <1>1 DEF Panic, handlerVars, TInv, TypeOK, Shape, Asked, Working, OpFitsPc, LoopHasWork
  <1>2. CASE Restart
    BY <1>2, WindowIsIds, IdsAreIntegers
       DEF Restart, TInv, TypeOK, Pcs, Shape, Asked, Working, OpFitsPc, LoopHasWork
  <1>3. CASE UNCHANGED vars
    BY <1>3 DEF vars, handlerVars, TInv, TypeOK, Shape, Asked, Working, OpFitsPc, LoopHasWork
  <1> QED
    BY <1>1, <1>2, <1>3, AskShape, SendShape, ReadShape, AnswerShape, WriteShape DEF Next

(* The state of a chat is always well typed.                                *)
THEOREM TypeCorrect == Spec => []TypeOK
  <1>1. TInv => TypeOK
    BY DEF TInv
  <1> QED BY <1>1, InitShape, StepShape, PTL DEF Spec

-----------------------------------------------------------------------------
(* Requests that take turns do not overlap.                                 *)

Exclusive ==
    \A g, h \in Handlers :
        /\ plan.turns = "requests" /\ Working(g) /\ Working(h) => g = h
        /\ plan.turns = "sends" /\ Sending(g) /\ Sending(h) => g = h

(* Every step but Ask only carries on with requests there are.              *)
LEMMA OnlyAskStarts ==
    ASSUME TInv, [Next]_vars
    PROVE  \/ \E h \in Handlers : Ask(h)
           \/ /\ plan' = plan
              /\ \A g \in Handlers : Working(g)' => Working(g) /\ req'[g] = req[g]
  <1> DEFINE Carries == /\ plan' = plan
                        /\ \A g \in Handlers : Working(g)' => Working(g) /\ req'[g] = req[g]
  <1>1. ASSUME NEW h \in Handlers, NEW a, Finish(h, a) PROVE Carries
    BY <1>1 DEF Finish, Working, TInv, TypeOK
  <1>2. ASSUME NEW h \in Handlers,
               \/ FetchError(h) \/ Confirm(h) \/ Deliver(h) \/ NotAuthor(h) \/ QueryFails(h)
               \/ Update(h) \/ Clear(h)
        PROVE  Carries
    <2>1. PICK a : Finish(h, a)
      BY <1>2 DEF FetchError, Confirm, Deliver, NotAuthor, QueryFails, Update, Clear, Done
    <2> QED BY <1>1, <2>1
  <1>3. ASSUME NEW h \in Handlers, MarkOne(h) \/ EraseOne(h) PROVE Carries
    <2>1. CASE Done(h)
      BY <1>1, <2>1 DEF Done
    <2>2. CASE UNCHANGED <<plan, pc, req>>
      BY <2>2 DEF Working
    <2> QED BY <1>3, <2>1, <2>2 DEF MarkOne, EraseOne, Round
  <1>4. ASSUME NEW h \in Handlers,
               Count(h) \/ Insert(h) \/ Latest(h) \/ ReadOld(h) \/ CheckAuthor(h)
        PROVE  Carries
    BY <1>4 DEF Count, Insert, Latest, ReadOld, CheckAuthor, Reads, At, Working, TInv, TypeOK
  <1>5. ASSUME NEW h \in Handlers, Panic(h) PROVE Carries
    BY <1>5 DEF Panic, handlerVars, Working
  <1>6. CASE Restart
    BY <1>6 DEF Restart, Working
  <1>7. CASE UNCHANGED vars
    BY <1>7 DEF vars, handlerVars, Working
  <1> QED BY <1>2, <1>3, <1>4, <1>5, <1>6, <1>7 DEF Next

LEMMA ExclusiveStep == TInv /\ Exclusive /\ [Next]_vars => Exclusive'
  <1> SUFFICES ASSUME TInv, Exclusive, [Next]_vars PROVE Exclusive'
    OBVIOUS
  <1>1. ASSUME NEW h \in Handlers, Ask(h) PROVE Exclusive'
    <2>1. PICK r \in Requests :
              /\ HasTurn(h, r.op)
              /\ req' = [req EXCEPT ![h] = r]
              /\ pc' = [pc EXCEPT ![h] = FirstPc(r)]
      BY <1>1 DEF Ask
    <2>2. plan' = plan /\ req'[h] = r /\ \A g \in Handlers \ {h} : req'[g] = req[g] /\ pc'[g] = pc[g]
      BY <1>1, <2>1 DEF Ask, TInv, TypeOK
    <2> QED BY <2>1, <2>2 DEF Exclusive, HasTurn, Sending, Working
  <1>2. CASE /\ plan' = plan
             /\ \A g \in Handlers : Working(g)' => Working(g) /\ req'[g] = req[g]
    BY <1>2 DEF Exclusive, Sending
  <1> QED BY <1>1, <1>2, OnlyAskStarts

-----------------------------------------------------------------------------
(* Quiet clients: the ids that a request counts on stay in the table.       *)

Named(h) ==
    /\ Working(h) /\ req[h].op = "edit" => Head(req[h].ids) \in Present
    /\ pc[h] \in {"latest", "window"} /\ req[h].op = "edit" =>
            pc[h] = "window" /\ start[h] = Head(req[h].ids)
    /\ pc[h] = "mark" => \A k \in 1..Len(todo[h]) : todo[h][k] \in Present
    /\ pc[h] \in {"latest", "window"} /\ req[h].op = "delete" =>
            /\ pc[h] = "window" /\ start[h] = Head(todo[h])
            /\ \A k \in 1..Len(todo[h]) : todo[h][k] \in Present
    /\ pc[h] = "latest" /\ req[h].op = "send" => Present # {}
    /\ pc[h] = "window" /\ req[h].op = "send" => start[h] \in Present

QuietTable ==
    /\ mode = "up"
    /\ rows[-1] = None
    /\ \A i \in Ids : ~Partial(i)

QInv == Quiet => QuietTable /\ \A h \in Handlers : Named(h)

LEMMA NamedStays ==
    ASSUME NEW g \in Handlers, Named(g), Present \subseteq Present',
           pc'[g] = pc[g], req'[g] = req[g], start'[g] = start[g], todo'[g] = todo[g]
    PROVE  Named(g)'
  BY DEF Named, Working

LEMMA IdleNamed ==
    ASSUME NEW g \in Handlers, pc'[g] = "idle"
    PROVE  Named(g)'
  BY DEF Named, Working

(* A caller other than fetch reads one id.                                  *)
LEMMA WindowOfOne ==
    ASSUME NEW h \in Handlers, req[h].op # "fetch", start[h] \in Ids, start[h] >= 0
    PROVE  Window(h) = {start[h]} \cap Present
  <1>1. End(h) = 0
    BY DEF End
  <1>2. ValidRange(start[h], 0) = <<start[h], 0>>
    <2>0. start[h] \in Int
      BY IdsAreIntegers
    <2>1. ~(start[h] < 0)
      BY <2>0
    <2>2. Clamp(start[h]) = start[h]
      BY <2>1 DEF Clamp
    <2>3. ~(0 < 0)
      OBVIOUS
    <2> QED BY <2>2, <2>3 DEF ValidRange
  <1>3. \A i : InRange(i, <<start[h], 0>>) <=> i = start[h]
    BY DEF InRange
  <1> QED BY <1>1, <1>2, <1>3 DEF Window

(* What a quiet chat looks like to a handler at work in it.                 *)
LEMMA QuietWindow ==
    ASSUME TInv, QInv, Quiet, NEW h \in Handlers, At(h, "window"), req[h].op # "fetch"
    PROVE  start[h] \in Present /\ start[h] >= 0 /\ Window(h) = {start[h]}
  <1>1. start[h] \in Present
    <2>1. req[h].op \in {"send", "edit", "delete"}
      BY DEF At, TInv, Shape, OpFitsPc
    <2>2. CASE req[h].op = "send"
      BY <2>2 DEF At, QInv, Named
    <2>3. CASE req[h].op = "edit"
      BY <2>3 DEF At, QInv, Named, Working
    <2>4. CASE req[h].op = "delete"
      <3>1. todo[h] \in Seq(Ids) /\ todo[h] # <<>>
        BY <2>4 DEF At, TInv, TypeOK, Shape, LoopHasWork
      <3>2. 1 \in 1..Len(todo[h]) /\ Head(todo[h]) = todo[h][1]
        BY <3>1, TailOfIds
      <3> QED BY <2>4, <3>2 DEF At, QInv, Named
    <2> QED BY <2>1, <2>2, <2>3, <2>4
  <1>2. start[h] \in Ids /\ start[h] >= 0
    <2>1. start[h] \in Ids /\ rows[start[h]] # None
      BY <1>1 DEF Present
    <2>2. start[h] # -1
      BY <2>1 DEF QInv, QuietTable
    <2> QED BY <2>1, <2>2, MessagesAssumption DEF Ids
  <1> QED BY <1>1, <1>2, WindowOfOne

(* An UPDATE of a row that is there keeps its author.                       *)
LEMMA UpdateKeeps ==
    ASSUME TypeOK, QuietTable, NEW i \in Present,
           NEW t \in Texts \cup {None}, NEW b \in BOOLEAN,
           rows' = [rows EXCEPT ![i] = [from |-> Existing(i).from, text |-> t, unread |-> b]]
    PROVE  /\ Present' = Present
           /\ \A j \in Ids : ~Partial(j)'
           /\ rows'[-1] = None
           /\ \A j \in Present : rows'[j].from = rows[j].from
           /\ rows'[i].text = t
           /\ \A j \in Present \ {i} : rows'[j] = rows[j]
  <1>1. i \in Ids /\ rows[i] # None /\ Existing(i) = rows[i] /\ rows[i] \in Row /\ i # -1
    BY DEF Present, Existing, TypeOK, QuietTable
  <1> DEFINE new == [from |-> rows[i].from, text |-> t, unread |-> b]
  <1>2. new.from = rows[i].from /\ new.from # None /\ new.text = t
    BY <1>1 DEF QuietTable, Partial
  <1>3. new # None
    BY <1>1, RowFields, MessagesAssumption DEF Row
  <1>4. rows' = [rows EXCEPT ![i] = new]
    BY <1>1
  <1> HIDE DEF new
  <1>5. rows'[i] = new /\ \A j \in Ids \ {i} : rows'[j] = rows[j]
    BY <1>1, <1>4 DEF TypeOK
  <1>6. Present' = Present
    BY <1>1, <1>3, <1>5 DEF Present
  <1>7. \A j \in Ids : ~Partial(j)'
    BY <1>2, <1>5 DEF Partial, QuietTable
  <1>8. rows'[-1] = None
    BY <1>1, <1>5, IdsAreIntegers DEF QuietTable
  <1>9. \A j \in Present : rows'[j].from = rows[j].from
    BY <1>2, <1>5 DEF Present
  <1> QED BY <1>2, <1>5, <1>6, <1>7, <1>8, <1>9 DEF Present

LEMMA InsertKeeps ==
    ASSUME TInv, QuietTable, NEW h \in Handlers, Insert(h)
    PROVE  /\ slot[h] \in Ids /\ Present' = Present \cup {slot[h]}
           /\ \A j \in Ids : ~Partial(j)'
           /\ rows'[-1] = None
           /\ rows'[slot[h]] = [from |-> UserOf[h], text |-> req[h].text, unread |-> TRUE]
           /\ \A j \in Ids \ {slot[h]} : rows'[j] = rows[j]
  <1> DEFINE new == [from |-> UserOf[h], text |-> req[h].text, unread |-> TRUE]
  <1>1. slot[h] \in Ids /\ slot[h] >= 0
    BY DEF Insert, At, TInv, TypeOK, Shape, LoopHasWork
  <1>2. new # None /\ new.from # None
    <2>1. req[h] \in Requests
      BY DEF Insert, At, TInv, Shape, Asked, Working
    <2>2. req[h].text \in Texts \cup {None}
      BY <2>1, RequestFields
    <2>3. new \in Row
      BY <2>2 DEF Row
    <2> QED BY <2>3, MessagesAssumption
  <1>3. rows' = [rows EXCEPT ![slot[h]] = new]
    BY DEF Insert
  <1>4. rows'[slot[h]] = new /\ \A j \in Ids \ {slot[h]} : rows'[j] = rows[j]
    BY <1>1, <1>3 DEF TInv, TypeOK
  <1>5. new.from = UserOf[h]
    OBVIOUS
  <1> HIDE DEF new
  <1>6. Present' = Present \cup {slot[h]}
    BY <1>1, <1>2, <1>4 DEF Present
  <1>7. \A j \in Ids : ~Partial(j)'
    BY <1>2, <1>4 DEF Partial, QuietTable
  <1>8. -1 \in Ids \ {slot[h]}
    BY <1>1, IdsAreIntegers
  <1> QED BY <1>1, <1>4, <1>6, <1>7, <1>8 DEF QuietTable, new

LEMMA InPresent ==
    ASSUME QuietTable, NEW i \in Present
    PROVE  i \in Ids /\ i # -1 /\ FetchPc(i) = "window"
  BY DEF Present, QuietTable, FetchPc

LEMMA AskNamed ==
    ASSUME TInv, QInv, Quiet, NEW h \in Handlers, Ask(h)
    PROVE  \A g \in Handlers : Named(g)'
  <1>1. PICK r \in Requests :
            /\ Careful /\ r.op \in Naming => \A k \in DOMAIN r.ids : r.ids[k] \in Present
            /\ req' = [req EXCEPT ![h] = r]
            /\ pc' = [pc EXCEPT ![h] = FirstPc(r)]
            /\ start' = [start EXCEPT ![h] = FirstRead(r)]
            /\ todo' = [todo EXCEPT ![h] = r.ids]
    BY DEF Ask
  <1>2. Present' = Present
    BY DEF Ask, Present
  <1>3. \A g \in Handlers \ {h} : Named(g)'
    BY <1>1, <1>2, NamedStays DEF QInv, TInv, TypeOK
  <1>4. req'[h] = r /\ pc'[h] = FirstPc(r) /\ start'[h] = FirstRead(r) /\ todo'[h] = r.ids
    BY <1>1 DEF TInv, TypeOK
  <1>5. r.op \in Naming =>
            /\ \A k \in 1..Len(r.ids) : r.ids[k] \in Present
            /\ Head(r.ids) \in Present /\ FetchPc(Head(r.ids)) = "window"
    <2> SUFFICES ASSUME r.op \in Naming
                 PROVE  /\ \A k \in 1..Len(r.ids) : r.ids[k] \in Present
                        /\ Head(r.ids) \in Present /\ FetchPc(Head(r.ids)) = "window"
      OBVIOUS
    <2>1. r.ids \in Seq(Ids) /\ r.ids # <<>>
      BY RequestFields
    <2>2. DOMAIN r.ids = 1..Len(r.ids) /\ 1 \in 1..Len(r.ids) /\ Head(r.ids) = r.ids[1]
      BY <2>1, TailOfIds
    <2>3. \A k \in 1..Len(r.ids) : r.ids[k] \in Present
      BY <1>1, <2>2 DEF Quiet
    <2> QED BY <2>2, <2>3, InPresent DEF QInv
  <1>6. Named(h)'
    <2>1. CASE r.op = "edit"
      BY <1>2, <1>4, <1>5, <2>1 DEF Named, FirstPc, FirstRead
    <2>2. CASE r.op \in {"mark", "delete"}
      BY <1>2, <1>4, <1>5, <2>2 DEF Named, FirstPc, FirstRead
    <2>3. CASE r.op \in {"send", "fetch", "clear"}
      BY <1>2, <1>4, <2>3 DEF Named, FirstPc, FirstRead, FetchPc
    <2> QED BY <2>1, <2>2, <2>3, RequestFields
  <1> QED BY <1>3, <1>6

LEMMA SendNamed ==
    ASSUME TInv, QInv, Quiet, NEW h \in Handlers, Count(h) \/ Insert(h) \/ Latest(h)
    PROVE  QuietTable' /\ \A g \in Handlers : Named(g)'
  <1>1. CASE Count(h)
    <2>1. Present' = Present /\ QuietTable'
      BY <1>1 DEF Count, Present, QInv, QuietTable, Partial
    <2>2. \A g \in Handlers \ {h} : Named(g)'
      BY <1>1, <2>1, NamedStays DEF Count, QInv, TInv, TypeOK
    <2>3. Named(h)'
      BY <1>1 DEF Count, At, Named, Working, TInv, TypeOK, Shape, OpFitsPc
    <2> QED BY <2>1, <2>2, <2>3
  <1>2. CASE Insert(h)
    <2>1. Present' = Present \cup {slot[h]} /\ QuietTable'
      BY <1>2, InsertKeeps DEF QInv, QuietTable, Insert
    <2>2. \A g \in Handlers \ {h} : Named(g)'
      BY <1>2, <2>1, NamedStays DEF Insert, QInv, TInv, TypeOK
    <2>3. Named(h)'
      BY <1>2, <2>1 DEF Insert, At, Named, Working, TInv, TypeOK, Shape, OpFitsPc
    <2> QED BY <2>1, <2>2, <2>3
  <1>3. CASE Latest(h)
    <2>1. Present' = Present /\ QuietTable'
      BY <1>3 DEF Latest, Present, QInv, QuietTable, Partial
    <2>2. \A g \in Handlers \ {h} : Named(g)'
      BY <1>3, <2>1, NamedStays DEF Latest, QInv, TInv, TypeOK
    <2>3. req[h].op \in {"send", "fetch"}
      BY <1>3 DEF Latest, At, QInv, Named, TInv, Shape, OpFitsPc
    <2>4. req[h].op = "send" => start'[h] \in Present
      <3> SUFFICES ASSUME req[h].op = "send" PROVE start'[h] \in Present
        OBVIOUS
      <3>1. Present # {}
        BY <1>3 DEF Latest, At, QInv, Named
      <3> QED BY <1>3, <3>1 DEF Latest, IsLatest, TInv, TypeOK
    <2>5. Named(h)'
      BY <1>3, <2>1, <2>3, <2>4 DEF Latest, Named, Working, TInv, TypeOK
    <2> QED BY <2>1, <2>2, <2>5
  <1> QED BY <1>1, <1>2, <1>3

LEMMA FinishNamed ==
    ASSUME TInv, QInv, Quiet, NEW h \in Handlers, NEW a, Finish(h, a), Present \subseteq Present'
    PROVE  \A g \in Handlers : Named(g)'
  <1>1. Named(h)'
    BY IdleNamed DEF Finish, TInv, TypeOK
  <1>2. \A g \in Handlers \ {h} : Named(g)'
    BY NamedStays DEF Finish, QInv, TInv, TypeOK
  <1> QED BY <1>1, <1>2

LEMMA ReadNamed ==
    ASSUME TInv, QInv, Quiet, NEW h \in Handlers, ReadOld(h) \/ CheckAuthor(h)
    PROVE  QuietTable' /\ \A g \in Handlers : Named(g)'
  <1>1. Present' = Present /\ QuietTable'
    BY DEF ReadOld, CheckAuthor, Present, QInv, QuietTable, Partial
  <1>2. \A g \in Handlers \ {h} : Named(g)'
    BY <1>1, NamedStays DEF ReadOld, CheckAuthor, QInv, TInv, TypeOK
  <1>3. CASE ReadOld(h)
    BY <1>1, <1>2, <1>3 DEF ReadOld, Reads, At, Named, Working, QInv, TInv, TypeOK
  <1>4. CASE CheckAuthor(h)
    <2> DEFINE rest == Tail(todo[h])
    <2>1. /\ pc[h] = "window" /\ req[h].op = "delete"
          /\ todo[h] \in Seq(Ids) /\ todo[h] # <<>>
          /\ \A k \in 1..Len(todo[h]) : todo[h][k] \in Present
      BY <1>4 DEF CheckAuthor, Reads, At, TInv, TypeOK, Shape, LoopHasWork, QInv, Named
    <2>2. \A k \in 1..Len(rest) : rest[k] \in Present
      BY <2>1, TailOfIds
    <2>3. CASE rest = <<>>
      <3>1. pc'[h] = "erase" /\ req'[h] = req[h]
        BY <1>4, <2>3 DEF CheckAuthor, TInv, TypeOK
      <3>2. Named(h)'
        BY <2>1, <3>1 DEF Named
      <3> QED BY <1>1, <1>2, <3>2
    <2>4. CASE rest # <<>>
      <3>1. Head(rest) \in Present
        BY <2>1, <2>2, <2>4, TailOfIds
      <3>2. FetchPc(Head(rest)) = "window"
        BY <3>1, InPresent DEF QInv
      <3>3. /\ pc'[h] = "window" /\ start'[h] = Head(rest) /\ todo'[h] = rest
            /\ req'[h] = req[h]
        BY <1>4, <2>4, <3>2 DEF CheckAuthor, TInv, TypeOK
      <3> QED BY <1>1, <1>2, <2>1, <2>2, <3>3 DEF Named, Working
    <2> QED BY <1>1, <1>2, <2>3, <2>4
  <1> QED BY <1>3, <1>4

(* Who erases when quiet works alone.                                       *)
LEMMA EraserAlone ==
    ASSUME TInv, Exclusive, Quiet, NEW h \in Handlers,
           Working(h), req[h].op \in {"delete", "clear"}
    PROVE  plan.turns = "requests" /\ \A g \in Handlers \ {h} : pc[g] = "idle"
  BY DEF Quiet, NoErasers, TInv, Shape, Asked, Exclusive, Working

LEMMA WriteNamed ==
    ASSUME TInv, Exclusive, QInv, Quiet, NEW h \in Handlers,
           Update(h) \/ MarkOne(h) \/ EraseOne(h) \/ Clear(h)
    PROVE  QuietTable' /\ \A g \in Handlers : Named(g)'
  <1>0. TypeOK /\ QuietTable /\ Working(h) /\ req[h] \in Requests /\ mode = "up"
    BY DEF TInv, QInv, Shape, Asked, Working, Update, MarkOne, EraseOne, Clear, Round, At
  <1>1. CASE Update(h)
    <2> DEFINE i == Head(req[h].ids)
    <2>1. req[h].op = "edit" /\ old[h] \in Row /\ i \in Present
      BY <1>0, <1>1 DEF Update, At, TInv, TypeOK, Shape, OpFitsPc, QInv, Named
    <2>2. NewText(h) \in Texts \cup {None} /\ NewUnread(h) \in BOOLEAN
      BY <1>0, <2>1, RequestFields, RowFields DEF NewText, NewUnread
    <2>3. Present' = Present /\ QuietTable'
      BY <1>0, <1>1, <2>1, <2>2, UpdateKeeps DEF Update, Done, Finish, QuietTable
    <2> QED BY <1>1, <2>3, DoneEnds, FinishNamed DEF Update
  <1>2. CASE MarkOne(h)
    <2> DEFINE i == Head(todo[h])
               rest == Tail(todo[h])
    <2>1. /\ pc[h] = "mark" /\ todo[h] \in Seq(Ids) /\ todo[h] # <<>>
          /\ \A k \in 1..Len(todo[h]) : todo[h][k] \in Present
      BY <1>2 DEF MarkOne, Round, At, TInv, TypeOK, Shape, LoopHasWork, QInv, Named
    <2>2. i \in Present /\ \A k \in 1..Len(rest) : rest[k] \in Present
      BY <2>1, TailOfIds
    <2>3. Existing(i).text \in Texts \cup {None}
      BY <1>0, <2>2, ExistingIsRow, RowFields DEF Present
    <2>4. Present' = Present /\ QuietTable'
      <3>1. rows' = [rows EXCEPT ![i] =
                [from |-> Existing(i).from, text |-> Existing(i).text, unread |-> FALSE]]
        BY <1>2 DEF MarkOne, Round, Read
      <3>2. mode' = "up"
        BY <1>0, <1>2 DEF MarkOne, Round, Done, Finish
      <3> QED BY <1>0, <2>2, <2>3, <3>1, <3>2, UpdateKeeps DEF QuietTable
    <2>5. CASE Done(h)
      BY <2>4, <2>5, DoneEnds, FinishNamed
    <2>6. CASE todo' = [todo EXCEPT ![h] = rest] /\ UNCHANGED <<pc, req, start>>
      <3>1. \A g \in Handlers \ {h} : Named(g)'
        BY <2>4, <2>6, NamedStays DEF QInv, TInv, TypeOK
      <3>2. pc'[h] = "mark" /\ req'[h].op = "mark" /\ todo'[h] = rest
        BY <2>1, <2>6 DEF TInv, TypeOK, Shape, OpFitsPc
      <3>3. Named(h)'
        BY <2>2, <2>4, <3>2 DEF Named
      <3> QED BY <2>4, <3>1, <3>3
    <2> QED BY <1>2, <2>5, <2>6 DEF MarkOne, Round
  <1>3. CASE EraseOne(h) \/ Clear(h)
    <2>1. req[h].op \in {"delete", "clear"}
      BY <1>3 DEF EraseOne, Clear, Round, At, TInv, Shape, OpFitsPc
    <2>2. \A g \in Handlers \ {h} : pc[g] = "idle"
      BY <1>0, <2>1, EraserAlone
    <2>3. \A g \in Handlers \ {h} : Named(g)'
      <3>1. \A g \in Handlers \ {h} : pc'[g] = pc[g]
        BY <1>0, <1>3 DEF EraseOne, Clear, Round, Done, Finish, TypeOK
      <3> QED BY <2>2, <3>1, IdleNamed
    <2>4. QuietTable'
      BY <1>0, <1>3, IdsAreIntegers
         DEF EraseOne, Clear, Round, Done, Finish, QuietTable, Partial, TypeOK
    <2>5. Named(h)'
      <3>1. CASE pc'[h] = "idle"
        BY <3>1, IdleNamed
      <3>2. CASE pc'[h] = "erase" /\ req'[h].op = "delete"
        BY <3>2 DEF Named
      <3> QED BY <1>0, <1>3, <3>1, <3>2
              DEF EraseOne, Clear, Round, Done, Finish, At, TInv, TypeOK, Shape, OpFitsPc
    <2> QED BY <2>3, <2>4, <2>5
  <1> QED BY <1>1, <1>2, <1>3

LEMMA QuietInit == Init => Exclusive /\ QInv
  BY IdsAreIntegers DEF Init, Exclusive, QInv, QuietTable, Partial, Named, Working, Sending

LEMMA QuietStep == TInv /\ Exclusive /\ QInv /\ [Next]_vars => QInv'
  <1> SUFFICES ASSUME TInv, Exclusive, QInv, [Next]_vars, Quiet'
               PROVE  QuietTable' /\ \A g \in Handlers : Named(g)'
    BY DEF QInv
  <1>0. Quiet /\ QuietTable
    <2>1. plan' = plan
      BY OnlyAskStarts DEF Ask
    <2> QED BY <2>1 DEF Quiet, NoErasers, QInv
  <1>1. ASSUME NEW h \in Handlers, Ask(h) PROVE QuietTable' /\ \A g \in Handlers : Named(g)'
    BY <1>0, <1>1, AskNamed DEF Ask, QuietTable, Partial
  <1>2. ASSUME NEW h \in Handlers,
               FetchError(h) \/ Confirm(h) \/ Deliver(h) \/ NotAuthor(h) \/ QueryFails(h)
        PROVE  QuietTable' /\ \A g \in Handlers : Named(g)'
    <2>1. PICK a : Finish(h, a)
      BY <1>2 DEF FetchError, Confirm, Deliver, NotAuthor, QueryFails
    <2>2. UNCHANGED rows
      BY <1>2 DEF FetchError, Confirm, Deliver, NotAuthor, QueryFails
    <2>3. Present' = Present /\ QuietTable'
      BY <1>0, <2>1, <2>2 DEF Finish, Present, QuietTable, Partial
    <2> QED BY <1>0, <2>1, <2>3, FinishNamed
  <1>3. ASSUME NEW h \in Handlers, Panic(h) PROVE FALSE
    BY <1>0, <1>3, QuietWindow DEF Panic
  <1>4. CASE Restart
    BY <1>0, <1>4, IdleNamed DEF Restart, QuietTable, Partial
  <1>5. CASE UNCHANGED vars
    BY <1>0, <1>5, NamedStays DEF vars, handlerVars, QInv, QuietTable, Partial, Present
  <1> QED
    BY <1>0, <1>1, <1>2, <1>3, <1>4, <1>5, SendNamed, ReadNamed, WriteNamed DEF Next

LEMMA QuietInvariant == Spec => [](TInv /\ Exclusive /\ QInv)
  <1>1. Init => TInv /\ Exclusive /\ QInv
    BY InitShape, QuietInit
  <1>2. TInv /\ Exclusive /\ QInv /\ [Next]_vars => (TInv /\ Exclusive /\ QInv)'
    BY StepShape, ExclusiveStep, QuietStep
  <1> QED BY <1>1, <1>2, PTL DEF Spec

(* While nobody erases during a request, no handler ends the server by
   reading a message that is not there.                                     *)
THEOREM NoPanicWhenQuiet == Spec => []QuietNeverPanics
  <1>1. QInv => QuietNeverPanics
    BY DEF QInv, QuietTable, QuietNeverPanics
  <1> QED BY <1>1, QuietInvariant, PTL

(* Nor does it leave a row without an author.                               *)
THEOREM RowsWholeWhenQuiet == Spec => []QuietKeepsRowsWhole
  <1>1. QInv => QuietKeepsRowsWhole
    BY DEF QInv, QuietTable, QuietKeepsRowsWhole
  <1> QED BY <1>1, QuietInvariant, PTL

-----------------------------------------------------------------------------
(* Calm clients: what a handler knows of its messages while it works.       *)

Free(i) ==
    /\ i \notin Present /\ \A j \in Present : j < i
    /\ i = 0 \/ i - 1 \in Present

Authored(i, h) == rows[i].from = UserOf[h]
OwnWords(h) == {None} \cup {t \in Texts : WriterOf[t] = UserOf[h]}

Mine(h) ==
    /\ pc[h] = "insert" => Free(slot[h])
    /\ Stored(h) => slot[h] \in Present /\ Authored(slot[h], h) /\ IsLatest(slot[h])
    /\ Stored(h) /\ pc[h] = "window" => start[h] = slot[h]
    /\ pc[h] = "update" => Authored(Head(req[h].ids), h) /\ old[h].text \in OwnWords(h)
    /\ pc[h] = "window" /\ req[h].op = "delete" =>
            \A i \in Ids : (\E k \in 1..Len(req[h].ids) : req[h].ids[k] = i) =>
                \/ Authored(i, h)
                \/ \E k \in 1..Len(todo[h]) : todo[h][k] = i
    /\ pc[h] = "erase" /\ isGroup =>
            \A k \in 1..Len(todo[h]) : todo[h][k] \in Present => Authored(todo[h][k], h)

CInv == Calm => WordsAreAuthors /\ \A h \in Handlers : Mine(h)

LEMMA CalmIsQuiet == Calm => Quiet
  BY DEF Calm, Quiet

(* The steps of one handler while another is at work: nothing is erased, and
   nothing is added while the other sends.                                  *)
LEMMA MineStays ==
    ASSUME TInv, NEW g \in Handlers, Mine(g), isGroup' = isGroup,
           Working(g) => req[g].op # "delete",
           \A i \in Present : rows'[i].from = rows[i].from,
           Working(g) /\ req[g].op = "edit" => Head(req[g].ids) \in Present,
           Working(g) /\ req[g].op = "send" => Present' = Present,
           pc'[g] = pc[g], req'[g] = req[g], start'[g] = start[g],
           slot'[g] = slot[g], old'[g] = old[g]
    PROVE  Mine(g)'
  BY DEF Mine, Free, Authored, OwnWords, Stored, IsLatest, Working, TInv, Shape, OpFitsPc

LEMMA IdleMine ==
    ASSUME NEW g \in Handlers, pc'[g] = "idle"
    PROVE  Mine(g)'
  BY DEF Mine, Stored

LEMMA CalmOthers ==
    ASSUME TInv, Exclusive, QInv, CInv, Calm, NEW h \in Handlers, Own(h), isGroup' = isGroup,
           plan.turns = "requests" => \A g \in Handlers \ {h} : pc[g] = "idle",
           plan.turns = "sends" =>
               /\ \A i \in Present : rows'[i].from = rows[i].from
               /\ Present' = Present \/ Sending(h)
    PROVE  \A g \in Handlers \ {h} : Mine(g)'
  <1>1. CASE plan.turns = "requests"
    BY <1>1, IdleMine DEF Own
  <1>2. CASE plan.turns = "sends" /\ NoErasers
    <2> SUFFICES ASSUME NEW g \in Handlers \ {h} PROVE Mine(g)'
      OBVIOUS
    <2>1. Working(g) => req[g].op # "delete"
      BY <1>2 DEF NoErasers, TInv, Shape, Asked
    <2>2. Working(g) /\ req[g].op = "edit" => Head(req[g].ids) \in Present
      BY CalmIsQuiet DEF QInv, Named
    <2>3. Working(g) /\ req[g].op = "send" => Present' = Present
      BY <1>2 DEF Exclusive, Sending
    <2> QED BY <1>2, <2>1, <2>2, <2>3, MineStays DEF CInv, Own
  <1> QED BY <1>1, <1>2 DEF Calm

LEMMA OthersIdle ==
    ASSUME Exclusive, NEW h \in Handlers, Working(h)
    PROVE  plan.turns = "requests" => \A g \in Handlers \ {h} : pc[g] = "idle"
  BY DEF Exclusive, Working

LEMMA AskMine ==
    ASSUME TInv, Exclusive, QInv, CInv, Calm, NEW h \in Handlers, Ask(h)
    PROVE  WordsAreAuthors' /\ \A g \in Handlers : Mine(g)'
  <1>1. PICK r \in Requests :
            /\ HasTurn(h, r.op)
            /\ req' = [req EXCEPT ![h] = r]
            /\ pc' = [pc EXCEPT ![h] = FirstPc(r)]
            /\ todo' = [todo EXCEPT ![h] = r.ids]
    BY DEF Ask
  <1>2. rows' = rows /\ isGroup' = isGroup /\ plan' = plan /\ Present' = Present
    BY DEF Ask, Present
  <1>3. WordsAreAuthors'
    BY <1>2 DEF WordsAreAuthors, CInv, Calm, NoErasers
  <1>4. \A g \in Handlers \ {h} : Mine(g)'
    <2>1. Own(h)
      BY DEF Ask, Own, TInv, TypeOK
    <2>2. plan.turns = "requests" => \A g \in Handlers \ {h} : pc[g] = "idle"
      BY <1>1 DEF HasTurn, Working
    <2> QED BY <1>2, <2>1, <2>2, CalmOthers
  <1>5. Mine(h)'
    <2>1. req'[h] = r /\ pc'[h] = FirstPc(r) /\ todo'[h] = r.ids
      BY <1>1 DEF TInv, TypeOK
    <2>2. FirstPc(r) \notin {"insert", "update"}
      BY FirstTyped
    <2>3. ~Stored(h)'
      BY <2>1 DEF Stored, FirstPc
    <2>4. FirstPc(r) = "erase" => ~isGroup
      BY DEF FirstPc, FetchPc
    <2> QED BY <1>2, <2>1, <2>2, <2>3, <2>4 DEF Mine
  <1> QED BY <1>3, <1>4, <1>5

LEMMA SendMine ==
    ASSUME TInv, Exclusive, QInv, CInv, Calm, NEW h \in Handlers,
           Count(h) \/ Insert(h) \/ Latest(h)
    PROVE  WordsAreAuthors' /\ \A g \in Handlers : Mine(g)'
  <1>0. /\ Own(h) /\ isGroup' = isGroup /\ plan' = plan /\ Working(h)
        /\ Present \subseteq Ids /\ Ids \subseteq Int
    BY IdsAreIntegers DEF Count, Insert, Latest, At, Own, TInv, TypeOK, Present, Working
  <1>1. CASE Count(h)
    <2>1. rows' = rows /\ Present' = Present /\ pc'[h] = "insert"
      BY <1>1 DEF Count, Present, TInv, TypeOK
    <2>2. PICK k \in Ids : /\ slot' = [slot EXCEPT ![h] = k]
                           /\ \/ k = 0 /\ Present = {}
                              \/ k - 1 \in Present /\ IsLatest(k - 1)
      BY <1>1, CountNext
    <2>3. Free(k)
      BY <1>0, <2>2 DEF Free, IsLatest
    <2>4. slot'[h] = k
      BY <2>2 DEF TInv, TypeOK
    <2>5. Mine(h)'
      BY <2>1, <2>3, <2>4 DEF Mine, Stored, Free
    <2> QED BY <1>0, <2>1, <2>5, CalmOthers, OthersIdle DEF WordsAreAuthors, CInv, Calm, NoErasers
  <1>2. CASE Insert(h)
    <2>1. /\ Present' = Present \cup {slot[h]} /\ slot[h] \in Ids
          /\ rows'[slot[h]] = [from |-> UserOf[h], text |-> req[h].text, unread |-> TRUE]
          /\ \A j \in Ids \ {slot[h]} : rows'[j] = rows[j]
      BY <1>2, InsertKeeps, CalmIsQuiet DEF QInv
    <2>2. /\ Free(slot[h]) /\ req[h].op = "send"
          /\ req[h].text # None => WriterOf[req[h].text] = UserOf[h]
      BY <1>2 DEF Insert, At, CInv, Mine, TInv, Shape, OpFitsPc, Asked, Working
    <2>3. WordsAreAuthors'
      <3> SUFFICES ASSUME NEW i \in Present', rows'[i].text # None
                   PROVE  WriterOf[rows'[i].text] = rows'[i].from
        BY DEF WordsAreAuthors
      <3>1. CASE i = slot[h]
        BY <2>1, <2>2, <3>1
      <3>2. CASE i \in Present /\ i # slot[h]
        BY <1>0, <2>1, <3>2 DEF WordsAreAuthors, CInv
      <3> QED BY <2>1, <3>1, <3>2
    <2>4. Mine(h)'
      <3>1. /\ pc'[h] = "latest" /\ slot'[h] = slot[h]
        BY <1>2 DEF Insert, TInv, TypeOK
      <3>2. IsLatest(slot[h])'
        <4>0. slot[h] \in Int
          BY <1>0, <2>1
        <4>1. slot[h] <= slot[h]
          BY <4>0
        <4>2. \A j \in Present' : j <= slot[h]
          <5> SUFFICES ASSUME NEW j \in Present' PROVE j <= slot[h]
            OBVIOUS
          <5>1. CASE j = slot[h]
            BY <4>1, <5>1
          <5>2. CASE j \in Present
            <6>1. j \in Int /\ j < slot[h]
              BY <1>0, <2>2, <5>2 DEF Free
            <6> QED BY <4>0, <6>1
          <5> QED BY <2>1, <5>1, <5>2
        <4> QED BY <2>1, <3>1, <4>2 DEF IsLatest
      <3> QED BY <2>1, <3>1, <3>2 DEF Mine, Authored, IsLatest
    <2>5. \A i \in Present : rows'[i].from = rows[i].from
      BY <1>0, <2>1, <2>2 DEF Free
    <2> QED BY <1>0, <2>2, <2>3, <2>4, <2>5, CalmOthers, OthersIdle DEF Sending
  <1>3. CASE Latest(h)
    <2>1. rows' = rows /\ Present' = Present /\ pc'[h] = "window" /\ req'[h] = req[h] /\ slot'[h] = slot[h]
      BY <1>3 DEF Latest, Present, TInv, TypeOK
    <2>2. req[h].op \in {"send", "fetch"}
      BY <1>3, CalmIsQuiet DEF Latest, At, QInv, Named, TInv, Shape, OpFitsPc
    <2>3. req[h].op = "send" =>
              slot[h] \in Present /\ Authored(slot[h], h) /\ IsLatest(slot[h])
      BY <1>3 DEF Latest, At, CInv, Mine, Stored
    <2>4. req[h].op = "send" => start'[h] = slot[h]
      <3> SUFFICES ASSUME req[h].op = "send" PROVE start'[h] = slot[h]
        OBVIOUS
      <3>1. PICK i \in Ids : IsLatest(i) /\ start' = [start EXCEPT ![h] = i]
        BY <1>3, <2>3 DEF Latest
      <3>2. i = slot[h]
        <4>1. i \in Int /\ slot[h] \in Int
          BY <1>0, <2>3, <3>1
        <4>2. i <= slot[h] /\ slot[h] <= i
          BY <2>3, <3>1 DEF IsLatest
        <4> QED BY <4>1, <4>2
      <3> QED BY <3>1, <3>2 DEF TInv, TypeOK
    <2>5. Mine(h)'
      BY <2>1, <2>2, <2>3, <2>4 DEF Mine, Stored, Authored, IsLatest
    <2> QED BY <1>0, <2>1, <2>5, CalmOthers, OthersIdle DEF WordsAreAuthors, CInv, Calm, NoErasers
  <1> QED BY <1>1, <1>2, <1>3

(* A request that ends without a write, or with one that keeps authors.     *)
LEMMA FinishMine ==
    ASSUME TInv, Exclusive, QInv, CInv, Calm, NEW h \in Handlers, Working(h),
           NEW a, Finish(h, a), Present' = Present,
           \A i \in Present : rows'[i].from = rows[i].from
    PROVE  \A g \in Handlers : Mine(g)'
  <1>1. Own(h) /\ isGroup' = isGroup /\ pc'[h] = "idle"
    BY DEF Finish, Own, TInv, TypeOK
  <1> QED BY <1>1, CalmOthers, OthersIdle, IdleMine

LEMMA ReadMine ==
    ASSUME TInv, Exclusive, QInv, CInv, Calm, NEW h \in Handlers,
           ReadOld(h) \/ CheckAuthor(h)
    PROVE  WordsAreAuthors' /\ \A g \in Handlers : Mine(g)'
  <1>0. /\ Own(h) /\ isGroup' = isGroup /\ rows' = rows /\ Present' = Present /\ plan' = plan
        /\ Working(h) /\ At(h, "window") /\ req'[h] = req[h]
        /\ TypeOK /\ req[h] \in Requests
    BY DEF ReadOld, CheckAuthor, Reads, At, Own, TInv, TypeOK, Present, Working, Shape, Asked
  <1>1. WordsAreAuthors'
    BY <1>0 DEF WordsAreAuthors, CInv, Calm, NoErasers
  <1>2. \A g \in Handlers \ {h} : Mine(g)'
    BY <1>0, CalmOthers, OthersIdle
  <1>3. req[h].op \in {"edit", "delete"} /\ start[h] \in Present /\ Window(h) = {start[h]}
    BY <1>0, QuietWindow, CalmIsQuiet DEF ReadOld, CheckAuthor, Reads
  <1>4. Authored(start[h], h)
    BY <1>3 DEF ReadOld, CheckAuthor, Authored
  <1>5. CASE ReadOld(h)
    <2>1. /\ req[h].op = "edit" /\ start[h] = Head(req[h].ids) /\ pc'[h] = "update"
          /\ old'[h] = rows[start[h]]
      BY <1>0, <1>3, <1>5, CalmIsQuiet DEF ReadOld, Reads, At, QInv, Named, TInv, TypeOK
    <2>2. rows[start[h]] \in Row
      BY <1>0, <1>3 DEF TypeOK, Present
    <2>3. old'[h].text \in OwnWords(h)
      BY <1>3, <1>4, <2>1, <2>2, RowFields DEF CInv, WordsAreAuthors, OwnWords, Authored
    <2>4. Mine(h)'
      BY <1>0, <1>4, <2>1, <2>3 DEF Mine, Stored, Authored, OwnWords
    <2> QED BY <1>1, <1>2, <2>4
  <1>6. CASE CheckAuthor(h)
    <2> DEFINE rest == Tail(todo[h])
    <2>1. /\ req[h].op = "delete" /\ start[h] = Head(todo[h])
          /\ todo[h] \in Seq(Ids) /\ todo[h] # <<>>
          /\ \A i \in Ids : (\E k \in 1..Len(req[h].ids) : req[h].ids[k] = i) =>
                \/ Authored(i, h)
                \/ \E k \in 1..Len(todo[h]) : todo[h][k] = i
      BY <1>0, <1>6, CalmIsQuiet
         DEF CheckAuthor, Reads, At, QInv, Named, CInv, Mine, TypeOK, TInv, Shape, LoopHasWork
    <2>2. ASSUME NEW i \in Ids, NEW k \in 1..Len(todo[h]), todo[h][k] = i
          PROVE  Authored(i, h) \/ (\E n \in 1..Len(rest) : rest[n] = i)
      <3>1. CASE k = 1
        BY <1>4, <2>1, <2>2, <3>1, TailOfIds
      <3>2. CASE k # 1
        <4>1. /\ Len(todo[h]) \in Nat \ {0} /\ Len(rest) = Len(todo[h]) - 1
              /\ \A n \in 1..Len(todo[h]) - 1 : rest[n] = todo[h][n + 1]
          BY <2>1, TailOfIds
        <4> DEFINE n == k - 1
        <4>2. n \in 1..Len(rest) /\ n + 1 = k
          BY <3>2, <4>1
        <4>3. rest[n] = i
          BY <2>2, <4>1, <4>2
        <4> HIDE DEF n
        <4> QED BY <4>2, <4>3
      <3> QED BY <3>1, <3>2
    <2>3. \A i \in Ids : (\E k \in 1..Len(req[h].ids) : req[h].ids[k] = i) =>
              Authored(i, h) \/ (\E n \in 1..Len(rest) : rest[n] = i)
      BY <2>1, <2>2
    <2>4. CASE rest = <<>>
      <3>1. pc'[h] = "erase" /\ todo'[h] = req[h].ids
        BY <1>0, <1>6, <2>4 DEF CheckAuthor, TypeOK
      <3>2. Len(rest) = 0
        BY <2>4, EmptySeq
      <3>3. \A k \in 1..Len(req[h].ids) : Authored(req[h].ids[k], h)
        <4> SUFFICES ASSUME NEW k \in 1..Len(req[h].ids) PROVE Authored(req[h].ids[k], h)
          OBVIOUS
        <4>1. req[h].ids[k] \in Ids
          BY <1>0, RequestFields
        <4> QED BY <2>3, <3>2, <4>1
      <3> QED BY <1>0, <1>1, <1>2, <3>1, <3>3 DEF Mine, Stored, Authored
    <2>5. CASE rest # <<>>
      <3>1. pc'[h] \in {"latest", "window"} /\ todo'[h] = rest
        BY <1>0, <1>6, <2>5 DEF CheckAuthor, TypeOK, FetchPc
      <3>2. Mine(h)'
        BY <1>0, <2>1, <2>3, <3>1 DEF Mine, Stored, Authored
      <3> QED BY <1>1, <1>2, <3>2
    <2> QED BY <2>4, <2>5
  <1> QED BY <1>5, <1>6 DEF ReadOld, CheckAuthor

LEMMA UpdateWords ==
    ASSUME TInv, QInv, CInv, Calm, UNCHANGED plan, NEW i \in Present,
           NEW t \in Texts \cup {None}, NEW b \in BOOLEAN,
           t # None => WriterOf[t] = rows[i].from,
           rows' = [rows EXCEPT ![i] = [from |-> Existing(i).from, text |-> t, unread |-> b]]
    PROVE  WordsAreAuthors' /\ Present' = Present /\ \A j \in Present : rows'[j].from = rows[j].from
  <1>1. /\ Present' = Present
        /\ \A j \in Present : rows'[j].from = rows[j].from
        /\ rows'[i].text = t
        /\ \A j \in Present \ {i} : rows'[j] = rows[j]
    BY UpdateKeeps, CalmIsQuiet DEF QInv, TInv
  <1>2. \A j \in Present : rows[j].text # None => WriterOf[rows[j].text] = rows[j].from
    BY DEF CInv, WordsAreAuthors
  <1>3. ASSUME NEW j \in Present, rows'[j].text # None
        PROVE  WriterOf[rows'[j].text] = rows'[j].from
    BY <1>1, <1>2, <1>3
  <1> QED BY <1>1, <1>3 DEF WordsAreAuthors

LEMMA WriteMine ==
    ASSUME TInv, Exclusive, QInv, CInv, Calm, NEW h \in Handlers,
           Update(h) \/ MarkOne(h) \/ EraseOne(h) \/ Clear(h)
    PROVE  WordsAreAuthors' /\ \A g \in Handlers : Mine(g)'
  <1>0. TypeOK /\ QuietTable /\ Quiet /\ Working(h) /\ req[h] \in Requests /\ UNCHANGED <<plan, isGroup>>
    BY CalmIsQuiet
       DEF TInv, QInv, Shape, Asked, Working, Update, MarkOne, EraseOne, Clear, Round, At, Done, Finish
  <1>1. CASE Update(h)
    <2> DEFINE i == Head(req[h].ids)
    <2>1. /\ req[h].op = "edit" /\ old[h] \in Row /\ i \in Present
          /\ Authored(i, h) /\ old[h].text \in OwnWords(h)
          /\ req[h].text # None => WriterOf[req[h].text] = UserOf[h]
      BY <1>0, <1>1
         DEF Update, At, TInv, TypeOK, Shape, OpFitsPc, Asked, QInv, Named, CInv, Mine
    <2>2. /\ NewText(h) \in Texts \cup {None} /\ NewUnread(h) \in BOOLEAN
          /\ NewText(h) # None => WriterOf[NewText(h)] = rows[i].from
      BY <1>0, <2>1, RequestFields, RowFields DEF NewText, NewUnread, OwnWords, Authored
    <2>3. /\ WordsAreAuthors' /\ Present' = Present
          /\ \A j \in Present : rows'[j].from = rows[j].from
      BY <1>0, <1>1, <2>1, <2>2, UpdateWords DEF Update
    <2> QED BY <1>0, <1>1, <2>3, DoneEnds, FinishMine DEF Update
  <1>2. CASE MarkOne(h)
    <2> DEFINE i == Head(todo[h])
    <2>1. /\ pc[h] = "mark" /\ todo[h] \in Seq(Ids) /\ todo[h] # <<>>
          /\ \A k \in 1..Len(todo[h]) : todo[h][k] \in Present
      BY <1>2, <1>0 DEF MarkOne, Round, At, TInv, TypeOK, Shape, LoopHasWork, QInv, Named
    <2>2. i \in Present
      BY <2>1, TailOfIds
    <2>3. /\ Existing(i).text \in Texts \cup {None}
          /\ Existing(i).text # None => WriterOf[Existing(i).text] = rows[i].from
      BY <1>0, <2>2, ExistingIsRow, RowFields DEF Present, Existing, CInv, WordsAreAuthors
    <2>4. rows' = [rows EXCEPT ![i] =
              [from |-> Existing(i).from, text |-> Existing(i).text, unread |-> FALSE]]
      BY <1>2 DEF MarkOne, Round, Read
    <2>5. /\ WordsAreAuthors' /\ Present' = Present
          /\ \A j \in Present : rows'[j].from = rows[j].from
      BY <1>0, <2>2, <2>3, <2>4, UpdateWords
    <2>6. CASE Done(h)
      BY <1>0, <2>5, <2>6, DoneEnds, FinishMine
    <2>7. CASE todo' = [todo EXCEPT ![h] = Tail(todo[h])] /\ UNCHANGED <<pc, req, slot, start, old>>
      <3>1. Own(h) /\ pc'[h] = "mark"
        BY <1>0, <2>1, <2>7 DEF Own, TypeOK
      <3>2. Mine(h)'
        BY <3>1 DEF Mine, Stored
      <3> QED BY <1>0, <2>5, <3>1, <3>2, CalmOthers, OthersIdle
    <2> QED BY <1>2, <2>6, <2>7 DEF MarkOne, Round
  <1>3. CASE EraseOne(h) \/ Clear(h)
    <2>1. req[h].op \in {"delete", "clear"}
      BY <1>3 DEF EraseOne, Clear, Round, At, TInv, Shape, OpFitsPc
    <2>2. \A g \in Handlers \ {h} : pc[g] = "idle"
      BY <1>0, <2>1, EraserAlone
    <2>3. \A g \in Handlers \ {h} : Mine(g)'
      <3>1. \A g \in Handlers \ {h} : pc'[g] = pc[g]
        BY <1>0, <1>3 DEF EraseOne, Clear, Round, Done, Finish, TypeOK
      <3> QED BY <2>2, <3>1, IdleMine
    <2>4. \A i \in Ids : rows'[i] = None \/ rows'[i] = rows[i]
      BY <1>0, <1>3 DEF EraseOne, Clear, Round, TypeOK
    <2>5. WordsAreAuthors'
      BY <1>0, <2>4 DEF WordsAreAuthors, CInv, Calm, NoErasers, Present
    <2>6. Mine(h)'
      <3>1. CASE pc'[h] = "idle"
        BY <3>1, IdleMine
      <3>2. CASE pc[h] = "erase" /\ pc'[h] = "erase" /\ todo'[h] = Tail(todo[h])
        <4>1. /\ todo[h] \in Seq(Ids) /\ todo[h] # <<>>
              /\ isGroup => \A k \in 1..Len(todo[h]) :
                     todo[h][k] \in Present => Authored(todo[h][k], h)
          BY <1>0, <3>2 DEF TypeOK, TInv, Shape, LoopHasWork, CInv, Mine
        <4>2. isGroup => \A k \in 1..Len(todo'[h]) :
                  todo'[h][k] \in Present' => rows'[todo'[h][k]].from = UserOf[h]
          <5> SUFFICES ASSUME isGroup, NEW k \in 1..Len(todo'[h]), todo'[h][k] \in Present'
                       PROVE  rows'[todo'[h][k]].from = UserOf[h]
            OBVIOUS
          <5>1. /\ Len(todo[h]) \in Nat \ {0} /\ Len(todo'[h]) = Len(todo[h]) - 1
                /\ todo'[h][k] = todo[h][k + 1]
            BY <3>2, <4>1, TailOfIds
          <5>2. k + 1 \in 1..Len(todo[h])
            BY <5>1
          <5>3. todo'[h][k] \in Present /\ rows'[todo'[h][k]] = rows[todo'[h][k]]
            BY <2>4 DEF Present
          <5>4. Authored(todo'[h][k], h)
            BY <4>1, <5>1, <5>2, <5>3
          <5> QED BY <5>3, <5>4 DEF Authored
        <4> QED BY <1>0, <3>2, <4>2 DEF Mine, Stored, Authored
      <3> QED BY <1>0, <1>3, <3>1, <3>2
              DEF EraseOne, Clear, Round, Done, Finish, At, TypeOK
    <2> QED BY <2>3, <2>5, <2>6
  <1> QED BY <1>1, <1>2, <1>3

LEMMA CalmInit == Init => CInv
  BY DEF Init, CInv, WordsAreAuthors, Mine, Stored, Present

LEMMA CalmStep == TInv /\ Exclusive /\ QInv /\ CInv /\ [Next]_vars => CInv'
  <1> SUFFICES ASSUME TInv, Exclusive, QInv, CInv, [Next]_vars, Calm'
               PROVE  WordsAreAuthors' /\ \A g \in Handlers : Mine(g)'
    BY DEF CInv
  <1>0. plan' = plan /\ Calm
    <2>1. plan' = plan
      BY OnlyAskStarts DEF Ask
    <2> QED BY <2>1 DEF Calm, NoErasers
  <1>1. ASSUME NEW h \in Handlers,
               FetchError(h) \/ Confirm(h) \/ Deliver(h) \/ NotAuthor(h) \/ QueryFails(h)
        PROVE  WordsAreAuthors' /\ \A g \in Handlers : Mine(g)'
    <2>1. PICK a : Finish(h, a)
      BY <1>1 DEF FetchError, Confirm, Deliver, NotAuthor, QueryFails
    <2>2. Working(h) /\ UNCHANGED rows
      BY <1>1 DEF FetchError, Confirm, Deliver, NotAuthor, QueryFails, Reads, At, Working
    <2>3. Present' = Present /\ WordsAreAuthors'
      BY <1>0, <2>2 DEF Present, WordsAreAuthors, CInv, Calm, NoErasers
    <2> QED BY <1>0, <2>1, <2>2, <2>3, FinishMine
  <1>2. ASSUME NEW h \in Handlers, Panic(h) PROVE FALSE
    BY <1>0, <1>2, QuietWindow, CalmIsQuiet DEF Panic
  <1>3. CASE Restart
    BY <1>0, <1>3, IdleMine DEF Restart, WordsAreAuthors, CInv, Calm, NoErasers, Present
  <1>4. CASE UNCHANGED vars
    <2>1. \A g \in Handlers : Mine(g)'
      BY <1>0, <1>4 DEF vars, handlerVars, CInv, Mine, Stored, Free, Authored, OwnWords, IsLatest, Present
    <2> QED BY <1>0, <1>4, <2>1 DEF vars, CInv, WordsAreAuthors, Calm, NoErasers, Present
  <1> QED
    BY <1>0, <1>1, <1>2, <1>3, <1>4, AskMine, SendMine, ReadMine, WriteMine DEF Next

LEMMA CalmInvariant == Spec => [](TInv /\ Exclusive /\ QInv /\ CInv)
  <1>1. Init => CInv
    BY CalmInit
  <1>2. TInv /\ Exclusive /\ QInv /\ CInv /\ [Next]_vars => CInv'
    BY CalmStep
  <1> QED BY <1>1, <1>2, QuietInvariant, PTL DEF Spec

(* Calm clients see under each author's name only what the author wrote.    *)
THEOREM WordsWhenCalm == Spec => []WordsAreAuthors
  <1>1. CInv => WordsAreAuthors
    BY DEF CInv, WordsAreAuthors
  <1> QED BY <1>1, CalmInvariant, PTL

-----------------------------------------------------------------------------
(* An edit between its read and its write.                                  *)

(* What an edit read still is the mark of the message it will write.        *)
Fresh(h) ==
    pc[h] = "update" /\ AloneOnMarks(h) => old[h].unread = rows[Head(req[h].ids)].unread

UInv == Calm => \A h \in Handlers : Fresh(h)

(* A handler comes to its write with what it just read, and waits there
   while others write.                                                      *)
LEMMA AtUpdate ==
    ASSUME TInv, [Next]_vars, NEW h \in Handlers, pc'[h] = "update"
    PROVE  \/ ReadOld(h)
           \/ /\ pc[h] = "update" /\ req'[h] = req[h] /\ old'[h] = old[h]
              /\ \/ UNCHANGED rows
                 \/ \E g \in Handlers \ {h} :
                        Insert(g) \/ Update(g) \/ MarkOne(g) \/ EraseOne(g) \/ Clear(g)
  <1>1. ASSUME NEW g \in Handlers, Ask(g)
        PROVE  /\ pc[h] = "update" /\ req'[h] = req[h] /\ old'[h] = old[h] /\ UNCHANGED rows
    <2> PICK r \in Requests : req' = [req EXCEPT ![g] = r] /\ pc' = [pc EXCEPT ![g] = FirstPc(r)]
      BY <1>1 DEF Ask
    <2>1. FirstPc(r) # "update"
      BY FirstTyped
    <2> QED BY <1>1, <2>1 DEF Ask, TInv, TypeOK
  <1>2. ASSUME NEW g \in Handlers, NEW a, Finish(g, a)
        PROVE  g # h /\ pc[h] = "update" /\ req'[h] = req[h] /\ old'[h] = old[h]
    BY <1>2 DEF Finish, TInv, TypeOK
  <1>3. ASSUME NEW g \in Handlers,
               FetchError(g) \/ Confirm(g) \/ Deliver(g) \/ NotAuthor(g) \/ QueryFails(g)
        PROVE  /\ pc[h] = "update" /\ req'[h] = req[h] /\ old'[h] = old[h] /\ UNCHANGED rows
    <2>1. UNCHANGED rows /\ \E a : Finish(g, a)
      BY <1>3, Zenon DEF FetchError, Confirm, Deliver, NotAuthor, QueryFails
    <2> QED BY <1>2, <2>1
  <1>4. ASSUME NEW g \in Handlers, Count(g) \/ Latest(g) \/ Panic(g) \/ CheckAuthor(g)
        PROVE  /\ pc[h] = "update" /\ req'[h] = req[h] /\ old'[h] = old[h] /\ UNCHANGED rows
    BY <1>4 DEF Count, Latest, Panic, CheckAuthor, Reads, At, handlerVars, FetchPc, TInv, TypeOK
  <1>5. ASSUME NEW g \in Handlers, ReadOld(g)
        PROVE  \/ g = h
               \/ /\ pc[h] = "update" /\ req'[h] = req[h] /\ old'[h] = old[h] /\ UNCHANGED rows
    BY <1>5 DEF ReadOld, TInv, TypeOK
  <1>6. ASSUME NEW g \in Handlers, Insert(g)
        PROVE  g # h /\ pc[h] = "update" /\ req'[h] = req[h] /\ old'[h] = old[h]
    BY <1>6 DEF Insert, TInv, TypeOK
  <1>7. ASSUME NEW g \in Handlers, Update(g) \/ MarkOne(g) \/ EraseOne(g) \/ Clear(g)
        PROVE  g # h /\ pc[h] = "update" /\ req'[h] = req[h] /\ old'[h] = old[h]
    <2>1. CASE \E a : Finish(g, a)
      BY <1>2, <2>1
    <2>2. CASE pc[g] \in {"mark", "erase"} /\ UNCHANGED <<pc, req, old>>
      BY <2>2
    <2> QED BY <1>7, <2>1, <2>2, DoneEnds, Zenon DEF Update, MarkOne, EraseOne, Clear, Round, At
  <1>8. ~Restart
    BY DEF Restart
  <1>9. CASE UNCHANGED vars
    BY <1>9 DEF vars, handlerVars
  <1> QED BY <1>1, <1>3, <1>4, <1>5, <1>6, <1>7, <1>8, <1>9 DEF Next

LEMMA FreshStep == TInv /\ Exclusive /\ QInv /\ CInv /\ UInv /\ [Next]_vars => UInv'
  <1> SUFFICES ASSUME TInv, Exclusive, QInv, CInv, UInv, [Next]_vars, Calm', NEW h \in Handlers,
                      pc'[h] = "update", AloneOnMarks(h)'
               PROVE  old'[h].unread = rows'[Head(req'[h].ids)].unread
    BY DEF UInv, Fresh
  <1>0. plan' = plan /\ Calm /\ Quiet /\ AloneOnMarks(h)
    <2>1. plan' = plan
      BY OnlyAskStarts DEF Ask
    <2> QED BY <2>1, CalmIsQuiet DEF Calm, NoErasers, AloneOnMarks
  <1>1. CASE ReadOld(h)
    <2>1. At(h, "window") /\ req[h].op = "edit" /\ Working(h)
      BY <1>1 DEF ReadOld, Reads, At, Working
    <2>2. Window(h) = {start[h]} /\ start[h] = Head(req[h].ids)
      BY <1>0, <2>1, QuietWindow DEF At, QInv, Named
    <2>3. old' = [old EXCEPT ![h] = rows[start[h]]] /\ UNCHANGED <<rows, req>>
      BY <1>1, <2>2 DEF ReadOld
    <2> QED BY <2>2, <2>3 DEF TInv, TypeOK
  <1>2. ASSUME pc[h] = "update", req'[h] = req[h], old'[h] = old[h],
               \/ UNCHANGED rows
               \/ \E g \in Handlers \ {h} :
                      Insert(g) \/ Update(g) \/ MarkOne(g) \/ EraseOne(g) \/ Clear(g)
        PROVE  old'[h].unread = rows'[Head(req'[h].ids)].unread
    <2> DEFINE i == Head(req[h].ids)
    <2>1. Working(h) /\ i \in Present /\ i \in Ids /\ old[h].unread = rows[i].unread
      BY <1>0, <1>2
         DEF QInv, Named, Working, TInv, Shape, OpFitsPc, UInv, Fresh, Present
    <2> SUFFICES ASSUME NEW g \in Handlers \ {h},
                        Insert(g) \/ Update(g) \/ MarkOne(g) \/ EraseOne(g) \/ Clear(g)
                 PROVE  rows'[i] = rows[i]
      BY <1>2, <2>1
    <2>2. CASE Insert(g)
      <3>1. slot[g] \notin Present
        BY <1>0, <2>2 DEF Insert, At, CInv, Mine, Free
      <3> QED BY <1>0, <2>1, <2>2, <3>1, InsertKeeps DEF QInv
    <2>3. CASE Update(g) \/ MarkOne(g)
      <3>1. req[g].op \in {"edit", "mark"} /\ req[g].op \in plan.asks[g]
        BY <2>3 DEF Update, MarkOne, Round, At, TInv, Shape, OpFitsPc, Asked, Working
      <3> QED BY <1>0, <3>1 DEF AloneOnMarks
    <2>4. CASE EraseOne(g) \/ Clear(g)
      <3>1. Working(g) /\ req[g].op \in {"delete", "clear"}
        BY <2>4 DEF EraseOne, Clear, Round, At, TInv, Shape, OpFitsPc, Working
      <3>2. pc[h] = "idle"
        BY <1>0, <3>1, EraserAlone
      <3> QED BY <1>2, <3>2
    <2> QED BY <2>2, <2>3, <2>4
  <1> QED BY <1>1, <1>2, AtUpdate

(* An edit that leaves is_unread out writes the mark it finds, although what
   it writes is what it read a query before: no mark_as_read gets lost by it,
   as long as clients are calm and nobody else edits or marks.              *)
THEOREM EditsKeepMarks == Spec => EditKeepsUnread
  <1> DEFINE Keeps == \A h \in Handlers :
                          Calm /\ AloneOnMarks(h) /\ At(h, "update") /\ pc'[h] = "idle"
                          /\ answer'[h].kind = "ok" /\ req[h].flag = "kept" =>
                              LET i == Head(req[h].ids) IN rows'[i].unread = rows[i].unread
  <1>1. TInv /\ QInv /\ UInv /\ [Next]_vars => Keeps
    <2> SUFFICES ASSUME TInv, QInv, UInv, [Next]_vars, NEW h \in Handlers, Calm, AloneOnMarks(h),
                        At(h, "update"), pc'[h] = "idle", answer'[h].kind = "ok",
                        req[h].flag = "kept"
                 PROVE  rows'[Head(req[h].ids)].unread = rows[Head(req[h].ids)].unread
      OBVIOUS
    <2> DEFINE i == Head(req[h].ids)
    <2>1. Update(h)
      <3>1. ASSUME NEW g \in Handlers, NEW a, Finish(g, a) PROVE g = h
        BY <3>1 DEF At, Finish, TInv, TypeOK
      <3>2. ASSUME NEW g \in Handlers,
                   \/ FetchError(g) \/ Confirm(g) \/ Deliver(g) \/ NotAuthor(g) \/ QueryFails(g)
                   \/ Clear(g)
            PROVE  FALSE
        <4>1. CASE QueryFails(g)
          BY <3>1, <4>1 DEF QueryFails, Finish, Refusal, TInv, TypeOK
        <4>2. CASE ~QueryFails(g)
          <5>1. pc[g] # "update" /\ \E a : Finish(g, a)
            BY <3>2, <4>2, DoneEnds, Zenon DEF FetchError, Confirm, Deliver, NotAuthor, Clear, Reads, At
          <5> QED BY <3>1, <5>1 DEF At
        <4> QED BY <4>1, <4>2
      <3>3. ASSUME NEW g \in Handlers, MarkOne(g) \/ EraseOne(g) PROVE FALSE
        <4>1. pc[g] # "update" /\ (pc' = pc \/ \E a : Finish(g, a))
          BY <3>3, DoneEnds, Zenon DEF MarkOne, EraseOne, Round, At
        <4> QED BY <3>1, <4>1 DEF At
      <3>4. ASSUME NEW g \in Handlers, Update(g) PROVE g = h
        <4>1. \E a : Finish(g, a)
          BY <3>4, DoneEnds, Zenon DEF Update
        <4> QED BY <3>1, <4>1
      <3>5. ASSUME NEW g \in Handlers, Ask(g) PROVE FALSE
        <4> PICK p : pc' = [pc EXCEPT ![g] = p]
          BY <3>5 DEF Ask
        <4> QED BY <3>5 DEF Ask, At, TInv, TypeOK
      <3>6. ASSUME NEW g \in Handlers,
                   \/ Count(g) \/ Insert(g) \/ Latest(g) \/ Panic(g) \/ ReadOld(g) \/ CheckAuthor(g)
            PROVE  FALSE
        BY <3>6 DEF Count, Insert, Latest, Panic, ReadOld, CheckAuthor, Reads, At, handlerVars,
                    TInv, TypeOK
      <3>7. ~Restart
        BY DEF Restart, Silent, TInv, TypeOK
      <3>8. ~UNCHANGED vars
        BY DEF vars, handlerVars, At
      <3> QED BY <3>2, <3>3, <3>4, <3>5, <3>6, <3>7, <3>8 DEF Next
    <2>2. i \in Present /\ i \in Ids /\ old[h].unread = rows[i].unread
      BY CalmIsQuiet DEF At, QInv, Named, Working, TInv, Shape, OpFitsPc, UInv, Fresh, Present
    <2>3. rows' = [rows EXCEPT ![i] =
                       [from |-> Existing(i).from, text |-> NewText(h), unread |-> old[h].unread]]
      BY <2>1 DEF Update, NewUnread
    <2> QED BY <2>2, <2>3 DEF TInv, TypeOK
  <1>2. Init => UInv
    BY DEF Init, UInv, Fresh
  <1>3. Spec => [](TInv /\ QInv /\ UInv)
    BY <1>2, FreshStep, CalmInvariant, PTL DEF Spec
  <1> QED BY <1>1, <1>3, PTL DEF Spec, EditKeepsUnread

-----------------------------------------------------------------------------
(* Calm clients have the log that ChatLog describes.                        *)

CalmState == TInv /\ Exclusive /\ QInv /\ CInv /\ Calm /\ ~plan.failing

LogRows == [i \in Ids |-> Logged(i)]
LogMine == [h \in Handlers |-> Pending(h)]

LEMMA LogOfRows ==
    ASSUME CalmState
    PROVE  /\ Log!Ids = Ids
           /\ Log!Present = Present
           /\ \A i \in Present : LogRows[i] = [from |-> rows[i].from, text |-> rows[i].text]
           /\ \A i \in Present : LogRows[i].from = rows[i].from
           /\ \A i \in Ids \ Present : LogRows[i] = None
  <1>1. Log!Ids = Ids
    BY DEF Log!Ids, Ids
  <1>2. ASSUME NEW i \in Present
        PROVE  LogRows[i] = [from |-> rows[i].from, text |-> rows[i].text] /\ LogRows[i] # None
    <2>1. i \in Ids /\ rows[i] # None /\ rows[i] \in Row /\ rows[i].from # None
      BY <1>2, CalmIsQuiet DEF CalmState, QInv, QuietTable, Partial, Present, TInv, TypeOK
    <2>2. [from |-> rows[i].from, text |-> rows[i].text] \in Entry
      BY <2>1, RowFields DEF Entry
    <2>3. LogRows[i] = [from |-> rows[i].from, text |-> rows[i].text]
      BY <2>1 DEF LogRows, Logged
    <2> QED BY <2>2, <2>3, MessagesAssumption
  <1>3. \A i \in Ids \ Present : LogRows[i] = None
    BY DEF LogRows, Logged, Present
  <1>4. Log!Present = {i \in Ids : LogRows[i] # None}
    BY <1>1 DEF Log!Present, LogRows
  <1>5. ASSUME NEW i \in Present PROVE LogRows[i].from = rows[i].from
    <2>1. LogRows[i] = [from |-> rows[i].from, text |-> rows[i].text]
      BY <1>2
    <2> HIDE DEF LogRows
    <2> QED BY <2>1
  <1> QED BY <1>1, <1>2, <1>3, <1>4, <1>5 DEF Present

LEMMA SameRows == ASSUME rows' = rows PROVE LogRows' = LogRows
  BY DEF LogRows, Logged

LEMMA SameMine ==
    ASSUME NEW h \in Handlers, Own(h), Pending(h)' = Pending(h)
    PROVE  LogMine' = LogMine
  BY DEF LogMine, Own, Pending, Stored

LEMMA OneMine ==
    ASSUME NEW h \in Handlers, Own(h)
    PROVE  LogMine' = [LogMine EXCEPT ![h] = Pending(h)']
  BY DEF LogMine, Own, Pending, Stored

LEMMA FinishOwn ==
    ASSUME TInv, NEW h \in Handlers, NEW a, Finish(h, a)
    PROVE  /\ Own(h) /\ Pending(h)' = None /\ UNCHANGED isGroup
           /\ answer' = [answer EXCEPT ![h] = a]
  BY DEF Finish, Own, Pending, Stored, TInv, TypeOK

LogStep == Log!Next \/ UNCHANGED Log!vars

LEMMA StutterLog ==
    ASSUME UNCHANGED <<isGroup, answer>>, LogRows' = LogRows, LogMine' = LogMine
    PROVE  LogStep
  BY DEF LogStep, Log!vars, LogRows, LogMine

LEMMA AskLog ==
    ASSUME CalmState, NEW h \in Handlers, Ask(h)
    PROVE  LogStep
  <1>1. Own(h) /\ LogRows' = LogRows
    BY SameRows DEF CalmState, Ask, Own, TInv, TypeOK
  <1>2. Pending(h) = None /\ Pending(h)' = None
    BY DEF CalmState, Ask, Pending, Stored, TInv, TypeOK, FirstPc
  <1>3. LogMine' = LogMine
    BY <1>1, <1>2, SameMine
  <1>4. Log!Ask(h)
    BY <1>1, <1>3 DEF Ask, Log!Ask, Log!Answer, Log!Silent, Silent, LogRows, LogMine
  <1> QED BY <1>4 DEF LogStep, Log!Next

LEMMA SendLog ==
    ASSUME CalmState, NEW h \in Handlers, Count(h) \/ Insert(h) \/ Latest(h)
    PROVE  LogStep
  <1>1. Own(h) /\ UNCHANGED <<isGroup, answer>>
    BY DEF CalmState, Count, Insert, Latest, Own, TInv, TypeOK
  <1>2. CASE Count(h) \/ Latest(h)
    <2>1. rows' = rows
      BY <1>2 DEF Count, Latest
    <2>2. Pending(h)' = Pending(h)
      BY <1>2 DEF CalmState, Count, Latest, At, Pending, Stored, TInv, TypeOK
    <2> QED BY <1>1, <2>1, <2>2, SameRows, SameMine, StutterLog
  <1>3. CASE Insert(h)
    <2> DEFINE t == req[h].text
    <2>0. PICK i \in Ids : i = slot[h]
      BY <1>3 DEF CalmState, Insert, TInv, TypeOK
    <2>1. /\ Present' = Present \cup {i}
          /\ rows'[i] = [from |-> UserOf[h], text |-> t, unread |-> TRUE]
          /\ \A j \in Ids \ {i} : rows'[j] = rows[j]
      BY <1>3, <2>0, InsertKeeps, CalmIsQuiet DEF CalmState, QInv
    <2>2. /\ Free(i) /\ i >= 0
          /\ req[h] \in Requests /\ req[h].op = "send"
          /\ t # None => WriterOf[t] = UserOf[h]
      BY <1>3, <2>0
         DEF CalmState, Insert, At, CInv, Mine, TInv, Shape, OpFitsPc, LoopHasWork, Asked, Working
    <2>3. t \in Log!Words(h)
      BY <2>2, RequestFields DEF Log!Words
    <2>4. Log!IsNext(i)
      BY <2>1, <2>2, LogOfRows DEF Log!IsNext, Free
    <2>5. LogRows' = [LogRows EXCEPT ![i] = [from |-> UserOf[h], text |-> t]]
      <3>1. Logged(i)' = [from |-> UserOf[h], text |-> t]
        <4>0. rows'[i].from = UserOf[h] /\ rows'[i].text = t
          BY <2>1
        <4>1. rows'[i] # None
          BY <2>0, <2>1 DEF Present
        <4> QED BY <4>0, <4>1 DEF Logged
      <3>2. \A j \in Ids \ {i} : Logged(j)' = Logged(j)
        BY <2>1 DEF Logged
      <3> QED BY <2>1, <3>1, <3>2 DEF LogRows
    <2>6. LogMine' = [LogMine EXCEPT ![h] = i] /\ LogMine[h] = None
      <3>1. Pending(h)' = i /\ Pending(h) = None
        BY <1>3, <2>0, <2>2 DEF CalmState, Insert, At, Pending, Stored, TInv, TypeOK
      <3> QED BY <1>1, <3>1, OneMine DEF LogMine
    <2>7. Log!Post(h)
      BY <1>1, <2>3, <2>4, <2>5, <2>6, LogOfRows DEF Log!Post, LogRows, LogMine
    <2> QED BY <2>7 DEF LogStep, Log!Next
  <1> QED BY <1>2, <1>3

(* While no query fails a request that writes ends well.                    *)
LEMMA DoneWell ==
    ASSUME CalmState, NEW h \in Handlers, Done(h)
    PROVE  Finish(h, Fine({}))
  BY DEF CalmState, Done

LEMMA ReadLog ==
    ASSUME CalmState, NEW h \in Handlers,
           FetchError(h) \/ Confirm(h) \/ Deliver(h) \/ NotAuthor(h) \/ ReadOld(h) \/ CheckAuthor(h)
    PROVE  LogStep
  <1>0. TInv /\ At(h, "window") /\ LogRows' = LogRows
    BY SameRows
       DEF CalmState, FetchError, Confirm, Deliver, NotAuthor, ReadOld, CheckAuthor, Reads
  <1>1. CASE FetchError(h)
    BY <1>1, WindowIsIds, CalmIsQuiet DEF FetchError, CalmState, QInv, QuietTable
  <1>2. CASE Confirm(h)
    <2>1. req[h].op = "send" /\ Stored(h)
      BY <1>0, <1>2 DEF Confirm, Reads, Stored, At
    <2>2. Window(h) = {slot[h]} /\ slot[h] \in Present /\ Authored(slot[h], h)
      BY <1>0, <2>1, QuietWindow, CalmIsQuiet DEF CalmState, CInv, Mine, At
    <2>3. Finish(h, Fine({slot[h]}))
      BY <1>2, <2>2 DEF Confirm
    <2>4. LogMine' = [LogMine EXCEPT ![h] = None] /\ LogMine[h] = slot[h]
      BY <1>0, <2>1, <2>3, FinishOwn, OneMine DEF LogMine, Pending
    <2>5. LogMine[h] \in Log!Present /\ LogRows[LogMine[h]].from = UserOf[h]
      BY <2>2, <2>4, LogOfRows DEF Authored
    <2>6. Log!Confirm(h)
      BY <1>0, <2>3, <2>4, <2>5, FinishOwn
         DEF Log!Confirm, Log!Answer, Log!Fine, Fine, LogRows, LogMine
    <2> QED BY <2>6 DEF LogStep, Log!Next
  <1>3. CASE Deliver(h)
    <2>1. Finish(h, Fine(Window(h))) /\ ~Stored(h)
      BY <1>3 DEF Deliver, Reads, Stored
    <2>2. LogMine' = LogMine
      BY <1>0, <2>1, FinishOwn, SameMine DEF Pending
    <2>3. Window(h) \in SUBSET Log!Present
      BY WindowIsIds, LogOfRows
    <2>4. Log!NoGap(Window(h))
      <3> SUFFICES ASSUME NEW i \in Window(h), NEW k \in Window(h), NEW j \in Present,
                          i <= j, j <= k
                   PROVE  j \in Window(h)
        BY LogOfRows DEF Log!NoGap
      <3> DEFINE r == ValidRange(start[h], End(h))
      <3>0. r[1] \in Int /\ r[2] \in Int
        <4>1. start[h] \in Int /\ End(h) \in Int
          BY <1>0, <1>3, RequestFields
             DEF TInv, TypeOK, End, Deliver, Reads, At, Shape, Asked, Working
        <4> QED BY <4>1 DEF ValidRange, Clamp
      <3>1. i \in Int /\ j \in Int /\ k \in Int /\ InRange(i, r) /\ InRange(k, r)
        BY IdsAreIntegers DEF Window, Present
      <3> HIDE DEF r
      <3>2. InRange(j, r)
        BY <3>0, <3>1 DEF InRange
      <3> QED BY <3>2 DEF Window, r
    <2>5. Log!Look(h)
      BY <1>0, <2>1, <2>2, <2>3, <2>4, FinishOwn
         DEF Log!Look, Log!Answer, Log!Fine, Fine, LogRows, LogMine
    <2> QED BY <2>5 DEF LogStep, Log!Next
  <1>4. CASE NotAuthor(h)
    <2>1. Finish(h, Refusal) /\ ~Stored(h)
      BY <1>4 DEF NotAuthor, Reads, Stored
    <2>2. LogMine' = LogMine /\ LogMine[h] = None
      BY <1>0, <2>1, FinishOwn, SameMine DEF Pending, LogMine
    <2>3. \E i \in Log!Present : LogRows[i].from # UserOf[h]
      BY <1>4, WindowIsIds, LogOfRows DEF NotAuthor
    <2>4. Log!Refuse(h)
      BY <1>0, <2>1, <2>2, <2>3, FinishOwn
         DEF Log!Refuse, Log!Answer, Log!Refusal, Refusal, LogRows, LogMine
    <2> QED BY <2>4 DEF LogStep, Log!Next
  <1>5. CASE ReadOld(h) \/ CheckAuthor(h)
    <2>1. Own(h) /\ UNCHANGED <<isGroup, answer>>
      BY <1>0, <1>5 DEF ReadOld, CheckAuthor, Own, TInv, TypeOK
    <2>2. Pending(h)' = Pending(h)
      BY <1>0, <1>5 DEF ReadOld, CheckAuthor, Reads, Pending, Stored, TInv, TypeOK
    <2> QED BY <1>0, <2>1, <2>2, SameMine, StutterLog
  <1> QED BY <1>1, <1>2, <1>3, <1>4, <1>5

(* A write to row i alone, seen in the log.                                 *)
LEMMA LogOfOneRow ==
    ASSUME NEW i \in Ids, \A j \in Ids \ {i} : rows'[j] = rows[j]
    PROVE  LogRows' = [LogRows EXCEPT ![i] = LogRows'[i]]
  BY DEF LogRows, Logged

LEMMA WriteLog ==
    ASSUME CalmState, NEW h \in Handlers,
           Update(h) \/ MarkOne(h) \/ EraseOne(h) \/ Clear(h)
    PROVE  LogStep
  <1>0. /\ TInv /\ TypeOK /\ QuietTable /\ QInv /\ Exclusive /\ CInv /\ Calm /\ Quiet
        /\ Working(h) /\ req[h] \in Requests
        /\ Pending(h) = None
    BY CalmIsQuiet
       DEF CalmState, TInv, QInv, Shape, Asked, Working, Pending, Stored,
           Update, MarkOne, EraseOne, Clear, Round, At
  <1>1. ASSUME NEW a, Finish(h, a)
        PROVE  /\ LogMine' = LogMine /\ UNCHANGED isGroup
               /\ answer' = [answer EXCEPT ![h] = a]
    BY <1>0, <1>1, FinishOwn, SameMine
  <1>2. CASE Update(h)
    <2>0. PICK i \in Ids : i = Head(req[h].ids)
      BY <1>0, <1>2, RequestFields DEF Update, At, TInv, Shape, OpFitsPc
    <2>1. /\ req[h].op = "edit" /\ old[h] \in Row /\ i \in Present
          /\ Authored(i, h) /\ old[h].text \in OwnWords(h)
          /\ req[h].text # None => WriterOf[req[h].text] = UserOf[h]
      BY <1>0, <1>2, <2>0
         DEF Update, At, TInv, TypeOK, Shape, OpFitsPc, Asked, QInv, Named, CInv, Mine
    <2>2. PICK t \in Texts \cup {None} : t = NewText(h) /\ (t # None => WriterOf[t] = UserOf[h])
      BY <1>0, <2>1, RequestFields, RowFields DEF NewText, OwnWords
    <2>3. NewUnread(h) \in BOOLEAN
      BY <1>0, <2>1, RequestFields, RowFields DEF NewUnread
    <2>4. /\ Present' = Present
          /\ rows'[i].from = rows[i].from
          /\ rows'[i].text = t
          /\ \A j \in Present \ {i} : rows'[j] = rows[j]
      BY <1>0, <1>2, <2>0, <2>1, <2>2, <2>3, UpdateKeeps DEF Update
    <2>5. \A j \in Ids \ {i} : rows'[j] = rows[j]
      BY <1>0, <1>2, <2>0 DEF Update, TypeOK
    <2>6. LogRows'[i] = [from |-> UserOf[h], text |-> t]
      BY <2>1, <2>4 DEF LogRows, Logged, Authored, Present
    <2>7. LogRows' = [LogRows EXCEPT ![i] = [from |-> UserOf[h], text |-> t]]
      BY <2>5, <2>6, LogOfOneRow
    <2>8. /\ i \in Log!Present /\ t \in Log!Words(h) /\ LogRows[i].from = UserOf[h]
      BY <2>1, <2>2, LogOfRows DEF Log!Words, Authored
    <2>9. Log!Amend(h)
      BY <1>1, <1>2, <2>7, <2>8, DoneWell
         DEF Update, Log!Amend, Log!Answer, Log!Fine, Fine, LogRows, LogMine
    <2> QED BY <2>9 DEF LogStep, Log!Next
  <1>3. ASSUME NEW p, NEW new, Round(h, p, new)
        PROVE  /\ LogMine' = LogMine /\ UNCHANGED isGroup
               /\ \/ answer' = answer
                  \/ answer' = [answer EXCEPT ![h] = Fine({})]
    <2>1. CASE Done(h)
      BY <1>1, <2>1, DoneWell
    <2>2. CASE UNCHANGED <<isGroup, pc, req, slot, answer>>
      BY <2>2 DEF LogMine, Pending, Stored
    <2> QED BY <1>3, <2>1, <2>2 DEF Round
  <1>4. CASE MarkOne(h)
    <2>0. PICK i \in Ids : i = Head(todo[h])
      BY <1>0, <1>4, TailOfIds DEF MarkOne, Round, At, TypeOK, TInv, Shape, LoopHasWork
    <2>1. i \in Present
      <3>1. todo[h] \in Seq(Ids) /\ todo[h] # <<>> /\ pc[h] = "mark"
        BY <1>0, <1>4 DEF MarkOne, Round, At, TypeOK, TInv, Shape, LoopHasWork
      <3>2. 1 \in 1..Len(todo[h]) /\ i = todo[h][1]
        BY <2>0, <3>1, TailOfIds
      <3> QED BY <1>0, <3>1, <3>2 DEF QInv, Named
    <2>2. Existing(i).text = rows[i].text /\ rows[i].text \in Texts \cup {None}
      BY <1>0, <2>1, RowFields DEF Existing, Present, TypeOK
    <2>3. /\ Present' = Present
          /\ rows'[i].from = rows[i].from
          /\ rows'[i].text = rows[i].text
          /\ \A j \in Ids \ {i} : rows'[j] = rows[j]
      <3>1. rows' = [rows EXCEPT ![i] =
                [from |-> Existing(i).from, text |-> rows[i].text, unread |-> FALSE]]
        BY <1>4, <2>0, <2>2 DEF MarkOne, Round, Read
      <3>2. \A j \in Ids \ {i} : rows'[j] = rows[j]
        BY <1>0, <3>1 DEF TypeOK
      <3> QED BY <1>0, <2>1, <2>2, <3>1, <3>2, UpdateKeeps
    <2>4. LogRows' = LogRows
      <3>1. LogRows'[i] = LogRows[i]
        BY <2>1, <2>3 DEF LogRows, Logged, Present
      <3>2. \A j \in Ids \ {i} : Logged(j)' = Logged(j)
        BY <2>3 DEF Logged
      <3> QED BY <3>1, <3>2 DEF LogRows
    <2>5. LogMine' = LogMine /\ UNCHANGED isGroup
      BY <1>3, <1>4 DEF MarkOne
    <2>6. CASE answer' = answer
      BY <2>4, <2>5, <2>6, StutterLog
    <2>7. CASE answer' = [answer EXCEPT ![h] = Fine({})]
      <3>1. Log!See(h)
        BY <2>4, <2>5, <2>7 DEF Log!See, Log!Answer, Log!Fine, Fine, LogRows, LogMine
      <3> QED BY <3>1 DEF LogStep, Log!Next
    <2> QED BY <1>3, <1>4, <2>6, <2>7 DEF MarkOne
  <1>5. CASE EraseOne(h)
    <2>0. PICK i \in Ids : i = Head(todo[h])
      BY <1>0, <1>5, TailOfIds DEF EraseOne, Round, At, TypeOK, TInv, Shape, LoopHasWork
    <2>1. i \in Present /\ isGroup => Authored(i, h)
      <3>1. todo[h] \in Seq(Ids) /\ todo[h] # <<>> /\ pc[h] = "erase"
        BY <1>0, <1>5 DEF EraseOne, Round, At, TypeOK, TInv, Shape, LoopHasWork
      <3>2. 1 \in 1..Len(todo[h]) /\ i = todo[h][1]
        BY <2>0, <3>1, TailOfIds
      <3> QED BY <1>0, <3>1, <3>2 DEF CInv, Mine
    <2>2. rows'[i] = None /\ \A j \in Ids \ {i} : rows'[j] = rows[j]
      BY <1>0, <1>5, <2>0 DEF EraseOne, Round, TypeOK
    <2>3. LogRows' = [LogRows EXCEPT ![i] = None]
      <3>1. LogRows'[i] = None
        BY <2>2 DEF LogRows, Logged
      <3> QED BY <2>2, <3>1, LogOfOneRow
    <2>4. LogRows[i] # None /\ isGroup => LogRows[i].from = UserOf[h]
      BY <1>0, <2>1, LogOfRows DEF Authored
    <2>5. /\ LogMine' = LogMine /\ UNCHANGED isGroup
          /\ answer' = answer \/ answer' = [answer EXCEPT ![h] = Fine({})]
      BY <1>3, <1>5 DEF EraseOne
    <2>6. Log!Erase(h)
      BY <2>3, <2>4, <2>5, LogOfRows DEF Log!Erase, Log!Answer, Log!Fine, Fine, LogRows, LogMine
    <2> QED BY <2>6 DEF LogStep, Log!Next
  <1>6. CASE Clear(h)
    <2>1. LogRows' = [i \in Ids |-> None]
      BY <1>6 DEF Clear, LogRows, Logged
    <2>2. Log!Clear(h)
      BY <1>1, <1>6, <2>1, DoneWell, LogOfRows
         DEF Clear, Log!Clear, Log!Answer, Log!Fine, Fine, LogRows, LogMine
    <2> QED BY <2>2 DEF LogStep, Log!Next
  <1> QED BY <1>2, <1>4, <1>5, <1>6

LEMMA LogInit == Init => Log!Init
  BY DEF Init, Log!Init, Log!Ids, Log!Silent, Ids, Logged, Pending, Stored, Silent

LEMMA CalmLogStep == CalmState /\ [Next]_vars => LogStep
  <1> SUFFICES ASSUME CalmState, [Next]_vars PROVE LogStep
    OBVIOUS
  <1>0. ASSUME NEW h \in Handlers, QueryFails(h) PROVE FALSE
    BY <1>0 DEF QueryFails, CalmState
  <1>1. ASSUME NEW h \in Handlers, Panic(h) PROVE FALSE
    BY <1>1, QuietWindow, CalmIsQuiet DEF Panic, CalmState
  <1>2. CASE Restart
    <2>1. LogRows' = LogRows
      BY <1>2, SameRows DEF Restart
    <2>2. LogMine' = [h \in Handlers |-> None]
      BY <1>2 DEF Restart, LogMine, Pending, Stored
    <2>3. Log!Restart
      BY <1>2, <2>1, <2>2 DEF Restart, Log!Restart, Log!Silent, Silent, LogRows, LogMine
    <2> QED BY <2>3 DEF LogStep, Log!Next
  <1>3. CASE UNCHANGED vars
    BY <1>3, StutterLog DEF vars, handlerVars, LogRows, LogMine, Logged, Pending, Stored
  <1> QED BY <1>0, <1>1, <1>2, <1>3, AskLog, SendLog, ReadLog, WriteLog DEF Next

(* To calm clients the table is the log that ChatLog promises, while no query
   fails.                                                                   *)
THEOREM LogWhenCalm == Spec => LogPromise
  <1>1. Init => (Sound => Log!Init)
    BY LogInit
  <1>2. TInv /\ Exclusive /\ QInv /\ CInv /\ [Next]_vars => [Sound => Log!Next]_(Log!vars)
    BY CalmLogStep DEF CalmState, LogStep, Sound
  <1> QED BY <1>1, <1>2, CalmInvariant, PTL DEF Spec, LogPromise

-----------------------------------------------------------------------------
(* The windows of fetch_messages.                                           *)

(* From the latest message l, the window [-1, -n] selects l and the n ids before
   it, [s, e] the ids from s to e, and [s, 0] the id s alone: validate_range and
   the two queries agree for every start and end.                           *)
THEOREM WindowsSelect ==
    ASSUME NEW i \in Nat
    PROVE  /\ \A l \in Nat, n \in Nat \ {0} : InRange(i, ValidRange(l, -n)) <=> l - n <= i /\ i <= l
           /\ \A s \in Int, e \in Nat \ {0} : InRange(i, ValidRange(s, e)) <=> s <= i /\ i <= e
           /\ \A s \in Nat : InRange(i, ValidRange(s, 0)) <=> i = s
  <1>1. ASSUME NEW l \in Nat, NEW n \in Nat \ {0}
        PROVE  InRange(i, ValidRange(l, -n)) <=> l - n <= i /\ i <= l
    <2>1. ValidRange(l, -n) = <<Clamp(l - n), l>> /\ Clamp(l - n) \in Nat
      BY DEF ValidRange, Clamp
    <2>2. CASE l # 0
      <3>1. InRange(i, ValidRange(l, -n)) <=> Clamp(l - n) <= i /\ i <= l
        BY <2>1, <2>2 DEF InRange
      <3> QED BY <3>1 DEF Clamp
    <2>3. CASE l = 0
      <3>1. Clamp(l - n) = 0
        BY <2>3 DEF Clamp
      <3>2. InRange(i, ValidRange(l, -n)) <=> i = 0
        BY <2>1, <2>3, <3>1 DEF InRange
      <3> QED BY <2>3, <3>2
    <2> QED BY <2>2, <2>3
  <1>2. ASSUME NEW s \in Int, NEW e \in Nat \ {0}
        PROVE  InRange(i, ValidRange(s, e)) <=> s <= i /\ i <= e
    <2>1. ValidRange(s, e) = <<Clamp(s), e>> /\ e # 0
      BY DEF ValidRange
    <2>2. InRange(i, ValidRange(s, e)) <=> Clamp(s) <= i /\ i <= e
      BY <2>1 DEF InRange
    <2> QED BY <2>2 DEF Clamp
  <1>3. ASSUME NEW s \in Nat PROVE InRange(i, ValidRange(s, 0)) <=> i = s
    BY DEF ValidRange, InRange, Clamp
  <1> QED BY <1>1, <1>2, <1>3

(* The values of a signed integer: w is 2^31 for an i32.                     *)
Signed(w) == -w..(w - 1)

(* From a start that is an id, or the latest one, the sum in validate_range and
   the range it returns fit in an i32, however low the end a client names; only
   a start below -1 can overflow.  Nothing depends on the width.             *)
THEOREM WindowsFit ==
    ASSUME NEW w \in Nat \ {0}, NEW s \in Signed(w), s >= 0, NEW e \in Signed(w)
    PROVE  /\ e < 0 => s + e \in Signed(w)
           /\ ValidRange(s, e)[1] \in Signed(w) /\ ValidRange(s, e)[2] \in Signed(w)
  <1>1. s \in Int /\ e \in Int /\ s <= w - 1 /\ -w <= e /\ e <= w - 1
    BY DEF Signed
  <1>2. e < 0 => s + e \in Signed(w)
    BY <1>1 DEF Signed
  <1>3. CASE e < 0
    <2>1. ValidRange(s, e)[1] = Clamp(s + e) /\ ValidRange(s, e)[2] = s
      BY <1>3 DEF ValidRange
    <2>2. Clamp(s + e) \in Signed(w)
      BY <1>1, <1>2, <1>3 DEF Clamp, Signed
    <2> QED BY <1>2, <2>1, <2>2
  <1>4. CASE ~(e < 0)
    <2>1. ValidRange(s, e)[1] = Clamp(s) /\ ValidRange(s, e)[2] = e
      BY <1>4 DEF ValidRange
    <2>2. Clamp(s) = s
      BY <1>1 DEF Clamp
    <2> QED BY <1>4, <2>1, <2>2
  <1> QED BY <1>1, <1>2, <1>3, <1>4
=============================================================================
