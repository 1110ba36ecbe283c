------------------------------ MODULE Messages ------------------------------
(***************************************************************************)
(* The messages of one chat: the rows of ksp.messages with one chat_id,    *)
(* and the handlers that add, edit, mark, delete and fetch them.  One step *)
(* is one query; between two queries of a handler the others run.  The    *)
(* driver reports rows of a SELECT even when it finds none (is_rows), so   *)
(* message_exists refuses nothing and its query is left out.              *)
(*                                                                         *)
(* The chat exists and its members keep it.  Any query may fail.  Reply     *)
(* references, hashes and dates are left out.  A request that panics ends the server: its scope   *)
(* polls all handlers in one task.                                         *)
(***************************************************************************)
EXTENDS Integers, Sequences

CONSTANTS
    Handlers,  \* connections of the members of the chat
    UserOf,    \* the user each is logged in as
    Texts,     \* contents of messages
    WriterOf,  \* the user whose requests carry a text
    Requests,  \* what clients ask for
    Plans,     \* what the clients of one run do: their operations, whose turn it is,
               \* whether queries fail
    MaxId,     \* bound on message ids
    Careful,   \* clients name only messages that are there when they ask
    None

Ops == {"send", "edit", "mark", "delete", "clear", "fetch"}
Naming == {"edit", "mark", "delete"}
Turns == {"none", "sends", "requests"}

(* The id -1 stands for the latest message in a range, and can name a row.  *)
Ids == -1..MaxId
AS_LAST_MESSAGE_IDX == -1

Row == [from: {UserOf[h] : h \in Handlers} \cup {None}, text: Texts \cup {None}, unread: BOOLEAN]

(* A message as the log of the chat has it.                                 *)
Entry == [from: {UserOf[h] : h \in Handlers}, text: Texts \cup {None}]

(* flag: the is_unread of an edit, "kept" when it has none.                 *)
RequestType == [op: Ops, text: Texts \cup {None}, flag: {"kept", "true", "false"},
                ids: Seq(Ids), start: Int, end: Int]

ASSUME MessagesAssumption ==
    /\ MaxId \in Nat
    /\ None \notin Texts
    /\ \A h \in Handlers : UserOf[h] # None
    /\ None \notin Row /\ None \notin Entry /\ None \notin Requests
    /\ Requests \subseteq RequestType
    /\ \A r \in Requests : r.op \in Naming => r.ids # <<>>
    /\ Plans \subseteq [asks: [Handlers -> SUBSET Ops], turns: Turns, failing: BOOLEAN]
    /\ Careful \in BOOLEAN

VARIABLES
    mode,     \* "up" or "panicked"
    isGroup,  \* the chat is a group
    plan,     \* the plan of this run
    rows,     \* the table: a row or None for each id
    pc,       \* the query each handler is about to make
    req,      \* the request it is at
    slot,     \* id of the message it adds
    start,    \* range.start of its fetch_messages
    todo,     \* ids its loop has left
    old,      \* existing_message of an edit
    answer    \* its last response

handlerVars == <<pc, req, slot, start, todo, old, answer>>
vars == <<mode, isGroup, plan, rows, handlerVars>>

Pcs == {"idle", "count", "insert", "latest", "window", "update", "mark", "erase", "clear"}

Silent == [kind |-> "none", ids |-> {}]
Fine(S) == [kind |-> "ok", ids |-> S]
Refusal == [kind |-> "error", ids |-> {}]
Answers == [kind: {"none", "ok", "error"}, ids: SUBSET Ids]

TypeOK ==
    /\ mode \in {"up", "panicked"}
    /\ isGroup \in BOOLEAN
    /\ plan \in Plans
    /\ rows \in [Ids -> Row \cup {None}]
    /\ pc \in [Handlers -> Pcs]
    /\ req \in [Handlers -> Requests \cup {None}]
    /\ slot \in [Handlers -> Ids]
    /\ start \in [Handlers -> Int]
    /\ todo \in [Handlers -> Seq(Ids)]
    /\ old \in [Handlers -> Row \cup {None}]
    /\ answer \in [Handlers -> Answers]

Init ==
    /\ mode = "up"
    /\ isGroup \in BOOLEAN
    /\ plan \in Plans
    /\ rows = [i \in Ids |-> None]
    /\ pc = [h \in Handlers |-> "idle"]
    /\ req = [h \in Handlers |-> None]
    /\ slot = [h \in Handlers |-> -1]
    /\ start = [h \in Handlers |-> 0]
    /\ todo = [h \in Handlers |-> <<>>]
    /\ old = [h \in Handlers |-> None]
    /\ answer = [h \in Handlers |-> Silent]

-----------------------------------------------------------------------------
(* The table.                                                              *)

Present == {i \in Ids : rows[i] # None}
IsLatest(i) == i \in Present /\ \A j \in Present : j <= i

(* UPDATE writes the columns it names and adds the row when it is missing.  *)
Blank == [from |-> None, text |-> None, unread |-> FALSE]
Existing_Slip(i) == Blank

Existing(i) == IF rows[i] = None THEN Blank ELSE rows[i]
Partial(i) == rows[i] # None /\ rows[i].from = None

(* validate_range, and the WHERE of the two queries of fetch_messages.      *)
Clamp(i) == IF i < 0 THEN 0 ELSE i
ValidRange(s, e) == IF e < 0 THEN <<Clamp(s + e), s>> ELSE <<Clamp(s), e>>
InRange(i, r) == IF r[2] # 0 THEN r[1] <= i /\ i <= r[2] ELSE i = r[1]

-----------------------------------------------------------------------------
(* Requests and answers.                                                   *)

Working(h) == pc[h] # "idle"
Sending(h) == Working(h) /\ req[h].op = "send"

(* Clients that take turns wait for each other.                             *)
HasTurn(h, op) ==
    \A g \in Handlers \ {h} :
        /\ plan.turns = "requests" => ~Working(g)
        /\ plan.turns = "sends" /\ op = "send" => ~Sending(g)

FetchPc(s) == IF s = AS_LAST_MESSAGE_IDX THEN "latest" ELSE "window"

FirstRead(r) ==
    CASE r.op = "fetch" -> r.start
      [] r.op \in {"edit", "delete"} -> Head(r.ids)
      [] OTHER -> 0

FirstPc(r) ==
    CASE r.op = "send" -> "count"
      [] r.op = "mark" -> "mark"
      [] r.op = "clear" -> "clear"
      [] r.op = "delete" /\ ~isGroup -> "erase"
      [] OTHER -> FetchPc(FirstRead(r))

Ask(h) ==
    /\ mode = "up"
    /\ pc[h] = "idle"
    /\ \E r \in Requests :
        /\ r.op \in plan.asks[h]
        /\ r.text # None => WriterOf[r.text] = UserOf[h]
        /\ Careful /\ r.op \in Naming => \A k \in DOMAIN r.ids : r.ids[k] \in Present
        /\ HasTurn(h, r.op)
        /\ req' = [req EXCEPT ![h] = r]
        /\ pc' = [pc EXCEPT ![h] = FirstPc(r)]
        /\ start' = [start EXCEPT ![h] = FirstRead(r)]
        /\ todo' = [todo EXCEPT ![h] = r.ids]
    /\ answer' = [answer EXCEPT ![h] = Silent]
    /\ UNCHANGED <<mode, isGroup, plan, rows, slot, old>>

At(h, p) == mode = "up" /\ pc[h] = p

Finish(h, a) ==
    /\ pc' = [pc EXCEPT ![h] = "idle"]
    /\ req' = [req EXCEPT ![h] = None]
    /\ slot' = [slot EXCEPT ![h] = -1]
    /\ start' = [start EXCEPT ![h] = 0]
    /\ todo' = [todo EXCEPT ![h] = <<>>]
    /\ old' = [old EXCEPT ![h] = None]
    /\ answer' = [answer EXCEPT ![h] = a]
    /\ UNCHANGED <<mode, isGroup, plan>>

(* A query fails, and the request with it: what it wrote before stays, a message
   that was stored too.  A write that fails is not made.                    *)
QueryFails(h) ==
    /\ plan.failing /\ mode = "up" /\ Working(h)
    /\ Finish(h, Refusal)
    /\ UNCHANGED rows

(* In a group the members to notify are asked for after the last write.     *)
Done(h) == Finish(h, Fine({})) \/ (plan.failing /\ isGroup /\ Finish(h, Refusal))

-----------------------------------------------------------------------------
(* add_message: the id after the latest, the insert, and fetch_messages for *)
(* the message to answer with.                                             *)

Count(h) ==
    /\ At(h, "count")
    /\ \/ \E i \in Ids : IsLatest(i) /\ i < MaxId /\ slot' = [slot EXCEPT ![h] = i + 1]
       \/ Present = {} /\ slot' = [slot EXCEPT ![h] = 0]
    /\ pc' = [pc EXCEPT ![h] = "insert"]
    /\ UNCHANGED <<mode, isGroup, plan, rows, req, start, todo, old, answer>>

Insert(h) ==
    /\ At(h, "insert")
    /\ rows' = [rows EXCEPT ![slot[h]] =
                    [from |-> UserOf[h], text |-> req[h].text, unread |-> TRUE]]
    /\ start' = [start EXCEPT ![h] = AS_LAST_MESSAGE_IDX]
    /\ pc' = [pc EXCEPT ![h] = "latest"]
    /\ UNCHANGED <<mode, isGroup, plan, req, slot, todo, old, answer>>

-----------------------------------------------------------------------------
(* fetch_messages, and what each caller does with its result.              *)

Latest_Slip(h) ==
    /\ At(h, "latest")
    /\ \/ \E i \in Ids : IsLatest(i) /\ start' = [start EXCEPT ![h] = i + 1]
       \/ Present = {} /\ start' = [start EXCEPT ![h] = 0]
    /\ pc' = [pc EXCEPT ![h] = "window"]
    /\ UNCHANGED <<mode, isGroup, plan, rows, req, slot, todo, old, answer>>

Latest(h) ==
    /\ At(h, "latest")
    /\ \/ \E i \in Ids : IsLatest(i) /\ start' = [start EXCEPT ![h] = i]
       \/ Present = {} /\ start' = [start EXCEPT ![h] = 0]
    /\ pc' = [pc EXCEPT ![h] = "window"]
    /\ UNCHANGED <<mode, isGroup, plan, rows, req, slot, todo, old, answer>>

End(h) == IF req[h].op = "fetch" THEN req[h].end ELSE 0
Window(h) == {i \in Present : InRange(i, ValidRange(start[h], End(h)))}

Reads(h, op) ==
    /\ At(h, "window")
    /\ req[h].op = op
    /\ \A i \in Window(h) : ~Partial(i)

(* A partial row has no from_id and fails the whole query.                  *)
FetchError(h) ==
    /\ At(h, "window")
    /\ \E i \in Window(h) : Partial(i)
    /\ Finish(h, Refusal)
    /\ UNCHANGED rows

(* unwrap, remove(0) and [0] of no rows.                                    *)
Panic(h) ==
    /\ At(h, "window")
    /\ req[h].op # "fetch"
    /\ Window(h) = {}
    /\ mode' = "panicked"
    /\ UNCHANGED <<isGroup, plan, rows, handlerVars>>

Confirm_Slip(h) ==
    /\ Reads(h, "send")
    /\ \E i \in Window(h) : Finish(h, Fine({i + 1}))
    /\ UNCHANGED rows

Confirm(h) ==
    /\ Reads(h, "send")
    /\ \E i \in Window(h) : Finish(h, Fine({i}))
    /\ UNCHANGED rows

Deliver(h) ==
    /\ Reads(h, "fetch")
    /\ Finish(h, Fine(Window(h)))
    /\ UNCHANGED rows

NotAuthor(h) ==
    /\ Reads(h, "edit") \/ Reads(h, "delete")
    /\ \E i \in Window(h) : rows[i].from # UserOf[h]
    /\ Finish(h, Refusal)
    /\ UNCHANGED rows

ReadOld_Slip(h) ==
    /\ Reads(h, "edit")
    /\ \E i \in Window(h) : old' = [old EXCEPT ![h] = rows[i]]
    /\ pc' = [pc EXCEPT ![h] = "update"]
    /\ UNCHANGED <<mode, isGroup, plan, rows, req, slot, start, todo, answer>>

ReadOld(h) ==
    /\ Reads(h, "edit")
    /\ \E i \in Window(h) : rows[i].from = UserOf[h] /\ old' = [old EXCEPT ![h] = rows[i]]
    /\ pc' = [pc EXCEPT ![h] = "update"]
    /\ UNCHANGED <<mode, isGroup, plan, rows, req, slot, start, todo, answer>>

CheckAuthor_Slip(h) ==
    /\ Reads(h, "delete")
    /\ \E i \in Window(h) : rows[i].from = UserOf[h]
    /\ todo' = [todo EXCEPT ![h] = req[h].ids]
    /\ pc' = [pc EXCEPT ![h] = "erase"]
    /\ start' = [start EXCEPT ![h] = 0]
    /\ UNCHANGED <<mode, isGroup, plan, rows, req, slot, old, answer>>

(* The author of each message of the list is checked before the first goes. *)
CheckAuthor(h) ==
    /\ Reads(h, "delete")
    /\ \E i \in Window(h) : rows[i].from = UserOf[h]
    /\ LET rest == Tail(todo[h])
           done == rest = <<>>
       IN  /\ todo' = [todo EXCEPT ![h] = IF done THEN req[h].ids ELSE rest]
           /\ pc' = [pc EXCEPT ![h] = IF done THEN "erase" ELSE FetchPc(Head(rest))]
           /\ start' = [start EXCEPT ![h] = IF done THEN 0 ELSE Head(rest)]
    /\ UNCHANGED <<mode, isGroup, plan, rows, req, slot, old, answer>>

-----------------------------------------------------------------------------
(* edit_message, mark_as_read and the deletes.                             *)

(* get_edited_message: what the request leaves out comes from the row read  *)
(* before, and is_unread is stored negated.                                 *)
NewText(h) == IF req[h].text # None THEN req[h].text ELSE old[h].text
NewUnread_Slip(h) == req[h].flag # "true"
NewUnread(h) == IF req[h].flag = "kept" THEN old[h].unread ELSE req[h].flag = "false"

Update(h) ==
    /\ At(h, "update")
    /\ LET i == Head(req[h].ids) IN
       rows' = [rows EXCEPT ![i] =
                    [from |-> Existing(i).from, text |-> NewText(h), unread |-> NewUnread(h)]]
    /\ Done(h)

(* One round of a loop over the ids of a request: new is the row it leaves. *)
Round(h, p, new) ==
    /\ At(h, p)
    /\ rows' = [rows EXCEPT ![Head(todo[h])] = new]
    /\ \/ Tail(todo[h]) = <<>> /\ Done(h)
       \/ /\ Tail(todo[h]) # <<>>
          /\ todo' = [todo EXCEPT ![h] = Tail(todo[h])]
          /\ UNCHANGED <<mode, isGroup, plan, pc, req, slot, start, old, answer>>

Read(i) == [from |-> Existing(i).from, text |-> Existing(i).text, unread |-> FALSE]

MarkOne(h) == Round(h, "mark", Read(Head(todo[h])))
EraseOne(h) == Round(h, "erase", None)

Clear(h) ==
    /\ At(h, "clear")
    /\ rows' = [i \in Ids |-> None]
    /\ Done(h)

(* The process ends, by a panic or otherwise, and is started again.         *)
Restart ==
    /\ mode = "panicked" \/ \E h \in Handlers : Working(h)
    /\ mode' = "up"
    /\ pc' = [h \in Handlers |-> "idle"]
    /\ req' = [h \in Handlers |-> None]
    /\ slot' = [h \in Handlers |-> -1]
    /\ start' = [h \in Handlers |-> 0]
    /\ todo' = [h \in Handlers |-> <<>>]
    /\ old' = [h \in Handlers |-> None]
    /\ answer' = [h \in Handlers |-> Silent]
    /\ UNCHANGED <<isGroup, plan, rows>>

Next ==
    \/ \E h \in Handlers :
        \/ Ask(h) \/ Count(h) \/ Insert(h) \/ Latest(h)
        \/ FetchError(h) \/ Panic(h) \/ Confirm(h) \/ Deliver(h)
        \/ NotAuthor(h) \/ ReadOld(h) \/ CheckAuthor(h)
        \/ Update(h) \/ MarkOne(h) \/ EraseOne(h) \/ Clear(h)
        \/ QueryFails(h)
    \/ Restart

Spec == Init /\ [][Next]_vars

-----------------------------------------------------------------------------
(* What clients may rely on depends on what the others do at the same time. *)

NoErasers == \A h \in Handlers : plan.asks[h] \cap {"delete", "clear"} = {}

Quiet == Careful /\ (plan.turns = "requests" \/ NoErasers)
Calm == Careful /\ (plan.turns = "requests" \/ (plan.turns = "sends" /\ NoErasers))

(* fetch_messages finds the row that an edit (remove(0)), a delete ([0]) or a
   send (unwrap) counts on, as long as nobody erases during the request.    *)
QuietNeverPanics == Quiet => mode = "up"

(* Then the upserts of edit_message and mark_as_read never add a row without
   an author, which every later fetch_messages over it would fail on.       *)
QuietKeepsRowsWhole == Quiet => \A i \in Ids : ~Partial(i)

(* A message shows only words its author sent: a send does not replace
   another's message and an edit does not land on one, as long as sends do
   not overlap and nobody erases meanwhile.                                 *)
WordsAreAuthors ==
    Calm => \A i \in Present : rows[i].text # None => WriterOf[rows[i].text] = rows[i].from

(* An edit without is_unread, which stores the value it read before, does not
   undo a mark_as_read, unless some other handler marks or edits.           *)
AloneOnMarks(h) == \A g \in Handlers \ {h} : plan.asks[g] \cap {"mark", "edit"} = {}

EditKeepsUnread ==
    [][\A h \in Handlers :
         Calm /\ AloneOnMarks(h) /\ At(h, "update") /\ pc'[h] = "idle"
         /\ answer'[h].kind = "ok" /\ req[h].flag = "kept" =>
            LET i == Head(req[h].ids) IN rows'[i].unread = rows[i].unread]_vars

(* The chat keeps the promise of ChatLog while its clients are calm and no
   query fails (a send that fails late is refused and stays): each acknowledged
   id is that of the sender's own message, messages stay as their authors leave
   them, and requests on one's own messages succeed.                        *)
Logged(i) == IF rows[i] = None THEN None ELSE [from |-> rows[i].from, text |-> rows[i].text]
Stored(h) == pc[h] \in {"latest", "window"} /\ req[h].op = "send"
Pending(h) == IF Stored(h) THEN slot[h] ELSE None

Log == INSTANCE ChatLog WITH
    log <- [i \in Ids |-> Logged(i)],
    mine <- [h \in Handlers |-> Pending(h)]

Sound == Calm /\ ~plan.failing
LogPromise == (Sound => Log!Init) /\ [][Sound => Log!Next]_(Log!vars)

(* No request ends the server: the answer to one that names a message that is
   not there is an error.                                                   *)
NeverPanics == mode = "up"
=============================================================================
