-------------------------------- MODULE Chats --------------------------------
(***************************************************************************)
(* The chats of a server: the rows of ksp.chats, the map chats of each row *)
(* of ksp.users from the chat ids a user names to the ids of the rows, and *)
(* the handlers that create, join, look at and delete chats.  A user names *)
(* a private chat by the other user and a group by its own id.  One step   *)
(* is one query; between two queries of a handler the others run.  The     *)
(* driver reports rows of a SELECT even when it finds none (is_rows), so   *)
(* chat_exists refuses nothing and is left out; so is UsersDB::exists,     *)
(* which does look for a row, as every user here has one.                  *)
(*                                                                         *)
(* A random id is one that nothing refers to.  A send to oneself, refused  *)
(* at once, is left out, as is all about messages and drafts.  A query     *)
(* that fails has changed nothing.                                         *)
(***************************************************************************)
EXTENDS Integers, Sequences, FiniteSets

CONSTANTS
    Handlers,  \* connections
    UserOf,    \* the user each is logged in as
    Privates,  \* ids of private chats
    Groups,    \* ids of groups
    Plans,     \* what the clients of one run do
    None

Users == {UserOf[h] : h \in Handlers}
Keys == Users \cup Groups
ChatIds == Privates \cup Groups

Ops == {"send", "group", "link", "join", "touch", "info", "delete", "chats"}
Request == [op: Ops, key: Keys \cup {None}]

(* A row that an UPDATE added has no is_group and fails every read of it.   *)
Row == [kind: {"private", "group", "none"}, members: Seq(Users), link: BOOLEAN]

(* asks: the operations of each connection; deletes: the chats that may be
   named for deletion; apart: pairs of operations that clients never have at
   work together; crashes: the process may end between two steps; failing:
   the database may fail a query.                                           *)
PlanType == [asks: [Handlers -> SUBSET Ops], deletes: SUBSET Keys,
             apart: SUBSET SUBSET Ops, crashes: BOOLEAN, failing: BOOLEAN]

ASSUME ChatsAssumption ==
    /\ Users \cap Groups = {} /\ Privates \cap Groups = {}
    /\ None \notin Keys \cup ChatIds \cup Row \cup Request \cup [Keys -> ChatIds \cup {None}]
    /\ Plans \subseteq PlanType

VARIABLES
    mode,    \* "up" or "panicked"
    plan,    \* the plan of this run
    rows,    \* ksp.chats
    assoc,   \* ksp.users.chats
    pc,      \* the query each handler is about to make
    req,     \* the request it is at
    got,     \* id of the chat it found or created
    map,     \* the map of a user it read
    todo,    \* keys its loop has left
    seen,    \* keys its loop has listed
    answer   \* its last response

tables == <<rows, assoc>>
locals == <<got, map, todo, seen>>
vars == <<mode, plan, tables, pc, req, locals, answer>>

Pcs == {"idle", "lookup", "chat", "create", "mine", "theirs", "link", "find", "joined", "enter",
        "enlist", "erase", "readMine", "writeMine", "readTheirs", "writeTheirs", "map", "list"}

Silent == [kind |-> "none", shows |-> {}]
Fine(S) == [kind |-> "ok", shows |-> S]
NotFound == [kind |-> "absent", shows |-> {}]
Refusal == [kind |-> "error", shows |-> {}]
Answers == [kind: {"none", "ok", "absent", "error"}, shows: SUBSET Keys]

TypeOK ==
    /\ mode \in {"up", "panicked"}
    /\ plan \in Plans
    /\ rows \in [ChatIds -> Row \cup {None}]
    /\ assoc \in [Users -> [Keys -> ChatIds \cup {None}]]
    /\ pc \in [Handlers -> Pcs]
    /\ req \in [Handlers -> Request \cup {None}]
    /\ got \in [Handlers -> ChatIds \cup {None}]
    /\ map \in [Handlers -> [Keys -> ChatIds \cup {None}] \cup {None}]
    /\ todo \in [Handlers -> SUBSET Keys]
    /\ seen \in [Handlers -> SUBSET Keys]
    /\ answer \in [Handlers -> Answers]

Init ==
    /\ mode = "up"
    /\ plan \in Plans
    /\ rows = [c \in ChatIds |-> None]
    /\ assoc = [u \in Users |-> [k \in Keys |-> None]]
    /\ pc = [h \in Handlers |-> "idle"]
    /\ req = [h \in Handlers |-> None]
    /\ got = [h \in Handlers |-> None]
    /\ map = [h \in Handlers |-> None]
    /\ todo = [h \in Handlers |-> {}]
    /\ seen = [h \in Handlers |-> {}]
    /\ answer = [h \in Handlers |-> Silent]

-----------------------------------------------------------------------------
(* Rows and maps.                                                          *)

Whole(c) == rows[c] # None /\ rows[c].kind # "none"
Partial(c) == rows[c] # None /\ rows[c].kind = "none"
Members(c) == {rows[c].members[k] : k \in DOMAIN rows[c].members}

(* UPDATE adds the row when it is missing.                                  *)
Existing(c) == IF rows[c] = None THEN [kind |-> "none", members |-> <<>>, link |-> FALSE] ELSE rows[c]

Referred(c) ==
    \/ rows[c] # None
    \/ \E u \in Users, k \in Keys : assoc[u][k] = c
    \/ \E h \in Handlers : got[h] = c \/ (map[h] # None /\ \E k \in Keys : map[h][k] = c)

-----------------------------------------------------------------------------
(* Requests and answers.                                                   *)

Me(h) == UserOf[h]
Working(h) == pc[h] # "idle"
At(h, p) == mode = "up" /\ pc[h] = p
Doing(h, ops) == Working(h) /\ req[h].op \in ops
Goto(h, p) == pc' = [pc EXCEPT ![h] = p]

Sensible(h, r) ==
    CASE r.op = "send" -> r.key \in Keys \ {Me(h)}
      [] r.op \in {"group", "chats"} -> r.key = None
      [] r.op = "join" -> r.key \in Groups
      [] r.op = "delete" -> r.key \in plan.deletes \ {Me(h)}
      [] OTHER -> r.key \in Keys \ {Me(h)}

FirstPc_Slip(r) ==
    CASE r.op \in {"send", "touch"} /\ r.key \in Groups -> "chat"
      [] r.op = "group" -> "create"
      [] r.op = "join" -> "find"
      [] r.op = "chats" -> "map"
      [] OTHER -> "lookup"

FirstPc(r) ==
    CASE r.op = "send" /\ r.key \in Groups -> "chat"
      [] r.op = "group" -> "create"
      [] r.op = "join" -> "find"
      [] r.op = "chats" -> "map"
      [] OTHER -> "lookup"

(* The ids are bounded: clients ask only while there is one to create with.  *)
Pool(op) == IF op = "send" THEN Privates ELSE Groups
Spare(op) ==
    Cardinality({g \in Handlers : Doing(g, {op}) /\ got[g] = None})
        < Cardinality({c \in Pool(op) : ~Referred(c)})

Ask(h) ==
    /\ At(h, "idle")
    /\ \E r \in Request :
        /\ r.op \in plan.asks[h] /\ Sensible(h, r)
        /\ r.op = "group" \/ (r.op = "send" /\ r.key \in Users) => Spare(r.op)
        /\ \A g \in Handlers \ {h} : Working(g) => {r.op, req[g].op} \notin plan.apart
        /\ req' = [req EXCEPT ![h] = r]
        /\ got' = [got EXCEPT ![h] = IF FirstPc(r) = "chat" THEN r.key ELSE None]
        /\ Goto(h, FirstPc(r))
    /\ answer' = [answer EXCEPT ![h] = Silent]
    /\ UNCHANGED <<mode, plan, tables, map, todo, seen>>

Finish(h, a) ==
    /\ Goto(h, "idle")
    /\ req' = [req EXCEPT ![h] = None]
    /\ got' = [got EXCEPT ![h] = None]
    /\ map' = [map EXCEPT ![h] = None]
    /\ todo' = [todo EXCEPT ![h] = {}]
    /\ seen' = [seen EXCEPT ![h] = {}]
    /\ answer' = [answer EXCEPT ![h] = a]
    /\ UNCHANGED <<mode, plan>>

(* After the last write of these requests come queries that decide nothing,
   but may fail.                                                            *)
Done(h, a) == Finish(h, a) \/ (plan.failing /\ Finish(h, Refusal))

Panic == mode' = "panicked" /\ UNCHANGED <<plan, tables, pc, req, locals, answer>>

(* The `?` of a query: what earlier queries of the request did stays done.   *)
QueryFails(h) ==
    /\ plan.failing /\ mode = "up" /\ pc[h] \notin {"idle", "theirs"}
    /\ Finish(h, Refusal)
    /\ UNCHANGED tables

(* Three queries are unwrapped instead: add_associated_chat, both times, of a
   first message, and fetch_chat of a list.                                 *)
QueryUnwraps(h) ==
    /\ plan.failing
    /\ At(h, "theirs") \/ At(h, "list") \/ (At(h, "mine") /\ req[h].op = "send")
    /\ Panic

-----------------------------------------------------------------------------
(* get_associated_chat_id, and what each caller does with its result.      *)

Own(h) == assoc[Me(h)][req[h].key]

(* A link is for a group: there the key is the id of the row.               *)
Unknown(h) == Own(h) = None \/ (req[h].op = "link" /\ req[h].key \notin Groups)

NextPc(h) ==
    CASE req[h].op = "link" -> "link"
      [] req[h].op = "delete" -> "erase"
      [] OTHER -> "chat"

LookupFails(h) ==
    /\ At(h, "lookup")
    /\ req[h].op # "send" /\ Unknown(h)
    /\ Finish(h, Refusal)
    /\ UNCHANGED tables

(* An edit, mark or draft in a private chat goes on without its row.        *)
TouchPrivate(h) ==
    /\ At(h, "lookup")
    /\ req[h].op = "touch" /\ ~Unknown(h) /\ req[h].key \in Users
    /\ Finish(h, Fine({Me(h), req[h].key}))
    /\ UNCHANGED tables

Lookup(h) ==
    /\ At(h, "lookup")
    /\ IF Own(h) = None
       THEN req[h].op = "send" /\ Goto(h, "create")
       ELSE ~Unknown(h) /\ ~(req[h].op = "touch" /\ req[h].key \in Users) /\ Goto(h, NextPc(h))
    /\ got' = [got EXCEPT ![h] = Own(h)]
    /\ UNCHANGED <<mode, plan, tables, req, map, todo, seen, answer>>

(* fetch_chat before a message is stored or an event is sent to the others.
   A missing row is an error to some callers and a panic to the others.     *)
ReadChat(h) ==
    /\ At(h, "chat")
    /\ \/ Whole(got[h]) /\ Finish(h, Fine(Members(got[h])))
       \/ Partial(got[h]) /\ Finish(h, Refusal)
       \/ rows[got[h]] = None /\ req[h].op # "touch" /\ Finish(h, Refusal)
    /\ UNCHANGED tables

ChatExpected(h) ==
    /\ At(h, "chat")
    /\ rows[got[h]] = None /\ req[h].op = "touch"
    /\ Panic

-----------------------------------------------------------------------------
(* create_private, create_group and add_associated_chat.                   *)

Founders_Slip(h) == <<Me(h)>>
Founders(h) == IF req[h].op = "send" THEN <<Me(h), req[h].key>> ELSE <<Me(h)>>

Create(h) ==
    /\ At(h, "create")
    /\ \E c \in Pool(req[h].op) :
        /\ ~Referred(c)
        /\ got' = [got EXCEPT ![h] = c]
        /\ rows' = [rows EXCEPT ![c] = [kind |-> IF req[h].op = "send" THEN "private" ELSE "group",
                                       members |-> Founders(h), link |-> FALSE]]
    /\ Goto(h, "mine")
    /\ UNCHANGED <<mode, plan, assoc, req, map, todo, seen, answer>>

Associate(u, key, c) == assoc' = [assoc EXCEPT ![u][key] = c]

CreatedGroup(h) ==
    /\ At(h, "mine") /\ req[h].op = "group"
    /\ Associate(Me(h), got[h], got[h])
    /\ Finish(h, Fine({Me(h)}))
    /\ UNCHANGED rows

AssociateMine(h) ==
    /\ At(h, "mine") /\ req[h].op = "send"
    /\ Associate(Me(h), req[h].key, got[h])
    /\ Goto(h, "theirs")
    /\ UNCHANGED <<mode, plan, rows, req, locals, answer>>

AssociateTheirs_Slip(h) ==
    /\ At(h, "theirs")
    /\ assoc' = assoc
    /\ Done(h, Fine({Me(h), req[h].key}))
    /\ UNCHANGED rows

AssociateTheirs(h) ==
    /\ At(h, "theirs")
    /\ Associate(req[h].key, Me(h), got[h])
    /\ Done(h, Fine({Me(h), req[h].key}))
    /\ UNCHANGED rows

-----------------------------------------------------------------------------
(* Invitation links: create_invitation_hash replaces the link of the group, *)
(* and join finds the row by it.                                           *)

Link(h) ==
    /\ At(h, "link")
    /\ rows' = [rows EXCEPT ![got[h]] = [Existing(got[h]) EXCEPT !.link = TRUE]]
    /\ Finish(h, Fine({}))
    /\ UNCHANGED assoc

Linked(g) == rows[g] # None /\ rows[g].link

FindFails(h) ==
    /\ At(h, "find")
    /\ \/ ~Linked(req[h].key) /\ Finish(h, NotFound)
       \/ Linked(req[h].key) /\ Partial(req[h].key) /\ Finish(h, Refusal)
    /\ UNCHANGED tables

(* The participants it read are told of the new one.                        *)
Find(h) ==
    /\ At(h, "find")
    /\ Linked(req[h].key) /\ Whole(req[h].key)
    /\ got' = [got EXCEPT ![h] = req[h].key]
    /\ seen' = [seen EXCEPT ![h] = Members(req[h].key)]
    /\ Goto(h, "joined")
    /\ UNCHANGED <<mode, plan, tables, req, map, todo, answer>>

AlreadyJoined(h) ==
    /\ At(h, "joined")
    /\ Own(h) # None
    /\ Finish(h, Refusal)
    /\ UNCHANGED tables

NotJoined_Slip(h) ==
    /\ At(h, "joined")
    /\ Goto(h, "enter")
    /\ UNCHANGED <<mode, plan, tables, req, locals, answer>>

NotJoined(h) ==
    /\ At(h, "joined")
    /\ Own(h) = None
    /\ Goto(h, "enter")
    /\ UNCHANGED <<mode, plan, tables, req, locals, answer>>

Enter(h) ==
    /\ At(h, "enter")
    /\ Associate(Me(h), got[h], got[h])
    /\ Goto(h, "enlist")
    /\ UNCHANGED <<mode, plan, rows, req, locals, answer>>

Enlist(h) ==
    /\ At(h, "enlist")
    /\ rows' = [rows EXCEPT ![got[h]] =
                    [Existing(got[h]) EXCEPT !.members = Append(@, Me(h))]]
    /\ Done(h, Fine(seen[h]))
    /\ UNCHANGED assoc

-----------------------------------------------------------------------------
(* delete_chat: the row, then its entry in the map of either user.  Each    *)
(* remove_associated_chat reads a whole map and writes it back.  A group    *)
(* has no map, and its other members keep their entries.                   *)

EraseRow(h) ==
    /\ At(h, "erase")
    /\ rows' = [rows EXCEPT ![got[h]] = None]
    /\ Goto(h, "readMine")
    /\ UNCHANGED <<mode, plan, assoc, req, locals, answer>>

ReadMap(h) ==
    /\ \/ At(h, "readMine") /\ map' = [map EXCEPT ![h] = assoc[Me(h)]] /\ Goto(h, "writeMine")
       \/ /\ At(h, "readTheirs")
          /\ map' = [map EXCEPT ![h] = assoc[req[h].key]] /\ Goto(h, "writeTheirs")
    /\ UNCHANGED <<mode, plan, tables, req, got, todo, seen, answer>>

ForgetMine_Slip(h) ==
    /\ At(h, "writeMine")
    /\ assoc' = [assoc EXCEPT ![Me(h)] = [map[h] EXCEPT ![req[h].key] = None]]
    /\ Finish(h, Fine({}))
    /\ UNCHANGED rows

ForgetMine(h) ==
    /\ At(h, "writeMine")
    /\ assoc' = [assoc EXCEPT ![Me(h)] = [map[h] EXCEPT ![req[h].key] = None]]
    /\ \/ req[h].key \in Groups /\ Done(h, Fine({}))
       \/ /\ req[h].key \in Users
          /\ Goto(h, "readTheirs")
          /\ UNCHANGED <<mode, plan, req, locals, answer>>
    /\ UNCHANGED rows

ForgetTheirs(h) ==
    /\ At(h, "writeTheirs")
    /\ assoc' = [assoc EXCEPT ![req[h].key] = [map[h] EXCEPT ![Me(h)] = None]]
    /\ Finish(h, Fine({}))
    /\ UNCHANGED rows

-----------------------------------------------------------------------------
(* fetch_chats: the map, then each chat of it in any order.                 *)

ReadMine(h) ==
    /\ At(h, "map")
    /\ LET known == {k \in Keys : assoc[Me(h)][k] # None} IN
       \/ known = {} /\ Finish(h, Fine({}))
       \/ /\ known # {}
          /\ map' = [map EXCEPT ![h] = assoc[Me(h)]]
          /\ todo' = [todo EXCEPT ![h] = known]
          /\ Goto(h, "list")
          /\ UNCHANGED <<mode, plan, req, got, seen, answer>>
    /\ UNCHANGED tables

(* A chat without a row is skipped.                                         *)
ListOne(h) ==
    /\ At(h, "list")
    /\ \E k \in todo[h] :
        LET c == map[h][k]
            listed == seen[h] \cup IF rows[c] = None THEN {} ELSE {k}
        IN  /\ ~Partial(c)
            /\ \/ todo[h] = {k} /\ Finish(h, Fine(listed))
               \/ /\ todo[h] # {k}
                  /\ todo' = [todo EXCEPT ![h] = @ \ {k}]
                  /\ seen' = [seen EXCEPT ![h] = listed]
                  /\ UNCHANGED <<mode, plan, pc, req, got, map, answer>>
    /\ UNCHANGED tables

ListUnwraps(h) ==
    /\ At(h, "list")
    /\ \E k \in todo[h] : Partial(map[h][k])
    /\ Panic

(* The process ends, by a panic or otherwise, and is started again.         *)
Restart ==
    /\ mode = "panicked" \/ (plan.crashes /\ \E h \in Handlers : Working(h))
    /\ mode' = "up"
    /\ pc' = [h \in Handlers |-> "idle"]
    /\ req' = [h \in Handlers |-> None]
    /\ got' = [h \in Handlers |-> None]
    /\ map' = [h \in Handlers |-> None]
    /\ todo' = [h \in Handlers |-> {}]
    /\ seen' = [h \in Handlers |-> {}]
    /\ answer' = [h \in Handlers |-> Silent]
    /\ UNCHANGED <<plan, tables>>

Next ==
    \/ \E h \in Handlers :
        \/ Ask(h) \/ LookupFails(h) \/ TouchPrivate(h) \/ Lookup(h) \/ ReadChat(h) \/ ChatExpected(h)
        \/ Create(h) \/ CreatedGroup(h) \/ AssociateMine(h) \/ AssociateTheirs(h)
        \/ Link(h) \/ FindFails(h) \/ Find(h) \/ AlreadyJoined(h) \/ NotJoined(h) \/ Enter(h) \/ Enlist(h)
        \/ EraseRow(h) \/ ReadMap(h) \/ ForgetMine(h) \/ ForgetTheirs(h)
        \/ ReadMine(h) \/ ListOne(h) \/ ListUnwraps(h) \/ QueryFails(h) \/ QueryUnwraps(h)
    \/ Restart

Spec == Init /\ [][Next]_vars

-----------------------------------------------------------------------------
(* What clients may rely on depends on what the others do at the same time. *)

Steady == plan.deletes \cap Groups = {} /\ ~plan.failing
Apart(a, b) == {a, b} \in plan.apart
DeletesAlone == \A op \in Ops : Apart("delete", op)
InTurn == \A a, b \in Ops : Apart(a, b)

(* fetch_chats (unwrap) and the edits (expect, unwrap) find every row a map
   leads to whole, or know what to do without it, whatever the interleaving
   and wherever the process was ended, as long as nobody deletes a group and
   no query fails (AnswersInstead says what happens otherwise).             *)
SteadyNeverPanics == Steady => mode = "up"

(* docs/basics.md:59, "If request wasn't successfully processed, you get
   `ok: false`": no request ends the process instead.                       *)
AnswersInstead == mode = "up"

(* db/user.rs:415, "Remove chat_id from association map", and :429, "Remove the
   entry for the given public_chat_id": an entry goes only when its own chat is
   deleted, by its user or, of a private chat, by the other.                *)
OnlyItsEntryGoes ==
    [][\A u \in Users, k \in Keys : assoc[u][k] # None /\ assoc'[u][k] = None =>
        \E h \in Handlers : Doing(h, {"delete"}) /\ {u, k} = {Me(h), req[h].key}]_vars

(* An entry of a user's map leads to a chat of that user: a group by its own
   id, and a private chat with the user it is named by, never a third one.  A
   join that is half done lacks the row's side and a deletion the map's.  So
   it is if groups stay, deletions run alone, and no request ends half done,
   by a crash or a failed query.  (The tables are typed, too.)              *)
Joining(u, g) == \E h \in Handlers : Me(h) = u /\ pc[h] = "enlist" /\ got[h] = g
Deleting == \E h \in Handlers : Doing(h, {"delete"})

EntryLeadsHome ==
    TypeOK /\ (Steady /\ DeletesAlone /\ ~plan.crashes /\ ~Deleting =>
        \A u \in Users, k \in Keys :
            LET c == assoc[u][k] IN
            c # None => /\ Whole(c)
                        /\ k \in Users => Members(c) = {u, k}
                        /\ k \in Groups => c = k /\ (u \in Members(c) \/ Joining(u, k)))

(* The two users of a private chat are led to the same row, so that each sees
   what the other writes, if first messages do not cross each other, deletions
   run alone, and no request ends half done: by a crash, a failed query, or
   the panic of a request about a group that was deleted.                   *)
Linking(u, v) == \E h \in Handlers : Doing(h, {"send"}) /\ {Me(h), req[h].key} = {u, v}

PairsAgree ==
    Steady /\ Apart("send", "send") /\ DeletesAlone /\ ~plan.crashes /\ ~Deleting =>
        \A u, v \in Users : u # v /\ ~Linking(u, v) => assoc[u][v] = assoc[v][u]

(* A group lists each participant once: the check of a join keeps, over its
   two writes, as long as joins wait for each other and deletions run alone;
   also when crashes and failed queries leave requests half done.           *)
MembersOnce ==
    Apart("join", "join") /\ DeletesAlone =>
        \A c \in ChatIds : rows[c] # None =>
            \A i, j \in DOMAIN rows[c].members : rows[c].members[i] = rows[c].members[j] => i = j

(* One request at a time, the chats keep the promise of ChatBook: both users
   of a private chat and all participants of a group see it and nobody else
   does, links let others in once, and refusals have their reason.          *)
Calm == InTurn /\ Steady /\ ~plan.crashes

Half(u, v) == \E h \in Handlers : pc[h] \in {"readTheirs", "writeTheirs"} /\ {Me(h), req[h].key} = {u, v}
Both(u, v) == (assoc[u][v] # None /\ assoc[v][u] # None) \/ Half(u, v)

Book == INSTANCE ChatBook WITH
    pairs <- {{p[1], p[2]} : p \in {q \in Users \X Users : Both(q[1], q[2])}},
    members <- [g \in Groups |-> IF rows[g] = None THEN {}
                                 ELSE {u \in Members(g) : assoc[u][g] # None}],
    open <- {g \in Groups : Linked(g)}

BookPromise == (Calm => Book!Init) /\ [][Calm => Book!Next]_(Book!vars)
=============================================================================
