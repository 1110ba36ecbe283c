------------------------------ MODULE ChatsProofs ------------------------------
(***************************************************************************)
(* Proofs about Chats, for any number of connections, users, chats and ids.*)
(*                                                                         *)
(* Stage says which request a handler can be at, with which locals, at     *)
(* each of its queries; KInv, what maps are keyed by; XInv, who is apart;  *)
(* DInv, what a lone deletion writes back.  On them rest one invariant for *)
(* each promise: GInv (groups have rows), HInv (entries lead home), PInv   *)
(* (pairs agree) and OInv (members once), each under the plans its         *)
(* property speaks of.  With BInv (a request alone) they carry the last    *)
(* part, where each query is a step of ChatBook or leaves the book alone.  *)
(***************************************************************************)
EXTENDS Chats, TLAPS

Map == [Keys -> ChatIds \cup {None}]

Others(h) == Keys \ {Me(h)}

Stage(h) ==
    /\ Working(h) => req[h] \in Request
    /\ pc[h] = "lookup" =>
        /\ req[h].op \in {"send", "link", "touch", "info", "delete"}
        /\ req[h].key \in Others(h)
        /\ req[h].op = "send" => req[h].key \in Users
        /\ req[h].op = "delete" => req[h].key \in plan.deletes
    /\ pc[h] = "chat" =>
        /\ req[h].op \in {"send", "touch", "info"}
        /\ req[h].key \in Others(h)
        /\ req[h].op = "touch" => req[h].key \in Groups
        /\ got[h] \in ChatIds
    /\ pc[h] \in {"create", "mine"} =>
        /\ req[h].op \in {"send", "group"}
        /\ req[h].op = "send" => req[h].key \in Users \cap Others(h)
    /\ pc[h] = "mine" => got[h] \in Pool(req[h].op)
    /\ pc[h] = "theirs" =>
        /\ req[h].op = "send" /\ req[h].key \in Users \cap Others(h)
        /\ got[h] \in Privates
    /\ pc[h] = "link" =>
        req[h].op = "link" /\ req[h].key \in Groups /\ got[h] \in ChatIds
    /\ pc[h] \in {"find", "joined", "enter", "enlist"} =>
        req[h].op = "join" /\ req[h].key \in Groups
    /\ pc[h] \in {"joined", "enter", "enlist"} => got[h] = req[h].key
    /\ pc[h] \in {"erase", "readMine", "writeMine", "readTheirs", "writeTheirs"} =>
        req[h].op = "delete" /\ req[h].key \in plan.deletes \cap Others(h)
    /\ pc[h] = "erase" => got[h] \in ChatIds
    /\ pc[h] \in {"readTheirs", "writeTheirs"} => req[h].key \in Users
    /\ pc[h] \in {"writeMine", "writeTheirs", "list"} => map[h] \in Map
    /\ pc[h] \in {"map", "list"} => req[h].op = "chats"
    /\ pc[h] = "list" => \A k \in todo[h] : map[h][k] # None

Staged == \A h \in Handlers : Stage(h)

TInv == TypeOK /\ Staged

(* What a handler does, and what it leaves to the others.                   *)
Acts(h) ==
    \/ Ask(h) \/ LookupFails(h) \/ TouchPrivate(h) \/ Lookup(h) \/ ReadChat(h) \/ ChatExpected(h)
    \/ Create(h) \/ CreatedGroup(h) \/ AssociateMine(h) \/ AssociateTheirs(h)
    \/ Link(h) \/ FindFails(h) \/ Find(h) \/ AlreadyJoined(h) \/ NotJoined(h) \/ Enter(h) \/ Enlist(h)
    \/ EraseRow(h) \/ ReadMap(h) \/ ForgetMine(h) \/ ForgetTheirs(h)
    \/ ReadMine(h) \/ ListOne(h) \/ ListUnwraps(h) \/ QueryFails(h) \/ QueryUnwraps(h)

Same(g) ==
    /\ pc'[g] = pc[g] /\ req'[g] = req[g] /\ got'[g] = got[g]
    /\ map'[g] = map[g] /\ todo'[g] = todo[g] /\ seen'[g] = seen[g]

StepBy(h) == plan' = plan /\ \A g \in Handlers : g # h => Same(g)

-----------------------------------------------------------------------------
(* The types.                                                               *)

LEMMA NextActs == Next => Restart \/ \E h \in Handlers : Acts(h)
BY DEF Next, Acts

LEMMA UsersAre == \A h \in Handlers : Me(h) \in Users
BY DEF Me, Users

LEMMA NoneIsNone ==
    /\ None \notin Keys /\ None \notin ChatIds /\ None \notin Row /\ None \notin Request /\ None \notin Map
    /\ Users \cap Groups = {} /\ Privates \cap Groups = {}
    /\ Users \subseteq Keys /\ Groups \subseteq Keys /\ Privates \subseteq ChatIds /\ Groups \subseteq ChatIds
    /\ ChatIds = Privates \cup Groups /\ Keys = Users \cup Groups
BY ChatsAssumption DEF Keys, ChatIds, Map

LEMMA RowParts ==
    ASSUME NEW r \in Row
    PROVE  /\ r.kind \in {"private", "group", "none"} /\ r.members \in Seq(Users) /\ r.link \in BOOLEAN
           /\ [r EXCEPT !.link = TRUE] \in Row
           /\ [r EXCEPT !.link = TRUE].kind = r.kind
           /\ [r EXCEPT !.link = TRUE].members = r.members
           /\ [r EXCEPT !.link = TRUE].link = TRUE
BY DEF Row

LEMMA AppendTyped ==
    ASSUME NEW S, NEW s \in Seq(S), NEW x \in S
    PROVE  /\ Append(s, x) \in Seq(S) /\ Len(Append(s, x)) = Len(s) + 1
           /\ Len(s) \in Nat /\ DOMAIN s = 1..Len(s) /\ DOMAIN Append(s, x) = 1..(Len(s) + 1)
           /\ \A i \in DOMAIN s : Append(s, x)[i] = s[i]
           /\ Append(s, x)[Len(s) + 1] = x
OBVIOUS

LEMMA RowJoined ==
    ASSUME NEW r \in Row, NEW u \in Users
    PROVE  /\ [r EXCEPT !.members = Append(@, u)] \in Row
           /\ [r EXCEPT !.members = Append(@, u)].kind = r.kind
           /\ [r EXCEPT !.members = Append(@, u)].members = Append(r.members, u)
           /\ [r EXCEPT !.members = Append(@, u)].link = r.link
<1>1. Append(r.members, u) \in Seq(Users)
  BY RowParts, AppendTyped
<1> DEFINE s == Append(r.members, u)
<1> HIDE DEF s
<1>2. [r EXCEPT !.members = s] \in Row /\ [r EXCEPT !.members = s].kind = r.kind
      /\ [r EXCEPT !.members = s].members = s /\ [r EXCEPT !.members = s].link = r.link
  BY <1>1 DEF Row, s
<1> QED BY <1>2 DEF s

LEMMA ExistingTyped ==
    ASSUME TypeOK, NEW c \in ChatIds
    PROVE  Existing(c) \in Row /\ (rows[c] # None => Existing(c) = rows[c])
<1>1. [kind |-> "none", members |-> <<>>, link |-> FALSE] \in Row
  BY DEF Row
<1> QED BY <1>1 DEF Existing, TypeOK

LEMMA MembersTyped ==
    ASSUME TypeOK, NEW c \in ChatIds, rows[c] # None
    PROVE  Members(c) \subseteq Users /\ Fine(Members(c)) \in Answers
<1>1. rows[c] \in Row
  BY DEF TypeOK
<1>2. rows[c].members \in Seq(Users)
  BY <1>1, RowParts
<1>3. Members(c) \subseteq Users
  BY <1>2 DEF Members
<1> QED BY <1>3, NoneIsNone DEF Fine, Answers

LEMMA AnswersTyped ==
    /\ Silent \in Answers /\ NotFound \in Answers /\ Refusal \in Answers
    /\ \A S \in SUBSET Keys : Fine(S) \in Answers
BY DEF Silent, NotFound, Refusal, Fine, Answers

(* The tables, and what a handler keeps.                                    *)
TablesOK == rows \in [ChatIds -> Row \cup {None}] /\ assoc \in [Users -> Map]
HandlersOK ==
    /\ mode \in {"up", "panicked"} /\ plan \in Plans
    /\ pc \in [Handlers -> Pcs] /\ req \in [Handlers -> Request \cup {None}]
    /\ got \in [Handlers -> ChatIds \cup {None}]
    /\ map \in [Handlers -> Map \cup {None}]
    /\ todo \in [Handlers -> SUBSET Keys] /\ seen \in [Handlers -> SUBSET Keys]
    /\ answer \in [Handlers -> Answers]

LEMMA TypesAre == TypeOK <=> TablesOK /\ HandlersOK
BY DEF TypeOK, TablesOK, HandlersOK, Map

LEMMA InitTyped == Init => TypeOK
<1> SUFFICES ASSUME Init PROVE TypeOK
  OBVIOUS
<1>1. rows \in [ChatIds -> Row \cup {None}]
  BY DEF Init
<1>2. assoc \in [Users -> Map]
  BY DEF Init, Map
<1>3. answer \in [Handlers -> Answers]
  BY AnswersTyped DEF Init
<1>4. pc \in [Handlers -> Pcs] /\ req \in [Handlers -> Request \cup {None}]
      /\ got \in [Handlers -> ChatIds \cup {None}] /\ map \in [Handlers -> Map \cup {None}]
  BY DEF Init, Pcs
<1>5. todo \in [Handlers -> SUBSET Keys] /\ seen \in [Handlers -> SUBSET Keys]
  BY DEF Init
<1> QED BY <1>1, <1>2, <1>3, <1>4, <1>5, TypesAre DEF TablesOK, HandlersOK, Init

(* The end of a request.                                                    *)
LEMMA FinishTyped ==
    ASSUME TypeOK, NEW h \in Handlers, NEW a \in Answers, Finish(h, a)
    PROVE  /\ HandlersOK' /\ StepBy(h) /\ mode' = mode
           /\ pc'[h] = "idle" /\ req'[h] = None /\ got'[h] = None /\ map'[h] = None
           /\ todo'[h] = {} /\ seen'[h] = {} /\ answer' = [answer EXCEPT ![h] = a]
<1>1. pc' \in [Handlers -> Pcs] /\ pc'[h] = "idle" /\ \A g \in Handlers : g # h => pc'[g] = pc[g]
  BY DEF Finish, Goto, TypeOK, Pcs
<1>2. req' \in [Handlers -> Request \cup {None}] /\ req'[h] = None /\ \A g \in Handlers : g # h => req'[g] = req[g]
  BY DEF Finish, TypeOK
<1>3. got' \in [Handlers -> ChatIds \cup {None}] /\ got'[h] = None /\ \A g \in Handlers : g # h => got'[g] = got[g]
  BY DEF Finish, TypeOK
<1>4. map' \in [Handlers -> Map \cup {None}] /\ map'[h] = None /\ \A g \in Handlers : g # h => map'[g] = map[g]
  BY DEF Finish, TypeOK, Map
<1>5. todo' \in [Handlers -> SUBSET Keys] /\ todo'[h] = {} /\ \A g \in Handlers : g # h => todo'[g] = todo[g]
  BY DEF Finish, TypeOK
<1>6. seen' \in [Handlers -> SUBSET Keys] /\ seen'[h] = {} /\ \A g \in Handlers : g # h => seen'[g] = seen[g]
  BY DEF Finish, TypeOK
<1>7. answer' \in [Handlers -> Answers] /\ answer' = [answer EXCEPT ![h] = a] /\ mode' = mode /\ plan' = plan
  BY DEF Finish, TypeOK
<1>8. mode' \in {"up", "panicked"} /\ plan' \in Plans
  BY <1>7 DEF TypeOK
<1> QED BY <1>1, <1>2, <1>3, <1>4, <1>5, <1>6, <1>7, <1>8 DEF HandlersOK, StepBy, Same

(* The requests that end with one query.                                    *)
Ended(h) ==
    /\ HandlersOK' /\ StepBy(h) /\ mode' = mode /\ mode = "up"
    /\ pc'[h] = "idle" /\ req'[h] = None /\ got'[h] = None /\ map'[h] = None
    /\ \E a \in Answers : answer' = [answer EXCEPT ![h] = a]

LEMMA FinishEnds ==
    ASSUME TypeOK, NEW h \in Handlers, mode = "up", NEW a \in Answers, Finish(h, a)
    PROVE  Ended(h)
BY FinishTyped DEF Ended

LEMMA DoneEnds ==
    ASSUME TypeOK, NEW h \in Handlers, mode = "up", NEW a \in Answers, Done(h, a)
    PROVE  Ended(h)
BY FinishEnds, AnswersTyped DEF Done

LEMMA EndsUnchanged ==
    ASSUME TInv, NEW h \in Handlers,
           LookupFails(h) \/ TouchPrivate(h) \/ ReadChat(h) \/ FindFails(h) \/ AlreadyJoined(h)
           \/ QueryFails(h)
    PROVE  Ended(h) /\ UNCHANGED tables
<1> USE DEF TInv
<1>1. CASE LookupFails(h)
  BY <1>1, FinishEnds, AnswersTyped DEF LookupFails, At
<1>2. CASE TouchPrivate(h)
  <2>1. {Me(h), req[h].key} \in SUBSET Keys
    BY <1>2, UsersAre, NoneIsNone DEF TouchPrivate
  <2> QED BY <1>2, <2>1, FinishEnds, AnswersTyped DEF TouchPrivate, At
<1>3. CASE ReadChat(h)
  <2>1. got[h] \in ChatIds
    BY <1>3 DEF ReadChat, At, Staged, Stage
  <2> QED BY <1>3, <2>1, FinishEnds, AnswersTyped, MembersTyped DEF ReadChat, At, Whole
<1>4. CASE FindFails(h)
  BY <1>4, FinishEnds, AnswersTyped DEF FindFails, At
<1>5. CASE AlreadyJoined(h)
  BY <1>5, FinishEnds, AnswersTyped DEF AlreadyJoined, At
<1>6. CASE QueryFails(h)
  BY <1>6, FinishEnds, AnswersTyped DEF QueryFails
<1> QED BY <1>1, <1>2, <1>3, <1>4, <1>5, <1>6

(* A map with an entry more, or one less.                                   *)
LEMMA Associated ==
    ASSUME TypeOK, NEW u \in Users, NEW key \in Keys, NEW c \in ChatIds, Associate(u, key, c)
    PROVE  /\ assoc' \in [Users -> Map]
           /\ assoc'[u][key] = c
           /\ \A v \in Users, k \in Keys : v # u \/ k # key => assoc'[v][k] = assoc[v][k]
<1>1. assoc[u] \in Map
  BY DEF TypeOK, Map
<1> DEFINE m == [assoc[u] EXCEPT ![key] = c]
<1>2. m \in Map /\ m[key] = c /\ \A k \in Keys : k # key => m[k] = assoc[u][k]
  BY <1>1 DEF Map
<1>3. assoc' = [assoc EXCEPT ![u] = m]
  BY DEF Associate
<1> HIDE DEF m
<1>4. assoc' \in [Users -> Map] /\ assoc'[u] = m /\ \A v \in Users : v # u => assoc'[v] = assoc[v]
  BY <1>2, <1>3 DEF TypeOK, Map
<1> QED BY <1>2, <1>4

Forgets(u, m, key) == assoc' = [assoc EXCEPT ![u] = [m EXCEPT ![key] = None]]

LEMMA Forgotten ==
    ASSUME TypeOK, NEW u \in Users, NEW m \in Map, NEW key \in Keys, Forgets(u, m, key)
    PROVE  /\ assoc' \in [Users -> Map]
           /\ assoc'[u][key] = None
           /\ \A k \in Keys : k # key => assoc'[u][k] = m[k]
           /\ \A v \in Users : v # u => assoc'[v] = assoc[v]
<1> DEFINE n == [m EXCEPT ![key] = None]
<1>1. n \in Map /\ n[key] = None /\ \A k \in Keys : k # key => n[k] = m[k]
  BY DEF Map
<1>2. assoc' = [assoc EXCEPT ![u] = n]
  BY DEF Forgets
<1> HIDE DEF n
<1>3. assoc' \in [Users -> Map] /\ assoc'[u] = n /\ \A v \in Users : v # u => assoc'[v] = assoc[v]
  BY <1>1, <1>2 DEF TypeOK, Map
<1> QED BY <1>1, <1>3

LEMMA EndsWithTables ==
    ASSUME TInv, NEW h \in Handlers,
           \/ CreatedGroup(h) \/ AssociateTheirs(h) \/ Link(h) \/ Enlist(h) \/ ForgetTheirs(h)
           \/ ForgetMine(h) /\ req[h].key \in Groups
    PROVE  Ended(h) /\ TablesOK'
<1> USE DEF TInv
<1>0. TablesOK
  BY TypesAre
<1>1. CASE CreatedGroup(h)
  <2>1. got[h] \in Groups /\ Me(h) \in Users
    BY <1>1, UsersAre DEF CreatedGroup, At, Staged, Stage, Pool
  <2>2. Fine({Me(h)}) \in Answers
    BY <2>1, NoneIsNone, AnswersTyped
  <2>3. assoc' \in [Users -> Map]
    BY <1>1, <2>1, NoneIsNone, Associated DEF CreatedGroup
  <2> QED BY <1>0, <1>1, <2>2, <2>3, FinishEnds DEF CreatedGroup, At, TablesOK
<1>2. CASE AssociateTheirs(h)
  <2>1. req[h].key \in Users /\ got[h] \in ChatIds /\ Me(h) \in Users
    BY <1>2, UsersAre, NoneIsNone DEF AssociateTheirs, At, Staged, Stage
  <2>2. Fine({Me(h), req[h].key}) \in Answers
    BY <2>1, NoneIsNone, AnswersTyped
  <2>3. assoc' \in [Users -> Map]
    BY <1>2, <2>1, NoneIsNone, Associated DEF AssociateTheirs
  <2> QED BY <1>0, <1>2, <2>2, <2>3, DoneEnds DEF AssociateTheirs, At, TablesOK
<1>3. CASE Link(h)
  <2>1. got[h] \in ChatIds
    BY <1>3 DEF Link, At, Staged, Stage
  <2> DEFINE r == [Existing(got[h]) EXCEPT !.link = TRUE]
  <2>2. r \in Row
    BY <2>1, ExistingTyped, RowParts
  <2>3. rows' = [rows EXCEPT ![got[h]] = r]
    BY <1>3 DEF Link
  <2> HIDE DEF r
  <2>4. rows' \in [ChatIds -> Row \cup {None}]
    BY <1>0, <2>2, <2>3 DEF TablesOK
  <2> QED BY <1>0, <1>3, <2>4, AnswersTyped, FinishEnds DEF Link, At, TablesOK
<1>4. CASE Enlist(h)
  <2>1. got[h] \in ChatIds /\ Me(h) \in Users
    BY <1>4, UsersAre, NoneIsNone DEF Enlist, At, Staged, Stage
  <2> DEFINE r == [Existing(got[h]) EXCEPT !.members = Append(@, Me(h))]
  <2>2. r \in Row
    BY <2>1, ExistingTyped, RowJoined
  <2>3. rows' = [rows EXCEPT ![got[h]] = r]
    BY <1>4 DEF Enlist
  <2> HIDE DEF r
  <2>4. rows' \in [ChatIds -> Row \cup {None}]
    BY <1>0, <2>2, <2>3 DEF TablesOK
  <2>5. Fine(seen[h]) \in Answers
    BY AnswersTyped DEF TypeOK
  <2> QED BY <1>0, <1>4, <2>4, <2>5, DoneEnds DEF Enlist, At, TablesOK
<1>5. CASE ForgetTheirs(h)
  <2>1. req[h].key \in Users /\ map[h] \in Map /\ Me(h) \in Keys
    BY <1>5, UsersAre, NoneIsNone DEF ForgetTheirs, At, Staged, Stage
  <2>2. assoc' \in [Users -> Map]
    BY <1>5, <2>1, Forgotten DEF ForgetTheirs, Forgets
  <2> QED BY <1>0, <1>5, <2>2, AnswersTyped, FinishEnds DEF ForgetTheirs, At, TablesOK
<1>6. CASE ForgetMine(h) /\ req[h].key \in Groups
  <2>1. map[h] \in Map /\ Me(h) \in Users /\ req[h].key \in Keys /\ req[h].key \notin Users
    BY <1>6, UsersAre, NoneIsNone DEF ForgetMine, At, Staged, Stage
  <2>2. assoc' \in [Users -> Map]
    BY <1>6, <2>1, Forgotten DEF ForgetMine, Forgets
  <2> QED BY <1>0, <1>6, <2>1, <2>2, AnswersTyped, DoneEnds DEF ForgetMine, At, TablesOK
<1> QED BY <1>1, <1>2, <1>3, <1>4, <1>5, <1>6

(* The queries in the middle of a request.                                  *)
Moved(h) ==
    /\ HandlersOK' /\ StepBy(h) /\ mode' = mode /\ mode = "up"
    /\ Working(h) /\ Working(h)' /\ req'[h] = req[h] /\ answer' = answer

LEMMA GotoTyped ==
    ASSUME TypeOK, NEW h \in Handlers, NEW p \in Pcs, Goto(h, p)
    PROVE  pc' \in [Handlers -> Pcs] /\ pc'[h] = p /\ \A g \in Handlers : g # h => pc'[g] = pc[g]
BY DEF Goto, TypeOK

LEMMA LookupMoves ==
    ASSUME TInv, NEW h \in Handlers, Lookup(h)
    PROVE  /\ Moved(h) /\ UNCHANGED tables
           /\ got' = [got EXCEPT ![h] = Own(h)] /\ got'[h] = Own(h) /\ map' = map
           /\ \/ Own(h) = None /\ req[h].op = "send" /\ pc'[h] = "create"
              \/ ~Unknown(h) /\ ~(req[h].op = "touch" /\ req[h].key \in Users) /\ pc'[h] = NextPc(h)
           /\ Stage(h)'
<1> USE DEF TInv
<1>1. mode = "up" /\ pc[h] = "lookup" /\ req[h].key \in Others(h)
      /\ req[h].op \in {"send", "link", "touch", "info", "delete"} /\ req[h] \in Request
      /\ (req[h].op = "send" => req[h].key \in Users)
  BY DEF Lookup, At, Staged, Stage, Working
<1>2. assoc[Me(h)] \in Map /\ req[h].key \in Keys
  BY <1>1, UsersAre DEF TypeOK, Map, Others
<1>3. Own(h) \in ChatIds \cup {None}
  BY <1>2 DEF Own, Map
<1>4. NextPc(h) \in {"link", "erase", "chat"}
      /\ (NextPc(h) = "link" <=> req[h].op = "link") /\ (NextPc(h) = "erase" <=> req[h].op = "delete")
  BY DEF NextPc
<1>5. PICK p \in {"create", "link", "erase", "chat"} :
        /\ Goto(h, p)
        /\ \/ Own(h) = None /\ req[h].op = "send" /\ p = "create"
           \/ ~Unknown(h) /\ ~(req[h].op = "touch" /\ req[h].key \in Users) /\ p = NextPc(h)
  BY <1>4 DEF Lookup, Unknown
<1>6. p \in Pcs
  BY DEF Pcs
<1>7. pc' \in [Handlers -> Pcs] /\ pc'[h] = p /\ \A g \in Handlers : g # h => pc'[g] = pc[g]
  BY <1>5, <1>6, GotoTyped
<1>8. got' \in [Handlers -> ChatIds \cup {None}] /\ got'[h] = Own(h) /\ \A g \in Handlers : g # h => got'[g] = got[g]
  BY <1>3 DEF Lookup, TypeOK
<1>9. UNCHANGED <<mode, plan, tables, req, map, todo, seen, answer>> /\ got' = [got EXCEPT ![h] = Own(h)]
  BY DEF Lookup
<1>10. Moved(h)
  BY <1>1, <1>7, <1>8, <1>9, TypesAre DEF Moved, Working, HandlersOK, StepBy, Same
<1>11. Stage(h)'
  <2>1. p # "create" => Own(h) \in ChatIds
    BY <1>3, <1>4, <1>5 DEF Unknown
  <2>2. p = "link" => req[h].op = "link" /\ req[h].key \in Groups
    BY <1>4, <1>5, <1>1 DEF Unknown
  <2>3. p = "erase" => req[h].op = "delete" /\ req[h].key \in plan.deletes
    BY <1>4, <1>5, <1>1 DEF Staged, Stage
  <2>4. p = "chat" => req[h].op \in {"send", "touch", "info"} /\ (req[h].op = "touch" => req[h].key \in Groups)
    BY <1>1, <1>4, <1>5, NoneIsNone DEF Others
  <2>5. p = "create" => req[h].op = "send" /\ req[h].key \in Users
    BY <1>1, <1>4, <1>5
  <2> QED BY <1>1, <1>5, <1>7, <1>8, <1>9, <2>1, <2>2, <2>3, <2>4, <2>5 DEF Stage, Others, Me, Working
<1> QED BY <1>5, <1>7, <1>8, <1>9, <1>10, <1>11

LEMMA CreateMoves ==
    ASSUME TInv, NEW h \in Handlers, Create(h)
    PROVE  /\ Moved(h) /\ TablesOK' /\ Stage(h)' /\ pc'[h] = "mine" /\ map' = map /\ assoc' = assoc
           /\ got'[h] \in Pool(req[h].op) /\ ~Referred(got'[h]) /\ got' = [got EXCEPT ![h] = got'[h]]
           /\ rows'[got'[h]] = [kind |-> IF req[h].op = "send" THEN "private" ELSE "group",
                                members |-> Founders(h), link |-> FALSE]
           /\ \A c \in ChatIds : c # got'[h] => rows'[c] = rows[c]
<1> USE DEF TInv
<1>1. mode = "up" /\ pc[h] = "create" /\ req[h] \in Request
      /\ req[h].op \in {"send", "group"} /\ (req[h].op = "send" => req[h].key \in Users \cap Others(h))
  BY DEF Create, At, Staged, Stage, Working
<1> DEFINE kind == IF req[h].op = "send" THEN "private" ELSE "group"
           r == [kind |-> kind, members |-> Founders(h), link |-> FALSE]
<1>2. PICK c \in Pool(req[h].op) :
        ~Referred(c) /\ got' = [got EXCEPT ![h] = c] /\ rows' = [rows EXCEPT ![c] = r]
  BY DEF Create
<1>3. c \in ChatIds
  BY NoneIsNone DEF Pool
<1>4. Founders(h) \in Seq(Users)
  BY <1>1, UsersAre DEF Founders
<1>5. r \in Row
  BY <1>4 DEF Row
<1>6. r = [kind |-> IF req[h].op = "send" THEN "private" ELSE "group", members |-> Founders(h), link |-> FALSE]
  OBVIOUS
<1> HIDE DEF r
<1>7. rows' \in [ChatIds -> Row \cup {None}] /\ rows'[c] = r /\ \A d \in ChatIds : d # c => rows'[d] = rows[d]
  BY <1>2, <1>3, <1>5 DEF TypeOK
<1>8. got' \in [Handlers -> ChatIds \cup {None}] /\ got'[h] = c /\ \A g \in Handlers : g # h => got'[g] = got[g]
  BY <1>2, <1>3 DEF TypeOK
<1>9. pc' \in [Handlers -> Pcs] /\ pc'[h] = "mine" /\ \A g \in Handlers : g # h => pc'[g] = pc[g]
  BY GotoTyped DEF Create, Pcs
<1>10. UNCHANGED <<mode, plan, assoc, req, map, todo, seen, answer>>
  BY DEF Create
<1>11. Moved(h) /\ TablesOK'
  BY <1>1, <1>7, <1>8, <1>9, <1>10, TypesAre DEF Moved, Working, HandlersOK, TablesOK, StepBy, Same
<1>12. Stage(h)'
  BY <1>1, <1>8, <1>9, <1>10 DEF Stage, Others, Me, Working, Pool
<1> QED BY <1>2, <1>6, <1>7, <1>8, <1>9, <1>10, <1>11, <1>12

LEMMA WritesMove ==
    ASSUME TInv, NEW h \in Handlers, AssociateMine(h) \/ Enter(h)
    PROVE  /\ Moved(h) /\ TablesOK' /\ Stage(h)' /\ rows' = rows /\ UNCHANGED locals
           /\ pc'[h] = IF pc[h] = "mine" THEN "theirs" ELSE "enlist"
<1> USE DEF TInv
<1>0. TablesOK /\ HandlersOK
  BY TypesAre
<1>1. CASE AssociateMine(h)
  <2>1. mode = "up" /\ pc[h] = "mine" /\ req[h].op = "send" /\ req[h].key \in Users \cap Others(h)
        /\ req[h] \in Request /\ got[h] \in Privates
    BY <1>1 DEF AssociateMine, At, Staged, Stage, Pool, Working
  <2>2. pc' \in [Handlers -> Pcs] /\ pc'[h] = "theirs" /\ \A g \in Handlers : g # h => pc'[g] = pc[g]
    BY <1>1, GotoTyped DEF AssociateMine, Pcs
  <2>3. assoc' \in [Users -> Map]
    BY <1>1, <2>1, Associated, UsersAre, NoneIsNone DEF AssociateMine
  <2>4. UNCHANGED <<mode, plan, rows, req, locals, answer>>
    BY <1>1 DEF AssociateMine
  <2>5. Moved(h) /\ TablesOK'
    BY <1>0, <2>1, <2>2, <2>3, <2>4 DEF Moved, Working, HandlersOK, TablesOK, StepBy, Same, locals
  <2>6. Stage(h)'
    BY <2>1, <2>2, <2>4 DEF Stage, Others, Me, Working, Pool, locals
  <2> QED BY <2>1, <2>2, <2>4, <2>5, <2>6
<1>2. CASE Enter(h)
  <2>1. mode = "up" /\ pc[h] = "enter" /\ req[h].op = "join" /\ req[h].key \in Groups
        /\ req[h] \in Request /\ got[h] = req[h].key
    BY <1>2 DEF Enter, At, Staged, Stage, Working
  <2>2. pc' \in [Handlers -> Pcs] /\ pc'[h] = "enlist" /\ \A g \in Handlers : g # h => pc'[g] = pc[g]
    BY <1>2, GotoTyped DEF Enter, Pcs
  <2>3. assoc' \in [Users -> Map]
    BY <1>2, <2>1, Associated, UsersAre, NoneIsNone DEF Enter
  <2>4. UNCHANGED <<mode, plan, rows, req, locals, answer>>
    BY <1>2 DEF Enter
  <2>5. Moved(h) /\ TablesOK'
    BY <1>0, <2>1, <2>2, <2>3, <2>4 DEF Moved, Working, HandlersOK, TablesOK, StepBy, Same, locals
  <2>6. Stage(h)'
    BY <2>1, <2>2, <2>4 DEF Stage, Others, Me, Working, Pool, locals
  <2> QED BY <2>1, <2>2, <2>4, <2>5, <2>6
<1> QED BY <1>1, <1>2

LEMMA JoinMoves ==
    ASSUME TInv, NEW h \in Handlers, Find(h) \/ NotJoined(h)
    PROVE  /\ Moved(h) /\ UNCHANGED tables /\ Stage(h)' /\ map' = map
           /\ pc'[h] = IF pc[h] = "find" THEN "joined" ELSE "enter"
<1> USE DEF TInv
<1>0. TablesOK /\ HandlersOK
  BY TypesAre
<1>1. CASE Find(h)
  <2>1. mode = "up" /\ pc[h] = "find" /\ req[h].op = "join" /\ req[h].key \in Groups
        /\ req[h] \in Request /\ rows[req[h].key] # None
    BY <1>1 DEF Find, At, Staged, Stage, Working, Whole
  <2>2. pc' \in [Handlers -> Pcs] /\ pc'[h] = "joined" /\ \A g \in Handlers : g # h => pc'[g] = pc[g]
    BY <1>1, GotoTyped DEF Find, Pcs
  <2>3. got' \in [Handlers -> ChatIds \cup {None}] /\ got'[h] = req[h].key
        /\ \A g \in Handlers : g # h => got'[g] = got[g]
    BY <1>1, <2>1, NoneIsNone DEF Find, TypeOK
  <2>4. seen' \in [Handlers -> SUBSET Keys] /\ \A g \in Handlers : g # h => seen'[g] = seen[g]
    <3>1. Members(req[h].key) \in SUBSET Keys
      BY <2>1, MembersTyped, NoneIsNone
    <3> QED BY <1>1, <3>1 DEF Find, TypeOK
  <2>5. UNCHANGED <<mode, plan, tables, req, map, todo, answer>>
    BY <1>1 DEF Find
  <2>6. Moved(h)
    BY <1>0, <2>1, <2>2, <2>3, <2>4, <2>5 DEF Moved, Working, HandlersOK, StepBy, Same
  <2>7. Stage(h)'
    BY <2>1, <2>2, <2>3, <2>5 DEF Stage, Others, Me, Working, Pool
  <2> QED BY <2>1, <2>2, <2>5, <2>6, <2>7
<1>2. CASE NotJoined(h)
  <2>1. mode = "up" /\ pc[h] = "joined" /\ req[h].op = "join" /\ req[h].key \in Groups
        /\ req[h] \in Request /\ got[h] = req[h].key
    BY <1>2 DEF NotJoined, At, Staged, Stage, Working
  <2>2. pc' \in [Handlers -> Pcs] /\ pc'[h] = "enter" /\ \A g \in Handlers : g # h => pc'[g] = pc[g]
    BY <1>2, GotoTyped DEF NotJoined, Pcs
  <2>3. UNCHANGED <<mode, plan, tables, req, locals, answer>>
    BY <1>2 DEF NotJoined
  <2>4. Moved(h)
    BY <1>0, <2>1, <2>2, <2>3 DEF Moved, Working, HandlersOK, StepBy, Same, locals
  <2>5. Stage(h)'
    BY <2>1, <2>2, <2>3 DEF Stage, Others, Me, Working, Pool, locals
  <2> QED BY <2>1, <2>2, <2>3, <2>4, <2>5 DEF locals
<1> QED BY <1>1, <1>2

LEMMA EraseMoves ==
    ASSUME TInv, NEW h \in Handlers, EraseRow(h)
    PROVE  /\ Moved(h) /\ TablesOK' /\ Stage(h)' /\ assoc' = assoc /\ UNCHANGED locals
           /\ pc'[h] = "readMine" /\ got[h] \in ChatIds
           /\ rows'[got[h]] = None /\ \A c \in ChatIds : c # got[h] => rows'[c] = rows[c]
<1> USE DEF TInv
<1>1. mode = "up" /\ pc[h] = "erase" /\ req[h].op = "delete" /\ req[h].key \in plan.deletes \cap Others(h)
      /\ req[h] \in Request /\ got[h] \in ChatIds
  BY DEF EraseRow, At, Staged, Stage, Working
<1>2. pc' \in [Handlers -> Pcs] /\ pc'[h] = "readMine" /\ \A g \in Handlers : g # h => pc'[g] = pc[g]
  BY GotoTyped DEF EraseRow, Pcs
<1>3. rows' \in [ChatIds -> Row \cup {None}] /\ rows'[got[h]] = None
      /\ \A c \in ChatIds : c # got[h] => rows'[c] = rows[c]
  BY <1>1 DEF EraseRow, TypeOK
<1>4. UNCHANGED <<mode, plan, assoc, req, locals, answer>>
  BY DEF EraseRow
<1>5. Moved(h) /\ TablesOK'
  BY <1>1, <1>2, <1>3, <1>4, TypesAre DEF Moved, Working, HandlersOK, TablesOK, StepBy, Same, locals
<1>6. Stage(h)'
  BY <1>1, <1>2, <1>4 DEF Stage, Others, Me, Working, Pool, locals
<1> QED BY <1>1, <1>2, <1>3, <1>4, <1>5, <1>6

LEMMA ReadMapMoves ==
    ASSUME TInv, NEW h \in Handlers, ReadMap(h)
    PROVE  /\ Moved(h) /\ UNCHANGED tables /\ Stage(h)' /\ got' = got
           /\ \/ pc[h] = "readMine" /\ pc'[h] = "writeMine" /\ map'[h] = assoc[Me(h)]
              \/ /\ pc[h] = "readTheirs" /\ pc'[h] = "writeTheirs"
                 /\ req[h].key \in Users /\ map'[h] = assoc[req[h].key]
<1> USE DEF TInv
<1>0. TablesOK /\ HandlersOK
  BY TypesAre
<1>1. /\ mode = "up" /\ pc[h] \in {"readMine", "readTheirs"} /\ req[h] \in Request
      /\ req[h].op = "delete" /\ req[h].key \in plan.deletes \cap Others(h)
      /\ (pc[h] = "readTheirs" => req[h].key \in Users)
  BY DEF ReadMap, At, Staged, Stage, Working
<1> DEFINE u == IF pc[h] = "readMine" THEN Me(h) ELSE req[h].key
           p == IF pc[h] = "readMine" THEN "writeMine" ELSE "writeTheirs"
<1>2. u \in Users /\ assoc[u] \in Map
  BY <1>0, <1>1, UsersAre DEF TablesOK
<1>3. map' = [map EXCEPT ![h] = assoc[u]] /\ Goto(h, p)
  BY DEF ReadMap, At
<1>4. p \in Pcs
  BY DEF Pcs
<1>5. pc' \in [Handlers -> Pcs] /\ pc'[h] = p /\ \A g \in Handlers : g # h => pc'[g] = pc[g]
  BY <1>3, <1>4, GotoTyped
<1>6. map' \in [Handlers -> Map \cup {None}] /\ map'[h] = assoc[u] /\ \A g \in Handlers : g # h => map'[g] = map[g]
  BY <1>0, <1>2, <1>3 DEF HandlersOK
<1>7. UNCHANGED <<mode, plan, tables, req, got, todo, seen, answer>>
  BY DEF ReadMap
<1>8. Moved(h)
  BY <1>0, <1>1, <1>5, <1>6, <1>7 DEF Moved, Working, HandlersOK, StepBy, Same
<1>9. Stage(h)'
  BY <1>1, <1>2, <1>5, <1>6, <1>7 DEF Stage, Others, Me, Working, Pool
<1> QED BY <1>1, <1>5, <1>6, <1>7, <1>8, <1>9

LEMMA ForgetMineMoves ==
    ASSUME TInv, NEW h \in Handlers, ForgetMine(h), req[h].key \notin Groups
    PROVE  /\ Moved(h) /\ TablesOK' /\ Stage(h)' /\ rows' = rows /\ UNCHANGED locals
           /\ pc'[h] = "readTheirs" /\ req[h].key \in Users
<1> USE DEF TInv
<1>0. TablesOK /\ HandlersOK
  BY TypesAre
<1>1. /\ mode = "up" /\ pc[h] = "writeMine" /\ req[h] \in Request /\ map[h] \in Map
      /\ req[h].op = "delete" /\ req[h].key \in plan.deletes \cap Others(h)
  BY DEF ForgetMine, At, Staged, Stage, Working
<1>2. req[h].key \in Users /\ Goto(h, "readTheirs") /\ UNCHANGED <<mode, plan, req, locals, answer, rows>>
  BY DEF ForgetMine
<1>3. pc' \in [Handlers -> Pcs] /\ pc'[h] = "readTheirs" /\ \A g \in Handlers : g # h => pc'[g] = pc[g]
  BY <1>2, GotoTyped DEF Pcs
<1>4. assoc' \in [Users -> Map]
  BY <1>1, <1>2, Forgotten, UsersAre, NoneIsNone DEF ForgetMine, Forgets
<1>5. Moved(h) /\ TablesOK'
  BY <1>0, <1>1, <1>2, <1>3, <1>4 DEF Moved, Working, HandlersOK, TablesOK, StepBy, Same, locals
<1>6. Stage(h)'
  BY <1>1, <1>2, <1>3 DEF Stage, Others, Me, Working, Pool, locals
<1> QED BY <1>2, <1>3, <1>5, <1>6

LEMMA ListMoves ==
    ASSUME TInv, NEW h \in Handlers, ReadMine(h) \/ ListOne(h)
    PROVE  /\ UNCHANGED tables
           /\ Ended(h) \/ /\ Moved(h) /\ Stage(h)' /\ got' = got /\ pc'[h] = "list"
                          /\ \/ map'[h] = map[h] /\ pc[h] = "list"
                             \/ map'[h] = assoc[Me(h)]
<1> USE DEF TInv
<1>0. TablesOK /\ HandlersOK
  BY TypesAre
<1>1. CASE ReadMine(h)
  <2> DEFINE known == {k \in Keys : assoc[Me(h)][k] # None}
  <2>1. mode = "up" /\ pc[h] = "map" /\ req[h].op = "chats" /\ req[h] \in Request
        /\ assoc[Me(h)] \in Map
    BY <1>0, <1>1, UsersAre DEF ReadMine, At, Staged, Stage, Working, TablesOK
  <2>2. CASE Finish(h, Fine({}))
    BY <1>1, <2>1, <2>2, FinishEnds, AnswersTyped DEF ReadMine
  <2>3. CASE ~Finish(h, Fine({}))
    <3>1. /\ map' = [map EXCEPT ![h] = assoc[Me(h)]] /\ todo' = [todo EXCEPT ![h] = known] /\ Goto(h, "list")
          /\ UNCHANGED <<mode, plan, req, got, seen, answer, tables>>
      BY <1>1, <2>3, Zenon DEF ReadMine
    <3>2. pc' \in [Handlers -> Pcs] /\ pc'[h] = "list" /\ \A g \in Handlers : g # h => pc'[g] = pc[g]
      BY <3>1, GotoTyped DEF Pcs
    <3>3. map' \in [Handlers -> Map \cup {None}] /\ map'[h] = assoc[Me(h)] /\ \A g \in Handlers : g # h => map'[g] = map[g]
      BY <1>0, <2>1, <3>1 DEF HandlersOK
    <3>4. known \subseteq Keys /\ \A k \in known : assoc[Me(h)][k] # None
      OBVIOUS
    <3> HIDE DEF known
    <3>5. todo' \in [Handlers -> SUBSET Keys] /\ todo'[h] = known /\ \A g \in Handlers : g # h => todo'[g] = todo[g]
      BY <1>0, <3>1, <3>4 DEF HandlersOK
    <3>6. Moved(h)
      BY <1>0, <2>1, <3>1, <3>2, <3>3, <3>5 DEF Moved, Working, HandlersOK, StepBy, Same
    <3>7. Stage(h)'
      BY <2>1, <3>1, <3>2, <3>3, <3>4, <3>5 DEF Stage, Others, Me, Working, Pool
    <3> QED BY <3>1, <3>2, <3>3, <3>6, <3>7
  <2> QED BY <2>2, <2>3
<1>2. CASE ListOne(h)
  <2>1. mode = "up" /\ pc[h] = "list" /\ req[h].op = "chats" /\ req[h] \in Request
        /\ map[h] \in Map /\ todo[h] \in SUBSET Keys /\ \A k \in todo[h] : map[h][k] # None
    BY <1>0, <1>2 DEF ListOne, At, Staged, Stage, Working, HandlersOK
  <2> DEFINE Listed(k) == seen[h] \cup IF rows[map[h][k]] = None THEN {} ELSE {k}
  <2>2. PICK k \in todo[h] :
          \/ Finish(h, Fine(Listed(k)))
          \/ /\ todo' = [todo EXCEPT ![h] = @ \ {k}]
             /\ seen' = [seen EXCEPT ![h] = Listed(k)]
             /\ UNCHANGED <<mode, plan, pc, req, got, map, answer>>
    BY <1>2 DEF ListOne
  <2>3. Listed(k) \in SUBSET Keys
    BY <1>0, <2>1 DEF HandlersOK
  <2>4. tables' = tables
    BY <1>2 DEF ListOne
  <2> HIDE DEF Listed
  <2>5. CASE Finish(h, Fine(Listed(k)))
    BY <2>1, <2>3, <2>4, <2>5, FinishEnds, AnswersTyped
  <2>6. CASE /\ todo' = [todo EXCEPT ![h] = @ \ {k}]
             /\ seen' = [seen EXCEPT ![h] = Listed(k)]
             /\ UNCHANGED <<mode, plan, pc, req, got, map, answer>>
    <3>1. todo' \in [Handlers -> SUBSET Keys] /\ todo'[h] = todo[h] \ {k} /\ \A g \in Handlers : g # h => todo'[g] = todo[g]
      BY <1>0, <2>6 DEF HandlersOK
    <3>2. seen' \in [Handlers -> SUBSET Keys] /\ \A g \in Handlers : g # h => seen'[g] = seen[g]
      BY <1>0, <2>3, <2>6 DEF HandlersOK
    <3>3. Moved(h)
      BY <1>0, <2>1, <2>6, <3>1, <3>2 DEF Moved, Working, HandlersOK, StepBy, Same
    <3>4. Stage(h)'
      BY <2>1, <2>6, <3>1 DEF Stage, Others, Me, Working, Pool
    <3> QED BY <2>1, <2>4, <2>6, <3>3, <3>4
  <2> QED BY <2>2, <2>5, <2>6
<1> QED BY <1>1, <1>2

(* A request that begins.                                                   *)
Asked(h, r) ==
    /\ HandlersOK' /\ StepBy(h) /\ mode' = mode /\ mode = "up" /\ UNCHANGED tables
    /\ r \in Request /\ Sensible(h, r) /\ pc[h] = "idle"
    /\ \A g \in Handlers \ {h} : Working(g) => {r.op, req[g].op} \notin plan.apart
    /\ pc'[h] = FirstPc(r) /\ req' = [req EXCEPT ![h] = r] /\ req'[h] = r /\ map' = map
    /\ got'[h] = IF FirstPc(r) = "chat" THEN r.key ELSE None
    /\ answer' = [answer EXCEPT ![h] = Silent]

LEMMA AskAsks ==
    ASSUME TInv, NEW h \in Handlers, Ask(h)
    PROVE  (\E r \in Request : Asked(h, r)) /\ Stage(h)'
<1> USE DEF TInv
<1>1. PICK r \in Request :
        /\ Sensible(h, r)
        /\ \A g \in Handlers \ {h} : Working(g) => {r.op, req[g].op} \notin plan.apart
        /\ req' = [req EXCEPT ![h] = r]
        /\ got' = [got EXCEPT ![h] = IF FirstPc(r) = "chat" THEN r.key ELSE None]
        /\ Goto(h, FirstPc(r))
  BY DEF Ask
<1>2. mode = "up" /\ pc[h] = "idle" /\ UNCHANGED <<mode, plan, tables, map, todo, seen>>
      /\ answer' = [answer EXCEPT ![h] = Silent]
  BY DEF Ask, At
<1>3. FirstPc(r) \in {"chat", "create", "find", "map", "lookup"}
      /\ (FirstPc(r) = "chat" <=> r.op = "send" /\ r.key \in Groups)
  BY DEF FirstPc
<1>4. FirstPc(r) \in Pcs
  BY <1>3 DEF Pcs
<1>5. pc' \in [Handlers -> Pcs] /\ pc'[h] = FirstPc(r) /\ \A g \in Handlers : g # h => pc'[g] = pc[g]
  BY <1>1, <1>4, GotoTyped
<1>6. req' \in [Handlers -> Request \cup {None}] /\ req'[h] = r /\ \A g \in Handlers : g # h => req'[g] = req[g]
  BY <1>1 DEF TypeOK
<1> DEFINE c == IF FirstPc(r) = "chat" THEN r.key ELSE None
<1>7. c \in ChatIds \cup {None}
  BY <1>3, NoneIsNone
<1>8. got' \in [Handlers -> ChatIds \cup {None}] /\ got'[h] = c /\ \A g \in Handlers : g # h => got'[g] = got[g]
  BY <1>1, <1>7 DEF TypeOK
<1>9. answer' \in [Handlers -> Answers]
  BY <1>2, AnswersTyped DEF TypeOK
<1>10. Asked(h, r)
  BY <1>1, <1>2, <1>5, <1>6, <1>8, <1>9, TypesAre DEF Asked, HandlersOK, StepBy, Same
<1>11. Stage(h)'
  <2>1. r.op \in Ops /\ r.key \in Keys \cup {None} /\ None \notin Keys
    BY NoneIsNone DEF Request
  <2>2. FirstPc(r) = "lookup" =>
          /\ r.op \in {"send", "link", "touch", "info", "delete"}
          /\ r.op = "send" => r.key \notin Groups
    BY <2>1 DEF FirstPc, Ops
  <2>3. FirstPc(r) = "create" => r.op = "group"
    BY DEF FirstPc
  <2>4. FirstPc(r) = "find" => r.op = "join"
    BY DEF FirstPc
  <2>5. FirstPc(r) = "map" => r.op = "chats"
    BY DEF FirstPc
  <2>6. /\ r.op = "send" => r.key \in Others(h)
        /\ r.op = "join" => r.key \in Groups
        /\ r.op = "delete" => r.key \in plan.deletes \cap Others(h)
        /\ r.op \in {"link", "touch", "info"} => r.key \in Others(h)
    <3>1. plan.deletes \subseteq Keys
      BY ChatsAssumption DEF TypeOK, PlanType
    <3> QED BY <1>1, <3>1 DEF Sensible, Others
  <2>7. Others(h)' = Others(h) /\ Working(h)' /\ plan' = plan
    BY <1>2, <1>3, <1>5 DEF Others, Me, Working
  <2>8. FirstPc(r) = "lookup" /\ r.op = "send" => r.key \in Users
    BY <2>2, <2>6, NoneIsNone DEF Others
  <2> QED BY <1>3, <1>5, <1>6, <1>7, <1>8, <2>1, <2>2, <2>3, <2>4, <2>5, <2>6, <2>7, <2>8, NoneIsNone DEF Stage
<1> QED BY <1>10, <1>11

Panics ==
    /\ mode = "up" /\ mode' = "panicked" /\ UNCHANGED <<plan, tables, pc, req, locals, answer>>

LEMMA PanicsAre ==
    ASSUME NEW h \in Handlers, ChatExpected(h) \/ ListUnwraps(h) \/ QueryUnwraps(h) PROVE Panics
BY DEF ChatExpected, ListUnwraps, QueryUnwraps, Panic, Panics, At

LEMMA EndedStage ==
    ASSUME NEW h \in Handlers, Ended(h) PROVE Stage(h)'
BY DEF Ended, Stage, Working

LEMMA ActsTyped ==
    ASSUME TInv, NEW h \in Handlers, Acts(h)
    PROVE  /\ TablesOK' /\ HandlersOK' /\ Stage(h)'
           /\ Ended(h) \/ Moved(h) \/ (\E r \in Request : Asked(h, r)) \/ Panics
<1>0. TablesOK /\ HandlersOK
  BY TypesAre DEF TInv
<1>1. UNCHANGED tables => TablesOK'
  BY <1>0 DEF TablesOK, tables
<1>2. CASE LookupFails(h) \/ TouchPrivate(h) \/ ReadChat(h) \/ FindFails(h) \/ AlreadyJoined(h) \/ QueryFails(h)
  BY <1>1, <1>2, EndsUnchanged, EndedStage DEF Ended
<1>3. CASE \/ CreatedGroup(h) \/ AssociateTheirs(h) \/ Link(h) \/ Enlist(h) \/ ForgetTheirs(h)
           \/ ForgetMine(h) /\ req[h].key \in Groups
  BY <1>3, EndsWithTables, EndedStage DEF Ended
<1>4. CASE Lookup(h)
  BY <1>1, <1>4, LookupMoves DEF Moved
<1>5. CASE Create(h)
  BY <1>5, CreateMoves DEF Moved
<1>6. CASE AssociateMine(h) \/ Enter(h)
  BY <1>6, WritesMove DEF Moved
<1>7. CASE Find(h) \/ NotJoined(h)
  BY <1>1, <1>7, JoinMoves DEF Moved
<1>8. CASE EraseRow(h)
  BY <1>8, EraseMoves DEF Moved
<1>9. CASE ReadMap(h)
  BY <1>1, <1>9, ReadMapMoves DEF Moved
<1>10. CASE ForgetMine(h) /\ req[h].key \notin Groups
  BY <1>10, ForgetMineMoves DEF Moved
<1>11. CASE ReadMine(h) \/ ListOne(h)
  BY <1>1, <1>11, ListMoves, EndedStage DEF Moved, Ended
<1>12. CASE Ask(h)
  BY <1>1, <1>12, AskAsks DEF Asked
<1>13. CASE ChatExpected(h) \/ ListUnwraps(h) \/ QueryUnwraps(h)
  <2>1. Panics
    BY <1>13, PanicsAre
  <2>2. Stage(h)
    BY DEF TInv, Staged
  <2> QED BY <1>0, <1>1, <2>1, <2>2 DEF Panics, HandlersOK, Stage, locals, Working, Others, Me
<1> QED BY <1>2, <1>3, <1>4, <1>5, <1>6, <1>7, <1>8, <1>9, <1>10, <1>11, <1>12, <1>13 DEF Acts

LEMMA ActsStepBy ==
    ASSUME TInv, NEW h \in Handlers, Acts(h) PROVE StepBy(h)
<1>1. CASE Panics
  BY <1>1 DEF Panics, StepBy, Same, locals
<1> QED BY <1>1, ActsTyped DEF Ended, Moved, Asked

LEMMA SameStage ==
    ASSUME NEW g \in Handlers, Stage(g), Same(g), plan' = plan PROVE Stage(g)'
BY DEF Stage, Same, Working, Others, Me

Restarted ==
    /\ mode' = "up" /\ UNCHANGED <<plan, tables>>
    /\ \A h \in Handlers :
        /\ pc'[h] = "idle" /\ req'[h] = None /\ got'[h] = None /\ map'[h] = None
        /\ answer'[h] = Silent

LEMMA RestartTyped ==
    ASSUME TInv, Restart PROVE Restarted /\ TInv'
<1>1. Restarted
  BY DEF Restart, Restarted
<1>2. TablesOK'
  BY <1>1, TypesAre DEF TInv, TablesOK, Restarted, tables
<1>3. pc' \in [Handlers -> Pcs] /\ req' \in [Handlers -> Request \cup {None}]
      /\ got' \in [Handlers -> ChatIds \cup {None}] /\ map' \in [Handlers -> Map \cup {None}]
      /\ todo' \in [Handlers -> SUBSET Keys] /\ seen' \in [Handlers -> SUBSET Keys]
  BY DEF Restart, Pcs
<1>4. answer' \in [Handlers -> Answers]
  BY AnswersTyped DEF Restart
<1>5. HandlersOK'
  BY <1>1, <1>3, <1>4 DEF TInv, TypeOK, HandlersOK, Restarted
<1>6. Staged'
  BY <1>1 DEF Staged, Stage, Restarted, Working
<1> QED BY <1>1, <1>2, <1>5, <1>6, TypesAre DEF TInv, TypeOK, TablesOK, HandlersOK, Map

LEMMA StepTyped == TInv /\ [Next]_vars => TInv'
<1> SUFFICES ASSUME TInv, [Next]_vars PROVE TInv'
  OBVIOUS
<1>1. CASE UNCHANGED vars
  <2>1. TypeOK'
    BY <1>1 DEF TInv, TypeOK, vars, tables, locals
  <2>2. \A h \in Handlers : Stage(h) => Stage(h)'
    BY <1>1, SameStage DEF Same, vars, tables, locals
  <2> QED BY <2>1, <2>2 DEF TInv, Staged
<1>2. CASE Restart
  BY <1>2, RestartTyped
<1>3. ASSUME NEW h \in Handlers, Acts(h) PROVE TInv'
  <2>1. TypeOK'
    BY <1>3, ActsTyped DEF TypeOK, TablesOK, HandlersOK, Map
  <2>2. \A g \in Handlers : Stage(g)'
    BY <1>3, ActsTyped, ActsStepBy, SameStage DEF StepBy, TInv, Staged
  <2> QED BY <2>1, <2>2 DEF TInv, Staged
<1> QED BY <1>1, <1>2, <1>3, NextActs

LEMMA InitTInv == Init => TInv
BY InitTyped DEF TInv, Staged, Stage, Init, Working

(* Every table, map and request is well formed, and a handler that is at a
   query has the request and the ids it needs for it.                       *)
THEOREM TypeCorrect == Spec => []TInv
BY InitTInv, StepTyped, PTL DEF Spec

-----------------------------------------------------------------------------
(* What the steps do to the tables.                                         *)

(* One entry of a map is written; a map that was read is written back
   without one of its entries.                                              *)
Puts(u, k, c) ==
    /\ assoc'[u][k] = c
    /\ \A v \in Users, j \in Keys : v # u \/ j # k => assoc'[v][j] = assoc[v][j]

Drops(u, m, k) ==
    /\ assoc'[u][k] = None
    /\ \A j \in Keys : j # k => assoc'[u][j] = m[j]
    /\ \A v \in Users : v # u => assoc'[v] = assoc[v]

(* The handlers that write maps, at their queries.                          *)
Writes(h) ==
    \/ pc[h] = "mine" /\ req[h].op = "group" /\ Puts(Me(h), got[h], got[h]) /\ Ended(h)
    \/ pc[h] = "mine" /\ req[h].op = "send" /\ Puts(Me(h), req[h].key, got[h])
       /\ Moved(h) /\ pc'[h] = "theirs" /\ UNCHANGED locals
    \/ pc[h] = "theirs" /\ Puts(req[h].key, Me(h), got[h]) /\ Ended(h)
    \/ pc[h] = "enter" /\ Puts(Me(h), got[h], got[h])
       /\ Moved(h) /\ pc'[h] = "enlist" /\ UNCHANGED locals
    \/ pc[h] = "writeMine" /\ req[h].key \in Groups /\ Drops(Me(h), map[h], req[h].key) /\ Ended(h)
    \/ pc[h] = "writeMine" /\ req[h].key \in Users /\ Drops(Me(h), map[h], req[h].key)
       /\ Moved(h) /\ pc'[h] = "readTheirs" /\ UNCHANGED locals
    \/ pc[h] = "writeTheirs" /\ Drops(req[h].key, map[h], Me(h)) /\ Ended(h)

LEMMA WritersWrite ==
    ASSUME TInv, NEW h \in Handlers,
           CreatedGroup(h) \/ AssociateMine(h) \/ AssociateTheirs(h) \/ Enter(h) \/ ForgetMine(h) \/ ForgetTheirs(h)
    PROVE  Writes(h) /\ rows' = rows
<1> USE DEF TInv
<1>0. Stage(h) /\ Me(h) \in Users /\ Me(h) \in Keys
  BY UsersAre, NoneIsNone DEF Staged
<1>1. CASE CreatedGroup(h)
  <2>1. pc[h] = "mine" /\ req[h].op = "group" /\ Associate(Me(h), got[h], got[h]) /\ rows' = rows
    BY <1>1 DEF CreatedGroup, At
  <2>2. got[h] \in Groups /\ got[h] \in Keys /\ got[h] \in ChatIds
    BY <1>0, <2>1, NoneIsNone DEF Stage, Pool
  <2>3. Puts(Me(h), got[h], got[h])
    BY <1>0, <2>1, <2>2, Associated DEF Puts
  <2> QED BY <1>1, <2>1, <2>3, EndsWithTables DEF Writes
<1>2. CASE AssociateMine(h)
  <2>1. pc[h] = "mine" /\ req[h].op = "send" /\ Associate(Me(h), req[h].key, got[h]) /\ rows' = rows
    BY <1>2 DEF AssociateMine, At
  <2>2. req[h].key \in Keys /\ got[h] \in ChatIds
    BY <1>0, <2>1, NoneIsNone DEF Stage, Pool
  <2>3. Puts(Me(h), req[h].key, got[h])
    BY <1>0, <2>1, <2>2, Associated DEF Puts
  <2> QED BY <1>2, <2>1, <2>3, WritesMove DEF Writes
<1>3. CASE AssociateTheirs(h)
  <2>1. pc[h] = "theirs" /\ Associate(req[h].key, Me(h), got[h]) /\ rows' = rows
    BY <1>3 DEF AssociateTheirs, At
  <2>2. req[h].key \in Users /\ got[h] \in ChatIds
    BY <1>0, <2>1, NoneIsNone DEF Stage
  <2>3. Puts(req[h].key, Me(h), got[h])
    BY <1>0, <2>1, <2>2, Associated DEF Puts
  <2> QED BY <1>3, <2>1, <2>3, EndsWithTables DEF Writes
<1>4. CASE Enter(h)
  <2>1. pc[h] = "enter" /\ Associate(Me(h), got[h], got[h]) /\ rows' = rows
    BY <1>4 DEF Enter, At
  <2>2. got[h] \in Groups /\ got[h] \in Keys /\ got[h] \in ChatIds
    BY <1>0, <2>1, NoneIsNone DEF Stage
  <2>3. Puts(Me(h), got[h], got[h])
    BY <1>0, <2>1, <2>2, Associated DEF Puts
  <2> QED BY <1>4, <2>1, <2>3, WritesMove DEF Writes
<1>5. CASE ForgetMine(h)
  <2>1. pc[h] = "writeMine" /\ Forgets(Me(h), map[h], req[h].key) /\ rows' = rows
    BY <1>5 DEF ForgetMine, At, Forgets
  <2>2. req[h].key \in Keys /\ map[h] \in Map
    BY <1>0, <2>1 DEF Stage, Others
  <2>3. Drops(Me(h), map[h], req[h].key)
    BY <1>0, <2>1, <2>2, Forgotten DEF Drops
  <2> QED BY <1>5, <2>1, <2>3, EndsWithTables, ForgetMineMoves DEF Writes
<1>6. CASE ForgetTheirs(h)
  <2>1. pc[h] = "writeTheirs" /\ Forgets(req[h].key, map[h], Me(h)) /\ rows' = rows
    BY <1>6 DEF ForgetTheirs, At, Forgets
  <2>2. req[h].key \in Users /\ map[h] \in Map
    BY <1>0, <2>1 DEF Stage
  <2>3. Drops(req[h].key, map[h], Me(h))
    BY <1>0, <2>1, <2>2, Forgotten DEF Drops
  <2> QED BY <1>6, <2>1, <2>3, EndsWithTables DEF Writes
<1> QED BY <1>1, <1>2, <1>3, <1>4, <1>5, <1>6

(* The handlers that write rows.                                            *)
Sets(c, r) == rows'[c] = r /\ \A d \in ChatIds : d # c => rows'[d] = rows[d]

Rewrites(h) ==
    \/ pc[h] = "create" /\ Moved(h) /\ pc'[h] = "mine" /\ map' = map
       /\ got'[h] \in Pool(req[h].op) /\ ~Referred(got'[h])
       /\ Sets(got'[h], [kind |-> IF req[h].op = "send" THEN "private" ELSE "group",
                         members |-> Founders(h), link |-> FALSE])
    \/ pc[h] = "link" /\ Ended(h) /\ Sets(got[h], [Existing(got[h]) EXCEPT !.link = TRUE])
    \/ pc[h] = "enlist" /\ Ended(h) /\ Sets(got[h], [Existing(got[h]) EXCEPT !.members = Append(@, Me(h))])
    \/ pc[h] = "erase" /\ Moved(h) /\ pc'[h] = "readMine" /\ UNCHANGED locals /\ Sets(got[h], None)

LEMMA RewritersRewrite ==
    ASSUME TInv, NEW h \in Handlers, Create(h) \/ Link(h) \/ Enlist(h) \/ EraseRow(h)
    PROVE  Rewrites(h) /\ assoc' = assoc
<1>0. Stage(h)
  BY DEF TInv, Staged
<1>1. CASE Create(h)
  <2>1. pc[h] = "create"
    BY <1>1 DEF Create, At
  <2> QED BY <1>1, <2>1, CreateMoves DEF Rewrites, Sets
<1>2. CASE Link(h)
  <2> DEFINE r == [Existing(got[h]) EXCEPT !.link = TRUE]
  <2>1. pc[h] = "link" /\ rows' = [rows EXCEPT ![got[h]] = r] /\ assoc' = assoc
    BY <1>2 DEF Link, At
  <2> HIDE DEF r
  <2>2. Sets(got[h], r)
    BY <1>0, <2>1 DEF Sets, TInv, TypeOK, Stage
  <2> QED BY <1>2, <2>1, <2>2, EndsWithTables DEF Rewrites, r
<1>3. CASE Enlist(h)
  <2> DEFINE r == [Existing(got[h]) EXCEPT !.members = Append(@, Me(h))]
  <2>1. pc[h] = "enlist" /\ rows' = [rows EXCEPT ![got[h]] = r] /\ assoc' = assoc
    BY <1>3 DEF Enlist, At
  <2> HIDE DEF r
  <2>2. Sets(got[h], r)
    BY <1>0, <2>1, NoneIsNone DEF Sets, TInv, TypeOK, Stage
  <2> QED BY <1>3, <2>1, <2>2, EndsWithTables, Zenon DEF Rewrites, r
<1>4. CASE EraseRow(h)
  <2>1. pc[h] = "erase"
    BY <1>4 DEF EraseRow, At
  <2> QED BY <1>4, <2>1, EraseMoves DEF Rewrites, Sets
<1> QED BY <1>1, <1>2, <1>3, <1>4

(* The handlers that only look.                                             *)
Looks(h) ==
    /\ UNCHANGED tables
    /\ \/ Ended(h)
       \/ \E r \in Request : Asked(h, r)
       \/ /\ pc[h] = "lookup" /\ Moved(h) /\ got'[h] = Own(h) /\ map' = map
          /\ \/ Own(h) = None /\ req[h].op = "send" /\ pc'[h] = "create"
             \/ ~Unknown(h) /\ ~(req[h].op = "touch" /\ req[h].key \in Users) /\ pc'[h] = NextPc(h)
       \/ pc[h] = "find" /\ Moved(h) /\ pc'[h] = "joined" /\ map' = map
          /\ Linked(req[h].key) /\ Whole(req[h].key)
       \/ pc[h] = "joined" /\ Moved(h) /\ pc'[h] = "enter" /\ UNCHANGED locals /\ Own(h) = None
       \/ pc[h] = "readMine" /\ Moved(h) /\ pc'[h] = "writeMine" /\ got' = got /\ map'[h] = assoc[Me(h)]
       \/ pc[h] = "readTheirs" /\ Moved(h) /\ pc'[h] = "writeTheirs" /\ got' = got
          /\ req[h].key \in Users /\ map'[h] = assoc[req[h].key]
       \/ pc[h] \in {"map", "list"} /\ Moved(h) /\ pc'[h] = "list" /\ got' = got
          /\ (map'[h] = map[h] \/ map'[h] = assoc[Me(h)])

Unwraps(h) == Panics /\ (ChatExpected(h) \/ ListUnwraps(h) \/ QueryUnwraps(h))

LEMMA LookersLook ==
    ASSUME TInv, NEW h \in Handlers,
           \/ Ask(h) \/ LookupFails(h) \/ TouchPrivate(h) \/ Lookup(h) \/ ReadChat(h)
           \/ FindFails(h) \/ Find(h) \/ AlreadyJoined(h) \/ NotJoined(h)
           \/ ReadMap(h) \/ ReadMine(h) \/ ListOne(h) \/ QueryFails(h)
    PROVE  Looks(h)
<1>1. CASE Ask(h)
  BY <1>1, AskAsks DEF Looks, Asked
<1>2. CASE LookupFails(h) \/ TouchPrivate(h) \/ ReadChat(h) \/ FindFails(h) \/ AlreadyJoined(h) \/ QueryFails(h)
  BY <1>2, EndsUnchanged DEF Looks
<1>3. CASE Lookup(h)
  <2>1. pc[h] = "lookup"
    BY <1>3 DEF Lookup, At
  <2> QED BY <1>3, <2>1, LookupMoves DEF Looks
<1>4. CASE Find(h)
  <2>1. pc[h] = "find" /\ Linked(req[h].key) /\ Whole(req[h].key)
    BY <1>4 DEF Find, At
  <2> QED BY <1>4, <2>1, JoinMoves DEF Looks
<1>5. CASE NotJoined(h)
  <2>1. pc[h] = "joined" /\ UNCHANGED locals /\ Own(h) = None
    BY <1>5 DEF NotJoined, At
  <2> QED BY <1>5, <2>1, JoinMoves DEF Looks
<1>6. CASE ReadMap(h)
  BY <1>6, ReadMapMoves DEF Looks
<1>7. CASE ReadMine(h) \/ ListOne(h)
  <2>1. pc[h] \in {"map", "list"}
    BY <1>7 DEF ReadMine, ListOne, At
  <2> QED BY <1>7, <2>1, ListMoves DEF Looks
<1> QED BY <1>1, <1>2, <1>3, <1>4, <1>5, <1>6, <1>7

LEMMA ActsDo ==
    ASSUME TInv, NEW h \in Handlers, Acts(h)
    PROVE  /\ (Writes(h) /\ rows' = rows) \/ (Rewrites(h) /\ assoc' = assoc) \/ Looks(h) \/ Unwraps(h)
           /\ TInv /\ TInv' /\ Stage(h) /\ Stage(h)' /\ StepBy(h) /\ Me(h) \in Users /\ mode = "up"
<1>1. (Writes(h) /\ rows' = rows) \/ (Rewrites(h) /\ assoc' = assoc) \/ Looks(h) \/ Unwraps(h)
  BY WritersWrite, RewritersRewrite, LookersLook, PanicsAre, Zenon DEF Acts, Unwraps
<1>2. TypeOK'
  BY ActsTyped DEF TypeOK, TablesOK, HandlersOK, Map
<1>3. \A g \in Handlers : Stage(g) /\ Stage(g)'
  BY ActsTyped, ActsStepBy, SameStage DEF StepBy, TInv, Staged
<1>4. mode = "up"
  BY ActsTyped DEF Ended, Moved, Asked, Panics
<1> QED BY <1>1, <1>2, <1>3, <1>4, ActsStepBy, UsersAre DEF TInv, Staged

-----------------------------------------------------------------------------
(* A group is named by its own id and a private chat by a user, in every map
   and by every handler.                                                    *)

Keyed(m) ==
    /\ \A g \in Groups : m[g] \in {None, g}
    /\ \A v \in Users : m[v] \in Privates \cup {None}

Holds(h) ==
    /\ map[h] # None => Keyed(map[h])
    /\ pc[h] \in {"chat", "link", "erase"} =>
        /\ req[h].key \in Groups => got[h] = req[h].key
        /\ req[h].key \in Users => got[h] \in Privates

KInv == (\A u \in Users : Keyed(assoc[u])) /\ \A h \in Handlers : Holds(h)

LEMMA SameHolds ==
    ASSUME NEW g \in Handlers, Holds(g), Same(g) PROVE Holds(g)'
BY DEF Holds, Same, Keyed

LEMMA HoldsStill ==
    ASSUME NEW g \in Handlers, Holds(g), map'[g] = map[g],
           pc'[g] \in {"chat", "link", "erase"} =>
               /\ req'[g].key \in Groups => got'[g] = req'[g].key
               /\ req'[g].key \in Users => got'[g] \in Privates
    PROVE  Holds(g)'
<1>1. map'[g] # None => Keyed(map'[g])
  BY DEF Holds
<1> QED BY <1>1 DEF Holds, Keyed

LEMMA PutsKeyed ==
    ASSUME KInv, NEW u \in Users, NEW k \in Keys, NEW c, Puts(u, k, c),
           k \in Groups => c = k, k \in Users => c \in Privates
    PROVE  \A v \in Users : Keyed(assoc[v])'
BY NoneIsNone DEF Puts, KInv, Keyed

LEMMA DropsKeyed ==
    ASSUME KInv, NEW u \in Users, NEW k \in Keys, NEW m, Keyed(m), Drops(u, m, k)
    PROVE  \A v \in Users : Keyed(assoc[v])'
BY NoneIsNone DEF Drops, KInv, Keyed

LEMMA ActsKeyed ==
    ASSUME TInv, KInv, NEW h \in Handlers, Acts(h)
    PROVE  (\A u \in Users : Keyed(assoc[u])') /\ Holds(h)'
<1>1. Stage(h) /\ Holds(h) /\ Stage(h)' /\ Me(h) \in Users /\ Me(h) \in Keys /\ TInv'
  BY ActsDo, NoneIsNone DEF KInv
<1>2. ASSUME Ended(h) PROVE Holds(h)'
  BY <1>2 DEF Ended, Holds
<1>3. CASE Writes(h)
  <2>1. Holds(h)'
    <3>1. ASSUME Moved(h), UNCHANGED locals, pc'[h] \in {"theirs", "enlist", "readTheirs"} PROVE Holds(h)'
      BY <1>1, <3>1 DEF Moved, Holds, Keyed, locals
    <3> QED BY <1>2, <1>3, <3>1 DEF Writes
  <2>2. \A u \in Users : Keyed(assoc[u])'
    <3>1. CASE pc[h] = "mine" /\ req[h].op = "group"
      <4>1. got[h] \in Groups /\ Puts(Me(h), got[h], got[h])
        BY <1>1, <1>3, <3>1 DEF Writes, Stage, Pool
      <4> QED BY <1>1, <4>1, PutsKeyed, NoneIsNone
    <3>2. CASE pc[h] = "mine" /\ req[h].op = "send"
      <4>1. req[h].key \in Users /\ got[h] \in Privates /\ Puts(Me(h), req[h].key, got[h])
        BY <1>1, <1>3, <3>2 DEF Writes, Stage, Pool
      <4> QED BY <1>1, <4>1, PutsKeyed, NoneIsNone
    <3>3. CASE pc[h] = "theirs"
      <4>1. req[h].key \in Users /\ got[h] \in Privates /\ Puts(req[h].key, Me(h), got[h])
        BY <1>1, <1>3, <3>3 DEF Writes, Stage
      <4> QED BY <1>1, <4>1, PutsKeyed, NoneIsNone
    <3>4. CASE pc[h] = "enter"
      <4>1. got[h] \in Groups /\ Puts(Me(h), got[h], got[h])
        BY <1>1, <1>3, <3>4 DEF Writes, Stage
      <4> QED BY <1>1, <4>1, PutsKeyed, NoneIsNone
    <3>5. CASE pc[h] \in {"writeMine", "writeTheirs"}
      <4>1. map[h] # None /\ req[h].key \in Keys
        BY <1>1, <3>5, NoneIsNone DEF Stage, Others
      <4>2. Keyed(map[h])
        BY <1>1, <4>1 DEF Holds
      <4>3. Drops(Me(h), map[h], req[h].key) \/ (req[h].key \in Users /\ Drops(req[h].key, map[h], Me(h)))
        BY <1>1, <1>3, <3>5 DEF Writes, Stage
      <4> QED BY <1>1, <4>1, <4>2, <4>3, DropsKeyed
    <3> QED BY <1>3, <3>1, <3>2, <3>3, <3>4, <3>5 DEF Writes
  <2> QED BY <2>1, <2>2
<1>4. CASE Rewrites(h) /\ assoc' = assoc
  <2>1. \A u \in Users : Keyed(assoc[u])'
    BY <1>4 DEF KInv, Keyed
  <2>2. ASSUME Moved(h), map' = map, pc'[h] \in {"mine", "readMine"} PROVE Holds(h)'
    BY <1>1, <2>2 DEF Holds, Keyed
  <2> QED BY <1>2, <1>4, <2>1, <2>2 DEF Rewrites, locals
<1>5. CASE Looks(h)
  <2>1. \A u \in Users : Keyed(assoc[u])'
    BY <1>5 DEF KInv, Keyed, Looks, tables
  <2>2. ASSUME NEW r \in Request, Asked(h, r) PROVE Holds(h)'
    <3>1. FirstPc(r) \in {"chat", "create", "find", "map", "lookup"}
          /\ (FirstPc(r) = "chat" => r.op = "send" /\ r.key \in Groups)
      BY DEF FirstPc
    <3> QED BY <1>1, <2>2, <3>1, NoneIsNone DEF Asked, Holds, Keyed
  <2>3. CASE pc[h] = "lookup" /\ Moved(h) /\ got'[h] = Own(h) /\ map' = map
             /\ \/ Own(h) = None /\ req[h].op = "send" /\ pc'[h] = "create"
                \/ ~Unknown(h) /\ pc'[h] = NextPc(h)
    <3>1. CASE pc'[h] = "create"
      BY <1>1, <2>1, <2>3, <3>1, HoldsStill
    <3>2. CASE ~Unknown(h)
      <4>1. Own(h) # None /\ req[h].key \in Keys /\ Own(h) = assoc[Me(h)][req[h].key]
        BY <1>1, <2>3, <3>2 DEF Unknown, Own, Stage, Others
      <4>2. Keyed(assoc[Me(h)])
        BY <1>1 DEF KInv
      <4>3. (req[h].key \in Groups => Own(h) = req[h].key) /\ (req[h].key \in Users => Own(h) \in Privates)
        BY <4>1, <4>2 DEF Keyed
      <4>4. req'[h] = req[h] /\ map'[h] = map[h] /\ got'[h] = Own(h)
        BY <2>3 DEF Moved
      <4> QED BY <1>1, <2>1, <4>3, <4>4, HoldsStill
    <3> QED BY <2>3, <3>1, <3>2
  <2>4. ASSUME Moved(h), pc'[h] \in {"joined", "enter", "writeMine", "writeTheirs", "list"},
               map'[h] = map[h] \/ (\E u \in Users : map'[h] = assoc[u])
        PROVE  Holds(h)'
    BY <1>1, <2>4 DEF Moved, Holds, KInv, Keyed
  <2>5. (Moved(h) /\ pc'[h] \in {"joined", "enter"} /\ (map' = map \/ UNCHANGED locals)) => map'[h] = map[h]
    BY DEF locals
  <2> QED BY <1>1, <1>2, <1>5, <2>1, <2>2, <2>3, <2>4, <2>5 DEF Looks
<1>6. CASE Unwraps(h)
  <2>1. Same(h) /\ assoc' = assoc
    BY <1>6 DEF Unwraps, Panics, Same, locals, tables
  <2> QED BY <1>1, <2>1, SameHolds DEF KInv, Keyed
<1> QED BY <1>3, <1>4, <1>5, <1>6, ActsDo

LEMMA StepKInv == TInv /\ KInv /\ [Next]_vars => KInv'
<1> SUFFICES ASSUME TInv, KInv, [Next]_vars PROVE KInv'
  OBVIOUS
<1>1. CASE UNCHANGED vars
  BY <1>1 DEF vars, tables, locals, KInv, Holds, Keyed
<1>2. CASE Restart
  BY <1>2, RestartTyped DEF Restarted, tables, KInv, Holds, Keyed
<1>3. ASSUME NEW h \in Handlers, Acts(h) PROVE KInv'
  BY <1>3, ActsKeyed, ActsStepBy, SameHolds DEF KInv, StepBy
<1> QED BY <1>1, <1>2, <1>3, NextActs

LEMMA InitKInv == Init => KInv
BY NoneIsNone DEF Init, KInv, Holds, Keyed

-----------------------------------------------------------------------------
(* While nobody deletes a group, a group that a map names has a row, and no
   row is ever added by an update.                                          *)

Rowed(h) ==
    \/ pc[h] = "mine" /\ req[h].op = "group"
    \/ pc[h] \in {"link", "joined", "enter", "enlist"}
    \/ pc[h] = "chat" /\ req[h].op = "touch"

GInv ==
    Steady =>
        /\ mode = "up"
        /\ \A c \in ChatIds : ~Partial(c)
        /\ \A u \in Users, g \in Groups : assoc[u][g] # None => rows[g] # None
        /\ \A h \in Handlers : map[h] # None => \A g \in Groups : map[h][g] # None => rows[g] # None
        /\ \A h \in Handlers : Rowed(h) => rows[got[h]] # None

LEMMA RowsWritten ==
    ASSUME TInv, NEW h \in Handlers, pc[h] \in {"create", "link", "enlist"}
    PROVE  /\ [kind |-> IF req[h].op = "send" THEN "private" ELSE "group",
               members |-> Founders(h), link |-> FALSE] \in Row
           /\ pc[h] \in {"link", "enlist"} =>
                 /\ [Existing(got[h]) EXCEPT !.link = TRUE] \in Row
                 /\ [Existing(got[h]) EXCEPT !.link = TRUE].kind = Existing(got[h]).kind
                 /\ [Existing(got[h]) EXCEPT !.members = Append(@, Me(h))] \in Row
                 /\ [Existing(got[h]) EXCEPT !.members = Append(@, Me(h))].kind = Existing(got[h]).kind
<1>1. Stage(h) /\ TypeOK
  BY DEF TInv, Staged
<1>2. pc[h] \in {"link", "enlist"} => Existing(got[h]) \in Row
  BY <1>1, ExistingTyped, NoneIsNone DEF Stage
<1>3. pc[h] = "create" \/ req[h].op # "send" => Founders(h) \in Seq(Users)
  BY <1>1, UsersAre DEF Founders, Stage
<1>4. Founders(h) \in Seq(Users)
  BY <1>1, <1>3 DEF Stage
<1>5. [kind |-> IF req[h].op = "send" THEN "private" ELSE "group",
       members |-> Founders(h), link |-> FALSE] \in Row
  BY <1>4 DEF Row
<1> QED BY <1>2, <1>5, RowParts, RowJoined, UsersAre

LEMMA GroupsKeepRows ==
    ASSUME TInv, KInv, Steady, NEW h \in Handlers, Acts(h), NEW g \in Groups, rows[g] # None
    PROVE  rows'[g] # None
<1>1. Stage(h) /\ Holds(h) /\ g \in ChatIds
  BY ActsDo, NoneIsNone DEF KInv
<1>2. CASE rows' = rows
  BY <1>2
<1>3. CASE Rewrites(h)
  <2>1. CASE pc[h] \in {"create", "link", "enlist"}
    <3>1. PICK c \in ChatIds, r \in Row : Sets(c, r)
      <4>1. got'[h] \in Pool(req[h].op) => got'[h] \in ChatIds
        BY NoneIsNone DEF Pool
      <4>2. pc[h] \in {"link", "enlist"} => got[h] \in ChatIds
        BY <1>1, NoneIsNone DEF Stage
      <4> QED BY <1>3, <2>1, <4>1, <4>2, RowsWritten, Zenon DEF Rewrites
    <3> QED BY <1>1, <3>1, NoneIsNone DEF Sets
  <2>2. CASE pc[h] = "erase"
    <3>1. req[h].key \in Users /\ got[h] \in Privates
      BY <1>1, <2>2, NoneIsNone DEF Stage, Holds, Steady, Others
    <3> QED BY <1>1, <1>3, <2>2, <3>1, NoneIsNone DEF Rewrites, Sets
  <2> QED BY <1>3, <2>1, <2>2 DEF Rewrites
<1> QED BY <1>2, <1>3, ActsDo DEF Looks, Unwraps, Panics, tables

LEMMA NoneUnwraps ==
    ASSUME TInv, GInv, Steady, NEW h \in Handlers PROVE ~Unwraps(h)
<1>1. Stage(h) /\ todo[h] \subseteq Keys
  BY DEF TInv, Staged, TypeOK
<1>2. ~ChatExpected(h)
  BY DEF ChatExpected, At, GInv, Rowed
<1>3. ~ListUnwraps(h)
  <2> SUFFICES ASSUME pc[h] = "list", NEW k \in todo[h], Partial(map[h][k]) PROVE FALSE
    BY DEF ListUnwraps, At
  <2>1. map[h][k] \in ChatIds
    BY <1>1 DEF Stage, Map
  <2> QED BY <2>1 DEF GInv
<1>4. ~QueryUnwraps(h)
  BY DEF QueryUnwraps, Steady
<1> QED BY <1>2, <1>3, <1>4 DEF Unwraps

LEMMA NoPartialRow ==
    ASSUME TInv, GInv, Steady, NEW h \in Handlers, Acts(h), NEW c \in ChatIds PROVE ~Partial(c)'
<1>1. ~Partial(c) /\ Stage(h)
  BY ActsDo DEF GInv
<1>2. CASE rows' = rows
  BY <1>1, <1>2 DEF Partial
<1>3. CASE Rewrites(h)
  <2>1. CASE pc[h] = "create"
    BY <1>1, <1>3, <2>1 DEF Rewrites, Sets, Partial
  <2>2. CASE pc[h] \in {"link", "enlist"}
    <3>1. rows[got[h]] # None /\ Existing(got[h]) = rows[got[h]] /\ got[h] \in ChatIds /\ ~Partial(got[h])
      BY <1>1, <2>2, NoneIsNone DEF GInv, Rowed, Existing, Stage
    <3>2. PICK r \in Row : Sets(got[h], r) /\ r.kind = rows[got[h]].kind
      BY <1>3, <2>2, <3>1, RowsWritten DEF Rewrites
    <3> QED BY <1>1, <3>1, <3>2 DEF Sets, Partial
  <2>3. CASE pc[h] = "erase"
    BY <1>1, <1>3, <2>3 DEF Rewrites, Sets, Partial
  <2> QED BY <1>3, <2>1, <2>2, <2>3 DEF Rewrites
<1> QED BY <1>2, <1>3, ActsDo DEF Looks, Unwraps, Panics, tables

(* Ids that are found in a map or in a row name chats that have one.        *)
LEMMA RowedStays ==
    ASSUME TInv, KInv, GInv, Steady, NEW h \in Handlers, Acts(h), Rowed(h)'
    PROVE  rows'[got'[h]] # None
<1>1. Stage(h) /\ Holds(h) /\ Me(h) \in Users /\ Stage(h)'
  BY ActsDo DEF KInv
<1>2. pc'[h] \in {"mine", "link", "joined", "enter", "enlist", "chat"}
  BY DEF Rowed
<1>3. ~Ended(h) /\ ~Unwraps(h)
  BY <1>2, NoneUnwraps DEF Ended
<1>4. CASE Writes(h) /\ rows' = rows
  <2>1. pc[h] = "enter" /\ UNCHANGED locals
    BY <1>2, <1>3, <1>4 DEF Writes
  <2> QED BY <1>4, <2>1 DEF GInv, Rowed, locals
<1>5. CASE Rewrites(h)
  <2>1. pc[h] = "create"
    BY <1>2, <1>3, <1>5 DEF Rewrites
  <2>2. \E r \in Row : rows'[got'[h]] = r
    BY <1>5, <2>1, RowsWritten DEF Rewrites, Sets
  <2> QED BY <2>2, NoneIsNone
<1>6. CASE Looks(h)
  <2>1. rows' = rows
    BY <1>6 DEF Looks, tables
  <2>2. ASSUME NEW r \in Request, Asked(h, r) PROVE FALSE
    <3>1. FirstPc(r) \in {"chat", "create", "find", "map", "lookup"}
          /\ (FirstPc(r) = "chat" => r.op = "send")
      BY DEF FirstPc
    <3>2. pc'[h] = FirstPc(r) /\ req'[h] = r
      BY <2>2 DEF Asked
    <3> QED BY <3>1, <3>2 DEF Rowed
  <2>3. ASSUME pc[h] = "lookup", Moved(h), got'[h] = Own(h),
               ~Unknown(h), ~(req[h].op = "touch" /\ req[h].key \in Users), pc'[h] = NextPc(h)
        PROVE  rows'[got'[h]] # None
    <3>1. req'[h] = req[h]
      BY <2>3 DEF Moved
    <3>2. pc'[h] = "link" \/ (pc'[h] = "chat" /\ req[h].op = "touch")
      BY <2>3, <3>1 DEF NextPc, Rowed
    <3>3. req[h].key \in Groups
      BY <1>1, <2>3, <3>1, <3>2 DEF Stage
    <3>4. Own(h) = assoc[Me(h)][req[h].key] /\ Own(h) # None
      BY <2>3 DEF Own, Unknown
    <3>5. Own(h) = req[h].key
      BY <1>1, <3>3, <3>4 DEF KInv, Keyed
    <3> QED BY <1>1, <2>1, <2>3, <3>3, <3>4, <3>5 DEF GInv
  <2>4. ASSUME pc[h] = "find", Moved(h), pc'[h] = "joined", Whole(req[h].key)
        PROVE  rows'[got'[h]] # None
    <3>1. req'[h] = req[h]
      BY <2>4 DEF Moved
    <3> QED BY <1>1, <2>1, <2>4, <3>1 DEF Stage, Whole
  <2>5. ASSUME pc[h] = "joined", UNCHANGED locals PROVE rows'[got'[h]] # None
    BY <2>1, <2>5 DEF GInv, Rowed, locals
  <2> QED BY <1>2, <1>3, <1>6, <2>2, <2>3, <2>4, <2>5 DEF Looks
<1> QED BY <1>3, <1>4, <1>5, <1>6, ActsDo

(* The entries a step adds to a map are of groups that have a row.          *)
LEMMA EntriesStay ==
    ASSUME TInv, KInv, GInv, Steady, NEW h \in Handlers, Acts(h),
           NEW u \in Users, NEW g \in Groups, assoc'[u][g] # None
    PROVE  rows[g] # None
<1>1. Stage(h) /\ Holds(h) /\ Me(h) \in Users /\ g \in Keys
  BY ActsDo, NoneIsNone DEF KInv
<1>2. CASE assoc' = assoc
  BY <1>2 DEF GInv
<1>3. CASE Writes(h)
  <2>1. CASE (pc[h] = "mine" /\ req[h].op = "group") \/ pc[h] = "enter"
    <3>1. Rowed(h) /\ Puts(Me(h), got[h], got[h])
      BY <1>3, <2>1 DEF Writes, Rowed
    <3>2. rows[got[h]] # None
      BY <3>1 DEF GInv
    <3>3. got[h] \in Keys
      BY <1>1, <2>1, NoneIsNone DEF Stage, Pool
    <3>4. g = got[h] \/ assoc'[u][g] = assoc[u][g]
      BY <1>1, <3>1, <3>3 DEF Puts
    <3> QED BY <3>2, <3>4 DEF GInv
  <2>2. CASE (pc[h] = "mine" /\ req[h].op = "send") \/ pc[h] = "theirs"
    <3>1. req[h].key \in Users /\ Me(h) \in Users
      BY <1>1, <2>2 DEF Stage
    <3>2. assoc'[u][g] = assoc[u][g]
      BY <1>1, <1>3, <2>2, <3>1, NoneIsNone DEF Writes, Puts
    <3> QED BY <3>2 DEF GInv
  <2>3. CASE pc[h] \in {"writeMine", "writeTheirs"}
    <3>1. map[h] # None
      BY <1>1, <2>3, NoneIsNone DEF Stage
    <3>2. assoc'[u][g] = map[h][g] \/ assoc'[u][g] = assoc[u][g]
      BY <1>1, <1>3, <2>3 DEF Writes, Drops
    <3> QED BY <3>1, <3>2 DEF GInv
  <2> QED BY <1>3, <2>1, <2>2, <2>3 DEF Writes
<1> QED BY <1>2, <1>3, ActsDo DEF Looks, Unwraps, Panics, tables

LEMMA StepGInv == TInv /\ KInv /\ GInv /\ [Next]_vars => GInv'
<1> SUFFICES ASSUME TInv, KInv, GInv, [Next]_vars, Steady' PROVE GInv'
  BY DEF GInv
<1>1. CASE UNCHANGED vars
  BY <1>1 DEF vars, tables, locals, GInv, Steady, Partial, Rowed
<1>2. CASE Restart
  <2>1. Restarted /\ Steady
    BY <1>2, RestartTyped DEF Restarted, Steady
  <2> QED BY <2>1 DEF Restarted, tables, GInv, Partial, Rowed
<1>3. ASSUME NEW h \in Handlers, Acts(h) PROVE GInv'
  <2>1. Steady /\ StepBy(h)
    BY <1>3, ActsStepBy DEF StepBy, Steady
  <2>2. ~Unwraps(h)
    BY <2>1, NoneUnwraps
  <2>3. mode' = "up"
    BY <1>3, <2>2, ActsDo DEF Writes, Rewrites, Looks, Ended, Moved, Asked
  <2>4. \A c \in ChatIds : ~Partial(c)'
    BY <1>3, <2>1, NoPartialRow
  <2>5. \A g \in Groups : rows[g] # None => rows'[g] # None
    BY <1>3, <2>1, GroupsKeepRows
  <2>6. \A u \in Users, g \in Groups : assoc'[u][g] # None => rows'[g] # None
    BY <1>3, <2>1, <2>5, EntriesStay
  <2>7. ASSUME NEW k \in Handlers, map'[k] # None, NEW g \in Groups, map'[k][g] # None PROVE rows'[g] # None
    <3>1. map'[k] = map[k] \/ \E u \in Users : map'[k] = assoc[u]
      <4>1. k # h => map'[k] = map[k]
        BY <2>1 DEF StepBy, Same
      <4>2. map'[h] = None \/ map'[h] = map[h] \/ \E u \in Users : map'[h] = assoc[u]
        BY <1>3, <2>2, ActsDo DEF Writes, Rewrites, Looks, Ended, Asked, locals
      <4> QED BY <2>7, <4>1, <4>2
    <3> QED BY <2>1, <2>5, <2>7, <3>1 DEF GInv
  <2>8. ASSUME NEW k \in Handlers, Rowed(k)' PROVE rows'[got'[k]] # None
    <3>1. CASE k = h
      BY <1>3, <2>1, <2>8, <3>1, RowedStays
    <3>2. CASE k # h
      <4>1. Rowed(k) /\ got'[k] = got[k] /\ Stage(k) /\ Holds(k)
        BY <2>1, <2>8, <3>2 DEF StepBy, Same, Rowed, TInv, Staged, KInv
      <4>2. got[k] \in Groups
        BY <4>1 DEF Rowed, Stage, Holds, Pool
      <4> QED BY <2>1, <2>5, <4>1, <4>2 DEF GInv
    <3> QED BY <3>1, <3>2
  <2> QED BY <2>3, <2>4, <2>6, <2>7, <2>8 DEF GInv
<1> QED BY <1>1, <1>2, <1>3, NextActs

LEMMA InitGInv == Init => GInv
BY NoneIsNone DEF Init, GInv, Partial, Rowed

(* fetch_chats and the edits unwrap what they read of a chat: while nobody
   deletes a group they find every row, at whatever query of the others they
   run and wherever the process was ended before.                           *)
THEOREM NobodyPanics == Spec => []SteadyNeverPanics
<1>1. Init => TInv /\ KInv /\ GInv
  BY InitTInv, InitKInv, InitGInv
<1>2. TInv /\ KInv /\ GInv /\ [Next]_vars => (TInv /\ KInv /\ GInv)'
  BY StepTyped, StepKInv, StepGInv
<1>3. GInv => SteadyNeverPanics
  BY DEF GInv, SteadyNeverPanics
<1> QED BY <1>1, <1>2, <1>3, PTL DEF Spec


-----------------------------------------------------------------------------
(* Operations that clients keep apart are never at work together, and a
   deletion that runs alone writes back the maps as they are.               *)

XInv == \A g, h \in Handlers :
    g # h /\ Working(g) /\ Working(h) => {req[g].op, req[h].op} \notin plan.apart

LEMMA StepXInv == TInv /\ XInv /\ [Next]_vars => XInv'
<1> SUFFICES ASSUME TInv, XInv, [Next]_vars PROVE XInv'
  OBVIOUS
<1>1. CASE UNCHANGED vars
  BY <1>1 DEF vars, XInv, Working
<1>2. CASE Restart
  BY <1>2, RestartTyped DEF Restarted, XInv, Working
<1>3. ASSUME NEW h \in Handlers, Acts(h) PROVE XInv'
  <2>1. StepBy(h)
    BY <1>3, ActsStepBy
  <2>2. \A k \in Handlers : k # h => (Working(k)' <=> Working(k)) /\ req'[k] = req[k]
    BY <2>1 DEF StepBy, Same, Working
  <2>3. ASSUME NEW k \in Handlers, k # h, Working(k)', Working(h)'
        PROVE  {req'[k].op, req'[h].op} \notin plan.apart
    <3>1. Working(k) /\ req'[k] = req[k]
      BY <2>2, <2>3
    <3>2. CASE Ended(h)
      BY <2>3, <3>2 DEF Ended, Working
    <3>3. CASE Moved(h)
      BY <2>3, <3>1, <3>3 DEF Moved, XInv
    <3>4. CASE \E r \in Request : Asked(h, r)
      <4>1. PICK r \in Request : Asked(h, r)
        BY <3>4
      <4>2. {r.op, req[k].op} \notin plan.apart
        BY <2>3, <3>1, <4>1 DEF Asked
      <4>3. {r.op, req[k].op} = {req'[k].op, req'[h].op}
        BY <3>1, <4>1 DEF Asked
      <4> QED BY <4>2, <4>3
    <3>5. CASE Panics
      BY <2>3, <3>1, <3>5 DEF Panics, XInv, Working
    <3> QED BY <1>3, <3>2, <3>3, <3>4, <3>5, ActsTyped
  <2>4. ASSUME NEW g \in Handlers, NEW k \in Handlers, g # k, Working(g)', Working(k)'
        PROVE  {req'[g].op, req'[k].op} \notin plan.apart
    <3>1. CASE g # h /\ k # h
      BY <2>2, <2>4, <3>1 DEF XInv
    <3>2. CASE g = h
      <4>1. {req'[g].op, req'[k].op} = {req'[k].op, req'[h].op}
        BY <3>2
      <4> QED BY <2>3, <2>4, <3>2, <4>1
    <3>3. CASE k = h
      BY <2>3, <2>4, <3>3
    <3> QED BY <3>1, <3>2, <3>3
  <2>5. plan' = plan
    BY <2>1 DEF StepBy
  <2> QED BY <2>4, <2>5 DEF XInv
<1> QED BY <1>1, <1>2, <1>3, NextActs

LEMMA InitXInv == Init => XInv
BY DEF Init, XInv, Working

(* A handler that is kept apart from one at work takes no step.             *)
LEMMA KeptApart ==
    ASSUME TInv, XInv, NEW h \in Handlers, Acts(h), NEW k \in Handlers, k # h, Working(k),
           Working(h) => Apart(req[k].op, req[h].op),
           \A r \in Request : Asked(h, r) => Apart(req[k].op, r.op)
    PROVE  FALSE
<1>1. CASE Working(h)
  BY <1>1 DEF XInv, Apart
<1>2. CASE ~Working(h)
  <2>1. pc[h] = "idle"
    BY <1>2 DEF Working
  <2>2. CASE \E r \in Request : Asked(h, r)
    <3>1. PICK r \in Request : Asked(h, r)
      BY <2>2
    <3>2. {r.op, req[k].op} \notin plan.apart
      BY <3>1 DEF Asked
    <3>3. {r.op, req[k].op} = {req[k].op, r.op}
      OBVIOUS
    <3> QED BY <3>1, <3>2, <3>3 DEF Apart
  <2>3. Ask(h)
    BY <2>1, Zenon DEF Acts, LookupFails, TouchPrivate, Lookup, ReadChat, ChatExpected, Create, CreatedGroup,
        AssociateMine, AssociateTheirs, Link, FindFails, Find, AlreadyJoined, NotJoined, Enter, Enlist,
        EraseRow, ReadMap, ForgetMine, ForgetTheirs, ReadMine, ListOne, ListUnwraps, QueryFails, QueryUnwraps, At
  <2> QED BY <2>2, <2>3, AskAsks
<1> QED BY <1>1, <1>2

LEMMA DeleterAlone ==
    ASSUME TInv, XInv, DeletesAlone, NEW h \in Handlers, Acts(h), NEW k \in Handlers, k # h,
           Doing(k, {"delete"})
    PROVE  FALSE
<1>1. Working(k) /\ req[k].op = "delete"
  BY DEF Doing
<1>2. \A r \in Request : Apart("delete", r.op)
  BY DEF DeletesAlone, Request
<1>3. Working(h) => req[h] \in Request
  BY DEF TInv, Staged, Stage
<1> QED BY <1>1, <1>2, <1>3, KeptApart

Erasing(h) ==
    /\ pc[h] = "erase" => got[h] = Own(h)
    /\ pc[h] = "writeMine" => map[h] = assoc[Me(h)]
    /\ pc[h] = "writeTheirs" => map[h] = assoc[req[h].key]
    /\ pc[h] \in {"readTheirs", "writeTheirs"} => Own(h) = None

DInv == DeletesAlone => \A h \in Handlers : Erasing(h)

LEMMA ActsErasing ==
    ASSUME TInv, DInv, DeletesAlone, NEW h \in Handlers, Acts(h) PROVE Erasing(h)'
<1>1. Stage(h) /\ Stage(h)' /\ Me(h) \in Users /\ Me(h)' = Me(h) /\ Erasing(h)
  BY ActsDo DEF Me, DInv
<1>2. CASE Ended(h)
  BY <1>2 DEF Ended, Erasing
<1>3. CASE Unwraps(h)
  BY <1>1, <1>3 DEF Unwraps, Panics, Erasing, tables, locals, Own, Me
<1>4. CASE Writes(h) /\ ~Ended(h)
  <2>1. CASE pc'[h] \in {"theirs", "enlist"}
    BY <2>1 DEF Erasing
  <2>2. CASE pc[h] = "writeMine" /\ Drops(Me(h), map[h], req[h].key) /\ Moved(h) /\ pc'[h] = "readTheirs"
    BY <1>1, <2>2 DEF Erasing, Drops, Moved, Own, Me
  <2> QED BY <1>4, <2>1, <2>2 DEF Writes
<1>5. CASE Rewrites(h) /\ ~Ended(h)
  BY <1>5 DEF Rewrites, Erasing
<1>6. CASE Looks(h) /\ ~Ended(h)
  <2>1. assoc' = assoc
    BY <1>6 DEF Looks, tables
  <2>2. CASE \E r \in Request : Asked(h, r)
    <3>1. PICK r \in Request : Asked(h, r)
      BY <2>2
    <3>2. FirstPc(r) \in {"chat", "create", "find", "map", "lookup"}
      BY DEF FirstPc
    <3> QED BY <3>1, <3>2 DEF Asked, Erasing
  <2>3. CASE /\ pc[h] = "lookup" /\ Moved(h) /\ got'[h] = Own(h)
             /\ \/ pc'[h] = "create"
                \/ pc'[h] = NextPc(h)
    <3>1. NextPc(h) \in {"link", "erase", "chat"}
      BY DEF NextPc
    <3> QED BY <1>1, <2>1, <2>3, <3>1 DEF Erasing, Moved, Own, Me
  <2>4. CASE pc'[h] \in {"joined", "enter", "list"}
    BY <2>4 DEF Erasing
  <2>5. CASE pc[h] = "readMine" /\ Moved(h) /\ pc'[h] = "writeMine" /\ map'[h] = assoc[Me(h)]
    BY <1>1, <2>1, <2>5 DEF Erasing, Me
  <2>6. CASE pc[h] = "readTheirs" /\ Moved(h) /\ pc'[h] = "writeTheirs" /\ map'[h] = assoc[req[h].key]
    BY <1>1, <2>1, <2>6 DEF Erasing, Moved, Own, Me
  <2> QED BY <1>6, <2>2, <2>3, <2>4, <2>5, <2>6 DEF Looks
<1> QED BY <1>2, <1>3, <1>4, <1>5, <1>6, ActsDo

LEMMA StepDInv == TInv /\ XInv /\ DInv /\ [Next]_vars => DInv'
<1> SUFFICES ASSUME TInv, XInv, DInv, [Next]_vars, DeletesAlone' PROVE DInv'
  BY DEF DInv
<1>1. CASE UNCHANGED vars
  BY <1>1 DEF vars, tables, locals, DInv, DeletesAlone, Apart, Erasing, Own, Me
<1>2. CASE Restart
  BY <1>2, RestartTyped DEF Restarted, DInv, Erasing
<1>3. ASSUME NEW h \in Handlers, Acts(h) PROVE DInv'
  <2>1. DeletesAlone /\ StepBy(h)
    BY <1>3, ActsStepBy DEF StepBy, DeletesAlone, Apart
  <2>2. ASSUME NEW k \in Handlers, k # h PROVE Erasing(k)'
    <3>1. pc[k] \notin {"erase", "writeMine", "readTheirs", "writeTheirs"}
      BY <1>3, <2>1, <2>2, DeleterAlone DEF Doing, Working, TInv, Staged, Stage
    <3> QED BY <2>1, <2>2, <3>1 DEF StepBy, Same, Erasing
  <2> QED BY <1>3, <2>1, <2>2, ActsErasing DEF DInv
<1> QED BY <1>1, <1>2, <1>3, NextActs

LEMMA InitDInv == Init => DInv
BY DEF Init, DInv, Erasing

-----------------------------------------------------------------------------
(* What a step does to one entry of a map, and to one row, when deletions
   run alone.                                                               *)

Founds(h) == pc[h] = "mine" /\ req[h].op = "group"

Changes(h, u, k) ==
    \/ Founds(h) /\ u = Me(h) /\ k = got[h] /\ assoc'[u][k] = got[h] /\ Ended(h)
    \/ /\ pc[h] = "mine" /\ req[h].op = "send" /\ u = Me(h) /\ k = req[h].key /\ assoc'[u][k] = got[h]
       /\ Moved(h) /\ pc'[h] = "theirs" /\ UNCHANGED locals
    \/ pc[h] = "theirs" /\ u = req[h].key /\ k = Me(h) /\ assoc'[u][k] = got[h] /\ Ended(h)
    \/ /\ pc[h] = "enter" /\ u = Me(h) /\ k = got[h] /\ assoc'[u][k] = got[h]
       /\ Moved(h) /\ pc'[h] = "enlist" /\ UNCHANGED locals
    \/ /\ pc[h] = "writeMine" /\ u = Me(h) /\ k = req[h].key /\ assoc'[u][k] = None
       /\ \/ k \in Groups /\ Ended(h)
          \/ k \in Users /\ Moved(h) /\ pc'[h] = "readTheirs" /\ UNCHANGED locals
    \/ pc[h] = "writeTheirs" /\ u = req[h].key /\ k = Me(h) /\ assoc'[u][k] = None /\ Ended(h)

LEMMA EntryChanges ==
    ASSUME TInv, DInv, DeletesAlone, NEW h \in Handlers, Acts(h), NEW u \in Users, NEW k \in Keys
    PROVE  assoc'[u][k] = assoc[u][k] \/ (Changes(h, u, k) /\ rows' = rows)
<1>1. Stage(h) /\ Erasing(h) /\ Me(h) \in Users
  BY ActsDo DEF DInv
<1>2. CASE assoc' = assoc
  BY <1>2
<1>3. CASE Writes(h) /\ rows' = rows
  <2>1. CASE pc[h] \in {"writeMine", "writeTheirs"}
    <3>1. CASE pc[h] = "writeMine"
      BY <1>1, <1>3, <3>1 DEF Writes, Drops, Erasing, Changes
    <3>2. CASE pc[h] = "writeTheirs"
      BY <1>1, <1>3, <3>2 DEF Writes, Drops, Erasing, Changes
    <3> QED BY <2>1, <3>1, <3>2
  <2>2. CASE pc[h] \notin {"writeMine", "writeTheirs"}
    BY <1>1, <1>3, <2>2 DEF Writes, Puts, Changes, Founds
  <2> QED BY <2>1, <2>2
<1> QED BY <1>2, <1>3, ActsDo DEF Looks, Unwraps, Panics, tables

Alters(h, c) ==
    \/ /\ pc[h] = "create" /\ Moved(h) /\ pc'[h] = "mine" /\ got'[h] = c /\ c \in Pool(req[h].op)
       /\ ~Referred(c) /\ Whole(c)' /\ rows'[c].members = Founders(h) /\ ~Linked(c)'
    \/ /\ pc[h] = "link" /\ Ended(h) /\ got[h] = c /\ c \in Groups
       /\ rows'[c] # None /\ (Whole(c)' <=> Whole(c)) /\ Linked(c)' /\ rows'[c].members = Existing(c).members
    \/ /\ pc[h] = "enlist" /\ Ended(h) /\ got[h] = c /\ c \in Groups
       /\ rows'[c] # None /\ (Whole(c)' <=> Whole(c)) /\ (Linked(c)' <=> Linked(c))
       /\ rows'[c].members = Append(Existing(c).members, Me(h))
    \/ pc[h] = "erase" /\ Moved(h) /\ pc'[h] = "readMine" /\ UNCHANGED locals /\ got[h] = c /\ rows'[c] = None

LEMMA RowAlters ==
    ASSUME TInv, KInv, NEW h \in Handlers, Acts(h), NEW c \in ChatIds
    PROVE  rows'[c] = rows[c] \/ (Alters(h, c) /\ assoc' = assoc)
<1>1. Stage(h) /\ Holds(h) /\ TypeOK
  BY ActsDo DEF KInv, TInv
<1>2. CASE rows' = rows
  BY <1>2
<1>3. CASE Rewrites(h) /\ assoc' = assoc /\ rows'[c] # rows[c]
  <2>1. CASE pc[h] = "create"
    <3>1. c = got'[h]
      BY <1>3, <2>1 DEF Rewrites, Sets
    <3> DEFINE r == [kind |-> IF req[h].op = "send" THEN "private" ELSE "group",
                     members |-> Founders(h), link |-> FALSE]
    <3>2. rows'[c] = r /\ Moved(h) /\ pc'[h] = "mine" /\ c \in Pool(req[h].op) /\ ~Referred(c)
      BY <1>3, <2>1, <3>1 DEF Rewrites, Sets
    <3>3. r \in Row
      BY <2>1, RowsWritten
    <3>4. r # None /\ r.kind # "none" /\ ~r.link /\ r.members = Founders(h)
      BY <3>3, NoneIsNone
    <3> HIDE DEF r
    <3>5. Whole(c)' /\ ~Linked(c)'
      BY <3>2, <3>4 DEF Whole, Linked
    <3> QED BY <1>3, <2>1, <3>1, <3>2, <3>4, <3>5 DEF Alters
  <2>2. CASE pc[h] = "link"
    <3> DEFINE r == [Existing(got[h]) EXCEPT !.link = TRUE]
    <3>1. Sets(got[h], r) /\ Ended(h)
      BY <1>3, <2>2 DEF Rewrites
    <3>2. c = got[h] /\ rows'[c] = r
      BY <1>3, <3>1 DEF Sets
    <3>3. c \in Groups /\ Existing(c) \in Row
      BY <1>1, <2>2, <3>2, ExistingTyped DEF Stage, Holds
    <3>4. r \in Row /\ r # None /\ r.kind = Existing(c).kind /\ r.members = Existing(c).members /\ r.link
      BY <3>2, <3>3, RowParts, NoneIsNone
    <3> HIDE DEF r
    <3>5. (Whole(c)' <=> Whole(c)) /\ Linked(c)'
      BY <3>2, <3>4 DEF Whole, Linked, Existing
    <3> QED BY <1>3, <2>2, <3>1, <3>2, <3>3, <3>4, <3>5 DEF Alters
  <2>3. CASE pc[h] = "enlist"
    <3> DEFINE r == [Existing(got[h]) EXCEPT !.members = Append(@, Me(h))]
    <3>1. Sets(got[h], r) /\ Ended(h)
      BY <1>3, <2>3 DEF Rewrites
    <3>2. c = got[h] /\ rows'[c] = r
      BY <1>3, <3>1 DEF Sets
    <3>3. c \in Groups /\ Existing(c) \in Row
      BY <1>1, <2>3, <3>2, ExistingTyped DEF Stage
    <3>4. r \in Row /\ r # None /\ r.kind = Existing(c).kind /\ r.link = Existing(c).link
          /\ r.members = Append(Existing(c).members, Me(h))
      BY <3>2, <3>3, RowJoined, UsersAre, NoneIsNone
    <3> HIDE DEF r
    <3>5. Whole(c)' <=> Whole(c)
      BY <3>2, <3>4 DEF Whole, Existing
    <3>6. Linked(c)' <=> Linked(c)
      BY <3>2, <3>4, Zenon DEF Linked, Existing
    <3> QED BY <1>3, <2>3, <3>1, <3>2, <3>3, <3>4, <3>5, <3>6 DEF Alters
  <2>4. CASE pc[h] = "erase"
    BY <1>3, <2>4 DEF Rewrites, Sets, Alters
  <2> QED BY <1>3, <2>1, <2>2, <2>3, <2>4 DEF Rewrites
<1> QED BY <1>2, <1>3, ActsDo DEF Looks, Unwraps, Panics, tables

LEMMA FoundersAre ==
    ASSUME NEW h \in Handlers, req[h].op = "send" => req[h].key \in Users
    PROVE  /\ Founders(h) \in Seq(Users)
           /\ {Founders(h)[i] : i \in DOMAIN Founders(h)} =
                  IF req[h].op = "send" THEN {Me(h), req[h].key} ELSE {Me(h)}
<1>1. CASE req[h].op = "send"
  <2>1. Founders(h) = <<Me(h), req[h].key>> /\ req[h].key \in Users
    BY <1>1 DEF Founders
  <2>2. DOMAIN Founders(h) = {1, 2} /\ Founders(h)[1] = Me(h) /\ Founders(h)[2] = req[h].key
    BY <2>1
  <2>3. Founders(h) \in Seq(Users)
    BY <2>1, UsersAre
  <2>4. {Founders(h)[i] : i \in {1, 2}} = {Me(h), req[h].key}
    BY <2>2
  <2> QED BY <1>1, <2>2, <2>3, <2>4
<1>2. CASE req[h].op # "send"
  <2>1. Founders(h) = <<Me(h)>>
    BY <1>2 DEF Founders
  <2>2. DOMAIN Founders(h) = {1} /\ Founders(h)[1] = Me(h)
    BY <2>1
  <2>3. Founders(h) \in Seq(Users)
    BY <2>1, UsersAre
  <2>4. {Founders(h)[i] : i \in {1}} = {Me(h)}
    BY <2>2
  <2> QED BY <1>2, <2>2, <2>3, <2>4
<1> QED BY <1>1, <1>2

LEMMA AtEnlist ==
    ASSUME Steady, NEW h \in Handlers, Acts(h), pc[h] = "enlist" PROVE Enlist(h)
BY Zenon DEF Acts, Ask, LookupFails, TouchPrivate, Lookup, ReadChat, ChatExpected, Create, CreatedGroup,
    AssociateMine, AssociateTheirs, Link, FindFails, Find, AlreadyJoined, NotJoined, Enter,
    EraseRow, ReadMap, ForgetMine, ForgetTheirs, ReadMine, ListOne, ListUnwraps, QueryFails, QueryUnwraps, Steady, At

(* Rows that are there keep their members, and gain them only in a group.   *)
LEMMA RowsKept ==
    ASSUME TInv, KInv, Steady, NEW h \in Handlers, Acts(h), NEW c \in ChatIds, Whole(c),
           pc[h] = "erase" => got[h] # c
    PROVE  /\ Whole(c)' /\ Members(c) \subseteq Members(c)'
           /\ c \in Privates => Members(c)' = Members(c)
           /\ pc[h] = "enlist" /\ got[h] = c => Me(h) \in Members(c)'
<1>0. rows[c] # None /\ rows[c] \in Row
  BY DEF Whole, TInv, TypeOK
<1>1. rows[c] # None /\ rows[c].members \in Seq(Users) /\ Existing(c) = rows[c]
  BY <1>0, RowParts DEF Existing
<1>2. CASE rows'[c] = rows[c] /\ ~(pc[h] = "enlist" /\ got[h] = c)
  BY <1>1, <1>2 DEF Whole, Members
<1>3. CASE Alters(h, c) /\ pc[h] # "enlist"
  <2>1. pc[h] = "link" /\ c \in Groups /\ Whole(c)' /\ rows'[c].members = rows[c].members
    BY <1>1, <1>3 DEF Alters, Referred
  <2> QED BY <2>1, NoneIsNone DEF Members
<1>4. CASE pc[h] = "enlist" /\ got[h] = c
  <2>0. Enlist(h)
    BY <1>4, AtEnlist
  <2>1. Stage(h) /\ Rewrites(h)
    BY <2>0, ActsDo, RewritersRewrite
  <2>2. rows'[c].members = Append(rows[c].members, Me(h)) /\ Whole(c)'
    <3> DEFINE r == [rows[c] EXCEPT !.members = Append(@, Me(h))]
    <3>1. rows'[c] = r
      BY <1>1, <1>4, <2>1 DEF Rewrites, Sets
    <3>2. rows[c] \in Row
      BY <1>1 DEF TInv, TypeOK
    <3>3. r \in Row /\ r.kind = rows[c].kind /\ r.members = Append(rows[c].members, Me(h))
      BY <3>2, RowJoined, UsersAre
    <3> HIDE DEF r
    <3> QED BY <3>1, <3>3, NoneIsNone DEF Whole
  <2>3. c \in Groups
    BY <1>4, <2>1 DEF Stage
  <2> DEFINE s == rows[c].members
             t == Append(s, Me(h))
  <2>4. /\ Len(s) \in Nat /\ DOMAIN s = 1..Len(s) /\ DOMAIN t = 1..(Len(s) + 1)
        /\ \A i \in DOMAIN s : t[i] = s[i]
        /\ t[Len(s) + 1] = Me(h)
    BY <1>1, UsersAre, AppendTyped
  <2>5. Members(c) = {s[i] : i \in DOMAIN s} /\ Members(c)' = {t[i] : i \in DOMAIN t}
    BY <2>2 DEF Members
  <2> HIDE DEF s, t
  <2>6. Members(c) \subseteq Members(c)' /\ Me(h) \in Members(c)'
    BY <2>4, <2>5
  <2> QED BY <2>2, <2>3, <2>6, NoneIsNone
<1> QED BY <1>2, <1>3, <1>4, RowAlters DEF Alters

-----------------------------------------------------------------------------
(* Entries lead home: while groups stay and nothing disturbs a deletion, an
   entry leads to a row of its user or is about to be forgotten.            *)

Homely == Steady /\ DeletesAlone /\ ~plan.crashes

Led(u, k, c) ==
    /\ Whole(c)
    /\ k \in Users => Members(c) = {u, k}
    /\ k \in Groups => c = k /\ (u \in Members(c) \/ Joining(u, k))

Home(u, k) == assoc[u][k] # None => Led(u, k, assoc[u][k])

Leaves(h, u, k) ==
    \/ pc[h] \in {"readMine", "writeMine"} /\ {u, k} = {Me(h), req[h].key}
    \/ pc[h] \in {"readTheirs", "writeTheirs"} /\ u = req[h].key /\ k = Me(h)

Leaving(u, k) == \E h \in Handlers : Leaves(h, u, k)

(* The row of a chat that is being created.                                 *)
Founded(h) ==
    /\ Founds(h) => Whole(got[h]) /\ Me(h) \in Members(got[h])
    /\ pc[h] \in {"mine", "theirs"} /\ req[h].op = "send" =>
        Whole(got[h]) /\ Members(got[h]) = {Me(h), req[h].key}

HInv == Homely =>
    /\ \A u \in Users, k \in Keys : Home(u, k) \/ Leaving(u, k)
    /\ \A h \in Handlers : Founded(h)

LEMMA AtDelete ==
    ASSUME Steady, NEW h \in Handlers, Acts(h)
    PROVE  /\ pc[h] = "erase" => EraseRow(h)
           /\ pc[h] \in {"readMine", "readTheirs"} => ReadMap(h)
           /\ pc[h] = "writeMine" => ForgetMine(h)
           /\ pc[h] = "writeTheirs" => ForgetTheirs(h)
<1>1. pc[h] = "erase" => EraseRow(h)
  BY Zenon DEF Acts, Ask, LookupFails, TouchPrivate, Lookup, ReadChat, ChatExpected, Create, CreatedGroup,
      AssociateMine, AssociateTheirs, Link, FindFails, Find, AlreadyJoined, NotJoined, Enter, Enlist,
      ReadMap, ForgetMine, ForgetTheirs, ReadMine, ListOne, ListUnwraps, QueryFails, QueryUnwraps, Steady, At
<1>2. (pc[h] = "readMine" \/ pc[h] = "readTheirs") => ReadMap(h)
  BY Zenon DEF Acts, Ask, LookupFails, TouchPrivate, Lookup, ReadChat, ChatExpected, Create, CreatedGroup,
      AssociateMine, AssociateTheirs, Link, FindFails, Find, AlreadyJoined, NotJoined, Enter, Enlist,
      EraseRow, ForgetMine, ForgetTheirs, ReadMine, ListOne, ListUnwraps, QueryFails, QueryUnwraps, Steady, At
<1>3. pc[h] = "writeMine" => ForgetMine(h)
  BY Zenon DEF Acts, Ask, LookupFails, TouchPrivate, Lookup, ReadChat, ChatExpected, Create, CreatedGroup,
      AssociateMine, AssociateTheirs, Link, FindFails, Find, AlreadyJoined, NotJoined, Enter, Enlist,
      EraseRow, ReadMap, ForgetTheirs, ReadMine, ListOne, ListUnwraps, QueryFails, QueryUnwraps, Steady, At
<1>4. pc[h] = "writeTheirs" => ForgetTheirs(h)
  BY Zenon DEF Acts, Ask, LookupFails, TouchPrivate, Lookup, ReadChat, ChatExpected, Create, CreatedGroup,
      AssociateMine, AssociateTheirs, Link, FindFails, Find, AlreadyJoined, NotJoined, Enter, Enlist,
      EraseRow, ReadMap, ForgetMine, ReadMine, ListOne, ListUnwraps, QueryFails, QueryUnwraps, Steady, At
<1> QED BY <1>1, <1>2, <1>3, <1>4

LEMMA AloneToo ==
    ASSUME TInv, XInv, DeletesAlone, NEW h \in Handlers, NEW k \in Handlers, k # h,
           Doing(h, {"delete"}), Working(k)
    PROVE  FALSE
<1>1. Working(h) /\ req[h].op = "delete" /\ req[k].op \in Ops
  BY DEF Doing, TInv, Staged, Stage, Request
<1> QED BY <1>1 DEF XInv, DeletesAlone, Apart

LEMMA LedHome ==
    ASSUME NEW u \in Users, NEW k \in Keys, NEW c \in ChatIds, assoc'[u][k] = c, Led(u, k, c)'
    PROVE  Home(u, k)'
BY DEF Home, Led, Whole, Members, Joining

LEMMA LeavingOn ==
    ASSUME TInv, XInv, Steady, DeletesAlone, DInv, NEW h \in Handlers, Acts(h),
           NEW u \in Users, NEW k \in Keys, Leaving(u, k)
    PROVE  Home(u, k)' \/ Leaving(u, k)'
<1>1. Leaves(h, u, k)
  <2>1. PICK j \in Handlers : Leaves(j, u, k)
    BY DEF Leaving
  <2>2. Doing(j, {"delete"})
    BY <2>1 DEF Leaves, Doing, Working, TInv, Staged, Stage
  <2> QED BY <2>1, <2>2, DeleterAlone
<1>2. Stage(h) /\ Me(h) \in Users /\ req[h].key \in Users /\ Me(h)' = Me(h)
  BY <1>1, ActsDo, NoneIsNone DEF Me, Leaves, Stage, Steady, Others
<1>3. CASE pc[h] \in {"readMine", "readTheirs"}
  <2>1. ReadMap(h)
    BY <1>3, AtDelete
  <2>2. pc'[h] = (IF pc[h] = "readMine" THEN "writeMine" ELSE "writeTheirs") /\ req'[h] = req[h]
    BY <2>1, <1>3, ReadMapMoves DEF Moved
  <2>3. Leaves(h, u, k)'
    BY <1>1, <1>2, <1>3, <2>2 DEF Leaves
  <2> QED BY <2>3 DEF Leaving
<1>4. CASE pc[h] = "writeMine"
  <2>1. ForgetMine(h)
    BY <1>4, AtDelete
  <2>2. Writes(h) /\ pc'[h] = "readTheirs" /\ req'[h] = req[h]
    BY <1>2, <2>1, NoneIsNone, WritersWrite, ForgetMineMoves DEF Moved
  <2>3. assoc'[Me(h)][req[h].key] = None
    BY <1>4, <2>2 DEF Writes, Drops
  <2>4. CASE u = Me(h) /\ k = req[h].key
    BY <2>3, <2>4 DEF Home
  <2>5. CASE u = req[h].key /\ k = Me(h)
    <3>1. Leaves(h, u, k)'
      BY <1>2, <2>2, <2>5 DEF Leaves
    <3> QED BY <3>1 DEF Leaving
  <2> QED BY <1>1, <1>4, <2>4, <2>5 DEF Leaves
<1>5. CASE pc[h] = "writeTheirs"
  <2>1. Writes(h)
    BY <1>5, AtDelete, WritersWrite
  <2>2. assoc'[u][k] = None
    BY <1>1, <1>5, <2>1 DEF Writes, Drops, Leaves
  <2> QED BY <2>2 DEF Home
<1> QED BY <1>1, <1>3, <1>4, <1>5 DEF Leaves

LEMMA EntryLed ==
    ASSUME TInv, KInv, GInv, HInv, Steady, Homely, NEW h \in Handlers, Acts(h),
           NEW u \in Users, NEW k \in Keys, Changes(h, u, k), rows' = rows
    PROVE  Home(u, k)'
<1>1. Stage(h) /\ Me(h) \in Users /\ Me(h)' = Me(h) /\ Founded(h) /\ Users \cap Groups = {}
  BY ActsDo, NoneIsNone DEF Me, HInv
<1>2. CASE Founds(h) /\ u = Me(h) /\ k = got[h] /\ assoc'[u][k] = got[h]
  <2>1. got[h] \in Groups /\ got[h] \in ChatIds /\ Whole(got[h]) /\ Me(h) \in Members(got[h])
    BY <1>1, <1>2, NoneIsNone DEF Founds, Founded, Stage, Pool
  <2>2. PICK c \in ChatIds : c = got[h]
    BY <2>1
  <2>3. Led(u, k, c)'
    BY <1>1, <1>2, <2>1, <2>2 DEF Led, Whole, Members
  <2> QED BY <1>2, <2>2, <2>3, LedHome
<1>3. CASE /\ pc[h] \in {"mine", "theirs"} /\ req[h].op = "send" /\ {u, k} = {Me(h), req[h].key}
           /\ assoc'[u][k] = got[h]
  <2>1. /\ got[h] \in ChatIds /\ Whole(got[h]) /\ Members(got[h]) = {u, k} /\ k \in Users
    BY <1>1, <1>3, NoneIsNone DEF Founded, Stage, Pool
  <2>2. PICK c \in ChatIds : c = got[h]
    BY <2>1
  <2>3. Led(u, k, c)'
    BY <1>1, <2>1, <2>2 DEF Led, Whole, Members
  <2> QED BY <1>3, <2>2, <2>3, LedHome
<1>4. CASE /\ pc[h] = "enter" /\ u = Me(h) /\ k = got[h] /\ assoc'[u][k] = got[h]
           /\ pc'[h] = "enlist" /\ UNCHANGED locals
  <2>1. got[h] \in Groups /\ got[h] \in ChatIds
    BY <1>1, <1>4, NoneIsNone DEF Stage
  <2>2. rows[got[h]] # None /\ ~Partial(got[h])
    BY <1>4, <2>1 DEF GInv, Rowed
  <2>3. PICK c \in ChatIds : c = got[h]
    BY <2>1
  <2>4. Whole(c)'
    BY <2>2, <2>3 DEF Whole, Partial
  <2>5. Joining(u, k)'
    BY <1>1, <1>4 DEF Joining, locals
  <2>6. Led(u, k, c)'
    BY <1>1, <1>4, <2>1, <2>3, <2>4, <2>5 DEF Led
  <2> QED BY <1>4, <2>3, <2>6, LedHome
<1>5. CASE assoc'[u][k] = None
  BY <1>5 DEF Home
<1>6. pc[h] = "theirs" => req[h].op = "send"
  BY <1>1 DEF Stage
<1> QED BY <1>1, <1>2, <1>3, <1>4, <1>5, <1>6 DEF Changes

LEMMA RowLeads ==
    ASSUME TInv, XInv, KInv, GInv, DInv, HInv, Steady, Homely, NEW h \in Handlers, Acts(h),
           NEW u \in Users, NEW k \in Keys, Home(u, k), assoc'[u][k] = assoc[u][k]
    PROVE  Home(u, k)' \/ Leaving(u, k)'
<1> SUFFICES ASSUME assoc[u][k] # None PROVE Home(u, k)' \/ Leaving(u, k)'
  BY DEF Home
<1>1. Stage(h) /\ Me(h) \in Users /\ Me(h)' = Me(h) /\ StepBy(h) /\ Users \cap Groups = {}
      /\ Privates \cap Groups = {} /\ Keys = Users \cup Groups
  BY ActsDo, NoneIsNone DEF Me
<1>2. PICK c \in ChatIds : c = assoc[u][k] /\ c # None
  BY DEF TInv, TypeOK
<1>3. Led(u, k, c) /\ (k \in Users => c \in Privates)
  BY <1>2 DEF Home, KInv, Keyed
<1>4. CASE pc[h] = "erase" /\ got[h] = c
  <2>1. EraseRow(h)
    BY <1>4, AtDelete
  <2>2. req[h].key \in Users /\ req[h].key \in Keys /\ Doing(h, {"delete"})
    BY <1>1, <1>4 DEF Stage, Others, Steady, Doing, Working
  <2>3. c = assoc[Me(h)][req[h].key]
    BY <1>4 DEF DInv, Homely, Erasing, Own
  <2>4. k \in Users
    BY <1>1, <1>3, <2>2, <2>3, <1>2 DEF Led, KInv, Keyed
  <2>5. Home(Me(h), req[h].key)
    <3>1. ~Leaving(Me(h), req[h].key)
      <4> SUFFICES ASSUME NEW j \in Handlers, Leaves(j, Me(h), req[h].key) PROVE FALSE
        BY DEF Leaving
      <4>1. Doing(j, {"delete"})
        BY DEF Leaves, Doing, Working, TInv, Staged, Stage
      <4>2. j # h
        BY <1>4 DEF Leaves
      <4> QED BY <4>1, <4>2, DeleterAlone DEF Homely
    <3> QED BY <1>1, <2>2, <3>1 DEF HInv
  <2>6. Led(Me(h), req[h].key, c)
    BY <1>2, <2>3, <2>5 DEF Home
  <2>7. {u, k} = {Me(h), req[h].key}
    BY <1>3, <2>2, <2>4, <2>6 DEF Led
  <2>8. pc'[h] = "readMine" /\ req'[h] = req[h]
    BY <2>1, EraseMoves DEF Moved
  <2>9. Leaves(h, u, k)'
    BY <1>1, <2>7, <2>8 DEF Leaves
  <2> QED BY <2>9 DEF Leaving
<1>5. CASE ~(pc[h] = "erase" /\ got[h] = c)
  <2>1. /\ Whole(c)' /\ Members(c) \subseteq Members(c)'
        /\ c \in Privates => Members(c)' = Members(c)
        /\ pc[h] = "enlist" /\ got[h] = c => Me(h) \in Members(c)'
    BY <1>3, <1>5, RowsKept DEF Led
  <2>2. ASSUME k \in Groups PROVE c = k /\ (u \in Members(c)' \/ Joining(u, k)')
    <3>1. c = k /\ (u \in Members(c) \/ Joining(u, k))
      BY <1>3, <2>2 DEF Led
    <3>2. CASE Joining(u, k)
      <4>1. PICK j \in Handlers : Me(j) = u /\ pc[j] = "enlist" /\ got[j] = k
        BY <3>2 DEF Joining
      <4>2. CASE j = h
        BY <2>1, <3>1, <4>1, <4>2
      <4>3. CASE j # h
        <5>1. Me(j)' = u /\ pc'[j] = "enlist" /\ got'[j] = k
          BY <1>1, <4>1, <4>3 DEF StepBy, Same, Me
        <5> QED BY <3>1, <5>1 DEF Joining
      <4> QED BY <4>2, <4>3
    <3> QED BY <2>1, <3>1, <3>2
  <2>3. Led(u, k, c)'
    BY <1>3, <2>1, <2>2 DEF Led
  <2> QED BY <1>2, <2>3, LedHome
<1> QED BY <1>4, <1>5

LEMMA CreatedFounded ==
    ASSUME TInv, NEW h \in Handlers, Rewrites(h), pc'[h] = "mine"
    PROVE  /\ Whole(got[h])' /\ Moved(h)
           /\ Members(got[h])' = IF req[h].op = "send" THEN {Me(h), req[h].key} ELSE {Me(h)}
           /\ rows'[got'[h]].members = Founders(h) /\ ~Linked(got[h])'
           /\ ~Referred(got'[h]) /\ got'[h] \in Pool(req[h].op) /\ Stage(h) /\ pc[h] = "create"
<1>1. pc[h] = "create" /\ Moved(h) /\ ~Referred(got'[h]) /\ got'[h] \in Pool(req[h].op)
  BY DEF Rewrites, Ended
<1>2. Stage(h)
  BY DEF TInv, Staged
<1> DEFINE r == [kind |-> IF req[h].op = "send" THEN "private" ELSE "group",
                 members |-> Founders(h), link |-> FALSE]
<1>3. rows'[got'[h]] = r
  BY <1>1 DEF Rewrites, Sets
<1>4. r \in Row
  BY <1>1, RowsWritten
<1>5. r # None /\ r.kind # "none" /\ r.members = Founders(h) /\ ~r.link
  BY <1>4, NoneIsNone
<1> HIDE DEF r
<1>6. Whole(got[h])' /\ rows'[got'[h]].members = Founders(h) /\ ~Linked(got[h])'
  BY <1>3, <1>5 DEF Whole, Linked
<1>7. Members(got[h])' = {Founders(h)[i] : i \in DOMAIN Founders(h)}
  BY <1>6 DEF Members
<1>8. req[h].op = "send" => req[h].key \in Users
  BY <1>1, <1>2 DEF Stage
<1> QED BY <1>1, <1>2, <1>6, <1>7, <1>8, FoundersAre

LEMMA FoundedStays ==
    ASSUME TInv, KInv, XInv, HInv, Homely, NEW h \in Handlers, Acts(h), NEW k \in Handlers
    PROVE  Founded(k)'
<1>1. Me(k)' = Me(k) /\ Founded(k) /\ Stage(k) /\ StepBy(h) /\ Users \cap Groups = {}
  BY ActsDo, NoneIsNone DEF Me, HInv, TInv, Staged
<1>2. CASE k # h
  <2> SUFFICES ASSUME pc[k] \in {"mine", "theirs"} PROVE Founded(k)'
    BY <1>1, <1>2 DEF StepBy, Same, Founded, Founds
  <2>1. PICK c \in ChatIds : c = got[k]
    BY <1>1, NoneIsNone DEF Stage, Pool
  <2>2. Whole(c) /\ Working(k) /\ (req[k].op = "send" => c \in Privates)
    BY <1>1, <2>1 DEF Founded, Founds, Stage, Pool, Working
  <2>3. pc[h] # "erase"
    <3>1. pc[h] = "erase" => Doing(h, {"delete"})
      BY ActsDo DEF Doing, Working, Stage
    <3> QED BY <1>2, <2>2, <3>1, AloneToo DEF Homely
  <2>4. /\ Whole(c)' /\ Members(c) \subseteq Members(c)'
        /\ c \in Privates => Members(c)' = Members(c)
    BY <2>2, <2>3, RowsKept DEF Homely
  <2>5. pc'[k] = pc[k] /\ req'[k] = req[k] /\ got'[k] = c
    BY <1>1, <1>2, <2>1 DEF StepBy, Same
  <2>6. Whole(got[k])' /\ Members(got[k])' = Members(c)'
    BY <2>4, <2>5 DEF Whole, Members
  <2> QED BY <1>1, <2>1, <2>2, <2>4, <2>5, <2>6 DEF Founded, Founds
<1>3. CASE k = h
  <2>1. CASE Ended(h)
    BY <1>3, <2>1 DEF Ended, Founded, Founds
  <2>2. CASE Writes(h) /\ rows' = rows /\ ~Ended(h)
    <3>1. CASE pc'[h] = "theirs" /\ pc[h] = "mine" /\ req[h].op = "send" /\ Moved(h) /\ UNCHANGED locals
      BY <1>1, <1>3, <2>2, <3>1 DEF Founded, Founds, Moved, locals, Whole, Members
    <3>2. CASE pc'[h] \in {"enlist", "readTheirs"}
      BY <1>3, <3>2 DEF Founded, Founds
    <3> QED BY <2>2, <3>1, <3>2 DEF Writes
  <2>3. CASE Rewrites(h) /\ ~Ended(h)
    <3>1. CASE pc'[h] = "mine"
      <4>1. Whole(got[h])' /\ Moved(h)
            /\ Members(got[h])' = IF req[h].op = "send" THEN {Me(h), req[h].key} ELSE {Me(h)}
        BY <2>3, <3>1, CreatedFounded
      <4>2. Me(h) \in Members(got[h])' /\ (req[h].op = "send" => Members(got[h])' = {Me(h), req[h].key})
        BY <4>1
      <4> QED BY <1>1, <1>3, <3>1, <4>1, <4>2 DEF Founded, Founds, Moved
    <3>2. CASE pc'[h] # "mine"
      BY <1>3, <2>3, <3>2 DEF Rewrites, Founded, Founds
    <3> QED BY <3>1, <3>2
  <2>4. CASE Looks(h) /\ ~Ended(h)
    <3>1. ASSUME NEW r \in Request, Asked(h, r) PROVE pc'[h] \notin {"mine", "theirs"}
      BY <3>1 DEF Asked, FirstPc
    <3>2. NextPc(h) \notin {"mine", "theirs"}
      BY DEF NextPc
    <3>3. pc'[h] \notin {"mine", "theirs"}
      BY <2>4, <3>1, <3>2 DEF Looks
    <3> QED BY <1>3, <3>3 DEF Founded, Founds
  <2>5. CASE Unwraps(h)
    BY <1>1, <1>3, <2>5 DEF Unwraps, Panics, Founded, Founds, tables, locals, Whole, Members
  <2> QED BY <2>1, <2>2, <2>3, <2>4, <2>5, ActsDo
<1> QED BY <1>2, <1>3

LEMMA StepHInv == TInv /\ XInv /\ KInv /\ GInv /\ DInv /\ HInv /\ [Next]_vars => HInv'
<1> SUFFICES ASSUME TInv, XInv, KInv, GInv, DInv, HInv, [Next]_vars, Homely' PROVE HInv'
  BY DEF HInv
<1>1. CASE UNCHANGED vars
  <2>1. Homely /\ (\A u \in Users, k \in Keys : Home(u, k) <=> Home(u, k)')
    BY <1>1 DEF vars, tables, locals, Homely, Steady, DeletesAlone, Apart, Home, Led, Whole, Members, Joining, Me
  <2>2. \A u \in Users, k \in Keys : Leaving(u, k) => Leaving(u, k)'
    BY <1>1 DEF vars, Leaving, Leaves, Me
  <2>3. \A h \in Handlers : Founded(h) => Founded(h)'
    BY <1>1 DEF vars, tables, locals, Founded, Founds, Whole, Members, Me
  <2> QED BY <2>1, <2>2, <2>3 DEF HInv
<1>2. CASE Restart
  <2>1. Steady /\ ~plan.crashes
    BY <1>2 DEF Restart, Homely, Steady
  <2> QED BY <1>2, <2>1 DEF Restart, GInv
<1>3. ASSUME NEW h \in Handlers, Acts(h) PROVE HInv'
  <2>1. Homely /\ Steady /\ DeletesAlone
    BY <1>3, ActsStepBy DEF StepBy, Homely, Steady, DeletesAlone, Apart
  <2>2. ASSUME NEW u \in Users, NEW k \in Keys PROVE Home(u, k)' \/ Leaving(u, k)'
    <3>1. CASE Leaving(u, k)
      BY <1>3, <2>1, <3>1, LeavingOn
    <3>2. CASE Home(u, k) /\ assoc'[u][k] = assoc[u][k]
      BY <1>3, <2>1, <3>2, RowLeads
    <3>3. CASE Changes(h, u, k) /\ rows' = rows
      BY <1>3, <2>1, <3>3, EntryLed
    <3> QED BY <1>3, <2>1, <3>1, <3>2, <3>3, EntryChanges DEF HInv
  <2>3. \A k \in Handlers : Founded(k)'
    BY <1>3, <2>1, FoundedStays
  <2> QED BY <2>2, <2>3 DEF HInv
<1> QED BY <1>1, <1>2, <1>3, NextActs

LEMMA InitHInv == Init => HInv
BY DEF Init, HInv, Home, Founded, Founds

(* While groups stay, nothing disturbs a deletion and the process does not
   end, every entry of a user's map leads to a chat of that user: create_*,
   add_associated_chat, join and delete_chat keep maps and rows together.   *)
THEOREM EntriesLeadHome == Spec => []EntryLeadsHome
<1>1. Init => TInv /\ XInv /\ KInv /\ GInv /\ DInv /\ HInv
  BY InitTInv, InitXInv, InitKInv, InitGInv, InitDInv, InitHInv
<1>2. TInv /\ XInv /\ KInv /\ GInv /\ DInv /\ HInv /\ [Next]_vars
        => (TInv /\ XInv /\ KInv /\ GInv /\ DInv /\ HInv)'
  BY StepTyped, StepXInv, StepKInv, StepGInv, StepDInv, StepHInv
<1>3. TInv /\ HInv => EntryLeadsHome
  <2> SUFFICES ASSUME TInv, HInv, Homely, ~Deleting, NEW u \in Users, NEW k \in Keys PROVE Home(u, k)
    BY DEF TInv, EntryLeadsHome, Homely, Home, Led, Joining
  <2>1. ~Leaving(u, k)
    <3> SUFFICES ASSUME NEW h \in Handlers, Leaves(h, u, k) PROVE Deleting
      BY DEF Leaving
    <3>1. Doing(h, {"delete"})
      BY DEF Leaves, Doing, Working, TInv, Staged, Stage
    <3> QED BY <3>1 DEF Deleting
  <2> QED BY <2>1 DEF HInv
<1> QED BY <1>1, <1>2, <1>3, PTL DEF Spec

-----------------------------------------------------------------------------
(* Pairs agree: of the two users of a private chat, one has an entry the
   other lacks only while a handler is between the two writes.              *)

Paired == Homely /\ Apart("send", "send")

Joins(h, u, v) ==
    pc[h] \in {"theirs", "readTheirs", "writeTheirs"} /\ {Me(h), req[h].key} = {u, v}

Between(u, v) == \E h \in Handlers : Joins(h, u, v)

Halved(h) == pc[h] = "theirs" => Own(h) = got[h]

PInv == Paired =>
    /\ \A u, v \in Users : u # v => assoc[u][v] = assoc[v][u] \/ Between(u, v)
    /\ \A h \in Handlers : Halved(h)

LEMMA AtMine ==
    ASSUME Steady, NEW h \in Handlers, Acts(h)
    PROVE  /\ pc[h] = "theirs" => AssociateTheirs(h)
           /\ pc[h] = "mine" => CreatedGroup(h) \/ AssociateMine(h)
<1>1. pc[h] = "theirs" => AssociateTheirs(h)
  BY Zenon DEF Acts, Ask, LookupFails, TouchPrivate, Lookup, ReadChat, ChatExpected, Create, CreatedGroup,
      AssociateMine, Link, FindFails, Find, AlreadyJoined, NotJoined, Enter, Enlist,
      EraseRow, ReadMap, ForgetMine, ForgetTheirs, ReadMine, ListOne, ListUnwraps, QueryFails, QueryUnwraps, Steady, At
<1>2. pc[h] = "mine" => CreatedGroup(h) \/ AssociateMine(h)
  BY Zenon DEF Acts, Ask, LookupFails, TouchPrivate, Lookup, ReadChat, ChatExpected, Create,
      AssociateTheirs, Link, FindFails, Find, AlreadyJoined, NotJoined, Enter, Enlist,
      EraseRow, ReadMap, ForgetMine, ForgetTheirs, ReadMine, ListOne, ListUnwraps, QueryFails, QueryUnwraps, Steady, At
<1> QED BY <1>1, <1>2

(* The second write makes the two entries equal.                            *)
LEMMA SecondWrite ==
    ASSUME TInv, DInv, PInv, Paired, NEW h \in Handlers, Acts(h), pc[h] \in {"theirs", "writeTheirs"}
    PROVE  assoc'[Me(h)][req[h].key] = assoc'[req[h].key][Me(h)]
<1>1. Stage(h) /\ Me(h) \in Users /\ Me(h) \in Keys /\ Erasing(h) /\ Halved(h)
  BY ActsDo, NoneIsNone DEF DInv, PInv, Paired, Homely
<1>2. req[h].key \in Users /\ req[h].key \in Keys /\ req[h].key # Me(h)
  BY <1>1 DEF Stage, Others
<1>3. Writes(h)
  BY AtDelete, AtMine, WritersWrite DEF Paired, Homely
<1>4. CASE pc[h] = "theirs"
  <2>1. Puts(req[h].key, Me(h), got[h])
    BY <1>3, <1>4 DEF Writes
  <2>2. assoc'[Me(h)][req[h].key] = assoc[Me(h)][req[h].key]
    BY <1>1, <1>2, <2>1 DEF Puts
  <2> QED BY <1>1, <1>4, <2>1, <2>2 DEF Puts, Halved, Own
<1>5. CASE pc[h] = "writeTheirs"
  <2>1. Drops(req[h].key, map[h], Me(h))
    BY <1>3, <1>5 DEF Writes
  <2>2. assoc'[Me(h)][req[h].key] = assoc[Me(h)][req[h].key]
    BY <1>1, <1>2, <2>1 DEF Drops
  <2> QED BY <1>1, <1>5, <2>1, <2>2 DEF Drops, Erasing, Own
<1> QED BY <1>4, <1>5

(* A step that changes an entry for a user is one of those writes.          *)
LEMMA UserEntry ==
    ASSUME TInv, DInv, DeletesAlone, Steady, NEW h \in Handlers, Acts(h),
           NEW u \in Users, NEW v \in Users, assoc'[u][v] # assoc[u][v]
    PROVE  /\ {Me(h), req[h].key} = {u, v}
           /\ \/ pc[h] = "mine" /\ req[h].op = "send" /\ pc'[h] = "theirs" /\ req'[h] = req[h] /\ UNCHANGED locals
                 /\ assoc'[Me(h)][req[h].key] = got[h]
              \/ pc[h] = "theirs" /\ req[h].op = "send"
              \/ pc[h] = "writeMine" /\ req[h].op = "delete" /\ pc'[h] = "readTheirs" /\ req'[h] = req[h]
              \/ pc[h] = "writeTheirs" /\ req[h].op = "delete"
<1>1. Stage(h) /\ v \in Keys /\ Users \cap Groups = {}
  BY ActsDo, NoneIsNone
<1>2. Changes(h, u, v)
  BY <1>1, EntryChanges
<1>3. ~Founds(h) \/ v # got[h]
  BY <1>1 DEF Founds, Stage, Pool
<1>4. pc[h] # "enter" \/ v # got[h]
  BY <1>1 DEF Stage
<1> QED BY <1>1, <1>2, <1>3, <1>4 DEF Changes, Moved, Stage

LEMMA PairStays ==
    ASSUME TInv, XInv, DInv, PInv, Paired, NEW h \in Handlers, Acts(h),
           NEW u \in Users, NEW v \in Users, u # v
    PROVE  assoc'[u][v] = assoc'[v][u] \/ Between(u, v)'
<1>1. Stage(h) /\ StepBy(h) /\ DeletesAlone /\ Steady /\ \A k \in Handlers : Me(k)' = Me(k)
  BY ActsDo DEF Me, Paired, Homely
<1>2. CASE Joins(h, u, v)
  <2>1. CASE pc[h] = "readTheirs"
    <3>1. ReadMap(h)
      BY <1>1, <2>1, AtDelete
    <3>2. pc'[h] = "writeTheirs" /\ req'[h] = req[h]
      BY <2>1, <3>1, ReadMapMoves DEF Moved
    <3>3. Joins(h, u, v)'
      BY <1>1, <1>2, <3>2 DEF Joins
    <3> QED BY <3>3 DEF Between
  <2>2. CASE pc[h] \in {"theirs", "writeTheirs"}
    <3>1. assoc'[Me(h)][req[h].key] = assoc'[req[h].key][Me(h)]
      BY <2>2, SecondWrite
    <3>2. (u = Me(h) /\ v = req[h].key) \/ (v = Me(h) /\ u = req[h].key)
      BY <1>2 DEF Joins
    <3> QED BY <3>1, <3>2
  <2> QED BY <1>2, <2>1, <2>2 DEF Joins
<1>3. CASE ~Joins(h, u, v)
  <2>1. CASE \E j \in Handlers : j # h /\ Joins(j, u, v)
    <3>1. PICK j \in Handlers : j # h /\ Joins(j, u, v)
      BY <2>1
    <3>2. Joins(j, u, v)'
      BY <1>1, <3>1 DEF StepBy, Same, Joins
    <3> QED BY <3>2 DEF Between
  <2>2. CASE assoc[u][v] = assoc[v][u] /\ assoc'[u][v] = assoc[u][v] /\ assoc'[v][u] = assoc[v][u]
    BY <2>2
  <2>3. CASE assoc'[u][v] # assoc[u][v] \/ assoc'[v][u] # assoc[v][u]
    <3>1. /\ {Me(h), req[h].key} = {u, v}
          /\ pc'[h] \in {"theirs", "readTheirs"} /\ req'[h] = req[h]
      <4>1. CASE assoc'[u][v] # assoc[u][v]
        BY <1>1, <1>3, <4>1, UserEntry DEF Joins
      <4>2. CASE assoc'[v][u] # assoc[v][u]
        <5>1. {v, u} = {u, v}
          OBVIOUS
        <5> QED BY <1>1, <1>3, <4>2, <5>1, UserEntry DEF Joins
      <4> QED BY <2>3, <4>1, <4>2
    <3>2. Joins(h, u, v)'
      BY <1>1, <3>1 DEF Joins
    <3> QED BY <3>2 DEF Between
  <2> QED BY <1>3, <2>1, <2>2, <2>3 DEF PInv, Between
<1> QED BY <1>2, <1>3

LEMMA HalvedStays ==
    ASSUME TInv, XInv, DInv, PInv, Paired, NEW h \in Handlers, Acts(h), NEW k \in Handlers
    PROVE  Halved(k)'
<1>1. /\ Stage(h) /\ Stage(h)' /\ Stage(k) /\ StepBy(h) /\ DeletesAlone /\ Steady /\ Halved(k)
      /\ Me(k)' = Me(k) /\ Me(k) \in Users /\ (Working(h) => req[h].op \in Ops)
  <2>1. Stage(h) /\ Stage(h)' /\ Stage(k) /\ StepBy(h)
    BY ActsDo DEF TInv, Staged
  <2>2. DeletesAlone /\ Steady /\ Halved(k)
    BY DEF Paired, Homely, PInv
  <2>3. Me(k)' = Me(k) /\ Me(k) \in Users
    BY UsersAre DEF Me
  <2>4. Working(h) => req[h].op \in Ops
    BY <2>1 DEF Stage, Request
  <2> QED BY <2>1, <2>2, <2>3, <2>4
<1> SUFFICES ASSUME pc'[k] = "theirs" PROVE Own(k)' = got'[k]
  BY DEF Halved
<1>2. CASE k # h
  <2>1. pc[k] = "theirs" /\ req'[k] = req[k] /\ got'[k] = got[k] /\ Own(k) = got[k]
    BY <1>1, <1>2 DEF StepBy, Same, Halved
  <2>2. req[k].op = "send" /\ req[k].key \in Users /\ Working(k)
    BY <1>1, <2>1 DEF Stage, Working
  <2>3. assoc'[Me(k)][req[k].key] = assoc[Me(k)][req[k].key]
    <3> SUFFICES ASSUME assoc'[Me(k)][req[k].key] # assoc[Me(k)][req[k].key] PROVE FALSE
      OBVIOUS
    <3>1. Working(h) /\ req[h].op \in {"send", "delete"}
      BY <1>1, <2>2, UserEntry DEF Working
    <3>2. CASE req[h].op = "send"
      <4>1. {req[k].op, req[h].op} \in plan.apart
        BY <2>2, <3>2 DEF Paired, Apart
      <4> QED BY <1>2, <2>2, <3>1, <4>1 DEF XInv
    <3>3. CASE req[h].op = "delete"
      BY <1>1, <1>2, <2>2, <3>1, <3>3, AloneToo DEF Doing
    <3> QED BY <3>1, <3>2, <3>3
  <2> QED BY <1>1, <2>1, <2>3 DEF Own, Me
<1>3. CASE k = h
  <2>1. pc[h] = "mine" \/ pc[h] = "theirs"
    <3>1. ASSUME NEW r \in Request, Asked(h, r) PROVE FALSE
      BY <1>3, <3>1 DEF Asked, FirstPc
    <3>2. NextPc(h) # "theirs"
      BY DEF NextPc
    <3> QED BY <1>3, <3>1, <3>2, ActsDo DEF Writes, Rewrites, Looks, Ended, Unwraps, Panics
  <2>2. pc[h] = "mine" /\ AssociateMine(h)
    <3>1. AssociateTheirs(h) => pc'[h] = "idle"
      BY EndsWithTables DEF Ended
    <3>2. CreatedGroup(h) => pc'[h] = "idle"
      BY EndsWithTables DEF Ended
    <3> QED BY <1>3, <2>1, <3>1, <3>2, AtMine DEF Paired, Homely
  <2>3. /\ assoc'[Me(h)][req[h].key] = got[h] /\ req'[h] = req[h] /\ got'[h] = got[h]
    <3>1. req[h].op = "send"
      BY <2>2 DEF AssociateMine
    <3>2. Writes(h)
      BY <2>2, WritersWrite
    <3> QED BY <2>2, <3>1, <3>2 DEF Writes, Puts, Moved, locals
  <2> QED BY <1>1, <1>3, <2>3 DEF Own, Me
<1> QED BY <1>2, <1>3

LEMMA StepPInv == TInv /\ XInv /\ GInv /\ DInv /\ PInv /\ [Next]_vars => PInv'
<1> SUFFICES ASSUME TInv, XInv, GInv, DInv, PInv, [Next]_vars, Paired' PROVE PInv'
  BY DEF PInv
<1>1. CASE UNCHANGED vars
  <2>1. Paired /\ \A u, v \in Users : Between(u, v) => Between(u, v)'
    BY <1>1 DEF vars, Paired, Homely, Steady, DeletesAlone, Apart, Between, Joins, Me
  <2>2. \A h \in Handlers : Halved(h) => Halved(h)'
    BY <1>1 DEF vars, tables, locals, Halved, Own, Me
  <2> QED BY <1>1, <2>1, <2>2 DEF PInv, vars, tables
<1>2. CASE Restart
  <2>1. Steady /\ ~plan.crashes
    BY <1>2 DEF Restart, Paired, Homely, Steady
  <2> QED BY <1>2, <2>1 DEF Restart, GInv
<1>3. ASSUME NEW h \in Handlers, Acts(h) PROVE PInv'
  <2>1. Paired
    BY <1>3, ActsStepBy DEF StepBy, Paired, Homely, Steady, DeletesAlone, Apart
  <2> QED BY <1>3, <2>1, PairStays, HalvedStays DEF PInv
<1> QED BY <1>1, <1>2, <1>3, NextActs

LEMMA InitPInv == Init => PInv
<1> SUFFICES ASSUME Init PROVE PInv
  OBVIOUS
<1>1. \A u, v \in Users : assoc[u][v] = assoc[v][u]
  BY DEF Init, Keys
<1> QED BY <1>1 DEF Init, PInv, Halved

(* Both users of a private chat are led to the same row: the two writes of
   add_associated_chat and the two read-modify-writes of delete_chat leave
   no half behind, while first messages do not cross each other, groups
   stay, nothing disturbs a deletion and the process does not end.          *)
THEOREM PairsStayAgreed == Spec => []PairsAgree
<1>1. Init => TInv /\ XInv /\ KInv /\ GInv /\ DInv /\ PInv
  BY InitTInv, InitXInv, InitKInv, InitGInv, InitDInv, InitPInv
<1>2. TInv /\ XInv /\ KInv /\ GInv /\ DInv /\ PInv /\ [Next]_vars
        => (TInv /\ XInv /\ KInv /\ GInv /\ DInv /\ PInv)'
  BY StepTyped, StepXInv, StepKInv, StepGInv, StepDInv, StepPInv
<1>3. TInv /\ PInv => PairsAgree
  <2> SUFFICES ASSUME TInv, PInv, Paired, ~Deleting, NEW u \in Users, NEW v \in Users, u # v, ~Linking(u, v)
               PROVE  assoc[u][v] = assoc[v][u]
    BY DEF PairsAgree, Paired, Homely
  <2>1. ~Between(u, v)
    <3> SUFFICES ASSUME NEW h \in Handlers, Joins(h, u, v) PROVE FALSE
      BY DEF Between
    <3>1. Doing(h, {"send"}) \/ Doing(h, {"delete"})
      BY DEF Joins, Doing, Working, TInv, Staged, Stage
    <3> QED BY <3>1 DEF Joins, Linking, Deleting
  <2> QED BY <2>1 DEF PInv
<1> QED BY <1>1, <1>2, <1>3, PTL DEF Spec

-----------------------------------------------------------------------------
(* Members once: a participant has an entry before the row lists it, so the
   check of a join finds it; a group nobody has an entry of has no link.    *)

Onces == Apart("join", "join") /\ DeletesAlone

Distinct(c) == \A i, j \in DOMAIN rows[c].members : rows[c].members[i] = rows[c].members[j] => i = j

Untouched(g) == ~Linked(g) /\ \A u \in Users : assoc[u][g] = None
Noted(g) == \A u \in Members(g) : assoc[u][g] # None

Once(h) ==
    /\ Founds(h) => Whole(got[h]) /\ Members(got[h]) = {Me(h)} /\ Untouched(got[h])
    /\ pc[h] = "link" => assoc[Me(h)][got[h]] # None
    /\ pc[h] \in {"joined", "enter", "enlist"} => Linked(got[h]) /\ Whole(got[h])
    /\ pc[h] \in {"enter", "enlist"} => Me(h) \notin Members(got[h])
    /\ pc[h] = "enlist" => assoc[Me(h)][got[h]] # None
    /\ pc[h] \in {"readMine", "writeMine"} /\ req[h].key \in Groups => rows[req[h].key] = None

OInv == Onces =>
    /\ \A c \in ChatIds : rows[c] # None => Distinct(c)
    /\ \A g \in Groups : Whole(g) => Untouched(g) \/ Noted(g)
    /\ \A h \in Handlers : Once(h)
    /\ \A g, h \in Handlers : Founds(g) /\ Founds(h) /\ got[g] = got[h] => g = h

LEMMA DistinctStays ==
    ASSUME TInv, KInv, OInv, Onces, NEW h \in Handlers, Acts(h), NEW c \in ChatIds, rows'[c] # None
    PROVE  Distinct(c)'
<1>1. Stage(h) /\ Me(h) \in Users /\ Once(h) /\ (rows[c] # None => Distinct(c))
  BY ActsDo DEF OInv
<1>2. CASE rows'[c] = rows[c]
  BY <1>1, <1>2 DEF Distinct
<1>3. CASE Alters(h, c) /\ pc[h] = "create"
  <2>1. rows'[c].members = Founders(h) /\ (req[h].op = "send" => req[h].key # Me(h))
    BY <1>1, <1>3 DEF Alters, Stage, Others
  <2>2. CASE req[h].op = "send"
    <3>1. rows'[c].members = <<Me(h), req[h].key>>
      BY <2>1, <2>2 DEF Founders
    <3>2. DOMAIN rows'[c].members = {1, 2} /\ rows'[c].members[1] = Me(h) /\ rows'[c].members[2] = req[h].key
      BY <3>1
    <3> QED BY <2>1, <2>2, <3>2 DEF Distinct
  <2>3. CASE req[h].op # "send"
    <3>1. rows'[c].members = <<Me(h)>>
      BY <2>1, <2>3 DEF Founders
    <3>2. DOMAIN rows'[c].members = {1}
      BY <3>1
    <3> QED BY <3>2 DEF Distinct
  <2> QED BY <2>2, <2>3
<1>4. CASE Alters(h, c) /\ pc[h] = "link"
  <2>1. CASE rows[c] = None
    <3>1. rows'[c].members = <<>>
      BY <1>4, <2>1 DEF Alters, Existing
    <3>2. DOMAIN rows'[c].members = {}
      BY <3>1
    <3> QED BY <3>2 DEF Distinct
  <2>2. CASE rows[c] # None
    BY <1>1, <1>4, <2>2 DEF Alters, Existing, Distinct
  <2> QED BY <2>1, <2>2
<1>5. CASE Alters(h, c) /\ pc[h] = "enlist"
  <2>1. c = got[h] /\ rows[c] # None /\ Me(h) \notin Members(c)
    BY <1>1, <1>5 DEF Alters, Once, Whole
  <2>2. rows[c] \in Row
    BY <2>1 DEF TInv, TypeOK
  <2> DEFINE s == rows[c].members
             t == Append(s, Me(h))
  <2>3. s \in Seq(Users)
    BY <2>2, RowParts
  <2>4. /\ Len(s) \in Nat /\ DOMAIN s = 1..Len(s) /\ DOMAIN t = 1..(Len(s) + 1)
        /\ \A i \in DOMAIN s : t[i] = s[i]
        /\ t[Len(s) + 1] = Me(h)
    BY <1>1, <2>3, AppendTyped
  <2>5. /\ rows'[c].members = t
        /\ \A i \in DOMAIN s : s[i] # Me(h)
        /\ \A i, j \in DOMAIN s : s[i] = s[j] => i = j
    BY <1>1, <1>5, <2>1 DEF Alters, Existing, Members, Distinct
  <2> HIDE DEF s, t
  <2>6. \A i, j \in DOMAIN t : t[i] = t[j] => i = j
    BY <2>4, <2>5
  <2> QED BY <2>5, <2>6 DEF Distinct
<1>6. CASE Alters(h, c) /\ pc[h] = "erase"
  BY <1>6 DEF Alters
<1> QED BY <1>2, <1>3, <1>4, <1>5, <1>6, RowAlters DEF Alters

(* Entries of groups go only with a deletion.                               *)
LEMMA GroupEntry ==
    ASSUME TInv, DInv, DeletesAlone, NEW h \in Handlers, Acts(h),
           NEW u \in Users, NEW g \in Groups, assoc'[u][g] # assoc[u][g]
    PROVE  /\ rows' = rows
           /\ \/ Founds(h) /\ u = Me(h) /\ got[h] = g /\ assoc'[u][g] # None
              \/ pc[h] = "enter" /\ u = Me(h) /\ got[h] = g /\ assoc'[u][g] # None
              \/ pc[h] = "writeMine" /\ req[h].key = g /\ Doing(h, {"delete"})
<1>1. Stage(h) /\ g \in Keys /\ Users \cap Groups = {} /\ Me(h) \in Users /\ g \in ChatIds /\ g # None
  BY ActsDo, NoneIsNone
<1>2. Changes(h, u, g) /\ rows' = rows
  BY <1>1, EntryChanges
<1>3. CASE (pc[h] = "mine" /\ req[h].op = "send" /\ g = req[h].key) \/ (pc[h] \in {"theirs", "writeTheirs"} /\ g = Me(h))
  BY <1>1, <1>3 DEF Stage
<1>4. pc[h] = "writeMine" => Doing(h, {"delete"})
  BY <1>1 DEF Stage, Doing, Working
<1> QED BY <1>1, <1>2, <1>3, <1>4 DEF Changes

LEMMA NotedStays ==
    ASSUME TInv, KInv, DInv, OInv, Onces, NEW h \in Handlers, Acts(h), NEW g \in Groups, Whole(g)'
    PROVE  Untouched(g)' \/ Noted(g)'
<1>1. /\ Stage(h) /\ Me(h) \in Users /\ Once(h) /\ g \in ChatIds /\ g \in Keys /\ DeletesAlone
      /\ (Whole(g) => Untouched(g) \/ Noted(g))
  BY ActsDo, NoneIsNone DEF OInv, Onces
<1>2. CASE rows'[g] = rows[g]
  <2>1. Whole(g) /\ Members(g)' = Members(g) /\ (Linked(g)' <=> Linked(g))
    BY <1>2 DEF Whole, Members, Linked
  <2>2. ~(pc[h] = "writeMine" /\ req[h].key = g)
    BY <1>1, <2>1 DEF Once, Whole
  <2>3. Members(g) \subseteq Users
    BY <1>1, <2>1, MembersTyped DEF TInv, Whole
  <2>4. CASE Noted(g)
    <3>1. ASSUME NEW u \in Members(g) PROVE assoc'[u][g] # None
      BY <1>1, <2>2, <2>3, <2>4, <3>1, GroupEntry DEF Noted
    <3> QED BY <2>1, <3>1 DEF Noted
  <2>5. CASE Untouched(g) /\ \E u \in Users : assoc'[u][g] # assoc[u][g]
    <3>1. PICK u \in Users : assoc'[u][g] # assoc[u][g]
      BY <2>5
    <3>2. Founds(h) /\ u = Me(h) /\ got[h] = g /\ assoc'[u][g] # None
      <4>1. ~(pc[h] = "enter" /\ got[h] = g)
        BY <1>1, <2>5 DEF Once, Untouched
      <4> QED BY <1>1, <2>2, <3>1, <4>1, GroupEntry
    <3>3. Members(g) = {Me(h)}
      BY <1>1, <3>2 DEF Once
    <3> QED BY <2>1, <3>2, <3>3 DEF Noted
  <2>6. CASE Untouched(g) /\ \A u \in Users : assoc'[u][g] = assoc[u][g]
    BY <2>1, <2>6 DEF Untouched
  <2> QED BY <1>1, <2>1, <2>4, <2>5, <2>6
<1>3. CASE Alters(h, g) /\ assoc' = assoc /\ pc[h] = "create"
  <2>1. \A u \in Users : assoc[u][g] = None
    BY <1>1, <1>3 DEF Alters, Referred, KInv, Keyed
  <2> QED BY <1>3, <2>1 DEF Alters, Untouched
<1>4. CASE Alters(h, g) /\ assoc' = assoc /\ pc[h] = "link"
  <2>1. Whole(g) /\ got[h] = g /\ rows'[g].members = rows[g].members
    BY <1>4 DEF Alters, Existing, Whole
  <2>2. Noted(g)
    BY <1>1, <1>4, <2>1 DEF Once, Untouched
  <2> QED BY <1>4, <2>1, <2>2 DEF Noted, Members
<1>5. CASE Alters(h, g) /\ assoc' = assoc /\ pc[h] = "enlist"
  <2>1. Whole(g) /\ got[h] = g /\ Noted(g) /\ assoc[Me(h)][g] # None /\ rows[g] # None
    BY <1>1, <1>5 DEF Alters, Once, Untouched, Whole
  <2>2. rows[g] \in Row
    BY <1>1, <2>1 DEF TInv, TypeOK
  <2> DEFINE s == rows[g].members
             t == Append(s, Me(h))
  <2>3. s \in Seq(Users)
    BY <2>2, RowParts
  <2>4. /\ Len(s) \in Nat /\ DOMAIN s = 1..Len(s) /\ DOMAIN t = 1..(Len(s) + 1)
        /\ \A i \in DOMAIN s : t[i] = s[i]
        /\ t[Len(s) + 1] = Me(h)
    BY <1>1, <2>3, AppendTyped
  <2>5. Members(g)' = {t[i] : i \in DOMAIN t} /\ Members(g) = {s[i] : i \in DOMAIN s}
    BY <1>5, <2>1 DEF Alters, Existing, Members
  <2> HIDE DEF s, t
  <2>6. \A u \in Members(g)' : u \in Members(g) \/ u = Me(h)
    BY <2>4, <2>5
  <2>7. \A u \in Members(g)' : assoc'[u][g] # None
    BY <1>5, <2>1, <2>6 DEF Noted
  <2> QED BY <2>7 DEF Noted
<1>6. CASE Alters(h, g) /\ pc[h] = "erase"
  BY <1>6 DEF Alters, Whole
<1> QED BY <1>1, <1>2, <1>3, <1>4, <1>5, <1>6, RowAlters DEF Alters

(* What a handler relies on is left alone by the steps of the others.       *)
LEMMA OnceOthers ==
    ASSUME TInv, XInv, KInv, DInv, OInv, Onces, NEW h \in Handlers, Acts(h), NEW k \in Handlers, k # h
    PROVE  Once(k)'
<1>1. /\ Stage(h) /\ Stage(k) /\ Me(k) \in Users /\ Me(h) \in Users /\ Once(k) /\ Once(h) /\ StepBy(h)
      /\ DeletesAlone /\ Same(k) /\ Me(k)' = Me(k)
      /\ Founds(k) /\ Founds(h) => got[k] # got[h]
  BY ActsDo, UsersAre DEF OInv, Onces, TInv, Staged, StepBy, Me
<1>2. pc'[k] = pc[k] /\ req'[k] = req[k] /\ got'[k] = got[k]
  BY <1>1 DEF Same
<1>3. CASE ~Working(k) \/ pc[k] \notin {"mine", "link", "joined", "enter", "enlist"} \/ (pc[k] = "mine" /\ ~Founds(k))
  <2>1. pc[k] \notin {"readMine", "writeMine"}
    <3>1. pc[k] \in {"readMine", "writeMine"} => Doing(k, {"delete"})
      BY <1>1 DEF Stage, Doing, Working
    <3> QED BY <1>1, <3>1, DeleterAlone
  <2> QED BY <1>2, <1>3, <2>1 DEF Once, Founds, Working
<1>4. CASE Founds(k) \/ pc[k] \in {"link", "joined", "enter", "enlist"}
  <2>1. got[k] \in Groups /\ got[k] \in ChatIds /\ Working(k)
    BY <1>1, <1>4, NoneIsNone DEF Founds, Stage, Pool, Working, KInv, Holds
  <2>2. PICK c \in Groups : c = got[k] /\ c \in ChatIds /\ c # None
    BY <2>1, NoneIsNone
  <2>3. ~Doing(h, {"delete"})
    BY <1>1, <2>1, AloneToo
  <2>4. pc[h] # "erase" /\ pc[h] # "writeMine"
    BY <1>1, <2>3 DEF Doing, Working, Stage
  <2>5. \A u \in Users : assoc[u][c] # None => assoc'[u][c] # None
    BY <1>1, <2>3, GroupEntry
  <2>6. CASE Founds(k)
    <3>1. Whole(c) /\ Members(c) = {Me(k)} /\ Untouched(c)
      BY <1>1, <2>2, <2>6 DEF Once
    <3>2. rows'[c] = rows[c]
      <4>1. ~Alters(h, c)
        BY <1>1, <2>2, <2>4, <3>1 DEF Alters, Referred, Once, Untouched, Whole
      <4> QED BY <2>2, <4>1, RowAlters
    <3>3. \A u \in Users : assoc'[u][c] = assoc[u][c]
      <4> SUFFICES ASSUME NEW u \in Users, assoc'[u][c] # assoc[u][c] PROVE FALSE
        OBVIOUS
      <4>1. (Founds(h) \/ pc[h] = "enter") /\ got[h] = c
        BY <1>1, <2>3, GroupEntry
      <4> QED BY <1>1, <2>2, <2>6, <3>1, <4>1 DEF Once, Untouched
    <3>4. Whole(c)' /\ Members(c)' = {Me(k)} /\ Untouched(c)'
      BY <3>1, <3>2, <3>3 DEF Whole, Members, Untouched, Linked
    <3>5. Whole(got[k])' /\ Members(got[k])' = {Me(k)} /\ Untouched(got[k])'
      BY <1>2, <2>2, <3>4 DEF Whole, Members, Untouched, Linked
    <3> QED BY <1>1, <1>2, <2>6, <3>5 DEF Once, Founds
  <2>7. CASE pc[k] = "link"
    <3>1. assoc'[Me(k)][c] # None
      BY <1>1, <2>2, <2>5, <2>7 DEF Once
    <3> QED BY <1>1, <1>2, <2>2, <2>7, <3>1 DEF Once, Founds
  <2>8. CASE pc[k] \in {"joined", "enter", "enlist"}
    <3>1. Linked(c) /\ Whole(c) /\ (pc[k] \in {"enter", "enlist"} => Me(k) \notin Members(c))
          /\ (pc[k] = "enlist" => assoc[Me(k)][c] # None)
      BY <1>1, <2>2, <2>8 DEF Once
    <3>2. pc[h] # "enlist"
      <4>1. pc[h] = "enlist" => Working(h) /\ req[h].op = "join"
        BY <1>1 DEF Working, Stage
      <4>2. req[k].op = "join"
        BY <1>1, <2>8 DEF Stage
      <4>3. {"join", "join"} \in plan.apart
        BY DEF Onces, Apart
      <4> QED BY <2>1, <4>1, <4>2, <4>3 DEF XInv
    <3>3. Linked(c)' /\ Whole(c)' /\ Members(c)' = Members(c)
      <4>1. CASE rows'[c] = rows[c]
        BY <3>1, <4>1 DEF Linked, Whole, Members
      <4>2. CASE Alters(h, c)
        <5>1. pc[h] = "link" /\ Linked(c)' /\ Whole(c)' /\ rows'[c].members = rows[c].members
          BY <2>4, <3>1, <3>2, <4>2 DEF Alters, Referred, Whole, Existing
        <5> QED BY <5>1 DEF Members
      <4> QED BY <2>2, <4>1, <4>2, RowAlters
    <3>4. Linked(got[k])' /\ Whole(got[k])' /\ Members(got[k])' = Members(c)
      <4>1. got'[k] = c
        BY <1>2, <2>2
      <4>2. Linked(got[k])' /\ Whole(got[k])'
        BY <3>3, <4>1 DEF Linked, Whole
      <4>3. Members(got[k])' = Members(c)'
        BY <4>1 DEF Members
      <4> QED BY <3>3, <4>2, <4>3
    <3>5. pc[k] = "enlist" => assoc'[Me(k)][c] # None
      BY <1>1, <2>5, <3>1
    <3> QED BY <1>1, <1>2, <2>2, <2>8, <3>1, <3>4, <3>5 DEF Once, Founds
  <2> QED BY <1>4, <2>6, <2>7, <2>8
<1> QED BY <1>3, <1>4 DEF Founds

LEMMA OnceSelf ==
    ASSUME TInv, KInv, OInv, Onces, NEW h \in Handlers, Acts(h)
    PROVE  Once(h)'
<1>1. Stage(h) /\ Stage(h)' /\ Me(h) \in Users /\ Once(h) /\ Me(h)' = Me(h) /\ Holds(h)
  BY ActsDo DEF OInv, Me, KInv
<1>2. CASE Ended(h)
  BY <1>2 DEF Ended, Once, Founds
<1>3. CASE Unwraps(h)
  BY <1>1, <1>3 DEF Unwraps, Panics, Once, Founds, tables, locals, Whole, Members, Linked, Untouched
<1>4. CASE Writes(h) /\ rows' = rows /\ ~Ended(h)
  <2>1. CASE pc[h] = "enter" /\ Puts(Me(h), got[h], got[h]) /\ Moved(h) /\ pc'[h] = "enlist" /\ UNCHANGED locals
    <3>1. assoc'[Me(h)][got[h]] = got[h] /\ got[h] # None /\ got'[h] = got[h]
      BY <1>1, <2>1, NoneIsNone DEF Puts, Stage, locals
    <3>2. Linked(got[h]) /\ Whole(got[h]) /\ Me(h) \notin Members(got[h])
      BY <1>1, <2>1 DEF Once
    <3>3. Linked(got[h])' /\ Whole(got[h])' /\ Members(got[h])' = Members(got[h])
      BY <1>4, <3>1, <3>2 DEF Linked, Whole, Members
    <3> QED BY <1>1, <2>1, <3>1, <3>2, <3>3 DEF Once, Founds
  <2>2. CASE pc'[h] \in {"theirs", "readTheirs"}
    BY <2>2 DEF Once, Founds
  <2> QED BY <1>4, <2>1, <2>2 DEF Writes
<1>5. CASE Rewrites(h) /\ assoc' = assoc /\ ~Ended(h)
  <2>1. CASE pc'[h] = "mine"
    <3>1. /\ Whole(got[h])' /\ ~Linked(got[h])' /\ ~Referred(got'[h]) /\ got'[h] \in Pool(req[h].op)
          /\ Members(got[h])' = (IF req[h].op = "send" THEN {Me(h), req[h].key} ELSE {Me(h)})
          /\ req'[h] = req[h]
      BY <1>5, <2>1, CreatedFounded DEF Moved
    <3>2. Founds(h)' => req[h].op = "group" /\ got'[h] \in Groups
      BY <3>1 DEF Founds, Pool
    <3>3. ASSUME Founds(h)', NEW u \in Users PROVE assoc'[u][got'[h]] = None
      <4>1. assoc[u][got'[h]] # got'[h] /\ assoc[u][got'[h]] \in {None, got'[h]}
        BY <3>1, <3>2, <3>3, NoneIsNone DEF Referred, KInv, Keyed
      <4> QED BY <1>5, <4>1
    <3>4. Founds(h)' => Untouched(got[h])' /\ Members(got[h])' = {Me(h)}
      BY <3>1, <3>2, <3>3 DEF Untouched
    <3> QED BY <1>1, <2>1, <3>1, <3>4 DEF Once
  <2>2. CASE pc[h] = "erase" /\ pc'[h] = "readMine" /\ Moved(h) /\ Sets(got[h], None)
    <3>1. req[h].key \in Groups => got[h] = req[h].key
      BY <1>1, <2>2 DEF Holds
    <3> QED BY <1>1, <2>2, <3>1 DEF Once, Founds, Moved, Sets
  <2> QED BY <1>5, <2>1, <2>2 DEF Rewrites
<1>6. CASE Looks(h) /\ ~Ended(h)
  <2>1. rows' = rows /\ assoc' = assoc
    BY <1>6 DEF Looks, tables
  <2>2. ASSUME NEW r \in Request, Asked(h, r) PROVE Once(h)'
    <3>1. FirstPc(r) \in {"chat", "create", "find", "map", "lookup"}
      BY DEF FirstPc
    <3> QED BY <2>2, <3>1 DEF Asked, Once, Founds
  <2>3. CASE pc[h] = "lookup" /\ Moved(h) /\ got'[h] = Own(h)
             /\ (pc'[h] = "create" \/ (~Unknown(h) /\ pc'[h] = NextPc(h)))
    <3>1. NextPc(h) \in {"link", "erase", "chat"}
      BY DEF NextPc
    <3>2. CASE pc'[h] = "link"
      <4>1. ~Unknown(h) /\ req'[h] = req[h]
        BY <2>3, <3>2 DEF Moved
      <4>2. req[h].key \in Groups
        BY <1>1, <3>2, <4>1 DEF Stage
      <4>3. Own(h) = assoc[Me(h)][req[h].key] /\ Own(h) # None
        BY <4>1 DEF Own, Unknown
      <4>4. Own(h) = req[h].key
        BY <1>1, <4>2, <4>3 DEF KInv, Keyed
      <4> QED BY <1>1, <2>1, <2>3, <3>2, <4>3, <4>4 DEF Once, Founds
    <3>3. CASE pc'[h] # "link"
      BY <2>3, <3>1, <3>3 DEF Once, Founds
    <3> QED BY <3>2, <3>3
  <2>4. CASE pc[h] = "find" /\ Moved(h) /\ pc'[h] = "joined" /\ Linked(req[h].key) /\ Whole(req[h].key)
    <3>1. got'[h] = req[h].key
      BY <1>1, <2>4 DEF Stage, Moved
    <3> QED BY <2>1, <2>4, <3>1 DEF Once, Founds, Linked, Whole
  <2>5. CASE pc[h] = "joined" /\ Moved(h) /\ pc'[h] = "enter" /\ UNCHANGED locals /\ Own(h) = None
    <3>1. got'[h] = got[h] /\ got[h] = req[h].key /\ got[h] \in Groups
      BY <1>1, <2>5 DEF locals, Stage
    <3>2. Linked(got[h]) /\ Whole(got[h]) /\ Noted(got[h])
      BY <1>1, <2>5, <3>1 DEF Once, OInv, Untouched
    <3>3. Me(h) \notin Members(got[h])
      BY <2>5, <3>1, <3>2 DEF Noted, Own
    <3>4. Linked(got[h])' /\ Whole(got[h])' /\ Members(got[h])' = Members(got[h])
      BY <2>1, <3>1, <3>2 DEF Linked, Whole, Members
    <3> QED BY <1>1, <2>5, <3>3, <3>4 DEF Once, Founds
  <2>6. CASE pc[h] = "readMine" /\ Moved(h) /\ pc'[h] = "writeMine"
    BY <1>1, <2>1, <2>6 DEF Once, Founds, Moved
  <2>7. CASE pc'[h] \in {"writeTheirs", "list"}
    BY <2>7 DEF Once, Founds
  <2> QED BY <1>6, <2>2, <2>3, <2>4, <2>5, <2>6, <2>7 DEF Looks
<1> QED BY <1>2, <1>3, <1>4, <1>5, <1>6, ActsDo

LEMMA FoundersDiffer ==
    ASSUME TInv, OInv, Onces, NEW h \in Handlers, Acts(h), NEW j \in Handlers, NEW k \in Handlers,
           Founds(j)', Founds(k)', got'[j] = got'[k]
    PROVE  j = k
<1>1. StepBy(h)
  BY ActsDo
<1>2. ASSUME NEW i \in Handlers, i # h, Founds(i)' PROVE Founds(i) /\ got'[i] = got[i]
  BY <1>1, <1>2 DEF StepBy, Same, Founds
<1>3. (Founds(h) /\ got'[h] = got[h]) \/ ~Referred(got'[h]) \/ ~Founds(h)'
  <2>1. CASE Ended(h) \/ Unwraps(h)
    BY <2>1 DEF Ended, Unwraps, Panics, Founds, locals
  <2>2. CASE Rewrites(h) /\ ~Ended(h)
    BY <2>2, CreatedFounded DEF Founds
  <2>3. CASE Writes(h) /\ ~Ended(h)
    BY <2>3 DEF Writes, Founds
  <2>4. CASE Looks(h) /\ ~Ended(h)
    <3>1. ASSUME NEW r \in Request, Asked(h, r) PROVE ~Founds(h)'
      BY <3>1 DEF Asked, FirstPc, Founds
    <3>2. NextPc(h) # "mine"
      BY DEF NextPc
    <3> QED BY <2>4, <3>1, <3>2 DEF Looks, Founds
  <2> QED BY <2>1, <2>2, <2>3, <2>4, ActsDo
<1>4. CASE j # h /\ k # h
  BY <1>2, <1>4 DEF OInv
<1>5. CASE j = h /\ k # h
  BY <1>2, <1>3, <1>5 DEF OInv, Referred
<1>6. CASE k = h /\ j # h
  BY <1>2, <1>3, <1>6 DEF OInv, Referred
<1> QED BY <1>4, <1>5, <1>6

LEMMA StepOInv == TInv /\ XInv /\ KInv /\ DInv /\ OInv /\ [Next]_vars => OInv'
<1> SUFFICES ASSUME TInv, XInv, KInv, DInv, OInv, [Next]_vars, Onces' PROVE OInv'
  BY DEF OInv
<1>1. CASE UNCHANGED vars
  <2>1. Onces /\ \A c \in ChatIds : Distinct(c) => Distinct(c)'
    BY <1>1 DEF vars, tables, Onces, DeletesAlone, Apart, Distinct
  <2>2. \A g \in Groups : (Whole(g)' => Whole(g)) /\ (Untouched(g) => Untouched(g)') /\ (Noted(g) => Noted(g)')
    BY <1>1 DEF vars, tables, Whole, Untouched, Noted, Linked, Members
  <2>3. \A h \in Handlers : Once(h) => Once(h)'
    BY <1>1 DEF vars, tables, locals, Once, Founds, Whole, Untouched, Linked, Members, Me
  <2> QED BY <1>1, <2>1, <2>2, <2>3 DEF OInv, Founds, vars, tables, locals
<1>2. CASE Restart
  <2>1. Restarted /\ Onces
    BY <1>2, RestartTyped DEF Restarted, Onces, DeletesAlone, Apart
  <2>2. rows' = rows /\ assoc' = assoc /\ \A h \in Handlers : pc'[h] = "idle"
    BY <2>1 DEF Restarted, tables
  <2>3. \A c \in ChatIds : Distinct(c) => Distinct(c)'
    BY <2>2 DEF Distinct
  <2>4. \A g \in Groups : (Whole(g)' => Whole(g)) /\ (Untouched(g) => Untouched(g)') /\ (Noted(g) => Noted(g)')
    BY <2>2 DEF Whole, Untouched, Noted, Linked, Members
  <2>5. \A h \in Handlers : Once(h)' /\ ~Founds(h)'
    BY <2>2 DEF Once, Founds
  <2> QED BY <2>1, <2>2, <2>3, <2>4, <2>5 DEF OInv
<1>3. ASSUME NEW h \in Handlers, Acts(h) PROVE OInv'
  <2>1. Onces
    BY <1>3, ActsStepBy DEF StepBy, Onces, DeletesAlone, Apart
  <2>2. \A k \in Handlers : Once(k)'
    BY <1>3, <2>1, OnceOthers, OnceSelf
  <2>3. \A g, k \in Handlers : Founds(g)' /\ Founds(k)' /\ got'[g] = got'[k] => g = k
    BY <1>3, <2>1, FoundersDiffer
  <2>4. \A c \in ChatIds : rows'[c] # None => Distinct(c)'
    BY <1>3, <2>1, DistinctStays
  <2>5. \A g \in Groups : Whole(g)' => Untouched(g)' \/ Noted(g)'
    BY <1>3, <2>1, NotedStays
  <2> QED BY <2>2, <2>3, <2>4, <2>5 DEF OInv
<1> QED BY <1>1, <1>2, <1>3, NextActs

LEMMA InitOInv == Init => OInv
<1> SUFFICES ASSUME Init PROVE OInv
  OBVIOUS
<1>1. \A c \in ChatIds : rows[c] = None
  BY DEF Init
<1>2. \A g \in Groups : ~Whole(g)
  BY <1>1, NoneIsNone DEF Whole
<1>3. \A h \in Handlers : pc[h] = "idle"
  BY DEF Init
<1> QED BY <1>1, <1>2, <1>3 DEF OInv, Once, Founds

(* A group lists each participant once although a join checks first and
   writes later, in two tables, wherever the process ends in between: joins
   wait for each other and for deletions.                                   *)
THEOREM MembersStayOnce == Spec => []MembersOnce
<1>1. Init => TInv /\ XInv /\ KInv /\ DInv /\ OInv
  BY InitTInv, InitXInv, InitKInv, InitDInv, InitOInv
<1>2. TInv /\ XInv /\ KInv /\ DInv /\ OInv /\ [Next]_vars => (TInv /\ XInv /\ KInv /\ DInv /\ OInv)'
  BY StepTyped, StepXInv, StepKInv, StepDInv, StepOInv
<1>3. OInv => MembersOnce
  BY DEF OInv, Onces, MembersOnce, Distinct
<1> QED BY <1>1, <1>2, <1>3, PTL DEF Spec

-----------------------------------------------------------------------------
(* One request at a time: a request alone finds its chat as it left it.     *)

Calmly(h) ==
    /\ pc[h] = "idle" => req[h] = None /\ seen[h] = {}
    /\ pc[h] = "map" => seen[h] = {}
    /\ pc[h] = "chat" /\ ~(req[h].op = "send" /\ req[h].key \in Groups) => got[h] = Own(h)
    /\ pc[h] \in {"create", "mine"} /\ req[h].op = "send" => Own(h) = None
    /\ pc[h] \in {"joined", "enter", "enlist"} => seen[h] = Members(got[h])
    /\ pc[h] \in {"erase", "readMine", "writeMine"} => Own(h) # None
    /\ pc[h] = "list" => /\ map[h] = assoc[Me(h)]
                         /\ seen[h] \cup todo[h] = {k \in Keys : assoc[Me(h)][k] # None}

BInv == Calm =>
    /\ \A c \in ChatIds : Whole(c) => Members(c) # {}
    /\ \A g \in Groups : Whole(g) => Noted(g) \/ \E h \in Handlers : Founds(h) /\ got[h] = g
    /\ \A h \in Handlers : Calmly(h)

LEMMA CalmMeans ==
    ASSUME Calm
    PROVE  /\ Steady /\ DeletesAlone /\ Homely /\ Paired /\ Onces /\ ~plan.crashes
           /\ \A a, b \in Ops : Apart(a, b)
BY DEF Calm, InTurn, DeletesAlone, Homely, Paired, Onces, Ops

LEMMA AtWork ==
    ASSUME TInv, XInv, Calm, NEW h \in Handlers, Acts(h), NEW k \in Handlers, k # h
    PROVE  ~Working(k)
<1> SUFFICES ASSUME Working(k) PROVE FALSE
  OBVIOUS
<1>1. req[k].op \in Ops /\ (Working(h) => req[h].op \in Ops) /\ \A r \in Request : r.op \in Ops
  BY DEF TInv, Staged, Stage, Request
<1> QED BY <1>1, KeptApart, CalmMeans

LEMMA AtList ==
    ASSUME Steady, NEW h \in Handlers, Acts(h)
    PROVE  /\ pc[h] = "map" => ReadMine(h)
           /\ pc[h] = "list" => ListOne(h) \/ ListUnwraps(h)
           /\ pc[h] = "find" => Find(h) \/ FindFails(h)
<1>1. pc[h] = "map" => ReadMine(h)
  BY Zenon DEF Acts, Ask, LookupFails, TouchPrivate, Lookup, ReadChat, ChatExpected, Create, CreatedGroup,
      AssociateMine, AssociateTheirs, Link, FindFails, Find, AlreadyJoined, NotJoined, Enter, Enlist,
      EraseRow, ReadMap, ForgetMine, ForgetTheirs, ListOne, ListUnwraps, QueryFails, QueryUnwraps, Steady, At
<1>2. pc[h] = "list" => ListOne(h) \/ ListUnwraps(h)
  BY Zenon DEF Acts, Ask, LookupFails, TouchPrivate, Lookup, ReadChat, ChatExpected, Create, CreatedGroup,
      AssociateMine, AssociateTheirs, Link, FindFails, Find, AlreadyJoined, NotJoined, Enter, Enlist,
      EraseRow, ReadMap, ForgetMine, ForgetTheirs, ReadMine, QueryFails, QueryUnwraps, Steady, At
<1>3. pc[h] = "find" => Find(h) \/ FindFails(h)
  BY Zenon DEF Acts, Ask, LookupFails, TouchPrivate, Lookup, ReadChat, ChatExpected, Create, CreatedGroup,
      AssociateMine, AssociateTheirs, Link, AlreadyJoined, NotJoined, Enter, Enlist,
      EraseRow, ReadMap, ForgetMine, ForgetTheirs, ReadMine, ListOne, ListUnwraps, QueryFails, QueryUnwraps, Steady, At
<1> QED BY <1>1, <1>2, <1>3

LEMMA FinishCalm ==
    ASSUME TInv, NEW h \in Handlers, NEW a, Finish(h, a)
    PROVE  Calmly(h)'
BY DEF Finish, Goto, TInv, TypeOK, Calmly

LEMMA EndsCalm ==
    ASSUME TInv, NEW h \in Handlers, Acts(h), Ended(h) PROVE Calmly(h)'
<1>1. pc'[h] = "idle" /\ Stage(h) /\ ~Ask(h)
  <2>1. ASSUME NEW r \in Request, Asked(h, r) PROVE FALSE
    BY <2>1 DEF Ended, Asked, FirstPc
  <2> QED BY <2>1, ActsDo, AskAsks DEF Ended
<1>2. \E a : Finish(h, a)
  <2>1. CASE LookupFails(h) \/ TouchPrivate(h) \/ ReadChat(h)
    BY <2>1 DEF LookupFails, TouchPrivate, ReadChat
  <2>2. CASE CreatedGroup(h) \/ AssociateTheirs(h) \/ Link(h) \/ FindFails(h) \/ AlreadyJoined(h) \/ Enlist(h) \/ QueryFails(h)
    BY <2>2 DEF CreatedGroup, AssociateTheirs, Link, FindFails, AlreadyJoined, Enlist, QueryFails, Done
  <2>3. CASE ForgetTheirs(h)
    BY <2>3 DEF ForgetTheirs
  <2>4. CASE ForgetMine(h)
    <3>1. (\E a : Finish(h, a)) \/ req[h].key \in Users
      BY <2>4, Zenon DEF ForgetMine, Done
    <3>2. req[h].key \notin Users
      <4>1. req[h].key \in Users => req[h].key \notin Groups
        BY NoneIsNone
      <4> QED BY <1>1, <2>4, <4>1, ForgetMineMoves DEF Moved, Working
    <3> QED BY <3>1, <3>2
  <2>5. CASE ReadMine(h)
    BY <1>1, <2>5 DEF ReadMine, Goto, TInv, TypeOK
  <2>6. CASE ListOne(h)
    BY <1>1, <2>6 DEF ListOne, At
  <2>7. CASE Lookup(h) \/ Find(h) \/ NotJoined(h) \/ Create(h) \/ AssociateMine(h) \/ Enter(h) \/ EraseRow(h) \/ ReadMap(h)
    BY <1>1, <2>7, LookupMoves, JoinMoves, CreateMoves, WritesMove, EraseMoves, ReadMapMoves DEF Moved, Working
  <2>8. CASE ChatExpected(h) \/ ListUnwraps(h) \/ QueryUnwraps(h)
    BY <2>8, PanicsAre DEF Panics, Ended
  <2> QED BY <1>1, <2>1, <2>2, <2>3, <2>4, <2>5, <2>6, <2>7, <2>8 DEF Acts
<1> QED BY <1>2, FinishCalm

(* An entry of one's own leads home while nobody else is at work.           *)
LEMMA OwnLeads ==
    ASSUME TInv, HInv, Homely, NEW h \in Handlers, \A j \in Handlers \ {h} : ~Working(j),
           pc[h] \notin {"readMine", "writeMine", "readTheirs", "writeTheirs", "enlist"},
           NEW k \in Keys, assoc[Me(h)][k] # None
    PROVE  /\ Whole(assoc[Me(h)][k])
           /\ k \in Users => Members(assoc[Me(h)][k]) = {Me(h), k}
           /\ k \in Groups => assoc[Me(h)][k] = k /\ Me(h) \in Members(k)
<1>1. Me(h) \in Users
  BY UsersAre
<1>2. ~Leaving(Me(h), k)
  BY DEF Leaving, Leaves, Working
<1>3. \A u, g : ~Joining(u, g)
  BY DEF Joining, Working
<1>4. Led(Me(h), k, assoc[Me(h)][k])
  BY <1>1, <1>2 DEF HInv, Home
<1> QED BY <1>3, <1>4 DEF Led

LEMMA ListedCalm ==
    ASSUME TInv, XInv, GInv, HInv, BInv, Calm, NEW h \in Handlers, Acts(h), pc[h] \in {"map", "list"}, ~Ended(h)
    PROVE  Calmly(h)'
<1>1. Stage(h) /\ Calmly(h) /\ Steady /\ Homely /\ Me(h) \in Users /\ Me(h)' = Me(h)
      /\ \A j \in Handlers \ {h} : ~Working(j)
  BY ActsDo, CalmMeans, AtWork DEF BInv, Me
<1> DEFINE known == {k \in Keys : assoc[Me(h)][k] # None}
<1>2. CASE pc[h] = "map"
  <2>1. ReadMine(h) /\ seen[h] = {}
    BY <1>1, <1>2, AtList DEF Calmly
  <2>2. \/ Finish(h, Fine({})) /\ assoc' = assoc
        \/ /\ map' = [map EXCEPT ![h] = assoc[Me(h)]] /\ todo' = [todo EXCEPT ![h] = known]
           /\ Goto(h, "list") /\ seen' = seen /\ assoc' = assoc
    BY <2>1 DEF ReadMine, tables
  <2>3. CASE Finish(h, Fine({}))
    BY <2>3, FinishCalm
  <2>4. CASE /\ map' = [map EXCEPT ![h] = assoc[Me(h)]] /\ todo' = [todo EXCEPT ![h] = known]
             /\ Goto(h, "list") /\ seen' = seen /\ assoc' = assoc
    <3>1. map'[h] = assoc[Me(h)] /\ todo'[h] = known /\ pc'[h] = "list" /\ seen'[h] = {}
      BY <2>1, <2>4 DEF TInv, TypeOK, Goto
    <3>2. known = {k \in Keys : assoc'[Me(h)][k] # None}
      BY <2>4
    <3> HIDE DEF known
    <3> QED BY <1>1, <2>4, <3>1, <3>2 DEF Calmly
  <2> QED BY <2>2, <2>3, <2>4
<1>3. CASE pc[h] = "list"
  <2>1. ListOne(h) /\ map[h] = assoc[Me(h)] /\ seen[h] \cup todo[h] = known
    <3>1. ~ListUnwraps(h)
      BY <1>1, <1>3, NoneUnwraps, PanicsAre DEF Unwraps
    <3> QED BY <1>1, <1>3, <3>1, AtList DEF Calmly
  <2> DEFINE Listed(k) == seen[h] \cup IF rows[map[h][k]] = None THEN {} ELSE {k}
  <2>2. PICK k \in todo[h] :
          /\ \/ Finish(h, Fine(Listed(k)))
             \/ /\ todo' = [todo EXCEPT ![h] = @ \ {k}]
                /\ seen' = [seen EXCEPT ![h] = Listed(k)]
                /\ UNCHANGED <<mode, plan, pc, req, got, map, answer>>
          /\ assoc' = assoc
    BY <2>1 DEF ListOne, tables
  <2>3. k \in Keys /\ assoc[Me(h)][k] # None
    BY <2>1, <2>2
  <2>4. rows[map[h][k]] # None
    BY <1>1, <1>3, <2>1, <2>3, OwnLeads DEF Whole
  <2>5. Listed(k) = seen[h] \cup {k}
    BY <2>4
  <2> HIDE DEF Listed
  <2>6. CASE Finish(h, Fine(Listed(k)))
    BY <2>6, FinishCalm
  <2>7. CASE /\ todo' = [todo EXCEPT ![h] = @ \ {k}]
             /\ seen' = [seen EXCEPT ![h] = Listed(k)]
             /\ UNCHANGED <<mode, plan, pc, req, got, map, answer>>
    <3>1. todo'[h] = todo[h] \ {k} /\ seen'[h] = seen[h] \cup {k} /\ pc'[h] = "list" /\ map'[h] = map[h]
      BY <1>3, <2>5, <2>7 DEF TInv, TypeOK
    <3>2. seen'[h] \cup todo'[h] = known
      BY <2>1, <2>2, <3>1
    <3>3. known = {j \in Keys : assoc'[Me(h)][j] # None}
      BY <2>2
    <3> HIDE DEF known
    <3> QED BY <1>1, <2>1, <2>2, <3>1, <3>2, <3>3 DEF Calmly
  <2> QED BY <2>2, <2>6, <2>7
<1> QED BY <1>2, <1>3

LEMMA CalmStays ==
    ASSUME TInv, XInv, GInv, HInv, BInv, Calm, NEW h \in Handlers, Acts(h)
    PROVE  Calmly(h)'
<1>1. Stage(h) /\ Stage(h)' /\ Calmly(h) /\ Steady /\ Me(h) \in Users /\ Me(h)' = Me(h)
  BY ActsDo, CalmMeans DEF BInv, Me
<1>2. CASE Ended(h)
  BY <1>2, EndsCalm
<1>3. CASE pc[h] \in {"map", "list"} /\ ~Ended(h)
  BY <1>3, ListedCalm
<1>4. CASE Writes(h) /\ rows' = rows /\ ~Ended(h)
  <2>1. CASE pc[h] = "enter" /\ Moved(h) /\ pc'[h] = "enlist" /\ UNCHANGED locals
    <3>1. seen'[h] = seen[h] /\ got'[h] = got[h] /\ seen[h] = Members(got[h])
      BY <1>1, <2>1 DEF Calmly, locals
    <3>2. Members(got[h])' = Members(got[h])
      BY <1>4, <3>1 DEF Members
    <3> QED BY <2>1, <3>1, <3>2 DEF Calmly
  <2>2. CASE pc'[h] \in {"theirs", "readTheirs"}
    BY <2>2 DEF Calmly
  <2> QED BY <1>4, <2>1, <2>2 DEF Writes
<1>5. CASE Rewrites(h) /\ assoc' = assoc /\ ~Ended(h)
  <2>1. req'[h] = req[h] /\ Own(h)' = Own(h)
    BY <1>1, <1>5 DEF Rewrites, Moved, Own
  <2> QED BY <1>1, <1>5, <2>1 DEF Rewrites, Calmly
<1>6. CASE Looks(h) /\ ~Ended(h) /\ pc[h] \notin {"map", "list"}
  <2>1. rows' = rows /\ assoc' = assoc
    BY <1>6 DEF Looks, tables
  <2>2. Moved(h) => req'[h] = req[h] /\ Own(h)' = Own(h)
    BY <1>1, <2>1 DEF Moved, Own
  <2>3. CASE \E r \in Request : Asked(h, r)
    <3>1. PICK r \in Request : Asked(h, r)
      BY <2>3
    <3>2. /\ FirstPc(r) \in {"chat", "create", "find", "map", "lookup"}
          /\ FirstPc(r) = "chat" => r.op = "send" /\ r.key \in Groups
          /\ FirstPc(r) = "create" => r.op = "group"
      BY DEF FirstPc
    <3>3. pc[h] = "idle" /\ seen[h] = {}
      BY <1>1, <3>1 DEF Asked, Calmly
    <3>4. seen' = seen
      <4>1. Ask(h)
        BY <3>3, Zenon DEF Acts, LookupFails, TouchPrivate, Lookup, ReadChat, ChatExpected, Create, CreatedGroup,
            AssociateMine, AssociateTheirs, Link, FindFails, Find, AlreadyJoined, NotJoined, Enter, Enlist,
            EraseRow, ReadMap, ForgetMine, ForgetTheirs, ReadMine, ListOne, ListUnwraps, QueryFails, QueryUnwraps, At
      <4> QED BY <4>1 DEF Ask
    <3> QED BY <3>1, <3>2, <3>3, <3>4 DEF Asked, Calmly
  <2>4. CASE pc[h] = "lookup" /\ Moved(h) /\ got'[h] = Own(h)
             /\ ((Own(h) = None /\ pc'[h] = "create") \/ (~Unknown(h) /\ pc'[h] = NextPc(h)))
    <3>1. NextPc(h) \in {"link", "erase", "chat"}
      BY DEF NextPc
    <3> QED BY <2>2, <2>4, <3>1 DEF Calmly, Unknown
  <2>5. CASE pc[h] = "find" /\ Moved(h) /\ pc'[h] = "joined"
    <3>1. Find(h)
      BY <1>6, <2>5, AtList, CalmMeans, EndsUnchanged
    <3>2. seen'[h] = Members(req[h].key) /\ got'[h] = req[h].key
      BY <1>1, <2>2, <2>5, <3>1 DEF Find, Stage, TInv, TypeOK
    <3>3. Members(got[h])' = Members(req[h].key)
      BY <2>1, <3>2 DEF Members
    <3> QED BY <2>5, <3>2, <3>3 DEF Calmly
  <2>6. CASE pc[h] = "joined" /\ Moved(h) /\ pc'[h] = "enter" /\ UNCHANGED locals
    <3>1. seen'[h] = seen[h] /\ got'[h] = got[h] /\ seen[h] = Members(got[h])
      BY <1>1, <2>6 DEF Calmly, locals
    <3>2. Members(got[h])' = Members(got[h])
      BY <2>1, <3>1 DEF Members
    <3> QED BY <2>6, <3>1, <3>2 DEF Calmly
  <2>7. CASE pc[h] = "readMine" /\ Moved(h) /\ pc'[h] = "writeMine"
    BY <1>1, <2>2, <2>7 DEF Calmly
  <2>8. CASE pc'[h] = "writeTheirs"
    BY <2>8 DEF Calmly
  <2> QED BY <1>6, <2>3, <2>4, <2>5, <2>6, <2>7, <2>8 DEF Looks
<1> QED BY <1>1, <1>2, <1>3, <1>4, <1>5, <1>6, ActsDo, NoneUnwraps

LEMMA SomeMember ==
    ASSUME TInv, KInv, BInv, Calm, NEW h \in Handlers, Acts(h), NEW c \in ChatIds, Whole(c)'
    PROVE  Members(c)' # {}
<1>1. ~(pc[h] = "erase" /\ got[h] = c)
  <2> SUFFICES ASSUME pc[h] = "erase", got[h] = c PROVE FALSE
    OBVIOUS
  <2>1. EraseRow(h)
    BY AtDelete, CalmMeans
  <2> QED BY <2>1, EraseMoves DEF Whole
<1>2. CASE Whole(c)
  BY <1>1, <1>2, RowsKept, CalmMeans DEF BInv
<1>3. CASE ~Whole(c)
  <2>1. Alters(h, c) /\ pc[h] = "create"
    <3>1. rows'[c] # rows[c]
      BY <1>3 DEF Whole
    <3> QED BY <1>1, <1>3, <3>1, RowAlters DEF Alters
  <2>2. rows'[c].members = Founders(h) /\ Stage(h)
    BY <2>1, ActsDo DEF Alters
  <2>3. Members(c)' = {Founders(h)[i] : i \in DOMAIN Founders(h)}
    BY <2>2 DEF Members
  <2>4. req[h].op = "send" => req[h].key \in Users
    BY <2>1, <2>2 DEF Stage
  <2> QED BY <2>3, <2>4, FoundersAre
<1> QED BY <1>2, <1>3

LEMMA GroupFounded ==
    ASSUME TInv, KInv, DInv, OInv, BInv, Calm, NEW h \in Handlers, Acts(h), NEW g \in Groups, Whole(g)'
    PROVE  Noted(g)' \/ \E k \in Handlers : Founds(k)' /\ got'[k] = g
<1>1. Stage(h) /\ g \in ChatIds /\ g # None /\ Steady /\ DeletesAlone /\ Onces /\ StepBy(h) /\ Me(h) \in Users
  BY ActsDo, CalmMeans, NoneIsNone
<1> SUFFICES ASSUME Untouched(g)' PROVE \E k \in Handlers : Founds(k)' /\ got'[k] = g
  BY <1>1, NotedStays
<1>2. CASE Whole(g) /\ Noted(g)
  <2>1. PICK u \in Members(g) : assoc[u][g] # None
    BY <1>1, <1>2 DEF Noted, BInv
  <2>2. u \in Users
    BY <1>1, <1>2, MembersTyped DEF TInv, Whole
  <2>3. assoc'[u][g] = None
    BY <2>2 DEF Untouched
  <2>4. pc[h] = "writeMine" /\ req[h].key = g
    BY <1>1, <2>1, <2>2, <2>3, GroupEntry
  <2> QED BY <1>1, <2>4 DEF Stage, Steady
<1>3. CASE Whole(g) /\ ~Noted(g)
  <2>1. PICK k \in Handlers : Founds(k) /\ got[k] = g
    BY <1>3 DEF BInv
  <2>2. CASE k # h
    BY <1>1, <2>1, <2>2 DEF StepBy, Same, Founds
  <2>3. CASE k = h
    <3>1. CreatedGroup(h)
      BY <2>1, <2>3, AtMine, CalmMeans DEF Founds, AssociateMine
    <3>2. assoc'[Me(h)][g] = g
      BY <2>1, <2>3, <3>1, WritersWrite DEF Writes, Founds, Puts
    <3> QED BY <1>1, <3>2 DEF Untouched
  <2> QED BY <2>2, <2>3
<1>4. CASE ~Whole(g)
  <2>1. Alters(h, g) /\ pc[h] = "create"
    <3>1. rows'[g] # rows[g]
      BY <1>4 DEF Whole
    <3>2. ~(pc[h] = "erase" /\ rows'[g] = None)
      BY DEF Whole
    <3> QED BY <1>1, <1>4, <3>1, <3>2, RowAlters DEF Alters
  <2>2. pc'[h] = "mine" /\ got'[h] = g /\ g \in Pool(req[h].op) /\ req'[h] = req[h]
    BY <2>1 DEF Alters, Moved
  <2>3. req[h].op = "group"
    BY <1>1, <2>1, <2>2, NoneIsNone DEF Stage, Pool
  <2> QED BY <2>2, <2>3 DEF Founds
<1> QED BY <1>2, <1>3, <1>4

LEMMA StepBInv ==
    TInv /\ XInv /\ KInv /\ GInv /\ DInv /\ HInv /\ OInv /\ BInv /\ [Next]_vars => BInv'
<1> SUFFICES ASSUME TInv, XInv, KInv, GInv, DInv, HInv, OInv, BInv, [Next]_vars, Calm' PROVE BInv'
  BY DEF BInv
<1>1. CASE UNCHANGED vars
  <2>1. Calm /\ \A c \in ChatIds : (Whole(c)' => Whole(c)) /\ Members(c)' = Members(c)
    BY <1>1 DEF vars, tables, Calm, InTurn, Apart, Steady, Whole, Members
  <2>2. \A g \in Groups : Noted(g) => Noted(g)'
    BY <1>1 DEF vars, tables, Noted, Members
  <2>3. \A h \in Handlers : (Founds(h) => Founds(h)') /\ got'[h] = got[h]
    BY <1>1 DEF vars, locals, Founds
  <2>4. \A h \in Handlers : Calmly(h) => Calmly(h)'
    BY <1>1 DEF vars, tables, locals, Calmly, Own, Members, Me
  <2>5. Groups \subseteq ChatIds
    BY NoneIsNone
  <2> QED BY <2>1, <2>2, <2>3, <2>4, <2>5 DEF BInv
<1>2. CASE Restart
  <2>1. Steady /\ ~plan.crashes
    BY <1>2 DEF Restart, Calm, Steady
  <2> QED BY <1>2, <2>1 DEF Restart, GInv
<1>3. ASSUME NEW h \in Handlers, Acts(h) PROVE BInv'
  <2>1. Calm /\ StepBy(h)
    BY <1>3, ActsStepBy DEF StepBy, Calm, InTurn, Apart, Steady
  <2>2. ASSUME NEW k \in Handlers, k # h PROVE Calmly(k)'
    <3>1. pc[k] = "idle" /\ Same(k)
      BY <1>3, <2>1, <2>2, AtWork DEF Working, StepBy
    <3> QED BY <2>1, <3>1 DEF Same, Calmly, BInv
  <2> QED BY <1>3, <2>1, <2>2, CalmStays, SomeMember, GroupFounded DEF BInv
<1> QED BY <1>1, <1>2, <1>3, NextActs

LEMMA InitBInv == Init => BInv
<1> SUFFICES ASSUME Init PROVE BInv
  OBVIOUS
<1>1. \A c \in ChatIds : ~Whole(c)
  BY DEF Init, Whole
<1>2. \A h \in Handlers : pc[h] = "idle" /\ req[h] = None /\ seen[h] = {}
  BY DEF Init
<1> QED BY <1>1, <1>2, NoneIsNone DEF BInv, Calmly

-----------------------------------------------------------------------------
(* The book: one request at a time, every query keeps what ChatBook sees of
   the tables and every answer is one of its steps.                         *)

Belongs(g) == IF rows[g] = None THEN {} ELSE {u \in Members(g) : assoc[u][g] # None}

BookPairs == {{p[1], p[2]} : p \in {q \in Users \X Users : Both(q[1], q[2])}}
BookMembers == [g \in Groups |-> Belongs(g)]
BookOpen == {g \in Groups : Linked(g)}

BookStep == Book!Next \/ UNCHANGED Book!vars

CInv == TInv /\ XInv /\ KInv /\ GInv /\ DInv /\ HInv /\ PInv /\ OInv /\ BInv

LEMMA HalfTurns == \A u, v : Half(u, v) <=> Half(v, u)
<1>1. \A u, v : {u, v} = {v, u}
  OBVIOUS
<1> QED BY <1>1 DEF Half

LEMMA PairsAre ==
    \A u, v \in Users : {u, v} \in BookPairs <=> Both(u, v)
<1> SUFFICES ASSUME NEW u \in Users, NEW v \in Users PROVE {u, v} \in BookPairs <=> Both(u, v)
  OBVIOUS
<1>1. Both(u, v) <=> Both(v, u)
  BY HalfTurns DEF Both
<1>2. ASSUME Both(u, v) PROVE {u, v} \in BookPairs
  <2>1. <<u, v>> \in {q \in Users \X Users : Both(q[1], q[2])}
    BY <1>2
  <2> QED BY <2>1 DEF BookPairs
<1>3. ASSUME {u, v} \in BookPairs PROVE Both(u, v)
  <2>1. PICK p \in Users \X Users : Both(p[1], p[2]) /\ {u, v} = {p[1], p[2]}
    BY <1>3 DEF BookPairs
  <2>2. (p[1] = u /\ p[2] = v) \/ (p[1] = v /\ p[2] = u)
    BY <2>1
  <2> QED BY <1>1, <2>1, <2>2
<1> QED BY <1>2, <1>3

LEMMA PairsTyped == BookPairs = {s \in SUBSET Users : \E u, v \in Users : s = {u, v} /\ Both(u, v)}
<1>1. ASSUME NEW s \in BookPairs PROVE s \in SUBSET Users /\ \E u, v \in Users : s = {u, v} /\ Both(u, v)
  <2>1. PICK p \in Users \X Users : Both(p[1], p[2]) /\ s = {p[1], p[2]}
    BY <1>1 DEF BookPairs
  <2> QED BY <2>1
<1>2. ASSUME NEW u \in Users, NEW v \in Users, Both(u, v) PROVE {u, v} \in BookPairs
  BY <1>2, PairsAre
<1> QED BY <1>1, <1>2

(* What the terms of the book say of the tables.                            *)
LEMMA BookReads ==
    /\ Book!Users = Users
    /\ \A u : Book!Peers(u) = {v \in Users : {u, v} \in BookPairs}
    /\ \A u : Book!GroupsOf(u) = {g \in Groups : u \in BookMembers[g]}
    /\ \A u, k : Book!Knows(u, k) <=> k \in Book!Peers(u) \cup Book!GroupsOf(u)
    /\ Book!Silent = Silent /\ Book!NotFound = NotFound /\ Book!Refusal = Refusal
    /\ \A S : Book!Fine(S) = Fine(S)
<1>1. Book!Users = Users
  BY DEF Book!Users, Users
<1>2. \A u : Book!Peers(u) = {v \in Users : {u, v} \in BookPairs}
  BY <1>1 DEF Book!Peers, BookPairs
<1>3. \A u : Book!GroupsOf(u) = {g \in Groups : u \in BookMembers[g]}
  BY DEF Book!GroupsOf, BookMembers, Belongs
<1>4. \A u, k : Book!Knows(u, k) <=> k \in Book!Peers(u) \cup Book!GroupsOf(u)
  BY DEF Book!Knows
<1>5. Book!Silent = Silent /\ Book!NotFound = NotFound /\ Book!Refusal = Refusal /\ \A S : Book!Fine(S) = Fine(S)
  BY DEF Book!Silent, Book!NotFound, Book!Refusal, Book!Fine, Silent, NotFound, Refusal, Fine
<1> QED BY <1>1, <1>2, <1>3, <1>4, <1>5

LEMMA BookKeeps ==
    ASSUME BookPairs' = BookPairs, BookMembers' = BookMembers, BookOpen' = BookOpen, req' = req, answer' = answer
    PROVE  BookStep
BY DEF BookStep, Book!vars, BookPairs, BookMembers, BookOpen, Belongs

LEMMA PairsBecome ==
    ASSUME NEW P, \A s \in P : \E u, v \in Users : s = {u, v},
           \A u, v \in Users : Both(u, v)' <=> {u, v} \in P
    PROVE  BookPairs' = P
<1>1. ASSUME NEW s \in BookPairs' PROVE s \in P
  <2>1. PICK p \in {q \in Users \X Users : Both(q[1], q[2])'} : s = {p[1], p[2]}
    BY <1>1 DEF BookPairs
  <2>2. p \in Users \X Users /\ Both(p[1], p[2])'
    BY <2>1
  <2>3. p[1] \in Users /\ p[2] \in Users
    BY <2>2
  <2> QED BY <2>1, <2>2, <2>3
<1>2. ASSUME NEW s \in P PROVE s \in BookPairs'
  <2>1. PICK u, v \in Users : s = {u, v}
    BY <1>2
  <2>2. Both(u, v)'
    BY <1>2, <2>1
  <2>3. <<u, v>> \in {q \in Users \X Users : Both(q[1], q[2])'}
    BY <2>2
  <2> QED BY <2>1, <2>3 DEF BookPairs
<1> QED BY <1>1, <1>2

LEMMA PairsKept ==
    ASSUME \A u, v \in Users : Both(u, v)' <=> Both(u, v)
    PROVE  BookPairs' = BookPairs
<1>1. \A s \in BookPairs : \E u, v \in Users : s = {u, v}
  BY PairsTyped
<1> QED BY <1>1, PairsAre, PairsBecome

LEMMA MembersKept ==
    ASSUME \A g \in Groups : Belongs(g)' = Belongs(g)
    PROVE  BookMembers' = BookMembers
BY DEF BookMembers

LEMMA BelongsSame ==
    ASSUME NEW g \in Groups, rows'[g] = rows[g], \A u \in Members(g) : assoc'[u][g] = assoc[u][g]
    PROVE  Belongs(g)' = Belongs(g)
BY DEF Belongs, Members


(* What must hold of a request and its answer for each step of the book.    *)
BookSame == BookPairs' = BookPairs /\ BookMembers' = BookMembers /\ BookOpen' = BookOpen
Replies(h, a) == req' = [req EXCEPT ![h] = None] /\ answer' = [answer EXCEPT ![h] = a]
Serves(h, ops) == req[h] \in Request /\ req[h].op \in ops
InBook(u, k) == (k \in Users /\ {u, k} \in BookPairs) \/ (k \in Groups /\ u \in BookMembers[k])

LEMMA BookServes ==
    ASSUME NEW h \in Handlers, NEW ops, Serves(h, ops)
    PROVE  Book!Serves(h, ops) /\ Book!Key(h) = req[h].key /\ UserOf[h] = Me(h)
BY NoneIsNone DEF Serves, Book!Serves, Book!Key, Me

LEMMA BookReplies ==
    ASSUME NEW h \in Handlers, NEW a, Replies(h, a) PROVE Book!Reply(h, a)
BY DEF Replies, Book!Reply

LEMMA BookKnows ==
    \A u, k : Book!Knows(u, k) <=> InBook(u, k)
BY BookReads DEF InBook

LEMMA BookAsks ==
    ASSUME NEW h \in Handlers, NEW r \in Request, req[h] = None, req' = [req EXCEPT ![h] = r],
           answer' = [answer EXCEPT ![h] = Silent], BookSame
    PROVE  BookStep
<1>1. Book!Ask(h, r)
  BY BookReads DEF Book!Ask, BookSame, BookPairs, BookMembers, Belongs, BookOpen
<1>2. r \in [op : {"send", "group", "link", "join", "touch", "info", "delete", "chats"},
             key : Book!Users \cup Groups \cup {None}]
  BY BookReads DEF Request, Ops, Keys
<1> QED BY <1>1, <1>2 DEF BookStep, Book!Next

LEMMA BookPosts ==
    ASSUME NEW h \in Handlers, Serves(h, {"send"}), req[h].key \in Users,
           BookPairs' = BookPairs \cup {{Me(h), req[h].key}}, BookMembers' = BookMembers, BookOpen' = BookOpen,
           Replies(h, Fine({Me(h), req[h].key}))
    PROVE  BookStep
<1>1. Book!Post(h)
  BY BookReads, BookServes, BookReplies DEF Book!Post, BookPairs, BookMembers, Belongs, BookOpen
<1> QED BY <1>1 DEF BookStep, Book!Next

LEMMA BookSends ==
    ASSUME NEW h \in Handlers, Serves(h, {"send"}), req[h].key \in Groups, BookMembers[req[h].key] # {},
           BookSame, Replies(h, Fine(BookMembers[req[h].key]))
    PROVE  BookStep
<1>1. Book!Post(h)
  BY BookReads, BookServes, BookReplies, NoneIsNone DEF Book!Post, BookSame, BookPairs, BookMembers, Belongs, BookOpen
<1> QED BY <1>1 DEF BookStep, Book!Next

LEMMA BookFounds ==
    ASSUME NEW h \in Handlers, Serves(h, {"group"}), NEW g \in Groups, BookMembers[g] = {},
           BookPairs' = BookPairs, BookMembers' = [BookMembers EXCEPT ![g] = {Me(h)}], BookOpen' = BookOpen,
           Replies(h, Fine({Me(h)}))
    PROVE  BookStep
<1>1. Book!Found(h)
  BY BookReads, BookServes, BookReplies DEF Book!Found, BookPairs, BookMembers, Belongs, BookOpen
<1> QED BY <1>1 DEF BookStep, Book!Next

LEMMA BookInvites ==
    ASSUME NEW h \in Handlers, Serves(h, {"link"}), req[h].key \in Groups, Me(h) \in BookMembers[req[h].key],
           BookPairs' = BookPairs, BookMembers' = BookMembers, BookOpen' = BookOpen \cup {req[h].key},
           Replies(h, Fine({}))
    PROVE  BookStep
<1>1. Book!Invite(h)
  BY BookReads, BookServes, BookReplies DEF Book!Invite, BookPairs, BookMembers, Belongs, BookOpen
<1> QED BY <1>1 DEF BookStep, Book!Next

LEMMA BookEnters ==
    ASSUME NEW h \in Handlers, Serves(h, {"join"}), req[h].key \in BookOpen, Me(h) \notin BookMembers[req[h].key],
           BookMembers' = [BookMembers EXCEPT ![req[h].key] = @ \cup {Me(h)}],
           BookPairs' = BookPairs, BookOpen' = BookOpen, Replies(h, Fine(BookMembers[req[h].key]))
    PROVE  BookStep
<1>1. Book!Enter(h)
  BY BookReads, BookServes, BookReplies DEF Book!Enter, BookPairs, BookMembers, Belongs, BookOpen
<1> QED BY <1>1 DEF BookStep, Book!Next

LEMMA BookHasNoLink ==
    ASSUME NEW h \in Handlers, Serves(h, {"join"}), req[h].key \notin BookOpen, BookSame, Replies(h, NotFound)
    PROVE  BookStep
<1>1. Book!NoLink(h)
  BY BookReads, BookServes, BookReplies DEF Book!NoLink, BookSame, BookPairs, BookMembers, Belongs, BookOpen
<1> QED BY <1>1 DEF BookStep, Book!Next

LEMMA BookLooks ==
    ASSUME NEW h \in Handlers, Serves(h, {"touch", "info"}), InBook(Me(h), req[h].key), BookSame,
           Replies(h, Fine(IF req[h].key \in Users THEN {Me(h), req[h].key} ELSE BookMembers[req[h].key]))
    PROVE  BookStep
<1>1. Book!Serves(h, {"touch", "info"}) /\ Book!Key(h) = req[h].key /\ UserOf[h] = Me(h)
  BY BookServes
<1>2. Book!Knows(UserOf[h], Book!Key(h))
  BY <1>1, BookKnows
<1> DEFINE a == Fine(IF req[h].key \in Users THEN {Me(h), req[h].key} ELSE BookMembers[req[h].key])
<1>3. a = Book!Fine(IF Book!Key(h) \in Book!Users THEN {UserOf[h], Book!Key(h)} ELSE BookMembers[Book!Key(h)])
  BY <1>1, BookReads
<1>4. Book!Reply(h, a)
  BY BookReplies
<1> HIDE DEF a
<1>5. Book!Look(h)
  BY <1>1, <1>2, <1>3, <1>4, Zenon DEF Book!Look, BookSame, BookPairs, BookMembers, Belongs, BookOpen
<1> QED BY <1>5 DEF BookStep, Book!Next

LEMMA BookLists ==
    ASSUME NEW h \in Handlers, Serves(h, {"chats"}), BookSame,
           Replies(h, Fine({k \in Keys : InBook(Me(h), k)}))
    PROVE  BookStep
<1>1. Book!Peers(Me(h)) \cup Book!GroupsOf(Me(h)) = {k \in Keys : InBook(Me(h), k)}
  BY BookReads, NoneIsNone DEF InBook
<1>2. Book!Serves(h, {"chats"}) /\ UserOf[h] = Me(h)
  BY BookServes
<1> DEFINE a == Fine({k \in Keys : InBook(Me(h), k)})
<1>3. a = Book!Fine(Book!Peers(UserOf[h]) \cup Book!GroupsOf(UserOf[h]))
  BY <1>1, <1>2, BookReads
<1>4. Book!Reply(h, a)
  BY BookReplies
<1> HIDE DEF a
<1>5. Book!List(h)
  BY <1>2, <1>3, <1>4, Zenon DEF Book!List, BookSame, BookPairs, BookMembers, Belongs, BookOpen
<1> QED BY <1>5 DEF BookStep, Book!Next

LEMMA BookParts ==
    ASSUME NEW h \in Handlers, Serves(h, {"delete"}), {Me(h), req[h].key} \in BookPairs,
           BookPairs' = BookPairs \ {{Me(h), req[h].key}}, BookMembers' = BookMembers, BookOpen' = BookOpen,
           Replies(h, Fine({}))
    PROVE  BookStep
<1>1. Book!Part(h)
  BY BookReads, BookServes, BookReplies DEF Book!Part, BookPairs, BookMembers, Belongs, BookOpen
<1> QED BY <1>1 DEF BookStep, Book!Next

LEMMA BookRefuses ==
    ASSUME NEW h \in Handlers, BookSame, Replies(h, Refusal),
           \/ Serves(h, {"touch", "info", "delete"}) /\ ~InBook(Me(h), req[h].key)
           \/ Serves(h, {"link"}) /\ ~(req[h].key \in Groups /\ Me(h) \in BookMembers[req[h].key])
           \/ Serves(h, {"send"}) /\ req[h].key \in Groups /\ BookMembers[req[h].key] = {}
           \/ Serves(h, {"join"}) /\ Me(h) \in BookMembers[req[h].key]
    PROVE  BookStep
<1>1. /\ \A ops : Serves(h, ops) => Book!Serves(h, ops)
      /\ Book!Key(h) = req[h].key /\ UserOf[h] = Me(h) /\ Book!Refusal = Refusal
  BY BookServes, BookReads
<1>2. Book!Reply(h, Book!Refusal)
  BY <1>1, BookReplies
<1>3. \/ Book!Serves(h, {"touch", "info", "delete"}) /\ ~Book!Knows(UserOf[h], Book!Key(h))
      \/ Book!Serves(h, {"link"}) /\ Book!Key(h) \notin Book!GroupsOf(UserOf[h])
      \/ Book!Serves(h, {"send"}) /\ Book!Key(h) \in Groups /\ BookMembers[Book!Key(h)] = {}
      \/ Book!Serves(h, {"join"}) /\ UserOf[h] \in BookMembers[Book!Key(h)]
  <2>1. \A k : Book!Knows(UserOf[h], k) <=> InBook(Me(h), k)
    BY <1>1, BookKnows
  <2>2. \A k : k \in Book!GroupsOf(UserOf[h]) <=> k \in Groups /\ Me(h) \in BookMembers[k]
    BY <1>1, BookReads
  <2> QED BY <1>1, <2>1, <2>2
<1>4. Book!Refuse(h)
  BY <1>2, <1>3, Zenon DEF Book!Refuse, BookSame, BookPairs, BookMembers, Belongs, BookOpen
<1> QED BY <1>4 DEF BookStep, Book!Next


(* What the book says of the one request at work.                           *)
LEMMA CalmWork ==
    ASSUME CInv, Calm, NEW h \in Handlers, Acts(h)
    PROVE  /\ TInv /\ Stage(h) /\ Stage(h)' /\ Calmly(h) /\ Erasing(h) /\ Me(h) \in Users /\ Me(h) \in Keys
           /\ \A j \in Handlers \ {h} : pc[j] = "idle" /\ pc'[j] = "idle"
           /\ Steady /\ DeletesAlone /\ Homely /\ Paired /\ Onces
<1>1. TInv /\ Stage(h) /\ Stage(h)' /\ Me(h) \in Users /\ Me(h) \in Keys /\ StepBy(h)
  BY ActsDo, NoneIsNone DEF CInv
<1>2. Steady /\ DeletesAlone /\ Homely /\ Paired /\ Onces
  BY CalmMeans
<1>3. \A j \in Handlers \ {h} : pc[j] = "idle" /\ pc'[j] = "idle"
  BY <1>1, AtWork DEF CInv, Working, StepBy, Same
<1> QED BY <1>1, <1>2, <1>3 DEF CInv, BInv, DInv

LEMMA HalfNow ==
    ASSUME CInv, Calm, NEW h \in Handlers, Acts(h), NEW u, NEW v
    PROVE  /\ Half(u, v) <=> pc[h] \in {"readTheirs", "writeTheirs"} /\ {Me(h), req[h].key} = {u, v}
           /\ Half(u, v)' <=> pc'[h] \in {"readTheirs", "writeTheirs"} /\ {Me(h), req'[h].key} = {u, v}
<1>1. \A j \in Handlers \ {h} : pc[j] = "idle" /\ pc'[j] = "idle"
  BY CalmWork
<1>2. \A j \in Handlers : Me(j)' = Me(j)
  BY DEF Me
<1> QED BY <1>1, <1>2 DEF Half

LEMMA EntriesBoth ==
    ASSUME CInv, Calm, NEW h \in Handlers, Acts(h), NEW u \in Users, NEW v \in Users,
           pc[h] \notin {"theirs", "readTheirs", "writeTheirs"}
    PROVE  /\ Both(u, v) <=> assoc[u][v] # None
           /\ assoc[v][u] # None <=> assoc[u][v] # None
<1>1. ~Half(u, v)
  BY HalfNow
<1>2. ~Between(u, v)
  BY CalmWork DEF Between, Joins
<1>3. u # v => assoc[u][v] = assoc[v][u]
  BY <1>2, CalmWork DEF CInv, PInv
<1> QED BY <1>1, <1>3 DEF Both

LEMMA GroupBook ==
    ASSUME CInv, Calm, NEW h \in Handlers, Acts(h), NEW g \in Groups, ~(Founds(h) /\ got[h] = g)
    PROVE  /\ BookMembers[g] = IF rows[g] = None THEN {} ELSE Members(g)
           /\ rows[g] # None => Whole(g) /\ Members(g) # {}
<1>1. g \in ChatIds
  BY NoneIsNone
<1>2. rows[g] # None => Whole(g)
  BY <1>1, CalmWork DEF CInv, GInv, Whole, Partial
<1>3. ~\E j \in Handlers : Founds(j) /\ got[j] = g
  BY CalmWork DEF Founds
<1>4. rows[g] # None => Noted(g) /\ Members(g) # {}
  BY <1>1, <1>2, <1>3 DEF CInv, BInv
<1> QED BY <1>2, <1>4 DEF BookMembers, Belongs, Noted

LEMMA OwnInBook ==
    ASSUME CInv, Calm, NEW h \in Handlers, Acts(h), NEW k \in Keys,
           pc[h] \notin {"theirs", "readMine", "writeMine", "readTheirs", "writeTheirs", "enlist"}
    PROVE  InBook(Me(h), k) <=> assoc[Me(h)][k] # None
<1>1. Me(h) \in Users /\ Users \cap Groups = {} /\ Keys = Users \cup Groups
  BY CalmWork, NoneIsNone
<1>2. CASE k \in Users
  BY <1>1, <1>2, EntriesBoth, PairsAre DEF InBook
<1>3. CASE k \in Groups
  <2>1. assoc[Me(h)][k] # None => Whole(k) /\ Me(h) \in Members(k)
    <3>1. \A j \in Handlers \ {h} : ~Working(j)
      BY CalmWork DEF Working
    <3> QED BY <1>3, <3>1, CalmWork, OwnLeads DEF CInv
  <2>2. Me(h) \in BookMembers[k] <=> assoc[Me(h)][k] # None
    BY <1>3, <2>1 DEF BookMembers, Belongs, Whole
  <2> QED BY <1>1, <1>3, <2>2 DEF InBook
<1> QED BY <1>1, <1>2, <1>3

(* A step that leaves the tables leaves the book, too.                      *)
LEMMA BookRests ==
    ASSUME CInv, Calm, NEW h \in Handlers, Acts(h), UNCHANGED tables,
           pc'[h] \in {"readTheirs", "writeTheirs"} <=> pc[h] \in {"readTheirs", "writeTheirs"},
           pc[h] = "idle" \/ pc'[h] = "idle" \/ req'[h] = req[h]
    PROVE  BookSame
<1>1. rows' = rows /\ assoc' = assoc
  BY DEF tables
<1>2. \A u, v : Half(u, v)' <=> Half(u, v)
  BY HalfNow
<1>3. BookPairs' = BookPairs
  BY <1>1, <1>2, PairsKept DEF Both
<1>4. BookMembers' = BookMembers /\ BookOpen' = BookOpen
  BY <1>1 DEF BookMembers, BookOpen, Belongs, Members, Linked
<1> QED BY <1>3, <1>4 DEF BookSame

LEMMA StepAsked ==
    ASSUME CInv, Calm, NEW h \in Handlers, Acts(h), Ask(h) PROVE BookStep
<1>1. PICK r \in Request : Asked(h, r)
  BY CalmWork, AskAsks
<1>2. FirstPc(r) \in {"chat", "create", "find", "map", "lookup"}
  BY DEF FirstPc
<1>3. BookSame
  BY <1>1, <1>2, BookRests DEF Asked
<1>4. req[h] = None
  BY <1>1, CalmWork DEF Asked, Calmly
<1> QED BY <1>1, <1>3, <1>4, BookAsks DEF Asked

LEMMA FinishReplies ==
    ASSUME NEW h \in Handlers, NEW a, Finish(h, a) PROVE Replies(h, a)
BY DEF Finish, Replies

(* The requests that only look.                                             *)
LEMMA StepLooked ==
    ASSUME CInv, Calm, NEW h \in Handlers, Acts(h),
           LookupFails(h) \/ TouchPrivate(h) \/ ReadChat(h) \/ FindFails(h) \/ AlreadyJoined(h)
    PROVE  BookStep
<1>0. Stage(h) /\ Calmly(h) /\ Me(h) \in Users /\ Users \cap Groups = {} /\ Keys = Users \cup Groups
      /\ Groups \subseteq ChatIds
  BY CalmWork, NoneIsNone
<1>1. pc'[h] = "idle" /\ UNCHANGED tables
  BY CalmWork, EndsUnchanged DEF Ended
<1>2. pc[h] \in {"lookup", "chat", "find", "joined"}
  BY DEF LookupFails, TouchPrivate, ReadChat, FindFails, AlreadyJoined, At
<1>3. BookSame
  BY <1>1, <1>2, BookRests
<1>4. req[h] \in Request
  BY <1>0, <1>2 DEF Stage, Working
<1>5. \A k \in Keys : InBook(Me(h), k) <=> assoc[Me(h)][k] # None
  BY <1>2, OwnInBook
<1>6. \A g \in Groups : /\ BookMembers[g] = IF rows[g] = None THEN {} ELSE Members(g)
                        /\ rows[g] # None => Whole(g) /\ Members(g) # {}
  BY <1>2, GroupBook DEF Founds
<1>7. CASE LookupFails(h)
  <2>1. pc[h] = "lookup" /\ req[h].op # "send" /\ Unknown(h) /\ Replies(h, Refusal)
    BY <1>7, FinishReplies DEF LookupFails, At
  <2>2. req[h].op \in {"link", "touch", "info", "delete"} /\ req[h].key \in Keys
    BY <1>0, <2>1 DEF Stage, Others
  <2>3. CASE Own(h) = None
    BY <1>3, <1>4, <1>5, <2>1, <2>2, <2>3, BookRefuses DEF Own, Serves, InBook
  <2>4. CASE req[h].op = "link" /\ req[h].key \notin Groups
    BY <1>3, <1>4, <2>1, <2>4, BookRefuses DEF Serves
  <2> QED BY <2>1, <2>3, <2>4 DEF Unknown
<1>8. CASE TouchPrivate(h)
  <2>1. pc[h] = "lookup" /\ req[h].op = "touch" /\ Own(h) # None /\ req[h].key \in Users
        /\ Replies(h, Fine({Me(h), req[h].key}))
    BY <1>8, FinishReplies DEF TouchPrivate, At, Unknown
  <2> QED BY <1>0, <1>3, <1>4, <1>5, <2>1, BookLooks DEF Own, Serves
<1>9. CASE ReadChat(h)
  <2>1. pc[h] = "chat" /\ req[h].op \in {"send", "touch", "info"} /\ req[h].key \in Keys /\ got[h] \in ChatIds
    BY <1>0, <1>9 DEF ReadChat, At, Stage, Others
  <2>2. ~Partial(got[h])
    BY <2>1, CalmWork DEF CInv, GInv
  <2>3. \/ Whole(got[h]) /\ Replies(h, Fine(Members(got[h])))
        \/ rows[got[h]] = None /\ Replies(h, Refusal)
    BY <1>9, <2>2, FinishReplies DEF ReadChat
  <2>4. CASE req[h].op = "send" /\ req[h].key \in Groups
    <3>1. got[h] = req[h].key
      BY <2>1, <2>4, CalmWork DEF CInv, KInv, Holds
    <3> QED BY <1>3, <1>4, <1>6, <2>3, <2>4, <3>1, BookSends, BookRefuses DEF Serves, Whole
  <2>5. CASE ~(req[h].op = "send" /\ req[h].key \in Groups)
    <3>1. got[h] = Own(h) /\ Own(h) # None
      BY <1>0, <2>1, <2>5, NoneIsNone DEF Calmly
    <3>2. /\ Whole(got[h])
          /\ req[h].key \in Users => Members(got[h]) = {Me(h), req[h].key}
          /\ req[h].key \in Groups => got[h] = req[h].key
      <4>1. \A j \in Handlers \ {h} : ~Working(j)
        BY CalmWork DEF Working
      <4> QED BY <2>1, <3>1, <4>1, CalmWork, OwnLeads DEF CInv, Own
    <3>3. Replies(h, Fine(Members(got[h]))) /\ InBook(Me(h), req[h].key)
      BY <1>5, <2>1, <2>3, <3>1, <3>2 DEF Whole, Own
    <3>4. CASE req[h].op = "send"
      <4>1. req[h].key \in Users /\ {Me(h), req[h].key} \in BookPairs
        BY <1>0, <2>1, <2>5, <3>3, <3>4 DEF InBook
      <4>2. BookPairs = BookPairs \cup {{Me(h), req[h].key}}
        BY <4>1
      <4> QED BY <1>3, <1>4, <3>2, <3>3, <3>4, <4>1, <4>2, BookPosts DEF Serves, BookSame
    <3>5. CASE req[h].op # "send"
      <4>1. Members(got[h]) = IF req[h].key \in Users THEN {Me(h), req[h].key} ELSE BookMembers[req[h].key]
        BY <1>0, <1>6, <2>1, <3>2 DEF Whole
      <4> QED BY <1>3, <1>4, <2>1, <3>3, <3>5, <4>1, BookLooks DEF Serves
    <3> QED BY <3>4, <3>5
  <2> QED BY <2>4, <2>5
<1>10. CASE FindFails(h)
  <2>1. pc[h] = "find" /\ req[h].op = "join" /\ req[h].key \in Groups
    BY <1>0, <1>10 DEF FindFails, At, Stage
  <2>2. ~Partial(req[h].key)
    BY <1>0, <2>1, CalmWork DEF CInv, GInv
  <2>3. ~Linked(req[h].key) /\ Replies(h, NotFound)
    BY <1>10, <2>2, FinishReplies DEF FindFails
  <2> QED BY <1>3, <1>4, <2>1, <2>3, BookHasNoLink DEF Serves, BookOpen
<1>11. CASE AlreadyJoined(h)
  <2>1. pc[h] = "joined" /\ Own(h) # None /\ Replies(h, Refusal)
    BY <1>11, FinishReplies DEF AlreadyJoined, At
  <2>2. req[h].op = "join" /\ req[h].key \in Groups
    BY <1>0, <2>1 DEF Stage
  <2> QED BY <1>0, <1>3, <1>4, <1>5, <2>1, <2>2, BookRefuses DEF Serves, Own, InBook
<1> QED BY <1>7, <1>8, <1>9, <1>10, <1>11


(* The queries that read and go on.                                         *)
LEMMA StepReads ==
    ASSUME CInv, Calm, NEW h \in Handlers, Acts(h), Lookup(h) \/ Find(h) \/ NotJoined(h) \/ ReadMap(h)
    PROVE  BookStep
<1>1. UNCHANGED tables /\ req' = req /\ answer' = answer
  BY DEF Lookup, Find, NotJoined, ReadMap
<1>2. pc'[h] \in {"readTheirs", "writeTheirs"} <=> pc[h] \in {"readTheirs", "writeTheirs"}
  <2>1. CASE Lookup(h)
    <3>1. pc[h] = "lookup" /\ pc'[h] \in {"create", NextPc(h)}
      BY <2>1, CalmWork, LookupMoves DEF Lookup, At
    <3>2. NextPc(h) \in {"link", "erase", "chat"}
      BY DEF NextPc
    <3> QED BY <3>1, <3>2
  <2>2. CASE Find(h) \/ NotJoined(h)
    <3>1. pc[h] \in {"find", "joined"} /\ pc'[h] \in {"joined", "enter"}
      BY <2>2, CalmWork, JoinMoves DEF Find, NotJoined, At
    <3> QED BY <3>1
  <2>3. CASE ReadMap(h)
    BY <2>3, CalmWork, ReadMapMoves
  <2> QED BY <2>1, <2>2, <2>3
<1>3. BookSame
  BY <1>1, <1>2, BookRests
<1> QED BY <1>1, <1>3, BookKeeps DEF BookSame

LEMMA StepLists ==
    ASSUME CInv, Calm, NEW h \in Handlers, Acts(h), ReadMine(h) \/ ListOne(h) PROVE BookStep
<1>0. Stage(h) /\ Calmly(h) /\ TInv
  BY CalmWork
<1>1. pc[h] \in {"map", "list"} /\ pc'[h] \in {"idle", "list"} /\ UNCHANGED tables
  <2>1. pc[h] \in {"map", "list"} /\ UNCHANGED tables
    BY DEF ReadMine, ListOne, At
  <2>2. ReadMine(h) => pc'[h] \in {"idle", "list"}
    BY <1>0 DEF ReadMine, Finish, Goto, TInv, TypeOK
  <2>3. ListOne(h) => pc'[h] \in {"idle", "list"}
    BY <1>0 DEF ListOne, Finish, Goto, At, TInv, TypeOK
  <2> QED BY <2>1, <2>2, <2>3
<1>2. Serves(h, {"chats"})
  BY <1>0, <1>1 DEF Stage, Working, Serves
<1> DEFINE known == {k \in Keys : assoc[Me(h)][k] # None}
<1>3. known = {k \in Keys : InBook(Me(h), k)}
  BY <1>1, OwnInBook
<1>4. ASSUME Finish(h, Fine(known)) PROVE BookStep
  <2>1. pc'[h] = "idle" /\ Replies(h, Fine(known))
    BY <1>0, <1>4, FinishReplies DEF Finish, Goto, TInv, TypeOK
  <2>2. BookSame
    BY <1>1, <2>1, BookRests
  <2> QED BY <1>2, <1>3, <2>1, <2>2, BookLists
<1>5. ASSUME req' = req, answer' = answer PROVE BookStep
  <2>1. BookSame
    BY <1>1, <1>5, BookRests
  <2> QED BY <1>5, <2>1, BookKeeps DEF BookSame
<1>6. CASE ReadMine(h)
  <2>1. (known = {} /\ Finish(h, Fine({}))) \/ (req' = req /\ answer' = answer)
    BY <1>6 DEF ReadMine
  <2> QED BY <1>4, <1>5, <2>1
<1>7. CASE ListOne(h)
  <2>1. map[h] = assoc[Me(h)] /\ seen[h] \cup todo[h] = known /\ pc[h] = "list"
    BY <1>0, <1>7 DEF ListOne, At, Calmly
  <2> DEFINE Listed(k) == seen[h] \cup IF rows[map[h][k]] = None THEN {} ELSE {k}
  <2>2. PICK k \in todo[h] : \/ todo[h] = {k} /\ Finish(h, Fine(Listed(k)))
                             \/ req' = req /\ answer' = answer
    BY <1>7 DEF ListOne
  <2>3. k \in Keys /\ assoc[Me(h)][k] # None
    BY <2>1, <2>2
  <2>4. rows[map[h][k]] # None
    <3>1. \A j \in Handlers \ {h} : ~Working(j)
      BY CalmWork DEF Working
    <3> QED BY <2>1, <2>3, <3>1, CalmWork, OwnLeads DEF CInv, Whole
  <2>5. todo[h] = {k} => Listed(k) = known
    BY <2>1, <2>4
  <2> HIDE DEF Listed, known
  <2> QED BY <1>4, <1>5, <2>2, <2>5
<1> QED BY <1>6, <1>7

(* What a write leaves of the book.                                         *)
LEMMA OtherPairs ==
    ASSUME CInv, Calm, NEW h \in Handlers, Acts(h), NEW u \in Users, NEW v \in Users,
           {Me(h), req[h].key} # {u, v}, pc'[h] = "idle" \/ req'[h] = req[h]
    PROVE  Both(u, v)' <=> Both(u, v)
<1>1. assoc'[u][v] = assoc[u][v] /\ assoc'[v][u] = assoc[v][u]
  <2>1. {u, v} = {v, u}
    OBVIOUS
  <2> QED BY <2>1, CalmWork, UserEntry DEF CInv
<1>2. ~Half(u, v) /\ ~Half(u, v)'
  BY HalfNow
<1> QED BY <1>1, <1>2 DEF Both

LEMMA GroupsOnly ==
    ASSUME CInv, Calm, NEW h \in Handlers, Acts(h), pc[h] \notin {"theirs", "readTheirs", "writeTheirs"},
           pc'[h] \notin {"readTheirs", "writeTheirs"},
           \A u, v \in Users : assoc'[u][v] = assoc[u][v]
    PROVE  BookPairs' = BookPairs
<1>1. \A u, v \in Users : ~Half(u, v) /\ ~Half(u, v)'
  BY HalfNow
<1> QED BY <1>1, PairsKept DEF Both

LEMMA PairsOnly ==
    ASSUME CInv, Calm, NEW h \in Handlers, Acts(h), rows' = rows, pc[h] \notin {"mine", "enter"} \/ req[h].op = "send"
    PROVE  BookMembers' = BookMembers /\ BookOpen' = BookOpen
<1>1. \A g \in Groups, u \in Users : assoc'[u][g] = assoc[u][g]
  <2> SUFFICES ASSUME NEW g \in Groups, NEW u \in Users, assoc'[u][g] # assoc[u][g] PROVE FALSE
    OBVIOUS
  <2>1. (pc[h] = "writeMine" /\ req[h].key = g) \/ pc[h] = "enter" \/ Founds(h)
    BY CalmWork, GroupEntry DEF CInv
  <2> QED BY <2>1, CalmWork DEF Founds, Stage, Steady
<1>2. \A g \in Groups : rows[g] # None => Members(g) \subseteq Users
  BY CalmWork, MembersTyped, NoneIsNone DEF TInv
<1>3. \A g \in Groups : Members(g)' = Members(g)
  BY DEF Members
<1>4. \A g \in Groups : Belongs(g)' = Belongs(g)
  BY <1>1, <1>2, <1>3 DEF Belongs
<1> QED BY <1>4 DEF BookMembers, BookOpen, Linked


(* A first message.                                                         *)
LEMMA StepCreated ==
    ASSUME CInv, Calm, NEW h \in Handlers, Acts(h), Create(h) PROVE BookStep
<1>1. Rewrites(h) /\ assoc' = assoc /\ pc[h] = "create"
  BY CalmWork, RewritersRewrite DEF Create, At
<1>2. pc'[h] = "mine" /\ req' = req /\ answer' = answer
  BY <1>1 DEF Rewrites, Ended, Create
<1>3. ~Referred(got'[h]) /\ ~Linked(got[h])'
  BY <1>1, <1>2, CalmWork, CreatedFounded
<1>4. \A d \in ChatIds : d # got'[h] => rows'[d] = rows[d]
  BY <1>1 DEF Rewrites, Sets
<1>5. BookPairs' = BookPairs
  BY <1>1, <1>2, GroupsOnly
<1>6. ASSUME NEW g \in Groups PROVE Belongs(g)' = Belongs(g) /\ (Linked(g)' <=> Linked(g))
  <2>1. CASE g = got'[h]
    <3>1. rows[g] = None /\ \A u \in Users : assoc[u][g] # g
      BY <1>3, <2>1, NoneIsNone DEF Referred
    <3>2. \A u \in Users : assoc'[u][g] = None
      BY <1>1, <3>1 DEF CInv, KInv, Keyed
    <3>3. rows'[g] # None => Members(g)' \subseteq Users
      <4>1. rows' \in [ChatIds -> Row \cup {None}] /\ g \in ChatIds
        BY CalmWork, ActsTyped, NoneIsNone DEF TablesOK
      <4>2. rows'[g] # None => rows'[g] \in Row
        BY <4>1
      <4>3. rows'[g] # None => rows'[g].members \in Seq(Users)
        BY <4>2, RowParts
      <4> QED BY <4>3 DEF Members
    <3> QED BY <1>3, <2>1, <3>1, <3>2, <3>3 DEF Belongs, Linked
  <2>2. CASE g # got'[h]
    <3>1. rows'[g] = rows[g]
      BY <1>4, <2>2, NoneIsNone
    <3> QED BY <1>1, <3>1 DEF Belongs, Linked, Members
  <2> QED BY <2>1, <2>2
<1>7. BookMembers' = BookMembers /\ BookOpen' = BookOpen
  BY <1>6 DEF BookMembers, BookOpen
<1> QED BY <1>2, <1>5, <1>7, BookKeeps

LEMMA StepFirst ==
    ASSUME CInv, Calm, NEW h \in Handlers, Acts(h), AssociateMine(h) PROVE BookStep
<1>1. pc[h] = "mine" /\ req[h].op = "send" /\ rows' = rows /\ req' = req /\ answer' = answer
  BY DEF AssociateMine, At
<1>2. Puts(Me(h), req[h].key, got[h]) /\ pc'[h] = "theirs"
  BY <1>1, CalmWork, WritersWrite DEF Writes, Ended
<1>3. Own(h) = None /\ req[h].key \in Users /\ req[h].key # Me(h) /\ Me(h) \in Users /\ Me(h) \in Keys
  BY <1>1, CalmWork DEF Calmly, Stage, Others
<1>4. \A u, v \in Users : Both(u, v)' <=> Both(u, v)
  <2> SUFFICES ASSUME NEW u \in Users, NEW v \in Users, {Me(h), req[h].key} = {u, v}
               PROVE  ~Both(u, v) /\ ~Both(u, v)'
    BY <1>1, OtherPairs
  <2>1. assoc[u][v] = None /\ assoc[v][u] = None
    BY <1>1, <1>3, EntriesBoth DEF Own
  <2>2. assoc'[req[h].key][Me(h)] = assoc[req[h].key][Me(h)]
    BY <1>2, <1>3 DEF Puts
  <2>3. ~Half(u, v) /\ ~Half(u, v)'
    BY <1>1, <1>2, HalfNow
  <2> QED BY <1>3, <2>1, <2>2, <2>3 DEF Both
<1>5. BookPairs' = BookPairs
  BY <1>4, PairsKept
<1>6. BookMembers' = BookMembers /\ BookOpen' = BookOpen
  BY <1>1, PairsOnly
<1> QED BY <1>1, <1>5, <1>6, BookKeeps

LEMMA StepSecond ==
    ASSUME CInv, Calm, NEW h \in Handlers, Acts(h), AssociateTheirs(h) PROVE BookStep
<1>1. pc[h] = "theirs" /\ rows' = rows /\ Replies(h, Fine({Me(h), req[h].key}))
  BY FinishReplies, CalmMeans DEF AssociateTheirs, Done, Steady, At
<1>2. Writes(h) /\ Ended(h) /\ Puts(req[h].key, Me(h), got[h])
  BY <1>1, CalmWork, WritersWrite DEF Writes
<1>3. /\ req[h].op = "send" /\ req[h] \in Request /\ req[h].key \in Users /\ req[h].key # Me(h)
      /\ Me(h) \in Users /\ Me(h) \in Keys /\ req[h].key \in Keys /\ got[h] # None
  BY <1>1, CalmWork, NoneIsNone DEF Stage, Others, Working
<1>4. Own(h) = got[h]
  BY <1>1, CalmWork DEF CInv, PInv, Halved
<1>5. assoc'[Me(h)][req[h].key] # None /\ assoc'[req[h].key][Me(h)] # None
  BY <1>2, <1>3, <1>4 DEF Puts, Own
<1> DEFINE P == BookPairs \cup {{Me(h), req[h].key}}
<1>6. \A u, v \in Users : Both(u, v)' <=> {u, v} \in P
  <2> SUFFICES ASSUME NEW u \in Users, NEW v \in Users PROVE Both(u, v)' <=> {u, v} \in P
    OBVIOUS
  <2>1. CASE {Me(h), req[h].key} = {u, v}
    BY <1>3, <1>5, <2>1 DEF Both
  <2>2. CASE {Me(h), req[h].key} # {u, v}
    <3>1. Both(u, v)' <=> Both(u, v)
      BY <1>2, <2>2, OtherPairs DEF Ended
    <3> QED BY <2>2, <3>1, PairsAre
  <2> QED BY <2>1, <2>2
<1>7. \A s \in P : \E u, v \in Users : s = {u, v}
  BY <1>3, PairsTyped
<1>8. BookPairs' = P
  <2> HIDE DEF P
  <2> QED BY <1>6, <1>7, PairsBecome
<1>9. BookMembers' = BookMembers /\ BookOpen' = BookOpen
  BY <1>1, PairsOnly
<1> QED BY <1>1, <1>3, <1>8, <1>9, BookPosts DEF Serves

(* A deletion.                                                              *)
LEMMA StepErased ==
    ASSUME CInv, Calm, NEW h \in Handlers, Acts(h), EraseRow(h) PROVE BookStep
<1>1. pc[h] = "erase" /\ assoc' = assoc /\ req' = req /\ answer' = answer
  BY DEF EraseRow, At
<1>2. pc'[h] = "readMine" /\ \A d \in ChatIds : d # got[h] => rows'[d] = rows[d]
  BY CalmWork, EraseMoves
<1>3. got[h] \notin Groups
  <2>1. req[h].key \in Users
    BY <1>1, CalmWork, NoneIsNone DEF Stage, Steady, Others
  <2> QED BY <1>1, <2>1, NoneIsNone DEF CInv, KInv, Holds
<1>4. BookPairs' = BookPairs
  BY <1>1, <1>2, GroupsOnly
<1>5. \A g \in Groups : rows'[g] = rows[g]
  BY <1>2, <1>3, NoneIsNone
<1>6. BookMembers' = BookMembers /\ BookOpen' = BookOpen
  <2>1. ASSUME NEW g \in Groups PROVE Belongs(g)' = Belongs(g) /\ (Linked(g)' <=> Linked(g))
    BY <1>1, <1>5 DEF Belongs, Members, Linked
  <2> QED BY <2>1 DEF BookMembers, BookOpen
<1> QED BY <1>1, <1>4, <1>6, BookKeeps

LEMMA StepForgetsMine ==
    ASSUME CInv, Calm, NEW h \in Handlers, Acts(h), ForgetMine(h) PROVE BookStep
<1>1. pc[h] = "writeMine" /\ rows' = rows
  BY Zenon DEF ForgetMine, At
<1>2. req[h].op = "delete" /\ req[h].key \in Users /\ req[h].key \notin Groups /\ req[h].key # Me(h) /\ Me(h) \in Users
  BY <1>1, CalmWork, NoneIsNone DEF Stage, Steady, Others
<1>3. pc'[h] = "readTheirs" /\ req' = req /\ answer' = answer
  <2>1. req' = req /\ answer' = answer
    BY <1>2, Zenon DEF ForgetMine
  <2> QED BY <1>2, <2>1, CalmWork, ForgetMineMoves
<1>4. \A u, v \in Users : Both(u, v)' <=> Both(u, v)
  <2> SUFFICES ASSUME NEW u \in Users, NEW v \in Users, {Me(h), req[h].key} = {u, v}
               PROVE  Both(u, v) /\ Both(u, v)'
    BY <1>3, OtherPairs
  <2>1. Own(h) # None
    BY <1>1, CalmWork DEF Calmly
  <2>2. Both(u, v)
    BY <1>1, <1>2, <2>1, EntriesBoth DEF Own
  <2>3. Half(u, v)'
    BY <1>3, HalfNow
  <2> QED BY <2>2, <2>3 DEF Both
<1>5. BookPairs' = BookPairs
  BY <1>4, PairsKept
<1>6. BookMembers' = BookMembers /\ BookOpen' = BookOpen
  BY <1>1, PairsOnly
<1> QED BY <1>3, <1>5, <1>6, BookKeeps

LEMMA StepForgetsTheirs ==
    ASSUME CInv, Calm, NEW h \in Handlers, Acts(h), ForgetTheirs(h) PROVE BookStep
<1>1. pc[h] = "writeTheirs" /\ rows' = rows /\ Replies(h, Fine({}))
  BY FinishReplies DEF ForgetTheirs, At
<1>2. Writes(h) /\ Ended(h) /\ Drops(req[h].key, map[h], Me(h))
  BY <1>1, CalmWork, WritersWrite DEF Writes
<1>3. req[h].op = "delete" /\ req[h] \in Request /\ req[h].key \in Users /\ req[h].key # Me(h) /\ Me(h) \in Users
  BY <1>1, CalmWork DEF Stage, Others, Working
<1>4. Both(Me(h), req[h].key)
  BY <1>1, HalfNow DEF Both
<1> DEFINE P == BookPairs \ {{Me(h), req[h].key}}
<1>5. \A u, v \in Users : Both(u, v)' <=> {u, v} \in P
  <2> SUFFICES ASSUME NEW u \in Users, NEW v \in Users PROVE Both(u, v)' <=> {u, v} \in P
    OBVIOUS
  <2>1. CASE {Me(h), req[h].key} = {u, v}
    <3>1. assoc'[req[h].key][Me(h)] = None
      BY <1>2 DEF Drops
    <3>2. ~Half(u, v)'
      BY <1>2, HalfNow DEF Ended
    <3> QED BY <1>3, <2>1, <3>1, <3>2 DEF Both
  <2>2. CASE {Me(h), req[h].key} # {u, v}
    <3>1. Both(u, v)' <=> Both(u, v)
      BY <1>2, <2>2, OtherPairs DEF Ended
    <3> QED BY <2>2, <3>1, PairsAre
  <2> QED BY <2>1, <2>2
<1>6. \A s \in P : \E u, v \in Users : s = {u, v}
  BY PairsTyped
<1>7. BookPairs' = P
  <2> HIDE DEF P
  <2> QED BY <1>5, <1>6, PairsBecome
<1>8. BookMembers' = BookMembers /\ BookOpen' = BookOpen
  BY <1>1, PairsOnly
<1>9. {Me(h), req[h].key} \in BookPairs
  BY <1>3, <1>4, PairsAre
<1> QED BY <1>1, <1>3, <1>7, <1>8, <1>9, BookParts DEF Serves


(* The groups.                                                              *)
LEMMA OneMore ==
    ASSUME NEW c \in ChatIds, NEW u \in Users, rows[c].members \in Seq(Users),
           rows'[c].members = Append(rows[c].members, u)
    PROVE  Members(c)' = Members(c) \cup {u}
<1> DEFINE s == rows[c].members
           t == rows'[c].members
<1>1. /\ Len(s) \in Nat /\ DOMAIN s = 1..Len(s) /\ DOMAIN t = 1..(Len(s) + 1)
      /\ \A i \in DOMAIN s : t[i] = s[i]
      /\ t[Len(s) + 1] = u
  BY AppendTyped
<1>2. Members(c)' = {t[i] : i \in DOMAIN t} /\ Members(c) = {s[i] : i \in DOMAIN s}
  BY DEF Members
<1> HIDE DEF s, t
<1> QED BY <1>1, <1>2

LEMMA StepFounded ==
    ASSUME CInv, Calm, NEW h \in Handlers, Acts(h), CreatedGroup(h) PROVE BookStep
<1>1. pc[h] = "mine" /\ req[h].op = "group" /\ Founds(h) /\ rows' = rows /\ Replies(h, Fine({Me(h)}))
  BY FinishReplies DEF CreatedGroup, At, Founds
<1>2. Puts(Me(h), got[h], got[h]) /\ pc'[h] = "idle"
  BY <1>1, CalmWork, WritersWrite DEF Writes, Ended
<1>3. /\ req[h] \in Request /\ got[h] \in Groups /\ Me(h) \in Users
      /\ Groups \subseteq Keys /\ Groups \cap Users = {} /\ None \notin Keys
  BY <1>1, CalmWork, NoneIsNone DEF Stage, Pool, Working
<1> PICK g \in Groups : g = got[h]
  BY <1>3
<1>4. Whole(g) /\ Members(g) = {Me(h)} /\ Untouched(g)
  BY <1>1, CalmWork DEF CInv, OInv, Once
<1>5. BookPairs' = BookPairs
  <2>1. Users \subseteq Keys
    BY NoneIsNone
  <2> QED BY <1>1, <1>2, <1>3, <2>1, GroupsOnly DEF Puts
<1>6. Belongs(g) = {} /\ Belongs(g)' = {Me(h)}
  <2>1. rows[g] # None /\ rows'[g] # None
    BY <1>1, <1>4 DEF Whole
  <2>2. Members(g)' = {Me(h)}
    BY <1>1, <1>4 DEF Members
  <2>3. assoc[Me(h)][g] = None
    BY <1>3, <1>4 DEF Untouched
  <2>4. assoc'[Me(h)][g] # None
    BY <1>2, <1>3 DEF Puts
  <2> QED BY <1>4, <2>1, <2>2, <2>3, <2>4 DEF Belongs
<1>7. ASSUME NEW f \in Groups, f # g PROVE Belongs(f)' = Belongs(f)
  <2>1. rows[f] # None => Members(f) \subseteq Users
    BY CalmWork, MembersTyped, NoneIsNone DEF TInv
  <2>2. Members(f)' = Members(f)
    BY <1>1 DEF Members
  <2>3. \A v \in Users : assoc'[v][f] = assoc[v][f]
    BY <1>2, <1>3, <1>7 DEF Puts
  <2>4. \A v \in Members(f) : rows[f] # None => assoc'[v][f] = assoc[v][f]
    BY <2>1, <2>3
  <2>5. rows'[f] = rows[f]
    BY <1>1
  <2> QED BY <2>2, <2>4, <2>5 DEF Belongs
<1>8. BookMembers' = [BookMembers EXCEPT ![g] = {Me(h)}] /\ BookMembers[g] = {}
  BY <1>3, <1>6, <1>7 DEF BookMembers
<1>9. BookOpen' = BookOpen
  BY <1>1 DEF BookOpen, Linked
<1> QED BY <1>1, <1>3, <1>5, <1>8, <1>9, BookFounds DEF Serves

LEMMA StepLinked ==
    ASSUME CInv, Calm, NEW h \in Handlers, Acts(h), Link(h) PROVE BookStep
<1>1. pc[h] = "link" /\ assoc' = assoc /\ Replies(h, Fine({}))
  BY FinishReplies DEF Link, At
<1>2. Rewrites(h) /\ pc'[h] = "idle"
  BY <1>1, CalmWork, RewritersRewrite DEF Rewrites, Ended
<1>3. /\ req[h].op = "link" /\ req[h] \in Request /\ req[h].key \in Groups /\ req[h].key \in ChatIds
      /\ req[h].key \in Keys
  BY <1>1, CalmWork, NoneIsNone DEF Stage, Working
<1>4. got[h] = req[h].key
  BY <1>1, <1>3, CalmWork DEF CInv, KInv, Holds
<1> PICK g \in Groups : g = req[h].key
  BY <1>3
<1>5. assoc[Me(h)][g] # None
  BY <1>1, <1>4, CalmWork DEF CInv, OInv, Once
<1>6. Me(h) \in BookMembers[g] /\ rows[g] # None
  <2>1. InBook(Me(h), g)
    BY <1>1, <1>3, <1>5, OwnInBook
  <2> QED BY <1>3, <2>1, NoneIsNone DEF InBook, BookMembers, Belongs
<1>7. \A d \in ChatIds : d # g => rows'[d] = rows[d]
  BY <1>1, <1>2, <1>4 DEF Rewrites, Sets
<1>8. Belongs(g)' = Belongs(g) /\ Linked(g)'
  <2> DEFINE r == [rows[g] EXCEPT !.link = TRUE]
  <2>1. rows'[g] = r
    BY <1>1, <1>2, <1>4, <1>6 DEF Rewrites, Sets, Existing
  <2>2. rows[g] \in Row
    BY <1>3, <1>6, CalmWork DEF TInv, TypeOK
  <2>3. r.members = rows[g].members /\ r.link /\ r # None
    BY <2>2, RowParts, NoneIsNone
  <2> HIDE DEF r
  <2> QED BY <1>1, <1>6, <2>1, <2>3 DEF Belongs, Members, Linked
<1>9. ASSUME NEW f \in Groups, f # g PROVE Belongs(f)' = Belongs(f) /\ (Linked(f)' <=> Linked(f))
  <2>1. rows'[f] = rows[f]
    BY <1>7, <1>9, NoneIsNone
  <2> QED BY <1>1, <2>1 DEF Belongs, Members, Linked
<1>10. BookMembers' = BookMembers
  BY <1>8, <1>9 DEF BookMembers
<1>11. BookOpen' = BookOpen \cup {g}
  BY <1>3, <1>8, <1>9 DEF BookOpen
<1>12. BookPairs' = BookPairs
  BY <1>1, <1>2, GroupsOnly
<1> QED BY <1>1, <1>3, <1>6, <1>10, <1>11, <1>12, BookInvites DEF Serves

LEMMA StepEntered ==
    ASSUME CInv, Calm, NEW h \in Handlers, Acts(h), Enter(h) PROVE BookStep
<1>1. pc[h] = "enter" /\ rows' = rows /\ req' = req /\ answer' = answer
  BY DEF Enter, At
<1>2. Puts(Me(h), got[h], got[h]) /\ pc'[h] = "enlist"
  BY <1>1, CalmWork, WritersWrite DEF Writes, Ended
<1> DEFINE g == got[h]
<1>3. g \in Groups /\ g \notin Users /\ Me(h) \in Users /\ Groups \subseteq Keys /\ Users \subseteq Keys
  BY <1>1, CalmWork, NoneIsNone DEF Stage
<1>4. Me(h) \notin Members(g)
  BY <1>1, CalmWork DEF CInv, OInv, Once
<1>5. BookPairs' = BookPairs
  BY <1>1, <1>2, <1>3, GroupsOnly DEF Puts
<1>6. ASSUME NEW f \in Groups PROVE Belongs(f)' = Belongs(f)
  <2>1. rows[f] # None => Members(f) \subseteq Users
    BY CalmWork, MembersTyped, NoneIsNone DEF TInv
  <2>2. Members(f)' = Members(f)
    BY <1>1 DEF Members
  <2>3. \A u \in Members(f) : rows[f] # None => assoc'[u][f] = assoc[u][f]
    BY <1>2, <1>3, <1>4, <2>1 DEF Puts
  <2> QED BY <1>1, <2>2, <2>3 DEF Belongs
<1>7. BookMembers' = BookMembers /\ BookOpen' = BookOpen
  BY <1>1, <1>6 DEF BookMembers, BookOpen, Linked
<1> QED BY <1>1, <1>5, <1>7, BookKeeps

LEMMA StepEnlisted ==
    ASSUME CInv, Calm, NEW h \in Handlers, Acts(h), Enlist(h) PROVE BookStep
<1>1. pc[h] = "enlist" /\ assoc' = assoc /\ Replies(h, Fine(seen[h]))
  BY FinishReplies, CalmMeans DEF Enlist, Done, Steady, At
<1>2. Rewrites(h) /\ pc'[h] = "idle"
  BY <1>1, CalmWork, RewritersRewrite DEF Rewrites, Ended
<1>3. /\ req[h].op = "join" /\ req[h] \in Request /\ req[h].key \in Groups /\ req[h].key \in ChatIds
      /\ got[h] = req[h].key /\ Me(h) \in Users
  BY <1>1, CalmWork, NoneIsNone DEF Stage, Working
<1> PICK g \in Groups : g = req[h].key
  BY <1>3
<1>4. Linked(g) /\ Me(h) \notin Members(g) /\ assoc[Me(h)][g] # None /\ rows[g] # None
  BY <1>1, <1>3, CalmWork DEF CInv, OInv, Once, Linked
<1>5. BookMembers[g] = Members(g) /\ seen[h] = Members(g)
  <2>1. ~Founds(h)
    BY <1>1 DEF Founds
  <2>2. seen[h] = Members(g)
    BY <1>1, <1>3, CalmWork DEF Calmly
  <2> QED BY <1>3, <1>4, <2>1, <2>2, GroupBook
<1>6. \A d \in ChatIds : d # g => rows'[d] = rows[d]
  BY <1>1, <1>2, <1>3 DEF Rewrites, Sets
<1>7. Members(g)' = Members(g) \cup {Me(h)} /\ Linked(g)'
  <2> DEFINE r == [rows[g] EXCEPT !.members = Append(@, Me(h))]
  <2>1. rows'[g] = r
    BY <1>1, <1>2, <1>3, <1>4 DEF Rewrites, Sets, Existing
  <2>2. rows[g] \in Row
    BY <1>3, <1>4, CalmWork DEF TInv, TypeOK
  <2>3. r \in Row /\ r.members = Append(rows[g].members, Me(h)) /\ r.link = rows[g].link
    BY <1>3, <2>2, RowJoined
  <2> HIDE DEF r
  <2>4. Linked(g)' /\ rows'[g].members = Append(rows[g].members, Me(h))
    BY <1>4, <2>1, <2>3, NoneIsNone DEF Linked
  <2> QED BY <1>3, <2>2, <2>4, RowParts, OneMore
<1>8. Belongs(g)' = Belongs(g) \cup {Me(h)}
  BY <1>1, <1>4, <1>7 DEF Belongs, Linked
<1>9. ASSUME NEW f \in Groups, f # g PROVE Belongs(f)' = Belongs(f) /\ (Linked(f)' <=> Linked(f))
  <2>1. rows'[f] = rows[f]
    BY <1>6, <1>9, NoneIsNone
  <2> QED BY <1>1, <2>1 DEF Belongs, Members, Linked
<1>10. BookMembers' = [BookMembers EXCEPT ![g] = @ \cup {Me(h)}]
  BY <1>3, <1>8, <1>9 DEF BookMembers
<1>11. BookOpen' = BookOpen /\ g \in BookOpen
  BY <1>3, <1>4, <1>7, <1>9 DEF BookOpen
<1>12. BookPairs' = BookPairs
  BY <1>1, <1>2, GroupsOnly
<1> QED BY <1>1, <1>3, <1>4, <1>5, <1>10, <1>11, <1>12, BookEnters DEF Serves

-----------------------------------------------------------------------------
LEMMA StepKeepsBook ==
    ASSUME CInv, Calm, [Next]_vars PROVE BookStep
<1>1. CASE UNCHANGED vars
  <2>1. BookPairs' = BookPairs
    BY <1>1, PairsKept DEF vars, tables, Both, Half, Me
  <2>2. BookMembers' = BookMembers /\ BookOpen' = BookOpen
    BY <1>1 DEF vars, tables, BookMembers, BookOpen, Belongs, Members, Linked
  <2> QED BY <1>1, <2>1, <2>2, BookKeeps DEF vars
<1>2. CASE Restart
  <2>1. Steady /\ ~plan.crashes
    BY CalmMeans
  <2> QED BY <1>2, <2>1 DEF Restart, CInv, GInv
<1>3. ASSUME NEW h \in Handlers, Acts(h) PROVE BookStep
  <2>1. ~ChatExpected(h) /\ ~ListUnwraps(h) /\ ~QueryUnwraps(h)
    BY <1>3, CalmWork, NoneUnwraps, PanicsAre DEF CInv, Unwraps
  <2>2. ~QueryFails(h)
    BY CalmMeans DEF QueryFails, Steady
  <2> QED BY <1>3, <2>1, <2>2, StepAsked, StepLooked, StepReads, StepLists, StepCreated, StepFirst, StepSecond, StepErased,
          StepForgetsMine, StepForgetsTheirs, StepFounded, StepLinked, StepEntered, StepEnlisted, Zenon DEF Acts
<1> QED BY <1>1, <1>2, <1>3, NextActs

LEMMA InitBook == Init => Book!Init
<1> SUFFICES ASSUME Init PROVE Book!Init
  OBVIOUS
<1>1. \A u, v \in Users : ~Both(u, v)
  BY NoneIsNone DEF Init, Both, Half
<1>2. BookPairs = {}
  BY <1>1, PairsTyped
<1>3. BookMembers = [g \in Groups |-> {}] /\ BookOpen = {}
  BY NoneIsNone DEF Init, BookMembers, Belongs, BookOpen, Linked
<1>4. Book!Silent = Silent /\ req = [h \in Handlers |-> None] /\ answer = [h \in Handlers |-> Silent]
  BY BookReads DEF Init
<1> QED BY <1>2, <1>3, <1>4, Zenon DEF Book!Init, BookPairs, BookMembers, Belongs, BookOpen

(* Chats implements ChatBook as long as requests take turns, no group is
   deleted and the process does not end: a request that is several queries
   long takes effect in one of them, with the answer the book gives, and
   whatever it reads or writes before and after leaves the book as it is.   *)
THEOREM BookWhenCalm == Spec => BookPromise
<1>1. Init => CInv /\ (Calm => Book!Init)
  BY InitTInv, InitXInv, InitKInv, InitGInv, InitDInv, InitHInv, InitPInv, InitOInv, InitBInv, InitBook DEF CInv
<1>2. CInv /\ [Next]_vars => CInv'
  BY StepTyped, StepXInv, StepKInv, StepGInv, StepDInv, StepHInv, StepPInv, StepOInv, StepBInv DEF CInv
<1>3. CInv /\ [Next]_vars => [Calm => Book!Next]_(Book!vars)
  BY StepKeepsBook DEF BookStep
<1> QED BY <1>1, <1>2, <1>3, PTL DEF Spec, BookPromise
=============================================================================
