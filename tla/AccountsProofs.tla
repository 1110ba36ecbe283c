--------------------------- MODULE AccountsProofs ---------------------------
(***************************************************************************)
(* Proofs about Accounts for any connections, users, names, passwords,     *)
(* requests, plans and bound on session ids.                               *)
(***************************************************************************)
EXTENDS Accounts, SequenceTheorems, TLAPS

USE DEF MAX_SESSIONS

(* Where a handler stands says what it works on.                            *)
OpFitsPc(h) ==
    /\ pc[h] \in {"exists", "insert"} => req[h].op = "register"
    /\ pc[h] = "find" => req[h].op = "login"
    /\ pc[h] \in {"read", "store"} => req[h].op \in {"register", "login"} /\ id[h] \in Registered
    /\ pc[h] = "compare" => req[h].op = "auth"
    /\ pc[h] = "look" => req[h].op = "check"
    /\ pc[h] \in {"rename", "repass"} =>
           req[h].op = "edit" /\ me[h] # Nobody /\ (req[h].name # None => plan.renames)

Asked(h) == Working(h) => req[h] \in Requests /\ OpFitsPc(h)

Known(h) == me[h] # Nobody => me[h] \in Creds /\ me[h].user \in Registered

TInv == TypeOK /\ \A h \in Handlers : Asked(h) /\ Known(h)

-----------------------------------------------------------------------------
(* Types.                                                                   *)

LEMMA RequestFields ==
    ASSUME NEW r \in Requests
    PROVE  /\ r # None
           /\ r.op \in Ops
           /\ r.name \in Names \cup {None} /\ r.password \in Passwords \cup {None}
           /\ r.user \in UserIds \cup {None} /\ r.session \in SessionIds \cup {None}
           /\ r.op \in {"register", "login"} => r.name \in Names /\ r.password \in Passwords
           /\ r.op = "auth" => r.user \in UserIds /\ r.session \in SessionIds
           /\ r.op = "check" => r.name \in Names
  BY AccountsAssumption DEF RequestType

LEMMA RowFields ==
    ASSUME NEW r \in Row
    PROVE  /\ r # None
           /\ r.name \in Names /\ r.password \in Passwords /\ r.sessions \in Seq(SessionIds)
  BY AccountsAssumption DEF Row

LEMMA RowChanges ==
    ASSUME NEW r \in Row, NEW n \in Names, NEW p \in Passwords, NEW l \in Seq(SessionIds)
    PROVE  /\ [r EXCEPT !.sessions = l] = [name |-> r.name, password |-> r.password, sessions |-> l]
           /\ [r EXCEPT !.name = n] = [name |-> n, password |-> r.password, sessions |-> r.sessions]
           /\ [r EXCEPT !.password = p] = [name |-> r.name, password |-> p, sessions |-> r.sessions]
           /\ [name |-> r.name, password |-> r.password, sessions |-> l] \in Row
           /\ [name |-> n, password |-> r.password, sessions |-> r.sessions] \in Row
           /\ [name |-> r.name, password |-> p, sessions |-> r.sessions] \in Row
  BY DEF Row

LEMMA CredsAreSomebody ==
    ASSUME NEW i \in UserIds, NEW s \in SessionIds
    PROVE  /\ [user |-> i, session |-> s] \in Creds
           /\ [user |-> i, session |-> s] # Nobody
  BY AccountsAssumption DEF Creds, Nobody

LEMMA UserFields ==
    ASSUME TypeOK, NEW i \in UserIds
    PROVE  i \in Registered <=> users[i] \in Row
  BY RowFields DEF TypeOK, Registered

LEMMA OwnersAreUsers ==
    ASSUME NEW o \in Seq(UserIds), NEW i \in UserIds
    PROVE  /\ Append(o, i) \in Seq(UserIds)
           /\ Len(o) \in Nat /\ Len(Append(o, i)) = Len(o) + 1
           /\ DOMAIN o = 1..Len(o) /\ DOMAIN Append(o, i) = 1..Len(o) + 1
           /\ Append(o, i)[Len(o) + 1] = i
           /\ \A s \in DOMAIN o : Append(o, i)[s] = o[s]
           /\ Len(o) + 1 \in SessionIds
  BY AppendProperties, LenProperties DEF SessionIds

LEMMA AppendSteps ==
    ASSUME NEW t \in Seq(SessionIds), NEW s \in SessionIds
    PROVE  /\ Append(t, s) \in Seq(SessionIds)
           /\ Len(Append(t, s)) = Len(t) + 1
           /\ Append(t, s)[Len(t) + 1] = s
           /\ \A k \in 1..Len(t) : Append(t, s)[k] = t[k]
  OBVIOUS

LEMMA ThirdAppended ==
    ASSUME NEW t \in Seq(SessionIds), NEW s \in SessionIds, Len(t) = 2
    PROVE  /\ Append(t, s) \in Seq(SessionIds) /\ Len(Append(t, s)) = 3
           /\ Append(t, s)[3] = s /\ \A k \in 1..2 : Append(t, s)[k] = t[k]
  <1> DEFINE a == Append(t, s)
  <1>1. /\ a \in Seq(SessionIds) /\ Len(a) = Len(t) + 1
        /\ a[Len(t) + 1] = s /\ \A k \in 1..Len(t) : a[k] = t[k]
    BY AppendSteps, Zenon
  <1> HIDE DEF a
  <1>2. a \in Seq(SessionIds) /\ Len(a) = 3 /\ a[3] = s /\ \A k \in 1..2 : a[k] = t[k]
    BY <1>1
  <1> QED BY <1>2 DEF a

LEMMA WithSessionSteps ==
    ASSUME NEW l \in Seq(SessionIds), NEW s \in SessionIds
    PROVE  LET new == WithSession(l, s) IN
           /\ new \in Seq(SessionIds)
           /\ Len(l) = MAX_SESSIONS => /\ Len(new) = MAX_SESSIONS
                                       /\ \A k \in 1..2 : new[k] = l[k + 1]
                                       /\ new[3] = s
           /\ Len(l) # MAX_SESSIONS => /\ Len(new) = Len(l) + 1
                                       /\ \A k \in DOMAIN l : new[k] = l[k]
                                       /\ new[Len(l) + 1] = s
  <1>1. CASE Len(l) = MAX_SESSIONS
    <2> DEFINE t == Tail(l)
    <2>1. t \in Seq(SessionIds) /\ Len(t) = 2 /\ \A k \in 1..2 : t[k] = l[k + 1]
      BY <1>1, HeadTailProperties, EmptySeq
    <2>2. /\ Append(t, s) \in Seq(SessionIds) /\ Len(Append(t, s)) = 3
          /\ Append(t, s)[3] = s /\ \A k \in 1..2 : Append(t, s)[k] = t[k]
      BY <2>1, ThirdAppended
    <2> QED BY <1>1, <2>1, <2>2 DEF WithSession
  <1>2. CASE Len(l) # MAX_SESSIONS
    BY <1>2, AppendProperties, LenProperties DEF WithSession
  <1> QED BY <1>1, <1>2

LEMMA InitTypes == Init => TInv
  BY AccountsAssumption DEF Init, TInv, TypeOK, Asked, Known, Working, Pcs, Nobody

LEMMA FinishTypes ==
    ASSUME TInv, NEW h \in Handlers, NEW a \in {"ok", "error"}, NEW c \in Creds \cup {Nobody},
           Finish(h, a, c), c # Nobody => c \in Creds /\ c.user \in Registered',
           users' \in [UserIds -> Row \cup {None}], Registered \subseteq Registered',
           owner' \in Seq(UserIds)
    PROVE  TInv'
  BY EmptySeq DEF Finish, Goto, TInv, TypeOK, Asked, Known, OpFitsPc, Working, Pcs, locals

LEMMA SameUsers ==
    ASSUME UNCHANGED users
    PROVE  Registered' = Registered /\ \A n : Named(n)' = Named(n)
  BY DEF Registered, Named

LEMMA AskTypes ==
    ASSUME TInv, NEW h \in Handlers, Ask(h)
    PROVE  TInv'
  <1> PICK r \in Requests : /\ Sensible(h, r) /\ req' = [req EXCEPT ![h] = r]
                            /\ Goto(h, FirstPc(r))
    BY DEF Ask
  <1>1. r.op \in Ops /\ FirstPc(r) \in Pcs \ {"idle", "insert", "read", "store", "repass"}
    BY RequestFields DEF FirstPc, Ops, Pcs
  <1>2. TypeOK'
    BY <1>1 DEF TInv, TypeOK, Ask, Goto, locals
  <1>3. /\ \A g \in Handlers \ {h} : Asked(g)'
        /\ \A g \in Handlers : Known(g)'
    BY SameUsers DEF TInv, TypeOK, Asked, Known, Working, OpFitsPc, Ask, Goto, locals
  <1>4. Asked(h)'
    BY <1>1 DEF TInv, TypeOK, Asked, OpFitsPc, Ask, Goto, locals, FirstPc, Sensible, Ops
  <1> QED BY <1>2, <1>3, <1>4 DEF TInv

LEMMA RegisterTypes ==
    ASSUME TInv, NEW h \in Handlers,
           RegisterPanics(h) \/ RegisterFails(h) \/ NameIsFree(h) \/ Insert(h)
    PROVE  TInv'
  <1>1. CASE RegisterPanics(h)
    BY <1>1, SameUsers DEF RegisterPanics, TInv, TypeOK, Asked, Known, Working, OpFitsPc, locals
  <1>2. CASE RegisterFails(h)
    BY <1>2, SameUsers, FinishTypes DEF RegisterFails, TInv, TypeOK, Known
  <1>3. CASE NameIsFree(h)
    BY <1>3, SameUsers
       DEF NameIsFree, At, Goto, TInv, TypeOK, Asked, Known, Working, OpFitsPc, Pcs, locals
  <1>4. CASE Insert(h)
    <2> PICK i \in UserIds \ Registered :
               /\ users' = [users EXCEPT ![i] =
                      [name |-> req[h].name, password |-> req[h].password, sessions |-> <<>>]]
               /\ id' = [id EXCEPT ![h] = i]
      BY <1>4 DEF Insert
    <2>1. req[h] \in Requests /\ req[h].op = "register"
      BY <1>4 DEF Insert, At, TInv, Asked, Working, OpFitsPc
    <2>2. users'[i] \in Row /\ users' \in [UserIds -> Row \cup {None}]
      BY <2>1, RequestFields, EmptySeq DEF Row, TInv, TypeOK
    <2>3. Registered' = Registered \cup {i}
      BY <2>2, RowFields DEF Registered, TInv, TypeOK
    <2>4. TypeOK'
      BY <1>4, <2>2 DEF Insert, Goto, TInv, TypeOK, Pcs
    <2>5. \A g \in Handlers : Asked(g)' /\ Known(g)'
      BY <1>4, <2>1, <2>3 DEF Insert, At, Goto, TInv, TypeOK, Asked, Known, Working, OpFitsPc, Pcs
    <2> QED BY <2>4, <2>5 DEF TInv
  <1> QED BY <1>1, <1>2, <1>3, <1>4

LEMMA LoginTypes ==
    ASSUME TInv, NEW h \in Handlers, LoginFails(h) \/ PasswordMatches(h) \/ ReadSessions(h)
    PROVE  TInv'
  <1>1. CASE LoginFails(h)
    BY <1>1, SameUsers, FinishTypes DEF LoginFails, TInv, TypeOK, Known
  <1>2. CASE PasswordMatches(h)
    BY <1>2, SameUsers
       DEF PasswordMatches, Named, Registered, At, Goto, TInv, TypeOK, Asked, Known, Working,
           OpFitsPc, Pcs
  <1>3. CASE ReadSessions(h)
    <2>1. users[id[h]].sessions \in Seq(SessionIds)
      BY <1>3, UserFields, RowFields
         DEF ReadSessions, At, TInv, TypeOK, Asked, Working, OpFitsPc, Registered
    <2> QED BY <1>3, <2>1, SameUsers
         DEF ReadSessions, At, Goto, TInv, TypeOK, Asked, Known, Working, OpFitsPc, Pcs
  <1> QED BY <1>1, <1>2, <1>3

(* The row that StoreSessions writes and the session it gives.              *)
LEMMA StoreFacts ==
    ASSUME TInv, NEW h \in Handlers, StoreSessions(h)
    PROVE  LET i == id[h]
               s == Len(owner) + 1
           IN /\ i \in UserIds /\ i \in Registered /\ users[i] \in Row
              /\ s \in SessionIds /\ list[h] \in Seq(SessionIds)
              /\ owner' = Append(owner, i) /\ Len(owner') = s
              /\ users' = [users EXCEPT ![i] = [name |-> users[i].name, password |-> users[i].password,
                                                sessions |-> WithSession(list[h], s)]]
              /\ users'[i] \in Row
              /\ users' \in [UserIds -> Row \cup {None}]
              /\ Registered' = Registered
              /\ Finish(h, "ok", [user |-> i, session |-> s])
  <1> DEFINE i == id[h]
             s == Len(owner) + 1
             l == WithSession(list[h], s)
  <1>1. i \in UserIds /\ i \in Registered /\ list[h] \in Seq(SessionIds) /\ owner \in Seq(UserIds)
    BY DEF StoreSessions, At, TInv, TypeOK, Asked, Working, OpFitsPc, Registered
  <1>2. users[i] \in Row
    BY <1>1, UserFields DEF TInv
  <1>3. owner' = Append(owner, i) /\ Len(owner') = s /\ s \in SessionIds
    BY <1>1, OwnersAreUsers DEF StoreSessions
  <1>4. l \in Seq(SessionIds)
    BY <1>1, <1>3, WithSessionSteps
  <1>5. users' = [users EXCEPT ![i] = [users[i] EXCEPT !.sessions = l]]
    <2>1. users' = [users EXCEPT ![id[h]] =
                       [users[id[h]] EXCEPT !.sessions = WithSession(list[h], Len(owner'))]]
      BY Zenon DEF StoreSessions
    <2>2. Len(owner') = Len(owner) + 1
      BY <1>3
    <2> QED BY <2>1, <2>2, Zenon
  <1>6. /\ users' = [users EXCEPT ![i] = [name |-> users[i].name, password |-> users[i].password,
                                          sessions |-> l]]
        /\ [name |-> users[i].name, password |-> users[i].password, sessions |-> l] \in Row
    <2> HIDE DEF l, i
    <2>1. users[i].name \in Names /\ users[i].password \in Passwords
      BY <1>2, RowFields
    <2> QED BY <1>2, <1>4, <1>5, <2>1, RowChanges
  <1>7. users' \in [UserIds -> Row \cup {None}] /\ users'[i] \in Row
    <2> HIDE DEF l, i
    <2> QED BY <1>1, <1>6 DEF TInv, TypeOK
  <1>8. Registered' = Registered
    <2> HIDE DEF l, i
    <2> QED BY <1>1, <1>6, <1>7, RowFields DEF Registered, TInv, TypeOK
  <1> QED BY <1>1, <1>2, <1>3, <1>6, <1>7, <1>8 DEF StoreSessions

LEMMA StoreTypes ==
    ASSUME TInv, NEW h \in Handlers, StoreSessions(h)
    PROVE  TInv'
  <1>1. [user |-> id[h], session |-> Len(owner) + 1] \in Creds
    <2>1. id[h] \in UserIds /\ Len(owner) + 1 \in SessionIds
      BY StoreFacts
    <2> QED BY <2>1, CredsAreSomebody, Zenon
  <1>2. owner' \in Seq(UserIds)
    <2>1. id[h] \in UserIds /\ owner' = Append(owner, id[h])
      BY StoreFacts
    <2>2. owner \in Seq(UserIds)
      BY DEF TInv, TypeOK
    <2> QED BY <2>1, <2>2, OwnersAreUsers, Zenon
  <1> QED BY <1>1, <1>2, StoreFacts, FinishTypes

LEMMA CheckTypes ==
    ASSUME TInv, NEW h \in Handlers, Compare(h) \/ Look(h) \/ Reconnect(h) \/ QueryFails(h)
    PROVE  TInv'
  <1>1. CASE Compare(h)
    <2> DEFINE i == req[h].user
               s == req[h].session
    <2>1. i \in UserIds /\ s \in SessionIds
      BY <1>1, RequestFields DEF Compare, At, TInv, Asked, Working, OpFitsPc
    <2>2. CASE Accepts(i, s) /\ Finish(h, "ok", [user |-> i, session |-> s])
      <3>1. i \in Registered
        BY <2>1, <2>2 DEF Accepts, Registered
      <3>2. [user |-> i, session |-> s] \in Creds
        BY <2>1, CredsAreSomebody, Zenon
      <3> QED BY <1>1, <2>2, <3>1, <3>2, SameUsers, FinishTypes DEF Compare, TInv, TypeOK
    <2>3. CASE Finish(h, "error", me[h])
      BY <1>1, <2>3, SameUsers, FinishTypes DEF Compare, TInv, TypeOK, Known
    <2> QED BY <1>1, <2>2, <2>3 DEF Compare
  <1>2. CASE Look(h)
    <2>1. /\ Finish(h, "ok", me[h]) \/ Finish(h, "error", me[h])
          /\ UNCHANGED <<users, owner>>
      BY <1>2 DEF Look
    <2> QED BY <2>1, SameUsers, FinishTypes DEF TInv, TypeOK, Known
  <1>3. CASE Reconnect(h)
    BY <1>3, SameUsers
       DEF Reconnect, At, TInv, TypeOK, Asked, Known, Working, OpFitsPc, Nobody, locals
  <1>4. CASE QueryFails(h)
    BY <1>4, SameUsers, FinishTypes DEF QueryFails, TInv, TypeOK, Known
  <1> QED BY <1>1, <1>2, <1>3, <1>4

(* A row after an edit: another username or another password, the same
   sessions.                                                                *)
LEMMA EditFacts ==
    ASSUME TInv, NEW h \in Handlers, Rename(h) \/ Repass(h)
    PROVE  /\ req[h] \in Requests /\ req[h].op = "edit"
           /\ users' \in [UserIds -> Row \cup {None}]
           /\ Registered' = Registered
           /\ \A i \in Registered : users'[i].sessions = users[i].sessions
           /\ \A i \in Registered : users'[i].name # users[i].name => plan.renames
  <1> DEFINE i == me[h].user
             r == users[i]
  <1>1. req[h] \in Requests /\ req[h].op = "edit" /\ (req[h].name # None => plan.renames)
    BY DEF Rename, Repass, At, TInv, Asked, Working, OpFitsPc
  <1>2. i \in UserIds /\ i \in Registered
    BY DEF Rename, Repass, At, TInv, Asked, Known, Working, OpFitsPc, Registered
  <1>3. r \in Row /\ r.name \in Names /\ r.password \in Passwords /\ r.sessions \in Seq(SessionIds)
    BY <1>2, UserFields, RowFields DEF TInv
  <1>4. users \in [UserIds -> Row \cup {None}]
    BY DEF TInv, TypeOK
  <1> SUFFICES ASSUME NEW row \in Row, users' = [users EXCEPT ![i] = row] \/ users' = users,
                      users' # users => row.sessions = r.sessions,
                      users' # users /\ row.name # r.name => plan.renames
               PROVE  /\ users' \in [UserIds -> Row \cup {None}]
                      /\ Registered' = Registered
                      /\ \A k \in Registered : users'[k].sessions = users[k].sessions
                      /\ \A k \in Registered : users'[k].name # users[k].name => plan.renames
    <2>1. CASE users' = users
      BY <1>1, <1>3, <2>1
    <2>2. CASE users' # users /\ Rename(h)
      <3> DEFINE n == req[h].name
      <3>1. n \in Names /\ plan.renames /\ users' = [users EXCEPT ![i] = [r EXCEPT !.name = n]]
        <4>1. n # None
          BY <2>2 DEF Rename
        <4>2. users' = [users EXCEPT ![i] = [r EXCEPT !.name = n]]
          BY <2>2, <4>1, Zenon DEF Rename
        <4>3. n \in Names
          BY <1>1, <4>1, RequestFields
        <4> QED BY <1>1, <4>1, <4>2, <4>3
      <3> DEFINE row == [name |-> n, password |-> r.password, sessions |-> r.sessions]
      <3>2. row \in Row /\ users' = [users EXCEPT ![i] = row]
        <4> HIDE DEF r, i, n
        <4> QED BY <1>3, <3>1, RowChanges
      <3> QED BY <1>1, <3>1, <3>2
    <2>3. CASE users' # users /\ Repass(h)
      <3> DEFINE p == req[h].password
      <3>1. p \in Passwords /\ users' = [users EXCEPT ![i] = [r EXCEPT !.password = p]]
        <4>1. p # None
          BY <2>3 DEF Repass
        <4>2. users' = [users EXCEPT ![i] = [r EXCEPT !.password = p]]
          BY <2>3, <4>1, Zenon DEF Repass
        <4>3. p \in Passwords
          BY <1>1, <4>1, RequestFields
        <4> QED BY <4>2, <4>3
      <3> DEFINE row == [name |-> r.name, password |-> p, sessions |-> r.sessions]
      <3>2. row \in Row /\ users' = [users EXCEPT ![i] = row]
        <4> HIDE DEF r, i, p
        <4> QED BY <1>3, <3>1, RowChanges
      <3> QED BY <1>1, <3>1, <3>2
    <2> QED BY <2>1, <2>2, <2>3
  <1> HIDE DEF i
  <1>5. users' \in [UserIds -> Row \cup {None}]
    BY <1>4
  <1>6. Registered' = Registered
    BY <1>2, <1>4, RowFields DEF Registered
  <1> QED BY <1>2, <1>4, <1>5, <1>6 DEF Registered

LEMMA EditTypes ==
    ASSUME TInv, NEW h \in Handlers, Rename(h) \/ Repass(h)
    PROVE  TInv'
  <1>1. CASE Rename(h)
    <2>1. users' \in [UserIds -> Row \cup {None}] /\ Registered' = Registered
      BY <1>1, EditFacts
    <2>2. /\ At(h, "rename") /\ Goto(h, "repass")
          /\ UNCHANGED <<mode, plan, owner, req, locals, me, answer>>
      BY <1>1 DEF Rename
    <2> QED BY <2>1, <2>2
         DEF At, Goto, TInv, TypeOK, Asked, Known, Working, OpFitsPc, Pcs, locals
  <1>2. CASE Repass(h)
    <2>1. users' \in [UserIds -> Row \cup {None}] /\ Registered' = Registered
      BY <1>2, EditFacts
    <2>2. Finish(h, "ok", me[h]) /\ UNCHANGED owner
      BY <1>2 DEF Repass
    <2> QED BY <2>1, <2>2, FinishTypes DEF TInv, TypeOK, Known
  <1> QED BY <1>1, <1>2

LEMMA RestartTypes == TInv /\ Restart => TInv'
  BY SameUsers, EmptySeq
     DEF Restart, TInv, TypeOK, Asked, Known, Working, OpFitsPc, Pcs, Nobody

LEMMA KeepsTypes == TInv /\ [Next]_vars => TInv'
  <1> SUFFICES ASSUME TInv, [Next]_vars PROVE TInv'
    OBVIOUS
  <1>1. ASSUME NEW h \in Handlers, Ask(h) PROVE TInv'
    BY <1>1, AskTypes
  <1>2. ASSUME NEW h \in Handlers,
               RegisterPanics(h) \/ RegisterFails(h) \/ NameIsFree(h) \/ Insert(h)
        PROVE  TInv'
    BY <1>2, RegisterTypes
  <1>3. ASSUME NEW h \in Handlers, LoginFails(h) \/ PasswordMatches(h) \/ ReadSessions(h)
        PROVE  TInv'
    BY <1>3, LoginTypes
  <1>4. ASSUME NEW h \in Handlers, StoreSessions(h) PROVE TInv'
    BY <1>4, StoreTypes
  <1>5. ASSUME NEW h \in Handlers, Compare(h) \/ Look(h) \/ Reconnect(h) \/ QueryFails(h)
        PROVE  TInv'
    BY <1>5, CheckTypes
  <1>6. ASSUME NEW h \in Handlers, Rename(h) \/ Repass(h) PROVE TInv'
    BY <1>6, EditTypes
  <1>7. CASE Restart
    BY <1>7, RestartTypes
  <1>8. CASE UNCHANGED vars
    BY <1>8, SameUsers
       DEF vars, locals, TInv, TypeOK, Asked, Known, Working, OpFitsPc
  <1> QED BY <1>1, <1>2, <1>3, <1>4, <1>5, <1>6, <1>7, <1>8 DEF Next

(* The rows, the handlers and the credentials stay what they are meant to be:
   a handler works on a request of the kind its step is for, and a connection
   has credentials of users that exist only.                                *)
THEOREM TypeCorrect == Spec => []TInv
  BY InitTypes, KeepsTypes, PTL DEF Spec

-----------------------------------------------------------------------------
(* What a step does to the lists of sessions.                               *)

(* Every step but StoreSessions leaves the ids and the lists of the users as
   they are; a new user has none; and a handler comes to its write with the
   list that the row has.                                                   *)
Quiet ==
    /\ owner' = owner
    /\ Registered \subseteq Registered'
    /\ \A i \in Registered : users'[i].sessions = users[i].sessions
    /\ \A i \in Registered' \ Registered : users'[i].sessions = <<>>
    /\ \A h \in Handlers : pc'[h] = "store" =>
        /\ id'[h] = id[h] /\ id[h] \in Registered
        /\ \/ pc[h] = "store" /\ list'[h] = list[h]
           \/ list'[h] = users[id[h]].sessions

LEMMA InsertFacts ==
    ASSUME TInv, NEW h \in Handlers, Insert(h)
    PROVE  /\ req[h] \in Requests /\ req[h].op = "register"
           /\ \E i \in UserIds \ Registered :
                /\ users' = [users EXCEPT ![i] =
                       [name |-> req[h].name, password |-> req[h].password, sessions |-> <<>>]]
                /\ users'[i].name = req[h].name /\ users'[i].sessions = <<>>
                /\ id' = [id EXCEPT ![h] = i]
                /\ \A k \in Registered : users'[k] = users[k]
                /\ Registered' = Registered \cup {i}
  <1>1. req[h] \in Requests /\ req[h].op = "register"
    BY DEF Insert, At, TInv, Asked, Working, OpFitsPc
  <1> PICK i \in UserIds \ Registered :
             /\ users' = [users EXCEPT ![i] =
                    [name |-> req[h].name, password |-> req[h].password, sessions |-> <<>>]]
             /\ id' = [id EXCEPT ![h] = i]
    BY DEF Insert
  <1>2. users'[i] \in Row /\ users'[i].name = req[h].name /\ users'[i].sessions = <<>>
    BY <1>1, RequestFields, EmptySeq DEF Row, TInv, TypeOK
  <1>3. Registered' = Registered \cup {i} /\ \A k \in Registered : users'[k] = users[k]
    BY <1>2, RowFields DEF Registered, TInv, TypeOK
  <1> QED BY <1>1, <1>2, <1>3

LEMMA OnlyStoresIssue ==
    ASSUME TInv, [Next]_vars, ~\E h \in Handlers : StoreSessions(h)
    PROVE  Quiet
  <1>1. ASSUME NEW h \in Handlers, Ask(h) PROVE Quiet
    <2> PICK r \in Requests : Goto(h, FirstPc(r))
      BY <1>1 DEF Ask
    <2>1. FirstPc(r) # "store"
      BY RequestFields DEF FirstPc, Ops
    <2>2. UNCHANGED <<users, owner, id, list>>
      BY <1>1 DEF Ask, locals
    <2> QED BY <2>1, <2>2, SameUsers DEF Goto, Quiet, TInv, TypeOK, Asked, Working, OpFitsPc
  <1>2. ASSUME NEW h \in Handlers, NEW a, NEW c, Finish(h, a, c), UNCHANGED owner,
               Registered' = Registered,
               \A i \in Registered : users'[i].sessions = users[i].sessions
        PROVE  Quiet
    BY <1>2 DEF Finish, Goto, Quiet, TInv, TypeOK, Asked, Working, OpFitsPc
  <1>3. ASSUME NEW h \in Handlers, RegisterPanics(h) \/ NameIsFree(h) \/ Reconnect(h) PROVE Quiet
    BY <1>3, SameUsers DEF RegisterPanics, NameIsFree, Reconnect, Goto, locals,
       Quiet, TInv, TypeOK, Asked, Working, OpFitsPc
  <1>4. ASSUME NEW h \in Handlers,
               RegisterFails(h) \/ LoginFails(h) \/ Compare(h) \/ Look(h) \/ QueryFails(h)
        PROVE  Quiet
    <2>1. UNCHANGED <<users, owner>> /\ \E a, c : Finish(h, a, c)
      BY <1>4, Zenon DEF RegisterFails, LoginFails, Compare, Look, QueryFails
    <2> QED BY <1>2, <2>1, SameUsers
  <1>5. ASSUME NEW h \in Handlers, Insert(h) PROVE Quiet
    <2>1. UNCHANGED <<owner, list>> /\ At(h, "insert") /\ Goto(h, "read")
      BY <1>5 DEF Insert
    <2> QED BY <1>5, <2>1, InsertFacts
         DEF At, Goto, Quiet, TInv, TypeOK, Asked, Working, OpFitsPc, Registered
  <1>6. ASSUME NEW h \in Handlers, PasswordMatches(h) \/ ReadSessions(h) PROVE Quiet
    BY <1>6, SameUsers DEF PasswordMatches, ReadSessions, At, Goto,
       Quiet, TInv, TypeOK, Asked, Working, OpFitsPc
  <1>7. ASSUME NEW h \in Handlers, Rename(h) PROVE Quiet
    <2>1. UNCHANGED <<owner, id, list>> /\ At(h, "rename") /\ Goto(h, "repass")
      BY <1>7 DEF Rename, locals
    <2> QED BY <1>7, <2>1, EditFacts DEF Goto, Quiet, TInv, TypeOK, Asked, Working, OpFitsPc
  <1>8. ASSUME NEW h \in Handlers, Repass(h) PROVE Quiet
    <2>1. UNCHANGED owner /\ Finish(h, "ok", me[h])
      BY <1>8 DEF Repass
    <2> QED BY <1>2, <1>8, <2>1, EditFacts
  <1>9. CASE Restart
    BY <1>9, SameUsers DEF Restart, Quiet
  <1>10. CASE UNCHANGED vars
    BY <1>10, SameUsers DEF vars, locals, Quiet, TInv, TypeOK, Asked, Working, OpFitsPc
  <1> QED BY <1>1, <1>3, <1>4, <1>5, <1>6, <1>7, <1>8, <1>9, <1>10 DEF Next

LEMMA PlanStays == [Next]_vars => plan' = plan
  BY DEF Next, vars, Ask, RegisterPanics, RegisterFails, NameIsFree, Insert, LoginFails,
     PasswordMatches, ReadSessions, StoreSessions, Compare, Look, Rename, Repass, Reconnect,
     QueryFails, Restart, Finish

-----------------------------------------------------------------------------
(* Whom the clients never have at work together.                            *)

Exclusive ==
    \A g, h \in Handlers :
        g # h /\ Working(g) /\ Working(h) => {req[g].op, req[h].op} \notin plan.apart

(* A step at most ends a handler's work, except for a client that asks.     *)
LEMMA OthersWorkOn ==
    ASSUME TInv, [Next]_vars, ~\E h \in Handlers : Ask(h), NEW g \in Handlers, Working(g)'
    PROVE  Working(g) /\ req'[g] = req[g]
  <1>1. ASSUME NEW h \in Handlers, NEW a, NEW c, Finish(h, a, c)
        PROVE  Working(g) /\ req'[g] = req[g]
    BY <1>1 DEF Finish, Goto, Working, TInv, TypeOK
  <1>2. ASSUME NEW h \in Handlers,
               \/ RegisterFails(h) \/ LoginFails(h) \/ StoreSessions(h) \/ Compare(h) \/ Look(h)
               \/ Repass(h) \/ QueryFails(h)
        PROVE  \E a, c : Finish(h, a, c)
    BY <1>2, Zenon
       DEF RegisterFails, LoginFails, StoreSessions, Compare, Look, Repass, QueryFails
  <1>3. ASSUME NEW h \in Handlers,
               \/ RegisterPanics(h) \/ NameIsFree(h) \/ Insert(h) \/ PasswordMatches(h)
               \/ ReadSessions(h) \/ Rename(h) \/ Reconnect(h)
        PROVE  Working(g) /\ req'[g] = req[g]
    BY <1>3 DEF RegisterPanics, NameIsFree, Insert, PasswordMatches, ReadSessions, Rename, Reconnect,
       At, Goto, Working, TInv, TypeOK
  <1>4. ~Restart
    BY DEF Restart, Working
  <1>5. CASE UNCHANGED vars
    BY <1>5 DEF vars, Working
  <1> QED BY <1>1, <1>2, <1>3, <1>4, <1>5 DEF Next

LEMMA KeepsApart == TInv /\ Exclusive /\ [Next]_vars => Exclusive'
  <1> SUFFICES ASSUME TInv, Exclusive, [Next]_vars, NEW g \in Handlers, NEW h \in Handlers, g # h,
                      Working(g)', Working(h)'
               PROVE  {req'[g].op, req'[h].op} \notin plan.apart
    BY PlanStays DEF Exclusive
  <1>1. ASSUME NEW k \in Handlers, Ask(k)
        PROVE  {req'[g].op, req'[h].op} \notin plan.apart
    <2> PICK r \in Requests :
               /\ \A f \in Handlers \ {k} : Working(f) => {r.op, req[f].op} \notin plan.apart
               /\ req' = [req EXCEPT ![k] = r] /\ Goto(k, FirstPc(r))
      BY <1>1 DEF Ask
    <2>1. CASE k = g
      BY <2>1 DEF Goto, Working, TInv, TypeOK
    <2>2. CASE k = h
      <3>1. {r.op, req[g].op} \notin plan.apart
        BY <2>2 DEF Goto, Working, TInv, TypeOK
      <3>2. {r.op, req[g].op} = {req'[g].op, req'[h].op}
        BY <2>2 DEF TInv, TypeOK
      <3> QED BY <3>1, <3>2
    <2>3. CASE k # g /\ k # h
      BY <2>3 DEF Goto, Working, TInv, TypeOK, Exclusive
    <2> QED BY <2>1, <2>2, <2>3
  <1>2. CASE ~\E k \in Handlers : Ask(k)
    BY <1>2, OthersWorkOn DEF Exclusive
  <1> QED BY <1>1, <1>2

-----------------------------------------------------------------------------
(* The lists of sessions.                                                   *)

(* A list that user i has or had: ids drawn for it, the latest ones last.   *)
ListOK(l, i, o) ==
    /\ Len(l) <= MAX_SESSIONS
    /\ \A j, k \in DOMAIN l : j < k => l[j] < l[k]
    /\ \A k \in DOMAIN l : l[k] \in DOMAIN o /\ o[l[k]] = i

SInv ==
    /\ \A i \in Registered : ListOK(users[i].sessions, i, owner)
    /\ \A h \in Handlers : pc[h] = "store" => ListOK(list[h], id[h], owner)
    /\ \A s \in DOMAIN owner : owner[s] \in Registered

(* No id of user i is missing in its list, but for those before the three.  *)
Latest(l, i, o) ==
    \A s \in DOMAIN o : o[s] = i =>
        \/ \E k \in DOMAIN l : l[k] = s
        \/ Len(l) = MAX_SESSIONS /\ \A k \in DOMAIN l : s < l[k]

(* While registrations and logins are apart, nobody else writes the list that
   a handler read.                                                          *)
LInv ==
    SessionsApart =>
        /\ \A i \in Registered : Latest(users[i].sessions, i, owner)
        /\ \A h \in Handlers : pc[h] = "store" => list[h] = users[id[h]].sessions

LEMMA InitLists == Init => SInv /\ LInv /\ Exclusive
  BY EmptySeq DEF Init, SInv, LInv, Exclusive, Registered, Working, Latest

LEMMA QuietLists ==
    ASSUME TInv, SInv, Quiet
    PROVE  SInv'
  <1>1. \A l, i : ListOK(l, i, owner) => ListOK(l, i, owner')
    BY DEF Quiet, ListOK
  <1>2. ASSUME NEW i \in Registered' PROVE ListOK(users'[i].sessions, i, owner')
    <2>1. CASE i \in Registered
      BY <1>1, <2>1 DEF Quiet, SInv
    <2>2. CASE i \notin Registered
      <3>1. users'[i].sessions = <<>>
        BY <2>2 DEF Quiet
      <3> QED BY <3>1 DEF ListOK
    <2> QED BY <2>1, <2>2
  <1>3. ASSUME NEW h \in Handlers, pc'[h] = "store" PROVE ListOK(list'[h], id'[h], owner')
    BY <1>1, <1>3 DEF Quiet, SInv
  <1>4. \A s \in DOMAIN owner' : owner'[s] \in Registered'
    BY DEF Quiet, SInv
  <1> QED BY <1>2, <1>3, <1>4 DEF SInv

LEMMA QuietLatest ==
    ASSUME TInv, SInv, LInv, Quiet, plan' = plan
    PROVE  LInv'
  <1> SUFFICES ASSUME SessionsApart
               PROVE  /\ \A i \in Registered' : Latest(users'[i].sessions, i, owner')
                      /\ \A h \in Handlers : pc'[h] = "store" => list'[h] = users'[id'[h]].sessions
    BY DEF LInv, SessionsApart, Apart
  <1>1. ASSUME NEW i \in Registered' PROVE Latest(users'[i].sessions, i, owner')
    BY DEF Quiet, SInv, LInv, Latest
  <1>2. ASSUME NEW h \in Handlers, pc'[h] = "store" PROVE list'[h] = users'[id'[h]].sessions
    BY <1>2 DEF Quiet, LInv
  <1> QED BY <1>1, <1>2

(* What the ids and the lists are after a write.                            *)
LEMMA StoredLists ==
    ASSUME TInv, SInv, NEW h \in Handlers, StoreSessions(h)
    PROVE  LET i == id[h]
               l == list[h]
               s == Len(owner) + 1
               new == WithSession(l, s)
           IN /\ i \in Registered /\ Registered' = Registered
              /\ users'[i].sessions = new
              /\ \A k \in Registered \ {i} : users'[k].sessions = users[k].sessions
              /\ DOMAIN owner' = DOMAIN owner \cup {s} /\ s \notin DOMAIN owner
              /\ owner'[s] = i
              /\ \A t \in DOMAIN owner : owner'[t] = owner[t] /\ t \in Nat /\ t < s
              /\ \A g \in Handlers : pc'[g] = "store" =>
                     g # h /\ pc[g] = "store" /\ list'[g] = list[g] /\ id'[g] = id[g]
  <1> DEFINE i == id[h]
             l == list[h]
             s == Len(owner) + 1
             new == WithSession(l, s)
  <1>1. /\ i \in UserIds /\ i \in Registered /\ Registered' = Registered
        /\ owner' = Append(owner, i)
        /\ users' = [users EXCEPT ![i] = [name |-> users[i].name, password |-> users[i].password,
                                          sessions |-> new]]
        /\ Finish(h, "ok", [user |-> i, session |-> s])
    BY StoreFacts
  <1>2. owner \in Seq(UserIds) /\ users \in [UserIds -> Row \cup {None}]
    BY DEF TInv, TypeOK
  <1>3. /\ users'[i].sessions = new
        /\ \A k \in Registered \ {i} : users'[k].sessions = users[k].sessions
    <2> HIDE DEF i, new
    <2> QED BY <1>1, <1>2 DEF Registered
  <1>4. /\ DOMAIN owner' = DOMAIN owner \cup {s} /\ s \notin DOMAIN owner
        /\ owner'[s] = i
        /\ \A t \in DOMAIN owner : owner'[t] = owner[t] /\ t \in Nat /\ t < s
    <2>1. /\ Len(owner) \in Nat /\ DOMAIN owner = 1..Len(owner)
          /\ DOMAIN owner' = 1..Len(owner) + 1 /\ owner'[Len(owner) + 1] = i
          /\ \A t \in DOMAIN owner : owner'[t] = owner[t]
      <3> HIDE DEF i
      <3> QED BY <1>1, <1>2, OwnersAreUsers, Zenon
    <2> HIDE DEF i
    <2> QED BY <2>1
  <1>5. \A g \in Handlers : pc'[g] = "store" =>
            g # h /\ pc[g] = "store" /\ list'[g] = list[g] /\ id'[g] = id[g]
    <2> HIDE DEF i
    <2> QED BY <1>1 DEF Finish, Goto, TInv, TypeOK
  <1> QED BY <1>1, <1>3, <1>4, <1>5

LEMMA StoreLists ==
    ASSUME TInv, SInv, NEW h \in Handlers, StoreSessions(h)
    PROVE  SInv'
  <1> DEFINE i == id[h]
             l == list[h]
             s == Len(owner) + 1
             new == WithSession(l, s)
  <1>1. /\ i \in Registered /\ Registered' = Registered
        /\ users'[i].sessions = new
        /\ \A k \in Registered \ {i} : users'[k].sessions = users[k].sessions
        /\ DOMAIN owner' = DOMAIN owner \cup {s} /\ s \notin DOMAIN owner
        /\ owner'[s] = i
        /\ \A t \in DOMAIN owner : owner'[t] = owner[t] /\ t \in Nat /\ t < s
        /\ \A g \in Handlers : pc'[g] = "store" =>
               g # h /\ pc[g] = "store" /\ list'[g] = list[g] /\ id'[g] = id[g]
    BY StoredLists
  <1>2. \A m, k : ListOK(m, k, owner) => ListOK(m, k, owner')
    <2> HIDE DEF s, i
    <2> QED BY <1>1 DEF ListOK
  <1>3. ListOK(new, i, owner')
    <2>1. /\ l \in Seq(SessionIds) /\ s \in SessionIds
      BY StoreFacts
    <2>2. ListOK(l, i, owner)
      BY DEF SInv, StoreSessions, At
    <2> HIDE DEF l, s, i
    <2>3. /\ new \in Seq(SessionIds)
          /\ Len(l) = MAX_SESSIONS => /\ Len(new) = MAX_SESSIONS
                                      /\ \A k \in 1..2 : new[k] = l[k + 1]
                                      /\ new[3] = s
          /\ Len(l) # MAX_SESSIONS => /\ Len(new) = Len(l) + 1
                                      /\ \A k \in DOMAIN l : new[k] = l[k]
                                      /\ new[Len(l) + 1] = s
      BY <2>1, WithSessionSteps
    <2> HIDE DEF new
    <2>4. DOMAIN l = 1..Len(l) /\ Len(l) \in Nat /\ DOMAIN new = 1..Len(new)
      BY <2>1, <2>3, LenProperties
    <2>5. /\ \A k \in DOMAIN l : /\ l[k] \in DOMAIN owner' /\ owner'[l[k]] = i
                                  /\ l[k] \in Nat /\ l[k] < s
          /\ s \in DOMAIN owner' /\ owner'[s] = i /\ s \in Nat
      BY <1>1, <2>1, <2>2 DEF ListOK, SessionIds
    <2>6. CASE Len(l) = MAX_SESSIONS
      <3>1. /\ Len(new) = 3 /\ new[1] = l[2] /\ new[2] = l[3] /\ new[3] = s
            /\ 2 \in DOMAIN l /\ 3 \in DOMAIN l
        BY <2>3, <2>4, <2>6
      <3>2. l[2] < l[3] /\ l[2] < s /\ l[3] < s
        BY <2>2, <2>5, <3>1 DEF ListOK
      <3>3. \A k \in DOMAIN new : k = 1 \/ k = 2 \/ k = 3
        BY <2>4, <3>1
      <3>4. \A j, k \in DOMAIN new : j < k => new[j] < new[k]
        <4> SUFFICES ASSUME NEW j \in DOMAIN new, NEW k \in DOMAIN new, j < k
                     PROVE  new[j] < new[k]
          OBVIOUS
        <4>1. (j = 1 /\ k = 2) \/ (j = 1 /\ k = 3) \/ (j = 2 /\ k = 3)
          BY <3>3
        <4> QED BY <3>1, <3>2, <4>1
      <3>5. \A k \in DOMAIN new : new[k] \in DOMAIN owner' /\ owner'[new[k]] = i
        BY <2>5, <3>1, <3>3
      <3> QED BY <3>1, <3>4, <3>5 DEF ListOK
    <2>7. CASE Len(l) # MAX_SESSIONS
      <3>1. /\ Len(new) = Len(l) + 1 /\ new[Len(l) + 1] = s
            /\ \A k \in DOMAIN l : new[k] = l[k]
            /\ \A k \in DOMAIN new : k \in DOMAIN l \/ k = Len(l) + 1
        BY <2>3, <2>4, <2>7
      <3>2. Len(new) <= MAX_SESSIONS
        BY <2>2, <2>4, <2>7, <3>1 DEF ListOK
      <3>3. \A j, k \in DOMAIN new : j < k => new[j] < new[k]
        <4> SUFFICES ASSUME NEW j \in DOMAIN new, NEW k \in DOMAIN new, j < k
                     PROVE  new[j] < new[k]
          OBVIOUS
        <4>1. j \in DOMAIN l
          BY <2>4, <3>1
        <4>2. CASE k \in DOMAIN l
          BY <2>2, <3>1, <4>1, <4>2 DEF ListOK
        <4>3. CASE k = Len(l) + 1
          BY <2>5, <3>1, <4>1, <4>3
        <4> QED BY <3>1, <4>2, <4>3
      <3>4. \A k \in DOMAIN new : new[k] \in DOMAIN owner' /\ owner'[new[k]] = i
        BY <2>5, <3>1
      <3> QED BY <3>2, <3>3, <3>4 DEF ListOK
    <2> QED BY <2>6, <2>7
  <1> HIDE DEF i, l, s, new
  <1>4. \A k \in Registered' : ListOK(users'[k].sessions, k, owner')
    BY <1>1, <1>2, <1>3 DEF SInv
  <1>5. \A g \in Handlers : pc'[g] = "store" => ListOK(list'[g], id'[g], owner')
    BY <1>1, <1>2 DEF SInv
  <1>6. \A t \in DOMAIN owner' : owner'[t] \in Registered'
    BY <1>1 DEF SInv
  <1> QED BY <1>4, <1>5, <1>6 DEF SInv

LEMMA StoreLatest ==
    ASSUME TInv, SInv, Exclusive, LInv, NEW h \in Handlers, StoreSessions(h), plan' = plan
    PROVE  LInv'
  <1> SUFFICES ASSUME SessionsApart
               PROVE  /\ \A k \in Registered' : Latest(users'[k].sessions, k, owner')
                      /\ \A g \in Handlers : pc'[g] = "store" => list'[g] = users'[id'[g]].sessions
    BY DEF LInv, SessionsApart, Apart
  <1> DEFINE i == id[h]
             l == list[h]
             s == Len(owner) + 1
             new == WithSession(l, s)
  <1>1. /\ i \in Registered /\ Registered' = Registered
        /\ users'[i].sessions = new
        /\ \A k \in Registered \ {i} : users'[k].sessions = users[k].sessions
        /\ DOMAIN owner' = DOMAIN owner \cup {s} /\ s \notin DOMAIN owner
        /\ owner'[s] = i
        /\ \A t \in DOMAIN owner : owner'[t] = owner[t] /\ t \in Nat /\ t < s
        /\ \A g \in Handlers : pc'[g] = "store" =>
               g # h /\ pc[g] = "store" /\ list'[g] = list[g] /\ id'[g] = id[g]
    BY StoredLists
  <1>2. \A g \in Handlers : pc'[g] # "store"
    <2> SUFFICES ASSUME NEW g \in Handlers, g # h, pc[g] = "store" PROVE FALSE
      BY <1>1
    <2>1. pc[h] = "store"
      BY DEF StoreSessions, At
    <2>2. req[g].op \in {"register", "login"} /\ req[h].op \in {"register", "login"}
      BY <2>1 DEF TInv, Asked, Working, OpFitsPc
    <2>3. {req[g].op, req[h].op} \notin plan.apart
      BY <2>1 DEF Exclusive, Working
    <2> QED BY <2>2, <2>3 DEF SessionsApart, Apart
  <1>3. Latest(new, i, owner')
    <2>1. /\ l \in Seq(SessionIds) /\ s \in SessionIds
      BY StoreFacts
    <2>2. ListOK(l, i, owner) /\ Latest(l, i, owner)
      BY DEF SInv, LInv, StoreSessions, At, TInv, Asked, Working, OpFitsPc
    <2> HIDE DEF l, s, i
    <2>3. /\ new \in Seq(SessionIds)
          /\ Len(l) = MAX_SESSIONS => /\ Len(new) = MAX_SESSIONS
                                      /\ \A k \in 1..2 : new[k] = l[k + 1]
                                      /\ new[3] = s
          /\ Len(l) # MAX_SESSIONS => /\ Len(new) = Len(l) + 1
                                      /\ \A k \in DOMAIN l : new[k] = l[k]
                                      /\ new[Len(l) + 1] = s
      BY <2>1, WithSessionSteps
    <2> HIDE DEF new
    <2> SUFFICES ASSUME NEW t \in DOMAIN owner', owner'[t] = i
                 PROVE  \/ \E k \in DOMAIN new : new[k] = t
                        \/ Len(new) = MAX_SESSIONS /\ \A k \in DOMAIN new : t < new[k]
      BY DEF Latest
    <2>4. DOMAIN l = 1..Len(l) /\ Len(l) \in Nat /\ DOMAIN new = 1..Len(new)
      BY <2>1, <2>3, LenProperties
    <2>5. CASE t = s
      <3>1. CASE Len(l) = MAX_SESSIONS
        <4>1. 3 \in DOMAIN new /\ new[3] = s
          BY <2>3, <2>4, <3>1
        <4> QED BY <2>5, <4>1
      <3>2. CASE Len(l) # MAX_SESSIONS
        <4>1. Len(l) + 1 \in DOMAIN new /\ new[Len(l) + 1] = s
          BY <2>3, <2>4, <3>2
        <4> QED BY <2>5, <4>1
      <3> QED BY <3>1, <3>2
    <2>6. CASE t # s /\ Len(l) # MAX_SESSIONS
      <3>1. t \in DOMAIN owner /\ owner[t] = i
        BY <1>1, <2>6
      <3>2. PICK k \in DOMAIN l : l[k] = t
        BY <2>2, <2>6, <3>1 DEF Latest
      <3> QED BY <2>3, <2>4, <2>6, <3>2
    <2>7. CASE t # s /\ Len(l) = MAX_SESSIONS
      <3>1. t \in DOMAIN owner /\ owner[t] = i /\ t < s
        BY <1>1, <2>7
      <3>2. /\ Len(new) = 3 /\ new[1] = l[2] /\ new[2] = l[3] /\ new[3] = s
            /\ l[1] < l[2] /\ l[2] < l[3] /\ l[1] < l[3]
        BY <2>2, <2>3, <2>4, <2>7 DEF ListOK
      <3>3. CASE \E k \in DOMAIN l : l[k] = t
        <4>1. t = l[1] \/ t = l[2] \/ t = l[3]
          BY <2>4, <2>7, <3>3
        <4> QED BY <2>4, <3>1, <3>2, <4>1
      <3>4. CASE \A k \in DOMAIN l : t < l[k]
        <4>1. t < l[2] /\ t < l[3]
          BY <2>4, <2>7, <3>4
        <4> QED BY <2>4, <3>1, <3>2, <4>1
      <3> QED BY <2>2, <3>1, <3>3, <3>4 DEF Latest
    <2> QED BY <2>5, <2>6, <2>7
  <1> HIDE DEF i, l, s, new
  <1>4. ASSUME NEW k \in Registered \ {i} PROVE Latest(users'[k].sessions, k, owner')
    BY <1>1 DEF Latest, LInv
  <1> QED BY <1>1, <1>2, <1>3, <1>4

LEMMA KeepsLists ==
    TInv /\ SInv /\ LInv /\ Exclusive /\ [Next]_vars => SInv' /\ LInv' /\ Exclusive'
  BY KeepsApart, PlanStays, OnlyStoresIssue, QuietLists, QuietLatest, StoreLists, StoreLatest

LEMMA ListsAreLatest == TInv /\ SInv /\ LInv => SessionsAreLatest
  <1> SUFFICES ASSUME TInv, SInv, LInv, NEW i \in Registered
               PROVE  LET l == users[i].sessions IN
                      /\ Len(l) <= MAX_SESSIONS
                      /\ \A j, k \in DOMAIN l : l[j] = l[k] => j = k
                      /\ Listed(i) \subseteq Issued(i)
                      /\ SessionsApart => \A s \in Issued(i) :
                             \/ s \in Listed(i)
                             \/ Len(l) = MAX_SESSIONS /\ \A t \in Listed(i) : s < t
    BY DEF SessionsAreLatest, TInv
  <1> DEFINE l == users[i].sessions
  <1>1. l \in Seq(SessionIds)
    BY UserFields, RowFields DEF TInv, Registered
  <1>2. ListOK(l, i, owner) /\ (SessionsApart => Latest(l, i, owner))
    BY DEF SInv, LInv
  <1> HIDE DEF l
  <1>3. \A j, k \in DOMAIN l : l[j] = l[k] => j = k
    BY <1>1, <1>2, LenProperties DEF ListOK, SessionIds
  <1> USE DEF l
  <1>4. Listed(i) \subseteq Issued(i)
    BY <1>2 DEF ListOK, Listed, Issued
  <1>5. SessionsApart => \A s \in Issued(i) :
            \/ s \in Listed(i)
            \/ Len(l) = MAX_SESSIONS /\ \A t \in Listed(i) : s < t
    BY <1>2 DEF Latest, Listed, Issued
  <1> QED BY <1>2, <1>3, <1>4, <1>5 DEF ListOK

(* The list of a user holds ids drawn for it, three at most and none twice,
   whatever runs at the same time; if registrations and logins do not overlap,
   an id is missing only when three later ones took its place.              *)
THEOREM SessionsStayLatest == Spec => []SessionsAreLatest
  <1>1. Spec => [](TInv /\ SInv /\ LInv /\ Exclusive)
    BY InitTypes, InitLists, KeepsTypes, KeepsLists, PTL DEF Spec
  <1> QED BY <1>1, ListsAreLatest, PTL

-----------------------------------------------------------------------------
(* The names.                                                               *)

(* While registrations are apart and nobody is renamed, a name that was free
   when it was checked is free when its row is inserted.                    *)
NInv ==
    NamesApart =>
        /\ \A i, k \in Registered : users[i].name = users[k].name => i = k
        /\ \A i \in Registered : Shape[users[i].name] = "valid"
        /\ \A h \in Handlers : pc[h] = "insert" =>
               /\ Shape[req[h].name] = "valid"
               /\ \A i \in Registered : users[i].name # req[h].name

LEMMA InitNames == Init => NInv
  BY DEF Init, NInv, Registered

(* A step that inserts no row and renames nobody changes no names.          *)
LEMMA OnlyInsertsName ==
    ASSUME TInv, [Next]_vars, ~\E h \in Handlers : Insert(h), ~plan.renames
    PROVE  /\ Registered' = Registered
           /\ \A i \in Registered : users'[i].name = users[i].name
  <1>1. ASSUME NEW h \in Handlers, StoreSessions(h)
        PROVE  /\ Registered' = Registered
               /\ \A i \in Registered : users'[i].name = users[i].name
    <2> DEFINE i == id[h]
               l == WithSession(list[h], Len(owner) + 1)
    <2>1. /\ i \in Registered /\ Registered' = Registered
          /\ users' = [users EXCEPT ![i] = [name |-> users[i].name, password |-> users[i].password,
                                            sessions |-> l]]
      BY <1>1, StoreFacts
    <2> HIDE DEF i, l
    <2> QED BY <2>1 DEF TInv, TypeOK, Registered
  <1>2. ASSUME NEW h \in Handlers, Rename(h) \/ Repass(h)
        PROVE  /\ Registered' = Registered
               /\ \A i \in Registered : users'[i].name = users[i].name
    BY <1>2, EditFacts
  <1>3. CASE UNCHANGED users
    BY <1>3, SameUsers
  <1> QED BY <1>1, <1>2, <1>3, Zenon DEF Next, vars, Ask, RegisterPanics, RegisterFails, NameIsFree,
     LoginFails, PasswordMatches, ReadSessions, Compare, Look, Reconnect, QueryFails, Restart

(* Only NameIsFree brings a handler to its insert.                          *)
LEMMA OnlyFreeNamesGoIn ==
    ASSUME TInv, [Next]_vars, NEW g \in Handlers, pc'[g] = "insert"
    PROVE  req'[g] = req[g] /\ (pc[g] = "insert" \/ NameIsFree(g))
  <1>1. ASSUME NEW h \in Handlers, NEW a, NEW c, Finish(h, a, c)
        PROVE  req'[g] = req[g] /\ pc[g] = "insert"
    BY <1>1 DEF Finish, Goto, TInv, TypeOK
  <1>2. ASSUME NEW h \in Handlers,
               \/ RegisterFails(h) \/ LoginFails(h) \/ StoreSessions(h) \/ Compare(h) \/ Look(h)
               \/ Repass(h) \/ QueryFails(h)
        PROVE  \E a, c : Finish(h, a, c)
    BY <1>2, Zenon
       DEF RegisterFails, LoginFails, StoreSessions, Compare, Look, Repass, QueryFails
  <1>3. ASSUME NEW h \in Handlers, Ask(h)
        PROVE  req'[g] = req[g] /\ pc[g] = "insert"
    <2> PICK r \in Requests : Goto(h, FirstPc(r)) /\ req' = [req EXCEPT ![h] = r]
      BY <1>3 DEF Ask
    <2>1. FirstPc(r) # "insert"
      BY RequestFields DEF FirstPc, Ops
    <2> QED BY <2>1 DEF Goto, TInv, TypeOK
  <1>4. ASSUME NEW h \in Handlers,
               \/ RegisterPanics(h) \/ NameIsFree(h) \/ Insert(h) \/ PasswordMatches(h)
               \/ ReadSessions(h) \/ Rename(h) \/ Reconnect(h)
        PROVE  req'[g] = req[g] /\ (pc[g] = "insert" \/ NameIsFree(g))
    BY <1>4 DEF RegisterPanics, NameIsFree, Insert, PasswordMatches, ReadSessions, Rename, Reconnect,
       At, Goto, TInv, TypeOK
  <1>5. ~Restart
    BY DEF Restart
  <1>6. CASE UNCHANGED vars
    BY <1>6 DEF vars
  <1> QED BY <1>1, <1>2, <1>3, <1>4, <1>5, <1>6 DEF Next

LEMMA KeepsNames == TInv /\ Exclusive /\ NInv /\ [Next]_vars => NInv'
  <1> SUFFICES ASSUME TInv, Exclusive, NInv, [Next]_vars, NamesApart
               PROVE  /\ \A i, k \in Registered' : users'[i].name = users'[k].name => i = k
                      /\ \A i \in Registered' : Shape[users'[i].name] = "valid"
                      /\ \A g \in Handlers : pc'[g] = "insert" =>
                             /\ Shape[req'[g].name] = "valid"
                             /\ \A i \in Registered' : users'[i].name # req'[g].name
    BY PlanStays DEF NInv, NamesApart, Apart
  <1>1. CASE ~\E h \in Handlers : Insert(h)
    <2>1. /\ Registered' = Registered
          /\ \A i \in Registered : users'[i].name = users[i].name
      BY <1>1, OnlyInsertsName DEF NamesApart
    <2>2. ASSUME NEW g \in Handlers, pc'[g] = "insert"
          PROVE  /\ Shape[req'[g].name] = "valid"
                 /\ \A i \in Registered : users[i].name # req'[g].name
      BY <2>2, OnlyFreeNamesGoIn DEF NInv, NameIsFree, Named
    <2> QED BY <2>1, <2>2 DEF NInv
  <1>2. ASSUME NEW h \in Handlers, Insert(h)
        PROVE  /\ \A i, k \in Registered' : users'[i].name = users'[k].name => i = k
               /\ \A i \in Registered' : Shape[users'[i].name] = "valid"
               /\ \A g \in Handlers : pc'[g] # "insert"
    <2>1. pc[h] = "insert" /\ Goto(h, "read") /\ req[h].op = "register"
      BY <1>2, InsertFacts DEF Insert, At
    <2>2. /\ Shape[req[h].name] = "valid"
          /\ \A i \in Registered : users[i].name # req[h].name
      BY <2>1 DEF NInv
    <2> PICK i \in UserIds \ Registered :
               /\ users'[i].name = req[h].name
               /\ \A k \in Registered : users'[k] = users[k]
               /\ Registered' = Registered \cup {i}
      BY <1>2, InsertFacts
    <2>3. \A j, k \in Registered' : users'[j].name = users'[k].name => j = k
      BY <2>2 DEF NInv
    <2>4. \A k \in Registered' : Shape[users'[k].name] = "valid"
      BY <2>2 DEF NInv
    <2>5. \A g \in Handlers : pc'[g] # "insert"
      <3> SUFFICES ASSUME NEW g \in Handlers \ {h}, pc[g] = "insert" PROVE FALSE
        BY <2>1 DEF Goto, TInv, TypeOK
      <3>1. req[g].op = "register"
        BY DEF TInv, Asked, Working, OpFitsPc
      <3> QED BY <2>1, <3>1 DEF Exclusive, Working, NamesApart, Apart
    <2> QED BY <2>3, <2>4, <2>5
  <1> QED BY <1>1, <1>2

LEMMA NamesAreFound == NInv => NamesIdentify
  BY DEF NInv, NamesIdentify, Named

(* A username leads to one account, and is one that validate_username lets
   in, as long as registrations do not overlap and nobody is renamed.       *)
THEOREM NamesStayIdentifying == Spec => []NamesIdentify
  <1>1. Spec => [](TInv /\ SInv /\ LInv /\ Exclusive /\ NInv)
    BY InitTypes, InitLists, InitNames, KeepsTypes, KeepsLists, KeepsNames, PTL DEF Spec
  <1> QED BY <1>1, NamesAreFound, PTL

-----------------------------------------------------------------------------
(* The credentials.                                                         *)

(* Who has an empty list was never given an id.                             *)
EInv == \A i \in Registered : users[i].sessions = <<>> => \A s \in DOMAIN owner : owner[s] # i

LEMMA InitEmpty == Init => EInv
  BY DEF Init, EInv, Registered

LEMMA KeepsEmpty == TInv /\ SInv /\ EInv /\ [Next]_vars => EInv'
  <1> SUFFICES ASSUME TInv, SInv, EInv, [Next]_vars, NEW i \in Registered',
                      users'[i].sessions = <<>>, NEW s \in DOMAIN owner'
               PROVE  owner'[s] # i
    BY DEF EInv
  <1>1. ASSUME NEW h \in Handlers, StoreSessions(h) PROVE owner'[s] # i
    <2>1. users'[id[h]].sessions # <<>>
      <3>1. users'[id[h]].sessions = WithSession(list[h], Len(owner) + 1)
        BY <1>1, StoredLists
      <3>2. list[h] \in Seq(SessionIds) /\ Len(owner) + 1 \in SessionIds
        BY <1>1, StoreFacts
      <3> QED BY <3>1, <3>2, WithSessionSteps, LenProperties, EmptySeq
    <2>2. /\ i \in Registered /\ users[i].sessions = <<>> /\ id[h] # i
          /\ owner'[s] = id[h] \/ (s \in DOMAIN owner /\ owner'[s] = owner[s])
      BY <1>1, <2>1, StoredLists
    <2> QED BY <2>2 DEF EInv
  <1>2. CASE Quiet
    BY <1>2 DEF Quiet, SInv, EInv
  <1> QED BY <1>1, <1>2, OnlyStoresIssue

(* Only a new session and an accepted auth bring credentials.               *)
LEMMA WhatBringsCreds ==
    ASSUME TInv, [Next]_vars, NEW g \in Handlers, NEW i \in UserIds, Enters(g, i)
    PROVE  \/ StoreSessions(g) /\ i = id[g] /\ me'[g].session = Len(owner) + 1
           \/ /\ Compare(g) /\ Accepts(i, me'[g].session)
              /\ me'[g].session \in SessionIds
              /\ UNCHANGED <<users, owner>>
  <1>1. ASSUME NEW h \in Handlers, NEW a, Finish(h, a, me[h]) PROVE FALSE
    BY <1>1 DEF Finish, Enters, TInv, TypeOK
  <1>2. ASSUME NEW h \in Handlers,
               RegisterFails(h) \/ LoginFails(h) \/ Look(h) \/ Repass(h) \/ QueryFails(h)
        PROVE  FALSE
    BY <1>1, <1>2, Zenon DEF RegisterFails, LoginFails, Look, Repass, QueryFails
  <1>3. ASSUME NEW h \in Handlers, StoreSessions(h)
        PROVE  h = g /\ i = id[g] /\ me'[g].session = Len(owner) + 1
    <2> DEFINE s == Len(owner) + 1
    <2>1. Finish(h, "ok", [user |-> id[h], session |-> s])
      BY <1>3, StoreFacts
    <2> HIDE DEF s
    <2>2. h = g
      BY <2>1 DEF Finish, Enters, TInv, TypeOK
    <2>3. me'[g] = [user |-> id[g], session |-> s]
      BY <2>1, <2>2 DEF Finish, TInv, TypeOK
    <2>4. i = id[g] /\ me'[g].session = s
      BY <2>3 DEF Enters
    <2> QED BY <2>2, <2>4 DEF s
  <1>4. ASSUME NEW h \in Handlers, Compare(h)
        PROVE  /\ h = g /\ Accepts(i, me'[g].session)
               /\ me'[g].session \in SessionIds
               /\ UNCHANGED <<users, owner>>
    <2> DEFINE c == [user |-> req[h].user, session |-> req[h].session]
    <2>1. Accepts(req[h].user, req[h].session) /\ Finish(h, "ok", c) /\ UNCHANGED <<users, owner>>
      BY <1>1, <1>4 DEF Compare
    <2>2. h = g
      <3> HIDE DEF c
      <3> QED BY <2>1 DEF Finish, Enters, TInv, TypeOK
    <2>3. me'[h] = c
      <3> HIDE DEF c
      <3> QED BY <2>1 DEF Finish, TInv, TypeOK
    <2>4. i = req[h].user /\ me'[g].session = req[h].session
      BY <2>2, <2>3 DEF Enters
    <2>5. req[h].session \in SessionIds
      BY <1>4, RequestFields DEF Compare, At, TInv, Asked, Working, OpFitsPc
    <2> HIDE DEF c
    <2> QED BY <2>1, <2>2, <2>4, <2>5
  <1>5. ASSUME NEW h \in Handlers, Reconnect(h) \/ Restart PROVE FALSE
    BY <1>5, AccountsAssumption DEF Reconnect, Restart, Enters, Nobody, TInv, TypeOK
  <1>6. CASE UNCHANGED me
    BY <1>6 DEF Enters
  <1>7. ASSUME NEW h \in Handlers,
               \/ Ask(h) \/ RegisterPanics(h) \/ NameIsFree(h) \/ Insert(h) \/ PasswordMatches(h)
               \/ ReadSessions(h) \/ Rename(h)
        PROVE  me' = me
    BY <1>7, Zenon DEF Ask, RegisterPanics, NameIsFree, Insert, PasswordMatches, ReadSessions, Rename
  <1>8. UNCHANGED vars => me' = me
    BY DEF vars
  <1> QED BY <1>2, <1>3, <1>4, <1>5, <1>6, <1>7, <1>8, Zenon DEF Next

LEMMA EntersWithIssued ==
    ASSUME TInv, SInv, EInv, [Next]_vars, NEW g \in Handlers, NEW i \in UserIds, Enters(g, i)
    PROVE  me'[g].session \in Issued(i)' \/ Issued(i)' = {}
  <1>1. CASE StoreSessions(g) /\ i = id[g] /\ me'[g].session = Len(owner) + 1
    <2>1. Len(owner) + 1 \in DOMAIN owner' /\ owner'[Len(owner) + 1] = id[g]
      BY <1>1, StoredLists
    <2> QED BY <1>1, <2>1 DEF Issued
  <1>2. CASE Accepts(i, me'[g].session) /\ UNCHANGED <<users, owner>>
    <2>1. i \in Registered
      BY <1>2 DEF Accepts, Registered
    <2>2. CASE users[i].sessions = <<>>
      <3>1. \A s \in DOMAIN owner : owner[s] # i
        BY <2>1, <2>2 DEF EInv
      <3> QED BY <1>2, <3>1 DEF Issued
    <2>3. CASE \E k \in DOMAIN users[i].sessions : users[i].sessions[k] = me'[g].session
      BY <1>2, <2>1, <2>3 DEF SInv, ListOK, Issued
    <2> QED BY <1>2, <2>2, <2>3 DEF Accepts
  <1> QED BY <1>1, <1>2, WhatBringsCreds

(* Nobody gets into an account without a session id of that account, unless the
   account never had one: auth takes any id while the list is empty.  Whatever
   overlaps, fails or ends, a list that held an id is never empty again.     *)
THEOREM CredentialsStayIssued == Spec => CredentialsAreIssued
  <1>1. Init => TInv /\ SInv /\ LInv /\ Exclusive /\ EInv
    BY InitTypes, InitLists, InitEmpty
  <1>2. TInv /\ SInv /\ LInv /\ Exclusive /\ EInv /\ [Next]_vars
            => (TInv /\ SInv /\ LInv /\ Exclusive /\ EInv)'
    BY KeepsTypes, KeepsLists, KeepsEmpty
  <1>3. TInv /\ SInv /\ EInv /\ [Next]_vars
            => [\A h \in Handlers, i \in UserIds : Enters(h, i) =>
                   me'[h].session \in Issued(i)' \/ Issued(i)' = {}]_vars
    BY EntersWithIssued
  <1> QED BY <1>1, <1>2, <1>3, PTL DEF Spec, CredentialsAreIssued

=============================================================================
