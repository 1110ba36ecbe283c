------------------------------ MODULE Accounts ------------------------------
(***************************************************************************)
(* The accounts of a server: the rows of ksp.users with their usernames,   *)
(* passwords and lists of session ids, and the handlers of register,       *)
(* login, auth, check and edit (what: self).  One step is one query, and   *)
(* between two queries of a handler the others run: hashing a password     *)
(* takes long.  Any query may fail.  Colours, photos and the display name  *)
(* are left out.                                                           *)
(*                                                                         *)
(* A session id is a number: the first drawn is 1.  A user id is one that  *)
(* no row has.                                                             *)
(***************************************************************************)
EXTENDS Integers, Sequences, FiniteSets

CONSTANTS
    Handlers,     \* connections
    UserIds, Names, Passwords,
    Shape,        \* what validate_username makes of each name
    Requests,     \* what clients ask for
    Plans,        \* what the clients of one run do
    MaxSession,   \* bound on the session ids drawn
    None

Ops == {"register", "login", "auth", "check", "edit"}
SessionIds == Nat \ {0}
MAX_SESSIONS == 3

(* An edit of the own profile may have a new username and a new password.   *)
RequestType == [op: Ops, name: Names \cup {None}, password: Passwords \cup {None},
                user: UserIds \cup {None}, session: SessionIds \cup {None}]

Row == [name: Names, password: Passwords, sessions: Seq(SessionIds)]

(* apart: pairs of operations that clients never have at work together;
   renames: edits change usernames; failing: queries may fail; crashes: the
   process may end between two steps.                                       *)
PlanType == [asks: [Handlers -> SUBSET Ops], apart: SUBSET SUBSET Ops,
             renames: BOOLEAN, failing: BOOLEAN, crashes: BOOLEAN]

ASSUME AccountsAssumption ==
    /\ MaxSession \in Nat
    /\ Shape \in [Names -> {"valid", "invalid", "unsliceable"}]
    /\ None \notin Names \cup Passwords \cup UserIds \cup SessionIds \cup Row \cup Requests
    /\ Requests \subseteq RequestType
    /\ \A r \in Requests :
        /\ r.op \in {"register", "login"} => r.name # None /\ r.password # None
        /\ r.op = "auth" => r.user # None /\ r.session # None
        /\ r.op = "check" => r.name # None
    /\ Plans \subseteq PlanType

VARIABLES
    mode,    \* "up" or "panicked"
    plan,    \* the plan of this run
    users,   \* ksp.users
    owner,   \* the user each session id was drawn for, in the order of the draws
    pc,      \* the query each handler is about to make
    req,     \* the request it is at
    id,      \* the user it works on
    list,    \* the sessions it read
    me,      \* the credentials of its session
    answer   \* its last response

locals == <<id, list>>
vars == <<mode, plan, users, owner, pc, req, locals, me, answer>>

Pcs == {"idle", "exists", "insert", "find", "read", "store", "compare", "look", "rename", "repass"}
Creds == [user: UserIds, session: SessionIds]
Nobody == [user |-> None, session |-> None]

TypeOK ==
    /\ mode \in {"up", "panicked"}
    /\ plan \in Plans
    /\ users \in [UserIds -> Row \cup {None}]
    /\ owner \in Seq(UserIds)
    /\ pc \in [Handlers -> Pcs]
    /\ req \in [Handlers -> Requests \cup {None}]
    /\ id \in [Handlers -> UserIds \cup {None}]
    /\ list \in [Handlers -> Seq(SessionIds)]
    /\ me \in [Handlers -> Creds \cup {Nobody}]
    /\ answer \in [Handlers -> {"none", "ok", "error"}]

Init ==
    /\ mode = "up"
    /\ plan \in Plans
    /\ users = [i \in UserIds |-> None]
    /\ owner = <<>>
    /\ pc = [h \in Handlers |-> "idle"]
    /\ req = [h \in Handlers |-> None]
    /\ id = [h \in Handlers |-> None]
    /\ list = [h \in Handlers |-> <<>>]
    /\ me = [h \in Handlers |-> Nobody]
    /\ answer = [h \in Handlers |-> "none"]

-----------------------------------------------------------------------------
Registered == {i \in UserIds : users[i] # None}
Named(n) == {i \in Registered : users[i].name = n}

Working(h) == pc[h] # "idle"
At(h, p) == mode = "up" /\ pc[h] = p
Goto(h, p) == pc' = [pc EXCEPT ![h] = p]

FirstPc(r) ==
    CASE r.op = "register" -> "exists"
      [] r.op = "login" -> "find"
      [] r.op = "auth" -> "compare"
      [] r.op = "check" -> "look"
      [] r.op = "edit" -> "rename"

(* An edit needs credentials; what brings them is refused to who has them.
   An auth presents a session id that was drawn.                            *)
Sensible(h, r) ==
    /\ r.op = "edit" => me[h] # Nobody /\ (r.name # None => plan.renames)
    /\ r.op \in {"register", "login", "auth"} => me[h] = Nobody
    /\ r.op = "auth" => r.session \in DOMAIN owner

(* The ids are bounded: clients ask only while there are some to draw.      *)
Busy(ops) == Cardinality({h \in Handlers : Working(h) /\ req[h].op \in ops})

Spare(op) ==
    /\ op \in {"register", "login"} => Len(owner) + Busy({"register", "login"}) < MaxSession
    /\ op = "register" => Cardinality(Registered) + Busy({"register"}) < Cardinality(UserIds)

Ask(h) ==
    /\ At(h, "idle")
    /\ \E r \in Requests :
        /\ r.op \in plan.asks[h] /\ Sensible(h, r) /\ Spare(r.op)
        /\ \A g \in Handlers \ {h} : Working(g) => {r.op, req[g].op} \notin plan.apart
        /\ req' = [req EXCEPT ![h] = r]
        /\ Goto(h, FirstPc(r))
    /\ answer' = [answer EXCEPT ![h] = "none"]
    /\ UNCHANGED <<mode, plan, users, owner, locals, me>>

Finish(h, a, creds) ==
    /\ Goto(h, "idle")
    /\ req' = [req EXCEPT ![h] = None]
    /\ id' = [id EXCEPT ![h] = None]
    /\ list' = [list EXCEPT ![h] = <<>>]
    /\ me' = [me EXCEPT ![h] = creds]
    /\ answer' = [answer EXCEPT ![h] = a]
    /\ UNCHANGED <<mode, plan>>

(* A query fails: every caller answers the error, and what was written before
   stays, an account without a session among it.  A write that fails is not
   made.  A name is looked at before the first query of a registration.     *)
QueryFails(h) ==
    /\ plan.failing /\ mode = "up" /\ Working(h)
    /\ pc[h] = "exists" => Shape[req[h].name] = "valid"
    /\ Finish(h, "error", me[h])
    /\ UNCHANGED <<users, owner>>

-----------------------------------------------------------------------------
(* register: the name is checked, the password hashed, the row inserted.    *)

(* validate_username slices off the first byte before it looks at it.       *)
RegisterPanics(h) ==
    /\ At(h, "exists")
    /\ Shape[req[h].name] = "unsliceable"
    /\ mode' = "panicked"
    /\ UNCHANGED <<plan, users, owner, pc, req, locals, me, answer>>

RegisterFails(h) ==
    /\ At(h, "exists")
    /\ Shape[req[h].name] = "invalid" \/ (Shape[req[h].name] = "valid" /\ Named(req[h].name) # {})
    /\ Finish(h, "error", me[h])
    /\ UNCHANGED <<users, owner>>

NameIsFree_Slip(h) ==
    /\ At(h, "exists")
    /\ Shape[req[h].name] = "valid"
    /\ Goto(h, "insert")
    /\ UNCHANGED <<mode, plan, users, owner, req, locals, me, answer>>

NameIsFree(h) ==
    /\ At(h, "exists")
    /\ Shape[req[h].name] = "valid" /\ Named(req[h].name) = {}
    /\ Goto(h, "insert")
    /\ UNCHANGED <<mode, plan, users, owner, req, locals, me, answer>>

Insert(h) ==
    /\ At(h, "insert")
    /\ \E i \in UserIds \ Registered :
        /\ users' = [users EXCEPT ![i] =
               [name |-> req[h].name, password |-> req[h].password, sessions |-> <<>>]]
        /\ id' = [id EXCEPT ![h] = i]
    /\ Goto(h, "read")
    /\ UNCHANGED <<mode, plan, owner, req, list, me, answer>>

-----------------------------------------------------------------------------
(* login takes the first row the index of usernames has for the name.       *)

LoginFails(h) ==
    /\ At(h, "find")
    /\ \/ Named(req[h].name) = {}
       \/ \E i \in Named(req[h].name) : users[i].password # req[h].password
    /\ Finish(h, "error", me[h])
    /\ UNCHANGED <<users, owner>>

PasswordMatches(h) ==
    /\ At(h, "find")
    /\ \E i \in Named(req[h].name) :
        users[i].password = req[h].password /\ id' = [id EXCEPT ![h] = i]
    /\ Goto(h, "read")
    /\ UNCHANGED <<mode, plan, users, owner, req, list, me, answer>>

(* create_session of a registration or a login: the list is read, and written
   back with the new id, without its first one when it is full.             *)
ReadSessions(h) ==
    /\ At(h, "read")
    /\ list' = [list EXCEPT ![h] = users[id[h]].sessions]
    /\ Goto(h, "store")
    /\ UNCHANGED <<mode, plan, users, owner, req, id, me, answer>>

WithSession_Slip(l, s) == Append(l, s)
WithSession(l, s) == Append(IF Len(l) = MAX_SESSIONS THEN Tail(l) ELSE l, s)

StoreSessions(h) ==
    /\ At(h, "store")
    /\ owner' = Append(owner, id[h])
    /\ users' = [users EXCEPT ![id[h]] = [@ EXCEPT !.sessions = WithSession(list[h], Len(owner'))]]
    /\ Finish(h, "ok", [user |-> id[h], session |-> Len(owner')])

-----------------------------------------------------------------------------
(* auth takes any session id while the list is empty.                       *)

Accepts_Slip(i, s) == users[i] # None
Accepts(i, s) ==
    users[i] # None /\ (users[i].sessions = <<>> \/ \E k \in DOMAIN users[i].sessions : users[i].sessions[k] = s)

Compare(h) ==
    /\ At(h, "compare")
    /\ LET i == req[h].user
           s == req[h].session
       IN  \/ Accepts(i, s) /\ Finish(h, "ok", [user |-> i, session |-> s])
           \/ ~Accepts(i, s) /\ Finish(h, "error", me[h])
    /\ UNCHANGED <<users, owner>>

Look(h) ==
    /\ At(h, "look")
    /\ Finish(h, IF Named(req[h].name) # {} THEN "ok" ELSE "error", me[h])
    /\ UNCHANGED <<users, owner>>

(* edit_self: the username, which nothing checks, then the password.  The
   sessions of the user stay as they are.                                   *)
Rename(h) ==
    /\ At(h, "rename")
    /\ users' = IF req[h].name = None THEN users
                ELSE [users EXCEPT ![me[h].user] = [@ EXCEPT !.name = req[h].name]]
    /\ Goto(h, "repass")
    /\ UNCHANGED <<mode, plan, owner, req, locals, me, answer>>

Repass(h) ==
    /\ At(h, "repass")
    /\ users' = IF req[h].password = None THEN users
                ELSE [users EXCEPT ![me[h].user] = [@ EXCEPT !.password = req[h].password]]
    /\ Finish(h, "ok", me[h])
    /\ UNCHANGED owner

-----------------------------------------------------------------------------
(* A client leaves and another takes its connection.                        *)
Reconnect(h) ==
    /\ At(h, "idle") /\ me[h] # Nobody
    /\ me' = [me EXCEPT ![h] = Nobody]
    /\ answer' = [answer EXCEPT ![h] = "none"]
    /\ UNCHANGED <<mode, plan, users, owner, pc, req, locals>>

(* The process ends, by a panic or otherwise, and is started again.         *)
Restart ==
    /\ mode = "panicked" \/ (plan.crashes /\ \E h \in Handlers : Working(h))
    /\ mode' = "up"
    /\ pc' = [h \in Handlers |-> "idle"]
    /\ req' = [h \in Handlers |-> None]
    /\ id' = [h \in Handlers |-> None]
    /\ list' = [h \in Handlers |-> <<>>]
    /\ me' = [h \in Handlers |-> Nobody]
    /\ answer' = [h \in Handlers |-> "none"]
    /\ UNCHANGED <<plan, users, owner>>

Next ==
    \/ \E h \in Handlers :
        \/ Ask(h) \/ RegisterPanics(h) \/ RegisterFails(h) \/ NameIsFree(h) \/ Insert(h)
        \/ LoginFails(h) \/ PasswordMatches(h) \/ ReadSessions(h) \/ StoreSessions(h)
        \/ Compare(h) \/ Look(h) \/ Rename(h) \/ Repass(h) \/ Reconnect(h)
        \/ QueryFails(h)
    \/ Restart

Spec == Init /\ [][Next]_vars

-----------------------------------------------------------------------------
(* What clients may rely on depends on what the others do at the same time. *)

Apart(a, b) == {a, b} \in plan.apart
NamesApart == Apart("register", "register") /\ ~plan.renames
SessionsApart == \A a, b \in {"register", "login"} : Apart(a, b)

(* The list of a user holds ids stored for that user, three at most and none
   twice; with one registration or login at a time they are its latest ones:
   an id is listed, or gave way to three later ones.  The list is tested for a
   length of exactly three: it must never be longer.  (All variables are typed,
   too.)                                                                    *)
Issued(i) == {s \in DOMAIN owner : owner[s] = i}
Listed(i) == {users[i].sessions[k] : k \in DOMAIN users[i].sessions}

SessionsAreLatest ==
    TypeOK /\ \A i \in Registered :
        /\ Len(users[i].sessions) <= MAX_SESSIONS
        /\ \A j, k \in DOMAIN users[i].sessions : users[i].sessions[j] = users[i].sessions[k] => j = k
        /\ Listed(i) \subseteq Issued(i)
        /\ SessionsApart => \A s \in Issued(i) :
               \/ s \in Listed(i)
               \/ Len(users[i].sessions) = MAX_SESSIONS /\ \A t \in Listed(i) : s < t

(* Two accounts never have the same username, and each name is one that
   validate_username allows, as long as registrations do not overlap and
   nobody is renamed.                                                       *)
NamesIdentify ==
    NamesApart => \A i \in Registered : Shape[users[i].name] = "valid" /\ Named(users[i].name) = {i}

(* docs/basics.md:64, "User with the given credentials already exists!": what a
   registration is told when its username is taken, so that two accounts never
   share one.                                                               *)
TakenIsRefused == \A i, j \in Registered : users[i].name = users[j].name => i = j

(* docs/basics.md:59, "If request wasn't successfully processed, you get
   `ok: false`": no request ends the process instead.                       *)
AnswersInstead == mode = "up"

(* Whoever gets into an account does so with a session id of that account, or
   the account never had one: auth takes any id while the list is empty, which
   it is until the first create_session, for good if that one fails or never
   comes.  An account that had a session once is never open to any id again,
   whatever overlaps, fails or ends in between.                             *)
Enters(h, i) == me'[h] # me[h] /\ me'[h].user = i

CredentialsAreIssued ==
    [][\A h \in Handlers, i \in UserIds : Enters(h, i) =>
        me'[h].session \in Issued(i)' \/ Issued(i)' = {}]_vars
=============================================================================
