------------------------------ MODULE Sessions ------------------------------
(***************************************************************************)
(* The session layer of the JSON server: the handler of every connection,  *)
(* the Session objects, the registry `Sessions` (a DashMap from user to    *)
(* session), the detached tasks that deliver events, and the cleanup task  *)
(* that a dropped handler spawns.                                          *)
(*                                                                         *)
(* A step is what the code does between two awaits (or between two points  *)
(* where it may block).  Locks are not variables: who holds a session's    *)
(* RwLock, or a reference into a shard of the DashMap, follows from where  *)
(* every handler and every task stands (WriteHeld, ReadHeld, RefHeld).     *)
(*                                                                         *)
(* A connection, its handler and the Session object made for it at accept  *)
(* time are named by the same element of Conns: sess[c] is the Session the *)
(* handler of c currently uses, initially its own.                         *)
(***************************************************************************)
EXTENDS Naturals, Sequences, SequencesExt

CONSTANTS
    Conns,     \* TCP connections of the JSON port
    Users,     \* user ids
    Events,    \* one identity per detached event task: bounds how many run
    Shards,    \* shards of the DashMap
    ShardOf,   \* the shard of a user id
    LoginAs,   \* pairs <<c, u>>: the client of c has credentials of u
    BindAs,    \* pairs <<c, u>>: the client of c may ask to bind to u
    Closers,   \* connections that may end
    Targets,   \* recipient lists that a request can notify
    QueueCap,  \* capacity of a connection's event queue (10 in the code)
    None

ASSUME SessionsAssumption ==
    /\ ShardOf \in [Users -> Shards]
    /\ LoginAs \subseteq Conns \X Users
    /\ BindAs \subseteq Conns \X Users
    /\ Closers \subseteq Conns
    /\ Targets \subseteq Seq(Users)
    /\ QueueCap \in Nat \ {0}
    /\ None \notin Users \cup Conns

VARIABLES
    pc,        \* where the handler of a connection (later: its cleanup) stands
    sess,      \* JsonHandler.session
    want,      \* the user whose registry entry the handler holds a Ref to
    auth,      \* Session.user_id and session_id, set together
    conns,     \* Session.connections
    registry,  \* Sessions: DashMap<user id, session>
    task,      \* state of a detached event task
    todo,      \* recipients the task still has to serve
    queue      \* the mpsc channel between mpsc_send and the receiver task

vars == <<pc, sess, want, auth, conns, registry, task, todo, queue>>

handlerVars == <<sess, want, auth, conns, registry>>
taskVars    == <<task, todo>>

-----------------------------------------------------------------------------
(* Handler locations.                                                      *)

AuthPcs    == {"auth_check", "auth_wait", "auth_db", "auth_reread",
               "auth_insert", "auth_reply"}
RequestPcs == {"req_check", "req_creds", "work", "fetching"}
BindPcs    == {"bind_wait", "bind_own", "bind_refuse", "bind_reply"}
BusyPcs    == AuthPcs \cup RequestPcs \cup BindPcs \cup {"refuse", "reply"}
GonePcs    == {"unregister", "gone"}
Pcs        == {"off", "idle", "closing"} \cup BusyPcs \cup GonePcs

TaskStates == {"unborn", "get", "lock", "push", "done", "panicked"}
Message    == [event : Events, to : Users]

Live(c) == pc[c] \notin {"off"} \cup GonePcs

(* What a Ref points to: the entry cannot change while the Ref is held.    *)
Target(c) == registry[want[c]]
Dest(e)   == registry[Head(todo[e])]

(***************************************************************************)
(* A definition whose name ends in _Slip is not part of the specification: *)
(* it is the next definition with a plausible mistake, for which a property *)
(* named in its comment must fail.                                         *)
(***************************************************************************)

(* RequestsAnswered: the login's write guard outlives the block it is in.  *)
WriteHeld_LoginSlip(s) ==
    \/ \E c \in Conns : /\ pc[c] \in {"auth_db", "auth_reread", "unregister"}
                        /\ sess[c] = s
    \/ \E c \in Conns : /\ pc[c] \in {"bind_own", "bind_refuse"}
                        /\ Target(c) = s
    \/ \E e \in Events : task[e] = "push" /\ Dest(e) = s

(* PanicsOnlyWhenLeft: the cleanup drops its guard before the removal.     *)
WriteHeld_CleanupSlip(s) ==
    \/ \E c \in Conns : pc[c] = "auth_db" /\ sess[c] = s
    \/ \E c \in Conns : /\ pc[c] \in {"bind_own", "bind_refuse"}
                        /\ Target(c) = s
    \/ \E e \in Events : task[e] = "push" /\ Dest(e) = s

(* Guards of Session's RwLock that are alive, by where their owners stand. *)
WriteHeld(s) ==
    \/ \E c \in Conns : /\ pc[c] \in {"auth_db", "unregister"}
                        /\ sess[c] = s
    \/ \E c \in Conns : /\ pc[c] \in {"bind_own", "bind_refuse"}
                        /\ Target(c) = s
    \/ \E e \in Events : task[e] = "push" /\ Dest(e) = s

ReadHeld(s) ==
    \E c \in Conns : /\ pc[c] \in {"refuse", "auth_insert", "auth_reply", "fetching"}
                     /\ sess[c] = s

CanRead(s)  == ~WriteHeld(s)
CanWrite(s) == ~WriteHeld(s) /\ ~ReadHeld(s)

(* CleanupsFinish: the cleanup looks the entry up and removes it while its *)
(* own Ref is alive.                                                       *)
RefHeld_Slip(k) ==
    \/ \E c \in Conns  : pc[c] \in BindPcs /\ ShardOf[want[c]] = k
    \/ \E c \in Conns  : pc[c] = "unregister" /\ ShardOf[auth[sess[c]]] = k
    \/ \E e \in Events : task[e] \in {"lock", "push"} /\ ShardOf[Head(todo[e])] = k

(* A Ref into shard k is alive: insert and remove on that shard block.     *)
RefHeld(k) ==
    \/ \E c \in Conns  : pc[c] \in BindPcs /\ ShardOf[want[c]] = k
    \/ \E e \in Events : task[e] \in {"lock", "push"} /\ ShardOf[Head(todo[e])] = k

(* All handlers are futures of one task; one that blocks the thread inside *)
(* DashMap::insert keeps every other handler from being polled.            *)
MainFree == \A c \in Conns : pc[c] # "auth_insert"

(* Vec::retain by pointer inequality; a list holds a connection at most    *)
(* once (ListedExactlyHome), so it removes one position.                   *)
Detach(list, c) ==
    IF Contains(list, c)
    THEN RemoveAt(list, CHOOSE i \in DOMAIN list : list[i] = c)
    ELSE list

-----------------------------------------------------------------------------
Init ==
    /\ pc = [c \in Conns |-> "off"]
    /\ sess = [c \in Conns |-> c]
    /\ want = [c \in Conns |-> None]
    /\ auth = [s \in Conns |-> None]
    /\ conns = [s \in Conns |-> <<>>]
    /\ registry = [u \in Users |-> None]
    /\ task = [e \in Events |-> "unborn"]
    /\ todo = [e \in Events |-> <<>>]
    /\ queue = [c \in Conns |-> <<>>]

(* The handler of c moves; every other handler stays where it is.          *)
Goto(c, from, to) ==
    /\ MainFree
    /\ pc[c] = from
    /\ pc' = [pc EXCEPT ![c] = to]

(* accept: Session::new and JsonHandler::new.                              *)
Accept(c) ==
    /\ Goto(c, "off", "idle")
    /\ conns' = [conns EXCEPT ![c] = <<c>>]
    /\ UNCHANGED <<sess, want, auth, registry, taskVars, queue>>

(* The read loop hands a complete message to the method it names.          *)
AuthRequest(c) ==
    /\ \E u \in Users : <<c, u>> \in LoginAs
    /\ Goto(c, "idle", "auth_check")
    /\ UNCHANGED <<handlerVars, taskVars, queue>>

(* check, unknown methods and messages that do not parse need no login.    *)
OtherRequest(c) ==
    /\ Goto(c, "idle", "req_check") \/ Goto(c, "idle", "reply")
    /\ UNCHANGED <<handlerVars, taskVars, queue>>

-----------------------------------------------------------------------------
(* login, auth, register                                                   *)

(* CheckStillHolds, SessionKeepsUser, RegistryAuthenticated: a second      *)
(* login on an authenticated session is let through.                       *)
AuthCheck_Slip(c) ==
    /\ CanRead(sess[c])
    /\ Goto(c, "auth_check", "auth_wait")
    /\ UNCHANGED <<handlerVars, taskVars, queue>>

(* Under a read guard: refuse when already authenticated (the guard lives  *)
(* until the error is written), else drop the guard and go on.             *)
AuthCheck(c) ==
    /\ pc[c] = "auth_check"
    /\ CanRead(sess[c])
    /\ \/ auth[sess[c]] # None /\ Goto(c, "auth_check", "refuse")
       \/ auth[sess[c]] = None /\ Goto(c, "auth_check", "auth_wait")
    /\ UNCHANGED <<handlerVars, taskVars, queue>>

(* The write guard is taken, and held while the database answers.          *)
AuthLock(c) ==
    /\ Goto(c, "auth_wait", "auth_db")
    /\ CanWrite(sess[c])
    /\ UNCHANGED <<handlerVars, taskVars, queue>>

AuthSucceeds(c) ==
    /\ Goto(c, "auth_db", "auth_reread")
    /\ \E u \in Users : /\ <<c, u>> \in LoginAs
                        /\ auth' = [auth EXCEPT ![sess[c]] = u]
    /\ UNCHANGED <<sess, want, conns, registry, taskVars, queue>>

AuthFails(c) ==
    /\ Goto(c, "auth_db", "reply")
    /\ UNCHANGED <<handlerVars, taskVars, queue>>

(* The read guard of the `if let` lives until the response is written; no  *)
(* await separates it from the insert.                                     *)
AuthReread(c) ==
    /\ Goto(c, "auth_reread", "auth_insert")
    /\ CanRead(sess[c])
    /\ UNCHANGED <<handlerVars, taskVars, queue>>

(* DashMap::insert blocks the thread while a Ref into the shard is alive.  *)
AuthInsert(c) ==
    LET u == auth[sess[c]] IN
    /\ pc[c] = "auth_insert"
    /\ ~RefHeld(ShardOf[u])
    /\ pc' = [pc EXCEPT ![c] = "auth_reply"]
    /\ registry' = [registry EXCEPT ![u] = sess[c]]
    /\ UNCHANGED <<sess, want, auth, conns, taskVars, queue>>

AuthReply(c) ==
    /\ Goto(c, "auth_reply", "idle")
    /\ UNCHANGED <<handlerVars, taskVars, queue>>

-----------------------------------------------------------------------------
(* bind                                                                    *)

(* sessions.get(user_id): the Ref stays alive until the response is sent.  *)
BindRequest(c) ==
    /\ \E u \in Users :
         /\ <<c, u>> \in BindAs
         /\ \/ /\ registry[u] = None
               /\ Goto(c, "idle", "reply")
               /\ UNCHANGED want
            \/ /\ registry[u] # None
               /\ Goto(c, "idle", "bind_wait")
               /\ want' = [want EXCEPT ![c] = u]
    /\ UNCHANGED <<sess, auth, conns, registry, taskVars, queue>>

(* With the target's write guard the session ids are compared; they differ *)
(* or agree, as the client chose.  Without a session id, unwrap panics.    *)
BindLock(c) ==
    /\ pc[c] = "bind_wait"
    /\ CanWrite(Target(c))
    /\ auth[Target(c)] # None
    /\ \/ Goto(c, "bind_wait", "bind_own")
       \/ Goto(c, "bind_wait", "bind_refuse")
    /\ UNCHANGED <<handlerVars, taskVars, queue>>

(* ListedExactlyHome, EventReachesRecipient: the old list is not updated.  *)
BindMove_ListSlip(c) ==
    /\ Goto(c, "bind_own", "bind_reply")
    /\ CanWrite(sess[c])
    /\ conns' = [conns EXCEPT ![Target(c)] = Append(@, c)]
    /\ sess' = [sess EXCEPT ![c] = Target(c)]
    /\ UNCHANGED <<want, auth, registry, taskVars, queue>>

BindMove(c) ==
    LET own == sess[c] IN
    /\ Goto(c, "bind_own", "bind_reply")
    /\ CanWrite(own)
    /\ conns' = [conns EXCEPT ![own] = Detach(@, c), ![Target(c)] = Append(@, c)]
    /\ sess' = [sess EXCEPT ![c] = Target(c)]
    /\ UNCHANGED <<want, auth, registry, taskVars, queue>>

BindReply(c) ==
    /\ \/ Goto(c, "bind_reply", "idle")
       \/ Goto(c, "bind_refuse", "idle")
    /\ want' = [want EXCEPT ![c] = None]
    /\ UNCHANGED <<sess, auth, conns, registry, taskVars, queue>>

-----------------------------------------------------------------------------
(* Every other method                                                      *)

(* require_auth!                                                           *)
RequestCheck(c) ==
    /\ pc[c] = "req_check"
    /\ CanRead(sess[c])
    /\ \/ auth[sess[c]] = None /\ Goto(c, "req_check", "refuse")
       \/ auth[sess[c]] # None /\ Goto(c, "req_check", "req_creds")
    /\ UNCHANGED <<handlerVars, taskVars, queue>>

(* get_credentials_unchecked under a second read guard.  fetch_messages    *)
(* keeps that guard over its database query, the other methods drop it.    *)
RequestCreds(c) ==
    /\ pc[c] = "req_creds"
    /\ CanRead(sess[c])
    /\ auth[sess[c]] # None
    /\ \/ Goto(c, "req_creds", "work")
       \/ Goto(c, "req_creds", "fetching")
    /\ UNCHANGED <<handlerVars, taskVars, queue>>

FetchDone(c) ==
    /\ Goto(c, "fetching", "reply")
    /\ UNCHANGED <<handlerVars, taskVars, queue>>

(* The database work ends, with an answer or an error...                   *)
WorkDone(c) ==
    /\ Goto(c, "work", "reply")
    /\ UNCHANGED <<handlerVars, taskVars, queue>>

(* ... or tasks are spawned on the way, each to notify other users.        *)
WorkNotify(c) ==
    /\ Goto(c, "work", "work")
    /\ \E e \in Events, us \in Targets :
         /\ task[e] = "unborn"
         /\ auth[sess[c]] \notin ToSet(us)
         /\ task' = [task EXCEPT ![e] = "get"]
         /\ todo' = [todo EXCEPT ![e] = us]
    /\ UNCHANGED <<handlerVars, queue>>

(* An error sent while the read guard is alive, and a plain response.      *)
Reply(c) ==
    /\ \/ Goto(c, "refuse", "idle")
       \/ Goto(c, "reply", "idle")
    /\ UNCHANGED <<handlerVars, taskVars, queue>>

-----------------------------------------------------------------------------
(* The end of a connection: the handler is dropped, its cleanup is spawned *)

Close(c) ==
    /\ c \in Closers
    /\ Goto(c, "idle", "closing")
    /\ UNCHANGED <<handlerVars, taskVars, queue>>

(* SharersStayRegistered: the entry goes with any connection.              *)
CleanupDetach_FirstSlip(c) ==
    LET s == sess[c] IN
    /\ pc[c] = "closing"
    /\ CanWrite(s)
    /\ conns' = [conns EXCEPT ![s] = Detach(@, c)]
    /\ pc' = [pc EXCEPT ![c] = IF auth[s] # None THEN "unregister" ELSE "gone"]
    /\ UNCHANGED <<sess, want, auth, registry, taskVars, queue>>

(* EntryIsServed: the entry stays.                                         *)
CleanupDetach_KeepSlip(c) ==
    /\ pc[c] = "closing"
    /\ CanWrite(sess[c])
    /\ conns' = [conns EXCEPT ![sess[c]] = Detach(@, c)]
    /\ pc' = [pc EXCEPT ![c] = "gone"]
    /\ UNCHANGED <<sess, want, auth, registry, taskVars, queue>>

(* The write guard is taken and the connection leaves the list; if it was  *)
(* the last of an authenticated session the entry is removed next, still   *)
(* under the guard.                                                        *)
CleanupDetach(c) ==
    LET s == sess[c] IN
    /\ pc[c] = "closing"
    /\ CanWrite(s)
    /\ conns' = [conns EXCEPT ![s] = Detach(@, c)]
    /\ pc' = [pc EXCEPT ![c] = IF auth[s] # None /\ conns'[s] = <<>>
                               THEN "unregister" ELSE "gone"]
    /\ UNCHANGED <<sess, want, auth, registry, taskVars, queue>>

CleanupRemove(c) ==
    LET u == auth[sess[c]] IN
    /\ pc[c] = "unregister"
    /\ ~RefHeld(ShardOf[u])
    /\ registry' = [registry EXCEPT ![u] = None]
    /\ pc' = [pc EXCEPT ![c] = "gone"]
    /\ UNCHANGED <<sess, want, auth, conns, taskVars, queue>>

-----------------------------------------------------------------------------
(* Detached event tasks and the receiver task of a connection              *)

(* EventsSettled: the first recipient who is not registered ends the task. *)
EventGet_Slip(e) ==
    /\ task[e] = "get"
    /\ task' = [task EXCEPT ![e] =
                  IF todo[e] # <<>> /\ Dest(e) # None THEN "lock" ELSE "done"]
    /\ UNCHANGED <<pc, handlerVars, todo, queue>>

(* sessions.get(recipient): nobody registered is skipped.                  *)
EventGet(e) ==
    /\ task[e] = "get"
    /\ \/ /\ todo[e] = <<>>
          /\ task' = [task EXCEPT ![e] = "done"]
          /\ UNCHANGED todo
       \/ /\ todo[e] # <<>> /\ Dest(e) = None
          /\ todo' = [todo EXCEPT ![e] = Tail(@)]
          /\ UNCHANGED task
       \/ /\ todo[e] # <<>> /\ Dest(e) # None
          /\ task' = [task EXCEPT ![e] = "lock"]
          /\ UNCHANGED todo
    /\ UNCHANGED <<pc, handlerVars, queue>>

(* The write guard, then connections[0]: a session without connections     *)
(* makes the task panic, and with it the recipients that were left.        *)
EventLock(e) ==
    /\ task[e] = "lock"
    /\ CanWrite(Dest(e))
    /\ \/ /\ conns[Dest(e)] # <<>>
          /\ task' = [task EXCEPT ![e] = "push"]
          /\ UNCHANGED todo
       \/ /\ conns[Dest(e)] = <<>>
          /\ task' = [task EXCEPT ![e] = "panicked"]
          /\ todo' = [todo EXCEPT ![e] = <<>>]
    /\ UNCHANGED <<pc, handlerVars, queue>>

(* TypeOK: the channel is an unbounded one.                                *)
EventPush_UnboundedSlip(e) ==
    LET c == Head(conns[Dest(e)]) IN
    /\ task[e] = "push"
    /\ queue' = [queue EXCEPT ![c] = Append(@, [event |-> e, to |-> Head(todo[e])])]
    /\ task' = [task EXCEPT ![e] = "get"]
    /\ todo' = [todo EXCEPT ![e] = Tail(@)]
    /\ UNCHANGED <<pc, handlerVars>>

(* BusPromise: the recipient is served again.                              *)
EventPush_Slip(e) ==
    LET c == Head(conns[Dest(e)]) IN
    /\ task[e] = "push"
    /\ Len(queue[c]) < QueueCap
    /\ queue' = [queue EXCEPT ![c] = Append(@, [event |-> e, to |-> Head(todo[e])])]
    /\ task' = [task EXCEPT ![e] = "get"]
    /\ UNCHANGED <<pc, handlerVars, todo>>

(* mpsc_send waits, guards in hand, until the channel has room.            *)
EventPush(e) ==
    LET c == Head(conns[Dest(e)]) IN
    /\ task[e] = "push"
    /\ Len(queue[c]) < QueueCap
    /\ queue' = [queue EXCEPT ![c] = Append(@, [event |-> e, to |-> Head(todo[e])])]
    /\ task' = [task EXCEPT ![e] = "get"]
    /\ todo' = [todo EXCEPT ![e] = Tail(@)]
    /\ UNCHANGED <<pc, handlerVars>>

(* The receiver task writes one event to the socket.                       *)
Drain(c) ==
    /\ queue[c] # <<>>
    /\ queue' = [queue EXCEPT ![c] = Tail(@)]
    /\ UNCHANGED <<pc, handlerVars, taskVars>>

-----------------------------------------------------------------------------
(* What the client decides, and what the handler then does by itself.      *)
ClientStep(c) ==
    Accept(c) \/ AuthRequest(c) \/ OtherRequest(c) \/ BindRequest(c) \/ Close(c)

HandlerStep(c) ==
    \/ AuthCheck(c) \/ AuthLock(c) \/ AuthSucceeds(c) \/ AuthFails(c)
    \/ AuthReread(c) \/ AuthInsert(c) \/ AuthReply(c)
    \/ BindLock(c) \/ BindMove(c) \/ BindReply(c)
    \/ RequestCheck(c) \/ RequestCreds(c) \/ FetchDone(c)
    \/ WorkDone(c) \/ WorkNotify(c) \/ Reply(c)

CleanupStep(c) == CleanupDetach(c) \/ CleanupRemove(c)
EventStep(e)   == EventGet(e) \/ EventLock(e) \/ EventPush(e)

Next ==
    \/ \E c \in Conns  : ClientStep(c) \/ HandlerStep(c) \/ CleanupStep(c) \/ Drain(c)
    \/ \E e \in Events : EventStep(e)

Spec == Init /\ [][Next]_vars

(***************************************************************************)
(* tokio's RwLock is a FIFO semaphore, so a waiter that could be served    *)
(* again and again is served: strong fairness.  The database answers, the  *)
(* clients read their sockets.  Nothing obliges a client to act.           *)
(***************************************************************************)
Fairness ==
    /\ \A c \in Conns  : SF_vars(HandlerStep(c)) /\ SF_vars(CleanupStep(c)) /\ WF_vars(Drain(c))
    /\ \A e \in Events : SF_vars(EventStep(e))

FairSpec == Spec /\ Fairness
-----------------------------------------------------------------------------
(* Properties                                                              *)

(* Every variable has its type, and no event queue outgrows its capacity.  *)
TypeOK ==
    /\ pc \in [Conns -> Pcs]
    /\ sess \in [Conns -> Conns]
    /\ want \in [Conns -> Users \cup {None}]
    /\ auth \in [Conns -> Users \cup {None}]
    /\ conns \in [Conns -> Seq(Conns)]
    /\ registry \in [Users -> Conns \cup {None}]
    /\ task \in [Events -> TaskStates]
    /\ todo \in [Events -> Seq(Users)]
    /\ queue \in [Conns -> Seq(Message)]
    /\ \A c \in Conns : Len(queue[c]) <= QueueCap

(* The session registered for a user is authenticated as that user, however *)
(* logins, binds and cleanups interleave: bind's session_id().unwrap() does *)
(* not panic on the thread that serves everybody.                          *)
RegistryAuthenticated ==
    \A u \in Users : registry[u] # None => auth[registry[u]] = u

(* Between its own steps a handler relies on what it checked earlier,      *)
(* though the guard of the check is gone: get_credentials_unchecked finds  *)
(* credentials after require_auth!, and a login that was let through still *)
(* finds the session unauthenticated when it holds the write guard.        *)
CheckStillHolds ==
    \A c \in Conns :
        /\ pc[c] \in {"auth_wait", "auth_db"} => auth[sess[c]] = None
        /\ pc[c] \in {"auth_reread", "auth_insert", "auth_reply", "req_creds", "work", "fetching"}
              => auth[sess[c]] # None

(* A connection is listed in the session its handler uses, once, and in no *)
(* other; after its cleanup it is listed nowhere.  Moves by bind and       *)
(* removals by cleanups of other connections run in between.               *)
ListedExactlyHome ==
    \A s \in Conns :
        /\ ToSet(conns[s]) = {c \in Conns : sess[c] = s /\ Live(c)}
        /\ IsInjective(conns[s])

(* docs/basics.md:71: all the authenticated sessions are in the HashMap.    *)
(* They are not: a second login of a user replaces the entry of the first, *)
(* and either cleanup removes whatever is there.                           *)
ConnectedIsRegistered ==
    \A c \in Conns :
        Live(c) /\ auth[sess[c]] # None
            => \/ registry[auth[sess[c]]] # None
               \/ \E d \in Conns : pc[d] \in {"auth_reread", "auth_insert"} /\ sess[d] = sess[c]

(* json_handler.rs:273: a user who is not connected is skipped.  Instead    *)
(* the task panics on connections[0] of a session that was bound away from. *)
EventTaskNeverPanics == \A e \in Events : task[e] # "panicked"

OneSession(u) == \A s, t \in Conns : auth[s] = u /\ auth[t] = u => s = t

(* A user who is logged in on one session only has a registry entry as     *)
(* long as a connection of that session is live (from the end of its       *)
(* insert on), so that events find it: whatever the others do, and while   *)
(* binds and cleanups of its own connections run.                          *)
SharersStayRegistered ==
    \A c \in Conns :
        (Live(c) /\ auth[sess[c]] # None /\ OneSession(auth[sess[c]]))
            => \/ registry[auth[sess[c]]] # None
               \/ \E d \in Conns : pc[d] \in {"auth_reread", "auth_insert"} /\ sess[d] = sess[c]

(* The connection a session was made for is bound to another one now.      *)
Left(s) == sess[s] # s

(* An entry never outlives the connections of its session, except while    *)
(* the cleanup that emptied the list is about to remove it, or after the   *)
(* connection that logged in was bound elsewhere.  (Where a connection     *)
(* binds to one user only: the last guest may leave such a list, too.)     *)
EntryIsServed ==
    \A u \in Users :
        registry[u] # None =>
            \/ conns[registry[u]] # <<>>
            \/ \E c \in Conns : pc[c] = "unregister" /\ sess[c] = registry[u]
            \/ Left(registry[u])

(* Whatever logins, cleanups and binds run between its lookup and its push, *)
(* an event task panics on connections[0] only at a session that the       *)
(* connection it was made for was bound away from (as in EntryIsServed).   *)
PanicsOnlyWhenLeft ==
    [][\A e \in Events :
         task[e] # "panicked" /\ task'[e] = "panicked" => Left(Dest(e))]_vars

(* The user a session belongs to never changes once it is set.             *)
SessionKeepsUser ==
    [][\A s \in Conns : auth[s] # None => auth'[s] = auth[s]]_vars

(* An event enters the queue of a live connection only when that           *)
(* connection's handler uses the session registered for, and authenticated *)
(* as, the recipient - at that moment, whatever moved since the lookup.    *)
EventReachesRecipient ==
    [][\A c \in Conns :
         Len(queue'[c]) > Len(queue[c]) =>
            LET u == queue'[c][Len(queue'[c])].to IN
            Live(c) /\ auth[sess[c]] = u /\ registry[u] = sess[c]]_vars

(* The layer keeps the promise of EventBus: a connection is owned by the   *)
(* user its handler's session is authenticated as.                         *)
OwnerOf(c) == IF Live(c) THEN auth[sess[c]] ELSE None

Bus == INSTANCE EventBus WITH
          owner   <- [c \in Conns |-> OwnerOf(c)],
          posted  <- {e \in Events : task[e] # "unborn"},
          pending <- todo

BusPromise == Bus!BusSpec

(* Every request is answered: the handler gets back to its read loop.      *)
RequestsAnswered == \A c \in Conns : pc[c] \in BusyPcs ~> pc[c] = "idle"

(* Every event task serves or skips all its recipients.                    *)
EventsSettled == \A e \in Events : task[e] = "get" ~> task[e] = "done" /\ todo[e] = <<>>

(* docs/basics.md:74, "If found, sends the event on receiver handler task": *)
(* a recipient who is found is sent the event.                             *)
FoundIsSent == \A e \in Events : task[e] = "lock" ~> task[e] = "get"

(* Every closed connection is cleaned up, also while event tasks hold the  *)
(* shard of its user.                                                      *)
CleanupsFinish == \A c \in Conns : pc[c] = "closing" ~> pc[c] = "gone"
=============================================================================
