---------------------------- MODULE ServerProofs ----------------------------
(***************************************************************************)
(* Proofs about what the connections of the server share: the session      *)
(* layer (Sessions), for any number of connections, users and events, and  *)
(* the pool of database connections (Pool), for any finite set of sockets, *)
(* any number of accept loops and any capacity.                            *)
(***************************************************************************)
EXTENDS Sessions, Pool, FiniteSetTheorems, SequenceTheorems, TLAPS

-----------------------------------------------------------------------------
(* Session.connections: what Detach and Append do to a list that holds     *)
(* nothing twice.                                                          *)

(* Removing position i shifts what follows it by one.                      *)
LEMMA RemoveAtProperties ==
    ASSUME NEW S, NEW l \in Seq(S), NEW i \in DOMAIN l
    PROVE  /\ RemoveAt(l, i) \in Seq(S)
           /\ Len(RemoveAt(l, i)) = Len(l) - 1
           /\ \A j \in 1..(Len(l) - 1) :
                RemoveAt(l, i)[j] = IF j < i THEN l[j] ELSE l[j + 1]
<1> DEFINE a == SubSeq(l, 1, i - 1)
           b == SubSeq(l, i + 1, Len(l))
<1>0. Len(l) \in Nat /\ i \in 1..Len(l)
  BY LenProperties
<1>1. /\ a \in Seq(S) /\ Len(a) = i - 1
      /\ \A j \in 1..(i - 1) : a[j] = l[j]
  <2>1. \A j \in 1..(i - 1) : l[j] \in S
    BY <1>0, ElementOfSeq
  <2>2. i - 1 \in Int /\ 1 \in Int
    BY <1>0
  <2>3. /\ a \in Seq(S)
        /\ Len(a) = IF 1 <= i - 1 THEN (i - 1) - 1 + 1 ELSE 0
        /\ \A j \in 1..((i - 1) - 1 + 1) : a[j] = l[1 + j - 1]
    BY <2>1, <2>2, SubSeqProperties
  <2> QED BY <1>0, <2>3
<1>2. /\ b \in Seq(S) /\ Len(b) = Len(l) - i
      /\ \A j \in 1..(Len(l) - i) : b[j] = l[i + j]
  <2>1. \A j \in (i + 1)..Len(l) : l[j] \in S
    BY <1>0, ElementOfSeq
  <2>2. i + 1 \in Int /\ Len(l) \in Int
    BY <1>0
  <2>3. /\ b \in Seq(S)
        /\ Len(b) = IF i + 1 <= Len(l) THEN Len(l) - (i + 1) + 1 ELSE 0
        /\ \A j \in 1..(Len(l) - (i + 1) + 1) : b[j] = l[(i + 1) + j - 1]
    BY <2>1, <2>2, SubSeqProperties
  <2> QED BY <1>0, <2>3
<1>3. RemoveAt(l, i) = a \o b
  BY DEF RemoveAt
<1> HIDE DEF a, b
<1>4. /\ a \o b \in Seq(S) /\ Len(a \o b) = Len(a) + Len(b)
      /\ \A j \in 1..(Len(a) + Len(b)) :
           (a \o b)[j] = IF j <= Len(a) THEN a[j] ELSE b[j - Len(a)]
  BY <1>1, <1>2, ConcatProperties
<1>5. Len(a) + Len(b) = Len(l) - 1 /\ Len(l) - 1 \in Nat
  BY <1>0, <1>1, <1>2
<1>6. \A j \in 1..(Len(l) - 1) :
        (a \o b)[j] = IF j <= i - 1 THEN a[j] ELSE b[j - (i - 1)]
  BY <1>1, <1>4, <1>5
<1>7. ASSUME NEW j \in 1..(Len(l) - 1)
      PROVE  (a \o b)[j] = IF j < i THEN l[j] ELSE l[j + 1]
  <2>1. CASE j < i
    <3>1. j <= i - 1 /\ j \in 1..(i - 1)
      BY <1>0, <2>1
    <3> QED BY <1>1, <1>6, <2>1, <3>1
  <2>2. CASE ~(j < i)
    <3>1. ~(j <= i - 1) /\ j - (i - 1) \in 1..(Len(l) - i)
      BY <1>0, <2>2
    <3>2. b[j - (i - 1)] = l[i + (j - (i - 1))]
      BY <1>2, <3>1
    <3>3. i + (j - (i - 1)) = j + 1
      BY <1>0
    <3> QED BY <1>6, <2>2, <3>1, <3>2, <3>3
  <2> QED BY <2>1, <2>2
<1>8. a \o b \in Seq(S) /\ Len(a \o b) = Len(l) - 1
  BY <1>4, <1>5
<1> QED BY <1>3, <1>7, <1>8

(* Detach takes exactly x out, and leaves the list free of repetitions.    *)
LEMMA DetachProperties ==
    ASSUME NEW S, NEW l \in Seq(S), NEW x, IsInjective(l)
    PROVE  /\ Detach(l, x) \in Seq(S)
           /\ ToSet(Detach(l, x)) = ToSet(l) \ {x}
           /\ IsInjective(Detach(l, x))
<1>0. Len(l) \in Nat /\ DOMAIN l = 1..Len(l)
  BY LenProperties
<1>1. CASE ~Contains(l, x)
  BY <1>0, <1>1 DEF Detach, Contains, ToSet
<1>2. CASE Contains(l, x)
  <2> DEFINE i == CHOOSE k \in DOMAIN l : l[k] = x
             d == RemoveAt(l, i)
  <2>1. i \in 1..Len(l) /\ l[i] = x
    BY <1>0, <1>2 DEF Contains
  <2> HIDE DEF i
  <2>2. /\ d \in Seq(S) /\ Len(d) = Len(l) - 1
        /\ \A j \in 1..(Len(l) - 1) : d[j] = IF j < i THEN l[j] ELSE l[j + 1]
    BY <1>0, <2>1, RemoveAtProperties
  <2> HIDE DEF d
  <2>3. DOMAIN d = 1..(Len(l) - 1)
    BY <2>2, LenProperties
  <2>4. ToSet(d) \subseteq ToSet(l) \ {x}
    <3> SUFFICES ASSUME NEW j \in 1..(Len(l) - 1)
                 PROVE  d[j] \in ToSet(l) \ {x}
      BY <2>3 DEF ToSet
    <3> DEFINE k == IF j < i THEN j ELSE j + 1
    <3>1. k \in 1..Len(l) /\ k # i /\ d[j] = l[k]
      BY <1>0, <2>1, <2>2
    <3> HIDE DEF k
    <3>2. l[k] # x
      BY <1>0, <2>1, <3>1 DEF IsInjective
    <3> QED BY <1>0, <3>1, <3>2 DEF ToSet
  <2>5. ToSet(l) \ {x} \subseteq ToSet(d)
    <3> SUFFICES ASSUME NEW j \in 1..Len(l), l[j] # x
                 PROVE  l[j] \in ToSet(d)
      BY <1>0 DEF ToSet
    <3>1. CASE j < i
      BY <1>0, <2>1, <2>2, <2>3, <3>1 DEF ToSet
    <3>2. CASE j > i
      <4>1. j - 1 \in 1..(Len(l) - 1) /\ d[j - 1] = l[j]
        BY <1>0, <2>1, <2>2, <3>2
      <4> QED BY <2>3, <4>1 DEF ToSet
    <3> QED BY <1>0, <2>1, <3>1, <3>2
  <2>6. IsInjective(d)
    <3> DEFINE Old(m) == IF m < i THEN m ELSE m + 1
    <3>1. ASSUME NEW m \in 1..(Len(l) - 1) PROVE Old(m) \in 1..Len(l) /\ d[m] = l[Old(m)]
      <4>1. CASE m < i
        BY <1>0, <2>1, <2>2, <4>1
      <4>2. CASE ~(m < i)
        BY <1>0, <2>1, <2>2, <4>2
      <4> QED BY <4>1, <4>2
    <3>2. \A j, k \in 1..(Len(l) - 1) : Old(j) = Old(k) => j = k
      BY <1>0, <2>1
    <3>3. \A u, v \in 1..Len(l) : l[u] = l[v] => u = v
      BY <1>0 DEF IsInjective
    <3> HIDE DEF Old
    <3>4. \A j, k \in 1..(Len(l) - 1) : d[j] = d[k] => j = k
      BY <3>1, <3>2, <3>3
    <3> QED BY <2>3, <3>4 DEF IsInjective
  <2>7. Detach(l, x) = d
    BY <1>2 DEF Detach, i, d
  <2> QED BY <2>2, <2>4, <2>5, <2>6, <2>7
<1> QED BY <1>1, <1>2

LEMMA AppendNew ==
    ASSUME NEW S, NEW l \in Seq(S), NEW x \in S, IsInjective(l), x \notin ToSet(l)
    PROVE  /\ Append(l, x) \in Seq(S)
           /\ ToSet(Append(l, x)) = ToSet(l) \cup {x}
           /\ IsInjective(Append(l, x))
<1>1. /\ Append(l, x) \in Seq(S) /\ Len(Append(l, x)) = Len(l) + 1
      /\ \A j \in 1..Len(l) : Append(l, x)[j] = l[j]
      /\ Append(l, x)[Len(l) + 1] = x
      /\ Len(l) \in Nat /\ DOMAIN l = 1..Len(l)
      /\ DOMAIN Append(l, x) = 1..(Len(l) + 1)
  BY AppendProperties, LenProperties
<1>2. ToSet(Append(l, x)) = ToSet(l) \cup {x}
  BY <1>1 DEF ToSet
<1>3. IsInjective(Append(l, x))
  BY <1>1 DEF IsInjective, ToSet
<1> QED BY <1>1, <1>2, <1>3

-----------------------------------------------------------------------------
(* The inductive invariant                                                 *)

(* A session that is not authenticated is used by its own handler only:    *)
(* bind reaches a session through the registry, and the registry holds     *)
(* authenticated ones.                                                     *)
OwnSession == \A c \in Conns : auth[sess[c]] = None => sess[c] = c

OffIsFresh == \A c \in Conns : pc[c] = "off" => sess[c] = c /\ auth[c] = None

(* An entry that a handler or a task holds a Ref to is there.              *)
RefsAlive ==
    /\ \A c \in Conns : pc[c] \in BindPcs => want[c] \in Users /\ Target(c) # None
    /\ \A e \in Events : task[e] \in {"lock", "push"} => todo[e] # <<>> /\ Dest(e) # None

(* While a task holds the guard of a session its list keeps a connection.  *)
PushHasConnection == \A e \in Events : task[e] = "push" => conns[Dest(e)] # <<>>

UnregisterAuth == \A c \in Conns : pc[c] = "unregister" => auth[sess[c]] # None

IInv ==
    /\ TypeOK
    /\ RegistryAuthenticated
    /\ CheckStillHolds
    /\ ListedExactlyHome
    /\ OwnSession
    /\ OffIsFresh
    /\ RefsAlive
    /\ PushHasConnection
    /\ UnregisterAuth

-----------------------------------------------------------------------------
(* Steps of a handler that move its location and nothing else.             *)

Working == AuthPcs \cup RequestPcs \cup BindPcs \cup {"idle", "closing", "refuse", "reply"}

LEMMA PcStep ==
    ASSUME IInv, NEW c \in Conns, NEW p \in Working,
           pc[c] \in Working,
           pc' = [pc EXCEPT ![c] = p],
           UNCHANGED <<handlerVars, taskVars, queue>>,
           p \in BindPcs => pc[c] \in BindPcs,
           p \in {"auth_wait", "auth_db"} => auth[sess[c]] = None,
           p \in {"auth_reread", "auth_insert", "auth_reply", "req_creds", "work", "fetching"}
             => auth[sess[c]] # None
    PROVE  IInv'
<1> USE DEF IInv, handlerVars, taskVars
<1>1. TypeOK'
  BY DEF TypeOK, Working, Pcs, BusyPcs, AuthPcs, RequestPcs, BindPcs
<1>2. RegistryAuthenticated'
  BY DEF RegistryAuthenticated
<1>3. CheckStillHolds'
  BY DEF CheckStillHolds, TypeOK
<1>4. ListedExactlyHome'
  <2>1. \A d \in Conns : Live(d)' <=> Live(d)
    BY DEF Live, TypeOK, Working, GonePcs, AuthPcs, RequestPcs, BindPcs
  <2> QED BY <2>1 DEF ListedExactlyHome
<1>5. OwnSession' /\ OffIsFresh' /\ UnregisterAuth'
  BY DEF OwnSession, OffIsFresh, UnregisterAuth, TypeOK, Working,
         AuthPcs, RequestPcs, BindPcs
<1>6. RefsAlive'
  BY DEF RefsAlive, TypeOK, Target, Dest
<1>7. PushHasConnection'
  BY DEF PushHasConnection, Dest
<1> QED BY <1>1, <1>2, <1>3, <1>4, <1>5, <1>6, <1>7

LEMMA PcSteps ==
    ASSUME IInv, NEW c \in Conns,
           \/ AuthRequest(c) \/ OtherRequest(c) \/ Close(c)
           \/ AuthCheck(c) \/ AuthLock(c) \/ AuthFails(c) \/ AuthReread(c) \/ AuthReply(c)
           \/ BindLock(c) \/ RequestCheck(c) \/ RequestCreds(c)
           \/ FetchDone(c) \/ WorkDone(c) \/ Reply(c)
    PROVE  IInv'
<1>1. /\ pc[c] \in {"auth_wait", "auth_db"} => auth[sess[c]] = None
      /\ pc[c] \in {"auth_reread", "auth_insert", "auth_reply", "req_creds", "work", "fetching"}
           => auth[sess[c]] # None
  BY DEF IInv, CheckStillHolds
<1>2. SUFFICES ASSUME NEW from \in Working, NEW p \in Working, Goto(c, from, p),
                      UNCHANGED <<handlerVars, taskVars, queue>>,
                      p \in BindPcs => from \in BindPcs,
                      p \in {"auth_wait", "auth_db"} => auth[sess[c]] = None,
                      p \in {"auth_reread", "auth_insert", "auth_reply", "req_creds",
                             "work", "fetching"} => auth[sess[c]] # None
               PROVE  IInv'
  <2>1. CASE AuthRequest(c)
    BY <1>1, <2>1 DEF AuthRequest, Goto, Working, AuthPcs, RequestPcs, BindPcs
  <2>2. CASE OtherRequest(c)
    BY <1>1, <2>2 DEF OtherRequest, Goto, Working, AuthPcs, RequestPcs, BindPcs
  <2>3. CASE Close(c)
    BY <1>1, <2>3 DEF Close, Goto, Working, AuthPcs, RequestPcs, BindPcs
  <2>4. CASE AuthCheck(c)
    BY <1>1, <2>4 DEF AuthCheck, Goto, Working, AuthPcs, RequestPcs, BindPcs
  <2>5. CASE AuthLock(c)
    BY <1>1, <2>5 DEF AuthLock, Goto, Working, AuthPcs, RequestPcs, BindPcs
  <2>6. CASE AuthFails(c)
    BY <1>1, <2>6 DEF AuthFails, Goto, Working, AuthPcs, RequestPcs, BindPcs
  <2>7. CASE AuthReread(c)
    BY <1>1, <2>7 DEF AuthReread, Goto, Working, AuthPcs, RequestPcs, BindPcs
  <2>8. CASE AuthReply(c)
    BY <1>1, <2>8 DEF AuthReply, Goto, Working, AuthPcs, RequestPcs, BindPcs
  <2>9. CASE BindLock(c)
    BY <1>1, <2>9 DEF BindLock, Goto, Working, AuthPcs, RequestPcs, BindPcs
  <2>10. CASE RequestCheck(c)
    BY <1>1, <2>10 DEF RequestCheck, Goto, Working, AuthPcs, RequestPcs, BindPcs
  <2>11. CASE RequestCreds(c)
    BY <1>1, <2>11 DEF RequestCreds, Goto, Working, AuthPcs, RequestPcs, BindPcs
  <2>12. CASE FetchDone(c)
    BY <1>1, <2>12 DEF FetchDone, Goto, Working, AuthPcs, RequestPcs, BindPcs
  <2>13. CASE WorkDone(c)
    BY <1>1, <2>13 DEF WorkDone, Goto, Working, AuthPcs, RequestPcs, BindPcs
  <2>14. CASE Reply(c)
    BY <1>1, <2>14 DEF Reply, Goto, Working, AuthPcs, RequestPcs, BindPcs
  <2> QED BY <2>1, <2>2, <2>3, <2>4, <2>5, <2>6, <2>7, <2>8, <2>9, <2>10, <2>11, <2>12, <2>13, <2>14
<1> QED BY <1>2, PcStep DEF Goto

-----------------------------------------------------------------------------
(* The steps that change more than a location.                             *)

LEMMA AcceptStep == ASSUME IInv, NEW c \in Conns, Accept(c) PROVE IInv'
<1> USE DEF IInv, taskVars, Accept, Goto
<1>0. pc[c] = "off" /\ sess[c] = c /\ auth[c] = None
  BY DEF OffIsFresh
<1>1. TypeOK'
  BY DEF TypeOK, Pcs
<1>2. RegistryAuthenticated' /\ CheckStillHolds' /\ OwnSession' /\ OffIsFresh' /\ UnregisterAuth'
  BY DEF RegistryAuthenticated, CheckStillHolds, OwnSession, OffIsFresh, UnregisterAuth, TypeOK
<1>3. ListedExactlyHome'
  <2>1. \A d \in Conns : sess[d] = c => d = c
    BY <1>0 DEF OwnSession, TypeOK
  <2>2. \A d \in Conns : Live(d)' <=> Live(d) \/ d = c
    BY DEF Live, TypeOK, GonePcs
  <2>3. \A s \in Conns : {d \in Conns : sess[d] = s /\ Live(d)'}
                         = IF s = c THEN {c} ELSE {d \in Conns : sess[d] = s /\ Live(d)}
    BY <1>0, <2>1, <2>2
  <2>4. /\ conns' \in [Conns -> Seq(Conns)] /\ conns'[c] = <<c>>
        /\ \A s \in Conns \ {c} : conns'[s] = conns[s]
    BY <1>1 DEF TypeOK
  <2>5. ToSet(<<c>>) = {c} /\ IsInjective(<<c>>)
    BY DEF ToSet, IsInjective
  <2> QED BY <2>3, <2>4, <2>5 DEF ListedExactlyHome
<1>4. RefsAlive'
  BY DEF RefsAlive, TypeOK, Target, Dest, BindPcs
<1>5. PushHasConnection'
  BY DEF PushHasConnection, TypeOK, Dest, RefsAlive
<1> QED BY <1>1, <1>2, <1>3, <1>4, <1>5

(* Nobody else uses the session that becomes authenticated, and no entry   *)
(* points to it yet.                                                       *)
LEMMA AuthSucceedsStep == ASSUME IInv, NEW c \in Conns, AuthSucceeds(c) PROVE IInv'
<1> USE DEF IInv, taskVars, AuthSucceeds, Goto
<1>0. pc[c] = "auth_db" /\ auth[sess[c]] = None /\ sess[c] = c
  BY DEF CheckStillHolds, OwnSession
<1>1. PICK u \in Users : auth' = [auth EXCEPT ![c] = u]
  BY <1>0
<1>2. u # None
  BY SessionsAssumption DEF SessionsAssumption
<1>3. TypeOK'
  BY <1>1 DEF TypeOK, Pcs, BusyPcs, AuthPcs
<1>4. RegistryAuthenticated'
  BY <1>0, <1>1, SessionsAssumption DEF RegistryAuthenticated, TypeOK, SessionsAssumption
<1>5. CheckStillHolds'
  BY <1>0, <1>1, <1>2 DEF CheckStillHolds, OwnSession, TypeOK
<1>6. ListedExactlyHome'
  <2>1. \A d \in Conns : Live(d)' <=> Live(d)
    BY <1>0 DEF Live, TypeOK, GonePcs
  <2> QED BY <2>1 DEF ListedExactlyHome
<1>7. OwnSession' /\ OffIsFresh' /\ UnregisterAuth'
  BY <1>0, <1>1, <1>2 DEF OwnSession, OffIsFresh, UnregisterAuth, TypeOK
<1>8. RefsAlive' /\ PushHasConnection'
  BY DEF RefsAlive, PushHasConnection, TypeOK, Target, Dest, BindPcs
<1> QED BY <1>3, <1>4, <1>5, <1>6, <1>7, <1>8

(* insert waits for the Refs into the shard, so no Target or Dest moves.   *)
LEMMA AuthInsertStep == ASSUME IInv, NEW c \in Conns, AuthInsert(c) PROVE IInv'
<1> DEFINE u == auth[sess[c]]
<1> USE DEF IInv, taskVars, AuthInsert
<1>0. pc[c] = "auth_insert" /\ u \in Users /\ sess[c] \in Conns /\ sess[c] # None
  BY SessionsAssumption DEF CheckStillHolds, TypeOK, SessionsAssumption
<1>1. /\ \A d \in Conns : pc[d] \in BindPcs => want[d] # u
      /\ \A e \in Events : task[e] \in {"lock", "push"} => Head(todo[e]) # u
  BY DEF RefHeld
<1>2. TypeOK'
  BY <1>0 DEF TypeOK, Pcs, BusyPcs, AuthPcs
<1>3. RegistryAuthenticated' /\ CheckStillHolds' /\ OwnSession' /\ OffIsFresh' /\ UnregisterAuth'
  BY <1>0 DEF RegistryAuthenticated, CheckStillHolds, OwnSession, OffIsFresh, UnregisterAuth, TypeOK
<1>4. ListedExactlyHome'
  <2>1. \A d \in Conns : Live(d)' <=> Live(d)
    BY <1>0 DEF Live, TypeOK, GonePcs
  <2> QED BY <2>1 DEF ListedExactlyHome
<1>5. RefsAlive'
  BY <1>0, <1>1 DEF RefsAlive, TypeOK, Target, Dest, BindPcs
<1>6. PushHasConnection'
  BY <1>0, <1>1 DEF PushHasConnection, TypeOK, Dest
<1> QED BY <1>2, <1>3, <1>4, <1>5, <1>6

LEMMA BindRequestStep == ASSUME IInv, NEW c \in Conns, BindRequest(c) PROVE IInv'
<1> USE DEF IInv, taskVars, BindRequest, Goto
<1>0. /\ pc[c] = "idle"
      /\ \E p \in {"reply", "bind_wait"} : pc' = [pc EXCEPT ![c] = p]
      /\ want' = want \/ \E u \in Users : want' = [want EXCEPT ![c] = u]
  OBVIOUS
<1>1. TypeOK'
  <2>1. pc' \in [Conns -> Pcs]
    BY <1>0 DEF TypeOK, Pcs, BusyPcs, BindPcs
  <2>2. want' \in [Conns -> Users \cup {None}]
    BY ZenonT(30), <1>0 DEF TypeOK
  <2> QED BY <2>1, <2>2 DEF TypeOK
<1>2. RegistryAuthenticated' /\ CheckStillHolds' /\ OwnSession' /\ OffIsFresh' /\ UnregisterAuth'
  BY DEF RegistryAuthenticated, CheckStillHolds, OwnSession, OffIsFresh, UnregisterAuth, TypeOK
<1>3. ListedExactlyHome'
  <2>1. \A d \in Conns : Live(d)' <=> Live(d)
    BY <1>0 DEF Live, TypeOK, GonePcs
  <2> QED BY <2>1 DEF ListedExactlyHome
<1>4. RefsAlive' /\ PushHasConnection'
  BY DEF RefsAlive, PushHasConnection, TypeOK, Target, Dest, BindPcs
<1> QED BY <1>1, <1>2, <1>3, <1>4

LEMMA BindReplyStep == ASSUME IInv, NEW c \in Conns, BindReply(c) PROVE IInv'
<1> USE DEF IInv, taskVars, BindReply, Goto
<1>0. pc[c] \in {"bind_reply", "bind_refuse"} /\ pc' = [pc EXCEPT ![c] = "idle"]
  OBVIOUS
<1>1. TypeOK'
  BY <1>0 DEF TypeOK, Pcs
<1>2. RegistryAuthenticated' /\ CheckStillHolds' /\ OwnSession' /\ OffIsFresh' /\ UnregisterAuth'
  BY <1>0 DEF RegistryAuthenticated, CheckStillHolds, OwnSession, OffIsFresh, UnregisterAuth, TypeOK
<1>3. ListedExactlyHome'
  <2>1. \A d \in Conns : Live(d)' <=> Live(d)
    BY <1>0 DEF Live, TypeOK, GonePcs
  <2> QED BY <2>1 DEF ListedExactlyHome
<1>4. RefsAlive' /\ PushHasConnection'
  BY <1>0 DEF RefsAlive, PushHasConnection, TypeOK, Target, Dest, BindPcs
<1> QED BY <1>1, <1>2, <1>3, <1>4

(* The list that c leaves and the one it joins are two lists: c holds the  *)
(* write guard of the second and has just got that of the first.           *)
LEMMA BindMoveStep == ASSUME IInv, NEW c \in Conns, BindMove(c) PROVE IInv'
<1> DEFINE own == sess[c]
           to == Target(c)
<1> USE DEF IInv, taskVars, BindMove, Goto
<1>0. /\ pc[c] = "bind_own" /\ want[c] \in Users
      /\ own \in Conns /\ to \in Conns /\ auth[to] # None
  <2>1. pc[c] = "bind_own" /\ want[c] \in Users /\ to # None
    BY DEF RefsAlive, BindPcs
  <2>2. auth[to] = want[c] /\ want[c] # None
    BY <2>1, SessionsAssumption DEF RegistryAuthenticated, SessionsAssumption, Target
  <2> QED BY <2>1, <2>2 DEF TypeOK, Target
<1>1. own # to
  BY <1>0 DEF CanWrite, WriteHeld
<1>2. /\ Live(c) /\ Live(c)'
      /\ \A d \in Conns : Live(d)' <=> Live(d)
  BY <1>0 DEF Live, TypeOK, GonePcs
<1>3. /\ conns[own] \in Seq(Conns) /\ IsInjective(conns[own])
      /\ conns[to] \in Seq(Conns) /\ IsInjective(conns[to])
      /\ c \notin ToSet(conns[to])
  BY <1>0, <1>1 DEF TypeOK, ListedExactlyHome
<1>4. /\ Detach(conns[own], c) \in Seq(Conns)
      /\ ToSet(Detach(conns[own], c)) = ToSet(conns[own]) \ {c}
      /\ IsInjective(Detach(conns[own], c))
  BY <1>3, DetachProperties
<1>5. /\ Append(conns[to], c) \in Seq(Conns)
      /\ ToSet(Append(conns[to], c)) = ToSet(conns[to]) \cup {c}
      /\ IsInjective(Append(conns[to], c))
  BY <1>3, AppendNew
<1>6. /\ conns' \in [Conns -> Seq(Conns)]
      /\ conns'[own] = Detach(conns[own], c)
      /\ conns'[to] = Append(conns[to], c)
      /\ \A s \in Conns \ {own, to} : conns'[s] = conns[s]
  BY <1>0, <1>1, <1>4, <1>5 DEF TypeOK
<1>7. sess' = [sess EXCEPT ![c] = to]
  OBVIOUS
<1> HIDE DEF own, to
<1>8. TypeOK'
  <2>1. pc' \in [Conns -> Pcs]
    BY DEF TypeOK, Pcs, BusyPcs, BindPcs
  <2>2. sess' \in [Conns -> Conns]
    BY <1>0, <1>7 DEF TypeOK
  <2> QED BY <1>6, <2>1, <2>2 DEF TypeOK
<1>9. RegistryAuthenticated'
  BY DEF RegistryAuthenticated
<1>10. CheckStillHolds' /\ OwnSession' /\ OffIsFresh' /\ UnregisterAuth'
  BY <1>0, <1>7 DEF CheckStillHolds, OwnSession, OffIsFresh, UnregisterAuth, TypeOK
<1>11. ListedExactlyHome'
  <2> SUFFICES ASSUME NEW s \in Conns
               PROVE  /\ ToSet(conns'[s]) = {d \in Conns : sess'[d] = s /\ Live(d)'}
                      /\ IsInjective(conns'[s])
    BY DEF ListedExactlyHome
  <2>1. sess[c] = own /\ \A d \in Conns : sess'[d] = IF d = c THEN to ELSE sess[d]
    BY <1>7 DEF own, TypeOK
  <2>2. ToSet(conns[s]) = {d \in Conns : sess[d] = s /\ Live(d)} /\ IsInjective(conns[s])
    BY DEF ListedExactlyHome
  <2>3. CASE s = own
    BY <1>1, <1>2, <1>4, <1>6, <2>1, <2>2, <2>3
  <2>4. CASE s = to
    BY <1>1, <1>2, <1>5, <1>6, <2>1, <2>2, <2>4
  <2>5. CASE s \notin {own, to}
    BY <1>2, <1>6, <2>1, <2>2, <2>5
  <2> QED BY <2>3, <2>4, <2>5
<1>12. RefsAlive'
  BY <1>0 DEF RefsAlive, TypeOK, Target, Dest, BindPcs
<1>13. PushHasConnection'
  <2> SUFFICES ASSUME NEW e \in Events, task[e] = "push"
               PROVE  conns'[Dest(e)] # <<>>
    BY DEF PushHasConnection, Dest
  <2>1. conns[Dest(e)] # <<>> /\ Dest(e) # own /\ Dest(e) \in Conns
    <3>1. conns[Dest(e)] # <<>> /\ Dest(e) # None /\ Head(todo[e]) \in Users
      BY DEF PushHasConnection, RefsAlive, TypeOK
    <3>2. Dest(e) # own
      BY DEF own, CanWrite, WriteHeld
    <3> QED BY <3>1, <3>2 DEF Dest, TypeOK
  <2>2. Append(conns[to], c) # <<>>
    BY <1>0, <1>3, AppendProperties
  <2> QED BY <1>6, <2>1, <2>2
<1> QED BY <1>8, <1>9, <1>10, <1>11, <1>12, <1>13

LEMMA WorkNotifyStep == ASSUME IInv, NEW c \in Conns, WorkNotify(c) PROVE IInv'
<1> USE DEF IInv, handlerVars, WorkNotify, Goto
<1>1. PICK e \in Events, us \in Targets :
        /\ task[e] = "unborn"
        /\ task' = [task EXCEPT ![e] = "get"]
        /\ todo' = [todo EXCEPT ![e] = us]
  OBVIOUS
<1>2. us \in Seq(Users)
  BY SessionsAssumption DEF SessionsAssumption
<1>3. TypeOK'
  <2>1. pc' \in [Conns -> Pcs]
    BY DEF TypeOK, Pcs, BusyPcs
  <2>2. task' \in [Events -> TaskStates] /\ todo' \in [Events -> Seq(Users)]
    BY <1>1, <1>2 DEF TypeOK, TaskStates
  <2> QED BY <2>1, <2>2 DEF TypeOK
<1>4. RegistryAuthenticated' /\ CheckStillHolds' /\ OwnSession' /\ OffIsFresh' /\ UnregisterAuth'
  BY DEF RegistryAuthenticated, CheckStillHolds, OwnSession, OffIsFresh, UnregisterAuth, TypeOK
<1>5. ListedExactlyHome'
  <2>1. \A d \in Conns : Live(d)' <=> Live(d)
    BY DEF Live, TypeOK, GonePcs
  <2> QED BY <2>1 DEF ListedExactlyHome
<1>6. RefsAlive' /\ PushHasConnection'
  BY <1>1 DEF RefsAlive, PushHasConnection, TypeOK, Target, Dest, BindPcs
<1> QED BY <1>3, <1>4, <1>5, <1>6

(* c holds the write guard: no task that pushes uses this list.            *)
LEMMA CleanupDetachStep == ASSUME IInv, NEW c \in Conns, CleanupDetach(c) PROVE IInv'
<1> DEFINE s == sess[c]
<1> USE DEF IInv, taskVars, CleanupDetach
<1>0. /\ pc[c] = "closing" /\ s \in Conns
      /\ pc' = [pc EXCEPT ![c] = "unregister"] \/ pc' = [pc EXCEPT ![c] = "gone"]
      /\ pc'[c] = "unregister" => auth[s] # None
      /\ conns' = [conns EXCEPT ![s] = Detach(conns[s], c)]
  BY DEF TypeOK
<1>1. /\ Detach(conns[s], c) \in Seq(Conns)
      /\ ToSet(Detach(conns[s], c)) = ToSet(conns[s]) \ {c}
      /\ IsInjective(Detach(conns[s], c))
  BY <1>0, DetachProperties DEF TypeOK, ListedExactlyHome
<1>2. /\ conns' \in [Conns -> Seq(Conns)]
      /\ conns'[s] = Detach(conns[s], c)
      /\ \A t \in Conns \ {s} : conns'[t] = conns[t]
  BY <1>0, <1>1 DEF TypeOK
<1>3. TypeOK'
  <2>1. pc' \in [Conns -> Pcs]
    BY <1>0 DEF TypeOK, Pcs, GonePcs
  <2> QED BY <1>2, <2>1 DEF TypeOK
<1>4. RegistryAuthenticated' /\ CheckStillHolds' /\ OwnSession' /\ OffIsFresh' /\ UnregisterAuth'
  BY <1>0 DEF RegistryAuthenticated, CheckStillHolds, OwnSession, OffIsFresh, UnregisterAuth, TypeOK
<1>5. ListedExactlyHome'
  <2>1. \A d \in Conns : Live(d)' <=> Live(d) /\ d # c
    BY <1>0 DEF Live, TypeOK, GonePcs
  <2> SUFFICES ASSUME NEW t \in Conns
               PROVE  /\ ToSet(conns'[t]) = {d \in Conns : sess[d] = t /\ Live(d)'}
                      /\ IsInjective(conns'[t])
    BY DEF ListedExactlyHome
  <2>2. ToSet(conns[t]) = {d \in Conns : sess[d] = t /\ Live(d)} /\ IsInjective(conns[t])
    BY DEF ListedExactlyHome
  <2>3. CASE t = s
    BY <1>1, <1>2, <2>1, <2>2, <2>3
  <2>4. CASE t # s
    BY <1>2, <2>1, <2>2, <2>4
  <2> QED BY <2>3, <2>4
<1>6. RefsAlive'
  BY <1>0 DEF RefsAlive, TypeOK, Target, Dest, BindPcs
<1>7. PushHasConnection'
  <2> SUFFICES ASSUME NEW e \in Events, task[e] = "push"
               PROVE  conns'[Dest(e)] # <<>>
    BY DEF PushHasConnection, Dest
  <2>1. conns[Dest(e)] # <<>> /\ Dest(e) # None /\ Head(todo[e]) \in Users
    BY DEF PushHasConnection, RefsAlive, TypeOK
  <2>2. Dest(e) # s
    BY DEF CanWrite, WriteHeld
  <2> QED BY <1>2, <2>1, <2>2 DEF Dest, TypeOK
<1> QED BY <1>3, <1>4, <1>5, <1>6, <1>7

(* remove waits for the Refs into the shard, like insert.                  *)
LEMMA CleanupRemoveStep == ASSUME IInv, NEW c \in Conns, CleanupRemove(c) PROVE IInv'
<1> DEFINE u == auth[sess[c]]
<1> USE DEF IInv, taskVars, CleanupRemove
<1>0. pc[c] = "unregister" /\ u \in Users
  BY DEF UnregisterAuth, TypeOK
<1>1. /\ \A d \in Conns : pc[d] \in BindPcs => want[d] # u
      /\ \A e \in Events : task[e] \in {"lock", "push"} => Head(todo[e]) # u
  BY DEF RefHeld
<1>2. TypeOK'
  BY <1>0 DEF TypeOK, Pcs, GonePcs
<1>3. RegistryAuthenticated' /\ CheckStillHolds' /\ OwnSession' /\ OffIsFresh' /\ UnregisterAuth'
  BY <1>0 DEF RegistryAuthenticated, CheckStillHolds, OwnSession, OffIsFresh, UnregisterAuth, TypeOK
<1>4. ListedExactlyHome'
  <2>1. \A d \in Conns : Live(d)' <=> Live(d)
    BY <1>0 DEF Live, TypeOK, GonePcs
  <2> QED BY <2>1 DEF ListedExactlyHome
<1>5. RefsAlive'
  BY <1>0, <1>1 DEF RefsAlive, TypeOK, Target, Dest, BindPcs
<1>6. PushHasConnection'
  BY <1>0, <1>1 DEF PushHasConnection, TypeOK, Dest
<1> QED BY <1>2, <1>3, <1>4, <1>5, <1>6

LEMMA EventSteps == ASSUME IInv, NEW e \in Events, EventStep(e) PROVE IInv'
<1> USE DEF IInv, handlerVars
<1>1. /\ UNCHANGED <<pc, handlerVars>>
      /\ task[e] \in {"get", "lock", "push"}
      /\ \/ /\ task' = [task EXCEPT ![e] = "done"] /\ UNCHANGED <<todo, queue>>
         \/ /\ task' = [task EXCEPT ![e] = "panicked"] /\ UNCHANGED queue
            /\ todo' = [todo EXCEPT ![e] = <<>>]
         \/ /\ task' = [task EXCEPT ![e] = "lock"] /\ UNCHANGED <<todo, queue>>
            /\ todo[e] # <<>> /\ Dest(e) # None
         \/ /\ task[e] = "lock" /\ task' = [task EXCEPT ![e] = "push"]
            /\ UNCHANGED <<todo, queue>> /\ conns[Dest(e)] # <<>>
         \/ /\ task[e] = "get" /\ UNCHANGED <<task, queue>>
            /\ todo[e] # <<>> /\ todo' = [todo EXCEPT ![e] = Tail(todo[e])]
         \/ /\ task[e] = "push" /\ task' = [task EXCEPT ![e] = "get"]
            /\ todo' = [todo EXCEPT ![e] = Tail(todo[e])]
            /\ \E c \in Conns :
                 /\ Len(queue[c]) < QueueCap
                 /\ queue' = [queue EXCEPT ![c] = Append(@, [event |-> e, to |-> Head(todo[e])])]
  <2>1. CASE EventGet(e)
    BY <2>1 DEF EventGet, TypeOK
  <2>2. CASE EventLock(e)
    BY <2>2 DEF EventLock, TypeOK
  <2>3. CASE EventPush(e)
    <3>1. /\ task[e] = "push" /\ conns[Dest(e)] # <<>> /\ Dest(e) \in Conns
      <4>1. task[e] = "push"
        BY <2>3 DEF EventPush
      <4>2. conns[Dest(e)] # <<>> /\ todo[e] # <<>> /\ Dest(e) # None
        BY <4>1 DEF PushHasConnection, RefsAlive
      <4>3. Head(todo[e]) \in Users
        BY <4>2, HeadTailProperties DEF TypeOK
      <4>4. Dest(e) \in Conns
        BY <4>2, <4>3 DEF Dest, TypeOK
      <4> QED BY <4>1, <4>2, <4>4
    <3>2. Head(conns[Dest(e)]) \in Conns
      BY <3>1, HeadTailProperties DEF TypeOK
    <3> QED BY <2>3, <3>1, <3>2 DEF EventPush
  <2> QED BY <2>1, <2>2, <2>3 DEF EventStep
<1>2. todo[e] # <<>> => Tail(todo[e]) \in Seq(Users) /\ Head(todo[e]) \in Users
  BY HeadTailProperties DEF TypeOK
<1>3. task[e] = "push" => todo[e] # <<>>
  BY DEF RefsAlive
<1>4. TypeOK'
  <2>1. task' \in [Events -> TaskStates]
    BY <1>1 DEF TypeOK, TaskStates
  <2>2. todo' \in [Events -> Seq(Users)]
    <3>1. \/ todo' = todo
          \/ todo' = [todo EXCEPT ![e] = <<>>]
          \/ todo[e] # <<>> /\ todo' = [todo EXCEPT ![e] = Tail(todo[e])]
      BY <1>1, <1>3
    <3>2. <<>> \in Seq(Users)
      BY EmptySeq
    <3> QED BY <1>2, <3>1, <3>2 DEF TypeOK
  <2>3. /\ queue' \in [Conns -> Seq(Message)]
        /\ \A c \in Conns : Len(queue'[c]) <= QueueCap
    <3>1. CASE UNCHANGED queue
      BY <3>1 DEF TypeOK
    <3>2. ASSUME task[e] = "push", NEW c \in Conns, Len(queue[c]) < QueueCap,
                 queue' = [queue EXCEPT ![c] = Append(@, [event |-> e, to |-> Head(todo[e])])]
          PROVE  /\ queue' \in [Conns -> Seq(Message)]
                 /\ \A d \in Conns : Len(queue'[d]) <= QueueCap
      <4>1. [event |-> e, to |-> Head(todo[e])] \in Message
        BY <1>2, <1>3, <3>2 DEF Message
      <4>2. queue[c] \in Seq(Message) /\ Len(queue[c]) \in Nat /\ QueueCap \in Nat
        BY SessionsAssumption, LenProperties DEF TypeOK
      <4> DEFINE longer == Append(queue[c], [event |-> e, to |-> Head(todo[e])])
      <4>3. longer \in Seq(Message) /\ Len(longer) = Len(queue[c]) + 1
        BY <4>1, <4>2, AppendProperties
      <4>4. queue' = [queue EXCEPT ![c] = longer]
        BY <3>2
      <4>5. Len(longer) <= QueueCap
        BY <3>2, <4>2, <4>3
      <4> HIDE DEF longer
      <4> QED BY <4>3, <4>4, <4>5 DEF TypeOK
    <3> QED BY <1>1, <3>1, <3>2
  <2> QED BY <1>1, <2>1, <2>2, <2>3 DEF TypeOK
<1>5. RegistryAuthenticated' /\ CheckStillHolds' /\ OwnSession' /\ OffIsFresh' /\ UnregisterAuth'
  BY <1>1 DEF RegistryAuthenticated, CheckStillHolds, OwnSession, OffIsFresh, UnregisterAuth
<1>6. ListedExactlyHome'
  BY <1>1 DEF ListedExactlyHome, Live
<1>7. RefsAlive'
  BY <1>1 DEF RefsAlive, TypeOK, Target, Dest
<1>8. PushHasConnection'
  BY <1>1 DEF PushHasConnection, TypeOK, Dest
<1> QED BY <1>4, <1>5, <1>6, <1>7, <1>8

LEMMA DrainStep == ASSUME IInv, NEW c \in Conns, Drain(c) PROVE IInv'
<1> USE DEF IInv, handlerVars, taskVars, Drain
<1>1. /\ Tail(queue[c]) \in Seq(Message)
      /\ Len(Tail(queue[c])) <= QueueCap
  <2>1. queue[c] \in Seq(Message) /\ Len(queue[c]) \in Nat /\ Len(queue[c]) <= QueueCap
    BY LenProperties DEF TypeOK
  <2>2. Tail(queue[c]) \in Seq(Message) /\ Len(Tail(queue[c])) = Len(queue[c]) - 1
    BY <2>1, HeadTailProperties
  <2> QED BY <2>1, <2>2, SessionsAssumption
<1>2. TypeOK'
  BY <1>1 DEF TypeOK
<1>3. RegistryAuthenticated' /\ CheckStillHolds' /\ OwnSession' /\ OffIsFresh' /\ UnregisterAuth'
  BY DEF RegistryAuthenticated, CheckStillHolds, OwnSession, OffIsFresh, UnregisterAuth
<1>4. ListedExactlyHome' /\ RefsAlive' /\ PushHasConnection'
  BY DEF ListedExactlyHome, Live, RefsAlive, PushHasConnection, Target, Dest
<1> QED BY <1>2, <1>3, <1>4

-----------------------------------------------------------------------------
(* The theorems                                                            *)

LEMMA InitEstablishes == Init => IInv
<1> SUFFICES ASSUME Init PROVE IInv
  OBVIOUS
<1> USE DEF Init
<1>1. TypeOK
  <2>1. Len(<<>>) <= QueueCap
    BY EmptySeq, SessionsAssumption
  <2> QED BY <2>1, EmptySeq DEF TypeOK, Pcs, TaskStates
<1>2. RegistryAuthenticated /\ CheckStillHolds /\ OwnSession /\ OffIsFresh /\ UnregisterAuth
  BY DEF RegistryAuthenticated, CheckStillHolds, OwnSession, OffIsFresh, UnregisterAuth
<1>3. ListedExactlyHome
  BY DEF ListedExactlyHome, Live, ToSet, IsInjective
<1>4. RefsAlive /\ PushHasConnection
  BY DEF RefsAlive, PushHasConnection, BindPcs
<1> QED BY <1>1, <1>2, <1>3, <1>4 DEF IInv

LEMMA NextPreserves == IInv /\ [Next]_vars => IInv'
<1> SUFFICES ASSUME IInv, [Next]_vars PROVE IInv'
  OBVIOUS
<1>1. ASSUME NEW c \in Conns, ClientStep(c) PROVE IInv'
  BY <1>1, AcceptStep, BindRequestStep, PcSteps DEF ClientStep
<1>2. ASSUME NEW c \in Conns, HandlerStep(c) PROVE IInv'
  BY <1>2, AuthSucceedsStep, AuthInsertStep, BindMoveStep, BindReplyStep,
     WorkNotifyStep, PcSteps DEF HandlerStep
<1>3. ASSUME NEW c \in Conns, CleanupStep(c) PROVE IInv'
  BY <1>3, CleanupDetachStep, CleanupRemoveStep DEF CleanupStep
<1>4. ASSUME NEW c \in Conns, Drain(c) PROVE IInv'
  BY <1>4, DrainStep
<1>5. ASSUME NEW e \in Events, EventStep(e) PROVE IInv'
  BY <1>5, EventSteps
<1>6. CASE UNCHANGED vars
  BY <1>6 DEF vars, IInv, TypeOK, RegistryAuthenticated, CheckStillHolds, ListedExactlyHome,
     OwnSession, OffIsFresh, UnregisterAuth, RefsAlive, PushHasConnection, Live, Target, Dest
<1> QED BY <1>1, <1>2, <1>3, <1>4, <1>5, <1>6 DEF Next

LEMMA IInvHolds == Spec => []IInv
BY InitEstablishes, NextPreserves, PTL DEF Spec

(* Every variable keeps its type, for any number of connections, users and *)
(* event tasks.                                                            *)
THEOREM TypeCorrect == Spec => []TypeOK
BY IInvHolds, PTL DEF IInv

(* The entry of a user is always a session authenticated as that user:     *)
(* bind's unwrap of the session id cannot panic.                           *)
THEOREM RegistrySound == Spec => []RegistryAuthenticated
BY IInvHolds, PTL DEF IInv

(* What a handler checked about its session still holds when it relies on  *)
(* it, although it dropped the guard in between.                           *)
THEOREM ChecksSound == Spec => []CheckStillHolds
BY IInvHolds, PTL DEF IInv

(* Every live connection is listed once, in the session of its handler, and *)
(* a dead one nowhere.                                                     *)
THEOREM ListsSound == Spec => []ListedExactlyHome
BY IInvHolds, PTL DEF IInv

(* A session that has a user keeps it: a login writes only a session that  *)
(* has none, though the check and the write are under different guards.    *)
THEOREM SessionUserStable == Spec => SessionKeepsUser
<1> DEFINE Keeps == \A s \in Conns : auth[s] # None => auth'[s] = auth[s]
<1>1. IInv /\ [Next]_vars => Keeps
  <2> SUFFICES ASSUME IInv, [Next]_vars, NEW s \in Conns, auth[s] # None
               PROVE  auth'[s] = auth[s]
    OBVIOUS
  <2>1. ASSUME NEW c \in Conns, AuthSucceeds(c) PROVE auth'[s] = auth[s]
    BY <2>1 DEF AuthSucceeds, Goto, IInv, CheckStillHolds, TypeOK
  <2>2. CASE UNCHANGED auth
    BY <2>2
  <2>3. \/ UNCHANGED auth
        \/ \E c \in Conns : AuthSucceeds(c)
    BY DEF Next, vars, handlerVars, ClientStep, HandlerStep, CleanupStep, EventStep,
       Accept, AuthRequest, OtherRequest, BindRequest, Close, AuthCheck, AuthLock,
       AuthFails, AuthReread, AuthInsert, AuthReply, BindLock, BindMove, BindReply,
       RequestCheck, RequestCreds, FetchDone, WorkDone, WorkNotify, Reply,
       CleanupDetach, CleanupRemove, Drain, EventGet, EventLock, EventPush
  <2> QED BY <2>1, <2>2, <2>3
<1> QED BY <1>1, IInvHolds, PTL DEF Spec, SessionKeepsUser

-----------------------------------------------------------------------------
(* Where an event goes                                                     *)

(* The head of the list of the session registered for the recipient is a   *)
(* live connection whose handler uses that session.                        *)
LEMMA PushTarget ==
    ASSUME IInv, NEW e \in Events, task[e] = "push"
    PROVE  LET u == Head(todo[e])
               c == Head(conns[Dest(e)])
           IN  /\ todo[e] # <<>> /\ u \in Users /\ c \in Conns
               /\ Live(c) /\ sess[c] = Dest(e) /\ registry[u] = sess[c] /\ auth[sess[c]] = u
<1> DEFINE u == Head(todo[e])
           l == conns[Dest(e)]
<1> USE DEF IInv
<1>1. todo[e] # <<>> /\ u \in Users /\ Dest(e) \in Conns /\ l # <<>>
  BY HeadTailProperties DEF RefsAlive, TypeOK, Dest, PushHasConnection
<1>2. l \in Seq(Conns) /\ Len(l) \in Nat \ {0} /\ DOMAIN l = 1..Len(l)
  BY <1>1, EmptySeq, LenProperties DEF TypeOK
<1>3. Head(l) = l[1] /\ 1 \in DOMAIN l
  BY <1>1, <1>2
<1>4. Head(l) \in ToSet(l) /\ Head(l) \in Conns
  BY <1>2, <1>3, ElementOfSeq DEF ToSet
<1>5. sess[Head(l)] = Dest(e) /\ Live(Head(l))
  BY <1>1, <1>4 DEF ListedExactlyHome
<1>6. auth[Dest(e)] = u /\ registry[u] = Dest(e)
  BY <1>1 DEF RegistryAuthenticated, RefsAlive, Dest
<1> QED BY <1>1, <1>4, <1>5, <1>6

(* An event enters the queue of a connection only when its handler uses    *)
(* the session registered for, and authenticated as, the recipient.        *)
THEOREM EventsReachTheirRecipient == Spec => EventReachesRecipient
<1> DEFINE Grows(c) == Len(queue'[c]) > Len(queue[c])
           Right(c) == LET u == queue'[c][Len(queue'[c])].to IN
                       Live(c) /\ auth[sess[c]] = u /\ registry[u] = sess[c]
<1>1. IInv /\ [Next]_vars => \A c \in Conns : Grows(c) => Right(c)
  <2> SUFFICES ASSUME IInv, [Next]_vars, NEW c \in Conns, Grows(c) PROVE Right(c)
    OBVIOUS
  <2>1. \A d \in Conns : queue[d] \in Seq(Message) /\ Len(queue[d]) \in Nat
    BY LenProperties DEF IInv, TypeOK
  <2>2. queue' # queue
    BY <2>1
  <2>3. ~\E d \in Conns : Drain(d)
    <3> SUFFICES ASSUME NEW d \in Conns, Drain(d) PROVE FALSE
      OBVIOUS
    <3>1. /\ queue[d] # <<>> /\ queue' = [queue EXCEPT ![d] = Tail(queue[d])]
          /\ Len(Tail(queue[d])) = Len(queue[d]) - 1
      BY <2>1, HeadTailProperties DEF Drain
    <3>2. queue'[c] = IF c = d THEN Tail(queue[d]) ELSE queue[c]
      BY <3>1 DEF IInv, TypeOK
    <3> QED BY <2>1, <3>1, <3>2
  <2>4. PICK e \in Events : EventPush(e)
    BY <2>2, <2>3 DEF Next, vars, taskVars, ClientStep, HandlerStep, CleanupStep, EventStep,
       Accept, AuthRequest, OtherRequest, BindRequest, Close, AuthCheck, AuthLock,
       AuthSucceeds, AuthFails, AuthReread, AuthInsert, AuthReply, BindLock, BindMove,
       BindReply, RequestCheck, RequestCreds, FetchDone, WorkDone, WorkNotify, Reply,
       CleanupDetach, CleanupRemove, EventGet, EventLock
  <2> DEFINE d == Head(conns[Dest(e)])
             m == [event |-> e, to |-> Head(todo[e])]
  <2>5. /\ d \in Conns /\ Head(todo[e]) \in Users
        /\ Live(d) /\ registry[Head(todo[e])] = sess[d] /\ auth[sess[d]] = Head(todo[e])
    BY <2>4, PushTarget DEF EventPush
  <2>6. queue' = [queue EXCEPT ![d] = Append(queue[d], m)]
    BY <2>4 DEF EventPush
  <2>7. c = d
    BY <2>1, <2>5, <2>6 DEF IInv, TypeOK
  <2>8. m \in Message
    BY <2>5 DEF Message
  <2>9. queue'[c] = Append(queue[d], m) /\ queue'[c][Len(queue'[c])] = m
    BY <2>1, <2>5, <2>6, <2>7, <2>8, AppendProperties DEF IInv, TypeOK
  <2>10. m.to = Head(todo[e])
    OBVIOUS
  <2> QED BY <2>5, <2>7, <2>9, <2>10
<1> QED BY <1>1, IInvHolds, PTL DEF Spec, EventReachesRecipient

-----------------------------------------------------------------------------
(* Sessions implements EventBus                                            *)

Posted == {e \in Events : task[e] # "unborn"}
Owner  == [c \in Conns |-> OwnerOf(c)]

(* What a step shows the bus when it changes nothing the bus can see.      *)
LEMMA BusStutter ==
    ASSUME \A c \in Conns : OwnerOf(c)' = OwnerOf(c),
           \A e \in Events : (task[e] # "unborn") <=> (task'[e] # "unborn"),
           UNCHANGED <<todo, queue>>
    PROVE  UNCHANGED Bus!busVars
<1>1. Posted' = Posted /\ Owner' = Owner
  BY DEF Posted, Owner
<1> QED BY <1>1 DEF Bus!busVars, Posted, Owner

(* Steps that move a location, a Ref or an entry, and stay live.           *)
LEMMA QuietSteps ==
    ASSUME IInv, NEW c \in Conns,
           \/ Accept(c) \/ AuthRequest(c) \/ OtherRequest(c) \/ BindRequest(c) \/ Close(c)
           \/ AuthCheck(c) \/ AuthLock(c) \/ AuthFails(c) \/ AuthReread(c) \/ AuthInsert(c)
           \/ AuthReply(c) \/ BindLock(c) \/ BindReply(c) \/ RequestCheck(c)
           \/ RequestCreds(c) \/ FetchDone(c) \/ WorkDone(c) \/ Reply(c) \/ CleanupRemove(c)
    PROVE  UNCHANGED Bus!busVars
<1>1. UNCHANGED <<sess, auth, task, todo, queue>>
  BY DEF Accept, AuthRequest, OtherRequest, BindRequest, Close, AuthCheck, AuthLock, AuthFails,
     AuthReread, AuthInsert, AuthReply, BindLock, BindReply, RequestCheck, RequestCreds,
     FetchDone, WorkDone, Reply, CleanupRemove, handlerVars, taskVars
<1>2. ASSUME NEW d \in Conns PROVE OwnerOf(d)' = OwnerOf(d)
  <2>1. CASE Accept(c)
    BY <1>1, <2>1 DEF Accept, Goto, OwnerOf, Live, GonePcs, IInv, OffIsFresh, TypeOK
  <2>2. CASE ~Accept(c)
    <3>1. /\ \A x \in Conns \ {c} : pc'[x] = pc[x]
          /\ pc[c] # "off" /\ pc'[c] # "off"
          /\ pc[c] \in GonePcs <=> pc'[c] \in GonePcs
      BY ZenonT(30), <2>2 DEF AuthRequest, OtherRequest, BindRequest, Close, AuthCheck, AuthLock,
         AuthFails, AuthReread, AuthInsert, AuthReply, BindLock, BindReply, RequestCheck,
         RequestCreds, FetchDone, WorkDone, Reply, CleanupRemove, Goto,
         GonePcs, IInv, TypeOK
    <3>2. Live(d)' <=> Live(d)
      BY <3>1 DEF Live
    <3> QED BY <1>1, <3>2 DEF OwnerOf
  <2> QED BY <2>1, <2>2
<1> QED BY <1>1, <1>2, BusStutter

(* A login, and a bind, make a connection act for a user.                  *)
LEMMA OwnSteps ==
    ASSUME IInv, NEW c \in Conns, AuthSucceeds(c) \/ BindMove(c)
    PROVE  Bus!Own(c)
<1>1. UNCHANGED <<task, todo, queue>>
  BY DEF AuthSucceeds, BindMove, taskVars
<1>2. /\ pc[c] \in {"auth_db", "bind_own"} /\ Live(c) /\ Live(c)'
      /\ \A d \in Conns : Live(d)' <=> Live(d)
  BY DEF AuthSucceeds, BindMove, Goto, Live, GonePcs, IInv, TypeOK
<1>3. \E u \in Users : \A d \in Conns : OwnerOf(d)' = IF d = c THEN u ELSE OwnerOf(d)
  <2>1. CASE AuthSucceeds(c)
    <3>1. sess[c] = c /\ auth[c] = None /\ \A d \in Conns : sess[d] = c => d = c
      BY <2>1 DEF AuthSucceeds, Goto, IInv, CheckStillHolds, OwnSession, TypeOK
    <3>2. PICK u \in Users : auth' = [auth EXCEPT ![c] = u]
      BY <2>1, <3>1 DEF AuthSucceeds
    <3>3. ASSUME NEW d \in Conns PROVE OwnerOf(d)' = IF d = c THEN u ELSE OwnerOf(d)
      BY <1>2, <2>1, <3>1, <3>2 DEF AuthSucceeds, OwnerOf, IInv, TypeOK
    <3> QED BY <3>3
  <2>2. CASE BindMove(c)
    <3>1. want[c] \in Users /\ auth[Target(c)] = want[c]
      BY <2>2 DEF BindMove, Goto, BindPcs, Target, IInv, RefsAlive, RegistryAuthenticated
    <3>2. ASSUME NEW d \in Conns PROVE OwnerOf(d)' = IF d = c THEN want[c] ELSE OwnerOf(d)
      BY <1>2, <2>2, <3>1 DEF BindMove, OwnerOf, IInv, TypeOK
    <3> QED BY <3>1, <3>2
  <2> QED BY <2>1, <2>2
<1>4. PICK u \in Users : \A d \in Conns : OwnerOf(d)' = IF d = c THEN u ELSE OwnerOf(d)
  BY <1>3
<1>5. Owner' = [Owner EXCEPT ![c] = u]
  BY <1>4 DEF Owner
<1>6. Posted' = Posted
  BY <1>1 DEF Posted
<1> QED BY <1>1, <1>5, <1>6 DEF Bus!Own, Owner, Posted

LEMMA DetachShown ==
    ASSUME IInv, NEW c \in Conns, CleanupDetach(c)
    PROVE  [Bus!Disown(c)]_(Bus!busVars)
<1>1. UNCHANGED <<sess, auth, task, todo, queue>>
  BY DEF CleanupDetach, taskVars
<1>2. Live(c) /\ \A d \in Conns : Live(d)' <=> Live(d) /\ d # c
  BY DEF CleanupDetach, Live, GonePcs, IInv, TypeOK
<1>3. \A d \in Conns : OwnerOf(d)' = IF d = c THEN None ELSE OwnerOf(d)
  BY <1>1, <1>2 DEF OwnerOf
<1>4. Owner' = [Owner EXCEPT ![c] = None] /\ Posted' = Posted
  BY <1>1, <1>3 DEF Owner, Posted
<1>5. CASE OwnerOf(c) # None
  BY <1>1, <1>4, <1>5 DEF Bus!Disown, Owner, Posted
<1>6. CASE OwnerOf(c) = None
  BY <1>1, <1>3, <1>6, BusStutter
<1> QED BY <1>5, <1>6

LEMMA NotifyShown ==
    ASSUME IInv, NEW c \in Conns, WorkNotify(c)
    PROVE  \E e \in Events : Bus!Post(c, e)
<1> USE DEF WorkNotify, Goto, handlerVars
<1>1. PICK e \in Events, us \in Targets :
        /\ task[e] = "unborn" /\ auth[sess[c]] \notin ToSet(us)
        /\ task' = [task EXCEPT ![e] = "get"] /\ todo' = [todo EXCEPT ![e] = us]
  OBVIOUS
<1>2. Live(c) /\ \A d \in Conns : Live(d)' <=> Live(d)
  BY DEF Live, GonePcs, IInv, TypeOK
<1>3. Owner[c] = auth[sess[c]] /\ Owner[c] # None
  BY <1>2 DEF Owner, OwnerOf, IInv, CheckStillHolds
<1>4. Owner' = Owner
  BY <1>2 DEF Owner, OwnerOf
<1>5. e \notin Posted /\ Posted' = Posted \cup {e}
  BY <1>1 DEF Posted, IInv, TypeOK
<1>6. \A i \in DOMAIN us : us[i] # Owner[c]
  BY <1>1, <1>3 DEF ToSet
<1> QED BY <1>1, <1>3, <1>4, <1>5, <1>6 DEF Bus!Post, Owner, Posted

LEMMA EventsShown ==
    ASSUME IInv, NEW e \in Events, EventStep(e)
    PROVE  \/ UNCHANGED Bus!busVars
           \/ Bus!Skip(e) \/ Bus!Lose(e)
           \/ \E c \in Conns : Bus!Deliver(c, e)
<1>1. UNCHANGED <<pc, handlerVars>> /\ Owner' = Owner /\ Posted' = Posted
  BY DEF EventStep, EventGet, EventLock, EventPush, handlerVars, Owner, OwnerOf, Live,
     Posted, IInv, TypeOK
<1>2. CASE EventGet(e)
  BY <1>1, <1>2 DEF EventGet, Bus!Skip, Bus!busVars, Owner, Posted
<1>3. CASE EventLock(e)
  BY <1>1, <1>3 DEF EventLock, Bus!Lose, Bus!busVars, Owner, Posted, IInv, RefsAlive
<1>4. CASE EventPush(e)
  <2> DEFINE c == Head(conns[Dest(e)])
  <2>1. /\ todo[e] # <<>> /\ c \in Conns /\ Owner[c] = Head(todo[e])
    BY <1>4, PushTarget DEF EventPush, Owner, OwnerOf
  <2>2. Bus!Deliver(c, e)
    BY <1>1, <1>4, <2>1 DEF EventPush, Bus!Deliver, Owner, Posted
  <2> QED BY <2>1, <2>2
<1> QED BY <1>2, <1>3, <1>4 DEF EventStep

LEMMA DrainShown ==
    ASSUME NEW c \in Conns, Drain(c)
    PROVE  Bus!Take(c)
BY DEF Drain, Bus!Take, OwnerOf, Live, handlerVars, taskVars

(* Whatever handlers, cleanups and tasks interleave, the events behave as  *)
(* EventBus says.                                                          *)
THEOREM SessionsImplementEventBus == Spec => BusPromise
<1>1. Init => Bus!Init
  BY DEF Init, Bus!Init, OwnerOf, Live
<1>2. IInv /\ [Next]_vars => [Bus!BusNext]_(Bus!busVars)
  <2> SUFFICES ASSUME IInv, [Next]_vars PROVE [Bus!BusNext]_(Bus!busVars)
    OBVIOUS
  <2>1. ASSUME NEW c \in Conns, ClientStep(c) \/ HandlerStep(c) \/ CleanupStep(c) \/ Drain(c)
        PROVE  [Bus!BusNext]_(Bus!busVars)
    BY <2>1, QuietSteps, OwnSteps, DetachShown, NotifyShown, DrainShown
       DEF ClientStep, HandlerStep, CleanupStep, Bus!BusNext
  <2>2. ASSUME NEW e \in Events, EventStep(e)
        PROVE  [Bus!BusNext]_(Bus!busVars)
    BY <2>2, EventsShown DEF Bus!BusNext
  <2>3. CASE UNCHANGED vars
    BY <2>3, BusStutter DEF vars, OwnerOf, Live
  <2> QED BY <2>1, <2>2, <2>3 DEF Next
<1> QED BY <1>1, <1>2, IInvHolds, PTL DEF Spec, BusPromise, Bus!BusSpec

-----------------------------------------------------------------------------
(* What a user may expect of the registry                                  *)

(* A connection has the credentials of one user to bind to.                *)
BindOnce ==
    \A c \in Conns, u, v \in Users : <<c, u>> \in BindAs /\ <<c, v>> \in BindAs => u = v

(* Who uses the session of another connection has bound to its user.       *)
GuestsBound ==
    \A c \in Conns :
        /\ pc[c] \in BindPcs => <<c, want[c]>> \in BindAs
        /\ sess[c] # c => <<c, auth[sess[c]]>> \in BindAs

(* A cleanup that has emptied a list holds its guard until the entry is    *)
(* gone: nobody is about to bind to that session.                          *)
LastOneOut ==
    \A c \in Conns : pc[c] = "unregister" =>
        /\ conns[sess[c]] = <<>>
        /\ \A d \in Conns : pc[d] \in {"bind_own", "bind_refuse"} => Target(d) # sess[c]

(* The one session of a user has its entry, or is about to get it, or has  *)
(* no connection left.                                                     *)
HasEntry ==
    \A s \in Conns : auth[s] # None /\ OneSession(auth[s]) =>
        \/ registry[auth[s]] # None
        \/ \E d \in Conns : pc[d] \in {"auth_reread", "auth_insert"} /\ sess[d] = s
        \/ conns[s] = <<>>

JInv == GuestsBound /\ LastOneOut /\ HasEntry

LEMMA JEstablished == Init => JInv /\ EntryIsServed
  BY DEF Init, JInv, GuestsBound, LastOneOut, HasEntry, EntryIsServed, BindPcs

(* A handler that only moves.                                              *)
LEMMA JMoves ==
    ASSUME IInv, JInv, NEW c \in Conns, NEW p \in Pcs,
           pc' = [pc EXCEPT ![c] = p], UNCHANGED <<handlerVars, task>>,
           pc[c] \notin {"unregister", "auth_insert"}, p # "unregister",
           pc[c] = "auth_reread" => p = "auth_insert",
           p \in BindPcs => pc[c] \in BindPcs,
           p \in {"bind_own", "bind_refuse"} =>
               \A d \in Conns : pc[d] = "unregister" => Target(c) # sess[d]
    PROVE  JInv' /\ (EntryIsServed => EntryIsServed')
  <1> USE DEF handlerVars
  <1>1. GuestsBound'
    BY DEF JInv, GuestsBound, IInv, TypeOK
  <1>2. LastOneOut'
    BY DEF JInv, LastOneOut, IInv, TypeOK, Target
  <1>3. HasEntry'
    <2>1. \A d \in Conns : pc[d] \in {"auth_reread", "auth_insert"}
                             => pc'[d] \in {"auth_reread", "auth_insert"}
      BY DEF IInv, TypeOK
    <2> QED BY <2>1 DEF JInv, HasEntry, OneSession
  <1>4. EntryIsServed => EntryIsServed'
    <2>1. \A d \in Conns : pc[d] = "unregister" => pc'[d] = "unregister"
      BY DEF IInv, TypeOK
    <2> QED BY <2>1 DEF EntryIsServed, Left
  <1> QED BY <1>1, <1>2, <1>3, <1>4 DEF JInv

LEMMA JMovesAll ==
    ASSUME IInv, JInv, NEW c \in Conns,
           \/ AuthRequest(c) \/ OtherRequest(c) \/ Close(c)
           \/ AuthCheck(c) \/ AuthLock(c) \/ AuthFails(c) \/ AuthReread(c) \/ AuthReply(c)
           \/ BindLock(c) \/ RequestCheck(c) \/ RequestCreds(c)
           \/ FetchDone(c) \/ WorkDone(c) \/ Reply(c)
    PROVE  JInv' /\ (EntryIsServed => EntryIsServed')
  <1> USE DEF Goto, Pcs, BusyPcs, AuthPcs, RequestPcs, BindPcs, GonePcs, taskVars
  <1>2. CASE BindLock(c)
    <2>1. \A d \in Conns : pc[d] = "unregister" => Target(c) # sess[d]
      BY <1>2 DEF BindLock, CanWrite, WriteHeld
    <2> QED BY <1>2, <2>1, JMoves DEF BindLock
  <1>3. CASE AuthRequest(c) \/ OtherRequest(c) \/ Close(c)
    BY <1>3, JMoves DEF AuthRequest, OtherRequest, Close
  <1>4. CASE AuthCheck(c) \/ AuthLock(c) \/ AuthFails(c) \/ AuthReread(c) \/ AuthReply(c)
    BY <1>4, JMoves DEF AuthCheck, AuthLock, AuthFails, AuthReread, AuthReply
  <1>5. CASE RequestCheck(c) \/ RequestCreds(c) \/ FetchDone(c) \/ WorkDone(c) \/ Reply(c)
    BY <1>5, JMoves DEF RequestCheck, RequestCreds, FetchDone, WorkDone, Reply
  <1> QED BY <1>2, <1>3, <1>4, <1>5

LEMMA JAccept ==
    ASSUME IInv, JInv, NEW c \in Conns, Accept(c)
    PROVE  JInv' /\ (EntryIsServed => EntryIsServed')
  <1> USE DEF Accept, Goto, taskVars
  <1>1. sess[c] = c /\ auth[c] = None /\ (\A d \in Conns : pc[d] = "unregister" => sess[d] # c)
    BY DEF IInv, OffIsFresh, UnregisterAuth
  <1>2. GuestsBound'
    BY DEF JInv, GuestsBound, IInv, TypeOK, BindPcs
  <1>3. LastOneOut'
    BY <1>1 DEF JInv, LastOneOut, IInv, TypeOK, Target
  <1>4. HasEntry'
    <2>1. \A d \in Conns : pc[d] \in {"auth_reread", "auth_insert"} => pc'[d] = pc[d]
      BY DEF IInv, TypeOK
    <2>2. \A s \in Conns \ {c} : conns'[s] = conns[s]
      BY DEF IInv, TypeOK
    <2> QED BY <1>1, <2>1, <2>2 DEF JInv, HasEntry, OneSession
  <1>5. EntryIsServed => EntryIsServed'
    <2>1. \A d \in Conns : pc[d] = "unregister" => pc'[d] = "unregister"
      BY DEF IInv, TypeOK
    <2>2. /\ \A s \in Conns \ {c} : conns'[s] = conns[s]
          /\ conns'[c] # <<>>
      BY DEF IInv, TypeOK
    <2>3. \A u \in Users : registry[u] \in Conns \cup {None}
      BY DEF IInv, TypeOK
    <2> QED BY <2>1, <2>2, <2>3 DEF EntryIsServed, Left
  <1> QED BY <1>2, <1>3, <1>4, <1>5 DEF JInv

LEMMA JAuthSucceeds ==
    ASSUME IInv, JInv, NEW c \in Conns, AuthSucceeds(c)
    PROVE  JInv' /\ (EntryIsServed => EntryIsServed')
  <1> USE DEF AuthSucceeds, Goto, taskVars
  <1>1. sess[c] = c /\ auth[c] = None
    <2>1. pc[c] = "auth_db" /\ auth[sess[c]] = None
      BY DEF IInv, CheckStillHolds
    <2> QED BY <2>1 DEF IInv, OwnSession
  <1>2. PICK u \in Users : auth' = [auth EXCEPT ![c] = u]
    BY <1>1
  <1>3. u # None /\ pc' = [pc EXCEPT ![c] = "auth_reread"] /\ pc[c] = "auth_db"
    BY SessionsAssumption DEF SessionsAssumption
  <1>4. GuestsBound'
    <2>1. \A d \in Conns : sess[d] # d => sess[d] # c
      BY <1>1 DEF IInv, OwnSession
    <2>2. \A d \in Conns : sess[d] # d => auth'[sess[d]] = auth[sess[d]]
      BY <1>2, <2>1 DEF IInv, TypeOK
    <2>3. \A d \in Conns : pc'[d] \in BindPcs => pc[d] \in BindPcs
      BY <1>3 DEF IInv, TypeOK, BindPcs
    <2> QED BY <2>2, <2>3 DEF JInv, GuestsBound
  <1>5. LastOneOut'
    BY DEF JInv, LastOneOut, IInv, TypeOK, Target
  <1>6. HasEntry'
    <2> SUFFICES ASSUME NEW s \in Conns, auth'[s] # None,
                        \A x, y \in Conns : auth'[x] = auth'[s] /\ auth'[y] = auth'[s] => x = y
                 PROVE  \/ registry[auth'[s]] # None
                        \/ \E d \in Conns : pc'[d] \in {"auth_reread", "auth_insert"} /\ sess[d] = s
                        \/ conns[s] = <<>>
      BY DEF HasEntry, OneSession
    <2>1. CASE s = c
      BY <1>1, <1>3, <2>1 DEF IInv, TypeOK
    <2>2. CASE s # c
      <3>1. auth'[s] = auth[s]
        BY <1>2, <2>2 DEF IInv, TypeOK
      <3>2. OneSession(auth[s])
        BY <1>1, <1>2, <2>2, <3>1 DEF OneSession, IInv, TypeOK
      <3>3. \A d \in Conns : pc[d] \in {"auth_reread", "auth_insert"} => pc'[d] = pc[d]
        BY <1>3 DEF IInv, TypeOK
      <3> QED BY <3>1, <3>2, <3>3 DEF JInv, HasEntry
    <2> QED BY <2>1, <2>2
  <1>7. EntryIsServed => EntryIsServed'
    <2>1. \A d \in Conns : pc[d] = "unregister" => pc'[d] = "unregister"
      BY <1>3 DEF IInv, TypeOK
    <2> QED BY <2>1 DEF EntryIsServed, Left
  <1> QED BY <1>4, <1>5, <1>6, <1>7 DEF JInv

LEMMA JAuthInsert ==
    ASSUME IInv, JInv, NEW c \in Conns, AuthInsert(c)
    PROVE  JInv' /\ (EntryIsServed => EntryIsServed')
  <1> USE DEF AuthInsert, taskVars
  <1> DEFINE s == sess[c]
             u == auth[s]
  <1>1. s \in Conns /\ u \in Users /\ s # None
    BY SessionsAssumption DEF IInv, CheckStillHolds, TypeOK, SessionsAssumption
  <1>2. /\ registry' = [registry EXCEPT ![u] = s]
        /\ pc[c] = "auth_insert" /\ pc' = [pc EXCEPT ![c] = "auth_reply"]
        /\ UNCHANGED <<sess, want, auth, conns>>
    OBVIOUS
  <1>3. \A d \in Conns : pc[d] \in BindPcs => Target(d)' = Target(d)
    <2> SUFFICES ASSUME NEW d \in Conns, pc[d] \in BindPcs PROVE registry'[want[d]] = registry[want[d]]
      BY DEF Target
    <2>1. want[d] # u /\ want[d] \in Users
      BY DEF RefHeld, IInv, RefsAlive
    <2> HIDE DEF u, s
    <2> QED BY <1>2, <2>1 DEF IInv, TypeOK
  <1>3a. conns[s] # <<>>
    <2>1. c \in ToSet(conns[s])
      BY <1>1, <1>2 DEF IInv, ListedExactlyHome, Live, GonePcs
    <2> QED BY <2>1 DEF ToSet
  <1>3b. /\ registry'[u] = s
         /\ \A v \in Users \ {u} : registry'[v] = registry[v]
    BY <1>1, <1>2 DEF IInv, TypeOK
  <1>4. GuestsBound'
    BY DEF JInv, GuestsBound, IInv, TypeOK, BindPcs
  <1>5. LastOneOut'
    BY <1>3 DEF JInv, LastOneOut, IInv, TypeOK, BindPcs
  <1>6. HasEntry'
    <2> SUFFICES ASSUME NEW x \in Conns, auth[x] # None, OneSession(auth[x])
                 PROVE  \/ registry'[auth[x]] # None
                        \/ \E d \in Conns : pc'[d] \in {"auth_reread", "auth_insert"} /\ sess[d] = x
                        \/ conns[x] = <<>>
      BY <1>2 DEF HasEntry, OneSession
    <2>1. CASE auth[x] = u
      BY <1>1, <1>3b, <2>1
    <2>2. CASE auth[x] # u
      <3>1. auth[x] \in Users /\ registry'[auth[x]] = registry[auth[x]] /\ x # s
        BY <1>3b, <2>2 DEF IInv, TypeOK
      <3>2. \A d \in Conns : pc[d] \in {"auth_reread", "auth_insert"} /\ sess[d] = x => pc'[d] = pc[d]
        BY <1>2, <3>1 DEF IInv, TypeOK
      <3> QED BY <3>1, <3>2 DEF JInv, HasEntry
    <2> QED BY <2>1, <2>2
  <1>7. EntryIsServed => EntryIsServed'
    <2>1. \A d \in Conns : pc[d] = "unregister" => pc'[d] = "unregister"
      BY <1>2 DEF IInv, TypeOK
    <2> HIDE DEF u, s
    <2> QED BY <1>2, <1>3a, <1>3b, <2>1 DEF EntryIsServed, Left
  <1> QED BY <1>4, <1>5, <1>6, <1>7 DEF JInv

LEMMA JBindRequest ==
    ASSUME IInv, JInv, NEW c \in Conns, BindRequest(c)
    PROVE  JInv' /\ (EntryIsServed => EntryIsServed')
  <1> USE DEF BindRequest, Goto, taskVars
  <1>1. PICK u \in Users :
            /\ <<c, u>> \in BindAs
            /\ \/ pc' = [pc EXCEPT ![c] = "reply"] /\ UNCHANGED want
               \/ pc' = [pc EXCEPT ![c] = "bind_wait"] /\ want' = [want EXCEPT ![c] = u]
    OBVIOUS
  <1>a. pc[c] = "idle" /\ UNCHANGED <<sess, auth, conns, registry>>
    OBVIOUS
  <1>b. \A d \in Conns : pc[d] # "idle" => pc'[d] = pc[d]
    BY <1>1, <1>a DEF IInv, TypeOK
  <1>2. GuestsBound'
    BY ZenonT(30), <1>1 DEF JInv, GuestsBound, IInv, TypeOK, BindPcs
  <1>3. LastOneOut'
    <2>1. \A d \in Conns : pc'[d] \in {"bind_own", "bind_refuse"} => pc'[d] = pc[d] /\ want'[d] = want[d]
      BY <1>1 DEF IInv, TypeOK
    <2>2. \A d \in Conns : pc'[d] = "unregister" => pc[d] = "unregister"
      BY <1>1 DEF IInv, TypeOK
    <2> QED BY <1>a, <2>1, <2>2 DEF JInv, LastOneOut, Target
  <1>4. HasEntry'
    BY <1>a, <1>b DEF JInv, HasEntry, OneSession
  <1>5. EntryIsServed => EntryIsServed'
    BY <1>a, <1>b DEF EntryIsServed, Left
  <1> QED BY <1>2, <1>3, <1>4, <1>5 DEF JInv

LEMMA JBindReply ==
    ASSUME IInv, JInv, NEW c \in Conns, BindReply(c)
    PROVE  JInv' /\ (EntryIsServed => EntryIsServed')
  <1>1. /\ pc[c] \in {"bind_reply", "bind_refuse"} /\ pc' = [pc EXCEPT ![c] = "idle"]
        /\ want' = [want EXCEPT ![c] = None] /\ UNCHANGED <<sess, auth, conns, registry>>
    BY DEF BindReply, Goto
  <1>2. /\ \A d \in Conns : pc[d] \notin {"bind_reply", "bind_refuse"} => pc'[d] = pc[d]
        /\ \A d \in Conns : pc'[d] # "idle" => pc'[d] = pc[d] /\ want'[d] = want[d]
    BY <1>1 DEF IInv, TypeOK
  <1>3. GuestsBound'
    BY <1>1, <1>2 DEF JInv, GuestsBound, BindPcs
  <1>4. LastOneOut'
    BY <1>1, <1>2 DEF JInv, LastOneOut, Target
  <1>5. HasEntry'
    BY <1>1, <1>2 DEF JInv, HasEntry, OneSession
  <1>6. EntryIsServed => EntryIsServed'
    BY <1>1, <1>2 DEF EntryIsServed, Left
  <1> QED BY <1>3, <1>4, <1>5, <1>6 DEF JInv

(* A guest that moves on leaves a session that is no entry any more: it    *)
(* binds to one user only, whose entry is the session it moves to.         *)
LEMMA JBindMove ==
    ASSUME IInv, JInv, NEW c \in Conns, BindMove(c)
    PROVE  JInv' /\ (BindOnce /\ EntryIsServed => EntryIsServed')
  <1> DEFINE own == sess[c]
             t == Target(c)
             u == want[c]
  <1>0. pc[c] = "bind_own" /\ CanWrite(own)
    BY DEF BindMove, Goto
  <1>1. u \in Users /\ t \in Conns /\ own \in Conns /\ auth[t] = u /\ <<c, u>> \in BindAs /\ registry[u] = t
    BY <1>0, ZenonT(30)
       DEF IInv, RefsAlive, TypeOK, RegistryAuthenticated, Target, JInv, GuestsBound, BindPcs
  <1>2. own # t
    BY <1>0 DEF CanWrite, WriteHeld
  <1>3. /\ sess' = [sess EXCEPT ![c] = t] /\ pc' = [pc EXCEPT ![c] = "bind_reply"]
        /\ \A s \in Conns \ {own, t} : conns'[s] = conns[s]
        /\ conns'[own] = Detach(conns[own], c)
        /\ conns'[t] = Append(conns[t], c)
        /\ UNCHANGED <<want, auth, registry>>
    BY <1>1, <1>2 DEF BindMove, Goto, IInv, TypeOK, taskVars
  <1> HIDE DEF t, u, own
  <1>4. conns'[t] # <<>>
    <2>1. conns[t] \in Seq(Conns)
      BY <1>1 DEF IInv, TypeOK
    <2> QED BY <1>3, <2>1, AppendProperties
  <1>5. /\ \A d \in Conns : d # c => pc'[d] = pc[d] /\ sess'[d] = sess[d]
        /\ pc'[c] = "bind_reply" /\ sess'[c] = t
    BY <1>3 DEF IInv, TypeOK
  <1>6. GuestsBound'
    BY <1>1, <1>3, <1>5 DEF JInv, GuestsBound, u, BindPcs
  <1>7. LastOneOut'
    <2> SUFFICES ASSUME NEW d \in Conns, pc'[d] = "unregister"
                 PROVE  /\ conns'[sess'[d]] = <<>>
                        /\ \A e \in Conns : pc'[e] \in {"bind_own", "bind_refuse"} => Target(e)' # sess'[d]
      BY DEF LastOneOut
    <2>1. pc[d] = "unregister" /\ d # c /\ sess'[d] = sess[d] /\ sess[d] \in Conns
      BY <1>5 DEF IInv, TypeOK
    <2>2. sess[d] # t
      BY <1>0, <2>1 DEF JInv, LastOneOut, t
    <2>3. sess[d] # own
      BY <1>0, <2>1 DEF CanWrite, WriteHeld, own
    <2>4. conns'[sess[d]] = <<>>
      BY <1>3, <2>1, <2>2, <2>3 DEF JInv, LastOneOut
    <2>5. \A e \in Conns : pc'[e] \in {"bind_own", "bind_refuse"} =>
                             pc[e] = pc'[e] /\ Target(e)' = Target(e)
      BY <1>3, <1>5 DEF Target
    <2> QED BY <2>1, <2>4, <2>5 DEF JInv, LastOneOut
  <1>8. HasEntry'
    <2> SUFFICES ASSUME NEW s \in Conns, auth[s] # None, OneSession(auth[s])
                 PROVE  \/ registry[auth[s]] # None
                        \/ \E d \in Conns : pc'[d] \in {"auth_reread", "auth_insert"} /\ sess'[d] = s
                        \/ conns'[s] = <<>>
      BY <1>3 DEF HasEntry, OneSession
    <2>1. CASE s = t
      BY <1>1, <2>1, SessionsAssumption DEF SessionsAssumption
    <2>2. CASE s # t
      <3>1. conns[s] = <<>> => conns'[s] = <<>>
        <4>1. CASE s = own
          BY <1>3, <4>1 DEF Detach, Contains
        <4>2. CASE s # own
          BY <1>3, <2>2, <4>2
        <4> QED BY <4>1, <4>2
      <3>2. \A d \in Conns : pc[d] \in {"auth_reread", "auth_insert"} => pc'[d] = pc[d] /\ sess'[d] = sess[d]
        BY <1>0, <1>5
      <3> QED BY <3>1, <3>2 DEF JInv, HasEntry
    <2> QED BY <2>1, <2>2
  <1>9. ASSUME BindOnce, EntryIsServed PROVE EntryIsServed'
    <2> SUFFICES ASSUME NEW v \in Users, registry[v] # None
                 PROVE  \/ conns'[registry[v]] # <<>>
                        \/ \E d \in Conns : pc'[d] = "unregister" /\ sess'[d] = registry[v]
                        \/ Left(registry[v])'
      BY <1>3 DEF EntryIsServed
    <2> DEFINE s == registry[v]
    <2>1. auth[s] = v /\ s \in Conns
      BY DEF IInv, RegistryAuthenticated, TypeOK
    <2>2. CASE s = t
      BY <1>4, <2>2
    <2>3. CASE s # t /\ c = s
      BY <1>3, <1>5, <2>3 DEF Left
    <2>4. CASE s # t /\ c # s /\ own # s
      <3>1. conns'[s] = conns[s] /\ (Left(s) => Left(s)')
        BY <1>3, <1>5, <2>1, <2>4 DEF Left
      <3>2. \A d \in Conns : pc[d] = "unregister" => pc'[d] = "unregister" /\ sess'[d] = sess[d]
        BY <1>0, <1>5
      <3>3. \/ conns[s] # <<>>
            \/ \E d \in Conns : pc[d] = "unregister" /\ sess[d] = s
            \/ Left(s)
        BY <1>9 DEF EntryIsServed
      <3> HIDE DEF s
      <3> QED BY <3>1, <3>2, <3>3 DEF s
    <2>5. CASE s # t /\ c # s /\ own = s
      <3>1. <<c, v>> \in BindAs
        BY <2>1, <2>5 DEF JInv, GuestsBound, own
      <3>2. v = u
        BY <1>1, <1>9, <3>1 DEF BindOnce
      <3> QED BY <1>1, <2>5, <3>2
    <2> QED BY <2>2, <2>3, <2>4, <2>5
  <1> QED BY <1>6, <1>7, <1>8, <1>9 DEF JInv

LEMMA JWorkNotify ==
    ASSUME IInv, JInv, NEW c \in Conns, WorkNotify(c)
    PROVE  JInv' /\ (EntryIsServed => EntryIsServed')
  <1>1. UNCHANGED <<sess, want, auth, conns, registry>> /\ pc' = pc
    BY DEF WorkNotify, Goto, handlerVars, IInv, TypeOK
  <1> QED BY <1>1 DEF JInv, GuestsBound, LastOneOut, HasEntry, EntryIsServed, OneSession, Left, Target

LEMMA JCleanupDetach ==
    ASSUME IInv, JInv, NEW c \in Conns, CleanupDetach(c)
    PROVE  JInv' /\ (EntryIsServed => EntryIsServed')
  <1> DEFINE s == sess[c]
  <1>1. /\ s \in Conns /\ pc[c] = "closing"
        /\ \A x \in Conns \ {s} : conns'[x] = conns[x]
        /\ \/ pc' = [pc EXCEPT ![c] = "unregister"] /\ auth[s] # None /\ conns'[s] = <<>>
           \/ pc' = [pc EXCEPT ![c] = "gone"] /\ (auth[s] = None \/ conns'[s] # <<>>)
        /\ UNCHANGED <<sess, want, auth, registry>>
    BY DEF CleanupDetach, IInv, TypeOK, taskVars
  <1>2. /\ \A d \in Conns : pc[d] \in {"bind_own", "bind_refuse"} => Target(d) # s
        /\ \A d \in Conns : pc[d] = "unregister" => sess[d] # s
    BY DEF CleanupDetach, CanWrite, WriteHeld
  <1>3. conns[s] # <<>>
    <2>1. c \in ToSet(conns[s])
      BY <1>1 DEF IInv, ListedExactlyHome, Live, GonePcs
    <2> QED BY <2>1 DEF ToSet
  <1>3a. /\ \A d \in Conns : d # c => pc'[d] = pc[d]
         /\ pc'[c] \in {"unregister", "gone"}
         /\ pc'[c] = "unregister" => conns'[s] = <<>>
         /\ pc'[c] = "gone" => auth[s] = None \/ conns'[s] # <<>>
    BY <1>1 DEF IInv, TypeOK
  <1> HIDE DEF s
  <1>4. GuestsBound'
    BY <1>1, <1>3a DEF JInv, GuestsBound, BindPcs
  <1>5. LastOneOut'
    <2> SUFFICES ASSUME NEW d \in Conns, pc'[d] = "unregister"
                 PROVE  /\ conns'[sess[d]] = <<>>
                        /\ \A e \in Conns : pc'[e] \in {"bind_own", "bind_refuse"} => Target(e) # sess[d]
      BY <1>1 DEF LastOneOut, Target
    <2>1. CASE d = c
      BY <1>2, <1>3a, <2>1 DEF s
    <2>2. CASE d # c
      <3>1. pc[d] = "unregister" /\ sess[d] \in Conns
        BY <1>3a, <2>2 DEF IInv, TypeOK
      <3> QED BY <1>1, <1>2, <1>3a, <3>1 DEF JInv, LastOneOut
    <2> QED BY <2>1, <2>2
  <1>6. HasEntry'
    <2> SUFFICES ASSUME NEW x \in Conns, auth[x] # None, OneSession(auth[x])
                 PROVE  \/ registry[auth[x]] # None
                        \/ \E d \in Conns : pc'[d] \in {"auth_reread", "auth_insert"} /\ sess[d] = x
                        \/ conns'[x] = <<>>
      BY <1>1 DEF HasEntry, OneSession
    <2>1. \A d \in Conns : pc[d] \in {"auth_reread", "auth_insert"} => pc'[d] = pc[d]
      BY <1>1, <1>3a
    <2>2. conns[x] = <<>> => conns'[x] = <<>>
      BY <1>1, <1>3
    <2> QED BY <2>1, <2>2 DEF JInv, HasEntry
  <1>7. EntryIsServed => EntryIsServed'
    <2> SUFFICES ASSUME EntryIsServed, NEW v \in Users, registry[v] # None
                 PROVE  \/ conns'[registry[v]] # <<>>
                        \/ \E d \in Conns : pc'[d] = "unregister" /\ sess[d] = registry[v]
                        \/ Left(registry[v])
      BY <1>1 DEF EntryIsServed, Left
    <2>1. auth[registry[v]] = v /\ registry[v] \in Conns /\ v # None
      BY SessionsAssumption DEF SessionsAssumption, IInv, RegistryAuthenticated, TypeOK
    <2>2. CASE registry[v] = s
      BY <1>3a, <2>1, <2>2 DEF s
    <2>3. CASE registry[v] # s
      <3>1. conns'[registry[v]] = conns[registry[v]]
        BY <1>1, <2>1, <2>3
      <3>2. \A d \in Conns : pc[d] = "unregister" => pc'[d] = "unregister"
        BY <1>1, <1>3a
      <3> QED BY <3>1, <3>2 DEF EntryIsServed
    <2> QED BY <2>2, <2>3
  <1> QED BY <1>4, <1>5, <1>6, <1>7 DEF JInv

LEMMA JCleanupRemove ==
    ASSUME IInv, JInv, NEW c \in Conns, CleanupRemove(c)
    PROVE  JInv' /\ (EntryIsServed => EntryIsServed')
  <1> DEFINE s == sess[c]
             u == auth[s]
  <1>1. /\ s \in Conns /\ pc[c] = "unregister" /\ u \in Users /\ u # None
        /\ registry' = [registry EXCEPT ![u] = None] /\ pc' = [pc EXCEPT ![c] = "gone"]
        /\ UNCHANGED <<sess, want, auth, conns>>
    BY DEF CleanupRemove, IInv, TypeOK, UnregisterAuth, taskVars
  <1>2. \A d \in Conns : pc[d] \in BindPcs => Target(d)' = Target(d)
    <2> SUFFICES ASSUME NEW d \in Conns, pc[d] \in BindPcs PROVE registry'[want[d]] = registry[want[d]]
      BY <1>1 DEF Target
    <2>1. want[d] # u /\ want[d] \in Users
      BY DEF CleanupRemove, RefHeld, IInv, RefsAlive
    <2> HIDE DEF s, u
    <2> QED BY <1>1, <2>1 DEF IInv, TypeOK
  <1>3. conns[s] = <<>>
    BY <1>1 DEF JInv, LastOneOut
  <1> HIDE DEF s
  <1>4. /\ \A d \in Conns : d # c => pc'[d] = pc[d]
        /\ pc'[c] = "gone"
        /\ \A v \in Users : v # u => registry'[v] = registry[v]
        /\ registry'[u] = None
    BY <1>1 DEF IInv, TypeOK
  <1>5. GuestsBound'
    BY <1>1, <1>4 DEF JInv, GuestsBound, BindPcs
  <1>6. LastOneOut'
    BY <1>1, <1>2, <1>4 DEF JInv, LastOneOut, BindPcs
  <1>7. HasEntry'
    <2> SUFFICES ASSUME NEW x \in Conns, auth[x] # None, OneSession(auth[x])
                 PROVE  \/ registry'[auth[x]] # None
                        \/ \E d \in Conns : pc'[d] \in {"auth_reread", "auth_insert"} /\ sess[d] = x
                        \/ conns[x] = <<>>
      BY <1>1 DEF HasEntry, OneSession
    <2>1. CASE auth[x] = u
      <3>1. x = s
        BY <1>1, <2>1 DEF OneSession
      <3> QED BY <1>3, <3>1
    <2>2. CASE auth[x] # u
      <3>1. auth[x] \in Users /\ registry'[auth[x]] = registry[auth[x]]
        BY <1>4, <2>2 DEF IInv, TypeOK
      <3>2. \A d \in Conns : pc[d] \in {"auth_reread", "auth_insert"} => pc'[d] = pc[d]
        BY <1>1, <1>4
      <3> QED BY <3>1, <3>2 DEF JInv, HasEntry
    <2> QED BY <2>1, <2>2
  <1>8. EntryIsServed => EntryIsServed'
    <2> SUFFICES ASSUME EntryIsServed, NEW v \in Users, registry'[v] # None
                 PROVE  \/ conns[registry[v]] # <<>>
                        \/ \E d \in Conns : pc'[d] = "unregister" /\ sess[d] = registry[v]
                        \/ Left(registry[v])
      BY <1>1, <1>4 DEF EntryIsServed, Left
    <2>1. v # u /\ registry'[v] = registry[v]
      BY <1>4
    <2>2. auth[registry[v]] = v
      BY <2>1 DEF IInv, RegistryAuthenticated
    <2>3. registry[v] # s
      BY <2>1, <2>2
    <2>4. \A d \in Conns : pc[d] = "unregister" /\ sess[d] = registry[v] => pc'[d] = "unregister"
      BY <1>4, <2>3 DEF s
    <2> QED BY <2>1, <2>4 DEF EntryIsServed
  <1> QED BY <1>5, <1>6, <1>7, <1>8 DEF JInv

LEMMA JPreserved ==
    IInv /\ JInv /\ [Next]_vars => JInv' /\ (BindOnce /\ EntryIsServed => EntryIsServed')
  <1> SUFFICES ASSUME IInv, JInv, [Next]_vars
               PROVE  JInv' /\ (BindOnce /\ EntryIsServed => EntryIsServed')
    OBVIOUS
  <1>1. ASSUME NEW c \in Conns, ClientStep(c)
        PROVE  JInv' /\ (EntryIsServed => EntryIsServed')
    BY <1>1, JAccept, JBindRequest, JMovesAll DEF ClientStep
  <1>2. ASSUME NEW c \in Conns, HandlerStep(c)
        PROVE  JInv' /\ (BindOnce /\ EntryIsServed => EntryIsServed')
    BY <1>2, JAuthSucceeds, JAuthInsert, JBindMove, JBindReply, JWorkNotify, JMovesAll DEF HandlerStep
  <1>3. ASSUME NEW c \in Conns, CleanupStep(c)
        PROVE  JInv' /\ (EntryIsServed => EntryIsServed')
    BY <1>3, JCleanupDetach, JCleanupRemove DEF CleanupStep
  <1>4. CASE UNCHANGED <<pc, handlerVars>>
    BY <1>4 DEF handlerVars, JInv, GuestsBound, LastOneOut, HasEntry, EntryIsServed,
       OneSession, Left, Target
  <1> QED BY <1>1, <1>2, <1>3, <1>4
      DEF Next, vars, handlerVars, Drain, EventStep, EventGet, EventLock, EventPush

LEMMA JInvHolds == Spec => [](IInv /\ JInv)
  BY InitEstablishes, JEstablished, NextPreserves, JPreserved, PTL DEF Spec

LEMMA ServedHolds == ASSUME BindOnce PROVE Spec => [](IInv /\ EntryIsServed)
  <1>1. IInv /\ JInv /\ EntryIsServed /\ [Next]_vars => EntryIsServed'
    BY JPreserved
  <1> QED BY <1>1, JInvHolds, JEstablished, PTL DEF Spec

(* A task that gets the guard of a session finds a connection there: an    *)
(* empty list has its entry only while its cleanup holds the guard, or     *)
(* when its session was left.                                              *)
LEMMA EventLockServed ==
    ASSUME IInv, EntryIsServed, [Next]_vars
    PROVE  \A e \in Events : task[e] # "panicked" /\ task'[e] = "panicked" => Left(Dest(e))
  <1> SUFFICES ASSUME NEW e \in Events, task[e] # "panicked", task'[e] = "panicked"
               PROVE  Left(Dest(e))
    OBVIOUS
  <1>1. task \in [Events -> TaskStates]
    BY DEF IInv, TypeOK
  <1>2. ~\E c \in Conns : ClientStep(c) \/ HandlerStep(c) \/ CleanupStep(c) \/ Drain(c)
    <2>1. ASSUME NEW c \in Conns, ClientStep(c) \/ HandlerStep(c) \/ CleanupStep(c) \/ Drain(c)
          PROVE  task' = task \/ WorkNotify(c)
      BY <2>1 DEF ClientStep, HandlerStep, CleanupStep, Drain, taskVars,
         Accept, AuthRequest, OtherRequest, BindRequest, Close, AuthCheck, AuthLock,
         AuthSucceeds, AuthFails, AuthReread, AuthInsert, AuthReply, BindLock, BindMove,
         BindReply, RequestCheck, RequestCreds, FetchDone, WorkDone, Reply,
         CleanupDetach, CleanupRemove
    <2>2. ASSUME NEW c \in Conns, WorkNotify(c) PROVE task'[e] # "panicked"
      BY <1>1, <2>2 DEF WorkNotify
    <2> QED BY <2>1, <2>2
  <1>3. PICK f \in Events : EventStep(f)
    BY <1>2 DEF Next, vars
  <1>4. EventLock(f) /\ f = e /\ conns[Dest(e)] = <<>>
    BY <1>1, <1>3 DEF EventStep, EventGet, EventLock, EventPush
  <1>5. Head(todo[e]) \in Users /\ Dest(e) # None
    BY <1>4 DEF EventLock, IInv, RefsAlive, TypeOK
  <1>6. ~\E c \in Conns : pc[c] = "unregister" /\ sess[c] = Dest(e)
    BY <1>4 DEF EventLock, CanWrite, WriteHeld
  <1> QED BY <1>4, <1>5, <1>6 DEF EntryIsServed, Dest

LEMMA EntryForLive == IInv /\ JInv => SharersStayRegistered
  <1> SUFFICES ASSUME IInv, JInv, NEW c \in Conns, Live(c), auth[sess[c]] # None, OneSession(auth[sess[c]])
               PROVE  \/ registry[auth[sess[c]]] # None
                      \/ \E d \in Conns : pc[d] \in {"auth_reread", "auth_insert"} /\ sess[d] = sess[c]
    BY DEF SharersStayRegistered
  <1>1. sess[c] \in Conns /\ c \in ToSet(conns[sess[c]])
    BY DEF IInv, TypeOK, ListedExactlyHome
  <1>2. conns[sess[c]] # <<>>
    BY <1>1 DEF ToSet
  <1> QED BY <1>1, <1>2 DEF JInv, HasEntry

(* A user who is logged in on one session has an entry in the registry as  *)
(* long as that session has a live connection, also while connections of   *)
(* that user come, bind or go, and whatever other users do.                *)
THEOREM SharersAreRegistered == Spec => []SharersStayRegistered
  BY JInvHolds, EntryForLive, PTL

(* If a connection binds to one user only: an entry goes when the last     *)
(* connection of its session goes, unless its first one was bound away.    *)
THEOREM EntryStaysServed == ASSUME BindOnce PROVE Spec => []EntryIsServed
  BY ServedHolds, PTL

(* If a connection binds to one user only: no task that delivers events    *)
(* indexes an empty list, unless its session was bound away from.          *)
THEOREM EventTasksPanicOnlyWhenLeft == ASSUME BindOnce PROVE Spec => PanicsOnlyWhenLeft
  <1>1. IInv /\ EntryIsServed /\ [Next]_vars =>
          \A e \in Events : task[e] # "panicked" /\ task'[e] = "panicked" => Left(Dest(e))
    BY EventLockServed
  <1> QED BY <1>1, ServedHolds, PTL DEF Spec, PanicsOnlyWhenLeft

-----------------------------------------------------------------------------
(***************************************************************************)
(* The pool of database connections: its inductive invariant.              *)
(***************************************************************************)

(* The count of a bucket is its users, and one for the first bucket.       *)
CountIsHolders ==
    \A b \in Buckets :
        rc[b] = Cardinality(Holders(b)) + (IF b = First THEN 1 ELSE 0)

WithinCapacity == \A b \in Buckets : rc[b] <= Capacity

(* A handler has a bucket of the pool, and the pool keeps its first one.   *)
HoldersInPool ==
    /\ First \in ToSet(buckets)
    /\ \A s \in Sockets : socket[s] = "served" => bucketOf[s] \in ToSet(buckets)

(* The socket a loop works for waits for it, and for no other loop.        *)
CurrentWaits ==
    \A l \in Loops : loop[l] # "accept" =>
        /\ current[l] \in Sockets
        /\ socket[current[l]] = "accepted"
        /\ LoopOf[current[l]] = l

PoolIInv ==
    /\ PoolTypeOK
    /\ CountIsHolders
    /\ WithinCapacity
    /\ HoldersInPool
    /\ CurrentWaits

-----------------------------------------------------------------------------
(* Holders                                                                 *)

LEMMA HoldersFinite ==
    ASSUME NEW b \in Buckets
    PROVE  IsFiniteSet(Holders(b)) /\ Cardinality(Holders(b)) \in Nat
<1>1. Holders(b) \subseteq Sockets
  BY DEF Holders
<1> QED BY <1>1, PoolAssumption, FS_Subset, FS_CardinalityType DEF PoolAssumption

(* Serving a socket adds it to one bucket and to no other.                 *)
LEMMA ServeHolders ==
    ASSUME PoolTypeOK, NEW s \in Sockets, NEW b \in Buckets, socket[s] = "accepted", Serve(s, b)
    PROVE  /\ Cardinality(Holders(b))' = Cardinality(Holders(b)) + 1
           /\ \A d \in Buckets \ {b} : Holders(d)' = Holders(d)
<1>1. Holders(b)' = Holders(b) \cup {s} /\ s \notin Holders(b)
  BY DEF Holders, Serve, PoolTypeOK
<1>2. \A d \in Buckets \ {b} : Holders(d)' = Holders(d)
  BY DEF Holders, Serve, PoolTypeOK
<1>3. Cardinality(Holders(b) \cup {s}) = Cardinality(Holders(b)) + 1
  BY <1>1, HoldersFinite, FS_AddElement
<1> QED BY <1>1, <1>2, <1>3

-----------------------------------------------------------------------------
(* Sorting equal counts moves nothing.                                     *)

LEMMA SortEqualCounts ==
    ASSUME PoolTypeOK, NEW n \in Nat, \A i \in DOMAIN buckets : rc[buckets[i]] = n
    PROVE  SortedByCount(buckets) = buckets
<1>1. Len(buckets) \in Nat /\ DOMAIN buckets = 1..Len(buckets)
  BY LenProperties DEF PoolTypeOK
<1>2. ASSUME NEW i \in DOMAIN buckets PROVE Rank(buckets, i) = i
  <2>1. {j \in DOMAIN buckets :
            \/ rc[buckets[j]] < rc[buckets[i]]
            \/ rc[buckets[j]] = rc[buckets[i]] /\ j <= i} = 1..i
    BY <1>1
  <2>2. Cardinality(1..i) = i
    BY <1>1, FS_Interval
  <2> QED BY <2>1, <2>2 DEF Rank
<1>3. ASSUME NEW k \in DOMAIN buckets
      PROVE  (CHOOSE i \in DOMAIN buckets : Rank(buckets, i) = k) = k
  BY <1>2
<1>4. SortedByCount(buckets) = [k \in DOMAIN buckets |-> buckets[k]]
  <2> DEFINE At(k) == CHOOSE i \in DOMAIN buckets : Rank(buckets, i) = k
  <2>1. \A k \in DOMAIN buckets : At(k) = k
    BY <1>3
  <2> HIDE DEF At
  <2>2. [k \in DOMAIN buckets |-> buckets[At(k)]] = [k \in DOMAIN buckets |-> buckets[k]]
    BY <2>1
  <2> QED BY <2>2 DEF SortedByCount, At
<1>5. buckets = [k \in DOMAIN buckets |-> buckets[k]]
  BY LenProperties DEF PoolTypeOK
<1> QED BY <1>4, <1>5

LEMMA BuildSorts == ASSUME PoolIInv, NEW l \in Loops, StartBuild(l) PROVE buckets' = buckets
<1>1. \A i \in DOMAIN buckets : buckets[i] \in Buckets
  BY LenProperties, ElementOfSeq DEF PoolIInv, PoolTypeOK
<1>2. \A i \in DOMAIN buckets : rc[buckets[i]] = Capacity
  BY <1>1, PoolAssumption DEF StartBuild, IsFull, PoolIInv, WithinCapacity, PoolTypeOK, PoolAssumption
<1> QED BY <1>2, SortEqualCounts, PoolAssumption DEF StartBuild, PoolIInv, PoolAssumption

-----------------------------------------------------------------------------
LEMMA PoolInitEstablishes == PoolInit => PoolIInv
<1> SUFFICES ASSUME PoolInit PROVE PoolIInv
  OBVIOUS
<1> USE PoolAssumption DEF PoolAssumption, PoolInit
<1>1. PoolTypeOK
  <2>1. <<First>> \in Seq(Buckets)
    OBVIOUS
  <2> QED BY <2>1 DEF PoolTypeOK
<1>2. CountIsHolders
  <2>1. \A b \in Buckets : Holders(b) = {}
    BY DEF Holders
  <2> QED BY <2>1, FS_EmptySet DEF CountIsHolders
<1>3. WithinCapacity /\ CurrentWaits
  BY DEF WithinCapacity, CurrentWaits
<1>4. HoldersInPool
  BY DEF HoldersInPool, ToSet
<1> QED BY <1>1, <1>2, <1>3, <1>4 DEF PoolIInv

LEMMA AcceptSocketStep == ASSUME PoolIInv, NEW l \in Loops, AcceptSocket(l) PROVE PoolIInv'
<1> USE PoolAssumption DEF PoolAssumption, PoolIInv
<1>1. PICK s \in Sockets :
        /\ socket[s] = "new" /\ LoopOf[s] = l
        /\ socket' = [socket EXCEPT ![s] = "accepted"]
        /\ current' = [current EXCEPT ![l] = s]
  BY DEF AcceptSocket
<1>2. loop' = [loop EXCEPT ![l] = "wait"] /\ UNCHANGED <<bucketOf, buckets, rc>>
  BY DEF AcceptSocket
<1>3. PoolTypeOK'
  BY <1>1, <1>2 DEF PoolTypeOK
<1>4. \A b \in Buckets : Holders(b)' = Holders(b)
  BY <1>1, <1>2 DEF Holders, PoolTypeOK
<1>5. CountIsHolders' /\ WithinCapacity'
  BY <1>2, <1>4 DEF CountIsHolders, WithinCapacity
<1>6. HoldersInPool' /\ CurrentWaits'
  BY <1>1, <1>2 DEF HoldersInPool, CurrentWaits, PoolTypeOK
<1> QED BY <1>3, <1>5, <1>6

LEMMA TakeStep == ASSUME PoolIInv, NEW l \in Loops, TakeBucket(l) PROVE PoolIInv'
<1> USE PoolAssumption DEF PoolAssumption, PoolIInv
<1>1. PICK i \in DOMAIN buckets :
        /\ ~IsFull(buckets[i])
        /\ rc' = [rc EXCEPT ![buckets[i]] = @ + 1]
        /\ Serve(current[l], buckets[i])
  BY DEF TakeBucket
<1> DEFINE b == buckets[i]
           s == current[l]
<1>2. /\ loop[l] = "wait" /\ loop' = [loop EXCEPT ![l] = "accept"]
      /\ current' = [current EXCEPT ![l] = Nil] /\ UNCHANGED buckets
  BY DEF TakeBucket
<1>3. b \in Buckets /\ b \in ToSet(buckets)
  BY LenProperties, ElementOfSeq DEF PoolTypeOK, ToSet
<1>4. s \in Sockets /\ socket[s] = "accepted" /\ LoopOf[s] = l
  BY <1>2 DEF CurrentWaits
<1> HIDE DEF b, s
<1>5. /\ rc' = [rc EXCEPT ![b] = @ + 1] /\ Serve(s, b) /\ ~IsFull(b)
  BY <1>1 DEF b, s
<1>6. PoolTypeOK'
  BY <1>2, <1>3, <1>4, <1>5 DEF PoolTypeOK, Serve
<1>7. CountIsHolders'
  BY SMTT(30), <1>3, <1>4, <1>5, ServeHolders, HoldersFinite DEF CountIsHolders, PoolTypeOK
<1>8. WithinCapacity'
  BY <1>3, <1>5 DEF WithinCapacity, IsFull, PoolTypeOK
<1>9. HoldersInPool'
  BY <1>2, <1>3, <1>4, <1>5 DEF HoldersInPool, Serve, PoolTypeOK
<1>10. CurrentWaits'
  BY <1>2, <1>4, <1>5 DEF CurrentWaits, Serve, PoolTypeOK
<1> QED BY <1>6, <1>7, <1>8, <1>9, <1>10

LEMMA StartBuildStep == ASSUME PoolIInv, NEW l \in Loops, StartBuild(l) PROVE PoolIInv'
<1>1. /\ loop[l] = "wait" /\ loop' = [loop EXCEPT ![l] = "build"]
      /\ UNCHANGED <<socket, bucketOf, current, rc>>
  BY DEF StartBuild
<1>2. buckets' = buckets
  BY BuildSorts
<1>3. PoolTypeOK'
  BY <1>1, <1>2 DEF PoolIInv, PoolTypeOK
<1>4. CountIsHolders' /\ WithinCapacity' /\ HoldersInPool' /\ CurrentWaits'
  BY <1>1, <1>2 DEF PoolIInv, PoolTypeOK, CountIsHolders, Holders, WithinCapacity, HoldersInPool, CurrentWaits
<1> QED BY <1>3, <1>4 DEF PoolIInv

LEMMA FinishBuildStep == ASSUME PoolIInv, NEW l \in Loops, FinishBuild(l) PROVE PoolIInv'
<1> USE PoolAssumption DEF PoolAssumption, PoolIInv
<1> DEFINE s == current[l]
<1>1. PICK b \in Buckets \ ToSet(buckets) :
        /\ buckets' = Append(buckets, b)
        /\ rc' = [rc EXCEPT ![b] = 1]
        /\ Serve(s, b)
  BY DEF FinishBuild
<1>2. /\ loop[l] = "build" /\ loop' = [loop EXCEPT ![l] = "accept"]
      /\ current' = [current EXCEPT ![l] = Nil]
  BY DEF FinishBuild
<1>3. s \in Sockets /\ socket[s] = "accepted" /\ LoopOf[s] = l
  BY <1>2 DEF CurrentWaits
<1> HIDE DEF s
<1>4. /\ buckets' \in Seq(Buckets) /\ ToSet(buckets') = ToSet(buckets) \cup {b}
  <2>1. /\ Append(buckets, b) \in Seq(Buckets) /\ Len(Append(buckets, b)) = Len(buckets) + 1
        /\ \A j \in 1..Len(buckets) : Append(buckets, b)[j] = buckets[j]
        /\ Append(buckets, b)[Len(buckets) + 1] = b
        /\ Len(buckets) \in Nat /\ DOMAIN buckets = 1..Len(buckets)
        /\ DOMAIN Append(buckets, b) = 1..(Len(buckets) + 1)
    BY AppendProperties, LenProperties DEF PoolTypeOK
  <2>2. ToSet(Append(buckets, b)) = ToSet(buckets) \cup {b}
    BY <2>1 DEF ToSet
  <2> QED BY <1>1, <2>1, <2>2
<1>5. PoolTypeOK'
  BY <1>1, <1>2, <1>3, <1>4 DEF PoolTypeOK, Serve
<1>6. CountIsHolders'
  <2>1. b # First /\ Holders(b) = {} /\ Cardinality(Holders(b)) = 0
    <3>1. b # First /\ Holders(b) = {}
      BY <1>1 DEF HoldersInPool, Holders
    <3> QED BY <3>1, FS_EmptySet
  <2>2. /\ Cardinality(Holders(b))' = Cardinality(Holders(b)) + 1
        /\ \A d \in Buckets \ {b} : Holders(d)' = Holders(d)
    BY <1>1, <1>3, ServeHolders
  <2> SUFFICES ASSUME NEW d \in Buckets
               PROVE  rc'[d] = Cardinality(Holders(d))' + (IF d = First THEN 1 ELSE 0)
    BY DEF CountIsHolders
  <2>3. CASE d = b
    BY <1>1, <2>1, <2>2, <2>3 DEF PoolTypeOK
  <2>4. CASE d # b
    <3>1. rc'[d] = rc[d] /\ Cardinality(Holders(d))' = Cardinality(Holders(d))
      BY <1>1, <2>2, <2>4 DEF PoolTypeOK
    <3> QED BY <3>1 DEF CountIsHolders
  <2> QED BY <2>3, <2>4
<1>7. WithinCapacity'
  BY <1>1 DEF WithinCapacity, PoolTypeOK
<1>8. HoldersInPool'
  BY <1>1, <1>3, <1>4 DEF HoldersInPool, Serve, PoolTypeOK
<1>9. CurrentWaits'
  BY <1>1, <1>2, <1>3 DEF CurrentWaits, Serve, PoolTypeOK
<1> QED BY <1>5, <1>6, <1>7, <1>8, <1>9

LEMMA DropStep == ASSUME PoolIInv, NEW s \in Sockets, DropHandler(s) PROVE PoolIInv'
<1> USE PoolAssumption DEF PoolAssumption, PoolIInv
<1>0. PICK b \in Buckets : bucketOf[s] = b
  <2>1. \A d \in ToSet(buckets) : d \in Buckets
    BY LenProperties, ElementOfSeq DEF PoolTypeOK, ToSet
  <2> QED BY <2>1 DEF HoldersInPool, DropHandler
<1>1. /\ socket[s] = "served" /\ socket' = [socket EXCEPT ![s] = "closed"]
      /\ rc' = [rc EXCEPT ![b] = @ - 1]
      /\ UNCHANGED <<bucketOf, loop, current, buckets>>
  BY <1>0 DEF DropHandler
<1>2. /\ Holders(b)' = Holders(b) \ {s} /\ s \in Holders(b)
      /\ \A d \in Buckets \ {b} : Holders(d)' = Holders(d)
  BY <1>0, <1>1 DEF Holders, PoolTypeOK
<1>3. Cardinality(Holders(b))' = Cardinality(Holders(b)) - 1 /\ Cardinality(Holders(b)) \in Nat \ {0}
  <2>1. Cardinality(Holders(b) \ {s}) = Cardinality(Holders(b)) - 1
    BY <1>2, HoldersFinite, FS_RemoveElement
  <2>2. Holders(b) # {}
    BY <1>2
  <2> QED BY <1>2, <2>1, <2>2, HoldersFinite, FS_EmptySet
<1>4. rc[b] \in Nat \ {0}
  BY <1>3 DEF CountIsHolders, PoolTypeOK
<1>5. PoolTypeOK'
  BY <1>1, <1>4 DEF PoolTypeOK
<1>6. CountIsHolders'
  <2> SUFFICES ASSUME NEW d \in Buckets
               PROVE  rc'[d] = Cardinality(Holders(d))' + (IF d = First THEN 1 ELSE 0)
    BY DEF CountIsHolders
  <2>1. rc[d] = Cardinality(Holders(d)) + (IF d = First THEN 1 ELSE 0)
    BY DEF CountIsHolders
  <2>2. CASE d = b
    <3>1. rc'[b] = rc[b] - 1
      BY <1>1 DEF PoolTypeOK
    <3> QED BY <1>3, <2>1, <2>2, <3>1
  <2>3. CASE d # b
    <3>1. rc'[d] = rc[d] /\ Cardinality(Holders(d))' = Cardinality(Holders(d))
      BY <1>1, <1>2, <2>3 DEF PoolTypeOK
    <3> QED BY <2>1, <3>1
  <2> QED BY <2>2, <2>3
<1>7. WithinCapacity'
  BY <1>1 DEF WithinCapacity, PoolTypeOK
<1>8. HoldersInPool' /\ CurrentWaits'
  BY <1>1 DEF HoldersInPool, CurrentWaits, PoolTypeOK
<1> QED BY <1>5, <1>6, <1>7, <1>8

LEMMA PoolNextPreserves == PoolIInv /\ [PoolNext]_poolVars => PoolIInv'
<1> SUFFICES ASSUME PoolIInv, [PoolNext]_poolVars PROVE PoolIInv'
  OBVIOUS
<1>1. CASE UNCHANGED poolVars
  BY SMTT(30), <1>1
  DEF poolVars, PoolIInv, PoolTypeOK, CountIsHolders, Holders, WithinCapacity, HoldersInPool,
      CurrentWaits
<1> QED BY <1>1, AcceptSocketStep, TakeStep, StartBuildStep, FinishBuildStep, DropStep DEF PoolNext, LoopStep

LEMMA PoolIInvHolds == PoolSpec => []PoolIInv
BY PoolInitEstablishes, PoolNextPreserves, PTL DEF PoolSpec

-----------------------------------------------------------------------------
(* Every variable keeps its type; in particular no reference count falls   *)
(* below zero (AtomicUsize::fetch_sub would wrap).                         *)
THEOREM PoolTypeCorrect == PoolSpec => []PoolTypeOK
BY PoolIInvHolds, PTL DEF PoolIInv

(* No step changes the count of a bucket otherwise than by its users.      *)
THEOREM CountsFollow == PoolSpec => CountFollowsUsers
<1>1. PoolIInv /\ PoolIInv' =>
        \A b \in Buckets :
            rc'[b] + Cardinality(Holders(b)) = rc[b] + Cardinality(Holders(b))'
  <2> SUFFICES ASSUME PoolIInv, PoolIInv', NEW b \in Buckets
               PROVE  rc'[b] + Cardinality(Holders(b)) = rc[b] + Cardinality(Holders(b))'
    OBVIOUS
  <2>1. Cardinality(Holders(b)) \in Nat /\ Cardinality(Holders(b))' \in Nat
    <3>1. Holders(b) \subseteq Sockets /\ Holders(b)' \subseteq Sockets
      BY DEF Holders
    <3> QED BY <3>1, PoolAssumption, FS_Subset, FS_CardinalityType DEF PoolAssumption
  <2>2. /\ rc[b] = Cardinality(Holders(b)) + (IF b = First THEN 1 ELSE 0)
        /\ rc'[b] = Cardinality(Holders(b))' + (IF b = First THEN 1 ELSE 0)
    BY DEF PoolIInv, CountIsHolders
  <2> QED BY <2>1, <2>2
<1> QED BY <1>1, PoolIInvHolds, PTL DEF PoolSpec, CountFollowsUsers

(* No database connection ever serves more users than the capacity.        *)
THEOREM NeverOverloaded == PoolSpec => []NotOverloaded
<1>1. PoolIInv => NotOverloaded
  BY SMTT(30), HoldersFinite, PoolAssumption
     DEF PoolIInv, PoolTypeOK, CountIsHolders, WithinCapacity, NotOverloaded, PoolAssumption
<1> QED BY <1>1, PoolIInvHolds, PTL

(* The sort before a build leaves the buckets in place.                    *)
THEOREM SortIdle == PoolSpec => SortMovesNothing
<1>1. PoolIInv /\ [PoolNext]_poolVars => (\A l \in Loops : StartBuild(l) => buckets' = buckets)
  BY BuildSorts
<1> QED BY <1>1, PoolIInvHolds, PTL DEF PoolSpec, SortMovesNothing
=============================================================================
