-------------------------------- MODULE Pool --------------------------------
(***************************************************************************)
(* The pool of database connections.  Two accept loops (JSON, files) take  *)
(* a bucket for every socket they accept, under the mutex of the pool; a   *)
(* handler gives its place back when it is dropped.  The mutex is held     *)
(* while a new connection to the database is built.                        *)
(***************************************************************************)
EXTENDS Naturals, Sequences, SequencesExt, FiniteSets

CONSTANTS
    Sockets,    \* sockets of both listeners
    Loops,      \* the accept loops
    LoopOf,     \* the loop whose listener a socket comes through
    Buckets,    \* identities of DatabaseBuckets: bounds how many are built
    First,      \* the one DatabasePool::new builds
    Capacity,   \* is_full at this reference count (3 in the code)
    Nil

ASSUME PoolAssumption ==
    /\ IsFiniteSet(Sockets)
    /\ LoopOf \in [Sockets -> Loops]
    /\ First \in Buckets
    /\ Capacity \in Nat \ {0}
    /\ Nil \notin Buckets \cup Sockets

VARIABLES
    socket,    \* "new", "accepted", "served", "closed"
    bucketOf,  \* the bucket of a handler
    loop,      \* "accept", "wait" (for the mutex), "build" (holding it)
    current,   \* the socket a loop is finding a bucket for
    buckets,   \* DatabasePool.buckets
    rc         \* reference_count of a bucket

poolVars == <<socket, bucketOf, loop, current, buckets, rc>>

PoolInit ==
    /\ socket = [s \in Sockets |-> "new"]
    /\ bucketOf = [s \in Sockets |-> Nil]
    /\ loop = [l \in Loops |-> "accept"]
    /\ current = [l \in Loops |-> Nil]
    /\ buckets = <<First>>
    /\ rc = [b \in Buckets |-> IF b = First THEN 1 ELSE 0]

IsFull(b) == rc[b] >= Capacity

(* The users of a bucket: the live handlers that were given it.            *)
Holders(b) == {s \in Sockets : socket[s] = "served" /\ bucketOf[s] = b}

MutexFree == \A l \in Loops : loop[l] # "build"

(* Vec::sort_by_key, which is stable: an element moves to its rank.        *)
Rank(list, i) ==
    Cardinality({j \in DOMAIN list :
                    \/ rc[list[j]] < rc[list[i]]
                    \/ rc[list[j]] = rc[list[i]] /\ j <= i})

SortedByCount(list) ==
    [k \in DOMAIN list |-> list[CHOOSE i \in DOMAIN list : Rank(list, i) = k]]

Serve(s, b) ==
    /\ socket' = [socket EXCEPT ![s] = "served"]
    /\ bucketOf' = [bucketOf EXCEPT ![s] = b]

-----------------------------------------------------------------------------
(* listener.accept                                                         *)
AcceptSocket(l) ==
    /\ loop[l] = "accept"
    /\ \E s \in Sockets :
         /\ socket[s] = "new" /\ LoopOf[s] = l
         /\ socket' = [socket EXCEPT ![s] = "accepted"]
         /\ current' = [current EXCEPT ![l] = s]
    /\ loop' = [loop EXCEPT ![l] = "wait"]
    /\ UNCHANGED <<bucketOf, buckets, rc>>

(***************************************************************************)
(* A definition whose name ends in _Slip is not part of the specification: *)
(* it is the next definition with a plausible mistake, for which the       *)
(* property named in its comment must fail.                                *)
(***************************************************************************)

(* get_available_bucket: the first bucket with room is shared...           *)
TakeBucket(l) ==
    /\ loop[l] = "wait" /\ MutexFree
    /\ \E i \in DOMAIN buckets :
         /\ ~IsFull(buckets[i])
         /\ \A j \in DOMAIN buckets : j < i => IsFull(buckets[j])
         /\ rc' = [rc EXCEPT ![buckets[i]] = @ + 1]
         /\ Serve(current[l], buckets[i])
    /\ loop' = [loop EXCEPT ![l] = "accept"]
    /\ current' = [current EXCEPT ![l] = Nil]
    /\ UNCHANGED buckets

(* SortMovesNothing: one full bucket is enough to build another.           *)
StartBuild_EarlySlip(l) ==
    /\ loop[l] = "wait" /\ MutexFree
    /\ \E i \in DOMAIN buckets : IsFull(buckets[i])
    /\ buckets' = SortedByCount(buckets)
    /\ loop' = [loop EXCEPT ![l] = "build"]
    /\ UNCHANGED <<socket, bucketOf, current, rc>>

(* AcceptedIsServed: the socket is forgotten when no bucket has room.      *)
StartBuild_GiveUpSlip(l) ==
    /\ loop[l] = "wait" /\ MutexFree
    /\ \A i \in DOMAIN buckets : IsFull(buckets[i])
    /\ loop' = [loop EXCEPT ![l] = "accept"]
    /\ current' = [current EXCEPT ![l] = Nil]
    /\ UNCHANGED <<socket, bucketOf, buckets, rc>>

(* ... if there is none, the pool is sorted and a new one is built.        *)
StartBuild(l) ==
    /\ loop[l] = "wait" /\ MutexFree
    /\ \A i \in DOMAIN buckets : IsFull(buckets[i])
    /\ buckets' = SortedByCount(buckets)
    /\ loop' = [loop EXCEPT ![l] = "build"]
    /\ UNCHANGED <<socket, bucketOf, current, rc>>

(* NotOverloaded: the user a bucket is built for is not counted.           *)
FinishBuild_Slip(l) ==
    /\ loop[l] = "build"
    /\ \E b \in Buckets \ ToSet(buckets) :
         /\ buckets' = Append(buckets, b)
         /\ rc' = [rc EXCEPT ![b] = 0]
         /\ Serve(current[l], b)
    /\ loop' = [loop EXCEPT ![l] = "accept"]
    /\ current' = [current EXCEPT ![l] = Nil]

(* The database accepted the connection (failed attempts only repeat).     *)
FinishBuild(l) ==
    /\ loop[l] = "build"
    /\ \E b \in Buckets \ ToSet(buckets) :
         /\ buckets' = Append(buckets, b)
         /\ rc' = [rc EXCEPT ![b] = 1]
         /\ Serve(current[l], b)
    /\ loop' = [loop EXCEPT ![l] = "accept"]
    /\ current' = [current EXCEPT ![l] = Nil]

(* CountFollowsUsers: the place is not given back.                         *)
DropHandler_Slip(s) ==
    /\ socket[s] = "served"
    /\ socket' = [socket EXCEPT ![s] = "closed"]
    /\ UNCHANGED <<bucketOf, loop, current, buckets, rc>>

(* A connection ends; its handler is dropped and gives its place back.     *)
DropHandler(s) ==
    /\ socket[s] = "served"
    /\ socket' = [socket EXCEPT ![s] = "closed"]
    /\ rc' = [rc EXCEPT ![bucketOf[s]] = @ - 1]
    /\ UNCHANGED <<bucketOf, loop, current, buckets>>

LoopStep(l) == TakeBucket(l) \/ StartBuild(l) \/ FinishBuild(l)

PoolNext ==
    \/ \E l \in Loops : AcceptSocket(l) \/ LoopStep(l)
    \/ \E s \in Sockets : DropHandler(s)

PoolSpec == PoolInit /\ [][PoolNext]_poolVars

(* tokio's Mutex is FIFO; the database is reachable.                       *)
PoolFairSpec == PoolSpec /\ \A l \in Loops : SF_poolVars(LoopStep(l))

-----------------------------------------------------------------------------
(* Properties                                                              *)

(* Every variable has its type.                                            *)
PoolTypeOK ==
    /\ socket \in [Sockets -> {"new", "accepted", "served", "closed"}]
    /\ bucketOf \in [Sockets -> Buckets \cup {Nil}]
    /\ loop \in [Loops -> {"accept", "wait", "build"}]
    /\ current \in [Loops -> Sockets \cup {Nil}]
    /\ buckets \in Seq(Buckets)
    /\ rc \in [Buckets -> Nat]

(* bucket.rs:63-66: the count is that of the connected users.  It is not,  *)
(* for the bucket the pool starts with.                                    *)
CountIsUsers == \A b \in Buckets : rc[b] = Cardinality(Holders(b))

(* No place is lost or given back twice, whatever the order of accepts on  *)
(* two listeners, builds and drops: a bucket's count changes by the change *)
(* in its users, from its first one on.                                    *)
CountFollowsUsers ==
    [][\A b \in Buckets :
         rc'[b] + Cardinality(Holders(b)) = rc[b] + Cardinality(Holders(b))']_poolVars

(* No database connection serves more users than the capacity.             *)
NotOverloaded == \A b \in Buckets : Cardinality(Holders(b)) <= Capacity

(* When the pool is sorted, all counts are equal: the sort moves nothing,  *)
(* so the order in which buckets fill up is the order they were built in.  *)
SortMovesNothing ==
    [][\A l \in Loops : StartBuild(l) => buckets' = buckets]_poolVars

(* Every accepted socket gets a handler.                                   *)
AcceptedIsServed == \A s \in Sockets : socket[s] = "accepted" ~> socket[s] # "accepted"
=============================================================================
