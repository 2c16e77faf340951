-------------------------- MODULE MysqlConnectPool --------------------------
(***************************************************************************)
(* MysqlConnectPool and the DAOs that take a connection from it: the       *)
(* constructor of BaseDao waits for one on a condition variable for a      *)
(* limited time, the destructor gives it back.  The methods hold mutex_    *)
(* except while they wait, so each is one step up to its wait and one from *)
(* its wake-up.  The program itself builds two DAOs, on the first messages *)
(* that need them, and keeps them to its end.                              *)
(***************************************************************************)
EXTENDS Naturals, Sequences, FiniteSets

CONSTANTS
  Dao,             \* objects of a class derived from BaseDao
  MaxConnect,      \* max_connect_
  MaxConstructions \* bound: DAOs constructed in a behaviour

ASSUME PoolAssumption ==
  /\ IsFiniteSet(Dao)
  /\ MaxConnect \in Nat
  /\ MaxConstructions \in Nat

VARIABLES
  created,      \* the static object of getInstance is there
  connections_, \* the queue of connections and null pointers
  phase,        \* [Dao -> ...], where the life of a DAO is
  connection_,  \* [Dao -> Conn or null]
  expired,      \* DAOs whose wait has run out of time
  crashed,      \* a statement went to a null connection
  failed,       \* history: the entries createConnection could not make
  gaveUp,       \* history: number of calls that returned after the time-out
  peak,         \* history: the most DAOs there were at one time
  constructed   \* number of DAOs constructed

vars == <<created, connections_, phase, connection_, expired, crashed, failed,
          gaveUp, peak, constructed>>

counted == <<peak, constructed>>

Conn == 1..MaxConnect \* the i-th connection the pool makes

Null == 0 \* nullptr

Phase == {"none", "waiting", "woken", "built"}

Waiting == {d \in Dao : phase[d] = "waiting"}
Woken == {d \in Dao : phase[d] = "woken"}
Built == {d \in Dao : phase[d] = "built"}

Alive == Waiting \cup Woken \cup Built

\* The values of the queue.
Queued == {connections_[i] : i \in DOMAIN connections_}

Init ==
  /\ created = FALSE
  /\ connections_ = <<>>
  /\ phase = [d \in Dao |-> "none"]
  /\ connection_ = [d \in Dao |-> Null]
  /\ expired = {}
  /\ crashed = FALSE
  /\ failed = {}
  /\ gaveUp = 0 /\ peak = 0
  /\ constructed = 0

-----------------------------------------------------------------------------
\* The constructor, run once by the first call of getInstance: a connection
\* that cannot be created is queued as a null pointer.
getInstance ==
  /\ ~created
  /\ created' = TRUE
  /\ failed' \in SUBSET Conn
  /\ connections_' = [i \in Conn |-> IF i \in failed' THEN Null ELSE i]
  /\ UNCHANGED <<phase, connection_, expired, crashed, gaveUp, counted>>

\* A variant that leaves the connection it hands out in the queue.
TakeFrontKeeping(d) ==
  /\ connection_' = [connection_ EXCEPT ![d] = Head(connections_)]
  /\ phase' = [phase EXCEPT ![d] = "built"]
  /\ UNCHANGED connections_

TakeFront(d) ==
  /\ connection_' = [connection_ EXCEPT ![d] = Head(connections_)]
  /\ phase' = [phase EXCEPT ![d] = "built"]
  /\ connections_' = Tail(connections_)

Sleep(d) ==
  /\ phase' = [phase EXCEPT ![d] = "waiting"]
  /\ UNCHANGED <<connections_, connection_>>

\* One more DAO is constructed.
Counted ==
  /\ constructed < MaxConstructions
  /\ constructed' = constructed + 1
  /\ peak' = IF Cardinality(Alive) < peak THEN peak ELSE Cardinality(Alive) + 1

\* A variant of the wait without its predicate.
getConnectionSleeping(d) ==
  /\ created /\ phase[d] = "none"
  /\ Counted
  /\ Sleep(d)
  /\ UNCHANGED <<created, expired, crashed, failed, gaveUp>>

\* BaseDao(): wait_for tests its predicate before it sleeps, whoever waits.
getConnection(d) ==
  /\ created /\ phase[d] = "none"
  /\ Counted
  /\ IF connections_ # <<>> THEN TakeFront(d) ELSE Sleep(d)
  /\ UNCHANGED <<created, expired, crashed, failed, gaveUp>>

\* The time is up, which is counted from the call, asleep or not; a condition
\* variable may also wake up for no reason.
timeOut(d) ==
  /\ d \in Waiting \cup Woken /\ d \notin expired
  /\ phase' = [phase EXCEPT ![d] = "woken"]
  /\ expired' = expired \cup {d}
  /\ UNCHANGED <<created, connections_, connection_, crashed, failed, gaveUp,
                 counted>>

spuriousWakeup(d) ==
  /\ phase[d] = "waiting"
  /\ phase' = [phase EXCEPT ![d] = "woken"]
  /\ UNCHANGED <<created, connections_, connection_, expired, crashed, failed,
                 gaveUp, counted>>

\* A variant that goes back to sleep although its time is up.
recheckPatiently(d) ==
  /\ phase[d] = "woken"
  /\ IF connections_ # <<>> THEN TakeFront(d) ELSE Sleep(d)
  /\ expired' = expired \ {d}
  /\ UNCHANGED <<created, crashed, failed, gaveUp, counted>>

\* A variant whose deadline outlives the call.
recheckOnce(d) ==
  /\ phase[d] = "woken"
  /\ \/ connections_ # <<>> /\ TakeFront(d)
     \/ connections_ = <<>> /\ d \notin expired /\ Sleep(d)
     \/ /\ connections_ = <<>> /\ d \in expired
        /\ phase' = [phase EXCEPT ![d] = "built"]
        /\ UNCHANGED <<connections_, connection_>>
  /\ UNCHANGED <<created, expired, crashed, failed, gaveUp, counted>>

\* The rest of getConnection once the lock is held again: take the front,
\* give up with a null pointer, or sleep on.
recheck(d) ==
  /\ phase[d] = "woken"
  /\ \/ /\ connections_ # <<>>
        /\ TakeFront(d)
        /\ UNCHANGED gaveUp
     \/ /\ connections_ = <<>> /\ d \in expired
        /\ phase' = [phase EXCEPT ![d] = "built"]
        /\ connection_' = [connection_ EXCEPT ![d] = Null]
        /\ gaveUp' = gaveUp + 1
        /\ UNCHANGED connections_
     \/ /\ connections_ = <<>> /\ d \notin expired
        /\ Sleep(d)
        /\ UNCHANGED gaveUp
  /\ expired' = expired \ {d}
  /\ UNCHANGED <<created, crashed, failed, counted>>

\* Variants of the destructor: without notify_one; with a test for null.
releaseQuietly(d) ==
  /\ phase[d] = "built"
  /\ connections_' = Append(connections_, connection_[d])
  /\ connection_' = [connection_ EXCEPT ![d] = Null]
  /\ phase' = [phase EXCEPT ![d] = "none"]
  /\ UNCHANGED <<created, expired, crashed, failed, gaveUp, counted>>

releaseUnlessNull(d) ==
  /\ phase[d] = "built"
  /\ connections_' = IF connection_[d] = Null THEN connections_
                     ELSE Append(connections_, connection_[d])
  /\ connection_' = [connection_ EXCEPT ![d] = Null]
  /\ phase' = [phase EXCEPT ![d] = "none"]
  /\ UNCHANGED <<created, expired, crashed, failed, gaveUp, counted>>

\* ~BaseDao(): what the DAO holds is queued, a null pointer too, and one of
\* those who sleep is woken.
releaseConnection(d) ==
  /\ phase[d] = "built"
  /\ connections_' = Append(connections_, connection_[d])
  /\ connection_' = [connection_ EXCEPT ![d] = Null]
  /\ \/ Waiting = {} /\ phase' = [phase EXCEPT ![d] = "none"]
     \/ \E w \in Waiting :
          phase' = [phase EXCEPT ![d] = "none", ![w] = "woken"]
  /\ UNCHANGED <<created, expired, crashed, failed, gaveUp, counted>>

\* Any statement of a DAO: prepareStatement is called through connection_,
\* and no handler catches what a null pointer does.
prepareStatement(d) ==
  /\ phase[d] = "built"
  /\ crashed' = (connection_[d] = Null)
  /\ UNCHANGED <<created, connections_, phase, connection_, expired, failed,
                 gaveUp, counted>>

-----------------------------------------------------------------------------
Step(d) ==
  \/ getConnection(d)
  \/ timeOut(d)
  \/ spuriousWakeup(d)
  \/ recheck(d)
  \/ releaseConnection(d)
  \/ prepareStatement(d)

Next == ~crashed /\ (getInstance \/ \E d \in Dao : Step(d))

Spec == Init /\ [][Next]_vars

\* A thread whose wait is over gets the lock again, for the lock is held only
\* for a few statements; time passes.
Wakes == \A d \in Dao : WF_vars(~crashed /\ recheck(d))

TimePasses == \A d \in Dao : WF_vars(~crashed /\ timeOut(d))

TimedSpec == Spec /\ Wakes /\ TimePasses

-----------------------------------------------------------------------------
\* The type invariant of the pool and its DAOs.
PoolTypeOK ==
  /\ created \in BOOLEAN /\ crashed \in BOOLEAN
  /\ connections_ \in Seq(Conn \cup {Null})
  /\ phase \in [Dao -> Phase]
  /\ connection_ \in [Dao -> Conn \cup {Null}]
  /\ expired \subseteq Waiting \cup Woken
  /\ failed \subseteq Conn
  /\ gaveUp \in Nat /\ peak \in Nat /\ constructed \in 0..MaxConstructions

\* Where a connection is: its places in the queue and the DAOs that hold it.
Places(c) == {i \in DOMAIN connections_ : connections_[i] = c}
Holders(c) == {d \in Dao : connection_[d] = c}

\* Every connection that could be created is in one place, the queue or one
\* DAO: no two DAOs ever talk over one connection and none leaks, whatever
\* the order of waits, time-outs and destructors.
OneOwner ==
  created => \A c \in Conn \ failed :
    /\ \A i, j \in Places(c) : i = j
    /\ \A d, e \in Holders(c) : d = e
    /\ Places(c) = {} <=> Holders(c) # {}

\* While somebody sleeps in getConnection, every entry of the queue has
\* somebody awake and on the way to it: a notification that a newcomer makes
\* void by taking the entry first is never missed by a sleeper.
NoLostWakeup ==
  Waiting # {} => Len(connections_) <= Cardinality(Woken)

\* The queue and the DAOs hold an entry for each connection the pool was made
\* with and one more for every call that gave up: ~BaseDao queues the null
\* pointer of such a call as if it had come out of the pool.
EntriesConserved ==
  created => Len(connections_) + Cardinality(Built) = MaxConnect + gaveUp

\* As long as there were never more DAOs than connections, all of them
\* created, no constructor waited and no DAO got a null pointer.  The program
\* keeps to it: two DAOs and ten connections.
ServesAll ==
  peak <= MaxConnect /\ failed = {} =>
    /\ Waiting \cup Woken = {}
    /\ \A d \in Built : connection_[d] # Null

\* Waits, wake-ups and time-outs apart, the pool lends connections.
Lent == INSTANCE Lending WITH
          free <- Queued \ {Null},
          lent <- [d \in Dao |-> {connection_[d]} \ {Null}]

LendingSpec == Lent!LendingSpec

\* A constructor of a DAO returns, with a connection or without: the time-out
\* ends the wait of whoever is overtaken at the queue again and again.
CallsReturn ==
  \A d \in Dao : d \in Waiting \cup Woken ~> d \in Built \/ crashed
=============================================================================
