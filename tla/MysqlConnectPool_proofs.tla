----------------------- MODULE MysqlConnectPool_proofs -----------------------
(***************************************************************************)
(* Proofs about MysqlConnectPool for any finite set of DAOs, any number of *)
(* connections and any number of constructions.                            *)
(***************************************************************************)
EXTENDS MysqlConnectPool, FiniteSetTheorems, SequenceTheorems, TLAPS

-----------------------------------------------------------------------------
(* Types.  Before the pool is created there is nothing in it and nobody at *)
(* it, and a DAO that is not built holds no connection.                    *)

Fresh ==
  ~created => /\ connections_ = <<>>
              /\ \A d \in Dao : phase[d] = "none"

NullUnlessBuilt == \A d \in Dao : phase[d] # "built" => connection_[d] = Null

TypeInv == PoolTypeOK /\ Fresh /\ NullUnlessBuilt

Entry == Conn \cup {Null}

\* The parts of the DAOs' lives are finite sets that do not overlap.
LEMMA PhaseSets ==
  /\ \A S \in SUBSET Dao : IsFiniteSet(S) /\ Cardinality(S) \in Nat
  /\ Waiting \subseteq Dao /\ Woken \subseteq Dao /\ Built \subseteq Dao
  /\ Alive \subseteq Dao
<1>1. \A S \in SUBSET Dao : IsFiniteSet(S) /\ Cardinality(S) \in Nat
  BY PoolAssumption, FS_Subset, FS_CardinalityType
<1> QED BY <1>1 DEF Waiting, Woken, Built, Alive

\* What steps do to the queue and the phases, by what becomes of the caller.
Takes(d) ==
  /\ created /\ connections_ # <<>> /\ phase[d] \in {"none", "woken"}
  /\ TakeFront(d)
  /\ UNCHANGED <<created, failed, gaveUp>>

Sleeps(d) ==
  /\ created /\ connections_ = <<>> /\ phase[d] \in {"none", "woken"}
  /\ Sleep(d)
  /\ UNCHANGED <<created, failed, gaveUp>>

GivesUp(d) ==
  /\ created /\ connections_ = <<>> /\ phase[d] = "woken"
  /\ phase' = [phase EXCEPT ![d] = "built"]
  /\ connection_' = [connection_ EXCEPT ![d] = Null]
  /\ gaveUp' = gaveUp + 1
  /\ UNCHANGED <<created, connections_, failed>>

Stirs(d) ==
  /\ created /\ phase[d] \in {"waiting", "woken"}
  /\ phase' = [phase EXCEPT ![d] = "woken"]
  /\ UNCHANGED <<created, connections_, connection_, failed, gaveUp>>

Kept == UNCHANGED <<created, connections_, phase, connection_, failed, gaveUp>>

LEMMA StepKinds ==
  ASSUME TypeInv, [Next]_vars
  PROVE  \/ getInstance
         \/ \E d \in Dao : \/ Takes(d) \/ Sleeps(d) \/ GivesUp(d) \/ Stirs(d)
                           \/ releaseConnection(d)
         \/ Kept
<1>1. \A d \in Dao : phase[d] # "none" => created
  BY DEF TypeInv, Fresh
<1>2. CASE getInstance \/ UNCHANGED vars
  BY <1>2 DEF vars, Kept
<1>3. ASSUME NEW d \in Dao, Step(d)
      PROVE  \/ Takes(d) \/ Sleeps(d) \/ GivesUp(d) \/ Stirs(d)
             \/ releaseConnection(d) \/ Kept
  <2>1. CASE getConnection(d)
    BY <2>1 DEF getConnection, Takes, Sleeps
  <2>2. CASE timeOut(d) \/ spuriousWakeup(d)
    BY <1>1, <2>2 DEF timeOut, spuriousWakeup, Stirs, Waiting, Woken
  <2>3. CASE recheck(d)
    BY <1>1, <2>3 DEF recheck, Takes, Sleeps, GivesUp
  <2>4. CASE releaseConnection(d) \/ prepareStatement(d)
    BY <2>4 DEF prepareStatement, Kept
  <2> QED BY <1>3, <2>1, <2>2, <2>3, <2>4 DEF Step
<1> QED BY <1>2, <1>3 DEF Next

LEMMA InitType == Init => TypeInv
<1> SUFFICES ASSUME Init PROVE TypeInv
  OBVIOUS
<1>1. connections_ \in Seq(Conn \cup {Null})
  BY EmptySeq DEF Init
<1>2. phase \in [Dao -> Phase] /\ connection_ \in [Dao -> Conn \cup {Null}]
  BY DEF Init, Phase
<1>3. gaveUp \in Nat /\ peak \in Nat /\ constructed \in 0..MaxConstructions
  BY PoolAssumption DEF Init
<1>4. Fresh /\ NullUnlessBuilt
  BY DEF Init, Fresh, NullUnlessBuilt
<1> QED BY <1>1, <1>2, <1>3, <1>4 DEF Init, TypeInv, PoolTypeOK

\* The queue, the phases and the connections keep their types.
LEMMA QueueType ==
  ASSUME TypeInv, [Next]_vars
  PROVE  /\ created' \in BOOLEAN
         /\ connections_' \in Seq(Entry)
         /\ phase' \in [Dao -> Phase]
         /\ connection_' \in [Dao -> Entry]
         /\ failed' \subseteq Conn
         /\ gaveUp' \in Nat
         /\ Fresh' /\ NullUnlessBuilt'
<1>1. /\ created \in BOOLEAN /\ connections_ \in Seq(Entry)
      /\ phase \in [Dao -> Phase] /\ connection_ \in [Dao -> Entry]
      /\ failed \subseteq Conn /\ gaveUp \in Nat /\ Fresh /\ NullUnlessBuilt
  BY DEF TypeInv, PoolTypeOK, Entry
<1>2. CASE getInstance
  <2>1. connections_' \in [1..MaxConnect -> Entry]
    BY <1>2 DEF getInstance, Conn, Entry
  <2>2. connections_' \in Seq(Entry)
    BY <2>1, PoolAssumption
  <2> QED BY <1>1, <1>2, <2>2 DEF getInstance, Fresh, NullUnlessBuilt
<1>3. ASSUME NEW d \in Dao, Takes(d)
      PROVE  /\ connections_' \in Seq(Entry)
             /\ phase' \in [Dao -> Phase] /\ connection_' \in [Dao -> Entry]
             /\ NullUnlessBuilt'
  <2>1. Head(connections_) \in Entry /\ Tail(connections_) \in Seq(Entry)
    BY <1>1, <1>3, HeadTailProperties DEF Takes
  <2> QED BY <1>1, <1>3, <2>1 DEF Takes, TakeFront, Phase, NullUnlessBuilt
<1>4. ASSUME NEW d \in Dao, Sleeps(d) \/ Stirs(d) \/ GivesUp(d)
      PROVE  /\ phase' \in [Dao -> Phase] /\ connection_' \in [Dao -> Entry]
             /\ NullUnlessBuilt' /\ gaveUp' \in Nat
  BY <1>1, <1>4
  DEF Sleeps, Sleep, Stirs, GivesUp, Phase, NullUnlessBuilt, Entry
<1>5. ASSUME NEW d \in Dao, releaseConnection(d)
      PROVE  /\ connections_' \in Seq(Entry)
             /\ phase' \in [Dao -> Phase] /\ connection_' \in [Dao -> Entry]
             /\ NullUnlessBuilt'
  BY <1>1, <1>5 DEF releaseConnection, Phase, NullUnlessBuilt, Waiting, Entry
<1>6. ASSUME NEW d \in Dao, releaseConnection(d) PROVE created
  BY <1>1, <1>6 DEF releaseConnection, Fresh
<1>7. CASE Kept
  BY <1>1, <1>7 DEF Kept, Fresh, NullUnlessBuilt
<1>8. ASSUME NEW d \in Dao,
             Takes(d) \/ Sleeps(d) \/ GivesUp(d) \/ Stirs(d) \/ releaseConnection(d)
      PROVE  created /\ UNCHANGED <<created, failed>>
  BY <1>6, <1>8 DEF Takes, Sleeps, GivesUp, Stirs, releaseConnection
<1>9. ASSUME NEW d \in Dao,
             Takes(d) \/ Sleeps(d) \/ GivesUp(d) \/ Stirs(d) \/ releaseConnection(d)
      PROVE  gaveUp' \in Nat /\ connections_' \in Seq(Entry)
  BY <1>1, <1>3, <1>4, <1>5, <1>9
  DEF Takes, Sleeps, Sleep, GivesUp, Stirs, releaseConnection
<1> QED BY <1>1, <1>2, <1>3, <1>4, <1>5, <1>7, <1>8, <1>9, StepKinds DEF Fresh

LEMMA NextType == TypeInv /\ [Next]_vars => TypeInv'
<1> SUFFICES ASSUME TypeInv, [Next]_vars PROVE TypeInv'
  OBVIOUS
<1>1. /\ phase \in [Dao -> Phase] /\ crashed \in BOOLEAN /\ peak \in Nat
      /\ constructed \in 0..MaxConstructions /\ expired \subseteq Waiting \cup Woken
  BY DEF TypeInv, PoolTypeOK
<1>2. crashed' \in BOOLEAN
  BY <1>1 DEF Next, Step, vars, getInstance, getConnection, timeOut,
              spuriousWakeup, recheck, releaseConnection, prepareStatement
<1>3. peak' \in Nat /\ constructed' \in 0..MaxConstructions
  <2>1. Cardinality(Alive) \in Nat
    BY PhaseSets
  <2>2. CASE UNCHANGED <<peak, constructed>>
    BY <1>1, <2>2
  <2>3. CASE Counted
    BY <1>1, <2>1, <2>3, PoolAssumption DEF Counted
  <2> QED BY <2>2, <2>3
          DEF Next, Step, vars, getInstance, getConnection, timeOut, counted,
              spuriousWakeup, recheck, releaseConnection, prepareStatement
<1>4. (expired \subseteq Waiting \cup Woken)'
  <2>1. CASE UNCHANGED <<phase, expired>>
    BY <1>1, <2>1 DEF Waiting, Woken
  <2>2. ASSUME NEW d \in Dao, getConnection(d)
        PROVE  (expired \subseteq Waiting \cup Woken)'
    BY <1>1, <2>2 DEF getConnection, TakeFront, Sleep, Waiting, Woken
  <2>3. ASSUME NEW d \in Dao, timeOut(d) \/ spuriousWakeup(d)
        PROVE  (expired \subseteq Waiting \cup Woken)'
    BY <1>1, <2>3 DEF timeOut, spuriousWakeup, Waiting, Woken
  <2>4. ASSUME NEW d \in Dao, recheck(d)
        PROVE  (expired \subseteq Waiting \cup Woken)'
    BY <1>1, <2>4 DEF recheck, TakeFront, Sleep, Waiting, Woken
  <2>5. ASSUME NEW d \in Dao, releaseConnection(d)
        PROVE  (expired \subseteq Waiting \cup Woken)'
    BY <1>1, <2>5 DEF releaseConnection, Waiting, Woken
  <2> QED BY <2>1, <2>2, <2>3, <2>4, <2>5
          DEF Next, Step, vars, getInstance, prepareStatement
<1> QED BY <1>2, <1>3, <1>4, QueueType DEF TypeInv, PoolTypeOK, Entry

\* The type invariant of the pool; in particular no deadline outlives the call
\* it belongs to.
THEOREM PoolTypeCorrect == Spec => []PoolTypeOK
<1>1. Spec => []TypeInv
  BY InitType, NextType, PTL DEF Spec
<1> QED BY <1>1, PTL DEF TypeInv

-----------------------------------------------------------------------------
(* Notifications.  NoLostWakeup needs no strengthening but the types: each *)
(* entry added to the queue while somebody sleeps wakes somebody, and who  *)
(* is awake goes back to sleep only at an empty queue.                     *)

LEMMA NextWakeup ==
  ASSUME TypeInv, NoLostWakeup, [Next]_vars
  PROVE  NoLostWakeup'
<1>1. /\ connections_ \in Seq(Entry) /\ Len(connections_) \in Nat
      /\ phase \in [Dao -> Phase]
      /\ IsFiniteSet(Woken) /\ Cardinality(Woken) \in Nat
      /\ IsFiniteSet(Woken') /\ Cardinality(Woken') \in Nat
  <2>1. Woken' \subseteq Dao
    BY DEF Woken
  <2> QED BY <2>1, PhaseSets, LenProperties DEF TypeInv, PoolTypeOK, Entry
<1>2. CASE getInstance
  <2>1. Waiting' = {}
    BY <1>2 DEF getInstance, TypeInv, Fresh, Waiting
  <2> QED BY <2>1 DEF NoLostWakeup
<1>3. ASSUME NEW d \in Dao, Takes(d) PROVE NoLostWakeup'
  <2>1. Len(connections_') = Len(connections_) - 1
    BY <1>1, <1>3, HeadTailProperties DEF Takes, TakeFront
  <2>2. Waiting' = Waiting /\ Woken' = Woken \ {d}
    BY <1>1, <1>3 DEF Takes, TakeFront, Waiting, Woken
  <2>3. Cardinality(Woken') >= Cardinality(Woken) - 1
    BY SMTT(30), <1>1, <2>2, FS_RemoveElement
  <2> QED BY <1>1, <2>1, <2>2, <2>3 DEF NoLostWakeup
<1>4. ASSUME NEW d \in Dao, Sleeps(d) \/ GivesUp(d) PROVE NoLostWakeup'
  <2>1. connections_' = <<>>
    BY <1>4 DEF Sleeps, Sleep, GivesUp
  <2> QED BY <1>1, <2>1, EmptySeq DEF NoLostWakeup
<1>5. ASSUME NEW d \in Dao, Stirs(d) PROVE NoLostWakeup'
  <2>1. Waiting' \subseteq Waiting /\ Woken' = Woken \cup {d}
        /\ connections_' = connections_
    BY <1>1, <1>5 DEF Stirs, Waiting, Woken
  <2>2. Cardinality(Woken') >= Cardinality(Woken)
    BY SMTT(30), <1>1, <2>1, FS_AddElement
  <2> QED BY <1>1, <2>1, <2>2 DEF NoLostWakeup
<1>6. ASSUME NEW d \in Dao, releaseConnection(d) PROVE NoLostWakeup'
  <2>1. connection_[d] \in Entry /\ phase[d] = "built"
    BY <1>6 DEF TypeInv, PoolTypeOK, Entry, releaseConnection
  <2>2. Len(connections_') = Len(connections_) + 1
    BY <1>1, <1>6, <2>1 DEF releaseConnection
  <2>3. CASE Waiting = {} /\ phase' = [phase EXCEPT ![d] = "none"]
    <3>1. Waiting' = {}
      BY <1>1, <2>3 DEF Waiting
    <3> QED BY <3>1 DEF NoLostWakeup
  <2>4. ASSUME NEW v \in Waiting,
               phase' = [phase EXCEPT ![d] = "none", ![v] = "woken"]
        PROVE  NoLostWakeup'
    <3>1. v \in Dao /\ v \notin Woken /\ Woken' = Woken \cup {v} /\ Waiting # {}
      BY <1>1, <2>1, <2>4 DEF Waiting, Woken
    <3>2. Cardinality(Woken') = Cardinality(Woken) + 1
      BY <1>1, <3>1, FS_AddElement
    <3> QED BY <1>1, <2>2, <3>1, <3>2 DEF NoLostWakeup
  <2> QED BY <1>6, <2>3, <2>4 DEF releaseConnection
<1>7. CASE Kept
  <2>1. Waiting' = Waiting /\ Woken' = Woken /\ connections_' = connections_
    BY <1>7 DEF Kept, Waiting, Woken
  <2> QED BY <2>1 DEF NoLostWakeup
<1> QED BY <1>2, <1>3, <1>4, <1>5, <1>6, <1>7, StepKinds

\* Nobody sleeps beside an entry of the queue that no one awake is on the way
\* to, for any number of DAOs and connections.
THEOREM NoWakeupLost == Spec => []NoLostWakeup
<1>1. Init => NoLostWakeup
  BY DEF Init, NoLostWakeup, Waiting
<1>2. Spec => []TypeInv
  BY InitType, NextType, PTL DEF Spec
<1> QED BY <1>1, <1>2, NextWakeup, PTL DEF Spec

-----------------------------------------------------------------------------
(* Ownership.  OneOwner speaks of the connections that were created; that  *)
(* the others are nowhere is what the refinement of Lending adds to it.    *)

EntriesMade ==
  /\ \A i \in DOMAIN connections_ : connections_[i] \notin failed
  /\ \A d \in Dao : connection_[d] \notin failed

OwnerInv == TypeInv /\ OneOwner /\ EntriesMade

LEMMA InitOwner == Init => OwnerInv
BY InitType DEF Init, OwnerInv, OneOwner, EntriesMade

LEMMA EntryFacts ==
  ASSUME TypeInv
  PROVE  /\ connections_ \in Seq(Entry) /\ Len(connections_) \in Nat
         /\ DOMAIN connections_ = 1..Len(connections_)
         /\ \A i \in 1..Len(connections_) : connections_[i] \in Entry
         /\ phase \in [Dao -> Phase] /\ connection_ \in [Dao -> Entry]
         /\ failed \subseteq Conn /\ Null \notin Conn
<1>1. connections_ \in Seq(Entry) /\ phase \in [Dao -> Phase]
      /\ connection_ \in [Dao -> Entry] /\ failed \subseteq Conn
  BY DEF TypeInv, PoolTypeOK, Entry
<1>2. Null \notin Conn
  BY PoolAssumption DEF Null, Conn
<1> QED BY <1>1, <1>2, LenProperties, ElementOfSeq

\* The queue and the holders after the front has been taken.
LEMMA TakesFacts ==
  ASSUME TypeInv, NEW d \in Dao, Takes(d)
  PROVE  /\ created /\ created' = created /\ failed' = failed
         /\ Len(connections_) >= 1 /\ connection_[d] = Null
         /\ DOMAIN connections_' = 1..(Len(connections_) - 1)
         /\ \A i \in 1..(Len(connections_) - 1) :
              connections_'[i] = connections_[i + 1]
         /\ connection_' = [connection_ EXCEPT ![d] = connections_[1]]
<1>1. connections_ # <<>> /\ connections_' = Tail(connections_)
  BY DEF Takes, TakeFront
<1>2. /\ Tail(connections_) \in Seq(Entry)
      /\ Len(Tail(connections_)) = Len(connections_) - 1
      /\ \A i \in 1..Len(Tail(connections_)) :
           Tail(connections_)[i] = connections_[i + 1]
  BY <1>1, EntryFacts, HeadTailProperties
<1>3. DOMAIN Tail(connections_) = 1..(Len(connections_) - 1)
  BY <1>2, LenProperties
<1>4. Len(connections_) >= 1
  BY <1>1, EntryFacts, EmptySeq
<1>5. connection_[d] = Null
  BY DEF Takes, TypeInv, NullUnlessBuilt
<1> QED BY <1>1, <1>2, <1>3, <1>4, <1>5 DEF Takes, TakeFront

\* The queue and the holders after a destructor.
LEMMA ReleaseFacts ==
  ASSUME TypeInv, NEW d \in Dao, releaseConnection(d)
  PROVE  /\ created /\ created' = created /\ failed' = failed
         /\ DOMAIN connections_' = 1..(Len(connections_) + 1)
         /\ \A i \in 1..Len(connections_) : connections_'[i] = connections_[i]
         /\ connections_'[Len(connections_) + 1] = connection_[d]
         /\ connection_' = [connection_ EXCEPT ![d] = Null]
<1>1. connection_[d] \in Entry
  BY EntryFacts
<1>2. connections_' = Append(connections_, connection_[d])
  BY DEF releaseConnection
<1>3. created
  BY DEF releaseConnection, TypeInv, Fresh
<1> QED BY <1>1, <1>2, <1>3, EntryFacts DEF releaseConnection

LEMMA NextOwner ==
  ASSUME OwnerInv, [Next]_vars
  PROVE  OneOwner' /\ EntriesMade'
<1> USE DEF OwnerInv
<1>1. CASE getInstance
  <2>1. /\ connections_' = [i \in Conn |-> IF i \in failed' THEN Null ELSE i]
        /\ failed' \subseteq Conn /\ connection_' = connection_
    BY <1>1 DEF getInstance
  <2>2. \A d \in Dao : connection_[d] = Null
    BY <1>1 DEF getInstance, TypeInv, Fresh, NullUnlessBuilt
  <2>3. \A c \in Conn \ failed' : Places(c)' = {c} /\ Holders(c)' = {}
    BY <2>1, <2>2, EntryFacts DEF Places, Holders
  <2>4. OneOwner'
    BY <2>3 DEF OneOwner, Conn
  <2>5. EntriesMade'
    BY <2>1, <2>2, EntryFacts DEF EntriesMade
  <2> QED BY <2>4, <2>5
<1>2. ASSUME NEW d \in Dao, Takes(d) PROVE OneOwner' /\ EntriesMade'
  <2> DEFINE l == Len(connections_)
             h == connections_[1]
  <2>1. EntriesMade'
    BY <1>2, TakesFacts, EntryFacts DEF EntriesMade
  <2>2. SUFFICES ASSUME NEW c \in Conn \ failed
                 PROVE  /\ \A i, j \in Places(c)' : i = j
                        /\ \A e, f \in Holders(c)' : e = f
                        /\ Places(c)' = {} <=> Holders(c)' # {}
    BY <1>2, <2>1, TakesFacts DEF OneOwner, Conn
  <2>3. Places(c)' = {i \in 1..(l - 1) : i + 1 \in Places(c)}
    BY <1>2, TakesFacts, EntryFacts DEF Places
  <2>4. /\ \A i, j \in Places(c) : i = j
        /\ \A e, f \in Holders(c) : e = f
        /\ Places(c) = {} <=> Holders(c) # {}
    BY <1>2, TakesFacts DEF OneOwner
  <2>5. c # Null /\ connection_ \in [Dao -> Entry]
    BY EntryFacts
  <2>6. CASE c = h
    <3>1. 1 \in Places(c)
      BY <1>2, <2>6, TakesFacts, EntryFacts DEF Places
    <3>2. Places(c)' = {}
      BY <2>3, <2>4, <3>1, EntryFacts
    <3>3. Holders(c)' = {d}
      BY <1>2, <2>4, <2>5, <2>6, <3>1, TakesFacts DEF Holders
    <3> QED BY <3>2, <3>3
  <2>7. CASE c # h
    <3>1. Holders(c)' = Holders(c)
      BY <1>2, <2>5, <2>7, TakesFacts DEF Holders
    <3>2. \A i \in Places(c) : i - 1 \in Places(c)'
      BY <1>2, <2>3, <2>7, TakesFacts, EntryFacts DEF Places
    <3>3. \A i, j \in Places(c)' : i = j
      BY <2>3, <2>4
    <3>4. Places(c)' = {} <=> Places(c) = {}
      BY <2>3, <3>2
    <3> QED BY <2>4, <3>1, <3>3, <3>4
  <2> QED BY <2>6, <2>7
<1>3. ASSUME NEW d \in Dao, releaseConnection(d)
      PROVE  OneOwner' /\ EntriesMade'
  <2> DEFINE l == Len(connections_)
             k == connection_[d]
  <2>1. EntriesMade'
    <3>1. \A i \in DOMAIN connections_' :
            i \in 1..l \/ i = l + 1
      BY <1>3, ReleaseFacts, EntryFacts
    <3>2. Null \notin failed
      BY EntryFacts
    <3> QED BY SMTT(30), <1>3, <3>1, <3>2, ReleaseFacts, EntryFacts DEF EntriesMade
  <2>2. SUFFICES ASSUME NEW c \in Conn \ failed
                 PROVE  /\ \A i, j \in Places(c)' : i = j
                        /\ \A e, f \in Holders(c)' : e = f
                        /\ Places(c)' = {} <=> Holders(c)' # {}
    BY <1>3, <2>1, ReleaseFacts DEF OneOwner, Conn
  <2>3. Places(c)' = IF c = k THEN Places(c) \cup {l + 1} ELSE Places(c)
    BY <1>3, ReleaseFacts, EntryFacts DEF Places
  <2>4. /\ \A i, j \in Places(c) : i = j
        /\ \A e, f \in Holders(c) : e = f
        /\ Places(c) = {} <=> Holders(c) # {}
    BY <1>3, ReleaseFacts DEF OneOwner
  <2>5. c # Null /\ connection_ \in [Dao -> Entry]
    BY EntryFacts
  <2>6. Holders(c)' = Holders(c) \ {d}
    BY <1>3, <2>5, ReleaseFacts DEF Holders
  <2>7. c = k <=> d \in Holders(c)
    BY DEF Holders
  <2> HIDE DEF k, l
  <2> QED BY <2>3, <2>4, <2>6, <2>7
<1>4. ASSUME NEW d \in Dao, Sleeps(d) \/ GivesUp(d) \/ Stirs(d)
      PROVE  UNCHANGED <<created, connections_, connection_, failed>>
  <2>1. CASE Sleeps(d) \/ Stirs(d)
    BY <2>1 DEF Sleeps, Sleep, Stirs
  <2>2. CASE GivesUp(d)
    <3>1. connection_[d] = Null
      BY <2>2 DEF GivesUp, TypeInv, NullUnlessBuilt
    <3> QED BY <2>2, <3>1, EntryFacts DEF GivesUp
  <2> QED BY <1>4, <2>1, <2>2
<1>5. CASE UNCHANGED <<created, connections_, connection_, failed>>
  BY <1>5 DEF OneOwner, EntriesMade, Places, Holders
<1>6. CASE Kept
  BY <1>5, <1>6 DEF Kept
<1> QED BY <1>1, <1>2, <1>3, <1>4, <1>5, <1>6, StepKinds

\* A connection is in one place of the queue or with one DAO, never with two
\* and never lost, for any number of DAOs and connections.
THEOREM OneOwnerEach == Spec => []OneOwner
<1>1. OwnerInv /\ [Next]_vars => OwnerInv'
  BY NextType, NextOwner DEF OwnerInv
<1>2. OwnerInv => OneOwner
  BY DEF OwnerInv
<1> QED BY <1>1, <1>2, InitOwner, PTL DEF Spec

-----------------------------------------------------------------------------
(* The pool implements Lending.  A connection in front of the queue is in  *)
(* no other place of it (OneOwner), so taking the front takes it out of    *)
(* the set of free ones; null pointers and waits are stutters.             *)

Free == Queued \ {Null}
LentTo == [d \in Dao |-> {connection_[d]} \ {Null}]

LEMMA LentView ==
  Lent!lendingVars = <<Free, LentTo>> /\ Lent!lendingVars' = <<Free', LentTo'>>
BY DEF Lent!lendingVars, Free, LentTo

LEMMA InitLent == Init => Lent!LendingInit
BY DEF Init, Lent!LendingInit, Queued

LEMMA OpenView ==
  ASSUME TypeInv, getInstance
  PROVE  Lent!Open
<1>1. \A d \in Dao : connection_[d] = Null
  BY DEF getInstance, TypeInv, Fresh, NullUnlessBuilt
<1>2. connections_ = <<>> /\ UNCHANGED connection_
  BY DEF getInstance, TypeInv, Fresh
<1>3. /\ connections_' = [i \in Conn |-> IF i \in failed' THEN Null ELSE i]
      /\ failed' \subseteq Conn
  BY DEF getInstance
<1>4. Queued \ {Null} = {} /\ (Queued \ {Null})' \in SUBSET Conn
  BY <1>2, <1>3 DEF Queued
<1> QED BY <1>1, <1>2, <1>4 DEF Lent!Open

LEMMA LendView ==
  ASSUME OwnerInv, NEW d \in Dao, Takes(d)
  PROVE  (\E c \in Conn : Lent!Lend(d, c)) \/ UNCHANGED Lent!lendingVars
<1> DEFINE l == Len(connections_)
           c == connections_[1]
<1>1. TypeInv /\ OneOwner /\ EntriesMade
  BY DEF OwnerInv
<1>2. c \in Entry /\ c \in Queued /\ c \notin failed
  BY <1>1, TakesFacts, EntryFacts DEF Queued, EntriesMade
<1>3. Queued' \subseteq Queued /\ Queued \ {c} \subseteq Queued'
  <2>1. Queued' = {connections_[i + 1] : i \in 1..(l - 1)}
    <3>1. Queued' = {connections_'[i] : i \in 1..(l - 1)}
      BY <1>1, TakesFacts DEF Queued
    <3>2. \A i \in 1..(l - 1) : connections_'[i] = connections_[i + 1]
      BY <1>1, TakesFacts
    <3> QED BY <3>1, <3>2
  <2>2. Queued = {connections_[i] : i \in 1..l}
    BY <1>1, EntryFacts DEF Queued
  <2>3. ASSUME NEW i \in 1..l, i # 1 PROVE connections_[i] \in Queued'
    <3>1. i - 1 \in 1..(l - 1) /\ (i - 1) + 1 = i
      BY <1>1, <2>3, EntryFacts
    <3> QED BY <2>1, <3>1
  <2> QED BY <1>1, <2>1, <2>2, <2>3, EntryFacts
<1>4. LentTo' = [LentTo EXCEPT ![d] = {c} \ {Null}] /\ LentTo[d] = {}
  BY <1>1, TakesFacts, EntryFacts DEF LentTo
<1>5. CASE c = Null
  <2>1. Free' = Free
    BY <1>3, <1>5 DEF Free
  <2>2. LentTo' = LentTo
    BY <1>4, <1>5 DEF LentTo
  <2> QED BY <2>1, <2>2, LentView
<1>6. CASE c # Null
  <2>1. c \in Conn \ failed
    BY <1>2, <1>6 DEF Entry
  <2>2. c \notin Queued'
    <3>1. \A i, j \in Places(c) : i = j
      BY <1>1, <2>1, TakesFacts DEF OneOwner
    <3>2. ASSUME NEW i \in 1..(l - 1), connections_[i + 1] = c PROVE FALSE
      <4>1. 1 \in Places(c) /\ i + 1 \in Places(c)
        BY <1>1, <3>2, TakesFacts, EntryFacts DEF Places
      <4> QED BY <3>1, <4>1
    <3> QED BY <1>1, <3>2, TakesFacts DEF Queued
  <2>3. Free' = Free \ {c} /\ c \in Free
    BY <1>2, <1>3, <1>6, <2>2 DEF Free
  <2>4. {c} \ {Null} = {c}
    BY <1>6
  <2> HIDE DEF c
  <2>5. \E x \in Conn : Lent!Lend(d, x)
    <3>1. SUFFICES ASSUME NEW x \in Conn, x = c PROVE Lent!Lend(d, x)
      BY <2>1
    <3> QED BY <1>4, <2>3, <2>4, <3>1 DEF Lent!Lend, Free, LentTo
  <2> QED BY <2>5
<1> QED BY <1>5, <1>6

LEMMA ReturnView ==
  ASSUME TypeInv, NEW d \in Dao, releaseConnection(d)
  PROVE  Lent!Return(d)
<1> DEFINE l == Len(connections_)
           k == connection_[d]
<1>1. Queued' = Queued \cup {k}
  <2>1. Queued' = {connections_'[i] : i \in 1..(l + 1)}
    BY ReleaseFacts DEF Queued
  <2>2. 1..(l + 1) = (1..l) \cup {l + 1}
    BY EntryFacts
  <2>3. Queued = {connections_[i] : i \in 1..l}
    BY EntryFacts DEF Queued
  <2> QED BY <2>1, <2>2, <2>3, ReleaseFacts
<1>2. Free' = Free \cup LentTo[d]
  BY <1>1 DEF Free, LentTo
<1>3. LentTo' = [LentTo EXCEPT ![d] = {}]
  BY ReleaseFacts, EntryFacts DEF LentTo
<1> QED BY <1>2, <1>3 DEF Lent!Return, Free, LentTo

LEMMA StepLent ==
  OwnerInv /\ [Next]_vars => [Lent!LendingNext]_(Lent!lendingVars)
<1> SUFFICES ASSUME OwnerInv, [Next]_vars
             PROVE  Lent!LendingNext \/ UNCHANGED Lent!lendingVars
  OBVIOUS
<1>1. TypeInv
  BY DEF OwnerInv
<1>2. CASE getInstance
  BY <1>1, <1>2, OpenView DEF Lent!LendingNext
<1>3. ASSUME NEW d \in Dao, Takes(d)
      PROVE  Lent!LendingNext \/ UNCHANGED Lent!lendingVars
  BY <1>3, LendView DEF Lent!LendingNext
<1>4. ASSUME NEW d \in Dao, releaseConnection(d) PROVE Lent!LendingNext
  BY <1>1, <1>4, ReturnView DEF Lent!LendingNext
<1>5. CASE UNCHANGED <<connections_, connection_>>
  BY <1>5, LentView DEF Free, LentTo, Queued
<1>6. ASSUME NEW d \in Dao, Sleeps(d) \/ GivesUp(d) \/ Stirs(d)
      PROVE  UNCHANGED <<connections_, connection_>>
  <2>1. GivesUp(d) => connection_[d] = Null
    BY <1>1 DEF GivesUp, TypeInv, NullUnlessBuilt
  <2> QED BY <1>1, <1>6, <2>1, EntryFacts
          DEF Sleeps, Sleep, GivesUp, Stirs
<1> QED BY <1>1, <1>2, <1>3, <1>4, <1>5, <1>6, StepKinds DEF Kept

\* Whatever waits, notifications and time-outs do, the pool lends connections:
\* each is free or with one DAO and passes on only through the pool.
THEOREM ImplementsLending == Spec => LendingSpec
<1>1. OwnerInv /\ [Next]_vars => OwnerInv'
  BY NextType, NextOwner DEF OwnerInv
<1>2. Spec => []OwnerInv
  BY <1>1, InitOwner, PTL DEF Spec
<1> QED BY <1>2, InitLent, StepLent, PTL
        DEF Spec, LendingSpec, Lent!LendingSpec

-----------------------------------------------------------------------------
(* The size of the queue.  A DAO that is built has taken an entry or has   *)
(* given up; its destructor adds one in either case.                       *)

EntriesInv == TypeInv /\ EntriesConserved /\ (~created => gaveUp = 0)

LEMMA InitEntries == Init => EntriesInv
BY InitType DEF Init, EntriesInv, EntriesConserved

\* What a step does to the set of DAOs that are built.
LEMMA BuiltFacts ==
  ASSUME TypeInv, NEW d \in Dao
  PROVE  /\ Takes(d) \/ GivesUp(d) =>
              Cardinality(Built') = Cardinality(Built) + 1
         /\ Sleeps(d) \/ Stirs(d) => Built' = Built
         /\ releaseConnection(d) => Cardinality(Built') = Cardinality(Built) - 1
<1>1. phase \in [Dao -> Phase] /\ IsFiniteSet(Built) /\ Cardinality(Built) \in Nat
  BY EntryFacts, PhaseSets
<1>2. ASSUME Takes(d) \/ GivesUp(d)
      PROVE  Cardinality(Built') = Cardinality(Built) + 1
  <2>1. Built' = Built \cup {d} /\ d \notin Built
    BY <1>1, <1>2 DEF Takes, TakeFront, GivesUp, Built
  <2> QED BY <1>1, <2>1, FS_AddElement
<1>3. ASSUME Sleeps(d) \/ Stirs(d) PROVE Built' = Built
  BY <1>1, <1>3 DEF Sleeps, Sleep, Stirs, Built
<1>4. ASSUME releaseConnection(d)
      PROVE  Cardinality(Built') = Cardinality(Built) - 1
  <2>1. Built' = Built \ {d} /\ d \in Built
    BY <1>1, <1>4 DEF releaseConnection, Built, Waiting
  <2> QED BY <1>1, <2>1, FS_RemoveElement
<1> QED BY <1>2, <1>3, <1>4

LEMMA NextEntries == EntriesInv /\ [Next]_vars => EntriesInv'
<1> SUFFICES ASSUME EntriesInv, [Next]_vars PROVE EntriesInv'
  OBVIOUS
<1>1. /\ TypeInv /\ TypeInv' /\ EntriesConserved /\ (~created => gaveUp = 0)
      /\ MaxConnect \in Nat
  BY NextType, PoolAssumption DEF EntriesInv
<1>2. Cardinality(Built) \in Nat /\ Len(connections_) \in Nat /\ gaveUp \in Nat
  BY <1>1, PhaseSets, EntryFacts DEF TypeInv, PoolTypeOK
<1>3. CASE getInstance
  <2>1. Built' = {} /\ Cardinality(Built') = 0
    BY <1>1, <1>3, FS_EmptySet DEF getInstance, TypeInv, Fresh, Built
  <2>2. Len(connections_') = MaxConnect /\ gaveUp' = 0 /\ created'
    BY <1>1, <1>3 DEF getInstance, Conn
  <2> QED BY <1>1, <2>1, <2>2 DEF EntriesInv, EntriesConserved
<1>4. ASSUME NEW d \in Dao, Takes(d) PROVE EntriesInv'
  <2>1. Len(connections_') = Len(connections_) - 1 /\ created /\ created'
    BY <1>1, <1>2, <1>4, TakesFacts, EntryFacts, HeadTailProperties
    DEF Takes, TakeFront
  <2>2. gaveUp' = gaveUp
    BY <1>4 DEF Takes
  <2> QED BY <1>1, <1>2, <1>4, <2>1, <2>2, BuiltFacts
          DEF EntriesInv, EntriesConserved
<1>5. ASSUME NEW d \in Dao, GivesUp(d) PROVE EntriesInv'
  <2>1. /\ gaveUp' = gaveUp + 1 /\ created /\ created'
        /\ connections_' = connections_
    BY <1>5 DEF GivesUp
  <2>2. Cardinality(Built') = Cardinality(Built) + 1
    BY <1>1, <1>5, BuiltFacts
  <2> QED BY <1>1, <1>2, <2>1, <2>2 DEF EntriesInv, EntriesConserved
<1>6. ASSUME NEW d \in Dao, Sleeps(d) \/ Stirs(d) PROVE EntriesInv'
  <2>1. Built' = Built /\ created' = created
        /\ connections_' = connections_ /\ gaveUp' = gaveUp
    BY <1>1, <1>6, BuiltFacts DEF Sleeps, Sleep, Stirs
  <2> QED BY <1>1, <2>1 DEF EntriesInv, EntriesConserved
<1>7. ASSUME NEW d \in Dao, releaseConnection(d) PROVE EntriesInv'
  <2>1. Len(connections_') = Len(connections_) + 1 /\ created /\ created'
    <3>1. connection_[d] \in Entry /\ connections_ \in Seq(Entry)
      BY <1>1, EntryFacts
    <3>2. connections_' = Append(connections_, connection_[d])
      BY <1>7 DEF releaseConnection
    <3> QED BY <1>1, <1>7, <3>1, <3>2, ReleaseFacts
  <2>2. gaveUp' = gaveUp
    BY <1>7 DEF releaseConnection
  <2> QED BY <1>1, <1>2, <1>7, <2>1, <2>2, BuiltFacts
          DEF EntriesInv, EntriesConserved
<1>8. CASE Kept
  <2>1. Built' = Built
    BY <1>8 DEF Kept, Built
  <2> QED BY <1>1, <1>8, <2>1 DEF Kept, EntriesInv, EntriesConserved
<1> QED BY <1>1, <1>3, <1>4, <1>5, <1>6, <1>7, <1>8, StepKinds

\* The pool neither gains nor loses entries, but for one null pointer more for
\* every constructor that gave up.
THEOREM QueueBalanced == Spec => []EntriesConserved
<1>1. EntriesInv => EntriesConserved
  BY DEF EntriesInv
<1> QED BY <1>1, InitEntries, NextEntries, PTL DEF Spec

-----------------------------------------------------------------------------
(* A pool that is large enough.  peak counts the DAOs alive, and the       *)
(* balance of entries leaves one for each DAO up to MaxConnect, so nobody  *)
(* gives up and no null pointer comes into the queue.                      *)

PeakCounts == Cardinality(Alive) <= peak

NoNull ==
  created /\ peak <= MaxConnect /\ failed = {} =>
    /\ Waiting \cup Woken = {} /\ gaveUp = 0
    /\ \A i \in DOMAIN connections_ : connections_[i] # Null
    /\ \A d \in Built : connection_[d] # Null

ServeInv == EntriesInv /\ PeakCounts /\ NoNull

LEMMA InitServe == Init => ServeInv
<1> SUFFICES ASSUME Init PROVE ServeInv
  OBVIOUS
<1>1. Alive = {} /\ Cardinality(Alive) = 0
  BY FS_EmptySet DEF Init, Alive, Waiting, Woken, Built
<1>2. peak = 0 /\ ~created
  BY DEF Init
<1> QED BY <1>1, <1>2, InitEntries DEF ServeInv, PeakCounts, NoNull

\* Only getConnection adds a DAO, and counts it.
LEMMA NextPeak ==
  ASSUME TypeInv, PeakCounts, [Next]_vars
  PROVE  PeakCounts' /\ peak' >= peak
<1>1. /\ phase \in [Dao -> Phase] /\ peak \in Nat
      /\ IsFiniteSet(Alive) /\ Cardinality(Alive) \in Nat
  BY EntryFacts, PhaseSets DEF TypeInv, PoolTypeOK
<1>2. ASSUME NEW d \in Dao, getConnection(d)
      PROVE  PeakCounts' /\ peak' >= peak
  <2>1. Alive' = Alive \cup {d} /\ d \notin Alive
    BY <1>1, <1>2
    DEF getConnection, TakeFront, Sleep, Alive, Waiting, Woken, Built
  <2>2. Cardinality(Alive') = Cardinality(Alive) + 1
    BY <1>1, <2>1, FS_AddElement
  <2>3. peak' = IF Cardinality(Alive) < peak THEN peak
                ELSE Cardinality(Alive) + 1
    BY <1>2 DEF getConnection, Counted
  <2> QED BY <1>1, <2>2, <2>3 DEF PeakCounts
<1>3. ASSUME Alive' \subseteq Alive, peak' = peak
      PROVE  PeakCounts' /\ peak' >= peak
  <2>1. Cardinality(Alive') <= Cardinality(Alive) /\ Cardinality(Alive') \in Nat
    BY <1>1, <1>3, FS_Subset, FS_CardinalityType
  <2> QED BY <1>1, <1>3, <2>1 DEF PeakCounts
<1>4. ASSUME NEW d \in Dao, timeOut(d) \/ spuriousWakeup(d)
      PROVE  Alive' \subseteq Alive /\ peak' = peak
  BY <1>1, <1>4
  DEF timeOut, spuriousWakeup, counted, Alive, Waiting, Woken, Built
<1>5. ASSUME NEW d \in Dao, recheck(d)
      PROVE  Alive' \subseteq Alive /\ peak' = peak
  BY <1>1, <1>5
  DEF recheck, TakeFront, Sleep, counted, Alive, Waiting, Woken, Built
<1>6. ASSUME NEW d \in Dao, releaseConnection(d)
      PROVE  Alive' \subseteq Alive /\ peak' = peak
  BY <1>1, <1>6 DEF releaseConnection, counted, Alive, Waiting, Woken, Built
<1>7. CASE \/ getInstance \/ UNCHANGED vars
          \/ \E d \in Dao : prepareStatement(d)
  <2>1. Alive' = Alive /\ peak' = peak
    BY <1>7 DEF getInstance, prepareStatement, vars, counted, Alive, Waiting,
                Woken, Built
  <2> QED BY <1>3, <2>1
<1> QED BY <1>2, <1>3, <1>4, <1>5, <1>6, <1>7 DEF Next, Step

LEMMA NextNoNull ==
  ASSUME ServeInv, [Next]_vars
  PROVE  NoNull'
<1>1. /\ TypeInv /\ EntriesConserved /\ PeakCounts /\ NoNull
      /\ PeakCounts' /\ peak' >= peak /\ peak \in Nat /\ peak' \in Nat
      /\ MaxConnect \in Nat
  <2>1. TypeInv /\ TypeInv'
    BY NextType DEF ServeInv, EntriesInv
  <2> QED BY <2>1, NextPeak, PoolAssumption
          DEF ServeInv, EntriesInv, TypeInv, PoolTypeOK
<1> SUFFICES ASSUME created', peak' <= MaxConnect, failed' = {}
             PROVE  /\ Waiting' \cup Woken' = {} /\ gaveUp' = 0
                    /\ \A i \in DOMAIN connections_' : connections_'[i] # Null
                    /\ \A d \in Built' : connection_'[d] # Null
  BY DEF NoNull
<1>2. peak <= MaxConnect /\ phase \in [Dao -> Phase]
  BY <1>1, EntryFacts
<1>3. CASE getInstance
  <2>1. /\ connections_' = [i \in Conn |-> i] /\ phase' = phase /\ gaveUp' = gaveUp
        /\ ~created
    BY <1>3 DEF getInstance
  <2>2. Waiting' \cup Woken' = {} /\ Built' = {} /\ gaveUp = 0
    BY <1>1, <2>1 DEF TypeInv, Fresh, Waiting, Woken, Built, ServeInv, EntriesInv
  <2> QED BY <1>1, <2>1, <2>2, EntryFacts
<1>4. ASSUME created, failed = {}
      PROVE  /\ Waiting = {} /\ Woken = {} /\ gaveUp = 0
             /\ \A i \in DOMAIN connections_ : connections_[i] # Null
             /\ \A d \in Built : connection_[d] # Null
  BY <1>1, <1>2, <1>4 DEF NoNull
<1>5. ASSUME NEW d \in Dao, Takes(d)
      PROVE  /\ Waiting' \cup Woken' = {} /\ gaveUp' = 0
             /\ \A i \in DOMAIN connections_' : connections_'[i] # Null
             /\ \A e \in Built' : connection_'[e] # Null
  <2>1. created /\ failed = {} /\ gaveUp' = gaveUp
    BY <1>5 DEF Takes
  <2>2. Waiting' = Waiting /\ Woken' \subseteq Woken /\ Built' = Built \cup {d}
    BY <1>2, <1>5 DEF Takes, TakeFront, Waiting, Woken, Built
  <2>3. connections_[1] # Null /\ Len(connections_) \in Nat
    BY <1>1, <1>4, <1>5, <2>1, TakesFacts, EntryFacts
  <2>4. \A i \in DOMAIN connections_' : connections_'[i] # Null
    <3> SUFFICES ASSUME NEW i \in 1..(Len(connections_) - 1)
                 PROVE  connections_'[i] # Null
      BY <1>1, <1>5, TakesFacts
    <3>1. i + 1 \in DOMAIN connections_
      BY <1>1, EntryFacts
    <3>2. connections_'[i] = connections_[i + 1]
      BY <1>1, <1>5, TakesFacts
    <3> QED BY <1>4, <2>1, <3>1, <3>2
  <2>5. \A e \in Built' : connection_'[e] # Null
    <3>1. connection_' = [connection_ EXCEPT ![d] = connections_[1]]
      BY <1>1, <1>5, TakesFacts
    <3>2. connection_ \in [Dao -> Entry] /\ Built \subseteq Dao
      BY <1>1, EntryFacts, PhaseSets
    <3>3. \A e \in Built : connection_[e] # Null
      BY <1>4, <2>1
    <3> QED BY <2>2, <2>3, <3>1, <3>2, <3>3
  <2> QED BY <1>4, <2>1, <2>2, <2>4, <2>5
<1>6. ASSUME NEW d \in Dao, Sleeps(d) PROVE FALSE
  <2>1. /\ created /\ failed = {} /\ connections_ = <<>> /\ phase[d] # "built"
        /\ phase[d] \in {"none", "woken"} /\ phase' = [phase EXCEPT ![d] = "waiting"]
    BY <1>6 DEF Sleeps, Sleep
  <2>2. Waiting = {} /\ Woken = {} /\ gaveUp = 0
    BY <1>4, <2>1
  <2>3. Alive = Built /\ d \notin Alive /\ Alive' = Alive \cup {d}
    BY <1>2, <2>1, <2>2 DEF Alive, Waiting, Woken, Built
  <2>4. Cardinality(Built) = MaxConnect
    BY <1>1, <2>1, <2>2, PhaseSets, EmptySeq DEF EntriesConserved
  <2>5. Cardinality(Alive') = MaxConnect + 1
    BY <2>3, <2>4, PhaseSets, FS_AddElement
  <2> QED BY <1>1, <2>5 DEF PeakCounts
<1>7. ASSUME NEW d \in Dao, GivesUp(d) \/ Stirs(d) PROVE FALSE
  <2>1. created /\ failed = {} /\ d \in Waiting \cup Woken
    BY <1>7 DEF GivesUp, Stirs, Waiting, Woken
  <2> QED BY <1>4, <2>1
<1>8. ASSUME NEW d \in Dao, releaseConnection(d)
      PROVE  /\ Waiting' \cup Woken' = {} /\ gaveUp' = 0
             /\ \A i \in DOMAIN connections_' : connections_'[i] # Null
             /\ \A e \in Built' : connection_'[e] # Null
  <2>1. created /\ failed = {} /\ gaveUp' = gaveUp /\ d \in Built
    BY <1>1, <1>8, ReleaseFacts DEF releaseConnection, Built
  <2>2. phase' = [phase EXCEPT ![d] = "none"]
    BY <1>4, <1>8, <2>1 DEF releaseConnection
  <2>3. Waiting' \cup Woken' = {} /\ Built' = Built \ {d}
    BY <1>2, <1>4, <2>1, <2>2 DEF Waiting, Woken, Built
  <2>4. \A i \in DOMAIN connections_' :
          i \in 1..Len(connections_) \/ i = Len(connections_) + 1
    <3>1. DOMAIN connections_' = 1..(Len(connections_) + 1)
      BY <1>1, <1>8, ReleaseFacts
    <3>2. Len(connections_) \in Nat
      BY <1>1, EntryFacts
    <3> QED BY <3>1, <3>2
  <2>5. \A i \in DOMAIN connections_' : connections_'[i] # Null
    <3>1. \A i \in 1..Len(connections_) : connections_'[i] = connections_[i]
          /\ i \in DOMAIN connections_
      BY <1>1, <1>8, ReleaseFacts, EntryFacts
    <3>2. connections_'[Len(connections_) + 1] # Null
      BY <1>1, <1>4, <1>8, <2>1, ReleaseFacts
    <3>3. \A i \in DOMAIN connections_ : connections_[i] # Null
      BY <1>4, <2>1
    <3>4. ASSUME NEW i \in 1..Len(connections_) PROVE connections_'[i] # Null
      BY <3>1, <3>3
    <3>5. ASSUME NEW i, i = Len(connections_) + 1 PROVE connections_'[i] # Null
      BY <3>2, <3>5
    <3> QED BY <2>4, <3>4, <3>5
  <2>6. \A e \in Built' : connection_'[e] # Null
    BY <1>1, <1>4, <1>8, <2>1, <2>3, ReleaseFacts, EntryFacts DEF Built
  <2> QED BY <1>4, <2>1, <2>3, <2>5, <2>6
<1>9. CASE Kept
  <2>1. Waiting' = Waiting /\ Woken' = Woken /\ Built' = Built
    BY <1>9 DEF Kept, Waiting, Woken, Built
  <2> QED BY <1>4, <1>9, <2>1 DEF Kept
<1> QED BY <1>1, <1>3, <1>5, <1>6, <1>7, <1>8, <1>9, StepKinds

\* A pool with a connection for every DAO, all of them created, serves every
\* constructor at once, whatever the order of constructors and destructors.
THEOREM LargeEnoughServes == Spec => []ServesAll
<1>1. ServeInv /\ [Next]_vars => ServeInv'
  <2> SUFFICES ASSUME ServeInv, [Next]_vars PROVE ServeInv'
    OBVIOUS
  <2>1. EntriesInv /\ TypeInv /\ PeakCounts
    BY DEF ServeInv, EntriesInv
  <2> QED BY <2>1, NextEntries, NextPeak, NextNoNull DEF ServeInv
<1>2. ServeInv => ServesAll
  <2> SUFFICES ASSUME ServeInv PROVE ServesAll
    OBVIOUS
  <2>1. ~created => Waiting \cup Woken = {} /\ Built = {}
    BY DEF ServeInv, EntriesInv, TypeInv, Fresh, Waiting, Woken, Built
  <2> QED BY <2>1 DEF ServeInv, NoNull, ServesAll
<1> QED BY <1>1, <1>2, InitServe, PTL DEF Spec
=============================================================================
