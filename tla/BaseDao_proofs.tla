---------------------------- MODULE BaseDao_proofs ----------------------------
(***************************************************************************)
(* Proofs about the calls of a DAO, for any number of workers, any records *)
(* and conditions and any stored rows: a statement puts each value in its  *)
(* column, a caller told true has had its statement executed, a lookup     *)
(* answers with a row it was asked for, and users never change.            *)
(***************************************************************************)
EXTENDS BaseDao, TLAPS

-----------------------------------------------------------------------------
(* The loop of insert() over the three keys of each table.                 *)

LEMMA ThreeAppended ==
  ASSUME NEW V, NEW x \in V, NEW y \in V, NEW z \in V
  PROVE  LET s == Append(Append(Append(<<>>, x), y), z)
         IN  Len(s) = 3 /\ s[1] = x /\ s[2] = y /\ s[3] = z
OBVIOUS

\* For friendships every placeholder gets the value of its own column.
LEMMA BoundFriendships ==
  ASSUME NEW record
  PROVE  LET bound == Bound("friendships", record) IN
           /\ Len(bound) = 3
           /\ bound[1] = record["status"]
           /\ bound[2] = record["user_id1"]
           /\ bound[3] = record["user_id2"]
<1> DEFINE keys == Keys["friendships"]
           IsLoop(f) ==
             f = [i \in 0..3 |->
                    IF i = 0 THEN <<>>
                    ELSE IF IsKnown(keys[i]) THEN Append(f[i - 1], record[keys[i]])
                    ELSE f[i - 1]]
           b1 == Append(<<>>, record["status"])
           b2 == Append(b1, record["user_id1"])
           b3 == Append(b2, record["user_id2"])
<1>1. /\ Len(keys) = 3
      /\ keys[1] = "status" /\ keys[2] = "user_id1" /\ keys[3] = "user_id2"
  BY DEF Keys
<1>2. \A i \in 1..3 : IsKnown(keys[i])
  BY <1>1 DEF IsKnown, Known
<1>3. /\ Len(b3) = 3
      /\ b3[1] = record["status"]
      /\ b3[2] = record["user_id1"]
      /\ b3[3] = record["user_id2"]
  <2> DEFINE V == {record["status"], record["user_id1"], record["user_id2"]}
  <2>1. /\ record["status"] \in V /\ record["user_id1"] \in V
        /\ record["user_id2"] \in V
    OBVIOUS
  <2> HIDE DEF V
  <2> QED BY <2>1, ThreeAppended
<1>4. /\ Append(<<>>, record["status"]) = b1
      /\ Append(b1, record["user_id1"]) = b2
      /\ Append(b2, record["user_id2"]) = b3
  OBVIOUS
<1> HIDE DEF keys, b1, b2, b3
<1>5. IsLoop([i \in 0..3 |->
                IF i = 0 THEN <<>> ELSE IF i = 1 THEN b1 ELSE IF i = 2 THEN b2 ELSE b3])
  BY <1>1, <1>2, <1>4
<1>6. ASSUME NEW f, IsLoop(f) PROVE f[3] = b3
  <2>1. f[0] = <<>>
    BY <1>6
  <2>2. f[1] = b1
    BY <1>1, <1>2, <1>4, <1>6, <2>1
  <2>3. f[2] = b2
    BY <1>1, <1>2, <1>4, <1>6, <2>2
  <2> QED BY <1>1, <1>2, <1>4, <1>6, <2>3
<1>7. IsLoop(CHOOSE f : IsLoop(f))
  BY <1>5
<1>8. Bound("friendships", record) = b3
  BY ZenonT(40), <1>1, <1>6, <1>7 DEF Bound, keys
<1> QED BY <1>3, <1>8

\* Of a user none of the three columns is bound.
LEMMA BoundUsers ==
  ASSUME NEW record
  PROVE  Bound("users", record) = <<>>
<1> DEFINE keys == Keys["users"]
           IsLoop(f) ==
             f = [i \in 0..3 |->
                    IF i = 0 THEN <<>>
                    ELSE IF IsKnown(keys[i]) THEN Append(f[i - 1], record[keys[i]])
                    ELSE f[i - 1]]
<1>1. Len(keys) = 3
  BY DEF Keys
<1>2. \A i \in 1..3 : ~IsKnown(keys[i])
  BY DEF Keys, IsKnown, Known
<1> HIDE DEF keys
<1>3. IsLoop([i \in 0..3 |-> <<>>])
  BY <1>2
<1>4. ASSUME NEW f, IsLoop(f) PROVE f[3] = <<>>
  BY <1>2, <1>4
<1>5. IsLoop(CHOOSE f : IsLoop(f))
  BY <1>3
<1> QED BY ZenonT(40), <1>1, <1>4, <1>5 DEF Bound, keys

\* Whatever is inserted into friendships is the record that was given.
LEMMA InsertedRecord ==
  ASSUME NEW c, c.dao = "friendships", c.record \in Record["friendships"]
  PROVE  Inserted(c) = [id |-> c.n, col |-> c.record]
<1> DEFINE keys == Keys["friendships"]
           place(k) == CHOOSE i \in DOMAIN keys : keys[i] = k
<1>1. /\ DOMAIN keys = 1..3
      /\ keys[1] = "status" /\ keys[2] = "user_id1" /\ keys[3] = "user_id2"
  BY DEF Keys
<1>2. Column("friendships") = {"status", "user_id1", "user_id2"}
  BY <1>1 DEF Column
<1> HIDE DEF keys
<1>3. \A k \in Column("friendships") : place(k) \in 1..3 /\ keys[place(k)] = k
  BY <1>1, <1>2
<1>4. /\ place("status") = 1 /\ place("user_id1") = 2 /\ place("user_id2") = 3
  BY <1>1, <1>2, <1>3
<1> DEFINE b == Bound("friendships", c.record)
<1>5. \A k \in Column("friendships") : b[place(k)] = c.record[k]
  <2>1. /\ b[1] = c.record["status"] /\ b[2] = c.record["user_id1"]
        /\ b[3] = c.record["user_id2"]
    BY BoundFriendships
  <2> HIDE DEF b, place
  <2> QED BY <1>2, <1>4, <2>1
<1>6. c.record = [k \in Column("friendships") |-> c.record[k]]
  BY DaoAssumption DEF Dao
<1>7. Inserted(c) = [id |-> c.n,
                     col |-> [k \in Column("friendships") |-> b[place(k)]]]
  BY DEF Inserted, keys
<1> HIDE DEF b, place
<1> QED BY <1>5, <1>6, <1>7

\* No user is ever inserted: a placeholder without a value is refused.
LEMMA UsersRefused ==
  ASSUME NEW c, c.dao = "users", c.op = "insert"
  PROVE  ~Complete(c)
<1>1. Len(Bound("users", c.record)) = 0
  BY BoundUsers
<1>2. Len(Keys["users"]) = 3
  BY DEF Keys
<1>3. 0 # 3
  OBVIOUS
<1>4. Len(Bound("users", c.record)) # Len(Keys["users"])
  BY <1>1, <1>2, <1>3, Zenon
<1> QED BY <1>4, Zenon DEF Complete

-----------------------------------------------------------------------------
(* Types.  Values and columns have none, so a record is said to be one by  *)
(* the fields it has.                                                      *)

Field == {"at", "n", "dao", "op", "record", "cond", "ok", "data"}

IsCall(c) == c = [f \in Field |-> c[f]]

Given(c) ==
  /\ c.dao \in Dao /\ c.op \in Op[c.dao]
  /\ c.record \in Record[c.dao] /\ c.cond \in Condition[c.dao]

CallType(c) ==
  /\ IsCall(c)
  /\ c.at \in {"idle", "called", "bound", "returned"}
  /\ c.at # "idle" => Given(c)

TypeInv ==
  /\ table = [dao \in Dao |-> table[dao]]
  /\ call = [w \in Caller |-> call[w]]
  /\ \A w \in Caller : CallType(call[w])
  /\ calls \in 0..MaxCalls

\* What a step leaves of a call.
Same(c, d) ==
  /\ d.n = c.n /\ d.dao = c.dao /\ d.op = c.op
  /\ d.record = c.record /\ d.cond = c.cond

LEMMA OneCall ==
  ASSUME TypeInv, NEW w \in Caller, NEW c, call' = [call EXCEPT ![w] = c]
  PROVE  /\ call'[w] = c /\ \A v \in Caller \ {w} : call'[v] = call[v]
         /\ call' = [v \in Caller |-> call'[v]]
BY DEF TypeInv

LEMMA EnterFacts ==
  ASSUME TypeInv, NEW w \in Caller, NEW dao \in Dao, NEW op \in Op[dao],
         NEW record \in Record[dao], NEW cond \in Condition[dao],
         enter(w, dao, op, record, cond)
  PROVE  /\ call[w].at = "idle" /\ call'[w].at = "called"
         /\ call'[w].n = calls + 1 /\ calls' = calls + 1 /\ calls < MaxCalls
         /\ ~call'[w].ok /\ call'[w].data = NoData
         /\ CallType(call'[w])
         /\ \A v \in Caller \ {w} : call'[v] = call[v]
         /\ call' = [v \in Caller |-> call'[v]]
         /\ UNCHANGED <<table, done>>
<1> DEFINE c == [at |-> "called", n |-> calls + 1, dao |-> dao, op |-> op,
                 record |-> record, cond |-> cond, ok |-> FALSE, data |-> NoData]
<1>1. call' = [call EXCEPT ![w] = c]
  BY DEF enter
<1>2. /\ c.at = "called" /\ c.n = calls + 1 /\ ~c.ok /\ c.data = NoData
      /\ CallType(c)
  BY DEF CallType, IsCall, Field, Given
<1> HIDE DEF c
<1> QED BY <1>1, <1>2, OneCall DEF enter

LEMMA PrepareFacts ==
  ASSUME TypeInv, NEW w \in Caller, prepareStatement(w)
  PROVE  /\ call[w].at = "called" /\ call'[w].at \in {"bound", "returned"}
         /\ Same(call[w], call'[w])
         /\ call'[w].ok = call[w].ok /\ call'[w].data = call[w].data
         /\ CallType(call'[w])
         /\ \A v \in Caller \ {w} : call'[v] = call[v]
         /\ call' = [v \in Caller |-> call'[v]]
         /\ UNCHANGED <<table, calls, done>>
<1>1. CallType(call[w])
  BY DEF TypeInv
<1>2. PICK at \in {"bound", "returned"} :
        call' = [call EXCEPT ![w] = [call[w] EXCEPT !.at = at]]
  BY DEF prepareStatement
<1> DEFINE c == [call[w] EXCEPT !.at = at]
<1>3. /\ c.at = at /\ Same(call[w], c) /\ c.ok = call[w].ok
      /\ c.data = call[w].data /\ IsCall(c)
  BY <1>1 DEF CallType, IsCall, Field, Same
<1>4. CallType(c)
  BY <1>1, <1>3 DEF CallType, Given, Same, prepareStatement
<1> HIDE DEF c
<1>5. call' = [call EXCEPT ![w] = c]
  BY <1>2 DEF c
<1> QED BY <1>3, <1>4, <1>5, OneCall DEF prepareStatement

\* A call that comes back, with a new result or with new data.
LEMMA Returned ==
  ASSUME NEW b, IsCall(b), NEW ok
  PROVE  LET c == [b EXCEPT !.at = "returned", !.ok = ok] IN
           /\ c.at = "returned" /\ Same(b, c) /\ c.ok = ok /\ c.data = b.data
           /\ IsCall(c)
BY DEF IsCall, Field, Same

LEMMA Answered ==
  ASSUME NEW b, IsCall(b), NEW r
  PROVE  LET c == [b EXCEPT !.at = "returned", !.data = r] IN
           /\ c.at = "returned" /\ Same(b, c) /\ c.ok = b.ok /\ c.data = r
           /\ IsCall(c)
BY DEF IsCall, Field, Same

LEMMA ExecuteFacts ==
  ASSUME TypeInv, NEW w \in Caller, executeUpdate(w)
  PROVE  /\ call[w].at = "bound" /\ call[w].op # "select"
         /\ call'[w].at = "returned"
         /\ Same(call[w], call'[w]) /\ call'[w].data = call[w].data
         /\ Succeeds(w) \/ UNCHANGED <<table, done>>
         /\ Succeeds(w) \/ call'[w].ok = call[w].ok
         /\ CallType(call'[w])
         /\ \A v \in Caller \ {w} : call'[v] = call[v]
         /\ call' = [v \in Caller |-> call'[v]]
         /\ UNCHANGED calls
<1>1. CallType(call[w])
  BY DEF TypeInv
<1>2. PICK ok \in {TRUE, call[w].ok} :
        /\ call' = [call EXCEPT ![w] = [call[w] EXCEPT !.at = "returned", !.ok = ok]]
        /\ Succeeds(w) \/ ok = call[w].ok
  <2>1. CASE call' = [call EXCEPT ![w].at = "returned", ![w].ok = TRUE] /\ Succeeds(w)
    <3>1. call' = [call EXCEPT ![w] = [call[w] EXCEPT !.at = "returned", !.ok = TRUE]]
      BY <2>1 DEF TypeInv
    <3> QED BY <2>1, <3>1
  <2>2. CASE call' = [call EXCEPT ![w].at = "returned"]
    <3>1. [call[w] EXCEPT !.at = "returned"]
            = [call[w] EXCEPT !.at = "returned", !.ok = call[w].ok]
      BY <1>1 DEF CallType, IsCall, Field
    <3> QED BY <2>2, <3>1
  <2> QED BY <2>1, <2>2 DEF executeUpdate
<1> DEFINE c == [call[w] EXCEPT !.at = "returned", !.ok = ok]
<1>3. /\ c.at = "returned" /\ Same(call[w], c) /\ c.ok = ok
      /\ c.data = call[w].data /\ IsCall(c)
  BY ZenonT(40), <1>1, Returned DEF CallType
<1>4. CallType(c)
  BY <1>1, <1>3 DEF CallType, Given, Same, executeUpdate
<1> HIDE DEF c
<1>5. call' = [call EXCEPT ![w] = c]
  BY <1>2 DEF c
<1> QED BY <1>2, <1>3, <1>4, <1>5, OneCall DEF executeUpdate

LEMMA QueryFacts ==
  ASSUME TypeInv, NEW w \in Caller, executeQuery(w)
  PROVE  /\ call[w].at = "bound" /\ call[w].op = "select"
         /\ call'[w].at = "returned"
         /\ Same(call[w], call'[w]) /\ call'[w].ok = call[w].ok
         /\ \/ call'[w].data = call[w].data
            \/ \E row \in table[call[w].dao] :
                 row.col \in call[w].cond /\ call'[w].data = Copied(row)
         /\ CallType(call'[w])
         /\ \A v \in Caller \ {w} : call'[v] = call[v]
         /\ call' = [v \in Caller |-> call'[v]]
         /\ UNCHANGED <<table, calls, done>>
<1>1. CallType(call[w])
  BY DEF TypeInv
<1>2. \E r : /\ call' = [call EXCEPT ![w] = [call[w] EXCEPT !.at = "returned", !.data = r]]
             /\ \/ r = call[w].data
                \/ \E row \in table[call[w].dao] :
                     row.col \in call[w].cond /\ r = Copied(row)
  <2>1. CASE call' = [call EXCEPT ![w].at = "returned"]
    <3>1. [call[w] EXCEPT !.at = "returned"]
            = [call[w] EXCEPT !.at = "returned", !.data = call[w].data]
      BY <1>1 DEF CallType, IsCall, Field
    <3> QED BY <2>1, <3>1
  <2>2. ASSUME NEW row \in table[call[w].dao], row.col \in call[w].cond,
               call' = [call EXCEPT ![w].at = "returned", ![w].data = Copied(row)]
        PROVE  call' = [call EXCEPT ![w] =
                          [call[w] EXCEPT !.at = "returned", !.data = Copied(row)]]
    BY <2>2 DEF TypeInv
  <2> QED BY <2>1, <2>2 DEF executeQuery
<1> PICK r : /\ call' = [call EXCEPT ![w] = [call[w] EXCEPT !.at = "returned", !.data = r]]
             /\ \/ r = call[w].data
                \/ \E row \in table[call[w].dao] :
                     row.col \in call[w].cond /\ r = Copied(row)
  BY <1>2
<1> DEFINE c == [call[w] EXCEPT !.at = "returned", !.data = r]
<1>3. /\ c.at = "returned" /\ Same(call[w], c) /\ c.ok = call[w].ok
      /\ c.data = r /\ IsCall(c)
  BY ZenonT(40), <1>1, Answered DEF CallType
<1>4. CallType(c)
  BY <1>1, <1>3 DEF CallType, Given, Same, executeQuery
<1> HIDE DEF c
<1>5. call' = [call EXCEPT ![w] = c]
  BY DEF c
<1> QED BY <1>3, <1>4, <1>5, OneCall DEF executeQuery

LEMMA ThrowFacts ==
  ASSUME TypeInv, NEW w \in Caller, rowsThrow(w)
  PROVE  /\ call'[w].at = "idle" /\ ~call'[w].ok
         /\ CallType(call'[w])
         /\ \A v \in Caller \ {w} : call'[v] = call[v]
         /\ call' = [v \in Caller |-> call'[v]]
         /\ UNCHANGED <<table, calls, done>>
<1>1. NoCall.at = "idle" /\ ~NoCall.ok /\ CallType(NoCall)
  BY DEF NoCall, CallType, IsCall, Field
<1>2. call' = [call EXCEPT ![w] = NoCall]
  BY DEF rowsThrow
<1> QED BY <1>1, <1>2, OneCall DEF rowsThrow

LEMMA LeaveFacts ==
  ASSUME TypeInv, NEW w \in Caller, leave(w)
  PROVE  /\ call'[w].at = "idle" /\ ~call'[w].ok
         /\ CallType(call'[w])
         /\ \A v \in Caller \ {w} : call'[v] = call[v]
         /\ call' = [v \in Caller |-> call'[v]]
         /\ UNCHANGED <<table, calls, done>>
<1> DEFINE c == [NoCall EXCEPT !.data = call[w].data]
<1>1. IsCall(NoCall)
  BY DEF NoCall, IsCall, Field
<1>2. c.at = "idle" /\ ~c.ok /\ CallType(c)
  <2>1. NoCall.at = "idle" /\ ~NoCall.ok
    BY DEF NoCall
  <2> QED BY <1>1, <2>1 DEF CallType, IsCall, Field
<1>3. call' = [call EXCEPT ![w] = c]
  BY DEF leave
<1> HIDE DEF c
<1> QED BY <1>2, <1>3, OneCall DEF leave

LEMMA InitType ==
  ASSUME Init
  PROVE  TypeInv
<1>1. CallType(NoCall)
  BY DEF NoCall, CallType, IsCall, Field
<1>2. table = [dao \in Dao |-> table[dao]]
  BY DaoAssumption DEF Init
<1> QED BY <1>1, <1>2, DaoAssumption DEF Init, TypeInv

\* What an executed statement leaves of the tables.
LEMMA SucceedsFacts ==
  ASSUME TypeInv, NEW w \in Caller, call[w].at = "bound", Succeeds(w)
  PROVE  /\ table' = [dao \in Dao |-> table'[dao]]
         /\ table'[call[w].dao] = Executed(call[w])
         /\ \A dao \in Dao \ {call[w].dao} : table'[dao] = table[dao]
<1>1. call[w].dao \in Dao
  BY DEF TypeInv, CallType, Given
<1> QED BY <1>1 DEF TypeInv, Succeeds

LEMMA NextType ==
  ASSUME TypeInv, [Next]_vars
  PROVE  TypeInv'
<1>1. ASSUME NEW w \in Caller, NEW dao \in Dao, NEW op \in Op[dao],
             NEW record \in Record[dao], NEW cond \in Condition[dao],
             enter(w, dao, op, record, cond)
      PROVE  TypeInv'
  <2>1. calls' \in 0..MaxCalls
    BY <1>1, EnterFacts, DaoAssumption DEF TypeInv
  <2> QED BY <1>1, <2>1, EnterFacts DEF TypeInv
<1>2. ASSUME NEW w \in Caller, prepareStatement(w)
      PROVE  TypeInv'
  BY <1>2, PrepareFacts DEF TypeInv
<1>3. ASSUME NEW w \in Caller, executeUpdate(w)
      PROVE  TypeInv'
  <2>1. table' = [dao \in Dao |-> table'[dao]]
    BY <1>3, ExecuteFacts, SucceedsFacts DEF TypeInv
  <2> QED BY <1>3, <2>1, ExecuteFacts DEF TypeInv
<1>4. ASSUME NEW w \in Caller, executeQuery(w)
      PROVE  TypeInv'
  BY <1>4, QueryFacts DEF TypeInv
<1>5. ASSUME NEW w \in Caller, leave(w)
      PROVE  TypeInv'
  BY <1>5, LeaveFacts DEF TypeInv
<1>6. ASSUME NEW w \in Caller, rowsThrow(w)
      PROVE  TypeInv'
  BY <1>6, ThrowFacts DEF TypeInv
<1>7. ASSUME UNCHANGED vars
      PROVE  TypeInv'
  BY <1>7 DEF TypeInv, vars, CallType, IsCall, Given
<1> QED BY <1>1, <1>2, <1>3, <1>4, <1>5, <1>6, <1>7 DEF Next

\* Types hold throughout.
THEOREM Typed == Spec => []TypeInv
<1> QED BY InitType, NextType, PTL DEF Spec

-----------------------------------------------------------------------------
(* What a caller is told.                                                  *)

\* Only an executed statement makes a call true, and it has come back then.
ToldInv ==
  \A w \in Caller : call[w].ok => call[w].at = "returned" /\ call[w].n \in done

\* A worker that is told true can rely on its own statement having been
\* executed, whatever other workers do with the same DAO.
THEOREM ToldTruth == Spec => []TrueMeansDone
<1>1. Init => ToldInv
  BY DEF Init, ToldInv, NoCall
<1>2. ASSUME TypeInv, ToldInv, [Next]_vars
      PROVE  ToldInv'
  <2>1. ASSUME NEW w \in Caller, NEW dao \in Dao, NEW op \in Op[dao],
               NEW record \in Record[dao], NEW cond \in Condition[dao],
               enter(w, dao, op, record, cond)
        PROVE  ToldInv'
    BY <1>2, <2>1, EnterFacts DEF ToldInv
  <2>2. ASSUME NEW w \in Caller, prepareStatement(w)
        PROVE  ToldInv'
    BY <1>2, <2>2, PrepareFacts DEF ToldInv
  <2>3. ASSUME NEW w \in Caller, executeUpdate(w)
        PROVE  ToldInv'
    <3>1. done \subseteq done'
      BY <1>2, <2>3, ExecuteFacts DEF Succeeds
    <3>2. call'[w].ok => call'[w].at = "returned" /\ call'[w].n \in done'
      BY <1>2, <2>3, ExecuteFacts DEF Succeeds, Same, ToldInv
    <3> QED BY <1>2, <2>3, <3>1, <3>2, ExecuteFacts DEF ToldInv
  <2>4. ASSUME NEW w \in Caller, executeQuery(w)
        PROVE  ToldInv'
    BY <1>2, <2>4, QueryFacts DEF ToldInv
  <2>5. ASSUME NEW w \in Caller, leave(w)
        PROVE  ToldInv'
    BY <1>2, <2>5, LeaveFacts DEF ToldInv
  <2>6. ASSUME NEW w \in Caller, rowsThrow(w)
        PROVE  ToldInv'
    BY <1>2, <2>6, ThrowFacts DEF ToldInv
  <2>7. ASSUME UNCHANGED vars
        PROVE  ToldInv'
    BY <1>2, <2>7 DEF ToldInv, vars
  <2> QED BY <1>2, <2>1, <2>2, <2>3, <2>4, <2>5, <2>6, <2>7 DEF Next
<1>3. ToldInv => TrueMeansDone
  BY DEF ToldInv, TrueMeansDone
<1> QED BY <1>1, <1>2, <1>3, Typed, PTL DEF Spec

-----------------------------------------------------------------------------
(* What calls do to the tables.                                            *)

\* No step changes a user: an insert is refused, and users are neither updated
\* nor removed.
LEMMA UsersKept ==
  ASSUME TypeInv, [Next]_vars
  PROVE  table'["users"] = table["users"]
<1>1. ASSUME NEW w \in Caller, executeUpdate(w)
      PROVE  table'["users"] = table["users"]
  <2>1. Given(call[w])
    BY <1>1, ExecuteFacts DEF TypeInv, CallType
  <2>2. ASSUME Succeeds(w)
        PROVE  call[w].dao # "users"
    <3>1. call[w].dao = "users" => call[w].op = "insert"
      BY <1>1, <2>1, ExecuteFacts DEF Given, Op
    <3> QED BY <2>2, <3>1, UsersRefused DEF Succeeds
  <2> QED BY <1>1, <2>2, ExecuteFacts, SucceedsFacts DEF Dao
<1> QED BY <1>1, EnterFacts, PrepareFacts, QueryFacts, ThrowFacts, LeaveFacts
        DEF Next, vars

\* No call of the program changes the users.
THEOREM UsersStay == Spec => UsersUnchanged
BY UsersKept, Typed, PTL DEF Spec, UsersUnchanged

\* What is asked for and found: the id, the name and the password of a row.
Found(c, users) ==
  /\ c.op = "select" /\ c.data.email = ""
  /\ \E r \in users :
       /\ r.col \in c.cond
       /\ c.data.id = r.id
       /\ c.data.username = r.col["username"]
       /\ c.data.password = r.col["password"]

\* From the call until it is left, the result object has what it was
\* constructed with or what this query found.
FoundInv ==
  \A w \in Caller :
    call[w].at # "idle" /\ call[w].data # NoData => Found(call[w], table["users"])

LEMMA FoundSame ==
  ASSUME NEW c, NEW d, Same(c, d), d.data = c.data, NEW users, Found(c, users)
  PROVE  Found(d, users)
BY DEF Found, Same

\* What is copied of a row is its id, its name and its password.
LEMMA CopiedFields ==
  ASSUME NEW r
  PROVE  /\ Copied(r).id = r.id /\ Copied(r).email = ""
         /\ Copied(r).username = r.col["username"]
         /\ Copied(r).password = r.col["password"]
BY DEF Copied, NoData

\* A lookup answers with the id, name and password of a row it was asked for,
\* without its email, or with the default record.
THEOREM FoundIsAsked == Spec => []LookupIsRow
<1>1. Init => FoundInv
  BY DEF Init, FoundInv, NoCall
<1>2. ASSUME TypeInv, FoundInv, [Next]_vars
      PROVE  FoundInv'
  <2> DEFINE users == table["users"]
  <2>1. users' = users
    BY <1>2, UsersKept
  <2>2. \A v \in Caller :
          call[v].at # "idle" /\ call[v].data # NoData => Found(call[v], users)
    BY <1>2 DEF FoundInv
  <2> HIDE DEF users
  <2>3. SUFFICES ASSUME NEW v \in Caller, call'[v].at # "idle",
                        call'[v].data # NoData
                 PROVE  Found(call'[v], users)
    BY <2>1 DEF FoundInv, users
  <2>4. ASSUME NEW w \in Caller, NEW dao \in Dao, NEW op \in Op[dao],
               NEW record \in Record[dao], NEW cond \in Condition[dao],
               enter(w, dao, op, record, cond)
        PROVE  Found(call'[v], users)
    BY <1>2, <2>2, <2>3, <2>4, EnterFacts
  <2>5. ASSUME NEW w \in Caller, prepareStatement(w)
        PROVE  Found(call'[v], users)
    BY <1>2, <2>2, <2>3, <2>5, PrepareFacts, FoundSame
  <2>6. ASSUME NEW w \in Caller, executeUpdate(w)
        PROVE  Found(call'[v], users)
    BY <1>2, <2>2, <2>3, <2>6, ExecuteFacts, FoundSame
  <2>7. ASSUME NEW w \in Caller, executeQuery(w)
        PROVE  Found(call'[v], users)
    <3>1. CASE call'[v] = call[v] \/ (v = w /\ call'[v].data = call[v].data)
      BY <1>2, <2>2, <2>3, <2>7, <3>1, QueryFacts, FoundSame
    <3>2. CASE v = w /\ call'[v].data # call[v].data
      <4>1. PICK r \in table[call[w].dao] :
              r.col \in call[w].cond /\ call'[w].data = Copied(r)
        BY <1>2, <2>7, <3>2, QueryFacts
      <4>2. call[w].dao = "users"
        BY <1>2, <2>7, QueryFacts DEF TypeInv, CallType, Given, Dao, Op
      <4>3. Same(call[w], call'[w]) /\ call[w].op = "select"
        BY <1>2, <2>7, QueryFacts
      <4> QED BY <3>2, <4>1, <4>2, <4>3, CopiedFields DEF Found, Same, users
    <3> QED BY <1>2, <2>7, <3>1, <3>2, QueryFacts
  <2>8. ASSUME NEW w \in Caller, rowsThrow(w)
        PROVE  Found(call'[v], users)
    BY <1>2, <2>2, <2>3, <2>8, ThrowFacts
  <2>9. ASSUME NEW w \in Caller, leave(w)
        PROVE  Found(call'[v], users)
    BY <1>2, <2>2, <2>3, <2>9, LeaveFacts
  <2>10. ASSUME UNCHANGED vars
         PROVE  Found(call'[v], users)
    BY <2>2, <2>3, <2>10 DEF vars
  <2> QED BY <1>2, <2>4, <2>5, <2>6, <2>7, <2>8, <2>9, <2>10 DEF Next
<1>3. FoundInv => LookupIsRow
  BY DEF FoundInv, LookupIsRow, Found
<1> QED BY <1>1, <1>2, <1>3, Typed, PTL DEF Spec

\* A call has a number of its own, and no row of its number until it has been
\* executed.
Mine(w, v) == call[w].at # "idle" /\ call[v].at # "idle" /\ w # v

Numbered ==
  /\ \A w \in Caller : call[w].at # "idle" => call[w].n \in 1..calls
  /\ \A w, v \in Caller : Mine(w, v) => call[w].n # call[v].n

IsRow(r) == r = [f \in {"id", "col"} |-> r[f]]

Dated ==
  \A r \in table["friendships"] :
    /\ IsRow(r)
    /\ r.id \in 1..MaxCalls => r.id <= calls

Absent ==
  \A w \in Caller : call[w].at \in {"called", "bound"} =>
    \A r \in table["friendships"] : r.id # call[w].n

NumberInv == Numbered /\ Dated /\ Absent

\* What a statement leaves of the rows of friendships.
LEMMA ExecutedRows ==
  ASSUME TypeInv, NumberInv, NEW w \in Caller, executeUpdate(w), Succeeds(w),
         call[w].dao = "friendships"
  PROVE  LET rows == table["friendships"]
             rows1 == table'["friendships"]
             c == call[w] IN
           \/ /\ c.op = "insert"
              /\ \A r \in rows : r.id # c.n
              /\ rows1 = rows \cup {[id |-> c.n, col |-> c.record]}
           \/ /\ c.op = "update"
              /\ rows1 = {[r EXCEPT !.col = IF r.col \in c.cond
                                            THEN c.record ELSE @] : r \in rows}
           \/ /\ c.op = "remove"
              /\ rows1 = {r \in rows : r.col \notin c.cond}
<1>1. call[w].at = "bound" /\ Given(call[w])
  BY ExecuteFacts DEF TypeInv, CallType
<1>2. table'["friendships"] = Executed(call[w])
  BY <1>1, SucceedsFacts
<1>3. call[w].op \in {"insert", "update", "remove"}
  BY <1>1 DEF Given, Op
<1>4. CASE call[w].op = "insert"
  <2>1. Inserted(call[w]) = [id |-> call[w].n, col |-> call[w].record]
    BY <1>1, InsertedRecord DEF Given
  <2>2. \A r \in table["friendships"] : r.id # call[w].n
    BY <1>1 DEF NumberInv, Absent
  <2> QED BY <1>2, <1>4, <2>1, <2>2 DEF Executed
<1>5. CASE call[w].op = "update"
  BY <1>2, <1>5 DEF Executed
<1>6. CASE call[w].op = "remove"
  BY <1>2, <1>6 DEF Executed
<1> QED BY <1>3, <1>4, <1>5, <1>6

\* Rows keep their ids, and the only new one is the number of the call.
LEMMA RowIds ==
  ASSUME TypeInv, NumberInv, NEW w \in Caller, executeUpdate(w)
  PROVE  \A r \in table'["friendships"] :
           /\ IsRow(r)
           /\ \/ r.id = call[w].n
              \/ \E old \in table["friendships"] : r.id = old.id
<1>1. \A r \in table["friendships"] : IsRow(r)
  BY DEF NumberInv, Dated
<1>2. CASE Succeeds(w) /\ call[w].dao = "friendships"
  <2> DEFINE rows == table["friendships"]
             rows1 == table'["friendships"]
             c == call[w]
             col(r) == IF r.col \in c.cond THEN c.record ELSE r.col
             new == [id |-> c.n, col |-> c.record]
  <2>1. \/ rows1 = rows \cup {new}
        \/ rows1 = {[r EXCEPT !.col = col(r)] : r \in rows}
        \/ rows1 \subseteq rows
    BY <1>2, ExecutedRows
  <2>2. \A r, x : IsRow(r) =>
          IsRow([r EXCEPT !.col = x]) /\ [r EXCEPT !.col = x].id = r.id
    BY DEF IsRow
  <2>3. IsRow(new) /\ new.id = c.n
    BY DEF IsRow
  <2>4. ASSUME NEW s \in rows1
        PROVE  IsRow(s) /\ (s.id = c.n \/ \E old \in rows : s.id = old.id)
    <3> HIDE DEF rows, rows1, col, new, c
    <3>1. CASE s \in rows
      BY <1>1, <3>1 DEF rows
    <3>2. CASE s = new
      BY <2>3, <3>2
    <3>3. ASSUME NEW r \in rows, s = [r EXCEPT !.col = col(r)]
          PROVE  IsRow(s) /\ s.id = r.id
      BY <1>1, <2>2, <3>3 DEF rows
    <3>4. s \in rows \/ s = new \/ \E r \in rows : s = [r EXCEPT !.col = col(r)]
      BY <2>1
    <3> QED BY <3>1, <3>2, <3>3, <3>4
  <2> QED BY <2>4
<1>3. CASE ~(Succeeds(w) /\ call[w].dao = "friendships")
  <2>1. UNCHANGED table["friendships"]
    BY <1>3, ExecuteFacts, SucceedsFacts DEF Dao
  <2> QED BY <1>1, <2>1
<1> QED BY <1>2, <1>3

LEMMA InitNumber ==
  ASSUME Init
  PROVE  NumberInv
<1>1. Numbered /\ Absent
  BY DEF Init, Numbered, Absent, Mine, NoCall
<1>2. \A r \in table["friendships"] : IsRow(r) /\ r.id \notin 1..MaxCalls
  BY DaoAssumption DEF Init, IsRow, Dao
<1> QED BY <1>1, <1>2 DEF NumberInv, Dated

LEMMA NextNumber ==
  ASSUME TypeInv, NumberInv, [Next]_vars
  PROVE  NumberInv'
<1> USE DEF NumberInv
<1>1. calls \in Nat /\ MaxCalls \in Nat
  BY DaoAssumption DEF TypeInv
<1>2. ASSUME NEW w \in Caller, NEW dao \in Dao, NEW op \in Op[dao],
             NEW record \in Record[dao], NEW cond \in Condition[dao],
             enter(w, dao, op, record, cond)
      PROVE  NumberInv'
  <2>1. \A v \in Caller \ {w} : call[v].at # "idle" => call[v].n \in 1..calls
    BY DEF Numbered
  <2>2. Numbered'
    <3>1. \A v \in Caller : call'[v].at # "idle" => call'[v].n \in 1..calls'
      BY <1>1, <1>2, <2>1, EnterFacts
    <3>2. \A v \in Caller \ {w} : call'[v].at # "idle" => call'[v].n # call'[w].n
      BY <1>1, <1>2, <2>1, EnterFacts
    <3>3. \A u, v \in Caller \ {w} : Mine(u, v)' => call'[u].n # call'[v].n
      BY <1>2, EnterFacts DEF Numbered, Mine
    <3> QED BY <3>1, <3>2, <3>3 DEF Numbered, Mine
  <2>3. Dated'
    BY <1>1, <1>2, EnterFacts DEF Dated
  <2>4. \A r \in table["friendships"] : r.id # calls + 1
    BY <1>1, <1>2, EnterFacts DEF Dated
  <2>5. Absent'
    BY <1>2, <2>4, EnterFacts DEF Absent
  <2> QED BY <2>2, <2>3, <2>5
<1>3. ASSUME NEW w \in Caller, prepareStatement(w)
      PROVE  NumberInv'
  BY <1>3, PrepareFacts DEF Numbered, Dated, Absent, Mine, Same
<1>4. ASSUME NEW w \in Caller, executeUpdate(w)
      PROVE  NumberInv'
  <2>1. call[w].n \in 1..calls
    BY <1>4, ExecuteFacts DEF Numbered
  <2>2. Numbered'
    BY <1>4, ExecuteFacts DEF Numbered, Mine, Same
  <2>3. Dated'
    BY <1>1, <1>4, <2>1, RowIds, ExecuteFacts DEF Dated
  <2>4. \A v \in Caller \ {w} : call[v].at # "idle" => call[v].n # call[w].n
    BY <1>4, ExecuteFacts DEF Numbered, Mine
  <2>5. Absent'
    BY <1>4, <2>4, RowIds, ExecuteFacts DEF Absent
  <2> QED BY <2>2, <2>3, <2>5
<1>5. ASSUME NEW w \in Caller, executeQuery(w)
      PROVE  NumberInv'
  BY <1>5, QueryFacts DEF Numbered, Dated, Absent, Mine, Same
<1>6. ASSUME NEW w \in Caller, leave(w)
      PROVE  NumberInv'
  BY <1>6, LeaveFacts DEF Numbered, Dated, Absent, Mine
<1>7. ASSUME NEW w \in Caller, rowsThrow(w)
      PROVE  NumberInv'
  BY <1>7, ThrowFacts DEF Numbered, Dated, Absent, Mine
<1>8. ASSUME UNCHANGED vars
      PROVE  NumberInv'
  BY <1>8 DEF vars, Numbered, Dated, Absent, Mine
<1> QED BY <1>2, <1>3, <1>4, <1>5, <1>6, <1>7, <1>8 DEF Next

\* Whatever the workers call and whatever statements are refused or lose
\* their answer, the table of friendships changes by whole statements of the
\* callers, and an inserted row is the record somebody gave.
THEOREM DaoIsTable == Spec => TableSpec
<1>1. ASSUME TypeInv, NumberInv, [Next]_vars
      PROVE  [Rows!TableNext]_(table["friendships"])
  <2>1. ASSUME NEW w \in Caller, executeUpdate(w)
        PROVE  [Rows!TableNext]_(table["friendships"])
    <3>1. Given(call[w]) /\ call[w].n \in 1..calls /\ calls \in 0..MaxCalls
      BY <1>1, <2>1, ExecuteFacts DEF TypeInv, CallType, NumberInv, Numbered
    <3>2. CASE Succeeds(w) /\ call[w].dao = "friendships"
      <4>1. /\ call[w].n \in 1..MaxCalls
            /\ call[w].record \in Record["friendships"]
            /\ call[w].cond \in Condition["friendships"]
        BY <3>1, <3>2, DaoAssumption DEF Given
      <4>2. CASE call[w].op = "insert"
        <5>1. Rows!InsertRow(call[w].n, call[w].record)
          BY <1>1, <2>1, <3>2, <4>2, ExecutedRows DEF Rows!InsertRow
        <5> QED BY <4>1, <5>1 DEF Rows!TableNext
      <4>3. CASE call[w].op = "update"
        <5>1. Rows!UpdateRows(call[w].record, call[w].cond)
          BY <1>1, <2>1, <3>2, <4>3, ExecutedRows DEF Rows!UpdateRows
        <5> QED BY <4>1, <5>1 DEF Rows!TableNext
      <4>4. CASE call[w].op = "remove"
        <5>1. Rows!RemoveRows(call[w].cond)
          BY <1>1, <2>1, <3>2, <4>4, ExecutedRows DEF Rows!RemoveRows
        <5> QED BY <4>1, <5>1 DEF Rows!TableNext
      <4> QED BY <1>1, <2>1, <3>2, <4>2, <4>3, <4>4, ExecutedRows
    <3>3. CASE ~(Succeeds(w) /\ call[w].dao = "friendships")
      BY <1>1, <2>1, <3>3, ExecuteFacts, SucceedsFacts DEF Dao
    <3> QED BY <3>2, <3>3
  <2> QED BY <1>1, <2>1, EnterFacts, PrepareFacts, QueryFacts, ThrowFacts, LeaveFacts
          DEF Next, vars
<1>2. Spec => []NumberInv
  BY InitNumber, NextNumber, Typed, PTL DEF Spec
<1> QED BY <1>1, <1>2, Typed, PTL DEF Spec, TableSpec, Rows!TableSpec
=============================================================================
