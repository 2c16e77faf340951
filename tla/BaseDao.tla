------------------------------- MODULE BaseDao -------------------------------
(***************************************************************************)
(* BaseDao and the two classes derived from it: a call maps its record to  *)
(* columns, prepares a statement, binds the placeholders in the order of a *)
(* std::map, executes, and tells its caller whether it worked.  Workers    *)
(* call one DAO at the same time; the database may refuse a statement, or  *)
(* carry it out and lose the answer.                                       *)
(***************************************************************************)
EXTENDS Naturals, Sequences

CONSTANTS
  Record,     \* [Dao -> SUBSET [column -> value]], what callers give
  Condition,  \* [Dao -> sets of records], what callers ask for
  StoredRows, \* [Dao -> rows of an earlier run of the server]
  Caller,     \* workers
  MaxCalls    \* bound: calls in a behaviour

Dao == {"friendships", "users"}

\* The columns mapRecordToColums names, in the order of the map's keys.
Keys == [friendships |-> <<"status", "user_id1", "user_id2">>,
         users |-> <<"email", "password", "username">>]

\* The methods the program calls on each.
Op == [friendships |-> {"insert", "update", "remove"},
       users |-> {"insert", "select"}]

Column(dao) == {Keys[dao][i] : i \in DOMAIN Keys[dao]}

\* The rows of an earlier run have ids this run does not give.
ASSUME DaoAssumption ==
  /\ StoredRows = [dao \in Dao |-> StoredRows[dao]]
  /\ \A dao \in Dao :
       /\ \A r \in Record[dao] : r = [k \in Column(dao) |-> r[k]]
       /\ \A r \in StoredRows[dao] :
            r = [id |-> r.id, col |-> r.col] /\ r.id \notin 1..MaxCalls
  /\ MaxCalls \in Nat

VARIABLES
  table, \* [Dao -> set of rows]
  call,  \* [Caller -> the call the worker is in]
  calls, \* number of calls made
  done   \* history: the calls whose statement was executed

vars == <<table, call, calls, done>>

\* UsersTableData(): what a lookup has before its first row.  Nobody sets the
\* id; 0 stands for whatever it is.
NoData == [id |-> 0, username |-> "", password |-> "", email |-> ""]

\* What a lookup takes of a row, over what it has: the email stays unread.
Copied(r) ==
  [NoData EXCEPT !.id = r.id, !.username = r.col["username"],
                 !.password = r.col["password"]]

NoCall == [at |-> "idle", n |-> 0, dao |-> "users", op |-> "select",
           record |-> <<>>, cond |-> {}, ok |-> FALSE, data |-> NoData]

\* The keys insert() knows how to bind.
Known == {"user_id1", "user_id2", "status"}

IsKnown(key) == key \in Known

\* Variants: bound in the order mapRecordToColums names the columns; every
\* other key bound as a string.
BoundAsListed(dao, record) ==
  LET listed == <<"user_id1", "user_id2", "status">> IN
    IF dao = "users" THEN <<>> ELSE [i \in 1..3 |-> record[listed[i]]]

BoundAll(dao, record) == [i \in DOMAIN Keys[dao] |-> record[Keys[dao][i]]]

\* The values bound to the placeholders by the loop over the keys, of which a
\* running index counts only those it knows.
Bound(dao, record) ==
  LET keys == Keys[dao]
      bound[i \in 0..Len(keys)] ==
        IF i = 0 THEN <<>>
        ELSE IF IsKnown(keys[i]) THEN Append(bound[i - 1], record[keys[i]])
        ELSE bound[i - 1]
  IN  bound[Len(keys)]

\* An INSERT with a placeholder that has no value does not execute.
Complete(c) ==
  c.op # "insert" \/ Len(Bound(c.dao, c.record)) = Len(Keys[c.dao])

Inserted(c) ==
  [id |-> c.n,
   col |-> [k \in Column(c.dao) |->
     Bound(c.dao, c.record)[CHOOSE i \in DOMAIN Keys[c.dao] :
                              Keys[c.dao][i] = k]]]

\* The rows of the table of c once its statement has been executed.
Executed(c) ==
  LET rows == table[c.dao] IN
    CASE c.op = "insert" -> rows \cup {Inserted(c)}
      [] c.op = "update" -> {[r EXCEPT !.col = IF r.col \in c.cond
                                               THEN c.record ELSE @] : r \in rows}
      [] c.op = "remove" -> {r \in rows : r.col \notin c.cond}

Init ==
  /\ table = StoredRows
  /\ call = [w \in Caller |-> NoCall]
  /\ calls = 0
  /\ done = {}

-----------------------------------------------------------------------------
\* A variant whose result object outlives the call.
enterKeepingData(w, dao, op, record, cond) ==
  /\ call[w].at = "idle" /\ calls < MaxCalls
  /\ calls' = calls + 1
  /\ call' = [call EXCEPT ![w] =
       [at |-> "called", n |-> calls + 1, dao |-> dao, op |-> op,
        record |-> record, cond |-> cond, ok |-> FALSE, data |-> @.data]]
  /\ UNCHANGED <<table, done>>

\* A worker calls insert(record), update(record, condition),
\* remove(condition), or one of the lookups of UsersDao.
enter(w, dao, op, record, cond) ==
  /\ call[w].at = "idle" /\ calls < MaxCalls
  /\ calls' = calls + 1
  /\ call' = [call EXCEPT ![w] =
       [at |-> "called", n |-> calls + 1, dao |-> dao, op |-> op,
        record |-> record, cond |-> cond, ok |-> FALSE, data |-> NoData]]
  /\ UNCHANGED <<table, done>>

\* A variant that returns true past a null statement.
prepareUnchecked(w) ==
  /\ call[w].at = "called"
  /\ \/ call' = [call EXCEPT ![w].at = "bound"]
     \/ call' = [call EXCEPT ![w].at = "returned", ![w].ok = TRUE]
  /\ UNCHANGED <<table, calls, done>>

\* prepareStatement gives null on an SQLException, and the call returns.
prepareStatement(w) ==
  /\ call[w].at = "called"
  /\ \/ call' = [call EXCEPT ![w].at = "bound"]
     \/ call' = [call EXCEPT ![w].at = "returned"]
  /\ UNCHANGED <<table, calls, done>>

Succeeds(w) ==
  /\ Complete(call[w])
  /\ table' = [table EXCEPT ![call[w].dao] = Executed(call[w])]
  /\ done' = done \cup {call[w].n}

executeUpdate(w) ==
  /\ call[w].at = "bound" /\ call[w].op # "select"
  /\ \/ /\ Succeeds(w)
        /\ call' = [call EXCEPT ![w].at = "returned", ![w].ok = TRUE]
     \/ /\ Succeeds(w) \/ UNCHANGED <<table, done>>
        /\ call' = [call EXCEPT ![w].at = "returned"]
  /\ UNCHANGED calls

\* The rows are copied into one object, one over the other; with no row, or
\* when the query fails, the object stays as it was constructed.
executeQuery(w) ==
  LET rows == {r \in table[call[w].dao] : r.col \in call[w].cond} IN
    /\ call[w].at = "bound" /\ call[w].op = "select"
    /\ \/ \E r \in rows :
            call' = [call EXCEPT ![w].at = "returned", ![w].data = Copied(r)]
       \/ call' = [call EXCEPT ![w].at = "returned"]
    /\ UNCHANGED <<table, calls, done>>

\* The rows are fetched and read outside of any try: an SQLException goes past
\* the caller, and nobody has the object.
rowsThrow(w) ==
  /\ call[w].at = "bound" /\ call[w].op = "select"
  /\ call' = [call EXCEPT ![w] = NoCall]
  /\ UNCHANGED <<table, calls, done>>

\* The caller takes the result.
leave(w) ==
  /\ call[w].at = "returned"
  /\ call' = [call EXCEPT ![w] = [NoCall EXCEPT !.data = call[w].data]]
  /\ UNCHANGED <<table, calls, done>>

Next ==
  \E w \in Caller :
    \/ \E dao \in Dao :
         \E op \in Op[dao], record \in Record[dao], cond \in Condition[dao] :
           enter(w, dao, op, record, cond)
    \/ prepareStatement(w)
    \/ executeUpdate(w)
    \/ executeQuery(w)
    \/ rowsThrow(w)
    \/ leave(w)

Spec == Init /\ [][Next]_vars

-----------------------------------------------------------------------------
\* For friendships, statements are all a caller can do to the table: values
\* land in the columns they were given for, although placeholders are numbered
\* in the order of a map and bound one by one, and a call that fails on the
\* way changes nothing or what it was asked for.
Rows == INSTANCE Table WITH
          Id <- 1..MaxCalls,
          Record <- Record["friendships"],
          Condition <- Condition["friendships"],
          table <- table["friendships"]

TableSpec == Rows!TableSpec

\* A caller that is told true can rely on it: its own statement, not another
\* worker's, has been executed.
TrueMeansDone ==
  \A w \in Caller : call[w].at = "returned" /\ call[w].ok => call[w].n \in done

\* A lookup answers with the id, the name and the password of one row it was
\* asked for, of no other row and of no earlier lookup, which is still a row of
\* users, and with no email; or with the default record.
LookupIsRow ==
  \A w \in Caller :
    call[w].at = "returned" /\ call[w].data # NoData =>
      LET data == call[w].data IN
        /\ call[w].op = "select" /\ data.email = ""
        /\ \E r \in table["users"] :
             /\ r.col \in call[w].cond
             /\ data.id = r.id
             /\ data.username = r.col["username"]
             /\ data.password = r.col["password"]

\* The program never adds a user nor changes one, since insert() binds none of
\* the columns of users.  It is why the users are a constant in the model of
\* the server.
UsersUnchanged == [][table'["users"] = table["users"]]_vars
=============================================================================
