---------------------------- MODULE FriendShipDao ----------------------------
(***************************************************************************)
(* Table friendships and the statements FriendShipDao runs on it.  Each    *)
(* statement is one step of MySQL.  A row carries the id of the packet     *)
(* that inserted it, which keeps apart rows with equal columns.            *)
(***************************************************************************)
EXTENDS Message

CONSTANT StoredRows \* rows an earlier life of the server may have left

VARIABLES
  friendships, \* the rows of the table
  confirmed    \* history: the pairs some confirmation turned into friends

dbVars == <<friendships, confirmed>>

Row == [id: Nat, user_id1: Uid, user_id2: Uid,
        status: {"pending", "accepted"}]

ASSUME StoredRowsAssumption == StoredRows \subseteq Row

\* The WHERE clause shared by UPDATE and DELETE: the pair in either order.
OfPair(r, a, b) ==
  \/ r.user_id1 = a /\ r.user_id2 = b
  \/ r.user_id1 = b /\ r.user_id2 = a

\* INSERT of a FriendShipTableData with status "pending".
insert(id, a, b) ==
  /\ friendships' = friendships \cup
       {[id |-> id, user_id1 |-> a, user_id2 |-> b, status |-> "pending"]}
  /\ UNCHANGED confirmed

\* The rows after an UPDATE that sets every column of the rows in hit.
Updated(hit, friend_id, own_id, status) ==
  (friendships \ hit) \cup
    {[r EXCEPT !.user_id1 = friend_id, !.user_id2 = own_id,
               !.status = status] : r \in hit}

\* A variant that inserts the row it was to update when there is none.
UpdateOrInsert(friend_id, own_id, status) ==
  LET hit == {r \in friendships : OfPair(r, friend_id, own_id)}
      row == [id |-> 0, user_id1 |-> friend_id, user_id2 |-> own_id,
              status |-> status] IN
    /\ friendships' = IF hit = {} THEN friendships \cup {row}
                      ELSE Updated(hit, friend_id, own_id, status)
    /\ confirmed' = confirmed \cup {{friend_id, own_id}}

\* UPDATE of every row of the pair: status and both id columns are set.
changeFriendShipStatus(friend_id, own_id, status) ==
  LET hit == {r \in friendships : OfPair(r, friend_id, own_id)} IN
    /\ friendships' = Updated(hit, friend_id, own_id, status)
    /\ confirmed' = IF hit = {} THEN confirmed
                    ELSE confirmed \cup {{friend_id, own_id}}

removeFriendship(friend_id, own_id) ==
  /\ friendships' = {r \in friendships : ~OfPair(r, friend_id, own_id)}
  /\ UNCHANGED confirmed

\* A variant of the query that forgets the condition on status.
FriendsOfAnyStatus(id) ==
  [r \in {s \in friendships : s.user_id1 = id \/ s.user_id2 = id} |->
     IF r.user_id1 = id THEN r.user_id2 ELSE r.user_id1]

\* The queries give one id for each row they find, repeated or not.
selectAllFriendShip(id) ==
  [r \in {s \in friendships : /\ s.user_id1 = id \/ s.user_id2 = id
                              /\ s.status = "accepted"} |->
     IF r.user_id1 = id THEN r.user_id2 ELSE r.user_id1]

\* Rows with the user in user_id1 are skipped: their owner applied.
selectAllFriendApply(id) ==
  [r \in {s \in friendships : /\ s.user_id2 = id /\ s.user_id1 # id
                              /\ s.status = "pending"} |-> r.user_id1]

\* UsersDao::selectInfoDueId, seen as the entry its caller lists.
selectInfoDueId(id) ==
  {[uid |-> uid, named |-> FALSE] : uid \in UnsetUid}
  \cup {[uid |-> uid, named |-> TRUE] : uid \in {id} \cap StoredUid}

FriendShipsTypeOK ==
  /\ friendships \subseteq Row
  /\ confirmed \subseteq SUBSET Uid

\* The table outlives the process; its accepted pairs were confirmed before.
FriendShipsInit ==
  /\ friendships \in SUBSET StoredRows
  /\ confirmed = {{r.user_id1, r.user_id2} :
                    r \in {s \in friendships : s.status = "accepted"}}
=============================================================================
