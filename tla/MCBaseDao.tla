------------------------------ MODULE MCBaseDao ------------------------------
(***************************************************************************)
(* Small instances of BaseDao for TLC: the DAO of friendships and the DAO  *)
(* of users.                                                               *)
(***************************************************************************)
EXTENDS BaseDao, TLC

CONSTANTS w1, w2

friendship(a, b, status) ==
  [user_id1 |-> a, user_id2 |-> b, status |-> status]

user(name) ==
  [username |-> name, password |-> name, email |-> "@"]

\* A request and its confirmation by the other side; a user there already and
\* a new one.
Records ==
  [friendships |-> {friendship("1", "2", "pending"),
                    friendship("2", "1", "accepted")},
   users |-> {user("ann"), user("bob")}]

\* WHERE clauses: both rows of the pair whatever their status, and one name.
Conditions ==
  [friendships |-> {Records.friendships \cup {friendship("2", "1", "pending")}},
   users |-> {{user("ann")}, {user("bob")}}]

OldRows ==
  [friendships |-> {[id |-> 101, col |-> friendship("2", "1", "pending")]},
   users |-> {[id |-> 102, col |-> user("ann")]}]

Symmetry == Permutations(Caller)
=============================================================================
