---------------------------- MODULE MCMyTcpServer ----------------------------
(***************************************************************************)
(* Instances of MyTcpServer for TLC: the users, and the packets the        *)
(* clients of each run send.                                               *)
(***************************************************************************)
EXTENDS MyTcpServer, TLC

CONSTANTS zero, u1, u2

body(func, own, other, flag) ==
  [func |-> func, own |-> own, other |-> other, flag |-> flag, ok |-> TRUE]

\* A body castFromString cannot read.
garbled(func) == [body(func, u1, u2, "right") EXCEPT !.ok = FALSE]

login(uid) == body("login", uid, zero, "right")

\* Two users log in and chat; a login whose body cannot be read passes the
\* comparison with a default record.
ChatBodies ==
  {login(u1), login(u2), body("chat", u1, u2, "right"), garbled("login")}

\* Users who come, go and come back, and are written to or asked meanwhile.
SessionBodies ==
  {login(u1), login(u2), body("chat", u2, u1, "right"),
   body("addFriend", u2, u1, "right")}

row(id, a, b, status) ==
  [id |-> id, user_id1 |-> a, user_id2 |-> b, status |-> status]

\* The statements that meet on one pair when two connections use it at once.
PairBodies ==
  {body("addFriend", u1, u2, "right"), body("friendConfirm", u2, u1, "accept"),
   body("deleteFriend", u1, u2, "right"), login(u1)}

\* Every handler, and every way one can leave its connection: answered,
\* refused, crashed, dropped.
LiveBodies ==
  {login(u1), garbled("login"), body("chat", u2, u1, "right"),
   body("addFriend", u2, u1, "right"), body("register", zero, zero, "right"),
   body("deleteFriend", u2, u1, "right"),
   body("friendConfirm", u1, u2, "reject"),
   body("verifyCode", zero, zero, "right"), body("other", zero, zero, "right")}

\* Ids above any packet's: a request, and a friendship the other way round.
OldRows == {row(101, u1, u2, "pending"), row(102, u2, u1, "accepted")}

NoRows == {}

Symmetry == Permutations(Client) \cup Permutations(Worker)
=============================================================================
