------------------------------- MODULE Lending -------------------------------
(***************************************************************************)
(* What a pool of connections promises, however its callers wait: each     *)
(* connection is free or lent to one DAO, passes from one DAO to another   *)
(* only through the pool, and none is lost.                                *)
(***************************************************************************)
CONSTANTS Conn, Dao

VARIABLES
  free, \* connections in the pool
  lent  \* [Dao -> SUBSET Conn]

lendingVars == <<free, lent>>

LendingInit == free = {} /\ lent = [d \in Dao |-> {}]

\* The pool opens the connections it can get, before it lends any.
Open ==
  /\ free = {} /\ \A d \in Dao : lent[d] = {}
  /\ free' \in SUBSET Conn
  /\ UNCHANGED lent

Lend(d, c) ==
  /\ c \in free /\ lent[d] = {}
  /\ free' = free \ {c}
  /\ lent' = [lent EXCEPT ![d] = {c}]

Return(d) ==
  /\ free' = free \cup lent[d]
  /\ lent' = [lent EXCEPT ![d] = {}]

LendingNext ==
  Open \/ \E d \in Dao : Return(d) \/ \E c \in Conn : Lend(d, c)

LendingSpec == LendingInit /\ [][LendingNext]_lendingVars
=============================================================================
