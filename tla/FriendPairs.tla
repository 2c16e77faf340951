----------------------------- MODULE FriendPairs -----------------------------
(***************************************************************************)
(* What the friendship requests promise, whatever rows the table holds:    *)
(* two users become friends only after a request between them, accepting   *)
(* settles every request of the pair at once, and dropping a pair leaves   *)
(* nothing of it.  The order of the two ids in a row is not observable.    *)
(***************************************************************************)
CONSTANT Uid

VARIABLE rel \* [Pair -> SUBSET Status], the statuses the pair's rows have

Pair == {{a, b} : a, b \in Uid}

Status == {"pending", "accepted"}

PairsTypeOK == rel \in [Pair -> SUBSET Status]

\* The table may hold anything from an earlier life of the server.
PairsInit == PairsTypeOK

Request(p) == rel' = [rel EXCEPT ![p] = @ \cup {"pending"}]

Accept(p) ==
  /\ rel[p] # {}
  /\ rel' = [rel EXCEPT ![p] = {"accepted"}]

Drop(p) == rel' = [rel EXCEPT ![p] = {}]

PairsNext == \E p \in Pair : Request(p) \/ Accept(p) \/ Drop(p)

PairsSpec == PairsInit /\ [][PairsNext]_rel
=============================================================================
