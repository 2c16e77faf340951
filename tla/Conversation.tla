----------------------------- MODULE Conversation -----------------------------
(***************************************************************************)
(* What a connection promises its client, whatever threads and callbacks   *)
(* serve it: once accepted it is open until it is closed for good, and     *)
(* while it is open its packets are served one at a time, in the order     *)
(* they were sent.  Packets that one read takes along may be skipped.      *)
(***************************************************************************)
EXTENDS Naturals, Sequences

CONSTANTS
  Client,
  Id \* the packets

VARIABLES
  life,   \* [Client -> "new" | "open" | "closed"]
  inbox,  \* [Client -> Seq(Id)], sent and not yet read
  serving \* [Client -> SUBSET Id], the packet being served

convVars == <<life, inbox, serving>>

ConversationInit ==
  /\ life = [c \in Client |-> "new"]
  /\ inbox = [c \in Client |-> <<>>]
  /\ serving = [c \in Client |-> {}]

Accept(c) ==
  /\ life[c] = "new"
  /\ life' = [life EXCEPT ![c] = "open"]
  /\ UNCHANGED <<inbox, serving>>

Send(c) ==
  /\ \E id \in Id : inbox' = [inbox EXCEPT ![c] = Append(@, id)]
  /\ UNCHANGED <<life, serving>>

Take(c) ==
  /\ life[c] = "open" /\ serving[c] = {} /\ inbox[c] # <<>>
  /\ serving' = [serving EXCEPT ![c] = {Head(inbox[c])}]
  /\ \E n \in 1..Len(inbox[c]) :
       inbox' = [inbox EXCEPT ![c] = SubSeq(@, n + 1, Len(@))]
  /\ UNCHANGED life

Finish(c) ==
  /\ serving' = [serving EXCEPT ![c] = {}]
  /\ UNCHANGED <<life, inbox>>

Close(c) ==
  /\ life[c] = "open"
  /\ life' = [life EXCEPT ![c] = "closed"]
  /\ UNCHANGED <<inbox, serving>>

ConversationNext ==
  \E c \in Client : Accept(c) \/ Send(c) \/ Take(c) \/ Finish(c) \/ Close(c)

ConversationSpec == ConversationInit /\ [][ConversationNext]_convVars
=============================================================================
