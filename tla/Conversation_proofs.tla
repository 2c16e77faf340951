------------------------- MODULE Conversation_proofs -------------------------
(***************************************************************************)
(* MyTcpServer implements Conversation, for any number of connections,     *)
(* workers and packets: the proof that sockets, READ events, workers and   *)
(* queued callbacks together are a connection served packet by packet.     *)
(***************************************************************************)
EXTENDS MyTcpServer_proofs

-----------------------------------------------------------------------------
(* The mapping: what Conversation sees of a state of the server.           *)

IdsOf(s) == [i \in DOMAIN s |-> s[i].id]

Inbox == [c \in Client |-> IdsOf(stream[c])]

ServingOf(c) ==
  {worker[w].packet.id : w \in {v \in Worker : Handles(v, c)}}

Serving == [c \in Client |-> ServingOf(c)]

\* The ids of packets are a sequence of numbers.
LEMMA IdsType ==
  ASSUME NEW s \in Seq(Packet)
  PROVE  /\ IdsOf(s) \in Seq(Nat)
         /\ Len(IdsOf(s)) = Len(s) /\ Len(s) \in Nat
         /\ DOMAIN s = 1..Len(s)
         /\ \A i \in 1..Len(s) : IdsOf(s)[i] = s[i].id
<1>1. Len(s) \in Nat /\ DOMAIN s = 1..Len(s) /\ s \in [1..Len(s) -> Packet]
  BY LenProperties
<1>2. \A i \in 1..Len(s) : s[i].id \in Nat
  BY <1>1 DEF Packet
<1>3. IdsOf(s) \in [1..Len(s) -> Nat]
  BY <1>1, <1>2 DEF IdsOf
<1> QED BY <1>1, <1>3 DEF IdsOf

\* A packet sent is an id appended.
LEMMA IdsAppend ==
  ASSUME NEW s \in Seq(Packet), NEW p \in Packet
  PROVE  IdsOf(Append(s, p)) = Append(IdsOf(s), p.id)
<1>1. p.id \in Nat
  BY DEF Packet
<1>2. Append(s, p) \in Seq(Packet) /\ Len(Append(s, p)) = Len(s) + 1
  OBVIOUS
<1>3. \A i \in 1..Len(s) + 1 :
        Append(s, p)[i] = IF i = Len(s) + 1 THEN p ELSE s[i]
  BY IdsType
<1>4. /\ Append(IdsOf(s), p.id) \in Seq(Nat)
      /\ Len(Append(IdsOf(s), p.id)) = Len(s) + 1
      /\ \A i \in 1..Len(s) + 1 : Append(IdsOf(s), p.id)[i] =
           IF i = Len(s) + 1 THEN p.id ELSE s[i].id
  BY <1>1, IdsType
<1>5. /\ IdsOf(Append(s, p)) \in Seq(Nat)
      /\ Len(IdsOf(Append(s, p))) = Len(s) + 1
      /\ \A i \in 1..Len(s) + 1 :
           IdsOf(Append(s, p))[i] = Append(s, p)[i].id
  BY <1>2, IdsType
<1>6. \A i \in 1..Len(s) + 1 : IdsOf(Append(s, p))[i] = Append(IdsOf(s), p.id)[i]
  BY <1>3, <1>4, <1>5
<1> QED BY <1>4, <1>5, <1>6, SeqEqual

\* Packets that a read takes off the front are ids taken off the front.
LEMMA IdsSubSeq ==
  ASSUME NEW s \in Seq(Packet), NEW n \in 1..Len(s)
  PROVE  /\ IdsOf(SubSeq(s, n + 1, Len(s))) = SubSeq(IdsOf(s), n + 1, Len(s))
         /\ IdsOf(s) # <<>>
         /\ Head(IdsOf(s)) = Head(s).id
<1> DEFINE m == n + 1
           l == Len(s)
<1>1. m \in Int /\ l \in Int /\ l \in Nat /\ n \in Nat /\ l >= 1
  BY IdsType
<1>2. \A i \in m..l : i \in 1..l
  BY <1>1
<1>3. \A i \in m..l : s[i] \in Packet /\ IdsOf(s)[i] = s[i].id /\ s[i].id \in Nat
  BY <1>2, IdsType, ElementOfSeq DEF Packet
<1>4. \A i \in m..l : IdsOf(s)[i] \in Nat
  BY <1>3
<1> DEFINE k == IF m <= l THEN l - m + 1 ELSE 0
<1>5. /\ SubSeq(s, m, l) \in Seq(Packet) /\ Len(SubSeq(s, m, l)) = k
      /\ \A i \in 1..l - m + 1 : SubSeq(s, m, l)[i] = s[m + i - 1]
  <2> HIDE DEF m, l
  <2> QED BY <1>1, <1>3, SubSeqProperties
<1>6. /\ SubSeq(IdsOf(s), m, l) \in Seq(Nat) /\ Len(SubSeq(IdsOf(s), m, l)) = k
      /\ \A i \in 1..l - m + 1 : SubSeq(IdsOf(s), m, l)[i] = IdsOf(s)[m + i - 1]
  <2> HIDE DEF m, l
  <2> QED BY <1>1, <1>4, SubSeqProperties
<1>7. /\ IdsOf(SubSeq(s, m, l)) \in Seq(Nat)
      /\ Len(IdsOf(SubSeq(s, m, l))) = k
      /\ \A i \in 1..k : IdsOf(SubSeq(s, m, l))[i] = SubSeq(s, m, l)[i].id
  <2> HIDE DEF m, l, k
  <2> QED BY <1>5, IdsType
<1>8. \A i \in 1..k : i \in 1..l - m + 1 /\ m + i - 1 \in m..l
  BY <1>1
<1>9. \A i \in 1..k : IdsOf(SubSeq(s, m, l))[i] = SubSeq(IdsOf(s), m, l)[i]
  <2> HIDE DEF m, l, k
  <2> QED BY <1>3, <1>5, <1>6, <1>7, <1>8
<1>10. IdsOf(SubSeq(s, m, l)) = SubSeq(IdsOf(s), m, l)
  <2> HIDE DEF m, l, k
  <2> QED BY <1>6, <1>7, <1>9, SeqEqual
<1>11. IdsOf(s) # <<>> /\ s # <<>> /\ IdsOf(s)[1] = s[1].id
  BY <1>1, IdsType
<1>12. Head(IdsOf(s)) = Head(s).id
  BY <1>11, IdsType
<1> QED BY <1>10, <1>11, <1>12

-----------------------------------------------------------------------------
(* A socket whose idle timer is pending has been accepted: its expiry can  *)
(* close a connection, never one that Conversation has not opened.         *)

ManagedAccepted == \A c \in managed : sock[c] # "new"

TalkInv == TypeInv /\ TokenInv /\ ManagedAccepted

LEMMA InitTalkInv == Init => TalkInv
BY InitType, InitToken DEF TalkInv, ManagedAccepted, Init

LEMMA NextTalkInv == TalkInv /\ [Next]_vars => TalkInv'
<1> SUFFICES ASSUME TalkInv, [Next]_vars PROVE ManagedAccepted'
  BY NextType, NextToken DEF TalkInv
<1>1. sock \in [Client -> {"new", "open", "closed"}] /\ managed \subseteq Client
  BY DEF TalkInv, TypeInv, TypeOK, ZuesTypeOK
<1>2. CASE UNCHANGED <<sock, managed>>
  BY <1>2 DEF TalkInv, ManagedAccepted
<1>3. ASSUME NEW c \in Client,
             \/ startAccpet(c) \/ idleTimeout(c)
             \/ \E w \in Worker : handleClientClosed(w, c)
      PROVE  ManagedAccepted'
  BY <1>1, <1>3
  DEF TalkInv, ManagedAccepted, startAccpet, idleTimeout, handleClientClosed, close
<1>4. ASSUME NEW w \in Worker, HandleData(w) PROVE ManagedAccepted'
  BY <1>2, <1>4, HandlerFrame
<1> QED BY <1>2, <1>3, <1>4
        DEF Next, vars, ClientSend, ClientHangUp, ReadStep, handleClientRead,
            WorkerStep, handleClientRearm, TaskStep, wathcIoRead,
            sendMessageToClient

-----------------------------------------------------------------------------
(* What Conversation sees of each step.                                    *)

LEMMA TalkView == /\ Talk!convVars = <<sock, Inbox, Serving>>
                  /\ Talk!convVars' = <<sock', Inbox', Serving'>>
BY DEF Talk!convVars, Inbox, Serving, ServingOf, IdsOf

\* A step after which the sockets and streams are the same and every worker
\* handles the same packet of the same connection is not seen.
LEMMA Unseen ==
  ASSUME UNCHANGED <<sock, stream>>,
         \A w \in Worker, c \in Client : Handles(w, c)' <=> Handles(w, c),
         \A w \in Worker : Busy(w) => worker'[w].packet = worker[w].packet
  PROVE  UNCHANGED Talk!convVars
<1>1. \A c \in Client : ServingOf(c)' = ServingOf(c)
  BY DEF ServingOf, Handles
<1> QED BY <1>1, TalkView DEF Inbox, Serving

LEMMA InitView == Init => Talk!ConversationInit
<1> SUFFICES ASSUME Init PROVE Talk!ConversationInit
  OBVIOUS
<1>1. sock = [c \in Client |-> "new"]
  BY DEF Init, ZuesInit
<1>2. \A c \in Client : IdsOf(stream[c]) = <<>>
  BY DEF Init, IdsOf
<1>3. \A c \in Client : ServingOf(c) = {}
  BY IdleType DEF Init, DataHandleInit, ServingOf, Handles, Busy
<1> QED BY <1>1, <1>2, <1>3
        DEF Talk!ConversationInit, Inbox, Serving, ServingOf, IdsOf

LEMMA SendView ==
  ASSUME TalkInv, NEW c \in Client, ClientSend(c)
  PROVE  Talk!Send(c)
<1>1. PICK b \in Bodies :
        stream' = [stream EXCEPT ![c] = Append(@, [id |-> sent + 1, body |-> b])]
  BY DEF ClientSend
<1>2. /\ stream \in [Client -> Seq(Packet)] /\ sent \in Nat
      /\ sent + 1 \in 1..MaxPackets
  BY InputAssumption DEF TalkInv, TypeInv, TypeOK, ClientSend
<1> DEFINE p == [id |-> sent + 1, body |-> b]
<1>3. p \in Packet /\ p.id = sent + 1
  BY <1>2, InputAssumption DEF Packet
<1>4. IdsOf(stream'[c]) = Append(IdsOf(stream[c]), sent + 1)
  BY <1>1, <1>2, <1>3, IdsAppend
<1>5. \A d \in Client \ {c} : stream'[d] = stream[d]
  BY <1>1, <1>2
<1>6. Inbox' = [Inbox EXCEPT ![c] = Append(@, sent + 1)]
  BY <1>4, <1>5 DEF Inbox
<1>7. sock' = sock /\ Serving' = Serving
  BY DEF ClientSend, Serving, ServingOf, Handles, Busy
<1> QED BY <1>2, <1>6, <1>7 DEF Talk!Send, Inbox, Serving, ServingOf, IdsOf

\* The READ event of a connection is there only while no worker serves it,
\* so what is read next is taken in its turn.
LEMMA ReadView ==
  ASSUME TalkInv, NEW c \in Client, NEW w \in Worker,
         NEW n \in 1..Len(stream[c]), handleClientRead(w, c, n)
  PROVE  Talk!Take(c)
<1>1. PICK b \in castFromString(Head(stream[c]).body) :
        worker' = [worker EXCEPT ![w] =
          [Idle EXCEPT !.at = "handle", !.client = c,
                       !.packet = [Head(stream[c]) EXCEPT !.body = b]]]
  BY DEF handleClientRead
<1>2. /\ stream \in [Client -> Seq(Packet)] /\ worker \in [Worker -> Frame]
      /\ ~Busy(w) /\ c \in armed /\ sock' = sock
      /\ stream' = [stream EXCEPT ![c] = SubSeq(@, n + 1, Len(@))]
  BY DEF TalkInv, TypeInv, TypeOK, DataHandleTypeOK, handleClientRead
<1>3. sock[c] = "open" /\ \A v \in Worker : ~Handles(v, c)
  BY <1>2 DEF TalkInv, TokenInv, ReadToken, ifConnected
<1>4. stream[c] \in Seq(Packet)
  BY <1>2
<1>5. /\ IdsOf(stream'[c]) = SubSeq(IdsOf(stream[c]), n + 1, Len(stream[c]))
      /\ IdsOf(stream[c]) # <<>>
      /\ Head(IdsOf(stream[c])) = Head(stream[c]).id
      /\ Len(IdsOf(stream[c])) = Len(stream[c])
  BY <1>2, <1>4, IdsSubSeq, IdsType
<1>6. \A d \in Client \ {c} : stream'[d] = stream[d]
  BY <1>2
<1>7. Inbox' = [Inbox EXCEPT ![c] = SubSeq(@, n + 1, Len(@))]
  BY <1>5, <1>6 DEF Inbox
<1> DEFINE head == Head(stream[c])
           f == [Idle EXCEPT !.at = "handle", !.client = c,
                             !.packet = [head EXCEPT !.body = b]]
<1>8. head \in Packet
  BY <1>4, <1>5, IdsType, HeadTailProperties, EmptySeq DEF IdsOf
<1>9. f.at = "handle" /\ f.client = c /\ f.packet.id = head.id
  <2> HIDE DEF head
  <2>1. f.at = "handle" /\ f.client = c /\ f.packet = [head EXCEPT !.body = b]
    BY DEF Idle
  <2>2. [head EXCEPT !.body = b].id = head.id
    BY <1>8 DEF Packet
  <2> QED BY <2>1, <2>2
<1>10. worker'[w] = f /\ \A v \in Worker \ {w} : worker'[v] = worker[v]
  BY <1>1, <1>2
<1> HIDE DEF f
<1>11. \A v \in Worker, d \in Client :
         Handles(v, d)' <=> IF v = w THEN d = c ELSE Handles(v, d)
  BY <1>9, <1>10 DEF Handles, Busy
<1>12. ServingOf(c) = {} /\ ServingOf(c)' = {head.id}
  BY <1>3, <1>9, <1>10, <1>11 DEF ServingOf
<1>13. \A d \in Client \ {c} : ServingOf(d)' = ServingOf(d)
  <2>1. \A d \in Client : ~Handles(w, d)
    BY <1>2 DEF Handles
  <2> QED BY <1>10, <1>11, <2>1 DEF ServingOf
<1>14. Serving' = [Serving EXCEPT ![c] = {Head(Inbox[c])}] /\ Serving[c] = {}
  BY <1>5, <1>12, <1>13 DEF Serving, Inbox
<1>15. n \in 1..Len(Inbox[c]) /\ Inbox[c] # <<>>
  BY <1>5 DEF Inbox
<1> QED BY <1>2, <1>3, <1>7, <1>14, <1>15
        DEF Talk!Take, Inbox, Serving, ServingOf, IdsOf

LEMMA AcceptView ==
  ASSUME TalkInv, NEW c \in Client, startAccpet(c)
  PROVE  Talk!Accept(c)
<1>1. sock[c] = "new" /\ sock' = [sock EXCEPT ![c] = "open"]
  BY DEF startAccpet
<1>2. Inbox' = Inbox /\ Serving' = Serving
  BY DEF startAccpet, Inbox, Serving, ServingOf, Handles, Busy
<1> QED BY <1>1, <1>2 DEF Talk!Accept, Inbox, Serving, ServingOf, IdsOf

\* A connection is closed once; closing it again is not seen.
LEMMA CloseView ==
  ASSUME TalkInv, NEW c \in Client, sock[c] # "new", close(c),
         UNCHANGED <<stream, worker>>
  PROVE  Talk!Close(c) \/ UNCHANGED Talk!convVars
<1>1. sock \in [Client -> {"new", "open", "closed"}]
      /\ sock' = [sock EXCEPT ![c] = "closed"]
  BY DEF TalkInv, TypeInv, TypeOK, ZuesTypeOK, close
<1>2. Inbox' = Inbox /\ Serving' = Serving
  BY DEF Inbox, Serving, ServingOf, Handles, Busy
<1>3. CASE sock[c] = "open"
  BY <1>1, <1>2, <1>3 DEF Talk!Close, Inbox, Serving, ServingOf, IdsOf
<1>4. CASE sock[c] = "closed"
  BY <1>1, <1>2, <1>4, TalkView
<1> QED BY <1>1, <1>3, <1>4

LEMMA TimeoutView ==
  ASSUME TalkInv, NEW c \in Client, idleTimeout(c)
  PROVE  Talk!Close(c) \/ UNCHANGED Talk!convVars
<1>1. CASE close(c)
  BY <1>1, CloseView DEF idleTimeout, TalkInv, ManagedAccepted
<1>2. CASE UNCHANGED <<sock, armed>>
  BY <1>2, Unseen DEF idleTimeout, Handles, Busy
<1> QED BY <1>1, <1>2 DEF idleTimeout

LEMMA ClosedView ==
  ASSUME TalkInv, NEW w \in Worker, NEW c \in Client, handleClientClosed(w, c)
  PROVE  Talk!Close(c) \/ UNCHANGED Talk!convVars
<1>1. sock[c] # "new"
  BY DEF handleClientClosed, TalkInv, TokenInv, ReadToken, ifConnected
<1> QED BY <1>1, CloseView DEF handleClientClosed

\* A handler works on one packet from its first step to its last.
LEMMA HandlerView ==
  ASSUME TalkInv, NEW w \in Worker, HandleData(w), ~rowsThrow(w)
  PROVE  UNCHANGED Talk!convVars
<1>1. worker \in [Worker -> Frame] /\ worker[w] \in Frame
  BY DEF TalkInv, TypeInv, TypeOK, DataHandleTypeOK
<1>2. worker'[w].packet = worker[w].packet
  <2>1. CASE handleLoginMessage(w)
    BY <1>1, <2>1
    DEF Frame, handleLoginMessage, loginSelect, loginFriends, loginApplies,
        loginCache, loginAddUser, loginReply, Goto
  <2>2. CASE handleAddFriendReq(w)
    BY <1>1, <2>2
    DEF Frame, handleAddFriendReq, addFriendInsert, addFriendSelect,
        addFriendInform, Goto
  <2>3. CASE \/ handleChatMessage(w) \/ handleRegMessage(w)
             \/ handleVerifyCode(w) \/ ignorePacket(w)
             \/ handleDeleteFriend(w) \/ handleFriendConfirm(w)
    BY <1>1, <2>3
    DEF Frame, handleChatMessage, handleRegMessage, handleVerifyCode,
        ignorePacket, handleDeleteFriend, handleFriendConfirm, Goto
  <2> QED BY <2>1, <2>2, <2>3 DEF HandleData, handleData
<1>3. \A v \in Worker : worker'[v].packet = worker[v].packet
  BY <1>2, OtherWorkers DEF TalkInv
<1>4. \A v \in Worker, c \in Client : Handles(v, c)' <=> Handles(v, c)
  BY HandlerKeepsToken DEF TalkInv
<1> QED BY <1>3, <1>4, HandlerFrame, Unseen

\* The worker that leaves handleClient, in order or thrown out of it, was the
\* only one to serve its connection.
LEMMA LeaveView ==
  ASSUME TalkInv, NEW w \in Worker,
         handleClientRearm(w) \/ (HandleData(w) /\ rowsThrow(w))
  PROVE  \E c \in Client : Talk!Finish(c)
<1>1. PICK c \in Client : c = worker[w].client /\ Handles(w, c)
  BY WorkerType
  DEF handleClientRearm, rowsThrow, Handling, Busy, TalkInv, Handles
<1>2. \A v \in Worker : Handles(v, c) => v = w
  BY <1>1 DEF TalkInv, TokenInv, ReadToken
<1>3. /\ ~Busy(w)' /\ \A v \in Worker \ {w} : worker'[v] = worker[v]
      /\ \A d \in Client : Handles(w, d) => d = c
  <2>1. worker \in [Worker -> Frame] /\ worker' = [worker EXCEPT ![w] = Idle]
    BY DEF handleClientRearm, rowsThrow, TalkInv, TypeInv, TypeOK,
           DataHandleTypeOK
  <2>2. worker'[w].at = "idle"
    BY <2>1, IdleType
  <2> QED BY <1>1, <2>1, <2>2 DEF Busy, Handles
<1>4. \A v \in Worker, d \in Client :
        Handles(v, d)' <=> v # w /\ Handles(v, d)
  BY <1>3 DEF Handles, Busy
<1>5. ServingOf(c)' = {}
  BY <1>2, <1>4 DEF ServingOf
<1>6. \A d \in Client \ {c} : ServingOf(d)' = ServingOf(d)
  BY <1>3, <1>4 DEF ServingOf
<1>7. Serving' = [Serving EXCEPT ![c] = {}]
  BY <1>5, <1>6 DEF Serving
<1>8. sock' = sock /\ Inbox' = Inbox
  BY HandlerFrame DEF handleClientRearm, Inbox
<1>9. Talk!Finish(c)
  BY <1>7, <1>8 DEF Talk!Finish, Inbox, Serving, ServingOf, IdsOf
<1> QED BY <1>1, <1>9

LEMMA StepView ==
  TalkInv /\ [Next]_vars => [Talk!ConversationNext]_(Talk!convVars)
<1> SUFFICES ASSUME TalkInv, [Next]_vars
             PROVE  Talk!ConversationNext \/ UNCHANGED Talk!convVars
  OBVIOUS
<1>1. ASSUME NEW c \in Client, ClientSend(c) PROVE Talk!ConversationNext
  BY <1>1, SendView DEF Talk!ConversationNext
<1>2. ASSUME NEW c \in Client, startAccpet(c) PROVE Talk!ConversationNext
  BY <1>2, AcceptView DEF Talk!ConversationNext
<1>3. ASSUME NEW c \in Client, idleTimeout(c)
      PROVE  Talk!ConversationNext \/ UNCHANGED Talk!convVars
  BY <1>3, TimeoutView DEF Talk!ConversationNext
<1>4. ASSUME NEW c \in Client,
             ReadStep(c) \/ \E w \in Worker : handleClientClosed(w, c)
      PROVE  Talk!ConversationNext \/ UNCHANGED Talk!convVars
  <2>1. ASSUME NEW w \in Worker, handleClientClosed(w, c)
        PROVE  Talk!ConversationNext \/ UNCHANGED Talk!convVars
    BY <2>1, ClosedView DEF Talk!ConversationNext
  <2>2. ASSUME NEW w \in Worker, NEW n \in 1..Len(stream[c]),
               handleClientRead(w, c, n)
        PROVE  Talk!ConversationNext
    BY <2>2, ReadView DEF Talk!ConversationNext
  <2>3. ReadStep(c) =>
          \E w \in Worker : \/ \E n \in 1..Len(stream[c]) : handleClientRead(w, c, n)
                           \/ handleClientClosed(w, c)
    BY DEF ReadStep
  <2> QED BY <1>4, <2>1, <2>2, <2>3
<1>5. ASSUME NEW w \in Worker, WorkerStep(w)
      PROVE  Talk!ConversationNext \/ UNCHANGED Talk!convVars
  <2>1. CASE HandleData(w) /\ ~rowsThrow(w)
    BY <2>1, HandlerView
  <2>2. CASE handleClientRearm(w) \/ (HandleData(w) /\ rowsThrow(w))
    BY <2>2, LeaveView DEF Talk!ConversationNext
  <2> QED BY <1>5, <2>1, <2>2 DEF WorkerStep
<1>6. CASE \/ TaskStep \/ UNCHANGED vars \/ \E c \in Client : ClientHangUp(c)
  BY <1>6, Unseen
  DEF TaskStep, wathcIoRead, sendMessageToClient, ClientHangUp, vars, Handles, Busy
<1> QED BY <1>1, <1>2, <1>3, <1>4, <1>5, <1>6 DEF Next

\* The server keeps to Conversation: while a connection is open its packets
\* are served one at a time and in the order they were sent, and it is closed
\* for good, whatever workers, callbacks and timers there are.
THEOREM ImplementsConversation == Spec => ConversationSpec
<1>1. Spec => []TalkInv
  BY InitTalkInv, NextTalkInv, PTL DEF Spec
<1> QED BY <1>1, InitView, StepView, PTL
        DEF Spec, ConversationSpec, Talk!ConversationSpec
=============================================================================
