-------------------------- MODULE MyTcpServer_proofs --------------------------
(***************************************************************************)
(* Proofs about MyTcpServer for every set of users, clients and workers,   *)
(* every stored table and every set of bodies.                             *)
(***************************************************************************)
EXTENDS MyTcpServer, SequenceTheorems, TLAPS

-----------------------------------------------------------------------------
(* Types.  A worker in a handler has a connection, and one about to inform *)
(* a friend has that friend's socket: without these the callbacks they     *)
(* queue would have no target.                                             *)

BusyHasClient ==
  \A w \in Worker :
    /\ Busy(w) => worker[w].client \in Client
    /\ worker[w].at = "inform" => worker[w].target \in Client

TypeInv == TypeOK /\ BusyHasClient

\* The answers handlers queue are callbacks the scheduler can run.
LEMMA CallbackType ==
  ASSUME NEW kind \in Kind, NEW c \in Client, NEW i \in Nat, NEW u \in Uid
  PROVE  Callback(kind, c, i, u) \in Task
BY DEF Callback, Task

LEMMA IdleType == Idle \in Frame /\ Idle.at = "idle"
BY UidAssumption DEF Idle, Frame, Phase, MaybeClient, NoPacket, Packet, Body,
                     Func, Flag

\* castFromString keeps the func_id and gives a body of the protocol.
LEMMA CastType ==
  ASSUME NEW b \in Body, NEW d \in castFromString(b)
  PROVE  d \in Body /\ d.func = b.func
<1>1. CASE b.ok
  BY <1>1 DEF castFromString
<1>2. CASE ~b.ok /\ b.func = "chat"
  <2> PICK uid \in Uid : d = [b EXCEPT !.other = uid]
    BY <1>2, UidAssumption DEF castFromString
  <2> QED BY DEF Body
<1>3. CASE ~b.ok /\ b.func # "chat"
  <2>1. d = Defaults(b)
    BY <1>3 DEF castFromString
  <2> DEFINE flag == IF b.func = "login" THEN "empty" ELSE "reject"
  <2>2. flag \in Flag
    BY DEF Flag
  <2>3. d = [[[b EXCEPT !.own = ZeroUid] EXCEPT !.other = ZeroUid]
               EXCEPT !.flag = flag]
    BY <2>1 DEF Defaults, Body
  <2> QED BY <2>2, <2>3, UidAssumption DEF Body
<1> QED BY <1>1, <1>2, <1>3

LEMMA InitType == Init => TypeInv
<1> SUFFICES ASSUME Init PROVE TypeInv
  OBVIOUS
<1>1. ZuesTypeOK /\ ConnectInfoTypeOK
  BY DEF Init, ZuesInit, ZuesTypeOK, ConnectInfoInit, ConnectInfoTypeOK,
         Absent, UserConnectInfo, MaybeClient
<1>2. FriendShipsTypeOK
  BY StoredRowsAssumption DEF Init, FriendShipsInit, FriendShipsTypeOK, Row
<1>3. DataHandleTypeOK /\ BusyHasClient
  BY IdleType DEF Init, DataHandleInit, DataHandleTypeOK, BusyHasClient, Busy
<1> QED BY <1>1, <1>2, <1>3 DEF TypeInv, TypeOK, Init

\* What the type invariant says of a worker that stands in a handler.
LEMMA WorkerType ==
  ASSUME TypeInv, NEW w \in Worker, Busy(w)
  PROVE  /\ worker \in [Worker -> Frame]
         /\ worker[w].client \in Client
         /\ worker[w].packet \in Packet
         /\ worker[w].packet.id \in Nat
         /\ Msg(w) \in Body
         /\ Msg(w).own \in Uid /\ Msg(w).other \in Uid
         /\ worker[w].uid \in Uid
         /\ worker[w].friends \subseteq PublicInfo
         /\ worker[w].applies \subseteq PublicInfo
BY DEF TypeInv, TypeOK, DataHandleTypeOK, BusyHasClient, Frame, Packet, Body, Msg

\* Moving a worker from one phase of a handler to the next keeps its types.
LEMMA GotoType ==
  ASSUME TypeInv, NEW w \in Worker, Busy(w), NEW phase \in Phase,
         phase # "inform", Goto(w, phase)
  PROVE  worker' \in [Worker -> Frame] /\ BusyHasClient'
<1>1. worker' \in [Worker -> Frame]
  BY WorkerType DEF Goto, Frame
<1>2. \A v \in Worker : /\ worker'[v].client = worker[v].client
                        /\ worker'[v].target = worker[v].target
                        /\ v # w => worker'[v] = worker[v]
                        /\ worker'[w].at = phase
  BY WorkerType DEF Goto, Frame
<1> QED BY <1>1, <1>2 DEF BusyHasClient, Busy, TypeInv

\* An answer of a worker in a handler is a callback.
LEMMA ReplyType ==
  ASSUME TypeInv, NEW w \in Worker, Busy(w), NEW kind \in Kind, NEW c \in Client,
         NEW uid \in Uid
  PROVE  Reply(w, kind, c, uid) \in Task
BY WorkerType, CallbackType DEF Reply

\* The part of the type invariant a handler can disturb.
HandlerTypeOK ==
  /\ worker \in [Worker -> Frame] /\ BusyHasClient
  /\ tasks \subseteq Task
  /\ ConnectInfoTypeOK /\ FriendShipsTypeOK
  /\ crashed \in BOOLEAN
  /\ dropped \subseteq Client
  /\ logins \subseteq [client : Client, uid : Uid]

LEMMA TypeInvHandler == TypeInv => HandlerTypeOK
BY DEF TypeInv, TypeOK, DataHandleTypeOK, ZuesTypeOK, HandlerTypeOK

LEMMA ChatType ==
  ASSUME TypeInv, NEW w \in Worker, handleChatMessage(w)
  PROVE  HandlerTypeOK'
<1>1. Busy(w)
  BY DEF handleChatMessage, Handling, Busy
<1>2. ChatCallbacks(w) \subseteq Task
  <2>1. selectUser(Msg(w).other) \in MaybeClient
    BY <1>1, WorkerType DEF TypeInv, TypeOK, ConnectInfoTypeOK, UserConnectInfo,
                            selectUser
  <2> QED BY <1>1, <2>1, WorkerType, ReplyType
          DEF ChatCallbacks, MaybeClient, Kind
<1>3. tasks' \subseteq Task
  BY <1>2, TypeInvHandler DEF handleChatMessage, scheduler, HandlerTypeOK
<1>4. worker' \in [Worker -> Frame] /\ BusyHasClient'
  BY <1>1, GotoType DEF handleChatMessage, Phase
<1> QED BY <1>3, <1>4, TypeInvHandler
        DEF handleChatMessage, HandlerTypeOK, stateVars, dbVars,
            ConnectInfoTypeOK, FriendShipsTypeOK

\* The handlers that answer, or ignore, without touching shared state.
LEMMA PlainReplyType ==
  ASSUME TypeInv, NEW w \in Worker,
         handleRegMessage(w) \/ handleVerifyCode(w) \/ ignorePacket(w)
  PROVE  HandlerTypeOK'
<1>1. Busy(w)
  BY DEF handleRegMessage, handleVerifyCode, ignorePacket, Handling, Busy
<1>2. \A kind \in Kind : Reply(w, kind, worker[w].client, ZeroUid) \in Task
  BY <1>1, WorkerType, ReplyType, UidAssumption
<1>3. tasks' \subseteq Task
  BY <1>2, TypeInvHandler
  DEF handleRegMessage, handleVerifyCode, ignorePacket, scheduler,
      HandlerTypeOK, Kind
<1>4. worker' \in [Worker -> Frame] /\ BusyHasClient'
  BY <1>1, GotoType DEF handleRegMessage, handleVerifyCode, ignorePacket, Phase
<1> QED BY <1>3, <1>4, TypeInvHandler
        DEF handleRegMessage, handleVerifyCode, ignorePacket, HandlerTypeOK,
            stateVars, dbVars, ConnectInfoTypeOK, FriendShipsTypeOK

\* The lists a login builds are sets of entries, whatever the query found.
LEMMA ListType ==
  ASSUME NEW ids, NEW list \in Lists(ids) \cup {{}}
  PROVE  list \subseteq PublicInfo
BY DEF Lists

\* A worker frame with the fields a login sets is a frame.
LEMMA UpdateType ==
  ASSUME TypeInv, NEW w \in Worker, Busy(w),
         NEW f \in Frame, f.client = worker[w].client, f.at # "inform",
         worker' = [worker EXCEPT ![w] = f]
  PROVE  worker' \in [Worker -> Frame] /\ BusyHasClient'
<1>1. worker \in [Worker -> Frame] /\ worker[w].client \in Client
  BY WorkerType
<1>2. worker' \in [Worker -> Frame]
  BY <1>1
<1>3. worker'[w] = f /\ \A v \in Worker \ {w} : worker'[v] = worker[v]
  BY <1>1
<1> QED BY <1>1, <1>2, <1>3 DEF BusyHasClient, Busy, TypeInv

LEMMA LoginType ==
  ASSUME TypeInv, NEW w \in Worker, handleLoginMessage(w)
  PROVE  HandlerTypeOK'
<1>1. Busy(w)
  BY DEF handleLoginMessage, loginSelect, loginFriends, loginApplies,
         loginCache, loginAddUser, loginReply, Handling, Busy
<1>2. HandlerTypeOK /\ worker[w] \in Frame
  BY <1>1, TypeInvHandler, WorkerType
<1>3. CASE loginSelect(w)
  <2>1. CASE Goto(w, "rearm") /\ UNCHANGED logins
    BY <1>1, <1>2, <1>3, <2>1, GotoType
    DEF loginSelect, HandlerTypeOK, Phase, dbVars, ConnectInfoTypeOK,
        FriendShipsTypeOK
  <2>2. ASSUME NEW uid \in Uid,
               worker' = [worker EXCEPT ![w].at = "friends", ![w].uid = uid],
               logins' = logins \cup {[client |-> worker[w].client, uid |-> uid]}
        PROVE  HandlerTypeOK'
    <3> DEFINE f == [worker[w] EXCEPT !.at = "friends", !.uid = uid]
    <3>1. f \in Frame /\ f.client = worker[w].client /\ f.at # "inform"
      BY <1>2 DEF Frame, Phase
    <3>2. worker' = [worker EXCEPT ![w] = f]
      BY <1>2, <2>2 DEF Frame, HandlerTypeOK
    <3>3. worker' \in [Worker -> Frame] /\ BusyHasClient'
      BY <1>1, <3>1, <3>2, UpdateType
    <3>4. logins' \subseteq [client : Client, uid : Uid]
      BY <1>1, <1>2, <2>2, WorkerType DEF HandlerTypeOK
    <3> QED BY <1>2, <1>3, <3>3, <3>4
            DEF loginSelect, HandlerTypeOK, dbVars, ConnectInfoTypeOK,
                FriendShipsTypeOK
  <2> QED BY <1>3, <2>1, <2>2 DEF loginSelect
<1>4. CASE loginFriends(w)
  <2> PICK list \in Lists(selectAllFriendShip(worker[w].uid)) \cup {{}} :
        worker' = [worker EXCEPT ![w].at = "applies", ![w].friends = list]
    BY <1>4 DEF loginFriends
  <2> DEFINE f == [worker[w] EXCEPT !.at = "applies", !.friends = list]
  <2>1. list \subseteq PublicInfo
    BY ListType
  <2>2. f \in Frame /\ f.client = worker[w].client /\ f.at # "inform"
    BY <1>2, <2>1 DEF Frame, Phase
  <2>3. worker' = [worker EXCEPT ![w] = f]
    BY <1>2 DEF Frame, HandlerTypeOK
  <2>4. worker' \in [Worker -> Frame] /\ BusyHasClient'
    BY <1>1, <2>2, <2>3, UpdateType
  <2> QED BY <1>2, <1>4, <2>4
          DEF loginFriends, HandlerTypeOK, stateVars, dbVars,
              ConnectInfoTypeOK, FriendShipsTypeOK
<1>5. CASE loginApplies(w)
  <2> PICK list \in Lists(selectAllFriendApply(worker[w].uid)) \cup {{}} :
        worker' = [worker EXCEPT ![w].at = "cache", ![w].applies = list]
    BY <1>5 DEF loginApplies
  <2> DEFINE f == [worker[w] EXCEPT !.at = "cache", !.applies = list]
  <2>1. list \subseteq PublicInfo
    BY ListType
  <2>2. f \in Frame /\ f.client = worker[w].client /\ f.at # "inform"
    BY <1>2, <2>1 DEF Frame, Phase
  <2>3. worker' = [worker EXCEPT ![w] = f]
    BY <1>2 DEF Frame, HandlerTypeOK
  <2>4. worker' \in [Worker -> Frame] /\ BusyHasClient'
    BY <1>1, <2>2, <2>3, UpdateType
  <2> QED BY <1>2, <1>5, <2>4
          DEF loginApplies, HandlerTypeOK, stateVars, dbVars,
              ConnectInfoTypeOK, FriendShipsTypeOK
<1>8. CASE loginCache(w)
  BY <1>1, <1>2, <1>8, GotoType
  DEF loginCache, HandlerTypeOK, Phase, stateVars, dbVars, ConnectInfoTypeOK,
      FriendShipsTypeOK
<1>6. CASE loginAddUser(w)
  <2>1. ConnectInfoTypeOK'
    BY <1>1, <1>2, <1>6, WorkerType
    DEF loginAddUser, addUser, HandlerTypeOK, ConnectInfoTypeOK,
        UserConnectInfo, MaybeClient
  <2> QED BY <1>1, <1>2, <1>6, <2>1, GotoType
          DEF loginAddUser, HandlerTypeOK, Phase, dbVars, FriendShipsTypeOK
<1>7. CASE loginReply(w)
  <2> DEFINE res == Reply(w, "loginRes", worker[w].client, worker[w].uid)
             cache == Reply(w, "cache", worker[w].client, worker[w].uid)
  <2>1. res \in Task /\ cache \in Task
    BY <1>1, WorkerType, ReplyType DEF Kind
  <2>2. [res EXCEPT !.friends = worker[w].friends,
                    !.applies = worker[w].applies] \in Task
    BY <1>1, <2>1, WorkerType DEF Task
  <2>3. tasks' \subseteq Task
    BY <1>2, <1>7, <2>1, <2>2 DEF loginReply, scheduler, HandlerTypeOK
  <2> QED BY <1>1, <1>2, <1>7, <2>3, GotoType
          DEF loginReply, HandlerTypeOK, Phase, stateVars, dbVars,
              ConnectInfoTypeOK, FriendShipsTypeOK
<1> QED BY <1>3, <1>4, <1>5, <1>6, <1>7, <1>8 DEF handleLoginMessage

\* The statements on the table keep its rows and history typed.
LEMMA InsertType ==
  ASSUME FriendShipsTypeOK, NEW i \in Nat, NEW a \in Uid, NEW b \in Uid,
         insert(i, a, b)
  PROVE  FriendShipsTypeOK'
BY DEF insert, FriendShipsTypeOK, Row

LEMMA RemoveType ==
  ASSUME FriendShipsTypeOK, NEW a, NEW b, removeFriendship(a, b)
  PROVE  FriendShipsTypeOK'
BY DEF removeFriendship, FriendShipsTypeOK

LEMMA ChangeType ==
  ASSUME FriendShipsTypeOK, NEW a \in Uid, NEW b \in Uid,
         changeFriendShipStatus(a, b, "accepted")
  PROVE  FriendShipsTypeOK'
<1> DEFINE hit == {r \in friendships : OfPair(r, a, b)}
<1>1. Updated(hit, a, b, "accepted") \subseteq Row
  <2>1. ASSUME NEW r \in hit
        PROVE  [r EXCEPT !.user_id1 = a, !.user_id2 = b,
                         !.status = "accepted"] \in Row
    <3>1. r \in Row
      BY DEF FriendShipsTypeOK
    <3> QED BY <3>1 DEF Row
  <2>2. friendships \ hit \subseteq Row
    BY DEF FriendShipsTypeOK
  <2> HIDE DEF hit
  <2> QED BY <2>1, <2>2 DEF Updated
<1>2. confirmed' \subseteq SUBSET Uid
  <2>1. {a, b} \in SUBSET Uid
    OBVIOUS
  <2>2. confirmed' = confirmed \/ confirmed' = confirmed \cup {{a, b}}
    BY Zenon DEF changeFriendShipStatus
  <2> QED BY <2>1, <2>2 DEF FriendShipsTypeOK
<1> QED BY <1>1, <1>2 DEF changeFriendShipStatus, FriendShipsTypeOK

LEMMA AddFriendType ==
  ASSUME TypeInv, NEW w \in Worker, handleAddFriendReq(w)
  PROVE  HandlerTypeOK'
<1>1. Busy(w)
  BY DEF handleAddFriendReq, addFriendInsert, addFriendSelect, addFriendInform,
         Handling, Busy
<1>2. HandlerTypeOK /\ worker[w] \in Frame
  BY <1>1, TypeInvHandler, WorkerType
<1>3. CASE addFriendInsert(w)
  <2>1. FriendShipsTypeOK'
    BY <1>1, <1>2, <1>3, WorkerType, InsertType
    DEF addFriendInsert, HandlerTypeOK, dbVars, FriendShipsTypeOK
  <2> QED BY <1>1, <1>2, <1>3, <2>1, GotoType
          DEF addFriendInsert, HandlerTypeOK, Phase, ConnectInfoTypeOK
<1>4. CASE addFriendSelect(w)
  <2> DEFINE c == selectUser(Msg(w).other)
             at == IF ifConnected(c) THEN "inform" ELSE "rearm"
  <2>1. CASE c = NoClient
    BY <1>2, <1>4, <2>1
    DEF addFriendSelect, HandlerTypeOK, BusyHasClient, Busy, dbVars,
        ConnectInfoTypeOK, FriendShipsTypeOK
  <2>2. CASE c # NoClient
    <3>1. c \in Client
      BY <1>1, <1>2, <2>2, WorkerType
      DEF HandlerTypeOK, ConnectInfoTypeOK, UserConnectInfo, selectUser,
          MaybeClient
    <3> DEFINE f == [worker[w] EXCEPT !.at = at, !.target = c]
    <3>2. f \in Frame /\ f.client = worker[w].client /\ f.target = c
      BY <1>2, <3>1 DEF Frame, Phase, MaybeClient
    <3>3. worker' = [worker EXCEPT ![w] = f]
      BY <1>2, <1>4, <2>2 DEF addFriendSelect, Frame, HandlerTypeOK
    <3>4. worker' \in [Worker -> Frame]
      BY <1>2, <3>2, <3>3 DEF HandlerTypeOK
    <3>5. worker'[w] = f /\ \A v \in Worker \ {w} : worker'[v] = worker[v]
      BY <1>2, <3>3 DEF HandlerTypeOK
    <3>6. BusyHasClient'
      BY <1>1, <1>2, <3>1, <3>2, <3>5, WorkerType
      DEF BusyHasClient, Busy, HandlerTypeOK
    <3> QED BY <1>2, <1>4, <2>2, <3>4, <3>6
            DEF addFriendSelect, HandlerTypeOK, dbVars, ConnectInfoTypeOK,
                FriendShipsTypeOK
  <2> QED BY <2>1, <2>2
<1>5. CASE addFriendInform(w)
  <2>1. worker[w].target \in Client
    BY <1>2, <1>5 DEF addFriendInform, Handling, HandlerTypeOK, BusyHasClient
  <2>2. Reply(w, "inform", worker[w].target, Msg(w).other) \in Task
    BY <1>1, <2>1, WorkerType, ReplyType DEF Kind
  <2>3. tasks' \subseteq Task
    BY <1>2, <1>5, <2>2 DEF addFriendInform, scheduler, HandlerTypeOK
  <2> QED BY <1>1, <1>2, <1>5, <2>3, GotoType
          DEF addFriendInform, HandlerTypeOK, Phase, stateVars, dbVars,
              ConnectInfoTypeOK, FriendShipsTypeOK
<1> QED BY <1>3, <1>4, <1>5 DEF handleAddFriendReq

LEMMA PairHandlersType ==
  ASSUME TypeInv, NEW w \in Worker,
         handleDeleteFriend(w) \/ handleFriendConfirm(w)
  PROVE  HandlerTypeOK'
<1>1. Busy(w)
  BY DEF handleDeleteFriend, handleFriendConfirm, Handling, Busy
<1>2. HandlerTypeOK /\ Msg(w).own \in Uid /\ Msg(w).other \in Uid
  BY <1>1, TypeInvHandler, WorkerType
<1>3. FriendShipsTypeOK'
  BY <1>2, RemoveType, ChangeType
  DEF handleDeleteFriend, handleFriendConfirm, HandlerTypeOK, dbVars,
      FriendShipsTypeOK
<1>4. worker' \in [Worker -> Frame] /\ BusyHasClient'
  BY <1>1, GotoType DEF handleDeleteFriend, handleFriendConfirm, Phase
<1> QED BY <1>2, <1>3, <1>4
        DEF handleDeleteFriend, handleFriendConfirm, HandlerTypeOK,
            ConnectInfoTypeOK

\* A worker thrown out of a handler is idle again.
LEMMA ThrowType ==
  ASSUME TypeInv, NEW w \in Worker, rowsThrow(w)
  PROVE  HandlerTypeOK'
<1>1. Busy(w)
  BY DEF rowsThrow, Handling, Busy
<1>2. HandlerTypeOK /\ worker[w].client \in Client
  BY <1>1, TypeInvHandler, WorkerType
<1>3. worker' \in [Worker -> Frame] /\ BusyHasClient'
  <2>1. worker' \in [Worker -> Frame]
    BY <1>2, IdleType DEF rowsThrow, HandlerTypeOK
  <2>2. worker'[w] = Idle /\ \A v \in Worker \ {w} : worker'[v] = worker[v]
    BY <1>2 DEF rowsThrow, HandlerTypeOK
  <2> QED BY <1>2, <2>1, <2>2, IdleType DEF BusyHasClient, Busy, HandlerTypeOK
<1> QED BY <1>2, <1>3
        DEF rowsThrow, HandlerTypeOK, dbVars, ConnectInfoTypeOK,
            FriendShipsTypeOK

LEMMA HandleDataType ==
  ASSUME TypeInv, NEW w \in Worker, HandleData(w)
  PROVE  HandlerTypeOK'
BY ChatType, PlainReplyType, LoginType, AddFriendType, PairHandlersType,
   ThrowType
DEF HandleData, handleData

\* Handlers leave the sockets, the READ events and the streams alone.
LEMMA HandlerFrame ==
  ASSUME NEW w \in Worker, HandleData(w)
  PROVE  UNCHANGED <<sock, peer, armed, written, stream, managed, sent>>
BY DEF HandleData, handleData, handleChatMessage, handleRegMessage,
       handleVerifyCode, ignorePacket, handleLoginMessage, loginSelect,
       loginFriends, loginApplies, loginCache, loginAddUser, loginReply,
       rowsThrow, handleAddFriendReq, addFriendInsert, addFriendSelect,
       addFriendInform,
       handleDeleteFriend, handleFriendConfirm, ioVars

-----------------------------------------------------------------------------
LEMMA ClientSendType ==
  ASSUME TypeInv, NEW c \in Client, ClientSend(c)
  PROVE  TypeInv'
<1> PICK b \in Bodies :
      stream' = [stream EXCEPT ![c] = Append(@, [id |-> sent + 1, body |-> b])]
  BY DEF ClientSend
<1>1. [id |-> sent + 1, body |-> b] \in Packet
  BY InputAssumption DEF Packet, TypeInv, TypeOK
<1>2. stream' \in [Client -> Seq(Packet)]
  BY <1>1 DEF TypeInv, TypeOK
<1> QED BY <1>2
        DEF ClientSend, TypeInv, TypeOK, ZuesTypeOK, ConnectInfoTypeOK, dbVars,
            FriendShipsTypeOK, DataHandleTypeOK, BusyHasClient, Busy

LEMMA ConnectionType ==
  ASSUME TypeInv, NEW c \in Client,
         ClientHangUp(c) \/ startAccpet(c)
  PROVE  TypeInv'
BY DEF ClientHangUp, startAccpet, TypeInv, TypeOK, ZuesTypeOK,
       ConnectInfoTypeOK, dbVars, FriendShipsTypeOK, DataHandleTypeOK,
       BusyHasClient, Busy

LEMMA IdleTimeoutType ==
  ASSUME TypeInv, NEW c \in Client, idleTimeout(c)
  PROVE  TypeInv'
<1>1. ConnectInfoTypeOK'
  BY DEF idleTimeout, changeOnline, TypeInv, TypeOK, ConnectInfoTypeOK,
         UserConnectInfo
<1>2. ZuesTypeOK'
  BY DEF idleTimeout, close, TypeInv, TypeOK, ZuesTypeOK
<1> QED BY <1>1, <1>2
        DEF idleTimeout, TypeInv, TypeOK, dbVars, FriendShipsTypeOK,
            DataHandleTypeOK, BusyHasClient, Busy

LEMMA ReadType ==
  ASSUME TypeInv, NEW w \in Worker, NEW c \in Client,
         NEW n \in 1..Len(stream[c]), handleClientRead(w, c, n)
  PROVE  TypeInv'
<1>1. stream[c] \in Seq(Packet) /\ Len(stream[c]) \in Nat /\ stream[c] # <<>>
  BY DEF TypeInv, TypeOK
<1>2. Head(stream[c]) \in Packet
  BY <1>1
<1>3. SubSeq(stream[c], n + 1, Len(stream[c])) \in Seq(Packet)
  BY <1>1, SubSeqProperties
<1> PICK b \in castFromString(Head(stream[c]).body) :
      worker' = [worker EXCEPT ![w] =
        [Idle EXCEPT !.at = "handle", !.client = c,
                     !.packet = [Head(stream[c]) EXCEPT !.body = b]]]
  BY DEF handleClientRead
<1> DEFINE p == [Head(stream[c]) EXCEPT !.body = b]
           f == [Idle EXCEPT !.at = "handle", !.client = c, !.packet = p]
<1>4. p \in Packet
  BY <1>2, CastType DEF Packet
<1>5. f \in Frame /\ f.client = c /\ f.at = "handle"
  BY <1>4, IdleType DEF Frame, Phase, MaybeClient
<1>6. worker' = [worker EXCEPT ![w] = f]
  OBVIOUS
<1>7. worker' \in [Worker -> Frame]
  BY <1>5, <1>6 DEF TypeInv, TypeOK, DataHandleTypeOK
<1>8. worker'[w] = f /\ \A v \in Worker \ {w} : worker'[v] = worker[v]
  BY <1>6 DEF TypeInv, TypeOK, DataHandleTypeOK
<1>9. BusyHasClient'
  BY <1>5, <1>8 DEF BusyHasClient, Busy, TypeInv
<1>10. stream' \in [Client -> Seq(Packet)]
  BY <1>3 DEF handleClientRead, TypeInv, TypeOK
<1> QED BY <1>7, <1>9, <1>10
        DEF handleClientRead, TypeInv, TypeOK, ZuesTypeOK, ConnectInfoTypeOK,
            dbVars, FriendShipsTypeOK, DataHandleTypeOK

LEMMA ClosedType ==
  ASSUME TypeInv, NEW w \in Worker, NEW c \in Client, handleClientClosed(w, c)
  PROVE  TypeInv'
BY DEF handleClientClosed, close, TypeInv, TypeOK, ZuesTypeOK,
       ConnectInfoTypeOK, dbVars, FriendShipsTypeOK, DataHandleTypeOK,
       BusyHasClient, Busy

LEMMA RearmType ==
  ASSUME TypeInv, NEW w \in Worker, handleClientRearm(w)
  PROVE  TypeInv'
<1>1. Busy(w)
  BY DEF handleClientRearm, Busy
<1>2. Reply(w, "rearm", worker[w].client, ZeroUid) \in Task
  BY <1>1, WorkerType, ReplyType, UidAssumption DEF Kind
<1>3. tasks' \subseteq Task
  BY <1>2 DEF handleClientRearm, scheduler, TypeInv, TypeOK, ZuesTypeOK
<1>4. worker' \in [Worker -> Frame]
  BY IdleType DEF handleClientRearm, TypeInv, TypeOK, DataHandleTypeOK
<1>5. BusyHasClient'
  BY IdleType
  DEF handleClientRearm, TypeInv, TypeOK, DataHandleTypeOK, BusyHasClient, Busy
<1> QED BY <1>3, <1>4, <1>5
        DEF handleClientRearm, TypeInv, TypeOK, ZuesTypeOK, ConnectInfoTypeOK,
            dbVars, FriendShipsTypeOK, DataHandleTypeOK

LEMMA TaskType ==
  ASSUME TypeInv, NEW w \in Worker, NEW t \in tasks,
         wathcIoRead(w, t) \/ sendMessageToClient(w, t)
  PROVE  TypeInv'
<1>1. t \in Task /\ t.to \in Client
  BY DEF TypeInv, TypeOK, ZuesTypeOK, Task
<1> QED BY <1>1
        DEF wathcIoRead, sendMessageToClient, addEvent, TypeInv, TypeOK,
            ZuesTypeOK, ConnectInfoTypeOK, dbVars, FriendShipsTypeOK,
            DataHandleTypeOK, BusyHasClient, Busy

LEMMA NextType == TypeInv /\ [Next]_vars => TypeInv'
<1> SUFFICES ASSUME TypeInv, [Next]_vars PROVE TypeInv'
  OBVIOUS
<1>1. ASSUME NEW c \in Client,
             ClientSend(c) \/ ClientHangUp(c) \/ startAccpet(c) \/ idleTimeout(c)
      PROVE  TypeInv'
  BY <1>1, ClientSendType, ConnectionType, IdleTimeoutType
<1>2. ASSUME NEW c \in Client,
             ReadStep(c) \/ \E w \in Worker : handleClientClosed(w, c)
      PROVE  TypeInv'
  BY <1>2, ReadType, ClosedType DEF ReadStep
<1>3. ASSUME NEW w \in Worker, HandleData(w) PROVE TypeInv'
  <2>1. HandlerTypeOK'
    BY <1>3, HandleDataType
  <2>2. UNCHANGED <<sock, peer, armed, written, stream, managed, sent>>
    BY <1>3, HandlerFrame
  <2> QED BY <2>1, <2>2
          DEF TypeInv, TypeOK, ZuesTypeOK, DataHandleTypeOK, HandlerTypeOK
<1>4. ASSUME NEW w \in Worker, handleClientRearm(w) PROVE TypeInv'
  BY <1>4, RearmType
<1>5. CASE TaskStep
  BY <1>5, TaskType DEF TaskStep
<1>6. CASE UNCHANGED vars
  BY <1>6
  DEF vars, TypeInv, TypeOK, ZuesTypeOK, ConnectInfoTypeOK,
      FriendShipsTypeOK, DataHandleTypeOK, BusyHasClient, Busy
<1> QED BY <1>1, <1>2, <1>3, <1>4, <1>5, <1>6 DEF Next, WorkerStep

\* In every reachable state the variables have their types, and no handler is
\* without a connection: whatever the bodies and the interleaving, no
\* callback is queued for a null socket.
THEOREM TypeCorrect == Spec => []TypeOK
<1>1. Spec => []TypeInv
  BY InitType, NextType, PTL DEF Spec
<1> QED BY <1>1, PTL DEF TypeInv

-----------------------------------------------------------------------------
(* What is addressed to a user goes to a connection the user logged in on. *)
(* AddressedToLoggedIn alone is not inductive: the socket of a forwarded   *)
(* chat comes from the map, the socket of a notice from a worker's local   *)
(* variable, and the entry in the map from a login still under way.        *)

LoggedIn(c, uid) == [client |-> c, uid |-> uid] \in logins

BoundLoggedIn ==
  \A uid \in Uid : Registered(uid) => LoggedIn(selectUser(uid), uid)

CheckedLoggedIn ==
  \A w \in Worker :
    worker[w].at \in {"friends", "applies", "cache", "addUser",
                             "loginReply"} =>
      LoggedIn(worker[w].client, worker[w].uid)

TargetLoggedIn ==
  \A w \in Worker :
    worker[w].at = "inform" => LoggedIn(worker[w].target, Msg(w).other)

Addressed(t) ==
  t.kind \in {"chat", "inform", "loginRes", "cache"} => LoggedIn(t.to, t.uid)

AddressedInv ==
  /\ BoundLoggedIn /\ CheckedLoggedIn /\ TargetLoggedIn
  /\ \A t \in tasks \cup written : Addressed(t)

LEMMA InitAddressed == Init => AddressedInv
BY DEF Init, ZuesInit, ConnectInfoInit, Absent, Registered, DataHandleInit, Idle,
       AddressedInv, BoundLoggedIn, CheckedLoggedIn, TargetLoggedIn

\* The history of passed checks only grows.
LEMMA LoginsGrow == [Next]_vars => logins \subseteq logins'
<1>1. ASSUME NEW w \in Worker, handleLoginMessage(w)
      PROVE  logins \subseteq logins'
  BY <1>1 DEF handleLoginMessage, loginSelect, loginFriends, loginApplies,
              loginCache, loginAddUser, loginReply, stateVars
<1>2. ASSUME NEW w \in Worker, HandleData(w)
      PROVE  logins \subseteq logins'
  BY <1>1, <1>2
     DEF HandleData, handleData, handleChatMessage, handleRegMessage,
         handleVerifyCode, ignorePacket, rowsThrow, handleAddFriendReq,
         addFriendInsert, addFriendSelect, addFriendInform, handleDeleteFriend,
         handleFriendConfirm, stateVars
<1>3. ASSUME NEW c \in Client,
             \/ ClientSend(c) \/ ClientHangUp(c) \/ startAccpet(c)
             \/ idleTimeout(c) \/ ReadStep(c)
             \/ \E w \in Worker : handleClientClosed(w, c)
      PROVE  UNCHANGED logins
  BY <1>3 DEF ClientSend, ClientHangUp, startAccpet, idleTimeout, ReadStep,
              handleClientRead, handleClientClosed
<1> QED BY <1>2, <1>3 DEF Next, vars, WorkerStep, handleClientRearm,
                          TaskStep, wathcIoRead, sendMessageToClient

\* The map changes only where a login registers its user.
LEMMA BindingFrame ==
  ASSUME TypeInv, [Next]_vars
  PROVE  \/ \A uid \in Uid : m_connect_info'[uid].client = selectUser(uid)
         \/ \E w \in Worker : loginAddUser(w)
<1>1. CASE \E c \in Client : idleTimeout(c)
  BY <1>1 DEF idleTimeout, changeOnline, selectUser, TypeInv, TypeOK,
              ConnectInfoTypeOK, UserConnectInfo
<1>2. CASE UNCHANGED m_connect_info
  BY <1>2 DEF selectUser
<1> QED BY <1>1, <1>2
        DEF Next, vars, ClientSend, ClientHangUp, startAccpet, ReadStep,
            handleClientRead, handleClientClosed, WorkerStep,
            handleClientRearm, TaskStep, wathcIoRead, sendMessageToClient,
            HandleData, handleData, handleChatMessage, handleRegMessage,
            handleVerifyCode, ignorePacket, rowsThrow,
            handleLoginMessage, loginSelect, loginFriends, loginApplies,
            loginCache, loginReply, handleAddFriendReq,
            addFriendInsert, addFriendSelect, addFriendInform,
            handleDeleteFriend, handleFriendConfirm, stateVars

LEMMA BoundStep ==
  ASSUME TypeInv, AddressedInv, [Next]_vars
  PROVE  BoundLoggedIn'
<1>1. CASE \A uid \in Uid : m_connect_info'[uid].client = selectUser(uid)
  BY <1>1, LoginsGrow
  DEF AddressedInv, BoundLoggedIn, Registered, LoggedIn, selectUser
<1>2. ASSUME NEW w \in Worker, loginAddUser(w) PROVE BoundLoggedIn'
  <2>1. worker[w].at = "addUser" /\ LoggedIn(worker[w].client, worker[w].uid)
    BY <1>2 DEF loginAddUser, Handling, AddressedInv, CheckedLoggedIn
  <2> SUFFICES ASSUME NEW uid \in Uid, Registered(uid)'
               PROVE  LoggedIn(selectUser(uid), uid)'
    BY DEF BoundLoggedIn
  <2>2. CASE m_connect_info'[uid] = m_connect_info[uid]
    BY <2>2, LoginsGrow
    DEF AddressedInv, BoundLoggedIn, Registered, LoggedIn, selectUser
  <2>3. CASE m_connect_info'[uid] # m_connect_info[uid]
    <3>1. uid = worker[w].uid /\ m_connect_info'[uid].client = worker[w].client
      BY <1>2, <2>3
      DEF loginAddUser, addUser, TypeInv, TypeOK, ConnectInfoTypeOK
    <3> QED BY <2>1, <3>1, LoginsGrow DEF LoggedIn, selectUser
  <2> QED BY <2>2, <2>3
<1> QED BY <1>1, <1>2, BindingFrame

\* The first connection a user logs in on stays the one the map knows.
THEOREM BindingNeverMoves == Spec => BindingStable
<1>1. ASSUME TypeInv, [Next]_vars, NEW uid \in Uid, Registered(uid)
      PROVE  m_connect_info'[uid].client = selectUser(uid)
  <2>1. ASSUME NEW w \in Worker, loginAddUser(w)
        PROVE  m_connect_info'[uid].client = selectUser(uid)
    BY <1>1, <2>1
    DEF loginAddUser, addUser, Registered, selectUser, TypeInv, TypeOK,
        ConnectInfoTypeOK
  <2> QED BY <1>1, <2>1, BindingFrame
<1>2. TypeInv /\ [Next]_vars =>
        [\A uid \in Uid :
           Registered(uid) => m_connect_info'[uid].client = selectUser(uid)]_vars
  BY <1>1
<1> QED BY <1>2, InitType, NextType, PTL DEF Spec, BindingStable

\* A step of a worker leaves every other worker where it is.
LEMMA OtherWorkers ==
  ASSUME TypeInv, NEW w \in Worker, HandleData(w), NEW v \in Worker, v # w
  PROVE  worker'[v] = worker[v]
BY DEF TypeInv, TypeOK, DataHandleTypeOK, HandleData, handleData,
       handleChatMessage, handleRegMessage, handleVerifyCode, ignorePacket,
       rowsThrow, handleLoginMessage, loginSelect, loginFriends, loginApplies, loginCache,
       loginAddUser, loginReply, handleAddFriendReq, addFriendInsert,
       addFriendSelect, addFriendInform, handleDeleteFriend,
       handleFriendConfirm, Goto

\* A worker inside a login or a friend request, after its own next step,
\* still stands for a login that passed.
LEMMA OwnStepLoggedIn ==
  ASSUME TypeInv, AddressedInv, NEW w \in Worker, HandleData(w),
         logins \subseteq logins'
  PROVE  /\ worker'[w].at \in {"friends", "applies", "cache", "addUser",
                             "loginReply"} =>
              LoggedIn(worker[w].client, worker[w].uid)'
         /\ worker'[w].at = "inform" =>
              LoggedIn(worker[w].target, Msg(w).other)'
<1>1. worker \in [Worker -> Frame] /\ worker[w] \in Frame
  BY DEF TypeInv, TypeOK, DataHandleTypeOK
<1>2. CASE \/ handleChatMessage(w) \/ handleRegMessage(w) \/ handleVerifyCode(w)
           \/ ignorePacket(w) \/ handleDeleteFriend(w) \/ handleFriendConfirm(w)
           \/ loginReply(w) \/ addFriendInsert(w) \/ addFriendInform(w)
  <2>1. worker'[w].at \in {"rearm", "selectUser"}
    BY <1>1, <1>2
    DEF Frame, handleChatMessage, handleRegMessage, handleVerifyCode,
        ignorePacket, handleDeleteFriend, handleFriendConfirm, loginReply,
        addFriendInsert, addFriendInform, Goto
  <2> QED BY <2>1
<1>3. CASE loginSelect(w)
  <2>1. CASE Goto(w, "rearm")
    BY <1>1, <2>1 DEF Goto, Frame
  <2>2. ASSUME NEW uid \in Uid,
               worker' = [worker EXCEPT ![w].at = "friends", ![w].uid = uid],
               logins' = logins \cup {[client |-> worker[w].client, uid |-> uid]}
        PROVE  /\ worker'[w].at = "friends"
               /\ LoggedIn(worker[w].client, worker[w].uid)'
    BY <1>1, <2>2 DEF Frame, LoggedIn
  <2> QED BY <1>3, <2>1, <2>2 DEF loginSelect
<1>4. CASE \/ loginFriends(w) \/ loginApplies(w) \/ loginCache(w)
           \/ loginAddUser(w)
  <2>1. LoggedIn(worker[w].client, worker[w].uid)
    BY <1>4 DEF AddressedInv, CheckedLoggedIn, loginFriends, loginApplies,
                loginCache, loginAddUser, Handling
  <2>2. /\ worker'[w].client = worker[w].client
        /\ worker'[w].uid = worker[w].uid
        /\ worker'[w].at # "inform"
    BY <1>1, <1>4
    DEF Frame, loginFriends, loginApplies, loginCache, loginAddUser, Goto
  <2> QED BY <2>1, <2>2 DEF LoggedIn
<1>6. CASE rowsThrow(w)
  <2>1. worker'[w].at = "idle"
    BY <1>1, <1>6, IdleType DEF rowsThrow, TypeInv, TypeOK, DataHandleTypeOK
  <2> QED BY <2>1
<1>5. CASE addFriendSelect(w)
  <2> DEFINE uid == Msg(w).other
             c == selectUser(uid)
  <2>1. CASE c = NoClient
    BY <1>5, <2>1 DEF addFriendSelect, Handling
  <2>2. CASE c # NoClient
    <3>1. uid \in Uid
      BY <1>1 DEF Msg, Frame, Packet, Body
    <3>2. LoggedIn(c, uid)
      BY <2>2, <3>1 DEF AddressedInv, BoundLoggedIn, Registered, selectUser
    <3>3. /\ worker'[w].target = c
          /\ worker'[w].packet = worker[w].packet
          /\ worker'[w].at \in {"inform", "rearm"}
      BY <1>1, <1>5, <2>2 DEF addFriendSelect, Frame
    <3> QED BY <3>2, <3>3 DEF LoggedIn, Msg
  <2> QED BY <2>1, <2>2
<1> QED BY <1>2, <1>3, <1>4, <1>5, <1>6
        DEF HandleData, handleData, handleLoginMessage, handleAddFriendReq

LEMMA WorkersStep ==
  ASSUME TypeInv, AddressedInv, [Next]_vars
  PROVE  CheckedLoggedIn' /\ TargetLoggedIn'
<1>1. logins \subseteq logins'
  BY LoginsGrow
<1>2. ASSUME NEW w \in Worker, HandleData(w)
      PROVE  CheckedLoggedIn' /\ TargetLoggedIn'
  <2>1. \A v \in Worker \ {w} : worker'[v] = worker[v]
    BY <1>2, OtherWorkers
  <2>2. \A v \in Worker :
          /\ worker'[v].at \in {"friends", "applies", "cache", "addUser",
                             "loginReply"} =>
               LoggedIn(worker[v].client, worker[v].uid)'
          /\ worker'[v].at = "inform" => LoggedIn(worker[v].target, Msg(v).other)'
    <3> TAKE v \in Worker
    <3>1. CASE v = w
      BY <1>1, <1>2, <3>1, OwnStepLoggedIn
    <3>2. CASE v # w
      BY <1>1, <2>1, <3>2
      DEF AddressedInv, CheckedLoggedIn, TargetLoggedIn, LoggedIn, Msg
    <3> QED BY <3>1, <3>2
  <2> QED BY <2>2 DEF CheckedLoggedIn, TargetLoggedIn
<1>3. CASE UNCHANGED worker
  BY <1>1, <1>3
  DEF AddressedInv, CheckedLoggedIn, TargetLoggedIn, LoggedIn, Msg
<1>4. ASSUME NEW w \in Worker, worker'[w].at \in {"idle", "handle"},
             \A v \in Worker \ {w} : worker'[v] = worker[v]
      PROVE  CheckedLoggedIn' /\ TargetLoggedIn'
  BY <1>1, <1>4
  DEF AddressedInv, CheckedLoggedIn, TargetLoggedIn, LoggedIn, Msg
<1>5. ASSUME NEW w \in Worker, handleClientRearm(w)
      PROVE  CheckedLoggedIn' /\ TargetLoggedIn'
  <2>1. worker'[w].at = "idle" /\ \A v \in Worker \ {w} : worker'[v] = worker[v]
    BY <1>5, IdleType
    DEF handleClientRearm, TypeInv, TypeOK, DataHandleTypeOK
  <2> QED BY <1>4, <2>1
<1>6. ASSUME NEW w \in Worker, NEW c \in Client, NEW n, handleClientRead(w, c, n)
      PROVE  CheckedLoggedIn' /\ TargetLoggedIn'
  <2> PICK b \in castFromString(Head(stream[c]).body) :
        worker' = [worker EXCEPT ![w] =
          [Idle EXCEPT !.at = "handle", !.client = c,
                       !.packet = [Head(stream[c]) EXCEPT !.body = b]]]
    BY <1>6 DEF handleClientRead
  <2>1. [Idle EXCEPT !.at = "handle", !.client = c,
                     !.packet = [Head(stream[c]) EXCEPT !.body = b]].at = "handle"
    BY IdleType DEF Idle
  <2>2. worker'[w].at = "handle" /\ \A v \in Worker \ {w} : worker'[v] = worker[v]
    BY <2>1 DEF TypeInv, TypeOK, DataHandleTypeOK
  <2> QED BY <1>4, <2>2
<1> QED BY <1>2, <1>3, <1>5, <1>6
        DEF Next, vars, ClientSend, ClientHangUp, startAccpet, idleTimeout,
            ReadStep, handleClientClosed, WorkerStep, TaskStep, wathcIoRead,
            sendMessageToClient

\* What a handler queues is addressed to where its user logged in.
LEMMA HandlerAddressed ==
  ASSUME TypeInv, AddressedInv, NEW w \in Worker, HandleData(w),
         logins \subseteq logins', NEW t \in tasks' \ tasks
  PROVE  Addressed(t)
<1>1. worker \in [Worker -> Frame] /\ worker[w] \in Frame
  BY DEF TypeInv, TypeOK, DataHandleTypeOK
<1>2. CASE handleChatMessage(w)
  <2> DEFINE c == selectUser(Msg(w).other)
  <2>1. Msg(w).other \in Uid
    BY <1>1 DEF Msg, Frame, Packet, Body
  <2>2. CASE c # NoClient
    <3>1. LoggedIn(c, Msg(w).other)
      BY <2>1, <2>2 DEF AddressedInv, BoundLoggedIn, Registered, selectUser
    <3>2. t = Reply(w, "chat", c, Msg(w).other)
      BY <1>2, <2>2 DEF handleChatMessage, ChatCallbacks, scheduler
    <3> QED BY <3>1, <3>2 DEF Addressed, Reply, Callback
  <2>3. CASE c = NoClient
    <3>1. t = Reply(w, "echo", worker[w].client, Msg(w).other)
      BY <1>2, <2>3 DEF handleChatMessage, ChatCallbacks, scheduler
    <3> QED BY <3>1 DEF Addressed, Reply, Callback
  <2> QED BY <2>2, <2>3
<1>3. CASE handleRegMessage(w) \/ handleVerifyCode(w)
  <2>1. PICK kind \in {"regRes", "verifyRes", "error"} :
          t = Reply(w, kind, worker[w].client, ZeroUid)
    BY <1>3 DEF handleRegMessage, handleVerifyCode, scheduler
  <2> QED BY <2>1 DEF Addressed, Reply, Callback
<1>4. CASE loginReply(w)
  <2>1. LoggedIn(worker[w].client, worker[w].uid)
    BY <1>4 DEF loginReply, Handling, AddressedInv, CheckedLoggedIn
  <2> DEFINE res == Reply(w, "loginRes", worker[w].client, worker[w].uid)
             cache == Reply(w, "cache", worker[w].client, worker[w].uid)
  <2>2. \/ t = [res EXCEPT !.friends = worker[w].friends,
                          !.applies = worker[w].applies]
        \/ t = cache
    BY <1>4 DEF loginReply, scheduler
  <2>3. /\ res.to = worker[w].client /\ res.uid = worker[w].uid
        /\ cache.to = worker[w].client /\ cache.uid = worker[w].uid
    BY DEF Reply, Callback
  <2>4. res \in Task
    BY <1>4, WorkerType, ReplyType DEF loginReply, Handling, Busy, Kind
  <2> HIDE DEF res, cache
  <2>5. t.to = worker[w].client /\ t.uid = worker[w].uid
    BY <2>2, <2>3, <2>4 DEF Task
  <2> QED BY <2>1, <2>5 DEF Addressed
<1>5. CASE addFriendInform(w)
  <2>1. LoggedIn(worker[w].target, Msg(w).other)
    BY <1>5 DEF addFriendInform, Handling, AddressedInv, TargetLoggedIn
  <2>2. t = Reply(w, "inform", worker[w].target, Msg(w).other)
    BY <1>5 DEF addFriendInform, scheduler
  <2> QED BY <2>1, <2>2 DEF Addressed, Reply, Callback
<1> QED BY <1>2, <1>3, <1>4, <1>5
        DEF HandleData, handleData, ignorePacket, handleLoginMessage,
            loginSelect, loginFriends, loginApplies, loginCache, loginAddUser,
            handleAddFriendReq, addFriendInsert, addFriendSelect,
            handleDeleteFriend, handleFriendConfirm, rowsThrow

LEMMA TasksStep ==
  ASSUME TypeInv, AddressedInv, [Next]_vars
  PROVE  \A t \in tasks' \cup written' : Addressed(t)'
<1>1. logins \subseteq logins'
  BY LoginsGrow
<1>2. \A t : Addressed(t) => Addressed(t)'
  BY <1>1 DEF Addressed, LoggedIn
<1>3. \A t \in tasks \cup written : Addressed(t)
  BY DEF AddressedInv
<1>4. ASSUME NEW w \in Worker, HandleData(w)
      PROVE  \A t \in tasks' \cup written' : Addressed(t)'
  BY <1>1, <1>2, <1>3, <1>4, HandlerAddressed, HandlerFrame
<1>5. ASSUME NEW w \in Worker, handleClientRearm(w)
      PROVE  \A t \in tasks' \cup written' : Addressed(t)'
  <2>1. tasks' = tasks \cup {Reply(w, "rearm", worker[w].client, ZeroUid)}
        /\ written' = written
    BY <1>5 DEF handleClientRearm, scheduler
  <2>2. Addressed(Reply(w, "rearm", worker[w].client, ZeroUid))
    BY DEF Addressed, Reply, Callback
  <2> QED BY <1>2, <1>3, <2>1, <2>2
<1>6. CASE tasks' \cup written' \subseteq tasks \cup written
  BY <1>2, <1>3, <1>6
<1>7. CASE TaskStep
  <2>1. tasks' \cup written' \subseteq tasks \cup written
    BY <1>7 DEF TaskStep, wathcIoRead, sendMessageToClient
  <2> QED BY <1>6, <2>1
<1> QED BY <1>4, <1>5, <1>6, <1>7
        DEF Next, vars, ClientSend, ClientHangUp, startAccpet, idleTimeout,
            ReadStep, handleClientRead, handleClientClosed, WorkerStep

\* Nothing addressed to a user ever goes to a connection on which that user
\* did not log in, for any number of users, connections and workers.
THEOREM OnlyLoggedInReceive == Spec => []AddressedToLoggedIn
<1>1. AddressedInv /\ TypeInv /\ [Next]_vars => AddressedInv'
  BY BoundStep, WorkersStep, TasksStep DEF AddressedInv
<1>2. AddressedInv => AddressedToLoggedIn
  BY DEF AddressedInv, Addressed, LoggedIn, AddressedToLoggedIn
<1> QED BY <1>1, <1>2, InitType, NextType, InitAddressed, PTL DEF Spec

-----------------------------------------------------------------------------
(* The read token.  ReadToken speaks of accepted connections; inductively  *)
(* one must add that nobody holds the token of a connection not accepted   *)
(* yet, whose READ event startAccpet will create.                          *)

TokenInv ==
  /\ ReadToken
  /\ \A c \in Client : sock[c] = "new" =>
       /\ \A w \in Worker : ~Handles(w, c)
       /\ \A t \in Rearms : t.to # c

LEMMA InitToken == Init => TokenInv
BY IdleType
DEF Init, ZuesInit, DataHandleInit, TokenInv, ReadToken, Handles, Busy, Rearms,
    ifConnected

\* Within a handler that is not thrown out of, a worker keeps its connection,
\* and queues answers only.
LEMMA HandlerKeepsToken ==
  ASSUME TypeInv, NEW w \in Worker, HandleData(w), ~rowsThrow(w)
  PROVE  /\ \A v \in Worker, c \in Client : Handles(v, c)' <=> Handles(v, c)
         /\ Rearms' = Rearms /\ dropped' = dropped
<1>1. worker \in [Worker -> Frame] /\ worker[w] \in Frame
  BY DEF TypeInv, TypeOK, DataHandleTypeOK
<1>2. worker'[w].client = worker[w].client /\ Busy(w) /\ Busy(w)'
  <2>1. CASE handleLoginMessage(w)
    BY <1>1, <2>1
    DEF Frame, Busy, Handling, handleLoginMessage, loginSelect, loginFriends,
        loginApplies, loginCache, loginAddUser, loginReply, Goto
  <2>2. CASE handleAddFriendReq(w)
    BY <1>1, <2>2
    DEF Frame, Busy, Handling, handleAddFriendReq, addFriendInsert,
        addFriendSelect, addFriendInform, Goto
  <2>3. CASE \/ handleChatMessage(w) \/ handleRegMessage(w)
             \/ handleVerifyCode(w) \/ ignorePacket(w)
             \/ handleDeleteFriend(w) \/ handleFriendConfirm(w)
    BY <1>1, <2>3
    DEF Frame, Busy, Handling, handleChatMessage, handleRegMessage,
        handleVerifyCode, ignorePacket, handleDeleteFriend,
        handleFriendConfirm, Goto
  <2> QED BY <2>1, <2>2, <2>3 DEF HandleData, handleData
<1>3. \A v \in Worker, c \in Client : Handles(v, c)' <=> Handles(v, c)
  <2> TAKE v \in Worker, c \in Client
  <2>1. CASE v = w
    BY <1>2, <2>1 DEF Handles
  <2>2. CASE v # w
    BY <2>2, OtherWorkers DEF Handles, Busy
  <2> QED BY <2>1, <2>2
<1>4. tasks \subseteq tasks'
  BY DEF HandleData, handleData, handleChatMessage, handleRegMessage,
         handleVerifyCode, ignorePacket, handleLoginMessage, loginSelect,
         loginFriends, loginApplies, loginCache, loginAddUser, loginReply,
         handleAddFriendReq, addFriendInsert, addFriendSelect, addFriendInform,
         handleDeleteFriend, handleFriendConfirm, scheduler
<1>6. dropped' = dropped
  BY DEF HandleData, handleData, handleChatMessage, handleRegMessage,
         handleVerifyCode, ignorePacket, handleLoginMessage, loginSelect,
         loginFriends, loginApplies, loginCache, loginAddUser, loginReply,
         handleAddFriendReq, addFriendInsert, addFriendSelect, addFriendInform,
         handleDeleteFriend, handleFriendConfirm, stateVars
<1>5. ASSUME NEW t \in tasks' \ tasks PROVE t.kind # "rearm"
  <2>1. CASE handleChatMessage(w)
    <3>1. t \in ChatCallbacks(w)
      BY <1>5, <2>1 DEF handleChatMessage, scheduler
    <3> QED BY <3>1 DEF ChatCallbacks, Reply, Callback
  <2>2. CASE handleRegMessage(w) \/ handleVerifyCode(w)
    BY <1>5, <2>2
    DEF handleRegMessage, handleVerifyCode, scheduler, Reply, Callback
  <2>3. CASE loginReply(w)
    <3> DEFINE res == Reply(w, "loginRes", worker[w].client, worker[w].uid)
               cache == Reply(w, "cache", worker[w].client, worker[w].uid)
    <3>1. \/ t = [res EXCEPT !.friends = worker[w].friends,
                            !.applies = worker[w].applies]
          \/ t = cache
      BY <1>5, <2>3 DEF loginReply, scheduler
    <3>2. res.kind = "loginRes" /\ cache.kind = "cache"
      BY DEF Reply, Callback
    <3>3. res \in Task
      BY <1>2, WorkerType, ReplyType DEF Kind
    <3> HIDE DEF res, cache
    <3> QED BY <3>1, <3>2, <3>3 DEF Task
  <2>4. CASE addFriendInform(w)
    BY <1>5, <2>4 DEF addFriendInform, scheduler, Reply, Callback
  <2> QED BY <1>5, <2>1, <2>2, <2>3, <2>4
          DEF HandleData, handleData, ignorePacket, handleLoginMessage,
              loginSelect, loginFriends, loginApplies, loginCache, loginAddUser,
              handleAddFriendReq, addFriendInsert, addFriendSelect,
              handleDeleteFriend, handleFriendConfirm
<1> QED BY <1>3, <1>4, <1>5, <1>6 DEF Rearms

\* Steps after which the holders and the sockets are what they were.
LEMMA TokenFrame ==
  ASSUME TokenInv, UNCHANGED <<sock, armed, Rearms, dropped>>,
         \A v \in Worker, c \in Client : Handles(v, c)' <=> Handles(v, c),
         Rearms \subseteq Task, armed \subseteq Client
  PROVE  TokenInv'
BY DEF TokenInv, ReadToken, ifConnected, Task

LEMMA NextToken ==
  ASSUME TypeInv, TokenInv, [Next]_vars
  PROVE  TokenInv'
<1>1. Rearms \subseteq Task /\ armed \subseteq Client
      /\ sock \in [Client -> {"new", "open", "closed"}]
      /\ worker \in [Worker -> Frame]
  BY DEF TypeInv, TypeOK, ZuesTypeOK, DataHandleTypeOK, Rearms
<1>2. ASSUME NEW c \in Client, ClientSend(c) \/ ClientHangUp(c)
      PROVE  TokenInv'
  BY <1>1, <1>2, TokenFrame DEF ClientSend, ClientHangUp, Handles, Busy, Rearms
<1>3. ASSUME NEW c \in Client, startAccpet(c) PROVE TokenInv'
  BY <1>1, <1>3
  DEF startAccpet, TokenInv, ReadToken, Handles, Busy, Rearms, ifConnected, Task
<1>4. ASSUME NEW c \in Client, close(c), UNCHANGED <<tasks, worker, dropped>>
      PROVE  TokenInv'
  BY <1>1, <1>4
  DEF close, TokenInv, ReadToken, Handles, Busy, Rearms, ifConnected, Task
<1>5. ASSUME NEW c \in Client, idleTimeout(c) PROVE TokenInv'
  <2>1. CASE close(c)
    BY <1>4, <1>5, <2>1 DEF idleTimeout
  <2>2. CASE UNCHANGED <<sock, armed>>
    BY <1>1, <1>5, <2>2, TokenFrame DEF idleTimeout, Handles, Busy, Rearms
  <2> QED BY <1>5, <2>1, <2>2 DEF idleTimeout
<1>6. ASSUME NEW w \in Worker, NEW c \in Client, NEW n, handleClientRead(w, c, n)
      PROVE  TokenInv'
  <2> PICK b \in castFromString(Head(stream[c]).body) :
        worker' = [worker EXCEPT ![w] =
          [Idle EXCEPT !.at = "handle", !.client = c,
                       !.packet = [Head(stream[c]) EXCEPT !.body = b]]]
    BY <1>6 DEF handleClientRead
  <2> DEFINE f == [Idle EXCEPT !.at = "handle", !.client = c,
                               !.packet = [Head(stream[c]) EXCEPT !.body = b]]
  <2>1. f.at = "handle" /\ f.client = c
    BY DEF Idle
  <2>2. worker'[w] = f /\ \A v \in Worker \ {w} : worker'[v] = worker[v]
    BY <1>1
  <2> HIDE DEF f
  <2>3. \A v \in Worker, d \in Client :
          Handles(v, d)' <=> IF v = w THEN d = c ELSE Handles(v, d)
    BY <2>1, <2>2 DEF Handles, Busy
  <2>4. ~Busy(w) /\ c \in armed /\ armed' = armed \ {c} /\ Rearms' = Rearms
        /\ sock' = sock /\ dropped' = dropped
    BY <1>6 DEF handleClientRead, Rearms
  <2>5. \A d \in Client : ~Handles(w, d)
    BY <2>4 DEF Handles
  <2> QED BY <1>1, <2>3, <2>4, <2>5 DEF TokenInv, ReadToken, ifConnected, Task
<1>7. ASSUME NEW w \in Worker, NEW c \in Client, handleClientClosed(w, c)
      PROVE  TokenInv'
  BY <1>4, <1>7 DEF handleClientClosed
<1>8. ASSUME NEW w \in Worker, HandleData(w) PROVE TokenInv'
  <2>1. CASE ~rowsThrow(w)
    BY <1>1, <1>8, <2>1, HandlerKeepsToken, HandlerFrame, TokenFrame
  <2>2. CASE rowsThrow(w)
    <3>1. Rearms' = Rearms /\ sock' = sock /\ armed' = armed
          /\ dropped' = dropped \cup {worker[w].client}
      BY <2>2 DEF rowsThrow, ioVars, Rearms
    <3>2. \A v \in Worker, d \in Client :
            Handles(v, d)' <=> v # w /\ Handles(v, d)
      BY <1>1, <2>2, IdleType DEF rowsThrow, Handles, Busy
    <3>3. \A d \in Client : Handles(w, d) => d = worker[w].client
      BY DEF Handles
    <3> QED BY <1>1, <3>1, <3>2, <3>3
            DEF TokenInv, ReadToken, ifConnected, Task
  <2> QED BY <2>1, <2>2
<1>9. ASSUME NEW w \in Worker, handleClientRearm(w) PROVE TokenInv'
  <2> DEFINE c == worker[w].client
             t == Reply(w, "rearm", c, ZeroUid)
  <2>1. Busy(w) /\ c \in Client
    BY <1>9, WorkerType DEF handleClientRearm, Busy
  <2>2. t.kind = "rearm" /\ t.to = c
    BY DEF Reply, Callback
  <2>3. Rearms' = Rearms \cup {t} /\ sock' = sock /\ armed' = armed
        /\ dropped' = dropped
    BY <1>9, <2>2 DEF handleClientRearm, scheduler, Rearms
  <2>4. \A v \in Worker, d \in Client :
          Handles(v, d)' <=> v # w /\ Handles(v, d)
    BY <1>1, <1>9, IdleType DEF handleClientRearm, Handles, Busy
  <2>5. Handles(w, c) /\ \A d \in Client : Handles(w, d) => d = c
    BY <2>1 DEF Handles
  <2> HIDE DEF c, t
  <2> QED BY <1>1, <2>1, <2>2, <2>3, <2>4, <2>5
          DEF TokenInv, ReadToken, ifConnected, Task
<1>10. ASSUME NEW w \in Worker, NEW t \in tasks, wathcIoRead(w, t)
       PROVE  TokenInv'
  <2>1. t \in Rearms /\ Rearms' = Rearms \ {t} /\ sock' = sock
        /\ dropped' = dropped
    BY <1>10 DEF wathcIoRead, Rearms
  <2>2. armed' = IF ifConnected(t.to) THEN armed \cup {t.to} ELSE armed
    BY <1>10 DEF wathcIoRead, addEvent
  <2>3. \A v \in Worker, d \in Client : Handles(v, d)' <=> Handles(v, d)
    BY <1>10 DEF wathcIoRead, Handles, Busy
  <2> QED BY <1>1, <2>1, <2>2, <2>3 DEF TokenInv, ReadToken, ifConnected, Task
<1>11. ASSUME NEW w \in Worker, NEW t \in tasks, sendMessageToClient(w, t)
       PROVE  TokenInv'
  BY <1>1, <1>11, TokenFrame DEF sendMessageToClient, Handles, Busy, Rearms
<1>12. CASE UNCHANGED vars
  BY <1>1, <1>12, TokenFrame DEF vars, Handles, Busy, Rearms
<1>13. ASSUME NEW c \in Client, ReadStep(c) PROVE TokenInv'
  <2> PICK w \in Worker : \/ \E n \in 1..Len(stream[c]) : handleClientRead(w, c, n)
                         \/ handleClientClosed(w, c)
    BY <1>13 DEF ReadStep
  <2> QED BY <1>6, <1>7
<1>14. CASE TaskStep
  BY <1>10, <1>11, <1>14 DEF TaskStep
<1> QED BY <1>2, <1>3, <1>5, <1>7, <1>8, <1>9, <1>12, <1>13, <1>14
        DEF Next, WorkerStep

\* At most one READ event, worker or queued callback may read a connection,
\* and an open connection has one until an exception leaves its handler, for
\* any number of each.
THEOREM ReadTokenHeld == Spec => []ReadToken
<1>1. TokenInv => ReadToken
  BY DEF TokenInv
<1> QED BY <1>1, NextToken, InitToken, InitType, NextType, PTL DEF Spec
=============================================================================
