--------------------------- MODULE DataHandle_proofs ---------------------------
(***************************************************************************)
(* Proofs about what the handlers of MyTcpServer do for users, friends and *)
(* chats, for any number of users, connections, workers and packets and    *)
(* any stored table: a user whose login was answered has a socket, a       *)
(* friend who is listed was confirmed, the rows of the table implement     *)
(* FriendPairs, and each chat is settled once.                             *)
(***************************************************************************)
EXTENDS MyTcpServer_proofs

-----------------------------------------------------------------------------
(* What a step can do, seen from one worker, from the answers, the map and *)
(* the table.                                                              *)

\* A worker moves by a step of its own handler, or begins or ends one.
LEMMA WorkerMoves ==
  ASSUME TypeInv, [Next]_vars, NEW v \in Worker, worker'[v] # worker[v]
  PROVE  HandleData(v) \/ worker'[v].at \in {"idle", "handle"}
<1>1. worker \in [Worker -> Frame]
  BY DEF TypeInv, TypeOK, DataHandleTypeOK
<1>2. ASSUME NEW w \in Worker, HandleData(w) PROVE HandleData(v)
  BY <1>2, OtherWorkers
<1>3. ASSUME NEW w \in Worker, handleClientRearm(w) PROVE worker'[v].at = "idle"
  BY <1>1, <1>3, IdleType DEF handleClientRearm
<1>4. ASSUME NEW w \in Worker, NEW c \in Client, NEW n, handleClientRead(w, c, n)
      PROVE  worker'[v].at = "handle"
  <2> PICK b \in castFromString(Head(stream[c]).body) :
        worker' = [worker EXCEPT ![w] =
          [Idle EXCEPT !.at = "handle", !.client = c,
                       !.packet = [Head(stream[c]) EXCEPT !.body = b]]]
    BY <1>4 DEF handleClientRead
  <2>1. [Idle EXCEPT !.at = "handle", !.client = c,
                     !.packet = [Head(stream[c]) EXCEPT !.body = b]].at = "handle"
    BY DEF Idle
  <2> QED BY <1>1, <2>1
<1>5. ~UNCHANGED worker
  OBVIOUS
<1> QED BY <1>2, <1>3, <1>4, <1>5
        DEF Next, vars, ClientSend, ClientHangUp, startAccpet, idleTimeout,
            ReadStep, handleClientClosed, WorkerStep, TaskStep, wathcIoRead,
            sendMessageToClient

\* A login answer is queued by the last step of a login, with the user and
\* the friends the worker has then.
LEMMA NewAnswer ==
  ASSUME TypeInv, [Next]_vars, NEW t \in tasks' \cup written',
         t \notin tasks \cup written, t.kind = "loginRes"
  PROVE  \E w \in Worker : /\ loginReply(w)
                           /\ t.uid = worker[w].uid
                           /\ t.friends = worker[w].friends
<1>1. ASSUME NEW w \in Worker, loginReply(w), t \in tasks'
      PROVE  t.uid = worker[w].uid /\ t.friends = worker[w].friends
  <2> DEFINE res == Reply(w, "loginRes", worker[w].client, worker[w].uid)
             cache == Reply(w, "cache", worker[w].client, worker[w].uid)
  <2>1. t \in {[res EXCEPT !.friends = worker[w].friends,
                          !.applies = worker[w].applies], cache}
    BY <1>1 DEF loginReply, scheduler
  <2>2. cache.kind = "cache" /\ res.uid = worker[w].uid
    BY DEF Reply, Callback
  <2>3. res \in Task
    BY <1>1, WorkerType, ReplyType DEF loginReply, Handling, Busy, Kind
  <2> HIDE DEF res, cache
  <2> QED BY <2>1, <2>2, <2>3 DEF Task
<1>2. ASSUME NEW w \in Worker, HandleData(w), ~loginReply(w), t \in tasks'
      PROVE  FALSE
  <2>1. \A kind, c, id, u : Callback(kind, c, id, u).kind = kind
    BY DEF Callback
  <2>2. ASSUME handleChatMessage(w) PROVE FALSE
    BY <1>2, <2>1, <2>2 DEF handleChatMessage, scheduler, ChatCallbacks, Reply
  <2>3. ASSUME \/ handleRegMessage(w) \/ handleVerifyCode(w)
               \/ addFriendInform(w)
        PROVE  FALSE
    BY <1>2, <2>1, <2>3
    DEF handleRegMessage, handleVerifyCode, addFriendInform, scheduler, Reply
  <2>4. ASSUME \/ ignorePacket(w) \/ loginSelect(w) \/ loginFriends(w)
               \/ loginApplies(w) \/ loginCache(w) \/ loginAddUser(w)
               \/ addFriendInsert(w) \/ addFriendSelect(w) \/ rowsThrow(w)
               \/ handleDeleteFriend(w) \/ handleFriendConfirm(w)
        PROVE  FALSE
    BY <1>2, <2>4
    DEF ignorePacket, loginSelect, loginFriends, loginApplies, loginCache,
        loginAddUser, rowsThrow, addFriendInsert, addFriendSelect,
        handleDeleteFriend, handleFriendConfirm
  <2> QED BY <1>2, <2>2, <2>3, <2>4
          DEF HandleData, handleData, handleLoginMessage, handleAddFriendReq
<1>3. ASSUME NEW w \in Worker, handleClientRearm(w), t \in tasks' PROVE FALSE
  BY <1>3 DEF handleClientRearm, scheduler, Reply, Callback
<1>4. tasks' \cup written' \subseteq tasks \cup written
      \/ \E w \in Worker : /\ HandleData(w) \/ handleClientRearm(w)
                           /\ written' = written
  BY HandlerFrame
  DEF Next, vars, ClientSend, ClientHangUp, startAccpet, idleTimeout, ReadStep,
      handleClientRead, handleClientClosed, WorkerStep, handleClientRearm,
      TaskStep, wathcIoRead, sendMessageToClient
<1> QED BY <1>1, <1>2, <1>3, <1>4

\* A user who has an entry keeps it.
LEMMA RegisteredStays ==
  ASSUME TypeInv, [Next]_vars, NEW uid \in Uid, Registered(uid)
  PROVE  Registered(uid)'
<1>1. ASSUME NEW w \in Worker, loginAddUser(w) PROVE Registered(uid)'
  BY <1>1 DEF loginAddUser, addUser, Registered, TypeInv, TypeOK,
              ConnectInfoTypeOK
<1> QED BY <1>1, BindingFrame DEF Registered, selectUser

-----------------------------------------------------------------------------
(* The null pointer of handleAddFriendReq.  By the time a login is         *)
(* answered its user has an entry, and entries stay.                       *)

Answered(t) == t.kind = "loginRes" => Registered(t.uid)

SafeInv ==
  /\ \A t \in tasks \cup written : Answered(t)
  /\ \A w \in Worker :
       worker[w].at = "loginReply" => Registered(worker[w].uid)
  /\ crashed => \E w \in Worker : /\ Handling(w, "addFriend", "selectUser")
                                  /\ ~Registered(Msg(w).other)

LEMMA InitSafe == Init => SafeInv
BY IdleType DEF Init, ZuesInit, DataHandleInit, SafeInv

LEMMA NextSafe ==
  ASSUME TypeInv, SafeInv, [Next]_vars
  PROVE  SafeInv'
<1>1. \A t \in tasks \cup written : t.uid \in Uid
  BY DEF TypeInv, TypeOK, ZuesTypeOK, Task
<1>2. worker \in [Worker -> Frame] /\ \A w \in Worker : worker[w].uid \in Uid
  BY DEF TypeInv, TypeOK, DataHandleTypeOK, Frame
<1>3. ASSUME NEW t \in tasks' \cup written' PROVE Answered(t)'
  <2>1. CASE t \in tasks \cup written
    BY <1>1, <2>1, RegisteredStays DEF SafeInv, Answered
  <2>2. CASE t \notin tasks \cup written
    <3> SUFFICES ASSUME t.kind = "loginRes" PROVE Registered(t.uid)'
      BY DEF Answered
    <3> PICK w \in Worker : loginReply(w) /\ t.uid = worker[w].uid
      BY <2>2, NewAnswer
    <3>1. Registered(worker[w].uid)
      BY DEF loginReply, Handling, SafeInv
    <3> QED BY <1>2, <3>1, RegisteredStays
  <2> QED BY <2>1, <2>2
<1>4. ASSUME NEW w \in Worker, worker'[w].at = "loginReply"
      PROVE  Registered(worker[w].uid)' /\ worker'[w].uid = worker[w].uid
  <2>1. CASE worker'[w] = worker[w]
    BY <1>2, <1>4, <2>1, RegisteredStays DEF SafeInv
  <2>2. CASE worker'[w] # worker[w]
    <3>1. HandleData(w)
      BY <1>4, <2>2, WorkerMoves
    <3>2. loginAddUser(w)
      <4>1. CASE \/ handleChatMessage(w) \/ handleRegMessage(w)
                \/ handleVerifyCode(w) \/ ignorePacket(w)
                \/ handleDeleteFriend(w) \/ handleFriendConfirm(w)
        BY <1>2, <1>4, <4>1
        DEF handleChatMessage, handleRegMessage, handleVerifyCode, ignorePacket,
            handleDeleteFriend, handleFriendConfirm, Goto, Frame
      <4>2. CASE handleAddFriendReq(w)
        BY <1>2, <1>4, <2>2, <4>2
        DEF handleAddFriendReq, addFriendInsert, addFriendSelect,
            addFriendInform, Goto, Frame
      <4>3. CASE \/ loginSelect(w) \/ loginFriends(w) \/ loginApplies(w)
                \/ loginCache(w) \/ loginReply(w)
        BY <1>2, <1>4, <4>3
        DEF loginSelect, loginFriends, loginApplies, loginCache, loginReply,
            Goto, Frame
      <4>4. CASE rowsThrow(w)
        BY <1>2, <1>4, <4>4, IdleType DEF rowsThrow
      <4> QED BY <3>1, <4>1, <4>2, <4>3, <4>4
              DEF HandleData, handleData, handleLoginMessage
    <3>3. worker[w].client \in Client /\ worker'[w].uid = worker[w].uid
      BY <1>2, <3>2, WorkerType DEF loginAddUser, Handling, Busy, Goto, Frame
    <3>4. m_connect_info \in [Uid -> UserConnectInfo]
      BY DEF TypeInv, TypeOK, ConnectInfoTypeOK
    <3> QED BY <1>2, <3>2, <3>3, <3>4, NoClientAssumption
            DEF loginAddUser, addUser, Registered
  <2> QED BY <2>1, <2>2
<1>5. ASSUME crashed'
      PROVE  \E w \in Worker : /\ Handling(w, "addFriend", "selectUser")'
                               /\ ~Registered(Msg(w).other)'
  <2>1. CASE crashed
    BY <2>1 DEF Next, vars, SafeInv, Handling, Registered, Msg
  <2>2. ASSUME NEW w \in Worker, HandleData(w), ~crashed
        PROVE  /\ Handling(w, "addFriend", "selectUser")'
               /\ ~Registered(Msg(w).other)'
    <3>1. addFriendSelect(w) /\ selectUser(Msg(w).other) = NoClient
      BY <1>5, <2>2
      DEF HandleData, handleData, handleChatMessage, handleRegMessage,
          handleVerifyCode, ignorePacket, rowsThrow, handleLoginMessage,
          loginSelect, loginFriends, loginApplies, loginCache, loginAddUser,
          loginReply,
          handleAddFriendReq, addFriendInsert, addFriendSelect,
          addFriendInform, handleDeleteFriend, handleFriendConfirm, stateVars
    <3> QED BY <3>1
            DEF addFriendSelect, Handling, Registered, Msg, selectUser
  <2>3. ~crashed => \E w \in Worker : HandleData(w)
    BY <1>5
    DEF Next, vars, ClientSend, ClientHangUp, startAccpet, idleTimeout,
        ReadStep, handleClientRead, handleClientClosed, WorkerStep,
        handleClientRearm, TaskStep, wathcIoRead, sendMessageToClient
  <2> QED BY <2>1, <2>2, <2>3
<1>6. \A w \in Worker :
        worker'[w].at = "loginReply" => Registered(worker[w].uid)'
  BY <1>4
<1> QED BY <1>3, <1>4, <1>5 DEF SafeInv, Registered

\* A friend request meets the null pointer only for users whose login was
\* never answered, for any number of users and connections.
THEOREM UserStaysSafe == Spec => []AnsweredUserIsSafe
<1>1. SafeInv => AnsweredUserIsSafe
  BY DEF SafeInv, Answered, AnsweredUserIsSafe
<1> QED BY <1>1, InitSafe, NextSafe, InitType, NextType, PTL DEF Spec

-----------------------------------------------------------------------------
(* The table.  A step leaves it alone or is one statement on one pair.     *)

LEMMA TableStep ==
  ASSUME TypeInv, [Next]_vars
  PROVE  \/ UNCHANGED dbVars
         \/ \E a, b \in Uid : \/ \E id \in Nat : insert(id, a, b)
                              \/ removeFriendship(a, b)
                              \/ changeFriendShipStatus(a, b, "accepted")
<1>1. ASSUME NEW w \in Worker, addFriendInsert(w)
      PROVE  UNCHANGED dbVars \/ insert(worker[w].packet.id, Msg(w).own, Msg(w).other)
  BY <1>1 DEF addFriendInsert
<1>2. ASSUME NEW w \in Worker, handleDeleteFriend(w) \/ handleFriendConfirm(w)
      PROVE  \/ UNCHANGED dbVars
             \/ removeFriendship(Msg(w).other, Msg(w).own)
             \/ changeFriendShipStatus(Msg(w).other, Msg(w).own, "accepted")
  BY <1>2 DEF handleDeleteFriend, handleFriendConfirm
<1>3. ASSUME NEW w \in Worker,
             addFriendInsert(w) \/ handleDeleteFriend(w) \/ handleFriendConfirm(w)
      PROVE  Msg(w).own \in Uid /\ Msg(w).other \in Uid /\ worker[w].packet.id \in Nat
  BY <1>3, WorkerType
  DEF addFriendInsert, handleDeleteFriend, handleFriendConfirm, Handling, Busy
<1>4. \/ UNCHANGED dbVars
      \/ \E w \in Worker :
           addFriendInsert(w) \/ handleDeleteFriend(w) \/ handleFriendConfirm(w)
  BY ZenonT(40), SMTT(30) DEF Next, vars, dbVars, ClientSend, ClientHangUp, startAccpet, idleTimeout,
         ReadStep, handleClientRead, handleClientClosed, WorkerStep,
         handleClientRearm, TaskStep, wathcIoRead, sendMessageToClient,
         HandleData, handleData, handleChatMessage, handleRegMessage,
         handleVerifyCode, ignorePacket, rowsThrow, handleLoginMessage,
         loginSelect, loginFriends, loginApplies, loginCache, loginAddUser,
         loginReply, handleAddFriendReq, addFriendSelect, addFriendInform, stateVars
<1> QED BY <1>1, <1>2, <1>3, <1>4

LEMMA RowType ==
  ASSUME TypeInv
  PROVE  /\ friendships \subseteq Row
         /\ \A r \in friendships : /\ r.user_id1 \in Uid /\ r.user_id2 \in Uid
                                   /\ r.status \in {"pending", "accepted"}
BY DEF TypeInv, TypeOK, FriendShipsTypeOK, Row

PairOf(r) == {r.user_id1, r.user_id2}

\* The rows a confirmation has hit are of the pair and accepted.
LEMMA UpdatedFacts ==
  ASSUME TypeInv, NEW a \in Uid, NEW b \in Uid,
         NEW hit, hit = {r \in friendships : OfPair(r, a, b)},
         NEW q \in Updated(hit, a, b, "accepted")
  PROVE  \/ q \in friendships /\ PairOf(q) # {a, b}
         \/ hit # {} /\ PairOf(q) = {a, b} /\ q.status = "accepted"
<1>1. \A r \in friendships : OfPair(r, a, b) <=> PairOf(r) = {a, b}
  BY DEF OfPair, PairOf
<1>2. CASE q \in friendships \ hit
  BY <1>1, <1>2
<1>3. CASE q \notin friendships \ hit
  <2> PICK r \in hit : q = [r EXCEPT !.user_id1 = a, !.user_id2 = b,
                                     !.status = "accepted"]
    BY <1>3 DEF Updated
  <2>1. r \in Row
    BY RowType
  <2> QED BY <2>1 DEF Row, PairOf
<1> QED BY <1>2, <1>3

-----------------------------------------------------------------------------
(* Friends in a login answer.  The history of confirmed pairs only grows,  *)
(* and a row is accepted only with its pair in it; the lists a worker      *)
(* carries from the query to the answer are then covered too.              *)

Confirmed(uid, friends) ==
  \A e \in friends : e.named => {uid, e.uid} \in confirmed

Listed(t) == t.kind = "loginRes" => Confirmed(t.uid, t.friends)

ListInv ==
  /\ \A r \in friendships : r.status = "accepted" => PairOf(r) \in confirmed
  /\ \A w \in Worker :
       worker[w].at \in {"applies", "cache", "addUser", "loginReply"} =>
         Confirmed(worker[w].uid, worker[w].friends)
  /\ \A t \in tasks \cup written : Listed(t)

LEMMA InitList == Init => ListInv
BY IdleType DEF Init, ZuesInit, DataHandleInit, FriendShipsInit, ListInv, PairOf

LEMMA RowsConfirmed ==
  ASSUME TypeInv, ListInv, [Next]_vars
  PROVE  /\ confirmed \subseteq confirmed'
         /\ \A r \in friendships' : r.status = "accepted" => PairOf(r) \in confirmed'
<1>1. \A r \in friendships : r.status = "accepted" => PairOf(r) \in confirmed
  BY DEF ListInv
<1>2. CASE UNCHANGED dbVars
  BY <1>1, <1>2 DEF dbVars
<1>3. ASSUME NEW a \in Uid, NEW b \in Uid, NEW id \in Nat, insert(id, a, b)
      PROVE  /\ confirmed \subseteq confirmed'
             /\ \A r \in friendships' :
                  r.status = "accepted" => PairOf(r) \in confirmed'
  BY <1>1, <1>3 DEF insert
<1>4. ASSUME NEW a \in Uid, NEW b \in Uid, removeFriendship(a, b)
      PROVE  /\ confirmed \subseteq confirmed'
             /\ \A r \in friendships' :
                  r.status = "accepted" => PairOf(r) \in confirmed'
  BY <1>1, <1>4 DEF removeFriendship
<1>5. ASSUME NEW a \in Uid, NEW b \in Uid,
             changeFriendShipStatus(a, b, "accepted")
      PROVE  /\ confirmed \subseteq confirmed'
             /\ \A r \in friendships' :
                  r.status = "accepted" => PairOf(r) \in confirmed'
  <2> DEFINE hit == {r \in friendships : OfPair(r, a, b)}
  <2>1. /\ friendships' = Updated(hit, a, b, "accepted")
        /\ confirmed' = IF hit = {} THEN confirmed ELSE confirmed \cup {{a, b}}
    BY <1>5 DEF changeFriendShipStatus
  <2> QED BY <1>1, <2>1, UpdatedFacts
<1> QED BY <1>2, <1>3, <1>4, <1>5, TableStep

\* The entries with a name are of the users whose ids the query found.
LEMMA NamedWereFound ==
  ASSUME NEW ids, NEW list \in Lists(ids) \cup {{}}, NEW e \in list, e.named
  PROVE  e.uid \in {ids[r] : r \in DOMAIN ids}
<1>1. PICK entry \in [DOMAIN ids -> PublicInfo] :
        /\ \A r \in DOMAIN ids : entry[r] \in selectInfoDueId(ids[r])
        /\ list = {entry[r] : r \in DOMAIN ids}
  BY DEF Lists
<1>2. PICK r \in DOMAIN ids : e = entry[r] /\ e \in selectInfoDueId(ids[r])
  BY <1>1
<1>3. e.uid = ids[r]
  BY <1>2 DEF selectInfoDueId
<1> QED BY <1>2, <1>3

LEMMA NextList ==
  ASSUME TypeInv, ListInv, [Next]_vars
  PROVE  ListInv'
<1>1. worker \in [Worker -> Frame]
  BY DEF TypeInv, TypeOK, DataHandleTypeOK
<1>2. \A uid, friends : Confirmed(uid, friends) => Confirmed(uid, friends)'
  BY RowsConfirmed DEF Confirmed
<1>3. ASSUME NEW t \in tasks' \cup written' PROVE Listed(t)'
  <2>1. CASE t \in tasks \cup written
    BY <1>2, <2>1 DEF ListInv, Listed
  <2>2. CASE t \notin tasks \cup written
    <3> SUFFICES ASSUME t.kind = "loginRes" PROVE Confirmed(t.uid, t.friends)'
      BY DEF Listed
    <3> PICK w \in Worker : /\ loginReply(w)
                            /\ t.uid = worker[w].uid
                            /\ t.friends = worker[w].friends
      BY <2>2, NewAnswer
    <3>1. Confirmed(worker[w].uid, worker[w].friends)
      BY DEF loginReply, Handling, ListInv
    <3> QED BY <1>2, <3>1
  <2> QED BY <2>1, <2>2
<1>4. ASSUME NEW w \in Worker,
             worker'[w].at \in {"applies", "cache", "addUser", "loginReply"}
      PROVE  Confirmed(worker[w].uid, worker[w].friends)'
  <2>1. CASE worker'[w] = worker[w]
    <3>1. Confirmed(worker[w].uid, worker[w].friends)
      BY <1>4, <2>1 DEF ListInv
    <3> QED BY <1>2, <2>1, <3>1 DEF Confirmed
  <2>2. CASE loginApplies(w) \/ loginCache(w) \/ loginAddUser(w)
    <3>1. Confirmed(worker[w].uid, worker[w].friends)
      BY <2>2 DEF loginApplies, loginCache, loginAddUser, Handling, ListInv
    <3>2. worker'[w].uid = worker[w].uid /\ worker'[w].friends = worker[w].friends
      BY <1>1, <2>2 DEF loginApplies, loginCache, loginAddUser, Goto, Frame
    <3> QED BY <1>2, <3>1, <3>2 DEF Confirmed
  <2>3. CASE loginFriends(w)
    <3>1. PICK list \in Lists(selectAllFriendShip(worker[w].uid)) \cup {{}} :
            worker' = [worker EXCEPT ![w].at = "applies", ![w].friends = list]
      BY <2>3 DEF loginFriends
    <3>2. worker'[w].uid = worker[w].uid /\ worker'[w].friends = list
      BY <1>1, <3>1 DEF Frame
    <3>3. Confirmed(worker[w].uid, list)
      <4> SUFFICES ASSUME NEW e \in list, e.named
                   PROVE  {worker[w].uid, e.uid} \in confirmed
        BY DEF Confirmed
      <4>1. e.uid \in {selectAllFriendShip(worker[w].uid)[r] :
                         r \in DOMAIN selectAllFriendShip(worker[w].uid)}
        BY NamedWereFound
      <4> QED BY <4>1 DEF selectAllFriendShip, ListInv, PairOf
    <3> QED BY <1>2, <3>2, <3>3 DEF Confirmed
  <2>4. CASE worker'[w] # worker[w]
    <3>1. HandleData(w)
      BY <1>4, <2>4, WorkerMoves
    <3>2. \/ loginFriends(w) \/ loginApplies(w) \/ loginCache(w)
          \/ loginAddUser(w)
      <4>1. CASE \/ handleChatMessage(w) \/ handleRegMessage(w)
                \/ handleVerifyCode(w) \/ ignorePacket(w)
                \/ handleDeleteFriend(w) \/ handleFriendConfirm(w)
        BY <1>1, <1>4, <4>1
        DEF handleChatMessage, handleRegMessage, handleVerifyCode, ignorePacket,
            handleDeleteFriend, handleFriendConfirm, Goto, Frame
      <4>2. CASE handleAddFriendReq(w)
        BY <1>1, <1>4, <2>4, <4>2
        DEF handleAddFriendReq, addFriendInsert, addFriendSelect,
            addFriendInform, Goto, Frame
      <4>3. CASE loginSelect(w) \/ loginReply(w)
        BY <1>1, <1>4, <4>3 DEF loginSelect, loginReply, Goto, Frame
      <4>4. CASE rowsThrow(w)
        BY <1>1, <1>4, <4>4, IdleType DEF rowsThrow
      <4> QED BY <3>1, <4>1, <4>2, <4>3, <4>4
              DEF HandleData, handleData, handleLoginMessage
    <3> QED BY <2>2, <2>3, <3>2
  <2> QED BY <2>1, <2>4
<1> QED BY <1>3, <1>4, RowsConfirmed DEF ListInv, PairOf

\* A user named among the friends in a login answer was made one by a
\* confirmation, whatever requests, deletions, failed queries and failed
\* lookups come in between: the entries a failed lookup leaves have no name.
THEOREM ListedAreConfirmed == Spec => []ListedFriendsConfirmed
<1>1. ListInv => ListedFriendsConfirmed
  BY DEF ListInv, Listed, Confirmed, ListedFriendsConfirmed
<1> QED BY <1>1, InitList, NextList, InitType, NextType, PTL DEF Spec

-----------------------------------------------------------------------------
(* The rows as the statuses of pairs.                                      *)

StatusOf(p) == {r.status : r \in {s \in friendships : PairOf(s) = p}}

LEMMA StatusView ==
  PairStatus = [p \in Pairs!Pair |-> StatusOf(p)]
  /\ PairStatus' = [p \in Pairs!Pair |-> StatusOf(p)']
BY DEF PairStatus, Pairs!Pair, StatusOf, PairOf

LEMMA PairsStep ==
  TypeInv /\ [Next]_vars => [Pairs!PairsNext]_PairStatus
<1> SUFFICES ASSUME TypeInv, [Next]_vars
             PROVE  Pairs!PairsNext \/ UNCHANGED PairStatus
  OBVIOUS
<1>1. CASE UNCHANGED friendships
  BY <1>1 DEF PairStatus
<1>2. ASSUME NEW a \in Uid, NEW b \in Uid, NEW id \in Nat, insert(id, a, b)
      PROVE  Pairs!PairsNext
  <2> DEFINE new == [id |-> id, user_id1 |-> a, user_id2 |-> b,
                     status |-> "pending"]
  <2>1. friendships' = friendships \cup {new} /\ PairOf(new) = {a, b}
        /\ new.status = "pending"
    BY <1>2 DEF insert, PairOf
  <2> HIDE DEF new
  <2>2. StatusOf({a, b})' = StatusOf({a, b}) \cup {"pending"}
    BY <2>1 DEF StatusOf, PairOf
  <2>3. \A p \in Pairs!Pair \ {{a, b}} : StatusOf(p)' = StatusOf(p)
    BY <2>1 DEF StatusOf, PairOf
  <2>4. {a, b} \in Pairs!Pair
    BY DEF Pairs!Pair
  <2>5. Pairs!Request({a, b})
    BY <2>2, <2>3, <2>4, StatusView DEF Pairs!Request
  <2> QED BY <2>4, <2>5 DEF Pairs!PairsNext
<1>3. ASSUME NEW a \in Uid, NEW b \in Uid, removeFriendship(a, b)
      PROVE  Pairs!PairsNext
  <2>1. friendships' = {r \in friendships : PairOf(r) # {a, b}}
    BY <1>3 DEF removeFriendship, OfPair, PairOf
  <2>2. StatusOf({a, b})' = {}
    BY <2>1 DEF StatusOf, PairOf
  <2>3. \A p \in Pairs!Pair \ {{a, b}} : StatusOf(p)' = StatusOf(p)
    BY <2>1 DEF StatusOf, PairOf
  <2>4. {a, b} \in Pairs!Pair
    BY DEF Pairs!Pair
  <2>5. Pairs!Drop({a, b})
    BY <2>2, <2>3, <2>4, StatusView DEF Pairs!Drop
  <2> QED BY <2>4, <2>5 DEF Pairs!PairsNext
<1>4. ASSUME NEW a \in Uid, NEW b \in Uid,
             changeFriendShipStatus(a, b, "accepted")
      PROVE  Pairs!PairsNext \/ UNCHANGED PairStatus
  <2> DEFINE hit == {r \in friendships : OfPair(r, a, b)}
  <2>1. friendships' = Updated(hit, a, b, "accepted")
    BY <1>4 DEF changeFriendShipStatus
  <2>2. hit = {r \in friendships : PairOf(r) = {a, b}}
    BY DEF OfPair, PairOf
  <2>3. CASE hit = {}
    BY <1>1, <2>1, <2>3 DEF Updated
  <2>4. CASE hit # {}
    <3>1. \A q \in friendships' :
            \/ q \in friendships /\ PairOf(q) # {a, b}
            \/ PairOf(q) = {a, b} /\ q.status = "accepted"
      BY <2>1, UpdatedFacts
    <3>2. \A r \in friendships : PairOf(r) # {a, b} => r \in friendships'
      BY <2>1, <2>2 DEF Updated
    <3>3. \E q \in friendships' : PairOf(q) = {a, b}
      <4> PICK r \in hit : TRUE
        BY <2>4
      <4> DEFINE q == [r EXCEPT !.user_id1 = a, !.user_id2 = b,
                                !.status = "accepted"]
      <4>1. q \in friendships'
        BY <2>1 DEF Updated
      <4>2. PairOf(q) = {a, b}
        BY RowType DEF Row, PairOf
      <4> QED BY <4>1, <4>2
    <3>4. StatusOf({a, b})' = {"accepted"}
      BY <3>1, <3>3 DEF StatusOf, PairOf
    <3>5. \A p \in Pairs!Pair \ {{a, b}} : StatusOf(p)' = StatusOf(p)
      BY <3>1, <3>2 DEF StatusOf, PairOf
    <3>6. {a, b} \in Pairs!Pair /\ StatusOf({a, b}) # {}
      BY <2>2, <2>4 DEF Pairs!Pair, StatusOf
    <3>7. Pairs!Accept({a, b})
      BY <3>4, <3>5, <3>6, StatusView DEF Pairs!Accept
    <3> QED BY <3>6, <3>7 DEF Pairs!PairsNext
  <2> QED BY <2>3, <2>4
<1> QED BY <1>1, <1>2, <1>3, <1>4, TableStep DEF dbVars

\* The rows of the table, in whatever order and number statements make them,
\* implement the statuses of FriendPairs.
THEOREM ImplementsFriendPairs == Spec => FriendPairsSpec
<1>1. TypeInv => Pairs!PairsTypeOK
  <2> SUFFICES ASSUME TypeInv PROVE Pairs!PairsTypeOK
    OBVIOUS
  <2>1. \A p \in Pairs!Pair : StatusOf(p) \in SUBSET {"pending", "accepted"}
    BY RowType DEF StatusOf
  <2> QED BY <2>1, StatusView DEF Pairs!PairsTypeOK, Pairs!Status
<1>2. Init => Pairs!PairsInit
  BY <1>1, InitType DEF Pairs!PairsInit
<1> QED BY <1>2, PairsStep, InitType, NextType, PTL
        DEF Spec, FriendPairsSpec, Pairs!PairsSpec

-----------------------------------------------------------------------------
(* A packet is in one place.  It is unread, or with one worker, or handled;*)
(* it has an answer of a chat only once its handler is through.            *)

Unread(c) == DOMAIN stream[c]

StreamsDistinct ==
  /\ \A c \in Client : \A i \in Unread(c) : stream[c][i].id \in 1..sent
  /\ \A c, d \in Client : \A i \in Unread(c), j \in Unread(d) :
       stream[c][i].id = stream[d][j].id => c = d /\ i = j

HeldApart ==
  \A w \in Worker : Busy(w) =>
    /\ worker[w].packet.id \in 1..sent
    /\ \A c \in Client : \A i \in Unread(c) :
         stream[c][i].id # worker[w].packet.id
    /\ \A v \in Worker :
         Busy(v) /\ worker[v].packet.id = worker[w].packet.id => v = w

Chats(set) == {t \in set : t.kind \in {"chat", "echo"}}

\* What is true of the id of a chat that has been settled.
Through(id) ==
  /\ id \in 1..sent
  /\ \A c \in Client : \A i \in Unread(c) : stream[c][i].id # id
  /\ \A w \in Worker :
       Busy(w) /\ worker[w].packet.id = id => worker[w].at = "rearm"

SettledInv ==
  /\ StreamsDistinct /\ HeldApart
  /\ \A t \in Chats(tasks \cup written) : Through(t.id)
  /\ ChatSettledOnce

LEMMA Types ==
  ASSUME TypeInv
  PROVE  /\ stream \in [Client -> Seq(Packet)] /\ sent \in Nat
         /\ worker \in [Worker -> Frame]
BY DEF TypeInv, TypeOK, DataHandleTypeOK

LEMMA InitSettled == Init => SettledInv
BY IdleType
DEF Init, ZuesInit, DataHandleInit, SettledInv, StreamsDistinct, HeldApart,
    Unread, Busy, Chats, ChatSettledOnce

\* A handler works on one packet, and ends before the READ event comes back.
LEMMA HandlerPacket ==
  ASSUME TypeInv, NEW w \in Worker, HandleData(w), ~rowsThrow(w)
  PROVE  /\ worker'[w].packet = worker[w].packet
         /\ Busy(w) /\ worker[w].at # "rearm"
<1>1. worker \in [Worker -> Frame]
  BY Types
<1>2. CASE handleLoginMessage(w)
  BY <1>1, <1>2
  DEF Frame, Busy, Handling, handleLoginMessage, loginSelect, loginFriends,
      loginApplies, loginCache, loginAddUser, loginReply, Goto
<1>3. CASE handleAddFriendReq(w)
  BY <1>1, <1>3
  DEF Frame, Busy, Handling, handleAddFriendReq, addFriendInsert,
      addFriendSelect, addFriendInform, Goto
<1>4. CASE \/ handleChatMessage(w) \/ handleRegMessage(w)
           \/ handleVerifyCode(w) \/ ignorePacket(w)
           \/ handleDeleteFriend(w) \/ handleFriendConfirm(w)
  BY <1>1, <1>4
  DEF Frame, Busy, Handling, handleChatMessage, handleRegMessage,
      handleVerifyCode, ignorePacket, handleDeleteFriend, handleFriendConfirm,
      Goto
<1> QED BY <1>2, <1>3, <1>4 DEF HandleData, handleData

\* Only the handler of chats queues one, and it queues one.
LEMMA HandlerChats ==
  ASSUME TypeInv, NEW w \in Worker, HandleData(w), ~rowsThrow(w)
  PROVE  \/ Chats(tasks') = Chats(tasks)
         \/ \E t : /\ Chats(tasks') = Chats(tasks) \cup {t}
                   /\ t.id = worker[w].packet.id
                   /\ worker'[w].at = "rearm"
<1>1. \A kind, c, id, u : /\ Callback(kind, c, id, u).kind = kind
                          /\ Callback(kind, c, id, u).id = id
  BY DEF Callback
<1>2. CASE handleChatMessage(w)
  <2>1. PICK kind \in {"chat", "echo"}, c \in MaybeClient :
          ChatCallbacks(w) = {Reply(w, kind, c, Msg(w).other)}
    <3>1. worker[w].client \in MaybeClient
      BY Types DEF Frame
    <3>2. Msg(w).other \in Uid /\ m_connect_info \in [Uid -> UserConnectInfo]
      BY <1>2, WorkerType
      DEF handleChatMessage, Handling, Busy, TypeInv, TypeOK, ConnectInfoTypeOK
    <3>3. selectUser(Msg(w).other) \in MaybeClient
      BY <3>2 DEF selectUser, UserConnectInfo
    <3> QED BY <3>1, <3>3 DEF ChatCallbacks
  <2> DEFINE t == Reply(w, kind, c, Msg(w).other)
  <2>2. tasks' = tasks \cup {t}
    BY <1>2, <2>1 DEF handleChatMessage, scheduler
  <2>3. t.kind = kind /\ t.id = worker[w].packet.id
    BY <1>1 DEF Reply
  <2>4. worker'[w].at = "rearm"
    BY <1>2, Types DEF handleChatMessage, Goto, Frame
  <2> HIDE DEF t
  <2> QED BY <2>2, <2>3, <2>4 DEF Chats
<1>3. CASE handleRegMessage(w) \/ handleVerifyCode(w) \/ addFriendInform(w)
  <2>1. \A t \in tasks' \ tasks : t.kind \notin {"chat", "echo"}
    BY <1>1, <1>3 DEF handleRegMessage, handleVerifyCode, addFriendInform,
                      scheduler, Reply
  <2>2. tasks \subseteq tasks'
    BY <1>3 DEF handleRegMessage, handleVerifyCode, addFriendInform, scheduler
  <2> QED BY <2>1, <2>2 DEF Chats
<1>4. CASE loginReply(w)
  <2> DEFINE res == Reply(w, "loginRes", worker[w].client, worker[w].uid)
             cache == Reply(w, "cache", worker[w].client, worker[w].uid)
             all == [res EXCEPT !.friends = worker[w].friends,
                                !.applies = worker[w].applies]
  <2>1. tasks' = tasks \cup {all, cache}
    BY <1>4 DEF loginReply, scheduler
  <2>2. cache.kind = "cache" /\ res.kind = "loginRes"
    BY <1>1 DEF Reply
  <2>3. res \in Task
    BY <1>4, WorkerType, ReplyType DEF loginReply, Handling, Busy, Kind
  <2> HIDE DEF res, cache
  <2>4. all.kind = "loginRes"
    BY <2>2, <2>3 DEF Task
  <2> HIDE DEF all
  <2> QED BY <2>1, <2>2, <2>4 DEF Chats
<1>5. CASE UNCHANGED tasks
  BY <1>5
<1> QED BY <1>2, <1>3, <1>4, <1>5
        DEF HandleData, handleData, ignorePacket, handleLoginMessage,
            loginSelect, loginFriends, loginApplies, loginCache, loginAddUser,
            handleAddFriendReq, addFriendInsert, addFriendSelect,
            handleDeleteFriend, handleFriendConfirm

-----------------------------------------------------------------------------
\* Where packets and callbacks are, when neither is touched but to write one.
LEMMA QuietSettled ==
  ASSUME SettledInv, UNCHANGED <<stream, worker, sent>>,
         tasks' \subseteq tasks,
         \/ written' = written
         \/ \E t \in tasks : tasks' = tasks \ {t} /\ written' = written \cup {t}
  PROVE  SettledInv'
<1>1. StreamsDistinct' /\ HeldApart'
  BY DEF SettledInv, StreamsDistinct, HeldApart, Unread, Busy
<1>2. tasks' \cup written' \subseteq tasks \cup written
  OBVIOUS
<1>3. \A t \in Chats(tasks' \cup written') : Through(t.id)'
  BY <1>2 DEF SettledInv, Chats, Through, Unread, Busy
<1>4. ChatSettledOnce'
  BY <1>2 DEF SettledInv, ChatSettledOnce, Chats
<1> QED BY <1>1, <1>3, <1>4 DEF SettledInv, Chats

\* A packet sent gets an id no other packet has.
LEMMA SendSettled ==
  ASSUME TypeInv, SettledInv, NEW c \in Client, ClientSend(c)
  PROVE  SettledInv'
<1>1. PICK b \in Bodies :
        stream' = [stream EXCEPT ![c] = Append(@, [id |-> sent + 1, body |-> b])]
  BY DEF ClientSend
<1>2. sent' = sent + 1 /\ sent \in Nat /\ UNCHANGED <<worker, tasks, written>>
  BY Types DEF ClientSend
<1>3. \A d \in Client : \A i \in DOMAIN stream'[d] :
        \/ i \in DOMAIN stream[d] /\ stream'[d][i] = stream[d][i]
        \/ d = c /\ i = Len(stream[c]) + 1 /\ stream'[d][i].id = sent + 1
  BY <1>1, Types
<1>4. StreamsDistinct'
  BY <1>2, <1>3 DEF SettledInv, StreamsDistinct, Unread
<1>5. HeldApart'
  BY <1>2, <1>3 DEF SettledInv, HeldApart, Unread, Busy
<1>6. ASSUME NEW id, Through(id) PROVE Through(id)'
  BY <1>2, <1>3, <1>6 DEF Through, Unread, Busy
<1> QED BY <1>2, <1>4, <1>5, <1>6 DEF SettledInv, Chats, ChatSettledOnce

\* A read takes the first packet of a stream to one worker.
LEMMA ReadSettled ==
  ASSUME TypeInv, SettledInv, NEW w \in Worker, NEW c \in Client,
         NEW n \in 1..Len(stream[c]), handleClientRead(w, c, n)
  PROVE  SettledInv'
<1>1. stream[c] \in Seq(Packet) /\ Len(stream[c]) \in Nat /\ 1 \in DOMAIN stream[c]
  BY Types
<1>2. Head(stream[c]).id = stream[c][1].id
  BY <1>1
<1>3. /\ worker'[w].packet.id = stream[c][1].id
      /\ worker'[w].at = "handle"
      /\ \A v \in Worker \ {w} : worker'[v] = worker[v]
      /\ ~Busy(w)
  <2>1. PICK b \in castFromString(Head(stream[c]).body) :
          worker' = [worker EXCEPT ![w] =
            [Idle EXCEPT !.at = "handle", !.client = c,
                         !.packet = [Head(stream[c]) EXCEPT !.body = b]]]
    BY DEF handleClientRead
  <2>2. Head(stream[c]) \in Packet
    BY <1>1
  <2>3. [Head(stream[c]) EXCEPT !.body = b].id = stream[c][1].id
    BY <1>2, <2>2 DEF Packet
  <2> DEFINE f == [Idle EXCEPT !.at = "handle", !.client = c,
                         !.packet = [Head(stream[c]) EXCEPT !.body = b]]
  <2>4. f.at = "handle" /\ f.packet.id = stream[c][1].id
    BY <2>3 DEF Idle
  <2>5. worker'[w] = f /\ \A v \in Worker \ {w} : worker'[v] = worker[v]
    BY <2>1, Types
  <2> QED BY <2>4, <2>5 DEF handleClientRead
<1>4. \A d \in Client : \A i \in DOMAIN stream'[d] :
        \/ d # c /\ i \in DOMAIN stream[d] /\ stream'[d][i] = stream[d][i]
        \/ d = c /\ i + n \in DOMAIN stream[c] /\ i \in Nat \ {0}
                 /\ stream'[c][i] = stream[c][i + n]
  <2>1. stream' = [stream EXCEPT ![c] = SubSeq(@, n + 1, Len(@))]
    BY DEF handleClientRead
  <2>2. \A i \in DOMAIN SubSeq(stream[c], n + 1, Len(stream[c])) :
          /\ i \in Nat \ {0} /\ i + n \in DOMAIN stream[c]
          /\ SubSeq(stream[c], n + 1, Len(stream[c]))[i] = stream[c][i + n]
    BY <1>1
  <2> QED BY <2>1, <2>2, Types
<1>5. UNCHANGED <<tasks, written, sent>> /\ sent \in Nat
  BY Types DEF handleClientRead
<1>6. StreamsDistinct'
  <2>1. \A d \in Client : \A i \in DOMAIN stream'[d] : stream'[d][i].id \in 1..sent
    BY <1>4 DEF SettledInv, StreamsDistinct, Unread
  <2>2. ASSUME NEW d \in Client, NEW e \in Client, NEW i \in DOMAIN stream'[d],
               NEW j \in DOMAIN stream'[e],
               stream'[d][i].id = stream'[e][j].id
        PROVE  d = e /\ i = j
    <3>1. \A a, b \in Client : \A k \in DOMAIN stream[a], l \in DOMAIN stream[b] :
            stream[a][k].id = stream[b][l].id => a = b /\ k = l
      BY DEF SettledInv, StreamsDistinct, Unread
    <3>2. CASE d # c /\ e # c
      BY <1>4, <2>2, <3>1, <3>2
    <3>3. CASE d = c /\ e = c
      <4>1. /\ i + n \in DOMAIN stream[c] /\ j + n \in DOMAIN stream[c]
            /\ stream'[c][i] = stream[c][i + n] /\ stream'[c][j] = stream[c][j + n]
            /\ i \in Nat /\ j \in Nat
        BY <1>4, <3>3
      <4>2. i + n = j + n
        BY <2>2, <3>1, <3>3, <4>1
      <4> QED BY <3>3, <4>1, <4>2
    <3>4. CASE d = c /\ e # c
      BY <1>4, <2>2, <3>1, <3>4
    <3>5. CASE d # c /\ e = c
      BY <1>4, <2>2, <3>1, <3>5
    <3> QED BY <3>2, <3>3, <3>4, <3>5
  <2> QED BY <1>5, <2>1, <2>2 DEF StreamsDistinct, Unread
<1>7. \A d \in Client : \A i \in DOMAIN stream'[d] :
        stream'[d][i].id # stream[c][1].id
  BY SMTT(30), <1>1, <1>4 DEF SettledInv, StreamsDistinct, Unread
<1>8. \A v \in Worker : Busy(v) => worker[v].packet.id # stream[c][1].id
  BY <1>1 DEF SettledInv, HeldApart, Unread
<1>9. HeldApart'
  <2>1. stream[c][1].id \in 1..sent
    BY <1>1 DEF SettledInv, StreamsDistinct, Unread
  <2>2. ASSUME NEW v \in Worker \ {w}, Busy(v)
        PROVE  /\ worker[v].packet.id \in 1..sent
               /\ \A d \in Client : \A i \in DOMAIN stream'[d] :
                    stream'[d][i].id # worker[v].packet.id
    BY <1>4, <2>2 DEF SettledInv, HeldApart, Unread
  <2>3. \A v, u \in Worker : Busy(v) /\ Busy(u)
          /\ worker[v].packet.id = worker[u].packet.id => v = u
    BY DEF SettledInv, HeldApart
  <2> QED BY <1>3, <1>5, <1>7, <1>8, <2>1, <2>2, <2>3
          DEF HeldApart, Busy, Unread
<1>10. ASSUME NEW id, Through(id) PROVE Through(id)'
  <2>1. id # stream[c][1].id
    BY <1>1, <1>10 DEF Through, Unread
  <2> QED BY <1>3, <1>4, <1>5, <1>10, <2>1 DEF Through, Unread, Busy
<1> QED BY <1>5, <1>6, <1>9, <1>10 DEF SettledInv, Chats, ChatSettledOnce

\* A handler that settles a chat is through with it.
LEMMA HandlerSettled ==
  ASSUME TypeInv, SettledInv, NEW w \in Worker, HandleData(w), ~rowsThrow(w)
  PROVE  SettledInv'
<1>1. UNCHANGED <<written, stream, sent>>
  BY HandlerFrame
<1>2. /\ worker'[w].packet = worker[w].packet /\ Busy(w)
      /\ worker[w].at # "rearm"
      /\ \A v \in Worker \ {w} : worker'[v] = worker[v]
  BY HandlerPacket, OtherWorkers
<1>3. StreamsDistinct' /\ HeldApart'
  BY <1>1, <1>2 DEF SettledInv, StreamsDistinct, HeldApart, Unread, Busy
<1>4. \A id : Through(id) => id # worker[w].packet.id
  BY <1>2 DEF Through
<1>5. \A id : Through(id) => Through(id)'
  BY <1>1, <1>2, <1>4 DEF Through, Unread, Busy
<1>6. CASE Chats(tasks') = Chats(tasks)
  <2>1. Chats(tasks' \cup written') = Chats(tasks \cup written)
    BY <1>1, <1>6 DEF Chats
  <2> QED BY <1>1, <1>3, <1>5, <1>6, <2>1
          DEF SettledInv, Chats, ChatSettledOnce
<1>7. ASSUME NEW t, Chats(tasks') = Chats(tasks) \cup {t},
             t.id = worker[w].packet.id, worker'[w].at = "rearm"
      PROVE  SettledInv'
  <2>1. Chats(tasks' \cup written') = Chats(tasks \cup written) \cup {t}
    BY <1>1, <1>7 DEF Chats
  <2>2. Through(t.id)'
    BY <1>1, <1>2, <1>7 DEF Through, SettledInv, HeldApart, Unread, Busy
  <2>3. \A u \in Chats(tasks \cup written) : u.id # t.id
    BY <1>4, <1>7 DEF SettledInv
  <2>4. t \notin Chats(written)
    BY <2>3 DEF Chats
  <2>5. ChatSettledOnce'
    <3>1. \A a, b \in Chats(tasks' \cup written') : a.id = b.id => a = b
      BY <2>1, <2>3 DEF SettledInv, ChatSettledOnce, Chats
    <3>2. Chats(tasks') \cap Chats(written') = {}
      BY <1>1, <1>7, <2>4 DEF SettledInv, ChatSettledOnce, Chats
    <3> QED BY <3>1, <3>2 DEF ChatSettledOnce, Chats
  <2>6. \A u \in Chats(tasks' \cup written') : Through(u.id)'
    BY <1>5, <2>1, <2>2 DEF SettledInv
  <2> QED BY <1>3, <2>5, <2>6 DEF SettledInv, Chats
<1> QED BY <1>6, <1>7, HandlerChats

\* Leaving the read loop, in order or by an exception, frees the worker and
\* queues no chat.
LEMMA LeaveSettled ==
  ASSUME TypeInv, SettledInv, NEW w \in Worker,
         handleClientRearm(w) \/ (HandleData(w) /\ rowsThrow(w))
  PROVE  SettledInv'
<1>1. UNCHANGED <<written, stream, sent>>
  BY HandlerFrame DEF handleClientRearm
<1>2. ~Busy(w)' /\ \A v \in Worker \ {w} : worker'[v] = worker[v]
  <2>1. worker' = [worker EXCEPT ![w] = Idle]
    BY DEF handleClientRearm, rowsThrow
  <2> QED BY <2>1, Types, IdleType DEF Busy
<1>3. Chats(tasks') = Chats(tasks)
  <2>1. Reply(w, "rearm", worker[w].client, ZeroUid).kind = "rearm"
    BY DEF Reply, Callback
  <2> QED BY <2>1 DEF handleClientRearm, rowsThrow, scheduler, Chats
<1>4. Chats(tasks' \cup written') = Chats(tasks \cup written)
  BY <1>1, <1>3 DEF Chats
<1>5. StreamsDistinct' /\ HeldApart'
  BY <1>1, <1>2 DEF SettledInv, StreamsDistinct, HeldApart, Unread, Busy
<1>6. \A id : Through(id) => Through(id)'
  BY <1>1, <1>2 DEF Through, Unread, Busy
<1> QED BY <1>1, <1>3, <1>4, <1>5, <1>6 DEF SettledInv, Chats, ChatSettledOnce

LEMMA NextSettled == TypeInv /\ SettledInv /\ [Next]_vars => SettledInv'
<1> SUFFICES ASSUME TypeInv, SettledInv, [Next]_vars PROVE SettledInv'
  OBVIOUS
<1>1. ASSUME NEW c \in Client, ClientHangUp(c) \/ startAccpet(c) \/ idleTimeout(c)
      PROVE  SettledInv'
  BY <1>1, QuietSettled DEF ClientHangUp, startAccpet, idleTimeout
<1>2. ASSUME NEW c \in Client,
             ReadStep(c) \/ \E w \in Worker : handleClientClosed(w, c)
      PROVE  SettledInv'
  <2>1. ASSUME NEW w \in Worker, handleClientClosed(w, c) PROVE SettledInv'
    BY <2>1, QuietSettled DEF handleClientClosed
  <2> QED BY <1>2, <2>1, ReadSettled DEF ReadStep
<1>3. ASSUME NEW w \in Worker, WorkerStep(w) PROVE SettledInv'
  <2>1. CASE HandleData(w) /\ ~rowsThrow(w)
    BY <2>1, HandlerSettled
  <2>2. CASE handleClientRearm(w) \/ (HandleData(w) /\ rowsThrow(w))
    BY <2>2, LeaveSettled
  <2> QED BY <1>3, <2>1, <2>2 DEF WorkerStep
<1>4. ASSUME NEW w \in Worker, NEW t \in tasks,
             wathcIoRead(w, t) \/ sendMessageToClient(w, t)
      PROVE  SettledInv'
  BY <1>4, QuietSettled DEF wathcIoRead, sendMessageToClient
<1>5. CASE UNCHANGED vars
  BY <1>5, QuietSettled DEF vars
<1> QED BY <1>1, <1>2, <1>3, <1>4, <1>5, SendSettled DEF Next, TaskStep

\* Each chat packet is forwarded or given back once, and its callback runs
\* at most once, whatever workers, connections and users there are.
THEOREM ChatsSettle == Spec => []ChatSettledOnce
<1>1. Spec => []TypeInv
  BY InitType, NextType, PTL DEF Spec
<1>2. Spec => []SettledInv
  BY <1>1, InitSettled, NextSettled, PTL DEF Spec
<1>3. SettledInv => ChatSettledOnce
  BY DEF SettledInv
<1> QED BY <1>2, <1>3, PTL
================================================================================
