----------------------------- MODULE DataHandle -----------------------------
(***************************************************************************)
(* DataHandleMachine: what a worker does with the packet it has read.  A   *)
(* handler is cut where another worker can come between: each statement on *)
(* the database and each use of the connection map is a step, and the      *)
(* answers are queued with the last one.  Any statement may fail, as an    *)
(* SQLException or because two workers use the one connection of a DAO at  *)
(* once; the DAO then returns false or an empty result.  What is thrown    *)
(* while the rows of a result are read leaves the handler.                 *)
(***************************************************************************)
EXTENDS UserConnectionManager, FriendShipDao

VARIABLES
  worker,  \* what each worker is doing
  crashed, \* a null pointer was dereferenced: the process is gone
  dropped, \* history: the connections whose handler an exception has left
  logins   \* history: the pairs (socket, uid) whose password check passed

Phase == {"idle", "handle", "friends", "applies", "cache", "addUser",
          "loginReply", "selectUser", "inform", "rearm"}

\* The local variables of handleClient and of the handler it calls.
Frame == [at: Phase, client: MaybeClient, packet: Packet, uid: Uid,
          target: MaybeClient, friends: SUBSET PublicInfo,
          applies: SUBSET PublicInfo]

Idle == [at |-> "idle", client |-> NoClient, packet |-> NoPacket,
         uid |-> ZeroUid, target |-> NoClient, friends |-> {}, applies |-> {}]

Busy(w) == worker[w].at # "idle"

\* The worker runs the handler of func and stands at the given phase.
Handling(w, func, phase) ==
  /\ worker[w].at = phase
  /\ worker[w].packet.body.func = func

Msg(w) == worker[w].packet.body

Goto(w, phase) == worker' = [worker EXCEPT ![w].at = phase]

\* An answer to the packet the worker handles.
Reply(w, kind, c, uid) == Callback(kind, c, worker[w].packet.id, uid)

\* Variables no handler touches, and those only some of them touch.
ioVars == <<sock, peer, armed, written>>
stateVars == <<m_connect_info, dbVars, crashed, dropped, logins>>

-----------------------------------------------------------------------------
\* Variants of the callbacks: no test for a null socket; the sender's socket
\* taken for the receiver's; the packet given back as well as forwarded.
ChatCallbacksUnchecked(w) ==
  {Reply(w, "chat", selectUser(Msg(w).other), Msg(w).other)}

ChatCallbacksToSender(w) ==
  LET sender_client == selectUser(Msg(w).own) IN
    IF sender_client # NoClient
    THEN {Reply(w, "chat", sender_client, Msg(w).other)}
    ELSE {Reply(w, "echo", worker[w].client, Msg(w).other)}

ChatCallbacksBoth(w) ==
  {Reply(w, "chat", c, Msg(w).other) :
     c \in {selectUser(Msg(w).other)} \ {NoClient}}
  \cup {Reply(w, "echo", worker[w].client, Msg(w).other)}

\* The callbacks of handleChatMessage: forward to the socket registered for
\* the receiver, or give the packet back to its sender.
ChatCallbacks(w) ==
  LET sender_client == selectUser(Msg(w).other) IN
    IF sender_client # NoClient
    THEN {Reply(w, "chat", sender_client, Msg(w).other)}
    ELSE {Reply(w, "echo", worker[w].client, Msg(w).other)}

handleChatMessage(w) ==
  /\ Handling(w, "chat", "handle")
  /\ scheduler(ChatCallbacks(w))
  /\ Goto(w, "rearm")
  /\ UNCHANGED <<ioVars, stateVars>>

\* UsersDao::insert binds no placeholder (BaseDao::insert knows only the
\* columns of friendships), so the INSERT fails and false is the answer.
handleRegMessage(w) ==
  /\ Handling(w, "register", "handle")
  /\ scheduler({Reply(w, "regRes", worker[w].client, ZeroUid)})
  /\ Goto(w, "rearm")
  /\ UNCHANGED <<ioVars, stateVars>>

\* The mail is sent or not; either way the client is answered.
handleVerifyCode(w) ==
  /\ Handling(w, "verifyCode", "handle")
  /\ \E kind \in {"verifyRes", "error"} :
       scheduler({Reply(w, kind, worker[w].client, ZeroUid)})
  /\ Goto(w, "rearm")
  /\ UNCHANGED <<ioVars, stateVars>>

\* A func_id no branch of handleData tests.
ignorePacket(w) ==
  /\ Handling(w, "other", "handle")
  /\ Goto(w, "rearm")
  /\ UNCHANGED <<ioVars, tasks, stateVars>>

-----------------------------------------------------------------------------
(* handleLoginMessage.  A query that fails or finds no row leaves a        *)
(* UsersTableData with password "" and an id nobody initialised.           *)
Accepts(b, uid) ==
  \/ b.own \in StoredUid /\ b.flag = "right" /\ uid = b.own
  \/ b.flag = "empty" /\ uid \in UnsetUid

\* The comparison fails, or the query does.
Rejects(b) == b.own \in StoredUid \/ b.flag # "empty"

loginSelect(w) ==
  /\ Handling(w, "login", "handle")
  /\ \/ /\ Rejects(Msg(w))
        /\ Goto(w, "rearm")
        /\ UNCHANGED logins
     \/ \E uid \in Uid :
          /\ Accepts(Msg(w), uid)
          /\ worker' = [worker EXCEPT ![w].at = "friends", ![w].uid = uid]
          /\ logins' = logins \cup {[client |-> worker[w].client, uid |-> uid]}
  /\ UNCHANGED <<ioVars, tasks, m_connect_info, dbVars, crashed, dropped>>

\* The lists built from the ids a query gave: an entry for each, found or not.
Lists(ids) ==
  {{entry[r] : r \in DOMAIN ids} :
     entry \in {e \in [DOMAIN ids -> PublicInfo] :
                 \A r \in DOMAIN ids : e[r] \in selectInfoDueId(ids[r])}}

\* The list is empty when the query fails.
loginFriends(w) ==
  /\ Handling(w, "login", "friends")
  /\ \E list \in Lists(selectAllFriendShip(worker[w].uid)) \cup {{}} :
       worker' = [worker EXCEPT ![w].at = "applies", ![w].friends = list]
  /\ UNCHANGED <<ioVars, tasks, stateVars>>

loginApplies(w) ==
  /\ Handling(w, "login", "applies")
  /\ \E list \in Lists(selectAllFriendApply(worker[w].uid)) \cup {{}} :
       worker' = [worker EXCEPT ![w].at = "cache", ![w].applies = list]
  /\ UNCHANGED <<ioVars, tasks, stateVars>>

\* getAllUserPublicInfo; the cache holds what it found.
loginCache(w) ==
  /\ Handling(w, "login", "cache")
  /\ Goto(w, "addUser")
  /\ UNCHANGED <<ioVars, tasks, stateVars>>

loginAddUser(w) ==
  /\ Handling(w, "login", "addUser")
  /\ addUser(worker[w].uid, worker[w].client)
  /\ Goto(w, "loginReply")
  /\ UNCHANGED <<ioVars, tasks, dbVars, crashed, dropped, logins>>

loginReply(w) ==
  /\ Handling(w, "login", "loginReply")
  /\ scheduler(
       {[Reply(w, "loginRes", worker[w].client, worker[w].uid)
           EXCEPT !.friends = worker[w].friends, !.applies = worker[w].applies],
        Reply(w, "cache", worker[w].client, worker[w].uid)})
  /\ Goto(w, "rearm")
  /\ UNCHANGED <<ioVars, stateVars>>

handleLoginMessage(w) ==
  \/ loginSelect(w)
  \/ loginFriends(w)
  \/ loginApplies(w)
  \/ loginCache(w)
  \/ loginAddUser(w)
  \/ loginReply(w)

-----------------------------------------------------------------------------
(* handleAddFriendReq.  The result of the INSERT is ignored; a friend who  *)
(* has no entry in the map gives a null socket, whose ifConnected() is     *)
(* called all the same.                                                    *)
addFriendInsert(w) ==
  /\ Handling(w, "addFriend", "handle")
  /\ \/ insert(worker[w].packet.id, Msg(w).own, Msg(w).other)
     \/ UNCHANGED dbVars
  /\ Goto(w, "selectUser")
  /\ UNCHANGED <<ioVars, tasks, m_connect_info, crashed, dropped, logins>>

addFriendSelect(w) ==
  LET send_client == selectUser(Msg(w).other) IN
    /\ Handling(w, "addFriend", "selectUser")
    /\ IF send_client = NoClient
       THEN crashed' = TRUE /\ UNCHANGED worker
       ELSE /\ worker' = [worker EXCEPT
                 ![w].at = IF ifConnected(send_client) THEN "inform" ELSE "rearm",
                 ![w].target = send_client]
            /\ UNCHANGED crashed
    /\ UNCHANGED <<ioVars, tasks, m_connect_info, dbVars, dropped, logins>>

\* After selectInfoDueId; toJson of the message drops the applicant.
addFriendInform(w) ==
  /\ Handling(w, "addFriend", "inform")
  /\ scheduler({Reply(w, "inform", worker[w].target, Msg(w).other)})
  /\ Goto(w, "rearm")
  /\ UNCHANGED <<ioVars, stateVars>>

handleAddFriendReq(w) ==
  addFriendInsert(w) \/ addFriendSelect(w) \/ addFriendInform(w)

handleDeleteFriend(w) ==
  /\ Handling(w, "deleteFriend", "handle")
  /\ \/ removeFriendship(Msg(w).other, Msg(w).own)
     \/ UNCHANGED dbVars
  /\ Goto(w, "rearm")
  /\ UNCHANGED <<ioVars, tasks, m_connect_info, crashed, dropped, logins>>

handleFriendConfirm(w) ==
  /\ Handling(w, "friendConfirm", "handle")
  /\ \/ /\ Msg(w).flag = "accept"
        /\ changeFriendShipStatus(Msg(w).other, Msg(w).own, "accepted")
     \/ /\ Msg(w).flag # "accept"
        /\ removeFriendship(Msg(w).other, Msg(w).own)
     \/ UNCHANGED dbVars
  /\ Goto(w, "rearm")
  /\ UNCHANGED <<ioVars, tasks, m_connect_info, crashed, dropped, logins>>

-----------------------------------------------------------------------------
\* next() and the getters stand outside the try blocks of the DAOs: an
\* SQLException in a row loop passes handleData and handleClient, and the
\* connection is left with neither an answer nor a READ event.
rowsThrow(w) ==
  /\ \/ \E phase \in {"handle", "friends", "applies", "cache"} :
          Handling(w, "login", phase)
     \/ Handling(w, "addFriend", "inform")
  /\ worker' = [worker EXCEPT ![w] = Idle]
  /\ dropped' = dropped \cup {worker[w].client}
  /\ UNCHANGED <<ioVars, tasks, m_connect_info, dbVars, crashed, logins>>

handleData(w) ==
  \/ handleChatMessage(w)
  \/ handleLoginMessage(w)
  \/ handleRegMessage(w)
  \/ handleVerifyCode(w)
  \/ handleAddFriendReq(w)
  \/ handleDeleteFriend(w)
  \/ handleFriendConfirm(w)
  \/ ignorePacket(w)
  \/ rowsThrow(w)

DataHandleTypeOK ==
  /\ worker \in [Worker -> Frame]
  /\ crashed \in BOOLEAN
  /\ dropped \subseteq Client
  /\ logins \subseteq [client: Client, uid: Uid]

DataHandleInit ==
  /\ worker = [w \in Worker |-> Idle]
  /\ crashed = FALSE
  /\ dropped = {}
  /\ logins = {}
=============================================================================
