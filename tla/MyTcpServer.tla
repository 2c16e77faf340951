----------------------------- MODULE MyTcpServer -----------------------------
(***************************************************************************)
(* MyTcpServer: accepting connections, the read loop of one connection,    *)
(* and the callbacks that write answers and re-register READ events.       *)
(* Composes the handlers of DataHandle with the sockets and the scheduler. *)
(***************************************************************************)
EXTENDS DataHandle, Sequences

CONSTANTS
  Bodies,    \* the bodies clients send in an instance
  MaxPackets, \* bound: packets sent in a behaviour
  Leaving    \* bound: connections whose client may leave or stay silent

ASSUME InputAssumption ==
  /\ Bodies \subseteq Body
  /\ MaxPackets \in Nat
  /\ Leaving \subseteq Client

VARIABLES
  stream,  \* [Client -> Seq(Packet)], sent and not yet read
  managed, \* sockets in the SocketManager, whose idle timer is pending
  sent     \* number of packets sent, the source of packet ids

vars == <<sock, peer, armed, tasks, written, m_connect_info, friendships,
          confirmed, worker, crashed, dropped, logins, stream, managed, sent>>

-----------------------------------------------------------------------------
(* The clients.                                                            *)

ClientSend(c) ==
  /\ peer[c] /\ sock[c] # "closed" /\ sent < MaxPackets
  /\ sent' = sent + 1
  /\ \E b \in Bodies :
       stream' = [stream EXCEPT ![c] = Append(@, [id |-> sent + 1, body |-> b])]
  /\ UNCHANGED <<sock, peer, armed, tasks, written, m_connect_info,
                 dbVars, worker, crashed, dropped, logins, managed>>

ClientHangUp(c) ==
  /\ peer[c] /\ c \in Leaving
  /\ peer' = [peer EXCEPT ![c] = FALSE]
  /\ UNCHANGED <<sock, armed, tasks, written, m_connect_info, dbVars,
                 worker, crashed, dropped, logins, stream, managed, sent>>

-----------------------------------------------------------------------------
(* The server.                                                             *)

\* One turn of the accept loop: the socket, its idle timer, its READ event.
\* When accept fails it only logs, which is no step.
startAccpet(c) ==
  /\ sock[c] = "new"
  /\ sock' = [sock EXCEPT ![c] = "open"]
  /\ managed' = managed \cup {c}
  /\ armed' = armed \cup {c}
  /\ UNCHANGED <<peer, tasks, written, m_connect_info, dbVars, worker,
                 crashed, dropped, logins, stream, sent>>

\* The idle timer's callback.  deleteSocket drops the manager's reference,
\* and may close the socket with it; the framework decides.
idleTimeout(c) ==
  /\ c \in managed \cap Leaving
  /\ managed' = managed \ {c}
  /\ close(c) \/ UNCHANGED <<sock, armed>>
  /\ changeOnline(c)
  /\ UNCHANGED <<peer, tasks, written, dbVars, worker, crashed, dropped,
                 logins, stream, sent>>

\* A variant of handleClient that re-registers before it handles the packet.
handleClientReadRearmFirst(w, c, n) ==
  /\ ~Busy(w) /\ c \in armed
  /\ armed' = armed \ {c}
  /\ scheduler({Callback("rearm", c, Head(stream[c]).id, ZeroUid)})
  /\ stream' = [stream EXCEPT ![c] = SubSeq(@, n + 1, Len(@))]
  /\ \E b \in castFromString(Head(stream[c]).body) :
       worker' = [worker EXCEPT ![w] =
         [Idle EXCEPT !.at = "handle", !.client = c,
                      !.packet = [Head(stream[c]) EXCEPT !.body = b]]]
  /\ UNCHANGED <<sock, peer, written, m_connect_info, dbVars,
                 crashed, dropped, logins, managed, sent>>

\* handleClient, rt > 0.  A read returns up to 4096 bytes of the stream: n
\* packets, of which the first is decoded and the others are lost with ba.
handleClientRead(w, c, n) ==
  /\ ~Busy(w) /\ c \in armed
  /\ armed' = armed \ {c}
  /\ stream' = [stream EXCEPT ![c] = SubSeq(@, n + 1, Len(@))]
  /\ \E b \in castFromString(Head(stream[c]).body) :
       worker' = [worker EXCEPT ![w] =
         [Idle EXCEPT !.at = "handle", !.client = c,
                      !.packet = [Head(stream[c]) EXCEPT !.body = b]]]
  /\ UNCHANGED <<sock, peer, tasks, written, m_connect_info, dbVars,
                 crashed, dropped, logins, managed, sent>>

\* Variants: one deletes the user's entry with the connection, the other
\* leaves the read loop without close().
handleClientClosedDeleting(w, c) ==
  /\ ~Busy(w) /\ c \in armed /\ (~peer[c] \/ c \in Leaving)
  /\ close(c)
  /\ m_connect_info' = [uid \in Uid |-> IF selectUser(uid) = c THEN Absent
                                        ELSE m_connect_info[uid]]
  /\ UNCHANGED <<peer, tasks, written, dbVars, worker,
                 crashed, dropped, logins, stream, managed, sent>>

handleClientClosedLeaving(w, c) ==
  /\ ~Busy(w) /\ c \in armed /\ (~peer[c] \/ c \in Leaving)
  /\ armed' = armed \ {c}
  /\ UNCHANGED <<sock, peer, tasks, written, m_connect_info, dbVars, worker,
                 crashed, dropped, logins, stream, managed, sent>>

\* handleClient, rt <= 0: the end of the stream, or a read error, which may
\* also come while the remote end is there.  The entry of the connection map
\* stays.
handleClientClosed(w, c) ==
  /\ ~Busy(w) /\ c \in armed /\ (~peer[c] \/ c \in Leaving)
  /\ close(c)
  /\ UNCHANGED <<peer, tasks, written, m_connect_info, dbVars, worker,
                 crashed, dropped, logins, stream, managed, sent>>

\* A variant that returns without queueing wathcIoRead.
handleClientForgets(w) ==
  /\ worker[w].at = "rearm"
  /\ worker' = [worker EXCEPT ![w] = Idle]
  /\ UNCHANGED <<sock, peer, armed, tasks, written, m_connect_info, dbVars,
                 crashed, dropped, logins, stream, managed, sent>>

\* handleClient after handleData: queue wathcIoRead and leave the loop.
handleClientRearm(w) ==
  /\ worker[w].at = "rearm"
  /\ scheduler({Reply(w, "rearm", worker[w].client, ZeroUid)})
  /\ worker' = [worker EXCEPT ![w] = Idle]
  /\ UNCHANGED <<sock, peer, armed, written, m_connect_info, dbVars,
                 crashed, dropped, logins, stream, managed, sent>>

\* The callback that waits for the next packet of a connection.  When the
\* socket was closed meanwhile, its descriptor is 0 or -1: the test at the top
\* returns, or addEvent finds no such descriptor; no event is registered.
wathcIoRead(w, t) ==
  /\ ~Busy(w) /\ t.kind = "rearm"
  /\ tasks' = tasks \ {t}
  /\ addEvent(t.to)
  /\ UNCHANGED <<sock, peer, written, m_connect_info, dbVars, worker,
                 crashed, dropped, logins, stream, managed, sent>>

\* A variant that writes only the last of the answers queued to a connection.
sendLastToClient(w, t) ==
  /\ ~Busy(w) /\ t.kind # "rearm"
  /\ tasks' = tasks \ {t}
  /\ written' = IF /\ ifConnected(t.to) /\ peer[t.to]
                   /\ \A u \in tasks \ {t} : u.to # t.to
                THEN written \cup {t} ELSE written
  /\ UNCHANGED <<sock, peer, armed, m_connect_info, dbVars, worker,
                 crashed, dropped, logins, stream, managed, sent>>

\* The callback that writes an answer; a failed write goes unnoticed.
sendMessageToClient(w, t) ==
  /\ ~Busy(w) /\ t.kind # "rearm"
  /\ tasks' = tasks \ {t}
  /\ written' = IF ifConnected(t.to) /\ peer[t.to]
                THEN written \cup {t} ELSE written
  /\ UNCHANGED <<sock, peer, armed, m_connect_info, dbVars, worker,
                 crashed, dropped, logins, stream, managed, sent>>

-----------------------------------------------------------------------------
HandleData(w) == handleData(w) /\ UNCHANGED <<stream, managed, sent>>

WorkerStep(w) ==
  \/ HandleData(w)
  \/ handleClientRearm(w)

ReadStep(c) ==
  \E w \in Worker :
    \/ \E n \in 1..Len(stream[c]) : handleClientRead(w, c, n)
    \/ ~peer[c] /\ handleClientClosed(w, c)

TaskStep ==
  \E w \in Worker, t \in tasks : wathcIoRead(w, t) \/ sendMessageToClient(w, t)

Init ==
  /\ ZuesInit /\ ConnectInfoInit /\ FriendShipsInit /\ DataHandleInit
  /\ stream = [c \in Client |-> <<>>]
  /\ managed = {}
  /\ sent = 0

Next ==
  /\ ~crashed
  /\ \/ \E c \in Client : \/ ClientSend(c) \/ ClientHangUp(c)
                          \/ startAccpet(c) \/ idleTimeout(c) \/ ReadStep(c)
                          \/ \E w \in Worker : handleClientClosed(w, c)
     \/ \E w \in Worker : WorkerStep(w)
     \/ TaskStep

Spec == Init /\ [][Next]_vars

(* The scheduler runs what is queued and triggers the events that are      *)
(* ready; handlers contain no wait.  Clients, accepts, idle timers and     *)
(* read errors owe nothing.                                                *)
Fairness ==
  /\ \A w \in Worker : WF_vars(~crashed /\ WorkerStep(w))
  /\ \A c \in Client : WF_vars(~crashed /\ ReadStep(c))
  /\ WF_vars(~crashed /\ TaskStep)

FairSpec == Spec /\ Fairness
-----------------------------------------------------------------------------
(* Safety.                                                                 *)

\* Every variable has its type; in particular no callback is ever queued
\* with a null socket, which handleChatMessage tests for.
TypeOK ==
  /\ ZuesTypeOK /\ ConnectInfoTypeOK /\ FriendShipsTypeOK /\ DataHandleTypeOK
  /\ stream \in [Client -> Seq(Packet)]
  /\ managed \subseteq Client
  /\ sent \in Nat

Rearms == {t \in tasks : t.kind = "rearm"}

Handles(w, c) == Busy(w) /\ worker[w].client = c

\* The right to read a connection is one token, held by its registered READ
\* event, by the worker in handleClient or by the queued wathcIoRead.  An
\* open connection loses it only to an exception that leaves its handler, and
\* no two holders ever exist: otherwise two workers would read one stream at
\* once.
ReadToken ==
  /\ \A c \in Client, w1, w2 \in Worker :
       Handles(w1, c) /\ Handles(w2, c) => w1 = w2
  /\ \A t1, t2 \in Rearms : t1.to = t2.to => t1 = t2
  /\ \A w \in Worker, t \in Rearms : ~Handles(w, t.to)
  /\ \A c \in armed :
       /\ ifConnected(c)
       /\ \A w \in Worker : ~Handles(w, c)
       /\ \A t \in Rearms : t.to # c
  /\ \A c \in Client : ifConnected(c) =>
       \/ c \in armed
       \/ \E w \in Worker : Handles(w, c)
       \/ \E t \in Rearms : t.to = c
       \/ c \in dropped

\* Whatever is addressed to a user (a forwarded chat, the notice of a friend
\* request, a login answer and its cache) is queued for or written to a
\* connection on which the login of that user passed the password check.
AddressedToLoggedIn ==
  \A t \in tasks \cup written :
    t.kind \in {"chat", "inform", "loginRes", "cache"} =>
      [client |-> t.to, uid |-> t.uid] \in logins

\* handleChatMessage settles a chat packet once: it is forwarded to one
\* socket or given back to its sender, and the callback runs at most once.
ChatSettledOnce ==
  LET Chats(set) == {t \in set : t.kind \in {"chat", "echo"}} IN
    /\ \A t1, t2 \in Chats(tasks \cup written) : t1.id = t2.id => t1 = t2
    /\ Chats(tasks) \cap Chats(written) = {}

\* Once the login of a user has been answered, handleAddFriendReq finds a
\* socket for that user: the null pointer it would call is met only for users
\* who have not logged in, whatever connections have closed since.
AnsweredUserIsSafe ==
  crashed => \E w \in Worker :
    /\ Handling(w, "addFriend", "selectUser")
    /\ \A t \in tasks \cup written :
         t.kind = "loginRes" => t.uid # Msg(w).other

\* A user whose name stands among the friends in a login answer was made one
\* by a confirmation, however deletions, new requests and failed statements
\* came in between.  An entry without a name is a lookup that failed: its id
\* was set by nobody, and the property says nothing of it.
ListedFriendsConfirmed ==
  \A t \in tasks \cup written :
    t.kind = "loginRes" =>
      \A e \in t.friends : e.named => {t.uid, e.uid} \in confirmed

\* The first connection a user logs in on stays the one the map knows: no
\* later login, close or timeout moves or removes the entry.
BindingStable ==
  [][\A uid \in Uid :
       Registered(uid) => m_connect_info'[uid].client = selectUser(uid)]_vars

\* The rows of the table, seen as the statuses of each pair of users, move as
\* FriendPairs lets them: a confirmation without a request changes nothing,
\* one with mirrored or repeated requests settles all of them.
PairStatus ==
  [p \in {{a, b} : a, b \in Uid} |->
     {r.status : r \in {s \in friendships : {s.user_id1, s.user_id2} = p}}]

Pairs == INSTANCE FriendPairs WITH Uid <- Uid, rel <- PairStatus

FriendPairsSpec == Pairs!PairsSpec

\* Events, workers and callbacks apart, every connection keeps to Conversation:
\* a late wathcIoRead or a second worker never has a packet served out of turn
\* or a closed connection read again.
Talk == INSTANCE Conversation WITH
          Client <- Client,
          Id <- 1..MaxPackets,
          life <- sock,
          inbox <- [c \in Client |->
                      [i \in DOMAIN stream[c] |-> stream[c][i].id]],
          serving <- [c \in Client |->
                        {worker[w].packet.id :
                           w \in {v \in Worker : Handles(v, c)}}]

ConversationSpec == Talk!ConversationSpec

\* selectUser "finds the socket of a user by uid" (UserConnectionManager.cpp):
\* the socket of a user whose login was answered on a connection that is still
\* up is an open one.
UserSocketIsCurrent ==
  \A t \in written :
    t.kind = "loginRes" /\ ifConnected(t.to) /\ peer[t.to] =>
      ifConnected(selectUser(t.uid))

-----------------------------------------------------------------------------
(* Liveness, under FairSpec.  A crash ends every obligation; an exception  *)
(* that leaves a handler ends those of its connection.                     *)

\* A connection whose packet was read is read again: every path through the
\* handlers ends with the READ event registered or the connection closed,
\* but for the exceptions of the row loops.
ReadResumes ==
  \A c \in Client :
    (ifConnected(c) /\ c \notin armed) ~>
      (c \in armed \/ sock[c] = "closed" \/ crashed \/ c \in dropped)

\* When the remote end is gone the server closes its own, whatever packets,
\* handlers and callbacks of that connection are still under way; only one
\* whose handler an exception has left waits for its idle timer.
PeerGoneCloses ==
  \A c \in Client :
    (ifConnected(c) /\ ~peer[c]) ~>
      (sock[c] = "closed" \/ crashed \/ c \in dropped)

\* Each answer queued for a connection is written, unless the connection
\* goes.  A packet has one answer, but for a login's, which has the cache too.
AnswerDelivered ==
  LET Answer(set, c, i, kinds) ==
        \E t \in set : t.to = c /\ t.id = i /\ t.kind \in kinds IN
    \A c \in Client, i \in 1..MaxPackets,
       kinds \in {{"cache"}, Kind \ {"cache", "rearm"}} :
      Answer(tasks, c, i, kinds) ~>
        (Answer(written, c, i, kinds) \/ ~ifConnected(c) \/ ~peer[c] \/ crashed)
=============================================================================
