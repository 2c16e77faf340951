------------------------ MODULE UserConnectionManager ------------------------
(***************************************************************************)
(* The map from user ids to sockets, shared by every worker.  Each         *)
(* operation holds m_mutex from its first to its last line, so each is one *)
(* step.  deleteUser and init are never called by the program.             *)
(***************************************************************************)
EXTENDS Zues

VARIABLE m_connect_info

UserConnectInfo == [client: MaybeClient, is_online: BOOLEAN]

\* No entry for the uid.
Absent == [client |-> NoClient, is_online |-> FALSE]

Registered(uid) == m_connect_info[uid].client # NoClient

\* A variant that refreshes the entry of a user who logs in again.
addUserOverwriting(uid, c) ==
  m_connect_info' =
    [m_connect_info EXCEPT ![uid] = [client |-> c, is_online |-> TRUE]]

\* An existing entry is kept; the callers ignore the bool that says so.
addUser(uid, c) ==
  m_connect_info' =
    IF Registered(uid) THEN m_connect_info
    ELSE [m_connect_info EXCEPT ![uid] = [client |-> c, is_online |-> TRUE]]

selectUser(uid) == m_connect_info[uid].client

\* The first entry of the client in the hash table's order, which is any.
changeOnline(c) ==
  LET own == {uid \in Uid : m_connect_info[uid].client = c} IN
    IF own = {} THEN UNCHANGED m_connect_info
    ELSE \E uid \in own :
           m_connect_info' = [m_connect_info EXCEPT ![uid].is_online = TRUE]

ConnectInfoTypeOK == m_connect_info \in [Uid -> UserConnectInfo]

ConnectInfoInit == m_connect_info = [uid \in Uid |-> Absent]
=============================================================================
