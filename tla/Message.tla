------------------------------- MODULE Message -------------------------------
(***************************************************************************)
(* The packets a client sends, seen as the handlers of DataHandle.cpp see  *)
(* them: a func_id and the Info that castFromString fills in.  The JSON    *)
(* text, the names and the chat content are left out; what stays is what   *)
(* the handlers branch on.                                                 *)
(*   own    uid_sender / own_id; for a login, the user its username names  *)
(*   other  uid_receiver / friend_id                                       *)
(*   flag   for a login how its password compares with the stored one;     *)
(*          for a friend confirmation its success field                    *)
(*   ok     whether the body is JSON that castFromString can read          *)
(***************************************************************************)
EXTENDS Naturals

CONSTANTS
  Uid,       \* every user id a message or a table row can carry
  StoredUid, \* the ids that have a row in table users
  ZeroUid,   \* id 0, what the message constructors put in own_id / friend_id
  UnsetUid   \* the ids a variable nobody initialised may hold

ASSUME UidAssumption ==
  /\ ZeroUid \in Uid
  /\ StoredUid \subseteq Uid \ {ZeroUid}
  /\ UnsetUid \subseteq Uid

\* The func_ids handleData dispatches on; "other" is any value it ignores.
Func == {"chat", "login", "register", "verifyCode", "addFriend",
         "deleteFriend", "friendConfirm", "other"}

Flag == {"right", "wrong", "empty", "accept", "reject"}

Body == [func: Func, own: Uid, other: Uid, flag: Flag, ok: BOOLEAN]

\* TcpPacket, with the position it has in the order the clients sent.
Packet == [id: Nat, body: Body]

\* PersonalPublicInfo as a login answer lists it.  A failed lookup gives an
\* entry too: username "" and an id nobody set.
PublicInfo == [uid: Uid, named: BOOLEAN]

NoPacket ==
  [id |-> 0, body |-> [func |-> "other", own |-> ZeroUid, other |-> ZeroUid,
                       flag |-> "reject", ok |-> FALSE]]

\* What a constructor leaves in Info when castFromString throws: the ids are
\* ZeroUid, username and password "", success false.
Defaults(b) ==
  [b EXCEPT !.own = ZeroUid, !.other = ZeroUid,
            !.flag = IF b.func = "login" THEN "empty" ELSE "reject"]

\* The bodies a handler may work with after castFromString.  ChatMessage's
\* constructor initialises no id, which is the receiver of an unreadable chat.
castFromString(b) ==
  IF b.ok THEN {b}
  ELSE IF b.func = "chat" THEN {[b EXCEPT !.other = uid] : uid \in UnsetUid}
  ELSE {Defaults(b)}
=============================================================================
