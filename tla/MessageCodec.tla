---------------------------- MODULE MessageCodec ----------------------------
(***************************************************************************)
(* The JSON form of the messages.  Each class lists the fields of its Info *)
(* and keeps two lists of keys by hand, one in toJson and one in           *)
(* from_json; the receiving side builds an object of the class its func_id *)
(* names and reads the body into it.  Keys every toJson adds (timestamp,   *)
(* messageid, ...) and from_json never reads are left out; a nested object *)
(* is a key with a path; a PersonalPublicInfo is one value.                *)
(*   fields  the members of Info                                           *)
(*   set     those the constructor takes from its arguments                *)
(*   raw     numbers and flags no constructor initialises                  *)
(*   writes  toJson: key -> field                                          *)
(*   reads   from_json: field -> key it asks for with at()                 *)
(* Constructor and toJson stand in the .cpp file of a class, from_json in  *)
(* the struct Info of its header.                                          *)
(***************************************************************************)

CONSTANT Val \* values of a field, among them what a default member has

Default == "default"

ASSUME ValAssumption == Default \in Val

\* A list of keys spelt like the fields.
Same(fields) == [f \in fields |-> f]

ChatMessage ==
  LET all == {"content", "sender", "receiver", "uid_receiver", "uid_sender"} IN
    [fields |-> all, set |-> {}, raw |-> {"uid_receiver", "uid_sender"},
     writes |-> Same(all), reads |-> Same(all)]

AddFriendRequestMessage ==
  LET all == {"own_username", "friend_username", "friend_id", "own_id"} IN
    [fields |-> all, set |-> all, raw |-> {},
     writes |-> Same(all), reads |-> Same(all)]

\* success is written under the key "bool" and not read.
AddFriendResponeMessage ==
  [fields |-> {"public_info", "success"}, set |-> {"public_info", "success"},
   raw |-> {},
   writes |-> [public_info |-> "public_info", bool |-> "success"],
   reads |-> Same({"public_info"})]

\* A variant of toJson with a comma in a key, as InformFriendApplyMessage has.
MisspeltDeleteMessage ==
  LET all == {"username", "friend_id", "own_id"} IN
    [fields |-> all, set |-> all, raw |-> {},
     writes |-> [k \in {"username", "friend_id,", "own_id"} |->
                  IF k = "friend_id," THEN "friend_id" ELSE k],
     reads |-> Same(all)]

DeleteFriendMessage ==
  LET all == {"username", "friend_id", "own_id"} IN
    [fields |-> all, set |-> all, raw |-> {},
     writes |-> Same(all), reads |-> Same(all)]

\* A variant of from_json that can do without the field success.
LenientConfirmMessage ==
  LET all == {"success", "friend_id", "own_id"} IN
    [fields |-> all, set |-> all, raw |-> {},
     writes |-> Same(all), reads |-> Same({"friend_id", "own_id"})]

FriendConfirmMessage ==
  LET all == {"success", "friend_id", "own_id"} IN
    [fields |-> all, set |-> all, raw |-> {},
     writes |-> Same(all), reads |-> Same(all)]

\* addFriendApply fills apply_public_info, which toJson does not write; the
\* first key has a comma in it.
InformFriendApplyMessage ==
  [fields |-> {"apply_public_info", "friend_id", "username"},
   set |-> {"apply_public_info"}, raw |-> {"friend_id"},
   writes |-> [k \in {"friend_id,", "username"} |->
                IF k = "username" THEN "username" ELSE "friend_id"],
   reads |-> [apply_public_info |-> "public_info"]]

\* The constructor ignores both arguments.
LoginRequestMessage ==
  LET all == {"username", "password"} IN
    [fields |-> all, set |-> {}, raw |-> {},
     writes |-> Same(all), reads |-> Same(all)]

\* private_info is read by PersonalPrivateInfo's from_json.
LoginResponseMessage ==
  LET all == {"public_info", "success", "private_info/password",
              "private_info/friend_apply", "private_info/friend_list"} IN
    [fields |-> all, set |-> all, raw |-> {},
     writes |-> Same(all),
     reads |-> [Same(all) EXCEPT !["private_info/friend_list"] =
                                   "private_info/friend_listg"]]

RegisterRequestMessage ==
  LET all == {"username", "password", "email"} IN
    [fields |-> all, set |-> all, raw |-> {},
     writes |-> Same(all), reads |-> Same(all)]

RegisterResponseMessage ==
  [fields |-> {"success"}, set |-> {"success"}, raw |-> {},
   writes |-> Same({"success"}), reads |-> Same({"success"})]

\* The constructor ignores its argument.
VerifyCodeMessage ==
  [fields |-> {"email"}, set |-> {}, raw |-> {},
   writes |-> Same({"email"}), reads |-> Same({"email"})]

VerifyCodeResMessage ==
  [fields |-> {"code"}, set |-> {"code"}, raw |-> {},
   writes |-> Same({"code"}), reads |-> Same({"code"})]

CacheMessage ==
  [fields |-> {"public_info_cache"}, set |-> {"public_info_cache"}, raw |-> {},
   writes |-> Same({"public_info_cache"}), reads |-> Same({"public_info_cache"})]

\* The classes by the constants of MessageType.
Class == [
  Chat |-> ChatMessage, LogRequest |-> LoginRequestMessage,
  LogResponse |-> LoginResponseMessage, RegRequest |-> RegisterRequestMessage,
  RegResponse |-> RegisterResponseMessage, SendVerifyCode |-> VerifyCodeMessage,
  RetVerifyCode |-> VerifyCodeResMessage,
  AddFriendRequest |-> AddFriendRequestMessage,
  AddFriendRespone |-> AddFriendResponeMessage,
  DeleteFriend |-> DeleteFriendMessage, FriendConfirm |-> FriendConfirmMessage,
  InformFriendApply |-> InformFriendApplyMessage, CacheInfo |-> CacheMessage]

MessageType == DOMAIN Class

Info(c) == [Class[c].fields -> Val]

-----------------------------------------------------------------------------
\* The Infos an object may have once constructed: raw members hold anything.
Constructed(c, args) ==
  {info \in Info(c) : \A f \in Class[c].fields \ Class[c].raw :
     info[f] = IF f \in Class[c].set THEN args[f] ELSE Default}

toJson(c, info) ==
  [k \in DOMAIN Class[c].writes |-> info[Class[c].writes[k]]]

\* at() finds every key from_json asks for.
Readable(c, body) == \A f \in DOMAIN Class[c].reads :
                       Class[c].reads[f] \in DOMAIN body

\* A variant that reads the keys one by one into the object itself.
castInPlace(c, info, body) ==
  [f \in Class[c].fields |->
     IF f \in DOMAIN Class[c].reads /\ Class[c].reads[f] \in DOMAIN body
     THEN body[Class[c].reads[f]] ELSE info[f]]

\* Reads into a fresh Info, which replaces the old one only if all keys are
\* there; at() throws otherwise and the exception is swallowed.
castFromString(c, info, body) ==
  IF Readable(c, body)
  THEN [f \in Class[c].fields |->
          IF f \in DOMAIN Class[c].reads THEN body[Class[c].reads[f]]
          ELSE Default]
  ELSE info

-----------------------------------------------------------------------------
VARIABLES
  sender,   \* [type, info]: the message that is sent
  receiver, \* [type, before, info]: the object that reads it
  at        \* "write", "read" or "done"

vars == <<sender, receiver, at>>

None == [type |-> "none"]

Init == sender = None /\ receiver = None /\ at = "write"

\* One side constructs a message of any class.
Send ==
  /\ at = "write"
  /\ \E c \in MessageType : \E args \in [Class[c].set -> Val] :
       \E info \in Constructed(c, args) : sender' = [type |-> c, info |-> info]
  /\ at' = "read"
  /\ UNCHANGED receiver

\* The other side reads the body into an object of the class its func_id
\* names, constructed with the default arguments; the answers have none in the
\* code, so what their reader passes is taken to be the same.
Receive ==
  /\ at = "read"
  /\ \E c \in MessageType :
       \E info \in Constructed(c, [f \in Class[c].set |-> Default]) :
         receiver' = [type |-> c, before |-> info,
                      info |-> castFromString(c, info,
                                 toJson(sender.type, sender.info))]
  /\ at' = "done"
  /\ UNCHANGED sender

Next == Send \/ Receive

Spec == Init /\ [][Next]_vars

-----------------------------------------------------------------------------
ServerReads == {"Chat", "LogRequest", "RegRequest", "SendVerifyCode",
                "AddFriendRequest", "DeleteFriend", "FriendConfirm"}

FriendTypes == {"AddFriendRequest", "DeleteFriend", "FriendConfirm"}

\* What a client writes with one of the request classes the server reads back
\* with the same class, field for field, although two functions of the class
\* list the keys.
RequestsRoundTrip ==
  at = "done" /\ sender.type \in ServerReads /\ receiver.type = sender.type =>
    receiver.info = sender.info

\* No handler works with half of a message: the object is as constructed, or
\* writing it again, as handleChatMessage does to forward a chat, gives the
\* keys and values of the body it came from, whichever class wrote that body.
ReadsAllOrNothing ==
  at = "done" /\ receiver.type \in ServerReads
  /\ receiver.info # receiver.before =>
    LET body == toJson(sender.type, sender.info)
        again == toJson(receiver.type, receiver.info)
    IN \A k \in DOMAIN again : k \in DOMAIN body /\ again[k] = body[k]

\* A body of one friendship request under the func_id of another is never
\* taken for it: the ids stay those of the constructor, which name no user, so
\* a deletion or a new request cannot act as a confirmation or the reverse.
FriendBodiesDistinct ==
  at = "done" /\ sender.type \in FriendTypes /\ receiver.type \in FriendTypes
  /\ sender.type # receiver.type =>
    receiver.info["own_id"] = Default /\ receiver.info["friend_id"] = Default

\* from_json "parses from JSON into Info" (MessageBase.h and LoginMessage.h):
\* the friends of a login answer arrive.
LoginAnswerReadable ==
  at = "done" /\ sender.type = "LogResponse" /\ receiver.type = "LogResponse" =>
    receiver.info["private_info/friend_list"] =
      sender.info["private_info/friend_list"]

\* from_json "parses from JSON into Info" (ChatMessage.h): the applicant that
\* handleAddFriendReq puts into the notice arrives.
NoticeCarriesApplicant ==
  at = "done" /\ sender.type = "InformFriendApply"
  /\ receiver.type = "InformFriendApply" =>
    receiver.info["apply_public_info"] = sender.info["apply_public_info"]
=============================================================================
