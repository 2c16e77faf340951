-------------------------- MODULE MessageCodec_proofs --------------------------
(***************************************************************************)
(* Proofs about the JSON form of the messages, for any set of values a     *)
(* field may have: requests arrive field for field, an object never holds  *)
(* half of a body, and friendship requests are not taken for one another.  *)
(***************************************************************************)
EXTENDS MessageCodec, TLAPS

-----------------------------------------------------------------------------
(* The classes the server reads.                                           *)

\* The two lists of keys of a class are those of its fields.
Plain(c) ==
  /\ Class[c].reads = Same(Class[c].fields)
  /\ Class[c].writes = Same(Class[c].fields)

LEMMA Requests ==
  /\ Class["Chat"] = ChatMessage
  /\ Class["LogRequest"] = LoginRequestMessage
  /\ Class["RegRequest"] = RegisterRequestMessage
  /\ Class["SendVerifyCode"] = VerifyCodeMessage
  /\ Class["AddFriendRequest"] = AddFriendRequestMessage
  /\ Class["DeleteFriend"] = DeleteFriendMessage
  /\ Class["FriendConfirm"] = FriendConfirmMessage
BY DEF Class

LEMMA PlainRequests ==
  ASSUME NEW c \in ServerReads
  PROVE  Plain(c)
<1>1. CASE c = "Chat"
  BY <1>1, Requests DEF Plain, ChatMessage
<1>2. CASE c = "LogRequest"
  BY <1>2, Requests DEF Plain, LoginRequestMessage
<1>3. CASE c = "RegRequest"
  BY <1>3, Requests DEF Plain, RegisterRequestMessage
<1>4. CASE c = "SendVerifyCode"
  BY <1>4, Requests DEF Plain, VerifyCodeMessage
<1>5. CASE c = "AddFriendRequest"
  BY <1>5, Requests DEF Plain, AddFriendRequestMessage
<1>6. CASE c = "DeleteFriend"
  BY <1>6, Requests DEF Plain, DeleteFriendMessage
<1>7. CASE c = "FriendConfirm"
  BY <1>7, Requests DEF Plain, FriendConfirmMessage
<1> QED BY <1>1, <1>2, <1>3, <1>4, <1>5, <1>6, <1>7 DEF ServerReads

\* What such a class writes is its Info, and what it reads is the body.
LEMMA PlainWrites ==
  ASSUME NEW c, Plain(c), NEW info \in [Class[c].fields -> Val]
  PROVE  toJson(c, info) = info
BY DEF Plain, Same, toJson

LEMMA PlainReads ==
  ASSUME NEW c, Plain(c), NEW info, NEW body
  PROVE  /\ Readable(c, body) <=> Class[c].fields \subseteq DOMAIN body
         /\ Readable(c, body) =>
              castFromString(c, info, body) = [f \in Class[c].fields |-> body[f]]
         /\ ~Readable(c, body) => castFromString(c, info, body) = info
BY DEF Plain, Same, Readable, castFromString

\* The friendship requests: all members come from the arguments, and no body
\* has all the keys another asks for.
LEMMA FriendRequests ==
  ASSUME NEW c \in FriendTypes
  PROVE  /\ Class[c].set = Class[c].fields /\ Class[c].raw = {}
         /\ {"own_id", "friend_id"} \subseteq Class[c].fields
         /\ \A d \in FriendTypes :
              Class[c].fields \subseteq Class[d].fields => c = d
<1>1. /\ Class["AddFriendRequest"].fields =
           {"own_username", "friend_username", "friend_id", "own_id"}
      /\ Class["DeleteFriend"].fields = {"username", "friend_id", "own_id"}
      /\ Class["FriendConfirm"].fields = {"success", "friend_id", "own_id"}
  BY Requests DEF AddFriendRequestMessage, DeleteFriendMessage, FriendConfirmMessage
<1>2. Class[c].set = Class[c].fields /\ Class[c].raw = {}
  BY Requests
  DEF FriendTypes, AddFriendRequestMessage, DeleteFriendMessage, FriendConfirmMessage
<1>3. {"own_id", "friend_id"} \subseteq Class[c].fields
  BY <1>1 DEF FriendTypes
<1>4. ASSUME NEW d \in FriendTypes, Class[c].fields \subseteq Class[d].fields
      PROVE  c = d
  BY <1>1, <1>4 DEF FriendTypes
<1> QED BY <1>2, <1>3, <1>4

-----------------------------------------------------------------------------
\* What has been sent is an Info of its class, and what was received is what
\* castFromString made of it in a new object.
CodecInv ==
  /\ at \in {"write", "read", "done"}
  /\ at # "write" =>
       sender.type \in MessageType /\ sender.info \in Info(sender.type)
  /\ at = "done" =>
       /\ receiver.type \in MessageType
       /\ receiver.before \in
            Constructed(receiver.type, [f \in Class[receiver.type].set |-> Default])
       /\ receiver.info = castFromString(receiver.type, receiver.before,
                                         toJson(sender.type, sender.info))

LEMMA Codec == Spec => []CodecInv
<1>1. Init => CodecInv
  BY DEF Init, CodecInv
<1>2. ASSUME CodecInv, Send
      PROVE  CodecInv'
  <2>1. PICK c \in MessageType : \E args \in [Class[c].set -> Val] :
          \E info \in Constructed(c, args) : sender' = [type |-> c, info |-> info]
    BY <1>2 DEF Send
  <2>2. PICK args \in [Class[c].set -> Val] :
          \E info \in Constructed(c, args) : sender' = [type |-> c, info |-> info]
    BY <2>1
  <2>3. PICK info \in Constructed(c, args) : sender' = [type |-> c, info |-> info]
    BY <2>2
  <2>4. info \in Info(c) /\ sender'.type = c /\ sender'.info = info
    BY <2>3 DEF Constructed
  <2> QED BY <1>2, <2>4 DEF Send, CodecInv
<1>3. ASSUME CodecInv, Receive
      PROVE  CodecInv'
  <2>1. PICK c \in MessageType :
          \E before \in Constructed(c, [f \in Class[c].set |-> Default]) :
            receiver' = [type |-> c, before |-> before,
                         info |-> castFromString(c, before,
                                    toJson(sender.type, sender.info))]
    BY <1>3 DEF Receive
  <2>2. PICK before \in Constructed(c, [f \in Class[c].set |-> Default]) :
          receiver' = [type |-> c, before |-> before,
                       info |-> castFromString(c, before,
                                  toJson(sender.type, sender.info))]
    BY <2>1
  <2>3. /\ receiver'.type = c /\ receiver'.before = before
        /\ receiver'.info = castFromString(c, before,
                                           toJson(sender.type, sender.info))
    BY <2>2
  <2> QED BY <1>3, <2>3 DEF Receive, CodecInv
<1>4. ASSUME CodecInv, UNCHANGED vars
      PROVE  CodecInv'
  BY <1>4 DEF CodecInv, vars
<1> QED BY <1>1, <1>2, <1>3, <1>4, PTL DEF Spec, Next

\* Whatever the values, the server reads a request as its client wrote it.
THEOREM RequestsArrive == Spec => []RequestsRoundTrip
<1>1. ASSUME CodecInv, at = "done", sender.type \in ServerReads,
             receiver.type = sender.type
      PROVE  receiver.info = sender.info
  <2> DEFINE c == sender.type
  <2>1. Plain(c)
    BY <1>1, PlainRequests
  <2>2. sender.info \in [Class[c].fields -> Val]
    BY <1>1 DEF CodecInv, Info
  <2>3. toJson(c, sender.info) = sender.info
    BY <2>1, <2>2, PlainWrites
  <2>4. receiver.info = castFromString(c, receiver.before, sender.info)
    BY <1>1, <2>3 DEF CodecInv
  <2>5. receiver.info = [f \in Class[c].fields |-> sender.info[f]]
    BY <2>1, <2>2, <2>4, PlainReads
  <2> QED BY <2>2, <2>5
<1>2. CodecInv => RequestsRoundTrip
  BY <1>1 DEF RequestsRoundTrip
<1> QED BY <1>2, Codec, PTL

\* Whichever class wrote a body and whatever the values, a handler works with
\* all the fields it reads of it, or with none.
THEOREM WholeOrNone == Spec => []ReadsAllOrNothing
<1>1. ASSUME CodecInv, at = "done", receiver.type \in ServerReads,
             receiver.info # receiver.before,
             NEW k \in DOMAIN toJson(receiver.type, receiver.info)
      PROVE  LET body == toJson(sender.type, sender.info) IN
               /\ k \in DOMAIN body
               /\ toJson(receiver.type, receiver.info)[k] = body[k]
  <2> DEFINE c == receiver.type
             body == toJson(sender.type, sender.info)
  <2>1. Plain(c)
    BY <1>1, PlainRequests
  <2>2. receiver.info = castFromString(c, receiver.before, body)
    BY <1>1 DEF CodecInv
  <2> HIDE DEF body
  <2>3. Readable(c, body)
    BY <1>1, <2>1, <2>2, PlainReads
  <2>4. /\ Class[c].fields \subseteq DOMAIN body
        /\ receiver.info = [f \in Class[c].fields |-> body[f]]
    BY <2>1, <2>2, <2>3, PlainReads
  <2>5. toJson(c, receiver.info) = [f \in Class[c].fields |-> receiver.info[f]]
    BY <2>1 DEF Plain, Same, toJson
  <2>6. k \in Class[c].fields
    BY <1>1, <2>5
  <2>7. k \in DOMAIN body /\ toJson(c, receiver.info)[k] = body[k]
    BY <2>4, <2>5, <2>6
  <2> QED BY <2>7 DEF body
<1>2. CodecInv => ReadsAllOrNothing
  BY <1>1 DEF ReadsAllOrNothing
<1> QED BY <1>2, Codec, PTL

\* A friendship request is never taken for another kind of friendship request,
\* whatever ids and names it has.
THEOREM FriendRequestsApart == Spec => []FriendBodiesDistinct
<1>1. ASSUME CodecInv, at = "done", sender.type \in FriendTypes,
             receiver.type \in FriendTypes, sender.type # receiver.type
      PROVE  receiver.info["own_id"] = Default /\ receiver.info["friend_id"] = Default
  <2> DEFINE c == receiver.type
             d == sender.type
             body == toJson(d, sender.info)
  <2>1. Plain(c) /\ Plain(d)
    BY <1>1, PlainRequests DEF FriendTypes, ServerReads
  <2>2. sender.info \in [Class[d].fields -> Val]
    BY <1>1 DEF CodecInv, Info
  <2>3. DOMAIN body = Class[d].fields
    BY <2>1, <2>2, PlainWrites
  <2>4. receiver.info = castFromString(c, receiver.before, body)
    BY <1>1 DEF CodecInv
  <2> HIDE DEF body
  <2>5. ~Readable(c, body)
    BY <1>1, <2>1, <2>3, PlainReads, FriendRequests
  <2>6. receiver.info = receiver.before
    BY <2>1, <2>4, <2>5, PlainReads
  <2>7. receiver.before \in Constructed(c, [f \in Class[c].set |-> Default])
    BY <1>1 DEF CodecInv
  <2>8. \A f \in Class[c].fields : receiver.before[f] = Default
    BY <1>1, <2>7, FriendRequests DEF Constructed
  <2> QED BY <1>1, <2>6, <2>8, FriendRequests
<1>2. CodecInv => FriendBodiesDistinct
  BY <1>1 DEF FriendBodiesDistinct
<1> QED BY <1>2, Codec, PTL
================================================================================
