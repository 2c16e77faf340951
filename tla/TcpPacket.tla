------------------------------ MODULE TcpPacket ------------------------------
(***************************************************************************)
(* TcpPacket on the wire: how frames become a stream of bytes, and what    *)
(* handleClient makes of a stretch of it.  One connection.  A byte is      *)
(* known by where it comes from; a read takes what TCP has ready, which    *)
(* may end anywhere, up to the size of a read.                             *)
(***************************************************************************)
EXTENDS Naturals, Sequences, FiniteSets

CONSTANTS
  ReadMax,     \* bytes one read takes at most (4096)
  BodyMax,     \* size of the array body (4096)
  BodyLengths, \* of the packets the client sends
  MaxPackets   \* bound: packets sent in a behaviour

HeaderLen == 8

\* The array body is as large as a read; that it is not much smaller is used.
ASSUME FrameAssumption ==
  /\ ReadMax \in Nat \ {0} /\ BodyMax \in Nat \ {0} /\ MaxPackets \in Nat
  /\ BodyLengths \subseteq 0..BodyMax
  /\ ReadMax < HeaderLen + BodyMax

VARIABLES
  client,     \* "any" | "patient": sends at will, or once the last packet
              \* has been handled
  sent,       \* Seq(Nat): lengths of the bodies sent
  stream,     \* Seq(byte), sent and not yet read
  at,         \* "new" | "waiting" | "handling" | "lost", the read loop
  tcp_packet, \* the packet being handled
  handled,    \* history: Seq(Nat), the packets whose handler has run
  split       \* history: a read has ended inside a frame

vars == <<client, sent, stream, at, tcp_packet, handled, split>>

\* The bytes of one field of the id-th packet.
Bytes(id, field, width) ==
  [k \in 1..width |-> [of |-> id, field |-> field, byte |-> k]]

\* The packet a client constructs, as the bytes of its fields.
Packet(id, len) ==
  [length |-> Bytes(id, "length", 4), func_id |-> Bytes(id, "func_id", 2),
   version |-> Bytes(id, "version", 1), reserved |-> Bytes(id, "reserved", 1),
   body |-> Bytes(id, "body", len)]

serializeconstPacket(p) ==
  p.length \o p.func_id \o p.version \o p.reserved \o p.body

\* A variant that reads the body from where the reserved byte is.
DecodeBodyEarly(ba, len) ==
  [length |-> SubSeq(ba, 1, 4), func_id |-> SubSeq(ba, 5, 6),
   version |-> SubSeq(ba, 7, 7), reserved |-> SubSeq(ba, 8, 8),
   body |-> SubSeq(ba, 8, 7 + len)]

\* The fields from positions 0, 4, 6 and 7, and len bytes from position 8.
Decode(ba, len) ==
  [length |-> SubSeq(ba, 1, 4), func_id |-> SubSeq(ba, 5, 6),
   version |-> SubSeq(ba, 7, 7), reserved |-> SubSeq(ba, 8, 8),
   body |-> SubSeq(ba, 9, 8 + len)]

\* What a stretch that does not begin with a whole header gives, if anything.
Garbled(body) ==
  [length |-> <<>>, func_id |-> <<>>, version |-> <<>>, reserved |-> <<>>,
   body |-> body]

NoPacket == Garbled(<<>>)

\* The packets p is, none or one: those whose length field it has.
Ids(p) == {p.length[k].of : k \in DOMAIN p.length}

\* The packets whose frame ba begins with, as far as readUint32 can tell.
Begins(ba) ==
  {id \in DOMAIN sent : Len(ba) >= HeaderLen
                        /\ SubSeq(ba, 1, 4) = Bytes(id, "length", 4)}

\* A variant whose comparison is off by one.
WholeAndMore(ba) ==
  {id \in Begins(ba) : Len(ba) > HeaderLen + sent[id]}

Whole(ba) == {id \in Begins(ba) : Len(ba) >= HeaderLen + sent[id]}

\* The first byte of a frame, and a read of n bytes that ends inside a frame.
Starts(b) == b.field = "length" /\ b.byte = 1

Splits(n) == n < Len(stream) /\ ~Starts(stream[n + 1])

Init ==
  /\ client \in {"any", "patient"}
  /\ sent = <<>> /\ stream = <<>> /\ at = "new"
  /\ tcp_packet = NoPacket /\ handled = <<>> /\ split = FALSE

-----------------------------------------------------------------------------
send(len) ==
  /\ Len(sent) < MaxPackets
  /\ client = "patient" => stream = <<>> /\ at = "waiting"
  /\ sent' = Append(sent, len)
  /\ stream' = stream \o serializeconstPacket(Packet(Len(sent) + 1, len))
  /\ UNCHANGED <<client, at, tcp_packet, handled, split>>

startAccpet ==
  /\ at = "new" /\ at' = "waiting"
  /\ UNCHANGED <<client, sent, stream, tcp_packet, handled, split>>

\* Variants: a read that leaves the bytes in the stream, and one that takes
\* the header by a read of its own.
handleClientPeek(n) ==
  /\ at = "waiting" /\ n \in DOMAIN stream /\ n <= ReadMax
  /\ \E id \in Whole(SubSeq(stream, 1, n)) :
       tcp_packet' = Decode(SubSeq(stream, 1, n), sent[id])
  /\ at' = "handling"
  /\ UNCHANGED <<client, sent, stream, handled, split>>

handleClientTwoReads(n) ==
  /\ at = "waiting" /\ n \in DOMAIN stream /\ n <= HeaderLen + ReadMax
  /\ stream' = SubSeq(stream, n + 1, Len(stream))
  /\ split' = (split \/ Splits(n))
  /\ \E id \in Whole(SubSeq(stream, 1, n)) :
       tcp_packet' = Decode(SubSeq(stream, 1, n), sent[id])
  /\ at' = "handling"
  /\ UNCHANGED <<client, sent, handled>>

\* What is made of the stretch ba: the packet it begins with.  If it has the
\* header and not all of the body, ByteArray gives some of what there is; if it
\* does not begin with a header, some packet of no more than its bytes.
Decoded(ba) ==
  \/ \E id \in Whole(ba) : tcp_packet' = Decode(ba, sent[id])
  \/ \E id \in Begins(ba) \ Whole(ba) :
       \E len \in 0..(Len(ba) - HeaderLen) : tcp_packet' = Decode(ba, len)
  \/ /\ Begins(ba) = {}
     /\ \E m \in {HeaderLen} \cup HeaderLen..Len(ba) :
          tcp_packet' = Garbled(SubSeq(ba, HeaderLen + 1, m))

\* handleClient with rt = n: one packet is decoded, the bytes after it go with
\* ba.  ByteArray may also throw where a packet is not whole: then handleClient
\* is left without the READ event registered again.
handleClient(n) ==
  LET ba == SubSeq(stream, 1, n) IN
    /\ at = "waiting" /\ n \in DOMAIN stream /\ n <= ReadMax
    /\ stream' = SubSeq(stream, n + 1, Len(stream))
    /\ split' = (split \/ Splits(n))
    /\ \/ at' = "handling" /\ Decoded(ba)
       \/ Whole(ba) = {} /\ at' = "lost" /\ UNCHANGED tcp_packet
    /\ UNCHANGED <<client, sent, handled>>

\* The packet and the history once the handler has returned.
Done ==
  /\ handled' = IF Ids(tcp_packet) = {} THEN handled
                ELSE Append(handled, CHOOSE id \in Ids(tcp_packet) : TRUE)
  /\ tcp_packet' = NoPacket

\* handleData and wathcIoRead: the packet is done with, the next may be read.
handleData ==
  /\ at = "handling" /\ at' = "waiting"
  /\ Done
  /\ UNCHANGED <<client, sent, stream, split>>

-----------------------------------------------------------------------------
Server == startAccpet \/ handleData \/ \E n \in DOMAIN stream : handleClient(n)

Next == Server \/ \E len \in BodyLengths : send(len)

Spec == Init /\ [][Next]_vars

\* The server accepts, reads what is there and finishes its handlers; a client
\* may stop sending at any time.
FairSpec == Spec /\ WF_vars(Server)
-----------------------------------------------------------------------------
AsSent(p, id) == id \in DOMAIN sent /\ p = Packet(id, sent[id])

\* The rest of the packet is what the next read begins with.
RestFollows(id) == stream # <<>> /\ stream[1].of = id

\* However TCP cuts the stream, a packet a handler gets with a header is one
\* the client sent, field for field, with no byte of another in it, and with
\* its whole body unless the read ended inside it; none is handled twice and
\* none before an earlier one.
HandledInOrder ==
  \A id \in Ids(tcp_packet) :
    /\ \/ AsSent(tcp_packet, id)
       \/ /\ id \in DOMAIN sent /\ RestFollows(id)
          /\ \E len \in 0..sent[id] : tcp_packet = Packet(id, len)
    /\ \A i \in DOMAIN handled : handled[i] < id

\* castFromString takes the array for a C string: there is always room for
\* the byte that ends it, because the header comes out of the same read.
BodyTerminated == at = "handling" => Len(tcp_packet.body) < BodyMax

\* As long as TCP and the size of a read let every read end where a frame ends,
\* however many frames it takes, no handler gets anything but a packet as the
\* client sent it, and the connection is not lost.
NothingGarbled ==
  ~split =>
    /\ at # "lost"
    /\ at = "handling" => \E id \in DOMAIN sent : AsSent(tcp_packet, id)

\* The packets that begin in the stream, and numbers in ascending order.
Unread == {stream[i].of : i \in {j \in DOMAIN stream : Starts(stream[j])}}

Sorted(S) ==
  [k \in 1..Cardinality(S) |->
     CHOOSE id \in S : Cardinality({x \in S : x <= id}) = k]

Life == IF at = "new" THEN "new" ELSE "open"

Inbox == Sorted(Unread)

Serving == Ids(tcp_packet)

Talk == INSTANCE Conversation WITH
          Client <- {1},
          Id <- 1..MaxPackets,
          life <- [c \in {1} |-> Life],
          inbox <- [c \in {1} |-> Inbox],
          serving <- [c \in {1} |-> Serving]

\* Until the first read that ends inside a frame, the bytes keep to
\* Conversation, packets in place of bytes.  The model of the server, which
\* reads whole packets, is about such connections.
FramedConversation ==
  /\ Talk!ConversationInit
  /\ [][split' \/ Talk!ConversationNext]_(Talk!convVars)

\* Of a client that waits until each packet has been handled, every packet is,
\* unless a read ends inside a frame: the next read is always asked for.
EachHandled ==
  \A id \in 1..MaxPackets :
    client = "patient" /\ id \in DOMAIN sent ~>
      split \/ \E i \in DOMAIN handled : handled[i] = id
=============================================================================
