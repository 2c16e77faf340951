# Verification of App-server

App-server is the server of a small instant messenger: clients open a TCP
connection, log in, chat, and manage friendships that are kept in MySQL.  This
directory holds TLA+ modules that model the server, the TLC configurations
that check them on small instances, and proofs that hold for every instance.

## 1. Inventory

| Component (source) | State | Operations | Talks to |
|---|---|---|---|
| `MyTcpServer` (`MyTcpServer.cpp`) | none of its own; one socket, one READ event and one idle timer per connection | `startAccpet`, `handleClient`, `wathcIoRead`, `sendMessageToClient` (`watchIoWrite` is never called) | the Zues `IoManager` (20 threads, `main.cpp`), `DataHandleMachine` |
| `DataHandleMachine` (`DataHandle.cpp`) | a mutex, the mail sender | `handleData` and one handler per `func_id`: chat, login, register, verify code, add friend, delete friend, friend confirm | the DAOs, the connection map, the scheduler |
| `UserConnectionManager` | the map uid -> (socket, is_online), one read-write lock | `addUser`, `selectUser`, `changeOnline`; `deleteUser` and `init` are never called | called by handlers and by idle timers |
| `FriendShipDao` / `BaseDao` | table `friendships`; one database connection shared by all threads | `insert`, `update`, `remove`, two list queries | MySQL |
| `UsersDao` | table `users` | `insert` (always fails: it binds no parameter), three queries | MySQL |
| `MysqlConnectPool`, `MysqlConfig` | a queue of 10 connections, a mutex, a condition variable; four strings | `getConnection` with a timeout, `releaseConnection` | the constructors and destructors of the DAOs |
| Messages (`Message/`) | the fields of one message | `castFromString`, `toJson`, `TcpPacket` framing | handlers |
| `main.cpp` | - | sets the database parameters, starts 20 workers, binds with retries | all |
| `CommunicatorServer`, `ClientHandler` | a Qt server with a thread per client, no longer started by `main` | accept, read, print | Qt |
| Zues framework | external, an empty submodule | sockets, events, scheduler, timers | - |

What is hard here: twenty threads run handlers and callbacks in any order; a
connection has a one-shot READ event that someone must re-register; the socket
of a user is looked up at one time and written to at another; entries of the
map outlive connections; two users change the rows of one pair at once; any
statement may fail and its result is often ignored; one null pointer ends the
process.  `PROJECT.json` lists each hazard at its line.

What makes each component correct:

- read loop: a connection is read by one worker at a time and never forgotten;
  it is closed once its peer is gone;
- handlers: an answer goes to the connection it belongs to, once; a friend
  request finds a socket for every user who has logged in;
- connection map: an entry is stable, and it is backed by a login;
- friendships: whatever rows exist, each pair of users follows a small state
  machine, and a friend who is listed was confirmed;
- pool: a connection is in the queue or with one DAO, an entry of the queue
  never lies there while everybody sleeps, and a constructor returns;
- DAOs: a statement puts each value into its column, a call that returns true
  has been carried out, users never change;
- frames: what a handler gets is a packet the client sent or the beginning of
  one, in order, and the packets themselves while no read cuts a frame;
- start up: the pool is opened with the whole configuration, the constructors
  of the single objects do not wait for one another in a circle;
- message formats: what one side writes the other side can read.

## 2. Modules

    Message ── Zues ── UserConnectionManager ──┐
       └────── FriendShipDao ──────────────────┴─ DataHandle ── MyTcpServer
    MyTcpServer       implements FriendPairs, Conversation
    TcpPacket         implements Conversation
    MysqlConnectPool  implements Lending
    BaseDao           implements Table
    Startup, MessageCodec                                (stand alone)

Each of the modules on the left, `Startup` and `MessageCodec` has an `MC` module
for TLC.  `MyTcpServer_proofs`, the modules that extend it (`Conversation_proofs`,
`DataHandle_proofs`), `MysqlConnectPool_proofs`, `TcpPacket_proofs`,
`BaseDao_proofs`, `Startup_proofs` and `MessageCodec_proofs` hold the theorems.

The server:

- `Message`: a packet is what a handler branches on: its function, the two user
  ids, how a password compares, and whether the body can be parsed.
  `castFromString` gives the body a handler works with; for an unreadable body
  that is the constructor's default, and for a chat an id nobody initialised.
  `UnsetUid` are the ids such a variable may hold in an instance.  `PublicInfo`
  is an entry of the lists in a login answer, with or without a name.
- `Zues` (external): `sock`, `peer`, `armed` (registered READ events), `tasks`
  (scheduled callbacks, a set because any worker may take any of them),
  `written` (what reached a connection).
- `UserConnectionManager`: `m_connect_info`.  Each operation holds the lock
  throughout, so each is one step.
- `FriendShipDao`: `friendships`, a set of rows.  A row carries the id of the
  packet that inserted it so that equal rows stay apart.  `confirmed` is a
  history variable.  The initial table is any subset of `StoredRows`, because
  the table outlives the process: a restart is a new behaviour from a non-empty
  table and an empty map.
- `DataHandle`: `worker` holds the phase and the local variables of the handler
  each worker runs.  A handler is cut at each database statement and each use
  of the map; everything between is thread-local.  The lookups of the names in
  a list are one step with the query that gave the ids, because nothing changes
  the users; each of them may fail, and gives an entry without a name and with
  an id nobody set (`Lists`).  A statement may fail at any time; what is thrown
  while the rows of a result are read leaves the handler (`rowsThrow`).
  `crashed` is set by the null pointer of `handleAddFriendReq`; `logins` is a
  history of passed password checks, `dropped` one of the connections whose
  handler an exception has left.
- `MyTcpServer`: composes the above with clients that send and hang up, idle
  timers and the read loop.  `stream` is what a client sent and the server has
  not read.  A read takes any number n >= 1 of the packets there, decodes the
  first and drops the rest, as `handleClient` does with its one buffer.
- `FriendPairs`: the abstract specification of friendships, one set of statuses
  per unordered pair.
- `Conversation`: the abstract specification of a connection: new, open, closed
  for good; while open, packets are served one at a time in the order they were
  sent, and some may be skipped.

Beside and below it:

- `TcpPacket`: one connection byte by byte.  A frame is a header of eight bytes
  and a body; a read takes what TCP has ready, up to the size of a read, and is
  decoded as if a frame began there.  A byte is known by the packet and the
  field it belongs to.  The client sends at will (`any`) or waits for each
  packet to be handled (`patient`).  A read may end inside a frame, which the
  history `split` records; what is decoded then has the header and part of the
  body, or no header, or the connection is lost to an exception of the byte
  array.
- `BaseDao` (with `Table`): what a statement of `FriendShipDao` or `UsersDao`
  is made of, in the steps at which another worker may come in: prepare,
  execute, return or be left by an exception.  A lookup copies the id, the name
  and the password of a row.  The keys `insert` can bind and the order of a `std::map`
  decide what lands where.
- `MysqlConnectPool` (with `Lending`): the queue, the wait of `getConnection`
  with its predicate, time-out and spurious wake-ups, `releaseConnection` with
  `notify_one`, connections that could not be created, and the DAOs.
- `Startup`: `main`, the workers, the bind with its retries, and the single
  objects (two DAOs, the pool, the configuration) that the first call of a
  `getInstance` constructs while other callers wait.
- `MessageCodec`: the JSON form of all thirteen message classes, each as the
  members of its `Info`, those its constructor sets, those left uninitialised,
  and the two lists of keys kept by hand in `toJson` and `from_json`.  One
  behaviour constructs and writes a message (`Send`) and reads its body into an
  object of any class (`Receive`), since the `func_id` of a frame and its body
  are chosen separately.  `Message!castFromString` is what this reading amounts
  to for the requests a handler reads.
- Operators next to a definition and described as a variant of it (for example
  `addUserOverwriting`) are faulty versions: each checked property is also run
  against one of them and must fail.

Correspondence of steps:

| Code | Actions |
|---|---|
| one turn of `startAccpet` | `startAccpet(c)` |
| the timer lambda | `idleTimeout(c)`; whether dropping the manager's reference closes the socket is left open |
| `handleClient`, data read | `handleClientRead(w, c, n)`, the steps of `handleData(w)`, then `handleClientRearm(w)` |
| `handleClient`, end of stream or read error | `handleClientClosed(w, c)`; an error may come while the peer is there |
| scheduled callbacks | `wathcIoRead(w, t)`, `sendMessageToClient(w, t)` |
| `handleLoginMessage` | `loginSelect`, `loginFriends`, `loginApplies`, `loginCache`, `loginAddUser`, `loginReply` |
| `handleAddFriendReq` | `addFriendInsert`, `addFriendSelect`, `addFriendInform` |
| other handlers | one action each |
| an `SQLException` of a row loop | `rowsThrow(w)` of `DataHandle` and of `BaseDao` |
| `handleClient`, the bytes of one read (`TcpPacket`) | `handleClient(n)`, then `handleData` |
| `insert`, `update`, `remove`, the lookups (`BaseDao`) | `enter`, `prepareStatement`, `executeUpdate`, `executeQuery` or `rowsThrow`, `leave` |
| `BaseDao()`, `~BaseDao()` | `getConnection`, `recheck` after each wake-up (`timeOut`, `spuriousWakeup`, a release); `releaseConnection` |
| a first `getInstance` (`Startup`) | `construct`, `constructed`; `found` for the later ones |

## 3. Runs

| Run | Instance | Shows |
|---|---|---|
| `chat` | 2 connections, 2 workers, 3 packets: logins, a chat, an unreadable login; nobody leaves | types, the read token, addressing, a chat is settled once |
| `sessions` | 2 connections that hang up or time out, 2 workers, 2 packets: logins, a chat, a friend request | the read token, refinement of `Conversation`, entries never move, a friend request is safe for a user whose login was answered |
| `pair` | 2 connections, 2 workers, 3 packets on one pair, any old table | refinement of `FriendPairs`, friends listed by name were confirmed |
| `live` | 2 connections, 1 worker, 2 packets: one of every handler and an unreadable login; one connection may end, fairness | reads resume and dead connections are closed unless an exception dropped them, answers are written |
| `pool` | 3 DAOs, 2 connections of which any may fail, 8 constructions, fairness | types, ownership, no lost wakeup, balance of entries, a large enough pool serves all, refinement of `Lending`, constructors return |
| `frames` | 3 packets of 4 lengths, reads of up to 17 bytes that end anywhere, both clients, fairness | order, room for the end of the body; until a read ends inside a frame nothing garbled, refinement of `Conversation`, each packet handled |
| `dao` | 2 workers, 4 calls on both tables, old rows | true means done, a lookup gives the id, name and password of a row asked for, refinement of `Table`, users never change |
| `startup` | `main` and 3 workers, 4 calls of a DAO, 2 failed binds, fairness | the pool sees the whole configuration, no circle of waits, every `getInstance` returns |
| `codec` | every class written, read as every class, 3 values per field | requests round-trip, an object is as constructed or repeats the body it read, friendship requests are not confused |
| `stale_socket` | 2 connections, 1 worker, 2 packets | expected violation, see below |
| `login_answer`, `notice` | as `codec` | expected violations, see below |

Deadlock is not checked: every instance is bounded (packets, calls,
constructions), and a crash ends the program.  Safety runs of the server and of
the DAOs use symmetry over clients and workers; runs with liveness do not.

Bounds.  All instances of the server have two stored users and id 0.  Every
interaction the properties speak of involves at most two connections (one that
writes and one that is written to, or an old and a new connection of one user),
two workers (two handlers on one pair; one handler and one callback) and two or
three packets (log in, then be addressed; request, confirm, log in).  `pair`
has no confirmation that rejects: it is the DELETE that a deletion makes, and
stands in `live`.  `Leaving` names the connections that may end; it is empty
where endings would only multiply states.  `UnsetUid` is one id per instance,
chosen where it hurts: a user who can be taken for another.  The theorems of section 5 remove the bounds for every
safety property and refinement of the passing runs.

In `pool` three DAOs at two connections make the cases of interest: one sleeper,
one who is woken and one who comes in between; with fewer DAOs alive or a
connection missing, the premise of `ServesAll` is met or not.  Eight
constructions let each DAO wait, give up, queue its null pointer and come back.

In `frames` the header has its real eight bytes, and a read and the array `body`
have one size, as in the code, of 17 in place of 4096: two whole frames without
body and a byte of a third go into it.  The lengths are none, the longest
that fits a read with its header, the next one, and the longest the array
takes.  In `dao` one insertion, one update and one removal may overlap with a
lookup.  In the codec runs three values (the default and two others) suffice to
tell a field from its default and from another field; a message has at most
five.

Fairness.

- Server: weak fairness of a worker's next step (handlers contain no wait), of
  reading a ready connection and of running queued callbacks (the scheduler
  takes what is queued; an idle worker is found again because handlers end).
  Clients, accepts, idle timers and read errors owe nothing.  A crash
  satisfies every obligation; an exception that leaves a handler satisfies
  those of its connection and of no other, since the worker runs on (section 6).
- Pool: a DAO that is awake gets the lock again, since the lock is held for a
  few statements only; time passes, so a wait runs out.  No fairness of
  releases: `CallsReturn` holds by the time-out alone.
- Frames: the server accepts, reads what is there and finishes handlers.
- Start up: threads run.  Nothing says that a bind succeeds.

## 4. What the checks found

`stale_socket`: nothing removes an entry from the connection map when its
connection closes, and `addUser` keeps the first entry.  After a reconnect the
user's login is answered, but chats for the user go to the closed socket, while
the comment on `selectUser` promises the user's socket.  `BindingStable` is the
other face of the same design: it is what makes `handleAddFriendReq` safe for
users who have logged in once (`AnsweredUserIsSafe`), so that a change which
deletes entries on close must also test for the null pointer.

`login_answer`: `to_json` of `PersonalPrivateInfo` writes `friend_list`, its
`from_json` asks for `friend_listg`.  `LoginResponseMessage` can therefore read
no answer it wrote, and the exception is swallowed.  The server itself only
writes this class; the comment on `from_json` says it parses JSON into `Info`.

`notice`: `InformFriendApplyMessage::toJson` writes neither the applicant that
`handleAddFriendReq` put in nor the key its `from_json` reads (and the key of
the friend's id is spelt `friend_id,`).  The friend learns of a request, not
whose.

Registration can never succeed (run `dao`, `UsersUnchanged`).  `insert` writes
one placeholder for each column but binds only those of `friendships`; the
INSERT of a user is executed without values and refused, and every client that
registers is told false.  Users come into the table by other means only.

Seen while modelling, and part of the models:

- The emails of the users are never read: both lookups of `UsersDao` copy the
  id, the name and the password, so the user and the lists in a login answer go
  out with an empty email (`LookupIsRow`).
- The rows of a query are read outside of any `try`.  An `SQLException` there
  skips the line that queues `wathcIoRead`, and an open connection is never read
  again; `ReadToken` and `ReadResumes` say that this is the only way to lose one.
- A lookup that fails while a list of friends is built still makes an entry: no
  name, and an id nobody set, which may be any user's.  `ListedFriendsConfirmed`
  is about the entries with a name.
- A frame that TCP delivers in pieces is handled with part of its body, and its
  rest is taken for a frame, or the connection is lost.  `HandledInOrder` says
  what holds all the same; the other properties of `frames` end with the first
  read that ends inside a frame.
- `run()` tries a failed bind again with the vector of failures as the last try
  left it.  Whether a retry can succeed is up to the library.

## 5. Proofs

All theorems hold for arbitrary constants, from the assumptions named in the
modules: 0 is not a stored user; `NoClient` is not a client; the inputs are well
typed; there are finitely many DAOs; `"none"` and `"built"` are not threads; the
records callers give have the columns of their table, and rows of an earlier run
have ids this run does not give; and a read is smaller than a header and the
array `body` together (`ReadMax < HeaderLen + BodyMax`; both are 4096 in the
code, `MyTcpServer.cpp:13` and `MessageBase.h:20`).

`MyTcpServer_proofs`:

- `TypeCorrect`: `Spec => []TypeOK`.  Inductive form `TypeInv`: a busy worker
  has a connection, and one about to inform a friend has the friend's socket.
- `ReadTokenHeld`: `Spec => []ReadToken`.  Inductive form `TokenInv`: moreover
  nobody holds the token of a connection that is not accepted yet.  Only an
  exception lets go of it, and `dropped` remembers that.  A handler
  neither moves nor copies the token (`HandlerKeepsToken`), so the cases left
  are accept, read, re-arm, re-register and close.
- `OnlyLoggedInReceive`: `Spec => []AddressedToLoggedIn`.  The property is not
  inductive: the socket comes from the map or from a worker's local variable.
  `AddressedInv` adds that entries of the map, logins under way and friend
  notices under way are all backed by a passed check; the history only grows
  (`LoginsGrow`).
- `BindingNeverMoves`: `Spec => BindingStable`, from `BindingFrame`: the map
  changes only where a login registers its user.

`Conversation_proofs`:

- `ImplementsConversation`: `Spec => ConversationSpec`.  The refinement mapping
  takes the state of the socket, the ids of the packets not yet read, and the
  packet of the worker that handles the connection.  A read maps to `Take`, the
  end of `handleClient` to `Finish`, a close to `Close`, everything else but
  sending and accepting to a stutter.  `TalkInv` is needed for two of them: the
  token, because a second worker on the connection would be a second packet
  under way, and that only accepted connections are kept by the manager,
  because a time-out closes an open one or does nothing.

`MysqlConnectPool_proofs`.  `StepKinds` reduces a step to what becomes of its
caller: it takes an entry, sleeps, gives up, is woken, releases, or nothing.

- `PoolTypeCorrect`: `Spec => []PoolTypeOK`.  `TypeInv` adds that nothing is in
  the pool before it is created, and that only a built DAO holds a connection.
- `NoWakeupLost`: `Spec => []NoLostWakeup`, inductive with the types: an entry
  added while somebody sleeps wakes somebody, and only an empty queue puts
  anyone to sleep.
- `OneOwnerEach`: `Spec => []OneOwner`.  `OwnerInv` adds that no entry is a
  connection that failed.
- `ImplementsLending`: `Spec => LendingSpec`, from `OwnerInv`: the front of the
  queue is in no other place, so that taking it takes it out of the free set.
- `QueueBalanced`: `Spec => []EntriesConserved`, with "nobody has given up
  before the pool is created".
- `LargeEnoughServes`: `Spec => []ServesAll`.  By the balance of entries a
  constructor that finds the queue empty meets at least `MaxConnect` DAOs that
  are built; `ServeInv` adds that `peak` bounds the DAOs
  alive and that no null pointer is about in a pool that never had too many.

`DataHandle_proofs`:

- `UserStaysSafe`: `Spec => []AnsweredUserIsSafe`.  `SafeInv` says it of the map:
  a user whose login is answered, or is about to be, has an entry, and a crash
  has a friend without one; entries are never removed.
- `ListedAreConfirmed`: `Spec => []ListedFriendsConfirmed`.  The list is read
  some steps before it is sent, so `ListInv` follows it back: through the
  answers, through the workers that carry a list, to the accepted rows, all of
  which belong to pairs in `confirmed`.  The entries a failed lookup makes have
  no name, and the invariant leaves them aside.
- `ImplementsFriendPairs`: `Spec => FriendPairsSpec`.  The refinement mapping
  takes the set of statuses of each pair.  By `TableStep` a step is one
  statement about one pair or leaves the table alone.
- `ChatsSettle`: `Spec => []ChatSettledOnce`.  `SettledInv` follows a packet by
  its id: it is unread in one stream at one place, or with one worker, and once
  an answer of a chat exists it is unread nowhere and a worker that still has it
  is past its handler.

`TcpPacket_proofs`.  The stream is kept as two facts (`StreamInv`): it is
`Aligned`, that is every byte is one of a frame that was sent and the rest of the
frame follows it with nothing in between, and the frames begin in it in
`Ascending` order.  A frame put at the end keeps both, and so does any cut.

- `HandledAsSent`: `Spec => []HandledInOrder`.  By `StreamInv` a stretch that
  begins with the length field of a packet and is long enough holds all of it, so
  `Decode` gives back its fields; one that has the header and not all of the
  body gives a beginning of it, and its rest is what the stream begins with
  (`Part`).  `HandleInv` adds that the packets which begin
  in the stream are later than the one being handled and all that were handled.
- `Terminated`: `Spec => []BodyTerminated`, inductive with `StreamInv`: a body is
  part of a read without the eight bytes of the header.
- `NotGarbled`: `Spec => []NothingGarbled`.  `TameInv`: while no read has ended
  inside a frame the stream is empty or begins with a frame, so that a read
  takes whole frames and begins with one.
- `FramesConverse`: `Spec => FramedConversation`.  The packets not yet read are
  those whose first byte is in the stream; `FramesInv` says that until the first
  cut they are an interval that ends with the last one sent.  A send appends to
  it; a read takes a beginning of it, serves the first and skips the rest
  (`SortedDrop`).

`BaseDao_proofs`.  Each action is summed up in one lemma about the call it
belongs to and the tables.  `insert` binds through a loop over the keys, which
for the three keys of either table is unrolled: all three of `friendships`, none
of `users`.

- `ToldTruth`: `Spec => []TrueMeansDone`.  `ToldInv`: a call is true only once it
  has returned and its number is in `done`.
- `FoundIsAsked`: `Spec => []LookupIsRow`.  `FoundInv` carries the answer from
  `enter` on, where the result object is constructed anew, and says of which row
  its three members are; the row stays, because users never change.
- `UsersStay`: `Spec => UsersUnchanged`: an `insert` of a user has placeholders
  without a value and is refused, and there is no other statement.
- `DaoIsTable`: `Spec => TableSpec`.  `NumberInv`: a number belongs to one call,
  rows are numbered by calls made, and a call not yet executed has no row, so
  that an insert adds a row of a new id as `Table` asks.

`Startup_proofs`:

- `ConfigSeen`: `Spec => []PoolSeesConfig`.  `ConfigInv`: the settings are complete
  once the workers run, a worker asks for an object only when the server listens,
  and main asks for the configuration alone.
- `NeverACircle`: `Spec => []NobodyStuck`.  `ChainInv`: the calls a thread is in
  are part of the chain DAO, pool, configuration, and it constructs all of them
  but perhaps the last.  The proof follows the chain: who waits for a DAO waits
  for a thread that is at the pool, who waits for the pool for one that is at
  the configuration, and whoever constructs that asks for nothing.

`MessageCodec_proofs`.  `CodecInv` says what was sent and what was made of it.
The classes the server reads are `Plain`: their lists of keys are their fields
in both directions, a fact about the tables proved class by class.

- `RequestsArrive`: `Spec => []RequestsRoundTrip`: writing and reading a plain
  class are inverse.
- `WholeOrNone`: `Spec => []ReadsAllOrNothing`: needs only the reader to be
  plain, whatever class wrote the body.
- `FriendRequestsApart`: `Spec => []FriendBodiesDistinct`: none of the three
  classes has all the keys of another.

Only model-checked: the three properties that do not hold (section 4), and
liveness (`ReadResumes`, `PeerGoneCloses`, `AnswerDelivered`,
`CallsReturn`, `EachHandled`, `CallsEnd`): the prover does not handle
fairness.

## 6. Assumptions and limits

Where one module takes for granted what another shows:

- `DataHandle` takes a DAO to have its connection.  The program has two DAOs
  and ten connections, so by `ServesAll` neither waits nor gets a null pointer
  as long as all connections could be created.  When one could not, the first
  DAOs may get the null pointer, and the first statement through it ends the
  process (`prepareStatement` of `MysqlConnectPool`).
- A DAO that gave up queues a null pointer when it is destroyed:
  `EntriesConserved` counts them.  The DAOs of this program live to its end.
- `StoredUid` is a constant of the server because no call changes the table of
  users (`UsersUnchanged`: `insert` binds none of their columns, and always
  fails).
- `FriendShipDao` takes a statement for one step that happens or fails, and a
  result of true for success: `TableSpec` and `TrueMeansDone` show that of the
  calls.
- `MyTcpServer` reads whole packets.  By `FramedConversation` and
  `NothingGarbled` the bytes of a connection bear that out until a read ends
  inside a frame; what is handled from then on is modelled in `TcpPacket` only.

What is assumed of the framework, whose sources are not here:

- An exception that leaves a callback ends that callback and nothing else: the
  worker runs on, and no READ event is registered.  If it ended the process
  instead, a behaviour would only stop there.
- `addEvent` on a descriptor that was closed registers nothing; the test of
  `getSocket()` at the top of `wathcIoRead` catches the descriptor 0 only.
- `ByteArray::read` copies no byte that the read did not bring, and may throw
  when fewer are there than it is asked for.
- When a connection is accepted without success, `startAccpet` only logs.

Limits of the models:

- A body that does not fit one read with its header (from 4089 bytes on) is
  always cut; `NothingGarbled` and `EachHandled` end there.
- Nothing bounds the body of an answer (the cache lists every user), while the
  array of `TcpPacket` has 4096 bytes.  Packets in the model fit the array; what
  a longer answer does is not modelled.
- A default record with an id nobody set is any user id; the login path that
  starts from an unreadable body is therefore part of the model.
- JSON values other than what the other classes write are not enumerated: a
  body of wrong types is the `ok = FALSE` of `Message`.
- Concurrent use of one MySQL connection is modelled as statements that may
  fail; mixed-up results are not.
- The text of names, chats and codes, logging and mail are left out, and with
  them the generator of verification codes, whose state the sources here do not
  show.

Not modelled:

- `CommunicatorServer` and `ClientHandler`, the Qt server: `main` includes the
  header and creates no object of it, so none of it runs.  It prints what it
  reads; when it reads depends on Qt's delivery of signals to a thread object
  and a socket that live in different threads.
- Of the Zues framework, whose sources are a submodule and not here: fibers,
  hooked system calls, TLS and logging.  Its sockets, events, timers and
  scheduler are modelled from how the server calls them.

## 7. Plan

Done: the server with its friendships and connections; framing; the DAOs; the
pool; start up; the message formats; proofs of every safety property and
refinement that the passing runs check.  Left to TLC: liveness.
