-------------------------------- MODULE Zues --------------------------------
(***************************************************************************)
(* External: the part of the Zues framework (an empty submodule here) that *)
(* the server uses, modelled from those uses.  Sockets, one-shot READ      *)
(* events of the IoManager, and the pool of scheduled callbacks, which any *)
(* of the worker threads may take in any order.  An exception that leaves  *)
(* a callback ends the callback, not the worker.                           *)
(***************************************************************************)
EXTENDS Message

CONSTANTS
  Client,   \* Socket objects: one per accepted connection, never reused
  NoClient, \* nullptr
  Worker    \* threads of the IoManager (20 in main.cpp)

ASSUME NoClientAssumption == NoClient \notin Client

VARIABLES
  sock,    \* [Client -> "new" | "open" | "closed"], the server's end
  peer,    \* [Client -> BOOLEAN], whether the remote end is still there
  armed,   \* sockets with a READ event registered
  tasks,   \* scheduled callbacks not yet taken
  written  \* what was written to a connection whose two ends were up

MaybeClient == Client \cup {NoClient}

Kind == {"chat", "echo", "loginRes", "cache", "regRes", "verifyRes", "error",
         "inform", "rearm"}

(* A bound callback: wathcIoRead(to) when kind is "rearm", otherwise       *)
(* sendMessageToClient(to, ...).  id is the packet it answers; friends and *)
(* applies are the lists of a LoginResponseMessage.                        *)
Task == [kind: Kind, to: Client, id: Nat, uid: Uid,
         friends: SUBSET PublicInfo, applies: SUBSET PublicInfo]

Callback(kind, to, id, uid) ==
  [kind |-> kind, to |-> to, id |-> id, uid |-> uid,
   friends |-> {}, applies |-> {}]

\* IoManager::scheduler: queue callbacks.
scheduler(new) == tasks' = tasks \cup new

\* Socket::ifConnected: no close() has been called; the peer may be gone.
ifConnected(c) == sock[c] = "open"

\* IoManager::addEvent(READ): one shot, and void on a closed descriptor.
addEvent(c) == armed' = IF ifConnected(c) THEN armed \cup {c} ELSE armed

\* Socket::close: the descriptor leaves the event table with it.
close(c) ==
  /\ sock' = [sock EXCEPT ![c] = "closed"]
  /\ armed' = armed \ {c}

ZuesTypeOK ==
  /\ sock \in [Client -> {"new", "open", "closed"}]
  /\ peer \in [Client -> BOOLEAN]
  /\ armed \subseteq Client
  /\ tasks \subseteq Task
  /\ written \subseteq Task

ZuesInit ==
  /\ sock = [c \in Client |-> "new"]
  /\ peer = [c \in Client |-> TRUE]
  /\ armed = {}
  /\ tasks = {}
  /\ written = {}
=============================================================================
