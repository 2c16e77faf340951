------------------------------- MODULE Startup -------------------------------
(***************************************************************************)
(* main and what it brings up: the configuration of the database, the      *)
(* workers, the listening socket, and the objects that the first call of a *)
(* getInstance constructs: the DAOs, the pool their constructors call, and *)
(* the configuration the pool's constructor reads.  Such an object is      *)
(* constructed by one thread while the others that ask for it wait.        *)
(***************************************************************************)
EXTENDS Naturals, Sequences, FiniteSets

CONSTANTS
  Worker,   \* threads of the IoManager
  Main,     \* the thread of main
  MaxFails, \* bound: addresses in the vector fails
  MaxCalls  \* bound: calls of a DAO's getInstance

Thread == Worker \cup {Main}

\* "none" and "built" are states of an object, not threads.
ASSUME StartupAssumption ==
  /\ Main \notin Worker /\ {"none", "built"} \cap Thread = {}
  /\ MaxFails \in Nat /\ MaxCalls \in Nat

\* The members of MySqlInfo, in the order main sets them.
Setting == <<"host", "user", "password", "database">>

Dao == {"users", "friendships"}

Object == Dao \cup {"pool", "config"}

VARIABLES
  info_,     \* members of MysqlConfig::info_ that are set
  pool_info, \* the copy of them the pool was constructed with
  object,    \* [Object -> "none" | "built" | the thread that constructs it]
  stack,     \* [Thread -> Seq(Object)], the getInstance calls it is in
  started,   \* the workers run and run() is scheduled
  listening, \* the server is bound and accepts
  fails,     \* length of the vector fails, to which binds that fail add
  calls      \* number of calls of a DAO's getInstance

vars == <<info_, pool_info, object, stack, started, listening, fails, calls>>

\* A variant whose pool asks for a DAO, which asks for the pool.
NeedsInCircle(o) == CASE o \in Dao -> "pool" [] OTHER -> "users"

\* What the constructor of an object asks for: nothing for the configuration.
Needs(o) == CASE o \in Dao -> "pool" [] OTHER -> "config"

Top(t) == stack[t][Len(stack[t])]

Pop(t) == stack' = [stack EXCEPT ![t] = SubSeq(@, 1, Len(@) - 1)]

Init ==
  /\ info_ = {} /\ pool_info = {}
  /\ object = [o \in Object |-> "none"]
  /\ stack = [t \in Thread |-> <<>>]
  /\ started = FALSE /\ listening = FALSE
  /\ fails = 0 /\ calls = 0

-----------------------------------------------------------------------------
(* getInstance of any of the objects.                                      *)

\* A variant without the guard of a static object: look, then construct.
constructUnguarded(t) ==
  /\ stack[t] # <<>> /\ object[Top(t)] # "built"
  /\ object' = [object EXCEPT ![Top(t)] = t]
  /\ stack' = IF Top(t) = "config" THEN stack
              ELSE [stack EXCEPT ![t] = Append(@, Needs(Top(t)))]
  /\ UNCHANGED <<info_, pool_info, started, listening, fails, calls>>

\* The first thread begins the construction and asks for what it needs.
construct(t) ==
  /\ stack[t] # <<>> /\ object[Top(t)] = "none"
  /\ object' = [object EXCEPT ![Top(t)] = t]
  /\ stack' = IF Top(t) = "config" THEN stack
              ELSE [stack EXCEPT ![t] = Append(@, Needs(Top(t)))]
  /\ UNCHANGED <<info_, pool_info, started, listening, fails, calls>>

\* The construction ends: the pool has copied the configuration and opened
\* its connections.
constructed(t) ==
  /\ stack[t] # <<>> /\ object[Top(t)] = t
  /\ object' = [object EXCEPT ![Top(t)] = "built"]
  /\ Pop(t)
  /\ pool_info' = IF Top(t) = "pool" THEN info_ ELSE pool_info
  /\ UNCHANGED <<info_, started, listening, fails, calls>>

\* It is there already, or another thread has finished it meanwhile.
found(t) ==
  /\ stack[t] # <<>> /\ object[Top(t)] = "built"
  /\ Pop(t)
  /\ UNCHANGED <<info_, pool_info, object, started, listening, fails, calls>>

GetInstance(t) == construct(t) \/ constructed(t) \/ found(t)

-----------------------------------------------------------------------------
\* SQL_SET_IP and the three after it, each through MysqlConfig::getInstance.
SqlSet ==
  /\ Cardinality(info_) < Len(Setting) /\ stack[Main] = <<>>
  /\ IF object["config"] = "built"
     THEN info_' = info_ \cup {Setting[Cardinality(info_) + 1]}
          /\ UNCHANGED stack
     ELSE stack' = [stack EXCEPT ![Main] = <<"config">>] /\ UNCHANGED info_
  /\ UNCHANGED <<pool_info, object, started, listening, fails, calls>>

\* A variant that starts the workers before the last setting.
IoManagerEarly ==
  /\ ~started /\ Cardinality(info_) = Len(Setting) - 1
  /\ started' = TRUE
  /\ UNCHANGED <<info_, pool_info, object, stack, listening, fails, calls>>

\* Zues::IoManager iom(20, ...) and the scheduling of run.
IoManager ==
  /\ ~started /\ Cardinality(info_) = Len(Setting)
  /\ started' = TRUE
  /\ UNCHANGED <<info_, pool_info, object, stack, listening, fails, calls>>

\* run(): a bind that fails is tried again, with the vector fails as the last
\* try left it.  The library's bind decides what it makes of the old entries: a
\* retry may succeed, or fail for ever.
bindFails ==
  /\ started /\ ~listening /\ fails < MaxFails
  /\ fails' = fails + 1
  /\ UNCHANGED <<info_, pool_info, object, stack, started, listening, calls>>

bind ==
  /\ started /\ ~listening
  /\ listening' = TRUE
  /\ UNCHANGED <<info_, pool_info, object, stack, started, fails, calls>>

\* A worker handles a packet whose handler asks for a DAO.
useDao(w) ==
  /\ listening /\ stack[w] = <<>> /\ calls < MaxCalls
  /\ \E d \in Dao : stack' = [stack EXCEPT ![w] = <<d>>]
  /\ calls' = calls + 1
  /\ UNCHANGED <<info_, pool_info, object, started, listening, fails>>

Next ==
  \/ SqlSet \/ IoManager \/ bindFails \/ bind
  \/ \E w \in Worker : useDao(w)
  \/ \E t \in Thread : GetInstance(t)

Spec == Init /\ [][Next]_vars

\* Threads run.  Nothing says that a bind ever succeeds.
Fairness ==
  /\ WF_vars(SqlSet) /\ WF_vars(IoManager)
  /\ \A t \in Thread : WF_vars(GetInstance(t))

FairSpec == Spec /\ Fairness

-----------------------------------------------------------------------------
\* Whichever worker comes first, the pool is opened with the whole
\* configuration, which main writes without a lock.
PoolSeesConfig ==
  object["pool"] = "built" => pool_info = {Setting[i] : i \in DOMAIN Setting}

\* Threads that wait for each other's objects never wait in a circle: while
\* somebody is in a getInstance, somebody has an object on top that is built, or
\* not begun, or its own to finish.
NobodyStuck ==
  (\E t \in Thread : stack[t] # <<>>) =>
    \E u \in Thread : stack[u] # <<>> /\ object[Top(u)] \in {"none", "built", u}

\* The constructors wait for one another in one direction only: every call of
\* a getInstance returns.
CallsEnd == \A t \in Thread : stack[t] # <<>> ~> stack[t] = <<>>
=============================================================================
