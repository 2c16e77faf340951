---------------------------- MODULE Startup_proofs ----------------------------
(***************************************************************************)
(* Proofs that the pool is opened with the whole configuration and that    *)
(* the constructors never wait in a circle, for any number of workers.     *)
(***************************************************************************)
EXTENDS Startup, FiniteSetTheorems, SequenceTheorems, TLAPS

Settings == {Setting[i] : i \in DOMAIN Setting}

State == {"none", "built"} \cup Thread

TypeInv ==
  /\ info_ \subseteq Settings /\ pool_info \subseteq Settings
  /\ object \in [Object -> State]
  /\ stack \in [Thread -> Seq(Object)]
  /\ started \in BOOLEAN /\ listening \in BOOLEAN

-----------------------------------------------------------------------------
(* What a getInstance does to the stack of its thread.                     *)

LEMMA PopFacts ==
  ASSUME TypeInv, NEW t \in Thread, stack[t] # <<>>, Pop(t)
  PROVE  /\ stack' \in [Thread -> Seq(Object)]
         /\ \A u \in Thread \ {t} : stack'[u] = stack[u]
         /\ Len(stack[t]) \in Nat \ {0} /\ Len(stack'[t]) = Len(stack[t]) - 1
         /\ \A i \in 1..(Len(stack[t]) - 1) : stack'[t][i] = stack[t][i]
<1>1. stack \in [Thread -> Seq(Object)] /\ stack[t] \in Seq(Object)
  BY DEF TypeInv
<1>2. Len(stack[t]) \in Nat \ {0}
  BY <1>1
<1>3. stack'[t] = SubSeq(stack[t], 1, Len(stack[t]) - 1)
  BY <1>1 DEF Pop
<1>4. /\ SubSeq(stack[t], 1, Len(stack[t]) - 1) \in Seq(Object)
      /\ Len(SubSeq(stack[t], 1, Len(stack[t]) - 1)) = Len(stack[t]) - 1
      /\ \A i \in 1..(Len(stack[t]) - 1) :
           SubSeq(stack[t], 1, Len(stack[t]) - 1)[i] = stack[t][i]
  <2> DEFINE s == stack[t]
             n == Len(stack[t]) - 1
  <2>1. s \in Seq(Object) /\ n \in Nat /\ n <= Len(s)
    BY <1>1, <1>2
  <2>2. \A i \in 1..n : s[i] \in Object
    BY <2>1
  <2> HIDE DEF s, n
  <2>3. Len(SubSeq(s, 1, n)) = n /\ \A i \in 1..n : SubSeq(s, 1, n)[i] = s[i]
    BY <2>1
  <2>4. SubSeq(s, 1, n) \in Seq(Object)
    BY <2>1, <2>2
  <2> QED BY <2>3, <2>4 DEF s, n
<1> QED BY <1>1, <1>2, <1>3, <1>4 DEF Pop

LEMMA ConstructFacts ==
  ASSUME TypeInv, NEW t \in Thread, construct(t)
  PROVE  /\ Top(t) \in Object /\ object[Top(t)] = "none"
         /\ object' = [object EXCEPT ![Top(t)] = t]
         /\ stack' \in [Thread -> Seq(Object)]
         /\ \A u \in Thread \ {t} : stack'[u] = stack[u]
         /\ Len(stack[t]) \in Nat \ {0}
         /\ \A i \in 1..Len(stack[t]) : stack'[t][i] = stack[t][i]
         /\ Top(t) = "config" => stack'[t] = stack[t]
         /\ Top(t) # "config" =>
              /\ Len(stack'[t]) = Len(stack[t]) + 1
              /\ stack'[t][Len(stack[t]) + 1] = Needs(Top(t))
<1>1. stack \in [Thread -> Seq(Object)] /\ stack[t] \in Seq(Object) /\ stack[t] # <<>>
  BY DEF TypeInv, construct
<1>2. Len(stack[t]) \in Nat \ {0} /\ Top(t) \in Object
  BY <1>1 DEF Top
<1>3. Needs(Top(t)) \in Object
  BY DEF Needs, Object
<1>4. CASE Top(t) = "config"
  BY <1>1, <1>2, <1>4 DEF construct
<1>5. CASE Top(t) # "config"
  <2>1. stack' = [stack EXCEPT ![t] = Append(@, Needs(Top(t)))]
    BY <1>5 DEF construct
  <2>2. stack'[t] = Append(stack[t], Needs(Top(t)))
    BY <1>1, <2>1
  <2> QED BY <1>1, <1>2, <1>3, <1>5, <2>1, <2>2 DEF construct
<1> QED BY <1>4, <1>5

\* The two calls that begin a chain, each on an empty stack.
LEMMA EnterFacts ==
  ASSUME TypeInv, NEW t \in Thread, NEW o \in Object,
         stack' = [stack EXCEPT ![t] = <<o>>]
  PROVE  /\ stack' \in [Thread -> Seq(Object)]
         /\ \A u \in Thread \ {t} : stack'[u] = stack[u]
         /\ stack'[t] = <<o>> /\ Len(stack'[t]) = 1 /\ stack'[t][1] = o
<1>1. <<o>> \in Seq(Object) /\ Len(<<o>>) = 1 /\ <<o>>[1] = o
  OBVIOUS
<1> QED BY <1>1 DEF TypeInv

LEMMA FourSettings == IsFiniteSet(Settings) /\ Cardinality(Settings) = 4
<1>1. IsFiniteSet({"host"}) /\ Cardinality({"host"}) = 1
  BY FS_Singleton
<1>2. "user" \notin {"host"}
  OBVIOUS
<1>3. IsFiniteSet({"host"} \cup {"user"}) /\ Cardinality({"host"} \cup {"user"}) = 2
  BY <1>1, <1>2, FS_AddElement
<1>4. "password" \notin {"host"} \cup {"user"}
  OBVIOUS
<1>5. /\ IsFiniteSet(({"host"} \cup {"user"}) \cup {"password"})
      /\ Cardinality(({"host"} \cup {"user"}) \cup {"password"}) = 3
  BY <1>3, <1>4, FS_AddElement
<1>6. "database" \notin ({"host"} \cup {"user"}) \cup {"password"}
  OBVIOUS
<1>7. /\ IsFiniteSet((({"host"} \cup {"user"}) \cup {"password"}) \cup {"database"})
      /\ Cardinality((({"host"} \cup {"user"}) \cup {"password"}) \cup {"database"}) = 4
  BY <1>5, <1>6, FS_AddElement
<1>8. Settings = (({"host"} \cup {"user"}) \cup {"password"}) \cup {"database"}
  <2>1. DOMAIN Setting = 1..4
    BY DEF Setting
  <2>2. /\ Setting[1] = "host" /\ Setting[2] = "user"
        /\ Setting[3] = "password" /\ Setting[4] = "database"
    BY DEF Setting
  <2> QED BY <2>1, <2>2 DEF Settings
<1> QED BY <1>7, <1>8

LEMMA InitType == Init => TypeInv
<1> SUFFICES ASSUME Init PROVE TypeInv
  OBVIOUS
<1>1. object \in [Object -> State]
  BY DEF Init, State
<1>2. stack \in [Thread -> Seq(Object)]
  BY DEF Init
<1> QED BY <1>1, <1>2 DEF Init, TypeInv

LEMMA NextType == TypeInv /\ [Next]_vars => TypeInv'
<1> SUFFICES ASSUME TypeInv, [Next]_vars PROVE TypeInv'
  OBVIOUS
<1>1. CASE SqlSet
  <2>1. Main \in Thread /\ "config" \in Object
    BY DEF Thread, Object
  <2>2. CASE object["config"] = "built"
    <3>1. info_ \subseteq Settings /\ IsFiniteSet(Settings)
      BY FourSettings DEF TypeInv
    <3>2. Cardinality(info_) \in Nat
      BY <3>1, FS_Subset, FS_CardinalityType
    <3>3. Setting[Cardinality(info_) + 1] \in Settings
      BY <1>1, <3>2 DEF SqlSet, Settings, Setting
    <3> QED BY <1>1, <2>2, <3>3 DEF SqlSet, TypeInv
  <2>3. CASE object["config"] # "built"
    <3>1. stack' \in [Thread -> Seq(Object)]
      BY <1>1, <2>1, <2>3, EnterFacts DEF SqlSet
    <3> QED BY <1>1, <2>3, <3>1 DEF SqlSet, TypeInv
  <2> QED BY <2>2, <2>3
<1>2. CASE IoManager \/ bindFails \/ bind
  BY <1>2 DEF IoManager, bindFails, bind, TypeInv
<1>3. ASSUME NEW w \in Worker, useDao(w) PROVE TypeInv'
  <2>1. stack' \in [Thread -> Seq(Object)]
    BY <1>3, EnterFacts DEF useDao, Thread, Object
  <2> QED BY <1>3, <2>1 DEF useDao, TypeInv
<1>4. ASSUME NEW t \in Thread, construct(t) PROVE TypeInv'
  BY <1>4, ConstructFacts DEF construct, TypeInv, State
<1>5. ASSUME NEW t \in Thread, constructed(t) PROVE TypeInv'
  <2>1. stack' \in [Thread -> Seq(Object)]
    BY <1>5, PopFacts DEF constructed
  <2> QED BY <1>5, <2>1 DEF constructed, TypeInv, State
<1>6. ASSUME NEW t \in Thread, found(t) PROVE TypeInv'
  <2>1. stack' \in [Thread -> Seq(Object)]
    BY <1>6, PopFacts DEF found
  <2> QED BY <1>6, <2>1 DEF found, TypeInv
<1>7. CASE UNCHANGED vars
  BY <1>7 DEF vars, TypeInv
<1> QED BY <1>1, <1>2, <1>3, <1>4, <1>5, <1>6, <1>7 DEF Next, GetInstance

-----------------------------------------------------------------------------
(* The configuration is complete before a worker runs, and only workers    *)
(* ask for the pool.                                                       *)

ConfigInv ==
  /\ started => info_ = Settings
  /\ listening => started
  /\ stack[Main] \in {<<>>, <<"config">>}
  /\ \A w \in Worker : stack[w] # <<>> => listening
  /\ object["pool"] = "built" => pool_info = Settings /\ started

\* Four of the settings are all of them.
LEMMA AllSettings ==
  ASSUME info_ \subseteq Settings, Cardinality(info_) = Len(Setting)
  PROVE  info_ = Settings
<1>1. Len(Setting) = 4
  BY DEF Setting
<1> QED BY <1>1, FourSettings, FS_Subset

\* Only a worker ever has the pool or a DAO on its stack.
LEMMA PoolByWorker ==
  ASSUME ConfigInv, NEW t \in Thread, stack[t] # <<>>, Top(t) = "pool"
  PROVE  started
<1>1. t # Main
  <2>1. ASSUME stack[Main] = <<"config">> PROVE Top(Main) = "config"
    BY <2>1 DEF Top
  <2> QED BY <2>1 DEF ConfigInv
<1> QED BY <1>1 DEF ConfigInv, Thread

LEMMA InitConfig == Init => ConfigInv
BY DEF Init, ConfigInv, Thread, Object

LEMMA NextConfig ==
  ASSUME TypeInv, ConfigInv, [Next]_vars
  PROVE  ConfigInv'
<1>1. Main \in Thread /\ Worker \subseteq Thread /\ Main \notin Worker
  BY StartupAssumption DEF Thread
<1>2. CASE SqlSet
  <2>1. Cardinality(info_) # 4
    <3>1. Len(Setting) = 4
      BY DEF Setting
    <3>2. CASE Cardinality(info_) = 4
      BY <1>2, <3>1, <3>2 DEF SqlSet
    <3> QED BY <3>2
  <2>2. ~started
    BY <2>1, FourSettings DEF ConfigInv
  <2>3. stack'[Main] \in {<<>>, <<"config">>} /\ \A w \in Worker : stack'[w] = stack[w]
    BY <1>1, <1>2 DEF SqlSet, ConfigInv, TypeInv
  <2> QED BY <1>2, <2>2, <2>3 DEF SqlSet, ConfigInv
<1>3. CASE IoManager
  BY <1>3, AllSettings DEF IoManager, ConfigInv, TypeInv
<1>4. CASE bindFails \/ bind
  BY <1>4 DEF bindFails, bind, ConfigInv
<1>5. ASSUME NEW w \in Worker, useDao(w) PROVE ConfigInv'
  <2>1. \A u \in Thread \ {w} : stack'[u] = stack[u]
    BY <1>5 DEF useDao, TypeInv
  <2> QED BY <1>1, <1>5, <2>1 DEF useDao, ConfigInv
<1>6. ASSUME NEW t \in Thread, construct(t) PROVE ConfigInv'
  <2>1. stack'[Main] = stack[Main]
    <3>1. CASE t # Main
      BY <1>1, <1>6, <3>1, ConstructFacts
    <3>2. CASE t = Main
      <4>1. Top(Main) = "config"
        <5>1. stack[Main] = <<"config">>
          BY <1>6, <3>2 DEF construct, ConfigInv
        <5> QED BY <5>1 DEF Top
      <4> QED BY <1>6, <3>2, <4>1, ConstructFacts
    <3> QED BY <3>1, <3>2
  <2>2. \A w \in Worker : stack'[w] # <<>> => stack[w] # <<>>
    BY <1>1, <1>6, ConstructFacts DEF construct
  <2>3. object'["pool"] = "built" => object["pool"] = "built"
    <3>1. t # "built"
      BY StartupAssumption
    <3> QED BY <1>6, <3>1, ConstructFacts DEF TypeInv, Object
  <2>4. UNCHANGED <<info_, pool_info, started, listening>>
    BY <1>6 DEF construct
  <2> QED BY <2>1, <2>2, <2>3, <2>4 DEF ConfigInv
<1>7. ASSUME NEW t \in Thread, constructed(t) \/ found(t) PROVE ConfigInv'
  <2>1. stack'[Main] \in {<<>>, <<"config">>}
    <3>1. CASE t # Main
      BY <1>1, <1>7, <3>1, PopFacts DEF constructed, found, ConfigInv
    <3>2. CASE t = Main
      <4>1. stack[Main] = <<"config">>
        BY <1>7, <3>2 DEF constructed, found, ConfigInv
      <4>2. Len(stack'[Main]) = 0 /\ stack'[Main] \in Seq(Object)
        <5>1. Len(stack[Main]) = 1
          BY <4>1
        <5>2. stack[Main] # <<>> /\ Pop(Main)
          BY <1>7, <3>2 DEF constructed, found
        <5>3. /\ stack' \in [Thread -> Seq(Object)]
              /\ Len(stack'[Main]) = Len(stack[Main]) - 1
          BY <1>1, <5>2, PopFacts
        <5> QED BY <1>1, <5>1, <5>3
      <4> QED BY <4>2, EmptySeq
    <3> QED BY <3>1, <3>2
  <2>2. \A w \in Worker : stack'[w] # <<>> => stack[w] # <<>>
    BY <1>1, <1>7, PopFacts DEF constructed, found
  <2>3. object'["pool"] = "built" => pool_info' = Settings /\ started
    <3>1. CASE constructed(t)
      <4>1. Top(t) \in Object
        BY <3>1, PopFacts DEF constructed, Top, TypeInv
      <4>2. CASE Top(t) = "pool"
        BY <3>1, <4>2, PoolByWorker DEF constructed, ConfigInv
      <4>3. CASE Top(t) # "pool"
        BY <3>1, <4>1, <4>3 DEF constructed, ConfigInv, TypeInv
      <4> QED BY <4>2, <4>3
    <3>2. CASE found(t)
      BY <3>2 DEF found, ConfigInv
    <3> QED BY <1>7, <3>1, <3>2
  <2>4. UNCHANGED <<info_, started, listening>>
    BY <1>7 DEF constructed, found
  <2> QED BY <2>1, <2>2, <2>3, <2>4 DEF ConfigInv
<1>8. CASE UNCHANGED vars
  BY <1>8 DEF vars, ConfigInv
<1> QED BY <1>2, <1>3, <1>4, <1>5, <1>6, <1>7, <1>8 DEF Next, GetInstance

\* Whichever of any number of workers constructs the pool, it does so with the
\* four settings of main.
THEOREM ConfigSeen == Spec => []PoolSeesConfig
<1>1. Spec => []TypeInv
  BY InitType, NextType, PTL DEF Spec
<1>2. Spec => []ConfigInv
  BY <1>1, InitConfig, NextConfig, PTL DEF Spec
<1>3. ConfigInv => PoolSeesConfig
  BY DEF ConfigInv, PoolSeesConfig, Settings
<1> QED BY <1>2, <1>3, PTL

-----------------------------------------------------------------------------
(* A thread constructs every object on its stack but the last, a DAO       *)
(* before the pool and the pool before the configuration, and whatever is  *)
(* under construction is on the stack of its thread.                       *)

Shape(s) ==
  /\ Len(s) <= 3
  /\ \A i \in 1..Len(s) :
       /\ i = 1 => s[i] \in Dao \/ (s[i] = "config" /\ Len(s) = 1)
       /\ i = 2 => s[i] = "pool"
       /\ i = 3 => s[i] = "config"

Constructs(t) == \A i \in 1..(Len(stack[t]) - 1) : object[stack[t][i]] = t

OnStack(o, t) == \E i \in 1..Len(stack[t]) : stack[t][i] = o

Held(o) == \A t \in Thread : object[o] = t => OnStack(o, t)

ChainInv ==
  /\ \A t \in Thread : Shape(stack[t]) /\ Constructs(t)
  /\ \A o \in Object : Held(o)

LEMMA Names ==
  /\ Object = {"users", "friendships", "pool", "config"}
  /\ Dao = {"users", "friendships"}
  /\ Needs("users") = "pool" /\ Needs("friendships") = "pool"
  /\ Needs("pool") = "config"
BY DEF Object, Dao, Needs

LEMMA LenType ==
  ASSUME TypeInv, NEW t \in Thread
  PROVE  /\ stack[t] \in Seq(Object) /\ Len(stack[t]) \in Nat
         /\ stack[t] # <<>> <=> Len(stack[t]) > 0
BY DEF TypeInv

LEMMA InitChain == Init => ChainInv
<1> SUFFICES ASSUME Init PROVE ChainInv
  OBVIOUS
<1>1. \A t \in Thread : stack[t] = <<>>
  BY DEF Init
<1>2. \A o \in Object : object[o] \notin Thread
  BY StartupAssumption DEF Init
<1> QED BY <1>1, <1>2 DEF ChainInv, Shape, Constructs, Held

\* A call that begins a chain.
LEMMA EnterChain ==
  ASSUME TypeInv, ChainInv, NEW t \in Thread, NEW o \in Dao \cup {"config"},
         stack[t] = <<>>, stack' = [stack EXCEPT ![t] = <<o>>],
         UNCHANGED object
  PROVE  ChainInv'
<1>1. /\ \A u \in Thread \ {t} : stack'[u] = stack[u]
      /\ Len(stack'[t]) = 1 /\ stack'[t][1] = o
  BY EnterFacts DEF Object
<1>2. \A u \in Thread : Shape(stack'[u]) /\ Constructs(u)'
  BY <1>1 DEF ChainInv, Shape, Constructs
<1>3. \A p \in Object : object[p] \in Thread => object[p] # t
  BY DEF ChainInv, OnStack, Held
<1> QED BY <1>1, <1>2, <1>3 DEF ChainInv, OnStack, Held

LEMMA ConstructChain ==
  ASSUME TypeInv, ChainInv, NEW t \in Thread, construct(t)
  PROVE  ChainInv'
<1>1. /\ Len(stack[t]) \in Nat \ {0} /\ Top(t) = stack[t][Len(stack[t])]
      /\ Shape(stack[t]) /\ Constructs(t)
  BY ConstructFacts DEF Top, ChainInv
<1>2. \A o \in Object \ {Top(t)} : object'[o] = object[o]
  BY ConstructFacts DEF TypeInv
<1>3. object'[Top(t)] = t /\ object[Top(t)] = "none" /\ Top(t) \in Object
  BY ConstructFacts DEF TypeInv
<1>4. "none" \notin Thread
  BY StartupAssumption
<1>5. ASSUME NEW u \in Thread \ {t} PROVE Shape(stack'[u]) /\ Constructs(u)'
  <2>1. stack'[u] = stack[u] /\ stack[u] \in Seq(Object)
    BY ConstructFacts DEF TypeInv
  <2> QED BY <1>2, <1>3, <1>4, <2>1 DEF ChainInv, Constructs
<1>6. Shape(stack'[t])
  <2>1. CASE Top(t) = "config"
    BY <1>1, <2>1, ConstructFacts
  <2>2. CASE Top(t) # "config"
    <3> DEFINE n == Len(stack[t])
    <3>1. /\ Len(stack'[t]) = n + 1 /\ stack'[t][n + 1] = Needs(Top(t))
          /\ \A i \in 1..n : stack'[t][i] = stack[t][i]
      BY <2>2, ConstructFacts
    <3>2. n \in {1, 2}
      <4>1. n \in 1..3
        <5>1. n <= 3
          BY <1>1 DEF Shape
        <5>2. n \in Nat /\ n > 0
          BY <1>1
        <5> HIDE DEF n
        <5> QED BY <5>1, <5>2
      <4>2. n = 3 => stack[t][3] = "config"
        BY <1>1 DEF Shape
      <4> QED BY <1>1, <2>2, <4>1, <4>2
    <3>3. n = 1 => Top(t) \in Dao /\ Needs(Top(t)) = "pool"
      BY <1>1, <2>2, Names DEF Shape
    <3>4. n = 2 => Top(t) = "pool" /\ Needs(Top(t)) = "config"
      BY <1>1, Names DEF Shape
    <3>5. n = 2 => stack[t][1] \in Dao
      BY <1>1 DEF Shape
    <3> HIDE DEF n
    <3>6. CASE n = 1
      BY <3>1, <3>3, <3>6, <1>1 DEF Shape, n
    <3>7. CASE n = 2
      BY <3>1, <3>4, <3>5, <3>7, <1>1 DEF Shape, n
    <3> QED BY <3>2, <3>6, <3>7
  <2> QED BY <2>1, <2>2
<1>7. Constructs(t)'
  <2>1. \A i \in 1..(Len(stack'[t]) - 1) :
          \/ i = Len(stack[t])
          \/ i \in 1..(Len(stack[t]) - 1)
    BY <1>1, ConstructFacts
  <2>2. \A i \in 1..Len(stack[t]) :
          stack'[t][i] = stack[t][i] /\ stack[t][i] \in Object
    <3>1. \A i \in 1..Len(stack[t]) : stack'[t][i] = stack[t][i]
      BY <1>1, ConstructFacts
    <3>2. \A i \in 1..Len(stack[t]) : stack[t][i] \in Object
      BY LenType
    <3> QED BY <3>1, <3>2
  <2> QED BY SMTT(30), <1>1, <1>2, <1>3, <2>1, <2>2 DEF Constructs
<1>8. \A u \in Thread : \A o \in Object : OnStack(o, u) => OnStack(o, u)'
  <2>1. /\ \A i \in 1..Len(stack[t]) : stack'[t][i] = stack[t][i]
        /\ 1..Len(stack[t]) \subseteq 1..Len(stack'[t])
    BY <1>1, ConstructFacts
  <2>2. \A u \in Thread \ {t} : stack'[u] = stack[u]
    BY ConstructFacts
  <2> QED BY <2>1, <2>2 DEF OnStack
<1>9. OnStack(Top(t), t)
  BY <1>1 DEF OnStack
<1>10. \A o \in Object : Held(o)'
  BY <1>2, <1>3, <1>8, <1>9 DEF ChainInv, Held
<1> QED BY <1>5, <1>6, <1>7, <1>10 DEF ChainInv

\* A call that returns leaves its object built, so not with any thread.
LEMMA PopChain ==
  ASSUME TypeInv, ChainInv, NEW t \in Thread, stack[t] # <<>>, Pop(t),
         object[Top(t)] \in {t, "built"},
         object' = [object EXCEPT ![Top(t)] = "built"]
  PROVE  ChainInv'
<1> DEFINE n == Len(stack[t])
<1>1. /\ n \in Nat \ {0} /\ Top(t) = stack[t][n] /\ Len(stack'[t]) = n - 1
      /\ \A i \in 1..(n - 1) : stack'[t][i] = stack[t][i]
      /\ \A u \in Thread \ {t} : stack'[u] = stack[u]
  BY PopFacts DEF Top
<1>2. /\ Shape(stack[t]) /\ Constructs(t)
      /\ \A i \in 1..n : stack[t][i] \in Object
  BY LenType DEF ChainInv
<1> HIDE DEF n
<1>3. \A i \in 1..(n - 1) : stack[t][i] # Top(t)
  BY <1>1, <1>2, Names DEF Shape, n
<1>4. \A o \in Object : object'[o] = IF o = Top(t) THEN "built" ELSE object[o]
  BY DEF TypeInv
<1>5. "built" \notin Thread
  BY StartupAssumption
<1>6. Shape(stack'[t])
  BY SMTT(30), <1>1, <1>2, <1>3, Names DEF Shape, n
<1>7. Constructs(t)'
  BY SMTT(30), <1>1, <1>2, <1>3, <1>4 DEF Constructs, n
<1>8. ASSUME NEW u \in Thread \ {t} PROVE Shape(stack'[u]) /\ Constructs(u)'
  <2>1. /\ stack'[u] = stack[u] /\ Shape(stack[u]) /\ Constructs(u)
        /\ stack[u] \in Seq(Object)
    BY <1>1, LenType DEF ChainInv
  <2>2. \A i \in 1..(Len(stack[u]) - 1) :
          stack[u][i] \in Object /\ stack[u][i] # Top(t)
    BY <1>5, <2>1 DEF Constructs
  <2> QED BY <1>4, <2>1, <2>2 DEF Constructs
<1>9. ASSUME NEW o \in Object, NEW u \in Thread, object'[o] = u
      PROVE  OnStack(o, u)'
  <2>1. o # Top(t) /\ OnStack(o, u)
    BY <1>4, <1>5, <1>9 DEF ChainInv, Held
  <2>2. CASE u = t
    <3>1. PICK i \in 1..n : stack[t][i] = o
      BY <2>1, <2>2 DEF OnStack, n
    <3>2. i # n
      BY <1>1, <2>1, <3>1
    <3>3. i \in 1..(n - 1) /\ stack'[t][i] = o
      BY <1>1, <3>1, <3>2
    <3> QED BY <1>1, <2>2, <3>3 DEF OnStack
  <2>3. CASE u # t
    BY <1>1, <2>1, <2>3 DEF OnStack
  <2> QED BY <2>2, <2>3
<1> QED BY <1>6, <1>7, <1>8, <1>9 DEF ChainInv, Held

LEMMA NextChain ==
  ASSUME TypeInv, ChainInv, [Next]_vars
  PROVE  ChainInv'
<1>1. CASE UNCHANGED <<object, stack>>
  BY <1>1 DEF ChainInv, Constructs, OnStack, Held
<1>2. CASE SqlSet
  <2>1. CASE object["config"] = "built"
    BY <1>1, <1>2, <2>1 DEF SqlSet
  <2>2. CASE object["config"] # "built"
    BY <1>2, <2>2, EnterChain DEF SqlSet, Thread
  <2> QED BY <2>1, <2>2
<1>3. ASSUME NEW w \in Worker, useDao(w) PROVE ChainInv'
  BY <1>3, EnterChain DEF useDao, Thread
<1>4. ASSUME NEW t \in Thread, constructed(t) PROVE ChainInv'
  BY <1>4, PopChain DEF constructed
<1>5. ASSUME NEW t \in Thread, found(t) PROVE ChainInv'
  <2>1. object' = [object EXCEPT ![Top(t)] = "built"]
    BY <1>5 DEF found, TypeInv
  <2> QED BY <1>5, <2>1, PopChain DEF found
<1> QED BY <1>1, <1>2, <1>3, <1>4, <1>5, ConstructChain
        DEF Next, GetInstance, IoManager, bindFails, bind, vars

-----------------------------------------------------------------------------
(* Somebody who is not waiting, found by following the chain downwards.    *)

Moves(u) == stack[u] # <<>> /\ object[Top(u)] \in {"none", "built", u}

LEMMA ChainMoves ==
  ASSUME TypeInv, ChainInv, NEW t \in Thread, stack[t] # <<>>
  PROVE  \E u \in Thread : Moves(u)
<1>1. ASSUME NEW u \in Thread, stack[u] # <<>>
      PROVE  /\ Len(stack[u]) \in 1..3 /\ Top(u) = stack[u][Len(stack[u])]
             /\ Top(u) \in Object /\ Shape(stack[u])
             /\ ~Moves(u) => object[Top(u)] \in Thread /\ OnStack(Top(u), object[Top(u)])
  <2>1. Len(stack[u]) \in 1..3 /\ Top(u) = stack[u][Len(stack[u])]
    <3>1. Len(stack[u]) \in Nat /\ Len(stack[u]) > 0
      BY <1>1, LenType
    <3>2. Len(stack[u]) <= 3
      BY DEF ChainInv, Shape
    <3> DEFINE n == Len(stack[u])
    <3>3. n \in Nat /\ n > 0 /\ n <= 3
      BY <3>1, <3>2
    <3> HIDE DEF n
    <3>4. n \in 1..3
      BY <3>3
    <3> QED BY <3>4 DEF Top, n
  <2>2. Top(u) \in Object
    <3>1. \A i \in 1..Len(stack[u]) : stack[u][i] \in Object
      BY LenType
    <3> QED BY SMTT(30), <2>1, <3>1
  <2>3. ~Moves(u) => object[Top(u)] \in Thread
    BY <1>1, <2>2 DEF Moves, TypeInv, State
  <2> QED BY <2>1, <2>2, <2>3 DEF ChainInv, Held
<1>2. ASSUME NEW v \in Thread, NEW o \in Object, OnStack(o, v)
      PROVE  /\ stack[v] # <<>>
             /\ o = "config" => Top(v) = o
             /\ o = "pool" => Top(v) \in {o, "config"}
             /\ o \in Dao => Top(v) \in {o, "pool", "config"}
  <2>1. PICK i \in 1..Len(stack[v]) : stack[v][i] = o
    BY <1>2 DEF OnStack
  <2>2. stack[v] # <<>>
    BY <2>1, LenType
  <2>3. /\ Len(stack[v]) \in 1..3 /\ Top(v) = stack[v][Len(stack[v])]
        /\ Shape(stack[v])
    BY <1>1, <2>2
  <2>4. i \in {1, 2, 3}
    BY <2>1, <2>3
  <2>5. CASE i = Len(stack[v])
    BY <2>1, <2>2, <2>3, <2>5
  <2>6. CASE i < Len(stack[v])
    <3>1. CASE i = 1
      <4>1. o \in Dao
        BY <2>1, <2>3, <2>6, <3>1 DEF Shape
      <4>2. Top(v) \in {"pool", "config"}
        BY <2>3, <2>6, <3>1 DEF Shape
      <4> QED BY <2>2, <4>1, <4>2, Names
    <3>2. CASE i = 2
      <4>1. o = "pool" /\ Top(v) = "config"
        BY <2>1, <2>3, <2>6, <3>2 DEF Shape
      <4> QED BY <2>2, <4>1, Names
    <3> QED BY <2>3, <2>4, <2>6, <3>1, <3>2
  <2> QED BY <2>3, <2>4, <2>5, <2>6
<1>3. \A u, v \in Thread :
        stack[u] # <<>> /\ object[Top(u)] = v /\ stack[v] # <<>> /\ Top(v) = Top(u)
          => Moves(v)
  BY DEF Moves
<1>4. ASSUME NEW u \in Thread, stack[u] # <<>>, Top(u) = "config"
      PROVE  \E v \in Thread : Moves(v)
  BY <1>1, <1>2, <1>3, <1>4
<1>5. ASSUME NEW u \in Thread, stack[u] # <<>>, Top(u) = "pool"
      PROVE  \E v \in Thread : Moves(v)
  BY <1>1, <1>2, <1>3, <1>4, <1>5
<1>6. ASSUME NEW u \in Thread, stack[u] # <<>>, Top(u) \in Dao
      PROVE  \E v \in Thread : Moves(v)
  BY <1>1, <1>2, <1>3, <1>4, <1>5, <1>6
<1> QED BY <1>1, <1>4, <1>5, <1>6 DEF Object

\* However many threads ask for the objects at once, some call of a
\* getInstance can always go on.
THEOREM NeverACircle == Spec => []NobodyStuck
<1>1. Spec => []TypeInv
  BY InitType, NextType, PTL DEF Spec
<1>2. Spec => []ChainInv
  BY <1>1, InitChain, NextChain, PTL DEF Spec
<1>3. TypeInv /\ ChainInv => NobodyStuck
  BY ChainMoves DEF NobodyStuck, Moves
<1> QED BY <1>1, <1>2, <1>3, PTL
=============================================================================
