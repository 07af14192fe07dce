----------------------- MODULE WorkerConnectionsProofs -----------------------
(***************************************************************************)
(* WorkerConnections for any number of attempts: types, why an attempt can *)
(* fail, and why a client can leak.                                        *)
(***************************************************************************)
EXTENDS WorkerConnections, TLAPS

----------------------------------------------------------------------------
(* Types *)

\* Only a refresh is ever at a Mongo step, or opens a Mongo client.
Placed == \A a \in Attempts :
    /\ pc[a] \in {"ping_mongo", "list"} => a \in Refreshes
    /\ <<"mongo", a>> \in open => a \in Refreshes

Typed == TypeOK /\ Placed

LEMMA TypedInit == Init => Typed
BY AttemptAssumption
   DEF Init, Typed, TypeOK, Placed, Attempts, Stores, Ended, Running

\* The locals of an attempt that ends are gone.
LEMMA Dropped ==
    ASSUME TypeOK, NEW a \in Attempts,
           handle' = [handle EXCEPT ![a] = [s \in Stores |-> None]]
    PROVE  /\ handle' \in [Attempts -> [Stores -> Attempts \cup {None}]]
           /\ \A s \in Stores : handle'[a][s] = None
           /\ \A b \in Attempts \ {a} : handle'[b] = handle[b]
BY DEF TypeOK

LEMMA TypedNext == Typed /\ [Next]_vars => Typed'
<1> SUFFICES ASSUME Typed, [Next]_vars PROVE Typed'
  OBVIOUS
<1> USE AttemptAssumption DEF Typed, TypeOK, Placed, Stores, Running, Ended, Goto
<1>1. ASSUME NEW a \in Attempts, Start(a) PROVE Typed'
  <2>1. CASE a \in Refreshes /\ Goto(a, "new", "ping_mongo") /\ Open("mongo", a)
    BY <1>1, <2>1 DEF Start, Open, Attempts
  <2>2. CASE a \in Decays /\ Goto(a, "new", "ping_redis") /\ Open("redis", a)
    BY <1>1, <2>2 DEF Start, Open, Attempts
  <2> QED BY <1>1, <2>1, <2>2 DEF Start
<1>2. ASSUME NEW a \in Attempts, MongoAnswers(a) PROVE Typed'
  <2>1. a \in Refreshes /\ client["mongo"] \in Attempts \cup {None}
    BY <1>2 DEF MongoAnswers
  <2>2. /\ handle' \in [Attempts -> [Stores -> Attempts \cup {None}]]
        /\ \A b \in Attempts \ {a} : handle'[b] = handle[b]
    BY <1>2, <2>1 DEF MongoAnswers, Connected
  <2>3. /\ pc' \in [Attempts -> {"new", "ping_mongo", "ping_redis", "list", "write",
                                 "release", "closing"} \cup Ended]
        /\ pc'[a] = "ping_redis" /\ \A b \in Attempts \ {a} : pc'[b] = pc[b]
    BY <1>2 DEF MongoAnswers
  <2>4. /\ client' \in [Stores -> Attempts \cup {None}] /\ client'["mongo"] \notin Decays
        /\ open' = open \cup {<<"redis", a>>}
    BY <1>2 DEF MongoAnswers, Open
  <2> QED
    BY <1>2, <2>1, <2>2, <2>3, <2>4 DEF MongoAnswers, Attempts
<1>3. ASSUME NEW a \in Attempts, RedisAnswers(a) PROVE Typed'
  BY <1>3 DEF RedisAnswers, Connected, Attempts
<1>4. ASSUME NEW a \in Attempts, PingFails(a) PROVE Typed'
  BY <1>4, Dropped DEF PingFails, Raises, Attempts
<1>5. ASSUME NEW a \in Attempts, List(a) PROVE Typed'
  BY <1>5 DEF List
<1>6. ASSUME NEW a \in Attempts, Write(a) PROVE Typed'
  BY <1>6 DEF Write
<1>7. ASSUME NEW a \in Attempts, WorkFails(a) PROVE Typed'
  BY <1>7 DEF WorkFails, Raises
<1>8. ASSUME NEW a \in Attempts, CloseRedis(a) PROVE Typed'
  BY <1>8 DEF CloseRedis
<1>9. ASSUME NEW a \in Attempts, Disconnect(a) PROVE Typed'
  BY <1>9, Dropped DEF Disconnect, Leave, Attempts
<1>10. ASSUME UNCHANGED vars PROVE Typed'
  BY <1>10 DEF vars
<1> QED
  BY <1>1, <1>2, <1>3, <1>4, <1>5, <1>6, <1>7, <1>8, <1>9, <1>10 DEF Next

\* Every variable stays in its type; a decay holds no Mongo handle, and an
\* attempt that is not running holds none at all.
THEOREM TypeCorrect == Spec => []TypeOK
<1>1. Typed => TypeOK
  BY DEF Typed
<1> QED
  BY <1>1, TypedInit, TypedNext, PTL DEF Spec

----------------------------------------------------------------------------
(* Who met whom *)

\* Meeting is mutual, attempts that run at once have met, and what an attempt
\* finds in a variable or was handed is its own or that of one it has met.
Acquainted ==
    /\ \A a, b \in Attempts : b \in met[a] => a \in met[b]
    /\ \A a, b \in Attempts : a # b /\ Running(a) /\ Running(b) => b \in met[a]
    /\ \A a \in Attempts : pc[a] = "new" => met[a] = {} /\ cause[a] = "none"
    /\ \A a \in Attempts, s \in Stores : handle[a][s] \in {None, a} \cup met[a]
    /\ \A a \in Attempts :
         /\ pc[a] = "ping_mongo" => client["mongo"] \in {None, a} \cup met[a]
         /\ pc[a] = "ping_redis" => client["redis"] \in {None, a} \cup met[a]

(* What an attempt that has met no rival can rely on *)

\* From its connect to its disconnect the variable is its own, and the client
\* in it is open; what it was handed is that client; and when it is over, the
\* client is closed.
Owns(a, s) ==
    /\ client[s] = a
    /\ <<s, a>> \in open

OwnsMongo(a) ==
    /\ a \in Refreshes /\ Running(a) => Owns(a, "mongo")
    /\ a \in Refreshes /\ pc[a] \in {"ping_redis", "list"} => handle[a]["mongo"] = a
    /\ pc[a] \in {"new", "done"} => <<"mongo", a>> \notin open

OwnsRedis(a) ==
    /\ pc[a] \in {"ping_redis", "list", "write", "release"} => Owns(a, "redis")
    /\ pc[a] \in {"list", "write"} => handle[a]["redis"] = a
    /\ pc[a] \in {"new", "closing", "done"} => <<"redis", a>> \notin open

SoloOwns == \A a \in Attempts :
    /\ Rivals("mongo", a) = {} => OwnsMongo(a)
    /\ Rivals("redis", a) = {} => OwnsRedis(a)

Inv == Typed /\ Acquainted /\ SoloOwns /\ FailureExplained

LEMMA InvInit == Init => Inv
<1> SUFFICES ASSUME Init PROVE Inv
  OBVIOUS
<1>1. Typed
  BY TypedInit
<1>2. Acquainted
  BY DEF Init, Acquainted, Stores, Running, Ended
<1>3. SoloOwns
  BY DEF Init, SoloOwns, OwnsMongo, OwnsRedis, Running, Ended
<1>4. FailureExplained
  BY DEF Init, FailureExplained, Stores
<1> QED BY <1>1, <1>2, <1>3, <1>4 DEF Inv

LEMMA InvStart ==
    ASSUME Inv, NEW b \in Attempts, Start(b), Typed'
    PROVE  Inv'
<1> USE DEF Inv, Typed
<1>1. /\ pc[b] = "new" /\ \A a \in Attempts \ {b} : pc'[a] = pc[a]
      /\ handle' = handle /\ cause' = cause
  BY DEF Start, Goto, TypeOK
<1>2. /\ \A c \in Attempts : c \in met'[b] <=> Running(c)
      /\ \A a \in Attempts \ {b}, c \in Attempts :
           c \in met'[a] <=> c \in met[a] \/ (Running(a) /\ c = b)
      /\ met' \in [Attempts -> SUBSET Attempts] /\ met \in [Attempts -> SUBSET Attempts]
  BY DEF Start, TypeOK
<1>3. \/ /\ b \in Refreshes /\ pc'[b] = "ping_mongo"
         /\ client'["mongo"] = b /\ client'["redis"] = client["redis"]
         /\ open' = open \cup {<<"mongo", b>>}
      \/ /\ b \in Decays /\ pc'[b] = "ping_redis"
         /\ client'["redis"] = b /\ client'["mongo"] = client["mongo"]
         /\ open' = open \cup {<<"redis", b>>}
  BY DEF Start, Goto, Open, TypeOK, Stores
<1>4. met[b] = {} /\ cause[b] = "none" /\ \A a \in Attempts : b \notin met[a]
  BY <1>1 DEF Acquainted
<1>5. Acquainted'
  <2>0. ~Running(b)
    BY <1>1 DEF Running
  <2>1. ASSUME NEW a \in Attempts, NEW c \in Attempts, c \in met'[a] PROVE a \in met'[c]
    <3>1. CASE a = b
      BY <1>2, <2>0, <2>1, <3>1
    <3>2. CASE a # b /\ c = b
      BY <1>2, <1>4, <2>1, <3>2
    <3>3. CASE a # b /\ c # b
      BY <1>2, <2>1, <3>3 DEF Acquainted
    <3> QED BY <3>1, <3>2, <3>3
  <2>2. \A a, c \in Attempts : a # c /\ Running(a)' /\ Running(c)' => c \in met'[a]
    BY <1>1, <1>2 DEF Acquainted, Running, Ended
  <2>3. \A a \in Attempts : pc'[a] = "new" => met'[a] = {} /\ cause'[a] = "none"
    BY <1>1, <1>2, <1>3 DEF Acquainted, Running, Ended
  <2>4. \A a \in Attempts, s \in Stores : handle'[a][s] \in {None, a} \cup met'[a]
    BY <1>1, <1>2, <1>4 DEF Acquainted
  <2>5. ASSUME NEW a \in Attempts
        PROVE  /\ pc'[a] = "ping_mongo" => client'["mongo"] \in {None, a} \cup met'[a]
               /\ pc'[a] = "ping_redis" => client'["redis"] \in {None, a} \cup met'[a]
    <3>1. CASE a = b
      BY <1>3, <3>1
    <3>2. CASE a # b
      BY <1>1, <1>2, <1>3, <3>2 DEF Acquainted, Running, Ended
    <3> QED BY <3>1, <3>2
  <2> QED BY <2>1, <2>2, <2>3, <2>4, <2>5 DEF Acquainted
<1>6. SoloOwns'
  <2> SUFFICES ASSUME NEW a \in Attempts
               PROVE  /\ Rivals("mongo", a)' = {} => OwnsMongo(a)'
                      /\ Rivals("redis", a)' = {} => OwnsRedis(a)'
    BY DEF SoloOwns
  <2>1. CASE a = b
    BY <1>1, <1>3, <2>1, AttemptAssumption
       DEF OwnsMongo, OwnsRedis, Owns, Running, Ended
  <2>2. CASE a # b
    <3>1. pc'[a] = pc[a] /\ (Running(a) => b \in met'[a])
      BY <1>1, <1>2, <2>2 DEF Acquainted
    <3>2. /\ Rivals("mongo", a)' = {} => Rivals("mongo", a) = {}
          /\ Rivals("redis", a)' = {} => Rivals("redis", a) = {} /\ ~Running(a)
      BY <1>2, <2>2, <3>1 DEF Rivals
    <3>3. ASSUME Rivals("mongo", a)' = {} PROVE OwnsMongo(a)'
      <4>1. Running(a) => b \notin Refreshes
        BY <3>1, <3>3 DEF Rivals
      <4> QED
        BY <1>1, <1>3, <2>2, <3>1, <3>2, <3>3, <4>1
           DEF SoloOwns, OwnsMongo, Owns, Running, Ended
    <3>4. ASSUME Rivals("redis", a)' = {} PROVE OwnsRedis(a)'
      BY <1>1, <1>3, <2>2, <3>1, <3>2, <3>4 DEF SoloOwns, OwnsRedis, Owns, Running, Ended
    <3> QED BY <3>3, <3>4
  <2> QED BY <2>1, <2>2
<1>7. FailureExplained'
  BY <1>1, <1>2, <1>4 DEF FailureExplained, Rivals, Stores
<1> QED BY <1>5, <1>6, <1>7

\* An attempt that has met no rival is not disturbed by a step of another.
LEMMA Bystander ==
    ASSUME Inv, NEW b \in Attempts, Running(b), met' = met,
           NEW a \in Attempts \ {b}, pc'[a] = pc[a], handle'[a] = handle[a],
           b \in Decays => /\ client'["mongo"] = client["mongo"]
                           /\ <<"mongo", a>> \in open => <<"mongo", a>> \in open',
           <<"mongo", a>> \in open' => <<"mongo", a>> \in open,
           <<"redis", a>> \in open' => <<"redis", a>> \in open \/ a \in met[b]
    PROVE  /\ Rivals("mongo", a)' = {} => OwnsMongo(a)'
           /\ Rivals("redis", a)' = {} => OwnsRedis(a)'
<1>1. Running(a) => b \in met[a]
  BY DEF Inv, Acquainted
<1>2. a \in met[b] => b \in met[a]
  BY DEF Inv, Acquainted
<1>3. ASSUME Rivals("mongo", a)' = {} PROVE OwnsMongo(a)'
  <2>1. Rivals("mongo", a) = {} /\ (Running(a) => b \in Decays)
    BY <1>1, <1>3 DEF Rivals, Attempts
  <2>2. OwnsMongo(a)
    BY <2>1 DEF Inv, SoloOwns
  <2> QED
    BY <2>1, <2>2 DEF OwnsMongo, Owns, Running, Ended
<1>4. ASSUME Rivals("redis", a)' = {} PROVE OwnsRedis(a)'
  <2>1. Rivals("redis", a) = {} /\ ~Running(a) /\ a \notin met[b]
    BY <1>1, <1>2, <1>4 DEF Rivals
  <2>2. OwnsRedis(a)
    BY <2>1 DEF Inv, SoloOwns
  <2> QED
    BY <2>1, <2>2 DEF OwnsRedis, Running, Ended
<1> QED BY <1>3, <1>4

\* A step that keeps met and the clients of others keeps what was met.
LEMMA StillAcquainted ==
    ASSUME Inv, NEW b \in Attempts, Running(b), met' = met,
           \A a \in Attempts \ {b} : /\ pc'[a] = pc[a] /\ handle'[a] = handle[a]
                                     /\ cause'[a] = cause[a],
           pc'[b] # "new",
           \A s \in Stores : /\ client'[s] \in {None, b, client[s]}
                             /\ handle'[b][s] \in {None, b, handle[b][s]} \cup met[b],
           pc'[b] = "ping_mongo" => client'["mongo"] \in {None, b},
           pc'[b] = "ping_redis" => client'["redis"] \in {None, b}
    PROVE  Acquainted'
<1> USE DEF Inv, Acquainted, Running, Ended
<1>1. \A a, c \in Attempts : a # c /\ Running(a)' /\ Running(c)' => c \in met[a]
  OBVIOUS
<1>2. \A a \in Attempts, s \in Stores : handle'[a][s] \in {None, a} \cup met[a]
  <2> TAKE a \in Attempts, s \in Stores
  <2>1. handle[a][s] \in {None, a} \cup met[a]
    OBVIOUS
  <2>2. CASE a = b
    BY <2>1, <2>2
  <2>3. CASE a # b
    BY <2>1, <2>3
  <2> QED BY <2>2, <2>3
<1>3. ASSUME NEW a \in Attempts
      PROVE  /\ pc'[a] = "ping_mongo" => client'["mongo"] \in {None, a} \cup met[a]
             /\ pc'[a] = "ping_redis" => client'["redis"] \in {None, a} \cup met[a]
  <2>1. CASE a = b
    BY <2>1
  <2>2. CASE a # b
    <3>1. "mongo" \in Stores /\ "redis" \in Stores
      BY DEF Stores
    <3>2. pc[a] \in {"ping_mongo", "ping_redis"} => b \in met[a]
      BY <2>2
    <3> QED BY <2>2, <3>1, <3>2
  <2> QED BY <2>1, <2>2
<1> QED BY <1>1, <1>2, <1>3

LEMMA InvMongoAnswers ==
    ASSUME Inv, NEW b \in Attempts, MongoAnswers(b), Typed'
    PROVE  Inv'
<1>1. /\ pc[b] = "ping_mongo" /\ pc'[b] = "ping_redis" /\ b \in Refreshes
      /\ met' = met /\ cause' = cause /\ Running(b)
  BY DEF Inv, Typed, TypeOK, Placed, MongoAnswers, Goto, Running, Ended
<1>2. \A a \in Attempts \ {b} : pc'[a] = pc[a] /\ handle'[a] = handle[a]
  BY DEF Inv, Typed, TypeOK, MongoAnswers, Goto, Connected
<1>3. handle'[b]["mongo"] = client["mongo"] /\ handle'[b]["redis"] = handle[b]["redis"]
  BY DEF Inv, Typed, TypeOK, Stores, MongoAnswers, Connected
<1>4. /\ client'["redis"] = b /\ client'["mongo"] = client["mongo"]
      /\ open' = open \cup {<<"redis", b>>}
  BY DEF Inv, Typed, TypeOK, Stores, MongoAnswers, Open
<1>5. Acquainted'
  <2>1. client["mongo"] \in {None, b} \cup met[b]
    BY <1>1 DEF Inv, Acquainted
  <2> QED
    BY <1>1, <1>2, <1>3, <1>4, <2>1, StillAcquainted DEF Stores
<1>6. SoloOwns'
  <2> SUFFICES ASSUME NEW a \in Attempts
               PROVE  /\ Rivals("mongo", a)' = {} => OwnsMongo(a)'
                      /\ Rivals("redis", a)' = {} => OwnsRedis(a)'
    BY DEF SoloOwns
  <2>1. CASE a = b
    <3>1. Rivals("mongo", b) = {} => OwnsMongo(b)
      BY DEF Inv, SoloOwns
    <3> QED
      BY <1>1, <1>3, <1>4, <2>1, <3>1 DEF OwnsMongo, OwnsRedis, Owns, Rivals, Running, Ended
  <2>2. CASE a # b
    BY <1>1, <1>2, <1>4, <2>2, AttemptAssumption, Bystander
  <2> QED BY <2>1, <2>2
<1>7. FailureExplained'
  BY <1>1 DEF Inv, FailureExplained, Rivals
<1> QED BY <1>5, <1>6, <1>7 DEF Inv

LEMMA InvRedisAnswers ==
    ASSUME Inv, NEW b \in Attempts, RedisAnswers(b), Typed'
    PROVE  Inv'
<1>1. /\ pc[b] = "ping_redis" /\ pc'[b] = IF b \in Refreshes THEN "list" ELSE "write"
      /\ UNCHANGED <<client, open, met, cause>> /\ Running(b)
  BY DEF Inv, Typed, TypeOK, RedisAnswers, Goto, Running, Ended
<1>2. \A a \in Attempts \ {b} : pc'[a] = pc[a] /\ handle'[a] = handle[a]
  BY DEF Inv, Typed, TypeOK, RedisAnswers, Goto, Connected
<1>3. handle'[b]["redis"] = client["redis"] /\ handle'[b]["mongo"] = handle[b]["mongo"]
  BY DEF Inv, Typed, TypeOK, Stores, RedisAnswers, Connected
<1>4. Acquainted'
  <2>1. client["redis"] \in {None, b} \cup met[b]
    BY <1>1 DEF Inv, Acquainted
  <2> QED
    BY <1>1, <1>2, <1>3, <2>1, StillAcquainted DEF Stores
<1>5. SoloOwns'
  <2> SUFFICES ASSUME NEW a \in Attempts
               PROVE  /\ Rivals("mongo", a)' = {} => OwnsMongo(a)'
                      /\ Rivals("redis", a)' = {} => OwnsRedis(a)'
    BY DEF SoloOwns
  <2>1. CASE a = b
    <3>1. /\ Rivals("mongo", b) = {} => OwnsMongo(b)
          /\ Rivals("redis", b) = {} => OwnsRedis(b)
      BY DEF Inv, SoloOwns
    <3> QED
      BY <1>1, <1>3, <2>1, <3>1 DEF OwnsMongo, OwnsRedis, Owns, Rivals, Running, Ended
  <2>2. CASE a # b
    BY <1>1, <1>2, <2>2, Bystander
  <2> QED BY <2>1, <2>2
<1>6. FailureExplained'
  BY <1>1 DEF Inv, FailureExplained, Rivals
<1> QED BY <1>4, <1>5, <1>6 DEF Inv

LEMMA InvPingFails ==
    ASSUME Inv, NEW b \in Attempts, PingFails(b), Typed'
    PROVE  Inv'
<1>1. /\ pc[b] \in {"ping_mongo", "ping_redis"} /\ pc'[b] = "unconnected" /\ Running(b)
      /\ UNCHANGED <<client, open, met>>
  BY DEF Inv, Typed, TypeOK, PingFails, Goto, Running, Ended
<1>2. \A a \in Attempts \ {b} :
        pc'[a] = pc[a] /\ handle'[a] = handle[a] /\ cause'[a] = cause[a]
  BY DEF Inv, Typed, TypeOK, PingFails, Goto, Raises
<1>3. \A s \in Stores : handle'[b][s] = None
  BY DEF Inv, Typed, TypeOK, PingFails
<1>4. Acquainted'
  BY <1>1, <1>2, <1>3, StillAcquainted
<1>5. SoloOwns'
  <2> SUFFICES ASSUME NEW a \in Attempts
               PROVE  /\ Rivals("mongo", a)' = {} => OwnsMongo(a)'
                      /\ Rivals("redis", a)' = {} => OwnsRedis(a)'
    BY DEF SoloOwns
  <2>1. CASE a = b
    BY <1>1, <2>1 DEF OwnsMongo, OwnsRedis, Running, Ended
  <2>2. CASE a # b
    BY <1>1, <1>2, <2>2, Bystander
  <2> QED BY <2>1, <2>2
<1>6. FailureExplained'
  <2> SUFFICES ASSUME NEW a \in Attempts, NEW s \in Stores, cause'[a] = s
               PROVE  Rivals(s, a)' # {}
    BY DEF FailureExplained
  <2>1. CASE cause[a] = s
    BY <1>1, <2>1 DEF Inv, FailureExplained, Rivals
  <2>2. CASE cause[a] # s
    <3>1. a = b /\ <<s, b>> \notin open
          /\ (s = "mongo" => pc[b] = "ping_mongo") /\ (s = "redis" => pc[b] = "ping_redis")
      BY <1>2, <2>2 DEF Inv, Typed, TypeOK, PingFails, Raises, Goto, Stores
    <3>2. Rivals(s, b) # {}
      <4>1. /\ Rivals("mongo", b) = {} => OwnsMongo(b)
            /\ Rivals("redis", b) = {} => OwnsRedis(b)
        BY DEF Inv, SoloOwns
      <4>2. CASE s = "mongo"
        <5>1. b \in Refreshes /\ Running(b)
          BY <3>1, <4>2 DEF Inv, Typed, Placed, Running, Ended
        <5>2. OwnsMongo(b) => <<"mongo", b>> \in open
          BY <5>1 DEF OwnsMongo, Owns
        <5> QED BY <3>1, <4>1, <4>2, <5>2
      <4>3. CASE s = "redis"
        <5>1. OwnsRedis(b) => <<"redis", b>> \in open
          BY <3>1, <4>3 DEF OwnsRedis, Owns
        <5> QED BY <3>1, <4>1, <4>3, <5>1
      <4> QED BY <4>2, <4>3 DEF Stores
    <3> QED BY <1>1, <3>1, <3>2 DEF Rivals
  <2> QED BY <2>1, <2>2
<1> QED BY <1>4, <1>5, <1>6 DEF Inv

LEMMA InvList ==
    ASSUME Inv, NEW b \in Attempts, List(b), Typed'
    PROVE  Inv'
<1>1. /\ pc[b] = "list" /\ pc'[b] = "write" /\ Running(b)
      /\ UNCHANGED <<client, open, handle, met, cause>>
      /\ \A a \in Attempts \ {b} : pc'[a] = pc[a]
  BY DEF Inv, Typed, TypeOK, List, Goto, Running, Ended
<1>2. Acquainted'
  BY <1>1, StillAcquainted
<1>3. SoloOwns'
  BY <1>1 DEF Inv, SoloOwns, OwnsMongo, OwnsRedis, Owns, Rivals, Running, Ended
<1>4. FailureExplained'
  BY <1>1 DEF Inv, FailureExplained, Rivals
<1> QED BY <1>2, <1>3, <1>4 DEF Inv

LEMMA InvWrite ==
    ASSUME Inv, NEW b \in Attempts, Write(b), Typed'
    PROVE  Inv'
<1>1. /\ pc[b] = "write" /\ pc'[b] = "release" /\ Running(b)
      /\ UNCHANGED <<client, handle, met, cause>>
      /\ \A a \in Attempts \ {b} : pc'[a] = pc[a]
      /\ open' = open \/ open' = open \cup {<<"redis", handle[b]["redis"]>>}
  BY DEF Inv, Typed, TypeOK, Write, Goto, Running, Ended
<1>2. handle[b]["redis"] \in {None, b} \cup met[b]
  BY DEF Inv, Acquainted, Stores
<1>3. Acquainted'
  BY <1>1, StillAcquainted
<1>4. SoloOwns'
  <2> SUFFICES ASSUME NEW a \in Attempts
               PROVE  /\ Rivals("mongo", a)' = {} => OwnsMongo(a)'
                      /\ Rivals("redis", a)' = {} => OwnsRedis(a)'
    BY DEF SoloOwns
  <2>1. CASE a = b
    <3>1. /\ Rivals("mongo", b) = {} => OwnsMongo(b)
          /\ Rivals("redis", b) = {} => OwnsRedis(b)
      BY DEF Inv, SoloOwns
    <3> QED
      BY <1>1, <2>1, <3>1 DEF OwnsMongo, OwnsRedis, Owns, Rivals, Running, Ended
  <2>2. CASE a # b
    <3>1. /\ <<"mongo", a>> \in open' => <<"mongo", a>> \in open
          /\ <<"redis", a>> \in open' => <<"redis", a>> \in open \/ a \in met[b]
          /\ <<"mongo", a>> \in open => <<"mongo", a>> \in open'
      BY <1>1, <1>2, <2>2, AttemptAssumption
    <3> QED
      BY <1>1, <2>2, <3>1, Bystander
  <2> QED BY <2>1, <2>2
<1>5. FailureExplained'
  BY <1>1 DEF Inv, FailureExplained, Rivals
<1> QED BY <1>3, <1>4, <1>5 DEF Inv

LEMMA InvWorkFails ==
    ASSUME Inv, NEW b \in Attempts, WorkFails(b), Typed'
    PROVE  Inv'
<1>1. /\ pc[b] \in {"list", "write"} /\ pc'[b] = "release" /\ Running(b)
      /\ UNCHANGED <<client, open, handle, met>>
      /\ \A a \in Attempts \ {b} : pc'[a] = pc[a] /\ cause'[a] = cause[a]
  BY DEF Inv, Typed, TypeOK, WorkFails, Goto, Raises, Running, Ended
<1>2. Acquainted'
  BY <1>1, StillAcquainted
<1>3. SoloOwns'
  BY <1>1 DEF Inv, SoloOwns, OwnsMongo, OwnsRedis, Owns, Rivals, Running, Ended
<1>4. FailureExplained'
  <2> SUFFICES ASSUME NEW a \in Attempts, NEW s \in Stores, cause'[a] = s
               PROVE  Rivals(s, a)' # {}
    BY DEF FailureExplained
  <2>1. CASE cause[a] = s
    BY <1>1, <2>1 DEF Inv, FailureExplained, Rivals
  <2>2. CASE cause[a] # s
    <3>1. a = b /\ <<s, handle[b][s]>> \notin open
          /\ (s = "mongo" => pc[b] = "list") /\ (s = "redis" => pc[b] = "write")
      BY <1>1, <2>2 DEF Inv, Typed, TypeOK, WorkFails, Raises, Goto, Stores
    <3>2. Rivals(s, b) # {}
      <4>1. /\ Rivals("mongo", b) = {} => OwnsMongo(b)
            /\ Rivals("redis", b) = {} => OwnsRedis(b)
        BY DEF Inv, SoloOwns
      <4>2. CASE s = "mongo"
        <5>1. b \in Refreshes /\ pc[b] = "list"
          BY <3>1, <4>2 DEF Inv, Typed, Placed
        <5>2. OwnsMongo(b) => <<"mongo", handle[b]["mongo"]>> \in open
          BY <1>1, <5>1 DEF OwnsMongo, Owns
        <5> QED BY <3>1, <4>1, <4>2, <5>2
      <4>3. CASE s = "redis"
        <5>1. OwnsRedis(b) => <<"redis", handle[b]["redis"]>> \in open
          BY <3>1, <4>3 DEF OwnsRedis, Owns
        <5> QED BY <3>1, <4>1, <4>3, <5>1
      <4> QED BY <4>2, <4>3 DEF Stores
    <3> QED BY <1>1, <3>1, <3>2 DEF Rivals
  <2> QED BY <2>1, <2>2
<1> QED BY <1>2, <1>3, <1>4 DEF Inv

LEMMA InvCloseRedis ==
    ASSUME Inv, NEW b \in Attempts, CloseRedis(b), Typed'
    PROVE  Inv'
<1>1. /\ pc[b] = "release" /\ pc'[b] = "closing" /\ Running(b)
      /\ UNCHANGED <<client, handle, met, cause>>
      /\ \A a \in Attempts \ {b} : pc'[a] = pc[a]
      /\ open' = open \ {<<"redis", client["redis"]>>}
  BY DEF Inv, Typed, TypeOK, CloseRedis, Goto, Running, Ended
<1>2. Acquainted'
  BY <1>1, StillAcquainted
<1>3. SoloOwns'
  <2> SUFFICES ASSUME NEW a \in Attempts
               PROVE  /\ Rivals("mongo", a)' = {} => OwnsMongo(a)'
                      /\ Rivals("redis", a)' = {} => OwnsRedis(a)'
    BY DEF SoloOwns
  <2>1. CASE a = b
    <3>1. /\ Rivals("mongo", b) = {} => OwnsMongo(b)
          /\ Rivals("redis", b) = {} => OwnsRedis(b)
      BY DEF Inv, SoloOwns
    <3> QED
      BY <1>1, <2>1, <3>1 DEF OwnsMongo, OwnsRedis, Owns, Rivals, Running, Ended
  <2>2. CASE a # b
    BY <1>1, <2>2, Bystander
  <2> QED BY <2>1, <2>2
<1>4. FailureExplained'
  BY <1>1 DEF Inv, FailureExplained, Rivals
<1> QED BY <1>2, <1>3, <1>4 DEF Inv

LEMMA InvDisconnect ==
    ASSUME Inv, NEW b \in Attempts, Disconnect(b), Typed'
    PROVE  Inv'
<1>1. /\ pc[b] = "closing" \/ (pc[b] = "release" /\ client["redis"] = None)
      /\ pc'[b] = "done" /\ Running(b) /\ UNCHANGED <<met, cause>>
      /\ \A a \in Attempts \ {b} : pc'[a] = pc[a] /\ handle'[a] = handle[a]
      /\ \A s \in Stores : handle'[b][s] = None
  BY DEF Inv, Typed, TypeOK, Disconnect, Leave, Running, Ended
<1>2. /\ client'["redis"] = None
      /\ \A s \in Stores : client'[s] \in {None, client[s]}
      /\ b \in Refreshes => open' = open \ {<<"mongo", client["mongo"]>>}
      /\ b \notin Refreshes => open' = open /\ client'["mongo"] = client["mongo"]
  BY DEF Inv, Typed, TypeOK, Disconnect, Leave, Stores
<1>3. Acquainted'
  BY <1>1, <1>2, StillAcquainted
<1>4. SoloOwns'
  <2> SUFFICES ASSUME NEW a \in Attempts
               PROVE  /\ Rivals("mongo", a)' = {} => OwnsMongo(a)'
                      /\ Rivals("redis", a)' = {} => OwnsRedis(a)'
    BY DEF SoloOwns
  <2>1. CASE a = b
    <3>1. /\ Rivals("mongo", b) = {} => OwnsMongo(b)
          /\ Rivals("redis", b) = {} => OwnsRedis(b)
      BY DEF Inv, SoloOwns
    <3>2. None # b
      BY AttemptAssumption
    <3>3. <<"mongo", b>> \in open => b \in Refreshes
      BY DEF Inv, Typed, Placed
    <3> QED
      BY <1>1, <1>2, <2>1, <3>1, <3>2, <3>3
         DEF OwnsMongo, OwnsRedis, Owns, Rivals, Running, Ended
  <2>2. CASE a # b
    BY <1>1, <1>2, <2>2, AttemptAssumption, Bystander
  <2> QED BY <2>1, <2>2
<1>5. FailureExplained'
  BY <1>1 DEF Inv, FailureExplained, Rivals
<1> QED BY <1>3, <1>4, <1>5 DEF Inv

LEMMA InvNext == Inv /\ [Next]_vars => Inv'
<1> SUFFICES ASSUME Inv, [Next]_vars PROVE Inv'
  OBVIOUS
<1>1. Typed'
  BY TypedNext DEF Inv
<1>2. ASSUME UNCHANGED vars PROVE Inv'
  BY <1>2 DEF vars, Inv, Typed, TypeOK, Placed, Acquainted, SoloOwns, OwnsMongo, OwnsRedis,
              Owns, Rivals, FailureExplained, Running, Ended
<1> QED
  BY <1>1, <1>2, InvStart, InvMongoAnswers, InvRedisAnswers, InvPingFails, InvList,
     InvWrite, InvWorkFails, InvCloseRedis, InvDisconnect DEF Next

LEMMA InvAlways == Spec => []Inv
BY InvInit, InvNext, PTL DEF Spec

----------------------------------------------------------------------------
(* Theorems *)

\* However many attempts overlap, time out, fail and leak: one that is failed by
\* a closed or missing client has met an attempt that uses the same store.
THEOREM FailuresExplained == Spec => []FailureExplained
<1>1. Inv => FailureExplained
  BY DEF Inv
<1> QED
  BY <1>1, InvAlways, PTL

\* However many attempts there are, a client outlives its attempt only after a
\* connect that failed or beside another user of its store.
THEOREM ClientLeaksExplained == Spec => []LeaksExplained
<1>1. Inv => LeaksExplained
  <2> SUFFICES ASSUME Inv, NEW s \in Stores, NEW a \in Attempts, <<s, a>> \in open,
                      ~Running(a), pc[a] # "unconnected"
               PROVE  Rivals(s, a) # {}
    BY DEF LeaksExplained
  <2>1. pc[a] \in {"new", "done"}
    BY DEF Inv, Typed, TypeOK, Running, Ended
  <2> QED
    BY <2>1 DEF Inv, SoloOwns, OwnsMongo, OwnsRedis, Stores
<1> QED
  BY <1>1, InvAlways, PTL
=============================================================================
