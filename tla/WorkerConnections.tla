-------------------------- MODULE WorkerConnections --------------------------
(***************************************************************************)
(* The Mongo and Redis clients of one worker process.  Each activity       *)
(* attempt connects, works and disconnects, but through one module-level   *)
(* variable per store, and attempts overlap: both schedules fire together  *)
(* every six hours, and an attempt that ran into its timeout keeps running *)
(* beside its retry.                                                       *)
(*                                                                         *)
(* An attempt opens at most one client per store, so a client is named by  *)
(* the attempt that opened it.  What the attempts write is the subject of  *)
(* CampaignCache and CounterDecay.                                         *)
(***************************************************************************)
EXTENDS FiniteSets

CONSTANTS
    Refreshes,      \* attempts at refresh_campaign_cache
    Decays,         \* attempts at decay_ctr_counters
    None,           \* no client
    Faults          \* stores that may fail, and whether attempts time out

Attempts == Refreshes \cup Decays
Stores == {"mongo", "redis"}

ASSUME AttemptAssumption == Refreshes \cap Decays = {} /\ None \notin Attempts
ASSUME FaultAssumption == Faults \subseteq Stores \cup {"slow"}

VARIABLES
    client,     \* the module-level variable of each store
    open,       \* clients that hold connections, with their store
    pc,         \* where each attempt is suspended
    handle,     \* the clients connect() returned to each attempt
    met,        \* observer: attempts that ran at the same time
    cause       \* observer: what failed an attempt, if anything did

vars == <<client, open, pc, handle, met, cause>>

Ended == {"done", "unconnected"}
Running(a) == pc[a] \notin Ended \cup {"new"}

Init ==
    /\ client = [s \in Stores |-> None]
    /\ open = {}
    /\ pc = [a \in Attempts |-> "new"]
    /\ handle = [a \in Attempts |-> [s \in Stores |-> None]]
    /\ met = [a \in Attempts |-> {}]
    /\ cause = [a \in Attempts |-> "none"]

Goto(a, from, to) == pc[a] = from /\ pc' = [pc EXCEPT ![a] = to]

----------------------------------------------------------------------------
(* connect: assign the variable, await the ping, return the variable *)

\* Mutant: both modules share one variable.
OpenBoth(s, a) ==
    /\ client' = [t \in Stores |-> a]
    /\ open' = open \cup {<<s, a>>}

Open(s, a) ==
    /\ client' = [client EXCEPT ![s] = a]
    /\ open' = open \cup {<<s, a>>}

\* The overlap policy skips a firing while the workflow runs, so two attempts
\* of one activity meet only when the first has timed out.
Start(a) ==
    /\ \A b \in Attempts \ {a} :
         Running(b) /\ (a \in Refreshes <=> b \in Refreshes) => "slow" \in Faults
    /\ \/ a \in Refreshes /\ Goto(a, "new", "ping_mongo") /\ Open("mongo", a)
       \/ a \in Decays /\ Goto(a, "new", "ping_redis") /\ Open("redis", a)
    /\ met' = [b \in Attempts |->
         IF b = a THEN {c \in Attempts : Running(c)}
         ELSE IF Running(b) THEN met[b] \cup {a} ELSE met[b]]
    /\ UNCHANGED <<handle, cause>>

Connected(s, a) == handle' = [handle EXCEPT ![a][s] = client[s]]

\* Mongo answers; the Redis client is opened before anything else can run.
MongoAnswers(a) ==
    /\ Goto(a, "ping_mongo", "ping_redis")
    /\ Connected("mongo", a)
    /\ Open("redis", a)
    /\ UNCHANGED <<met, cause>>

RedisAnswers(a) ==
    /\ Goto(a, "ping_redis", IF a \in Refreshes THEN "list" ELSE "write")
    /\ Connected("redis", a)
    /\ UNCHANGED <<client, open, met, cause>>

\* A call on client h of a store raises: the store fails, or the client is
\* missing or closed.
Raises(a, s, h) ==
    \/ s \in Faults /\ cause' = [cause EXCEPT ![a] = "fault"]
    \/ <<s, h>> \notin open /\ cause' = [cause EXCEPT ![a] = s]

\* The ping raises, outside the try: nothing is disconnected.
PingFails(a) ==
    /\ \/ Goto(a, "ping_mongo", "unconnected") /\ Raises(a, "mongo", a)
       \/ Goto(a, "ping_redis", "unconnected") /\ Raises(a, "redis", a)
    /\ handle' = [handle EXCEPT ![a] = [t \in Stores |-> None]]
    /\ UNCHANGED <<client, open, met>>

----------------------------------------------------------------------------
(* The work.  A call on a closed client may still get its answer, and a     *)
(* Redis client connects again when it is used.                             *)

List(a) ==
    /\ Goto(a, "list", "write")
    /\ handle[a]["mongo"] # None
    /\ UNCHANGED <<client, open, handle, met, cause>>

Write(a) ==
    /\ Goto(a, "write", "release")
    /\ handle[a]["redis"] # None
    /\ \/ open' = open
       \/ open' = open \cup {<<"redis", handle[a]["redis"]>>}
    /\ UNCHANGED <<client, handle, met, cause>>

WorkFails(a) ==
    /\ \/ Goto(a, "list", "release") /\ Raises(a, "mongo", handle[a]["mongo"])
       \/ Goto(a, "write", "release") /\ Raises(a, "redis", handle[a]["redis"])
    /\ UNCHANGED <<client, open, handle, met>>

----------------------------------------------------------------------------
(* finally: disconnect whatever the variables hold by now *)

\* Closing the Redis client is an await.
CloseRedis(a) ==
    /\ client["redis"] # None
    /\ Goto(a, "release", "closing")
    /\ open' = open \ {<<"redis", client["redis"]>>}
    /\ UNCHANGED <<client, handle, met, cause>>

Leave(a) ==
    /\ pc' = [pc EXCEPT ![a] = "done"]
    /\ handle' = [handle EXCEPT ![a] = [s \in Stores |-> None]]
    /\ UNCHANGED <<met, cause>>

\* Mutant: every activity disconnects from both stores.
DisconnectBoth(a) ==
    /\ pc[a] = "closing" \/ (pc[a] = "release" /\ client["redis"] = None)
    /\ Leave(a)
    /\ client' = [s \in Stores |-> None]
    /\ open' = open \ {<<"mongo", client["mongo"]>>}

\* Mutant: only Redis is disconnected.
DisconnectRedisOnly(a) ==
    /\ pc[a] = "closing" \/ (pc[a] = "release" /\ client["redis"] = None)
    /\ Leave(a)
    /\ client' = [client EXCEPT !["redis"] = None]
    /\ UNCHANGED open

\* The variable is reset; a refresh then disconnects Mongo, without an await.
Disconnect(a) ==
    /\ pc[a] = "closing" \/ (pc[a] = "release" /\ client["redis"] = None)
    /\ Leave(a)
    /\ IF a \in Refreshes
       THEN /\ client' = [s \in Stores |-> None]
            /\ open' = open \ {<<"mongo", client["mongo"]>>}
       ELSE /\ client' = [client EXCEPT !["redis"] = None]
            /\ UNCHANGED open

----------------------------------------------------------------------------
Next == \E a \in Attempts :
    \/ Start(a) \/ MongoAnswers(a) \/ RedisAnswers(a) \/ PingFails(a)
    \/ List(a) \/ Write(a) \/ WorkFails(a)
    \/ CloseRedis(a) \/ Disconnect(a)

Spec == Init /\ [][Next]_vars

----------------------------------------------------------------------------
(* Properties *)

\* A decay never holds a Mongo handle, and only running attempts hold any.
TypeOK ==
    /\ client \in [Stores -> Attempts \cup {None}] /\ client["mongo"] \notin Decays
    /\ open \subseteq (Stores \X Attempts)
    /\ pc \in [Attempts -> {"new", "ping_mongo", "ping_redis", "list", "write",
                            "release", "closing"} \cup Ended]
    /\ handle \in [Attempts -> [Stores -> Attempts \cup {None}]]
    /\ \A a \in Attempts : a \in Decays \/ ~Running(a) => handle[a]["mongo"] = None
    /\ met \in [Attempts -> SUBSET Attempts]
    /\ cause \in [Attempts -> {"none", "fault"} \cup Stores]

\* Who can take a client of a store away from an attempt: decay does not touch
\* Mongo, everything touches Redis.
Rivals(s, a) == met[a] \cap (IF s = "mongo" THEN Refreshes ELSE Attempts)

\* "They build their own connections": an attempt is failed by a closed or
\* missing client only if it met an attempt that uses the same store.  Whatever
\* earlier attempts left behind when they failed, overlapped or leaked, an
\* attempt that runs alone is not hurt by it, and a decay never costs a refresh
\* its Mongo.
FailureExplained == \A a \in Attempts : \A s \in Stores :
    cause[a] = s => Rivals(s, a) # {}

\* A client outlives its attempt only because a connect failed, or because
\* another user of the store overlapped.
LeaksExplained == \A s \in Stores, a \in Attempts :
    <<s, a>> \in open => \/ Running(a) \/ pc[a] = "unconnected" \/ Rivals(s, a) # {}
=============================================================================
