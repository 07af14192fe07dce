------------------------------ MODULE Sessions ------------------------------
(***************************************************************************)
(* SessionService: who a caller is, which session it is given, and how     *)
(* long that lasts.  A user key has a pointer to its current session that  *)
(* expires after Idle ticks; a session has a hash of details that expires  *)
(* after Keep ticks.  Each Redis command, and each MULTI pipeline, is one  *)
(* step; coroutines interleave between them.                               *)
(*                                                                         *)
(* A hash is "partial" when only a HINCRBY made it, without the fields     *)
(* get() insists on.  The serve count itself is left out: nothing reads it *)
(* but the session's own answer.                                           *)
(***************************************************************************)
EXTENDS Naturals, FiniteSets

CONSTANTS
    Names,          \* strings a caller can send as ppid or come from as IP
    NoName,         \* the absent ppid or IP
    Callers,        \* who calls: a ppid and an IP, either may be absent
    SessionIds,     \* what new_id("sess") can return, never twice the same
    NoSession,
    Tasks,          \* coroutines of the API instances
    Idle,           \* idle_ttl_s, in ticks
    Keep,           \* idle_ttl_s * 60, in ticks
    Faults          \* which failures of the environment may occur

ASSUME NameAssumption ==
    /\ NoName \notin Names /\ NoSession \notin SessionIds
    /\ Callers \subseteq [ppid : Names \cup {NoName}, ip : Names \cup {NoName}]
ASSUME TimeAssumption == Idle \in Nat \ {0} /\ Keep \in Nat /\ Idle <= Keep
ASSUME FaultAssumption == Faults \subseteq {"flush", "crash", "slow"}

Key == {"ppid", "ip"} \X Names

\* The throwaway identity of a caller with neither ppid nor IP: a fresh key at
\* every resolve, so no pointer of it is ever read again.
Throwaway == <<"anon", NoName>>

VARIABLES
    pointer,    \* sess:user:<key> -> the session id and its time to live
    hash,       \* sess:id:<id> -> the details, their owner and time to live
    born,       \* session ids handed out by new_id
    pc,         \* where each coroutine is suspended
    caller,     \* whose request it serves
    key,        \* the user key it resolved or loaded
    sid,        \* the session id it read
    since,      \* observer: ticks since the user's last activity, up to Idle
    excuse,     \* observer: why the window may have closed early
    holders,    \* observer: the callers each session was given to
    torn        \* observer: sessions that went while a serve of theirs was under way

vars == <<pointer, hash, born, pc, caller, key, sid, since, excuse, holders, torn>>

Nobody == [ppid |-> NoName, ip |-> NoName]
Dead == [sid |-> NoSession, left |-> 0]
NoHash == [kind |-> "none", owner |-> Throwaway, left |-> 0]

Init ==
    /\ pointer = [k \in Key |-> Dead]
    /\ hash = [s \in SessionIds |-> NoHash]
    /\ born = {}
    /\ pc = [p \in Tasks |-> "idle"]
    /\ caller = [p \in Tasks |-> Nobody]
    /\ key = [p \in Tasks |-> Throwaway]
    /\ sid = [p \in Tasks |-> NoSession]
    /\ since = [k \in Key |-> Idle]
    /\ excuse = [k \in Key |-> {}]
    /\ holders = [s \in SessionIds |-> {}]
    /\ torn = {}

----------------------------------------------------------------------------
(* Shared pieces *)

\* Mutant: one namespace for both kinds of identity.
UserKeyShared(c) ==
    IF c.ppid # NoName THEN <<"ppid", c.ppid>>
    ELSE IF c.ip # NoName THEN <<"ppid", c.ip>>
    ELSE Throwaway

\* ppid if there is one, else the IP, each in its own namespace.
UserKey(c) ==
    IF c.ppid # NoName THEN <<"ppid", c.ppid>>
    ELSE IF c.ip # NoName THEN <<"ip", c.ip>>
    ELSE Throwaway

Alive(k) == k \in Key /\ pointer[k].left > 0

\* EXPIRE of the pointer: re-arms whatever session it points to now, and does
\* nothing when the key is gone.
Rearm(k) ==
    /\ pointer' = [q \in Key |->
         IF q = k /\ Alive(k) THEN [pointer[q] EXCEPT !.left = Idle] ELSE pointer[q]]
    /\ since' = [q \in Key |-> IF q = k THEN 0 ELSE since[q]]
    /\ excuse' = [q \in Key |->
         IF q = k /\ ~Alive(k) THEN excuse[q] \cup {"lapse"} ELSE excuse[q]]

Goto(p, from, to) == pc[p] = from /\ pc' = [pc EXCEPT ![p] = to]

\* A coroutine ends and its locals with it.
Finish(p, from) ==
    /\ Goto(p, from, "idle")
    /\ caller' = [caller EXCEPT ![p] = Nobody]
    /\ key' = [key EXCEPT ![p] = Throwaway]
    /\ sid' = [sid EXCEPT ![p] = NoSession]

Give(p, s) == holders' = [holders EXCEPT ![s] = @ \cup {caller[p]}]

\* Nothing a coroutine does to Redis.
KeepStore == UNCHANGED <<pointer, hash, born, since, excuse, holders, torn>>

----------------------------------------------------------------------------
(* resolve_or_create *)

\* Bound: a resolve starts only while ids are left for it and those under way.
IdsLeft ==
    Cardinality({p \in Tasks : pc[p] \in {"got", "armed", "found", "mint"}})
        < Cardinality(SessionIds \ born)

\* GET of the pointer.
Resolve(p, c) ==
    /\ pc[p] = "idle" /\ IdsLeft
    /\ caller' = [caller EXCEPT ![p] = c]
    /\ key' = [key EXCEPT ![p] = UserKey(c)]
    /\ IF Alive(UserKey(c))
       THEN /\ sid' = [sid EXCEPT ![p] = pointer[UserKey(c)].sid]
            /\ pc' = [pc EXCEPT ![p] = "got"]
       ELSE /\ sid' = [sid EXCEPT ![p] = NoSession]
            /\ pc' = [pc EXCEPT ![p] = "mint"]
    /\ KeepStore

Extend(p) ==
    /\ Goto(p, "got", "armed")
    /\ Rearm(key[p])
    /\ UNCHANGED <<hash, born, caller, key, sid, holders, torn>>

\* HGETALL of the session the pointer named.
Inspect(p) ==
    /\ pc[p] = "armed"
    /\ \/ /\ hash[sid[p]].kind = "full"
          /\ pc' = [pc EXCEPT ![p] = "found"]
          /\ excuse' = excuse
       \/ /\ hash[sid[p]].kind = "none"
          /\ pc' = [pc EXCEPT ![p] = "mint"]
          /\ excuse' = [excuse EXCEPT ![key[p]] = @ \cup {"detail"}]
       \/ /\ hash[sid[p]].kind = "partial"
          /\ pc' = [pc EXCEPT ![p] = "failed"]
          /\ excuse' = excuse
    /\ UNCHANGED <<pointer, hash, born, caller, key, sid, since, holders, torn>>

\* Mutant: the hash's time to live is extended instead of set.
ReturnExtends(p) ==
    /\ Finish(p, "found")
    /\ hash' = IF hash[sid[p]].kind = "none" THEN hash
               ELSE [hash EXCEPT ![sid[p]].left = @ + Keep]
    /\ Give(p, sid[p])
    /\ UNCHANGED <<pointer, born, since, excuse, torn>>

\* EXPIRE of the hash, and the answer.
Return(p) ==
    /\ Finish(p, "found")
    /\ hash' = IF hash[sid[p]].kind = "none" THEN hash
               ELSE [hash EXCEPT ![sid[p]].left = Keep]
    /\ Give(p, sid[p])
    /\ UNCHANGED <<pointer, born, since, excuse, torn>>

\* One pipeline: SET of the pointer, HSET and EXPIRE of the hash; the answer.
Mint(p, s) ==
    /\ Finish(p, "mint")
    /\ s \notin born
    /\ born' = born \cup {s}
    /\ hash' = [hash EXCEPT ![s] = [kind |-> "full", owner |-> key[p], left |-> Keep]]
    /\ pointer' = [q \in Key |->
         IF q = key[p] THEN [sid |-> s, left |-> Idle] ELSE pointer[q]]
    /\ since' = [q \in Key |-> IF q = key[p] THEN 0 ELSE since[q]]
    /\ excuse' = [q \in Key |->
         IF q # key[p] THEN excuse[q]
         ELSE IF \E r \in Tasks \ {p} : pc[r] = "mint" /\ key[r] = q
              THEN {"race"} ELSE {}]
    /\ Give(p, s)
    /\ UNCHANGED torn

----------------------------------------------------------------------------
(* load_native: get, the serve itself, then touch in the background *)

\* Mutant: the session is not looked up before it is served.
LoadUnchecked(p, s) ==
    /\ pc[p] = "idle"
    /\ \/ hash[s].kind # "partial" /\ pc' = [pc EXCEPT ![p] = "loaded"]
       \/ hash[s].kind = "partial" /\ pc' = [pc EXCEPT ![p] = "failed"]
    /\ sid' = [sid EXCEPT ![p] = s]
    /\ key' = [key EXCEPT ![p] = hash[s].owner]
    /\ UNCHANGED caller
    /\ KeepStore

\* An id without a hash is answered 404 and changes nothing.
Load(p, s) ==
    /\ pc[p] = "idle"
    /\ \/ hash[s].kind = "full" /\ pc' = [pc EXCEPT ![p] = "loaded"]
       \/ hash[s].kind = "partial" /\ pc' = [pc EXCEPT ![p] = "failed"]
    /\ sid' = [sid EXCEPT ![p] = s]
    /\ key' = [key EXCEPT ![p] = hash[s].owner]
    /\ UNCHANGED caller
    /\ KeepStore

\* No ad for the slot: the request ends without recording activity.
NoAd(p) ==
    /\ Finish(p, "loaded")
    /\ KeepStore

\* HINCRBY makes the hash if it is gone, with nothing else in it.
Bumped(details) ==
    [kind |-> IF details.kind = "none" THEN "partial" ELSE details.kind,
     owner |-> details.owner, left |-> Keep]

\* Mutant: a serve bumps the session but not the user's idle window.
TouchHashOnly(p) ==
    /\ Finish(p, "loaded")
    /\ hash' = [hash EXCEPT ![sid[p]] = Bumped(@)]
    /\ since' = [q \in Key |-> IF q = key[p] THEN 0 ELSE since[q]]
    /\ UNCHANGED <<pointer, excuse, born, holders, torn>>

\* One pipeline: EXPIRE of the pointer, HINCRBY and EXPIRE of the hash.
Touch(p) ==
    /\ Finish(p, "loaded")
    /\ Rearm(key[p])
    /\ hash' = [hash EXCEPT ![sid[p]] = Bumped(@)]
    /\ UNCHANGED <<born, holders, torn>>

EndFailed(p) == Finish(p, "failed") /\ KeepStore

----------------------------------------------------------------------------
(* The environment *)

\* A session's details go: found by a serve that already loaded it.
Tear ==
    torn' = torn \cup {s \in SessionIds :
        hash[s] # NoHash /\ hash'[s] = NoHash
        /\ \E p \in Tasks : pc[p] = "loaded" /\ sid[p] = s}

\* Time passes for every key.  Requests are short against a tick, unless
\* "slow" is among the faults.
Tick ==
    /\ "slow" \in Faults \/ \A p \in Tasks : pc[p] = "idle"
    /\ pointer' = [k \in Key |->
         IF pointer[k].left <= 1 THEN Dead ELSE [pointer[k] EXCEPT !.left = @ - 1]]
    /\ hash' = [s \in SessionIds |->
         IF hash[s].left <= 1 THEN NoHash ELSE [hash[s] EXCEPT !.left = @ - 1]]
    /\ Tear
    /\ since' = [k \in Key |-> IF since[k] < Idle THEN since[k] + 1 ELSE Idle]
    /\ UNCHANGED <<born, pc, caller, key, sid, excuse, holders>>

\* Redis is flushed, or restarts without its data.
Flush ==
    /\ "flush" \in Faults
    /\ pointer' = [k \in Key |-> Dead]
    /\ hash' = [s \in SessionIds |-> NoHash]
    /\ Tear
    /\ excuse' = [k \in Key |-> excuse[k] \cup {"flush"}]
    /\ UNCHANGED <<born, pc, caller, key, sid, since, holders>>

\* The instance dies, or a Redis call raises: the coroutine ends here.
Crash(p) ==
    /\ "crash" \in Faults /\ pc[p] # "idle"
    /\ Finish(p, pc[p])
    /\ KeepStore

----------------------------------------------------------------------------
Step(p) ==
    \/ \E c \in Callers : Resolve(p, c)
    \/ Extend(p)
    \/ Inspect(p)
    \/ Return(p)
    \/ \E s \in SessionIds : Mint(p, s) \/ Load(p, s)
    \/ NoAd(p)
    \/ Touch(p)
    \/ EndFailed(p)
    \/ Crash(p)

Next == (\E p \in Tasks : Step(p)) \/ Tick \/ Flush

Spec == Init /\ [][Next]_vars

----------------------------------------------------------------------------
(* Properties *)

TypeOK ==
    /\ pointer \in [Key -> [sid : SessionIds \cup {NoSession}, left : 0 .. Idle]]
    /\ hash \in [SessionIds -> [kind : {"none", "full", "partial"},
                                owner : Key \cup {Throwaway}, left : 0 .. Keep]]
    /\ born \subseteq SessionIds
    /\ pc \in [Tasks -> {"idle", "got", "armed", "found", "mint", "loaded", "failed"}]
    /\ caller \in [Tasks -> Callers \cup {Nobody}]
    /\ key \in [Tasks -> Key \cup {Throwaway}]
    /\ sid \in [Tasks -> SessionIds \cup {NoSession}]
    /\ since \in [Key -> 0 .. Idle]
    /\ excuse \in [Key -> SUBSET {"race", "lapse", "detail", "flush"}]
    /\ holders \in [SessionIds -> SUBSET Callers]
    /\ torn \subseteq SessionIds

\* "The store's own expiry IS the rule": while a pointer lives, its time to
\* live is exactly what is left of the idle window since the user's last
\* activity, whichever coroutine recorded that; and a pointer is missing
\* inside the window only for one of the recorded reasons.
ExpiryIsTheRule ==
    \A k \in Key :
        /\ Alive(k) => pointer[k].left + since[k] = Idle
        /\ ~Alive(k) /\ since[k] < Idle => excuse[k] # {}

\* The same user, as the publisher means it: the ppid decides, else the IP;
\* two anonymous requests never are.
SameUser(c, d) ==
    IF c.ppid # NoName \/ d.ppid # NoName THEN c.ppid = d.ppid
    ELSE c.ip # NoName /\ c.ip = d.ip

\* No session is ever given to two different users, not to a ppid that spells
\* another user's IP and not to two anonymous callers, whatever their
\* requests' steps do between each other.
SessionsAreNotShared ==
    /\ \A s \in SessionIds : \A c, d \in holders[s] : c = d \/ SameUser(c, d)
    /\ \A p \in Tasks : pc[p] = "found" =>
         \A d \in holders[sid[p]] : SameUser(caller[p], d)

\* A mint is a user key's step from one session to the next.
Mints(k) == pointer'[k].sid \notin {pointer[k].sid, NoSession}

\* A new session inside the idle window always has a recorded reason: another
\* resolve of the same user raced it, the pointer had expired under an earlier
\* activity, the session's details were lost, or Redis was flushed.
MintJustified ==
    [][\A k \in Key : Mints(k) /\ since[k] < Idle => excuse[k] # {}]_vars

\* An unknown or expired session is a 404.  A server error, from details that
\* are only half there, needs a session that went while a serve of it was under
\* way: no crash, no race and no time that passes at rest is enough.
ServerErrorsExplained == \A p \in Tasks : pc[p] = "failed" => sid[p] \in torn
=============================================================================
