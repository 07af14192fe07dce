---------------------------- MODULE SessionsProofs ----------------------------
(***************************************************************************)
(* Sessions for any number of callers, sessions, coroutines and ticks:     *)
(* types, the idle window, who is given which session, and what a server   *)
(* error takes.                                                            *)
(***************************************************************************)
EXTENDS Sessions, TLAPS

----------------------------------------------------------------------------
(* Types *)

Resolving == {"got", "armed", "found"}

\* What a coroutine knows at each step, and what a living pointer names.
Known ==
    /\ \A p \in Tasks :
         /\ pc[p] \in Resolving \cup {"mint"} =>
              caller[p] \in Callers /\ key[p] = UserKey(caller[p])
         /\ pc[p] \in Resolving => key[p] \in Key
         /\ pc[p] \in Resolving \cup {"loaded", "failed"} => sid[p] \in SessionIds
    /\ \A k \in Key : Alive(k) => pointer[k].sid \in SessionIds

Typed == TypeOK /\ Known

LEMMA UserKeyType ==
    ASSUME NEW c \in Callers PROVE UserKey(c) \in Key \cup {Throwaway}
<1>1. c.ppid \in Names \cup {NoName} /\ c.ip \in Names \cup {NoName}
  BY NameAssumption
<1> QED BY <1>1 DEF UserKey, Key

LEMMA ThrowawayIsNoKey == Throwaway \notin Key
BY NameAssumption DEF Throwaway, Key

\* What HINCRBY and EXPIRE leave of the details.
LEMMA BumpedFacts ==
    ASSUME NEW d \in [kind : {"none", "full", "partial"},
                      owner : Key \cup {Throwaway}, left : 0 .. Keep]
    PROVE  /\ Bumped(d) \in [kind : {"none", "full", "partial"},
                             owner : Key \cup {Throwaway}, left : 0 .. Keep]
           /\ Bumped(d).kind = IF d.kind = "none" THEN "partial" ELSE d.kind
BY TimeAssumption DEF Bumped

LEMMA TypedInit == Init => Typed
<1> SUFFICES ASSUME Init PROVE Typed
  OBVIOUS
<1>1. TypeOK
  BY TimeAssumption DEF Init, TypeOK, Dead, NoHash
<1>2. Known
  BY DEF Init, Known, Resolving, Alive, Dead
<1> QED BY <1>1, <1>2 DEF Typed

\* What changes when a coroutine ends.
LEMMA FinishFacts ==
    ASSUME Typed, NEW p \in Tasks, NEW from, Finish(p, from)
    PROVE  /\ pc[p] = from /\ pc'[p] = "idle"
           /\ \A q \in Tasks \ {p} : /\ pc'[q] = pc[q] /\ caller'[q] = caller[q]
                                     /\ key'[q] = key[q] /\ sid'[q] = sid[q]
           /\ pc' \in [Tasks -> {"idle", "got", "armed", "found", "mint", "loaded", "failed"}]
           /\ caller' \in [Tasks -> Callers \cup {Nobody}]
           /\ key' \in [Tasks -> Key \cup {Throwaway}]
           /\ sid' \in [Tasks -> SessionIds \cup {NoSession}]
BY DEF Typed, TypeOK, Finish, Goto

\* What EXPIRE of the pointer of k leaves.
LEMMA RearmFacts ==
    ASSUME Typed, NEW k \in Key \cup {Throwaway}, Rearm(k)
    PROVE  /\ pointer' \in [Key -> [sid : SessionIds \cup {NoSession}, left : 0 .. Idle]]
           /\ since' \in [Key -> 0 .. Idle]
           /\ excuse' \in [Key -> SUBSET {"race", "lapse", "detail", "flush"}]
           /\ \A q \in Key : pointer'[q].sid = pointer[q].sid /\ (Alive(q)' <=> Alive(q))
           /\ \A q \in Key \ {k} : /\ pointer'[q] = pointer[q] /\ since'[q] = since[q]
                                   /\ excuse'[q] = excuse[q]
           /\ k \in Key => /\ since'[k] = 0 /\ excuse[k] \subseteq excuse'[k]
                           /\ IF Alive(k) THEN pointer'[k].left = Idle
                              ELSE excuse'[k] # {}
<1> USE TimeAssumption DEF Typed, TypeOK
<1>1. /\ \A q \in Key : pointer[q].sid \in SessionIds \cup {NoSession}
                         /\ pointer[q].left \in 0 .. Idle
      /\ pointer \in [Key -> [sid : SessionIds \cup {NoSession}, left : 0 .. Idle]]
  OBVIOUS
<1>2. \A q \in Key \ {k} : /\ pointer'[q] = pointer[q] /\ since'[q] = since[q]
                             /\ excuse'[q] = excuse[q]
  BY DEF Rearm
<1>3. ASSUME k \in Key
      PROVE  /\ pointer'[k] = IF Alive(k) THEN [pointer[k] EXCEPT !.left = Idle] ELSE pointer[k]
             /\ since'[k] = 0
             /\ excuse'[k] = IF Alive(k) THEN excuse[k] ELSE excuse[k] \cup {"lapse"}
  BY <1>3 DEF Rearm
<1>4. k \in Key => /\ pointer'[k] \in [sid : SessionIds \cup {NoSession}, left : 0 .. Idle]
                   /\ pointer'[k].sid = pointer[k].sid
                   /\ (Alive(k)' <=> Alive(k))
                   /\ Alive(k) => pointer'[k].left = Idle
  <2>1. CASE k \in Key /\ Alive(k)
    BY <1>1, <1>3, <2>1 DEF Alive
  <2>2. CASE k \in Key /\ ~Alive(k)
    BY <1>1, <1>3, <2>2 DEF Alive
  <2> QED BY <2>1, <2>2
<1>5. pointer' \in [Key -> [sid : SessionIds \cup {NoSession}, left : 0 .. Idle]]
  BY <1>1, <1>2, <1>4 DEF Rearm
<1>6. /\ since' \in [Key -> 0 .. Idle]
      /\ excuse' \in [Key -> SUBSET {"race", "lapse", "detail", "flush"}]
  BY DEF Rearm
<1> QED BY <1>2, <1>3, <1>4, <1>5, <1>6 DEF Alive

LEMMA TypedNext == Typed /\ [Next]_vars => Typed'
<1> SUFFICES ASSUME Typed, [Next]_vars PROVE Typed'
  OBVIOUS
<1> USE TimeAssumption
<1>1. ASSUME NEW p \in Tasks, NEW c \in Callers, Resolve(p, c) PROVE Typed'
  <2>1. UserKey(c) \in Key \cup {Throwaway} /\ (Alive(UserKey(c)) => UserKey(c) \in Key)
    BY UserKeyType DEF Alive
  <2>2. KeepStore
    BY <1>1 DEF Resolve
  <2> QED
    BY <1>1, <2>1, <2>2
       DEF Typed, TypeOK, Known, Resolving, Resolve, KeepStore, Alive
<1>2. ASSUME NEW p \in Tasks, Extend(p) PROVE Typed'
  <2>1. key[p] \in Key \cup {Throwaway}
    BY DEF Typed, TypeOK
  <2> QED
    BY <1>2, <2>1, RearmFacts DEF Typed, TypeOK, Known, Resolving, Extend, Goto
<1>3. ASSUME NEW p \in Tasks, Inspect(p) PROVE Typed'
  <2>1. pc[p] = "armed" /\ pc'[p] \in {"found", "mint", "failed"}
        /\ pc' \in [Tasks -> {"idle", "got", "armed", "found", "mint", "loaded", "failed"}]
        /\ \A q \in Tasks \ {p} : pc'[q] = pc[q]
    BY <1>3 DEF Typed, TypeOK, Inspect
  <2>2. excuse' \in [Key -> SUBSET {"race", "lapse", "detail", "flush"}]
    BY <1>3 DEF Typed, TypeOK, Inspect
  <2> QED
    BY <1>3, <2>1, <2>2 DEF Typed, TypeOK, Known, Resolving, Inspect, Alive
<1>4. ASSUME NEW p \in Tasks, Return(p) PROVE Typed'
  <2>1. sid[p] \in SessionIds /\ caller[p] \in Callers
    BY <1>4, FinishFacts DEF Return, Typed, Known, Resolving
  <2>2. hash' \in [SessionIds -> [kind : {"none", "full", "partial"},
                                  owner : Key \cup {Throwaway}, left : 0 .. Keep]]
    BY <1>4, <2>1 DEF Return, Typed, TypeOK
  <2>3. holders' \in [SessionIds -> SUBSET Callers]
    BY <1>4, <2>1 DEF Return, Give, Typed, TypeOK
  <2> QED
    BY <1>4, <2>2, <2>3, FinishFacts
       DEF Return, Typed, TypeOK, Known, Resolving, Alive
<1>5. ASSUME NEW p \in Tasks, NEW s \in SessionIds, Mint(p, s) PROVE Typed'
  <2>1. caller[p] \in Callers /\ key[p] \in Key \cup {Throwaway}
    BY <1>5, FinishFacts DEF Mint, Typed, TypeOK, Known
  <2>2. hash' \in [SessionIds -> [kind : {"none", "full", "partial"},
                                  owner : Key \cup {Throwaway}, left : 0 .. Keep]]
    BY <1>5, <2>1 DEF Mint, Typed, TypeOK
  <2>3. holders' \in [SessionIds -> SUBSET Callers]
    BY <1>5, <2>1 DEF Mint, Give, Typed, TypeOK
  <2>4. /\ pointer' \in [Key -> [sid : SessionIds \cup {NoSession}, left : 0 .. Idle]]
        /\ since' \in [Key -> 0 .. Idle]
        /\ \A k \in Key : Alive(k)' => pointer'[k].sid \in SessionIds
    BY <1>5 DEF Mint, Typed, TypeOK, Known, Alive
  <2>5. excuse' \in [Key -> SUBSET {"race", "lapse", "detail", "flush"}]
    BY <1>5 DEF Mint, Typed, TypeOK
  <2> QED
    BY <1>5, <2>2, <2>3, <2>4, <2>5, FinishFacts
       DEF Mint, Typed, TypeOK, Known, Resolving
<1>6. ASSUME NEW p \in Tasks, NEW s \in SessionIds, Load(p, s) PROVE Typed'
  BY <1>6 DEF Load, KeepStore, Typed, TypeOK, Known, Resolving, Alive
<1>7. ASSUME NEW p \in Tasks, NoAd(p) PROVE Typed'
  BY <1>7, FinishFacts DEF NoAd, KeepStore, Typed, TypeOK, Known, Resolving, Alive
<1>8. ASSUME NEW p \in Tasks, Touch(p) PROVE Typed'
  <2>1. sid[p] \in SessionIds /\ key[p] \in Key \cup {Throwaway}
    BY <1>8, FinishFacts DEF Touch, Typed, TypeOK, Known
  <2>2. hash' \in [SessionIds -> [kind : {"none", "full", "partial"},
                                  owner : Key \cup {Throwaway}, left : 0 .. Keep]]
    BY <1>8, <2>1, BumpedFacts DEF Touch, Typed, TypeOK
  <2>3. Finish(p, "loaded") /\ Rearm(key[p]) /\ UNCHANGED <<born, holders, torn>>
    BY <1>8 DEF Touch
  <2>4. TypeOK'
    BY <2>1, <2>2, <2>3, FinishFacts, RearmFacts DEF Typed, TypeOK
  <2>5. \A k \in Key : Alive(k)' => pointer'[k].sid \in SessionIds
    BY <2>1, <2>3, RearmFacts DEF Typed, Known
  <2>6. Known'
    BY <2>3, <2>5, FinishFacts DEF Typed, Known, Resolving
  <2> QED BY <2>4, <2>6 DEF Typed
<1>9. ASSUME NEW p \in Tasks, EndFailed(p) PROVE Typed'
  BY <1>9, FinishFacts DEF EndFailed, KeepStore, Typed, TypeOK, Known, Resolving, Alive
<1>10. ASSUME NEW p \in Tasks, Crash(p) PROVE Typed'
  BY <1>10, FinishFacts DEF Crash, KeepStore, Typed, TypeOK, Known, Resolving, Alive
<1>11. ASSUME Tick PROVE Typed'
  <2>1. /\ pointer' \in [Key -> [sid : SessionIds \cup {NoSession}, left : 0 .. Idle]]
        /\ \A k \in Key : Alive(k)' => Alive(k) /\ pointer'[k].sid = pointer[k].sid
    <3>1. \A k \in Key : /\ pointer[k].sid \in SessionIds \cup {NoSession}
                         /\ pointer[k].left \in 0 .. Idle
                         /\ pointer[k] \in [sid : SessionIds \cup {NoSession}, left : 0 .. Idle]
      BY DEF Typed, TypeOK
    <3>2. \A k \in Key : pointer'[k] = IF pointer[k].left <= 1 THEN Dead
                                       ELSE [pointer[k] EXCEPT !.left = pointer[k].left - 1]
      BY <1>11 DEF Tick
    <3>3. \A k \in Key :
            /\ pointer'[k] \in [sid : SessionIds \cup {NoSession}, left : 0 .. Idle]
            /\ Alive(k)' => Alive(k) /\ pointer'[k].sid = pointer[k].sid
      <4> TAKE k \in Key
      <4>1. CASE pointer[k].left <= 1
        <5>1. pointer'[k] = [sid |-> NoSession, left |-> 0]
          BY <3>2, <4>1 DEF Dead
        <5>2. 0 \in 0 .. Idle /\ ~(pointer'[k].left > 0)
          BY <5>1
        <5> QED BY <5>1, <5>2 DEF Alive
      <4>2. CASE pointer[k].left > 1
        <5>1. pointer'[k] = [pointer[k] EXCEPT !.left = pointer[k].left - 1]
          BY <3>1, <3>2, <4>2
        <5>2. pointer[k].left - 1 \in 0 .. Idle
          BY <3>1, <4>2
        <5> QED BY <3>1, <4>2, <5>1, <5>2 DEF Alive
      <4> QED BY <3>1, <4>1, <4>2
    <3> QED BY <1>11, <3>3 DEF Tick
  <2>2. hash' \in [SessionIds -> [kind : {"none", "full", "partial"},
                                  owner : Key \cup {Throwaway}, left : 0 .. Keep]]
    BY <1>11 DEF Tick, Typed, TypeOK, NoHash
  <2>3. since' \in [Key -> 0 .. Idle] /\ torn' \subseteq SessionIds
    BY <1>11 DEF Tick, Tear, Typed, TypeOK
  <2> QED
    BY <1>11, <2>1, <2>2, <2>3 DEF Tick, Typed, TypeOK, Known
<1>12. ASSUME Flush PROVE Typed'
  BY <1>12 DEF Flush, Tear, Typed, TypeOK, Known, Dead, NoHash, Alive
<1>13. ASSUME UNCHANGED vars PROVE Typed'
  BY <1>13 DEF vars, Typed, TypeOK, Known, Alive
<1> QED
  BY <1>1, <1>2, <1>3, <1>4, <1>5, <1>6, <1>7, <1>8, <1>9, <1>10, <1>11, <1>12, <1>13
     DEF Next, Step

LEMMA TypedAlways == Spec => []Typed
BY TypedInit, TypedNext, PTL DEF Spec

\* Every variable stays in its type, whatever is flushed, slow or crashes.
THEOREM TypeCorrect == Spec => []TypeOK
<1>1. Typed => TypeOK
  BY DEF Typed
<1> QED
  BY <1>1, TypedAlways, PTL

----------------------------------------------------------------------------
(* The idle window *)

\* A coroutine about to mint although a pointer lives has an excuse for it.
MintExcused == \A p \in Tasks :
    pc[p] = "mint" /\ key[p] \in Key /\ Alive(key[p]) => excuse[key[p]] # {}

Window == ExpiryIsTheRule /\ MintExcused

LEMMA WindowInit == Init => Window
BY TimeAssumption DEF Init, Window, ExpiryIsTheRule, MintExcused, Alive, Dead

\* Steps that change neither pointers nor their observers.
LEMMA WindowKept ==
    ASSUME Window, pointer' = pointer, since' = since,
           \A k \in Key : excuse[k] \subseteq excuse'[k],
           \A p \in Tasks : pc'[p] = "mint" =>
               \/ pc[p] = "mint" /\ key'[p] = key[p]
               \/ key'[p] \in Key /\ Alive(key'[p]) => excuse'[key'[p]] # {}
    PROVE  Window'
BY DEF Window, ExpiryIsTheRule, MintExcused, Alive

LEMMA WindowRearm ==
    ASSUME Typed, Window, NEW k \in Key \cup {Throwaway}, Rearm(k),
           \A p \in Tasks : pc'[p] = "mint" => pc[p] = "mint" /\ key'[p] = key[p]
    PROVE  Window'
<1>1. ExpiryIsTheRule'
  <2> SUFFICES ASSUME NEW q \in Key
               PROVE  /\ Alive(q)' => pointer'[q].left + since'[q] = Idle
                      /\ ~Alive(q)' /\ since'[q] < Idle => excuse'[q] # {}
    BY DEF ExpiryIsTheRule
  <2>1. CASE q = k
    BY <2>1, RearmFacts, TimeAssumption
  <2>2. CASE q # k
    BY <2>2, RearmFacts DEF Window, ExpiryIsTheRule, Alive
  <2> QED BY <2>1, <2>2
<1>2. MintExcused'
  <2> SUFFICES ASSUME NEW p \in Tasks, pc'[p] = "mint", key'[p] \in Key, Alive(key[p])'
               PROVE  excuse'[key'[p]] # {}
    BY DEF MintExcused
  <2>1. key'[p] = key[p] /\ key[p] \in Key /\ Alive(key[p])
    BY RearmFacts DEF Alive
  <2>2. excuse[key[p]] # {}
    BY <2>1 DEF Window, MintExcused
  <2>3. CASE key[p] = k
    BY <2>1, <2>2, <2>3, RearmFacts
  <2>4. CASE key[p] # k
    BY <2>1, <2>2, <2>4, RearmFacts
  <2> QED BY <2>3, <2>4
<1> QED BY <1>1, <1>2 DEF Window

LEMMA WindowMint ==
    ASSUME Typed, Window, NEW p \in Tasks, NEW s \in SessionIds, Mint(p, s)
    PROVE  Window'
<1> DEFINE k == key[p]
<1>1. \A q \in Key \ {k} : /\ pointer'[q] = pointer[q] /\ since'[q] = since[q]
                           /\ excuse'[q] = excuse[q]
  BY DEF Mint
<1>2. k \in Key => pointer'[k].left = Idle /\ since'[k] = 0
  BY DEF Mint
<1>3. k \in Key /\ (\E r \in Tasks \ {p} : pc[r] = "mint" /\ key[r] = k) => excuse'[k] # {}
  BY DEF Mint
<1>4. ExpiryIsTheRule'
  <2> SUFFICES ASSUME NEW q \in Key
               PROVE  /\ Alive(q)' => pointer'[q].left + since'[q] = Idle
                      /\ ~Alive(q)' /\ since'[q] < Idle => excuse'[q] # {}
    BY DEF ExpiryIsTheRule
  <2>1. CASE q = k
    BY <1>2, <2>1, TimeAssumption DEF Alive
  <2>2. CASE q # k
    BY <1>1, <2>2 DEF Window, ExpiryIsTheRule, Alive
  <2> QED BY <2>1, <2>2
<1>5. MintExcused'
  <2> SUFFICES ASSUME NEW r \in Tasks, pc'[r] = "mint", key'[r] \in Key, Alive(key[r])'
               PROVE  excuse'[key'[r]] # {}
    BY DEF MintExcused
  <2>1. r # p /\ pc[r] = "mint" /\ key'[r] = key[r]
    BY FinishFacts DEF Mint
  <2>2. CASE key[r] = k
    BY <1>3, <2>1, <2>2
  <2>3. CASE key[r] # k
    BY <1>1, <2>1, <2>3 DEF Window, MintExcused, Alive
  <2> QED BY <2>2, <2>3
<1> QED BY <1>4, <1>5 DEF Window

LEMMA WindowTick == ASSUME Typed, Window, Tick PROVE Window'
<1>1. \A k \in Key : pointer[k].left \in 0 .. Idle /\ since[k] \in 0 .. Idle
  BY DEF Typed, TypeOK
<1>2. \A k \in Key : /\ pointer[k].left <= 1 => pointer'[k].left = 0
                     /\ pointer[k].left > 1 => pointer'[k].left = pointer[k].left - 1
                     /\ since'[k] = IF since[k] < Idle THEN since[k] + 1 ELSE Idle
                     /\ excuse'[k] = excuse[k]
  BY <1>1 DEF Tick, Dead, Typed, TypeOK
<1>3. ExpiryIsTheRule'
  BY <1>1, <1>2, TimeAssumption DEF Window, ExpiryIsTheRule, Alive
<1>4. MintExcused'
  BY <1>1, <1>2 DEF Window, MintExcused, Alive, Tick
<1> QED BY <1>3, <1>4 DEF Window

LEMMA WindowNext == Typed /\ Window /\ [Next]_vars => Window'
<1> SUFFICES ASSUME Typed, Window, [Next]_vars PROVE Window'
  OBVIOUS
<1>1. ASSUME NEW p \in Tasks, NEW c \in Callers, Resolve(p, c) PROVE Window'
  <2>1. /\ key'[p] = UserKey(c) /\ (pc'[p] = "mint" => ~Alive(UserKey(c)))
        /\ \A q \in Tasks \ {p} : pc'[q] = pc[q] /\ key'[q] = key[q]
        /\ UNCHANGED <<pointer, since, excuse>>
    BY <1>1 DEF Resolve, KeepStore, Typed, TypeOK
  <2> QED BY <2>1, WindowKept
<1>2. ASSUME NEW p \in Tasks, Extend(p) PROVE Window'
  BY <1>2, WindowRearm DEF Extend, Goto, Typed, TypeOK
<1>3. ASSUME NEW p \in Tasks, Inspect(p) PROVE Window'
  <2>1. /\ \A q \in Tasks \ {p} : pc'[q] = pc[q]
        /\ UNCHANGED <<pointer, since, key>>
    BY <1>3 DEF Inspect, Typed, TypeOK
  <2>2. CASE excuse' = excuse /\ pc'[p] # "mint"
    BY <2>1, <2>2, WindowKept
  <2>3. CASE excuse' = [excuse EXCEPT ![key[p]] = excuse[key[p]] \cup {"detail"}]
    <3>1. \A k \in Key : excuse[k] \subseteq excuse'[k]
      BY <2>3 DEF Typed, TypeOK
    <3>2. key[p] \in Key => excuse'[key[p]] # {}
      BY <2>3 DEF Typed, TypeOK
    <3> QED BY <2>1, <3>1, <3>2, WindowKept
  <2>4. pc'[p] # "mint" \/ excuse' = [excuse EXCEPT ![key[p]] = excuse[key[p]] \cup {"detail"}]
    BY <1>3 DEF Inspect, Typed, TypeOK
  <2> QED BY <1>3, <2>2, <2>3, <2>4 DEF Inspect
<1>4. ASSUME NEW p \in Tasks, Return(p) PROVE Window'
  <2>1. /\ pc'[p] = "idle" /\ UNCHANGED <<pointer, since, excuse>>
        /\ \A q \in Tasks \ {p} : pc'[q] = pc[q] /\ key'[q] = key[q]
    BY <1>4, FinishFacts DEF Return
  <2> QED BY <2>1, WindowKept
<1>5. ASSUME NEW p \in Tasks, NEW s \in SessionIds, Load(p, s) PROVE Window'
  <2>1. /\ pc'[p] # "mint" /\ UNCHANGED <<pointer, since, excuse>>
        /\ \A q \in Tasks \ {p} : pc'[q] = pc[q] /\ key'[q] = key[q]
    BY <1>5 DEF Load, KeepStore, Typed, TypeOK
  <2> QED BY <2>1, WindowKept
<1>6. ASSUME NEW p \in Tasks, NEW from, Finish(p, from), KeepStore PROVE Window'
  <2>1. /\ pc'[p] = "idle" /\ UNCHANGED <<pointer, since, excuse>>
        /\ \A q \in Tasks \ {p} : pc'[q] = pc[q] /\ key'[q] = key[q]
    BY <1>6, FinishFacts DEF KeepStore
  <2> QED BY <2>1, WindowKept
<1>7. ASSUME NEW p \in Tasks, Touch(p) PROVE Window'
  <2>1. /\ key[p] \in Key \cup {Throwaway} /\ Rearm(key[p]) /\ pc'[p] = "idle"
        /\ \A q \in Tasks \ {p} : pc'[q] = pc[q] /\ key'[q] = key[q]
    BY <1>7, FinishFacts DEF Touch, Typed, TypeOK
  <2> QED BY <2>1, WindowRearm
<1>8. ASSUME Flush PROVE Window'
  BY <1>8 DEF Flush, Window, ExpiryIsTheRule, MintExcused, Alive, Dead, Typed, TypeOK
<1>9. ASSUME UNCHANGED vars PROVE Window'
  BY <1>9, WindowKept DEF vars
<1> QED
  BY <1>1, <1>2, <1>3, <1>4, <1>5, <1>6, <1>7, <1>8, <1>9, WindowMint, WindowTick
     DEF Next, Step, NoAd, EndFailed, Crash

LEMMA WindowAlways == Spec => []Window
BY TypedAlways, WindowInit, WindowNext, PTL DEF Spec

\* While a pointer lives, its time to live is what is left of the window since
\* the user's last activity; one that is missing inside it has a reason.
THEOREM WindowIsTheRule == Spec => []ExpiryIsTheRule
<1>1. Window => ExpiryIsTheRule
  BY DEF Window
<1> QED
  BY <1>1, WindowAlways, PTL

\* Nobody is given a new session inside the window without a recorded reason.
THEOREM MintsJustified == Spec => MintJustified
<1>1. ASSUME Typed, Window, [Next]_vars, NEW k \in Key, Mints(k), since[k] < Idle
      PROVE  excuse[k] # {}
  <2>1. ~Alive(k) => excuse[k] # {}
    BY <1>1 DEF Window, ExpiryIsTheRule
  <2>2. \E p \in Tasks, s \in SessionIds : Mint(p, s) /\ key[p] = k
    <3>1. ASSUME NEW j \in Key \cup {Throwaway}, Rearm(j) PROVE FALSE
      BY <1>1, <3>1, RearmFacts DEF Mints
    <3>2. pointer' = pointer => FALSE
      BY <1>1 DEF Mints
    <3>3. ~Tick
      BY <1>1 DEF Mints, Tick, Dead, Typed, TypeOK
    <3>4. ~Flush
      BY <1>1 DEF Mints, Flush, Dead
    <3>5. \A p \in Tasks : key[p] \in Key \cup {Throwaway}
      BY <1>1 DEF Typed, TypeOK
    <3>6. \E p \in Tasks, s \in SessionIds : Mint(p, s)
      BY <1>1, <3>1, <3>2, <3>3, <3>4, <3>5
         DEF Next, Step, vars, Resolve, Extend, Inspect, Return, Load, NoAd, Touch, EndFailed,
             Crash, KeepStore
    <3> QED BY <1>1, <3>6 DEF Mint, Mints
  <2> QED
    BY <1>1, <2>1, <2>2 DEF Window, MintExcused, Mint, Finish, Goto
<1>2. Typed /\ Window /\ [Next]_vars =>
        [\A k \in Key : Mints(k) /\ since[k] < Idle => excuse[k] # {}]_vars
  BY <1>1
<1> QED
  BY <1>2, TypedAlways, WindowAlways, PTL DEF Spec, MintJustified

----------------------------------------------------------------------------
(* Who is given a session *)

LEMMA SameKeySameUser ==
    ASSUME NEW c \in Callers, NEW d \in Callers,
           UserKey(c) = UserKey(d), UserKey(c) \in Key
    PROVE  SameUser(c, d)
<1>1. "ppid" # "ip" /\ Throwaway \notin Key
  BY ThrowawayIsNoKey
<1> QED
  BY <1>1 DEF UserKey, SameUser

\* The user key of everyone who was given s is k.
HeldUnder(s, k) == \A c \in holders[s] : UserKey(c) = k

\* A session is given once at its birth, and later only under the key whose
\* pointer names it.
Sharing ==
    /\ \A s \in SessionIds : s \in born <=> holders[s] # {}
    /\ \A s \in SessionIds : \A c, d \in holders[s] :
         c = d \/ (UserKey(c) = UserKey(d) /\ UserKey(c) \in Key)
    /\ \A k \in Key : pointer[k].sid \in SessionIds =>
         pointer[k].sid \in born /\ HeldUnder(pointer[k].sid, k)
    /\ \A p \in Tasks : pc[p] \in Resolving =>
         sid[p] \in born /\ HeldUnder(sid[p], key[p])

LEMMA SharingInit == Init => Sharing
BY NameAssumption DEF Init, Sharing, Dead, Resolving

\* Steps that give no session to anyone.
LEMMA SharingKept ==
    ASSUME Sharing, UNCHANGED <<born, holders>>,
           \A k \in Key : pointer'[k].sid \in {pointer[k].sid, NoSession},
           \A p \in Tasks : pc'[p] \in Resolving =>
               \/ pc[p] \in Resolving /\ key'[p] = key[p] /\ sid'[p] = sid[p]
               \/ sid'[p] \in born /\ HeldUnder(sid'[p], key'[p])
    PROVE  Sharing'
BY NameAssumption DEF Sharing, HeldUnder

LEMMA SharingReturn ==
    ASSUME Typed, Sharing, NEW p \in Tasks, Return(p) PROVE Sharing'
<1> DEFINE s == sid[p]
           k == key[p]
<1>1. /\ s \in SessionIds /\ s \in born /\ k \in Key
      /\ UserKey(caller[p]) = k /\ HeldUnder(s, k)
  BY FinishFacts DEF Return, Typed, Known, Sharing, Resolving
<1>2. /\ \A t \in SessionIds \ {s} : holders'[t] = holders[t]
      /\ holders'[s] = holders[s] \cup {caller[p]}
      /\ UNCHANGED <<pointer, born>>
  BY <1>1 DEF Return, Give, Typed, TypeOK
<1>3. \A q \in Tasks : pc'[q] \in Resolving =>
        pc[q] \in Resolving /\ key'[q] = key[q] /\ sid'[q] = sid[q]
  BY FinishFacts DEF Return, Resolving
<1>4. \A j \in Key \cup {Throwaway} : HeldUnder(s, j) => j = k
  BY <1>1 DEF Sharing, HeldUnder
<1>5. \A t \in SessionIds, j \in Key \cup {Throwaway} :
        HeldUnder(t, j) => HeldUnder(t, j)'
  BY <1>1, <1>2, <1>4 DEF HeldUnder
<1>6. \A t \in SessionIds : t \in born' <=> holders'[t] # {}
  BY <1>1, <1>2 DEF Sharing
<1>7. \A t \in SessionIds : \A c, d \in holders'[t] :
        c = d \/ (UserKey(c) = UserKey(d) /\ UserKey(c) \in Key)
  BY <1>1, <1>2 DEF Sharing, HeldUnder
<1>8. \A j \in Key : pointer'[j].sid \in SessionIds =>
        pointer'[j].sid \in born' /\ HeldUnder(pointer[j].sid, j)'
  BY <1>2, <1>5 DEF Sharing
<1>9. \A q \in Tasks : pc'[q] \in Resolving =>
        sid'[q] \in born' /\ HeldUnder(sid[q], key[q])'
  <2> SUFFICES ASSUME NEW q \in Tasks, pc'[q] \in Resolving
               PROVE  sid'[q] \in born' /\ HeldUnder(sid[q], key[q])'
    OBVIOUS
  <2>1. /\ pc[q] \in Resolving /\ key'[q] = key[q] /\ sid'[q] = sid[q]
        /\ sid[q] \in SessionIds /\ key[q] \in Key
    BY <1>3 DEF Typed, Known
  <2>2. sid[q] \in born /\ HeldUnder(sid[q], key[q])
    BY <2>1 DEF Sharing
  <2> QED BY <1>2, <1>5, <2>1, <2>2 DEF HeldUnder
<1> QED BY <1>6, <1>7, <1>8, <1>9 DEF Sharing

LEMMA SharingMint ==
    ASSUME Typed, Sharing, NEW p \in Tasks, NEW s \in SessionIds, Mint(p, s)
    PROVE  Sharing'
<1>1. /\ s \notin born /\ holders[s] = {} /\ born' = born \cup {s}
      /\ UserKey(caller[p]) = key[p] /\ caller[p] \in Callers
  BY FinishFacts DEF Mint, Sharing, Typed, Known
<1>2. /\ \A t \in SessionIds \ {s} : holders'[t] = holders[t]
      /\ holders'[s] = {caller[p]}
  BY <1>1 DEF Mint, Give, Typed, TypeOK
<1>3. \A q \in Tasks : pc'[q] \in Resolving =>
        pc[q] \in Resolving /\ key'[q] = key[q] /\ sid'[q] = sid[q]
  BY FinishFacts DEF Mint, Resolving
<1>4. \A k \in Key : IF k = key[p] THEN pointer'[k].sid = s
                     ELSE pointer'[k] = pointer[k]
  BY DEF Mint
<1>5. \A t \in SessionIds : t \in born' <=> holders'[t] # {}
  BY <1>1, <1>2 DEF Sharing
<1>6. \A t \in SessionIds : \A c, d \in holders'[t] :
        c = d \/ (UserKey(c) = UserKey(d) /\ UserKey(c) \in Key)
  <2> TAKE t \in SessionIds
  <2> TAKE c, d \in holders'[t]
  <2>1. CASE t = s
    BY <1>2, <2>1
  <2>2. CASE t # s
    <3>1. c \in holders[t] /\ d \in holders[t]
      BY <1>2, <2>2
    <3> QED BY <3>1 DEF Sharing
  <2> QED BY <2>1, <2>2
<1>7. \A k \in Key : pointer'[k].sid \in SessionIds =>
        pointer'[k].sid \in born' /\ HeldUnder(pointer[k].sid, k)'
  BY <1>1, <1>2, <1>4 DEF Sharing, HeldUnder
<1>8. \A q \in Tasks : pc'[q] \in Resolving =>
        sid'[q] \in born' /\ HeldUnder(sid[q], key[q])'
  <2> SUFFICES ASSUME NEW q \in Tasks, pc'[q] \in Resolving
               PROVE  sid'[q] \in born' /\ HeldUnder(sid[q], key[q])'
    OBVIOUS
  <2>1. /\ pc[q] \in Resolving /\ key'[q] = key[q] /\ sid'[q] = sid[q]
        /\ sid[q] \in SessionIds
    BY <1>3 DEF Typed, Known
  <2>2. sid[q] \in born /\ HeldUnder(sid[q], key[q])
    BY <2>1 DEF Sharing
  <2> QED BY <1>1, <1>2, <2>1, <2>2 DEF HeldUnder
<1> QED BY <1>5, <1>6, <1>7, <1>8 DEF Sharing

LEMMA SharingNext == Typed /\ Sharing /\ [Next]_vars => Sharing'
<1> SUFFICES ASSUME Typed, Sharing, [Next]_vars PROVE Sharing'
  OBVIOUS
<1>1. ASSUME NEW p \in Tasks, NEW c \in Callers, Resolve(p, c) PROVE Sharing'
  <2>1. /\ \A q \in Tasks \ {p} : /\ pc'[q] = pc[q] /\ key'[q] = key[q]
                                  /\ sid'[q] = sid[q]
        /\ UNCHANGED <<born, holders, pointer>>
    BY <1>1 DEF Resolve, KeepStore, Typed, TypeOK
  <2>2. CASE Alive(UserKey(c))
    <3>1. key'[p] = UserKey(c) /\ sid'[p] = pointer[UserKey(c)].sid
      BY <1>1, <2>2 DEF Resolve, Typed, TypeOK
    <3>2. UserKey(c) \in Key /\ pointer[UserKey(c)].sid \in SessionIds
      BY <2>2 DEF Alive, Typed, Known
    <3> QED BY <2>1, <3>1, <3>2, SharingKept DEF Sharing
  <2>3. CASE ~Alive(UserKey(c))
    <3>1. pc'[p] = "mint"
      BY <1>1, <2>3 DEF Resolve, Typed, TypeOK
    <3> QED BY <2>1, <3>1, SharingKept DEF Resolving
  <2> QED BY <2>2, <2>3
<1>2. ASSUME NEW p \in Tasks, Extend(p) PROVE Sharing'
  <2>1. key[p] \in Key \cup {Throwaway} /\ Rearm(key[p])
    BY <1>2 DEF Extend, Typed, TypeOK
  <2>2. \A k \in Key : pointer'[k].sid = pointer[k].sid
    BY <2>1, RearmFacts
  <2>3. /\ \A q \in Tasks : pc'[q] \in Resolving => pc[q] \in Resolving
        /\ UNCHANGED <<born, holders, key, sid>>
    BY <1>2 DEF Extend, Goto, Resolving, Typed, TypeOK
  <2> QED BY <2>2, <2>3, SharingKept
<1>3. ASSUME NEW p \in Tasks, Inspect(p) PROVE Sharing'
  <2>1. /\ \A q \in Tasks : pc'[q] \in Resolving => pc[q] \in Resolving
        /\ UNCHANGED <<born, holders, key, sid, pointer>>
    BY <1>3 DEF Inspect, Resolving, Typed, TypeOK
  <2> QED BY <2>1, SharingKept
<1>4. ASSUME NEW p \in Tasks, NEW s \in SessionIds, Load(p, s) PROVE Sharing'
  <2>1. /\ pc'[p] \notin Resolving
        /\ \A q \in Tasks \ {p} : /\ pc'[q] = pc[q] /\ key'[q] = key[q]
                                  /\ sid'[q] = sid[q]
        /\ UNCHANGED <<born, holders, pointer>>
    BY <1>4 DEF Load, KeepStore, Resolving, Typed, TypeOK
  <2> QED BY <2>1, SharingKept
<1>5. ASSUME NEW p \in Tasks, NEW from, Finish(p, from), UNCHANGED <<born, holders>>,
             \A k \in Key : pointer'[k].sid = pointer[k].sid
      PROVE  Sharing'
  <2>1. /\ pc'[p] \notin Resolving
        /\ \A q \in Tasks \ {p} : /\ pc'[q] = pc[q] /\ key'[q] = key[q]
                                  /\ sid'[q] = sid[q]
    BY <1>5, FinishFacts DEF Resolving
  <2> QED BY <1>5, <2>1, SharingKept
<1>6. ASSUME NEW p \in Tasks, Touch(p) PROVE Sharing'
  <2>1. key[p] \in Key \cup {Throwaway} /\ Rearm(key[p])
    BY <1>6 DEF Touch, Typed, TypeOK
  <2>2. \A k \in Key : pointer'[k].sid = pointer[k].sid
    BY <2>1, RearmFacts
  <2> QED BY <1>5, <1>6, <2>2 DEF Touch
<1>7. ASSUME Tick PROVE Sharing'
  <2>1. \A k \in Key : pointer'[k].sid \in {pointer[k].sid, NoSession}
    BY <1>7 DEF Tick, Dead, Typed, TypeOK
  <2> QED BY <1>7, <2>1, SharingKept DEF Tick
<1>8. ASSUME Flush PROVE Sharing'
  <2>1. \A k \in Key : pointer'[k].sid = NoSession
    BY <1>8 DEF Flush, Dead
  <2> QED BY <1>8, <2>1, SharingKept DEF Flush
<1>9. ASSUME UNCHANGED vars PROVE Sharing'
  BY <1>9, SharingKept DEF vars
<1> QED
  BY <1>1, <1>2, <1>3, <1>4, <1>5, <1>6, <1>7, <1>8, <1>9, SharingReturn, SharingMint
     DEF Next, Step, NoAd, EndFailed, Crash, KeepStore

LEMMA SharingAlways == Spec => []Sharing
BY TypedAlways, SharingInit, SharingNext, PTL DEF Spec

\* No session is ever given to two different users.
THEOREM SessionsStayApart == Spec => []SessionsAreNotShared
<1>1. Typed /\ Sharing => SessionsAreNotShared
  <2> SUFFICES ASSUME Typed, Sharing PROVE SessionsAreNotShared
    OBVIOUS
  <2>1. \A s \in SessionIds : holders[s] \subseteq Callers
    BY DEF Typed, TypeOK
  <2>2. ASSUME NEW s \in SessionIds, NEW c \in holders[s], NEW d \in holders[s]
        PROVE  c = d \/ SameUser(c, d)
    BY <2>1, <2>2, SameKeySameUser DEF Sharing
  <2>3. ASSUME NEW p \in Tasks, pc[p] = "found", NEW d \in holders[sid[p]]
        PROVE  SameUser(caller[p], d)
    <3>1. /\ caller[p] \in Callers /\ key[p] = UserKey(caller[p]) /\ key[p] \in Key
          /\ sid[p] \in SessionIds /\ UserKey(d) = key[p]
      BY <2>3 DEF Typed, Known, Sharing, HeldUnder, Resolving
    <3> QED BY <2>1, <2>3, <3>1, SameKeySameUser
  <2> QED BY <2>2, <2>3 DEF SessionsAreNotShared
<1> QED
  BY <1>1, TypedAlways, SharingAlways, PTL

----------------------------------------------------------------------------
(* What a server error takes *)

\* Half the details are there only where a serve outlived the rest.
Tattered ==
    /\ \A s \in SessionIds : hash[s].kind = "partial" => s \in torn
    /\ \A p \in Tasks : pc[p] = "loaded" /\ hash[sid[p]].kind = "none" => sid[p] \in torn
    /\ ServerErrorsExplained

LEMMA TatteredInit == Init => Tattered
BY DEF Init, Tattered, ServerErrorsExplained, NoHash

\* Steps after which no more is missing, and nobody serves or fails anew.
LEMMA TatteredKept ==
    ASSUME Typed, Tattered, torn \subseteq torn',
           \A s \in SessionIds :
               /\ hash'[s].kind = "partial" => hash[s].kind = "partial" \/ s \in torn'
               /\ hash'[s].kind = "none" =>
                    \/ hash[s].kind = "none"
                    \/ \A p \in Tasks : pc[p] = "loaded" /\ sid[p] = s => s \in torn',
           \A p \in Tasks : pc'[p] \in {"loaded", "failed"} =>
               \/ pc'[p] = pc[p] /\ sid'[p] = sid[p]
               \/ pc'[p] = "loaded" /\ hash'[sid'[p]].kind # "none"
               \/ pc'[p] = "failed" /\ sid'[p] \in torn'
    PROVE  Tattered'
<1>1. \A s \in SessionIds : hash'[s].kind = "partial" => s \in torn'
  BY DEF Tattered
<1>2. ASSUME NEW p \in Tasks, pc'[p] = "loaded", hash'[sid'[p]].kind = "none"
      PROVE  sid'[p] \in torn'
  <2>1. pc[p] = "loaded" /\ sid'[p] = sid[p] /\ sid[p] \in SessionIds
    BY <1>2 DEF Typed, Known
  <2> QED BY <1>2, <2>1 DEF Tattered
<1>3. ASSUME NEW p \in Tasks, pc'[p] = "failed" PROVE sid'[p] \in torn'
  BY <1>3 DEF Tattered, ServerErrorsExplained
<1> QED BY <1>1, <1>2, <1>3 DEF Tattered, ServerErrorsExplained

\* Time and a flush tear what a serve still holds.
LEMMA TatteredTear ==
    ASSUME Typed, Tattered, UNCHANGED <<pc, sid>>, Tear,
           \A s \in SessionIds : hash'[s] = NoHash \/ hash'[s].kind = hash[s].kind
    PROVE  Tattered'
<1>1. torn \subseteq torn'
  BY DEF Tear
<1>2. ASSUME NEW s \in SessionIds, hash'[s].kind = "none", hash[s].kind # "none",
             NEW p \in Tasks, pc[p] = "loaded", sid[p] = s
      PROVE  s \in torn'
  <2>1. hash'[s] = NoHash /\ hash[s] # NoHash
    BY <1>2 DEF NoHash
  <2> QED BY <1>2, <2>1 DEF Tear
<1>3. \A s \in SessionIds : hash'[s].kind = "partial" => hash[s].kind = "partial"
  BY DEF NoHash
<1> QED BY <1>1, <1>2, <1>3, TatteredKept

LEMMA TatteredNext == Typed /\ Tattered /\ [Next]_vars => Tattered'
<1> SUFFICES ASSUME Typed, Tattered, [Next]_vars PROVE Tattered'
  OBVIOUS
<1>1. ASSUME NEW p \in Tasks, NEW c \in Callers, Resolve(p, c) PROVE Tattered'
  <2>1. /\ pc'[p] \notin {"loaded", "failed"} /\ UNCHANGED <<hash, torn>>
        /\ \A q \in Tasks \ {p} : pc'[q] = pc[q] /\ sid'[q] = sid[q]
    BY <1>1 DEF Resolve, KeepStore, Typed, TypeOK
  <2> QED BY <2>1, TatteredKept
<1>2. ASSUME NEW p \in Tasks, Extend(p) PROVE Tattered'
  <2>1. /\ pc'[p] = "armed" /\ UNCHANGED <<hash, torn, sid>>
        /\ \A q \in Tasks \ {p} : pc'[q] = pc[q]
    BY <1>2 DEF Extend, Goto, Typed, TypeOK
  <2> QED BY <2>1, TatteredKept
<1>3. ASSUME NEW p \in Tasks, Inspect(p) PROVE Tattered'
  <2>1. sid[p] \in SessionIds /\ UNCHANGED <<hash, torn, sid>>
    BY <1>3 DEF Inspect, Typed, Known, Resolving
  <2>2. /\ \/ pc'[p] \in {"found", "mint"}
           \/ pc'[p] = "failed" /\ hash[sid[p]].kind = "partial"
        /\ \A q \in Tasks \ {p} : pc'[q] = pc[q]
    BY <1>3 DEF Inspect, Typed, TypeOK
  <2>3. pc'[p] = "failed" => sid[p] \in torn
    BY <2>1, <2>2 DEF Tattered
  <2> QED BY <2>1, <2>2, <2>3, TatteredKept
<1>4. ASSUME NEW p \in Tasks, Return(p) PROVE Tattered'
  <2>1. /\ pc'[p] = "idle" /\ UNCHANGED torn
        /\ \A q \in Tasks \ {p} : pc'[q] = pc[q] /\ sid'[q] = sid[q]
    BY <1>4, FinishFacts DEF Return
  <2>2. \A s \in SessionIds : hash'[s].kind = hash[s].kind
    BY <1>4 DEF Return, Typed, TypeOK
  <2> QED BY <2>1, <2>2, TatteredKept
<1>5. ASSUME NEW p \in Tasks, NEW s \in SessionIds, Mint(p, s) PROVE Tattered'
  <2>1. /\ pc'[p] = "idle" /\ UNCHANGED torn
        /\ \A q \in Tasks \ {p} : pc'[q] = pc[q] /\ sid'[q] = sid[q]
    BY <1>5, FinishFacts DEF Mint
  <2>2. \A t \in SessionIds : hash'[t].kind \in {hash[t].kind, "full"}
    BY <1>5 DEF Mint, Typed, TypeOK
  <2> QED BY <2>1, <2>2, TatteredKept
<1>6. ASSUME NEW p \in Tasks, NEW s \in SessionIds, Load(p, s) PROVE Tattered'
  <2>1. /\ \/ pc'[p] = "loaded" /\ hash[s].kind = "full"
           \/ pc'[p] = "failed" /\ hash[s].kind = "partial"
        /\ sid'[p] = s /\ UNCHANGED <<hash, torn>>
        /\ \A q \in Tasks \ {p} : pc'[q] = pc[q] /\ sid'[q] = sid[q]
    BY <1>6 DEF Load, KeepStore, Typed, TypeOK
  <2>2. pc'[p] = "failed" => s \in torn
    BY <2>1 DEF Tattered
  <2> QED BY <2>1, <2>2, TatteredKept
<1>7. ASSUME NEW p \in Tasks, NEW from, Finish(p, from), KeepStore PROVE Tattered'
  <2>1. /\ pc'[p] = "idle" /\ UNCHANGED <<hash, torn>>
        /\ \A q \in Tasks \ {p} : pc'[q] = pc[q] /\ sid'[q] = sid[q]
    BY <1>7, FinishFacts DEF KeepStore
  <2> QED BY <2>1, TatteredKept
<1>8. ASSUME NEW p \in Tasks, Touch(p) PROVE Tattered'
  <2>1. /\ pc[p] = "loaded" /\ pc'[p] = "idle" /\ UNCHANGED torn
        /\ \A q \in Tasks \ {p} : pc'[q] = pc[q] /\ sid'[q] = sid[q]
    BY <1>8, FinishFacts DEF Touch
  <2>2. /\ sid[p] \in SessionIds
        /\ hash'[sid[p]] = Bumped(hash[sid[p]])
        /\ \A s \in SessionIds \ {sid[p]} : hash'[s] = hash[s]
    BY <1>8, <2>1 DEF Touch, Typed, TypeOK, Known
  <2>3. hash'[sid[p]].kind = IF hash[sid[p]].kind = "none" THEN "partial"
                             ELSE hash[sid[p]].kind
    BY <2>2, BumpedFacts DEF Typed, TypeOK
  <2>4. hash[sid[p]].kind = "none" => sid[p] \in torn
    BY <2>1 DEF Tattered
  <2> QED BY <2>1, <2>2, <2>3, <2>4, TatteredKept
<1>9. ASSUME Tick PROVE Tattered'
  <2>1. \A s \in SessionIds : hash'[s] = NoHash \/ hash'[s].kind = hash[s].kind
    BY <1>9 DEF Tick, Typed, TypeOK
  <2> QED BY <1>9, <2>1, TatteredTear DEF Tick
<1>10. ASSUME Flush PROVE Tattered'
  BY <1>10, TatteredTear DEF Flush
<1>11. ASSUME UNCHANGED vars PROVE Tattered'
  BY <1>11, TatteredKept DEF vars
<1> QED
  BY <1>1, <1>2, <1>3, <1>4, <1>5, <1>6, <1>7, <1>8, <1>9, <1>10, <1>11
     DEF Next, Step, NoAd, EndFailed, Crash

\* A server error needs a session that went while a serve of it was under way.
THEOREM ErrorsExplained == Spec => []ServerErrorsExplained
<1>1. Tattered => ServerErrorsExplained
  BY DEF Tattered
<1> QED
  BY <1>1, TypedAlways, TatteredInit, TatteredNext, PTL DEF Spec
=============================================================================
