------------------------------ MODULE DnsProofs ------------------------------
(* Theorems about names and DNS: the resolver with its coalesced queries,  *)
(* the local DNS proxy, and the lookup of a domain.                        *)
EXTENDS NetResolve, LocalProxy, DomainLookup, FiniteSetTheorems, TLAPS

-----------------------------------------------------------------------------
(* Proofs about NetResolve: type correctness, coalescing of queries, what  *)
(* waiting calls wait for, and the limit of the cache, for any number of   *)
(* calls, keys and query threads and any life times.                       *)

(* The inductive invariant. Why OneQueryPerKey holds: every query under    *)
(* way is the one its key is marked with.                                  *)
EveryQueryIsListed == \A q \in Queries : status[q] = "asking" => inflight[about[q]] = q

NetInv == NetTypeOK /\ WaitsAreForAnswers /\ EveryQueryIsListed

-----------------------------------------------------------------------------
LEMMA InitNet == NetInit => NetInv
  BY ResolveAssumption
     DEF NetInit, NetInv, NetTypeOK, WaitsAreForAnswers, EveryQueryIsListed, NoEntry, MaxAge, Outcomes

(* Remembering an answer keeps the cache a cache. *)
LEMMA RememberType ==
  ASSUME NetTypeOK, NEW k \in Keys, NEW outcome \in Outcomes, Remember(k, outcome)
  PROVE  cache' \in [Keys -> [answer : Outcomes \cup {"none"}, age : 0..MaxAge]]
  BY ResolveAssumption DEF NetTypeOK, Remember, NoEntry, MaxAge

(* A call that leaves takes nothing from the calls that stay. *)
LEMMA ReturnInv ==
  ASSUME NetInv, NEW c \in Calls, netPc[c] \in {"wait", "asleep"}, Return(c)
  PROVE  NetInv'
<1>1. query[c] \in Queries
  BY DEF NetInv, NetTypeOK
<1>2. NetTypeOK'
  <2>1. CASE status[query[c]] = "finished" /\ Waiters(query[c]) = {c}
    <3>1. /\ netPc' = [netPc EXCEPT ![c] = "idle"] /\ key' = [key EXCEPT ![c] = NoKey]
          /\ query' = [query EXCEPT ![c] = NoQuery]
          /\ UNCHANGED <<inflight, cache>>
      BY DEF Return, NetGoto
    <3>2. /\ status' = [status EXCEPT ![query[c]] = "none"]
          /\ about' = [about EXCEPT ![query[c]] = NoKey]
      BY <2>1 DEF Return, Dispose
    <3> QED BY <1>1, <3>1, <3>2, ResolveAssumption DEF NetInv, NetTypeOK
  <2>2. CASE ~(status[query[c]] = "finished" /\ Waiters(query[c]) = {c})
    BY <2>2, ResolveAssumption DEF NetInv, NetTypeOK, Return, NetGoto, queryVars
  <2> QED BY <2>1, <2>2
<1>3. EveryQueryIsListed'
  BY <1>1 DEF NetInv, NetTypeOK, EveryQueryIsListed, Return, Dispose, NetGoto, queryVars
<1>4. WaitsAreForAnswers'
  <2>1. ASSUME NEW d \in Calls, query'[d] # NoQuery
        PROVE  about'[query'[d]] = key'[d]
    <3>1. d # c /\ query'[d] = query[d] /\ key'[d] = key[d]
      BY <2>1 DEF NetInv, NetTypeOK, Return, NetGoto
    <3>2. about[query[d]] = key[d]
      BY <2>1, <3>1 DEF NetInv, WaitsAreForAnswers
    <3>3. about'[query[d]] = about[query[d]]
      BY <1>1, <2>1, <3>1 DEF NetInv, NetTypeOK, Return, Dispose, Waiters, queryVars
    <3> QED BY <3>1, <3>2, <3>3
  <2>2. ASSUME NEW k \in Keys, inflight'[k] # NoQuery
        PROVE  status'[inflight'[k]] = "asking" /\ about'[inflight'[k]] = k
    <3>1. inflight' = inflight
      BY DEF Return
    <3>2. status[inflight[k]] = "asking" /\ about[inflight[k]] = k /\ inflight[k] \in Queries
      BY <2>2, <3>1 DEF NetInv, NetTypeOK, WaitsAreForAnswers
    <3> QED BY <1>1, <3>1, <3>2 DEF NetInv, NetTypeOK, Return, Dispose, queryVars
  <2> QED BY <2>1, <2>2 DEF WaitsAreForAnswers
<1> QED BY <1>2, <1>3, <1>4 DEF NetInv

LEMMA NextInv == NetInv /\ [NetNext]_netVars => NetInv'
<1> SUFFICES ASSUME NetInv, [NetNext]_netVars PROVE NetInv'
  OBVIOUS
<1> USE ResolveAssumption
<1>1. CASE UNCHANGED netVars
  BY <1>1 DEF netVars, callVars, queryVars, NetInv, NetTypeOK, WaitsAreForAnswers, EveryQueryIsListed
<1>2. ASSUME NEW c \in Calls, NEW k \in Keys, Call(c, k) PROVE NetInv'
  BY <1>2 DEF Call, NetGoto, queryVars, NetInv, NetTypeOK, WaitsAreForAnswers, EveryQueryIsListed
<1>3. ASSUME NEW c \in Calls, Cached(c) PROVE NetInv'
  <2>1. query[c] = NoQuery /\ key[c] \in Keys
    BY <1>3 DEF Cached, NetInv, NetTypeOK
  <2>2. UNCHANGED <<query, status, about, inflight>>
    BY <1>3 DEF Cached, queryVars
  <2>3. CASE netPc' = [netPc EXCEPT ![c] = "idle"] /\ key' = [key EXCEPT ![c] = NoKey] /\ UNCHANGED cache
    <3>1. NetTypeOK'
      BY <2>1, <2>2, <2>3 DEF NetInv, NetTypeOK
    <3>2. WaitsAreForAnswers'
      BY <2>1, <2>2, <2>3 DEF NetInv, NetTypeOK, WaitsAreForAnswers
    <3> QED BY <2>2, <3>1, <3>2 DEF NetInv, EveryQueryIsListed
  <2>4. CASE /\ netPc' = [netPc EXCEPT ![c] = "join"]
             /\ cache' = [cache EXCEPT ![key[c]] = NoEntry]
             /\ UNCHANGED key
    <3>1. cache' \in [Keys -> [answer : Outcomes \cup {"none"}, age : 0..MaxAge]]
      BY <2>1, <2>4 DEF NoEntry, MaxAge, NetInv, NetTypeOK
    <3>2. NetTypeOK'
      BY <1>3, <2>1, <2>2, <2>4, <3>1 DEF Cached, NetInv, NetTypeOK
    <3> QED BY <2>2, <2>4, <3>2 DEF NetInv, WaitsAreForAnswers, EveryQueryIsListed
  <2> QED BY <1>3, <2>3, <2>4 DEF Cached, NetGoto
<1>4. ASSUME NEW c \in Calls, Join(c) PROVE NetInv'
  <2>1. key[c] \in Keys /\ inflight[key[c]] \in Queries
    BY <1>4 DEF Join, NetInv, NetTypeOK
  <2>2. /\ query' = [query EXCEPT ![c] = inflight[key[c]]]
        /\ netPc' = [netPc EXCEPT ![c] = "wait"]
        /\ UNCHANGED <<key, status, about, inflight, cache>>
    BY <1>4 DEF Join, WaitFor, NetGoto, queryVars
  <2>3. NetTypeOK'
    BY <1>4, <2>1, <2>2 DEF Join, NetInv, NetTypeOK
  <2>4. WaitsAreForAnswers'
    BY <2>1, <2>2 DEF NetInv, NetTypeOK, WaitsAreForAnswers
  <2>5. EveryQueryIsListed'
    BY <2>2 DEF NetInv, EveryQueryIsListed
  <2> QED BY <2>3, <2>4, <2>5 DEF NetInv
<1>5. ASSUME NEW c \in Calls, BeginQuery(c) PROVE NetInv'
  <2>1. PICK q \in Queries :
            /\ status[q] = "none"
            /\ status' = [status EXCEPT ![q] = "asking"]
            /\ about' = [about EXCEPT ![q] = key[c]]
            /\ inflight' = [inflight EXCEPT ![key[c]] = q]
            /\ WaitFor(c, q)
    BY <1>5 DEF BeginQuery
  <2>2. key[c] \in Keys /\ inflight[key[c]] = NoQuery
    BY <1>5 DEF BeginQuery, NetInv, NetTypeOK
  <2>3. NetTypeOK'
    BY <1>5, <2>1, <2>2 DEF BeginQuery, WaitFor, NetGoto, NetInv, NetTypeOK
  <2>4. EveryQueryIsListed'
    BY <2>1, <2>2 DEF NetInv, NetTypeOK, EveryQueryIsListed
  <2>5. WaitsAreForAnswers'
    <3>1. \A d \in Calls : query[d] # q
      BY <2>1 DEF NetInv, NetTypeOK, WaitsAreForAnswers
    <3>2. \A k \in Keys : inflight[k] # q
      BY <2>1 DEF NetInv, NetTypeOK, WaitsAreForAnswers
    <3> QED BY <2>1, <2>2, <3>1, <3>2 DEF WaitFor, NetGoto, NetInv, NetTypeOK, WaitsAreForAnswers
  <2> QED BY <2>3, <2>4, <2>5 DEF NetInv
<1>6. ASSUME NEW c \in Calls, Wait(c) PROVE NetInv'
  <2>1. CASE Return(c)
    BY <1>6, <2>1, ReturnInv DEF Wait
  <2>2. CASE NetGoto(c, "asleep") /\ UNCHANGED <<key, query, queryVars, inflight, cache>>
    BY <1>6, <2>2 DEF Wait, NetGoto, queryVars, NetInv, NetTypeOK, WaitsAreForAnswers, EveryQueryIsListed
  <2> QED BY <1>6, <2>1, <2>2 DEF Wait
<1>7. ASSUME NEW c \in Calls, TimeOut(c) PROVE NetInv'
  BY <1>7, ReturnInv DEF TimeOut
<1>8. ASSUME NEW q \in Queries, Store(q) PROVE NetInv'
  <2>1. about[q] \in Keys
    BY <1>8 DEF Store, NetInv, NetTypeOK
  <2>2. cache' \in [Keys -> [answer : Outcomes \cup {"none"}, age : 0..MaxAge]]
    BY <1>8, <2>1, RememberType DEF Store, NetInv
  <2>3. NetTypeOK'
    BY <1>8, <2>1, <2>2 DEF Store, callVars, NetInv, NetTypeOK
  <2>4. inflight[about[q]] = q
    BY <1>8 DEF Store, NetInv, EveryQueryIsListed
  <2> QED
    BY <1>8, <2>1, <2>3, <2>4
       DEF Store, callVars, NetInv, NetTypeOK, WaitsAreForAnswers, EveryQueryIsListed
<1>9. ASSUME NEW q \in Queries, HandOver(q) PROVE NetInv'
  BY <1>9 DEF HandOver, Asleep, NetInv, NetTypeOK, WaitsAreForAnswers, EveryQueryIsListed
<1>10. ASSUME NEW q \in Queries, EndQuery(q) PROVE NetInv'
  BY <1>10 DEF EndQuery, Dispose, Waiters, callVars, NetInv, NetTypeOK, WaitsAreForAnswers, EveryQueryIsListed
<1>11. CASE ClearCache
  BY <1>11 DEF ClearCache, NoEntry, MaxAge, callVars, queryVars, NetInv, NetTypeOK, WaitsAreForAnswers,
               EveryQueryIsListed
<1>12. CASE NetTick
  <2>1. cache' \in [Keys -> [answer : Outcomes \cup {"none"}, age : 0..MaxAge]]
    BY <1>12 DEF NetTick, NoEntry, MaxAge, NetInv, NetTypeOK
  <2> QED
    BY <1>12, <2>1
       DEF NetTick, callVars, queryVars, NetInv, NetTypeOK, WaitsAreForAnswers, EveryQueryIsListed
<1> QED BY <1>1, <1>2, <1>3, <1>4, <1>5, <1>6, <1>7, <1>8, <1>9, <1>10, <1>11, <1>12 DEF NetNext

LEMMA InvHolds == NetSpec => []NetInv
  BY InitNet, NextInv, PTL DEF NetSpec

-----------------------------------------------------------------------------
(* Calls, queries and the cache are well-typed, a call is bound to a query *)
(* just while it waits (resolve_addrinfo_with).                            *)
THEOREM NetTypeCorrect == NetSpec => []NetTypeOK
<1>1. NetInv => NetTypeOK
  BY DEF NetInv
<1> QED BY <1>1, InvHolds, PTL

(* Calls for one key that miss the cache together make one query of it.    *)
THEOREM QueriesAreCoalesced == NetSpec => []OneQueryPerKey
<1>1. NetInv => OneQueryPerKey
  BY DEF NetInv, NetTypeOK, EveryQueryIsListed, OneQueryPerKey
<1> QED BY <1>1, InvHolds, PTL

(* A call waits for an answer about its own key, and a key marked as under *)
(* way in INFLIGHT is.                                                     *)
THEOREM MarksAreTrue == NetSpec => []WaitsAreForAnswers
<1>1. NetInv => WaitsAreForAnswers
  BY DEF NetInv
<1> QED BY <1>1, InvHolds, PTL

-----------------------------------------------------------------------------
(* The limit of the cache: entries come in only through Remember, and a    *)
(* full cache loses one of its oldest first.                               *)

LEMMA PresentIsFinite == IsFiniteSet(Present) /\ Cardinality(Present) \in Nat
<1>1. Present \subseteq Keys
  BY DEF Present
<1> QED BY <1>1, ResolveAssumption, FS_Subset, FS_CardinalityType

LEMMA AddOne ==
  ASSUME NEW S, NEW x, IsFiniteSet(S)
  PROVE  IsFiniteSet(S \cup {x}) /\ Cardinality(S \cup {x}) <= Cardinality(S) + 1
<1>1. /\ IsFiniteSet(S \cup {x})
      /\ Cardinality(S \cup {x}) = IF x \in S THEN Cardinality(S) ELSE Cardinality(S) + 1
  BY FS_AddElement, Zenon
<1>2. Cardinality(S) \in Nat
  BY FS_CardinalityType, Zenon
<1> QED BY <1>1, <1>2

LEMMA FewerAreFine ==
  ASSUME CacheWithinLimit, Present' \subseteq Present
  PROVE  CacheWithinLimit'
<1>1. Cardinality(Present') <= Cardinality(Present) /\ Cardinality(Present') \in Nat
  BY PresentIsFinite, FS_Subset, FS_CardinalityType
<1> QED BY <1>1, PresentIsFinite, ResolveAssumption DEF CacheWithinLimit

LEMMA OneMoreIsFine ==
  ASSUME NetTypeOK, CacheWithinLimit, NEW k \in Keys, NEW outcome \in Outcomes, Remember(k, outcome)
  PROVE  CacheWithinLimit'
<1> USE ResolveAssumption
<1>1. CASE ~Crowded
  <2>1. Present' \subseteq Present \cup {k}
    BY <1>1 DEF Remember, Present, NetTypeOK
  <2>2. IsFiniteSet(Present \cup {k}) /\ Cardinality(Present \cup {k}) <= Cardinality(Present) + 1
    BY PresentIsFinite, AddOne, Zenon
  <2>3. Cardinality(Present \cup {k}) \in Nat
    BY <2>2, FS_CardinalityType
  <2>4. Cardinality(Present') <= Cardinality(Present \cup {k}) /\ Cardinality(Present') \in Nat
    BY <2>1, <2>2, FS_Subset, FS_CardinalityType
  <2>5. Cardinality(Present) < CacheLimit
    BY <1>1, PresentIsFinite DEF Crowded
  <2> QED BY <2>2, <2>3, <2>4, <2>5, PresentIsFinite DEF CacheWithinLimit
<1>2. CASE Crowded
  <2>1. PICK old \in Oldest : cache' = [[cache EXCEPT ![old] = NoEntry] EXCEPT ![k] =
                                          [answer |-> outcome, age |-> 0]]
    BY <1>2 DEF Remember
  <2>2. old \in Present
    BY DEF Oldest
  <2> DEFINE rest == Present \ {old}
  <2>3. Present' \subseteq rest \cup {k}
    BY <2>1 DEF Present, NetTypeOK, NoEntry
  <2>4. IsFiniteSet(rest) /\ Cardinality(rest) = Cardinality(Present) - 1
    BY <2>2, PresentIsFinite, FS_RemoveElement
  <2>5. Cardinality(rest) \in Nat
    BY <2>4, FS_CardinalityType
  <2>6. IsFiniteSet(rest \cup {k}) /\ Cardinality(rest \cup {k}) <= Cardinality(rest) + 1
    BY <2>4, AddOne, Zenon
  <2>7. Cardinality(rest \cup {k}) \in Nat
    BY <2>6, FS_CardinalityType
  <2>8. Cardinality(Present') <= Cardinality(rest \cup {k}) /\ Cardinality(Present') \in Nat
    BY <2>3, <2>6, FS_Subset, FS_CardinalityType
  <2> HIDE DEF rest
  <2> QED BY <2>4, <2>5, <2>6, <2>7, <2>8, PresentIsFinite DEF CacheWithinLimit
<1> QED BY <1>1, <1>2

LEMMA InitLimit == NetInit => CacheWithinLimit
<1> SUFFICES ASSUME NetInit PROVE CacheWithinLimit
  OBVIOUS
<1>1. Present = {}
  BY DEF NetInit, Present, NoEntry
<1> QED BY <1>1, FS_EmptySet, ResolveAssumption DEF CacheWithinLimit

LEMMA NextLimit == NetInv /\ CacheWithinLimit /\ [NetNext]_netVars => CacheWithinLimit'
<1> SUFFICES ASSUME NetInv, CacheWithinLimit, [NetNext]_netVars PROVE CacheWithinLimit'
  OBVIOUS
<1>1. CASE \E q \in Queries : Store(q)
  <2>1. PICK q \in Queries, outcome \in Outcomes :
           status[q] = "asking" /\ Remember(about[q], outcome)
    BY <1>1 DEF Store
  <2>2. about[q] \in Keys
    BY <2>1 DEF NetInv, NetTypeOK
  <2> QED BY <2>1, <2>2, OneMoreIsFine DEF NetInv
<1>2. CASE ~\E q \in Queries : Store(q)
  <2>1. CASE UNCHANGED cache
    BY <2>1, FewerAreFine DEF Present
  <2>2. CASE \E c \in Calls : Cached(c)
    <3>1. Present' \subseteq Present
      BY <2>2 DEF Cached, Present, NetInv, NetTypeOK, NoEntry
    <3> QED BY <3>1, FewerAreFine
  <2>3. CASE ClearCache
    <3>1. Present' \subseteq Present
      BY <2>3 DEF ClearCache, Present, NoEntry
    <3> QED BY <3>1, FewerAreFine
  <2>4. CASE NetTick
    <3>1. Present' \subseteq Present
      BY <2>4 DEF NetTick, Present, NetInv, NetTypeOK, NoEntry
    <3> QED BY <3>1, FewerAreFine
  <2> QED BY <1>2, <2>1, <2>2, <2>3, <2>4
          DEF NetNext, netVars, Call, Join, BeginQuery, WaitFor, Wait, TimeOut, Return, HandOver, EndQuery
<1> QED BY <1>1, <1>2

(* The cache of resolved names never outgrows CACHE_LIMIT (store).         *)
THEOREM CacheIsBounded == NetSpec => []CacheWithinLimit
  BY InitLimit, NextLimit, InvHolds, PTL DEF NetSpec

-----------------------------------------------------------------------------
(* Wake-ups.                                                               *)

LEMMA SleepersStep == NetInv /\ SleepersWillBeWoken /\ [NetNext]_netVars => SleepersWillBeWoken'
<1> SUFFICES ASSUME NetInv, SleepersWillBeWoken, [NetNext]_netVars,
                    NEW c \in Calls, netPc'[c] = "asleep"
             PROVE  status'[query'[c]] \in {"asking", "stored"} /\ about'[query'[c]] = key'[c]
  BY DEF SleepersWillBeWoken
<1>i. NetInv'
  BY NextInv
<1>1. query'[c] \in Queries /\ about'[query'[c]] = key'[c] /\ key'[c] # NoKey
  BY <1>i DEF NetInv, NetTypeOK, WaitsAreForAnswers
<1>2. status'[query'[c]] \in {"asking", "stored", "finished"}
  BY <1>1, <1>i DEF NetInv, NetTypeOK
<1>t. /\ netPc \in [Calls -> {"idle", "cached", "join", "wait", "asleep"}]
      /\ status \in [Queries -> {"none", "asking", "stored", "finished"}]
      /\ query \in [Calls -> Queries \cup {NoQuery}]
  BY DEF NetInv, NetTypeOK
<1> USE DEF NetGoto, callVars, queryVars
(* A query ends only by waking all who sleep for it, *)
<1>3. ASSUME NEW q \in Queries, HandOver(q) PROVE status'[query'[c]] # "finished"
  <2>1. query' = query /\ c \notin Asleep(q) /\ netPc[c] = "asleep"
    BY <1>3, <1>t DEF HandOver, Asleep
  <2>2. query[c] # q /\ status[query[c]] \in {"asking", "stored"}
    BY <2>1 DEF Asleep, SleepersWillBeWoken
  <2> QED BY <1>1, <1>3, <1>t, <2>1, <2>2 DEF HandOver
(* and nobody lies down for one that has ended. *)
<1>4. ASSUME NEW d \in Calls, Wait(d) \/ TimeOut(d) PROVE status'[query'[c]] # "finished"
  <2>1. ASSUME Return(d) PROVE status'[query'[c]] # "finished"
    <3>1. c # d /\ netPc[c] = "asleep" /\ query'[c] = query[c]
      BY <2>1, <1>t DEF Return
    <3>2. status[query[c]] \in {"asking", "stored"}
      BY <3>1 DEF SleepersWillBeWoken
    <3>3. status'[query[c]] \in {"none", status[query[c]]}
      BY <2>1, <3>1, <1>1, <1>t DEF Return, Dispose
    <3> QED BY <3>1, <3>2, <3>3
  <2>2. CASE status[query[d]] # "finished" /\ netPc' = [netPc EXCEPT ![d] = "asleep"]
             /\ UNCHANGED <<query, status>>
    BY <2>2, <1>t DEF SleepersWillBeWoken
  <2> QED BY <1>4, <2>1, <2>2 DEF Wait, TimeOut
<1>5. ASSUME netPc[c] = "asleep", query'[c] = query[c],
             \A q \in Queries : status'[q] = "finished" => status[q] = "finished"
      PROVE  status'[query'[c]] # "finished"
  BY <1>1, <1>5 DEF SleepersWillBeWoken
<1>6. ASSUME NEW d \in Calls, NEW k \in Keys,
             Call(d, k) \/ Cached(d) \/ Join(d) \/ BeginQuery(d)
      PROVE  status'[query'[c]] # "finished"
  <2>1. netPc[c] = "asleep"
    BY <1>6, <1>t DEF Call, Cached, Join, BeginQuery, WaitFor
  <2>2. query'[c] = query[c]
    BY <1>6, <1>t, <2>1 DEF Call, Cached, Join, BeginQuery, WaitFor
  <2>3. \A q \in Queries : status'[q] = "finished" => status[q] = "finished"
    BY <1>6, <1>t DEF Call, Cached, Join, BeginQuery
  <2> QED BY <1>5, <2>1, <2>2, <2>3
<1>7. ASSUME NEW q \in Queries, Store(q) \/ EndQuery(q) PROVE status'[query'[c]] # "finished"
  <2>1. \A p \in Queries : status'[p] = "finished" => status[p] = "finished"
    BY <1>7, <1>t DEF Store, EndQuery, Dispose
  <2>2. netPc' = netPc /\ query' = query
    BY <1>7 DEF Store, EndQuery
  <2>3. netPc[c] = "asleep" /\ query'[c] = query[c]
    BY <2>2
  <2> QED BY <1>5, <2>1, <2>3
<1>8. ASSUME ClearCache \/ NetTick \/ UNCHANGED netVars PROVE status'[query'[c]] # "finished"
  <2>1. netPc' = netPc /\ query' = query /\ status' = status
    BY <1>8 DEF ClearCache, NetTick, netVars
  <2> QED BY <1>5, <2>1
<1>9. status'[query'[c]] # "finished"
  <2>1. ASSUME NEW d \in Calls, Cached(d) \/ Join(d) \/ BeginQuery(d)
        PROVE  status'[query'[c]] # "finished"
    <3>1. netPc[d] # "idle" /\ key[d] \in Keys
      BY <2>1 DEF Cached, Join, BeginQuery, NetInv, NetTypeOK
    <3> QED BY <1>6, <2>1, <3>1
  <2> QED BY <1>3, <1>4, <1>6, <1>7, <1>8, <2>1 DEF NetNext
<1> QED BY <1>1, <1>2, <1>9

(* Wait and HandOver under the lock of a Pending: whoever sleeps has not   *)
(* missed the answer. What CallsComeBack needs besides is that the query   *)
(* ends, which is a matter of fairness.                                    *)
THEOREM NoWakeUpIsLost == NetSpec => []SleepersWillBeWoken
<1>1. NetInit => SleepersWillBeWoken
  BY DEF NetInit, SleepersWillBeWoken
<1> QED BY <1>1, SleepersStep, InvHolds, PTL DEF NetSpec

-----------------------------------------------------------------------------
(* Encrypted DNS, for any set of modes and any number of faults: adapters  *)
(* are pointed at the engine only after it has answered; without a fault   *)
(* the system settles in one of two states; and a start that fails by one  *)
(* fault brings the mode before it back. Each rests on an invariant of its *)
(* own over the places of the start and of its roll_back.                  *)

Readying == {"port", "copy", "write", "verify", "install", "launch"}
Starting == Readying \cup {"begin", "await", "apply"}
Undoing == {"undo", "undoForget", "undoInstall", "undoLaunch"}

(* Type correctness by parts, and what a start knows at each of its steps. *)
ServiceTypes ==
    /\ service \in {"none", "stopped", "running"}
    /\ ours \in BOOLEAN
    /\ loaded \in Modes \cup {None}

FileTypes ==
    /\ config \in Modes \cup {None} /\ torn \in BOOLEAN
    /\ fresh \in BOOLEAN /\ launchable \in BOOLEAN /\ shipped \in BOOLEAN

PageTypes ==
    /\ lpPc \in Labels /\ task \in {"none", "page", "repair"}
    /\ {mode, previous} \subseteq Modes \cup {None}
    /\ adapters \in BOOLEAN /\ repairDue \in BOOLEAN /\ answered \in BOOLEAN

CountTypes ==
    /\ faults \in 0..MaxFaults
    /\ before \in [service : {"none", "stopped", "running"}, config : Modes \cup {None},
                   loaded : Modes \cup {None}, faults : 0..MaxFaults]

StartPlaces ==
    /\ lpPc \in Starting => mode \in Modes /\ task # "none"
    /\ lpPc = "apply" => answered /\ task = "page"
    /\ lpPc # "idle" => ~repairDue

StartInv == LpTypeOK /\ StartPlaces

(* The states in which the program may rest. *)
Lost == torn /\ config = None
AtRest == IF adapters THEN Engaged \/ Lost ELSE service = "none"

(* Without a fault: what runs is what the file says; nothing is undone; a  *)
(* page that was refused changed nothing; a repair serves adapters.        *)
SettledInv ==
    /\ shipped /\ (fresh => launchable)
    /\ service = "running" => loaded = config
    /\ torn => config = None
    /\ adapters => config # None \/ torn
    /\ lpPc \notin Undoing
    /\ lpPc = "idle" /\ ~repairDue => AtRest
    /\ lpPc = "begin" /\ task # "repair" => AtRest
    /\ lpPc \in Starting /\ task = "repair" => adapters
    /\ lpPc \in Readying => service # "running"
    /\ lpPc \in {"write", "verify", "install", "launch", "await", "apply"} => fresh
    /\ lpPc \in {"verify", "install", "launch", "await", "apply"} => config # None
    /\ lpPc = "launch" => service = "stopped" /\ ours
    /\ lpPc \in {"await", "apply"} => service = "running" /\ ours
    /\ lpPc = "tidy" /\ adapters => Engaged \/ Lost
    /\ lpPc = "forget" => ~adapters /\ service = "none"

(* The shipped engine is there when it is to be copied, the service when it*)
(* is to be launched, and it runs when an answer is awaited, unless        *)
(* somebody meddles.                                                       *)
InOrder ==
    /\ lpPc \in {"port", "copy"} => shipped
    /\ lpPc = "launch" => service # "none"
    /\ lpPc = "await" => service = "running"

(* What a start knows of the engine: a copy is launched when it is fresh,  *)
(* and what runs while a start is undone is the engine this very start     *)
(* launched, in the new mode, which has not answered.                      *)
EngineInv ==
    /\ fresh => launchable
    /\ lpPc \in {"write", "verify", "install", "launch", "await"} => fresh
    /\ lpPc \in {"verify", "install", "launch", "await"} => config = mode
    /\ lpPc \in Readying => service # "running"
    /\ lpPc \in Readying \cup Undoing \cup {"begin", "await"} => ~answered
    /\ lpPc \in Undoing \cup {"await"} =>
          (service = "running" => loaded = mode /\ fresh)

(* One fault and a mode to go back to: that mode is kept, as `previous` or *)
(* in the file; or the service was removed before the start stopped it,    *)
(* and that was the fault.                                                 *)
RollInv ==
    /\ EngineInv
    /\ before.faults <= faults
    /\ lpPc \in Undoing => before.faults < faults
    /\ faults = before.faults => InOrder
    /\ faults = before.faults /\ lpPc = "begin" => service = before.service
    /\ before.service # "none" /\ before.config # None /\ faults <= before.faults + 1 =>
        /\ lpPc = "begin" => config = before.config
        /\ lpPc \in Readying \cup {"await"} =>
              previous = before.config \/ (faults = before.faults + 1 /\ InOrder)
        /\ lpPc = "undo" => previous = before.config
        /\ lpPc # "undoForget"
        /\ lpPc \in {"undoInstall", "undoLaunch"} => config = before.config
        /\ lpPc = "undoLaunch" => service # "none"

-----------------------------------------------------------------------------
LEMMA TypesByPart == LpTypeOK <=> ServiceTypes /\ FileTypes /\ PageTypes /\ CountTypes
  BY DEF LpTypeOK, ServiceTypes, FileTypes, PageTypes, CountTypes

LEMMA LpInitInv == LpInit => StartInv /\ SettledInv /\ RollInv
<1> SUFFICES ASSUME LpInit PROVE StartInv /\ SettledInv /\ RollInv
  OBVIOUS
<1> USE LpAssumption DEF LpInit, Readying, Starting, Undoing
<1>1. StartInv
  <2>1. ServiceTypes /\ FileTypes /\ PageTypes
    BY DEF ServiceTypes, FileTypes, PageTypes, Labels
  <2>2. CountTypes /\ StartPlaces
    BY DEF CountTypes, StartPlaces
  <2> QED BY <2>1, <2>2, TypesByPart DEF StartInv
<1>2. SettledInv
  BY DEF SettledInv, AtRest
<1>3. RollInv
  BY DEF RollInv, InOrder, EngineInv
<1> QED BY <1>1, <1>2, <1>3

(* Faults are counted one by one. *)
LEMMA FaultCount == [LpNext]_lpVars => UNCHANGED faults \/ LpFault
  BY DEF LpNext, PageStarts, Enter, Refuse, StopOwn, PortFree, CopyEngine,
       WriteConfig, CheckConfig, Examine, Install, Launch, EnsureService, Await, Undo,
       UndoInstall, UndoLaunch, Apply, ApplyOther, StopIfUnused, ForgetConfig, Repair, Crash,
       Update, Leave, CrashInWrite, CrashInCopy, Meddle, Reboot, NoFault, lpVars

(* Types and the places of a start. *)
LEMMA StartStep == StartInv /\ [LpNext]_lpVars => StartInv'
<1> SUFFICES ASSUME StartInv, [LpNext]_lpVars
             PROVE  /\ ServiceTypes' /\ FileTypes' /\ PageTypes' /\ CountTypes'
                    /\ StartPlaces'
  BY TypesByPart DEF StartInv, LpTypeOK, ServiceTypes, FileTypes, PageTypes, CountTypes
<1>0. ServiceTypes /\ FileTypes /\ PageTypes /\ CountTypes /\ StartPlaces
  BY TypesByPart DEF StartInv
<1> USE LpAssumption DEF NoFault, LpFault, LpGoto, LpEnd, lpSystem, lpFiles, lpEngines, lpStart,
        Stopped
<1>1. ASSUME NEW m \in Modes, PageStarts(m)
      PROVE  ServiceTypes' /\ FileTypes' /\ PageTypes' /\ CountTypes' /\ StartPlaces'
  BY <1>0, <1>1 DEF ServiceTypes, FileTypes, PageTypes, CountTypes, StartPlaces, Labels,
         Starting, Readying, PageStarts, Enter
<1>2. CASE Refuse
  BY <1>0, <1>2 DEF ServiceTypes, FileTypes, PageTypes, CountTypes, StartPlaces, Labels,
         Starting, Readying, Refuse
<1>3. CASE StopOwn
  BY <1>0, <1>3 DEF ServiceTypes, FileTypes, PageTypes, CountTypes, StartPlaces, Labels,
         Starting, Readying, StopOwn, Stopped
<1>4. CASE PortFree
  BY <1>0, <1>4 DEF ServiceTypes, FileTypes, PageTypes, CountTypes, StartPlaces, Labels,
         Starting, Readying, PortFree, Examine
<1>5. CASE CopyEngine
  <2>1. ServiceTypes'
    BY <1>0, <1>5 DEF ServiceTypes, FileTypes, CopyEngine
  <2>2. FileTypes'
    BY <1>0, <1>5 DEF FileTypes, PageTypes, CopyEngine
  <2>3. PageTypes'
    BY <1>0, <1>5 DEF PageTypes, Labels, FileTypes, CopyEngine
  <2>4. CountTypes'
    <3>1. UNCHANGED before /\ (UNCHANGED faults \/ LpFault)
      BY <1>5 DEF CopyEngine
    <3> QED BY <1>0, <3>1 DEF CountTypes
  <2>5. StartPlaces'
    BY <1>0, <1>5 DEF StartPlaces, PageTypes, FileTypes, Starting, Readying, CopyEngine
  <2> QED BY <2>1, <2>2, <2>3, <2>4, <2>5
<1>6. CASE WriteConfig
  <2>1. ServiceTypes'
    BY <1>0, <1>6 DEF ServiceTypes, FileTypes, WriteConfig
  <2>2. FileTypes'
    BY <1>0, <1>6 DEF FileTypes, PageTypes, WriteConfig
  <2>3. PageTypes'
    BY <1>0, <1>6 DEF PageTypes, Labels, FileTypes, WriteConfig
  <2>4. CountTypes'
    BY <1>0, <1>6 DEF CountTypes, WriteConfig
  <2>5. StartPlaces'
    BY <1>0, <1>6 DEF StartPlaces, PageTypes, FileTypes, Starting, Readying, WriteConfig
  <2> QED BY <2>1, <2>2, <2>3, <2>4, <2>5
<1>7. CASE CheckConfig
  BY <1>0, <1>7 DEF ServiceTypes, FileTypes, PageTypes, CountTypes, StartPlaces, Labels,
         Starting, Readying, CheckConfig, Examine
<1>8. CASE Install
  <2>1. ServiceTypes'
    BY <1>0, <1>8 DEF ServiceTypes, FileTypes, Install, EnsureService, RemoveService
  <2>2. FileTypes'
    BY <1>0, <1>8 DEF FileTypes, PageTypes, Install, EnsureService, RemoveService
  <2>3. PageTypes'
    BY <1>0, <1>8 DEF PageTypes, Labels, FileTypes, Install, EnsureService,
       RemoveService
  <2>4. CountTypes'
    BY <1>0, <1>8 DEF CountTypes, FileTypes, ServiceTypes, Install, EnsureService,
       RemoveService
  <2>5. StartPlaces'
    BY <1>0, <1>8 DEF StartPlaces, PageTypes, FileTypes, Starting, Readying, Install,
       EnsureService, RemoveService
  <2> QED BY <2>1, <2>2, <2>3, <2>4, <2>5
<1>9. CASE Launch
  BY <1>0, <1>9 DEF ServiceTypes, FileTypes, PageTypes, CountTypes, StartPlaces, Labels,
         Starting, Readying, Launch, ServiceStarted, Startable
<1>10. CASE Await
  <2>1. ServiceTypes'
    BY <1>0, <1>10 DEF ServiceTypes, FileTypes, Await
  <2>2. FileTypes'
    BY <1>0, <1>10 DEF FileTypes, PageTypes, Await
  <2>3. PageTypes'
    BY <1>0, <1>10 DEF PageTypes, Labels, FileTypes, Await
  <2>4. CountTypes'
    BY <1>0, <1>10 DEF CountTypes, FileTypes, ServiceTypes, Await
  <2>5. StartPlaces'
    BY <1>0, <1>10 DEF StartPlaces, PageTypes, FileTypes, Starting, Readying, Await
  <2> QED BY <2>1, <2>2, <2>3, <2>4, <2>5
<1>11. CASE Undo
  <2>1. ServiceTypes'
    BY <1>0, <1>11 DEF ServiceTypes, FileTypes, Undo, RemoveService
  <2>2. FileTypes'
    BY <1>0, <1>11 DEF FileTypes, PageTypes, Undo, RemoveService
  <2>3. PageTypes'
    BY <1>0, <1>11 DEF PageTypes, Labels, FileTypes, Undo, RemoveService
  <2>4. CountTypes'
    BY <1>0, <1>11 DEF CountTypes, FileTypes, ServiceTypes, Undo, RemoveService
  <2>5. StartPlaces'
    BY <1>0, <1>11 DEF StartPlaces, PageTypes, FileTypes, Starting, Readying, Undo,
       RemoveService
  <2> QED BY <2>1, <2>2, <2>3, <2>4, <2>5
<1>12. CASE UndoInstall
  <2>1. ServiceTypes'
    BY <1>0, <1>12 DEF ServiceTypes, FileTypes, UndoInstall, EnsureService,
       RemoveService
  <2>2. FileTypes'
    BY <1>0, <1>12 DEF FileTypes, PageTypes, UndoInstall, EnsureService, RemoveService
  <2>3. PageTypes'
    BY <1>0, <1>12 DEF PageTypes, Labels, FileTypes, UndoInstall, EnsureService,
       RemoveService
  <2>4. CountTypes'
    BY <1>0, <1>12 DEF CountTypes, FileTypes, ServiceTypes, UndoInstall,
       EnsureService, RemoveService
  <2>5. StartPlaces'
    BY <1>0, <1>12 DEF StartPlaces, PageTypes, FileTypes, Starting, Readying,
       UndoInstall, EnsureService, RemoveService
  <2> QED BY <2>1, <2>2, <2>3, <2>4, <2>5
<1>13. CASE UndoLaunch
  BY <1>0, <1>13 DEF ServiceTypes, FileTypes, PageTypes, CountTypes, StartPlaces,
     Labels,
         Starting, Readying, UndoLaunch, ServiceStarted, Startable
<1>14. CASE Apply
  <2>1. ServiceTypes'
    BY <1>0, <1>14 DEF ServiceTypes, FileTypes, Apply
  <2>2. FileTypes'
    BY <1>0, <1>14 DEF FileTypes, PageTypes, Apply
  <2>3. PageTypes'
    BY <1>0, <1>14 DEF PageTypes, Labels, FileTypes, Apply
  <2>4. CountTypes'
    BY <1>0, <1>14 DEF CountTypes, FileTypes, ServiceTypes, Apply
  <2>5. StartPlaces'
    BY <1>0, <1>14 DEF StartPlaces, PageTypes, FileTypes, Starting, Readying, Apply
  <2> QED BY <2>1, <2>2, <2>3, <2>4, <2>5
<1>15. CASE ApplyOther
  BY <1>0, <1>15 DEF ServiceTypes, FileTypes, PageTypes, CountTypes, StartPlaces,
     Labels,
         Starting, Readying, ApplyOther
<1>16. CASE StopIfUnused
  <2>1. ServiceTypes'
    BY <1>0, <1>16 DEF ServiceTypes, FileTypes, StopIfUnused, RemoveService
  <2>2. FileTypes'
    BY <1>0, <1>16 DEF FileTypes, PageTypes, StopIfUnused, RemoveService
  <2>3. PageTypes'
    BY <1>0, <1>16 DEF PageTypes, Labels, FileTypes, StopIfUnused, RemoveService
  <2>4. CountTypes'
    BY <1>0, <1>16 DEF CountTypes, StopIfUnused, RemoveService
  <2>5. StartPlaces'
    BY <1>0, <1>16 DEF StartPlaces, PageTypes, FileTypes, Starting, Readying, StopIfUnused, RemoveService
  <2> QED BY <2>1, <2>2, <2>3, <2>4, <2>5
<1>17. CASE ForgetConfig
  <2>1. ServiceTypes'
    BY <1>0, <1>17 DEF ServiceTypes, FileTypes, ForgetConfig
  <2>2. FileTypes'
    BY <1>0, <1>17 DEF FileTypes, PageTypes, ForgetConfig
  <2>3. PageTypes'
    BY <1>0, <1>17 DEF PageTypes, Labels, FileTypes, ForgetConfig
  <2>4. CountTypes'
    BY <1>0, <1>17 DEF CountTypes, ForgetConfig
  <2>5. StartPlaces'
    BY <1>0, <1>17 DEF StartPlaces, PageTypes, FileTypes, Starting, Readying, ForgetConfig
  <2> QED BY <2>1, <2>2, <2>3, <2>4, <2>5
<1>18. CASE Repair
  <2>1. ServiceTypes'
    BY <1>0, <1>18 DEF ServiceTypes, FileTypes, Repair, Enter, Healthy
  <2>2. FileTypes'
    BY <1>0, <1>18 DEF FileTypes, PageTypes, Repair, Enter, Healthy
  <2>3. PageTypes'
    BY <1>0, <1>18 DEF PageTypes, Labels, FileTypes, Repair, Enter, Healthy
  <2>4. CountTypes'
    BY <1>0, <1>18 DEF CountTypes, FileTypes, ServiceTypes, Repair, Enter, Healthy
  <2>5. StartPlaces'
    BY <1>0, <1>18 DEF StartPlaces, PageTypes, FileTypes, Starting, Readying, Repair,
       Enter, Healthy
  <2> QED BY <2>1, <2>2, <2>3, <2>4, <2>5
<1>19. CASE Crash
  BY <1>0, <1>19 DEF ServiceTypes, FileTypes, PageTypes, CountTypes, StartPlaces,
     Labels,
         Starting, Readying, Crash, Leave
<1>20. CASE Update
  <2>1. ServiceTypes'
    BY <1>0, <1>20 DEF ServiceTypes, FileTypes, Update, Leave
  <2>2. FileTypes'
    BY <1>0, <1>20 DEF FileTypes, PageTypes, Update, Leave
  <2>3. PageTypes'
    BY <1>0, <1>20 DEF PageTypes, Labels, FileTypes, Update, Leave
  <2>4. CountTypes'
    BY <1>0, <1>20 DEF CountTypes, Update, Leave
  <2>5. StartPlaces'
    BY <1>0, <1>20 DEF StartPlaces, PageTypes, FileTypes, Starting, Readying, Update, Leave
  <2> QED BY <2>1, <2>2, <2>3, <2>4, <2>5
<1>21. CASE CrashInWrite
  BY <1>0, <1>21 DEF ServiceTypes, FileTypes, PageTypes, CountTypes, StartPlaces,
     Labels,
         Starting, Readying, CrashInWrite, Leave
<1>22. CASE Meddle
  <2>1. ServiceTypes'
    BY <1>0, <1>22 DEF ServiceTypes, FileTypes, Meddle, RemoveService, Stopped
  <2>2. FileTypes'
    BY <1>0, <1>22 DEF FileTypes, PageTypes, Meddle, RemoveService, Stopped
  <2>3. PageTypes'
    BY <1>0, <1>22 DEF PageTypes, Labels, FileTypes, Meddle, RemoveService, Stopped
  <2>4. CountTypes'
    BY <1>0, <1>22 DEF CountTypes, FileTypes, ServiceTypes, Meddle, RemoveService,
       Stopped
  <2>5. StartPlaces'
    BY <1>0, <1>22 DEF StartPlaces, PageTypes, FileTypes, Starting, Readying, Meddle,
       RemoveService, Stopped
  <2> QED BY <2>1, <2>2, <2>3, <2>4, <2>5
<1>23. CASE Reboot
  BY <1>0, <1>23 DEF ServiceTypes, FileTypes, PageTypes, CountTypes, StartPlaces,
     Labels,
         Starting, Readying, Reboot
<1>24. CASE UNCHANGED lpVars
  BY <1>0, <1>24 DEF lpVars, ServiceTypes, FileTypes, PageTypes, CountTypes, StartPlaces
<1>25. CASE CrashInCopy
  BY <1>0, <1>25 DEF ServiceTypes, FileTypes, PageTypes, CountTypes, StartPlaces,
     Labels,
         Starting, Readying, CrashInCopy, Leave
<1> QED BY <1>1, <1>2, <1>3, <1>4, <1>5, <1>6, <1>7, <1>8, <1>9, <1>10, <1>11,
           <1>12, <1>13, <1>14, <1>15, <1>16, <1>17, <1>18, <1>19, <1>20,
           <1>21, <1>22, <1>23, <1>24, <1>25
     DEF LpNext

(* Without a fault so far, none in this step. *)
LEMMA SettledStep ==
    StartInv /\ (faults = 0 => SettledInv) /\ [LpNext]_lpVars
        => (faults = 0 => SettledInv)'
<1> SUFFICES ASSUME StartInv, faults = 0 => SettledInv, [LpNext]_lpVars, faults' = 0
             PROVE  SettledInv'
  OBVIOUS
<1>0. faults = 0 /\ ~LpFault
  BY LpAssumption, FaultCount DEF StartInv, LpTypeOK, LpFault
<1> SettledInv /\ StartInv
  BY <1>0
<1> USE LpAssumption DEF StartInv, LpTypeOK, StartPlaces, SettledInv, AtRest, Engaged,
        Lost, NoFault, LpGoto,
        LpEnd, lpSystem, lpFiles, lpEngines, lpStart, Readying, Starting, Undoing, Stopped
<1>1. ASSUME NEW m \in Modes, PageStarts(m) PROVE SettledInv'
  BY <1>0, <1>1 DEF PageStarts, Enter
<1>2. CASE Refuse
  BY <1>0, <1>2 DEF Refuse
<1>3. CASE StopOwn
  BY <1>0, <1>3 DEF StopOwn, Stopped
<1>4. CASE PortFree
  BY <1>0, <1>4 DEF PortFree, Examine
<1>5. CASE CopyEngine
  BY <1>0, <1>5 DEF CopyEngine
<1>6. CASE WriteConfig
  BY <1>0, <1>6 DEF WriteConfig
<1>7. CASE CheckConfig
  BY <1>0, <1>7 DEF CheckConfig, Examine
<1>8. CASE Install
  BY <1>0, <1>8 DEF Install, EnsureService, RemoveService
<1>9. CASE Launch
  BY <1>0, <1>9 DEF Launch, ServiceStarted, Startable
<1>10. CASE Await
  <2>1. CASE task = "page"
    BY <1>0, <1>10, <2>1 DEF Await
  <2>2. CASE task # "page"
    BY <1>0, <1>10, <2>2 DEF Await
  <2> QED BY <1>0, <1>10, <2>1, <2>2 DEF Await
<1>11. CASE Undo
  BY <1>0, <1>11 DEF Undo, RemoveService
<1>12. CASE UndoInstall
  BY <1>0, <1>12 DEF UndoInstall, EnsureService, RemoveService
<1>13. CASE UndoLaunch
  BY <1>0, <1>13 DEF UndoLaunch, ServiceStarted, Startable
<1>14. CASE Apply
  BY <1>0, <1>14 DEF Apply
<1>15. CASE ApplyOther
  BY <1>0, <1>15 DEF ApplyOther
<1>16. CASE StopIfUnused
  BY <1>0, <1>16 DEF StopIfUnused, RemoveService
<1>17. CASE ForgetConfig
  BY <1>0, <1>17 DEF ForgetConfig
<1>18. CASE Repair
  <2>1. CASE task' = "repair" /\ LpGoto("tidy")
    BY <1>0, <1>18, <2>1 DEF Repair, Enter, Healthy
  <2>2. CASE UNCHANGED <<lpPc, lpStart>>
    BY <1>0, <1>18, <2>2 DEF Repair, Enter, Healthy
  <2>3. CASE Enter("repair", config) /\ config # None
    BY <1>0, <1>18, <2>3 DEF Repair, Enter, Healthy
  <2> QED BY <1>0, <1>18, <2>1, <2>2, <2>3 DEF Repair, Enter, Healthy
<1>19. CASE Crash
  BY <1>0, <1>19 DEF Crash, Leave
<1>20. CASE Update
  BY <1>0, <1>20 DEF Update, Leave
<1>21. CASE CrashInWrite
  BY <1>0, <1>21 DEF CrashInWrite, Leave
<1>22. CASE Meddle
  BY <1>0, <1>22 DEF Meddle, RemoveService, Stopped
<1>23. CASE Reboot
  BY <1>0, <1>23 DEF Reboot
<1>24. CASE UNCHANGED lpVars
  BY <1>0, <1>24 DEF lpVars
<1>25. CASE CrashInCopy
  BY <1>0, <1>25 DEF CrashInCopy, Leave
<1> QED BY <1>1, <1>2, <1>3, <1>4, <1>5, <1>6, <1>7, <1>8, <1>9, <1>10, <1>11,
           <1>12, <1>13, <1>14, <1>15, <1>16, <1>17, <1>18, <1>19, <1>20,
           <1>21, <1>22, <1>23, <1>24, <1>25
     DEF LpNext

LEMMA CopyKeeps == LpTypeOK /\ EngineInv /\ CopyEngine => EngineInv'
<1> SUFFICES ASSUME LpTypeOK, EngineInv, CopyEngine PROVE EngineInv'
  OBVIOUS
<1>1. lpPc = "copy" /\ lpPc' \in {"write", "undo"} /\ UNCHANGED <<answered, service>>
  BY DEF CopyEngine, LpGoto, lpSystem, lpStart
<1>2. lpPc' = "write" => fresh'
  BY DEF CopyEngine, LpGoto
<1>3. fresh' => launchable'
  <2>1. fresh \in BOOLEAN /\ launchable \in BOOLEAN /\ (fresh => launchable)
    BY DEF EngineInv, LpTypeOK
  <2>2. \/ fresh' = fresh /\ launchable' = launchable
        \/ launchable' = TRUE
        \/ ~fresh /\ fresh' = fresh
    BY DEF CopyEngine
  <2> QED BY <2>1, <2>2
<1>4. service # "running" /\ ~answered
  BY <1>1 DEF EngineInv, Readying
<1> QED BY <1>1, <1>2, <1>3, <1>4 DEF EngineInv, Readying, Undoing

(* At most one fault since the start was called. *)
LEMMA RollStep == StartInv /\ RollInv /\ [LpNext]_lpVars => RollInv'
<1> SUFFICES ASSUME StartInv /\ RollInv, [LpNext]_lpVars PROVE RollInv'
  OBVIOUS
<1> USE LpAssumption DEF StartInv, LpTypeOK, StartPlaces, RollInv, InOrder, EngineInv, LpFault,
        NoFault, LpGoto, LpEnd,
        lpSystem, lpFiles, lpEngines, lpStart, Readying, Starting, Undoing, Stopped
<1>1. ASSUME NEW m \in Modes, PageStarts(m) PROVE RollInv'
  BY <1>1 DEF PageStarts, Enter
<1>2. CASE Refuse
  BY <1>2 DEF Refuse
<1>3. CASE StopOwn
  BY <1>3 DEF StopOwn, Stopped
<1>4. CASE PortFree
  BY <1>4 DEF PortFree, Examine
<1>5. CASE CopyEngine
  <2>1. EngineInv' /\ UNCHANGED <<before, previous, config, service>>
    BY <1>5, CopyKeeps DEF CopyEngine
  <2>2. lpPc = "copy" /\ lpPc' \in {"write", "undo"}
    BY <1>5 DEF CopyEngine
  <2>3. CASE lpPc' = "write" /\ NoFault
    BY <2>1, <2>2, <2>3
  <2>4. CASE lpPc' = "undo" /\ LpFault
    BY <2>1, <2>2, <2>4
  <2>5. CASE lpPc' = "undo" /\ ~shipped /\ NoFault
    BY <2>1, <2>2, <2>5
  <2> QED BY <1>5, <2>3, <2>4, <2>5 DEF CopyEngine
<1>6. CASE WriteConfig
  BY <1>6 DEF WriteConfig
<1>7. CASE CheckConfig
  BY <1>7 DEF CheckConfig, Examine
<1>8. CASE Install
  BY <1>8 DEF Install, EnsureService, RemoveService
<1>9. CASE Launch
  BY <1>9 DEF Launch, ServiceStarted, Startable
<1>10. CASE Await
  BY <1>10 DEF Await
<1>11. CASE Undo
  BY <1>11 DEF Undo, RemoveService
<1>12. CASE UndoInstall
  BY <1>12 DEF UndoInstall, EnsureService, RemoveService
<1>13. CASE UndoLaunch
  BY <1>13 DEF UndoLaunch, ServiceStarted, Startable
<1>14. CASE Apply
  BY <1>14 DEF Apply
<1>15. CASE ApplyOther
  BY <1>15 DEF ApplyOther
<1>16. CASE StopIfUnused
  BY <1>16 DEF StopIfUnused, RemoveService
<1>17. CASE ForgetConfig
  BY <1>17 DEF ForgetConfig
<1>18. CASE Repair
  BY <1>18 DEF Repair, Enter, Healthy
<1>19. CASE Crash
  BY <1>19 DEF Crash, Leave
<1>20. CASE Update
  BY <1>20 DEF Update, Leave
<1>21. CASE CrashInWrite
  BY <1>21 DEF CrashInWrite, Leave
<1>22. CASE Meddle
  BY <1>22 DEF Meddle, RemoveService, Stopped
<1>23. CASE Reboot
  BY <1>23 DEF Reboot
<1>24. CASE UNCHANGED lpVars
  BY <1>24 DEF lpVars
<1>25. CASE CrashInCopy
  BY <1>25 DEF CrashInCopy, Leave
<1> QED BY <1>1, <1>2, <1>3, <1>4, <1>5, <1>6, <1>7, <1>8, <1>9, <1>10, <1>11,
           <1>12, <1>13, <1>14, <1>15, <1>16, <1>17, <1>18, <1>19, <1>20,
           <1>21, <1>22, <1>23, <1>24, <1>25
     DEF LpNext

-----------------------------------------------------------------------------
(* Service, files, adapters and the locals of a start are well-typed. *)
THEOREM LpTypeCorrect == LpSpec => []LpTypeOK
<1>1. StartInv => LpTypeOK
  BY DEF StartInv
<1> QED BY <1>1, LpInitInv, StartStep, PTL DEF LpSpec

(* local_proxy::start before dns::apply: 127.0.0.1 is written to adapters  *)
(* only after this very start heard the engine answer, whatever failed.    *)
THEOREM AdaptersOnlyAfterAnswer == LpSpec => AdaptersAfterAnswer
<1>1. StartInv /\ [LpNext]_lpVars => [~adapters /\ adapters' => answered /\ task = "page"]_lpVars
  <2> SUFFICES ASSUME StartInv, LpNext, ~adapters, adapters'
               PROVE  answered /\ task = "page"
    OBVIOUS
  <2>1. lpPc = "apply"
    BY DEF LpNext, PageStarts, Enter, Refuse, StopOwn, PortFree, CopyEngine,
       WriteConfig,
       CheckConfig, Examine, Install, Launch, Await, Undo, UndoInstall, UndoLaunch, Apply,
       ApplyOther, StopIfUnused, ForgetConfig, Repair, Crash, Update, Leave, CrashInWrite,
       CrashInCopy, Meddle, Reboot
  <2> QED BY <2>1 DEF StartInv, StartPlaces
<1> QED BY <1>1, LpInitInv, StartStep, PTL DEF LpSpec, AdaptersAfterAnswer

(* repair and stop_if_unused: without a fault, kills and updates at any    *)
(* step included, the program rests with a running engine of the mode in   *)
(* the file, or without a service; or a kill in the write of the config    *)
(* has lost the mode, and the adapters point at nothing.                   *)
THEOREM SettlesWithoutFault == LpSpec => []Settled
<1>1. StartInv /\ (faults = 0 => SettledInv) => Settled
  BY DEF SettledInv, AtRest, Engaged, Lost, Settled
<1> QED BY <1>1, LpInitInv, StartStep, SettledStep, PTL DEF LpSpec

(* roll_back: a start that fails by one fault brings the config before it  *)
(* back, and a running engine with it, but for two cases: a copy that      *)
(* failed midway left no engine, and the new engine that did not answer    *)
(* runs on in the new mode.                                                *)
THEOREM OneFaultRollsBack == LpSpec => FailedStartRestores
<1> DEFINE Restored ==
             /\ config' = before.config
             /\ service' = IF launchable THEN "running" ELSE "stopped"
             /\ launchable => loaded' = IF service = "running" THEN mode ELSE before.config
             /\ service = "running" => answered = FALSE /\ loaded = mode
           OneFault == /\ RolledBack /\ faults' = before.faults + 1
                       /\ before.service # "none" /\ before.config # None
<1>1. StartInv /\ RollInv /\ [LpNext]_lpVars => [OneFault => Restored]_lpVars
  <2> SUFFICES ASSUME StartInv, RollInv, LpNext, OneFault
               PROVE  Restored
    OBVIOUS
  <2>1. before.faults \in Nat /\ faults \in Nat
    BY LpAssumption DEF StartInv, LpTypeOK
  <2>2. lpPc \in Undoing /\ before.faults < faults
    BY DEF RolledBack, RollInv, Undoing
  <2>3. before.faults + 1 = faults
    BY <2>1, <2>2, FaultCount DEF LpFault
  <2>4. ~LpFault
    BY <2>1, <2>3 DEF LpFault
  <2>5. lpPc \in {"undo", "undoLaunch"} /\ lpPc' = "idle" /\ ~repairDue'
    BY <2>3 DEF RolledBack, RollInv
  <2>6. UndoLaunch
    BY <2>4, <2>5 DEF LpNext, PageStarts, Enter, Refuse, StopOwn, PortFree, CopyEngine,
       WriteConfig, CheckConfig, Examine, Install, Launch, Await, Undo, UndoInstall, Apply,
       ApplyOther, StopIfUnused, ForgetConfig, Repair, Crash, Update, Leave, CrashInWrite,
       CrashInCopy, Meddle, Reboot, LpGoto
  <2>7. config = before.config /\ service # "none" /\ lpPc = "undoLaunch"
    BY <2>3, <2>6 DEF RollInv, UndoLaunch
  <2>8. ~answered /\ (service = "running" => loaded = mode /\ launchable)
    BY <2>7 DEF RollInv, EngineInv, Undoing, StartInv, LpTypeOK
  <2>9. service \in {"stopped", "running"}
    BY <2>7 DEF StartInv, LpTypeOK
  <2> QED BY <2>4, <2>6, <2>7, <2>8, <2>9
          DEF UndoLaunch, ServiceStarted, Startable, lpFiles, lpEngines, lpSystem, LpFault,
              StartInv, LpTypeOK
<1> QED BY <1>1, LpInitInv, StartStep, RollStep, PTL DEF LpSpec, FailedStartRestores

(* As long as no call fails, the page shows what runs, kills and updates   *)
(* at any step included: one failure of a start is what it takes to show   *)
(* another mode.                                                           *)
THEOREM ModeShownWithoutFault == LpSpec => [](faults = 0 => ModeShownRuns)
<1>1. StartInv /\ (faults = 0 => SettledInv) => (faults = 0 => ModeShownRuns)
  BY DEF SettledInv, ModeShownRuns
<1> QED BY <1>1, LpInitInv, StartStep, SettledStep, PTL DEF LpSpec

-----------------------------------------------------------------------------
(* The report of a lookup, for any targets. What is filled in is said step *)
(* by step: a run that nobody stopped has done every step due before the   *)
(* one it is at, and the mark of the report tells which step stopped it.   *)

StepNames == {"windows", "quick", "tcp", "site", "hostsHelp", "quic", "road",
              "rest", "canary", "ping", "ptr", "ping6", "route",
              "certNamed", "certDefault", "network", "thc", "hackertarget",
              "shodan", "ripestat", "hostsRoad"}

(* What a target says of the steps, whatever was found before. *)
Address == ~target.domain \/ target.ip # "none"
Named == target.domain /\ Address /\ target.public
OnRoad == ~target.six /\ target.road
Asked == Address /\ target.public /\ target.external

(* A run that nobody stopped has done the steps due before this one. *)
DoneSoFar ==
    /\ filled \subseteq StepNames
    /\ "windows" \in filled <=> at > 1 /\ target.domain
    /\ "quick" \in filled <=> at > 2 /\ target.domain
    /\ "tcp" \in filled <=> (at > 3 /\ Named) \/ (at > 12 /\ Address)
    /\ "site" \in filled <=> at > 4 /\ Named
    /\ "hostsHelp" \in filled <=> at > 5 /\ Named
    /\ "quic" \in filled <=> at > 6 /\ Named /\ ~target.six
    /\ "road" \in filled <=> (at > 7 /\ Named /\ OnRoad) \/ (at > 14 /\ Address /\ OnRoad)
    /\ "rest" \in filled <=> at > 8 /\ target.domain
    /\ "canary" \in filled <=> at > 9 /\ target.domain
    /\ "ping" \in filled <=> at > 10 /\ Address
    /\ "ptr" \in filled <=> at > 11 /\ Address
    /\ "ping6" \in filled <=> at > 13 /\ Address /\ (OnRoad \/ target.other # "none")
    /\ "route" \in filled <=> at > 15 /\ Address /\ ~target.six
    /\ "certNamed" \in filled <=> at > 16 /\ Address /\ target.domain
    /\ "certDefault" \in filled <=> at > 17 /\ Address
    /\ "network" \in filled <=> at > 18 /\ Address /\ target.public
    /\ "thc" \in filled <=> at > 19 /\ Asked
    /\ "hackertarget" \in filled <=> at > 20 /\ Asked /\ ~target.thc
    /\ "shodan" \in filled <=> at > 21 /\ Asked
    /\ "ripestat" \in filled <=> at > 22 /\ Asked
    /\ "hostsRoad" \in filled <=> at > 23 /\ Named /\ target.closed

(* The marks are set after the last step, and tell. *)
MarksTell ==
    /\ mark.at # "open" => at > Len(Steps)
    /\ mark.at = "finished" /\ ~mark.timedOut => ~expired \/ userStop
    /\ mark.at # "open" /\ ~mark.stopped /\ ~expired => DoneSoFar

DlInv ==
    /\ DlTypeOK
    /\ ~Halted => DoneSoFar
    /\ MarksTell

LEMMA StepsAre ==
  /\ Len(Steps) = 23
  /\ DOMAIN Steps = 1..23
  /\ {Steps[i] : i \in DOMAIN Steps} = StepNames
<1>1. Len(Steps) = 23
  BY DEF Steps
<1>2. DOMAIN Steps = 1..23
  BY DEF Steps
<1>3. \A i \in 1..23 : Steps[i] \in StepNames
  BY DEF Steps, StepNames
<1>4. \A s \in StepNames : \E i \in 1..23 : Steps[i] = s
  BY DEF Steps, StepNames
<1> QED BY <1>1, <1>2, <1>3, <1>4

(* A whole report is what the last step leaves. *)
LEMMA WholeAtTheEnd ==
  ASSUME DoneSoFar, at = 24
  PROVE  filled = WholeReport
<1>1. WholeReport \subseteq StepNames
  BY DEF WholeReport, StepNames
<1>2. \A s \in StepNames : s \in filled <=> s \in WholeReport
  BY DEF DoneSoFar, WholeReport, StepNames, Address, Named, OnRoad, Asked
<1> QED BY <1>1, <1>2 DEF DoneSoFar

-----------------------------------------------------------------------------
(* One step of the lookup, at each of its places. *)

Advance(step) ==
    /\ filled' = IF Applies(step) THEN filled \union {step} ELSE filled
    /\ at' = at + 1 /\ UNCHANGED target

LEMMA TargetFacts ==
  ASSUME DlTypeOK
  PROVE  /\ target \in Facts
         /\ target.domain \in BOOLEAN /\ target.ip \in {"none", "windows", "quick"}
         /\ target.public \in BOOLEAN /\ target.six \in BOOLEAN /\ target.road \in BOOLEAN
         /\ target.other \in {"none", "quick", "rest"} /\ target.external \in BOOLEAN
         /\ target.thc \in BOOLEAN /\ target.closed \in BOOLEAN
         /\ ~target.domain => ~target.road /\ target.other = "none"
  BY DlAssumption DEF DlTypeOK, Facts

LEMMA StepAt ==
  ASSUME DlTypeOK, DoneSoFar, at \in 1..23, Advance(Steps[at])
  PROVE  DoneSoFar'
<1> USE TargetFacts DEF DoneSoFar, Advance, Applies, StepNames, Address, Named, OnRoad, Asked,
       Primary, RoadKnown, SixKnown, FirstWave, Outside
<1>1. CASE at = 1
  <2>1. Steps[at] = "windows"
    BY <1>1 DEF Steps
  <2> QED BY <1>1, <2>1
<1>2. CASE at = 2
  <2>1. Steps[at] = "quick"
    BY <1>2 DEF Steps
  <2> QED BY <1>2, <2>1
<1>3. CASE at = 3
  <2>1. Steps[at] = "tcp"
    BY <1>3 DEF Steps
  <2> QED BY <1>3, <2>1
<1>4. CASE at = 4
  <2>1. Steps[at] = "site"
    BY <1>4 DEF Steps
  <2> QED BY <1>4, <2>1
<1>5. CASE at = 5
  <2>1. Steps[at] = "hostsHelp"
    BY <1>5 DEF Steps
  <2> QED BY <1>5, <2>1
<1>6. CASE at = 6
  <2>1. Steps[at] = "quic"
    BY <1>6 DEF Steps
  <2> QED BY <1>6, <2>1
<1>7. CASE at = 7
  <2>1. Steps[at] = "road"
    BY <1>7 DEF Steps
  <2> QED BY <1>7, <2>1
<1>8. CASE at = 8
  <2>1. Steps[at] = "rest"
    BY <1>8 DEF Steps
  <2> QED BY <1>8, <2>1
<1>9. CASE at = 9
  <2>1. Steps[at] = "canary"
    BY <1>9 DEF Steps
  <2> QED BY <1>9, <2>1
<1>10. CASE at = 10
  <2>1. Steps[at] = "ping"
    BY <1>10 DEF Steps
  <2> QED BY <1>10, <2>1
<1>11. CASE at = 11
  <2>1. Steps[at] = "ptr"
    BY <1>11 DEF Steps
  <2> QED BY <1>11, <2>1
<1>12. CASE at = 12
  <2>1. Steps[at] = "tcp"
    BY <1>12 DEF Steps
  <2> QED BY <1>12, <2>1
<1>13. CASE at = 13
  <2>1. Steps[at] = "ping6"
    BY <1>13 DEF Steps
  <2> QED BY <1>13, <2>1
<1>14. CASE at = 14
  <2>1. Steps[at] = "road"
    BY <1>14 DEF Steps
  <2> QED BY <1>14, <2>1
<1>15. CASE at = 15
  <2>1. Steps[at] = "route"
    BY <1>15 DEF Steps
  <2> QED BY <1>15, <2>1
<1>16. CASE at = 16
  <2>1. Steps[at] = "certNamed"
    BY <1>16 DEF Steps
  <2> QED BY <1>16, <2>1
<1>17. CASE at = 17
  <2>1. Steps[at] = "certDefault"
    BY <1>17 DEF Steps
  <2> QED BY <1>17, <2>1
<1>18. CASE at = 18
  <2>1. Steps[at] = "network"
    BY <1>18 DEF Steps
  <2> QED BY <1>18, <2>1
<1>19. CASE at = 19
  <2>1. Steps[at] = "thc"
    BY <1>19 DEF Steps
  <2> QED BY <1>19, <2>1
<1>20. CASE at = 20
  <2>1. Steps[at] = "hackertarget"
    BY <1>20 DEF Steps
  <2> QED BY <1>20, <2>1
<1>21. CASE at = 21
  <2>1. Steps[at] = "shodan"
    BY <1>21 DEF Steps
  <2> QED BY <1>21, <2>1
<1>22. CASE at = 22
  <2>1. Steps[at] = "ripestat"
    BY <1>22 DEF Steps
  <2> QED BY <1>22, <2>1
<1>23. CASE at = 23
  <2>1. Steps[at] = "hostsRoad"
    BY <1>23 DEF Steps
  <2> QED BY <1>23, <2>1
<1> HIDE TargetFacts DEF DoneSoFar, Advance, Applies, StepNames, Address, Named, OnRoad, Asked,
         Primary, RoadKnown, SixKnown, FirstWave, Outside
<1> QED BY <1>1, <1>2, <1>3, <1>4, <1>5, <1>6, <1>7, <1>8, <1>9, <1>10, <1>11, <1>12,
          <1>13, <1>14, <1>15, <1>16, <1>17, <1>18, <1>19, <1>20, <1>21, <1>22, <1>23

LEMMA DlInitInv == DlInit => DlInv
<1> SUFFICES ASSUME DlInit PROVE DlInv
  OBVIOUS
<1>1. DlTypeOK
  <2>1. /\ target \in Targets /\ at = 1 /\ filled = {} /\ userStop = FALSE /\ expired = FALSE
        /\ mark = [at |-> "open", stopped |-> FALSE, timedOut |-> FALSE]
    BY DEF DlInit
  <2>2. 1 \in 1..Len(Steps) + 1
    BY StepsAre
  <2>3. mark \in [at : {"open", "read", "finished"}, stopped : BOOLEAN, timedOut : BOOLEAN]
    BY <2>1
  <2> QED BY <2>1, <2>2, <2>3 DEF DlTypeOK
<1>2. DoneSoFar
  <2>1. filled = {} /\ at = 1
    BY DEF DlInit
  <2>2. \A n \in 1..23 : ~(at > n)
    BY <2>1
  <2> QED BY <2>1, <2>2 DEF DoneSoFar
<1>3. MarksTell
  BY DEF DlInit, MarksTell
<1> QED BY <1>1, <1>2, <1>3 DEF DlInv

LEMMA PlacesAre ==
  ASSUME DlTypeOK
  PROVE  /\ at \in 1..24 /\ at \in Nat /\ filled \subseteq StepNames
         /\ mark \in [at : {"open", "read", "finished"}, stopped : BOOLEAN, timedOut : BOOLEAN]
  BY StepsAre DEF DlTypeOK

LEMMA DoneKept == UNCHANGED <<target, at, filled>> /\ DoneSoFar => DoneSoFar'
  BY DEF DoneSoFar, Address, Named, OnRoad, Asked

LEMMA AdvanceKeeps ==
  ASSUME DlInv, Do \/ Skip
  PROVE  DlInv'
<1>1. DlTypeOK /\ MarksTell /\ (~Halted => DoneSoFar)
  BY DEF DlInv
<1>2. at \in 1..23 /\ at' = at + 1 /\ UNCHANGED <<target, userStop, mark>>
  BY <1>1, PlacesAre, StepsAre DEF Do, Skip
<1>3. Steps[at] \in StepNames
  BY <1>2, StepsAre
<1>4. filled' \in {filled, filled \union {Steps[at]}} /\ expired' \in BOOLEAN
  BY <1>1 DEF Do, Skip, DlTypeOK
<1>5. DlTypeOK'
  BY <1>1, <1>2, <1>3, <1>4, StepsAre DEF DlTypeOK
<1>6. ~Halted' => ~Halted
  BY <1>1, <1>2 DEF Halted, Do, Skip, MayRun, DlTypeOK
<1>7. ~Halted => Advance(Steps[at])
  BY <1>2 DEF Do, Skip, MayRun, Advance
<1>8. ~Halted' => DoneSoFar'
  BY <1>1, <1>2, <1>6, <1>7, StepAt
<1>9. MarksTell'
  BY <1>1, <1>2, PlacesAre, StepsAre DEF MarksTell
<1> QED BY <1>5, <1>8, <1>9 DEF DlInv

LEMMA ReadStopKeeps ==
  ASSUME DlInv, ReadStop
  PROVE  DlInv'
<1>1. DlTypeOK /\ MarksTell /\ (~Halted => DoneSoFar)
  BY DEF DlInv
<1>2. /\ at > Len(Steps) /\ UNCHANGED <<target, at, filled, userStop, expired>>
      /\ mark' = [mark EXCEPT !.at = "read", !.stopped = userStop]
  BY DEF ReadStop
<1>3. /\ mark' \in [at : {"open", "read", "finished"}, stopped : BOOLEAN, timedOut : BOOLEAN]
      /\ mark'.at = "read"
  BY <1>1, <1>2, PlacesAre DEF DlTypeOK
<1>4. DlTypeOK'
  BY <1>1, <1>2, <1>3 DEF DlTypeOK
<1>5. MarksTell'
  BY <1>1, <1>2, <1>3, PlacesAre
     DEF MarksTell, Halted, DoneSoFar, Address, Named, OnRoad, Asked
<1> QED BY <1>1, <1>2, <1>4, <1>5 DEF DlInv, Halted, DoneSoFar, Address, Named, OnRoad, Asked

LEMMA ReadDeadlineKeeps ==
  ASSUME DlInv, ReadDeadline
  PROVE  DlInv'
<1>1. DlTypeOK /\ MarksTell /\ (~Halted => DoneSoFar)
  BY DEF DlInv
<1>2. /\ mark.at = "read" /\ UNCHANGED <<target, at, filled, userStop, expired>>
      /\ mark' = [mark EXCEPT !.at = "finished", !.timedOut = expired /\ ~userStop]
  BY DEF ReadDeadline
<1> DEFINE late == expired /\ ~userStop
<1>3. late \in BOOLEAN
  BY <1>1 DEF DlTypeOK
<1>4. mark' = [mark EXCEPT !.at = "finished", !.timedOut = late]
  BY <1>2
<1> HIDE DEF late
<1>5. /\ mark' \in [at : {"open", "read", "finished"}, stopped : BOOLEAN, timedOut : BOOLEAN]
      /\ mark'.at = "finished" /\ mark'.timedOut = late
  BY <1>1, <1>3, <1>4, PlacesAre
<1>6. DlTypeOK'
  BY <1>1, <1>2, <1>5 DEF DlTypeOK
<1>7. MarksTell'
  <2>1. mark'.stopped = mark.stopped
    BY <1>1, <1>4, PlacesAre
  <2>2. DoneSoFar => DoneSoFar'
    BY <1>2, DoneKept
  <2>3. mark'.at # "open" /\ ~mark'.stopped /\ ~expired' => DoneSoFar'
    BY <1>1, <1>2, <2>1, <2>2 DEF MarksTell
  <2>4. mark'.timedOut <=> expired /\ ~userStop
    BY <1>5 DEF late
  <2> QED BY <1>1, <1>2, <1>5, <2>3, <2>4 DEF MarksTell
<1> QED BY <1>1, <1>2, <1>6, <1>7 DEF DlInv, Halted, DoneSoFar, Address, Named, OnRoad, Asked

LEMMA DlStepInv == DlInv /\ [DlNext]_dlVars => DlInv'
<1> SUFFICES ASSUME DlInv, [DlNext]_dlVars PROVE DlInv'
  OBVIOUS
<1>1. CASE Do \/ Skip
  BY <1>1, AdvanceKeeps
<1>2. CASE ReadStop
  BY <1>2, ReadStopKeeps
<1>3. CASE ReadDeadline
  BY <1>3, ReadDeadlineKeeps
<1>4. CASE PressStop \/ DeadlineComes
  <2>1. UNCHANGED <<target, at, filled, mark>> /\ mark.at # "finished"
    BY <1>4 DEF PressStop, DeadlineComes
  <2>2. DoneSoFar => DoneSoFar'
    BY <2>1, DoneKept
  <2>3. DlTypeOK' /\ (~Halted' => ~Halted) /\ (~expired' => ~expired)
    BY <1>4 DEF DlInv, PressStop, DeadlineComes, DlTypeOK, Halted
  <2>4. MarksTell'
    BY <2>1, <2>2, <2>3 DEF MarksTell, DlInv
  <2> QED BY <2>2, <2>3, <2>4 DEF DlInv
<1>5. CASE UNCHANGED dlVars
  BY <1>5 DEF DlInv, dlVars, DlTypeOK, MarksTell, Halted, DoneSoFar, Address, Named, OnRoad, Asked
<1> QED BY <1>1, <1>2, <1>3, <1>4, <1>5 DEF DlNext

LEMMA DlInvariant == DlSpec => []DlInv
<1>1. DlInit => DlInv
  BY DlInitInv
<1>2. DlInv /\ [DlNext]_dlVars => DlInv'
  BY DlStepInv
<1> QED BY <1>1, <1>2, PTL DEF DlSpec

(* Type correctness of the lookup. *)
THEOREM DlTypeCorrect == DlSpec => []DlTypeOK
<1>1. DlInv => DlTypeOK
  BY DEF DlInv
<1> QED BY <1>1, DlInvariant, PTL

(* Whatever is looked up, and whenever "Stop" is pressed or the deadline   *)
(* comes: a report without a mark has all parts its target can have, but   *)
(* for one that the deadline cut and "Stop" fell between its two marks.    *)
THEOREM UnmarkedReportsAreWhole == DlSpec => []UnmarkedIsWhole
<1>1. DlInv => UnmarkedIsWhole
  <2> SUFFICES ASSUME DlInv, mark.at = "finished", ~mark.stopped, ~mark.timedOut,
                      ~(userStop /\ expired)
      PROVE  filled = WholeReport
    BY DEF UnmarkedIsWhole
  <2>1. ~expired /\ at > Len(Steps) /\ DoneSoFar
    BY DEF DlInv, MarksTell
  <2>2. at = 24
    BY <2>1, PlacesAre, StepsAre DEF DlInv
  <2> QED BY <2>1, <2>2, WholeAtTheEnd
<1> QED BY <1>1, DlInvariant, PTL
==============================================================================
