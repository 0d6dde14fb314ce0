------------------------------ MODULE NetResolve ------------------------------
(***************************************************************************)
(* Name resolution with a deadline. A call first looks into the cache,     *)
(* then joins the query of its key that is already under way, or begins    *)
(* one on a thread of its own, and waits for it until its deadline. The    *)
(* query outlives callers that gave up and puts its answer in the cache.   *)
(*                                                                         *)
(* The two critical sections of a call, under the lock of the cache and    *)
(* under the lock of the queries under way, are two actions: anything may  *)
(* come between. Deadlines are of any length: a wait may end at any time.  *)
(* Addresses are left out; an answer was "found" or has "failed".          *)
(***************************************************************************)
EXTENDS Naturals, FiniteSets

CONSTANTS Calls,           (* threads that ask                             *)
          Keys,            (* host, port and address family                *)
          Queries,         (* threads that query, with what callers wait   *)
                           (* on (Pending); enough for all at work at once *)
          NoKey, NoQuery,
          SuccessTTL, FailureTTL,      (* life times of an answer          *)
          CacheLimit

ASSUME ResolveAssumption ==
    /\ IsFiniteSet(Keys)
    /\ NoKey \notin Keys /\ NoQuery \notin Queries
    /\ SuccessTTL \in Nat /\ FailureTTL \in Nat /\ FailureTTL <= SuccessTTL
    /\ CacheLimit \in Nat \ {0}

VARIABLES netPc, key, query,  (* per call: where it is, what it asks, whom *)
                           (* it waits for                                 *)
          status, about,   (* per query: how far it is, and its key        *)
          inflight,        (* INFLIGHT: the query under way for each key   *)
          cache            (* CACHE: per key an answer and its age         *)

callVars == <<netPc, key, query>>
queryVars == <<status, about>>
netVars == <<callVars, queryVars, inflight, cache>>

Outcomes == {"found", "failed"}
NoEntry == [answer |-> "none", age |-> 0]
MaxAge == SuccessTTL + 1               (* older answers are all alike *)

(* Type correctness; a call is bound to a query just while it waits, and a *)
(* query is gone when nobody holds it any more.                            *)
NetTypeOK ==
    /\ netPc \in [Calls -> {"idle", "cached", "join", "wait", "asleep"}]
    /\ key \in [Calls -> Keys \cup {NoKey}]
    /\ query \in [Calls -> Queries \cup {NoQuery}]
    /\ status \in [Queries -> {"none", "asking", "stored", "finished"}]
    /\ about \in [Queries -> Keys \cup {NoKey}]
    /\ inflight \in [Keys -> Queries \cup {NoQuery}]
    /\ cache \in [Keys -> [answer : Outcomes \cup {"none"}, age : 0..MaxAge]]
    /\ \A c \in Calls : netPc[c] \in {"wait", "asleep"} <=> query[c] # NoQuery
    /\ \A c \in Calls : netPc[c] = "idle" <=> key[c] = NoKey
    /\ \A q \in Queries : status[q] = "none" <=> about[q] = NoKey

NetInit ==
    /\ netPc = [c \in Calls |-> "idle"]
    /\ key = [c \in Calls |-> NoKey]
    /\ query = [c \in Calls |-> NoQuery]
    /\ status = [q \in Queries |-> "none"]
    /\ about = [q \in Queries |-> NoKey]
    /\ inflight = [k \in Keys |-> NoQuery]
    /\ cache = [k \in Keys |-> NoEntry]

-----------------------------------------------------------------------------
(* The cache.                                                              *)

Present == {k \in Keys : cache[k].answer # "none"}

Live(k) ==
    \/ cache[k].answer = "found" /\ cache[k].age <= SuccessTTL
    \/ cache[k].answer = "failed" /\ cache[k].age <= FailureTTL

Crowded == Cardinality(Present) >= CacheLimit

Oldest == {k \in Present : \A other \in Present : cache[other].age <= cache[k].age}

(* The answer about k goes in. In a full cache one of the oldest entries   *)
(* makes room, even when k has an entry already.                           *)
Remember(k, outcome) ==
    LET with(entries) == [entries EXCEPT ![k] = [answer |-> outcome, age |-> 0]]
    IN  \/ ~Crowded /\ cache' = with(cache)
        \/ Crowded /\ \E old \in Oldest : cache' = with([cache EXCEPT ![old] = NoEntry])

ClearCache ==
    /\ cache' = [k \in Keys |-> NoEntry]
    /\ UNCHANGED <<callVars, queryVars, inflight>>

NetTick ==
    /\ cache' = [k \in Keys |-> IF cache[k].answer = "none" THEN NoEntry
                                ELSE [cache[k] EXCEPT !.age = IF @ < MaxAge THEN @ + 1 ELSE @]]
    /\ UNCHANGED <<callVars, queryVars, inflight>>

-----------------------------------------------------------------------------
(* A call.                                                                 *)

NetGoto(c, l) == netPc' = [netPc EXCEPT ![c] = l]

Waiters(q) == {c \in Calls : query[c] = q}

(* A query that has ended goes with the last call that waited for it. *)
Dispose(q) ==
    /\ status' = [status EXCEPT ![q] = "none"]
    /\ about' = [about EXCEPT ![q] = NoKey]

Return(c) ==
    /\ NetGoto(c, "idle")
    /\ key' = [key EXCEPT ![c] = NoKey]
    /\ query' = [query EXCEPT ![c] = NoQuery]
    /\ IF status[query[c]] = "finished" /\ Waiters(query[c]) = {c}
         THEN Dispose(query[c])
         ELSE UNCHANGED queryVars
    /\ UNCHANGED <<inflight, cache>>

Call(c, k) ==
    /\ netPc[c] = "idle"
    /\ NetGoto(c, "cached")
    /\ key' = [key EXCEPT ![c] = k]
    /\ UNCHANGED <<query, queryVars, inflight, cache>>

(* An answer past its time is removed by whoever meets it. *)
Cached(c) ==
    /\ netPc[c] = "cached"
    /\ \/ /\ Live(key[c])
          /\ NetGoto(c, "idle")
          /\ key' = [key EXCEPT ![c] = NoKey]
          /\ UNCHANGED cache
       \/ /\ ~Live(key[c])
          /\ NetGoto(c, "join")
          /\ cache' = [cache EXCEPT ![key[c]] = NoEntry]
          /\ UNCHANGED key
    /\ UNCHANGED <<query, queryVars, inflight>>

WaitFor(c, q) ==
    /\ query' = [query EXCEPT ![c] = q]
    /\ NetGoto(c, "wait")
    /\ UNCHANGED <<key, cache>>

Join(c) ==
    /\ netPc[c] = "join"
    /\ inflight[key[c]] # NoQuery
    /\ WaitFor(c, inflight[key[c]])
    /\ UNCHANGED <<queryVars, inflight>>

(* Mutant of BeginQuery: the query is not listed. *)
BeginQueryUnlisted(c) ==
    /\ netPc[c] = "join"
    /\ inflight[key[c]] = NoQuery
    /\ \E q \in Queries :
           /\ status[q] = "none"
           /\ status' = [status EXCEPT ![q] = "asking"]
           /\ about' = [about EXCEPT ![q] = key[c]]
           /\ WaitFor(c, q)
    /\ UNCHANGED inflight

BeginQuery(c) ==
    /\ netPc[c] = "join"
    /\ inflight[key[c]] = NoQuery
    /\ \E q \in Queries :
           /\ status[q] = "none"
           /\ status' = [status EXCEPT ![q] = "asking"]
           /\ about' = [about EXCEPT ![q] = key[c]]
           /\ inflight' = [inflight EXCEPT ![key[c]] = q]
           /\ WaitFor(c, q)

(* Under the lock of the Pending: take the answer, or sleep. *)
Wait(c) ==
    /\ netPc[c] = "wait"
    /\ \/ status[query[c]] = "finished" /\ Return(c)
       \/ /\ status[query[c]] # "finished"
          /\ NetGoto(c, "asleep")
          /\ UNCHANGED <<key, query, queryVars, inflight, cache>>

(* The deadline, before or during the sleep; an answer that is there goes  *)
(* before it.                                                              *)
TimeOut(c) ==
    /\ netPc[c] \in {"wait", "asleep"}
    /\ status[query[c]] # "finished"
    /\ Return(c)

-----------------------------------------------------------------------------
(* The thread of a query. Nobody reads the cache or begins a query between *)
(* the two halves of store: it holds the lock of the cache all along.      *)

(* Mutant of Store: the mark "under way" stays. *)
StoreKeepsMark(q) ==
    /\ status[q] = "asking"
    /\ \E outcome \in Outcomes : Remember(about[q], outcome)
    /\ status' = [status EXCEPT ![q] = "stored"]
    /\ UNCHANGED <<callVars, about, inflight>>

Store(q) ==
    /\ status[q] = "asking"
    /\ \E outcome \in Outcomes : Remember(about[q], outcome)
    /\ inflight' = [inflight EXCEPT ![about[q]] = NoQuery]
    /\ status' = [status EXCEPT ![q] = "stored"]
    /\ UNCHANGED <<callVars, about>>

Asleep(q) == {c \in Calls : netPc[c] = "asleep" /\ query[c] = q}

(* Nobody waits any more: the thread ends, and its Pending with it. *)
EndQuery(q) ==
    /\ status[q] = "stored"
    /\ Waiters(q) = {}
    /\ Dispose(q)
    /\ UNCHANGED <<callVars, inflight, cache>>

(* Mutant of HandOver: notify_one. *)
HandOverToOne(q) ==
    /\ status[q] = "stored"
    /\ Waiters(q) # {}
    /\ status' = [status EXCEPT ![q] = "finished"]
    /\ \/ Asleep(q) = {} /\ UNCHANGED netPc
       \/ \E c \in Asleep(q) : NetGoto(c, "wait")
    /\ UNCHANGED <<key, query, about, inflight, cache>>

(* The answer is handed over, and all who sleep are woken. *)
HandOver(q) ==
    /\ status[q] = "stored"
    /\ Waiters(q) # {}
    /\ status' = [status EXCEPT ![q] = "finished"]
    /\ netPc' = [c \in Calls |-> IF c \in Asleep(q) THEN "wait" ELSE netPc[c]]
    /\ UNCHANGED <<key, query, about, inflight, cache>>

-----------------------------------------------------------------------------
NetNext ==
    \/ \E c \in Calls, k \in Keys : Call(c, k)
    \/ \E c \in Calls : Cached(c) \/ Join(c) \/ BeginQuery(c) \/ Wait(c) \/ TimeOut(c)
    \/ \E q \in Queries : Store(q) \/ HandOver(q) \/ EndQuery(q)
    \/ ClearCache
    \/ NetTick

NetSpec == NetInit /\ [][NetNext]_netVars

(* Threads go on, and the system's resolver answers some day. Deadlines    *)
(* are given no fairness: a call must not need its own to come back. The   *)
(* strong fairness only makes up for the bound on Queries: the system has  *)
(* always one more thread.                                                 *)
NetFairness ==
    /\ \A c \in Calls : WF_netVars(Cached(c) \/ Wait(c)) /\ SF_netVars(Join(c) \/ BeginQuery(c))
    /\ \A q \in Queries : WF_netVars(Store(q) \/ HandOver(q) \/ EndQuery(q))

NetFairSpec == NetSpec /\ NetFairness

-----------------------------------------------------------------------------
(* Properties                                                              *)

(* At most one query per key is under way, however calls interleave.       *)
OneQueryPerKey ==
    \A p, q \in Queries :
        status[p] = "asking" /\ status[q] = "asking" /\ about[p] = about[q] => p = q

(* Whoever waits, waits for an answer about its own key that is still to   *)
(* come or there; and a key marked as under way really is: otherwise later *)
(* calls would get that one answer for ever, whatever became of its age.   *)
WaitsAreForAnswers ==
    /\ \A c \in Calls : query[c] # NoQuery =>
          about[query[c]] = key[c]
    /\ \A k \in Keys : inflight[k] # NoQuery =>
          status[inflight[k]] = "asking" /\ about[inflight[k]] = k

(* The cache does not outgrow its limit.                                   *)
CacheWithinLimit == Cardinality(Present) <= CacheLimit

(* No wake-up is lost: a call that sleeps has an answer still to come, and *)
(* is among those whom the end of its query will wake.                     *)
SleepersWillBeWoken ==
    \A c \in Calls : netPc[c] = "asleep" =>
        status[query[c]] \in {"asking", "stored"} /\ about[query[c]] = key[c]

(* A call comes back when the answer does, without its deadline: nobody    *)
(* sleeps through the end of a query.                                      *)
CallsComeBack == \A c \in Calls : []<>(netPc[c] = "idle")
===============================================================================
