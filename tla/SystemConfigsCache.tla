------------------------- MODULE SystemConfigsCache -------------------------
(***************************************************************************)
(* SystemConfigsService: the in-process cache of public.system_configs, a  *)
(* table another program writes.  A request reads the clock once, asks the *)
(* database for the keys that are absent or expired at that instant, and   *)
(* answers every key from the cache.  Nothing joins two loads of one key:  *)
(* the answers of overlapping queries are stored in the order they arrive, *)
(* so an older value may replace a newer one.                              *)
(*                                                                         *)
(* A value is represented by the instant at which the database evaluated   *)
(* the query that read it, whatever the table held then (a missing key     *)
(* included: null is cached like any other value).                         *)
(***************************************************************************)
EXTENDS Integers

CONSTANTS
  Keys,        \* configuration keys
  Requests,    \* concurrent requests in one process
  TTL,         \* CACHE_TTL_MS, in ticks
  MaxLatency,  \* what a query takes at most, in ticks
  Instants,    \* readings of the clock
  None         \* no cache entry; never answered

ASSUME CacheAssumption ==
  /\ TTL \in Nat
  /\ MaxLatency \in Nat
  /\ MaxLatency < TTL
  /\ Instants \subseteq Nat
  /\ 0 \in Instants
  /\ None \notin Instants
  /\ None \notin [readAt : Instants, expiresAt : Nat]

VARIABLES
  now,     \* the clock
  cache,   \* cache[k]: the entry of k, or None
  pc,      \* pc[r]: "idle", "querying" or "loaded"
  at,      \* at[r]: the clock when r read it
  keys,    \* keys[r]: what r was asked for
  load,    \* load[r]: the keys r asks the database for
  read,    \* read[r]: when the database evaluated the query of r
  answer   \* answer[r]: the values of the last answer of r

vars == <<now, cache, pc, at, keys, load, read, answer>>

-----------------------------------------------------------------------------
Entries == [readAt : Instants, expiresAt : Nat]

\* Mutant: an entry is still used at the instant it expires.
ExpiredAfter(k, t) == cache[k] # None => cache[k].expiresAt < t

Expired(k, t) == cache[k] # None => cache[k].expiresAt <= t

\* this.cache.get(key)?.value ?? null
Value(entry) == IF entry = None THEN None ELSE entry.readAt

Receive(r, ks) ==
  /\ pc[r] = "idle"
  /\ at' = [at EXCEPT ![r] = now]
  /\ keys' = [keys EXCEPT ![r] = ks]

\* Everything asked for is cached: no query, an immediate answer.
AnswerFromCache(r, ks) ==
  /\ Receive(r, ks)
  /\ \A k \in ks : ~Expired(k, now)
  /\ answer' = [answer EXCEPT ![r] = [k \in Keys |-> Value(cache[k])]]
  /\ UNCHANGED <<now, cache, pc, load, read>>

\* Mutant: every expired key is refreshed, asked for or not.
StartLoadAll(r, ks) ==
  /\ Receive(r, ks)
  /\ \E k \in ks : Expired(k, now)
  /\ load' = [load EXCEPT ![r] = {k \in Keys : Expired(k, now)}]
  /\ pc' = [pc EXCEPT ![r] = "querying"]
  /\ UNCHANGED <<now, cache, read, answer>>

StartLoad(r, ks) ==
  /\ Receive(r, ks)
  /\ \E k \in ks : Expired(k, now)
  /\ load' = [load EXCEPT ![r] = {k \in ks : Expired(k, now)}]
  /\ pc' = [pc EXCEPT ![r] = "querying"]
  /\ UNCHANGED <<now, cache, read, answer>>

\* The database evaluates the SELECT; its answer is on the way.
Query(r) ==
  /\ pc[r] = "querying"
  /\ read' = [read EXCEPT ![r] = now]
  /\ pc' = [pc EXCEPT ![r] = "loaded"]
  /\ UNCHANGED <<now, cache, at, keys, load, answer>>

\* Mutant: the lifetime of the entries counts from the arrival of the answer.
StoreFromArrival(r) ==
  /\ pc[r] = "loaded"
  /\ cache' = [k \in Keys |-> IF k \in load[r]
                              THEN [readAt |-> read[r], expiresAt |-> now + TTL]
                              ELSE cache[k]]
  /\ answer' = [answer EXCEPT ![r] = [k \in Keys |-> Value(cache'[k])]]
  /\ pc' = [pc EXCEPT ![r] = "idle"]
  /\ UNCHANGED <<now, at, keys, load, read>>

\* The answer arrives: the loaded keys are stored, every key is read from the cache.
Store(r) ==
  /\ pc[r] = "loaded"
  /\ cache' = [k \in Keys |-> IF k \in load[r]
                              THEN [readAt |-> read[r], expiresAt |-> at[r] + TTL]
                              ELSE cache[k]]
  /\ answer' = [answer EXCEPT ![r] = [k \in Keys |-> Value(cache'[k])]]
  /\ pc' = [pc EXCEPT ![r] = "idle"]
  /\ UNCHANGED <<now, at, keys, load, read>>

\* The query is rejected: the caller gets the error, the cache keeps what it had.
QueryFails(r) ==
  /\ pc[r] # "idle"
  /\ pc' = [pc EXCEPT ![r] = "idle"]
  /\ keys' = [keys EXCEPT ![r] = {}]
  /\ UNCHANGED <<now, cache, at, load, read, answer>>

\* The process restarts: nothing is cached and no request survives.
Restart ==
  /\ cache' = [k \in Keys |-> None]
  /\ pc' = [r \in Requests |-> "idle"]
  /\ keys' = [r \in Requests |-> {}]
  /\ UNCHANGED <<now, at, load, read, answer>>

\* Time passes; a query in flight is answered, or fails, within MaxLatency.
Tick ==
  /\ now + 1 \in Instants
  /\ \A r \in Requests : pc[r] # "idle" => now < at[r] + MaxLatency
  /\ now' = now + 1
  /\ UNCHANGED <<cache, pc, at, keys, load, read, answer>>

Init ==
  /\ now = 0
  /\ cache = [k \in Keys |-> None]
  /\ pc = [r \in Requests |-> "idle"]
  /\ at = [r \in Requests |-> 0]
  /\ keys = [r \in Requests |-> {}]
  /\ load = [r \in Requests |-> {}]
  /\ read = [r \in Requests |-> 0]
  /\ answer = [r \in Requests |-> [k \in Keys |-> None]]

Next ==
  \/ \E r \in Requests, ks \in SUBSET Keys : AnswerFromCache(r, ks) \/ StartLoad(r, ks)
  \/ \E r \in Requests : Query(r) \/ Store(r) \/ QueryFails(r)
  \/ Restart
  \/ Tick

Spec == Init /\ [][Next]_vars
-----------------------------------------------------------------------------
\* A request only loads keys it was asked for, and it is in flight for a bounded time.
TypeOK ==
  /\ now \in Instants
  /\ cache \in [Keys -> Entries \cup {None}]
  /\ pc \in [Requests -> {"idle", "querying", "loaded"}]
  /\ at \in [Requests -> Instants]
  /\ keys \in [Requests -> SUBSET Keys]
  /\ load \in [Requests -> SUBSET Keys]
  /\ read \in [Requests -> Instants]
  /\ answer \in [Requests -> [Keys -> Instants \cup {None}]]
  /\ \A r \in Requests :
       pc[r] # "idle" => load[r] \subseteq keys[r] /\ at[r] <= now /\ now <= at[r] + MaxLatency

(***************************************************************************)
(* "Changes [...] may therefore take up to five minutes to appear"         *)
(* (docs/architecture/system-configs.md): each value of an answer was in   *)
(* the table less than TTL before the request arrived, or later, even when *)
(* overlapping loads overwrite each other; and a key is answered as        *)
(* missing only when the database said so.                                 *)
(***************************************************************************)
AnswersFresh ==
  \A r \in Requests : pc[r] = "idle" =>
    \A k \in keys[r] : answer[r][k] # None /\ answer[r][k] + TTL > at[r]
=============================================================================
