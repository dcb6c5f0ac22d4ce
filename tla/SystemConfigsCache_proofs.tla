---------------------- MODULE SystemConfigsCache_proofs ----------------------
(***************************************************************************)
(* Freshness of the configuration cache, for every number of keys and      *)
(* requests, every lifetime, and every latency below it.                   *)
(***************************************************************************)
EXTENDS SystemConfigsCache, TLAPS

\* An entry was read before now and expires at most TTL after it was read.
EntryRecent(k) ==
  cache[k] # None => /\ cache[k].readAt <= now
                     /\ cache[k].expiresAt <= cache[k].readAt + TTL

\* The keys a request in flight does not load have entries young enough for it,
\* whichever overlapping load stored them last.
AliveFor(r, k) == cache[k] # None /\ cache[k].readAt + TTL > at[r]

InFlight(r) ==
  /\ pc[r] = "loaded" => at[r] <= read[r] /\ read[r] <= now
  /\ pc[r] # "idle" => \A k \in keys[r] \ load[r] : AliveFor(r, k)

Inv ==
  /\ TypeOK
  /\ \A k \in Keys : EntryRecent(k)
  /\ \A r \in Requests : InFlight(r)
  /\ AnswersFresh

\* The readings of the clock are natural numbers.
LEMMA Readings ==
  ASSUME TypeOK
  PROVE  /\ now \in Nat
         /\ \A r \in Requests : at[r] \in Nat /\ read[r] \in Nat
         /\ \A k \in Keys : cache[k] # None => cache[k].readAt \in Nat /\ cache[k].expiresAt \in Nat
<1>1. \A i \in Instants : i \in Nat
  BY CacheAssumption
<1>2. \A r \in Requests : at[r] \in Instants /\ read[r] \in Instants
  BY DEF TypeOK
<1>3. ASSUME NEW k \in Keys, cache[k] # None
      PROVE  cache[k].readAt \in Instants /\ cache[k].expiresAt \in Nat
  <2>1. cache[k] \in Entries
    BY <1>3 DEF TypeOK
  <2> QED
    BY <2>1 DEF Entries
<1> QED
  BY <1>1, <1>2, <1>3 DEF TypeOK

\* What r stores is an entry, hence not None.
LEMMA StoredEntry ==
  ASSUME TypeOK, NEW r \in Requests
  PROVE  /\ [readAt |-> read[r], expiresAt |-> at[r] + TTL] \in Entries
         /\ [readAt |-> read[r], expiresAt |-> at[r] + TTL] # None
<1>1. at[r] + TTL \in Nat
  <2>1. at[r] \in Nat /\ TTL \in Nat
    BY Readings, CacheAssumption
  <2> QED
    BY <2>1
<1>2. read[r] \in Instants
  BY DEF TypeOK
<1>3. [readAt |-> read[r], expiresAt |-> at[r] + TTL] \in Entries
  BY <1>1, <1>2 DEF Entries
<1> QED
  BY <1>3, CacheAssumption DEF Entries

LEMMA TypesInitially == Init => TypeOK
  BY CacheAssumption DEF Init, TypeOK

LEMMA TypesKept == TypeOK /\ [Next]_vars => TypeOK'
<1> SUFFICES ASSUME TypeOK, [Next]_vars PROVE TypeOK'
  OBVIOUS
<1> USE CacheAssumption DEF TypeOK, Entries
<1>1. ASSUME NEW r \in Requests, NEW ks \in SUBSET Keys, AnswerFromCache(r, ks)
      PROVE  TypeOK'
  BY <1>1 DEF AnswerFromCache, Receive, Value
<1>2. ASSUME NEW r \in Requests, NEW ks \in SUBSET Keys, StartLoad(r, ks)
      PROVE  TypeOK'
  BY <1>2 DEF StartLoad, Receive
<1>3. ASSUME NEW r \in Requests, Query(r)
      PROVE  TypeOK'
  BY <1>3 DEF Query
<1>4. ASSUME NEW r \in Requests, Store(r)
      PROVE  TypeOK'
  <2>1. [readAt |-> read[r], expiresAt |-> at[r] + TTL] \in Entries
    BY StoredEntry
  <2>2. cache' \in [Keys -> Entries \cup {None}]
    BY <1>4, <2>1 DEF Store
  <2>3. [k \in Keys |-> Value(cache'[k])] \in [Keys -> Instants \cup {None}]
    BY <2>2 DEF Value
  <2> QED
    BY <1>4, <2>2, <2>3 DEF Store
<1>5. ASSUME NEW r \in Requests, QueryFails(r)
      PROVE  TypeOK'
  BY <1>5 DEF QueryFails
<1>6. CASE Restart
  BY <1>6 DEF Restart
<1>7. CASE Tick
  <2>1. \A r \in Requests : pc[r] # "idle" => at[r] <= now + 1 /\ now + 1 <= at[r] + MaxLatency
    <3>1. now \in Nat /\ MaxLatency \in Nat /\ \A r \in Requests : at[r] \in Nat
      BY Readings
    <3> QED
      BY <1>7, <3>1 DEF Tick
  <2> QED
    BY <1>7, <2>1 DEF Tick
<1>8. CASE UNCHANGED vars
  BY <1>8 DEF vars
<1> QED
  BY <1>1, <1>2, <1>3, <1>4, <1>5, <1>6, <1>7, <1>8 DEF Next

LEMMA EntriesKept ==
  ASSUME TypeOK, [Next]_vars, \A r \in Requests : InFlight(r), \A k \in Keys : EntryRecent(k)
  PROVE  \A k \in Keys : EntryRecent(k)'
<1> SUFFICES ASSUME NEW k \in Keys PROVE EntryRecent(k)'
  OBVIOUS
<1> USE CacheAssumption DEF TypeOK, Entries, EntryRecent
<1>1. ASSUME NEW r \in Requests, Store(r)
      PROVE  EntryRecent(k)'
  <2>1. CASE k \in load[r]
    <3>1. cache'[k] = [readAt |-> read[r], expiresAt |-> at[r] + TTL] /\ now' = now
      BY <1>1, <2>1 DEF Store
    <3>2. at[r] <= read[r] /\ read[r] <= now
      BY <1>1 DEF Store, InFlight
    <3>3. at[r] \in Nat /\ read[r] \in Nat
      BY Readings
    <3> QED
      BY <3>1, <3>2, <3>3
  <2>2. CASE k \notin load[r]
    BY <1>1, <2>2 DEF Store
  <2> QED
    BY <2>1, <2>2
<1>2. CASE Restart
  BY <1>2 DEF Restart
<1>3. CASE Tick
  BY <1>3, Readings DEF Tick
<1>4. CASE UNCHANGED <<cache, now>>
  BY <1>4
<1> QED
  BY <1>1, <1>2, <1>3, <1>4
  DEF Next, vars, AnswerFromCache, StartLoad, Query, QueryFails

(***************************************************************************)
(* A load in flight started less than TTL ago, so the entry it stores is   *)
(* young enough for everybody who arrived meanwhile, even when it replaces *)
(* a younger one.                                                          *)
(***************************************************************************)
LEMMA StoredEntryAlive ==
  ASSUME TypeOK, NEW r \in Requests, NEW q \in Requests,
         Store(q), InFlight(q), pc[r] # "idle", NEW k \in load[q], k \in Keys
  PROVE  AliveFor(r, k)'
<1> USE CacheAssumption DEF TypeOK
<1>1. cache'[k] = [readAt |-> read[q], expiresAt |-> at[q] + TTL] /\ at' = at
  BY DEF Store
<1>2. cache'[k] # None
  BY <1>1, StoredEntry
<1>3. at[q] <= read[q] /\ now <= at[q] + MaxLatency /\ at[r] <= now
  BY DEF Store, InFlight
<1>4. read[q] + TTL > at[r]
  <2>1. at[q] \in Nat /\ read[q] \in Nat /\ at[r] \in Nat /\ now \in Nat
    BY Readings
  <2> QED
    BY <1>3, <2>1
<1> QED
  BY <1>1, <1>2, <1>4 DEF AliveFor

LEMMA FlightKept ==
  ASSUME TypeOK, TypeOK', [Next]_vars,
         \A r \in Requests : InFlight(r), \A k \in Keys : EntryRecent(k)
  PROVE  \A r \in Requests : InFlight(r)'
<1> SUFFICES ASSUME NEW r \in Requests PROVE InFlight(r)'
  OBVIOUS
<1> USE CacheAssumption DEF TypeOK
<1>1. ASSUME NEW q \in Requests, NEW ks \in SUBSET Keys, AnswerFromCache(q, ks)
      PROVE  InFlight(r)'
  BY <1>1 DEF AnswerFromCache, Receive, InFlight, AliveFor
<1>2. ASSUME NEW q \in Requests, NEW ks \in SUBSET Keys, StartLoad(q, ks)
      PROVE  InFlight(r)'
  <2>1. CASE q = r
    <3>1. \A k \in ks \ load'[r] : k \in Keys /\ ~Expired(k, now)
      BY <1>2, <2>1 DEF StartLoad
    <3>2. \A k \in ks \ load'[r] : cache[k] # None /\ cache[k].readAt + TTL > now
      <4> SUFFICES ASSUME NEW k \in ks \ load'[r]
                   PROVE  cache[k] # None /\ cache[k].readAt + TTL > now
        OBVIOUS
      <4>1. cache[k] # None /\ ~(cache[k].expiresAt <= now)
        BY <3>1 DEF Expired
      <4>2. now \in Nat /\ cache[k].readAt \in Nat /\ cache[k].expiresAt \in Nat /\ k \in Keys
        BY <3>1, <4>1, Readings
      <4>3. cache[k].expiresAt <= cache[k].readAt + TTL
        BY <4>1, <4>2 DEF EntryRecent
      <4> QED
        BY <4>1, <4>2, <4>3
    <3>3. at'[r] = now /\ keys'[r] = ks /\ cache' = cache /\ pc'[r] = "querying"
      BY <1>2, <2>1 DEF StartLoad, Receive
    <3> QED
      BY <3>2, <3>3 DEF InFlight, AliveFor
  <2>2. CASE q # r
    BY <1>2, <2>2 DEF StartLoad, Receive, InFlight, AliveFor
  <2> QED
    BY <2>1, <2>2
<1>3. ASSUME NEW q \in Requests, Query(q)
      PROVE  InFlight(r)'
  BY <1>3 DEF Query, InFlight, AliveFor
<1>4. ASSUME NEW q \in Requests, Store(q)
      PROVE  InFlight(r)'
  <2>1. CASE q = r
    BY <1>4, <2>1 DEF Store, InFlight
  <2>2. CASE q # r
    <3>1. pc'[r] = pc[r] /\ at' = at /\ read' = read /\ now' = now
          /\ keys' = keys /\ load' = load
      BY <1>4, <2>2 DEF Store
    <3>2. ASSUME pc[r] # "idle", NEW k \in keys[r] \ load[r]
          PROVE  AliveFor(r, k)'
      <4>1. CASE k \in load[q]
        BY <1>4, <3>2, <4>1, StoredEntryAlive
      <4>2. CASE k \notin load[q]
        BY <1>4, <3>1, <3>2, <4>2 DEF Store, InFlight, AliveFor
      <4> QED
        BY <4>1, <4>2
    <3> QED
      BY <3>1, <3>2 DEF InFlight
  <2> QED
    BY <2>1, <2>2
<1>5. ASSUME NEW q \in Requests, QueryFails(q)
      PROVE  InFlight(r)'
  BY <1>5 DEF QueryFails, InFlight, AliveFor
<1>6. CASE Restart
  BY <1>6 DEF Restart, InFlight
<1>7. CASE Tick
  BY <1>7, Readings DEF Tick, InFlight, AliveFor
<1>8. CASE UNCHANGED vars
  BY <1>8 DEF vars, InFlight, AliveFor
<1> QED
  BY <1>1, <1>2, <1>3, <1>4, <1>5, <1>6, <1>7, <1>8 DEF Next

LEMMA FreshnessKept ==
  ASSUME TypeOK, [Next]_vars, AnswersFresh,
         \A r \in Requests : InFlight(r), \A k \in Keys : EntryRecent(k)
  PROVE  AnswersFresh'
<1> SUFFICES ASSUME NEW r \in Requests, pc'[r] = "idle", NEW k \in keys'[r]
             PROVE  answer'[r][k] # None /\ answer'[r][k] + TTL > at'[r]
  BY DEF AnswersFresh
<1> USE CacheAssumption DEF TypeOK, Entries
<1>1. ASSUME NEW q \in Requests, NEW ks \in SUBSET Keys, AnswerFromCache(q, ks), q = r
      PROVE  answer'[r][k] # None /\ answer'[r][k] + TTL > at'[r]
  <2>1. k \in Keys /\ ~Expired(k, now) /\ at'[r] = now
    BY <1>1 DEF AnswerFromCache, Receive
  <2>2. cache[k] # None /\ answer'[r][k] = cache[k].readAt
    BY <1>1, <2>1 DEF AnswerFromCache, Expired, Value
  <2>3. cache[k].expiresAt <= cache[k].readAt + TTL /\ ~(cache[k].expiresAt <= now)
    BY <2>1, <2>2 DEF Expired, EntryRecent
  <2>4. now \in Nat /\ cache[k].readAt \in Nat /\ cache[k].expiresAt \in Nat
    BY <2>1, <2>2, Readings
  <2> QED
    BY <2>1, <2>2, <2>3, <2>4
<1>2. ASSUME NEW q \in Requests, Store(q), q = r
      PROVE  answer'[r][k] # None /\ answer'[r][k] + TTL > at'[r]
  <2>1. at' = at /\ k \in Keys /\ k \in keys[r] /\ answer'[r][k] = Value(cache'[k])
    BY <1>2 DEF Store
  <2>2. CASE k \in load[r]
    <3>1. AliveFor(r, k)'
      BY <1>2, <2>1, <2>2, StoredEntryAlive DEF Store
    <3> QED
      BY <2>1, <2>2, <3>1, <1>2 DEF AliveFor, Value, Store
  <2>3. CASE k \notin load[r]
    <3>1. AliveFor(r, k) /\ cache'[k] = cache[k]
      BY <1>2, <2>1, <2>3 DEF Store, InFlight
    <3> QED
      BY <2>1, <3>1 DEF AliveFor, Value
  <2> QED
    BY <2>2, <2>3
<1>3. CASE pc[r] = "idle" /\ keys'[r] = keys[r] /\ answer'[r] = answer[r] /\ at'[r] = at[r]
  BY <1>3 DEF AnswersFresh
<1>4. ASSUME NEW q \in Requests, NEW ks \in SUBSET Keys, AnswerFromCache(q, ks), q # r
      PROVE  answer'[r][k] # None /\ answer'[r][k] + TTL > at'[r]
  BY <1>3, <1>4 DEF AnswerFromCache, Receive
<1>5. ASSUME NEW q \in Requests, NEW ks \in SUBSET Keys, StartLoad(q, ks)
      PROVE  answer'[r][k] # None /\ answer'[r][k] + TTL > at'[r]
  BY <1>3, <1>5 DEF StartLoad, Receive
<1>6. ASSUME NEW q \in Requests, Query(q) \/ QueryFails(q)
      PROVE  answer'[r][k] # None /\ answer'[r][k] + TTL > at'[r]
  BY <1>3, <1>6 DEF Query, QueryFails
<1>7. ASSUME NEW q \in Requests, Store(q), q # r
      PROVE  answer'[r][k] # None /\ answer'[r][k] + TTL > at'[r]
  BY <1>3, <1>7 DEF Store
<1>8. CASE Restart \/ Tick \/ UNCHANGED vars
  BY <1>3, <1>8 DEF Restart, Tick, vars
<1> QED
  BY <1>1, <1>2, <1>4, <1>5, <1>6, <1>7, <1>8 DEF Next

LEMMA InvHolds == Spec => []Inv
<1>1. Init => Inv
  BY CacheAssumption, TypesInitially DEF Init, Inv, EntryRecent, InFlight, AnswersFresh
<1>2. Inv /\ [Next]_vars => Inv'
  BY TypesKept, EntriesKept, FlightKept, FreshnessKept DEF Inv
<1> QED
  BY <1>1, <1>2, PTL DEF Spec

\* Type correctness, and the bound on what a request loads and how long it waits.
THEOREM CacheTypes == Spec => []TypeOK
<1>1. Inv => TypeOK
  BY DEF Inv
<1> QED
  BY <1>1, InvHolds, PTL

(***************************************************************************)
(* No answer is older than TTL (SystemConfigsService.getValues), although  *)
(* overlapping loads store their answers in any order.                     *)
(***************************************************************************)
THEOREM AnswersAreFresh == Spec => []AnswersFresh
<1>1. Inv => AnswersFresh
  BY DEF Inv
<1> QED
  BY <1>1, InvHolds, PTL
=============================================================================
