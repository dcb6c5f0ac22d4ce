---------------------------- MODULE EmailLimiter ----------------------------
(***************************************************************************)
(* The check of e-mail addresses at ZeroBounce, whose paid quota other     *)
(* programs share: the sliding window of each user, kept in the memory of  *)
(* one replica, and the call, which leaves once the credential was read.   *)
(* A request is its own identifier; what is in the array of a user is the  *)
(* set of the requests whose timestamps are there.                         *)
(***************************************************************************)
EXTENDS Integers, FiniteSets

CONSTANTS
  Checks,        \* requests for a check
  UserOf,        \* UserOf[r]: who asks for check r
  Window,        \* WINDOW_MS
  MaxPerWindow,  \* MAX_REQUESTS_PER_WINDOW
  ReadTime,      \* reading the credential takes at most this long
  MaxClock       \* bound: the clock

ASSUME LimiterAssumption ==
  /\ IsFiniteSet(Checks) /\ DOMAIN UserOf = Checks
  /\ Window \in Nat /\ MaxPerWindow \in Nat /\ ReadTime \in Nat /\ MaxClock \in Nat

VARIABLES
  clock,   \* Date.now(), which does not go back
  hits,    \* hitsByUser: the requests whose timestamps are kept
  at,      \* at[r]: the timestamp of request r
  stage,   \* stage[r]: "new", "reading" the credential, "called", "over"
  called   \* called[r]: history, when ZeroBounce was called for r

limiterVars == <<clock, hits, at, stage, called>>

Accepted == {r \in Checks : stage[r] # "new" /\ stage[r] # "refused"}

\* Mutant: a timestamp leaves the array one tick early.
RecentHitsEarly(u) == {r \in hits : UserOf[r] = u /\ at[r] > clock - Window + 1}

\* recentHits: filter(timestamp > windowStart).
RecentHits(u) == {r \in hits : UserOf[r] = u /\ at[r] > clock - Window}

\* consume(): the array is pruned, whatever the answer.
Consume(r) ==
  LET u == UserOf[r]
      pruned == {q \in hits : UserOf[q] # u} \cup RecentHits(u)
      accepted == Cardinality(RecentHits(u)) < MaxPerWindow
  IN /\ stage[r] = "new"
     /\ \/ accepted /\ hits' = pruned \cup {r} /\ stage' = [stage EXCEPT ![r] = "reading"]
        \/ ~accepted /\ hits' = pruned /\ stage' = [stage EXCEPT ![r] = "refused"]
     /\ at' = [at EXCEPT ![r] = clock]
     /\ UNCHANGED <<clock, called>>

\* The credential is there: fetch(url).
CallZeroBounce(r) ==
  /\ stage[r] = "reading"
  /\ stage' = [stage EXCEPT ![r] = "called"]
  /\ called' = [called EXCEPT ![r] = clock]
  /\ UNCHANGED <<clock, hits, at>>

\* There is none, or it cannot be read: the check ends without a call, and what
\* it consumed stays consumed.
NoCall(r) ==
  /\ stage[r] = "reading"
  /\ stage' = [stage EXCEPT ![r] = "over"]
  /\ UNCHANGED <<clock, hits, at, called>>

LimiterTick ==
  /\ clock < MaxClock
  /\ \A r \in Checks : stage[r] = "reading" => clock < at[r] + ReadTime
  /\ clock' = clock + 1
  /\ UNCHANGED <<hits, at, stage, called>>

LimiterInit ==
  /\ clock = 0
  /\ hits = {}
  /\ at = [r \in Checks |-> 0]
  /\ stage = [r \in Checks |-> "new"]
  /\ called = [r \in Checks |-> 0]

LimiterNext ==
  \/ \E r \in Checks : Consume(r) \/ CallZeroBounce(r) \/ NoCall(r)
  \/ LimiterTick

LimiterSpec == LimiterInit /\ [][LimiterNext]_limiterVars
-----------------------------------------------------------------------------
LimiterTypeOK ==
  /\ clock \in 0 .. MaxClock
  /\ hits \subseteq Checks
  /\ at \in [Checks -> 0 .. MaxClock]
  /\ stage \in [Checks -> {"new", "reading", "called", "over", "refused"}]
  /\ called \in [Checks -> 0 .. MaxClock]

\* The calls made for u in the w milliseconds that end at t.
CallsIn(u, t, w) ==
  {r \in Checks : stage[r] = "called" /\ UserOf[r] = u /\ t - w < called[r] /\ called[r] <= t}

(***************************************************************************)
(* A replica calls ZeroBounce for one user at most MaxPerWindow times      *)
(* within a window, less the time between consume() and the call           *)
(* (email-validation-rate-limiter.service.ts, 24-39).                      *)
(***************************************************************************)
QuotaRespected ==
  \A u \in {UserOf[r] : r \in Checks}, t \in 0 .. MaxClock :
    Cardinality(CallsIn(u, t, Window - ReadTime)) <= MaxPerWindow

=============================================================================
