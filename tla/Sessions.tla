------------------------------ MODULE Sessions ------------------------------
(***************************************************************************)
(* From the registry of users to a draft: a login or a refresh reads the   *)
(* user, then the permissions, and signs them into tokens no request ever  *)
(* looks up again; a request passes the guard on those permissions, asks   *)
(* the gate of the pending tasks and only then opens its transaction.      *)
(* Another program changes the user and the groups at any moment, and      *)
(* tasks fall due (ActivityQueue).  One user, whose browser holds one pair *)
(* of tokens and has several requests in course.                           *)
(*                                                                         *)
(* Times are ages, in ticks, and saturate where nothing depends on them.   *)
(***************************************************************************)
EXTENDS Hierarchy, Integers

CONSTANTS
  Calls,
  Keysets,     \* the permissions the groups of the user may give
  AccessLife,  \* jwt.accessExpiresIn
  RefreshLife, \* jwt.refreshExpiresIn
  RequestTime, \* assumed: no login and no creation lasts longer
  NoToken

ASSUME SessionsAssumption ==
  /\ AccessLife \in Nat \ {0} /\ RefreshLife \in Nat \ {0} /\ RequestTime \in Nat
  /\ AccessLife <= RefreshLife /\ IsFiniteSet(Keysets)

VARIABLES
  enabled,  \* is_active and not is_deleted
  keys,     \* what getPermissionKeys would answer
  blocked,  \* a due task of the user blocks the creation of proposals
  token,    \* [keys, age]: the pair the browser holds, or NoToken
  call,     \* call[q]: [step, keys, age], a request in course
  since,    \* history: how long ago the user was last enabled, unblocked, and
            \* had each set of permissions
  made      \* history: the draft the last step created, if any, with since as it was

sessionVars == <<enabled, keys, blocked, token, call, since, made>>

Forget == RequestTime + RequestTime + AccessLife + 1
Older(age, end) == IF age < end THEN age + 1 ELSE end
Idle == [step |-> "idle", keys |-> {}, age |-> 0]

\* The history of a step that leaves the registry as it says.
Record(nowEnabled, nowKeys, nowBlocked) ==
  since' = [enabled |-> IF nowEnabled THEN 0 ELSE since.enabled,
            clear |-> IF nowBlocked THEN since.clear ELSE 0,
            held |-> [since.held EXCEPT ![nowKeys] = 0]]

Registry == <<enabled, keys, blocked, since>>
-----------------------------------------------------------------------------
SetEnabled(b) ==
  /\ enabled' = b /\ made' = {} /\ Record(b, keys, blocked)
  /\ UNCHANGED <<keys, blocked, token, call>>

SetKeys(k) ==
  /\ keys' = k /\ made' = {} /\ Record(enabled, k, blocked)
  /\ UNCHANGED <<enabled, blocked, token, call>>

SetBlocked(b) ==
  /\ blocked' = b /\ made' = {} /\ Record(enabled, keys, b)
  /\ UNCHANGED <<enabled, keys, token, call>>

\* Time passes; nobody is kept waiting longer than RequestTime.
SessionTick ==
  /\ \A q \in Calls : call[q] # Idle => call[q].age < RequestTime
  /\ call' = [q \in Calls |->
       IF call[q] = Idle THEN Idle ELSE [call[q] EXCEPT !.age = @ + 1]]
  /\ token' = IF token = NoToken THEN NoToken
              ELSE [token EXCEPT !.age = Older(@, RefreshLife)]
  /\ since' = [enabled |-> IF enabled THEN 0 ELSE Older(since.enabled, Forget),
               clear |-> IF blocked THEN Older(since.clear, RequestTime + 1) ELSE 0,
               held |-> [k \in Keysets |-> IF k = keys THEN 0 ELSE Older(since.held[k], Forget)]]
  /\ made' = {}
  /\ UNCHANGED <<enabled, keys, blocked>>
-----------------------------------------------------------------------------
Start(q, step, k) ==
  /\ call[q] = Idle
  /\ call' = [call EXCEPT ![q] = [step |-> step, keys |-> k, age |-> 0]]
  /\ made' = {}
  /\ UNCHANGED <<Registry, token>>

\* login: findByEmail and the comparison of the password.
Login(q) == enabled /\ Start(q, "login", {})

\* refreshTokens: the strategy only verifies the token; findById.
Refresh(q) ==
  /\ token # NoToken /\ token.age < RefreshLife
  /\ enabled /\ Start(q, "refresh", {})

\* login only: access to the portal is opt-in.
PortalAccess(k) == k \cap {"QUOTE_ACTIVITY_GATES", Admin} # {}

\* Mutant: a refresh signs the payload of the token it was asked with.
ReadKeysFromToken(q) ==
  /\ call[q].step \in {"login", "refresh"}
  /\ call[q].step = "login" => PortalAccess(keys)
  /\ call' = [call EXCEPT ![q].step = "sign",
                          ![q].keys = IF call[q].step = "login" THEN keys ELSE token.keys]
  /\ made' = {}
  /\ UNCHANGED <<Registry, token>>

\* getPermissionKeys, a query of its own.
ReadKeys(q) ==
  /\ call[q].step \in {"login", "refresh"}
  /\ call[q].step = "login" => PortalAccess(keys)
  /\ call' = [call EXCEPT ![q].step = "sign", ![q].keys = keys] /\ made' = {}
  /\ UNCHANGED <<Registry, token>>

\* generateTokens, awaited after it; the browser holds the pair signed last.
Issue(q) ==
  /\ call[q].step = "sign"
  /\ token' = [keys |-> call[q].keys, age |-> 0]
  /\ call' = [call EXCEPT ![q] = Idle] /\ made' = {}
  /\ UNCHANGED Registry

\* POST /quotes/draft: JwtStrategy and PermissionsGuard, nothing read.
Ask(q) ==
  /\ token # NoToken /\ token.age < AccessLife /\ WriteGuard(token.keys)
  /\ Start(q, "gate", token.keys)

\* Whom getPermissions looks at the tasks of.
Gated(k) ==
  k \cap {"ROLE_CONSULTANT", "ROLE_COLLECTION_AGENT"} # {} /\ "QUOTE_ACTIVITY_GATES" \in k

\* getPermissions, before the transaction.
PassGate(q) ==
  /\ call[q].step = "gate"
  /\ Gated(call[q].keys) => ~blocked
  /\ call' = [call EXCEPT ![q].step = "create"] /\ made' = {}
  /\ UNCHANGED <<Registry, token>>

\* A 403: no access to the portal, or a task that blocks.
Forbidden(q) ==
  /\ \/ call[q].step = "login" /\ ~PortalAccess(keys)
     \/ call[q].step = "gate" /\ Gated(call[q].keys) /\ blocked
  /\ call' = [call EXCEPT ![q] = Idle] /\ made' = {}
  /\ UNCHANGED <<Registry, token>>

\* The transaction of createDraftFromSimulation commits.
CreateDraft(q) ==
  /\ call[q].step = "create"
  /\ made' = {[keys |-> call[q].keys, age |-> call[q].age, since |-> since]}
  /\ call' = [call EXCEPT ![q] = Idle]
  /\ UNCHANGED <<Registry, token>>

SessionInit ==
  /\ enabled = TRUE /\ keys \in Keysets /\ blocked = FALSE
  /\ token = NoToken
  /\ call = [q \in Calls |-> Idle]
  /\ since = [enabled |-> 0, clear |-> 0,
              held |-> [k \in Keysets |-> IF k = keys THEN 0 ELSE Forget]]
  /\ made = {}

SessionNext ==
  \/ \E b \in BOOLEAN : SetEnabled(b) \/ SetBlocked(b)
  \/ \E k \in Keysets : SetKeys(k)
  \/ SessionTick
  \/ \E q \in Calls :
       \/ Login(q) \/ Refresh(q) \/ ReadKeys(q) \/ Issue(q)
       \/ Ask(q) \/ PassGate(q) \/ Forbidden(q) \/ CreateDraft(q)

SessionSpec == SessionInit /\ [][SessionNext]_sessionVars
-----------------------------------------------------------------------------
(***************************************************************************)
(* However often tokens were renewed, a draft is owed to permissions the   *)
(* user really had, and to a user who was enabled, no longer ago than an   *)
(* access token and the requests around it last; that of the new flow was  *)
(* among them, whoever he is, and one of those who create; and a partner   *)
(* the gate is for had no blocking task at some moment of his request      *)
(* (auth.service.ts, 35-79; permissions.guard.ts, 26-52;                   *)
(* quotes.controller.ts, 72 and 139; quotes.service.ts, 53-61).            *)
(***************************************************************************)
DraftsOnLiveAuthority ==
  \A x \in made :
    /\ x.since.held[x.keys] < AccessLife + RequestTime + RequestTime
    /\ "QUOTE_NEW_ORIGINATION_FLOW" \in x.keys /\ x.keys \cap {"QUOTE_CREATE", Admin} # {}
    /\ x.since.enabled < AccessLife + RequestTime + RequestTime
    /\ Gated(x.keys) => x.since.clear <= x.age
=============================================================================
