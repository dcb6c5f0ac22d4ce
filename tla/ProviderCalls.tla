--------------------------- MODULE ProviderCalls ----------------------------
(***************************************************************************)
(* The calls to Cabure (quote the insurance) and Celcoin (preview of the   *)
(* loan) of one replica, and the token each client caches.  A call takes   *)
(* the cached token or waits for the one login in flight.  When Cabure     *)
(* refuses the token, the call forces a login and is sent once more; when  *)
(* Celcoin does, the cached token is dropped and the call fails.           *)
(*                                                                         *)
(* Node runs one callback at a time: an action is what happens between two *)
(* awaits.  Tokens of a provider are numbered in the order of their issue; *)
(* a provider may refuse any of them: it expired, or it was revoked.       *)
(***************************************************************************)
EXTENDS Integers

CONSTANTS
  Requests,    \* calls in flight at once
  Lives,       \* Lives[p]: the validities provider p grants
  Margin,      \* Margin[p]: TOKEN_EXPIRY_SAFETY_MS
  MaxLatency,  \* REQUEST_TIMEOUT_MS: a login is answered within this time
  MaxTokens,   \* bound: logins of a provider
  MaxNow,      \* bound: the clock
  None

Providers == {"cabure", "celcoin"}

ASSUME ProvidersAssumption ==
  /\ Lives \in [Providers -> SUBSET (Nat \ {0})]
  /\ Margin \in [Providers -> Nat]
  /\ MaxLatency \in Nat /\ MaxTokens \in Nat /\ MaxNow \in Nat
  /\ MaxLatency <= Margin["celcoin"]
  /\ \A life \in Lives["celcoin"] : life > Margin["celcoin"]

ASSUME NoneAssumption ==
  /\ None \notin Providers
  /\ None \notin [token : Int, until : Int]
  /\ None \notin [life : Int, deadline : Int]

VARIABLES
  now,      \* Date.now()
  issued,   \* issued[p]: tokens issued
  expiry,   \* expiry[p][t]: when token t of p expires
  cached,   \* cached[p]: cachedToken, None or [token, until]
  login,    \* login[p]: pendingToken: "none", "asked", or "granted", answer under way
  grant,    \* grant[p]: the answer under way, None or [life, deadline]
  pc,       \* pc[r]: where call r is
  to,       \* to[r]: the provider r calls
  token,    \* token[r]: the token r was sent with
  refused,  \* refused[r]: the token refused to r, 0 if none
  dropped   \* history: the tokens of Celcoin whose refusal was seen

provider == <<issued, expiry>>
client == <<cached, login, grant>>
calls == <<pc, to, token, refused>>
vars == <<now, provider, client, calls, dropped>>

Tokens == 1 .. MaxTokens

\* The cached token may be handed out.
Usable(p) == cached[p] # None /\ cached[p].until > now

\* Mutant: the safety margin is forgotten.
UntilItExpires(p, t) ==
  IF p = "celcoin" THEN now + grant[p].life ELSE expiry[p][t]

\* Celcoin tells how long a token lives, Cabure until when.
Until(p, t) ==
  IF p = "celcoin"
  THEN IF grant[p].life - Margin[p] > 1 THEN now + grant[p].life - Margin[p] ELSE now + 1
  ELSE expiry[p][t] - Margin[p]

\* Mutant: the provider of a call that is over is remembered.
EndCallsOnly(R) ==
  /\ pc' = [r \in Requests |-> IF r \in R THEN "idle" ELSE pc[r]]
  /\ token' = [r \in Requests |-> IF r \in R THEN 0 ELSE token[r]]
  /\ refused' = [r \in Requests |-> IF r \in R THEN 0 ELSE refused[r]]
  /\ UNCHANGED to

\* The calls in R end, whatever their outcome.
EndCalls(R) ==
  /\ pc' = [r \in Requests |-> IF r \in R THEN "idle" ELSE pc[r]]
  /\ to' = [r \in Requests |-> IF r \in R THEN None ELSE to[r]]
  /\ token' = [r \in Requests |-> IF r \in R THEN 0 ELSE token[r]]
  /\ refused' = [r \in Requests |-> IF r \in R THEN 0 ELSE refused[r]]

\* Join the login in flight, or start one.
AwaitLogin(r, state) ==
  /\ login' = [login EXCEPT ![to[r]] = IF @ = "none" THEN "asked" ELSE @]
  /\ pc' = [pc EXCEPT ![r] = state]
  /\ UNCHANGED <<cached, grant, token>>

-----------------------------------------------------------------------------
\* quote(), simulateRequestedAmount(); one without configuration does not begin.
Begin(r, p) ==
  /\ pc[r] = "idle"
  /\ pc' = [pc EXCEPT ![r] = "ready"]
  /\ to' = [to EXCEPT ![r] = p]
  /\ UNCHANGED <<now, provider, client, token, refused, dropped>>

\* getAccessToken(), and the call is sent if there was no need to wait.
GetToken(r) ==
  /\ pc[r] = "ready"
  /\ \/ /\ Usable(to[r])
        /\ token' = [token EXCEPT ![r] = cached[to[r]].token]
        /\ pc' = [pc EXCEPT ![r] = "sent"]
        /\ UNCHANGED client
     \/ /\ ~Usable(to[r])
        /\ AwaitLogin(r, "waiting")
  /\ UNCHANGED <<now, provider, to, refused, dropped>>

\* Mutant: getAccessToken(true) returns a cached token that is not past its time.
ForceUnlessCached(r) ==
  /\ pc[r] = "refused"
  /\ \/ Usable(to[r]) /\ pc' = [pc EXCEPT ![r] = "ready"] /\ UNCHANGED <<client, token>>
     \/ ~Usable(to[r]) /\ AwaitLogin(r, "forcing")
  /\ UNCHANGED <<now, provider, to, refused, dropped>>

\* getAccessToken(true).
ForceLogin(r) ==
  /\ pc[r] = "refused"
  /\ AwaitLogin(r, "forcing")
  /\ UNCHANGED <<now, provider, to, refused, dropped>>

\* The answer is accepted, or an error that has nothing to do with the token:
\* a timeout, 4xx, 5xx, a body that cannot be read.
Answered(r) ==
  /\ pc[r] = "sent"
  /\ EndCalls({r})
  /\ UNCHANGED <<now, provider, client, dropped>>

\* 401 from Cabure: force a login and send the quote again, once.
RefusedByCabure(r) ==
  /\ pc[r] = "sent" /\ to[r] = "cabure"
  /\ \/ /\ refused[r] = 0
        /\ refused' = [refused EXCEPT ![r] = token[r]]
        /\ token' = [token EXCEPT ![r] = 0]
        /\ pc' = [pc EXCEPT ![r] = "refused"]
        /\ UNCHANGED to
     \/ /\ refused[r] # 0
        /\ EndCalls({r})
  /\ UNCHANGED <<now, provider, client, dropped>>

\* Mutant: the refused token stays cached.
RefusedAndKept(r) ==
  /\ pc[r] = "sent" /\ to[r] = "celcoin"
  /\ dropped' = dropped \cup {token[r]}
  /\ EndCalls({r})
  /\ UNCHANGED <<now, provider, client>>

\* 401 or 403 from Celcoin: invalidate(), whatever token is cached by now.
RefusedByCelcoin(r) ==
  /\ pc[r] = "sent" /\ to[r] = "celcoin"
  /\ cached' = [cached EXCEPT !["celcoin"] = None]
  /\ dropped' = dropped \cup {token[r]}
  /\ EndCalls({r})
  /\ UNCHANGED <<now, provider, login, grant>>

-----------------------------------------------------------------------------
\* The provider accepts the login and answers.
Issue(p, life) ==
  /\ login[p] = "asked"
  /\ issued[p] < MaxTokens
  /\ issued' = [issued EXCEPT ![p] = @ + 1]
  /\ expiry' = [expiry EXCEPT ![p][issued[p] + 1] = now + life]
  /\ login' = [login EXCEPT ![p] = "granted"]
  /\ grant' = [grant EXCEPT ![p] = [life |-> life, deadline |-> now + MaxLatency]]
  /\ UNCHANGED <<now, cached, calls, dropped>>

\* The token is cached and everybody who waits goes on.
LoginSucceeds(p) ==
  LET t == issued[p]
      at(s) == {r \in Requests : pc[r] = s /\ to[r] = p}
  IN /\ login[p] = "granted"
     /\ cached' = [cached EXCEPT ![p] = [token |-> t, until |-> Until(p, t)]]
     /\ login' = [login EXCEPT ![p] = "none"]
     /\ grant' = [grant EXCEPT ![p] = None]
     /\ pc' = [r \in Requests |-> IF r \in at("waiting") THEN "sent"
                                  ELSE IF r \in at("forcing") THEN "ready" ELSE pc[r]]
     /\ token' = [r \in Requests |-> IF r \in at("waiting") THEN t ELSE token[r]]
     /\ UNCHANGED <<now, provider, to, refused, dropped>>

\* Mutant: the rejection reaches only the call that started the login.
LoginFailsQuietly(p) ==
  /\ login[p] # "none"
  /\ login' = [login EXCEPT ![p] = "none"]
  /\ grant' = [grant EXCEPT ![p] = None]
  /\ \E r \in Requests : to[r] = p /\ pc[r] \in {"waiting", "forcing"} /\ EndCalls({r})
  /\ UNCHANGED <<now, provider, cached, dropped>>

\* No configuration, a timeout, an error or a lost or unreadable answer.
LoginFails(p) ==
  /\ login[p] # "none"
  /\ login' = [login EXCEPT ![p] = "none"]
  /\ grant' = [grant EXCEPT ![p] = None]
  /\ EndCalls({r \in Requests : to[r] = p /\ pc[r] \in {"waiting", "forcing"}})
  /\ UNCHANGED <<now, provider, cached, dropped>>

\* AbortSignal.timeout ends a login that is not answered in time.
Tick ==
  /\ now < MaxNow
  /\ \A p \in Providers : grant[p] # None => now < grant[p].deadline
  /\ now' = now + 1
  /\ UNCHANGED <<provider, client, calls, dropped>>

Init ==
  /\ now = 0
  /\ issued = [p \in Providers |-> 0]
  /\ expiry = [p \in Providers |-> [t \in Tokens |-> 0]]
  /\ cached = [p \in Providers |-> None]
  /\ login = [p \in Providers |-> "none"]
  /\ grant = [p \in Providers |-> None]
  /\ pc = [r \in Requests |-> "idle"]
  /\ to = [r \in Requests |-> None]
  /\ token = [r \in Requests |-> 0]
  /\ refused = [r \in Requests |-> 0]
  /\ dropped = {}

CallStep(r) ==
  GetToken(r) \/ ForceLogin(r) \/ Answered(r) \/ RefusedByCabure(r) \/ RefusedByCelcoin(r)

LoginStep(p) ==
  (\E life \in Lives[p] : Issue(p, life)) \/ LoginSucceeds(p) \/ LoginFails(p)

Next ==
  \/ \E r \in Requests, p \in Providers : Begin(r, p)
  \/ \E r \in Requests : CallStep(r)
  \/ \E p \in Providers : LoginStep(p)
  \/ Tick

Spec == Init /\ [][Next]_vars

(* Every HTTP request is answered or aborted by its timeout, and a promise *)
(* that is settled resumes whoever awaits it.                              *)
FairSpec ==
  /\ Spec
  /\ \A r \in Requests : WF_vars(CallStep(r))
  /\ \A p \in Providers : WF_vars(LoginStep(p))
-----------------------------------------------------------------------------
States == {"idle", "ready", "waiting", "sent", "refused", "forcing"}

TypeOK ==
  /\ now \in 0 .. MaxNow
  /\ issued \in [Providers -> 0 .. MaxTokens]
  /\ expiry \in [Providers -> [Tokens -> Nat]]
  /\ cached \in [Providers -> [token : Tokens, until : Int] \cup {None}]
  /\ login \in [Providers -> {"none", "asked", "granted"}]
  /\ grant \in [Providers -> [life : Nat, deadline : Nat] \cup {None}]
  /\ pc \in [Requests -> States]
  /\ to \in [Requests -> Providers \cup {None}]
  /\ token \in [Requests -> Tokens \cup {0}]
  /\ refused \in [Requests -> Tokens \cup {0}]
  /\ dropped \subseteq Tokens
  /\ \A p \in Providers : login[p] = "granted" <=> grant[p] # None
  /\ \A r \in Requests : /\ pc[r] = "idle" <=> to[r] = None
                         /\ pc[r] = "sent" <=> token[r] # 0

(***************************************************************************)
(* A token is handed out from the cache only while its provider has not    *)
(* let it expire, although the answer to the login may have taken as long  *)
(* as the timeout (celcoin-auth.service.ts, 79-88).                        *)
(***************************************************************************)
CachedTokenLives ==
  \A p \in Providers : Usable(p) => expiry[p][cached[p].token] > now

(***************************************************************************)
(* A token Celcoin refused is never handed out again, even when a login    *)
(* was under way while the refusal arrived.                                *)
(***************************************************************************)
RefusedNotCached == cached["celcoin"] # None => cached["celcoin"].token \notin dropped

\* What a call shows of the tokens it uses.
Uses == [r \in Requests |->
           [provider |-> IF pc[r] = "idle" THEN "" ELSE to[r],
            token |-> token[r], refused |-> refused[r]]]

(***************************************************************************)
(* A refused quote is sent once more, with a token newer than the refused  *)
(* one, and a call uses no token the provider has not issued.              *)
(***************************************************************************)
Use == INSTANCE TokenUse WITH
  AskedAgain <- {"cabure"},
  latest <- issued,
  use <- Uses

ImplementsTokenUse == Use!Spec

(***************************************************************************)
(* Every call ends: nobody waits for a login that is over, and a refusal   *)
(* is not answered by logging in for ever.                                 *)
(***************************************************************************)
CallsEnd == \A r \in Requests : pc[r] # "idle" ~> pc[r] = "idle"
=============================================================================
