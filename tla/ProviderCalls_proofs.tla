------------------------- MODULE ProviderCalls_proofs -------------------------
(***************************************************************************)
(* The token caches for any number of calls, tokens and validities.  A     *)
(* token is known to calls only after the login that brought it is over,   *)
(* so no call was refused a token that is still under way; and the answer  *)
(* to a login is at most MaxLatency old, which the margin covers.          *)
(***************************************************************************)
EXTENDS ProviderCalls, TLAPS

\* The login under way was granted and its answer is not too old.
Granted ==
  \A p \in Providers : grant[p] # None =>
    /\ issued[p] > 0 /\ grant[p].life \in Lives[p] /\ now <= grant[p].deadline
    /\ expiry[p][issued[p]] = grant[p].deadline - MaxLatency + grant[p].life

\* A cached token was issued, by a login that is over, and lives until its time.
Cached ==
  \A p \in Providers : cached[p] # None =>
    /\ cached[p].token <= issued[p]
    /\ login[p] = "granted" => cached[p].token < issued[p]
    /\ cached[p].until <= expiry[p][cached[p].token]

\* Nobody holds or was refused a token whose login is under way.
Held ==
  /\ \A r \in Requests : token[r] # 0 =>
       /\ token[r] <= issued[to[r]]
       /\ login[to[r]] = "granted" => token[r] < issued[to[r]]
  /\ \A t \in dropped :
       /\ t <= issued["celcoin"]
       /\ login["celcoin"] = "granted" => t < issued["celcoin"]

\* Only Cabure is asked again, and what the call waits for is newer.
Refusals ==
  \A r \in Requests :
    /\ pc[r] = "idle" => token[r] = 0 /\ refused[r] = 0
    /\ pc[r] = "refused" => refused[r] # 0
    /\ refused[r] # 0 =>
         /\ to[r] = "cabure" /\ refused[r] <= issued["cabure"]
         /\ login["cabure"] = "granted" => refused[r] < issued["cabure"]
         /\ pc[r] = "ready" => cached["cabure"] # None /\ refused[r] < cached["cabure"].token
         /\ pc[r] = "sent" => refused[r] < token[r]

CallsInv == TypeOK /\ Granted /\ Cached /\ Held /\ RefusedNotCached /\ Refusals

USE ProvidersAssumption DEF Providers, Tokens

LEMMA NoneIsNothing ==
  /\ None \notin {"cabure", "celcoin"}
  /\ \A a, b \in Int : [token |-> a, until |-> b] # None
  /\ \A a, b \in Int : [life |-> a, deadline |-> b] # None
<1>1. ASSUME NEW a \in Int, NEW b \in Int
      PROVE [token |-> a, until |-> b] \in [token : Int, until : Int]
  OBVIOUS
<1>2. ASSUME NEW a \in Int, NEW b \in Int
      PROVE [life |-> a, deadline |-> b] \in [life : Int, deadline : Int]
  OBVIOUS
<1> QED BY <1>1, <1>2, NoneAssumption

LEMMA CallsInit == Init => CallsInv
<1> SUFFICES ASSUME Init PROVE CallsInv OBVIOUS
<1>1. TypeOK BY DEF Init, TypeOK, States
<1>2. Granted /\ Cached /\ Held BY DEF Init, Granted, Cached, Held
<1>3. RefusedNotCached /\ Refusals BY DEF Init, RefusedNotCached, Refusals
<1> QED BY <1>1, <1>2, <1>3 DEF CallsInv

\* What the type invariant says of the maps of the providers.
LEMMA ProviderTypes ==
  ASSUME CallsInv
  PROVE \A p \in Providers :
          /\ issued[p] \in 0 .. MaxTokens
          /\ \A t \in Tokens : expiry[p][t] \in Nat
          /\ cached[p] # None => cached[p] \in [token : Tokens, until : Int]
          /\ grant[p] # None => grant[p] \in [life : Nat, deadline : Nat]
          /\ login[p] = "granted" <=> grant[p] # None
BY DEF CallsInv, TypeOK

LEMMA BeginInv ==
  ASSUME CallsInv, NEW r \in Requests, NEW p \in Providers, Begin(r, p)
  PROVE CallsInv'
<1> USE DEF CallsInv, Begin, provider, client
<1>1. TypeOK' BY NoneIsNothing DEF TypeOK, States
<1>2. Granted' /\ Cached' BY DEF TypeOK, Granted, Cached
<1>3. Held' BY DEF TypeOK, Held, Refusals
<1>4. RefusedNotCached' BY DEF RefusedNotCached
<1>5. Refusals' BY DEF TypeOK, Refusals
<1> QED BY <1>1, <1>2, <1>3, <1>4, <1>5

LEMMA AwaitLoginInv ==
  ASSUME CallsInv, NEW r \in Requests, NEW s \in {"waiting", "forcing"},
         pc[r] \in {"ready", "refused"}, AwaitLogin(r, s),
         UNCHANGED <<now, provider, to, refused, dropped>>
  PROVE CallsInv'
<1> USE DEF CallsInv, AwaitLogin, provider, client
<1>1. TypeOK' BY DEF TypeOK, States
<1>2. Granted' /\ Cached' BY DEF TypeOK, Granted, Cached
<1>3. Held' BY DEF TypeOK, Held
<1>4. RefusedNotCached' BY DEF RefusedNotCached
<1>5. Refusals' BY DEF TypeOK, Refusals
<1> QED BY <1>1, <1>2, <1>3, <1>4, <1>5

LEMMA GetTokenInv ==
  ASSUME CallsInv, NEW r \in Requests, GetToken(r)
  PROVE CallsInv'
<1> USE DEF CallsInv
<1>1. CASE Usable(to[r]) /\ UNCHANGED client
  <2> DEFINE t == cached[to[r]].token
  <2>1. /\ pc[r] = "ready" /\ to[r] \in Providers /\ t \in Tokens /\ t # 0
        /\ cached[to[r]] # None
        /\ token' = [token EXCEPT ![r] = t] /\ pc' = [pc EXCEPT ![r] = "sent"]
        /\ now' = now /\ UNCHANGED <<provider, client, to, refused, dropped>>
    BY <1>1 DEF GetToken, Usable, AwaitLogin, client, TypeOK
  <2> HIDE DEF t
  <2>2. TypeOK' BY <2>1 DEF TypeOK, States, provider, client
  <2>3. Granted' /\ Cached' BY <2>1 DEF Granted, Cached, provider, client
  <2>4. Held' BY <2>1 DEF TypeOK, Held, Cached, provider, client, t
  <2>5. RefusedNotCached' BY <2>1 DEF RefusedNotCached, client
  <2>6. Refusals' BY <2>1 DEF TypeOK, Refusals, provider, client, t
  <2> QED BY <2>2, <2>3, <2>4, <2>5, <2>6
<1>2. CASE ~Usable(to[r]) /\ AwaitLogin(r, "waiting")
  BY <1>2, AwaitLoginInv DEF GetToken
<1> QED BY <1>1, <1>2 DEF GetToken

\* Calls end.
LEMMA EndingsInv ==
  ASSUME CallsInv, NEW R \in SUBSET Requests, EndCalls(R), UNCHANGED <<now, issued, expiry>>,
         \A p \in Providers : \/ login'[p] = login[p] /\ grant'[p] = grant[p]
                              \/ login'[p] = "none" /\ grant'[p] = None,
         login' \in [Providers -> {"none", "asked", "granted"}],
         grant' \in [Providers -> [life : Nat, deadline : Nat] \cup {None}],
         cached' = cached /\ dropped' = dropped
  PROVE CallsInv'
<1> USE DEF CallsInv
<1>1. TypeOK' BY DEF TypeOK, States, EndCalls
<1>2. Granted' /\ Cached' BY DEF TypeOK, Granted, Cached
<1>3. \A p \in Providers : login'[p] = "granted" => login[p] = "granted" OBVIOUS
<1>4. \A r \in Requests : token'[r] # 0 => token'[r] = token[r] /\ to'[r] = to[r] /\ to[r] # None
  BY DEF EndCalls, TypeOK
<1>5. Held'
  <2>1. ASSUME NEW r \in Requests, token'[r] # 0
        PROVE token'[r] <= issued'[to'[r]] /\ (login'[to'[r]] = "granted" => token'[r] < issued'[to'[r]])
    <3>1. token'[r] = token[r] /\ to'[r] = to[r] /\ to[r] \in Providers BY <1>4, <2>1 DEF TypeOK
    <3> QED BY <1>3, <2>1, <3>1 DEF Held
  <2> QED BY <1>3, <2>1 DEF Held
<1>6. RefusedNotCached' BY DEF RefusedNotCached
<1>7. Refusals' BY <1>3 DEF TypeOK, Refusals, EndCalls
<1> QED BY <1>1, <1>2, <1>5, <1>6, <1>7

LEMMA RefusedByCabureInv ==
  ASSUME CallsInv, NEW r \in Requests, RefusedByCabure(r)
  PROVE CallsInv'
<1>1. CASE refused[r] = 0 /\ UNCHANGED to
  <2> USE <1>1 DEF CallsInv, RefusedByCabure, EndCalls, provider, client
  <2>1. pc[r] = "sent" /\ to[r] = "cabure" /\ token[r] \in Tokens BY DEF TypeOK
  <2>2. /\ refused' = [refused EXCEPT ![r] = token[r]] /\ token' = [token EXCEPT ![r] = 0]
        /\ pc' = [pc EXCEPT ![r] = "refused"]
    BY <2>1 DEF TypeOK
  <2>3. TypeOK' BY <2>1, <2>2 DEF TypeOK, States
  <2>4. Granted' /\ Cached' /\ RefusedNotCached' BY DEF Granted, Cached, RefusedNotCached
  <2>5. Held' BY <2>2 DEF TypeOK, Held
  <2>6. Refusals' BY <2>1, <2>2 DEF TypeOK, Refusals, Held
  <2> QED BY <2>3, <2>4, <2>5, <2>6
<1>2. CASE EndCalls({r})
  BY <1>2, EndingsInv DEF RefusedByCabure, CallsInv, TypeOK, provider, client
<1> QED BY <1>1, <1>2 DEF RefusedByCabure

LEMMA RefusedByCelcoinInv ==
  ASSUME CallsInv, NEW r \in Requests, RefusedByCelcoin(r)
  PROVE CallsInv'
<1> USE DEF CallsInv, RefusedByCelcoin, EndCalls, provider
<1>1. pc[r] = "sent" /\ to[r] = "celcoin" /\ token[r] \in Tokens BY DEF TypeOK
<1>2. TypeOK' BY <1>1 DEF TypeOK, States
<1>3. Granted' /\ Cached' BY DEF TypeOK, Granted, Cached
<1>4. Held' BY <1>1 DEF TypeOK, Held
<1>5. RefusedNotCached' BY DEF TypeOK, RefusedNotCached
<1>6. Refusals' BY DEF TypeOK, Refusals
<1> QED BY <1>2, <1>3, <1>4, <1>5, <1>6

LEMMA IssueInv ==
  ASSUME CallsInv, NEW p \in Providers, NEW life \in Lives[p], Issue(p, life)
  PROVE CallsInv'
<1> DEFINE t == issued[p] + 1
           g == [life |-> life, deadline |-> now + MaxLatency]
<1>1. /\ life \in Nat /\ now \in Nat /\ MaxLatency \in Nat
      /\ issued[p] \in Nat /\ t \in Tokens /\ t \in 0 .. MaxTokens
      /\ g \in [life : Nat, deadline : Nat] /\ g # None
  <2>1. /\ now \in Nat /\ issued[p] \in 0 .. MaxTokens /\ issued[p] < MaxTokens
    BY DEF CallsInv, TypeOK, Issue
  <2>2. life \in Nat /\ MaxLatency \in Nat OBVIOUS
  <2>3. t \in Tokens /\ t \in 0 .. MaxTokens BY <2>1
  <2>4. now + MaxLatency \in Nat BY <2>1, <2>2
  <2> QED BY <2>1, <2>2, <2>3, <2>4, NoneIsNothing
<1>2. /\ issued' = [issued EXCEPT ![p] = t] /\ grant' = [grant EXCEPT ![p] = g]
      /\ login' = [login EXCEPT ![p] = "granted"]
      /\ expiry' = [expiry EXCEPT ![p] = [expiry[p] EXCEPT ![t] = now + life]]
      /\ now' = now /\ cached' = cached /\ UNCHANGED calls /\ dropped' = dropped
  BY DEF Issue
<1>3. /\ issued'[p] = t /\ grant'[p] = g /\ login'[p] = "granted" /\ expiry'[p][t] = now + life
      /\ \A u \in Tokens \ {t} : expiry'[p][u] = expiry[p][u]
      /\ \A q \in Providers \ {p} : /\ issued'[q] = issued[q] /\ grant'[q] = grant[q]
                                    /\ login'[q] = login[q] /\ expiry'[q] = expiry[q]
  <2>1. /\ DOMAIN issued = Providers /\ DOMAIN grant = Providers /\ DOMAIN login = Providers
        /\ DOMAIN expiry = Providers /\ DOMAIN expiry[p] = Tokens
    BY DEF CallsInv, TypeOK
  <2> HIDE DEF t, g
  <2>2. issued'[p] = t /\ grant'[p] = g /\ login'[p] = "granted" BY <1>2, <2>1
  <2>3. expiry'[p] = [expiry[p] EXCEPT ![t] = now + life] BY <1>2, <2>1
  <2>4. expiry'[p][t] = now + life /\ \A u \in Tokens \ {t} : expiry'[p][u] = expiry[p][u]
    BY <1>1, <2>1, <2>3
  <2>5. \A q \in Providers \ {p} : /\ issued'[q] = issued[q] /\ grant'[q] = grant[q]
                                 /\ login'[q] = login[q] /\ expiry'[q] = expiry[q]
    BY <1>2, <2>1
  <2> QED BY <2>2, <2>4, <2>5
<1> HIDE DEF t, g
<1>4. TypeOK'
  <2>1. now + life \in Nat BY <1>1
  <2>2. expiry' \in [Providers -> [Tokens -> Nat]]
    BY <1>1, <1>2, <2>1 DEF CallsInv, TypeOK
  <2> QED BY <1>1, <1>2, <1>3, <2>2 DEF CallsInv, TypeOK, calls
<1>5. Granted'
  <2>1. g.life = life /\ g.deadline = now + MaxLatency BY DEF g
  <2> QED BY <1>1, <1>2, <1>3, <2>1 DEF CallsInv, Granted, t
<1>6. Cached'
  <2> SUFFICES ASSUME NEW q \in Providers, cached[q] # None PROVE Cached!(q)'
    BY <1>2 DEF Cached
  <2>1. cached[q].token \in Tokens /\ cached[q].token <= issued[q]
        /\ cached[q].until <= expiry[q][cached[q].token]
    BY ProviderTypes DEF CallsInv, Cached
  <2>2. CASE q = p BY <1>1, <1>2, <1>3, <2>1, <2>2 DEF t
  <2>3. CASE q # p BY <1>2, <1>3, <2>3 DEF CallsInv, Cached
  <2> QED BY <2>2, <2>3
<1>7. Held'
  <2>1. ASSUME NEW r \in Requests, token[r] # 0
        PROVE token[r] <= issued'[to[r]] /\ (login'[to[r]] = "granted" => token[r] < issued'[to[r]])
    <3>1. /\ token[r] \in Nat /\ to[r] \in Providers /\ token[r] <= issued[to[r]]
          /\ login[to[r]] = "granted" => token[r] < issued[to[r]]
      BY <2>1 DEF CallsInv, TypeOK, Held
    <3> QED BY <1>1, <1>3, <3>1 DEF t
  <2>2. ASSUME NEW u \in dropped
        PROVE u <= issued'["celcoin"] /\ (login'["celcoin"] = "granted" => u < issued'["celcoin"])
    <3>1. /\ u \in Nat /\ u <= issued["celcoin"]
          /\ login["celcoin"] = "granted" => u < issued["celcoin"]
      BY DEF CallsInv, TypeOK, Held
    <3> QED BY <1>1, <1>3, <3>1 DEF t
  <2> QED BY <1>2, <2>1, <2>2 DEF Held, calls
<1>8. RefusedNotCached' BY <1>2 DEF CallsInv, RefusedNotCached
<1>9. Refusals'
  <2>1. ASSUME NEW r \in Requests, refused[r] # 0
        PROVE /\ refused[r] <= issued'["cabure"]
              /\ login'["cabure"] = "granted" => refused[r] < issued'["cabure"]
    <3>1. /\ refused[r] \in Nat /\ refused[r] <= issued["cabure"]
          /\ login["cabure"] = "granted" => refused[r] < issued["cabure"]
      BY <2>1 DEF CallsInv, TypeOK, Refusals
    <3> QED BY <1>1, <1>3, <3>1 DEF t
  <2> QED BY <1>2, <2>1 DEF CallsInv, Refusals, calls
<1> QED BY <1>4, <1>5, <1>6, <1>7, <1>8, <1>9 DEF CallsInv

\* A token is cached for less than it lives.
LEMMA UntilLives ==
  ASSUME CallsInv, NEW p \in Providers, login[p] = "granted"
  PROVE Until(p, issued[p]) \in Int /\ Until(p, issued[p]) <= expiry[p][issued[p]]
<1>1. /\ grant[p] \in [life : Nat, deadline : Nat] /\ issued[p] \in Tokens
      /\ grant[p].life \in Lives[p] /\ now <= grant[p].deadline
      /\ expiry[p][issued[p]] = grant[p].deadline - MaxLatency + grant[p].life
      /\ expiry[p][issued[p]] \in Nat /\ now \in Nat /\ Margin[p] \in Nat
  <2>1. grant[p] # None /\ grant[p] \in [life : Nat, deadline : Nat] BY ProviderTypes
  <2>2. /\ issued[p] > 0 /\ grant[p].life \in Lives[p] /\ now <= grant[p].deadline
        /\ expiry[p][issued[p]] = grant[p].deadline - MaxLatency + grant[p].life
    BY <2>1 DEF CallsInv, Granted
  <2>3. issued[p] \in Tokens /\ now \in Nat BY <2>2 DEF CallsInv, TypeOK
  <2>4. expiry[p][issued[p]] \in Nat BY <2>3, ProviderTypes
  <2> QED BY <2>1, <2>2, <2>3, <2>4
<1>2. CASE p = "celcoin"
  <2>1. grant[p].life > Margin[p] /\ MaxLatency <= Margin[p] BY <1>1, <1>2
  <2> QED BY <1>1, <1>2, <2>1 DEF Until
<1>3. CASE p # "celcoin" BY <1>1, <1>3 DEF Until
<1> QED BY <1>2, <1>3

LEMMA LoginSucceedsInv ==
  ASSUME CallsInv, NEW p \in Providers, LoginSucceeds(p)
  PROVE CallsInv'
<1> DEFINE t == issued[p]
           c == [token |-> t, until |-> Until(p, t)]
           at(s) == {r \in Requests : pc[r] = s /\ to[r] = p}
<1>1. t \in Tokens /\ t # 0 /\ t \in Nat /\ login[p] = "granted" /\ grant[p] # None
  <2>1. login[p] = "granted" BY DEF LoginSucceeds
  <2>2. grant[p] # None /\ t \in 0 .. MaxTokens BY <2>1, ProviderTypes
  <2>3. t > 0 BY <2>2 DEF CallsInv, Granted
  <2> QED BY <2>1, <2>2, <2>3
<1>2. /\ c \in [token : Tokens, until : Int] /\ c # None /\ c.token = t
      /\ c.until <= expiry[p][t]
  BY <1>1, UntilLives, NoneIsNothing
<1>3. /\ cached' = [cached EXCEPT ![p] = c] /\ login' = [login EXCEPT ![p] = "none"]
      /\ grant' = [grant EXCEPT ![p] = None]
      /\ now' = now /\ UNCHANGED provider /\ to' = to /\ refused' = refused /\ dropped' = dropped
      /\ pc' = [r \in Requests |-> IF r \in at("waiting") THEN "sent"
                                   ELSE IF r \in at("forcing") THEN "ready" ELSE pc[r]]
      /\ token' = [r \in Requests |-> IF r \in at("waiting") THEN t ELSE token[r]]
  BY DEF LoginSucceeds
<1>4. /\ cached'[p] = c /\ login'[p] = "none" /\ grant'[p] = None
      /\ \A q \in Providers \ {p} :
           cached'[q] = cached[q] /\ login'[q] = login[q] /\ grant'[q] = grant[q]
  BY <1>3 DEF CallsInv, TypeOK
<1>5. \A r \in Requests :
        \/ pc'[r] = pc[r] /\ token'[r] = token[r]
        \/ pc[r] = "waiting" /\ pc'[r] = "sent" /\ token'[r] = t /\ to[r] = p
        \/ pc[r] = "forcing" /\ pc'[r] = "ready" /\ token'[r] = token[r] /\ to[r] = p
  BY <1>3
<1>6. TypeOK'
  <2>1. pc' \in [Requests -> States] BY <1>3 DEF CallsInv, TypeOK, States
  <2>2. token' \in [Requests -> Tokens \cup {0}] BY <1>1, <1>3 DEF CallsInv, TypeOK
  <2>3. cached' \in [Providers -> [token : Tokens, until : Int] \cup {None}]
    BY <1>2, <1>3 DEF CallsInv, TypeOK
  <2>4. \A r \in Requests : /\ pc'[r] = "idle" <=> to'[r] = None
                            /\ pc'[r] = "sent" <=> token'[r] # 0
    BY <1>1, <1>3, <1>5 DEF CallsInv, TypeOK
  <2>5. \A q \in Providers : login'[q] = "granted" <=> grant'[q] # None
    BY <1>4 DEF CallsInv, TypeOK
  <2>6. /\ login' \in [Providers -> {"none", "asked", "granted"}]
        /\ grant' \in [Providers -> [life : Nat, deadline : Nat] \cup {None}]
    BY <1>3 DEF CallsInv, TypeOK
  <2> QED BY <1>3, <2>1, <2>2, <2>3, <2>4, <2>5, <2>6 DEF CallsInv, TypeOK, provider
<1> HIDE DEF t, c, at
<1>7. Granted' BY <1>3, <1>4 DEF CallsInv, Granted, provider
<1>8. Cached'
  <2>1. t = issued[p] BY DEF t
  <2> QED BY <1>1, <1>2, <1>3, <1>4, <2>1 DEF CallsInv, Cached, provider
<1>9. Held'
  <2>1. ASSUME NEW r \in Requests, token'[r] # 0
        PROVE token'[r] <= issued[to[r]] /\ (login'[to[r]] = "granted" => token'[r] < issued[to[r]])
    <3>1. CASE token'[r] = token[r]
      <4>1. to[r] \in Providers BY <2>1, <3>1, NoneIsNothing DEF CallsInv, TypeOK
      <4> QED BY <1>4, <2>1, <3>1, <4>1 DEF CallsInv, Held
    <3>2. CASE token'[r] = t /\ to[r] = p BY <1>1, <1>4, <3>2 DEF t
    <3> QED BY <1>5, <3>1, <3>2
  <2>2. login'["celcoin"] = "granted" => login["celcoin"] = "granted" BY <1>4
  <2> QED BY <1>3, <2>1, <2>2 DEF CallsInv, Held, provider
<1>10. RefusedNotCached'
  <2>1. p = "celcoin" => t \notin dropped BY <1>1 DEF CallsInv, Held, TypeOK, t
  <2> QED BY <1>2, <1>3, <1>4, <2>1 DEF CallsInv, RefusedNotCached
<1>11. Refusals'
  <2> SUFFICES ASSUME NEW r \in Requests, refused[r] # 0
      PROVE /\ login'["cabure"] = "granted" => refused[r] < issued["cabure"]
            /\ pc'[r] = "ready" => cached'["cabure"] # None /\ refused[r] < cached'["cabure"].token
            /\ pc'[r] = "sent" => refused[r] < token'[r]
    BY <1>1, <1>3, <1>5 DEF CallsInv, Refusals, provider
  <2>1. /\ to[r] = "cabure"
        /\ login["cabure"] = "granted" => refused[r] < issued["cabure"]
        /\ pc[r] = "ready" => cached["cabure"] # None /\ refused[r] < cached["cabure"].token
        /\ pc[r] = "sent" => refused[r] < token[r]
    BY DEF CallsInv, Refusals
  <2>2. CASE p = "cabure" BY <1>1, <1>2, <1>4, <1>5, <2>1, <2>2 DEF t
  <2>3. CASE p # "cabure" BY <1>4, <1>5, <2>1, <2>3
  <2> QED BY <2>2, <2>3
<1> QED BY <1>6, <1>7, <1>8, <1>9, <1>10, <1>11 DEF CallsInv

LEMMA TickInv ==
  ASSUME CallsInv, Tick
  PROVE CallsInv'
<1> USE DEF CallsInv, Tick, provider, client, calls
<1>1. TypeOK' BY DEF TypeOK
<1>2. Granted'
  <2> SUFFICES ASSUME NEW p \in Providers, grant[p] # None PROVE now + 1 <= grant[p].deadline
    BY DEF Granted
  <2>1. grant[p] \in [life : Nat, deadline : Nat] /\ now \in Nat /\ now < grant[p].deadline
    BY DEF TypeOK
  <2> QED BY <2>1
<1>3. Cached' /\ Held' /\ RefusedNotCached' /\ Refusals'
  BY DEF Cached, Held, RefusedNotCached, Refusals
<1> QED BY <1>1, <1>2, <1>3

LEMMA CallsStep == CallsInv /\ [Next]_vars => CallsInv'
<1> SUFFICES ASSUME CallsInv, [Next]_vars PROVE CallsInv' OBVIOUS
<1>1. ASSUME NEW r \in Requests, NEW p \in Providers, Begin(r, p) PROVE CallsInv'
  BY <1>1, BeginInv
<1>2. ASSUME NEW r \in Requests, CallStep(r) PROVE CallsInv'
  <2>1. CASE ForceLogin(r) BY <2>1, AwaitLoginInv DEF ForceLogin
  <2>2. CASE Answered(r)
    BY <2>2, EndingsInv DEF Answered, CallsInv, TypeOK, provider, client
  <2> QED
    BY <1>2, <2>1, <2>2, GetTokenInv, RefusedByCabureInv, RefusedByCelcoinInv DEF CallStep
<1>3. ASSUME NEW p \in Providers, LoginStep(p) PROVE CallsInv'
  <2>1. CASE LoginFails(p)
    <3>1. {r \in Requests : to[r] = p /\ pc[r] \in {"waiting", "forcing"}} \in SUBSET Requests
      OBVIOUS
    <3> QED BY <2>1, <3>1, EndingsInv DEF LoginFails, CallsInv, TypeOK, provider
  <2> QED BY <1>3, <2>1, IssueInv, LoginSucceedsInv DEF LoginStep
<1>4. CASE UNCHANGED vars
  BY <1>4 DEF CallsInv, TypeOK, Granted, Cached, Held, RefusedNotCached, Refusals, vars, provider,
              client, calls
<1> QED BY <1>1, <1>2, <1>3, <1>4, TickInv DEF Next

LEMMA CallsInvariant == Spec => []CallsInv
BY CallsInit, CallsStep, PTL DEF Spec

(***************************************************************************)
(* Type correctness of the calls and the caches.                           *)
(***************************************************************************)
THEOREM CallTypes == Spec => []TypeOK
<1>1. CallsInv => TypeOK BY DEF CallsInv
<1> QED BY <1>1, CallsInvariant, PTL

(***************************************************************************)
(* A cached token outlives its use, whatever validity the provider grants  *)
(* above the margin (celcoin-auth.service.ts, 79-88).                      *)
(***************************************************************************)
THEOREM CachedTokensLive == Spec => []CachedTokenLives
<1>1. CallsInv => CachedTokenLives
  <2> SUFFICES ASSUME CallsInv, NEW p \in Providers, Usable(p)
               PROVE expiry[p][cached[p].token] > now
    BY DEF CachedTokenLives
  <2>1. cached[p] \in [token : Tokens, until : Int] /\ cached[p].until > now /\ now \in Nat
    BY DEF CallsInv, TypeOK, Usable
  <2>2. cached[p].until <= expiry[p][cached[p].token] BY DEF CallsInv, Cached, Usable
  <2>3. expiry[p][cached[p].token] \in Nat BY <2>1, ProviderTypes
  <2> QED BY <2>1, <2>2, <2>3
<1> QED BY <1>1, CallsInvariant, PTL

(***************************************************************************)
(* No call brings a token back to the cache that Celcoin refused           *)
(* (celcoin-auth.service.ts, 45-48).                                       *)
(***************************************************************************)
THEOREM RefusedNeverCached == Spec => []RefusedNotCached
<1>1. CallsInv => RefusedNotCached BY DEF CallsInv
<1> QED BY <1>1, CallsInvariant, PTL

-----------------------------------------------------------------------------
\* The abstract step of each step.

LEMMA UsesOf ==
  \A r \in Requests : /\ Uses[r].provider = (IF pc[r] = "idle" THEN "" ELSE to[r])
                      /\ Uses[r].token = token[r] /\ Uses[r].refused = refused[r]
BY DEF Uses

\* A step that changes no use and issues nothing is a stutter.
LEMMA NothingShown ==
  ASSUME CallsInv, CallsInv', issued' = issued, token' = token, refused' = refused,
         \A r \in Requests : (pc[r] = "idle") = (pc'[r] = "idle") /\ to'[r] = to[r]
  PROVE UNCHANGED <<issued, Uses>>
BY DEF Uses

LEMMA BeginStarts ==
  ASSUME CallsInv, NEW r \in Requests, NEW p \in Providers, Begin(r, p)
  PROVE Use!Start(r, p)
<1>1. token[r] = 0 /\ refused[r] = 0 /\ pc[r] = "idle"
  BY DEF CallsInv, Refusals, Begin
<1>2. Uses' = [Uses EXCEPT ![r] = [provider |-> p, token |-> 0, refused |-> 0]]
  BY <1>1 DEF Begin, Uses, CallsInv, TypeOK
<1>3. issued' = issued BY DEF Begin, provider
<1> QED BY <1>1, <1>2, <1>3, UsesOf DEF Use!Start, Use!NoUse

LEMMA EndCallsFinish ==
  ASSUME CallsInv, NEW R \in SUBSET Requests, EndCalls(R), issued' = issued
  PROVE Use!Finish(R)
<1>1. Uses' = [r \in Requests |-> IF r \in R THEN Use!NoUse ELSE Uses[r]]
  BY DEF EndCalls, Uses, Use!NoUse
<1> QED BY <1>1 DEF Use!Finish

LEMMA GetTokenSends ==
  ASSUME CallsInv, NEW r \in Requests, GetToken(r), Usable(to[r]), UNCHANGED client
  PROVE Use!Send({r}, to[r], cached[to[r]].token)
<1> DEFINE t == cached[to[r]].token
<1>1. /\ pc[r] = "ready" /\ to[r] \in Providers /\ t \in Tokens /\ cached[to[r]] # None
      /\ token' = [token EXCEPT ![r] = t] /\ pc' = [pc EXCEPT ![r] = "sent"]
      /\ UNCHANGED <<issued, to, refused>>
  BY DEF GetToken, Usable, AwaitLogin, client, provider, CallsInv, TypeOK
<1> HIDE DEF t
<1>2. t \in 1 .. issued[to[r]] BY <1>1 DEF CallsInv, TypeOK, Cached, t
<1>3. token[r] = 0 /\ refused[r] < t
  <2>1. token[r] = 0 BY <1>1 DEF CallsInv, TypeOK
  <2>2. refused[r] = 0 => refused[r] < t BY <1>1
  <2>3. refused[r] # 0 => refused[r] < t BY <1>1 DEF CallsInv, Refusals, t
  <2> QED BY <2>1, <2>2, <2>3
<1>4. Uses' = [q \in Requests |-> IF q \in {r} THEN [Uses[q] EXCEPT !.token = t] ELSE Uses[q]]
  BY <1>1 DEF Uses, CallsInv, TypeOK
<1> QED BY <1>1, <1>2, <1>3, <1>4, UsesOf DEF Use!Send, t

LEMMA LoginSends ==
  ASSUME CallsInv, NEW p \in Providers, LoginSucceeds(p)
  PROVE Use!Send({r \in Requests : pc[r] = "waiting" /\ to[r] = p}, p, issued[p])
<1> DEFINE R == {r \in Requests : pc[r] = "waiting" /\ to[r] = p}
           t == issued[p]
<1>1. t \in 1 .. issued[p] /\ login[p] = "granted" /\ t \in Nat /\ t # 0
  <2>1. login[p] = "granted" BY DEF LoginSucceeds
  <2>2. grant[p] # None /\ t \in 0 .. MaxTokens BY <2>1, ProviderTypes
  <2>3. t > 0 BY <2>2 DEF CallsInv, Granted
  <2> QED BY <2>1, <2>2, <2>3
<1>2. /\ token' = [r \in Requests |-> IF r \in R THEN t ELSE token[r]]
      /\ refused' = refused /\ to' = to /\ issued' = issued
      /\ \A r \in Requests : (pc'[r] = "idle") = (pc[r] = "idle")
      /\ \A r \in R : pc[r] # "idle"
  BY DEF LoginSucceeds, provider
<1>3. \A r \in R : Uses[r].provider = p /\ token[r] = 0 /\ refused[r] < t
  <2> SUFFICES ASSUME NEW r \in R PROVE Uses[r].provider = p /\ token[r] = 0 /\ refused[r] < t
    OBVIOUS
  <2>1. Uses[r].provider = p BY <1>2, UsesOf
  <2>2. token[r] = 0 BY DEF CallsInv, TypeOK
  <2>3. refused[r] # 0 => refused[r] < t BY <1>1 DEF CallsInv, Refusals
  <2> QED BY <1>1, <2>1, <2>2, <2>3
<1> HIDE DEF t, R
<1>4. Uses' = [r \in Requests |-> IF r \in R THEN [Uses[r] EXCEPT !.token = t] ELSE Uses[r]]
  BY <1>2 DEF Uses
<1>5. \A r \in R : Uses[r].token = 0 /\ Uses[r].refused < t
  BY <1>3, UsesOf DEF R
<1> QED BY <1>1, <1>2, <1>3, <1>4, <1>5 DEF Use!Send, R, t

LEMMA CabureRefuses ==
  ASSUME CallsInv, NEW r \in Requests, RefusedByCabure(r), refused[r] = 0, UNCHANGED to,
         refused' = [refused EXCEPT ![r] = token[r]], token' = [token EXCEPT ![r] = 0],
         pc' = [pc EXCEPT ![r] = "refused"]
  PROVE Use!Refuse(r)
<1>1. pc[r] = "sent" /\ to[r] = "cabure" /\ token[r] # 0 /\ issued' = issued
  BY DEF RefusedByCabure, CallsInv, TypeOK, provider
<1>2. Uses' = [Uses EXCEPT ![r] = [provider |-> "cabure", token |-> 0, refused |-> token[r]]]
  BY <1>1 DEF Uses, CallsInv, TypeOK
<1> QED BY <1>1, <1>2, UsesOf DEF Use!Refuse

LEMMA CallsStepImplements ==
  ASSUME CallsInv, CallsInv', [Next]_vars
  PROVE [Use!Next]_<<issued, Uses>>
<1>1. ASSUME NEW r \in Requests, NEW p \in Providers, Begin(r, p) PROVE Use!Next
  BY <1>1, BeginStarts DEF Use!Next
<1>2. ASSUME NEW r \in Requests, CallStep(r) PROVE [Use!Next]_<<issued, Uses>>
  <2>1. CASE GetToken(r)
    <3>1. CASE Usable(to[r]) /\ UNCHANGED client
      <4>1. to[r] \in Providers /\ cached[to[r]].token \in 1 .. issued[to[r]]
        <5>1. cached[to[r]].token \in 1 .. issued[to[r]]
          BY <2>1, <3>1, GetTokenSends DEF Use!Send
        <5>2. to[r] \in Providers BY <2>1 DEF GetToken, CallsInv, TypeOK
        <5> QED BY <5>1, <5>2
      <4> QED BY <2>1, <3>1, <4>1, GetTokenSends DEF Use!Next
    <3>2. CASE AwaitLogin(r, "waiting")
      BY <2>1, <3>2, NothingShown DEF GetToken, AwaitLogin, provider, CallsInv, TypeOK
    <3> QED BY <2>1, <3>1, <3>2 DEF GetToken
  <2>2. CASE ForceLogin(r)
    BY <2>2, NothingShown DEF ForceLogin, AwaitLogin, provider, CallsInv, TypeOK
  <2>3. CASE Answered(r)
    BY <2>3, EndCallsFinish DEF Answered, provider, Use!Next
  <2>4. CASE RefusedByCabure(r)
    BY <2>4, EndCallsFinish, CabureRefuses DEF RefusedByCabure, provider, Use!Next
  <2>5. CASE RefusedByCelcoin(r)
    BY <2>5, EndCallsFinish DEF RefusedByCelcoin, provider, Use!Next
  <2> QED BY <1>2, <2>1, <2>2, <2>3, <2>4, <2>5 DEF CallStep
<1>3. ASSUME NEW p \in Providers, LoginStep(p) PROVE [Use!Next]_<<issued, Uses>>
  <2>1. ASSUME NEW life \in Lives[p], Issue(p, life) PROVE Use!Next
    BY <2>1 DEF Issue, calls, Uses, Use!Issue, Use!Next
  <2>2. CASE LoginSucceeds(p)
    <3>1. {r \in Requests : pc[r] = "waiting" /\ to[r] = p} \in SUBSET Requests
          /\ issued[p] \in 1 .. issued[p]
      BY <2>2, LoginSends DEF Use!Send
    <3> QED BY <2>2, <3>1, LoginSends DEF Use!Next
  <2>3. CASE LoginFails(p)
    <3>1. {r \in Requests : to[r] = p /\ pc[r] \in {"waiting", "forcing"}} \in SUBSET Requests
      OBVIOUS
    <3> QED BY <2>3, <3>1, EndCallsFinish DEF LoginFails, provider, Use!Next
  <2> QED BY <1>3, <2>1, <2>2, <2>3 DEF LoginStep
<1>4. CASE Tick BY <1>4 DEF Tick, provider, calls, Uses
<1>5. CASE UNCHANGED vars BY <1>5 DEF vars, provider, calls, Uses
<1> QED BY <1>1, <1>2, <1>3, <1>4, <1>5 DEF Next

(***************************************************************************)
(* The clients of Cabure and Celcoin use tokens as TokenUse says: a        *)
(* refused quote goes out once more, with a newer token                    *)
(* (cabure.service.ts, 60-110; celcoin-auth.service.ts, 29-60).            *)
(***************************************************************************)
THEOREM CallsImplementTokenUse == Spec => ImplementsTokenUse
<1>1. Init => Use!Init BY DEF Init, Uses, Use!Init, Use!NoUse
<1>2. CallsInv /\ CallsInv' /\ [Next]_vars => [Use!Next]_<<issued, Uses>>
  BY CallsStepImplements
<1> QED BY <1>1, <1>2, CallsInvariant, PTL DEF Spec, ImplementsTokenUse, Use!Spec
=============================================================================
