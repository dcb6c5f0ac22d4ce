------------------------------ MODULE TokenUse ------------------------------
(***************************************************************************)
(* What the token caches of Celcoin and Cabure promise.  A provider issues *)
(* tokens one after the other.  A call goes out with one token that was    *)
(* issued; a call to a provider that is asked again after a refusal goes   *)
(* out a second and last time, with a token issued later than the refused  *)
(* one.                                                                    *)
(***************************************************************************)
EXTENDS Integers

CONSTANTS Requests, Providers, AskedAgain

VARIABLES
  latest,  \* latest[p]: the number of tokens p issued
  use      \* use[r]: provider ("" when idle), token sent with (0: none), refused token

NoUse == [provider |-> "", token |-> 0, refused |-> 0]

Init ==
  /\ latest = [p \in Providers |-> 0]
  /\ use = [r \in Requests |-> NoUse]

Issue(p) ==
  /\ latest' = [latest EXCEPT ![p] = @ + 1]
  /\ UNCHANGED use

Start(r, p) ==
  /\ use[r].provider = ""
  /\ use' = [use EXCEPT ![r] = [NoUse EXCEPT !.provider = p]]
  /\ UNCHANGED latest

\* Everybody in R goes out with token t of p.
Send(R, p, t) ==
  /\ t \in 1 .. latest[p]
  /\ \A r \in R : use[r].provider = p /\ use[r].token = 0 /\ use[r].refused < t
  /\ use' = [r \in Requests |-> IF r \in R THEN [use[r] EXCEPT !.token = t] ELSE use[r]]
  /\ UNCHANGED latest

Refuse(r) ==
  /\ use[r].provider \in AskedAgain
  /\ use[r].token # 0
  /\ use[r].refused = 0
  /\ use' = [use EXCEPT ![r] = [provider |-> @.provider, token |-> 0, refused |-> @.token]]
  /\ UNCHANGED latest

Finish(R) ==
  /\ use' = [r \in Requests |-> IF r \in R THEN NoUse ELSE use[r]]
  /\ UNCHANGED latest

Next ==
  \/ \E p \in Providers : Issue(p)
  \/ \E r \in Requests, p \in Providers : Start(r, p)
  \/ \E R \in SUBSET Requests, p \in Providers : \E t \in 1 .. latest[p] : Send(R, p, t)
  \/ \E r \in Requests : Refuse(r)
  \/ \E R \in SUBSET Requests : Finish(R)

Spec == Init /\ [][Next]_<<latest, use>>
=============================================================================
