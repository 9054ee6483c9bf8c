---------------------------- MODULE OneTimeTokens ----------------------------
(***************************************************************************)
(* What auth-svc promises about refresh tokens, with no transactions, rows  *)
(* or locks in sight: a token is issued once, is live until it is exchanged *)
(* or revoked, and buys at most one successor.                              *)
(*                                                                         *)
(* RefreshTokens is the detailed specification that implements this one.    *)
(***************************************************************************)
CONSTANTS
  Tokens,
  NoToken

VARIABLES
  live,     \* tokens a client may still exchange
  spent,    \* tokens exchanged or revoked
  price     \* the token each token was exchanged for, NoToken after a login

vars == <<live, spent, price>>

Init ==
  /\ live = {}
  /\ spent = {}
  /\ price = [t \in Tokens |-> NoToken]

\* A login opens a session with a token nobody has seen.
Open(n) ==
  /\ n \notin live \cup spent
  /\ live' = live \cup {n}
  /\ UNCHANGED <<spent, price>>

\* A refresh exchanges a live token for a fresh one, in one step.
Exchange(t, n) ==
  /\ t \in live
  /\ n \notin live \cup spent
  /\ live' = (live \ {t}) \cup {n}
  /\ spent' = spent \cup {t}
  /\ price' = [price EXCEPT ![n] = t]

\* A logout or a detected re-use revokes some live tokens, all at once.
Revoke(S) ==
  /\ S \subseteq live
  /\ live' = live \ S
  /\ spent' = spent \cup S
  /\ UNCHANGED price

Next ==
  \/ \E n \in Tokens : Open(n)
  \/ \E t, n \in Tokens : Exchange(t, n)
  \/ \E S \in SUBSET Tokens : Revoke(S)

Spec == Init /\ [][Next]_vars
=============================================================================
