-------------------------- MODULE MCRefreshTokens ---------------------------
(* Instances of RefreshTokens for TLC. *)
EXTENDS RefreshTokens, TLC

CONSTANT Devices   \* the tokens of the devices that are signed in at first

\* Each request issues at most one token, so ids never run out.
ASSUME EnoughTokens == Cardinality(Tokens) >= Cardinality(Requests) + Cardinality(Devices)

\* Requests and tokens are interchangeable for the safety properties.
Symmetry == Permutations(Requests) \cup Permutations(Tokens)
            \cup Permutations(Users)

\* The state after a user has signed in on every device, in one millisecond:
\* one that Init reaches with as many requests more.
SignedIn ==
  /\ refresh_tokens = [t \in Tokens |->
       IF t \in Devices
       THEN [FreeRow EXCEPT !.state = "live", !.user = CHOOSE u \in Users : TRUE, !.session = t]
       ELSE FreeRow]
  /\ active = Users
  /\ expired = {}
  /\ clock = 0
  /\ req = [r \in Requests |-> NewHandler]

\* Requests arrive in the order of their names and the least free id is given
\* out next, which only renames them. Expiry and deactivation, which refuse
\* requests and make none wait, stay out.
SignedInNext ==
  /\ \/ Quiet
     \/ \E r \in Requests :
          \/ Arrive(r) /\ \A s \in Requests : s < r => req[s].at # "new"
          \/ Proceed(r) \/ StatementCancelled(r) \/ ConnectionLost(r)
  /\ \A s, t \in Tokens :
       /\ refresh_tokens[t].state = "free" /\ refresh_tokens'[t].state # "free"
       /\ refresh_tokens[s].state = "free"
       => t <= s

SignedInSpec == SignedIn /\ [][SignedInNext]_vars /\ Fairness
=============================================================================
