------------------------------ MODULE AiGateway ------------------------------
(***************************************************************************)
(* The AI gateway (services/ai-gateway/src): the caps per tenant, the log    *)
(* of calls they count, the cached access token of the provider and the     *)
(* cached prompts of the database.                                         *)
(*                                                                         *)
(* A step is the code between two awaits and takes no time; only answers of *)
(* the provider (at most LatencyMax) and of the database (QueryMax) do.     *)
(* Times are kept as ages and as time left, so that no last instant is      *)
(* needed. In the code Margin is 60 s and Ttl 5 min.                        *)
(***************************************************************************)
EXTENDS Integers

CONSTANTS
  Calls,          \* concurrent callers, each with one call after another
  Versions,       \* prompt versions an operator may activate
  None,           \* no token, no active version: the hardcoded prompt
  Cap,            \* calls of a tenant in 60 s; the daily cap of tokens alike
  LogAccepted,    \* outcomes of the INSERT into ai_call_logs
  Ttl, Margin, Life, LatencyMax, QueryMax

ASSUME VersionsAssumption == None \notin Versions
ASSUME CapAssumption == Cap \in Nat \ {0}
ASSUME LogAssumption == LogAccepted \subseteq BOOLEAN
\* The provider's tokens live for 30 days.
ASSUME TimesAssumption ==
  /\ {Ttl, Margin, Life, LatencyMax, QueryMax} \subseteq Nat
  /\ LatencyMax + QueryMax <= Margin /\ Margin < Life

VARIABLES
  logged,   \* rows of ai_call_logs in the window of the cap
  token,    \* accessToken: the time tokenExpiresAt leaves it, and its real one
  active,   \* the active version of the prompt
  ago,      \* how long ago each version was last active
  cache,    \* PromptStore.cache of the prompt
  call      \* the calls

gatewayVars == <<logged, token, active, ago, cache, call>>

-----------------------------------------------------------------------------
Prompt == Versions \cup {None}
Left == 0 .. Life
Horizon == Ttl + QueryMax + 1
Token == [left : Left, lives : Left]
CacheEntry == [version : Prompt, age : 0 .. Ttl]

\* The text of the model is JSON or is passed on as rawText.
Answer == {"none", "json", "raw", "failed"}

\* waited: for the answer it awaits. tok: what is left of the token it holds.
\* read, with: the prompt read from the database, the one in its request.
Call == [at : {"idle", "caps", "token", "prompt", "store", "reply", "log"},
         chat : BOOLEAN, waited : 0 .. (LatencyMax + QueryMax), tok : Left,
         read : Prompt, with : Prompt, answer : Answer]
IdleCall == [at |-> "idle", chat |-> FALSE, waited |-> 0, tok |-> 0,
             read |-> None, with |-> None, answer |-> "none"]

Becomes(c, rec) == call' = [call EXCEPT ![c] = rec]

\* The request leaves, with a prompt of the store or the hardcoded one.
Sent(rec, version) ==
  [rec EXCEPT !.at = "reply", !.with = version, !.read = None, !.waited = 0]

\* getActive answers from the cache for Ttl.
CacheIsFresh == cache # None /\ cache.age < Ttl

\* With a token the OCR request leaves at once, a chat request once it has its
\* prompt, for which the cache or the database is asked.
WithToken(rec, lives) ==
  LET r == [rec EXCEPT !.tok = lives, !.waited = 0]
  IN  IF ~r.chat THEN Sent(r, None)
      ELSE IF CacheIsFresh THEN Sent(r, cache.version)
      ELSE [r EXCEPT !.at = "prompt"]

Ends(rec, answer) == [IdleCall EXCEPT !.at = "log", !.answer = answer]

-----------------------------------------------------------------------------
Invoke(c, chat) ==
  /\ call[c].at = "idle"
  /\ Becomes(c, [IdleCall EXCEPT !.at = "caps", !.chat = chat])
  /\ UNCHANGED <<logged, token, active, ago, cache>>

\* Mutant: the token is used up to its last moment.
TokenIsFreshToTheEnd == token # None /\ token.left > 0

\* getAccessToken: the cached token is used until Margin before its end.
TokenIsFresh == token # None /\ token.left > Margin

\* Too many rows of the log in the window: the calls themselves are not counted.
OverCap == logged >= Cap

\* enforceCaps: the rows logged are counted; a call over the cap is refused with
\* a RateLimitError and not logged. The others go on to the token.
EnforceCaps(c) ==
  /\ call[c].at = "caps"
  /\ Becomes(c,
       IF OverCap THEN IdleCall
       ELSE IF TokenIsFresh THEN WithToken(call[c], token.lives)
       ELSE [call[c] EXCEPT !.at = "token", !.waited = 0])
  /\ UNCHANGED <<logged, token, active, ago, cache>>

\* The caps cannot be read: no client of the pool, or a SELECT fails. The call is
\* refused before the block that logs it.
CapsUnread(c) ==
  /\ call[c].at = "caps"
  /\ Becomes(c, IdleCall)
  /\ UNCHANGED <<logged, token, active, ago, cache>>

\* The token's answer: its life counts from when it was issued, tokenExpiresAt
\* from when the answer is read.
TokenArrives(c) ==
  /\ call[c].at = "token"
  /\ \E spent \in 0 .. call[c].waited :
       /\ token' = [left |-> Life, lives |-> Life - spent]
       /\ Becomes(c, WithToken(call[c], Life - spent))
  /\ UNCHANGED <<logged, active, ago, cache>>

TokenRefused(c) ==
  /\ call[c].at = "token"
  /\ Becomes(c, Ends(call[c], "failed"))
  /\ UNCHANGED <<logged, token, active, ago, cache>>

\* The SELECT of the active version; its answer is cached from when it is read.
ReadPrompt(c) ==
  /\ call[c].at = "prompt"
  /\ Becomes(c, [call[c] EXCEPT !.at = "store", !.read = active])
  /\ UNCHANGED <<logged, token, active, ago, cache>>

StorePrompt(c) ==
  /\ call[c].at = "store"
  /\ cache' = [version |-> call[c].read, age |-> 0]
  /\ Becomes(c, Sent(call[c], call[c].read))
  /\ UNCHANGED <<logged, token, active, ago>>

\* The database fails: the hardcoded prompt, and nothing is cached.
PromptLookupFails(c) ==
  /\ call[c].at \in {"prompt", "store"}
  /\ Becomes(c, Sent(call[c], None))
  /\ UNCHANGED <<logged, token, active, ago, cache>>

\* An error status, an error_code, no image in an OCR request, no answer in time:
\* all fail the call.
ProviderAnswers(c, answer) ==
  /\ call[c].at = "reply"
  /\ answer = "raw" => call[c].chat
  /\ Becomes(c, Ends(call[c], answer))
  /\ UNCHANGED <<logged, token, active, ago, cache>>

\* The finally block: a row of the log, or its INSERT fails and the caller gets
\* the answer all the same. As the schema stands every INSERT fails: it does not
\* name template_name, which is NOT NULL (0012_prompts_ai.sql:49).
LogCall(c) ==
  /\ call[c].at = "log"
  /\ \E accepted \in LogAccepted : logged' = IF accepted THEN logged + 1 ELSE logged
  /\ Becomes(c, IdleCall)
  /\ UNCHANGED <<token, active, ago, cache>>

-----------------------------------------------------------------------------
Activate(v) ==
  /\ active' = v
  /\ ago' = [ago EXCEPT ![v] = 0]
  /\ UNCHANGED <<logged, token, cache, call>>

\* A row leaves the window of the cap.
WindowMoves ==
  /\ logged > 0
  /\ logged' = logged - 1
  /\ UNCHANGED <<token, active, ago, cache, call>>

\* A database statement ends within QueryMax, an answer comes within LatencyMax.
InTime(c) ==
  /\ call[c].at \in {"caps", "prompt", "store"} => call[c].waited < QueryMax
  /\ call[c].at \in {"token", "reply"} => call[c].waited < LatencyMax

Older(n, most) == IF n < most THEN n + 1 ELSE n
Shorter(n) == IF n > 0 THEN n - 1 ELSE 0

Tick ==
  /\ \A c \in Calls : InTime(c)
  /\ token' = IF token = None THEN None
              ELSE [left |-> Shorter(token.left), lives |-> Shorter(token.lives)]
  /\ ago' = [v \in Prompt |-> IF v = active THEN 0 ELSE Older(ago[v], Horizon)]
  /\ cache' = IF cache = None THEN None ELSE [cache EXCEPT !.age = Older(@, Ttl)]
  /\ call' = [c \in Calls |->
       IF call[c].at \in {"idle", "log"} THEN call[c]
       ELSE [call[c] EXCEPT !.waited = @ + 1, !.tok = Shorter(@)]]
  /\ UNCHANGED <<logged, active>>

GatewayInit ==
  /\ logged = 0 /\ token = None /\ cache = None
  /\ active \in Prompt
  /\ ago = [v \in Prompt |-> IF v = active THEN 0 ELSE Horizon]
  /\ call = [c \in Calls |-> IdleCall]

Serve(c) ==
  \/ EnforceCaps(c) \/ CapsUnread(c) \/ TokenArrives(c) \/ TokenRefused(c)
  \/ ReadPrompt(c) \/ StorePrompt(c) \/ PromptLookupFails(c)
  \/ \E answer \in {"json", "raw", "failed"} : ProviderAnswers(c, answer)
  \/ LogCall(c)

GatewayNext ==
  \/ \E c \in Calls : Serve(c) \/ \E chat \in BOOLEAN : Invoke(c, chat)
  \/ \E v \in Prompt : Activate(v)
  \/ WindowMoves \/ Tick

GatewaySpec == GatewayInit /\ [][GatewayNext]_gatewayVars

-----------------------------------------------------------------------------
GatewayTypeOK ==
  /\ logged \in Nat
  /\ token \in Token \cup {None}
  /\ active \in Prompt /\ ago \in [Prompt -> 0 .. Horizon]
  /\ cache \in CacheEntry \cup {None}
  /\ call \in [Calls -> Call]

Leaves(c) == call[c].at # "reply" /\ call'[c].at = "reply"

\* A request leaves with a token that is still alive, though it was checked before
\* the prompt was awaited, and with a prompt that was the active one at most Ttl
\* and one database statement ago, or the hardcoded one (qianfan-provider.ts:83,
\* prompt-store.ts:62).
CachesFreshWhenUsed ==
  [][\A c \in Calls : Leaves(c) =>
       /\ call'[c].tok > 0
       /\ call'[c].with = None \/ ago[call'[c].with] <= Ttl + QueryMax]_gatewayVars
=============================================================================
