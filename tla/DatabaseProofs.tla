---------------------------- MODULE DatabaseProofs ----------------------------
(* The tenant context of a connection, the migration runner and the lists with  *)
(* a cursor, for any workers, runners, files and rows: a worker sees its own    *)
(* tenant alone, a file is never applied over a hole, the pages hold all once.  *)
EXTENDS TenantContext, Migrations, Paging, FiniteSetTheorems, TLAPS

\* The pool lends a client to one call at a time.
OneBorrower ==
  \A v, w \in Works : Holds(v) /\ Holds(w) /\ work[v].client = work[w].client => v = w

\* What the wrapper of a transaction has set, step by step.
InTransaction(w) ==
  LET s == settings[work[w].client] IN
  /\ work[w].at # "reset"
  /\ work[w].client \notin unreset => s.session = Nothing
  /\ work[w].at \in {"begin", "tenant"} => s.local = Nothing
  /\ work[w].at = "rest" => s.local = [tenant |-> work[w].own.tenant, agent |-> Unset]
  /\ work[w].at = "fn" => s.local = work[w].own

\* What the read-only wrapper has set.
InSession(w) ==
  LET s == settings[work[w].client] IN
  /\ work[w].at \in {"tenant", "rest", "fn", "reset"}
  /\ s.local = Nothing
  /\ work[w].at = "tenant" /\ work[w].client \notin unreset => s.session = Nothing
  /\ work[w].at \in {"rest", "fn"} => s.session.tenant = work[w].own.tenant
  /\ work[w].at = "rest" /\ work[w].client \notin unreset => s.session.agent = Unset
  /\ work[w].at = "fn" /\ work[w].client \notin unreset => s.session.agent = work[w].own.agent

Prepared(w) ==
  /\ work[w].at # "idle" => work[w].own.tenant \in Tenants
  /\ Holds(w) /\ work[w].kind = "tx" => InTransaction(w)
  /\ Holds(w) /\ work[w].kind = "session" => InSession(w)

\* A client nobody holds.
Clean(k) ==
  settings[k].local = Nothing /\ (settings[k].session # Nothing => k \in unreset)

\* The inductive invariant: who holds a client, and what is set on it at each step.
ContextInv ==
  /\ ContextTypeOK
  /\ OneBorrower
  /\ \A w \in Works : Prepared(w)
  /\ \A k \in Clients \ Held : Clean(k)

-----------------------------------------------------------------------------
\* Types of the fields, for the leaves that need only one.
LEMMA Fields ==
  ASSUME ContextTypeOK, NEW w \in Works
  PROVE  /\ work[w] \in Work /\ work[w].client \in Clients
         /\ work[w].own \in Scope /\ work[w].kind \in Kind
         /\ settings[work[w].client] \in [session : Scope, local : Scope]
  BY DEF ContextTypeOK, Work

\* A step of a call that holds a client and touches no other: what is left to
\* show is about that call and its client.
LEMMA HolderSteps ==
  ASSUME ContextInv, NEW w \in Works, Holds(w),
         work' \in [Works -> Work], \A v \in Works \ {w} : work'[v] = work[v],
         work'[w].client = work[w].client,
         settings' \in [Clients -> [session : Scope, local : Scope]],
         \A k \in Clients \ {work[w].client} : settings'[k] = settings[k],
         unreset' \subseteq Clients,
         \A k \in Clients \ {work[w].client} : k \in unreset' <=> k \in unreset,
         Prepared(w)',
         ~Holds(w)' => Clean(work[w].client)'
  PROVE  ContextInv'
<1>1. ContextTypeOK'
  BY DEF ContextTypeOK
<1>2. \A v \in Works : Holds(v)' => Holds(v)
  BY DEF Holds
<1>3. \A v \in Works : work'[v].client = work[v].client
  OBVIOUS
<1>4. OneBorrower'
  BY <1>2, <1>3 DEF OneBorrower, ContextInv
<1>5. ASSUME NEW v \in Works PROVE Prepared(v)'
  <2>1. CASE v = w
    BY <2>1
  <2>2. CASE v # w /\ ~Holds(v)
    BY <2>2 DEF Prepared, Holds, ContextInv
  <2>3. CASE v # w /\ Holds(v)
    <3>1. work[v].client # work[w].client /\ work[v].client \in Clients
      BY <2>3, Fields DEF ContextInv, OneBorrower
    <3>2. /\ settings'[work[v].client] = settings[work[v].client]
          /\ work[v].client \in unreset' <=> work[v].client \in unreset
          /\ work'[v] = work[v]
      BY <3>1, <2>3
    <3>3. QED
      BY <2>3, <3>2 DEF ContextInv, Prepared, Holds, InTransaction, InSession
  <2>4. QED
    BY <2>1, <2>2, <2>3
<1>6. ASSUME NEW k \in Clients, k \notin Held' PROVE Clean(k)'
  <2>1. CASE k = work[w].client
    <3>1. ~Holds(w)'
      BY <1>6, <2>1, <1>3 DEF Held
    <3>2. QED
      BY <3>1, <2>1
  <2>2. CASE k # work[w].client
    <3>1. k \notin Held
      <4>1. SUFFICES ASSUME NEW v \in Works, Holds(v), work[v].client = k PROVE FALSE
        BY DEF Held
      <4>2. v # w
        BY <4>1, <2>2
      <4>3. Holds(v)' /\ work'[v].client = k
        BY <4>1, <4>2 DEF Holds
      <4>4. QED
        BY <4>3, <1>6 DEF Held
    <3>2. Clean(k)
      BY <3>1 DEF ContextInv
    <3>3. QED
      BY <3>2, <2>2 DEF Clean
  <2>3. QED
    BY <2>1, <2>2
<1>7. QED
  BY <1>1, <1>4, <1>5, <1>6 DEF ContextInv

-----------------------------------------------------------------------------
LEMMA ContextInitInv == ContextInit => ContextInv
<1> SUFFICES ASSUME ContextInit PROVE ContextInv
  OBVIOUS
<1>1. (CHOOSE k \in Clients : TRUE) \in Clients
  BY ClientsAssumption
<1>2. \A w \in Works : work[w].at = "idle" /\ ~Holds(w)
  BY DEF ContextInit, Holds
<1>3. ContextTypeOK
  <2>1. Nothing \in Scope /\ Fresh \in [session : Scope, local : Scope]
    BY DEF Scope, Nothing, Fresh
  <2>2. [at |-> "idle", kind |-> "tx", own |-> Nothing, client |-> CHOOSE k \in Clients : TRUE]
          \in Work
    BY <1>1, <2>1 DEF Work, Kind
  <2>3. QED
    BY <2>1, <2>2 DEF ContextInit, ContextTypeOK
<1>4. \A k \in Clients : Clean(k)
  BY DEF ContextInit, Clean, Fresh
<1>5. OneBorrower /\ \A w \in Works : Prepared(w)
  BY <1>2 DEF OneBorrower, Prepared
<1>6. QED
  BY <1>3, <1>4, <1>5 DEF ContextInv

\* A call that holds no client begins.
LEMMA EnterKeeps ==
  ASSUME ContextInv, NEW w \in Works, NEW kind \in Kind, NEW tenant \in Tenants,
         NEW agent \in Agents \cup {Unset}, Enter(w, kind, tenant, agent)
  PROVE  ContextInv'
<1>1. work' \in [Works -> Work]
  <2>1. [tenant |-> tenant, agent |-> agent] \in Scope
    BY DEF Scope
  <2>2. PICK entered : entered = [work[w] EXCEPT !.at = "connect", !.kind = kind,
                                   !.own = [tenant |-> tenant, agent |-> agent]]
    OBVIOUS
  <2>3. entered \in Work
    BY <2>1, <2>2, Fields DEF ContextInv, Work
  <2>4. work' = [work EXCEPT ![w] = entered]
    BY <2>2 DEF Enter
  <2>5. QED
    BY <2>3, <2>4 DEF ContextInv, ContextTypeOK
<1>2. \A v \in Works : /\ Holds(v)' <=> Holds(v)
                       /\ Holds(v) => work'[v] = work[v]
                       /\ work'[v].client = work[v].client
  BY DEF Enter, Holds, ContextInv, ContextTypeOK
<1>3. Held' = Held
  BY <1>2 DEF Held
<1>4. ASSUME NEW v \in Works PROVE Prepared(v)'
  <2>1. CASE v = w
    <3>1. work'[w].own.tenant = tenant /\ ~Holds(w)'
      BY Fields DEF Enter, Holds, ContextInv, ContextTypeOK, Work
    <3>2. QED
      BY <2>1, <3>1 DEF Prepared
  <2>2. CASE v # w
    <3>1. work'[v] = work[v] /\ settings' = settings /\ unreset' = unreset
      BY <2>2 DEF Enter, ContextInv, ContextTypeOK
    <3>2. QED
      BY <3>1 DEF ContextInv, Prepared, Holds, InTransaction, InSession
  <2>3. QED
    BY <2>1, <2>2
<1>5. QED
  BY <1>1, <1>2, <1>3, <1>4 DEF ContextInv, ContextTypeOK, OneBorrower, Clean, Enter

\* A client of the pool is borrowed: nothing is set on it but what a failed reset left.
LEMMA ConnectKeeps ==
  ASSUME ContextInv, NEW w \in Works, NEW k \in Clients, Connect(w, k)
  PROVE  ContextInv'
<1>1. work' \in [Works -> Work]
  BY Fields DEF Connect, ContextInv, ContextTypeOK, Work
<1>2. /\ ~Holds(w) /\ Holds(w)' /\ work'[w].client = k /\ work'[w].own = work[w].own
      /\ work'[w].kind = work[w].kind
      /\ work'[w].at = IF work[w].kind = "tx" THEN "begin" ELSE "tenant"
  BY DEF Connect, Holds, ContextInv, ContextTypeOK
<1>3. \A v \in Works \ {w} : work'[v] = work[v]
  BY DEF Connect, ContextInv, ContextTypeOK
<1>4. \A v \in Works : Holds(v) => work[v].client # k
  BY DEF Connect, Held
<1>5. Clean(k)
  BY DEF Connect, ContextInv
<1>6. OneBorrower'
  BY <1>2, <1>3, <1>4 DEF OneBorrower, ContextInv, Holds
<1>7. ASSUME NEW v \in Works PROVE Prepared(v)'
  <2>1. CASE v = w
    <3>1. settings' = settings /\ unreset' = unreset
      BY DEF Connect
    <3>2. work[w].own.tenant \in Tenants
      BY DEF Connect, ContextInv, Prepared
    <3>3. work'[w].kind = "tx" => InTransaction(w)'
      BY <3>1, <1>2, <1>5 DEF InTransaction, Clean
    <3>4. work'[w].kind = "session" => InSession(w)'
      BY <3>1, <1>2, <1>5 DEF InSession, Clean
    <3>5. QED
      BY <2>1, <1>2, <3>2, <3>3, <3>4 DEF Prepared
  <2>2. CASE v # w
    <3>1. work'[v] = work[v] /\ settings' = settings /\ unreset' = unreset
      BY <2>2, <1>3 DEF Connect
    <3>2. QED
      BY <3>1 DEF ContextInv, Prepared, Holds, InTransaction, InSession
  <2>3. QED
    BY <2>1, <2>2
<1>8. \A c \in Clients : c \notin Held' => c \notin Held
  BY <1>2, <1>3 DEF Held, Holds
<1>9. \A c \in Clients \ Held' : Clean(c)'
  BY <1>8 DEF ContextInv, Clean, Connect
<1>10. QED
  BY <1>1, <1>6, <1>7, <1>9 DEF ContextInv, ContextTypeOK, Connect

\* What Moves changes of the call, and that it leaves the others alone.
LEMMA Moved ==
  ASSUME ContextTypeOK, NEW w \in Works,
         NEW at \in {"idle", "tenant", "rest", "fn", "commit", "rollback", "reset"},
         Moves(w, at)
  PROVE  /\ work' \in [Works -> Work] /\ \A v \in Works \ {w} : work'[v] = work[v]
         /\ work'[w].at = at /\ work'[w].client = work[w].client
         /\ work'[w].kind = work[w].kind /\ work'[w].own = work[w].own
<1>1. PICK moved : moved = [work[w] EXCEPT !.at = at]
  OBVIOUS
<1>2. work[w] \in Work
  BY Fields
<1>3. /\ moved \in Work /\ moved.at = at /\ moved.client = work[w].client
      /\ moved.kind = work[w].kind /\ moved.own = work[w].own
  BY <1>1, <1>2 DEF Work
<1>4. work' = [work EXCEPT ![w] = moved]
  BY <1>1 DEF Moves
<1>5. QED
  BY <1>3, <1>4 DEF ContextTypeOK

\* A step that changes nothing but where the call stands.
LEMMA MoveKeeps ==
  ASSUME ContextInv, NEW w \in Works, Holds(w),
         NEW at \in {"tenant", "rest", "fn", "commit", "rollback", "reset"},
         Moves(w, at), UNCHANGED <<settings, unreset>>,
         work[w].kind = "tx" => InTransaction(w)',
         work[w].kind = "session" => InSession(w)'
  PROVE  ContextInv'
<1>1. /\ work' \in [Works -> Work] /\ \A v \in Works \ {w} : work'[v] = work[v]
      /\ work'[w].at = at /\ work'[w].client = work[w].client
      /\ work'[w].kind = work[w].kind /\ work'[w].own = work[w].own
  BY Moved DEF ContextInv
<1>2. Holds(w)' /\ work[w].own.tenant \in Tenants
  BY <1>1 DEF Holds, ContextInv, Prepared
<1>3. Prepared(w)'
  BY <1>1, <1>2 DEF Prepared
<1>4. settings' = settings /\ unreset' = unreset
  OBVIOUS
<1>5. QED
  BY <1>1, <1>2, <1>3, <1>4, HolderSteps DEF ContextInv, ContextTypeOK

LEMMA BeginKeeps ==
  ASSUME ContextInv, NEW w \in Works, BeginTransaction(w) PROVE ContextInv'
<1>1. /\ Holds(w) /\ Moves(w, "tenant") /\ UNCHANGED <<settings, unreset>>
      /\ work[w].at = "begin"
  BY DEF BeginTransaction, Holds
<1>2. /\ work'[w].at = "tenant" /\ work'[w].client = work[w].client
      /\ work'[w].own = work[w].own
  BY <1>1, Moved DEF ContextInv
<1>3. work[w].kind = "tx" => InTransaction(w) /\ InTransaction(w)'
  BY <1>1, <1>2 DEF ContextInv, Prepared, InTransaction
<1>4. work[w].kind # "session"
  BY <1>1 DEF ContextInv, Prepared, InSession
<1>5. QED
  BY <1>1, <1>3, <1>4, MoveKeeps

LEMMA FnReturnsKeeps ==
  ASSUME ContextInv, NEW w \in Works, FnReturns(w) PROVE ContextInv'
<1>1. /\ Holds(w) /\ UNCHANGED <<settings, unreset>> /\ work[w].at = "fn"
      /\ Moves(w, Ending(work[w].kind))
  BY DEF FnReturns, Holds
<1>2. PICK at \in {"commit", "reset"} :
        at = Ending(work[w].kind) /\ (at = "commit" <=> work[w].kind = "tx")
  BY DEF Ending
<1>3. /\ work'[w].at = at /\ work'[w].client = work[w].client
      /\ work'[w].own = work[w].own
  BY <1>1, <1>2, Moved DEF ContextInv
<1>4. work[w].kind = "tx" => InTransaction(w)'
  BY <1>1, <1>2, <1>3 DEF ContextInv, Prepared, InTransaction
<1>5. work[w].kind = "session" => InSession(w)'
  BY <1>1, <1>2, <1>3 DEF ContextInv, Prepared, InSession
<1>6. QED
  BY <1>1, <1>2, <1>4, <1>5, MoveKeeps

LEMMA ThrowsKeeps ==
  ASSUME ContextInv, NEW w \in Works, Throws(w) PROVE ContextInv'
<1>1. Holds(w) /\ UNCHANGED <<settings, unreset>>
  BY DEF Throws, Holds
<1>2. PICK at \in {"rollback", "reset"} :
        Moves(w, at) /\ (at = "rollback" <=> work[w].kind = "tx")
  BY DEF Throws
<1>3. /\ work'[w].at = at /\ work'[w].client = work[w].client
      /\ work'[w].own = work[w].own
  BY <1>2, Moved DEF ContextInv
<1>4. work[w].kind = "tx" => InTransaction(w)'
  BY <1>1, <1>2, <1>3 DEF ContextInv, Prepared, InTransaction
<1>5. work[w].kind = "session" => InSession(w)'
  BY <1>1, <1>2, <1>3 DEF ContextInv, Prepared, InSession
<1>6. QED
  BY <1>1, <1>2, <1>4, <1>5, MoveKeeps

-----------------------------------------------------------------------------
\* What Set writes.
LEMMA SetIs ==
  ASSUME ContextTypeOK, NEW w \in Works, NEW name \in {"tenant", "agent"}, Set(w, name)
  PROVE  /\ settings' \in [Clients -> [session : Scope, local : Scope]]
         /\ \A k \in Clients \ {work[w].client} : settings'[k] = settings[k]
         /\ work[w].kind = "tx" =>
              /\ settings'[work[w].client].session = settings[work[w].client].session
              /\ settings'[work[w].client].local =
                   [settings[work[w].client].local EXCEPT ![name] = work[w].own[name]]
         /\ work[w].kind # "tx" =>
              /\ settings'[work[w].client].local = settings[work[w].client].local
              /\ settings'[work[w].client].session =
                   [settings[work[w].client].session EXCEPT ![name] = work[w].own[name]]
<1>1. PICK k \in Clients : k = work[w].client
  BY Fields
<1>2. PICK value : value = work[w].own[name]
  OBVIOUS
<1>3. settings[k] \in [session : Scope, local : Scope] /\ settings \in [Clients -> [session : Scope, local : Scope]]
  BY <1>1 DEF ContextTypeOK
<1>4. name = "tenant" => value \in Tenants \cup {Unset}
  BY <1>2, Fields DEF Scope
<1>5. name = "agent" => value \in Agents \cup {Unset}
  BY <1>2, Fields DEF Scope
<1>6. /\ [settings[k].local EXCEPT ![name] = value] \in Scope
      /\ [settings[k].session EXCEPT ![name] = value] \in Scope
  BY <1>3, <1>4, <1>5 DEF Scope
<1>7. CASE work[w].kind = "tx"
  <2>1. settings' = [settings EXCEPT ![k] =
                       [settings[k] EXCEPT !.local = [settings[k].local EXCEPT ![name] = value]]]
    BY <1>1, <1>2, <1>7 DEF Set, IsLocal
  <2>2. QED
    BY <2>1, <1>1, <1>2, <1>3, <1>6, <1>7
<1>8. CASE work[w].kind # "tx"
  <2>1. settings' = [settings EXCEPT ![k] =
                       [settings[k] EXCEPT !.session = [settings[k].session EXCEPT ![name] = value]]]
    BY <1>1, <1>2, <1>8 DEF Set, IsLocal
  <2>2. QED
    BY <2>1, <1>1, <1>2, <1>3, <1>6, <1>8
<1>9. QED
  BY <1>7, <1>8

LEMMA ApplyTenantKeeps ==
  ASSUME ContextInv, NEW w \in Works, ApplyTenant(w) PROVE ContextInv'
<1>1. /\ Holds(w) /\ work[w].at = "tenant" /\ Set(w, "tenant") /\ Moves(w, "rest")
      /\ unreset' = unreset /\ unreset \subseteq Clients
  BY DEF ApplyTenant, Holds, ContextInv, ContextTypeOK
<1>2. /\ work' \in [Works -> Work] /\ \A v \in Works \ {w} : work'[v] = work[v]
      /\ work'[w].at = "rest" /\ work'[w].client = work[w].client
      /\ work'[w].kind = work[w].kind /\ work'[w].own = work[w].own
  BY <1>1, Moved DEF ContextInv
<1>3. PICK k \in Clients : k = work[w].client
  BY Fields DEF ContextInv
<1>4. work[w].own \in Scope /\ settings[k].session \in Scope /\ settings[k].local \in Scope
  BY <1>3, Fields DEF ContextInv
<1>5. work[w].own.tenant \in Tenants
  BY <1>1 DEF ContextInv, Prepared
<1>6. work[w].kind = "tx" => InTransaction(w)'
  <2> SUFFICES ASSUME work[w].kind = "tx" PROVE InTransaction(w)'
    OBVIOUS
  <2>1. settings[k].local = Nothing /\ (k \notin unreset => settings[k].session = Nothing)
    BY <1>1, <1>3 DEF ContextInv, Prepared, InTransaction
  <2>2. /\ settings'[k].session = settings[k].session
        /\ settings'[k].local = [Nothing EXCEPT !["tenant"] = work[w].own["tenant"]]
    BY <1>1, <1>3, <2>1, SetIs DEF ContextInv
  <2>3. settings'[k].local = [tenant |-> work[w].own.tenant, agent |-> Unset]
    BY <2>2 DEF Nothing
  <2>4. QED
    BY <1>1, <1>2, <1>3, <2>1, <2>2, <2>3 DEF InTransaction
<1>7. work[w].kind = "session" => InSession(w)'
  <2> SUFFICES ASSUME work[w].kind = "session" PROVE InSession(w)'
    OBVIOUS
  <2>1. settings[k].local = Nothing /\ (k \notin unreset => settings[k].session = Nothing)
    BY <1>1, <1>3 DEF ContextInv, Prepared, InSession
  <2>2. /\ settings'[k].local = settings[k].local
        /\ settings'[k].session = [settings[k].session EXCEPT !["tenant"] = work[w].own["tenant"]]
    BY <1>1, <1>3, SetIs DEF ContextInv
  <2>3. /\ settings'[k].session.tenant = work[w].own.tenant
        /\ settings'[k].session.agent = settings[k].session.agent
    BY <2>2, <1>4 DEF Scope
  <2>4. k \notin unreset => settings'[k].session.agent = Unset
    BY <2>1, <2>3 DEF Nothing
  <2>5. QED
    BY <1>1, <1>2, <1>3, <2>1, <2>2, <2>3, <2>4 DEF InSession
<1>8. Prepared(w)'
  BY <1>2, <1>5, <1>6, <1>7 DEF Prepared
<1>9. /\ settings' \in [Clients -> [session : Scope, local : Scope]]
      /\ \A c \in Clients \ {work[w].client} : settings'[c] = settings[c]
  BY <1>1, SetIs DEF ContextInv
<1>10. Holds(w)'
  BY <1>2 DEF Holds
<1>11. QED
  BY <1>1, <1>2, <1>8, <1>9, <1>10, HolderSteps

LEMMA ApplyRestKeeps ==
  ASSUME ContextInv, NEW w \in Works, ApplyRest(w) PROVE ContextInv'
<1>1. /\ Holds(w) /\ work[w].at = "rest" /\ Moves(w, "fn")
      /\ unreset' = unreset /\ unreset \subseteq Clients
  BY DEF ApplyRest, Holds, ContextInv, ContextTypeOK
<1>2. /\ work' \in [Works -> Work] /\ \A v \in Works \ {w} : work'[v] = work[v]
      /\ work'[w].at = "fn" /\ work'[w].client = work[w].client
      /\ work'[w].kind = work[w].kind /\ work'[w].own = work[w].own
  BY <1>1, Moved DEF ContextInv
<1>3. PICK k \in Clients : k = work[w].client
  BY Fields DEF ContextInv
<1>4. PICK own \in Scope : own = work[w].own
  BY Fields DEF ContextInv
<1>5. own.tenant \in Tenants /\ settings[k].session \in Scope
  BY <1>1, <1>3, <1>4, Fields DEF ContextInv, Prepared
<1>6. /\ settings' \in [Clients -> [session : Scope, local : Scope]]
      /\ \A c \in Clients \ {k} : settings'[c] = settings[c]
      /\ work[w].kind = "tx" =>
           /\ settings'[k].session = settings[k].session
           /\ \/ settings'[k].local = [settings[k].local EXCEPT !["agent"] = own["agent"]]
              \/ own.agent = Unset /\ settings'[k].local = settings[k].local
      /\ work[w].kind = "session" =>
           /\ settings'[k].local = settings[k].local
           /\ \/ settings'[k].session = [settings[k].session EXCEPT !["agent"] = own["agent"]]
              \/ own.agent = Unset /\ settings'[k].session = settings[k].session
  <2>1. CASE own.agent = Unset
    <3>1. settings' = settings
      BY <1>4, <2>1 DEF ApplyRest
    <3>2. QED
      BY <2>1, <3>1 DEF ContextInv, ContextTypeOK
  <2>2. CASE own.agent # Unset
    <3>1. Set(w, "agent")
      BY <1>4, <2>2 DEF ApplyRest
    <3>2. ContextTypeOK /\ "agent" \in {"tenant", "agent"}
      BY DEF ContextInv
    <3>3. /\ settings' \in [Clients -> [session : Scope, local : Scope]]
          /\ \A c \in Clients \ {k} : settings'[c] = settings[c]
      BY <3>1, <3>2, <1>3, SetIs
    <3>4. work[w].kind = "tx" =>
            /\ settings'[k].session = settings[k].session
            /\ settings'[k].local = [settings[k].local EXCEPT !["agent"] = own["agent"]]
      BY <3>1, <3>2, <1>3, <1>4, SetIs
    <3>5. work[w].kind = "session" =>
            /\ settings'[k].local = settings[k].local
            /\ settings'[k].session = [settings[k].session EXCEPT !["agent"] = own["agent"]]
      BY <3>1, <3>2, <1>3, <1>4, SetIs
    <3>6. QED
      BY <3>3, <3>4, <3>5
  <2>3. QED
    BY <2>1, <2>2
<1>7. work[w].kind = "tx" => InTransaction(w)'
  <2> SUFFICES ASSUME work[w].kind = "tx" PROVE InTransaction(w)'
    OBVIOUS
  <2>1. /\ settings[k].local = [tenant |-> own.tenant, agent |-> Unset]
        /\ k \notin unreset => settings[k].session = Nothing
    BY <1>1, <1>3, <1>4 DEF ContextInv, Prepared, InTransaction
  <2>2. own = [tenant |-> own.tenant, agent |-> own.agent]
    BY <1>4 DEF Scope
  <2>3. settings'[k].local = own
    BY <1>6, <2>1, <2>2
  <2>4. QED
    BY <1>1, <1>2, <1>3, <1>4, <1>6, <2>1, <2>3 DEF InTransaction
<1>8. work[w].kind = "session" => InSession(w)'
  <2> SUFFICES ASSUME work[w].kind = "session" PROVE InSession(w)'
    OBVIOUS
  <2>1. /\ settings[k].local = Nothing /\ settings[k].session.tenant = own.tenant
        /\ k \notin unreset => settings[k].session.agent = Unset
    BY <1>1, <1>3, <1>4 DEF ContextInv, Prepared, InSession
  <2>2. /\ settings'[k].session.tenant = own.tenant
        /\ k \notin unreset => settings'[k].session.agent = own.agent
    BY <1>5, <1>6, <2>1 DEF Scope
  <2>3. QED
    BY <1>1, <1>2, <1>3, <1>4, <1>6, <2>1, <2>2 DEF InSession
<1>9. Prepared(w)'
  BY <1>2, <1>4, <1>5, <1>7, <1>8 DEF Prepared
<1>10. Holds(w)'
  BY <1>2 DEF Holds
<1>11. QED
  BY <1>1, <1>2, <1>3, <1>6, <1>9, <1>10, HolderSteps

\* The wrapper is done with its client: the call holds nothing any more.
LEMMA ReleaseKeeps ==
  ASSUME ContextInv, NEW w \in Works, Holds(w), Moves(w, "idle"),
         settings' \in [Clients -> [session : Scope, local : Scope]],
         \A k \in Clients \ {work[w].client} : settings'[k] = settings[k],
         unreset' \subseteq Clients,
         \A k \in Clients \ {work[w].client} : k \in unreset' <=> k \in unreset,
         Clean(work[w].client)'
  PROVE  ContextInv'
<1>1. /\ work' \in [Works -> Work] /\ \A v \in Works \ {w} : work'[v] = work[v]
      /\ work'[w].at = "idle" /\ work'[w].client = work[w].client
  BY Moved DEF ContextInv
<1>2. Prepared(w)'
  BY <1>1 DEF Prepared, Holds
<1>3. QED
  BY <1>1, <1>2, HolderSteps

LEMMA EndTransactionKeeps ==
  ASSUME ContextInv, NEW w \in Works, EndTransaction(w) PROVE ContextInv'
<1>1. /\ Holds(w) /\ Moves(w, "idle") /\ unreset' = unreset /\ unreset \subseteq Clients
      /\ work[w].at \in {"commit", "rollback"}
  BY DEF EndTransaction, Holds, ContextInv, ContextTypeOK
<1>2. PICK k \in Clients : k = work[w].client
  BY Fields DEF ContextInv
<1>3. settings' = [settings EXCEPT ![k] = [settings[k] EXCEPT !.local = Nothing]]
  BY <1>2 DEF EndTransaction
<1>4. Nothing \in Scope /\ settings[k] \in [session : Scope, local : Scope]
  BY <1>2, Fields DEF Scope, Nothing, ContextInv
<1>5. /\ settings' \in [Clients -> [session : Scope, local : Scope]]
      /\ \A c \in Clients \ {k} : settings'[c] = settings[c]
      /\ settings'[k].local = Nothing /\ settings'[k].session = settings[k].session
  BY <1>3, <1>4 DEF ContextInv, ContextTypeOK
<1>6. k \notin unreset => settings[k].session = Nothing
  <2>1. work[w].kind = "tx"
    BY <1>1, Fields DEF ContextInv, Prepared, InSession, Kind
  <2>2. QED
    BY <2>1, <1>1, <1>2 DEF ContextInv, Prepared, InTransaction
<1>7. Clean(work[w].client)'
  BY <1>1, <1>2, <1>5, <1>6, Moved DEF Clean, ContextInv
<1>8. QED
  BY <1>1, <1>2, <1>5, <1>7, ReleaseKeeps

LEMMA ResetSessionKeeps ==
  ASSUME ContextInv, NEW w \in Works, ResetSession(w) PROVE ContextInv'
<1>1. /\ Holds(w) /\ Moves(w, "idle") /\ unreset' = unreset \ {work[w].client}
      /\ unreset \subseteq Clients /\ work[w].at = "reset"
  BY DEF ResetSession, Holds, ContextInv, ContextTypeOK
<1>2. PICK k \in Clients : k = work[w].client
  BY Fields DEF ContextInv
<1>3. settings' = [settings EXCEPT ![k] = [settings[k] EXCEPT !.session = Nothing]]
  BY <1>2 DEF ResetSession
<1>4. Nothing \in Scope /\ settings[k] \in [session : Scope, local : Scope]
  BY <1>2, Fields DEF Scope, Nothing, ContextInv
<1>5. /\ settings' \in [Clients -> [session : Scope, local : Scope]]
      /\ \A c \in Clients \ {k} : settings'[c] = settings[c]
      /\ settings'[k].local = settings[k].local /\ settings'[k].session = Nothing
  BY <1>3, <1>4 DEF ContextInv, ContextTypeOK
<1>6. settings[k].local = Nothing
  <2>1. work[w].kind = "session"
    BY <1>1, Fields DEF ContextInv, Prepared, InTransaction, Kind
  <2>2. QED
    BY <2>1, <1>1, <1>2 DEF ContextInv, Prepared, InSession
<1>7. Clean(work[w].client)'
  BY <1>1, <1>2, <1>5, <1>6, Moved DEF Clean, ContextInv
<1>8. QED
  BY <1>1, <1>2, <1>5, <1>7, ReleaseKeeps

LEMMA ResetFailsKeeps ==
  ASSUME ContextInv, NEW w \in Works, ResetFails(w) PROVE ContextInv'
<1>1. PICK k \in Clients : k = work[w].client
  BY Fields DEF ContextInv
<1>2. /\ Holds(w) /\ Moves(w, "idle") /\ unreset' = unreset \cup {k}
      /\ unreset \subseteq Clients /\ work[w].at = "reset" /\ settings' = settings
  BY <1>1 DEF ResetFails, Holds, ContextInv, ContextTypeOK
<1>3. settings[k].local = Nothing
  <2>1. work[w].kind = "session"
    BY <1>2, Fields DEF ContextInv, Prepared, InTransaction, Kind
  <2>2. QED
    BY <2>1, <1>1, <1>2 DEF ContextInv, Prepared, InSession
<1>4. Clean(work[w].client)'
  BY <1>1, <1>2, <1>3, Moved DEF Clean, ContextInv
<1>5. settings' \in [Clients -> [session : Scope, local : Scope]]
  BY <1>2 DEF ContextInv, ContextTypeOK
<1>6. QED
  BY <1>1, <1>2, <1>4, <1>5, ReleaseKeeps

\* The connection of one client is replaced: its holder, if any, lets go of it.
LEMMA BreaksKeeps ==
  ASSUME ContextInv, NEW k \in Clients, Breaks(k) PROVE ContextInv'
<1>1. Nothing \in Scope /\ Fresh \in [session : Scope, local : Scope]
  BY DEF Scope, Nothing, Fresh
<1>2. /\ settings' \in [Clients -> [session : Scope, local : Scope]]
      /\ \A c \in Clients \ {k} : settings'[c] = settings[c]
      /\ settings'[k].local = Nothing /\ settings'[k].session = Nothing
  BY <1>1 DEF Breaks, Fresh, ContextInv, ContextTypeOK
<1>3. \A v \in Works : [work[v] EXCEPT !.at = "idle"] \in Work
  BY Fields DEF ContextInv, Work
<1>4. ASSUME NEW v \in Works
      PROVE  /\ work'[v] \in Work /\ work'[v].client = work[v].client
             /\ Holds(v) /\ work[v].client = k => work'[v].at = "idle"
             /\ ~(Holds(v) /\ work[v].client = k) => work'[v] = work[v]
  <2>1. work'[v] = IF Holds(v) /\ work[v].client = k THEN [work[v] EXCEPT !.at = "idle"] ELSE work[v]
    BY DEF Breaks
  <2>2. QED
    BY <2>1, <1>3, Fields DEF ContextInv, Work
<1>5. work' \in [Works -> Work]
  <2>1. work' = [v \in Works |-> work'[v]]
    BY DEF Breaks
  <2>2. QED
    BY <2>1, <1>4
<1>6. \A v \in Works : Holds(v)' => Holds(v) /\ work[v].client # k /\ work'[v] = work[v]
  BY <1>4 DEF Holds
<1>7. OneBorrower'
  BY <1>6 DEF OneBorrower, ContextInv
<1>8. unreset' = unreset \ {k} /\ unreset \subseteq Clients
  BY DEF Breaks, ContextInv, ContextTypeOK
<1>9. ASSUME NEW v \in Works PROVE Prepared(v)'
  <2>1. CASE Holds(v) /\ work[v].client = k
    BY <2>1, <1>4 DEF Prepared, Holds
  <2>2. CASE ~Holds(v)
    BY <2>2, <1>4 DEF Prepared, Holds, ContextInv
  <2>3. CASE Holds(v) /\ work[v].client # k
    <3>1. /\ work'[v] = work[v] /\ settings'[work[v].client] = settings[work[v].client]
          /\ work[v].client \in unreset' <=> work[v].client \in unreset
      BY <2>3, <1>2, <1>4, <1>8, Fields DEF ContextInv
    <3>2. QED
      BY <2>3, <3>1 DEF ContextInv, Prepared, Holds, InTransaction, InSession
  <2>4. QED
    BY <2>1, <2>2, <2>3
<1>10. ASSUME NEW c \in Clients, c \notin Held' PROVE Clean(c)'
  <2>1. CASE c = k
    BY <2>1, <1>2 DEF Clean
  <2>2. CASE c # k
    <3>1. c \notin Held
      <4>1. SUFFICES ASSUME NEW v \in Works, Holds(v), work[v].client = c PROVE FALSE
        BY DEF Held
      <4>2. work'[v] = work[v]
        BY <4>1, <2>2, <1>4
      <4>3. Holds(v)' /\ work'[v].client = c
        BY <4>1, <4>2 DEF Holds
      <4>4. QED
        BY <4>3, <1>10 DEF Held
    <3>2. Clean(c)
      BY <3>1 DEF ContextInv
    <3>3. QED
      BY <3>2, <2>2, <1>2, <1>8 DEF Clean
  <2>3. QED
    BY <2>1, <2>2
<1>11. QED
  BY <1>2, <1>5, <1>7, <1>8, <1>9, <1>10 DEF ContextInv, ContextTypeOK

LEMMA ContextNextKeeps == ContextInv /\ [ContextNext]_contextVars => ContextInv'
<1> SUFFICES ASSUME ContextInv, [ContextNext]_contextVars PROVE ContextInv'
  OBVIOUS
<1>1. CASE UNCHANGED contextVars
  BY <1>1 DEF contextVars, ContextInv, ContextTypeOK, OneBorrower, Prepared, InTransaction,
     InSession, Clean, Holds, Held
<1>2. ASSUME NEW w \in Works, RunWork(w) PROVE ContextInv'
  BY <1>2, EnterKeeps, ConnectKeeps, BeginKeeps, ApplyTenantKeeps, ApplyRestKeeps,
     FnReturnsKeeps, ThrowsKeeps, EndTransactionKeeps, ResetSessionKeeps, ResetFailsKeeps
     DEF RunWork
<1>3. QED
  BY <1>1, <1>2, BreaksKeeps DEF ContextNext

\* At every step of every wrapper a client carries just what that wrapper has set so
\* far, and one call holds it (withPrincipalContext, withReadOnlyTenantContext and
\* the release of tenant-context.ts).
THEOREM ContextInvariant == ContextSpec => []ContextInv
<1>1. QED
  BY ContextInitInv, ContextNextKeeps, PTL DEF ContextSpec

\* The statements of fn run under the tenant and the user agent of their own
\* request, and a pooled client carries nothing: for every pool, every load of
\* requests and every order of failures.
THEOREM TenantsKeptApart == ContextSpec => []TenantIsolated
<1>1. ContextInv => TenantIsolated
  <2> SUFFICES ASSUME ContextInv PROVE TenantIsolated
    OBVIOUS
  <2>1. ASSUME NEW w \in Works, work[w].at = "fn"
        PROVE  /\ Seen(work[w].client, "tenant") = work[w].own.tenant
               /\ work[w].client \notin unreset =>
                    Seen(work[w].client, "agent") = work[w].own.agent
    <3>1. Holds(w) /\ work[w].own.tenant \in Tenants /\ work[w].kind \in {"tx", "session"}
      BY <2>1, Fields DEF Holds, ContextInv, Prepared, Kind
    <3>2. CASE work[w].kind = "tx"
      <4>1. /\ settings[work[w].client].local = work[w].own
            /\ work[w].client \notin unreset => settings[work[w].client].session = Nothing
        BY <2>1, <3>1, <3>2 DEF ContextInv, Prepared, InTransaction
      <4>2. QED
        BY <3>1, <4>1, NoSettingAssumption DEF Seen, Nothing
    <3>3. CASE work[w].kind = "session"
      <4>1. /\ settings[work[w].client].local = Nothing
            /\ settings[work[w].client].session.tenant = work[w].own.tenant
            /\ work[w].client \notin unreset =>
                 settings[work[w].client].session.agent = work[w].own.agent
        BY <2>1, <3>1, <3>3 DEF ContextInv, Prepared, InSession
      <4>2. QED
        BY <4>1 DEF Seen, Nothing
    <3>4. QED
      BY <3>1, <3>2, <3>3
  <2>2. QED
    BY <2>1 DEF TenantIsolated, ContextInv, Clean
<1>2. QED
  BY <1>1, ContextInvariant, PTL

-----------------------------------------------------------------------------
\* Below the last file nothing is ever dropped: a file is in the database and in
\* the table only after all before it are in both.
FilesInOrder ==
  /\ \A f \in applied \cup Recorded : 1 .. (f - 1) \subseteq applied \cap Recorded
  /\ \A f \in Recorded : f < N => f \in applied

\* What a runner takes for done is done, but for the last file, which may be
\* reverted under it.
RunnerKnows(rec) ==
  /\ rec.at # "idle" =>
       /\ \A f \in Files : f < rec.next /\ f < N => f \in Recorded
       /\ \A f \in Files : rec.files[f] # 0
  /\ rec.at \in {"up", "record"} =>
       \A f \in Files : rec.known[f] # 0 /\ f < N => f \in Recorded
  /\ rec.at = "record" => rec.next \in Files /\ (rec.next < N => rec.next \in applied)
  /\ rec.at = "down" => rec.next \in Files
  /\ rec.at = "unrecord" => rec.next = N

\* The inductive invariant.
MigrationsInv ==
  /\ MigrationsTypeOK /\ FilesInOrder
  /\ \A r \in Runners : RunnerKnows(runner[r])

-----------------------------------------------------------------------------
\* A set of numbers has a least one.
LEMMA LeastOf ==
  ASSUME NEW S \in SUBSET Nat, S # {}
  PROVE  \E m \in S : \A n \in S : m <= n
<1>1. \E m \in S : \A n \in S : ~ (<<n, m>> \in OpToRel(<, Nat))
  BY NatLessThanWellFounded, WFMin
<1>2. PICK m \in S : \A n \in S : ~ (<<n, m>> \in OpToRel(<, Nat))
  BY <1>1
<1>3. ASSUME NEW n \in S PROVE m <= n
  <2>1. n \in Nat /\ m \in Nat
    BY <1>2
  <2>2. ~ (n < m)
    BY <1>2, <2>1, Zenon DEF OpToRel
  <2>3. QED
    BY <2>1, <2>2
<1>4. QED
  BY <1>2, <1>3

\* Where a set of files ends that holds with each file all before it.
LEMMA EndOf ==
  ASSUME NEW S \in SUBSET Files
  PROVE  \E k \in Files \cup {0} : 1 .. k \subseteq S /\ k + 1 \notin S
<1> DEFINE T == {m \in Nat : m + 1 \notin S}
<1>1. N \in Nat /\ Files = 1 .. N
  BY FilesAssumption DEF Files
<1>2. N \in T
  BY <1>1
<1>3. PICK k \in T : \A m \in T : k <= m
  BY <1>2, LeastOf
<1>4. k \in Nat /\ k + 1 \notin S /\ k <= N
  BY <1>1, <1>2, <1>3
<1>5. ASSUME NEW f \in 1 .. k PROVE f \in S
  <2>1. f - 1 \in Nat /\ ~(k <= f - 1)
    BY <1>4
  <2>2. f - 1 \notin T
    BY <1>3, <2>1
  <2>3. (f - 1) + 1 \in S
    BY <2>1, <2>2
  <2>4. QED
    BY <1>4, <2>3
<1>6. k \in Files \cup {0}
  BY <1>1, <1>4
<1>7. QED
  BY <1>4, <1>5, <1>6

LEMMA PrefixIs ==
  ASSUME NEW k \in Nat, NEW S \in SUBSET Files, 1 .. k \subseteq S,
         \A f \in S : f <= k + 1
  PROVE  S = 1 .. k \/ S = 1 .. (k + 1)
<1>1. \A f \in S : f \in Nat /\ f >= 1
  BY FilesAssumption DEF Files
<1>2. CASE k + 1 \in S
  <2>1. \A f \in 1 .. (k + 1) : f \in 1 .. k \/ f = k + 1
    OBVIOUS
  <2>2. \A f \in S : f \in 1 .. (k + 1)
    BY <1>1
  <2>3. QED
    BY <1>2, <2>1, <2>2
<1>3. CASE k + 1 \notin S
  <2>1. \A f \in S : f \in 1 .. k
    BY <1>1, <1>3
  <2>2. QED
    BY <2>1
<1>4. QED
  BY <1>2, <1>3

LEMMA OrderlyFromInv == MigrationsInv => MigrationsOrderly
<1> SUFFICES ASSUME MigrationsInv PROVE MigrationsOrderly
  OBVIOUS
<1>1. applied \in SUBSET Files /\ Recorded \in SUBSET Files
  BY DEF MigrationsInv, MigrationsTypeOK, Recorded
<1>2. \A f \in applied \cup Recorded : 1 .. (f - 1) \subseteq applied \cap Recorded
  BY DEF MigrationsInv, FilesInOrder
<1>3. IsPrefix(applied) /\ IsPrefix(Recorded)
  <2>1. ASSUME NEW f \in Files, NEW g \in 1 .. f PROVE g \in 1 .. (f - 1) \/ g = f
    BY FilesAssumption DEF Files
  <2>2. QED
    BY <1>1, <1>2, <2>1 DEF IsPrefix
<1>4. PICK k \in Files \cup {0} : /\ 1 .. k \subseteq applied \cap Recorded
                                  /\ k + 1 \notin applied \cap Recorded
  <2>1. applied \cap Recorded \in SUBSET Files
    BY <1>1
  <2>2. QED
    BY <2>1, EndOf
<1>5. k \in Nat
  BY FilesAssumption DEF Files
<1>6. ASSUME NEW f \in applied \cup Recorded PROVE f <= k + 1
  <2>1. f \in Nat /\ 1 .. (f - 1) \subseteq applied \cap Recorded
    BY <1>1, <1>2, FilesAssumption DEF Files
  <2>2. k + 1 \notin 1 .. (f - 1)
    BY <1>4, <2>1
  <2>3. QED
    BY <1>5, <2>1, <2>2
<1>7. applied = 1 .. k \/ applied = 1 .. (k + 1)
  BY <1>1, <1>4, <1>5, <1>6, PrefixIs
<1>8. Recorded = 1 .. k \/ Recorded = 1 .. (k + 1)
  BY <1>1, <1>4, <1>5, <1>6, PrefixIs
<1>9. QED
  BY <1>3, <1>7, <1>8 DEF MigrationsOrderly

\* The file a rollback begins with: the last one recorded.
LEMMA TopIs ==
  ASSUME MigrationsInv, \E f \in Files : recorded[f] # 0
  PROVE  Top(recorded) \in Files /\ \A f \in Files : f < Top(recorded) => f \in Recorded
<1>1. Recorded \in SUBSET Files
  BY DEF Recorded
<1>2. IsPrefix(Recorded)
  BY OrderlyFromInv DEF MigrationsOrderly
<1>3. PICK k \in Files \cup {0} : 1 .. k \subseteq Recorded /\ k + 1 \notin Recorded
  BY <1>1, EndOf
<1>4. k \in Nat /\ \A f \in Files : f \in Nat /\ f >= 1
  BY FilesAssumption DEF Files
<1>5. \A f \in Recorded : f <= k
  <2>1. SUFFICES ASSUME NEW f \in Recorded, ~(f <= k) PROVE FALSE
    OBVIOUS
  <2>2. f \in Nat /\ k + 1 \in 1 .. f
    BY <1>1, <1>4, <2>1
  <2>3. QED
    BY <1>2, <1>3, <2>2 DEF IsPrefix
<1>6. k \in Recorded
  <2>1. PICK f \in Recorded : TRUE
    BY DEF Recorded
  <2>2. k \in 1 .. k
    BY <1>1, <1>4, <1>5, <2>1
  <2>3. QED
    BY <1>3, <2>2
<1>7. recorded[k] # 0 /\ k \in Files /\ \A g \in Files : g > k => recorded[g] = 0
  BY <1>4, <1>5, <1>6 DEF Recorded
<1>8. recorded[Top(recorded)] # 0 /\ Top(recorded) \in Files
  <2>1. \E f \in Files : recorded[f] # 0 /\ \A g \in Files : g > f => recorded[g] = 0
    BY <1>7
  <2>2. Top(recorded) = CHOOSE f \in Files : recorded[f] # 0 /\ \A g \in Files : g > f => recorded[g] = 0
    BY DEF Top
  <2>3. QED
    BY <2>1, <2>2
<1>9. Top(recorded) \in Recorded
  BY <1>8 DEF Recorded
<1>10. PICK t \in Files : t = Top(recorded)
  BY <1>8
<1>11. \A f \in Files : f < t => f \in 1 .. t
  BY FilesAssumption DEF Files
<1>12. QED
  BY <1>2, <1>9, <1>10, <1>11 DEF IsPrefix

-----------------------------------------------------------------------------
LEMMA StillKnows ==
  ASSUME NEW rec, RunnerKnows(rec),
         \A f \in Files : f < N /\ f \in applied => f \in applied',
         \A f \in Files : f < N /\ f \in Recorded => f \in Recorded'
  PROVE  RunnerKnows(rec)'
<1>1. rec.at # "idle" => /\ \A f \in Files : f < rec.next /\ f < N => f \in Recorded'
                         /\ \A f \in Files : rec.files[f] # 0
  BY DEF RunnerKnows
<1>2. rec.at \in {"up", "record"} =>
        \A f \in Files : rec.known[f] # 0 /\ f < N => f \in Recorded'
  BY DEF RunnerKnows
<1>3. rec.at = "record" => rec.next \in Files /\ (rec.next < N => rec.next \in applied')
  BY DEF RunnerKnows
<1>4. QED
  BY <1>1, <1>2, <1>3 DEF RunnerKnows

\* A step of one runner, which may add to the database and to the table what
\* keeps them in order, and drop from them the last file only.
LEMMA RunnerMoves ==
  ASSUME MigrationsInv, NEW r \in Runners, NEW rec \in Runner, RunnerBecomes(r, rec),
         RunnerKnows(rec)', file' = file,
         applied' \subseteq Files, recorded' \in Checksums, FilesInOrder',
         \A f \in Files : f < N /\ f \in applied => f \in applied',
         \A f \in Files : f < N /\ f \in Recorded => f \in Recorded'
  PROVE  MigrationsInv'
<1>1. runner \in [Runners -> Runner] /\ runner' = [runner EXCEPT ![r] = rec]
  BY DEF RunnerBecomes, MigrationsInv, MigrationsTypeOK
<1>2. runner'[r] = rec /\ \A q \in Runners \ {r} : runner'[q] = runner[q]
  BY <1>1
<1>3. MigrationsTypeOK'
  BY <1>1 DEF MigrationsInv, MigrationsTypeOK
<1>4. ASSUME NEW q \in Runners \ {r} PROVE RunnerKnows(runner[q])'
  <2>1. RunnerKnows(runner[q]) /\ runner'[q] = runner[q]
    BY <1>2 DEF MigrationsInv
  <2>2. PICK known : known = runner[q]
    OBVIOUS
  <2>3. RunnerKnows(known)
    BY <2>1, <2>2
  <2>4. RunnerKnows(known)'
    BY <2>3, StillKnows
  <2>5. QED
    BY <2>1, <2>2, <2>4
<1>5. \A q \in Runners : RunnerKnows(runner[q])'
  BY <1>2, <1>4
<1>6. QED
  BY <1>3, <1>5 DEF MigrationsInv

\* A step that leaves both alone.
LEMMA RunnerOnly ==
  ASSUME MigrationsInv, NEW r \in Runners, NEW rec \in Runner, RunnerBecomes(r, rec),
         RunnerKnows(rec), UNCHANGED <<file, applied, recorded>>
  PROVE  MigrationsInv'
<1>1. applied' = applied /\ recorded' = recorded /\ Recorded' = Recorded
  BY DEF Recorded
<1>2. RunnerKnows(rec)' /\ FilesInOrder'
  BY <1>1 DEF RunnerKnows, MigrationsInv, FilesInOrder
<1>3. applied' \subseteq Files /\ recorded' \in Checksums
  BY DEF MigrationsInv, MigrationsTypeOK
<1>4. QED
  BY <1>1, <1>2, <1>3, RunnerMoves

LEMMA RunnerFields ==
  ASSUME MigrationsInv, NEW r \in Runners
  PROVE  /\ runner[r] \in Runner /\ RunnerKnows(runner[r])
         /\ runner[r].next \in 1 .. (N + 1) /\ N \in Nat /\ Files = 1 .. N
  BY FilesAssumption DEF MigrationsInv, MigrationsTypeOK, Runner, Files

LEMMA IdleRunnerIs == IdleRunner \in Runner /\ \A set \in {applied} : RunnerKnows(IdleRunner)
<1>1. [f \in Files |-> 0] \in Checksums /\ 1 \in 1 .. (N + 1)
  BY FilesAssumption DEF Checksums
<1>2. IdleRunner \in Runner /\ IdleRunner.at = "idle"
  BY <1>1 DEF IdleRunner, Runner
<1>3. QED
  BY <1>2 DEF RunnerKnows

\* The run ends, whatever the reason.
LEMMA RunEndsKeeps ==
  ASSUME MigrationsInv, NEW r \in Runners, RunEnds(r), UNCHANGED <<file, applied, recorded>>
  PROVE  MigrationsInv'
  BY IdleRunnerIs, RunnerOnly DEF RunEnds

\* The next file, when this one is done.
LEMMA GoesOnIs ==
  ASSUME MigrationsInv, NEW r \in Runners, runner[r].at \in {"up", "record"},
         runner[r].next \in Files, GoesOn(r)
  PROVE  \E rec \in Runner :
           /\ RunnerBecomes(r, rec) /\ rec.at = "up" /\ rec.next = runner[r].next + 1
           /\ rec.known = runner[r].known /\ rec.files = runner[r].files
<1>1. PICK n \in Nat : n = runner[r].next + 1
  BY RunnerFields
<1>2. n \in 1 .. (N + 1)
  BY <1>1, RunnerFields
<1>3. PICK rec : rec = [runner[r] EXCEPT !.at = "up", !.next = n]
  OBVIOUS
<1>4. RunnerBecomes(r, rec)
  BY <1>1, <1>3 DEF GoesOn
<1>5. /\ rec \in Runner /\ rec.at = "up" /\ rec.next = n
      /\ rec.known = runner[r].known /\ rec.files = runner[r].files
  BY <1>2, <1>3, RunnerFields DEF Runner
<1>6. QED
  BY <1>1, <1>4, <1>5
-----------------------------------------------------------------------------
\* A run that begins knows the table as it is.
LEMMA StartUpKeeps == ASSUME MigrationsInv, NEW r \in Runners, StartUp(r) PROVE MigrationsInv'
<1>1. recorded \in Checksums /\ file \in [Files -> Content] /\ N \in Nat /\ Files = 1 .. N
  BY FilesAssumption DEF MigrationsInv, MigrationsTypeOK, Files
<1>2. PICK rec : rec = [at |-> "up", known |-> recorded, files |-> file, next |-> 1]
  OBVIOUS
<1>3. RunnerBecomes(r, rec) /\ UNCHANGED <<file, applied, recorded>>
  BY <1>2 DEF StartUp
<1>4. rec.at = "up" /\ rec.known = recorded /\ rec.files = file /\ rec.next = 1
  BY <1>2
<1>5. rec \in Runner
  BY <1>1, <1>2 DEF Runner, Checksums
<1>6. \A f \in Files : ~ (f < 1) /\ file[f] # 0
  BY <1>1 DEF Content
<1>7. \A f \in Files : recorded[f] # 0 => f \in Recorded
  BY DEF Recorded
<1>8. RunnerKnows(rec)
  BY <1>4, <1>6, <1>7 DEF RunnerKnows
<1>9. QED
  BY <1>3, <1>5, <1>8, RunnerOnly

LEMMA StartDownKeeps == ASSUME MigrationsInv, NEW r \in Runners, StartDown(r) PROVE MigrationsInv'
<1>1. recorded \in Checksums /\ file \in [Files -> Content] /\ N \in Nat /\ Files = 1 .. N
  BY FilesAssumption DEF MigrationsInv, MigrationsTypeOK, Files
<1>2. \E f \in Files : recorded[f] # 0
  BY DEF StartDown
<1>3. PICK t : t = Top(recorded)
  OBVIOUS
<1>4. t \in Files /\ \A f \in Files : f < t => f \in Recorded
  BY <1>2, <1>3, TopIs
<1>5. PICK rec : rec = [at |-> "down", known |-> recorded, files |-> file, next |-> t]
  OBVIOUS
<1>6. RunnerBecomes(r, rec) /\ UNCHANGED <<file, applied, recorded>>
  BY <1>3, <1>5 DEF StartDown
<1>7. rec.at = "down" /\ rec.files = file /\ rec.next = t
  BY <1>5
<1>8. t \in 1 .. (N + 1)
  BY <1>1, <1>4
<1>9. rec \in Runner
  BY <1>1, <1>5, <1>8 DEF Runner, Checksums
<1>10. \A f \in Files : file[f] # 0
  BY <1>1 DEF Content
<1>11. RunnerKnows(rec)
  BY <1>4, <1>7, <1>10 DEF RunnerKnows
<1>12. QED
  BY <1>6, <1>9, <1>11, RunnerOnly

\* A runner that goes on knows the file it leaves, when the table has it.
LEMMA GoesOnKnows ==
  ASSUME MigrationsInv, NEW r \in Runners, NEW f \in Files, runner[r].next = f,
         runner[r].at \in {"up", "record"}, NEW rec \in Runner,
         rec.at = "up", rec.next = f + 1,
         rec.known = runner[r].known, rec.files = runner[r].files,
         \A g \in Files : g < N /\ g \in Recorded => g \in Recorded',
         f < N => f \in Recorded'
  PROVE  RunnerKnows(rec)'
<1>1. RunnerKnows(runner[r]) /\ Files = 1 .. N /\ N \in Nat
  BY RunnerFields
<1>2. \A g \in Files : g < f /\ g < N => g \in Recorded
  BY <1>1 DEF RunnerKnows
<1>3. \A g \in Files : g < f + 1 => g < f \/ g = f
  BY <1>1
<1>4. \A g \in Files : g < rec.next /\ g < N => g \in Recorded'
  BY <1>2, <1>3
<1>5. \A g \in Files : rec.files[g] # 0
  BY <1>1 DEF RunnerKnows
<1>6. \A g \in Files : rec.known[g] # 0 /\ g < N => g \in Recorded'
  BY <1>1 DEF RunnerKnows
<1>7. QED
  BY <1>4, <1>5, <1>6 DEF RunnerKnows

LEMMA PassKnownKeeps ==
  ASSUME MigrationsInv, NEW r \in Runners, NEW f \in Files, PassKnown(r, f)
  PROVE  MigrationsInv'
<1>1. runner[r].at = "up" /\ runner[r].next = f /\ runner[r].known[f] # 0
  BY DEF PassKnown, At
<1>2. UNCHANGED <<file, applied, recorded>>
  BY DEF PassKnown
<1>3. CASE RunEnds(r)
  BY <1>2, <1>3, RunEndsKeeps
<1>4. CASE GoesOn(r)
  <2>1. PICK rec \in Runner :
          /\ RunnerBecomes(r, rec) /\ rec.at = "up" /\ rec.next = runner[r].next + 1
          /\ rec.known = runner[r].known /\ rec.files = runner[r].files
    BY <1>1, <1>4, GoesOnIs
  <2>2. Recorded' = Recorded
    BY <1>2 DEF Recorded
  <2>3. f < N => f \in Recorded
    BY <1>1, RunnerFields DEF RunnerKnows
  <2>4. RunnerKnows(rec)'
    BY <1>1, <2>1, <2>2, <2>3, GoesOnKnows
  <2>5. applied' \subseteq Files /\ recorded' \in Checksums /\ FilesInOrder'
    BY <1>2, <2>2 DEF MigrationsInv, MigrationsTypeOK, FilesInOrder
  <2>6. QED
    BY <1>2, <2>1, <2>2, <2>4, <2>5, RunnerMoves
<1>5. QED
  BY <1>3, <1>4 DEF PassKnown

\* All before the file of a runner are applied and recorded.
LEMMA AllBefore ==
  ASSUME MigrationsInv, NEW r \in Runners, NEW f \in Files, runner[r].next = f,
         runner[r].at # "idle"
  PROVE  1 .. (f - 1) \subseteq applied \cap Recorded
<1>1. RunnerKnows(runner[r]) /\ Files = 1 .. N /\ N \in Nat
  BY RunnerFields
<1>2. ASSUME NEW g \in 1 .. (f - 1) PROVE g \in applied \cap Recorded
  <2>1. g \in Files /\ g < f /\ g < N
    BY <1>1
  <2>2. g \in Recorded
    BY <1>1, <2>1 DEF RunnerKnows
  <2>3. QED
    BY <2>1, <2>2 DEF MigrationsInv, FilesInOrder
<1>3. QED
  BY <1>2

\* The table with one row more.
LEMMA RowAdded ==
  ASSUME MigrationsInv, NEW r \in Runners, NEW f \in Files, runner[r].at # "idle",
         recorded' = [recorded EXCEPT ![f] = runner[r].files[f]]
  PROVE  recorded' \in Checksums /\ Recorded' = Recorded \cup {f}
<1>1. recorded \in Checksums /\ runner[r].files \in Checksums /\ runner[r].files[f] # 0
  BY RunnerFields DEF MigrationsInv, MigrationsTypeOK, RunnerKnows, Runner
<1>2. runner[r].files[f] \in Content \cup {0}
  BY <1>1 DEF Checksums
<1>3. PICK sum : sum = runner[r].files[f]
  OBVIOUS
<1>4. recorded' \in Checksums
  BY <1>1, <1>2 DEF Checksums
<1>5. recorded'[f] # 0 /\ \A g \in Files \ {f} : recorded'[g] = recorded[g]
  BY <1>1 DEF Checksums
<1>6. QED
  BY <1>4, <1>5 DEF Recorded

LEMMA ApplyFileKeeps ==
  ASSUME MigrationsInv, NEW r \in Runners, NEW f \in Files, ApplyFile(r, f)
  PROVE  MigrationsInv'
<1>1. runner[r].at = "up" /\ runner[r].next = f /\ applied' = applied \cup {f} /\ file' = file
  BY DEF ApplyFile, At
<1>2. 1 .. (f - 1) \subseteq applied \cap Recorded
  BY <1>1, AllBefore
<1>3. applied' \subseteq Files
  BY <1>1 DEF MigrationsInv, MigrationsTypeOK
<1>4. CASE f \in Wrapped
  <2>1. recorded' = [recorded EXCEPT ![f] = runner[r].files[f]] /\ GoesOn(r)
    BY <1>4 DEF ApplyFile
  <2>2. recorded' \in Checksums /\ Recorded' = Recorded \cup {f}
    BY <1>1, <2>1, RowAdded
  <2>3. PICK rec \in Runner :
          /\ RunnerBecomes(r, rec) /\ rec.at = "up" /\ rec.next = runner[r].next + 1
          /\ rec.known = runner[r].known /\ rec.files = runner[r].files
    BY <1>1, <2>1, GoesOnIs
  <2>4. RunnerKnows(rec)'
    BY <1>1, <2>2, <2>3, GoesOnKnows
  <2>5. FilesInOrder'
    BY <1>1, <1>2, <2>2 DEF MigrationsInv, FilesInOrder
  <2>6. QED
    BY <1>1, <1>3, <2>2, <2>3, <2>4, <2>5, RunnerMoves
<1>5. CASE f \notin Wrapped
  <2>1. PICK rec : rec = [runner[r] EXCEPT !.at = "record"]
    OBVIOUS
  <2>2. RunnerBecomes(r, rec) /\ recorded' = recorded
    BY <1>5, <2>1 DEF ApplyFile
  <2>3. /\ rec \in Runner /\ rec.at = "record" /\ rec.next = f
        /\ rec.known = runner[r].known /\ rec.files = runner[r].files
    BY <1>1, <2>1, RunnerFields DEF Runner
  <2>4. Recorded' = Recorded
    BY <2>2 DEF Recorded
  <2>5. f \in applied'
    BY <1>1
  <2>6. /\ \A g \in Files : g < f /\ g < N => g \in Recorded
        /\ \A g \in Files : rec.files[g] # 0
        /\ \A g \in Files : rec.known[g] # 0 /\ g < N => g \in Recorded
    BY <1>1, <2>3, RunnerFields DEF RunnerKnows
  <2>7. RunnerKnows(rec)'
    BY <2>3, <2>4, <2>5, <2>6 DEF RunnerKnows
  <2>8. FilesInOrder'
    BY <1>1, <1>2, <2>4 DEF MigrationsInv, FilesInOrder
  <2>9. recorded' \in Checksums
    BY <2>2 DEF MigrationsInv, MigrationsTypeOK
  <2>10. QED
    BY <1>1, <1>3, <2>2, <2>3, <2>4, <2>7, <2>8, <2>9, RunnerMoves
<1>6. QED
  BY <1>4, <1>5

LEMMA RecordFileKeeps ==
  ASSUME MigrationsInv, NEW r \in Runners, RecordFile(r)
  PROVE  MigrationsInv'
<1>1. PICK f : f = runner[r].next
  OBVIOUS
<1>2. runner[r].at = "record" /\ UNCHANGED <<file, applied>>
  BY DEF RecordFile
<1>3. f \in Files /\ (f < N => f \in applied)
  BY <1>1, <1>2, RunnerFields DEF RunnerKnows
<1>4. CASE recorded[f] # 0
  <2>1. RunEnds(r) /\ recorded' = recorded
    BY <1>1, <1>4 DEF RecordFile
  <2>2. QED
    BY <1>2, <2>1, RunEndsKeeps
<1>5. CASE recorded[f] = 0
  <2>1. recorded' = [recorded EXCEPT ![f] = runner[r].files[f]] /\ GoesOn(r)
    BY <1>1, <1>5 DEF RecordFile
  <2>2. recorded' \in Checksums /\ Recorded' = Recorded \cup {f}
    BY <1>2, <1>3, <2>1, RowAdded
  <2>3. PICK rec \in Runner :
          /\ RunnerBecomes(r, rec) /\ rec.at = "up" /\ rec.next = runner[r].next + 1
          /\ rec.known = runner[r].known /\ rec.files = runner[r].files
    BY <1>1, <1>2, <1>3, <2>1, GoesOnIs
  <2>4. RunnerKnows(rec)'
    BY <1>1, <1>2, <1>3, <2>2, <2>3, GoesOnKnows
  <2>5. 1 .. (f - 1) \subseteq applied \cap Recorded
    BY <1>1, <1>2, <1>3, AllBefore
  <2>6. FilesInOrder'
    BY <1>2, <1>3, <2>2, <2>5 DEF MigrationsInv, FilesInOrder
  <2>7. applied' \subseteq Files
    BY <1>2 DEF MigrationsInv, MigrationsTypeOK
  <2>8. QED
    BY <1>2, <2>2, <2>3, <2>4, <2>6, <2>7, RunnerMoves
<1>6. QED
  BY <1>4, <1>5

\* Only the last file has a .down.sql.
LEMMA RevertFileKeeps ==
  ASSUME MigrationsInv, NEW r \in Runners, RevertFile(r)
  PROVE  MigrationsInv'
<1>1. PICK f : f = runner[r].next
  OBVIOUS
<1>2. UNCHANGED <<file, recorded>> /\ runner[r].at = "down"
  BY DEF RevertFile
<1>3. CASE f \in Reversible /\ f \in applied
  <2>1. f = N
    BY <1>3, ReversibleAssumption
  <2>2. applied' = applied \ {f} /\ RunnerBecomes(r, [runner[r] EXCEPT !.at = "unrecord"])
    BY <1>1, <1>3 DEF RevertFile
  <2>3. PICK rec : rec = [runner[r] EXCEPT !.at = "unrecord"]
    OBVIOUS
  <2>4. rec \in Runner /\ rec.at = "unrecord" /\ rec.next = f /\ rec.files = runner[r].files
    BY <1>1, <2>3, RunnerFields DEF Runner
  <2>5. RunnerBecomes(r, rec)
    BY <2>2, <2>3
  <2>6. Recorded' = Recorded
    BY <1>2 DEF Recorded
  <2>7. /\ \A g \in Files : g < f /\ g < N => g \in Recorded
        /\ \A g \in Files : rec.files[g] # 0
    BY <1>1, <1>2, <2>4, RunnerFields DEF RunnerKnows
  <2>8. RunnerKnows(rec)'
    BY <2>1, <2>4, <2>6, <2>7 DEF RunnerKnows
  <2>9. applied' \subseteq Files /\ recorded' \in Checksums
    BY <1>2, <2>2 DEF MigrationsInv, MigrationsTypeOK
  <2>10. \A g \in Files : N \notin 1 .. (g - 1)
    BY FilesAssumption DEF Files
  <2>11. FilesInOrder'
    <3>1. applied \subseteq Files /\ Recorded \subseteq Files
      BY DEF MigrationsInv, MigrationsTypeOK, Recorded
    <3>2. ASSUME NEW g \in applied \cup Recorded PROVE 1 .. (g - 1) \subseteq applied' \cap Recorded
      BY <2>1, <2>2, <2>10, <3>1 DEF MigrationsInv, FilesInOrder
    <3>3. \A g \in Recorded : g < N => g \in applied'
      BY <2>1, <2>2, <3>1, FilesAssumption DEF MigrationsInv, FilesInOrder, Files
    <3>4. QED
      BY <2>2, <2>6, <3>2, <3>3 DEF FilesInOrder
  <2>12. \A g \in Files : g < N /\ g \in applied => g \in applied'
    BY <2>1, <2>2, FilesAssumption DEF Files
  <2>13. QED
    BY <1>2, <2>4, <2>5, <2>6, <2>8, <2>9, <2>11, <2>12, RunnerMoves
<1>4. CASE ~ (f \in Reversible /\ f \in applied)
  <2>1. RunEnds(r) /\ applied' = applied
    BY <1>1, <1>4 DEF RevertFile
  <2>2. QED
    BY <1>2, <2>1, RunEndsKeeps
<1>5. QED
  BY <1>3, <1>4

LEMMA UnrecordFileKeeps ==
  ASSUME MigrationsInv, NEW r \in Runners, UnrecordFile(r)
  PROVE  MigrationsInv'
<1>1. recorded' = [recorded EXCEPT ![N] = 0] /\ UNCHANGED <<file, applied>>
  BY RunnerFields DEF UnrecordFile, RunnerKnows
<1>2. RunnerBecomes(r, IdleRunner)
  BY DEF UnrecordFile, RunEnds
<1>3. recorded \in Checksums
  BY DEF MigrationsInv, MigrationsTypeOK
<1>4. recorded' \in Checksums /\ \A g \in Files : g # N => recorded'[g] = recorded[g]
  BY <1>1, <1>3 DEF Checksums
<1>5. \A g \in Files : g < N => g # N
  BY FilesAssumption DEF Files
<1>6. Recorded' \subseteq Recorded /\ \A g \in Files : g # N /\ g \in Recorded => g \in Recorded'
  BY <1>1, <1>3, <1>4 DEF Recorded, Checksums
<1>7. \A g \in Files : N \notin 1 .. (g - 1)
  BY FilesAssumption DEF Files
<1>8. applied \subseteq Files /\ Recorded \subseteq Files
  BY DEF MigrationsInv, MigrationsTypeOK, Recorded
<1>9. FilesInOrder'
  <2>1. ASSUME NEW g \in applied \cup Recorded PROVE 1 .. (g - 1) \subseteq applied \cap Recorded'
    <3>1. 1 .. (g - 1) \subseteq applied \cap Recorded /\ N \notin 1 .. (g - 1)
      BY <1>7, <1>8 DEF MigrationsInv, FilesInOrder
    <3>2. QED
      BY <1>6, <1>8, <3>1
  <2>2. \A g \in Recorded' : g < N => g \in applied
    BY <1>6 DEF MigrationsInv, FilesInOrder
  <2>3. QED
    BY <1>1, <1>6, <2>1, <2>2 DEF FilesInOrder
<1>10. RunnerKnows(IdleRunner)'
  BY DEF RunnerKnows, IdleRunner
<1>11. QED
  BY <1>1, <1>2, <1>4, <1>5, <1>6, <1>8, <1>9, <1>10, IdleRunnerIs, RunnerMoves

LEMMA EditFileKeeps ==
  ASSUME MigrationsInv, NEW f \in Files, EditFile(f)
  PROVE  MigrationsInv'
<1>1. UNCHANGED <<applied, recorded, runner>> /\ file' \in [Files -> Content]
  BY DEF EditFile, MigrationsInv, MigrationsTypeOK, Content
<1>2. Recorded' = Recorded
  BY <1>1 DEF Recorded
<1>3. QED
  BY <1>1, <1>2 DEF MigrationsInv, MigrationsTypeOK, FilesInOrder, RunnerKnows

LEMMA MigrationsInitInv == MigrationsInit => MigrationsInv
<1> SUFFICES ASSUME MigrationsInit PROVE MigrationsInv
  OBVIOUS
<1>1. MigrationsTypeOK /\ Recorded = {} /\ applied = {}
  BY IdleRunnerIs DEF MigrationsInit, MigrationsTypeOK, Content, Checksums, Recorded
<1>2. FilesInOrder
  BY <1>1 DEF FilesInOrder
<1>3. \A r \in Runners : runner[r] = IdleRunner
  BY DEF MigrationsInit
<1>4. QED
  BY <1>1, <1>2, <1>3, IdleRunnerIs DEF MigrationsInv

LEMMA MigrationsNextKeeps == MigrationsInv /\ [MigrationsNext]_migrationVars => MigrationsInv'
<1> SUFFICES ASSUME MigrationsInv, [MigrationsNext]_migrationVars PROVE MigrationsInv'
  OBVIOUS
<1>1. CASE UNCHANGED migrationVars
  BY <1>1 DEF migrationVars, MigrationsInv, MigrationsTypeOK, FilesInOrder, RunnerKnows, Recorded
<1>2. ASSUME NEW f \in Files, EditFile(f) PROVE MigrationsInv'
  BY <1>2, EditFileKeeps
<1>3. ASSUME NEW r \in Runners, Migrate(r) PROVE MigrationsInv'
  <2>1. CASE StartUp(r)
    BY <2>1, StartUpKeeps
  <2>2. CASE StartDown(r)
    BY <2>2, StartDownKeeps
  <2>3. ASSUME NEW f \in Files, PassKnown(r, f) PROVE MigrationsInv'
    BY <2>3, PassKnownKeeps
  <2>4. ASSUME NEW f \in Files, ApplyFile(r, f) PROVE MigrationsInv'
    BY <2>4, ApplyFileKeeps
  <2>5. ASSUME NEW f \in Files, FileFails(r, f) PROVE MigrationsInv'
    BY <2>5, RunEndsKeeps DEF FileFails
  <2>6. CASE RecordFile(r)
    BY <2>6, RecordFileKeeps
  <2>7. CASE FinishUp(r)
    BY <2>7, RunEndsKeeps DEF FinishUp
  <2>8. CASE RevertFile(r)
    BY <2>8, RevertFileKeeps
  <2>9. CASE UnrecordFile(r)
    BY <2>9, UnrecordFileKeeps
  <2>10. CASE RunnerCrashes(r)
    BY <2>10, RunEndsKeeps DEF RunnerCrashes
  <2>11. QED
    BY <1>3, <2>1, <2>2, <2>3, <2>4, <2>5, <2>6, <2>7, <2>8, <2>9, <2>10 DEF Migrate
<1>4. QED
  BY <1>1, <1>2, <1>3 DEF MigrationsNext

\* In every state of the runners, however many there are and wherever they
\* crash, what each takes for done is done, but for the last file
\* (migrate.ts:101-140).
THEOREM MigrationsInvariant == MigrationsSpec => []MigrationsInv
<1>1. MigrationsInit => MigrationsInv
  BY MigrationsInitInv
<1>2. MigrationsInv /\ [MigrationsNext]_migrationVars => MigrationsInv'
  BY MigrationsNextKeeps
<1>3. QED
  BY <1>1, <1>2, PTL DEF MigrationsSpec

\* The database holds the objects of the first files, the table the rows of the
\* first files, and they differ by the last of them at most (migrate.ts:101).
THEOREM FilesNeverOverAHole == MigrationsSpec => []MigrationsOrderly
<1>1. MigrationsInv => MigrationsOrderly
  BY OrderlyFromInv
<1>2. QED
  BY <1>1, MigrationsInvariant, PTL

-----------------------------------------------------------------------------
\* Guests and audit events are not ordered by severity.
Plain == list.name # "exceptions" => \A r \in Rows : row[r].severity = 1

\* The cursors given, the last of them the oldest.
CursorLast ==
  /\ cuts = {} => cursor = NoCursor /\ through = {} /\ seen = {} /\ ~repeated
  /\ cursor # NoCursor => \A c \in cuts : cursor.ms <= c.ms

\* What was returned is not beyond the cursor, what was there all along is
\* returned, lost to a cursor of its millisecond, or still to come.
PagesSoFar ==
  list.name # "exceptions" =>
    /\ ~repeated
    /\ cursor # NoCursor => \A r \in seen : ~Beyond(r)
    /\ cuts # {} => \A r \in through :
         r \in seen \/ SharesMillis(r) \/ (cursor # NoCursor /\ row[r].ms < cursor.ms)

\* The inductive invariant.
PagingInv ==
  /\ PagingTypeOK /\ through \subseteq present
  /\ Plain /\ CursorLast /\ PagesSoFar

-----------------------------------------------------------------------------
LEMMA NumbersAre ==
  /\ Rows \subseteq Nat /\ Millis \subseteq Nat /\ Micros \subseteq Nat /\ Limits \subseteq Nat
  /\ 0 \notin Limits /\ IsFiniteSet(Rows)
  BY NumbersAssumption, SomeAssumption, RowsAssumption

LEMMA RowIs ==
  ASSUME PagingInv, NEW r \in Rows
  PROVE  /\ r \in Nat /\ row[r].ms \in Nat /\ row[r].us \in Nat /\ row[r].severity \in {1, 2}
         /\ row[r].ms \in Millis
<1>1. row[r] \in Row
  BY DEF PagingInv, PagingTypeOK
<1>2. QED
  BY <1>1, NumbersAre DEF Row

LEMMA CursorIs ==
  ASSUME PagingInv
  PROVE  /\ cursor # NoCursor => cursor \in Cursor /\ cursor.ms \in Nat /\ cursor.id \in Nat
         /\ \A c \in cuts : c.ms \in Int
<1>1. \A c \in Cursor : c.ms \in Nat /\ c.id \in Nat
  BY NumbersAre DEF Cursor
<1>2. NoCursor.ms \in Int
  BY DEF NoCursor
<1>3. cursor \in Cursor \cup {NoCursor} /\ cuts \subseteq Cursor \cup {NoCursor}
  BY DEF PagingInv, PagingTypeOK
<1>4. QED
  BY <1>1, <1>2, <1>3

\* The order of a list is total.
LEMMA PrecedesTotal ==
  ASSUME PagingInv, NEW a \in Rows, NEW b \in Rows, a # b
  PROVE  Precedes(a, b) \/ Precedes(b, a)
<1>1. Later(a, b) \/ Later(b, a)
  BY RowIs DEF Later
<1>2. CASE list.name = "exceptions" /\ row[a].severity # row[b].severity
  BY <1>2, RowIs DEF Precedes
<1>3. CASE ~ (list.name = "exceptions" /\ row[a].severity # row[b].severity)
  BY <1>1, <1>3 DEF Precedes
<1>4. QED
  BY <1>2, <1>3

LEMMA PrecedesIrreflexive ==
  ASSUME PagingInv, NEW a \in Rows
  PROVE  ~ Precedes(a, a)
<1>1. ~ Later(a, a)
  BY RowIs DEF Later
<1>2. QED
  BY <1>1 DEF Precedes

LEMMA LaterTransitive ==
  ASSUME PagingInv, NEW a \in Rows, NEW b \in Rows, NEW c \in Rows, Later(a, b), Later(b, c)
  PROVE  Later(a, c)
  BY RowIs DEF Later

LEMMA PrecedesTransitive ==
  ASSUME PagingInv, NEW a \in Rows, NEW b \in Rows, NEW c \in Rows,
         Precedes(a, b), Precedes(b, c)
  PROVE  Precedes(a, c)
<1>1. CASE list.name # "exceptions"
  BY <1>1, LaterTransitive DEF Precedes
<1>2. CASE list.name = "exceptions"
  <2>1. row[a].severity \in Nat /\ row[b].severity \in Nat /\ row[c].severity \in Nat
    BY RowIs
  <2>2. CASE row[a].severity = row[b].severity /\ row[b].severity = row[c].severity
    BY <2>2, LaterTransitive DEF Precedes
  <2>3. CASE ~ (row[a].severity = row[b].severity /\ row[b].severity = row[c].severity)
    <3>1. row[a].severity >= row[b].severity /\ row[b].severity >= row[c].severity
      BY <1>2, <2>1 DEF Precedes
    <3>2. row[a].severity > row[c].severity
      BY <2>1, <2>3, <3>1
    <3>3. QED
      BY <1>2, <2>1, <3>2 DEF Precedes
  <2>4. QED
    BY <2>2, <2>3
<1>3. QED
  BY <1>1, <1>2

\* A page has a last row: the one with the fewest rows after it.
LEMMA LastOfIs ==
  ASSUME PagingInv, NEW page \in SUBSET Rows, page # {}
  PROVE  LastOf(page) \in page /\ \A a \in page \ {LastOf(page)} : Precedes(a, LastOf(page))
<1> DEFINE After(r) == {a \in page : Precedes(r, a)}
           Ranks == {Cardinality(After(r)) : r \in page}
<1>1. \A r \in page : IsFiniteSet(After(r)) /\ Cardinality(After(r)) \in Nat
  <2>1. IsFiniteSet(page)
    BY NumbersAre, FS_Subset
  <2>2. ASSUME NEW r \in page PROVE IsFiniteSet(After(r)) /\ Cardinality(After(r)) \in Nat
    <3>1. After(r) \subseteq page
      OBVIOUS
    <3>2. QED
      BY <2>1, <3>1, FS_Subset, FS_CardinalityType
  <2>3. QED
    BY <2>2
<1>2. Ranks \in SUBSET Nat /\ Ranks # {}
  BY <1>1
<1>3. PICK m \in Ranks : \A n \in Ranks : m <= n
  BY <1>2, LeastOf
<1>4. PICK r \in page : m = Cardinality(After(r))
  BY <1>3
<1>5. ASSUME NEW a \in page \ {r} PROVE Precedes(a, r)
  <2>1. SUFFICES ASSUME ~ Precedes(a, r) PROVE FALSE
    OBVIOUS
  <2>2. Precedes(r, a)
    BY <2>1, PrecedesTotal
  <2>3. After(a) \subseteq After(r)
    <3>1. ASSUME NEW b \in page, Precedes(a, b) PROVE Precedes(r, b)
      BY <2>2, <3>1, PrecedesTransitive
    <3>2. QED
      BY <3>1
  <2>4. a \in After(r) /\ a \notin After(a)
    BY <2>2, PrecedesIrreflexive
  <2>5. Cardinality(After(a)) <= Cardinality(After(r)) /\ Cardinality(After(a)) # Cardinality(After(r))
    <3>1. After(a) # After(r)
      BY <2>4
    <3>2. IsFiniteSet(After(r))
      BY <1>1
    <3> HIDE DEF After
    <3>3. QED
      BY <2>3, <3>1, <3>2, FS_Subset
  <2>6. m <= Cardinality(After(a))
    <3>1. Cardinality(After(a)) \in Ranks
      OBVIOUS
    <3>2. QED
      BY <1>3, <3>1
  <2>7. QED
    <3>1. Cardinality(After(a)) \in Nat /\ Cardinality(After(r)) \in Nat
      BY <1>1
    <3> HIDE DEF After
    <3>2. QED
      BY <1>4, <2>5, <2>6, <3>1
<1>6. \E l \in page : \A a \in page \ {l} : Precedes(a, l)
  BY <1>5
<1>7. LastOf(page) = CHOOSE l \in page : \A a \in page \ {l} : Precedes(a, l)
  BY DEF LastOf
<1>8. QED
  BY <1>6, <1>7

-----------------------------------------------------------------------------
\* A page that is not the last one: its last row is the new cursor.
LEMMA MorePages ==
  ASSUME PagingInv, NEW page \in SUBSET Rows, NextPage(page), Cardinality(Selected) > list.limit
  PROVE  PagingInv'
<1>1. /\ cuts = {} \/ cursor # NoCursor
      /\ IsPage(page) /\ UNCHANGED <<list, row, present>>
      /\ seen' = seen \cup page /\ repeated' = (repeated \/ page \cap seen # {})
      /\ through' = IF cuts = {} /\ cursor = NoCursor THEN present ELSE through
  BY DEF NextPage
<1>2. PagingTypeOK /\ through \subseteq present /\ Plain /\ CursorLast /\ PagesSoFar
  BY DEF PagingInv
<1>3. present \subseteq Rows /\ list \in List
  BY <1>2 DEF PagingTypeOK
<1>4. page \subseteq Selected /\ Cardinality(page) = list.limit /\ list.limit # 0
  <2>1. list.limit \in Nat /\ list.limit # 0
    BY <1>3, NumbersAre DEF List
  <2>2. IsFiniteSet(Selected)
    BY <1>3, NumbersAre, FS_Subset DEF Selected
  <2>3. Cardinality(Selected) \in Nat
    BY <2>2, FS_CardinalityType
  <2>4. QED
    BY <1>1, <2>1, <2>3 DEF IsPage
<1>5. page # {}
  BY <1>4, FS_EmptySet
<1>6. PICK last \in page : last = LastOf(page) /\ \A a \in page \ {last} : Precedes(a, last)
  BY <1>5, LastOfIs
<1>7. PICK next : next = [ms |-> row[last].ms, id |-> last]
  OBVIOUS
<1>8. cursor' = next /\ cuts' = cuts \cup {next}
  BY <1>6, <1>7 DEF NextPage
<1>9. next.ms = row[last].ms /\ next.id = last /\ next \in Cursor /\ next # NoCursor
  <2>1. next \in Cursor
    BY <1>6, <1>7, RowIs DEF Cursor
  <2>2. next.ms \in Nat /\ NoCursor.ms = -1
    BY <1>6, <1>7, RowIs DEF NoCursor
  <2>3. QED
    BY <1>7, <2>1, <2>2
<1>10. last \in Rows /\ Beyond(last)
  BY <1>4, <1>6 DEF Selected
<1>11. cursor # NoCursor => next.ms <= cursor.ms
  BY <1>9, <1>10, RowIs, CursorIs DEF Beyond
<1>12. PagingTypeOK'
  <2>1. repeated' \in BOOLEAN
    BY <1>1, <1>2 DEF PagingTypeOK
  <2>2. seen' \subseteq Rows /\ through' \subseteq Rows
    BY <1>1, <1>2 DEF PagingTypeOK
  <2>3. QED
    BY <1>1, <1>2, <1>8, <1>9, <2>1, <2>2 DEF PagingTypeOK
<1>13. through' \subseteq present'
  BY <1>1, <1>2
<1>14. Plain'
  BY <1>1, <1>2 DEF Plain
<1>15. CursorLast'
  <2>1. ASSUME NEW c \in cuts PROVE next.ms <= c.ms
    <3>1. cursor # NoCursor /\ cursor.ms <= c.ms
      BY <1>1, <1>2 DEF CursorLast
    <3>2. next.ms \in Int /\ cursor.ms \in Int /\ c.ms \in Int
      BY <1>9, <1>10, <3>1, RowIs, CursorIs
    <3>3. QED
      BY <1>11, <3>1, <3>2
  <2>2. next.ms <= next.ms
    BY <1>9, <1>10, RowIs
  <2>3. QED
    BY <1>8, <1>9, <2>1, <2>2 DEF CursorLast
<1>16. PagesSoFar'
  <2> SUFFICES ASSUME list.name # "exceptions"
               PROVE  /\ ~repeated'
                      /\ \A r \in seen' : ~Beyond(r)'
                      /\ \A r \in through' :
                           r \in seen' \/ SharesMillis(r)' \/ row'[r].ms < cursor'.ms
    BY <1>1, <1>8, <1>9 DEF PagesSoFar
  <2>1. \A a \in Rows, b \in Rows : Precedes(a, b) <=> Later(a, b)
    BY DEF Precedes
  <2>2. ASSUME NEW r \in seen PROVE ~Beyond(r) /\ cursor # NoCursor
    BY <1>1, <1>2 DEF CursorLast, PagesSoFar
  <2>3. ~repeated'
    BY <1>1, <1>2, <1>4, <2>2 DEF PagesSoFar, Selected
  <2>4. ASSUME NEW r \in seen' PROVE ~Beyond(r)'
    <3>1. r \in Rows
      BY <1>1, <1>2 DEF PagingTypeOK
    <3>2. ~ (row[r].ms < next.ms \/ (row[r].ms = next.ms /\ row[r].us = 0 /\ r < next.id))
      <4>1. CASE r \in seen
        BY <1>9, <1>10, <2>2, <3>1, <4>1, RowIs, CursorIs DEF Beyond
      <4>2. CASE r \in page \ {last}
        <5>1. Later(r, last)
          BY <1>6, <1>10, <2>1, <3>1, <4>2
        <5>2. QED
          BY <1>9, <1>10, <3>1, <5>1, RowIs DEF Later
      <4>3. CASE r = last
        BY <1>9, <1>10, <4>3, RowIs
      <4>4. QED
        BY <1>1, <4>1, <4>2, <4>3
    <3>3. QED
      BY <1>1, <1>8, <1>9, <3>2 DEF Beyond
  <2>5. ASSUME NEW r \in through' PROVE r \in seen' \/ SharesMillis(r)' \/ row'[r].ms < cursor'.ms
    <3>1. r \in present /\ r \in Rows
      BY <1>1, <1>2, <1>3
    <3>2. CASE r \in seen \/ (cuts # {} /\ SharesMillis(r))
      BY <1>1, <1>8, <3>2 DEF SharesMillis
    <3>3. CASE ~ (r \in seen \/ (cuts # {} /\ SharesMillis(r)))
      <4>1. Beyond(r)
        <5>1. CASE cuts = {}
          BY <1>2, <5>1 DEF Beyond, CursorLast
        <5>2. CASE cuts # {}
          BY <1>1, <1>2, <3>3, <5>2 DEF Beyond, PagesSoFar
        <5>3. QED
          BY <5>1, <5>2
      <4>2. r \in Selected
        BY <3>1, <4>1 DEF Selected
      <4>3. CASE r \in page
        BY <1>1, <4>3
      <4>4. CASE r \notin page
        <5>1. Later(last, r)
          BY <1>1, <1>10, <2>1, <3>1, <4>2, <4>4 DEF IsPage
        <5>2. row[r].ms <= row[last].ms
          BY <1>10, <3>1, <5>1, RowIs DEF Later
        <5>3. row[r].ms < next.ms \/ row[r].ms = next.ms
          BY <1>9, <1>10, <3>1, <5>2, RowIs
        <5>4. QED
          BY <1>1, <1>8, <5>3 DEF SharesMillis
      <4>5. QED
        BY <4>3, <4>4
    <3>4. QED
      BY <3>2, <3>3
  <2>6. QED
    BY <2>3, <2>4, <2>5
<1>17. QED
  BY <1>12, <1>13, <1>14, <1>15, <1>16 DEF PagingInv

\* The last page holds all that is left.
LEMMA LastPage ==
  ASSUME PagingInv, NEW page \in SUBSET Rows, NextPage(page), ~ (Cardinality(Selected) > list.limit)
  PROVE  PagingInv'
<1>1. /\ cuts = {} \/ cursor # NoCursor
      /\ IsPage(page) /\ UNCHANGED <<list, row, present>>
      /\ seen' = seen \cup page /\ repeated' = (repeated \/ page \cap seen # {})
      /\ through' = IF cuts = {} /\ cursor = NoCursor THEN present ELSE through
      /\ cursor' = NoCursor /\ cuts' = cuts \cup {NoCursor}
  BY DEF NextPage
<1>2. PagingTypeOK /\ through \subseteq present /\ Plain /\ CursorLast /\ PagesSoFar
  BY DEF PagingInv
<1>3. page = Selected
  <2>1. list.limit \in Nat
    BY <1>2, NumbersAre DEF PagingTypeOK, List
  <2>2. IsFiniteSet(Selected)
    BY <1>2, NumbersAre, FS_Subset DEF Selected, PagingTypeOK
  <2>3. Cardinality(Selected) \in Nat
    BY <2>2, FS_CardinalityType
  <2>4. Cardinality(page) = Cardinality(Selected) /\ page \subseteq Selected
    BY <1>1, <2>1, <2>3 DEF IsPage
  <2>5. QED
    BY <2>2, <2>4, FS_Subset
<1>4. PagingTypeOK'
  <2>1. repeated' \in BOOLEAN
    BY <1>1, <1>2 DEF PagingTypeOK
  <2>2. seen' \subseteq Rows /\ through' \subseteq Rows
    BY <1>1, <1>2 DEF PagingTypeOK
  <2>3. QED
    BY <1>1, <1>2, <2>1, <2>2 DEF PagingTypeOK
<1>5. through' \subseteq present' /\ Plain' /\ CursorLast'
  BY <1>1, <1>2 DEF Plain, CursorLast
<1>6. PagesSoFar'
  <2> SUFFICES ASSUME list.name # "exceptions"
               PROVE  ~repeated' /\ \A r \in through' : r \in seen' \/ SharesMillis(r)'
    BY <1>1 DEF PagesSoFar
  <2>1. ASSUME NEW r \in seen PROVE ~Beyond(r)
    BY <1>1, <1>2 DEF CursorLast, PagesSoFar
  <2>2. ~repeated'
    BY <1>1, <1>2, <1>3, <2>1 DEF PagesSoFar, Selected
  <2>3. ASSUME NEW r \in through' PROVE r \in seen' \/ SharesMillis(r)'
    <3>1. r \in present
      BY <1>1, <1>2
    <3>2. CASE r \in seen \/ (cuts # {} /\ SharesMillis(r))
      BY <1>1, <3>2 DEF SharesMillis
    <3>3. CASE ~ (r \in seen \/ (cuts # {} /\ SharesMillis(r)))
      <4>1. CASE cuts = {}
        BY <1>1, <1>2, <1>3, <3>1, <4>1 DEF Beyond, CursorLast, Selected
      <4>2. CASE cuts # {}
        BY <1>1, <1>2, <1>3, <3>1, <3>3, <4>2 DEF Beyond, PagesSoFar, Selected
      <4>3. QED
        BY <4>1, <4>2
    <3>4. QED
      BY <3>2, <3>3
  <2>4. QED
    BY <2>2, <2>3
<1>7. QED
  BY <1>4, <1>5, <1>6 DEF PagingInv

\* Rows come and go.
LEMMA RowsChange ==
  ASSUME PagingInv, NEW r \in Rows, RowComes(r) \/ RowGoes(r)
  PROVE  PagingInv'
<1>1. /\ UNCHANGED <<list, row, cursor, seen, repeated, cuts>>
      /\ through' \subseteq through /\ through' \subseteq present' /\ present' \subseteq Rows
  BY DEF RowComes, RowGoes, PagingInv, PagingTypeOK
<1>2. PagingTypeOK' /\ Plain' /\ CursorLast' /\ PagesSoFar'
  BY <1>1 DEF PagingInv, PagingTypeOK, Plain, CursorLast, PagesSoFar, Beyond, SharesMillis
<1>3. QED
  BY <1>1, <1>2 DEF PagingInv

LEMMA PagingInitInv == PagingInit => PagingInv
<1> SUFFICES ASSUME PagingInit PROVE PagingInv
  OBVIOUS
<1>1. PagingTypeOK
  BY DEF PagingInit, PagingTypeOK
<1>2. Plain /\ CursorLast /\ PagesSoFar /\ through \subseteq present
  BY DEF PagingInit, Plain, CursorLast, PagesSoFar
<1>3. QED
  BY <1>1, <1>2 DEF PagingInv

LEMMA PagingNextKeeps == PagingInv /\ [PagingNext]_pagingVars => PagingInv'
<1> SUFFICES ASSUME PagingInv, [PagingNext]_pagingVars PROVE PagingInv'
  OBVIOUS
<1>1. CASE UNCHANGED pagingVars
  BY <1>1 DEF pagingVars, PagingInv, PagingTypeOK, Plain, CursorLast, PagesSoFar, Beyond, SharesMillis
<1>2. ASSUME NEW page \in SUBSET Rows, NextPage(page) PROVE PagingInv'
  BY <1>2, MorePages, LastPage
<1>3. ASSUME NEW r \in Rows, RowComes(r) \/ RowGoes(r) PROVE PagingInv'
  BY <1>3, RowsChange
<1>4. QED
  BY <1>1, <1>2, <1>3 DEF PagingNext

\* The milliseconds of the cursors never grow, and of the lists ordered by time no
\* row returned is selected again (service.ts:225-259).
THEOREM PagingInvariant == PagingSpec => []PagingInv
<1>1. PagingInit => PagingInv
  BY PagingInitInv
<1>2. PagingInv /\ [PagingNext]_pagingVars => PagingInv'
  BY PagingNextKeeps
<1>3. QED
  BY <1>1, <1>2, PTL DEF PagingSpec

\* The pages of guests and of audit events never repeat a row, and once ended
\* hold every row that was there all along, but for rows of the very millisecond
\* at which a page ended, whatever rows come and go between pages
\* (services/guest/src/service.ts:238).
THEOREM PagesHoldAllOnce == PagingSpec => []PagesComplete
<1>1. PagingInv => PagesComplete
  <2> SUFFICES ASSUME PagingInv PROVE PagesComplete
    OBVIOUS
  <2>1. cursor # NoCursor => \A c \in cuts : cursor.ms <= c.ms
    BY DEF PagingInv, CursorLast
  <2>2. ASSUME list.name # "exceptions", Ended, NEW r \in through PROVE r \in seen \/ SharesMillis(r)
    BY <2>2 DEF PagingInv, PagesSoFar, Ended
  <2>3. list.name # "exceptions" => ~repeated
    BY DEF PagingInv, PagesSoFar
  <2>4. QED
    BY <2>1, <2>2, <2>3 DEF PagesComplete
<1>2. QED
  BY <1>1, PagingInvariant, PTL
=============================================================================
