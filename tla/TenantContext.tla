---------------------------- MODULE TenantContext ----------------------------
(***************************************************************************)
(* The tenant context of packages/db/src/tenant-context.ts: the settings     *)
(* app.* that row-level security and the audit triggers read, on clients    *)
(* that go back to the pool and are borrowed again, while statements fail   *)
(* and connections break. Two settings stand for the six: the tenant, always *)
(* set, and the user agent, set only when the request has one.              *)
(*                                                                         *)
(* withReadOnlyTenantContext is exported and used by no service; it is       *)
(* modelled because it shares the clients of the others.                    *)
(***************************************************************************)

CONSTANTS
  Clients,    \* connections of the pool
  Works,      \* calls that borrow a client, one after another each
  Tenants, Agents,
  Unset       \* a setting that is not set, or ''

ASSUME ClientsAssumption == Clients # {}
ASSUME NoSettingAssumption == Unset \notin Tenants \cup Agents

VARIABLES
  settings,  \* of each connection: those of its session, those of its transaction
  unreset,   \* clients that went back after a reset that failed
  work       \* the calls

contextVars == <<settings, unreset, work>>

-----------------------------------------------------------------------------
Scope == [tenant : Tenants \cup {Unset}, agent : Agents \cup {Unset}]
Nothing == [tenant |-> Unset, agent |-> Unset]
Fresh == [session |-> Nothing, local |-> Nothing]

Kind == {"tx", "session"}
Work == [at : {"idle", "connect", "begin", "tenant", "rest", "fn", "commit", "rollback", "reset"},
         kind : Kind, own : Scope, client : Clients]

\* The calls that hold a client.
Holds(w) == work[w].at \notin {"idle", "connect"}
Held == {work[w].client : w \in {v \in Works : Holds(v)}}

Moves(w, at) == work' = [work EXCEPT ![w].at = at]

\* The value a statement sees.
Seen(k, name) ==
  IF settings[k].local[name] # Unset THEN settings[k].local[name] ELSE settings[k].session[name]

\* Mutant: the settings of a transaction are set on the session.
IsLocalNever(kind) == FALSE

\* The is_local of set_config.
IsLocal(kind) == kind = "tx"

Set(w, name) ==
  LET k == work[w].client
      value == work[w].own[name]
  IN  settings' = IF IsLocal(work[w].kind)
                  THEN [settings EXCEPT ![k].local[name] = value]
                  ELSE [settings EXCEPT ![k].session[name] = value]

-----------------------------------------------------------------------------
\* withPrincipalContext, or withTenantContext with the tenant of a webhook. A
\* malformed id is refused before a client is borrowed.
Enter(w, kind, tenant, agent) ==
  /\ work[w].at = "idle"
  /\ work' = [work EXCEPT ![w].at = "connect", ![w].kind = kind,
                          ![w].own = [tenant |-> tenant, agent |-> agent]]
  /\ UNCHANGED <<settings, unreset>>

Connect(w, k) ==
  /\ work[w].at = "connect" /\ k \notin Held
  /\ work' = [work EXCEPT ![w].client = k,
                          ![w].at = IF work[w].kind = "tx" THEN "begin" ELSE "tenant"]
  /\ UNCHANGED <<settings, unreset>>

BeginTransaction(w) ==
  /\ work[w].at = "begin"
  /\ Moves(w, "tenant")
  /\ UNCHANGED <<settings, unreset>>

ApplyTenant(w) ==
  /\ work[w].at = "tenant"
  /\ Set(w, "tenant")
  /\ Moves(w, "rest")
  /\ UNCHANGED unreset

ApplyRest(w) ==
  /\ work[w].at = "rest"
  /\ IF work[w].own.agent # Unset THEN Set(w, "agent") ELSE UNCHANGED settings
  /\ Moves(w, "fn")
  /\ UNCHANGED unreset

Ending(kind) == IF kind = "tx" THEN "commit" ELSE "reset"

\* fn returns.
FnReturns(w) ==
  /\ work[w].at = "fn"
  /\ Moves(w, Ending(work[w].kind))
  /\ UNCHANGED <<settings, unreset>>

\* A statement fails, or fn throws.
Throws(w) ==
  /\ work[w].at \in {"begin", "tenant", "rest", "fn", "commit"}
  /\ Moves(w, IF work[w].kind = "tx" THEN "rollback" ELSE "reset")
  /\ UNCHANGED <<settings, unreset>>

\* COMMIT or ROLLBACK drops what is local; release.
EndTransaction(w) ==
  /\ work[w].at \in {"commit", "rollback"}
  /\ settings' = [settings EXCEPT ![work[w].client].local = Nothing]
  /\ Moves(w, "idle")
  /\ UNCHANGED unreset

ResetSession(w) ==
  /\ work[w].at = "reset"
  /\ settings' = [settings EXCEPT ![work[w].client].session = Nothing]
  /\ unreset' = unreset \ {work[w].client}
  /\ Moves(w, "idle")

\* The error of the reset is swallowed and the client is released all the same.
ResetFails(w) ==
  /\ work[w].at = "reset"
  /\ unreset' = unreset \cup {work[w].client}
  /\ Moves(w, "idle")
  /\ UNCHANGED settings

\* The connection breaks: its call fails, and the pool opens another one.
Breaks(k) ==
  /\ settings' = [settings EXCEPT ![k] = Fresh]
  /\ unreset' = unreset \ {k}
  /\ work' = [w \in Works |->
       IF Holds(w) /\ work[w].client = k THEN [work[w] EXCEPT !.at = "idle"] ELSE work[w]]

ContextInit ==
  /\ settings = [k \in Clients |-> Fresh] /\ unreset = {}
  /\ work = [w \in Works |-> [at |-> "idle", kind |-> "tx", own |-> Nothing,
                              client |-> CHOOSE k \in Clients : TRUE]]

RunWork(w) ==
  \/ \E kind \in Kind, tenant \in Tenants, agent \in Agents \cup {Unset} :
       Enter(w, kind, tenant, agent)
  \/ \E k \in Clients : Connect(w, k)
  \/ BeginTransaction(w) \/ ApplyTenant(w) \/ ApplyRest(w)
  \/ FnReturns(w) \/ Throws(w) \/ EndTransaction(w)
  \/ ResetSession(w) \/ ResetFails(w)

ContextNext == (\E w \in Works : RunWork(w)) \/ (\E k \in Clients : Breaks(k))

ContextSpec == ContextInit /\ [][ContextNext]_contextVars

-----------------------------------------------------------------------------
ContextTypeOK ==
  /\ settings \in [Clients -> [session : Scope, local : Scope]]
  /\ unreset \subseteq Clients
  /\ work \in [Works -> Work]

\* While fn runs, its statements see the tenant of its own request, whoever had the
\* client before and however that ended, and no other request's user agent either,
\* unless a reset of this client failed. A client in the pool carries nothing but
\* what such a reset left (tenant-context.ts:54, 109).
TenantIsolated ==
  /\ \A w \in Works : work[w].at = "fn" =>
       /\ Seen(work[w].client, "tenant") = work[w].own.tenant
       /\ work[w].client \notin unreset => Seen(work[w].client, "agent") = work[w].own.agent
  /\ \A k \in Clients \ Held :
       settings[k].local = Nothing /\ (settings[k].session # Nothing => k \in unreset)
=============================================================================
