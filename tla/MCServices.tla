------------------------------ MODULE MCServices ------------------------------
(* The parts that share no state, checked side by side: the initial state       *)
(* chooses the one that moves, the others stay as they began.                   *)
EXTENDS AiGateway, GuestInsights, ReviewPoller, TenantContext, Migrations, Paging, WebClient

VARIABLE focus

Parts == {"gateway", "insights", "poller", "context", "migrations", "paging", "client"}

\* Review "r1" is about property "A", the others about "B".
AboutTwo(r) == IF r = "r1" THEN "A" ELSE "B"

\* One state of those a part may begin in, when it does not move.
GatewayRests == active = None
PagingRests == list = (CHOOSE l \in List : TRUE) /\ row = [r \in Rows |-> CHOOSE c \in Row : c.severity = 1]
ClientRests == online /\ \A l \in Loops : actor[l].at = "idle"

ServicesInit ==
  /\ focus \in Parts
  /\ GatewayInit /\ InsightsInit /\ PollerInit /\ ContextInit /\ MigrationsInit
  /\ PagingInit /\ ClientInit
  /\ focus # "gateway" => GatewayRests
  /\ focus # "paging" => PagingRests
  /\ focus # "client" => ClientRests

Keeps(part, vars) == IF focus = part THEN TRUE ELSE UNCHANGED vars

OthersRest ==
  /\ UNCHANGED focus
  /\ Keeps("gateway", gatewayVars) /\ Keeps("insights", insightsVars) /\ Keeps("poller", pollerVars)
  /\ Keeps("context", contextVars) /\ Keeps("migrations", migrationVars)
  /\ Keeps("paging", pagingVars) /\ Keeps("client", clientVars)

ServicesNext ==
  \/ focus = "gateway" /\ GatewayNext /\ OthersRest
  \/ focus = "insights" /\ InsightsNext /\ OthersRest
  \/ focus = "poller" /\ PollerNext /\ OthersRest
  \/ focus = "context" /\ ContextNext /\ OthersRest
  \/ focus = "migrations" /\ MigrationsNext /\ OthersRest
  \/ focus = "paging" /\ PagingNext /\ OthersRest
  \/ focus = "client" /\ ClientNext /\ OthersRest

servicesVars == <<focus, gatewayVars, insightsVars, pollerVars, contextVars, migrationVars,
                  pagingVars, clientVars>>

\* ClientFairness, when it is the client that moves.
FairClient ==
  /\ \A a \in Actors : WF_clientVars(focus = "client" /\ Reply(a))
  /\ WF_clientVars(focus = "client" /\ (RefreshAnswered \/ RefreshFails))
  /\ \A l \in Loops : WF_clientVars(focus = "client" /\ Replay(l))

ServicesSpec == ServicesInit /\ [][ServicesNext]_servicesVars /\ FairClient

\* The state of every part is of its type.
PartsTypeOK ==
  /\ GatewayTypeOK /\ InsightsTypeOK /\ PollerTypeOK /\ ContextTypeOK
  /\ MigrationsTypeOK /\ PagingTypeOK /\ ClientTypeOK
=============================================================================
