-------------------------- MODULE InferenceRoutes --------------------------
(***************************************************************************)
(* Inference routing from the operator to the sandbox: provider records    *)
(* and the two managed routes in the gateway's store, the bundle that is   *)
(* resolved from them, the sandbox's refresh of its route caches, and      *)
(* inference requests that use the user cache under its read lock.         *)
(*                                                                         *)
(* A provider record has an id, a type and a credential; "" stands for no  *)
(* usable API key. A route names a provider and a model. Store accesses    *)
(* are single steps; a bundle takes up to four of them. The lock is        *)
(* tokio's, which lets a waiting writer pass before new readers. Headers,  *)
(* URLs and the inference log are left out.                                *)
(***************************************************************************)
EXTENDS Naturals, Sequences, FiniteSets

CONSTANTS
    ProviderNames,  \* names of providers
    ApiKeys,        \* credentials, "" for one that is not usable
    Models,         \* model ids
    Admins,         \* concurrent operator requests
    MaxAdmin,       \* bound on operator requests
    InferenceConns, \* tunnels to inference.local
    NoRecord

ASSUME InferenceAssumption ==
    "" \in ApiKeys /\ NoRecord \notin ProviderNames /\ MaxAdmin \in Nat

RouteNames == <<"inference.local", "sandbox-system">>

VARIABLES
    provider,    \* provider records by name
    nextId,      \* ids given so far
    route,       \* route records by position in RouteNames
    admin,       \* operator requests
    adminOps,    \* operator requests so far
    refresh,     \* the sandbox: start or refresh, the bundle being resolved, its revision
    caches,      \* the user and the system cache
    tunnel       \* per connection: its request and whether the client reads

inferenceVars == <<provider, nextId, route, admin, adminOps, refresh, caches, tunnel>>
gatewaySame == UNCHANGED <<provider, nextId, route, admin, adminOps>>
sandboxSame == UNCHANGED <<refresh, caches, tunnel>>

NoRoute == [provider |-> NoRecord, model |-> "", version |-> 0]
IdleAdmin == [pc |-> "idle", op |-> "", name |-> NoRecord, key |-> "", model |-> "",
              route |-> 1, seen |-> NoRecord, version |-> 0]
NoBundle == <<>>

(* Nothing in the store, and the sandbox at pc: before its first fetch, or *)
(* running without routing after that failed ("off").                      *)
InferenceFrom(pc) ==
    /\ provider = [p \in ProviderNames |-> NoRecord] /\ nextId = 1
    /\ route = [r \in 1..2 |-> NoRoute]
    /\ admin = [a \in Admins |-> IdleAdmin] /\ adminOps = 0
    /\ refresh = [pc |-> pc, at |-> 1, cfg |-> NoRoute, got |-> <<>>,
                  revision |-> NoBundle, first |-> TRUE]
    /\ caches = <<<<>>, <<>>>>
    /\ tunnel = [c \in InferenceConns |-> [pc |-> "idle", stalled |-> FALSE, routed |-> FALSE]]

InferenceInit == InferenceFrom("start")

----------------------------------------------------------------------------
(* The gateway's handlers.                                                 *)

Usable(rec) == rec # NoRecord /\ rec.key # ""
SetAdmin(a, r) == admin' = [admin EXCEPT ![a] = r]

(* A request comes in and reads the provider record by name: create fails  *)
(* if it exists, update and set_cluster_inference if it does not, the      *)
(* latter also if no route can be resolved from it.                        *)
AdminRead(a) ==
    /\ admin[a].pc = "idle" /\ adminOps < MaxAdmin
    /\ adminOps' = adminOps + 1
    /\ \E op \in {"create", "update", "set"}, p \in ProviderNames, k \in ApiKeys \ {""},
          m \in Models, r \in 1..2 :
           LET ok == CASE op = "create" -> provider[p] = NoRecord
                       [] op = "update" -> provider[p] # NoRecord
                       [] OTHER -> Usable(provider[p])
           IN  SetAdmin(a, IF ok THEN [IdleAdmin EXCEPT !.pc = op, !.op = op, !.name = p,
                                           !.key = k, !.model = m, !.route = r,
                                           !.seen = provider[p]]
                           ELSE IdleAdmin)
    /\ UNCHANGED <<provider, nextId, route>> /\ sandboxSame

(* create_provider_record: a new id; the name is unique in the store.      *)
CreateProviderPut(a) ==
    /\ admin[a].pc = "create"
    /\ LET p == admin[a].name
       IN  provider' = IF provider[p] = NoRecord
                       THEN [provider EXCEPT ![p] = [id |-> nextId, key |-> admin[a].key]]
                       ELSE provider
    /\ nextId' = nextId + 1
    /\ SetAdmin(a, IdleAdmin)
    /\ UNCHANGED <<route, adminOps>> /\ sandboxSame

(* update_provider_record: the merge of what was read, written back under  *)
(* its id. An empty value removes the credential. A record that was        *)
(* deleted comes back; one that was deleted and created anew has another   *)
(* id and keeps the name.                                                  *)
UpdateProviderPut(a) ==
    /\ admin[a].pc = "update"
    /\ \E k \in {admin[a].key, ""} :
           LET p == admin[a].name
           IN  provider' = IF provider[p] = NoRecord \/ provider[p].id = admin[a].seen.id
                           THEN [provider EXCEPT ![p] = [id |-> admin[a].seen.id, key |-> k]]
                           ELSE provider
    /\ SetAdmin(a, IdleAdmin)
    /\ UNCHANGED <<nextId, route, adminOps>> /\ sandboxSame

(* A request to an endpoint is answered, or it is UpstreamUnavailable or   *)
(* Internal; the probe of an endpoint passes with a status of success.     *)
send_backend_request == {"answered", "unavailable", "internal"}
ProbeStatuses == {200, 400, 401, 429, 500}
verify_backend_endpoint(sent, status) == sent = "answered" /\ status \in 200 .. 299
verify_provider_endpoint(verify, sent, status) == verify => verify_backend_endpoint(sent, status)

(* upsert_cluster_inference_route: the endpoint is verified, unless with   *)
(* --no-verify; then the existing route is read, then the new one written. *)
SetRouteRead(a) ==
    /\ admin[a].pc = "set"
    /\ \E verify \in BOOLEAN, sent \in send_backend_request, status \in ProbeStatuses :
           IF verify_provider_endpoint(verify, sent, status)
           THEN SetAdmin(a, [admin[a] EXCEPT !.pc = "setput",
                                             !.version = route[admin[a].route].version])
           ELSE SetAdmin(a, IdleAdmin)
    /\ UNCHANGED <<provider, nextId, route, adminOps>> /\ sandboxSame

(* Two first writes have different ids and the same name: one fails.       *)
SetRoutePut(a) ==
    /\ admin[a].pc = "setput"
    /\ LET r == admin[a].route
       IN  route' = IF admin[a].version = 0 /\ route[r] # NoRoute THEN route
                    ELSE [route EXCEPT ![r] = [provider |-> admin[a].name, model |-> admin[a].model,
                                               version |-> admin[a].version + 1]]
    /\ SetAdmin(a, IdleAdmin)
    /\ UNCHANGED <<provider, nextId, adminOps>> /\ sandboxSame

(* delete_provider_record: whatever routes still name it.                  *)
DeleteProvider ==
    /\ adminOps < MaxAdmin /\ adminOps' = adminOps + 1
    /\ \E p \in ProviderNames :
           provider[p] # NoRecord /\ provider' = [provider EXCEPT ![p] = NoRecord]
    /\ UNCHANGED <<nextId, route, admin>> /\ sandboxSame

----------------------------------------------------------------------------
(* The sandbox's refresh, from the first fetch on.                         *)

(* The resolved route: what the revision is a hash of. The version of the  *)
(* route is not part of it.                                                *)
ResolvedRoute(cfg, rec) == <<cfg.provider, rec.key, cfg.model>>

(* Mutant: the key is left out of the hash.                                *)
BundleRevisionNoKey(got) ==
    [r \in 1..Len(got) |-> IF got[r] = <<>> THEN <<>> ELSE <<got[r][1], got[r][3]>>]

BundleRevision(got) == got

(* A fetch that fails: no routing at all if it was the first, else the     *)
(* stale routes are kept.                                                  *)
FetchFails ==
    refresh' = [refresh EXCEPT !.pc = IF refresh.first THEN "off" ELSE "idle",
                               !.at = 1, !.got = <<>>]

(* A fetch that fails wherever it may: it changes nothing in the gateway.  *)
RefreshError ==
    /\ refresh.pc \in {"start", "idle"} /\ FetchFails
    /\ gatewaySame /\ UNCHANGED <<caches, tunnel>>

RefreshTick ==
    /\ refresh.pc \in {"start", "idle"}
    /\ refresh' = [refresh EXCEPT !.pc = "route", !.at = 1, !.got = <<>>]
    /\ gatewaySame /\ UNCHANGED <<caches, tunnel>>

Resolved1(got, x) ==
    IF refresh.at = 2
    THEN [refresh EXCEPT !.pc = "compare", !.got = Append(got, x)]
    ELSE [refresh EXCEPT !.pc = "route", !.at = 2, !.got = Append(got, x)]

(* resolve_route_by_name, first half: a route that is not there is left    *)
(* out of the bundle.                                                      *)
ResolveRoute ==
    /\ refresh.pc = "route"
    /\ refresh' = IF route[refresh.at] = NoRoute THEN Resolved1(refresh.got, <<>>)
                  ELSE [refresh EXCEPT !.pc = "provider", !.cfg = route[refresh.at]]
    /\ gatewaySame /\ UNCHANGED <<caches, tunnel>>

(* Second half: a provider that is gone or has no key fails the bundle,    *)
(* the other route included.                                               *)
ResolveProvider ==
    /\ refresh.pc = "provider"
    /\ LET rec == provider[refresh.cfg.provider]
       IN  IF Usable(rec) THEN refresh' = Resolved1(refresh.got, ResolvedRoute(refresh.cfg, rec))
           ELSE FetchFails
    /\ gatewaySame /\ UNCHANGED <<caches, tunnel>>

(* The bundle is compared by revision; the revision is kept before the     *)
(* caches are written.                                                     *)
RefreshCompare ==
    /\ refresh.pc = "compare"
    /\ refresh' = IF refresh.revision = BundleRevision(refresh.got)
                  THEN [refresh EXCEPT !.pc = "idle"]
                  ELSE [refresh EXCEPT !.pc = "user", !.first = FALSE,
                                       !.revision = BundleRevision(refresh.got)]
    /\ gatewaySame /\ UNCHANGED <<caches, tunnel>>

Reading == {c \in InferenceConns : tunnel[c].pc \in {"upstream", "stream"}}

(* The user cache is written when no request reads it, then the system     *)
(* cache.                                                                  *)
RefreshUser ==
    /\ refresh.pc = "user" /\ Reading = {}
    /\ caches' = [caches EXCEPT ![1] = refresh.got[1]]
    /\ refresh' = [refresh EXCEPT !.pc = "system"]
    /\ gatewaySame /\ UNCHANGED tunnel

RefreshSystem ==
    /\ refresh.pc = "system"
    /\ caches' = [caches EXCEPT ![2] = refresh.got[2]]
    /\ refresh' = [refresh EXCEPT !.pc = "idle"]
    /\ gatewaySame /\ UNCHANGED tunnel

----------------------------------------------------------------------------
(* Requests: handle_inference_interception and route_inference_request.    *)

SetTunnel(c, r) == tunnel' = [tunnel EXCEPT ![c] = r]
Serving == refresh.pc \notin {"off"} /\ ~refresh.first

(* A request of an inference API is parsed; one of another kind is denied, *)
(* and the connection closed unless one was routed before.                 *)
InferenceRequest(c) ==
    /\ Serving /\ tunnel[c].pc = "idle"
    /\ \/ SetTunnel(c, [tunnel[c] EXCEPT !.pc = "lock"])
       \/ ~tunnel[c].routed /\ SetTunnel(c, [tunnel[c] EXCEPT !.pc = "closed"])
    /\ gatewaySame /\ UNCHANGED <<refresh, caches>>

(* The read lock, behind a writer that waits. No route: 503.               *)
TakeRoutes(c) ==
    /\ tunnel[c].pc = "lock" /\ refresh.pc # "user"
    /\ SetTunnel(c, [tunnel[c] EXCEPT !.pc = IF caches[1] = <<>> THEN "idle" ELSE "upstream",
                                      !.routed = TRUE])
    /\ gatewaySame /\ UNCHANGED <<refresh, caches>>

(* The router's request, with its timeout; an error is answered at once.   *)
UpstreamResponds(c) ==
    /\ tunnel[c].pc = "upstream"
    /\ \E sent \in send_backend_request :
           SetTunnel(c, [tunnel[c] EXCEPT !.pc = IF sent = "answered" THEN "stream" ELSE "idle"])
    /\ gatewaySame /\ UNCHANGED <<refresh, caches>>

(* The body is written to the client, still under the lock.                *)
StreamEnds(c) ==
    /\ tunnel[c].pc = "stream" /\ ~tunnel[c].stalled
    /\ SetTunnel(c, [tunnel[c] EXCEPT !.pc = "idle"])
    /\ gatewaySame /\ UNCHANGED <<refresh, caches>>

(* The client stops reading: no timeout covers it.                         *)
ClientStalls(c) ==
    /\ tunnel[c].pc = "stream" /\ ~tunnel[c].stalled
    /\ SetTunnel(c, [tunnel[c] EXCEPT !.stalled = TRUE])
    /\ gatewaySame /\ UNCHANGED <<refresh, caches>>

AdminStep(a) ==
    AdminRead(a) \/ CreateProviderPut(a) \/ UpdateProviderPut(a) \/ SetRouteRead(a) \/ SetRoutePut(a)

RefreshStep ==
    RefreshTick \/ ResolveRoute \/ ResolveProvider \/ RefreshCompare \/ RefreshUser \/ RefreshSystem

RequestStep(c) == TakeRoutes(c) \/ UpstreamResponds(c) \/ StreamEnds(c)

InferenceNext ==
    \/ \E a \in Admins : AdminStep(a)
    \/ DeleteProvider
    \/ RefreshStep
    \/ RefreshError
    \/ \E c \in InferenceConns : InferenceRequest(c) \/ ClientStalls(c) \/ RequestStep(c)

(* The gateway's handlers and the refresh task run on, the interval ticks, *)
(* not every fetch fails, and a request ends by the router's timeout       *)
(* unless its client stalls.                                               *)
InferenceFairness ==
    /\ \A a \in Admins : WF_inferenceVars(CreateProviderPut(a) \/ UpdateProviderPut(a)
                                          \/ SetRouteRead(a) \/ SetRoutePut(a))
    /\ SF_inferenceVars(RefreshTick)
    /\ WF_inferenceVars(ResolveRoute \/ ResolveProvider \/ RefreshCompare \/ RefreshSystem)
    /\ SF_inferenceVars(RefreshUser)
    /\ \A c \in InferenceConns : SF_inferenceVars(TakeRoutes(c))
                                 /\ WF_inferenceVars(UpstreamResponds(c))
                                 /\ WF_inferenceVars(StreamEnds(c))

----------------------------------------------------------------------------
Resolvable == \A r \in 1..2 : route[r] # NoRoute => Usable(provider[route[r].provider])

Current(r) ==
    IF route[r] = NoRoute THEN <<>> ELSE ResolvedRoute(route[r], provider[route[r].provider])

(* Once the operator's requests are over, the sandbox ends up with the     *)
(* routes, models and keys that the gateway has, unless its first fetch    *)
(* failed, a route names a provider without a usable key, or a client that *)
(* does not read its answer holds the lock of the cache.                   *)
RoutesConverge ==
    <>[](\/ refresh.pc = "off"
         \/ ~Resolvable
         \/ \E c \in InferenceConns : tunnel[c].stalled
         \/ caches = [r \in 1..2 |-> Current(r)])

============================================================================
