----------------------------- MODULE OpaEngine -----------------------------
(***************************************************************************)
(* What the policy engine of the sandbox answers: the Rego rules of        *)
(* sandbox-policy.rego over a policy, the pipeline that turns a policy     *)
(* message into engine data (validate, then expand presets), and the L7    *)
(* configuration read back from a matched endpoint.                        *)
(*                                                                         *)
(* A destination is a host and a port. The host pattern and the ports of   *)
(* an endpoint are the set of destinations they match: comparison without  *)
(* case and glob matching are the library's. A path pattern is the set of  *)
(* request paths it matches, a binary pattern the set of binaries. The     *)
(* network policies are a sequence, in the order of their names, which is  *)
(* the order in which Rego walks an object.                                *)
(***************************************************************************)
EXTENDS Naturals, Sequences, FiniteSets, SequencesExt

CONSTANTS
    Dests,        \* destinations, host and port
    Bins,         \* binary paths
    Methods,      \* HTTP methods
    Paths,        \* request paths
    Addrs,        \* IP addresses
    Loopback,     \* loopback and link-local addresses
    Private       \* RFC 1918 and unique local addresses

ASSUME OpaAssumption ==
    /\ Loopback \subseteq Addrs /\ Private \subseteq Addrs
    /\ Loopback \cap Private = {}

Rule == [methods : SUBSET Methods, paths : SUBSET Paths]

(* An endpoint. hostless: its host is empty; badHost: its host is a        *)
(* wildcard the validation refuses; badIp: one entry of allowed_ips does   *)
(* not parse. The fields protocol, tls, enforcement and access are those   *)
(* of the policy, empty when not set.                                      *)
Endpoint ==
    [dests : SUBSET Dests, hostless : BOOLEAN, badHost : BOOLEAN,
     protocol : {"", "rest", "sql", "other"}, tls : {"", "terminate"},
     enforcement : {"", "enforce"}, access : {"", "read-only", "read-write", "full", "other"},
     rules : SUBSET Rule, allowed_ips : SUBSET Addrs, badIp : BOOLEAN]

(* A plain endpoint for the destinations D, as the defaults of the message *)
(* make it.                                                                *)
PlainEndpoint(D) ==
    [dests |-> D, hostless |-> FALSE, badHost |-> FALSE, protocol |-> "", tls |-> "",
     enforcement |-> "", access |-> "", rules |-> {}, allowed_ips |-> {}, badIp |-> FALSE]

HasAllowedIps(ep) == ep.allowed_ips # {} \/ ep.badIp

----------------------------------------------------------------------------
(* The Rego rules. A request is [dest, path, ancestors]: ancestors is a    *)
(* sequence of binaries; the command-line paths decide nothing.            *)

endpoint_matches_request(ep, dest) ==
    /\ dest \in ep.dests
    /\ ep.hostless => HasAllowedIps(ep)

endpoint_allowed(policy, dest) ==
    \E i \in 1..Len(policy.endpoints) : endpoint_matches_request(policy.endpoints[i], dest)

binary_allowed(policy, exec) ==
    policy.binaries \cap ({exec.path} \cup ToSet(exec.ancestors)) # {}

Matches(policy, input) ==
    endpoint_allowed(policy, input.dest) /\ binary_allowed(policy, input)

matching_policies(data, input) == {i \in 1..Len(data) : Matches(data[i], input)}

network_policy_for_request(data, input) == matching_policies(data, input) # {}

endpoint_has_extended_config(ep) == ep.protocol # "" \/ HasAllowedIps(ep)

(* All extended endpoint configurations that match, in Rego's order.       *)
matching_endpoint_configs(data, input) ==
    FlattenSeq([i \in 1..Len(data) |->
        IF Matches(data[i], input)
        THEN SelectSeq(data[i].endpoints,
                       LAMBDA ep : /\ endpoint_matches_request(ep, input.dest)
                                   /\ endpoint_has_extended_config(ep))
        ELSE <<>>])

(* The first of them, or an endpoint with nothing set when there is none.  *)
query_endpoint_config(data, input) ==
    LET eps == matching_endpoint_configs(data, input)
    IN  IF eps = <<>> THEN PlainEndpoint({}) ELSE eps[1]

request_allowed_for_endpoint(req, ep) ==
    \E r \in ep.rules : req.method \in r.methods /\ req.path \in r.paths

allow_request(data, input, req) ==
    \E i \in matching_policies(data, input) :
        \E k \in 1..Len(data[i].endpoints) :
            LET ep == data[i].endpoints[k]
            IN  /\ endpoint_matches_request(ep, input.dest)
                /\ request_allowed_for_endpoint(req, ep)

----------------------------------------------------------------------------
(* Loading a policy: OpaEngine::from_proto.                                *)

(* The errors that stop a load. A list of rules from a message is never    *)
(* present and empty, and port and ports are never both set: the           *)
(* conversion to JSON normalises them.                                     *)
EndpointError(ep) ==
    \/ ep.badHost
    \/ ep.rules # {} /\ ep.access # ""
    \/ ep.protocol # "" /\ ep.rules = {} /\ ep.access = ""
    \/ ep.tls = "terminate" /\ ep.protocol = ""
    \/ ep.protocol = "sql" /\ ep.enforcement = "enforce"

validate_l7_policies(policies) ==
    \A i \in 1..Len(policies) : \A k \in 1..Len(policies[i].endpoints) :
        ~EndpointError(policies[i].endpoints[k])

AccessRules(access) ==
    CASE access = "read-only" ->
             {[methods |-> Methods \cap {"GET", "HEAD", "OPTIONS"}, paths |-> Paths]}
      [] access = "read-write" ->
             {[methods |-> Methods \cap {"GET", "HEAD", "OPTIONS", "POST", "PUT", "PATCH"},
               paths |-> Paths]}
      [] access = "full" -> {[methods |-> Methods, paths |-> Paths]}
      [] OTHER -> {}

ExpandEndpoint(ep) ==
    IF ep.access # "" /\ ep.rules = {} THEN [ep EXCEPT !.rules = AccessRules(ep.access)] ELSE ep

expand_access_presets(policies) ==
    [i \in 1..Len(policies) |->
        [endpoints |-> [k \in 1..Len(policies[i].endpoints) |->
                            ExpandEndpoint(policies[i].endpoints[k])],
         binaries |-> policies[i].binaries]]

----------------------------------------------------------------------------
(* What the proxy reads from an answer.                                    *)

NoL7 == [protocol |-> "", tls |-> "", enforcement |-> ""]

(* The L7 configuration of a matched endpoint; an unknown protocol counts  *)
(* as none. The default enforcement is to audit.                           *)
parse_l7_config(ep) ==
    IF ep.protocol \in {"rest", "sql"}
    THEN [protocol |-> ep.protocol, tls |-> ep.tls, enforcement |-> ep.enforcement]
    ELSE NoL7

is_internal_ip(a) == a \in Loopback \cup Private
is_always_blocked_ip(a) == a \in Loopback

(* resolve_and_reject_internal and resolve_and_check_allowed_ips on the    *)
(* addresses a name resolves to; an empty answer is refused as a failed    *)
(* lookup is.                                                              *)
AddrsAccepted(cfg, resolved) ==
    /\ resolved # {}
    /\ IF HasAllowedIps(cfg)
       THEN /\ ~cfg.badIp
            /\ \A a \in resolved : ~is_always_blocked_ip(a) /\ a \in cfg.allowed_ips
       ELSE \A a \in resolved : ~is_internal_ip(a)

============================================================================
