------------------------------ MODULE PodSpec ------------------------------
(***************************************************************************)
(* How a create request becomes a Kubernetes object and how the object's   *)
(* status comes back: the checks on the request, the GPU check against the *)
(* cluster, the pod template with its environment, volumes and supervisor, *)
(* and the conditions as the user sees them.                               *)
(*                                                                         *)
(* The environment is a list, as in the code: entries are replaced in      *)
(* place or added at the end, in the map's own order, which is any.  Each  *)
(* variable the gateway sets under one condition stands for those it sets  *)
(* under the same one.  Scheduling is the cluster's and external.          *)
(***************************************************************************)
EXTENDS Naturals, SequencesExt

CONSTANTS PodIds,       \* sandboxes
          PodRequests,  \* create requests
          Gateways,     \* gateway configurations: tls, listen, image, host
          GpuCount      \* GPUs the cluster can allocate

ASSUME PodAssumption ==
    /\ PodRequests \subseteq
           [fits : BOOLEAN, gpu : BOOLEAN, spec_env : SUBSET STRING, template : BOOLEAN,
            template_env : SUBSET STRING, image : BOOLEAN, runtime : BOOLEAN,
            resources : {"none", "plain", "limits", "odd_limits"}]
    /\ Gateways \subseteq [tls : BOOLEAN, listen : BOOLEAN, image : BOOLEAN, host : BOOLEAN]
    /\ GpuCount \in Nat
    /\ \A r \in PodRequests : r.template \/ (r.template_env = {} /\ ~r.image /\ ~r.runtime
                                             /\ r.resources = "none")

VARIABLES gateway,   \* its configuration
          runtimeClass, \* whether the cluster has the GPU runtime class
          pods,      \* per sandbox: its object, or a phase without one
          asked      \* per sandbox: the request

podVars == <<gateway, runtimeClass, pods, asked>>

NoPod == [phase |-> "none"]
PodInit ==
    /\ gateway \in Gateways /\ runtimeClass \in BOOLEAN
    /\ pods = [i \in PodIds |-> NoPod] /\ asked = [i \in PodIds |-> "nothing"]

(* --- the environment ----------------------------------------------------*)

upsert_env(env, entry) ==
    LET at == SelectInSeq(env, LAMBDA e : e.name = entry.name)
    IN IF at = 0 THEN Append(env, entry) ELSE [env EXCEPT ![at] = entry]

apply_env(env, entries) == FoldLeft(upsert_env, env, entries)
From(names, source) == [i \in DOMAIN names |-> [name |-> names[i], value |-> source]]

(* SANDBOX_ID is always set, LISTEN_ADDR when the gateway has an address,  *)
(* TLS_CA when it mounts a client certificate.                             *)
RequiredEnv(g) ==
    From(<<"SANDBOX_ID">> \o (IF g.listen THEN <<"LISTEN_ADDR">> ELSE <<>>)
                          \o (IF g.tls THEN <<"TLS_CA">> ELSE <<>>), "gateway")

(* Mutant: the user's variables are applied over the gateway's.            *)
build_env_list_required_first(template_order, spec_order, g) ==
    apply_env(apply_env(RequiredEnv(g), From(template_order, "template")), From(spec_order, "spec"))
build_env_list(template_order, spec_order, g) ==
    apply_env(apply_env(apply_env(<<>>, From(template_order, "template")),
                        From(spec_order, "spec")), RequiredEnv(g))

(* --- the pod template ---------------------------------------------------*)

(* limits that are no object are replaced before the GPU is added.         *)
container_resources(r) ==
    LET limits == CASE r.resources = "limits" -> {"cpu"}
                    [] r.resources = "odd_limits" /\ ~r.gpu -> {"odd"}
                    [] OTHER -> {}
    IN limits \cup (IF r.gpu THEN {"gpu"} ELSE {})

(* The volume and the mount are added to those already there, the command  *)
(* replaced, and the user set beside the capabilities.                     *)
apply_supervisor_sideload(pod) ==
    [pod EXCEPT !.volumes = Append(@, "supervisor"), !.mounts = Append(@, "supervisor"),
                !.command = "supervisor", !.runAsUser = 0]

sandbox_template_to_k8s(r, env, g) ==
    apply_supervisor_sideload(
        [runtimeClassName |-> IF r.gpu THEN "gpu" ELSE IF r.runtime THEN "asked" ELSE "default",
         image |-> IF r.image THEN "asked" ELSE IF g.image THEN "default" ELSE "none",
         env |-> env, resources |-> container_resources(r),
         capabilities |-> {"SYS_ADMIN", "NET_ADMIN", "SYS_PTRACE", "SYSLOG"},
         volumes |-> IF g.tls THEN <<"client-tls">> ELSE <<>>,
         mounts |-> IF g.tls THEN <<"client-tls">> ELSE <<>>,
         hostAliases |-> g.host, command |-> "image", runAsUser |-> 1])

(* --- operations ---------------------------------------------------------*)

(* A request over a size limit is refused first, then one that needs a GPU *)
(* the cluster says it does not have.  What is allocatable says nothing of *)
(* what is in use.                                                         *)
validate_sandbox_spec(r) == r.fits
validate_gpu_support == runtimeClass /\ GpuCount > 0

CreateObject(i, r) ==
    /\ pods[i].phase = "none"
    /\ asked' = [asked EXCEPT ![i] = r]
    /\ IF ~validate_sandbox_spec(r) \/ (r.gpu /\ ~validate_gpu_support)
       THEN pods' = [pods EXCEPT ![i] = [phase |-> "refused"]]
       ELSE \E template_order \in SetToSeqs(r.template_env), spec_order \in SetToSeqs(r.spec_env) :
                pods' = [pods EXCEPT ![i] =
                    [phase |-> "created", label |-> i, condition |-> "none", message |-> "none",
                     template |-> sandbox_template_to_k8s(r,
                         build_env_list(template_order, spec_order, gateway), gateway)]]
    /\ UNCHANGED <<gateway, runtimeClass>>

Placed == {i \in PodIds : pods[i].phase = "created" /\ pods[i].condition = "ready"
                          /\ "gpu" \in pods[i].template.resources}

(* The cluster places a pod, or says that it cannot be scheduled; a GPU is *)
(* taken for as long as the pod stays.                                     *)
ClusterPlaces(i) ==
    /\ pods[i].phase = "created" /\ pods[i].condition # "ready"
    /\ \E verdict \in {"ready", "unschedulable", "pulling"} :
           /\ verdict = "ready" /\ "gpu" \in pods[i].template.resources
                  => Cardinality(Placed) < GpuCount
           /\ pods' = [pods EXCEPT ![i].condition = verdict, ![i].message = "cluster"]
    /\ UNCHANGED <<gateway, runtimeClass, asked>>

(* The watcher reads the status of the object and finds its sandbox by the *)
(* label; only the message of an unschedulable GPU sandbox is rewritten.   *)
rewrite_user_facing_conditions(i) ==
    IF asked[i].gpu /\ pods[i].condition = "unschedulable" THEN "gpu help" ELSE "cluster"

ApplyStatus(i) ==
    /\ pods[i].phase = "created" /\ pods[i].message = "cluster"
    /\ pods' = [pods EXCEPT ![pods[i].label].message = rewrite_user_facing_conditions(i)]
    /\ UNCHANGED <<gateway, runtimeClass, asked>>

PodGone(i) ==
    /\ pods[i].phase = "created"
    /\ pods' = [pods EXCEPT ![i] = [phase |-> "gone"]]
    /\ UNCHANGED <<gateway, runtimeClass, asked>>

(* The GPU operator comes or goes.                                         *)
ClusterChanges ==
    /\ runtimeClass' = ~runtimeClass
    /\ UNCHANGED <<gateway, pods, asked>>

PodNext ==
    \/ ClusterChanges
    \/ \E i \in PodIds : ClusterPlaces(i) \/ ApplyStatus(i) \/ PodGone(i)
                         \/ \E r \in PodRequests : CreateObject(i, r)

----------------------------------------------------------------------------
Created == {i \in PodIds : pods[i].phase = "created"}
Value(env, name) == {env[j].value : j \in {k \in DOMAIN env : env[k].name = name}}

(* In every pod each variable is there once.  The gateway's value stands   *)
(* wherever the gateway sets one, whatever the request says and in         *)
(* whatever order its maps are read; elsewhere the spec's value wins over  *)
(* the template's, the names the gateway leaves unset included.  The TLS   *)
(* paths are in the environment exactly when the volume and the mount are  *)
(* in the pod, beside the supervisor's and not instead of it; the          *)
(* supervisor runs as root with its capabilities.  A GPU limit is there    *)
(* exactly if it was asked for and comes with the runtime class.  The help *)
(* about GPUs is shown for no other sandbox.                               *)
PodsFaithful ==
    \A i \in Created :
        LET pod == pods[i].template
            r == asked[i]
            required == {e.name : e \in Range(RequiredEnv(gateway))} IN
        /\ \A j, k \in DOMAIN pod.env : pod.env[j].name = pod.env[k].name => j = k
        /\ {e.name : e \in Range(pod.env)} = required \cup r.spec_env \cup r.template_env
        /\ \A name \in required : Value(pod.env, name) = {"gateway"}
        /\ \A name \in r.spec_env \ required : Value(pod.env, name) = {"spec"}
        /\ \A name \in r.template_env \ (required \cup r.spec_env) :
               Value(pod.env, name) = {"template"}
        /\ Value(pod.env, "TLS_CA") = {"gateway"}
               <=> {"client-tls", "supervisor"} = Range(pod.volumes)
        /\ Range(pod.volumes) = Range(pod.mounts)
        /\ pod.runAsUser = 0 /\ pod.capabilities # {}
        /\ r.gpu <=> "gpu" \in pod.resources
        /\ r.gpu => pod.runtimeClassName = "gpu"
        /\ pods[i].message = "gpu help" => r.gpu /\ pods[i].condition = "unschedulable"
============================================================================
