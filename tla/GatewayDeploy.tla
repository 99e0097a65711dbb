--------------------------- MODULE GatewayDeploy ---------------------------
(***************************************************************************)
(* Deploying a gateway: a Docker network, volume and container with a k3s  *)
(* cluster in it, TLS secrets in the cluster, the client certificates and  *)
(* the metadata on disk. Docker, the cluster and the server workload are   *)
(* external; any call can fail, and a deployer can be killed anywhere.     *)
(* A PKI bundle is its number; 0 is none. Images, certificates' contents   *)
(* and messages are left out.                                              *)
(***************************************************************************)
EXTENDS Naturals, FiniteSets

CONSTANTS Deployers,  \* runs of gateway start, or of the automatic bootstrap
          PortsHeld   \* can another container hold the host port?

Secrets == 1..3   \* server-tls, server-client-ca, client-tls, in the order they are applied

VARIABLES
    docker,   \* container, volume and network of the gateway
    cluster,  \* the secrets in the volume, and those the workload started with
    disk,     \* of the CLI: the number of its bundle, and is there metadata?
    dep,      \* per deployer
    made,     \* bundles generated so far
    latest,   \* history: the deployer that last went on to deploy
    flaws     \* history: deployers that overlapped, a removal that failed

deployVars == <<docker, cluster, disk, dep, made, latest, flaws>>

NoSecrets == [s \in Secrets |-> 0]
DeployInit ==
    /\ docker = [container |-> "none", volume |-> FALSE, network |-> FALSE]
    /\ cluster = [secrets |-> NoSecrets, loaded |-> NoSecrets]
    /\ disk = [bundle |-> 0, metadata |-> FALSE]
    /\ dep = [d \in Deployers |-> [pc |-> "new", bundle |-> 0, existed |-> FALSE, next |-> 1,
                                   guarded |-> FALSE]]
    /\ made = 0 /\ latest = {} /\ flaws = {}

Ended == {"new", "done", "reused", "failed", "killed"}
(* What a deployer knew goes with it.                                      *)
Go(d, pc) ==
    dep' = [dep EXCEPT ![d] = IF pc \in Ended
                              THEN [@ EXCEPT !.pc = pc, !.bundle = 0, !.existed = FALSE, !.next = 1]
                              ELSE [@ EXCEPT !.pc = pc]]
GatewayExists == docker.container # "none" \/ docker.volume

(* Mutant: no error is cleaned up after.                                   *)
OnErrorReturns(pc) == "failed"

(* Up to the port check an error is returned as it is; from the container  *)
(* on, everything is removed first.                                        *)
OnError(pc) == IF pc \in {"destroy", "image", "network", "volume", "ports"}
               THEN "failed" ELSE "cleanup"

----------------------------------------------------------------------------
(* gateway_admin_deploy and run_bootstrap: a gateway that exists is kept,  *)
(* or destroyed if that was asked for.                                     *)
DeployStart(d) ==
    /\ dep[d].pc = "new"
    /\ flaws' = IF \E e \in Deployers : dep[e].pc \notin Ended
                THEN flaws \union {"overlap"} ELSE flaws
    /\ \/ GatewayExists /\ Go(d, "reused") /\ UNCHANGED latest
       \/ Go(d, IF GatewayExists THEN "destroy" ELSE "image") /\ latest' = {d}
    /\ UNCHANGED <<docker, cluster, disk, made>>

(* destroy_gateway_resources, before a deploy and after a failed one: the  *)
(* container, the volume, the network. A removal that fails ends it.       *)
DestroyNext(d) ==
    /\ dep[d].pc \in {"destroy", "cleanup"}
    /\ IF docker.container # "none"
       THEN docker' = [docker EXCEPT !.container = "none"] /\ UNCHANGED dep
            /\ cluster' = [cluster EXCEPT !.loaded = NoSecrets]
       ELSE IF docker.volume
       THEN docker' = [docker EXCEPT !.volume = FALSE] /\ UNCHANGED dep
            /\ cluster' = [cluster EXCEPT !.secrets = NoSecrets]
       ELSE docker' = [docker EXCEPT !.network = FALSE] /\ UNCHANGED cluster
            /\ Go(d, IF dep[d].pc = "destroy" THEN "image" ELSE "failed")
    /\ UNCHANGED <<disk, made, latest, flaws>>

DestroyFails(d) ==
    /\ dep[d].pc \in {"destroy", "cleanup"}
    /\ Go(d, "failed") /\ flaws' = flaws \union {"removal"}
    /\ UNCHANGED <<docker, cluster, disk, made, latest>>

(* ensure_image, ensure_network (which replaces one that exists) and       *)
(* ensure_volume; check_port_conflicts comes after them.                   *)
EnsureImage(d) ==
    /\ dep[d].pc = "image" /\ Go(d, "network")
    /\ UNCHANGED <<docker, cluster, disk, made, latest, flaws>>

EnsureNetwork(d) ==
    /\ dep[d].pc = "network" /\ Go(d, "volume") /\ docker' = [docker EXCEPT !.network = TRUE]
    /\ UNCHANGED <<cluster, disk, made, latest, flaws>>

EnsureVolume(d) ==
    /\ dep[d].pc = "volume" /\ Go(d, "ports") /\ docker' = [docker EXCEPT !.volume = TRUE]
    /\ UNCHANGED <<cluster, disk, made, latest, flaws>>

CheckPorts(d) ==
    /\ dep[d].pc = "ports"
    /\ \/ dep' = [dep EXCEPT ![d].pc = "container", ![d].guarded = TRUE]
       \/ PortsHeld /\ Go(d, "failed")
    /\ UNCHANGED <<docker, cluster, disk, made, latest, flaws>>

(* ensure_container keeps a container with the same image; one that needs  *)
(* the volume or network that is gone is not created.                      *)
EnsureContainer(d) ==
    /\ dep[d].pc = "container" /\ docker.volume /\ docker.network /\ Go(d, "start")
    /\ docker' = [docker EXCEPT !.container = IF @ = "none" THEN "created" ELSE @]
    /\ UNCHANGED <<cluster, disk, made, latest, flaws>>

(* The chart of the workload may or may not have been applied when it is   *)
(* looked for; it has been if the workload runs.                           *)
StartContainer(d) ==
    /\ dep[d].pc = "start" /\ docker.container # "none" /\ docker' = [docker EXCEPT !.container = "running"]
    /\ \E existed \in {TRUE, cluster.loaded # NoSecrets} :
           dep' = [dep EXCEPT ![d].pc = "pki", ![d].existed = existed]
    /\ UNCHANGED <<cluster, disk, made, latest, flaws>>

(* reconcile_pki: the six keys of the three secrets are read; if all are   *)
(* there they are used, else a new bundle is made. That they belong to one *)
(* bundle is not checked.                                                  *)
Complete(secrets) == \A s \in Secrets : secrets[s] # 0
ReconcilePki(d) ==
    /\ dep[d].pc = "pki" /\ docker.container = "running"
    /\ IF Complete(cluster.secrets)
       THEN /\ dep' = [dep EXCEPT ![d].pc = "store", ![d].bundle = cluster.secrets[3]]
            /\ UNCHANGED made
       ELSE /\ made' = made + 1
            /\ dep' = [dep EXCEPT ![d].pc = "apply", ![d].bundle = made + 1]
    /\ UNCHANGED <<docker, cluster, disk, latest, flaws>>

(* create_k8s_tls_secrets, one after the other; a workload that was there  *)
(* before is then restarted.                                               *)
ApplySecret(d) ==
    /\ dep[d].pc = "apply" /\ docker.container = "running"
    /\ cluster' = [cluster EXCEPT !.secrets[dep[d].next] = dep[d].bundle]
    /\ dep' = [dep EXCEPT ![d].next = @ + 1,
                   ![d].pc = IF dep[d].next < 3 THEN "apply"
                             ELSE IF dep[d].existed THEN "restart" ELSE "store"]
    /\ UNCHANGED <<docker, disk, made, latest, flaws>>

RestartWorkload(d) ==
    /\ dep[d].pc = "restart" /\ docker.container = "running" /\ Go(d, "store")
    /\ cluster' = [cluster EXCEPT !.loaded = cluster.secrets]
    /\ UNCHANGED <<docker, disk, made, latest, flaws>>

(* store_pki_bundle replaces the directory as a whole.                     *)
StoreBundle(d) ==
    /\ dep[d].pc = "store" /\ Go(d, "ready") /\ disk' = [disk EXCEPT !.bundle = dep[d].bundle]
    /\ UNCHANGED <<docker, cluster, made, latest, flaws>>

WaitReady(d) ==
    /\ dep[d].pc = "ready" /\ docker.container = "running" /\ cluster.loaded # NoSecrets
    /\ Go(d, "metadata") /\ UNCHANGED <<docker, cluster, disk, made, latest, flaws>>

StoreMetadata(d) ==
    /\ dep[d].pc = "metadata" /\ Go(d, "done") /\ disk' = [disk EXCEPT !.metadata = TRUE]
    /\ UNCHANGED <<docker, cluster, made, latest, flaws>>

(* Any step from the image on can fail instead; any deployer can be        *)
(* killed.                                                                 *)
StepError(d) ==
    /\ dep[d].pc \notin Ended \union {"destroy", "cleanup"}
    /\ Go(d, OnError(dep[d].pc)) /\ UNCHANGED <<docker, cluster, disk, made, latest, flaws>>

DeployKilled(d) ==
    /\ dep[d].pc \notin Ended
    /\ Go(d, "killed") /\ UNCHANGED <<docker, cluster, disk, made, latest, flaws>>

(* The workload starts once its secrets are there.                         *)
WorkloadStarts ==
    /\ docker.container = "running" /\ cluster.loaded = NoSecrets /\ Complete(cluster.secrets)
    /\ cluster' = [cluster EXCEPT !.loaded = cluster.secrets]
    /\ UNCHANGED <<docker, disk, dep, made, latest, flaws>>

DeployNext ==
    \/ \E d \in Deployers :
           \/ DeployStart(d) \/ DestroyNext(d) \/ DestroyFails(d) \/ EnsureImage(d)
           \/ EnsureNetwork(d) \/ EnsureVolume(d) \/ CheckPorts(d) \/ EnsureContainer(d)
           \/ StartContainer(d) \/ ReconcilePki(d) \/ ApplySecret(d) \/ RestartWorkload(d)
           \/ StoreBundle(d) \/ WaitReady(d) \/ StoreMetadata(d) \/ StepError(d)
           \/ DeployKilled(d)
    \/ WorkloadStarts

DeploySpec == DeployInit /\ [][DeployNext]_deployVars

----------------------------------------------------------------------------
Idle == \A d \in Deployers : dep[d].pc \in Ended

(* Unless two deployers ran at once: after a deploy that succeeded the     *)
(* gateway runs, its secrets are those of one bundle, the server started   *)
(* with them and the CLI holds the same, whatever killed and failed        *)
(* deploys left before it; after one that failed once the container was    *)
(* being made, nothing is left unless a removal failed.                    *)
DeployConsistent ==
    Idle /\ "overlap" \notin flaws =>
        \A d \in latest :
            /\ dep[d].pc = "done" =>
                   /\ docker.container = "running" /\ docker.volume /\ docker.network
                   /\ cluster.loaded = [s \in Secrets |-> disk.bundle]
                   /\ cluster.secrets = cluster.loaded /\ disk.metadata
            /\ dep[d].pc = "failed" /\ dep[d].guarded /\ "removal" \notin flaws =>
                   ~GatewayExists /\ ~docker.network

============================================================================
