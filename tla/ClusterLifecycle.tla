---------------------------- MODULE ClusterLifecycle ----------------------------
(***************************************************************************)
(* The deployment and the removal of whole clusters on one host: what      *)
(* Deployment.Deploy, Delete and Healthy (deploy/deploy.go) do to the      *)
(* clusters of the host and to the kubeconfig file, when they are called   *)
(* by the cluster requests of the controller server and by the commands    *)
(* "kne deploy" and "kne teardown".                                        *)
(*                                                                         *)
(* The state outside the processes decides everything: which clusters run, *)
(* what has been put into each, and the CURRENT CONTEXT of the kubeconfig  *)
(* file, which every kubectl without --context follows and which           *)
(* "kind create", "kind delete" and a kubeadm deployment move.  The server *)
(* serialises its cluster requests with muDeploy; nothing serialises the   *)
(* server with a command line on the same host.                            *)
(*                                                                         *)
(* Deploy is a sequence of commands, each of which succeeds or fails; the  *)
(* work of the components inside deployComponents is one command here (the *)
(* module Deployment has its concurrency) but for MetalLB's pool and its   *)
(* L2 advertisement, whose order matters to the next deployment.           *)
(***************************************************************************)
EXTENDS Naturals, Sequences, FiniteSets, SequencesExt

CONSTANTS
  Deployments, \* the deployment configurations users ask for
  MaxJobs,     \* how many requests or commands each actor makes
  MaxFaults    \* how many commands fail for reasons outside this model

(* A deployment configuration.  "version" is the Kubernetes version that   *)
(* the kind image or kubernetesVersion names ("" if it is left to the      *)
(* default, "untagged" if the image names none), "manifests" whether kind  *)
(* has additional manifests or kubeadm a taint to remove or an add-on,     *)
(* "login" whether registries or a credential provider are configured,     *)
(* "readable" whether every file the configuration names exists.           *)
Configuration ==
  [cluster : {"kind", "kubeadm", "external", "none"}, name : STRING,
   recycle : BOOLEAN, retain : BOOLEAN, version : STRING,
   manifests : BOOLEAN, login : BOOLEAN, images : BOOLEAN,
   ingress : {"metallb", "none"}, cni : {"meshnet", "none"},
   controllers : SUBSET {"ceoslab", "srlinux", "ixiatg", "lemming", "cdnos"},
   readable : BOOLEAN]

ASSUME ClusterAssumption ==
  /\ Deployments \subseteq Configuration
  /\ MaxJobs \in [{"server", "cli"} -> Nat]
  /\ MaxFaults \in Nat

(* The processes on the host: the controller server, of which one cluster  *)
(* request at a time holds muDeploy, and a user at a command line.         *)
Actors == {"server", "cli"}

(* The version of the image that kind and kubeadm use when none is named.  *)
DefaultVersion == "v1"

(* A kind cluster without a name is called "kind" by kind itself.          *)
Own(d) ==
  CASE d.cluster = "kind" -> IF d.name = "" THEN "kind" ELSE d.name
    [] d.cluster = "kubeadm" -> "kubeadm"
    [] OTHER -> "external"

(* The name the deployment has for the server and for its health check.    *)
GetName(d) == IF d.cluster = "kind" /\ d.name # "" THEN d.name ELSE "kne"

Clusters == {"kubeadm", "external", "kne"} \cup {Own(d) : d \in Deployments}
KindClusters == Clusters \ {"kubeadm", "external"}

(* The components that deployComponents starts.                            *)
Components(d) == {d.ingress, d.cni} \cup d.controllers

(***************************************************************************)
(* newDeployment of the server: the request must name a cluster, an        *)
(* ingress and a CNI, controllers that the server knows (there is no       *)
(* request for a Cdnos controller), and files whose paths are valid.       *)
(* Nothing has been touched before it returns.                             *)
(***************************************************************************)
Readable(d) == d.readable

Complete(d) == d.cluster # "none" /\ d.ingress # "none" /\ d.cni # "none"

ControllersKnown(d) == d.controllers \subseteq {"ceoslab", "srlinux", "ixiatg", "lemming"}

Accepted(d) == Complete(d) /\ ControllersKnown(d) /\ Readable(d)

(***************************************************************************)
(* newDeployment of the command line.  A file is a sequence of sections    *)
(* that each name a kind.  The decoder puts what a section describes into  *)
(* the field that its kind is registered for, whatever the section is      *)
(* called; a later one replaces an earlier one, except for controllers.  A *)
(* section without a kind, or of an unknown kind, is an error.             *)
(***************************************************************************)
Tag(kind) ==
  CASE kind \in {"kind", "kubeadm", "external"} -> "cluster"
    [] kind = "metallb" -> "ingress"
    [] kind = "meshnet" -> "cni"
    [] kind \in {"ceoslab", "srlinux", "ixiatg", "lemming", "cdnos"} -> "controllers"
    [] OTHER -> "unsupported"

Files(d) == SetToSeqs({d.cluster, d.ingress, d.cni} \cup d.controllers)

Decode(file, tag) ==
  LET given == SelectSeq(file, LAMBDA kind : Tag(kind) = tag)
  IN IF given = << >> THEN "none" ELSE Last(given)

Decoded(d, file) ==
  [d EXCEPT !.cluster = Decode(file, "cluster"), !.ingress = Decode(file, "ingress"),
            !.cni = Decode(file, "cni"),
            !.controllers = {kind \in Range(file) : Tag(kind) = "controllers"}]

DecodeFails(d, file) ==
  \/ \E kind \in Range(file) : Tag(kind) = "unsupported"
  \/ ~Complete(Decoded(d, file))
  \/ ~Readable(d)

(* What the files that describe d are decoded to, and whether one is an    *)
(* error.                                                                  *)
Loaded == [d \in Deployments |-> {Decoded(d, file) : file \in {f \in Files(d) : ~DecodeFails(d, f)}}]
LoadFails == {d \in Deployments : \E file \in Files(d) : DecodeFails(d, file)}

(***************************************************************************)
(* The commands of Deploy, in order.                                       *)
(***************************************************************************)
KindDeploy(d) ==
  <<"create", "manifests">>
    \o (IF d.login THEN <<"login">> ELSE << >>)
    \o (IF d.images THEN <<"images">> ELSE << >>)

KubeadmDeploy(d) ==
  <<"init", "kubeconfig", "manifests">>
    \o (IF d.login THEN <<"credentials">> ELSE << >>)
    \o <<"network">>

ClusterDeploy(d) ==
  CASE d.cluster = "kind" -> KindDeploy(d)
    [] d.cluster = "kubeadm" -> KubeadmDeploy(d)
    [] OTHER -> << >>

Deploy(d) ==
  ClusterDeploy(d)
    \o <<"healthy", "client", "version", "components", "find", "pool", "advertise">>

VARIABLES
  clusters,    \* what runs on the host, and what was put into it
  contexts,    \* the contexts in the kubeconfig file
  current,     \* its current context, or "none"
  deployments, \* the server's map, name -> [spec, target]
  job,         \* per actor, the call it is executing
  answer,      \* what the step just taken returned, and to whom
  jobs,        \* per actor, how many calls it made
  faults,      \* how many commands have failed for outside reasons
  mark         \* history: what the exceptions in the properties speak of

host == <<clusters, contexts, current>>
vars == <<clusters, contexts, current, deployments, job, answer, jobs, faults, mark>>

Absent ==
  [state |-> "absent", version |-> "", by |-> "nobody", components |-> {},
   images |-> {}, login |-> FALSE, pool |-> FALSE, advertised |-> FALSE]
Fresh(version, a) == [Absent EXCEPT !.state = "up", !.version = version, !.by = a]

Idle == [op |-> "idle"]
NoAnswer == [to |-> "nobody", is |-> "none"]
Answer(a, result) == answer' = [to |-> a, is |-> result]
Up(c) == c # "none" /\ clusters[c].state = "up"

(* The host has no cluster of its own; the kubeconfig file selects an      *)
(* external one.                                                           *)
Init ==
  /\ clusters = [c \in Clusters |-> IF c = "external" THEN Fresh(DefaultVersion, "nobody")
                                    ELSE Absent]
  /\ contexts = {"external"}
  /\ current = "external"
  /\ deployments = << >>
  /\ job = [a \in Actors |-> Idle]
  /\ answer = NoAnswer
  /\ jobs = [a \in Actors |-> 0]
  /\ faults = 0
  /\ mark = [unadvertised |-> {}, abandoned |-> {}, removed |-> {},
             disturbed |-> [a \in Actors |-> FALSE]]

(***************************************************************************)
(* History.  A call is disturbed when, while it runs, the other actor      *)
(* moves the current context or takes a cluster away.                      *)
(***************************************************************************)
DisturbOthers(a) ==
  [b \in Actors |-> mark.disturbed[b] \/ (b # a /\ job[b].op # "idle")]

(***************************************************************************)
(* Calls: how one begins, goes on and returns.                             *)
(***************************************************************************)
Begin(a, call) ==
  /\ job' = [job EXCEPT ![a] = call]
  /\ mark' = [mark EXCEPT !.disturbed[a] = FALSE]
  /\ answer' = NoAnswer

At(a, command) ==
  /\ job[a].op = "deploy"
  /\ job[a].todo # << >>
  /\ Head(job[a].todo) = command

GoOn(a) ==
  /\ job' = [job EXCEPT ![a].todo = Tail(@)]
  /\ answer' = NoAnswer
  /\ UNCHANGED <<deployments, jobs>>

Return(a, result) ==
  /\ job' = [job EXCEPT ![a] = Idle]
  /\ Answer(a, result)
  /\ UNCHANGED jobs

(* Mutation of Abandon: the deployment is recorded although Deploy failed. *)
AbandonRecorded(a) ==
  /\ Return(a, "error")
  /\ deployments' = [n \in DOMAIN deployments \cup {GetName(job[a].spec)} |->
                       [spec |-> job[a].spec, target |-> job[a].target]]

(* An error ends Deploy where it stands.  CreateCluster has not recorded   *)
(* the deployment, and undoes nothing.                                     *)
Abandon(a) ==
  /\ Return(a, "error")
  /\ UNCHANGED deployments

Abandoned(a, m) ==
  IF a = "server" THEN [m EXCEPT !.abandoned = @ \cup {Own(job[a].spec)}] ELSE m

Fault == faults < MaxFaults /\ faults' = faults + 1

Asked(a) == job[a].spec

(* The version of a new cluster: the node image that "kind create" is      *)
(* given, and the configuration file written for "kubeadm init".           *)
KindVersion(d) == IF d.version = "" THEN DefaultVersion ELSE d.version
KubeadmVersion(d) == IF d.version = "" THEN DefaultVersion ELSE d.version
Created(d) == IF d.cluster = "kind" THEN KindVersion(d) ELSE KubeadmVersion(d)

(***************************************************************************)
(* The requests and commands that begin a call.                            *)
(***************************************************************************)
Free(a) ==
  /\ job[a].op = "idle"
  /\ jobs[a] < MaxJobs[a]
  /\ jobs' = [jobs EXCEPT ![a] = @ + 1]

DeployCall(d) == [op |-> "deploy", spec |-> d, todo |-> Deploy(d), fresh |-> FALSE,
                  target |-> "none"]

Refuse(a, result) ==
  /\ Answer(a, result)
  /\ UNCHANGED <<job, mark>>

(* checkDependencies, of the deployment and then of the cluster: a tool    *)
(* that is missing ends Deploy before anything is done.                    *)
Tools(a, d) ==
  \/ Begin(a, DeployCall(d)) /\ UNCHANGED faults
  \/ Refuse(a, "error") /\ Fault

(* CreateCluster: newDeployment, then everything under muDeploy.           *)
CreateCluster(d) ==
  /\ Free("server")
  /\ IF ~Accepted(d) THEN Refuse("server", "invalid") /\ UNCHANGED faults
     ELSE IF GetName(d) \in DOMAIN deployments THEN Refuse("server", "exists") /\ UNCHANGED faults
     ELSE Tools("server", d)
  /\ UNCHANGED <<host, deployments>>

(* "kne deploy": the same Deploy, and no record of it.                     *)
DeployCommand(d) ==
  /\ Free("cli")
  /\ \/ d \in LoadFails /\ Refuse("cli", "invalid") /\ UNCHANGED faults
     \/ \E e \in Loaded[d] : Tools("cli", e)
  /\ UNCHANGED <<host, deployments>>

(***************************************************************************)
(* The commands of Deploy.                                                 *)
(***************************************************************************)

(* A command that leaves nothing behind when it fails.                     *)
CommandFails(a) ==
  /\ \E c \in {"manifests", "login", "images", "kubeconfig", "credentials",
                "network", "healthy", "client", "version", "find", "pool"} : At(a, c)
  /\ Fault
  /\ Abandon(a)
  /\ mark' = Abandoned(a, mark)
  /\ UNCHANGED host

(* A command that cannot succeed, whatever happens around it.              *)
Stuck(a) ==
  /\ Abandon(a)
  /\ mark' = Abandoned(a, mark)
  /\ UNCHANGED <<host, faults>>

(* KindSpec.create.  A cluster that answers under its own context is taken *)
(* as it is, and the current context stays where it was; a new one becomes *)
(* the current context.                                                    *)
Recyclable(d) == d.recycle /\ d.name # "" /\ d.name \in contexts /\ Up(d.name)

Recycle(a) ==
  /\ At(a, "create")
  /\ Recyclable(Asked(a))
  /\ GoOn(a)
  /\ UNCHANGED <<host, faults, mark>>

Appears(a, c, new) ==
  /\ clusters' = [clusters EXCEPT ![c] = new]
  /\ mark' = [mark EXCEPT !.unadvertised = @ \ {c}, !.abandoned = @ \ {c},
                          !.removed = IF a = "server" THEN @ \ {c} ELSE @,
                          !.disturbed = DisturbOthers(a)]

Create(a) ==
  LET d == Asked(a)
      c == Own(d)
  IN /\ At(a, "create")
     /\ ~Recyclable(d)
     /\ clusters[c].state = "absent"
     /\ Appears(a, c, Fresh(Created(d), a))
     /\ contexts' = contexts \cup {c}
     /\ current' = c
     /\ job' = [job EXCEPT ![a].todo = Tail(@), ![a].fresh = TRUE]
     /\ answer' = NoAnswer
     /\ UNCHANGED <<deployments, jobs, faults>>

(* kind removes what it began, unless it is told to retain it; kubeadm     *)
(* leaves it.  Neither creates over what is there.                         *)
CreateFails(a) ==
  LET d == Asked(a)
      c == Own(d)
  IN /\ At(a, "create") \/ At(a, "init")
     /\ ~(At(a, "create") /\ Recyclable(d))
     /\ \/ clusters[c].state # "absent" /\ Stuck(a)
        \/ /\ clusters[c].state = "absent"
           /\ Fault
           /\ Abandon(a)
           /\ clusters' = IF d.cluster = "kubeadm" \/ d.retain
                          THEN [clusters EXCEPT ![c] = [Fresh(Created(d), a) EXCEPT !.state = "broken"]]
                          ELSE clusters
           /\ mark' = Abandoned(a, mark)
           /\ UNCHANGED <<contexts, current>>

(* "kubeadm init" makes the cluster; the kubeconfig file still names what  *)
(* it named.                                                               *)
InitKubeadm(a) ==
  /\ At(a, "init")
  /\ clusters["kubeadm"].state = "absent"
  /\ Appears(a, "kubeadm", Fresh(Created(Asked(a)), a))
  /\ job' = [job EXCEPT ![a].todo = Tail(@), ![a].fresh = TRUE]
  /\ answer' = NoAnswer
  /\ UNCHANGED <<contexts, current, deployments, jobs, faults>>

(* Mutation of Kubeconfig: the file is extended, and not selected.         *)
KubeconfigNotSelected(a) ==
  /\ At(a, "kubeconfig")
  /\ contexts' = contexts \cup {"kubeadm"}
  /\ GoOn(a)
  /\ UNCHANGED <<clusters, current, faults, mark>>

(* The whole kubeconfig file is replaced by the admin configuration.       *)
Kubeconfig(a) ==
  /\ At(a, "kubeconfig")
  /\ contexts' = {"kubeadm"}
  /\ current' = "kubeadm"
  /\ mark' = [mark EXCEPT !.disturbed = DisturbOthers(a)]
  /\ GoOn(a)
  /\ UNCHANGED <<clusters, faults>>

(* set_pid_max and the additional manifests of kind, the taint and the     *)
(* add-on of kubeadm: kubectl on the current context.                      *)
Manifests(a) ==
  /\ At(a, "manifests")
  /\ IF Asked(a).manifests => Up(current)
     THEN GoOn(a) /\ UNCHANGED <<host, faults, mark>>
     ELSE Stuck(a)

(* SetupGARAccess copies the credentials to the nodes of the cluster of    *)
(* the current context, which must be one of kind.                         *)
Login(a) ==
  /\ At(a, "login")
  /\ IF current \in KindClusters /\ Up(current)
     THEN /\ clusters' = [clusters EXCEPT ![current].login = TRUE]
          /\ GoOn(a)
          /\ UNCHANGED <<contexts, current, faults, mark>>
     ELSE Stuck(a)

(* loadContainerImages, by cluster name.  The host's containerd is tried   *)
(* first: the image arrives under its own name and is renamed in the       *)
(* nodes.  Otherwise, or if that fails half way, docker renames it before  *)
(* it is loaded.                                                           *)
FromContainerd == {"source", "wanted"}
ThroughDocker == {{"wanted"}, {"source", "wanted"}}

Images(a) ==
  LET c == Own(Asked(a))
  IN /\ At(a, "images")
     /\ IF Up(c)
        THEN /\ \E names \in {FromContainerd} \cup ThroughDocker :
                   clusters' = [clusters EXCEPT ![c].images = @ \cup names]
             /\ GoOn(a)
             /\ UNCHANGED <<contexts, current, faults, mark>>
        ELSE Stuck(a)

(* EnableCredentialProvider reconfigures this host's kubelet.              *)
Credentials(a) ==
  /\ At(a, "credentials")
  /\ IF Up("kubeadm")
     THEN /\ clusters' = [clusters EXCEPT !["kubeadm"].login = TRUE]
          /\ GoOn(a)
          /\ UNCHANGED <<contexts, current, faults, mark>>
     ELSE Stuck(a)

(* "docker network create" under a new name, which nothing removes.        *)
Network(a) ==
  /\ At(a, "network")
  /\ GoOn(a)
  /\ UNCHANGED <<host, faults, mark>>

(* Cluster.Healthy: kind asks under its own context, the others under the  *)
(* current one.                                                            *)
HealthyCluster(d) ==
  IF d.cluster = "kind" THEN GetName(d) \in contexts /\ Up(GetName(d))
                        ELSE Up(current)

Healthy(a) ==
  /\ At(a, "healthy")
  /\ IF HealthyCluster(Asked(a)) THEN GoOn(a) /\ UNCHANGED <<host, faults, mark>> ELSE Stuck(a)

(* The clients are made for the current context and keep to its cluster.   *)
Client(a) ==
  /\ At(a, "client")
  /\ IF current # "none"
     THEN /\ job' = [job EXCEPT ![a].todo = Tail(@), ![a].target = current]
          /\ answer' = NoAnswer
          /\ UNCHANGED <<host, deployments, jobs, faults, mark>>
     ELSE Stuck(a)

(* validateKubectlVersion needs an answer from the current context (and    *)
(* only warns); validateClusterVersion compares the client's cluster with  *)
(* the version asked for, if the image names one.                          *)
VersionMatches(a) ==
  LET d == Asked(a)
  IN \/ d.cluster = "external"
     \/ d.cluster = "kind" /\ d.version = "untagged"
     \/ clusters[job[a].target].version = Created(d)

Version(a) ==
  /\ At(a, "version")
  /\ IF Up(current) /\ Up(job[a].target) /\ VersionMatches(a)
     THEN GoOn(a) /\ UNCHANGED <<host, faults, mark>>
     ELSE Stuck(a)

(* deployComponents: kubectl applies to the current context, the clients   *)
(* wait for the workloads in their own cluster.                            *)
Apply(what) == [clusters EXCEPT ![current].components = @ \cup what]

DeployComponents(a) ==
  LET wanted == Components(Asked(a))
      target == job[a].target
  IN /\ At(a, "components")
     /\ IF ~Up(current) \/ ~Up(target) THEN Stuck(a)
        ELSE /\ clusters' = Apply(wanted)
             /\ UNCHANGED <<contexts, current, faults>>
             /\ IF wanted \subseteq Apply(wanted)[target].components
                THEN GoOn(a) /\ UNCHANGED mark
                ELSE Abandon(a) /\ mark' = Abandoned(a, mark)

(* One component fails and the others are abandoned, some of them applied. *)
ComponentsFail(a) ==
  /\ At(a, "components")
  /\ Up(current)
  /\ Fault
  /\ \E done \in SUBSET Components(Asked(a)) : clusters' = Apply(done)
  /\ Abandon(a)
  /\ mark' = Abandoned(a, mark)
  /\ UNCHANGED <<contexts, current>>

(* Deploy has returned without an error; the server records it.            *)
Deployed(a) ==
  /\ Return(a, "ok")
  /\ deployments' = IF a = "server"
                    THEN [n \in DOMAIN deployments \cup {GetName(Asked(a))} |->
                            IF n = GetName(Asked(a))
                            THEN [spec |-> Asked(a), target |-> job[a].target]
                            ELSE deployments[n]]
                    ELSE deployments
  /\ UNCHANGED <<contexts, current, faults, mark>>

(* MetalLBSpec.Deploy.  A pool that is found ends it; otherwise one is     *)
(* created, which fails if another deployment was faster, and gets its L2  *)
(* advertisement by a third call.                                          *)
FindPool(a) ==
  /\ At(a, "find")
  /\ Up(job[a].target)
  /\ UNCHANGED clusters
  /\ IF clusters[job[a].target].pool
     THEN Deployed(a)
     ELSE GoOn(a) /\ UNCHANGED <<contexts, current, faults, mark>>

PoolExists(a) ==
  /\ At(a, "pool")
  /\ Up(job[a].target)
  /\ clusters[job[a].target].pool
  /\ Stuck(a)

(* Mutation of CreatePool: the advertisement is forgotten.                 *)
CreatePoolOnly(a) ==
  /\ At(a, "pool")
  /\ Up(job[a].target)
  /\ ~clusters[job[a].target].pool
  /\ clusters' = [clusters EXCEPT ![job[a].target].pool = TRUE]
  /\ Deployed(a)

CreatePool(a) ==
  /\ At(a, "pool")
  /\ Up(job[a].target)
  /\ ~clusters[job[a].target].pool
  /\ clusters' = [clusters EXCEPT ![job[a].target].pool = TRUE]
  /\ GoOn(a)
  /\ UNCHANGED <<contexts, current, faults, mark>>

Advertise(a) ==
  /\ At(a, "advertise")
  /\ Up(job[a].target)
  /\ clusters' = [clusters EXCEPT ![job[a].target].advertised = TRUE]
  /\ Deployed(a)

AdvertiseFails(a) ==
  /\ At(a, "advertise")
  /\ Fault
  /\ Abandon(a)
  /\ mark' = Abandoned(a, [mark EXCEPT !.unadvertised = @ \cup {job[a].target}])
  /\ UNCHANGED host

TargetGone(a) ==
  /\ At(a, "find") \/ At(a, "pool") \/ At(a, "advertise")
  /\ ~Up(job[a].target)
  /\ Stuck(a)

(***************************************************************************)
(* The removal of a cluster.  kind removes the context with the cluster;   *)
(* "kubeadm reset" leaves the kubeconfig file; an external cluster stays.  *)
(* The server forgets a deployment only when its removal succeeded.  The   *)
(* clients of a cluster that is gone reach nothing, not even a new cluster *)
(* of the same name.                                                       *)
(***************************************************************************)
Orphan(r, gone) == IF r.target \in gone THEN [r EXCEPT !.target = "none"] ELSE r

Delete(a, d) ==
  LET c == Own(d)
      gone == IF d.cluster = "external" THEN {} ELSE {c}
  IN /\ clusters' = [x \in Clusters |-> IF x \in gone THEN Absent ELSE clusters[x]]
     /\ contexts' = IF d.cluster = "kind" THEN contexts \ {c} ELSE contexts
     /\ current' = IF d.cluster = "kind" /\ current = c THEN "none" ELSE current
     /\ job' = [b \in Actors |-> IF job[b].op = "deploy" THEN Orphan(job[b], gone) ELSE job[b]]
     /\ deployments' = [n \in DOMAIN deployments \ (IF a = "server" THEN {GetName(d)} ELSE {}) |->
                          Orphan(deployments[n], gone)]
     /\ mark' = [mark EXCEPT !.unadvertised = @ \ gone, !.abandoned = @ \ gone,
                             !.removed = IF a = "cli" THEN @ \cup gone ELSE @,
                             !.disturbed = DisturbOthers(a)]
     /\ Answer(a, "ok")

DeleteCluster(n) ==
  /\ Free("server")
  /\ \/ /\ n \notin DOMAIN deployments
        /\ Answer("server", "notfound")
        /\ UNCHANGED <<host, deployments, job, faults, mark>>
     \/ /\ n \in DOMAIN deployments
        /\ Fault
        /\ Answer("server", "error")
        /\ UNCHANGED <<host, deployments, job, mark>>
     \/ /\ n \in DOMAIN deployments
        /\ Delete("server", deployments[n].spec)
        /\ UNCHANGED faults

TeardownCommand(d) ==
  /\ Free("cli")
  /\ \/ \E e \in Loaded[d] : Delete("cli", e) /\ UNCHANGED faults
     \/ /\ Fault
        /\ Answer("cli", "error")
        /\ UNCHANGED <<host, deployments, job, mark>>

(* ShowCluster: Deployment.Healthy decides between the two states; the     *)
(* token of a kubeadm cluster may not be had.                              *)
HealthyDeployment(r) ==
  /\ HealthyCluster(r.spec)
  /\ Up(r.target)
  /\ Components(r.spec) \subseteq clusters[r.target].components

ShowCluster(n) ==
  /\ Free("server")
  /\ \/ /\ Answer("server", IF n \notin DOMAIN deployments THEN "notfound"
                            ELSE IF HealthyDeployment(deployments[n]) THEN "running"
                            ELSE "unhealthy")
        /\ UNCHANGED faults
     \/ /\ n \in DOMAIN deployments
        /\ deployments[n].spec.cluster = "kubeadm"
        /\ HealthyDeployment(deployments[n])
        /\ Fault
        /\ Answer("server", "error")
  /\ UNCHANGED <<host, deployments, job, mark>>

(* ApplyCluster: "kubectl apply" goes to the current context, whatever     *)
(* cluster is named.                                                       *)
ApplyCluster(n) ==
  /\ Free("server")
  /\ Answer("server", IF n \notin DOMAIN deployments THEN "notfound"
                       ELSE IF Up(current) THEN "ok" ELSE "error")
  /\ UNCHANGED <<host, deployments, job, faults, mark>>

Step(a) ==
  \/ Recycle(a) \/ Create(a) \/ CreateFails(a) \/ InitKubeadm(a)
  \/ Kubeconfig(a) \/ Manifests(a) \/ Login(a) \/ Images(a) \/ Credentials(a)
  \/ Network(a) \/ Healthy(a) \/ Client(a) \/ Version(a)
  \/ DeployComponents(a) \/ ComponentsFail(a)
  \/ FindPool(a) \/ PoolExists(a) \/ CreatePool(a) \/ Advertise(a) \/ AdvertiseFails(a)
  \/ TargetGone(a) \/ CommandFails(a)

Names == {GetName(d) : d \in Deployments}

Next ==
  \/ \E a \in Actors : Step(a)
  \/ \E d \in Deployments : CreateCluster(d) \/ DeployCommand(d) \/ TeardownCommand(d)
  \/ \E n \in Names : DeleteCluster(n) \/ ShowCluster(n) \/ ApplyCluster(n)

Spec == Init /\ [][Next]_vars

(***************************************************************************)
(* Properties.                                                             *)
(***************************************************************************)
Succeeds(a) == job[a].op = "deploy" /\ job'[a] = Idle /\ answer' = [to |-> a, is |-> "ok"]

(* Deploy works partly on the cluster it created, by name, and partly on   *)
(* whatever the current context names (credentials, manifests, clients,    *)
(* components).  When it returns without an error and it created its       *)
(* cluster, everything is in that cluster: the components, the registry    *)
(* credentials and the images, unless another process moved the context    *)
(* or removed a cluster while it ran.  (A recycled cluster is left out:    *)
(* KindSpec.create does not select its context.)                           *)
DeployedWhereAsked ==
  [][\A a \in Actors : Succeeds(a) /\ job[a].fresh /\ ~mark.disturbed[a] =>
        LET d == Asked(a)
            c == Own(d)
        IN /\ job[a].target = c
           /\ clusters'[c].state = "up"
           /\ Components(d) \subseteq clusters'[c].components
           /\ d.login => clusters'[c].login
           /\ d.cluster = "kind" /\ d.images => "wanted" \in clusters'[c].images]_vars

(* A deployment that succeeds leaves load balancer addresses that are      *)
(* announced: the pool has its L2 advertisement, or the deployment that    *)
(* made the pool is about to make it, or an earlier attempt on the same    *)
(* cluster failed between the two (MetalLBSpec.Deploy returns at once when *)
(* it finds a pool, and never repairs it).                                 *)
AnnouncedUnlessFailedBefore ==
  [][\A a \in Actors : Succeeds(a) =>
        LET c == job[a].target
        IN /\ clusters'[c].pool
           /\ \/ clusters'[c].advertised
              \/ c \in mark.unadvertised
              \/ \E b \in Actors \ {a} : At(b, "advertise") /\ job[b].target = c]_vars

(* The server's deployments and the host agree.  What is recorded runs and *)
(* has its components, unless a command line removed it or they went to    *)
(* another cluster; a cluster that the server created and does not record  *)
(* is being deployed, or is what a failed CreateCluster left behind (and   *)
(* which DeleteCluster answers with NotFound).                             *)
RecordMatchesHost ==
  /\ \A n \in DOMAIN deployments :
       LET r == deployments[n]
           c == Own(r.spec)
       IN c \in mark.removed \/
          /\ clusters[c].state = "up"
          /\ r.target = c => Components(r.spec) \subseteq clusters[c].components
  /\ \A c \in Clusters : clusters[c].by = "server" =>
       \/ \E n \in DOMAIN deployments : Own(deployments[n].spec) = c
       \/ job["server"].op = "deploy" /\ Own(Asked("server")) = c
       \/ c \in mark.abandoned

==================================================================================
