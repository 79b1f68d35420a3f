--------------------------- MODULE MCClusterLifecycle ---------------------------
(***************************************************************************)
(* Instances of ClusterLifecycle: kind with and without a name, recycled   *)
(* and retained, kubeadm, an external cluster with a controller that only  *)
(* the command line knows, and a file that is missing.                     *)
(***************************************************************************)
EXTENDS ClusterLifecycle

Plain ==
  [cluster |-> "kind", name |-> "kne", recycle |-> FALSE, retain |-> TRUE,
   version |-> "", manifests |-> FALSE, login |-> TRUE, images |-> FALSE,
   ingress |-> "metallb", cni |-> "meshnet", controllers |-> {}, readable |-> TRUE]

MCDeployments ==
  {Plain,
   [Plain EXCEPT !.name = "", !.retain = FALSE, !.login = FALSE, !.manifests = TRUE,
                 !.version = "untagged"],
   [Plain EXCEPT !.name = "k1", !.recycle = TRUE, !.version = "v2", !.images = TRUE, !.login = FALSE,
                 !.controllers = {"lemming"}],
   [Plain EXCEPT !.cluster = "kubeadm", !.name = "", !.manifests = TRUE],
   [Plain EXCEPT !.cluster = "external", !.name = "", !.login = FALSE, !.controllers = {"cdnos"}],
   [Plain EXCEPT !.readable = FALSE]}

MCMaxJobs == [server |-> 2, cli |-> 1]
==================================================================================
