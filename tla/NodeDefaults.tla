------------------------------ MODULE NodeDefaults ------------------------------
(***************************************************************************)
(* What the constructors of the vendors' nodes make of a node of the       *)
(* topology file: the defaults they fill in (topo/node/<vendor>).          *)
(*                                                                         *)
(* A node is abstracted to which of its fields the user set, which the     *)
(* vendor filled in, and which of its messages and maps exist (are not     *)
(* nil).  The values themselves are left out.                              *)
(***************************************************************************)
EXTENDS Naturals

(* The fields by the message or map they live in ("node" always exists).   *)
FieldsOf ==
  [node |-> {"model", "os", "hostConstraints"},
   config |-> {"image", "initImage", "command", "entry", "path", "file", "cert"},
   env |-> {"env", "managedEnv"},
   services |-> {"services", "grpc", "gnmi"},
   constraints |-> {"cpu", "memory"},
   labels |-> {"vendor", "modelLabel", "osLabel", "version", "role", "pool", "proxied"}]

Maps == DOMAIN FieldsOf
Fields == UNION {FieldsOf[m] : m \in Maps}

(* A node as the user wrote it: env is a map within config.                *)
UserNode(user, empty) ==
  LET maps == {m \in Maps : FieldsOf[m] \cap user # {}} \cup empty \cup {"node"}
  IN [user |-> user, filled |-> {}, panic |-> FALSE,
      maps |-> maps \cup (IF "env" \in maps THEN {"config"} ELSE {})]

IsSet(pb) == pb.user \cup pb.filled

(***************************************************************************)
(* The four things a defaults function does.                               *)
(***************************************************************************)

(* if pb.M == nil { pb.M = empty }                                         *)
Make(pb, m) == [pb EXCEPT !.maps = @ \cup {m}]

(* if pb.M == nil { pb.M = the default node's }                            *)
MakeFull(pb, m, fields) ==
  IF m \in pb.maps THEN pb
  ELSE [pb EXCEPT !.maps = @ \cup {m}, !.filled = @ \cup fields]

(* Mutation of Fill: the fields are filled in whatever the user set.       *)
FillBlind(pb, fields) ==
  [pb EXCEPT !.user = @ \ fields, !.filled = @ \cup fields,
             !.panic = @ \/ \E m \in Maps \ pb.maps : FieldsOf[m] \cap fields # {}]

(* if pb.M.F == "" { pb.M.F = ... }, for each F; into a nil map it panics. *)
Fill(pb, fields) ==
  LET new == fields \ IsSet(pb)
  IN [pb EXCEPT !.filled = @ \cup new,
                !.panic = @ \/ \E m \in Maps \ pb.maps : FieldsOf[m] \cap new # {}]

(* pb.M.F = ..., whatever the user set.                                    *)
Overwrite(pb, fields) ==
  [pb EXCEPT !.user = @ \ fields, !.filled = @ \cup fields,
             !.panic = @ \/ \E m \in Maps \ pb.maps : FieldsOf[m] \cap fields # {}]

(***************************************************************************)
(* The defaults of the vendors.                                            *)
(***************************************************************************)
Resources == {"cpu", "memory"}
Identity == {"vendor", "modelLabel", "osLabel", "role"}

Host(pb) == Fill(Make(pb, "config"), {"command", "entry", "image", "path", "file"})

GoBGP(pb) == Fill(Make(pb, "config"), {"image", "command", "entry", "path", "file"})

Forward(pb) == Fill(Make(pb, "config"), {"entry", "image", "path", "file"})

Sonic(pb) ==
  LET config == Fill(Make(pb, "config"), {"command", "entry", "image"})
  IN MakeFull(MakeFull(config, "services", {"services"}), "constraints", Resources)

Alpine(pb) ==
  LET config == Fill(Make(pb, "config"), {"command", "entry", "image"})
  IN MakeFull(MakeFull(config, "services", {"services"}), "constraints", Resources)

(* The two variables that name the node and its type are always written.   *)
Ciena(pb) ==
  LET config == Fill(Make(pb, "config"), {"file", "path", "model", "os"})
      labels == Fill(Make(MakeFull(config, "services", {"services"}), "labels"), Identity)
  IN Fill(Overwrite(Make(labels, "env"), {"managedEnv"}), {"image"})

Keysight(pb) ==
  Fill(MakeFull(MakeFull(pb, "services", {"services"}), "labels", {"role"}), {"role"})

Arista(pb) ==
  LET resources == Fill(Make(pb, "constraints"), Resources)
      hardware == Fill(MakeFull(resources, "services", {"services"}), {"os", "model"})
      labels == Fill(Make(hardware, "labels"), Identity \cup {"version"})
  IN Fill(Make(labels, "config"), {"entry", "path", "file", "image", "initImage", "cert"})

Nokia(pb) ==
  LET hardware == Fill(MakeFull(pb, "services", {"services"}), {"model", "os"})
      labels == Fill(Make(hardware, "labels"), Identity)
      config == Fill(Make(labels, "config"), {"image", "initImage", "file"})
  IN Fill(Make(config, "constraints"), Resources)

Juniper(pb) ==
  LET config == Make(Fill(pb, {"model", "os"}), "config")
      resources == Fill(MakeFull(config, "constraints", Resources), Resources)
      container == Fill(resources, {"command", "image"})
      services == MakeFull(MakeFull(container, "services", {"services"}), "env", {"env"})
      files == Fill(services, {"cert", "entry", "path", "file"})
  IN Fill(Make(files, "labels"), Identity)

(* setXRDEnv always writes the management interface; setE8000Env has none. *)
Cisco(pb) ==
  LET config == Fill(Make(pb, "config"), {"file", "path", "cert", "model", "os"})
      resources == Fill(Make(config, "constraints"), Resources)
      services == MakeFull(resources, "services", {"services"})
      labels == Fill(Fill(Make(services, "labels"), Identity), {"entry"})
      env == Fill(Make(labels, "env"), {"env"})
  IN Fill(env, {"image", "hostConstraints"})

CiscoXRd(pb) == Overwrite(Cisco(pb), {"managedEnv"})

(* The role of a CDNOS, of a lemming and of a magna node is not the user's *)
(* to choose.                                                              *)
Drivenets(pb) ==
  LET config == Fill(Make(pb, "config"),
                     {"file", "path", "image", "initImage", "command", "entry", "cert"})
      resources == Fill(MakeFull(config, "constraints", Resources), Resources)
      labels == Fill(MakeFull(resources, "labels", {"vendor", "role"}), {"vendor"})
  IN MakeFull(Overwrite(labels, {"role"}), "services", {"services"})

Lemming(pb) ==
  LET config == Fill(Make(pb, "config"), {"image", "initImage", "command", "entry", "cert"})
      resources == Fill(MakeFull(config, "constraints", Resources), Resources)
      labels == Fill(MakeFull(resources, "labels", {"vendor", "role"}), {"vendor"})
  IN MakeFull(Overwrite(labels, {"role"}), "services", {"services"})

(* magna adds its two services to the user's.                              *)
Magna(pb) ==
  LET config == Fill(Make(Make(pb, "config"), "services"), {"command", "entry", "image"})
      services == Fill(config, {"grpc", "gnmi"})
  IN Overwrite(MakeFull(services, "labels", {"vendor"}), {"role"})

(* With the labels of a proxied peer and a service, the command is         *)
(* generated over the user's.                                              *)
Proxy(pb) ==
  LET config == Fill(Make(pb, "config"), {"image"})
  IN IF {"proxied", "services"} \subseteq pb.user THEN Overwrite(config, {"command"}) ELSE config

Defaults(vendor, pb) ==
  CASE vendor = "host" -> Host(pb)           [] vendor = "gobgp" -> GoBGP(pb)
    [] vendor = "forward" -> Forward(pb)     [] vendor = "sonic" -> Sonic(pb)
    [] vendor = "alpine" -> Alpine(pb)       [] vendor = "ciena" -> Ciena(pb)
    [] vendor = "keysight" -> Keysight(pb)   [] vendor = "arista" -> Arista(pb)
    [] vendor = "nokia" -> Nokia(pb)         [] vendor = "juniper" -> Juniper(pb)
    [] vendor = "cisco8000" -> Cisco(pb)     [] vendor = "xrd" -> CiscoXRd(pb)
    [] vendor = "drivenets" -> Drivenets(pb) [] vendor = "lemming" -> Lemming(pb)
    [] vendor = "magna" -> Magna(pb)         [] vendor = "proxy" -> Proxy(pb)

Constructors == {"host", "gobgp", "forward", "sonic", "alpine", "ciena", "keysight", "arista",
                 "nokia", "juniper", "cisco8000", "xrd", "drivenets", "lemming", "magna", "proxy"}

(* What a vendor decides itself.                                           *)
NotTheUsers(vendor) ==
  CASE vendor \in {"drivenets", "lemming", "magna"} -> {"role"}
    [] vendor \in {"ciena", "xrd"} -> {"managedEnv"}
    [] vendor = "proxy" -> {"command"}
    [] OTHER -> {}

(* The init image that reaches the pod or the operator: the user's, the    *)
(* default one or an empty string; a Ciena's pod has no init container.    *)
(* Custom resources take that of the node's config as it is now, and a     *)
(* traffic generator's has the default one only without a config; the pods *)
(* of the other vendors fall back to the default image.                    *)
InitImage(vendor, pb) ==
  CASE vendor = "ciena" -> "none"
    [] vendor # "ciena" /\ "initImage" \in pb.user -> "user"
    [] vendor \in {"arista", "nokia", "drivenets", "lemming"} /\ "initImage" \notin IsSet(pb) -> "empty"
    [] vendor = "keysight" /\ "config" \in pb.maps /\ "initImage" \notin IsSet(pb) -> "empty"
    [] OTHER -> "default"

(* The nodes tried: at most two fields set by the user, or all but at most *)
(* one; with at most one field, also with a map present and empty.         *)
UserNodes ==
  LET one == {{}} \cup {{f} : f \in Fields}
      few == {{f, g} : f, g \in Fields}
  IN {UserNode(u, {}) : u \in few \cup {Fields \ f : f \in one}}
       \cup {UserNode(u, e) : u \in one, e \in {{}} \cup {{m} : m \in Maps}}

(* A vendor's defaults never panic, keep every field the user set except   *)
(* the ones that the vendor decides itself, and give every node an image   *)
(* (a traffic generator's is the operator's).  The init image that its pod *)
(* or custom resource gets is the user's if the user set one, and is never *)
(* empty, but for one case: a traffic generator with a config that names   *)
(* none gets an empty one for the default.  Constructing the node again    *)
(* changes nothing.                                                        *)
DefaultsKeepConfig ==
  \A v \in Constructors : \A pb \in UserNodes :
    LET r == Defaults(v, pb)
    IN /\ ~r.panic
       /\ pb.user \ NotTheUsers(v) \subseteq r.user
       /\ r.user \cap r.filled = {}
       /\ v # "keysight" => "image" \in IsSet(r)
       /\ "initImage" \in pb.user /\ v # "ciena" => InitImage(v, r) = "user"
       /\ InitImage(v, r) = "empty" => v = "keysight" /\ "config" \in pb.maps
       /\ Defaults(v, r).user = r.user /\ IsSet(Defaults(v, r)) = IsSet(r)
==================================================================================
