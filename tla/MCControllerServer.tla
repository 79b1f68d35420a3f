------------------------- MODULE MCControllerServer -------------------------
(* ControllerServer for TLC: a node of any kind, with the start-up            *)
(* configurations that make a difference to its calls, beside a small one.    *)
EXTENDS ControllerServer, TLC

CONSTANTS n1, n2
AnySort ==
    ({"ciena", "cisco", "forward", "arista", "nokia", "drivenets"} \X {"small"})
        \cup ({"host", "xrd", "juniper"} \X {"large"})
        \cup ({"alpine", "juniper"} \X {"empty"})
        \cup ({"sonic", "keysight"} \X {"none"})
MCSorts == (n1 :> AnySort) @@ (n2 :> {<<"lemming", "none">>})
=============================================================================
