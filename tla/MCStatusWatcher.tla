---------------------------- MODULE MCStatusWatcher ----------------------------
(* StatusWatcher for TLC: a pod whose image is pulled, is missing or is tried  *)
(* again later, that runs, is ready or has failed.                             *)
EXTENDS StatusWatcher

Seen(phase, main, init) == [phase |-> phase, main |-> main, init |-> init]
MCPodContents ==
  {Seen("pending", "starting", "pulling"), Seen("pending", "starting", "notfound"),
   Seen("pending", "backoff", "ready"), Seen("running", "running", "ready"),
   Seen("running", "ready", "ready"), Seen("failed", "ended", "ready")}
=============================================================================
