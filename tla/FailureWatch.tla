---------------------------- MODULE FailureWatch ----------------------------
(***************************************************************************)
(* What a pods.Watcher or events.Watcher promises to the operation it      *)
(* guards (Deployment.Deploy, Manager.Create): a failure it finds is in    *)
(* the error channel before the operation's context is cancelled, there is *)
(* at most one, and Cleanup hands it out.                                  *)
(***************************************************************************)
VARIABLES phase,    \* "off", "watching", "recorded", "ended"
          box,      \* errCh holds the watcher's error
          ctxDone   \* the context of the guarded operation has ended

watchVars == <<phase, box, ctxDone>>

(* Before NewWatcher. *)
Off == phase = "off" /\ box = FALSE

(* NewWatcher; if it fails the operation goes on without the watcher. *)
Start ==
    /\ phase = "off"
    /\ phase' \in {"watching", "off"}
    /\ UNCHANGED <<box, ctxDone>>

(* A failure is found: the error is recorded first. *)
Record ==
    /\ phase = "watching"
    /\ phase' = "recorded"
    /\ box' = TRUE
    /\ ctxDone' = ctxDone

(* Then the context is cancelled, and the watcher ends. *)
Cancel ==
    /\ phase = "recorded"
    /\ phase' = "ended"
    /\ ctxDone' = TRUE
    /\ box' = box

(* The watcher ends with nothing found. *)
End ==
    /\ phase = "watching"
    /\ phase' = "ended"
    /\ UNCHANGED <<box, ctxDone>>

(* The operation's context ends for another reason. *)
ContextEnds ==
    /\ ctxDone' = TRUE
    /\ UNCHANGED <<phase, box>>

(* Cleanup takes the error, if there is one. *)
Cleanup ==
    /\ box' = FALSE
    /\ UNCHANGED <<phase, ctxDone>>

AbsInit == phase = "watching" /\ box = FALSE /\ ctxDone = FALSE
AbsNext == Record \/ Cancel \/ End \/ ContextEnds \/ Cleanup
AbsSpec == AbsInit /\ [][AbsNext]_watchVars
=============================================================================
