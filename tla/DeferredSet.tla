---------------------------- MODULE DeferredSet ----------------------------
(***************************************************************************)
(* What the deferred callbacks of a connection promise, in any order: an   *)
(* entry is there once, runs once and may queue others while it runs.      *)
(* This is how the queues appear in Connections; DeferredQueue, with       *)
(* blocks and order, implements it.                                        *)
(***************************************************************************)
CONSTANTS Keys,      \* block and callback of an entry
          Repeatable,\* keys whose callback may queue itself
          Nothing    \* no callback is running

VARIABLES queued, running, draining

vars == <<queued, running, draining>>

Init == queued = {} /\ running = Nothing /\ draining = FALSE

Register(k) ==
  /\ ~draining \/ running # Nothing
  /\ queued' = queued \cup {k}
  /\ UNCHANGED <<running, draining>>

Start == ~draining /\ draining' = TRUE /\ UNCHANGED <<queued, running>>

Run(k) ==
  /\ draining /\ running = Nothing /\ k \in queued
  /\ queued' = queued \ {k}
  /\ running' = k
  /\ UNCHANGED draining

Return ==
  /\ running # Nothing
  /\ queued' = IF running \in Repeatable THEN queued ELSE queued \ {running}
  /\ running' = Nothing
  /\ UNCHANGED draining

Drained ==
  /\ draining /\ running = Nothing /\ queued = {}
  /\ draining' = FALSE /\ UNCHANGED <<queued, running>>

(* A callback raises: the entries that have not run stay, unless one of    *)
(* its statements has failed and rolled them back.                         *)
Raise ==
  /\ running # Nothing
  /\ running' = Nothing /\ draining' = FALSE /\ queued' \in {queued, {}}

(* The rollback, or the end of the connection. *)
Clear == ~draining /\ queued' = {} /\ UNCHANGED <<running, draining>>

Next == Start \/ Return \/ Drained \/ Raise \/ Clear \/ \E k \in Keys : Register(k) \/ Run(k)

Spec == Init /\ [][Next]_vars
=============================================================================
