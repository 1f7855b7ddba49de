--------------------------- MODULE MCMiposTimers ---------------------------
(***************************************************************************)
(* Instances of MiposTimers for TLC: the sets of calls applications make.  *)
(***************************************************************************)
EXTENDS MiposTimers

(* No handler cancels or replaces its own timer, no timer is restarted, no *)
(* timer is started while a cancellation is under way.                     *)
ServedOps == {"start", "cancel", "delete"}
=============================================================================
