--------------------------- MODULE MCMiposKernel ---------------------------
(***************************************************************************)
(* Instances of MiposKernel for TLC: the sets of calls applications make.  *)
(***************************************************************************)
EXTENDS MiposKernel

(* Tasks that signal, freeze, delete, re-create and restart each other.    *)
LifecycleOps ==
  {"create", "delete", "restart", "notify", "sig_mask", "freeze", "unfreeze",
   "suspend", "waitfor", "wkafter"}

(* Real-time tasks that wake suspended tasks, and callbacks.               *)
RealTimeOps ==
  {"create", "create_rt", "delete", "notify", "suspend", "wkafter",
   "timer_cbk", "idle_cbk", "dpc"}

(* Real-time tasks that return any value, and tasks that reuse their slot. *)
AnyDpcOps ==
  {"create", "create_rt", "delete", "freeze", "freeze_self", "unfreeze",
   "suspend", "wkafter", "dpc_any", "reuse_own_slot"}

(* Delays, with freezes, deletions and restarts.                           *)
DelayOps ==
  {"create", "delete", "restart", "notify", "suspend", "wkafter", "sleep",
   "freeze", "unfreeze"}
=============================================================================
