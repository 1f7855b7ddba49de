----------------------------- MODULE MiposMutex -----------------------------
(***************************************************************************)
(* The mutex of mipos_mutex.h: one state byte without an owner, and a lock *)
(* that polls the byte and calls mipos_tm_wkafter(0) in between.           *)
(*                                                                         *)
(* Of the kernel the module keeps what decides who finds the mutex free:   *)
(* one task runs until it blocks; the search visits the tasks in a circle; *)
(* a visit to a suspended task counts down its delay or makes it READY,    *)
(* and only the visit after that one dispatches it.                        *)
(* A task is                                                               *)
(*   "out"    not interested in the mutex,                                 *)
(*   "spin"   in the loop of mipos_mu_lock,                                *)
(*   "in"     between mipos_mu_lock and mipos_mu_unlock,                   *)
(*   "again"  in the loop of a mipos_mu_lock it made while it was "in".    *)
(***************************************************************************)
EXTENDS Integers

CONSTANTS
  N,      \* number of tasks
  Users,  \* the tasks that use the mutex
  Ticks,  \* arguments of mipos_tm_wkafter
  Ops     \* what the application does, see AllOps

(* "relock": a task locks again before it yields.                          *)
(* "lock_held": a task locks the mutex that it holds.                      *)
(* "foreign_unlock": a task unlocks a mutex that it does not hold.         *)
(* "delete": tasks that do not hold the mutex are deleted.                 *)
(* "delete_holder": a task that holds it is deleted.                       *)
(* "create": tasks are created, while no task waits for the mutex.         *)
(* "create_any": tasks are created at any time.                            *)
AllOps == {"relock", "lock_held", "foreign_unlock", "delete", "delete_holder",
           "create", "create_any"}

ASSUME MutexAssumption ==
  /\ N \in Nat \ {0}
  /\ Users \subseteq 1 .. N
  /\ Ticks \subseteq Nat
  /\ Ops \subseteq AllOps

Tasks == 1 .. N

VARIABLES
  state,    \* MUTEX_UNLOCKED or MUTEX_LOCKED
  at,       \* where each task is
  visits,   \* the visits until a task is READY, or one of the next two
  cur,      \* the task visited last
  run,      \* that task runs; otherwise the scheduler has control
  released  \* the running task has unlocked the mutex since it was resumed

vars == <<state, at, visits, cur, run, released>>

EMPTY == -2    \* no task in the slot
BLOCKED == -1  \* suspended until something happens

(* mipos_mu_init, made before the tasks use the mutex.                     *)
Init ==
  /\ state = "UNLOCKED"
  /\ at = [t \in Tasks |-> "out"]
  /\ visits = [t \in Tasks |-> 0]
  /\ cur = N
  /\ run = FALSE
  /\ released = FALSE

Holds(t) == at[t] \in {"in", "again"}
-----------------------------------------------------------------------------
(* The calls of the task that runs.                                        *)

(* The task is suspended and the scheduler gets control.                   *)
mipos_tm_wkafter(t, n) ==
  /\ visits' = [visits EXCEPT ![t] = n + 1]
  /\ run' = FALSE

(* Mutant: the state is not tested again after wkafter(0).                 *)
PollUntested(t) ==
  /\ state' = "LOCKED"
  /\ at' = [at EXCEPT ![t] = "in"]
  /\ run' = TRUE
  /\ UNCHANGED visits

(* Mutant: the loop sleeps one tick longer between two polls.              *)
PollSlower(t) ==
  IF state = "UNLOCKED"
    THEN /\ state' = "LOCKED"
         /\ at' = [at EXCEPT ![t] = "in"]
         /\ run' = TRUE
         /\ UNCHANGED visits
    ELSE /\ at' = [at EXCEPT ![t] = IF Holds(t) THEN "again" ELSE "spin"]
         /\ mipos_tm_wkafter(t, 1)
         /\ UNCHANGED state

(* One iteration of the loop of mipos_mu_lock: it leaves the loop when the *)
(* mutex is unlocked and goes to sleep when it is locked.                  *)
Poll(t) ==
  IF state = "UNLOCKED"
    THEN /\ state' = "LOCKED"
         /\ at' = [at EXCEPT ![t] = "in"]
         /\ run' = TRUE
         /\ UNCHANGED visits
    ELSE /\ at' = [at EXCEPT ![t] = IF Holds(t) THEN "again" ELSE "spin"]
         /\ mipos_tm_wkafter(t, 0)
         /\ UNCHANGED state

mipos_mu_lock(t) ==
  /\ run /\ cur = t /\ t \in Users
  /\ at[t] = "in" => "lock_held" \in Ops
  /\ released => "relock" \in Ops
  /\ Poll(t)
  /\ UNCHANGED <<cur, released>>

(* Mutant: the state byte is not written.                                  *)
UnlockForgets(t) ==
  /\ run /\ cur = t /\ t \in Users
  /\ at[t] = "in" \/ "foreign_unlock" \in Ops
  /\ at' = [at EXCEPT ![t] = "out"]
  /\ released' = TRUE
  /\ UNCHANGED <<state, visits, cur, run>>

mipos_mu_unlock(t) ==
  /\ run /\ cur = t /\ t \in Users
  /\ at[t] = "in" \/ "foreign_unlock" \in Ops
  /\ state' = "UNLOCKED"
  /\ at' = [at EXCEPT ![t] = "out"]
  /\ released' = TRUE
  /\ UNCHANGED <<visits, cur, run>>

(* A delay, or any other blocking call.                                    *)
Yield(t) ==
  /\ run /\ cur = t
  /\ \/ \E n \in Ticks : mipos_tm_wkafter(t, n)
     \/ visits' = [visits EXCEPT ![t] = BLOCKED] /\ run' = FALSE
  /\ UNCHANGED <<state, at, cur, released>>

(* A task that is deleted does not unlock the mutex.  A task that deletes  *)
(* itself does so as the last thing it does.                               *)
mipos_t_delete(t) ==
  /\ visits[t] # EMPTY
  /\ Holds(t) => "delete_holder" \in Ops
  /\ at' = [at EXCEPT ![t] = "out"]
  /\ visits' = [visits EXCEPT ![t] = EMPTY]
  /\ run' = (run /\ cur # t)
  /\ UNCHANGED <<state, cur, released>>

(* The new task is READY.                                                  *)
mipos_t_create(t) ==
  /\ visits[t] = EMPTY
  /\ (\A u \in Tasks : at[u] # "spin") \/ "create_any" \in Ops
  /\ visits' = [visits EXCEPT ![t] = 0]
  /\ UNCHANGED <<state, at, cur, run, released>>

(* What a blocked task waits for happens: its signal is pending.           *)
Notify(t) ==
  /\ visits[t] = BLOCKED
  /\ visits' = [visits EXCEPT ![t] = 1]
  /\ UNCHANGED <<state, at, cur, run, released>>
-----------------------------------------------------------------------------
(* The scheduler.                                                          *)

(* Mutant: the search does not wrap around.                                *)
AdvanceNoWrap(t) ==
  /\ ~run /\ t = (cur % N) + 1
  /\ cur' = cur + 1

(* The search goes to the next task of the circle.                         *)
Advance(t) ==
  /\ ~run /\ t = (cur % N) + 1
  /\ cur' = t

(* Nothing to do for this task.                                            *)
Pass(t) ==
  /\ Advance(t)
  /\ visits[t] \in {EMPTY, BLOCKED}
  /\ UNCHANGED <<state, at, visits, run, released>>

(* The TSM counts down the delay, or finds the signal and makes the task   *)
(* READY, and goes on with the search either way.                          *)
Wake(t) ==
  /\ Advance(t)
  /\ visits[t] > 0
  /\ visits' = [visits EXCEPT ![t] = @ - 1]
  /\ UNCHANGED <<state, at, run, released>>

(* A READY task is dispatched.  A task in the loop of mipos_mu_lock looks  *)
(* at the state again.                                                     *)
Dispatch(t) ==
  /\ Advance(t)
  /\ visits[t] = 0
  /\ released' = FALSE
  /\ IF at[t] \in {"spin", "again"}
       THEN Poll(t)
       ELSE run' = TRUE /\ UNCHANGED <<state, at, visits>>

Visit == \E t \in Tasks : Pass(t) \/ Wake(t) \/ Dispatch(t)

Next ==
  \/ Visit
  \/ \E t \in Tasks :
       \/ mipos_mu_lock(t)
       \/ mipos_mu_unlock(t)
       \/ Yield(t)
       \/ Notify(t)
       \/ "delete" \in Ops /\ mipos_t_delete(t)
       \/ "create" \in Ops /\ mipos_t_create(t)

Spec == Init /\ [][Next]_vars

(* The search goes on (mipos_start never returns).  What the application   *)
(* owes: a task that runs yields; the task that holds the mutex is not     *)
(* blocked forever, and comes to its unlock.                               *)
FairSpec ==
  /\ Spec
  /\ WF_vars(Visit)
  /\ \A t \in Tasks :
       /\ WF_vars(Yield(t))
       /\ WF_vars(Notify(t) /\ at[t] = "in")
       /\ SF_vars(mipos_mu_unlock(t) /\ at[t] = "in")
-----------------------------------------------------------------------------
(* Properties.                                                             *)

(* The type invariant of the mutex.                                        *)
TypeOK ==
  /\ state \in {"UNLOCKED", "LOCKED"}
  /\ at \in [Tasks -> {"out", "spin", "in", "again"}]
  /\ visits \in [Tasks -> Nat \cup {EMPTY, BLOCKED}]
  /\ cur \in Tasks
  /\ run \in BOOLEAN
  /\ released \in BOOLEAN

(* At most one task holds the mutex, although it is polled by tasks that   *)
(* find it unlocked at different visits and the state has no owner         *)
(* (mutex.h:57-66).                                                        *)
MutualExclusion ==
  \A t, u \in Tasks : Holds(t) /\ Holds(u) => t = u

(* The state byte tells exactly whether a task holds the mutex: it is      *)
(* never left locked by nobody (mutex.h:57-66, 79-85).                     *)
LockedIffHeld == state = "LOCKED" <=> \E t \in Tasks : Holds(t)

(* A task that waits for the mutex gets it, unless it is deleted.  It      *)
(* polls at every second visit only (kernel.c:362-384), so this depends on *)
(* how long the others stay away between unlock and lock: it holds when    *)
(* two tasks share the mutex (mutex.h:48-66).                              *)
LockAcquired == \A t \in Tasks : at[t] = "spin" ~> at[t] # "spin"
=============================================================================
