-------------------------- MODULE MiposMutexProofs --------------------------
(***************************************************************************)
(* Theorems about the mutex, for every number of tasks and every set of    *)
(* users.  There is no owner in mipos_mtx_t, so they hold for applications *)
(* in which only the task that holds the mutex unlocks it.                 *)
(***************************************************************************)
EXTENDS MiposMutex, TLAPS

HolderUnlocks == "foreign_unlock" \notin Ops

HeldIsLocked == \A t \in Tasks : Holds(t) => state = "LOCKED"

ExclusionInv == TypeOK /\ MutualExclusion /\ HeldIsLocked

LEMMA InitExclusion == Init => ExclusionInv
<1> SUFFICES ASSUME Init PROVE ExclusionInv
  OBVIOUS
<1>1. \A t \in Tasks : ~Holds(t)
  BY DEF Init, Holds
<1>2. TypeOK
  <2>1. cur \in Tasks
    BY MutexAssumption DEF Init, Tasks
  <2>2. at \in [Tasks -> {"out", "spin", "in", "again"}]
    BY DEF Init
  <2> QED
    BY <2>1, <2>2, Zenon DEF Init, TypeOK
<1> QED
  BY <1>1, <1>2 DEF ExclusionInv, MutualExclusion, HeldIsLocked

(* One iteration of the loop of mipos_mu_lock lets its task in only when   *)
(* nobody holds the mutex, and never changes who holds it otherwise.       *)
LEMMA PollStep ==
  ASSUME ExclusionInv, NEW t \in Tasks, Poll(t)
  PROVE  /\ state' = "LOCKED"
         /\ at' \in [Tasks -> {"out", "spin", "in", "again"}]
         /\ visits' \in [Tasks -> Nat \cup {EMPTY, BLOCKED}]
         /\ run' \in BOOLEAN
         /\ MutualExclusion' /\ HeldIsLocked'
         /\ (\E u \in Tasks : Holds(u)') \/ \A u \in Tasks : ~Holds(u)
         /\ state = "LOCKED" => \A u \in Tasks : Holds(u)' <=> Holds(u)
<1> USE DEF ExclusionInv, TypeOK, MutualExclusion, HeldIsLocked, Holds
<1>1. CASE state = "UNLOCKED"
  <2>1. /\ state' = "LOCKED" /\ at' = [at EXCEPT ![t] = "in"] /\ run' = TRUE
        /\ visits' = visits
    BY <1>1 DEF Poll
  <2> QED
    BY <1>1, <2>1
<1>2. CASE state # "UNLOCKED"
  <2>1. /\ state' = state /\ state = "LOCKED"
        /\ at' = [at EXCEPT ![t] = IF Holds(t) THEN "again" ELSE "spin"]
        /\ run' = FALSE
    BY <1>2 DEF Poll, mipos_tm_wkafter
  <2>2. visits' = [visits EXCEPT ![t] = 0 + 1]
    BY <1>2 DEF Poll, mipos_tm_wkafter
  <2>3. visits' \in [Tasks -> Nat \cup {EMPTY, BLOCKED}]
    BY <2>2
  <2>4. \A u \in Tasks : Holds(u)' <=> Holds(u)
    BY <2>1
  <2> QED
    BY <2>1, <2>3, <2>4, Zenon
<1> QED
  BY <1>1, <1>2

(* Every step preserves ExclusionInv.                                      *)
LEMMA NextExclusion ==
  ASSUME HolderUnlocks, ExclusionInv, [Next]_vars
  PROVE  ExclusionInv'
<1> USE MutexAssumption
    DEF ExclusionInv, TypeOK, MutualExclusion, HeldIsLocked
<1>1. ASSUME NEW t \in Tasks, mipos_mu_lock(t)
      PROVE  ExclusionInv'
  <2>1. Poll(t) /\ UNCHANGED <<cur, released>>
    BY <1>1 DEF mipos_mu_lock
  <2> QED
    BY <2>1, PollStep
<1>2. ASSUME NEW t \in Tasks, mipos_mu_unlock(t)
      PROVE  ExclusionInv'
  <2>1. at[t] = "in"
    BY <1>2 DEF mipos_mu_unlock, HolderUnlocks
  <2> QED
    BY <1>2, <2>1 DEF mipos_mu_unlock, Holds
<1>3. ASSUME NEW t \in Tasks, Yield(t) \/ Notify(t) \/ mipos_t_create(t)
      PROVE  ExclusionInv'
  <2>1. UNCHANGED <<state, at, cur, released>> /\ run' \in BOOLEAN
    BY <1>3, Zenon DEF Yield, Notify, mipos_t_create, mipos_tm_wkafter
  <2>2. \E v \in Nat \cup {EMPTY, BLOCKED} :
          visits' = [visits EXCEPT ![t] = v]
    <3>1. CASE Yield(t)
      <4>1. CASE visits' = [visits EXCEPT ![t] = BLOCKED]
        BY <4>1, Zenon
      <4>2. CASE \E n \in Ticks : visits' = [visits EXCEPT ![t] = n + 1]
        <5>1. \A n \in Ticks : n + 1 \in Nat
          OBVIOUS
        <5> QED
          BY <4>2, <5>1, Zenon
      <4> QED
        BY <3>1, <4>1, <4>2 DEF Yield, mipos_tm_wkafter
    <3>2. CASE Notify(t) \/ mipos_t_create(t)
      BY <3>2 DEF Notify, mipos_t_create
    <3> QED
      BY <1>3, <3>1, <3>2
  <2> QED
    BY <2>1, <2>2 DEF Holds
<1>4. ASSUME NEW t \in Tasks, Pass(t) \/ Wake(t)
      PROVE  ExclusionInv'
  <2>1. /\ UNCHANGED <<state, at, run, released>> /\ cur' \in Tasks
        /\ visits' \in [Tasks -> Nat \cup {EMPTY, BLOCKED}]
    BY <1>4 DEF Pass, Wake, Advance, EMPTY, BLOCKED
  <2> QED
    BY <2>1 DEF Holds
<1>5. ASSUME NEW t \in Tasks, Dispatch(t)
      PROVE  ExclusionInv'
  <2>1. cur' \in Tasks /\ released' = FALSE
    BY <1>5 DEF Dispatch, Advance
  <2>2. CASE Poll(t)
    BY <2>1, <2>2, PollStep, Zenon
  <2>3. CASE run' = TRUE /\ UNCHANGED <<state, at, visits>>
    BY <2>1, <2>3, Zenon DEF Holds
  <2> QED
    BY <1>5, <2>2, <2>3, Zenon DEF Dispatch
<1>6. ASSUME NEW t \in Tasks, mipos_t_delete(t)
      PROVE  ExclusionInv'
  <2>1. /\ at' = [at EXCEPT ![t] = "out"] /\ UNCHANGED <<state, cur, released>>
        /\ visits' = [visits EXCEPT ![t] = EMPTY] /\ run' \in BOOLEAN
    BY <1>6 DEF mipos_t_delete
  <2> QED
    BY <2>1 DEF Holds
<1>7. CASE UNCHANGED vars
  BY <1>7 DEF vars, Holds
<1> QED
  BY <1>1, <1>2, <1>3, <1>4, <1>5, <1>6, <1>7 DEF Next, Visit

(* Mutual exclusion, for every number of tasks and users, with tasks       *)
(* deleted and created at any time and with holders that lock again:       *)
(* a task that was made READY while the mutex was free looks at the state  *)
(* again when it is dispatched (mutex.h:57-66).                            *)
THEOREM Exclusion ==
  ASSUME HolderUnlocks
  PROVE  Spec => []MutualExclusion
<1>1. ExclusionInv => MutualExclusion
  BY DEF ExclusionInv
<1> QED
  BY <1>1, InitExclusion, NextExclusion, PTL DEF Spec

(* If no holder is deleted the state byte says exactly whether the mutex   *)
(* is held: it is never left locked by nobody (mutex.h:57-66, 79-85).      *)
THEOREM StateTellsHolder ==
  ASSUME HolderUnlocks, "delete_holder" \notin Ops
  PROVE  Spec => []LockedIffHeld
<1> DEFINE I == ExclusionInv /\ LockedIffHeld
<1>1. Init => I
  BY InitExclusion DEF Init, LockedIffHeld, Holds
<1>2. I /\ [Next]_vars => I'
  <2> SUFFICES ASSUME ExclusionInv, LockedIffHeld, [Next]_vars
               PROVE  LockedIffHeld'
    BY NextExclusion
  <2> USE DEF ExclusionInv, TypeOK, LockedIffHeld
  <2>1. ASSUME NEW t \in Tasks, Poll(t)
        PROVE  LockedIffHeld'
    <3>1. CASE state = "LOCKED"
      BY <2>1, <3>1, PollStep
    <3>2. CASE state = "UNLOCKED"
      BY <2>1, <3>2 DEF Poll, Holds
    <3> QED
      BY <3>1, <3>2
  <2>2. ASSUME NEW t \in Tasks, mipos_mu_unlock(t)
        PROVE  LockedIffHeld'
    BY <2>2 DEF mipos_mu_unlock, HolderUnlocks, MutualExclusion, Holds
  <2>3. ASSUME NEW t \in Tasks, mipos_t_delete(t)
        PROVE  LockedIffHeld'
    BY <2>3 DEF mipos_t_delete, Holds
  <2>4. CASE UNCHANGED <<state, at>>
    BY <2>4 DEF Holds
  <2>5. ASSUME NEW t \in Tasks
        PROVE  /\ mipos_mu_lock(t) => Poll(t)
               /\ Dispatch(t) => Poll(t) \/ UNCHANGED <<state, at>>
               /\ Pass(t) => UNCHANGED <<state, at>>
               /\ Wake(t) => UNCHANGED <<state, at>>
               /\ Yield(t) => UNCHANGED <<state, at>>
               /\ Notify(t) => UNCHANGED <<state, at>>
               /\ mipos_t_create(t) => UNCHANGED <<state, at>>
    BY DEF mipos_mu_lock, Dispatch, Pass, Wake, Yield, Notify, mipos_t_create
  <2>6. CASE UNCHANGED vars
    BY <2>4, <2>6 DEF vars
  <2> QED
    BY <2>1, <2>2, <2>3, <2>4, <2>5, <2>6 DEF Next, Visit
<1>3. I => LockedIffHeld
  OBVIOUS
<1> QED
  BY <1>1, <1>2, <1>3, PTL DEF Spec
=============================================================================
