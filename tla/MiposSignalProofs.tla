------------------------- MODULE MiposSignalProofs -------------------------
(***************************************************************************)
(* Proofs about the signals of MiposKernel: what a step may do to the      *)
(* pending signals of a task, that no signal is lost and that no timeout   *)
(* is left over.  They hold for a task table of any size and whatever      *)
(* calls the application makes.                                            *)
(***************************************************************************)
EXTENDS MiposKernelProofs

(* What a step may do to the pending signals of task t.                    *)
PendingChange(t) ==
  \/ task'[t].pending = task[t].pending
  \/ ~(task[t].entry /\ task'[t].entry) /\ task'[t].pending = {}
  \/ \E s \in NotifySig : task'[t].pending = task[t].pending \cup ({s} \cap task[t].mask)
  \/ task'[t] = TsmWake(TsmClocks(task[t]))
  \/ /\ pc' = "task" /\ tcp' = t
     /\ task'[t].pending = task[t].pending \ task[t].ctxSig

(* It is enough to look at the descriptor that the step replaces.          *)
LEMMA OtherPending ==
  ASSUME NEW t \in Tid, NEW d, task \in [Tid -> TaskDesc],
         task' = [task EXCEPT ![t] = d],
         task'[t] = d => PendingChange(t)
  PROVE  \A u \in Tid : PendingChange(u)
BY DEF PendingChange

(* So it is when the step writes one descriptor and not its pending set.   *)
LEMMA SamePending ==
  ASSUME NEW t \in Tid, NEW d, task \in [Tid -> TaskDesc],
         task' = [task EXCEPT ![t] = d], d.pending = task[t].pending
  PROVE  \A u \in Tid : PendingChange(u)
BY DEF PendingChange

(* Every step changes the pending signals of a task in one of these ways.  *)
LEMMA PendingStep == StatusInv /\ [Next]_vars => \A t \in Tid : PendingChange(t)
<1> SUFFICES ASSUME StatusInv, [Next]_vars PROVE \A t \in Tid : PendingChange(t)
  OBVIOUS
<1>0. /\ task \in [Tid -> TaskDesc] /\ cur \in Tid /\ tcp \in Tid
      /\ \A t \in Tid : task[t] \in TaskDesc
  BY DEF StatusInv, TypeOK
<1>a. ASSUME UNCHANGED task PROVE \A t \in Tid : PendingChange(t)
  BY <1>a DEF PendingChange
<1>1. CASE \/ Scheduler \/ SearchTask \/ RtReturn \/ RtReturnBeyond \/ IdleReturn
           \/ mipos_update_rtc \/ UNCHANGED vars
  <2>1. UNCHANGED task
    BY <1>1
        DEF Scheduler, SearchTask, RtReturn, RtReturnBeyond, IdleReturn, mipos_update_rtc, vars
  <2> QED BY <2>1, <1>a
<1>2. ASSUME NEW t \in Tid \ {IDLE}, RtReturnDpc(t) PROVE \A u \in Tid : PendingChange(u)
  <2> DEFINE d == [task[t] EXCEPT !.wkup = TRUE, !.status = {"READY"}]
  <2>1. task' = [task EXCEPT ![t] = d] /\ d.pending = task[t].pending
    BY <1>2, <1>0, ZenonT(40) DEF RtReturnDpc, TaskDesc
  <2> QED BY <1>0, <2>1, SamePending, Zenon
<1>3. CASE TsmRunning \/ DispatchStart \/ DispatchWild
  <2>1. PICK d : task' = [task EXCEPT ![cur] = d] /\ d.pending = task[cur].pending
    <3>1. CASE TsmRunning
      <4> DEFINE d == [task[cur] EXCEPT !.status = {"ZOMBIE"}]
      <4>1. task' = [task EXCEPT ![cur] = d] /\ d.pending = task[cur].pending
        BY <3>1, <1>0 DEF TsmRunning, TaskDesc
      <4> QED BY <4>1, Zenon
    <3>2. CASE DispatchStart
      <4> DEFINE d == [task[cur] EXCEPT !.status = {"RUNNING"}]
      <4>1. task' = [task EXCEPT ![cur] = d] /\ d.pending = task[cur].pending
        BY <3>2, <1>0 DEF DispatchStart, TaskDesc
      <4> QED BY <4>1, Zenon
    <3>3. CASE DispatchWild
      <4> DEFINE d == [task[cur] EXCEPT !.status = {"RUNNING"}, !.wkup = FALSE]
      <4>1. task' = [task EXCEPT ![cur] = d] /\ d.pending = task[cur].pending
        BY <3>3, <1>0 DEF DispatchWild, TaskDesc
      <4> QED BY <4>1, Zenon
    <3> QED BY <1>3, <3>1, <3>2, <3>3
  <2> QED BY <1>0, <2>1, SamePending, Zenon
<1>4. CASE TsmSuspended
  <2>1. task' = [task EXCEPT ![cur] = TsmWake(TsmClocks(task[cur]))]
    BY <1>4 DEF TsmSuspended
  <2> QED BY <1>0, <2>1, OtherPending DEF PendingChange
<1>5. CASE DispatchResume
  <2> DEFINE r == reset_signal_and_run(task[cur], task[cur].ctxSig)
             d == [r EXCEPT !.wkup = FALSE]
  <2>1. task' = [task EXCEPT ![cur] = d] /\ pc' = "task" /\ tcp' = cur
    BY <1>5 DEF DispatchResume, TsmEnter, Goto
  <2>2. r \in TaskDesc /\ r.pending = task[cur].pending \ task[cur].ctxSig
    <3>1. task[cur].ctxSig \in SUBSET Sig
      BY <1>0 DEF TaskDesc
    <3>2. r \in TaskDesc
      BY <1>0, <3>1, DescTypes, Zenon
    <3> QED BY <1>0, <3>2 DEF reset_signal_and_run, TaskDesc
  <2> HIDE DEF r
  <2>3. d.pending = task[cur].pending \ task[cur].ctxSig
    BY <2>2 DEF TaskDesc
  <2> HIDE DEF d
  <2> QED BY <1>0, <2>1, <2>3, OtherPending DEF PendingChange
<1>6. ASSUME NEW S \in SUBSET Sig
      PROVE  LET w == set_wait_for_signal(save_context(task[tcp], S), S)
             IN  w \in TaskDesc /\ w.pending = task[tcp].pending
  <2> DEFINE e == save_context(task[tcp], S)
             w == set_wait_for_signal(e, S)
  <2>1. e \in TaskDesc /\ e.pending = task[tcp].pending
    <3>1. e \in TaskDesc
      BY <1>0, DescTypes, Zenon
    <3> QED BY <1>0, <3>1 DEF save_context, TaskDesc
  <2> HIDE DEF e
  <2>2. w \in TaskDesc
    BY <2>1, DescTypes, Zenon
  <2>3. w.pending = e.pending
    BY <2>1 DEF set_wait_for_signal, TaskDesc
  <2> HIDE DEF w
  <2> QED BY <2>1, <2>2, <2>3 DEF e, w
<1>7. ASSUME NEW S \in SUBSET Sig, Suspend(S) PROVE \A u \in Tid : PendingChange(u)
  <2> DEFINE w == set_wait_for_signal(save_context(task[tcp], S), S)
  <2>1. task' = [task EXCEPT ![tcp] = w] /\ w.pending = task[tcp].pending
    BY <1>6, <1>7 DEF Suspend
  <2> HIDE DEF w
  <2> QED BY <1>0, <2>1, SamePending, Zenon
<1>8. ASSUME NEW n, mipos_tm_wkafter(n) \/ mipos_tm_sleep(n)
      PROVE  \A u \in Tid : PendingChange(u)
  <2>0. {"ALM"} \in SUBSET Sig /\ {"TMR"} \in SUBSET Sig
    BY DEF Sig, SysSig
  <2>1. CASE mipos_tm_wkafter(n)
    <3> DEFINE w == set_wait_for_signal(save_context(task[tcp], {"ALM"}), {"ALM"})
               d == [w EXCEPT !.tick = n]
    <3>1. task' = [task EXCEPT ![tcp] = d]
      BY <2>1 DEF mipos_tm_wkafter
    <3>2. w \in TaskDesc /\ w.pending = task[tcp].pending
      BY <1>6, <2>0
    <3> HIDE DEF w
    <3>3. d.pending = task[tcp].pending
      BY <3>2 DEF TaskDesc
    <3> HIDE DEF d
    <3> QED BY <1>0, <3>1, <3>3, SamePending, Zenon
  <2>2. CASE mipos_tm_sleep(n)
    <3> DEFINE w == set_wait_for_signal(save_context(task[tcp], {"TMR"}), {"TMR"})
               d == [w EXCEPT !.timeout = rtc + n]
    <3>1. task' = [task EXCEPT ![tcp] = d]
      BY <2>2 DEF mipos_tm_sleep
    <3>2. w \in TaskDesc /\ w.pending = task[tcp].pending
      BY <1>6, <2>0
    <3> HIDE DEF w
    <3>3. d.pending = task[tcp].pending
      BY <3>2 DEF TaskDesc
    <3> HIDE DEF d
    <3> QED BY <1>0, <3>1, <3>3, SamePending, ZenonT(40)
  <2> QED BY <1>8, <2>1, <2>2
<1>9. CASE TaskReturn
  <2> DEFINE d == [task[tcp] EXCEPT !.ctx = "dead"]
  <2>1. task' = [task EXCEPT ![tcp] = d] /\ d.pending = task[tcp].pending
    BY <1>9, <1>0 DEF TaskReturn, TaskDesc
  <2> HIDE DEF d
  <2> QED BY <1>0, <2>1, SamePending, Zenon
<1>10. ASSUME NEW t \in Tid, NEW isRt \in BOOLEAN, mipos_t_create(t, isRt)
       PROVE  \A u \in Tid : PendingChange(u)
  <2> DEFINE d == t_create(task[t], isRt)
  <2>1. task' = [task EXCEPT ![t] = d] /\ ~task[t].entry
    BY <1>10 DEF mipos_t_create, FirstFree
  <2>2. d.pending = {}
    BY <1>0 DEF t_create, TaskDesc
  <2> HIDE DEF d
  <2> QED BY <1>0, <2>1, <2>2, OtherPending DEF PendingChange
<1>11. ASSUME NEW id \in Tid PROVE get_p_task(id) \in Tid
  BY <1>0 DEF get_p_task
<1>12. ASSUME NEW id \in Tid, mipos_t_delete(id) PROVE \A u \in Tid : PendingChange(u)
  <2> DEFINE t == get_p_task(id)
             d == t_delete(task[t])
  <2>1. t \in Tid /\ task' = [task EXCEPT ![t] = d]
    BY <1>11, <1>12 DEF mipos_t_delete
  <2> HIDE DEF t
  <2>2. d.pending = {} /\ ~d.entry
    BY <1>0, <2>1 DEF t_delete, TaskDesc
  <2> HIDE DEF d
  <2> QED BY <1>0, <2>1, <2>2, OtherPending DEF PendingChange
<1>13. ASSUME NEW id \in Tid, NEW s \in NotifySig, mipos_t_notify_signal(id, s)
       PROVE  \A u \in Tid : PendingChange(u)
  <2> DEFINE t == get_p_task(id)
             d == [task[t] EXCEPT !.pending = @ \cup ({s} \cap task[t].mask)]
  <2>1. t \in Tid /\ task' = [task EXCEPT ![t] = d]
    BY <1>11, <1>13 DEF mipos_t_notify_signal
  <2> HIDE DEF t
  <2>2. d.pending = task[t].pending \cup ({s} \cap task[t].mask)
    BY <1>0, <2>1 DEF TaskDesc
  <2> HIDE DEF d
  <2> QED BY <1>0, <2>1, <2>2, OtherPending DEF PendingChange
<1>14. ASSUME NEW id \in Tid, NEW s,
              \/ mipos_t_freeze(id) \/ mipos_t_unfreeze(id) \/ mipos_t_restart(id)
              \/ mipos_t_sig_ignore(id, s) \/ mipos_t_sig_allow(id, s)
       PROVE  \A u \in Tid : PendingChange(u)
  <2> DEFINE t == get_p_task(id)
             dS(S) == [task[t] EXCEPT !.status = S]
             dM(M) == [task[t] EXCEPT !.mask = M]
  <2>1. PICK S, M : task' = [task EXCEPT ![t] = dS(S)] \/ task' = [task EXCEPT ![t] = dM(M)]
    <3>1. CASE mipos_t_freeze(id)
      BY <3>1, Zenon DEF mipos_t_freeze
    <3>2. CASE mipos_t_unfreeze(id)
      BY <3>2, Zenon DEF mipos_t_unfreeze
    <3>3. CASE mipos_t_restart(id)
      BY <3>3, Zenon DEF mipos_t_restart
    <3>4. CASE mipos_t_sig_ignore(id, s)
      BY <3>4, Zenon DEF mipos_t_sig_ignore
    <3>5. CASE mipos_t_sig_allow(id, s)
      BY <3>5, Zenon DEF mipos_t_sig_allow
    <3> QED BY <1>14, <3>1, <3>2, <3>3, <3>4, <3>5
  <2>2. t \in Tid
    BY <1>11
  <2> HIDE DEF t
  <2>3. dS(S).pending = task[t].pending /\ dM(M).pending = task[t].pending
    BY <1>0, <2>2 DEF TaskDesc
  <2> HIDE DEF dS, dM
  <2> QED BY <1>0, <2>1, <2>2, <2>3, SamePending
<1>15. CASE KernelStep
  BY <1>15, <1>1, <1>2, <1>3, <1>4, <1>5 DEF KernelStep
<1>16. CASE YieldStep
  <2>1. ASSUME NEW S \in SUBSET Sig, mipos_t_waitfor_signal(S)
        PROVE  \A u \in Tid : PendingChange(u)
    <3>1. S \ SysSig \in SUBSET Sig
      OBVIOUS
    <3> QED BY <2>1, <3>1, <1>7 DEF mipos_t_waitfor_signal
  <2>2. CASE mipos_t_suspend
    <3>1. {"WKP"} \in SUBSET Sig
      BY DEF Sig, SysSig
    <3> QED BY <2>2, <3>1, <1>7 DEF mipos_t_suspend
  <2> QED BY <1>16, <2>1, <2>2, <1>8, <1>9 DEF YieldStep
<1>17. CASE SyscallStep
  BY <1>17, <1>10, <1>12, <1>13, <1>14 DEF SyscallStep
<1> QED BY <1>1, <1>15, <1>16, <1>17 DEF Next
-----------------------------------------------------------------------------
(* What the SUSPENDED branch of the TSM does to the pending signals: an    *)
(* expiry it raises is awaited and so is consumed at once.                 *)
LEMMA TsmPending ==
  ASSUME NEW d \in TaskDesc
  PROVE  LET e == TsmWake(TsmClocks(d)) IN
         /\ e.pending \subseteq d.pending
         /\ \A s \in d.pending \ e.pending :
              e.status = {"READY"} /\ e.wkup /\ s \in d.waiting
<1> DEFINE k == TsmClocks(d)
           e == TsmWake(k)
<1>1. k \in TaskDesc /\ k.waiting = d.waiting
  <2>1. k \in TaskDesc
    BY TsmTypes
  <2> QED BY <2>1 DEF TsmClocks, TaskDesc
<1>2. /\ d.pending \subseteq k.pending
      /\ k.pending \subseteq d.pending \cup d.waiting
  BY DEF TsmClocks, TaskDesc
<1> HIDE DEF k
<1>3. CASE k.pending \cap k.waiting = {}
  <2>1. e = k
    BY <1>3 DEF TsmWake
  <2> HIDE DEF e
  <2> QED BY <1>1, <1>2, <1>3, <2>1 DEF k, e
<1>4. CASE k.pending \cap k.waiting # {}
  <2>1. e.pending = k.pending \ k.waiting /\ e.status = {"READY"} /\ e.wkup
    BY <1>1, <1>4 DEF TsmWake, TaskDesc
  <2> HIDE DEF e
  <2> QED BY <1>1, <1>2, <2>1 DEF k, e
<1> QED BY <1>3, <1>4

(* docs/mipos-internals.md, "Sequence never matters": a pending signal is  *)
(* only ever dropped by waking its task, by its task's return from a wait  *)
(* that included it, or with its task.  This holds whatever calls the      *)
(* application makes.                                                      *)
THEOREM NoSignalLost == Spec => SignalsKept
<1> DEFINE Kept == \A t \in Tid : \A s \in task[t].pending \ task'[t].pending :
        \/ ~(task[t].entry /\ task'[t].entry)
        \/ task'[t].status = {"READY"} /\ task'[t].wkup /\ s \in task[t].waiting
        \/ pc' = "task" /\ tcp' = t /\ s \in task[t].ctxSig
<1>1. StatusInv /\ [Next]_vars => Kept
  <2> SUFFICES ASSUME StatusInv, [Next]_vars, NEW t \in Tid,
                      NEW s \in task[t].pending \ task'[t].pending
               PROVE  \/ ~(task[t].entry /\ task'[t].entry)
                      \/ task'[t].status = {"READY"} /\ task'[t].wkup /\ s \in task[t].waiting
                      \/ pc' = "task" /\ tcp' = t /\ s \in task[t].ctxSig
    OBVIOUS
  <2>1. PendingChange(t) /\ task[t] \in TaskDesc
    BY PendingStep DEF StatusInv, TypeOK
  <2>2. CASE task'[t] = TsmWake(TsmClocks(task[t]))
    BY <2>1, <2>2, TsmPending
  <2> QED BY <2>1, <2>2 DEF PendingChange
<1>2. SignalsKept <=> [][Kept]_vars
  BY DEF SignalsKept
<1> HIDE DEF Kept
<1> QED BY <1>1, <1>2, StatusInvariant, PTL DEF Spec

(* The TSM, case TASK_SUSPENDED: an application that does not send SIGALM  *)
(* or SIGTMR itself never finds one of them pending, so no delay is cut    *)
(* short by the expiry of an earlier one.                                  *)
THEOREM NoTimeoutLeftOver == Spec => []NoPhantomTimeout
<1>1. Init => NoPhantomTimeout
  <2> SUFFICES ASSUME Init, NEW t \in Tid PROVE task[t].pending = {}
    BY DEF NoPhantomTimeout
  <2>1. task[t] \in {EmptyDesc, t_create(EmptyDesc, FALSE),
                     [t_create(EmptyDesc, FALSE) EXCEPT !.mask = {}]}
    BY DEF Init
  <2>2. CASE task[t] = EmptyDesc
    BY <2>2 DEF EmptyDesc
  <2>3. CASE task[t] = t_create(EmptyDesc, FALSE)
    BY <2>3 DEF EmptyDesc, t_create
  <2>4. CASE task[t] = [t_create(EmptyDesc, FALSE) EXCEPT !.mask = {}]
    BY <2>4 DEF EmptyDesc, t_create
  <2> QED BY <2>1, <2>2, <2>3, <2>4, Zenon
<1>2. StatusInv /\ NoPhantomTimeout /\ [Next]_vars => NoPhantomTimeout'
  <2> SUFFICES ASSUME StatusInv, NoPhantomTimeout, [Next]_vars,
                      {"ALM", "TMR"} \cap NotifySig = {}, NEW t \in Tid
               PROVE  task'[t].pending \cap {"ALM", "TMR"} = {}
    BY DEF NoPhantomTimeout
  <2>1. /\ PendingChange(t) /\ task[t] \in TaskDesc
        /\ task[t].pending \cap {"ALM", "TMR"} = {}
    BY PendingStep DEF StatusInv, TypeOK, NoPhantomTimeout
  <2>2. CASE task'[t] = TsmWake(TsmClocks(task[t]))
    BY <2>1, <2>2, TsmPending
  <2> QED BY <2>1, <2>2 DEF PendingChange
<1> QED BY <1>1, <1>2, StatusInvariant, PTL DEF Spec
-----------------------------------------------------------------------------
(* Freezing.  No task freezes itself.                                      *)
NoSelfFreeze == Disciplined /\ "freeze_self" \notin Ops

(* The executing task is not frozen.                                       *)
ExecutingIsThawed == pc = "task" /\ own => "FROZEN" \notin task[tcp].status

(* What a step may do to a frozen task t.                                  *)
FrozenChange(t) ==
  task[t].entry /\ "FROZEN" \in task[t].status =>
    \/ ~task'[t].entry
    \/ \E id \in Tid : mipos_t_unfreeze(id) /\ get_p_task(id) = t
    \/ "FROZEN" \in task'[t].status /\ (tcp' = t => tcp = t)

(* Every step respects FROZEN, when no task freezes itself.                *)
LEMMA FrozenStep ==
  ASSUME NoSelfFreeze
  PROVE  ContextInv /\ ExecutingIsThawed /\ [Next]_vars
           => (\A t \in Tid : FrozenChange(t)) /\ ExecutingIsThawed'
<1> DEFINE Goal == (\A t \in Tid : FrozenChange(t)) /\ ExecutingIsThawed'
<1> SUFFICES ASSUME ContextInv, ExecutingIsThawed, [Next]_vars PROVE Goal
  OBVIOUS
<1>0. /\ task \in [Tid -> TaskDesc] /\ cur \in Tid /\ tcp \in Tid
      /\ \A t \in Tid : task[t] \in TaskDesc
      /\ pc = "task" /\ ~own => ~task[tcp].entry
  BY DEF ContextInv, StatusInv, TypeOK, ExecInv
<1>1. CASE \/ Scheduler \/ SearchTask \/ RtReturn \/ RtReturnBeyond \/ IdleReturn
           \/ mipos_update_rtc \/ UNCHANGED vars
  <2>1. UNCHANGED <<task, tcp>> /\ (pc' = "task" => pc = "task") /\ UNCHANGED own
    BY <1>1
        DEF Scheduler, SearchTask, RtReturn, RtReturnBeyond, IdleReturn, mipos_update_rtc, vars,
                SearchNext, Goto
  <2> QED BY <2>1 DEF FrozenChange, ExecutingIsThawed
<1>2. ASSUME NEW t \in Tid \ {IDLE}, RtReturnDpc(t) PROVE Goal
  <2>1. /\ task[t].status = {"SUSPENDED"} /\ pc' # "task" /\ UNCHANGED tcp
        /\ \A u \in Tid \ {t} : task'[u] = task[u]
    BY <1>2, <1>0 DEF RtReturnDpc, SearchNext, Goto, NoSelfFreeze, Disciplined
  <2> QED BY <2>1 DEF FrozenChange, ExecutingIsThawed
<1>3. ASSUME NEW st, TsmEnter(st), "FROZEN" \notin st, NEW d, task' = [task EXCEPT ![cur] = d],
             pc' = "task" => d.status = {"RUNNING"}
      PROVE  Goal
  <2>1. /\ "FROZEN" \notin task[cur].status /\ tcp' = cur /\ task'[cur] = d
        /\ \A u \in Tid \ {cur} : task'[u] = task[u]
    BY <1>3, <1>0 DEF TsmEnter
  <2> QED BY <1>3, <2>1 DEF FrozenChange, ExecutingIsThawed
<1>4. CASE TsmRunning
  BY <1>3, <1>4, Zenon DEF TsmRunning, Goto
<1>5. CASE TsmSuspended
  BY <1>3, <1>5, Zenon DEF TsmSuspended, Goto
<1>6. CASE DispatchStart
  <2> DEFINE d == [task[cur] EXCEPT !.status = {"RUNNING"}]
  <2>1. task' = [task EXCEPT ![cur] = d] /\ d.status = {"RUNNING"} /\ TsmEnter({"READY"})
    BY <1>6, <1>0 DEF DispatchStart, TaskDesc
  <2> HIDE DEF d
  <2> QED BY <1>3, <2>1, Zenon
<1>7. CASE DispatchResume
  <2> DEFINE r == reset_signal_and_run(task[cur], task[cur].ctxSig)
             d == [r EXCEPT !.wkup = FALSE]
  <2>1. task' = [task EXCEPT ![cur] = d] /\ TsmEnter({"READY"})
    BY <1>7 DEF DispatchResume
  <2>2. d.status = {"RUNNING"}
    <3>1. r \in TaskDesc
      <4>1. task[cur].ctxSig \in SUBSET Sig
        BY <1>0 DEF TaskDesc
      <4> QED BY <1>0, <4>1, DescTypes, Zenon
    <3>2. r.status = {"RUNNING"}
      BY <1>0 DEF reset_signal_and_run, TaskDesc
    <3> HIDE DEF r
    <3> QED BY <3>1, <3>2 DEF TaskDesc
  <2> HIDE DEF d
  <2> QED BY <1>3, <2>1, <2>2, Zenon
<1>8. CASE DispatchWild
  BY <1>3, <1>8, Zenon DEF DispatchWild, Goto
<1>9. CASE YieldStep
  <2>1. /\ pc = "task" /\ pc' # "task" /\ UNCHANGED tcp
        /\ \A u \in Tid \ {tcp} : task'[u] = task[u]
    BY <1>9, <1>0, Zenon
        DEF YieldStep, mipos_t_suspend, mipos_t_waitfor_signal, Suspend,
                      mipos_tm_wkafter, mipos_tm_sleep, TaskReturn, Yield, Goto
  <2> QED BY <1>0, <2>1 DEF FrozenChange, ExecutingIsThawed
<1>10. ASSUME NEW id \in Tid PROVE get_p_task(id) \in Tid
  BY <1>0 DEF get_p_task
<1>11. ASSUME NEW op, Syscall(op), NEW t \in Tid, NEW d, task' = [task EXCEPT ![t] = d],
              FrozenChange(t),
              pc = "task" /\ own' /\ t = tcp /\ "FROZEN" \in d.status
                => "FROZEN" \in task[t].status,
              own' => own
       PROVE  Goal
  <2>1. /\ UNCHANGED <<pc, tcp>> /\ task'[t] = d
        /\ \A u \in Tid \ {t} : task'[u] = task[u]
    BY <1>0, <1>11 DEF Syscall
  <2>2. ExecutingIsThawed'
    BY <1>0, <1>11, <2>1 DEF ExecutingIsThawed
  <2> QED BY <1>11, <2>1, <2>2 DEF FrozenChange
<1>12. ASSUME NEW t \in Tid, NEW isRt \in BOOLEAN, mipos_t_create(t, isRt) PROVE Goal
  <2>1. /\ ~task[t].entry /\ ~(pc = "task" /\ t = tcp) /\ UNCHANGED own
        /\ task' = [task EXCEPT ![t] = t_create(task[t], isRt)]
    BY <1>12 DEF mipos_t_create, FirstFree, NoSelfFreeze, Disciplined
  <2>2. PICK op : Syscall(op)
    BY <1>12 DEF mipos_t_create
  <2>3. FrozenChange(t)
    BY <2>1 DEF FrozenChange
  <2> QED BY <1>11, <2>1, <2>2, <2>3, Zenon
<1>13. ASSUME NEW id \in Tid, mipos_t_delete(id) PROVE Goal
  <2> DEFINE t == get_p_task(id)
             d == t_delete(task[t])
  <2>1. /\ Syscall("delete") /\ task' = [task EXCEPT ![t] = d]
        /\ own' = (own /\ ~(pc = "task" /\ t = tcp))
    BY <1>13 DEF mipos_t_delete
  <2>2. t \in Tid
    BY <1>10
  <2> HIDE DEF t
  <2>3. ~d.entry
    BY <1>0, <2>2 DEF t_delete, TaskDesc
  <2> HIDE DEF d
  <2>4. FrozenChange(t)
    BY <1>0, <2>1, <2>2, <2>3 DEF FrozenChange
  <2>5. own' => own /\ ~(pc = "task" /\ t = tcp)
    BY <2>1, Zenon
  <2> QED BY <1>11, <2>1, <2>2, <2>4, <2>5, Zenon
<1>14. ASSUME NEW id \in Tid, NEW s,
              \/ mipos_t_notify_signal(id, s)
              \/ mipos_t_sig_ignore(id, s) \/ mipos_t_sig_allow(id, s)
       PROVE  Goal
  <2> DEFINE t == get_p_task(id)
             dP(P) == [task[t] EXCEPT !.pending = P]
             dM(M) == [task[t] EXCEPT !.mask = M]
  <2>1. PICK op : Syscall(op) /\ UNCHANGED own
    BY <1>14 DEF mipos_t_notify_signal, mipos_t_sig_ignore, mipos_t_sig_allow
  <2>2. PICK P, M : task' = [task EXCEPT ![t] = dP(P)] \/ task' = [task EXCEPT ![t] = dM(M)]
    BY <1>14 DEF mipos_t_notify_signal, mipos_t_sig_ignore, mipos_t_sig_allow
  <2>3. t \in Tid
    BY <1>10
  <2>4. UNCHANGED tcp
    BY <2>1 DEF Syscall
  <2> HIDE DEF t
  <2>5. dP(P).status = task[t].status /\ dM(M).status = task[t].status
    BY <1>0, <2>3 DEF TaskDesc
  <2>6. PICK d : task' = [task EXCEPT ![t] = d] /\ d.status = task[t].status
    <3> HIDE DEF dP, dM
    <3> QED BY <2>2, <2>5
  <2>7. FrozenChange(t)
    BY <1>0, <2>3, <2>4, <2>6 DEF FrozenChange
  <2> QED BY <1>11, <2>1, <2>3, <2>6, <2>7, Zenon
<1>15. ASSUME NEW id \in Tid,
              mipos_t_freeze(id) \/ mipos_t_unfreeze(id) \/ mipos_t_restart(id)
       PROVE  Goal
  <2> DEFINE t == get_p_task(id)
             d(S) == [task[t] EXCEPT !.status = S]
  <2>1. PICK op : Syscall(op) /\ UNCHANGED own /\ UNCHANGED tcp
    BY <1>15 DEF mipos_t_freeze, mipos_t_unfreeze, mipos_t_restart, Syscall
  <2>2. t \in Tid
    BY <1>10
  <2>3. ASSUME NEW S, task' = [task EXCEPT ![t] = d(S)] PROVE task'[t].status = S
    BY <1>0, <2>2, <2>3 DEF TaskDesc
  <2>4. CASE mipos_t_freeze(id)
    <3> DEFINE S == task[t].status \cup {"FROZEN"}
    <3>1. task' = [task EXCEPT ![t] = d(S)] /\ ~(pc = "task" /\ t = tcp)
      BY <2>4 DEF mipos_t_freeze, Syscall, NoSelfFreeze
    <3>2. task'[t].status = S
      BY <2>3, <3>1, Zenon
    <3>3. FrozenChange(t)
      BY <2>1, <3>2 DEF FrozenChange
    <3> HIDE DEF t, d, S
    <3> QED BY <1>11, <2>1, <2>2, <3>1, <3>3, Zenon
  <2>5. CASE mipos_t_unfreeze(id)
    <3> DEFINE S == task[t].status \ {"FROZEN"}
    <3>1. task' = [task EXCEPT ![t] = d(S)]
      BY <2>5 DEF mipos_t_unfreeze
    <3>2. task'[t].status = S /\ d(S).status = S
      BY <1>0, <2>2, <2>3, <3>1
    <3>3. FrozenChange(t)
      BY <2>5 DEF FrozenChange
    <3>4. "FROZEN" \notin d(S).status
      BY <3>2
    <3> HIDE DEF t, d, S
    <3> QED BY <1>11, <2>1, <2>2, <3>1, <3>3, <3>4, Zenon
  <2>6. CASE mipos_t_restart(id)
    <3> DEFINE S == IF task[t].entry /\ task[t].status = {"ZOMBIE"}
                      THEN {"READY"} ELSE task[t].status
    <3>1. task' = [task EXCEPT ![t] = d(S)]
      BY <2>6 DEF mipos_t_restart
    <3>2. task'[t].status = S /\ d(S).status = S
      BY <1>0, <2>2, <2>3, <3>1
    <3>3. FrozenChange(t)
      BY <2>1, <3>2 DEF FrozenChange
    <3>4. "FROZEN" \in d(S).status => "FROZEN" \in task[t].status
      BY <3>2
    <3> HIDE DEF t, d, S
    <3> QED BY <1>11, <2>1, <2>2, <3>1, <3>3, <3>4, Zenon
  <2> QED BY <1>15, <2>4, <2>5, <2>6
<1>16. CASE KernelStep
  BY <1>16, <1>1, <1>2, <1>4, <1>5, <1>6, <1>7, <1>8 DEF KernelStep
<1>17. CASE SyscallStep
  BY <1>17, <1>12, <1>13, <1>14, <1>15 DEF SyscallStep
<1> QED BY <1>1, <1>9, <1>16, <1>17 DEF Next

(* mipos_t_freeze, TASK_FROZEN "not more scheduled": if no task freezes    *)
(* itself, a frozen task stays frozen and is not executed until it is      *)
(* unfrozen or deleted.  kernel_self_freeze shows that the condition is    *)
(* needed.                                                                 *)
THEOREM FrozenStaysFrozen ==
  ASSUME NoSelfFreeze
  PROVE  Spec => FrozenUntilUnfrozen
<1> DEFINE Kept == \A t \in Tid : FrozenChange(t)
<1>1. Init => ExecutingIsThawed
  BY DEF Init, ExecutingIsThawed
<1>2. ContextInv /\ ExecutingIsThawed /\ [Next]_vars => Kept /\ ExecutingIsThawed'
  BY FrozenStep
<1>3. Disciplined
  BY DEF NoSelfFreeze
<1>4. Spec => []ContextInv
  BY <1>3, ContextInvariant
<1>5. FrozenUntilUnfrozen <=> [][Kept]_vars
  BY DEF FrozenUntilUnfrozen, FrozenChange
<1> HIDE DEF Kept
<1> QED BY <1>1, <1>2, <1>4, <1>5, PTL DEF Spec
=============================================================================
