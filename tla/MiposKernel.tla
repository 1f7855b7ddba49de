---------------------------- MODULE MiposKernel ----------------------------
(***************************************************************************)
(* The mipOS kernel: the task table, the round-robin search, the Task      *)
(* State Machine (TSM), the dispatcher, signals, tick and RTC sleeps.      *)
(* Source: mipos_kernel.c, mipos_kernel.h, mipos_task.c, mipos_types.h.    *)
(*                                                                         *)
(* The kernel is one thread of control.  pc names the place it is at:      *)
(*   "scheduler"  the label scheduler: (soft timers run their callbacks)   *)
(*   "search"     the do/while that looks for the next task                *)
(*   "rt"         inside the entry point of a real-time task               *)
(*   "idle"       inside the idle task                                     *)
(*   "tsm"        the switch on the status of the selected task            *)
(*   "task"       inside a task, on its own stack                          *)
(*   "wild"       control lost: a longjmp to a context that is not live,   *)
(*                or a write outside of the table                          *)
(* What a task body does is not modelled: between two kernel steps it may  *)
(* make any of the calls in Ops.  Only mipos_update_rtc is asynchronous.   *)
(***************************************************************************)
EXTENDS Integers

CONSTANTS
  TBL,         \* MIPOS_TASKS_TBL_ENTRIES_CNT
  Ops,         \* what the application uses, see AllOps
  UserSig,     \* MIPOS_SIGUSRx
  NotifySig,   \* the signals the application sends
  TickCounts,  \* arguments of mipos_tm_wkafter
  SleepCounts, \* arguments of mipos_tm_msleep and mipos_tm_usleep
  MaxRtc,      \* bound: the RTC stops here
  MaxCalls     \* bound: non-blocking calls between two scheduling points

SysSig == {"WKP", "QUE", "ALM", "TMR"}

Sig == SysSig \cup UserSig

(* "freeze_self": a task freezes itself.  "dpc": a real-time task returns  *)
(* the id of a task that is suspended; "dpc_any": it returns any value.    *)
(* "reuse_own_slot": a task deletes itself and creates another task before *)
(* it yields.                                                              *)
AllOps == {"create", "create_rt", "delete", "restart", "notify", "sig_mask",
           "freeze", "freeze_self", "unfreeze", "suspend", "waitfor",
           "wkafter", "sleep", "timer_cbk", "idle_cbk", "dpc", "dpc_any",
           "reuse_own_slot"}

ASSUME KernelAssumption ==
  /\ TBL \in Nat /\ TBL >= 2
  /\ Ops \subseteq AllOps
  /\ NotifySig \subseteq Sig
  /\ TickCounts \subseteq Nat
  /\ SleepCounts \subseteq Nat
  /\ MaxRtc \in Nat
  /\ MaxCalls \in Nat

Tid == 0 .. TBL - 1
IDLE == 0

(* The bits of task_status_t.  A status is a set of bits.                  *)
Bits == {"NOT_RUNNING", "READY", "RUNNING", "SUSPENDED", "ZOMBIE", "FROZEN"}

(* mipos_task_t.  entry: entry_point is set.  ctx: what reg_state holds:   *)
(* "own", a suspended execution of the task in this slot; "other", one of  *)
(* a deleted task that had this slot; "dead", nothing that can be resumed. *)
(* ctxSig: the _SIGNUM of the blocking call that saved reg_state.          *)
TaskDesc ==
  [entry : BOOLEAN, status : SUBSET Bits, wkup : BOOLEAN, rt : BOOLEAN,
   tick : Nat, timeout : Nat,
   mask : SUBSET Sig, pending : SUBSET Sig, waiting : SUBSET Sig,
   ctx : {"own", "other", "dead"}, ctxSig : SUBSET Sig]

VARIABLES
  task,   \* task_table
  cur,    \* current_task
  tcp,    \* task_context_ptr, as an index
  count,  \* task_count of the search
  rtc,    \* rtc_counter
  pc,     \* where the kernel is
  own,    \* the running code belongs to the task in slot tcp
  calls   \* non-blocking calls since the last kernel step

vars == <<task, cur, tcp, count, rtc, pc, own, calls>>
-----------------------------------------------------------------------------
(* The macros on a task descriptor d.                                      *)

t_create(d, isRt) ==
  [d EXCEPT !.entry = TRUE, !.mask = Sig, !.pending = {}, !.waiting = {},
            !.tick = 0, !.timeout = 0, !.status = {"READY"},
            !.wkup = FALSE, !.rt = isRt]

t_delete(d) ==
  [d EXCEPT !.entry = FALSE, !.mask = {}, !.pending = {}, !.waiting = {},
            !.status = {"NOT_RUNNING"}, !.wkup = FALSE, !.rt = FALSE,
            !.tick = 0,
            !.ctx = IF d.ctx = "own" THEN "other" ELSE d.ctx]

(* Mutant: the signals of the finished wait are left in signal_waiting.    *)
reset_signal_leaves_waiting(d, S) ==
  [d EXCEPT !.status = {"RUNNING"}, !.pending = @ \ S]

reset_signal_and_run(d, S) ==
  [d EXCEPT !.status = {"RUNNING"}, !.waiting = @ \ S, !.pending = @ \ S]

(* Mutant: a task that is RUNNING is not marked SUSPENDED.                 *)
set_wait_skips_running(d, S) ==
  [d EXCEPT !.waiting = @ \cup S,
            !.status = IF @ \cap {"READY", "SUSPENDED"} # {}
                         THEN {"SUSPENDED"} ELSE @]

(* Mutant: the wait starts by discarding what is pending.                  *)
set_wait_clears_pending(d, S) ==
  [d EXCEPT !.waiting = @ \cup S, !.pending = @ \ S,
            !.status = IF @ \cap {"READY", "RUNNING", "SUSPENDED"} # {}
                         THEN {"SUSPENDED"} ELSE @]

set_wait_for_signal(d, S) ==
  [d EXCEPT !.waiting = @ \cup S,
            !.status = IF @ \cap {"READY", "RUNNING", "SUSPENDED"} # {}
                         THEN {"SUSPENDED"} ELSE @]

save_context(d, S) ==
  [d EXCEPT !.ctx = IF own THEN "own" ELSE "other", !.ctxSig = S]

EmptyDesc ==
  [entry |-> FALSE, status |-> {"NOT_RUNNING"}, wkup |-> FALSE, rt |-> FALSE,
   tick |-> 0, timeout |-> 0, mask |-> {}, pending |-> {}, waiting |-> {},
   ctx |-> "dead", ctxSig |-> {}]

(* scheduler_init, then mipos_start creates the root task in slot 1.       *)
Init ==
  /\ task = [t \in Tid |->
               CASE t = IDLE -> [t_create(EmptyDesc, FALSE) EXCEPT !.mask = {}]
                 [] t = 1    -> t_create(EmptyDesc, FALSE)
                 [] OTHER    -> EmptyDesc]
  /\ cur = IDLE
  /\ tcp = IDLE
  /\ count = 0
  /\ rtc = 0
  /\ pc = "scheduler"
  /\ own = TRUE
  /\ calls = 0
-----------------------------------------------------------------------------
(* The scheduler.                                                          *)

Goto(label) == pc' = label /\ calls' = 0

(* The label scheduler, up to the search.  The callbacks of soft timers    *)
(* are the calls made while pc = "scheduler".                              *)
Scheduler ==
  /\ pc = "scheduler"
  /\ Goto("search")
  /\ count' = 0
  /\ UNCHANGED <<task, cur, tcp, rtc, own>>

(* Mutants of the search condition: no FROZEN, no ZOMBIE, no rule for the  *)
(* idle task, idle after two sweeps only, idle never.                      *)
SkippedNotFrozen(T, c, n) ==
  \/ ~T[c].entry
  \/ T[c].rt
  \/ T[c].status \cap {"NOT_RUNNING", "ZOMBIE"} # {}
  \/ n <= TBL /\ c = IDLE

SkippedNotZombie(T, c, n) ==
  \/ ~T[c].entry
  \/ T[c].rt
  \/ T[c].status \cap {"NOT_RUNNING", "FROZEN"} # {}
  \/ n <= TBL /\ c = IDLE

SkippedNotIdle(T, c, n) ==
  \/ ~T[c].entry
  \/ T[c].rt
  \/ T[c].status \cap {"NOT_RUNNING", "ZOMBIE", "FROZEN"} # {}

SkippedTwoSweeps(T, c, n) ==
  \/ ~T[c].entry
  \/ T[c].rt
  \/ T[c].status \cap {"NOT_RUNNING", "ZOMBIE", "FROZEN"} # {}
  \/ n <= 2 * TBL /\ c = IDLE

SkippedIdleAlways(T, c, n) ==
  \/ ~T[c].entry
  \/ T[c].rt
  \/ T[c].status \cap {"NOT_RUNNING", "ZOMBIE", "FROZEN"} # {}
  \/ c = IDLE

(* The condition of the search loop, for task table T, index c, n visits.  *)
Skipped(T, c, n) ==
  \/ ~T[c].entry
  \/ T[c].rt
  \/ T[c].status \cap {"NOT_RUNNING", "ZOMBIE", "FROZEN"} # {}
  \/ n <= TBL /\ c = IDLE

(* The end of one pass of the search loop.                                 *)
SearchNext(T, c, n) ==
  Goto(IF Skipped(T, c, n) THEN "search" ELSE IF c = IDLE THEN "idle" ELSE "tsm")

(* count is compared with TBL only: it saturates above 2 * TBL.            *)
Visits == IF count > 2 * TBL THEN count ELSE count + 1

(* Mutant: every search starts again from slot 1.                          *)
SearchTaskFromFirst ==
  /\ pc = "search"
  /\ count' = Visits
  /\ cur' = count' % TBL
  /\ IF task[cur'].rt THEN Goto("rt") ELSE SearchNext(task, cur', count')
  /\ UNCHANGED <<task, tcp, rtc, own>>

(* One pass of the search loop.  A real-time task runs its entry point.    *)
SearchTask ==
  /\ pc = "search"
  /\ count' = Visits
  /\ cur' = (cur + 1) % TBL
  /\ IF task[cur'].rt THEN Goto("rt") ELSE SearchNext(task, cur', count')
  /\ UNCHANGED <<task, tcp, rtc, own>>

(* The real-time task returns 0: the same pass goes on with its slot.      *)
RtReturn ==
  /\ pc = "rt"
  /\ SearchNext(task, cur, count)
  /\ UNCHANGED <<task, cur, tcp, count, rtc, own>>

(* It returns the id t: task t is made READY, to be resumed, and the same  *)
(* pass goes on with slot t.  A real-time task t is then skipped.          *)
RtReturnDpc(t) ==
  /\ pc = "rt"
  /\ \/ "dpc_any" \in Ops
     \/ "dpc" \in Ops /\ task[t].status = {"SUSPENDED"}
  /\ cur' = t
  /\ task' = [task EXCEPT ![t].wkup = TRUE, ![t].status = {"READY"}]
  /\ SearchNext(task', t, count)
  /\ UNCHANGED <<tcp, count, rtc, own>>

(* It returns a value that is no id: the value is not compared with the    *)
(* size of the table, and the kernel writes outside of it.                 *)
RtReturnBeyond ==
  /\ pc = "rt"
  /\ "dpc_any" \in Ops
  /\ Goto("wild")
  /\ UNCHANGED <<task, cur, tcp, count, rtc, own>>

(* The idle task returns.                                                  *)
IdleReturn ==
  /\ pc = "idle"
  /\ Goto("scheduler")
  /\ UNCHANGED <<task, cur, tcp, count, rtc, own>>
-----------------------------------------------------------------------------
(* The Task State Machine and the dispatcher.                              *)

(* Every branch of the TSM starts by moving task_context_ptr.              *)
TsmEnter(status) ==
  /\ pc = "tsm"
  /\ task[cur].status = status
  /\ tcp' = cur
  /\ UNCHANGED <<cur, count, rtc>>

(* The entry point of the task had returned.                               *)
TsmRunning ==
  /\ TsmEnter({"RUNNING"})
  /\ task' = [task EXCEPT ![cur].status = {"ZOMBIE"}]
  /\ Goto("scheduler")
  /\ UNCHANGED own

(* Mutant: the tick counter is decremented without the test for 0.         *)
TsmClocksUnderflow(d) ==
  [d EXCEPT !.tick = IF "ALM" \in d.waiting THEN @ - 1 ELSE @,
            !.pending = @ \cup (IF "ALM" \in d.waiting /\ d.tick = 0
                                  THEN {"ALM"} ELSE {})]

(* Mutant: a deadline is met only at its very tick.                        *)
TsmClocksExactly(d) ==
  LET alarm == "ALM" \in d.waiting
      timer == "TMR" \in d.waiting /\ d.timeout # 0 /\ rtc = d.timeout
  IN [d EXCEPT
        !.tick = IF alarm /\ @ > 0 THEN @ - 1 ELSE @,
        !.timeout = IF timer THEN 0 ELSE @,
        !.pending = @ \cup (IF alarm /\ d.tick = 0 THEN {"ALM"} ELSE {})
                      \cup (IF timer THEN {"TMR"} ELSE {})]

(* The two clocks of a suspended task: SIGALM counts the visits, SIGTMR    *)
(* compares the RTC with a deadline that is not 0.                         *)
TsmClocks(d) ==
  LET alarm == "ALM" \in d.waiting
      timer == "TMR" \in d.waiting /\ d.timeout # 0 /\ rtc >= d.timeout
  IN [d EXCEPT
        !.tick = IF alarm /\ @ > 0 THEN @ - 1 ELSE @,
        !.timeout = IF timer THEN 0 ELSE @,
        !.pending = @ \cup (IF alarm /\ d.tick = 0 THEN {"ALM"} ELSE {})
                      \cup (IF timer THEN {"TMR"} ELSE {})]

(* Mutants: the signal that wakes is not consumed; it is consumed and the  *)
(* task is left SUSPENDED.                                                 *)
TsmWakeKeepsSignal(d) ==
  IF d.pending \cap d.waiting # {}
    THEN [d EXCEPT !.wkup = TRUE, !.status = {"READY"}]
    ELSE d

TsmWakeLosesSignal(d) == [d EXCEPT !.pending = @ \ d.waiting]

(* An awaited signal that is pending is consumed and the task made READY.  *)
TsmWake(d) ==
  IF d.pending \cap d.waiting # {}
    THEN [d EXCEPT !.wkup = TRUE, !.status = {"READY"},
                   !.pending = @ \ d.waiting]
    ELSE d

TsmSuspended ==
  /\ TsmEnter({"SUSPENDED"})
  /\ task' = [task EXCEPT ![cur] = TsmWake(TsmClocks(@))]
  /\ Goto("scheduler")
  /\ UNCHANGED own

(* First execution: the entry point is called on the stack of the task.    *)
DispatchStart ==
  /\ TsmEnter({"READY"})
  /\ ~task[cur].wkup
  /\ task' = [task EXCEPT ![cur].status = {"RUNNING"}]
  /\ Goto("task")
  /\ own' = TRUE

(* The task was suspended: longjmp to reg_state; the blocking call that    *)
(* saved it resets its signals and returns to its caller.                  *)
DispatchResume ==
  /\ TsmEnter({"READY"})
  /\ task[cur].wkup
  /\ task[cur].ctx # "dead"
  /\ task' = [task EXCEPT ![cur] =
                [reset_signal_and_run(@, @.ctxSig) EXCEPT !.wkup = FALSE]]
  /\ Goto("task")
  /\ own' = (task[cur].ctx = "own")

(* longjmp to a reg_state that was never saved or whose stack is gone.     *)
DispatchWild ==
  /\ TsmEnter({"READY"})
  /\ task[cur].wkup
  /\ task[cur].ctx = "dead"
  /\ task' = [task EXCEPT ![cur].status = {"RUNNING"}, ![cur].wkup = FALSE]
  /\ Goto("wild")
  /\ UNCHANGED own
-----------------------------------------------------------------------------
(* The calls of a task that give the CPU away.                             *)

Yield ==
  /\ pc = "task"
  /\ Goto("scheduler")
  /\ own' = TRUE
  /\ UNCHANGED <<cur, tcp, count, rtc>>

(* _mipos_t_suspend: mipos_t_suspend, mipos_t_waitfor_signal (which strips *)
(* the reserved signals), and the wait of mipos_q_receive.                 *)
Suspend(S) ==
  /\ Yield
  /\ task' = [task EXCEPT ![tcp] =
                set_wait_for_signal(save_context(@, S), S)]

mipos_t_suspend == "suspend" \in Ops /\ Suspend({"WKP"})

mipos_t_waitfor_signal(S) == "waitfor" \in Ops /\ Suspend(S \ SysSig)

(* Mutant: the context is not saved.                                       *)
wkafter_without_save(n) ==
  /\ "wkafter" \in Ops
  /\ Yield
  /\ task' = [task EXCEPT ![tcp] =
                [set_wait_for_signal(@, {"ALM"}) EXCEPT !.tick = n]]

mipos_tm_wkafter(n) ==
  /\ "wkafter" \in Ops
  /\ Yield
  /\ task' = [task EXCEPT ![tcp] =
                [set_wait_for_signal(save_context(@, {"ALM"}), {"ALM"})
                   EXCEPT !.tick = n]]

(* _mipos_tm_rtc_quantum_sleep.  The deadlines stay within the RTC's bound.*)
mipos_tm_sleep(n) ==
  /\ "sleep" \in Ops
  /\ rtc + n <= MaxRtc
  /\ Yield
  /\ task' = [task EXCEPT ![tcp] =
                [set_wait_for_signal(save_context(@, {"TMR"}), {"TMR"})
                   EXCEPT !.timeout = rtc + n]]

(* The entry point returns: its stack frame is gone, its status is left.   *)
TaskReturn ==
  /\ Yield
  /\ task' = [task EXCEPT ![tcp].ctx = "dead"]
-----------------------------------------------------------------------------
(* The calls that do not block.  A real-time task, a timer callback and    *)
(* the idle callback make them as well; there is no callback before a task *)
(* has run.                                                                *)

Syscall(op) ==
  /\ op \in Ops
  /\ \/ pc \in {"task", "rt"}
     \/ pc = "scheduler" /\ "timer_cbk" \in Ops /\ tcp # IDLE
     \/ pc = "idle" /\ "idle_cbk" \in Ops /\ tcp # IDLE
  /\ calls < MaxCalls
  /\ calls' = calls + 1
  /\ UNCHANGED <<cur, tcp, count, rtc, pc>>

(* _mipos_get_p_task: the id 0 is the task of task_context_ptr.            *)
get_p_task(id) == IF id = 0 THEN tcp ELSE id

(* The first slot whose entry_point is null.  Without one the call fails   *)
(* and changes nothing.                                                    *)
FirstFree(t) ==
  /\ t \in Tid \ {IDLE}
  /\ ~task[t].entry
  /\ \A u \in 1 .. t - 1 : task[u].entry

mipos_t_create(t, isRt) ==
  /\ Syscall(IF isRt THEN "create_rt" ELSE "create")
  /\ FirstFree(t)
  /\ (pc = "task" /\ t = tcp) => "reuse_own_slot" \in Ops
  /\ task' = [task EXCEPT ![t] = t_create(@, isRt)]
  /\ UNCHANGED own

mipos_t_delete(id) ==
  /\ Syscall("delete")
  /\ task' = [task EXCEPT ![get_p_task(id)] = t_delete(@)]
  /\ own' = (own /\ ~(pc = "task" /\ get_p_task(id) = tcp))

mipos_t_notify_signal(id, s) ==
  /\ Syscall("notify")
  /\ task' = [task EXCEPT ![get_p_task(id)].pending =
                @ \cup ({s} \cap task[get_p_task(id)].mask)]
  /\ UNCHANGED own

mipos_t_freeze(id) ==
  /\ Syscall(IF pc = "task" /\ get_p_task(id) = tcp THEN "freeze_self" ELSE "freeze")
  /\ task' = [task EXCEPT ![get_p_task(id)].status = @ \cup {"FROZEN"}]
  /\ UNCHANGED own

mipos_t_unfreeze(id) ==
  /\ Syscall("unfreeze")
  /\ task' = [task EXCEPT ![get_p_task(id)].status = @ \ {"FROZEN"}]
  /\ UNCHANGED own

(* Mutant: the test of the status is on the ZOMBIE bit.                    *)
restart_tests_bit(id) ==
  /\ Syscall("restart")
  /\ LET t == get_p_task(id) IN
       task' = [task EXCEPT ![t].status =
                  IF task[t].entry /\ "ZOMBIE" \in @ THEN {"READY"} ELSE @]
  /\ UNCHANGED own

(* Mutant: a restarted task is resumed as a suspended one is.              *)
restart_wakes(id) ==
  /\ Syscall("restart")
  /\ LET t == get_p_task(id) IN
       task' = [task EXCEPT
                  ![t].wkup = @ \/ (task[t].entry /\ task[t].status = {"ZOMBIE"}),
                  ![t].status = IF task[t].entry /\ @ = {"ZOMBIE"}
                                  THEN {"READY"} ELSE @]
  /\ UNCHANGED own

(* mipos_t_restart and mipos_t_restart_with_param.                         *)
mipos_t_restart(id) ==
  /\ Syscall("restart")
  /\ LET t == get_p_task(id) IN
       task' = [task EXCEPT ![t].status =
                  IF task[t].entry /\ @ = {"ZOMBIE"} THEN {"READY"} ELSE @]
  /\ UNCHANGED own

mipos_t_sig_ignore(id, s) ==
  /\ Syscall("sig_mask")
  /\ task' = [task EXCEPT ![get_p_task(id)].mask = @ \ ({s} \ SysSig)]
  /\ UNCHANGED own

mipos_t_sig_allow(id, s) ==
  /\ Syscall("sig_mask")
  /\ task' = [task EXCEPT ![get_p_task(id)].mask = @ \cup ({s} \ SysSig)]
  /\ UNCHANGED own

(* The interrupt, or the epoch hook, that advances the RTC.                *)
mipos_update_rtc ==
  /\ rtc < MaxRtc
  /\ rtc' = rtc + 1
  /\ UNCHANGED <<task, cur, tcp, count, pc, own, calls>>
-----------------------------------------------------------------------------
KernelStep ==
  \/ Scheduler \/ SearchTask \/ RtReturn \/ IdleReturn
  \/ RtReturnBeyond \/ \E t \in Tid \ {IDLE} : RtReturnDpc(t)
  \/ TsmRunning \/ TsmSuspended
  \/ DispatchStart \/ DispatchResume \/ DispatchWild

YieldStep ==
  \/ mipos_t_suspend
  \/ \E S \in SUBSET Sig : mipos_t_waitfor_signal(S)
  \/ \E n \in TickCounts : mipos_tm_wkafter(n)
  \/ \E n \in SleepCounts : mipos_tm_sleep(n)
  \/ TaskReturn

SyscallStep ==
  \/ \E t \in Tid, isRt \in BOOLEAN : mipos_t_create(t, isRt)
  \/ \E id \in Tid :
       \/ mipos_t_delete(id)
       \/ mipos_t_freeze(id)
       \/ mipos_t_unfreeze(id)
       \/ mipos_t_restart(id)
       \/ \E s \in NotifySig : mipos_t_notify_signal(id, s)
       \/ \E s \in UserSig : mipos_t_sig_ignore(id, s)
       \/ \E s \in UserSig : mipos_t_sig_allow(id, s)

Next == KernelStep \/ YieldStep \/ SyscallStep \/ mipos_update_rtc

Spec == Init /\ [][Next]_vars

(* The kernel loop never stops, every task comes to its next yield (the    *)
(* cooperative contract; MaxCalls bounds the calls before it) and time     *)
(* passes.                                                                 *)
FairSpec ==
  /\ Spec
  /\ WF_vars(KernelStep \/ YieldStep \/ SyscallStep)
  /\ WF_vars(mipos_update_rtc)
-----------------------------------------------------------------------------
(* Properties.                                                             *)

(* Type invariant: the task table and the kernel's own variables keep      *)
(* their types (mipos_task_t and mipos_kernel_t of mipos_types.h).         *)
TypeOK ==
  /\ task \in [Tid -> TaskDesc]
  /\ cur \in Tid
  /\ tcp \in Tid
  /\ count \in 0 .. 2 * TBL + 1
  /\ rtc \in 0 .. MaxRtc
  /\ pc \in {"scheduler", "search", "rt", "idle", "tsm", "task", "wild"}
  /\ own \in BOOLEAN
  /\ calls \in 0 .. MaxCalls

(* The switch of the TSM never reaches KERNEL__PANIC (mipos_kernel.c,      *)
(* "unexpected task status"): whatever freezes, deletes, restarts and      *)
(* wakes have happened, the selected task has a status the switch handles. *)
TsmNeverPanics ==
  pc = "tsm" => task[cur].status \in {{"RUNNING"}, {"SUSPENDED"}, {"READY"}}

(* A task that is suspended, or that the dispatcher will resume by longjmp,*)
(* has in reg_state its own suspended execution: not nothing, and not that *)
(* of a deleted task that had the slot before.                             *)
OwnContext ==
  \A t \in Tid :
    task[t].wkup \/ "SUSPENDED" \in task[t].status => task[t].ctx = "own"

(* The TSM retires a task it finds RUNNING.  That is right because a task  *)
(* that is not executing and is marked RUNNING, or is already a ZOMBIE,    *)
(* has returned from its entry point: it has no suspended execution.       *)
RetiredHasReturned ==
  \A t \in Tid :
    /\ "RUNNING" \in task[t].status => (pc = "task" /\ t = tcp) \/ task[t].ctx = "dead"
    /\ "ZOMBIE" \in task[t].status => task[t].ctx = "dead"

(* What a suspended or woken task waits for is exactly what its last       *)
(* blocking call asked for, with nothing left over from earlier waits, and *)
(* the signals reserved to the kernel always get through its mask.         *)
WaitMatchesCall ==
  \A t \in Tid :
    "SUSPENDED" \in task[t].status \/ task[t].wkup =>
      /\ task[t].waiting = task[t].ctxSig
      /\ task[t].waiting \cap SysSig \subseteq task[t].mask

(* A timeout is never left pending: unless the application itself sends    *)
(* SIGALM or SIGTMR, every expiry is consumed by the wait it belongs to,   *)
(* so a later delay cannot be cut short by an earlier one.                 *)
NoPhantomTimeout ==
  {"ALM", "TMR"} \cap NotifySig = {} =>
    \A t \in Tid : task[t].pending \cap {"ALM", "TMR"} = {}

(* The idle task is entered only when no other task can be scheduled, for  *)
(* applications without real-time tasks (mipos_set_idle_cbk: "there are no *)
(* tasks to process").                                                     *)
IdleMeansNothingToRun ==
  pc = "idle" /\ calls = 0 =>
    \A t \in Tid \ {IDLE} : Skipped(task, t, count)

(* The search for a task visits each slot at most twice.                   *)
SearchBounded == count <= 2 * TBL

(* A pending signal is dropped only when it wakes its task, when the task  *)
(* comes back from a wait that included it, or with the task itself: a     *)
(* signal sent before the wait is not lost.                                *)
SignalsKept ==
  [][\A t \in Tid : \A s \in task[t].pending \ task'[t].pending :
        \/ ~(task[t].entry /\ task'[t].entry)
        \/ task'[t].status = {"READY"} /\ task'[t].wkup /\ s \in task[t].waiting
        \/ pc' = "task" /\ tcp' = t /\ s \in task[t].ctxSig]_vars

(* A frozen task stays frozen, and is not executed, until it is unfrozen   *)
(* or deleted (TASK_FROZEN, "not more scheduled").                         *)
FrozenUntilUnfrozen ==
  [][\A t \in Tid :
       task[t].entry /\ "FROZEN" \in task[t].status =>
         \/ ~task'[t].entry
         \/ \E id \in Tid : mipos_t_unfreeze(id) /\ get_p_task(id) = t
         \/ "FROZEN" \in task'[t].status /\ (tcp' = t => tcp = t)]_vars

(* Task t itself is executing.                                             *)
Running(t) == pc = "task" /\ tcp = t /\ own

Unschedulable(t) == ~task[t].entry \/ "FROZEN" \in task[t].status

(* A suspended task with an awaited signal pending comes to run, unless it *)
(* is frozen or deleted on the way.                                        *)
WakeupDelivered ==
  \A t \in Tid \ {IDLE} :
    ("SUSPENDED" \in task[t].status /\ task[t].pending \cap task[t].waiting # {})
      ~> (Running(t) \/ Unschedulable(t))

(* A task that is ready comes to run, unless it is frozen or deleted: the  *)
(* round robin starves nobody.                                             *)
ReadyRuns ==
  \A t \in Tid \ {IDLE} :
    (task[t].status = {"READY"} /\ ~task[t].rt) ~> (Running(t) \/ Unschedulable(t))

(* Every mipos_tm_wkafter, mipos_tm_msleep and mipos_tm_usleep returns,    *)
(* unless the task is frozen or deleted in its sleep.                      *)
DelayEnds ==
  \A t \in Tid \ {IDLE} :
    ("SUSPENDED" \in task[t].status /\ task[t].waiting \cap {"ALM", "TMR"} # {})
      ~> (Running(t) \/ Unschedulable(t))

(* Every search ends: it finds a task or selects the idle task.            *)
SearchEnds == (pc = "search") ~> (pc \in {"tsm", "idle"})
=============================================================================
