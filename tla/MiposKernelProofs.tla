------------------------- MODULE MiposKernelProofs -------------------------
(***************************************************************************)
(* Proofs about MiposKernel, for a task table of any size and any set of   *)
(* calls made by the application.                                          *)
(***************************************************************************)
EXTENDS MiposKernel, TLAPS

BaseBits == Bits \ {"FROZEN"}

(* A status is one base bit, with or without FROZEN.                       *)
StatusShape(S) == \E b \in BaseBits : S = {b} \/ S = {b, "FROZEN"}

(* What the search guarantees to the TSM about the slot it selected.       *)
Selected == pc = "tsm" => cur # IDLE /\ ~Skipped(task, cur, count)

(* The inductive invariant behind TypeOK and TsmNeverPanics.               *)
StatusInv ==
  /\ TypeOK
  /\ \A t \in Tid : StatusShape(task[t].status)
  /\ Selected
-----------------------------------------------------------------------------
(* The operators on descriptors return descriptors.                        *)
LEMMA DescTypes ==
  ASSUME NEW d \in TaskDesc, NEW S \in SUBSET Sig, NEW b \in BOOLEAN
  PROVE  /\ t_create(d, b) \in TaskDesc
         /\ t_delete(d) \in TaskDesc
         /\ reset_signal_and_run(d, S) \in TaskDesc
         /\ set_wait_for_signal(d, S) \in TaskDesc
         /\ save_context(d, S) \in TaskDesc
         /\ EmptyDesc \in TaskDesc
<1>1. t_create(d, b) \in TaskDesc
  BY Zenon DEF TaskDesc, t_create, Bits
<1>2. t_delete(d) \in TaskDesc
  BY ZenonT(40) DEF TaskDesc, t_delete, Bits
<1>3. reset_signal_and_run(d, S) \in TaskDesc
  BY Zenon DEF TaskDesc, reset_signal_and_run, Bits
<1>4. set_wait_for_signal(d, S) \in TaskDesc
  BY Zenon DEF TaskDesc, set_wait_for_signal, Bits
<1>5. save_context(d, S) \in TaskDesc
  BY Zenon DEF TaskDesc, save_context
<1>6. EmptyDesc \in TaskDesc
  BY DEF TaskDesc, EmptyDesc, Bits
<1> QED BY <1>1, <1>2, <1>3, <1>4, <1>5, <1>6

(* So do the two halves of the SUSPENDED branch of the TSM.                *)
LEMMA TsmTypes ==
  ASSUME NEW d \in TaskDesc
  PROVE  TsmClocks(d) \in TaskDesc /\ TsmWake(d) \in TaskDesc
<1>1. /\ d.tick \in Nat /\ d.timeout \in Nat
      /\ d.pending \subseteq Sig /\ {"ALM", "TMR"} \subseteq Sig
  BY DEF TaskDesc, Sig, SysSig
<1>2. TsmClocks(d) \in TaskDesc
  <2> DEFINE alarm == "ALM" \in d.waiting
             timer == "TMR" \in d.waiting /\ d.timeout # 0 /\ rtc >= d.timeout
             k == IF alarm /\ d.tick > 0 THEN d.tick - 1 ELSE d.tick
             m == IF timer THEN 0 ELSE d.timeout
             P == d.pending \cup (IF alarm /\ d.tick = 0 THEN {"ALM"} ELSE {})
                    \cup (IF timer THEN {"TMR"} ELSE {})
  <2>1. k \in Nat /\ m \in Nat
    BY <1>1
  <2>2. P \in SUBSET Sig
    BY <1>1
  <2>3. TsmClocks(d) = [d EXCEPT !.tick = k, !.timeout = m, !.pending = P]
    BY DEF TsmClocks
  <2> HIDE DEF k, m, P
  <2> QED BY <2>1, <2>2, <2>3, ZenonT(40) DEF TaskDesc
<1>3. TsmWake(d) \in TaskDesc
  BY Zenon DEF TaskDesc, TsmWake, Bits
<1> QED BY <1>2, <1>3

(* The operators keep the shape of a status.                               *)
LEMMA Shapes ==
  /\ \A b \in BaseBits : {b} \in SUBSET Bits /\ StatusShape({b})
  /\ \A S \in SUBSET Bits : StatusShape(S) =>
       /\ S \cup {"FROZEN"} \in SUBSET Bits /\ StatusShape(S \cup {"FROZEN"})
       /\ S \ {"FROZEN"} \in SUBSET Bits /\ StatusShape(S \ {"FROZEN"})
BY DEF StatusShape, BaseBits, Bits

(* Writing a status with one base bit, and the wkup flag, into a           *)
(* descriptor leaves it well formed.                                       *)
LEMMA StatusWrite ==
  ASSUME NEW d \in TaskDesc, NEW b \in BaseBits, NEW w \in BOOLEAN
  PROVE  /\ [d EXCEPT !.status = {b}] \in TaskDesc
         /\ StatusShape([d EXCEPT !.status = {b}].status)
         /\ [d EXCEPT !.status = {b}, !.wkup = w] \in TaskDesc
         /\ StatusShape([d EXCEPT !.status = {b}, !.wkup = w].status)
<1>1. {b} \in SUBSET Bits /\ StatusShape({b})
  BY Shapes
<1>2. /\ [d EXCEPT !.status = {b}] \in TaskDesc
      /\ [d EXCEPT !.status = {b}].status = {b}
  BY <1>1 DEF TaskDesc
<1>3. /\ [d EXCEPT !.status = {b}, !.wkup = w] \in TaskDesc
      /\ [d EXCEPT !.status = {b}, !.wkup = w].status = {b}
  BY <1>1, Zenon DEF TaskDesc
<1> QED BY <1>1, <1>2, <1>3

(* So does what a blocking call writes.                                    *)
LEMMA WaitWrite ==
  ASSUME NEW d \in TaskDesc, StatusShape(d.status), NEW S \in SUBSET Sig
  PROVE  /\ set_wait_for_signal(save_context(d, S), S) \in TaskDesc
         /\ StatusShape(set_wait_for_signal(save_context(d, S), S).status)
<1> DEFINE e == save_context(d, S)
<1>1. e \in TaskDesc
  BY DescTypes, Zenon
<1>2. e.status = d.status
  BY DEF save_context, TaskDesc
<1>3. StatusShape({"SUSPENDED"})
  BY Shapes DEF BaseBits, Bits
<1> HIDE DEF e
<1>4. set_wait_for_signal(e, S) \in TaskDesc
  BY <1>1, DescTypes, Zenon
<1>5. set_wait_for_signal(e, S).status \in {{"SUSPENDED"}, e.status}
  BY <1>1 DEF set_wait_for_signal, TaskDesc
<1> QED BY <1>2, <1>3, <1>4, <1>5 DEF e

(* Replacing one descriptor by another well-formed one keeps the table     *)
(* well formed.                                                            *)
LEMMA TableUpdate ==
  ASSUME task \in [Tid -> TaskDesc],
         \A u \in Tid : StatusShape(task[u].status),
         NEW t \in Tid, NEW d \in TaskDesc, StatusShape(d.status),
         task' = [task EXCEPT ![t] = d]
  PROVE  /\ task' \in [Tid -> TaskDesc]
         /\ \A u \in Tid : StatusShape(task'[u].status)
OBVIOUS
-----------------------------------------------------------------------------
(* The initial table, with the idle task and the root task, is well formed.*)
LEMMA StatusInit == Init => StatusInv
<1> SUFFICES ASSUME Init PROVE StatusInv
  OBVIOUS
<1> USE KernelAssumption
<1>1. EmptyDesc \in TaskDesc /\ t_create(EmptyDesc, FALSE) \in TaskDesc
  <2>1. {} \in SUBSET Sig /\ FALSE \in BOOLEAN
    OBVIOUS
  <2>2. EmptyDesc \in TaskDesc
    BY DEF EmptyDesc, TaskDesc, Bits
  <2> QED BY <2>1, <2>2, DescTypes, Zenon
<1>2. [t_create(EmptyDesc, FALSE) EXCEPT !.mask = {}] \in TaskDesc
  BY <1>1, Zenon DEF TaskDesc
<1>3. /\ StatusShape(EmptyDesc.status)
      /\ StatusShape(t_create(EmptyDesc, FALSE).status)
      /\ StatusShape([t_create(EmptyDesc, FALSE) EXCEPT !.mask = {}].status)
  BY Shapes, Zenon DEF BaseBits, Bits, EmptyDesc, t_create
<1>4. task \in [Tid -> TaskDesc]
  BY <1>1, <1>2, Zenon DEF Init
<1>5. \A t \in Tid : StatusShape(task[t].status)
  BY <1>3, Zenon DEF Init
<1>6. cur \in Tid /\ tcp \in Tid /\ count \in 0 .. 2 * TBL + 1
  BY DEF Init, Tid, IDLE
<1>7. /\ rtc \in 0 .. MaxRtc /\ calls \in 0 .. MaxCalls
      /\ pc = "scheduler" /\ own \in BOOLEAN
  BY DEF Init
<1> QED BY <1>4, <1>5, <1>6, <1>7 DEF StatusInv, TypeOK, Selected
-----------------------------------------------------------------------------
(* A step that replaces one descriptor and does not enter the TSM.         *)
LEMMA OneTaskStep ==
  ASSUME StatusInv,
         NEW t \in Tid, NEW d \in TaskDesc, StatusShape(d.status),
         task' = [task EXCEPT ![t] = d],
         cur' \in Tid, tcp' \in Tid, UNCHANGED <<count, rtc>>,
         pc' \in {"scheduler", "search", "rt", "idle", "task", "wild"},
         own' \in BOOLEAN, calls' \in 0 .. MaxCalls
  PROVE  StatusInv'
<1>1. /\ task' \in [Tid -> TaskDesc]
      /\ \A u \in Tid : StatusShape(task'[u].status)
  BY TableUpdate DEF StatusInv, TypeOK
<1> QED BY <1>1 DEF StatusInv, TypeOK, Selected

(* The same for a call that does not block.                                *)
LEMMA OneTaskCall ==
  ASSUME StatusInv, NEW op, Syscall(op), own' \in BOOLEAN,
         NEW t \in Tid, NEW d \in TaskDesc, StatusShape(d.status),
         task' = [task EXCEPT ![t] = d]
  PROVE  StatusInv'
<1>1. /\ cur' \in Tid /\ tcp' \in Tid /\ UNCHANGED <<count, rtc>>
      /\ pc' \in {"scheduler", "search", "rt", "idle", "task", "wild"}
      /\ calls' \in 0 .. MaxCalls
  BY KernelAssumption DEF Syscall, StatusInv, TypeOK
<1> QED BY <1>1, OneTaskStep, Zenon

(* Every step of the kernel, of a task and of the clock keeps the table    *)
(* well formed and hands the TSM only what the search selected.            *)
LEMMA StatusStep == StatusInv /\ [Next]_vars => StatusInv'
<1> SUFFICES ASSUME StatusInv, [Next]_vars PROVE StatusInv'
  OBVIOUS
<1> USE KernelAssumption
<1>0. /\ task \in [Tid -> TaskDesc] /\ cur \in Tid /\ tcp \in Tid
      /\ \A t \in Tid : task[t] \in TaskDesc /\ StatusShape(task[t].status)
      /\ own \in BOOLEAN /\ calls \in 0 .. MaxCalls /\ 0 \in 0 .. MaxCalls
  BY DEF StatusInv, TypeOK
<1>b. {"READY", "RUNNING", "ZOMBIE", "SUSPENDED", "NOT_RUNNING"} = BaseBits
  BY DEF BaseBits, Bits
<1>1. CASE Scheduler
  BY <1>1, <1>0 DEF Scheduler, Goto, TypeOK, Selected, StatusInv
<1>2. CASE SearchTask
  <2>1. (cur + 1) % TBL \in Tid /\ Visits \in 0 .. 2 * TBL + 1
    BY <1>0 DEF TypeOK, StatusInv, Tid, Visits
  <2> QED BY <1>2, <2>1
      DEF SearchTask, SearchNext, Goto, TypeOK, Selected, Skipped, StatusInv
<1>3. CASE RtReturn
  BY <1>3 DEF RtReturn, SearchNext, Goto, TypeOK, Selected, Skipped, StatusInv
<1>4. CASE IdleReturn \/ RtReturnBeyond
  BY <1>4 DEF IdleReturn, RtReturnBeyond, Goto, TypeOK, Selected, StatusInv
<1>5. ASSUME NEW t \in Tid \ {IDLE}, RtReturnDpc(t) PROVE StatusInv'
  <2> DEFINE d == [task[t] EXCEPT !.status = {"READY"}, !.wkup = TRUE]
  <2>1. d \in TaskDesc /\ StatusShape(d.status)
    BY <1>0, <1>b, StatusWrite, Zenon
  <2>2. task' = [task EXCEPT ![t] = d]
    BY <1>5, <1>0, ZenonT(40) DEF RtReturnDpc, TaskDesc
  <2>3. /\ task' \in [Tid -> TaskDesc]
        /\ \A u \in Tid : StatusShape(task'[u].status)
    BY <1>0, <2>1, <2>2, TableUpdate
  <2> QED BY <1>5, <2>3

              DEF RtReturnDpc, SearchNext, Goto, TypeOK, Selected, Skipped, StatusInv
<1>6. CASE TsmRunning
  <2> DEFINE d == [task[cur] EXCEPT !.status = {"ZOMBIE"}]
  <2>1. d \in TaskDesc /\ StatusShape(d.status)
    BY <1>0, <1>b, StatusWrite, Zenon
  <2>2. task' = [task EXCEPT ![cur] = d]
    BY <1>6 DEF TsmRunning
  <2> HIDE DEF d
  <2> QED BY <1>6, <1>0, <2>1, <2>2, OneTaskStep, Zenon
      DEF TsmRunning, TsmEnter, Goto
<1>7. CASE TsmSuspended
  <2> DEFINE d == TsmWake(TsmClocks(task[cur]))
  <2>1. task[cur] \in TaskDesc /\ TsmClocks(task[cur]) \in TaskDesc /\ d \in TaskDesc
    BY <1>0, TsmTypes
  <2>2. d.status = {"READY"} \/ d.status = TsmClocks(task[cur]).status
    BY <2>1 DEF TsmWake, TaskDesc
  <2>3. TsmClocks(task[cur]).status = {"SUSPENDED"}
    BY <1>7, <2>1, ZenonT(40) DEF TsmSuspended, TsmEnter, TsmClocks, TaskDesc
  <2>4. StatusShape(d.status)
    BY <2>2, <2>3, <1>b, Shapes
  <2>5. task' = [task EXCEPT ![cur] = d]
    BY <1>7 DEF TsmSuspended
  <2> HIDE DEF d
  <2> QED BY <1>7, <1>0, <2>1, <2>4, <2>5, OneTaskStep, Zenon
      DEF TsmSuspended, TsmEnter, Goto
<1>8. CASE DispatchStart
  <2> DEFINE d == [task[cur] EXCEPT !.status = {"RUNNING"}]
  <2>1. d \in TaskDesc /\ StatusShape(d.status)
    BY <1>0, <1>b, StatusWrite, Zenon
  <2>2. task' = [task EXCEPT ![cur] = d]
    BY <1>8 DEF DispatchStart
  <2> HIDE DEF d
  <2> QED BY <1>8, <1>0, <2>1, <2>2, OneTaskStep, Zenon
      DEF DispatchStart, TsmEnter, Goto
<1>9. CASE DispatchResume
  <2> DEFINE r == reset_signal_and_run(task[cur], task[cur].ctxSig)
             d == [r EXCEPT !.wkup = FALSE]
  <2>1. r \in TaskDesc
    <3>1. task[cur].ctxSig \in SUBSET Sig
      BY <1>0 DEF TaskDesc
    <3> QED BY <1>0, <3>1, DescTypes
  <2>2. r.status = {"RUNNING"}
    BY <1>0 DEF reset_signal_and_run, TaskDesc
  <2>3. d \in TaskDesc /\ d.status = {"RUNNING"}
    <3> HIDE DEF r
    <3> QED BY <2>1, <2>2, Zenon DEF TaskDesc
  <2>4. StatusShape(d.status)
    BY <2>3, <1>b, Shapes
  <2>5. task' = [task EXCEPT ![cur] = d]
    BY <1>9 DEF DispatchResume
  <2>6. own' \in BOOLEAN
    BY <1>9 DEF DispatchResume
  <2> HIDE DEF d
  <2> QED BY <1>9, <1>0, <2>3, <2>4, <2>5, <2>6, OneTaskStep, Zenon
          DEF DispatchResume, TsmEnter, Goto
<1>10. CASE DispatchWild
  <2> DEFINE d == [task[cur] EXCEPT !.status = {"RUNNING"}, !.wkup = FALSE]
  <2>1. d \in TaskDesc /\ StatusShape(d.status)
    BY <1>0, <1>b, StatusWrite, Zenon
  <2>2. task' = [task EXCEPT ![cur] = d]
    BY <1>10, <1>0 DEF DispatchWild, TaskDesc
  <2> HIDE DEF d
  <2> QED BY <1>10, <1>0, <2>1, <2>2, OneTaskStep, Zenon
      DEF DispatchWild, TsmEnter, Goto
<1>11. ASSUME NEW S \in SUBSET Sig, Suspend(S) PROVE StatusInv'
  <2> DEFINE d == set_wait_for_signal(save_context(task[tcp], S), S)
  <2>1. d \in TaskDesc /\ StatusShape(d.status)
    BY <1>0, WaitWrite
  <2>2. task' = [task EXCEPT ![tcp] = d]
    BY <1>11 DEF Suspend
  <2> HIDE DEF d
  <2> QED BY <1>11, <1>0, <2>1, <2>2, OneTaskStep, Zenon
      DEF Suspend, Yield, Goto
<1>12. ASSUME NEW n \in TickCounts, mipos_tm_wkafter(n) PROVE StatusInv'
  <2> DEFINE w == set_wait_for_signal(save_context(task[tcp], {"ALM"}), {"ALM"})
             d == [w EXCEPT !.tick = n]
  <2>1. w \in TaskDesc /\ StatusShape(w.status)
    BY <1>0, WaitWrite DEF Sig, SysSig
  <2> HIDE DEF w
  <2>2. d \in TaskDesc /\ StatusShape(d.status)
    BY <2>1 DEF TaskDesc
  <2>3. task' = [task EXCEPT ![tcp] = d]
    BY <1>12 DEF mipos_tm_wkafter, w
  <2> HIDE DEF d
  <2> QED BY <1>12, <1>0, <2>2, <2>3, OneTaskStep, Zenon
      DEF mipos_tm_wkafter, Yield, Goto
<1>13. ASSUME NEW n \in SleepCounts, mipos_tm_sleep(n) PROVE StatusInv'
  <2> DEFINE w == set_wait_for_signal(save_context(task[tcp], {"TMR"}), {"TMR"})
             d == [w EXCEPT !.timeout = rtc + n]
  <2>1. w \in TaskDesc /\ StatusShape(w.status)
    BY <1>0, WaitWrite DEF Sig, SysSig
  <2> HIDE DEF w
  <2>2. rtc + n \in Nat
    BY DEF StatusInv, TypeOK
  <2>3. d \in TaskDesc /\ StatusShape(d.status)
    BY <2>1, <2>2 DEF TaskDesc
  <2>4. task' = [task EXCEPT ![tcp] = d]
    BY <1>13 DEF mipos_tm_sleep, w
  <2> HIDE DEF d
  <2> QED BY <1>13, <1>0, <2>3, <2>4, OneTaskStep, Zenon
      DEF mipos_tm_sleep, Yield, Goto
<1>14. CASE TaskReturn
  <2> DEFINE d == [task[tcp] EXCEPT !.ctx = "dead"]
  <2>1. d \in TaskDesc /\ d.status = task[tcp].status
    BY <1>0 DEF TaskDesc
  <2>2. task' = [task EXCEPT ![tcp] = d]
    BY <1>14 DEF TaskReturn
  <2> HIDE DEF d
  <2> QED BY <1>14, <1>0, <2>1, <2>2, OneTaskStep, Zenon
      DEF TaskReturn, Yield, Goto
<1>15. ASSUME NEW t \in Tid, NEW isRt \in BOOLEAN, mipos_t_create(t, isRt)
       PROVE  StatusInv'
  <2> DEFINE d == t_create(task[t], isRt)
  <2>1. d \in TaskDesc
    <3>1. {} \in SUBSET Sig
      OBVIOUS
    <3> QED BY <1>0, <3>1, DescTypes, Zenon
  <2>2. d.status = {"READY"}
    BY <1>0 DEF t_create, TaskDesc
  <2>3. task' = [task EXCEPT ![t] = d] /\ own' \in BOOLEAN
    BY <1>15, <1>0 DEF mipos_t_create
  <2>4. StatusShape(d.status)
    BY <2>2, <1>b, Shapes
  <2> HIDE DEF d
  <2> QED BY <1>15, <2>1, <2>3, <2>4, OneTaskCall, Zenon DEF mipos_t_create
<1>16. ASSUME NEW id \in Tid, mipos_t_delete(id) PROVE StatusInv'
  <2> DEFINE t == get_p_task(id)
             d == t_delete(task[t])
  <2>0. t \in Tid
    BY <1>0 DEF get_p_task
  <2> HIDE DEF t
  <2>1. d \in TaskDesc
    <3>1. {} \in SUBSET Sig /\ FALSE \in BOOLEAN
      OBVIOUS
    <3> QED BY <1>0, <2>0, <3>1, DescTypes
  <2>2. d.status = {"NOT_RUNNING"}
    BY <1>0, <2>0 DEF t_delete, TaskDesc
  <2>3. task' = [task EXCEPT ![t] = d] /\ own' \in BOOLEAN
    BY <1>16, <1>0 DEF mipos_t_delete, t
  <2>4. StatusShape(d.status)
    BY <2>2, <1>b, Shapes
  <2> HIDE DEF d
  <2> QED BY <1>16, <2>0, <2>1, <2>3, <2>4, OneTaskCall, Zenon
      DEF mipos_t_delete
<1>17. ASSUME NEW id \in Tid, NEW s \in NotifySig, mipos_t_notify_signal(id, s)
       PROVE  StatusInv'
  <2> DEFINE t == get_p_task(id)
             d == [task[t] EXCEPT !.pending = @ \cup ({s} \cap task[t].mask)]
  <2>0. t \in Tid
    BY <1>0 DEF get_p_task
  <2> HIDE DEF t
  <2>1. d \in TaskDesc /\ d.status = task[t].status
    BY <1>0, <2>0 DEF TaskDesc
  <2>2. task' = [task EXCEPT ![t] = d] /\ own' \in BOOLEAN
    BY <1>17, <1>0 DEF mipos_t_notify_signal, t
  <2> HIDE DEF d
  <2> QED BY <1>17, <1>0, <2>0, <2>1, <2>2, OneTaskCall, Zenon
      DEF mipos_t_notify_signal
<1>18. ASSUME NEW id \in Tid, mipos_t_freeze(id) PROVE StatusInv'
  <2> DEFINE t == get_p_task(id)
             d == [task[t] EXCEPT !.status = @ \cup {"FROZEN"}]
  <2>0. t \in Tid
    BY <1>0 DEF get_p_task
  <2>3. PICK op : Syscall(op)
    BY <1>18 DEF mipos_t_freeze
  <2> HIDE DEF t
  <2>1. d \in TaskDesc /\ StatusShape(d.status)
    BY <1>0, <2>0, Shapes, ZenonT(40) DEF TaskDesc
  <2>2. task' = [task EXCEPT ![t] = d] /\ own' \in BOOLEAN
    BY <1>18, <1>0 DEF mipos_t_freeze, t
  <2> HIDE DEF d
  <2> QED BY <2>0, <2>1, <2>2, <2>3, OneTaskCall, Zenon
<1>19. ASSUME NEW id \in Tid, mipos_t_unfreeze(id) PROVE StatusInv'
  <2> DEFINE t == get_p_task(id)
             d == [task[t] EXCEPT !.status = @ \ {"FROZEN"}]
  <2>0. t \in Tid
    BY <1>0 DEF get_p_task
  <2> HIDE DEF t
  <2>1. d \in TaskDesc /\ StatusShape(d.status)
    BY <1>0, <2>0, Shapes, ZenonT(40) DEF TaskDesc
  <2>2. task' = [task EXCEPT ![t] = d] /\ own' \in BOOLEAN
    BY <1>19, <1>0 DEF mipos_t_unfreeze, t
  <2> HIDE DEF d
  <2> QED BY <1>19, <2>0, <2>1, <2>2, OneTaskCall, Zenon DEF mipos_t_unfreeze
<1>20. ASSUME NEW id \in Tid, mipos_t_restart(id) PROVE StatusInv'
  <2> DEFINE t == get_p_task(id)
             S == IF task[t].entry /\ task[t].status = {"ZOMBIE"}
                    THEN {"READY"} ELSE task[t].status
             d == [task[t] EXCEPT !.status = S]
  <2>0. t \in Tid
    BY <1>0 DEF get_p_task
  <2> HIDE DEF t
  <2>1. S \in SUBSET Bits /\ StatusShape(S)
    BY <1>0, <1>b, <2>0, Shapes DEF TaskDesc
  <2>2. task' = [task EXCEPT ![t] = d] /\ own' \in BOOLEAN
    BY <1>20, <1>0 DEF mipos_t_restart, t
  <2> HIDE DEF S
  <2>3. d \in TaskDesc /\ d.status = S
    BY <1>0, <2>0, <2>1 DEF TaskDesc
  <2> HIDE DEF d
  <2> QED BY <1>20, <2>0, <2>1, <2>2, <2>3, OneTaskCall DEF mipos_t_restart
<1>21. ASSUME NEW id \in Tid, NEW s \in UserSig,
              mipos_t_sig_ignore(id, s) \/ mipos_t_sig_allow(id, s)
       PROVE  StatusInv'
  <2> DEFINE t == get_p_task(id)
             d(M) == [task[t] EXCEPT !.mask = M]
  <2>0. t \in Tid
    BY <1>0 DEF get_p_task
  <2>1. PICK M \in SUBSET Sig : task' = [task EXCEPT ![t] = d(M)]
    BY <1>21, <1>0, <2>0, ZenonT(40)
        DEF mipos_t_sig_ignore, mipos_t_sig_allow, Sig, TaskDesc
  <2>2. own' \in BOOLEAN /\ Syscall("sig_mask")
    BY <1>21, <1>0 DEF mipos_t_sig_ignore, mipos_t_sig_allow
  <2> HIDE DEF t
  <2>3. d(M) \in TaskDesc /\ d(M).status = task[t].status
    BY <1>0, <2>0 DEF TaskDesc
  <2> HIDE DEF d
  <2> QED BY <1>0, <2>0, <2>1, <2>2, <2>3, OneTaskCall, Zenon
<1>22. CASE mipos_update_rtc
  BY <1>22 DEF mipos_update_rtc, StatusInv, TypeOK, Selected, Skipped
<1>23. CASE UNCHANGED vars
  BY <1>23 DEF vars, StatusInv, TypeOK, Selected, Skipped
<1>24. CASE KernelStep
  BY <1>24, <1>1, <1>2, <1>3, <1>4, <1>5, <1>6, <1>7, <1>8, <1>9, <1>10
      DEF KernelStep
<1>25. CASE YieldStep
  <2>1. ASSUME NEW S \in SUBSET Sig, mipos_t_waitfor_signal(S) PROVE StatusInv'
    <3>1. S \ SysSig \in SUBSET Sig
      OBVIOUS
    <3> QED BY <2>1, <3>1, <1>11 DEF mipos_t_waitfor_signal
  <2>2. CASE mipos_t_suspend
    <3>1. {"WKP"} \in SUBSET Sig
      BY DEF Sig, SysSig
    <3> QED BY <2>2, <3>1, <1>11 DEF mipos_t_suspend
  <2> QED BY <1>25, <2>1, <2>2, <1>12, <1>13, <1>14 DEF YieldStep
<1>26. CASE SyscallStep
  BY <1>26, <1>15, <1>16, <1>17, <1>18, <1>19, <1>20, <1>21 DEF SyscallStep
<1> QED BY <1>22, <1>23, <1>24, <1>25, <1>26 DEF Next

(* Throughout every run of the kernel the type invariant holds and the     *)
(* table is well formed.                                                   *)
THEOREM StatusInvariant == Spec => []StatusInv
<1>1. Init => StatusInv
  BY StatusInit
<1>2. StatusInv /\ [Next]_vars => StatusInv'
  BY StatusStep
<1> QED BY <1>1, <1>2, PTL DEF Spec

(* mipos_types.h: the kernel's variables keep their types, whatever calls  *)
(* the application makes.                                                  *)
THEOREM TypeCorrect == Spec => []TypeOK
<1>1. StatusInv => TypeOK
  BY DEF StatusInv
<1> QED BY <1>1, StatusInvariant, PTL

(* mipos_kernel.c, the default branch of the TSM: whatever calls the       *)
(* application, its real-time tasks and its callbacks make, KERNEL__PANIC  *)
(* is not reached.                                                         *)
THEOREM NeverPanics == Spec => []TsmNeverPanics
<1>1. StatusInv => TsmNeverPanics
  <2> SUFFICES ASSUME StatusInv, pc = "tsm"
               PROVE  task[cur].status \in {{"RUNNING"}, {"SUSPENDED"}, {"READY"}}
    BY DEF TsmNeverPanics
  <2>1. /\ StatusShape(task[cur].status)
        /\ task[cur].status \cap {"NOT_RUNNING", "ZOMBIE", "FROZEN"} = {}
    BY DEF StatusInv, TypeOK, Selected, Skipped
  <2> QED BY <2>1 DEF StatusShape, BaseBits, Bits
<1> QED BY <1>1, StatusInvariant, PTL
-----------------------------------------------------------------------------
(* Contexts.  They are safe in applications whose real-time tasks promote  *)
(* suspended tasks only and in which no task creates another in the slot   *)
(* it has just freed; without either condition TLC finds a task that is    *)
(* resumed from a context that is not its own.                             *)
Disciplined == "dpc_any" \notin Ops /\ "reuse_own_slot" \notin Ops

(* What holds of a descriptor d; running: its task is the one executing.   *)
DescInv(d, running) ==
  /\ d.entry <=> "NOT_RUNNING" \notin d.status
  /\ d.wkup => "READY" \in d.status
  /\ d.wkup \/ "SUSPENDED" \in d.status => d.ctx = "own" /\ d.waiting = d.ctxSig
  /\ d.entry /\ ~d.wkup /\ "SUSPENDED" \notin d.status => d.waiting = {}
  /\ "RUNNING" \in d.status => running \/ d.ctx = "dead"
  /\ "ZOMBIE" \in d.status => d.ctx = "dead"

(* What holds of slot tcp while a task executes: it is that task's, or the *)
(* task has deleted itself and the slot is free.                           *)
ExecInv ==
  pc = "task" =>
    /\ tcp # IDLE
    /\ IF own THEN task[tcp].entry /\ "RUNNING" \in task[tcp].status
              ELSE ~task[tcp].entry

(* The idle task never waits; every other task lets the kernel's own       *)
(* signals through.                                                        *)
MaskInv ==
  /\ task[IDLE].waiting = {} /\ task[IDLE].ctxSig = {}
  /\ \A t \in Tid \ {IDLE} : task[t].entry => SysSig \subseteq task[t].mask

ContextInv ==
  /\ StatusInv
  /\ \A t \in Tid : DescInv(task[t], pc = "task" /\ tcp = t)
  /\ ExecInv
  /\ MaskInv
-----------------------------------------------------------------------------
(* A well-formed status has one base bit.                                  *)
LEMMA OneBaseBit ==
  ASSUME NEW S, StatusShape(S), NEW b \in BaseBits \cap S, NEW c \in BaseBits \cap S
  PROVE  b = c
BY DEF StatusShape, BaseBits

(* A step that leaves the table alone, outside of the tasks.               *)
LEMMA NoTaskContext ==
  ASSUME ContextInv, StatusInv', UNCHANGED task, pc # "task", pc' # "task"
  PROVE  ContextInv'
BY DEF ContextInv, DescInv, ExecInv, MaskInv

(* A step that replaces the descriptor of t.                               *)
LEMMA OneTaskContext ==
  ASSUME ContextInv, StatusInv', NEW t \in Tid, NEW d,
         task' = [task EXCEPT ![t] = d],
         DescInv(d, pc' = "task" /\ tcp' = t),
         \A u \in Tid \ {t} : pc = "task" /\ tcp = u => pc' = "task" /\ tcp' = u,
         ExecInv',
         t = IDLE => d.waiting = {} /\ d.ctxSig = {},
         t # IDLE /\ d.entry => SysSig \subseteq d.mask
  PROVE  ContextInv'
<1>0. task \in [Tid -> TaskDesc]
  BY DEF ContextInv, StatusInv, TypeOK
<1>1. ASSUME NEW u \in Tid PROVE DescInv(task'[u], pc' = "task" /\ tcp' = u)
  <2>1. CASE u = t
    BY <2>1, <1>0
  <2>2. CASE u # t
    <3>1. task'[u] = task[u] /\ DescInv(task[u], pc = "task" /\ tcp = u)
      BY <2>2, <1>0 DEF ContextInv
    <3> QED BY <2>2, <3>1 DEF DescInv
  <2> QED BY <2>1, <2>2
<1>2. MaskInv'
  <2>1. MaskInv
    BY DEF ContextInv
  <2>2. IDLE \in Tid
    BY KernelAssumption DEF Tid, IDLE
  <2> QED BY <1>0, <2>1, <2>2 DEF MaskInv
<1> QED BY <1>1, <1>2 DEF ContextInv

(* The same for a call that does not block, made for a task of which the   *)
(* call leaves reg_state alone.                                            *)
LEMMA OneCallContext ==
  ASSUME ContextInv, StatusInv', NEW op, Syscall(op), UNCHANGED own,
         NEW t \in Tid, NEW d, task' = [task EXCEPT ![t] = d],
         DescInv(d, pc = "task" /\ tcp = t),
         pc = "task" /\ tcp = t =>
           /\ d.entry = task[t].entry
           /\ "RUNNING" \in task[t].status => "RUNNING" \in d.status,
         t = IDLE => d.waiting = {} /\ d.ctxSig = {},
         t # IDLE /\ d.entry => SysSig \subseteq d.mask
  PROVE  ContextInv'
<1>1. pc' = pc /\ tcp' = tcp
  BY DEF Syscall
<1>2. task \in [Tid -> TaskDesc] /\ tcp \in Tid /\ ExecInv
  BY DEF ContextInv, StatusInv, TypeOK
<1>3. ExecInv'
  <2>1. CASE t = tcp
    <3>1. task'[tcp] = d
      BY <1>2, <2>1
    <3> QED BY <1>1, <1>2, <2>1, <3>1 DEF ExecInv
  <2>2. CASE t # tcp
    <3>1. task'[tcp] = task[tcp]
      BY <1>2, <2>2
    <3> QED BY <1>1, <1>2, <3>1 DEF ExecInv
  <2> QED BY <2>1, <2>2
<1> QED BY <1>1, <1>3, OneTaskContext, Zenon
-----------------------------------------------------------------------------
(* Initially no task waits and none is marked to be resumed.               *)
LEMMA ContextInit == Init => ContextInv
<1> SUFFICES ASSUME Init PROVE ContextInv
  OBVIOUS
<1>1. StatusInv
  BY StatusInit
<1>2. pc = "scheduler"
  BY DEF Init
<1>3. ASSUME NEW t \in Tid
      PROVE  /\ DescInv(task[t], pc = "task" /\ tcp = t)
             /\ task[t].waiting = {} /\ task[t].ctxSig = {}
             /\ t # IDLE /\ task[t].entry => task[t].mask = Sig
  <2>1. task[t] \in {EmptyDesc, t_create(EmptyDesc, FALSE),
                     [t_create(EmptyDesc, FALSE) EXCEPT !.mask = {}]}
    BY DEF Init
  <2>2. t # IDLE => task[t] \in {EmptyDesc, t_create(EmptyDesc, FALSE)}
    BY DEF Init
  <2>3. CASE task[t] = EmptyDesc
    BY <2>3 DEF DescInv, EmptyDesc
  <2>4. CASE task[t] = t_create(EmptyDesc, FALSE)
    BY <2>4 DEF DescInv, EmptyDesc, t_create
  <2>5. CASE t = IDLE /\ task[t] = [t_create(EmptyDesc, FALSE) EXCEPT !.mask = {}]
    BY <2>5 DEF DescInv, EmptyDesc, t_create
  <2> QED BY <2>1, <2>2, <2>3, <2>4, <2>5, Zenon
<1>4. IDLE \in Tid
  BY KernelAssumption DEF Tid, IDLE
<1> QED BY <1>1, <1>2, <1>3, <1>4 DEF ContextInv, ExecInv, MaskInv, Sig

(* The wait of a blocking call: the executing task becomes SUSPENDED with  *)
(* its own context and waits for S alone; the code of a task that deleted  *)
(* itself leaves the free slot free.                                       *)
LEMMA WaitContext ==
  ASSUME ContextInv, pc = "task", NEW S \in SUBSET Sig
  PROVE  LET d == set_wait_for_signal(save_context(task[tcp], S), S)
         IN  d \in TaskDesc /\ DescInv(d, FALSE) /\ d.mask = task[tcp].mask
             /\ (d.entry <=> task[tcp].entry)
<1> DEFINE c == task[tcp]
           e == save_context(c, S)
           d == set_wait_for_signal(e, S)
<1>0. /\ c \in TaskDesc /\ StatusShape(c.status)
      /\ DescInv(c, TRUE) /\ own \in BOOLEAN
      /\ IF own THEN c.entry /\ "RUNNING" \in c.status ELSE ~c.entry
  BY DEF ContextInv, StatusInv, TypeOK, ExecInv, DescInv
<1> HIDE DEF c
<1>b. {"READY", "RUNNING", "ZOMBIE", "SUSPENDED", "NOT_RUNNING"} = BaseBits
  BY DEF BaseBits, Bits
<1>1. /\ e \in TaskDesc /\ e.ctxSig = S
      /\ e.ctx = IF own THEN "own" ELSE "other"
      /\ e.status = c.status /\ e.waiting = c.waiting /\ e.mask = c.mask
      /\ e.entry = c.entry /\ e.wkup = c.wkup
  BY <1>0, DescTypes, ZenonT(40) DEF save_context, TaskDesc
<1> HIDE DEF e
<1>2. /\ d \in TaskDesc /\ d.ctxSig = S /\ d.ctx = e.ctx /\ d.mask = e.mask
      /\ d.entry = e.entry /\ d.wkup = e.wkup /\ d.waiting = e.waiting \cup S
      /\ d.status = IF c.status \cap {"READY", "RUNNING", "SUSPENDED"} # {}
                      THEN {"SUSPENDED"} ELSE c.status
  <2>1. d \in TaskDesc
    BY <1>1, DescTypes, Zenon
  <2>2. e \in TaskDesc /\ e.ctxSig = S /\ e.status = c.status
    BY <1>1
  <2>3. /\ d.ctxSig = e.ctxSig /\ d.ctx = e.ctx /\ d.mask = e.mask
        /\ d.entry = e.entry /\ d.wkup = e.wkup /\ d.waiting = e.waiting \cup S
    BY <2>2 DEF set_wait_for_signal, TaskDesc
  <2>4. d.status = IF e.status \cap {"READY", "RUNNING", "SUSPENDED"} # {}
                     THEN {"SUSPENDED"} ELSE e.status
    BY <2>2 DEF set_wait_for_signal, TaskDesc
  <2> HIDE DEF d
  <2> QED BY <2>1, <2>2, <2>3, <2>4
<1> HIDE DEF d
<1>3. CASE own
  <2>1. "READY" \notin c.status /\ "SUSPENDED" \notin c.status
    BY <1>0, <1>3, <1>b, OneBaseBit
  <2>2. ~c.wkup /\ c.waiting = {}
    BY <1>0, <1>3, <2>1 DEF DescInv
  <2>3. d.status = {"SUSPENDED"} /\ d.waiting = S /\ d.ctx = "own" /\ ~d.wkup /\ d.entry
    BY <1>0, <1>1, <1>2, <1>3, <2>2
  <2>4. DescInv(d, FALSE)
    BY <1>2, <2>3 DEF DescInv
  <2> QED BY <1>1, <1>2, <2>4, Zenon DEF c, e, d
<1>4. CASE ~own
  <2>1. "NOT_RUNNING" \in c.status
    BY <1>0, <1>4 DEF DescInv
  <2>2. c.status \cap {"READY", "RUNNING", "SUSPENDED", "ZOMBIE"} = {}
    BY <1>0, <2>1, <1>b, OneBaseBit
  <2>3. ~c.wkup
    BY <1>0, <2>2 DEF DescInv
  <2>4. d.status = c.status /\ ~d.wkup /\ ~d.entry
    BY <1>0, <1>1, <1>2, <1>4, <2>2, <2>3
  <2>5. DescInv(d, FALSE)
    BY <2>1, <2>2, <2>4 DEF DescInv
  <2> QED BY <1>1, <1>2, <2>5, ZenonT(40) DEF c, e, d
<1> QED BY <1>0, <1>3, <1>4, Zenon
-----------------------------------------------------------------------------
(* Every step keeps the contexts straight, in a disciplined application.   *)
LEMMA ContextStep ==
  ASSUME Disciplined
  PROVE  ContextInv /\ [Next]_vars => ContextInv'
<1> SUFFICES ASSUME ContextInv, [Next]_vars PROVE ContextInv'
  OBVIOUS
<1> USE KernelAssumption
<1>0. /\ StatusInv /\ StatusInv'
      /\ task \in [Tid -> TaskDesc] /\ cur \in Tid /\ tcp \in Tid
      /\ \A t \in Tid : /\ task[t] \in TaskDesc /\ StatusShape(task[t].status)
                        /\ DescInv(task[t], pc = "task" /\ tcp = t)
                        /\ t # IDLE /\ task[t].entry => SysSig \subseteq task[t].mask
                        /\ t = IDLE => task[t].waiting = {} /\ task[t].ctxSig = {}
      /\ own \in BOOLEAN
  BY StatusStep DEF ContextInv, StatusInv, TypeOK, MaskInv
<1>b. {"READY", "RUNNING", "ZOMBIE", "SUSPENDED", "NOT_RUNNING"} = BaseBits
  BY DEF BaseBits, Bits
<1>1. CASE Scheduler \/ SearchTask \/ RtReturn \/ RtReturnBeyond \/ IdleReturn
  <2>1. UNCHANGED task /\ pc # "task" /\ pc' # "task"
    BY <1>1 DEF Scheduler, SearchTask, RtReturn, RtReturnBeyond, IdleReturn,
                SearchNext, Goto
  <2> QED BY <1>0, <2>1, NoTaskContext
<1>2. ASSUME NEW t \in Tid \ {IDLE}, RtReturnDpc(t) PROVE ContextInv'
  <2> DEFINE c == task[t]
             d == [c EXCEPT !.wkup = TRUE, !.status = {"READY"}]
  <2>1. c.status = {"SUSPENDED"} /\ pc = "rt" /\ pc' # "task"
    BY <1>2 DEF RtReturnDpc, Disciplined, SearchNext, Goto
  <2>2. c \in TaskDesc /\ DescInv(c, FALSE) /\ (c.entry => SysSig \subseteq c.mask)
    BY <1>0, <2>1, Zenon
  <2>3. task' = [task EXCEPT ![t] = d]
    BY <1>2, <1>0, Zenon DEF RtReturnDpc, TaskDesc
  <2> HIDE DEF c
  <2>4. /\ DescInv(d, FALSE)
        /\ t # IDLE /\ d.entry => SysSig \subseteq d.mask
    BY <2>1, <2>2 DEF DescInv, TaskDesc
  <2>5. ExecInv'
    BY <2>1 DEF ExecInv
  <2> HIDE DEF d
  <2> QED BY <1>0, <2>1, <2>3, <2>4, <2>5, OneTaskContext, Zenon
<1>3. CASE TsmRunning
  <2> DEFINE c == task[cur]
             d == [c EXCEPT !.status = {"ZOMBIE"}]
  <2>1. c.status = {"RUNNING"} /\ pc = "tsm" /\ pc' = "scheduler"
    BY <1>3 DEF TsmRunning, TsmEnter, Goto
  <2>2. /\ c \in TaskDesc /\ DescInv(c, FALSE)
        /\ cur # IDLE /\ c.entry => SysSig \subseteq c.mask
        /\ cur = IDLE => c.waiting = {} /\ c.ctxSig = {}
    BY <1>0, <2>1, Zenon
  <2>3. task' = [task EXCEPT ![cur] = d]
    BY <1>3 DEF TsmRunning
  <2> HIDE DEF c
  <2>4. /\ DescInv(d, FALSE)
        /\ cur # IDLE /\ d.entry => SysSig \subseteq d.mask
        /\ cur = IDLE => d.waiting = {} /\ d.ctxSig = {}
    BY <2>1, <2>2 DEF DescInv, TaskDesc
  <2>5. ExecInv'
    BY <2>1 DEF ExecInv
  <2> HIDE DEF d
  <2> QED BY <1>0, <2>1, <2>3, <2>4, <2>5, OneTaskContext, Zenon
<1>4. CASE TsmSuspended
  <2> DEFINE c == task[cur]
             k == TsmClocks(c)
             d == TsmWake(k)
  <2>1. c.status = {"SUSPENDED"} /\ pc = "tsm" /\ pc' = "scheduler"
    BY <1>4 DEF TsmSuspended, TsmEnter, Goto
  <2>2. /\ c \in TaskDesc /\ DescInv(c, FALSE)
        /\ cur # IDLE /\ c.entry => SysSig \subseteq c.mask
        /\ cur = IDLE => c.waiting = {} /\ c.ctxSig = {}
    BY <1>0, <2>1, Zenon
  <2>3. task' = [task EXCEPT ![cur] = d]
    BY <1>4 DEF TsmSuspended
  <2> HIDE DEF c
  <2>4. /\ k \in TaskDesc /\ k.status = c.status /\ k.wkup = c.wkup /\ k.ctx = c.ctx
        /\ k.entry = c.entry /\ k.waiting = c.waiting /\ k.ctxSig = c.ctxSig
        /\ k.mask = c.mask
    <3>1. k \in TaskDesc
      BY <2>2, TsmTypes
    <3> QED BY <2>2, <3>1 DEF TsmClocks, TaskDesc
  <2> HIDE DEF k
  <2>5. /\ d.ctx = c.ctx /\ d.entry = c.entry /\ d.waiting = c.waiting
        /\ d.ctxSig = c.ctxSig /\ d.mask = c.mask
        /\ \/ d.status = {"SUSPENDED"} /\ d.wkup = c.wkup
           \/ d.status = {"READY"} /\ d.wkup
    BY <2>1, <2>4, Zenon DEF TsmWake, TaskDesc
  <2> HIDE DEF d
  <2>6. /\ DescInv(d, FALSE)
        /\ cur # IDLE /\ d.entry => SysSig \subseteq d.mask
        /\ cur = IDLE => d.waiting = {} /\ d.ctxSig = {}
    BY <2>1, <2>2, <2>5 DEF DescInv
  <2>7. ExecInv'
    BY <2>1 DEF ExecInv
  <2> QED BY <1>0, <2>1, <2>3, <2>6, <2>7, OneTaskContext, Zenon
<1>5. CASE DispatchStart \/ DispatchResume \/ DispatchWild
  <2> DEFINE c == task[cur]
  <2>1. c.status = {"READY"} /\ pc = "tsm" /\ tcp' = cur /\ cur # IDLE
    BY <1>5, <1>0 DEF DispatchStart, DispatchResume, DispatchWild, TsmEnter,
                      StatusInv, Selected
  <2>2. /\ c \in TaskDesc /\ DescInv(c, FALSE) /\ c.entry
        /\ c.entry => SysSig \subseteq c.mask
    <3>1. c \in TaskDesc /\ DescInv(c, FALSE) /\ (c.entry => SysSig \subseteq c.mask)
      BY <1>0, <2>1, Zenon
    <3> QED BY <2>1, <3>1 DEF DescInv
  <2>3. PICK d : /\ task' = [task EXCEPT ![cur] = d]
                 /\ d.status = {"RUNNING"} /\ ~d.wkup /\ d.entry
                 /\ d.waiting = {} /\ d.mask = c.mask
                 /\ pc' = "task" /\ own' = TRUE
    <3>1. CASE DispatchStart
      <4> DEFINE d == [c EXCEPT !.status = {"RUNNING"}]
      <4>1. task' = [task EXCEPT ![cur] = d] /\ pc' = "task" /\ own' = TRUE /\ ~c.wkup
        BY <3>1 DEF DispatchStart, Goto
      <4>2. c.waiting = {}
        BY <2>1, <2>2, <4>1 DEF DescInv
      <4> HIDE DEF c
      <4>3. /\ d.status = {"RUNNING"} /\ ~d.wkup /\ d.entry
            /\ d.waiting = {} /\ d.mask = c.mask
        BY <2>2, <4>1, <4>2 DEF TaskDesc
      <4> QED BY <4>1, <4>3, Zenon DEF c
    <3>2. CASE DispatchResume
      <4> DEFINE r == reset_signal_and_run(c, c.ctxSig)
                 d == [r EXCEPT !.wkup = FALSE]
      <4>1. /\ task' = [task EXCEPT ![cur] = d] /\ pc' = "task"
            /\ own' = (c.ctx = "own") /\ c.wkup
        BY <3>2 DEF DispatchResume, Goto
      <4>2. own' = TRUE /\ c.waiting = c.ctxSig
        BY <2>2, <4>1, Zenon DEF DescInv
      <4> HIDE DEF c
      <4>3. /\ r.status = {"RUNNING"} /\ r.entry = c.entry /\ r.mask = c.mask
            /\ r.waiting = {} /\ r \in TaskDesc
        <5>1. r \in TaskDesc
          <6>1. c.ctxSig \in SUBSET Sig
            BY <2>2 DEF TaskDesc
          <6> QED BY <2>2, <6>1, DescTypes, Zenon
        <5> QED BY <2>2, <4>2, <5>1, Zenon DEF reset_signal_and_run, TaskDesc
      <4> HIDE DEF r
      <4>4. /\ d.status = {"RUNNING"} /\ ~d.wkup /\ d.entry
            /\ d.waiting = {} /\ d.mask = c.mask
        BY <2>2, <4>3, ZenonT(40) DEF TaskDesc
      <4> HIDE DEF d
      <4> QED BY <4>1, <4>2, <4>4, Zenon DEF c
    <3>3. CASE DispatchWild
      BY <2>2, <3>3 DEF DispatchWild, DescInv
    <3> QED BY <1>5, <3>1, <3>2, <3>3, Zenon
  <2>4. task'[cur] = d
    BY <1>0, <2>3
  <2>5. ExecInv'
    BY <2>1, <2>3, <2>4 DEF ExecInv
  <2>6. DescInv(d, pc' = "task" /\ tcp' = cur)
    BY <2>1, <2>3 DEF DescInv
  <2> QED BY <1>0, <2>1, <2>2, <2>3, <2>5, <2>6, OneTaskContext, Zenon
<1>6. ASSUME NEW d, Yield, task' = [task EXCEPT ![tcp] = d], DescInv(d, FALSE),
             d.mask = task[tcp].mask, d.entry <=> task[tcp].entry
      PROVE  ContextInv'
  <2>1. pc = "task" /\ tcp # IDLE /\ pc' = "scheduler" /\ tcp' = tcp
    BY <1>6 DEF Yield, Goto, ContextInv, ExecInv
  <2>2. d.entry => SysSig \subseteq d.mask
    BY <1>6, <1>0, <2>1
  <2>3. ExecInv'
    BY <2>1 DEF ExecInv
  <2> QED BY <1>6, <1>0, <2>1, <2>2, <2>3, OneTaskContext, Zenon
<1>7. ASSUME NEW S \in SUBSET Sig, Suspend(S) PROVE ContextInv'
  <2> DEFINE d == set_wait_for_signal(save_context(task[tcp], S), S)
  <2>1. Yield /\ pc = "task" /\ task' = [task EXCEPT ![tcp] = d]
    BY <1>7 DEF Suspend, Yield
  <2>2. DescInv(d, FALSE) /\ d.mask = task[tcp].mask /\ (d.entry <=> task[tcp].entry)
    BY <2>1, WaitContext, Zenon
  <2> HIDE DEF d
  <2> QED BY <2>1, <2>2, <1>6, Zenon
<1>8. ASSUME NEW n \in Nat, mipos_tm_wkafter(n) PROVE ContextInv'
  <2> DEFINE w == set_wait_for_signal(save_context(task[tcp], {"ALM"}), {"ALM"})
             d == [w EXCEPT !.tick = n]
  <2>1. Yield /\ pc = "task" /\ task' = [task EXCEPT ![tcp] = d]
    BY <1>8 DEF mipos_tm_wkafter, Yield
  <2>2. /\ w \in TaskDesc /\ DescInv(w, FALSE) /\ w.mask = task[tcp].mask
        /\ w.entry <=> task[tcp].entry
    <3>1. {"ALM"} \in SUBSET Sig
      BY DEF Sig, SysSig
    <3> QED BY <2>1, <3>1, WaitContext, Zenon
  <2> HIDE DEF w
  <2>3. DescInv(d, FALSE) /\ d.mask = task[tcp].mask /\ (d.entry <=> task[tcp].entry)
    BY <2>2 DEF DescInv, TaskDesc
  <2> HIDE DEF d
  <2> QED BY <2>1, <2>3, <1>6, Zenon
<1>9. ASSUME NEW n \in Nat, mipos_tm_sleep(n) PROVE ContextInv'
  <2> DEFINE w == set_wait_for_signal(save_context(task[tcp], {"TMR"}), {"TMR"})
             d == [w EXCEPT !.timeout = rtc + n]
  <2>1. Yield /\ pc = "task" /\ task' = [task EXCEPT ![tcp] = d]
    BY <1>9 DEF mipos_tm_sleep, Yield
  <2>2. /\ w \in TaskDesc /\ DescInv(w, FALSE) /\ w.mask = task[tcp].mask
        /\ w.entry <=> task[tcp].entry
    <3>1. {"TMR"} \in SUBSET Sig
      BY DEF Sig, SysSig
    <3> QED BY <2>1, <3>1, WaitContext, Zenon
  <2> HIDE DEF w
  <2>3. DescInv(d, FALSE) /\ d.mask = task[tcp].mask /\ (d.entry <=> task[tcp].entry)
    BY <2>2 DEF DescInv, TaskDesc
  <2> HIDE DEF d
  <2> QED BY <2>1, <2>3, <1>6, ZenonT(40)
<1>10. CASE TaskReturn
  <2> DEFINE c == task[tcp]
             d == [c EXCEPT !.ctx = "dead"]
  <2>1. Yield /\ pc = "task" /\ task' = [task EXCEPT ![tcp] = d]
    BY <1>10 DEF TaskReturn, Yield
  <2>2. /\ c \in TaskDesc /\ StatusShape(c.status) /\ DescInv(c, TRUE)
        /\ "RUNNING" \in c.status \/ "NOT_RUNNING" \in c.status
    <3>1. c \in TaskDesc /\ StatusShape(c.status) /\ DescInv(c, TRUE)
      BY <1>0, <2>1, Zenon
    <3> QED BY <2>1, <3>1 DEF ContextInv, ExecInv, DescInv
  <2>3. "READY" \notin c.status /\ "SUSPENDED" \notin c.status
    BY <2>2, <1>b, OneBaseBit
  <2> HIDE DEF c
  <2>4. DescInv(d, FALSE) /\ d.mask = c.mask /\ d.entry = c.entry
    BY <2>2, <2>3 DEF DescInv, TaskDesc
  <2> HIDE DEF d
  <2> QED BY <2>1, <2>4, <1>6, Zenon DEF c
<1>11. ASSUME NEW t \in Tid, NEW isRt \in BOOLEAN, mipos_t_create(t, isRt)
       PROVE  ContextInv'
  <2> DEFINE d == t_create(task[t], isRt)
  <2>1. /\ task' = [task EXCEPT ![t] = d] /\ UNCHANGED own /\ t # IDLE
        /\ ~(pc = "task" /\ tcp = t)
    BY <1>11, <1>0 DEF mipos_t_create, FirstFree, Disciplined
  <2>2. /\ d.status = {"READY"} /\ d.entry /\ ~d.wkup /\ d.waiting = {}
        /\ d.mask = Sig
    BY <1>0 DEF t_create, TaskDesc
  <2>3. PICK op : Syscall(op)
    BY <1>11 DEF mipos_t_create
  <2> HIDE DEF d
  <2>4. DescInv(d, FALSE) /\ SysSig \subseteq d.mask
    BY <2>2 DEF DescInv, Sig
  <2> QED BY <1>0, <2>1, <2>3, <2>4, OneCallContext, Zenon
<1>12. ASSUME NEW id \in Tid, mipos_t_delete(id) PROVE ContextInv'
  <2> DEFINE t == get_p_task(id)
             d == t_delete(task[t])
  <2>1. t \in Tid
    BY <1>0 DEF get_p_task
  <2>2. /\ task' = [task EXCEPT ![t] = d] /\ pc' = pc /\ tcp' = tcp
        /\ own' = (own /\ ~(pc = "task" /\ t = tcp))
    BY <1>12 DEF mipos_t_delete, Syscall
  <2> HIDE DEF t
  <2>3. /\ d.status = {"NOT_RUNNING"} /\ ~d.entry /\ ~d.wkup /\ d.waiting = {}
        /\ d.ctxSig = task[t].ctxSig
    BY <1>0, <2>1 DEF t_delete, TaskDesc
  <2> HIDE DEF d
  <2>4. DescInv(d, pc' = "task" /\ tcp' = t)
    BY <2>3 DEF DescInv
  <2>5. ExecInv'
    <3>1. CASE t = tcp
      <4>1. task'[tcp] = d
        BY <1>0, <2>2, <3>1
      <4> QED BY <2>2, <2>3, <3>1, <4>1, ZenonT(40) DEF ContextInv, ExecInv
    <3>2. CASE t # tcp
      <4>1. task'[tcp] = task[tcp] /\ own' = own
        BY <1>0, <2>2, <3>2
      <4> QED BY <2>2, <4>1 DEF ContextInv, ExecInv
    <3> QED BY <3>1, <3>2
  <2>6. t = IDLE => d.waiting = {} /\ d.ctxSig = {}
    BY <1>0, <2>1, <2>3
  <2> QED BY <1>0, <2>1, <2>2, <2>3, <2>4, <2>5, <2>6, OneTaskContext, Zenon
<1>13. ASSUME NEW id \in Tid, NEW s \in NotifySig, mipos_t_notify_signal(id, s)
       PROVE  ContextInv'
  <2> DEFINE t == get_p_task(id)
             c == task[t]
             d == [c EXCEPT !.pending = @ \cup ({s} \cap c.mask)]
  <2>1. t \in Tid
    BY <1>0 DEF get_p_task
  <2>2. task' = [task EXCEPT ![t] = d] /\ UNCHANGED own /\ Syscall("notify")
    BY <1>13 DEF mipos_t_notify_signal
  <2> HIDE DEF t
  <2>3. /\ d.status = c.status /\ d.entry = c.entry /\ d.wkup = c.wkup /\ d.ctx = c.ctx
        /\ d.waiting = c.waiting /\ d.ctxSig = c.ctxSig /\ d.mask = c.mask
    BY <1>0, <2>1 DEF TaskDesc
  <2> HIDE DEF d
  <2>4. /\ DescInv(d, pc = "task" /\ tcp = t)
        /\ t # IDLE /\ d.entry => SysSig \subseteq d.mask
        /\ t = IDLE => d.waiting = {} /\ d.ctxSig = {}
    BY <1>0, <2>1, <2>3 DEF DescInv
  <2> QED BY <1>0, <2>1, <2>2, <2>3, <2>4, OneCallContext, Zenon
<1>14. ASSUME NEW id \in Tid,
              mipos_t_freeze(id) \/ mipos_t_unfreeze(id) \/ mipos_t_restart(id)
       PROVE  ContextInv'
  <2> DEFINE t == get_p_task(id)
             c == task[t]
  <2>1. t \in Tid
    BY <1>0 DEF get_p_task
  <2>2. PICK S, op :
           /\ task' = [task EXCEPT ![t] = [c EXCEPT !.status = S]]
           /\ UNCHANGED own /\ Syscall(op)
           /\ \/ S \ {"FROZEN"} = c.status \ {"FROZEN"}
              \/ c.status = {"ZOMBIE"} /\ S = {"READY"}
    <3>1. CASE mipos_t_freeze(id)
      <4>1. PICK op : Syscall(op)
        BY <3>1 DEF mipos_t_freeze
      <4> DEFINE S == c.status \cup {"FROZEN"}
      <4>2. task' = [task EXCEPT ![t] = [c EXCEPT !.status = S]] /\ UNCHANGED own
        BY <3>1 DEF mipos_t_freeze
      <4>3. S \ {"FROZEN"} = c.status \ {"FROZEN"}
        OBVIOUS
      <4> QED BY <4>1, <4>2, <4>3, Zenon
    <3>2. CASE mipos_t_unfreeze(id)
      BY <3>2, Zenon DEF mipos_t_unfreeze
    <3>3. CASE mipos_t_restart(id)
      BY <3>3, Zenon DEF mipos_t_restart
    <3> QED BY <1>14, <3>1, <3>2, <3>3
  <2> DEFINE d == [c EXCEPT !.status = S]
  <2> HIDE DEF t
  <2>3. /\ d.status = S /\ d.entry = c.entry /\ d.wkup = c.wkup /\ d.ctx = c.ctx
        /\ d.waiting = c.waiting /\ d.ctxSig = c.ctxSig /\ d.mask = c.mask
    BY <1>0, <2>1 DEF TaskDesc
  <2>4. task' = [task EXCEPT ![t] = d] /\ UNCHANGED own /\ Syscall(op)
    BY <2>2
  <2> HIDE DEF d
  <2>5. /\ DescInv(c, pc = "task" /\ tcp = t)
        /\ t # IDLE /\ c.entry => SysSig \subseteq c.mask
        /\ t = IDLE => c.waiting = {} /\ c.ctxSig = {}
    BY <1>0, <2>1
  <2> HIDE DEF c
  <2>6. CASE S \ {"FROZEN"} = c.status \ {"FROZEN"}
    <3>1. \A b \in BaseBits : b \in S <=> b \in c.status
      BY <2>6 DEF BaseBits
    <3>2. DescInv(d, pc = "task" /\ tcp = t)
      BY <1>b, <2>3, <2>5, <3>1 DEF DescInv
    <3>3. "RUNNING" \in c.status => "RUNNING" \in d.status
      BY <1>b, <2>3, <3>1
    <3> QED BY <1>0, <2>1, <2>3, <2>4, <2>5, <3>2, <3>3, OneCallContext, ZenonT(40)
        DEF c
  <2>7. CASE c.status = {"ZOMBIE"} /\ S = {"READY"}
    <3>1. DescInv(d, pc = "task" /\ tcp = t) /\ "RUNNING" \notin c.status
      BY <2>3, <2>5, <2>7 DEF DescInv
    <3> QED BY <1>0, <2>1, <2>3, <2>4, <2>5, <3>1, OneCallContext, ZenonT(40)
        DEF c
  <2> QED BY <2>2, <2>6, <2>7
<1>15. ASSUME NEW id \in Tid, NEW s \in UserSig,
              mipos_t_sig_ignore(id, s) \/ mipos_t_sig_allow(id, s)
       PROVE  ContextInv'
  <2> DEFINE t == get_p_task(id)
             c == task[t]
  <2>1. t \in Tid
    BY <1>0 DEF get_p_task
  <2>2. PICK M : /\ task' = [task EXCEPT ![t] = [c EXCEPT !.mask = M]]
                 /\ c.mask \cap SysSig \subseteq M
                 /\ UNCHANGED own /\ Syscall("sig_mask")
    BY <1>15 DEF mipos_t_sig_ignore, mipos_t_sig_allow
  <2> DEFINE d == [c EXCEPT !.mask = M]
  <2> HIDE DEF t
  <2>3. /\ d.status = c.status /\ d.entry = c.entry /\ d.wkup = c.wkup /\ d.ctx = c.ctx
        /\ d.waiting = c.waiting /\ d.ctxSig = c.ctxSig /\ d.mask = M
    BY <1>0, <2>1 DEF TaskDesc
  <2>4. task' = [task EXCEPT ![t] = d] /\ UNCHANGED own /\ Syscall("sig_mask")
    BY <2>2
  <2> HIDE DEF d
  <2>5. /\ DescInv(d, pc = "task" /\ tcp = t)
        /\ t # IDLE /\ d.entry => SysSig \subseteq d.mask
        /\ t = IDLE => d.waiting = {} /\ d.ctxSig = {}
    BY <1>0, <2>1, <2>2, <2>3 DEF DescInv
  <2> QED BY <1>0, <2>1, <2>3, <2>4, <2>5, OneCallContext, Zenon
<1>16. CASE mipos_update_rtc \/ UNCHANGED vars
  BY <1>16, <1>0
      DEF mipos_update_rtc, vars, ContextInv, ExecInv, MaskInv, DescInv
<1>17. CASE KernelStep
  BY <1>17, <1>1, <1>2, <1>3, <1>4, <1>5 DEF KernelStep
<1>18. CASE YieldStep
  <2>1. ASSUME NEW S \in SUBSET Sig, mipos_t_waitfor_signal(S) PROVE ContextInv'
    <3>1. S \ SysSig \in SUBSET Sig
      OBVIOUS
    <3> QED BY <2>1, <3>1, <1>7 DEF mipos_t_waitfor_signal
  <2>2. CASE mipos_t_suspend
    <3>1. {"WKP"} \in SUBSET Sig
      BY DEF Sig, SysSig
    <3> QED BY <2>2, <3>1, <1>7 DEF mipos_t_suspend
  <2> QED BY <1>18, <2>1, <2>2, <1>8, <1>9, <1>10 DEF YieldStep
<1>19. CASE SyscallStep
  BY <1>19, <1>11, <1>12, <1>13, <1>14, <1>15 DEF SyscallStep
<1> QED BY <1>16, <1>17, <1>18, <1>19 DEF Next

(* In a disciplined application the table of contexts stays consistent.    *)
THEOREM ContextInvariant ==
  ASSUME Disciplined
  PROVE  Spec => []ContextInv
<1>1. Init => ContextInv
  BY ContextInit
<1>2. ContextInv /\ [Next]_vars => ContextInv'
  BY ContextStep
<1> QED BY <1>1, <1>2, PTL DEF Spec

(* The dispatcher, mipos_context_switch_to(p_task->reg_state): in a        *)
(* disciplined application it only ever resumes a live execution of the    *)
(* task itself.                                                            *)
THEOREM ContextsAreOwn ==
  ASSUME Disciplined
  PROVE  Spec => []OwnContext
<1>1. ContextInv => OwnContext
  BY DEF ContextInv, DescInv, OwnContext
<1> QED BY <1>1, ContextInvariant, PTL

(* The TSM, case TASK_RUNNING: in a disciplined application only a task    *)
(* that has returned from its entry point is retired to ZOMBIE.            *)
THEOREM RetiredTasksReturned ==
  ASSUME Disciplined
  PROVE  Spec => []RetiredHasReturned
<1>1. ContextInv => RetiredHasReturned
  BY DEF ContextInv, DescInv, RetiredHasReturned
<1> QED BY <1>1, ContextInvariant, PTL

(* _mipos_t_set_wait_for_signal and _mipos_t_reset_signal_and_run: in a    *)
(* disciplined application a task waits for what its last blocking call    *)
(* asked for, and its mask lets the kernel's own signals through.          *)
THEOREM WaitsMatch ==
  ASSUME Disciplined
  PROVE  Spec => []WaitMatchesCall
<1>1. ContextInv => WaitMatchesCall
  <2> SUFFICES ASSUME ContextInv, NEW t \in Tid,
                      "SUSPENDED" \in task[t].status \/ task[t].wkup
               PROVE  /\ task[t].waiting = task[t].ctxSig
                      /\ task[t].waiting \cap SysSig \subseteq task[t].mask
    BY DEF WaitMatchesCall
  <2>1. /\ DescInv(task[t], pc = "task" /\ tcp = t) /\ StatusShape(task[t].status)
        /\ t # IDLE /\ task[t].entry => SysSig \subseteq task[t].mask
        /\ t = IDLE => task[t].waiting = {}
    BY DEF ContextInv, StatusInv, MaskInv
  <2>2. "NOT_RUNNING" \notin task[t].status
    BY <2>1, OneBaseBit DEF DescInv, BaseBits, Bits
  <2> QED BY <2>1, <2>2 DEF DescInv
<1> QED BY <1>1, ContextInvariant, PTL
=============================================================================
