---------------------------- MODULE MiposTimers ----------------------------
(***************************************************************************)
(* The software timers of mipOS: the calls of mipos_timer.c and the block  *)
(* of mipos_start that serves them once per scheduler epoch.               *)
(*                                                                         *)
(* pc names the place the kernel is at:                                    *)
(*   "app"     a task runs, or a part of the scheduler other than timers   *)
(*   "scan"    the loop over the active timers, at timer id                *)
(*   "expire"  inside the on-expire handler of timer id                    *)
(*   "cancel"  inside the on-cancel handler of timer id                    *)
(*   "select"  the loop that recomputes next_rtc_timeout, at timer id      *)
(* Tasks and handlers may make any of the calls in Ops, on any timer.  The *)
(* RTC advances asynchronously, also between two iterations of a loop.     *)
(***************************************************************************)
EXTENDS Integers

CONSTANTS
  N,          \* MIPOS_MAX_TIMERS_NO
  Intervals,  \* arguments of mipos_timer_start and mipos_timer_restart
  Periodic,   \* arguments of mipos_timer_start: one-shot, periodic or both
  Ops,        \* what the application uses, see AllOps
  MaxRtc      \* bound: the RTC stops here, no timer is started beyond it

(* "cancel_in_expire": a timer is cancelled by its own on-expire handler.  *)
(* "reuse_in_expire": an on-expire handler deletes its own timer and       *)
(* starts another one, which gets the same id.  "cancel_start": a task     *)
(* starts a timer after a cancellation that the scheduler has not seen.    *)
AllOps == {"start", "cancel", "delete", "restart",
           "cancel_in_expire", "reuse_in_expire", "cancel_start"}

ASSUME TimersAssumption ==
  /\ N \in Nat \ {0}
  /\ Intervals \subseteq Nat
  /\ Periodic \subseteq BOOLEAN
  /\ Ops \subseteq AllOps
  /\ MaxRtc \in Nat

Id == 0 .. N - 1

Flags == {"PERIODIC", "EXPIRED", "CANCELLED"}

(* mipos_timer_t.  expire, cancel: the handler is set.                     *)
TimerDesc ==
  [expire : BOOLEAN, cancel : BOOLEAN, timeout : Nat, interval : Nat,
   flgs : SUBSET Flags]

VARIABLES
  timer,   \* timer_table
  bitmap,  \* timer_bitmap, as a set of ids
  next,    \* next_rtc_timeout, 0 is "undefined"
  rtc,     \* rtc_counter
  pc,      \* where the kernel is
  id       \* the loop variable of the timer block

vars == <<timer, bitmap, next, rtc, pc, id>>

(* scheduler_init.                                                         *)
Init ==
  /\ timer = [i \in Id |-> [expire |-> FALSE, cancel |-> FALSE, timeout |-> 0,
                            interval |-> 0, flgs |-> {}]]
  /\ bitmap = {}
  /\ next = 0
  /\ rtc = 0
  /\ pc = "app"
  /\ id = 0

(* Mutant: the new deadline replaces the cached one.                       *)
SoonerLatest(d) == d

(* next_rtc_timeout, after a deadline d was taken into account.            *)
Sooner(d) == IF next = 0 \/ next > d THEN d ELSE next
-----------------------------------------------------------------------------
(* The calls, made by tasks and by handlers.                               *)

Calling == pc \in {"app", "expire", "cancel"}

Unused == {i \in Id : ~timer[i].expire}

(* mipos_timer_start takes the first slot without an on-expire handler; it *)
(* returns -1 and does nothing when there is none.                         *)
mipos_timer_start(i, onCancel, interval, periodic) ==
  /\ Calling
  /\ i \in Unused
  /\ \A j \in Unused : i <= j
  /\ pc = "expire" /\ i = id => "reuse_in_expire" \in Ops
  /\ pc = "app" /\ next = 0 /\ bitmap # {} => "cancel_start" \in Ops
  /\ rtc + interval <= MaxRtc
  /\ timer' = [timer EXCEPT ![i] =
                 [expire |-> TRUE, cancel |-> onCancel,
                  timeout |-> rtc + interval, interval |-> interval,
                  flgs |-> IF periodic THEN {"PERIODIC"} ELSE {}]]
  /\ bitmap' = bitmap \cup {i}
  /\ next' = Sooner(rtc + interval)
  /\ UNCHANGED <<rtc, pc, id>>

mipos_timer_cancel(i) ==
  /\ Calling
  /\ pc = "expire" /\ i = id => "cancel_in_expire" \in Ops
  /\ i \in bitmap
  /\ timer' = [timer EXCEPT ![i].flgs = @ \cup {"CANCELLED"}]
  /\ next' = 0
  /\ UNCHANGED <<bitmap, rtc, pc, id>>

(* Mutant: the timer stays in the set of active timers.                    *)
DeleteKeepsActive(i) ==
  /\ Calling
  /\ timer' = [timer EXCEPT ![i].expire = FALSE, ![i].cancel = FALSE,
                            ![i].timeout = 0, ![i].flgs = {}]
  /\ UNCHANGED <<bitmap, next, rtc, pc, id>>

mipos_timer_delete(i) ==
  /\ Calling
  /\ timer' = [timer EXCEPT ![i].expire = FALSE, ![i].cancel = FALSE,
                            ![i].timeout = 0, ![i].flgs = {}]
  /\ bitmap' = bitmap \ {i}
  /\ UNCHANGED <<next, rtc, pc, id>>

(* A new interval of 0 keeps the old one.  The code does not refuse an id  *)
(* beyond the table; the model has only the ids of the table.              *)
mipos_timer_restart(i, new) ==
  /\ Calling
  /\ "PERIODIC" \notin timer[i].flgs
  /\ "EXPIRED" \in timer[i].flgs
  /\ LET interval == IF new > 0 THEN new ELSE timer[i].interval
     IN  /\ rtc + interval <= MaxRtc
         /\ timer' = [timer EXCEPT ![i].flgs = @ \ {"EXPIRED"},
                                   ![i].interval = interval,
                                   ![i].timeout = rtc + interval]
  /\ UNCHANGED <<bitmap, next, rtc, pc, id>>

Call ==
  \/ /\ "start" \in Ops
     /\ \E i \in Id, interval \in Intervals, c \in BOOLEAN, p \in Periodic :
          mipos_timer_start(i, c, interval, p)
  \/ "cancel" \in Ops /\ \E i \in Id : mipos_timer_cancel(i)
  \/ "delete" \in Ops /\ \E i \in Id : mipos_timer_delete(i)
  \/ /\ "restart" \in Ops
     /\ \E i \in Id, new \in Intervals \cup {0} : mipos_timer_restart(i, new)
-----------------------------------------------------------------------------
(* The timer block of the scheduler.                                       *)

(* The timers are visited when one is active and the cached deadline is    *)
(* undefined or reached.                                                   *)
Epoch ==
  /\ pc = "app"
  /\ bitmap # {}
  /\ next = 0 \/ rtc >= next
  /\ pc' = "scan"
  /\ id' = 0
  /\ UNCHANGED <<timer, bitmap, next, rtc>>

NextTimer ==
  /\ pc' = "scan"
  /\ id' = id + 1

(* Mutant: the loop runs once too often.                                   *)
SkipPastEnd ==
  /\ pc = "scan" /\ id <= N
  /\ id \in bitmap => /\ "CANCELLED" \notin timer[id].flgs
                      /\ timer[id].timeout > rtc
  /\ NextTimer
  /\ UNCHANGED <<timer, bitmap, next, rtc>>

(* A timer that is not active, or not due.                                 *)
Skip ==
  /\ pc = "scan" /\ id < N
  /\ id \in bitmap => /\ "CANCELLED" \notin timer[id].flgs
                      /\ timer[id].timeout > rtc
  /\ NextTimer
  /\ UNCHANGED <<timer, bitmap, next, rtc>>

Cancelled ==
  /\ pc = "scan" /\ id \in bitmap
  /\ "CANCELLED" \in timer[id].flgs
  /\ bitmap' = bitmap \ {id}
  /\ IF timer[id].cancel THEN pc' = "cancel" /\ UNCHANGED id ELSE NextTimer
  /\ UNCHANGED <<timer, next, rtc>>

CancelReturn ==
  /\ pc = "cancel"
  /\ NextTimer
  /\ UNCHANGED <<timer, bitmap, next, rtc>>

(* Mutant: the test for a deadline comes before the test for a             *)
(* cancellation.                                                           *)
ExpiredFirst ==
  /\ pc = "scan" /\ id \in bitmap
  /\ timer[id].timeout <= rtc
  /\ next' = 0
  /\ timer' = [timer EXCEPT ![id].flgs = @ \cup {"EXPIRED"}]
  /\ pc' = "expire"
  /\ UNCHANGED <<bitmap, rtc, id>>

Expired ==
  /\ pc = "scan" /\ id \in bitmap
  /\ "CANCELLED" \notin timer[id].flgs
  /\ timer[id].timeout <= rtc
  /\ next' = 0
  /\ timer' = [timer EXCEPT ![id].flgs = @ \cup {"EXPIRED"}]
  /\ pc' = "expire"
  /\ UNCHANGED <<bitmap, rtc, id>>

(* Mutant: a one-shot timer stays active.                                  *)
ExpireReturnKeepsActive ==
  /\ pc = "expire"
  /\ timer' = IF "PERIODIC" \notin timer[id].flgs THEN timer
              ELSE [timer EXCEPT ![id].flgs = @ \ {"EXPIRED"},
                                 ![id].timeout = rtc + timer[id].interval]
  /\ NextTimer
  /\ UNCHANGED <<bitmap, next, rtc>>

(* Mutant: the mask that clears the bit is not complemented.               *)
ExpireReturnKeepsOnly ==
  /\ pc = "expire"
  /\ IF "PERIODIC" \notin timer[id].flgs
       THEN bitmap' = bitmap \cap {id} /\ UNCHANGED timer
       ELSE /\ timer' = [timer EXCEPT ![id].flgs = @ \ {"EXPIRED"},
                                      ![id].timeout = rtc + timer[id].interval]
            /\ UNCHANGED bitmap
  /\ NextTimer
  /\ UNCHANGED <<next, rtc>>

(* The flags are read again after the handler returned.                    *)
ExpireReturn ==
  /\ pc = "expire"
  /\ IF "PERIODIC" \notin timer[id].flgs
       THEN bitmap' = bitmap \ {id} /\ UNCHANGED timer
       ELSE /\ timer' = [timer EXCEPT ![id].flgs = @ \ {"EXPIRED"},
                                      ![id].timeout = rtc + timer[id].interval]
            /\ UNCHANGED bitmap
  /\ NextTimer
  /\ UNCHANGED <<next, rtc>>

ScanEnd ==
  /\ pc = "scan" /\ id = N
  /\ pc' = "select"
  /\ id' = 0
  /\ UNCHANGED <<timer, bitmap, next, rtc>>

(* One iteration of the loop that selects the next expiring timer.         *)
Select ==
  /\ pc = "select" /\ id < N
  /\ next' = IF id \in bitmap THEN Sooner(timer[id].timeout) ELSE next
  /\ id' = id + 1
  /\ UNCHANGED <<timer, bitmap, rtc, pc>>

SelectEnd ==
  /\ pc = "select" /\ id = N
  /\ pc' = "app"
  /\ id' = 0
  /\ UNCHANGED <<timer, bitmap, next, rtc>>

TimerBlock ==
  Epoch \/ Skip \/ Cancelled \/ CancelReturn \/ Expired \/ ExpireReturn
  \/ ScanEnd \/ Select \/ SelectEnd

mipos_update_rtc ==
  /\ rtc < MaxRtc
  /\ rtc' = rtc + 1
  /\ UNCHANGED <<timer, bitmap, next, pc, id>>

Next == Call \/ TimerBlock \/ mipos_update_rtc

Spec == Init /\ [][Next]_vars

(* The scheduler is entered over and over, its loops and the handlers end, *)
(* and time passes.                                                        *)
FairSpec == Spec /\ WF_vars(TimerBlock) /\ WF_vars(mipos_update_rtc)
-----------------------------------------------------------------------------
(* Properties.                                                             *)

(* The type invariant of the timer table and of the timer block.           *)
TypeOK ==
  /\ timer \in [Id -> TimerDesc]
  /\ bitmap \subseteq Id
  /\ next \in Nat
  /\ rtc \in Nat
  /\ pc \in {"app", "scan", "expire", "cancel", "select"}
  /\ id \in 0 .. N
  /\ pc \in {"expire", "cancel"} => id < N

(* MIPOS_CALL1 calls handler_on_expire_cbk without a test (kernel.c:219):  *)
(* an active timer always has that handler, whichever timers the handlers  *)
(* before it in the scan deleted, started or cancelled.                    *)
ActiveHasHandler == \A i \in bitmap : timer[i].expire

(* A one-shot timer expires once: outside of its own handler, a one-shot   *)
(* timer that has the EXPIRED flag is not active (kernel.c:216-223).       *)
OneShotOnce ==
  \A i \in bitmap :
    /\ "EXPIRED" \in timer[i].flgs
    /\ "PERIODIC" \notin timer[i].flgs
    => pc = "expire" /\ id = i

(* When tasks run, a defined next_rtc_timeout is not later than the        *)
(* deadline of any timer that is active and not cancelled, so that no      *)
(* timer is served late (timer.c:48-51, kernel.c:238-249).                 *)
NextIsEarliest ==
  pc = "app" /\ next # 0 =>
    \A i \in bitmap :
      "CANCELLED" \notin timer[i].flgs => next <= timer[i].timeout

Armed(i) == timer[i].expire /\ timer[i].flgs \cap {"EXPIRED", "CANCELLED"} = {}

(* A timer that was started, or restarted, expires unless it is cancelled  *)
(* or deleted first (kernel.c:210-219).                                    *)
TimerFires ==
  \A i \in Id : Armed(i) /\ timer[i].timeout <= MaxRtc ~> ~Armed(i)

(* The on-cancel handler of a timer that mipos_timer_cancel accepted is    *)
(* called, unless the timer is deleted first: also when its deadline is    *)
(* reached before the scheduler sees the cancellation (timer.c:94-107,     *)
(* kernel.c:199-210).                                                      *)
CancelNotified ==
  \A i \in Id :
    /\ i \in bitmap
    /\ "CANCELLED" \in timer[i].flgs
    /\ timer[i].cancel
    /\ timer[i].timeout <= MaxRtc
    ~> (pc = "cancel" /\ id = i) \/ ~timer[i].expire
=============================================================================
