----------------------------- MODULE MiposQueue -----------------------------
(***************************************************************************)
(* A message queue (mipos_queue.c) and the tasks that use it.              *)
(*                                                                         *)
(* Of the kernel the module keeps what the queue relies on: one task runs  *)
(* until it blocks or yields (run, 0 when the scheduler has control); the  *)
(* search visits the tasks in a circle; a visit to a task suspended on     *)
(* MIPOS_SIGQUE that has the signal makes it READY, and the visit after    *)
(* that one dispatches it; a signal for a slot without a task is dropped.  *)
(* The calls that do not block may come from any context: a task, a        *)
(* real-time task, a callback of the scheduler.                            *)
(***************************************************************************)
EXTENDS Integers

CONSTANTS
  N,          \* number of tasks
  Receivers,  \* the tasks that call mipos_q_receive
  Limit,      \* queue_pool_length
  Item,       \* what is sent
  NoItem,     \* what a receiver holds before its first item
  Ops         \* {} or {"delete"}: tasks are deleted and created

Tasks == 1 .. N

ASSUME QueueAssumption ==
  /\ N \in Nat \ {0}
  /\ Receivers \subseteq Tasks
  /\ Limit \in Nat \ {0}
  /\ NoItem \notin Item

VARIABLES
  item, head, tail, count,  \* mipos_queue_t
  suspended_tid,
  cur,    \* the task visited last
  run,    \* the task that runs, 0: the scheduler has control
  alive,  \* tasks with an entry point
  wait,   \* tasks suspended on MIPOS_SIGQUE by mipos_q_receive
  ready,  \* the ones of them that were made READY
  pend,   \* tasks with MIPOS_SIGQUE in signal_pending
  got,    \* the item delivered last
  ret     \* how the last receive in blocking mode ended

queue == <<item, head, tail, count>>
kernel == <<cur, run, alive, wait, ready>>
vars == <<queue, suspended_tid, kernel, pend, got, ret>>

(* mipos_q_init, made before the tasks use the queue.                      *)
Init ==
  /\ item \in [0 .. Limit - 1 -> {NoItem}]
  /\ head = 0
  /\ tail = 0
  /\ count = 0
  /\ suspended_tid = 0
  /\ cur = N
  /\ run = 0
  /\ alive = Tasks
  /\ wait = {}
  /\ ready = {}
  /\ pend = {}
  /\ got = NoItem
  /\ ret = "none"
-----------------------------------------------------------------------------
(* mipos_q_send.                                                           *)

(* Mutant: the waiter is notified only for the first item, and the test    *)
(* comes after the count was incremented.                                  *)
NotifyFirstOnly ==
  pend' = IF count' = 0 THEN pend \cup ({suspended_tid} \cap alive) ELSE pend

(* mipos_t_notify_signal(suspended_tid, MIPOS_SIGQUE), when there is one.  *)
NotifyWaiter == pend' = pend \cup ({suspended_tid} \cap alive)

(* Mutant: the test lets one item too many in.                             *)
SendOneMore(x) ==
  /\ IF count <= Limit
       THEN /\ count' = count + 1
            /\ item' = [item EXCEPT ![tail] = x]
            /\ tail' = (tail + 1) % Limit
       ELSE UNCHANGED <<count, item, tail>>
  /\ NotifyWaiter
  /\ UNCHANGED <<head, suspended_tid, kernel, got, ret>>

(* Mutant: the index advances before the item is stored.                   *)
SendAdvancesFirst(x) ==
  /\ IF count < Limit
       THEN /\ count' = count + 1
            /\ item' = [item EXCEPT ![(tail + 1) % Limit] = x]
            /\ tail' = (tail + 1) % Limit
       ELSE UNCHANGED <<count, item, tail>>
  /\ NotifyWaiter
  /\ UNCHANGED <<head, suspended_tid, kernel, got, ret>>

mipos_q_send(x) ==
  /\ IF count < Limit
       THEN /\ count' = count + 1
            /\ item' = [item EXCEPT ![tail] = x]
            /\ tail' = (tail + 1) % Limit
       ELSE UNCHANGED <<count, item, tail>>
  /\ NotifyWaiter
  /\ UNCHANGED <<head, suspended_tid, kernel, got, ret>>
-----------------------------------------------------------------------------
(* mipos_q_receive.                                                        *)

TakeItem ==
  /\ count > 0
  /\ got' = item[head]
  /\ head' = (head + 1) % Limit
  /\ count' = count - 1
  /\ UNCHANGED <<item, tail>>

(* The end of the call: it returns 1 with an item, or 0 without.           *)
ReceiveEnd(bl) ==
  \/ /\ TakeItem
     /\ ret' = IF bl THEN "item" ELSE ret
  \/ /\ count = 0
     /\ ret' = IF bl THEN "empty" ELSE ret
     /\ UNCHANGED <<queue, got>>

(* The call suspends its caller when the queue is empty and no other task  *)
(* waits for it.                                                           *)
ReceiveSuspend(t) ==
  /\ run = t /\ t \in Receivers
  /\ count = 0 /\ suspended_tid = 0
  /\ suspended_tid' = t
  /\ wait' = wait \cup {t}
  /\ run' = 0
  /\ UNCHANGED <<queue, cur, alive, ready, pend, got, ret>>

(* Mutant: suspended_tid is cleared whether or not the caller waited.      *)
ReceiveNowClears(t, bl) ==
  /\ run = t /\ t \in Receivers
  /\ bl => count > 0 \/ suspended_tid # 0
  /\ ReceiveEnd(bl)
  /\ suspended_tid' = 0
  /\ UNCHANGED <<kernel, pend>>

(* The call does not suspend its caller.  In non-blocking mode it stores   *)
(* the caller in suspended_tid and clears it again at once.                *)
ReceiveNow(t, bl) ==
  /\ run = t /\ t \in Receivers
  /\ bl => count > 0 \/ suspended_tid # 0
  /\ ReceiveEnd(bl)
  /\ UNCHANGED <<suspended_tid, kernel, pend>>
-----------------------------------------------------------------------------
(* The kernel.                                                             *)

(* Mutant: the search may start over with the first task.                  *)
AdvanceFromFirst(t) ==
  /\ run = 0 /\ t \in {1, (cur % N) + 1}
  /\ cur' = t

(* The search goes to the next task of the circle.                         *)
Advance(t) ==
  /\ run = 0 /\ t = (cur % N) + 1
  /\ cur' = t

(* A free slot, a task whose signal has not come, or a task suspended in a *)
(* call that has nothing to do with the queue.                             *)
Pass(t) ==
  /\ Advance(t)
  /\ t \notin wait \cap (pend \cup ready)
  /\ UNCHANGED <<queue, suspended_tid, run, alive, wait, ready, pend, got, ret>>

(* The TSM finds the signal, takes it and makes the task READY.            *)
Wake(t) ==
  /\ Advance(t)
  /\ t \in (wait \cap pend) \ ready
  /\ ready' = ready \cup {t}
  /\ pend' = pend \ {t}
  /\ UNCHANGED <<queue, suspended_tid, run, alive, wait, got, ret>>

(* The task goes on after its suspension: it drops a signal that came      *)
(* meanwhile, leaves the queue and looks for an item.                      *)
ReceiveResume(t) ==
  /\ Advance(t)
  /\ t \in ready
  /\ run' = t
  /\ wait' = wait \ {t}
  /\ ready' = ready \ {t}
  /\ pend' = pend \ {t}
  /\ suspended_tid' = 0
  /\ ReceiveEnd(TRUE)
  /\ UNCHANGED alive

(* Any other task.                                                         *)
Dispatch(t) ==
  /\ Advance(t)
  /\ t \in alive \ wait
  /\ run' = t
  /\ UNCHANGED <<queue, suspended_tid, alive, wait, ready, pend, got, ret>>

(* Any other blocking call of the task.                                    *)
Yield(t) ==
  /\ run = t
  /\ run' = 0
  /\ UNCHANGED <<queue, suspended_tid, cur, alive, wait, ready, pend, got, ret>>

(* By another task, by a callback, or by the task itself as the last thing *)
(* it does.                                                                *)
mipos_t_delete(t) ==
  /\ t \in alive
  /\ run' = IF run = t THEN 0 ELSE run
  /\ alive' = alive \ {t}
  /\ wait' = wait \ {t}
  /\ ready' = ready \ {t}
  /\ pend' = pend \ {t}
  /\ UNCHANGED <<queue, suspended_tid, cur, got, ret>>

mipos_t_create(t) ==
  /\ t \notin alive
  /\ alive' = alive \cup {t}
  /\ UNCHANGED <<queue, suspended_tid, cur, run, wait, ready, pend, got, ret>>

Visit == \E t \in Tasks : Pass(t) \/ Wake(t) \/ ReceiveResume(t) \/ Dispatch(t)

Next ==
  \/ Visit
  \/ \E x \in Item : mipos_q_send(x)
  \/ \E t \in Tasks : \/ ReceiveSuspend(t)
                      \/ \E bl \in BOOLEAN : ReceiveNow(t, bl)
                      \/ Yield(t)
  \/ /\ "delete" \in Ops
     /\ \E t \in Tasks : mipos_t_delete(t) \/ mipos_t_create(t)

Spec == Init /\ [][Next]_vars

(* The search goes on (mipos_start never returns).  What the application   *)
(* owes: a task that runs yields.  A task whose only blocking call is a    *)
(* receive does not, while another task waits: see                         *)
(* BlockingReceiveDelivers.                                                *)
FairSpec ==
  /\ Spec
  /\ WF_vars(Visit)
  /\ \A t \in Tasks : WF_vars(Yield(t))
-----------------------------------------------------------------------------
(* Properties.                                                             *)

(* The type invariant of the queue.                                        *)
TypeOK ==
  /\ item \in [0 .. Limit - 1 -> Item \cup {NoItem}]
  /\ head \in 0 .. Limit - 1
  /\ tail \in 0 .. Limit - 1
  /\ count \in 0 .. Limit
  /\ suspended_tid \in Tasks \cup {0}
  /\ cur \in Tasks
  /\ run \in alive \cup {0}
  /\ alive \subseteq Tasks
  /\ wait \subseteq alive
  /\ ready \subseteq wait
  /\ pend \subseteq alive
  /\ got \in Item \cup {NoItem}
  /\ ret \in {"none", "item", "empty"}

(* The items in the ring, oldest first.                                    *)
Contents == [i \in 1 .. count |-> item[(head + (i - 1)) % Limit]]

Fifo == INSTANCE MiposFifo WITH items <- Contents, out <- got

(* The ring with its wrapping indices is a bounded FIFO: every receiver    *)
(* gets the oldest item, none is lost, duplicated or overwritten           *)
(* (queue.c:49-52, 94-101).                                                *)
IsFifo == Fifo!Spec

(* No lost wake-up: the task suspended by a receive on an empty queue has  *)
(* its signal, or has been made READY, as soon as there is an item         *)
(* (queue.c:54-56, 84-88).                                                 *)
NoLostWakeup == \A t \in wait : count > 0 => t \in pend \cup ready

(* A task suspended in a receive is the one that the queue remembers, so   *)
(* that a later send finds it (queue.c:84-91).                             *)
WaiterRemembered == \A t \in wait : suspended_tid = t

(* A receive in blocking mode returns an item.                             *)
BlockingReceiveDelivers == ret # "empty"

(* A receiver that waits is resumed once there is an item, however many    *)
(* other tasks the search visits and whatever they send, receive, delete   *)
(* or create meanwhile (kernel.c:260-301, 362-384).                        *)
ReceiverServed == \A t \in Tasks : t \in wait /\ count > 0 ~> t \notin wait
=============================================================================
