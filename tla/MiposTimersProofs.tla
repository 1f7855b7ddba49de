------------------------- MODULE MiposTimersProofs -------------------------
(***************************************************************************)
(* Theorems about the software timers, for every number of timers, every   *)
(* set of intervals and every bound of the RTC.                            *)
(***************************************************************************)
EXTENDS MiposTimers, TLAPS

(* The safety invariant of the timers, for every set of calls.             *)
TimersInv == TypeOK /\ ActiveHasHandler /\ OneShotOnce

LEMMA InitTimersInv == Init => TimersInv
  BY TimersAssumption
  DEF Init, TimersInv, TypeOK, ActiveHasHandler, OneShotOnce, TimerDesc, Id, Flags

(* The descriptor of a timer whose flags and deadline were reset.          *)
LEMMA TimerReset ==
  ASSUME NEW d \in TimerDesc, NEW f \in SUBSET Flags, NEW v \in Nat, NEW w \in Nat
  PROVE  /\ [d EXCEPT !.flgs = f, !.interval = v, !.timeout = w] \in TimerDesc
         /\ [d EXCEPT !.flgs = f, !.timeout = w] \in TimerDesc
  BY Zenon DEF TimerDesc

(* Every step of the timers preserves TimersInv.                           *)
LEMMA NextTimersInv == TimersInv /\ [Next]_vars => TimersInv'
<1> SUFFICES ASSUME TimersInv, [Next]_vars PROVE TimersInv'
  OBVIOUS
<1> USE TimersAssumption DEF TimersInv, TypeOK, ActiveHasHandler, OneShotOnce, Id
<1>1. ASSUME NEW i \in Id, NEW interval \in Intervals, NEW c \in BOOLEAN,
             NEW p \in Periodic, mipos_timer_start(i, c, interval, p)
      PROVE  TimersInv'
  <2> DEFINE d == [expire |-> TRUE, cancel |-> c, timeout |-> rtc + interval,
                   interval |-> interval,
                   flgs |-> IF p THEN {"PERIODIC"} ELSE {}]
  <2>1. d \in TimerDesc /\ d.expire /\ "EXPIRED" \notin d.flgs
    BY DEF TimerDesc, Flags
  <2>2. timer' = [timer EXCEPT ![i] = d] /\ bitmap' = bitmap \cup {i}
        /\ next' = Sooner(rtc + interval) /\ UNCHANGED <<rtc, pc, id>>
    BY <1>1 DEF mipos_timer_start
  <2>3. Sooner(rtc + interval) \in Nat
    BY DEF Sooner
  <2> HIDE DEF d
  <2> QED
    BY <2>1, <2>2, <2>3
<1>2. ASSUME NEW i \in Id, mipos_timer_cancel(i)
      PROVE  TimersInv'
  <2> DEFINE d == [timer[i] EXCEPT !.flgs = @ \cup {"CANCELLED"}]
  <2>1. d \in TimerDesc /\ d.expire = timer[i].expire
        /\ d.flgs = timer[i].flgs \cup {"CANCELLED"}
    BY DEF TimerDesc, Flags
  <2>2. timer' = [timer EXCEPT ![i] = d] /\ next' = 0
        /\ UNCHANGED <<bitmap, rtc, pc, id>>
    BY <1>2 DEF mipos_timer_cancel
  <2> HIDE DEF d
  <2> QED
    BY <2>1, <2>2, Zenon
<1>3. ASSUME NEW i \in Id, mipos_timer_delete(i)
      PROVE  TimersInv'
  <2> DEFINE d == [timer[i] EXCEPT !.expire = FALSE, !.cancel = FALSE,
                                   !.timeout = 0, !.flgs = {}]
  <2>1. d \in TimerDesc
    BY ZenonT(40) DEF TimerDesc
  <2>2. timer' = [timer EXCEPT ![i] = d] /\ bitmap' = bitmap \ {i}
        /\ UNCHANGED <<next, rtc, pc, id>>
    BY <1>3, Zenon DEF mipos_timer_delete
  <2> HIDE DEF d
  <2> QED
    BY <2>1, <2>2, Zenon
<1>4. ASSUME NEW i \in Id, NEW new \in Intervals \cup {0},
             mipos_timer_restart(i, new)
      PROVE  TimersInv'
  <2> DEFINE interval == IF new > 0 THEN new ELSE timer[i].interval
             d == [timer[i] EXCEPT !.flgs = @ \ {"EXPIRED"},
                                   !.interval = interval,
                                   !.timeout = rtc + interval]
  <2>1. interval \in Nat
    BY DEF TimerDesc
  <2>2. timer' = [timer EXCEPT ![i] = d]
        /\ UNCHANGED <<bitmap, next, rtc, pc, id>>
    BY <1>4, Zenon DEF mipos_timer_restart
  <2> HIDE DEF interval
  <2>3. timer[i] \in TimerDesc
    OBVIOUS
  <2>4. timer[i].flgs \ {"EXPIRED"} \in SUBSET Flags /\ rtc + interval \in Nat
    BY <2>1, <2>3 DEF TimerDesc
  <2>5. d \in TimerDesc
    BY <2>1, <2>3, <2>4, TimerReset, Zenon
  <2>6. d.expire = timer[i].expire /\ d.flgs = timer[i].flgs \ {"EXPIRED"}
    BY <2>3 DEF TimerDesc
  <2> HIDE DEF d
  <2> QED
    BY <2>2, <2>5, <2>6
<1>5. CASE Expired
  <2> DEFINE d == [timer[id] EXCEPT !.flgs = @ \cup {"EXPIRED"}]
  <2>1. d \in TimerDesc /\ d.expire = timer[id].expire
    BY <1>5 DEF Expired, TimerDesc, Flags
  <2>2. timer' = [timer EXCEPT ![id] = d] /\ next' = 0 /\ pc' = "expire"
        /\ UNCHANGED <<bitmap, rtc, id>> /\ id \in bitmap /\ pc = "scan"
    BY <1>5 DEF Expired
  <2> HIDE DEF d
  <2> QED
    BY <2>1, <2>2
<1>6. CASE ExpireReturn
  <2>1. CASE "PERIODIC" \notin timer[id].flgs
    BY <1>6, <2>1 DEF ExpireReturn, NextTimer
  <2>2. CASE "PERIODIC" \in timer[id].flgs
    <3> DEFINE d == [timer[id] EXCEPT !.flgs = @ \ {"EXPIRED"},
                                      !.timeout = rtc + timer[id].interval]
    <3>1. pc = "expire" /\ timer[id] \in TimerDesc
      BY <1>6 DEF ExpireReturn
    <3>2. timer[id].flgs \ {"EXPIRED"} \in SUBSET Flags
          /\ rtc + timer[id].interval \in Nat
      BY <3>1 DEF TimerDesc
    <3>3. d \in TimerDesc
      BY <3>1, <3>2, TimerReset, Zenon
    <3>4. d.expire = timer[id].expire /\ d.flgs = timer[id].flgs \ {"EXPIRED"}
      BY <3>1 DEF TimerDesc
    <3>5. timer' = [timer EXCEPT ![id] = d] /\ pc' = "scan" /\ id' = id + 1
          /\ UNCHANGED <<bitmap, next, rtc>>
      BY <1>6, <2>2, Zenon DEF ExpireReturn, NextTimer
    <3> HIDE DEF d
    <3> QED
      BY <3>1, <3>3, <3>4, <3>5
  <2> QED
    BY <2>1, <2>2
<1>7. CASE Cancelled
  BY <1>7 DEF Cancelled, NextTimer
<1>8. CASE Select
  <2>1. Sooner(timer[id].timeout) \in Nat
    BY <1>8 DEF Select, Sooner, TimerDesc
  <2> QED
    BY <1>8, <2>1 DEF Select
<1>9. CASE Epoch \/ Skip \/ CancelReturn \/ ScanEnd \/ SelectEnd
  <2>1. UNCHANGED <<timer, bitmap, next, rtc>>
    BY <1>9 DEF Epoch, Skip, CancelReturn, ScanEnd, SelectEnd
  <2>2. pc # "expire" /\ pc' \in {"app", "scan", "select"}
    BY <1>9 DEF Epoch, Skip, CancelReturn, ScanEnd, SelectEnd, NextTimer
  <2>3. id' \in 0 .. N
    <3>1. CASE Epoch
      BY <3>1 DEF Epoch
    <3>2. CASE Skip
      BY <3>2 DEF Skip, NextTimer
    <3>3. CASE CancelReturn
      BY <3>3 DEF CancelReturn, NextTimer
    <3>4. CASE ScanEnd \/ SelectEnd
      BY <3>4 DEF ScanEnd, SelectEnd
    <3> QED
      BY <1>9, <3>1, <3>2, <3>3, <3>4
  <2> QED
    BY <2>1, <2>2, <2>3
<1>11. CASE mipos_update_rtc
  BY <1>11 DEF mipos_update_rtc
<1>12. CASE UNCHANGED vars
  BY <1>12 DEF vars
<1> QED
  BY <1>1, <1>2, <1>3, <1>4, <1>5, <1>6, <1>7, <1>8, <1>9,
     <1>11, <1>12
  DEF Next, Call, TimerBlock

THEOREM TimersInvariant == Spec => []TimersInv
  BY InitTimersInv, NextTimersInv, PTL DEF Spec

(* The timer table and the timer block keep their types (TypeOK).          *)
THEOREM TimersTypeCorrect == Spec => []TypeOK
<1>1. TimersInv => TypeOK
  BY DEF TimersInv
<1> QED
  BY <1>1, TimersInvariant, PTL

(* The scheduler never calls a null on-expire handler, whatever the tasks  *)
(* and the handlers do to the timers (kernel.c:219).                       *)
THEOREM NoNullHandler == Spec => []ActiveHasHandler
<1>1. TimersInv => ActiveHasHandler
  BY DEF TimersInv
<1> QED
  BY <1>1, TimersInvariant, PTL

(* A one-shot timer that expired is not served again (kernel.c:216-223).   *)
THEOREM OneShotsExpireOnce == Spec => []OneShotOnce
<1>1. TimersInv => OneShotOnce
  BY DEF TimersInv
<1> QED
  BY <1>1, TimersInvariant, PTL
-----------------------------------------------------------------------------
(* The cached deadline.  It is the earliest one as long as no task starts  *)
(* a timer between a cancellation and the next epoch and no interval is 0: *)
(* a cancellation makes the deadline undefined, a start then defines it    *)
(* without regard to the other timers; a deadline of 0 is undefined, too.  *)

CancelThenYield == "cancel_start" \notin Ops /\ 0 \notin Intervals

(* A timer with a handler has an interval, so that the deadline of an      *)
(* active timer is never 0.                                                *)
Positive ==
  /\ \A i \in Id : /\ timer[i].expire => timer[i].interval > 0
                   /\ timer[i].flgs # {} => timer[i].expire
  /\ \A i \in bitmap : timer[i].timeout > 0

(* While tasks run the cached deadline is undefined or bounds every        *)
(* deadline; the loop that selects it has dealt with the timers below id.  *)
Bounds(i) == next # 0 /\ next <= timer[i].timeout

Bounded ==
  /\ pc = "app" => next = 0 \/ \A i \in bitmap : Bounds(i)
  /\ pc = "select" => \A i \in bitmap : i < id => Bounds(i)

DeadlineInv == TimersInv /\ Positive /\ Bounded

LEMMA SoonerBounds ==
  ASSUME TypeOK, NEW d \in Nat \ {0}
  PROVE  /\ Sooner(d) \in Nat \ {0}
         /\ Sooner(d) <= d
         /\ next # 0 => Sooner(d) <= next
  BY DEF Sooner, TypeOK

(* Every step preserves Positive when no timer is started with interval 0. *)
LEMMA NextPositive ==
  ASSUME CancelThenYield, DeadlineInv, [Next]_vars
  PROVE  Positive'
<1> USE TimersAssumption DEF DeadlineInv, TimersInv, TypeOK, Positive, Id
<1>1. ASSUME NEW i \in Id, NEW interval \in Intervals, NEW c \in BOOLEAN,
             NEW p \in Periodic, mipos_timer_start(i, c, interval, p)
      PROVE  Positive'
  <2> DEFINE d == [expire |-> TRUE, cancel |-> c, timeout |-> rtc + interval,
                   interval |-> interval,
                   flgs |-> IF p THEN {"PERIODIC"} ELSE {}]
  <2>1. interval \in Nat \ {0}
    BY DEF CancelThenYield
  <2>2. d.expire /\ d.interval > 0 /\ d.timeout > 0
    BY <2>1
  <2>3. timer' = [timer EXCEPT ![i] = d] /\ bitmap' = bitmap \cup {i}
    BY <1>1 DEF mipos_timer_start
  <2> HIDE DEF d
  <2> QED
    BY <2>2, <2>3
<1>2. ASSUME NEW i \in Id, mipos_timer_delete(i)
      PROVE  Positive'
  <2> DEFINE d == [timer[i] EXCEPT !.expire = FALSE, !.cancel = FALSE,
                                   !.timeout = 0, !.flgs = {}]
  <2>1. ~d.expire /\ d.flgs = {}
    BY DEF TimerDesc
  <2>2. timer' = [timer EXCEPT ![i] = d] /\ bitmap' = bitmap \ {i}
    BY <1>2, Zenon DEF mipos_timer_delete
  <2> HIDE DEF d
  <2> QED
    BY <2>1, <2>2, Zenon
<1>3. ASSUME NEW i \in Id, NEW new \in Intervals \cup {0},
             mipos_timer_restart(i, new)
      PROVE  Positive'
  <2> DEFINE interval == IF new > 0 THEN new ELSE timer[i].interval
             d == [timer[i] EXCEPT !.flgs = @ \ {"EXPIRED"},
                                   !.interval = interval,
                                   !.timeout = rtc + interval]
  <2>1. timer[i].expire /\ timer[i] \in TimerDesc
    BY <1>3 DEF mipos_timer_restart
  <2>2. interval \in Nat /\ interval > 0
    BY <2>1 DEF TimerDesc
  <2>3. timer' = [timer EXCEPT ![i] = d] /\ UNCHANGED bitmap
    BY <1>3, Zenon DEF mipos_timer_restart
  <2> HIDE DEF interval
  <2>4. d.expire = timer[i].expire /\ d.interval = interval
        /\ d.timeout = rtc + interval
    BY <2>1, Zenon DEF TimerDesc
  <2>5. rtc + interval > 0
    BY <2>2
  <2> HIDE DEF d
  <2>6. d.expire /\ d.interval > 0 /\ d.timeout > 0
    BY <2>1, <2>2, <2>4, <2>5
  <2> QED
    BY <2>3, <2>6
<1>4. CASE Expired
  <2> DEFINE d == [timer[id] EXCEPT !.flgs = @ \cup {"EXPIRED"}]
  <2>1. id \in bitmap /\ timer[id] \in TimerDesc
    BY <1>4 DEF Expired
  <2>2. timer[id].expire
    BY <2>1 DEF ActiveHasHandler
  <2>3. d.expire = timer[id].expire /\ d.interval = timer[id].interval
        /\ d.timeout = timer[id].timeout
    BY <2>1 DEF TimerDesc
  <2>4. timer' = [timer EXCEPT ![id] = d] /\ UNCHANGED bitmap
    BY <1>4 DEF Expired
  <2> HIDE DEF d
  <2> QED
    BY <2>1, <2>2, <2>3, <2>4, Zenon
<1>5. CASE ExpireReturn
  <2>1. CASE "PERIODIC" \notin timer[id].flgs
    BY <1>5, <2>1 DEF ExpireReturn
  <2>2. CASE "PERIODIC" \in timer[id].flgs
    <3> DEFINE d == [timer[id] EXCEPT !.flgs = @ \ {"EXPIRED"},
                                      !.timeout = rtc + timer[id].interval]
    <3>1. id \in Id /\ timer[id] \in TimerDesc
      BY <1>5 DEF ExpireReturn
    <3>2. timer[id].expire /\ timer[id].interval > 0
          /\ timer[id].interval \in Nat
      BY <2>2, <3>1 DEF TimerDesc
    <3>3. d.expire = timer[id].expire /\ d.interval = timer[id].interval
          /\ d.timeout = rtc + timer[id].interval
      BY <3>1 DEF TimerDesc
    <3>4. timer' = [timer EXCEPT ![id] = d] /\ UNCHANGED bitmap
      BY <1>5, <2>2, Zenon DEF ExpireReturn
    <3>5. rtc + timer[id].interval > 0
      BY <3>2
    <3> HIDE DEF d
    <3>6. d.expire /\ d.interval > 0 /\ d.timeout > 0
      BY <3>2, <3>3, <3>5
    <3> QED
      BY <3>1, <3>4, <3>6
  <2> QED
    BY <2>1, <2>2
<1>6. CASE Cancelled
  BY <1>6 DEF Cancelled
<1>8. ASSUME NEW i \in Id, mipos_timer_cancel(i)
      PROVE  Positive'
  <2> DEFINE d == [timer[i] EXCEPT !.flgs = @ \cup {"CANCELLED"}]
  <2>1. i \in bitmap /\ timer[i] \in TimerDesc
    BY <1>8 DEF mipos_timer_cancel
  <2>2. timer[i].expire
    BY <2>1 DEF ActiveHasHandler
  <2>3. d.expire = timer[i].expire /\ d.interval = timer[i].interval
        /\ d.timeout = timer[i].timeout
    BY <2>1 DEF TimerDesc
  <2>4. timer' = [timer EXCEPT ![i] = d] /\ UNCHANGED bitmap
    BY <1>8 DEF mipos_timer_cancel
  <2> HIDE DEF d
  <2> QED
    BY <2>1, <2>2, <2>3, <2>4, Zenon
<1>7. CASE Epoch \/ Skip \/ CancelReturn \/ ScanEnd \/ Select \/ SelectEnd
           \/ mipos_update_rtc \/ UNCHANGED vars
  <2>1. UNCHANGED <<timer, bitmap>>
    BY <1>7 DEF Epoch, Skip, CancelReturn, ScanEnd, Select, SelectEnd,
                mipos_update_rtc, vars
  <2> QED
    BY <2>1
<1> QED
  BY <1>1, <1>2, <1>3, <1>4, <1>5, <1>6, <1>7, <1>8
  DEF Next, Call, TimerBlock

(* Every step keeps the cached deadline a bound.                           *)
LEMMA NextBounded ==
  ASSUME CancelThenYield, DeadlineInv, [Next]_vars
  PROVE  Bounded'
<1> USE TimersAssumption DEF DeadlineInv, TimersInv, TypeOK, Bounded, Bounds, Id
<1>1. ASSUME NEW i \in Id, NEW interval \in Intervals, NEW c \in BOOLEAN,
             NEW p \in Periodic, mipos_timer_start(i, c, interval, p)
      PROVE  Bounded'
  <2> DEFINE deadline == rtc + interval
  <2>1. deadline \in Nat \ {0}
    BY DEF CancelThenYield
  <2>2. /\ bitmap' = bitmap \cup {i} /\ next' = Sooner(deadline)
        /\ UNCHANGED <<pc, id>> /\ pc # "select" /\ i \notin bitmap
    BY <1>1 DEF mipos_timer_start, Calling, Unused, ActiveHasHandler
  <2>3. timer'[i].timeout = deadline /\ \A j \in Id \ {i} : timer'[j] = timer[j]
    BY <1>1 DEF mipos_timer_start
  <2> HIDE DEF deadline
  <2>4. /\ Sooner(deadline) \in Nat \ {0} /\ Sooner(deadline) <= deadline
        /\ next # 0 => Sooner(deadline) <= next
    BY <2>1, SoonerBounds
  <2>5. ASSUME pc = "app", NEW j \in bitmap
        PROVE  Sooner(deadline) <= timer[j].timeout
    <3>0. next # 0
      BY <1>1, <2>5 DEF mipos_timer_start, CancelThenYield
    <3>1. next # 0 /\ next <= timer[j].timeout /\ timer[j].timeout \in Nat
      BY <2>5, <3>0 DEF TimerDesc
    <3> QED
      BY <2>4, <3>1
  <2> QED
    BY <2>1, <2>2, <2>3, <2>4, <2>5
<1>2. ASSUME NEW i \in Id, mipos_timer_delete(i)
      PROVE  Bounded'
  <2>1. bitmap' = bitmap \ {i} /\ UNCHANGED <<next, pc, id>>
    BY <1>2 DEF mipos_timer_delete
  <2>2. \A j \in Id \ {i} : timer'[j] = timer[j]
    BY <1>2 DEF mipos_timer_delete
  <2> QED
    BY <2>1, <2>2
<1>3. ASSUME NEW i \in Id, NEW new \in Intervals \cup {0},
             mipos_timer_restart(i, new)
      PROVE  Bounded'
  <2>1. UNCHANGED <<bitmap, next, pc, id>>
    BY <1>3 DEF mipos_timer_restart
  <2>2. \A j \in Id \ {i} : timer'[j] = timer[j]
    BY <1>3 DEF mipos_timer_restart
  <2>3. pc = "app" => i \notin bitmap
    BY <1>3 DEF mipos_timer_restart, OneShotOnce
  <2>4. pc # "select"
    BY <1>3 DEF mipos_timer_restart, Calling
  <2> QED
    BY <2>1, <2>2, <2>3, <2>4
<1>9. ASSUME NEW i \in Id, mipos_timer_cancel(i)
      PROVE  Bounded'
  BY <1>9 DEF mipos_timer_cancel, Calling
<1>4. CASE Select
  <2>1. pc = "select" /\ id' = id + 1 /\ UNCHANGED <<timer, bitmap, pc>>
    BY <1>4 DEF Select
  <2>2. CASE id \in bitmap
    <3>1. timer[id].timeout \in Nat \ {0}
      BY <2>2 DEF TimerDesc, Positive
    <3> DEFINE s == Sooner(timer[id].timeout)
    <3>2. /\ s \in Nat \ {0} /\ s <= timer[id].timeout
          /\ next # 0 => s <= next
      BY <3>1, SoonerBounds
    <3>3. next' = s
      BY <1>4, <2>2 DEF Select
    <3> HIDE DEF s
    <3>4. ASSUME NEW j \in bitmap, j < id + 1
          PROVE  s <= timer[j].timeout
      <4>1. CASE j = id
        BY <3>2, <4>1
      <4>2. CASE j < id
        <5>1. next # 0 /\ next <= timer[j].timeout /\ timer[j].timeout \in Nat
          BY <2>1, <4>2 DEF TimerDesc
        <5> QED
          BY <3>2, <5>1
      <4> QED
        BY <3>4, <4>1, <4>2
    <3> QED
      BY <2>1, <3>2, <3>3, <3>4
  <2>3. CASE id \notin bitmap
    <3>1. next' = next
      BY <1>4, <2>3 DEF Select
    <3> QED
      BY <2>1, <2>3, <3>1
  <2> QED
    BY <2>2, <2>3
<1>5. CASE SelectEnd
  BY <1>5 DEF SelectEnd
<1>6. CASE ScanEnd
  BY <1>6 DEF ScanEnd
<1>7. CASE Epoch \/ Skip \/ Cancelled \/ CancelReturn \/ Expired \/ ExpireReturn
  <2>1. pc' \in {"scan", "cancel", "expire"}
    BY <1>7 DEF Epoch, Skip, Cancelled, CancelReturn, Expired, ExpireReturn,
                NextTimer
  <2> QED
    BY <2>1
<1>8. CASE mipos_update_rtc \/ UNCHANGED vars
  <2>1. UNCHANGED <<timer, bitmap, next, pc, id>>
    BY <1>8 DEF mipos_update_rtc, vars
  <2> QED
    BY <2>1
<1> QED
  BY <1>1, <1>2, <1>3, <1>4, <1>5, <1>6, <1>7, <1>8, <1>9
  DEF Next, Call, TimerBlock

THEOREM DeadlineInvariant ==
  ASSUME CancelThenYield
  PROVE  Spec => []DeadlineInv
<1>1. Init => DeadlineInv
  BY InitTimersInv
  DEF Init, DeadlineInv, Positive, Bounded
<1>2. DeadlineInv /\ [Next]_vars => DeadlineInv'
  BY NextTimersInv, NextPositive, NextBounded DEF DeadlineInv
<1> QED
  BY <1>1, <1>2, PTL DEF Spec

(* No timer is served late by the scheduler's own bookkeeping: unless a    *)
(* task starts a timer right after a cancellation, next_rtc_timeout is     *)
(* never later than the deadline of an active timer while tasks run        *)
(* (timer.c:48-51, 103, kernel.c:238-249).                                 *)
THEOREM DeadlineIsEarliest ==
  ASSUME CancelThenYield
  PROVE  Spec => []NextIsEarliest
<1>1. DeadlineInv => NextIsEarliest
  BY DEF DeadlineInv, Bounded, Bounds, NextIsEarliest
<1> QED
  BY <1>1, DeadlineInvariant, PTL
=============================================================================
