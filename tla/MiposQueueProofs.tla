-------------------------- MODULE MiposQueueProofs --------------------------
(***************************************************************************)
(* Theorems about the message queue, for every number of tasks, every set  *)
(* of receivers and every length of the queue.                             *)
(***************************************************************************)
EXTENDS MiposQueue, Sequences, SequenceTheorems, TLAPS

(* The write index follows from the read index and the count.              *)
RingInv == tail = (head + count) % Limit

QueueInv == TypeOK /\ RingInv /\ WaiterRemembered /\ NoLostWakeup

(* The index arithmetic of the ring.                                       *)
LEMMA RingIndex ==
  ASSUME NEW h \in 0 .. Limit - 1, NEW k \in 0 .. Limit
  PROVE  /\ (h + k) % Limit = IF h + k < Limit THEN h + k ELSE h + k - Limit
         /\ (h + k) % Limit \in 0 .. Limit - 1
<1> USE QueueAssumption
<1>1. CASE h + k < Limit
  BY <1>1
<1>2. CASE h + k >= Limit
  BY <1>2
<1> QED
  BY <1>1, <1>2

(* The effect of a successful send on the ring.                            *)
LEMMA PutStep ==
  ASSUME TypeOK, RingInv, count < Limit,
         NEW x \in Item,
         count' = count + 1,
         item' = [item EXCEPT ![tail] = x],
         tail' = (tail + 1) % Limit,
         head' = head
  PROVE  /\ item' \in [0 .. Limit - 1 -> Item \cup {NoItem}]
         /\ tail' \in 0 .. Limit - 1
         /\ count' \in 0 .. Limit
         /\ RingInv'
<1>1. /\ head \in 0 .. Limit - 1 /\ tail \in 0 .. Limit - 1
      /\ count \in 0 .. Limit /\ count + 1 \in 0 .. Limit /\ 1 \in 0 .. Limit
  BY QueueAssumption DEF TypeOK
<1>2. /\ (tail + 1) % Limit = IF tail + 1 < Limit THEN tail + 1
                              ELSE tail + 1 - Limit
      /\ (tail + 1) % Limit \in 0 .. Limit - 1
  BY <1>1, RingIndex
<1>3. tail = IF head + count < Limit THEN head + count ELSE head + count - Limit
  BY <1>1, RingIndex DEF RingInv
<1>4. (head + (count + 1)) % Limit =
        IF head + (count + 1) < Limit THEN head + (count + 1)
        ELSE head + (count + 1) - Limit
  BY <1>1, RingIndex
<1>5. tail' = (head + (count + 1)) % Limit
  BY QueueAssumption, <1>1, <1>2, <1>3, <1>4
<1> QED
  BY <1>1, <1>2, <1>5 DEF TypeOK, RingInv

(* The effect of a delivery on the ring.                                   *)
LEMMA TakeStep ==
  ASSUME TypeOK, RingInv, TakeItem
  PROVE  /\ head' \in 0 .. Limit - 1
         /\ count' \in 0 .. Limit
         /\ got' \in Item \cup {NoItem}
         /\ RingInv'
<1>1. /\ head \in 0 .. Limit - 1 /\ count \in 1 .. Limit
      /\ count - 1 \in 0 .. Limit /\ 1 \in 0 .. Limit
  BY QueueAssumption DEF TypeOK, TakeItem
<1>2. /\ head' = (head + 1) % Limit /\ count' = count - 1 /\ tail' = tail
      /\ got' = item[head]
  BY DEF TakeItem
<1>3. /\ head' = IF head + 1 < Limit THEN head + 1 ELSE head + 1 - Limit
      /\ head' \in 0 .. Limit - 1
  BY <1>1, <1>2, RingIndex
<1>4. tail = IF head + count < Limit THEN head + count ELSE head + count - Limit
  BY <1>1, RingIndex DEF RingInv
<1>5. (head' + (count - 1)) % Limit =
        IF head' + (count - 1) < Limit THEN head' + (count - 1)
        ELSE head' + (count - 1) - Limit
  BY <1>1, <1>3, RingIndex
<1>6. tail = (head' + (count - 1)) % Limit
  BY QueueAssumption, <1>1, <1>3, <1>4, <1>5
<1> QED
  BY <1>1, <1>2, <1>3, <1>6 DEF TypeOK, RingInv

LEMMA InitQueueInv == Init => QueueInv
<1> SUFFICES ASSUME Init PROVE QueueInv
  OBVIOUS
<1>1. TypeOK
  BY QueueAssumption DEF Init, TypeOK, Tasks
<1>2. RingInv
  BY QueueAssumption, RingIndex DEF Init, RingInv
<1> QED
  BY <1>1, <1>2 DEF Init, QueueInv, WaiterRemembered, NoLostWakeup

(* Every step of the queue and of its tasks preserves QueueInv.            *)
LEMMA NextQueueInv == QueueInv /\ [Next]_vars => QueueInv'
<1> SUFFICES ASSUME QueueInv, [Next]_vars PROVE QueueInv'
  OBVIOUS
<1> USE QueueAssumption DEF QueueInv
<1>1. ASSUME NEW x \in Item, mipos_q_send(x)
      PROVE  QueueInv'
  <2>1. /\ UNCHANGED <<head, suspended_tid, cur, run, alive, wait, ready,
                       got, ret>>
        /\ pend' = pend \cup ({suspended_tid} \cap alive)
    BY <1>1 DEF mipos_q_send, NotifyWaiter, kernel
  <2>2. WaiterRemembered' /\ NoLostWakeup'
    BY <2>1 DEF WaiterRemembered, NoLostWakeup, TypeOK
  <2>3. CASE count < Limit
    BY <1>1, <2>1, <2>2, <2>3, PutStep DEF mipos_q_send, TypeOK
  <2>4. CASE ~(count < Limit)
    BY <1>1, <2>1, <2>2, <2>4 DEF mipos_q_send, TypeOK, RingInv
  <2> QED
    BY <2>3, <2>4
<1>2. ASSUME NEW t \in Tasks, ReceiveSuspend(t)
      PROVE  QueueInv'
  <2>1. /\ run = t /\ count = 0 /\ suspended_tid = 0
        /\ suspended_tid' = t /\ wait' = wait \cup {t} /\ run' = 0
        /\ UNCHANGED <<item, head, tail, count, cur, alive, ready, pend,
                       got, ret>>
    BY <1>2 DEF ReceiveSuspend, queue
  <2>2. t \in alive /\ wait = {}
    BY <2>1 DEF TypeOK, WaiterRemembered, Tasks
  <2>3. WaiterRemembered' /\ NoLostWakeup'
    BY <2>1, <2>2 DEF WaiterRemembered, NoLostWakeup
  <2> QED
    BY <2>1, <2>2, <2>3 DEF TypeOK, RingInv
<1>3. ASSUME NEW t \in Tasks, NEW bl \in BOOLEAN, ReceiveNow(t, bl)
      PROVE  QueueInv'
  <2>1. UNCHANGED <<suspended_tid, cur, run, alive, wait, ready, pend>>
    BY <1>3 DEF ReceiveNow, kernel
  <2>2. CASE TakeItem /\ ret' = IF bl THEN "item" ELSE ret
    <3>1. count' = count - 1 /\ UNCHANGED <<item, tail>>
      BY <2>2 DEF TakeItem
    <3>2. WaiterRemembered' /\ NoLostWakeup'
      BY <2>1, <2>2, <3>1 DEF WaiterRemembered, NoLostWakeup, TakeItem
    <3> QED
      BY <2>1, <2>2, <3>1, <3>2, TakeStep DEF TypeOK
  <2>3. CASE UNCHANGED <<queue, got>> /\ ret' = IF bl THEN "empty" ELSE ret
    BY <2>1, <2>3 DEF queue, TypeOK, RingInv, WaiterRemembered, NoLostWakeup
  <2> QED
    BY <1>3, <2>2, <2>3 DEF ReceiveNow, ReceiveEnd
<1>4. ASSUME NEW t \in Tasks, ReceiveResume(t)
      PROVE  QueueInv'
  <2>1. /\ run' = t /\ t \in wait /\ wait' = wait \ {t} /\ pend' = pend \ {t}
        /\ ready' = ready \ {t} /\ cur' = t
        /\ suspended_tid' = 0 /\ UNCHANGED alive
    BY <1>4 DEF ReceiveResume, Advance, TypeOK
  <2>2. wait' = {}
    BY <2>1 DEF WaiterRemembered
  <2>3. WaiterRemembered' /\ NoLostWakeup'
    BY <2>2 DEF WaiterRemembered, NoLostWakeup
  <2>4. CASE TakeItem /\ ret' = "item"
    <3>1. UNCHANGED <<item, tail>>
      BY <2>4 DEF TakeItem
    <3> QED
      BY <2>1, <2>3, <2>4, <3>1, TakeStep DEF TypeOK
  <2>5. CASE UNCHANGED <<queue, got>> /\ ret' = "empty"
    BY <2>1, <2>3, <2>5 DEF queue, TypeOK, RingInv
  <2> QED
    BY <1>4, <2>4, <2>5 DEF ReceiveResume, ReceiveEnd
<1>5. ASSUME NEW t \in Tasks, Dispatch(t) \/ Yield(t) \/ Pass(t) \/ Wake(t)
      PROVE  QueueInv'
  BY <1>5, ZenonT(40)
      DEF Dispatch, Yield, Pass, Wake, Advance, queue, TypeOK, RingInv,
              WaiterRemembered, NoLostWakeup
<1>6. ASSUME NEW t \in Tasks, mipos_t_delete(t)
      PROVE  QueueInv'
  BY <1>6 DEF mipos_t_delete, queue, TypeOK, RingInv, WaiterRemembered,
              NoLostWakeup
<1>7. ASSUME NEW t \in Tasks, mipos_t_create(t)
      PROVE  QueueInv'
  BY <1>7 DEF mipos_t_create, queue, TypeOK, RingInv, WaiterRemembered,
              NoLostWakeup
<1>8. CASE UNCHANGED vars
  BY <1>8 DEF vars, queue, kernel, TypeOK, RingInv, WaiterRemembered,
              NoLostWakeup
<1> QED
  BY <1>1, <1>2, <1>3, <1>4, <1>5, <1>6, <1>7, <1>8 DEF Next, Visit

THEOREM QueueInvariant == Spec => []QueueInv
  BY InitQueueInv, NextQueueInv, PTL DEF Spec

(* The queue keeps its types; the indices stay inside the pool (TypeOK).   *)
THEOREM QueueTypeCorrect == Spec => []TypeOK
<1>1. QueueInv => TypeOK
  BY DEF QueueInv
<1> QED
  BY <1>1, QueueInvariant, PTL

(* No lost wake-up: a task that waits on the queue has its signal as soon  *)
(* as there is an item, with any number of senders and receivers and with  *)
(* tasks deleted at any time (queue.c:54-56, 84-88).                       *)
THEOREM NoWakeupLost == Spec => []NoLostWakeup
<1>1. QueueInv => NoLostWakeup
  BY DEF QueueInv
<1> QED
  BY <1>1, QueueInvariant, PTL

(* The queue remembers the task that waits on it; at most one does         *)
(* (queue.c:84-91).                                                        *)
THEOREM WaiterIsRemembered == Spec => []WaiterRemembered
<1>1. QueueInv => WaiterRemembered
  BY DEF QueueInv
<1> QED
  BY <1>1, QueueInvariant, PTL
-----------------------------------------------------------------------------
(* The ring implements the bounded FIFO.                                   *)

(* Append and Tail as functions.                                           *)
LEMMA AppendFunction ==
  ASSUME NEW S, NEW s \in Seq(S), NEW x \in S
  PROVE  Append(s, x) = [i \in 1 .. Len(s) + 1 |->
                           IF i = Len(s) + 1 THEN x ELSE s[i]]
<1> DEFINE a == Append(s, x)
<1>1. /\ a \in Seq(S) /\ Len(a) = Len(s) + 1 /\ Len(s) \in Nat
      /\ \A i \in 1 .. Len(s) : a[i] = s[i]
      /\ a[Len(s) + 1] = x
  BY AppendProperties, LenProperties
<1> HIDE DEF a
<1>2. a \in [1 .. Len(a) -> S]
  BY <1>1, LenProperties
<1>3. \A i \in 1 .. Len(s) + 1 : a[i] = IF i = Len(s) + 1 THEN x ELSE s[i]
  BY <1>1
<1>4. a = [i \in 1 .. Len(s) + 1 |-> IF i = Len(s) + 1 THEN x ELSE s[i]]
  BY <1>1, <1>2, <1>3
<1> QED
  BY <1>4 DEF a

LEMMA TailFunction ==
  ASSUME NEW S, NEW s \in Seq(S), s # <<>>
  PROVE  Tail(s) = [i \in 1 .. Len(s) - 1 |-> s[i + 1]]
<1> DEFINE a == Tail(s)
<1>1. /\ a \in Seq(S) /\ Len(a) = Len(s) - 1
      /\ \A i \in 1 .. Len(a) : a[i] = s[i + 1]
  BY HeadTailProperties
<1> HIDE DEF a
<1>2. a \in [1 .. Len(a) -> S]
  BY <1>1, LenProperties
<1>3. a = [i \in 1 .. Len(s) - 1 |-> s[i + 1]]
  BY <1>1, <1>2
<1> QED
  BY <1>3 DEF a

LEMMA ContentsIsSeq ==
  ASSUME TypeOK
  PROVE  Contents \in Seq(Item \cup {NoItem}) /\ Len(Contents) = count
<1>1. ASSUME NEW i \in 1 .. count
      PROVE  item[(head + (i - 1)) % Limit] \in Item \cup {NoItem}
  <2>1. head \in 0 .. Limit - 1 /\ i - 1 \in 0 .. Limit
    BY QueueAssumption DEF TypeOK
  <2>2. (head + (i - 1)) % Limit \in 0 .. Limit - 1
    BY <2>1, RingIndex
  <2> QED
    BY <2>2 DEF TypeOK
<1>2. count \in Nat
  BY QueueAssumption DEF TypeOK
<1> QED
  BY <1>1, <1>2 DEF Contents

(* A successful send appends to the contents.                              *)
LEMMA PutAppends ==
  ASSUME TypeOK, RingInv, count < Limit,
         NEW x \in Item,
         count' = count + 1,
         item' = [item EXCEPT ![tail] = x],
         head' = head
  PROVE  /\ Len(Contents) < Limit
         /\ Contents' = Append(Contents, x)
<1>1. Contents \in Seq(Item \cup {NoItem}) /\ Len(Contents) = count
  BY ContentsIsSeq
<1>2. head \in 0 .. Limit - 1 /\ count \in 0 .. Limit
  BY DEF TypeOK
<1>3. tail = IF head + count < Limit THEN head + count ELSE head + count - Limit
  BY <1>2, RingIndex DEF RingInv
<1>4. ASSUME NEW i \in 1 .. count
      PROVE  item'[(head + (i - 1)) % Limit] = Contents[i]
  <2>1. i - 1 \in 0 .. Limit
    BY QueueAssumption, <1>2
  <2>2. /\ (head + (i - 1)) % Limit =
             IF head + (i - 1) < Limit THEN head + (i - 1)
             ELSE head + (i - 1) - Limit
        /\ (head + (i - 1)) % Limit \in 0 .. Limit - 1
    BY <1>2, <2>1, RingIndex
  <2>3. (head + (i - 1)) % Limit # tail
    BY QueueAssumption, <1>2, <1>3, <2>2
  <2>4. Contents[i] = item[(head + (i - 1)) % Limit]
    BY DEF Contents
  <2> QED
    BY <2>2, <2>3, <2>4 DEF TypeOK
<1>5. item'[(head + ((count + 1) - 1)) % Limit] = x
  <2>1. (count + 1) - 1 = count
    BY <1>2
  <2> QED
    BY <2>1 DEF TypeOK, RingInv
<1>6. Contents' = [i \in 1 .. count + 1 |-> item'[(head + (i - 1)) % Limit]]
  BY DEF Contents
<1>7. Append(Contents, x) =
        [i \in 1 .. Len(Contents) + 1 |->
           IF i = Len(Contents) + 1 THEN x ELSE Contents[i]]
  BY <1>1, AppendFunction
<1>8. ASSUME NEW i \in 1 .. count + 1
      PROVE  item'[(head + (i - 1)) % Limit] =
               IF i = count + 1 THEN x ELSE Contents[i]
  <2>1. CASE i = count + 1
    BY <1>5, <2>1
  <2>2. CASE i # count + 1
    <3>1. i \in 1 .. count
      BY <1>2, <2>2
    <3> QED
      BY <1>4, <2>2, <3>1
  <2> QED
    BY <2>1, <2>2
<1> QED
  BY <1>1, <1>6, <1>7, <1>8

(* A delivery takes the head of the contents.                              *)
LEMMA TakeIsGet ==
  ASSUME TypeOK, TakeItem
  PROVE  Fifo!Get
<1>1. Contents \in Seq(Item \cup {NoItem}) /\ Len(Contents) = count
  BY ContentsIsSeq
<1>2. /\ head' = (head + 1) % Limit /\ count' = count - 1
      /\ item' = item /\ got' = item[head]
  BY DEF TakeItem
<1>3. /\ head \in 0 .. Limit - 1 /\ count \in 1 .. Limit
      /\ 0 \in 0 .. Limit /\ 1 \in 0 .. Limit
  BY QueueAssumption DEF TypeOK, TakeItem
<1>4. Contents # <<>>
  BY <1>1, <1>3
<1>5. Head(Contents) = item[head]
  <2>1. (head + 0) % Limit = IF head + 0 < Limit THEN head + 0
                             ELSE head + 0 - Limit
    BY <1>3, RingIndex
  <2>2. Contents[1] = item[(head + (1 - 1)) % Limit]
    BY <1>3 DEF Contents
  <2>3. 1 - 1 = 0
    OBVIOUS
  <2>4. Head(Contents) = Contents[1]
    BY <1>1, <1>4
  <2>5. (head + 0) % Limit = head
    BY QueueAssumption, <1>3, <2>1
  <2> QED
    BY <2>2, <2>3, <2>4, <2>5
<1>6. /\ head' = IF head + 1 < Limit THEN head + 1 ELSE head + 1 - Limit
      /\ head' \in 0 .. Limit - 1
  BY <1>2, <1>3, RingIndex
<1>7. ASSUME NEW i \in 1 .. count - 1
      PROVE  item[(head' + (i - 1)) % Limit] = Contents[i + 1]
  <2>1. i - 1 \in 0 .. Limit /\ i \in 0 .. Limit /\ i + 1 \in 1 .. count
        /\ (i + 1) - 1 = i
    BY QueueAssumption, <1>3
  <2>2. (head' + (i - 1)) % Limit =
          IF head' + (i - 1) < Limit THEN head' + (i - 1)
          ELSE head' + (i - 1) - Limit
    BY <1>6, <2>1, RingIndex
  <2>3. (head + i) % Limit =
          IF head + i < Limit THEN head + i ELSE head + i - Limit
    BY <1>3, <2>1, RingIndex
  <2>4. (head' + (i - 1)) % Limit = (head + i) % Limit
    BY QueueAssumption, <1>3, <1>6, <2>1, <2>2, <2>3
  <2>5. Contents[i + 1] = item[(head + ((i + 1) - 1)) % Limit]
    BY <2>1 DEF Contents
  <2> QED
    BY <2>1, <2>4, <2>5
<1>8. Contents' = [i \in 1 .. count - 1 |-> item[(head' + (i - 1)) % Limit]]
  BY <1>2 DEF Contents
<1>9. Tail(Contents) = [i \in 1 .. Len(Contents) - 1 |-> Contents[i + 1]]
  BY <1>1, <1>4, TailFunction
<1>10. Contents' = Tail(Contents)
  BY <1>1, <1>7, <1>8, <1>9
<1> QED
  BY <1>2, <1>4, <1>5, <1>10 DEF Fifo!Get

(* The ring of mipos_queue.c with its wrapping indices implements a        *)
(* bounded FIFO: it delivers what was sent, in order, each item once       *)
(* (queue.c:49-52, 94-101).                                                *)
THEOREM QueueIsFifo == Spec => IsFifo
<1>1. Init => Fifo!Init
  <2> SUFFICES ASSUME Init PROVE Fifo!Init
    OBVIOUS
  <2>1. Contents = <<>>
    BY DEF Init, Contents
  <2> QED
    BY <2>1 DEF Init, Fifo!Init
<1>2. QueueInv /\ [Next]_vars => [Fifo!Next]_<<Contents, got>>
  <2> SUFFICES ASSUME QueueInv, [Next]_vars
               PROVE  Fifo!Next \/ UNCHANGED <<Contents, got>>
    OBVIOUS
  <2> USE DEF QueueInv
  <2>1. ASSUME NEW x \in Item, mipos_q_send(x)
        PROVE  Fifo!Next \/ UNCHANGED <<Contents, got>>
    <3>1. CASE count < Limit
      <4>1. Len(Contents) < Limit /\ Contents' = Append(Contents, x)
        BY <2>1, <3>1, PutAppends DEF mipos_q_send
      <4>2. Fifo!Put(x)
        BY <2>1, <4>1 DEF mipos_q_send, Fifo!Put
      <4> QED
        BY <4>2 DEF Fifo!Next
    <3>2. CASE ~(count < Limit)
      BY <2>1, <3>2 DEF mipos_q_send, Contents
    <3> QED
      BY <3>1, <3>2
  <2>2. ASSUME NEW bl \in BOOLEAN, ReceiveEnd(bl)
        PROVE  Fifo!Next \/ UNCHANGED <<Contents, got>>
    <3>1. CASE TakeItem
      BY <3>1, TakeIsGet DEF Fifo!Next
    <3>2. CASE UNCHANGED <<queue, got>>
      BY <3>2 DEF queue, Contents
    <3> QED
      BY <2>2, <3>1, <3>2 DEF ReceiveEnd
  <2>3. CASE UNCHANGED <<queue, got>>
    BY <2>3 DEF queue, Contents
  <2>4. ASSUME NEW t \in Tasks
        PROVE  /\ ReceiveSuspend(t) => UNCHANGED <<queue, got>>
               /\ Dispatch(t) => UNCHANGED <<queue, got>>
               /\ Yield(t) => UNCHANGED <<queue, got>>
               /\ Pass(t) => UNCHANGED <<queue, got>>
               /\ Wake(t) => UNCHANGED <<queue, got>>
               /\ mipos_t_delete(t) => UNCHANGED <<queue, got>>
               /\ mipos_t_create(t) => UNCHANGED <<queue, got>>
    BY DEF ReceiveSuspend, Dispatch, Yield, Pass, Wake, mipos_t_delete,
           mipos_t_create
  <2>5. UNCHANGED vars => UNCHANGED <<queue, got>>
    BY DEF vars, queue
  <2>6. ASSUME NEW t \in Tasks
        PROVE  /\ ReceiveResume(t) => ReceiveEnd(TRUE)
               /\ \A bl \in BOOLEAN : ReceiveNow(t, bl) => ReceiveEnd(bl)
    BY Zenon DEF ReceiveResume, ReceiveNow
  <2> QED
    BY <2>1, <2>2, <2>3, <2>4, <2>5, <2>6, Zenon DEF Next, Visit
<1> QED
  BY <1>1, <1>2, QueueInvariant, PTL DEF Spec, IsFifo, Fifo!Spec
=============================================================================
