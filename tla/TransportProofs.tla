--------------------------- MODULE TransportProofs --------------------------
(* Two parts of the core that hand work from one thread to another, each for  *)
(* every value of its constants. The event queue: no notification and no      *)
(* producer is lost, events keep their order, and the byte budget is kept.    *)
(* Attachments: no transfer is left hanging or told of its end twice, a       *)
(* cancelled upload does not begin, and the permits are those of the live     *)
(* requests and within the limits. The parts have no variable in common and   *)
(* are not composed: each theorem is about one of the two specifications.     *)
EXTENDS EventQueue, Attachments, FiniteSetTheorems, TLAPS

-----------------------------------------------------------------------------
(* The event queue.                                                           *)

(* signal_poll_backend leaves its loop when its polls are used up.            *)
PollsLeft == main = "polling" => budget > 0

(* A producer inside emit holds a real event.                                 *)
HoldsEvent == \A p \in Producers : pc[p] \in {"emitting", "asleep"} => event[p] \in Events

(* The queue as consecutive intervals of the stream of accepted bytes: this   *)
(* is what makes queued_bytes a sum without summing.                          *)
Start(i) == queue[i].end - queue[i].size
Stream ==
    /\ queue = <<>> => queuedBytes = 0
    /\ \A i \in 1..Len(queue) : queue[i].end =< total
    /\ queue # <<>> => Start(1) = total - queuedBytes
    /\ queue # <<>> => queue[Len(queue)].end = total
    /\ \A i, j \in 1..Len(queue) : j = i + 1 => Start(j) = queue[i].end
    /\ \A i, j \in 1..Len(queue) : i < j => queue[i].end =< Start(j)

QueueInv ==
    /\ QueueTypeOK /\ PollsLeft /\ HoldsEvent /\ Stream
    /\ LevelTriggered /\ PendingMatchesSocket /\ AsleepHasReason /\ OversizedAlone

(* The elements of a typed queue have natural sizes and positions.            *)
LEMMA QueuedFields ==
  ASSUME NEW q \in Seq(Queued), NEW i \in 1..Len(q)
  PROVE  q[i] \in Queued /\ q[i].size \in Nat /\ q[i].end \in Nat
<1>1. q[i] \in Queued
  OBVIOUS
<1>2. q[i].size \in EventSizes /\ q[i].end \in Nat
  BY <1>1, Zenon DEF Queued
<1> QED BY <1>1, <1>2, QueueAssumption, Zenon

(* A new queue (event_queue_with_byte_limit) satisfies the invariant.         *)
LEMMA QueueInitially == QueueInit => QueueInv
<1> SUFFICES ASSUME QueueInit PROVE QueueInv
  BY Zenon
<1>1. QueueTypeOK
  <2>1. emits \in [Producers -> 0..MaxEmits] /\ budget \in 0..Batch
    BY QueueAssumption DEF QueueInit
  <2>2. /\ pc \in [Producers -> {"idle", "emitting", "asleep", "exited"}]
        /\ event \in [Producers -> Events \cup {NoEvent}]
    BY Zenon DEF QueueInit
  <2>3. /\ queue \in Seq(Queued) /\ dispatched \in Seq(Queued)
        /\ queuedBytes \in Nat /\ total \in Nat /\ notifier \in Nat
    BY DEF QueueInit
  <2>4. /\ pending \in BOOLEAN /\ closed \in BOOLEAN /\ watching \in BOOLEAN
        /\ main \in {"loop", "polling", "joining", "joined"}
    BY Zenon DEF QueueInit
  <2> QED BY <2>1, <2>2, <2>3, <2>4, Zenon DEF QueueTypeOK
<1>5. PollsLeft /\ HoldsEvent
  BY Zenon DEF QueueInit, PollsLeft, HoldsEvent
<1>2. queue = <<>> /\ Len(queue) = 0 /\ queuedBytes = 0
  BY Zenon DEF QueueInit
<1>3. Stream /\ OversizedAlone
  BY <1>2, QueueAssumption DEF Stream, OversizedAlone
<1>4. LevelTriggered /\ PendingMatchesSocket /\ AsleepHasReason
  BY Zenon DEF QueueInit, LevelTriggered, PendingMatchesSocket, AsleepHasReason
<1> QED BY <1>1, <1>3, <1>4, <1>5, Zenon DEF QueueInv

(* What emit appends: the queue grows by one interval at the end of the       *)
(* stream.                                                                    *)
LEMMA SendInv ==
  ASSUME QueueInv, NEW p \in Producers, EmitSend(p)
  PROVE  QueueInv'
<1> DEFINE e == event[p]
           q == [src |-> e.src, seq |-> e.seq, size |-> e.size, end |-> total + e.size]
<1>1. e \in Events /\ e.size \in Nat
  BY QueueAssumption, ZenonT(30) DEF EmitSend, QueueInv, HoldsEvent, Events
<1>2. q \in Queued
  BY <1>1 DEF QueueInv, QueueTypeOK, Queued, Events
<1>3. queue' = Append(queue, q) /\ queuedBytes' = queuedBytes + e.size /\ total' = total + e.size
  BY Zenon DEF EmitSend
<1>4. Len(queue') = Len(queue) + 1 /\ queue'[Len(queue) + 1] = q
      /\ \A i \in 1..Len(queue) : queue'[i] = queue[i]
  BY <1>2, <1>3 DEF QueueInv, QueueTypeOK
<1>5. \A i \in 1..Len(queue) : queue[i] \in Queued /\ queue[i].size \in Nat /\ queue[i].end \in Nat
  BY QueuedFields, Zenon DEF QueueInv, QueueTypeOK
<1>6. QueueTypeOK'
  <2>1. queue' \in Seq(Queued)
    BY <1>2, <1>3 DEF QueueInv, QueueTypeOK
  <2>2. queuedBytes' \in Nat /\ total' \in Nat
    <3>1. queuedBytes \in Nat /\ total \in Nat
      BY Zenon DEF QueueInv, QueueTypeOK
    <3> HIDE DEF e
    <3> QED BY ONLY <3>1, <1>1, <1>3
  <2>3. pending' \in BOOLEAN /\ notifier' \in Nat
    BY DEF QueueInv, QueueTypeOK, EmitSend, NotifyLocked
  <2>4. /\ pc' \in [Producers -> {"idle", "emitting", "asleep", "exited"}]
        /\ event' \in [Producers -> Events \cup {NoEvent}]
    BY Zenon DEF QueueInv, QueueTypeOK, EmitSend, EmitReturn
  <2>5. /\ closed' \in BOOLEAN /\ watching' \in BOOLEAN /\ dispatched' \in Seq(Queued)
        /\ emits' \in [Producers -> 0..MaxEmits] /\ budget' \in 0..Batch
        /\ main' \in {"loop", "polling", "joining", "joined"}
    BY Zenon DEF QueueInv, QueueTypeOK, EmitSend, pollVars
  <2> QED BY <2>1, <2>2, <2>3, <2>4, <2>5, Zenon DEF QueueTypeOK
<1>7. PollsLeft' /\ HoldsEvent'
  BY Zenon DEF QueueInv, QueueTypeOK, PollsLeft, HoldsEvent, EmitSend, EmitReturn,
     pollVars
<1>8. Stream'
  <2> DEFINE n == Len(queue)
  <2>0. n \in Nat /\ queuedBytes \in Nat /\ total \in Nat
    BY DEF QueueInv, QueueTypeOK
  <2>1. queue' # <<>>
    BY <1>4, <2>0
  <2>2. \A i \in 1..Len(queue') : queue'[i].end =< total'
    <3> SUFFICES ASSUME NEW i \in 1..(n + 1) PROVE queue'[i].end =< total'
      BY <1>4, Zenon
    <3>1. CASE i \in 1..n
      BY SMTT(60), <3>1, <1>1, <1>3, <1>4, <1>5, <2>0 DEF QueueInv, Stream
    <3>2. CASE i = n + 1
      BY <3>2, <1>1, <1>3, <1>4, <2>0
    <3> QED BY <3>1, <3>2, <2>0
  <2>3. Start(1)' = total' - queuedBytes'
    <3>1. CASE n = 0
      BY <3>1, <1>1, <1>3, <1>4, <2>0 DEF QueueInv, Stream, Start
    <3>2. CASE n > 0
      <4>1. queue # <<>> /\ 1 \in 1..n
        BY <3>2, <2>0
      <4> QED
        BY SMTT(60), <4>1, <1>1, <1>3, <1>4, <1>5, <2>0 DEF QueueInv, Stream, Start
    <3> QED BY <3>1, <3>2, <2>0
  <2>4. queue'[Len(queue')].end = total'
    BY <1>3, <1>4
  <2>5. \A i, j \in 1..Len(queue') : j = i + 1 => Start(j)' = queue'[i].end
    <3> SUFFICES ASSUME NEW i \in 1..(n + 1), NEW j \in 1..(n + 1), j = i + 1
                 PROVE  queue'[j].end - queue'[j].size = queue'[i].end
      BY <1>4, Zenon DEF Start
    <3>1. i \in 1..n /\ queue # <<>>
      BY <2>0, SMTT(30)
    <3>2. CASE j \in 1..n
      BY <3>1, <3>2, <1>4 DEF QueueInv, Stream, Start
    <3>3. CASE j = n + 1
      BY <3>1, <3>3, <1>1, <1>4, <1>5, <2>0 DEF QueueInv, Stream, Start
    <3> QED BY <3>2, <3>3, <2>0
  <2>6. \A i, j \in 1..Len(queue') : i < j => queue'[i].end =< Start(j)'
    <3> SUFFICES ASSUME NEW i \in 1..(n + 1), NEW j \in 1..(n + 1), i < j
                 PROVE  queue'[i].end =< queue'[j].end - queue'[j].size
      BY <1>4, Zenon DEF Start
    <3>1. i \in 1..n
      BY <2>0
    <3>2. CASE j \in 1..n
      BY <3>1, <3>2, <1>4, Zenon DEF QueueInv, Stream, Start
    <3>3. CASE j = n + 1
      BY SMTT(60), <3>1, <3>3, <1>1, <1>4, <1>5, <2>0 DEF QueueInv, Stream, Start
    <3> QED BY <3>2, <3>3, <2>0
  <2> QED BY <2>1, <2>2, <2>3, <2>4, <2>5, <2>6, Zenon DEF Stream
<1>9. LevelTriggered' /\ PendingMatchesSocket'
  BY DEF QueueInv, QueueTypeOK, LevelTriggered, PendingMatchesSocket,
     EmitSend, NotifyLocked
<1>10. AsleepHasReason'
  <2> SUFFICES ASSUME NEW r \in Producers, pc'[r] = "asleep"
               PROVE  ~closed' /\ (OverBudget(event[r])' \/ Full')
    BY Zenon DEF AsleepHasReason
  <2>1. r # p /\ pc[r] = "asleep" /\ event'[r] = event[r] /\ closed' = closed
    BY Zenon DEF EmitSend, EmitReturn, QueueInv, QueueTypeOK
  <2>2. event[r] \in Events /\ event[r].size \in Nat
    BY <2>1, QueueAssumption, Zenon DEF QueueInv, HoldsEvent, Events
  <2>3. ~closed /\ OverBudget(event[r])
    BY <2>1, Zenon DEF QueueInv, AsleepHasReason, EmitSend
  <2>4. queuedBytes \in Nat /\ MaxQueuedBytes \in Nat
    BY QueueAssumption, Zenon DEF QueueInv, QueueTypeOK
  <2>5. queuedBytes' # 0 /\ queuedBytes' + event'[r].size > MaxQueuedBytes
    <3>1. queuedBytes # 0 /\ queuedBytes + event[r].size > MaxQueuedBytes
      BY <2>3, Zenon DEF OverBudget
    <3>2. event'[r].size = event[r].size
      BY <2>1, Zenon
    <3> HIDE DEF e
    <3> QED BY SMTT(60), <3>1, <3>2, <2>2, <2>4, <1>1, <1>3
  <2> QED
    BY <2>1, <2>3, <2>5, Zenon DEF OverBudget
<1>11. OversizedAlone'
  <2> SUFFICES ASSUME queuedBytes' > MaxQueuedBytes
               PROVE  \E i \in 1..Len(queue') : queue'[i].size = queuedBytes'
    BY Zenon DEF OversizedAlone
  <2>1. queuedBytes = 0
    BY <1>1, <1>3, Zenon DEF EmitSend, OverBudget, QueueInv, QueueTypeOK
  <2>2. Len(queue) + 1 \in 1..Len(queue')
    BY <1>4 DEF QueueInv, QueueTypeOK
  <2> QED BY <2>1, <2>2, <1>1, <1>3, <1>4
<1> QED
  BY <1>6, <1>7, <1>8, <1>9, <1>10, <1>11, Zenon DEF QueueInv

(* What poll removes: the first interval of the stream.                       *)
LEMMA PollInv ==
  ASSUME QueueInv, PollEvent
  PROVE  QueueInv'
<1> DEFINE n == Len(queue)
<1>1. queue # <<>> /\ n \in Nat /\ n > 0 /\ queue \in Seq(Queued) /\ queuedBytes \in Nat /\ total \in Nat
  BY DEF PollEvent, Dequeue, QueueInv, QueueTypeOK
<1>2. /\ queue' = Tail(queue) /\ queuedBytes' = queuedBytes - queue[1].size /\ total' = total
  BY DEF PollEvent, Dequeue
<1>3. /\ queue' \in Seq(Queued) /\ Len(queue') = n - 1
      /\ \A i \in 1..Len(queue') : queue'[i] = queue[i + 1] /\ i + 1 \in 1..n
  BY <1>1, <1>2
<1>4. \A i \in 1..n : queue[i] \in Queued /\ queue[i].size \in Nat /\ queue[i].end \in Nat
  BY <1>1, QueuedFields, Zenon
<1>5. 1 \in 1..n /\ queue[1].end =< total /\ Start(1) = total - queuedBytes
  BY <1>1 DEF QueueInv, Stream
<1>6. queuedBytes' \in Nat
  BY SMTT(60), <1>1, <1>2, <1>4, <1>5 DEF Start
<1>7. QueueTypeOK'
  <2>1. dispatched' \in Seq(Queued)
    BY <1>1 DEF PollEvent, Dequeue, QueueInv, QueueTypeOK
  <2>2. budget' \in 0..Batch /\ watching' \in BOOLEAN /\ main' \in {"loop", "polling", "joining", "joined"}
    BY QueueAssumption, SMTT(30) DEF PollEvent, Dequeue, QueueInv, QueueTypeOK, PollsLeft
  <2>3. pc' \in [Producers -> {"idle", "emitting", "asleep", "exited"}]
    BY Zenon DEF PollEvent, Dequeue, NotifyAll, QueueInv, QueueTypeOK
  <2> QED
    BY <1>1, <1>2, <1>3, <1>6, <2>1, <2>2, <2>3, Zenon DEF PollEvent, Dequeue,
       QueueInv, QueueTypeOK
<1>8. PollsLeft' /\ HoldsEvent'
  BY DEF QueueInv, QueueTypeOK, PollsLeft, HoldsEvent, PollEvent, Dequeue,
     NotifyAll
<1>9. Stream'
  <2>1. queue' = <<>> => queuedBytes' = 0
    <3> SUFFICES ASSUME queue' = <<>> PROVE queuedBytes' = 0
      BY Zenon
    <3>1. n = 1
      BY <1>1, <1>3
    <3>2. queue[1].end = total
      BY <3>1, <1>1, Zenon DEF QueueInv, Stream
    <3> QED BY <3>2, <1>1, <1>2, <1>4, <1>5 DEF Start
  <2>2. queue' # <<>> => Start(1)' = total' - queuedBytes'
    <3> SUFFICES ASSUME queue' # <<>>
                 PROVE  queue'[1].end - queue'[1].size = total' - queuedBytes'
      BY Zenon DEF Start
    <3>1. n >= 2 /\ 1 \in 1..Len(queue') /\ 2 \in 1..n
      BY <1>1, <1>3
    <3>2. Start(2) = queue[1].end
      BY <3>1, <1>5 DEF QueueInv, Stream
    <3>3. queue'[1] = queue[2]
      BY <3>1, <1>3
    <3>4. queue[2].end - queue[2].size = queue[1].end /\ queue[1].end - queue[1].size = total - queuedBytes
      BY <3>2, <1>5, Zenon DEF Start
    <3>5. queue[1].end \in Nat /\ queue[1].size \in Nat
      BY <1>4, <1>5, Zenon
    <3>6. total - (queuedBytes - queue[1].size) = queue[1].end
      BY SMTT(60), <3>4, <3>5, <1>1
    <3> QED BY <3>3, <3>4, <3>6, <1>2, Zenon
  <2>3. queue' # <<>> => queue'[Len(queue')].end = total'
    BY <1>1, <1>2, <1>3 DEF QueueInv, Stream
  <2>4. \A i \in 1..Len(queue') : queue'[i].end =< total'
    BY <1>2, <1>3, Zenon DEF QueueInv, Stream
  <2>5. \A i, j \in 1..Len(queue') : j = i + 1 => Start(j)' = queue'[i].end
    <3> SUFFICES ASSUME NEW i \in 1..Len(queue'), NEW j \in 1..Len(queue'), j = i + 1
                 PROVE  queue'[j].end - queue'[j].size = queue'[i].end
      BY Zenon DEF Start
    <3> QED BY SMTT(60), <1>1, <1>3 DEF QueueInv, Stream, Start
  <2>6. \A i, j \in 1..Len(queue') : i < j => queue'[i].end =< Start(j)'
    <3> SUFFICES ASSUME NEW i \in 1..Len(queue'), NEW j \in 1..Len(queue'), i < j
                 PROVE  queue'[i].end =< queue'[j].end - queue'[j].size
      BY Zenon DEF Start
    <3>1. /\ queue'[i] = queue[i + 1] /\ i + 1 \in 1..n
          /\ queue'[j] = queue[j + 1] /\ j + 1 \in 1..n
      BY <1>3, Zenon
    <3>2. i + 1 < j + 1
      BY <1>1, <1>3
    <3> QED BY <3>1, <3>2, Zenon DEF QueueInv, Stream, Start
  <2> QED BY <2>1, <2>2, <2>3, <2>4, <2>5, <2>6, Zenon DEF Stream
<1>10. LevelTriggered' /\ PendingMatchesSocket'
  BY <1>1, Zenon DEF QueueInv, LevelTriggered, PendingMatchesSocket, PollEvent,
     Dequeue
<1>11. AsleepHasReason'
  BY Zenon DEF AsleepHasReason, PollEvent, Dequeue, NotifyAll, QueueInv,
     QueueTypeOK
<1>12. OversizedAlone'
  <2> SUFFICES ASSUME queuedBytes' > MaxQueuedBytes
               PROVE  \E i \in 1..Len(queue') : queue'[i].size = queuedBytes'
    BY Zenon DEF OversizedAlone
  <2>1. PICK i \in 1..n : queue[i].size = queuedBytes
    BY <1>1, <1>2, <1>4, <1>5, QueueAssumption DEF QueueInv, OversizedAlone
  <2>2. i # 1
    BY <2>1, <1>1, <1>2, QueueAssumption
  <2>3. queue[1].end =< Start(i) /\ queue[i].end =< total
    BY <2>2, <1>1, <1>5 DEF QueueInv, Stream
  <2>4. queue[1].size = 0
    BY SMTT(60), <2>1, <2>3, <1>1, <1>4, <1>5 DEF Start
  <2>5. i - 1 \in 1..Len(queue') /\ queue'[i - 1] = queue[i]
    BY <2>2, <1>1, <1>3
  <2>6. queuedBytes' = queuedBytes
    BY <2>4, <1>1, <1>2
  <2> QED BY <2>1, <2>5, <2>6, Zenon
<1> QED
  BY <1>7, <1>8, <1>9, <1>10, <1>11, <1>12, Zenon DEF QueueInv

(* A step that changes neither the queue nor its counters keeps what is said  *)
(* about them: emit's returns and sleeps, close, and poll on an empty queue.  *)
LEMMA QueueKept ==
  ASSUME QueueInv, queue' = queue, queuedBytes' = queuedBytes, total' = total
  PROVE  /\ Stream' /\ OversizedAlone'
         /\ notifier' = notifier => LevelTriggered'
         /\ notifier' = notifier /\ pending' = pending => PendingMatchesSocket'
<1>1. Stream /\ OversizedAlone /\ LevelTriggered /\ PendingMatchesSocket
  BY Zenon DEF QueueInv
<1>2. Stream'
  BY <1>1, Zenon DEF Stream, Start
<1>3. OversizedAlone'
  BY <1>1, Zenon DEF OversizedAlone
<1>4. notifier' = notifier => LevelTriggered'
  BY <1>1, Zenon DEF LevelTriggered
<1>5. notifier' = notifier /\ pending' = pending => PendingMatchesSocket'
  BY <1>1 DEF PendingMatchesSocket
<1> QED
  BY <1>2, <1>3, <1>4, <1>5, Zenon

(* Every step of the producers, the main loop and the teardown preserves the  *)
(* invariant.                                                                 *)
LEMMA QueueStep == QueueInv /\ [QueueNext]_(queueVars) => QueueInv'
<1> SUFFICES ASSUME QueueInv, [QueueNext]_(queueVars) PROVE QueueInv'
  BY Zenon
<1> DEFINE KeepsQueue == /\ queue' = queue /\ queuedBytes' = queuedBytes /\ total' = total
                         /\ notifier' = notifier /\ pending' = pending
<1> HIDE DEF KeepsQueue
<1>0. QueueTypeOK /\ PollsLeft /\ HoldsEvent /\ AsleepHasReason
  BY Zenon DEF QueueInv
<1>1. ASSUME NEW p \in Producers, EmitCall(p) PROVE QueueInv'
  <2>1. KeepsQueue /\ QueueTypeOK'
    BY <1>1, <1>0, QueueAssumption DEF QueueTypeOK, EmitCall, Events,
       KeepsQueue, sharedVars, pollVars
  <2>2. PollsLeft' /\ HoldsEvent'
    BY <1>1, <1>0, QueueAssumption DEF QueueTypeOK, PollsLeft, HoldsEvent,
       EmitCall, Events, KeepsQueue, sharedVars, pollVars
  <2>3. AsleepHasReason'
    BY <1>1, <1>0, QueueAssumption, Zenon DEF QueueTypeOK, AsleepHasReason,
       OverBudget, Full, EmitCall, Events, KeepsQueue,
       sharedVars, pollVars
  <2> QED
    BY <2>1, <2>2, <2>3, QueueKept, Zenon DEF KeepsQueue, QueueInv
<1>2. ASSUME NEW p \in Producers, EmitDropped(p) PROVE QueueInv'
  <2>1. KeepsQueue /\ QueueTypeOK'
    BY <1>2, <1>0, Zenon DEF QueueTypeOK, EmitDropped, EmitReturn, KeepsQueue,
       sharedVars, pollVars
  <2>2. PollsLeft' /\ HoldsEvent'
    BY <1>2, <1>0, Zenon DEF QueueTypeOK, PollsLeft, HoldsEvent, EmitDropped,
       EmitReturn, KeepsQueue, sharedVars, pollVars
  <2>3. AsleepHasReason'
    BY <1>2, <1>0, Zenon DEF QueueTypeOK, AsleepHasReason, OverBudget, Full,
       EmitDropped, EmitReturn, KeepsQueue, sharedVars, pollVars
  <2> QED
    BY <2>1, <2>2, <2>3, QueueKept, Zenon DEF KeepsQueue, QueueInv
<1>3. ASSUME NEW p \in Producers, EmitWait(p) PROVE QueueInv'
  <2>1. KeepsQueue /\ QueueTypeOK'
    BY <1>3, <1>0, Zenon DEF QueueTypeOK, EmitWait, KeepsQueue, sharedVars,
       pollVars
  <2>2. PollsLeft' /\ HoldsEvent'
    BY <1>3, <1>0, Zenon DEF QueueTypeOK, PollsLeft, HoldsEvent, EmitWait, KeepsQueue,
       sharedVars, pollVars
  <2>3. AsleepHasReason'
    BY <1>3, <1>0, Zenon DEF QueueTypeOK, AsleepHasReason, OverBudget, Full,
       EmitWait, KeepsQueue, sharedVars, pollVars
  <2> QED
    BY <2>1, <2>2, <2>3, QueueKept, Zenon DEF KeepsQueue, QueueInv
<1>4. ASSUME NEW p \in Producers, EmitSend(p) PROVE QueueInv'
  BY <1>4, SendInv, Zenon
<1>5. ASSUME NEW p \in Producers, SpuriousWakeup(p) PROVE QueueInv'
  <2>1. KeepsQueue /\ QueueTypeOK'
    BY <1>5, <1>0, Zenon DEF QueueTypeOK, SpuriousWakeup, KeepsQueue, sharedVars,
       pollVars
  <2>2. PollsLeft' /\ HoldsEvent'
    BY <1>5, <1>0, Zenon DEF QueueTypeOK, PollsLeft, HoldsEvent, SpuriousWakeup,
       KeepsQueue, sharedVars, pollVars
  <2>3. AsleepHasReason'
    BY <1>5, <1>0, Zenon DEF QueueTypeOK, AsleepHasReason, OverBudget, Full,
       SpuriousWakeup, KeepsQueue, sharedVars, pollVars
  <2> QED
    BY <2>1, <2>2, <2>3, QueueKept, Zenon DEF KeepsQueue, QueueInv
<1>6. ASSUME NEW p \in Producers, Exit(p) PROVE QueueInv'
  <2>1. KeepsQueue /\ QueueTypeOK'
    BY <1>6, <1>0, Zenon DEF QueueTypeOK, Exit, KeepsQueue, sharedVars, pollVars
  <2>2. PollsLeft' /\ HoldsEvent'
    BY <1>6, <1>0, Zenon DEF QueueTypeOK, PollsLeft, HoldsEvent, Exit, KeepsQueue,
       sharedVars, pollVars
  <2>3. AsleepHasReason'
    BY <1>6, <1>0, Zenon DEF QueueTypeOK, AsleepHasReason, OverBudget, Full,
       Exit, KeepsQueue, sharedVars, pollVars
  <2> QED
    BY <2>1, <2>2, <2>3, QueueKept, Zenon DEF KeepsQueue, QueueInv
<1>7. CASE PollBackend
  <2>1. KeepsQueue /\ QueueTypeOK'
    BY <1>7, <1>0, QueueAssumption DEF QueueTypeOK, PollBackend, KeepsQueue,
       sharedVars, producerVars
  <2>2. PollsLeft' /\ HoldsEvent'
    BY <1>7, <1>0, QueueAssumption DEF QueueTypeOK, PollsLeft, HoldsEvent,
       PollBackend, KeepsQueue, sharedVars, producerVars
  <2>3. AsleepHasReason'
    BY <1>7, <1>0, QueueAssumption, Zenon DEF QueueTypeOK, AsleepHasReason,
       OverBudget, Full, PollBackend, KeepsQueue, sharedVars,
       producerVars
  <2> QED
    BY <2>1, <2>2, <2>3, QueueKept, Zenon DEF KeepsQueue, QueueInv
<1>8. CASE PollEvent
  BY <1>8, PollInv, Zenon
<1>9. CASE PollEmpty
  <2>1. /\ queue' = queue /\ queuedBytes' = queuedBytes /\ total' = total /\ closed' = closed
        /\ notifier' = 0 /\ pending' = FALSE /\ main' = "loop" /\ budget' = 0
        /\ producerVars' = producerVars /\ dispatched' = dispatched /\ queue = <<>>
    BY <1>9, Zenon DEF PollEmpty
  <2>2. watching' \in BOOLEAN
    BY <1>9, Zenon DEF PollEmpty
  <2>3. budget' \in 0..Batch /\ notifier' \in Nat
    BY <2>1, <1>0, QueueAssumption
  <2>4. QueueTypeOK'
    BY <2>1, <2>2, <2>3, <1>0, Zenon DEF QueueTypeOK, producerVars
  <2>5. PollsLeft' /\ HoldsEvent'
    BY <2>1, <1>0, Zenon DEF PollsLeft, HoldsEvent, producerVars
  <2>6. LevelTriggered' /\ PendingMatchesSocket'
    BY <2>1, Zenon DEF LevelTriggered, PendingMatchesSocket
  <2>7. AsleepHasReason'
    BY <2>1, <1>0, Zenon DEF AsleepHasReason, OverBudget, Full,
       producerVars
  <2> QED
    BY <2>1, <2>4, <2>5, <2>6, <2>7, QueueKept, Zenon DEF QueueInv
<1>10. CASE CloseQueue
  <2>1. KeepsQueue /\ QueueTypeOK'
    BY <1>10, <1>0, Zenon DEF QueueTypeOK, CloseQueue, NotifyAll, KeepsQueue
  <2>2. PollsLeft' /\ HoldsEvent'
    BY <1>10, <1>0, Zenon DEF QueueTypeOK, PollsLeft, HoldsEvent, CloseQueue, NotifyAll,
       KeepsQueue
  <2>3. AsleepHasReason'
    BY <1>10, <1>0, Zenon DEF QueueTypeOK, AsleepHasReason, OverBudget, Full,
       CloseQueue, NotifyAll, KeepsQueue
  <2> QED
    BY <2>1, <2>2, <2>3, QueueKept, Zenon DEF KeepsQueue, QueueInv
<1>11. CASE Join
  <2>1. KeepsQueue /\ QueueTypeOK'
    BY <1>11, <1>0, Zenon DEF QueueTypeOK, Join, KeepsQueue, sharedVars,
       producerVars
  <2>2. PollsLeft' /\ HoldsEvent'
    BY <1>11, <1>0, Zenon DEF QueueTypeOK, PollsLeft, HoldsEvent, Join, KeepsQueue,
       sharedVars, producerVars
  <2>3. AsleepHasReason'
    BY <1>11, <1>0, Zenon DEF QueueTypeOK, AsleepHasReason, OverBudget, Full,
       Join, KeepsQueue, sharedVars, producerVars
  <2> QED
    BY <2>1, <2>2, <2>3, QueueKept, Zenon DEF KeepsQueue, QueueInv
<1>12. CASE Terminated \/ UNCHANGED queueVars
  <2>1. KeepsQueue /\ QueueTypeOK'
    BY <1>12, <1>0, Zenon DEF QueueTypeOK, Terminated, queueVars, KeepsQueue,
       sharedVars, producerVars, pollVars
  <2>2. PollsLeft' /\ HoldsEvent'
    BY <1>12, <1>0, Zenon DEF QueueTypeOK, PollsLeft, HoldsEvent, Terminated, queueVars,
       KeepsQueue, sharedVars, producerVars, pollVars
  <2>3. AsleepHasReason'
    BY <1>12, <1>0, Zenon DEF QueueTypeOK, AsleepHasReason, OverBudget, Full,
       Terminated, queueVars, KeepsQueue, sharedVars, producerVars,
       pollVars
  <2> QED
    BY <2>1, <2>2, <2>3, QueueKept, Zenon DEF KeepsQueue, QueueInv
<1> QED
  BY <1>1, <1>2, <1>3, <1>4, <1>5, <1>6, <1>7, <1>8, <1>9, <1>10, <1>11, <1>12, Zenon
     DEF QueueNext

(* The strengthened invariant holds in every reachable state of the queue.    *)
THEOREM QueueInvariant == QueueSpec => []QueueInv
<1>1. QueueInit => QueueInv
  BY QueueInitially, Zenon
<1> QED BY <1>1, QueueStep, PTL DEF QueueSpec

(* event_queue.rs keeps its state well typed; in particular queued_bytes, an  *)
(* unsigned counter that poll subtracts from, never underflows.               *)
THEOREM EventQueueTyped == QueueSpec => []QueueTypeOK
  BY QueueInvariant, PTL DEF QueueInv

(* poll and notify_locked never leave an event queued with the descriptor     *)
(* unreadable: the main loop cannot miss an event.                            *)
THEOREM NoMissedNotification == QueueSpec => []LevelTriggered
  BY QueueInvariant, PTL DEF QueueInv

(* emit sleeps only while its event does not fit: every poll that makes room  *)
(* and close wake it.                                                         *)
THEOREM NoLostProducerWakeup == QueueSpec => []AsleepHasReason
  BY QueueInvariant, PTL DEF QueueInv

(* The byte budget is exceeded only by a single oversized event.              *)
THEOREM ByteBudget == QueueSpec => []OversizedAlone
  BY QueueInvariant, PTL DEF QueueInv

(* One more event of a producer, numbered next, keeps its events in order.    *)
LEMMA OrderGrows ==
    ASSUME NEW s \in Seq(Queued), NEW e \in Queued, NEW p \in Producers, NEW n \in Nat,
           FirstInOrder(s, p, n), e.src = p => e.seq = n + 1,
           NEW t, t = Append(s, e), NEW m \in Nat, m = IF e.src = p THEN n + 1 ELSE n
    PROVE  FirstInOrder(t, p, m)
<1> DEFINE k == Len(s) + 1
<1>1. /\ Len(s) \in Nat /\ DOMAIN s = 1..Len(s) /\ DOMAIN t = 1..k /\ t[k] = e
      /\ \A i \in 1..Len(s) : t[i] = s[i]
  OBVIOUS
<1>2. ASSUME NEW i
      PROVE  i \in PlacesOf(t, p) <=> i \in PlacesOf(s, p) \/ (i = k /\ e.src = p)
  BY <1>1 DEF PlacesOf
<1>3. \A i \in PlacesOf(s, p) : t[i] = s[i] /\ i \in Nat /\ i < k /\ s[i].seq \in 1..n
  BY <1>1 DEF PlacesOf, FirstInOrder
<1>4. {t[i].seq : i \in PlacesOf(t, p)} = 1..m
  <2>1. ASSUME NEW x \in {t[i].seq : i \in PlacesOf(t, p)} PROVE x \in 1..m
    <3>1. PICK i \in PlacesOf(t, p) : x = t[i].seq
      BY Zenon
    <3>2. CASE i \in PlacesOf(s, p)
      <4>1. x \in 1..n
        BY <3>1, <3>2, <1>3, Zenon
      <4> QED BY <4>1
    <3>3. CASE i = k /\ e.src = p
      BY <3>1, <3>3, <1>1
    <3> QED BY <3>2, <3>3, <1>2, Zenon
  <2>2. ASSUME NEW x \in 1..m PROVE x \in {t[i].seq : i \in PlacesOf(t, p)}
    <3>1. CASE x \in 1..n
      <4>1. PICK i \in PlacesOf(s, p) : x = s[i].seq
        BY <3>1, Zenon DEF FirstInOrder
      <4> QED BY <4>1, <1>2, <1>3, Zenon
    <3>2. CASE x \notin 1..n
      <4>1. x = n + 1 /\ e.src = p
        BY <3>2
      <4> QED BY <4>1, <1>1, <1>2, Zenon
    <3> QED BY <3>1, <3>2, Zenon
  <2> QED BY <2>1, <2>2, Zenon
<1>5. ASSUME NEW i \in PlacesOf(t, p), NEW j \in PlacesOf(t, p), i < j
      PROVE  t[i].seq < t[j].seq
  <2>1. i \in PlacesOf(s, p)
    BY <1>1, <1>2, <1>3, <1>5
  <2>2. CASE j \in PlacesOf(s, p)
    BY <1>3, <1>5, <2>1, <2>2, Zenon DEF FirstInOrder
  <2>3. CASE j = k /\ e.src = p
    <3>1. t[i].seq \in 1..n /\ t[j].seq = n + 1
      BY <1>1, <1>3, <2>1, <2>3, Zenon
    <3>2. \A a, b : a \in 1..n /\ b = n + 1 => a < b
      OBVIOUS
    <3> QED BY <3>1, <3>2, Zenon
  <2> QED BY <1>2, <2>2, <2>3, Zenon
<1> QED BY <1>4, <1>5, Zenon DEF FirstInOrder

(* A producer inside emit holds the event it counted last; what it emitted    *)
(* before that has been accepted, unless the queue was closed.                *)
OrderInv ==
    /\ \A p \in Producers : pc[p] \in {"emitting", "asleep"} =>
         event[p].src = p /\ event[p].seq = emits[p] /\ emits[p] > 0
    /\ InOrderNoLoss

(* Accepting an event appends it, and delivering one moves it: what was       *)
(* accepted changes at its end only.                                          *)
LEMMA AcceptedChanges ==
    ASSUME QueueInv, [QueueNext]_(queueVars), \A p \in Producers : ~EmitSend(p)
    PROVE  Accepted' = Accepted
<1>1. queue \in Seq(Queued) /\ dispatched \in Seq(Queued)
  BY Zenon DEF QueueInv, QueueTypeOK
<1>2. CASE PollEvent
  <2>1. queue # <<>> /\ queue' = Tail(queue) /\ dispatched' = Append(dispatched, Head(queue))
    BY <1>2, Zenon DEF PollEvent, Dequeue
  <2> QED BY <1>1, <2>1 DEF Accepted
<1>3. CASE ~PollEvent
  <2>1. UNCHANGED <<queue, dispatched>>
    BY <1>3, Zenon DEF QueueNext, EmitCall, EmitDropped, EmitWait,
       SpuriousWakeup,
         Exit, PollBackend, PollEmpty, CloseQueue, Join, Terminated,
         queueVars, sharedVars, pollVars
  <2> QED BY <2>1, Zenon DEF Accepted
<1> QED BY <1>2, <1>3, Zenon

(* The order is kept by every step.                                           *)
LEMMA OrderStep == QueueInv /\ OrderInv /\ [QueueNext]_(queueVars) => OrderInv'
<1> SUFFICES ASSUME QueueInv, OrderInv, [QueueNext]_(queueVars) PROVE OrderInv'
  BY Zenon
<1> DEFINE Returned(p) == emits[p] - (IF pc[p] \in {"emitting", "asleep"} THEN 1 ELSE 0)
           Holds(p) == pc[p] \in {"emitting", "asleep"} =>
                         event[p].src = p /\ event[p].seq = emits[p] /\ emits[p] > 0
           Keeps(p) == \E n \in 0..MaxEmits :
                         /\ FirstInOrder(Accepted, p, n)
                         /\ ~closed => n = Returned(p)
<1>0. /\ pc \in [Producers -> {"idle", "emitting", "asleep", "exited"}]
      /\ emits \in [Producers -> 0..MaxEmits] /\ MaxEmits \in Nat
      /\ event \in [Producers -> Events \cup {NoEvent}]
      /\ queue \in Seq(Queued) /\ dispatched \in Seq(Queued) /\ total \in Nat
  BY QueueAssumption, Zenon DEF QueueInv, QueueTypeOK
<1>1. \A p \in Producers : Holds(p) /\ Keeps(p)
  BY Zenon DEF OrderInv, InOrderNoLoss
<1>2. SUFFICES ASSUME NEW p \in Producers PROVE Holds(p)' /\ Keeps(p)'
  BY Zenon DEF OrderInv, InOrderNoLoss
<1>3. ASSUME NEW r \in Producers, EmitSend(r) PROVE Holds(p)' /\ Keeps(p)'
  <2> DEFINE e == [src |-> event[r].src, seq |-> event[r].seq, size |-> event[r].size,
                   end |-> total + event[r].size]
  <2>1. /\ queue' = Append(queue, e) /\ UNCHANGED <<dispatched, emits, closed>> /\ ~closed
        /\ pc[r] = "emitting" /\ pc' = [pc EXCEPT ![r] = "idle"]
        /\ event' = [event EXCEPT ![r] = NoEvent]
    BY <1>3, Zenon DEF EmitSend, EmitReturn, pollVars
  <2>2. e \in Queued /\ e.src = r /\ e.seq = emits[r]
    <3>1. event[r] \in Events /\ event[r].src = r /\ event[r].seq = emits[r]
      BY <1>1, <2>1, Zenon DEF QueueInv, HoldsEvent
    <3>2. event[r].size \in EventSizes /\ total + event[r].size \in Nat
      <4>1. event[r].size \in EventSizes
        BY <3>1, Zenon DEF Events
      <4>2. EventSizes \subseteq Nat
        BY QueueAssumption, Zenon DEF QueueInv
      <4>3. event[r].size \in Nat
        BY <4>1, <4>2, Zenon
      <4> QED BY <1>0, <4>1, <4>3
    <3>3. event[r].seq \in 1..MaxEmits /\ event[r].src \in Producers
      BY <3>1, Zenon DEF Events
    <3> QED BY <3>1, <3>2, <3>3, Zenon DEF Queued
  <2> HIDE DEF e
  <2>3. Accepted' = Append(Accepted, e) /\ Accepted \in Seq(Queued)
    BY <1>0, <2>1, <2>2 DEF Accepted
  <2>4. Holds(p)'
    BY <1>0, <1>1, <2>1, Zenon
  <2>5. PICK n \in 0..MaxEmits : FirstInOrder(Accepted, p, n) /\ n = Returned(p)
    BY <1>1, <2>1, Zenon
  <2>6. CASE p = r
    <3>1. n + 1 = emits[r] /\ n + 1 \in 0..MaxEmits /\ n \in Nat
      BY <1>0, <1>1, <2>1, <2>5, <2>6
    <3>2. FirstInOrder(Accepted', p, n + 1)
      <4>1. n + 1 \in Nat /\ n + 1 = (IF e.src = p THEN n + 1 ELSE n) /\ (e.src = p => e.seq = n + 1)
        BY <2>2, <2>6, <3>1
      <4> QED BY <2>2, <2>3, <2>5, <3>1, <4>1, OrderGrows, Zenon
    <3>3. Returned(p)' = n + 1
      BY <1>0, <2>1, <2>6, <3>1
    <3> QED BY <2>4, <3>1, <3>2, <3>3, Zenon
  <2>7. CASE p # r
    <3>1. FirstInOrder(Accepted', p, n)
      <4>1. n \in Nat /\ n = (IF e.src = p THEN n + 1 ELSE n) /\ (e.src = p => e.seq = n + 1)
        BY <1>0, <2>2, <2>7
      <4> QED BY <2>2, <2>3, <2>5, <4>1, OrderGrows, Zenon
    <3>2. Returned(p)' = n
      BY <1>0, <2>1, <2>5, <2>7, Zenon
    <3> QED BY <2>4, <3>1, <3>2, Zenon
  <2> QED BY <2>6, <2>7, Zenon
<1>4. CASE \A r \in Producers : ~EmitSend(r)
  <2>1. Accepted' = Accepted
    BY <1>4, AcceptedChanges, Zenon
  <2>2. PICK n \in 0..MaxEmits : FirstInOrder(Accepted, p, n) /\ (~closed => n = Returned(p))
    BY <1>1, Zenon
  <2>3. FirstInOrder(Accepted, p, n)'
    BY <2>1, <2>2, Zenon
  <2>4. Holds(p)' /\ (~closed' => ~closed /\ Returned(p)' = Returned(p))
    <3>1. ASSUME NEW r \in Producers, EmitCall(r)
          PROVE  Holds(p)' /\ (~closed' => ~closed /\ Returned(p)' = Returned(p))
      BY <1>0, <1>1, <3>1 DEF EmitCall, sharedVars
    <3>2. ASSUME NEW r \in Producers,
                 EmitDropped(r) \/ EmitWait(r) \/ SpuriousWakeup(r) \/ Exit(r)
          PROVE  Holds(p)' /\ (~closed' => ~closed /\ Returned(p)' = Returned(p))
      BY <1>0, <1>1, <3>2 DEF EmitDropped, EmitWait, SpuriousWakeup,
         Exit,
           EmitReturn, sharedVars
    <3>3. CASE PollEvent \/ CloseQueue
      BY <1>0, <1>1, <3>3 DEF PollEvent, CloseQueue, NotifyAll
    <3>4. CASE PollBackend \/ PollEmpty \/ Join \/ Terminated \/ UNCHANGED queueVars
      BY <1>1, <3>4 DEF PollBackend, PollEmpty, Join, Terminated,
         queueVars,
           sharedVars, producerVars
    <3> QED BY <1>4, <3>1, <3>2, <3>3, <3>4, Zenon DEF QueueNext
  <2> QED BY <2>2, <2>3, <2>4, Zenon
<1> QED BY <1>3, <1>4, Zenon

(* emit and poll: of each producer, the events accepted are its first, each   *)
(* once and in order, for any capacity, byte limit and number of producers;   *)
(* until close, none that emit returned from is missing.                      *)
THEOREM EventsInOrder == QueueSpec => []InOrderNoLoss
<1>1. QueueInit => OrderInv
  <2> SUFFICES ASSUME QueueInit PROVE OrderInv
    BY Zenon
  <2>1. Accepted = <<>>
    BY DEF QueueInit, Accepted
  <2>2. ASSUME NEW p \in Producers PROVE FirstInOrder(Accepted, p, 0)
    BY <2>1 DEF FirstInOrder, PlacesOf
  <2>3. ASSUME NEW p \in Producers PROVE pc[p] = "idle" /\ emits[p] = 0 /\ 0 \in 0..MaxEmits
    BY QueueAssumption DEF QueueInit
  <2> QED BY <2>2, <2>3 DEF OrderInv, InOrderNoLoss
<1>2. OrderInv => InOrderNoLoss
  BY Zenon DEF OrderInv
<1> QED BY <1>1, <1>2, QueueInvariant, OrderStep, PTL DEF QueueSpec

-----------------------------------------------------------------------------
(* Attachments.                                                               *)

(* What the proofs need of TypeOK.                                            *)
Types ==
    /\ control \in [Requests -> {"none", "active", "cancelled", "terminal"}]
    /\ place \in [Requests -> Places]
    /\ result \in [Requests -> {"none", "ok", "error", "cancelled"}]
    /\ xfer \in [Requests -> {"none", "calling", "started", "completed", "failed", "cancelled"}]
    /\ events \in [Requests -> Seq({"sent", "error"})]
    /\ polled \in [Requests -> Nat]
    /\ admitted \subseteq Requests /\ tracked \subseteq Requests /\ aborted \subseteq Requests
    /\ checking \in Requests \cup {None} /\ aborting \in Requests \cup {None}

Waits == {"reserved", "queued", "deferred"}
Tasks == {"spawned", "uploading", "resolved", "finished"}

(* Before its reservation the core knows nothing of a request, and until it   *)
(* has its command slot nobody but the call that sends it.                    *)
FreshInv(r) ==
    /\ xfer[r] = "none" => place[r] = "new"
    /\ xfer[r] = "calling" => place[r] \in {"new", "reserved"} /\ ~closing
    /\ place[r] = "new" => xfer[r] # "started" /\ r \notin tracked /\ control[r] = "none"
    /\ place[r] = "reserved" => xfer[r] = "calling" /\ control[r] = "active"
    /\ place[r] \in {"new", "reserved"} => result[r] = "none" /\ r \notin aborted

(* A request that waits or runs, or whose interruption is still to be         *)
(* reported, has had no event; only requests with a task are tracked before   *)
(* the session is interrupted, and those all are.                             *)
EventInv(r) ==
    /\ polled[r] <= Len(events[r]) /\ Len(events[r]) <= 1
    /\ r \in tracked \/ place[r] \in {"new"} \cup Waits \cup Tasks => events[r] = <<>>
    /\ place[r] \in Tasks => r \in tracked /\ Running
    /\ place[r] \in Waits => r \notin tracked

(* A transfer Purple still shows was not cancelled, and its request is        *)
(* accounted for once its task is gone or given up.                           *)
OwnerInv(r) ==
    /\ control[r] = "cancelled" \/ r \in aborted \/ result[r] = "cancelled" \/ closing
         => xfer[r] # "started"
    /\ place[r] \in Waits \cup (Tasks \ {"finished"}) => control[r] \in {"active", "cancelled"}
    /\ place[r] = "abandoned" \/ (place[r] = "gone" /\ session # "closed")
         => xfer[r] # "started" \/ r \in tracked \/ polled[r] < Len(events[r])

RequestInv(r) == FreshInv(r) /\ EventInv(r) /\ OwnerInv(r)

(* The requests that cancel and interrupted_attachment_event are looking at   *)
(* between their two steps.                                                   *)
PendingInv ==
    /\ checking # None => checking \in tracked /\ session = "interrupting"
    /\ aborting # None => control[aborting] = "cancelled"

TransferInv == Types /\ PendingInv /\ \A r \in Requests : RequestInv(r)

(* Before any transfer the table, the tasks and the queue are empty.          *)
LEMMA TransferInitially == Init => TransferInv
<1> SUFFICES ASSUME Init PROVE TransferInv
  BY Zenon
<1>1. Types
  BY DEF Init, Types, Places, Live
<1>2. PendingInv
  BY Zenon DEF Init, PendingInv
<1>3. ASSUME NEW r \in Requests PROVE RequestInv(r)
  BY DEF Init, RequestInv, FreshInv, EventInv, OwnerInv, Waits, Tasks
<1> QED BY <1>1, <1>2, <1>3, Zenon DEF TransferInv

(* The main thread: starting, cancelling, polling and closing.                *)
LEMMA MainSteps == TransferInv /\ (User \/ Adapter \/ Close) => TransferInv'
<1> SUFFICES ASSUME TransferInv, User \/ Adapter \/ Close PROVE TransferInv'
  BY Zenon
<1> USE DEF TransferInv, Types, PendingInv, Waits, Tasks, Places, Live, Running, admission, mainVars,
           Release, None
<1>1. ASSUME NEW r \in Requests, Send(r) PROVE TransferInv'
  <2>1. Types'
    BY <1>1, Zenon DEF Send, MainFree
  <2>2. PendingInv'
    BY <1>1, AttachmentsAssumption, Zenon DEF Send, MainFree
  <2>3. \A s \in Requests : RequestInv(s)'
    BY <1>1 DEF Send, MainFree, RequestInv, FreshInv, EventInv, OwnerInv
  <2> QED BY <2>1, <2>2, <2>3, Zenon
<1>2. ASSUME NEW r \in Requests, Reserve(r) PROVE TransferInv'
  <2>a. /\ control' = control \/ control' = [control EXCEPT ![r] = "active"]
        /\ place' = place \/ place' = [place EXCEPT ![r] = "reserved"]
        /\ xfer' = xfer \/ xfer' = [xfer EXCEPT ![r] = "cancelled"]
        /\ admitted' = admitted \/ admitted' = admitted \cup {r}
        /\ UNCHANGED <<aborted, result, tracked, checking, aborting, events, polled>>
    BY <1>2, Zenon DEF Reserve
  <2>b. control' \in [Requests -> {"none", "active", "cancelled", "terminal"}]
    BY <2>a, Zenon
  <2>c. place' \in [Requests -> Places]
    BY <2>a, Zenon
  <2>d. xfer' \in [Requests -> {"none", "calling", "started", "completed", "failed", "cancelled"}]
    BY <2>a, Zenon
  <2>1. Types'
    BY <2>a, <2>b, <2>c, <2>d, Zenon
  <2>2. PendingInv'
    BY <1>2, AttachmentsAssumption, Zenon DEF Reserve, RequestInv, FreshInv
  <2>3. \A s \in Requests : RequestInv(s)'
    BY <1>2 DEF Reserve, RequestInv, FreshInv, EventInv, OwnerInv
  <2> QED BY <2>1, <2>2, <2>3, Zenon
<1>7. ASSUME NEW r \in Requests, TakeSlot(r) PROVE TransferInv'
  <2>1. Types'
    BY <1>7, Zenon DEF TakeSlot
  <2>2. PendingInv'
    BY <1>7, AttachmentsAssumption, Zenon DEF TakeSlot
  <2>3. \A s \in Requests : RequestInv(s)'
    BY <1>7 DEF TakeSlot, RequestInv, FreshInv, EventInv, OwnerInv
  <2> QED BY <2>1, <2>2, <2>3, Zenon
<1>8. ASSUME NEW r \in Requests, RefuseSlot(r) PROVE TransferInv'
  <2>1. Types'
    BY <1>8, Zenon DEF RefuseSlot
  <2>2. PendingInv'
    BY <1>8, AttachmentsAssumption, Zenon DEF RefuseSlot
  <2>3. \A s \in Requests : RequestInv(s)'
    BY <1>8 DEF RefuseSlot, RequestInv, FreshInv, EventInv, OwnerInv
  <2> QED BY <2>1, <2>2, <2>3, Zenon
<1>3. ASSUME NEW r \in Requests, Cancel(r) PROVE TransferInv'
  <2>1. Types'
    BY <1>3, Zenon DEF Cancel, MainFree
  <2>2. PendingInv'
    BY <1>3, AttachmentsAssumption DEF Cancel, MainFree
  <2>3. \A s \in Requests : RequestInv(s)'
    BY <1>3 DEF Cancel, MainFree, RequestInv, FreshInv, EventInv, OwnerInv
  <2> QED BY <2>1, <2>2, <2>3, Zenon
<1>4. ASSUME NEW r \in Requests, TransferEvent(r) PROVE TransferInv'
  <2>1. Types'
    BY <1>4 DEF TransferEvent, MainFree
  <2>2. PendingInv'
    BY <1>4, AttachmentsAssumption, Zenon DEF TransferEvent, MainFree
  <2>3. \A s \in Requests : RequestInv(s)'
    BY <1>4 DEF TransferEvent, MainFree, RequestInv, FreshInv, EventInv, OwnerInv
  <2> QED BY <2>1, <2>2, <2>3, Zenon
<1>5. ASSUME CancelAborts PROVE TransferInv'
  <2>1. Types'
    BY <1>5, Zenon DEF CancelAborts
  <2>2. PendingInv'
    BY <1>5, AttachmentsAssumption, Zenon DEF CancelAborts
  <2>3. \A s \in Requests : RequestInv(s)'
    BY <1>5 DEF CancelAborts, RequestInv, FreshInv, EventInv, OwnerInv
  <2> QED BY <2>1, <2>2, <2>3, Zenon
<1>6. ASSUME Close PROVE TransferInv'
  <2>1. Types'
    BY <1>6, Zenon DEF Close, MainFree
  <2>2. PendingInv'
    BY <1>6, AttachmentsAssumption, Zenon DEF Close, MainFree
  <2>3. \A s \in Requests : RequestInv(s)'
    BY <1>6 DEF Close, MainFree, RequestInv, FreshInv, EventInv, OwnerInv
  <2> QED BY <2>1, <2>2, <2>3, Zenon
<1> QED BY <1>1, <1>2, <1>3, <1>4, <1>5, <1>6, <1>7, <1>8, Zenon DEF User, Adapter

(* The upload tasks.                                                          *)
LEMMA TaskSteps == TransferInv /\ (\E r \in Requests : Task(r)) => TransferInv'
<1> SUFFICES ASSUME TransferInv, \E r \in Requests : Task(r) PROVE TransferInv'
  BY Zenon
<1> USE DEF TransferInv, Types, PendingInv, Waits, Tasks, Places, Live, Running, admission, mainVars,
           Release, None
<1>1. ASSUME NEW r \in Requests, TaskStart(r) PROVE TransferInv'
  <2>1. Types'
    BY <1>1, Zenon DEF TaskStart
  <2>2. PendingInv'
    BY <1>1, AttachmentsAssumption, Zenon DEF TaskStart
  <2>3. \A s \in Requests : RequestInv(s)'
    BY <1>1 DEF TaskStart, RequestInv, FreshInv, EventInv, OwnerInv
  <2> QED BY <2>1, <2>2, <2>3, Zenon
<1>2. ASSUME NEW r \in Requests, TaskResolve(r) PROVE TransferInv'
  <2>1. Types'
    BY <1>2 DEF TaskResolve
  <2>2. PendingInv'
    BY <1>2, AttachmentsAssumption, Zenon DEF TaskResolve
  <2>3. \A s \in Requests : RequestInv(s)'
    BY <1>2 DEF TaskResolve, RequestInv, FreshInv, EventInv, OwnerInv
  <2> QED BY <2>1, <2>2, <2>3, Zenon
<1>3. ASSUME NEW r \in Requests, TaskClaim(r) PROVE TransferInv'
  <2>1. Types'
    BY <1>3, Zenon DEF TaskClaim, Claim
  <2>2. PendingInv'
    BY <1>3, AttachmentsAssumption, Zenon DEF TaskClaim, Claim
  <2>3. \A s \in Requests : RequestInv(s)'
    BY <1>3 DEF TaskClaim, Claim, RequestInv, FreshInv, EventInv, OwnerInv
  <2> QED BY <2>1, <2>2, <2>3, Zenon
<1>4. ASSUME NEW r \in Requests, TaskAborted(r) PROVE TransferInv'
  <2>1. Types'
    BY <1>4, Zenon DEF TaskAborted
  <2>2. PendingInv'
    BY <1>4, AttachmentsAssumption, Zenon DEF TaskAborted
  <2>3. \A s \in Requests : RequestInv(s)'
    BY <1>4 DEF TaskAborted, RequestInv, FreshInv, EventInv, OwnerInv
  <2> QED BY <2>1, <2>2, <2>3, Zenon
<1> QED BY <1>1, <1>2, <1>3, <1>4, Zenon DEF Task

(* What the actor does with one request.                                      *)
LEMMA ActorSteps == TransferInv /\ (\E r \in Requests : Actor(r)) => TransferInv'
<1> SUFFICES ASSUME TransferInv, \E r \in Requests : Actor(r) PROVE TransferInv'
  BY Zenon
<1> USE DEF TransferInv, Types, PendingInv, Waits, Tasks, Places, Live, Running, admission, mainVars,
           Release, None
<1>1. ASSUME NEW r \in Requests, SpawnUpload(r) PROVE TransferInv'
  <2>1. Types'
    BY <1>1, Zenon DEF SpawnUpload, Waiting
  <2>2. PendingInv'
    BY <1>1, AttachmentsAssumption, Zenon DEF SpawnUpload, Waiting
  <2>3. \A s \in Requests : RequestInv(s)'
    BY <1>1 DEF SpawnUpload, Waiting, RequestInv, FreshInv, EventInv, OwnerInv
  <2> QED BY <2>1, <2>2, <2>3, Zenon
<1>2. ASSUME NEW r \in Requests, DropCancelled(r) PROVE TransferInv'
  <2>1. Types'
    BY <1>2, Zenon DEF DropCancelled, Waiting, Gone
  <2>2. PendingInv'
    BY <1>2, AttachmentsAssumption, Zenon DEF DropCancelled, Waiting, Gone
  <2>3. \A s \in Requests : RequestInv(s)'
    BY <1>2 DEF DropCancelled, Waiting, Gone, RequestInv, FreshInv, EventInv, OwnerInv
  <2> QED BY <2>1, <2>2, <2>3, Zenon
<1>3. ASSUME NEW r \in Requests, RefuseGroup(r) PROVE TransferInv'
  <2>1. Types'
    BY <1>3 DEF RefuseGroup, Waiting, Gone, Claim, Report
  <2>2. PendingInv'
    BY <1>3, AttachmentsAssumption, Zenon DEF RefuseGroup, Waiting, Gone, Claim, Report
  <2>3. \A s \in Requests : RequestInv(s)'
    BY <1>3 DEF RefuseGroup, Waiting, Gone, Claim, Report, RequestInv, FreshInv, EventInv,
       OwnerInv
  <2> QED BY <2>1, <2>2, <2>3, Zenon
<1>4. ASSUME NEW r \in Requests, Complete(r) PROVE TransferInv'
  <2>1. Types'
    BY <1>4 DEF Complete, Gone, Reports, Untrack
  <2>2. PendingInv'
    BY <1>4, AttachmentsAssumption, Zenon DEF Complete, Gone, Reports, Untrack
  <2>3. \A s \in Requests : RequestInv(s)'
    BY <1>4 DEF Complete, Gone, Reports, Untrack, RequestInv, FreshInv, EventInv, OwnerInv
  <2> QED BY <2>1, <2>2, <2>3, Zenon
<1>5. ASSUME NEW r \in Requests, InterruptCheck(r) PROVE TransferInv'
  <2>1. Types'
    BY <1>5, Zenon DEF InterruptCheck
  <2>2. PendingInv'
    BY <1>5, AttachmentsAssumption DEF InterruptCheck
  <2>3. \A s \in Requests : RequestInv(s)'
    BY <1>5 DEF InterruptCheck, RequestInv, FreshInv, EventInv, OwnerInv
  <2> QED BY <2>1, <2>2, <2>3, Zenon
<1>6. ASSUME NEW r \in Requests, DeferCommand(r) PROVE TransferInv'
  <2>1. Types'
    BY <1>6, Zenon DEF DeferCommand
  <2>2. PendingInv'
    BY <1>6, AttachmentsAssumption, Zenon DEF DeferCommand
  <2>3. \A s \in Requests : RequestInv(s)'
    BY <1>6 DEF DeferCommand, RequestInv, FreshInv, EventInv, OwnerInv
  <2> QED BY <2>1, <2>2, <2>3, Zenon
<1>7. ASSUME NEW r \in Requests, DropAbandoned(r) PROVE TransferInv'
  <2>1. Types'
    BY <1>7, Zenon DEF DropAbandoned, Gone
  <2>2. PendingInv'
    BY <1>7, AttachmentsAssumption, Zenon DEF DropAbandoned, Gone
  <2>3. \A s \in Requests : RequestInv(s)'
    BY <1>7 DEF DropAbandoned, Gone, RequestInv, FreshInv, EventInv, OwnerInv
  <2> QED BY <2>1, <2>2, <2>3, Zenon
<1> QED BY <1>1, <1>2, <1>3, <1>4, <1>5, <1>6, <1>7, Zenon DEF Actor

(* The end of a session, recovery and the end of the worker.                  *)
LEMMA SessionSteps ==
    TransferInv /\ ( \/ Stop \/ StopFinish \/ StopTimeout \/ InterruptEmit \/ Stopped
                     \/ Reconnect \/ FatalError )
      => TransferInv'
<1> SUFFICES ASSUME TransferInv,
                    \/ Stop \/ StopFinish \/ StopTimeout \/ InterruptEmit \/ Stopped
                    \/ Reconnect \/ FatalError
             PROVE  TransferInv'
  BY Zenon
<1> USE DEF TransferInv, Types, PendingInv, Waits, Tasks, Places, Live, Running, admission, mainVars,
           Release, None
<1>1. ASSUME Stop PROVE TransferInv'
  <2>1. Types'
    BY <1>1, Zenon DEF Stop
  <2>2. PendingInv'
    BY <1>1, AttachmentsAssumption, Zenon DEF Stop
  <2>3. \A s \in Requests : RequestInv(s)'
    BY <1>1 DEF Stop, RequestInv, FreshInv, EventInv, OwnerInv
  <2> QED BY <2>1, <2>2, <2>3, Zenon
<1>2. ASSUME StopFinish PROVE TransferInv'
  <2>1. Types'
    BY <1>2 DEF StopFinish, WorkerFree, Reports, Untrack, Gone, Finished, InTask
  <2>2. PendingInv'
    BY <1>2, AttachmentsAssumption, Zenon DEF StopFinish, WorkerFree, Reports, Untrack, Gone,
       Finished, InTask
  <2>3. \A s \in Requests : RequestInv(s)'
    BY <1>2 DEF StopFinish, WorkerFree, Reports, Untrack, Gone, Finished, InTask,
                RequestInv, FreshInv, EventInv, OwnerInv
  <2> QED BY <2>1, <2>2, <2>3, Zenon
<1>3. ASSUME StopTimeout PROVE TransferInv'
  <2>1. Types'
    BY <1>3, Zenon DEF StopTimeout, WorkerFree, Finished, InTask
  <2>2. PendingInv'
    BY <1>3, AttachmentsAssumption, Zenon DEF StopTimeout, WorkerFree, Finished, InTask
  <2>3. \A s \in Requests : RequestInv(s)'
    BY <1>3 DEF StopTimeout, WorkerFree, Finished, InTask,
                RequestInv, FreshInv, EventInv, OwnerInv
  <2> QED BY <2>1, <2>2, <2>3, Zenon
<1>4. ASSUME InterruptEmit PROVE TransferInv'
  <2>1. Types'
    BY <1>4 DEF InterruptEmit, Claim, InterruptReport, Report
  <2>2. PendingInv'
    BY <1>4, AttachmentsAssumption, Zenon DEF InterruptEmit, Claim, InterruptReport, Report
  <2>3. \A s \in Requests : RequestInv(s)'
    BY <1>4 DEF InterruptEmit, Claim, InterruptReport, Report, RequestInv, FreshInv,
       EventInv, OwnerInv
  <2> QED BY <2>1, <2>2, <2>3, Zenon
<1>5. ASSUME Stopped PROVE TransferInv'
  <2>1. Types'
    BY <1>5 DEF Stopped, Gone, WaitingSet, Waiting
  <2>2. PendingInv'
    BY <1>5, AttachmentsAssumption, Zenon DEF Stopped, Gone, WaitingSet, Waiting
  <2>3. \A s \in Requests : RequestInv(s)'
    BY <1>5 DEF Stopped, Gone, WaitingSet, Waiting, RequestInv, FreshInv, EventInv, OwnerInv
  <2> QED BY <2>1, <2>2, <2>3, Zenon
<1>6. ASSUME Reconnect PROVE TransferInv'
  <2>1. Types'
    BY <1>6, Zenon DEF Reconnect
  <2>2. PendingInv'
    BY <1>6, AttachmentsAssumption, Zenon DEF Reconnect
  <2>3. \A s \in Requests : RequestInv(s)'
    BY <1>6 DEF Reconnect, RequestInv, FreshInv, EventInv, OwnerInv
  <2> QED BY <2>1, <2>2, <2>3, Zenon
<1>7. ASSUME FatalError PROVE TransferInv'
  <2>1. Types'
    BY <1>7 DEF FatalError, Gone, WaitingSet, Waiting
  <2>2. PendingInv'
    BY <1>7, AttachmentsAssumption, Zenon DEF FatalError, Gone, WaitingSet, Waiting
  <2>3. \A s \in Requests : RequestInv(s)'
    BY <1>7 DEF FatalError, Gone, WaitingSet, Waiting, RequestInv, FreshInv, EventInv,
       OwnerInv
  <2> QED BY <2>1, <2>2, <2>3, Zenon
<1> QED BY <1>1, <1>2, <1>3, <1>4, <1>5, <1>6, <1>7, Zenon

(* Every step of adapter, actor and tasks keeps the invariant.                *)
LEMMA TransferStep == TransferInv /\ [Next]_vars => TransferInv'
<1> SUFFICES ASSUME TransferInv, [Next]_vars PROVE TransferInv'
  BY Zenon
<1>1. CASE UNCHANGED vars
  BY <1>1 DEF vars, admission, mainVars, TransferInv, Types, PendingInv, RequestInv,
     FreshInv,
              EventInv, OwnerInv, Running
<1> QED BY <1>1, MainSteps, TaskSteps, ActorSteps, SessionSteps, Zenon DEF Next, Worker

(* While the worker lives, a transfer that Purple shows as running is owned   *)
(* by the core or has its event on the way, and no transfer is told of its    *)
(* end twice, in every interleaving of completion, cancellation, refusal,     *)
(* interruption, time-out and shutdown.                                       *)
THEOREM NoTransferOrphaned == Spec => []TransferNotOrphaned
<1>1. TransferInv => TransferNotOrphaned
  BY Zenon DEF TransferInv, Types, RequestInv, FreshInv, EventInv, OwnerInv,
     TransferNotOrphaned, Places,
         Live, Waits, Tasks
<1> QED BY <1>1, TransferInitially, TransferStep, PTL DEF Spec

-----------------------------------------------------------------------------
(* Counting the permits.                                                      *)

(* The permits alive are those of the live requests, and there are no more of *)
(* them than admission allows.                                                *)
SlotInv ==
    /\ admitted = {r \in Requests : place[r] \in Live}
    /\ Cardinality(admitted) <= MaxAttachments

(* Admission takes one slot, of a request that had none.                      *)
LEMMA ReserveTakesSlot ==
    ASSUME TransferInv, SlotInv, NEW r \in Requests, Reserve(r) PROVE SlotInv'
<1>1. place \in [Requests -> Places] /\ place[r] = "new"
  BY Zenon DEF TransferInv, Types, Reserve
<1>2. CASE UNCHANGED <<admission, place>>
  BY <1>2, Zenon DEF SlotInv, admission
<1>3. CASE /\ admitted' = admitted \cup {r} /\ Cardinality(admitted) < MaxAttachments
           /\ place' = [place EXCEPT ![r] = "reserved"]
  <2>1. r \notin admitted
    BY <1>1, Zenon DEF SlotInv, Live
  <2>2. admitted' = {s \in Requests : place'[s] \in Live}
    BY <1>1, <1>3, Zenon DEF SlotInv, Live
  <2>3. IsFiniteSet(admitted)
    BY AttachmentsAssumption, FS_Subset, Zenon DEF SlotInv
  <2>4. Cardinality(admitted) \in Nat /\ Cardinality(admitted') = Cardinality(admitted) + 1
    BY <1>3, <2>1, <2>3, FS_AddElement, FS_CardinalityType, Zenon
  <2> QED BY <1>3, <2>2, <2>4, AttachmentsAssumption DEF SlotInv
<1> QED BY <1>2, <1>3, Zenon DEF Reserve, CanReserve

(* Every other step gives back the slots of the requests it ends, and no      *)
(* others.                                                                    *)
LEMMA OthersReturnSlots ==
    ASSUME TransferInv, SlotInv, [Next]_vars, \A r \in Requests : ~Reserve(r)
    PROVE  admitted' = {r \in Requests : place'[r] \in Live} /\ admitted' \subseteq admitted
<1> USE DEF TransferInv, Types, SlotInv, Places, Live
<1>0. ASSUME NEW r \in Requests, TakeSlot(r) \/ RefuseSlot(r)
      PROVE  admitted' = {s \in Requests : place'[s] \in Live} /\ admitted' \subseteq admitted
  BY <1>0, Zenon DEF TakeSlot, RefuseSlot, Release, admission
<1>1. CASE User \/ Adapter \/ Close \/ UNCHANGED vars
  <2>1. UNCHANGED <<admitted, place>> \/ \E r \in Requests : TakeSlot(r) \/ RefuseSlot(r)
    BY <1>1, Zenon DEF User, Adapter, Send, Cancel, CancelAborts, TransferEvent, Close,
       admission, vars
  <2> QED BY <1>0, <2>1, Zenon
<1>2. ASSUME NEW r \in Requests, Task(r)
      PROVE  admitted' = {s \in Requests : place'[s] \in Live} /\ admitted' \subseteq admitted
  BY <1>2 DEF Task, TaskStart, TaskResolve, TaskClaim, TaskAborted, admission
<1>3. ASSUME NEW r \in Requests, Actor(r)
      PROVE  admitted' = {s \in Requests : place'[s] \in Live} /\ admitted' \subseteq admitted
  <2>1. CASE SpawnUpload(r) \/ InterruptCheck(r) \/ DeferCommand(r)
    BY <2>1, Zenon DEF SpawnUpload, InterruptCheck, DeferCommand, Waiting, admission
  <2>2. CASE DropCancelled(r) \/ RefuseGroup(r) \/ Complete(r) \/ DropAbandoned(r)
    <3>1. Gone({r}) /\ Release({r})
      BY <2>2, Zenon DEF DropCancelled, RefuseGroup, Complete, DropAbandoned
    <3> QED BY <3>1, Zenon DEF Gone, Release
  <2> QED BY <1>3, <2>1, <2>2, Zenon DEF Actor
<1>4. CASE Stop \/ InterruptEmit \/ Reconnect
  BY <1>4, Zenon DEF Stop, InterruptEmit, Reconnect, admission
<1>5. CASE StopFinish \/ StopTimeout
  <2>1. CASE StopFinish
    <3>1. /\ admitted' = admitted \ (InTask \cup Finished)
          /\ place' = [r \in Requests |-> IF r \in InTask \cup Finished THEN "gone" ELSE place[r]]
      BY <2>1, Zenon DEF StopFinish, Gone, Release
    <3> QED BY <3>1, Zenon
  <2>2. CASE StopTimeout
    <3>1. /\ admitted' = admitted \ Finished
          /\ place' = [r \in Requests |-> IF r \in Finished THEN "gone"
                                         ELSE IF r \in InTask THEN "abandoned" ELSE place[r]]
      BY <2>2, Zenon DEF StopTimeout, Release
    <3>2. ASSUME NEW r \in Requests
          PROVE  r \in admitted' <=> place'[r] \in Live
      BY <3>1, Zenon DEF Finished, InTask
    <3>3. admitted' \subseteq Requests
      BY <3>1, Zenon
    <3> QED BY <3>1, <3>2, <3>3
  <2> QED BY <1>5, <2>1, <2>2, Zenon
<1>6. CASE Stopped \/ FatalError
  BY <1>6 DEF Stopped, FatalError, Gone, Release, WaitingSet, Waiting, admission
<1> QED BY <1>1, <1>2, <1>3, <1>4, <1>5, <1>6, Zenon DEF Next, Worker

(* Every step takes and gives back the slots of exactly its request.          *)
LEMMA SlotStep == TransferInv /\ SlotInv /\ [Next]_vars => SlotInv'
<1> SUFFICES ASSUME TransferInv, SlotInv, [Next]_vars, \A r \in Requests : ~Reserve(r) PROVE SlotInv'
  BY ReserveTakesSlot, Zenon
<1>1. admitted' = {r \in Requests : place'[r] \in Live} /\ admitted' \subseteq admitted
  BY OthersReturnSlots, Zenon
<1>2. IsFiniteSet(admitted)
  BY AttachmentsAssumption, FS_Subset, Zenon DEF SlotInv
<1>3. /\ Cardinality(admitted') <= Cardinality(admitted)
      /\ Cardinality(admitted') \in Nat /\ Cardinality(admitted) \in Nat
  BY <1>1, <1>2, FS_Subset, FS_CardinalityType, Zenon
<1> QED BY <1>1, <1>3, AttachmentsAssumption DEF SlotInv

(* AttachmentAdmission: whatever becomes of the requests, the slots in use    *)
(* are those of the requests that wait, run or are not yet joined, and never  *)
(* more than MAX_ADMITTED_OUTGOING_ATTACHMENTS.                               *)
THEOREM SlotsExact == Spec => []SlotInv
<1>1. Init => SlotInv
  BY AttachmentsAssumption, FS_EmptySet DEF Init, SlotInv, Live
<1> QED BY <1>1, TransferInitially, TransferStep, SlotStep, PTL DEF Spec

(* The bytes that requests hold are among those of the whole budget.          *)
LEMMA HeldFinite ==
    ASSUME NEW f \in [Requests -> 0 .. MaxBytes], NEW S \in SUBSET Requests
    PROVE  IsFiniteSet(HeldBytes(f, S)) /\ TotalSize(f, S) \in Nat
<1>1. HeldBytes(f, S) \subseteq Requests \X (1 .. MaxBytes)
  BY AttachmentsAssumption DEF HeldBytes
<1>2. IsFiniteSet(Requests \X (1 .. MaxBytes))
  <2>1. IsFiniteSet(Requests) /\ IsFiniteSet(1 .. MaxBytes)
    BY AttachmentsAssumption, FS_Interval
  <2> QED BY <2>1, FS_Product, Zenon
<1> QED BY <1>1, <1>2, FS_Subset, FS_CardinalityType, Zenon DEF TotalSize

(* What a part of the requests holds, and what the others hold, is the total. *)
LEMMA TotalSplits ==
    ASSUME NEW f \in [Requests -> 0 .. MaxBytes], NEW A \in SUBSET Requests, NEW S \in SUBSET A
    PROVE  TotalSize(f, A) = TotalSize(f, S) + TotalSize(f, A \ S)
<1>1. HeldBytes(f, A) = HeldBytes(f, S) \cup HeldBytes(f, A \ S)
  BY Zenon DEF HeldBytes
<1>2. HeldBytes(f, S) \cap HeldBytes(f, A \ S) = {}
  BY DEF HeldBytes
<1>3. IsFiniteSet(HeldBytes(f, S)) /\ IsFiniteSet(HeldBytes(f, A \ S))
  BY HeldFinite, Zenon
<1>4. TotalSize(f, S) \in Nat /\ TotalSize(f, A \ S) \in Nat
  BY HeldFinite, Zenon
<1>5. Cardinality(HeldBytes(f, A)) =
          Cardinality(HeldBytes(f, S)) + Cardinality(HeldBytes(f, A \ S)) - Cardinality({})
  BY <1>1, <1>2, <1>3, FS_Union, ZenonT(30)
<1> QED BY <1>4, <1>5, FS_EmptySet DEF TotalSize

(* One request holds its size.                                                *)
LEMMA OneSize ==
    ASSUME NEW f \in [Requests -> 0 .. MaxBytes], NEW r \in Requests
    PROVE  TotalSize(f, {r}) = f[r]
<1>1. HeldBytes(f, {r}) = {r} \X (1 .. f[r])
  BY Zenon DEF HeldBytes
<1>2. f[r] \in Nat
  BY AttachmentsAssumption
<1>3. IsFiniteSet({r}) /\ Cardinality({r}) = 1
  BY FS_Singleton, Zenon
<1>4. IsFiniteSet(1 .. f[r]) /\ Cardinality(1 .. f[r]) = f[r]
  BY <1>2, FS_Interval
<1>5. Cardinality({r} \X (1 .. f[r])) = Cardinality({r}) * Cardinality(1 .. f[r])
  BY <1>3, <1>4, FS_Product, Zenon
<1>6. TotalSize(f, {r}) = Cardinality({r}) * Cardinality(1 .. f[r])
  BY <1>1, <1>5, Zenon DEF TotalSize
<1> QED BY <1>2, <1>3, <1>4, <1>6

(* The counter of bytes is the sum of the sizes of the permits alive.         *)
BytesInv ==
    /\ size \in [Requests -> 0 .. MaxBytes]
    /\ bytes = TotalSize(size, admitted)

(* Every step but an admission returns the bytes of the slots it returns.     *)
LEMMA OthersReturnBytes ==
    ASSUME TransferInv, SlotInv, BytesInv, [Next]_vars, \A r \in Requests : ~Reserve(r)
    PROVE  (\E S \in SUBSET admitted : Release(S)) \/ UNCHANGED admission
<1> USE DEF TransferInv, Types, SlotInv, Places, Live
<1>0. ASSUME NEW r \in Requests, TakeSlot(r) \/ RefuseSlot(r)
      PROVE  (\E S \in SUBSET admitted : Release(S)) \/ UNCHANGED admission
  <2>1. {r} \in SUBSET admitted
    BY <1>0, Zenon DEF TakeSlot, RefuseSlot
  <2> QED BY <1>0, <2>1, Zenon DEF TakeSlot, RefuseSlot
<1>1. CASE User \/ Adapter \/ Close \/ UNCHANGED vars
  BY <1>0, <1>1, Zenon DEF User, Adapter, Send, Cancel, CancelAborts, TransferEvent, Close,
     admission, vars
<1>2. ASSUME NEW r \in Requests, Task(r) PROVE UNCHANGED admission
  BY <1>2, Zenon DEF Task, TaskStart, TaskResolve, TaskClaim, TaskAborted
<1>3. ASSUME NEW r \in Requests, Actor(r)
      PROVE  (\E S \in SUBSET admitted : Release(S)) \/ UNCHANGED admission
  <2>1. CASE SpawnUpload(r) \/ InterruptCheck(r) \/ DeferCommand(r)
    BY <2>1, Zenon DEF SpawnUpload, InterruptCheck, DeferCommand
  <2>2. CASE DropCancelled(r) \/ RefuseGroup(r) \/ Complete(r) \/ DropAbandoned(r)
    <3>1. Release({r}) /\ {r} \subseteq admitted
      BY <2>2, Zenon DEF DropCancelled, RefuseGroup, Complete, DropAbandoned, Waiting
    <3> QED BY <3>1, Zenon
  <2> QED BY <1>3, <2>1, <2>2, Zenon DEF Actor
<1>4. CASE Stop \/ InterruptEmit \/ Reconnect
  BY <1>4, Zenon DEF Stop, InterruptEmit, Reconnect
<1>5. CASE StopFinish
  <2>1. Release(InTask \cup Finished) /\ InTask \cup Finished \subseteq admitted
    BY <1>5, Zenon DEF StopFinish, InTask, Finished
  <2> QED BY <2>1, Zenon
<1>6. CASE StopTimeout
  <2>1. Release(Finished) /\ Finished \subseteq admitted
    BY <1>6, Zenon DEF StopTimeout, Finished
  <2> QED BY <2>1, Zenon
<1>7. CASE Stopped \/ FatalError
  <2>1. UNCHANGED admission \/ Release(WaitingSet)
    BY <1>7, Zenon DEF Stopped, FatalError, admission
  <2>2. WaitingSet \subseteq admitted
    BY Zenon DEF WaitingSet, Waiting
  <2> QED BY <2>1, <2>2, Zenon
<1> QED BY <1>1, <1>2, <1>3, <1>4, <1>5, <1>6, <1>7, Zenon DEF Next, Worker

(* An admission adds the bytes of a request that held none of them.           *)
LEMMA ReserveTakesBytes ==
    ASSUME TransferInv, SlotInv, BytesInv, NEW r \in Requests, Reserve(r) PROVE BytesInv'
<1> SUFFICES ASSUME ~UNCHANGED admission PROVE BytesInv'
  BY Zenon DEF admission, BytesInv
<1>1. place \in [Requests -> Places] /\ place[r] = "new" /\ admitted \subseteq Requests
  BY Zenon DEF TransferInv, Types, Reserve
<1>2. r \notin admitted
  BY <1>1, Zenon DEF SlotInv, Live
<1>3. TotalSize(size, admitted) \in Nat
  BY <1>1, HeldFinite, Zenon DEF BytesInv
<1>4. PICK b \in Sizes : /\ bytes + b <= MaxBytes /\ admitted' = admitted \cup {r}
                         /\ bytes' = bytes + b /\ size' = [size EXCEPT ![r] = b]
  BY Zenon DEF Reserve, CanReserve
<1>5. b \in 0 .. MaxBytes
  BY <1>3, <1>4, AttachmentsAssumption DEF BytesInv
<1>6. size' \in [Requests -> 0 .. MaxBytes] /\ size'[r] = b
  BY <1>4, <1>5, Zenon DEF BytesInv
<1>7. HeldBytes(size', admitted) = HeldBytes(size, admitted)
  BY <1>1, <1>2, <1>4, Zenon DEF BytesInv, HeldBytes
<1>8. TotalSize(size', admitted') = TotalSize(size', {r}) + TotalSize(size', admitted' \ {r})
  <2>1. admitted' \in SUBSET Requests /\ {r} \in SUBSET admitted'
    BY <1>1, <1>4, Zenon
  <2> QED BY <1>6, <2>1, TotalSplits
<1>9. admitted' \ {r} = admitted
  BY <1>2, <1>4, Zenon
<1>10. TotalSize(size', admitted') = b + TotalSize(size, admitted)
  BY <1>6, <1>7, <1>8, <1>9, OneSize, Zenon DEF TotalSize
<1> QED BY <1>3, <1>4, <1>5, <1>6, <1>10 DEF BytesInv

(* The counter follows every step.                                            *)
LEMMA BytesStep == TransferInv /\ SlotInv /\ BytesInv /\ [Next]_vars => BytesInv'
<1> SUFFICES ASSUME TransferInv, SlotInv, BytesInv, [Next]_vars, \A r \in Requests : ~Reserve(r)
             PROVE  BytesInv'
  BY ReserveTakesBytes, Zenon
<1>1. ASSUME NEW S \in SUBSET admitted, Release(S) PROVE BytesInv'
  <2>1. /\ size' = [r \in Requests |-> IF r \in S THEN 0 ELSE size[r]]
        /\ admitted' = admitted \ S /\ bytes' = bytes - TotalSize(size, S)
        /\ admitted \in SUBSET Requests /\ admitted \ S \in SUBSET Requests /\ S \in SUBSET Requests
    BY <1>1, Zenon DEF Release, SlotInv
  <2>2. /\ TotalSize(size, S) \in Nat /\ TotalSize(size, admitted \ S) \in Nat
        /\ TotalSize(size, admitted) = TotalSize(size, S) + TotalSize(size, admitted \ S)
    BY <2>1, HeldFinite, TotalSplits DEF BytesInv
  <2>3. bytes' = TotalSize(size, admitted \ S)
    BY <2>1, <2>2 DEF BytesInv
  <2>4. size' \in [Requests -> 0 .. MaxBytes]
    BY <2>1, AttachmentsAssumption DEF BytesInv
  <2>5. \A r \in admitted \ S : size'[r] = size[r]
    BY <2>1, Zenon
  <2>6. HeldBytes(size', admitted \ S) = HeldBytes(size, admitted \ S)
    BY <2>5, Zenon DEF HeldBytes
  <2> QED BY <2>1, <2>3, <2>4, <2>6, Zenon DEF BytesInv, TotalSize
<1>2. CASE UNCHANGED admission
  BY <1>2, Zenon DEF admission, BytesInv
<1> QED BY <1>1, <1>2, OthersReturnBytes, Zenon

(* AttachmentPermit: slots and bytes are given back exactly once, by          *)
(* completion, refusal, cancellation, interruption, time-out and shutdown     *)
(* alike, and never before the request is over.                               *)
THEOREM AdmissionExact == Spec => []PermitsExact
<1>1. Init => BytesInv
  <2> SUFFICES ASSUME Init PROVE BytesInv
    BY Zenon
  <2>1. size \in [Requests -> 0 .. MaxBytes] /\ admitted = {} /\ bytes = 0
    BY AttachmentsAssumption DEF Init
  <2>2. HeldBytes(size, {}) = {}
    BY Zenon DEF HeldBytes
  <2> QED BY <2>1, <2>2, FS_EmptySet, Zenon DEF BytesInv, TotalSize
<1>2. SlotInv /\ BytesInv => PermitsExact
  BY Zenon DEF SlotInv, BytesInv, PermitsExact
<1> QED BY <1>1, <1>2, SlotsExact, TransferInitially, TransferStep, BytesStep, PTL DEF Spec
=============================================================================
