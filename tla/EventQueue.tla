----------------------------- MODULE EventQueue -----------------------------
(* The bounded event queue between the Rust worker and Purple's main loop:    *)
(* rust/signal-core/src/event_queue.rs, and the descriptor callback           *)
(* signal_poll_backend (src/connection.c) that drains it.                     *)
(*                                                                            *)
(* emit, poll and close hold the `serial` mutex for one loop iteration, so    *)
(* each is one atomic step; a producer gives the mutex up only inside         *)
(* Condvar::wait, where it is "asleep" until poll or close notifies it (or it *)
(* wakes spuriously) and then tries again from the top of the loop.           *)
EXTENDS Integers, Sequences, FiniteSets

CONSTANTS
    Producers,   \* threads and tasks holding a clone of the EventSink
    Capacity,    \* event count limit of the sync_channel
    MaxQueuedBytes, \* max_queued_bytes
    EventSizes,  \* the event.data lengths that occur
    Batch,       \* polls of one signal_poll_backend call (64 in the code)
    MaxEmits     \* bound: events each producer emits

ASSUME QueueAssumption ==
    /\ Capacity \in Nat \ {0}   \* capacity 0 is refused
    /\ MaxQueuedBytes \in Nat
    /\ EventSizes \subseteq Nat
    /\ Batch \in Nat \ {0}
    /\ MaxEmits \in Nat

VARIABLES
    queue,      \* the channel: events accepted and not yet polled
    queuedBytes, \* queued_bytes
    pending,    \* notification_pending
    notifier,   \* bytes in the notification socket
    closed,     \* EventQueueState.closed
    pc,         \* per producer: "idle", "emitting", "asleep" or "exited"
    event,      \* per producer: the event it is emitting
    emits,      \* per producer: how many events it has emitted
    main,       \* main thread: "loop", "polling", "joining" or "joined"
    budget,     \* polls left in the current signal_poll_backend call
    watching,   \* the descriptor source is attached
    dispatched, \* history: the events handed to the main thread, in order
    total       \* history: payload bytes ever accepted

sharedVars == <<queue, queuedBytes, pending, notifier, closed, total>>
producerVars == <<pc, event, emits>>
pollVars == <<main, budget, watching, dispatched>>
queueVars == <<sharedVars, producerVars, pollVars>>

Events == [src : Producers, seq : 1..MaxEmits, size : EventSizes]
NoEvent == [src |-> "none"]

(* A queued event, with the value of `total` after it was accepted.           *)
Queued == [src : Producers, seq : 1..MaxEmits, size : EventSizes, end : Nat]

SinksDropped == \A p \in Producers : pc[p] = "exited"

(* What Purple's main loop sees: a byte to read, or the writer end closed.    *)
Readable == notifier > 0 \/ SinksDropped

QueueInit ==
    /\ queue = <<>> /\ queuedBytes = 0
    /\ pending = FALSE /\ notifier = 0 /\ closed = FALSE /\ total = 0
    /\ pc = [p \in Producers |-> "idle"]
    /\ event = [p \in Producers |-> NoEvent]
    /\ emits = [p \in Producers |-> 0]
    /\ main = "loop" /\ budget = 0 /\ watching = TRUE /\ dispatched = <<>>

-----------------------------------------------------------------------------
(* Producers.                                                                 *)

(* emit is called: the producer is about to take the mutex.                   *)
EmitCall(p) ==
    /\ pc[p] = "idle" /\ emits[p] < MaxEmits
    /\ \E s \in EventSizes :
         event' = [event EXCEPT ![p] = [src |-> p, seq |-> emits[p] + 1, size |-> s]]
    /\ emits' = [emits EXCEPT ![p] = @ + 1]
    /\ pc' = [pc EXCEPT ![p] = "emitting"]
    /\ UNCHANGED <<sharedVars, pollVars>>

OverBudget(e) == queuedBytes # 0 /\ queuedBytes + e.size > MaxQueuedBytes
Full == Len(queue) = Capacity

EmitReturn(p) ==
    /\ pc' = [pc EXCEPT ![p] = "idle"]
    /\ event' = [event EXCEPT ![p] = NoEvent]

(* Mutant: the flag is set and the byte is not written.                       *)
NotifyLockedNoByte == pending' = TRUE /\ UNCHANGED notifier

(* notify_locked: one byte per pending period. The socket holds far more than *)
(* the one byte it is ever asked to hold, so the WouldBlock arm is not taken; *)
(* a write fails otherwise only after the reader is dropped, which follows    *)
(* the join.                                                                  *)
NotifyLocked ==
    /\ pending' = TRUE
    /\ notifier' = IF pending THEN notifier ELSE notifier + 1

(* Mutant: emit gives up on a full queue.                                     *)
EmitDroppedFull(p) ==
    /\ pc[p] = "emitting" /\ (closed \/ Full)
    /\ EmitReturn(p)
    /\ UNCHANGED <<sharedVars, emits, pollVars>>

(* One iteration of emit's loop with the mutex held.                          *)
EmitDropped(p) ==
    /\ pc[p] = "emitting" /\ closed
    /\ EmitReturn(p)
    /\ UNCHANGED <<sharedVars, emits, pollVars>>

EmitWait(p) ==
    /\ pc[p] = "emitting" /\ ~closed
    /\ OverBudget(event[p]) \/ Full
    /\ pc' = [pc EXCEPT ![p] = "asleep"]
    /\ UNCHANGED <<sharedVars, event, emits, pollVars>>

EmitSend(p) ==
    /\ pc[p] = "emitting" /\ ~closed
    /\ ~OverBudget(event[p]) /\ ~Full
    /\ queue' = Append(queue, [src |-> event[p].src, seq |-> event[p].seq,
                               size |-> event[p].size, end |-> total + event[p].size])
    /\ queuedBytes' = queuedBytes + event[p].size
    /\ total' = total + event[p].size
    /\ NotifyLocked
    /\ EmitReturn(p)
    /\ UNCHANGED <<closed, emits, pollVars>>

SpuriousWakeup(p) ==
    /\ pc[p] = "asleep"
    /\ pc' = [pc EXCEPT ![p] = "emitting"]
    /\ UNCHANGED <<sharedVars, event, emits, pollVars>>

(* The worker returns and drops its sinks: on the shutdown signal, or on its  *)
(* own after a fatal error.                                                   *)
Exit(p) ==
    /\ pc[p] = "idle"
    /\ pc' = [pc EXCEPT ![p] = "exited"]
    /\ UNCHANGED <<sharedVars, event, emits, pollVars>>

-----------------------------------------------------------------------------
(* The main thread.                                                           *)

(* Mutant: notify_one.                                                        *)
NotifyOne ==
    IF \E p \in Producers : pc[p] = "asleep"
    THEN \E p \in Producers : pc[p] = "asleep" /\ pc' = [pc EXCEPT ![p] = "emitting"]
    ELSE UNCHANGED pc

NotifyAll == pc' = [p \in Producers |-> IF pc[p] = "asleep" THEN "emitting" ELSE pc[p]]

(* The main loop dispatches the readable descriptor.                          *)
PollBackend ==
    /\ main = "loop" /\ watching /\ Readable
    /\ main' = "polling" /\ budget' = Batch
    /\ UNCHANGED <<sharedVars, producerVars, watching, dispatched>>

Dequeue == queue' = Tail(queue) /\ queuedBytes' = queuedBytes - Head(queue).size

(* EventQueue::poll returns an event and signal_dispatch_event handles it;    *)
(* `keep` FALSE (a fatal event) removes the source.                           *)
PollEvent ==
    /\ main = "polling" /\ queue # <<>>
    /\ Dequeue
    /\ NotifyAll
    /\ dispatched' = Append(dispatched, Head(queue))
    /\ \E keep \in BOOLEAN :
         /\ watching' = keep
         /\ budget' = budget - 1
         /\ main' = IF keep /\ budget > 1 THEN "polling" ELSE "loop"
    /\ UNCHANGED <<pending, notifier, closed, total, event, emits>>

(* EventQueue::poll finds nothing: the socket is drained and the flag reset.  *)
(* With every sink gone the result is Disconnected and the source is removed. *)
PollEmpty ==
    /\ main = "polling" /\ queue = <<>>
    /\ notifier' = 0 /\ pending' = FALSE
    /\ watching' = ~SinksDropped
    /\ main' = "loop" /\ budget' = 0
    /\ UNCHANGED <<queue, queuedBytes, closed, total, producerVars, dispatched>>

(* signal_connection_close and signal_core_shutdown: the source is removed,   *)
(* the queue closed and the worker joined.                                    *)
CloseQueue ==
    /\ main = "loop"
    /\ watching' = FALSE
    /\ closed' = TRUE
    /\ NotifyAll
    /\ main' = "joining"
    /\ UNCHANGED <<queue, queuedBytes, pending, notifier, total, event, emits, budget, dispatched>>

Join ==
    /\ main = "joining" /\ SinksDropped
    /\ main' = "joined"
    /\ UNCHANGED <<sharedVars, producerVars, budget, watching, dispatched>>

Terminated == main = "joined" /\ UNCHANGED queueVars

QueueNext ==
    \/ \E p \in Producers :
         \/ EmitCall(p) \/ EmitDropped(p) \/ EmitWait(p) \/ EmitSend(p)
         \/ SpuriousWakeup(p) \/ Exit(p)
    \/ PollBackend \/ PollEvent \/ PollEmpty \/ CloseQueue \/ Join \/ Terminated

QueueSpec == QueueInit /\ [][QueueNext]_queueVars

(* The operating system schedules both threads, the main loop dispatches a    *)
(* readable source, a thread that holds the mutex gives it up, and a worker   *)
(* told to shut down returns. Nothing obliges anyone to emit, exit or close.  *)
QueueFairness ==
    /\ \A p \in Producers :
         /\ WF_queueVars(EmitDropped(p)) /\ WF_queueVars(EmitWait(p)) /\ WF_queueVars(EmitSend(p))
         /\ WF_queueVars(closed /\ Exit(p))
    /\ WF_queueVars(PollBackend) /\ WF_queueVars(PollEvent) /\ WF_queueVars(PollEmpty) /\ WF_queueVars(Join)

QueueFairSpec == QueueSpec /\ QueueFairness

-----------------------------------------------------------------------------
(* Every variable has its type; queued_bytes, which poll of event_queue.rs    *)
(* subtracts from, is never negative.                                         *)
QueueTypeOK ==
    /\ queue \in Seq(Queued) /\ queuedBytes \in Nat /\ total \in Nat
    /\ pending \in BOOLEAN /\ notifier \in Nat /\ closed \in BOOLEAN
    /\ pc \in [Producers -> {"idle", "emitting", "asleep", "exited"}]
    /\ event \in [Producers -> Events \cup {NoEvent}]
    /\ emits \in [Producers -> 0..MaxEmits]
    /\ main \in {"loop", "polling", "joining", "joined"}
    /\ budget \in 0..Batch /\ watching \in BOOLEAN
    /\ dispatched \in Seq(Queued)

(* The level-trigger invariant notify_locked's comment names: while an event  *)
(* is queued the notification descriptor is readable, although poll leaves    *)
(* the flag set after taking an event and a call may stop after Batch events. *)
LevelTriggered == queue # <<>> => notifier > 0

(* notification_pending and the socket agree, so the swap in notify_locked    *)
(* never suppresses a byte that is needed nor piles bytes up.                 *)
PendingMatchesSocket == notifier = IF pending THEN 1 ELSE 0

(* No lost wakeup on the producer side: a producer sleeps in Condvar::wait    *)
(* only while its own event still does not fit an open queue.                 *)
AsleepHasReason ==
    \A p \in Producers :
        pc[p] = "asleep" => ~closed /\ (OverBudget(event[p]) \/ Full)

(* The byte limit is exceeded only by one oversized event admitted to a queue *)
(* that held no other payload (emit skips the limit at queued_bytes = 0).     *)
OversizedAlone == queuedBytes > MaxQueuedBytes => \E i \in 1..Len(queue) : queue[i].size = queuedBytes

(* What has been accepted, in order, and where the events of a producer are.  *)
Accepted == dispatched \o queue
PlacesOf(s, p) == {i \in DOMAIN s : s[i].src = p}

(* The events of a producer in s are its first n, each once and in order.     *)
FirstInOrder(s, p, n) ==
    /\ {s[i].seq : i \in PlacesOf(s, p)} = 1..n
    /\ \A i, j \in PlacesOf(s, p) : i < j => s[i].seq < s[j].seq

(* Backpressure delays events and never loses, duplicates or reorders them:   *)
(* of each producer, what was delivered and what is queued is exactly the     *)
(* prefix of what it emitted, until close lets emit drop events.              *)
InOrderNoLoss ==
    \A p \in Producers :
        LET returned == emits[p] - (IF pc[p] \in {"emitting", "asleep"} THEN 1 ELSE 0)
        IN  \E n \in 0..MaxEmits : FirstInOrder(Accepted, p, n) /\ (~closed => n = returned)
=============================================================================
