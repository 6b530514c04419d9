----------------------------- MODULE Projection -----------------------------
(* How a received message reaches Purple and is recorded as projected:        *)
(* MessageReplayQueue, MessageProjection and the acknowledgment loop of       *)
(* backend/projection.rs, AcknowledgmentInbox (acknowledgment.rs), the parts  *)
(* of ConnectionSession (backend/worker.rs) that drive them, and the polling  *)
(* callback of src/connection.c that presents an event and acknowledges it.   *)
(*                                                                            *)
(* The actor is sequential: `pc` names the await it is parked at. The main    *)
(* thread runs between any two of its steps.                                  *)
EXTENDS Lists

CONSTANTS
    Messages,        \* projection identities (sender, destination, timestamp)
    GroupMessages,   \* those with a group context
    MaxPending,      \* MAX_PENDING_MESSAGE_PROJECTIONS
    RecentLimit,     \* RECENT_PROJECTION_IDENTITY_LIMIT
    AckBatch,        \* ACKNOWLEDGMENT_BATCH_SIZE
    StreamCapacity,  \* RECEIVE_EVENT_QUEUE_CAPACITY
    MaxDeliveries,   \* bound: delivery ids handed out by one process
    MaxReconnects,   \* bound: reconnections of one process
    MaxRuns          \* bound: processes started on the same store

ASSUME ProjectionAssumption ==
    /\ IsFiniteSet(Messages) /\ GroupMessages \subseteq Messages
    /\ {MaxPending, RecentLimit, AckBatch, StreamCapacity, MaxDeliveries, MaxRuns} \subseteq Nat \ {0}
    /\ MaxReconnects \in Nat

VARIABLES
    store,          \* durable: "none", "stored" or "projected" per message
    stream,         \* contents in the receive driver's channel
    ready, waiting, \* MessageReplayQueue.ready and .waiting_for_groups
    pending,        \* MessageProjection.pending: delivery id -> message
    identities,     \* ProjectionIdentities.pending
    completed,      \* ProjectionIdentities.completed_order
    nextId,         \* next_delivery_id
    inbox,          \* AcknowledgmentState: open, registered, accepted, ready, retry
    permit,         \* the Notify permit of the inbox
    authoritative,  \* groups_authoritative()
    phase,          \* "recovering", "startup" or "active"
    pc,             \* "loop", "handling", "marking", "acking", "drain", "stopped"
    current,        \* delivery id project_content is working on
    batch,          \* ids taken by process_acknowledgments, still to record
    queue,          \* events in the event queue: [id, msg]
    main,           \* "up", "closed" (events closed), "shutdown" (signal sent)
    presented,      \* history: messages the adapter accepted
    rejected,       \* history: messages the adapter found malformed
    shown,          \* history: how often this process polled each message
    handled,        \* history: messages that needed no presentation
    parked,         \* history: contents released without being recorded
    staleReplay,    \* history: the last reload of unprojected messages failed
    timedOut,       \* history: the cleanup budget or a store error cut the drain
    reconnects, run

inboxVars == <<inbox, permit>>
replayVars == <<ready, waiting, staleReplay>>
trackVars == <<pending, identities, completed, nextId>>
uiVars == <<queue, main, presented, rejected, shown>>
actorVars == <<pc, current, batch>>
sessionVars == <<phase, authoritative, reconnects, run>>
noteVars == <<handled, parked, timedOut>>
vars == <<store, stream, replayVars, trackVars, inboxVars, uiVars, actorVars,
          sessionVars, noteVars>>

EmptyInbox == [open |-> TRUE, registered |-> {}, accepted |-> {}, ready |-> <<>>, retry |-> <<>>]

HasCapacity == Cardinality(DOMAIN pending) < MaxPending
CanAcceptLive == Len(ready) + Len(waiting) < MaxPending
Completed == Range(completed)

Init ==
    /\ store = [m \in Messages |-> "none"]
    /\ presented = {} /\ rejected = {} /\ handled = {} /\ run = 1
    /\ stream = <<>> /\ ready = <<>> /\ waiting = <<>> /\ staleReplay = FALSE
    /\ pending = <<>> /\ identities = {} /\ completed = <<>> /\ nextId = 0
    /\ inbox = EmptyInbox /\ permit = FALSE
    /\ authoritative = FALSE /\ phase = "startup" /\ reconnects = 0
    /\ pc = "loop" /\ current = 0 /\ batch = <<>>
    /\ queue = <<>> /\ main = "up" /\ shown = [m \in Messages |-> 0]
    /\ parked = {} /\ timedOut = FALSE

-----------------------------------------------------------------------------
(* The inbox.                                                                 *)

Register(b, id) == [b EXCEPT !.registered = @ \cup {id}]

(* retain: a list holds an id at most once (InboxAgrees).                     *)
Without(s, id) == RemoveFirst(s, id)

Unregister(b, id) ==
    [b EXCEPT !.registered = @ \ {id}, !.accepted = @ \ {id},
              !.ready = Without(@, id), !.retry = Without(@, id)]

(* submit: an unregistered or already accepted id is acknowledged to the      *)
(* caller and changes nothing.                                                *)
SubmitWakes(id) == inbox.open /\ id \in inbox.registered \ inbox.accepted

Submit(id) ==
    IF SubmitWakes(id)
    THEN /\ inbox' = [inbox EXCEPT !.accepted = @ \cup {id}, !.ready = Append(@, id)]
         /\ permit' = TRUE
    ELSE UNCHANGED inboxVars

(* take_ready, right after the permit was consumed.                           *)
TakeReady ==
    LET n == IF AckBatch < Len(inbox.ready) THEN AckBatch ELSE Len(inbox.ready)
    IN  /\ batch' = SubSeq(inbox.ready, 1, n)
        /\ inbox' = [inbox EXCEPT !.ready = SubSeq(@, n + 1, Len(@))]
        /\ permit' = (n < Len(inbox.ready))

(* Mutant: a failed acknowledgment is not tried again.                        *)
DeferRetryNever(b, id) == b

DeferRetry(b, id) ==
    IF id \in b.registered \cap b.accepted THEN [b EXCEPT !.retry = Append(@, id)] ELSE b

CloseInbox(b) == [b EXCEPT !.open = FALSE, !.ready = @ \o b.retry, !.retry = <<>>]

-----------------------------------------------------------------------------
(* Receiving and replay.                                                      *)

(* Presage saves a decrypted content and hands it to the receive driver.      *)
Receive(m) ==
    /\ pc # "stopped" /\ phase \in {"startup", "active"}
    /\ store[m] = "none" /\ Len(stream) < StreamCapacity
    /\ store' = [store EXCEPT ![m] = "stored"]
    /\ stream' = Append(stream, m)
    /\ UNCHANGED <<replayVars, trackVars, inboxVars, uiVars, actorVars, sessionVars, noteVars>>

Unprojected == {m \in Messages : store[m] = "stored"}

(* await_or_shutdown looks at the shutdown signal before it polls a phase, so *)
(* a phase makes no step once the signal is there.                            *)
PhasePolled == main # "shutdown"

(* load_unprojected_messages; groups are never authoritative at startup.      *)
LoadUnprojected ==
    /\ phase = "startup" /\ pc = "loop" /\ PhasePolled
    /\ phase' = "active"
    /\ \E loaded \in BOOLEAN :
         /\ staleReplay' = ~loaded
         /\ IF loaded
            THEN /\ ready' = SetToSeq(Unprojected \ GroupMessages)
                 /\ waiting' = SetToSeq(Unprojected \cap GroupMessages)
                 /\ parked' = {}
            ELSE UNCHANGED <<ready, waiting, parked>>
    /\ UNCHANGED <<store, stream, trackVars, inboxVars, uiVars, actorVars,
                   authoritative, reconnects, run, handled, timedOut>>

(* activate_groups at the top of the dispatch loop.                           *)
ReadyNow == IF authoritative THEN ready \o waiting ELSE ready

(* Mutant: waiting group content is let go before groups are authoritative.   *)
WaitingNowDropped == <<>>

WaitingNow == IF authoritative THEN <<>> ELSE waiting

Dispatching == phase = "active" /\ pc = "loop"
(* The loop reaches its select! only with nothing left to project now.        *)
AtSelect == Dispatching /\ (~HasCapacity \/ ReadyNow = <<>>)

(* ~content_is_projectable                                                    *)
AwaitsGroups(m) == m \in GroupMessages /\ ~authoritative

(* Received::Content                                                          *)
ReceiveContent ==
    /\ AtSelect /\ HasCapacity /\ CanAcceptLive /\ stream # <<>>
    /\ stream' = Tail(stream)
    /\ IF AwaitsGroups(Head(stream))
       THEN waiting' = Append(waiting, Head(stream)) /\ UNCHANGED ready
       ELSE ready' = Append(ready, Head(stream)) /\ UNCHANGED waiting
    /\ UNCHANGED <<store, staleReplay, trackVars, inboxVars, uiVars, actorVars, sessionVars, noteVars>>

(* group_sync_rx yields Ok.                                                   *)
GroupsSynchronized ==
    /\ AtSelect /\ ~authoritative
    /\ authoritative' = TRUE
    /\ ready' = ready \o waiting /\ waiting' = <<>>
    /\ UNCHANGED <<store, stream, staleReplay, trackVars, inboxVars, uiVars, actorVars,
                   phase, reconnects, run, noteVars>>

(* A dirty snapshot could not be emitted at QueueEmpty.                       *)
DirtySnapshotFails ==
    /\ AtSelect /\ HasCapacity /\ CanAcceptLive /\ authoritative
    /\ authoritative' = FALSE
    /\ UNCHANGED <<store, stream, replayVars, trackVars, inboxVars, uiVars, actorVars,
                   phase, reconnects, run, noteVars>>

(* The stream ended, or a delivery receipt met a closed websocket.            *)
EnterRecovery ==
    /\ AtSelect /\ reconnects < MaxReconnects
    /\ phase' = "recovering" /\ authoritative' = FALSE
    /\ stream' = <<>>
    /\ reconnects' = reconnects + 1
    /\ UNCHANGED <<store, replayVars, trackVars, inboxVars, uiVars, actorVars, run, noteVars>>

(* receive_messages succeeded.                                                *)
ReceiveStarted ==
    /\ phase = "recovering" /\ pc = "loop"
    /\ phase' = "startup"
    /\ UNCHANGED <<store, stream, replayVars, trackVars, inboxVars, uiVars, actorVars,
                   authoritative, reconnects, run, noteVars>>

-----------------------------------------------------------------------------
(* project_content.                                                           *)

Track(m) ==
    /\ nextId' = nextId + 1
    /\ pending' = [i \in DOMAIN pending \cup {nextId + 1} |->
                     IF i = nextId + 1 THEN m ELSE pending[i]]
    /\ identities' = identities \cup {m}
    /\ inbox' = Register(inbox, nextId + 1)

(* ProjectionIdentities::reserve refuses.                                     *)
Reserved(m) == m \in identities \cup Completed

(* Content that is not projectable, or whose identity is pending or recently  *)
(* completed, is dropped without a word.                                      *)
ProjectContent ==
    /\ Dispatching /\ PhasePolled /\ HasCapacity /\ ReadyNow # <<>> /\ nextId < MaxDeliveries
    /\ ready' = Tail(ReadyNow) /\ waiting' = WaitingNow
    /\ LET m == Head(ReadyNow)
       IN  IF AwaitsGroups(m) \/ Reserved(m)
           THEN UNCHANGED <<trackVars, inboxVars, actorVars>>
           ELSE /\ Track(m)
                /\ current' = nextId + 1 /\ pc' = "handling"
                /\ UNCHANGED <<completed, permit, batch>>
    /\ UNCHANGED <<store, stream, staleReplay, uiVars, sessionVars, noteVars>>

(* Mutant: the entry of a finished projection is kept.                        *)
DropNothing(f, id) == f

Drop(f, id) == [i \in DOMAIN f \ {id} |-> f[i]]

(* MessageProjection::release and ::complete.                                 *)
Release(id) ==
    /\ pending' = Drop(pending, id)
    /\ identities' = identities \ {pending[id]}
    /\ inbox' = Unregister(inbox, id)
    /\ UNCHANGED <<completed, nextId>>

LastN(s, n) == IF Len(s) > n THEN SubSeq(s, Len(s) - n + 1, Len(s)) ELSE s
Complete(id) ==
    /\ pending' = Drop(pending, id)
    /\ identities' = identities \ {pending[id]}
    /\ inbox' = Unregister(inbox, id)
    /\ completed' = IF pending[id] \in Completed THEN completed
                    ELSE LastN(Append(completed, pending[id]), RecentLimit)
    /\ UNCHANGED nextId

(* Mutant: the message is recorded when its event is emitted.                 *)
HandledAwaitingAckEager ==
    /\ pc = "handling" /\ PhasePolled
    /\ store' = [store EXCEPT ![pending[current]] = "projected"]
    /\ queue' = IF main = "up" THEN Append(queue, [id |-> current, msg |-> pending[current]]) ELSE queue
    /\ pc' = "loop" /\ current' = 0
    /\ UNCHANGED <<stream, replayVars, trackVars, inboxVars, batch, main, presented, rejected,
                   shown, sessionVars, noteVars>>

(* handle_content emitted the event that carries the delivery id; a closed    *)
(* queue drops it.                                                            *)
HandledAwaitingAck ==
    /\ pc = "handling" /\ PhasePolled
    /\ queue' = IF main = "up" THEN Append(queue, [id |-> current, msg |-> pending[current]]) ELSE queue
    /\ pc' = "loop" /\ current' = 0
    /\ UNCHANGED <<store, stream, replayVars, trackVars, inboxVars, batch, main, presented, rejected,
                   shown, sessionVars, noteVars>>

HandledRetry ==
    /\ pc = "handling" /\ PhasePolled
    /\ Release(current)
    /\ parked' = parked \cup {pending[current]}
    /\ pc' = "loop" /\ current' = 0
    /\ UNCHANGED <<store, stream, replayVars, permit, batch, uiVars, sessionVars, handled, timedOut>>

HandledComplete ==
    /\ pc = "handling" /\ PhasePolled
    /\ handled' = handled \cup {pending[current]}
    /\ pc' = "marking"
    /\ UNCHANGED <<store, stream, replayVars, trackVars, inboxVars, current, batch, uiVars,
                   sessionVars, parked, timedOut>>

MarkHandled ==
    /\ pc = "marking" /\ PhasePolled
    /\ store' = [store EXCEPT ![pending[current]] = "projected"]
    /\ Complete(current)
    /\ pc' = "loop" /\ current' = 0
    /\ UNCHANGED <<stream, replayVars, permit, batch, uiVars, sessionVars, noteVars>>

MarkHandledFails ==
    /\ pc = "marking" /\ PhasePolled
    /\ Release(current)
    /\ parked' = parked \cup {pending[current]}
    /\ pc' = "loop" /\ current' = 0
    /\ UNCHANGED <<store, stream, replayVars, permit, batch, uiVars, sessionVars, handled, timedOut>>

-----------------------------------------------------------------------------
(* Acknowledgments.                                                           *)

ServicesAcks == AtSelect \/ (phase = "recovering" /\ pc = "loop")

ProcessAcknowledgments ==
    /\ ServicesAcks /\ PhasePolled /\ permit
    /\ TakeReady
    /\ pc' = IF batch' = <<>> THEN pc ELSE "acking"
    /\ UNCHANGED <<store, stream, replayVars, trackVars, current, uiVars, sessionVars, noteVars>>

Recording == pc = "drain" \/ (pc = "acking" /\ PhasePolled)
NextAck(done) == IF Len(batch) = 1 THEN done ELSE pc

(* acknowledge_message of the first id of the batch, in the loop or in the    *)
(* shutdown drain.                                                            *)
RecordAck ==
    /\ Recording /\ batch # <<>>
    /\ LET id == Head(batch)
       IN  IF id \in DOMAIN pending
           THEN /\ store' = [store EXCEPT ![pending[id]] = "projected"]
                /\ Complete(id)
           ELSE /\ inbox' = Unregister(inbox, id)
                /\ UNCHANGED <<store, trackVars>>
    /\ batch' = Tail(batch)
    /\ pc' = IF pc = "acking" THEN NextAck("loop") ELSE pc
    /\ UNCHANGED <<stream, replayVars, permit, current, uiVars, sessionVars, noteVars>>

(* The store refused: retried later, except in the drain.                     *)
RecordAckFails ==
    /\ Recording /\ batch # <<>> /\ Head(batch) \in DOMAIN pending
    /\ inbox' = IF pc = "acking" THEN DeferRetry(inbox, Head(batch)) ELSE inbox
    /\ timedOut' = (timedOut \/ pc = "drain")
    /\ batch' = Tail(batch)
    /\ pc' = IF pc = "acking" THEN NextAck("loop") ELSE pc
    /\ UNCHANGED <<store, stream, replayVars, trackVars, permit, current, uiVars, sessionVars,
                   handled, parked>>

(* activate_retries notifies whenever anything is ready afterwards; with      *)
(* nothing ready it does nothing.                                             *)
AcknowledgmentRetryTick ==
    /\ ServicesAcks /\ inbox.ready \o inbox.retry # <<>>
    /\ inbox' = [inbox EXCEPT !.ready = @ \o inbox.retry, !.retry = <<>>]
    /\ permit' = TRUE
    /\ UNCHANGED <<store, stream, replayVars, trackVars, uiVars, actorVars, sessionVars, noteVars>>

-----------------------------------------------------------------------------
(* The main thread, shutdown, crash and restart.                              *)

(* signal_poll_backend: the event is dispatched and acknowledged at once,     *)
(* whether or not signal_dispatch_event accepted it.                          *)
PollAndAcknowledge ==
    /\ main = "up" /\ queue # <<>>
    /\ LET e == Head(queue)
       IN  /\ \/ presented' = presented \cup {e.msg} /\ UNCHANGED rejected
              \/ rejected' = rejected \cup {e.msg} /\ UNCHANGED presented
           /\ shown' = [shown EXCEPT ![e.msg] = @ + 1]
           /\ Submit(e.id)
    /\ queue' = Tail(queue)
    /\ UNCHANGED <<store, stream, replayVars, trackVars, actorVars, main, sessionVars, noteVars>>

(* signal_core_shutdown closes the event queue, then sends the signal.        *)
CloseEvents ==
    /\ main = "up" /\ main' = "closed"
    /\ UNCHANGED <<store, stream, replayVars, trackVars, inboxVars, actorVars, queue, presented,
                   rejected, shown, sessionVars, noteVars>>

SendShutdown ==
    /\ main = "closed" /\ main' = "shutdown"
    /\ UNCHANGED <<store, stream, replayVars, trackVars, inboxVars, actorVars, queue, presented,
                   rejected, shown, sessionVars, noteVars>>

(* await_or_shutdown drops the future the actor is parked at and the drain    *)
(* begins. A store write already handed to SQLite may still take effect.      *)
Interrupt ==
    /\ main = "shutdown" /\ pc \notin {"drain", "stopped"}
    /\ LET writing == CASE pc = "marking" -> {pending[current]}
                        [] pc = "acking"  -> {pending[Head(batch)]}
                        [] OTHER          -> {}
       IN  \E wrote \in SUBSET writing :
             store' = [m \in Messages |-> IF m \in wrote THEN "projected" ELSE store[m]]
    /\ inbox' = CloseInbox(inbox) /\ permit' = TRUE
    /\ pc' = "drain" /\ current' = 0 /\ batch' = <<>>
    /\ UNCHANGED <<stream, replayVars, trackVars, uiVars, sessionVars, noteVars>>

(* Reconnecting failed for good: the worker cleans up and returns on its own. *)
ReceiveStartFatal ==
    /\ phase = "recovering" /\ pc = "loop"
    /\ inbox' = CloseInbox(inbox) /\ permit' = TRUE
    /\ pc' = "drain"
    /\ UNCHANGED <<store, stream, replayVars, trackVars, current, batch, uiVars, sessionVars, noteVars>>

(* drain_acknowledgments takes batches until nothing is ready.                *)
DrainBatch ==
    /\ pc = "drain" /\ batch = <<>>
    /\ IF inbox.ready = <<>> THEN pc' = "stopped" /\ UNCHANGED <<inboxVars, batch>>
       ELSE TakeReady /\ UNCHANGED pc
    /\ UNCHANGED <<store, stream, replayVars, trackVars, current, uiVars, sessionVars, noteVars>>

DrainTimesOut ==
    /\ pc = "drain"
    /\ pc' = "stopped" /\ batch' = <<>> /\ timedOut' = TRUE
    /\ UNCHANGED <<store, stream, replayVars, trackVars, inboxVars, current, uiVars, sessionVars,
                   handled, parked>>

(* The process dies, or a stopped one is followed by a new connection: only   *)
(* the store survives.                                                        *)
Restart ==
    /\ run < MaxRuns
    /\ run' = run + 1
    /\ stream' = <<>> /\ ready' = <<>> /\ waiting' = <<>> /\ staleReplay' = FALSE
    /\ pending' = <<>> /\ identities' = {} /\ completed' = <<>> /\ nextId' = 0
    /\ inbox' = EmptyInbox /\ permit' = FALSE
    /\ authoritative' = FALSE /\ phase' = "startup" /\ reconnects' = 0
    /\ pc' = "loop" /\ current' = 0 /\ batch' = <<>>
    /\ queue' = <<>> /\ main' = "up" /\ shown' = [m \in Messages |-> 0]
    /\ parked' = {} /\ timedOut' = FALSE
    /\ UNCHANGED <<store, presented, rejected, handled>>

Stopped == pc = "stopped" /\ run = MaxRuns /\ UNCHANGED vars

Next ==
    \/ \E m \in Messages : Receive(m)
    \/ LoadUnprojected \/ ReceiveContent \/ GroupsSynchronized \/ DirtySnapshotFails
    \/ EnterRecovery \/ ReceiveStarted \/ ReceiveStartFatal
    \/ ProjectContent \/ HandledAwaitingAck \/ HandledRetry \/ HandledComplete
    \/ MarkHandled \/ MarkHandledFails
    \/ ProcessAcknowledgments \/ RecordAck \/ RecordAckFails \/ AcknowledgmentRetryTick
    \/ PollAndAcknowledge \/ CloseEvents \/ SendShutdown \/ Interrupt
    \/ DrainBatch \/ DrainTimesOut \/ Restart \/ Stopped

Spec == Init /\ [][Next]_vars

(* The actor and the main loop keep running; a store write that is tried      *)
(* again and again succeeds in the end. Messages, reconnections, failures and *)
(* the teardown need not happen.                                              *)
Fairness ==
    /\ WF_vars(LoadUnprojected) /\ WF_vars(ReceiveStarted) /\ WF_vars(ReceiveContent)
    /\ WF_vars(ProjectContent) /\ WF_vars(HandledAwaitingAck)
    /\ WF_vars(MarkHandled) /\ WF_vars(ProcessAcknowledgments)
    /\ WF_vars(AcknowledgmentRetryTick) /\ SF_vars(RecordAck)
    /\ WF_vars(PollAndAcknowledge) /\ WF_vars(SendShutdown)
    /\ WF_vars(Interrupt) /\ WF_vars(DrainBatch)

FairSpec == Spec /\ Fairness

-----------------------------------------------------------------------------
(* Every variable has its type; the ids in the acknowledgment inbox, the      *)
(* batch and the event queue are ids that track (projection.rs) has assigned. *)
TypeOK ==
    /\ store \in [Messages -> {"none", "stored", "projected"}]
    /\ {Range(s) : s \in {stream, ready, waiting, completed}} \subseteq SUBSET Messages
    /\ nextId \in 0..MaxDeliveries /\ DOMAIN pending \subseteq 1..nextId
    /\ Range(inbox.ready) \cup Range(inbox.retry) \cup Range(batch) \subseteq 1..nextId
    /\ phase \in {"recovering", "startup", "active"}
    /\ pc \in {"loop", "handling", "marking", "acking", "drain", "stopped"}
    /\ main \in {"up", "closed", "shutdown"}
    /\ \A i \in 1..Len(queue) : queue[i].id \in 1..nextId /\ queue[i].msg \in Messages

(* The registered ids are those of the projections still pending, an id is    *)
(* waiting in at most one place, and only while it is registered: releasing   *)
(* or completing a projection leaves nothing behind in the inbox.  Part of    *)
(* NothingForgotten.                                                          *)
InboxAgrees ==
    LET waitingIds == inbox.ready \o inbox.retry \o batch
    IN  /\ inbox.registered = DOMAIN pending
        /\ inbox.accepted \subseteq inbox.registered
        /\ Range(waitingIds) \subseteq inbox.accepted
        /\ Cardinality(Range(waitingIds)) = Len(waitingIds)
        /\ identities = {pending[i] : i \in DOMAIN pending}

(* While the session is active a message that is stored and not yet recorded  *)
(* is still on its way: in the receive channel, the replay queue or pending,  *)
(* unless its projection was released or the last reload failed.  Part of     *)
(* NothingForgotten.                                                          *)
StillOnItsWay ==
    phase = "active" /\ pc \notin {"drain", "stopped"} =>
        Unprojected \subseteq
            Range(stream) \cup Range(ready) \cup Range(waiting) \cup identities
            \cup parked \cup (IF staleReplay THEN Messages ELSE {})

(* Replay, the live stream and reconnects may all bring the same content: one *)
(* process hands it to Purple once, what it has not recorded is still on its  *)
(* way, and the inbox holds no acknowledgment of anything else.               *)
NothingForgotten ==
    /\ InboxAgrees
    /\ \A m \in Messages : shown[m] =< 1
    /\ StillOnItsWay

(* Orderly shutdown: once the drain has ended within its budget and without a *)
(* store error, every acknowledgment accepted from the adapter is recorded.   *)
AcceptedAcksDrained ==
    pc = "stopped" /\ ~timedOut => inbox.accepted = {}

(* A malformed event is left unacknowledged and eligible for replay.          *)
MalformedStaysUnprojected ==
    \A m \in rejected \ (presented \cup handled) : store[m] # "projected"

Delivery == INSTANCE MessageDelivery WITH durable <- store, refused <- rejected, needless <- handled

(* Projection implements the promise of MessageDelivery:                      *)
(* mark_message_projected is called only for a message that the adapter has   *)
(* polled or in which handle_content found nothing to present, and a recorded *)
(* one is never handed over again, also when the write outlives a shutdown or *)
(* the process dies at any step.                                              *)
ImplementsDelivery == Delivery!Spec

(* The bound on delivery ids, which the code does not have, stops the loop.   *)
OutOfIds == ReadyNow # <<>> /\ nextId = MaxDeliveries

(* An acknowledgment accepted from Purple is recorded in the end, through     *)
(* store failures and reconnections, unless the worker stops or dies first.   *)
Acknowledged(m) == \E i \in inbox.accepted : pending[i] = m
AckedIsRecorded ==
    \A m \in Messages :
        (run = MaxRuns /\ Acknowledged(m)) ~>
            (store[m] = "projected" \/ pc = "stopped" \/ OutOfIds)

(* The replay list drains: the limit on pending projections holds projection  *)
(* back only until Purple acknowledges, and never for good.                   *)
ReplayDrains ==
    (phase = "active" /\ ready # <<>>) ~>
        (ready = <<>> \/ main # "up" \/ pc \in {"drain", "stopped"} \/ OutOfIds)
=============================================================================
