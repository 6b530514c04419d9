-------------------------- MODULE DeliveryReceipts --------------------------
(* Delivery receipts: DeliveryReceiptQueue and its one send task              *)
(* (backend/projection.rs), and the dispatch loop that starts, joins and      *)
(* retries it across connections (backend/worker.rs).                         *)
(*                                                                            *)
(* The task outlives the connection it was started on: recovery neither joins *)
(* nor aborts it, so a completion may meet a later connection generation.     *)
EXTENDS Lists

CONSTANTS
    Receipts,       \* identities (recipient, message timestamp)
    Limit,          \* MAX_PENDING_DELIVERY_RECEIPTS
    MaxEnqueues,    \* bound: times one receipt is asked for
    MaxReconnects,  \* bound: connections lost for other reasons
    MaxBreaks       \* bound: closed websockets and panics a receipt meets

ASSUME ReceiptsAssumption ==
    /\ "none" \notin Receipts
    /\ Limit \in Nat \ {0}
    /\ {MaxEnqueues, MaxReconnects, MaxBreaks} \subseteq Nat

VARIABLES
    order,      \* DeliveryReceiptQueue.pending, in order of arrival
    state,      \* DeliveryReceiptState of a pending receipt, else "none"
    reported,   \* limit_reported
    task,       \* the receipt delivery_receipt_tasks holds, or None
    taskGen,    \* the generation it was started in
    result,     \* of the task: "none", "sent", "retry", "recover", "discard", "panic"
    session,    \* "ready" (dispatching), "recovering" or "stopped"
    generation, \* receive_generation
    asked,      \* times enqueue was called for a receipt
    rested,     \* history: the queue was below its limit since the last warning
    warnings,   \* history: warnings without a rest between them
    reconnects, \* MaxReconnects used up
    breaks      \* MaxBreaks used up

pendingVars == <<order, state, reported>>
taskVars == <<task, taskGen, result>>
history == <<asked, rested, warnings>>
bounds == <<reconnects, breaks>>
vars == <<pendingVars, taskVars, session, generation, history, bounds>>

None == "none"

Init ==
    /\ order = <<>> /\ state = [r \in Receipts |-> "none"] /\ reported = FALSE
    /\ task = None /\ taskGen = 0 /\ result = "none"
    /\ session = "ready" /\ generation = 1
    /\ asked = [r \in Receipts |-> 0]
    /\ rested = TRUE /\ warnings = 0 /\ reconnects = 0 /\ breaks = 0

-----------------------------------------------------------------------------
(* The queue.                                                                 *)

(* self.identities.contains                                                   *)
Known(r) == state[r] # "none"

Full == Len(order) >= Limit

(* enqueue, called by handle_content for an envelope that needs a receipt.    *)
(* Over the limit it is dropped, with a warning if none was given yet.        *)
Enqueue(r) ==
    /\ session = "ready" /\ asked[r] < MaxEnqueues
    /\ asked' = [asked EXCEPT ![r] = @ + 1]
    /\ \/ Known(r) /\ UNCHANGED <<pendingVars, rested, warnings>>
       \/ /\ ~Known(r) /\ Full
          /\ reported' = TRUE /\ rested' = (rested /\ reported)
          /\ warnings' = IF reported THEN warnings ELSE IF rested THEN 1 ELSE warnings + 1
          /\ UNCHANGED <<order, state>>
       \/ /\ ~Known(r) /\ ~Full
          /\ order' = Append(order, r) /\ state' = [state EXCEPT ![r] = "ready"]
          /\ UNCHANGED <<reported, rested, warnings>>
    /\ UNCHANGED <<taskVars, session, generation, bounds>>

(* The value of limit_reported after complete removed an entry.               *)
ReportedAfter == reported /\ Len(order) - 1 >= Limit

(* complete                                                                   *)
Complete(r) ==
    /\ \E i \in DOMAIN order : order[i] = r /\ order' = RemoveAt(order, i)
    /\ state' = [state EXCEPT ![r] = "none"]
    /\ reported' = ReportedAfter
    /\ rested' = (rested \/ Len(order') < Limit)

Retry(r, next) ==
    /\ state' = [state EXCEPT ![r] = next]
    /\ UNCHANGED <<order, reported, rested>>

Activated(old, new) == [r \in Receipts |-> IF state[r] = old THEN new ELSE state[r]]

-----------------------------------------------------------------------------
(* The dispatch loop and the task.                                            *)

ReadyAt == {i \in DOMAIN order : state[order[i]] = "ready"}

(* The loop comes to its select! with a task running or nothing to start.     *)
AtSelect == session = "ready" /\ (task # None \/ ReadyAt = {})

(* start_next: the first ready receipt, when no task is running.              *)
StartNext ==
    /\ session = "ready" /\ task = None
    /\ \E i \in ReadyAt :
         /\ \A j \in ReadyAt : i <= j
         /\ task' = order[i] /\ state' = [state EXCEPT ![order[i]] = "inflight"]
    /\ taskGen' = generation /\ result' = "none"
    /\ UNCHANGED <<order, reported, session, generation, history, bounds>>

(* send_receipt_at_timestamp returns, and delivery_receipt_failure_action     *)
(* sorts the error.                                                           *)
TaskSends ==
    /\ task # None /\ result = "none" /\ session # "stopped"
    /\ result' = "sent"
    /\ UNCHANGED <<pendingVars, task, taskGen, session, generation, history, bounds>>

TaskFails ==
    /\ task # None /\ result = "none" /\ session # "stopped"
    /\ \/ result' \in {"retry", "discard"} /\ UNCHANGED breaks
       \/ result' \in {"recover", "panic"} /\ breaks < MaxBreaks /\ breaks' = breaks + 1
    /\ UNCHANGED <<pendingVars, task, taskGen, session, generation, history, reconnects>>

Joins(what) ==
    /\ session = "ready" /\ task # None /\ result = what
    /\ task' = None /\ taskGen' = 0 /\ result' = "none"

JoinDone ==
    /\ Joins("sent") \/ Joins("discard")
    /\ Complete(task)
    /\ UNCHANGED <<session, generation, asked, warnings, bounds>>

JoinRetry ==
    /\ Joins("retry")
    /\ Retry(task, "deferred")
    /\ UNCHANGED <<session, generation, asked, warnings, bounds>>

(* The completion belongs to the connection in use.                           *)
EndsConnection == taskGen = generation

(* The websocket was closed: the receipt is ready at once, and recovery       *)
(* begins unless the connection has been replaced already.                    *)
JoinRecover ==
    /\ Joins("recover")
    /\ Retry(task, "ready")
    /\ session' = IF EndsConnection THEN "recovering" ELSE session
    /\ UNCHANGED <<generation, asked, warnings, bounds>>

(* Mutant: the receipt of a task that panicked stays in flight.               *)
ReleaseInFlightNever == state

(* release_in_flight                                                          *)
ReleaseInFlight == Activated("inflight", "ready")

JoinPanic ==
    /\ Joins("panic")
    /\ state' = ReleaseInFlight
    /\ UNCHANGED <<order, reported, session, generation, history, bounds>>

(* Mutant: deferred receipts wait for the next connection.                    *)
ActivateRetriesNever == state

(* activate_retries                                                           *)
ActivateRetries == Activated("deferred", "ready")

RetryTick ==
    /\ AtSelect /\ (\E r \in Receipts : state[r] = "deferred")
    /\ state' = ActivateRetries
    /\ UNCHANGED <<order, reported, taskVars, session, generation, history, bounds>>

(* The stream ends for another reason.                                        *)
LoseConnection ==
    /\ AtSelect /\ reconnects < MaxReconnects
    /\ session' = "recovering" /\ reconnects' = reconnects + 1
    /\ UNCHANGED <<pendingVars, taskVars, generation, history, breaks>>

(* The replacement stream is up and the startup phases are done.              *)
Reconnect ==
    /\ session = "recovering"
    /\ session' = "ready" /\ generation' = generation + 1
    /\ state' = Activated("deferred", "ready")
    /\ UNCHANGED <<order, reported, taskVars, history, bounds>>

(* abort_delivery_receipt_tasks; the queue goes with the process.             *)
Stop ==
    /\ session # "stopped"
    /\ session' = "stopped"
    /\ task' = None /\ taskGen' = 0 /\ result' = "none"
    /\ state' = Activated("inflight", "ready")
    /\ UNCHANGED <<order, reported, generation, history, bounds>>

-----------------------------------------------------------------------------
Join == JoinDone \/ JoinRetry \/ JoinRecover \/ JoinPanic
TaskReturns == TaskSends \/ TaskFails

Next ==
    \/ \E r \in Receipts : Enqueue(r)
    \/ StartNext \/ TaskReturns \/ Join \/ RetryTick
    \/ LoseConnection \/ Reconnect \/ Stop

Spec == Init /\ [][Next]_vars

(* The loop starts and joins, requests return, the retry tick comes round,    *)
(* recovery goes on until it succeeds, and of receipts tried again and again  *)
(* one is sent in the end.                                                    *)
Fairness ==
    /\ WF_vars(StartNext) /\ WF_vars(TaskReturns) /\ SF_vars(TaskSends) /\ WF_vars(Join)
    /\ WF_vars(RetryTick) /\ WF_vars(Reconnect)

LiveSpec == Spec /\ Fairness

-----------------------------------------------------------------------------
(* Properties.                                                                *)

(* Every variable has its type, the pending list holds each receipt with a    *)
(* state once, and it stays within its limit.                                 *)
TypeOK ==
    /\ order \in Seq(Receipts) /\ Len(order) <= Limit
    /\ \A i, j \in DOMAIN order : order[i] = order[j] => i = j
    /\ \A r \in Receipts : Known(r) <=> \E i \in DOMAIN order : order[i] = r
    /\ state \in [Receipts -> {"none", "ready", "inflight", "deferred"}]
    /\ reported \in BOOLEAN /\ task \in Receipts \cup {None}
    /\ taskGen \in 0 .. generation /\ generation \in Nat \ {0}
    /\ result \in {"none", "sent", "retry", "recover", "discard", "panic"}
    /\ session \in {"ready", "recovering", "stopped"}
    /\ asked \in [Receipts -> Nat] /\ rested \in BOOLEAN
    /\ {warnings, reconnects, breaks} \subseteq Nat

(* A receipt is in flight exactly while the task holds it: completion,        *)
(* failure, panic, recovery and a completion of an old connection never leave *)
(* one marked in flight that nobody will finish.                              *)
InFlightOwned == \A r \in Receipts : state[r] = "inflight" <=> task = r

(* The backlog warning is given once per saturation episode: between two of   *)
(* them the queue was below its limit, and a reported limit is a full queue.  *)
WarnedOncePerEpisode == warnings <= 1 /\ (reported => Len(order) >= Limit)

(* A receipt that met a closed websocket ends the connection it was sent on   *)
(* and no later one.                                                          *)
StaleFailureHarmless ==
    [][result = "recover" /\ session = "ready" /\ session' = "recovering" /\ task' = None
         => taskGen = generation]_vars

(* Every pending receipt is settled, or the worker stops: failures, panics,   *)
(* old completions and reconnects strand none.                                *)
ReceiptSettles ==
    \A r \in Receipts : state[r] # "none" ~> state[r] = "none" \/ session = "stopped"
=============================================================================
