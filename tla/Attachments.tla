---------------------------- MODULE Attachments ----------------------------
(* Outgoing attachments: admission (attachment.rs), the actor that queues,    *)
(* defers, spawns, completes and interrupts uploads (backend/worker.rs and    *)
(* coordinator.rs), and Purple's transfers (src/connection_transfers.c). Main *)
(* thread and worker thread meet on the atomic lifecycle of each request.     *)
EXTENDS Integers, Sequences, FiniteSets

CONSTANTS
    Requests,        \* request ids; next_request_id never repeats one
    Sizes,           \* payload sizes in 1 .. MAX_ATTACHMENT_BYTES
    MaxBytes,        \* MAX_ADMITTED_OUTGOING_ATTACHMENT_BYTES
    MaxAttachments,  \* MAX_ADMITTED_OUTGOING_ATTACHMENTS
    MaxRecoveries    \* bound: times the connection is lost

ASSUME AttachmentsAssumption ==
    /\ IsFiniteSet(Requests) /\ "none" \notin Requests
    /\ Sizes \subseteq Nat \ {0}
    /\ MaxBytes \in Nat /\ MaxAttachments \in Nat /\ MaxRecoveries \in Nat

VARIABLES
    admitted,   \* AdmissionState.requests: a permit is alive
    bytes,      \* AdmissionState.bytes
    size,       \* AdmissionEntry.bytes
    control,    \* lifecycle: "none", "active", "cancelled", "terminal"
    aborted,    \* requests whose AbortHandle was triggered
    place,      \* where the request is, see Places
    result,     \* what the upload came to: "none", "ok", "error", "cancelled"
    tracked,    \* attachment_aborts
    session,    \* the actor: see Sessions
    checking,   \* the request interrupted_attachment_event is looking at
    aborting,   \* the request cancel has marked but not yet aborted
    closing,    \* signal_close has begun
    xfer,       \* Purple's transfer
    events,     \* terminal events emitted for each request
    polled,     \* how many of them the adapter has handled
    recoveries  \* recoveries left

admission == <<admitted, bytes, size>>
mainVars == <<aborting, closing, xfer, polled>>
vars == <<admission, control, aborted, place, result, tracked, session, checking, mainVars, events,
          recoveries>>

None == "none"

(* A "reserved" request, the "queued" and "deferred" commands and the states  *)
(* of an upload task hold the request's permit: "spawned", "uploading",       *)
(* "resolved" (the upload returned), "finished" (an AttachmentCompletion      *)
(* waits to be joined) and "abandoned" (aborted, and dropped when the         *)
(* executor gets to it).                                                      *)
Live == {"reserved", "queued", "deferred", "spawned", "uploading", "resolved", "finished", "abandoned"}
Places == Live \cup {"new", "gone"}
Sessions == {"ready", "stopping", "interrupting", "recovering", "closed"}

Init ==
    /\ admitted = {} /\ bytes = 0 /\ size = [r \in Requests |-> 0]
    /\ control = [r \in Requests |-> "none"] /\ aborted = {}
    /\ place = [r \in Requests |-> "new"] /\ result = [r \in Requests |-> "none"]
    /\ tracked = {} /\ session = "ready" /\ checking = None
    /\ aborting = None /\ closing = FALSE
    /\ xfer = [r \in Requests |-> "none"]
    /\ events = [r \in Requests |-> <<>>] /\ polled = [r \in Requests |-> 0]
    /\ recoveries = MaxRecoveries

-----------------------------------------------------------------------------
(* Admission.                                                                 *)

(* try_reserve                                                                *)
CanReserve(b) == Cardinality(admitted) < MaxAttachments /\ bytes + b <= MaxBytes

(* The sum of sizes over S, as the number of the bytes that S holds.          *)
HeldBytes(sizes, S) == UNION {{r} \X (1 .. sizes[r]) : r \in S}
TotalSize(sizes, S) == Cardinality(HeldBytes(sizes, S))

(* Drop for AttachmentPermit, for every permit of S.                          *)
Release(S) ==
    /\ admitted' = admitted \ S
    /\ bytes' = bytes - TotalSize(size, S)
    /\ size' = [r \in Requests |-> IF r \in S THEN 0 ELSE size[r]]

(* Emission is void once signal_core_shutdown has closed the event queue.     *)
Report(r, kind) ==
    events' = IF closing THEN events ELSE [events EXCEPT ![r] = Append(@, kind)]

(* claim_terminal                                                             *)
Claim(r) == control' = IF control[r] = "active" THEN [control EXCEPT ![r] = "terminal"] ELSE control

-----------------------------------------------------------------------------
(* The main thread.                                                           *)

(* Purple's main loop is in none of the calls below.                          *)
MainFree == aborting = None /\ ~closing /\ \A r \in Requests : xfer[r] # "calling"

(* signal_outgoing_attachment_init up to the ready check of                   *)
(* send_file_attachment; an unusable file, an inactive group or a worker that *)
(* is not ready cancels the transfer.                                         *)
Send(r) ==
    /\ MainFree /\ xfer[r] = "none"
    /\ \/ session = "ready" /\ xfer' = [xfer EXCEPT ![r] = "calling"]
       \/ xfer' = [xfer EXCEPT ![r] = "cancelled"]
    /\ UNCHANGED <<admission, control, aborted, place, result, tracked, session, checking, aborting,
                   closing, polled, events, recoveries>>

(* try_reserve, whatever the worker has done since the ready check.           *)
Reserve(r) ==
    /\ xfer[r] = "calling" /\ place[r] = "new"
    /\ \E b \in Sizes :
         IF CanReserve(b)
         THEN /\ admitted' = admitted \cup {r} /\ bytes' = bytes + b /\ size' = [size EXCEPT ![r] = b]
              /\ control' = [control EXCEPT ![r] = "active"]
              /\ place' = [place EXCEPT ![r] = "reserved"]
              /\ UNCHANGED xfer
         ELSE /\ xfer' = [xfer EXCEPT ![r] = "cancelled"]
              /\ UNCHANGED <<admission, control, place>>
    /\ UNCHANGED <<aborted, result, tracked, session, checking, aborting, closing, polled, events, recoveries>>

(* The command slot: taken, unless the worker has ended, and the transfer     *)
(* registered ...                                                             *)
TakeSlot(r) ==
    /\ place[r] = "reserved" /\ session # "closed"
    /\ place' = [place EXCEPT ![r] = "queued"]
    /\ xfer' = [xfer EXCEPT ![r] = "started"]
    /\ UNCHANGED <<admission, control, aborted, result, tracked, session, checking, aborting, closing,
                   polled, events, recoveries>>

(* Mutant: the permit of a refused command is not dropped.                    *)
RefuseSlotLeaking(r) ==
    /\ place[r] = "reserved"
    /\ place' = [place EXCEPT ![r] = "gone"]
    /\ xfer' = [xfer EXCEPT ![r] = "cancelled"]
    /\ UNCHANGED <<admission, control, aborted, result, tracked, session, checking, aborting, closing,
                   polled, events, recoveries>>

(* ... or refused, the channel being full of other commands or closed: the    *)
(* permit is dropped as the call returns.                                     *)
RefuseSlot(r) ==
    /\ place[r] = "reserved"
    /\ place' = [place EXCEPT ![r] = "gone"] /\ Release({r})
    /\ xfer' = [xfer EXCEPT ![r] = "cancelled"]
    /\ UNCHANGED <<control, aborted, result, tracked, session, checking, aborting, closing, polled,
                   events, recoveries>>

(* The user cancels: AttachmentControl::cancel wins or loses the lifecycle,   *)
(* then triggers the abort handle.                                            *)
Cancel(r) ==
    /\ MainFree /\ xfer[r] = "started"
    /\ xfer' = [xfer EXCEPT ![r] = "cancelled"]
    /\ IF r \in admitted /\ control[r] = "active"
       THEN control' = [control EXCEPT ![r] = "cancelled"] /\ aborting' = r
       ELSE UNCHANGED <<control, aborting>>
    /\ UNCHANGED <<admission, aborted, place, result, tracked, session, checking, closing, polled,
                   events, recoveries>>

CancelAborts ==
    /\ aborting # None
    /\ aborted' = aborted \cup {aborting} /\ aborting' = None
    /\ UNCHANGED <<admission, control, place, result, tracked, session, checking, closing, xfer,
                   polled, events, recoveries>>

(* ATTACHMENT_SENT or a request error reaches the adapter; it only matters to *)
(* a transfer still registered under the request.                             *)
TransferEvent(r) ==
    /\ MainFree /\ polled[r] < Len(events[r])
    /\ polled' = [polled EXCEPT ![r] = @ + 1]
    /\ xfer' = IF xfer[r] # "started" THEN xfer
               ELSE [xfer EXCEPT ![r] =
                       IF events[r][polled[r] + 1] = "sent" THEN "completed" ELSE "failed"]
    /\ UNCHANGED <<admission, control, aborted, place, result, tracked, session, checking, aborting,
                   closing, events, recoveries>>

(* signal_close cancels every started transfer; signal_core_shutdown then     *)
(* cancels every admitted request.                                            *)
Close ==
    /\ MainFree
    /\ closing' = TRUE
    /\ xfer' = [r \in Requests |-> IF xfer[r] = "started" THEN "cancelled" ELSE xfer[r]]
    /\ LET won == {r \in admitted : control[r] = "active"}
       IN  /\ control' = [r \in Requests |-> IF r \in won THEN "cancelled" ELSE control[r]]
           /\ aborted' = aborted \cup won
    /\ UNCHANGED <<admission, place, result, tracked, session, checking, aborting, polled, events, recoveries>>

-----------------------------------------------------------------------------
(* The upload tasks. They share the worker's thread with the actor, which     *)
(* cannot step while a task is between its upload's return and its claim.     *)

Running == session \in {"ready", "stopping"}
WorkerFree == \A r \in Requests : place[r] # "resolved"

(* Abortable polls its future unless the handle was triggered.                *)
MayPoll(r) == r \notin aborted

TaskStart(r) ==
    /\ WorkerFree /\ Running /\ place[r] = "spawned" /\ MayPoll(r)
    /\ place' = [place EXCEPT ![r] = "uploading"]
    /\ UNCHANGED <<admission, control, aborted, result, tracked, session, checking, mainVars, events, recoveries>>

(* upload_and_send_attachment returns, or panics (an error).                  *)
TaskResolve(r) ==
    /\ WorkerFree /\ Running /\ place[r] = "uploading" /\ MayPoll(r)
    /\ place' = [place EXCEPT ![r] = "resolved"]
    /\ \E outcome \in {"ok", "error"} : result' = [result EXCEPT ![r] = outcome]
    /\ UNCHANGED <<admission, control, aborted, tracked, session, checking, mainVars, events, recoveries>>

(* attachment_task_result: a sent attachment counts even if it was cancelled. *)
TaskClaim(r) ==
    /\ place[r] = "resolved"
    /\ place' = [place EXCEPT ![r] = "finished"]
    /\ Claim(r)
    /\ result' = IF control[r] = "active" \/ result[r] = "ok" THEN result
                 ELSE [result EXCEPT ![r] = "cancelled"]
    /\ UNCHANGED <<admission, aborted, tracked, session, checking, mainVars, events, recoveries>>

TaskAborted(r) ==
    /\ WorkerFree /\ Running /\ place[r] \in {"spawned", "uploading"} /\ r \in aborted
    /\ place' = [place EXCEPT ![r] = "finished"]
    /\ result' = [result EXCEPT ![r] = "cancelled"]
    /\ UNCHANGED <<admission, control, aborted, tracked, session, checking, mainVars, events, recoveries>>

-----------------------------------------------------------------------------
(* The actor.                                                                 *)

(* The requests of S are dropped, with what they had come to.                 *)
Gone(S) ==
    /\ place' = [r \in Requests |-> IF r \in S THEN "gone" ELSE place[r]]
    /\ result' = [r \in Requests |-> IF r \in S THEN "none" ELSE result[r]]

(* Mutant: deferred requests are not taken up again.                          *)
WaitingFresh(r) == place[r] = "queued"

Waiting(r) == place[r] \in {"queued", "deferred"}

SpawnUpload(r) ==
    /\ WorkerFree /\ session = "ready" /\ Waiting(r) /\ control[r] # "cancelled"
    /\ place' = [place EXCEPT ![r] = "spawned"]
    /\ tracked' = tracked \cup {r}
    /\ UNCHANGED <<admission, control, aborted, result, session, checking, mainVars, events, recoveries>>

DropCancelled(r) ==
    /\ WorkerFree /\ session = "ready" /\ Waiting(r) /\ control[r] = "cancelled"
    /\ Gone({r}) /\ Release({r})
    /\ UNCHANGED <<control, aborted, tracked, session, checking, mainVars, events, recoveries>>

(* A group attachment while the groups are not authoritative.                 *)
RefuseGroup(r) ==
    /\ WorkerFree /\ session = "ready" /\ Waiting(r) /\ control[r] = "active"
    /\ Claim(r) /\ Report(r, "error")
    /\ Gone({r}) /\ Release({r})
    /\ UNCHANGED <<aborted, tracked, session, checking, mainVars, recoveries>>

Untrack(S) == tracked \ S

(* The events finish_attachment_completion emits for the requests of S.       *)
Reports(S) ==
    events' = [r \in Requests |->
                 IF r \notin S \/ closing \/ result[r] = "cancelled" THEN events[r]
                 ELSE Append(events[r], IF result[r] = "ok" THEN "sent" ELSE "error")]

Complete(r) ==
    /\ WorkerFree /\ session = "ready" /\ place[r] = "finished"
    /\ Reports({r}) /\ tracked' = Untrack({r})
    /\ Gone({r}) /\ Release({r})
    /\ UNCHANGED <<control, aborted, session, checking, mainVars, recoveries>>

InTask == {r \in Requests : place[r] \in {"spawned", "uploading"}}
Finished == {r \in Requests : place[r] = "finished"}

(* The connection is lost, or shutdown was signalled: stop_receive_tasks      *)
(* waits for the other receive tasks first.                                   *)
Stop ==
    /\ WorkerFree /\ session \in {"ready", "recovering"}
    /\ \/ closing /\ UNCHANGED recoveries
       \/ session = "ready" /\ recoveries > 0 /\ recoveries' = recoveries - 1
    /\ session' = "stopping"
    /\ UNCHANGED <<admission, control, aborted, place, result, tracked, checking, mainVars, events>>

(* abort_in_flight_attachments: running tasks are aborted and joined, which   *)
(* drops their permits; the completions among them are finished.              *)
StopFinish ==
    /\ WorkerFree /\ session = "stopping"
    /\ session' = "interrupting"
    /\ Reports(Finished)
    /\ tracked' = Untrack(Finished)
    /\ Gone(InTask \cup Finished) /\ Release(InTask \cup Finished)
    /\ UNCHANGED <<control, aborted, checking, mainVars, recoveries>>

(* The cleanup budget ran out: abandon_timed_out_attachments drops the        *)
(* completions that were not yet handled and aborts the tasks unjoined.       *)
StopTimeout ==
    /\ WorkerFree /\ session = "stopping"
    /\ session' = "interrupting"
    /\ place' = [r \in Requests |-> IF r \in Finished THEN "gone"
                                    ELSE IF r \in InTask THEN "abandoned" ELSE place[r]]
    /\ result' = [r \in Requests |-> IF r \in Finished THEN "none" ELSE result[r]]
    /\ Release(Finished)
    /\ UNCHANGED <<control, aborted, tracked, checking, mainVars, events, recoveries>>

DropAbandoned(r) ==
    /\ session \notin {"stopping", "interrupting"} /\ place[r] = "abandoned"
    /\ Gone({r}) /\ Release({r})
    /\ UNCHANGED <<control, aborted, tracked, session, checking, mainVars, events, recoveries>>

(* interrupt_remaining_attachments: is_cancelled is read first ...            *)
InterruptCheck(r) ==
    /\ session = "interrupting" /\ checking = None /\ r \in tracked
    /\ IF control[r] = "cancelled" THEN tracked' = tracked \ {r} /\ UNCHANGED checking
                                   ELSE checking' = r /\ UNCHANGED tracked
    /\ UNCHANGED <<admission, control, aborted, place, result, session, mainVars, events, recoveries>>

(* Mutant: the error is emitted only if the claim succeeded.                  *)
InterruptReportClaimed(r) == IF control[r] = "active" THEN Report(r, "error") ELSE UNCHANGED events

InterruptReport(r) == Report(r, "error")

(* ... then the lifecycle is claimed, and the error emitted either way.       *)
InterruptEmit ==
    /\ session = "interrupting" /\ checking # None
    /\ Claim(checking) /\ InterruptReport(checking)
    /\ tracked' = tracked \ {checking} /\ checking' = None
    /\ UNCHANGED <<admission, aborted, place, result, session, mainVars, recoveries>>

WaitingSet == {r \in Requests : Waiting(r)}

(* Recovery begins, or the worker ends and drops what it still owns.          *)
Stopped ==
    /\ session = "interrupting" /\ tracked = {}
    /\ IF closing THEN session' = "closed" /\ Gone(WaitingSet) /\ Release(WaitingSet)
                  ELSE session' = "recovering" /\ UNCHANGED <<place, result, admission>>
    /\ UNCHANGED <<control, aborted, tracked, checking, mainVars, events, recoveries>>

DeferCommand(r) ==
    /\ session = "recovering" /\ place[r] = "queued"
    /\ place' = [place EXCEPT ![r] = "deferred"]
    /\ UNCHANGED <<admission, control, aborted, result, tracked, session, checking, mainVars, events, recoveries>>

Reconnect ==
    /\ session = "recovering"
    /\ session' = "ready"
    /\ UNCHANGED <<admission, control, aborted, place, result, tracked, checking, mainVars, events, recoveries>>

(* A fatal start error: fail_deferred_commands answers the deferred requests; *)
(* the worker ends and the rest of the channel is dropped.                    *)
FatalError ==
    /\ session = "recovering"
    /\ session' = "closed"
    /\ LET failed == {r \in Requests : place[r] = "deferred" /\ control[r] = "active"}
       IN  /\ control' = [r \in Requests |-> IF r \in failed THEN "terminal" ELSE control[r]]
           /\ events' = [r \in Requests |->
                           IF r \in failed /\ ~closing THEN Append(events[r], "error") ELSE events[r]]
    /\ Gone(WaitingSet) /\ Release(WaitingSet)
    /\ UNCHANGED <<aborted, tracked, checking, mainVars, recoveries>>

-----------------------------------------------------------------------------
User == \E r \in Requests : Send(r) \/ Cancel(r)

Adapter ==
    \/ CancelAborts
    \/ \E r \in Requests : Reserve(r) \/ TakeSlot(r) \/ RefuseSlot(r) \/ TransferEvent(r)

Task(r) == TaskStart(r) \/ TaskResolve(r) \/ TaskClaim(r) \/ TaskAborted(r)

Actor(r) ==
    \/ SpawnUpload(r) \/ DropCancelled(r) \/ RefuseGroup(r) \/ Complete(r)
    \/ InterruptCheck(r) \/ DeferCommand(r) \/ DropAbandoned(r)

Worker ==
    \/ \E r \in Requests : Task(r) \/ Actor(r)
    \/ Stop \/ StopFinish \/ StopTimeout \/ InterruptEmit \/ Stopped \/ Reconnect \/ FatalError

Next == User \/ Adapter \/ Worker \/ Close

Spec == Init /\ [][Next]_vars

(* What the actor does about the connection and the shutdown.                 *)
SessionStep ==
    \/ StopFinish \/ StopTimeout \/ InterruptEmit \/ Stopped \/ Reconnect \/ FatalError
    \/ (closing /\ Stop)

(* The worker's runtime polls every task that was aborted or has returned and *)
(* the actor takes every branch of its select sooner or later; stopping has a *)
(* budget, a recovery reconnects or fails for good, and the shutdown that was *)
(* signalled is noticed.  No upload has to return and no connection to be     *)
(* lost.                                                                      *)
Fairness ==
    /\ \A r \in Requests : WF_vars(TaskClaim(r) \/ TaskAborted(r)) /\ WF_vars(Actor(r))
    /\ WF_vars(SessionStep)

FairSpec == Spec /\ Fairness

-----------------------------------------------------------------------------
(* Properties.                                                                *)

(* Every variable has its type; the admitted bytes stay within the budget.    *)
TypeOK ==
    /\ {admitted, aborted, tracked} \subseteq SUBSET Requests
    /\ bytes \in 0 .. MaxBytes
    /\ size \in [Requests -> Sizes \cup {0}]
    /\ control \in [Requests -> {"none", "active", "cancelled", "terminal"}]
    /\ place \in [Requests -> Places]
    /\ result \in [Requests -> {"none", "ok", "error", "cancelled"}]
    /\ session \in Sessions /\ {checking, aborting} \subseteq Requests \cup {None}
    /\ closing \in BOOLEAN
    /\ xfer \in [Requests -> {"none", "calling", "started", "completed", "failed", "cancelled"}]
    /\ events \in [Requests -> Seq({"sent", "error"})]
    /\ polled \in [Requests -> Nat] /\ recoveries \in 0 .. MaxRecoveries

(* The permits alive are exactly those of the requests that wait, run or have *)
(* not been joined, and there are never more than the limit: every path that  *)
(* ends a request gives slot and bytes back, and none gives them back early.  *)
PermitsExact ==
    /\ admitted = {r \in Requests : place[r] \in Live}
    /\ Cardinality(admitted) <= MaxAttachments
    /\ bytes = TotalSize(size, admitted)

(* A request gets at most one terminal event: completion, refusal and         *)
(* interruption exclude one another.  And while the worker lives, a transfer  *)
(* Purple shows as running is still owned by the core or has its event on the *)
(* way: recovery, time-outs and cancels never leave one hanging.              *)
TransferNotOrphaned ==
    \A r \in Requests :
        /\ Len(events[r]) <= 1
        /\ xfer[r] = "started" /\ session # "closed"
             => place[r] \in Live \/ r \in tracked \/ polled[r] < Len(events[r])

(* Once cancel has returned, the request gives its slot and its bytes back,   *)
(* be it queued, deferred through a recovery, spawned, uploading, finished or *)
(* abandoned by a cleanup that ran out of time, and however the shutdown or   *)
(* a recovery that ends interferes: again and again no cancelled request      *)
(* holds a permit, and since a request is admitted only once, each gives it   *)
(* back.                                                                      *)
CancelFreesCapacity == []<>(aborted \cap admitted = {})

(* docs/attachment-policy.md: the permit is owned through the delivery of the *)
(* terminal event.                                                            *)
PermitCoversEvent == [][\A r \in Requests : events'[r] # events[r] => r \in admitted]_vars

(* backend/worker.rs: recovery reports the attachments that were not          *)
(* cancelled; one whose cancellation was recorded gets no error.              *)
CancelledNotReported ==
    \A r \in aborted : \A i \in DOMAIN events[r] : events[r][i] # "error"
=============================================================================
