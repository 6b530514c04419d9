---------------------------- MODULE ReadReceipts ----------------------------
(* Read receipts: the pending reads of the Purple adapter (connection.c), the *)
(* command channel of the core (ffi.rs) and the worker that takes commands    *)
(* from it or defers them during recovery (backend/worker.rs).                *)
(*                                                                            *)
(* The adapter runs in Purple's main thread. A flush is a loop of mark_read   *)
(* calls, between which the worker moves on: it becomes ready or not, makes   *)
(* room in the channel, or ends.                                              *)
EXTENDS Integers, Sequences, FiniteSets

CONSTANTS
    Reads,          \* identities (sender, group, timestamp), all of one sender
    GroupReads,     \* those with a group
    PendingLimit,   \* SIGNAL_MAX_PENDING_READS
    Capacity,       \* of the command channel
    MaxDeliveries,  \* bound: messages presented, repetitions included
    MaxOthers,      \* bound: other commands of the user
    MaxLosses       \* bound: connections lost

ASSUME ReadsAssumption ==
    /\ GroupReads \subseteq Reads /\ {"none", "other"} \cap Reads = {}
    /\ {PendingLimit, Capacity} \subseteq Nat \ {0}
    /\ {MaxDeliveries, MaxOthers, MaxLosses} \subseteq Nat

VARIABLES
    pendingRead,  \* a read is "none", "held" or "eligible" in pending_reads
    warned,     \* pending_read_limit_warned
    timer,      \* pending_read_retry_id # 0
    focus,      \* the conversations that have the focus
    joined,     \* the group conversation is known and not left
    main,       \* "idle", "flush", "send" or "closed"
    todo,       \* entries the running flush has still to visit
    current,    \* the read whose mark_read passed the ready check
    adding,     \* the read signal_queue_read adds after the flush, or NoRead
    ready,      \* SignalCore.ready
    core,       \* "recovering", "announcing" (READY not yet emitted), "active", "ended"
    channel,    \* the command channel
    deferred,   \* deferred_commands
    notices,    \* READY events not yet polled
    delivered,  \* times signal_queue_read was called for a read
    sent,       \* history: times a read receipt was sent
    seen,       \* history: its conversation had the focus since it was presented
    presented, others, losses   \* bounds used up

tableVars == <<pendingRead, warned, timer>>
viewVars == <<focus, joined>>
mainVars == <<main, todo, current, adding>>
coreVars == <<ready, core, deferred>>
receiptHistory == <<delivered, sent, seen>>
used == <<presented, others, losses>>
readVars == <<tableVars, viewVars, mainVars, coreVars, channel, notices, receiptHistory, used>>

NoRead == "none"
Other == "other"
Pending == {r \in Reads : pendingRead[r] # "none"}
Eligible == {r \in Reads : pendingRead[r] = "eligible"}
Conversation(r) == IF r \in GroupReads THEN "chat" ELSE "im"

ReadInit ==
    /\ pendingRead = [r \in Reads |-> "none"] /\ warned = FALSE /\ timer = FALSE
    /\ focus = {} /\ joined = (GroupReads # {})
    /\ main = "idle" /\ todo = {} /\ current = NoRead /\ adding = NoRead
    /\ ready = FALSE /\ core = "recovering" /\ channel = <<>> /\ deferred = <<>> /\ notices = 0
    /\ delivered = [r \in Reads |-> 0] /\ sent = [r \in Reads |-> 0] /\ seen = {}
    /\ presented = 0 /\ others = 0 /\ losses = 0

-----------------------------------------------------------------------------
(* signal_flush_pending_reads.                                                *)

(* The flush begins with the entries of states s; then goes on with next.     *)
StartFlush(s, next) ==
    /\ main' = "flush" /\ todo' = {r \in Reads : s[r] = "eligible"}
    /\ current' = NoRead /\ adding' = next

Idle == main' = "idle" /\ todo' = {} /\ current' = NoRead /\ adding' = NoRead

(* queue_command looks at the ready flag; NOT_READY ends the loop.            *)
FlushLoad(r) ==
    /\ main = "flush" /\ r \in todo
    /\ IF ready
       THEN main' = "send" /\ current' = r /\ UNCHANGED todo
       ELSE todo' = {} /\ UNCHANGED <<main, current>>
    /\ UNCHANGED <<tableVars, viewVars, adding, coreVars, channel, notices, receiptHistory, used>>

Admitted(r) == [pendingRead EXCEPT ![r] = "none"]

(* Mutant: a full command queue is left to the next READY.                    *)
RetryScheduledNever == timer

(* signal_schedule_pending_read_retry                                         *)
RetryScheduled == TRUE

(* try_send: OK and a closed channel remove the entry, QUEUE_FULL schedules   *)
(* the retry timer and ends the loop.                                         *)
FlushSend ==
    /\ main = "send" /\ main' = "flush" /\ current' = NoRead
    /\ \/ /\ core # "ended" /\ Len(channel) < Capacity
          /\ channel' = Append(channel, current)
          /\ pendingRead' = Admitted(current) /\ todo' = todo \ {current}
          /\ UNCHANGED timer
       \/ /\ core # "ended" /\ Len(channel) >= Capacity
          /\ timer' = RetryScheduled /\ todo' = {}
          /\ UNCHANGED <<channel, pendingRead>>
       \/ /\ core = "ended"
          /\ pendingRead' = [pendingRead EXCEPT ![current] = "none"] /\ todo' = todo \ {current}
          /\ UNCHANGED <<channel, timer>>
    /\ UNCHANGED <<warned, viewVars, adding, coreVars, notices, receiptHistory, used>>

WarnedAfter(s, w) == w /\ Cardinality({r \in Reads : s[r] # "none"}) >= PendingLimit

-----------------------------------------------------------------------------
(* signal_queue_read.                                                         *)

(* Mutant: the group of a read is not looked at.                              *)
MatchesSender(r, conversation) == conversation = "im" \/ Conversation(r) = conversation

(* signal_pending_read_matches: a group read matches its group only.          *)
Matches(r, conversation) == Conversation(r) = conversation

(* signal_mark_pending_reads_eligible                                         *)
MarkEligible(conversation) ==
    [r \in Reads |-> IF pendingRead[r] = "held" /\ Matches(r, conversation) THEN "eligible" ELSE pendingRead[r]]

Focused(r) == Conversation(r) \in focus

AtLimit(s) == Cardinality({r \in Reads : s[r] # "none"}) >= PendingLimit

(* Its last part: over the limit the read is dropped with one warning; it is  *)
(* added otherwise, and flushed when its conversation has the focus.          *)
Add(r, s, w) ==
    /\ warned' = (w \/ AtLimit(s))
    /\ pendingRead' = IF AtLimit(s) THEN s
                ELSE [s EXCEPT ![r] = IF Focused(r) THEN "eligible" ELSE "held"]
    /\ IF Focused(r) /\ ~AtLimit(s) THEN StartFlush(pendingRead', NoRead) ELSE Idle

(* A message is presented; its group, if any, is opened.                      *)
Deliver(r) ==
    /\ main = "idle" /\ presented < MaxDeliveries /\ presented' = presented + 1
    /\ delivered' = [delivered EXCEPT ![r] = @ + 1]
    /\ seen' = IF Focused(r) THEN seen \cup {r} ELSE seen
    /\ joined' = (joined \/ r \in GroupReads)
    /\ LET s == IF Focused(r) THEN MarkEligible(Conversation(r)) ELSE pendingRead
       IN  \/ /\ pendingRead[r] # "none" /\ pendingRead' = s /\ UNCHANGED warned
              /\ IF Focused(r) THEN StartFlush(s, NoRead) ELSE Idle
           \/ /\ pendingRead[r] = "none" /\ AtLimit(s) /\ pendingRead' = s /\ UNCHANGED warned
              /\ StartFlush(s, r)
           \/ pendingRead[r] = "none" /\ ~AtLimit(s) /\ Add(r, s, warned)
    /\ UNCHANGED <<timer, focus, coreVars, channel, notices, sent, others, losses>>

(* The loop is over: the warning is reset below the limit, and a delivery     *)
(* that found the table full goes on.                                         *)
FlushEnd ==
    /\ main = "flush" /\ todo = {}
    /\ IF adding = NoRead
       THEN warned' = WarnedAfter(pendingRead, warned) /\ UNCHANGED pendingRead /\ Idle
       ELSE Add(adding, pendingRead, WarnedAfter(pendingRead, warned))
    /\ UNCHANGED <<timer, viewVars, coreVars, channel, notices, receiptHistory, used>>

-----------------------------------------------------------------------------
(* Other callbacks of the main thread.                                        *)

FocusChange(c) ==
    /\ main = "idle"
    /\ focus' = IF c \in focus THEN focus \ {c} ELSE focus \cup {c}
    /\ seen' = IF c \in focus THEN seen
               ELSE seen \cup {r \in Pending : Conversation(r) = c}
    /\ UNCHANGED <<tableVars, joined, mainVars, coreVars, channel, notices, delivered, sent, used>>

(* signal_conversation_updated; a chat that was left marks nothing.           *)
ConversationUpdated(c) ==
    /\ main = "idle" /\ c \in focus
    /\ pendingRead' = IF c = "chat" /\ ~joined THEN pendingRead ELSE MarkEligible(c)
    /\ StartFlush(pendingRead', NoRead)
    /\ UNCHANGED <<warned, timer, viewVars, coreVars, channel, notices, receiptHistory, used>>

(* SIGNAL_EVENT_READY                                                         *)
PollReady ==
    /\ main = "idle" /\ notices > 0 /\ notices' = notices - 1
    /\ StartFlush(pendingRead, NoRead)
    /\ UNCHANGED <<tableVars, viewVars, coreVars, channel, receiptHistory, used>>

(* signal_retry_pending_reads                                                 *)
RetryTimer ==
    /\ main = "idle" /\ timer /\ timer' = FALSE
    /\ StartFlush(pendingRead, NoRead)
    /\ UNCHANGED <<pendingRead, warned, viewVars, coreVars, channel, notices, receiptHistory, used>>

(* signal_remove_group_pending_reads                                          *)
WithoutGroupReads == [r \in Reads |-> IF r \in GroupReads THEN "none" ELSE pendingRead[r]]

WarnedAfterLeave == WarnedAfter(WithoutGroupReads, warned)

(* signal_deactivate_group                                                    *)
GroupDeactivated ==
    /\ main = "idle" /\ joined
    /\ joined' = FALSE
    /\ pendingRead' = WithoutGroupReads /\ warned' = WarnedAfterLeave
    /\ UNCHANGED <<timer, focus, mainVars, coreVars, channel, notices, receiptHistory, used>>

(* Another command of the user, accepted by queue_command.                    *)
OtherCommand ==
    /\ main = "idle" /\ ready /\ core # "ended" /\ Len(channel) < Capacity /\ others < MaxOthers
    /\ others' = others + 1
    /\ channel' = Append(channel, Other)
    /\ UNCHANGED <<tableVars, viewVars, mainVars, coreVars, notices, receiptHistory, presented, losses>>

(* signal_close and signal_core_shutdown, which joins the worker.             *)
Close ==
    /\ main = "idle" /\ main' = "closed"
    /\ pendingRead' = [r \in Reads |-> "none"] /\ timer' = FALSE
    /\ ready' = FALSE /\ core' = "ended" /\ channel' = <<>> /\ deferred' = <<>> /\ notices' = 0
    /\ UNCHANGED <<warned, viewVars, todo, current, adding, receiptHistory, used>>

-----------------------------------------------------------------------------
(* The worker.                                                                *)

coreOnly == <<tableVars, viewVars, mainVars, delivered, seen, presented, others>>

(* The startup phases end: the flag is set, then READY is emitted.            *)
BecomeReady ==
    /\ core = "recovering" /\ core' = "announcing" /\ ready' = TRUE
    /\ UNCHANGED <<coreOnly, channel, deferred, notices, sent, losses>>

EmitReady ==
    /\ core = "announcing" /\ core' = "active" /\ notices' = notices + 1
    /\ UNCHANGED <<coreOnly, channel, ready, deferred, sent, losses>>

(* A command is handled, a deferred one first. A receipt that cannot be sent  *)
(* is reported and forgotten.                                                 *)
HandleCommand ==
    /\ core = "active" /\ deferred \o channel # <<>>
    /\ LET command == Head(deferred \o channel)
       IN  \/ command \in Reads /\ sent' = [sent EXCEPT ![command] = @ + 1]
           \/ UNCHANGED sent
    /\ IF deferred # <<>>
       THEN deferred' = Tail(deferred) /\ UNCHANGED channel
       ELSE channel' = Tail(channel) /\ UNCHANGED deferred
    /\ UNCHANGED <<coreOnly, ready, core, notices, losses>>

(* The stream ends; ready is cleared before recovery begins.                  *)
LoseStream ==
    /\ core = "active" /\ losses < MaxLosses
    /\ core' = "recovering" /\ ready' = FALSE /\ losses' = losses + 1
    /\ UNCHANGED <<coreOnly, channel, deferred, notices, sent>>

(* handle_recovery_command                                                    *)
DeferCommand ==
    /\ core = "recovering" /\ channel # <<>>
    /\ deferred' = Append(deferred, Head(channel)) /\ channel' = Tail(channel)
    /\ UNCHANGED <<coreOnly, ready, core, notices, sent, losses>>

(* run returns with an error: the receiver is dropped, then ready is cleared. *)
WorkerEnds ==
    /\ core \in {"recovering", "active"} /\ core' = "ended"
    /\ channel' = <<>> /\ deferred' = <<>>
    /\ UNCHANGED <<coreOnly, ready, notices, sent, losses>>

ReadyCleared ==
    /\ core = "ended" /\ ready /\ ready' = FALSE
    /\ UNCHANGED <<coreOnly, channel, core, deferred, notices, sent, losses>>

-----------------------------------------------------------------------------
Flush == (\E r \in Reads : FlushLoad(r)) \/ FlushSend \/ FlushEnd
Worker == BecomeReady \/ EmitReady \/ HandleCommand \/ DeferCommand \/ ReadyCleared

ReadNext ==
    \/ Flush \/ PollReady \/ RetryTimer \/ GroupDeactivated \/ OtherCommand \/ Close
    \/ \E r \in Reads : Deliver(r)
    \/ \E c \in {"im", "chat"} : FocusChange(c) \/ ConversationUpdated(c)
    \/ Worker \/ LoseStream \/ WorkerEnds

ReadSpec == ReadInit /\ [][ReadNext]_readVars

(* The main loop runs its sources, the worker goes on, and recovery succeeds. *)
(* PollReady and RetryTimer get strong fairness: other callbacks keep the     *)
(* main thread busy now and then, and GLib dispatches a ready source in turn. *)
ReadFairness ==
    /\ WF_readVars(Flush) /\ SF_readVars(PollReady) /\ SF_readVars(RetryTimer)
    /\ WF_readVars(Worker)

ReadLiveSpec == ReadSpec /\ ReadFairness

-----------------------------------------------------------------------------
(* Properties.                                                                *)

(* Every variable has its type; the table stays within its limit, and the     *)
(* channel within its capacity.                                               *)
ReadTypeOK ==
    /\ pendingRead \in [Reads -> {"none", "held", "eligible"}] /\ Cardinality(Pending) <= PendingLimit
    /\ {warned, timer, joined, ready} \subseteq BOOLEAN /\ focus \subseteq {"im", "chat"}
    /\ main \in {"idle", "flush", "send", "closed"} /\ todo \subseteq Eligible
    /\ current \in Reads \cup {NoRead} /\ adding \in Reads \cup {NoRead}
    /\ core \in {"recovering", "announcing", "active", "ended"}
    /\ channel \in Seq(Reads \cup {Other}) /\ Len(channel) <= Capacity
    /\ deferred \in Seq(Reads \cup {Other}) /\ notices \in Nat

(* A read receipt leaves only for a message whose own conversation, direct or *)
(* group, had the focus at or after its presentation, and at most as often as *)
(* it was presented, whatever the retries, READY events and deferrals.        *)
SentWasFocused ==
    \A r \in Reads : (sent[r] > 0 => r \in seen) /\ sent[r] <= delivered[r]

(* When the main thread is at rest, an eligible read has something that will  *)
(* flush it: the timer, a READY event to come, or the end of the worker.      *)
EligibleHasWakeup ==
    main = "idle" /\ Eligible # {} =>
        timer \/ ~ready \/ notices > 0 \/ core \in {"announcing", "ended"}

(* Every eligible read leaves the table, or the session ends.                 *)
EligibleIsFlushed ==
    \A r \in Reads : pendingRead[r] = "eligible" ~> pendingRead[r] # "eligible" \/ core = "ended"
=============================================================================
