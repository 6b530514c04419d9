------------------------------ MODULE Session ------------------------------
(* The life of one backend core: the worker thread from the creation of the   *)
(* core to the end of run_worker, and the calls of the Purple adapter that    *)
(* queue commands for it.  The worker opens and loads (or links) the device,  *)
(* starts the receive stream, runs its startup phases, serves commands while  *)
(* the stream lives, and goes through recovery when it ends.  The ready flag, *)
(* the command channel, the deferred commands, the READY and RECOVERING       *)
(* events and the timestamp allocator are what the two sides share.           *)
(*                                                                            *)
(* A command is a record of its number, in the order of acceptance, and its   *)
(* kind.  Kinds differ in the ready check of their entry point, in what       *)
(* recovery does with them and in what they report; "control" stands for      *)
(* accepting or dismissing an identity and resetting a session, "text" for a  *)
(* direct or group message.  Attachments are the subject of Attachments, the  *)
(* blocking of emit on a full event queue of EventQueue.                      *)
EXTENDS Naturals, Sequences, FiniteSets, Functions

CONSTANTS
    Kinds,          \* kinds of command the adapter submits
    Capacity,       \* length of the command channel
    Delays,         \* number of entries in the table of recovery delays
    MaxCommands,    \* bound: accepted commands
    MaxFailures,    \* bound: lost streams and transient start failures
    MaxClock        \* bound: readings of the wall clock, 0..MaxClock

ASSUME SessionAssumption ==
    /\ Kinds \subseteq {"text", "typing", "read", "leave", "control"}
    /\ Capacity \in Nat \ {0}
    /\ Delays \in Nat \ {0}
    /\ {MaxCommands, MaxFailures, MaxClock} \subseteq Nat

VARIABLES
    core,       \* the adapter's core: "none", "live", "closing" or "freed"
    polling,    \* the adapter's poll source is attached
    call,       \* command between its ready check and its try_send, or NoCall
    shown,      \* last of READY and RECOVERING the adapter has handled
    purple,     \* connection state of Purple: "connecting", "connected", "error"
    reported,   \* commands whose failure the adapter has seen
    worker,     \* where the worker thread is
    phase,      \* SessionState.phase
    ready,      \* the shared ready flag
    channel,    \* command channel
    deferred,   \* deferred_commands
    current,    \* command being handled, or NoCall
    events,     \* event queue towards the adapter
    qr,         \* pairing code of link_device: "none", "shown" or "failed"
    backoff,    \* RecoveryBackoff.next_delay
    delay,      \* index of the delay last waited for
    latest,     \* MessageTimestampAllocator.latest
    failures,   \* lost streams and transient start failures so far
    accepted,   \* number of commands accepted so far
    handled,    \* history: commands handled, with the timestamp they took
    failed,     \* history: commands failed by fail_deferred_commands
    ignored,    \* history: typing and read commands dropped without a word
    drained     \* history: QueueEmpty arrived since the last recovery delay

adapterVars == <<core, polling, call, shown, purple, reported>>
queueVars == <<channel, deferred, current, accepted, handled, failed, ignored>>
sessionVars == <<worker, phase, ready, qr, failures>>
backoffVars == <<backoff, delay, drained>>
vars == <<adapterVars, queueVars, sessionVars, backoffVars, events, latest>>

NoCall == [id |-> 0, kind |-> "none"]
Running == {"opening", "checking", "loading", "linking", "initializing",
            "leaving", "recovering", "backoff", "starting", "failing", "startup",
            "readying", "dispatch", "handling"}

(* The worker has set the ready flag and not yet emitted READY, or has        *)
(* cleared it and not yet emitted RECOVERING.                                 *)
Announcing == {"readying", "leaving"}

Init ==
    /\ core = "none" /\ polling = FALSE /\ call = NoCall
    /\ shown = "none" /\ purple = "connecting" /\ reported = {}
    /\ worker = "none" /\ phase = "Initializing" /\ ready = FALSE
    /\ channel = <<>> /\ deferred = <<>> /\ current = NoCall
    /\ events = <<>> /\ qr = "none"
    /\ backoff = 0 /\ delay = 0 /\ latest = 0 /\ failures = 0
    /\ accepted = 0 /\ handled = <<>> /\ failed = {} /\ ignored = {}
    /\ drained = FALSE

(* What an emit leaves in the queue: nothing once the adapter has closed it.  *)
Emitted(es) == IF core = "closing" THEN <<>> ELSE events \o es

EventOf(kind) == [kind |-> kind, id |-> 0]
RequestError(id) == [kind |-> "RequestError", id |-> id]

-----------------------------------------------------------------------------
(* The adapter, all on the main loop of Purple.                               *)

(* signal_core_new: the arguments are copied, the channel, the event queue    *)
(* and the flags are made and the worker thread is started.                   *)
New ==
    /\ core = "none" /\ purple = "connecting"
    /\ \/ /\ core' = "live" /\ polling' = TRUE
          /\ worker' = "opening"
          /\ UNCHANGED purple
       \/ /\ purple' = "error"
          /\ UNCHANGED <<core, polling, worker>>
    /\ UNCHANGED <<call, shown, reported, queueVars, phase, ready, qr, failures,
                   backoffVars, events, latest>>

AdapterFree == core = "live" /\ call = NoCall /\ accepted < MaxCommands

Calling(kind) ==
    /\ AdapterFree
    /\ call' = [id |-> accepted + 1, kind |-> kind]
    /\ UNCHANGED <<core, polling, shown, purple, reported, queueVars,
                   sessionVars, backoffVars, events, latest>>

(* The entry points that check the ready flag first.                          *)
QueueCommand(kind) == ready /\ Calling(kind)

(* queue_control_command: no ready check.                                     *)
QueueControlCommand(kind) == Calling(kind)

SendMessage == "text" \in Kinds /\ QueueCommand("text")
LeaveGroup == "leave" \in Kinds /\ QueueCommand("leave")
SetTyping == "typing" \in Kinds /\ QueueCommand("typing")
MarkRead == "read" \in Kinds /\ QueueCommand("read")
ControlIdentity == "control" \in Kinds /\ QueueControlCommand("control")

(* try_send, after the worker may have moved on: accepted, or refused because *)
(* the channel is full or its receiver is gone.                               *)
TrySend ==
    /\ call # NoCall
    /\ call' = NoCall
    /\ IF worker # "ended" /\ Len(channel) < Capacity
         THEN channel' = Append(channel, call) /\ accepted' = accepted + 1
         ELSE UNCHANGED <<channel, accepted>>
    /\ UNCHANGED <<core, polling, shown, purple, reported, deferred, current,
                   handled, failed, ignored, sessionVars, backoffVars, events,
                   latest>>

(* signal_poll_backend takes one event and dispatches it; a fatal error ends  *)
(* the polling and fails the connection.                                      *)
PollEvent ==
    /\ core = "live" /\ call = NoCall /\ polling /\ events # <<>>
    /\ LET event == Head(events) IN
         /\ events' = Tail(events)
         /\ shown' = IF event.kind \in {"Ready", "Recovering"} THEN event.kind ELSE shown
         /\ reported' = IF event.kind = "RequestError" THEN reported \cup {event.id} ELSE reported
         /\ purple' = CASE event.kind = "Ready" -> "connected"
                        [] event.kind = "Fatal" -> "error"
                        [] OTHER -> purple
         /\ polling' = (event.kind # "Fatal")
    /\ UNCHANGED <<core, call, queueVars, sessionVars, backoffVars, latest>>

(* signal_close up to the join: the flag is cleared, the event queue closed   *)
(* and the shutdown signal sent.                                              *)
Shutdown ==
    /\ core = "live" /\ call = NoCall
    /\ core' = "closing"
    /\ polling' = FALSE /\ ready' = FALSE /\ events' = <<>>
    /\ UNCHANGED <<call, shown, purple, reported, queueVars, worker, phase, qr,
                   failures, backoffVars, latest>>

(* The join returns and the core is freed.                                    *)
Free ==
    /\ core = "closing" /\ worker = "ended"
    /\ core' = "freed"
    /\ UNCHANGED <<polling, call, shown, purple, reported, queueVars, sessionVars,
                   backoffVars, events, latest>>

-----------------------------------------------------------------------------
(* The worker thread.                                                         *)

(* run_worker after run has returned: its channel and its deferred commands   *)
(* are gone, the ready flag is cleared and an error becomes a fatal event.    *)
End(es) ==
    /\ worker' = "ended"
    /\ ready' = FALSE
    /\ channel' = <<>> /\ deferred' = <<>> /\ current' = NoCall
    /\ events' = Emitted(es)
    /\ UNCHANGED <<adapterVars, accepted, handled, failed, ignored, phase, qr,
                   failures, backoffVars, latest>>

Fail == End(<<EventOf("Fatal")>>)

(* Mutant: the pairing is waited for without the shutdown signal.             *)
InterruptibleButLinking == Running \ (Announcing \cup {"recovering", "failing", "linking"})

(* Every await of the worker races the shutdown signal, but for the stopping  *)
(* of the receive tasks, whose time is bounded; the change of the ready flag  *)
(* and its event, draining the channel and failing the deferred commands      *)
(* await nothing.                                                             *)
Interruptible == Running \ (Announcing \cup {"recovering", "failing"})

Stop == core = "closing" /\ worker \in Interruptible /\ End(<<>>)

(* A panic anywhere in the worker is caught in run_worker.                    *)
Panic == worker \in Running /\ Fail

Goto(from, to) ==
    /\ worker = from /\ worker' = to
    /\ UNCHANGED <<adapterVars, queueVars, phase, ready, qr, failures, backoffVars,
                   events, latest>>

OpenStore == Goto("opening", "checking") \/ (worker = "opening" /\ Fail)

CheckRegistered == Goto("checking", "loading") \/ Goto("checking", "linking")

LoadRegistered == Goto("loading", "initializing") \/ (worker = "loading" /\ Fail)

(* link_device: the code is shown once, or its failure reported as fatal,     *)
(* while the linking itself goes on to its own result.                        *)
ShowQr ==
    /\ worker = "linking" /\ qr = "none"
    /\ \/ qr' = "shown" /\ events' = Emitted(<<EventOf("LinkQr")>>)
       \/ qr' = "failed" /\ events' = Emitted(<<EventOf("Fatal")>>)
    /\ UNCHANGED <<adapterVars, queueVars, worker, phase, ready, failures, backoffVars,
                   latest>>

LinkDevice == Goto("linking", "initializing") \/ (worker = "linking" /\ Fail)

InitializeSubsystems ==
    Goto("initializing", "starting") \/ (worker = "initializing" /\ Fail)

(* Mutant: a later recovery forgets the commands an earlier one deferred.     *)
EnterRecoveryAnew ==
    /\ failures < MaxFailures
    /\ failures' = failures + 1
    /\ phase' = "Recovering"
    /\ ready' = FALSE
    /\ worker' = IF phase # "Recovering" THEN "leaving" ELSE "recovering"
    /\ deferred' = <<>>
    /\ UNCHANGED <<adapterVars, channel, current, accepted, handled, failed, ignored,
                   qr, backoffVars, events, latest>>

(* The ready flag is cleared and SessionState::enter_recovery says whether    *)
(* this is news, which its callers then announce.                             *)
EnterRecovery ==
    /\ failures < MaxFailures
    /\ failures' = failures + 1
    /\ phase' = "Recovering"
    /\ ready' = FALSE
    /\ worker' = IF phase # "Recovering" THEN "leaving" ELSE "recovering"
    /\ UNCHANGED <<adapterVars, queueVars, qr, backoffVars, events, latest>>

AnnounceRecovering ==
    /\ worker = "leaving" /\ worker' = "recovering"
    /\ events' = Emitted(<<EventOf("Recovering")>>)
    /\ UNCHANGED <<adapterVars, queueVars, phase, ready, qr, failures, backoffVars, latest>>

(* handle_recovery_command: typing is dropped, the rest deferred.             *)
Deferrable(command) == command.kind # "typing"

(* One command received by drain_recovery_commands, or while waiting for the  *)
(* delay or for the new stream.                                               *)
ReceiveRecoveryCommand ==
    /\ worker \in {"recovering", "backoff", "starting"} /\ phase = "Recovering"
    /\ channel # <<>>
    /\ channel' = Tail(channel)
    /\ IF Deferrable(Head(channel))
         THEN deferred' = Append(deferred, Head(channel)) /\ UNCHANGED ignored
         ELSE ignored' = ignored \cup {Head(channel).id} /\ UNCHANGED deferred
    /\ UNCHANGED <<adapterVars, current, accepted, handled, failed, sessionVars,
                   backoffVars, events, latest>>

(* RecoveryBackoff::next_delay: the entries of the table in order, the last   *)
(* one repeated for ever.                                                     *)
NextDelay == IF backoff < Delays THEN backoff ELSE Delays - 1

(* wait_out_recovery: the delay begins once the channel has been found empty. *)
WaitOutRecovery ==
    /\ worker = "recovering" /\ channel = <<>>
    /\ worker' = "backoff"
    /\ delay' = NextDelay
    /\ backoff' = backoff + 1
    /\ drained' = FALSE
    /\ UNCHANGED <<adapterVars, queueVars, phase, ready, qr, failures, events, latest>>

DelayElapses == Goto("backoff", "starting")

(* The receive stream starts, or fails for now.                               *)
StartReceiving == Goto("starting", "startup")

StartFailsTransiently == worker = "starting" /\ EnterRecovery

(* A start failure that is not transient ends the worker, the deferred        *)
(* commands failed first.                                                     *)
StartFails ==
    /\ worker = "starting" /\ worker' = "failing"
    /\ ready' = FALSE
    /\ UNCHANGED <<adapterVars, queueVars, phase, qr, failures, backoffVars, events,
                   latest>>

(* deferred_command_failure: typing and read receipts are dropped silently.   *)
Reportable(command) == command.kind \notin {"typing", "read"}

(* One round of fail_deferred_commands.                                       *)
FailDeferred ==
    /\ worker = "failing" /\ deferred # <<>>
    /\ deferred' = Tail(deferred)
    /\ IF Reportable(Head(deferred))
         THEN /\ events' = Emitted(<<RequestError(Head(deferred).id)>>)
              /\ failed' = failed \cup {Head(deferred).id}
              /\ UNCHANGED ignored
         ELSE /\ ignored' = ignored \cup {Head(deferred).id}
              /\ UNCHANGED <<events, failed>>
    /\ UNCHANGED <<adapterVars, channel, current, accepted, handled, sessionVars,
                   backoffVars, latest>>

GiveUp == worker = "failing" /\ deferred = <<>> /\ Fail

(* Mutant: the session is not marked ready again.                             *)
BecomeReadyUnmarked ==
    /\ worker = "startup"
    /\ worker' = "readying" /\ ready' = TRUE
    /\ UNCHANGED <<adapterVars, queueVars, phase, qr, failures, backoffVars, events, latest>>

(* run_startup_phases: once they are through, commands are admitted, and then *)
(* the adapter is told.                                                       *)
BecomeReady ==
    /\ worker = "startup"
    /\ worker' = "readying" /\ phase' = "Ready" /\ ready' = TRUE
    /\ UNCHANGED <<adapterVars, queueVars, qr, failures, backoffVars, events, latest>>

AnnounceReady ==
    /\ worker = "readying" /\ worker' = "dispatch"
    /\ events' = Emitted(<<EventOf("Ready")>>)
    /\ UNCHANGED <<adapterVars, queueVars, phase, ready, qr, failures, backoffVars, latest>>

(* Received::QueueEmpty.                                                      *)
QueueEmpty ==
    /\ worker = "dispatch"
    /\ backoff' = 0 /\ drained' = TRUE
    /\ UNCHANGED <<adapterVars, queueVars, sessionVars, delay, events, latest>>

(* The stream ends, or a delivery receipt finds its websocket closed.         *)
LoseStream == worker = "dispatch" /\ EnterRecovery

(* MessageTimestampAllocator::next_at                                         *)
NextTimestamp(now) == IF now > latest + 1 THEN now ELSE latest + 1

(* Mutant: fresh commands overtake the deferred ones.                         *)
NextCommandFresh == IF channel # <<>> THEN Head(channel) ELSE Head(deferred)

(* Mutant: only the channel wakes the command branch.                         *)
CommandArrives == channel # <<>>

(* The command branch of run_active_dispatch: deferred commands first.        *)
NextCommand == IF deferred # <<>> THEN Head(deferred) ELSE Head(channel)
CommandWaits == deferred # <<>> \/ channel # <<>>

TakeCommand ==
    /\ worker = "dispatch" /\ CommandWaits
    /\ worker' = "handling"
    /\ current' = NextCommand
    /\ IF NextCommand \in Range(deferred)
         THEN deferred' = Tail(deferred) /\ UNCHANGED channel
         ELSE channel' = Tail(channel) /\ UNCHANGED deferred
    /\ IF NextCommand.kind \in {"text", "typing", "read"}
         THEN \E now \in 0..MaxClock : latest' = NextTimestamp(now)
         ELSE UNCHANGED latest
    /\ handled' = Append(handled,
                    [id |-> NextCommand.id,
                     timestamp |-> IF NextCommand.kind \in {"text", "typing", "read"}
                                     THEN latest' ELSE 0])
    /\ UNCHANGED <<adapterVars, accepted, failed, ignored, phase, ready, qr, failures,
                   backoffVars, events>>

(* handle_command returns.  Leaving a group and a control command always have *)
(* an answer, success or error; the others only report an error.              *)
FinishCommand ==
    /\ worker = "handling"
    /\ worker' = "dispatch" /\ current' = NoCall
    /\ \/ events' = Emitted(<<EventOf("Answer")>>)
       \/ current.kind \notin {"leave", "control"} /\ UNCHANGED events
    /\ UNCHANGED <<adapterVars, channel, deferred, accepted, handled, failed, ignored,
                   phase, ready, qr, failures, backoffVars, latest>>

-----------------------------------------------------------------------------
Adapter ==
    \/ New \/ SendMessage \/ LeaveGroup \/ SetTyping \/ MarkRead \/ ControlIdentity
    \/ TrySend \/ PollEvent \/ Shutdown \/ Free

Prepare ==
    \/ OpenStore \/ CheckRegistered \/ LoadRegistered \/ LinkDevice
    \/ InitializeSubsystems

Reconnect ==
    \/ WaitOutRecovery \/ DelayElapses \/ StartReceiving \/ StartFailsTransiently
    \/ AnnounceRecovering \/ StartFails \/ FailDeferred \/ GiveUp

Next ==
    \/ Adapter \/ Prepare \/ Reconnect \/ ShowQr \/ Stop \/ Panic
    \/ ReceiveRecoveryCommand \/ BecomeReady \/ AnnounceReady \/ QueueEmpty
    \/ LoseStream \/ TakeCommand \/ FinishCommand

Spec == Init /\ [][Next]_vars

(* The main loop of Purple and the runtime of the worker keep running, every  *)
(* branch of the select of the dispatch loop is taken sooner or later, and    *)
(* opening, loading, connecting and the requests of a command end one way or  *)
(* the other.  Nobody has to scan the pairing code.                           *)
Fairness ==
    /\ WF_vars(TrySend) /\ WF_vars(PollEvent) /\ WF_vars(Free)
    /\ WF_vars(OpenStore) /\ WF_vars(CheckRegistered) /\ WF_vars(LoadRegistered)
    /\ WF_vars(InitializeSubsystems)
    /\ WF_vars(Reconnect) /\ WF_vars(BecomeReady) /\ WF_vars(AnnounceReady)
    /\ WF_vars(worker = "recovering" /\ ReceiveRecoveryCommand)
    /\ WF_vars(TakeCommand) /\ WF_vars(FinishCommand)
    /\ WF_vars(Stop)

FairSpec == Spec /\ Fairness

-----------------------------------------------------------------------------
IdsIn(seq) == {seq[i].id : i \in DOMAIN seq}

TypeOK ==
    /\ core \in {"none", "live", "closing", "freed"}
    /\ {polling, ready, drained} \subseteq BOOLEAN
    /\ worker \in Running \cup {"none", "ended"}
    /\ phase \in {"Initializing", "Recovering", "Ready"}
    /\ shown \in {"none", "Ready", "Recovering"}
    /\ purple \in {"connecting", "connected", "error"}
    /\ Len(channel) <= Capacity
    /\ IdsIn(channel) \cup IdsIn(deferred) \cup IdsIn(handled) \subseteq 1..accepted

(* Commands are taken up in the order in which the adapter had them accepted, *)
(* whichever of them waited out a recovery, and the Signal timestamps they    *)
(* take grow strictly even when the wall clock goes back: the first attempts  *)
(* of messages reach the recipient in the order in which they were typed.     *)
(* Attempts repeated from the outbox (Outbox) are not part of this.           *)
SentInOrder ==
    \A i, j \in DOMAIN handled :
        i < j =>
          /\ handled[i].id < handled[j].id
          /\ handled[i].timestamp > 0 /\ handled[j].timestamp > 0
               => handled[i].timestamp < handled[j].timestamp

(* While the worker runs, a command for which the adapter was told OK is in   *)
(* exactly one place: in the channel, deferred, taken up once, failed with    *)
(* the connection, or, if it is a typing notice or a read receipt, dropped.   *)
(* And when Purple is told of the fatal error of a connection that could not  *)
(* be re-established, it has been told of every deferred request that failed  *)
(* with it: nothing is reported after the adapter stops polling.              *)
NothingVanishes ==
    /\ worker \in Running =>
         /\ IdsIn(channel) \cup IdsIn(deferred) \cup IdsIn(handled)
              \cup failed \cup ignored = 1..accepted
         /\ Len(channel) + Len(deferred) + Len(handled)
              + Cardinality(failed) + Cardinality(ignored) = accepted
    /\ purple = "error" /\ qr # "failed" => failed \subseteq reported

(* Once the adapter has handled every event, the last of READY and RECOVERING *)
(* it has seen agrees with the flag that admits its commands, after any       *)
(* number of failed reconnections.  They differ only while the worker stands  *)
(* between the flag and the event, and then the flag is ahead: a connection   *)
(* shown as ready may refuse a command whose RECOVERING is on its way, and    *)
(* one not yet shown as ready may admit one.                                  *)
ShownAgrees ==
    core = "live" /\ polling /\ worker \in Running /\ events = <<>>
      => /\ worker \notin Announcing => (shown = "Ready" <=> ready)
         /\ worker = "readying" => ready /\ shown # "Ready"
         /\ worker = "leaving" => ~ ready /\ shown # "Recovering"

(* Only a stream that drained its queue shortens the waiting: a connection    *)
(* that keeps breaking before QueueEmpty waits longer each time, up to the    *)
(* longest delay, even though it became ready in between.                     *)
BackoffFollowsDrain ==
    [][worker = "recovering" /\ worker' = "backoff" =>
         IF drained THEN delay' = 0
         ELSE failures > 1 => delay' > delay \/ delay' = Delays - 1]_vars

(* Every accepted command is taken up or reported, or is a typing notice that *)
(* recovery dropped, unless the worker ends or waits for the pairing.         *)
AcceptedIsHandled ==
    \A i \in 1..MaxCommands :
        accepted >= i ~> \/ i \in IdsIn(handled) \cup failed \cup ignored
                         \/ worker \in {"ended", "linking"}

(* Closing the account ends: wherever the worker is, pairing included, the    *)
(* shutdown signal reaches it and the join returns.                           *)
ShutdownEnds == core = "closing" ~> core = "freed"
=============================================================================
