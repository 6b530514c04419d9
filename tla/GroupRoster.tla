---------------------------- MODULE GroupRoster ----------------------------
(* Which Signal groups Purple may use. The actor's session and group state    *)
(* (SessionState, DepartedGroups, run_startup_phases and run_active_dispatch  *)
(* of backend/worker.rs and coordinator.rs), the group synchronization task,  *)
(* the snapshots both emit record by record, and the adapter's reconciliation *)
(* of those snapshots with deferred joins, leaves and the fallback timer      *)
(* (src/connection.c, group_sync.c).                                          *)
(*                                                                            *)
(* The actor and the task share one thread and switch only at awaits; the     *)
(* main thread runs in parallel and sees the core through the event queue.    *)
EXTENDS Integers, Sequences, FiniteSets

CONSTANTS
    Groups,
    QueueCapacity,    \* emit blocks the worker thread while the queue is full
    StreamCapacity,   \* RECEIVE_EVENT_QUEUE_CAPACITY
    CommandCapacity,  \* capacity of the command channel
    MaxReconnects,    \* bound: times the connection is lost
    MaxContents,      \* bound: group contents received
    MaxChanges,       \* bound: membership changes made by others
    MaxCommands,      \* bound: group commands accepted from the adapter
    MaxClicks         \* bound: joins, leave requests, closed tabs and removed chats

ASSUME RosterAssumption ==
    /\ {QueueCapacity, StreamCapacity, CommandCapacity} \subseteq Nat \ {0}
    /\ {MaxReconnects, MaxContents, MaxChanges, MaxCommands, MaxClicks} \subseteq Nat
    /\ "none" \notin Groups /\ "empty" \notin Groups  \* no group has these keys

VARIABLES
    member,     \* external: groups this account belongs to at the service
    cached,     \* the store: groups whose record lists the local ACI
    phase,      \* SessionPhase
    groups,     \* GroupSnapshotState
    ready,      \* the flag queue_command reads on the main thread
    pc,         \* actor: "connecting", "startup", "snapshot", "announce", "dispatch", "leaving"
    stream,     \* the receive channel: groups of contents, or "empty" (QueueEmpty)
    replay,     \* group contents waiting to be projected
    deferred,   \* deferred_commands
    commands,   \* the command channel
    command,    \* the group the leave in progress is about
    leaving,    \* GroupLeaveState.leaving
    departed,   \* GroupLeaveState.departed
    task,       \* group sync task: "none", "refreshing", "reading", "emitting", "ok", "failed"
    snap,       \* the snapshot in progress of the actor and of the task
    queue,      \* the event queue
    complete,   \* group_snapshot_complete
    syncing,    \* group_sync.active
    seen,       \* group_sync.seen
    active,     \* active_group_keys
    joins,      \* pending_group_joins
    leaves,     \* pending_group_leaves
    prompts,    \* group_leave_requests
    timer,      \* group_sync_fallback_timer_id # 0
    chats,      \* managed chat nodes of the buddy list
    open,       \* group conversations that are open and not left
    online,     \* PURPLE_CONNECTED was set
    absent,     \* history: groups the account was once no member of
    missed,     \* history: content noted after the pending snapshot was read
    bounds      \* what is left of the Max bounds

world == <<member, cached, absent>>
session == <<phase, groups, ready>>
input == <<stream, replay, deferred, commands>>
leaveVars == <<command, leaving, departed>>
emitters == <<task, snap, missed>>
roster == <<complete, syncing, seen, active, joins, leaves, prompts, timer, chats, open,
            online>>
vars == <<world, session, pc, input, leaveVars, emitters, queue, roster, bounds>>

NoSnap == [on |-> FALSE, todo |-> {}, sent |-> {}, auth |-> FALSE]
Event(k, g) == [kind |-> k, group |-> g]
NoGroup == "none"

Authoritative == groups \in {"authoritative", "dirty"}

Init ==
    /\ member \in SUBSET Groups /\ cached \in SUBSET Groups
    /\ absent = Groups \ member
    /\ phase = "initializing" /\ groups = "pending" /\ ready = FALSE
    /\ pc = "connecting"
    /\ stream = <<>> /\ replay = <<>> /\ deferred = <<>> /\ commands = <<>>
    /\ command = NoGroup /\ leaving = {} /\ departed = {}
    /\ task = "none" /\ snap = [e \in {"actor", "task"} |-> NoSnap] /\ missed = FALSE
    /\ queue = <<>>
    /\ complete = FALSE /\ syncing = FALSE /\ seen = {} /\ active = {}
    /\ joins = {} /\ leaves = {} /\ prompts = {} /\ timer = FALSE
    /\ chats \in SUBSET Groups /\ open = {} /\ online = FALSE
    /\ bounds = [reconnects |-> MaxReconnects, contents |-> MaxContents,
                 changes |-> MaxChanges, commands |-> MaxCommands, clicks |-> MaxClicks]

-----------------------------------------------------------------------------
(* The event queue: emit blocks while it is full.                             *)

Emit(e) == Len(queue) < QueueCapacity /\ queue' = Append(queue, e)

(* Signal, and Presage's receive driver.                                      *)

MembershipChange(g) ==
    /\ bounds.changes > 0
    /\ bounds' = [bounds EXCEPT !.changes = @ - 1]
    /\ member' = IF g \in member THEN member \ {g} ELSE member \cup {g}
    /\ absent' = absent \cup (Groups \ member')
    /\ UNCHANGED <<cached, session, pc, input, leaveVars, emitters, queue, roster>>

Connected == pc \in {"startup", "snapshot", "announce", "dispatch", "leaving"}

(* A group content: Presage has refreshed the group's record by the time the  *)
(* content is in the channel.                                                 *)
ContentArrives(g) ==
    /\ Connected /\ Len(stream) < StreamCapacity /\ bounds.contents > 0
    /\ bounds' = [bounds EXCEPT !.contents = @ - 1]
    /\ cached' = (cached \ {g}) \cup (member \cap {g})
    /\ stream' = Append(stream, g)
    /\ UNCHANGED <<member, absent, session, pc, replay, deferred, commands, leaveVars, emitters, queue, roster>>

QueueEmptyArrives ==
    /\ Connected /\ Len(stream) < StreamCapacity
    /\ stream' = Append(stream, "empty")
    /\ UNCHANGED <<world, session, pc, replay, deferred, commands, leaveVars, emitters, queue, roster, bounds>>

-----------------------------------------------------------------------------
(* emit_group_snapshot, shared by the actor and the task. The record list is  *)
(* read once; departure is looked at again for every record.                  *)

SnapshotBegin(e, auth) ==
    /\ Emit(Event("begin", NoGroup))
    /\ snap' = [snap EXCEPT ![e] = [on |-> TRUE, todo |-> cached, sent |-> {}, auth |-> auth]]

(* Mutant: departed.contains looks at the leaves in progress only.            *)
SkippedLeavingOnly(g) == g \in leaving

(* departed_groups.contains                                                   *)
Skipped(g) == g \in departed \cup leaving

SnapshotGroup(e) ==
    /\ snap[e].on
    /\ \E g \in snap[e].todo :
         /\ snap' = [snap EXCEPT ![e].todo = @ \ {g},
                                 ![e].sent = IF Skipped(g) THEN @ ELSE @ \cup {g}]
         /\ IF Skipped(g) THEN UNCHANGED queue ELSE Emit(Event("group", g))
    /\ UNCHANGED <<world, session, pc, input, leaveVars, task, missed, roster, bounds>>

SnapshotEnd(e) ==
    /\ snap[e].on /\ snap[e].todo = {}
    /\ Emit([kind |-> "end", group |-> NoGroup, auth |-> snap[e].auth, sent |-> snap[e].sent])
    /\ snap' = [snap EXCEPT ![e] = NoSnap]

-----------------------------------------------------------------------------
(* The actor: connecting and startup.                                         *)

(* enter_recovery; RECOVERING is emitted once per outage.                     *)
EnterRecovery ==
    /\ phase' = "recovering" /\ groups' = "pending" /\ ready' = FALSE
    /\ IF phase = "recovering" THEN UNCHANGED queue ELSE Emit(Event("recovering", NoGroup))

ReceiveStarted ==
    /\ pc = "connecting"
    /\ pc' = "startup"
    /\ UNCHANGED <<world, session, input, leaveVars, emitters, queue, roster, bounds>>

ReceiveStartFails ==
    /\ pc = "connecting" /\ bounds.reconnects > 0
    /\ bounds' = [bounds EXCEPT !.reconnects = @ - 1]
    /\ EnterRecovery
    /\ UNCHANGED <<world, pc, input, leaveVars, emitters, roster>>

(* Mutant: a command met during recovery is dropped.                          *)
DeferDropped(c) == deferred

Defer(c) == Append(deferred, c)

(* handle_recovery_command, while the actor waits to reconnect.               *)
DeferCommand ==
    /\ pc = "connecting" /\ phase = "recovering" /\ commands # <<>>
    /\ deferred' = Defer(Head(commands))
    /\ commands' = Tail(commands)
    /\ UNCHANGED <<world, session, pc, stream, replay, leaveVars, emitters, queue, roster, bounds>>

(* The argument run_startup_phases passes to emit_group_snapshot.             *)
StartupAuthority == FALSE

(* The preliminary snapshot of run_startup_phases.                            *)
StartupSnapshot ==
    /\ pc = "startup"
    /\ \/ SnapshotBegin("actor", StartupAuthority) /\ pc' = "snapshot"
       \/ UNCHANGED <<snap, queue>> /\ pc' = "announce"   \* the store read failed
    /\ UNCHANGED <<world, session, input, leaveVars, task, missed, roster, bounds>>

(* mark_ready, the ready flag and EVENT_READY.                                *)
AnnounceReady ==
    /\ pc = "announce"
    /\ phase' = "ready" /\ ready' = TRUE
    /\ Emit(Event("ready", NoGroup))
    /\ pc' = "dispatch"
    /\ UNCHANGED <<world, groups, input, leaveVars, emitters, roster, bounds>>

ActorSnapshotEnd ==
    /\ pc = "snapshot" /\ SnapshotEnd("actor")
    /\ IF phase = "ready" THEN pc' = "dispatch" /\ groups' = "authoritative"
                          ELSE pc' = "announce" /\ UNCHANGED groups
    /\ UNCHANGED <<world, phase, ready, input, leaveVars, task, missed, roster, bounds>>

-----------------------------------------------------------------------------
(* The actor: run_active_dispatch.                                            *)

(* Mutant: group content never dirties the snapshot.                          *)
NoteGroupContentNever == groups

NoteGroupContent == IF groups = "authoritative" THEN "dirty" ELSE groups

ReceiveContent ==
    /\ pc = "dispatch" /\ stream # <<>> /\ Head(stream) # "empty"
    /\ stream' = Tail(stream)
    /\ groups' = NoteGroupContent
    /\ missed' = (missed \/ (groups = "pending" /\ task \in {"emitting", "ok"}))
    /\ replay' = Append(replay, Head(stream))
    /\ UNCHANGED <<world, phase, ready, pc, deferred, commands, leaveVars, task, snap,
                   queue, roster, bounds>>

(* QueueEmpty: start a group sync, or repeat a dirty snapshot.                *)
ReceiveQueueEmpty ==
    /\ pc = "dispatch" /\ stream # <<>> /\ Head(stream) = "empty"
    /\ stream' = Tail(stream)
    /\ task' = IF task = "none" /\ ~Authoritative THEN "refreshing" ELSE task
    /\ \/ /\ groups = "dirty"
          /\ SnapshotBegin("actor", TRUE) /\ pc' = "snapshot" /\ missed' = FALSE
          /\ UNCHANGED groups
       \/ /\ groups = "dirty"                             \* the store read failed
          /\ groups' = "pending"
          /\ UNCHANGED <<snap, queue, pc, missed>>
       \/ groups # "dirty" /\ UNCHANGED <<groups, snap, queue, pc, missed>>
    /\ UNCHANGED <<world, phase, ready, replay, deferred, commands, leaveVars, roster, bounds>>

(* project_content of a group message: dropped after a departure, when the    *)
(* account is no member, or when there is nothing to show.                    *)
ProjectContent ==
    /\ pc = "dispatch" /\ Authoritative /\ replay # <<>>
    /\ replay' = Tail(replay)
    /\ \/ Head(replay) \in cached \ departed /\ Emit(Event("message", Head(replay)))
       \/ UNCHANGED queue
    /\ UNCHANGED <<world, session, pc, stream, deferred, commands, leaveVars, emitters, roster, bounds>>

(* The stream ended or a receipt met a closed websocket: stop_receive_tasks   *)
(* aborts the group sync; unread contents are replayed from the store.        *)
LoseConnection ==
    /\ pc = "dispatch" /\ bounds.reconnects > 0
    /\ bounds' = [bounds EXCEPT !.reconnects = @ - 1]
    /\ EnterRecovery
    /\ pc' = "connecting"
    /\ stream' = <<>> /\ replay' = replay \o SelectSeq(stream, LAMBDA x : x # "empty")
    /\ task' = "none" /\ snap' = [snap EXCEPT !["task"] = NoSnap]
    /\ UNCHANGED <<world, deferred, commands, leaveVars, missed, roster>>

(* The next command: deferred ones first.                                     *)
NextCommand == IF deferred # <<>> THEN Head(deferred) ELSE Head(commands)
PopCommand ==
    /\ deferred # <<>> \/ commands # <<>>
    /\ deferred' = IF deferred # <<>> THEN Tail(deferred) ELSE deferred
    /\ commands' = IF deferred # <<>> THEN commands ELSE Tail(commands)

(* SendGroupMessage: sent, saved or refused with a transient error the        *)
(* adapter only logs, or refused for good with an error naming the group.     *)
HandleSend ==
    /\ pc = "dispatch" /\ PopCommand /\ NextCommand.kind = "send"
    /\ \/ UNCHANGED queue
       \/ Authoritative /\ Emit(Event("error", NextCommand.group))
    /\ UNCHANGED <<world, session, pc, stream, replay, leaveVars, emitters, roster, bounds>>

(* begin_leave runs in the dispatch loop, before handle_command.             *)
HandleLeave ==
    /\ pc = "dispatch" /\ PopCommand /\ NextCommand.kind = "leave"
    /\ LET g == NextCommand.group
       IN  IF Authoritative
           THEN /\ leaving' = leaving \cup {g}
                /\ command' = g /\ pc' = "leaving"
                /\ UNCHANGED queue
           ELSE /\ leaving' = leaving \ {g}
                /\ Emit(Event("error", g))
                /\ UNCHANGED <<command, pc>>
    /\ UNCHANGED <<world, session, stream, replay, departed, emitters, roster, bounds>>

(* manager.leave_group succeeded; the local record may survive.               *)
LeaveAccepted ==
    /\ pc = "leaving" /\ command \in (cached \cap member) \ departed
    /\ member' = member \ {command} /\ absent' = absent \cup {command}
    /\ cached' \in {cached, cached \ {command}}
    /\ departed' = departed \cup {command} /\ leaving' = leaving \ {command}
    /\ Emit(Event("left", command))
    /\ command' = NoGroup /\ pc' = "dispatch"
    /\ UNCHANGED <<session, input, emitters, roster, bounds>>

(* The group could not be resolved, or the service refused.                   *)
LeaveFails ==
    /\ pc = "leaving"
    /\ leaving' = leaving \ {command}
    /\ Emit(Event("error", command))
    /\ command' = NoGroup /\ pc' = "dispatch"
    /\ UNCHANGED <<world, session, input, departed, emitters, roster, bounds>>

-----------------------------------------------------------------------------
(* The group synchronization task.                                            *)

(* A result reaches the actor, which forgets the task.                        *)
GroupSyncDone ==
    /\ pc = "dispatch" /\ task \in {"ok", "failed"}
    /\ task' = "none"
    /\ groups' = IF task = "ok" THEN "authoritative" ELSE "pending"
    /\ UNCHANGED <<world, phase, ready, pc, input, leaveVars, snap, missed, queue, roster, bounds>>

(* group_sync_retry_tick                                                      *)
GroupSyncRetry ==
    /\ pc = "dispatch" /\ task = "none" /\ ~Authoritative
    /\ task' = "refreshing"
    /\ UNCHANGED <<world, session, pc, input, leaveVars, snap, missed, queue, roster, bounds>>

(* synchronize_storage_groups brings the store up to date, or fails.          *)
TaskRefresh ==
    /\ task = "refreshing"
    /\ \/ task' = "reading" /\ cached' = member
       \/ task' = "failed" /\ UNCHANGED cached
    /\ UNCHANGED <<member, absent, session, pc, input, leaveVars, snap, missed, queue, roster, bounds>>

TaskSnapshot ==
    /\ task = "reading"
    /\ \/ SnapshotBegin("task", TRUE) /\ task' = "emitting" /\ missed' = FALSE
       \/ task' = "failed" /\ UNCHANGED <<snap, queue, missed>>
    /\ UNCHANGED <<world, session, pc, input, leaveVars, roster, bounds>>

TaskSnapshotEnd ==
    /\ task = "emitting" /\ SnapshotEnd("task")
    /\ task' = "ok"
    /\ UNCHANGED <<world, session, pc, input, leaveVars, missed, roster, bounds>>

-----------------------------------------------------------------------------
(* The adapter: one event per dispatch, on Purple's main thread.              *)

core == <<world, session, pc, input, leaveVars, emitters>>
Polls(kind) == queue # <<>> /\ Head(queue).kind = kind /\ queue' = Tail(queue)

(* signal_contact_sync_begin empties the set of groups seen.                  *)
SeenAtBegin == {}

PollGroupBegin ==
    /\ Polls("begin")
    /\ complete' = FALSE /\ syncing' = TRUE /\ seen' = SeenAtBegin
    /\ UNCHANGED <<core, bounds, active, joins, leaves, prompts, timer, chats, open, online>>

PollGroup ==
    /\ Polls("group")
    /\ LET g == Head(queue).group
       IN  /\ seen' = IF syncing THEN seen \cup {g} ELSE seen
           /\ chats' = chats \cup {g}
    /\ UNCHANGED <<core, bounds, complete, syncing, active, joins, leaves, prompts, timer, open, online>>

(* A preliminary snapshot only adds groups and opens the joins it can.        *)
PollPreliminaryEnd ==
    /\ Polls("end") /\ syncing /\ ~Head(queue).auth
    /\ active' = active \cup seen
    /\ open' = open \cup (joins \cap active')
    /\ joins' = joins \ active'
    /\ syncing' = FALSE /\ seen' = {}
    /\ UNCHANGED <<core, bounds, complete, leaves, prompts, timer, chats, online>>

(* An authoritative one replaces the roster, prunes managed chats, settles    *)
(* every deferred join and disarms the fallback timer.                        *)
PollAuthoritativeEnd ==
    /\ Polls("end") /\ syncing /\ Head(queue).auth
    /\ LET stale == active \ seen
       IN  /\ leaves' = leaves \ stale
           /\ open' = (open \ stale) \cup (joins \cap seen)
    /\ active' = seen /\ chats' = chats \cap seen
    /\ joins' = {} /\ timer' = FALSE
    /\ complete' = TRUE
    /\ syncing' = FALSE /\ seen' = {}
    /\ UNCHANGED <<core, bounds, prompts, online>>

(* Mutant: READY does not start the fallback timer.                           *)
TimerAtReadyNever == timer

TimerAtReady == timer \/ ~complete

PollReady ==
    /\ Polls("ready")
    /\ online' = TRUE /\ timer' = TimerAtReady
    /\ UNCHANGED <<core, bounds, complete, syncing, seen, active, joins, leaves, prompts, chats, open>>

PollRecovering ==
    /\ Polls("recovering")
    /\ complete' = FALSE /\ timer' = FALSE
    /\ UNCHANGED <<core, bounds, syncing, seen, active, joins, leaves, prompts, chats, open, online>>

(* signal_deliver_group trusts the core's membership test.                    *)
PollMessage ==
    /\ Polls("message")
    /\ LET g == Head(queue).group
       IN  active' = active \cup {g} /\ open' = open \cup {g} /\ joins' = joins \ {g}
    /\ UNCHANGED <<core, bounds, complete, syncing, seen, leaves, prompts, timer, chats, online>>

(* signal_deactivate_group, with the saved chat.                              *)
PollLeft ==
    /\ Polls("left")
    /\ LET g == Head(queue).group
       IN  /\ active' = active \ {g} /\ joins' = joins \ {g} /\ leaves' = leaves \ {g}
           /\ chats' = chats \ {g} /\ open' = open \ {g}
    /\ UNCHANGED <<core, bounds, complete, syncing, seen, prompts, timer, online>>

(* signal_group_leave_failed, for any error that names the group.             *)
PollGroupError ==
    /\ Polls("error")
    /\ leaves' = leaves \ {Head(queue).group}
    /\ UNCHANGED <<core, bounds, complete, syncing, seen, active, joins, prompts, timer, chats, open, online>>

-----------------------------------------------------------------------------
(* The adapter: what the user and the timer do.                               *)

GroupIsActive(g) == complete /\ g \in active
GroupCanSend(g) == GroupIsActive(g) /\ g \notin leaves

(* queue_command refuses unless the ready flag is up and there is room.       *)
QueueCommand(kind, g) ==
    /\ ready /\ Len(commands) < CommandCapacity /\ bounds.commands > 0
    /\ commands' = Append(commands, [kind |-> kind, group |-> g])
    /\ bounds' = [bounds EXCEPT !.commands = @ - 1]

Click == bounds.clicks > 0 /\ bounds' = [bounds EXCEPT !.clicks = @ - 1]

JoinChat(g) ==
    /\ online
    /\ Click
    /\ IF GroupIsActive(g) \/ (complete /\ g \notin leaves)
       THEN open' = open \cup {g} /\ joins' = joins \ {g}
       ELSE joins' = (IF complete THEN joins ELSE joins \cup {g}) /\ UNCHANGED open
    /\ UNCHANGED <<core, queue, complete, syncing, seen, active, leaves, prompts, timer, chats, online>>

ChatSend(g) ==
    /\ GroupCanSend(g) /\ g \in open
    /\ QueueCommand("send", g)
    /\ UNCHANGED <<world, session, pc, stream, replay, deferred, leaveVars, emitters, queue, roster>>

RequestLeave(g) ==
    /\ online /\ g \in chats /\ GroupIsActive(g) /\ g \notin leaves \cup prompts
    /\ Click
    /\ prompts' = prompts \cup {g}
    /\ UNCHANGED <<core, queue, complete, syncing, seen, active, joins, leaves, timer, chats, open, online>>

(* signal_confirm_group_leave: the group is looked up again when the user     *)
(* answers; the request ends whether or not the command was queued.           *)
ConfirmLeave(g) ==
    /\ g \in prompts
    /\ prompts' = prompts \ {g}
    /\ \/ GroupCanSend(g) /\ QueueCommand("leave", g) /\ leaves' = leaves \cup {g}
       \/ UNCHANGED <<commands, bounds, leaves>>
    /\ UNCHANGED <<world, session, pc, stream, replay, deferred, leaveVars, emitters, queue,
                   complete, syncing, seen, active, joins, timer, chats, open, online>>

CloseTab(g) ==
    /\ g \in open
    /\ Click
    /\ open' = open \ {g}
    /\ UNCHANGED <<core, queue, complete, syncing, seen, active, joins, leaves, prompts, timer, chats, online>>

RemoveChat(g) ==
    /\ g \in chats
    /\ Click
    /\ chats' = chats \ {g}
    /\ UNCHANGED <<core, queue, complete, syncing, seen, active, joins, leaves, prompts, timer, open, online>>

(* signal_group_sync_timeout. Opening a join removes the entry the loop       *)
(* stands on from the table it walks, and frees the key it goes on to use:    *)
(* any of the joins may be the ones it opens.                                 *)
GroupSyncTimeout ==
    /\ timer
    /\ timer' = FALSE
    /\ complete' = TRUE
    /\ IF complete THEN UNCHANGED <<joins, open>>
       ELSE joins' = {} /\ \E opened \in SUBSET joins : open' = open \cup opened
    /\ UNCHANGED <<core, bounds, queue, syncing, seen, active, leaves, prompts, chats, online>>

-----------------------------------------------------------------------------
Signal == (\E g \in Groups : MembershipChange(g) \/ ContentArrives(g)) \/ QueueEmptyArrives

HandleCommand == HandleSend \/ HandleLeave

Actor ==
    \/ ReceiveStarted \/ ReceiveStartFails \/ DeferCommand \/ StartupSnapshot
    \/ SnapshotGroup("actor") \/ ActorSnapshotEnd \/ AnnounceReady
    \/ ReceiveContent \/ ReceiveQueueEmpty \/ ProjectContent \/ LoseConnection
    \/ HandleCommand \/ LeaveAccepted \/ LeaveFails
    \/ GroupSyncDone \/ GroupSyncRetry

Task == TaskRefresh \/ TaskSnapshot \/ SnapshotGroup("task") \/ TaskSnapshotEnd

Poll ==
    \/ PollGroupBegin \/ PollGroup \/ PollPreliminaryEnd \/ PollAuthoritativeEnd
    \/ PollReady \/ PollRecovering \/ PollMessage \/ PollLeft \/ PollGroupError

User ==
    \E g \in Groups :
        \/ JoinChat(g) \/ ChatSend(g) \/ RequestLeave(g) \/ ConfirmLeave(g)
        \/ CloseTab(g) \/ RemoveChat(g)

Next == Signal \/ Actor \/ Task \/ Poll \/ User \/ GroupSyncTimeout

Spec == Init /\ [][Next]_vars

(* The actor's loop and the task always go on and the main loop always polls  *)
(* and runs due timers; tokio's select! picks a ready branch at random, so a  *)
(* command that keeps waiting is served.                                      *)
Fairness ==
    /\ WF_vars(ReceiveStarted) /\ WF_vars(StartupSnapshot) /\ WF_vars(SnapshotGroup("actor"))
    /\ WF_vars(ActorSnapshotEnd) /\ WF_vars(AnnounceReady) /\ WF_vars(LeaveFails)
    /\ WF_vars(DeferCommand) /\ SF_vars(HandleCommand)
    /\ WF_vars(Task) /\ WF_vars(Poll) /\ WF_vars(GroupSyncTimeout)

LiveSpec == Spec /\ Fairness

-----------------------------------------------------------------------------
(* Properties.                                                                *)

Commands == [kind : {"send", "leave"}, group : Groups]
Events ==
    [kind : {"begin", "ready", "recovering"}, group : {NoGroup}]
      \cup [kind : {"group", "message", "left", "error"}, group : Groups]
      \cup [kind : {"end"}, group : {NoGroup}, auth : BOOLEAN, sent : SUBSET Groups]

(* Every variable has its type, no queue outgrows its capacity, and the actor *)
(* has a leave in hand exactly while it handles one.                          *)
TypeOK ==
    /\ {member, cached, absent, leaving, departed, seen, active, joins, leaves, prompts,
        chats, open} \subseteq SUBSET Groups
    /\ phase \in {"initializing", "recovering", "ready"}
    /\ groups \in {"pending", "authoritative", "dirty"}
    /\ {ready, missed, complete, syncing, timer, online} \subseteq BOOLEAN
    /\ pc \in {"connecting", "startup", "snapshot", "announce", "dispatch", "leaving"}
    /\ stream \in Seq(Groups \cup {"empty"}) /\ Len(stream) <= StreamCapacity
    /\ replay \in Seq(Groups) /\ {deferred, commands} \subseteq Seq(Commands)
    /\ Len(commands) <= CommandCapacity
    /\ command \in Groups \cup {NoGroup} /\ (command # NoGroup <=> pc = "leaving")
    /\ task \in {"none", "refreshing", "reading", "emitting", "ok", "failed"}
    /\ snap \in [{"actor", "task"} ->
                   [on : BOOLEAN, todo : SUBSET Groups, sent : SUBSET Groups, auth : BOOLEAN]]
    /\ queue \in Seq(Events) /\ Len(queue) <= QueueCapacity

(* When the adapter reaches GROUP_SYNC_END it has seen exactly the groups of  *)
(* that snapshot: the records of two emitters, or of a snapshot a reconnect   *)
(* cut short, are never mixed.  Part of RosterAgrees.                         *)
SnapshotsWhole ==
    queue # <<>> /\ Head(queue).kind = "end" => syncing /\ seen = Head(queue).sent

(* A group the account left through the plugin is not on the roster, among    *)
(* the saved chats or in a snapshot once GROUP_LEFT was handled, even if its  *)
(* record survives in the store.                                              *)
DepartedStaysGone ==
    \A g \in departed \cap (active \cup seen \cup chats) :
        \E i \in DOMAIN queue : queue[i] = Event("left", g)

(* The adapter prunes a saved chat only if the account really was outside the *)
(* group at some time; any other removal is the user's.  Part of              *)
(* LeaveResolved.                                                             *)
PrunedWasNotMember == [][\A g \in chats \ chats' : g \in absent' \/ RemoveChat(g)]_vars

(* At rest under authoritative groups, the adapter's roster is the store's    *)
(* list of groups minus the ones left: content that changes a group after a   *)
(* snapshot causes another one. Content noted while the snapshot was pending  *)
(* does not (note_group_content), which is the exception named.               *)
RosterAgrees ==
    /\ SnapshotsWhole
    /\ groups = "authoritative" /\ pc = "dispatch" /\ queue = <<>> /\ stream = <<>> /\ ~missed
         => active = cached \ departed

(* A join deferred until the groups are known is settled: by a snapshot or by *)
(* the fallback timer, whatever the group refresh does.                       *)
DeferredJoinResolved == \A g \in Groups : g \in joins ~> g \notin joins

(* A confirmed leave gets its answer, across reconnects, and no saved chat    *)
(* goes without one (PrunedWasNotMember).                                     *)
LeaveResolved ==
    /\ PrunedWasNotMember
    /\ \A g \in Groups : g \in leaves ~> g \notin leaves

(* README.md: group sends stay unavailable until an authoritative group       *)
(* refresh succeeds.                                                          *)
GroupSendsNeedAuthority ==
    [][~complete /\ (\E g \in Groups : GroupCanSend(g)') => PollAuthoritativeEnd]_vars

(* CHANGELOG.md: restored group chats rejoin cleanly; when the fallback timer *)
(* finalizes the pending joins, each of them is opened.                       *)
TimeoutOpensJoins == [][GroupSyncTimeout => joins \subseteq open' \/ complete]_vars

(* docs/architecture.md: only a processed QueueEmpty makes a session ready.   *)
ReadyAfterQueueEmpty == [][phase # "ready" /\ phase' = "ready" => ReceiveQueueEmpty]_vars

LeaveOutstanding(g) ==
    \/ command = g
    \/ [kind |-> "leave", group |-> g] \in {commands[i] : i \in DOMAIN commands}
                                       \cup {deferred[i] : i \in DOMAIN deferred}
    \/ \E i \in DOMAIN queue : queue[i] = Event("left", g)

(* docs/troubleshooting.md: the log reports failed leaves. When the adapter   *)
(* reports one, the core has no leave of that group still to answer.          *)
FailedLeaveWasRefused ==
    queue # <<>> /\ Head(queue).kind = "error" /\ Head(queue).group \in leaves
        => ~LeaveOutstanding(Head(queue).group)
=============================================================================
