------------------------------- MODULE Outbox -------------------------------
(* Direct and group text messages: the encrypted outbox, the first attempt    *)
(* and the retries (backend/outbox.rs), and the commands that feed and        *)
(* trigger them (backend/coordinator.rs, worker.rs). One actor works through  *)
(* one message at a time; every await can be its last (shutdown), and the     *)
(* rows survive. A write of the store is a step of its own, and so is what    *)
(* the actor does once it hears of it: a statement that was handed to SQLite  *)
(* takes effect though shutdown drops the future that awaits it.              *)
EXTENDS Integers, FiniteSets

CONSTANTS
    Direct,        \* messages to one contact
    Group,         \* messages to one group
    MaxAttempts,   \* MAX_OUTBOX_ATTEMPTS
    NoticeAt,      \* the attempt count at which the user is told (4)
    MaxFaults,     \* bound: store failures and lost answers
    MaxStops,      \* bound: shutdowns
    MaxTurns       \* bound: identity changes, membership changes and authority losses

Messages == Direct \cup Group

ASSUME OutboxAssumption ==
    /\ Direct \cap Group = {} /\ IsFiniteSet(Messages) /\ "none" \notin Messages
    /\ MaxAttempts \in Nat \ {0, 1} /\ NoticeAt \in Nat
    /\ MaxFaults \in Nat /\ MaxStops \in Nat /\ MaxTurns \in Nat

VARIABLES
    wanted,     \* messages whose command is still to come
    rows,       \* the outbox, durable
    attempts,   \* of each row (0 for a message without one)
    due,        \* rows whose next attempt time has come
    step,       \* "idle", "saving", "sending", "marking", "finishing", "reporting"
    cur,        \* the message in hand
    fresh,      \* it is the command's own attempt, not a retry
    outcome,    \* of the attempt: "none", "ok", "retryable", "permanent"
    report,     \* the event that is due once the finishing write is answered
    todo,       \* rows of this retry pass still to attempt
    open,       \* the event queue takes events
    auth,       \* groups_authoritative
    trusted,    \* the contact's current identity is accepted
    member,     \* the account is in the group and has not left it
    accepted,   \* history: times the service accepted a message
    marked,     \* sent messages marked as projected
    told,       \* history: the last words about a message that were reported
    cutoff,     \* history: messages of which a last report fell to a teardown
    excuses,    \* history: reasons for which a message may be sent again
    bounds

outbox == <<rows, attempts, due>>
actor == <<step, cur, fresh, outcome, report, todo>>
env == <<open, auth, trusted, member>>
reports == <<told, cutoff>>
history == <<accepted, marked, reports, excuses>>
outboxVars == <<wanted, outbox, actor, env, history, bounds>>

NoMessage == "none"

OutboxInit ==
    /\ wanted = Messages
    /\ rows = {} /\ attempts = [m \in Messages |-> 0] /\ due = {}
    /\ step = "idle" /\ cur = NoMessage /\ fresh = FALSE /\ outcome = "none" /\ report = "none"
    /\ todo = {} /\ open = TRUE
    /\ auth = FALSE /\ trusted = TRUE /\ member = TRUE
    /\ accepted = [m \in Messages |-> 0] /\ marked = {}
    /\ told = [m \in Messages |-> {}] /\ cutoff = {} /\ excuses = [m \in Messages |-> 0]
    /\ bounds = [faults |-> MaxFaults, stops |-> MaxStops, turns |-> MaxTurns]

(* The last words about a message: its command failed, its row was discarded, *)
(* or it was sent and could not be marked.                                    *)
LastWords == {"error", "discarded", "unmarked"}

(* An event is emitted; a queue that the adapter has closed drops it. Notices *)
(* that a message is still queued leave no trace.                             *)
Tell(m, what) ==
    /\ told' = IF open THEN [told EXCEPT ![m] = @ \cup ({what} \cap LastWords)] ELSE told
    /\ cutoff' = IF ~open /\ what \in LastWords THEN cutoff \cup {m} ELSE cutoff
Fault == bounds.faults > 0 /\ bounds' = [bounds EXCEPT !.faults = @ - 1]
Turn == bounds.turns > 0 /\ bounds' = [bounds EXCEPT !.turns = @ - 1]
Excuse(m) == excuses' = [excuses EXCEPT ![m] = @ + 1]

-----------------------------------------------------------------------------
(* Retry passes.                                                              *)

(* Mutant: the quarantine of group messages is never lifted.                  *)
AttemptableDirect(m, a) == m \in Direct

(* outbox_message_is_attemptable                                              *)
Attemptable(m, a) == a \/ m \in Direct

(* Go on with the next row of a pass. Rows are independent: any order.        *)
NextOf(rest) ==
    IF rest = {} THEN step' = "idle" /\ cur' = NoMessage /\ todo' = {}
    ELSE \E m \in rest : step' = "sending" /\ cur' = m /\ todo' = rest \ {m}

(* retry_outbox: the due rows that may be attempted now.                      *)
BeginPass(ready, a) ==
    /\ NextOf({m \in ready : Attemptable(m, a)})
    /\ fresh' = FALSE /\ outcome' = "none" /\ report' = "none"

(* The retry tick, and startup; a failed read of the outbox leaves everything *)
(* for the next tick.                                                         *)
RetryTick ==
    /\ step = "idle" /\ BeginPass(due, auth)
    /\ UNCHANGED <<wanted, outbox, env, history, bounds>>

(* A retry deadline passes.                                                   *)
BecomeDue(m) ==
    /\ m \in rows \ due
    /\ due' = due \cup {m}
    /\ UNCHANGED <<wanted, rows, attempts, actor, env, history, bounds>>

(* expedite_outbox_messages, or an error event.                               *)
Expedite(S) == due' = due \cup (rows \cap S) \/ UNCHANGED due

(* AcceptIdentity: the contact's rows become due and are retried at once.     *)
AcceptIdentity ==
    /\ step = "idle" /\ ~trusted
    /\ trusted' = TRUE
    /\ Expedite(Direct)
    /\ BeginPass(due', auth)
    /\ UNCHANGED <<wanted, rows, attempts, open, auth, member, history, bounds>>

(* LeaveGroup succeeded: the group's rows become due, to be cleaned up.       *)
LeaveGroup ==
    /\ step = "idle" /\ auth /\ member /\ Turn
    /\ member' = FALSE
    /\ Expedite(Group)
    /\ BeginPass(due', auth)
    /\ UNCHANGED <<wanted, rows, attempts, open, auth, trusted, history>>

-----------------------------------------------------------------------------
(* SendMessage and SendGroupMessage.                                          *)

(* The text of an error of the network, the service or the store: it has one  *)
(* of the words of a refusal (401, 403, 404, not found, unregistered,         *)
(* untrusted identity) in it, or it has not.                                  *)
Texts == {"plain", "refusal"}

(* OutboxAttemptError::classify                                               *)
Classify(text) == IF text = "refusal" THEN "permanent" ELSE "retryable"

(* The event a command's own failed attempt ends in.                          *)
FailureEvent(class) == IF class = "permanent" THEN "error" ELSE "transient"

BeginSend(m) ==
    /\ step' = "saving" /\ cur' = m /\ fresh' = TRUE /\ outcome' = "none" /\ report' = "none"
    /\ todo' = {}

SendMessage(m) ==
    /\ step = "idle" /\ m \in wanted \cap Direct
    /\ wanted' = wanted \ {m}
    /\ BeginSend(m)
    /\ UNCHANGED <<outbox, env, history, bounds>>

SendGroupMessage(m) ==
    /\ step = "idle" /\ m \in wanted \cap Group
    /\ wanted' = wanted \ {m}
    /\ \/ auth /\ member /\ BeginSend(m) /\ UNCHANGED <<reports, bounds>>
       \/ auth /\ ~member /\ Tell(m, "error") /\ UNCHANGED <<actor, bounds>>
       \/ /\ auth /\ Fault /\ UNCHANGED actor
          /\ \E text \in Texts : Tell(m, FailureEvent(Classify(text)))
       \/ ~auth /\ Tell(m, "transient") /\ UNCHANGED <<actor, bounds>>
    /\ UNCHANGED <<outbox, env, accepted, marked, excuses>>

(* enqueue_outbox_message                                                     *)
Save ==
    /\ step = "saving"
    /\ rows' = rows \cup {cur} /\ due' = due \cup {cur}
    /\ attempts' = [attempts EXCEPT ![cur] = 0]
    /\ step' = "sending"
    /\ UNCHANGED <<wanted, cur, fresh, outcome, report, todo, env, history, bounds>>

SaveFails ==
    /\ step = "saving" /\ Fault
    /\ \E text \in Texts : Tell(cur, FailureEvent(Classify(text)))
    /\ step' = "idle" /\ cur' = NoMessage /\ fresh' = FALSE
    /\ UNCHANGED <<wanted, outbox, outcome, report, todo, env, accepted, marked, excuses>>

-----------------------------------------------------------------------------
(* attempt_outbox_message.                                                    *)

CanReach(m) == IF m \in Direct THEN trusted ELSE member

(* History only: the count saturates above every value the faults allow.      *)
Saturation == MaxFaults + MaxStops + 2
Accept(m) == accepted' = [accepted EXCEPT ![m] = IF @ < Saturation THEN @ + 1 ELSE @]

AttemptSucceeds ==
    /\ step = "sending" /\ CanReach(cur)
    /\ Accept(cur)
    /\ outcome' = "ok" /\ step' = "marking"
    /\ UNCHANGED <<wanted, outbox, cur, fresh, report, todo, env, marked, reports, excuses, bounds>>

(* Resolving the group or sending failed. The service may have acted on the   *)
(* message all the same, if it could be sent at all.                          *)
AttemptFails ==
    /\ step = "sending"
    /\ \E text \in Texts : outcome' = Classify(text)
    /\ \/ UNCHANGED <<accepted, excuses, bounds>>
       \/ CanReach(cur) /\ Fault /\ Accept(cur) /\ Excuse(cur)
    /\ step' = "finishing"
    /\ UNCHANGED <<wanted, outbox, cur, fresh, report, todo, env, marked, reports>>

(* An untrusted identity, or a group the account is no member of.             *)
AttemptRefused ==
    /\ step = "sending" /\ ~CanReach(cur)
    /\ outcome' = IF cur \in Direct THEN Classify("refusal") ELSE "permanent"
    /\ step' = "finishing"
    /\ UNCHANGED <<wanted, outbox, cur, fresh, report, todo, env, history, bounds>>

(* Mutant: a retried message is not marked.                                   *)
MarkFreshOnly == IF fresh THEN marked \cup {cur} ELSE marked

MarkCurrent == marked \cup {cur}

(* mark_sent_message_projected_or_report                                      *)
MarkSent ==
    /\ step = "marking"
    /\ \/ marked' = MarkCurrent /\ UNCHANGED <<reports, bounds>>
       \/ Fault /\ Tell(cur, "unmarked") /\ UNCHANGED marked
    /\ step' = "finishing"
    /\ UNCHANGED <<wanted, outbox, cur, fresh, outcome, report, todo, env, accepted, excuses>>

-----------------------------------------------------------------------------
(* finish_outbox_attempt and what its callers report.                         *)

(* The row is done: sent, refused for good or out of attempts.                *)
Terminal == outcome # "retryable" \/ attempts[cur] + 1 >= MaxAttempts

(* Mutant: the row of a sent message is kept.                                 *)
CompleteKeepsSent == IF outcome = "ok" THEN rows ELSE rows \ {cur}

(* complete_outbox_message                                                    *)
CompleteRow == rows \ {cur}

(* The event that is due after the attempt.                                   *)
OutcomeReport ==
    IF outcome = "ok" THEN "none"
    ELSE IF fresh THEN FailureEvent(outcome)
    ELSE IF Terminal THEN "discarded"
    ELSE IF attempts[cur] + 1 = NoticeAt THEN "queued" ELSE "none"

(* The row is deleted or deferred.                                            *)
FinishAttempt ==
    /\ step = "finishing"
    /\ IF Terminal
       THEN /\ rows' = CompleteRow /\ due' = due \cap rows'
            /\ attempts' = [attempts EXCEPT ![cur] = 0]
       ELSE /\ attempts' = [attempts EXCEPT ![cur] = @ + 1] /\ due' = due \ {cur}
            /\ UNCHANGED rows
    /\ step' = "reporting" /\ report' = OutcomeReport
    /\ UNCHANGED <<wanted, cur, fresh, outcome, todo, env, history, bounds>>

(* The caller hears of it.                                                    *)
ReportOutcome ==
    /\ step = "reporting"
    /\ Tell(cur, report)
    /\ NextOf(todo) /\ fresh' = FALSE /\ outcome' = "none" /\ report' = "none"
    /\ UNCHANGED <<wanted, outbox, env, accepted, marked, excuses, bounds>>

(* The store refuses: the row stays as it was. A first attempt reports its    *)
(* own failure if it had one, else the store's error, classified; a retry     *)
(* reports the store's error.                                                 *)
FinishFails ==
    /\ step = "finishing" /\ Fault
    /\ \E text \in Texts :
         Tell(cur, IF ~fresh THEN "store"
                   ELSE FailureEvent(IF outcome = "ok" THEN Classify(text) ELSE outcome))
    /\ IF outcome = "ok" THEN Excuse(cur) ELSE UNCHANGED excuses
    /\ NextOf(todo) /\ fresh' = FALSE /\ outcome' = "none"
    /\ UNCHANGED <<wanted, outbox, report, env, accepted, marked>>

-----------------------------------------------------------------------------
(* The surroundings.                                                          *)

(* signal_core_shutdown closes the event queue, then sends the signal.        *)
BeginShutdown ==
    /\ open /\ bounds.stops > 0
    /\ open' = FALSE /\ bounds' = [bounds EXCEPT !.stops = @ - 1]
    /\ UNCHANGED <<wanted, outbox, actor, auth, trusted, member, history>>

(* The signal drops the operation at its await; the next connection finds the *)
(* rows. A message that was accepted and whose row is left is sent again.     *)
Shutdown ==
    /\ ~open /\ open' = TRUE
    /\ IF outcome = "ok" /\ cur \in rows THEN Excuse(cur) ELSE UNCHANGED excuses
    /\ cutoff' = IF report \in LastWords THEN cutoff \cup {cur} ELSE cutoff
    /\ step' = "idle" /\ cur' = NoMessage /\ fresh' = FALSE /\ outcome' = "none"
    /\ report' = "none" /\ todo' = {}
    /\ auth' = FALSE
    /\ UNCHANGED <<wanted, outbox, trusted, member, accepted, marked, told, bounds>>

(* The contact's identity changes (observed while sending or receiving).      *)
IdentityChanges ==
    /\ trusted /\ Turn /\ trusted' = FALSE
    /\ UNCHANGED <<wanted, outbox, actor, open, auth, member, history>>

(* The group synchronization succeeds, or a reconnect makes it necessary.     *)
GroupsAuthoritative ==
    /\ step = "idle" /\ ~auth /\ auth' = TRUE /\ BeginPass(due, TRUE)
    /\ UNCHANGED <<wanted, outbox, open, trusted, member, history, bounds>>

GroupsPending ==
    /\ step = "idle" /\ auth /\ Turn /\ auth' = FALSE
    /\ UNCHANGED <<wanted, outbox, actor, open, trusted, member, history>>

-----------------------------------------------------------------------------
Attempt ==
    \/ Save \/ SaveFails \/ AttemptSucceeds \/ AttemptFails \/ AttemptRefused
    \/ MarkSent \/ FinishAttempt \/ ReportOutcome \/ FinishFails

OutboxNext ==
    \/ Attempt \/ RetryTick \/ AcceptIdentity \/ LeaveGroup
    \/ BeginShutdown \/ Shutdown \/ IdentityChanges \/ GroupsAuthoritative \/ GroupsPending
    \/ \E m \in Messages : BecomeDue(m) \/ SendMessage(m) \/ SendGroupMessage(m)

OutboxSpec == OutboxInit /\ [][OutboxNext]_outboxVars

(* An operation in hand goes on, a shutdown that was begun is completed,      *)
(* deadlines pass, the five-second tick keeps coming round, and the group     *)
(* synchronization is retried until it succeeds.                              *)
OutboxFairness ==
    /\ WF_outboxVars(Attempt) /\ WF_outboxVars(Shutdown)
    /\ SF_outboxVars(RetryTick) /\ SF_outboxVars(GroupsAuthoritative)
    /\ \A m \in Messages : WF_outboxVars(BecomeDue(m))

OutboxLiveSpec == OutboxSpec /\ OutboxFairness

-----------------------------------------------------------------------------
(* Properties.                                                                *)

(* Every variable has its type, and a row has been attempted fewer times than *)
(* MAX_OUTBOX_ATTEMPTS.                                                       *)
OutboxTypeOK ==
    /\ {wanted, rows, marked, todo} \subseteq SUBSET Messages /\ due \subseteq rows
    /\ attempts \in [Messages -> 0 .. MaxAttempts]
    /\ \A m \in rows : attempts[m] < MaxAttempts
    /\ step \in {"idle", "saving", "sending", "marking", "finishing", "reporting"}
    /\ cur \in Messages \cup {NoMessage} /\ (cur = NoMessage <=> step = "idle")
    /\ outcome \in {"none", "ok", "retryable", "permanent"}
    /\ report \in {"none", "error", "transient", "discarded", "queued"}
    /\ {fresh, open, auth, trusted, member} \subseteq BOOLEAN
    /\ {accepted, excuses} \subseteq [Messages -> Nat] /\ cutoff \subseteq Messages
    /\ told \in [Messages -> SUBSET LastWords]

(* A message reaches the service twice only for a reason: a lost answer, a    *)
(* shutdown between its acceptance and the deletion of its row, or a refusal  *)
(* of the store to delete it.                                                 *)
DuplicatesExplained == \A m \in Messages : accepted[m] <= 1 + excuses[m]

(* The user heard how it ended, or a teardown cut the report off after the    *)
(* store had acted.                                                           *)
Heard(m, words) == m \in cutoff \/ told[m] \cap words # {}

(* A message the service accepted and whose row is gone was marked as         *)
(* projected, so that the next start does not replay it as new, or the user   *)
(* heard that it failed or could not be marked. The one exception is named:   *)
(* a teardown after the row was deleted and before that was reported.         *)
SentIsMarked ==
    \A m \in Messages \ rows :
        accepted[m] > 0 /\ cur # m => m \in marked \/ Heard(m, LastWords)

(* Every row leaves the outbox in the end, and then the service has accepted  *)
(* its message or the user hears that it failed: no store failure, transient  *)
(* error or quarantine keeps or loses one, and shutdown loses none, only the  *)
(* report of one already given up. Rows that a changed identity blocks are    *)
(* among those given up, see IdentityBlockedKept.                             *)
RowSettles ==
    \A m \in Messages :
        m \in rows ~> (m \notin rows /\ (accepted[m] > 0 \/ Heard(m, {"error", "discarded"})))

(* docs/troubleshooting.md: a transient failure leaves the message queued. A  *)
(* command that was taken up ends with a row, an acceptance or an error.      *)
TransientStaysQueued ==
    \A m \in Messages \ (wanted \cup rows) :
        cur # m => accepted[m] > 0 \/ Heard(m, {"error", "discarded"})

(* docs/troubleshooting.md: a message blocked by an identity change is still  *)
(* there to be retried when the identity is accepted.                         *)
IdentityBlockedKept ==
    [][\A m \in Direct : m \in rows \ rows' => trusted \/ accepted[m] > 0]_outboxVars
=============================================================================
