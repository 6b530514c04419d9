------------------------------ MODULE Content ------------------------------
(* How one received content becomes events of the adapter: handle_content and *)
(* emit_data_message of backend/coordinator.rs, the downloads and conversions *)
(* they await, the emission of the resulting events one by one, and the       *)
(* adapter that presents them and acknowledges the delivery (connection.c).   *)
(* The process may be stopped or may crash at any await or between two        *)
(* emissions; the content is then handled again by the next session.          *)
(* Acknowledgments that the store refuses and the replay of many contents are *)
(* in Projection.                                                             *)
EXTENDS Transcode, Sequences

CONSTANTS
    Contents,       \* the contents that may be received
    MaxDownloads,   \* MAX_ATTACHMENT_DOWNLOADS_PER_MESSAGE
    MaxTranscodes,  \* MAX_SIGNAL_GIF_TRANSCODES_PER_MESSAGE
    QueueCapacity,  \* events the queue holds before emit blocks
    MaxRuns         \* bound: sessions that handle the content

ASSUME ContentAssumption ==
    /\ {MaxDownloads, MaxTranscodes, QueueCapacity, MaxRuns} \subseteq Nat \ {0}
    /\ \A c \in Contents : c.pointers \in Seq([huge : BOOLEAN, type : {"image", "video", "file"}])

VARIABLES
    content,     \* the content: [form, target, outgoing, text, viewOnce, pointers], with
                 \* a type and a size for each attachment pointer
    departure,   \* departure_state of its group in this session
    pc,          \* where the actor is with it
    index,       \* attachments looked at by the download loop
    downloaded,  \* DownloadedAttachment records: [index, type, matching, whole]
    cursor,      \* downloads looked at by the conversion loop
    transcodes,  \* signal_gif_transcodes
    plan,        \* events composed and not yet emitted
    queue,       \* the event queue
    seen,        \* history: events the adapter has handled in this session
    receipt,     \* a delivery receipt was queued in this session
    acked,       \* the adapter acknowledged this session's delivery id
    store,       \* durable: "stored" or "projected"
    main,        \* "up", "closed" (events closed) or "signalled" (shutdown sent)
    run          \* the session, and its delivery id of the content

actorVars == <<pc, index, downloaded, cursor, transcodes, plan, receipt>>
adapterVars == <<queue, seen, acked, main>>
vars == <<content, departure, actorVars, adapterVars, store, run, transcodeVars>>

Init ==
    /\ content \in Contents
    /\ departure \in IF content.target = "group" THEN {"active", "leaving", "departed"} ELSE {"active"}
    /\ pc = "replay" /\ index = 0 /\ downloaded = <<>> /\ cursor = 0 /\ transcodes = 0
    /\ plan = <<>> /\ receipt = FALSE
    /\ queue = <<>> /\ seen = <<>> /\ acked = FALSE /\ main = "up"
    /\ store = "stored" /\ run = 1
    /\ TranscodeInit

-----------------------------------------------------------------------------
(* Events. `parts` are the attachments an event speaks for: those a message   *)
(* names by a placeholder, the one an attachment event carries, or those an   *)
(* error reports.                                                             *)

Event(kind, id, parts) == [kind |-> kind, id |-> id, parts |-> parts]

(* EventSink::emit blocks while the queue is full and drops once it is closed.*)
CanEmit == main # "up" \/ Len(queue) < QueueCapacity
Emitted(e) == IF main = "up" THEN Append(queue, e) ELSE queue
Emit(e) == CanEmit /\ queue' = Emitted(e)

(* await_or_shutdown does not poll a phase once the signal is there.          *)
Polled == main # "signalled"

(* data_message_text and regular_message_attachments: view-once media is      *)
(* replaced by a text.                                                        *)
HasText == content.text \/ content.viewOnce
Attachments == IF content.viewOnce THEN <<>> ELSE content.pointers

(* DataMessage alone asks for a delivery receipt, whatever its disposition.   *)
Receipted == receipt' = (receipt \/ content.form = "data")

CarriesMessage == content.form \in {"data", "edit", "sent", "sentEdit"}
(* A sync message is outgoing; the others are if this account sent them.      *)
Outgoing == content.outgoing \/ content.form \in {"sent", "sentEdit"}

Idle == UNCHANGED <<content, departure, store, run, transcodeVars>>

(* ProjectionDisposition::Complete and ::Retry.                               *)
Complete == pc' = "marking" /\ Receipted
Retry == pc' = "parked" /\ Receipted

(* Typing, receipts, decryption errors and everything else.                   *)
HandleOther ==
    /\ pc = "replay" /\ Polled /\ ~CarriesMessage
    /\ pc' = "marking"
    /\ IF content.form = "other" THEN UNCHANGED queue
       ELSE Emit(Event(content.form, 0, {}))
    /\ UNCHANGED <<index, downloaded, cursor, transcodes, plan, receipt, seen, acked, main>>
    /\ Idle

(* group_message_target, then the text and the attachments.                   *)
HandleMessage ==
    /\ pc = "replay" /\ Polled /\ CarriesMessage
    /\ IF content.target = "malformed"
       THEN Complete /\ Emit(Event("error", 0, {}))
       ELSE /\ UNCHANGED queue
            /\ IF ~HasText /\ Attachments = <<>> THEN Complete
               ELSE /\ pc' = IF content.target = "group" THEN "membership" ELSE "attachments"
                    /\ UNCHANGED receipt
    /\ UNCHANGED <<index, downloaded, cursor, transcodes, plan, seen, acked, main>>
    /\ Idle

(* group_for_projection: the departure state, then the stored membership.     *)
(* Leaving is a command of the same actor, so the state cannot change while   *)
(* the store is read.                                                         *)
ReadMembership ==
    /\ pc = "membership" /\ Polled
    /\ \/ departure = "leaving" /\ Retry /\ UNCHANGED queue
       \/ departure = "departed" /\ Complete /\ UNCHANGED queue
       \/ /\ departure = "active"
          /\ \/ pc' = "attachments" /\ UNCHANGED <<receipt, queue>>
             \/ Complete /\ UNCHANGED queue
             \/ Retry /\ Emit(Event("error", 0, {}))
    /\ UNCHANGED <<index, downloaded, cursor, transcodes, plan, seen, acked, main>>
    /\ Idle

-----------------------------------------------------------------------------
(* Downloads, for incoming messages only.                                     *)

Limit == IF Len(Attachments) < MaxDownloads THEN Len(Attachments) ELSE MaxDownloads

BeginDownloads ==
    /\ pc = "attachments"
    /\ pc' = IF Outgoing THEN "converting" ELSE "downloading"
    /\ IF ~Outgoing /\ Len(Attachments) > MaxDownloads
       THEN Emit(Event("error", 0, (MaxDownloads + 1)..Len(Attachments)))
       ELSE UNCHANGED queue
    /\ UNCHANGED <<index, downloaded, cursor, transcodes, plan, receipt, seen, acked, main>>
    /\ Idle

Downloading == pc = "downloading" /\ Polled /\ index < Limit /\ index' = index + 1

(* A declared size above the limit, a failed download, and a body that is too *)
(* large, or empty once cut to the declared size, are reported and skipped.   *)
DownloadFails ==
    /\ Downloading
    /\ Emit(Event("error", 0, {index + 1}))
    /\ UNCHANGED <<pc, downloaded, cursor, transcodes, plan, receipt, seen, acked, main>>
    /\ Idle

(* The signature and the size of the body agree with its type, or not.        *)
Download ==
    /\ Downloading /\ ~Attachments[index + 1].huge
    /\ \E matching \in BOOLEAN :
         downloaded' = Append(downloaded,
           [index |-> index + 1, type |-> Attachments[index + 1].type,
            matching |-> matching, whole |-> TRUE])
    /\ UNCHANGED <<pc, cursor, transcodes, plan, receipt, adapterVars>>
    /\ Idle

DownloadsDone ==
    /\ pc = "downloading" /\ index = Limit
    /\ pc' = "converting"
    /\ UNCHANGED <<index, downloaded, cursor, transcodes, plan, receipt, adapterVars>>
    /\ Idle

-----------------------------------------------------------------------------
(* Conversions. Each candidate counts, converted or not.                      *)

Candidate(k) == downloaded[k].type = "video" /\ downloaded[k].matching
Candidates == {k \in DOMAIN downloaded : k > cursor /\ Candidate(k)}
NextCandidate == CHOOSE k \in Candidates : \A l \in Candidates : k <= l
MayConvert == transcodes < MaxTranscodes /\ Candidates # {}

StartConversion ==
    /\ pc = "converting" /\ Polled /\ MayConvert
    /\ cursor' = NextCandidate /\ transcodes' = transcodes + 1
    /\ pc' = "conversion" /\ Spawn
    /\ UNCHANGED <<content, departure, store, run, index, downloaded, plan, receipt, adapterVars>>

(* The lock is taken, a helper is missing, or a process or thread could not   *)
(* be started.                                                                *)
ConversionRefused ==
    /\ pc = "converting" /\ Polled /\ MayConvert
    /\ cursor' = NextCandidate /\ transcodes' = transcodes + 1
    /\ UNCHANGED <<pc, index, downloaded, plan, receipt, adapterVars>>
    /\ Idle

(* The blocking thread returns. A GIF replaces the video; apply_signal_gif    *)
(* repeats the check, with the same outcome. Nobody hears of the end of a     *)
(* conversion whose session was stopped.                                      *)
EndConversion ==
    /\ Returns
    /\ IF pc = "conversion" /\ Polled
       THEN /\ pc' = "converting"
            /\ downloaded' = IF Converts
                             THEN [downloaded EXCEPT ![cursor].type = "gif", ![cursor].whole = whole]
                             ELSE downloaded
       ELSE UNCHANGED <<pc, downloaded>>
    /\ UNCHANGED <<content, departure, store, run, index, cursor, transcodes, plan, receipt,
                   adapterVars>>

-----------------------------------------------------------------------------
(* Composition and emission, without an await in between.                     *)

(* Mutant: inline attachments are told apart by their place among the         *)
(* downloads.                                                                 *)
InlineByPosition ==
    {k \in DOMAIN downloaded : downloaded[k].type \in {"image", "gif"} /\ downloaded[k].matching}

(* inline_attachment_indexes                                                  *)
Inline ==
    {downloaded[k].index : k \in
       {j \in DOMAIN downloaded : downloaded[j].type \in {"image", "gif"} /\ downloaded[j].matching}}

Placeholders == DOMAIN Attachments \ Inline

(* Mutant: the text always carries the delivery id.                           *)
MessageIdAlways == run

(* Mutant: the text carries the delivery id if the message had no attachments.*)
MessageIdUnlessAttached == IF Attachments = <<>> THEN run ELSE 0

(* message_delivery_id                                                        *)
MessageId == IF downloaded = <<>> THEN run ELSE 0

(* projected_data_message_text is empty if every attachment is shown inline.  *)
MessageEvents ==
    IF HasText \/ Placeholders # {}
    THEN <<Event("message", MessageId, Placeholders)>> ELSE <<>>

AttachmentEvents ==
    [k \in DOMAIN downloaded |->
       Event("attachment", IF k = Len(downloaded) THEN run ELSE 0, {downloaded[k].index})]

Compose ==
    /\ pc = "converting" /\ ~MayConvert
    /\ plan' = MessageEvents \o AttachmentEvents
    /\ pc' = "emitting"
    /\ UNCHANGED <<index, downloaded, cursor, transcodes, receipt, adapterVars>>
    /\ Idle

EmitNext ==
    /\ pc = "emitting" /\ plan # <<>>
    /\ Emit(Head(plan)) /\ plan' = Tail(plan)
    /\ UNCHANGED <<pc, index, downloaded, cursor, transcodes, receipt, seen, acked, main>>
    /\ Idle

(* ProjectionDisposition::AwaitingAck                                         *)
EmissionEnds ==
    /\ pc = "emitting" /\ plan = <<>>
    /\ pc' = "awaiting" /\ Receipted
    /\ UNCHANGED <<index, downloaded, cursor, transcodes, plan, adapterVars>>
    /\ Idle

(* mark_message_projected, of a content that needs no presentation or whose   *)
(* delivery was acknowledged. A failure releases the former for a later       *)
(* session; the latter is tried again.                                        *)
MarkProjected ==
    /\ pc = "marking" \/ (pc = "awaiting" /\ acked)
    /\ Polled
    /\ \/ store' = "projected" /\ pc' = "recorded"
       \/ pc = "marking" /\ pc' = "parked" /\ UNCHANGED store
    /\ UNCHANGED <<content, departure, run, index, downloaded, cursor, transcodes, plan, receipt,
                   adapterVars, transcodeVars>>

-----------------------------------------------------------------------------
(* The adapter, shutdown, crash and the next session.                         *)

(* signal_poll_backend presents the event and acknowledges the delivery it    *)
(* carries.                                                                   *)
PollEvent ==
    /\ main = "up" /\ queue # <<>>
    /\ queue' = Tail(queue) /\ seen' = Append(seen, Head(queue))
    /\ acked' = (acked \/ Head(queue).id = run)
    /\ UNCHANGED <<actorVars, main>> /\ Idle

(* signal_core_shutdown closes the event queue, then signals the worker.      *)
CloseEvents ==
    /\ main = "up" /\ main' = "closed"
    /\ UNCHANGED <<actorVars, queue, seen, acked>> /\ Idle

SendShutdown ==
    /\ main = "closed" /\ main' = "signalled"
    /\ UNCHANGED <<actorVars, queue, seen, acked>> /\ Idle

Awaits == {"replay", "membership", "downloading", "converting", "conversion", "awaiting",
           "marking", "recorded", "parked"}

(* Mutant: the lock goes with the future that waits for the conversion.       *)
PermitOnStopFreed == IF pc = "conversion" THEN "free" ELSE permit

PermitOnStop == permit

(* The worker drops what it was awaiting and drains the acknowledgments, as   *)
(* far as the store and the cleanup budget allow. A mark handed to SQLite may *)
(* still take effect.                                                         *)
Interrupt ==
    /\ main = "signalled" /\ pc \in Awaits
    /\ pc' = "stopped"
    /\ \/ UNCHANGED store
       \/ /\ pc = "marking" \/ (pc = "awaiting" /\ acked)
          /\ store' = "projected"
    /\ permit' = PermitOnStop
    /\ UNCHANGED <<content, departure, run, index, downloaded, cursor, transcodes, plan, receipt,
                   adapterVars, stage, child, writer, reader, children, whole, gifVars>>

(* load_unprojected_messages of the next session; a group that was left in an *)
(* earlier session is not in its store any more, or is there by mistake.      *)
NextSession ==
    /\ run < MaxRuns /\ run' = run + 1 /\ store = "stored"
    /\ pc' = "replay" /\ index' = 0 /\ downloaded' = <<>> /\ cursor' = 0 /\ transcodes' = 0
    /\ plan' = <<>> /\ receipt' = FALSE
    /\ queue' = <<>> /\ seen' = <<>> /\ acked' = FALSE /\ main' = "up"
    /\ departure' = "active"
    /\ UNCHANGED <<content, store>>

(* The account is enabled again in the same process: a conversion goes on.    *)
Reconnect == pc = "stopped" /\ NextSession /\ UNCHANGED transcodeVars

(* The process dies, and the pipes and the lock with it.  A transcoder it     *)
(* leaves behind finds its pipes broken and is no child of the next process:  *)
(* children counts those of the process that runs.                            *)
Crash ==
    /\ pc # "stopped" /\ NextSession
    /\ permit' = "free" /\ stage' = "idle" /\ children' = 0 /\ whole' = FALSE
    /\ child' = "none" /\ writer' = "none" /\ reader' = "none"
    /\ GifReset

-----------------------------------------------------------------------------
Handle ==
    \/ HandleOther \/ HandleMessage \/ ReadMembership \/ BeginDownloads
    \/ DownloadFails \/ Download \/ DownloadsDone \/ StartConversion
    \/ ConversionRefused \/ Compose \/ EmitNext \/ EmissionEnds

Outside == <<content, departure, actorVars, adapterVars, store, run>>
Convert == (Transcoding \/ OtherAccount) /\ UNCHANGED Outside

Next ==
    \/ Handle \/ EndConversion \/ Convert \/ MarkProjected
    \/ PollEvent \/ CloseEvents \/ SendShutdown \/ Interrupt \/ Reconnect \/ Crash

Spec == Init /\ [][Next]_vars

(* The worker and the blocking thread keep running, the main loop polls, a    *)
(* request of the actor ends one way or the other, the clock reaches the      *)
(* timeout and pipes report the end of the child. FFmpeg owes nothing.        *)
Fairness ==
    /\ WF_vars(Handle) /\ WF_vars(MarkProjected) /\ WF_vars(PollEvent)
    /\ WF_vars(SendShutdown) /\ WF_vars(Interrupt)
    /\ WF_vars(EndConversion)
    /\ WF_vars((WriterEnds /\ child # "running") /\ UNCHANGED Outside)
    /\ WF_vars((ReaderEnds /\ child # "running") /\ UNCHANGED Outside)
    /\ WF_vars((WaitEnds \/ TranscodeTimeout) /\ UNCHANGED Outside)
    /\ WF_vars((CheckOutput \/ ScanOutput) /\ UNCHANGED Outside)

FairSpec == Spec /\ Fairness

-----------------------------------------------------------------------------
TypeOK ==
    /\ content \in Contents /\ departure \in {"active", "leaving", "departed"}
    /\ pc \in Awaits \cup {"attachments", "emitting", "stopped"}
    /\ index \in 0..Limit /\ cursor \in 0..Len(downloaded) /\ transcodes \in 0..MaxTranscodes
    /\ Len(queue) <= QueueCapacity /\ run \in 1..MaxRuns
    /\ store \in {"stored", "projected"} /\ main \in {"up", "closed", "signalled"}
    /\ permit \in {"free", "ours", "other"} /\ stage \in {"idle", "waiting", "joining", "checking"}
    /\ GifTypeOK

(* In the order in which a session's events of the content reach the adapter, *)
(* the one with the delivery id is the last and the only one, however many    *)
(* attachments were lost on the way; and a content that waits for its         *)
(* acknowledgment has such an event, or the message would occupy a place      *)
(* among the pending projections until the session ends.                      *)
FinalIsLast ==
    LET out == seen \o queue \o plan
    IN  /\ \A i \in DOMAIN out : out[i].id # 0 => i = Len(out)
        /\ pc = "awaiting" /\ main = "up" => out # <<>> /\ out[Len(out)].id = run

(* An event of a kind that the adapter has handled names part i.              *)
Told(kind, i) == \E j \in DOMAIN seen : seen[j].kind = kind /\ i \in seen[j].parts

(* Once the adapter has acknowledged the delivery, it has been given all of   *)
(* the message: its text, every attachment as data or by name, and for each   *)
(* one of an incoming message that was not delivered an error.                *)
WholeBeforeAck ==
    acked =>
      /\ HasText => \E j \in DOMAIN seen : seen[j].kind = "message"
      /\ \A i \in DOMAIN Attachments :
           /\ Told("attachment", i) \/ Told("message", i)
           /\ Outgoing \/ Told("attachment", i) \/ Told("error", i)

(* A video is presented as a GIF only if the child was given all of it,       *)
(* succeeded, and all its output was collected: never after a timeout or from *)
(* output that was cut off.                                                   *)
ConvertedIsWhole == \A k \in DOMAIN downloaded : downloaded[k].type = "gif" => downloaded[k].whole

(* Handling a content ends, also when the child that converts an attachment   *)
(* hangs: the kill closes its pipes and the threads that serve them return.   *)
InHandler ==
    pc \in {"membership", "attachments", "downloading", "converting", "conversion", "emitting"}
HandlingEnds == InHandler ~> ~InHandler

(* A message that waits for its acknowledgment is acknowledged and recorded,  *)
(* unless the session ends.                                                   *)
AckArrives == pc = "awaiting" ~> pc # "awaiting"
=============================================================================
