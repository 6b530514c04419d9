----------------------------- MODULE Transcode -----------------------------
(* transcode_signal_gif_video_blocking of backend/media.rs: one conversion of *)
(* a GIF-style MP4 by an FFmpeg child process, under a lock that all accounts *)
(* of the process share. The blocking thread polls the child; a writer and a  *)
(* reader thread serve its pipes. Nothing stops the blocking thread when the  *)
(* worker that asked for the conversion is shut down: run_worker waits for it *)
(* for two seconds only and the conversion may take fifteen.                  *)
EXTENDS GifCheck

VARIABLES
    permit,    \* SIGNAL_GIF_TRANSCODE_LOCK: "free", "ours" or "other"
    stage,     \* the blocking thread: "idle", "waiting", "joining" or "checking"
    child,     \* "none", "running", "succeeded", "failed"
    writer,    \* "none", "writing", "complete", "broken"
    reader,    \* "none", "reading", "complete", "overflow"
    children,  \* history: transcoders alive in the process, of all accounts
    whole      \* history: the child read all input, succeeded, and no output was cut

transcodeVars == <<permit, stage, child, writer, reader, children, whole, gifVars>>

TranscodeInit ==
    /\ permit = "free" /\ stage = "idle" /\ children = 0 /\ whole = FALSE
    /\ child = "none" /\ writer = "none" /\ reader = "none"
    /\ GifInit

(* try_lock succeeded, FFmpeg was found and both threads were spawned.        *)
Spawn ==
    /\ permit = "free"
    /\ permit' = "ours" /\ stage' = "waiting"
    /\ child' = "running" /\ writer' = "writing" /\ reader' = "reading"
    /\ children' = children + 1 /\ whole' = FALSE
    /\ UNCHANGED gifVars

(* A conversion for another account of the process begins or ends.            *)
OtherAccount ==
    /\ \/ permit = "free" /\ permit' = "other" /\ children' = children + 1
       \/ permit = "other" /\ permit' = "free" /\ children' = children - 1
    /\ UNCHANGED <<stage, child, writer, reader, whole, gifVars>>

(* write_all returns: the child took everything, or its end of the pipe is    *)
(* closed.                                                                    *)
WriterEnds ==
    /\ writer = "writing"
    /\ writer' = IF child = "running" THEN "complete" ELSE "broken"
    /\ UNCHANGED <<permit, stage, child, reader, children, whole, gifVars>>

(* read_transcode_output: the end of the output, or more of it than           *)
(* MAX_INLINE_MEDIA_BYTES, on which it gives up and closes the pipe.          *)
ReaderEnds ==
    /\ reader = "reading"
    /\ \/ /\ child # "running"
          /\ reader' = "complete"
          /\ whole' = (child = "succeeded" /\ writer = "complete")
       \/ /\ reader' = "overflow" /\ UNCHANGED whole
    /\ UNCHANGED <<permit, stage, child, writer, children, gifVars>>

(* FFmpeg exits, before or after it has read all of its input. Nothing makes  *)
(* it exit.                                                                   *)
ChildExits ==
    /\ child = "running"
    /\ child' \in {"succeeded", "failed"}
    /\ children' = children - 1
    /\ UNCHANGED <<permit, stage, writer, reader, whole, gifVars>>

(* try_wait reports the exit.                                                 *)
WaitEnds ==
    /\ stage = "waiting" /\ child # "running"
    /\ stage' = "joining"
    /\ UNCHANGED <<permit, child, writer, reader, children, whole, gifVars>>

(* Mutant: the child is given up and left running.                            *)
StopChildNever == UNCHANGED <<child, children>>

(* stop_transcode_child: kill and wait.                                       *)
StopChild == child' = "failed" /\ children' = children - 1

(* SIGNAL_GIF_TRANSCODE_TIMEOUT passed, or try_wait failed.                   *)
TranscodeTimeout ==
    /\ stage = "waiting" /\ child = "running"
    /\ StopChild
    /\ stage' = "joining"
    /\ UNCHANGED <<permit, writer, reader, whole, gifVars>>

(* Mutant: the exit status is not looked at.                                  *)
UsableAnyStatus == writer = "complete" /\ reader = "complete"

(* The input was written in full, the child succeeded and the output is whole. *)
Usable == writer = "complete" /\ child = "succeeded" /\ reader = "complete"

Joined == stage = "joining" /\ writer # "writing" /\ reader # "reading"

(* The output passes to bounded_inline_gif, still under the lock.             *)
CheckOutput ==
    /\ Joined /\ Usable
    /\ stage' = "checking"
    /\ \E n \in Lengths : BeginScan(n)
    /\ UNCHANGED <<permit, child, writer, reader, children, whole>>

ScanOutput ==
    /\ stage = "checking" /\ Scan
    /\ UNCHANGED <<permit, stage, child, writer, reader, children, whole>>

(* The function returns a GIF, or None.                                       *)
Converts == stage = "checking" /\ scan = "accepted"
GivesUp == (Joined /\ ~Usable) \/ (stage = "checking" /\ scan = "rejected")

Returns ==
    /\ Converts \/ GivesUp
    /\ permit' = "free" /\ stage' = "idle"
    /\ child' = "none" /\ writer' = "none" /\ reader' = "none" /\ whole' = FALSE
    /\ UNCHANGED <<children, gifVars>>

Transcoding ==
    \/ WriterEnds \/ ReaderEnds \/ ChildExits \/ WaitEnds \/ TranscodeTimeout
    \/ CheckOutput \/ ScanOutput

(* The process has at most one FFmpeg child at a time, whichever account      *)
(* asked for it: the lock is held until the child is gone, also when the session that   *)
(* started the conversion was shut down and another one has begun.            *)
OneTranscoder == children <= 1
=============================================================================
