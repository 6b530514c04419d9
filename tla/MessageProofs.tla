---------------------------- MODULE MessageProofs ---------------------------
(* Messages received and messages sent. What the conversion of attachments    *)
(* guarantees for every content, every limit and every number of sessions:    *)
(* bounded_inline_gif never accepts more than its limits, one transcoder runs *)
(* at a time, no GIF is made from a part of the video or of the transcoder's  *)
(* output, and the event that carries the delivery id is the last one of the  *)
(* content and comes after all the others. What the outbox guarantees: a      *)
(* message is accepted twice only for a recorded reason, and one that was     *)
(* sent is marked as such or its user is told. The two have no variable in    *)
(* common and are not composed: each theorem is about one of them.            *)
EXTENDS Content, Outbox, TLAPS

-----------------------------------------------------------------------------
(* The outbox.                                                                *)

(* What the proofs need of the constants and of TypeOK, and where the message *)
(* in hand is.                                                                *)
HandInv ==
    /\ wanted \subseteq Messages /\ rows \subseteq Messages /\ due \subseteq rows
    /\ attempts \in [Messages -> Nat]
    /\ accepted \in [Messages -> Nat] /\ excuses \in [Messages -> Nat]
    /\ told \in [Messages -> SUBSET LastWords]
    /\ step \in {"idle", "saving", "sending", "marking", "finishing", "reporting"}
    /\ step # "idle" => cur \in Messages
    /\ step = "idle" => cur = NoMessage /\ outcome = "none"
    /\ step \in {"sending", "marking", "finishing"} => cur \in rows
    /\ todo \subseteq rows \ {cur}
    /\ step \in {"saving", "sending"} => outcome = "none"
    /\ step = "marking" => outcome = "ok"
    /\ step \in {"finishing", "reporting"} => outcome \in {"ok", "retryable", "permanent"}
    /\ step = "reporting" /\ outcome = "ok" => cur \notin rows

(* A message whose command is to come, or whose row is to be written, has not *)
(* been sent.                                                                 *)
NewInv ==
    /\ \A m \in wanted : m \notin rows /\ m # cur /\ accepted[m] = 0
    /\ step = "saving" => cur \notin rows /\ accepted[cur] = 0

(* While a message can still be attempted, every acceptance of it has its     *)
(* reason; the attempt that succeeded is the one that needs none.             *)
AccountInv ==
    \A m \in Messages :
        /\ accepted[m] <= 1 + excuses[m]
        /\ m \in rows /\ ~(cur = m /\ outcome = "ok") => accepted[m] <= excuses[m]

DuplicateInv == HandInv /\ NewInv /\ AccountInv

(* An empty outbox has sent nothing.                                          *)
LEMMA DuplicateInitially == OutboxInit => DuplicateInv
  BY OutboxAssumption DEF OutboxInit, DuplicateInv, HandInv, NewInv, AccountInv, NoMessage

(* A report adds to what was said of a message, and last words are heard or   *)
(* cut off by the teardown.                                                   *)
LEMMA TellAdds ==
    ASSUME told \in [Messages -> SUBSET LastWords], NEW m \in Messages, NEW what, Tell(m, what)
    PROVE  /\ told' \in [Messages -> SUBSET LastWords]
           /\ cutoff \subseteq cutoff' /\ \A n \in Messages : told[n] \subseteq told'[n]
           /\ what \in LastWords => m \in cutoff' \/ what \in told'[m]
<1> DEFINE said == {what} \cap LastWords
<1>1. said \in SUBSET LastWords /\ (what \in LastWords => what \in said)
  BY Zenon
<1>2. /\ told' = IF open THEN [told EXCEPT ![m] = @ \cup said] ELSE told
      /\ cutoff' = IF ~open /\ what \in LastWords THEN cutoff \cup {m} ELSE cutoff
  BY Zenon DEF Tell
<1> HIDE DEF said
<1>3. CASE open
  <2>1. told' = [told EXCEPT ![m] = @ \cup said]
    BY <1>2, <1>3, Zenon
  <2>2. told' \in [Messages -> SUBSET LastWords]
    BY <1>1, <2>1, Zenon
  <2>3. \A n \in Messages : told[n] \subseteq told'[n]
    BY <2>1, Zenon
  <2>4. told'[m] = told[m] \cup said
    BY <2>1, Zenon
  <2> QED BY <1>1, <1>2, <1>3, <2>2, <2>3, <2>4, Zenon
<1>4. CASE ~open
  BY <1>2, <1>4, Zenon
<1> QED BY <1>3, <1>4, Zenon

(* A group message is begun without a word or refused with one.               *)
LEMMA GroupTells ==
    ASSUME NEW m \in Messages, SendGroupMessage(m)
    PROVE  UNCHANGED reports \/ \E what : Tell(m, what)
  BY Zenon DEF SendGroupMessage

(* A command, a retry pass, or a change of the surroundings begins.           *)
LEMMA IdleSteps ==
    DuplicateInv /\ ( \/ RetryTick \/ AcceptIdentity \/ LeaveGroup \/ IdentityChanges
                      \/ GroupsAuthoritative \/ GroupsPending \/ BeginShutdown
                      \/ \E m \in Messages : BecomeDue(m) \/ SendMessage(m) \/ SendGroupMessage(m) )
      => DuplicateInv'
<1> SUFFICES ASSUME DuplicateInv,
                    \/ RetryTick \/ AcceptIdentity \/ LeaveGroup \/ IdentityChanges
                    \/ GroupsAuthoritative \/ GroupsPending \/ BeginShutdown
                    \/ \E m \in Messages : BecomeDue(m) \/ SendMessage(m) \/ SendGroupMessage(m)
             PROVE  DuplicateInv'
  BY Zenon
<1> USE OutboxAssumption DEF DuplicateInv, HandInv, NewInv, AccountInv, NoMessage, outbox, actor, env, reports,
        history
<1>1. ASSUME step = "idle", UNCHANGED <<wanted, rows, attempts, history>>, due' \subseteq rows,
             NEW ready \in SUBSET rows, NEW a, BeginPass(ready, a)
      PROVE  DuplicateInv'
  <2> DEFINE rest == {m \in ready : Attemptable(m, a)}
  <2>1. NextOf(rest) /\ outcome' = "none" /\ rest \subseteq rows
    BY <1>1, ZenonT(30) DEF BeginPass
  <2> HIDE DEF rest
  <2>2. CASE rest = {} /\ step' = "idle" /\ cur' = NoMessage /\ todo' = {}
    BY <1>1, <2>1, <2>2, Zenon
  <2>3. ASSUME NEW m \in rest, step' = "sending", cur' = m, todo' = rest \ {m}
        PROVE  DuplicateInv'
    BY <1>1, <2>1, <2>3, Zenon
  <2> QED BY <2>1, <2>2, <2>3, Zenon DEF NextOf
<1>2. CASE RetryTick
  BY <1>1, <1>2, Zenon DEF RetryTick
<1>3. CASE AcceptIdentity
  BY <1>1, <1>3, Zenon DEF AcceptIdentity, Expedite
<1>4. CASE LeaveGroup
  BY <1>1, <1>4, Zenon DEF LeaveGroup, Expedite
<1>5. CASE GroupsAuthoritative
  BY <1>1, <1>5, ZenonT(30) DEF GroupsAuthoritative
<1>6. CASE IdentityChanges \/ GroupsPending \/ BeginShutdown
  BY <1>6, Zenon DEF IdentityChanges, GroupsPending, BeginShutdown
<1>7. ASSUME NEW m \in Messages, BecomeDue(m) PROVE DuplicateInv'
  BY <1>7, ZenonT(30) DEF BecomeDue
<1>8. ASSUME NEW m \in Messages, SendMessage(m) PROVE DuplicateInv'
  BY <1>8, Zenon DEF SendMessage, BeginSend
<1>9. ASSUME NEW m \in Messages, SendGroupMessage(m) PROVE DuplicateInv'
  <2>1. CASE BeginSend(m) /\ UNCHANGED reports
    BY <1>9, <2>1, ZenonT(30) DEF SendGroupMessage, BeginSend
  <2>2. CASE UNCHANGED actor
    <3>1. told' \in [Messages -> SUBSET LastWords]
      BY <1>9, GroupTells, TellAdds, Zenon
    <3>2. wanted' \subseteq wanted /\ UNCHANGED <<outbox, actor, accepted, excuses>>
      BY <1>9, <2>2, Zenon DEF SendGroupMessage
    <3>3. HandInv'
      BY <3>1, <3>2, Zenon DEF actor
    <3>4. NewInv' /\ AccountInv'
      BY <3>2, Zenon DEF actor
    <3> QED BY <3>3, <3>4, Zenon
  <2> QED BY <1>9, <2>1, <2>2, ZenonT(30) DEF SendGroupMessage
<1> QED BY <1>2, <1>3, <1>4, <1>5, <1>6, <1>7, <1>8, <1>9, Zenon

(* Accepting a message once more adds at most one to its count.               *)
LEMMA AcceptAddsOne ==
    ASSUME accepted \in [Messages -> Nat], NEW m \in Messages, Accept(m)
    PROVE  /\ accepted' \in [Messages -> Nat]
           /\ accepted'[m] <= accepted[m] + 1
           /\ \A n \in Messages \ {m} : accepted'[n] = accepted[n]
  BY OutboxAssumption DEF Accept, Saturation

(* The attempt in hand goes on, succeeds, fails or is finished.               *)
LEMMA AttemptSteps == DuplicateInv /\ Attempt => DuplicateInv'
<1> SUFFICES ASSUME DuplicateInv, Attempt PROVE DuplicateInv'
  BY Zenon
<1> USE OutboxAssumption DEF DuplicateInv, HandInv, NewInv, AccountInv, NoMessage, outbox, env, reports,
        history
<1>1. CASE Save
  BY <1>1 DEF Save
<1>2. CASE SaveFails
  <2>1. told' \in [Messages -> SUBSET LastWords]
    BY <1>2, TellAdds, Zenon DEF SaveFails
  <2> QED BY <1>2, <2>1, Zenon DEF SaveFails
<1>3. CASE AttemptSucceeds
  BY <1>3, AcceptAddsOne DEF AttemptSucceeds
<1>4. CASE AttemptFails
  <2>1. outcome' \in {"retryable", "permanent"}
    BY <1>4, Zenon DEF AttemptFails, Classify
  <2>2. CASE UNCHANGED <<accepted, excuses>>
    BY <1>4, <2>1, <2>2, Zenon DEF AttemptFails
  <2>3. CASE Accept(cur) /\ Excuse(cur)
    <3>1. /\ excuses' \in [Messages -> Nat] /\ excuses'[cur] = excuses[cur] + 1
          /\ \A n \in Messages \ {cur} : excuses'[n] = excuses[n]
      BY <1>4, <2>3, SMTT(30) DEF AttemptFails, Excuse
    <3> QED BY <1>4, <2>1, <2>3, <3>1, AcceptAddsOne, SMTT(30) DEF AttemptFails
  <2> QED BY <1>4, <2>2, <2>3, Zenon DEF AttemptFails
<1>5. CASE AttemptRefused
  BY <1>5, Zenon DEF AttemptRefused, Classify
<1>6. CASE MarkSent
  <2>1. told' \in [Messages -> SUBSET LastWords]
    BY <1>6, TellAdds, Zenon DEF MarkSent
  <2> QED BY <1>6, <2>1, Zenon DEF MarkSent
<1>7. CASE FinishAttempt
  <2>1. cur \in Messages /\ step' = "reporting" /\ UNCHANGED <<wanted, cur, outcome, todo, told, accepted, excuses>>
    BY <1>7, Zenon DEF FinishAttempt
  <2>2. /\ attempts' \in [Messages -> Nat] /\ due' \subseteq rows'
        /\ rows' \in {rows, rows \ {cur}}
        /\ outcome = "ok" => rows' = rows \ {cur}
    BY <1>7, <2>1 DEF FinishAttempt, Terminal, CompleteRow
  <2> QED BY <1>7, <2>1, <2>2, Zenon DEF FinishAttempt
<1>8. CASE ReportOutcome
  <2>1. told' \in [Messages -> SUBSET LastWords]
    BY <1>8, TellAdds, Zenon DEF ReportOutcome
  <2>2. /\ NextOf(todo) /\ outcome' = "none" /\ UNCHANGED <<wanted, outbox, accepted, excuses>>
        /\ (outcome = "ok" => cur \notin rows)
    BY <1>8, Zenon DEF ReportOutcome
  <2>3. CASE todo = {} /\ step' = "idle" /\ cur' = NoMessage /\ todo' = {}
    BY <2>1, <2>2, <2>3, Zenon
  <2>4. ASSUME NEW m \in todo, step' = "sending", cur' = m, todo' = todo \ {m}
        PROVE  DuplicateInv'
    BY <2>1, <2>2, <2>4, Zenon
  <2> QED BY <2>2, <2>3, <2>4, Zenon DEF NextOf
<1>9. CASE FinishFails
  <2>1. told' \in [Messages -> SUBSET LastWords]
    BY <1>9, TellAdds, Zenon DEF FinishFails
  <2>2. /\ excuses' \in [Messages -> Nat]
        /\ excuses'[cur] = IF outcome = "ok" THEN excuses[cur] + 1 ELSE excuses[cur]
        /\ \A n \in Messages \ {cur} : excuses'[n] = excuses[n]
    BY <1>9, SMTT(30) DEF FinishFails, Excuse
  <2>3. NextOf(todo) /\ outcome' = "none" /\ UNCHANGED <<wanted, outbox, accepted>> /\ cur \in rows
    BY <1>9, Zenon DEF FinishFails
  <2>4. \A m \in rows : accepted[m] <= excuses'[m]
    BY <2>2, <2>3
  <2>5. \A m \in Messages : accepted[m] <= 1 + excuses'[m]
    BY <2>2
  <2>6. CASE todo = {} /\ step' = "idle" /\ cur' = NoMessage /\ todo' = {}
    BY <2>1, <2>2, <2>3, <2>4, <2>5, <2>6, Zenon
  <2>7. ASSUME NEW m \in todo, step' = "sending", cur' = m, todo' = todo \ {m}
        PROVE  DuplicateInv'
    BY <2>1, <2>2, <2>3, <2>4, <2>5, <2>7, Zenon
  <2> QED BY <2>3, <2>6, <2>7, Zenon DEF NextOf
<1> QED BY <1>1, <1>2, <1>3, <1>4, <1>5, <1>6, <1>7, <1>8, <1>9, Zenon DEF Attempt

(* Shutdown after an acceptance and before the row is gone is a reason for    *)
(* another attempt.                                                           *)
LEMMA ShutdownStep == DuplicateInv /\ Shutdown => DuplicateInv'
<1> SUFFICES ASSUME DuplicateInv, Shutdown PROVE DuplicateInv'
  BY Zenon
<1> USE OutboxAssumption DEF DuplicateInv, HandInv, NewInv, AccountInv, NoMessage, outbox
<1>1. /\ step' = "idle" /\ cur' = NoMessage /\ outcome' = "none" /\ todo' = {}
      /\ UNCHANGED <<wanted, rows, attempts, due, told, accepted>>
  BY Zenon DEF Shutdown
<1>2. CASE ~(outcome = "ok" /\ cur \in rows)
  <2>1. UNCHANGED excuses
    BY <1>2, Zenon DEF Shutdown
  <2> QED BY <1>1, <1>2, <2>1, Zenon
<1>3. CASE outcome = "ok" /\ cur \in rows
  <2>1. /\ excuses' \in [Messages -> Nat] /\ excuses'[cur] = excuses[cur] + 1
        /\ \A n \in Messages \ {cur} : excuses'[n] = excuses[n]
    BY <1>3 DEF Shutdown, Excuse
  <2>2. \A m \in Messages : accepted[m] <= 1 + excuses'[m] /\ (m \in rows => accepted[m] <= excuses'[m])
    BY <1>3, <2>1
  <2> QED BY <1>1, <2>1, <2>2, Zenon
<1> QED BY <1>2, <1>3, Zenon

(* Every step of an operation, a fault or a shutdown keeps the account.       *)
LEMMA DuplicateStep == DuplicateInv /\ [OutboxNext]_(outboxVars) => DuplicateInv'
<1>1. DuplicateInv /\ UNCHANGED outboxVars => DuplicateInv'
  BY Zenon DEF DuplicateInv, HandInv, NewInv, AccountInv, outboxVars, outbox, actor,
     reports, history
<1> QED BY <1>1, IdleSteps, AttemptSteps, ShutdownStep, Zenon DEF OutboxNext

(* The outbox sends a message again only after a lost answer, a shutdown      *)
(* between acceptance and deletion, or a refusal of the store, however often  *)
(* it retries.                                                                *)
THEOREM NoUnexplainedDuplicate == OutboxSpec => []DuplicatesExplained
<1>0. OutboxInit => DuplicateInv
  BY DuplicateInitially, Zenon
<1>1. DuplicateInv => DuplicatesExplained
  BY Zenon DEF DuplicateInv, AccountInv, DuplicatesExplained
<1> QED BY <1>0, <1>1, DuplicateStep, PTL DEF OutboxSpec

(* A first attempt is the row's first and is no part of a pass, so it does    *)
(* not exhaust the attempts; an attempt that succeeded is marked, or its      *)
(* failure to be marked reported, before the row may go; and a row that goes  *)
(* without has its last words due.                                            *)
MarkInv ==
    /\ fresh /\ step # "idle" => todo = {}
    /\ fresh /\ step \in {"sending", "marking", "finishing"} => attempts[cur] = 0
    /\ step = "finishing" /\ outcome = "ok" => cur \in marked \/ Heard(cur, LastWords)
    /\ step = "reporting" /\ cur \notin rows =>
          cur \in marked \/ Heard(cur, LastWords) \/ report \in LastWords
    /\ SentIsMarked

(* What was heard stays heard.                                                *)
LEMMA HeardStays ==
    ASSUME NEW m, cutoff \subseteq cutoff', told[m] \subseteq told'[m], Heard(m, LastWords)
    PROVE  Heard(m, LastWords)'
  BY Zenon DEF Heard

(* Whatever the words, a report takes nothing back.                           *)
LEMMA ReportsGrow ==
    ASSUME told \in [Messages -> SUBSET LastWords], NEW m \in Messages,
           UNCHANGED reports \/ \E what : Tell(m, what)
    PROVE  cutoff \subseteq cutoff' /\ \A n \in Messages : told[n] \subseteq told'[n]
  BY TellAdds, Zenon DEF reports

(* A row that is removed without a success has its last words due.            *)
LEMMA RemovalReported ==
    ASSUME DuplicateInv, MarkInv, FinishAttempt, cur \notin rows'
    PROVE  cur \in marked \/ Heard(cur, LastWords) \/ report' \in LastWords
<1> USE DEF DuplicateInv, HandInv, MarkInv
<1>1. cur \in Messages /\ cur \in rows /\ Terminal /\ report' = OutcomeReport
  BY Zenon DEF FinishAttempt
<1>2. CASE outcome = "ok"
  BY <1>2, Zenon DEF FinishAttempt
<1>3. CASE outcome # "ok" /\ fresh
  <2>1. outcome = "permanent"
    BY <1>1, <1>3, OutboxAssumption DEF FinishAttempt, Terminal
  <2> QED BY <1>1, <1>3, <2>1, Zenon DEF OutcomeReport, FailureEvent, LastWords
<1>4. CASE outcome # "ok" /\ ~fresh
  BY <1>1, <1>4, Zenon DEF OutcomeReport, LastWords
<1> QED BY <1>2, <1>3, <1>4, Zenon

(* A row goes only after its message is marked, its user told, or with the    *)
(* report still to come.                                                      *)
LEMMA MarkStep == DuplicateInv /\ MarkInv /\ [OutboxNext]_(outboxVars) => MarkInv'
<1> SUFFICES ASSUME DuplicateInv, MarkInv, [OutboxNext]_(outboxVars) PROVE MarkInv'
  BY Zenon
<1> USE OutboxAssumption DEF DuplicateInv, HandInv, NewInv, MarkInv, SentIsMarked, NoMessage, outbox, actor,
        env, reports, history
<1>1. ASSUME UNCHANGED <<rows, history>>, step = "idle", ~fresh', step' \in {"idle", "sending"}
      PROVE  MarkInv'
  BY <1>1, Zenon DEF Heard
<1>2. ASSUME NEW S, NEW a, BeginPass(S, a) PROVE ~fresh' /\ step' \in {"idle", "sending"}
  BY <1>2, Zenon DEF BeginPass, NextOf
<1>3. CASE RetryTick \/ AcceptIdentity \/ LeaveGroup \/ GroupsAuthoritative
  BY <1>1, <1>2, <1>3, ZenonT(30) DEF RetryTick, AcceptIdentity, LeaveGroup,
     GroupsAuthoritative
<1>4. CASE IdentityChanges \/ GroupsPending \/ BeginShutdown \/ UNCHANGED outboxVars
  <2>1. UNCHANGED <<rows, attempts, step, cur, fresh, outcome, report, todo, accepted, marked, told, cutoff>>
    BY <1>4, Zenon DEF IdentityChanges, GroupsPending, BeginShutdown, outboxVars
  <2> QED BY <2>1, Zenon DEF Heard
<1>5. ASSUME NEW m \in Messages, BecomeDue(m) PROVE MarkInv'
  BY <1>5, Zenon DEF BecomeDue, Heard
<1>6. ASSUME NEW m \in Messages, SendMessage(m) PROVE MarkInv'
  BY <1>6, Zenon DEF SendMessage, BeginSend, Heard
<1>7. ASSUME NEW m \in Messages, SendGroupMessage(m) PROVE MarkInv'
  <2>1. CASE BeginSend(m) /\ UNCHANGED reports
    BY <1>7, <2>1, ZenonT(30) DEF SendGroupMessage, BeginSend, Heard
  <2>2. CASE UNCHANGED actor
    <3>1. \A n \in Messages : Heard(n, LastWords) => Heard(n, LastWords)'
      BY <1>7, GroupTells, ReportsGrow, HeardStays, Zenon
    <3>2. UNCHANGED <<rows, attempts, step, cur, fresh, outcome, report, todo, accepted, marked>>
      BY <1>7, <2>2, Zenon DEF SendGroupMessage
    <3> QED BY <3>1, <3>2, Zenon
  <2> QED BY <1>7, <2>1, <2>2, Zenon DEF SendGroupMessage
<1>8. CASE Save
  BY <1>8, Zenon DEF Save, Heard
<1>9. CASE SaveFails
  <2>1. \A n \in Messages : Heard(n, LastWords) => Heard(n, LastWords)'
    BY <1>9, ReportsGrow, HeardStays, Zenon DEF SaveFails
  <2>2. /\ step = "saving" /\ step' = "idle" /\ ~fresh'
        /\ UNCHANGED <<rows, accepted, marked>>
    BY <1>9, Zenon DEF SaveFails
  <2>3. ~(accepted[cur] > 0)
    BY <2>2
  <2> QED BY <2>1, <2>2, <2>3, Zenon
<1>10. CASE AttemptSucceeds
  BY <1>10, AcceptAddsOne, Zenon DEF AttemptSucceeds, Heard
<1>11. CASE AttemptFails
  <2>1. outcome' # "ok" /\ cur \in rows /\ step' = "finishing"
        /\ \A n \in Messages \ {cur} : accepted'[n] = accepted[n]
    BY <1>11, AcceptAddsOne, Zenon DEF AttemptFails, Classify
  <2> QED BY <1>11, <2>1, Zenon DEF AttemptFails, Heard
<1>12. CASE AttemptRefused
  BY <1>12, Zenon DEF AttemptRefused, Classify, Heard
<1>13. CASE MarkSent
  <2>1. \A n \in Messages : Heard(n, LastWords) => Heard(n, LastWords)'
    BY <1>13, ReportsGrow, HeardStays, Zenon DEF MarkSent
  <2>2. cur \in Messages /\ "unmarked" \in LastWords
    BY <1>13, Zenon DEF MarkSent, LastWords
  <2>3. cur \in marked' \/ Heard(cur, LastWords)'
    BY <1>13, <2>2, TellAdds, Zenon DEF MarkSent, MarkCurrent, Heard
  <2> QED BY <1>13, <2>1, <2>3, Zenon DEF MarkSent, MarkCurrent
<1>14. CASE FinishAttempt
  <2>1. /\ rows \ {cur} \subseteq rows' /\ rows' \subseteq rows /\ step' = "reporting"
        /\ UNCHANGED <<accepted, marked, fresh, cur, todo, told, cutoff>> /\ cur \in rows
    BY <1>14, Zenon DEF FinishAttempt, CompleteRow
  <2>2. cur \notin rows' => cur \in marked \/ Heard(cur, LastWords) \/ report' \in LastWords
    BY <1>14, RemovalReported, Zenon
  <2>3. \A n \in Messages : Heard(n, LastWords)' <=> Heard(n, LastWords)
    BY <2>1, Zenon DEF Heard
  <2>4. step # "idle" /\ cur \in Messages
    BY <1>14, Zenon DEF FinishAttempt
  <2>5. SentIsMarked'
    BY <2>1, <2>3, Zenon
  <2>6. (cur \notin rows => cur \in marked \/ Heard(cur, LastWords) \/ report \in LastWords)'
    BY <2>1, <2>2, <2>3, <2>4, Zenon DEF Heard
  <2> QED BY <2>1, <2>4, <2>5, <2>6, Zenon
<1>15. CASE ReportOutcome
  <2>1. \A n \in Messages : Heard(n, LastWords) => Heard(n, LastWords)'
    BY <1>15, ReportsGrow, HeardStays, Zenon DEF ReportOutcome
  <2>2. \A n \in Messages : n = cur /\ report \in LastWords => Heard(n, LastWords)'
    BY <1>15, TellAdds, Zenon DEF ReportOutcome, Heard
  <2>3. /\ ~fresh' /\ step' \in {"idle", "sending"} /\ step = "reporting"
        /\ UNCHANGED <<rows, accepted, marked>>
    BY <1>15, Zenon DEF ReportOutcome, NextOf
  <2>4. SentIsMarked'
    <3> SUFFICES ASSUME NEW n \in Messages \ rows, accepted[n] > 0
                 PROVE  n \in marked \/ Heard(n, LastWords)'
      BY <2>3, Zenon
    <3>1. CASE n = cur
      BY <2>1, <2>2, <2>3, <3>1, Zenon
    <3>2. CASE n # cur
      BY <2>1, <3>2, Zenon
    <3> QED BY <3>1, <3>2, Zenon
  <2> QED BY <2>3, <2>4, Zenon
<1>16. CASE FinishFails
  <2>1. \A n \in Messages : Heard(n, LastWords) => Heard(n, LastWords)'
    BY <1>16, ReportsGrow, HeardStays, Zenon DEF FinishFails
  <2>2. /\ ~fresh' /\ step' \in {"idle", "sending"} /\ cur \in rows
        /\ UNCHANGED <<rows, accepted, marked>>
    BY <1>16, Zenon DEF FinishFails, NextOf
  <2> QED BY <2>1, <2>2, Zenon
<1>17. CASE Shutdown
  <2>1. /\ step' = "idle" /\ ~fresh' /\ UNCHANGED <<rows, accepted, marked, told>>
        /\ cutoff' = IF report \in LastWords THEN cutoff \cup {cur} ELSE cutoff
    BY <1>17, Zenon DEF Shutdown
  <2>2. \A n \in Messages : Heard(n, LastWords) => Heard(n, LastWords)'
    BY <2>1, Zenon DEF Heard
  <2>3. \A n \in Messages : n = cur /\ report \in LastWords => Heard(n, LastWords)'
    BY <2>1, Zenon DEF Heard
  <2>4. step = "saving" => ~(accepted[cur] > 0)
    OBVIOUS
  <2>5. SentIsMarked'
    <3> SUFFICES ASSUME NEW n \in Messages \ rows, accepted[n] > 0
                 PROVE  n \in marked \/ Heard(n, LastWords)'
      BY <2>1, Zenon
    <3>1. CASE n = cur
      BY <2>2, <2>3, <2>4, <3>1, Zenon
    <3>2. CASE n # cur
      BY <2>2, <3>2, Zenon
    <3> QED BY <3>1, <3>2, Zenon
  <2> QED BY <2>1, <2>5, Zenon
<1> QED BY <1>3, <1>4, <1>5, <1>6, <1>7, <1>8, <1>9, <1>10, <1>11, <1>12, <1>13, <1>14, <1>15, <1>16, <1>17,
        ZenonT(30) DEF OutboxNext, Attempt

(* No sent message leaves the outbox unmarked without the user hearing of it, *)
(* on the first attempt or in a retry, save where a teardown falls between    *)
(* the deletion of its row and the report: the next start would replay it.    *)
THEOREM SentMessagesMarked == OutboxSpec => []SentIsMarked
<1>0. OutboxInit => DuplicateInv
  BY DuplicateInitially, Zenon
<1>1. OutboxInit => MarkInv
  BY DEF OutboxInit, MarkInv, SentIsMarked, NoMessage
<1>2. MarkInv => SentIsMarked
  BY Zenon DEF MarkInv
<1> QED BY <1>0, <1>1, <1>2, DuplicateStep, MarkStep, PTL DEF OutboxSpec

-----------------------------------------------------------------------------
(* The check of a GIF (GifCheck).                                             *)

(* A color table has a natural number of bytes.                               *)
LEMMA TablesAreNat == Tables \subseteq Nat
<1>1. ASSUME NEW b \in 0..7 PROVE PowersOfTwo[b + 1] \in Nat
  <2>1. PowersOfTwo \in [1..8 -> Nat]
    BY DEF PowersOfTwo
  <2>2. b + 1 \in 1..8
    OBVIOUS
  <2> QED BY <2>1, <2>2, Zenon
<1>2. ASSUME NEW b \in TableBits PROVE ColorTable(b) \in Nat
  <2>1. b \in 0..7
    BY GifAssumption, Zenon
  <2> QED BY <1>1, <2>1 DEF ColorTable
<1> QED BY <1>2 DEF Tables

(* The frame check by division bounds the product: n frames within a budget   *)
(* of total \div p have at most total pixels.                                 *)
LEMMA QuotientBoundsProduct ==
    ASSUME NEW n \in Nat, NEW p \in Nat \ {0}, NEW total \in Nat, n <= total \div p
    PROVE  n * p <= total
<1>1. (total \div p) \in Nat /\ (total \div p) * p <= total
  OBVIOUS
<1>2. n * p <= (total \div p) * p
  BY <1>1
<1> QED BY <1>1, <1>2

(* The limits that the header established and every frame respects.           *)
WithinLimits ==
    /\ size <= MaxBytes
    /\ CanvasAllowed(canvas.width, canvas.height)
    /\ frames * Pixels <= MaxPixelFrames

(* The inductive invariant: a scan past the header is within the limits.      *)
GifInv ==
    /\ GifTypeOK
    /\ touched <= size /\ offset <= size
    /\ scan = "header" => offset = 0 /\ frames = 0
    /\ scan \in {"blocks", "subblocks", "accepted"} => WithinLimits
    /\ scan = "accepted" => frames > 0

(* Before the first call nothing has been read.                               *)
LEMMA GifInitially == GifInit => GifInv
  BY DEF GifInit, GifInv, GifTypeOK, NoCanvas, Scanning

(* The canvas of a scan past the header has pixels.                           *)
LEMMA CanvasHasPixels ==
    GifInv /\ scan \in {"blocks", "subblocks", "accepted"} => Pixels \in Nat \ {0}
<1> SUFFICES ASSUME GifInv, scan \in {"blocks", "subblocks", "accepted"}
             PROVE  Pixels \in Nat \ {0}
  BY Zenon
<1> DEFINE w == canvas.width
           h == canvas.height
<1>1. w \in Nat \ {0} /\ h \in Nat \ {0}
  BY Zenon DEF GifInv, GifTypeOK, WithinLimits, CanvasAllowed
<1> HIDE DEF w, h
<1>2. w * h \in Nat \ {0}
  BY <1>1
<1> QED BY <1>2, Zenon DEF Pixels, w, h

(* One more frame that the check lets through stays within the budget.        *)
LEMMA FrameKeepsBudget ==
    GifInv /\ scan = "blocks" /\ FrameAllowed(frames + 1)
      => (frames + 1) * Pixels <= MaxPixelFrames
<1> SUFFICES ASSUME GifInv, scan = "blocks", FrameAllowed(frames + 1)
             PROVE  (frames + 1) * Pixels <= MaxPixelFrames
  BY Zenon
<1>1. Pixels \in Nat \ {0}
  BY CanvasHasPixels, Zenon
<1>2. frames + 1 \in Nat /\ MaxPixelFrames \in Nat
  BY GifAssumption DEF GifInv, GifTypeOK
<1>3. frames + 1 <= MaxPixelFrames \div Pixels
  BY Zenon DEF FrameAllowed
<1> QED BY <1>1, <1>2, <1>3, QuotientBoundsProduct, Zenon

(* Every iteration of the scan, and the call that starts it, keeps GifInv.    *)
LEMMA GifStep == GifInv /\ [GifNext]_gifVars => GifInv'
<1> SUFFICES ASSUME GifInv, [GifNext]_gifVars PROVE GifInv'
  BY Zenon
<1> USE DEF GifTypeOK, Scanning
<1>1. ASSUME NEW n \in Lengths, BeginScan(n) PROVE GifInv'
  <2>1. n \in Nat
    BY GifAssumption, Zenon
  <2> QED BY <1>1, <2>1 DEF BeginScan, GifInv, NoCanvas
<1>2. CASE ReadHeader
  <2>1. CASE Reject
    BY <2>1, Zenon DEF Reject, GifInv
  <2>2. CASE ~Reject
    <3>1. PICK w, h \in Words, table \in Tables :
            /\ size >= 13 /\ size <= MaxBytes
            /\ CanvasAllowed(w, h) /\ AdvanceFits(13, table)
            /\ canvas' = [width |-> w, height |-> h]
            /\ offset' = 13 + table
            /\ touched' = 11 /\ scan' = "blocks" /\ size' = size /\ frames' = frames
      BY <1>2, <2>2, Zenon DEF ReadHeader
    <3>2. w \in Nat /\ h \in Nat /\ table \in Nat
      BY GifAssumption, TablesAreNat, Zenon
    <3>3. frames = 0
      BY <1>2, Zenon DEF ReadHeader, GifInv
    <3>4. CanvasAllowed(w, h)' /\ CanvasAllowed(canvas'.width, canvas'.height)
      BY <3>1, Zenon DEF CanvasAllowed
    <3>5. frames' * Pixels' <= MaxPixelFrames
      <4>1. canvas'.width * canvas'.height \in Nat
        BY <3>1, <3>2
      <4> QED BY <3>1, <3>3, <4>1, GifAssumption DEF Pixels
    <3>6. WithinLimits'
      BY <3>1, <3>4, <3>5, Zenon DEF WithinLimits, CanvasAllowed
    <3>7. offset' \in Nat /\ offset' <= size' /\ touched' \in Nat /\ touched' <= size'
      BY <3>1, <3>2 DEF AdvanceFits, GifInv
    <3>8. GifTypeOK'
      BY <3>1, <3>2, <3>7, Zenon DEF GifInv
    <3> QED BY <3>1, <3>6, <3>7, <3>8, Zenon DEF GifInv
  <2> QED BY <2>1, <2>2, Zenon
<1>3. CASE ReadNoBlock
  BY <1>3 DEF ReadNoBlock, Reject, GifInv
<1>4. CASE ReadTrailer
  <2>1. WithinLimits' = WithinLimits
    BY <1>4, Zenon DEF ReadTrailer, WithinLimits, CanvasAllowed, Pixels
  <2> QED BY <1>4, <2>1 DEF ReadTrailer, GifInv
<1>5. CASE ReadExtension
  <2>1. WithinLimits' = WithinLimits
    BY <1>5, Zenon DEF ReadExtension, WithinLimits, CanvasAllowed, Pixels
  <2> QED BY <1>5, <2>1 DEF ReadExtension, GifInv, AdvanceFits
<1>6. CASE ReadImage
  <2>1. CASE 9 > size - (offset + 1)
    BY <1>6, <2>1 DEF ReadImage, GifInv
  <2>2. CASE ~(9 > size - (offset + 1))
    <3>1. PICK left, top, width, height \in Words, table \in Tables, code \in Bytes :
            LET data == offset + 10 + table
            IN  IF \/ width = 0 \/ left + width > canvas.width
                   \/ height = 0 \/ top + height > canvas.height
                THEN /\ scan' = "rejected" /\ touched' = offset + 10
                     /\ offset' = offset + 10 /\ UNCHANGED frames
                ELSE /\ frames' = frames + 1
                     /\ IF \/ ~FrameAllowed(frames + 1)
                           \/ ~AdvanceFits(offset + 10, table)
                           \/ data >= size
                        THEN /\ scan' = "rejected" /\ touched' = offset + 10
                             /\ offset' = offset + 10
                        ELSE /\ scan' = IF code \in 2..8 THEN "subblocks" ELSE "rejected"
                             /\ touched' = data + 1 /\ offset' = data + 1
      BY <1>6, <2>2, Zenon DEF ReadImage
    <3>2. table \in Nat
      BY TablesAreNat, Zenon
    <3>3. size' = size /\ canvas' = canvas /\ scan = "blocks"
      BY <1>6, Zenon DEF ReadImage
    <3>4. /\ offset' \in Nat /\ touched' \in Nat /\ frames' \in Nat
          /\ offset' <= size /\ touched' <= size
          /\ scan' \in {"rejected", "subblocks"}
      BY <2>2, <3>1, <3>2 DEF GifInv
    <3>5. scan' = "subblocks" => frames' = frames + 1 /\ FrameAllowed(frames + 1)
      BY <3>1, Zenon
    <3>6. scan' = "subblocks" => WithinLimits'
      <4>1. scan' = "subblocks" => frames' * Pixels <= MaxPixelFrames
        BY <3>3, <3>5, FrameKeepsBudget, Zenon
      <4>2. Pixels' = Pixels
        BY <3>3, Zenon DEF Pixels
      <4>3. CanvasAllowed(canvas.width, canvas.height) /\ size <= MaxBytes
        BY <3>3, Zenon DEF GifInv, WithinLimits
      <4> QED BY <3>3, <4>1, <4>2, <4>3, Zenon DEF WithinLimits, CanvasAllowed
    <3> QED BY <3>3, <3>4, <3>6, Zenon DEF GifInv
  <2> QED BY <2>1, <2>2, Zenon
<1>7. CASE SkipSubBlock
  <2>1. CASE offset >= size
    BY <1>7, <2>1, Zenon DEF SkipSubBlock, Reject, GifInv
  <2>2. CASE ~(offset >= size)
    <3>1. WithinLimits' = WithinLimits
      BY <1>7, <2>2, Zenon DEF SkipSubBlock, WithinLimits, CanvasAllowed, Pixels
    <3>2. PICK length \in Bytes :
            \/ /\ length = 0
               /\ scan' = "blocks" /\ offset' = offset + 1
            \/ /\ length > 0 /\ AdvanceFits(offset + 1, length)
               /\ scan' = scan /\ offset' = offset + 1 + length
            \/ /\ length > 0 /\ ~AdvanceFits(offset + 1, length)
               /\ scan' = "rejected" /\ offset' = offset + 1
      BY <1>7, <2>2, Zenon DEF SkipSubBlock
    <3>3. length \in Nat
      BY GifAssumption, Zenon
    <3>4. /\ scan = "subblocks" /\ touched' = offset + 1
          /\ size' = size /\ canvas' = canvas /\ frames' = frames
      BY <1>7, <2>2, Zenon DEF SkipSubBlock
    <3>5. /\ offset' \in Nat /\ offset' <= size /\ touched' \in Nat /\ touched' <= size
          /\ scan' \in {"blocks", "subblocks", "rejected"}
      BY <2>2, <3>2, <3>3, <3>4 DEF GifInv, AdvanceFits
    <3> QED BY <3>1, <3>4, <3>5, Zenon DEF GifInv
  <2> QED BY <2>1, <2>2, Zenon
<1>8. CASE GifReset
  BY <1>8 DEF GifReset, GifInv, NoCanvas
<1>9. CASE UNCHANGED gifVars
  BY <1>9, Zenon DEF gifVars, GifInv, WithinLimits, CanvasAllowed, Pixels
<1> QED BY <1>1, <1>2, <1>3, <1>4, <1>5, <1>6, <1>7, <1>8, <1>9, Zenon DEF GifNext, Scan

(* bounded_inline_gif reads no byte outside its input, and what it accepts    *)
(* respects every limit, on all inputs and for all limits.                    *)
THEOREM GifBounded == GifSpec => []AcceptedIsBounded
<1>1. GifInv => AcceptedIsBounded
  BY Zenon DEF GifInv, AcceptedIsBounded, WithinLimits
<1> QED BY <1>1, GifInitially, GifStep, PTL DEF GifSpec

(* Every iteration that lets the scan go on moves the offset, so the scan of  *)
(* n bytes ends after at most n iterations of its two loops.                  *)
THEOREM GifEnds == GifSpec => ScanAdvances
<1>1. GifInv /\ [GifNext]_gifVars
        => [(scan \in Scanning /\ scan' \in Scanning) => offset' > offset]_gifVars
  <2> SUFFICES ASSUME GifInv, GifNext, scan \in Scanning, scan' \in Scanning
               PROVE  offset' > offset
    BY Zenon
  <2>1. offset \in Nat /\ offset <= size /\ size \in Nat /\ (scan = "header" => offset = 0)
    BY Zenon DEF GifInv, GifTypeOK
  <2> USE DEF Scanning
  <2>2. CASE ReadHeader
    <3>1. PICK table \in Tables : offset' = 13 + table
      BY <2>2, Zenon DEF ReadHeader, Reject
    <3> QED BY <2>1, <2>2, <3>1, TablesAreNat DEF ReadHeader
  <2>3. CASE ReadNoBlock \/ ReadTrailer \/ ReadExtension
    BY <2>1, <2>3 DEF ReadNoBlock, ReadTrailer, ReadExtension, Reject
  <2>4. CASE ReadImage
    <3>1. PICK table \in Tables : offset' = offset + 10 + table + 1
      BY <2>4 DEF ReadImage
    <3> QED BY <2>1, <3>1, TablesAreNat
  <2>5. CASE SkipSubBlock
    <3>1. PICK length \in Bytes : offset' = offset + 1 \/ offset' = offset + 1 + length
      BY <2>5, Zenon DEF SkipSubBlock, Reject
    <3> QED BY <2>1, <3>1, GifAssumption
  <2> QED BY <2>2, <2>3, <2>4, <2>5, Zenon DEF GifNext, Scan, BeginScan, GifReset
<1> QED BY <1>1, GifInitially, GifStep, PTL DEF GifSpec, ScanAdvances

-----------------------------------------------------------------------------
(* The transcoder and the inline content (Transcode, Content).                *)

(* The lock, the child and the count of transcoders move together, across     *)
(* sessions too: the blocking thread keeps the lock until the child is gone.  *)
LockInv ==
    /\ permit \in {"free", "ours", "other"}
    /\ children = IF permit = "other" \/ child = "running" THEN 1 ELSE 0
    /\ permit # "ours" => stage = "idle" /\ child = "none" /\ reader = "none"
    /\ stage \in {"joining", "checking"} => child # "running"

(* The reader saw the end of the output only of a child that had ended, and   *)
(* by then the fate of the input was settled.                                 *)
PipeInv ==
    /\ whole \in BOOLEAN
    /\ reader = "complete" =>
         /\ child # "running"
         /\ child = "succeeded" /\ writer = "complete" => whole
    /\ stage = "checking" => reader = "complete" /\ whole

TranscodeInv == LockInv /\ PipeInv

Pointer == [huge : BOOLEAN, type : {"image", "video", "file"}]
Attachment ==
    [index : Nat, type : {"image", "video", "file", "gif"}, matching : BOOLEAN, whole : BOOLEAN]

(* The downloads are records of attachments of the content.                   *)
DownloadInv ==
    /\ content \in Contents
    /\ index \in Nat
    /\ downloaded \in Seq(Attachment)

ContentInv == TranscodeInv /\ DownloadInv /\ ConvertedIsWhole

(* A process starts with the lock free and nothing downloaded.                *)
LEMMA ContentInitially == Init => ContentInv
<1> SUFFICES ASSUME Init PROVE ContentInv
  BY Zenon
<1>1. TranscodeInv
  BY Zenon DEF Init, TranscodeInit, TranscodeInv, LockInv, PipeInv
<1>2. DownloadInv /\ ConvertedIsWhole
  BY DEF Init, DownloadInv, ConvertedIsWhole
<1> QED BY <1>1, <1>2, Zenon DEF ContentInv

(* Each step of a conversion, of this account or of another one.              *)
LEMMA ConversionSteps ==
    ASSUME TranscodeInv, Transcoding \/ OtherAccount \/ Spawn
    PROVE  TranscodeInv'
<1> USE DEF TranscodeInv, LockInv, PipeInv
<1>1. CASE WriterEnds
  BY <1>1, Zenon DEF WriterEnds
<1>2. CASE ReaderEnds
  <2>1. LockInv'
    BY <1>2, Zenon DEF ReaderEnds
  <2>2. stage' # "checking"
    BY <1>2, Zenon DEF ReaderEnds
  <2>3. CASE reader' = "overflow" /\ UNCHANGED whole
    BY <2>1, <2>2, <2>3, Zenon
  <2>4. CASE child # "running" /\ whole' = (child = "succeeded" /\ writer = "complete")
    <3>1. UNCHANGED <<child, writer>>
      BY <1>2, Zenon DEF ReaderEnds
    <3>2. CASE child = "succeeded" /\ writer = "complete"
      BY <2>1, <2>2, <2>4, <3>1, <3>2, Zenon
    <3>3. CASE ~(child = "succeeded" /\ writer = "complete")
      BY <2>1, <2>2, <2>4, <3>1, <3>3, Zenon
    <3> QED BY <3>2, <3>3, Zenon
  <2> QED BY <1>2, <2>3, <2>4, Zenon DEF ReaderEnds
<1>3. CASE ChildExits
  BY <1>3 DEF ChildExits
<1>4. CASE WaitEnds
  BY <1>4, Zenon DEF WaitEnds
<1>5. CASE TranscodeTimeout
  BY <1>5 DEF TranscodeTimeout, StopChild
<1>6. CASE CheckOutput
  BY <1>6, Zenon DEF CheckOutput, Joined, Usable
<1>7. CASE ScanOutput
  BY <1>7, Zenon DEF ScanOutput
<1>8. CASE OtherAccount
  BY <1>8 DEF OtherAccount
<1>9. CASE Spawn
  <2>1. LockInv'
    <3>1. children = 0
      BY <1>9, Zenon DEF Spawn
    <3> QED BY <1>9, <3>1 DEF Spawn
  <2>2. PipeInv'
    BY <1>9, Zenon DEF Spawn
  <2> QED BY <2>1, <2>2, Zenon
<1> QED BY <1>1, <1>2, <1>3, <1>4, <1>5, <1>6, <1>7, <1>8, <1>9, Zenon DEF Transcoding

(* The blocking thread returns: it holds the lock and its child has ended.    *)
LEMMA ReturnStep == TranscodeInv /\ Returns => TranscodeInv'
  BY Zenon DEF TranscodeInv, LockInv, PipeInv, Returns, Converts, GivesUp, Joined

(* Steps of the actor and the adapter do not touch the conversion.            *)
LEMMA UnchangedConversion == TranscodeInv /\ UNCHANGED transcodeVars => TranscodeInv'
  BY DEF TranscodeInv, LockInv, PipeInv, transcodeVars

(* A downloaded body is appended as it came, the video still a video.         *)
LEMMA DownloadStep == ContentInv /\ Download => (DownloadInv /\ ConvertedIsWhole)'
<1> SUFFICES ASSUME ContentInv, Download PROVE (DownloadInv /\ ConvertedIsWhole)'
  BY Zenon
<1> USE DEF ContentInv, DownloadInv
<1>1. Attachments \in Seq(Pointer)
  BY ContentAssumption DEF Attachments, Pointer
<1>2. index + 1 \in DOMAIN Attachments
  BY <1>1, ContentAssumption DEF Download, Downloading, Limit
<1>3. PICK matching \in BOOLEAN :
        downloaded' = Append(downloaded,
           [index |-> index + 1, type |-> Attachments[index + 1].type,
            matching |-> matching, whole |-> TRUE])
  BY Zenon DEF Download
<1> DEFINE new == [index |-> index + 1, type |-> Attachments[index + 1].type,
                   matching |-> matching, whole |-> TRUE]
<1>4. Attachments[index + 1] \in Pointer
  BY <1>1, <1>2
<1>5. new \in Attachment /\ new.whole
  BY <1>4 DEF Pointer, Attachment
<1> HIDE DEF new
<1>6. downloaded' = Append(downloaded, new)
  BY <1>3, Zenon DEF new
<1>7. DownloadInv'
  BY <1>5, <1>6 DEF Download, Downloading, Idle
<1>8. ConvertedIsWhole'
  BY <1>5, <1>6 DEF ConvertedIsWhole
<1> QED BY <1>7, <1>8, Zenon

(* A finished conversion changes the type of one attachment, if at all, and   *)
(* records whether it was whole, which the scan of its output presupposes.    *)
LEMMA EndConversionStep ==
    ContentInv /\ EndConversion => (DownloadInv /\ ConvertedIsWhole)'
<1> SUFFICES ASSUME ContentInv, EndConversion PROVE (DownloadInv /\ ConvertedIsWhole)'
  BY Zenon
<1>1. UNCHANGED <<content, index>>
  BY Zenon DEF EndConversion
<1>2. CASE UNCHANGED downloaded
  BY <1>1, <1>2, Zenon DEF ContentInv, DownloadInv, ConvertedIsWhole
<1>3. CASE ~ UNCHANGED downloaded
  <2>1. Converts /\ downloaded' = [downloaded EXCEPT ![cursor].type = "gif", ![cursor].whole = whole]
    BY <1>3, Zenon DEF EndConversion
  <2>2. whole = TRUE
    BY <2>1, Zenon DEF ContentInv, TranscodeInv, PipeInv, Converts
  <2>3. downloaded \in Seq(Attachment)
    BY Zenon DEF ContentInv, DownloadInv
  <2>4. cursor \in DOMAIN downloaded
    BY <1>3, <2>1, <2>3
  <2>5. downloaded[cursor] \in Attachment
    BY <2>3, <2>4
  <2> DEFINE new == [[downloaded[cursor] EXCEPT !.type = "gif"] EXCEPT !.whole = TRUE]
  <2>6. new \in Attachment /\ new.whole
    BY <2>5, Zenon DEF Attachment
  <2>7. downloaded' = [downloaded EXCEPT ![cursor] = new]
    BY <2>1, <2>2, <2>3, <2>4, <2>5, Zenon DEF Attachment
  <2> HIDE DEF new
  <2>8. downloaded' \in Seq(Attachment)
    BY <2>3, <2>4, <2>6, <2>7
  <2>9. ConvertedIsWhole'
    BY <2>3, <2>4, <2>6, <2>7, Zenon DEF ContentInv, ConvertedIsWhole
  <2> QED BY <1>1, <2>8, <2>9, Zenon DEF ContentInv, DownloadInv
<1> QED BY <1>2, <1>3, Zenon

(* Every step of a session, its end and the beginning of the next one.        *)
LEMMA ContentStep == ContentInv /\ [Next]_vars => ContentInv'
<1> SUFFICES ASSUME ContentInv, [Next]_vars PROVE ContentInv'
  BY Zenon
<1>1. TranscodeInv
  BY Zenon DEF ContentInv
<1>2. ASSUME UNCHANGED <<content, index, downloaded>>
      PROVE  (DownloadInv /\ ConvertedIsWhole)'
  BY <1>2, Zenon DEF ContentInv, DownloadInv, ConvertedIsWhole
<1>3. CASE Handle
  <2>1. CASE Download
    BY <1>1, <2>1, DownloadStep, UnchangedConversion, Zenon DEF Download, Idle, ContentInv
  <2>2. CASE DownloadFails
    <3>1. UNCHANGED <<content, downloaded, transcodeVars>> /\ index' = index + 1
      BY <2>2, Zenon DEF DownloadFails, Downloading, Idle
    <3> QED BY <1>1, <3>1, UnchangedConversion DEF ContentInv, DownloadInv, ConvertedIsWhole
  <2>3. CASE StartConversion
    <3>1. Spawn /\ UNCHANGED <<content, index, downloaded>>
      BY <2>3, Zenon DEF StartConversion
    <3> QED BY <1>1, <1>2, <3>1, ConversionSteps, Zenon DEF ContentInv
  <2>4. CASE \/ HandleOther \/ HandleMessage \/ ReadMembership \/ BeginDownloads
             \/ DownloadsDone \/ ConversionRefused \/ Compose \/ EmitNext \/ EmissionEnds
    <3>1. Idle /\ UNCHANGED <<index, downloaded>>
      BY <2>4, Zenon DEF HandleOther, HandleMessage, ReadMembership, BeginDownloads, DownloadsDone,
                  ConversionRefused, Compose, EmitNext, EmissionEnds
    <3> QED BY <1>1, <1>2, <3>1, UnchangedConversion, Zenon DEF Idle, ContentInv
  <2> QED BY <1>3, <2>1, <2>2, <2>3, <2>4, Zenon DEF Handle
<1>4. CASE EndConversion
  BY <1>1, <1>4, EndConversionStep, ReturnStep, Zenon DEF EndConversion, ContentInv
<1>5. CASE Convert
  <2>1. UNCHANGED <<content, index, downloaded>>
    BY <1>5, Zenon DEF Convert, Outside, actorVars
  <2> QED BY <1>1, <1>2, <1>5, <2>1, ConversionSteps, Zenon DEF Convert, ContentInv
<1>6. CASE MarkProjected \/ PollEvent \/ CloseEvents \/ SendShutdown
  <2>1. UNCHANGED <<content, index, downloaded, transcodeVars>>
    BY <1>6, Zenon DEF MarkProjected, PollEvent, CloseEvents, SendShutdown, Idle, actorVars
  <2> QED BY <1>1, <1>2, <2>1, UnchangedConversion, Zenon DEF ContentInv
<1>7. CASE Interrupt
  <2>1. UNCHANGED <<content, index, downloaded, transcodeVars>>
    BY <1>7, Zenon DEF Interrupt, PermitOnStop, transcodeVars
  <2> QED BY <1>1, <1>2, <2>1, UnchangedConversion, Zenon DEF ContentInv
<1>8. ASSUME NextSession PROVE (DownloadInv /\ ConvertedIsWhole)'
  BY <1>8 DEF NextSession, ContentInv, DownloadInv, ConvertedIsWhole
<1>9. CASE Reconnect
  BY <1>1, <1>8, <1>9, UnchangedConversion, Zenon DEF Reconnect, ContentInv
<1>10. CASE Crash
  <2>1. TranscodeInv'
    BY <1>10, Zenon DEF Crash, TranscodeInv, LockInv, PipeInv
  <2> QED BY <1>8, <1>10, <2>1, Zenon DEF Crash, ContentInv
<1>11. CASE UNCHANGED vars
  <2>1. UNCHANGED <<content, index, downloaded, transcodeVars>>
    BY <1>11, Zenon DEF vars, actorVars
  <2> QED BY <1>1, <1>2, <2>1, UnchangedConversion, Zenon DEF ContentInv
<1> QED BY <1>3, <1>4, <1>5, <1>6, <1>7, <1>9, <1>10, <1>11, Zenon DEF Next

(* transcode_signal_gif_video_blocking: the process never runs two            *)
(* transcoders, whatever its accounts receive, however long a conversion      *)
(* outlives the session that asked for it, and wherever sessions stop.        *)
THEOREM TranscodersExclude == Spec => []OneTranscoder
<1>1. ContentInv => OneTranscoder
  BY DEF ContentInv, TranscodeInv, LockInv, OneTranscoder
<1> QED BY <1>1, ContentInitially, ContentStep, PTL DEF Spec

(* An attachment shown as a GIF comes from a child that was given the whole   *)
(* video, succeeded, and whose whole output was read, in every interleaving   *)
(* of the writer, the reader, the child's exit and the timeout.               *)
THEOREM GifsAreWhole == Spec => []ConvertedIsWhole
<1>1. ContentInv => ConvertedIsWhole
  BY Zenon DEF ContentInv
<1> QED BY <1>1, ContentInitially, ContentStep, PTL DEF Spec

-----------------------------------------------------------------------------
(* The events of a content (Content): the delivery id and what precedes it.   *)

(* The events of a session of the content, wherever they are.                 *)
Kinds == {"message", "attachment", "error"} \cup {c.form : c \in Contents}
Events == [kind : Kinds, id : Nat, parts : SUBSET Nat]
EventsIn(s) == {s[j] : j \in DOMAIN s}
Out == EventsIn(seen) \cup EventsIn(queue)
Spoken == Out \cup EventsIn(plan)

(* What a set of events says of a content: its text, each of its attachments, *)
(* and for an incoming one the fate of each.                                  *)
Tells(E, kinds, i) == \E e \in E : e.kind \in kinds /\ i \in e.parts
WholeBy(text, files, out, E) ==
    /\ text => \E e \in E : e.kind = "message"
    /\ \A i \in files :
         /\ Tells(E, {"attachment", "message"}, i)
         /\ out \/ Tells(E, {"attachment", "error"}, i)
Whole(E) == WholeBy(HasText, DOMAIN Attachments, Outgoing, E)

Early == {"replay", "membership", "attachments", "downloading", "converting", "conversion"}
Final(s) == s # <<>> /\ s[Len(s)].id = run

SeqTypes ==
    /\ seen \in Seq(Events) /\ queue \in Seq(Events) /\ plan \in Seq(Events)
    /\ run \in Nat \ {0}

(* An event with the delivery id is the last of the sequence it is in, and    *)
(* nothing is behind it.                                                      *)
OrderInv ==
    /\ \A i \in DOMAIN seen : seen[i].id # 0 => i = Len(seen) /\ queue = <<>> /\ plan = <<>>
    /\ \A i \in DOMAIN queue : queue[i].id # 0 => i = Len(queue) /\ plan = <<>>
    /\ \A i \in DOMAIN plan : plan[i].id # 0 => i = Len(plan)

(* No event carries the id before all of them are composed; then, until the   *)
(* event queue is closed, they are the whole content.                         *)
PhaseInv ==
    /\ pc # "emitting" => plan = <<>>
    /\ pc = "stopped" => main # "up"
    /\ pc \in Early => \A e \in Spoken : e.id = 0
    /\ main = "up" /\ pc \notin {"emitting", "awaiting"} => acked \/ \A e \in Spoken : e.id = 0
    /\ main = "up" /\ pc \in {"emitting", "awaiting"} =>
         Whole(Spoken) /\ (Final(seen) \/ Final(queue) \/ Final(plan))
    /\ acked => Whole(EventsIn(seen))

(* Of an incoming message, each attachment looked at was downloaded or        *)
(* reported, and so were those beyond the limit.                              *)
Fetched(i) == \E k \in DOMAIN downloaded : downloaded[k].index = i
FetchInv ==
    /\ pc \in Early \ {"replay"} => HasText \/ Attachments # <<>>
    /\ pc \in {"replay", "membership", "attachments"} => index = 0
    /\ ~Outgoing /\ pc \in {"converting", "conversion"} => index = Limit
    /\ main = "up" /\ ~Outgoing /\ pc \in {"downloading", "converting", "conversion"} =>
         \A i \in DOMAIN Attachments :
           /\ i > MaxDownloads => Tells(Out, {"error"}, i)
           /\ i <= index => Fetched(i) \/ Tells(Out, {"error"}, i)

DeliveryInv == SeqTypes /\ OrderInv /\ PhaseInv /\ FetchInv

(* The events of a sequence and of one that is longer or shorter by one.      *)
LEMMA EventsOfSequences ==
    ASSUME NEW S, NEW s \in Seq(S), NEW t \in Seq(S)
    PROVE  /\ \A e \in S : EventsIn(Append(s, e)) = EventsIn(s) \cup {e}
           /\ s # <<>> => EventsIn(s) = {Head(s)} \cup EventsIn(Tail(s))
           /\ EventsIn(s \o t) = EventsIn(s) \cup EventsIn(t)
<1>1. ASSUME NEW e \in S PROVE EventsIn(Append(s, e)) = EventsIn(s) \cup {e}
  <2> DEFINE a == Append(s, e)
  <2>1. /\ Len(s) \in Nat /\ DOMAIN s = 1 .. Len(s) /\ DOMAIN a = 1 .. (Len(s) + 1)
        /\ a[Len(s) + 1] = e /\ \A i \in 1 .. Len(s) : a[i] = s[i]
    OBVIOUS
  <2> HIDE DEF a
  <2>2. \A x : x \in EventsIn(a) <=> x \in EventsIn(s) \cup {e}
    BY <2>1 DEF EventsIn
  <2> QED BY <2>2, Zenon DEF a
<1>2. ASSUME s # <<>> PROVE EventsIn(s) = {Head(s)} \cup EventsIn(Tail(s))
  <2> DEFINE a == Tail(s)
  <2>1. /\ Len(s) \in Nat \ {0} /\ DOMAIN s = 1 .. Len(s) /\ DOMAIN a = 1 .. (Len(s) - 1)
        /\ Head(s) = s[1] /\ \A i \in 1 .. (Len(s) - 1) : a[i] = s[i + 1]
    BY <1>2
  <2> HIDE DEF a
  <2>2. ASSUME NEW i \in 1 .. Len(s) PROVE s[i] \in {Head(s)} \cup EventsIn(a)
    <3>1. CASE i = 1
      BY <2>1, <3>1, Zenon
    <3>2. CASE i # 1
      <4>1. i - 1 \in DOMAIN a /\ a[i - 1] = s[i]
        BY <2>1, <3>2
      <4> QED BY <4>1, Zenon DEF EventsIn
    <3> QED BY <3>1, <3>2, Zenon
  <2>3. ASSUME NEW i \in 1 .. (Len(s) - 1) PROVE a[i] \in EventsIn(s)
    <3>1. i + 1 \in DOMAIN s /\ a[i] = s[i + 1]
      BY <2>1
    <3> QED BY <3>1, Zenon DEF EventsIn
  <2>4. Head(s) \in EventsIn(s)
    BY <2>1 DEF EventsIn
  <2> QED BY <2>1, <2>2, <2>3, <2>4 DEF EventsIn, a
<1>3. EventsIn(s \o t) = EventsIn(s) \cup EventsIn(t)
  <2> DEFINE a == s \o t
  <2>1. /\ Len(s) \in Nat /\ Len(t) \in Nat /\ DOMAIN s = 1 .. Len(s) /\ DOMAIN t = 1 .. Len(t)
        /\ DOMAIN a = 1 .. (Len(s) + Len(t)) /\ \A i \in 1 .. Len(s) : a[i] = s[i]
        /\ \A i \in (Len(s) + 1) .. (Len(s) + Len(t)) : a[i] = t[i - Len(s)]
    OBVIOUS
  <2> HIDE DEF a
  <2>2. ASSUME NEW i \in DOMAIN a PROVE a[i] \in EventsIn(s) \cup EventsIn(t)
    <3>1. CASE i <= Len(s)
      BY <2>1, <3>1 DEF EventsIn
    <3>2. CASE ~(i <= Len(s))
      <4>1. i - Len(s) \in DOMAIN t /\ a[i] = t[i - Len(s)]
        BY <2>1, <3>2
      <4> QED BY <4>1, Zenon DEF EventsIn
    <3> QED BY <3>1, <3>2, Zenon
  <2>3. ASSUME NEW i \in DOMAIN s PROVE s[i] \in EventsIn(a)
    <3>1. i \in DOMAIN a /\ a[i] = s[i]
      BY <2>1
    <3> QED BY <3>1, Zenon DEF EventsIn
  <2>4. ASSUME NEW i \in DOMAIN t PROVE t[i] \in EventsIn(a)
    <3>1. Len(s) + i \in DOMAIN a /\ a[Len(s) + i] = t[i]
      BY <2>1
    <3> QED BY <3>1, Zenon DEF EventsIn
  <2> QED BY <2>2, <2>3, <2>4, Zenon DEF EventsIn, a
<1> QED BY <1>1, <1>2, <1>3, Zenon

(* The empty sequence has no events.                                          *)
LEMMA NoEvents == EventsIn(<<>>) = {}
  BY DEF EventsIn

(* More events say no less.                                                   *)
LEMMA MoreTellMore ==
    ASSUME NEW E, NEW F, E \subseteq F,
           NEW text, NEW files, NEW out, WholeBy(text, files, out, E)
    PROVE  WholeBy(text, files, out, F)
  BY Zenon DEF WholeBy, Tells


(* What the properties read of a content does not change while it is handled. *)
LEMMA ContentKept ==
    ASSUME UNCHANGED content
    PROVE  UNCHANGED <<HasText, Attachments, Outgoing, CarriesMessage, Limit>>
  BY Zenon DEF HasText, Attachments, Outgoing, CarriesMessage, Limit

(* An emission appends the event, or drops it once the queue is closed.       *)
LEMMA EmitAppends ==
    ASSUME NEW e, Emit(e)
    PROVE  \/ main = "up" /\ queue' = Append(queue, e)
           \/ main # "up" /\ queue' = queue
  BY Zenon DEF Emit, Emitted

(* Until the events are composed, only events without the id are emitted.     *)
LEMMA EarlyStep ==
    ASSUME SeqTypes, OrderInv, PhaseInv, UNCHANGED <<content, run, seen, plan, acked, main>>,
           pc \in Early, pc' \in Early \cup {"marking", "parked"},
           NEW e \in Events, e.id = 0,
           UNCHANGED queue \/ queue' = Append(queue, e)
    PROVE  /\ SeqTypes' /\ OrderInv' /\ PhaseInv'
           /\ Out \subseteq Out' /\ (queue' = Append(queue, e) => e \in Out')
<1>1. /\ seen \in Seq(Events) /\ queue \in Seq(Events) /\ plan \in Seq(Events) /\ queue' \in Seq(Events)
  BY DEF SeqTypes
<1>3. queue' = Append(queue, e) => Out' = Out \cup {e}
  BY <1>1, EventsOfSequences DEF Out
<1>9. UNCHANGED queue => Out' = Out
  BY Zenon DEF Out
<1>2. Out' = Out \/ Out' = Out \cup {e}
  BY <1>3, <1>9, Zenon
<1>4. plan = <<>> /\ \A x \in Spoken : x.id = 0
  BY Zenon DEF PhaseInv, Early
<1>5. \A x \in Spoken' : x.id = 0
  BY <1>2, <1>4, Zenon DEF Spoken
<1>6. SeqTypes'
  BY <1>1, Zenon DEF SeqTypes
<1>7. OrderInv'
  <2>1. /\ \A i \in DOMAIN seen' : seen'[i] \in Spoken'
        /\ \A i \in DOMAIN queue' : queue'[i] \in Spoken'
        /\ \A i \in DOMAIN plan' : plan'[i] \in Spoken'
    BY Zenon DEF Spoken, Out, EventsIn
  <2> QED BY <1>5, <2>1, Zenon DEF OrderInv
<1>8. PhaseInv'
  <2>1. acked' => Whole(EventsIn(seen))'
    BY ContentKept, Zenon DEF PhaseInv, Whole
  <2> QED BY <1>4, <1>5, <2>1, Zenon DEF PhaseInv, Early
<1> QED BY <1>2, <1>3, <1>6, <1>7, <1>8, Zenon

(* The progress of the downloads, when nothing is withdrawn.                  *)
LEMMA FetchKept ==
    ASSUME FetchInv, UNCHANGED <<content, index, main>>, Out \subseteq Out',
           pc' = pc \/ (pc = "converting" /\ pc' = "conversion") \/ (pc = "conversion" /\ pc' = "converting")
                    \/ pc' \notin Early,
           \A i : Fetched(i) => Fetched(i)'
    PROVE  FetchInv'
<1>1. UNCHANGED <<HasText, Attachments, Outgoing, Limit>>
  BY ContentKept, Zenon
<1>2. \A i : Tells(Out, {"error"}, i) => Tells(Out, {"error"}, i)'
  BY Zenon DEF Tells
<1> QED BY <1>1, <1>2, Zenon DEF FetchInv, Early

(* An event is an event of the model.                                         *)
LEMMA EventTyped ==
    ASSUME NEW kind \in Kinds, NEW id \in Nat, NEW parts \in SUBSET Nat
    PROVE  /\ Event(kind, id, parts) \in Events /\ Event(kind, id, parts).id = id
           /\ Event(kind, id, parts).kind = kind /\ Event(kind, id, parts).parts = parts
  BY Zenon DEF Event, Events


(* The handler up to the downloads, and the parts that need none.             *)
LEMMA HandlerSteps ==
    ASSUME ContentInv, DeliveryInv,
           HandleOther \/ HandleMessage \/ ReadMembership
    PROVE  DeliveryInv'
<1>1. /\ UNCHANGED <<content, run, seen, plan, acked, main, index, downloaded>>
      /\ pc \in {"replay", "membership"} /\ pc' \in Early \cup {"marking", "parked"}
      /\ pc' \in Early => pc' \in {"membership", "attachments"}
  BY Zenon DEF HandleOther, HandleMessage, ReadMembership, Idle, Complete, Retry, Early
<1>2. PICK e \in Events : e.id = 0 /\ (UNCHANGED queue \/ queue' = Append(queue, e))
  <2>1. CASE UNCHANGED queue
    <3>1. Event("error", 0, {}) \in Events /\ Event("error", 0, {}).id = 0
      BY EventTyped DEF Kinds
    <3> QED BY <2>1, <3>1, Zenon
  <2>2. CASE ~ UNCHANGED queue
    <3>1. Emit(Event("error", 0, {})) \/ Emit(Event(content.form, 0, {}))
      BY <2>2, Zenon DEF HandleOther, HandleMessage, ReadMembership
    <3>2. content.form \in Kinds
      BY Zenon DEF ContentInv, DownloadInv, Kinds
    <3>3. /\ Event("error", 0, {}) \in Events /\ Event("error", 0, {}).id = 0
          /\ Event(content.form, 0, {}) \in Events /\ Event(content.form, 0, {}).id = 0
      <4>1. "error" \in Kinds /\ 0 \in Nat /\ {} \in SUBSET Nat
        BY Zenon DEF Kinds
      <4> QED BY <3>2, <4>1, EventTyped
    <3> QED BY <3>1, <3>3, EmitAppends, Zenon
  <2> QED BY <2>1, <2>2, Zenon
<1>3. SeqTypes' /\ OrderInv' /\ PhaseInv'
  <2>1. pc \in Early
    BY <1>1, Zenon DEF Early
  <2> QED BY <1>1, <1>2, <2>1, EarlyStep, Zenon DEF DeliveryInv
<1>4. FetchInv'
  <2>1. pc' \in Early => HasText' \/ Attachments' # <<>>
    <3>1. UNCHANGED <<HasText, Attachments>>
      BY <1>1, ContentKept, Zenon
    <3>2. pc' \in Early => HasText \/ Attachments # <<>>
      BY Zenon DEF HandleOther, HandleMessage, ReadMembership, Complete, Retry, DeliveryInv,
         FetchInv, Early
    <3> QED BY <3>1, <3>2, Zenon
  <2>2. index = 0
    BY <1>1, Zenon DEF DeliveryInv, FetchInv
  <2> QED BY <1>1, <2>1, <2>2, Zenon DEF FetchInv, Early
<1> QED BY <1>3, <1>4, Zenon DEF DeliveryInv

(* The loop over the attachments leaves each downloaded or reported.          *)
LEMMA DownloadSteps ==
    ASSUME ContentInv, DeliveryInv,
           BeginDownloads \/ DownloadFails \/ Download \/ DownloadsDone
    PROVE  DeliveryInv'
<1>1. /\ UNCHANGED <<content, run, seen, plan, acked, main>>
      /\ pc \in {"attachments", "downloading"} /\ pc' \in {"downloading", "converting"}
  BY Zenon DEF BeginDownloads, DownloadFails, Download, Downloading, DownloadsDone, Idle,
     adapterVars
<1>2. /\ UNCHANGED <<HasText, Attachments, Outgoing, Limit>> /\ (HasText \/ Attachments # <<>>)
  BY <1>1, ContentKept, Zenon DEF DeliveryInv, FetchInv, Early
<1>3. Attachments \in Seq(Pointer) /\ MaxDownloads \in Nat \ {0} /\ index \in Nat
      /\ downloaded \in Seq(Attachment)
  BY ContentAssumption DEF Attachments, Pointer, ContentInv, DownloadInv
<1>4. /\ Len(Attachments) \in Nat /\ DOMAIN Attachments = 1 .. Len(Attachments)
      /\ Limit = IF Len(Attachments) < MaxDownloads THEN Len(Attachments) ELSE MaxDownloads
  BY <1>3 DEF Limit
<1>5. ASSUME NEW e \in Events, e.id = 0, UNCHANGED queue \/ queue' = Append(queue, e)
      PROVE  /\ SeqTypes' /\ OrderInv' /\ PhaseInv'
             /\ Out \subseteq Out' /\ (queue' = Append(queue, e) => e \in Out')
  <2>1. pc \in Early /\ pc' \in Early
    BY <1>1, Zenon DEF Early
  <2> QED BY <1>1, <1>5, <2>1, EarlyStep, Zenon DEF DeliveryInv
<1>6. ASSUME UNCHANGED queue
      PROVE  SeqTypes' /\ OrderInv' /\ PhaseInv' /\ Out \subseteq Out'
  <2>1. Event("error", 0, {}) \in Events /\ Event("error", 0, {}).id = 0
    BY EventTyped DEF Kinds
  <2>2. Out' = Out
    BY <1>1, <1>6, Zenon DEF Out
  <2> QED BY <1>5, <1>6, <2>1, <2>2, Zenon
<1>7. Out \subseteq Out' => \A i : Tells(Out, {"error"}, i) => Tells(Out, {"error"}, i)'
  BY Zenon DEF Tells
<1>8. CASE BeginDownloads
  <2> DEFINE rest == (MaxDownloads + 1) .. Len(Attachments)
             e == Event("error", 0, rest)
  <2>1. e \in Events /\ e.id = 0 /\ e.kind = "error" /\ e.parts = rest
    <3>1. "error" \in Kinds /\ 0 \in Nat /\ rest \in SUBSET Nat
      BY <1>3, <1>4 DEF Kinds
    <3> HIDE DEF rest
    <3> QED BY <3>1, EventTyped
  <2>2. index' = index /\ index = 0 /\ (pc' = "converting" => Outgoing)
    BY <1>8, Zenon DEF BeginDownloads, DeliveryInv, FetchInv
  <2>3. \/ UNCHANGED queue /\ ~(main = "up" /\ ~Outgoing /\ Len(Attachments) > MaxDownloads)
        \/ queue' = Append(queue, e)
    BY <1>8, EmitAppends, Zenon DEF BeginDownloads
  <2> HIDE DEF e
  <2>4. SeqTypes' /\ OrderInv' /\ PhaseInv' /\ Out \subseteq Out' /\ (queue' = Append(queue, e) => e \in Out')
    BY <1>5, <2>1, <2>3, Zenon
  <2>5. main' = "up" /\ ~Outgoing' => \A i \in DOMAIN Attachments : i > MaxDownloads => Tells(Out', {"error"}, i)
    <3>1. \A i \in DOMAIN Attachments : i > MaxDownloads => i \in rest
      BY <1>3, <1>4
    <3>2. Len(Attachments) > MaxDownloads \/ \A i \in DOMAIN Attachments : ~(i > MaxDownloads)
      BY <1>3, <1>4
    <3> HIDE DEF rest
    <3> QED BY <1>1, <1>2, <2>1, <2>3, <2>4, <3>1, <3>2, Zenon DEF Tells
  <2>6. FetchInv'
    BY <1>1, <1>2, <1>4, <2>2, <2>5 DEF FetchInv, Early
  <2> QED BY <2>4, <2>6, Zenon DEF DeliveryInv
<1>9. CASE DownloadFails
  <2> DEFINE e == Event("error", 0, {index + 1})
  <2>1. e \in Events /\ e.id = 0 /\ e.kind = "error" /\ e.parts = {index + 1}
    <3>1. "error" \in Kinds /\ 0 \in Nat /\ {index + 1} \in SUBSET Nat
      BY <1>3 DEF Kinds
    <3> QED BY <3>1, EventTyped
  <2>2. index' = index + 1 /\ pc' = pc /\ pc = "downloading" /\ downloaded' = downloaded
    BY <1>9, Zenon DEF DownloadFails, Downloading
  <2>3. (UNCHANGED queue /\ main # "up") \/ queue' = Append(queue, e)
    BY <1>9, EmitAppends, Zenon DEF DownloadFails
  <2> HIDE DEF e
  <2>4. SeqTypes' /\ OrderInv' /\ PhaseInv' /\ Out \subseteq Out' /\ (queue' = Append(queue, e) => e \in Out')
    BY <1>5, <2>1, <2>3, Zenon
  <2>5. main = "up" => Tells(Out', {"error"}, index + 1)
    BY <2>1, <2>3, <2>4, Zenon DEF Tells
  <2>6. \A i \in DOMAIN Attachments : i <= index' => i <= index \/ i = index + 1
    BY <1>3, <1>4, <2>2
  <2>7. \A i : Fetched(i)' = Fetched(i)
    BY <2>2, Zenon DEF Fetched
  <2>8. FetchInv'
    BY <1>1, <1>2, <1>7, <2>2, <2>4, <2>5, <2>6, <2>7, Zenon DEF DeliveryInv, FetchInv, Early
  <2> QED BY <2>4, <2>8, Zenon DEF DeliveryInv
<1>10. CASE Download
  <2>1. PICK new : downloaded' = Append(downloaded, new) /\ new.index = index + 1
    BY <1>10 DEF Download
  <2>2. index' = index + 1 /\ pc' = pc /\ pc = "downloading" /\ UNCHANGED queue
    BY <1>10, Zenon DEF Download, Downloading, adapterVars
  <2>3. SeqTypes' /\ OrderInv' /\ PhaseInv' /\ Out \subseteq Out'
    BY <1>6, <2>2, Zenon
  <2>4. /\ DOMAIN downloaded \subseteq DOMAIN downloaded' /\ \A k \in DOMAIN downloaded : downloaded'[k] = downloaded[k]
        /\ Len(downloaded) + 1 \in DOMAIN downloaded' /\ downloaded'[Len(downloaded) + 1] = new
    BY <1>3, <2>1
  <2>5. \A i : Fetched(i) \/ i = index + 1 => Fetched(i)'
    BY <2>1, <2>2, <2>4, Zenon DEF Fetched
  <2>6. \A i \in DOMAIN Attachments : i <= index' => i <= index \/ i = index + 1
    BY <1>3, <1>4, <2>2
  <2>7. FetchInv'
    BY <1>1, <1>2, <1>7, <2>2, <2>3, <2>5, <2>6, Zenon DEF DeliveryInv, FetchInv, Early
  <2> QED BY <2>3, <2>7, Zenon DEF DeliveryInv
<1>11. CASE DownloadsDone
  <2>1. pc = "downloading" /\ index = Limit /\ UNCHANGED <<index, downloaded, queue>> /\ pc' = "converting"
    BY <1>11, Zenon DEF DownloadsDone, adapterVars
  <2>2. SeqTypes' /\ OrderInv' /\ PhaseInv' /\ Out \subseteq Out'
    BY <1>6, <2>1, Zenon
  <2>3. \A i : Fetched(i)' = Fetched(i)
    BY <2>1, Zenon DEF Fetched
  <2>4. FetchInv'
    BY <1>1, <1>2, <1>7, <2>1, <2>2, <2>3, Zenon DEF DeliveryInv, FetchInv, Early
  <2> QED BY <2>2, <2>4, Zenon DEF DeliveryInv
<1> QED BY <1>8, <1>9, <1>10, <1>11, Zenon


(* A conversion changes what an attachment is, not which one it is.           *)
LEMMA ConversionsKeepFetched ==
    ASSUME ContentInv, DeliveryInv,
           StartConversion \/ ConversionRefused \/ EndConversion \/ Convert \/ UNCHANGED vars
    PROVE  DeliveryInv'
<1>1. UNCHANGED <<content, run, seen, plan, acked, main, index, queue>>
  BY Zenon DEF StartConversion, ConversionRefused, EndConversion, Convert, Idle, adapterVars,
     Outside,
         actorVars, vars
<1>2. \/ pc' = pc \/ (pc = "converting" /\ pc' = "conversion") \/ (pc = "conversion" /\ pc' = "converting")
  BY Zenon DEF StartConversion, ConversionRefused, EndConversion, Convert, Outside, actorVars,
     vars
<1>3. Out' = Out /\ Spoken' = Spoken /\ UNCHANGED <<HasText, Attachments, Outgoing, Limit>>
  BY <1>1, ContentKept, Zenon DEF Out, Spoken
<1>4. SeqTypes' /\ OrderInv'
  BY <1>1, Zenon DEF DeliveryInv, SeqTypes, OrderInv
<1>5. PhaseInv'
  <2>1. /\ Whole(Spoken)' = Whole(Spoken) /\ Whole(EventsIn(seen))' = Whole(EventsIn(seen))
        /\ Final(seen)' = Final(seen) /\ Final(queue)' = Final(queue) /\ Final(plan)' = Final(plan)
    BY <1>1, <1>3, Zenon DEF Whole, Final
  <2>2. PhaseInv
    BY Zenon DEF DeliveryInv
  <2> QED BY <1>1, <1>2, <1>3, <2>1, <2>2, Zenon DEF PhaseInv, Early
<1>6. \A i : Fetched(i) => Fetched(i)'
  <2>1. CASE UNCHANGED downloaded
    BY <2>1, Zenon DEF Fetched
  <2>2. CASE ~ UNCHANGED downloaded
    <3>1. downloaded' = [downloaded EXCEPT ![cursor].type = "gif", ![cursor].whole = whole]
      BY <2>2, Zenon DEF StartConversion, ConversionRefused, EndConversion, Convert, Idle,
         Outside, actorVars, vars
    <3>2. downloaded \in Seq(Attachment)
      BY Zenon DEF ContentInv, DownloadInv
    <3>3. \A k \in DOMAIN downloaded : downloaded[k] \in Attachment
      BY <3>2
    <3>4. DOMAIN downloaded' = DOMAIN downloaded
          /\ \A k \in DOMAIN downloaded : downloaded'[k].index = downloaded[k].index
      BY <3>1, <3>2, <3>3, Zenon DEF Attachment
    <3> QED BY <3>4, Zenon DEF Fetched
  <2> QED BY <2>1, <2>2, Zenon
<1>7. FetchInv'
  BY <1>1, <1>2, <1>3, <1>6, FetchKept, Zenon DEF DeliveryInv
<1> QED BY <1>4, <1>5, <1>7, Zenon DEF DeliveryInv

(* The adapter takes an event over; the order of all events stays, and the    *)
(* one with the id comes when the others are there.                           *)
LEMMA PollStep == DeliveryInv /\ PollEvent => DeliveryInv'
<1> SUFFICES ASSUME DeliveryInv, PollEvent PROVE DeliveryInv'
  BY Zenon
<1>1. /\ UNCHANGED <<content, run, plan, main, index, downloaded, pc>> /\ main = "up" /\ queue # <<>>
      /\ queue' = Tail(queue) /\ seen' = Append(seen, Head(queue))
      /\ acked' = (acked \/ Head(queue).id = run)
  BY Zenon DEF PollEvent, Idle, actorVars
<1>2. seen \in Seq(Events) /\ queue \in Seq(Events) /\ plan \in Seq(Events) /\ run \in Nat \ {0}
  BY Zenon DEF DeliveryInv, SeqTypes
<1>3. Head(queue) \in Events /\ queue' \in Seq(Events) /\ seen' \in Seq(Events)
  BY <1>1, <1>2
<1>4. /\ EventsIn(seen') = EventsIn(seen) \cup {Head(queue)}
      /\ EventsIn(queue) = {Head(queue)} \cup EventsIn(queue')
  BY <1>1, <1>2, <1>3, EventsOfSequences
<1>5. Out' = Out /\ Spoken' = Spoken /\ UNCHANGED <<HasText, Attachments, Outgoing, Limit>>
  BY <1>1, <1>4, ContentKept, Zenon DEF Out, Spoken
<1>6. SeqTypes'
  BY <1>1, <1>2, <1>3, Zenon DEF SeqTypes
<1>7. /\ Len(queue) \in Nat \ {0} /\ Head(queue) = queue[1] /\ DOMAIN queue = 1 .. Len(queue)
      /\ Len(queue') = Len(queue) - 1 /\ DOMAIN queue' = 1 .. (Len(queue) - 1)
      /\ \A i \in DOMAIN queue' : queue'[i] = queue[i + 1]
      /\ Len(seen) \in Nat /\ DOMAIN seen = 1 .. Len(seen) /\ Len(seen') = Len(seen) + 1
      /\ DOMAIN seen' = 1 .. (Len(seen) + 1) /\ seen'[Len(seen) + 1] = queue[1]
      /\ \A i \in DOMAIN seen : seen'[i] = seen[i]
  BY <1>1, <1>2
<1>8. OrderInv
  BY Zenon DEF DeliveryInv
<1>9. Head(queue).id # 0 => queue' = <<>> /\ plan = <<>>
  <2>1. Head(queue).id # 0 => Len(queue) = 1 /\ plan = <<>>
    BY <1>7, <1>8 DEF OrderInv
  <2>2. Len(queue) = 1 => queue' = <<>>
    BY <1>3, <1>7
  <2> QED BY <2>1, <2>2, Zenon
<1>10. \A i \in DOMAIN seen : seen[i].id = 0
  BY <1>1, <1>8, Zenon DEF OrderInv
<1>11. OrderInv'
  <2>1. ASSUME NEW i \in DOMAIN seen', seen'[i].id # 0
        PROVE  i = Len(seen') /\ queue' = <<>> /\ plan' = <<>>
    <3>1. i = Len(seen) + 1
      BY <1>7, <1>10, <2>1
    <3> QED BY <1>1, <1>7, <1>9, <2>1, <3>1, Zenon
  <2>2. ASSUME NEW i \in DOMAIN queue', queue'[i].id # 0
        PROVE  i = Len(queue') /\ plan' = <<>>
    <3>1. i + 1 \in DOMAIN queue /\ queue[i + 1].id # 0
      BY <1>7, <2>2
    <3>2. i + 1 = Len(queue) /\ plan = <<>>
      BY <1>8, <3>1, Zenon DEF OrderInv
    <3> QED BY <1>1, <1>7, <3>2
  <2> QED BY <1>1, <1>8, <2>1, <2>2, Zenon DEF OrderInv
<1>12. PhaseInv
  BY Zenon DEF DeliveryInv
<1>13. PhaseInv'
  <2>1. acked' => Whole(EventsIn(seen))'
    <3>1. CASE acked
      BY <1>4, <1>5, <1>12, <3>1, MoreTellMore, Zenon DEF PhaseInv, Whole
    <3>2. CASE ~acked /\ Head(queue).id = run
      <4>1. Head(queue) \in Spoken /\ Head(queue).id # 0
        BY <1>2, <1>4, <3>2, Zenon DEF Spoken, Out
      <4>2. Whole(Spoken)
        BY <1>1, <1>12, <3>2, <4>1, Zenon DEF PhaseInv
      <4>3. Spoken = EventsIn(seen')
        BY <1>4, <1>9, <4>1, NoEvents, Zenon DEF Spoken, Out
      <4> QED BY <1>5, <4>2, <4>3, Zenon DEF Whole
    <3>3. CASE ~acked /\ Head(queue).id # run
      BY <1>1, <3>3, Zenon
    <3> QED BY <3>1, <3>2, <3>3, Zenon
  <2>2. Final(seen) \/ Final(queue) \/ Final(plan) => Final(seen)' \/ Final(queue)' \/ Final(plan)'
    <3>1. CASE Final(seen)
      <4>1. Len(seen) \in DOMAIN seen /\ seen[Len(seen)].id # 0
        BY <1>2, <1>7, <3>1 DEF Final
      <4> QED BY <1>10, <4>1, Zenon
    <3>2. CASE Final(queue)
      <4>1. CASE Len(queue) = 1
        <5>1. seen' # <<>> /\ seen'[Len(seen')] = queue[Len(queue)]
          BY <1>7, <4>1
        <5> QED BY <1>1, <3>2, <5>1, Zenon DEF Final
      <4>2. CASE Len(queue) # 1
        <5>1. Len(queue) - 1 \in DOMAIN queue' /\ queue'[Len(queue')] = queue[Len(queue)]
          BY <1>7, <4>2
        <5> QED BY <1>1, <1>7, <3>2, <5>1 DEF Final
      <4> QED BY <4>1, <4>2, Zenon
    <3>3. Final(plan) => Final(plan)'
      BY <1>1, Zenon DEF Final
    <3> QED BY <3>1, <3>2, <3>3, Zenon
  <2>3. Whole(Spoken) => Whole(Spoken)'
    BY <1>5, Zenon DEF Whole
  <2>4. acked => acked'
    BY <1>1, Zenon
  <2> QED BY <1>1, <1>5, <1>12, <2>1, <2>2, <2>3, <2>4, Zenon DEF PhaseInv
<1>14. FetchInv'
  BY <1>1, <1>5, FetchKept, Zenon DEF DeliveryInv, Fetched
<1> QED BY <1>6, <1>11, <1>13, <1>14, Zenon DEF DeliveryInv


(* Marking, closing, stopping and the next session emit nothing.              *)
LEMMA EndSteps ==
    ASSUME ContentInv, DeliveryInv,
           EmissionEnds \/ MarkProjected \/ CloseEvents \/ SendShutdown \/ Interrupt \/ Reconnect \/ Crash
    PROVE  DeliveryInv'
<1>1. CASE Reconnect \/ Crash
  <2>1. /\ UNCHANGED content /\ run' = run + 1 /\ pc' = "replay" /\ index' = 0 /\ plan' = <<>>
        /\ queue' = <<>> /\ seen' = <<>> /\ acked' = FALSE /\ main' = "up"
    BY <1>1, Zenon DEF Reconnect, Crash, NextSession
  <2>2. Spoken' = {}
    BY <2>1, NoEvents, Zenon DEF Spoken, Out
  <2>3. SeqTypes' /\ OrderInv'
    BY <2>1 DEF DeliveryInv, SeqTypes, OrderInv
  <2>4. PhaseInv' /\ FetchInv'
    BY <2>1, <2>2, Zenon DEF PhaseInv, FetchInv, Early
  <2> QED BY <2>3, <2>4, Zenon DEF DeliveryInv
<1>2. CASE EmissionEnds \/ MarkProjected \/ CloseEvents \/ SendShutdown \/ Interrupt
  <2>1. UNCHANGED <<content, run, seen, plan, acked, index, downloaded, queue>>
    BY <1>2, Zenon DEF EmissionEnds, MarkProjected, CloseEvents, SendShutdown, Interrupt, Idle,
       adapterVars, actorVars
  <2>2. /\ main' = main \/ main' # "up"
        /\ \/ pc' = pc
           \/ pc = "emitting" /\ plan = <<>> /\ pc' = "awaiting"
           \/ (pc = "marking" \/ (pc = "awaiting" /\ acked)) /\ pc' \in {"recorded", "parked"}
           \/ pc' = "stopped" /\ main = "signalled" /\ main' = main /\ pc # "emitting"
    BY <1>2, Zenon DEF EmissionEnds, MarkProjected, CloseEvents, SendShutdown, Interrupt, Idle,
       adapterVars, actorVars,
                Awaits
  <2>3. Out' = Out /\ Spoken' = Spoken /\ UNCHANGED <<HasText, Attachments, Outgoing, Limit>>
    BY <2>1, ContentKept, Zenon DEF Out, Spoken
  <2>4. SeqTypes' /\ OrderInv'
    BY <2>1, Zenon DEF DeliveryInv, SeqTypes, OrderInv
  <2>5. /\ Whole(Spoken)' = Whole(Spoken) /\ Whole(EventsIn(seen))' = Whole(EventsIn(seen))
        /\ Final(seen)' = Final(seen) /\ Final(queue)' = Final(queue) /\ Final(plan)' = Final(plan)
    BY <2>1, <2>3, Zenon DEF Whole, Final
  <2>6. PhaseInv /\ FetchInv
    BY Zenon DEF DeliveryInv
  <2>7. PhaseInv'
    BY <2>1, <2>2, <2>3, <2>5, <2>6, Zenon DEF PhaseInv, Early
  <2>8. \A i : /\ Fetched(i)' = Fetched(i)
               /\ Tells(Out, {"error"}, i)' = Tells(Out, {"error"}, i)
    BY <2>1, <2>3, Zenon DEF Fetched, Tells
  <2>9. FetchInv'
    <3>1. pc' \in Early => pc' = pc
      BY <2>2, Zenon DEF Early
    <3>2. main' = "up" => main = "up"
      BY <2>2, Zenon
    <3> QED BY <2>1, <2>3, <2>6, <2>8, <3>1, <3>2, Zenon DEF FetchInv, Early
  <2> QED BY <2>4, <2>7, <2>9, Zenon DEF DeliveryInv
<1> QED BY <1>1, <1>2, Zenon

(* An event of the composed ones passes to the queue, or is dropped.          *)
LEMMA EmitStep == DeliveryInv /\ EmitNext => DeliveryInv'
<1> SUFFICES ASSUME DeliveryInv, EmitNext PROVE DeliveryInv'
  BY Zenon
<1>1. /\ UNCHANGED <<content, run, seen, acked, main, index, downloaded, pc>> /\ pc = "emitting"
      /\ plan # <<>> /\ plan' = Tail(plan)
      /\ \/ main = "up" /\ queue' = Append(queue, Head(plan))
         \/ main # "up" /\ queue' = queue
  BY EmitAppends, Zenon DEF EmitNext, Idle
<1>2. seen \in Seq(Events) /\ queue \in Seq(Events) /\ plan \in Seq(Events) /\ run \in Nat \ {0}
  BY Zenon DEF DeliveryInv, SeqTypes
<1>3. Head(plan) \in Events /\ plan' \in Seq(Events) /\ queue' \in Seq(Events)
  <2>1. Head(plan) \in Events /\ plan' \in Seq(Events)
    BY <1>1, <1>2
  <2>2. Append(queue, Head(plan)) \in Seq(Events)
    BY <1>2, <2>1
  <2> QED BY <1>1, <1>2, <2>1, <2>2, Zenon
<1>4. SeqTypes'
  BY <1>1, <1>2, <1>3, Zenon DEF SeqTypes
<1>5. OrderInv /\ PhaseInv
  BY Zenon DEF DeliveryInv
<1>6. /\ Len(plan) \in Nat \ {0} /\ Head(plan) = plan[1] /\ DOMAIN plan = 1 .. Len(plan)
      /\ Len(plan') = Len(plan) - 1 /\ DOMAIN plan' = 1 .. (Len(plan) - 1)
      /\ \A i \in DOMAIN plan' : plan'[i] = plan[i + 1]
  BY <1>1, <1>2
<1>7. Head(plan).id # 0 => plan' = <<>> /\ Len(plan) = 1
  BY <1>3, <1>5, <1>6 DEF OrderInv
<1>8. /\ \A i \in DOMAIN seen : seen[i].id = 0
      /\ \A i \in DOMAIN queue : queue[i].id = 0
  BY <1>1, <1>5, Zenon DEF OrderInv
<1>9. \A i \in DOMAIN plan' : plan'[i].id # 0 => i = Len(plan')
  BY <1>5, <1>6 DEF OrderInv
<1>10. \A i \in DOMAIN queue' : queue'[i].id # 0 => i = Len(queue') /\ plan' = <<>>
  <2>1. CASE queue' = queue
    BY <1>8, <2>1, Zenon
  <2>2. CASE queue' = Append(queue, Head(plan))
    <3>1. /\ Len(queue) \in Nat /\ DOMAIN queue = 1 .. Len(queue) /\ Len(queue') = Len(queue) + 1
          /\ DOMAIN queue' = 1 .. (Len(queue) + 1) /\ queue'[Len(queue) + 1] = Head(plan)
          /\ \A i \in DOMAIN queue : queue'[i] = queue[i]
      BY <1>2, <1>3, <2>2
    <3> QED BY <1>7, <1>8, <3>1
  <2> QED BY <1>1, <2>1, <2>2, Zenon
<1>11. OrderInv'
  BY <1>1, <1>8, <1>9, <1>10, Zenon DEF OrderInv
<1>12. UNCHANGED <<HasText, Attachments, Outgoing, Limit>>
  BY <1>1, ContentKept, Zenon
<1>13. PhaseInv'
  <2>1. acked' => Whole(EventsIn(seen))'
    BY <1>1, <1>5, <1>12, Zenon DEF PhaseInv, Whole
  <2>2. ASSUME main = "up"
        PROVE  Whole(Spoken)' /\ (Final(seen)' \/ Final(queue)' \/ Final(plan)')
    <3>1. queue' = Append(queue, Head(plan))
      BY <1>1, <2>2, Zenon
    <3>2. /\ EventsIn(queue') = EventsIn(queue) \cup {Head(plan)}
          /\ EventsIn(plan) = {Head(plan)} \cup EventsIn(plan')
      BY <1>1, <1>2, <1>3, <3>1, EventsOfSequences
    <3>3. Spoken' = Spoken
      BY <1>1, <3>2, Zenon DEF Spoken, Out
    <3>4. Whole(Spoken) /\ (Final(seen) \/ Final(queue) \/ Final(plan))
      BY <1>1, <1>5, <2>2, Zenon DEF PhaseInv
    <3>5. ~Final(seen) /\ ~Final(queue)
      BY <1>2, <1>8 DEF Final
    <3>6. Final(plan) => Final(queue)' \/ Final(plan)'
      <4>1. CASE Len(plan) = 1
        <5>1. queue' # <<>> /\ queue'[Len(queue')] = plan[1]
          BY <1>2, <1>3, <1>6, <3>1
        <5> QED BY <1>1, <4>1, <5>1, Zenon DEF Final
      <4>2. CASE Len(plan) # 1
        <5>1. Len(plan) - 1 \in DOMAIN plan' /\ plan'[Len(plan')] = plan[Len(plan)] /\ plan' # <<>>
          BY <1>6, <4>2
        <5> QED BY <1>1, <5>1, Zenon DEF Final
      <4> QED BY <4>1, <4>2, Zenon
    <3> QED BY <1>12, <3>3, <3>4, <3>5, <3>6, Zenon DEF Whole
  <2> QED BY <1>1, <2>1, <2>2, Zenon DEF PhaseInv, Early
<1>14. FetchInv'
  BY <1>1, <1>12, Zenon DEF FetchInv, Early
<1> QED BY <1>4, <1>11, <1>13, <1>14, Zenon DEF DeliveryInv


(* The composed events: a message if there is anything to say in one, then    *)
(* one event for each downloaded attachment, the id on the last of them all.  *)
LEMMA ComposeStep == ContentInv /\ DeliveryInv /\ Compose => DeliveryInv'
<1> SUFFICES ASSUME ContentInv, DeliveryInv, Compose PROVE DeliveryInv'
  BY Zenon
<1> DEFINE M == MessageEvents
           A == AttachmentEvents
           n == Len(downloaded)
<1>1. /\ UNCHANGED <<content, run, seen, queue, acked, main, index, downloaded>>
      /\ pc = "converting" /\ pc' = "emitting" /\ plan' = M \o A
  BY Zenon DEF Compose, Idle, adapterVars
<1>2. /\ seen \in Seq(Events) /\ queue \in Seq(Events) /\ run \in Nat \ {0}
      /\ downloaded \in Seq(Attachment) /\ n \in Nat /\ DOMAIN downloaded = 1 .. n
      /\ Attachments \in Seq(Pointer)
  BY ContentAssumption DEF DeliveryInv, SeqTypes, ContentInv, DownloadInv, Attachments,
     Pointer
<1>3. /\ OrderInv /\ PhaseInv /\ FetchInv /\ (\A e \in Spoken : e.id = 0)
      /\ (HasText \/ Attachments # <<>>)
  BY <1>1, Zenon DEF DeliveryInv, PhaseInv, FetchInv, Early
<1>4. ASSUME NEW k \in 1 .. n
      PROVE  /\ A[k] \in Events /\ A[k].id = (IF k = n THEN run ELSE 0) /\ A[k].kind = "attachment"
             /\ A[k].parts = {downloaded[k].index}
  <2>1. downloaded[k].index \in Nat
    <3>1. downloaded[k] \in Attachment
      BY <1>2
    <3> QED BY <3>1, Zenon DEF Attachment
  <2>2. /\ "attachment" \in Kinds /\ {downloaded[k].index} \in SUBSET Nat
        /\ (IF k = n THEN run ELSE 0) \in Nat
    BY <1>2, <2>1, Zenon DEF Kinds
  <2>3. A[k] = Event("attachment", IF k = n THEN run ELSE 0, {downloaded[k].index})
    BY <1>2, Zenon DEF AttachmentEvents
  <2> HIDE DEF A, n
  <2> QED BY <2>2, <2>3, EventTyped
<1>5. A \in Seq(Events) /\ Len(A) = n /\ DOMAIN A = 1 .. n
  <2>1. A = [k \in 1 .. n |-> A[k]]
    BY <1>2, Zenon DEF AttachmentEvents
  <2> HIDE DEF A, n
  <2>2. A \in [1 .. n -> Events]
    BY <1>4, <2>1, Zenon
  <2> QED BY <1>2, <2>2
<1>6. /\ MessageId = (IF n = 0 THEN run ELSE 0)
      /\ Placeholders \in SUBSET Nat
  <2>1. downloaded = <<>> <=> n = 0
    BY <1>2
  <2>2. DOMAIN Attachments \subseteq Nat
    BY <1>2
  <2> QED BY <2>1, <2>2, Zenon DEF MessageId, Placeholders
<1> DEFINE m == Event("message", MessageId, Placeholders)
<1>7. /\ m \in Events /\ m.kind = "message" /\ m.parts = Placeholders
      /\ m.id = (IF n = 0 THEN run ELSE 0)
  <2>1. "message" \in Kinds /\ MessageId \in Nat
    BY <1>2, <1>6, Zenon DEF Kinds
  <2> QED BY <1>6, <2>1, EventTyped
<1>8. M = (IF HasText \/ Placeholders # {} THEN <<m>> ELSE <<>>)
  BY Zenon DEF MessageEvents
<1>9. n = 0 => HasText \/ Placeholders # {}
  <2>1. n = 0 => Inline = {}
    BY <1>2 DEF Inline
  <2>2. Attachments # <<>> => DOMAIN Attachments # {}
    <3>1. Attachments # <<>> => 1 \in DOMAIN Attachments
      BY <1>2
    <3> QED BY <3>1, Zenon
  <2> QED BY <1>3, <2>1, <2>2, Zenon DEF Placeholders
<1>10. \A i \in DOMAIN Attachments :
         /\ i \in Placeholders \/ \E k \in 1 .. n : downloaded[k].index = i
         /\ Fetched(i) => \E k \in 1 .. n : downloaded[k].index = i
  BY <1>2, Zenon DEF Placeholders, Inline, Fetched
<1> HIDE DEF M, A, n, m
<1>11. M \in Seq(Events) /\ Len(M) \in {0, 1} /\ (Len(M) = 0 => n # 0)
       /\ (Len(M) = 1 => M = <<m>>)
  BY <1>7, <1>8, <1>9
<1>12. plan' \in Seq(Events) /\ Len(plan') = Len(M) + n /\ DOMAIN plan' = 1 .. (Len(M) + n)
       /\ (\A i \in 1 .. Len(M) : plan'[i] = M[i])
       /\ \A i \in (Len(M) + 1) .. (Len(M) + n) : plan'[i] = A[i - Len(M)]
  <2>1. /\ (M \o A) \in Seq(Events) /\ Len((M \o A)) = Len(M) + Len(A)
        /\ DOMAIN (M \o A) = 1 .. (Len(M) + Len(A))
        /\ \A i \in 1 .. Len(M) : (M \o A)[i] = M[i]
        /\ \A i \in (Len(M) + 1) .. (Len(M) + Len(A)) : (M \o A)[i] = A[i - Len(M)]
    <3>1. M \in Seq(Events) /\ A \in Seq(Events)
      BY <1>5, <1>11, Zenon
    <3> QED BY <3>1
  <2> QED BY <1>1, <1>5, <2>1, Zenon
<1>13. SeqTypes'
  BY <1>1, <1>2, <1>12, Zenon DEF SeqTypes
<1>14. OrderInv'
  <2>1. /\ \A i \in DOMAIN seen' : seen'[i].id = 0
        /\ \A i \in DOMAIN queue' : queue'[i].id = 0
    BY <1>1, <1>3, Zenon DEF Spoken, Out, EventsIn
  <2>2. ASSUME NEW i \in DOMAIN plan', plan'[i].id # 0 PROVE i = Len(plan')
    <3>1. CASE i <= Len(M)
      <4>1. Len(M) = 1 /\ i = 1 /\ M[1] = m /\ plan'[i] = m
        BY <1>2, <1>11, <1>12, <3>1
      <4>2. n = 0
        BY <1>7, <2>2, <4>1, Zenon
      <4> QED BY <1>12, <4>1, <4>2
    <3>2. CASE ~(i <= Len(M))
      <4>1. i - Len(M) \in 1 .. n /\ plan'[i] = A[i - Len(M)]
        <5>1. i \in (Len(M) + 1) .. (Len(M) + n) /\ i - Len(M) \in 1 .. n
          BY <1>2, <1>11, <1>12, <3>2
        <5> QED BY <1>12, <5>1, Zenon
      <4>2. i - Len(M) = n
        BY <1>4, <2>2, <4>1, Zenon
      <4> QED BY <1>2, <1>11, <1>12, <4>2
    <3> QED BY <3>1, <3>2, Zenon
  <2> QED BY <2>1, <2>2, Zenon DEF OrderInv
<1>15. Final(plan)'
  <2>1. CASE n = 0
    <3>1. Len(plan') = 1 /\ plan'[1] = m
      BY <1>11, <1>12, <2>1
    <3> QED BY <1>1, <1>7, <2>1, <3>1 DEF Final
  <2>2. CASE n # 0
    <3>1. n \in 1 .. n /\ Len(plan') # 0 /\ plan'[Len(plan')] = A[n]
      BY <1>2, <1>11, <1>12, <2>2
    <3>2. plan' # <<>>
      BY <3>1
    <3> QED BY <1>1, <1>4, <3>1, <3>2, Zenon DEF Final
  <2> QED BY <2>1, <2>2, Zenon
<1>16. UNCHANGED <<HasText, Attachments, Outgoing, Limit>> /\ Out' = Out
  BY <1>1, ContentKept, Zenon DEF Out
<1>17. /\ HasText \/ Placeholders # {} => m \in Spoken'
       /\ \A k \in 1 .. n : A[k] \in Spoken'
       /\ Out \subseteq Spoken'
  <2>1. EventsIn(plan') = EventsIn(M) \cup EventsIn(A)
    BY <1>1, <1>5, <1>11, EventsOfSequences
  <2>2. HasText \/ Placeholders # {} => m \in EventsIn(M)
    <3>1. m \in EventsIn(<<m>>)
      BY DEF EventsIn
    <3> QED BY <1>8, <3>1, Zenon
  <2>3. \A k \in 1 .. n : A[k] \in EventsIn(A)
    BY <1>5, Zenon DEF EventsIn
  <2> QED BY <1>16, <2>1, <2>2, <2>3, Zenon DEF Spoken
<1>18. ASSUME main = "up" PROVE Whole(Spoken)'
  <2> DEFINE E == Spoken'
  <2>1. HasText => \E e \in E : e.kind = "message"
    BY <1>7, <1>17, Zenon
  <2>2. ASSUME NEW i \in DOMAIN Attachments, \E k \in 1 .. n : downloaded[k].index = i
        PROVE  Tells(E, {"attachment", "message"}, i) /\ Tells(E, {"attachment", "error"}, i)
    <3>1. PICK k \in 1 .. n : downloaded[k].index = i
      BY <2>2, Zenon
    <3>2. A[k] \in E /\ A[k].kind = "attachment" /\ i \in A[k].parts
      BY <1>4, <1>17, <3>1, Zenon
    <3> HIDE DEF E
    <3> QED BY <3>2, Zenon DEF Tells
  <2>3. ASSUME NEW i \in DOMAIN Attachments PROVE Tells(E, {"attachment", "message"}, i)
    <3>1. CASE i \in Placeholders
      <4>1. m \in E /\ i \in m.parts
        BY <1>7, <1>17, <3>1, Zenon
      <4> HIDE DEF E
      <4> QED BY <1>7, <4>1, Zenon DEF Tells
    <3> QED BY <1>10, <2>2, <3>1, Zenon
  <2>4. ASSUME NEW i \in DOMAIN Attachments, ~Outgoing PROVE Tells(E, {"attachment", "error"}, i)
    <3>1. /\ i > MaxDownloads => Tells(Out, {"error"}, i)
          /\ i <= index => Fetched(i) \/ Tells(Out, {"error"}, i)
          /\ index = Limit
      BY <1>1, <1>3, <1>18, <2>4, Zenon DEF FetchInv
    <3>2. i > MaxDownloads \/ i <= index
      BY <1>2, <3>1, ContentAssumption DEF Limit
    <3>3. Tells(Out, {"error"}, i) => Tells(E, {"attachment", "error"}, i)
      BY <1>17, Zenon DEF Tells
    <3>4. Fetched(i) => Tells(E, {"attachment", "error"}, i)
      BY <1>10, <2>2, Zenon
    <3> QED BY <3>1, <3>2, <3>3, <3>4, Zenon
  <2> QED BY <1>16, <2>1, <2>3, <2>4, Zenon DEF Whole, WholeBy
<1>19. PhaseInv'
  <2>1. acked' => Whole(EventsIn(seen))'
    BY <1>1, <1>3, <1>16, Zenon DEF PhaseInv, Whole
  <2> QED BY <1>1, <1>15, <1>18, <2>1, Zenon DEF PhaseInv, Early
<1>20. FetchInv'
  BY <1>1, Zenon DEF FetchInv, Early
<1> QED BY <1>13, <1>14, <1>19, <1>20, Zenon DEF DeliveryInv

(* Every step keeps the events in order and complete.                         *)
LEMMA DeliveryStep == ContentInv /\ DeliveryInv /\ [Next]_vars => DeliveryInv'
  BY HandlerSteps, DownloadSteps, ConversionsKeepFetched, PollStep, EndSteps, EmitStep,
     ComposeStep, Zenon
  DEF Next, Handle

(* A session starts without events.                                           *)
LEMMA DeliveryInitially == Init => DeliveryInv
<1> SUFFICES ASSUME Init PROVE DeliveryInv
  BY Zenon
<1>1. Spoken = {}
  BY NoEvents, Zenon DEF Init, Spoken, Out
<1>2. SeqTypes /\ OrderInv
  BY DEF Init, SeqTypes, OrderInv
<1>3. PhaseInv /\ FetchInv
  BY <1>1, Zenon DEF Init, PhaseInv, FetchInv, Early
<1> QED BY <1>2, <1>3, Zenon DEF DeliveryInv

(* The event that carries the delivery id is the last one of the content, in  *)
(* every order of downloads, failures, emissions and polls; and a content     *)
(* that waits for its acknowledgment has one (message_delivery_id and the     *)
(* loop over the attachments in emit_data_message).                           *)
THEOREM DeliveryIdIsLast == Spec => []FinalIsLast
<1>1. DeliveryInv => FinalIsLast
  <2> SUFFICES ASSUME DeliveryInv PROVE FinalIsLast
    BY Zenon
  <2> DEFINE out == seen \o queue \o plan
             a == Len(seen)
             b == Len(queue)
             c == Len(plan)
  <2>1. seen \in Seq(Events) /\ queue \in Seq(Events) /\ plan \in Seq(Events) /\ run \in Nat \ {0}
    BY Zenon DEF DeliveryInv, SeqTypes
  <2>2. a \in Nat /\ b \in Nat /\ c \in Nat
    BY <2>1
  <2>3. /\ out \in Seq(Events) /\ Len(out) = a + b + c /\ DOMAIN out = 1 .. (a + b + c)
        /\ \A i \in 1 .. a : out[i] = seen[i]
        /\ \A i \in (a + 1) .. (a + b) : out[i] = queue[i - a]
        /\ \A i \in (a + b + 1) .. (a + b + c) : out[i] = plan[i - (a + b)]
    <3> DEFINE pre == seen \o queue
    <3>1. /\ pre \in Seq(Events) /\ Len(pre) = a + b
          /\ \A i \in 1 .. a : pre[i] = seen[i]
          /\ \A i \in (a + 1) .. (a + b) : pre[i] = queue[i - a]
      BY <2>1
    <3>2. out = pre \o plan
      BY Zenon
    <3> HIDE DEF pre, out
    <3>3. /\ out \in Seq(Events) /\ Len(out) = Len(pre) + c /\ DOMAIN out = 1 .. (Len(pre) + c)
          /\ \A i \in 1 .. Len(pre) : out[i] = pre[i]
          /\ \A i \in (Len(pre) + 1) .. (Len(pre) + c) : out[i] = plan[i - Len(pre)]
      <4>1. /\ (pre \o plan) \in Seq(Events) /\ Len((pre \o plan)) = Len(pre) + Len(plan)
            /\ DOMAIN (pre \o plan) = 1 .. (Len(pre) + Len(plan))
            /\ \A i \in 1 .. Len(pre) : (pre \o plan)[i] = pre[i]
            /\ \A i \in (Len(pre) + 1) .. (Len(pre) + Len(plan)) : (pre \o plan)[i] = plan[i - Len(pre)]
        <5>1. pre \in Seq(Events) /\ plan \in Seq(Events)
          BY <2>1, <3>1, Zenon
        <5> QED BY <5>1
      <4> QED BY <3>2, <4>1, Zenon
    <3> HIDE DEF a, b, c
    <3> QED BY <2>2, <3>1, <3>3
  <2> HIDE DEF out
  <2>4. /\ DOMAIN seen = 1 .. a /\ DOMAIN queue = 1 .. b /\ DOMAIN plan = 1 .. c
        /\ (queue = <<>> <=> b = 0) /\ (plan = <<>> <=> c = 0) /\ (seen = <<>> <=> a = 0)
    BY <2>1
  <2>5. OrderInv /\ PhaseInv
    BY Zenon DEF DeliveryInv
  <2>6. ASSUME NEW i \in DOMAIN out, out[i].id # 0 PROVE i = Len(out)
    <3>1. CASE i \in 1 .. a
      <4>1. i = a /\ b = 0 /\ c = 0
        BY <2>3, <2>4, <2>5, <2>6, <3>1, Zenon DEF OrderInv
      <4> QED BY <2>2, <2>3, <4>1
    <3>2. CASE i \in (a + 1) .. (a + b)
      <4>1. i - a \in DOMAIN queue /\ queue[i - a].id # 0
        BY <2>2, <2>3, <2>4, <2>6, <3>2
      <4>2. i - a = b /\ c = 0
        BY <2>4, <2>5, <4>1, Zenon DEF OrderInv
      <4> QED BY <2>2, <2>3, <3>2, <4>2
    <3>3. CASE i \in (a + b + 1) .. (a + b + c)
      <4>1. i - (a + b) \in DOMAIN plan /\ plan[i - (a + b)].id # 0
        BY <2>2, <2>3, <2>4, <2>6, <3>3
      <4>2. i - (a + b) = c
        BY <2>5, <4>1, Zenon DEF OrderInv
      <4> QED BY <2>2, <2>3, <3>3, <4>2
    <3> HIDE DEF a, b, c
    <3> QED BY <2>2, <2>3, <3>1, <3>2, <3>3
  <2>7. ASSUME pc = "awaiting", main = "up" PROVE out # <<>> /\ out[Len(out)].id = run
    <3>1. plan = <<>> /\ c = 0 /\ (Final(seen) \/ Final(queue))
      BY <2>4, <2>5, <2>7, Zenon DEF PhaseInv, Final
    <3>2. CASE Final(queue)
      <4>1. b # 0 /\ out[a + b] = queue[b]
        BY <2>2, <2>3, <2>4, <3>2 DEF Final
      <4>2. Len(out) = a + b /\ Len(out) # 0
        BY <2>2, <2>3, <3>1, <4>1
      <4> QED BY <2>3, <3>2, <4>1, <4>2 DEF Final
    <3>3. CASE Final(seen)
      <4>1. a # 0 /\ a \in DOMAIN seen /\ seen[a].id # 0
        BY <2>1, <2>2, <2>4, <3>3 DEF Final
      <4>2. b = 0
        BY <2>4, <2>5, <4>1, Zenon DEF OrderInv
      <4>3. Len(out) = a /\ Len(out) # 0 /\ out[a] = seen[a]
        BY <2>2, <2>3, <3>1, <4>1, <4>2
      <4> QED BY <2>3, <3>3, <4>1, <4>3 DEF Final
    <3> QED BY <3>1, <3>2, <3>3, Zenon
  <2> QED BY <2>6, <2>7, Zenon DEF FinalIsLast, out
<1> QED BY <1>1, ContentInitially, ContentStep, DeliveryInitially, DeliveryStep, PTL DEF Spec

(* An acknowledged delivery was complete: the adapter had been given the      *)
(* text, every attachment as data or by name, and an error for each one of an *)
(* incoming message that could not be fetched, before the event that it       *)
(* acknowledged.                                                              *)
THEOREM AcknowledgedWhole == Spec => []WholeBeforeAck
<1>1. DeliveryInv => WholeBeforeAck
  <2> SUFFICES ASSUME DeliveryInv, acked PROVE WholeBeforeAck
    BY Zenon DEF WholeBeforeAck
  <2>1. WholeBy(HasText, DOMAIN Attachments, Outgoing, EventsIn(seen))
    BY Zenon DEF DeliveryInv, PhaseInv, Whole
  <2>2. HasText => \E j \in DOMAIN seen : seen[j].kind = "message"
    BY <2>1, Zenon DEF WholeBy, EventsIn
  <2>3. ASSUME NEW i \in DOMAIN Attachments
        PROVE  /\ Told("attachment", i) \/ Told("message", i)
               /\ Outgoing \/ Told("attachment", i) \/ Told("error", i)
    BY <2>1 DEF WholeBy, EventsIn, Tells, Told
  <2> QED BY <2>2, <2>3, Zenon DEF WholeBeforeAck
<1> QED BY <1>1, ContentInitially, ContentStep, DeliveryInitially, DeliveryStep, PTL DEF Spec


(* What bounded_inline_gif accepts stays within its limits (AcceptedIsBounded) *)
(* as the conversions call it, one after the other and across sessions: every  *)
(* step of the content is one of the scan or leaves it alone.                  *)
THEOREM ConversionsBounded == Spec => []AcceptedIsBounded
<1>1. Init => GifInit
  BY Zenon DEF Init, TranscodeInit
<1>2. [Next]_vars => [GifNext]_gifVars
  <2> SUFFICES ASSUME [Next]_vars PROVE [GifNext]_gifVars
    BY Zenon
  <2>1. ASSUME UNCHANGED transcodeVars PROVE UNCHANGED gifVars
    BY <2>1, Zenon DEF transcodeVars
  <2>2. CASE Convert
    BY <2>2, Zenon DEF Convert, Transcoding, WriterEnds, ReaderEnds, ChildExits, WaitEnds,
       TranscodeTimeout,
                CheckOutput, ScanOutput, OtherAccount, GifNext
  <2>3. CASE Handle
    BY <2>1, <2>3, Zenon DEF Handle, HandleOther, HandleMessage, ReadMembership, BeginDownloads,
       DownloadFails,
                      Download, DownloadsDone, StartConversion, Spawn, ConversionRefused, Compose,
                      EmitNext, EmissionEnds, Idle
  <2>4. CASE EndConversion
    BY <2>4, Zenon DEF EndConversion, Returns
  <2>5. CASE MarkProjected \/ PollEvent \/ CloseEvents \/ SendShutdown \/ Interrupt
    BY <2>1, <2>5, Zenon DEF MarkProjected, PollEvent, CloseEvents, SendShutdown, Interrupt, Idle
  <2>6. CASE Reconnect \/ Crash
    BY <2>1, <2>6, Zenon DEF Reconnect, Crash, GifNext
  <2>7. CASE UNCHANGED vars
    BY <2>1, <2>7, Zenon DEF vars
  <2> QED BY <2>2, <2>3, <2>4, <2>5, <2>6, <2>7, Zenon DEF Next
<1> QED BY <1>1, <1>2, GifBounded, PTL DEF Spec, GifSpec
=============================================================================
