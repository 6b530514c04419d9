--------------------------- MODULE SessionProofs ---------------------------
(* Proofs about the life of a core: commands are taken up in the order in     *)
(* which they were accepted and none is lost or doubled, Purple knows of      *)
(* every failed request before it hears that the connection is gone, and the  *)
(* adapter's view of readiness follows the worker's.  Constants are           *)
(* arbitrary: any set of kinds, any channel length, any number of commands,   *)
(* failures and clock readings.                                               *)
EXTENDS Session, FiniteSetTheorems, TLAPS

(* Commands as the adapter submits them, the entries of handled, and events.  *)
Commands == [id : Nat \ {0}, kind : Kinds]
Entries == [id : Nat \ {0}, timestamp : Nat]
EventKinds == {"LinkQr", "Ready", "Recovering", "Answer", "RequestError", "Fatal"}
Events == [kind : EventKinds, id : Nat]

(* The ids of a queue grow from its head to its end.                          *)
Rising(s) == \A i, j \in DOMAIN s : i < j => s[i].id < s[j].id

(* Every id of a set is below every id of another.                            *)
Before(S, T) == \A x \in S, y \in T : x < y

QueueShape ==
    /\ call \in Commands \cup {NoCall}
    /\ channel \in Seq(Commands) /\ deferred \in Seq(Commands)
    /\ handled \in Seq(Entries)
    /\ accepted \in Nat /\ latest \in Nat
    /\ IsFiniteSet(failed) /\ IsFiniteSet(ignored)

(* Where the ids are: handled before deferred before the channel, all of them *)
(* accepted, and an id given up is in no queue any more.                      *)
Ordered ==
    /\ Rising(channel) /\ Rising(deferred) /\ Rising(handled)
    /\ Before(IdsIn(deferred), IdsIn(channel))
    /\ Before(IdsIn(handled), IdsIn(channel)) /\ Before(IdsIn(handled), IdsIn(deferred))
    /\ Before(failed \cup ignored, IdsIn(channel))
    /\ (failed \cup ignored) \cap IdsIn(deferred) = {}
    /\ IdsIn(channel) \cup IdsIn(deferred) \cup IdsIn(handled) \cup failed \cup ignored
         \subseteq 1 .. accepted
    /\ call # NoCall => call.id = accepted + 1

(* The timestamps taken grow and the allocator remembers the last of them.    *)
Stamped ==
    /\ \A i \in DOMAIN handled : handled[i].timestamp <= latest
    /\ \A i, j \in DOMAIN handled :
         i < j /\ handled[i].timestamp > 0 /\ handled[j].timestamp > 0
           => handled[i].timestamp < handled[j].timestamp

(* Each accepted command is in one place until the worker has ended.          *)
Counted ==
    worker # "ended" =>
      /\ IdsIn(channel) \cup IdsIn(deferred) \cup IdsIn(handled) \cup failed \cup ignored
           = 1 .. accepted
      /\ Len(channel) + Len(deferred) + Len(handled)
           + Cardinality(failed) + Cardinality(ignored) = accepted

(* The ids whose failure is still in the event queue.                         *)
Untold(s) == {s[i].id : i \in {j \in DOMAIN s : s[j].kind = "RequestError"}}

(* Before the core exists nothing has happened.                               *)
Unborn ==
    core = "none" => /\ worker = "none" /\ events = <<>> /\ failed = {}
                     /\ shown = "none" /\ ready = FALSE

Told ==
    /\ core = "live" => failed \subseteq reported \cup Untold(events)
    /\ qr # "failed" =>
         /\ \A i \in DOMAIN events :
              events[i].kind = "Fatal" => worker = "ended" /\ i = Len(events)
         /\ purple = "error" => worker \in {"none", "ended"} /\ failed \subseteq reported

(* The last of READY and RECOVERING that the adapter will have seen, once it  *)
(* has handled the events s after having seen the mark seen, is the mark k.   *)
Marks == {"Ready", "Recovering"}
Tells(s, seen, k) ==
    \/ \E i \in DOMAIN s : /\ s[i].kind = k /\ k \in Marks
                           /\ \A j \in DOMAIN s : i < j => s[j].kind \notin Marks
    \/ seen = k /\ \A j \in DOMAIN s : s[j].kind \notin Marks

Agreed ==
    /\ ready => phase = "Ready" /\ worker \in {"readying", "dispatch", "handling"}
    /\ worker = "leaving" => phase = "Recovering"
    /\ core = "live" /\ worker = "readying" => ready
    /\ core = "live" /\ polling /\ worker # "ended" =>
         /\ worker # "leaving" => (Tells(events, shown, "Ready") <=> ready /\ worker # "readying")
         /\ Tells(events, shown, "Recovering")
               => (phase = "Recovering" /\ worker # "leaving") \/ worker = "readying"

(* The delay last waited for is the one before the next of the table.         *)
Waited ==
    /\ drained => backoff = 0
    /\ worker # "ended" /\ ~ drained
         /\ (failures > 1 \/ (failures = 1 /\ worker \notin {"leaving", "recovering"}))
         => backoff > 0 /\ delay = IF backoff - 1 < Delays THEN backoff - 1 ELSE Delays - 1

(* The three parts of the inductive invariant.                                *)
QueueInv == QueueShape /\ Ordered /\ Stamped /\ Counted
EventInv == events \in Seq(Events) /\ Unborn /\ Told /\ Agreed
WaitInv == {backoff, delay, failures} \subseteq Nat /\ Waited

-----------------------------------------------------------------------------
(* Queues of records with an id.                                              *)

(* The empty queue.                                                           *)
LEMMA IdsEmpty == IdsIn(<<>>) = {} /\ Rising(<<>>)
  BY DEF IdsIn, Rising

(* Taking the first entry.                                                    *)
LEMMA IdsTail ==
    ASSUME NEW S, NEW s \in Seq(S), s # <<>>
    PROVE  /\ Head(s) \in S /\ Tail(s) \in Seq(S) /\ Len(Tail(s)) = Len(s) - 1
           /\ IdsIn(s) = {Head(s).id} \cup IdsIn(Tail(s))
           /\ Rising(s) => Rising(Tail(s)) /\ Before({Head(s).id}, IdsIn(Tail(s)))
<1>1. /\ Head(s) \in S /\ Tail(s) \in Seq(S) /\ Len(Tail(s)) = Len(s) - 1
      /\ \A i \in 1 .. Len(s) - 1 : Tail(s)[i] = s[i + 1]
      /\ Head(s) = s[1] /\ Len(s) \in Nat \ {0}
  OBVIOUS
<1>2. DOMAIN s = 1 .. Len(s) /\ DOMAIN Tail(s) = 1 .. Len(s) - 1
  BY <1>1
<1>3. \A i \in DOMAIN Tail(s) : i + 1 \in DOMAIN s /\ 1 < i + 1 /\ s[i + 1] = Tail(s)[i]
  BY <1>1, <1>2
<1>4. \A i \in DOMAIN s : i = 1 \/ (i - 1 \in DOMAIN Tail(s) /\ s[i] = Tail(s)[i - 1])
  BY <1>1, <1>2
<1>5. 1 \in DOMAIN s
  BY <1>1, <1>2
<1>6. ASSUME NEW x, x \in IdsIn(s) PROVE x = Head(s).id \/ x \in IdsIn(Tail(s))
  <2>1. PICK i \in DOMAIN s : x = s[i].id
    BY <1>6, Zenon DEF IdsIn
  <2>2. CASE i = 1
    BY <2>1, <2>2, <1>1, Zenon
  <2>3. CASE i - 1 \in DOMAIN Tail(s) /\ s[i] = Tail(s)[i - 1]
    BY <2>1, <2>3, Zenon DEF IdsIn
  <2> QED BY <2>2, <2>3, <1>4, Zenon
<1>7. ASSUME NEW x, x \in IdsIn(Tail(s)) PROVE x \in IdsIn(s)
  <2>1. PICK i \in DOMAIN Tail(s) : x = Tail(s)[i].id
    BY <1>7, Zenon DEF IdsIn
  <2> QED BY <2>1, <1>3, Zenon DEF IdsIn
<1>8. Head(s).id \in IdsIn(s)
  BY <1>1, <1>5, Zenon DEF IdsIn
<1>9. IdsIn(s) = {Head(s).id} \cup IdsIn(Tail(s))
  BY <1>6, <1>7, <1>8, Zenon
<1>10. ASSUME Rising(s) PROVE Rising(Tail(s))
  <2> SUFFICES ASSUME NEW i \in DOMAIN Tail(s), NEW j \in DOMAIN Tail(s), i < j
               PROVE  Tail(s)[i].id < Tail(s)[j].id
    BY Zenon DEF Rising
  <2>1. i + 1 < j + 1
    BY <1>2, <1>1
  <2> QED BY <2>1, <1>3, <1>10, Zenon DEF Rising
<1>11. ASSUME Rising(s) PROVE Before({Head(s).id}, IdsIn(Tail(s)))
  <2> SUFFICES ASSUME NEW x \in IdsIn(Tail(s)) PROVE Head(s).id < x
    BY Zenon DEF Before
  <2>1. PICK i \in DOMAIN Tail(s) : x = Tail(s)[i].id
    BY Zenon DEF IdsIn
  <2> QED BY <2>1, <1>1, <1>3, <1>5, <1>11, Zenon DEF Rising
<1> QED BY <1>1, <1>9, <1>10, <1>11, Zenon

(* Adding an entry at the end.                                                *)
LEMMA IdsAppend ==
    ASSUME NEW S, NEW s \in Seq(S), NEW e \in S
    PROVE  /\ Append(s, e) \in Seq(S) /\ Len(Append(s, e)) = Len(s) + 1
           /\ IdsIn(Append(s, e)) = IdsIn(s) \cup {e.id}
           /\ Rising(s) /\ Before(IdsIn(s), {e.id}) => Rising(Append(s, e))
<1> DEFINE t == Append(s, e)
<1>1. /\ t \in Seq(S) /\ Len(t) = Len(s) + 1 /\ Len(s) \in Nat
      /\ \A i \in 1 .. Len(s) : t[i] = s[i]
      /\ t[Len(s) + 1] = e
  OBVIOUS
<1>2. DOMAIN s = 1 .. Len(s) /\ DOMAIN t = 1 .. Len(s) + 1
  BY <1>1
<1> HIDE DEF t
<1>3. \A i \in DOMAIN s : i \in DOMAIN t /\ t[i] = s[i]
  BY <1>1, <1>2
<1>4. Len(s) + 1 \in DOMAIN t
  BY <1>1, <1>2
<1>5. \A i \in DOMAIN t : i = Len(s) + 1 \/ i \in DOMAIN s
  BY <1>1, <1>2
<1>6. ASSUME NEW x, x \in IdsIn(t) PROVE x = e.id \/ x \in IdsIn(s)
  <2>1. PICK i \in DOMAIN t : x = t[i].id
    BY <1>6, Zenon DEF IdsIn
  <2>2. CASE i = Len(s) + 1
    BY <2>1, <2>2, <1>1, Zenon
  <2>3. CASE i \in DOMAIN s
    BY <2>1, <2>3, <1>3, Zenon DEF IdsIn
  <2> QED BY <2>2, <2>3, <1>5, Zenon
<1>7. ASSUME NEW x, x \in IdsIn(s) PROVE x \in IdsIn(t)
  <2>1. PICK i \in DOMAIN s : x = s[i].id
    BY <1>7, Zenon DEF IdsIn
  <2> QED BY <2>1, <1>3, Zenon DEF IdsIn
<1>8. e.id \in IdsIn(t)
  BY <1>1, <1>4, Zenon DEF IdsIn
<1>9. ASSUME Rising(s), Before(IdsIn(s), {e.id}) PROVE Rising(t)
  <2> SUFFICES ASSUME NEW i \in DOMAIN t, NEW j \in DOMAIN t, i < j
               PROVE  t[i].id < t[j].id
    BY Zenon DEF Rising
  <2>1. i \in DOMAIN s
    BY <1>1, <1>2, <1>5
  <2>2. CASE j \in DOMAIN s
    BY <2>1, <2>2, <1>3, <1>9, Zenon DEF Rising
  <2>3. CASE j = Len(s) + 1
    <3>1. s[i].id \in IdsIn(s)
      BY <2>1, Zenon DEF IdsIn
    <3> QED BY <3>1, <2>1, <2>3, <1>1, <1>3, <1>9, Zenon DEF Before
  <2> QED BY <2>2, <2>3, <1>5, Zenon
<1>10. IdsIn(t) = IdsIn(s) \cup {e.id}
  BY <1>6, <1>7, <1>8, Zenon
<1> QED BY <1>1, <1>9, <1>10, Zenon DEF t

-----------------------------------------------------------------------------
(* The steps that touch the queues of commands.                               *)

(* Steps that leave the queues alone, the calls of the adapter among them.    *)
Kept ==
    /\ UNCHANGED <<channel, deferred, accepted, handled, failed, ignored, latest>>
    /\ worker = "ended" => worker' = "ended"
    /\ call' \in {call, NoCall} \cup {[id |-> accepted + 1, kind |-> k] : k \in Kinds}

(* The steps that end the worker.                                             *)
Ended ==
    /\ worker' = "ended" /\ channel' = <<>> /\ deferred' = <<>>
    /\ UNCHANGED <<accepted, handled, failed, ignored, latest, call>>

(* Every step is of one of six kinds.                                         *)
LEMMA QueueSteps ==
    ASSUME Unborn, [Next]_vars
    PROVE  Kept \/ Ended \/ TrySend \/ ReceiveRecoveryCommand \/ FailDeferred \/ TakeCommand
<1> USE DEF Kept, Ended, vars, adapterVars, queueVars, sessionVars, backoffVars
<1>1. CASE UNCHANGED vars
  BY <1>1, Zenon
<1>2. CASE New \/ PollEvent \/ Shutdown \/ Free
  BY <1>2, Zenon DEF New, PollEvent, Shutdown, Free, Unborn
<1>3. ASSUME NEW k \in Kinds, Calling(k) PROVE Kept
  BY <1>3, Zenon DEF Calling
<1>4. CASE SendMessage \/ LeaveGroup \/ SetTyping \/ MarkRead \/ ControlIdentity
  BY <1>3, <1>4, Zenon DEF SendMessage, LeaveGroup, SetTyping, MarkRead, ControlIdentity,
                    QueueCommand, QueueControlCommand
<1>5. ASSUME NEW from, NEW to, Goto(from, to), from # "ended" PROVE Kept
  BY <1>5, Zenon DEF Goto
<1>6. ASSUME NEW es, End(es) PROVE Ended
  BY <1>6, Zenon DEF End
<1>7. CASE Stop \/ Panic \/ GiveUp
  BY <1>6, <1>7, Zenon DEF Stop, Panic, GiveUp, Fail
<1>8. CASE OpenStore \/ CheckRegistered \/ LoadRegistered \/ LinkDevice \/ InitializeSubsystems
  BY <1>5, <1>6, <1>8, Zenon DEF OpenStore, CheckRegistered, LoadRegistered, LinkDevice,
                          InitializeSubsystems, Fail
<1>9. CASE DelayElapses \/ StartReceiving
  BY <1>5, <1>9, Zenon DEF DelayElapses, StartReceiving
<1>10. CASE StartFailsTransiently \/ LoseStream \/ StartFails \/ WaitOutRecovery
  BY <1>10, Zenon DEF StartFailsTransiently, LoseStream, StartFails, WaitOutRecovery, EnterRecovery
<1>11. CASE ShowQr \/ BecomeReady \/ AnnounceReady \/ AnnounceRecovering \/ QueueEmpty \/ FinishCommand
  BY <1>11, Zenon DEF ShowQr, BecomeReady, AnnounceReady, AnnounceRecovering, QueueEmpty, FinishCommand
<1> QED
  BY <1>1, <1>2, <1>4, <1>7, <1>8, <1>9, <1>10, <1>11, Zenon DEF Next, Adapter, Prepare, Reconnect

(* A step that leaves the queues alone.                                       *)
LEMMA KeptStep ==
    ASSUME QueueInv, Kept
    PROVE  QueueInv'
<1> USE DEF QueueInv, Kept
<1>1. QueueShape'
  BY DEF QueueShape, Commands
<1>2. (call # NoCall => call.id = accepted + 1)'
  <2>1. CASE call' = call
    BY <2>1, Zenon DEF Ordered
  <2>2. CASE call' \in {[id |-> accepted + 1, kind |-> k] : k \in Kinds}
    BY <2>2
  <2> QED BY <2>1, <2>2, Zenon
<1>3. Ordered'
  BY <1>2 DEF Ordered, Rising, IdsIn
<1>4. Stamped'
  BY Zenon DEF Stamped
<1>5. Counted'
  BY DEF Counted, IdsIn
<1> QED BY <1>1, <1>3, <1>4, <1>5, Zenon

(* The end of the worker.                                                     *)
LEMMA EndedStep ==
    ASSUME QueueInv, Ended
    PROVE  QueueInv'
<1> USE DEF QueueInv, Ended
<1>1. QueueShape'
  BY DEF QueueShape
<1>2. IdsIn(channel') = {} /\ IdsIn(deferred') = {} /\ Rising(channel') /\ Rising(deferred')
  BY IdsEmpty, Zenon
<1>3. IdsIn(handled') = IdsIn(handled) /\ Rising(handled') = Rising(handled)
  BY Zenon
<1>4. Ordered'
  BY <1>2, <1>3, Zenon DEF Ordered, Before
<1>5. Stamped'
  BY Zenon DEF Stamped
<1> QED BY <1>1, <1>4, <1>5, Zenon DEF Counted

(* try_send puts the command at the end of the channel under the next number. *)
LEMMA TrySendStep ==
    ASSUME QueueInv, TrySend
    PROVE  QueueInv'
<1> USE DEF QueueInv
<1> USE TrySend DEF TrySend, sessionVars
<1>1. CASE UNCHANGED <<channel, accepted>>
  <2>1. Kept
    BY <1>1, Zenon DEF Kept
  <2> QED BY <2>1, KeptStep, Zenon
<1>2. CASE worker # "ended" /\ channel' = Append(channel, call) /\ accepted' = accepted + 1
  <2>1. call \in Commands /\ call.id = accepted + 1 /\ accepted \in Nat
    BY Zenon DEF QueueShape, Ordered
  <2>2. /\ channel' \in Seq(Commands) /\ Len(channel') = Len(channel) + 1
        /\ IdsIn(channel') = IdsIn(channel) \cup {accepted + 1}
        /\ Before(IdsIn(channel), {accepted + 1}) => Rising(channel')
    BY <1>2, <2>1, IdsAppend, ZenonT(30) DEF QueueShape, Ordered
  <2>3. IdsIn(deferred') = IdsIn(deferred) /\ IdsIn(handled') = IdsIn(handled)
    BY Zenon
  <2> DEFINE old == IdsIn(channel) \cup IdsIn(deferred) \cup IdsIn(handled) \cup failed \cup ignored
  <2>4. old \subseteq 1 .. accepted /\ \A x \in old : x < accepted + 1
    BY <2>1 DEF Ordered
  <2>5. Rising(channel')
    BY <2>2, <2>4, Zenon DEF Before
  <2>6. QueueShape'
    BY <1>2, <2>1, <2>2 DEF QueueShape
  <2>7. Ordered'
    <3>1. Before(IdsIn(deferred'), IdsIn(channel')) /\ Before(IdsIn(handled'), IdsIn(channel'))
      BY <2>2, <2>3, <2>4, Zenon DEF Ordered, Before
    <3>2. Before(failed' \cup ignored', IdsIn(channel'))
      BY <2>2, <2>4, Zenon DEF Ordered, Before
    <3>3. (IdsIn(channel) \cup IdsIn(deferred) \cup IdsIn(handled) \cup failed \cup ignored
             \subseteq 1 .. accepted)'
      BY <1>2, <2>1, <2>2, <2>3, <2>4
    <3> QED BY <1>2, <2>3, <2>5, <3>1, <3>2, <3>3, Zenon DEF Ordered, Rising
  <2>8. Counted'
    <3>1. old = 1 .. accepted
      BY <1>2, Zenon DEF Counted
    <3>2. 1 .. (accepted + 1) = (1 .. accepted) \cup {accepted + 1}
      BY <2>1
    <3>3. (IdsIn(channel) \cup IdsIn(deferred) \cup IdsIn(handled) \cup failed \cup ignored
             = 1 .. accepted)'
      BY <1>2, <2>2, <2>3, <3>1, <3>2, Zenon
    <3>4. Cardinality(failed) \in Nat /\ Cardinality(ignored) \in Nat
      BY FS_CardinalityType, Zenon DEF QueueShape
    <3>5. Len(channel) \in Nat /\ Len(deferred) \in Nat /\ Len(handled) \in Nat
      BY DEF QueueShape
    <3> QED BY <1>2, <2>2, <3>3, <3>4, <3>5 DEF Counted, QueueShape
  <2>9. Stamped'
    BY Zenon DEF Stamped
  <2> QED BY <2>6, <2>7, <2>8, <2>9, Zenon
<1> QED BY <1>1, <1>2, Zenon

(* The counts are naturals.                                                   *)
LEMMA CountTypes ==
    ASSUME QueueShape
    PROVE  /\ Len(channel) \in Nat /\ Len(deferred) \in Nat /\ Len(handled) \in Nat
           /\ Cardinality(failed) \in Nat /\ Cardinality(ignored) \in Nat /\ accepted \in Nat
  BY FS_CardinalityType DEF QueueShape

(* No number is below itself.                                                 *)
LEMMA BeforeApart ==
    ASSUME NEW S, NEW T, NEW x \in Nat, Before(S, T), x \in T
    PROVE  x \notin S
  BY DEF Before

(* One element more.                                                          *)
LEMMA OneMore ==
    ASSUME NEW S, NEW T, NEW x, IsFiniteSet(S), x \notin S, T = S \cup {x}
    PROVE  /\ IsFiniteSet(T) /\ Cardinality(S) \in Nat
           /\ Cardinality(T) = Cardinality(S) + 1
  BY FS_AddElement, FS_CardinalityType, Zenon

(* A command taken from the channel in recovery is deferred behind the others *)
(* or, if it is a typing notice, dropped.                                     *)
LEMMA ReceiveStep ==
    ASSUME QueueInv, ReceiveRecoveryCommand
    PROVE  QueueInv'
<1> DEFINE c == Head(channel)
<1>1. /\ channel # <<>> /\ channel' = Tail(channel) /\ worker # "ended"
      /\ UNCHANGED <<call, accepted, handled, failed, latest, worker>>
  BY ReceiveRecoveryCommand, Zenon DEF ReceiveRecoveryCommand, adapterVars, sessionVars
<1>2. \/ deferred' = Append(deferred, c) /\ ignored' = ignored
      \/ ignored' = ignored \cup {c.id} /\ deferred' = deferred
  BY ReceiveRecoveryCommand, Zenon DEF ReceiveRecoveryCommand
<1>3. /\ c \in Commands /\ channel' \in Seq(Commands) /\ Len(channel') = Len(channel) - 1
      /\ IdsIn(channel) = {c.id} \cup IdsIn(channel')
      /\ Rising(channel') /\ Before({c.id}, IdsIn(channel'))
  BY <1>1, IdsTail, Zenon DEF QueueInv, QueueShape, Ordered
<1> HIDE DEF c
<1>4. /\ IdsIn(handled') = IdsIn(handled) /\ Rising(handled') = Rising(handled)
  BY <1>1, Zenon
<1>5. Stamped'
  BY <1>1, Zenon DEF QueueInv, Stamped
<1>6. CASE deferred' = Append(deferred, c) /\ ignored' = ignored
  <2>1. Before(IdsIn(deferred), {c.id})
    BY <1>3, Zenon DEF QueueInv, Ordered, Before
  <2>2. /\ deferred' \in Seq(Commands) /\ Len(deferred') = Len(deferred) + 1
        /\ IdsIn(deferred') = IdsIn(deferred) \cup {c.id} /\ Rising(deferred')
    BY <1>3, <1>6, <2>1, IdsAppend DEF QueueInv, QueueShape, Ordered
  <2>3. QueueShape'
    BY <1>1, <1>3, <1>6, <2>2, Zenon DEF QueueInv, QueueShape
  <2>4. c.id \notin failed \cup ignored
    <3>1. c.id \in Nat
      BY <1>3, Zenon DEF Commands
    <3> QED BY <1>3, <3>1, BeforeApart, Zenon DEF QueueInv, Ordered
  <2>5. Ordered'
    BY <1>1, <1>3, <1>4, <1>6, <2>2, <2>4 DEF QueueInv, Ordered, Before
  <2>6. Counted'
    BY <1>1, <1>3, <1>4, <1>6, <2>2, CountTypes DEF QueueInv, Counted
  <2> QED BY <1>5, <2>3, <2>5, <2>6, Zenon DEF QueueInv
<1>7. CASE ignored' = ignored \cup {c.id} /\ deferred' = deferred
  <2>1. c.id \in Nat
    BY <1>3, Zenon DEF Commands
  <2>2. c.id \notin ignored /\ c.id \notin IdsIn(deferred)
    <3>1. c.id \in IdsIn(channel)
      BY <1>3, Zenon
    <3> QED BY <2>1, <3>1, BeforeApart DEF QueueInv, Ordered
  <2>3. IsFiniteSet(ignored') /\ Cardinality(ignored') = Cardinality(ignored) + 1
    BY <1>7, <2>2, OneMore, Zenon DEF QueueInv, QueueShape
  <2>4. QueueShape'
    BY <1>1, <1>3, <1>7, <2>3, Zenon DEF QueueInv, QueueShape
  <2>5. IdsIn(deferred') = IdsIn(deferred) /\ Rising(deferred') = Rising(deferred)
    BY <1>7, Zenon
  <2>6. Ordered'
    BY <1>1, <1>3, <1>4, <1>7, <2>2, <2>5 DEF QueueInv, Ordered, Before
  <2>7. Counted'
    <3>1. IdsIn(channel') \cup IdsIn(deferred') \cup IdsIn(handled') \cup failed' \cup ignored'
            = 1 .. accepted'
      BY <1>1, <1>3, <1>4, <1>7, <2>5, Zenon DEF QueueInv, Counted
    <3>2. Len(channel') + Len(deferred') + Len(handled')
            + Cardinality(failed') + Cardinality(ignored') = accepted'
      <4>1. Len(channel) + Len(deferred) + Len(handled)
              + Cardinality(failed) + Cardinality(ignored) = accepted
        BY <1>1, Zenon DEF QueueInv, Counted
      <4>2. /\ Len(deferred') = Len(deferred) /\ Len(handled') = Len(handled)
            /\ Cardinality(failed') = Cardinality(failed) /\ accepted' = accepted
        BY <1>1, <1>7, Zenon
      <4>3. QueueShape
        BY Zenon DEF QueueInv
      <4> QED BY <1>3, <2>3, <4>1, <4>2, <4>3, CountTypes
    <3> QED BY <3>1, <3>2, Zenon DEF Counted
  <2> QED BY <1>5, <2>4, <2>6, <2>7, Zenon DEF QueueInv
<1> QED BY <1>2, <1>6, <1>7, Zenon

(* A deferred command given up is reported or, if it is a read receipt,       *)
(* dropped.                                                                   *)
LEMMA FailStep ==
    ASSUME QueueInv, FailDeferred
    PROVE  QueueInv'
<1> DEFINE c == Head(deferred)
<1>1. /\ deferred # <<>> /\ deferred' = Tail(deferred) /\ worker # "ended"
      /\ UNCHANGED <<call, accepted, handled, channel, latest, worker>>
  BY FailDeferred, Zenon DEF FailDeferred, adapterVars, sessionVars
<1>2. \/ failed' = failed \cup {c.id} /\ ignored' = ignored
      \/ ignored' = ignored \cup {c.id} /\ failed' = failed
  BY FailDeferred, Zenon DEF FailDeferred
<1>3. /\ c \in Commands /\ deferred' \in Seq(Commands) /\ Len(deferred') = Len(deferred) - 1
      /\ IdsIn(deferred) = {c.id} \cup IdsIn(deferred')
      /\ Rising(deferred') /\ Before({c.id}, IdsIn(deferred'))
  BY <1>1, IdsTail, Zenon DEF QueueInv, QueueShape, Ordered
<1> HIDE DEF c
<1>4. /\ IdsIn(handled') = IdsIn(handled) /\ Rising(handled') = Rising(handled)
      /\ IdsIn(channel') = IdsIn(channel) /\ Rising(channel') = Rising(channel)
      /\ Len(handled') = Len(handled) /\ Len(channel') = Len(channel)
  BY <1>1, Zenon
<1>5. c.id \in Nat
  BY <1>3, Zenon DEF Commands
<1>6. c.id \notin failed \cup ignored /\ c.id \notin IdsIn(deferred')
  BY <1>3, <1>5 DEF QueueInv, Ordered, Before
<1>7. /\ IsFiniteSet(failed') /\ IsFiniteSet(ignored')
      /\ Cardinality(failed') + Cardinality(ignored')
           = Cardinality(failed) + Cardinality(ignored) + 1
      /\ Cardinality(failed') \in Nat /\ Cardinality(ignored') \in Nat
  <2>1. CASE failed' = failed \cup {c.id} /\ ignored' = ignored
    <3>1. IsFiniteSet(failed') /\ Cardinality(failed') = Cardinality(failed) + 1
      BY <1>6, <2>1, OneMore, Zenon DEF QueueInv, QueueShape
    <3>2. IsFiniteSet(ignored') /\ Cardinality(ignored') = Cardinality(ignored)
      BY <2>1, Zenon DEF QueueInv, QueueShape
    <3> QED BY <3>1, <3>2, CountTypes DEF QueueInv
  <2>2. CASE ignored' = ignored \cup {c.id} /\ failed' = failed
    <3>1. IsFiniteSet(ignored') /\ Cardinality(ignored') = Cardinality(ignored) + 1
      BY <1>6, <2>2, OneMore, SMTT(30) DEF QueueInv, QueueShape
    <3>2. IsFiniteSet(failed') /\ Cardinality(failed') = Cardinality(failed)
      BY <2>2, Zenon DEF QueueInv, QueueShape
    <3> QED BY <3>1, <3>2, CountTypes DEF QueueInv
  <2> QED BY <1>2, <2>1, <2>2, Zenon
<1>8. failed' \cup ignored' = failed \cup ignored \cup {c.id}
  BY <1>2, Zenon
<1>9. QueueShape'
  BY <1>1, <1>3, <1>7, Zenon DEF QueueInv, QueueShape
<1>10. Ordered'
  <2>1. Before(IdsIn(deferred'), IdsIn(channel')) /\ Before(IdsIn(handled'), IdsIn(channel'))
    BY <1>3, <1>4, Zenon DEF QueueInv, Ordered, Before
  <2>2. Before(IdsIn(handled'), IdsIn(deferred'))
    BY <1>3, <1>4, Zenon DEF QueueInv, Ordered, Before
  <2>3. Before(failed' \cup ignored', IdsIn(channel'))
    BY <1>3, <1>4, <1>8, Zenon DEF QueueInv, Ordered, Before
  <2>4. (failed' \cup ignored') \cap IdsIn(deferred') = {}
    BY <1>3, <1>6, <1>8, Zenon DEF QueueInv, Ordered
  <2>5. IdsIn(channel') \cup IdsIn(deferred') \cup IdsIn(handled') \cup failed' \cup ignored'
          \subseteq 1 .. accepted'
    BY <1>1, <1>3, <1>4, <1>8, Zenon DEF QueueInv, Ordered
  <2> QED BY <1>1, <1>3, <1>4, <2>1, <2>2, <2>3, <2>4, <2>5, Zenon DEF QueueInv, Ordered
<1>11. Counted'
  <2>1. IdsIn(channel') \cup IdsIn(deferred') \cup IdsIn(handled') \cup failed' \cup ignored'
          = 1 .. accepted'
    BY <1>1, <1>3, <1>4, <1>8, Zenon DEF QueueInv, Counted
  <2>2. Len(channel') + Len(deferred') + Len(handled')
          + Cardinality(failed') + Cardinality(ignored') = accepted'
    <3>1. Len(channel) + Len(deferred) + Len(handled)
            + Cardinality(failed) + Cardinality(ignored) = accepted
      BY <1>1, Zenon DEF QueueInv, Counted
    <3>2. QueueShape /\ accepted' = accepted
      BY <1>1, Zenon DEF QueueInv
    <3>3. /\ Len(channel) \in Nat /\ Len(deferred) \in Nat /\ Len(handled) \in Nat
          /\ Cardinality(failed) \in Nat /\ Cardinality(ignored) \in Nat /\ accepted \in Nat
      BY <3>2, CountTypes, Zenon
    <3>4. Len(deferred') = Len(deferred) - 1
      BY <1>3, Zenon
    <3>5. /\ Cardinality(failed') \in Nat /\ Cardinality(ignored') \in Nat
          /\ Cardinality(failed') + Cardinality(ignored')
               = Cardinality(failed) + Cardinality(ignored) + 1
      BY <1>7, Zenon
    <3>6. Len(channel') = Len(channel) /\ Len(handled') = Len(handled)
      BY <1>4, Zenon
    <3> DEFINE f == Cardinality(failed)
               g == Cardinality(ignored)
               f1 == Cardinality(failed')
               g1 == Cardinality(ignored')
    <3>7. Len(channel) + Len(deferred) + Len(handled) + f + g = accepted
      BY <3>1, Zenon
    <3>8. f \in Nat /\ g \in Nat /\ f1 \in Nat /\ g1 \in Nat /\ f1 + g1 = f + g + 1
      BY <3>3, <3>5, Zenon
    <3> HIDE DEF f, g, f1, g1
    <3>9. Len(channel) + (Len(deferred) - 1) + Len(handled) + f1 + g1 = accepted
      BY <3>3, <3>7, <3>8
    <3>10. Len(channel') + Len(deferred') + Len(handled') + f1 + g1 = accepted
      BY <3>4, <3>6, <3>9, Zenon
    <3> QED BY <3>2, <3>10, Zenon DEF f1, g1
  <2> QED BY <2>1, <2>2, Zenon DEF Counted
<1>12. Stamped'
  BY <1>1, Zenon DEF QueueInv, Stamped
<1> QED BY <1>9, <1>10, <1>11, <1>12, Zenon DEF QueueInv

(* The next timestamp is above every earlier one, whatever the clock says.    *)
LEMMA TimestampGrows ==
    ASSUME latest \in Nat, NEW now \in Nat
    PROVE  NextTimestamp(now) \in Nat /\ NextTimestamp(now) > latest
  BY DEF NextTimestamp

(* A command taken up was the oldest one waiting, and what it records is its  *)
(* id with a fresh timestamp or none.                                         *)
LEMMA TakeEffect ==
    ASSUME QueueInv, TakeCommand
    PROVE  \E c \in Commands, e \in Entries :
             /\ e.id = c.id /\ handled' = Append(handled, e)
             /\ e.timestamp = 0 \/ e.timestamp > latest
             /\ latest' \in Nat /\ latest' >= latest /\ e.timestamp <= latest'
             /\ \/ /\ deferred # <<>> /\ c = Head(deferred)
                   /\ deferred' = Tail(deferred) /\ channel' = channel
                \/ /\ deferred = <<>> /\ deferred' = deferred
                   /\ channel # <<>> /\ c = Head(channel) /\ channel' = Tail(channel)
<1> DEFINE c == NextCommand
           e == [id |-> c.id, timestamp |-> IF c.kind \in {"text", "typing", "read"}
                                              THEN latest' ELSE 0]
<1>1. \/ /\ deferred # <<>> /\ c = Head(deferred)
         /\ deferred' = Tail(deferred) /\ channel' = channel
      \/ /\ deferred = <<>> /\ deferred' = deferred
         /\ channel # <<>> /\ c = Head(channel) /\ channel' = Tail(channel)
  <2>1. CASE deferred = <<>>
    <3>1. Range(deferred) = {}
      BY <2>1 DEF Range
    <3> QED BY <2>1, <3>1, Zenon DEF TakeCommand, NextCommand, CommandWaits
  <2>2. CASE deferred # <<>>
    <3>1. Head(deferred) \in Range(deferred)
      <4>1. 1 \in DOMAIN deferred /\ Head(deferred) = deferred[1]
        BY <2>2 DEF QueueInv, QueueShape
      <4> QED BY <4>1, Zenon DEF Range
    <3> QED BY <2>2, <3>1, Zenon DEF TakeCommand, NextCommand
  <2> QED BY <2>1, <2>2, Zenon
<1>2. c \in Commands
  BY <1>1, IdsTail, Zenon DEF QueueInv, QueueShape
<1>3. latest \in Nat /\ latest' \in Nat /\ latest' >= latest
      /\ (c.kind \in {"text", "typing", "read"} => latest' > latest)
  <2>1. CASE c.kind \in {"text", "typing", "read"}
    <3>1. PICK now \in 0 .. MaxClock : latest' = NextTimestamp(now)
      BY <2>1, TakeCommand, Zenon DEF TakeCommand
    <3>2. now \in Nat
      BY SessionAssumption
    <3> QED BY <3>1, <3>2, TimestampGrows DEF QueueInv, QueueShape
  <2>2. CASE c.kind \notin {"text", "typing", "read"}
    BY <2>2, TakeCommand DEF TakeCommand, QueueInv, QueueShape
  <2> QED BY <2>1, <2>2, Zenon
<1>4. handled' = Append(handled, e)
  BY TakeCommand, Zenon DEF TakeCommand
<1> HIDE DEF c
<1>5. e \in Entries /\ e.id = c.id
  BY <1>2, <1>3, Zenon DEF Entries, Commands
<1>6. (e.timestamp = 0 \/ e.timestamp > latest) /\ e.timestamp <= latest'
  BY <1>3
<1> QED BY <1>1, <1>2, <1>3, <1>4, <1>5, <1>6, Zenon

(* Taking up a command.                                                       *)
LEMMA TakeStep ==
    ASSUME QueueInv, TakeCommand
    PROVE  QueueInv'
<1>1. PICK c \in Commands, e \in Entries :
             /\ e.id = c.id /\ handled' = Append(handled, e)
             /\ e.timestamp = 0 \/ e.timestamp > latest
             /\ latest' \in Nat /\ latest' >= latest /\ e.timestamp <= latest'
             /\ \/ /\ deferred # <<>> /\ c = Head(deferred)
                   /\ deferred' = Tail(deferred) /\ channel' = channel
                \/ /\ deferred = <<>> /\ deferred' = deferred
                   /\ channel # <<>> /\ c = Head(channel) /\ channel' = Tail(channel)
  BY TakeEffect, Zenon
<1>2. /\ worker # "ended" /\ worker' # "ended"
      /\ UNCHANGED <<call, accepted, failed, ignored>>
  BY TakeCommand, Zenon DEF TakeCommand, adapterVars
<1>3. c.id \in Nat \ {0} /\ e.timestamp \in Nat
  BY Zenon DEF Commands, Entries
<1>4. /\ channel' \in Seq(Commands) /\ deferred' \in Seq(Commands)
      /\ Rising(channel') /\ Rising(deferred')
      /\ IdsIn(channel) \cup IdsIn(deferred) = {c.id} \cup IdsIn(channel') \cup IdsIn(deferred')
      /\ IdsIn(channel') \subseteq IdsIn(channel) /\ IdsIn(deferred') \subseteq IdsIn(deferred)
      /\ Len(channel') + Len(deferred') = Len(channel) + Len(deferred) - 1
      /\ Len(channel') \in Nat /\ Len(deferred') \in Nat
      /\ Before({c.id}, IdsIn(channel')) /\ Before({c.id}, IdsIn(deferred'))
      /\ Before(IdsIn(handled), {c.id})
  <2>0. /\ channel \in Seq(Commands) /\ deferred \in Seq(Commands)
        /\ Rising(channel) /\ Rising(deferred)
        /\ Before(IdsIn(deferred), IdsIn(channel))
        /\ Before(IdsIn(handled), IdsIn(channel)) /\ Before(IdsIn(handled), IdsIn(deferred))
        /\ Len(channel) \in Nat /\ Len(deferred) \in Nat
    BY CountTypes, Zenon DEF QueueInv, QueueShape, Ordered
  <2>1. CASE /\ deferred # <<>> /\ c = Head(deferred)
             /\ deferred' = Tail(deferred) /\ channel' = channel
    <3>1. /\ deferred' \in Seq(Commands) /\ Len(deferred') = Len(deferred) - 1
          /\ IdsIn(deferred) = {c.id} \cup IdsIn(deferred')
          /\ Rising(deferred') /\ Before({c.id}, IdsIn(deferred'))
      BY <2>0, <2>1, IdsTail, Zenon
    <3>2. Before({c.id}, IdsIn(channel')) /\ Before(IdsIn(handled), {c.id})
      BY <2>0, <2>1, <3>1, Zenon DEF Before
    <3>3. Len(deferred') \in Nat
      BY <3>1
    <3> QED BY <2>0, <2>1, <3>1, <3>2, <3>3, Zenon
  <2>2. CASE /\ deferred = <<>> /\ deferred' = deferred
             /\ channel # <<>> /\ c = Head(channel) /\ channel' = Tail(channel)
    <3>1. /\ channel' \in Seq(Commands) /\ Len(channel') = Len(channel) - 1
          /\ IdsIn(channel) = {c.id} \cup IdsIn(channel')
          /\ Rising(channel') /\ Before({c.id}, IdsIn(channel'))
      BY <2>0, <2>2, IdsTail, Zenon
    <3>2. IdsIn(deferred') = {} /\ IdsIn(deferred) = {}
      BY <2>2, IdsEmpty, Zenon
    <3>3. Before({c.id}, IdsIn(deferred')) /\ Before(IdsIn(handled), {c.id})
      BY <2>0, <3>1, <3>2, Zenon DEF Before
    <3>4. Len(channel') \in Nat
      BY <3>1
    <3> QED BY <2>0, <2>2, <3>1, <3>2, <3>3, <3>4
  <2> QED BY <1>1, <2>1, <2>2, Zenon
<1>5. /\ handled' \in Seq(Entries) /\ Len(handled') = Len(handled) + 1
      /\ IdsIn(handled') = IdsIn(handled) \cup {c.id} /\ Rising(handled')
  BY <1>1, <1>4, IdsAppend DEF QueueInv, QueueShape, Ordered
<1>6. QueueShape'
  BY <1>1, <1>2, <1>4, <1>5, Zenon DEF QueueInv, QueueShape
<1>7. Ordered'
  <2>1. Before(IdsIn(deferred'), IdsIn(channel'))
    BY <1>4, Zenon DEF QueueInv, Ordered, Before
  <2>2. Before(IdsIn(handled'), IdsIn(channel')) /\ Before(IdsIn(handled'), IdsIn(deferred'))
    BY <1>4, <1>5, Zenon DEF QueueInv, Ordered, Before
  <2>3. Before(failed' \cup ignored', IdsIn(channel'))
    BY <1>2, <1>4, Zenon DEF QueueInv, Ordered, Before
  <2>4. (failed' \cup ignored') \cap IdsIn(deferred') = {}
    BY <1>2, <1>4, Zenon DEF QueueInv, Ordered
  <2>5. IdsIn(channel') \cup IdsIn(deferred') \cup IdsIn(handled') \cup failed' \cup ignored'
          \subseteq 1 .. accepted'
    BY <1>2, <1>4, <1>5, Zenon DEF QueueInv, Ordered
  <2> QED BY <1>2, <1>4, <1>5, <2>1, <2>2, <2>3, <2>4, <2>5, Zenon DEF QueueInv, Ordered
<1>8. Counted'
  <2>1. IdsIn(channel') \cup IdsIn(deferred') \cup IdsIn(handled') \cup failed' \cup ignored'
          = 1 .. accepted'
    BY <1>2, <1>4, <1>5, Zenon DEF QueueInv, Counted
  <2>2. Len(channel') + Len(deferred') + Len(handled')
          + Cardinality(failed') + Cardinality(ignored') = accepted'
    <3>1. Len(channel) + Len(deferred) + Len(handled)
            + Cardinality(failed) + Cardinality(ignored) = accepted
      BY <1>2, Zenon DEF QueueInv, Counted
    <3>2. /\ Len(channel) \in Nat /\ Len(deferred) \in Nat /\ Len(handled) \in Nat
          /\ Cardinality(failed) \in Nat /\ Cardinality(ignored) \in Nat /\ accepted \in Nat
      BY CountTypes, Zenon DEF QueueInv
    <3>3. /\ Len(channel') + Len(deferred') = Len(channel) + Len(deferred) - 1
          /\ Len(channel') \in Nat /\ Len(deferred') \in Nat
      BY <1>4, Zenon
    <3>4. Len(handled') = Len(handled) + 1
      BY <1>5, Zenon
    <3>5. /\ Cardinality(failed') = Cardinality(failed) /\ accepted' = accepted
          /\ Cardinality(ignored') = Cardinality(ignored)
      BY <1>2, Zenon
    <3> QED BY <3>1, <3>2, <3>3, <3>4, <3>5, SMTT(30)
  <2> QED BY <2>1, <2>2, Zenon DEF Counted
<1>9. Stamped'
  <2>1. /\ handled \in Seq(Entries) /\ Len(handled) \in Nat /\ latest \in Nat
        /\ DOMAIN handled = 1 .. Len(handled) /\ DOMAIN handled' = 1 .. Len(handled) + 1
        /\ \A i \in 1 .. Len(handled) : handled'[i] = handled[i]
        /\ handled'[Len(handled) + 1] = e
    BY <1>1 DEF QueueInv, QueueShape
  <2>2. \A i \in 1 .. Len(handled) : handled[i].timestamp \in Nat
    <3>1. \A x \in Entries : x.timestamp \in Nat
      BY Zenon DEF Entries
    <3> QED BY <2>1, <3>1
  <2>3. ASSUME NEW i \in DOMAIN handled' PROVE handled'[i].timestamp <= latest'
    <3>1. CASE i \in 1 .. Len(handled)
      BY <1>1, <2>1, <2>2, <3>1 DEF QueueInv, Stamped
    <3>2. CASE i = Len(handled) + 1
      BY <1>1, <2>1, <3>2, Zenon
    <3> QED BY <2>1, <3>1, <3>2
  <2>4. ASSUME NEW i \in DOMAIN handled', NEW j \in DOMAIN handled', i < j,
               handled'[i].timestamp > 0, handled'[j].timestamp > 0
        PROVE  handled'[i].timestamp < handled'[j].timestamp
    <3>1. i \in 1 .. Len(handled) /\ handled'[i] = handled[i]
      BY <2>1, <2>4
    <3>2. CASE j \in 1 .. Len(handled)
      BY <2>1, <2>4, <3>1, <3>2, Zenon DEF QueueInv, Stamped
    <3>3. CASE j = Len(handled) + 1
      <4>1. e.timestamp > latest
        BY <1>1, <1>3, <2>1, <2>4, <3>3
      <4>2. handled[i].timestamp <= latest /\ handled[i].timestamp \in Nat
        BY <2>1, <2>2, <3>1, Zenon DEF QueueInv, Stamped
      <4> QED BY <1>3, <2>1, <3>1, <3>3, <4>1, <4>2
    <3> QED BY <2>1, <3>2, <3>3
  <2> QED BY <2>3, <2>4, Zenon DEF Stamped
<1> QED BY <1>6, <1>7, <1>8, <1>9, Zenon DEF QueueInv

(* No step disorders, loses or doubles a command.                             *)
LEMMA QueueStep ==
    ASSUME QueueInv, Unborn, [Next]_vars
    PROVE  QueueInv'
  BY QueueSteps, KeptStep, EndedStep, TrySendStep, ReceiveStep, FailStep, TakeStep, Zenon

-----------------------------------------------------------------------------
(* What the events in the queue will tell the adapter.                        *)

(* The empty queue tells nothing new.                                         *)
LEMMA TellsEmpty ==
    ASSUME NEW seen, NEW k
    PROVE  (Tells(<<>>, seen, k) <=> seen = k) /\ Untold(<<>>) = {}
  BY DEF Tells, Untold

(* An event added at the end.                                                 *)
LEMMA TellsAppend ==
    ASSUME NEW s \in Seq(Events), NEW e \in Events, NEW seen, NEW k \in Marks
    PROVE  /\ e.kind \in Marks => (Tells(Append(s, e), seen, k) <=> e.kind = k)
           /\ e.kind \notin Marks => (Tells(Append(s, e), seen, k) <=> Tells(s, seen, k))
           /\ Untold(s) \subseteq Untold(Append(s, e))
           /\ e.kind = "RequestError" => e.id \in Untold(Append(s, e))
<1> DEFINE t == Append(s, e)
<1>1. /\ Len(t) = Len(s) + 1 /\ Len(s) \in Nat
      /\ \A i \in 1 .. Len(s) : t[i] = s[i]
      /\ t[Len(s) + 1] = e
  OBVIOUS
<1>2. DOMAIN s = 1 .. Len(s) /\ DOMAIN t = 1 .. Len(s) + 1
  BY <1>1
<1> HIDE DEF t
<1>3. \A i \in DOMAIN s : i \in DOMAIN t /\ t[i] = s[i] /\ i < Len(s) + 1
  BY <1>1, <1>2
<1>4. Len(s) + 1 \in DOMAIN t
  BY <1>1, <1>2
<1>5. \A i \in DOMAIN t : i = Len(s) + 1 \/ i \in DOMAIN s
  BY <1>1, <1>2
<1>6. \A i \in DOMAIN t : ~ (Len(s) + 1 < i)
  BY <1>1, <1>2
<1>7. ASSUME e.kind \in Marks PROVE Tells(t, seen, k) <=> e.kind = k
  <2>1. ASSUME e.kind = k PROVE Tells(t, seen, k)
    BY <1>1, <1>4, <1>6, <2>1, Zenon DEF Tells
  <2>2. ASSUME Tells(t, seen, k) PROVE e.kind = k
    <3>1. PICK i \in DOMAIN t : t[i].kind = k /\ \A j \in DOMAIN t : i < j => t[j].kind \notin Marks
      BY <1>1, <1>4, <1>7, <2>2, Zenon DEF Tells
    <3>2. i = Len(s) + 1
      BY <1>1, <1>3, <1>4, <1>5, <1>7, <3>1, Zenon
    <3> QED BY <1>1, <3>1, <3>2, Zenon
  <2> QED BY <2>1, <2>2, Zenon
<1>8. ASSUME e.kind \notin Marks PROVE Tells(t, seen, k) <=> Tells(s, seen, k)
  <2>1. (\A j \in DOMAIN t : t[j].kind \notin Marks) <=> (\A j \in DOMAIN s : s[j].kind \notin Marks)
    BY <1>1, <1>3, <1>5, <1>8, Zenon
  <2>2. ASSUME NEW i \in DOMAIN t, t[i].kind = k, \A j \in DOMAIN t : i < j => t[j].kind \notin Marks
        PROVE  Tells(s, seen, k)
    <3>1. i \in DOMAIN s
      BY <1>1, <1>5, <1>8, <2>2, Zenon
    <3> QED BY <1>3, <2>2, <3>1, Zenon DEF Tells
  <2>3. ASSUME NEW i \in DOMAIN s, s[i].kind = k, \A j \in DOMAIN s : i < j => s[j].kind \notin Marks
        PROVE  Tells(t, seen, k)
    <3>1. \A j \in DOMAIN t : i < j => t[j].kind \notin Marks
      BY <1>1, <1>3, <1>5, <1>8, <2>3, Zenon
    <3> QED BY <1>3, <2>3, <3>1, Zenon DEF Tells
  <2> QED BY <2>1, <2>2, <2>3, Zenon DEF Tells
<1>9. Untold(s) \subseteq Untold(t)
  BY <1>3, Zenon DEF Untold
<1>10. e.kind = "RequestError" => e.id \in Untold(t)
  BY <1>1, <1>4, Zenon DEF Untold
<1> QED BY <1>7, <1>8, <1>9, <1>10, Zenon DEF t

(* The first event taken and handled.                                         *)
LEMMA TellsTail ==
    ASSUME NEW s \in Seq(Events), s # <<>>, NEW seen, NEW next, NEW k \in Marks,
           Head(s).kind \in Marks => next = Head(s).kind,
           Head(s).kind \notin Marks => next = seen
    PROVE  /\ Tells(Tail(s), next, k) <=> Tells(s, seen, k)
           /\ Untold(s) \subseteq Untold(Tail(s))
                 \cup (IF Head(s).kind = "RequestError" THEN {Head(s).id} ELSE {})
<1>1. /\ Tail(s) \in Seq(Events) /\ Len(Tail(s)) = Len(s) - 1
      /\ \A i \in 1 .. Len(s) - 1 : Tail(s)[i] = s[i + 1]
      /\ Head(s) = s[1] /\ Len(s) \in Nat \ {0}
  OBVIOUS
<1>2. DOMAIN s = 1 .. Len(s) /\ DOMAIN Tail(s) = 1 .. Len(s) - 1
  BY <1>1
<1>3. \A i \in DOMAIN Tail(s) : i + 1 \in DOMAIN s /\ 1 < i + 1 /\ s[i + 1] = Tail(s)[i]
  BY <1>1, <1>2
<1>4. \A i \in DOMAIN s : i = 1 \/ (i - 1 \in DOMAIN Tail(s) /\ s[i] = Tail(s)[i - 1])
  BY <1>1, <1>2
<1>5. 1 \in DOMAIN s
  BY <1>1, <1>2
<1>6. DOMAIN s \subseteq Nat /\ DOMAIN Tail(s) \subseteq Nat
  BY <1>2
<1>7. ASSUME NEW i \in DOMAIN Tail(s), Tail(s)[i].kind = k,
             \A j \in DOMAIN Tail(s) : i < j => Tail(s)[j].kind \notin Marks
      PROVE  Tells(s, seen, k)
  <2>1. ASSUME NEW j \in DOMAIN s, i + 1 < j PROVE s[j].kind \notin Marks
    <3>1. j - 1 \in DOMAIN Tail(s) /\ s[j] = Tail(s)[j - 1] /\ i < j - 1
      BY <1>2, <1>4, <1>6, <2>1
    <3> QED BY <1>7, <3>1, Zenon
  <2> QED BY <1>3, <1>7, <2>1, Zenon DEF Tells
<1>8. ASSUME next = k, \A j \in DOMAIN Tail(s) : Tail(s)[j].kind \notin Marks
      PROVE  Tells(s, seen, k)
  <2>1. \A j \in DOMAIN s : 1 < j => s[j].kind \notin Marks
    <3> SUFFICES ASSUME NEW j \in DOMAIN s, 1 < j PROVE s[j].kind \notin Marks
      BY Zenon
    <3>1. j - 1 \in DOMAIN Tail(s) /\ s[j] = Tail(s)[j - 1]
      BY <1>4, <1>6
    <3> QED BY <1>8, <3>1, Zenon
  <2>2. CASE Head(s).kind \in Marks
    BY <1>1, <1>5, <1>8, <2>1, <2>2, Zenon DEF Tells
  <2>3. CASE Head(s).kind \notin Marks
    <3>1. \A j \in DOMAIN s : s[j].kind \notin Marks
      BY <1>1, <1>4, <1>8, <2>3, Zenon
    <3> QED BY <1>8, <2>3, <3>1, Zenon DEF Tells
  <2> QED BY <2>2, <2>3, Zenon
<1>9. ASSUME NEW i \in DOMAIN s, s[i].kind = k,
             \A j \in DOMAIN s : i < j => s[j].kind \notin Marks
      PROVE  Tells(Tail(s), next, k)
  <2>1. CASE i = 1
    <3>1. \A j \in DOMAIN Tail(s) : Tail(s)[j].kind \notin Marks
      BY <1>3, <1>9, <2>1, Zenon
    <3> QED BY <1>1, <1>9, <2>1, <3>1, Zenon DEF Tells
  <2>2. CASE i - 1 \in DOMAIN Tail(s) /\ s[i] = Tail(s)[i - 1]
    <3>1. ASSUME NEW j \in DOMAIN Tail(s), i - 1 < j PROVE Tail(s)[j].kind \notin Marks
      <4>1. i < j + 1
        BY <1>6, <3>1
      <4> QED BY <1>3, <1>9, <4>1, Zenon
    <3> QED BY <1>9, <2>2, <3>1, Zenon DEF Tells
  <2> QED BY <1>4, <2>1, <2>2, Zenon
<1>10. ASSUME seen = k, \A j \in DOMAIN s : s[j].kind \notin Marks
       PROVE  Tells(Tail(s), next, k)
  BY <1>1, <1>3, <1>5, <1>10, Zenon DEF Tells
<1>11. ASSUME NEW x \in Untold(s)
       PROVE  x \in Untold(Tail(s)) \cup (IF Head(s).kind = "RequestError" THEN {Head(s).id} ELSE {})
  <2>1. PICK i \in DOMAIN s : s[i].kind = "RequestError" /\ x = s[i].id
    BY Zenon DEF Untold
  <2>2. CASE i = 1
    BY <1>1, <2>1, <2>2, Zenon
  <2>3. CASE i - 1 \in DOMAIN Tail(s) /\ s[i] = Tail(s)[i - 1]
    <3>1. x \in Untold(Tail(s))
      BY <2>1, <2>3, Zenon DEF Untold
    <3> QED BY <3>1, Zenon
  <2> QED BY <1>4, <2>2, <2>3, Zenon
<1>12. Tells(Tail(s), next, k) => Tells(s, seen, k)
  BY <1>7, <1>8, Zenon DEF Tells
<1>13. Tells(s, seen, k) => Tells(Tail(s), next, k)
  BY <1>9, <1>10, Zenon DEF Tells
<1> QED BY <1>11, <1>12, <1>13, Zenon

(* The events are records of a kind and an id.                                *)
LEMMA EventTypes ==
    /\ \A k \in EventKinds : EventOf(k) \in Events /\ EventOf(k).kind = k
    /\ \A n \in Nat : RequestError(n) \in Events /\ RequestError(n).kind = "RequestError"
                                              /\ RequestError(n).id = n
<1>1. "RequestError" \in EventKinds
  BY Zenon DEF EventKinds
<1>2. \A k \in EventKinds : EventOf(k) \in Events /\ EventOf(k).kind = k
  BY Zenon DEF EventOf, Events
<1>3. ASSUME NEW n \in Nat
      PROVE  /\ RequestError(n) \in Events /\ RequestError(n).kind = "RequestError"
             /\ RequestError(n).id = n
  BY <1>1, Zenon DEF RequestError, Events
<1> QED BY <1>2, <1>3, Zenon

(* emit adds to an open queue and leaves a closed one empty.                  *)
LEMMA EmitEffect ==
    ASSUME events \in Seq(Events)
    PROVE  /\ core = "closing" => \A es : Emitted(es) = <<>>
           /\ core # "closing" => /\ Emitted(<<>>) = events
                                  /\ \A e \in Events : Emitted(<<e>>) = Append(events, e)
<1>1. events \o <<>> = events
  OBVIOUS
<1>2. \A e \in Events : events \o <<e>> = Append(events, e)
  OBVIOUS
<1> QED BY <1>1, <1>2, Zenon DEF Emitted

(* A step of the worker that emits one event.                                 *)
LEMMA SaidStep ==
    ASSUME EventInv, NEW e \in Events, worker \in Running,
           events' = Emitted(<<e>>),
           UNCHANGED <<core, shown, purple, reported, polling>>,
           \/ failed' = failed
           \/ e.kind = "RequestError" /\ failed' = failed \cup {e.id},
           qr' # "failed" => qr # "failed",
           worker' \in Running \cup {"ended"},
           e.kind = "Fatal" => worker' = "ended" \/ qr' = "failed",
           ready' => phase' = "Ready" /\ worker' \in {"dispatch", "handling"},
           worker' \notin Announcing,
           core = "live" /\ worker' # "ended" /\ e.kind \in Marks =>
             (e.kind = "Ready" <=> ready') /\ (e.kind = "Recovering" => phase' = "Recovering"),
           worker' # "ended" /\ e.kind \notin Marks =>
             worker \notin Announcing /\ (ready' <=> ready) /\ phase' = phase
    PROVE  EventInv'
<1>1. core # "none" /\ worker # "ended" /\ worker # "none" /\ events \in Seq(Events)
  BY Zenon DEF EventInv, Unborn, Running
<1>2. "Ready" \in Marks /\ "Recovering" \in Marks /\ worker' # "leaving" /\ worker' # "readying"
  BY Zenon DEF Marks, Announcing
<1>3. CASE core = "closing"
  <2>1. events' = <<>>
    BY <1>1, <1>3, EmitEffect, Zenon
  <2>2. events' \in Seq(Events)
    BY <2>1
  <2>3. Told'
    BY <1>1, <1>3, <2>1 DEF EventInv, Told
  <2> QED BY <1>2, <1>3, <2>2, <2>3, Zenon DEF EventInv, Unborn, Agreed
<1>4. CASE core # "closing"
  <2>1. events' = Append(events, e)
    BY <1>1, <1>4, EmitEffect, Zenon
  <2>2. events' \in Seq(Events) /\ Len(events') = Len(events) + 1 /\ Len(events) \in Nat
        /\ DOMAIN events = 1 .. Len(events) /\ DOMAIN events' = 1 .. Len(events) + 1
        /\ (\A i \in DOMAIN events : events'[i] = events[i])
        /\ events'[Len(events) + 1] = e
    BY <1>1, <2>1
  <2>3. /\ \A k \in Marks :
             /\ e.kind \in Marks => (Tells(events', shown, k) <=> e.kind = k)
             /\ e.kind \notin Marks => (Tells(events', shown, k) <=> Tells(events, shown, k))
        /\ Untold(events) \subseteq Untold(events')
        /\ e.kind = "RequestError" => e.id \in Untold(events')
    <3> DEFINE s == Append(events, e)
    <3>1. /\ \A k \in Marks :
               /\ e.kind \in Marks => (Tells(s, shown, k) <=> e.kind = k)
               /\ e.kind \notin Marks => (Tells(s, shown, k) <=> Tells(events, shown, k))
          /\ Untold(events) \subseteq Untold(s)
          /\ e.kind = "RequestError" => e.id \in Untold(s)
      BY <1>1, <1>2, TellsAppend, Zenon
    <3> HIDE DEF s
    <3> QED BY <2>1, <3>1, Zenon DEF s
  <2>4. Unborn'
    BY <1>1, Zenon DEF Unborn
  <2>5. Agreed'
    <3>1. CASE e.kind \in Marks
      BY <1>1, <1>2, <2>3, <3>1, Zenon DEF EventInv, Agreed
    <3>2. CASE e.kind \notin Marks
      <4>1. worker' # "ended" => worker # "leaving" /\ worker # "readying"
        BY <3>2, Zenon DEF Announcing
      <4> QED BY <1>1, <1>2, <2>3, <3>2, <4>1, Zenon DEF EventInv, Agreed
    <3> QED BY <3>1, <3>2, Zenon
  <2>6. (core = "live" => failed \subseteq reported \cup Untold(events))'
    BY <2>3, Zenon DEF EventInv, Told
  <2>7. ASSUME qr' # "failed", NEW i \in DOMAIN events', events'[i].kind = "Fatal"
        PROVE  worker' = "ended" /\ i = Len(events')
    <3>1. i \notin DOMAIN events
      BY <1>1, <2>2, <2>7, Zenon DEF EventInv, Told
    <3>2. i = Len(events) + 1
      BY <2>2, <3>1
    <3> QED BY <2>2, <2>7, <3>2, Zenon
  <2>8. qr' # "failed" => purple' # "error"
    BY <1>1, Zenon DEF EventInv, Told
  <2>9. Told'
    BY <2>6, <2>7, <2>8, Zenon DEF Told
  <2> QED BY <2>2, <2>4, <2>5, <2>9, Zenon DEF EventInv
<1> QED BY <1>3, <1>4, Zenon

(* A step of the worker that emits nothing.                                   *)
LEMMA SilentStep ==
    ASSUME EventInv, worker \in Running,
           events' = events \/ events' = Emitted(<<>>),
           UNCHANGED <<core, shown, purple, reported, polling, failed, qr>>,
           worker' \in Running \cup {"ended"},
           ready' => phase' = "Ready" /\ worker' \in {"readying", "dispatch", "handling"},
           worker' # "ended" => worker \notin Announcing,
           worker' \notin Announcing \cup {"ended"} => (ready' <=> ready) /\ phase' = phase,
           worker' = "readying" => ready' /\ ~ ready,
           worker' = "leaving" => phase # "Recovering" /\ phase' = "Recovering"
    PROVE  EventInv'
<1>1. core # "none" /\ worker # "ended" /\ worker # "none" /\ events \in Seq(Events)
  BY Zenon DEF EventInv, Unborn, Running
<1>2. events' = events \/ (core = "closing" /\ events' = <<>>)
  BY <1>1, EmitEffect, Zenon
<1>3. events' \in Seq(Events)
  <2>1. <<>> \in Seq(Events)
    OBVIOUS
  <2> QED BY <1>1, <1>2, <2>1, Zenon
<1>4. Unborn'
  BY <1>1, Zenon DEF Unborn
<1>5. Told'
  <2>1. CASE events' = events
    BY <1>1, <2>1, Zenon DEF EventInv, Told
  <2>2. CASE core = "closing" /\ events' = <<>>
    BY <1>1, <2>2 DEF EventInv, Told
  <2> QED BY <1>2, <2>1, <2>2, Zenon
<1>6. Agreed'
  <2>0. \A w : w \in Announcing <=> w = "readying" \/ w = "leaving"
    BY Zenon DEF Announcing
  <2>1. CASE worker' \in Announcing
    BY <1>1, <1>2, <2>0, <2>1, Zenon DEF EventInv, Agreed
  <2>2. CASE worker' = "ended"
    BY <1>1, <1>2, <2>0, <2>2, Zenon DEF EventInv, Agreed
  <2>3. CASE worker' \notin Announcing \cup {"ended"}
    BY <1>1, <1>2, <2>0, <2>3, Zenon DEF EventInv, Agreed
  <2> QED BY <2>1, <2>2, <2>3, Zenon
<1> QED BY <1>3, <1>4, <1>5, <1>6, Zenon DEF EventInv

(* The adapter creates, polls, closes and frees.                              *)
LEMMA AdapterStep ==
    ASSUME EventInv, New \/ PollEvent \/ Shutdown \/ Free
    PROVE  EventInv'
<1>0. events \in Seq(Events) /\ <<>> \in Seq(Events)
  BY DEF EventInv
<1>1. CASE New
  <2>1. /\ worker = "none" /\ events = <<>> /\ failed = {} /\ shown = "none" /\ ready = FALSE
        /\ purple = "connecting"
    BY <1>1, Zenon DEF New, EventInv, Unborn
  <2>2. /\ UNCHANGED <<events, shown, reported, failed, ready, phase, qr>>
        /\ \/ core' = "live" /\ worker' = "opening" /\ purple' = purple
           \/ core' = core /\ worker' = worker
    BY <1>1, Zenon DEF New, queueVars
  <2>3. ~ Tells(events', shown', "Ready") /\ ~ Tells(events', shown', "Recovering")
        /\ DOMAIN events' = {}
    BY <2>1, <2>2, TellsEmpty
  <2>4. Told' /\ Unborn'
    BY <2>1, <2>2, <2>3, Zenon DEF Told, Unborn
  <2>5. Agreed'
    BY <2>1, <2>2, <2>3, Zenon DEF Agreed
  <2> QED BY <1>0, <2>2, <2>4, <2>5, Zenon DEF EventInv
<1>2. CASE PollEvent
  <2> DEFINE e == Head(events)
  <2>1. /\ core = "live" /\ polling /\ events # <<>> /\ events' = Tail(events)
        /\ shown' = IF e.kind \in {"Ready", "Recovering"} THEN e.kind ELSE shown
        /\ reported' = IF e.kind = "RequestError" THEN reported \cup {e.id} ELSE reported
        /\ purple' = CASE e.kind = "Ready" -> "connected"
                       [] e.kind = "Fatal" -> "error"
                       [] OTHER -> purple
        /\ polling' = (e.kind # "Fatal")
        /\ UNCHANGED <<core, failed, worker, phase, ready, qr>>
    BY <1>2, Zenon DEF PollEvent, queueVars, sessionVars
  <2>2. e \in Events /\ events' \in Seq(Events) /\ Len(events') = Len(events) - 1
        /\ (\A i \in 1 .. Len(events) - 1 : events'[i] = events[i + 1])
        /\ e = events[1] /\ Len(events) \in Nat \ {0}
    BY <1>0, <2>1
  <2>3. DOMAIN events = 1 .. Len(events) /\ DOMAIN events' = 1 .. Len(events) - 1
    BY <1>0, <2>2
  <2>4. /\ Tells(events', shown', "Ready") <=> Tells(events, shown, "Ready")
        /\ Tells(events', shown', "Recovering") <=> Tells(events, shown, "Recovering")
        /\ Untold(events) \subseteq Untold(events')
             \cup (IF e.kind = "RequestError" THEN {e.id} ELSE {})
    <3>1. "Ready" \in Marks /\ "Recovering" \in Marks
      BY Zenon DEF Marks
    <3>2. (e.kind \in Marks => shown' = e.kind) /\ (e.kind \notin Marks => shown' = shown)
      BY <2>1, Zenon DEF Marks
    <3> HIDE DEF e
    <3>3. /\ \A k \in Marks : Tells(Tail(events), shown', k) <=> Tells(events, shown, k)
          /\ Untold(events) \subseteq Untold(Tail(events))
               \cup (IF e.kind = "RequestError" THEN {e.id} ELSE {})
      BY <1>0, <2>1, <3>1, <3>2, TellsTail, Zenon DEF e
    <3> QED BY <2>1, <3>1, <3>3, Zenon
  <2> HIDE DEF e
  <2>5. Unborn'
    BY <2>1, Zenon DEF Unborn
  <2>6. Agreed'
    BY <2>1, <2>4, Zenon DEF EventInv, Agreed
  <2>7. failed' \subseteq reported' \cup Untold(events')
    BY <2>1, <2>4, Zenon DEF EventInv, Told
  <2>8. ASSUME qr' # "failed", NEW i \in DOMAIN events', events'[i].kind = "Fatal"
        PROVE  worker' = "ended" /\ i = Len(events')
    <3>1. i + 1 \in DOMAIN events /\ events[i + 1].kind = "Fatal"
      BY <2>2, <2>3, <2>8
    <3>2. worker = "ended" /\ i + 1 = Len(events)
      BY <2>1, <2>8, <3>1, Zenon DEF EventInv, Told
    <3> QED BY <2>1, <2>2, <2>3, <3>2
  <2>9. ASSUME qr' # "failed", purple' = "error"
        PROVE  worker' \in {"none", "ended"} /\ failed' \subseteq reported'
    <3>1. CASE e.kind = "Fatal"
      <4>1. worker = "ended" /\ 1 = Len(events)
        BY <2>1, <2>2, <2>3, <2>9, <3>1 DEF EventInv, Told
      <4>2. Untold(events') = {}
        <5>1. Len(events') = Len(events) - 1 /\ events' \in Seq(Events)
          BY <2>2, Zenon
        <5>2. Len(events') = 0
          BY <4>1, <5>1
        <5>3. events' = <<>>
          BY <5>1, <5>2
        <5> QED BY <5>3, TellsEmpty, Zenon
      <4> QED BY <2>1, <2>7, <4>1, <4>2, Zenon
    <3>2. CASE e.kind # "Fatal"
      <4>1. purple = "error"
        BY <2>1, <2>9, <3>2, Zenon
      <4>2. worker \in {"none", "ended"} /\ failed \subseteq reported
        BY <2>1, <2>9, <4>1, Zenon DEF EventInv, Told
      <4> QED BY <2>1, <4>2, Zenon
    <3> QED BY <3>1, <3>2, Zenon
  <2> QED BY <2>2, <2>5, <2>6, <2>7, <2>8, <2>9, Zenon DEF EventInv, Told
<1>3. CASE Shutdown
  <2>1. /\ core' = "closing" /\ ready' = FALSE /\ events' = <<>>
        /\ UNCHANGED <<shown, purple, reported, failed, worker, phase, qr>>
    BY <1>3, Zenon DEF Shutdown, queueVars
  <2> QED BY <1>0, <2>1 DEF EventInv, Unborn, Told, Agreed
<1>4. CASE Free
  <2>1. /\ core' = "freed"
        /\ UNCHANGED <<events, ready, shown, purple, reported, failed, worker, phase, qr>>
    BY <1>4, Zenon DEF Free, queueVars, sessionVars
  <2> QED BY <1>0, <2>1, Zenon DEF EventInv, Unborn, Told, Agreed
<1> QED BY <1>1, <1>2, <1>3, <1>4, Zenon

(* The worker ends, with or without a last word.                              *)
LEMMA WorkerEnds ==
    ASSUME EventInv, worker \in Running, Fail \/ End(<<>>)
    PROVE  EventInv'
<1>1. /\ worker' = "ended" /\ ready' = FALSE
      /\ UNCHANGED <<core, shown, purple, reported, polling, failed, qr, phase>>
      /\ events' = Emitted(<<EventOf("Fatal")>>) \/ events' = Emitted(<<>>)
  BY Zenon DEF Fail, End, adapterVars
<1>0. worker' \notin Announcing
  BY <1>1, Zenon DEF Announcing
<1>2. EventOf("Fatal") \in Events /\ EventOf("Fatal").kind = "Fatal"
  BY EventTypes, Zenon DEF EventKinds
<1>3. CASE events' = Emitted(<<EventOf("Fatal")>>)
  BY <1>0, <1>1, <1>2, <1>3, SaidStep, Zenon
<1>4. CASE events' = Emitted(<<>>)
  BY <1>0, <1>1, <1>4, SilentStep, Zenon
<1> QED BY <1>1, <1>3, <1>4, Zenon

(* The worker moves on without a word.                                        *)
LEMMA WorkerMoves ==
    ASSUME EventInv, worker \in Running,
           UNCHANGED <<events, core, shown, purple, reported, polling, failed, qr, phase, ready>>,
           worker' \in Running, worker' \in {"dispatch", "handling"} \/ worker # "dispatch",
           worker = "handling" => worker' = "dispatch", {worker, worker'} \cap Announcing = {}
    PROVE  EventInv'
<1>1. ready => phase = "Ready" /\ worker \in {"readying", "dispatch", "handling"}
  BY Zenon DEF EventInv, Agreed
<1>2. worker \notin Announcing /\ worker' \notin Announcing
  BY Zenon
<1>3. {worker, worker'} \cap {"readying", "leaving"} = {}
  BY Zenon DEF Announcing
<1>4. ready' => phase' = "Ready" /\ worker' \in {"readying", "dispatch", "handling"}
  BY <1>1, <1>3, Zenon
<1> QED BY <1>2, <1>3, <1>4, SilentStep, Zenon

(* The steps of the worker that say something, one by one.                    *)
LEMMA WorkerSpeaks ==
    ASSUME EventInv, QueueShape,
           \/ ShowQr \/ StartFailsTransiently \/ LoseStream \/ AnnounceRecovering
           \/ FailDeferred \/ BecomeReady \/ AnnounceReady \/ FinishCommand
    PROVE  EventInv'
<1> USE DEF adapterVars, queueVars, sessionVars
<1>0. /\ \A k \in EventKinds : EventOf(k) \in Events /\ EventOf(k).kind = k
      /\ {"LinkQr", "Fatal", "Recovering", "Ready", "Answer"} \subseteq EventKinds
      /\ "LinkQr" \notin Marks /\ "Fatal" \notin Marks /\ "Answer" \notin Marks
      /\ "RequestError" \notin Marks /\ "Recovering" \in Marks /\ "Ready" \in Marks
      /\ ready => phase = "Ready" /\ worker \in {"readying", "dispatch", "handling"}
      /\ worker = "leaving" => phase = "Recovering"
      /\ core = "live" /\ worker = "readying" => ready
      /\ \A w : w \in Announcing <=> w = "readying" \/ w = "leaving"
  BY EventTypes, Zenon DEF EventKinds, Marks, EventInv, Agreed, Announcing
<1>1. CASE ShowQr
  <2>1. /\ worker \in Running /\ worker = "linking" /\ qr # "failed"
        /\ UNCHANGED <<core, shown, purple, reported, polling, failed, worker, phase, ready>>
    BY <1>1, Zenon DEF ShowQr, Running
  <2>4. worker \notin Announcing /\ ~ ready
    BY <1>0, <2>1, Zenon DEF Announcing
  <2>2. CASE events' = Emitted(<<EventOf("LinkQr")>>) /\ qr' = "shown"
    <3>1. EventOf("LinkQr") \in Events /\ EventOf("LinkQr").kind = "LinkQr"
      BY <1>0, Zenon
    <3> QED BY <1>0, <2>1, <2>2, <2>4, <3>1, SaidStep, Zenon
  <2>3. CASE events' = Emitted(<<EventOf("Fatal")>>) /\ qr' = "failed"
    <3>1. EventOf("Fatal") \in Events /\ EventOf("Fatal").kind = "Fatal"
      BY <1>0, Zenon
    <3> QED BY <1>0, <2>1, <2>3, <2>4, <3>1, SaidStep, Zenon
  <2> QED BY <1>1, <2>2, <2>3, Zenon DEF ShowQr
<1>2. CASE StartFailsTransiently \/ LoseStream
  <2>1. /\ worker \in Running /\ worker \in {"starting", "dispatch"}
        /\ worker' = (IF phase # "Recovering" THEN "leaving" ELSE "recovering")
        /\ worker' \in Running /\ ready' = FALSE /\ phase' = "Recovering"
        /\ UNCHANGED <<core, shown, purple, reported, polling, failed, qr, events>>
    BY <1>2, Zenon DEF StartFailsTransiently, LoseStream, EnterRecovery, Running
  <2>2. worker \notin Announcing
    BY <1>0, <2>1, Zenon
  <2>3. CASE phase = "Recovering"
    <3>1. ~ ready /\ worker' = "recovering" /\ phase' = phase
      BY <1>0, <2>1, <2>3, Zenon
    <3> QED BY <1>0, <2>1, <2>2, <3>1, SilentStep, Zenon
  <2>4. CASE phase # "Recovering"
    <3>1. worker' = "leaving"
      BY <2>1, <2>4, Zenon
    <3> QED BY <1>0, <2>1, <2>2, <2>4, <3>1, SilentStep, Zenon
  <2> QED BY <2>3, <2>4, Zenon
<1>6. CASE AnnounceRecovering
  <2>1. /\ worker \in Running /\ worker = "leaving" /\ worker' = "recovering" /\ worker' \in Running
        /\ events' = Emitted(<<EventOf("Recovering")>>)
        /\ UNCHANGED <<core, shown, purple, reported, polling, failed, qr, phase, ready>>
    BY <1>6, Zenon DEF AnnounceRecovering, Running
  <2>2. EventOf("Recovering") \in Events /\ EventOf("Recovering").kind = "Recovering"
    BY <1>0, Zenon
  <2>3. ~ ready' /\ phase' = "Recovering" /\ worker' \notin Announcing
    BY <1>0, <2>1, Zenon
  <2> QED BY <1>0, <2>1, <2>2, <2>3, SaidStep, Zenon
<1>3. CASE FailDeferred
  <2> DEFINE n == Head(deferred).id
  <2>1. /\ worker \in Running /\ worker = "failing" /\ deferred # <<>>
        /\ UNCHANGED <<core, shown, purple, reported, polling, qr, worker, phase, ready>>
    BY <1>3, Zenon DEF FailDeferred, Running
  <2>5. worker \notin Announcing /\ ~ ready
    BY <1>0, <2>1, Zenon DEF Announcing
  <2>2. n \in Nat
    <3>1. Head(deferred) \in Commands
      BY <2>1 DEF QueueShape
    <3> QED BY <3>1, Zenon DEF Commands
  <2>3. CASE events' = events /\ failed' = failed
    BY <1>0, <2>1, <2>3, <2>5, SilentStep, Zenon DEF Announcing
  <2>4. CASE events' = Emitted(<<RequestError(n)>>) /\ failed' = failed \cup {n}
    <3> DEFINE e == RequestError(n)
    <3>1. e \in Events /\ e.kind = "RequestError" /\ e.id = n
      BY <2>2, EventTypes, Zenon
    <3>2. events' = Emitted(<<e>>)
      BY <2>4, Zenon
    <3> HIDE DEF e, n
    <3> QED BY <1>0, <2>1, <2>4, <2>5, <3>1, <3>2, SaidStep, Zenon
  <2> QED BY <1>3, <2>3, <2>4, Zenon DEF FailDeferred
<1>4. CASE BecomeReady
  <2>1. /\ worker \in Running /\ worker = "startup" /\ worker' = "readying" /\ worker' \in Running
        /\ ready' = TRUE /\ phase' = "Ready"
        /\ UNCHANGED <<core, shown, purple, reported, polling, failed, qr, events>>
    BY <1>4, Zenon DEF BecomeReady, Running
  <2>2. ~ ready /\ worker \notin Announcing /\ worker' \in Announcing
    BY <2>1, Zenon DEF Announcing, EventInv, Agreed
  <2> QED BY <1>0, <2>1, <2>2, SilentStep, Zenon
<1>7. CASE AnnounceReady
  <2>1. /\ worker \in Running /\ worker = "readying" /\ worker' = "dispatch" /\ worker' \in Running
        /\ events' = Emitted(<<EventOf("Ready")>>)
        /\ UNCHANGED <<core, shown, purple, reported, polling, failed, qr, phase, ready>>
    BY <1>7, Zenon DEF AnnounceReady, Running
  <2>2. EventOf("Ready") \in Events /\ EventOf("Ready").kind = "Ready"
    BY <1>0, Zenon
  <2>3. worker' \notin Announcing /\ (ready' => phase' = "Ready") /\ (core = "live" => ready')
    BY <2>1, Zenon DEF Announcing, EventInv, Agreed
  <2> QED BY <1>0, <2>1, <2>2, <2>3, SaidStep, Zenon
<1>5. CASE FinishCommand
  <2>1. /\ worker \in Running /\ worker' = "dispatch" /\ worker' \in Running
        /\ events' = events \/ events' = Emitted(<<EventOf("Answer")>>)
        /\ UNCHANGED <<core, shown, purple, reported, polling, failed, qr, phase, ready>>
    BY <1>5, Zenon DEF FinishCommand, Running
  <2>5. worker \notin Announcing /\ worker' \notin Announcing /\ (ready' => phase' = "Ready")
    <3>1. worker = "handling"
      BY <1>5, Zenon DEF FinishCommand
    <3>2. worker \notin Announcing /\ worker' \notin Announcing
      BY <2>1, <3>1, Zenon DEF Announcing
    <3> QED BY <1>0, <2>1, <3>2, Zenon
  <2>2. EventOf("Answer") \in Events /\ EventOf("Answer").kind = "Answer"
    BY <1>0, Zenon
  <2>3. CASE events' = events
    BY <2>1, <2>3, <2>5, SilentStep, Zenon
  <2>4. CASE events' = Emitted(<<EventOf("Answer")>>)
    BY <1>0, <2>1, <2>2, <2>4, <2>5, SaidStep, Zenon
  <2> QED BY <2>1, <2>3, <2>4, Zenon
<1> QED BY <1>1, <1>2, <1>3, <1>4, <1>5, <1>6, <1>7, Zenon

(* No step lets the adapter's picture drift from the worker's state.          *)
LEMMA EventStep ==
    ASSUME EventInv, QueueShape, [Next]_vars
    PROVE  EventInv'
<1> USE DEF adapterVars, queueVars, sessionVars
<1>1. CASE UNCHANGED <<events, core, shown, purple, reported, polling, failed, qr, phase, ready,
                       worker>>
  BY <1>1, Zenon DEF EventInv, Unborn, Told, Agreed
<1>2. CASE UNCHANGED vars \/ TrySend
  BY <1>1, <1>2, Zenon DEF vars, TrySend
<1>3. CASE SendMessage \/ LeaveGroup \/ SetTyping \/ MarkRead \/ ControlIdentity
  BY <1>1, <1>3, Zenon DEF SendMessage, LeaveGroup, SetTyping, MarkRead, ControlIdentity,
                    QueueCommand, QueueControlCommand, Calling
<1>4. CASE New \/ PollEvent \/ Shutdown \/ Free
  BY <1>4, AdapterStep, Zenon
<1>5. ASSUME NEW from \in Running \ Announcing, NEW to \in Running \ Announcing,
             from \notin {"dispatch", "handling"}, Goto(from, to)
      PROVE  EventInv'
  BY <1>5, WorkerMoves, Zenon DEF Goto, Running
<1>6. CASE Stop \/ Panic \/ GiveUp
  <2>1. worker \in Running
    BY <1>6, Zenon DEF Stop, Panic, GiveUp, Running, Interruptible
  <2> QED BY <1>6, <2>1, WorkerEnds, Zenon DEF Stop, Panic, GiveUp
<1>7. CASE Prepare
  <2>1. CASE /\ worker \in {"opening", "loading", "linking", "initializing"}
             /\ Fail
    BY <2>1, WorkerEnds, Zenon DEF Running
  <2>2. CASE \/ Goto("opening", "checking") \/ Goto("checking", "loading")
             \/ Goto("checking", "linking") \/ Goto("loading", "initializing")
             \/ Goto("linking", "initializing") \/ Goto("initializing", "starting")
    BY <1>5, <2>2, Zenon DEF Running, Announcing
  <2> QED BY <1>7, <2>1, <2>2, Zenon DEF Prepare, OpenStore, CheckRegistered, LoadRegistered,
                                  LinkDevice, InitializeSubsystems
<1>8. CASE DelayElapses \/ StartReceiving
  BY <1>5, <1>8, Zenon DEF DelayElapses, StartReceiving, Running, Announcing
<1>9. CASE ReceiveRecoveryCommand \/ QueueEmpty
  BY <1>1, <1>9, Zenon DEF ReceiveRecoveryCommand, QueueEmpty
<1>10. CASE WaitOutRecovery \/ TakeCommand
  BY <1>10, WorkerMoves, Zenon DEF WaitOutRecovery, TakeCommand, Running, Announcing
<1>11. CASE StartFails
  <2>1. /\ worker = "starting" /\ worker' = "failing" /\ ready' = FALSE /\ worker \in Running
        /\ UNCHANGED <<events, core, shown, purple, reported, polling, failed, qr, phase>>
    BY <1>11, Zenon DEF StartFails, Running
  <2>2. ~ ready
    BY <2>1, Zenon DEF EventInv, Agreed
  <2> QED BY <2>1, <2>2, SilentStep, Zenon DEF Running, Announcing
<1>12. CASE ShowQr \/ StartFailsTransiently \/ LoseStream \/ AnnounceRecovering \/ FailDeferred
            \/ BecomeReady \/ AnnounceReady \/ FinishCommand
  BY <1>12, WorkerSpeaks, Zenon
<1> QED
  BY <1>2, <1>3, <1>4, <1>6, <1>7, <1>8, <1>9, <1>10, <1>11, <1>12, Zenon
     DEF Next, Adapter, Reconnect

-----------------------------------------------------------------------------
(* The delays of recovery.                                                    *)

(* Steps that leave the backoff alone.                                        *)
LEMMA WaitKept ==
    ASSUME WaitInv, UNCHANGED <<backoff, delay, drained, failures>>,
           worker \in {"leaving", "recovering"} => worker' \in {"leaving", "recovering", "ended"},
           worker = "ended" => worker' = "ended"
    PROVE  WaitInv'
  BY Zenon DEF WaitInv, Waited

(* No step loses count of the failures in a row.                              *)
LEMMA WaitStep ==
    ASSUME WaitInv, Unborn, [Next]_vars
    PROVE  WaitInv'
<1> USE DEF adapterVars, queueVars, sessionVars, backoffVars
<1>1. CASE UNCHANGED vars \/ TrySend \/ PollEvent \/ Shutdown \/ Free \/ ReceiveRecoveryCommand
           \/ ShowQr \/ FailDeferred
  BY <1>1, WaitKept, Zenon DEF vars, TrySend, PollEvent, Shutdown, Free, ReceiveRecoveryCommand,
     ShowQr,
                        FailDeferred
<1>2. CASE SendMessage \/ LeaveGroup \/ SetTyping \/ MarkRead \/ ControlIdentity
  BY <1>2, WaitKept, Zenon DEF SendMessage, LeaveGroup, SetTyping, MarkRead, ControlIdentity,
                        QueueCommand, QueueControlCommand, Calling
<1>3. CASE New
  BY <1>3, WaitKept, Zenon DEF New, Unborn
<1>4. ASSUME NEW from, NEW to, from \notin {"leaving", "recovering", "ended"}, Goto(from, to)
      PROVE  WaitInv'
  BY <1>4, WaitKept, Zenon DEF Goto
<1>5. ASSUME NEW es, End(es) PROVE WaitInv'
  BY <1>5, WaitKept, Zenon DEF End
<1>6. CASE Stop \/ Panic \/ GiveUp
  BY <1>5, <1>6, Zenon DEF Stop, Panic, GiveUp, Fail
<1>7. CASE Prepare
  BY <1>4, <1>5, <1>7, Zenon DEF Prepare, OpenStore, CheckRegistered, LoadRegistered, LinkDevice,
                          InitializeSubsystems, Fail
<1>8. CASE DelayElapses \/ StartReceiving
  BY <1>4, <1>8, Zenon DEF DelayElapses, StartReceiving
<1>9. CASE StartFails \/ BecomeReady \/ AnnounceReady \/ AnnounceRecovering \/ TakeCommand
           \/ FinishCommand
  BY <1>9, WaitKept, Zenon DEF StartFails, BecomeReady, AnnounceReady, AnnounceRecovering, TakeCommand,
     FinishCommand
<1>10. CASE StartFailsTransiently \/ LoseStream
  <2>1. /\ failures' = failures + 1 /\ worker' \in {"leaving", "recovering"}
        /\ worker \in {"starting", "dispatch"}
        /\ UNCHANGED <<backoff, delay, drained>>
    BY <1>10, Zenon DEF StartFailsTransiently, LoseStream, EnterRecovery
  <2> QED BY <2>1 DEF WaitInv, Waited
<1>11. CASE WaitOutRecovery
  <2>1. /\ delay' = NextDelay /\ backoff' = backoff + 1 /\ drained' = FALSE
        /\ failures' = failures
    BY <1>11, Zenon DEF WaitOutRecovery
  <2> QED BY <2>1, SessionAssumption DEF WaitInv, Waited, NextDelay
<1>12. CASE QueueEmpty
  BY <1>12 DEF QueueEmpty, WaitInv, Waited
<1> QED
  BY <1>1, <1>2, <1>3, <1>6, <1>7, <1>8, <1>9, <1>10, <1>11, <1>12
     DEF Next, Adapter, Reconnect

-----------------------------------------------------------------------------
(* The state before the core is created.                                      *)
LEMMA InitInv == Init => QueueInv /\ EventInv /\ WaitInv
<1> SUFFICES ASSUME Init PROVE QueueInv /\ EventInv /\ WaitInv
  BY Zenon
<1> USE DEF Init
<1>1. QueueShape
  BY FS_EmptySet DEF QueueShape
<1>2. Ordered
  BY IdsEmpty, Zenon DEF Ordered, Before
<1>3. Stamped
  BY DEF Stamped
<1>4. Counted
  BY IdsEmpty, FS_EmptySet DEF Counted
<1>5. events \in Seq(Events) /\ Unborn
  BY DEF Unborn
<1>6. Told /\ Agreed
  BY DEF Told, Agreed
<1>7. WaitInv
  BY DEF WaitInv, Waited
<1> QED BY <1>1, <1>2, <1>3, <1>4, <1>5, <1>6, <1>7, Zenon DEF QueueInv, EventInv

(* The inductive invariant holds in every state of the session.               *)
THEOREM SessionInvariant == Spec => [](QueueInv /\ EventInv /\ WaitInv)
<1>1. ASSUME QueueInv /\ EventInv /\ WaitInv, [Next]_vars
      PROVE  (QueueInv /\ EventInv /\ WaitInv)'
  BY <1>1, QueueStep, EventStep, WaitStep, Zenon DEF QueueInv, EventInv
<1> QED BY <1>1, InitInv, PTL DEF Spec

(* Commands are taken up in the order in which ffi.rs accepted them, however  *)
(* many recoveries deferred some of them, and the timestamps they take from   *)
(* MessageTimestampAllocator grow strictly whatever the clock does.           *)
THEOREM TakenInOrder == Spec => []SentInOrder
<1>1. QueueInv => SentInOrder
  BY Zenon DEF QueueInv, Ordered, Rising, Stamped, SentInOrder
<1> QED BY <1>1, SessionInvariant, PTL

(* Until the worker ends, every command the adapter was told is accepted is   *)
(* in exactly one place, and when Purple learns that the connection could not *)
(* be re-established it has learnt of each deferred request that failed.      *)
THEOREM NoCommandVanishes == Spec => []NothingVanishes
<1>1. QueueInv /\ EventInv => NothingVanishes
  <2> SUFFICES ASSUME QueueInv, EventInv PROVE NothingVanishes
    BY Zenon
  <2>1. worker \in Running => worker # "ended"
    BY Zenon DEF Running
  <2>2. Counted /\ Told
    BY Zenon DEF QueueInv, EventInv
  <2>3. purple = "error" /\ qr # "failed" => failed \subseteq reported
    BY <2>2, Zenon DEF Told
  <2> QED BY <2>1, <2>2, <2>3, Zenon DEF Counted, NothingVanishes
<1> QED BY <1>1, SessionInvariant, PTL

(* Once the adapter has handled every event, what it shows is the ready flag  *)
(* of the worker, after any number of lost streams and failed reconnections,  *)
(* except between the worker's store to the flag and its event, where the     *)
(* flag is ahead.                                                             *)
THEOREM ReadinessAgrees == Spec => []ShownAgrees
<1>1. EventInv => ShownAgrees
  <2> SUFFICES ASSUME EventInv, core = "live", polling, worker \in Running, events = <<>>
               PROVE  /\ worker \notin Announcing => (shown = "Ready" <=> ready)
                      /\ worker = "readying" => ready /\ shown # "Ready"
                      /\ worker = "leaving" => ~ ready /\ shown # "Recovering"
    BY Zenon DEF ShownAgrees
  <2>1. worker # "ended" /\ (worker \in Announcing <=> worker = "readying" \/ worker = "leaving")
    BY Zenon DEF Running, Announcing
  <2>2. /\ Tells(events, shown, "Ready") <=> shown = "Ready"
        /\ Tells(events, shown, "Recovering") <=> shown = "Recovering"
    BY TellsEmpty, Zenon
  <2> QED BY <2>1, <2>2, Zenon DEF EventInv, Agreed
<1> QED BY <1>1, SessionInvariant, PTL

(* RecoveryBackoff starts over only when a stream drained its queue: a        *)
(* connection that keeps breaking before waits longer each time, up to the    *)
(* last delay of the table.                                                   *)
THEOREM BackoffKeepsGrowing == Spec => BackoffFollowsDrain
<1>1. ASSUME WaitInv, [Next]_vars
      PROVE  [worker = "recovering" /\ worker' = "backoff" =>
               IF drained THEN delay' = 0
               ELSE failures > 1 => delay' > delay \/ delay' = Delays - 1]_vars
  <2> SUFFICES ASSUME worker = "recovering", worker' = "backoff"
               PROVE  IF drained THEN delay' = 0
                      ELSE failures > 1 => delay' > delay \/ delay' = Delays - 1
    BY Zenon
  <2>1. WaitOutRecovery
    <3> USE DEF adapterVars, queueVars, sessionVars, backoffVars
    <3>1. ~ (UNCHANGED vars)
      BY Zenon DEF vars
    <3>2. ~ Adapter
      BY Zenon DEF Adapter, New, SendMessage, LeaveGroup, SetTyping, MarkRead, ControlIdentity,
             QueueCommand, QueueControlCommand, Calling, TrySend, PollEvent, Shutdown, Free
    <3>3. \A es : ~ End(es)
      BY Zenon DEF End
    <3>4. ~ Prepare /\ ~ Stop /\ ~ Panic /\ ~ GiveUp
      BY <3>3, Zenon DEF Prepare, OpenStore, CheckRegistered, LoadRegistered, LinkDevice,
                  InitializeSubsystems, Goto, Stop, Panic, GiveUp, Fail
    <3>5. ~ (DelayElapses \/ StartReceiving \/ StartFailsTransiently \/ AnnounceRecovering
             \/ StartFails \/ FailDeferred)
      BY Zenon DEF DelayElapses, StartReceiving, StartFailsTransiently, AnnounceRecovering, StartFails,
         FailDeferred, Goto
    <3>6. ~ (ShowQr \/ ReceiveRecoveryCommand \/ BecomeReady \/ AnnounceReady \/ QueueEmpty
             \/ LoseStream \/ TakeCommand \/ FinishCommand)
      BY Zenon DEF ShowQr, ReceiveRecoveryCommand, BecomeReady, AnnounceReady, QueueEmpty, LoseStream,
         TakeCommand,
             FinishCommand
    <3> QED BY <1>1, <3>1, <3>2, <3>4, <3>5, <3>6, Zenon DEF Next, Reconnect
  <2>2. delay' = NextDelay
    BY <2>1, Zenon DEF WaitOutRecovery
  <2> QED BY <1>1, <2>2, SessionAssumption DEF WaitInv, Waited, NextDelay
<1> QED BY <1>1, SessionInvariant, PTL DEF Spec, BackoffFollowsDrain

=============================================================================
