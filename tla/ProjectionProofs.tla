-------------------------- MODULE ProjectionProofs --------------------------
(* The way of a message through the projection, for every set of messages and *)
(* every limit: the acknowledgment inbox agrees with the pending projections  *)
(* and what is stored and not recorded is on its way; and while the window of *)
(* recent identities covers the messages, each is handed to Purple at most    *)
(* once by a process and the promise of MessageDelivery is kept.              *)
EXTENDS Projection, ListLemmas

Inboxes == [open : BOOLEAN, registered : SUBSET Nat, accepted : SUBSET Nat,
            ready : Seq(Nat), retry : Seq(Nat)]

Events == [id : Nat, msg : Messages]

(* What the variables hold that Agree does not speak of.                      *)
Shape ==
    /\ store \in [Messages -> {"none", "stored", "projected"}]
    /\ stream \in Seq(Messages) /\ ready \in Seq(Messages) /\ waiting \in Seq(Messages)
    /\ completed \in Seq(Messages)
    /\ queue \in Seq(Events)
    /\ \A e \in Range(queue) : e.id \in 1 .. nextId
    /\ shown \in [Messages -> Nat]
    /\ phase \in {"recovering", "startup", "active"}
    /\ pc \in {"loop", "handling", "marking", "acking", "drain", "stopped"}
    /\ main \in {"up", "closed", "shutdown"}

(* A delivery id stands for one pending message and waits in one place.       *)
Agree ==
    /\ nextId \in 0 .. MaxDeliveries
    /\ pending \in [DOMAIN pending -> Messages] /\ DOMAIN pending \subseteq 1 .. nextId
    /\ inbox \in Inboxes /\ batch \in Seq(Nat)
    /\ inbox.registered = DOMAIN pending /\ inbox.accepted \subseteq DOMAIN pending
    /\ Range(inbox.ready) \subseteq inbox.accepted
    /\ Range(inbox.retry) \subseteq inbox.accepted
    /\ Range(batch) \subseteq inbox.accepted
    /\ Distinct(inbox.ready) /\ Distinct(inbox.retry) /\ Distinct(batch)
    /\ Range(inbox.ready) \cap Range(inbox.retry) = {}
    /\ Range(inbox.ready) \cap Range(batch) = {}
    /\ Range(inbox.retry) \cap Range(batch) = {}
    /\ identities = {pending[i] : i \in DOMAIN pending}
    /\ \A i, j \in DOMAIN pending : pending[i] = pending[j] => i = j

Busy == pc \in {"handling", "marking"}

(* The actor works on a pending message, and holds a batch only while it      *)
(* records acknowledgments.                                                   *)
Stand ==
    /\ Busy => current \in DOMAIN pending
    /\ pc \notin {"acking", "drain"} => batch = <<>>
    /\ pc = "acking" => batch # <<>>

(* Group content is in the replay queue proper only once the groups are       *)
(* authoritative, and what counts as completed is recorded.                   *)
Way ==
    /\ StillOnItsWay
    /\ phase = "active" /\ ~staleReplay /\ ~authoritative => Range(ready) \cap GroupMessages = {}
    /\ \A m \in Completed : store[m] = "projected"

(* Until shutdown interrupts a write, what is pending is not recorded, and    *)
(* what is recorded and may come again is remembered.                         *)
Incoming == Range(stream) \cup Range(ready) \cup Range(waiting)
Remembered ==
    /\ \A m \in identities : store[m] = "stored"
    /\ \A m \in Incoming : store[m] = "stored" \/ m \in Completed

(* An event stands for a pending message that was not shown, and what was     *)
(* shown is pending or recorded.                                              *)
Unseen ==
    /\ Distinct(queue)
    /\ \A e \in Range(queue) :
          /\ e.id \in DOMAIN pending /\ e.id \notin inbox.accepted
          /\ pending[e.id] = e.msg /\ shown[e.msg] = 0
          /\ Busy => e.id # current
    /\ Busy => current \notin inbox.accepted /\ shown[pending[current]] = 0
    /\ \A m \in Messages : shown[m] = 1 => m \in identities \cup Completed
Once ==
    /\ Distinct(completed)
    /\ shown \in [Messages -> {0, 1}]
    /\ main # "shutdown" => Remembered /\ Unseen

(* The window of recent identities has room for every message.                *)
WindowCovers == Cardinality(Messages) <= RecentLimit

-----------------------------------------------------------------------------
(* The inbox and the pending projections.                                     *)

(* An id that is unregistered is in no list of the inbox any more.            *)
LEMMA Unregistered ==
    ASSUME NEW b \in Inboxes, NEW id, Distinct(b.ready), Distinct(b.retry)
    PROVE  /\ Unregister(b, id) \in Inboxes
           /\ Unregister(b, id).registered = b.registered \ {id}
           /\ Unregister(b, id).accepted = b.accepted \ {id}
           /\ Range(Unregister(b, id).ready) = Range(b.ready) \ {id}
           /\ Range(Unregister(b, id).retry) = Range(b.retry) \ {id}
           /\ Distinct(Unregister(b, id).ready) /\ Distinct(Unregister(b, id).retry)
<1>1. b.ready \in Seq(Nat) /\ b.retry \in Seq(Nat)
  BY Zenon DEF Inboxes
<1>2. /\ Without(b.ready, id) \in Seq(Nat) /\ Distinct(Without(b.ready, id))
      /\ Range(Without(b.ready, id)) = Range(b.ready) \ {id}
  BY <1>1, RemoveFirstEntries, Zenon DEF Without
<1>3. /\ Without(b.retry, id) \in Seq(Nat) /\ Distinct(Without(b.retry, id))
      /\ Range(Without(b.retry, id)) = Range(b.retry) \ {id}
  BY <1>1, RemoveFirstEntries, Zenon DEF Without
<1>4. /\ Unregister(b, id) \in Inboxes
      /\ Unregister(b, id).registered = b.registered \ {id}
      /\ Unregister(b, id).accepted = b.accepted \ {id}
      /\ Unregister(b, id).ready = Without(b.ready, id)
      /\ Unregister(b, id).retry = Without(b.retry, id)
  BY <1>2, <1>3, Zenon DEF Unregister, Inboxes
<1> QED BY <1>2, <1>3, <1>4, Zenon

(* release and complete, with a batch that has lost the id.                   *)
LEMMA ReleaseAgrees ==
    ASSUME Agree, NEW id \in DOMAIN pending,
           pending' = Drop(pending, id), identities' = identities \ {pending[id]},
           inbox' = Unregister(inbox, id), nextId' = nextId,
           batch' \in Seq(Nat), Distinct(batch'), Range(batch') \subseteq Range(batch) \ {id}
    PROVE  /\ Agree'
           /\ DOMAIN pending' = DOMAIN pending \ {id}
           /\ \A i \in DOMAIN pending' : pending'[i] = pending[i]
           /\ inbox'.accepted = inbox.accepted \ {id}
<1>1. /\ DOMAIN pending' = DOMAIN pending \ {id}
      /\ \A i \in DOMAIN pending' : pending'[i] = pending[i]
      /\ pending' \in [DOMAIN pending' -> Messages]
  BY Zenon DEF Drop, Agree
<1>2. /\ inbox' \in Inboxes
      /\ inbox'.registered = inbox.registered \ {id}
      /\ inbox'.accepted = inbox.accepted \ {id}
      /\ Range(inbox'.ready) = Range(inbox.ready) \ {id}
      /\ Range(inbox'.retry) = Range(inbox.retry) \ {id}
      /\ Distinct(inbox'.ready) /\ Distinct(inbox'.retry)
  BY Unregistered, Zenon DEF Agree
<1>3. identities' = {pending'[i] : i \in DOMAIN pending'}
  <2>1. ASSUME NEW m \in identities' PROVE \E i \in DOMAIN pending' : m = pending'[i]
    <3>1. m \in identities /\ m # pending[id]
      BY Zenon
    <3>2. PICK i \in DOMAIN pending : m = pending[i]
      BY <3>1, Zenon DEF Agree
    <3> QED BY <1>1, <3>1, <3>2, Zenon
  <2>2. \A i \in DOMAIN pending' : pending'[i] \in identities'
    BY <1>1 DEF Agree
  <2> QED BY <2>1, <2>2
<1>4. \A i, j \in DOMAIN pending' : pending'[i] = pending'[j] => i = j
  BY <1>1, Zenon DEF Agree
<1>5. nextId' \in 0 .. MaxDeliveries /\ DOMAIN pending' \subseteq 1 .. nextId'
  BY <1>1, Zenon DEF Agree
<1>6. /\ Range(inbox'.ready) \subseteq inbox'.accepted
      /\ Range(inbox'.retry) \subseteq inbox'.accepted
      /\ Range(batch') \subseteq inbox'.accepted
      /\ Range(inbox'.ready) \cap Range(inbox'.retry) = {}
      /\ Range(inbox'.ready) \cap Range(batch') = {}
      /\ Range(inbox'.retry) \cap Range(batch') = {}
      /\ inbox'.registered = DOMAIN pending' /\ inbox'.accepted \subseteq DOMAIN pending'
  BY <1>1, <1>2, Zenon DEF Agree
<1>7. Agree'
  BY <1>1, <1>2, <1>3, <1>4, <1>5, <1>6, Zenon DEF Agree
<1> QED BY <1>1, <1>2, <1>7, Zenon

(* track, for a message that is not pending.                                  *)
LEMMA TrackAgrees ==
    ASSUME Agree, nextId < MaxDeliveries, NEW m \in Messages, m \notin identities, Track(m),
           batch' = batch
    PROVE  /\ Agree'
           /\ nextId + 1 \notin DOMAIN pending
           /\ DOMAIN pending' = DOMAIN pending \cup {nextId + 1}
           /\ pending'[nextId + 1] = m
           /\ \A i \in DOMAIN pending : pending'[i] = pending[i]
           /\ inbox'.accepted = inbox.accepted
<1>1. nextId \in Nat /\ nextId + 1 \notin DOMAIN pending /\ nextId + 1 \in Nat
  BY ProjectionAssumption DEF Agree
<1>2. /\ DOMAIN pending' = DOMAIN pending \cup {nextId + 1}
      /\ pending'[nextId + 1] = m
      /\ \A i \in DOMAIN pending : pending'[i] = pending[i]
      /\ pending' \in [DOMAIN pending' -> Messages]
  BY <1>1, Zenon DEF Track, Agree
<1>3. /\ inbox' \in Inboxes /\ inbox'.registered = inbox.registered \cup {nextId + 1}
      /\ inbox'.accepted = inbox.accepted
      /\ inbox'.ready = inbox.ready /\ inbox'.retry = inbox.retry
  BY <1>1, Zenon DEF Track, Register, Agree, Inboxes
<1>4. identities' = {pending'[i] : i \in DOMAIN pending'}
  <2>1. identities' = identities \cup {m}
    BY Zenon DEF Track
  <2>2. \A k \in identities' : \E i \in DOMAIN pending' : k = pending'[i]
    BY <1>2, <2>1 DEF Agree
  <2>3. \A i \in DOMAIN pending' : pending'[i] \in identities'
    BY <1>2, <2>1, Zenon DEF Agree
  <2> QED BY <2>2, <2>3, Zenon
<1>5. \A i, j \in DOMAIN pending' : pending'[i] = pending'[j] => i = j
  BY <1>2 DEF Agree
<1>6. nextId' \in 0 .. MaxDeliveries /\ DOMAIN pending' \subseteq 1 .. nextId'
  BY <1>1, <1>2, ProjectionAssumption DEF Agree, Track
<1>7. Agree'
  BY <1>2, <1>3, <1>4, <1>5, <1>6, Zenon DEF Agree
<1> QED BY <1>1, <1>2, <1>3, <1>7, Zenon

(* submit: the id joins the accepted and the ready ones, or nothing changes.  *)
LEMMA SubmitAgrees ==
    ASSUME Agree, NEW id, Submit(id), UNCHANGED <<trackVars, batch>>
    PROVE  Agree' /\ inbox'.accepted \subseteq inbox.accepted \cup {id}
<1>1. CASE ~SubmitWakes(id)
  <2>1. inbox' = inbox
    BY <1>1, Zenon DEF Submit, inboxVars
  <2> QED BY <2>1 DEF Agree, trackVars
<1>2. CASE SubmitWakes(id)
  <2>1. id \in inbox.registered /\ id \notin inbox.accepted /\ id \in Nat
    BY <1>2, Zenon DEF SubmitWakes, Agree, Inboxes
  <2>2. inbox.ready \in Seq(Nat) /\ Distinct(inbox.ready) /\ id \notin Range(inbox.ready)
    BY <2>1, Zenon DEF Agree, Inboxes
  <2>3. /\ Append(inbox.ready, id) \in Seq(Nat)
        /\ Range(Append(inbox.ready, id)) = Range(inbox.ready) \cup {id}
        /\ Distinct(Append(inbox.ready, id))
    BY <2>1, <2>2, AppendEntries
  <2> DEFINE s == Append(inbox.ready, id)
             acc == inbox.accepted \cup {id}
  <2>4. inbox' = [inbox EXCEPT !.accepted = acc, !.ready = s]
    BY <1>2, Zenon DEF Submit
  <2>5. acc \in SUBSET Nat /\ s \in Seq(Nat)
    BY <2>1, <2>3, Zenon DEF Agree, Inboxes
  <2> HIDE DEF s, acc
  <2>6. /\ inbox' \in Inboxes /\ inbox'.registered = inbox.registered
        /\ inbox'.accepted = acc /\ inbox'.ready = s /\ inbox'.retry = inbox.retry
    BY <2>4, <2>5, Zenon DEF Agree, Inboxes
  <2> QED BY <2>1, <2>3, <2>6 DEF Agree, trackVars, s, acc
<1> QED BY <1>1, <1>2, Zenon

(* take_ready moves ids from the list to the batch.                           *)
LEMMA TakeAgrees ==
    ASSUME Agree, batch = <<>>, TakeReady, UNCHANGED trackVars
    PROVE  Agree' /\ inbox'.accepted = inbox.accepted
<1> DEFINE n == IF AckBatch < Len(inbox.ready) THEN AckBatch ELSE Len(inbox.ready)
           a == SubSeq(inbox.ready, 1, n)
           b == SubSeq(inbox.ready, n + 1, Len(inbox.ready))
<1>1. inbox.ready \in Seq(Nat) /\ Distinct(inbox.ready) /\ Len(inbox.ready) \in Nat
  BY DEF Agree, Inboxes
<1>2. n \in 0 .. Len(inbox.ready)
  BY <1>1, ProjectionAssumption
<1> HIDE DEF n
<1>3. /\ a \in Seq(Nat) /\ b \in Seq(Nat) /\ Range(inbox.ready) = Range(a) \cup Range(b)
      /\ Distinct(a) /\ Distinct(b) /\ Range(a) \cap Range(b) = {}
  BY <1>1, <1>2, SplitEntries, Zenon
<1>4. batch' = a /\ inbox' = [inbox EXCEPT !.ready = b]
  BY Zenon DEF TakeReady, n
<1> HIDE DEF a, b
<1>5. /\ inbox' \in Inboxes /\ inbox'.registered = inbox.registered
      /\ inbox'.accepted = inbox.accepted /\ inbox'.ready = b /\ inbox'.retry = inbox.retry
  BY <1>3, <1>4, Zenon DEF Agree, Inboxes
<1> QED BY <1>3, <1>4, <1>5 DEF Agree, trackVars

(* The retry list is joined to the ready one, on the tick or by close.        *)
Rejoin(b) == [b EXCEPT !.ready = @ \o b.retry, !.retry = <<>>]

(* Neither loses an id.                                                       *)
LEMMA RetryAgrees ==
    ASSUME Agree, UNCHANGED trackVars, batch' \in {batch, <<>>},
           inbox' = Rejoin(inbox) \/ inbox' = CloseInbox(inbox)
    PROVE  Agree' /\ inbox'.accepted = inbox.accepted
<1>1. inbox.ready \in Seq(Nat) /\ inbox.retry \in Seq(Nat)
  BY Zenon DEF Agree, Inboxes
<1> DEFINE s == inbox.ready \o inbox.retry
           none == <<>>
<1>2. s \in Seq(Nat) /\ Range(s) = Range(inbox.ready) \cup Range(inbox.retry) /\ Distinct(s)
  BY <1>1, ConcatEntries DEF Agree
<1>3. \/ inbox' = [inbox EXCEPT !.ready = s, !.retry = none]
      \/ inbox' = [inbox EXCEPT !.open = FALSE, !.ready = s, !.retry = none]
  BY Zenon DEF Rejoin, CloseInbox
<1>4. /\ inbox' \in Inboxes /\ inbox'.registered = inbox.registered
      /\ inbox'.accepted = inbox.accepted /\ inbox'.ready = s /\ inbox'.retry = none
  <2>1. none \in Seq(Nat)
    OBVIOUS
  <2> HIDE DEF s, none
  <2>2. CASE inbox' = [inbox EXCEPT !.ready = s, !.retry = none]
    BY <1>2, <2>1, <2>2, Zenon DEF Agree, Inboxes
  <2>3. CASE inbox' = [inbox EXCEPT !.open = FALSE, !.ready = s, !.retry = none]
    BY <1>2, <2>1, <2>3, Zenon DEF Agree, Inboxes
  <2> QED BY <1>3, <2>2, <2>3, Zenon
<1> HIDE DEF s
<1>5. batch' \in Seq(Nat) /\ Distinct(batch') /\ Range(batch') \subseteq Range(batch)
  <2>1. <<>> \in Seq(Nat)
    OBVIOUS
  <2>2. batch' = batch \/ batch' = <<>>
    BY Zenon
  <2> QED BY <2>1, <2>2, EmptyEntries, Zenon DEF Agree
<1> QED BY <1>2, <1>4, <1>5, EmptyEntries DEF Agree, trackVars

(* A refused acknowledgment goes from the batch to the retry list.            *)
LEMMA DeferAgrees ==
    ASSUME Agree, batch # <<>>, UNCHANGED trackVars, batch' = Tail(batch),
           inbox' = DeferRetry(inbox, Head(batch)) \/ inbox' = inbox
    PROVE  Agree' /\ inbox'.accepted = inbox.accepted
<1> DEFINE id == Head(batch)
<1>1. /\ id \in Nat /\ Tail(batch) \in Seq(Nat) /\ Distinct(Tail(batch))
      /\ Range(Tail(batch)) = Range(batch) \ {id} /\ id \in Range(batch)
  BY TailEntries, EntriesOf, Zenon DEF Agree
<1> HIDE DEF id
<1>2. CASE inbox' = inbox
  BY <1>1, <1>2 DEF Agree, trackVars
<1>3. CASE inbox' = DeferRetry(inbox, id)
  <2>1. id \in inbox.registered \cap inbox.accepted /\ id \notin Range(inbox.retry)
    BY <1>1, Zenon DEF Agree
  <2>2. inbox.retry \in Seq(Nat) /\ Distinct(inbox.retry)
    BY Zenon DEF Agree, Inboxes
  <2>3. /\ Append(inbox.retry, id) \in Seq(Nat) /\ Distinct(Append(inbox.retry, id))
        /\ Range(Append(inbox.retry, id)) = Range(inbox.retry) \cup {id}
    BY <1>1, <2>1, <2>2, AppendEntries
  <2>4. /\ inbox' \in Inboxes /\ inbox'.registered = inbox.registered
        /\ inbox'.accepted = inbox.accepted /\ inbox'.ready = inbox.ready
        /\ inbox'.retry = Append(inbox.retry, id)
    BY <1>3, <2>1, <2>3, Zenon DEF DeferRetry, Agree, Inboxes
  <2> QED BY <1>1, <2>1, <2>3, <2>4 DEF Agree, trackVars
<1> QED BY <1>2, <1>3, Zenon DEF id

(* Nothing that the agreement speaks of changes.                              *)
LEMMA SameAgrees == Agree /\ UNCHANGED <<pending, identities, nextId, inbox, batch>> => Agree'
  BY DEF Agree

(* The window keeps the last identities, and all of them while there is room. *)
LEMMA LastNEntries ==
    ASSUME NEW S, NEW s \in Seq(S), NEW n \in Nat
    PROVE  /\ LastN(s, n) \in Seq(S) /\ Range(LastN(s, n)) \subseteq Range(s)
           /\ Distinct(s) => Distinct(LastN(s, n))
           /\ Len(s) <= n => LastN(s, n) = s
<1>1. CASE Len(s) > n
  <2> DEFINE k == Len(s) - n
             b == SubSeq(s, k + 1, Len(s))
  <2>1. k \in 0 .. Len(s) /\ ~(Len(s) <= n)
    BY <1>1
  <2>2. LastN(s, n) = b
    BY <1>1, Zenon DEF LastN
  <2> HIDE DEF k
  <2>3. b \in Seq(S) /\ Range(b) \subseteq Range(s) /\ (Distinct(s) => Distinct(b))
    BY <2>1, SplitEntries
  <2> QED BY <2>1, <2>2, <2>3, Zenon
<1>2. CASE ~(Len(s) > n)
  BY <1>2, Zenon DEF LastN
<1> QED BY <1>1, <1>2, Zenon

(* complete adds the identity to the window.                                  *)
LEMMA CompletedEffect ==
    ASSUME completed \in Seq(Messages), NEW m \in Messages,
           completed' = IF m \in Completed THEN completed
                        ELSE LastN(Append(completed, m), RecentLimit)
    PROVE  /\ completed' \in Seq(Messages)
           /\ Completed' \subseteq Completed \cup {m}
           /\ Distinct(completed) =>
                /\ Distinct(completed')
                /\ WindowCovers => Completed' = Completed \cup {m}
<1> DEFINE s == Append(completed, m)
<1>1. s \in Seq(Messages) /\ Range(s) = Completed \cup {m}
  BY AppendEntries DEF Completed
<1>2. RecentLimit \in Nat
  BY ProjectionAssumption, Zenon
<1>3. CASE m \in Completed
  BY <1>3, Zenon DEF Completed
<1>4. CASE m \notin Completed
  <2>1. /\ completed' = LastN(s, RecentLimit) /\ completed' \in Seq(Messages)
        /\ Completed' \subseteq Completed \cup {m}
        /\ Distinct(s) => Distinct(completed')
        /\ Len(s) <= RecentLimit => completed' = s
    BY <1>1, <1>2, <1>4, LastNEntries, Zenon DEF Completed
  <2>2. ASSUME Distinct(completed) PROVE Distinct(s) /\ Len(s) <= Cardinality(Messages)
    BY <2>2, <1>1, <1>4, AppendEntries, DistinctLength, ProjectionAssumption, Zenon DEF Completed
  <2>3. WindowCovers /\ Distinct(completed) => Len(s) <= RecentLimit
    <3>1. Cardinality(Messages) \in Nat /\ Len(s) \in Nat
      BY <1>1, ProjectionAssumption, FS_CardinalityType
    <3> QED BY <2>2, <3>1, <1>2 DEF WindowCovers
  <2> QED BY <1>1, <2>1, <2>2, <2>3, Zenon DEF Completed
<1> QED BY <1>3, <1>4, Zenon

(* The three parts about delivery ids together.                               *)
IdInv == Shape /\ Agree /\ Stand

(* A process that has just started.                                           *)
LEMMA Fresh ==
    ASSUME pending = <<>>, identities = {}, nextId = 0, inbox = EmptyInbox, batch = <<>>,
           pc = "loop"
    PROVE  Agree /\ Stand
<1>1. DOMAIN pending = {} /\ pending \in [DOMAIN pending -> Messages]
  OBVIOUS
<1>2. /\ inbox \in Inboxes /\ inbox.registered = {} /\ inbox.accepted = {}
      /\ inbox.ready = <<>> /\ inbox.retry = <<>>
  BY DEF EmptyInbox, Inboxes
<1>3. nextId \in 0 .. MaxDeliveries /\ batch \in Seq(Nat)
  BY ProjectionAssumption
<1>4. identities = {pending[i] : i \in DOMAIN pending}
  BY <1>1, Zenon
<1> QED BY <1>1, <1>2, <1>3, <1>4, EmptyEntries, Zenon DEF Agree, Stand, Busy

(* The initial state.                                                         *)
LEMMA IdInitially == Init => IdInv
<1> SUFFICES ASSUME Init PROVE IdInv
  BY Zenon
<1>1. Agree /\ Stand
  BY Fresh, Zenon DEF Init
<1>2. Shape
  BY EmptyEntries DEF Init, Shape
<1> QED BY <1>1, <1>2, Zenon DEF IdInv

(* What the loop has to project now.                                          *)
LEMMA ReadyNowEntries ==
    ASSUME Shape
    PROVE  /\ ReadyNow \in Seq(Messages) /\ WaitingNow \in Seq(Messages)
           /\ Range(ReadyNow) \cup Range(WaitingNow) = Range(ready) \cup Range(waiting)
           /\ ReadyNow # <<>> =>
                /\ Head(ReadyNow) \in Messages /\ Tail(ReadyNow) \in Seq(Messages)
                /\ Range(ReadyNow) = {Head(ReadyNow)} \cup Range(Tail(ReadyNow))
<1>1. /\ ready \in Seq(Messages) /\ waiting \in Seq(Messages)
      /\ ready \o waiting \in Seq(Messages)
      /\ Range(ready \o waiting) = Range(ready) \cup Range(waiting)
  BY ConcatEntries DEF Shape
<1>2. /\ ReadyNow \in Seq(Messages) /\ WaitingNow \in Seq(Messages)
      /\ Range(ReadyNow) \cup Range(WaitingNow) = Range(ready) \cup Range(waiting)
  BY <1>1, EmptyEntries DEF ReadyNow, WaitingNow
<1> QED BY <1>2, TailEntries, Zenon

(* The replay lists are made from the store.                                  *)
LEMMA Loaded ==
    ASSUME NEW T \in SUBSET Messages
    PROVE  SetToSeq(T) \in Seq(Messages) /\ Range(SetToSeq(T)) = T
<1>1. IsFiniteSet(T)
  BY ProjectionAssumption, FS_Subset, Zenon
<1>2. SetToSeq(T) \in Seq(T) /\ Range(SetToSeq(T)) = T
  BY <1>1, ListedEntries, Zenon
<1> QED BY <1>2

(* The steps that leave the ids and the actor where they are.                 *)
QuietStep ==
    \/ \E m \in Messages : Receive(m)
    \/ LoadUnprojected \/ ReceiveContent \/ GroupsSynchronized \/ DirtySnapshotFails
    \/ EnterRecovery \/ ReceiveStarted \/ CloseEvents \/ SendShutdown \/ UNCHANGED vars

(* They keep the ids as they are.                                             *)
LEMMA QuietIds == IdInv /\ QuietStep => IdInv' /\ UNCHANGED <<trackVars, inboxVars, actorVars>>
<1> SUFFICES ASSUME IdInv, QuietStep PROVE IdInv' /\ UNCHANGED <<trackVars, inboxVars, actorVars>>
  BY Zenon
<1>1. UNCHANGED <<trackVars, inboxVars, actorVars>>
  BY Zenon DEF QuietStep, Receive, LoadUnprojected, ReceiveContent, GroupsSynchronized,
         DirtySnapshotFails, EnterRecovery, ReceiveStarted, CloseEvents, SendShutdown, vars
<1>2. Agree'
  BY <1>1, SameAgrees, Zenon DEF IdInv, trackVars, inboxVars, actorVars
<1>3. Stand'
  BY <1>1, Zenon DEF IdInv, Stand, Busy, trackVars, inboxVars, actorVars
<1>4. UNCHANGED <<completed, nextId, pc, queue, shown>>
  BY <1>1, Zenon DEF QuietStep, Receive, LoadUnprojected, ReceiveContent, GroupsSynchronized,
         DirtySnapshotFails, EnterRecovery, ReceiveStarted, CloseEvents, SendShutdown, vars,
         trackVars, actorVars, uiVars
<1>5. Shape'
  <2> USE <1>4 DEF IdInv, Shape
  <2>1. ASSUME NEW m \in Messages, Receive(m) PROVE Shape'
    <3>1. Append(stream, m) \in Seq(Messages)
      OBVIOUS
    <3>2. store' \in [Messages -> {"none", "stored", "projected"}]
      BY <2>1, Zenon DEF Receive
    <3>3. /\ stream' = Append(stream, m)
          /\ UNCHANGED <<ready, waiting, completed, queue, nextId, shown, phase, pc, main>>
      BY <2>1, Zenon DEF Receive, replayVars, trackVars, uiVars, sessionVars, actorVars
    <3> QED BY <3>1, <3>2, <3>3, Zenon
  <2>2. ASSUME LoadUnprojected PROVE Shape'
    BY <2>2, Loaded, Zenon DEF LoadUnprojected, uiVars, Unprojected
  <2>3. ASSUME ReceiveContent PROVE Shape'
    <3>1. Head(stream) \in Messages /\ Tail(stream) \in Seq(Messages)
      BY <2>3 DEF ReceiveContent
    <3>2. /\ Append(ready, Head(stream)) \in Seq(Messages)
          /\ Append(waiting, Head(stream)) \in Seq(Messages)
      BY <3>1
    <3>3. /\ stream' = Tail(stream) /\ ready' \in {ready, Append(ready, Head(stream))}
          /\ waiting' \in {waiting, Append(waiting, Head(stream))}
          /\ UNCHANGED <<store, completed, queue, nextId, shown, phase, pc, main>>
      BY <2>3, Zenon DEF ReceiveContent, trackVars, uiVars, sessionVars, actorVars
    <3> QED BY <3>1, <3>2, <3>3, Zenon
  <2>4. ASSUME GroupsSynchronized PROVE Shape'
    BY <2>4 DEF GroupsSynchronized, uiVars
  <2>5. ASSUME DirtySnapshotFails \/ EnterRecovery \/ ReceiveStarted PROVE Shape'
    <3>1. /\ UNCHANGED <<store, ready, waiting, main>> /\ stream' \in {stream, <<>>}
          /\ phase' \in {phase, "recovering", "startup"}
      BY <2>5, Zenon DEF DirtySnapshotFails, EnterRecovery, ReceiveStarted, replayVars, uiVars
    <3>2. stream' \in Seq(Messages)
      <4>1. <<>> \in Seq(Messages)
        OBVIOUS
      <4> QED BY <3>1, <4>1, Zenon
    <3> QED BY <3>1, <3>2, Zenon
  <2>6. ASSUME CloseEvents \/ SendShutdown \/ UNCHANGED vars PROVE Shape'
    BY <2>6, Zenon DEF CloseEvents, SendShutdown, vars, replayVars, uiVars, sessionVars
  <2> QED BY <2>1, <2>2, <2>3, <2>4, <2>5, <2>6 DEF QuietStep
<1> QED BY <1>1, <1>2, <1>3, <1>5, Zenon DEF IdInv

(* project_content reserves a message, and the actor turns to it.             *)
LEMMA ProjectIds == IdInv /\ ProjectContent => IdInv'
<1> SUFFICES ASSUME IdInv, ProjectContent PROVE IdInv'
  BY Zenon
<1> DEFINE m == Head(ReadyNow)
<1>1. /\ m \in Messages /\ Tail(ReadyNow) \in Seq(Messages) /\ WaitingNow \in Seq(Messages)
      /\ ready' = Tail(ReadyNow) /\ waiting' = WaitingNow
      /\ UNCHANGED <<store, stream, queue, shown, phase, main>>
  BY ReadyNowEntries, Zenon DEF ProjectContent, IdInv, uiVars, sessionVars
<1>2. CASE AwaitsGroups(m) \/ Reserved(m)
  <2>1. UNCHANGED <<trackVars, inboxVars, actorVars>>
    BY <1>2, Zenon DEF ProjectContent
  <2>2. Agree'
    BY <2>1, SameAgrees, Zenon DEF IdInv, trackVars, inboxVars, actorVars
  <2>3. Stand' /\ Shape'
    BY <1>1, <2>1, Zenon DEF IdInv, Stand, Busy, Shape, trackVars, inboxVars, actorVars
  <2> QED BY <2>2, <2>3, Zenon DEF IdInv
<1>3. CASE ~(AwaitsGroups(m) \/ Reserved(m))
  <2>1. /\ Track(m) /\ m \notin identities /\ nextId < MaxDeliveries
        /\ current' = nextId + 1 /\ pc' = "handling" /\ UNCHANGED <<completed, permit, batch>>
    BY <1>3, Zenon DEF ProjectContent, Reserved
  <2>2. Agree' /\ DOMAIN pending' = DOMAIN pending \cup {nextId + 1}
    BY <1>1, <2>1, TrackAgrees, Zenon DEF IdInv
  <2>3. Stand'
    BY <2>1, <2>2, Zenon DEF IdInv, Stand, Busy, ProjectContent, Dispatching
  <2>4. nextId' = nextId + 1 /\ nextId \in Nat
    BY <2>1, ProjectionAssumption DEF Track, IdInv, Agree
  <2>5. Shape'
    BY <1>1, <2>1, <2>4 DEF IdInv, Shape
  <2> QED BY <2>2, <2>3, <2>5, Zenon DEF IdInv
<1> QED BY <1>2, <1>3, Zenon

(* handle_content and what follows it: the current projection is handed over, *)
(* completed or released.                                                     *)
HandleStep ==
    HandledAwaitingAck \/ HandledRetry \/ HandledComplete \/ MarkHandled \/ MarkHandledFails

(* The ids after such a step.                                                 *)
LEMMA HandleIds == IdInv /\ HandleStep => IdInv'
<1> SUFFICES ASSUME IdInv, HandleStep PROVE IdInv'
  BY Zenon
<1>1. /\ Busy /\ current \in DOMAIN pending /\ batch = <<>> /\ pending[current] \in Messages
      /\ pc \in {"handling", "marking"}
  BY Zenon DEF HandleStep, HandledAwaitingAck, HandledRetry, HandledComplete, MarkHandled,
         MarkHandledFails, IdInv, Agree, Stand, Busy
<1>2. CASE HandledAwaitingAck
  <2> DEFINE e == [id |-> current, msg |-> pending[current]]
  <2>1. /\ UNCHANGED <<trackVars, inboxVars, batch, store, stream, replayVars, shown, main, phase>>
        /\ pc' = "loop" /\ queue' \in {queue, Append(queue, e)}
    BY <1>2, Zenon DEF HandledAwaitingAck, sessionVars
  <2>2. Agree'
    BY <2>1, SameAgrees, Zenon DEF IdInv, trackVars, inboxVars
  <2>3. Stand'
    BY <1>1, <2>1, Zenon DEF Stand, Busy
  <2>4. e \in Events /\ e.id \in 1 .. nextId
    BY <1>1 DEF IdInv, Agree, Events
  <2> HIDE DEF e
  <2>5. /\ Append(queue, e) \in Seq(Events)
        /\ Range(Append(queue, e)) = Range(queue) \cup {e}
    BY <2>4, AppendEntries DEF IdInv, Shape
  <2>6. queue' \in Seq(Events) /\ \A f \in Range(queue') : f.id \in 1 .. nextId
    BY <2>1, <2>4, <2>5, Zenon DEF IdInv, Shape
  <2>7. Shape'
    BY <2>1, <2>6, Zenon DEF IdInv, Shape, trackVars, replayVars
  <2> QED BY <2>2, <2>3, <2>7, Zenon DEF IdInv
<1>3. CASE HandledComplete
  <2>1. UNCHANGED <<trackVars, inboxVars, current, batch, store, stream, replayVars, uiVars, phase>>
        /\ pc' = "marking"
    BY <1>3, Zenon DEF HandledComplete, sessionVars
  <2>2. Agree'
    BY <2>1, SameAgrees, Zenon DEF IdInv, trackVars, inboxVars
  <2>3. Stand'
    BY <1>1, <2>1, Zenon DEF Stand, Busy, trackVars
  <2>4. Shape'
    BY <2>1, Zenon DEF IdInv, Shape, trackVars, replayVars, uiVars
  <2> QED BY <2>2, <2>3, <2>4, Zenon DEF IdInv
<1>4. CASE HandledRetry \/ MarkHandledFails \/ MarkHandled
  <2>1. /\ pending' = Drop(pending, current) /\ identities' = identities \ {pending[current]}
        /\ inbox' = Unregister(inbox, current) /\ nextId' = nextId /\ batch' = batch
        /\ pc' = "loop"
    BY <1>4, Zenon DEF HandledRetry, MarkHandledFails, MarkHandled, Release, Complete
  <2>2. /\ batch' \in Seq(Nat) /\ Distinct(batch') /\ Range(batch') = {}
    BY <1>1, <2>1, EmptyEntries
  <2>3. Agree'
    BY <1>1, <2>1, <2>2, ReleaseAgrees, Zenon DEF IdInv
  <2>4. Stand'
    BY <1>1, <2>1 DEF Stand, Busy
  <2>5. /\ store' \in [Messages -> {"none", "stored", "projected"}]
        /\ completed' \in Seq(Messages)
        /\ UNCHANGED <<stream, ready, waiting, queue, shown, phase, main>>
    <3>1. CASE HandledRetry \/ MarkHandledFails
      BY <3>1, Zenon DEF HandledRetry, MarkHandledFails, Release, replayVars, uiVars,
         sessionVars, IdInv,
                  Shape
    <3>2. CASE MarkHandled
      <4>1. completed' \in Seq(Messages)
        BY <1>1, <3>2, CompletedEffect, Zenon DEF MarkHandled, Complete, IdInv, Shape
      <4>2. store' \in [Messages -> {"none", "stored", "projected"}]
        BY <1>1, <3>2, Zenon DEF MarkHandled, IdInv, Shape
      <4> QED BY <3>2, <4>1, <4>2, Zenon DEF MarkHandled, replayVars, uiVars, sessionVars
    <3> QED BY <1>4, <3>1, <3>2, Zenon
  <2>6. Shape'
    BY <2>1, <2>5, Zenon DEF IdInv, Shape
  <2> QED BY <2>3, <2>4, <2>6, Zenon DEF IdInv
<1> QED BY <1>2, <1>3, <1>4, Zenon DEF HandleStep

(* The steps that take, record or retry acknowledgments.                      *)
AckStep ==
    ProcessAcknowledgments \/ RecordAck \/ RecordAckFails \/ AcknowledgmentRetryTick

(* The ids after such a step.                                                 *)
LEMMA AckIds == IdInv /\ AckStep => IdInv'
<1> SUFFICES ASSUME IdInv, AckStep PROVE IdInv'
  BY Zenon
<1>1. UNCHANGED <<stream, ready, waiting, queue, shown, phase, main, current>>
  BY Zenon DEF AckStep, ProcessAcknowledgments, RecordAck, RecordAckFails,
     AcknowledgmentRetryTick,
         replayVars, uiVars, sessionVars, actorVars
<1>2. CASE ProcessAcknowledgments
  <2>1. /\ batch = <<>> /\ pc = "loop" /\ TakeReady /\ UNCHANGED <<trackVars, store>>
        /\ pc' = IF batch' = <<>> THEN pc ELSE "acking"
    BY <1>2, Zenon DEF ProcessAcknowledgments, ServicesAcks, AtSelect, Dispatching, IdInv, Stand
  <2>2. Agree'
    BY <2>1, TakeAgrees, Zenon DEF IdInv
  <2>3. Stand'
    BY <2>1, Zenon DEF Stand, Busy
  <2>4. Shape'
    BY <1>1, <2>1, Zenon DEF IdInv, Shape, trackVars
  <2> QED BY <2>2, <2>3, <2>4, Zenon DEF IdInv
<1>3. CASE RecordAck \/ RecordAckFails
  <2> DEFINE id == Head(batch)
  <2>1. /\ id \in Nat /\ Tail(batch) \in Seq(Nat) /\ Distinct(Tail(batch))
        /\ Range(Tail(batch)) = Range(batch) \ {id} /\ id \in Range(batch)
        /\ id \in DOMAIN pending /\ pending[id] \in Messages
    BY <1>3, TailEntries, EntriesOf DEF RecordAck, RecordAckFails, IdInv, Agree
  <2>2. /\ batch # <<>> /\ batch' = Tail(batch) /\ pc \in {"acking", "drain"}
        /\ pc' = IF pc = "acking" THEN NextAck("loop") ELSE pc
    BY <1>3, Zenon DEF RecordAck, RecordAckFails, Recording
  <2>3. Len(batch) = 1 <=> Tail(batch) = <<>>
    <3>1. batch \in Seq(Nat) /\ Len(Tail(batch)) = Len(batch) - 1 /\ Len(batch) \in Nat
      BY <2>2 DEF IdInv, Agree
    <3>2. Len(Tail(batch)) = 0 <=> Tail(batch) = <<>>
      BY <2>1, NoEntries, Zenon
    <3> QED BY <3>1, <3>2
  <2>4. Stand'
    BY <2>2, <2>3, Zenon DEF Stand, Busy, NextAck
  <2>5. CASE RecordAck
    <3>1. /\ store' = [store EXCEPT ![pending[id]] = "projected"] /\ Complete(id)
      BY <2>1, <2>5, Zenon DEF RecordAck
    <3>2. Agree'
      BY <2>1, <2>2, <3>1, ReleaseAgrees, Zenon DEF IdInv, Complete
    <3>3. completed' \in Seq(Messages) /\ nextId' = nextId
      BY <2>1, <3>1, CompletedEffect, Zenon DEF Complete, IdInv, Shape
    <3>4. store' \in [Messages -> {"none", "stored", "projected"}]
      BY <2>1, <3>1, Zenon DEF IdInv, Shape
    <3>5. Shape'
      BY <1>1, <2>2, <3>3, <3>4, Zenon DEF IdInv, Shape, NextAck
    <3> QED BY <2>4, <3>2, <3>5, Zenon DEF IdInv
  <2>6. CASE RecordAckFails
    <3>1. /\ UNCHANGED <<trackVars, store>>
          /\ inbox' = DeferRetry(inbox, id) \/ inbox' = inbox
      BY <2>6, Zenon DEF RecordAckFails
    <3>2. Agree'
      BY <2>2, <3>1, DeferAgrees, Zenon DEF IdInv
    <3>3. Shape'
      BY <1>1, <2>2, <3>1, Zenon DEF IdInv, Shape, NextAck, trackVars
    <3> QED BY <2>4, <3>2, <3>3, Zenon DEF IdInv
  <2> QED BY <1>3, <2>5, <2>6, Zenon
<1>4. CASE AcknowledgmentRetryTick
  <2>1. UNCHANGED <<trackVars, store, actorVars>> /\ inbox' = Rejoin(inbox)
    BY <1>4, Zenon DEF AcknowledgmentRetryTick, Rejoin
  <2>2. Agree'
    BY <2>1, RetryAgrees, Zenon DEF IdInv, actorVars
  <2>3. Stand' /\ Shape'
    BY <1>1, <2>1, Zenon DEF IdInv, Shape, Stand, Busy, trackVars, actorVars
  <2> QED BY <2>2, <2>3, Zenon DEF IdInv
<1> QED BY <1>2, <1>3, <1>4, Zenon DEF AckStep

(* The main thread takes an event and acknowledges it.                        *)
LEMMA PollIds == IdInv /\ PollAndAcknowledge => IdInv'
<1> SUFFICES ASSUME IdInv, PollAndAcknowledge PROVE IdInv'
  BY Zenon
<1>1. /\ queue # <<>> /\ queue' = Tail(queue) /\ Submit(Head(queue).id)
      /\ shown' = [shown EXCEPT ![Head(queue).msg] = @ + 1]
      /\ UNCHANGED <<store, stream, replayVars, trackVars, actorVars, main, phase>>
  BY Zenon DEF PollAndAcknowledge, sessionVars
<1>2. /\ Head(queue) \in Events /\ Tail(queue) \in Seq(Events)
      /\ Range(Tail(queue)) \subseteq Range(queue)
  BY <1>1, TailEntries, Zenon DEF IdInv, Shape
<1>3. Agree'
  BY <1>1, SubmitAgrees, Zenon DEF IdInv, actorVars
<1>4. shown' \in [Messages -> Nat]
  BY <1>1, <1>2, SMTT(30) DEF IdInv, Shape, Events
<1>5. Shape'
  BY <1>1, <1>2, <1>4, Zenon DEF IdInv, Shape, replayVars, trackVars, actorVars
<1>6. Stand'
  BY <1>1, Zenon DEF IdInv, Stand, Busy, trackVars, actorVars
<1> QED BY <1>3, <1>5, <1>6, Zenon DEF IdInv

(* Shutdown, the drain, and a new process.                                    *)
EndStep == Interrupt \/ ReceiveStartFatal \/ DrainBatch \/ DrainTimesOut \/ Restart

(* The ids after such a step.                                                 *)
LEMMA EndIds == IdInv /\ EndStep => IdInv'
<1> SUFFICES ASSUME IdInv, EndStep PROVE IdInv'
  BY Zenon
<1>1. CASE Interrupt
  <2>1. /\ UNCHANGED <<trackVars, stream, replayVars, uiVars, phase>>
        /\ inbox' = CloseInbox(inbox) /\ pc' = "drain" /\ batch' = <<>>
    BY <1>1, Zenon DEF Interrupt, sessionVars
  <2>2. store' \in [Messages -> {"none", "stored", "projected"}]
    <3>1. PICK wrote : store' = [m \in Messages |-> IF m \in wrote THEN "projected" ELSE store[m]]
      BY <1>1, Zenon DEF Interrupt
    <3> QED BY <3>1, Zenon DEF IdInv, Shape
  <2>3. Agree'
    BY <2>1, RetryAgrees, Zenon DEF IdInv
  <2>4. Shape' /\ Stand'
    BY <2>1, <2>2, Zenon DEF IdInv, Shape, Stand, Busy, trackVars, replayVars, uiVars
  <2> QED BY <2>3, <2>4, Zenon DEF IdInv
<1>2. CASE ReceiveStartFatal
  <2>1. /\ UNCHANGED <<trackVars, store, stream, replayVars, uiVars, phase, current, batch>>
        /\ inbox' = CloseInbox(inbox) /\ pc' = "drain"
    BY <1>2, Zenon DEF ReceiveStartFatal, sessionVars
  <2>2. Agree'
    BY <2>1, RetryAgrees, Zenon DEF IdInv
  <2>3. Shape' /\ Stand'
    BY <2>1, Zenon DEF IdInv, Shape, Stand, Busy, trackVars, replayVars, uiVars
  <2> QED BY <2>2, <2>3, Zenon DEF IdInv
<1>3. CASE DrainBatch
  <2>1. UNCHANGED <<trackVars, store, stream, replayVars, uiVars, phase, current>>
    BY <1>3, Zenon DEF DrainBatch, sessionVars
  <2>2. CASE inbox.ready = <<>>
    <3>1. UNCHANGED <<inbox, batch>> /\ pc' = "stopped" /\ batch = <<>>
      BY <1>3, <2>2, Zenon DEF DrainBatch, inboxVars
    <3>2. Agree'
      BY <2>1, <3>1, SameAgrees, Zenon DEF IdInv, trackVars
    <3>3. Shape' /\ Stand'
      BY <2>1, <3>1, Zenon DEF IdInv, Shape, Stand, Busy, trackVars, replayVars, uiVars
    <3> QED BY <3>2, <3>3, Zenon DEF IdInv
  <2>3. CASE inbox.ready # <<>>
    <3>1. TakeReady /\ pc' = pc /\ pc = "drain" /\ batch = <<>>
      BY <1>3, <2>3, Zenon DEF DrainBatch
    <3>2. Agree'
      BY <2>1, <3>1, TakeAgrees, Zenon DEF IdInv
    <3>3. Shape' /\ Stand'
      BY <2>1, <3>1 DEF IdInv, Shape, Stand, Busy, trackVars, replayVars, uiVars
    <3> QED BY <3>2, <3>3, Zenon DEF IdInv
  <2> QED BY <2>2, <2>3, Zenon
<1>4. CASE DrainTimesOut
  <2>1. /\ UNCHANGED <<trackVars, store, stream, replayVars, uiVars, phase, current, inboxVars>>
        /\ pc' = "stopped" /\ batch' = <<>>
    BY <1>4, Zenon DEF DrainTimesOut, sessionVars
  <2>2. Agree'
    BY <2>1, EmptyEntries DEF IdInv, Agree, trackVars, inboxVars
  <2>3. Shape' /\ Stand'
    BY <2>1, Zenon DEF IdInv, Shape, Stand, Busy, trackVars, replayVars, uiVars
  <2> QED BY <2>2, <2>3, Zenon DEF IdInv
<1>5. CASE Restart
  <2>1. /\ pending' = <<>> /\ identities' = {} /\ nextId' = 0 /\ inbox' = EmptyInbox
        /\ batch' = <<>> /\ pc' = "loop"
    BY <1>5, Zenon DEF Restart
  <2>2. DOMAIN pending' = {} /\ pending' \in [DOMAIN pending' -> Messages]
    BY <2>1
  <2>3. /\ inbox' \in Inboxes /\ inbox'.registered = {} /\ inbox'.accepted = {}
        /\ inbox'.ready = <<>> /\ inbox'.retry = <<>>
    BY <2>1 DEF EmptyInbox, Inboxes
  <2>4. nextId' \in 0 .. MaxDeliveries /\ batch' \in Seq(Nat)
    BY <2>1, ProjectionAssumption
  <2>5. identities' = {pending'[i] : i \in DOMAIN pending'}
    BY <2>1, <2>2, Zenon
  <2>6. Agree' /\ Stand'
    BY <2>1, <2>2, <2>3, <2>4, <2>5, EmptyEntries, Zenon DEF Agree, Stand, Busy
  <2>7. Shape'
    BY <1>5, EmptyEntries DEF Restart, IdInv, Shape
  <2> QED BY <2>6, <2>7, Zenon DEF IdInv
<1> QED BY <1>1, <1>2, <1>3, <1>4, <1>5, Zenon DEF EndStep

(* The next-state relation by kind of step.                                   *)
LEMMA Kinds ==
    [Next]_vars => QuietStep \/ ProjectContent \/ HandleStep \/ AckStep
                     \/ PollAndAcknowledge \/ EndStep
  BY Zenon DEF Next, QuietStep, HandleStep, AckStep, EndStep, Stopped

(* The ids agree in every reachable state.                                    *)
LEMMA IdsKept == Spec => []IdInv
<1>1. IdInv /\ [Next]_vars => IdInv'
  BY Kinds, QuietIds, ProjectIds, HandleIds, AckIds, PollIds, EndIds, Zenon
<1> QED BY <1>1, IdInitially, PTL DEF Spec

-----------------------------------------------------------------------------
(* What is stored and not recorded is on its way.                             *)

OnItsWay == Range(stream) \cup Range(ready) \cup Range(waiting) \cup identities \cup parked

(* The initial state, and the state a new process starts in.                  *)
LEMMA WayInitially == Init => Way
  BY EmptyEntries, Zenon DEF Init, Way, StillOnItsWay, Completed

(* The steps of the receiving side.                                           *)
LEMMA QuietWay == IdInv /\ Way /\ QuietStep => Way'
<1> SUFFICES ASSUME IdInv, Way, QuietStep PROVE Way'
  BY Zenon
<1>1. UNCHANGED <<completed, identities, pc>>
  BY QuietIds, Zenon DEF trackVars, actorVars
<1>2. /\ stream \in Seq(Messages) /\ ready \in Seq(Messages) /\ waiting \in Seq(Messages)
      /\ store \in [Messages -> {"none", "stored", "projected"}] /\ completed \in Seq(Messages)
  BY Zenon DEF IdInv, Shape
<1>3. \A m \in Completed' : m \in Messages /\ store[m] = "projected"
  BY <1>1, <1>2, EntriesOf, Zenon DEF Way, Completed
<1>4. ASSUME NEW m \in Messages, Receive(m) PROVE Way'
  <2>1. /\ store[m] = "none" /\ store' = [store EXCEPT ![m] = "stored"]
        /\ stream' = Append(stream, m)
        /\ UNCHANGED <<ready, waiting, staleReplay, phase, authoritative, parked>>
    BY <1>4, Zenon DEF Receive, replayVars, sessionVars, noteVars
  <2>2. Range(stream') = Range(stream) \cup {m}
    BY <1>2, <2>1, AppendEntries
  <2>3. Unprojected' = Unprojected \cup {m}
    BY <1>2, <2>1, Zenon DEF Unprojected
  <2>4. StillOnItsWay'
    BY <1>1, <2>1, <2>2, <2>3, Zenon DEF Way, StillOnItsWay
  <2>5. \A k \in Completed' : store'[k] = "projected"
    BY <1>2, <1>3, <2>1, Zenon
  <2> QED BY <2>1, <2>4, <2>5, Zenon DEF Way
<1>5. ASSUME LoadUnprojected PROVE Way'
  <2>1. /\ UNCHANGED <<store, stream, authoritative>>
        /\ \/ /\ staleReplay' = FALSE
              /\ ready' = SetToSeq(Unprojected \ GroupMessages)
              /\ waiting' = SetToSeq(Unprojected \cap GroupMessages)
           \/ staleReplay' = TRUE
    BY <1>5, Zenon DEF LoadUnprojected
  <2>2. Unprojected' = Unprojected /\ Unprojected \in SUBSET Messages
    BY <2>1, Zenon DEF Unprojected
  <2>3. CASE staleReplay' = TRUE
    BY <1>1, <1>3, <2>1, <2>2, <2>3, Zenon DEF Way, StillOnItsWay
  <2>4. CASE staleReplay' # TRUE
    <3>1. Range(ready') = Unprojected \ GroupMessages /\ Range(waiting') = Unprojected \cap GroupMessages
      BY <2>1, <2>2, <2>4, Loaded, Zenon
    <3> QED BY <1>1, <1>3, <2>1, <2>2, <3>1, Zenon DEF Way, StillOnItsWay
  <2> QED BY <2>3, <2>4, Zenon
<1>6. ASSUME ReceiveContent PROVE Way'
  <2> DEFINE m == Head(stream)
  <2>1. /\ stream # <<>> /\ stream' = Tail(stream)
        /\ UNCHANGED <<store, staleReplay, phase, authoritative, parked>>
        /\ \/ AwaitsGroups(m) /\ waiting' = Append(waiting, m) /\ ready' = ready
           \/ ~AwaitsGroups(m) /\ ready' = Append(ready, m) /\ waiting' = waiting
    BY <1>6, Zenon DEF ReceiveContent, sessionVars, noteVars
  <2>2. m \in Messages /\ Range(stream) = {m} \cup Range(stream')
    BY <1>2, <2>1, TailEntries, Zenon
  <2>3. /\ Range(Append(waiting, m)) = Range(waiting) \cup {m}
        /\ Range(Append(ready, m)) = Range(ready) \cup {m}
    BY <1>2, <2>2, AppendEntries
  <2> HIDE DEF m
  <2>4. Unprojected' = Unprojected
    BY <2>1, Zenon DEF Unprojected
  <2>5. OnItsWay' = OnItsWay
    BY <1>1, <2>1, <2>2, <2>3, Zenon DEF OnItsWay
  <2>6. StillOnItsWay'
    BY <1>1, <2>1, <2>4, <2>5, Zenon DEF Way, StillOnItsWay, OnItsWay
  <2>7. phase' = "active" /\ ~staleReplay' /\ ~authoritative' => Range(ready') \cap GroupMessages = {}
    BY <2>1, <2>3, Zenon DEF Way, AwaitsGroups
  <2> QED BY <1>3, <2>1, <2>6, <2>7, Zenon DEF Way
<1>7. ASSUME GroupsSynchronized PROVE Way'
  <2>1. /\ UNCHANGED <<store, stream, staleReplay, phase, parked>> /\ authoritative' = TRUE
        /\ ready' = ready \o waiting /\ waiting' = <<>>
    BY <1>7, Zenon DEF GroupsSynchronized, noteVars
  <2>2. Range(ready') = Range(ready) \cup Range(waiting) /\ Range(waiting') = {}
    BY <1>2, <2>1, ConcatEntries, EmptyEntries
  <2>3. Unprojected' = Unprojected
    BY <2>1, Zenon DEF Unprojected
  <2> QED BY <1>1, <1>3, <2>1, <2>2, <2>3, Zenon DEF Way, StillOnItsWay
<1>8. ASSUME DirtySnapshotFails PROVE Way'
  <2>1. /\ UNCHANGED <<store, stream, ready, waiting, staleReplay, phase, parked>> /\ authoritative
        /\ ReadyNow = <<>>
    BY <1>8, Zenon DEF DirtySnapshotFails, AtSelect, replayVars, noteVars
  <2>2. ready = <<>>
    BY <1>2, <2>1 DEF ReadyNow
  <2>3. Unprojected' = Unprojected /\ Range(ready') = {}
    BY <2>1, <2>2, EmptyEntries, Zenon DEF Unprojected
  <2> QED BY <1>1, <1>3, <2>1, <2>3, Zenon DEF Way, StillOnItsWay
<1>9. ASSUME EnterRecovery \/ ReceiveStarted PROVE Way'
  <2>1. store' = store /\ phase' # "active"
    BY <1>9, Zenon DEF EnterRecovery, ReceiveStarted
  <2> QED BY <1>3, <2>1, Zenon DEF Way, StillOnItsWay
<1>10. ASSUME CloseEvents \/ SendShutdown \/ UNCHANGED vars PROVE Way'
  <2>1. UNCHANGED <<store, stream, ready, waiting, staleReplay, phase, authoritative, parked>>
    BY <1>10, Zenon DEF CloseEvents, SendShutdown, vars, replayVars, sessionVars, noteVars
  <2>2. Unprojected' = Unprojected
    BY <2>1, Zenon DEF Unprojected
  <2> QED BY <1>1, <1>3, <2>1, <2>2, Zenon DEF Way, StillOnItsWay
<1> QED BY <1>4, <1>5, <1>6, <1>7, <1>8, <1>9, <1>10, Zenon DEF QuietStep

(* project_content drops only what is pending, recorded, or group content of  *)
(* a stale replay.                                                            *)
LEMMA ProjectWay == IdInv /\ Way /\ ProjectContent => Way'
<1> SUFFICES ASSUME IdInv, Way, ProjectContent PROVE Way'
  BY Zenon
<1> DEFINE m == Head(ReadyNow)
<1>1. /\ phase = "active" /\ ReadyNow # <<>>
      /\ ready' = Tail(ReadyNow) /\ waiting' = WaitingNow /\ pc = "loop"
      /\ UNCHANGED <<store, stream, staleReplay, phase, authoritative, parked>>
  BY Zenon DEF ProjectContent, Dispatching, sessionVars, noteVars
<1>2. /\ m \in Messages
      /\ Range(ready) \cup Range(waiting) = {m} \cup Range(ready') \cup Range(waiting')
      /\ Range(ReadyNow) = {m} \cup Range(ready')
  BY <1>1, ReadyNowEntries, Zenon DEF IdInv
<1>3. UNCHANGED completed /\ Unprojected' = Unprojected
  BY <1>1, Zenon DEF ProjectContent, trackVars, Unprojected
<1>4. ~authoritative => ReadyNow = ready
  BY Zenon DEF ReadyNow
<1>5. phase' = "active" /\ ~staleReplay' /\ ~authoritative' => Range(ready') \cap GroupMessages = {}
  BY <1>1, <1>2, <1>4, Zenon DEF Way
<1>6. identities \subseteq identities'
  BY Zenon DEF ProjectContent, trackVars, Track
<1>7. m \in identities' \/ m \in Completed \/ (AwaitsGroups(m) /\ staleReplay)
  BY <1>1, <1>2, <1>4, <1>6, Zenon DEF ProjectContent, Reserved, Track, AwaitsGroups, Way
<1> HIDE DEF m
<1>8. m \in Unprojected => m \notin Completed
  BY Zenon DEF Way, Unprojected
<1>9. StillOnItsWay'
  BY <1>1, <1>2, <1>3, <1>6, <1>7, <1>8, Zenon DEF Way, StillOnItsWay, Unprojected
<1>10. Completed' = Completed
  BY <1>3, Zenon DEF Completed
<1> QED BY <1>1, <1>5, <1>9, <1>10, Zenon DEF Way

(* A projection that ends without being recorded is parked; one that ends     *)
(* recorded is unprojected no more.                                           *)
LEMMA HandleWay == IdInv /\ Way /\ HandleStep => Way'
<1> SUFFICES ASSUME IdInv, Way, HandleStep PROVE Way'
  BY Zenon
<1>1. /\ UNCHANGED <<stream, ready, waiting, staleReplay, phase, authoritative>>
      /\ Busy /\ current \in DOMAIN pending /\ pending[current] \in Messages
  BY Zenon DEF HandleStep, HandledAwaitingAck, HandledRetry, HandledComplete, MarkHandled,
         MarkHandledFails, replayVars, sessionVars, IdInv, Agree, Stand, Busy
<1>2. CASE HandledAwaitingAck \/ HandledComplete
  <2>1. UNCHANGED <<store, identities, completed, parked>>
    BY <1>2, Zenon DEF HandledAwaitingAck, HandledComplete, trackVars, noteVars
  <2> QED BY <1>1, <2>1, Zenon DEF Way, StillOnItsWay, Unprojected, Completed, Busy
<1>3. CASE HandledRetry \/ MarkHandledFails
  <2>1. /\ UNCHANGED <<store, completed>> /\ identities' = identities \ {pending[current]}
        /\ parked' = parked \cup {pending[current]}
    BY <1>3, Zenon DEF HandledRetry, MarkHandledFails, Release
  <2> QED BY <1>1, <2>1, Zenon DEF Way, StillOnItsWay, Unprojected, Completed, Busy
<1>4. CASE MarkHandled
  <2> DEFINE m == pending[current]
  <2>1. /\ store' = [store EXCEPT ![m] = "projected"] /\ identities' = identities \ {m}
        /\ parked' = parked /\ m \in Messages
    BY <1>1, <1>4, Zenon DEF MarkHandled, Complete, noteVars
  <2>2. Completed' \subseteq Completed \cup {m}
    BY <1>1, <1>4, CompletedEffect, Zenon DEF MarkHandled, Complete, IdInv, Shape
  <2>3. Completed \subseteq Messages
    BY EntriesOf, Zenon DEF IdInv, Shape, Completed
  <2> HIDE DEF m
  <2>4. Unprojected' = Unprojected \ {m}
    BY <2>1, Zenon DEF Unprojected, IdInv, Shape
  <2>5. \A k \in Completed' : store'[k] = "projected"
    BY <2>1, <2>2, <2>3 DEF Way, IdInv, Shape
  <2>6. StillOnItsWay'
    BY <1>1, <2>1, <2>4, Zenon DEF Way, StillOnItsWay, Busy
  <2> QED BY <1>1, <2>5, <2>6, Zenon DEF Way
<1> QED BY <1>2, <1>3, <1>4, Zenon DEF HandleStep

(* An acknowledgment that is recorded takes its message off the list.         *)
LEMMA AckWay == IdInv /\ Way /\ (AckStep \/ PollAndAcknowledge) => Way'
<1> SUFFICES ASSUME IdInv, Way, AckStep \/ PollAndAcknowledge PROVE Way'
  BY Zenon
<1>1. /\ UNCHANGED <<stream, ready, waiting, staleReplay, phase, authoritative, parked>>
      /\ pc' \in {pc, "acking", "loop"} /\ (pc \in {"drain", "stopped"} => pc' = pc)
  BY Zenon DEF AckStep, ProcessAcknowledgments, RecordAck, RecordAckFails,
     AcknowledgmentRetryTick,
         PollAndAcknowledge, replayVars, sessionVars, noteVars, actorVars, NextAck,
         ServicesAcks, AtSelect, Dispatching
<1>2. CASE ~RecordAck
  <2>1. UNCHANGED <<store, identities, completed>>
    BY <1>2, Zenon DEF AckStep, ProcessAcknowledgments, RecordAckFails, AcknowledgmentRetryTick,
                PollAndAcknowledge, trackVars
  <2> QED BY <1>1, <2>1, Zenon DEF Way, StillOnItsWay, Unprojected, Completed
<1>3. CASE RecordAck
  <2> DEFINE id == Head(batch)
             m == pending[id]
  <2>1. id \in DOMAIN pending /\ m \in Messages
    BY <1>3, EntriesOf, Zenon DEF RecordAck, IdInv, Agree
  <2>2. /\ store' = [store EXCEPT ![m] = "projected"] /\ identities' = identities \ {m}
        /\ Complete(id)
    BY <1>3, <2>1, Zenon DEF RecordAck, Complete
  <2>3. Completed' \subseteq Completed \cup {m}
    BY <2>1, <2>2, CompletedEffect, ZenonT(30) DEF Complete, IdInv, Shape
  <2>4. Completed \subseteq Messages
    BY EntriesOf, Zenon DEF IdInv, Shape, Completed
  <2> HIDE DEF m, id
  <2>5. Unprojected' = Unprojected \ {m}
    BY <2>2, Zenon DEF Unprojected, IdInv, Shape
  <2>6. \A k \in Completed' : store'[k] = "projected"
    BY <2>1, <2>2, <2>3, <2>4, Zenon DEF Way, IdInv, Shape
  <2>7. StillOnItsWay'
    BY <1>1, <2>2, <2>5, Zenon DEF Way, StillOnItsWay
  <2> QED BY <1>1, <2>6, <2>7, Zenon DEF Way
<1> QED BY <1>2, <1>3, Zenon

(* Shutdown records at most; a new process starts over.                       *)
LEMMA EndWay == IdInv /\ Way /\ EndStep => Way'
<1> SUFFICES ASSUME IdInv, Way, EndStep PROVE Way'
  BY Zenon
<1>1. CASE Restart
  BY <1>1, EmptyEntries DEF Restart, Way, StillOnItsWay, Completed
<1>2. CASE Interrupt \/ ReceiveStartFatal \/ DrainBatch \/ DrainTimesOut
  <2>1. /\ UNCHANGED <<ready, staleReplay, phase, authoritative, completed>>
        /\ pc' \in {"drain", "stopped"}
    BY <1>2, Zenon DEF Interrupt, ReceiveStartFatal, DrainBatch, DrainTimesOut, replayVars,
       sessionVars,
                trackVars
  <2>2. Completed \subseteq Messages
    BY EntriesOf, Zenon DEF IdInv, Shape, Completed
  <2>3. \A m \in Messages : store[m] = "projected" => store'[m] = "projected"
    <3>1. CASE ~Interrupt
      BY <1>2, <3>1, Zenon DEF ReceiveStartFatal, DrainBatch, DrainTimesOut
    <3>2. CASE Interrupt
      <4>1. PICK wrote : store' = [m \in Messages |-> IF m \in wrote THEN "projected" ELSE store[m]]
        BY <3>2, Zenon DEF Interrupt
      <4> QED BY <4>1, Zenon
    <3> QED BY <3>1, <3>2, Zenon
  <2> QED BY <2>1, <2>2, <2>3, Zenon DEF Way, StillOnItsWay, Completed
<1> QED BY <1>1, <1>2, Zenon DEF EndStep

(* Both parts hold in every reachable state.                                  *)
LEMMA WayKept == Spec => [](IdInv /\ Way)
<1>1. IdInv /\ Way /\ [Next]_vars => Way'
  BY Kinds, QuietWay, ProjectWay, HandleWay, AckWay, EndWay, Zenon
<1> QED BY <1>1, IdsKept, WayInitially, PTL DEF Spec

-----------------------------------------------------------------------------
(* Each message is shown once, while the window covers the messages.          *)

(* The initial state.                                                         *)
LEMMA OnceInitially == Init => Once
  BY EmptyEntries DEF Init, Once, Remembered, Incoming, Unseen, Busy

(* Steps that change nothing an event depends on.                             *)
LEMMA UnseenFrame ==
    ASSUME Unseen, inbox'.accepted = inbox.accepted,
           UNCHANGED <<completed, queue, shown, pending, identities>>,
           Busy' => Busy /\ current' = current
    PROVE  Unseen'
  BY Zenon DEF Unseen, Completed

(* Steps that change nothing a message depends on.                            *)
LEMMA RememberedFrame ==
    Remembered /\ UNCHANGED <<store, stream, ready, waiting, completed, identities>> => Remembered'
  BY Zenon DEF Remembered, Incoming, Completed

(* What the receiving side brings is unrecorded or remembered.                *)
LEMMA QuietOnce == IdInv /\ Once /\ QuietStep => Once'
<1> SUFFICES ASSUME IdInv, Once, QuietStep PROVE Once'
  BY Zenon
<1>1. UNCHANGED <<completed, identities, pending, inbox, pc, current>>
  BY QuietIds, Zenon DEF trackVars, actorVars, inboxVars
<1>2. UNCHANGED <<queue, shown>> /\ (main' # "shutdown" => main # "shutdown")
  BY Zenon DEF QuietStep, Receive, LoadUnprojected, ReceiveContent, GroupsSynchronized,
         DirtySnapshotFails, EnterRecovery, ReceiveStarted, CloseEvents, SendShutdown, vars, uiVars
<1>3. SUFFICES ASSUME Remembered, Unseen PROVE Remembered' /\ Unseen'
  BY <1>1, <1>2, Zenon DEF Once
<1>4. Unseen'
  BY <1>1, <1>2, <1>3, UnseenFrame, Zenon DEF Busy
<1>5. /\ stream \in Seq(Messages) /\ ready \in Seq(Messages) /\ waiting \in Seq(Messages)
      /\ store \in [Messages -> {"none", "stored", "projected"}]
      /\ identities \subseteq Messages /\ Incoming \subseteq Messages
  BY EntriesOf DEF IdInv, Shape, Agree, Incoming
<1>6. Completed' = Completed
  BY <1>1, Zenon DEF Completed
<1>7. ASSUME NEW m \in Messages, Receive(m) PROVE Remembered'
  <2>1. /\ store[m] = "none" /\ store' = [store EXCEPT ![m] = "stored"]
        /\ stream' = Append(stream, m) /\ UNCHANGED <<ready, waiting>>
    BY <1>7, Zenon DEF Receive, replayVars
  <2>2. Range(stream') = Range(stream) \cup {m}
    BY <1>5, <2>1, AppendEntries
  <2>3. Incoming' = Incoming \cup {m}
    BY <2>1, <2>2, Zenon DEF Incoming
  <2> QED BY <1>1, <1>3, <1>5, <1>6, <2>1, <2>3, Zenon DEF Remembered
<1>8. ASSUME LoadUnprojected PROVE Remembered'
  <2>1. /\ UNCHANGED <<store, stream>>
        /\ \/ /\ ready' = SetToSeq(Unprojected \ GroupMessages)
              /\ waiting' = SetToSeq(Unprojected \cap GroupMessages)
           \/ UNCHANGED <<ready, waiting>>
    BY <1>8, Zenon DEF LoadUnprojected
  <2>2. \/ Range(ready') \cup Range(waiting') = Unprojected
        \/ UNCHANGED <<ready, waiting>>
    <3>1. Unprojected \in SUBSET Messages
      BY Zenon DEF Unprojected
    <3> QED BY <2>1, <3>1, Loaded, Zenon
  <2>3. Incoming' \subseteq Incoming \cup Unprojected
    BY <2>1, <2>2, Zenon DEF Incoming
  <2> QED BY <1>1, <1>3, <1>6, <2>1, <2>3, Zenon DEF Remembered, Unprojected
<1>9. ASSUME ReceiveContent PROVE Remembered'
  <2> DEFINE m == Head(stream)
  <2>1. /\ stream # <<>> /\ stream' = Tail(stream) /\ store' = store
        /\ \/ waiting' = Append(waiting, m) /\ ready' = ready
           \/ ready' = Append(ready, m) /\ waiting' = waiting
    BY <1>9, Zenon DEF ReceiveContent
  <2>2. m \in Messages /\ Range(stream) = {m} \cup Range(stream')
    BY <1>5, <2>1, TailEntries, Zenon
  <2>3. /\ Range(Append(waiting, m)) = Range(waiting) \cup {m}
        /\ Range(Append(ready, m)) = Range(ready) \cup {m}
    BY <1>5, <2>2, AppendEntries, SMTT(30)
  <2> HIDE DEF m
  <2>4. Incoming' = Incoming
    BY <2>1, <2>2, <2>3, Zenon DEF Incoming
  <2> QED BY <1>1, <1>3, <1>6, <2>1, <2>4, Zenon DEF Remembered
<1>10. ASSUME GroupsSynchronized PROVE Remembered'
  <2>1. /\ UNCHANGED <<store, stream>> /\ ready' = ready \o waiting /\ waiting' = <<>>
    BY <1>10, Zenon DEF GroupsSynchronized
  <2>2. Range(ready') = Range(ready) \cup Range(waiting) /\ Range(waiting') = {}
    BY <1>5, <2>1, ConcatEntries, EmptyEntries
  <2>3. Incoming' = Incoming
    BY <2>1, <2>2, Zenon DEF Incoming
  <2> QED BY <1>1, <1>3, <1>6, <2>1, <2>3, Zenon DEF Remembered
<1>11. ASSUME \/ DirtySnapshotFails \/ EnterRecovery \/ ReceiveStarted
              \/ CloseEvents \/ SendShutdown \/ UNCHANGED vars
       PROVE  Remembered'
  <2>1. UNCHANGED <<store, ready, waiting>> /\ (stream' = stream \/ stream' = <<>>)
    BY <1>11, Zenon DEF DirtySnapshotFails, EnterRecovery, ReceiveStarted, CloseEvents,
       SendShutdown, vars,
                 replayVars
  <2>2. Incoming' \subseteq Incoming
    BY <2>1, EmptyEntries, Zenon DEF Incoming
  <2> QED BY <1>1, <1>3, <1>6, <2>1, <2>2, Zenon DEF Remembered
<1> QED BY <1>4, <1>7, <1>8, <1>9, <1>10, <1>11, Zenon DEF QuietStep

(* A message is reserved only if it was neither shown nor recorded.           *)
LEMMA ProjectOnce == IdInv /\ Once /\ ProjectContent => Once'
<1> SUFFICES ASSUME IdInv, Once, ProjectContent PROVE Once'
  BY Zenon
<1> DEFINE m == Head(ReadyNow)
<1>1. /\ ReadyNow # <<>> /\ ready' = Tail(ReadyNow) /\ waiting' = WaitingNow /\ pc = "loop"
      /\ UNCHANGED <<store, stream, completed, queue, shown, main>>
  BY Zenon DEF ProjectContent, Dispatching, trackVars, uiVars
<1>2. SUFFICES ASSUME Remembered, Unseen PROVE Remembered' /\ Unseen'
  BY <1>1, Zenon DEF Once
<1>3. /\ m \in Messages
      /\ Range(ready) \cup Range(waiting) = {m} \cup Range(ready') \cup Range(waiting')
  BY <1>1, ReadyNowEntries, Zenon DEF IdInv
<1>4. Incoming = {m} \cup Incoming' /\ Completed' = Completed
  BY <1>1, <1>3, Zenon DEF Incoming, Completed
<1>5. CASE AwaitsGroups(m) \/ Reserved(m)
  <2>1. UNCHANGED <<trackVars, inboxVars, actorVars>>
    BY <1>5, Zenon DEF ProjectContent
  <2>2. Unseen'
    BY <1>1, <1>2, <2>1, UnseenFrame, Zenon DEF trackVars, inboxVars, actorVars, Busy
  <2>3. Remembered'
    BY <1>1, <1>2, <1>4, <2>1, Zenon DEF Remembered, trackVars
  <2> QED BY <2>2, <2>3, Zenon
<1>6. CASE ~(AwaitsGroups(m) \/ Reserved(m))
  <2>1. /\ Track(m) /\ m \notin identities /\ m \notin Completed /\ nextId < MaxDeliveries
        /\ current' = nextId + 1 /\ pc' = "handling" /\ batch' = batch
    BY <1>6, Zenon DEF ProjectContent, Reserved
  <2>2. /\ nextId + 1 \notin DOMAIN pending /\ DOMAIN pending' = DOMAIN pending \cup {nextId + 1}
        /\ pending'[nextId + 1] = m
        /\ \A i \in DOMAIN pending : pending'[i] = pending[i]
        /\ inbox'.accepted = inbox.accepted
    BY <1>3, <2>1, TrackAgrees, Zenon DEF IdInv
  <2>3. identities' = identities \cup {m}
    BY <2>1, Zenon DEF Track
  <2> HIDE DEF m
  <2>4. Remembered'
    BY <1>1, <1>2, <1>4, <2>1, <2>3, Zenon DEF Remembered
  <2>5. shown[m] = 0
    BY <1>2, <1>3, <2>1, Zenon DEF Unseen, Once
  <2>6. inbox.accepted \subseteq DOMAIN pending
    BY Zenon DEF IdInv, Agree
  <2>7. Unseen'
    BY <1>1, <1>2, <1>4, <2>1, <2>2, <2>3, <2>5, <2>6, Zenon DEF Unseen
  <2> QED BY <2>4, <2>7, Zenon
<1> QED BY <1>5, <1>6, Zenon

(* A projection that is recorded, by its handler or by an acknowledgment, is  *)
(* remembered in the place of its pending entry.                              *)
LEMMA CompleteOnce ==
    ASSUME WindowCovers, IdInv, Once, NEW id \in DOMAIN pending, Complete(id),
           store' = [store EXCEPT ![pending[id]] = "projected"],
           batch' \in Seq(Nat), Distinct(batch'), Range(batch') \subseteq Range(batch) \ {id},
           UNCHANGED <<stream, ready, waiting, queue, shown, main>>,
           ~Busy', main # "shutdown" => \A e \in Range(queue) : e.id # id
    PROVE  Once'
<1> DEFINE m == pending[id]
<1>1. m \in Messages /\ identities' = identities \ {m}
  BY Zenon DEF IdInv, Agree, Complete
<1>2. /\ DOMAIN pending' = DOMAIN pending \ {id}
      /\ \A i \in DOMAIN pending' : pending'[i] = pending[i]
      /\ inbox'.accepted = inbox.accepted \ {id}
  BY ReleaseAgrees, Zenon DEF IdInv, Complete
<1>3. Distinct(completed') /\ Completed' = Completed \cup {m}
  BY <1>1, CompletedEffect, Zenon DEF Complete, Once, IdInv, Shape
<1> HIDE DEF m
<1>4. SUFFICES ASSUME main # "shutdown", Remembered, Unseen PROVE Remembered' /\ Unseen'
  BY <1>3, Zenon DEF Once
<1>5. identities \subseteq Messages /\ Incoming \subseteq Messages /\ Incoming' = Incoming
  BY EntriesOf DEF IdInv, Shape, Agree, Incoming
<1>6. store' = [store EXCEPT ![m] = "projected"]
  BY Zenon DEF m
<1>7. Remembered'
  BY <1>1, <1>3, <1>4, <1>5, <1>6, Zenon DEF Remembered, IdInv, Shape
<1>8. Unseen'
  BY <1>1, <1>2, <1>3, <1>4, Zenon DEF Unseen
<1> QED BY <1>7, <1>8, Zenon

(* The current projection is handed over, completed, or released unseen.      *)
LEMMA HandleOnce == WindowCovers /\ IdInv /\ Once /\ HandleStep => Once'
<1> SUFFICES ASSUME WindowCovers, IdInv, Once, HandleStep PROVE Once'
  BY Zenon
<1>1. /\ Busy /\ current \in DOMAIN pending /\ batch = <<>> /\ main # "shutdown"
      /\ pending[current] \in Messages
      /\ UNCHANGED <<stream, ready, waiting, shown, main>>
  BY Zenon DEF HandleStep, HandledAwaitingAck, HandledRetry, HandledComplete, MarkHandled,
         MarkHandledFails, IdInv, Agree, Stand, Busy, PhasePolled, replayVars, uiVars
<1>2. Remembered /\ Unseen
  BY <1>1, Zenon DEF Once
<1>3. CASE HandledAwaitingAck
  <2> DEFINE e == [id |-> current, msg |-> pending[current]]
  <2>1. /\ UNCHANGED <<trackVars, inbox, store>> /\ pc' = "loop"
        /\ queue' = queue \/ queue' = Append(queue, e)
    BY <1>3, Zenon DEF HandledAwaitingAck, inboxVars
  <2>2. Remembered'
    BY <1>1, <1>2, <2>1, RememberedFrame, Zenon DEF trackVars
  <2>3. e \in Events /\ e.id = current /\ e.msg = pending[current]
    BY <1>1 DEF IdInv, Agree, Events
  <2> HIDE DEF e
  <2>4. e \notin Range(queue)
    BY <1>1, <1>2, <2>3, Zenon DEF Unseen
  <2>5. Range(queue') \subseteq Range(queue) \cup {e} /\ Distinct(queue')
    <3>1. queue \in Seq(Events) /\ Distinct(queue)
      BY <1>2, Zenon DEF IdInv, Shape, Unseen
    <3>2. Range(Append(queue, e)) = Range(queue) \cup {e} /\ Distinct(Append(queue, e))
      BY <2>3, <2>4, <3>1, AppendEntries
    <3> QED BY <2>1, <3>1, <3>2, Zenon
  <2>6. Unseen'
    BY <1>1, <1>2, <2>1, <2>3, <2>5, Zenon DEF Unseen, trackVars, Completed, Busy
  <2> QED BY <1>1, <2>1, <2>2, <2>6, Zenon DEF Once, trackVars
<1>4. CASE HandledComplete
  <2>1. UNCHANGED <<trackVars, inbox, store, queue, current>>
    BY <1>4, Zenon DEF HandledComplete, inboxVars, uiVars
  <2>2. Remembered' /\ Unseen'
    BY <1>1, <1>2, <2>1, RememberedFrame, UnseenFrame, Zenon DEF trackVars
  <2> QED BY <1>1, <2>1, <2>2, Zenon DEF Once, trackVars
<1>5. CASE HandledRetry \/ MarkHandledFails
  <2>1. /\ pending' = Drop(pending, current) /\ identities' = identities \ {pending[current]}
        /\ inbox' = Unregister(inbox, current) /\ nextId' = nextId /\ batch' = batch
        /\ pc' = "loop" /\ UNCHANGED <<store, queue, completed>>
    BY <1>5, Zenon DEF HandledRetry, MarkHandledFails, Release, uiVars
  <2>2. /\ batch' \in Seq(Nat) /\ Distinct(batch') /\ Range(batch') = {}
    BY <1>1, <2>1, EmptyEntries
  <2>3. /\ DOMAIN pending' = DOMAIN pending \ {current}
        /\ \A i \in DOMAIN pending' : pending'[i] = pending[i]
        /\ inbox'.accepted = inbox.accepted \ {current}
    BY <1>1, <2>1, <2>2, ReleaseAgrees, Zenon DEF IdInv
  <2>4. Remembered'
    BY <1>1, <1>2, <2>1, Zenon DEF Remembered, Incoming, Completed
  <2>5. Completed' = Completed /\ ~Busy'
    BY <2>1, Zenon DEF Completed, Busy
  <2>6. Unseen'
    BY <1>1, <1>2, <2>1, <2>3, <2>5 DEF Unseen
  <2> QED BY <1>1, <2>1, <2>4, <2>6, Zenon DEF Once
<1>6. CASE MarkHandled
  <2>1. /\ Complete(current) /\ store' = [store EXCEPT ![pending[current]] = "projected"]
        /\ batch' = batch /\ queue' = queue /\ ~Busy'
    BY <1>6, Zenon DEF MarkHandled, Busy, uiVars
  <2>2. /\ batch' \in Seq(Nat) /\ Distinct(batch') /\ Range(batch') = {}
    BY <1>1, <2>1, EmptyEntries
  <2>3. \A e \in Range(queue) : e.id # current
    BY <1>1, <1>2, Zenon DEF Unseen
  <2> QED BY <1>1, <2>1, <2>2, <2>3, CompleteOnce, Zenon
<1> QED BY <1>3, <1>4, <1>5, <1>6, Zenon DEF HandleStep

(* An acknowledged id has no event in the queue any more.                     *)
LEMMA AckOnce == WindowCovers /\ IdInv /\ Once /\ AckStep => Once'
<1> SUFFICES ASSUME WindowCovers, IdInv, Once, AckStep PROVE Once'
  BY Zenon
<1>1. UNCHANGED <<stream, ready, waiting, queue, shown, main, current>>
  BY Zenon DEF AckStep, ProcessAcknowledgments, RecordAck, RecordAckFails,
     AcknowledgmentRetryTick,
         replayVars, uiVars, actorVars
<1>2. Busy' => Busy
  BY Zenon DEF AckStep, ProcessAcknowledgments, RecordAck, RecordAckFails,
     AcknowledgmentRetryTick,
         actorVars, Busy, NextAck
<1>3. CASE RecordAck
  <2> DEFINE id == Head(batch)
  <2>1. /\ batch # <<>> /\ batch' = Tail(batch) /\ pc \in {"acking", "drain"}
        /\ pc' \in {"loop", "acking", "drain"}
    BY <1>3, Zenon DEF RecordAck, Recording, NextAck
  <2>2. /\ Tail(batch) \in Seq(Nat) /\ Distinct(Tail(batch)) /\ id \in inbox.accepted
        /\ Range(Tail(batch)) = Range(batch) \ {id} /\ id \in DOMAIN pending
    BY <2>1, TailEntries, EntriesOf, Zenon DEF IdInv, Agree
  <2>3. /\ store' = [store EXCEPT ![pending[id]] = "projected"] /\ Complete(id)
    BY <1>3, <2>2, Zenon DEF RecordAck
  <2>4. main # "shutdown" => \A e \in Range(queue) : e.id # id
    BY <2>2, Zenon DEF Once, Unseen
  <2>5. ~Busy'
    BY <2>1, Zenon DEF Busy
  <2> HIDE DEF id
  <2> QED BY <1>1, <2>1, <2>2, <2>3, <2>4, <2>5, CompleteOnce, Zenon
<1>4. CASE ~RecordAck
  <2>1. UNCHANGED <<store, trackVars>>
    BY <1>4, Zenon DEF AckStep, ProcessAcknowledgments, RecordAckFails, AcknowledgmentRetryTick
  <2>2. inbox'.accepted = inbox.accepted
    <3>1. CASE ProcessAcknowledgments
      BY <3>1, TakeAgrees, Zenon DEF ProcessAcknowledgments, ServicesAcks, AtSelect, Dispatching,
         IdInv,
                              Stand
    <3>2. CASE RecordAckFails
      BY <3>2, DeferAgrees, Zenon DEF RecordAckFails, IdInv
    <3>3. CASE AcknowledgmentRetryTick
      BY <3>3, RetryAgrees, Zenon DEF AcknowledgmentRetryTick, Rejoin, actorVars, IdInv
    <3> QED BY <1>4, <3>1, <3>2, <3>3, Zenon DEF AckStep
  <2>3. Remembered => Remembered'
    BY <1>1, <2>1, RememberedFrame, Zenon DEF trackVars
  <2>4. Unseen => Unseen'
    BY <1>1, <1>2, <2>1, <2>2, UnseenFrame, Zenon DEF trackVars
  <2> QED BY <1>1, <2>1, <2>3, <2>4, Zenon DEF Once, trackVars
<1> QED BY <1>3, <1>4, Zenon

(* The event that is polled is the only one of its message.                   *)
LEMMA PollOnce == IdInv /\ Once /\ PollAndAcknowledge => Once'
<1> SUFFICES ASSUME IdInv, Once, PollAndAcknowledge PROVE Once'
  BY Zenon
<1> DEFINE e == Head(queue)
<1>1. /\ queue # <<>> /\ queue' = Tail(queue) /\ Submit(e.id) /\ main = "up"
      /\ shown' = [shown EXCEPT ![e.msg] = @ + 1]
      /\ UNCHANGED <<store, stream, ready, waiting, trackVars, batch, pc, current, main>>
  BY Zenon DEF PollAndAcknowledge, replayVars, actorVars
<1>2. Remembered /\ Unseen
  BY <1>1, Zenon DEF Once
<1>3. /\ e \in Events /\ e \in Range(queue) /\ Distinct(queue')
      /\ Range(queue') = Range(queue) \ {e} /\ Range(queue) \subseteq Events
  BY <1>1, <1>2, TailEntries, EntriesOf, Zenon DEF IdInv, Shape, Unseen
<1>4. inbox'.accepted \subseteq inbox.accepted \cup {e.id}
  BY <1>1, SubmitAgrees, Zenon DEF IdInv
<1> HIDE DEF e
<1>5. /\ e.id \in DOMAIN pending /\ pending[e.id] = e.msg /\ shown[e.msg] = 0
      /\ e.msg \in Messages /\ (Busy => e.id # current)
  BY <1>2, <1>3, Zenon DEF Unseen, Events
<1>6. /\ shown' \in [Messages -> {0, 1}] /\ shown'[e.msg] = 1
      /\ \A m \in Messages \ {e.msg} : shown'[m] = shown[m]
  BY <1>1, <1>5 DEF Once
<1>7. \A i \in DOMAIN pending : i # e.id => pending[i] # e.msg
  BY <1>5, Zenon DEF IdInv, Agree
<1>8. \A f \in Range(queue') : f \in Range(queue) /\ f.id # e.id /\ f.msg # e.msg /\ f.msg \in Messages
  <2> SUFFICES ASSUME NEW f \in Range(queue')
               PROVE  f \in Range(queue) /\ f.id # e.id /\ f.msg # e.msg /\ f.msg \in Messages
    BY Zenon
  <2>1. f \in Range(queue) /\ f \in Events /\ f # e
    BY <1>3, Zenon
  <2>2. f.id \in DOMAIN pending /\ pending[f.id] = f.msg
    BY <1>2, <2>1, Zenon DEF Unseen
  <2>3. f.id # e.id
    BY <1>3, <1>5, <2>1, <2>2 DEF Events
  <2> QED BY <1>7, <2>1, <2>2, <2>3, Zenon DEF Events
<1>9. Busy' = Busy /\ Completed' = Completed
  BY <1>1, Zenon DEF Busy, Completed, trackVars
<1>10. Busy => /\ current \in DOMAIN pending /\ pending[current] \in Messages
               /\ pending[current] # e.msg
  BY <1>5, <1>7, Zenon DEF IdInv, Stand, Agree
<1>11. e.msg \in identities
  BY <1>5, Zenon DEF IdInv, Agree
<1>12. Unseen'
  <2>1. \A f \in Range(queue') :
          /\ f.id \in DOMAIN pending /\ f.id \notin inbox'.accepted
          /\ pending[f.id] = f.msg /\ shown'[f.msg] = 0
          /\ Busy => f.id # current
    BY <1>2, <1>4, <1>6, <1>8, Zenon DEF Unseen
  <2>2. Busy => current \notin inbox'.accepted /\ shown'[pending[current]] = 0
    BY <1>2, <1>4, <1>5, <1>6, <1>10, Zenon DEF Unseen
  <2>3. \A m \in Messages : shown'[m] = 1 => m \in identities \cup Completed
    BY <1>2, <1>6, <1>11, Zenon DEF Unseen
  <2> QED BY <1>1, <1>3, <1>9, <2>1, <2>2, <2>3, Zenon DEF Unseen, trackVars
<1>13. Remembered'
  BY <1>1, <1>2, RememberedFrame DEF trackVars
<1> QED BY <1>1, <1>6, <1>12, <1>13, Zenon DEF Once, trackVars

(* Shutdown shows nothing, and a new process has shown nothing.               *)
LEMMA EndOnce == IdInv /\ Once /\ EndStep => Once'
<1> SUFFICES ASSUME IdInv, Once, EndStep PROVE Once'
  BY Zenon
<1>1. CASE Restart
  BY <1>1, EmptyEntries DEF Restart, Once, Remembered, Incoming, Unseen, Busy
<1>2. CASE Interrupt
  <2>1. main' = "shutdown" /\ UNCHANGED <<completed, shown>>
    BY <1>2, Zenon DEF Interrupt, uiVars, trackVars
  <2> QED BY <2>1, Zenon DEF Once
<1>3. CASE ReceiveStartFatal \/ DrainBatch \/ DrainTimesOut
  <2>1. /\ UNCHANGED <<store, stream, ready, waiting, trackVars, queue, shown, main>>
        /\ pc' \in {"drain", "stopped"}
    BY <1>3, Zenon DEF ReceiveStartFatal, DrainBatch, DrainTimesOut, replayVars, uiVars
  <2>2. inbox'.accepted = inbox.accepted
    <3>1. CASE ReceiveStartFatal
      BY <3>1, RetryAgrees, Zenon DEF ReceiveStartFatal, IdInv
    <3>2. CASE DrainBatch
      BY <3>2, TakeAgrees, Zenon DEF DrainBatch, inboxVars, IdInv
    <3>3. CASE DrainTimesOut
      BY <3>3, Zenon DEF DrainTimesOut, inboxVars
    <3> QED BY <1>3, <3>1, <3>2, <3>3, Zenon
  <2>3. Remembered => Remembered'
    BY <2>1, RememberedFrame, Zenon DEF trackVars
  <2>4. Unseen => Unseen'
    BY <2>1, <2>2, UnseenFrame, Zenon DEF trackVars, Busy
  <2> QED BY <2>1, <2>3, <2>4, Zenon DEF Once, trackVars
<1> QED BY <1>1, <1>2, <1>3, Zenon DEF EndStep

(* What is pending was stored, also after shutdown has interrupted a write.   *)
Held == \A m \in identities : store[m] # "none"

(* The store never forgets, and what is reserved was stored.                  *)
LEMMA HeldKept == IdInv /\ Once /\ Held /\ [Next]_vars => Held'
<1> SUFFICES ASSUME IdInv, Once, Held, [Next]_vars PROVE Held'
  BY Zenon
<1>1. /\ store \in [Messages -> {"none", "stored", "projected"}] /\ identities \subseteq Messages
      /\ \A i \in DOMAIN pending : pending[i] \in Messages
  BY DEF IdInv, Shape, Agree
<1>2. CASE QuietStep
  <2>1. identities' = identities
    BY <1>2, QuietIds, Zenon DEF trackVars
  <2>2. store' = store \/ \E m \in Messages : store' = [store EXCEPT ![m] = "stored"]
    BY <1>2, Zenon DEF QuietStep, Receive, LoadUnprojected, ReceiveContent, GroupsSynchronized,
         DirtySnapshotFails, EnterRecovery, ReceiveStarted, CloseEvents, SendShutdown, vars
  <2> QED BY <1>1, <2>1, <2>2, Zenon DEF Held
<1>3. CASE ProjectContent
  <2> DEFINE m == Head(ReadyNow)
  <2>1. m \in Incoming
    <3>1. ReadyNow # <<>>
      BY <1>3, Zenon DEF ProjectContent
    <3> QED BY <3>1, ReadyNowEntries, Zenon DEF IdInv, Incoming
  <2>2. store' = store /\ main # "shutdown"
    BY <1>3, Zenon DEF ProjectContent, PhasePolled
  <2>3. identities' = identities \/ (identities' = identities \cup {m} /\ m \notin Completed)
    BY <1>3, Zenon DEF ProjectContent, Track, trackVars, Reserved
  <2> HIDE DEF m
  <2>4. m \notin Completed => store[m] = "stored"
    BY <2>1, <2>2, Zenon DEF Once, Remembered
  <2> QED BY <2>2, <2>3, <2>4, Zenon DEF Held
<1>4. CASE HandleStep \/ AckStep \/ PollAndAcknowledge
  <2>1. identities' \subseteq identities
    BY <1>4, Zenon DEF HandleStep, HandledAwaitingAck, HandledRetry, HandledComplete, MarkHandled,
         MarkHandledFails, Release, Complete, AckStep, ProcessAcknowledgments, RecordAck,
         RecordAckFails, AcknowledgmentRetryTick, PollAndAcknowledge, trackVars
  <2>2. store' = store \/ \E i : store' = [store EXCEPT ![pending[i]] = "projected"]
    BY <1>4, Zenon DEF HandleStep, HandledAwaitingAck, HandledRetry, HandledComplete, MarkHandled,
         MarkHandledFails, AckStep, ProcessAcknowledgments, RecordAck,
         RecordAckFails, AcknowledgmentRetryTick, PollAndAcknowledge
  <2>3. CASE store' = store
    BY <2>1, <2>3, Zenon DEF Held
  <2>4. ASSUME NEW i, store' = [store EXCEPT ![pending[i]] = "projected"] PROVE Held'
    BY <1>1, <2>1, <2>4, Zenon DEF Held
  <2> QED BY <2>2, <2>3, <2>4, Zenon
<1>5. CASE EndStep
  <2>1. identities' \subseteq identities
    BY <1>5, Zenon DEF EndStep, Interrupt, ReceiveStartFatal, DrainBatch, DrainTimesOut, Restart,
       trackVars
  <2>2. CASE ~Interrupt
    <3>1. store' = store
      BY <1>5, <2>2, Zenon DEF EndStep, ReceiveStartFatal, DrainBatch, DrainTimesOut, Restart
    <3> QED BY <2>1, <3>1, Zenon DEF Held
  <2>3. CASE Interrupt
    <3>1. PICK wrote : store' = [m \in Messages |-> IF m \in wrote THEN "projected" ELSE store[m]]
      BY <2>3, Zenon DEF Interrupt
    <3> QED BY <1>1, <2>1, <3>1, Zenon DEF Held
  <2> QED BY <2>2, <2>3, Zenon
<1> QED BY <1>2, <1>3, <1>4, <1>5, Kinds, Zenon

(* An id is accepted only after the adapter has polled the event of its       *)
(* message, and the handler records at once only what it found needless.      *)
Taken ==
    /\ \A i \in inbox.accepted : pending[i] \in presented \cup rejected
    /\ pc = "marking" => pending[current] \in handled

(* Nothing is accepted or recorded unseen.                                    *)
LEMMA TakenKept == IdInv /\ Once /\ Taken /\ [Next]_vars => Taken'
<1> SUFFICES ASSUME IdInv, Once, Taken, [Next]_vars PROVE Taken'
  BY Zenon
<1>1. inbox.accepted \subseteq DOMAIN pending
  BY Zenon DEF IdInv, Agree
<1>2. CASE QuietStep
  <2>1. UNCHANGED <<trackVars, inboxVars, actorVars>>
    BY <1>2, QuietIds, Zenon
  <2>2. UNCHANGED <<presented, rejected, handled>>
    BY <1>2, Zenon DEF QuietStep, Receive, LoadUnprojected, ReceiveContent, GroupsSynchronized,
         DirtySnapshotFails, EnterRecovery, ReceiveStarted, CloseEvents, SendShutdown, vars,
         uiVars, noteVars
  <2> QED BY <2>1, <2>2, Zenon DEF Taken, trackVars, inboxVars, actorVars
<1>3. CASE ProjectContent
  <2> DEFINE m == Head(ReadyNow)
  <2>1. m \in Messages /\ UNCHANGED <<presented, rejected, handled>>
    BY <1>3, ReadyNowEntries, Zenon DEF ProjectContent, IdInv, uiVars, noteVars
  <2>2. CASE AwaitsGroups(m) \/ Reserved(m)
    <3>1. UNCHANGED <<trackVars, inboxVars, actorVars>>
      BY <1>3, <2>2, Zenon DEF ProjectContent
    <3> QED BY <2>1, <3>1, Zenon DEF Taken, trackVars, inboxVars, actorVars
  <2>3. CASE ~(AwaitsGroups(m) \/ Reserved(m))
    <3>1. /\ Track(m) /\ m \notin identities /\ nextId < MaxDeliveries
          /\ pc' = "handling" /\ batch' = batch
      BY <1>3, <2>3, Zenon DEF ProjectContent, Reserved
    <3>2. /\ \A i \in DOMAIN pending : pending'[i] = pending[i]
          /\ inbox'.accepted = inbox.accepted
      BY <2>1, <3>1, TrackAgrees, Zenon DEF IdInv
    <3> QED BY <1>1, <2>1, <3>1, <3>2, Zenon DEF Taken
  <2> QED BY <2>2, <2>3, Zenon
<1>4. CASE HandledAwaitingAck
  BY <1>4, Zenon DEF HandledAwaitingAck, Taken, trackVars, inboxVars, noteVars
<1>5. CASE HandledComplete
  BY <1>5, Zenon DEF HandledComplete, Taken, trackVars, inboxVars, uiVars
<1>6. CASE HandledRetry \/ MarkHandledFails \/ MarkHandled
  <2>1. current \in DOMAIN pending /\ batch = <<>>
    BY <1>6, Zenon DEF HandledRetry, MarkHandledFails, MarkHandled, IdInv, Stand, Busy
  <2>2. /\ pending' = Drop(pending, current) /\ identities' = identities \ {pending[current]}
        /\ inbox' = Unregister(inbox, current) /\ nextId' = nextId /\ batch' = batch
        /\ pc' = "loop" /\ UNCHANGED <<presented, rejected, handled>>
    BY <1>6, Zenon DEF HandledRetry, MarkHandledFails, MarkHandled, Release, Complete, uiVars,
       noteVars
  <2>3. /\ batch' \in Seq(Nat) /\ Distinct(batch') /\ Range(batch') = {}
    BY <2>1, <2>2, EmptyEntries
  <2>4. /\ \A i \in DOMAIN pending' : pending'[i] = pending[i]
        /\ inbox'.accepted = inbox.accepted \ {current}
        /\ DOMAIN pending' = DOMAIN pending \ {current}
    BY <2>1, <2>2, <2>3, ReleaseAgrees, Zenon DEF IdInv
  <2> QED BY <1>1, <2>2, <2>4, Zenon DEF Taken
<1>7. CASE RecordAck
  <2> DEFINE id == Head(batch)
  <2>1. /\ batch # <<>> /\ batch' = Tail(batch) /\ pc' # "marking"
        /\ UNCHANGED <<presented, rejected, handled>>
    BY <1>7, Zenon DEF RecordAck, Recording, NextAck, uiVars, noteVars
  <2>2. /\ Tail(batch) \in Seq(Nat) /\ Distinct(Tail(batch))
        /\ Range(Tail(batch)) = Range(batch) \ {id} /\ id \in DOMAIN pending
    BY <2>1, TailEntries, EntriesOf, Zenon DEF IdInv, Agree
  <2>3. Complete(id)
    BY <1>7, <2>2, Zenon DEF RecordAck
  <2> HIDE DEF id
  <2>4. /\ \A i \in DOMAIN pending' : pending'[i] = pending[i]
        /\ inbox'.accepted = inbox.accepted \ {id}
        /\ DOMAIN pending' = DOMAIN pending \ {id}
    BY <2>1, <2>2, <2>3, ReleaseAgrees, Zenon DEF IdInv, Complete
  <2> QED BY <1>1, <2>1, <2>4, Zenon DEF Taken
<1>8. CASE ProcessAcknowledgments \/ RecordAckFails \/ AcknowledgmentRetryTick
  <2>1. UNCHANGED <<trackVars, presented, rejected, handled, current>> /\ (pc' = "marking" => pc' = pc)
    BY <1>8, Zenon DEF ProcessAcknowledgments, RecordAckFails, AcknowledgmentRetryTick, Recording,
       NextAck, uiVars, noteVars, actorVars
  <2>2. inbox'.accepted = inbox.accepted
    <3>1. CASE ProcessAcknowledgments
      BY <3>1, TakeAgrees, Zenon DEF ProcessAcknowledgments, ServicesAcks, AtSelect, Dispatching,
         IdInv, Stand
    <3>2. CASE RecordAckFails
      BY <3>2, DeferAgrees, Zenon DEF RecordAckFails, IdInv
    <3>3. CASE AcknowledgmentRetryTick
      BY <3>3, RetryAgrees, Zenon DEF AcknowledgmentRetryTick, Rejoin, actorVars, IdInv
    <3> QED BY <1>8, <3>1, <3>2, <3>3, Zenon
  <2> QED BY <2>1, <2>2, Zenon DEF Taken, trackVars
<1>9. CASE PollAndAcknowledge
  <2> DEFINE e == Head(queue)
  <2>1. /\ queue # <<>> /\ main = "up" /\ Submit(e.id)
        /\ UNCHANGED <<trackVars, batch, pc, current, handled>>
        /\ presented \cup rejected \cup {e.msg} \subseteq presented' \cup rejected'
    BY <1>9, Zenon DEF PollAndAcknowledge, actorVars, noteVars
  <2>2. e \in Range(queue)
    BY <2>1, EntriesOf, Zenon DEF IdInv, Shape
  <2>3. inbox'.accepted \subseteq inbox.accepted \cup {e.id}
    BY <2>1, SubmitAgrees, Zenon DEF IdInv
  <2> HIDE DEF e
  <2>4. pending[e.id] = e.msg
    BY <2>1, <2>2, Zenon DEF Once, Unseen
  <2> QED BY <2>1, <2>3, <2>4, Zenon DEF Taken, trackVars
<1>10. CASE EndStep
  <2>1. CASE Restart
    BY <2>1 DEF Restart, EmptyInbox, Taken
  <2>2. CASE ~Restart
    <3>1. UNCHANGED <<trackVars, presented, rejected, handled>> /\ pc' # "marking"
      BY <1>10, <2>2, Zenon DEF EndStep, Interrupt, ReceiveStartFatal, DrainBatch, DrainTimesOut,
         uiVars, noteVars
    <3>2. CASE Interrupt \/ ReceiveStartFatal
      <4>1. inbox'.accepted = inbox.accepted
        BY <3>2, RetryAgrees, Zenon DEF Interrupt, ReceiveStartFatal, IdInv
      <4> QED BY <3>1, <4>1, Zenon DEF Taken, trackVars
    <3>3. CASE DrainBatch \/ DrainTimesOut
      <4>1. inbox'.accepted = inbox.accepted
        BY <3>3, TakeAgrees, Zenon DEF DrainBatch, DrainTimesOut, inboxVars, IdInv
      <4> QED BY <3>1, <4>1, Zenon DEF Taken, trackVars
    <3> QED BY <1>10, <2>2, <3>2, <3>3, Zenon DEF EndStep
  <2> QED BY <2>1, <2>2
<1> QED
  BY <1>2, <1>3, <1>4, <1>5, <1>6, <1>7, <1>8, <1>9, <1>10, Kinds, Zenon DEF HandleStep, AckStep

(* The whole invariant, in every reachable state.                             *)
LEMMA OnceKept == WindowCovers => (Spec => [](IdInv /\ Way /\ Once /\ Held /\ Taken))
<1> SUFFICES ASSUME WindowCovers PROVE Spec => [](IdInv /\ Way /\ Once /\ Held /\ Taken)
  BY Zenon
<1>1. Init => Once /\ Held /\ Taken
  BY OnceInitially DEF Init, EmptyInbox, Held, Taken
<1>2. IdInv /\ Once /\ [Next]_vars => Once'
  BY Kinds, QuietOnce, ProjectOnce, HandleOnce, AckOnce, PollOnce, EndOnce, Zenon
<1>3. IdInv /\ Once /\ Held /\ [Next]_vars => Held'
  BY HeldKept, Zenon
<1>4. IdInv /\ Once /\ Taken /\ [Next]_vars => Taken'
  BY TakenKept, Zenon
<1> QED BY <1>1, <1>2, <1>3, <1>4, WayKept, PTL DEF Spec

-----------------------------------------------------------------------------
(* The theorems.                                                              *)

(* What the ids of the invariant say of the inbox.                            *)
LEMMA AgreeInbox == IdInv => InboxAgrees
<1> SUFFICES ASSUME IdInv PROVE InboxAgrees
  BY Zenon
<1> DEFINE a == inbox.ready \o inbox.retry
           w == inbox.ready \o inbox.retry \o batch
<1>1. inbox.ready \in Seq(Nat) /\ inbox.retry \in Seq(Nat) /\ batch \in Seq(Nat)
  BY Zenon DEF IdInv, Agree, Inboxes
<1>2. a \in Seq(Nat) /\ Range(a) = Range(inbox.ready) \cup Range(inbox.retry) /\ Distinct(a)
  BY <1>1, ConcatEntries DEF IdInv, Agree
<1>3. w = a \o batch
  BY Zenon
<1> HIDE DEF a, w
<1>4. Range(a) \cap Range(batch) = {} /\ Distinct(batch)
  BY <1>2, Zenon DEF IdInv, Agree
<1>5. w \in Seq(Nat) /\ Range(w) = Range(a) \cup Range(batch) /\ Distinct(w)
  BY <1>1, <1>2, <1>3, <1>4, ConcatEntries
<1>6. Cardinality(Range(w)) = Len(w)
  BY <1>5, DistinctLength, Zenon
<1>7. Range(w) \subseteq inbox.accepted
  BY <1>2, <1>5, Zenon DEF IdInv, Agree
<1> QED BY <1>6, <1>7, Zenon DEF w, IdInv, Agree, InboxAgrees

(* For every set of messages and every limit, a window of identities that is  *)
(* too small included: the acknowledgment inbox (acknowledgment.rs) agrees    *)
(* with the pending projections and holds an id in one place, and while the   *)
(* session is active no stored message is lost from sight (projection.rs).    *)
THEOREM InboxAndReplayAgree == Spec => [](InboxAgrees /\ StillOnItsWay)
<1>1. IdInv /\ Way => InboxAgrees /\ StillOnItsWay
  BY AgreeInbox, Zenon DEF Way
<1> QED BY <1>1, WayKept, PTL

(* While RECENT_PROJECTION_IDENTITY_LIMIT covers the messages, one process    *)
(* hands each to Purple at most once and forgets none.                        *)
THEOREM NothingIsForgotten == WindowCovers => (Spec => []NothingForgotten)
<1> SUFFICES ASSUME WindowCovers PROVE Spec => []NothingForgotten
  BY Zenon
<1>1. IdInv /\ Way /\ Once => NothingForgotten
  <2> SUFFICES ASSUME IdInv, Way, Once PROVE NothingForgotten
    BY Zenon
  <2>1. \A m \in Messages : shown[m] =< 1
    BY SMTT(30) DEF Once
  <2> QED BY <2>1, AgreeInbox, Zenon DEF Way, NothingForgotten
<1> QED BY <1>1, OnceKept, PTL

(* A step of the projection is a step of the promise or leaves it alone.      *)
LEMMA DeliveryStep ==
    ASSUME IdInv, Once, Held, Taken, [Next]_vars
    PROVE  [Delivery!Next]_(Delivery!vars)
<1> USE DEF Delivery!Next, Delivery!vars, Delivery!Arrive, Delivery!Present, Delivery!Refuse,
         Delivery!Dismiss, Delivery!Record
<1>1. /\ store \in [Messages -> {"none", "stored", "projected"}] /\ identities \subseteq Messages
      /\ \A i \in DOMAIN pending : pending[i] \in identities
  BY DEF IdInv, Shape, Agree
<1>2. ASSUME NEW m \in Messages, Receive(m) PROVE [Delivery!Next]_(Delivery!vars)
  BY <1>2, Zenon DEF Receive, uiVars, noteVars
<1>3. ASSUME NEW m \in identities, store' = [store EXCEPT ![m] = "projected"],
             m \in presented \cup rejected \cup handled, UNCHANGED <<presented, rejected, handled>>
      PROVE  [Delivery!Next]_(Delivery!vars)
  <2>1. CASE store[m] = "stored"
    BY <1>1, <1>3, <2>1, Zenon
  <2>2. CASE store[m] = "projected"
    <3>1. store' = store
      BY <1>1, <1>3, <2>2, Zenon
    <3> QED BY <1>3, <3>1, Zenon
  <2> QED BY <1>1, <1>3, <2>1, <2>2, Zenon DEF Held
<1>4. CASE MarkHandled
  <2>1. current \in DOMAIN pending /\ pending[current] \in handled
    BY <1>4, Zenon DEF MarkHandled, IdInv, Stand, Busy, Taken
  <2>2. /\ store' = [store EXCEPT ![pending[current]] = "projected"]
        /\ UNCHANGED <<presented, rejected, handled>>
    BY <1>4, Zenon DEF MarkHandled, uiVars, noteVars
  <2> QED BY <1>1, <1>3, <2>1, <2>2, Zenon
<1>5. CASE RecordAck
  <2>1. Head(batch) \in DOMAIN pending /\ pending[Head(batch)] \in presented \cup rejected
    BY <1>5, EntriesOf, Zenon DEF RecordAck, IdInv, Agree, Taken
  <2>2. /\ store' = [store EXCEPT ![pending[Head(batch)]] = "projected"]
        /\ UNCHANGED <<presented, rejected, handled>>
    BY <1>5, <2>1, Zenon DEF RecordAck, uiVars, noteVars
  <2> QED BY <1>1, <1>3, <2>1, <2>2, Zenon
<1>6. CASE Interrupt
  <2> DEFINE writing == CASE pc = "marking" -> {pending[current]}
                          [] pc = "acking"  -> {pending[Head(batch)]}
                          [] OTHER          -> {}
  <2>1. PICK wrote \in SUBSET writing :
          store' = [m \in Messages |-> IF m \in wrote THEN "projected" ELSE store[m]]
    BY <1>6, Zenon DEF Interrupt
  <2>2. UNCHANGED <<presented, rejected, handled>>
    BY <1>6, Zenon DEF Interrupt, uiVars, noteVars
  <2>3. writing = {} \/ \E m \in identities \cap (presented \cup rejected \cup handled) : writing = {m}
    <3>1. pc = "marking" => current \in DOMAIN pending /\ pending[current] \in handled
      BY Zenon DEF IdInv, Stand, Busy, Taken
    <3>2. pc = "acking" =>
            Head(batch) \in DOMAIN pending /\ pending[Head(batch)] \in presented \cup rejected
      BY EntriesOf, Zenon DEF IdInv, Stand, Agree, Taken
    <3> QED BY <1>1, <3>1, <3>2, Zenon
  <2> HIDE DEF writing
  <2>4. CASE wrote = {}
    <3>1. store' = store
      BY <1>1, <2>1, <2>4, Zenon
    <3> QED BY <2>2, <3>1, Zenon
  <2>5. CASE wrote # {}
    <3>1. PICK m \in identities \cap (presented \cup rejected \cup handled) : wrote = {m}
      BY <2>1, <2>3, <2>5, Zenon
    <3>2. store' = [store EXCEPT ![m] = "projected"]
      BY <1>1, <2>1, <3>1, Zenon
    <3> QED BY <1>3, <2>2, <3>2, Zenon
  <2> QED BY <2>4, <2>5, Zenon
<1>7. CASE PollAndAcknowledge
  <2> DEFINE e == Head(queue)
  <2>1. /\ queue # <<>> /\ main = "up" /\ store' = store
        /\ \/ presented' = presented \cup {e.msg} /\ UNCHANGED <<rejected, handled>>
           \/ rejected' = rejected \cup {e.msg} /\ UNCHANGED <<presented, handled>>
    BY <1>7, Zenon DEF PollAndAcknowledge, noteVars
  <2>2. e \in Range(queue)
    BY <2>1, EntriesOf, Zenon DEF IdInv, Shape
  <2> HIDE DEF e
  <2>3. e.msg \in identities /\ store[e.msg] = "stored"
    BY <1>1, <2>1, <2>2, Zenon DEF Once, Unseen, Remembered
  <2> QED BY <1>1, <2>1, <2>3, Zenon
<1>8. ASSUME UNCHANGED <<store, presented, rejected, handled>> PROVE [Delivery!Next]_(Delivery!vars)
  BY <1>8, Zenon
<1>9. CASE QuietStep
  <2>1. CASE \E m \in Messages : Receive(m)
    BY <1>2, <2>1, Zenon
  <2>2. CASE ~\E m \in Messages : Receive(m)
    BY <1>8, <1>9, <2>2, Zenon DEF QuietStep, LoadUnprojected, ReceiveContent, GroupsSynchronized,
         DirtySnapshotFails, EnterRecovery, ReceiveStarted, CloseEvents, SendShutdown, vars, uiVars,
         noteVars
  <2> QED BY <2>1, <2>2
<1>10. CASE HandledAwaitingAck \/ HandledRetry \/ MarkHandledFails
  BY <1>8, <1>10, Zenon DEF HandledAwaitingAck, HandledRetry, MarkHandledFails, uiVars, noteVars
<1>11. CASE ProjectContent \/ ProcessAcknowledgments \/ RecordAckFails \/ AcknowledgmentRetryTick
  BY <1>8, <1>11, Zenon DEF ProjectContent, ProcessAcknowledgments, RecordAckFails,
                     AcknowledgmentRetryTick, uiVars, noteVars
<1>12. CASE ReceiveStartFatal \/ DrainBatch \/ DrainTimesOut \/ Restart
  BY <1>8, <1>12, Zenon DEF ReceiveStartFatal, DrainBatch, DrainTimesOut, Restart, uiVars,
     noteVars
<1>13. CASE HandledComplete
  <2>1. /\ main # "shutdown" /\ current \in DOMAIN pending
        /\ handled' = handled \cup {pending[current]} /\ UNCHANGED <<store, presented, rejected>>
    BY <1>13, Zenon DEF HandledComplete, PhasePolled, IdInv, Stand, Busy, uiVars
  <2>2. store[pending[current]] = "stored"
    BY <1>1, <2>1, Zenon DEF Once, Remembered
  <2> QED BY <1>1, <2>1, <2>2, Zenon
<1> QED
  BY <1>4, <1>5, <1>6, <1>7, <1>9, <1>10, <1>11, <1>12, <1>13, Kinds, Zenon DEF HandleStep, AckStep,
     EndStep

(* The promise is kept: while the window covers the messages, a message is    *)
(* recorded only after the adapter has polled it or handle_content found      *)
(* nothing in it to present, and is not handed over once it is recorded,      *)
(* through store errors, reconnections, shutdown and crashes.                 *)
THEOREM DeliveryImplemented == WindowCovers => (Spec => ImplementsDelivery)
<1> SUFFICES ASSUME WindowCovers PROVE Spec => ImplementsDelivery
  BY Zenon
<1>1. Init => Delivery!Init
  BY Zenon DEF Init, Delivery!Init
<1>2. IdInv /\ Way /\ Once /\ Held /\ Taken /\ [Next]_vars => [Delivery!Next]_(Delivery!vars)
  BY DeliveryStep, Zenon
<1> QED BY <1>1, <1>2, OnceKept, PTL DEF Spec, ImplementsDelivery, Delivery!Spec

=============================================================================
