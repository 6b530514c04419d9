---------------------------- MODULE ReceiptsProofs --------------------------
(* The two queues of receipts, for any receipts and reads, limits and         *)
(* bounds. The delivery-receipt queue: its list and its states agree, a       *)
(* receipt in flight has its task, and one warning is given per saturation    *)
(* episode. The table of reads: no read that may be reported is left in the   *)
(* table with nothing to report it, and none is reported that was not seen.   *)
(* The two have no variable in common and are not composed.                   *)
EXTENDS DeliveryReceipts, ReadReceipts, ListLemmas

-----------------------------------------------------------------------------
(* Delivery receipts.                                                         *)

(* A limit that was not reported leaves the queue rested, which is what makes *)
(* the count of warnings restart; only a task has a result.                   *)
Inv ==
    /\ TypeOK
    /\ InFlightOwned
    /\ WarnedOncePerEpisode
    /\ reported \/ rested
    /\ task = None => result = "none"

(* The empty queue at start-up satisfies the invariant.                       *)
LEMMA InitInv == Init => Inv
<1> SUFFICES ASSUME Init PROVE Inv
  BY Zenon
<1>1. order \in Seq(Receipts) /\ Len(order) = 0 /\ DOMAIN order = {}
  BY DEF Init
<1>2. TypeOK
  <2>1. Len(order) <= Limit /\ \A i, j \in DOMAIN order : order[i] = order[j] => i = j
    BY <1>1, ReceiptsAssumption
  <2>2. \A r \in Receipts : Known(r) <=> \E i \in DOMAIN order : order[i] = r
    BY <1>1, Zenon DEF Init, Known
  <2>3. state \in [Receipts -> {"none", "ready", "inflight", "deferred"}]
    BY Zenon DEF Init
  <2>4. asked \in [Receipts -> Nat] /\ {warnings, reconnects, breaks} \subseteq Nat
    BY DEF Init
  <2>5. taskGen \in 0 .. generation /\ generation \in Nat \ {0}
    BY DEF Init
  <2>6. /\ reported \in BOOLEAN /\ task \in Receipts \cup {None}
        /\ result \in {"none", "sent", "retry", "recover", "discard", "panic"}
        /\ session \in {"ready", "recovering", "stopped"} /\ rested \in BOOLEAN
    BY Zenon DEF Init
  <2> QED
    BY <1>1, <2>1, <2>2, <2>3, <2>4, <2>5, <2>6, Zenon DEF TypeOK
<1>3. InFlightOwned
  BY ReceiptsAssumption, Zenon DEF Init, InFlightOwned, None
<1>4. WarnedOncePerEpisode /\ rested /\ result = "none"
  BY DEF Init, WarnedOncePerEpisode
<1> QED
  BY <1>2, <1>3, <1>4, Zenon DEF Inv

(* complete takes the receipt of the task out of the list and leaves the      *)
(* others, with a limit that is no longer reported.                           *)
LEMMA CompleteEffect ==
    ASSUME Inv, task # None, Complete(task)
    PROVE  /\ order' \in Seq(Receipts) /\ Len(order') = Len(order) - 1
           /\ \A i, j \in DOMAIN order' : order'[i] = order'[j] => i = j
           /\ \A r \in Receipts : (state'[r] # "none") <=> \E i \in DOMAIN order' : order'[i] = r
           /\ reported' = FALSE /\ rested' = TRUE
<1>1. /\ task \in Receipts /\ order \in Seq(Receipts) /\ Len(order) \in Nat
      /\ DOMAIN order = 1 .. Len(order) /\ Len(order) <= Limit
      /\ \A i, j \in 1 .. Len(order) : order[i] = order[j] => i = j
      /\ \A r \in Receipts : (state[r] # "none") <=> \E i \in 1 .. Len(order) : order[i] = r
  BY DEF Inv, TypeOK, None, Known
<1>2. PICK k \in 1 .. Len(order) : order[k] = task /\ order' = RemoveAt(order, k)
  BY <1>1, Zenon DEF Complete
<1>3. /\ order' \in Seq(Receipts) /\ Len(order') = Len(order) - 1
      /\ \A i, j \in 1 .. Len(order') : order'[i] = order'[j] => i = j
      /\ \A r \in Receipts : (\E i \in 1 .. Len(order') : order'[i] = r)
                         <=> (r # order[k] /\ \E i \in 1 .. Len(order) : order[i] = r)
  <2> DEFINE t == RemoveAt(order, k)
  <2>1. /\ t \in Seq(Receipts) /\ Len(t) = Len(order) - 1
        /\ \A i, j \in 1 .. Len(t) : t[i] = t[j] => i = j
        /\ \A r \in Receipts : (\E i \in 1 .. Len(t) : t[i] = r)
                           <=> (r # order[k] /\ \E i \in 1 .. Len(order) : order[i] = r)
    <3> HIDE DEF t
    <3>1. /\ order \in Seq(Receipts) /\ k \in 1 .. Len(order)
          /\ \A i, j \in 1 .. Len(order) : order[i] = order[j] => i = j
      BY <1>1, Zenon
    <3>2. Distinct(order)
      BY <1>1, Zenon DEF Distinct
    <3>3. /\ t \in Seq(Receipts) /\ Len(t) = Len(order) - 1 /\ Distinct(t)
          /\ Range(t) = Range(order) \ {order[k]}
      BY <3>1, <3>2, RemoveAtDistinct, Zenon DEF t
    <3>4. DOMAIN t = 1 .. Len(t) /\ DOMAIN order = 1 .. Len(order)
      BY <3>1, <3>3
    <3>5. ASSUME NEW r \in Receipts
          PROVE  (\E i \in 1 .. Len(t) : t[i] = r)
                    <=> (r # order[k] /\ \E i \in 1 .. Len(order) : order[i] = r)
      BY <3>3, <3>4, Member, Zenon
    <3> QED
      BY <3>3, <3>4, <3>5, Zenon DEF Distinct
  <2>2. order' = t
    BY <1>2, Zenon
  <2> QED
    BY ONLY <2>1, <2>2, Zenon
<1>4. DOMAIN order' = 1 .. Len(order')
  BY ONLY <1>3
<1>5. state' = [state EXCEPT ![task] = "none"]
  BY Zenon DEF Complete
<1>6. ASSUME NEW r \in Receipts
      PROVE  (state'[r] # "none") <=> \E i \in DOMAIN order' : order'[i] = r
  <2>1. CASE r = task
    BY SMTT(60), <2>1, <1>1, <1>2, <1>3, <1>4, <1>5 DEF Inv, TypeOK
  <2>2. CASE r # task
    <3>1. state'[r] = state[r]
      BY <2>2, <1>5, Zenon DEF Inv, TypeOK
    <3>2. (state[r] # "none") <=> \E i \in 1 .. Len(order) : order[i] = r
      BY <1>1, Zenon
    <3>3. (\E i \in DOMAIN order' : order'[i] = r) <=> \E i \in 1 .. Len(order) : order[i] = r
      BY <2>2, <1>2, <1>3, <1>4, Zenon
    <3> QED
      BY <3>1, <3>2, <3>3, Zenon
  <2> QED
    BY <2>1, <2>2, Zenon
<1>7. reported' = FALSE
  <2>1. ~(Len(order) - 1 >= Limit)
    BY <1>1, ReceiptsAssumption
  <2> QED
    BY <2>1, Zenon DEF Complete, ReportedAfter
<1>8. rested' = TRUE
  <2>1. Len(order') < Limit
    BY <1>1, <1>3, ReceiptsAssumption
  <2> QED
    BY <2>1, Zenon DEF Complete
<1> QED
  BY <1>3, <1>4, <1>6, <1>7, <1>8, Zenon

(* Steps that leave the list alone and take states to states of pending       *)
(* receipts keep the agreement of list and states.                            *)
LEMMA ListKept ==
    ASSUME Inv, order' = order, reported' = reported, rested' = rested, warnings' = warnings,
           state' \in [Receipts -> {"none", "ready", "inflight", "deferred"}],
           \A r \in Receipts : state'[r] # "none" <=> state[r] # "none"
    PROVE  /\ order' \in Seq(Receipts) /\ Len(order') <= Limit
           /\ \A i, j \in DOMAIN order' : order'[i] = order'[j] => i = j
           /\ \A r \in Receipts : Known(r)' <=> \E i \in DOMAIN order' : order'[i] = r
           /\ reported' \in BOOLEAN /\ rested' \in BOOLEAN /\ warnings' \in Nat
           /\ WarnedOncePerEpisode' /\ (reported' \/ rested')
<1>1. /\ order' \in Seq(Receipts) /\ Len(order') <= Limit
      /\ \A i, j \in DOMAIN order' : order'[i] = order'[j] => i = j
      /\ warnings' \in Nat
  BY Zenon DEF Inv, TypeOK
<1>2. \A r \in Receipts : Known(r)' <=> \E i \in DOMAIN order' : order'[i] = r
  BY Zenon DEF Inv, TypeOK, Known
<1>3. reported' \in BOOLEAN /\ rested' \in BOOLEAN /\ (reported' \/ rested')
  BY Zenon DEF Inv, TypeOK
<1>4. WarnedOncePerEpisode'
  BY Zenon DEF Inv, WarnedOncePerEpisode
<1> QED
  BY <1>1, <1>2, <1>3, <1>4, Zenon

(* The parts of the invariant that do not concern the list.                   *)
RestTyped ==
    /\ state \in [Receipts -> {"none", "ready", "inflight", "deferred"}]
    /\ task \in Receipts \cup {None}
    /\ taskGen \in 0 .. generation /\ generation \in Nat \ {0}
    /\ result \in {"none", "sent", "retry", "recover", "discard", "panic"}
    /\ session \in {"ready", "recovering", "stopped"}
    /\ asked \in [Receipts -> Nat] /\ {reconnects, breaks} \subseteq Nat
    /\ task = None => result = "none"

(* The steps that leave the list alone.                                       *)
LEMMA OffListStep ==
    ASSUME Inv,
           StartNext \/ TaskSends \/ TaskFails \/ JoinRetry \/ JoinRecover \/ JoinPanic
             \/ RetryTick \/ LoseConnection \/ Reconnect \/ Stop \/ UNCHANGED vars
    PROVE  Inv'
<1> DEFINE Kept == /\ order' = order /\ reported' = reported
                   /\ rested' = rested /\ warnings' = warnings
                   /\ \A r \in Receipts : state'[r] # "none" <=> state[r] # "none"
<1> SUFFICES Kept /\ RestTyped' /\ InFlightOwned'
  <2>1. ASSUME Kept, RestTyped', InFlightOwned'
        PROVE  Inv'
    BY SMTT(60), <2>1, ListKept DEF Inv, TypeOK, RestTyped
  <2> QED
    BY <2>1, Zenon
<1>0. RestTyped /\ InFlightOwned /\ order \in Seq(Receipts) /\ None \notin Receipts
  BY ReceiptsAssumption DEF Inv, TypeOK, RestTyped, None
<1>1. CASE StartNext
  <2>1. PICK i \in ReadyAt : task' = order[i] /\ state' = [state EXCEPT ![order[i]] = "inflight"]
    BY <1>1, Zenon DEF StartNext
  <2>2. order[i] \in Receipts /\ state[order[i]] = "ready"
    BY <2>1, <1>0 DEF ReadyAt
  <2>3. Kept
    BY <2>1, <2>2, <1>0, <1>1, Zenon DEF StartNext, history, bounds, RestTyped
  <2>4. RestTyped'
    BY <2>1, <2>2, <1>0, <1>1 DEF StartNext, history, bounds, RestTyped
  <2>5. InFlightOwned'
    BY <2>1, <2>2, <1>0, <1>1, Zenon DEF StartNext, InFlightOwned, RestTyped
  <2> QED
    BY <2>3, <2>4, <2>5, Zenon
<1>2. CASE TaskSends
  BY <1>0, <1>2, Zenon DEF TaskSends, pendingVars, history, bounds, RestTyped, InFlightOwned
<1>3. CASE TaskFails
  BY <1>0, <1>3 DEF TaskFails, pendingVars, history, RestTyped, InFlightOwned
<1>4. CASE JoinRetry
  <2>1. task \in Receipts /\ state' = [state EXCEPT ![task] = "deferred"] /\ task' = None
    BY <1>0, <1>4, Zenon DEF JoinRetry, Joins, Retry, RestTyped
  <2>2. state[task] = "inflight"
    BY <1>0, <2>1, Zenon DEF InFlightOwned
  <2>3. Kept /\ InFlightOwned'
    BY <2>1, <2>2, <1>0, <1>4, Zenon DEF JoinRetry, Retry, RestTyped, InFlightOwned
  <2>4. RestTyped'
    BY <2>1, <1>0, <1>4 DEF JoinRetry, Joins, bounds, RestTyped
  <2> QED
    BY <2>3, <2>4, Zenon
<1>5. CASE JoinRecover
  <2>1. task \in Receipts /\ state' = [state EXCEPT ![task] = "ready"] /\ task' = None
    BY <1>0, <1>5, Zenon DEF JoinRecover, Joins, Retry, RestTyped
  <2>2. state[task] = "inflight"
    BY <1>0, <2>1, Zenon DEF InFlightOwned
  <2>3. Kept /\ InFlightOwned'
    BY <2>1, <2>2, <1>0, <1>5, Zenon DEF JoinRecover, Retry, RestTyped, InFlightOwned
  <2>4. RestTyped'
    BY <2>1, <1>0, <1>5 DEF JoinRecover, Joins, bounds, RestTyped
  <2> QED
    BY <2>3, <2>4, Zenon
<1>6. CASE JoinPanic
  <2>1. Kept /\ InFlightOwned'
    BY <1>0, <1>6, Zenon DEF JoinPanic, Joins, ReleaseInFlight, Activated, history, RestTyped,
       InFlightOwned
  <2>2. RestTyped'
    BY <1>0, <1>6 DEF JoinPanic, Joins, ReleaseInFlight, Activated, history, bounds,
       RestTyped
  <2> QED
    BY <2>1, <2>2, Zenon
<1>7. CASE RetryTick
  <2>1. Kept /\ InFlightOwned'
    BY <1>0, <1>7, Zenon DEF RetryTick, ActivateRetries, Activated, taskVars, history, RestTyped,
       InFlightOwned
  <2>2. RestTyped'
    BY <1>0, <1>7, Zenon DEF RetryTick, ActivateRetries, Activated, taskVars, history, bounds,
       RestTyped
  <2> QED
    BY <2>1, <2>2, Zenon
<1>8. CASE LoseConnection
  BY <1>0, <1>8 DEF LoseConnection, pendingVars, taskVars, history, RestTyped, InFlightOwned
<1>9. CASE Reconnect
  <2>1. Kept /\ InFlightOwned'
    BY <1>0, <1>9, Zenon DEF Reconnect, Activated, taskVars, history, RestTyped, InFlightOwned
  <2>2. RestTyped'
    BY <1>0, <1>9 DEF Reconnect, Activated, taskVars, history, bounds, RestTyped
  <2> QED
    BY <2>1, <2>2, Zenon
<1>10. CASE Stop
  <2>1. Kept /\ InFlightOwned'
    BY <1>0, <1>10, Zenon DEF Stop, Activated, history, RestTyped, InFlightOwned
  <2>2. RestTyped'
    BY <1>0, <1>10 DEF Stop, Activated, history, bounds, RestTyped
  <2> QED
    BY <2>1, <2>2, Zenon
<1>11. CASE UNCHANGED vars
  BY <1>0, <1>11, Zenon DEF vars, pendingVars, taskVars, history, bounds, RestTyped, InFlightOwned
<1> QED
  BY <1>1, <1>2, <1>3, <1>4, <1>5, <1>6, <1>7, <1>8, <1>9, <1>10, <1>11, Zenon

(* enqueue: a known receipt or a full queue leaves the list alone, and a      *)
(* warning is given only after a rest.                                        *)
LEMMA EnqueueStep ==
    ASSUME Inv, NEW r \in Receipts, Enqueue(r)
    PROVE  Inv'
<1>0. /\ RestTyped /\ InFlightOwned /\ order \in Seq(Receipts) /\ Len(order) \in Nat
      /\ DOMAIN order = 1 .. Len(order) /\ None \notin Receipts
      /\ Len(order) <= Limit /\ Limit \in Nat
  BY ReceiptsAssumption DEF Inv, TypeOK, RestTyped, None
<1>1. /\ taskVars' = taskVars /\ session' = session /\ generation' = generation
      /\ bounds' = bounds /\ asked' \in [Receipts -> Nat]
  BY <1>0 DEF Enqueue, RestTyped
<1>2. CASE Known(r)
  <2>1. UNCHANGED <<pendingVars, rested, warnings>>
    BY <1>2, Zenon DEF Enqueue
  <2>2. RestTyped' /\ InFlightOwned'
    BY <2>1, <1>0, <1>1, Zenon DEF RestTyped, InFlightOwned, pendingVars, taskVars, bounds
  <2> QED
    BY SMTT(60), <2>1, <2>2, <1>0, ListKept DEF Inv, TypeOK, RestTyped, pendingVars
<1>3. CASE ~Known(r) /\ Full
  <2>1. /\ order' = order /\ state' = state /\ reported' = TRUE
        /\ rested' = (rested /\ reported)
        /\ warnings' = IF reported THEN warnings ELSE IF rested THEN 1 ELSE warnings + 1
    BY <1>3, Zenon DEF Enqueue
  <2>2. RestTyped' /\ InFlightOwned'
    BY <2>1, <1>0, <1>1, Zenon DEF RestTyped, InFlightOwned, taskVars, bounds
  <2>3. warnings' \in {warnings, 1}
    BY <2>1, Zenon DEF Inv
  <2>4. warnings' \in Nat /\ WarnedOncePerEpisode'
    BY <2>1, <2>3, <1>0, <1>3 DEF Inv, TypeOK, WarnedOncePerEpisode, Full
  <2>5. reported' \in BOOLEAN /\ rested' \in BOOLEAN /\ reported'
    BY <2>1, Zenon DEF Inv, TypeOK
  <2>6. /\ order' \in Seq(Receipts) /\ Len(order') <= Limit
        /\ \A i, j \in DOMAIN order' : order'[i] = order'[j] => i = j
        /\ \A x \in Receipts : Known(x)' <=> \E i \in DOMAIN order' : order'[i] = x
    BY <2>1, Zenon DEF Inv, TypeOK, Known
  <2> QED
    BY SMTT(60), <2>2, <2>4, <2>5, <2>6 DEF Inv, TypeOK, RestTyped
<1>4. CASE ~Known(r) /\ ~Full
  <2>1. /\ order' = Append(order, r) /\ state' = [state EXCEPT ![r] = "ready"]
        /\ UNCHANGED <<reported, rested, warnings>>
    BY <1>4, Zenon DEF Enqueue
  <2>2. /\ order' \in Seq(Receipts) /\ Len(order') = Len(order) + 1
        /\ DOMAIN order' = 1 .. Len(order) + 1 /\ order'[Len(order) + 1] = r
        /\ \A i \in 1 .. Len(order) : order'[i] = order[i]
    BY <2>1, <1>0
  <2>3. \A i \in 1 .. Len(order) : order[i] # r
    BY <1>0, <1>4, Zenon DEF Inv, TypeOK
  <2>4. \A i, j \in DOMAIN order' : order'[i] = order'[j] => i = j
    <3>1. \A i, j \in 1 .. Len(order) : order[i] = order[j] => i = j
      BY <1>0, Zenon DEF Inv, TypeOK
    <3> QED
      BY <3>1, <2>2, <2>3, <1>0
  <2>5. ASSUME NEW x \in Receipts
        PROVE  Known(x)' <=> \E i \in DOMAIN order' : order'[i] = x
    <3>1. CASE x = r
      <4>1. Known(x)'
        BY <3>1, <2>1, <1>0, Zenon DEF Known, RestTyped
      <4>2. \E i \in DOMAIN order' : order'[i] = x
        BY <3>1, <2>2, <1>0
      <4> QED
        BY <4>1, <4>2, Zenon
    <3>2. CASE x # r
      <4>1. Known(x)' <=> state[x] # "none"
        BY <3>2, <2>1, <1>0, Zenon DEF Known, RestTyped
      <4>2. state[x] # "none" <=> \E i \in 1 .. Len(order) : order[i] = x
        BY <1>0, Zenon DEF Inv, TypeOK, Known
      <4>3. (\E i \in DOMAIN order' : order'[i] = x) <=> \E i \in 1 .. Len(order) : order[i] = x
        BY <3>2, <2>2, <1>0
      <4> QED
        BY <4>1, <4>2, <4>3, Zenon
    <3> QED
      BY <3>1, <3>2, Zenon
  <2>6. Len(order') <= Limit
    BY <2>2, <1>0, <1>4 DEF Full
  <2>7. RestTyped'
    BY <2>1, <1>0, <1>1, Zenon DEF RestTyped, taskVars, bounds
  <2>8. InFlightOwned'
    BY <2>1, <1>0, <1>1, <1>4, Zenon DEF RestTyped, InFlightOwned, Known, taskVars
  <2>9. WarnedOncePerEpisode'
    <3>1. ~reported
      BY <1>0, <1>4, Zenon DEF Inv, WarnedOncePerEpisode, Full
    <3> QED
      BY <3>1, <2>1, Zenon DEF Inv, WarnedOncePerEpisode
  <2>10. reported' \in BOOLEAN /\ rested' \in BOOLEAN /\ (reported' \/ rested') /\ warnings' \in Nat
    BY <2>1, Zenon DEF Inv, TypeOK
  <2> QED
    BY ZenonT(60), <2>2, <2>4, <2>5, <2>6, <2>7, <2>8, <2>9, <2>10 DEF Inv, TypeOK,
       RestTyped
<1> QED
  BY <1>2, <1>3, <1>4, Zenon

(* A receipt that was sent, or given up, leaves the list and its state.       *)
LEMMA JoinDoneStep ==
    ASSUME Inv, JoinDone
    PROVE  Inv'
<1>0. /\ RestTyped /\ InFlightOwned /\ order \in Seq(Receipts) /\ Len(order) \in Nat
      /\ None \notin Receipts /\ Len(order) <= Limit /\ Limit \in Nat
  BY ReceiptsAssumption DEF Inv, TypeOK, RestTyped, None
<1>1. /\ task # None /\ Complete(task) /\ task' = None /\ taskGen' = 0 /\ result' = "none"
      /\ UNCHANGED <<session, generation, asked, warnings, bounds>>
  BY Zenon DEF JoinDone, Joins
<1>2. /\ order' \in Seq(Receipts) /\ Len(order') = Len(order) - 1
      /\ \A i, j \in DOMAIN order' : order'[i] = order'[j] => i = j
      /\ \A r \in Receipts : (state'[r] # "none") <=> \E i \in DOMAIN order' : order'[i] = r
      /\ reported' = FALSE /\ rested' = TRUE
  BY <1>1, CompleteEffect, Zenon
<1>3. state' = [state EXCEPT ![task] = "none"]
  BY <1>1, Zenon DEF Complete
<1>4. RestTyped'
  BY <1>0, <1>1, <1>3 DEF RestTyped, bounds
<1>5. InFlightOwned'
  BY <1>0, <1>1, <1>3, Zenon DEF RestTyped, InFlightOwned
<1>6. warnings' \in Nat /\ WarnedOncePerEpisode'
  BY <1>1, <1>2, Zenon DEF Inv, TypeOK, WarnedOncePerEpisode
<1>7. \A r \in Receipts : Known(r)' <=> \E i \in DOMAIN order' : order'[i] = r
  BY <1>2, Zenon DEF Known
<1>8. Len(order') <= Limit
  BY <1>0, <1>2
<1>9. reported' \in BOOLEAN /\ rested' \in BOOLEAN /\ rested'
  BY <1>2, Zenon
<1>10. order' \in Seq(Receipts) /\ \A i, j \in DOMAIN order' : order'[i] = order'[j] => i = j
  BY <1>2, Zenon
<1>11. TypeOK' /\ (task = None => result = "none")'
  BY <1>4, <1>6, <1>7, <1>8, <1>9, <1>10 DEF TypeOK, RestTyped
<1> QED
  BY <1>5, <1>6, <1>9, <1>11, Zenon DEF Inv

(* Inv is inductive: one case per action of the loop and of the task.         *)
THEOREM ReceiptQueueInvariant == Spec => []Inv
<1>1. Inv /\ [Next]_vars => Inv'
  <2> SUFFICES ASSUME Inv, [Next]_vars PROVE Inv'
    BY Zenon
  <2>1. CASE \E r \in Receipts : Enqueue(r)
    BY <2>1, EnqueueStep, Zenon
  <2>2. CASE JoinDone
    BY <2>2, JoinDoneStep, Zenon
  <2> QED
    BY <2>1, <2>2, OffListStep, Zenon DEF Next, Join, TaskReturns
<1> QED
  BY <1>1, InitInv, PTL DEF Spec

(* The pending list stays within its limit, holds no receipt twice, and holds *)
(* exactly the receipts that have a state.                                    *)
THEOREM ReceiptTypeOK == Spec => []TypeOK
  BY ReceiptQueueInvariant, PTL DEF Inv

(* No receipt stays in flight after its task has ended, however it ended and  *)
(* whichever connection it was started on.                                    *)
THEOREM NoReceiptStranded == Spec => []InFlightOwned
  BY ReceiptQueueInvariant, PTL DEF Inv

(* One warning is given per saturation episode.                               *)
THEOREM OneWarningPerEpisode == Spec => []WarnedOncePerEpisode
  BY ReceiptQueueInvariant, PTL DEF Inv

(* A failure of a receipt started on an earlier connection ends no later one. *)
THEOREM OldFailuresHarmless == Spec => StaleFailureHarmless
<1>1. Inv /\ [Next]_vars =>
        [result = "recover" /\ session = "ready" /\ session' = "recovering" /\ task' = None
           => taskGen = generation]_vars
  <2> SUFFICES ASSUME Inv, Next, result = "recover", session = "ready",
                      session' = "recovering", task' = None
               PROVE  taskGen = generation
    BY Zenon
  <2>1. task # None
    BY Zenon DEF Inv
  <2>2. CASE JoinRecover
    BY <2>2, Zenon DEF JoinRecover, EndsConnection
  <2>3. CASE LoseConnection
    BY <2>1, <2>3, Zenon DEF LoseConnection, taskVars
  <2>4. CASE ~JoinRecover /\ ~LoseConnection
    BY <2>4, Zenon DEF Next, Join, TaskReturns, Enqueue, StartNext, TaskSends, TaskFails, JoinDone,
                JoinRetry, JoinPanic, RetryTick, Reconnect, Stop
  <2> QED
    BY <2>2, <2>3, <2>4, Zenon
<1> QED
  BY <1>1, ReceiptQueueInvariant, PTL DEF Spec, StaleFailureHarmless

-----------------------------------------------------------------------------
(* Read receipts.                                                             *)

(* Something other than the running flush will visit the table.               *)
Wakeup == timer \/ ~ready \/ notices > 0 \/ core \in {"announcing", "ended"}

(* At rest an eligible read has a wake-up; a flush that goes on has the read  *)
(* still before it, or has been cut short by what will wake it again.         *)
WakeupInv ==
    /\ pendingRead \in [Reads -> {"none", "held", "eligible"}]
    /\ notices \in Nat
    /\ main \in {"idle", "flush", "send", "closed"}
    /\ adding \in Reads \cup {NoRead}
    /\ main = "send" => current \in Reads
    /\ main = "idle" => Eligible = {} \/ Wakeup
    /\ main \in {"flush", "send"} => Eligible \subseteq todo \/ Wakeup

(* The table of reads starts empty.                                           *)
LEMMA WakeupInitially == ReadInit => WakeupInv
  BY DEF ReadInit, WakeupInv, Eligible, Wakeup, NoRead

(* A flush that starts has all eligible reads before it.                      *)
LEMMA FlushStarts ==
    ASSUME pendingRead' \in [Reads -> {"none", "held", "eligible"}], notices' \in Nat,
           NEW next \in Reads \cup {NoRead}, StartFlush(pendingRead', next)
    PROVE  WakeupInv'
  BY Zenon DEF StartFlush, WakeupInv, Eligible

(* The last part of signal_queue_read, from states that need no flush or have *)
(* their wake-up.                                                             *)
LEMMA AddSteps ==
    ASSUME WakeupInv, UNCHANGED <<timer, ready, notices, core>>,
           NEW s \in [Reads -> {"none", "held", "eligible"}], NEW r \in Reads, NEW w,
           Add(r, s, w),
           (Focused(r) /\ ~AtLimit(s)) \/ {q \in Reads : s[q] = "eligible"} = {} \/ Wakeup
    PROVE  WakeupInv'
<1>1. pendingRead' \in [Reads -> {"none", "held", "eligible"}] /\ notices' \in Nat
  BY Zenon DEF Add, WakeupInv
<1>2. CASE Focused(r) /\ ~AtLimit(s)
  BY <1>1, <1>2, FlushStarts, Zenon DEF Add
<1>3. CASE ~(Focused(r) /\ ~AtLimit(s))
  <2>1. Idle /\ (pendingRead' = s \/ pendingRead' = [s EXCEPT ![r] = "held"])
    BY <1>3, Zenon DEF Add
  <2>2. Eligible' \subseteq {q \in Reads : s[q] = "eligible"}
    BY <2>1, Zenon DEF Eligible
  <2> QED BY <1>1, <1>3, <2>1, <2>2, Zenon DEF Idle, WakeupInv, Wakeup
<1> QED BY <1>2, <1>3, Zenon

(* The loop of signal_flush_pending_reads and its end.                        *)
LEMMA FlushSteps == WakeupInv /\ Flush => WakeupInv'
<1> SUFFICES ASSUME WakeupInv, Flush PROVE WakeupInv'
  BY Zenon
<1>1. ASSUME NEW r \in Reads, FlushLoad(r) PROVE WakeupInv'
  BY <1>1, Zenon DEF FlushLoad, WakeupInv, Wakeup, Eligible, tableVars, coreVars
<1>2. CASE FlushSend
  <2>1. current \in Reads /\ UNCHANGED <<ready, core, notices, adding>> /\ main' = "flush"
    BY <1>2, Zenon DEF FlushSend, WakeupInv, coreVars
  <2>2. CASE pendingRead' = [pendingRead EXCEPT ![current] = "none"] /\ todo' = todo \ {current} /\ UNCHANGED timer
    BY <1>2, <2>1, <2>2, Zenon DEF FlushSend, WakeupInv, Wakeup, Eligible
  <2>3. CASE timer' = RetryScheduled /\ todo' = {} /\ UNCHANGED pendingRead
    BY <1>2, <2>1, <2>3, Zenon DEF FlushSend, RetryScheduled, WakeupInv, Wakeup
  <2> QED BY <1>2, <2>2, <2>3, Zenon DEF FlushSend, Admitted
<1>3. CASE FlushEnd
  <2>1. UNCHANGED <<timer, ready, notices, core>> /\ (Eligible = {} \/ Wakeup)
    BY <1>3, Zenon DEF FlushEnd, coreVars, WakeupInv
  <2>2. CASE adding = NoRead
    BY <1>3, <2>1, <2>2 DEF FlushEnd, Idle, WakeupInv, Wakeup, Eligible
  <2>3. CASE adding # NoRead
    <3>1. adding \in Reads /\ Add(adding, pendingRead, WarnedAfter(pendingRead, warned))
      BY <1>3, <2>3, Zenon DEF FlushEnd, WakeupInv
    <3>2. pendingRead \in [Reads -> {"none", "held", "eligible"}]
      BY Zenon DEF WakeupInv
    <3> QED BY <2>1, <3>1, <3>2, AddSteps, Zenon DEF Eligible
  <2> QED BY <2>2, <2>3, Zenon
<1> QED BY <1>1, <1>2, <1>3, Zenon DEF Flush

(* A message is presented.                                                    *)
LEMMA DeliverStep ==
    ASSUME WakeupInv, NEW r \in Reads, Deliver(r) PROVE WakeupInv'
<1> DEFINE s == IF Focused(r) THEN MarkEligible(Conversation(r)) ELSE pendingRead
<1>1. s \in [Reads -> {"none", "held", "eligible"}]
  BY Zenon DEF MarkEligible, WakeupInv
<1>2. UNCHANGED <<timer, ready, notices, core>> /\ notices \in Nat /\ (Eligible = {} \/ Wakeup)
  BY Zenon DEF Deliver, coreVars, WakeupInv
<1>3. ~Focused(r) => s = pendingRead
  BY Zenon
<1>4. \/ pendingRead' = s /\ (IF Focused(r) THEN StartFlush(s, NoRead) ELSE Idle)
      \/ pendingRead' = s /\ StartFlush(s, r)
      \/ ~AtLimit(s) /\ Add(r, s, warned)
  BY Zenon DEF Deliver
<1> HIDE DEF s
<1>5. CASE pendingRead' = s /\ (IF Focused(r) THEN StartFlush(s, NoRead) ELSE Idle)
  <2>1. CASE Focused(r)
    BY <1>1, <1>2, <1>5, <2>1, FlushStarts, Zenon
  <2>2. CASE ~Focused(r)
    BY <1>1, <1>2, <1>3, <1>5, <2>2, Zenon DEF Idle, WakeupInv, Wakeup, Eligible
  <2> QED BY <2>1, <2>2, Zenon
<1>6. CASE pendingRead' = s /\ StartFlush(s, r)
  BY <1>1, <1>2, <1>6, FlushStarts, Zenon
<1>7. CASE ~AtLimit(s) /\ Add(r, s, warned)
  <2>1. Focused(r) \/ {q \in Reads : s[q] = "eligible"} = {} \/ Wakeup
    BY <1>2, <1>3, Zenon DEF Eligible
  <2> QED BY <1>1, <1>2, <1>7, <2>1, AddSteps, Zenon
<1> QED BY <1>4, <1>5, <1>6, <1>7, Zenon

(* Every step of the adapter and of the worker keeps the wake-up.             *)
LEMMA WakeupStep == WakeupInv /\ [ReadNext]_(readVars) => WakeupInv'
<1> SUFFICES ASSUME WakeupInv, [ReadNext]_(readVars) PROVE WakeupInv'
  BY Zenon
<1>1. pendingRead \in [Reads -> {"none", "held", "eligible"}] /\ notices \in Nat
  BY Zenon DEF WakeupInv
<1>2. ASSUME NEW c, ConversationUpdated(c) PROVE WakeupInv'
  <2>1. pendingRead' \in [Reads -> {"none", "held", "eligible"}]
    BY <1>1, <1>2, Zenon DEF ConversationUpdated, MarkEligible
  <2> QED BY <1>1, <1>2, <2>1, FlushStarts, Zenon DEF ConversationUpdated
<1>3. CASE PollReady \/ RetryTimer
  <2>1. pendingRead' = pendingRead /\ notices' \in Nat /\ StartFlush(pendingRead, NoRead)
    BY <1>1, <1>3 DEF PollReady, RetryTimer, tableVars
  <2> QED BY <1>1, <2>1, FlushStarts, Zenon
<1>4. CASE GroupDeactivated
  <2>1. pendingRead' \in [Reads -> {"none", "held", "eligible"}] /\ Eligible' \subseteq Eligible
    BY <1>1, <1>4, Zenon DEF GroupDeactivated, WithoutGroupReads, Eligible
  <2> QED BY <1>4, <2>1, Zenon DEF GroupDeactivated, mainVars, coreVars, WakeupInv, Wakeup
<1>5. CASE Close
  BY <1>5, Zenon DEF Close, WakeupInv
<1>6. ASSUME UNCHANGED <<tableVars, mainVars, coreVars, notices>> PROVE WakeupInv'
  BY <1>6, Zenon DEF tableVars, mainVars, coreVars, WakeupInv, Wakeup, Eligible
<1>7. CASE OtherCommand \/ (\E c \in {"im", "chat"} : FocusChange(c)) \/ UNCHANGED readVars
  BY <1>6, <1>7, Zenon DEF OtherCommand, FocusChange, readVars
<1>8. CASE Worker \/ LoseStream \/ WorkerEnds
  <2>1. UNCHANGED <<tableVars, mainVars>>
    BY <1>8, Zenon DEF Worker, BecomeReady, EmitReady, HandleCommand,
       DeferCommand, ReadyCleared,
                LoseStream, WorkerEnds, coreOnly
  <2>2. notices' \in Nat /\ (Wakeup => Wakeup')
    BY <1>1, <1>8, <2>1
       DEF Worker, BecomeReady, EmitReady, HandleCommand,
           DeferCommand, ReadyCleared,
           LoseStream, WorkerEnds, tableVars, Wakeup
  <2> QED BY <2>1, <2>2, Zenon DEF tableVars, mainVars, WakeupInv, Eligible
<1> QED BY <1>2, <1>3, <1>4, <1>5, <1>7, <1>8, FlushSteps, DeliverStep, Zenon DEF ReadNext

(* signal_flush_pending_reads: whichever way a flush ends, and whatever the   *)
(* worker does between two of its calls, a read left in the table has the     *)
(* retry timer, a READY event or the end of the worker to come.               *)
THEOREM NoReadForgotten == ReadSpec => []EligibleHasWakeup
<1>1. WakeupInv => EligibleHasWakeup
  BY Zenon DEF WakeupInv, Wakeup, EligibleHasWakeup
<1> QED BY <1>1, WakeupInitially, WakeupStep, PTL DEF ReadSpec

-----------------------------------------------------------------------------
(* What may be sent as a read receipt.                                        *)

(* How often x occurs in s.                                                   *)
CountOf(s, x) == Cardinality({i \in DOMAIN s : s[i] = x})

(* Counts are natural numbers.                                                *)
LEMMA CountIsNat ==
    ASSUME NEW S, NEW s \in Seq(S), NEW x
    PROVE  IsFiniteSet({i \in DOMAIN s : s[i] = x}) /\ CountOf(s, x) \in Nat
<1>1. Len(s) \in Nat /\ DOMAIN s = 1 .. Len(s)
  OBVIOUS
<1>2. IsFiniteSet(1 .. Len(s))
  BY <1>1, FS_Interval
<1>3. {i \in DOMAIN s : s[i] = x} \in SUBSET (1 .. Len(s))
  BY <1>1, Zenon
<1> QED BY <1>2, <1>3, FS_Subset, FS_CardinalityType, Zenon DEF CountOf

(* An element put at the end counts once more.                                *)
LEMMA CountAppend ==
    ASSUME NEW S, NEW s \in Seq(S), NEW e \in S, NEW x
    PROVE  /\ e = x => CountOf(Append(s, e), x) = CountOf(s, x) + 1
           /\ e # x => CountOf(Append(s, e), x) = CountOf(s, x)
<1> DEFINE t == Append(s, e)
           P == {i \in DOMAIN s : s[i] = x}
           k == Len(s) + 1
<1>1. Len(s) \in Nat /\ DOMAIN s = 1 .. Len(s) /\ DOMAIN t = 1 .. k /\ t[k] = e
      /\ \A i \in 1 .. Len(s) : t[i] = s[i]
  OBVIOUS
<1>2. {i \in DOMAIN t : t[i] = x} = IF e = x THEN P \cup {k} ELSE P
  BY <1>1
<1>3. k \notin P
  BY <1>1
<1>4. IsFiniteSet(P) /\ Cardinality(P) \in Nat
  BY CountIsNat, Zenon DEF CountOf
<1> HIDE DEF P, k, t
<1>5. Cardinality(P \cup {k}) = Cardinality(P) + 1
  BY <1>3, <1>4, FS_AddElement, Zenon
<1>6. CountOf(t, x) = IF e = x THEN Cardinality(P) + 1 ELSE Cardinality(P)
  BY <1>2, <1>5, Zenon DEF CountOf
<1>7. CountOf(s, x) = Cardinality(P)
  BY Zenon DEF CountOf, P
<1> QED BY <1>6, <1>7, Zenon DEF t

(* Taking the head off takes its count off.                                   *)
LEMMA CountTail ==
    ASSUME NEW S, NEW s \in Seq(S), s # <<>>, NEW t, t = Tail(s), NEW x
    PROVE  CountOf(s, x) = CountOf(t, x) + (IF Head(s) = x THEN 1 ELSE 0)
<1> DEFINE P == {i \in DOMAIN s : s[i] = x}
           Q == {i \in DOMAIN t : t[i] = x}
           f == [i \in Q |-> i + 1]
<1>1. /\ Len(s) \in Nat /\ Len(s) > 0 /\ DOMAIN s = 1 .. Len(s) /\ DOMAIN t = 1 .. (Len(s) - 1)
      /\ t \in Seq(S) /\ \A i \in 1 .. (Len(s) - 1) : t[i] = s[i + 1]
      /\ Head(s) = s[1]
  OBVIOUS
<1>2. /\ \A i \in Q : i \in Nat /\ i + 1 \in P \ {1}
      /\ \A j \in P \ {1} : j - 1 \in Q /\ j \in Nat
      /\ 1 \in P <=> Head(s) = x
  BY <1>1
<1>3. IsFiniteSet(P) /\ Cardinality(P) \in Nat /\ IsFiniteSet(Q) /\ Cardinality(Q) \in Nat
  <2>1. IsFiniteSet(P) /\ Cardinality(P) \in Nat
    BY CountIsNat, Zenon DEF CountOf
  <2>2. IsFiniteSet(Q) /\ Cardinality(Q) \in Nat
    <3>1. t \in Seq(S)
      BY <1>1, Zenon
    <3> QED BY <3>1, CountIsNat, ZenonT(30) DEF CountOf
  <2> QED BY <2>1, <2>2, Zenon
<1>4. CountOf(s, x) = Cardinality(P) /\ CountOf(t, x) = Cardinality(Q)
  BY Zenon DEF CountOf
<1> HIDE DEF P, Q
<1>5. f \in Bijection(Q, P \ {1})
  <2>1. f \in [Q -> P \ {1}]
    BY <1>2, Zenon
  <2>2. \A a, b \in Q : f[a] = f[b] => a = b
    BY <1>2
  <2>3. \A j \in P \ {1} : \E i \in Q : f[i] = j
    <3> SUFFICES ASSUME NEW j \in P \ {1} PROVE j - 1 \in Q /\ f[j - 1] = j
      BY Zenon
    <3> QED BY <1>2
  <2> QED BY <2>1, <2>2, <2>3, Zenon DEF Bijection, Injection, Surjection, IsInjective
<1>6. Cardinality(P \ {1}) = Cardinality(Q)
  BY <1>3, <1>5, FS_Bijection, Zenon DEF ExistsBijection
<1>7. Cardinality(P \ {1}) = IF 1 \in P THEN Cardinality(P) - 1 ELSE Cardinality(P)
  BY <1>3, FS_RemoveElement, Zenon
<1> QED BY <1>2, <1>3, <1>4, <1>6, <1>7


(* Commands on their way to the worker, in the order it handles them.         *)
Pipe == deferred \o channel
HeldOnce(r) == IF pendingRead[r] # "none" THEN 1 ELSE 0
AddedOnce(r) == IF adding = r THEN 1 ELSE 0

SentTypes ==
    /\ pendingRead \in [Reads -> {"none", "held", "eligible"}]
    /\ delivered \in [Reads -> Nat] /\ sent \in [Reads -> Nat]
    /\ adding \in Reads \cup {NoRead}
    /\ channel \in Seq(Reads \cup {Other}) /\ deferred \in Seq(Reads \cup {Other})

(* A flush visits eligible reads only, and a delivery is waiting for its end  *)
(* or there is none.                                                          *)
FlushInv ==
    /\ todo \subseteq Eligible
    /\ main = "send" => current \in Eligible
    /\ main \in {"idle", "closed"} => todo = {} /\ adding = NoRead

(* Focus reaches a read before it is eligible, and so before its command is   *)
(* queued and its receipt sent; each presentation pays for one entry of the   *)
(* table, one command or one receipt.                                         *)
ReadPaid(r) ==
    /\ sent[r] > 0 \/ pendingRead[r] = "eligible" \/ CountOf(Pipe, r) > 0 => r \in seen
    /\ Focused(r) /\ (pendingRead[r] # "none" \/ adding = r) => r \in seen
    /\ sent[r] + CountOf(Pipe, r) + HeldOnce(r) + AddedOnce(r) <= delivered[r]

SentInv == SentTypes /\ FlushInv /\ \A r \in Reads : ReadPaid(r)

(* Nothing has been presented, queued or sent at first.                       *)
LEMMA SentInitially == ReadInit => SentInv
<1> SUFFICES ASSUME ReadInit PROVE SentInv
  BY Zenon
<1>1. SentTypes /\ FlushInv
  BY DEF ReadInit, SentTypes, FlushInv
<1>2. Pipe = <<>>
  BY DEF Pipe, ReadInit
<1>3. ASSUME NEW r \in Reads PROVE ReadPaid(r)
  <2>1. {i \in DOMAIN Pipe : Pipe[i] = r} = {}
    BY <1>2
  <2>2. CountOf(Pipe, r) = 0
    BY <2>1, FS_EmptySet, Zenon DEF CountOf
  <2>3. r # NoRead
    BY ReadsAssumption, Zenon DEF NoRead
  <2> QED BY <2>2, <2>3 DEF ReadPaid, HeldOnce, AddedOnce, ReadInit
<1> QED BY <1>1, <1>3, Zenon DEF SentInv

(* The worker takes commands from the head of the pipe and puts none back:    *)
(* what it sends was counted there.                                           *)
LEMMA WorkerSends ==
    ASSUME SentInv, Worker \/ LoseStream \/ WorkerEnds
    PROVE  SentInv'
<1> DEFINE Commands == Reads \cup {Other}
<1>1. /\ Pipe \in Seq(Commands) /\ deferred \in Seq(Commands) /\ channel \in Seq(Commands)
      /\ sent \in [Reads -> Nat] /\ delivered \in [Reads -> Nat]
  BY DEF SentInv, SentTypes, Pipe
<1>2. UNCHANGED <<pendingRead, focus, main, todo, current, adding, delivered, seen>>
  BY Zenon DEF Worker, BecomeReady, EmitReady, HandleCommand,
     DeferCommand,
         ReadyCleared, LoseStream, WorkerEnds, coreOnly, tableVars,
         viewVars, mainVars
<1>3. FlushInv'
  BY <1>2, Zenon DEF SentInv, FlushInv, Eligible
<1>4. ASSUME UNCHANGED sent, channel' \in Seq(Commands), deferred' \in Seq(Commands),
             \A r \in Reads : CountOf(Pipe, r)' <= CountOf(Pipe, r)
      PROVE  SentInv'
  <2>1. SentTypes'
    BY <1>2, <1>4, Zenon DEF SentInv, SentTypes
  <2>2. ASSUME NEW r \in Reads PROVE ReadPaid(r)'
    <3>1. CountOf(Pipe, r) \in Nat /\ CountOf(Pipe, r)' \in Nat
      <4>1. Pipe' \in Seq(Commands)
        BY <1>4 DEF Pipe
      <4> QED BY <1>1, <4>1, CountIsNat, Zenon
    <3>2. HeldOnce(r)' = HeldOnce(r) /\ AddedOnce(r)' = AddedOnce(r) /\ HeldOnce(r) \in Nat /\ AddedOnce(r) \in Nat
      BY <1>2, Zenon DEF HeldOnce, AddedOnce
    <3>3. Focused(r)' = Focused(r)
      BY <1>2, Zenon DEF Focused, Conversation
    <3>4. sent[r] \in Nat /\ delivered[r] \in Nat /\ sent'[r] = sent[r] /\ delivered'[r] = delivered[r]
      BY <1>1, <1>2, <1>4, Zenon
    <3>5. ReadPaid(r) /\ CountOf(Pipe, r)' <= CountOf(Pipe, r)
      BY <1>4, Zenon DEF SentInv
    <3> QED BY <1>2, <3>1, <3>2, <3>3, <3>4, <3>5 DEF ReadPaid
  <2> QED BY <1>3, <2>1, <2>2, Zenon DEF SentInv
<1>9. ASSUME NEW r \in Reads PROVE CountOf(Pipe, r) \in Nat
  BY <1>1, CountIsNat, Zenon
<1>10. ASSUME Pipe' = Pipe, NEW r \in Reads PROVE CountOf(Pipe, r)' <= CountOf(Pipe, r)
  <2>1. CountOf(Pipe, r)' = CountOf(Pipe, r)
    BY <1>10, Zenon
  <2> QED BY <1>9, <2>1
<1>5. CASE UNCHANGED <<channel, deferred, sent>>
  <2>1. Pipe' = Pipe
    BY <1>5, Zenon DEF Pipe
  <2> QED BY <1>1, <1>4, <1>5, <1>10, <2>1, Zenon
<1>6. CASE DeferCommand
  <2>1. /\ channel # <<>> /\ UNCHANGED sent
        /\ deferred' = Append(deferred, Head(channel)) /\ channel' = Tail(channel)
    BY <1>6, Zenon DEF DeferCommand
  <2>2. Pipe' = Pipe /\ channel' \in Seq(Commands) /\ deferred' \in Seq(Commands)
    BY <1>1, <2>1 DEF Pipe
  <2> QED BY <1>4, <1>10, <2>1, <2>2, Zenon
<1>7. CASE WorkerEnds
  <2>1. UNCHANGED sent /\ channel' = <<>> /\ deferred' = <<>> /\ Pipe' = <<>>
    BY <1>7 DEF WorkerEnds, Pipe
  <2>2. ASSUME NEW r \in Reads PROVE CountOf(Pipe, r)' <= CountOf(Pipe, r)
    <3>1. {i \in DOMAIN Pipe' : Pipe'[i] = r} = {}
      BY <2>1
    <3>2. CountOf(Pipe, r)' = 0
      BY <3>1, FS_EmptySet, Zenon DEF CountOf
    <3> QED BY <1>9, <3>2
  <2> QED BY <1>4, <2>1, <2>2
<1>8. CASE HandleCommand
  <2> DEFINE command == Head(Pipe)
  <2>1. /\ Pipe # <<>>
        /\ \/ command \in Reads /\ sent' = [sent EXCEPT ![command] = @ + 1]
           \/ UNCHANGED sent
    BY <1>8, Zenon DEF HandleCommand, Pipe
  <2>2. Pipe' = Tail(Pipe) /\ channel' \in Seq(Commands) /\ deferred' \in Seq(Commands)
    <3>1. CASE deferred # <<>>
      <4>1. deferred' = Tail(deferred) /\ channel' = channel
        BY <1>8, <3>1, Zenon DEF HandleCommand
      <4> QED BY <1>1, <3>1, <4>1 DEF Pipe
    <3>2. CASE deferred = <<>>
      <4>1. channel' = Tail(channel) /\ deferred' = deferred /\ channel # <<>>
        BY <1>8, <3>2, <1>1 DEF HandleCommand
      <4> QED BY <1>1, <3>2, <4>1 DEF Pipe
    <3> QED BY <3>1, <3>2, Zenon
  <2>3. ASSUME NEW r \in Reads
        PROVE  /\ CountOf(Pipe, r) = CountOf(Pipe, r)' + (IF command = r THEN 1 ELSE 0)
               /\ CountOf(Pipe, r) \in Nat /\ CountOf(Pipe, r)' \in Nat
    <3>1. Pipe' \in Seq(Commands)
      BY <1>1, <2>1, <2>2
    <3>2. CountOf(Pipe, r) = CountOf(Pipe', r) + (IF command = r THEN 1 ELSE 0)
      BY <1>1, <2>1, <2>2, CountTail, ZenonT(30)
    <3> QED BY <1>1, <3>1, <3>2, CountIsNat, Zenon
  <2> HIDE DEF command
  <2>4. CASE UNCHANGED sent
    BY <1>4, <2>2, <2>3, <2>4
  <2>5. CASE command \in Reads /\ sent' = [sent EXCEPT ![command] = @ + 1]
    <3>1. SentTypes'
      BY <1>1, <1>2, <2>2, <2>5 DEF SentInv, SentTypes
    <3>2. ASSUME NEW r \in Reads PROVE ReadPaid(r)'
      <4>1. HeldOnce(r)' = HeldOnce(r) /\ AddedOnce(r)' = AddedOnce(r)
            /\ HeldOnce(r) \in Nat /\ AddedOnce(r) \in Nat
        BY <1>2, Zenon DEF HeldOnce, AddedOnce
      <4>2. Focused(r)' = Focused(r)
        BY <1>2, Zenon DEF Focused, Conversation
      <4>3. /\ sent[r] \in Nat /\ delivered[r] \in Nat /\ delivered'[r] = delivered[r]
            /\ sent'[r] = sent[r] + (IF command = r THEN 1 ELSE 0)
        BY <1>1, <1>2, <2>5
      <4>4. ReadPaid(r)
        BY Zenon DEF SentInv
      <4> QED BY <1>2, <2>3, <4>1, <4>2, <4>3, <4>4 DEF ReadPaid
    <3> QED BY <1>3, <3>1, <3>2, Zenon DEF SentInv
  <2> QED BY <2>1, <2>4, <2>5, Zenon
<1> QED BY <1>5, <1>6, <1>7, <1>8, Zenon
        DEF Worker, BecomeReady, EmitReady, ReadyCleared,
            LoseStream


(* A step of the main thread that queues no command keeps a read paid for if  *)
(* what it adds to the table was presented, and what it makes eligible seen.  *)
LEMMA PaidKept ==
    ASSUME SentInv, SentTypes', NEW r \in Reads, UNCHANGED <<sent, channel, deferred>>,
           r \in seen => r \in seen',
           pendingRead'[r] = "eligible" => r \in seen',
           Focused(r)' /\ (pendingRead'[r] # "none" \/ adding' = r) => r \in seen',
           HeldOnce(r)' + AddedOnce(r)' + delivered[r] <= HeldOnce(r) + AddedOnce(r) + delivered'[r]
    PROVE  ReadPaid(r)'
<1>1. Pipe' = Pipe /\ Pipe \in Seq(Reads \cup {Other})
  BY DEF Pipe, SentInv, SentTypes
<1>2. CountOf(Pipe, r)' = CountOf(Pipe, r) /\ CountOf(Pipe, r) \in Nat
  BY <1>1, CountIsNat, Zenon
<1>3. /\ sent[r] \in Nat /\ sent'[r] = sent[r] /\ delivered[r] \in Nat /\ delivered'[r] \in Nat
      /\ HeldOnce(r) \in Nat /\ AddedOnce(r) \in Nat /\ HeldOnce(r)' \in Nat /\ AddedOnce(r)' \in Nat
  BY Zenon DEF SentInv, SentTypes, HeldOnce, AddedOnce
<1>4. ReadPaid(r)
  BY Zenon DEF SentInv
<1> QED BY <1>2, <1>3, <1>4 DEF ReadPaid

(* Loading a read, polling READY and the retry timer change no table.         *)
LEMMA QuietSteps ==
    ASSUME SentInv, UNCHANGED <<pendingRead, adding, focus, seen, delivered, sent, channel, deferred>>, FlushInv'
    PROVE  SentInv'
<1>1. SentTypes'
  BY Zenon DEF SentInv, SentTypes
<1>2. ASSUME NEW r \in Reads PROVE ReadPaid(r)'
  <2>1. ReadPaid(r) /\ delivered[r] \in Nat /\ HeldOnce(r) \in Nat /\ AddedOnce(r) \in Nat
    BY Zenon DEF SentInv, SentTypes, HeldOnce, AddedOnce
  <2>2. HeldOnce(r)' = HeldOnce(r) /\ AddedOnce(r)' = AddedOnce(r) /\ Focused(r)' = Focused(r)
    BY Zenon DEF HeldOnce, AddedOnce, Focused, Conversation
  <2>3. HeldOnce(r)' + AddedOnce(r)' + delivered[r] <= HeldOnce(r) + AddedOnce(r) + delivered'[r]
    BY <2>1, <2>2
  <2>4. /\ pendingRead'[r] = "eligible" => r \in seen'
        /\ Focused(r)' /\ (pendingRead'[r] # "none" \/ adding' = r) => r \in seen'
    BY <2>1, <2>2, Zenon DEF ReadPaid
  <2> QED BY <1>1, <2>3, <2>4, PaidKept, Zenon
<1> QED BY <1>1, <1>2, Zenon DEF SentInv

(* What a conversation that has the focus makes eligible has been seen; no    *)
(* entry appears or goes.                                                     *)
LEMMA MarkedAreSeen ==
    ASSUME SentInv, NEW c \in focus, NEW r \in Reads
    PROVE  /\ MarkEligible(c) \in [Reads -> {"none", "held", "eligible"}]
           /\ MarkEligible(c)[r] = "none" <=> pendingRead[r] = "none"
           /\ MarkEligible(c)[r] = "eligible" => r \in seen
<1>1. pendingRead \in [Reads -> {"none", "held", "eligible"}] /\ ReadPaid(r)
  BY Zenon DEF SentInv, SentTypes
<1> QED BY <1>1, Zenon DEF MarkEligible, Matches, ReadPaid, Focused


(* The last part of signal_queue_read: the entry it adds is the presentation  *)
(* that has just been counted, or the one that waited for the flush.          *)
LEMMA AddPaid ==
    ASSUME SentInv, NEW a \in Reads, NEW s \in [Reads -> {"none", "held", "eligible"}], NEW w,
           Add(a, s, w), UNCHANGED <<focus, sent, channel, deferred>>,
           \A r \in Reads : s[r] = "none" <=> pendingRead[r] = "none",
           \A r \in Reads : s[r] = "eligible" => r \in seen',
           seen \subseteq seen', Focused(a) => a \in seen',
           delivered' \in [Reads -> Nat], \A r \in Reads : delivered[r] <= delivered'[r],
           adding = a \/ delivered'[a] = delivered[a] + 1
    PROVE  SentInv'
<1>1. /\ pendingRead' = s \/ pendingRead' = [s EXCEPT ![a] = IF Focused(a) THEN "eligible" ELSE "held"]
      /\ adding' = NoRead
      /\ todo' = {} \/ (main' = "flush" /\ todo' = {r \in Reads : pendingRead'[r] = "eligible"})
      /\ main' \in {"flush", "idle"}
      /\ main' = "idle" => todo' = {}
  BY Zenon DEF Add, StartFlush, Idle
<1>2. SentTypes'
  BY <1>1, Zenon DEF SentInv, SentTypes
<1>3. FlushInv'
  BY <1>1, Zenon DEF FlushInv, Eligible
<1>4. ASSUME NEW r \in Reads PROVE ReadPaid(r)'
  <2>1. /\ ReadPaid(r) /\ delivered[r] \in Nat /\ delivered'[r] \in Nat /\ delivered[r] <= delivered'[r]
        /\ Focused(r)' = Focused(r) /\ r # NoRead
    BY ReadsAssumption, Zenon DEF SentInv, SentTypes, Focused, Conversation,
       NoRead
  <2>2. AddedOnce(r)' = 0 /\ HeldOnce(r) \in {0, 1} /\ HeldOnce(r)' \in {0, 1} /\ AddedOnce(r) \in {0, 1}
    BY <1>1, <2>1, Zenon DEF AddedOnce, HeldOnce
  <2>3. CASE r = a
    <3>1. adding = a => AddedOnce(r) = 1
      BY <2>3, Zenon DEF AddedOnce
    <3>2. HeldOnce(r)' + AddedOnce(r)' + delivered[r] <= HeldOnce(r) + AddedOnce(r) + delivered'[r]
      BY <2>1, <2>2, <2>3, <3>1
    <3>3. pendingRead'[r] = "eligible" => r \in seen'
      BY <1>1, <2>3, Zenon
    <3>4. Focused(r)' => r \in seen'
      BY <2>1, <2>3, Zenon
    <3> QED BY <1>2, <3>2, <3>3, <3>4, PaidKept, Zenon
  <2>4. CASE r # a
    <3>1. pendingRead'[r] = s[r] /\ adding' # r
      BY <1>1, <2>1, <2>4, Zenon
    <3>2. HeldOnce(r)' = HeldOnce(r)
      BY <3>1, Zenon DEF HeldOnce
    <3>3. HeldOnce(r)' + AddedOnce(r)' + delivered[r] <= HeldOnce(r) + AddedOnce(r) + delivered'[r]
      BY <2>1, <2>2, <3>2
    <3>4. Focused(r)' /\ pendingRead'[r] # "none" => r \in seen'
      BY <2>1, <3>1, Zenon DEF ReadPaid
    <3> QED BY <1>2, <3>1, <3>3, <3>4, PaidKept
  <2> QED BY <2>3, <2>4, Zenon
<1> QED BY <1>2, <1>3, <1>4, Zenon DEF SentInv

(* A presentation pays for the entry it adds or leaves waiting.               *)
LEMMA DeliverPaid ==
    ASSUME SentInv, NEW d \in Reads, Deliver(d) PROVE SentInv'
<1> DEFINE s == IF Focused(d) THEN MarkEligible(Conversation(d)) ELSE pendingRead
<1>1. /\ pendingRead \in [Reads -> {"none", "held", "eligible"}] /\ delivered \in [Reads -> Nat]
      /\ \A r \in Reads : ReadPaid(r)
  BY Zenon DEF SentInv, SentTypes
<1>2. /\ s \in [Reads -> {"none", "held", "eligible"}]
      /\ \A r \in Reads : s[r] = "none" <=> pendingRead[r] = "none"
      /\ \A r \in Reads : s[r] = "eligible" => r \in seen
  <2>1. CASE Focused(d)
    <3>1. Conversation(d) \in focus
      BY <2>1, Zenon DEF Focused
    <3> QED BY <2>1, <3>1, MarkedAreSeen, Zenon
  <2>2. CASE ~Focused(d)
    BY <1>1, <2>2, Zenon DEF ReadPaid
  <2> QED BY <2>1, <2>2, Zenon
<1>3. /\ main = "idle" /\ delivered' = [delivered EXCEPT ![d] = @ + 1]
      /\ seen' = IF Focused(d) THEN seen \cup {d} ELSE seen
      /\ UNCHANGED <<focus, sent, channel, deferred>>
      /\ \/ /\ pendingRead' = s /\ UNCHANGED warned
            /\ IF Focused(d) THEN StartFlush(s, NoRead) ELSE Idle
         \/ pendingRead' = s /\ StartFlush(s, d)
         \/ Add(d, s, warned)
  BY Zenon DEF Deliver, coreVars
<1>4. adding = NoRead
  BY <1>3, Zenon DEF SentInv, FlushInv
<1>5. /\ delivered' \in [Reads -> Nat] /\ \A r \in Reads : delivered[r] <= delivered'[r]
      /\ delivered'[d] = delivered[d] + 1 /\ \A r \in Reads \ {d} : delivered'[r] = delivered[r]
  BY <1>1, <1>3
<1> HIDE DEF s
<1>6. CASE Add(d, s, warned)
  <2>1. \A r \in Reads : s[r] = "eligible" => r \in seen'
    BY <1>2, <1>3, Zenon
  <2>2. seen \subseteq seen' /\ (Focused(d) => d \in seen')
    BY <1>3, Zenon
  <2> QED BY <1>2, <1>3, <1>5, <1>6, <2>1, <2>2, AddPaid, Zenon
<1>7. ASSUME pendingRead' = s, adding' \in {NoRead, d}, FlushInv' PROVE SentInv'
  <2>1. SentTypes'
    BY <1>2, <1>3, <1>5, <1>7, Zenon DEF SentInv, SentTypes
  <2>2. ASSUME NEW r \in Reads PROVE ReadPaid(r)'
    <3>1. /\ ReadPaid(r) /\ delivered[r] \in Nat /\ delivered'[r] \in Nat /\ delivered[r] <= delivered'[r]
          /\ Focused(r)' = Focused(r) /\ r # NoRead
      BY <1>3, <1>5, ReadsAssumption, Zenon DEF SentInv, SentTypes, Focused, Conversation, NoRead
    <3>2. HeldOnce(r)' = HeldOnce(r) /\ AddedOnce(r) = 0 /\ HeldOnce(r) \in {0, 1} /\ AddedOnce(r)' \in {0, 1}
      BY <1>2, <1>4, <1>7, <3>1, Zenon DEF HeldOnce, AddedOnce
    <3>3. r # d => AddedOnce(r)' = 0
      BY <1>7, <3>1, Zenon DEF AddedOnce
    <3>4. HeldOnce(r)' + AddedOnce(r)' + delivered[r] <= HeldOnce(r) + AddedOnce(r) + delivered'[r]
      BY <1>5, <3>1, <3>2, <3>3
    <3>5. pendingRead'[r] = "eligible" => r \in seen'
      BY <1>2, <1>3, <1>7, Zenon
    <3>6. Focused(r)' /\ (pendingRead'[r] # "none" \/ adding' = r) => r \in seen'
      BY <1>2, <1>3, <1>7, <3>1, Zenon DEF ReadPaid
    <3> QED BY <1>3, <2>1, <3>4, <3>5, <3>6, PaidKept, Zenon
  <2> QED BY <1>7, <2>1, <2>2, Zenon DEF SentInv
<1>8. CASE pendingRead' = s /\ (IF Focused(d) THEN StartFlush(s, NoRead) ELSE Idle)
  <2>1. adding' \in {NoRead, d} /\ FlushInv'
    BY <1>8, Zenon DEF StartFlush, Idle, FlushInv, Eligible
  <2> QED BY <1>7, <1>8, <2>1, Zenon
<1>9. CASE pendingRead' = s /\ StartFlush(s, d)
  <2>1. adding' \in {NoRead, d} /\ FlushInv'
    BY <1>9, Zenon DEF StartFlush, FlushInv, Eligible
  <2> QED BY <1>7, <1>9, <2>1, Zenon
<1> QED BY <1>3, <1>6, <1>8, <1>9, Zenon


(* A command added to the channel is the last of the commands on their way.   *)
LEMMA AppendToPipe ==
    ASSUME NEW S, NEW s \in Seq(S), NEW t \in Seq(S), NEW e \in S
    PROVE  Append(t, e) \in Seq(S) /\ s \o Append(t, e) = Append(s \o t, e) /\ s \o t \in Seq(S)
  OBVIOUS

(* A flush turns an eligible entry into a command, drops it with a worker     *)
(* that has ended, or leaves it; a delivery that waited goes on at its end.   *)
LEMMA FlushPaid == SentInv /\ Flush => SentInv'
<1> SUFFICES ASSUME SentInv, Flush PROVE SentInv'
  BY Zenon
<1> DEFINE Commands == Reads \cup {Other}
<1>1. /\ pendingRead \in [Reads -> {"none", "held", "eligible"}] /\ delivered \in [Reads -> Nat]
      /\ sent \in [Reads -> Nat] /\ adding \in Reads \cup {NoRead}
      /\ channel \in Seq(Commands) /\ deferred \in Seq(Commands) /\ Pipe \in Seq(Commands)
      /\ \A r \in Reads : ReadPaid(r)
  BY DEF SentInv, SentTypes, Pipe
<1>2. ASSUME NEW r \in Reads, FlushLoad(r) PROVE SentInv'
  <2>1. UNCHANGED <<pendingRead, adding, focus, seen, delivered, sent, channel, deferred>>
    BY <1>2, Zenon DEF FlushLoad, tableVars, viewVars, coreVars, receiptHistory
  <2>2. FlushInv'
    BY <1>2, <2>1, Zenon DEF FlushLoad, SentInv, FlushInv, Eligible
  <2> QED BY <2>1, <2>2, QuietSteps, Zenon
<1>3. CASE FlushSend
  <2>1. /\ current \in Reads /\ pendingRead[current] = "eligible" /\ todo \subseteq Eligible
        /\ UNCHANGED <<adding, focus, seen, delivered, sent, deferred>> /\ main' = "flush"
    BY <1>3, Zenon DEF FlushSend, SentInv, FlushInv, Eligible, viewVars,
       coreVars, receiptHistory
  <2>2. CASE UNCHANGED <<channel, pendingRead>> /\ todo' = {}
    <3>1. FlushInv'
      BY <2>1, <2>2, Zenon DEF FlushInv
    <3> QED BY <2>1, <2>2, <3>1, QuietSteps, Zenon
  <2>3. ASSUME pendingRead' = [pendingRead EXCEPT ![current] = "none"], todo' = todo \ {current},
               UNCHANGED channel \/ channel' = Append(channel, current)
        PROVE  SentInv'
    <3>5. current \in Commands
      BY <2>1, Zenon
    <3>6. Append(channel, current) \in Seq(Commands) /\ deferred \o Append(channel, current) = Append(Pipe, current)
      BY <1>1, <3>5, AppendToPipe DEF Pipe
    <3>1. SentTypes'
      <4>1. channel' \in Seq(Commands) /\ deferred' \in Seq(Commands)
        BY <1>1, <2>1, <2>3, <3>6, Zenon
      <4>2. pendingRead' \in [Reads -> {"none", "held", "eligible"}]
        BY <1>1, <2>1, <2>3, Zenon
      <4> QED BY <2>1, <4>1, <4>2, Zenon DEF SentInv, SentTypes
    <3>2. FlushInv'
      BY <1>1, <2>1, <2>3, Zenon DEF FlushInv, Eligible
    <3>3. Pipe' = Pipe \/ Pipe' = Append(Pipe, current)
      BY <2>1, <2>3, <3>6, Zenon DEF Pipe
    <3>4. ASSUME NEW r \in Reads PROVE ReadPaid(r)'
      <4>1. /\ ReadPaid(r) /\ sent[r] \in Nat /\ delivered[r] \in Nat /\ CountOf(Pipe, r) \in Nat
            /\ Focused(r)' = Focused(r) /\ AddedOnce(r)' = AddedOnce(r) /\ AddedOnce(r) \in Nat
        BY <1>1, <2>1, CountIsNat, Zenon DEF Focused, Conversation, AddedOnce
      <4>2. \/ CountOf(Pipe, r)' = CountOf(Pipe, r)
            \/ CountOf(Pipe, r)' = CountOf(Pipe, r) + (IF current = r THEN 1 ELSE 0)
        <5>1. Pipe' = Pipe => CountOf(Pipe, r)' = CountOf(Pipe, r)
          BY Zenon
        <5>2. ASSUME Pipe' = Append(Pipe, current)
              PROVE  CountOf(Pipe', r) = CountOf(Pipe, r) + (IF current = r THEN 1 ELSE 0)
          <6>1. Pipe \in Seq(Commands)
            BY <1>1, Zenon
          <6> HIDE DEF Commands
          <6>2. CountOf(Append(Pipe, current), r) = CountOf(Pipe, r) + (IF current = r THEN 1 ELSE 0)
            <7>1. /\ current = r => CountOf(Append(Pipe, current), r) = CountOf(Pipe, r) + 1
                  /\ current # r => CountOf(Append(Pipe, current), r) = CountOf(Pipe, r)
              BY <3>5, <6>1, CountAppend, Zenon
            <7>2. CountOf(Pipe, r) \in Nat
              BY <6>1, CountIsNat, ZenonT(30)
            <7> QED BY <7>1, <7>2
          <6> QED BY <5>2, <6>2, Zenon
        <5> QED BY <3>3, <5>1, <5>2, Zenon
      <4>3. CASE r = current
        <5>1. pendingRead'[r] = "none" /\ HeldOnce(r) = 1 /\ HeldOnce(r)' = 0 /\ r \in seen
          BY <1>1, <2>1, <2>3, <4>1, <4>3, Zenon DEF HeldOnce, ReadPaid
        <5> QED BY <2>1, <4>1, <4>2, <4>3, <5>1 DEF ReadPaid
      <4>4. CASE r # current
        <5>1. pendingRead'[r] = pendingRead[r] /\ HeldOnce(r)' = HeldOnce(r) /\ HeldOnce(r) \in Nat
          BY <1>1, <2>1, <2>3, <4>4, Zenon DEF HeldOnce
        <5> QED BY <2>1, <4>1, <4>2, <4>4, <5>1 DEF ReadPaid
      <4> QED BY <4>3, <4>4, Zenon
    <3> QED BY <3>1, <3>2, <3>4, Zenon DEF SentInv
  <2> QED BY <1>3, <2>2, <2>3, Zenon DEF FlushSend, Admitted
<1>4. CASE FlushEnd
  <2>1. UNCHANGED <<focus, seen, delivered, sent, channel, deferred>>
    BY <1>4, Zenon DEF FlushEnd, viewVars, coreVars, receiptHistory
  <2>2. CASE adding = NoRead
    <3>1. UNCHANGED <<pendingRead, adding>> /\ FlushInv'
      BY <1>4, <2>2, Zenon DEF FlushEnd, Idle, FlushInv
    <3> QED BY <2>1, <3>1, QuietSteps, Zenon
  <2>3. CASE adding # NoRead
    <3>1. adding \in Reads /\ Add(adding, pendingRead, WarnedAfter(pendingRead, warned))
      BY <1>1, <1>4, <2>3, Zenon DEF FlushEnd
    <3>2. /\ \A r \in Reads : pendingRead[r] = "eligible" => r \in seen'
          /\ Focused(adding) => adding \in seen'
      BY <1>1, <2>1, <3>1, Zenon DEF ReadPaid
    <3>3. delivered' \in [Reads -> Nat] /\ \A r \in Reads : delivered[r] <= delivered'[r]
      BY <1>1, <2>1
    <3> QED BY <1>1, <2>1, <3>1, <3>2, <3>3, AddPaid, Zenon
  <2> QED BY <2>2, <2>3, Zenon
<1> QED BY <1>2, <1>3, <1>4, Zenon DEF Flush

(* The other callbacks of the main thread.                                    *)
LEMMA CallbackPaid ==
    ASSUME SentInv,
           \/ PollReady \/ RetryTimer \/ GroupDeactivated \/ OtherCommand \/ Close
           \/ \E c \in {"im", "chat"} : FocusChange(c) \/ ConversationUpdated(c)
    PROVE  SentInv'
<1> DEFINE Commands == Reads \cup {Other}
<1>1. /\ pendingRead \in [Reads -> {"none", "held", "eligible"}] /\ delivered \in [Reads -> Nat]
      /\ sent \in [Reads -> Nat]
      /\ channel \in Seq(Commands) /\ deferred \in Seq(Commands) /\ Pipe \in Seq(Commands)
      /\ \A r \in Reads : ReadPaid(r)
  BY DEF SentInv, SentTypes, Pipe
<1>2. main = "idle" /\ todo = {} /\ adding = NoRead
  BY Zenon DEF SentInv, FlushInv, PollReady, RetryTimer, GroupDeactivated,
     OtherCommand,
         Close, FocusChange, ConversationUpdated
<1>3. CASE PollReady \/ RetryTimer
  <2>1. UNCHANGED <<pendingRead, adding, focus, seen, delivered, sent, channel, deferred>>
    BY <1>2, <1>3, Zenon DEF PollReady, RetryTimer, StartFlush, tableVars,
       viewVars,
                      coreVars, receiptHistory
  <2>2. FlushInv'
    BY <1>3, <2>1, Zenon DEF PollReady, RetryTimer, StartFlush, FlushInv,
       Eligible
  <2> QED BY <2>1, <2>2, QuietSteps, Zenon
<1>4. ASSUME UNCHANGED <<focus, seen, delivered, sent, channel, deferred>>, adding' = NoRead, FlushInv',
             pendingRead' \in [Reads -> {"none", "held", "eligible"}],
             \A r \in Reads : pendingRead[r] = "none" => pendingRead'[r] = "none",
             \A r \in Reads : pendingRead'[r] = "eligible" => r \in seen
      PROVE  SentInv'
  <2>1. SentTypes'
    BY <1>1, <1>4, Zenon DEF SentInv, SentTypes
  <2>2. ASSUME NEW r \in Reads PROVE ReadPaid(r)'
    <3>1. /\ ReadPaid(r) /\ delivered[r] \in Nat /\ delivered'[r] = delivered[r]
          /\ Focused(r)' = Focused(r) /\ r # NoRead
      BY <1>1, <1>4, ReadsAssumption, Zenon DEF Focused, Conversation, NoRead
    <3>2. /\ HeldOnce(r) \in {0, 1} /\ HeldOnce(r)' \in {0, 1} /\ HeldOnce(r)' <= HeldOnce(r)
          /\ AddedOnce(r) = 0 /\ AddedOnce(r)' = 0
      BY <1>2, <1>4, <3>1 DEF HeldOnce, AddedOnce
    <3>3. HeldOnce(r)' + AddedOnce(r)' + delivered[r] <= HeldOnce(r) + AddedOnce(r) + delivered'[r]
      BY <3>1, <3>2
    <3>4. Focused(r)' /\ (pendingRead'[r] # "none" \/ adding' = r) => r \in seen'
      BY <1>4, <3>1, Zenon DEF ReadPaid
    <3> QED BY <1>4, <2>1, <3>3, <3>4, PaidKept, Zenon
  <2> QED BY <1>4, <2>1, <2>2, Zenon DEF SentInv
<1>5. CASE GroupDeactivated
  <2>1. /\ UNCHANGED <<focus, seen, delivered, sent, channel, deferred, main, todo, current, adding>>
        /\ pendingRead' = [r \in Reads |-> IF r \in GroupReads THEN "none" ELSE pendingRead[r]]
    BY <1>5, Zenon DEF GroupDeactivated, WithoutGroupReads, mainVars,
       coreVars, receiptHistory
  <2>2. FlushInv'
    BY <1>2, <2>1, Zenon DEF FlushInv
  <2> QED BY <1>1, <1>2, <1>4, <2>1, <2>2, Zenon DEF ReadPaid
<1>6. ASSUME NEW c \in {"im", "chat"}, ConversationUpdated(c) PROVE SentInv'
  <2>1. /\ UNCHANGED <<focus, seen, delivered, sent, channel, deferred>> /\ c \in focus
        /\ pendingRead' = pendingRead \/ pendingRead' = MarkEligible(c)
        /\ adding' = NoRead /\ main' = "flush" /\ todo' = {r \in Reads : pendingRead'[r] = "eligible"}
    BY <1>6, Zenon DEF ConversationUpdated, StartFlush, viewVars, coreVars,
       receiptHistory
  <2>2. FlushInv'
    BY <2>1, Zenon DEF FlushInv, Eligible
  <2>3. /\ \A r \in Reads : pendingRead[r] = "none" => pendingRead'[r] = "none"
        /\ \A r \in Reads : pendingRead'[r] = "eligible" => r \in seen
    BY <1>1, <2>1, MarkedAreSeen, Zenon DEF ReadPaid
  <2>4. pendingRead' \in [Reads -> {"none", "held", "eligible"}]
    BY <1>1, <2>1, Zenon DEF MarkEligible
  <2> QED BY <1>4, <2>1, <2>2, <2>3, <2>4, Zenon
<1>7. ASSUME NEW c \in {"im", "chat"}, FocusChange(c) PROVE SentInv'
  <2>1. /\ UNCHANGED <<pendingRead, delivered, sent, channel, deferred, main, todo, current, adding>>
        /\ focus' = IF c \in focus THEN focus \ {c} ELSE focus \cup {c}
        /\ seen' = IF c \in focus THEN seen ELSE seen \cup {r \in Pending : Conversation(r) = c}
    BY <1>7, Zenon DEF FocusChange, tableVars, mainVars, coreVars
  <2>2. SentTypes' /\ FlushInv'
    BY <2>1, Zenon DEF SentInv, SentTypes, FlushInv, Eligible
  <2>3. ASSUME NEW r \in Reads PROVE ReadPaid(r)'
    <3>1. /\ ReadPaid(r) /\ delivered[r] \in Nat /\ r # NoRead
          /\ HeldOnce(r)' = HeldOnce(r) /\ AddedOnce(r)' = AddedOnce(r)
          /\ HeldOnce(r) \in Nat /\ AddedOnce(r) \in Nat
      BY <1>1, <2>1, ReadsAssumption, Zenon DEF HeldOnce, AddedOnce, NoRead
    <3>2. HeldOnce(r)' + AddedOnce(r)' + delivered[r] <= HeldOnce(r) + AddedOnce(r) + delivered'[r]
      BY <2>1, <3>1
    <3>3. pendingRead'[r] = "eligible" => r \in seen'
      BY <2>1, <3>1, Zenon DEF ReadPaid
    <3>4. Focused(r)' /\ (pendingRead'[r] # "none" \/ adding' = r) => r \in seen'
      BY <1>2, <2>1, <3>1, Zenon DEF ReadPaid, Focused, Conversation, Pending
    <3> QED BY <2>1, <2>2, <3>2, <3>3, <3>4, PaidKept, Zenon
  <2> QED BY <2>2, <2>3, Zenon DEF SentInv
<1>8. CASE OtherCommand
  <2>1. /\ UNCHANGED <<pendingRead, focus, seen, delivered, sent, deferred, main, todo, current, adding>>
        /\ channel' = Append(channel, Other) /\ Other \in Commands
    BY <1>8, Zenon DEF OtherCommand, tableVars, viewVars, mainVars,
       coreVars, receiptHistory
  <2>2. channel' \in Seq(Commands) /\ Pipe' = Append(Pipe, Other)
    BY <1>1, <2>1, AppendToPipe DEF Pipe
  <2>3. SentTypes' /\ FlushInv'
    BY <2>1, <2>2, Zenon DEF SentInv, SentTypes, FlushInv, Eligible
  <2>4. ASSUME NEW r \in Reads PROVE ReadPaid(r)'
    <3>1. Other # r /\ CountOf(Pipe, r) \in Nat
      BY <1>1, CountIsNat, ReadsAssumption, Zenon DEF Other
    <3>2. CountOf(Pipe', r) = CountOf(Pipe, r) + (IF Other = r THEN 1 ELSE 0)
      <4>1. Pipe \in Seq(Commands) /\ Other \in Commands
        BY <1>1, Zenon
      <4> HIDE DEF Commands
      <4>2. CountOf(Append(Pipe, Other), r) = CountOf(Pipe, r) + (IF Other = r THEN 1 ELSE 0)
        <5>1. /\ Other = r => CountOf(Append(Pipe, Other), r) = CountOf(Pipe, r) + 1
              /\ Other # r => CountOf(Append(Pipe, Other), r) = CountOf(Pipe, r)
          BY <4>1, CountAppend, Zenon
        <5> QED BY <3>1, <5>1
      <4> QED BY <2>2, <4>2, Zenon
    <3>3. CountOf(Pipe, r)' = CountOf(Pipe, r)
      BY <3>1, <3>2
    <3>4. /\ Focused(r)' = Focused(r) /\ HeldOnce(r)' = HeldOnce(r) /\ AddedOnce(r)' = AddedOnce(r)
          /\ ReadPaid(r)
      BY <1>1, <2>1, Zenon DEF Focused, Conversation, HeldOnce, AddedOnce
    <3> QED BY <2>1, <3>3, <3>4, Zenon DEF ReadPaid
  <2> QED BY <2>3, <2>4, Zenon DEF SentInv
<1>9. CASE Close
  <2>1. /\ UNCHANGED <<focus, seen, delivered, sent, todo, current, adding>>
        /\ pendingRead' = [r \in Reads |-> "none"] /\ main' = "closed" /\ channel' = <<>> /\ deferred' = <<>>
    BY <1>9, Zenon DEF Close, viewVars, receiptHistory
  <2>2. SentTypes' /\ FlushInv'
    BY <1>2, <2>1 DEF SentInv, SentTypes, FlushInv
  <2>3. ASSUME NEW r \in Reads PROVE ReadPaid(r)'
    <3>1. {i \in DOMAIN Pipe' : Pipe'[i] = r} = {}
      BY <2>1 DEF Pipe
    <3>2. CountOf(Pipe, r)' = 0
      BY <3>1, FS_EmptySet, Zenon DEF CountOf
    <3>4. CountOf(Pipe, r) \in Nat
      BY <1>1, CountIsNat, Zenon
    <3>3. /\ HeldOnce(r) \in Nat /\ HeldOnce(r)' = 0 /\ AddedOnce(r) \in Nat /\ AddedOnce(r)' = AddedOnce(r)
          /\ sent[r] \in Nat /\ delivered[r] \in Nat /\ ReadPaid(r)
          /\ Focused(r)' = Focused(r) /\ pendingRead'[r] = "none" /\ r # NoRead
      BY <1>1, <2>1, ReadsAssumption, Zenon DEF HeldOnce, AddedOnce, Focused, Conversation, NoRead
    <3>5. /\ sent[r] > 0 => r \in seen
          /\ sent[r] + AddedOnce(r) <= delivered[r]
      BY <3>3, <3>4 DEF ReadPaid
    <3>6. ~(pendingRead[r] # "none" \/ adding = r)'
      BY <1>2, <2>1, <3>3, Zenon
    <3> HIDE DEF Pipe
    <3> QED BY <2>1, <3>2, <3>3, <3>5, <3>6 DEF ReadPaid
  <2> QED BY <2>2, <2>3, Zenon DEF SentInv
<1> QED BY <1>3, <1>5, <1>6, <1>7, <1>8, <1>9, Zenon


(* Every step keeps what the read receipts rest on.                           *)
LEMMA SentStep == SentInv /\ [ReadNext]_(readVars) => SentInv'
<1> SUFFICES ASSUME SentInv, [ReadNext]_(readVars) PROVE SentInv'
  BY Zenon
<1>1. CASE UNCHANGED readVars
  <2>1. UNCHANGED <<pendingRead, adding, focus, seen, delivered, sent, channel, deferred, main, todo, current>>
    BY <1>1, Zenon DEF readVars, tableVars, viewVars, mainVars, coreVars,
       receiptHistory
  <2>2. FlushInv'
    BY <2>1, Zenon DEF SentInv, FlushInv, Eligible
  <2> QED BY <2>1, <2>2, QuietSteps, Zenon
<1>2. CASE Flush
  BY <1>2, FlushPaid, Zenon
<1>3. CASE Worker \/ LoseStream \/ WorkerEnds
  BY <1>3, WorkerSends, Zenon
<1>4. CASE \E r \in Reads : Deliver(r)
  BY <1>4, DeliverPaid, Zenon
<1>5. CASE \/ PollReady \/ RetryTimer \/ GroupDeactivated \/ OtherCommand \/ Close
           \/ \E c \in {"im", "chat"} : FocusChange(c) \/ ConversationUpdated(c)
  BY <1>5, CallbackPaid, Zenon
<1> QED BY <1>1, <1>2, <1>3, <1>4, <1>5, Zenon DEF ReadNext

(* A read receipt goes out only for a message whose conversation had focus    *)
(* while the message was pending, and at most once for every time the message *)
(* was presented: across retries of a full queue, reconnects, and messages    *)
(* that arrive while a flush runs (SentWasFocused, of signal_flush_pending_   *)
(* reads, signal_queue_read and send_read_receipt).                           *)
THEOREM ReceiptsWereSeen == ReadSpec => []SentWasFocused
<1>1. SentInv => SentWasFocused
  <2> SUFFICES ASSUME SentInv, NEW r \in Reads
               PROVE  (sent[r] > 0 => r \in seen) /\ sent[r] <= delivered[r]
    BY Zenon DEF SentWasFocused
  <2>1. Pipe \in Seq(Reads \cup {Other}) /\ ReadPaid(r) /\ sent[r] \in Nat /\ delivered[r] \in Nat
    BY DEF SentInv, SentTypes, Pipe
  <2>2. CountOf(Pipe, r) \in Nat /\ HeldOnce(r) \in Nat /\ AddedOnce(r) \in Nat
    BY <2>1, CountIsNat, Zenon DEF HeldOnce, AddedOnce
  <2> QED BY <2>1, <2>2 DEF ReadPaid
<1> QED BY <1>1, SentInitially, SentStep, PTL DEF ReadSpec
=============================================================================
