------------------------- MODULE GroupRosterProofs -------------------------
(* Proofs about the group roster: the adapter never mixes the records of two  *)
(* snapshots, a group that was left does not come back, no saved chat of a    *)
(* group the account has always been in is pruned, and at rest the roster is  *)
(* the store's.  Constants are arbitrary: any set of groups, any capacities,  *)
(* any number of reconnections, contents, membership changes and commands.    *)
EXTENDS GroupRoster, TLAPS

Emitters == {"actor", "task"}
SnapRecord == [on : BOOLEAN, todo : SUBSET Groups, sent : SUBSET Groups, auth : BOOLEAN]
Places == {"connecting", "startup", "snapshot", "announce", "dispatch", "leaving"}

(* Every variable the proofs use has its type. The backlog of contents to     *)
(* project needs none: what is shown of it is looked up in the store.         *)
Shape ==
    /\ member \subseteq Groups /\ cached \subseteq Groups /\ absent \subseteq Groups
    /\ departed \subseteq Groups /\ seen \subseteq Groups /\ active \subseteq Groups
    /\ chats \subseteq Groups
    /\ phase \in {"initializing", "recovering", "ready"}
    /\ groups \in {"pending", "authoritative", "dirty"}
    /\ pc \in Places
    /\ task \in {"none", "refreshing", "reading", "emitting", "ok", "failed"}
    /\ snap \in [Emitters -> SnapRecord]
    /\ queue \in Seq(Events)
    /\ commands \in Seq(Commands) /\ deferred \in Seq(Commands)
    /\ pc = "leaving" => command \in Groups
    /\ stream \in Seq(Groups \cup {"empty"})

(* The marks of a snapshot.                                                   *)
Mark(e) == e.kind \in {"begin", "end"}

(* Whether the adapter will be in a snapshot, and which groups it will have   *)
(* seen in it, when it comes to position n of the event queue s, if it is in  *)
(* one now (on) and has seen the groups of got.                               *)
NoMarks(s, n) == \A j \in DOMAIN s : j < n => ~ Mark(s[j])
Opened(s, on, n) ==
    \/ on /\ NoMarks(s, n)
    \/ \E i \in DOMAIN s : /\ i < n /\ s[i].kind = "begin"
                           /\ \A j \in DOMAIN s : i < j /\ j < n => ~ Mark(s[j])
Collected(s, got, n, g) ==
    \/ g \in got /\ NoMarks(s, n)
    \/ \E i \in DOMAIN s : /\ i < n /\ s[i].kind = "group" /\ s[i].group = g
                           /\ \A j \in DOMAIN s : i < j /\ j < n => ~ Mark(s[j])

(* Whether the group g will be on the roster once the adapter has handled the *)
(* event queue s, if it is now (act).                                         *)
Adds(e, g) == (e.kind = "end" /\ g \in e.sent) \/ (e.kind = "message" /\ e.group = g)
Drops(e, g) == (e.kind = "end" /\ e.auth /\ g \notin e.sent) \/ (e.kind = "left" /\ e.group = g)
Listed(s, act, g) ==
    \/ g \in act /\ \A j \in DOMAIN s : ~ Drops(s[j], g)
    \/ \E i \in DOMAIN s : Adds(s[i], g) /\ \A j \in DOMAIN s : i < j => ~ Drops(s[j], g)

AtEnd == Len(queue) + 1

(* Which emitter is at work, and in which state of the session.               *)
Phases ==
    /\ phase # "ready" => groups = "pending"
    /\ pc \in {"connecting", "startup", "announce"} => phase # "ready"
    /\ pc \in {"dispatch", "leaving"} => phase = "ready"
    /\ pc = "leaving" => Authoritative
    /\ pc = "snapshot" /\ phase = "ready" => groups = "dirty"
    /\ task # "none" => groups = "pending" /\ pc = "dispatch"
    /\ snap["actor"].on <=> pc = "snapshot"
    /\ snap["task"].on <=> task = "emitting"
    /\ snap["actor"].on => (snap["actor"].auth <=> phase = "ready")
    /\ snap["task"].on => snap["task"].auth
    /\ leaving = IF pc = "leaving" THEN {command} ELSE {}

(* Snapshots in the event queue are whole: between its marks are the records  *)
(* of one snapshot, and no GROUP_LEFT.                                        *)
WholeQueue ==
    /\ ~ syncing => seen = {}
    /\ \A i \in DOMAIN queue :
         /\ queue[i].kind = "end" =>
              /\ Opened(queue, syncing, i)
              /\ \A g \in Groups : Collected(queue, seen, i, g) <=> g \in queue[i].sent
         /\ queue[i].kind = "left" => ~ Opened(queue, syncing, i)
         /\ queue[i].kind = "group" => Opened(queue, syncing, i)

(* At the end of the event queue a snapshot is open if an emitter is in one,  *)
(* and the groups in it are those the emitter has sent; it is not while       *)
(* groups may be left. (One that a lost connection cut short stays open until *)
(* the next one begins.)                                                      *)
EndOpen == Opened(queue, syncing, AtEnd)
EndGot(g) == Collected(queue, seen, AtEnd, g)
WholeEnd ==
    /\ \A e \in Emitters : snap[e].on =>
         EndOpen /\ \A g \in Groups : EndGot(g) <=> g \in snap[e].sent
    /\ Authoritative /\ pc # "snapshot" => ~ EndOpen
    /\ task = "ok" => ~ EndOpen

(* A group that was left comes up only before its GROUP_LEFT.                 *)
Gone ==
    \A g \in departed :
      /\ g \in active \cup seen \cup chats => \E i \in DOMAIN queue : queue[i] = Event("left", g)
      /\ \A i \in DOMAIN queue :
           queue[i] \in {Event("group", g), Event("message", g)} =>
             \E j \in DOMAIN queue : i < j /\ queue[j] = Event("left", g)

(* A group outside a complete snapshot was once left or not joined: of the    *)
(* store's list once it is complete, of a snapshot in progress and of one in  *)
(* the event queue.                                                           *)
Complete == Authoritative \/ task \in {"reading", "emitting", "ok"}
OutsideStore ==
    /\ Groups \ member \subseteq absent /\ departed \subseteq absent
    /\ Complete => Groups \ cached \subseteq absent
OutsideSnap ==
    \A e \in Emitters : snap[e].on /\ snap[e].auth =>
        Groups \ (snap[e].todo \cup snap[e].sent) \subseteq absent
OutsideQueue ==
    \A i \in DOMAIN queue :
        /\ queue[i].kind = "end" /\ queue[i].auth => Groups \ queue[i].sent \subseteq absent
        /\ queue[i].kind = "left" => queue[i].group \in absent

(* What the adapter will list is what the store has, but for groups whose     *)
(* content is still in the stream.                                            *)
Waiting(g) == \E i \in DOMAIN stream : stream[i] = g
Right(g) == Listed(queue, active, g) <=> g \in cached \ departed
Fits(g) ==
    /\ groups = "authoritative" /\ pc \in {"dispatch", "leaving"} => Right(g)
    /\ task = "ok" => Right(g)
    /\ \A e \in Emitters : snap[e].on /\ snap[e].auth =>
         (g \in snap[e].sent \cup (snap[e].todo \ departed) <=> g \in cached \ departed)
InStep == ~ missed => \A g \in Groups : ~ Waiting(g) => Fits(g)

-----------------------------------------------------------------------------
(* Queues of events.                                                          *)

(* The positions of a queue with one event more.                              *)
LEMMA AppendPlaces ==
    ASSUME NEW S, NEW s \in Seq(S), NEW e \in S, NEW t, t = Append(s, e)
    PROVE  /\ t \in Seq(S) /\ Len(t) = Len(s) + 1 /\ Len(s) \in Nat
           /\ DOMAIN s = 1 .. Len(s) /\ DOMAIN t = 1 .. Len(s) + 1
           /\ \A i \in DOMAIN s : i \in DOMAIN t /\ t[i] = s[i] /\ i < Len(s) + 1
           /\ Len(s) + 1 \in DOMAIN t /\ t[Len(s) + 1] = e
           /\ \A i \in DOMAIN t : i \in DOMAIN s \/ i = Len(s) + 1
           /\ DOMAIN s \subseteq Nat
<1>1. t \in Seq(S) /\ Len(t) = Len(s) + 1 /\ Len(s) \in Nat
  OBVIOUS
<1>2. DOMAIN s = 1 .. Len(s) /\ DOMAIN t = 1 .. Len(s) + 1
  BY <1>1
<1>3. \A i \in 1 .. Len(s) : t[i] = s[i]
  OBVIOUS
<1>4. t[Len(s) + 1] = e
  OBVIOUS
<1> QED BY <1>1, <1>2, <1>3, <1>4

(* The positions of a queue without its first event.                          *)
LEMMA TailPlaces ==
    ASSUME NEW S, NEW s \in Seq(S), s # <<>>, NEW t, t = Tail(s)
    PROVE  /\ t \in Seq(S) /\ Len(t) = Len(s) - 1 /\ Len(s) \in Nat \ {0} /\ Len(t) \in Nat
           /\ DOMAIN s = 1 .. Len(s) /\ DOMAIN t = 1 .. Len(s) - 1
           /\ \A i \in DOMAIN t : i + 1 \in DOMAIN s /\ s[i + 1] = t[i] /\ 1 < i + 1
           /\ \A i \in DOMAIN s : i = 1 \/ (i - 1 \in DOMAIN t /\ s[i] = t[i - 1] /\ 1 < i)
           /\ 1 \in DOMAIN s /\ Head(s) = s[1] /\ Head(s) \in S
           /\ DOMAIN s \subseteq Nat /\ DOMAIN t \subseteq Nat
<1>1. /\ t \in Seq(S) /\ Len(t) = Len(s) - 1 /\ Len(s) \in Nat \ {0}
      /\ \A i \in 1 .. Len(s) - 1 : t[i] = s[i + 1]
      /\ Head(s) = s[1] /\ Head(s) \in S
  OBVIOUS
<1>2. DOMAIN s = 1 .. Len(s) /\ DOMAIN t = 1 .. Len(s) - 1
  BY <1>1
<1> QED BY <1>1, <1>2

(* An event more changes nothing for the positions before it.                 *)
LEMMA OpenedBefore ==
    ASSUME NEW S, NEW s \in Seq(S), NEW e \in S, NEW t, t = Append(s, e),
           NEW n \in 1 .. Len(s) + 1
    PROVE  /\ \A on : Opened(t, on, n) <=> Opened(s, on, n)
           /\ \A got, g : Collected(t, got, n, g) <=> Collected(s, got, n, g)
<1>1. /\ \A i \in DOMAIN s : i \in DOMAIN t /\ t[i] = s[i]
      /\ \A i \in DOMAIN t : i < n => i \in DOMAIN s
  BY AppendPlaces
<1>2. NoMarks(t, n) <=> NoMarks(s, n)
  BY <1>1, Zenon DEF NoMarks
<1>3. ASSUME NEW i \in DOMAIN s, i < n
      PROVE  (\A j \in DOMAIN s : i < j /\ j < n => ~ Mark(s[j]))
               <=> (\A j \in DOMAIN t : i < j /\ j < n => ~ Mark(t[j]))
  BY <1>1, Zenon
<1>4. ASSUME NEW on PROVE Opened(t, on, n) <=> Opened(s, on, n)
  BY <1>1, <1>2, <1>3 DEF Opened
<1>5. ASSUME NEW got, NEW g PROVE Collected(t, got, n, g) <=> Collected(s, got, n, g)
  BY <1>1, <1>2, <1>3 DEF Collected
<1> QED BY <1>4, <1>5, Zenon

(* An event more, seen from behind it.                                        *)
Behind(s, e, t, n) ==
    /\ e.kind = "begin" => \A on : Opened(t, on, n)
    /\ e.kind = "end" => \A on : ~ Opened(t, on, n)
    /\ ~ Mark(e) => \A on : Opened(t, on, n) <=> Opened(s, on, Len(s) + 1)
    /\ Mark(e) => \A got, g : ~ Collected(t, got, n, g)
    /\ e.kind = "group" => \A got : Collected(t, got, n, e.group)
    /\ \A g : ~ Mark(e) /\ (e.kind # "group" \/ e.group # g) =>
         \A got : Collected(t, got, n, g) <=> Collected(s, got, Len(s) + 1, g)

(* An event more, seen from behind it.                                        *)
LEMMA OpenedBehind ==
    ASSUME NEW S, NEW s \in Seq(S), NEW e \in S, NEW t, t = Append(s, e), NEW n, n = Len(t) + 1
    PROVE  Behind(s, e, t, n)
<1> DEFINE m == Len(s) + 1
<1>1. /\ m \in Nat /\ n = m + 1 /\ m \in DOMAIN t /\ t[m] = e
      /\ \A i \in DOMAIN s : i \in DOMAIN t /\ t[i] = s[i] /\ i < m /\ i < n
      /\ \A i \in DOMAIN t : (i \in DOMAIN s \/ i = m) /\ i < n /\ ~ (m < i)
      /\ m < n
  BY AppendPlaces
<1> HIDE DEF m
<1>2. Mark(e) => ~ NoMarks(t, n)
  BY <1>1, Zenon DEF NoMarks
<1>3. ~ Mark(e) => (NoMarks(t, n) <=> NoMarks(s, m))
  BY <1>1, Zenon DEF NoMarks
<1>4. ASSUME NEW i \in DOMAIN s
      PROVE  (\A j \in DOMAIN t : i < j /\ j < n => ~ Mark(t[j]))
               <=> ~ Mark(e) /\ \A j \in DOMAIN s : i < j /\ j < m => ~ Mark(s[j])
  BY <1>1, Zenon
<1>5. \A j \in DOMAIN t : m < j /\ j < n => ~ Mark(t[j])
  BY <1>1, Zenon
<1>6. ASSUME NEW on, e.kind = "begin" PROVE Opened(t, on, n)
  BY <1>1, <1>5, <1>6, Zenon DEF Opened
<1>7. ASSUME NEW on, e.kind = "end" PROVE ~ Opened(t, on, n)
  <2>1. Mark(e)
    BY <1>7, Zenon DEF Mark
  <2>2. ASSUME NEW i \in DOMAIN t, i < n, t[i].kind = "begin"
        PROVE  ~ \A j \in DOMAIN t : i < j /\ j < n => ~ Mark(t[j])
    <3>1. i # m
      BY <1>1, <1>7, <2>2, Zenon
    <3>2. i \in DOMAIN s
      BY <1>1, <3>1, Zenon
    <3> QED BY <1>4, <2>1, <3>2, Zenon
  <2> QED BY <1>2, <2>1, <2>2, Zenon DEF Opened
<1>8. ASSUME NEW on, ~ Mark(e) PROVE Opened(t, on, n) <=> Opened(s, on, m)
  <2>1. e.kind # "begin"
    BY <1>8, Zenon DEF Mark
  <2>2. \A i \in DOMAIN t : t[i].kind = "begin" => i \in DOMAIN s
    BY <1>1, <2>1, Zenon
  <2> QED BY <1>1, <1>3, <1>4, <1>8, <2>2 DEF Opened
<1>9. ASSUME NEW got, NEW g, Mark(e) PROVE ~ Collected(t, got, n, g)
  <2>1. e.kind # "group"
    BY <1>9, Zenon DEF Mark
  <2>2. \A i \in DOMAIN t : t[i].kind = "group" => i \in DOMAIN s
    BY <1>1, <2>1, Zenon
  <2> QED BY <1>2, <1>4, <1>9, <2>2, Zenon DEF Collected
<1>10. ASSUME NEW got, e.kind = "group" PROVE Collected(t, got, n, e.group)
  BY <1>1, <1>5, <1>10, Zenon DEF Collected
<1>11. ASSUME NEW g, NEW got, ~ Mark(e), e.kind # "group" \/ e.group # g
       PROVE  Collected(t, got, n, g) <=> Collected(s, got, m, g)
  <2>1. \A i \in DOMAIN t : t[i].kind = "group" /\ t[i].group = g => i \in DOMAIN s
    BY <1>1, <1>11, Zenon
  <2> QED BY <1>1, <1>3, <1>4, <1>11, <2>1 DEF Collected
<1> QED BY <1>6, <1>7, <1>8, <1>9, <1>10, <1>11, Zenon DEF m, Behind

(* The first event taken and handled.                                         *)
Handled(s, t, n, on, on1, got, got1) ==
    /\ Opened(t, on1, n) <=> Opened(s, on, n + 1)
    /\ \A g : (/\ Mark(Head(s)) => g \notin got1
               /\ Head(s).kind = "group" /\ Head(s).group = g => g \in got1
               /\ ~ Mark(Head(s)) /\ (Head(s).kind # "group" \/ Head(s).group # g)
                    => (g \in got1 <=> g \in got))
              => (Collected(t, got1, n, g) <=> Collected(s, got, n + 1, g))

(* The first event taken and handled.                                         *)
LEMMA OpenedTail ==
    ASSUME NEW S, NEW s \in Seq(S), s # <<>>, NEW t, t = Tail(s), NEW n \in 1 .. Len(s),
           NEW on, NEW on1, NEW got, NEW got1,
           Head(s).kind = "begin" => on1,
           Head(s).kind = "end" => ~ on1,
           ~ Mark(Head(s)) => (on1 <=> on)
    PROVE  Handled(s, t, n, on, on1, got, got1)
<1> DEFINE h == Head(s)
<1>1. /\ \A i \in DOMAIN t : /\ i + 1 \in DOMAIN s /\ s[i + 1] = t[i] /\ 1 < i + 1
                             /\ (i < n <=> i + 1 < n + 1)
      /\ \A i \in DOMAIN s : i = 1 \/ (/\ i - 1 \in DOMAIN t /\ s[i] = t[i - 1]
                                       /\ (i - 1 < n <=> i < n + 1))
      /\ 1 \in DOMAIN s /\ h = s[1] /\ 1 < n + 1
      /\ DOMAIN s \subseteq Nat /\ DOMAIN t \subseteq Nat
  BY TailPlaces
<1> HIDE DEF h
<1>2. NoMarks(s, n + 1) <=> ~ Mark(h) /\ NoMarks(t, n)
  <2>1. ASSUME NoMarks(s, n + 1) PROVE ~ Mark(h) /\ NoMarks(t, n)
    BY <1>1, <2>1, Zenon DEF NoMarks
  <2>2. ASSUME ~ Mark(h), NoMarks(t, n), NEW j \in DOMAIN s, j < n + 1 PROVE ~ Mark(s[j])
    BY <1>1, <2>2, Zenon DEF NoMarks
  <2> QED BY <2>1, <2>2, Zenon DEF NoMarks
<1>3. ASSUME NEW i \in DOMAIN t
      PROVE  (\A j \in DOMAIN t : i < j /\ j < n => ~ Mark(t[j]))
               <=> (\A j \in DOMAIN s : i + 1 < j /\ j < n + 1 => ~ Mark(s[j]))
  <2>1. ASSUME NEW j \in DOMAIN s, i + 1 < j, j < n + 1,
               \A k \in DOMAIN t : i < k /\ k < n => ~ Mark(t[k])
        PROVE  ~ Mark(s[j])
    <3>1. j # 1 /\ i < j - 1
      BY <1>1, <2>1
    <3> QED BY <1>1, <2>1, <3>1, Zenon
  <2>2. ASSUME NEW j \in DOMAIN t, i < j, j < n,
               \A k \in DOMAIN s : i + 1 < k /\ k < n + 1 => ~ Mark(s[k])
        PROVE  ~ Mark(t[j])
    <3>1. i + 1 < j + 1
      BY <1>1, <2>2
    <3> QED BY <1>1, <2>2, <3>1, Zenon
  <2> QED BY <2>1, <2>2, Zenon
<1>4. (\A j \in DOMAIN s : 1 < j /\ j < n + 1 => ~ Mark(s[j])) <=> NoMarks(t, n)
  <2>1. ASSUME NEW j \in DOMAIN s, 1 < j, j < n + 1, NoMarks(t, n) PROVE ~ Mark(s[j])
    BY <1>1, <2>1 DEF NoMarks
  <2>2. ASSUME NEW j \in DOMAIN t, j < n, \A k \in DOMAIN s : 1 < k /\ k < n + 1 => ~ Mark(s[k])
        PROVE  ~ Mark(t[j])
    BY <1>1, <2>2, Zenon
  <2> QED BY <2>1, <2>2, Zenon DEF NoMarks
<1> DEFINE FromS(i) == \A j \in DOMAIN s : i < j /\ j < n + 1 => ~ Mark(s[j])
           FromT(i) == \A j \in DOMAIN t : i < j /\ j < n => ~ Mark(t[j])
<1>5. /\ \A i \in DOMAIN t : FromT(i) <=> FromS(i + 1)
      /\ FromS(1) <=> NoMarks(t, n)
  BY <1>3, <1>4, Zenon
<1>6. Opened(s, on, n + 1) <=> \/ on /\ NoMarks(s, n + 1)
                               \/ \E i \in DOMAIN s : i < n + 1 /\ s[i].kind = "begin" /\ FromS(i)
  BY Zenon DEF Opened
<1>7. Opened(t, on1, n) <=> \/ on1 /\ NoMarks(t, n)
                            \/ \E i \in DOMAIN t : i < n /\ t[i].kind = "begin" /\ FromT(i)
  BY Zenon DEF Opened
<1>8. ASSUME NEW g
      PROVE /\ Collected(s, got, n + 1, g) <=>
                 \/ g \in got /\ NoMarks(s, n + 1)
                 \/ \E i \in DOMAIN s : /\ i < n + 1 /\ s[i].kind = "group" /\ s[i].group = g
                                        /\ FromS(i)
            /\ Collected(t, got1, n, g) <=>
                 \/ g \in got1 /\ NoMarks(t, n)
                 \/ \E i \in DOMAIN t : /\ i < n /\ t[i].kind = "group" /\ t[i].group = g
                                        /\ FromT(i)
  BY Zenon DEF Collected
<1> HIDE DEF FromS, FromT
<1>9. Opened(t, on1, n) <=> Opened(s, on, n + 1)
  <2>1. (\E i \in DOMAIN s : i < n + 1 /\ s[i].kind = "begin" /\ FromS(i))
          <=> \/ h.kind = "begin" /\ NoMarks(t, n)
              \/ \E i \in DOMAIN t : i < n /\ t[i].kind = "begin" /\ FromT(i)
    <3>1. ASSUME NEW i \in DOMAIN s, i < n + 1, s[i].kind = "begin", FromS(i)
          PROVE  \/ h.kind = "begin" /\ NoMarks(t, n)
                 \/ \E k \in DOMAIN t : k < n /\ t[k].kind = "begin" /\ FromT(k)
      <4>1. CASE i = 1
        BY <1>1, <1>5, <3>1, <4>1, Zenon
      <4>2. CASE i # 1
        <5>1. i - 1 \in DOMAIN t /\ s[i] = t[i - 1] /\ i - 1 < n /\ (i - 1) + 1 = i
          BY <1>1, <3>1, <4>2
        <5>2. FromT(i - 1)
          BY <1>5, <3>1, <5>1, Zenon
        <5> QED BY <3>1, <5>1, <5>2, Zenon
      <4> QED BY <4>1, <4>2, Zenon
    <3>2. ASSUME h.kind = "begin", NoMarks(t, n)
          PROVE  \E i \in DOMAIN s : i < n + 1 /\ s[i].kind = "begin" /\ FromS(i)
      BY <1>1, <1>5, <3>2, Zenon
    <3>3. ASSUME NEW i \in DOMAIN t, i < n, t[i].kind = "begin", FromT(i)
          PROVE  \E k \in DOMAIN s : k < n + 1 /\ s[k].kind = "begin" /\ FromS(k)
      BY <1>1, <1>5, <3>3
    <3> QED BY <3>1, <3>2, <3>3, Zenon
  <2>2. CASE h.kind = "begin"
    BY <1>2, <1>6, <1>7, <2>1, <2>2, Zenon DEF Mark, h
  <2>3. CASE h.kind = "end"
    BY <1>2, <1>6, <1>7, <2>1, <2>3, Zenon DEF Mark, h
  <2>4. CASE ~ Mark(h)
    BY <1>2, <1>6, <1>7, <2>1, <2>4, Zenon DEF Mark, h
  <2> QED BY <2>2, <2>3, <2>4, Zenon DEF Mark
<1>10. ASSUME NEW g, Mark(h) => g \notin got1,
              h.kind = "group" /\ h.group = g => g \in got1,
              ~ Mark(h) /\ (h.kind # "group" \/ h.group # g) => (g \in got1 <=> g \in got)
       PROVE  Collected(t, got1, n, g) <=> Collected(s, got, n + 1, g)
  <2>1. (\E i \in DOMAIN s : i < n + 1 /\ s[i].kind = "group" /\ s[i].group = g /\ FromS(i))
          <=> \/ h.kind = "group" /\ h.group = g /\ NoMarks(t, n)
              \/ \E i \in DOMAIN t : i < n /\ t[i].kind = "group" /\ t[i].group = g /\ FromT(i)
    <3>1. ASSUME NEW i \in DOMAIN s, i < n + 1, s[i].kind = "group", s[i].group = g, FromS(i)
          PROVE  \/ h.kind = "group" /\ h.group = g /\ NoMarks(t, n)
                 \/ \E k \in DOMAIN t : k < n /\ t[k].kind = "group" /\ t[k].group = g /\ FromT(k)
      <4>1. CASE i = 1
        BY <1>1, <1>5, <3>1, <4>1, Zenon
      <4>2. CASE i # 1
        <5>1. i - 1 \in DOMAIN t /\ s[i] = t[i - 1] /\ i - 1 < n /\ (i - 1) + 1 = i
          BY <1>1, <3>1, <4>2
        <5>2. FromT(i - 1)
          BY <1>5, <3>1, <5>1, Zenon
        <5> QED BY <3>1, <5>1, <5>2, Zenon
      <4> QED BY <4>1, <4>2, Zenon
    <3>2. ASSUME h.kind = "group", h.group = g, NoMarks(t, n)
          PROVE  \E i \in DOMAIN s : i < n + 1 /\ s[i].kind = "group" /\ s[i].group = g /\ FromS(i)
      BY <1>1, <1>5, <3>2, Zenon
    <3>3. ASSUME NEW i \in DOMAIN t, i < n, t[i].kind = "group", t[i].group = g, FromT(i)
          PROVE  \E k \in DOMAIN s : k < n + 1 /\ s[k].kind = "group" /\ s[k].group = g /\ FromS(k)
      BY <1>1, <1>5, <3>3
    <3> QED BY <3>1, <3>2, <3>3, Zenon
  <2>2. CASE Mark(h)
    <3>1. h.kind # "group"
      BY <2>2, Zenon DEF Mark
    <3> QED BY <1>2, <1>8, <1>10, <2>1, <2>2, <3>1, Zenon
  <2>3. CASE ~ Mark(h)
    BY <1>2, <1>8, <1>10, <2>1, <2>3, Zenon
  <2> QED BY <2>2, <2>3, Zenon
<1> QED BY <1>9, <1>10, Zenon DEF h, Handled

(* The roster after one event more.                                           *)
LEMMA ListedAppend ==
    ASSUME NEW S, NEW s \in Seq(S), NEW e \in S, NEW t, t = Append(s, e), NEW act, NEW g
    PROVE  Listed(t, act, g) <=> Adds(e, g) \/ (Listed(s, act, g) /\ ~ Drops(e, g))
<1> DEFINE m == Len(s) + 1
<1>1. /\ m \in DOMAIN t /\ t[m] = e
      /\ \A i \in DOMAIN s : i \in DOMAIN t /\ t[i] = s[i] /\ i < m
      /\ \A i \in DOMAIN t : (i \in DOMAIN s \/ i = m) /\ ~ (m < i)
  BY AppendPlaces
<1> HIDE DEF m
<1>2. (\A j \in DOMAIN t : ~ Drops(t[j], g))
        <=> ~ Drops(e, g) /\ \A j \in DOMAIN s : ~ Drops(s[j], g)
  BY <1>1, Zenon
<1>3. ASSUME NEW i \in DOMAIN s
      PROVE  (\A j \in DOMAIN t : i < j => ~ Drops(t[j], g))
               <=> ~ Drops(e, g) /\ \A j \in DOMAIN s : i < j => ~ Drops(s[j], g)
  BY <1>1, Zenon
<1>4. \A j \in DOMAIN t : m < j => ~ Drops(t[j], g)
  BY <1>1, Zenon
<1>5. ASSUME Listed(t, act, g) PROVE Adds(e, g) \/ (Listed(s, act, g) /\ ~ Drops(e, g))
  <2>1. CASE g \in act /\ \A j \in DOMAIN t : ~ Drops(t[j], g)
    BY <1>2, <2>1, Zenon DEF Listed
  <2>2. ASSUME NEW i \in DOMAIN t, Adds(t[i], g), \A j \in DOMAIN t : i < j => ~ Drops(t[j], g)
        PROVE  Adds(e, g) \/ (Listed(s, act, g) /\ ~ Drops(e, g))
    <3>1. CASE i = m
      BY <1>1, <2>2, <3>1, Zenon
    <3>2. CASE i \in DOMAIN s
      BY <1>1, <1>3, <2>2, <3>2, Zenon DEF Listed
    <3> QED BY <1>1, <3>1, <3>2, Zenon
  <2> QED BY <1>5, <2>1, <2>2, Zenon DEF Listed
<1>6. ASSUME Adds(e, g) PROVE Listed(t, act, g)
  BY <1>1, <1>4, <1>6, Zenon DEF Listed
<1>7. ASSUME Listed(s, act, g), ~ Drops(e, g) PROVE Listed(t, act, g)
  <2>1. CASE g \in act /\ \A j \in DOMAIN s : ~ Drops(s[j], g)
    BY <1>2, <1>7, <2>1, Zenon DEF Listed
  <2>2. ASSUME NEW i \in DOMAIN s, Adds(s[i], g), \A j \in DOMAIN s : i < j => ~ Drops(s[j], g)
        PROVE  Listed(t, act, g)
    BY <1>1, <1>3, <1>7, <2>2, Zenon DEF Listed
  <2> QED BY <1>7, <2>1, <2>2, Zenon DEF Listed
<1> QED BY <1>5, <1>6, <1>7, Zenon

(* The roster once the first event has been handled.                          *)
LEMMA ListedTail ==
    ASSUME NEW S, NEW s \in Seq(S), s # <<>>, NEW t, t = Tail(s), NEW act, NEW act1, NEW g,
           g \in act1 <=> Adds(Head(s), g) \/ (g \in act /\ ~ Drops(Head(s), g))
    PROVE  Listed(t, act1, g) <=> Listed(s, act, g)
<1> DEFINE h == Head(s)
<1>1. /\ \A i \in DOMAIN t : i + 1 \in DOMAIN s /\ s[i + 1] = t[i] /\ 1 < i + 1
      /\ \A i \in DOMAIN s : i = 1 \/ (i - 1 \in DOMAIN t /\ s[i] = t[i - 1] /\ 1 < i)
      /\ 1 \in DOMAIN s /\ h = s[1]
      /\ DOMAIN s \subseteq Nat /\ DOMAIN t \subseteq Nat
  BY TailPlaces
<1>2. g \in act1 <=> Adds(h, g) \/ (g \in act /\ ~ Drops(h, g))
  BY Zenon
<1> HIDE DEF h
<1>3. (\A j \in DOMAIN s : ~ Drops(s[j], g)) <=> ~ Drops(h, g) /\ \A j \in DOMAIN t : ~ Drops(t[j], g)
  BY <1>1, Zenon
<1>4. (\A j \in DOMAIN s : 1 < j => ~ Drops(s[j], g)) <=> \A j \in DOMAIN t : ~ Drops(t[j], g)
  <2>1. ASSUME NEW j \in DOMAIN s, 1 < j, \A k \in DOMAIN t : ~ Drops(t[k], g)
        PROVE  ~ Drops(s[j], g)
    BY <1>1, <2>1
  <2>2. ASSUME NEW j \in DOMAIN t, \A k \in DOMAIN s : 1 < k => ~ Drops(s[k], g)
        PROVE  ~ Drops(t[j], g)
    BY <1>1, <2>2, Zenon
  <2> QED BY <2>1, <2>2, Zenon
<1>5. ASSUME NEW i \in DOMAIN t
      PROVE  (\A j \in DOMAIN t : i < j => ~ Drops(t[j], g))
               <=> (\A j \in DOMAIN s : i + 1 < j => ~ Drops(s[j], g))
  <2>1. ASSUME NEW j \in DOMAIN s, i + 1 < j, \A k \in DOMAIN t : i < k => ~ Drops(t[k], g)
        PROVE  ~ Drops(s[j], g)
    <3>1. j # 1 /\ i < j - 1
      BY <1>1, <2>1
    <3> QED BY <1>1, <2>1, <3>1, Zenon
  <2>2. ASSUME NEW j \in DOMAIN t, i < j, \A k \in DOMAIN s : i + 1 < k => ~ Drops(s[k], g)
        PROVE  ~ Drops(t[j], g)
    <3>1. i + 1 < j + 1
      BY <1>1, <2>2
    <3> QED BY <1>1, <2>2, <3>1, Zenon
  <2> QED BY <2>1, <2>2, Zenon
<1>6. ASSUME Listed(s, act, g) PROVE Listed(t, act1, g)
  <2>1. CASE g \in act /\ \A j \in DOMAIN s : ~ Drops(s[j], g)
    BY <1>2, <1>3, <2>1, Zenon DEF Listed
  <2>2. ASSUME NEW i \in DOMAIN s, Adds(s[i], g), \A j \in DOMAIN s : i < j => ~ Drops(s[j], g)
        PROVE  Listed(t, act1, g)
    <3>1. CASE i = 1
      BY <1>1, <1>2, <1>4, <2>2, <3>1, Zenon DEF Listed
    <3>2. CASE i # 1
      <4>1. i - 1 \in DOMAIN t /\ s[i] = t[i - 1] /\ (i - 1) + 1 = i
        BY <1>1, <3>2
      <4>2. \A j \in DOMAIN t : i - 1 < j => ~ Drops(t[j], g)
        BY <1>5, <2>2, <4>1, Zenon
      <4> QED BY <2>2, <4>1, <4>2, Zenon DEF Listed
    <3> QED BY <3>1, <3>2, Zenon
  <2> QED BY <1>6, <2>1, <2>2, Zenon DEF Listed
<1>7. ASSUME Listed(t, act1, g) PROVE Listed(s, act, g)
  <2>1. CASE g \in act1 /\ \A j \in DOMAIN t : ~ Drops(t[j], g)
    <3>1. CASE Adds(h, g)
      BY <1>1, <1>4, <2>1, <3>1, Zenon DEF Listed
    <3>2. CASE g \in act /\ ~ Drops(h, g)
      BY <1>3, <2>1, <3>2, Zenon DEF Listed
    <3> QED BY <1>2, <2>1, <3>1, <3>2, Zenon
  <2>2. ASSUME NEW i \in DOMAIN t, Adds(t[i], g), \A j \in DOMAIN t : i < j => ~ Drops(t[j], g)
        PROVE  Listed(s, act, g)
    BY <1>1, <1>5, <2>2, Zenon DEF Listed
  <2> QED BY <1>7, <2>1, <2>2, Zenon DEF Listed
<1> QED BY <1>6, <1>7, Zenon


-----------------------------------------------------------------------------
(* Types.                                                                     *)

(* The events the core emits, and what an event of the queue holds.           *)
LEMMA EventFacts ==
    /\ \A k \in {"begin", "ready", "recovering"} :
         Event(k, NoGroup) \in Events /\ Event(k, NoGroup).kind = k
    /\ \A k \in {"group", "message", "left", "error"}, g \in Groups :
         Event(k, g) \in Events /\ Event(k, g).kind = k /\ Event(k, g).group = g
    /\ \A a \in BOOLEAN, x \in SUBSET Groups :
         LET e == [kind |-> "end", group |-> NoGroup, auth |-> a, sent |-> x]
         IN  e \in Events /\ e.kind = "end" /\ e.auth = a /\ e.sent = x
    /\ \A e \in Events :
         /\ e.kind \in {"begin", "ready", "recovering", "group", "message", "left", "error", "end"}
         /\ e.kind = "end" => e.auth \in BOOLEAN /\ e.sent \subseteq Groups
         /\ e.kind \in {"group", "message", "left", "error"} =>
              e.group \in Groups /\ e = Event(e.kind, e.group)
  BY DEF Events, Event

(* emit_group_snapshot begins.                                                *)
LEMMA BeginEffect ==
    ASSUME Shape, NEW e \in Emitters, NEW auth \in BOOLEAN, SnapshotBegin(e, auth)
    PROVE  /\ snap' \in [Emitters -> SnapRecord]
           /\ snap'[e].on /\ snap'[e].todo = cached /\ snap'[e].sent = {}
           /\ snap'[e].auth = auth
           /\ \A f \in Emitters : f # e => snap'[f] = snap[f]
           /\ queue' = Append(queue, Event("begin", NoGroup))
<1>1. [on |-> TRUE, todo |-> cached, sent |-> {}, auth |-> auth] \in SnapRecord
  BY Zenon DEF Shape, SnapRecord
<1> DEFINE r == [on |-> TRUE, todo |-> cached, sent |-> {}, auth |-> auth]
<1>2. r.on /\ r.todo = cached /\ r.sent = {} /\ r.auth = auth
  BY Zenon
<1>3. snap' = [snap EXCEPT ![e] = r] /\ snap \in [Emitters -> SnapRecord]
      /\ queue' = Append(queue, Event("begin", NoGroup))
  BY Zenon DEF SnapshotBegin, Shape, Emit
<1> HIDE DEF r
<1> QED BY <1>1, <1>2, <1>3, Zenon DEF r

(* A record of a snapshot, shown or skipped.                                  *)
LEMMA GroupEffect ==
    ASSUME Shape, NEW e \in Emitters, SnapshotGroup(e)
    PROVE  /\ snap' \in [Emitters -> SnapRecord]
           /\ snap[e].on
           /\ \A f \in Emitters : f # e => snap'[f] = snap[f]
           /\ snap'[e].on = snap[e].on /\ snap'[e].auth = snap[e].auth
           /\ \E g \in snap[e].todo :
                /\ snap'[e].todo = snap[e].todo \ {g}
                /\ \/ Skipped(g) /\ snap'[e].sent = snap[e].sent /\ queue' = queue
                   \/ /\ ~ Skipped(g) /\ snap'[e].sent = snap[e].sent \cup {g}
                      /\ queue' = Append(queue, Event("group", g))
<1>1. PICK g \in snap[e].todo :
        /\ snap' = [snap EXCEPT ![e].todo = @ \ {g},
                                ![e].sent = IF Skipped(g) THEN @ ELSE @ \cup {g}]
        /\ IF Skipped(g) THEN UNCHANGED queue ELSE Emit(Event("group", g))
  BY Zenon DEF SnapshotGroup
<1> DEFINE r == snap[e]
           x == IF Skipped(g) THEN r.sent ELSE r.sent \cup {g}
           w == [r EXCEPT !.todo = @ \ {g}, !.sent = x]
<1>2. r \in SnapRecord /\ snap \in [Emitters -> SnapRecord]
  BY Zenon DEF Shape
<1>3. g \in Groups
  BY <1>1, <1>2, Zenon DEF SnapRecord
<1>4. x \in SUBSET Groups
  BY <1>2, <1>3, Zenon DEF SnapRecord
<1>5. snap' = [snap EXCEPT ![e] = w]
  BY <1>1, <1>2, Zenon DEF SnapRecord
<1> HIDE DEF x
<1>6. w \in SnapRecord /\ w.on = r.on /\ w.auth = r.auth /\ w.todo = r.todo \ {g} /\ w.sent = x
  BY <1>2, <1>4, Zenon DEF SnapRecord
<1>7. snap[e].on
  BY Zenon DEF SnapshotGroup
<1>8. /\ snap' \in [Emitters -> SnapRecord] /\ snap'[e] = w
      /\ \A f \in Emitters : f # e => snap'[f] = snap[f]
  <2> HIDE DEF w, r
  <2> QED BY <1>2, <1>5, <1>6, Zenon
<1>9. \/ Skipped(g) /\ snap'[e].sent = snap[e].sent /\ queue' = queue
      \/ /\ ~ Skipped(g) /\ snap'[e].sent = snap[e].sent \cup {g}
         /\ queue' = Append(queue, Event("group", g))
  <2>1. CASE Skipped(g)
    <3>1. w.sent = r.sent /\ queue' = queue
      BY <1>1, <1>6, <2>1, Zenon DEF x
    <3> QED BY <1>8, <2>1, <3>1, Zenon
  <2>2. CASE ~ Skipped(g)
    <3>1. w.sent = r.sent \cup {g} /\ queue' = Append(queue, Event("group", g))
      BY <1>1, <1>6, <2>2, Zenon DEF x, Emit
    <3> QED BY <1>8, <2>2, <3>1, Zenon
  <2> QED BY <2>1, <2>2, Zenon
<1> QED BY <1>6, <1>7, <1>8, <1>9, Zenon

(* emit_group_snapshot ends.                                                  *)
LEMMA EndEffect ==
    ASSUME Shape, NEW e \in Emitters, SnapshotEnd(e)
    PROVE  /\ snap' \in [Emitters -> SnapRecord]
           /\ snap[e].on /\ snap[e].todo = {} /\ ~ snap'[e].on
           /\ \A f \in Emitters : f # e => snap'[f] = snap[f]
           /\ \E x \in Events : /\ x.kind = "end" /\ x.auth = snap[e].auth /\ x.sent = snap[e].sent
                                /\ queue' = Append(queue, x)
<1>1. NoSnap \in SnapRecord /\ ~ NoSnap.on
  BY Zenon DEF NoSnap, SnapRecord
<1>2. snap[e].auth \in BOOLEAN /\ snap[e].sent \in SUBSET Groups /\ snap \in [Emitters -> SnapRecord]
  BY Zenon DEF Shape, SnapRecord
<1>3. /\ snap[e].on /\ snap[e].todo = {}
      /\ queue' = Append(queue, [kind |-> "end", group |-> NoGroup, auth |-> snap[e].auth,
                                 sent |-> snap[e].sent])
      /\ snap' = [snap EXCEPT ![e] = NoSnap]
  BY Zenon DEF SnapshotEnd, Emit
<1>4. /\ snap' \in [Emitters -> SnapRecord] /\ snap'[e] = NoSnap
      /\ \A f \in Emitters : f # e => snap'[f] = snap[f]
  BY <1>1, <1>2, <1>3, Zenon
<1>5. \E x \in Events : /\ x.kind = "end" /\ x.auth = snap[e].auth /\ x.sent = snap[e].sent
                        /\ queue' = Append(queue, x)
  BY <1>2, <1>3, EventFacts, Zenon
<1> QED BY <1>1, <1>3, <1>4, <1>5, Zenon


(* The first of a queue of commands or contents, and the rest.                *)
LEMMA QueueFacts ==
    ASSUME Shape
    PROVE  /\ deferred # <<>> => Head(deferred) \in Commands /\ Tail(deferred) \in Seq(Commands)
           /\ commands # <<>> => Head(commands) \in Commands /\ Tail(commands) \in Seq(Commands)
           /\ \A c \in Commands : c.group \in Groups
           /\ stream # <<>> => /\ Head(stream) \in Groups \cup {"empty"}
                               /\ Tail(stream) \in Seq(Groups \cup {"empty"})
           /\ queue # <<>> => Head(queue) \in Events /\ Tail(queue) \in Seq(Events)
<1>1. \A c \in Commands : c.group \in Groups
  BY Zenon DEF Commands
<1>2. /\ deferred \in Seq(Commands) /\ commands \in Seq(Commands)
      /\ stream \in Seq(Groups \cup {"empty"}) /\ queue \in Seq(Events)
  BY Zenon DEF Shape
<1> QED BY <1>1, <1>2

(* A command taken by the dispatch loop.                                      *)
LEMMA PopFacts ==
    ASSUME Shape, PopCommand
    PROVE  /\ deferred' \in Seq(Commands) /\ commands' \in Seq(Commands)
           /\ NextCommand.group \in Groups
  BY QueueFacts, Zenon DEF PopCommand, NextCommand, Shape

(* The adapter's steps change nothing of the core, and keep the types.        *)
LEMMA ShapePoll ==
    ASSUME Shape, Poll
    PROVE  Shape' /\ UNCHANGED core /\ queue # <<>> /\ queue' = Tail(queue)
<1>1. queue # <<>> /\ queue' = Tail(queue) /\ UNCHANGED core
  BY Zenon DEF Poll, Polls, PollGroupBegin, PollGroup, PollPreliminaryEnd, PollAuthoritativeEnd,
     PollReady, PollRecovering, PollMessage, PollLeft, PollGroupError
<1>2. /\ Head(queue) \in Events /\ queue' \in Seq(Events)
      /\ Head(queue).kind \in {"group", "message", "left", "error"} => Head(queue).group \in Groups
  BY <1>1, QueueFacts, EventFacts, Zenon
<1>3. seen' \subseteq Groups /\ active' \subseteq Groups /\ chats' \subseteq Groups
  <2>1. CASE PollGroupBegin
    BY <2>1, Zenon DEF PollGroupBegin, SeenAtBegin, Shape
  <2>2. CASE PollGroup
    BY <1>2, <2>2, Zenon DEF PollGroup, Polls, Shape
  <2>3. CASE PollPreliminaryEnd
    BY <2>3, Zenon DEF PollPreliminaryEnd, Shape
  <2>4. CASE PollAuthoritativeEnd
    BY <2>4, Zenon DEF PollAuthoritativeEnd, Shape
  <2>5. CASE PollReady \/ PollRecovering \/ PollGroupError
    BY <2>5, Zenon DEF PollReady, PollRecovering, PollGroupError, Shape
  <2>6. CASE PollMessage
    BY <1>2, <2>6, Zenon DEF PollMessage, Polls, Shape
  <2>7. CASE PollLeft
    BY <2>7, Zenon DEF PollLeft, Shape
  <2> QED BY <2>1, <2>2, <2>3, <2>4, <2>5, <2>6, <2>7, Zenon DEF Poll
<1> QED BY <1>1, <1>2, <1>3, Zenon DEF Shape, core, world, session, input, leaveVars, emitters

(* The user and the fallback timer.                                           *)
LEMMA ShapeUser ==
    ASSUME Shape, User \/ GroupSyncTimeout
    PROVE  /\ Shape'
           /\ UNCHANGED <<world, session, pc, stream, deferred, leaveVars, emitters, queue, syncing,
                          seen, active>>
           /\ chats' \subseteq chats
<1> USE DEF core, world, session, input, leaveVars, emitters, roster
<1>1. CASE GroupSyncTimeout
  BY <1>1, Zenon DEF GroupSyncTimeout, Shape
<1>2. ASSUME NEW g \in Groups, JoinChat(g) \/ RequestLeave(g) \/ CloseTab(g) \/ RemoveChat(g)
      PROVE  Shape' /\ UNCHANGED <<world, session, pc, stream, deferred, leaveVars, emitters, queue,
                                   syncing, seen, active>>
             /\ chats' \subseteq chats
  BY <1>2 DEF JoinChat, RequestLeave, CloseTab, RemoveChat, Shape
<1>3. ASSUME NEW g \in Groups, ChatSend(g) \/ ConfirmLeave(g)
      PROVE  Shape' /\ UNCHANGED <<world, session, pc, stream, deferred, leaveVars, emitters, queue,
                                   syncing, seen, active>>
             /\ chats' \subseteq chats
  <2>1. ASSUME NEW k \in {"send", "leave"}, QueueCommand(k, g)
        PROVE  commands' \in Seq(Commands)
    <3>1. [kind |-> k, group |-> g] \in Commands
      BY Zenon DEF Commands
    <3> DEFINE c == [kind |-> k, group |-> g]
    <3>2. commands' = Append(commands, c) /\ commands \in Seq(Commands)
      BY <2>1, Zenon DEF QueueCommand, Shape
    <3> HIDE DEF c
    <3> QED BY <3>1, <3>2 DEF c
  <2>2. commands' \in Seq(Commands)
    BY <1>3, <2>1, Zenon DEF ChatSend, ConfirmLeave, Shape
  <2> QED BY <1>3, <2>2 DEF ChatSend, ConfirmLeave, Shape
<1> QED BY <1>1, <1>2, <1>3, Zenon DEF User

(* Signal and the receive driver.                                            *)
LEMMA ShapeSignal ==
    ASSUME Shape, Signal
    PROVE  /\ Shape'
           /\ UNCHANGED <<session, pc, deferred, leaveVars, emitters, queue, roster>>
<1> USE DEF world, session, input, leaveVars, emitters, roster
<1>1. ASSUME NEW g \in Groups, MembershipChange(g)
      PROVE  Shape' /\ UNCHANGED <<session, pc, deferred, leaveVars, emitters, queue, roster>>
  BY <1>1, Zenon DEF MembershipChange, Shape
<1>2. ASSUME NEW g \in Groups, ContentArrives(g)
      PROVE  Shape' /\ UNCHANGED <<session, pc, deferred, leaveVars, emitters, queue, roster>>
  BY <1>2 DEF ContentArrives, Shape
<1>3. CASE QueueEmptyArrives
  BY <1>3 DEF QueueEmptyArrives, Shape
<1> QED BY <1>1, <1>2, <1>3, Zenon DEF Signal


(* The actor and the task.                                                    *)
LEMMA ShapeActor ==
    ASSUME Shape, Phases, Actor
    PROVE  Shape' /\ Phases' /\ UNCHANGED roster
<1> USE DEF world, session, input, leaveVars, emitters, roster
<1>0. /\ Event("recovering", NoGroup) \in Events /\ Event("ready", NoGroup) \in Events
      /\ Event("begin", NoGroup) \in Events
      /\ \A k \in {"group", "message", "left", "error"}, g \in Groups : Event(k, g) \in Events
      /\ queue \in Seq(Events)
      /\ \A e \in Events : Append(queue, e) \in Seq(Events)
  BY EventFacts, AppendPlaces, Zenon DEF Shape
<1>1. CASE ReceiveStarted
  <2>1. UNCHANGED roster
    BY <1>1, Zenon DEF ReceiveStarted
  <2>2. Shape'
    BY <1>1, Zenon DEF ReceiveStarted, Shape, Places
  <2>3. Phases'
    BY <1>1, Zenon DEF ReceiveStarted, Phases, Authoritative
  <2> QED BY <2>1, <2>2, <2>3, Zenon
<1>2. CASE ReceiveStartFails
  <2>1. queue' \in Seq(Events)
    BY <1>0, <1>2, Zenon DEF ReceiveStartFails, EnterRecovery, Emit
  <2> QED BY <1>2, <2>1, Zenon DEF ReceiveStartFails, EnterRecovery, Shape, Phases, Authoritative, Places
<1>3. CASE DeferCommand
  <2>1. commands' \in Seq(Commands) /\ deferred' \in Seq(Commands)
    <3>1. Head(commands) \in Commands /\ Tail(commands) \in Seq(Commands)
          /\ deferred \in Seq(Commands)
      BY <1>3, QueueFacts, Zenon DEF DeferCommand, Shape
    <3> QED BY <1>3, <3>1 DEF DeferCommand, Defer
  <2> QED BY <1>3, <2>1, Zenon DEF DeferCommand, Shape, Phases, Authoritative
<1>4. CASE StartupSnapshot
  <2>1. CASE SnapshotBegin("actor", StartupAuthority) /\ pc' = "snapshot"
    <3>1. /\ snap' \in [Emitters -> SnapRecord]
          /\ snap'["actor"].on /\ snap'["actor"].auth = FALSE
          /\ snap'["task"] = snap["task"]
          /\ queue' = Append(queue, Event("begin", NoGroup))
      BY <2>1, BeginEffect, Zenon DEF StartupAuthority, Emitters
    <3>2. queue' \in Seq(Events)
      BY <1>0, <3>1, Zenon
    <3> QED BY <1>4, <2>1, <3>1, <3>2, Zenon DEF StartupSnapshot, Shape, Phases, Authoritative, Places
  <2>2. CASE UNCHANGED <<snap, queue>> /\ pc' = "announce"
    BY <1>4, <2>2, Zenon DEF StartupSnapshot, Shape, Phases, Authoritative, Places
  <2> QED BY <1>4, <2>1, <2>2 DEF StartupSnapshot
<1>5. CASE SnapshotGroup("actor")
  <2>1. /\ snap' \in [Emitters -> SnapRecord]
        /\ snap'["actor"].on = snap["actor"].on /\ snap'["actor"].auth = snap["actor"].auth
        /\ snap'["task"] = snap["task"]
        /\ \E g \in snap["actor"].todo : queue' = queue \/ queue' = Append(queue, Event("group", g))
    BY <1>5, GroupEffect, Zenon DEF Emitters
  <2>2. snap["actor"].todo \subseteq Groups
    BY Zenon DEF Shape, Emitters, SnapRecord
  <2>3. queue' \in Seq(Events)
    BY <1>0, <2>1, <2>2, Zenon
  <2> QED BY <1>5, <2>1, <2>3, Zenon DEF SnapshotGroup, Shape, Phases, Authoritative
<1>6. CASE ActorSnapshotEnd
  <2>1. /\ snap' \in [Emitters -> SnapRecord]
        /\ ~ snap'["actor"].on /\ snap'["task"] = snap["task"]
        /\ \E x \in Events : queue' = Append(queue, x)
    BY <1>6, EndEffect, Zenon DEF ActorSnapshotEnd, Emitters
  <2>2. queue' \in Seq(Events)
    BY <1>0, <2>1, Zenon
  <2> QED BY <1>6, <2>1, <2>2, Zenon DEF ActorSnapshotEnd, Shape, Phases, Authoritative, Places
<1>7. CASE AnnounceReady
  <2>1. queue' \in Seq(Events)
    BY <1>0, <1>7, Zenon DEF AnnounceReady, Emit
  <2> QED BY <1>7, <2>1, Zenon DEF AnnounceReady, Shape, Phases, Authoritative, Places
<1>8. CASE ReceiveContent
  <2>1. stream' \in Seq(Groups \cup {"empty"})
    BY <1>8, QueueFacts, Zenon DEF ReceiveContent
  <2> QED BY <1>8, <2>1, Zenon DEF ReceiveContent, NoteGroupContent, Shape, Phases, Authoritative
<1>9. CASE ReceiveQueueEmpty
  <2>1. stream' \in Seq(Groups \cup {"empty"})
    BY <1>9, QueueFacts, Zenon DEF ReceiveQueueEmpty
  <2>2. CASE groups = "dirty" /\ SnapshotBegin("actor", TRUE) /\ pc' = "snapshot" /\ UNCHANGED groups
    <3>1. /\ snap' \in [Emitters -> SnapRecord]
          /\ snap'["actor"].on /\ snap'["actor"].auth = TRUE
          /\ snap'["task"] = snap["task"]
          /\ queue' = Append(queue, Event("begin", NoGroup))
      BY <2>2, BeginEffect, Zenon DEF Emitters
    <3>2. queue' \in Seq(Events)
      BY <1>0, <3>1, Zenon
    <3> QED BY <1>9, <2>1, <2>2, <3>1, <3>2, Zenon
            DEF ReceiveQueueEmpty, Shape, Phases, Authoritative, Places
  <2>3. CASE groups = "dirty" /\ groups' = "pending" /\ UNCHANGED <<snap, queue, pc, missed>>
    BY <1>9, <2>1, <2>3, Zenon DEF ReceiveQueueEmpty, Shape, Phases, Authoritative
  <2>4. CASE groups # "dirty" /\ UNCHANGED <<groups, snap, queue, pc, missed>>
    BY <1>9, <2>1, <2>4, Zenon DEF ReceiveQueueEmpty, Shape, Phases, Authoritative
  <2> QED BY <1>9, <2>2, <2>3, <2>4, Zenon DEF ReceiveQueueEmpty
<1>10. CASE ProjectContent
  <2>1. queue' \in Seq(Events)
    <3>1. CASE Head(replay) \in cached \ departed /\ Emit(Event("message", Head(replay)))
      <4>1. Head(replay) \in Groups
        BY <3>1, Zenon DEF Shape
      <4> QED BY <1>0, <3>1, <4>1, Zenon DEF Emit
    <3>2. CASE UNCHANGED queue
      BY <1>0, <3>2, Zenon
    <3> QED BY <1>10, <3>1, <3>2 DEF ProjectContent
  <2> QED BY <1>10, <2>1, Zenon DEF ProjectContent, Shape, Phases, Authoritative
<1>11. CASE LoseConnection
  <2>1. queue' \in Seq(Events)
    BY <1>0, <1>11, Zenon DEF LoseConnection, EnterRecovery, Emit
  <2>2. /\ snap' \in [Emitters -> SnapRecord]
        /\ ~ snap'["task"].on /\ snap'["actor"] = snap["actor"]
    <3>1. NoSnap \in SnapRecord /\ ~ NoSnap.on
      BY Zenon DEF NoSnap, SnapRecord
    <3> QED BY <1>11, <3>1, Zenon DEF LoseConnection, Shape, Emitters
  <2>3. stream' \in Seq(Groups \cup {"empty"})
    BY <1>11 DEF LoseConnection
  <2> QED BY <1>11, <2>1, <2>2, <2>3, Zenon
          DEF LoseConnection, EnterRecovery, Shape, Phases, Authoritative, Places
<1>12. CASE HandleSend
  <2>1. deferred' \in Seq(Commands) /\ commands' \in Seq(Commands) /\ NextCommand.group \in Groups
    BY <1>12, PopFacts, Zenon DEF HandleSend
  <2>2. queue' \in Seq(Events)
    BY <1>0, <1>12, <2>1, Zenon DEF HandleSend, Emit
  <2> QED BY <1>12, <2>1, <2>2, Zenon DEF HandleSend, Shape, Phases, Authoritative
<1>13. CASE HandleLeave
  <2>1. deferred' \in Seq(Commands) /\ commands' \in Seq(Commands) /\ NextCommand.group \in Groups
    BY <1>13, PopFacts, Zenon DEF HandleLeave
  <2>2. queue' \in Seq(Events)
    BY <1>0, <1>13, <2>1, Zenon DEF HandleLeave, Emit
  <2>3. CASE Authoritative
    BY <1>13, <2>1, <2>2, <2>3, Zenon DEF HandleLeave, Shape, Phases, Authoritative, Places
  <2>4. CASE ~ Authoritative
    BY <1>13, <2>1, <2>2, <2>4, Zenon DEF HandleLeave, Shape, Phases, Authoritative, Places
  <2> QED BY <2>3, <2>4, Zenon
<1>14. CASE LeaveAccepted
  <2>1. command \in Groups
    BY <1>14, Zenon DEF LeaveAccepted, Shape
  <2>2. queue' \in Seq(Events)
    BY <1>0, <1>14, <2>1, Zenon DEF LeaveAccepted, Emit
  <2> QED BY <1>14, <2>1, <2>2, Zenon DEF LeaveAccepted, Shape, Phases, Authoritative, Places
<1>15. CASE LeaveFails
  <2>1. command \in Groups
    BY <1>15, Zenon DEF LeaveFails, Shape
  <2>2. queue' \in Seq(Events)
    BY <1>0, <1>15, <2>1, Zenon DEF LeaveFails, Emit
  <2> QED BY <1>15, <2>1, <2>2, Zenon DEF LeaveFails, Shape, Phases, Authoritative, Places
<1>16. CASE GroupSyncDone
  BY <1>16, Zenon DEF GroupSyncDone, Shape, Phases, Authoritative
<1>17. CASE GroupSyncRetry
  BY <1>17, Zenon DEF GroupSyncRetry, Shape, Phases, Authoritative
<1> QED BY <1>1, <1>2, <1>3, <1>4, <1>5, <1>6, <1>7, <1>8, <1>9, <1>10, <1>11, <1>12, <1>13, <1>14,
           <1>15, <1>16, <1>17, Zenon DEF Actor, HandleCommand

(* The group synchronization task.                                           *)
LEMMA ShapeTask ==
    ASSUME Shape, Phases, Task
    PROVE  Shape' /\ Phases' /\ UNCHANGED roster
<1> USE DEF world, session, input, leaveVars, emitters, roster
<1>0. /\ Event("begin", NoGroup) \in Events
      /\ \A g \in Groups : Event("group", g) \in Events
      /\ \A e \in Events : Append(queue, e) \in Seq(Events)
  BY EventFacts, AppendPlaces, Zenon DEF Shape
<1>1. CASE TaskRefresh
  BY <1>1, Zenon DEF TaskRefresh, Shape, Phases, Authoritative
<1>2. CASE TaskSnapshot
  <2>1. CASE SnapshotBegin("task", TRUE) /\ task' = "emitting"
    <3>1. /\ snap' \in [Emitters -> SnapRecord]
          /\ snap'["task"].on /\ snap'["task"].auth = TRUE
          /\ snap'["actor"] = snap["actor"]
          /\ queue' = Append(queue, Event("begin", NoGroup))
      BY <2>1, BeginEffect, Zenon DEF Emitters
    <3>2. queue' \in Seq(Events)
      BY <1>0, <3>1, Zenon
    <3> QED BY <1>2, <2>1, <3>1, <3>2, Zenon DEF TaskSnapshot, Shape, Phases, Authoritative
  <2>2. CASE task' = "failed" /\ UNCHANGED <<snap, queue, missed>>
    BY <1>2, <2>2, Zenon DEF TaskSnapshot, Shape, Phases, Authoritative
  <2> QED BY <1>2, <2>1, <2>2, Zenon DEF TaskSnapshot
<1>3. CASE SnapshotGroup("task")
  <2>1. /\ snap' \in [Emitters -> SnapRecord]
        /\ snap'["task"].on = snap["task"].on /\ snap'["task"].auth = snap["task"].auth
        /\ snap'["actor"] = snap["actor"]
        /\ \E g \in snap["task"].todo : queue' = queue \/ queue' = Append(queue, Event("group", g))
    BY <1>3, GroupEffect, Zenon DEF Emitters
  <2>2. snap["task"].todo \subseteq Groups
    BY Zenon DEF Shape, Emitters, SnapRecord
  <2>3. queue' \in Seq(Events)
    BY <1>0, <2>1, <2>2, Zenon DEF Shape
  <2> QED BY <1>3, <2>1, <2>3, Zenon DEF SnapshotGroup, Shape, Phases, Authoritative
<1>4. CASE TaskSnapshotEnd
  <2>1. /\ snap' \in [Emitters -> SnapRecord]
        /\ ~ snap'["task"].on /\ snap'["actor"] = snap["actor"]
        /\ \E x \in Events : queue' = Append(queue, x)
    BY <1>4, EndEffect, Zenon DEF TaskSnapshotEnd, Emitters
  <2>2. queue' \in Seq(Events)
    BY <1>0, <2>1, Zenon
  <2> QED BY <1>4, <2>1, <2>2, Zenon DEF TaskSnapshotEnd, Shape, Phases, Authoritative
<1> QED BY <1>1, <1>2, <1>3, <1>4, Zenon DEF Task


-----------------------------------------------------------------------------
(* Snapshots are whole.                                                       *)

(* The queue is left alone.                                                   *)
LEMMA QueueSame ==
    ASSUME WholeQueue, UNCHANGED <<queue, syncing, seen>>
    PROVE  /\ WholeQueue' /\ (EndOpen' <=> EndOpen)
           /\ \A g \in Groups : EndGot(g)' <=> EndGot(g)
  BY Zenon DEF WholeQueue, EndOpen, EndGot, AtEnd

(* One event more.                                                            *)
LEMMA QueueAppend ==
    ASSUME Shape, WholeQueue, NEW e \in Events, queue' = Append(queue, e),
           UNCHANGED <<syncing, seen>>,
           e.kind = "end" => EndOpen /\ \A g \in Groups : EndGot(g) <=> g \in e.sent,
           e.kind = "left" => ~ EndOpen,
           e.kind = "group" => EndOpen
    PROVE  /\ WholeQueue'
           /\ e.kind = "begin" => EndOpen' /\ \A g \in Groups : ~ EndGot(g)'
           /\ e.kind = "end" => ~ EndOpen'
           /\ ~ Mark(e) => (EndOpen' <=> EndOpen)
           /\ \A g \in Groups :
                /\ e.kind = "group" /\ e.group = g => EndGot(g)'
                /\ ~ Mark(e) /\ (e.kind # "group" \/ e.group # g) => (EndGot(g)' <=> EndGot(g))
<1>1. queue \in Seq(Events)
  BY Zenon DEF Shape
<1>2. /\ Len(queue) \in Nat /\ DOMAIN queue = 1 .. Len(queue)
      /\ \A i \in DOMAIN queue : queue'[i] = queue[i]
      /\ queue'[AtEnd] = e
      /\ \A i \in DOMAIN queue' : i \in DOMAIN queue \/ i = AtEnd
      /\ \A i \in DOMAIN queue : i \in 1 .. AtEnd
      /\ AtEnd \in 1 .. AtEnd
  BY <1>1, AppendPlaces DEF AtEnd
<1>3. \A i \in 1 .. AtEnd :
        /\ Opened(queue', syncing', i) <=> Opened(queue, syncing, i)
        /\ \A g : Collected(queue', seen', i, g) <=> Collected(queue, seen, i, g)
  BY <1>1, OpenedBefore, Zenon DEF AtEnd
<1>4. /\ e.kind = "begin" => EndOpen'
      /\ e.kind = "end" => ~ EndOpen'
      /\ ~ Mark(e) => (EndOpen' <=> EndOpen)
      /\ Mark(e) => \A g \in Groups : ~ EndGot(g)'
      /\ \A g \in Groups :
           /\ e.kind = "group" /\ e.group = g => EndGot(g)'
           /\ ~ Mark(e) /\ (e.kind # "group" \/ e.group # g) => (EndGot(g)' <=> EndGot(g))
  <2> DEFINE q == queue'
             n == Len(q) + 1
  <2>0. q = Append(queue, e) /\ n = Len(q) + 1
    BY Zenon
  <2> HIDE DEF q, n
  <2>1. /\ e.kind = "begin" => \A on : Opened(q, on, n)
        /\ e.kind = "end" => \A on : ~ Opened(q, on, n)
        /\ ~ Mark(e) => \A on : Opened(q, on, n) <=> Opened(queue, on, Len(queue) + 1)
        /\ Mark(e) => \A got, g : ~ Collected(q, got, n, g)
        /\ e.kind = "group" => \A got : Collected(q, got, n, e.group)
        /\ \A g : ~ Mark(e) /\ (e.kind # "group" \/ e.group # g) =>
             \A got : Collected(q, got, n, g) <=> Collected(queue, got, Len(queue) + 1, g)
    <3>1. Behind(queue, e, q, n)
      BY <1>1, <2>0, OpenedBehind, Zenon
    <3> QED BY <3>1, Zenon DEF Behind
  <2>2. (EndOpen' <=> Opened(q, syncing, n)) /\ \A g \in Groups : EndGot(g)' <=> Collected(q, seen, n, g)
    BY Zenon DEF EndOpen, EndGot, AtEnd, q, n
  <2>3. (EndOpen <=> Opened(queue, syncing, Len(queue) + 1))
        /\ \A g \in Groups : EndGot(g) <=> Collected(queue, seen, Len(queue) + 1, g)
    BY Zenon DEF EndOpen, EndGot, AtEnd
  <2> HIDE DEF EndOpen, EndGot
  <2> QED BY <2>1, <2>2, <2>3, Zenon
<1>5. ~ syncing' => seen' = {}
  BY Zenon DEF WholeQueue
<1>6. ASSUME NEW i \in DOMAIN queue'
      PROVE  /\ queue'[i].kind = "end" =>
                  /\ Opened(queue', syncing', i)
                  /\ \A g \in Groups : Collected(queue', seen', i, g) <=> g \in queue'[i].sent
             /\ queue'[i].kind = "left" => ~ Opened(queue', syncing', i)
             /\ queue'[i].kind = "group" => Opened(queue', syncing', i)
  <2>1. CASE i \in DOMAIN queue
    BY <1>2, <1>3, <2>1, ZenonT(30) DEF WholeQueue
  <2>2. CASE i = AtEnd
    BY <1>2, <1>3, <2>2, Zenon DEF EndOpen, EndGot
  <2> QED BY <1>2, <2>1, <2>2, ZenonT(30)
<1>7. WholeQueue'
  BY <1>5, <1>6, Zenon DEF WholeQueue
<1>8. e.kind = "begin" => Mark(e)
  BY Zenon DEF Mark
<1> QED BY <1>4, <1>7, <1>8, Zenon

(* The adapter handles the first event.                                       *)
LEMMA QueuePoll ==
    ASSUME Shape, WholeQueue, queue # <<>>, queue' = Tail(queue),
           Head(queue).kind = "begin" => syncing',
           Head(queue).kind = "end" => ~ syncing',
           ~ Mark(Head(queue)) => (syncing' <=> syncing),
           ~ syncing' => seen' = {},
           \A g \in Groups :
             /\ Mark(Head(queue)) => g \notin seen'
             /\ Head(queue).kind = "group" /\ Head(queue).group = g => g \in seen'
             /\ ~ Mark(Head(queue)) /\ (Head(queue).kind # "group" \/ Head(queue).group # g)
                  => (g \in seen' <=> g \in seen)
    PROVE  /\ WholeQueue' /\ (EndOpen' <=> EndOpen)
           /\ \A g \in Groups : EndGot(g)' <=> EndGot(g)
<1>1. queue \in Seq(Events)
  BY Zenon DEF Shape
<1>2. /\ Len(queue') = Len(queue) - 1 /\ Len(queue) \in Nat \ {0} /\ Len(queue') \in Nat
      /\ \A i \in DOMAIN queue' : /\ i + 1 \in DOMAIN queue /\ queue[i + 1] = queue'[i]
                                  /\ i \in 1 .. Len(queue)
  BY <1>1, TailPlaces
<1>3. \A n \in 1 .. Len(queue) :
        /\ Opened(queue', syncing', n) <=> Opened(queue, syncing, n + 1)
        /\ \A g \in Groups : Collected(queue', seen', n, g) <=> Collected(queue, seen, n + 1, g)
  <2> SUFFICES ASSUME NEW n \in 1 .. Len(queue)
               PROVE  /\ Opened(queue', syncing', n) <=> Opened(queue, syncing, n + 1)
                      /\ \A g \in Groups : Collected(queue', seen', n, g)
                                             <=> Collected(queue, seen, n + 1, g)
    BY Zenon
  <2> DEFINE t == queue'
             on1 == syncing'
             got1 == seen'
  <2>1. /\ t = Tail(queue)
        /\ Head(queue).kind = "begin" => on1
        /\ Head(queue).kind = "end" => ~ on1
        /\ ~ Mark(Head(queue)) => (on1 <=> syncing)
        /\ \A g \in Groups :
             /\ Mark(Head(queue)) => g \notin got1
             /\ Head(queue).kind = "group" /\ Head(queue).group = g => g \in got1
             /\ ~ Mark(Head(queue)) /\ (Head(queue).kind # "group" \/ Head(queue).group # g)
                  => (g \in got1 <=> g \in seen)
    BY Zenon
  <2> HIDE DEF t, on1, got1
  <2>2. /\ Opened(t, on1, n) <=> Opened(queue, syncing, n + 1)
        /\ \A g : (/\ Mark(Head(queue)) => g \notin got1
                   /\ Head(queue).kind = "group" /\ Head(queue).group = g => g \in got1
                   /\ ~ Mark(Head(queue)) /\ (Head(queue).kind # "group" \/ Head(queue).group # g)
                        => (g \in got1 <=> g \in seen))
                  => (Collected(t, got1, n, g) <=> Collected(queue, seen, n + 1, g))
    <3>1. Handled(queue, t, n, syncing, on1, seen, got1)
      BY <1>1, <2>1, OpenedTail, Zenon
    <3> QED BY <3>1, Zenon DEF Handled
  <2>3. /\ Opened(t, on1, n) <=> Opened(queue, syncing, n + 1)
        /\ \A g \in Groups : Collected(t, got1, n, g) <=> Collected(queue, seen, n + 1, g)
    BY <2>1, <2>2, Zenon
  <2> QED BY <2>3, Zenon DEF t, on1, got1
<1>4. ASSUME NEW i \in DOMAIN queue'
      PROVE  /\ queue'[i].kind = "end" =>
                  /\ Opened(queue', syncing', i)
                  /\ \A g \in Groups : Collected(queue', seen', i, g) <=> g \in queue'[i].sent
             /\ queue'[i].kind = "left" => ~ Opened(queue', syncing', i)
             /\ queue'[i].kind = "group" => Opened(queue', syncing', i)
  BY <1>2, <1>3, Zenon DEF WholeQueue
<1>5. WholeQueue'
  BY <1>4, Zenon DEF WholeQueue
<1>6. AtEnd' \in 1 .. Len(queue) /\ AtEnd' + 1 = AtEnd
  BY <1>2 DEF AtEnd
<1>7. (EndOpen' <=> EndOpen) /\ \A g \in Groups : EndGot(g)' <=> EndGot(g)
  BY <1>3, <1>6, Zenon DEF EndOpen, EndGot
<1> QED BY <1>5, <1>7, ZenonT(30)


(* What the adapter is in when an event comes up.                             *)
LEMMA HeadFacts ==
    ASSUME Shape, WholeQueue, queue # <<>>
    PROVE  /\ Head(queue) \in Events
           /\ Head(queue).kind = "end" => syncing /\ seen = Head(queue).sent
           /\ Head(queue).kind = "left" => ~ syncing /\ seen = {}
           /\ Head(queue).kind = "group" => syncing
<1> DEFINE h == Head(queue)
<1>1. 1 \in DOMAIN queue /\ h = queue[1] /\ h \in Events /\ \A j \in DOMAIN queue : ~ (j < 1)
  <2>1. queue \in Seq(Events)
    BY Zenon DEF Shape
  <2> QED BY <2>1, TailPlaces
<1>2. /\ Opened(queue, syncing, 1) <=> syncing
      /\ \A g \in Groups : Collected(queue, seen, 1, g) <=> g \in seen
  BY <1>1, Zenon DEF Opened, Collected, NoMarks
<1>3. h.kind = "end" => h.sent \subseteq Groups
  BY <1>1, EventFacts, Zenon
<1>4. seen \subseteq Groups
  BY Zenon DEF Shape
<1> HIDE DEF h
<1>5. /\ h.kind = "end" => syncing /\ \A g \in Groups : g \in seen <=> g \in h.sent
      /\ h.kind = "left" => ~ syncing
      /\ h.kind = "group" => syncing
      /\ ~ syncing => seen = {}
  BY <1>1, <1>2, Zenon DEF WholeQueue
<1>6. h.kind = "end" => seen = h.sent
  BY <1>3, <1>4, <1>5, Zenon
<1> QED BY <1>1, <1>5, <1>6, Zenon DEF h

(* What handling an event does to the snapshot in progress and to the roster. *)
LEMMA PollEffect ==
    ASSUME Shape, WholeQueue, Poll
    PROVE  /\ Head(queue).kind = "begin" => syncing'
           /\ Head(queue).kind = "end" => ~ syncing'
           /\ ~ Mark(Head(queue)) => (syncing' <=> syncing)
           /\ ~ syncing' => seen' = {}
           /\ \A g \in Groups :
                /\ Mark(Head(queue)) => g \notin seen'
                /\ Head(queue).kind = "group" /\ Head(queue).group = g => g \in seen'
                /\ ~ Mark(Head(queue)) /\ (Head(queue).kind # "group" \/ Head(queue).group # g)
                     => (g \in seen' <=> g \in seen)
                /\ g \in active' <=> \/ Adds(Head(queue), g)
                                     \/ g \in active /\ ~ Drops(Head(queue), g)
<1> DEFINE h == Head(queue)
<1>1. queue # <<>>
  BY ShapePoll, Zenon
<1>2. /\ h \in Events
      /\ h.kind = "end" => syncing /\ seen = h.sent
      /\ h.kind = "left" => ~ syncing /\ seen = {}
      /\ h.kind = "group" => syncing
      /\ ~ syncing => seen = {}
  BY <1>1, HeadFacts, Zenon DEF WholeQueue
<1>3. CASE PollGroupBegin
  <2>1. h.kind = "begin" /\ syncing' /\ seen' = {} /\ active' = active
    BY <1>3, Zenon DEF PollGroupBegin, SeenAtBegin, Polls
  <2> HIDE DEF h
  <2> QED BY <2>1, Zenon DEF Mark, Adds, Drops, h
<1>4. CASE PollGroup
  <2>1. /\ h.kind = "group" /\ syncing' = syncing /\ seen' = seen \cup {h.group}
        /\ active' = active
    BY <1>2, <1>4, Zenon DEF PollGroup, Polls
  <2> HIDE DEF h
  <2> QED BY <1>2, <2>1, Zenon DEF Mark, Adds, Drops, h
<1>5. CASE PollPreliminaryEnd
  <2>1. h.kind = "end" /\ ~ h.auth /\ ~ syncing' /\ seen' = {} /\ active' = active \cup h.sent
    BY <1>2, <1>5, Zenon DEF PollPreliminaryEnd, Polls
  <2> HIDE DEF h
  <2> QED BY <2>1, Zenon DEF Mark, Adds, Drops, h
<1>6. CASE PollAuthoritativeEnd
  <2>1. h.kind = "end" /\ h.auth /\ ~ syncing' /\ seen' = {} /\ active' = h.sent
    BY <1>2, <1>6, Zenon DEF PollAuthoritativeEnd, Polls
  <2> HIDE DEF h
  <2> QED BY <2>1, Zenon DEF Mark, Adds, Drops, h
<1>7. CASE PollReady \/ PollRecovering \/ PollGroupError
  <2>1. /\ h.kind \in {"ready", "recovering", "error"} /\ syncing' = syncing /\ seen' = seen
        /\ active' = active
    BY <1>7, Zenon DEF PollReady, PollRecovering, PollGroupError, Polls
  <2> HIDE DEF h
  <2> QED BY <1>2, <2>1, Zenon DEF Mark, Adds, Drops, h
<1>8. CASE PollMessage
  <2>1. /\ h.kind = "message" /\ syncing' = syncing /\ seen' = seen
        /\ active' = active \cup {h.group}
    BY <1>8, Zenon DEF PollMessage, Polls
  <2> HIDE DEF h
  <2> QED BY <1>2, <2>1, Zenon DEF Mark, Adds, Drops, h
<1>9. CASE PollLeft
  <2>1. /\ h.kind = "left" /\ syncing' = syncing /\ seen' = seen
        /\ active' = active \ {h.group}
    BY <1>9, Zenon DEF PollLeft, Polls
  <2> HIDE DEF h
  <2> QED BY <1>2, <2>1, Zenon DEF Mark, Adds, Drops, h
<1> QED BY <1>3, <1>4, <1>5, <1>6, <1>7, <1>8, <1>9, Zenon DEF Poll

(* Snapshots stay whole when the adapter handles an event,                   *)
LEMMA WholePoll ==
    ASSUME Shape, WholeQueue, WholeEnd, Poll
    PROVE  WholeQueue' /\ WholeEnd'
<1>1. queue # <<>> /\ queue' = Tail(queue) /\ UNCHANGED core
  BY ShapePoll, Zenon
<1>2. /\ WholeQueue' /\ (EndOpen' <=> EndOpen)
      /\ \A g \in Groups : EndGot(g)' <=> EndGot(g)
  BY <1>1, PollEffect, QueuePoll, Zenon
<1>3. snap' = snap /\ groups' = groups /\ pc' = pc /\ task' = task
  BY <1>1, Zenon DEF core, session, emitters
<1> QED BY <1>2, <1>3, Zenon DEF WholeEnd, Authoritative

(* when Signal, the user or the fallback timer takes a step,                 *)
LEMMA WholeStill ==
    ASSUME Shape, WholeQueue, WholeEnd, Signal \/ User \/ GroupSyncTimeout
    PROVE  WholeQueue' /\ WholeEnd'
<1>1. UNCHANGED <<queue, syncing, seen, snap, groups, pc, task>>
  BY ShapeSignal, ShapeUser, Zenon DEF session, emitters, roster
<1>2. /\ WholeQueue' /\ (EndOpen' <=> EndOpen)
      /\ \A g \in Groups : EndGot(g)' <=> EndGot(g)
  BY <1>1, QueueSame, Zenon
<1> QED BY <1>1, <1>2, Zenon DEF WholeEnd, Authoritative


(* An event that is no part of a snapshot.                                    *)
LEMMA QueuePlain ==
    ASSUME Shape, WholeQueue, UNCHANGED <<syncing, seen>>,
           \/ queue' = queue
           \/ \E e \in Events : /\ e.kind \in {"ready", "recovering", "message", "error"}
                                /\ queue' = Append(queue, e)
    PROVE  /\ WholeQueue' /\ (EndOpen' <=> EndOpen)
           /\ \A g \in Groups : EndGot(g)' <=> EndGot(g)
<1>1. CASE queue' = queue
  BY <1>1, QueueSame, Zenon
<1>2. ASSUME NEW e \in Events, e.kind \in {"ready", "recovering", "message", "error"},
             queue' = Append(queue, e)
      PROVE  /\ WholeQueue' /\ (EndOpen' <=> EndOpen)
             /\ \A g \in Groups : EndGot(g)' <=> EndGot(g)
  <2>1. ~ Mark(e) /\ e.kind # "group" /\ e.kind # "left" /\ e.kind # "end"
    BY <1>2, Zenon DEF Mark
  <2> QED BY <1>2, <2>1, QueueAppend, Zenon
<1> QED BY <1>1, <1>2, Zenon

(* The three steps of a snapshot.                                             *)
LEMMA WholeBegin ==
    ASSUME Shape, WholeQueue, WholeEnd, UNCHANGED <<syncing, seen>>,
           NEW e \in Emitters, NEW auth \in BOOLEAN, SnapshotBegin(e, auth),
           \A f \in Emitters : f # e => ~ snap[f].on
    PROVE  /\ WholeQueue' /\ EndOpen'
           /\ \A f \in Emitters : snap'[f].on =>
                EndOpen' /\ \A g \in Groups : EndGot(g)' <=> g \in snap'[f].sent
<1>1. /\ Event("begin", NoGroup) \in Events /\ Event("begin", NoGroup).kind = "begin"
      /\ queue' = Append(queue, Event("begin", NoGroup))
      /\ snap'[e].sent = {} /\ \A f \in Emitters : f # e => snap'[f] = snap[f]
  BY EventFacts, BeginEffect, SMTT(30)
<1>2. WholeQueue' /\ EndOpen' /\ \A g \in Groups : ~ EndGot(g)'
  BY <1>1, QueueAppend, ZenonT(30)
<1> QED BY <1>1, <1>2, Zenon

(* A record is collected by the snapshot that is open.                       *)
LEMMA WholeGroup ==
    ASSUME Shape, WholeQueue, WholeEnd, UNCHANGED <<syncing, seen>>,
           NEW e \in Emitters, SnapshotGroup(e),
           \A f \in Emitters : f # e => ~ snap[f].on
    PROVE  /\ WholeQueue' /\ EndOpen /\ EndOpen'
           /\ \A f \in Emitters : snap'[f].on =>
                EndOpen' /\ \A g \in Groups : EndGot(g)' <=> g \in snap'[f].sent
<1>1. PICK g \in snap[e].todo :
        /\ snap[e].on
        /\ \A f \in Emitters : f # e => snap'[f] = snap[f]
        /\ \/ Skipped(g) /\ snap'[e].sent = snap[e].sent /\ queue' = queue
           \/ /\ ~ Skipped(g) /\ snap'[e].sent = snap[e].sent \cup {g}
              /\ queue' = Append(queue, Event("group", g))
  BY GroupEffect, Zenon
<1>2. EndOpen /\ \A h \in Groups : EndGot(h) <=> h \in snap[e].sent
  BY <1>1, ZenonT(30) DEF WholeEnd
<1>3. CASE Skipped(g) /\ snap'[e].sent = snap[e].sent /\ queue' = queue
  <2>1. WholeQueue' /\ (EndOpen' <=> EndOpen) /\ \A h \in Groups : EndGot(h)' <=> EndGot(h)
    BY <1>3, QueueSame, Zenon
  <2> QED BY <1>1, <1>2, <1>3, <2>1, Zenon
<1>4. CASE snap'[e].sent = snap[e].sent \cup {g} /\ queue' = Append(queue, Event("group", g))
  <2>1. g \in Groups
    BY Zenon DEF Shape, SnapRecord
  <2> DEFINE x == Event("group", g)
  <2>2. x \in Events /\ x.kind = "group" /\ x.group = g
    BY <2>1, EventFacts, Zenon
  <2> HIDE DEF x
  <2>3. ~ Mark(x) /\ queue' = Append(queue, x)
    BY <1>4, <2>2, Zenon DEF Mark, x
  <2>4. /\ WholeQueue' /\ EndOpen'
        /\ \A h \in Groups : /\ h = g => EndGot(h)'
                             /\ h # g => (EndGot(h)' <=> EndGot(h))
    BY <1>2, <2>2, <2>3, QueueAppend, Zenon
  <2> QED BY <1>1, <1>2, <1>4, <2>1, <2>4, Zenon
<1> QED BY <1>1, <1>3, <1>4, Zenon

(* The end mark carries what was collected.                                  *)
LEMMA WholeClose ==
    ASSUME Shape, WholeQueue, WholeEnd, UNCHANGED <<syncing, seen>>,
           NEW e \in Emitters, SnapshotEnd(e),
           \A f \in Emitters : f # e => ~ snap[f].on
    PROVE  /\ WholeQueue' /\ ~ EndOpen'
           /\ \A f \in Emitters : ~ snap'[f].on
<1>1. PICK x \in Events :
        /\ snap[e].on /\ ~ snap'[e].on
        /\ \A f \in Emitters : f # e => snap'[f] = snap[f]
        /\ x.kind = "end" /\ x.sent = snap[e].sent
        /\ queue' = Append(queue, x)
  BY EndEffect, Zenon
<1>2. EndOpen /\ \A h \in Groups : EndGot(h) <=> h \in x.sent
  BY <1>1, Zenon DEF WholeEnd
<1>3. WholeQueue' /\ ~ EndOpen'
  BY <1>1, <1>2, QueueAppend, Zenon
<1> QED BY <1>1, <1>3, Zenon


(* The actor's steps outside snapshots and accepted leaves.                   *)
Quiet ==
    \/ ReceiveStarted \/ ReceiveStartFails \/ DeferCommand \/ AnnounceReady
    \/ ReceiveContent \/ ProjectContent \/ LoseConnection \/ HandleSend \/ HandleLeave \/ LeaveFails
    \/ GroupSyncDone \/ GroupSyncRetry

(* What they emit: a message only of a group that is on the store's list and  *)
(* was not left.                                                              *)
PlainEvent(e) ==
    \/ e.kind \in {"ready", "recovering", "error"}
    \/ /\ e.kind = "message" /\ e.group \in cached \ departed
       /\ ProjectContent

(* These steps emit no part of a snapshot and no GROUP_LEFT.                 *)
LEMMA QuietEvents ==
    ASSUME Shape, Quiet
    PROVE  /\ queue' = queue \/ \E e \in Events : PlainEvent(e) /\ queue' = Append(queue, e)
           /\ UNCHANGED <<member, cached, absent, departed, roster>>
<1> USE DEF world, leaveVars
<1>1. /\ Event("recovering", NoGroup) \in Events /\ Event("recovering", NoGroup).kind = "recovering"
      /\ Event("ready", NoGroup) \in Events /\ Event("ready", NoGroup).kind = "ready"
      /\ \A g \in Groups : /\ Event("error", g) \in Events /\ Event("error", g).kind = "error"
                           /\ Event("message", g) \in Events /\ Event("message", g).kind = "message"
                           /\ Event("message", g).group = g
  BY EventFacts
<1>2. CASE ReceiveStarted \/ DeferCommand \/ ReceiveContent \/ GroupSyncDone \/ GroupSyncRetry
  BY <1>2, Zenon DEF ReceiveStarted, DeferCommand, ReceiveContent, GroupSyncDone, GroupSyncRetry
<1>3. CASE ReceiveStartFails \/ LoseConnection
  BY <1>1, <1>3, Zenon DEF ReceiveStartFails, LoseConnection, EnterRecovery, Emit, PlainEvent
<1>4. CASE AnnounceReady
  BY <1>1, <1>4, Zenon DEF AnnounceReady, Emit, PlainEvent
<1>5. CASE ProjectContent
  <2>1. CASE Head(replay) \in cached \ departed /\ Emit(Event("message", Head(replay)))
    <3>1. Head(replay) \in Groups
      BY <2>1, Zenon DEF Shape
    <3>2. PlainEvent(Event("message", Head(replay)))
      BY <1>1, <1>5, <2>1, <3>1, Zenon DEF PlainEvent
    <3> QED BY <1>1, <1>5, <2>1, <3>1, <3>2, Zenon DEF ProjectContent, Emit
  <2>2. CASE UNCHANGED queue
    BY <1>5, <2>2, Zenon DEF ProjectContent
  <2> QED BY <1>5, <2>1, <2>2, Zenon DEF ProjectContent
<1>6. CASE HandleSend
  <2>1. NextCommand.group \in Groups
    BY <1>6, PopFacts, Zenon DEF HandleSend
  <2> QED BY <1>1, <1>6, <2>1, Zenon DEF HandleSend, Emit, PlainEvent
<1>7. CASE HandleLeave
  <2>1. NextCommand.group \in Groups
    BY <1>7, PopFacts, Zenon DEF HandleLeave
  <2> QED BY <1>1, <1>7, <2>1, Zenon DEF HandleLeave, Emit, PlainEvent
<1>8. CASE LeaveFails
  <2>1. command \in Groups
    BY <1>8, Zenon DEF LeaveFails, Shape
  <2> QED BY <1>1, <1>8, <2>1, Zenon DEF LeaveFails, Emit, PlainEvent
<1> QED BY <1>2, <1>3, <1>4, <1>5, <1>6, <1>7, <1>8, Zenon DEF Quiet

(* How they move the session and the task.                                    *)
LEMMA QuietMoves ==
    ASSUME Shape, Phases, Quiet
    PROVE  /\ \A f \in Emitters : snap'[f].on => snap'[f] = snap[f]
           /\ Authoritative' /\ pc' # "snapshot" =>
                (Authoritative /\ pc # "snapshot") \/ task = "ok"
           /\ task' = "ok" => task = "ok"
<1> USE DEF session, emitters
<1>1. CASE ReceiveStarted \/ ReceiveStartFails \/ AnnounceReady
  BY <1>1, Zenon DEF ReceiveStarted, ReceiveStartFails, AnnounceReady, EnterRecovery, Phases,
     Authoritative
<1>2. CASE DeferCommand \/ ProjectContent \/ HandleSend \/ GroupSyncRetry
  BY <1>2, Zenon DEF DeferCommand, ProjectContent, HandleSend, GroupSyncRetry, Authoritative
<1>3. CASE ReceiveContent \/ GroupSyncDone
  BY <1>3, Zenon DEF ReceiveContent, GroupSyncDone, NoteGroupContent, Authoritative
<1>4. CASE LoseConnection
  <2>1. ~ snap'["task"].on /\ snap'["actor"] = snap["actor"]
    <3>1. ~ NoSnap.on
      BY Zenon DEF NoSnap
    <3> QED BY <1>4, <3>1, Zenon DEF LoseConnection, Shape, Emitters
  <2> QED BY <1>4, <2>1, Zenon DEF LoseConnection, EnterRecovery, Authoritative, Emitters
<1>5. CASE HandleLeave \/ LeaveFails
  BY <1>5, Zenon DEF HandleLeave, LeaveFails, Phases, Authoritative
<1> QED BY <1>1, <1>2, <1>3, <1>4, <1>5, Zenon DEF Quiet

(* when the actor does,                                                      *)
LEMMA WholeActor ==
    ASSUME Shape, Phases, WholeQueue, WholeEnd, Actor
    PROVE  WholeQueue' /\ WholeEnd'
<1>1. Shape' /\ Phases' /\ UNCHANGED <<syncing, seen>>
  BY ShapeActor, Zenon DEF roster
<1>2. CASE Quiet
  <2>1. /\ WholeQueue' /\ (EndOpen' <=> EndOpen)
        /\ \A g \in Groups : EndGot(g)' <=> EndGot(g)
    <3>1. \/ queue' = queue
          \/ \E e \in Events : /\ e.kind \in {"ready", "recovering", "message", "error"}
                               /\ queue' = Append(queue, e)
      BY <1>2, QuietEvents, Zenon DEF PlainEvent
    <3> QED BY <1>1, <3>1, QueuePlain, Zenon
  <2> QED BY <1>2, <2>1, QuietMoves, Zenon DEF WholeEnd
<1>3. CASE StartupSnapshot
  <2>1. CASE SnapshotBegin("actor", StartupAuthority) /\ pc' = "snapshot"
    <3>1. task # "ok" /\ ~ snap["task"].on
      BY <1>3, Zenon DEF StartupSnapshot, Phases
    <3>2. /\ WholeQueue' /\ EndOpen'
          /\ \A f \in Emitters : snap'[f].on =>
               EndOpen' /\ \A g \in Groups : EndGot(g)' <=> g \in snap'[f].sent
      BY <1>1, <2>1, <3>1, WholeBegin, Zenon DEF StartupAuthority, Emitters
    <3>3. task' = task
      BY <1>3, Zenon DEF StartupSnapshot
    <3> QED BY <2>1, <3>1, <3>2, <3>3, Zenon DEF WholeEnd
  <2>2. CASE UNCHANGED <<snap, queue>> /\ pc' = "announce"
    <3>1. ~ Authoritative' /\ task' = task
      BY <1>1, <1>3, <2>2, Zenon DEF StartupSnapshot, Phases, Authoritative
    <3>2. /\ WholeQueue' /\ (EndOpen' <=> EndOpen)
          /\ \A g \in Groups : EndGot(g)' <=> EndGot(g)
      BY <1>1, <2>2, QueueSame, Zenon
    <3> QED BY <2>2, <3>1, <3>2, Zenon DEF WholeEnd
  <2> QED BY <1>3, <2>1, <2>2, Zenon DEF StartupSnapshot
<1>4. CASE SnapshotGroup("actor")
  <2>1. pc = "snapshot" /\ task # "ok" /\ ~ snap["task"].on
    BY <1>4, Zenon DEF SnapshotGroup, Phases
  <2>2. /\ WholeQueue' /\ EndOpen'
        /\ \A f \in Emitters : snap'[f].on =>
             EndOpen' /\ \A g \in Groups : EndGot(g)' <=> g \in snap'[f].sent
    BY <1>1, <1>4, <2>1, WholeGroup, Zenon DEF Emitters
  <2>3. pc' = pc /\ task' = task
    BY <1>4, Zenon DEF SnapshotGroup
  <2> QED BY <2>1, <2>2, <2>3, Zenon DEF WholeEnd
<1>5. CASE ActorSnapshotEnd
  <2>1. ~ snap["task"].on
    BY <1>5, Zenon DEF ActorSnapshotEnd, Phases
  <2>2. WholeQueue' /\ ~ EndOpen' /\ \A f \in Emitters : ~ snap'[f].on
    BY <1>1, <1>5, <2>1, WholeClose, Zenon DEF Emitters, ActorSnapshotEnd
  <2> QED BY <2>2, Zenon DEF WholeEnd
<1>6. CASE ReceiveQueueEmpty
  <2>1. CASE groups = "dirty" /\ SnapshotBegin("actor", TRUE) /\ pc' = "snapshot" /\ UNCHANGED groups
    <3>1. task = "none" /\ ~ snap["task"].on /\ Authoritative
      BY <2>1, Zenon DEF Phases, Authoritative
    <3>2. /\ WholeQueue' /\ EndOpen'
          /\ \A f \in Emitters : snap'[f].on =>
               EndOpen' /\ \A g \in Groups : EndGot(g)' <=> g \in snap'[f].sent
      BY <1>1, <2>1, <3>1, WholeBegin, Zenon DEF Emitters
    <3>3. task' = task
      BY <1>6, <3>1, Zenon DEF ReceiveQueueEmpty
    <3> QED BY <2>1, <3>1, <3>2, <3>3, Zenon DEF WholeEnd
  <2>2. CASE UNCHANGED <<snap, queue, pc, missed>> /\ groups' \in {groups, "pending"}
    <3>1. /\ WholeQueue' /\ (EndOpen' <=> EndOpen)
          /\ \A g \in Groups : EndGot(g)' <=> EndGot(g)
      BY <1>1, <2>2, QueueSame, Zenon
    <3>2. (Authoritative' => Authoritative) /\ (task' = "ok" => task = "ok")
      BY <1>6, <2>2, Zenon DEF ReceiveQueueEmpty, Authoritative
    <3> QED BY <2>2, <3>1, <3>2, Zenon DEF WholeEnd
  <2> QED BY <1>6, <2>1, <2>2, Zenon DEF ReceiveQueueEmpty
<1>7. CASE LeaveAccepted
  <2>1. Authoritative /\ pc = "leaving" /\ command \in Groups
    BY <1>7, Zenon DEF LeaveAccepted, Phases, Shape
  <2>2. ~ EndOpen
    BY <2>1, Zenon DEF WholeEnd
  <2> DEFINE x == Event("left", command)
  <2>3. x \in Events /\ x.kind = "left" /\ queue' = Append(queue, x)
    BY <1>7, <2>1, EventFacts DEF LeaveAccepted, Emit
  <2>4. ~ Mark(x) /\ x.kind # "group"
    BY <2>3, Zenon DEF Mark
  <2> HIDE DEF x
  <2>5. /\ WholeQueue' /\ (EndOpen' <=> EndOpen)
        /\ \A g \in Groups : EndGot(g)' <=> EndGot(g)
    BY <1>1, <2>2, <2>3, <2>4, QueueAppend, ZenonT(30)
  <2>6. snap' = snap /\ task' = task
    BY <1>7, Zenon DEF LeaveAccepted, emitters
  <2> QED BY <2>2, <2>5, <2>6, Zenon DEF WholeEnd
<1> QED BY <1>2, <1>3, <1>4, <1>5, <1>6, <1>7, Zenon DEF Actor, HandleCommand, Quiet

(* and when the task does.                                                   *)
LEMMA WholeTask ==
    ASSUME Shape, Phases, WholeQueue, WholeEnd, Task
    PROVE  WholeQueue' /\ WholeEnd'
<1> USE DEF session
<1>1. UNCHANGED <<syncing, seen>>
  BY ShapeTask, Zenon DEF roster
<1>2. groups = "pending" /\ groups' = groups /\ ~ Authoritative' /\ ~ snap["actor"].on
  BY Zenon DEF Task, TaskRefresh, TaskSnapshot, SnapshotGroup, TaskSnapshotEnd, Phases,
     Authoritative
<1>3. CASE task' \in {"reading", "failed"} /\ UNCHANGED <<snap, queue>>
  <2>1. /\ WholeQueue' /\ (EndOpen' <=> EndOpen)
        /\ \A g \in Groups : EndGot(g)' <=> EndGot(g)
    BY <1>1, <1>3, QueueSame, Zenon
  <2> QED BY <1>2, <1>3, <2>1, Zenon DEF WholeEnd
<1>4. CASE SnapshotBegin("task", TRUE) /\ task' = "emitting"
  <2>1. /\ WholeQueue' /\ EndOpen'
        /\ \A f \in Emitters : snap'[f].on =>
             EndOpen' /\ \A g \in Groups : EndGot(g)' <=> g \in snap'[f].sent
    BY <1>1, <1>2, <1>4, WholeBegin, Zenon DEF Emitters
  <2> QED BY <1>2, <1>4, <2>1, Zenon DEF WholeEnd
<1>5. CASE SnapshotGroup("task")
  <2>1. task' = task /\ task = "emitting"
    BY <1>5, Zenon DEF SnapshotGroup, Phases
  <2>2. /\ WholeQueue' /\ EndOpen'
        /\ \A f \in Emitters : snap'[f].on =>
             EndOpen' /\ \A g \in Groups : EndGot(g)' <=> g \in snap'[f].sent
    BY <1>1, <1>2, <1>5, WholeGroup, Zenon DEF Emitters
  <2> QED BY <1>2, <2>1, <2>2, Zenon DEF WholeEnd
<1>6. CASE TaskSnapshotEnd
  <2>1. WholeQueue' /\ ~ EndOpen' /\ \A f \in Emitters : ~ snap'[f].on
    BY <1>1, <1>2, <1>6, WholeClose, Zenon DEF Emitters, TaskSnapshotEnd
  <2> QED BY <2>1, Zenon DEF WholeEnd
<1> QED BY <1>3, <1>4, <1>5, <1>6, Zenon DEF Task, TaskRefresh, TaskSnapshot


-----------------------------------------------------------------------------
(* A group that was left stays gone.                                          *)

(* One event more: no record or message of a group that was left.             *)
LEMMA GoneAppend ==
    ASSUME Shape, Gone, NEW e \in Events, queue' = Append(queue, e), UNCHANGED roster,
           \A g \in departed' : g \in departed \/ e = Event("left", g),
           \A g \in departed : e # Event("group", g) /\ e # Event("message", g)
    PROVE  Gone'
<1> SUFFICES ASSUME NEW g \in departed'
             PROVE  /\ g \in active' \cup seen' \cup chats' =>
                         \E i \in DOMAIN queue' : queue'[i] = Event("left", g)
                    /\ \A i \in DOMAIN queue' :
                         queue'[i] \in {Event("group", g), Event("message", g)} =>
                           \E j \in DOMAIN queue' : i < j /\ queue'[j] = Event("left", g)
  BY Zenon DEF Gone
<1> DEFINE m == Len(queue) + 1
<1>1. /\ m \in DOMAIN queue' /\ queue'[m] = e
      /\ \A i \in DOMAIN queue : i \in DOMAIN queue' /\ queue'[i] = queue[i] /\ i < m
      /\ \A i \in DOMAIN queue' : i \in DOMAIN queue \/ i = m
  BY AppendPlaces DEF Shape
<1> HIDE DEF m
<1>2. active' = active /\ seen' = seen /\ chats' = chats
  BY Zenon DEF roster
<1>3. CASE e = Event("left", g)
  <2>1. e # Event("group", g) /\ e # Event("message", g)
    BY <1>3, Zenon DEF Event
  <2> QED BY <1>1, <1>3, <2>1, Zenon
<1>4. CASE g \in departed
  <2>1. e \notin {Event("group", g), Event("message", g)}
    BY <1>4, Zenon
  <2> QED BY <1>1, <1>2, <1>4, <2>1 DEF Gone
<1> QED BY <1>3, <1>4, Zenon

(* The adapter handles the first event.                                       *)
LEMMA GonePoll ==
    ASSUME Shape, WholeQueue, Gone, Poll
    PROVE  Gone'
<1> DEFINE h == Head(queue)
           shown == active \cup seen \cup chats
<1>1. queue # <<>> /\ queue' = Tail(queue) /\ UNCHANGED core
  BY ShapePoll, Zenon
<1>2. /\ h \in Events /\ (h.kind = "left" => seen = {})
      /\ h.kind \in {"group", "message", "left", "error"} => h = Event(h.kind, h.group)
  BY <1>1, HeadFacts, EventFacts, ZenonT(30)
<1>3. /\ \A g \in (active' \cup seen' \cup chats') \ shown :
           h = Event("group", g) \/ h = Event("message", g)
      /\ \A g : h = Event("left", g) => g \notin active' \cup seen' \cup chats'
  <2> USE DEF Polls
  <2>0. \A g : h = Event("left", g) => h.kind = "left" /\ h.group = g
    BY DEF Event
  <2>1. CASE PollGroupBegin
    <3>1. h.kind = "begin" /\ active' \cup seen' \cup chats' \subseteq shown
      BY <2>1, Zenon DEF PollGroupBegin, SeenAtBegin
    <3> QED BY <2>0, <3>1, Zenon
  <2>2. CASE PollGroup
    <3>1. h.kind = "group" /\ active' \cup seen' \cup chats' \subseteq shown \cup {h.group}
      BY <2>2, Zenon DEF PollGroup
    <3> QED BY <1>2, <2>0, <3>1, Zenon
  <2>3. CASE PollPreliminaryEnd \/ PollAuthoritativeEnd
    <3>1. h.kind = "end" /\ active' \cup seen' \cup chats' \subseteq shown
      BY <2>3, Zenon DEF PollPreliminaryEnd, PollAuthoritativeEnd
    <3> QED BY <2>0, <3>1, Zenon
  <2>4. CASE PollReady \/ PollRecovering \/ PollGroupError
    <3>1. h.kind # "left" /\ active' \cup seen' \cup chats' \subseteq shown
      BY <2>4, Zenon DEF PollReady, PollRecovering, PollGroupError
    <3> QED BY <2>0, <3>1, Zenon
  <2>5. CASE PollMessage
    <3>1. h.kind = "message" /\ active' \cup seen' \cup chats' \subseteq shown \cup {h.group}
      BY <2>5, Zenon DEF PollMessage
    <3> QED BY <1>2, <2>0, <3>1, ZenonT(30)
  <2>6. CASE PollLeft
    <3>1. /\ h.kind = "left" /\ active' \cup seen' \cup chats' \subseteq shown
          /\ h.group \notin active' \cup seen' \cup chats'
      BY <1>2, <2>6, Zenon DEF PollLeft
    <3> QED BY <2>0, <3>1, Zenon
  <2> QED BY <2>1, <2>2, <2>3, <2>4, <2>5, <2>6, Zenon DEF Poll
<1> SUFFICES ASSUME NEW g \in departed'
             PROVE  /\ g \in active' \cup seen' \cup chats' =>
                         \E i \in DOMAIN queue' : queue'[i] = Event("left", g)
                    /\ \A i \in DOMAIN queue' :
                         queue'[i] \in {Event("group", g), Event("message", g)} =>
                           \E j \in DOMAIN queue' : i < j /\ queue'[j] = Event("left", g)
  BY Zenon DEF Gone
<1>4. /\ \A i \in DOMAIN queue' : i + 1 \in DOMAIN queue /\ queue[i + 1] = queue'[i] /\ 1 < i + 1
      /\ \A i \in DOMAIN queue : i = 1 \/ (i - 1 \in DOMAIN queue' /\ queue[i] = queue'[i - 1] /\ 1 < i)
      /\ 1 \in DOMAIN queue /\ h = queue[1]
      /\ DOMAIN queue \subseteq Nat /\ DOMAIN queue' \subseteq Nat
  <2>1. queue \in Seq(Events)
    BY Zenon DEF Shape
  <2> HIDE DEF shown
  <2> QED BY <1>1, <2>1, TailPlaces
<1> HIDE DEF h
<1>5. g \in departed
  BY <1>1, Zenon DEF core, leaveVars
<1>6. ASSUME g \in active' \cup seen' \cup chats'
      PROVE  \E i \in DOMAIN queue' : queue'[i] = Event("left", g)
  <2>1. h # Event("left", g)
    BY <1>3, <1>6, Zenon
  <2>2. CASE g \in shown
    <3>1. PICK i \in DOMAIN queue : queue[i] = Event("left", g)
      BY <1>5, <2>2, Zenon DEF Gone
    <3> QED BY <1>4, <2>1, <3>1
  <2>3. CASE g \notin shown
    <3>1. PICK j \in DOMAIN queue : 1 < j /\ queue[j] = Event("left", g)
      BY <1>3, <1>4, <1>5, <1>6, <2>3, ZenonT(30) DEF Gone
    <3> QED BY <1>4, <3>1
  <2> QED BY <2>2, <2>3, Zenon
<1>7. ASSUME NEW i \in DOMAIN queue', queue'[i] \in {Event("group", g), Event("message", g)}
      PROVE  \E j \in DOMAIN queue' : i < j /\ queue'[j] = Event("left", g)
  <2>1. PICK j \in DOMAIN queue : i + 1 < j /\ queue[j] = Event("left", g)
    BY <1>4, <1>5, <1>7, Zenon DEF Gone
  <2>2. j # 1 /\ i < j - 1
    BY <1>4, <2>1
  <2> QED BY <1>4, <2>1, <2>2
<1> QED BY <1>6, <1>7, Zenon

(* Every step keeps groups that were left away.                              *)
LEMMA GoneStep ==
    ASSUME Shape, Phases, WholeQueue, Gone, Next
    PROVE  Gone'
<1>1. CASE Poll
  BY <1>1, GonePoll, Zenon
<1>2. CASE Signal \/ User \/ GroupSyncTimeout
  <2>1. UNCHANGED <<departed, queue, active, seen>> /\ chats' \subseteq chats
    BY <1>2, ShapeSignal, ShapeUser, Zenon DEF leaveVars, roster
  <2> QED BY <2>1, Zenon DEF Gone
<1>3. ASSUME queue' = queue, departed' = departed, UNCHANGED roster PROVE Gone'
  BY <1>3, Zenon DEF Gone, roster
<1>4. ASSUME NEW e \in Events, queue' = Append(queue, e), departed' = departed, UNCHANGED roster,
             e.kind \notin {"group", "message"} \/ e.group \notin departed
      PROVE  Gone'
  <2>1. \A g \in departed : e # Event("group", g) /\ e # Event("message", g)
    BY <1>4 DEF Event
  <2> QED BY <1>4, <2>1, GoneAppend, Zenon
<1>5. CASE Quiet
  <2>1. UNCHANGED <<departed, roster>>
    BY <1>5, QuietEvents, Zenon
  <2>2. CASE queue' = queue
    BY <1>3, <2>1, <2>2, Zenon
  <2>3. ASSUME NEW e \in Events, PlainEvent(e), queue' = Append(queue, e) PROVE Gone'
    BY <1>4, <2>1, <2>3, Zenon DEF PlainEvent
  <2> QED BY <1>5, <2>2, <2>3, QuietEvents, Zenon
<1>6. ASSUME NEW a \in Emitters, NEW auth \in BOOLEAN, SnapshotBegin(a, auth),
             UNCHANGED <<departed, roster>>
      PROVE  Gone'
  <2>1. /\ queue' = Append(queue, Event("begin", NoGroup))
        /\ Event("begin", NoGroup) \in Events /\ Event("begin", NoGroup).kind = "begin"
    BY <1>6, BeginEffect, EventFacts
  <2> QED BY <1>4, <1>6, <2>1, Zenon
<1>7. ASSUME NEW a \in Emitters, SnapshotGroup(a) PROVE Gone'
  <2>1. UNCHANGED <<departed, roster>>
    BY <1>7, Zenon DEF SnapshotGroup, leaveVars
  <2>2. PICK g \in snap[a].todo :
          queue' = queue \/ (~ Skipped(g) /\ queue' = Append(queue, Event("group", g)))
    BY <1>7, GroupEffect, Zenon
  <2>3. g \in Groups
    BY Zenon DEF Shape, SnapRecord
  <2>4. Event("group", g) \in Events /\ Event("group", g).group = g
    BY <2>3, EventFacts, Zenon
  <2> QED BY <1>3, <1>4, <2>1, <2>2, <2>4, Zenon DEF Skipped
<1>8. ASSUME NEW a \in Emitters, SnapshotEnd(a), UNCHANGED <<departed, roster>> PROVE Gone'
  <2>1. PICK x \in Events : x.kind = "end" /\ queue' = Append(queue, x)
    BY <1>8, EndEffect, Zenon
  <2> QED BY <1>4, <1>8, <2>1, Zenon
<1>9. CASE StartupSnapshot
  <2>1. UNCHANGED <<departed, roster>>
    BY <1>9, Zenon DEF StartupSnapshot, leaveVars
  <2> QED BY <1>3, <1>6, <1>9, <2>1, Zenon DEF StartupSnapshot, StartupAuthority, Emitters
<1>10. CASE ReceiveQueueEmpty
  <2>1. UNCHANGED <<departed, roster>>
    BY <1>10, Zenon DEF ReceiveQueueEmpty, leaveVars
  <2> QED BY <1>3, <1>6, <1>10, <2>1, Zenon DEF ReceiveQueueEmpty, Emitters
<1>11. CASE ActorSnapshotEnd \/ TaskSnapshotEnd
  <2>1. UNCHANGED <<departed, roster>>
    BY <1>11, Zenon DEF ActorSnapshotEnd, TaskSnapshotEnd, leaveVars
  <2> QED BY <1>8, <1>11, <2>1, Zenon DEF ActorSnapshotEnd, TaskSnapshotEnd, Emitters
<1>12. CASE TaskRefresh \/ TaskSnapshot
  <2>1. UNCHANGED <<departed, roster>>
    BY <1>12, Zenon DEF TaskRefresh, TaskSnapshot, leaveVars
  <2> QED BY <1>3, <1>6, <1>12, <2>1, Zenon DEF TaskRefresh, TaskSnapshot, Emitters
<1>13. CASE LeaveAccepted
  <2>1. command \in Groups
    BY <1>13, Zenon DEF LeaveAccepted, Shape
  <2>2. /\ Event("left", command) \in Events /\ queue' = Append(queue, Event("left", command))
        /\ departed' = departed \cup {command} /\ UNCHANGED roster
    BY <1>13, <2>1, EventFacts, ZenonT(30) DEF LeaveAccepted, Emit
  <2>3. \A g : Event("left", command) # Event("group", g) /\ Event("left", command) # Event("message", g)
    BY DEF Event
  <2> QED BY <2>2, <2>3, GoneAppend, Zenon
<1> QED BY <1>1, <1>2, <1>5, <1>7, <1>9, <1>10, <1>11, <1>12, <1>13, Zenon
        DEF Next, Actor, HandleCommand, Quiet, Task, Emitters


-----------------------------------------------------------------------------
(* Who is outside a complete snapshot.                                        *)

(* Nobody comes to have always been a member.                                 *)
LEMMA AbsentGrows ==
    ASSUME Shape, Phases, OutsideStore, Next
    PROVE  absent \subseteq absent' /\ OutsideStore'
<1> USE DEF world, session, leaveVars, emitters
<1>1. CASE Poll \/ User \/ GroupSyncTimeout
  <2>1. UNCHANGED <<member, absent, departed, cached, groups, task>>
    BY <1>1, ShapePoll, ShapeUser, Zenon DEF core
  <2> QED BY <2>1, Zenon DEF OutsideStore, Complete, Authoritative
<1>2. ASSUME NEW g \in Groups, MembershipChange(g) PROVE absent \subseteq absent' /\ OutsideStore'
  BY <1>2, Zenon DEF MembershipChange, OutsideStore, Complete, Authoritative
<1>3. ASSUME NEW g \in Groups, ContentArrives(g) PROVE absent \subseteq absent' /\ OutsideStore'
  BY <1>3, Zenon DEF ContentArrives, OutsideStore, Complete, Authoritative
<1>4. CASE QueueEmptyArrives
  BY <1>4, Zenon DEF QueueEmptyArrives, OutsideStore, Complete, Authoritative
<1>5. CASE Quiet
  <2>1. UNCHANGED <<member, cached, absent, departed>>
    BY <1>5, QuietEvents, Zenon
  <2>2. Complete' => Complete
    BY <1>5, Zenon DEF Quiet, ReceiveStarted, ReceiveStartFails, DeferCommand, AnnounceReady,
       ReceiveContent, ProjectContent, LoseConnection, HandleSend, HandleLeave, LeaveFails,
       GroupSyncDone, GroupSyncRetry, EnterRecovery, NoteGroupContent, Complete, Authoritative
  <2> QED BY <2>1, <2>2, Zenon DEF OutsideStore
<1>6. CASE StartupSnapshot
  BY <1>6, Zenon DEF StartupSnapshot, OutsideStore, Complete, Authoritative
<1>7. ASSUME NEW e \in Emitters, SnapshotGroup(e) PROVE absent \subseteq absent' /\ OutsideStore'
  BY <1>7, Zenon DEF SnapshotGroup, OutsideStore, Complete, Authoritative
<1>8. CASE ActorSnapshotEnd
  BY <1>8, Zenon DEF ActorSnapshotEnd, OutsideStore, Complete, Authoritative, Phases
<1>9. CASE ReceiveQueueEmpty
  BY <1>9, Zenon DEF ReceiveQueueEmpty, OutsideStore, Complete, Authoritative
<1>10. CASE LeaveAccepted
  BY <1>10, Zenon DEF LeaveAccepted, OutsideStore, Complete, Authoritative
<1>11. CASE TaskRefresh
  BY <1>11, Zenon DEF TaskRefresh, OutsideStore, Complete, Authoritative
<1>12. CASE TaskSnapshot
  BY <1>12, Zenon DEF TaskSnapshot, OutsideStore, Complete, Authoritative
<1>13. CASE TaskSnapshotEnd
  BY <1>13, Zenon DEF TaskSnapshotEnd, OutsideStore, Complete, Authoritative
<1> QED BY <1>1, <1>2, <1>3, <1>4, <1>5, <1>6, <1>7, <1>8, <1>9, <1>10, <1>11, <1>12, <1>13
        DEF Next, Signal, Actor, HandleCommand, Quiet, Task, Emitters

(* A snapshot in progress.                                                    *)
LEMMA OutsideSnapStep ==
    ASSUME Shape, Phases, OutsideStore, OutsideSnap, Next
    PROVE  OutsideSnap'
<1>1. absent \subseteq absent'
  BY AbsentGrows, Zenon
<1>2. ASSUME \A f \in Emitters : snap'[f].on => snap'[f] = snap[f] PROVE OutsideSnap'
  BY <1>1, <1>2, Zenon DEF OutsideSnap
<1>3. CASE Poll \/ User \/ GroupSyncTimeout \/ Signal \/ TaskRefresh \/ LeaveAccepted
  <2>1. snap' = snap
    BY <1>3, ShapePoll, ShapeUser, ShapeSignal, Zenon DEF core, emitters, TaskRefresh,
       LeaveAccepted
  <2> QED BY <1>2, <2>1, Zenon
<1>4. CASE Quiet
  BY <1>2, <1>4, QuietMoves, Zenon
<1>5. ASSUME NEW e \in Emitters, NEW auth \in BOOLEAN, SnapshotBegin(e, auth), auth => Complete
      PROVE  OutsideSnap'
  <2>1. /\ snap'[e].todo = cached /\ snap'[e].auth = auth
        /\ \A f \in Emitters : f # e => snap'[f] = snap[f]
    BY <1>5, BeginEffect, ZenonT(30)
  <2> QED BY <1>1, <1>5, <2>1, ZenonT(30) DEF OutsideSnap, OutsideStore
<1>6. ASSUME NEW e \in Emitters, SnapshotGroup(e) PROVE OutsideSnap'
  <2>1. PICK g \in snap[e].todo :
          /\ snap[e].on /\ snap'[e].auth = snap[e].auth
          /\ \A f \in Emitters : f # e => snap'[f] = snap[f]
          /\ snap'[e].todo = snap[e].todo \ {g}
          /\ \/ Skipped(g) /\ snap'[e].sent = snap[e].sent
             \/ snap'[e].sent = snap[e].sent \cup {g}
    BY <1>6, GroupEffect, ZenonT(30)
  <2>2. leaving = {}
    BY <2>1, Zenon DEF Phases, Emitters
  <2>3. Skipped(g) => g \in absent
    BY <2>2, Zenon DEF Skipped, OutsideStore
  <2> QED BY <1>1, <2>1, <2>3, ZenonT(30) DEF OutsideSnap
<1>7. ASSUME NEW e \in Emitters, SnapshotEnd(e) PROVE OutsideSnap'
  <2>1. ~ snap'[e].on /\ \A f \in Emitters : f # e => snap'[f] = snap[f]
    BY <1>7, EndEffect, Zenon
  <2> QED BY <1>2, <2>1, Zenon
<1>8. CASE StartupSnapshot
  BY <1>2, <1>5, <1>8, Zenon DEF StartupSnapshot, StartupAuthority, Emitters
<1>9. CASE ReceiveQueueEmpty
  BY <1>2, <1>5, <1>9, Zenon DEF ReceiveQueueEmpty, Complete, Authoritative, Emitters
<1>10. CASE ActorSnapshotEnd \/ TaskSnapshotEnd
  BY <1>7, <1>10, Zenon DEF ActorSnapshotEnd, TaskSnapshotEnd, Emitters
<1>11. CASE TaskSnapshot
  BY <1>2, <1>5, <1>11, Zenon DEF TaskSnapshot, Complete, Emitters
<1> QED BY <1>3, <1>4, <1>6, <1>8, <1>9, <1>10, <1>11, Zenon
        DEF Next, Actor, HandleCommand, Quiet, Task, Emitters

(* The event queue.                                                           *)
LEMMA OutsideQueueStep ==
    ASSUME Shape, Phases, OutsideStore, OutsideSnap, OutsideQueue, Next
    PROVE  OutsideQueue'
<1>1. absent \subseteq absent'
  BY AbsentGrows, Zenon
<1>2. queue \in Seq(Events)
  BY Zenon DEF Shape
<1>3. ASSUME queue' = queue PROVE OutsideQueue'
  BY <1>1, <1>3, Zenon DEF OutsideQueue
<1>4. ASSUME NEW e \in Events, queue' = Append(queue, e),
             e.kind = "end" /\ e.auth => Groups \ e.sent \subseteq absent',
             e.kind = "left" => e.group \in absent'
      PROVE  OutsideQueue'
  <2>1. \A i \in DOMAIN queue' : (i \in DOMAIN queue /\ queue'[i] = queue[i]) \/ queue'[i] = e
    BY <1>2, <1>4, AppendPlaces
  <2> QED BY <1>1, <1>4, <2>1 DEF OutsideQueue
<1>5. CASE Poll
  <2>1. queue # <<>> /\ queue' = Tail(queue)
    BY <1>5, ShapePoll, Zenon
  <2>2. \A i \in DOMAIN queue' : i + 1 \in DOMAIN queue /\ queue[i + 1] = queue'[i]
    BY <1>2, <2>1, TailPlaces
  <2> QED BY <1>1, <2>2, Zenon DEF OutsideQueue
<1>6. CASE User \/ GroupSyncTimeout \/ Signal \/ TaskRefresh
  <2>1. queue' = queue
    BY <1>6, ShapeUser, ShapeSignal, Zenon DEF TaskRefresh
  <2> QED BY <1>3, <2>1, Zenon
<1>7. CASE Quiet
  BY <1>3, <1>4, <1>7, QuietEvents, ZenonT(30) DEF PlainEvent
<1>8. ASSUME NEW e \in Emitters, NEW auth \in BOOLEAN, SnapshotBegin(e, auth) PROVE OutsideQueue'
  <2>1. /\ queue' = Append(queue, Event("begin", NoGroup))
        /\ Event("begin", NoGroup) \in Events /\ Event("begin", NoGroup).kind = "begin"
    BY <1>8, BeginEffect, EventFacts
  <2> QED BY <1>4, <2>1, ZenonT(30)
<1>9. ASSUME NEW e \in Emitters, SnapshotGroup(e) PROVE OutsideQueue'
  <2>1. PICK g \in snap[e].todo : queue' = queue \/ queue' = Append(queue, Event("group", g))
    BY <1>9, GroupEffect, ZenonT(30)
  <2>2. g \in Groups
    BY Zenon DEF Shape, SnapRecord
  <2>3. Event("group", g) \in Events /\ Event("group", g).kind = "group"
    BY <2>2, EventFacts, ZenonT(30)
  <2> QED BY <1>3, <1>4, <2>1, <2>3, Zenon
<1>10. ASSUME NEW e \in Emitters, SnapshotEnd(e) PROVE OutsideQueue'
  <2>1. PICK x \in Events : /\ snap[e].on /\ snap[e].todo = {}
                            /\ x.kind = "end" /\ x.auth = snap[e].auth /\ x.sent = snap[e].sent
                            /\ queue' = Append(queue, x)
    BY <1>10, EndEffect, Zenon
  <2>2. x.auth => Groups \ x.sent \subseteq absent'
    BY <1>1, <2>1, Zenon DEF OutsideSnap
  <2> QED BY <1>4, <2>1, <2>2, ZenonT(30)
<1>11. CASE StartupSnapshot
  BY <1>3, <1>8, <1>11, Zenon DEF StartupSnapshot, StartupAuthority, Emitters
<1>12. CASE ReceiveQueueEmpty
  BY <1>3, <1>8, <1>12, Zenon DEF ReceiveQueueEmpty, Emitters
<1>13. CASE ActorSnapshotEnd \/ TaskSnapshotEnd
  BY <1>10, <1>13, Zenon DEF ActorSnapshotEnd, TaskSnapshotEnd, Emitters
<1>14. CASE TaskSnapshot
  BY <1>3, <1>8, <1>14, Zenon DEF TaskSnapshot, Emitters
<1>15. CASE LeaveAccepted
  <2>1. command \in Groups
    BY <1>15, Zenon DEF LeaveAccepted, Shape
  <2>2. /\ Event("left", command) \in Events /\ Event("left", command).kind = "left"
        /\ Event("left", command).group = command
        /\ queue' = Append(queue, Event("left", command)) /\ command \in absent'
    BY <1>15, <2>1, EventFacts, Zenon DEF LeaveAccepted, Emit
  <2> QED BY <1>4, <2>2, Zenon
<1> QED BY <1>5, <1>6, <1>7, <1>9, <1>11, <1>12, <1>13, <1>14, <1>15, Zenon
        DEF Next, Actor, HandleCommand, Quiet, Task, Emitters


-----------------------------------------------------------------------------
(* The roster keeps step with the store.                                      *)

(* Contents in the stream.                                                    *)
LEMMA WaitingTail ==
    ASSUME Shape, stream # <<>>, stream' = Tail(stream), NEW g \in Groups, Head(stream) # g
    PROVE  Waiting(g)' <=> Waiting(g)
<1>1. stream \in Seq(Groups \cup {"empty"})
  BY Zenon DEF Shape
<1>2. /\ \A i \in DOMAIN stream' : i + 1 \in DOMAIN stream /\ stream[i + 1] = stream'[i]
      /\ \A i \in DOMAIN stream : \/ i = 1
                                  \/ i - 1 \in DOMAIN stream' /\ stream[i] = stream'[i - 1]
      /\ Head(stream) = stream[1]
  BY <1>1, TailPlaces
<1>3. ASSUME NEW i \in DOMAIN stream, stream[i] = g PROVE \E j \in DOMAIN stream' : stream'[j] = g
  <2>1. i # 1
    BY <1>2, <1>3, Zenon
  <2> QED BY <1>2, <1>3, <2>1, Zenon
<1>4. ASSUME NEW i \in DOMAIN stream', stream'[i] = g PROVE \E j \in DOMAIN stream : stream[j] = g
  BY <1>2, <1>4, Zenon
<1> QED BY <1>3, <1>4, Zenon DEF Waiting

(* A content or the queue-empty mark arrives.                                *)
LEMMA WaitingAppend ==
    ASSUME Shape, NEW c \in Groups \cup {"empty"}, stream' = Append(stream, c), NEW g \in Groups
    PROVE  Waiting(g)' <=> Waiting(g) \/ c = g
<1> DEFINE Contents == Groups \cup {"empty"}
<1>1. stream \in Seq(Contents) /\ c \in Contents
  BY Zenon DEF Shape
<1> HIDE DEF Contents
<1>2. /\ \A i \in DOMAIN stream : i \in DOMAIN stream' /\ stream'[i] = stream[i]
      /\ Len(stream) + 1 \in DOMAIN stream' /\ stream'[Len(stream) + 1] = c
      /\ \A i \in DOMAIN stream' : i \in DOMAIN stream \/ i = Len(stream) + 1
  BY <1>1, AppendPlaces
<1> QED BY <1>2, Zenon DEF Waiting

(* Who is on the roster in the end, after one event more.                     *)
LEMMA RosterAppend ==
    ASSUME Shape, NEW e \in Events, queue' = Append(queue, e), active' = active, NEW g \in Groups
    PROVE  Listed(queue', active', g) <=> Adds(e, g) \/ (Listed(queue, active, g) /\ ~ Drops(e, g))
<1>1. queue \in Seq(Events)
  BY Zenon DEF Shape
<1> QED BY <1>1, ListedAppend, Zenon

(* Handling an event changes nothing about who will be listed.               *)
LEMMA InStepPoll ==
    ASSUME Shape, WholeQueue, InStep, Poll
    PROVE  InStep'
<1>1. queue # <<>> /\ queue' = Tail(queue) /\ UNCHANGED core
  BY ShapePoll, Zenon
<1>2. ASSUME NEW g \in Groups PROVE Listed(queue', active', g) <=> Listed(queue, active, g)
  <2>1. queue \in Seq(Events)
    BY Zenon DEF Shape
  <2>2. g \in active' <=> Adds(Head(queue), g) \/ (g \in active /\ ~ Drops(Head(queue), g))
    BY PollEffect, Zenon
  <2> QED BY <1>1, <2>1, <2>2, ListedTail, ZenonT(30)
<1>3. /\ missed' = missed /\ stream' = stream /\ groups' = groups /\ pc' = pc /\ task' = task
      /\ snap' = snap /\ cached' = cached /\ departed' = departed
  BY <1>1, Zenon DEF core, world, session, input, leaveVars, emitters
<1>4. \A g \in Groups : (Waiting(g)' <=> Waiting(g)) /\ (Right(g)' <=> Right(g))
  BY <1>2, <1>3, Zenon DEF Waiting, Right
<1> QED BY <1>3, <1>4, Zenon DEF InStep, Fits

(* A content that changes the store is in the stream first.                  *)
LEMMA InStepStill ==
    ASSUME Shape, InStep, Signal \/ User \/ GroupSyncTimeout
    PROVE  InStep'
<1>1. UNCHANGED <<missed, groups, pc, task, snap, departed, queue, active>>
  BY ShapeSignal, ShapeUser, Zenon DEF session, leaveVars, emitters, roster
<1>2. ASSUME NEW g \in Groups, ~ Waiting(g)' PROVE ~ Waiting(g) /\ (g \in cached' <=> g \in cached)
  <2>1. CASE User \/ GroupSyncTimeout
    BY <1>2, <2>1, ShapeUser, Zenon DEF world, Waiting
  <2>2. ASSUME NEW c \in Groups, ContentArrives(c)
        PROVE  ~ Waiting(g) /\ (g \in cached' <=> g \in cached)
    <3>1. ~ Waiting(g) /\ c # g
      BY <1>2, <2>2, WaitingAppend, Zenon DEF ContentArrives
    <3> QED BY <2>2, <3>1, Zenon DEF ContentArrives
  <2>3. CASE QueueEmptyArrives
    BY <1>2, <2>3, WaitingAppend, Zenon DEF QueueEmptyArrives, world
  <2>4. ASSUME NEW c \in Groups, MembershipChange(c)
        PROVE  ~ Waiting(g) /\ (g \in cached' <=> g \in cached)
    BY <1>2, <2>4, Zenon DEF MembershipChange, input, Waiting
  <2> QED BY <2>1, <2>2, <2>3, <2>4, Zenon DEF Signal
<1>3. \A g \in Groups : ~ Waiting(g)' => (Right(g)' <=> Right(g))
  BY <1>1, <1>2, Zenon DEF Right
<1> QED BY <1>1, <1>2, <1>3, ZenonT(30) DEF InStep, Fits

(* The actor outside snapshots.                                               *)
LEMMA InStepQuiet ==
    ASSUME Shape, Phases, InStep, Quiet
    PROVE  InStep'
<1> USE DEF session, input, emitters
<1>1. UNCHANGED <<cached, departed, active>>
  BY QuietEvents, Zenon DEF roster
<1>2. ASSUME NEW g \in Groups, ~ Waiting(g), Right(g) PROVE Right(g)'
  <2>1. CASE queue' = queue
    BY <1>1, <1>2, <2>1, Zenon DEF Right
  <2>2. ASSUME NEW e \in Events, PlainEvent(e), queue' = Append(queue, e) PROVE Right(g)'
    <3>1. Listed(queue', active', g) <=> Adds(e, g) \/ (Listed(queue, active, g) /\ ~ Drops(e, g))
      BY <1>1, <2>2, RosterAppend, Zenon
    <3>2. ~ Drops(e, g) /\ (Adds(e, g) => g \in cached \ departed)
      BY <2>2, Zenon DEF PlainEvent, Adds, Drops
    <3> QED BY <1>1, <1>2, <3>1, <3>2, Zenon DEF Right
  <2> QED BY <2>1, <2>2, QuietEvents, Zenon
<1>3. \A f \in Emitters : snap'[f].on => snap'[f] = snap[f]
  BY QuietMoves, Zenon
<1>4. CASE ReceiveContent
  BY <1>4, ZenonT(30) DEF ReceiveContent, NoteGroupContent, InStep, Fits, Phases, Emitters
<1>5. CASE ReceiveStarted \/ ReceiveStartFails \/ AnnounceReady \/ LoseConnection
  <2>1. groups' = "pending" /\ task' = "none" /\ ~ snap["actor"].on /\ ~ snap'["actor"].on
        /\ ~ snap'["task"].on
    <3>1. groups' = "pending" /\ task' = "none"
      BY <1>5, Zenon DEF ReceiveStarted, ReceiveStartFails, AnnounceReady, LoseConnection,
         EnterRecovery,
         Phases
    <3>2. ~ snap["actor"].on
      BY <1>5, Zenon DEF ReceiveStarted, ReceiveStartFails, AnnounceReady, LoseConnection, Phases
    <3>3. ~ snap'["actor"].on
      BY <1>3, <3>2, Zenon DEF Emitters
    <3>4. ~ snap'["task"].on
      <4>1. Phases'
        BY <1>5, ShapeActor, Zenon DEF Actor
      <4> QED BY <3>1, <4>1, Zenon DEF Phases
    <3> QED BY <3>1, <3>2, <3>3, <3>4, Zenon
  <2> QED BY <2>1, Zenon DEF InStep, Fits, Emitters
<1>6. CASE DeferCommand \/ ProjectContent \/ HandleSend \/ HandleLeave \/ LeaveFails
           \/ GroupSyncDone \/ GroupSyncRetry
  <2>1. missed' = missed /\ stream' = stream
    BY <1>6, Zenon DEF DeferCommand, ProjectContent, HandleSend, HandleLeave, LeaveFails,
       GroupSyncDone,
       GroupSyncRetry
  <2>2. \A g \in Groups : Waiting(g)' <=> Waiting(g)
    BY <2>1, Zenon DEF Waiting
  <2>3. /\ groups' = "authoritative" /\ pc' \in {"dispatch", "leaving"} =>
             (groups = "authoritative" /\ pc \in {"dispatch", "leaving"}) \/ task = "ok"
        /\ task' = "ok" => task = "ok"
    BY <1>6, ZenonT(30) DEF DeferCommand, ProjectContent, HandleSend, HandleLeave, LeaveFails,
       GroupSyncDone,
       GroupSyncRetry, Phases
  <2>4. ASSUME ~ missed', NEW g \in Groups, ~ Waiting(g)' PROVE Fits(g)'
    <3>1. Fits(g) /\ ~ Waiting(g)
      BY <2>1, <2>2, <2>4, Zenon DEF InStep
    <3> QED BY <1>1, <1>2, <1>3, <2>3, <3>1, Zenon DEF Fits
  <2> QED BY <2>4, Zenon DEF InStep
<1> QED BY <1>4, <1>5, <1>6, Zenon DEF Quiet


(* The snapshots and the accepted leave.                                      *)
LEMMA InStepBegin ==
    ASSUME Shape, NEW e \in Emitters, NEW auth \in BOOLEAN, SnapshotBegin(e, auth),
           UNCHANGED <<cached, departed>>, \A f \in Emitters : f # e => ~ snap[f].on,
           ~ (groups' = "authoritative" /\ pc' \in {"dispatch", "leaving"}), task' # "ok"
    PROVE  InStep'
<1>1. /\ snap'[e].todo = cached /\ snap'[e].sent = {}
      /\ \A f \in Emitters : f # e => snap'[f] = snap[f]
  BY BeginEffect, ZenonT(30)
<1> QED BY <1>1, Zenon DEF InStep, Fits

(* A record moves from the groups to do to the groups sent.                  *)
LEMMA InStepGroup ==
    ASSUME Shape, Phases, InStep, NEW e \in Emitters, SnapshotGroup(e)
    PROVE  InStep'
<1> USE DEF world, session, input, leaveVars
<1>1. PICK h \in snap[e].todo :
        /\ snap[e].on /\ snap'[e].on = snap[e].on /\ snap'[e].auth = snap[e].auth
        /\ \A f \in Emitters : f # e => snap'[f] = snap[f]
        /\ snap'[e].todo = snap[e].todo \ {h}
        /\ \/ Skipped(h) /\ snap'[e].sent = snap[e].sent
           \/ ~ Skipped(h) /\ snap'[e].sent = snap[e].sent \cup {h}
  BY GroupEffect, Zenon
<1>2. /\ UNCHANGED <<cached, departed, groups, pc, task, stream, missed>>
  BY Zenon DEF SnapshotGroup
<1>3. ~ (groups = "authoritative" /\ pc \in {"dispatch", "leaving"}) /\ task # "ok" /\ leaving = {}
  BY <1>1, Zenon DEF Phases, Emitters
<1>4. ASSUME ~ missed', NEW g \in Groups, ~ Waiting(g)', NEW f \in Emitters,
             snap'[f].on, snap'[f].auth
      PROVE  g \in snap'[f].sent \cup (snap'[f].todo \ departed') <=> g \in cached' \ departed'
  <2>1. /\ snap[f].on /\ snap[f].auth
        /\ g \in snap[f].sent \cup (snap[f].todo \ departed) <=> g \in cached \ departed
    BY <1>1, <1>2, <1>4, ZenonT(30) DEF InStep, Fits, Waiting
  <2>2. CASE f # e
    BY <1>1, <1>2, <2>1, <2>2, ZenonT(30)
  <2>3. CASE f = e
    <3>1. Skipped(h) => h \in departed
      BY <1>3, Zenon DEF Skipped
    <3>2. ~ Skipped(h) => h \notin departed
      BY ZenonT(30) DEF Skipped
    <3> QED BY <1>1, <1>2, <2>1, <2>3, <3>1, <3>2, ZenonT(30)
  <2> QED BY <2>2, <2>3, Zenon
<1> QED BY <1>2, <1>3, <1>4, ZenonT(30) DEF InStep, Fits

(* The end of a complete snapshot brings the roster in step.                  *)
LEMMA InStepEnd ==
    ASSUME Shape, InStep, NEW e \in Emitters, SnapshotEnd(e), snap[e].auth,
           \A f \in Emitters : f # e => ~ snap[f].on,
           UNCHANGED <<cached, departed, stream, missed, active>>
    PROVE  InStep'
<1>1. PICK x \in Events :
        /\ snap[e].on /\ snap[e].todo = {} /\ ~ snap'[e].on
        /\ \A f \in Emitters : f # e => snap'[f] = snap[f]
        /\ x.kind = "end" /\ x.auth = snap[e].auth /\ x.sent = snap[e].sent
        /\ queue' = Append(queue, x)
  BY EndEffect, Zenon
<1>2. ASSUME ~ missed', NEW g \in Groups, ~ Waiting(g)' PROVE Right(g)'
  <2>1. g \in x.sent <=> g \in cached \ departed
    BY <1>1, <1>2, Zenon DEF InStep, Fits, Waiting
  <2>2. Listed(queue', active', g) <=> Adds(x, g) \/ (Listed(queue, active, g) /\ ~ Drops(x, g))
    BY <1>1, RosterAppend, ZenonT(30)
  <2>3. (Adds(x, g) <=> g \in x.sent) /\ (Drops(x, g) <=> g \notin x.sent)
    BY <1>1, Zenon DEF Adds, Drops
  <2> QED BY <2>1, <2>2, <2>3, Zenon DEF Right
<1>3. \A f \in Emitters : ~ snap'[f].on
  BY <1>1, Zenon
<1> QED BY <1>2, <1>3, Zenon DEF InStep, Fits

(* The actor,                                                                *)
LEMMA InStepActor ==
    ASSUME Shape, Phases, InStep, Actor
    PROVE  InStep'
<1> USE DEF world, session, input, leaveVars, emitters, roster
<1>1. CASE Quiet
  BY <1>1, InStepQuiet, Zenon
<1>2. CASE StartupSnapshot
  <2>1. /\ UNCHANGED <<cached, departed, groups, task>> /\ groups = "pending" /\ task = "none"
        /\ ~ snap["task"].on /\ ~ snap["actor"].on
    BY <1>2, Zenon DEF StartupSnapshot, Phases
  <2>2. CASE SnapshotBegin("actor", StartupAuthority)
    BY <2>1, <2>2, InStepBegin, Zenon DEF StartupAuthority, Emitters
  <2>3. CASE UNCHANGED <<snap, queue>>
    BY <2>1, <2>3, Zenon DEF InStep, Fits, Emitters
  <2> QED BY <1>2, <2>2, <2>3, Zenon DEF StartupSnapshot
<1>3. CASE SnapshotGroup("actor")
  BY <1>3, InStepGroup, Zenon DEF Emitters
<1>4. CASE ActorSnapshotEnd
  <2>1. /\ SnapshotEnd("actor") /\ ~ snap["task"].on /\ task # "ok" /\ snap["actor"].on
        /\ UNCHANGED <<cached, departed, stream, missed, active, task>>
    BY <1>4, Zenon DEF ActorSnapshotEnd, Phases
  <2>2. CASE phase = "ready"
    <3>1. snap["actor"].auth
      BY <2>1, <2>2, Zenon DEF Phases
    <3> QED BY <2>1, <3>1, InStepEnd, Zenon DEF Emitters
  <2>3. CASE phase # "ready"
    <3>1. groups' # "authoritative"
      BY <1>4, <2>3, Zenon DEF ActorSnapshotEnd, Phases
    <3>2. ~ snap'["actor"].on /\ snap'["task"] = snap["task"]
      BY <2>1, EndEffect, Zenon DEF Emitters
    <3> QED BY <2>1, <3>1, <3>2, ZenonT(30) DEF InStep, Fits, Emitters
  <2> QED BY <2>2, <2>3, Zenon
<1>5. CASE ReceiveQueueEmpty
  <2>1. /\ stream # <<>> /\ stream' = Tail(stream) /\ UNCHANGED <<cached, departed, active>>
        /\ Head(stream) = "empty"
    BY <1>5, Zenon DEF ReceiveQueueEmpty
  <2>2. \A g \in Groups : Waiting(g)' <=> Waiting(g)
    BY <2>1, WaitingTail, RosterAssumption, Zenon
  <2>3. CASE groups = "dirty" /\ SnapshotBegin("actor", TRUE) /\ pc' = "snapshot"
    <3>1. task = "none" /\ ~ snap["task"].on /\ task' # "ok"
      BY <1>5, <2>3, Zenon DEF Phases, ReceiveQueueEmpty
    <3> QED BY <2>1, <2>3, <3>1, InStepBegin, Zenon DEF Emitters
  <2>4. CASE UNCHANGED <<snap, queue, pc, missed>> /\ groups' \in {groups, "pending"}
    <3>1. (task' = "ok" => task = "ok") /\ (groups' = "authoritative" => groups = "authoritative")
      BY <1>5, <2>4, Zenon DEF ReceiveQueueEmpty
    <3>2. \A g \in Groups : Right(g)' <=> Right(g)
      BY <2>1, <2>4, Zenon DEF Right
    <3>3. ASSUME NEW g \in Groups, ~ missed', ~ Waiting(g)' PROVE Fits(g)'
      <4>1. Fits(g)
        BY <2>2, <2>4, <3>3, Zenon DEF InStep
      <4> QED BY <2>1, <2>4, <3>1, <3>2, <4>1, ZenonT(30) DEF Fits
    <3> QED BY <3>3, Zenon DEF InStep
  <2> QED BY <1>5, <2>3, <2>4, Zenon DEF ReceiveQueueEmpty
<1>6. CASE LeaveAccepted
  <2>1. /\ command \in Groups /\ task = "none" /\ ~ snap["task"].on /\ ~ snap["actor"].on
        /\ pc = "leaving"
    BY <1>6, ZenonT(30) DEF LeaveAccepted, Phases, Shape
  <2>2. UNCHANGED <<groups, task, snap, missed, stream, active>>
    BY <1>6, Zenon DEF LeaveAccepted
  <2> DEFINE x == Event("left", command)
  <2>3. x \in Events /\ x.kind = "left" /\ x.group = command /\ queue' = Append(queue, x)
    BY <1>6, <2>1, EventFacts, Zenon DEF LeaveAccepted, Emit
  <2> HIDE DEF x
  <2>4. ASSUME NEW g \in Groups, Right(g) PROVE Right(g)'
    <3>1. Listed(queue', active', g) <=> Adds(x, g) \/ (Listed(queue, active, g) /\ ~ Drops(x, g))
      BY <2>2, <2>3, RosterAppend, Zenon
    <3>2. ~ Adds(x, g) /\ (Drops(x, g) <=> g = command)
      BY <2>3, Zenon DEF Adds, Drops
    <3>3. g \in cached' \ departed' <=> g \in cached \ departed /\ g # command
      BY <1>6, Zenon DEF LeaveAccepted
    <3> QED BY <2>4, <3>1, <3>2, <3>3, Zenon DEF Right
  <2>5. ASSUME NEW g \in Groups, ~ missed', ~ Waiting(g)' PROVE Fits(g)'
    <3>1. Fits(g)
      BY <2>2, <2>5, Zenon DEF InStep, Waiting
    <3> QED BY <2>1, <2>2, <2>4, <3>1, Zenon DEF Fits, Emitters
  <2> QED BY <2>5, Zenon DEF InStep
<1> QED BY <1>1, <1>2, <1>3, <1>4, <1>5, <1>6, Zenon DEF Actor, HandleCommand, Quiet

(* and the task.                                                             *)
LEMMA InStepTask ==
    ASSUME Shape, Phases, InStep, Task
    PROVE  InStep'
<1> USE DEF world, session, input, leaveVars, roster
<1>1. /\ groups = "pending" /\ groups' = groups /\ ~ snap["actor"].on
      /\ UNCHANGED <<departed, stream, active>>
  BY Zenon DEF Task, TaskRefresh, TaskSnapshot, SnapshotGroup, TaskSnapshotEnd, Phases
<1>2. CASE task \in {"refreshing", "reading"} /\ task' \in {"reading", "failed"} /\ UNCHANGED snap
  <2>1. ~ snap'["task"].on
    BY <1>2, Zenon DEF Phases
  <2> QED BY <1>1, <1>2, <2>1, ZenonT(30) DEF InStep, Fits, Emitters
<1>3. CASE SnapshotBegin("task", TRUE) /\ task' = "emitting" /\ UNCHANGED cached
  BY <1>1, <1>3, InStepBegin, Zenon DEF Emitters
<1>4. CASE SnapshotGroup("task")
  BY <1>4, InStepGroup, Zenon DEF Emitters
<1>5. CASE TaskSnapshotEnd
  <2>1. SnapshotEnd("task") /\ snap["task"].auth /\ UNCHANGED <<cached, missed>>
    BY <1>5, Zenon DEF TaskSnapshotEnd, SnapshotEnd, Phases
  <2> QED BY <1>1, <2>1, InStepEnd, Zenon DEF Emitters
<1> QED BY <1>2, <1>3, <1>4, <1>5, Zenon DEF Task, TaskRefresh, TaskSnapshot


-----------------------------------------------------------------------------
(* The invariant.                                                             *)

Marks == WholeQueue /\ WholeEnd
Outside == OutsideStore /\ OutsideSnap /\ OutsideQueue
RosterInv == Shape /\ Phases /\ Marks /\ Gone /\ Outside /\ InStep

(* The invariant holds at first,                                             *)
LEMMA RosterStart ==
    ASSUME Init
    PROVE  RosterInv
<1>1. NoSnap \in SnapRecord /\ ~ NoSnap.on
  BY Zenon DEF NoSnap, SnapRecord
<1>2. Shape
  <2>1. /\ queue \in Seq(Events) /\ commands \in Seq(Commands) /\ deferred \in Seq(Commands)
        /\ stream \in Seq(Groups \cup {"empty"})
    BY DEF Init
  <2>2. snap \in [Emitters -> SnapRecord]
    BY <1>1, Zenon DEF Init, Emitters
  <2> QED BY <2>1, <2>2, Zenon DEF Init, Shape, Places
<1>3. \A e \in Emitters : ~ snap[e].on
  BY <1>1, Zenon DEF Init, Emitters
<1>4. Phases
  BY <1>3, Zenon DEF Init, Phases, Emitters
<1>5. DOMAIN queue = {} /\ seen = {} /\ groups = "pending" /\ task = "none" /\ departed = {}
  BY DEF Init
<1>6. Marks
  BY <1>3, <1>5, ZenonT(30) DEF Marks, WholeQueue, WholeEnd, Authoritative
<1>7. Gone
  BY <1>5, Zenon DEF Gone
<1>8. Outside
  BY <1>3, <1>5, ZenonT(30) DEF Init, Outside, OutsideStore, OutsideSnap, OutsideQueue, Complete,
     Authoritative
<1>9. InStep
  BY <1>3, <1>5, Zenon DEF InStep, Fits
<1> QED BY <1>2, <1>4, <1>6, <1>7, <1>8, <1>9, Zenon DEF RosterInv

(* and every step keeps it.                                                  *)
LEMMA RosterStep ==
    ASSUME RosterInv, Next
    PROVE  RosterInv'
<1> USE DEF RosterInv
<1>1. Shape' /\ Phases'
  <2>1. CASE Poll
    BY <2>1, ShapePoll, ZenonT(30) DEF core, session, leaveVars, emitters, Phases, Authoritative
  <2>2. CASE User \/ GroupSyncTimeout
    BY <2>2, ShapeUser, Zenon DEF session, leaveVars, emitters, Phases, Authoritative
  <2>3. CASE Signal
    BY <2>3, ShapeSignal, Zenon DEF session, leaveVars, emitters, Phases, Authoritative
  <2>4. CASE Actor \/ Task
    BY <2>4, ShapeActor, ShapeTask, Zenon
  <2> QED BY <2>1, <2>2, <2>3, <2>4, Zenon DEF Next
<1>2. Marks'
  BY WholePoll, WholeStill, WholeActor, WholeTask, Zenon DEF Marks, Next
<1>3. Gone'
  BY GoneStep, Zenon DEF Marks
<1>4. Outside'
  BY AbsentGrows, OutsideSnapStep, OutsideQueueStep, Zenon DEF Outside
<1>5. InStep'
  BY InStepPoll, InStepStill, InStepActor, InStepTask, Zenon DEF Marks, Next
<1> QED BY <1>1, <1>2, <1>3, <1>4, <1>5, Zenon

(* The inductive invariant of the roster: snapshots in the event queue are    *)
(* whole, groups that were left come up only before their GROUP_LEFT, a group *)
(* outside a complete snapshot was once left or not joined, and what the      *)
(* adapter will list follows the store.                                       *)
THEOREM RosterInvariant == Spec => []RosterInv
<1>1. Init => RosterInv
  BY RosterStart, Zenon
<1>2. RosterInv /\ [Next]_vars => RosterInv'
  <2> SUFFICES ASSUME RosterInv, [Next]_vars PROVE RosterInv'
    BY Zenon
  <2>1. CASE Next
    BY <2>1, RosterStep, Zenon
  <2>2. CASE UNCHANGED vars
    <3>1. /\ Shape' /\ Phases' /\ Marks' /\ Gone' /\ Outside' /\ InStep'
      BY <2>2, ZenonT(30) DEF RosterInv, vars, world, session, input, leaveVars, emitters, roster,
         Shape, Phases,
         Marks, WholeQueue, WholeEnd, EndOpen, EndGot, AtEnd, Gone, Outside, OutsideStore,
         OutsideSnap, OutsideQueue, Complete, InStep, Fits, Right, Waiting, Authoritative
    <3> QED BY <3>1, Zenon DEF RosterInv
  <2> QED BY <2>1, <2>2, Zenon
<1> QED BY <1>1, <1>2, PTL DEF Spec

(* A group the account left does not come back to the roster, the saved chats *)
(* or a snapshot once the adapter has handled its GROUP_LEFT, although its    *)
(* record may survive in the store and its contents keep arriving             *)
(* (departed_groups.contains in emit_group_snapshot and project_content).     *)
THEOREM DepartedGroupsStayGone == Spec => []DepartedStaysGone
<1>1. RosterInv => DepartedStaysGone
  BY Zenon DEF RosterInv, Gone, DepartedStaysGone
<1> QED BY <1>1, RosterInvariant, PTL

(* When the adapter handles GROUP_SYNC_END it has seen exactly the groups of  *)
(* that snapshot, and at rest under authoritative groups the roster is the    *)
(* store's list without the groups that were left.                            *)
THEOREM RosterFollowsStore == Spec => []RosterAgrees
<1>1. RosterInv => RosterAgrees
  <2> SUFFICES ASSUME RosterInv PROVE RosterAgrees
    BY Zenon
  <2>1. SnapshotsWhole
    BY HeadFacts, Zenon DEF RosterInv, Marks, SnapshotsWhole
  <2>2. ASSUME groups = "authoritative", pc = "dispatch", queue = <<>>, stream = <<>>, ~ missed
        PROVE  active = cached \ departed
    <3>1. \A g \in Groups : ~ Waiting(g) /\ (Listed(queue, active, g) <=> g \in active)
      BY <2>2 DEF Waiting, Listed
    <3>2. \A g \in Groups : Right(g)
      BY <2>2, <3>1, Zenon DEF RosterInv, InStep, Fits
    <3>3. \A g \in Groups : g \in active <=> g \in cached \ departed
      BY <3>1, <3>2, Zenon DEF Right
    <3>4. active \subseteq Groups /\ cached \subseteq Groups
      BY Zenon DEF RosterInv, Shape
    <3> QED BY <3>3, <3>4, Zenon
  <2> QED BY <2>1, <2>2, Zenon DEF RosterAgrees
<1> QED BY <1>1, RosterInvariant, PTL

(* The adapter removes a saved chat by itself only if the account has been    *)
(* outside the group at some time (signal_prune_stale_chats and               *)
(* signal_deactivate_group): never because a snapshot was incomplete.         *)
THEOREM PrunedGroupsWereLeft == Spec => PrunedWasNotMember
<1>1. RosterInv /\ [Next]_vars => [\A g \in chats \ chats' : g \in absent' \/ RemoveChat(g)]_vars
  <2> SUFFICES ASSUME RosterInv, Next, NEW g \in chats \ chats'
               PROVE  g \in absent' \/ RemoveChat(g)
    BY Zenon
  <2>1. g \in Groups /\ absent \subseteq absent'
    BY AbsentGrows, Zenon DEF RosterInv, Outside, Shape
  <2>2. CASE Poll
    <3> DEFINE h == Head(queue)
    <3>1. /\ queue # <<>> /\ 1 \in DOMAIN queue /\ h = queue[1]
          /\ h.kind = "end" => seen = h.sent
      <4>1. queue # <<>> /\ queue \in Seq(Events)
        BY <2>2, ShapePoll, Zenon DEF RosterInv, Shape
      <4> QED BY <4>1, TailPlaces, HeadFacts, Zenon DEF RosterInv, Marks
    <3>2. /\ h.kind = "end" /\ h.auth => Groups \ h.sent \subseteq absent
          /\ h.kind = "left" => h.group \in absent
      BY <3>1, Zenon DEF RosterInv, Outside, OutsideQueue
    <3>3. CASE PollAuthoritativeEnd
      BY <2>1, <3>1, <3>2, <3>3, ZenonT(30) DEF PollAuthoritativeEnd, Polls
    <3>4. CASE PollLeft
      BY <2>1, <3>2, <3>4, Zenon DEF PollLeft, Polls
    <3>5. CASE ~ PollAuthoritativeEnd /\ ~ PollLeft
      BY <2>2, <3>5, Zenon DEF Poll, PollGroupBegin, PollGroup, PollPreliminaryEnd, PollReady,
         PollRecovering, PollMessage, PollGroupError
    <3> QED BY <3>3, <3>4, <3>5, Zenon
  <2>3. CASE User
    <3>1. PICK c \in Groups : \/ JoinChat(c) \/ ChatSend(c) \/ RequestLeave(c) \/ ConfirmLeave(c)
                              \/ CloseTab(c) \/ RemoveChat(c)
      BY <2>3, Zenon DEF User
    <3>2. RemoveChat(c) /\ g = c
      BY <3>1, Zenon DEF JoinChat, ChatSend, RequestLeave, ConfirmLeave, CloseTab, RemoveChat,
         roster
    <3> QED BY <3>2, Zenon
  <2>4. CASE GroupSyncTimeout \/ Signal \/ Actor \/ Task
    <3>1. chats' = chats
      BY <2>4, ShapeSignal, ShapeActor, ShapeTask, Zenon DEF RosterInv, roster, GroupSyncTimeout
    <3> QED BY <3>1, Zenon
  <2> QED BY <2>2, <2>3, <2>4, Zenon DEF Next
<1> QED BY <1>1, RosterInvariant, PTL DEF Spec, PrunedWasNotMember

=============================================================================
