----------------------------- MODULE Contacts ------------------------------
(* The address book: the contacts, avatars and identity notices of the store, *)
(* the worker's snapshots of them, the requests and downloads that wait for   *)
(* the receive queue to drain, and the adapter that applies the events to     *)
(* Purple's buddy list, buddy icons and warnings.  The worker's phases and    *)
(* its spawned tasks interleave at their awaits, the adapter polls at any     *)
(* time, the user edits the buddy list, and a session may end anywhere.       *)
(*                                                                            *)
(* A buddy is a peer, a group of the buddy list and the managed marker.       *)
(* Names are abstracted to whether there is one.  Who verified whom, and the  *)
(* notices kept of changed identities, belong to the external store; they     *)
(* are modelled from how the worker uses them.                                *)
EXTENDS AvatarCache, Lists

CONSTANTS
    Peers,          \* Signal contacts
    Self,           \* the account this address book belongs to
    Raw,            \* the avatar each peer has published
    Capacity,       \* length of the command channel
    EventCapacity,  \* events queued before emitting waits
    SparesBlocking, \* whether dismiss_identity_change leaves a verified contact's
                    \* notice, as "Dismisses a non-blocking identity replacement
                    \* notice" (ffi.rs:788) has it; the external store decides
    Budgets         \* bounds: how often each outside event may happen

Happenings ==
    {"sync", "change", "verify", "avatar", "loss", "fail", "edit", "restart"}

ASSUME ContactsAssumption ==
    /\ Self \in Accounts
    /\ Raw \in [Peers -> Images]
    /\ {Capacity, EventCapacity} \subseteq Nat \ {0}
    /\ SparesBlocking \in BOOLEAN
    /\ IsFiniteSet(Peers) /\ "none" \notin Peers
    /\ \A b \in Budgets : b \in [Happenings -> Nat]

Groups == {"default", "custom", "legacy"}
Buddies == [peer : Peers, group : Groups, managed : BOOLEAN]
NoSnapshot == <<[peer |-> "none", name |-> "none"]>>
NoFetch == <<"none">>

VARIABLES
    \* the store and the outside
    roster,     \* stored contacts: "absent", "unnamed" or "named"
    stored,     \* peers whose avatar is in the store
    trusted,    \* peers the user has verified
    notice,     \* identity notice of each peer: "none", "plain" or "verified"
    budget,     \* outside events that may still happen
    \* the worker
    worker,     \* "snapshot" or "notices" of startup, "active", "recovery"
    todo,       \* contacts the snapshot has yet to emit, or NoSnapshot
    drawing,    \* peer whose avatar is being prepared, or "none"
    inbox,      \* Received::Contacts not yet taken
    names,      \* MetadataCache.contact_names
    request,    \* contact request: "gated", "sending", "delay" or "done"
    fetch,      \* contacts the avatar downloads have yet to look at, or NoFetch
    got,        \* peer whose avatar was just downloaded, or "none"
    commands,   \* command channel
    events,     \* event queue
    \* the adapter
    syncing,    \* contact_sync.active
    marked,     \* contact_sync.seen
    buddies,    \* buddies of the account
    alias,      \* server alias last set: "none", "phone" or "name"
    icons,      \* peers whose buddy icon has been set or cleared
    told,       \* identity_changes_seen
    pending,    \* pending_identity_changes
    \* history
    advised,    \* peers told of an ordinary change since their last acceptance
    missed,     \* a read of the store failed since the last whole snapshot
    edited      \* peers whose buddies the user changed since then

storeVars == <<roster, stored, trusted, notice>>
workerVars == <<worker, todo, drawing, inbox, names, request, fetch, got>>
listVars == <<syncing, marked, buddies, alias, icons>>
identityVars == <<told, pending, advised>>
history == <<missed, edited>>
vars == <<avatarVars, storeVars, budget, workerVars, commands, events,
          listVars, identityVars, history>>

Init ==
    /\ AvatarInit
    /\ roster = [p \in Peers |-> "named"]
    /\ stored = {}
    /\ trusted = {}
    /\ notice = [p \in Peers |-> "none"]
    /\ budget \in Budgets
    /\ worker = "snapshot"
    /\ todo = NoSnapshot
    /\ drawing = "none"
    /\ inbox = 0
    /\ names = {}
    /\ request = "gated"
    /\ fetch = NoFetch
    /\ got = "none"
    /\ commands = <<>>
    /\ events = <<>>
    /\ syncing = FALSE
    /\ marked = {}
    /\ buddies = {}
    /\ alias = [p \in Peers |-> "none"]
    /\ icons = {}
    /\ told = {}
    /\ pending = {}
    /\ advised = {}
    /\ missed = FALSE
    /\ edited = {}

Spend(what) ==
    /\ budget[what] > 0
    /\ budget' = [budget EXCEPT ![what] = @ - 1]

Event(kind, p, value) == [kind |-> kind, peer |-> p, value |-> value]
Boundary(kind) == Event(kind, "none", "none")

(* The worker's tasks share one thread, and prepare_avatar runs to its end.   *)
ThreadFree == step[Self] = "idle"

(* Emitting waits for room; the events of one handler are queued together.    *)
Room == Len(events) < EventCapacity
Streaming == worker # "recovery"
Idle == worker = "active" /\ todo = NoSnapshot

-----------------------------------------------------------------------------
(* The store and the outside. *)

(* The receive stream stores a contact list and then reports it. *)
StoreContacts ==
    /\ Streaming
    /\ Spend("sync")
    /\ roster' \in [Peers -> {"absent", "unnamed", "named"}]
    /\ inbox' = inbox + 1
    /\ UNCHANGED <<avatarVars, stored, trusted, notice, worker, todo, drawing,
                   names, request, fetch, got, commands, events, listVars,
                   identityVars, history>>

(* A new identity key is met while receiving or sending. *)
IdentityChanges(p) ==
    /\ Streaming
    /\ Spend("change")
    /\ notice' = [notice EXCEPT ![p] =
                    IF p \in trusted THEN "verified" ELSE "plain"]
    /\ UNCHANGED <<avatarVars, roster, stored, trusted, workerVars, commands,
                   events, listVars, identityVars, history>>

Verify(p) ==
    /\ Spend("verify")
    /\ trusted' = trusted \union {p}
    /\ UNCHANGED <<avatarVars, roster, stored, notice, workerVars, commands,
                   events, listVars, identityVars, history>>

-----------------------------------------------------------------------------
(* The worker. *)

ReadsContacts ==
    /\ worker = "snapshot" \/ (worker = "active" /\ inbox > 0)
    /\ todo = NoSnapshot
    /\ ThreadFree

TakesReport ==
    inbox' = IF worker = "active" THEN inbox - 1 ELSE inbox

(* emit_contact_snapshot reads the contacts once and opens the snapshot. *)
BeginSnapshot ==
    /\ ReadsContacts
    /\ Room
    /\ TakesReport
    /\ LET present == {p \in Peers : roster[p] # "absent"}
       IN todo' = SetToSeq({[peer |-> p, name |-> roster[p]] : p \in present})
    /\ events' = Append(events, Boundary("begin"))
    /\ missed' = FALSE
    /\ edited' = {}
    /\ UNCHANGED <<avatarVars, storeVars, budget, worker, drawing, names,
                   request, fetch, got, commands, listVars, identityVars>>

(* The contacts cannot be read: no snapshot is emitted. *)
SnapshotFails ==
    /\ ReadsContacts
    /\ TakesReport
    /\ Spend("fail")
    /\ worker' = IF worker = "snapshot" THEN "notices" ELSE worker
    /\ missed' = TRUE
    /\ UNCHANGED <<avatarVars, storeVars, todo, drawing, names, request, fetch,
                   got, commands, events, listVars, identityVars, edited>>

(* The title of a contact event: its name, or the last one that was known. *)
Title(p, name) ==
    IF name = "named" \/ p \in names THEN "name" ELSE "none"

(* Mutant: avatars of earlier sessions are taken to be shown already. *)
HasAvatarFetched(p) == p \in stored /\ fetch # NoFetch

HasAvatar(p) == p \in stored

(* One contact, followed by its avatar when the store has it and the read     *)
(* succeeds.                                                                  *)
EmitContact ==
    /\ todo \notin {NoSnapshot, <<>>}
    /\ drawing = "none"
    /\ ThreadFree
    /\ Room
    /\ LET p == Head(todo).peer
           name == Head(todo).name
       IN /\ events' = Append(events, Event("contact", p, Title(p, name)))
          /\ names' = IF name = "named" THEN names \union {p} ELSE names
          /\ todo' = Tail(todo)
          /\ \/ /\ HasAvatar(p)
                /\ Prepare(Self, Raw[p])
                /\ drawing' = p
                /\ UNCHANGED <<budget, missed>>
             \/ /\ HasAvatar(p)
                /\ Spend("fail")
                /\ missed' = TRUE
                /\ UNCHANGED <<avatarVars, drawing>>
             \/ /\ ~HasAvatar(p)
                /\ UNCHANGED <<avatarVars, drawing, budget, missed>>
    /\ UNCHANGED <<storeVars, worker, inbox, request, fetch, got, commands,
                   listVars, identityVars, edited>>

PrepareStep ==
    /\ Work(Self)
    /\ UNCHANGED <<storeVars, budget, workerVars, commands, events, listVars,
                   identityVars, history>>

(* The prepared avatar goes to the adapter; an undecodable one goes as an     *)
(* empty one.                                                                 *)
EmitAvatar ==
    /\ drawing # "none"
    /\ Room
    /\ Returned(Self)
    /\ events' = Append(events, Event("avatar", drawing, given[Self]))
    /\ drawing' = "none"
    /\ UNCHANGED <<storeVars, budget, worker, todo, inbox, names, request,
                   fetch, got, commands, listVars, identityVars, history>>

EndSnapshot ==
    /\ todo = <<>>
    /\ drawing = "none"
    /\ ThreadFree
    /\ Room
    /\ todo' = NoSnapshot
    /\ events' = Append(events, Boundary("end"))
    /\ worker' = IF worker = "snapshot" THEN "notices" ELSE worker
    /\ UNCHANGED <<avatarVars, storeVars, budget, drawing, inbox, names,
                   request, fetch, got, commands, listVars, identityVars,
                   history>>

(* emit_identity_changes: one event for every notice the store still has. *)
Notices(current) ==
    LET changed == {p \in Peers : current[p] # "none"}
    IN SetToSeq({Event("identity", p, current[p]) : p \in changed})

(* The last of the startup phases. *)
BecomeActive ==
    /\ worker = "notices"
    /\ ThreadFree
    /\ Room
    /\ worker' = "active"
    /\ events' = events \o Notices(notice)
    /\ UNCHANGED <<avatarVars, storeVars, budget, todo, drawing, inbox, names,
                   request, fetch, got, commands, listVars, identityVars,
                   history>>

(* The notices are emitted after a received message, after an attachment, a   *)
(* group synchronization and on the outbox's retry tick.  Repetitions of what *)
(* is already queued add nothing and are left out.                            *)
EmitNotices ==
    /\ Idle
    /\ ThreadFree
    /\ Room
    /\ Notices(notice) # <<>>
    /\ \E p \in Peers :
         /\ notice[p] # "none"
         /\ \A i \in DOMAIN events :
              events[i] # Event("identity", p, notice[p])
    /\ events' = events \o Notices(notice)
    /\ UNCHANGED <<avatarVars, storeVars, budget, workerVars, commands,
                   listVars, identityVars, history>>

(* accept_identity_change succeeds for a verified contact's notice only, and  *)
(* leaves the contact unverified.  If there is none, or the store fails, the  *)
(* request error concerns no variable of this module.                         *)
HandleAccept ==
    /\ Idle
    /\ ThreadFree
    /\ Room
    /\ commands # <<>>
    /\ Head(commands).kind = "accept"
    /\ LET p == Head(commands).peer
       IN \/ /\ notice[p] = "verified"
             /\ notice' = [notice EXCEPT ![p] = "none"]
             /\ trusted' = trusted \ {p}
             /\ events' = Append(events, Event("accepted", p, "none"))
                            \o Notices(notice')
          \/ /\ events' = events \o Notices(notice)
             /\ UNCHANGED <<notice, trusted>>
    /\ commands' = Tail(commands)
    /\ UNCHANGED <<avatarVars, roster, stored, budget, workerVars, listVars,
                   identityVars, history>>

(* dismiss_identity_change clears an ordinary notice, and may clear a         *)
(* verified contact's if the store does not spare it.                         *)
Dismissed(p) ==
    {[notice EXCEPT ![p] = IF @ = "plain" THEN "none" ELSE @]}
      \union IF SparesBlocking THEN {} ELSE {[notice EXCEPT ![p] = "none"]}

(* A dismissal the store fails leaves the notice and confirms nothing. *)
HandleDismiss ==
    /\ Idle
    /\ ThreadFree
    /\ Room
    /\ commands # <<>>
    /\ Head(commands).kind = "dismiss"
    /\ LET p == Head(commands).peer
       IN \/ /\ notice' \in Dismissed(p)
             /\ events' = Append(events, Event("identity", p, "plain"))
                            \o Notices(notice')
          \/ /\ events' = events \o Notices(notice)
             /\ UNCHANGED notice
    /\ commands' = Tail(commands)
    /\ UNCHANGED <<avatarVars, roster, stored, trusted, budget, workerVars,
                   listVars, identityVars, history>>

(* Received::QueueEmpty sends the two start signals of this stream. *)
QueueEmpty ==
    /\ Idle
    /\ ThreadFree
    /\ request = "gated"
    /\ request' = "sending"
    /\ fetch' = SetToSeq({p \in Peers : roster[p] # "absent"})
    /\ UNCHANGED <<avatarVars, storeVars, budget, worker, todo, drawing, inbox,
                   names, got, commands, events, listVars, identityVars,
                   history>>

(* The stream ends: its tasks are stopped and its reports dropped. *)
LoseStream ==
    /\ Idle
    /\ ThreadFree
    /\ drawing = "none"
    /\ Spend("loss")
    /\ worker' = "recovery"
    /\ request' = "gated"
    /\ fetch' = NoFetch
    /\ got' = "none"
    /\ inbox' = 0
    /\ UNCHANGED <<avatarVars, storeVars, todo, drawing, names, commands,
                   events, listVars, identityVars, history>>

Reconnect ==
    /\ worker = "recovery"
    /\ worker' = "snapshot"
    /\ UNCHANGED <<avatarVars, storeVars, budget, todo, drawing, inbox, names,
                   request, fetch, got, commands, events, listVars,
                   identityVars, history>>

-----------------------------------------------------------------------------
(* The tasks that wait for the queue to drain. *)

RequestSucceeds ==
    /\ request = "sending"
    /\ ThreadFree
    /\ request' = "done"
    /\ UNCHANGED <<avatarVars, storeVars, budget, worker, todo, drawing, inbox,
                   names, fetch, got, commands, events, listVars, identityVars,
                   history>>

(* The transient error this emits concerns no variable of this module.        *)
RequestFails ==
    /\ request = "sending"
    /\ ThreadFree
    /\ Spend("fail")
    /\ request' = "delay"
    /\ UNCHANGED <<avatarVars, storeVars, worker, todo, drawing, inbox, names,
                   fetch, got, commands, events, listVars, identityVars,
                   history>>

RequestAgain ==
    /\ request = "delay"
    /\ ThreadFree
    /\ request' = "sending"
    /\ UNCHANGED <<avatarVars, storeVars, budget, worker, todo, drawing, inbox,
                   names, fetch, got, commands, events, listVars, identityVars,
                   history>>

(* The next contact: skipped when the store has its avatar, when there is     *)
(* none to download and when the download fails.  A downloaded avatar is in   *)
(* the store before the task continues.                                       *)
FetchNext ==
    /\ fetch \notin {NoFetch, <<>>}
    /\ got = "none"
    /\ ThreadFree
    /\ fetch' = Tail(fetch)
    /\ \/ UNCHANGED <<got, stored, budget>>
       \/ /\ Head(fetch) \notin stored
          /\ Spend("avatar")
          /\ stored' = stored \union {Head(fetch)}
          /\ got' = Head(fetch)
    /\ UNCHANGED <<avatarVars, roster, trusted, notice, worker, todo, drawing,
                   inbox, names, request, commands, events, listVars,
                   identityVars, history>>

FetchPrepares ==
    /\ got # "none"
    /\ drawing = "none"
    /\ ThreadFree
    /\ Prepare(Self, Raw[got])
    /\ drawing' = got
    /\ got' = "none"
    /\ UNCHANGED <<storeVars, budget, worker, todo, inbox, names, request,
                   fetch, commands, events, listVars, identityVars, history>>

-----------------------------------------------------------------------------
(* The adapter. *)

Listed(p) == {b \in buddies : b.peer = p}

(* signal_blist_sync_find_buddy: managed and legacy, managed, legacy, any.    *)
(* Several buddies of one rank: the one libpurple lists first.                *)
FindBuddy(list, p) ==
    LET mine == {b \in list : b.peer = p}
        Rank(b) == IF b.managed THEN (IF b.group = "legacy" THEN 1 ELSE 2)
                                ELSE (IF b.group = "legacy" THEN 3 ELSE 4)
    IN {b \in mine : \A c \in mine : Rank(b) <= Rank(c)}

(* Mutant: any unmarked buddy of the contact is adopted. *)
AdoptAny(b) ==
    IF b.group = "legacy" THEN [b EXCEPT !.managed = TRUE, !.group = "default"]
                          ELSE [b EXCEPT !.managed = TRUE]

(* A buddy in the legacy group becomes managed and moves to the default one. *)
Adopt(b) ==
    IF b.group = "legacy" THEN [b EXCEPT !.managed = TRUE, !.group = "default"]
                          ELSE b

(* Moving a buddy where the contact already has one destroys the moved one. *)
Move(list, b, c) ==
    IF b.group # c.group /\ \E d \in list : d.peer = c.peer /\ d.group = c.group
      THEN list \ {b}
      ELSE (list \ {b}) \union {c}

AddContact(p) ==
    \/ /\ Listed(p) = {}
       /\ buddies' = buddies \union
            {[peer |-> p, group |-> "default", managed |-> TRUE]}
    \/ \E b \in FindBuddy(buddies, p) : buddies' = Move(buddies, b, Adopt(b))

(* Mutant: only contacts new to the buddy list are marked. *)
MarksNew(p) == IF syncing /\ Listed(p) = {} THEN marked \union {p} ELSE marked

(* signal_contact_sync_mark *)
Marks(p) == IF syncing THEN marked \union {p} ELSE marked

HandleContact(e) ==
    /\ e.kind = "contact"
    /\ marked' = Marks(e.peer)
    /\ AddContact(e.peer)
    /\ alias' = [alias EXCEPT ![e.peer] =
                   IF e.value = "name" THEN "name" ELSE "phone"]
    /\ UNCHANGED <<syncing, icons, identityVars, commands>>

HandleBegin(e) ==
    /\ e.kind = "begin"
    /\ syncing' = TRUE
    /\ marked' = {}
    /\ UNCHANGED <<buddies, alias, icons, identityVars, commands>>

HandleEnd(e) ==
    /\ e.kind = "end"
    /\ buddies' = IF syncing
                    THEN {b \in buddies : b.managed => b.peer \in marked}
                    ELSE buddies
    /\ syncing' = FALSE
    /\ marked' = {}
    /\ UNCHANGED <<alias, icons, identityVars, commands>>

HandleAvatar(e) ==
    /\ e.kind = "avatar"
    /\ icons' = icons \union {e.peer}
    /\ UNCHANGED <<syncing, marked, buddies, alias, identityVars, commands>>

(* The command channel refuses what does not fit; the adapter only logs it. *)
Queue(kind, p) ==
    commands' = IF Len(commands) < Capacity
                  THEN Append(commands, [kind |-> kind, peer |-> p])
                  ELSE commands

HandleIdentity(e) ==
    /\ e.kind = "identity"
    /\ IF e.peer \in told
         THEN UNCHANGED <<identityVars, commands>>
         ELSE /\ told' = told \union {e.peer}
              /\ IF e.value = "verified"
                   THEN /\ pending' = pending \union {e.peer}
                        /\ UNCHANGED <<advised, commands>>
                   ELSE /\ Queue("dismiss", e.peer)
                        /\ advised' = advised \union {e.peer}
                        /\ UNCHANGED pending
    /\ UNCHANGED listVars

(* Mutant: the notice is forgotten, the accept action stays. *)
AcceptedKeepsOffer(e) ==
    /\ e.kind = "accepted"
    /\ told' = told \ {e.peer}
    /\ advised' = advised \ {e.peer}
    /\ UNCHANGED <<pending, listVars, commands>>

(* Mutant: the accept action goes, the notice is still taken for seen. *)
AcceptedKeepsSeen(e) ==
    /\ e.kind = "accepted"
    /\ pending' = pending \ {e.peer}
    /\ advised' = advised \ {e.peer}
    /\ UNCHANGED <<told, listVars, commands>>

HandleAccepted(e) ==
    /\ e.kind = "accepted"
    /\ pending' = pending \ {e.peer}
    /\ told' = told \ {e.peer}
    /\ advised' = advised \ {e.peer}
    /\ UNCHANGED <<listVars, commands>>

PollEvent ==
    /\ events # <<>>
    /\ LET e == Head(events)
       IN \/ HandleBegin(e)
          \/ HandleContact(e)
          \/ HandleAvatar(e)
          \/ HandleEnd(e)
          \/ HandleIdentity(e)
          \/ HandleAccepted(e)
    /\ events' = Tail(events)
    /\ UNCHANGED <<avatarVars, storeVars, budget, workerVars, history>>

(* The action is offered on a buddy whose contact has a pending change. *)
UserAccepts(p) ==
    /\ p \in pending
    /\ Listed(p) # {}
    /\ Len(commands) < Capacity
    /\ Queue("accept", p)
    /\ UNCHANGED <<avatarVars, storeVars, budget, workerVars, events, listVars,
                   identityVars, history>>

UserEdits(p) ==
    /\ Spend("edit")
    /\ \/ \E g \in Groups :
            /\ \A b \in Listed(p) : b.group # g
            /\ buddies' = buddies \union
                 {[peer |-> p, group |-> g, managed |-> FALSE]}
       \/ \E b \in Listed(p), g \in Groups :
            /\ b.group # g
            /\ buddies' = Move(buddies, b, [b EXCEPT !.group = g])
       \/ \E b \in Listed(p) : buddies' = buddies \ {b}
    /\ edited' = edited \union {p}
    /\ UNCHANGED <<avatarVars, storeVars, workerVars, commands, events,
                   syncing, marked, alias, icons, identityVars, missed>>

(* The account is disconnected or the process dies, and a new session starts. *)
NextSession ==
    /\ Spend("restart")
    /\ ProcessDies
    /\ worker' = "snapshot"
    /\ todo' = NoSnapshot
    /\ drawing' = "none"
    /\ inbox' = 0
    /\ names' = {}
    /\ request' = "gated"
    /\ fetch' = NoFetch
    /\ got' = "none"
    /\ commands' = <<>>
    /\ events' = <<>>
    /\ syncing' = FALSE
    /\ marked' = {}
    /\ told' = {}
    /\ pending' = {}
    /\ advised' = {}
    /\ UNCHANGED <<storeVars, buddies, alias, icons, history>>

-----------------------------------------------------------------------------

Snapshot ==
    \/ BeginSnapshot
    \/ SnapshotFails
    \/ EmitContact
    \/ EndSnapshot

Commanded ==
    \/ HandleAccept
    \/ HandleDismiss

Requesting ==
    \/ RequestSucceeds
    \/ RequestFails
    \/ RequestAgain

Fetching ==
    \/ FetchNext
    \/ FetchPrepares

Drawing ==
    \/ PrepareStep
    \/ EmitAvatar

Outside ==
    \/ StoreContacts
    \/ \E p \in Peers : IdentityChanges(p) \/ Verify(p) \/ UserEdits(p)
    \/ \E p \in Peers : UserAccepts(p)
    \/ NextSession
    \/ LoseStream

Next ==
    \/ Outside
    \/ Snapshot
    \/ Drawing
    \/ BecomeActive
    \/ EmitNotices
    \/ Commanded
    \/ QueueEmpty
    \/ Reconnect
    \/ Requesting
    \/ Fetching
    \/ PollEvent

Spec == Init /\ [][Next]_vars

(* The worker's loop and its tasks run on, the server drains the queue of a   *)
(* stream that stays up and lets a connection through, the retry tick comes   *)
(* round, and the adapter's poll source is called.                            *)
Fairness ==
    /\ WF_vars(Snapshot)
    /\ WF_vars(Drawing)
    /\ WF_vars(BecomeActive)
    /\ WF_vars(EmitNotices)
    /\ WF_vars(Commanded)
    /\ WF_vars(QueueEmpty)
    /\ WF_vars(Reconnect)
    /\ WF_vars(RequestSucceeds)
    /\ WF_vars(RequestAgain)
    /\ WF_vars(Fetching)
    /\ WF_vars(PollEvent)

FairSpec == Spec /\ Fairness

-----------------------------------------------------------------------------

TypeOK ==
    /\ AvatarTypeOK
    /\ roster \in [Peers -> {"absent", "unnamed", "named"}]
    /\ stored \subseteq Peers
    /\ trusted \subseteq Peers
    /\ notice \in [Peers -> {"none", "plain", "verified"}]
    /\ worker \in {"snapshot", "notices", "active", "recovery"}
    /\ drawing \in Peers \union {"none"}
    /\ got \in Peers \union {"none"}
    /\ inbox \in Nat
    /\ request \in {"gated", "sending", "delay", "done"}
    /\ Len(commands) <= Capacity
    /\ buddies \subseteq Buddies
    /\ pending \union advised \subseteq told

-----------------------------------------------------------------------------
(* Safety *)

Present == {p \in Peers : roster[p] # "absent"}

AtRest ==
    /\ Idle
    /\ inbox = 0
    /\ events = <<>>

(* Once every queue between them is empty, the buddy list agrees with the     *)
(* stored contacts: every contact has a buddy, and no managed buddy is left   *)
(* of one that is gone.  Excepted are contacts whose buddies the user changed *)
(* after the snapshot was read, and snapshots that could not be read.  This   *)
(* spans emit_contact_snapshot, the stale list it works from, reconnects and  *)
(* sessions cut between the boundaries, and signal_end_contact_sync.          *)
BuddiesAgree ==
    AtRest /\ ~missed =>
      \A p \in Peers \ edited :
        /\ p \in Present => Listed(p) # {}
        /\ p \notin Present => \A b \in Listed(p) : ~b.managed

(* The session has shown the contact by name and has nothing else on the way. *)
NameShown(p) ==
    /\ p \in names /\ alias[p] = "name"
    /\ \A i \in DOMAIN events : events[i] # Event("contact", p, "none")

(* "User-made buddies without the managed marker are never swept"             *)
(* (docs/architecture.md): outside the legacy group an unmarked buddy is      *)
(* neither removed, moved nor marked by anyone but the user, whatever         *)
(* snapshots and adoptions come.  Nor does a contact that the session has     *)
(* shown under its name go back to its number before the session ends, even   *)
(* after it left the list and returned: the name cache is "used as a fallback *)
(* when a later sync briefly reports an empty name" (coordinator.rs:104).     *)
UserBuddiesKept ==
    [][/\ budget'["edit"] = budget["edit"] =>
            \A b \in buddies :
              ~b.managed /\ b.group # "legacy" => b \in buddies'
       /\ budget'["restart"] = budget["restart"] =>
            \A p \in Peers : NameShown(p) => NameShown(p)']_vars

(* The accept action on a buddy is not left over: while a change is pending   *)
(* in the adapter the store still blocks the contact, or the acceptance is on *)
(* its way.  Notices are emitted again and again, dismissed and accepted over *)
(* two queues, so this is about their order.                                  *)
OfferIsLive ==
    \A p \in pending :
      \/ notice[p] = "verified"
      \/ \E i \in DOMAIN events : events[i] = Event("accepted", p, "none")

(* "Explicitly verified contacts are blocked only for sending and expose an   *)
(* acceptance action on that buddy" (docs/architecture.md).  The adapter      *)
(* ignores every notice after the first until an acceptance, so a contact     *)
(* dismissed as unverified and verified since is blocked without the action.  *)
BlockedIsOffered ==
    AtRest /\ commands = <<>> =>
      \A p \in Peers : notice[p] = "verified" /\ p \in told => p \in pending

-----------------------------------------------------------------------------
(* Liveness *)

(* Every notice the store keeps is settled, or its contact has the accept     *)
(* action, or the user was advised of a change since the last acceptance.     *)
(* So each acceptance clears the way for the next change, whatever notices    *)
(* were queued around it and whether the store took it: a contact left in     *)
(* identity_changes_seen would never be reported again.  The third case       *)
(* includes a notice the adapter ignores because of an earlier one: for a     *)
(* contact verified in between BlockedIsOffered says what is then missing.    *)
NoticeShown ==
    \A p \in Peers :
      notice[p] # "none" ~> notice[p] = "none" \/ p \in pending \union advised

(* What waits for the drained queue gets done.  The contact request of a      *)
(* stream is sent: the start signal of QueueEmpty is not lost and failures    *)
(* are retried, unless the stream goes.  An avatar in the store reaches the   *)
(* buddy list, though the session may end between its download and its event: *)
(* the next snapshot carries it.                                              *)
AvatarShown ==
    /\ worker = "active" ~> request = "done" \/ worker # "active"
    /\ \A p \in Peers :
         p \in stored /\ p \in Present
           ~> p \in icons \/ p \notin Present \/ missed

(* "Transient store contention reading synchronized Signal contacts;          *)
(* deferring" (coordinator.rs:904): nothing takes the snapshot up again while *)
(* the stream lives.                                                          *)
SnapshotDeferred == missed ~> ~missed
============================================================================
