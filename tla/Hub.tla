-------------------------------- MODULE Hub --------------------------------
(***************************************************************************)
(* The API's live feed: the hub (internal/api/ws.go) keeps a ring of the   *)
(* newest blocks per network, refreshes it from the blocks table when a    *)
(* notification arrives (or when a subscriber finds it empty), and fans    *)
(* what it found out to the sockets registered on the network.             *)
(*                                                                         *)
(* A block is its number and a hash; a hash is the number of the reorg the *)
(* block was stored after.  Rings, pages and views have one block per      *)
(* number and are ordered by it, so they are sets here.  A client's send   *)
(* queue is FIFO and is either written in order or thrown away with the    *)
(* client: the model keeps its length, and in "view" what the peer (the    *)
(* web client's useLive) holds once it has read the whole queue.           *)
(***************************************************************************)
EXTENDS Integers, Sequences, FiniteSets, FiniteSetsExt

CONSTANTS
    Networks,       \* the chains served
    Clients,        \* sockets; each connects at most once
    Address,        \* the address each client connects from
    Warm,           \* whether earlier clients had ring, snapshot and owner cursor filled
    SeedHeight,     \* blocks stored when the API starts
    MaxHeight,      \* bound: the highest block stored
    MaxForks,       \* bound: rewinds of a chain's table
    MaxCommits,     \* bound: ticks committed per network
    MaxAdvance,     \* bound: blocks one tick stores
    MaxActions,     \* bound: owner actions recorded per network
    Behind,         \* whether an owner action can be recorded below an earlier one
    MaxOutages,     \* bound: losses of the LISTEN connection
    MaxFaults,      \* bound: failing queries
    RingSize,       \* ringSize
    HelloBlocks,    \* helloBlocks
    QueueSize,      \* Hub.queueSize
    MissedPingLimit,\* missedPingLimit
    MaxTotal,       \* Hub.maxTotal
    MaxPerIP,       \* Hub.maxPerIP
    Answers         \* the clients whose peer answers pings

Loop == "Hub.Run"
NoOne == "nobody"

HubAssumption ==
    /\ {Loop, NoOne} \cap Clients = {} /\ NoOne \notin Networks
    /\ Address \in [Clients -> {Address[c] : c \in Clients}]
    /\ \A n \in {MaxHeight, RingSize, HelloBlocks, QueueSize, MaxTotal, MaxPerIP} : n \in Nat \ {0}
    /\ \A n \in {MaxForks, MaxCommits, MaxAdvance, MaxActions, MaxOutages, MaxFaults, MissedPingLimit} : n \in Nat
    /\ SeedHeight \in 1 .. MaxHeight
    /\ Warm \in BOOLEAN /\ Behind \in BOOLEAN /\ Answers \subseteq Clients /\ HelloBlocks <= RingSize

VARIABLES
    table,      \* db: the newest rows of the blocks table, per network
    forks,      \* how often each table was rewound
    samples,    \* db: state_samples, [n |-> block, at |-> when], per network
    acts,       \* db: owner_actions, named by the block they are in
    scanned,    \* db: the highest block an owner action was recorded at
    commits,    \* ticks committed per network
    faults,     \* failed queries and outages so far, and the networks "torn":
                \* where a rewind took rows a refresh had read and it read on;
                \* "late": where a query of Hub.Run failed, or a reconcile
                \* found no client, and nothing was notified since; "unmade":
                \* where a reconcile's query failed
    up,         \* whether the LISTEN connection is established
    inbox,      \* notifications the listener has queued for the hub
    ring,       \* netState.blocks
    lock,       \* netState.refreshMu: its holder
    snap,       \* netState.snapshot, NoSample without one
    owner,      \* netState.ownerInit, ownerSince, seen
    members,    \* netState.clients
    slots,      \* Hub.total and Hub.perIP
    conn,       \* the client structs and what their peers see
    task        \* what Hub.Run and each client's connection goroutine are doing

env == <<table, forks, samples, acts, scanned, commits, up, inbox>>
nets == <<ring, lock, snap, owner>>
vars == <<table, forks, samples, acts, scanned, commits, faults, up, inbox, ring, lock, snap, owner,
          members, slots, conn, task>>

Procs == {Loop} \cup Clients
Block == [n : 1 .. MaxHeight, h : 0 .. MaxForks]
Delta == [reorg : BOOLEAN, anc : 0 .. MaxHeight, blocks : SUBSET Block]
NoDelta == [reorg |-> FALSE, anc |-> 0, blocks |-> {}]

Last(S) == IF S = {} THEN 0 ELSE Max({b.n : b \in S})
Lowest(S) == IF S = {} THEN 0 ELSE Min({b.n : b \in S})
UpTo(S, n) == {b \in S : b.n <= n}
Above(S, n) == {b \in S : b.n > n}
Newest(S, k) == {b \in S : Cardinality(Above(S, b.n)) < k}
Oldest(S, k) == {b \in S : Cardinality({d \in S : d.n < b.n}) < k}
NoSample == [n |-> 0, at |-> 0]
LatestSample(net) ==
    IF samples[net] = {} THEN NoSample
    ELSE CHOOSE s \in samples[net] : \A r \in samples[net] : r.at <= s.at

Idle == [pc |-> "idle", net |-> NoOne, for |-> "", rows |-> {}, from |-> 0, delta |-> NoDelta,
         tick |-> NoSample, since |-> 0, todo |-> {}, noSnap |-> FALSE, latest |-> {}]

(* A socket before its handshake. *)
NewConn == [st |-> "new", net |-> NoOne, mark |-> 0, queued |-> 0, dropped |-> FALSE, missed |-> 0,
            view |-> {}, floor |-> 0, tick |-> NoSample, got |-> {}, owed |-> {}]

-----------------------------------------------------------------------------
(* The collector and PostgreSQL.  A commit and its NOTIFY are one          *)
(* transaction; without a LISTEN connection the notification is lost.      *)
Notified(n) == inbox' = IF up THEN Append(inbox, n) ELSE inbox

Live(net, s) == [kind |-> "live", net |-> net, tick |-> s, act |-> {}]
Acted(net, a) == [kind |-> "action", net |-> net, tick |-> NoSample, act |-> {a}]
Reconnected == [kind |-> "reconnected", net |-> NoOne, tick |-> NoSample, act |-> {}]

(* A sample's time: a later one follows every commit and every rewind. *)
SampleAt(net, n, committed) == [n |-> n, at |-> committed + forks[net]]

Commit(net) ==
    /\ commits[net] < MaxCommits
    /\ commits' = [commits EXCEPT ![net] = @ + 1]
    /\ \E k \in 1 .. MaxAdvance :
           LET old == Last(table[net])
               new == {[n |-> i, h |-> forks[net]] : i \in old + 1 .. old + k}
           IN  /\ old + k <= MaxHeight
               /\ table' = [table EXCEPT ![net] = @ \cup new]
               /\ samples' = [samples EXCEPT ![net] = @ \cup {SampleAt(net, old + k, commits[net] + 1)}]
               /\ Notified(Live(net, SampleAt(net, old + k, commits[net] + 1)))
    /\ UNCHANGED <<forks, acts, scanned, faults, up, nets, members, slots, conn, task>>

(* The rewind transaction: rows, samples and owner actions above the       *)
(* ancestor go; nothing is notified until the next tick commits.           *)
Rewind(net) ==
    /\ forks[net] < MaxForks
    /\ forks' = [forks EXCEPT ![net] = @ + 1]
    /\ \E a \in 1 .. Last(table[net]) - 1 :
           /\ table' = [table EXCEPT ![net] = UpTo(@, a)]
           /\ samples' = [samples EXCEPT ![net] = UpTo(@, a)]
           /\ acts' = [acts EXCEPT ![net] = UpTo(@, a)]
           /\ scanned' = [scanned EXCEPT ![net] = Min({@, a})]
           /\ conn' = [c \in Clients |-> IF conn[c].net = net
                                         THEN [conn[c] EXCEPT !.owed = UpTo(@, a)] ELSE conn[c]]
    /\ UNCHANGED <<commits, faults, up, inbox, nets, members, slots, task>>

(* "owed" leaves out what the code is known to lose: an action recorded    *)
(* below an earlier one while nobody listens (ActionsReach).               *)
RecordAction(net) ==
    /\ Cardinality(acts[net]) < MaxActions
    /\ \E b \in table[net] \ acts[net] :
           /\ Behind \/ b.n > scanned[net]
           /\ acts' = [acts EXCEPT ![net] = @ \cup {b}]
           /\ scanned' = [scanned EXCEPT ![net] = Max({@, b.n})]
           /\ Notified(Acted(net, b))
           /\ conn' = [c \in Clients |-> IF c \in members[net] /\ (up \/ b.n > scanned[net])
                                         THEN [conn[c] EXCEPT !.owed = @ \cup {b}] ELSE conn[c]]
    /\ UNCHANGED <<table, forks, samples, commits, faults, up, nets, members, slots, task>>

(* A tick of a quiet chain, bounded to one notification at a time. *)
Retick(net) ==
    /\ inbox = <<>> /\ up /\ task[Loop] = Idle
    /\ samples' = [samples EXCEPT ![net] = @ \cup {SampleAt(net, Last(table[net]), commits[net])}]
    /\ Notified(Live(net, SampleAt(net, Last(table[net]), commits[net])))
    /\ UNCHANGED <<table, forks, acts, scanned, commits, faults, up, nets, members, slots, conn, task>>

Disconnect ==
    /\ up /\ faults.outages < MaxOutages
    /\ faults' = [faults EXCEPT !.outages = @ + 1]
    /\ up' = FALSE
    /\ UNCHANGED <<table, forks, samples, acts, scanned, commits, inbox, nets, members, slots, conn, task>>

(* PQListener.pump turns lib/pq's nil notification into this one. *)
Reconnect ==
    /\ ~up
    /\ up' = TRUE
    /\ inbox' = Append(inbox, Reconnected)
    /\ UNCHANGED <<table, forks, samples, acts, scanned, commits, faults, nets, members, slots, conn, task>>

-----------------------------------------------------------------------------
(* The client: its queue, and the peer's useLive behind it. *)
Closing(k) == k.st # "open"

Drop(k) == [k EXCEPT !.dropped = TRUE, !.st = "closing"]

(* enqueue: a closing client accepts nothing, a full queue drops the client. *)
Enqueue(k, seen) ==
    IF Closing(k) THEN k
    ELSE IF k.queued = QueueSize THEN Drop(k)
    ELSE [seen EXCEPT !.queued = @ + 1]

AppendBlocks(view, blocks) == view \cup Above(blocks, Last(view))

DeliverBlocks(k, blocks) ==
    LET fresh == Above(blocks, k.mark)
        moved == [k EXCEPT !.mark = Last(fresh)]
    IN  IF fresh = {} THEN k ELSE Enqueue(moved, [moved EXCEPT !.view = AppendBlocks(@, fresh)])

DeliverTick(k, s) == IF s = NoSample THEN k ELSE Enqueue(k, [k EXCEPT !.tick = s])

DeliverReorg(k, d) ==
    LET low == [k EXCEPT !.mark = Min({@, d.anc})]
    IN  IF ~d.reorg THEN k
        ELSE Enqueue(low, [low EXCEPT !.view = AppendBlocks(UpTo(@, d.anc), d.blocks),
                                      !.tick = IF @.n > d.anc THEN NoSample ELSE @])

(* Mutant: a reorg leaves the watermark where it was. *)
FanOutKeepingMark(net, d, s) ==
    [c \in Clients |->
        IF c \in members[net]
        THEN [DeliverBlocks(DeliverTick(DeliverReorg(conn[c], d), s), IF d.reorg THEN {} ELSE d.blocks)
              EXCEPT !.mark = Max({@, conn[c].mark})]
        ELSE conn[c]]

(* fanOut: reorg, tick, blocks, in the order clients must apply them. *)
FanOut(net, d, s) ==
    [c \in Clients |->
        IF c \in members[net]
        THEN DeliverBlocks(DeliverTick(DeliverReorg(conn[c], d), s), IF d.reorg THEN {} ELSE d.blocks)
        ELSE conn[c]]

(* markSeen and forgetActionsAbove; the seen list's cap is not reached. *)
MarkSeen(o, A) == [o EXCEPT !.seen = @ \cup A, !.since = Max({@} \cup {a.n : a \in A})]
ForgetActionsAbove(o, n) == [o EXCEPT !.seen = UpTo(@, n), !.since = Min({@, n})]

-----------------------------------------------------------------------------
(* refreshBlocks: serialized by refreshMu, querying without h.mu. *)
At(p, pc) == task[p].pc = pc
Goto(p, pc) == task' = [task EXCEPT ![p].pc = pc]
Cancelled(p) == p \in Clients /\ conn[p].st \in {"cancelled", "gone"}
Fails(p) == faults.queries < MaxFaults \/ Cancelled(p)
Blamed(p) == IF p = Loop THEN {task[p].net} ELSE {}
Failing(p) ==
    faults' = IF Cancelled(p) THEN faults
              ELSE [faults EXCEPT !.queries = @ + 1, !.late = @ \cup Blamed(p),
                                  !.unmade = IF task[p].for = "reconcile" THEN @ \cup Blamed(p) ELSE @]
Answered(p) == ~Cancelled(p)

RefreshLock(p) ==
    LET net == task[p].net IN
    /\ At(p, "lock") /\ lock[net] = NoOne
    /\ lock' = [lock EXCEPT ![net] = p]
    /\ task' = [task EXCEPT ![p].pc = "page", ![p].from = IF ring[net] = {} THEN 0 ELSE Last(ring[net]) - 1,
                            ![p].rows = {}]
    /\ UNCHANGED <<env, faults, ring, snap, owner, members, slots, conn>>

TipOf(S) == {b \in S : b.n = Last(S)}

ReadPage(p) ==
    LET net  == task[p].net
        page == IF ring[net] = {} THEN Newest(table[net], HelloBlocks)
                ELSE Oldest(Above(table[net], task[p].from), RingSize)
        rows == task[p].rows \cup page
        more == ring[net] # {} /\ Cardinality(page) = RingSize
    IN  /\ At(p, "page") /\ Answered(p)
        /\ task' = [task EXCEPT ![p].rows = rows,
                                ![p].from = IF more THEN Last(page) ELSE 0,
                                ![p].pc = IF more THEN "page"
                                          ELSE IF TipOf(ring[net]) \subseteq rows THEN "append" ELSE "recent"]
        /\ faults' = IF task[p].rows \subseteq table[net] THEN faults ELSE [faults EXCEPT !.torn = @ \cup {net}]
        /\ UNCHANGED <<env, nets, members, slots, conn>>

(* Filtered against the ring as it is now. *)
AppendRows(p) ==
    LET net == task[p].net
        added == Above(task[p].rows, Last(ring[net]))
    IN  /\ At(p, "append")
        /\ ring' = [ring EXCEPT ![net] = Newest(@ \cup added, RingSize)]
        /\ lock' = [lock EXCEPT ![net] = NoOne]
        /\ task' = [task EXCEPT ![p].pc = "deliver", ![p].rows = {},
                                ![p].delta = [NoDelta EXCEPT !.blocks = added]]
        /\ UNCHANGED <<env, faults, snap, owner, members, slots, conn>>

ReadRecent(p) ==
    /\ At(p, "recent") /\ Answered(p)
    /\ task' = [task EXCEPT ![p].rows = Newest(table[task[p].net], RingSize), ![p].pc = "replace"]
    /\ UNCHANGED <<env, faults, nets, members, slots, conn>>

(* Mutant: the ancestor is looked for by number alone. *)
AgreeingByNumber(S, rows) == {b \in S : \E r \in rows : r.n = b.n}

(* The ring entries whose row still exists with the same hash. *)
Agreeing(S, rows) == S \cap rows

(* reorgRing: everything above the highest agreeing entry is replaced. *)
ReplaceRing(p) ==
    LET net == task[p].net
        anc == Last(Agreeing(ring[net], task[p].rows))
        new == Above(task[p].rows, anc)
    IN  /\ At(p, "replace")
        /\ ring' = [ring EXCEPT ![net] = Newest(UpTo(@, anc) \cup new, RingSize)]
        /\ owner' = [owner EXCEPT ![net] = ForgetActionsAbove(@, anc)]
        /\ lock' = [lock EXCEPT ![net] = NoOne]
        /\ task' = [task EXCEPT ![p].pc = "deliver", ![p].rows = {},
                                ![p].delta = [reorg |-> TRUE, anc |-> anc, blocks |-> new]]
        /\ UNCHANGED <<env, faults, snap, members, slots, conn>>

(* Mutant: an early return forgets refreshMu. *)
RefreshFailsLocked(p) ==
    /\ task[p].pc \in {"page", "recent"} /\ Fails(p) /\ Failing(p)
    /\ task' = [task EXCEPT ![p].pc = IF p = Loop THEN "deliver" ELSE "refuse",
                            ![p].rows = {}, ![p].from = 0]
    /\ UNCHANGED <<env, nets, members, slots, conn>>

(* A failed refresh delivers nothing; handleLive and reconcile go on. *)
RefreshFails(p) ==
    /\ task[p].pc \in {"page", "recent"} /\ Fails(p) /\ Failing(p)
    /\ lock' = [lock EXCEPT ![task[p].net] = NoOne]
    /\ task' = [task EXCEPT ![p].pc = IF p = Loop THEN "deliver" ELSE "refuse",
                            ![p].rows = {}, ![p].from = 0]
    /\ UNCHANGED <<env, ring, snap, owner, members, slots, conn>>

Refresh(p) ==
    RefreshLock(p) \/ ReadPage(p) \/ AppendRows(p) \/ ReadRecent(p) \/ ReplaceRing(p) \/ RefreshFails(p)

-----------------------------------------------------------------------------
(* Hub.Run and Handle. *)
HandleLive ==
    /\ inbox # <<>> /\ At(Loop, "idle") /\ Head(inbox).kind = "live"
    /\ inbox' = Tail(inbox)
    /\ task' = [task EXCEPT ![Loop] = [Idle EXCEPT !.pc = "lock", !.for = "live",
                                                   !.net = Head(inbox).net, !.tick = Head(inbox).tick]]
    /\ faults' = [faults EXCEPT !.late = @ \ {Head(inbox).net}]
    /\ UNCHANGED <<table, forks, samples, acts, scanned, commits, up, nets, members, slots, conn>>

FanOutLive ==
    LET t == task[Loop] IN
    /\ At(Loop, "deliver") /\ t.for = "live"
    /\ snap' = [snap EXCEPT ![t.net] = t.tick]
    /\ conn' = FanOut(t.net, t.delta, t.tick)
    /\ task' = [task EXCEPT ![Loop] = Idle]
    /\ UNCHANGED <<env, faults, ring, lock, owner, members, slots>>

(* One message an action; a client whose queue they overflow is dropped    *)
(* on the way, and nobody reads what it had got.                           *)
DeliverEach(k, A) ==
    IF A = {} \/ Closing(k) THEN k
    ELSE IF Cardinality(A) > QueueSize - k.queued THEN Drop([k EXCEPT !.queued = QueueSize])
    ELSE [k EXCEPT !.got = @ \cup A, !.queued = @ + Cardinality(A)]

DeliverActions(net, A) ==
    [c \in Clients |-> IF c \in members[net] THEN DeliverEach(conn[c], A \ owner[net].seen) ELSE conn[c]]

HandleOwnerAction ==
    LET n == Head(inbox) IN
    /\ inbox # <<>> /\ At(Loop, "idle") /\ n.kind = "action"
    /\ inbox' = Tail(inbox)
    /\ conn' = DeliverActions(n.net, n.act)
    /\ owner' = [owner EXCEPT ![n.net] = IF n.act \subseteq @.seen THEN @ ELSE MarkSeen(@, n.act)]
    /\ UNCHANGED <<table, forks, samples, acts, scanned, commits, up, faults, ring, lock, snap, members, slots, task>>

(* reconcile: the networks with clients, one after the other. *)
Reconcile ==
    /\ inbox # <<>> /\ At(Loop, "idle") /\ Head(inbox).kind = "reconnected"
    /\ inbox' = Tail(inbox)
    /\ task' = [task EXCEPT ![Loop] = [Idle EXCEPT !.pc = "next", !.for = "reconcile",
                                                   !.todo = {net \in Networks : members[net] # {}}]]
    /\ faults' = [faults EXCEPT !.late = @ \cup {net \in Networks : members[net] = {}}]
    /\ UNCHANGED <<table, forks, samples, acts, scanned, commits, up, nets, members, slots, conn>>

ReconcileNext ==
    /\ At(Loop, "next")
    /\ \/ \E net \in task[Loop].todo :
              /\ task' = [task EXCEPT ![Loop].pc = "lock", ![Loop].net = net, ![Loop].todo = @ \ {net}]
              /\ faults' = [faults EXCEPT !.late = @ \ {net}]
       \/ task[Loop].todo = {} /\ task' = [task EXCEPT ![Loop] = Idle] /\ UNCHANGED faults
    /\ UNCHANGED <<env, nets, members, slots, conn>>

(* newerSnapshot reads the newest sample; a failed read is no update. *)
NewerSnapshot ==
    LET t == task[Loop] IN
    /\ At(Loop, "deliver") /\ t.for = "reconcile"
    /\ \/ /\ task' = [task EXCEPT ![Loop].pc = "made_up",
                                  ![Loop].tick = IF LatestSample(t.net).at > snap[t.net].at THEN LatestSample(t.net) ELSE NoSample]
          /\ UNCHANGED faults
       \/ Fails(Loop) /\ Failing(Loop) /\ Goto(Loop, "made_up")
    /\ UNCHANGED <<env, nets, members, slots, conn>>

FanOutReconciled ==
    LET t == task[Loop] IN
    /\ At(Loop, "made_up")
    /\ snap' = [snap EXCEPT ![t.net] = IF t.tick = NoSample THEN @ ELSE t.tick]
    /\ conn' = FanOut(t.net, t.delta, t.tick)
    /\ task' = [task EXCEPT ![Loop].pc = "actions", ![Loop].since = owner[t.net].since,
                            ![Loop].delta = NoDelta, ![Loop].tick = NoSample]
    /\ UNCHANGED <<env, faults, ring, lock, owner, members, slots>>

OwnerActionsSince ==
    LET t == task[Loop] IN
    /\ At(Loop, "actions")
    /\ \/ /\ task' = [task EXCEPT ![Loop].pc = "mark", ![Loop].latest = {a \in acts[t.net] : a.n >= t.since}]
          /\ UNCHANGED faults
       \/ Fails(Loop) /\ Failing(Loop) /\ task' = [task EXCEPT ![Loop].pc = "next", ![Loop].since = 0]
    /\ UNCHANGED <<env, nets, members, slots, conn>>

(* Mutant: the loop ends at the first action already delivered. *)
DeliverUntilSeen ==
    LET t == task[Loop]
        new == IF Oldest(t.latest, 1) \subseteq owner[t.net].seen THEN {} ELSE t.latest
    IN
    /\ At(Loop, "mark")
    /\ conn' = DeliverActions(t.net, new)
    /\ owner' = [owner EXCEPT ![t.net] = MarkSeen(@, new \ @.seen)]
    /\ task' = [task EXCEPT ![Loop].pc = "next", ![Loop].since = 0, ![Loop].latest = {}]
    /\ UNCHANGED <<env, faults, ring, lock, snap, members, slots>>

DeliverMissed ==
    LET t == task[Loop] IN
    /\ At(Loop, "mark")
    /\ conn' = DeliverActions(t.net, t.latest)
    /\ owner' = [owner EXCEPT ![t.net] = MarkSeen(@, t.latest \ @.seen)]
    /\ task' = [task EXCEPT ![Loop].pc = "next", ![Loop].since = 0, ![Loop].latest = {}]
    /\ UNCHANGED <<env, faults, ring, lock, snap, members, slots>>

-----------------------------------------------------------------------------
(* A connection: ServeWS, prepare, subscribe, the read and write loops. *)
Admitted == {c \in Clients : conn[c].st \notin {"new", "gone"}}

(* admit, then prepare for the network of the handshake. *)
Connect(c) ==
    /\ conn[c].st = "new"
    /\ slots.total < MaxTotal /\ slots.perIP[Address[c]] < MaxPerIP
    /\ slots' = [total |-> slots.total + 1, perIP |-> [slots.perIP EXCEPT ![Address[c]] = @ + 1]]
    /\ conn' = [conn EXCEPT ![c].st = "accepted"]
    /\ \E net \in Networks : task' = [task EXCEPT ![c] = [Idle EXCEPT !.pc = "prepare", !.net = net]]
    /\ UNCHANGED <<env, faults, nets, members>>

(* handleSubscribe; the network it already follows is a no-op. *)
Switch(c) ==
    /\ conn[c].st = "open" /\ task[c] = Idle
    /\ \E net \in Networks \ {conn[c].net} :
           task' = [task EXCEPT ![c] = [Idle EXCEPT !.pc = "prepare", !.net = net]]
    /\ UNCHANGED <<env, faults, nets, members, slots, conn>>

Prepare(c) ==
    LET net == task[c].net IN
    /\ At(c, "prepare") /\ Answered(c)
    /\ task' = [task EXCEPT ![c].pc = IF ring[net] = {} THEN "lock" ELSE "cursor", ![c].noSnap = snap[net] = NoSample]
    /\ UNCHANGED <<env, faults, nets, members, slots, conn>>

(* refreshAndBroadcast, after refreshBlocks has let refreshMu go. *)
Broadcast(c) ==
    /\ c \in Clients /\ At(c, "deliver")
    /\ conn' = FanOut(task[c].net, task[c].delta, NoSample)
    /\ task' = [task EXCEPT ![c].pc = "cursor", ![c].delta = NoDelta]
    /\ UNCHANGED <<env, faults, nets, members, slots>>

(* initOwnerCursor: the newest stored action counts as delivered. *)
OwnerCursor(c) ==
    LET net == task[c].net
        newest == {a \in acts[net] : a.n = Last(acts[net])}
    IN  /\ At(c, "cursor")
        /\ \/ owner[net].init /\ Goto(c, "fallback") /\ UNCHANGED faults
           \/ /\ ~owner[net].init /\ Answered(c)
              /\ task' = [task EXCEPT ![c].pc = "init", ![c].latest = newest]
              /\ UNCHANGED faults
           \/ ~owner[net].init /\ Fails(c) /\ Failing(c) /\ Goto(c, "fallback")
        /\ UNCHANGED <<env, nets, members, slots, conn>>

InitOwnerCursor(c) ==
    LET net == task[c].net IN
    /\ At(c, "init")
    /\ owner' = [owner EXCEPT ![net] = IF @.init THEN @ ELSE [MarkSeen(@, task[c].latest) EXCEPT !.init = TRUE]]
    /\ task' = [task EXCEPT ![c].pc = "fallback", ![c].latest = {}]
    /\ UNCHANGED <<env, faults, ring, lock, snap, members, slots, conn>>

Fallback(c) ==
    /\ At(c, "fallback") /\ (task[c].noSnap => Answered(c))
    /\ task' = [task EXCEPT ![c].pc = "subscribe", ![c].noSnap = FALSE,
                            ![c].tick = IF task[c].noSnap THEN LatestSample(task[c].net) ELSE NoSample]
    /\ UNCHANGED <<env, faults, nets, members, slots, conn>>

PrepareFails(c) ==
    /\ At(c, "prepare") \/ (At(c, "fallback") /\ task[c].noSnap)
    /\ Fails(c) /\ Failing(c)
    /\ Goto(c, "refuse")
    /\ UNCHANGED <<env, nets, members, slots, conn>>

(* A first hello that fails closes the socket; a failed switch is an error *)
(* message, and the client stays where it was.                             *)
Refuse(c) ==
    /\ At(c, "refuse")
    /\ task' = [task EXCEPT ![c] = Idle]
    /\ conn' = [conn EXCEPT ![c] = IF @.st = "accepted" THEN [@ EXCEPT !.st = "returning"] ELSE Enqueue(@, @)]
    /\ UNCHANGED <<env, faults, nets, members, slots>>

(* subscribe: registration and hello in one critical section.              *)
Hello(k, net, s) ==
    LET blocks == Newest(ring[net], HelloBlocks)
        moved == [k EXCEPT !.net = net, !.mark = Last(blocks), !.owed = {},
                           !.st = IF @ = "accepted" THEN "open" ELSE @]
    IN  Enqueue(moved, [moved EXCEPT !.view = blocks, !.floor = Lowest(blocks), !.got = {},
                                     !.tick = IF snap[net] # NoSample THEN snap[net] ELSE s])

Subscribe(c) ==
    LET net == task[c].net IN
    /\ At(c, "subscribe")
    /\ members' = [n \in Networks |-> IF n = net THEN members[n] \cup {c} ELSE members[n] \ {c}]
    /\ conn' = [conn EXCEPT ![c] = Hello(@, net, task[c].tick)]
    /\ task' = [task EXCEPT ![c] = Idle]
    /\ UNCHANGED <<env, faults, nets, slots>>

(* writeLoop sends the oldest message, also when flushing a closing client. *)
Write(c) ==
    /\ conn[c].st \in {"open", "closing"} /\ conn[c].queued > 0 /\ ~conn[c].dropped
    /\ conn' = [conn EXCEPT ![c].queued = @ - 1]
    /\ UNCHANGED <<env, faults, nets, members, slots, task>>

(* The ticker: one more ping, or the end after too many without a pong. *)
Ping(c) ==
    /\ conn[c].st = "open"
    /\ conn' = [conn EXCEPT ![c] = IF @.missed >= MissedPingLimit THEN [@ EXCEPT !.st = "returning"]
                                   ELSE [@ EXCEPT !.missed = conn[c].missed + 1]]
    /\ UNCHANGED <<env, faults, nets, members, slots, task>>

Pong(c) ==
    /\ c \in Answers /\ conn[c].st = "open" /\ conn[c].missed > 0
    /\ conn' = [conn EXCEPT ![c].missed = 0]
    /\ UNCHANGED <<env, faults, nets, members, slots, task>>

(* A read error or too many messages closes, a write error returns. *)
Leave(c) ==
    /\ conn[c].st = "open"
    /\ \E st \in {"closing", "returning"} :
           /\ st = "closing" => task[c] = Idle
           /\ conn' = [conn EXCEPT ![c].st = st]
    /\ UNCHANGED <<env, faults, nets, members, slots, task>>

(* The write loop has returned.  ServeWS's deferred calls run in turn:     *)
(* unsubscribe, cancel, release.  Before the first hello nothing is        *)
(* registered.  A read loop still inside handleSubscribe is not waited     *)
(* for.                                                                    *)
Unsubscribe(c) ==
    /\ \/ conn[c].st = "returning"
       \/ conn[c].st = "closing" /\ (conn[c].dropped \/ conn[c].queued = 0)
    /\ conn' = [conn EXCEPT ![c] = [NewConn EXCEPT !.st = "unsubscribed", !.net = conn[c].net]]
    /\ members' = [n \in Networks |-> IF n = conn[c].net THEN members[n] \ {c} ELSE members[n]]
    /\ UNCHANGED <<env, faults, nets, slots, task>>

(* From here on the queries of a hello under way fail. *)
Cancel(c) ==
    /\ conn[c].st = "unsubscribed"
    /\ conn' = [conn EXCEPT ![c].st = "cancelled"]
    /\ UNCHANGED <<env, faults, nets, members, slots, task>>

(* Mutant: a hello that failed keeps its slot. *)
ReleaseServed(c) ==
    /\ conn[c].st = "cancelled"
    /\ conn' = [conn EXCEPT ![c].st = "gone"]
    /\ slots' = IF conn[c].net = NoOne THEN slots
                ELSE [total |-> slots.total - 1, perIP |-> [slots.perIP EXCEPT ![Address[c]] = @ - 1]]
    /\ UNCHANGED <<env, faults, nets, members, task>>

Release(c) ==
    /\ conn[c].st = "cancelled"
    /\ conn' = [conn EXCEPT ![c].st = "gone"]
    /\ slots' = [total |-> slots.total - 1, perIP |-> [slots.perIP EXCEPT ![Address[c]] = @ - 1]]
    /\ UNCHANGED <<env, faults, nets, members, task>>

Return(c) == Unsubscribe(c) \/ Cancel(c) \/ Release(c)

-----------------------------------------------------------------------------
Init ==
    /\ table = [net \in Networks |-> {[n |-> i, h |-> 0] : i \in 1 .. SeedHeight}]
    /\ forks = [net \in Networks |-> 0]
    /\ samples = [net \in Networks |-> {[n |-> SeedHeight, at |-> 0]}]
    /\ acts = [net \in Networks |-> {}]
    /\ scanned = [net \in Networks |-> 0]
    /\ commits = [net \in Networks |-> 0]
    /\ faults = [queries |-> 0, outages |-> 0, torn |-> {}, late |-> {}, unmade |-> {}]
    /\ up = TRUE /\ inbox = <<>>
    /\ ring = [net \in Networks |-> IF Warm THEN Newest(table[net], HelloBlocks) ELSE {}]
    /\ lock = [net \in Networks |-> NoOne]
    /\ snap = [net \in Networks |-> IF Warm THEN LatestSample(net) ELSE NoSample]
    /\ owner = [net \in Networks |-> [init |-> Warm, since |-> 0, seen |-> {}]]
    /\ members = [net \in Networks |-> {}]
    /\ slots = [total |-> 0, perIP |-> [a \in {Address[c] : c \in Clients} |-> 0]]
    /\ conn = [c \in Clients |-> NewConn]
    /\ task = [p \in Procs |-> Idle]

Collector == \E net \in Networks : Commit(net) \/ Rewind(net) \/ RecordAction(net) \/ Retick(net)

Handle ==
    \/ HandleLive \/ FanOutLive \/ HandleOwnerAction
    \/ Reconcile \/ ReconcileNext \/ NewerSnapshot \/ FanOutReconciled \/ OwnerActionsSince \/ DeliverMissed

Serve(c) ==
    \/ Prepare(c) \/ Broadcast(c) \/ OwnerCursor(c) \/ InitOwnerCursor(c) \/ Fallback(c)
    \/ PrepareFails(c) \/ Refuse(c) \/ Subscribe(c)

Next ==
    \/ Collector \/ Disconnect \/ Reconnect
    \/ Handle
    \/ \E p \in Procs : Refresh(p)
    \/ \E c \in Clients :
           Connect(c) \/ Switch(c) \/ Serve(c) \/ Write(c) \/ Ping(c) \/ Pong(c) \/ Leave(c) \/ Return(c)

Spec == Init /\ [][Next]_vars

(* Goroutines are scheduled, lib/pq reconnects, and every ping interval    *)
(* ends.  Nothing is assumed of the collector.                             *)
Fairness ==
    /\ WF_vars(Handle \/ Refresh(Loop))
    /\ WF_vars(Reconnect)
    /\ \A c \in Clients : /\ WF_vars(Serve(c) \/ Refresh(c)) /\ WF_vars(Write(c))
                          /\ WF_vars(Ping(c)) /\ WF_vars(Return(c))

FairSpec == Spec /\ Fairness

-----------------------------------------------------------------------------
Sample == [n : 0 .. MaxHeight, at : 0 .. MaxCommits + MaxForks]

TypeOK ==
    /\ \A net \in Networks :
           /\ table[net] \subseteq Block /\ ring[net] \subseteq Block /\ acts[net] \subseteq Block
           /\ samples[net] \subseteq Sample /\ snap[net] \in Sample
           /\ lock[net] \in Procs \cup {NoOne} /\ members[net] \subseteq Clients
           /\ owner[net] \in [init : BOOLEAN, since : 0 .. MaxHeight, seen : SUBSET Block]
           /\ Cardinality(ring[net]) <= RingSize
    /\ \A c \in Clients : /\ conn[c].queued \in 0 .. QueueSize /\ conn[c].missed \in 0 .. MissedPingLimit
                          /\ conn[c].view \subseteq Block /\ conn[c].net \in Networks \cup {NoOne}
                          /\ conn[c].mark \in 0 .. MaxHeight /\ conn[c].tick \in Sample
    /\ \A p \in Procs : task[p].rows \subseteq Block /\ task[p].delta \in Delta

Open(c) == conn[c].st = "open"
Undelivered(net) == \E p \in Procs : task[p].net = net /\ task[p].delta # NoDelta
Quiet == up /\ inbox = <<>> /\ task[Loop] = Idle
From(S, n) == {b \in S : b.n >= n}
Floor(c) == Max({conn[c].floor, Lowest(ring[conn[c].net])})

(* A subscriber's picture is the hub's: from its hello on, and whatever    *)
(* reorgs and new blocks were fanned out while it registered, a socket     *)
(* with nothing under way for its network holds exactly the ring's blocks: *)
(* none lost to the watermark, none of a dead fork kept (fanOut, deliver). *)
Followed ==
    \A c \in Clients :
        Open(c) /\ ~Undelivered(conn[c].net) =>
            From(conn[c].view, Floor(c)) = From(ring[conn[c].net], Floor(c))

(* The ring is one chain's: while the table has the ring's tip, it has     *)
(* every entry, whatever was rewound between a refresh's queries and its   *)
(* append (refreshBlocks, reorgRing); only where a refresh read on after a *)
(* rewind had taken an earlier page may it mix two.                        *)
RingOnChain ==
    \A net \in Networks \ faults.torn :
        TipOf(ring[net]) \subseteq table[net] => ring[net] \subseteq table[net]

(* refreshBlocks reads on from the tip "so its row proves the ring is      *)
(* still on-chain". The code breaks this over several pages: the tip's row *)
(* comes with the first page, and a rewind before the next leaves the rows *)
(* of a dead fork below a tip that is on-chain.                            *)
TipProves ==
    \A net \in Networks :
        TipOf(ring[net]) \subseteq table[net] => ring[net] \subseteq table[net]

(* admit and release keep exact counts: every way out of ServeWS gives its *)
(* slot back once, so the caps never lock an address out.                  *)
SlotsExact ==
    /\ slots.total = Cardinality(Admitted)
    /\ \A c \in Clients :
           slots.perIP[Address[c]] = Cardinality({d \in Admitted : Address[d] = Address[c]})

(* An owner action stored since a client's hello reaches it: through its   *)
(* notification, handled in whatever order the scan recorded it, or, when  *)
(* that was lost with the connection, through reconcile, also when a       *)
(* rewind in between lowered the cursor, beside live refreshes or failing  *)
(* hellos.  A rewind excuses the actions it deleted.  Two things   *)
(* are excused because the code loses them: an action recorded below an    *)
(* earlier one while nobody listened (reconcile asks from the cursor on),  *)
(* and what a reconcile whose query failed was to make up (it is not       *)
(* repeated).                                                              *)
ActionsReach ==
    Quiet => \A c \in Clients :
        Open(c) /\ conn[c].net \notin faults.unmade => conn[c].owed \subseteq conn[c].got

(* A connection that has returned is registered nowhere. *)
NoGhosts ==
    \A c \in Clients, net \in Networks : conn[c].st = "gone" => c \notin members[net]

(* Once the chain and the database are quiet, every open socket ends with  *)
(* the stored chain and the newest sample, whatever was lost with the      *)
(* connection or failed.  Three states wait for the collector, which need  *)
(* not sample a quiet chain (run.go:163): a rewind says nothing until the  *)
(* next commit, a query of Hub.Run that failed is repeated when the        *)
(* network is notified again, and what a reconcile would have made up,     *)
(* had it found a client, a later subscriber's hello lacks (prepare reads  *)
(* the table for an empty ring only).  The first notification ends each.   *)
Settled(c) ==
    LET net == conn[c].net IN
    Open(c) => /\ From(conn[c].view, Floor(c)) = From(table[net], Floor(c))
               /\ conn[c].tick = LatestSample(net)
Rewound(net) == forks[net] > 0 /\ \A b \in table[net] : b.h < forks[net]
Waits(c) == Open(c) /\ (conn[c].net \in faults.late \/ Rewound(conn[c].net))
Settles == <>[](\A c \in Clients : Settled(c) \/ Waits(c))

(* A peer that answers no ping loses its socket and frees its slot. *)
SilentEnds == \A c \in Clients \ Answers : Open(c) ~> conn[c].st = "gone"
=============================================================================
