# A TLA+ model of nopu

nopu is two Go programs. The **subscription server** listens to public Nostr
relays, matches what it hears against the REQs that its NIP-29 groups carry, and
forwards each match to the group: as a kind-20284 broadcast when the group's
client is connected, as a push notification otherwise. The **push server** hands
notifications to APNs, FCM and UnifiedPush, and keeps the registrations of the
devices that NIP-9a relays call back directly.

Nothing of it is persisted by the code itself; it is all goroutines around maps
with locks of their own, and there are no tests. The modules here state what
that code promises under every interleaving, TLC checks it on small instances,
and TLAPS proves the safety part for all of them.

## Inventory

| component | source | state | operations | hard part |
|---|---|---|---|---|
| memory queue | `subscription/memory_queue.go` | `events`, the dedupe cache, the consumers' channels | `AddEvent` (one goroutine per relay), `CreateConsumer`, `ReadEvents`, two cleanup routines | the check and the mark of the dedupe cache, and the two locks of `CreateConsumer`, are separate |
| processor loop | `subscription/processor.go` 69-114 | the batch being processed | read, process, stop | timer, cancellation and a batch in one `select` |
| relay listener | `subscription/listener.go`, `cmd/subscription-server` | per relay: retry count, connection, subscription | dial, subscribe, listen, give up, reconnect, shut down | failure at every step |
| group subscriptions | `subscription_matcher.go`, `group.go`, `server.go` 353-371 | `groupIDs`, `parsedSubscriptions` | hooks on group creation, edit and deletion; the loader | relay29's state and the cache are updated one after the other |
| event delivery | `processor.go` 162-342, `server.go` 373-404 | the loop over matching groups | match, choose, broadcast, push | presence, token and limit are read at different times |
| push rate limit | `processor.go` 116-140, 250-342 | `lastPushTime`, in 16 shards | check, push, record, clean | the lock is not held across the push |
| presence tracking | `presence.go` | `onlineMap` and its counters | `increment`, `decrement`, `IsOnline` | several atomic steps that are not atomic together |
| device registry | `push/device_store.go`, `push/server.go` 376-526 | `byID`, `byDevice` | register, delete, callback | retried and late requests |
| push endpoints and clients | `push/server.go` 115-372, `apnsclient.go`, `fcmclient.go`, `subscription/server.go` 212-360 | the requests under way; the FCM topics | `/push`, `/push/fcm/push`, `subscribe`, `unsubscribe`; APNs and FCM calls | a call outlives its client, an answer is lost, FCM refuses tokens without an error |
| push server process | `cmd/push-server`, `push/server.go` 30-113 | listener, signal, deadline | start, serve, shut down | handlers hang while `Shutdown` waits |
| event policies | `subscription/server.go` 23-208 | the event in the chain, the groups | accept or reject an event | exceptions for two kinds in thirteen rules, groups that go while the chain runs |
| configuration | `config/config.go` | the file found, the environment | search, parse, override | files replaced during the search, five ways to treat a bad value |

How they interact: the listener's goroutines call `AddEvent`; `Processor.Start`
joins the queue as its only consumer and runs delivery for each message; every
websocket goroutine that carries a kind-20285 event runs the same delivery.
Delivery reads the REQ cache, the presence table, the REQ cache again and the
rate limit, and calls the push server over HTTP, whose handler calls APNs and
answers. The relay's hooks write the REQ cache and the presence table from
goroutines of their own. Both processes load one configuration when they start;
the subscription server builds its chain of event policies from it.

## Modules

| module | models | state and actions |
|---|---|---|
| `MemoryQueue` | memory queue and processor loop | `log` is the heap of messages, `events` is `q.events`, a channel is what was ever sent (`sent`) and how much of it was received (`taken`). `AddEvent` is three steps, `CheckDuplicate`, `MarkProcessed`, `Publish`, split where the cache's lock is free; `CreateConsumer` is two, `Register` and `SendBacklog`; `ReadEvents` is one step per turn of its `select` |
| `Mailbox` | what the queue promises a consumer | one mailbox per consumer: `Post`, `Enter`, `CatchUp`, `Handle` |
| `PushLimiter` | push rate limit | one step per critical section of a shard and per outcome of the HTTP request; `delivered` is what the devices saw; the push server is an environment that may do anything to a request |
| `PushServer` (extends `PushLimiter`) | push endpoints, clients and process | a post is a request from its connection to the end of its handler: `Push` or `Post`, `Refuse`, `Call`, `Take` (APNs or FCM has done it), `Answer`, `ServiceFails`, and on the client's side `Hear` and `GiveUp`; `Signal`, `Deadline`, `Exit` are the process |
| `Configuration` | configuration | one `Read` per file name tried, `Load` (parse, defaults, environment), `StartFails`; `Edit` is somebody at the files |
| `EventPolicy` (extends `Configuration`) | event policies | the event of one connection and its place in the chain of `RejectEvent`: `Arrive`, `Pass`, `Refuse`, `Accept`; `Elsewhere` is another connection that creates or deletes a group |
| `Presence` | presence tracking | one step per `sync.Map` call and atomic add, of the poller and of the disconnect hook |
| `Delivery` (extends `Presence`) | event delivery | per worker: match, then for each group presence, token, limit, push, record, each a step of its own; with a relay key that does not sign every group of the loop fails (`Unsigned`) |
| `Subscriptions` | group subscriptions | relay29's `about`, the cache, the lock `sm.mu`; reading under the lock and writing are two steps because relay29 does not take it |
| `DeviceDirectory` | what the registry promises | one set of registrations, `Enroll` and `Withdraw` |
| `DeviceRegistry` | device registry | the two indexes; handlers of register, delete and callback, split at the lock |
| `Listener` | relay listener and the process | per relay the state of `manageRelayConnection`; connections and subscriptions that fail or end at any time; `ctxDone` and `main` |
| `Forwarding` (extends `Subscriptions`, instances of `Delivery` and `PushLimiter`) | event delivery, rate limit, group subscriptions and presence together | every action of the four, those of a worker joined where one step of the code is a step of two of them: `Match`, `Decide`, `Request`, `Deliver`, `Pushed`, `RecordPush`, `PushFailed`; around it `SubscriptionStep`, `LimiterStep`, `ConnectionStep` |
| `*Proofs` | — | theorems about the module of that name; `PushServerProofs` also those about `PushLimiter`, `ForwardingProofs` those about `Subscriptions` |
| `MC*` | — | the instances TLC checks |

`DeviceRegistry` implements `DeviceDirectory` under `live <-` the set of pairs
of id and DeviceID in `byID`. `MemoryQueue` implements `Mailbox` under `box <-`
what was sent on a consumer's channel and is not processed, whatever of it is in
the channel, in the batch or in the reading loop's hands. `PushServer` refines
`PushLimiter` (theorem `ServerKeepsLimiter`): every step of its handlers is, for
the caller, one of `Deliver`, `Record`, `Refused`, `TimeOut`, `LoseAnswer` and
`DeliverLate`, or nothing, so that what the limiter assumes of the push server is
what the push server does. `Delivery` refines `Presence` (theorem
`DeliveryKeepsPresence`), and what it uses of the cache and the limit is cut down
to an entry that changes at any time (`Resubscribe`) and a device that is held
back or not (`held`). `Forwarding` puts the real ones in their place: `req <-`
the entry of `parsedSubscriptions`, none where it did not parse; `held <-` the
devices whose `lastPushTime` is younger than the limit; and a caller of
`PushLimiter` is a worker, its request the one for the token that the worker
read. A `Match` takes place between the writes of the cache, under `sm.mu`, and
finds only groups that relay29 has, or has just deleted with the hook still to come.
It implements all four, `Subscriptions`, `Delivery`, `PushLimiter` and
`Presence` (theorems `ForwardingKeeps...`). The listener ends where `AddEvent`
begins, and a worker of `Delivery` takes any message where
`MemoryQueue!ProcessNext` hands it one; neither pair is composed.

What is abstracted: events, REQs, tokens and group ids are model values;
`filters.Match` is the set `Wants`; time is a clock only in `PushLimiter` and `PushServer`, a
stale flag in the dedupe cache, and otherwise a choice (a timer may fire at any
moment). khatru, relay29, go-nostr and the push services are external and
modelled by how the code uses them. Of go-nostr it is assumed that the context given
to `RelayConnect` ends the dialling and not the connection, which therefore outlives
a cancel until `relay.Close`, and that it need not hand on the events of a
subscription that has ended (`Drop`). A setting of `Configuration` stands for all
that the code treats alike, a tag or a date of an event in `EventPolicy` for how
its rule finds it; rules of relay29 may refuse or pass what they are asked. A call
of APNs that ended in an error was either done or not done before the error
arrived. Logging, statistics and the content of the notification are left out. Each module also holds, before its actions, a few
mutated forms of them, the slips that its properties are there to catch.

## Runs

| run | instance | shows |
|---|---|---|
| `queue` | 2 relays, 1 event, 1 consumer, 3 messages, `MaxSize` 2, channel of 2 | `DedupPerRelay`, `NoSilentLoss`, `BoundedShutdownLoss`, `EventuallyProcessed`, `StopsAfterCancel`, `KeepsMailbox`, `OrderedFromJoin` |
| `limiter` | 2 callers, 2 devices in a shard, limit 1, 1 tick; one FCM client with one token and one topic; a push server that may be shut down; 2 posts in all | `AckedSpacing`, `AnswersAreTrue`, `TopicsHonoured`, `CallsReturn`, `ServerExits` |
| `delivery` | 2 connections, 2 pubkeys, 2 groups (one named by a pubkey), 1 worker, 1 event | `CountExact`, `EachMatchAnswered`, `RightDevice`, `ForwardFollowsPresence` |
| `listener` | 2 relays, 1 event each, `max_retries` 0 or 2 | `NoLeakedConnection`, `GivesUpAtLimit`, `ManagersStop`, `Reconnects`, `EventsHeard` |
| `registry` | 4 clients (2 on one device, 2 without a DeviceID), 3 registrations, 1 callback | `IndexesAgree`, `RegisteredUntilReplaced`, `ImplementsDirectory`, `RetriesEnd` |
| `forwarding` | 1 group named by its client's pubkey, 1 group event and the loader, 2 REQs for 2 devices of a shard, 1 field without a REQ, 1 connection, 1 worker, 2 messages, limit 1, 1 tick | `FreshUnlessSkipped`, `PushesToCurrentDevice`, `HeldBackByOwnPush`, `KeepsDelivery` |
| `policy` | 2 file names, 3 contents, 2 edits, 3 environments, 6 settings; 10 events, 1 group | `FoundUnderEdit`, `Precedence`, `ExternalAccess`, `GroupEventsHaveGroup` |
| `queue_race` | 2 relays, 1 event | **violated** `EnqueuedOnce`: one event is queued twice |
| `limiter_race` | 2 callers, 1 device | **violated** `MinInterval`: two pushes with no interval |
| `delivery_online` | a group whose id is not its client's pubkey | **violated** `PushOnlyToOffline`: a connected client is pushed to |
| `delivery_ghost` | 1 connection | **violated** `BroadcastOnlyToOnline`: events are broadcast to nobody |
| `listener_exit` | 1 relay | **violated** `ExitsAfterSignal`: a signal stops the goroutines and not the process |

Every passing run also checks the type invariant of its module (`DeliveryTypeOK`,
`ServerTypeOK` and `ForwardingTypeOK` contain those of the modules they build on). The five violations are promises quoted from the
repository's comments and documentation (`findings` in `PROJECT.json`); where one
fails, a weaker
property of a passing run says what does hold: `DedupPerRelay` for
`EnqueuedOnce`, `AckedSpacing` for `MinInterval`, `ForwardFollowsPresence` for
the two of `Delivery`, `ManagersStop` for `ExitsAfterSignal`.

**Bounds.** The queue needs three messages to fill a channel and `q.events` of
two and then overflow both, two relays to race, and a `KeepLast` below
`MaxSize` so that the trim trims. One event is enough there: distinct events
never meet in the dedupe cache. In `limiter` two posts are two pushes of one
caller, of two callers, or a push and a topic request, which is what spacing, an
abandoned request and a subscription with its end take; one tick is the limit,
and `Retention` 0 forgets a record in the tick after its own, exactly when it
does not limit any more. Longer histories are the proofs' part; the model is
large because a post may be abandoned, cut off or answered at each of its stages.
In `policy` the second edit is one more than `FoundUnderEdit` allows, the contents
are a file that gives a setting of each kind, one that leaves most unset and one
that does not parse, the environments are none, a usable one and junk, and the
events are one of each kind the rules tell apart, from each author they tell
apart. For presence two connections of one key are what makes
arrivals and departures overlap, and a second key lets a client authenticate
again as someone else. One forwarded event is enough
because `DeliveryInit` starts from any cache and any set of held devices, which
earlier events leave behind. Three registrations are a first one, its retry and
someone else's. In `forwarding` the group has a REQ, a junk field or none at the
start, and one group event edits, deletes or creates it beside the loader; the
second message is the one that a push for the first holds back, from the old
device or from the new one. More groups, workers and group events, whose hooks
overtake each other, are the part of `FreshCorrect` and the other theorems of
`ForwardingProofs`. `MaxMessages`, `MaxTime`, `MaxPushes`,
`MaxPosts`, `MaxEdits`, `MaxJobs` and `RetryBound` are bounds of the models only; `RetryBound` saturates
a counter that `max_retries: 0` lets grow. All runs say `CHECK_DEADLOCK FALSE`:
clients that left, relays that were given up and a server that shut down leave
nothing to do.

**Fairness.** Safety runs use none. `MemoryQueue!FairSpec` is weak fairness of
the reading loop, which the goroutine scheduler gives, and strong fairness of
`Receive`, because a Go `select` picks at random among the ready cases and so
does not choose the timer for ever while a message waits.
`DeviceRegistry!FairSpec` says that a handler that was started ends and that a
relay repeats what was not acknowledged, which is the premise of the code's own
comment. `Listener!FairSpec` is weak fairness of each relay's goroutine (dials
and delays end) and of handling an event that is there, again by the random
choice of `select`; no success of a dial is assumed. `PushServer!ServerFairSpec` is weak fairness of
three timers only: `GiveUp` is the ten seconds of `pushClient` and the end of
another client's patience, `Deadline` the thirty of `Shutdown`, and `Exit` the
end of `main`; nothing is assumed of handlers, APNs, FCM or the network, so that
`CallsReturn` and `ServerExits` hold while they hang. Relays, clients, signals
and failures are never fair.

## Proofs

Every theorem is `Spec => []P` (or `Spec => P` for an action property) for all
values of the constants that satisfy the named assumptions, by an inductive
invariant.

- `MemoryQueueProofs`. The invariant ties each `AddEvent` in progress to the
  dedupe entry it holds (a relay between mark and publish still has the newest
  era of its event), and every channel to the log: entries before the join come
  from the backlog, which is a contiguous end of the log. From the same invariant
  `QueueImplementsMailbox`: `Publish` maps to `Post`, `Register` to `Enter`,
  `SendBacklog` to `CatchUp`, `Process` to `Handle`, and locks, eviction,
  trimming and the reading of batches to stutters. `OneRelayDedup` says where the
  violated `EnqueuedOnce` does hold: with one upstream relay.
- `PushServerProofs`, the limiter. A delivery that was acknowledged is *guarded*: the limit
  has passed, or a record at least as late is still there. A caller past the
  check is clear of all its own acknowledged deliveries. `AckedSpacing` holds for
  every limit, because it promises no more than the code keeps: the limit, or for a
  limit above the hour of `Retention` the hour (`Spacing`). `ForgetOnlyUnlimited`
  needs `Limit <= Retention`, an explicit hypothesis of its theorem.
- `PushServerProofs`, the server. `ServerInv` gives each post the shape of its
  stage (`PostsInv`), at most one waiting post per client, which stands where its
  caller's `pc` is (`CallersInv`), and no handler after the exit
  (`ProcessInv`). From it `ServerKeepsLimiter`, which carries the limiter's three
  theorems over, and `AnswersAreTrue`. `LateUnhindered` says of the composition
  that it leaves no late delivery out: wherever APNs may still do what an abandoned
  post asked for, `DeliverLate` of the limiter is enabled. Its invariant
  (`LateRequestsCounted`, a lemma of that module and not a property of the code)
  takes one cardinality argument per step that abandons or takes a post.
  `TopicsHonoured`
  takes the order in which FCM acted (`TurnsInv`): a post taken later than all
  others decides (`HonouredInv`).
- `EventPolicyProofs`. `SearchInv` bounds how far a search can get while a file
  is always there: one name with no edit, two with one, so that the third try,
  which is the first name again, finds it. `SettledInv` says that the
  configuration of a running process is the override of the file it found.
  `ChainInv` says of an event in the chain which rules it has passed.
- `PresenceProofs`. A cell belongs to one key, in the map and in all steps under
  way; for a calm key every pending step works on the cell in the map, and the
  cell holds the cardinality of the counted connections.
- `DeliveryProofs`. While a group waits in a worker's loop its current REQ is in
  the recorded ones (`HadCurrent`), from which `RightDevice` follows at the
  second read. `ForwardFollowsPresence` follows from `CountExact` of `Presence`,
  carried over by `DeliveryKeepsPresence`, and `OwnKeyOffline` from that: where
  every group is named by its client's pubkey, the violated `PushOnlyToOffline`
  holds of the keys whose arrivals and departures have not overlapped.
- `ListenerProofs`. The code's counter equals the number of failures, and a
  goroutine that has not stopped has one left. A connection is up only under a
  goroutine that subscribes or listens, which every way out of the two closes or
  finds broken, a cancelled context included.
- `DeviceRegistryProofs`. Indexes, reachability by the order of `Upsert`s, and
  step simulation of `DeviceDirectory`: `Upsert` maps to `Enroll`, `Delete` to
  `Withdraw`, everything else to a stutter.
- `ForwardingProofs`, the subscriptions. The thread that holds `sm.mu` has read an
  `about` that is still current or that a thread still to come will read again
  (`FreshInv`).
- `ForwardingProofs`, the composition. `ForwardingInv` adds to `FreshInv` what each
  part owes the others. `RegardsCache`: the REQ of a group in a loop, now and
  since the match, is among those the worker has on record. `CallsMatch`: a
  worker has a request under way exactly between its check and its record, for
  the token it read. `RecordsReal`: a `lastPushTime` belongs to a delivery to that
  device that a worker saw succeed, which a request under way must point to
  already (`OwnPlace`). `QuietOK` is the new argument: for a group whose hooks had
  caught up at the match and have since, the entry of the cache is the parsed
  `about` of now and not only of some moment, so that both reads of the cache,
  whatever lies between them, are of the same REQ; `PushesToCurrentDevice` and
  `HeldBackByOwnPush` follow. The refinements are step simulations: a change of
  the cache maps to `Resubscribe` of one group, because one critical section
  writes one entry (`OneEntry`); a tick or a cleanup, which only ever release
  devices (`HeldShrinks`), to `LimitPasses`; a worker's step to one of `Delivery`
  and to one of `PushLimiter` or to a stutter. What is proved of `Delivery`,
  `PushLimiter`, `Presence` and `Subscriptions` is thereby true of the composition.
  A joined step could hold back what the parts allow, and every safety property
  with it; `JoinsHinderNothing` shows that no guard of one part does so to the
  other's step, the bounds of the model aside.

Proved and in no run: `ServiceUnhindered`, `NoPhantomLimit` (and, over the push
server, `ServerNoPhantom`), `NothingLeftBehind`, `ForgetOnlyUnlimited`, and the
refinements other than `KeepsDelivery`, `KeepsMailbox` and `ImplementsDirectory`.

Only model-checked: the liveness properties (`EventuallyProcessed`,
`StopsAfterCancel`, `RetriesEnd`, `ManagersStop`, `Reconnects`, `EventsHeard`,
`CallsReturn`, `ServerExits`), which need fairness and `ENABLED`, and the violations.

## Not modelled, and weaknesses no run states

- Without a caller in either program, and so not modelled: `RemoveConsumer`,
  `RefreshAllCaches`, `ClearGroups`, `ForwardToGroupDirect`,
  `SendPushNotification`, the push server's `Shutdown` (main cancels a context),
  `LoadSubscriptionServerConfig` and `LoadPushServerConfig`. FCM pushes to device
  tokens are not reached either, because `detectPushService` says `apns` of
  every token.
- What notifications contain: titles, bodies, sounds, time to live. VoIP and
  UnifiedPush calls are the outcomes of `DeviceRegistry!Finish`.
- A panic ends the process and has no state to model after it (`max_size: 0`,
  `memory_queue.go:110`).
- Data races on strings and map lengths (`presence.go:82`,
  `subscription_matcher.go:265`): the model reads the old or the new value.
- A push whose answer is lost is not recorded, so that one caller alone can push
  twice; and records are forgotten after an hour however long the limit is.
  `PushLimiter` has both behaviours; `AckedSpacing` says what is left.
- A dedupe entry past its TTL suppresses events until the hourly cleanup takes it
  away. `MemoryQueue` has that behaviour, and no text of the repository bounds it.
- A message published while the consumer joins is sent to it twice
  (`CreateConsumer` registers before it copies); `OrderedFromJoin` confines it to
  the join.
- A connection counted in a cell that a concurrent disconnect takes out of the
  map leaves a connected key offline, and a client that authenticates again takes
  off a count it never added. `Presence` has both; `CountExact` and
  `ForwardFollowsPresence` speak of the keys that neither happened to (`calm`), and
  so confine the damage to those.
- The choice between broadcast and push is made once; a client that comes or goes
  before the one or the other goes out gets the wrong one.
  `ForwardFollowsPresence` is about the moment of the choice.
- A register request whose client gave up may run after its retry and unregister
  the id the retry was answered with. `RegisteredUntilReplaced` takes the order of
  the `Upsert`s for that of the registrations, as the code does.
- A deletion hook that runs after a new group of the same id was cached removes
  the new subscription (`skipped` records it).
- `RetryCount` is never reset, so `max_retries` counts losses since the start, as
  `GivesUpAtLimit` states it.
- A subscription closed by its relay is not opened again while the connection
  lasts, and the loop spins on the closed channel.
- An edit that does not parse or empties the field leaves the old REQ in force
  (`group.go:37-44`); `FreshUnlessSkipped` says that nothing else does. An edit that
  has no about tag leaves both the field and the cache as they are.
- `handle20285Event` asks no dedupe cache: an event that a client sends and a
  relay delivers is forwarded twice.
- Code that is marked as a test in `pushNotification` (319-325) overwrites title,
  body, custom data and the silent flag of every notification.
- A `config.yaml` that cannot be read is passed over if there is no `config.yml`
  (`config.go:140`); a boolean of the environment that is not `true` is false.
- The rule that asks for an h tag is the sixth, where the comment of
  `server.go:30` relies on it before others; `GroupEventsHaveGroup` does not
  depend on the place.
- A port in use is only logged (`push/server.go:90`): the process waits for its
  signal and serves nobody. `ServerInit` has that state.
- `buffer_size`, `max_subscriptions`, `worker_count` and `batch_size` are read
  and not used.

## Plan

1. *Core* (done): the queue, the limiter, presence, subscriptions, delivery, the
   listener, the registry with its abstract directory; theorems for all of them.
2. *Extension* (done): `Mailbox`, the push server with its endpoints, services
   and process, the configuration and the event policies, the relay key that does
   not sign; theorems for all of them and the two refinements.
3. *Composition* (done): `Forwarding`, with its refinements of `Subscriptions`,
   `Delivery`, `PushLimiter` and `Presence`.
4. *Open*: `MemoryQueue` in front of `Forwarding`, so that a worker of the
   processor takes the message its reading loop is at; and `PushServer` behind it,
   by the refinement `ServerKeepsLimiter`. The first is a composition without
   shared state but the worker's start and end, the second one of two modules
   that extend the same one. Both are too large for the runs and would be proved.
