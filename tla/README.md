# Vulos Meet: a TLA+ model

Vulos Meet wraps a LiveKit SFU. One Go process (`cmd/vulos-meet`) supervises a
`livekit-server` child, fronts its signalling with a gate that validates
tokens, answers an admin API, receives LiveKit's webhooks, meters minutes to a
control plane and looks after the life of recordings. A browser client
(`web/`) talks to it. This directory models the parts of that process in which
order, failure and concurrency matter.

## Inventory

| Part | State | Operations | Talks to |
|---|---|---|---|
| metering client `cp/usage.go` | bounded queue, one worker, `dropped` | `Report`, `drain`/`post`, `Close` | control plane (HTTP, retried) |
| metering receiver `wrap/usage.go` | `rooms`: per room start, live spans, accumulated time | `apply` per webhook, `Snapshot` | LiveKit webhooks in, metering client out |
| egress receiver `wrap/recording.go` | none of its own | verify, ledger, gauge, forward with retries | LiveKit webhooks in, ledger, cloud sink |
| recording ledger and retention driver `wrap/retention.go`, `recording_cloud.go` | `rec`: per egress a state and stamps | `Upsert`, `SetState`, `Run`/`RunLoop`, `Delete` | egress receiver, cloud sink |
| room service and breaker `wrap/rooms_livekit.go` | `consecFail`, `openUntil`, `halfOpen` | `preCall`/`postCall` around listing rooms and participants, sending data, deleting a room | LiveKit RPC |
| signal gate `wrap/signal.go` | none | validate, room ceiling, rate limit, proxy | room service, validator, child |
| token validator, tenant gate | none | pure checks on claims and names | gate, admin API, egress proxy |
| admin server `wrap/admin.go` | participants gauge | health, info; list and delete a tenant's rooms, its usage | room service |
| API-key introspection `apikey/` | cache with a 60 s TTL | `Introspect` | control plane |
| rate limiter `wrap/ratelimit.go` | token buckets | `Allow`, `GCOnce` | public listener, gate, admin |
| apps and MCP adapter `wrap/apps.go` | none | admin check of the management routes, actions, reads | room service, apps platform library |
| egress proxy and storage seam | none | ownership check, request rewriting | LiveKit egress |
| supervisor `wrap/supervise.go` | the child process | run, signal, wait | composition root |
| metrics | counters, gauges | observe, render | everyone |
| cluster, geo routing, config | start-up only | ping, render, parse | composition root |
| web client `web/src/lib` | connection, devices, chat | async continuations | gate, Talk |

What is hard here, and hard to test:

* **Webhooks** are delivered at least once and in no order. Metering, the
  ledger and the gauge are all folds over that stream.
* **Billing** crosses a network with retries: a request that timed out at the
  client may still be handled.
* **The retention sweep** works from a snapshot while webhooks change the
  ledger, and its deletes race the forwards that file the blobs. A forward or a
  delete that the client gave up on may still be carried out by the sink.
* **The breaker** has calls that overlap its own state changes; the room
  ceiling is decided from a list that is stale when it is used.
* **Shutdown** closes a channel that handlers may still send on.
* **State is in memory**: a restart forgets the ledger and the accrual.
* **Requests of one client overlap** in front of the rate limiters and the
  key cache: tokens are taken twice by one request, lookups return in another
  order than they were sent, keys are revoked meanwhile.
* **Tenants share one LiveKit** and are told apart by a prefix that some code
  parses and other code compares; the owner of an egress is looked up before
  the call that uses the answer.
* **The process** waits for a child that nobody kills, over a channel with
  room for four errors.
* **The browser client** is continuations after `await`s: each may find the
  room left.

`PROJECT.json` lists the hazards at their lines, with the property for each.

What makes each modelled part correct: the metering client bills nothing twice
and loses nothing silently; the receiver never gives two reports one key, never
bills more than it saw and never loses accrued time to a repeated webhook; the
ledger walks its lifecycle forwards and expires only what the policy says; the
breaker probes with one call and recovers; the ceiling is exceeded only by
joins already under way; a limiter hands out neither more nor less than its
rate and burst; a revoked key stops working within a known time; what a tenant
makes LiveKit do concerns its own rooms only; the process ends when it is told
to or when a part fails, and leaves nothing behind.

## Modules

| Module | Models |
|---|---|
| `MeterDelivery` | abstract: what the metering path promises its billing side |
| `UsageClient` | `cp.UsageClient`, the network, the control plane's deduplication, `main()`'s shutdown order |
| `UsageReceiver` | `wrap.UsageReceiver.apply` under repeated, reordered webhooks, room reuse and restarts |
| `RecordingLifecycle` | abstract: the path of one recording |
| `RecordingLedger` | egress receiver, ledger, policy, sweep, deleter, gauge, sink |
| `RoomBreaker` | `preCall`/`postCall` and overlapping calls |
| `RoomAdmission` | the gate's room ceiling over the breaker (extends `RoomBreaker`) |
| `Clock` | the clock that limiters and key cache read |
| `RateLimiter` | `wrap.RateLimiter`: buckets, refill, eviction |
| `ApiKeyCache` | `apikey.cpIntrospector`: cache, lookups under way, the control plane's view of a key |
| `FrontDoor` | both listeners up to the point where a request is let in (extends the three above) |
| `TenantGate` | names, the tenant checks on them, the token validator |
| `EgressProxy` | the egress proxy's tenant binding and storage seam (extends `TenantGate`) |
| `TenantAccess` | joins, admin calls and egress calls of several tenants against one LiveKit (extends `EgressProxy`) |
| `MeetProcess` | `run()`: goroutines, `errCh`, signals, the child, shutdown |
| `LiveRoom` | the browser's `connect`, `toggleMic`, `leave` and microphone monitor |
| `*Proofs` | the theorems of the seven components that have one |
| `MCFrontDoor`, `MCTenantAccess` | rates and bursts, names and tokens, and symmetries for TLC |
| `MCRecordingLedger` | the room and tenant of each recording for TLC |
| `MCUsageReceiver` | the symmetry of participants for TLC |

Operators whose comment says *Seeded fault* are not part of any specification:
each is a plausible mistake in the definition after it, kept to show that a
property notices it (`mutants` in `PROJECT.json`).

### UsageClient

`handlers` are webhook handlers on their way to `Report`; `queue`/`queueClosed`
are the Go channel; `pc`, `cur`, `attempt`, `answer` are the worker's place in
`drain` and `post`; `main` is where `main()` is in its shutdown. `Report` is
`enqueue`: it queues, drops and counts, or panics on the closed channel.
`Send`, `Acknowledged`, `Rejected`, `Retry`, `Exhausted` are the branches of
`post`'s loop. The control plane is external: `CPHandles` bills a request
unless it knows the key, and may be reached by a request the client no longer
waits for; `CPRefuses` is a refusal, a failure or a loss. Its table of keys is
what `cp/usage.go` relies on ("idempotency key").

Left out: marshalling errors (the event is a plain struct, it cannot fail) and
the length of the backoff. `urlParses` is fixed at start-up: with an unparsable
CP_URL every event is logged and lost uncounted (`BuildFails`), which
`LossVisible` excludes explicitly. `GraceSuffices` says whether handlers end
within the 10 s that `Server.Shutdown` is given.

### UsageReceiver

`session`, `present`, `open`, `sent` are LiveKit's side: real sessions and the
webhooks they cause. Any webhook sent may be delivered at any later time any
number of times. `Started`, `Joined`, `Left`, `Finished` are the cases of
`apply`. `Second` and `HalfMinute` give the length of a second (the resolution
of the key) and of half a minute (what rounds to a minute) in ticks; a tick is
long for the wait for the lock between `time.Now()` and the update, so the
stamp and the update share a tick. The code keeps one sum per room; the model
keeps it per identity, so that a property can speak about each participant, and
counts the sum as the number of (participant, tick) pairs, which needs no
recursion and can be reasoned about as a set. LiveKit
always sends an identity with a participant event, so the early return for an
empty one is not enumerated. `peakLive`, `joinsTotal` and the metrics feed
nothing but displays. `created` and `of` are history.

### RecordingLedger

`Receive` is `handleWebhook` up to the forward: the state from status and
event name (`StateFor`), `Upsert`, the gauge; it posts the envelope of an
available recording. What becomes of the post is the sink's matter
(`SinkFiles`): it may handle the envelope during any attempt of `forward`,
after the client timed out, retried or gave up, after a restart, or never. So
with deletes: `DeleteSucceeds` has an answer of its own for each status that
`Delete` takes for success, 200/204 (deleted), 202 (accepted and carried out by
`SinkDeletes` later, or never) and 404 (no such recording), and a delete that
failed for the client (`DeleteFails`) may still be carried out. The sink is
external: `sink` is `unfiled`, `filed`, `accepted` or `gone` for a recording,
and does not file one again that it has removed. The sweep is a sequence of steps, as in `Run`: the
list and the decision (`SweepBegins`), then for each id `MarkExpired`, the
delete call, `MarkDeleted`; webhooks interleave between any two. `marked` is
what the driver remembers of its copies of the entries. `ExpiredEgressIDs` is
the policy: TTL, per-room and per-tenant caps with the same order and
tie-break. Reading the clock and listing are one step: no other party can tell
their order within one second. `finalAt` is history.

### RoomBreaker and RoomAdmission

Time is relative: the age of each call and the time left until `openUntil`.
Nothing then needs a bounded clock and the liveness check has no artificial
end. A caller rejected by `preCall` changes nothing and is not an action. The
child stalls and comes back at will; errors that say nothing about it
(cancelled request, not found) are `Errs`. A join lists, decides (`Verdict`)
and is proxied later; only then does LiveKit create its room.

### RateLimiter, ApiKeyCache and FrontDoor

`buckets` is the map of `tokenBucket`s, `NoBucket` an absent key. The code
keeps a fraction of a token in a float64; the model counts in units, `Cost` of
them to a token and `Rate[l]` per tick, so that the same fractions are whole
numbers. `Allow`, `Throttle` and `GCOnce` are the code's; each runs under the
limiter's lock and is one step. `since` is history: what was granted from each
instant on. No code but tests calls `GCOnce`; the model has the caller that
`RateLimiter`'s comment expects (`Evict`), because the limiter must be right
with it too.

`cache` and `asked` are the introspector's map and its POSTs under way;
`grade` is the control plane's table, which revokes and re-issues keys at any
time. An answer carries the grade of the moment the control plane handled the
lookup and is stamped when it arrives. A lookup ends within `Timeout`
(`KeysTick`). The introspector is assumed to be wired: without CP_URL no vk_
key is accepted at all.

A request is `idle`, looked at (`auth`), waiting for `Introspect` (`lookup`),
let in (`served`), between the two limiter calls of `/rtc` (`gate`), or past the
public limiter on its way to the admin check of the apps routes (`apps`).
`guesses` and `appGuesses` count, per client, the bearers compared with
`MEET_ADMIN_TOKEN` on the admin API and on the apps routes. Things to know about what the code does, all of it in the model:

* A `/rtc` request takes two tokens of one bucket. Overlapping requests of one
  client may each take the first and all be refused at the second.
* An older answer may overwrite a newer one in the cache, so a key that was
  already refused may be let in again, within the time `RevokedInTime` allows.
* Under overlap one key may be looked up several times within a TTL.

### TenantGate, EgressProxy and TenantAccess

An id is a sequence of characters of three classes: the separator, those a
tenant id may have, others. `ValidTenant`, `Splits`, `EnforceRoom`,
`Qualifies`/`QualifyRoom` and `FilterRooms` are `tenant.go`; `Validate` is
`auth.go` over abstract claims. `Owns` is the reference definition, in the
words of the isolation comment. Signature, expiry and TTL clamp of a token are
one bit, decided by LiveKit's library and the clock; a token that is refused
now for living too long is accepted in its last `maxTTL`.

`EgressProxy` has the decision about one Twirp body: the method, whether the
body decodes, decodes with fields this build does not know, and in which of the
two encodings, the room or egress it names, its storage outputs, the seam
headers. The key prefix under which the seam stores is part of the destination
`"gateway"`. Under a seam the rewrite refuses a JSON Start with unknown fields;
`proto.Unmarshal` keeps them and the re-encoding passes them on. Such a field
can hold an output in a form that LiveKit added later (`UnreadOutput`), which
stays where the body says: `SeamHonoured` claims the seam for every output in a
form the build knows and allows that one kind past it.

A `ListEgress` must name a room of the token's tenant, and the rest of its body
is forwarded as it is, an `egress_id` included (`BodyIds`). LiveKit answers a
list by the id when one is given, which `resolveEgressRoom` itself relies on,
so the room that was checked says nothing about such a list. `Isolation`
excepts it by name (`ListsById`) and holds for every other call.

`TenantAccess` lets callers have such calls under way while rooms and egresses
come and go; `Resolved` and `Handled` are separate steps, as the lookup and the
forwarded call are. `op` is what LiveKit is asked to do. A room named
`acme:a:b` can be joined and is listed as `a:b`, while its DELETE is answered
400, since `QualifyRoom` refuses the separator; isolation is not affected.
The participants gauge compares prefixes without the length check of
`FilterRooms`; it is display only and left out.

### MeetProcess

`pc` is where `run()` is, `worker` its goroutines, `errs` the fill of `errCh`,
`child`/`termed`/`deaf` the livekit-server process. `Serve`, `ServerClosed`,
`SweeperEnds`, `StartFails`, `StartChild`, `WaitReturns`, `Report` are the
goroutines, `Select`, `Shutdown`, `CloseClients`, `WaitGroup` is main's way
out. `Terminate` is `exec`'s watcher. A child may exit at any time with any
status, and may be or become deaf to SIGTERM. What `cpClient.Close` waits for
is `UsageClient`'s matter.

### LiveRoom

One variable per place where an `async` method of `liveRoom.js` can be
waiting; each action is the code between two awaits. The SDK (external) may
resolve or reject every promise, lose the connection and get it back.

## Runs

| Run | Result | Shows |
|---|---|---|
| `usage_client` | pass | no double billing, visible loss, refinement of `MeterDelivery`; every event settles; shutdown ends with nothing left in the client |
| `usage_close_race` | violation | with a handler that outlives the grace, an event is lost uncounted |
| `metering` | pass | distinct idempotency keys, no overbilling, no time in two reports, accrual kept |
| `metering_ghost` | violation | a redelivered join makes the next session's report bill a participant who was not in it |
| `recordings` | pass | refinement of `RecordingLifecycle`; in-progress recordings are left alone; every expiry has a reason; a blob outlives its entry only if the sink handled its envelope late or answered the delete with 202 |
| `recordings_liveness` | pass | what is past retention is deleted in the end |
| `recordings_unfiled` | violation | `Deleted` may name a blob that arrives afterwards |
| `room_admission` | pass | one probe at a time, the ceiling with its overshoot, recovery; no deadlock |
| `front_door` | pass | limiters grant no more and no less than rate and burst; bearers looked at, on the admin API and on the apps routes, and joins are bounded; a revoked key stops working in time |
| `tenant_access` | pass | no call but a list by id concerns another tenant's room; lists are disjoint and agree with the parser; under a seam every output the build knows goes to the gateway |
| `supervisor` | pass | `run()` ends after a signal or a failure unless the child is deaf, closes its listeners even then, and leaves no child behind; no goroutine blocks in its send to `errCh` |
| `live_room_leave` | violation | the monitor may open the microphone after `leave()` has returned |

### Bounds

* `usage_client`: 3 events, one without a key, 2 attempts, a queue of 1. With
  one event at the worker and one queued, the third finds the queue full; two
  attempts give one retry and so one late request to race it.
* `metering`: 1 room, 2 interchangeable participants (symmetry), 2 sessions,
  2 ticks to the second, 4 ticks to the half minute, clock to 5. Rooms are
  independent entries of a map, so one is enough. Two sessions give reuse of
  the name; the clock is just long enough for two reports, each of both
  participants' time, whose finishes fall in neighbouring seconds.
  `metering_ghost` has 1 tick to the second and to the half minute, since the
  key plays no part in it and one tick of a ghost is to be billed; clock to 4.
* `recordings`: 3 recordings (two of one room, one of another, one tenant),
  caps of 1 and 2, TTL 1, clock to 3, 3 webhooks. Each rule can be the
  only one to select a recording. The liveness run and the violations have 2.
* `room_admission`: 2 joins and 1 admin call, 3 rooms, ceiling 1, timeout 1,
  cooldown 2, threshold 2: both joins can see the last slot; a third call can
  be the straggler of a probe.

* `front_door`: 1 client, 2 interchangeable overlapping requests (symmetry),
  1 key, 3 units to a token, 2 units a tick, bursts of one token, so a refill
  leaves a fraction that must not be lost and the cap cuts the next one; idle time 2, cache 2,
  timeout 1, clock to 3: enough for an eviction, for an entry to expire and for
  a lookup to return late. Clients and keys do not interact; the theorems cover
  any number.
* `tenant_access`: 2 interchangeable callers (symmetry), 4 tenant ids of which
  one is a prefix of another, one holds the separator and one a forbidden
  character; 7 room ids with the separator first, last, twice or missing; 1
  egress and 1 room at a time. Two callers are enough for one to look up while
  the other deletes.
* `supervisor`: no bounds; the process is finite.
* `live_room_leave`: 2 streams, enough for a leaked one and its successor.

`CHECK_DEADLOCK FALSE` stands where the system may stop: a process that has
exited, a bounded clock or set of ids that has run out.

### Fairness

* Metering client: weak fairness of the worker (a goroutine; each HTTP call
  has a 10 s timeout), of handlers and of `main()`. None of the network, the
  control plane, rooms or signals.
* Retention: weak fairness of the sweep (`RunLoop`'s ticker; each delete has a
  timeout). Strong fairness of a successful delete: the sink's outages end.
  Without it nothing could be promised about deletion. Restarts need no
  fairness: they empty the ledger, which ends the obligation.
* Breaker: time passes, calls return by their timeout, callers keep coming
  (weak); a child that is not stalled handles calls, and some caller stays for
  the answer (strong). `Recovers` speaks only of behaviours in which the child
  is, from some point on, never stalled.

* Process: weak fairness of the goroutines, of `main()`, whose `Shutdown`s
  share 10 s and whose `Close`s have timeouts, and of the exit of a child that
  was told to leave and is not deaf. None of signals, failures, binding a
  listener or unasked exits.

## Findings

1. `cp/usage.go:303`: `Close` may close the channel under a handler that
   outlived `Shutdown`; the send panics and the event is neither billed nor
   counted.
2. `wrap/recording_cloud.go:123`: a 404 counts as deleted although the
   envelope may still be on its way; the blob is filed afterwards and the entry
   is final. A forward that timed out at the client or was cut by a crash can
   still arrive, so the time for this does not end with `forward`.
   `OrphansComeFromSink` shows that a blob outlives its entry only in this way or
   by a 202 (below).
3. `wrap/usage.go:293`: a `participant_joined` that was applied in its session
   and is delivered again after that session's `room_finished` opens a usage of
   the room with the participant live. No leave follows, and the `room_finished`
   of the next session, which the participant never joined, reports the time
   since. The comment at lines 24-25 speaks of joined-to-left spans; this is none.
4. `web/src/lib/liveRoom.js:291`: a `leave()` while `_startMutedMonitor` waits
   for `getUserMedia` finds no monitor to stop; the stream opens afterwards.

Divergences met while modelling that have no run of their own:

* `wrap/retention.go:404` retries an `Expired` entry only if the policy
  selects it again, which a repeated completion webhook (it moves `EndedAt`)
  or the deletion of newer recordings can prevent; lines 122-123 promise the
  retry.
* `wrap/recording.go:344`: the in-progress gauge moves once per webhook, not
  per egress (`metrics.go:75`).
* `wrap/recording_cloud.go:123` counts 202 Accepted as the confirmation that
  `retention.go:55` speaks of, although the sink then still has the object and
  may keep it; lines 44-45 list it as "accepted for async delete". `OrphansComeFromSink` names it as the other way.
* `cmd/vulos-meet/main.go:116-118` says that the admin limiter (2/s, burst 5)
  protects the admin bearer token. The management routes of the apps handler
  compare the same token (lines 270-276, `apps.go` 283-291 and 347-354) on the
  public listener, behind its 10/s and burst of 20. `GuessesBounded` states the
  bound of each place.
* `cmd/vulos-meet/main.go:156-157` gives `/rtc` 10/s and a burst of 20. A join
  takes two tokens of that bucket, so 5/s and 10 are what a client gets; the
  double check is intended (393-394), the numbers are not what is granted
  (`JoinsPayTwice`).
* `wrap/egress_authz.go:23-38` says that the body's target room or egress is
  bound to the token's tenant. For `ListEgress` (57-64) the room is; an
  `egress_id` in the same body is not looked at.
* `wrap/egress_storage.go:22-23` speaks of repointing every file, segment and
  image output. An output in a field this build does not know passes through
  `proto.Unmarshal` and `proto.Marshal` (47, 61) as it was.
* `wrap/rooms_livekit.go:380`: errors unrelated to the child's health, such as
  a cancelled request, open the breaker (lines 86-87 speak of a stalled child).
* `wrap/supervise.go:22-25` promises SIGKILL after a grace period; without
  `WaitDelay` none is sent. `ShutdownEnds` therefore excepts a deaf child.
* A child that exits 0 unasked is no error: `run()` goes on serving without it.
* After `stop()` a second signal kills the process, in the middle of the flush.
* `RateLimiter`'s comment expects a caller of `GCOnce`; there is none.
* `leave()` during `_setupChat` leaves Talk polling.

## Theorems

Checked by TLAPS for every value of the constants, under the `ASSUME`s of the
modules: positive capacity, attempts, threshold, ceiling and units of time;
finite sets of joiners, rooms, egresses and participants; `CallTimeout < Cooldown`, which the defaults give
(7 s at most against 30 s) and nothing in the repository overrides;
`Rate * IdleTTL >= Burst`, so that an evicted bucket was full, which `main()`'s
600 s give; ids that are finite sequences over a set of characters with the
separator in it.

* **UsageClientProofs**: `TypeCorrect`, `BilledAtMostOnce`, `LossIsVisible`,
  `Refinement`. The inductive invariant says that an event is in at most one
  place (handler, queue, worker), each request carries its event's key, a key
  is known exactly when its event was billed, and an answer 2xx implies billed.
  Loss is then counted step by step: whatever leaves `Pending` is billed or
  raises `dropped`.
* **UsageReceiverProofs**: `TypeCorrect`, `KeysAreDistinct`,
  `BilledWithinLifetime`, `TimeIsBilledOnce`, `AccrualIsKept`. A report needs half a minute of
  participant time; with `n` participants that takes `HalfMinute / n` ticks
  since its usage was created, which is at least a second when
  `n * Second <= HalfMinute` (`SmallRooms`: 30 participants in real units). A
  usage is created no earlier than the room's previous report finished.
  Finishes of one room's reports are therefore at least a second apart, and the
  key contains the second. In larger rooms half a minute fits in one second and
  the argument ends; the theorem says so in its hypothesis. The overbilling
  bound, which holds for rooms of any size, needs that accumulated time plus
  the open span fits between creation and now. That reports do not overlap
  (`TimeIsBilledOnce`) needs no bound on the size either: only `room_finished`
  reports, it forgets the room, and a room is created anew no earlier than its
  last report.
* **RecordingLedgerProofs**: `TypeCorrect`, `InProgressIsSafe`,
  `LifecycleFollowed`, `RetentionIsHonoured`, `OrphansOnlyFromSink`. What
  the driver decided from its
  snapshot must survive every webhook in between: entries in `todo` stay final
  (`Upsert` never lowers a rank), entries in `marked` stay expired, and the
  reason for the decision stays true, since the clock and the set of finished
  recordings only grow within a pass. For the orphans: only the driver's
  confirmation makes an entry deleted, and it comes after an answer that left
  the sink without the blob or was a 202; after it the sink can only come to
  have the object by an envelope it had not handled.
* **RoomAdmissionProofs**: `TypeCorrect`, `UsesBreaker`, `OneProbeAtATime`,
  `CeilingHolds`. While the breaker is open, age plus time left exceeds
  `CallTimeout` for every call that began before it opened: stragglers end
  before the cooldown does, and the only call out after it is the probe. The
  ceiling: the rooms together with the rooms of admitted joins stay within
  `MaxRooms + |Joiner| - 1`.

* **FrontDoorProofs**: `TypeCorrect`, `NoTokenTwice`, `NoTokenLost`,
  `GuessingIsLimited`, `JoiningIsLimited`, `RevocationTakesHold`. The level of
  a bucket is what `Allow` would find in it now. In every window, what was
  granted plus the level is at most burst + rate * length (`Paid`), and in the
  window since the bucket was last full it is exactly that (`Spent`): a tick
  raises both sides by the rate or fills the bucket, a grant moves a token from
  the level to the grants, an eviction hits only a full bucket. The first gives
  the upper bound, the second that nothing is lost. Guesses plus requests about
  to be looked at are counted by the grants of the admin limiter
  (`Looked`). On the public one twice the joins, the bearers of the apps routes,
  the requests at the gate and those before the apps check are (`Joined`). For keys: a good answer on its way is no
  older than its call, which is younger than the timeout; a cached one is at
  most a timeout older than its stamp (`CallTimes`, `KeyTimes`).
* **MeetProcessProofs**: `TypeCorrect`, `NothingIsLeftBehind`, `ErrorsFit`. A
  child that is up has a supervisor that waits for it (`Supervised`), which is
  what makes the wait group's word good for the child (`Waited`). A goroutine
  sends at most one error before it is done and the sweeper sends none, so the
  errors in `errCh` and the goroutines that may still send are four at most
  (`Room`), also when `main()` no longer reads.
* **TenantAccessProofs**: `TypeCorrect`, `TenantsAreIsolated`,
  `ListsDoNotOverlap`, `SeamIsHonoured`. A valid tenant id has no separator, so
  the first separator of `t \o <<Sep>> \o rest` is at `Len(t) + 1`: the tenant
  of a room is unique, and comparing prefixes and parsing give one answer
  (`PrefixIsMine`, `OwnedIsMine`). A call that has reached LiveKit acts on a
  room that parses into its tenant (`Bound`). For a call on an egress this was
  decided at the lookup and still holds at the call, because the room of an
  egress that was started never changes (`Settled`). It needs that a call that
  waits for its lookup has a tenant (`Named`): a room that does not parse is
  given the empty tenant, which must not match. A list by id is bound by its room
  like any other list; the theorem claims nothing of the egress it reads.
  `Stored` relates the outputs of a call and of an egress to the seam they were
  started under (`DestinationsAre`).

Only model-checked: liveness (`Settles`, `ShutdownFlushes`, `SweptInTheEnd`,
`Recovers`, `ShutdownEnds`, `ListenersClose`), since fairness and `ENABLED` are
beyond the prover. Every invariant, action property and refinement of the
passing runs is also a theorem, `DistinctKeys` under `SmallRooms`.

## Not modelled

Signature checks of webhooks and tokens (LiveKit's library), HTTP and JSON
rendering, protobuf encoding in the egress proxy, configuration parsing,
cluster ping, geo-routing text, the apps adapter behind its admin check and the web UI: conversions or
one-time start-up work with no state that a later step depends on. Of the
metrics only the in-progress gauge is modelled; the other counters are written
and rendered, never read. Of the admin API the usage and info routes only read.
Of the browser client the chat transports, reactions and the shared board are
left out.

## Plan

Order of what follows, most important first.

1. `MeteringPath`: `UsageReceiver` composed with `UsageClient`, so that a
   distinct key per report and a single billing per key give one billing per
   finished room; its theorem from the invariants already proved
   (`KeysAreDistinct`, `TimeIsBilledOnce`, `BilledAtMostOnce`).
2. The chat transports of the web client.
