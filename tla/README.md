# TLA+ specifications of Remnawave Observer

The Observer watches a VPN panel (Remnawave): it collects the addresses users
connect from, scores users whose connections come from too many or too distant
networks, disables offenders on the panel for a while and enables them again. It
is one Go process; what it must remember lives in Redis, PostgreSQL and on the
panel, and none of its operations spans two of them in a transaction. These
specifications are about what can go wrong in between: goroutines that interleave
between two calls, calls that fail or lose their answer, keys that expire, a
process that stops halfway, a shutdown that races with work in progress.

Paths below are relative to `src/observer/internal/` unless they start with `src/`.

## 1. Inventory

### Components

| Component | Code | State it keeps | Operations |
| --- | --- | --- | --- |
| Panel ingest | `services/panelingest/service.go` | copy of the active nodes | refresh nodes; poll round; per node submit, fetch result, filter, enqueue |
| Observations | `services/observations/store.go` | Redis `rw:obs:lastseen:*` (watermarks), `rw:obs:nodes:*` | `ShouldEnqueue`, `RecordNodeObservation`, `GetNodesByUserIP` |
| Exclusion | `services/userpolicy/excluder.go`, user cache in `services/remnawave/client.go` | Redis `rw:userinfo:*` | `IsExcludedByInternalID` |
| Log worker pool | `processor/processor.go` 180-425 | log queue (channel), number of workers | `EnqueueEntries`, scale up, idle shrink, shutdown |
| Entry processing | `processor/processor.go` 463-1160 | none of its own | ASN lookup, window, features, evidence, decision, enforcement, alert |
| Hot ASN window | `services/storage/redis.go`, `scripts/add_and_check_asn.lua` | Redis `user_asns:*`, `asn_ttl:*`, `user_asn_ips:*` | `AddIPToASNMapping`, `CheckAndAddASN`, `ClearUserASNData` |
| Scoring | `services/scoring`, `services/asn/classifier.go`, `services/geoip/analyzer.go` | none (pure functions) | features, weights, thresholds, downgrade |
| Enforcement | `services/enforcement/remnawave_enforcer.go` | status on the panel, Redis `rw:disable:*`, `rw:reenable:zset` | `DisableTempByInternalID` |
| Re-enable scheduler | `services/enforcement/scheduler.go` | the same | tick: pop due users, enable, clear or retry |
| Local IP blocker | `services/enforcement/local_ip_blocker.go` | none | block a user's addresses on the nodes that saw them |
| Batch writer | `processor/batch_writer.go`, `database/repository.go` | its channel and batch, table `user_connections` | `Write`, flush by size or ticker, drain |
| Side effects and alerts | `processor/processor.go` 320-353, 447-461, 1093-1139 | task queue, Redis alert permits | queue a task, acquire a permit, send |
| GeoIP and fallback | `services/geoip/geoip.go` | Redis `geoip:*`, fallback queue and cooldown | `Lookup`, fallback worker |
| MMDB and ASN updaters | `services/geoip/mmdb_updater.go`, `services/asn/updater.go`, `updater/manager.go` | files, open readers | download, swap, close |
| Geodata and auto-learner | `services/geodata` | providers, overlay file, table of suggestions | learn, approve, write overlay, reload |
| Monitor, API, metrics, configuration, schema | `monitor`, `api`, `metrics`, `config`, `database` | reports and counters | read-only, or once at start |

`src/observer/cmd/observer_service/main.go` starts every loop under one context
and one `WaitGroup` (282-303). SIGINT or SIGTERM cancels that context (337) and
waits for all of them (340). Nothing in Redis or on the panel is rolled back.

### How they interact

    panel --nodes, sightings--> PanelIngest --EnqueueEntries--> log queue --> log workers
                                    |  watermarks (Redis)                        |
                                    v                                            v
                                rw:obs:*                       hot window (Redis, Lua script)
                                                                                 | new ASN
                       user_connections <-- BatchWriter <-- Write --------------+--> score
                                                                                 | temp_disable
         panel <-- DisableUser -- Enforcer -- record, ZSET (Redis) --+           v
         panel <-- EnableUser --- Scheduler -- pop, read, clear -----+     alert, IP block, clear timer

Calls within the process go through two bounded channels (log queue, writer's
queue), a third one for side effects, and a semaphore per poll round. Everything
else is shared through Redis and the panel, one command at a time.

### What is hard, and what makes each component correct

* **Enforcement and scheduler** - a user must not stay disabled for ever, nor be
  enabled before its time. Both actors write the panel, the record and the ZSET with
  separate calls and no lock; the due entry leaves the ZSET before its user is enabled.
* **Hot window** - an ASN must be recorded and scored once per window, the set
  and its markers must not drift apart although every key has a TTL of its own, and
  a delayed clear may hit a window that is in use.
* **Pipeline** - every record that was accepted is stored once or lost for a named
  reason; pool size, backpressure and shutdown race with each other.
* **Panel ingest** - the watermark must not hide a sighting that was never handed
  over; rounds must end; the node list must not stay wrong.
* **Alerts** - a permit is consumed before the alert exists, and the alert passes a
  bounded queue, a shutdown and a webhook: one alert per cooldown, and a cooldown
  without one must have a cause.
* **Exclusion** - decisions come from a cache that is hours old, that two callers write
  from different sources, and that fails open: a bypass must have a cause.
* **IP block** - addresses and nodes are read one at a time and end in one command: it
  must name nothing the user was not seen with.
* **GeoIP** - lookups, a worker with retries and a hot reload write one cache: an
  address must not wait for a lookup nobody makes, nor stay incomplete unexplained.
* **Auto-learner** - a table, a file and the loaded config change one after the other: no
  word without approval, no approved word lost, no recognised provider forgotten.
* **Scoring** - boundaries, the order of modifiers and the downgrade: which outcomes can
  be reached, and whether one strong signal may block a user.

`PROJECT.json` lists the hazards line by line, with the properties that cover them.

## 2. Plan

The modules were written in this order, the behaviour users feel most first:

1. `Enforcement`, with `EnforcementProofs`.
2. `Pipeline`, with the abstract specification `Ledger` it implements, and
   `PipelineProofs`.
3. `HotWindow`, with `HotWindowProofs`.
4. `PanelIngest`, with `PanelIngestProofs`.
5. `Scoring`, with `ScoringProofs`.
6. `GeoIP`, with `GeoIPProofs`: lookup, fallback worker and the reload of the MMDB
   reader share one cache, so they are one module.
7. `UserPolicy`, with `UserPolicyProofs`: exclusion, alerts and the IP block are steps
   of the same goroutines about the same user, and meet in one module.
8. `AutoLearner`, with `AutoLearnerProofs`.

Each run asks one question of one module; no module instantiates another component,
except `Pipeline`, which is shown to implement `Ledger`. `UserPolicy` composes the
poller, the log queue, the excluder, the alert path and the block; it abstracts what
`Pipeline`, `HotWindow`, `Scoring` and `Enforcement` show in detail.

Every safety property of a passing run has its theorem (section 5). Left for later:
`UserPolicy` disables a user in one step, and that `Enforcement` refines that step is
not stated; further action properties, such as what a watermark or a permit may never do.

## 3. Modules

A remote call is one action with an outcome `o`: `"ok"`, `"failed"` (nothing
happened) or `"lost"` (it took effect and the answer was an error or came too late).
Everything between two calls is local and belongs to the action of the call.
Variables marked *history* record what happened for the properties; no guard
of a modelled step reads them.

### Enforcement (`remnawave_enforcer.go`, `scheduler.go`, parts of `redis.go`)

| Variable | Code |
| --- | --- |
| `panel` | status of a user on the panel |
| `record` | `until` in `rw:disable:{id}` (`NoTime`: no key) |
| `zset` | score of the id in `rw:reenable:zset` |
| `worker` | a log worker inside `DisableTempByInternalID`: position, user, `untilUnix` |
| `sched` | `processDueDisables`: position, the ids popped, the user at hand, the record it read |
| `mishap`, `promised` | history |

Worker: `StartDisable` -> `CheckRecord` (idempotency check) -> `DisableUser` ->
`SaveRecord` -> `QueueReenable`. Scheduler: `PopDue` (one Lua script) -> per user
`ReadRecord` -> `EnableUser` -> `ClearRecord`, or `ResaveRecord` ->
`RequeueReenable` after a failed enable. Environment: `Tick`, `ExpireRecord`
(TTL of the record), `Restart`. `BatchSize`, `Duration`, `Timeout`, `Backoffs`,
`Retention` stand for the configuration. The user resolution before the first write
(`GetUserByInternalID`) is part of the call it precedes. An error of
`GetDisableRecord` is taken for "no record", as in the code; that is the mishap
`"blind"`.

### Pipeline and Ledger (`processor.go`, `batch_writer.go`, `main.go`)

`Submit` (`EnqueueEntries`, queued at once or waiting under backpressure,
`StopWaiting`) feeds `logCh`. `Scale`/`Spawn` follow `targetLogWorkerCount`, in
integers; `Receive`, `Process`, `WriteRecord`, `FinishBatch` are a worker's loop;
`LeaveIdle`, `LeaveClosed`, `LeaveCancelled`, `Leave` are its ways out, with the
counter decremented last. `Collect`, `FlushTick`, `Flush`, `CloseWriter`, `FinalFlush`
are the writer. `Shutdown` cancels, `ClosePool` closes the queue, `Exit` is the end
of `wg.Wait`. A send to a closed channel is `Panic`, which ends the process.
`Process` decides freely whether an entry yields a record: exclusions, the window
and the score are the business of other modules. `fate` says why a record has no row.

`Ledger` is what the connection log promises: a record is held until it is settled,
settled once, with one row or none. `Pipeline` implements it
(`ImplementsLedger`) under the mapping `StatusOf`.

### HotWindow (`redis.go`, `add_and_check_asn.lua`, `processor.go`)

One user suffices: every key holds the user's id and no command touches two
users. A key is stored with the tick it ends at; `Tick` deletes what has ended.
`SaveMapping` is `AddIPToASNMapping`, `CheckAndAddASN` the script as one step (new
by `SADD`, marker, pruning, `EXPIRE` of the set as `SetEnd`), `Score` what follows a
new ASN; it may arm a timer (`scheduleASNClear`) whose clear takes three calls,
`ClearScript`, `ScanMappings`, `DeleteMappings`. `Restart` may change the TTL.
History, kept of an ASN as long as it is marked: `scored`; `missed`, it came back after
its marker had ended and the set still held it; `cutOff`, its report was lost or its
worker was stopped before the score. The three are set by different actions and no
action reads them: that together with the workers at `"score"` they account for every
marked ASN is the property `ActiveIsScored`, not their definition.

### PanelIngest (`panelingest/service.go`, `observations/store.go`)

`Boot`, `RefreshTick`, `PollOnce`, `EndRound`, `StopRun` are `Run` and `pollOnce`;
a goroutine per node goes `Acquire` (semaphore) -> `Submit` -> `Result` (and `Wake`
while the job is pending) -> `CheckUser`, `ReadMark`, `SaveMark` per sighting ->
`Enqueue`. `Deadline` is `PanelFetchTimeout`: afterwards every call fails, which the
code answers by going ahead unchecked. A sighting is a tuple (node, user, address)
with a counter for `lastSeen`. The environment sees users (`See`), toggles nodes,
lets watermarks expire, cancels and restarts.

### Scoring (`scoring/`, `geoip/analyzer.go`, `asn/classifier.go`, `geodata/providers.go`, `processor.go` 868-942 and 1162-1269)

`Init` chooses what the window holds: the ASNs with their classification (`Classes`:
every type, modifier and confidence the classifier can return) and number of
addresses, and where these are. `Calculate` is `performEnhancedAnalytics`: the
features `ASNScore`, `GeoScore`, `Density`, their sum `RawScore`, the modifiers of
`ProviderMixFeature` (`Modified`), the least confidence and `DetermineAction`.
`ApplyEvidence` and `NoEvidence` are `applyRemnawaveEvidence`. The code computes with
`float64`; the model is exact, a point being `Scale` units so that no quotient
of up to four ASNs is rounded. A sum that should meet a threshold exactly may miss it by
one ulp in the code; the floor of 50 and its reductions, on which `HighRiskWatched`
depends, are exact enough there too (the bounds are 50 and 25 against 30). The loop over a Go map that
looks for the densest ASN may end at any of those that share the maximum.

What the model shows that the documentation does not say: the features add up to 78
at most, so the shipped threshold of 85 for `hard_disable` is never reached
(`HardDisableUnreached`); every confidence is at least 0.3, so the gate below 0.3 never
downgrades anything (`DowngradeUnused`); a block needs the maximum of the geographical score, mostly
high-risk providers and more than twenty addresses of one ASN
(`BlockNeedsAllSignals`). Not a run: `calculateGeoScore` gives zero as soon as
exactly one agglomeration is found (`analyzer.go:153`), also when further cities
belong to none, although the comments (140, 155) speak of all cities in one
agglomeration.

### GeoIP (`geoip/geoip.go`, `geoip/twoip_provider.go`, `geoip/mmdb_updater.go`)

A lookup goes `StartLookup` -> `LookupCache` -> `TakeReader` and `ReadBase` (the reader
is taken under the lock and read after it) -> `Reserve` -> `LookupCall` or
`LookupEnqueue` -> `LookupSave`. The worker goes `TakeTask` -> `WorkerCache` ->
`WorkerReserve` -> `WorkerCall` -> `WorkerBase` -> `WorkerSave`; a failed or refused
attempt leaves a timer (`FireTimer`). `pending` is the set that keeps an address from
being queued twice. The provider is on, paused until a time, or off for good; a
location is `"poor"` (it lacks the city or the coordinates) or `"rich"`. `SwapReader` is
`UpdateMMDBReader`: the new edition serves at once, `CloseReader` closes the old one
while lookups may hold it, and a lookup on a closed reader gets an error, hence a poor
base. Delays are not numbers: a spacing, a pause and a timer end some time after they
began. `lost` is history: the addresses whose enrichment was dropped by a full queue, by
the last retry, by a failed cache write or by a save that overtook another.

### UserPolicy (`userpolicy/excluder.go`, `remnawave/client.go`, `panelingest/service.go`, `processor/processor.go`, `enforcement/local_ip_blocker.go`, `redis.go`)

What the observer does about one sighting, from the poller to the block. A poller per
node takes a sighting (`Sight`), resolves a user who is reported by name (`ResolveUser`,
which stores a record of its own), asks the excluder (`CheckCache`, `FetchUser`,
`StoreUser`) and hands the entry over (`EnqueueEntry`). A log worker (`TakeEntry`) asks
the same excluder again, then `RecordNode` -> `Score` (the decision is any of none,
warn, block) -> `AcquirePermit` -> `QueueAlert` -> `Disable` -> `CollectIPs` -> `NodesOf`
per address -> `BlockIPs`; whichever of the last three ends the enforcement arms the
timer of the clear (`ScheduleClear`, then `ClearWindow`). `SendAlert` is the side-effect worker and
the webhook; `Cancel` is the shutdown, after which queued alerts are drained unsent.
Users move between squads, cached records and permits expire. The `history` record says
what happened: failed checks, moves, records without squads, alerts and their losses,
sightings.

### AutoLearner (`geodata/autolearner.go`, `geodata/loader.go`, `geodata/providers.go`, `database/repository.go`)

One cycle over the PostgreSQL statistics: `StartCycle` -> `ChooseCluster` (the names in
any order; each stands for the names similar to it) -> `InsertCandidate` -> `Approve` ->
`EndChoice` -> `WriteOverlay` -> `Reload`. What matching sees in a name is a record of
the constant `Name`: the keywords it matches, those within it, the type a heuristic
word hints at, the keyword `extractKeyword` makes of it. Each store fails apart
(`Fault`). A call of the database may fail and have stored its row all the same
(`InsertCandidate`, `Approve`): the code goes on without the word, and a name is left
approved that no file knows. `Load` reads the base and the overlay, or the base alone
when the overlay is unreadable; `Reload` and `Restart` do it. `Restart` forgets the cycle
and deletes garbage rows (`Cleanup`); between cycles names gain users (`Sighted`).
History: `missed`, the last read of the overlay failed; `unwritten`, names whose approval
was stored but no write of the overlay followed; `dropped`, names whose word a write
removed that could not read the file. The code shows some things worth knowing: an overlay that
cannot be parsed is silently replaced (`writeOverlay`); with another
`AUTO_LEARNING_OUTPUT_FILE` than `providers.learned.yaml` the overlay is written but
never read (`loader.go:145`); names that are not approved are inserted again in
every cycle; the name that happens to come first decides for those similar to it.

## 4. Runs

| Run | Checks | Bounds |
| --- | --- | --- |
| `enforcement_two_users` | types; a user is stranded only by a named cause (`StrandedHasCause`); at rest panel, record and ZSET agree (`QuietAgreement`); the idempotency check skips only disabled users (`SkipOnlyIfDisabled`); no enable before the promised end (`NoEarlyEnable`) | 2 users, 2 workers, batch of 1, 4 ticks, 1 fault, 1 restart |
| `enforcement_live` | a disabled user is enabled although enables fail (`EventuallyEnabled`) | 1 user, 6 ticks, 2 faults, 1 restart, fair |
| `pipeline_safety` | types; each record in exactly one place (`Conservation`); nothing left in a queue after an orderly exit (`SettledAtExit`); pool size (`PoolWithinBounds`); `ImplementsLedger` | 4 records in 2 batches, queue of 1, writer's queue of 2, base of 1 and at most 3 workers in 3 slots, 1 refused insert |
| `pipeline_live` | accepted records settle (`SettlesEventually`); shutdown ends (`ShutdownTerminates`) | 3 records in 2 batches, batch size 2, fair |
| `pipeline_panic` | *violated*: `WriteNeverPanics` | no fault |
| `hot_window` | types; marked implies member (`MarkedIsMember`); an active ASN is scored or a named cause kept it from the score (`ActiveIsScored`); the window of a quiet user ends (`QuietWindowEnds`); a marked ASN has an address (`MarkedHasAddress`) | 2 ASNs, 2 workers, 1 timer, TTL 1 or 3, 4 ticks, 1 fault, 1 restart |
| `panel_ingest` | types and the semaphore; a watermark hides only what was handed over or lost for a named reason (`MarkedWasSent`); a sighting is handed over once (`SentOnce`); rounds end and the node list follows the panel (`ListFollowsPanel`); sightings arrive (`SightingsArrive`) | 2 nodes, 1 slot, 1 tuple seen twice, 1 fault, 1 toggle, 1 restart, fair |
| `scoring` | types; what a block needs (`BlockNeedsAllSignals`); high-risk users stay in sight (`HighRiskWatched`) | up to 3 ASNs of 4 types with 2, 20 or 100 addresses, 12 spreads of 8 places, all evidence with counts up to 3 |
| `geoip` | types; a pending address has a task (`PendingHasTask`); an incomplete entry is explained (`PoorIsExplained`); pending addresses are dealt with (`PendingSettles`) | 2 addresses, 2 lookups at once, queue of 1, 1 retry, 2 editions, 1 fault, fair |
| `user_policy` | types; an excluded user is handled only for a named cause (`BypassHasCause`); one alert per cooldown (`AlertOncePerCooldown`); silence has a cause (`SilenceHasCause`); a block names what was seen of the user (`BlockedIsSighted`) | 2 users, 3 addresses of which 1 excluded, 2 nodes, 4 possible reports, 2 workers, queues of 1, 2 sightings, 1 move, 1 fault |
| `user_policy_resolve` | *violated*: `ExcludedBypassed` | no fault, no move |
| `auto_learner` | types; learned words were approved (`LearnedWasApproved`); approved words are kept (`ApprovedIsKept`); classes only move up (`ClassesMoveUp`); a learnable name is known in the end (`Learns`) | 5 names, 3 types, 1 addition per cycle, 2 faults, 1 restart, fair |

The longest runs (`geoip`, `auto_learner`, `enforcement_two_users`, `user_policy`) take one
to three minutes with two workers.

Why the bounds suffice. The interesting cases need two actors and one mishap: a
second user or worker for the interleaving, one failing call at any of the positions,
one restart at any of them. A queue of one and a batch of one or two are full, empty
and overflowing within a few records; a batch of one makes the scheduler leave a
due user for its next tick. Three slots over a base of one let two idle workers leave
together, and one leave after another worker was counted. Horizons let a block start, end and start again, and a
window close and open again. Every name that bounds only the model (`Horizon`,
`MaxFaults`, `MaxCrashes`, `MaxRestarts`, `MaxSeen`, `MaxToggles`, `Reports`, `Counts`,
`Spreads`)
is a constant with a comment. For the score, three ASNs give minorities and majorities
of every type, the counts lie on both sides of each limit of the density, and the
spreads have one to three countries, up to seven cities and no, one or two agglomerations. Symmetry is
used for workers, users, slots, timers and ASNs in safety runs only.

For `geoip`, two addresses fill and overflow a queue of one, two lookups of one address
race with the worker's save, and both editions know one of the addresses, so a lookup of
it is poor only if its reader was closed under it. For `user_policy`,
two workers race for the permit, two sightings give an alert in the queue and one that
finds it full. The reports the panel may make (`Seen`) let one user be seen with two
addresses on two nodes, which one command then names, or with an excluded address, or
two users with one address on different nodes, whose nodes must not be mixed. The one
failing call may be any: the check, the permit, or the lookup of the second address,
after which the code blocks neither. For `auto_learner`, the
names share a keyword with different types, are similar to each other, or are known
already, and one addition per cycle leaves a name for a later one.

`pipeline_live` switches the deadlock check off: it has no faults to give, and a
process that was never asked to stop may legitimately rest. Liveness decides there. `geoip` and
`user_policy` switch it off as well: the bounds end their traffic, and a service that
was cancelled has nothing left to do.

### Findings

* `pipeline_panic`: at shutdown the writer closes its channel while log workers may
  still write to it; the send panics and ends the process.
* `user_policy_resolve`: `ResolveUser` parses a user without squads and caches that
  record over the one that has them (`client.go:260`); the excluder takes it from the
  cache, and a user of an excluded squad is scored, alerted about and blocked although
  `src/README.md:311` promises the bypass. Nothing fails.

Four more disagreements with the documentation are kept as configurations to be run by
hand; the first three are causes the properties of the runs above name, the fourth is
outside what `BlockedIsSighted` promises.

* `tlc -config EnforcementOverlap.cfg MCEnforcement` (`NoUserStranded`): a log worker that
  disables a user again between the scheduler's enable and its delete of the record
  loses its own record; the user stays disabled, although nothing failed.
  `src/README.md:58` promises an automatic re-enable. `StrandedHasCause` counts it as the
  cause `"overlap"`.
* `tlc -config PipelineFlush.cfg MCPipeline` (`WriterKeepsAll`): at shutdown a flush with
  the cancelled context fails and its batch is dropped before the final flush that the
  comment at `batch_writer.go:73` relies on.
* `tlc -config HotWindowReturn.cfg MCHotWindow` (`ReturnIsNew`): an ASN whose marker ended
  is not new when it returns, as long as another ASN kept the set alive.
* `tlc -config UserPolicyNodes.cfg MCUserPolicy` (`BlockedWhereSeen`): one command names
  every address on every node collected, the cross product, although the comment at
  `local_ip_blocker.go:31` says that addresses are blocked "on nodes where they were
  observed".

Further differences, seen while modelling and not the subject of a run: the
agglomeration rule of `analyzer.go:153` (section 3); the processor's ASN database is read once at start, and
the hourly updater refreshes another copy (`main.go:129`).

### Fairness

* `Enforcement`: time passes, the ticker fires and every call returns (clients and
  contexts have timeouts): weak fairness of `Tick`, `SchedulerStep`, `WorkerStep`.
* `Pipeline`: goroutines are scheduled, timers fire: weak fairness of each loop
  and of every slot. Nothing forces a submission or a shutdown.
* `PanelIngest`: weak fairness of `Run` and of every node's goroutine and
  deadline. The refresh ticker competes with the poll ticker in one `select`, which Go
  resolves at random: strong fairness of `RefreshTick`. `SightingsArrive` assumes
  in its premise that the node is answered in time again and again.

* `GeoIP`: goroutines are scheduled, provider and Redis calls have timeouts, timers and
  pauses end: weak fairness of the worker while the service runs, of the lookups together, and of `FireTimer`,
  `SpacingEnds`, `PauseEnds`. The number of lookups is bounded, so callers do not take
  the provider's slot from the worker for ever; with unbounded traffic at every
  spacing the worker could starve, which `PendingSettles` does not rule out.
* `AutoLearner`: the ticker starts cycles and every call has a timeout: weak fairness of
  `CycleStep`. `Learns` assumes in its premise that the name's users stay.

Nothing forces a fault, a crash, a sighting or a block; fault budgets are finite, so
liveness says what happens once faults cease.

## 5. Proofs

Checked by TLAPS for all values of the constants that satisfy the modules'
assumptions (`EnforcementAssumption`, `PipelineAssumption`, `HotWindowAssumption`,
`PanelIngestAssumption`, `ScoringAssumption`, `GeoIPAssumption`, `UserPolicyAssumption`,
`AutoLearnerAssumption`). TLC evaluates them in every run, and checked the inductive
invariants before they were proved. A theorem that needs more of the constants has a
named hypothesis: `BlockOutlastsCalls`, `ShippedTable`, or a bound on the thresholds.

`EnforcementProofs`

* `TypeCorrect`: `Spec => []TypeOK`.
* `StrandedOnlyByHarm`: `Spec => []StrandedHasCause`. The invariant is not
  inductive: that a user is not stranded now says nothing of the scheduler's position.
  `IInv` adds, for a user without harm, `Scheduled` (a disabled user nobody is
  scheduling has a record and is queued or popped), `EnableAlone` (between the
  scheduler's read and its delete no worker is past its disable) and
  `RecordBeforeQueue` (a worker about to add to the ZSET has a record), next to
  what the program counters say of the locals (`WorkerLocals`, `SchedLocals`).
* `EnabledInTime`: `Spec => NoEarlyEnable`. The scheduler compares the record with the
  clock it read at the start of its pass; what it may trust is `TimeInv`: that clock is
  in the past, and while a user was `Orderly`, the record reaches the longest block
  (`Covered`), at most one worker is past the check for it (`OneWorker`), and what a
  worker or the scheduler is about to write reaches it too (`Ahead`, `SchedFits`).
* `StoresAgree`: if `BlockOutlastsCalls`, `Spec => []QuietAgreement`. What makes the
  stores agree while nobody works on a user is what holds while somebody does: a queued
  id, a record that is not over and a worker about to schedule each belong to a disabled
  user (`Witnessed`). The scheduler may therefore enable only a user for whom none of
  the three is there; `AtHand` says so of the user at hand, `InBatch` of the popped
  ones, which a worker may schedule again meanwhile, and `JustSaved` that a worker about
  to queue an id has just written its record.
* `SkipIsRight`: if `BlockOutlastsCalls`, `Spec => []SkipOnlyIfDisabled`, from the same
  invariant: a record that outlasts the new block is not over, so its user is disabled.

`BlockOutlastsCalls` (`Timeout < Duration`) is needed: a call that outlived the block it
belongs to could queue a user whose new record is over. The code gives a call ten
seconds (`processor.go:66`) and a block five minutes by default (`processor.go:825`); every run but the one kept to
be run by hand satisfies it.

`PipelineProofs`, for any batches, number of workers and sizes of the queues

* `TypeCorrect`: `Spec => []TypeOK`.
* `NothingLost`: `Spec => []Conservation`. A record is counted by adding up where it
  is (`Sum`); the lemmas about `Times` say what appending to, taking from and joining
  queues does to the count, and each step moves a record from one summand to another.
* `PoolBounded`: `Spec => []PoolWithinBounds`. `PoolFits` counts the workers about to
  start with those alive, and says that base workers leave only a closed, empty queue.
* `SettledWhenOver`: `Spec => []SettledAtExit`, from `Conservation` and the control part
  of the invariant (`WorkersFit`, `PoolFits`, `IngestFits`, `WriterFits`, `ExitFits`): after
  the exit every place but the rows and the named losses is empty.
* `PipelineKeepsLedger`: `Spec => ImplementsLedger`. The initial states map to one of
  `Ledger`; a step maps to a submission, a row, a loss or a stutter, because no step
  takes back a row or a loss (`Onward`) and `Conservation` leaves a record one end.

`HotWindowProofs`

* `TypeCorrect`: `Spec => []TypeOK`.
* `MarkersHaveSet`: `Spec => []MarkedIsMember`. A tick could delete the set and
  leave a marker; `Lasting` adds that the set ends no earlier than any marker, which
  is what the script's `EXPIRE` establishes, also after a restart with a shorter TTL.
* `QuietEnds`: `Spec => []QuietWindowEnds`, from `Graced`: the set ends within the grace
  from now, or no later than the grace after some live marker, for the script takes its
  end from the longest of them, not from the TTL of the day.
* `EveryProviderScored`: `Spec => []ActiveIsScored`, one step per action: the script may
  only mark an ASN that was new, marked before, or missed (`AccountedElsewhere` is about
  the others), and a lost answer and a restart leave `cutOff` behind.
* `NewOnce`: `Spec => NewOncePerWindow`, from `Lasting`: the script calls an ASN
  new only if it is no member, so it has no marker. Proved only: no run repeats it.
* `MarkersHaveAddress`: `Spec => []MarkedHasAddress`. While nothing failed for an ASN, a
  worker that is still observing it has just renewed its addresses, and otherwise they
  last as long as its marker (`Mapped`); a mapping that lasts is not empty (`Kept`).

`PanelIngestProofs`, for any nodes, users and addresses

* `TypeCorrect`: `Spec => []TypeOK`; a part of it is the limit of the semaphore.
  `RoundFits`: a goroutine works only within a round.
* `NothingHidden`: `Spec => []MarkedWasSent`, from `MarkFits`: a watermark ahead of what
  was sent has its entry in the memory of that node's goroutine. `JobsFit` says that
  a goroutine holds a tuple of its own node, and each once.
* `HandedOverOnce`: `Spec => []SentOnce`, from `OnceFits`: as long as its watermark was
  readable and did not expire, what is held of a tuple is newer than what was sent.

`ScoringProofs`, for every table of provider types, every window and every geography

* `TypeCorrect`: `Spec => []TypeOK`, from the ranges of the features (`ASNScoreType`,
  `GeoScoreType`, `DensityType`, `RawScoreType`).
* `NeverDowngraded`: `Spec => []DowngradeUnused`, for all thresholds; the invariant
  `Confident` says that a confidence is one of six values, none below 30. Proved only.
* `NeverHardDisabled`: if `HardAt > 78`, `Spec => []HardDisableUnreached`, from
  `ScoreBounded` (30 + 33 + 15 points). Proved only.
* `HighRiskStaysWatched`: if `MonitorAt <= 30` and `WarnAt <= 50`,
  `Spec => []HighRiskWatched`; `Floored` keeps 50 points before and 30 after the
  evidence.
* `EvidenceMitigates`: `Spec => EvidenceNeverHarsher`, for all thresholds, because
  `ByThreshold` is monotone in whatever order they are. Proved only.
* `BlockIsEarned`: if `ShippedTable` (a disable needs 75 points, no modifier exceeds
  1.8 and none of an ordinary type 1.4), `Spec => []BlockNeedsAllSignals`.
  `HighScoreExplained` says what a score of 75 takes; it rests on a count: when no
  high-risk type has the majority of the providers, the ASN feature stays below 27
  points (`OrdinarySum`, `OrdinaryScore`), and the other features do not make up for it.

`GeoIPProofs`, for every number of addresses, lookups, retries and editions

* `TypeCorrect`: `Spec => []TypeOK`.
* `PendingIsServed`: `Spec => []PendingHasTask`. Needs `AtWork` (a goroutine has an
  address exactly while it is busy), for the worker may not drop what it took.
* `PoorExplained`: `Spec => []PoorIsExplained`. A lookup may be about to store an
  incomplete location it read long ago; `PoorSaved` says that by then the address is
  pending, its enrichment is lost, or there is no provider.

`UserPolicyProofs`, for every number of users, addresses, nodes and workers

* `TypeCorrect`: `Spec => []TypeOK`.
* `BypassExplained`: `Spec => []BypassHasCause`, from `CacheFits` and `AnswerFits`: a
  cached record and an answer on its way to the cache that are wrong about a member of
  an excluded squad are excused by the same causes.
* `OneAlert`: `Spec => []AlertOncePerCooldown`, from `Alone`: while a permit lasts, one
  alert was queued or one worker, not two, is about to queue it.
* `SilenceExplained`: `Spec => []SilenceHasCause`, inductive with the types.
* `BlocksAreSighted`: `Spec => []BlockedIsSighted`, from `Reported` and `Traced`: what a
  goroutine holds, the queue carries and Redis keeps of a user was reported of it.

`AutoLearnerProofs`, for every set of names, keywords and types

* `TypeCorrect`: `Spec => []TypeOK`; `ClassifiedType` bounds what the classification yields.
* `LearnedApproved`: `Spec => []LearnedWasApproved`, from `Sourced`, which splits it into
  the loaded config, the overlay and the words a cycle carries.
* `ApprovedKept`: `Spec => []ApprovedIsKept`, from `Carried`: the names of a cycle have
  their words among those it will write, and after the write in the file. A write that
  could not read the file keeps the words of the cycle and, of the others, drops exactly
  those it then names.
* `ClassesUp`: `Spec => ClassesMoveUp`, from `LoadedFits` (the loaded config holds nothing
  the files lack, unless the last read of the overlay failed) and `PlaceMonotone` (more words never
  give a name a later place; the least place exists because the order of the natural
  numbers is well-founded).

Only model-checked: liveness (`EventuallyEnabled`, `SettlesEventually`,
`ShutdownTerminates`, `ListFollowsPanel`, `SightingsArrive`, `PendingSettles`, `Learns`),
for the prover has no rules for fairness and `ENABLED`. The two runs that expect a
violation show what the code does not keep, and have no theorem. What a recursive
definition computes for every input would be out of reach as well; the modules with
theorems use none.

## 6. What is not modelled

* Wording, logging, JSON shapes, HTTP status codes: a call succeeds, fails or
  loses its answer.
* Redis rounds a TTL to seconds; the models count in ticks. In the last half second of a
  marker the script reads a TTL of 0 and prunes an ASN that is still marked. `SADD` and `EXPIRE` of
  `AddIPToASNMapping` are one pipeline and one action; that the connection breaks
  between the two is not modelled.
* One poll result names a tuple once; the code accepts repetitions and the
  watermark drops those that are not newer.
* `UnblockByInternalID` has no caller. The startup cleanup runs before any goroutine; what
  it takes from the learner's statistics is part of `Restart` of `AutoLearner`.
* GeoIP: a reader that is unmapped while a lookup reads it (`geoip.go:466`) would be a
  fault of the process, not a state; the model ends such a lookup with an error. A
  download yields a new edition or none: files, hashes and HTTP are left out.
* The ASN database and its updater: the processor's copy is never replaced, so there is
  no interaction. The updater manager only starts and awaits the updaters.
* Auto-learner: the cycle over the in-memory log of unknown providers runs only without
  a database, which `main` always sets. Tokenizing and similarity are the constants
  `Name` and `Similar`.
* UserPolicy: the window of recent addresses is the set of a user's addresses (its keys
  and their ends are `HotWindow`), the score a free choice, the disable one step
  (`Enforcement`).
* Monitor reports, HTTP API, metrics, configuration and schema keep no state another
  part reads back; the service does not call `services/enrichment`.
* `Scoring` starts where the addresses of the window are known; keyword matching and
  distances are abstracted to their outcome.
