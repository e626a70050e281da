# Formal model of the Geo-Spatial Dispatch Service

TLA+ modules, TLC configurations and TLAPS proofs for the Go service under `src/`. The service
matches riders with nearby drivers. Its state is in Redis; any number of HTTP and WebSocket
handlers, in one or several processes, work on it at once with plain commands and small Lua
scripts. What can go wrong there is what happens *between* two Redis calls of one handler. Inside one
process, goroutines and channels carry locations from driver to rider connections; what can go wrong
there is what one goroutine does between two steps of another.

## 1. Inventory

| Component (source) | State it keeps | Operations | Interacts with |
|---|---|---|---|
| Dispatcher (`dispatch/dispatcher.go`) | none between requests | `FindAndAssign`, `tryAssignDriver`, `ReleaseDriver`, `CancelAssignment`, `ArriveAssignment`, `UpdateDriverLocation`, `ResetRiderAssignment`, `GetStats` | calls every service below |
| Ride lifecycle (`dispatch/lifecycle.go`) | `dispatch:assignment:<id>` (hash, 24 h), `dispatch:rider-active:<id>`, `dispatch:driver-active:<id>` (24 h) | scripts create, cancel, arrive, refresh, clear, clearReset | reads the locks and writes driver statuses inside its scripts |
| Driver locks (`dispatch/lock.go`) | `dispatch:lock:<driver>`: the request id (10 s) | `TryLock`, `Unlock` (`ExtendLock`, `IsLocked`: no caller) | cleared by cancel and by demo reset too |
| Driver status (`driver/driver.go`) | `driver:status:<id>`: available or busy (30 s); absent = offline | `SetStatus`, `SetBusy`, `Heartbeat`, `GetStatuses`, statistics | written by dispatch, by ride scripts, by clients |
| GeoService (`geospatial/geo.go`) | GEO set `locations` | add, position, radius query; coordinate validation | read by dispatch and by arrive |
| Demo reset (`server/demo_handler.go`) | `demo:session:lease` (TTL) | lease script, reset of the demo riders | deletes locks, runs cancel and clear scripts |
| HTTP handlers (`server/*_handlers.go`, `cmd/server/main.go`) | none | decode, call, map errors to status codes | start every operation |
| Realtime hub and clients (`realtime/`, `server/ws_handlers.go`) | map of clients, channels, send buffers | register, unregister, broadcast, pumps, stop | location updates and heartbeats into the dispatcher |
| WorkerPool (`server/worker.go`) | two channels, wait group, context | start, submit, submit-and-wait, stop, shutdown | none: an isolated example |
| RateLimiter (`ratelimiter/`) | one budget per key in Redis | set, deduct (Lua), query | `ratelimit_handlers.go` |
| Process (`cmd/server/main.go`, `server/server.go`) | servers and clients | start, signal, ordered shutdown | all |
| Demo page (`server/demo/index.html`) | browser state | HTTP calls | demo reset, dispatch |

What is hard: a dispatch request is a chain of up to seven Redis calls per candidate driver, with a
different rollback for each; the lock protecting the chain can expire under it; its token is the
client's request id, which two requests may share; a lost reply makes the client library repeat a
script that has already run; statuses live 30 s and rides for hours; a demo reset cuts through all of
it. In the process, a connection is replaced while its goroutines still run, buffers are full, the hub
stops while everyone is about to send to it, and the process ends without waiting for the hub.
`PROJECT.json` lists these hazards at their lines.

What makes the components correct:

* *lifecycle*: no two rides in progress share a driver or a rider; no cleanup orphans a ride; a ride
  moves only along its lifecycle;
* *locks and status*: one request at a time works on a driver; a claim that fails is rolled back; a
  driver on a ride is not offered; the status of a driver on a ride recovers;
* *reset*: it frees the riders it passes, and damages no ride it did not find;
* *statistics*: a scan misses no driver that stayed online and reports none that was not available;
* *hub*: the connection being served is the registered one; riders see accepted locations only, in
  order; a connection that should end ends; a slow client holds nobody up;
* *process*: Redis is closed after its users; a signal ends the process;
* *pool*: no job is lost or run twice; calls, stop and shutdown return;
* *limiter*: every unit of a budget is accounted for, whatever is lost and repeated.

## 2. The modules

| Module | Models |
|---|---|
| `DispatchStore` | The Redis keys as variables; every command and Lua script as one action on them (Redis runs them atomically), its return code as an operator `...Result`; key expiry |
| `Handlers` | Goroutines `Procs` with their local variables `h[p]`, the outcomes of a Redis call, where each error leads |
| `FindAndAssign` | `POST /dispatch/request`, one action per Redis call |
| `RideHandlers` | cancel, arrive, location update, status, geo add |
| `DemoReset` | `POST /demo/reset` |
| `DispatchService` | The composition: `Start`, `Step`, failures, expiry; the properties; the inductive invariant |
| `RideLifecycle` | The abstract specification: rides without keys, locks or handlers |
| `RealtimeHub` | The goroutine of `Hub.Run`, and per connection the handler that registers it, `ReadPump` and `WritePump` |
| `ServerProcess` | `main` around `RealtimeHub`: the HTTP server, the signal, `Shutdown`, the deferred calls |
| `WorkerPool` | Workers, callers of `Submit` and `SubmitAndWait`, `Stop` and `Shutdown` over two channels |
| `RateLimiter` | `SetBudget` and `AllowAtomic`: attempts that are lost or repeated, Lua's numbers |
| `StatusScan` | One `GetDriverStats` or `GetAvailableDrivers` while the status keys change |
| `MCDispatch`, `MCHub`, `MCProcess`, `MCPool`, `MCLimiter`, `MCScan`, `*.cfg` | Instances for TLC |
| `DispatchProofs` | Rides, keys and the refinement: what holds under every fault |
| `ClaimProofs` | Locks, claims, statuses and demo reset: what holds when some faults are excluded (extends `DispatchProofs`) |
| `HubProofs`, `ProcessProofs`, `PoolProofs`, `LimiterProofs`, `ScanProofs` | The theorems of the component of that name and their proofs |

The first six form one specification, and `ServerProcess` extends `RealtimeHub` to another; the
remaining components share no state with them or with each other that a property is about. The link
between the two specifications is the location handler: `Persist` and `PersistFails` of the hub stand
for a whole `UpdateDriverLocation`, whose Redis calls are the location update of `RideHandlers`.

`h[p].pc` is the Redis call a handler makes next, and one step of a handler is that call with the
local computation up to the next one. Values read from Redis are kept in `h[p]` (`todo`, `avail`,
`a`, `d`, `r`, `x`) and are as old there as in the code. `map` in `PROJECT.json` gives the lines of
each definition; operators named as mutants are deliberate bugs that show which property would catch
them, and are used nowhere else.

### Channels and goroutines

In `RealtimeHub`, `reader[c]` is where a connection's handler and then its `ReadPump` is (`"register"`
and `"unregister"` wait for the hub, `"persist"` is inside the location handler, `"publish"` waits for
room in `broadcastLocation`, `"close"` is the rest of the deferred function), `writer[c]` the same for
`WritePump`, `hub` the local state of `Run`. A send on an unbuffered channel is one step of sender and
receiver together (`RegisterClient`, `UnregisterClient`); the alternative of the same `select`, the
hub's context, is an action of its own (`RegisterStopped`, `UnregisterStopped`, `PublishStopped`). The
pumps start in the step that registers (`StartPumps`); nothing can tell the difference, because a pump
that has not started yet is a pump that has not been scheduled. A broadcast is one step per rider for
`IsSubscribedTo` and one for `SendBytes`, since the rider's own goroutine may run in between; the set
of riders is fixed at its start, since only `Run` changes the map. `stored`, `seen` and `late` record
history for the properties: the updates the backend accepted, the last update each peer received from
each connection, and the updates sent on since an unsubscribe. In `ServerProcess` a connection may still
be accepted while `Shutdown` waits, and is then waited for as well.

In `WorkerPool` a job and its result are one number; processing is the step between `TakeJob` and
`Deliver`. A receive from the closed results channel yields the zero result (`CollectZero`). The collector of
`SubmitAndWait` counts the results of its batch; a reader of `Results` is not tied to what it submitted
and may take the results of others (`Reading`, bounded by `MaxReads`). In
`RateLimiter` a call in progress is a record with the attempts it has left; `granted` is what callers
were told they have, `wasted` what was deducted for an attempt whose reply was lost. `Exact` stands for
2^53 and `ToNumber` for the nearest double, of which the specification only assumes that it is the
identity up to `Exact`; amounts are below `Largest`, which stands for 2^63, the double nearest to the
largest int64. In the instances Lua numbers have two bits, which changes only where rounding
begins. In `StatusScan` the promise of
`SCAN` is in the guard of `Scan`: the zero cursor comes only when every key that was there all the time
has been returned.

### What is abstracted, and why it is sound

* *Places.* Positions are members of `Places` with a distance function; the GEO query returns the
  drivers within the radius in any order sorted by distance. Haversine, geohash rounding and units
  are left out.
* *Inputs are chosen where they are read.* The search point, radius and pickup of a request are read
  once each, so they are chosen at that call and need no local variable.
* *First calls.* A `Start` action is the first Redis call of a request. A first call that is not
  executed leaves no trace; one whose reply is lost is `Start` followed by `CallFails` or `Abort`.
  A request refused by the state it reads first (cancel of a ride not en route) changes nothing and
  has no action.
* *Heartbeat over WebSocket* only extends a key's life, and the model lets the status key expire at
  any time.
* *`validatePickup`* cannot fail: the handler has validated the coordinates. Coordinates that Redis
  refuses although the code accepts them are an error reply (`CallFails`).
* *Failures* (`Faults`): `retry`: the command runs, its reply is lost, go-redis sends it again;
  `lost`: it runs and the handler sees an error; `error`: it does not run; `abort`: the context is
  cancelled or the process dies, and no later call of the handler is made; `lock`, `status`,
  `record`, `lease`: keys expire. Redis itself does not lose data.
* *Messages* of the hub are the n-th location update of a connection, or a reply (acknowledgement or
  error). Frames that are not JSON or have an unknown type have no effect.
* *Pings, pongs and deadlines* are the possibility that a read or a write fails once the peer is gone.
* *The HTTP server* serves a set of requests; `Shutdown` waits until none is active or its 5 s are over,
  and does not know of upgraded connections.

### Assumptions of the model

* *Order of expiry.* create and arrive set the deadline of the record and of the two active keys in
  one script, the record first, and cancel deletes the keys: a key expires only when the record it
  names has.
* *Retired ids.* A request id is not used again after its record has expired (24 h), and a record
  does not expire under a dispatch request with the same id that is still running (seconds).
  Without this, stale handlers and keys cannot be told from the new ride; it is listed as a hazard.
* *`settledLock`* replaces `lock` where a property needs it: handlers finish within the 10 s of the
  lock, so that a lock expires only when no handler relies on it.
* *The worker pool* is not submitted to once `Stop` has begun (the send would panic; the pool has no
  caller in the repository), `Stop` and `Shutdown` are called at most once, and its channels are
  buffered.

## 3. The runs

Bounds of the dispatch runs: two requests are enough for a double assignment, a duplicate id or a
takeover; the third handler of `location_race` is a dispatch between two location updates. One driver
makes every request compete for it; two drivers, in `no_leak`, exercise the candidate loop. That one
rider never has two drivers is proved for any number of drivers (section 4). One place makes
every driver a candidate and every arrival near; `recovery` has two, so that a driver can
be out of the search radius or too far from the pickup.
Drivers, riders, requests and handlers are interchangeable, so symmetry is used, except
for liveness and, in `reset`, for the riders, who are visited in order. Deadlock is checked in
all of them.

Bounds of the others: two connections of one driver are the least that makes a replacement; one rider
connection subscribes. Buffers hold one message (two in `fanout`, so that order matters), so full ones
are common. Two updates per connection show an order and one more after an unsubscribe. In `conn_ends`
the peer of the replacing connection is `Quiet`: it stays and sends nothing, which leaves the hub's
side of it unchanged, and `ConnectionEnds` is about the others. The pool has two workers and five jobs
for channels of one place: one more than they hold together, so that a batch waits for its own results,
and a plain caller that does not read its results can fill the results channel and block a worker. Two
keys, two callers and one retry give the limiter every order of a lost attempt, its repetition and
another call; the amounts are zero, one, the largest exact number and one that is rounded. Three pages
allow an empty page, a repeated key and a last page. These systems stop (a connection that has ended, a
pool that is shut down, a scan that is done), so deadlock is not checked, except in `budget`.

| Run | Instance | Shows |
|---|---|---|
| `faults_one_driver` | 1 driver, 2 riders, 2 requests, 2 handlers; every fault but the lease's | `TypeOK`, `RidesExclusive`, `ImplementsRideLifecycle` |
| `no_leak` | 2 drivers, 2 riders, 2 handlers; statuses expire | `BusyAccounted`, `ClaimExclusive` |
| `reset` | 1 driver, 2 demo riders, 2 sessions; records, locks, leases expire | `RidesOwned`, `IInv`, `AvailableMeansFree`, `ResetFreesRider` |
| `recovery` | 1 driver, 2 handlers, 2 places; statuses and settled locks expire, clients overwrite statuses; fairness | `DriverBecomesBusy`, `ClaimsRespectRides` |
| `cancel` | 1 driver, 2 riders, 2 handlers; aborts, settled locks expire; fairness | `CancelSucceeds` |
| `location_race` | 1 driver, 3 handlers, no fault | violates `LocationUpdateSafe` |
| `fanout` | 1 driver and 1 rider connection, 2 updates, buffers of 2 | `ObservedAccepted`, `AtMostOneLate`, `InOrder` |
| `conn_ends` | 2 connections of a driver, 1 of a rider, buffers of 1; fairness | `TypeOK`, `RegistryExact`, `ConnectionEnds` |
| `process` | 1 driver and 1 rider connection, 1 request; only `main` is fair | `ProcessTypeOK`, `RedisClosedLast`, `SignalEnds` |
| `pool` | 2 workers, `SubmitAndWait` with 3 jobs and a plain caller with 2 that reads up to 3 results; fairness | `TypeOK`, `NoJobLost`, `StopGraceful`, `PoolEnds`, `CallReturns` |
| `budget` | 2 keys, 2 callers, 1 retry, amounts 0, 1, 4 and 5 with `Exact` = 4 | `TypeOK`, `BudgetConserved` |
| `scan` | 2 drivers, 3 pages | `TypeOK`, `ScanComplete` |

The limits of these results are part of them:

* `RidesExclusive`, `RidesOwned` and `ImplementsRideLifecycle` hold under *every* fault of the model.
  The lock is not what makes them true: the create script checks the rider's and the driver's key
  in the same atomic step that writes them.
* `ClaimExclusive` and `BusyAccounted` rest on locks that do not expire under a request and on calls
  that succeed. If a lock expires, `ReleaseDriver` gets `ErrLockNotHeld` from the next owner's lock
  and leaves the status busy until its 30 s are over. Two requests with one id are still excluded,
  because `SETNX` is not re-entrant.
* `ClaimExclusive` also needs that the lock of a ride does not lapse before the ride is cancelled. If it
  does, a duplicate of the ride's request can take the lock; the cancel script takes it for the ride's own
  (`lifecycle.go:131`) and deletes it, and a third request claims the driver beside the duplicate. TLC
  finds this with three handlers, dispatch, cancel and settled locks; `no_leak` has no settled locks.
  `ClaimsRespectRides` holds there all the same, and the theorem covers it.
* `ClaimsRespectRides` speaks of a request that still holds the lock. One that has lost it can set a
  driver busy that another request has just been given; its create is then refused. So `recovery` has
  settled locks.
* `AvailableMeansFree` is checked without location updates and client-set statuses, which break it
  (the finding below; `POST /driver/status` is unconditional), and without lost replies: a create
  that ran but reported an error is rolled back by `ReleaseDriver`, which marks the driver available
  while the ride exists. `DriverBecomesBusy` says how that heals. It does hold when a lock expires in
  the middle of a request, and during a reset.
* `CancelSucceeds` is for a rider who repeats the cancel, and for the finitely many requests of the
  instance. An endless stream of requests that each find the driver available for an instant could put
  the cancel off for ever.
* `RegistryExact` leaves one gap on purpose: between the stop of the hub and `closeAllClients` a
  connection may already have been told to close (`UnregisterStopped`) and still be in the map.
* `InOrder` is about the updates of one connection. Those of a replaced connection and of its
  replacement may be queued in another order than they were persisted in.
* `PoolEnds` has the exception the code has: `Stop` waits for ever when the results channel is full and
  nobody reads it. `CallReturns` has another: after `Shutdown`, `SubmitAndWait` may wait for ever.
* A reader of `Results` that takes more results than it submitted jobs (`Greedy`) leaves too few for
  others: a `SubmitAndWait` may then wait for ever, or be given a zero result by `Stop`. `CallReturns` and
  the last part of `StopGraceful` name this exception; the rest of `StopGraceful`, `NoJobLost` and
  `PoolEnds` hold with such readers. One result more than the batch (`MaxReads` = 3) is enough to meet it.
* Two concurrent calls of `SubmitAndWait` share one results channel, and each may return results of the
  other's jobs; nothing in the repository calls it, and the instance has one.
* `BudgetConserved` counts from the last `SET`, and a repeated `SET` makes a budget whole again. It is for
  budgets up to 2^53 and counts a cost as the Lua number it is rounded to: a cost of 2^53 + 1 is
  allowed on a budget of 2^53, and takes all of it. The instance has no budget near the largest amount:
  there a small cost is rounded away and can be granted for ever, so that the state space has no end;
  the theorems cover every amount.
* `ScanComplete` says nothing of repetitions: a key that `SCAN` returns twice is counted twice.
* `RedisClosedLast` does not say that clients are told. `Stop` only cancels a context, and `main` returns
  without waiting for `Run` or the `WritePump`s, so the process may end before any close message is sent.

### Finding

`UpdateDriverLocation` sets a driver available after a heartbeat that found no status key. The comment
at `src/internal/dispatch/dispatcher.go:317` says a fresh location "can safely bring an expired
driver back online". Run `location_race` shows: two updates of an offline driver both find no key; the
first brings the driver online, a request is assigned the driver, the second overwrites busy with
available. The next location update repairs it, and the driver's active key keeps other requests from
taking the driver; until then the driver is counted and offered as available, and an arrive is refused.

### Fairness

`FairSpec` assumes weak fairness of each started handler's next call (`Step(p, "reply")`): the Go
scheduler runs every goroutine and every call returns or times out. It assumes strong fairness of
each driver's location reports: a driver on a ride keeps sending its position. Weak fairness would
say the same of the code, where a report always finds a goroutine; here `Procs` bounds them and a
report can be crowded out for a while. No fairness is assumed of clients (cancel, arrive, dispatch)
or of expiry.

`CancelFairSpec` has, instead of the location reports, a rider that repeats the cancel: strong fairness
of `StartCancel`, for the same reason, and of `RunCancel`, since not every repetition is aborted. A lock
nobody claims any more expires (weak fairness): it was set with a TTL.

In `RealtimeHub` the hub's broadcast and every `ReaderStep` are weakly fair: a Redis call times out, and
the channel operations watch the hub's context. `CloseAllClients` and the end of `WritePump`
(`WriterDone` or `WriteError`) are weakly fair by themselves: they are cases of a `select` that stay
ready, and Go chooses at random among the ready cases. A write (`WriteMessage`) is not fair, so that a
peer may never read, and nothing is assumed of what peers send (`ReadStep`) or when they leave.
In `ServerProcess` only `main` is fair: no handler
need return, and the deadline of `Shutdown` counts as a step of `main`. In `WorkerPool` every worker,
caller, collector, and a `Stop` or `Shutdown` that has been called are weakly fair; nobody is obliged to
call anything.

## 4. The proofs

`DispatchProofs` proves, for all sets of drivers (finite), riders, requests, sessions and handlers,
all distances and radii, every choice of `Kinds` and every choice of `Faults`:

| Theorem | Statement |
|---|---|
| `InductiveInvariant` | `Spec => []IInv` |
| `TypeCorrect` | `Spec => []TypeOK` |
| `Ownership` | `Spec => []RidesOwned` |
| `NoDoubleAssignment` | `Spec => []RidesExclusive` |
| `Refinement` | `Spec => ImplementsRideLifecycle` |

They rest on the named assumptions of the modules (`None` is no id, distances are naturals, finitely
many drivers, demo riders are riders), which TLC evaluates in every run, and on the modelling
assumptions of section 2.

`RidesExclusive` is not inductive: that two rides share no driver says nothing of what the create
script will find under the driver's key. `IInv` adds

* `KeysOK`: a ride en route is named by both its keys; an arrived ride by both or by neither; and a
  key names an open ride of that very rider or driver, or an expired record. The last clause is the
  essential one. It makes "the key is absent" and "the rider's ride is not open" mean "no ride in
  progress", which is the guard of the abstract `Assign`;
* `HandlersOK`: what a handler remembers from an earlier call still holds as far as its next call
  relies on it. A reset about to clear a ride knows that it is no longer en route (no script leads
  back to it), and that rider and driver are the record's (only create writes them). Without it,
  `ClearResetScript` could delete the key of a live ride.

The argument has three layers: per script, it preserves the store's half of the invariant and moves
records only forward (`CreateOK`, ..., collected in `CallOK`); per handler, its step keeps
its memory valid (`DispatchStepOK`, `RideStepOK`, `ResetStepOK`), and no other handler's step can
invalidate it since records only move forward (`KeepsLocalOK`); then `NextOK`. The refinement
classifies every step by the script it runs (`NextCalls`) and maps each script to an abstract action
or a stutter (`CreateRefines`, `CancelRefines`, `ArriveRefines`, `ClearRefines`, `ExpiryRefines`).

`HubProofs` proves, for all sets of drivers, riders and connections, every assignment of connections
to ids, and all buffer sizes:

| Theorem | Statement | The strengthening, and why it is needed |
|---|---|---|
| `HubTypeCorrect` | `Spec => []TypeOK` | none |
| `RegistryCorrect` | `Spec => []RegistryExact` | `RegistryInv`: a connection is in the map only under its own id (`OwnId`), and one that has not met the hub is neither registered nor closed (`Unmet`); otherwise a registration could make a closed connection the current one |
| `OnlyAcceptedObserved` | `Spec => []ObservedAccepted` | `AcceptedInv`: an update that waits for room in the queue has been accepted, and the hub sends only during a broadcast |
| `OneLateAtMost` | `Spec => []AtMostOneLate` | `LateInv`: nothing is late for a rider that is subscribed, nor for the one whose message is about to be queued |
| `UpdatesInOrder` | `Spec => InOrder` | `OrderInv`: from the peer back to the reader the updates of a connection get newer: what the peer has seen, its send buffer, the message of the broadcast, the queue, the update being published; and each buffer is sorted by itself |

`ClaimProofs` proves what the lock and the status are for. These properties do not hold under every
fault (section 3), so each theorem but the last has a hypothesis on `Kinds` and `Faults`, defined beside
it, and holds for all sets of drivers, riders, requests and handlers:

| Theorem | Statement | Hypothesis |
|---|---|---|
| `FreeDriversOnly` | `Spec => []AvailableMeansFree` | `StatusesKept`: no location updates and client-set statuses, no `lost` and `retry`. Everything else is allowed: locks that expire under a request, errors and aborts at any call, demo resets, expiring records |
| `LockExcludes` | `Spec => []ClaimExclusive` | `LocksHold`: no demo reset, no `retry`, no `lock` (the lock outlives its request); where rides are cancelled, no `lost` and no `settledLock` |
| `RidesRespected` | `Spec => ClaimsRespectRides` | `OwnersHold`: as `LocksHold`, but `settledLock` is allowed with cancels |
| `NoClaimLeaks` | `Spec => []BusyAccounted` | `ClaimsSettle`: `LocksHold`, only statuses, leases and settled locks expire, calls succeed; no client-set statuses, and no requests without a rider, which end with a busy driver and no assignment |
| `ResetFrees` | `Spec => ResetFreesRider` | none |

The instances of the runs satisfy the hypotheses (`reset`, `no_leak`, `recovery`, `no_leak`), so the
theorems say of every size what those runs show of one. The invariants, all on top of `IInv`:

* `KindsInv`: a handler is only in the code of requests that clients make. It turns a hypothesis on
  `Kinds` into one on the handlers.
* `FreeInv`, for `AvailableMeansFree`: at most one request at a time has set a driver busy and not
  settled it, the driver has no ride meanwhile, and an available driver has neither such a request nor a
  ride. The lock does not occur in it. What keeps the requests apart is the script of `SetBusy`, which
  succeeds for one of them; that is why the theorem survives locks that expire.
* `LockInv`, for `ClaimExclusive`: the lock bears the id of the one request that claims the driver, and
  where rides are cancelled it goes from the claim to the ride: a ride en route holds the lock and the
  driver has no claim. Without the second half the cancel of a ride could delete the lock of a duplicate
  of its request, since the token is the same.
* `OwnerInv`, for `ClaimsRespectRides`: a driver about to be set busy has no ride key. Only a claim can
  create a ride, and by `LockInv` there is no second one.
* `OvertakenInv`, for the same property where `LockInv` fails (settled locks and cancels): a claim whose
  request has no assignment yet holds the lock and shares its id with no other claim (`FreshAt`); and if
  a ride did get ahead of a claim that has passed the owner check, the lock is the ride's, and no claim
  under way bears its id (`OwnedAt`). Then the overtaken request does not hold the lock, and its create
  will be refused.
* `AccountedInv`, for `BusyAccounted`: the property itself, with the driver's key in place of the ride. It
  is inductive only together with `LockInv`, by which `ReleaseDriver` always finds its own lock.

Every step is first classified by where it leads a handler (`Moves`, `ClaimEdges`: there is no way to a
claim but `TryLock`, and none to a busy driver but `SetBusy`) and by what its script does to rides
(`RidingCreate`, `RidingCancel`, `RidingArrive`, `RidingEnds`); per invariant a short list of kinds of step
(`FreeSteps`, `LockSteps`, `OvertakenQuiet`, `AccountKeeps`) then covers them all.

The other components:

| Theorem | Statement | The strengthening, and why it is needed |
|---|---|---|
| `LimiterTypeCorrect`, `BudgetIsConserved` | `Spec => []TypeOK`, `Spec => []BudgetConserved` | `ConservedInv`: what is left of an exact budget is at most the budget, so exact again, and the script's arithmetic is that of the integers; for any keys, callers, retries, amounts and any rounding above `Exact` |
| `ProcessRunsHub` | `ProcessSpec => Spec` | none: every step of the process is a step of the hub or leaves it alone, so that the theorems of `HubProofs` hold in the process |
| `ProcessTypeCorrect`, `ProcessRegistry` | `ProcessSpec => []ProcessTypeOK`, `ProcessSpec => []RegistryExact` | from `ProcessRunsHub` |
| `RedisIsClosedLast` | `ProcessSpec => []RedisClosedLast` | `Drain`: how far `main` has got tells what is still open; no request is left once `Shutdown` has returned, and none is accepted after that |
| `PoolTypeCorrect` | `Spec => []TypeOK` | `Progress`: how far a caller is in its batch, and that a worker has a job exactly while it delivers one |
| `PoolLosesNoJob` | `Spec => []NoJobLost` | `PlaceInv`: the two channels, the workers and what callers have received share no job and hold nothing twice; together they hold what was submitted until `Shutdown` |
| `StopIsGraceful` | `Spec => []StopGraceful` | `StopInv`: without `Shutdown` a worker ends only when the closed channel is empty. That no caller gets a zero result unless one is `Greedy` needs a count: if every job has been received and nobody has more results than jobs, every place for a result is taken (`EveryPlaceTaken`, by the pigeonhole principle) |
| `ScanTypeCorrect` | `Spec => []TypeOK` | `CountsInv`: a page counts a driver at most once |
| `ScanIsComplete` | `Spec => []ScanComplete` | `ScanInv`: a driver that stayed online and was returned has been counted or is on the page about to be read, and the last page leaves out none |

The assumptions are `HubAssumption` and `LimiterAssumption` (the constants have their types, buffers have
at least one place, drivers and riders are different clients), `ScanAssumption` (finitely many drivers),
`PoolAssumption` (finitely many workers and at least one, channels of at least one place, `MaxReads` a number) and
`BatchAssumption` (the batches of the callers are finite sequences of jobs in which no job occurs twice; jobs are told apart by where they
were submitted, so this is how the model names them and not a demand on callers). TLC evaluates all
of them in the runs.

Only model-checked: liveness, which is out of the prover's reach (`DriverBecomesBusy`, `CancelSucceeds`,
`ConnectionEnds`, `SignalEnds`, `PoolEnds`, `CallReturns`), and the counterexample of `location_race`.

## 5. Not modelled, and the plan

What could be added to the proofs: that the repair actions behind `DriverBecomesBusy` and `CancelSucceeds`
make progress (the safety half of those liveness properties). The safety properties and action properties that the passing runs check
are all stated by a theorem.

Left out:

* JSON decoding and encoding, status codes, logging, health checks, environment variables and the demo
  page: they have no shared state of their own.
* `ValidateCoordinates`, `ValidateRadius` and the origin check of the upgrade: guards on a request with
  no state, which a model could only repeat. Latitudes beyond what Redis takes are listed as a hazard.
* `GetAssignment`, `GetBudget`, the geo queries over HTTP and the hub's statistics: they only read, or
  are derived from the maps that are modelled.
* `ExtendLock`, `IsLocked`, `RemoveLocation`, `Distance`, `SendToDriver`, `SendToRider`: no caller.
* How Redis prints numbers of 18 digits and more in a `SET` from Lua: it depends on the Redis version.
* Worker pools with unbuffered channels or used after `Stop`.
