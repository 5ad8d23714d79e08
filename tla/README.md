# A TLA+ model of pit-go

pit-go is the Go binding of a pre-trade risk engine. The engine itself is a
native library; what this repository adds of its own is of two kinds.
`asyncengine` routes every operation by account (or account group) to a *lane*,
runs the operations of one lane one after the other, and owns the native handles
(requests, reservations, drop-copy operations) that operations leave behind: that
is where goroutines, channels, contexts, stops and failures meet. Around it, the
binding owns native memory from Go: objects that each path must destroy once,
callbacks that must find their Go side alive, values whose pointers the garbage
collector does not see, a shared library that several processes extract. This
project models both.

## 1. The system

| Component | State | Operations | Interacts with |
|---|---|---|---|
| lanes, shared base (`asyncengine/strategy.go`) | per lane: channel, mandatory backlog, admission counters, closed/retired; per strategy: stop signals, in-flight submits, the submit fence, counted off-lane releases | submit, admit, send, abandon, queue a release, worker loop, stop | called by both strategies and by every typed operation |
| Sharded (`sharded.go`) | a fixed array of lanes | submit, handoff of a release, stop | base |
| Dynamic (`dynamic.go`) | map key → lane, cleanup barriers per key, idle scan goroutine | get or create a lane, retire, handoff, stop | base |
| Exclusive (`exclusive.go`) | the turn, the active section with its expected and parked lanes, postponed releases | Exclusive | puts a barrier on every lane; stop waits for it |
| engine facade (`asyncengine/engine.go`) | strategy, driver, the caller's futures | typed operations, AsyncAccounts, StopGraceful, StopHard | submits tasks, releases the native engine after a clean stop |
| asynchronous handles (`reservation.go`, `drop_copy_operation.go`, `request.go`) | lifecycle state, readers, the inner handle | commit, rollback, close, execute, reads | lifecycle calls are submitted to the handle's lane; reads run on the caller |
| chains (`scenario.go`, `scenario_admin.go`) | a plan; per run the pending operation, status, error, retry mark | Run, steps, Finally | one task on a lane; caller hooks run inside it |
| future (`pkg/future`) | resolved or not | Resolve, Await | every operation |
| pre-trade handles (`pretrade/`) | native handle, resolved | execute, commit, rollback, close, reads | wrapped by the asynchronous handles |
| engine, accounts (`engine.go`, `accounts/`) | the native handle | one native call each, whose outcome is converted and destroyed | native library |
| builders (`engine_builder.go`, `client_engine_builder.go`) | native builder, first error, policies not yet handed on | PreTrade, Builtin, Build, BuildAsync, Close | own the policies until the engine does |
| client engine (`client_engine.go`) | a cgo.Handle per payload | the engine's operations with a payload | policies read it through their adapters |
| policy callbacks, mutations (`tx`, `internal/mutation`, `internal/custompolicy`, `pretrade/policy*.go`) | cgo.Handles of policies and of mutations | hooks, commit and rollback of a mutation | called back by the native library |
| loader (`internal/loader`, `internal/runtime`) | files of the cache directory | extract, verify, load | other processes |
| market data (`marketdata/`), reference book | a native handle behind a read-write mutex | register, push, read, clone, close | policy builders; a resolver callback of the caller |
| orders, reports, adjustments (`model/`) | a native struct, the owners of its pointers | set, unset, read, views, copies | garbage collector |
| numbers and small values (`param`, `reject`, …), runtime configuration (`configure`) | none | conversions, one C call each | native library |

What is hard here:

* *Producers against stop.* A submit registers, looks up a lane, waits for
  releases of its key, is admitted, sends or gives up; a stop may be signalled
  between any two of these. A channel may be closed only when nobody sends.
* *Releases against tasks.* A call that owns a handle and could not be
  submitted hands a release to its lane. The release has no place in the
  channel; it is ordered by counters, which abandoned sends disturb.
* *Who runs a release*: the lane's worker, the caller (its lane is gone), the
  caller behind a key barrier (no lane may be created), an Exclusive section
  (postponed to its end). One of them must, and only one.
* *Retirement.* The idle scan takes away a lane a producer is about to use.
* *Exclusive* must see every lane parked while lanes are created, stopped and
  handed releases.
* *Reads against finalization* of one native handle, and *hooks that keep their
  result* while the chain settles it.
* *Partial failure of a chain*: any hook may fail or panic, any engine call may
  return any combination of handle, rejects and error.

* *Ownership across the language border*: a status that was not expected, a list
  that cannot be converted, a policy whose registration fails half way, a driver
  that returns a handle with an error.
* *Callbacks* that panic, that arrive after what they need was released, or that
  run while another goroutine closes it.
* *Pointers the collector does not see*: a string freed while a copied struct
  still points at it; a view that outlives its group.
* *Extraction* of the library by processes that race, die or fill the disk.

`PROJECT.json` lists these as hazards at the lines where they bite, with the
properties that would catch them.

## 2. Modules

```
KeyQueue ── Lifecycle ──┬── Sharded ── MCSharded
                        └── Dynamic ── MCDynamic
Settlement (abstract) ─·─ Reservation ── DropCopy ──┬── MCHandles
                                     Chain ─────────┘
SyncEngine ── Pipeline ────────┐
EngineBuilder ── PolicyCalls ──┤
Loader ────────────────────────┼── MCLibrary
Values ────────────────────────┤
MarketData ────────────────────┘
LifecycleProofs ──┬── FenceProofs ──┬── ShardedProofs
                  │                 └── DynamicDrainProofs
                  └── DynamicProofs ────┘
HandleProofs   (DropCopy, Chain)
PipelineProofs (Pipeline)
LibraryProofs  (MarketData, PolicyCalls, Loader, Values)
```

**KeyQueue** is the lane of `strategy.go`. An element of `Ops` is one call of a
public method that submits one task; `pc[o]` is where it is in its submit.
Calls in `Closing` own a handle (`submitWithFailureHandoff`); those in
`Cancellable` have a ctx that may fire, which is a choice made where the code
looks at it. A lane has the channel `ch`, the backlog `q.mandatory`, the
counters `admitted` and `settled`, and a worker (`wpc`, `cur`). The two halves
of `endSubmit`, its decrement and its test of the stop signal, are two steps,
as nothing in the code makes them one. Critical sections of a mutex that
contain no wait are one step. `crashed` records that a send met a closed
channel: the process is gone.

**Lifecycle** adds what both strategies share: the handoff of a release,
releases on the caller's goroutine (`runLifecycleCleanup`), Exclusive sections
with their barriers, and the stages of a stop that may time out and be called
again. It also holds the properties common to both strategies. A panic in a
section's callback or in a release is recovered by the code and takes the same
steps, so it is not a separate action.

**Sharded** and **Dynamic** route calls to lanes and supply `Init`, `Next` and
the fairness. In Sharded the hash is the constant `ShardOf`. In Dynamic each
element of `Lanes` is used for one `keyQueue` value only, and a clock is left
out: a lane that is idle may have been idle long enough.

**Reservation** is `AsyncReservation` around `Reservation` around the native
handle. A lifecycle call is run by whoever the strategies chose, so two of one
handle may meet; reads come from any goroutine. `AsyncDropCopyOperation` has the
same finalizer with two more reads, so nothing is stated about it separately.
**Settlement** is the abstract promise: settled once, freed once, a handle freed
unresolved is rolled back. `SettlesOnce` says Reservation implements it, with
`freed` mapped to `~handle`.

**Chain** is one run of a plan of steps: validation, submit or abort, every step
with its hooks, the deferred end of `execute`, Finally and the future. An error
and a panic end a step alike. A goroutine that kept a hook's result reads it
whenever it likes.

**DropCopy** is `AsyncDropCopyOperation`, whose functions take the steps of
Reservation on the same state; it has two more snapshots to read.

**SyncEngine** has no state: it says what each method of `engine.go`,
`accounts/` and `pretrade.Request` makes of each outcome of its native call, and
which native objects are left when it returns. An outcome is a status and the
set of out-parameters that were filled; a status that `openpit.h` does not define
may come with any of them.

**Pipeline** is the facade: every typed operation and every method of
AsyncAccounts is submitted under its routing key or refused, its task is run or
aborted on a lane, and its future resolved; the follow-ups of a request are
submitted to the request's lane and serialised by its mutex. The engine behind
it answers through SyncEngine, a custom driver in any shape its interface
allows. The lane itself is reduced to what the lane modules show of it.

**EngineBuilder** follows each policy from the caller's hands through the
builder's list, the native builder and the engine to its Close. **PolicyCalls**
goes on with the engine that was built: hooks, adapters, client payloads,
mutations and their finalizers, and the handles that settle them. An order of an
`Engine` has no payload, one of a `ClientEngine` has. A hook may panic with a
value or with nil. Under `GODEBUG=panicnil=1` `recover()` does not show the
second (`panicNil`), and the callback returns the zero value of its result.
`ZeroValue` says what the library makes of it:

* For the checks and their dry runs the zero value is a nil list, and that is no
  acceptance. `internal/convert/reject.go:28` says "A nil list is reserved for
  callback failure at the C boundary", and `NewNativeRejectList` accepts with a
  shared empty list, never with nil. `internal/native/openpit.h:2981`, `:3026`
  and `:3125` say the same of the start, the main and the adjustment callback:
  "Return a non-null empty list to accept" and "Return null only when the
  callback could not evaluate the order" (or the adjustment), which the engine
  turns into a SystemUnavailable reject.
* For an execution report nil means no block, and the zero decision on a
  retirement means Accept: these two ask whether they completed
  (`pre_trade.go:203`) and preset EvaluationFailed (`pre_trade.go:279`).
* The named result of a commit or rollback callback is false until it is over.

The kill switch (`killed`) is raised by a finalizer that failed, and by a blocked
report whose account cannot be read (`accounts/accounts.go:247`); `broken`
remembers what raised it, until UnblockAll. The library rejects a pre-trade call
meanwhile (`BlockedCall`, `late`). A drop copy goes on (`engine.go:148`: it
ignores blocks), and of a request that was opened before the failure
`openpit.h` does not say whether its Execute looks again, so the model lets it
do either.

**Loader** has processes with different embedded builds, an override or none, and
one cache directory. A write may end early, a rename may fail, a process may die
anywhere and start again, perhaps as another version.

**Values** is one optional group of an Order, ExecutionReport or
AccountAdjustment (the three operations of an adjustment together, because they
exclude each other) in two variables and a loose value, with the native blocks
their pointers refer to and the Go owners that keep these alive. Every setter of
a field without a pointer is one Boolean; the setters of strings and locks are
kept apart.

**MarketData** is the service, its clones and the reference book: the mutex, the
native handle, and what each method makes of the native status.

## 3. Runs

| Run | Instance | Properties |
|---|---|---|
| `sharded_submit` | three calls, two keys, one shard of capacity 1, graceful stop, cancellation | `TypeOK`; `BacklogOrder`: a release or barrier never overtakes a task accepted before it; `NoOvertake`: a task submitted after a release of its key was queued does not start before it; `LateReleaseLast`: a release queued after stop runs when nothing can follow |
| `sharded_stop` | two closing calls of one key, graceful and hard stop, timeouts, retries | `ResolvedOnce`, `StopQuiescent`: after a clean stop nothing runs and every returned call is resolved |
| `sharded_live` | two closing calls, graceful stop, fairness | `OpsResolve`, `StopReturns` |
| `sharded_exclusive` | a section over two shards, a closing call, hard stop with timeouts, fairness | `ExclusiveAlone`: fn runs alone; `SectionsEnd` |
| `sharded_fence` | two plain calls, one shard, graceful stop | `NoSendOnClosed`, violated (section 4) |
| `dynamic_retire` | two closing calls of one key, idle scan, graceful stop | `RetiredIsEmpty`, `NoSendOnClosed` |
| `dynamic_limit` | three calls of two keys, one lane allowed, idle scan | `LanesAndBarriersAlone` |
| `dynamic_exclusive` | a section, two closing calls, one lane allowed, graceful stop | `ExclusiveAlone`, `StopQuiescent` |
| `dynamic_live` | two calls of two keys, one lane allowed, idle scan, graceful stop, fairness | `AbortsOnlyOnHardStop`: neither retirement nor a graceful stop aborts an accepted task; `OpsResolve`, `StopReturns` |
| `dynamic_overlap` | two closing calls of one key, graceful stop | `LaneAlone`, violated (section 4) |
| `handles` | one behaviour is of a reservation, a drop-copy operation (two calls of any method, two readers that never tire) or a chain (every plan of up to two steps, of every kind and source); fairness | `InnerSerialized`, `NoLeak`, `SettlesOnce` (refinement), `ClosedForGood`, `CallsEnd`; `CleanBeforeFinally`, `NoStaleRead`, `OutcomeTrue`, `RetryUnsafeTrue`, `CommittedByDecision`, `ChainResolves` |
| `library` | one behaviour is of one part: three calls of traders, or one and an administrator's; two policies and one order, or one policy and two orders; two processes and two builds; two variables of an aggregate and three blocks; two goroutines, a service and its clone, or a book | see below |

The properties of `library`, which share no state and so are checked together:

* `NoOrphan` (Pipeline): every native object that exists is in somebody's hands.
* `RefusedIsUnapplied` (Pipeline): a future that says "refused" is right, so that
  a retry applies nothing twice.
* `RequestDestroyedOnce` (Pipeline): however Execute, Close, refusals and stops of
  one request meet.
* `PolicyOwnedOnce` (EngineBuilder): a policy handed over is in one place, and
  closed once, whichever step failed.
* `CallbacksLive`, `FailuresBlock` (PolicyCalls): a callback finds its policy and
  its payload alive, and nothing outlives its handle; a call in which a hook
  panicked, with a value or with nil, ends in no acceptance and keeps nothing of
  what the other policies applied for it.
* `KillSwitchHolds` (PolicyCalls): an order that asks for pre-trade, or for a dry
  run, after a finalizer failed and before UnblockAll is rejected and leaves no
  request, whatever else was settled in between. Drop copies, and requests opened
  before the failure, are outside this promise (section 2).
* `LoadedWhole` (Loader): a process runs the whole library of its own version.
* `MemoryLive`, `NothingResurfaces` (Values): no pointer to freed memory; what a
  stale view wrote never appears.
* `ServiceLive` (MarketData): no call on a destroyed handle, none destroyed twice.

**Bounds.** `Capacity` is 1, so that a second producer blocks in its send, the
state in which it may give up, be cancelled or meet a stop. Two calls of one key
are what a race between two routes to one handle's lane needs; the third call of
`sharded_submit` and `dynamic_limit` is a key beside it, on the same shard or
competing for the same lane. Two shards make a section wait for one lane while
the other is parked. `Lanes` of Dynamic bounds how often a lane is retired and
made again: `SpareLane` keeps the scan from retiring the last lane a key could
still need, so no behaviour is cut off in the middle. `MaxSteps = 2` lets a step
fail after an earlier one was committed, which is all a chain's later steps can
see of its earlier ones. Two readers make the count in `readers` matter.

In `library` three calls are a start of pre-trade and two follow-ups of its
request, which is what Execute against Close needs, with a stop beside them; an
administrator's call shares no handle with anybody, so one is enough. Two
policies let one be settled before the other fails; two orders let one be
refused for what the other did. Two processes race for one path, and with two
builds the path of another version is there as well. Three blocks are the most
that can be in use at once before a fourth would only repeat them: one per
variable and one in the loose value; a step that needs a block when none is free
is not taken. Two goroutines suffice for one in a method and one in Close; the
second service is the clone. The sizes of the parts, in distinct states:
traders 67,719, administrators 5,508, policies 8,233, orders 213,845, loader
6,042, values 173,897, market data 47,422. Symmetry is used for the blocks,
which only their identity tells apart; elsewhere the elements differ in kind or
there are too few to gain. `CHECK_DEADLOCK FALSE` where it is said: a program may
have made all its calls.

**Fairness.** Every goroutine that can run is run (weak fairness of each call,
worker, section and stop), and callbacks and native calls return. Nobody is
made to call, to cancel or to time out. Strong fairness is assumed in two
places: for taking a mutex (`LockLifecycle`, `LockMethod`, and `Invalidate` of
a chain), because a Go mutex hands itself to a waiter that starves; and for the
exit of Dynamic's scan goroutine, because a `select` picks at random among its
ready cases. Liveness of the lanes excuses a run that crashed. The parts of
`library` are checked for safety only: what would have to happen eventually in
them happens on a lane, whose liveness the lane runs check, or within one call.

## 4. What disagrees with the comments

* `sharded_fence`: `endSubmit` decrements `inFlightSubmits` and then tests the
  stop signal, without `submitMu`. Producer A decrements to zero; producer B
  registers; stop is signalled; A now sees it and closes the submit fence though
  B is in flight; stop closes the shard's channel and B's send panics. The
  comment at `strategy.go:371` says this cannot happen. Dynamic is not exposed to it, since its producers hold
  the lane's gate (`NoSendOnClosed` passes in `dynamic_retire`).
* `dynamic_overlap`: after stop is signalled, `cleanupAfterStoppedLane` finds no
  lane for the key and runs the release on its caller, while a producer
  registered before the stop creates the key's lane, whose worker runs a task of
  the same key at the same time. `doc.go:30` says operations of one key never
  overlap. The handle's own lifecycle lock still keeps two *lifecycle calls* of
  one handle apart (`InnerSerialized`), so what overlaps is a release with
  another operation of the account.

In the same way two releases of one key that both find their Sharded worker gone
run on their callers' goroutines, kept apart by the handle's lifecycle lock
alone; `LaneAlone` therefore speaks of a lane against everybody else, not of two
such callers.

Observed while modelling, and kept in the models, but not at odds with anything
the repository says:

* `native.PretradePreTradeRequestExecute` destroys the request it was called on
  when the status is one the header does not define, and the wrapper's Close
  destroys it again. `RequestDestroyedOnce` names this exception (`odd`).
* A policy whose Close panics ends the loop over the builder's unfinished
  policies; the panic is the caller's, and PolicyOwnedOnce assumes Close returns.
* When building the asynchronous engine fails after BuildAsync, the engine inside
  is stopped only by a later attempt that succeeds and is stopped.

## 5. Proofs

`ShardedProofs` proves for every number of calls, keys, shards, sections and
stop calls, every routing and every capacity, under the named assumptions
`ConstantsAssumption`, `StoppersAssumption` and `ShardAssumption`:

* `TypeCorrect == Spec => []TypeOK`. The hard conjunct is that
  `inFlightSubmits` never goes below zero, although its increments and
  decrements are scattered over submits and handoffs, some of which a stop cuts
  short.
* `OrderCorrect == Spec => []BacklogOrder`. A queued release or barrier is taken
  when the lane's settled count reaches its target; the theorem says that by
  then every task accepted before it has been handled.

Both follow from `Invariance == Spec => []ShardedInv`. The inductive invariant
is the conjunction of

* `BaseType`, the types without the counter;
* `AtShard`, a call works on its key's shard;
* `Registrations`: `inFlight` is the number of calls that owe an `endSubmit` plus
  the number of handoffs in progress, and where a call is says whether it is one
  of them. `inFlight >= 0` alone is not inductive: a decrement needs to know
  that its own registration is counted;
* `Turn`: one section at a time, needed for the postponed releases;
* `OrderInv == Admissions /\ Targets /\ BacklogOrder`. `BacklogOrder` speaks of
  the entry in the worker's hands and says nothing of how it got there.
  `Admissions` accounts for every ticket: admitted equals accepted plus given up
  plus on the way. `Targets` says of every queued entry that, whatever the
  producers still on their way do, its target cannot be reached before the tasks
  it waits for are handled: the tickets up to its cutoff that are given up raise
  the settled count, and the target with it.

`LifecycleProofs` holds the types of each action of KeyQueue and Lifecycle, the
effect of each on where a call's work is, on `OrderInv`, on the turn and on the
barriers of a section. All is stated on the shared actions, and both strategies
use it: where a strategy decides, the lemma says what it may decide (`PlaceRelease`
for a release that becomes an entry or a cleanup, `OrderQueued` for an entry that
is queued by whoever routes it).

Under the same assumptions, from `DrainInvariance == Spec => []DrainInv`:

* `AlwaysResolvedOnce == Spec => []ResolvedOnce`
* `AlwaysExclusiveAlone == Spec => []ExclusiveAlone`
* `AlwaysStopQuiescent == Spec => []StopQuiescent`

None of the three is inductive. `DrainInv` adds to `ShardedInv`

* `ControlInv`: what a worker has in hand at each of its steps, that its channel
  is closed only behind the submit fence and that it exits with nothing queued;
  that what is on a lane belongs to its keys; in which order a stop closes the
  fence, waits for workers, sections and counted releases, and seals;
* `OnePlace`: the task or release of a call is at exactly one place: with its
  caller, at one index of one channel or backlog, in one worker's hands, at one
  index of the postponed releases, or resolved. `ResolvedOnce` is its last case;
  the others say why nothing can resolve the call again, and `StopQuiescent`
  follows because a finished stop has emptied each of them;
* `SectionHold`: while a section is installed releases are postponed and none
  runs off the lanes (`Postponing`); the section counts its barriers and the
  lanes that reported, and the lanes it holds are at least as many as reported
  (`Barriers`). So when as many reported as were given a barrier all are held, a
  cardinality argument no finite number of shards makes.

### The two fences (`FenceProofs`)

`FenceProofs` says of each action of KeyQueue and Lifecycle what it does to the
submit fence and to the fence of queued releases, for any strategy; a strategy adds
where its calls are. From `FenceInvariance == Spec => []QueueInv` (Sharded) and
`FencesInOrder == Spec => []FencesInv` (Dynamic, with the assumptions below):

* `NeverOvertakes`, `DynamicNoOvertake` (`Spec => []NoOvertake`)
* `AlwaysLateReleaseLast`, `DynamicLateReleaseLast` (`Spec => []LateReleaseLast`)
* `CrashNeedsEarlyFence == Spec => [](crashed => early)` (Sharded): the
  interleaving of section 4 is the *only* way to the panic of a send on a closed
  channel, so a repair of `endSubmit` removes it. Dynamic never crashes.
* `DynamicTypes == Spec => []TypeOK`: `Registrations` of Sharded, with the handoffs
  that go to a caller behind a key's barrier.

Both invariants hold, beside `DrainInv` (of the strategy),

* `FenceInv`: unless it was closed early, the fence is closed with no producer in
  flight. With `Registrations` nobody is then on the way to a lane;
* `LateInv`: a release queued after the stop signal keeps `waitSubmitFence` until
  the fence, its target then covers all its lane admitted, and the tasks accepted
  and not handled are the channel and the hand (`Counted`), so that a target that
  is reached means an empty channel;
* `OwesInv`: a release that was queued for a key when a call began is on the lane
  or has run, is not behind a late one (so the call, which may stop waiting once
  it meets a late one, waits for it), is off the backlog when the call passes
  `waitForMandatoryCleanup`, and has run when the call's task starts.

What a strategy has to show is that the releases a call waits for can be nowhere but
on the lane where it waits, and that nobody else works for the key when a lane takes
the call's task (`QueuedOn`, `InHandOn`). For Sharded that is the fixed shard of the
key. For Dynamic the lane of a key changes; but a call that waits holds the gate, so
its lane is the one the key is mapped to (`Arrivals`), what is queued or in hand for a
key is on the lane it is mapped to (`Home`, `Hands`), and a lane is retired only when
it has nothing. A call that finds its lane retired has not looked for releases yet and
goes back to the map.

### Lanes that come and go (`DynamicProofs`)

For every number of calls, keys, lanes, sections and stop calls, every limit and
capacity, with or without the idle scan, under `ConstantsAssumption`,
`StoppersAssumption` and `DynamicAssumption`. The last says that keys and lanes
are finitely many and that there are at least as many lanes as keys. That is no
restriction of the code, where a lane is made whenever one is wanted: an element
of `Lanes` stands for one `keyQueue` value, a behaviour up to any moment has made
finitely many, and `SpareLane` stops only retirements.

From `LanesInOrder == Spec => []LaneOrder`:

* `RetiredStaysEmpty == Spec => []RetiredIsEmpty`
* `NeverSendsOnClosed == Spec => []NoSendOnClosed`, which Sharded violates
  (section 4)
* `LimitKept == Spec => []QueueLimit`, a conjunct of the invariant that no run
  states apart, since one test under the lock makes it true

`LaneOrder` is `LaneInv`, the turn and the absence of a crash. What makes it
inductive: `Mapping` (a lane is mapped to one key, is not retired, and is closed
only once the map is `stopping`), `Untouched` (nobody is at a lane not yet made),
`Supply` (a key without a lane finds a fresh one, so that `getOrCreate` never
chooses from nothing), `Arrivals` (who holds the gate is at the open lane of its
key; who is still on its way to it may find it retired), `Home` and `Hands` (what
is on a lane, or in its worker's hands, is for the key the lane is mapped to), and
`Load`: `q.pending` is the number of sends on their way, tasks, queued entries and
the work in hand. `retireIfIdle` looks only at the counter, the channel, the gate
and the backlog; with `Load` a zero means that the worker has nothing in hand
either. A retired lane has nothing and its gate is shut (`Retirement`), so no
`<-quit` case can be met with work on the lane.

* `AbortsNeedHardStop == Spec => []AbortsOnlyOnHardStop`, from `LaneOrder` and
  `AbortInv`; the `drainAndAbort` of a retired lane would violate it if it ever
  found a task.
* `OneWorkerPerKey == Spec => []LanesAndBarriersAlone`, from
  `KeysInOrder == Spec => []KeyOrder`. `KeyOrder` adds `KeyBarriers` (a key with a
  barrier has no lane, and the barrier is the call that runs behind it),
  `ActiveSection`, and `PostponedAlone`: before a stop a key with a postponed
  release has no barrier, and its lane, if it has one, is `Fenced`, that is, it
  waits for the active section or is about to before it does anything else. Such a
  lane was made during the section, with the section's barrier as its first entry;
  `Fenced` holds through admissions, sends and given-up sends because the
  barrier's cutoff is zero and the first ticket is one (`Tickets`).

* `BacklogsInOrder == Spec => []BacklogOrder`, from the `OrderInv` of Sharded. A
  call that `getOrCreate` moves to a lane has no ticket out (`UnsentAway`), so the
  accounts of the lane it leaves do not change; a new lane opens its account with
  the section's barrier queued for nobody; and the drain of a retired lane settles
  nothing, because it finds nothing.

`LanesAndBarriersAlone` was first stated without its second exception. The proof
attempt showed why it is needed, and TLC agrees: a release that meets the stop
signal goes through `runLifecycleCleanup`, is postponed if a section is active,
and the section may run it while the lane of the key is still draining.

### What Dynamic leaves behind (`DynamicDrainProofs`)

From `DrainInOrder == Spec => []DrainInv`, under the assumptions of the last
section:

* `DynamicResolvedOnce == Spec => []ResolvedOnce`
* `DynamicExclusiveAlone == Spec => []ExclusiveAlone`
* `DynamicStopQuiescent == Spec => []StopQuiescent`

`DrainInv` adds to `KeyOrder`

* `Ends` and `StopOrder`: a worker exits with nothing queued, and a stop does one
  stage after the other. The channels that a stop waits for are those of the lanes
  in the map; the workers of retired lanes have left theirs empty;
* `OnePlace`, as for Sharded: a call that waits for a lane, runs its release behind
  its key's barrier or on its own goroutine is at the place "call";
* `SectionHold`. For Sharded the lanes are fixed, and a section that collected holds
  all of them. Here lanes come while the barriers are collected: one that is made
  after the last barrier was counted is not waited for at all, so not every lane
  with a barrier has reported when the callback starts. `Barriers` says that the
  section counts the lanes that have its barrier and that no more reported than are
  held; hence when it has collected, the lanes that had one before are held, and a
  lane that came later has it as its first entry: each is `Fenced`. `Surrounded` says
  that every lane in the map has the section's barrier, or will be given it before
  the section collects. A lane that executes is in the map and not `Fenced`, which is
  the contradiction `ExclusiveAlone` needs. `OffLanes` is its half for the releases
  on callers and behind key barriers.

### Handles and chains (`HandleProofs`)

From `ReservationAssumption` (finitely many readers), for any number of calls:

* `AlwaysSerialized`, `NeverLeaks` (`[]InnerSerialized`, `[]NoLeak`), the action
  property `AlwaysClosed` (`ClosedForGood`) and the refinement
  `ImplementsSettlement == ReservationSpec => SettlesOnce`;
* `DropCopyIsReservation == DropCopySpec => ReservationSpec`, which gives all of
  them for the drop-copy wrapper.

`ReservationInv` says who holds the lifecycle mutex, that `readers` is the number
of reads admitted and not ended and is zero while a call is inside
(`ReadersCounted`), that a call which promised to close still has the closing to
do or finds it done (`ClosePending`), and that the wrapper's state and
`inner.resolved` agree with the native side (`ClosedKnown`, `NativeKnown`); the
last is what the refinement needs: a second commit is refused by a flag, and the
abstract `Settlement` knows only the native state.

From `ChainAssumption` (`MaxSteps` is a number), for every plan:

* `AlwaysClean`, `NeverStale`, `AlwaysTrueOutcome`, `AlwaysRetryUnsafeTrue`
  (`[]CleanBeforeFinally`, `[]NoStaleRead`, `[]OutcomeTrue`,
  `[]RetryUnsafeTrue`) and the action property `OnlyHooksCommit`
  (`CommittedByDecision`).

`ChainInv` ties what is open, readable and pending to the step the run is at
(`HandInv`, `ReadInv`), the fate of the steps to their side of it (`FateInv`) and
the status to the way the run ended (`EndInv`, `OutcomeInv`). `MarkInv` says that
`retryUnsafe` is the history it stands for, and that every error and every
observer is told it.

### The engine's operations (`PipelineProofs`)

From `PipelineAssumption`, for any number of callers: `NeverOrphans`,
`AlwaysRefusedIsUnapplied`, `AlwaysDestroyedOnce`. First come lemmas about the
operators of SyncEngine: whatever the native call answers, nothing of it is left
but a handle (`PreTradeLeaves`, `ReportLeaves`, `AdjustmentLeaves`,
`DomainLeaves`). `PipelineInv` then follows a call: it enters the engine once or
never (`AppliedInv`); a follow-up is about a request that was given out and holds
its mutex from the lock to the end (`FollowInv`); a handle is destroyed once
unless the status was undefined, and a wrapper that is open has a live one
(`HandleInv`).

### The library (`LibraryProofs`)

* `AlwaysServiceLive == MarketSpec => []ServiceLive`, from
  `MarketDataAssumption` (the marks for a clone are no services). `MutexInv`:
  Close has the value to itself, any other method inside found a handle;
  `FreedInv`: a handle is destroyed when it is forgotten.
* `AlwaysOwnedOnce`, `AlwaysCallbacksLive`, `AlwaysFailuresBlock`,
  `AlwaysKillSwitchHolds` (`PolicyCallsSpec => []PolicyOwnedOnce`,
  `[]CallbacksLive`, `[]FailuresBlock`, `[]KillSwitchHolds`),
  from `PoliciesAssumption`. `BuilderInv`: a policy handed over is unfinished,
  owned, or closed once, and only a builder that still builds has unfinished
  ones. `CallsInv`: an order that has not ended has no verdict, nothing pending
  and its payload; a mutation's callbacks live as long as its state is neither
  kept nor undone. `OutcomeInv`: an order without a verdict has nothing settled,
  which is why a panic in its only or last stage finds nothing kept; an order
  that came late was rejected, since whatever raised the kill switch holds it
  (`broken # {} => killed`) until both are cleared.
* `AlwaysLoadedWhole == LoaderSpec => []LoadedWhole` for any number of processes,
  builds, crashes and failed writes, from `LoaderAssumption` (files are distinct
  from their absence, a foreign file from an embedded build). `LoadedWhole` looks
  only at processes that run; `LoaderInv` adds why they got there: `CacheWhole`
  (a target is absent, or whole and of the build its path names), `TempWhole` (so
  is what is about to be renamed), `PathExists` (a resolved path is not empty,
  since nothing leaves the cache), `ExtractsOwn`, `OverrideOpens` and
  `OpenedWhole` (what was opened, by where it came from). Without `TempWhole` a
  rename could publish half a file; without `CacheWhole` a process that finds the
  target could open one.
* `AlwaysMemoryLive == ValuesSpec => []MemoryLive` and the action property
  `NeverResurfaces == ValuesSpec => NothingResurfaces`, for any number of variables
  and blocks, from `ValuesAssumption` (a null pointer is no block and no
  variable). `MemoryLive` looks at pointers, the collector at owners; `ValuesInv`
  relates them field by field. `Backing`: a pointer is the block of the owner
  beside it, or has no owner and is kept in the same field of the report it was
  borrowed from, and a value that was read borrows nothing but a lock.
  `Lenders`: only reports borrow, and never from a borrower, so that modifying a
  variable invalidates everything that depends on it. `OwnedLive`: what is owned
  is not freed. As sets rather than field by field `Backing` is not inductive:
  storing a string would take away the owner of another field's pointer.

The theorems on PolicyCalls, Pipeline, Reservation, Chain, MarketData, Loader and
Values are about the specifications named there; the runs `handles` and `library` start
one of these components at a time and take the same steps.

### Only model-checked

* Every liveness property (`OpsResolve`, `StopReturns`, `SectionsEnd`,
  `CallsEnd`, `ChainResolves`): fairness and ENABLED are out of the prover's
  reach.
* What the two runs of section 4 violate.

## 6. Not modelled

* Observers, durations, log texts, error wrapping beyond the marks callers test.
* The clock of the idle scan, and the `<-quit` cases of a send, which
  `RetiredIsEmpty` shows to be unreachable (a producer there holds the gate).
* A panic of the native library inside a lifecycle call of a reservation. In a
  chain it is modelled, both at the decision and in the cleanup.
* The options of the asynchronous builder and its observers: checked once, or
  without effect.
* What numbers are: `param` and `internal/native/param.go` pass arithmetic and
  formatting to the native library and convert its errors as SyncEngine does.
* `configure`: one native call per setter, with an error text to consume.
* The rules of built-in policies (native) and the setters of their options.
* Contexts and result lists lent to a hook, which must not keep them.
* `TypeOK` is stated where it is proved; the other modules rely on TLC evaluating
  every step and on their own invariants.
* Children of an order or adjustment that was rebuilt from a native handle borrow
  as a report's do; borrowing is modelled for reports, where a fill carries its
  lock out of the report.
* One group of an aggregate at a time, the service and the book one at a time,
  one account group: no code relates two of them.
* Lifetimes of quotes, and the ages of what is pushed: a quote that is read may
  have expired.
* A power failure between the loader's write and its rename: the file system keeps
  what a process wrote.

## 7. What is left

1. *Abstraction.* A per-key queue as the abstract specification of both
   strategies, refined by Sharded as long as the fence is not closed early; and
   Pipeline on top of it, so that the lane it assumes is the lane that is shown.
2. *Code.* The shard hash as an operator.
