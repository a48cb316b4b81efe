# Verification of the Scope network control plugin

TLA+ models, TLC runs and TLAPS proofs about the plugin in `src/`: a Go process
that follows the containers of a Docker host, reports them to Weave Scope and
changes the network of a container with `tc` when a user presses a button; and about
the programs of the repository's `tools/`: the runner and the scheduler of the
integration tests, the merging of coverage profiles and the deployment client.

## The system

| Component | State | Operations | Hard behaviour |
|---|---|---|---|
| Docker client (`docker.go`) | none of its own; one goroutine in a loop | subscribe, list and inspect, handle an event, unsubscribe, sleep 1 s | events late, lost or out of order; daemon calls that fail; panics that kill the process |
| Event delivery (vendored `go-dockerclient/event.go`) | `enabled`, `listeners`, channel `C`, `RWMutex` | add or remove a listener, monitor loop, one sender goroutine per event | a sender holds the read lock while it waits for the client |
| Store (`store.go`) | map id → (State, PID), one mutex | `Container`, `SetContainer`, `DeleteContainer`, `ForEach` | `ForEach` keeps the lock during the callback |
| Reporter (`report.go`) | none; reads the store | `RawReport`, `GetHandler` | daemon calls under the store's lock, panics in the callback |
| Traffic control (`tc.go`) | kernel qdiscs; a cache that is never made | `ApplyLatency`, `ApplyPacketLoss`, `ClearTrafficControlSettings` | works on a process id looked up earlier; several commands, any of which may fail |
| Plugin (`main.go`) | the socket and its directory | `/report`, `/control`, set-up of the socket, signals | requests run concurrently with each other and with the client; instances that overlap share one path |
| Runner (`tools/runner`) | free hosts, pending tests | `pick`, `parallel`, `run` | hosts shared by parallel tests, timeouts |
| Scheduler (`tools/scheduler`) | schedules, run times in a datastore | `record`, `schedule`, `gc` | shards that ask concurrently |
| Coverage merge (`tools/cover`) | the output profiles | `main`, `merge` | an algorithm on two sorted lists, repeated over all arguments |
| Deployment client (`tools/cmd/wcloud`) | none; the service's state | `deploy`, `list`, `events`, `logs`, `config` | lost requests and answers, several users at a time, times by the user's clock in whole seconds |

The client goroutine writes the store; report and control requests read it, each
in a goroutine of net/http, which recovers a panic of a handler and closes the
connection. A panic of the client goroutine, or of a goroutine of the library, ends
the process. The daemon is called by the client (list, inspect), by the reporter
(inspect, under the store's lock) and pushes events.

What makes each part correct:

- client: once the newest change of a container is handled, its entry is right;
  the client never stops following the daemon;
- store: one owner of the lock at a time, and it is always given back;
- reporter: a report shows one instant; every request ends;
- traffic control: `tc` runs in the namespace of the container that was asked for;
- process: an instance gets its socket and keeps it; a signal ends it and cleans up;
- runner: no host is used by two tests; every test is run;
- scheduler: the shards of a build divide the tests among them, whoever asks first;
- coverage: totals are right, and never of different sources;
- deployment client: what it says is done is done; a list has what was asked for.

`PROJECT.json` lists the components that are not modelled with the reason, and the
hazards with the properties that cover them. A hazard without a property has a note: mostly
the code does not guard against it, and a property of the same part is stated up to it (its
premise names the case), which delimits the hazard and does not catch it.

## Modules

| Module | Models | State |
|---|---|---|
| `ContainerIds` | ids common to all | constants only |
| `Docker` | the daemon, external: statuses, process ids, changes | `dock`, `dockPid`, `ver` |
| `EventListener` | event delivery | `monitor`, `listener`, `stream`, `spawned`, `sending` |
| `Store` | `store.go` | `containers`, `locked` |
| `DockerClient` | `docker.go`, composed with `EventListener`, `Store`, `Docker` | `pc`, `todo`, `work`; history `exact`, `stale` |
| `StoreClient` | what the client promises to the plugin: the abstract specification | `fetched` |
| `Requests` | requests in progress (`main.go`) | `req` |
| `Reporter` | `report.go`, and `getPod` of `tc.go` | |
| `TrafficControl` | `tc.go` and the kernel's qdiscs | `qdisc` |
| `Plugin` | `main.go`: `StoreClient`, `Reporter` and `TrafficControl` together | history `right` |
| `Runner` | `tools/runner/runner.go` | `hosts`, `outstanding`, `failed`, `pc`; per test `st`, `on`, `errored`, `cmd` |
| `Lifecycle` | `main.go`: `main`, `setupSocket` and `setupSignals` of several processes | `dir`, `socket`, `main`, `handler`; history `disturbed`, `early` |
| `Scheduler` | `tools/scheduler/main.py` | `average`, `stored`; per request `at`, `cost`, `placed`, `answer` |
| `AtomicSchedule` | what the scheduler promises to the shards: the abstract specification | `division`, `told`, `share` |
| `Build` | the shards of a build, composed with `Scheduler`: `runner.go`'s requests, and the scripts `tools/test`, `tools/sched` | `client`, `toRun`, `posting`, `failing`, `status`, `others`; history `ran` |
| `Cover` | `tools/cover/cover.go` | `inputs`, `n`, `todo`, `output`, `pc`, `file`, `i`, `j`, `blocks` |
| `Wcloud` | `tools/cmd/wcloud`; the service, external | `service`, `created`, `now`, `requests`, `reply`, `runs`; per user `run`, `waiting`, `command`, `exit`, `shown`; history `acked`, `asked` |
| `DockerClientProofs`, `PluginProofs`, `RunnerProofs`, `LifecycleProofs`, `BuildProofs`, `CoverProofs`, `WcloudProofs` | theorems and proofs | |
| `SumProofs` | lemmas about sums over finite sets | |
| `MCPlugin`, `MCWcloud` | symmetry sets for TLC | |
| `MCRunner`, `MCBuild`, `MCCover` | tests with their sizes, and arguments, for TLC | |

`DockerClient` has the detail of `docker.go`; `Plugin` is built on `StoreClient`,
which hides how the client learns of changes. `DockerClient` implements
`StoreClient` (checked and proved), so what `Plugin` shows holds with the real
client. Within `DockerClient` the lock is never taken by others: that contention
belongs to `Plugin`. In the same way `Scheduler` implements `AtomicSchedule`, where an answer
takes one step and the tests are divided at one moment.

### How the actions follow the code

`DockerClient`: `Subscribe` is `AddEventListener`; `ListContainers` / `ListFails`
the call at line 63; for each listed container `InspectFails`, `InspectListed` or
`InspectRemoved` (the `nil, nil` of `getContainerState`, which line 76 dereferences:
the process dies); `StoreListed` its `updateContainer`. `ReceiveEvent` is the receive
and the switch of `handleEvent`, `GetContainerPID` / `GetContainerPIDFails` the
inspection, `ApplyEvent` the update. `ListenerClosed` leaves the loop, `Unsubscribe`
and `StopMonitor` are the deferred `RemoveEventListener`, which takes the write lock twice, `Wake`
is the end of the sleep. State, process id
and store write are separate steps because the daemon runs on between them.
`AddEventListener` cannot fail as the plugin uses it, so line 37 has no action.

`EventListener`: an event announced while the stream is up goes into `stream` (the
HTTP body and the channel `C`), `MonitorEvent` moves it to `spawned` (a `sendEvent`
goroutine without the read lock), `SendEvent` to `sending` (blocked on the channel
with the read lock) or drops it. Taking the write lock is the guard `sending = {}`. A sender that
comes between the two halves of `RemoveEventListener` finds the monitor on and nobody listening
(`ErrNoListeners`), and the monitor loop switches itself off.

`Plugin`: a report takes the lock (`ForEachBegins`), visits one entry per step and
gives it back at the end or in the deferred call of a panic (`NodePanics`). A control
request looks up the process id (`GetHandler`), then runs its handler with one step
per system call: open the namespace, `tc qdisc replace`, `tc qdisc change`, read the
namespace id. When the main process of a container ends, its namespace goes
(`NamespaceGone`) and its id is free for another container or a process of the host.

`trafficControlStatusCache` is declared at `main.go:105` and never made, so a lookup
misses, a delete does nothing and an assignment panics. `ApplyLatency` therefore
never reaches `tc`, and `ApplyPacketLoss` always panics after it; the three latency
buttons differ only in a value that is never used, and are one control in the model.

`Runner` stands alone: `PickTest` and `NothingFits` are the inner loop of `parallel`,
`ReceiveResult` the receive that ends a turn of the outer one, `NextTest` and
`TestReturns` a turn of `sequential`. In a test's goroutine `CommandDone` and `Timeout`
are the two cases of the select in `run`, `UpdateScheduler` the request that follows an
error. The command is a process of its own (`cmd`): it ends when it likes
(`CommandEnds`), and a timeout does not stop it. The lists of hosts and tests are sets;
`pick` takes a largest test that fits, as the sorted list makes it do.

`Lifecycle`: every instance has a main goroutine (`Clean`, `CleanDir`, `MkdirAll`, `Listen`
are `setupSocket`, `Serve` is the rest of `main`) and a signal handler (`HandlerClean`,
`HandlerCleanDir`, `Exit`). `MkdirAll`, `Listen`, `NewPlugin` and `http.Serve` may fail and end the
process (`noDir`, `noListen`, `noPlugin`, `noServe`). `os.RemoveAll` is two steps, the unlinking of the file and the
removal of the directory, because another process may create a file in between; on an empty
directory it is one. A process may crash anywhere and leaves everything as it is.

`Scheduler`: a request for a schedule is served in steps: `LookUp` (line 60), one `ReadTime`
per entity of `get_multi` (65), one `Place` per round of the greedy loop (75-82), `Insert` for
`get_or_insert` (85). `record` is one transaction. `Build` adds the two clients: `Receive` or
`GiveUp` for the answer, `RunTest`, `Report` or `ReportLost` for run times, `Finish`.
The module shows what `Runner` takes for granted: where its list of tests comes from.

`Cover`: `ReadInput`, `FirstProfile`, `StartMerge`, `InputDone`, `PrintAll` are `main`; `Both`,
`Left`, `Right` are the cases of one iteration of `merge` with its two tails, `EndMerge` its
return.

`Wcloud`: one action per command of `cli.go` (`usage` for everything that does not parse), which
sends a request or ends; one per function of `client.go`, which turns the answer into output
and exit status. `Handle` is the service, `ConnectionLost` the error of `Do`. `list` and `events`
send a window: the user's clock, `-since` before it and itself, each rounded down to a second
(`Window`, `Unix`). A user's clock may differ from the service's by up to `Skew`, differently for
every command; `Tick` lets time pass. What `events` and `logs` print is passed on as it comes and
is not modelled. A request that only reads is forgotten when its command has given up: it changes
nothing.

The history variables are read by properties only. `exact[c]`: the last update of c's
entry was for c's latest change. `stale[c]`: the latest change of c is unknown to the
client and not on its way (it was not announced, or its event or its inspection was
lost). `right[r]`: the id that r looked up was its container's and still is.
`disturbed[i]`: while i was alive another instance started or was told to stop, or one was
busy with the directory when i started. `early[i]`: i was told to stop before it listened.
`ran[t]`: the shards that ran t. `acked`: what users were told is done; `asked[u]`: when
u's `list` began, its `-since`, and the deployments in `acked` then.

### Simplifications

- Each container has a network namespace of its own. Containers of one pod that share
  a namespace are outside `RightTarget`.
- After a decoding error other than end of file the library connects a second time;
  this is not modelled.
- The monitor loop and the reader of an earlier subscription have ended before the client
  subscribes again; the code sleeps a second in between, and the loop looks at `enabled`
  every 100 ms. A late sender stays in `spawned` and may still deliver, as in the code.
- `AddEventListener` takes the lock twice, too; it is one step, because what a sender left over
  from before can see in between (monitor on, no listener) it can see just as well later. Of
  several senders that find nobody listening only the first matters: a second one may wait for
  room in `errC` with the read lock, which is not modelled.
- A container that exists may be inspected with an error at any time.
- A shard gives up on every answer that is an error. `getSchedule` does not look at the status:
  it relies on an error page being no JSON. An error that is a JSON object would be taken for an
  empty schedule.
- A test is its position in the list that every shard sends. Run times are in tenths of a
  second, and the moving average is rounded down where the code has a float.
- What a coverage block is besides its start and its count is its shape: `merge` only compares
  it. `ParseProfiles` is external: it returns blocks sorted by their start, with different
  starts.
- The deployment service is external: it keeps a list of deployments and one configuration,
  handles a request at one moment and answers with an error when it likes. It notes the time when
  it creates a deployment, and lists those created from `from` through `through`, both included.
  Configurations are numbered in the order of their acceptance.

## Runs

Passing:

| Run | Bounds | What it shows |
|---|---|---|
| `client` | 1 container, 2 process ids, 3 changes, `FairSpec` | `TypeOK`; `PidFresh`: the recorded process id is right once the newest event is handled, whatever the order of delivery; `ExactAgrees`: an entry updated for the newest change says what the daemon says; `Resubscribes`; `CatchesUp`: no event waits for ever, unless a call of the daemon does not return; `ImplementsPromise`: the client implements `StoreClient` |
| `plugin` | 2 containers that compete for 1 id, 2 changes each, 1 request | `TypeOK`; `RightTarget` |
| `requests` | 1 container, 2 requests, no announced changes, `FairSpec` | `LockOwner`; `Snapshot`; `RequestsEnd`; `ClientRecords` |
| `runner` | 3 hosts; 4 tests that need 3, 2, 2 and (no number) 1; `FairSpec` | `TypeOK`; `HostsPartitioned`; `Complete`; `ResultToCome`: nobody is waited for in vain; `Terminates` although no command need ever end |
| `build` | 3 tests, 2 shards, run times 0.6 s and 6 s, 1 record of another build, both clients | `TypeOK`; `SharesAreDisjoint`; `GreedyIsBalanced`; `GreenBuildRanAll`; `ImplementsAtomic`: the scheduler implements `AtomicSchedule` |
| `lifecycle` | 3 instances, with fairness | `TypeOK`; `UndisturbedServes`: an instance gets and keeps its socket whatever others left behind; `StopCleansUp`; `SignalEnds`; `ComesToServe` |
| `cover` | 3 arguments, 2 files, blocks at up to 3 places with 2 shapes | `TypeOK`; `MergeIsRight`: `merge` against its reference; `PrintsTotals`: the sum over all arguments; `DifferentSourcesRefused` |
| `wcloud` | 2 users, 3 commands between them, seconds of 2 moments, clocks off by 1, 4 moments pass, `-since` of 0 and 4 | `TypeOK`; `AcknowledgedIsDone`; `ListIsRight`: a list has every acknowledged deployment that is between a second and `-since` old, and none much older |

Runs that end in a violation, each a disagreement between the code and what the
repository says of it:

| Run | Shows |
|---|---|
| `remove_listener` | listing fails while a sender waits for the client: `RemoveEventListener` never returns and the plugin no longer follows the daemon |
| `no_node_for_destroyed` | a running container dies and is destroyed; its "die" is handled after its "destroy" and puts it back into the store, for good, as stopped: the report builds a node for it, which `report.go:143` excludes |
| `report_answered` | a report panics on an entry whose container cannot be inspected |
| `different_hosts` | in parallel mode the command of a test that timed out still runs when its hosts are given to the next test, while `tools/README.md:20-23` says "in parallel, on different hosts" |

Why the bounds are enough. Client steps concern one container, and entries of different
containers are independent, so `client` has one container and spends its states on its
history: it is running, stopped or not yet there at first, and with three changes and two process
ids a running container dies, is started with another id and is paused, dies or, in another
history, is destroyed, while older events are in flight. `plugin` has
two containers because the id of one is reused by the other, `requests` two requests
because they compete for the lock. `requests` needs no changes of the daemon: waiting is
about the lock, the client may record any state in any order, and inspection may fail in
any state. All the safety properties are proved below for every size.
`MaxChanges` bounds the announced changes of a container; `IgnoredBound` lets one
event that `handleEvent` ignores be in flight at a time. `plugin` uses the symmetry of its
containers and `wcloud` that of its users; no liveness run uses symmetry.

The `runner` instance has more demand than hosts, so tests wait, one test needs every
host, a smaller test overtakes one that does not fit, and hosts come back in any order.
Its run does not check deadlock because the runner ends; neither do `build`, `lifecycle`,
`cover` and `wcloud`, where everybody is done in the end.

In `build` two shards compute schedules from different averages: a record by the other build or
by a shard that is done falls between the reads of one, and with costs of 0.6 s, 2 s, 6 s and
one test on two hosts (`MCParallelism`) the schedules do differ. Three instances in `lifecycle`
are one that leaves a socket, one that serves and one that takes over. Three arguments in
`cover` are what it takes for the first and the last to differ while the second agrees with
both; two blocks on one line and one on the next make both comparisons of `Before` decide.
Three commands in `wcloud` are two deployments and a list, or a request of a command that has
given up and arrives during the next one; in four moments a deployment grows old enough to enter
the list that goes back four and to leave the one that goes back none, and both limits of
`ListIsRight` fail when moved by a second.
`MaxOther`, `MaxRuns` and `MaxTime` are bounds of the models, not of the code.

Deadlock is not checked in the `DockerClient` runs: the client can stop in
`RemoveEventListener` (run `remove_listener`), with the daemon at `MaxChanges`. The
`Plugin` runs check it.

### Fairness

Goroutines that can run do run: in `DockerClient` weak fairness of what the client does by itself
(`LocalStep`), of each sender and of the monitor's loop. Nothing is assumed of the daemon: a stream
may stay up or break, connecting may take for ever, and calls may fail or, as the client sets no
timeout, never return. `CatchesUp` and `Resubscribes` say so: they allow that the client waits for
`ListContainers` or `InspectContainer` for ever (`Calling`). In `Plugin`, steps of a report or of a
handler are weakly fair. This does assume something: that `InspectContainer`, called under the
store's lock, and the commands of `tc` return. A daemon that never answers a report keeps the lock
and stops every other request and the client, and `RequestsEnd` and `ClientRecords` do not hold
then. Whoever waits
for the store's mutex gets it in the end although others take it meanwhile: strong
fairness of `ReportBegins`, `Lookup` and `Record`. The plugin is built with Go 1.6, whose
mutex has no starvation mode, so this is an assumption about a mutex that is not always
contended, as with a report every few seconds. The InfluxDB query has no timeout and no
fairness: nothing is claimed of the end of an hourglass request. In `Runner` the main
goroutine and the select of each `run` are weakly fair (the timer fires); commands and
the request to the scheduler, which has no timeout, are not. In `Lifecycle` both goroutines of
a living process run (the Go scheduler); starts, signals and crashes are not fair. `Build`,
`Cover` and `Wcloud` state safety only and have no fairness.

## Proofs

The theorems about the plugin are for every set of containers, process ids and requests and
every `MaxChanges`, from the assumptions named in the modules (`PidsAssumption`: process ids are positive;
`NobodyAssumption`, `HostAssumption`: placeholders are not containers;
`MaxChangesAssumption`).

`DockerClientProofs`:

- `TypeCorrect`: `Spec => []TypeOK`, one lemma per kind of step.
- `PidsFresh`: `Spec => []PidFresh`. `PidFresh` is not inductive: after the client has
  inspected a container and before it has written the entry, the entry may be wrong, and
  a write only restores it if the id in hand was right. `PidInv` says so: if the newest
  change is neither lost nor on its way, the id in hand (when there is one) or else the
  recorded one is the daemon's; and a container that does not exist has no process, which
  is what makes the 0 of `getContainerPID` right.
- `ExactEntriesAgree`: `Spec => []ExactAgrees`. What an entry says depends on the event it was
  written for and on when the process id was read, so `ExactInv` follows a change all the way:
  no event in flight is newer than its container; the newest one fits the daemon's status
  (`EventFits`, with what `Fits` says each event leaves behind); what the client is about to
  write, if it is for the newest change, fits too, process id included (`WorkFits`); and only a
  running or paused container has a process (`StatusPid`), so a stopped entry's 0 is right. Events
  and work are only ever about containers that exist or have existed, which `ClientKeepsPromise`
  uses as well.
  TLC checked `ExactInv` on the instance of `client` before it was proved.
- `ClientKeepsPromise`: `Spec => ImplementsPromise`, step by step: an inspection is
  `Fetch`, `updateContainer` is `Record`, a panic is `Crash`, the rest stutters.

`PluginProofs`:

- `TypeCorrect`: types, and that live containers have different process ids.
- `TargetRight`: `Spec => []RightTarget` through `TargetInv`: between lookup and opening
  the namespace, the id held is still the container's; then no other container has it.
- `LockOwned`: `Spec => []LockOwner`, inductive as it stands with the types.
- `ReportIsSnapshot`: `Spec => []Snapshot` through `WalkInv` (a report starts empty; what
  it has yet to visit is in the store) and `LockOwner` (nobody writes during the walk).

`RunnerProofs`, from `RunnerAssumption` (finite sets, some host, suffixes are numbers or
missing):

- `TypeCorrect`: types together with `RunnerInv`. The type of `outstanding` needs it: a
  result can only be taken from a test in progress, and `outstanding` is their number.
- `SummaryComplete`: `Spec => []Complete`: at the end nothing waits and the number of
  tests in progress is 0.
- `HostsArePartitioned`: `Spec => []HostsPartitioned`, inductive with the types.
- `NeverWaitsForNobody`: `Spec => []ResultToCome` with `LoopInv` (the loop goes round only with a
  test left or in progress) and `HostsPartitioned`: if no test is in progress every host is free,
  so a test that is left fits.
- `StepsRunOut`: every step decreases `Rank`, a sum over the tests of what is left to do about
  each. With `NeverWaitsForNobody` this is what `Terminates` says, short of its fairness: no run
  goes on for ever, and one that stops early was left waiting by a test in progress.

`LifecycleProofs`, for any instances, from `LifecycleAssumption` (`NoSocket` is not one):

- `TypeCorrect`; `UndisturbedKeepSocket`: `Spec => []UndisturbedServes`; `StopLeavesNothing`:
  `Spec => []StopCleansUp`. All from `LifecycleInv`: while an instance is undisturbed every other
  living instance leaves the directory alone (`Quiet`), so the directory is as its own main
  goroutine (`Progress`) or its own handler (`Stopping`) has left it. `OwnStep` and `OtherStep`
  are the steps of the instance itself and of another.

`SumProofs` is about `SumFunctionOnSet` of the community modules, for any finite set: it is a
number, it does not depend on the order in which the fold picks members (`SumRemove`, `SumAdd`),
and equal functions have equal sums (`SumSame`). The fold is a recursive function on sets chosen
with `CHOOSE`; the induction theorems of the library cannot be instantiated here, so the proofs
take a smallest set (or number) for which the claim fails and show that there is none.

`BuildProofs`, for any number of tests and shards, from `SchedulerAssumption` and
`BuildAssumption` (numbers, and placeholders that are none):

- `TypeCorrect`.
- `SharesDisjoint`: `Spec => []SharesAreDisjoint` through `ScheduleInv`: the stored schedule is a
  partition of the tests, every assignment in the making has disjoint shares, every answer comes
  from the stored schedule. Nothing is needed of the averages: whatever was read, the first
  schedule stored is everybody's.
- `GreenBuildComplete`: `Spec => []GreenBuildRanAll` from the above and `RunInv`: a shard runs only
  tests of its answer and does not succeed before it has run them all.
- `GreedyBalances`: `Spec => []GreedyIsBalanced` through `BalanceInv`: costs do not change once a
  test has been placed, and whatever is left costs no more than anything that was placed. The
  test that is placed is then the cheapest of its share, and its share was the least.
- `SchedulerAtomic`: `Spec => ImplementsAtomic`, step by step from `ScheduleInv`: a look-up that
  finds a schedule and the insertion are `Tell`, the rest stutters.

`CoverProofs`, for any arguments, from `CoverAssumption` (what `ParseProfiles` returns):

- `TypeCorrect`; `MergeRight`: `Spec => []MergeIsRight` through the loop invariant `Partial`: the
  result so far is the merge of what both indexes have passed, and lies before what is left.
  `NotInOther` is the heart: a block that is copied from one list starts nowhere in the other.
- `SourcesChecked`: `Spec => []DifferentSourcesRefused` through `SourceInv`: blocks of the output and
  of the arguments handled so far are alike, both ways, so comparing with the output is as good
  as comparing with every earlier argument.
- `TotalsPrinted`: `Spec => []PrintsTotals` through `TotalInv`: at every moment a block of the output
  has the sum of its counts over the arguments handled so far. A merge adds one summand to each
  sum, which is 0 for a block that the argument does not have.

`WcloudProofs`, for any users, bounds, `Second` and `Skew`, from `WcloudAssumption`:

- `TypeCorrect`; `AcknowledgedDone` and `ListsAreRight` through `WcloudInv`. `RequestInv`: a request
  that somebody waits for is the command that is running, its window, if it is a list, is within
  a second and `Skew` of what the user wants (`FitsWindow`), and what it asks for has not been done
  yet, so that the time of a deployment never changes. `ReplyInv`: an answer says what the service
  held, and a list is right from the moment it is made. `UnixRounds` is the arithmetic of the
  rounding.

Only model-checked: the liveness properties (`Resubscribes`, `CatchesUp`, `RequestsEnd`,
`ClientRecords`, `Terminates`, `SignalEnds`, `ComesToServe`), because fairness is out of the
prover's reach, and the runs that end in a violation. Every invariant and every refinement that a
passing run checks is proved.

## Plan

Done: the Docker client with event delivery, the store, the plugin with its requests, the
promise between them, the life of its processes, the test runner, the scheduler and the builds
that use it, the coverage merge, the deployment client, and the safety theorems of all of them.
Left, in this order:

1. The safety half of the other liveness properties, as for `Terminates`: that an instance of
   `Lifecycle` that is not done, and a request of `Plugin` that is not answered, has a step that
   nobody else can take away.
2. The second connection of `event.go` (below), if the daemon's log of events can be kept small.

## Not modelled

- The second connection of the vendored event monitor: after a decoding error other than end of
  file the decoder returns the same error for ever, so the monitor connects again and again
  with `since=lastSeen`; events arrive twice and the reader may panic on a closed `errC`. Which
  events are repeated depends on a log of all the daemon's events.
- `gc` of the scheduler, which compares the lists of two outside services and deletes virtual
  machines.
- `TrafficControlStatus` and what `ApplyLatency` does with it: dead code, because the cache is never
  made. The commented-out InfluxDB parsing, and `parseStatus`, which nobody calls.
- Labels, icons and templates of a report; console output and tables of the tools.
- Scripts other than `tools/test` and `tools/sched`, deployment files, vendored code other than
  `event.go`: input and output, or other people's programs.

## Seen while modelling

Two more disagreements with the repository's own texts, which need no run to be seen:

- An hourglass button panics on the cache that was never made (`tc.go:309`) and sets nothing, while
  `src/README.md:60-61` says that the buttons set 2000, 1000 and 500 ms. One step of one request
  shows it.
- The scissor button also sets a random delay (`tc.go:102`), while the same lines of the README only
  speak of packet loss.

Behaviour that the models have and that no text of the repository contradicts:

- A stopping instance removes the directory (`main.go:151`) even if the next one already listens
  there; the next one then serves where nobody can reach it. `UndisturbedServes` is stated for
  instances to which this does not happen.
- A signal during `setupSocket` can leave the directory behind: the handler is done when `main`
  creates it (`early`).
- A test that needs more hosts than there are is never started and the runner waits for ever
  (`runner.go:231`); `ResultToCome` and `Terminates` are stated for tests that fit.
- `runner.go:124` sends run times only of tests that ended with an error, so averages are of
  failures; `tools/test` sends all.
- `wcloud list` leaves out what was deployed in the current second, or later by the user's clock
  (`cli.go:128`), even though the deployment has been acknowledged.
- `wcloud` exits with 0 when its arguments do not parse.
